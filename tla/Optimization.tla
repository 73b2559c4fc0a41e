---------------------------- MODULE Optimization ----------------------------
(* The optimization engine: three scenario models over the building's        *)
(* readings and undismissed findings, and the bounds check that turns an     *)
(* implausible result into an incident.  kWh are hundredths, percentages are *)
(* hundredths of a percent, rates tenths of a rupee, payback tenths of a     *)
(* month.                                                                    *)
EXTENDS BuildingData

CONSTANT WindowDays    \* settings.window_days

ASSUME OptimizationAssumption == WindowDays \in Nat \ {0}

(* round(x, 2) of n / d.                                                     *)
Rounded(n, d) == (2 * n + d) \div (2 * d)

TariffPeakHours == 9..18
Consumed(db, rows) == SumFunctionOnSet(KwhOrZero(db), rows)
AtPeak(rows) == {r \in rows : Hour(r.ts) \in TariffPeakHours}

(* peak_and_offpeak_rates(): the declared rate, or the default.              *)
PeakRate == IF Declared.peakRate = None THEN 95 ELSE Declared.peakRate
OffpeakRate == IF Declared.offpeakRate = None THEN 60 ELSE Declared.offpeakRate

(* blended_tariff_rate(), rounded to a hundredth of a rupee.                 *)
BlendedRate(db, rows) ==
    LET all == Consumed(db, rows)  peak == Consumed(db, AtPeak(rows))
    IN  IF all = 0 THEN 10 * OffpeakRate
        ELSE Rounded(10 * (peak * PeakRate + (all - peak) * OffpeakRate), all)

Larger(a, b) == IF a > b THEN a ELSE b

Unavailable(model) == [model |-> model, status |-> "unavailable"]

Scenario(model, justifying, base, opt, pct, payback) ==
    [model |-> model, status |-> "passed", justifying |-> justifying,
     baseline |-> base, optimized |-> opt, pct |-> pct, payback |-> payback]

(* load_shift_v1: the first finding citing a rule; the linear programme      *)
(* moves two fifths of the peak load where off-peak is cheaper, else none.   *)
LoadShift(db, found) ==
    LET citing == {f \in found : f.layer = "domain_rule"}
        Shifted(f) ==
            LET peak  == Consumed(db, AtPeak(RowsOf(db, f.row.circuit)))
                fifth == IF OffpeakRate < PeakRate THEN 2 ELSE 0
            IN  IF peak = 0 THEN Unavailable("load_shift_v1")
                ELSE Scenario("load_shift_v1", {f}, peak,
                              Rounded(peak * (5 - fifth), 5), fifth * 2000, 0)
    IN  IF citing = {} THEN {Unavailable("load_shift_v1")} ELSE {Shifted(f) : f \in citing}

(* setpoint_adjustment_v1: the first finding on an HVAC circuit; three       *)
(* percent for each of two degrees.                                          *)
SetpointAdjustment(db, found) ==
    LET hvac == {f \in found : CircuitType[f.row.circuit] = "hvac"}
        Relaxed(f) ==
            LET base == Consumed(db, RowsOf(db, f.row.circuit))
            IN  IF base = 0 THEN Unavailable("setpoint_adjustment_v1")
                ELSE Scenario("setpoint_adjustment_v1", {f}, base, Rounded(base * 94, 100), 600, 0)
    IN  IF hvac = {} THEN {Unavailable("setpoint_adjustment_v1")} ELSE {Relaxed(f) : f \in hvac}

(* get_irradiance(): tenths of a kWh per square metre and day, by latitude   *)
(* on either side of the equator.                                            *)
Irradiance ==
    LET lat == Declared.latitude
    IN  IF lat = None THEN None
        ELSE IF lat \in -15..15 THEN 56
        ELSE IF lat \in -23..23 THEN 52
        ELSE IF lat \in -30..30 THEN 48
        ELSE IF lat \in -90..90 THEN 42 ELSE None

(* solar_offset_v1: the roof's yearly generation against the consumption     *)
(* of the window made annual; 18 percent panels at a 75 percent ratio,       *)
(* 6750 rupees of panels per square metre, never repaid where nothing (under *)
(* a tenth of a rupee a year) is saved.                                      *)
SolarOffset(db, found) ==
    LET window == Consumed(db, Readable(db))
        annual == Rounded(window * 365, WindowDays)
        made   == (Declared.rooftop * Irradiance * 135 * 365) \div 100
        opt    == Larger(annual - made, 0)
        saved  == (annual - opt) * BlendedRate(db, Readable(db))
        months == IF saved < 1000 THEN 99990
                  ELSE Rounded(Declared.rooftop * 6750 * 1200, saved \div 1000)
    IN  {IF \/ found = {}
            \/ Declared.rooftop \in {None, 0}
            \/ Irradiance = None
            \/ window = 0
         THEN Unavailable("solar_offset_v1")
         ELSE Scenario("solar_offset_v1", found, annual, opt,
                       Rounded((annual - opt) * 10000, annual), months)}

(* validate_scenario(); consumption can never rise, and emissions follow it. *)
Inconsistent(s) ==
    LET implied == Rounded((s.baseline - s.optimized) * 10000, s.baseline)
    IN  s.baseline > 0 /\ (implied - s.pct > 100 \/ s.pct - implied > 100)
OutOfRange(s) == s.pct \notin 0..6000
PaybackImplausible(s) == s.payback > 1200

(* Mutant: the payback ceiling is not checked.                               *)
EnforceBounds_NoPayback(s) ==
    IF s.status = "passed" /\ (Inconsistent(s) \/ OutOfRange(s))
    THEN [s EXCEPT !.status = "rejected"] ELSE s

(* _enforce_bounds(): a violation makes the scenario unavailable and is      *)
(* saved as an incident.                                                     *)
EnforceBounds(s) ==
    IF s.status = "passed" /\ (Inconsistent(s) \/ OutOfRange(s) \/ PaybackImplausible(s))
    THEN [s EXCEPT !.status = "rejected"] ELSE s

(* get_justifying_findings(): every finding not dismissed.                   *)
Justifying(found) == {f \in found : f.status # "dismissed"}

(* generate_scenarios(): the possible outcome lists; the findings come back  *)
(* in no stated order, so which one is first is open.                        *)
GenerateScenarios(db, found) ==
    LET j == Justifying(found)
    IN  {{EnforceBounds(a), EnforceBounds(b), EnforceBounds(c)} :
            a \in LoadShift(db, j), b \in SetpointAdjustment(db, j), c \in SolarOffset(db, j)}
=============================================================================
