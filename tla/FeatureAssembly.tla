--------------------------- MODULE FeatureAssembly ---------------------------
(* Feature assembly and the versioned feature row (FeatureSetV1): rolling    *)
(* statistics of a circuit's readings, merged with what the decomposition    *)
(* and the rule engine found at the same circuit and hour.                   *)
EXTENDS RuleEngine, TLC

CONSTANT RollingHours   \* the trailing window of the rolling statistics

ASSUME RollingAssumption == RollingHours \in Nat \ {0}

(* Ratios are kept exact, as a numerator over a denominator.                 *)
Ratio(n, d) == [num |-> n, den |-> d]
Total(db, rows) == SumFunctionOnSet(KwhOrZero(db), rows)
Measured(db, rows) == {r \in rows : db[r].kwh # None}

(* rolling(window, min_periods=1).mean() over (ts - window, ts].             *)
RollingBaseline(db, r) ==
    LET w == {q \in RowsOf(db, r.circuit) : r.ts - RollingHours < q.ts /\ q.ts <= r.ts}
    IN  Ratio(Total(db, w), Cardinality(w))

PeakHours == 9..20
OfficeHours == 8..17
BusinessDays == 1..5

PeakOffpeakSplit(kwh, ts) ==
    IF kwh \in {None, 0} THEN None ELSE IF Hour(ts) \in PeakHours THEN 1 ELSE 0

AfterHoursRatio(kwh, ts) ==
    IF kwh = None THEN None
    ELSE IF Hour(ts) \in OfficeHours /\ Weekday(ts) \in BusinessDays THEN 0 ELSE 1

(* Weekend after-hours mean over the weekday after-hours mean, which is 1 kWh *)
(* where no weekday reading exists; none where it is zero.                   *)
WeekendFloorLoad(db, r) ==
    LET after == {q \in Measured(db, RowsOf(db, r.circuit)) : Hour(q.ts) \notin OfficeHours}
        ends  == {q \in after : Weekday(q.ts) \in {6, 7}}
        week  == {q \in after : Weekday(q.ts) \in BusinessDays}
        base  == IF week = {} THEN Ratio(100, 1) ELSE Ratio(Total(db, week), Cardinality(week))
    IN  IF Weekday(r.ts) \notin {6, 7} \/ ends = {} \/ base.num = 0 THEN None
        ELSE Ratio(Total(db, ends) * base.den, Cardinality(ends) * base.num)

EfficiencyRatio(db, r) ==
    LET b == RollingBaseline(db, r)
    IN  IF db[r].kwh = None \/ b.num = 0 THEN None ELSE Ratio(db[r].kwh * b.den, b.num)

(* What from_components() assumes of a row the decomposition said nothing    *)
(* about: a business day of good quality.                                    *)
NoStlFields == [day |-> "business_day", low |-> FALSE, residual |-> FALSE]

(* Mutant: the fires of a circuit are merged without regard to the hour.     *)
RuleFiresOf_AnyHour(fires, r) == {f.rule : f \in {g \in fires : g.circuit = r.circuit}}

(* rule_fires_by_circuit[circuit][ts]: the rules that fired on the row.      *)
RuleFiresOf(fires, r) ==
    {f.rule : f \in {g \in fires : g.circuit = r.circuit /\ g.ts = r.ts}}

(* FeatureSetV1: what a row may hold; ratios are never negative, and at most *)
(* one where the field says so.                                              *)
IsRatio(x) == x # None => (x.num >= 0 /\ x.den > 0)
IsFeatureSet(f) ==
    /\ IsRatio(f.baseline) /\ IsRatio(f.floor) /\ IsRatio(f.eff)
    /\ {f.peak, f.after} \subseteq {0, 1, None}
    /\ f.fires \subseteq RuleIds
    /\ f.low => ~f.residual

(* from_components(): statistics, decomposition fields and rule indicators.  *)
FromComponents(db, stl, fires, r) ==
    LET s == IF r \in DOMAIN stl THEN stl[r] ELSE NoStlFields
    IN  [baseline |-> RollingBaseline(db, r),
         peak     |-> PeakOffpeakSplit(db[r].kwh, r.ts),
         after    |-> AfterHoursRatio(db[r].kwh, r.ts),
         floor    |-> WeekendFloorLoad(db, r),
         eff      |-> EfficiencyRatio(db, r),
         residual |-> s.residual, day |-> s.day, low |-> s.low,
         fires    |-> RuleFiresOf(fires, r)]

(* assemble(), for every circuit that has a readable row.                    *)
Assemble(db, stl, fires) == [r \in Readable(db) |-> FromComponents(db, stl, fires, r)]

(* save_features(): an upsert by circuit and hour.                           *)
SaveFeatures(store, features) ==
    [r \in DOMAIN features \cup DOMAIN store |->
        IF r \in DOMAIN features THEN features[r] ELSE store[r]]

(* get_features_for_building(), low-quality rows left out by the trainers.   *)
UsableRows(features) == {r \in DOMAIN features : ~features[r].low}

(* collect_rule_ids(): only rules that fired on some usable row.             *)
CollectRuleIds(features) == UNION {features[r].fires : r \in UsableRows(features)}

BaseFeatureNames ==
    {"rolling_baseline_kwh", "peak_offpeak_split", "after_hours_kwh_ratio",
     "weekend_floor_load", "rolling_efficiency_ratio", "stl_residual_magnitude",
     "day_type_encoded"}

(* feature_names(): the base names and one indicator per rule of the model.  *)
FeatureNames(rules) == BaseFeatureNames \cup rules
=============================================================================
