------------------------- MODULE MCBuildingAnalysis -------------------------
(* An instance of BuildingAnalysis for TLC: an HVAC circuit and a plug-load  *)
(* circuit, two working hours of a Wednesday and one of a Saturday.          *)
EXTENDS BuildingAnalysis

CONSTANT none

Hvac == 1
Plugs == 2
TwoCircuits == {Hvac, Plugs}
TypeOf == (Hvac :> "hvac") @@ (Plugs :> "plug_load")

Noon == 60          \* Wednesday, 12 h
Night == 70         \* Wednesday, 22 h
Weekend == 132      \* Saturday, 12 h
ThreeSlots == {Noon, Night, Weekend}

Building == [baseline |-> 1000, schedule |-> [days |-> 1..5, start |-> 8, end |-> 18],
             rooftop |-> 1, latitude |-> 20, peakRate |-> 29, offpeakRate |-> 20]

At(c, t) == [circuit |-> c, ts |-> t]
Reads(kwh, status) == [kwh |-> kwh, status |-> status]

(* The night fires the rule of the HVAC circuit, and with so much of the     *)
(* load off-peak, solar panels take more than ten years to repay.  The two   *)
(* hours of the Wednesday make a cohort, the Saturday alone does not.        *)
Ordinary == (At(Hvac, Noon) :> Reads(2000, "pass"))
         @@ (At(Hvac, Night) :> Reads(1500, "pass"))
         @@ (At(Plugs, Weekend) :> Reads(1100, "degraded"))
(* A dead meter: hours the gate kept, without a value.                       *)
Dead == (At(Hvac, Noon) :> Reads(none, "pass"))
     @@ (At(Hvac, Night) :> Reads(none, "pass"))
     @@ (At(Plugs, Weekend) :> Reads(1100, "pass"))

(* The night is corrected: no longer suspicious, and panels repay sooner.    *)
Corrected == At(Hvac, Night) :> Reads(1100, "pass")

Wednesday == DateOf(Noon) :> "business_day"
Saturday == DateOf(Weekend) :> "weekend"
(* An earlier finding, calibrated while cold and then labelled.              *)
Earlier ==
    [id |-> 1, layer |-> "domain_rule", row |-> At(Hvac, Night),
     status |-> "confirmed", confidence |-> 100, run |-> 0, model |-> 0, scorer |-> 0]
    @@ [RuleBundle("hvac_after_hours_v3") EXCEPT !.band = WideBand]

(* The dead meter's building has no calendar for the Saturday, so the plugs  *)
(* are skipped.                                                              *)
Initially ==
    {[db |-> Ordinary, calendar |-> Wednesday @@ Saturday,
      findings |-> {Earlier}, labels |-> <<"confirmed">>],
     [db |-> Dead, calendar |-> Wednesday, findings |-> {[Earlier EXCEPT !.status = "dismissed"]}, labels |-> <<"dismissed">>]}
=============================================================================
