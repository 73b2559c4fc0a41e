----------------------------- MODULE RuleEngine -----------------------------
(* The domain rule engine: which rules fire on which stored readings.        *)
EXTENDS BuildingData

(* The three rules shipped as YAML: the circuit type each applies to, its    *)
(* factor over the declared unoccupied baseline in tenths, and whether it is *)
(* limited to weekends.                                                      *)
Rules ==
    [hvac_after_hours_v3     |-> [type |-> "hvac",      tenths |-> 14, weekend |-> FALSE],
     scheduling_violation_v1 |-> [type |-> "main_feed", tenths |-> 15, weekend |-> FALSE],
     weekend_vampire_load_v1 |-> [type |-> "plug_load", tenths |-> 12, weekend |-> TRUE]]

RuleIds == DOMAIN Rules

(* within(): both ends of the schedule are inclusive; no schedule, not within. *)
Within(schedule, ts) ==
    /\ schedule # None
    /\ Weekday(ts) \in schedule.days
    /\ schedule.start <= Hour(ts) /\ Hour(ts) <= schedule.end

(* get_building_context(): an undeclared baseline reads as zero.             *)
Baseline == IF Declared.baseline = None THEN 0 ELSE Declared.baseline

(* applies_to is matched against the type of the reading's circuit.          *)
MatchesAppliesTo(rule, c) == rule.type = CircuitType[c]

(* The comparison of a condition; comparing a missing kwh raises.            *)
Exceeds(rule, kwh) == kwh # None /\ kwh * 10 > Baseline * rule.tenths

(* evaluate_condition(): an evaluation error counts as false.                *)
EvaluateCondition(rule, ts, kwh) ==
    /\ Exceeds(rule, kwh)
    /\ ~Within(Declared.schedule, ts)
    /\ rule.weekend => Weekday(ts) \in {6, 7}

(* process_readings(): one fire per reading and rule whose condition holds.  *)
ProcessReadings(db) ==
    {f \in [circuit : Circuits, ts : Slots, rule : RuleIds] :
        LET r == [circuit |-> f.circuit, ts |-> f.ts]
        IN  /\ r \in Readable(db)
            /\ MatchesAppliesTo(Rules[f.rule], f.circuit)
            /\ EvaluateCondition(Rules[f.rule], f.ts, db[r].kwh)}
=============================================================================
