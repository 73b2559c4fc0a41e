---------------------------- MODULE StlDetection ----------------------------
(* Decomposition-based detection: readings joined to the building calendar,  *)
(* split into day-type cohorts, each decomposed or reported as cold start.   *)
(* The decomposition itself is a library's; what it leaves is abstract.      *)
EXTENDS BuildingData

CONSTANT MinHistory    \* stl_min_history_observations

ASSUME StlAssumption == MinHistory \in Nat \ {0}

(* fetch_calendar_entries() maps dates to day types; a circuit with a reading *)
(* on a date it lacks raises CalendarLookupError and is skipped whole.       *)
Covered(db, calendar, c) == \A r \in RowsOf(db, c) : DateOf(r.ts) \in DOMAIN calendar

(* cohort_indices: the circuit's rows of one day type.                       *)
Cohort(db, calendar, r) ==
    {q \in RowsOf(db, r.circuit) : calendar[DateOf(q.ts)] = calendar[DateOf(r.ts)]}

(* check_cold_start() *)
CheckColdStart(n) == n < MinHistory

(* fit_stl() forward- and back-fills missing values, but a series with no    *)
(* value at all raises ValueError, which nothing catches.                    *)
Blind(db, rows) == \A r \in rows : db[r].kwh = None

FitRaises(db, calendar) ==
    \E r \in Readable(db) :
        /\ Covered(db, calendar, r.circuit)
        /\ ~CheckColdStart(Cardinality(Cohort(db, calendar, r)))
        /\ Blind(db, Cohort(db, calendar, r))

DayTypes == {"business_day", "weekend", "holiday", "declared_closure"}

(* STLResidualResult and its validator: a row of low quality has no residual. *)
ResidualResults ==
    {s \in [day : DayTypes, low : BOOLEAN, residual : BOOLEAN] : ~(s.low /\ s.residual)}

(* Mutant: a cold-start cohort is marked, and decomposed all the same.       *)
DecomposeCohort_NoColdStart(db, calendar, r) ==
    [day |-> calendar[DateOf(r.ts)], low |-> CheckColdStart(Cardinality(Cohort(db, calendar, r))), residual |-> TRUE]

(* _decompose_cohort(): a row of a cold-start cohort carries no residual.    *)
DecomposeCohort(db, calendar, r) ==
    LET cold == CheckColdStart(Cardinality(Cohort(db, calendar, r)))
    IN  [day |-> calendar[DateOf(r.ts)], low |-> cold, residual |-> ~cold]

(* analyse_circuit_window() over the circuits the calendar covers: one result *)
(* per reading, by row.                                                      *)
AnalyseWindow(db, calendar) ==
    [r \in {q \in Readable(db) : Covered(db, calendar, q.circuit)} |->
        DecomposeCohort(db, calendar, r)]
=============================================================================
