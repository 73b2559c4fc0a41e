---------------------------- MODULE BuildingData ----------------------------
(* What the detection layers read of one building: its declared record, its *)
(* circuits and the stored hourly readings.  Time is counted in hours from   *)
(* a Monday 00:00; consumption is in hundredths of a kWh.                    *)
EXTENDS Integers, FiniteSets, FiniteSetsExt, SequencesExt

CONSTANTS
    Circuits,      \* circuit ids, in the order the database sorts them
    CircuitType,   \* circuit id |-> declared type
    Slots,         \* the hours a reading may be stored for
    Declared,      \* the buildings row: baseline, schedule, rooftop, tariff
    None           \* SQL NULL

ASSUME BuildingAssumption ==
    /\ Circuits \subseteq Nat /\ Slots \subseteq Nat
    /\ CircuitType \in [Circuits -> {"hvac", "main_feed", "plug_load", "lighting"}]
    /\ {Declared.baseline, Declared.rooftop, Declared.peakRate, Declared.offpeakRate}
          \subseteq Nat \cup {None}
    /\ None \notin Int

Row == [circuit : Circuits, ts : Slots]

(* The readings table is a partial function from rows to readings.          *)
(* kwh is NULL where the quality gate filled a gap.                          *)
Readings == [kwh : Nat \cup {None}, status : {"pass", "degraded", "quarantined"}]

Hour(ts) == ts % 24
Weekday(ts) == ((ts \div 24) % 7) + 1
DateOf(ts) == ts \div 24

(* The WHERE clause every detection layer reads with.                        *)
Readable(db) == {r \in DOMAIN db : db[r].status \in {"pass", "degraded"}}

RowsOf(db, c) == {r \in Readable(db) : r.circuit = c}

(* Sorting by timestamp is stable and starts from circuit order.             *)
InOrder(a, b) == a.ts < b.ts \/ (a.ts = b.ts /\ a.circuit <= b.circuit)

(* What a sum of kwh adds for each row: a missing value counts as zero.      *)
KwhOrZero(db) == [r \in DOMAIN db |-> IF db[r].kwh = None THEN 0 ELSE db[r].kwh]
=============================================================================
