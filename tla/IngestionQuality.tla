-------------------------- MODULE IngestionQuality --------------------------
(***************************************************************************)
(* The data quality gate and the ingestion write path:                     *)
(* services/ingestion/{normalization,sensor_fault,bounds_and_drift,        *)
(* quality_gate,orchestrator,repository,event_publisher}.py.               *)
(*                                                                         *)
(* One building's client sends batches of raw rows.  ingest_raw_rows is    *)
(* one transaction of straight-line code: it provisions circuits, sums the *)
(* rows by the hour, grades every hour, upserts the readings and announces *)
(* the batch.  Time is counted in half hours (ticks), so that rows fall on *)
(* the hour and inside it; hour h covers the ticks 2h and 2h + 1.  Issues  *)
(* are the time windows the detectors report, without their wording.       *)
(***************************************************************************)
EXTENDS Integers, FiniteSets, Sequences, SequencesExt

CONSTANTS
    Meters,          \* raw meter ids that name a circuit
    BlankMeters,     \* raw ids that name none: empty cells
    TypeOf,          \* circuit type a row of a meter states
    RawRows,         \* the rows a client may send
    None,            \* no number, no circuit, no meter
    MaxKwh,          \* implausible-value bound per circuit type, from 0
    MaxGapHours,     \* GapConfig.max_interpolation_gap_minutes
    RatioNum, RatioDen,    \* GapConfig.degraded_interpolation_ratio
    OutlierWindow, ZNum, ZDen, \* OutlierConfig, the square of its threshold
    StuckWindow, StuckHours,   \* StuckAtValueThresholds per circuit type
    MaxSilence,      \* ticks: expected interval times dropout_tolerance_factor
    MaxRows, MaxBatches        \* bounds on what the client sends

CircuitTypes == {"main_feed", "plug_load"}

\* What may be wrong with a batch's columns or timestamps.  "aliased" columns
\* are those resolve_columns maps; "untyped" lacks circuit_type, "no_kwh" kwh or
\* the timestamp, "no_meter" the meter; in "bad_time" a timestamp does not parse.
Forms == {"expected", "extra", "untyped", "aliased", "no_kwh", "no_meter", "bad_time"}

Rank == [pass |-> 0, degraded |-> 1, quarantined |-> 2]
Statuses == DOMAIN Rank

ASSUME GateAssumption ==
    /\ Meters \cap BlankMeters = {} /\ None \notin Meters \cup BlankMeters
    /\ None \notin Int \cup CircuitTypes
    /\ TypeOf \in [Meters -> CircuitTypes]
    /\ \A r \in RawRows : /\ r.meter \in Meters \cup BlankMeters /\ r.at \in Nat
                          /\ r.kwh \in Int \cup {None}
    /\ MaxGapHours \in Nat /\ RatioNum \in Nat /\ RatioDen \in Nat /\ MaxSilence \in Nat
    /\ MaxRows \in Nat /\ MaxBatches \in Nat
    /\ \A t \in CircuitTypes : /\ StuckWindow[t] \in Nat /\ StuckWindow[t] > 1
                               /\ StuckHours[t] \in Nat /\ MaxKwh[t] \in Nat /\ MaxKwh[t] > 0

VARIABLES
    rows,            \* the batch the client is putting together
    circuits,        \* submeter_circuits: the type of each meter's circuit
    store,           \* normalized_readings of the building
    sent,            \* the last batch ingested
    result,          \* its quality result and whether it was announced
    left             \* rows and batches the client may still send

vars == <<rows, circuits, store, sent, result, left>>

\* worse_status over any number of reasons.
Worst(S) == CHOOSE s \in S : \A t \in S : Rank[t] <= Rank[s]

RowsOf(rs, m) == {i \in DOMAIN rs : rs[i].meter = m}
TicksOf(rs, m) == {rs[i].at : i \in RowsOf(rs, m)}
SumOver(f, S) == SumFunctionOnSet(f, S)
KwhOf(rs) == [i \in DOMAIN rs |-> rs[i].kwh]

-----------------------------------------------------------------------------
(* normalize_batch *)

\* Mutant: the last row of an hour stands for the hour.
HourlyKwhLast(rs, m) ==
    [h \in (Min(TicksOf(rs, m)) \div 2)..((Max(TicksOf(rs, m)) + 1) \div 2 - 1) |->
        LET I == {i \in RowsOf(rs, m) : rs[i].at \div 2 = h /\ rs[i].kwh # None}
        IN  IF I = {} THEN None ELSE rs[Max(I)].kwh]

\* The hours from the first row's to the one before the last row's ceiling, and
\* the sum of the numbers in each; a last row on the hour opens no hour.
HourlyKwh(rs, m) ==
    [h \in (Min(TicksOf(rs, m)) \div 2)..((Max(TicksOf(rs, m)) + 1) \div 2 - 1) |->
        LET I == {i \in RowsOf(rs, m) : rs[i].at \div 2 = h /\ rs[i].kwh # None}
        IN  IF I = {} THEN None ELSE SumOver(KwhOf(rs), I)]

Valued(k) == {h \in DOMAIN k : k[h] # None}

\* The maximal runs of hours without a value, as first and last hour.
Gaps(k) ==
    {g \in (DOMAIN k) \X (DOMAIN k) :
        /\ g[1] <= g[2] /\ \A h \in g[1]..g[2] : k[h] = None
        /\ g[1] - 1 \notin (DOMAIN k) \ Valued(k)
        /\ g[2] + 1 \notin (DOMAIN k) \ Valued(k)}

\* A gap beyond the bound is quarantined.  A shorter one is interpolated over a
\* slice that starts at its first missing hour, which linear interpolation
\* cannot fill forward: the hours keep no value.
BeyondBound(k) ==
    UNION {g[1]..g[2] : g \in {g \in Gaps(k) : g[2] - g[1] + 1 > MaxGapHours}}

\* Hours whose z-score exceeds the threshold in the rolling window of readings
\* that ends there, without roots: n readings, sum s, sum of squares q.
Outliers(k) ==
    LET V == Valued(k)
        Window(h) ==
            {g \in V : g <= h /\ Cardinality(V \cap (g + 1)..h) < OutlierWindow}
        Exceeds(h) ==
            LET n == Cardinality(Window(h))
                s == SumOver(k, Window(h))
                q == SumOver([g \in V |-> k[g] * k[g]], Window(h))
                d == n * k[h] - s
            IN  /\ n >= Max({1, OutlierWindow \div 2})
                /\ n * q > s * s
                /\ d * d * (n - 1) * ZDen > ZNum * n * (n * q - s * s)
    IN  IF Cardinality(V) < OutlierWindow THEN {} ELSE {h \in V : Exceeds(h)}

\* Interpolated hours are counted as values beyond the number of rows.
TooManyInterpolated(rs, ms) ==
    LET values(m) == Cardinality(Valued(HourlyKwh(rs, m)))
        filled == SumOver([m \in ms |-> Max({0, values(m) - Cardinality(RowsOf(rs, m))})], ms)
        total == SumOver([m \in ms |-> values(m)], ms)
    IN  total > 0 /\ filled * RatioDen > RatioNum * total

\* The readings before the fault and bounds checks.
normalize_batch(rs, f, map) ==
    LET ms == IF f \in {"no_kwh", "no_meter"} THEN {}
              ELSE {m \in Meters : map[m] # None /\ RowsOf(rs, m) # {}}
        Grade(k, h) ==
            Worst({"pass"} \cup (IF h \in BeyondBound(k) THEN {"quarantined"} ELSE {})
                    \cup (IF h \in Outliers(k) THEN {"degraded"} ELSE {})
                    \cup (IF TooManyInterpolated(rs, ms) THEN {"degraded"} ELSE {}))
        Circuit(m) ==
            LET k == HourlyKwh(rs, m)
            IN  {[meter |-> m, hour |-> h, kwh |-> k[h], status |-> Grade(k, h)] :
                    h \in DOMAIN k}
    IN  UNION {Circuit(m) : m \in ms}

-----------------------------------------------------------------------------
(* Sensor faults, bounds and schema drift *)

Issue(m, from, to, severity) ==
    [meter |-> m, from |-> from, to |-> to, severity |-> severity]

\* The w readings from hour a to hour b do not vary.
FlatWindow(k, w, a, b) ==
    /\ Cardinality(Valued(k) \cap a..b) = w
    /\ \A h \in Valued(k) \cap a..b : k[h] = k[b]

Flat(k, w, b) == \E a \in Valued(k) : FlatWindow(k, w, a, b)

\* Flat windows end at every reading from hour c to d and at no neighbour of them.
FlatRun(k, w, c, d) ==
    /\ c <= d /\ \A h \in Valued(k) \cap c..d : Flat(k, w, h)
    /\ \A h \in Valued(k) :
        (h < c /\ Valued(k) \cap (h + 1)..(c - 1) = {})
            \/ (h > d /\ Valued(k) \cap (d + 1)..(h - 1) = {}) => ~Flat(k, w, h)

\* Mutant: a stuck run is reported up to the reading that ends it.
StuckIssuesLate(m, k, type) ==
    LET V == Valued(k)
        Ends(d) == {h \in V : h > d /\ V \cap (d + 1)..(h - 1) = {}}
    IN  {Issue(m, 2 * p[1], 2 * Max(Ends(p[2]) \cup {p[2]}),
               IF type = "main_feed" THEN "quarantined" ELSE "degraded") :
            p \in {p \in V \X V :
                /\ p[2] - p[1] >= StuckHours[type]
                /\ \E c \in V : /\ FlatWindow(k, StuckWindow[type], p[1], c)
                                /\ FlatRun(k, StuckWindow[type], c, p[2])}}

\* detect_stuck_at_value: runs of consecutive flat windows, from the first
\* reading of the first to the last reading of the last, that last long enough.
StuckIssues(m, k, type) ==
    {Issue(m, 2 * p[1], 2 * p[2], IF type = "main_feed" THEN "quarantined" ELSE "degraded") :
        p \in {p \in Valued(k) \X Valued(k) :
            /\ p[2] - p[1] >= StuckHours[type]
            /\ \E c \in Valued(k) : /\ FlatWindow(k, StuckWindow[type], p[1], c)
                                    /\ FlatRun(k, StuckWindow[type], c, p[2])}}

\* detect_dropout, over the raw timestamps.
DropoutIssues(rs, m) ==
    LET T == TicksOf(rs, m)
    IN  {Issue(m, p[1], p[2], "degraded") : p \in
            {p \in T \X T : p[2] - p[1] > MaxSilence /\ T \cap (p[1] + 1)..(p[2] - 1) = {}}}

check_bounds(m, k, type) ==
    {Issue(m, 2 * h, 2 * h, "quarantined") :
        h \in {h \in Valued(k) : k[h] < 0 \/ k[h] > MaxKwh[type]}}

\* Raw column names are compared with the expected ones, before any aliasing.
check_schema_drift(rs, f) ==
    CASE rs = <<>> \/ f \in {"aliased", "no_kwh", "no_meter"} ->
            {Issue(None, 0, 0, "quarantined")}
      [] rs # <<>> /\ f \in {"extra", "untyped"} -> {Issue(None, 0, 0, "degraded")}
      [] OTHER -> {}

Issues(rs, f, map, readings) ==
    LET Faults(m) ==
            LET k == HourlyKwh(rs, m)
            IN  StuckIssues(m, k, map[m]) \cup DropoutIssues(rs, m)
                    \cup check_bounds(m, k, map[m])
    IN  check_schema_drift(rs, f) \cup UNION {Faults(m) : m \in {r.meter : r \in readings}}

\* An issue of a circuit covers both ends of its window.
Affects(i, r) ==
    i.meter = None \/ (i.meter = r.meter /\ 2 * r.hour \in i.from..i.to)

ApplyIssues(readings, issues) ==
    {[r EXCEPT !.status = Worst({@} \cup {i.severity : i \in {i \in issues : Affects(i, r)}})] :
        r \in readings}

\* Mutant: only an empty batch is quarantined.
BatchStatusNonEmpty(readings) ==
    IF readings = {} THEN "quarantined"
    ELSE IF \A r \in readings : r.status = "pass" THEN "pass" ELSE "degraded"

BatchStatus(readings) ==
    IF \A r \in readings : r.status = "quarantined" THEN "quarantined"
    ELSE IF \A r \in readings : r.status = "pass" THEN "pass" ELSE "degraded"

process_batch(rs, f, map) ==
    LET normalized == normalize_batch(rs, f, map)
        readings == ApplyIssues(normalized, Issues(rs, f, map, normalized))
        status == BatchStatus(readings)
    IN  [status |-> status, readings |-> readings,
         announced |-> status \in {"pass", "degraded"}]

-----------------------------------------------------------------------------
(* ingest_raw_rows *)

\* A meter's circuit is created with the type its first batch states, if any.
get_or_create_circuits(existing, rs, f) ==
    [m \in Meters |->
        IF existing[m] # None \/ f = "no_meter" \/ RowsOf(rs, m) = {} THEN existing[m]
        ELSE IF f = "untyped" THEN "main_feed" ELSE TypeOf[m]]

SameHour(q, r) == q.meter = r.meter /\ q.hour = r.hour

\* Mutant: a plain insert.
SaveReadingsTwice(readings) == store \cup readings

\* Mutant: a repeated hour adds to what is stored.
SaveReadingsAdding(readings) ==
    {q \in store : \A r \in readings : ~SameHour(q, r)} \cup
    {[r EXCEPT !.kwh = IF @ # None /\ \E q \in store : SameHour(q, r) /\ q.kwh # None
                       THEN @ + (CHOOSE q \in store : SameHour(q, r)).kwh ELSE @] :
        r \in readings}

\* The upsert of save_readings: an hour's new reading replaces its old one.
SaveReadings(readings) ==
    {q \in store : \A r \in readings : ~SameHour(q, r)} \cup readings

\* One committed call of ingest_raw_rows.
IngestRawRows(rs, f) ==
    LET map == get_or_create_circuits(circuits, rs, f)
        quality == process_batch(rs, f, map)
    IN  /\ circuits' = map
        /\ store' = SaveReadings(quality.readings)
        /\ result' = quality

-----------------------------------------------------------------------------

Init ==
    /\ rows = <<>>
    /\ circuits = [m \in Meters |-> None]
    /\ store = {}
    /\ sent = [rows |-> <<>>, form |-> "expected"]
    /\ result = [status |-> "quarantined", readings |-> {}, announced |-> FALSE]
    /\ left = [rows |-> MaxRows, batches |-> MaxBatches]

\* The client adds a row; normalize_batch sorts them, so they come in order.
AddRow ==
    /\ left.rows > 0 /\ left.batches > 0
    /\ \E r \in RawRows :
        /\ rows # <<>> => Last(rows).at <= r.at
        /\ rows' = Append(rows, r)
    /\ left' = [left EXCEPT !.rows = @ - 1]
    /\ UNCHANGED <<circuits, store, sent, result>>

\* POST /v1/ingestion/csv or the smart-meter push.
Send ==
    /\ left.batches > 0
    /\ \E f \in Forms :
        /\ ~(f = "bad_time" /\ rows # <<>>)
        /\ IngestRawRows(rows, f)
        /\ sent' = [rows |-> rows, form |-> f]
    /\ rows' = <<>>
    /\ left' = [left EXCEPT !.batches = @ - 1]

\* A timestamp that does not parse raises: the transaction is rolled back.
SendRaises ==
    /\ left.batches > 0 /\ rows # <<>>
    /\ rows' = <<>>
    /\ left' = [left EXCEPT !.batches = @ - 1]
    /\ UNCHANGED <<circuits, store, sent, result>>

\* The client has had no answer and sends the same batch once more.
Resend ==
    /\ left.batches < MaxBatches
    /\ IngestRawRows(sent.rows, sent.form)
    /\ UNCHANGED <<rows, sent, left>>

Next == AddRow \/ Send \/ SendRaises \/ Resend

Spec == Init /\ [][Next]_vars

-----------------------------------------------------------------------------
(* Properties *)

Reading(r) ==
    /\ r.meter \in Meters /\ r.hour \in Nat /\ r.status \in Statuses
    /\ r.kwh = None \/ r.kwh \in Int

\* The types, and the primary key of normalized_readings.
TypeOK ==
    /\ rows \in Seq(RawRows) /\ sent.rows \in Seq(RawRows) /\ sent.form \in Forms
    /\ circuits \in [Meters -> CircuitTypes \cup {None}]
    /\ \A r \in store \cup result.readings : Reading(r)
    /\ \A q, r \in store : SameHour(q, r) => q = r
    /\ result.status \in Statuses /\ result.announced \in BOOLEAN
    /\ left \in [rows : 0..MaxRows, batches : 0..MaxBatches]

\* The reasons, read off the rows, to grade reading r of the last batch: no value
\* where more hours than the bound lack one; a value out of bounds; r lies
\* between two equal readings that are far enough apart, with nothing else and
\* enough readings between; no row arrived around it for too long; an outlier;
\* or the batch's columns are not the expected ones.
MissingTooLong(r, k) ==
    \E a \in DOMAIN k : /\ r.hour \in a..(a + MaxGapHours)
                        /\ a..(a + MaxGapHours) \subseteq (DOMAIN k) \ Valued(k)

Stuck(r, k, type) ==
    \E a, b \in Valued(k) :
        LET between == Valued(k) \cap a..b
        IN  /\ r.hour \in a..b /\ b - a >= StuckHours[type]
            /\ Cardinality(between) >= StuckWindow[type]
            /\ \A h \in between : k[h] = k[a]

Silent(r, T) ==
    /\ \E s \in T : s <= 2 * r.hour
    /\ \E t \in T : t >= 2 * r.hour
    /\ \E s \in T : /\ \A t \in T : t > s => t > s + MaxSilence
                    /\ s <= 2 * r.hour /\ \E t \in T : t > s
                    /\ \A t \in T : t > s => t >= 2 * r.hour

Reasons(r) ==
    LET k == HourlyKwh(sent.rows, r.meter)
        type == circuits[r.meter]
    IN  {s \in Statuses :
          \/ s = "pass"
          \/ s = "quarantined" /\ \/ MissingTooLong(r, k)
                                  \/ r.kwh # None /\ r.kwh \notin 0..MaxKwh[type]
                                  \/ type = "main_feed" /\ Stuck(r, k, type)
                                  \/ sent.form = "aliased"
          \/ s = "degraded" /\ \/ Stuck(r, k, type)
                               \/ Silent(r, TicksOf(sent.rows, r.meter))
                               \/ r.hour \in Outliers(k)
                               \/ sent.form \in {"extra", "untyped"}}

\* The status the gate stores with a reading is exactly the worst the rows
\* around it give reason for: nothing doubtful passes, nothing sound is held
\* back, although five detectors report overlapping windows of different clocks.
StatusWarranted ==
    \A r \in result.readings : r.status = Worst(Reasons(r))

\* Hourly resampling loses and invents no energy: what a batch's readings sum to
\* is what its rows of known meters do, except for the rows stamped at the full
\* hour that ends the batch, for which the resampled range has no hour.
EnergyConserved ==
    sent.form \notin {"no_kwh", "no_meter"} =>
        \A m \in Meters :
            SumOver([r \in result.readings |-> r.kwh],
                    {r \in result.readings : r.meter = m /\ r.kwh # None})
            = SumOver(KwhOf(sent.rows),
                  {i \in RowsOf(sent.rows, m) :
                      /\ sent.rows[i].kwh # None
                      /\ ~( /\ sent.rows[i].at % 2 = 0
                            /\ sent.rows[i].at = Max(TicksOf(sent.rows, m)))})

\* building.data.arrived is published exactly for the batches that leave
\* readings the analysis may use in the store (its gate counts pass and degraded
\* ones), whatever was stored before.
AnnouncedIsAnalysable ==
    result.announced <=> \E r \in store : r \in result.readings /\ r.status # "quarantined"

\* A batch sent again, because its answer was lost and smart-meter pushes carry
\* no idempotency key, changes nothing that is stored.
ReplayHarmless == [][Resend => UNCHANGED <<circuits, store, result>>]_vars

\* docs/architecture/DATA_AND_MODEL_STRATEGY.md: gaps are interpolated within the
\* bounded duration.  So an hour without rows between two hours with values is
\* given one unless its gap is beyond the bound.
ShortGapsFilled ==
    \A r \in result.readings :
        /\ \E p \in result.readings : p.meter = r.meter /\ p.hour < r.hour /\ p.kwh # None
        /\ \E p \in result.readings : p.meter = r.meter /\ p.hour > r.hour /\ p.kwh # None
        /\ r.status = "pass"
        => r.kwh # None

=============================================================================
