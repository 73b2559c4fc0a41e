----------------------- MODULE IngestionQuality_proofs -----------------------
(***************************************************************************)
(* What the write path announces, stores and grades, for any rows, meters  *)
(* and settings of the gate.  The inductive invariant is TypeOK together   *)
(* with Settled: the result is the last batch's, graded over the circuits  *)
(* there are now.  What that result is follows from the gate's definition: *)
(* its sums group the rows, and its detectors' windows cover what the rows *)
(* give reason to doubt.                                                   *)
(***************************************************************************)
EXTENDS IngestionQuality, FiniteSetTheorems, TLAPS

\* The status of a batch is quarantined just when every reading's is, also for
\* a batch without readings.
LEMMA BatchStatusUsable ==
    ASSUME NEW readings
    PROVE  BatchStatus(readings) \in {"pass", "degraded"}
             <=> \E r \in readings : r.status # "quarantined"
  BY DEF BatchStatus

\* The batch's result and the store agree on what the analysis may use.
Announced ==
    /\ result.readings \subseteq store
    /\ result.announced <=> \E r \in result.readings : r.status # "quarantined"

LEMMA IngestAnnounces ==
    ASSUME NEW rs, NEW f, IngestRawRows(rs, f)
    PROVE  Announced'
  <1> DEFINE quality == process_batch(rs, f, get_or_create_circuits(circuits, rs, f))
  <1>1. result' = quality /\ store' = SaveReadings(quality.readings)
    BY DEF IngestRawRows
  <1>2. quality.readings \subseteq store'
    BY <1>1 DEF SaveReadings
  <1>3. quality.announced <=> \E r \in quality.readings : r.status # "quarantined"
    BY BatchStatusUsable DEF process_batch
  <1>4. QED
    BY <1>1, <1>2, <1>3 DEF Announced

\* A batch is announced exactly when it left a reading the analysis may use in
\* the store: the publisher's condition on the batch status, the gate's grading
\* of readings and the upsert agree for every batch, first or repeated.
THEOREM AnnouncementsRight == Spec => []AnnouncedIsAnalysable
  <1>1. Init => Announced
    BY DEF Init, Announced
  <1>2. Announced /\ [Next]_vars => Announced'
    <2> SUFFICES ASSUME Announced, [Next]_vars PROVE Announced'
      OBVIOUS
    <2>1. CASE AddRow
      BY <2>1 DEF AddRow, Announced
    <2>2. CASE Send
      BY <2>2, IngestAnnounces DEF Send
    <2>3. CASE SendRaises
      BY <2>3 DEF SendRaises, Announced
    <2>4. CASE Resend
      BY <2>4, IngestAnnounces DEF Resend
    <2>5. CASE UNCHANGED vars
      BY <2>5 DEF vars, Announced
    <2>6. QED
      BY <2>1, <2>2, <2>3, <2>4, <2>5 DEF Next
  <1>3. Announced => AnnouncedIsAnalysable
    BY DEF Announced, AnnouncedIsAnalysable
  <1>4. QED
    BY <1>1, <1>2, <1>3, PTL DEF Spec

-----------------------------------------------------------------------------
(* Why a repeated batch changes nothing *)

Record(r) == r = [meter |-> r.meter, hour |-> r.hour, kwh |-> r.kwh, status |-> r.status]

OnePerHour(S) == \A q, r \in S : SameHour(q, r) => q = r

\* Normalization yields one reading per circuit and hour.
LEMMA NormalizedOnePerHour ==
    ASSUME NEW rs, NEW f, NEW map
    PROVE  /\ OnePerHour(normalize_batch(rs, f, map))
           /\ \A r \in normalize_batch(rs, f, map) : Record(r)
  <1> DEFINE ms == IF f \in {"no_kwh", "no_meter"} THEN {}
                   ELSE {m \in Meters : map[m] # None /\ RowsOf(rs, m) # {}}
             Grade(k, h) ==
                 Worst({"pass"} \cup (IF h \in BeyondBound(k) THEN {"quarantined"} ELSE {})
                         \cup (IF h \in Outliers(k) THEN {"degraded"} ELSE {})
                         \cup (IF TooManyInterpolated(rs, ms) THEN {"degraded"} ELSE {}))
             At(m, h) == [meter |-> m, hour |-> h, kwh |-> HourlyKwh(rs, m)[h],
                          status |-> Grade(HourlyKwh(rs, m), h)]
  <1>1. normalize_batch(rs, f, map)
            = UNION {{At(m, h) : h \in DOMAIN HourlyKwh(rs, m)} : m \in ms}
    BY Zenon DEF normalize_batch
  <1> HIDE DEF ms, Grade
  <1>2. \A r \in normalize_batch(rs, f, map) : \E m, h : r = At(m, h)
    BY <1>1
  <1>3. \A m, h : At(m, h).meter = m /\ At(m, h).hour = h /\ Record(At(m, h))
    BY DEF Record
  <1>4. QED
    BY <1>2, <1>3 DEF OnePerHour, SameHour

\* Applying issues changes statuses only.
LEMMA AppliedOnePerHour ==
    ASSUME NEW readings, NEW issues, OnePerHour(readings), \A r \in readings : Record(r)
    PROVE  OnePerHour(ApplyIssues(readings, issues))
  <1> DEFINE Graded(r) ==
          [r EXCEPT !.status = Worst({@} \cup
              {i.severity : i \in {i \in issues : Affects(i, r)}})]
  <1>1. ASSUME NEW r \in readings
        PROVE  Graded(r).meter = r.meter /\ Graded(r).hour = r.hour
    BY <1>1 DEF Record
  <1>2. \A q \in ApplyIssues(readings, issues) : \E r \in readings : q = Graded(r)
    BY Zenon DEF ApplyIssues
  <1> HIDE DEF Graded
  <1>3. QED
    BY <1>1, <1>2 DEF OnePerHour, SameHour

LEMMA ProcessedOnePerHour ==
    ASSUME NEW rs, NEW f, NEW map
    PROVE  OnePerHour(process_batch(rs, f, map).readings)
  BY NormalizedOnePerHour, AppliedOnePerHour DEF process_batch

\* A second look for the same meters finds the circuits of the first.
LEMMA CircuitsStay ==
    ASSUME NEW c, NEW rs, NEW f
    PROVE  LET d == get_or_create_circuits(c, rs, f)
           IN  get_or_create_circuits(d, rs, f) = d
  BY DEF get_or_create_circuits

\* The last batch accepted, graded once more over the circuits there are now,
\* gives the result that is stored, hour by hour.
Settled ==
    /\ circuits = get_or_create_circuits(circuits, sent.rows, sent.form)
    /\ result = process_batch(sent.rows, sent.form, circuits)
    /\ result.readings \subseteq store
    /\ \A q \in store, r \in result.readings : SameHour(q, r) => q = r

LEMMA EmptySettled == Init => Settled
  <1> SUFFICES ASSUME Init PROVE Settled
    OBVIOUS
  <1>1. \A m : RowsOf(sent.rows, m) = {}
    BY DEF Init, RowsOf
  <1>2. circuits = get_or_create_circuits(circuits, sent.rows, sent.form)
    BY <1>1 DEF Init, get_or_create_circuits
  <1>3. normalize_batch(sent.rows, sent.form, circuits) = {}
    <2>1. {m \in Meters : circuits[m] # None /\ RowsOf(sent.rows, m) # {}} = {}
      BY <1>1
    <2>2. QED
      BY <2>1, Zenon DEF normalize_batch
  <1>4. \A S : ApplyIssues({}, S) = {}
    BY DEF ApplyIssues
  <1>5. process_batch(sent.rows, sent.form, circuits)
            = [status |-> "quarantined", readings |-> {}, announced |-> FALSE]
    <2>1. BatchStatus({}) = "quarantined"
      BY DEF BatchStatus
    <2>2. ("quarantined" \in {"pass", "degraded"}) = FALSE
      OBVIOUS
    <2>3. process_batch(sent.rows, sent.form, circuits)
              = [status |-> BatchStatus({}), readings |-> {},
                 announced |-> BatchStatus({}) \in {"pass", "degraded"}]
      BY <1>3, <1>4, Zenon DEF process_batch
    <2>4. QED
      BY <2>1, <2>2, <2>3, Zenon
  <1>6. QED
    BY <1>2, <1>5 DEF Init, Settled

\* An accepted batch settles, with whatever was stored before.
LEMMA IngestSettles ==
    ASSUME NEW rs, NEW f, IngestRawRows(rs, f), sent' = [rows |-> rs, form |-> f]
    PROVE  Settled'
  <1> DEFINE map == get_or_create_circuits(circuits, rs, f)
             quality == process_batch(rs, f, map)
  <1>1. circuits' = map /\ result' = quality /\ store' = SaveReadings(quality.readings)
    BY DEF IngestRawRows
  <1>2. map = get_or_create_circuits(map, rs, f)
    BY CircuitsStay
  <1>3. OnePerHour(quality.readings)
    BY ProcessedOnePerHour
  <1> HIDE DEF map, quality
  <1>4. \A q \in store', r \in quality.readings : SameHour(q, r) => q = r
    BY <1>1, <1>3 DEF SaveReadings, OnePerHour
  <1>5. quality.readings \subseteq store'
    BY <1>1 DEF SaveReadings
  <1>6. QED
    BY <1>1, <1>2, <1>4, <1>5 DEF Settled, quality

\* In a settled state the last batch finds its circuits, its readings and its
\* result already there.
LEMMA ResendStutters ==
    ASSUME Settled, Resend
    PROVE  UNCHANGED vars
  <1>1. circuits' = circuits /\ result' = result /\ store' = SaveReadings(result.readings)
    BY DEF Resend, IngestRawRows, Settled
  <1>2. SaveReadings(result.readings) = store
    BY DEF SaveReadings, Settled, SameHour
  <1>3. QED
    BY <1>1, <1>2 DEF Resend, vars

\* No step unsettles the state.
LEMMA SettledStays == Settled /\ [Next]_vars => Settled'
  <1> SUFFICES ASSUME Settled, [Next]_vars PROVE Settled'
    OBVIOUS
  <1>1. CASE AddRow
    BY <1>1 DEF AddRow, Settled
  <1>2. CASE Send
    <2>1. PICK f \in Forms : IngestRawRows(rows, f) /\ sent' = [rows |-> rows, form |-> f]
      BY <1>2 DEF Send
    <2>2. QED
      BY <2>1, IngestSettles
  <1>3. CASE SendRaises
    BY <1>3 DEF SendRaises, Settled
  <1>4. CASE Resend
    BY <1>4, ResendStutters DEF vars, Settled
  <1>5. CASE UNCHANGED vars
    BY <1>5 DEF vars, Settled
  <1>6. QED
    BY <1>1, <1>2, <1>3, <1>4, <1>5 DEF Next

\* Sending the last batch again, which a client does that had no answer, leaves
\* circuits, readings and batch result as they are, for every batch and every
\* setting of the gate.
THEOREM ReplaysHarmless == Spec => ReplayHarmless
  <1>1. Settled /\ [Next]_vars => [Resend => UNCHANGED <<circuits, store, result>>]_vars
    BY ResendStutters DEF vars
  <1>2. QED
    BY EmptySettled, SettledStays, <1>1, PTL DEF Spec, ReplayHarmless

-----------------------------------------------------------------------------
(* Sums over finite sets.  The library defines a sum by a fold whose table   *)
(* of partial sums exists by induction: a minimal set without a table is     *)
(* impossible.                                                               *)

\* Among finite sets one is minimal.
LEMMA MinimalSet ==
    ASSUME NEW C, C # {}, \A T \in C : IsFiniteSet(T)
    PROVE  \E T \in C : \A U \in SUBSET T : U \in C => U = T
  <1> DEFINE N == UNION C
  <1>1. C \subseteq FiniteSubsetsOf(N)
    BY DEF FiniteSubsetsOf
  <1>2. \E x \in C : \A y \in C : ~ (<<y, x>> \in StrictSubsetOrdering(N))
    BY <1>1, WFMin, FS_StrictSubsetOrderingWellFounded
  <1>3. QED
    BY <1>1, <1>2 DEF StrictSubsetOrdering, FiniteSubsetsOf

\* The element that the fold takes first, and the table of partial sums it fills.
Picked(s) == CHOOSE x \in s : TRUE
Sums(g, f, S) ==
    g = [s \in SUBSET S |-> IF s = {} THEN 0 ELSE f[Picked(s)] + g[s \ {Picked(s)}]]

LEMMA PickedIn == \A s : s # {} => Picked(s) \in s
  BY DEF Picked

LEMMA SumsAgree ==
    ASSUME NEW f, NEW S, NEW T, NEW g, NEW h, IsFiniteSet(S), Sums(g, f, S), Sums(h, f, T)
    PROVE  \A s \in SUBSET (S \cap T) : g[s] = h[s]
  <1> DEFINE C == {s \in SUBSET (S \cap T) : g[s] # h[s]}
  <1> SUFFICES ASSUME C # {} PROVE FALSE
    OBVIOUS
  <1>1. \A s \in C : IsFiniteSet(s)
    BY FS_Subset
  <1>2. PICK s \in C : \A u \in SUBSET s : u \in C => u = s
    <2> HIDE DEF C
    <2>1. QED
      BY <1>1, MinimalSet
  <1>3. s \in SUBSET S /\ s \in SUBSET T
    OBVIOUS
  <1>4. g[s] = IF s = {} THEN 0 ELSE f[Picked(s)] + g[s \ {Picked(s)}]
    BY <1>3 DEF Sums
  <1>5. h[s] = IF s = {} THEN 0 ELSE f[Picked(s)] + h[s \ {Picked(s)}]
    BY <1>3 DEF Sums
  <1>6. CASE s = {}
    BY <1>4, <1>5, <1>6
  <1>7. CASE s # {}
    <2>1. Picked(s) \in s
      BY <1>7, PickedIn
    <2>2. s \ {Picked(s)} \notin C /\ s \ {Picked(s)} \in SUBSET (S \cap T)
      BY <1>2, <2>1
    <2>3. QED
      BY <1>4, <1>5, <2>2, <1>7
  <1>8. QED
    BY <1>6, <1>7

LEMMA SumsExist ==
    ASSUME NEW f, NEW S, IsFiniteSet(S)
    PROVE  \E g : Sums(g, f, S)
  <1> DEFINE C == {T \in SUBSET S : ~ \E g : Sums(g, f, T)}
  <1> SUFFICES ASSUME C # {} PROVE FALSE
    OBVIOUS
  <1>1. \A s \in C : IsFiniteSet(s)
    BY FS_Subset
  <1>2. PICK T \in C : \A u \in SUBSET T : u \in C => u = T
    <2> HIDE DEF C
    <2>1. QED
      BY <1>1, MinimalSet
  <1> DEFINE G(u) == CHOOSE g : Sums(g, f, u)
             less(s) == s \ {Picked(s)}
             h == [s \in SUBSET T |-> IF s = {} THEN 0
                                      ELSE f[Picked(s)] + G(less(s))[less(s)]]
  <1>3. \A s \in SUBSET T : s # {} => less(s) \in SUBSET T /\ less(s) # T
    BY PickedIn
  <1>4. ASSUME NEW u \in SUBSET T, u # T
        PROVE  Sums(G(u), f, u) /\ IsFiniteSet(u)
    <2>1. \E g : Sums(g, f, u)
      BY <1>2, <1>4
    <2>2. QED
      BY <2>1, <1>1, FS_Subset
  <1> HIDE DEF G
  <1>5. ASSUME NEW u \in SUBSET T, u # T
        PROVE  G(u)[u] = h[u]
    <2>1. Sums(G(u), f, u)
      BY <1>4, <1>5
    <2>2. G(u)[u] = IF u = {} THEN 0 ELSE f[Picked(u)] + G(u)[less(u)]
      BY <2>1 DEF Sums
    <2>3. u # {} => G(u)[less(u)] = G(less(u))[less(u)]
      <3> SUFFICES ASSUME u # {} PROVE G(u)[less(u)] = G(less(u))[less(u)]
        OBVIOUS
      <3>1. less(u) \in SUBSET T /\ less(u) # T /\ less(u) \in SUBSET (u \cap less(u))
        BY <1>3
      <3>2. Sums(G(less(u)), f, less(u)) /\ IsFiniteSet(u)
        BY <1>4, <1>5, <3>1
      <3> HIDE DEF less
      <3>3. QED
        BY <2>1, <3>1, <3>2, SumsAgree
    <2>4. QED
      BY <2>2, <2>3
  <1>6. Sums(h, f, T)
    <2>1. \A s \in SUBSET T : s # {} => G(less(s))[less(s)] = h[less(s)]
      BY <1>3, <1>5
    <2>2. \A s \in SUBSET T : h[s] = IF s = {} THEN 0 ELSE f[Picked(s)] + h[less(s)]
      BY <2>1
    <2>3. h = [s \in SUBSET T |-> IF s = {} THEN 0 ELSE f[Picked(s)] + h[less(s)]]
      <3> DEFINE k == [s \in SUBSET T |-> IF s = {} THEN 0 ELSE f[Picked(s)] + h[less(s)]]
      <3>1. \A s \in SUBSET T : h[s] = k[s]
        BY <2>2
      <3>2. QED
        BY <3>1
    <2> HIDE DEF h
    <2>4. QED
      BY <2>3 DEF Sums
  <1>7. QED
    BY <1>6

\* What the library's sum of a function over a finite set is.
LEMMA SumUnfolds ==
    ASSUME NEW f, NEW S, IsFiniteSet(S)
    PROVE  \E g : Sums(g, f, S) /\ SumFunctionOnSet(f, S) = g[S]
  <1> DEFINE g == CHOOSE g : Sums(g, f, S)
  <1>1. Sums(g, f, S)
    BY SumsExist
  <1>2. SumFunctionOnSet(f, S) = g[S]
    BY DEF SumFunctionOnSet, FoldFunctionOnSet, MapThenFoldSet, Sums, Picked
  <1>3. QED
    BY <1>1, <1>2

LEMMA SumOfNone == \A f : SumOver(f, {}) = 0
  <1> SUFFICES ASSUME NEW f PROVE SumOver(f, {}) = 0
    OBVIOUS
  <1>1. PICK g : Sums(g, f, {}) /\ SumFunctionOnSet(f, {}) = g[{}]
    BY SumUnfolds, FS_EmptySet
  <1>2. g[{}] = 0
    BY <1>1 DEF Sums
  <1>3. QED
    BY <1>1, <1>2 DEF SumOver

LEMMA SumPicks ==
    ASSUME NEW f, NEW S, IsFiniteSet(S), S # {}
    PROVE  SumOver(f, S) = f[Picked(S)] + SumOver(f, S \ {Picked(S)})
  <1> DEFINE T == S \ {Picked(S)}
  <1>1. PICK g : Sums(g, f, S) /\ SumFunctionOnSet(f, S) = g[S]
    BY SumUnfolds
  <1>2. IsFiniteSet(T) /\ T \in SUBSET S /\ T \in SUBSET (S \cap T)
    BY FS_Subset
  <1>3. PICK h : Sums(h, f, T) /\ SumFunctionOnSet(f, T) = h[T]
    BY <1>2, SumUnfolds
  <1>4. g[S] = f[Picked(S)] + g[T]
    BY <1>1 DEF Sums
  <1> HIDE DEF T
  <1>5. g[T] = h[T]
    BY <1>1, <1>2, <1>3, SumsAgree
  <1>6. QED
    BY <1>1, <1>3, <1>4, <1>5 DEF SumOver, T

LEMMA SumOfInts ==
    ASSUME NEW f, NEW S, IsFiniteSet(S), \A x \in S : f[x] \in Int
    PROVE  SumOver(f, S) \in Int
  <1> DEFINE C == {T \in SUBSET S : SumOver(f, T) \notin Int}
  <1>1. ASSUME C # {} PROVE FALSE
    <2>1. \A T \in C : IsFiniteSet(T)
      BY FS_Subset
    <2>2. PICK T \in C : \A U \in SUBSET T : U \in C => U = T
      <3> HIDE DEF C
      <3>1. QED
        BY <1>1, <2>1, MinimalSet
    <2>3. T # {} /\ Picked(T) \in T
      BY SumOfNone, PickedIn
    <2>4. SumOver(f, T) = f[Picked(T)] + SumOver(f, T \ {Picked(T)})
      BY <2>1, <2>3, SumPicks
    <2>5. SumOver(f, T \ {Picked(T)}) \in Int /\ f[Picked(T)] \in Int
      BY <2>2, <2>3
    <2>6. QED
      BY <2>4, <2>5
  <1>2. QED
    BY <1>1

\* Any element of a set may be added last.
LEMMA SumAdds ==
    ASSUME NEW f, NEW S, IsFiniteSet(S), \A y \in S : f[y] \in Int, NEW x \in S
    PROVE  SumOver(f, S) = f[x] + SumOver(f, S \ {x})
  <1> DEFINE C == {T \in SUBSET S : \E y \in T : SumOver(f, T) # f[y] + SumOver(f, T \ {y})}
  <1>1. ASSUME C # {} PROVE FALSE
    <2>1. \A T \in C : IsFiniteSet(T)
      BY FS_Subset
    <2>2. PICK T \in C : \A U \in SUBSET T : U \in C => U = T
      <3> HIDE DEF C
      <3>1. QED
        BY <1>1, <2>1, MinimalSet
    <2>3. PICK y \in T : SumOver(f, T) # f[y] + SumOver(f, T \ {y})
      OBVIOUS
    <2> DEFINE p == Picked(T)
    <2>4. p \in T /\ SumOver(f, T) = f[p] + SumOver(f, T \ {p})
      BY <2>1, <2>3, PickedIn, SumPicks
    <2>5. p # y
      BY <2>3, <2>4
    <2> HIDE DEF p
    <2>12. \A U \in SUBSET T : U # T =>
              \A z \in U : SumOver(f, U) = f[z] + SumOver(f, U \ {z})
      BY <2>2
    <2>6. SumOver(f, T \ {p}) = f[y] + SumOver(f, (T \ {p}) \ {y})
      <3>1. T \ {p} \in SUBSET T /\ T \ {p} # T /\ y \in T \ {p}
        BY <2>4, <2>5
      <3>2. QED
        BY <3>1, <2>12
    <2>7. SumOver(f, T \ {y}) = f[p] + SumOver(f, (T \ {y}) \ {p})
      <3>1. T \ {y} \in SUBSET T /\ T \ {y} # T /\ p \in T \ {y}
        BY <2>4, <2>5
      <3>2. QED
        BY <3>1, <2>12
    <2>8. SumOver(f, T \ {y}) = f[p] + SumOver(f, (T \ {p}) \ {y})
      <3>1. (T \ {y}) \ {p} = (T \ {p}) \ {y}
        OBVIOUS
      <3>2. QED
        BY <2>7, <3>1, Zenon
    <2>9. SumOver(f, (T \ {p}) \ {y}) \in Int
      <3>1. IsFiniteSet((T \ {p}) \ {y}) /\ \A z \in (T \ {p}) \ {y} : f[z] \in Int
        BY <2>1, FS_Subset
      <3>2. QED
        BY <3>1, SumOfInts
    <2>10. f[p] \in Int /\ f[y] \in Int
      BY <2>3, <2>4
    <2> HIDE DEF C
    <2>11. QED
      BY <2>3, <2>4, <2>6, <2>8, <2>9, <2>10
  <1>2. QED
    BY <1>1

LEMMA SumOfUnion ==
    ASSUME NEW f, NEW A, NEW B, IsFiniteSet(A), IsFiniteSet(B), A \cap B = {},
           \A x \in A \cup B : f[x] \in Int
    PROVE  SumOver(f, A \cup B) = SumOver(f, A) + SumOver(f, B)
  <1> DEFINE C == {T \in SUBSET A : SumOver(f, T \cup B) # SumOver(f, T) + SumOver(f, B)}
  <1>1. ASSUME C # {} PROVE FALSE
    <2>1. \A T \in C : IsFiniteSet(T)
      BY FS_Subset
    <2>2. PICK T \in C : \A U \in SUBSET T : U \in C => U = T
      <3> HIDE DEF C
      <3>1. QED
        BY <1>1, <2>1, MinimalSet
    <2>3. SumOver(f, B) \in Int
      BY SumOfInts
    <2>4. T # {}
      <3> SUFFICES ASSUME T = {} PROVE FALSE
        OBVIOUS
      <3>1. T \cup B = B /\ SumOver(f, T) = 0
        BY SumOfNone
      <3>2. SumOver(f, T \cup B) = SumOver(f, B)
        BY <3>1, Zenon
      <3>3. SumOver(f, T \cup B) # SumOver(f, T) + SumOver(f, B)
        OBVIOUS
      <3> HIDE DEF C
      <3>4. QED
        BY <3>1, <3>2, <3>3, <2>3
    <2>5. PICK x : x \in T
      BY <2>4
    <2> DEFINE U == T \ {x}
    <2>6. SumOver(f, T) = f[x] + SumOver(f, U)
      BY <2>1, <2>5, SumAdds
    <2>7. SumOver(f, T \cup B) = f[x] + SumOver(f, U \cup B)
      <3>1. IsFiniteSet(T \cup B) /\ \A y \in T \cup B : f[y] \in Int
        BY <2>1, FS_Union
      <3>2. (T \cup B) \ {x} = U \cup B /\ x \in T \cup B
        BY <2>5
      <3> HIDE DEF U
      <3>3. QED
        BY <3>1, <3>2, SumAdds
    <2>8. SumOver(f, U \cup B) = SumOver(f, U) + SumOver(f, B)
      BY <2>2, <2>5
    <2>9. SumOver(f, U) \in Int /\ f[x] \in Int
      <3>1. IsFiniteSet(U) /\ \A y \in U : f[y] \in Int
        BY <2>1, FS_Subset
      <3>2. QED
        BY <3>1, <2>5, SumOfInts
    <2> HIDE DEF U
    <2>10. SumOver(f, T \cup B) # SumOver(f, T) + SumOver(f, B)
      OBVIOUS
    <2> HIDE DEF C
    <2>11. QED
      BY <2>3, <2>6, <2>7, <2>8, <2>9, <2>10
  <1>2. QED
    BY <1>1

\* Summing the images of a set under h that keeps its members apart.
LEMMA SumOfImage ==
    ASSUME NEW f, NEW g, NEW h, NEW S, IsFiniteSet(S),
           \A x \in S : g[h[x]] = f[x] /\ f[x] \in Int,
           \A x, y \in S : h[x] = h[y] => x = y
    PROVE  SumOver(g, {h[x] : x \in S}) = SumOver(f, S)
  <1> DEFINE H(T) == {h[x] : x \in T}
             C == {T \in SUBSET S : SumOver(g, H(T)) # SumOver(f, T)}
  <1>1. ASSUME C # {} PROVE FALSE
    <2>1. \A T \in C : IsFiniteSet(T)
      BY FS_Subset
    <2>2. PICK T \in C : \A U \in SUBSET T : U \in C => U = T
      <3> HIDE DEF C
      <3>1. QED
        BY <1>1, <2>1, MinimalSet
    <2>3. T # {}
      <3>1. H({}) = {} /\ SumOver(f, {}) = 0 /\ SumOver(g, {}) = 0
        BY SumOfNone
      <3>2. QED
        BY <3>1
    <2>4. PICK x : x \in T
      BY <2>3
    <2> DEFINE U == T \ {x}
    <2>5. SumOver(f, T) = f[x] + SumOver(f, U)
      BY <2>1, <2>4, SumAdds
    <2>6. H(T) \ {h[x]} = H(U) /\ h[x] \in H(T)
      BY <2>4
    <2>7. IsFiniteSet(H(T)) /\ \A y \in H(T) : g[y] \in Int
      <3>1. IsFiniteSet(H(T))
        <4>1. [z \in T |-> h[z]] \in Surjection(T, H(T)) /\ IsFiniteSet(T)
          BY <2>1 DEF Surjection
        <4> HIDE DEF H
        <4>2. QED
          BY <4>1, FS_Surjection
      <3>2. \A z \in T : g[h[z]] \in Int
        BY <2>2
      <3>3. QED
        BY <3>1, <3>2
    <2>8. SumOver(g, H(T)) = g[h[x]] + SumOver(g, H(U))
      <3> HIDE DEF H, U
      <3>1. SumOver(g, H(T)) = g[h[x]] + SumOver(g, H(T) \ {h[x]})
        BY <2>6, <2>7, SumAdds
      <3>2. QED
        BY <3>1, <2>6
    <2>9. SumOver(g, H(U)) = SumOver(f, U)
      BY <2>2, <2>4
    <2>10. SumOver(g, H(T)) # SumOver(f, T) /\ g[h[x]] = f[x]
      BY <2>4
    <2> HIDE DEF H, U, C
    <2>11. QED
      BY <2>5, <2>8, <2>9, <2>10
  <1>2. S \notin C
    BY <1>1
  <1>3. QED
    BY <1>2

\* A sum over disjoint groups is the sum of the groups' sums.
LEMMA SumOfGroups ==
    ASSUME NEW f, NEW S, NEW I, NEW H, IsFiniteSet(S), IsFiniteSet(H), \A x \in S : f[x] \in Int,
           \A h \in H : I[h] \subseteq S,
           \A h, j \in H : h # j => I[h] \cap I[j] = {}
    PROVE  SumOver([h \in H |-> SumOver(f, I[h])], H) = SumOver(f, UNION {I[h] : h \in H})
  <1> DEFINE g == [h \in H |-> SumOver(f, I[h])]
             A(T) == UNION {I[h] : h \in T}
             C == {T \in SUBSET H : SumOver(g, T) # SumOver(f, A(T))}
  <1>1. \A h \in H : g[h] \in Int /\ IsFiniteSet(I[h])
    <2> SUFFICES ASSUME NEW h \in H PROVE g[h] \in Int /\ IsFiniteSet(I[h])
      OBVIOUS
    <2>1. IsFiniteSet(I[h]) /\ \A x \in I[h] : f[x] \in Int
      BY FS_Subset
    <2>2. QED
      BY <2>1, SumOfInts
  <1>2. ASSUME C # {} PROVE FALSE
    <2>1. \A T \in C : IsFiniteSet(T)
      BY FS_Subset
    <2>2. PICK T \in C : \A U \in SUBSET T : U \in C => U = T
      <3> HIDE DEF C
      <3>1. QED
        BY <1>2, <2>1, MinimalSet
    <2>3. T # {}
      <3>1. A({}) = {} /\ SumOver(f, {}) = 0 /\ SumOver(g, {}) = 0
        BY SumOfNone
      <3>2. QED
        BY <3>1
    <2>4. PICK h : h \in T
      BY <2>3
    <2> DEFINE U == T \ {h}
    <2>5. SumOver(g, T) = g[h] + SumOver(g, U)
      <3>1. IsFiniteSet(T) /\ \A y \in T : g[y] \in Int
        BY <2>1, <1>1
      <3> HIDE DEF g
      <3>2. QED
        BY <3>1, <2>4, SumAdds
    <2>6. A(T) = I[h] \cup A(U) /\ I[h] \cap A(U) = {} /\ A(U) \subseteq S
      BY <2>4
    <2>7. SumOver(f, A(T)) = SumOver(f, I[h]) + SumOver(f, A(U))
      <3>1. IsFiniteSet(I[h]) /\ IsFiniteSet(A(U)) /\ \A x \in I[h] \cup A(U) : f[x] \in Int
        BY <1>1, <2>4, <2>6, FS_Subset
      <3> HIDE DEF A
      <3>2. SumOver(f, I[h] \cup A(U)) = SumOver(f, I[h]) + SumOver(f, A(U))
        BY <3>1, <2>6, SumOfUnion
      <3>3. QED
        BY <3>2, <2>6
    <2>8. SumOver(g, U) = SumOver(f, A(U))
      BY <2>2, <2>4
    <2>9. SumOver(g, T) # SumOver(f, A(T)) /\ g[h] = SumOver(f, I[h])
      BY <2>4
    <2> HIDE DEF g, A, U, C
    <2>10. QED
      BY <2>5, <2>7, <2>8, <2>9
  <1>3. H \notin C
    BY <1>2
  <1>4. QED
    BY <1>3

LEMMA SumOfZeros ==
    ASSUME NEW f, NEW S, IsFiniteSet(S), \A x \in S : f[x] = 0
    PROVE  SumOver(f, S) = 0
  <1> DEFINE C == {T \in SUBSET S : SumOver(f, T) # 0}
  <1>1. ASSUME C # {} PROVE FALSE
    <2>1. \A T \in C : IsFiniteSet(T)
      BY FS_Subset
    <2>2. PICK T \in C : \A U \in SUBSET T : U \in C => U = T
      <3> HIDE DEF C
      <3>1. QED
        BY <1>1, <2>1, MinimalSet
    <2>3. T # {} /\ Picked(T) \in T
      BY SumOfNone, PickedIn
    <2>4. SumOver(f, T) = f[Picked(T)] + SumOver(f, T \ {Picked(T)})
      BY <2>1, <2>3, SumPicks
    <2>5. SumOver(f, T \ {Picked(T)}) = 0 /\ f[Picked(T)] = 0
      BY <2>2, <2>3
    <2>6. QED
      BY <2>4, <2>5
  <1>2. QED
    BY <1>1

\* A finite set of integers has a least and a greatest member.
LEMMA Extremes ==
    ASSUME NEW S, S \subseteq Int, IsFiniteSet(S), S # {}
    PROVE  /\ Min(S) \in S /\ \A x \in S : Min(S) <= x
           /\ Max(S) \in S /\ \A x \in S : x <= Max(S)
  <1> DEFINE Least(T) == \E x \in T : \A y \in T : x <= y
             Greatest(T) == \E x \in T : \A y \in T : x >= y
             C == {T \in SUBSET S : T # {} /\ ~(Least(T) /\ Greatest(T))}
  <1>1. ASSUME C # {} PROVE FALSE
    <2>1. \A T \in C : IsFiniteSet(T)
      BY FS_Subset
    <2>2. PICK T \in C : \A U \in SUBSET T : U \in C => U = T
      <3> HIDE DEF C
      <3>1. QED
        BY <1>1, <2>1, MinimalSet
    <2>3. PICK x : x \in T
      OBVIOUS
    <2>4. CASE T \ {x} = {}
      <3>1. T = {x} /\ x \in Int
        BY <2>3, <2>4
      <3>2. QED
        BY <3>1
    <2>5. CASE T \ {x} # {}
      <3>1. Least(T \ {x}) /\ Greatest(T \ {x})
        <4>1. T \ {x} \in SUBSET T /\ T \ {x} # T
          BY <2>3
        <4>2. T \ {x} \notin C
          BY <2>2, <4>1
        <4>3. QED
          BY <2>5, <4>2
      <3>2. PICK a \in T \ {x} : \A y \in T \ {x} : a <= y
        BY <3>1
      <3>3. PICK b \in T \ {x} : \A y \in T \ {x} : b >= y
        BY <3>1
      <3>4. a \in Int /\ b \in Int /\ x \in Int /\ \A y \in T : y \in Int
        BY <2>3
      <3>5. Least(T)
        <4>1. CASE a <= x
          BY <3>2, <4>1
        <4>2. CASE x <= a
          <5>1. \A y \in T : x <= y
            BY <3>2, <3>4, <4>2
          <5>2. QED
            BY <5>1, <2>3
        <4>3. QED
          BY <3>4, <4>1, <4>2
      <3>6. Greatest(T)
        <4>1. CASE b >= x
          BY <3>3, <4>1
        <4>2. CASE x >= b
          <5>1. \A y \in T : x >= y
            BY <3>3, <3>4, <4>2
          <5>2. QED
            BY <5>1, <2>3
        <4>3. QED
          BY <3>4, <4>1, <4>2
      <3>7. QED
        BY <3>5, <3>6
    <2>6. QED
      BY <2>4, <2>5
  <1>2. Least(S) /\ Greatest(S)
    BY <1>1
  <1>3. Min(S) \in S /\ \A x \in S : Min(S) <= x
    BY <1>2 DEF Min
  <1>4. Max(S) \in S /\ \A x \in S : Max(S) >= x
    BY <1>2 DEF Max
  <1>5. QED
    BY <1>3, <1>4

-----------------------------------------------------------------------------
(* Types: what a batch of rows is resampled to and graded *)

\* The worst of several reasons, spelled out.
LEMMA WorstIs ==
    ASSUME NEW S, S \subseteq Statuses, S # {}
    PROVE  Worst(S) = IF "quarantined" \in S THEN "quarantined"
                      ELSE IF "degraded" \in S THEN "degraded" ELSE "pass"
  <1>1. Statuses = {"pass", "degraded", "quarantined"}
    BY DEF Statuses, Rank
  <1>2. Rank["pass"] = 0 /\ Rank["degraded"] = 1 /\ Rank["quarantined"] = 2
    BY DEF Rank
  <1> DEFINE w == IF "quarantined" \in S THEN "quarantined"
                  ELSE IF "degraded" \in S THEN "degraded" ELSE "pass"
  <1>3. w \in S /\ \A t \in S : Rank[t] <= Rank[w]
    <2>1. \A t \in S : t = "pass" \/ t = "degraded" \/ t = "quarantined"
      BY <1>1
    <2>2. CASE "quarantined" \in S
      BY <1>2, <2>1, <2>2
    <2>3. CASE "quarantined" \notin S /\ "degraded" \in S
      BY <1>2, <2>1, <2>3
    <2>4. CASE "quarantined" \notin S /\ "degraded" \notin S
      BY <1>2, <2>1, <2>4
    <2>5. QED
      BY <2>2, <2>3, <2>4
  <1>4. \A s, t \in S : Rank[s] <= Rank[t] /\ Rank[t] <= Rank[s] => s = t
    BY <1>1, <1>2
  <1>5. Worst(S) \in S /\ \A t \in S : Rank[t] <= Rank[Worst(S)]
    BY <1>3 DEF Worst
  <1>6. QED
    BY <1>3, <1>4, <1>5

Batch(rs) == rs \in Seq(RawRows)

\* The rows of a batch, and the ticks of a meter that sent some.
LEMMA RowsAre ==
    ASSUME NEW rs, Batch(rs)
    PROVE  /\ IsFiniteSet(DOMAIN rs)
           /\ \A i \in DOMAIN rs : /\ rs[i].meter \in Meters \cup BlankMeters
                                   /\ rs[i].at \in Nat /\ rs[i].kwh \in Int \cup {None}
           /\ \A m : IsFiniteSet(RowsOf(rs, m)) /\ RowsOf(rs, m) \subseteq DOMAIN rs
  <1>1. DOMAIN rs = 1..Len(rs) /\ Len(rs) \in Nat /\ \A i \in DOMAIN rs : rs[i] \in RawRows
    BY DEF Batch
  <1>2. IsFiniteSet(DOMAIN rs)
    BY <1>1, FS_Interval
  <1>3. \A m : RowsOf(rs, m) \in SUBSET DOMAIN rs
    BY DEF RowsOf
  <1>4. QED
    BY <1>1, <1>2, <1>3, FS_Subset, GateAssumption

LEMMA TicksAre ==
    ASSUME NEW rs, Batch(rs), NEW m, RowsOf(rs, m) # {}
    PROVE  LET T == TicksOf(rs, m)
           IN  /\ T \subseteq Nat /\ IsFiniteSet(T) /\ T # {}
               /\ Min(T) \in T /\ \A t \in T : Min(T) <= t
               /\ Max(T) \in T /\ \A t \in T : t <= Max(T)
  <1> DEFINE T == TicksOf(rs, m)
             at == [i \in RowsOf(rs, m) |-> rs[i].at]
  <1>1. T \subseteq Nat /\ T # {}
    BY RowsAre DEF TicksOf
  <1>2. at \in Surjection(RowsOf(rs, m), T) /\ IsFiniteSet(RowsOf(rs, m))
    <2>1. at \in [RowsOf(rs, m) -> T] /\ \A t \in T : \E i \in RowsOf(rs, m) : at[i] = t
      BY DEF TicksOf
    <2>2. QED
      BY <2>1, RowsAre DEF Surjection
  <1> HIDE DEF T, at
  <1>3. IsFiniteSet(T)
    BY <1>2, FS_Surjection
  <1>4. /\ Min(T) \in T /\ \A t \in T : Min(T) <= t
        /\ Max(T) \in T /\ \A t \in T : t <= Max(T)
    <2>1. T \subseteq Int
      BY <1>1
    <2>2. QED
      BY <1>1, <1>3, <2>1, Extremes
  <1>5. QED
    BY <1>1, <1>3, <1>4 DEF T

\* The rows with a number in hour h of meter m, and the hours the meter's rows span.
InHour(rs, m, h) == {i \in RowsOf(rs, m) : rs[i].at \div 2 = h /\ rs[i].kwh # None}
Span(rs, m) == (Min(TicksOf(rs, m)) \div 2)..((Max(TicksOf(rs, m)) + 1) \div 2 - 1)

LEMMA HourlyKwhIs ==
    ASSUME NEW rs, NEW m
    PROVE  /\ DOMAIN HourlyKwh(rs, m) = Span(rs, m)
           /\ \A h \in Span(rs, m) : HourlyKwh(rs, m)[h] =
                IF InHour(rs, m, h) = {} THEN None ELSE SumOver(KwhOf(rs), InHour(rs, m, h))
  BY Zenon DEF HourlyKwh, Span, InHour

LEMMA HourlyKwhTypes ==
    ASSUME NEW rs, Batch(rs), NEW m, RowsOf(rs, m) # {}
    PROVE  /\ Span(rs, m) \subseteq Nat /\ IsFiniteSet(Span(rs, m))
           /\ \A h \in Span(rs, m) :
                /\ InHour(rs, m, h) # {} => HourlyKwh(rs, m)[h] \in Int
                /\ HourlyKwh(rs, m)[h] \in Int \cup {None}
  <1> DEFINE lo == Min(TicksOf(rs, m))
             hi == Max(TicksOf(rs, m))
  <1>1. lo \in Nat /\ hi \in Nat
    BY TicksAre
  <1> HIDE DEF lo, hi
  <1>2. lo \div 2 \in Nat /\ (hi + 1) \div 2 - 1 \in Int
    BY <1>1
  <1>3. Span(rs, m) = (lo \div 2)..((hi + 1) \div 2 - 1)
    BY DEF Span, lo, hi
  <1>4. Span(rs, m) \subseteq Nat /\ IsFiniteSet(Span(rs, m))
    BY <1>2, <1>3, FS_Interval
  <1>5. ASSUME NEW h \in Span(rs, m)
        PROVE  SumOver(KwhOf(rs), InHour(rs, m, h)) \in Int
    <2>1. IsFiniteSet(InHour(rs, m, h))
      BY RowsAre, FS_Subset DEF InHour
    <2>2. \A i \in InHour(rs, m, h) : KwhOf(rs)[i] \in Int
      BY RowsAre DEF InHour, KwhOf
    <2>3. QED
      BY <2>1, <2>2, SumOfInts
  <1>6. QED
    BY <1>4, <1>5, HourlyKwhIs

\* The circuits a batch has readings of, and the reasons normalization has to
\* grade hour h of one of them.
Served(rs, f, map) ==
    IF f \in {"no_kwh", "no_meter"} THEN {}
    ELSE {m \in Meters : map[m] # None /\ RowsOf(rs, m) # {}}

Found(rs, ms, k, h) ==
    {"pass"} \cup (IF h \in BeyondBound(k) THEN {"quarantined"} ELSE {})
        \cup (IF h \in Outliers(k) THEN {"degraded"} ELSE {})
        \cup (IF TooManyInterpolated(rs, ms) THEN {"degraded"} ELSE {})

Normalized(rs, f, map, m, h) ==
    [meter |-> m, hour |-> h, kwh |-> HourlyKwh(rs, m)[h],
     status |-> Worst(Found(rs, Served(rs, f, map), HourlyKwh(rs, m), h))]

LEMMA NormalizedIs ==
    ASSUME NEW rs, NEW f, NEW map
    PROVE  normalize_batch(rs, f, map) =
             UNION {{Normalized(rs, f, map, m, h) : h \in DOMAIN HourlyKwh(rs, m)} :
                        m \in Served(rs, f, map)}
  BY Zenon DEF normalize_batch, Normalized, Found, Served

\* The reasons the five detectors have to grade reading r of the batch.
Against(issues, r) == {i.severity : i \in {i \in issues : Affects(i, r)}}

LEMMA AppliedIs ==
    ASSUME NEW readings, NEW issues
    PROVE  ApplyIssues(readings, issues) =
             {[r EXCEPT !.status = Worst({@} \cup Against(issues, r))] : r \in readings}
  BY Zenon DEF ApplyIssues, Against

\* The result's readings, one by one.
Graded(rs, f, map, n) ==
    [n EXCEPT !.status =
        Worst({@} \cup Against(Issues(rs, f, map, normalize_batch(rs, f, map)), n))]

LEMMA ReadingsAre ==
    ASSUME NEW rs, NEW f, NEW map
    PROVE  /\ \A r \in process_batch(rs, f, map).readings :
                \E m \in Served(rs, f, map) : \E h \in Span(rs, m) :
                    /\ Normalized(rs, f, map, m, h) \in normalize_batch(rs, f, map)
                    /\ r = Graded(rs, f, map, Normalized(rs, f, map, m, h))
           /\ \A m \in Served(rs, f, map) : \A h \in Span(rs, m) :
                \E r \in process_batch(rs, f, map).readings :
                    r.meter = m /\ r.hour = h /\ r.kwh = HourlyKwh(rs, m)[h]
  <1> DEFINE N == normalize_batch(rs, f, map)
             n(m, h) == Normalized(rs, f, map, m, h)
  <1>1. process_batch(rs, f, map).readings = {Graded(rs, f, map, r) : r \in N}
    BY AppliedIs, Zenon DEF process_batch, Graded
  <1>2. \A x : x \in N <=> \E m \in Served(rs, f, map) : \E h \in Span(rs, m) : x = n(m, h)
    <2> HIDE DEF n
    <2>1. N = UNION {{n(m, h) : h \in DOMAIN HourlyKwh(rs, m)} : m \in Served(rs, f, map)}
      BY NormalizedIs DEF n
    <2>2. \A m : DOMAIN HourlyKwh(rs, m) = Span(rs, m)
      BY HourlyKwhIs
    <2> HIDE DEF N
    <2>3. QED
      BY <2>1, <2>2
  <1>3. \A m, h : /\ Graded(rs, f, map, n(m, h)).meter = m
                  /\ Graded(rs, f, map, n(m, h)).hour = h
                  /\ Graded(rs, f, map, n(m, h)).kwh = HourlyKwh(rs, m)[h]
    BY DEF Normalized, Graded
  <1> HIDE DEF N, n
  <1>4. \A r \in process_batch(rs, f, map).readings :
            \E m \in Served(rs, f, map) : \E h \in Span(rs, m) :
                n(m, h) \in N /\ r = Graded(rs, f, map, n(m, h))
    BY <1>1, <1>2
  <1>5. \A m \in Served(rs, f, map) : \A h \in Span(rs, m) :
            Graded(rs, f, map, n(m, h)) \in process_batch(rs, f, map).readings
    BY <1>1, <1>2
  <1>6. \A m \in Served(rs, f, map) : \A h \in Span(rs, m) :
            \E r \in process_batch(rs, f, map).readings :
                r.meter = m /\ r.hour = h /\ r.kwh = HourlyKwh(rs, m)[h]
    BY <1>3, <1>5
  <1>7. QED
    BY <1>4, <1>6, Zenon DEF N, n

\* What the detectors report of one circuit.
Faults(rs, map, m) ==
    StuckIssues(m, HourlyKwh(rs, m), map[m]) \cup DropoutIssues(rs, m)
        \cup check_bounds(m, HourlyKwh(rs, m), map[m])

LEMMA IssuesAre ==
    ASSUME NEW rs, NEW f, NEW map, NEW readings
    PROVE  Issues(rs, f, map, readings) =
             check_schema_drift(rs, f) \cup
                 UNION {Faults(rs, map, m) : m \in {r.meter : r \in readings}}
  BY Zenon DEF Issues, Faults

LEMMA IssueTypes ==
    ASSUME NEW rs, NEW f \in Forms, NEW map, NEW readings, NEW i \in Issues(rs, f, map, readings)
    PROVE  i.severity \in Statuses
  <1>1. Statuses = {"pass", "degraded", "quarantined"}
    BY DEF Statuses, Rank
  <1>2. CASE i \in check_schema_drift(rs, f)
    BY <1>1, <1>2 DEF check_schema_drift, Issue
  <1>3. ASSUME NEW m, i \in Faults(rs, map, m)
        PROVE  i.severity \in Statuses
    <2>1. CASE i \in StuckIssues(m, HourlyKwh(rs, m), map[m])
      BY <1>1, <2>1 DEF StuckIssues, Issue
    <2>2. CASE i \in DropoutIssues(rs, m)
      BY <1>1, <2>2 DEF DropoutIssues, Issue
    <2>3. CASE i \in check_bounds(m, HourlyKwh(rs, m), map[m])
      BY <1>1, <2>3 DEF check_bounds, Issue
    <2>4. QED
      BY <1>3, <2>1, <2>2, <2>3 DEF Faults
  <1>4. i \in check_schema_drift(rs, f) \/ \E m : i \in Faults(rs, map, m)
    <2> DEFINE M == {r.meter : r \in readings}
    <2>1. i \in check_schema_drift(rs, f) \cup UNION {Faults(rs, map, m) : m \in M}
      BY IssuesAre, Zenon
    <2> HIDE DEF M
    <2>2. QED
      BY <2>1
  <1>5. QED
    BY <1>2, <1>3, <1>4

LEMMA ReadingTypes ==
    ASSUME NEW rs, Batch(rs), NEW f \in Forms, NEW map,
           NEW r \in process_batch(rs, f, map).readings
    PROVE  Reading(r)
  <1> DEFINE N == normalize_batch(rs, f, map)
             n(m, h) == Normalized(rs, f, map, m, h)
  <1>0. PICK m \in Served(rs, f, map) : \E h \in Span(rs, m) : r = Graded(rs, f, map, n(m, h))
    BY ReadingsAre
  <1>1. PICK h \in Span(rs, m) : r = Graded(rs, f, map, n(m, h))
    BY <1>0
  <1>2. m \in Meters /\ RowsOf(rs, m) # {}
    BY DEF Served
  <1>3. h \in Nat /\ HourlyKwh(rs, m)[h] \in Int \cup {None}
    BY <1>2, HourlyKwhTypes
  <1>4. Statuses = {"pass", "degraded", "quarantined"}
    BY DEF Statuses, Rank
  <1>5. n(m, h).status \in Statuses
    <2>1. Found(rs, Served(rs, f, map), HourlyKwh(rs, m), h) \subseteq Statuses
      BY <1>4 DEF Found
    <2>2. Found(rs, Served(rs, f, map), HourlyKwh(rs, m), h) # {}
      BY DEF Found
    <2>3. Worst(Found(rs, Served(rs, f, map), HourlyKwh(rs, m), h)) \in Statuses
      BY <1>4, <2>1, <2>2, WorstIs
    <2>4. QED
      BY <2>3 DEF Normalized
  <1> DEFINE w == Worst({n(m, h).status} \cup Against(Issues(rs, f, map, N), n(m, h)))
  <1>6. w \in Statuses
    <2> DEFINE S == {n(m, h).status} \cup Against(Issues(rs, f, map, N), n(m, h))
    <2>1. S \subseteq Statuses /\ S # {}
      BY <1>5, IssueTypes DEF Against
    <2> HIDE DEF S
    <2>2. Worst(S) \in Statuses
      BY <1>4, <2>1, WorstIs
    <2>3. QED
      BY <2>2 DEF S
  <1>7. r = [n(m, h) EXCEPT !.status = w]
    BY <1>1, Zenon DEF Graded
  <1> HIDE DEF w
  <1>8. r.meter = m /\ r.hour = h /\ r.kwh = HourlyKwh(rs, m)[h] /\ r.status = w
    BY <1>7 DEF Normalized
  <1>9. QED
    BY <1>2, <1>3, <1>6, <1>8 DEF Reading

LEMMA ResultTypes ==
    ASSUME NEW rs, NEW f, NEW map
    PROVE  /\ process_batch(rs, f, map).status \in Statuses
           /\ process_batch(rs, f, map).announced \in BOOLEAN
  <1>1. \A readings : BatchStatus(readings) \in Statuses
    BY DEF BatchStatus, Statuses, Rank
  <1>2. QED
    BY <1>1 DEF process_batch

LEMMA IngestTypes ==
    ASSUME TypeOK, NEW rs, Batch(rs), NEW f \in Forms, IngestRawRows(rs, f)
    PROVE  /\ circuits' \in [Meters -> CircuitTypes \cup {None}]
           /\ \A r \in store' \cup result'.readings : Reading(r)
           /\ \A q, r \in store' : SameHour(q, r) => q = r
           /\ result'.status \in Statuses /\ result'.announced \in BOOLEAN
  <1> DEFINE map == get_or_create_circuits(circuits, rs, f)
             quality == process_batch(rs, f, map)
  <1>1. circuits' = map /\ store' = SaveReadings(quality.readings) /\ result' = quality
    BY DEF IngestRawRows
  <1>2. map \in [Meters -> CircuitTypes \cup {None}]
    BY GateAssumption DEF get_or_create_circuits, TypeOK, CircuitTypes
  <1>3. \A r \in quality.readings : Reading(r)
    BY ReadingTypes
  <1>4. quality.status \in Statuses /\ quality.announced \in BOOLEAN
    BY ResultTypes
  <1>5. OnePerHour(quality.readings)
    BY ProcessedOnePerHour
  <1> HIDE DEF map, quality
  <1>6. \A r \in store' \cup result'.readings : Reading(r)
    BY <1>1, <1>3 DEF SaveReadings, TypeOK
  <1>7. \A q, r \in store' : SameHour(q, r) => q = r
    BY <1>1, <1>5 DEF SaveReadings, OnePerHour, TypeOK, SameHour
  <1>8. QED
    BY <1>1, <1>2, <1>4, <1>6, <1>7

LEMMA BatchUsed ==
    ASSUME left \in [rows : 0..MaxRows, batches : 0..MaxBatches], left.batches > 0,
           left' = [left EXCEPT !.batches = @ - 1]
    PROVE  left' \in [rows : 0..MaxRows, batches : 0..MaxBatches]
  <1>1. MaxBatches \in Nat
    BY GateAssumption
  <1>2. left.batches - 1 \in 0..MaxBatches
    BY <1>1
  <1>3. QED
    BY <1>2

LEMMA TypesKept == TypeOK /\ [Next]_vars => TypeOK'
  <1> SUFFICES ASSUME TypeOK, [Next]_vars PROVE TypeOK'
    OBVIOUS
  <1> USE DEF Batch
  <1>1. CASE AddRow
    <2>1. PICK r \in RawRows : rows' = Append(rows, r)
      BY <1>1 DEF AddRow
    <2>2. rows' \in Seq(RawRows)
      BY <2>1 DEF TypeOK
    <2>3. left' \in [rows : 0..MaxRows, batches : 0..MaxBatches]
      <3>1. left' = [left EXCEPT !.rows = @ - 1] /\ left.rows > 0
        BY <1>1 DEF AddRow
      <3>2. left \in [rows : 0..MaxRows, batches : 0..MaxBatches] /\ MaxRows \in Nat
        BY GateAssumption DEF TypeOK
      <3>3. left.rows - 1 \in 0..MaxRows
        BY <3>1, <3>2
      <3>4. QED
        BY <3>1, <3>2, <3>3
    <2>4. QED
      BY <1>1, <2>2, <2>3 DEF AddRow, TypeOK, Reading, SameHour
  <1>2. CASE Send
    <2>1. PICK f \in Forms : IngestRawRows(rows, f) /\ sent' = [rows |-> rows, form |-> f]
      BY <1>2 DEF Send
    <2>2. sent'.rows \in Seq(RawRows) /\ sent'.form \in Forms /\ rows' \in Seq(RawRows)
      BY <1>2, <2>1 DEF Send, TypeOK
    <2>3. left' \in [rows : 0..MaxRows, batches : 0..MaxBatches]
      BY <1>2, BatchUsed DEF Send, TypeOK
    <2>4. QED
      BY <2>1, <2>2, <2>3, IngestTypes DEF TypeOK
  <1>3. CASE SendRaises
    <2>1. left' \in [rows : 0..MaxRows, batches : 0..MaxBatches]
      BY <1>3, BatchUsed DEF SendRaises, TypeOK
    <2>2. QED
      BY <1>3, <2>1 DEF SendRaises, TypeOK, Reading, SameHour
  <1>4. CASE Resend
    <2>1. /\ circuits' \in [Meters -> CircuitTypes \cup {None}]
          /\ \A r \in store' \cup result'.readings : Reading(r)
          /\ \A q, r \in store' : SameHour(q, r) => q = r
          /\ result'.status \in Statuses /\ result'.announced \in BOOLEAN
      BY <1>4, IngestTypes DEF Resend, TypeOK
    <2>2. QED
      BY <1>4, <2>1 DEF Resend, TypeOK
  <1>5. CASE UNCHANGED vars
    BY <1>5 DEF vars, TypeOK, Reading, SameHour
  <1>6. QED
    BY <1>1, <1>2, <1>3, <1>4, <1>5 DEF Next

\* Whatever rows a client sends, in batches of whatever columns, every reading is
\* of a known meter and an hour, has a number or none and a status, and the store
\* keeps one reading per circuit and hour, as its primary key demands.
THEOREM ReadingsStayValid == Spec => []TypeOK
  <1>1. Init => TypeOK
    BY GateAssumption DEF Init, TypeOK, Forms, Statuses, Rank, CircuitTypes
  <1>2. QED
    BY <1>1, TypesKept, PTL DEF Spec

-----------------------------------------------------------------------------
(* Energy: the hours of a meter's readings group its rows *)

\* The rows of a meter that are summed into some hour.
Counted(rs, m) ==
    {i \in RowsOf(rs, m) :
        /\ rs[i].kwh # None
        /\ ~(rs[i].at % 2 = 0 /\ rs[i].at = Max(TicksOf(rs, m)))}

\* A tick lies in an hour of the span unless it is the last and on the hour.
LEMMA SpanHolds ==
    ASSUME NEW lo \in Nat, NEW hi \in Nat, NEW t \in Nat, lo <= t, t <= hi
    PROVE  t \div 2 \in (lo \div 2)..((hi + 1) \div 2 - 1) <=> ~(t % 2 = 0 /\ t = hi)
  OBVIOUS

LEMMA RowsGroup ==
    ASSUME NEW rs, Batch(rs), NEW m, RowsOf(rs, m) # {}
    PROVE  LET V == Valued(HourlyKwh(rs, m))
           IN  /\ V \subseteq Span(rs, m)
               /\ \A h \in V : InHour(rs, m, h) # {}
               /\ UNION {InHour(rs, m, h) : h \in V} = Counted(rs, m)
  <1> DEFINE k == HourlyKwh(rs, m)
             V == Valued(k)
             lo == Min(TicksOf(rs, m))
             hi == Max(TicksOf(rs, m))
  <1>1. V \subseteq Span(rs, m) /\ \A h \in V : InHour(rs, m, h) # {}
    BY HourlyKwhIs DEF Valued
  <1>2. \A h \in Span(rs, m) : InHour(rs, m, h) # {} => h \in V
    BY HourlyKwhIs, HourlyKwhTypes, GateAssumption DEF Valued
  <1>3. lo \in Nat /\ hi \in Nat /\ \A i \in RowsOf(rs, m) :
            rs[i].at \in Nat /\ lo <= rs[i].at /\ rs[i].at <= hi
    BY TicksAre, RowsAre DEF TicksOf
  <1>4. \A i \in RowsOf(rs, m) :
            rs[i].at \div 2 \in Span(rs, m) <=> ~(rs[i].at % 2 = 0 /\ rs[i].at = hi)
    <2>1. Span(rs, m) = (lo \div 2)..((hi + 1) \div 2 - 1)
      BY DEF Span
    <2> HIDE DEF lo, hi
    <2>2. QED
      BY <1>3, <2>1, SpanHolds
  <1>5. ASSUME NEW i \in Counted(rs, m)
        PROVE  \E h \in V : i \in InHour(rs, m, h)
    <2>1. rs[i].at \div 2 \in Span(rs, m) /\ i \in InHour(rs, m, rs[i].at \div 2)
      BY <1>4, <1>5 DEF Counted, InHour
    <2>2. QED
      BY <1>2, <2>1
  <1>6. ASSUME NEW h \in V, NEW i \in InHour(rs, m, h)
        PROVE  i \in Counted(rs, m)
    <2>1. i \in RowsOf(rs, m) /\ rs[i].kwh # None /\ rs[i].at \div 2 \in Span(rs, m)
      BY <1>1, <1>6 DEF InHour
    <2>2. QED
      BY <1>4, <2>1 DEF Counted
  <1> HIDE DEF V
  <1>7. UNION {InHour(rs, m, h) : h \in V} = Counted(rs, m)
    BY <1>5, <1>6
  <1>8. QED
    BY <1>1, <1>7 DEF V

\* What the hourly values of a meter sum to.
LEMMA HoursSum ==
    ASSUME NEW rs, Batch(rs), NEW m, RowsOf(rs, m) # {}
    PROVE  SumOver(HourlyKwh(rs, m), Valued(HourlyKwh(rs, m)))
             = SumOver(KwhOf(rs), Counted(rs, m))
  <1> DEFINE k == HourlyKwh(rs, m)
             V == Valued(k)
             f == KwhOf(rs)
             S == {i \in RowsOf(rs, m) : rs[i].kwh # None}
             I == [h \in V |-> InHour(rs, m, h)]
             g == [h \in V |-> SumOver(f, I[h])]
  <1>1. V \subseteq Span(rs, m) /\ IsFiniteSet(V)
    BY RowsGroup, HourlyKwhTypes, FS_Subset
  <1>2. \A h \in V : k[h] = g[h] /\ k[h] \in Int
    BY <1>1, RowsGroup, HourlyKwhIs, HourlyKwhTypes
  <1>3. IsFiniteSet(S) /\ \A i \in S : f[i] \in Int
    BY RowsAre, FS_Subset DEF KwhOf
  <1>4. \A h \in V : I[h] \subseteq S
    BY DEF InHour
  <1>5. \A h, j \in V : h # j => I[h] \cap I[j] = {}
    BY DEF InHour
  <1>6. UNION {I[h] : h \in V} = Counted(rs, m)
    BY RowsGroup
  <1>7. SumOver(k, V) = SumOver(g, V)
    <2> DEFINE id == [h \in V |-> h]
    <2>1. {id[h] : h \in V} = V
      OBVIOUS
    <2>2. /\ IsFiniteSet(V) /\ \A h \in V : k[id[h]] = g[h] /\ g[h] \in Int
          /\ \A h, j \in V : id[h] = id[j] => h = j
      BY <1>1, <1>2
    <2> HIDE DEF g, k, V, id
    <2>3. SumOver(k, {id[h] : h \in V}) = SumOver(g, V)
      BY <2>2, SumOfImage
    <2>4. QED
      BY <2>1, <2>3
  <1> HIDE DEF k, V, f, S, I
  <1>8. SumOver(g, V) = SumOver(f, UNION {I[h] : h \in V})
    BY <1>1, <1>3, <1>4, <1>5, SumOfGroups
  <1>9. QED
    BY <1>6, <1>7, <1>8 DEF k, V, f

\* The readings of a served circuit are its hours.
LEMMA ReadingsSum ==
    ASSUME NEW rs, Batch(rs), NEW f, NEW map, NEW m \in Served(rs, f, map)
    PROVE  LET R == process_batch(rs, f, map).readings
               k == HourlyKwh(rs, m)
           IN  SumOver([r \in R |-> r.kwh], {r \in R : r.meter = m /\ r.kwh # None})
                 = SumOver(k, Valued(k))
  <1> DEFINE P == process_batch(rs, f, map).readings
             k == HourlyKwh(rs, m)
             R == {r \in P : r.meter = m /\ r.kwh # None}
             hour == [r \in R |-> r.hour]
             kwh == [r \in P |-> r.kwh]
  <1>1. \A r \in P : r.meter = m => r.hour \in Span(rs, m) /\ r.kwh = k[r.hour]
    <2> SUFFICES ASSUME NEW r \in P, r.meter = m
                 PROVE  r.hour \in Span(rs, m) /\ r.kwh = k[r.hour]
      OBVIOUS
    <2>1. PICK j \in Served(rs, f, map) : \E h \in Span(rs, j) :
              r = Graded(rs, f, map, Normalized(rs, f, map, j, h))
      BY ReadingsAre
    <2>2. PICK h \in Span(rs, j) : r = Graded(rs, f, map, Normalized(rs, f, map, j, h))
      BY <2>1
    <2>3. r.meter = j /\ r.hour = h /\ r.kwh = HourlyKwh(rs, j)[h]
      BY <2>2 DEF Graded, Normalized
    <2>4. QED
      BY <2>3
  <1>2. \A h \in Span(rs, m) : \E r \in P : r.meter = m /\ r.hour = h /\ r.kwh = k[h]
    BY ReadingsAre
  <1>3. OnePerHour(P)
    BY ProcessedOnePerHour
  <1>4. RowsOf(rs, m) # {}
    BY DEF Served
  <1>5. DOMAIN k = Span(rs, m) /\ IsFiniteSet(Span(rs, m))
        /\ \A h \in Span(rs, m) : k[h] \in Int \cup {None}
    BY <1>4, HourlyKwhIs, HourlyKwhTypes
  <1> HIDE DEF P, k
  <1>6. \A r \in R : k[hour[r]] = kwh[r] /\ kwh[r] \in Int /\ hour[r] \in Span(rs, m)
    BY <1>1, <1>5
  <1>7. \A q, r \in R : hour[q] = hour[r] => q = r
    BY <1>3 DEF OnePerHour, SameHour
  <1>8. {hour[r] : r \in R} = Valued(k)
    <2>1. \A h : h \in Valued(k) <=> h \in Span(rs, m) /\ k[h] # None
      BY <1>5 DEF Valued
    <2>2. \A r \in R : hour[r] \in Valued(k)
      BY <1>1, <2>1
    <2>3. ASSUME NEW h \in Valued(k) PROVE \E r \in R : hour[r] = h
      <3>1. PICK r \in P : r.meter = m /\ r.hour = h /\ r.kwh = k[h]
        BY <1>2, <2>1, <2>3
      <3>2. r \in R /\ hour[r] = h
        BY <2>1, <2>3, <3>1
      <3>3. QED
        BY <3>2
    <2> HIDE DEF R, hour
    <2>4. QED
      BY <2>2, <2>3
  <1>9. IsFiniteSet(R)
    <2>1. hour \in Injection(R, Span(rs, m))
      BY <1>6, <1>7 DEF Injection, IsInjective
    <2> HIDE DEF R, hour
    <2>2. QED
      BY <2>1, <1>5, FS_Injection
  <1> HIDE DEF R, hour, kwh
  <1>10. SumOver(k, {hour[r] : r \in R}) = SumOver(kwh, R)
    BY <1>6, <1>7, <1>9, SumOfImage
  <1>11. QED
    BY <1>8, <1>10 DEF P, k, R, kwh

\* In a settled state the last batch's readings hold the energy of its rows.
LEMMA SettledConserves ==
    ASSUME Settled, TypeOK
    PROVE  EnergyConserved
  <1> SUFFICES ASSUME sent.form \notin {"no_kwh", "no_meter"}, NEW m \in Meters
               PROVE  SumOver([r \in result.readings |-> r.kwh],
                              {r \in result.readings : r.meter = m /\ r.kwh # None})
                        = SumOver(KwhOf(sent.rows), Counted(sent.rows, m))
    BY Zenon DEF EnergyConserved, Counted
  <1>1. /\ circuits = get_or_create_circuits(circuits, sent.rows, sent.form)
        /\ result.readings = process_batch(sent.rows, sent.form, circuits).readings
        /\ Batch(sent.rows)
    BY DEF Settled, TypeOK, Batch
  <1>2. CASE RowsOf(sent.rows, m) = {}
    <2>1. m \notin Served(sent.rows, sent.form, circuits)
      BY <1>2 DEF Served
    <2>2. {r \in result.readings : r.meter = m /\ r.kwh # None} = {}
      <3>1. ASSUME NEW r \in result.readings
            PROVE  r.meter \in Served(sent.rows, sent.form, circuits)
        <4> DEFINE n(j, h) == Normalized(sent.rows, sent.form, circuits, j, h)
        <4>1. PICK j \in Served(sent.rows, sent.form, circuits) : \E h \in Span(sent.rows, j) :
                  r = Graded(sent.rows, sent.form, circuits, n(j, h))
          BY <1>1, ReadingsAre
        <4>2. PICK h \in Span(sent.rows, j) : r = Graded(sent.rows, sent.form, circuits, n(j, h))
          BY <4>1
        <4>3. QED
          BY <4>2 DEF Graded, Normalized
      <3>2. QED
        BY <2>1, <3>1
    <2>3. Counted(sent.rows, m) = {}
      BY <1>2 DEF Counted
    <2>4. QED
      BY <2>2, <2>3, SumOfNone
  <1>3. CASE RowsOf(sent.rows, m) # {}
    <2>1. circuits[m] # None
      <3>1. circuits[m] = IF circuits[m] # None \/ sent.form = "no_meter"
                               \/ RowsOf(sent.rows, m) = {} THEN circuits[m]
                          ELSE IF sent.form = "untyped" THEN "main_feed" ELSE TypeOf[m]
        <4>1. circuits[m] = get_or_create_circuits(circuits, sent.rows, sent.form)[m]
          BY <1>1
        <4>2. QED
          BY <4>1 DEF get_or_create_circuits
      <3>2. "main_feed" # None /\ TypeOf[m] # None
        BY GateAssumption DEF CircuitTypes
      <3>3. QED
        BY <1>3, <3>1, <3>2
    <2>2. m \in Served(sent.rows, sent.form, circuits)
      BY <1>3, <2>1 DEF Served
    <2>3. QED
      BY <1>1, <1>3, <2>2, ReadingsSum, HoursSum
  <1>4. QED
    BY <1>2, <1>3

\* For any rows, meters and batches: the readings of a batch hold exactly the
\* energy of its rows of known meters, but for rows stamped on the hour at the
\* very end.  It rests on the settled state, in which the result is that of
\* the last batch over the present circuits, and on the laws of finite sums.
THEOREM EnergyIsConserved == Spec => []EnergyConserved
  <1>1. Init => TypeOK
    BY GateAssumption DEF Init, TypeOK, Forms, Statuses, Rank, CircuitTypes
  <1>2. QED
    BY <1>1, TypesKept, EmptySettled, SettledStays, SettledConserves, PTL DEF Spec

-----------------------------------------------------------------------------
(* Statuses: what the detectors' windows cover *)

\* A gap beyond the bound covers the hours that miss a value together with more
\* neighbours than the bound: the gap scan and its length test agree.
Missing(k, h) ==
    \E a \in DOMAIN k : /\ h \in a..(a + MaxGapHours)
                        /\ a..(a + MaxGapHours) \subseteq (DOMAIN k) \ Valued(k)

LEMMA GapsCover ==
    ASSUME NEW lo \in Int, NEW hi \in Int, NEW k, DOMAIN k = lo..hi, NEW h \in lo..hi
    PROVE  h \in BeyondBound(k) <=> Missing(k, h)
  <1> DEFINE D == lo..hi
             M == D \ Valued(k)
             G == MaxGapHours
  <1>1. G \in Nat /\ M \subseteq Int /\ \A x \in D : x \in M <=> k[x] = None
    BY GateAssumption DEF Valued
  <1>2. ASSUME h \in BeyondBound(k) PROVE Missing(k, h)
    <2>1. PICK g \in Gaps(k) : g[2] - g[1] + 1 > G /\ h \in g[1]..g[2]
      BY <1>2 DEF BeyondBound
    <2> DEFINE p == g[1]
               q == g[2]
    <2>2. p \in D /\ q \in D /\ \A x \in p..q : k[x] = None
      BY <2>1 DEF Gaps
    <2>3. q - p + 1 > G /\ h \in p..q
      BY <2>1
    <2> HIDE DEF p, q
    <2>4. p \in Int /\ q \in Int /\ h \in Int /\ p..q \subseteq M
      BY <1>1, <2>2
    <2> DEFINE a == IF h + G <= q THEN h ELSE q - G
    <2>5. a \in Int /\ p <= a /\ a + G <= q /\ h \in a..(a + G)
      BY <1>1, <2>3, <2>4
    <2>6. a \in D /\ a..(a + G) \subseteq M
      BY <1>1, <2>2, <2>4, <2>5
    <2> HIDE DEF a, G
    <2>7. QED
      BY <2>5, <2>6 DEF Missing, G
  <1>3. ASSUME Missing(k, h) PROVE h \in BeyondBound(k)
    <2>1. PICK a \in D : h \in a..(a + G) /\ a..(a + G) \subseteq M
      BY <1>3 DEF Missing
    <2> DEFINE L == {x \in D : x <= a /\ x..a \subseteq M}
               R == {x \in D : x >= a /\ a..x \subseteq M}
               p == Min(L)
               q == Max(R)
    <2>2. a \in Int /\ a \in M /\ a + G \in M /\ a + G \in D
      BY <1>1, <2>1
    <2>3. a \in L /\ a + G \in R
      BY <1>1, <2>1, <2>2
    <2>4. IsFiniteSet(L) /\ IsFiniteSet(R) /\ L \subseteq Int /\ R \subseteq Int
      <3>1. L \in SUBSET D /\ R \in SUBSET D /\ D \subseteq Int
        OBVIOUS
      <3>2. IsFiniteSet(D)
        BY FS_Interval
      <3> HIDE DEF L, R, D
      <3>3. QED
        BY <3>1, <3>2, FS_Subset
    <2>5. p \in L /\ \A x \in L : p <= x
      <3> HIDE DEF L
      <3>1. QED
        BY <2>3, <2>4, Extremes
    <2>6. q \in R /\ \A x \in R : x <= q
      <3> HIDE DEF R
      <3>1. QED
        BY <2>3, <2>4, Extremes
    <2> HIDE DEF p, q
    <2>7. p \in D /\ q \in D /\ p <= a /\ a <= q /\ p..q \subseteq M
      <3>1. \A x \in p..q : x \in p..a \/ x \in a..q
        BY <2>2, <2>5, <2>6
      <3>2. QED
        BY <2>2, <2>5, <2>6, <3>1
    <2>8. p - 1 \notin M
      <3>1. p - 1 \in M => p - 1 \in L
        <4> SUFFICES ASSUME p - 1 \in M PROVE p - 1 \in L
          OBVIOUS
        <4>1. \A x \in (p - 1)..a : x = p - 1 \/ x \in p..a
          BY <2>2, <2>5
        <4>2. QED
          BY <2>2, <2>5, <4>1
      <3> HIDE DEF L
      <3>2. QED
        BY <2>4, <2>5, <3>1
    <2>9. q + 1 \notin M
      <3>1. q + 1 \in M => q + 1 \in R
        <4> SUFFICES ASSUME q + 1 \in M PROVE q + 1 \in R
          OBVIOUS
        <4>1. \A x \in a..(q + 1) : x = q + 1 \/ x \in a..q
          BY <2>2, <2>6
        <4>2. QED
          BY <2>2, <2>6, <4>1
      <3> HIDE DEF R
      <3>2. QED
        BY <2>4, <2>6, <3>1
    <2> DEFINE g == <<p, q>>
    <2>10. g \in Gaps(k)
      <3>1. \A x \in p..q : k[x] = None
        BY <1>1, <2>7
      <3>2. p <= q
        BY <2>2, <2>7
      <3>3. QED
        BY <2>7, <2>8, <2>9, <3>1, <3>2 DEF Gaps
    <2>11. h \in p..q /\ q - p + 1 > G
      <3>1. a + G <= q
        BY <2>3, <2>6
      <3>2. QED
        BY <1>1, <2>1, <2>2, <2>7, <3>1
    <2>12. h \in g[1]..g[2] /\ g[2] - g[1] + 1 > G
      BY <2>11
    <2> HIDE DEF g
    <2>13. QED
      BY <2>10, <2>12 DEF BeyondBound
  <1>4. QED
    BY <1>2, <1>3

\* Two neighbouring rows too far apart are the silence around the hour.
LEMMA DropoutsCover ==
    ASSUME NEW rs, Batch(rs), NEW m, RowsOf(rs, m) # {}, NEW r, r.hour \in Nat
    PROVE  (\E i \in DropoutIssues(rs, m) : 2 * r.hour \in i.from..i.to)
             <=> Silent(r, TicksOf(rs, m))
  <1> DEFINE T == TicksOf(rs, m)
             t == 2 * r.hour
             Apart(a, b) == b - a > MaxSilence /\ T \cap (a + 1)..(b - 1) = {}
  <1>1. T \subseteq Nat /\ IsFiniteSet(T) /\ MaxSilence \in Nat /\ t \in Nat
    BY TicksAre, GateAssumption
  <1>2. (\E i \in DropoutIssues(rs, m) : t \in i.from..i.to)
          <=> \E a, b \in T : Apart(a, b) /\ t \in a..b
    <2>1. DropoutIssues(rs, m) =
            {Issue(m, p[1], p[2], "degraded") : p \in {p \in T \X T : Apart(p[1], p[2])}}
      BY Zenon DEF DropoutIssues
    <2>2. \A a, b : Issue(m, a, b, "degraded").from = a /\ Issue(m, a, b, "degraded").to = b
      BY DEF Issue
    <2> HIDE DEF Apart, T, t
    <2>3. ASSUME NEW i \in DropoutIssues(rs, m), t \in i.from..i.to
          PROVE  \E a, b \in T : Apart(a, b) /\ t \in a..b
      <3>1. PICK p \in T \X T : Apart(p[1], p[2]) /\ i = Issue(m, p[1], p[2], "degraded")
        BY <2>1
      <3>2. QED
        BY <2>2, <2>3, <3>1
    <2>4. ASSUME NEW a \in T, NEW b \in T, Apart(a, b), t \in a..b
          PROVE  \E i \in DropoutIssues(rs, m) : t \in i.from..i.to
      <3>1. <<a, b>> \in {p \in T \X T : Apart(p[1], p[2])}
        BY <2>4
      <3>2. Issue(m, a, b, "degraded") \in DropoutIssues(rs, m)
        BY <2>1, <3>1
      <3>3. QED
        BY <2>2, <2>4, <3>2
    <2>5. QED
      BY <2>3, <2>4
  <1> HIDE DEF T, t
  <1>3. ASSUME NEW a \in T, NEW b \in T, Apart(a, b), t \in a..b
        PROVE  Silent(r, T)
    <2>1. \A u \in T : u > a => u >= b
      BY <1>1, <1>3
    <2>2. a \in Nat /\ b \in Nat /\ a <= t /\ t <= b /\ b > a /\ b > a + MaxSilence
      BY <1>1, <1>3
    <2>3. \A u \in T : u > a => u > a + MaxSilence /\ u >= t
      BY <1>1, <2>1, <2>2
    <2>4. QED
      BY <2>2, <2>3 DEF Silent, t
  <1>4. ASSUME Silent(r, T)
        PROVE  \E a, b \in T : Apart(a, b) /\ t \in a..b
    <2>1. PICK a \in T : /\ \A u \in T : u > a => u > a + MaxSilence
                         /\ a <= t /\ \E u \in T : u > a
                         /\ \A u \in T : u > a => u >= t
      BY <1>4 DEF Silent, t
    <2> DEFINE U == {u \in T : u > a}
               b == Min(U)
    <2>2. U \subseteq Int /\ IsFiniteSet(U) /\ U # {}
      <3>1. U \in SUBSET T /\ U # {}
        BY <2>1
      <3> HIDE DEF U
      <3>2. IsFiniteSet(U)
        BY <1>1, <3>1, FS_Subset
      <3>3. QED
        BY <1>1, <3>1, <3>2
    <2>3. b \in U /\ \A u \in U : b <= u
      <3> HIDE DEF U
      <3>1. QED
        BY <2>2, Extremes
    <2> HIDE DEF b
    <2>4. b \in T /\ b > a /\ \A u \in T : u > a => b <= u
      BY <2>3
    <2>5. Apart(a, b) /\ t \in a..b
      BY <1>1, <2>1, <2>4
    <2>6. QED
      BY <2>4, <2>5
  <1>5. QED
    BY <1>2, <1>3, <1>4 DEF T, t

\* How many readings there are from hour a to hour y.
Count(V, a, y) == Cardinality(V \cap a..y)

\* Among w or more readings up to y, w readings end at y.
LEMMA WindowExists ==
    ASSUME NEW V, V \subseteq Int, IsFiniteSet(V), NEW w \in Nat, w >= 1,
           NEW lo \in V, NEW y \in V, Count(V, lo, y) >= w
    PROVE  \E e \in V : lo <= e /\ e <= y /\ Count(V, e, y) = w
  <1> USE DEF Count
  <1> DEFINE N(a) == V \cap a..y
             E == {a \in V : lo <= a /\ Cardinality(N(a)) >= w}
             e == Max(E)
  <1>1. \A a \in Int : IsFiniteSet(N(a)) /\ N(a) \subseteq Int /\ Cardinality(N(a)) \in Nat
    BY FS_Subset, FS_CardinalityType
  <1>2. lo \in E /\ E \in SUBSET V
    BY <1>1
  <1>3. e \in E /\ \A a \in E : a <= e
    <2> HIDE DEF E
    <2>1. IsFiniteSet(E) /\ E \subseteq Int
      BY <1>2, FS_Subset
    <2>2. QED
      BY <1>2, <2>1, Extremes
  <1> HIDE DEF e
  <1>4. e \in V /\ e \in Int /\ lo <= e /\ Cardinality(N(e)) >= w
    BY <1>3
  <1>5. e <= y
    <2>1. N(e) # {}
      BY <1>1, <1>4, FS_EmptySet
    <2>2. QED
      BY <2>1, <1>4
  <1>6. Cardinality(N(e)) = w
    <2> SUFFICES ASSUME Cardinality(N(e)) # w PROVE FALSE
      OBVIOUS
    <2> DEFINE B == N(e) \ {e}
               a == Min(B)
    <2>1. e \in N(e)
      BY <1>4, <1>5
    <2>2. IsFiniteSet(B) /\ Cardinality(B) = Cardinality(N(e)) - 1 /\ B \subseteq Int
      <3> HIDE DEF N
      <3>1. IsFiniteSet(N(e)) /\ N(e) \subseteq Int
        BY <1>1, <1>4
      <3>2. QED
        BY <2>1, <3>1, FS_RemoveElement
    <2>3. Cardinality(B) >= w
      <3> HIDE DEF N, B
      <3>1. Cardinality(N(e)) \in Nat
        BY <1>1, <1>4
      <3>2. QED
        BY <1>4, <2>2, <3>1
    <2>4. B # {}
      <3> HIDE DEF B
      <3>1. QED
        BY <2>3, FS_EmptySet
    <2>5. a \in B /\ \A x \in B : a <= x
      <3> HIDE DEF B
      <3>1. QED
        BY <2>2, <2>4, Extremes
    <2> HIDE DEF a
    <2>6. a \in V /\ a \in Int /\ a > e
      BY <1>4, <2>5
    <2>7. N(a) = B
      <3>1. \A x \in N(a) : x \in B
        BY <1>4, <2>6
      <3>2. \A x \in B : x \in N(a)
        BY <2>5, <2>6
      <3>3. QED
        BY <3>1, <3>2
    <2>8. a \in E
      <3> HIDE DEF N, B
      <3>1. QED
        BY <1>4, <2>3, <2>6, <2>7
    <2> HIDE DEF E
    <2>9. QED
      BY <1>3, <1>4, <2>6, <2>8
  <1>7. QED
    BY <1>4, <1>5, <1>6

\* Readings from a to b, far enough apart, enough of them, and all the same.
Steady(k, w, span, a, b) ==
    /\ b - a >= span /\ Cardinality(Valued(k) \cap a..b) >= w
    /\ \A h \in Valued(k) \cap a..b : k[h] = k[a]

\* The stretch from hour a to hour b that the detector reports.
Reported(k, w, span, a, b) ==
    b - a >= span /\ \E c \in Valued(k) : FlatWindow(k, w, a, c) /\ FlatRun(k, w, c, b)

\* Within a reported stretch the readings are the same: each later flat window
\* overlaps the readings before it.
LEMMA ReportedAreSteady ==
    ASSUME NEW k, NEW V, V = Valued(k), V \subseteq Int, IsFiniteSet(V),
           NEW w \in Nat, w > 1, NEW span \in Nat,
           NEW a \in V, NEW b \in V, Reported(k, w, span, a, b)
    PROVE  Steady(k, w, span, a, b)
  <1>1. PICK c \in V : FlatWindow(k, w, a, c) /\ FlatRun(k, w, c, b)
    BY DEF Reported
  <1>2. /\ Cardinality(V \cap a..c) = w /\ \A h \in V \cap a..c : k[h] = k[c]
        /\ c <= b /\ \A h \in V \cap c..b : Flat(k, w, h)
    BY <1>1 DEF FlatWindow, FlatRun
  <1>3. a \in Int /\ b \in Int /\ c \in Int /\ \A x \in V : x \in Int
    OBVIOUS
  <1>4. a <= c
    <2>1. V \cap a..c # {}
      BY <1>2, FS_EmptySet
    <2>2. QED
      BY <1>3, <2>1
  <1>5. k[a] = k[c]
    BY <1>2, <1>3, <1>4
  <1>6. \A h \in V \cap c..b : k[h] = k[c]
    <2> DEFINE Bad == {h \in V \cap c..b : k[h] # k[c]}
               x == Min(Bad)
    <2> SUFFICES ASSUME Bad # {} PROVE FALSE
      OBVIOUS
    <2>1. x \in Bad /\ \A y \in Bad : x <= y
      <3>1. Bad \in SUBSET V
        OBVIOUS
      <3> HIDE DEF Bad
      <3>2. IsFiniteSet(Bad) /\ Bad \subseteq Int
        BY <3>1, FS_Subset
      <3>3. QED
        BY <3>2, Extremes
    <2> HIDE DEF x
    <2>2. x \in V /\ x \in Int /\ c < x /\ x <= b /\ k[x] # k[c]
      BY <1>3, <2>1
    <2>3. Flat(k, w, x)
      BY <1>2, <1>3, <2>2
    <2>4. PICK e \in V : Cardinality(V \cap e..x) = w /\ \A h \in V \cap e..x : k[h] = k[x]
      BY <2>3 DEF Flat, FlatWindow
    <2>5. \E y \in V \cap e..x : y # x
      <3> SUFFICES ASSUME \A y \in V \cap e..x : y = x PROVE FALSE
        OBVIOUS
      <3>1. (V \cap e..x) \in SUBSET {x}
        OBVIOUS
      <3>2. Cardinality(V \cap e..x) <= 1
        <4>1. IsFiniteSet({x}) /\ Cardinality({x}) = 1
          BY FS_Singleton
        <4>2. QED
          BY <3>1, <4>1, FS_Subset
      <3>3. QED
        BY <2>4, <3>2
    <2>6. PICK y \in V \cap e..x : y # x
      BY <2>5
    <2>7. y \in V /\ y \in Int /\ e \in Int /\ e <= y /\ y < x /\ k[y] = k[x]
      BY <1>3, <2>2, <2>4, <2>6
    <2>8. CASE y >= c
      <3>1. y \in V \cap c..b /\ y \notin Bad
        BY <1>3, <2>1, <2>2, <2>7, <2>8
      <3>2. QED
        BY <2>2, <2>7, <3>1
    <2>9. CASE y < c
      <3>1. c \in V \cap e..x
        BY <1>3, <2>2, <2>7, <2>9
      <3>2. QED
        BY <2>2, <2>4, <3>1
    <2>10. QED
      BY <1>3, <2>7, <2>8, <2>9
  <1>7. \A h \in V \cap a..b : k[h] = k[a]
    <2>1. \A h \in V \cap a..b : h \in V \cap a..c \/ h \in V \cap c..b
      BY <1>3
    <2>2. QED
      BY <1>2, <1>5, <1>6, <2>1
  <1>8. Cardinality(V \cap a..b) >= w
    <2>1. (V \cap a..c) \in SUBSET (V \cap a..b) /\ (V \cap a..b) \in SUBSET V
      BY <1>2, <1>3
    <2>2. IsFiniteSet(V \cap a..b)
      BY <2>1, FS_Subset
    <2>3. Cardinality(V \cap a..c) <= Cardinality(V \cap a..b)
      BY <2>1, <2>2, FS_Subset
    <2>4. Cardinality(V \cap a..b) \in Nat
      BY <2>2, FS_CardinalityType
    <2>5. QED
      BY <1>2, <2>3, <2>4
  <1>9. QED
    BY <1>7, <1>8 DEF Steady, Reported

\* A steady stretch lies within a reported one: flat windows end throughout it,
\* and the run they belong to starts no later and ends no earlier.
LEMMA SteadyAreReported ==
    ASSUME NEW k, NEW V, V = Valued(k), V \subseteq Int, IsFiniteSet(V),
           NEW w \in Nat, w > 1, NEW span \in Nat,
           NEW a \in V, NEW b \in V, Steady(k, w, span, a, b)
    PROVE  \E s, d \in V : s <= a /\ b <= d /\ Reported(k, w, span, s, d)
  <1> DEFINE B == V \cap a..b
  <1>1. /\ a \in Int /\ b \in Int /\ b - a >= span /\ a <= b /\ \A x \in V : x \in Int
        /\ Cardinality(B) >= w /\ \A h \in B : k[h] = k[a]
    BY DEF Steady
  <1>2. ASSUME NEW y \in B, Cardinality(V \cap a..y) >= w
        PROVE  Flat(k, w, y)
    <2>1. y \in Int /\ y \in V /\ y <= b
      BY <1>1
    <2>2. PICK e \in V : a <= e /\ e <= y /\ Count(V, e, y) = w
      <3>1. y \in V /\ Count(V, a, y) >= w /\ w >= 1
        BY <1>2 DEF Count
      <3> HIDE DEF B
      <3>2. QED
        BY <3>1, WindowExists
    <2>3. \A h \in V \cap e..y : k[h] = k[y]
      <3>1. \A h \in V \cap e..y : h \in B
        BY <1>1, <2>1, <2>2
      <3>2. QED
        BY <1>1, <3>1
    <2>4. QED
      BY <2>2, <2>3 DEF Flat, FlatWindow, Count
  <1> DEFINE P == {x \in V : x <= b /\ \A y \in V \cap x..b : Flat(k, w, y)}
             Q == {x \in V : x >= b /\ \A y \in V \cap b..x : Flat(k, w, y)}
             c == Min(P)
             d == Max(Q)
  <1>3. b \in P /\ b \in Q
    <2>1. Flat(k, w, b)
      BY <1>1, <1>2
    <2>2. \A y \in V \cap b..b : y = b
      BY <1>1
    <2>3. QED
      BY <1>1, <2>1, <2>2
  <1>4. /\ P \subseteq Int /\ IsFiniteSet(P)
        /\ Q \subseteq Int /\ IsFiniteSet(Q)
    <2>1. P \in SUBSET V /\ Q \in SUBSET V
      OBVIOUS
    <2> HIDE DEF P, Q
    <2>2. QED
      BY <1>1, <2>1, FS_Subset
  <1>5. c \in P /\ \A x \in P : c <= x
    <2> HIDE DEF P
    <2>1. QED
      BY <1>3, <1>4, Extremes
  <1>6. d \in Q /\ \A x \in Q : x <= d
    <2> HIDE DEF Q
    <2>1. QED
      BY <1>3, <1>4, Extremes
  <1> HIDE DEF c, d
  <1>7. /\ c \in V /\ c \in Int /\ c <= b /\ \A y \in V \cap c..b : Flat(k, w, y)
        /\ d \in V /\ d \in Int /\ b <= d /\ \A y \in V \cap b..d : Flat(k, w, y)
    BY <1>1, <1>5, <1>6
  <1>8. ASSUME NEW h \in V, h < c, V \cap (h + 1)..(c - 1) = {}
        PROVE  ~Flat(k, w, h)
    <2> SUFFICES ASSUME Flat(k, w, h) PROVE FALSE
      OBVIOUS
    <2>1. \A y \in V \cap h..b : y = h \/ y \in V \cap c..b
      BY <1>1, <1>7, <1>8
    <2>2. h \in P
      BY <1>1, <1>7, <1>8, <2>1
    <2> HIDE DEF P
    <2>3. QED
      BY <1>1, <1>5, <1>7, <1>8, <2>2
  <1>9. ASSUME NEW h \in V, h > d, V \cap (d + 1)..(h - 1) = {}
        PROVE  ~Flat(k, w, h)
    <2> SUFFICES ASSUME Flat(k, w, h) PROVE FALSE
      OBVIOUS
    <2>1. \A y \in V \cap b..h : y = h \/ y \in V \cap b..d
      BY <1>1, <1>7, <1>9
    <2>2. h \in Q
      BY <1>1, <1>7, <1>9, <2>1
    <2> HIDE DEF Q
    <2>3. QED
      BY <1>1, <1>6, <1>7, <1>9, <2>2
  <1> HIDE DEF P, Q
  <1>10. FlatRun(k, w, c, d)
    <2>1. \A y \in V \cap c..d : y \in V \cap c..b \/ y \in V \cap b..d
      BY <1>1, <1>7
    <2>2. \A y \in V \cap c..d : Flat(k, w, y)
      BY <1>7, <2>1
    <2>3. c <= d
      BY <1>1, <1>7
    <2>4. QED
      BY <1>8, <1>9, <2>2, <2>3 DEF FlatRun
  <1>11. PICK s \in V : FlatWindow(k, w, s, c)
    <2>1. Flat(k, w, c)
      BY <1>7
    <2>2. QED
      BY <2>1 DEF Flat
  <1>12. s \in Int /\ Cardinality(V \cap s..c) = w
    BY <1>11 DEF FlatWindow
  <1>13. s <= a
    <2> SUFFICES ASSUME a < s PROVE FALSE
      BY <1>1, <1>12
    <2>1. s <= c
      <3>1. V \cap s..c # {}
        BY <1>12, FS_EmptySet
      <3>2. QED
        BY <1>1, <1>7, <1>12, <3>1
    <2> DEFINE F == {x \in V : x < c}
               p == Max(F)
    <2>2. a \in F /\ F \in SUBSET V
      BY <1>1, <1>7, <1>12, <2>1
    <2>3. p \in F /\ \A x \in F : x <= p
      <3> HIDE DEF F
      <3>1. F \subseteq Int /\ IsFiniteSet(F)
        BY <2>2, FS_Subset
      <3>2. QED
        BY <2>2, <3>1, Extremes
    <2> HIDE DEF p
    <2>4. p \in V /\ p \in Int /\ p < c /\ a <= p /\ \A x \in V : x < c => x <= p
      BY <1>1, <2>2, <2>3
    <2>5. V \cap (p + 1)..(c - 1) = {}
      BY <1>1, <1>7, <2>4
    <2>6. p \in B
      BY <1>1, <1>7, <2>4
    <2>7. Cardinality(V \cap a..p) >= w
      <3> DEFINE X == V \cap s..c
                 Y == (X \ {c}) \cup {a}
      <3>1. IsFiniteSet(X) /\ Cardinality(X) = w /\ c \in X /\ a \notin X
        BY <1>1, <1>7, <1>12, <2>1, FS_Subset
      <3>2. IsFiniteSet(X \ {c}) /\ Cardinality(X \ {c}) = w - 1 /\ a \notin X \ {c}
        <4> HIDE DEF X
        <4>1. QED
          BY <3>1, FS_RemoveElement
      <3>3. IsFiniteSet(Y) /\ Cardinality(Y) = w
        <4> HIDE DEF X
        <4>1. /\ IsFiniteSet(Y)
              /\ Cardinality(Y) = Cardinality(X \ {c}) + 1
          BY <3>2, FS_AddElement
        <4> HIDE DEF Y
        <4>2. QED
          BY <3>2, <4>1
      <3>4. Y \in SUBSET (V \cap a..p)
        <4>1. \A x \in Y : x \in V \cap a..p
          BY <1>1, <1>7, <1>12, <2>1, <2>4
        <4>2. QED
          BY <4>1
      <3>5. IsFiniteSet(V \cap a..p) /\ Cardinality(V \cap a..p) \in Nat
        BY FS_Subset, FS_CardinalityType
      <3> HIDE DEF Y
      <3>6. Cardinality(Y) <= Cardinality(V \cap a..p)
        BY <3>4, <3>5, FS_Subset
      <3>7. QED
        BY <3>3, <3>5, <3>6
    <2>8. QED
      BY <1>2, <1>8, <2>4, <2>5, <2>6, <2>7
  <1>14. d - s >= span
    BY <1>1, <1>7, <1>12, <1>13
  <1>15. Reported(k, w, span, s, d)
    BY <1>7, <1>10, <1>11, <1>14 DEF Reported
  <1>16. QED
    BY <1>7, <1>13, <1>15

\* No hour has a value without a row of its own: interpolated hours are never
\* found, whatever the configured ratio.
LEMMA NothingInterpolated ==
    ASSUME NEW rs, Batch(rs), NEW ms, IsFiniteSet(ms), \A m \in ms : RowsOf(rs, m) # {}
    PROVE  ~TooManyInterpolated(rs, ms)
  <1> DEFINE value(m) == Cardinality(Valued(HourlyKwh(rs, m)))
             excess == [m \in ms |-> Max({0, value(m) - Cardinality(RowsOf(rs, m))})]
             total == SumOver([m \in ms |-> value(m)], ms)
  <1>1. ASSUME NEW m \in ms
        PROVE  value(m) \in Nat /\ excess[m] = 0
    <2> DEFINE V == Valued(HourlyKwh(rs, m))
               R == RowsOf(rs, m)
               S == {i \in R : rs[i].at \div 2 \in V}
               hour == [i \in S |-> rs[i].at \div 2]
    <2>1. \A h \in V : InHour(rs, m, h) # {}
      BY RowsGroup
    <2>2. hour \in Surjection(S, V)
      <3>1. ASSUME NEW h \in V PROVE \E i \in S : hour[i] = h
        <4>1. PICK i \in InHour(rs, m, h) : TRUE
          BY <2>1, <3>1
        <4>2. i \in R /\ rs[i].at \div 2 = h
          BY DEF InHour
        <4>3. i \in S /\ hour[i] = h
          BY <3>1, <4>2
        <4>4. QED
          BY <4>3
      <3>2. hour \in [S -> V]
        OBVIOUS
      <3> HIDE DEF hour, S, V
      <3>3. QED
        BY <3>1, <3>2 DEF Surjection
    <2>3. S \in SUBSET R /\ IsFiniteSet(R)
      BY RowsAre
    <2> HIDE DEF V, R, S, hour
    <2>4. IsFiniteSet(S) /\ Cardinality(S) <= Cardinality(R)
      BY <2>3, FS_Subset
    <2>5. IsFiniteSet(V) /\ Cardinality(V) <= Cardinality(S)
      BY <2>2, <2>4, FS_Surjection
    <2>6. Cardinality(V) \in Nat /\ Cardinality(S) \in Nat /\ Cardinality(R) \in Nat
      BY <2>3, <2>4, <2>5, FS_CardinalityType
    <2> DEFINE n == Cardinality(V) - Cardinality(R)
    <2>7. n \in Int /\ n <= 0
      BY <2>4, <2>5, <2>6
    <2> HIDE DEF n
    <2>8. Max({0, n}) = 0
      <3>1. 0 \in {0, n} /\ \A x \in {0, n} : 0 >= x
        BY <2>7
      <3>2. Max({0, n}) \in {0, n} /\ \A x \in {0, n} : Max({0, n}) >= x
        BY <3>1 DEF Max
      <3>3. QED
        BY <2>7, <3>2
    <2>9. QED
      BY <2>6, <2>8 DEF n, V, R
  <1>2. SumOver(excess, ms) = 0
    <2> HIDE DEF excess
    <2>1. QED
      BY <1>1, SumOfZeros
  <1>3. total \in Int
    <2> DEFINE g == [m \in ms |-> value(m)]
    <2>1. \A m \in ms : g[m] = value(m) /\ value(m) \in Nat
      BY <1>1
    <2> HIDE DEF g, value
    <2>2. SumOver(g, ms) \in Int
      BY <2>1, SumOfInts
    <2>3. QED
      BY <2>2 DEF g
  <1>4. TooManyInterpolated(rs, ms)
          <=> total > 0 /\ SumOver(excess, ms) * RatioDen > RatioNum * total
    BY Zenon DEF TooManyInterpolated
  <1> HIDE DEF total, excess
  <1>5. RatioNum \in Nat /\ RatioDen \in Nat
    BY GateAssumption
  <1>6. total > 0 => RatioNum * total >= 0
    BY <1>3, <1>5
  <1>7. 0 * RatioDen = 0
    BY <1>5
  <1>8. SumOver(excess, ms) * RatioDen = 0
    BY <1>2, <1>7, Zenon
  <1>9. RatioNum * total \in Int
    BY <1>3, <1>5
  <1>10. QED
    BY <1>4, <1>6, <1>8, <1>9

LEMMA ServedAre ==
    ASSUME NEW rs, Batch(rs), NEW f, NEW map
    PROVE  /\ IsFiniteSet(Served(rs, f, map))
           /\ \A m \in Served(rs, f, map) :
                m \in Meters /\ map[m] # None /\ RowsOf(rs, m) # {}
  <1> DEFINE M == {rs[i].meter : i \in DOMAIN rs}
             meter == [i \in DOMAIN rs |-> rs[i].meter]
  <1>1. meter \in Surjection(DOMAIN rs, M)
    BY DEF Surjection
  <1>2. Served(rs, f, map) \in SUBSET M
    BY DEF Served, RowsOf
  <1> HIDE DEF M, meter
  <1>3. IsFiniteSet(M)
    BY <1>1, RowsAre, FS_Surjection
  <1>4. QED
    BY <1>2, <1>3, FS_Subset DEF Served

\* Which reasons to quarantine or degrade a served circuit's hour the detectors
\* and the column check report.
StuckAt(rs, map, m, h) ==
    \E i \in StuckIssues(m, HourlyKwh(rs, m), map[m]) : 2 * h \in i.from..i.to
SilentAt(rs, m, h) == \E i \in DropoutIssues(rs, m) : 2 * h \in i.from..i.to

LEMMA FaultMeters ==
    ASSUME NEW rs, NEW map, NEW m, NEW i \in Faults(rs, map, m)
    PROVE  i.meter = m
  <1>1. CASE i \in StuckIssues(m, HourlyKwh(rs, m), map[m])
    BY <1>1 DEF StuckIssues, Issue
  <1>2. CASE i \in DropoutIssues(rs, m)
    BY <1>2 DEF DropoutIssues, Issue
  <1>3. CASE i \in check_bounds(m, HourlyKwh(rs, m), map[m])
    BY <1>3 DEF check_bounds, Issue
  <1>4. QED
    BY <1>1, <1>2, <1>3 DEF Faults

LEMMA NormalizedMeters ==
    ASSUME NEW rs, NEW f, NEW map, NEW r \in normalize_batch(rs, f, map)
    PROVE  r.meter \in Meters
  <1> DEFINE H(m) == {Normalized(rs, f, map, m, h) : h \in DOMAIN HourlyKwh(rs, m)}
  <1>1. r \in UNION {H(m) : m \in Served(rs, f, map)}
    BY NormalizedIs
  <1>2. \A m : \A n \in H(m) : n.meter = m
    BY DEF Normalized
  <1> HIDE DEF H
  <1>3. PICK m \in Served(rs, f, map) : r \in H(m)
    BY <1>1
  <1>4. QED
    BY <1>2, <1>3 DEF Served

LEMMA AgainstIs ==
    ASSUME NEW rs, Batch(rs), NEW f \in Forms, NEW map,
           NEW m \in Served(rs, f, map), NEW h \in Span(rs, m)
    PROVE  LET k == HourlyKwh(rs, m)
               n == Normalized(rs, f, map, m, h)
               A == Against(Issues(rs, f, map, normalize_batch(rs, f, map)), n)
           IN  /\ "quarantined" \in A <=>
                     \/ f = "aliased"
                     \/ map[m] = "main_feed" /\ StuckAt(rs, map, m, h)
                     \/ k[h] # None /\ (k[h] < 0 \/ k[h] > MaxKwh[map[m]])
               /\ "degraded" \in A <=>
                     \/ f \in {"extra", "untyped"}
                     \/ map[m] # "main_feed" /\ StuckAt(rs, map, m, h)
                     \/ SilentAt(rs, m, h)
               /\ A \subseteq Statuses
  <1> DEFINE k == HourlyKwh(rs, m)
             N == normalize_batch(rs, f, map)
             n == Normalized(rs, f, map, m, h)
             I == Issues(rs, f, map, N)
             Here(i) == 2 * h \in i.from..i.to
  <1>1. m \in Meters /\ m # None /\ RowsOf(rs, m) # {} /\ f \notin {"no_kwh", "no_meter"}
    <2>1. m \in Meters /\ RowsOf(rs, m) # {} /\ f \notin {"no_kwh", "no_meter"}
      BY DEF Served
    <2>2. QED
      BY <2>1, GateAssumption
  <1>2. rs # <<>>
    BY <1>1 DEF RowsOf
  <1>3. n.meter = m /\ n.hour = h /\ n \in N
    <2>1. n \in {Normalized(rs, f, map, m, j) : j \in DOMAIN HourlyKwh(rs, m)}
      BY HourlyKwhIs
    <2>2. N = UNION {{Normalized(rs, f, map, j, g) : g \in DOMAIN HourlyKwh(rs, j)} :
                        j \in Served(rs, f, map)}
      BY NormalizedIs
    <2> DEFINE H(j) == {Normalized(rs, f, map, j, g) : g \in DOMAIN HourlyKwh(rs, j)}
    <2>3. n \in H(m) /\ N = UNION {H(j) : j \in Served(rs, f, map)}
      BY <2>1, <2>2
    <2> HIDE DEF H, n, N
    <2>4. n \in N
      BY <2>3
    <2>5. QED
      BY <2>4 DEF n, Normalized
  <1>4. \A j : \A i \in Faults(rs, map, j) : i.meter = j
    BY FaultMeters
  <1> DEFINE drift == check_schema_drift(rs, f)
             M == {r.meter : r \in N}
  <1>5. I = drift \cup UNION {Faults(rs, map, j) : j \in M}
    BY IssuesAre, Zenon
  <1>6. m \in M /\ None \notin M
    <2>1. \A r \in N : r.meter \in Meters
      BY NormalizedMeters
    <2>2. QED
      BY <1>3, <2>1, GateAssumption
  <1>7. \A i \in drift : i.meter = None
    BY DEF check_schema_drift, Issue
  <1>8. \A i : Affects(i, n) <=> i.meter = None \/ (i.meter = m /\ Here(i))
    BY <1>3 DEF Affects
  <1> HIDE DEF I, N, M, n, drift, Here
  <1>9. \A s : s \in Against(I, n) <=>
            \/ \E i \in drift : i.severity = s
            \/ \E i \in Faults(rs, map, m) : Here(i) /\ i.severity = s
    <2>1. \A s : s \in Against(I, n) <=> \E i \in I : Affects(i, n) /\ i.severity = s
      BY DEF Against
    <2>2. ASSUME NEW i \in I, Affects(i, n)
          PROVE  i \in drift \/ (i \in Faults(rs, map, m) /\ Here(i))
      <3>1. i \in drift \/ \E j \in M : i \in Faults(rs, map, j)
        BY <1>5
      <3>2. CASE \E j \in M : i \in Faults(rs, map, j)
        <4>1. PICK j \in M : i \in Faults(rs, map, j)
          BY <3>2
        <4>2. i.meter = j /\ j # None
          BY <1>4, <1>6, <4>1
        <4>3. QED
          BY <1>8, <2>2, <4>1, <4>2
      <3>3. QED
        BY <3>1, <3>2
    <2>3. \A i \in drift : i \in I /\ Affects(i, n)
      BY <1>5, <1>7, <1>8
    <2>4. \A i \in Faults(rs, map, m) : i \in I /\ (Here(i) => Affects(i, n))
      BY <1>4, <1>5, <1>6, <1>8
    <2>5. QED
      BY <2>1, <2>2, <2>3, <2>4
  <1>10. /\ (\E i \in drift : i.severity = "quarantined") <=> f = "aliased"
         /\ (\E i \in drift : i.severity = "degraded") <=> f \in {"extra", "untyped"}
    <2>1. CASE f = "aliased"
      <3>1. drift = {Issue(None, 0, 0, "quarantined")}
        BY <2>1, <1>2 DEF drift, check_schema_drift
      <3>2. QED
        BY <2>1, <3>1 DEF Issue
    <2>2. CASE f \in {"extra", "untyped"}
      <3>1. drift = {Issue(None, 0, 0, "degraded")}
        BY <2>2, <1>2 DEF drift, check_schema_drift
      <3>2. QED
        BY <2>2, <3>1 DEF Issue
    <2>3. CASE f \notin {"aliased", "extra", "untyped"}
      <3>1. drift = {}
        BY <2>3, <1>1, <1>2 DEF drift, check_schema_drift
      <3>2. QED
        BY <2>3, <3>1
    <2>4. QED
      BY <2>1, <2>2, <2>3
  <1> DEFINE S == StuckIssues(m, k, map[m])
             D == DropoutIssues(rs, m)
             B == check_bounds(m, k, map[m])
  <1>11. Faults(rs, map, m) = S \cup D \cup B
    BY DEF Faults
  <1>12. \A i \in S : i.severity = IF map[m] = "main_feed" THEN "quarantined" ELSE "degraded"
    BY DEF StuckIssues, Issue
  <1>13. \A i \in D : i.severity = "degraded"
    BY DEF DropoutIssues, Issue
  <1>14. /\ \A i \in B : i.severity = "quarantined"
         /\ (\E i \in B : Here(i)) <=> k[h] # None /\ (k[h] < 0 \/ k[h] > MaxKwh[map[m]])
    <2>1. h \in Nat /\ h \in DOMAIN k /\ \A g \in Valued(k) : g \in Nat
      BY <1>1, HourlyKwhTypes, HourlyKwhIs DEF Valued
    <2> DEFINE Out(g) == k[g] < 0 \/ k[g] > MaxKwh[map[m]]
    <2> HIDE DEF k, Out
    <2>2. B = {Issue(m, 2 * g, 2 * g, "quarantined") : g \in {g \in Valued(k) : Out(g)}}
      BY Zenon DEF check_bounds, B, Out, k
    <2>3. \A g : /\ Issue(m, 2 * g, 2 * g, "quarantined").from = 2 * g
                 /\ Issue(m, 2 * g, 2 * g, "quarantined").to = 2 * g
                 /\ Issue(m, 2 * g, 2 * g, "quarantined").severity = "quarantined"
      BY DEF Issue
    <2> HIDE DEF B
    <2>4. \A i \in B : i.severity = "quarantined"
      BY <2>2, <2>3
    <2>5. ASSUME NEW i \in B, Here(i) PROVE h \in Valued(k) /\ Out(h)
      <3>1. PICK g \in Valued(k) : Out(g) /\ i = Issue(m, 2 * g, 2 * g, "quarantined")
        BY <2>2
      <3>2. i.from = 2 * g /\ i.to = 2 * g
        BY <2>3, <3>1
      <3>3. g = h
        BY <2>1, <2>5, <3>2 DEF Here
      <3>4. QED
        BY <3>1, <3>3
    <2>6. ASSUME h \in Valued(k), Out(h) PROVE \E i \in B : Here(i)
      <3>1. Issue(m, 2 * h, 2 * h, "quarantined") \in B
        BY <2>2, <2>6
      <3> DEFINE i == Issue(m, 2 * h, 2 * h, "quarantined")
      <3>2. i.from = 2 * h /\ i.to = 2 * h
        BY <2>3
      <3> HIDE DEF i
      <3>3. Here(i)
        BY <2>1, <3>2 DEF Here
      <3>4. QED
        BY <3>1, <3>3 DEF i
    <2>7. h \in Valued(k) <=> k[h] # None
      BY <2>1 DEF Valued
    <2>8. QED
      BY <2>4, <2>5, <2>6, <2>7 DEF Out
  <1>15. /\ (\E i \in S : Here(i)) <=> StuckAt(rs, map, m, h)
         /\ (\E i \in D : Here(i)) <=> SilentAt(rs, m, h)
    BY DEF StuckAt, SilentAt, Here
  <1> HIDE DEF S, D, B
  <1>16. /\ "quarantined" \in Against(I, n) <=>
                \/ f = "aliased"
                \/ map[m] = "main_feed" /\ StuckAt(rs, map, m, h)
                \/ k[h] # None /\ (k[h] < 0 \/ k[h] > MaxKwh[map[m]])
         /\ "degraded" \in Against(I, n) <=>
                \/ f \in {"extra", "untyped"}
                \/ map[m] # "main_feed" /\ StuckAt(rs, map, m, h)
                \/ SilentAt(rs, m, h)
    <2> HIDE DEF k
    <2>1. /\ (\E i \in Faults(rs, map, m) : Here(i) /\ i.severity = "quarantined") <=>
                \/ map[m] = "main_feed" /\ StuckAt(rs, map, m, h)
                \/ k[h] # None /\ (k[h] < 0 \/ k[h] > MaxKwh[map[m]])
          /\ (\E i \in Faults(rs, map, m) : Here(i) /\ i.severity = "degraded") <=>
                \/ map[m] # "main_feed" /\ StuckAt(rs, map, m, h)
                \/ SilentAt(rs, m, h)
      <3> DEFINE Outside == k[h] # None /\ (k[h] < 0 \/ k[h] > MaxKwh[map[m]])
      <3>1. (\E i \in B : Here(i)) <=> Outside
        BY <1>14
      <3> HIDE DEF Outside
      <3>2. /\ (\E i \in Faults(rs, map, m) : Here(i) /\ i.severity = "quarantined") <=>
                    (map[m] = "main_feed" /\ StuckAt(rs, map, m, h)) \/ Outside
            /\ (\E i \in Faults(rs, map, m) : Here(i) /\ i.severity = "degraded") <=>
                    (map[m] # "main_feed" /\ StuckAt(rs, map, m, h)) \/ SilentAt(rs, m, h)
        BY <1>11, <1>12, <1>13, <1>14, <1>15, <3>1
      <3>3. QED
        BY <3>2 DEF Outside
    <2>2. QED
      BY <1>9, <1>10, <2>1
  <1>17. Against(I, n) \subseteq Statuses
    BY IssueTypes DEF Against, I
  <1>18. QED
    BY <1>16, <1>17 DEF I, N, n, k

\* The worst of reasons of which some were condensed before.
LEMMA WorstOfWorst ==
    ASSUME NEW S, NEW T, S \subseteq Statuses, T \subseteq Statuses, S # {}
    PROVE  Worst({Worst(S)} \cup T) = Worst(S \cup T)
  <1>1. Statuses = {"pass", "degraded", "quarantined"}
    BY DEF Statuses, Rank
  <1> DEFINE w == Worst(S)
             U == {w} \cup T
             W == S \cup T
  <1>2. w = IF "quarantined" \in S THEN "quarantined"
            ELSE IF "degraded" \in S THEN "degraded" ELSE "pass"
    BY WorstIs
  <1> HIDE DEF w
  <1>3. U \subseteq Statuses /\ U # {} /\ W \subseteq Statuses /\ W # {}
    BY <1>1, <1>2
  <1>4. /\ "quarantined" \in U <=> "quarantined" \in W
        /\ "quarantined" \notin W => ("degraded" \in U <=> "degraded" \in W)
    BY <1>1, <1>2
  <1> HIDE DEF U, W
  <1>5. Worst(U) = Worst(W)
    BY <1>3, <1>4, WorstIs
  <1>6. QED
    BY <1>5 DEF U, W, w

\* The detector's report covers an hour exactly when the hour lies in a steady
\* stretch of readings.
LEMMA StuckCovers ==
    ASSUME NEW rs, Batch(rs), NEW map, NEW m, RowsOf(rs, m) # {}, map[m] \in CircuitTypes,
           NEW r, r.hour \in Nat
    PROVE  StuckAt(rs, map, m, r.hour) <=> Stuck(r, HourlyKwh(rs, m), map[m])
  <1> DEFINE k == HourlyKwh(rs, m)
             V == Valued(k)
             w == StuckWindow[map[m]]
             span == StuckHours[map[m]]
             t == r.hour
  <1>1. V \subseteq Int /\ IsFiniteSet(V) /\ t \in Int
    <2>1. V \in SUBSET Span(rs, m)
      BY RowsGroup
    <2>2. Span(rs, m) \subseteq Nat /\ IsFiniteSet(Span(rs, m))
      BY HourlyKwhTypes
    <2>3. QED
      BY <2>1, <2>2, FS_Subset
  <1>2. w \in Nat /\ w > 1 /\ span \in Nat
    BY GateAssumption
  <1>3. StuckAt(rs, map, m, t) <=> \E a, b \in V : Reported(k, w, span, a, b) /\ t \in a..b
    <2> DEFINE severity == IF map[m] = "main_feed" THEN "quarantined" ELSE "degraded"
               S == StuckIssues(m, k, map[m])
    <2>1. S = {Issue(m, 2 * p[1], 2 * p[2], severity) :
                  p \in {p \in V \X V : Reported(k, w, span, p[1], p[2])}}
      BY Zenon DEF StuckIssues, Reported
    <2>2. \A a, b : /\ Issue(m, 2 * a, 2 * b, severity).from = 2 * a
                    /\ Issue(m, 2 * a, 2 * b, severity).to = 2 * b
      BY DEF Issue
    <2>3. StuckAt(rs, map, m, t) <=> \E i \in S : 2 * t \in i.from..i.to
      BY DEF StuckAt
    <2> HIDE DEF S, V, k, w, span, t, severity
    <2>4. ASSUME NEW i \in S, 2 * t \in i.from..i.to
          PROVE  \E a, b \in V : Reported(k, w, span, a, b) /\ t \in a..b
      <3>1. PICK p \in V \X V : /\ Reported(k, w, span, p[1], p[2])
                                /\ i = Issue(m, 2 * p[1], 2 * p[2], severity)
        BY <2>1
      <3>2. i.from = 2 * p[1] /\ i.to = 2 * p[2] /\ p[1] \in V /\ p[2] \in V
        BY <2>2, <3>1
      <3> DEFINE a == p[1]
                 b == p[2]
      <3>3. /\ 2 * t \in (2 * a)..(2 * b) /\ a \in V /\ b \in V
            /\ Reported(k, w, span, a, b)
        BY <2>4, <3>1, <3>2
      <3> HIDE DEF a, b
      <3>4. t \in a..b
        BY <1>1, <3>3
      <3>5. QED
        BY <3>3, <3>4
    <2>5. ASSUME NEW a \in V, NEW b \in V, Reported(k, w, span, a, b), t \in a..b
          PROVE  \E i \in S : 2 * t \in i.from..i.to
      <3>1. <<a, b>> \in {p \in V \X V : Reported(k, w, span, p[1], p[2])}
        BY <2>5
      <3> DEFINE i == Issue(m, 2 * a, 2 * b, severity)
      <3>2. i \in S
        BY <2>1, <3>1
      <3>3. i.from = 2 * a /\ i.to = 2 * b
        BY <2>2
      <3> HIDE DEF i
      <3>4. 2 * t \in i.from..i.to
        BY <1>1, <2>5, <3>3
      <3>5. QED
        BY <3>2, <3>4
    <2>6. QED
      BY <2>3, <2>4, <2>5
  <1>4. Stuck(r, k, map[m]) <=> \E a, b \in V : Steady(k, w, span, a, b) /\ t \in a..b
    BY Zenon DEF Stuck, Steady
  <1> HIDE DEF w, span, t, k
  <1>5. ASSUME NEW a \in V, NEW b \in V, Reported(k, w, span, a, b)
        PROVE  Steady(k, w, span, a, b)
    <2> HIDE DEF V
    <2>1. V = Valued(k)
      BY DEF V
    <2>2. QED
      BY <1>1, <1>2, <1>5, <2>1, ReportedAreSteady
  <1>6. ASSUME NEW a \in V, NEW b \in V, Steady(k, w, span, a, b)
        PROVE  \E s, d \in V : s <= a /\ b <= d /\ Reported(k, w, span, s, d)
    <2> HIDE DEF V
    <2>1. V = Valued(k)
      BY DEF V
    <2>2. QED
      BY <1>1, <1>2, <1>6, <2>1, SteadyAreReported
  <1> HIDE DEF V
  <1>7. ASSUME NEW a \in V, NEW b \in V, Steady(k, w, span, a, b), t \in a..b
        PROVE  \E s, d \in V : Reported(k, w, span, s, d) /\ t \in s..d
    <2>1. PICK s \in V, d \in V : s <= a /\ b <= d /\ Reported(k, w, span, s, d)
      BY <1>6, <1>7
    <2>2. t \in s..d
      BY <1>1, <1>7, <2>1
    <2>3. QED
      BY <2>1, <2>2
  <1>8. QED
    BY <1>3, <1>4, <1>5, <1>7 DEF t, k

\* In a settled state every reading of the last batch has the status warranted.
LEMMA SettledWarrants ==
    ASSUME Settled, TypeOK
    PROVE  StatusWarranted
  <1> DEFINE rs == sent.rows
             f == sent.form
             map == circuits
             N(m, h) == Normalized(rs, f, map, m, h)
             A(n) == Against(Issues(rs, f, map, normalize_batch(rs, f, map)), n)
  <1>1. /\ result.readings = process_batch(rs, f, map).readings
        /\ Batch(rs) /\ f \in Forms /\ map \in [Meters -> CircuitTypes \cup {None}]
    BY DEF Settled, TypeOK, Batch
  <1> SUFFICES ASSUME NEW r \in result.readings
               PROVE  r.status = Worst(Reasons(r))
    BY DEF StatusWarranted
  <1>2. PICK m \in Served(rs, f, map) : \E h \in Span(rs, m) : r = Graded(rs, f, map, N(m, h))
    BY <1>1, ReadingsAre
  <1>3. PICK h \in Span(rs, m) : r = Graded(rs, f, map, N(m, h))
    BY <1>2
  <1> DEFINE n == N(m, h)
             k == HourlyKwh(rs, m)
             F == Found(rs, Served(rs, f, map), k, h)
             type == map[m]
  <1>4. RowsOf(rs, m) # {} /\ type \in CircuitTypes
    BY <1>1, ServedAre
  <1>5. h \in Nat /\ k[h] \in Int \cup {None} /\ h \in DOMAIN k
    BY <1>1, <1>4, HourlyKwhTypes, HourlyKwhIs
  <1>6. /\ r.meter = m /\ r.hour = h /\ r.kwh = k[h]
        /\ r.status = Worst({Worst(F)} \cup A(n))
    <2>1. n.status = Worst(F) /\ n.meter = m /\ n.hour = h /\ n.kwh = k[h]
      BY DEF Normalized
    <2>2. r = [n EXCEPT !.status = Worst({@} \cup A(n))]
      BY <1>3, Zenon DEF Graded
    <2> DEFINE w == Worst({n.status} \cup A(n))
    <2>3. r = [n EXCEPT !.status = w]
      BY <2>2, Zenon
    <2>4. w = Worst({Worst(F)} \cup A(n))
      BY <2>1, Zenon
    <2> HIDE DEF w, F, A, k
    <2>5. r.meter = m /\ r.hour = h /\ r.kwh = k[h] /\ r.status = w
      BY <2>3 DEF Normalized, k
    <2>6. QED
      BY <2>4, <2>5
  <1>7. /\ "quarantined" \in A(n) <=>
              \/ f = "aliased"
              \/ type = "main_feed" /\ StuckAt(rs, map, m, h)
              \/ k[h] # None /\ (k[h] < 0 \/ k[h] > MaxKwh[type])
        /\ "degraded" \in A(n) <=>
              \/ f \in {"extra", "untyped"}
              \/ type # "main_feed" /\ StuckAt(rs, map, m, h)
              \/ SilentAt(rs, m, h)
        /\ A(n) \subseteq Statuses
    BY <1>1, AgainstIs
  <1>8. /\ "quarantined" \in F <=> h \in BeyondBound(k)
        /\ "degraded" \in F <=> h \in Outliers(k)
        /\ F \subseteq Statuses /\ F # {} /\ "pass" \in F
    <2>1. ~TooManyInterpolated(rs, Served(rs, f, map))
      BY <1>1, ServedAre, NothingInterpolated
    <2>2. QED
      BY <2>1 DEF Found, Statuses, Rank
  <1>9. h \in BeyondBound(k) <=> MissingTooLong(r, k)
    <2>1. DOMAIN k = (Min(TicksOf(rs, m)) \div 2)..((Max(TicksOf(rs, m)) + 1) \div 2 - 1)
      BY HourlyKwhIs DEF Span
    <2>2. Min(TicksOf(rs, m)) \in Nat /\ Max(TicksOf(rs, m)) \in Nat
      BY <1>1, <1>4, TicksAre
    <2> DEFINE lo == Min(TicksOf(rs, m)) \div 2
               hi == (Max(TicksOf(rs, m)) + 1) \div 2 - 1
    <2>3. lo \in Int /\ hi \in Int /\ DOMAIN k = lo..hi /\ h \in lo..hi
      BY <1>5, <2>1, <2>2
    <2> HIDE DEF lo, hi, k
    <2>4. h \in BeyondBound(k) <=> Missing(k, h)
      BY <2>3, GapsCover
    <2>5. QED
      BY <1>6, <2>4 DEF Missing, MissingTooLong
  <1>10. StuckAt(rs, map, m, h) <=> Stuck(r, k, type)
    BY <1>1, <1>4, <1>5, <1>6, StuckCovers
  <1>11. SilentAt(rs, m, h) <=> Silent(r, TicksOf(rs, m))
    BY <1>1, <1>4, <1>5, <1>6, DropoutsCover DEF SilentAt
  <1>12. k[h] # None =>
            ((k[h] < 0 \/ k[h] > MaxKwh[type]) <=> k[h] \notin 0..MaxKwh[type])
    BY <1>4, <1>5, GateAssumption
  <1> DEFINE R == Reasons(r)
  <1>13. /\ "quarantined" \in R <=>
                \/ MissingTooLong(r, k)
                \/ k[h] # None /\ k[h] \notin 0..MaxKwh[type]
                \/ type = "main_feed" /\ Stuck(r, k, type)
                \/ f = "aliased"
         /\ "degraded" \in R <=>
                \/ Stuck(r, k, type) \/ Silent(r, TicksOf(rs, m)) \/ h \in Outliers(k)
                \/ f \in {"extra", "untyped"}
         /\ "pass" \in R /\ R \subseteq Statuses
    BY <1>6 DEF Reasons, Statuses, Rank
  <1> HIDE DEF R, F, A, k, n, type, rs, f, map
  <1>14. /\ "quarantined" \in F \cup A(n) <=> "quarantined" \in R
         /\ "quarantined" \notin R => ("degraded" \in F \cup A(n) <=> "degraded" \in R)
    BY <1>7, <1>8, <1>9, <1>10, <1>11, <1>12, <1>13
  <1>15. Worst({Worst(F)} \cup A(n)) = Worst(F \cup A(n))
    BY <1>7, <1>8, WorstOfWorst
  <1>16. Worst(F \cup A(n)) = Worst(R)
    <2> DEFINE U == F \cup A(n)
    <2>1. U \subseteq Statuses /\ U # {} /\ R # {}
      BY <1>7, <1>8, <1>13
    <2> HIDE DEF U
    <2>2. /\ "quarantined" \in U <=> "quarantined" \in R
          /\ "quarantined" \notin R => ("degraded" \in U <=> "degraded" \in R)
      BY <1>14 DEF U
    <2>3. Worst(U) = Worst(R)
      BY <1>13, <2>1, <2>2, WorstIs
    <2>4. QED
      BY <2>3 DEF U
  <1>17. QED
    BY <1>6, <1>15, <1>16 DEF R

\* For any rows, meters, column forms and thresholds: a reading's stored status is
\* the worst the rows around it give reason for.  Every detector's windows, ends of
\* runs and gaps cover the hours the rows condemn and no others, and the status is
\* that of the last batch graded over the circuits there are now.
THEOREM StatusesWarranted == Spec => []StatusWarranted
  <1>1. Init => TypeOK
    BY GateAssumption DEF Init, TypeOK, Forms, Statuses, Rank, CircuitTypes
  <1>2. QED
    BY <1>1, TypesKept, EmptySettled, SettledStays, SettledWarrants, PTL DEF Spec

==============================================================================
