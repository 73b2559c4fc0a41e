----------------------- MODULE BuildingAnalysis_proofs -----------------------
(***************************************************************************)
(* The analysis of a building with its data, for any circuits, hours,      *)
(* readings and calendars, any interleaving of runs, trainings, labels,    *)
(* corrections and reports, and any bounds.                                *)
(***************************************************************************)
EXTENDS BuildingAnalysis, FiniteSetTheorems, TLAPS

-----------------------------------------------------------------------------
(* Sums over finite sets.  The library defines a sum by a fold whose table   *)
(* of partial sums exists by induction: a minimal set without a table is     *)
(* impossible.                                                               *)

\* Among finite sets one is minimal.
LEMMA MinimalSet ==
    ASSUME NEW C, C # {}, \A T \in C : IsFiniteSet(T)
    PROVE  \E T \in C : \A U \in SUBSET T : U \in C => U = T
  <1> DEFINE N == UNION C
  <1>1. C \subseteq FiniteSubsetsOf(N)
    BY DEF FiniteSubsetsOf
  <1>2. \E x \in C : \A y \in C : ~ (<<y, x>> \in StrictSubsetOrdering(N))
    BY <1>1, WFMin, FS_StrictSubsetOrderingWellFounded
  <1>3. QED
    BY <1>1, <1>2 DEF StrictSubsetOrdering, FiniteSubsetsOf

\* The element that the fold takes first, and the table of partial sums it fills.
Picked(s) == CHOOSE x \in s : TRUE
Sums(g, f, S) ==
    g = [s \in SUBSET S |-> IF s = {} THEN 0 ELSE f[Picked(s)] + g[s \ {Picked(s)}]]

LEMMA PickedIn == \A s : s # {} => Picked(s) \in s
  BY DEF Picked

LEMMA SumsAgree ==
    ASSUME NEW f, NEW S, NEW T, NEW g, NEW h, IsFiniteSet(S), Sums(g, f, S), Sums(h, f, T)
    PROVE  \A s \in SUBSET (S \cap T) : g[s] = h[s]
  <1> DEFINE C == {s \in SUBSET (S \cap T) : g[s] # h[s]}
  <1> SUFFICES ASSUME C # {} PROVE FALSE
    OBVIOUS
  <1>1. \A s \in C : IsFiniteSet(s)
    BY FS_Subset
  <1>2. PICK s \in C : \A u \in SUBSET s : u \in C => u = s
    <2> HIDE DEF C
    <2>1. QED
      BY <1>1, MinimalSet
  <1>3. s \in SUBSET S /\ s \in SUBSET T
    OBVIOUS
  <1>4. g[s] = IF s = {} THEN 0 ELSE f[Picked(s)] + g[s \ {Picked(s)}]
    BY <1>3 DEF Sums
  <1>5. h[s] = IF s = {} THEN 0 ELSE f[Picked(s)] + h[s \ {Picked(s)}]
    BY <1>3 DEF Sums
  <1>6. CASE s = {}
    BY <1>4, <1>5, <1>6
  <1>7. CASE s # {}
    <2>1. Picked(s) \in s
      BY <1>7, PickedIn
    <2>2. s \ {Picked(s)} \notin C /\ s \ {Picked(s)} \in SUBSET (S \cap T)
      BY <1>2, <2>1
    <2>3. QED
      BY <1>4, <1>5, <2>2, <1>7
  <1>8. QED
    BY <1>6, <1>7

LEMMA SumsExist ==
    ASSUME NEW f, NEW S, IsFiniteSet(S)
    PROVE  \E g : Sums(g, f, S)
  <1> DEFINE C == {T \in SUBSET S : ~ \E g : Sums(g, f, T)}
  <1> SUFFICES ASSUME C # {} PROVE FALSE
    OBVIOUS
  <1>1. \A s \in C : IsFiniteSet(s)
    BY FS_Subset
  <1>2. PICK T \in C : \A u \in SUBSET T : u \in C => u = T
    <2> HIDE DEF C
    <2>1. QED
      BY <1>1, MinimalSet
  <1> DEFINE G(u) == CHOOSE g : Sums(g, f, u)
             less(s) == s \ {Picked(s)}
             h == [s \in SUBSET T |-> IF s = {} THEN 0
                                      ELSE f[Picked(s)] + G(less(s))[less(s)]]
  <1>3. \A s \in SUBSET T : s # {} => less(s) \in SUBSET T /\ less(s) # T
    BY PickedIn
  <1>4. ASSUME NEW u \in SUBSET T, u # T
        PROVE  Sums(G(u), f, u) /\ IsFiniteSet(u)
    <2>1. \E g : Sums(g, f, u)
      BY <1>2, <1>4
    <2>2. QED
      BY <2>1, <1>1, FS_Subset
  <1> HIDE DEF G
  <1>5. ASSUME NEW u \in SUBSET T, u # T
        PROVE  G(u)[u] = h[u]
    <2>1. Sums(G(u), f, u)
      BY <1>4, <1>5
    <2>2. G(u)[u] = IF u = {} THEN 0 ELSE f[Picked(u)] + G(u)[less(u)]
      BY <2>1 DEF Sums
    <2>3. u # {} => G(u)[less(u)] = G(less(u))[less(u)]
      <3> SUFFICES ASSUME u # {} PROVE G(u)[less(u)] = G(less(u))[less(u)]
        OBVIOUS
      <3>1. less(u) \in SUBSET T /\ less(u) # T /\ less(u) \in SUBSET (u \cap less(u))
        BY <1>3
      <3>2. Sums(G(less(u)), f, less(u)) /\ IsFiniteSet(u)
        BY <1>4, <1>5, <3>1
      <3> HIDE DEF less
      <3>3. QED
        BY <2>1, <3>1, <3>2, SumsAgree
    <2>4. QED
      BY <2>2, <2>3
  <1>6. Sums(h, f, T)
    <2>1. \A s \in SUBSET T : s # {} => G(less(s))[less(s)] = h[less(s)]
      BY <1>3, <1>5
    <2>2. \A s \in SUBSET T : h[s] = IF s = {} THEN 0 ELSE f[Picked(s)] + h[less(s)]
      BY <2>1
    <2>3. h = [s \in SUBSET T |-> IF s = {} THEN 0 ELSE f[Picked(s)] + h[less(s)]]
      <3> DEFINE k == [s \in SUBSET T |-> IF s = {} THEN 0 ELSE f[Picked(s)] + h[less(s)]]
      <3>1. \A s \in SUBSET T : h[s] = k[s]
        BY <2>2
      <3>2. QED
        BY <3>1
    <2> HIDE DEF h
    <2>4. QED
      BY <2>3 DEF Sums
  <1>7. QED
    BY <1>6

\* What the library's sum of a function over a finite set is.
LEMMA SumUnfolds ==
    ASSUME NEW f, NEW S, IsFiniteSet(S)
    PROVE  \E g : Sums(g, f, S) /\ SumFunctionOnSet(f, S) = g[S]
  <1> DEFINE g == CHOOSE g : Sums(g, f, S)
  <1>1. Sums(g, f, S)
    BY SumsExist
  <1>2. SumFunctionOnSet(f, S) = g[S]
    BY DEF SumFunctionOnSet, FoldFunctionOnSet, MapThenFoldSet, Sums, Picked
  <1>3. QED
    BY <1>1, <1>2

LEMMA SumOfNats ==
    ASSUME NEW f, NEW S, IsFiniteSet(S), \A x \in S : f[x] \in Nat
    PROVE  SumFunctionOnSet(f, S) \in Nat
  <1>1. PICK g : Sums(g, f, S) /\ SumFunctionOnSet(f, S) = g[S]
    BY SumUnfolds
  <1> DEFINE C == {s \in SUBSET S : g[s] \notin Nat}
  <1>2. ASSUME C # {} PROVE FALSE
    <2>1. \A s \in C : IsFiniteSet(s)
      BY FS_Subset
    <2>2. PICK s \in C : \A u \in SUBSET s : u \in C => u = s
      <3> HIDE DEF C
      <3>1. QED
        BY <1>2, <2>1, MinimalSet
    <2>3. g[s] = IF s = {} THEN 0 ELSE f[Picked(s)] + g[s \ {Picked(s)}]
      BY <1>1 DEF Sums
    <2>4. s # {} => Picked(s) \in s
      BY PickedIn
    <2>5. s # {} => g[s \ {Picked(s)}] \in Nat /\ f[Picked(s)] \in Nat
      BY <2>2, <2>4
    <2>6. QED
      BY <2>3, <2>5
  <1>3. QED
    BY <1>1, <1>2

-----------------------------------------------------------------------------
(* Finite sets as sequences, and the numbers of findings                     *)

LEMMA SequenceOfSet ==
    ASSUME NEW S, IsFiniteSet(S)
    PROVE  /\ SetToSeq(S) \in [1..Cardinality(S) -> S]
           /\ SetToSeq(S) \in Seq(S) /\ Len(SetToSeq(S)) = Cardinality(S)
           /\ Cardinality(S) \in Nat
  <1>1. Cardinality(S) \in Nat /\ ExistsBijection(1..Cardinality(S), S)
    BY FS_CardinalityType
  <1>2. \E f \in [1..Cardinality(S) -> S] : IsInjective(f)
    BY <1>1 DEF ExistsBijection, Bijection, Injection, IsInjective
  <1>3. SetToSeq(S) \in [1..Cardinality(S) -> S]
    BY <1>2 DEF SetToSeq
  <1>4. QED
    BY <1>1, <1>3

\* Findings are numbered without repetition and without exceeding their count.
Numbered(F) ==
    /\ IsFiniteSet(F)
    /\ \A f \in F : f.id \in Nat /\ f.id <= Cardinality(F)
    /\ \A f, g \in F : f.id = g.id => f = g

\* Rows that continue the numbers of F.
Continue(F, rows, n) == \A i \in 1..n : rows[i].id = Cardinality(F) + i
Entries(rows, n) == {rows[i] : i \in 1..n}

LEMMA NumberedRows ==
    ASSUME NEW F, NEW n \in Nat, NEW rows, Numbered(F), Continue(F, rows, n)
    PROVE  Numbered(F \cup Entries(rows, n))
  <1> USE DEF Continue
  <1> DEFINE N == {rows[i] : i \in 1..n}
             g == [i \in 1..n |-> rows[i]]
  <1>1. Cardinality(F) \in Nat /\ IsFiniteSet(F)
    BY FS_CardinalityType DEF Numbered
  <1>2. g \in Bijection(1..n, N)
    <2>1. g \in [1..n -> N] /\ \A y \in N : \E i \in 1..n : g[i] = y
      OBVIOUS
    <2>2. \A i, j \in 1..n : g[i] = g[j] => i = j
      BY <1>1
    <2>3. QED
      BY <2>1, <2>2 DEF Bijection, Injection, Surjection, IsInjective
  <1>3. IsFiniteSet(N) /\ Cardinality(N) = n
    <2>1. ExistsBijection(1..n, N)
      BY <1>2 DEF ExistsBijection
    <2>2. IsFiniteSet(1..n) /\ Cardinality(1..n) = n
      BY FS_Interval
    <2> HIDE DEF N
    <2>3. QED
      BY <2>1, <2>2, FS_Bijection
  <1>4. \A x \in N : x.id \in Nat /\ x.id > Cardinality(F) /\ x.id <= Cardinality(F) + n
    BY <1>1
  <1>5. F \cap N = {}
    BY <1>1, <1>4 DEF Numbered
  <1>6. IsFiniteSet(F \cup N) /\ Cardinality(F \cup N) = Cardinality(F) + n
    <2> HIDE DEF N
    <2>1. Cardinality(F \cap N) = 0
      BY <1>5, FS_EmptySet
    <2>2. /\ IsFiniteSet(F \cup N)
          /\ Cardinality(F \cup N) = Cardinality(F) + Cardinality(N) - Cardinality(F \cap N)
      BY <1>1, <1>3, FS_Union
    <2>3. QED
      BY <1>1, <1>3, <2>1, <2>2
  <1>7. \A x, y \in N : x.id = y.id => x = y
    BY <1>1
  <1> HIDE DEF N
  <1>8. Numbered(F \cup N)
    <2>1. ASSUME NEW x \in F \cup N
          PROVE  x.id \in Nat /\ x.id <= Cardinality(F \cup N)
      BY <1>1, <1>4, <1>6 DEF Numbered
    <2>2. ASSUME NEW x \in F \cup N, NEW y \in F \cup N, x.id = y.id
          PROVE  x = y
      <3>1. CASE x \in F /\ y \in F
        BY <2>2, <3>1 DEF Numbered
      <3>2. CASE x \in N /\ y \in N
        BY <1>7, <2>2, <3>2
      <3>3. CASE (x \in F /\ y \in N) \/ (x \in N /\ y \in F)
        BY <1>1, <1>4, <2>2, <3>3 DEF Numbered
      <3>4. QED
        BY <3>1, <3>2, <3>3
    <2>3. QED
      BY <1>6, <2>1, <2>2 DEF Numbered
  <1>9. QED
    BY <1>8 DEF N, Entries

LEMMA NumberedChange ==
    ASSUME NEW F, Numbered(F), NEW h, \A f \in F : h[f].id = f.id
    PROVE  Numbered({h[f] : f \in F})
  <1> DEFINE G == {h[f] : f \in F}
             b == [f \in F |-> h[f]]
  <1>1. b \in Bijection(F, G)
    <2>1. b \in [F -> G] /\ \A y \in G : \E f \in F : b[f] = y
      OBVIOUS
    <2>2. \A f, g \in F : b[f] = b[g] => f = g
      BY DEF Numbered
    <2>3. QED
      BY <2>1, <2>2 DEF Bijection, Injection, Surjection, IsInjective
  <1>2. IsFiniteSet(G) /\ Cardinality(G) = Cardinality(F)
    <2>1. ExistsBijection(F, G) /\ IsFiniteSet(F)
      BY <1>1 DEF ExistsBijection, Numbered
    <2> HIDE DEF G
    <2>2. QED
      BY <2>1, FS_Bijection
  <1>3. QED
    BY <1>2 DEF Numbered

-----------------------------------------------------------------------------
(* What the layers compute                                                   *)

\* Readings as they are stored.
ReadingsTable(t) ==
    IsFiniteSet(DOMAIN t) /\ DOMAIN t \subseteq Row /\ \A r \in DOMAIN t : t[r] \in Readings

LEMMA ReadableRows ==
    ASSUME NEW t, ReadingsTable(t)
    PROVE  /\ IsFiniteSet(Readable(t)) /\ Readable(t) \subseteq DOMAIN t
           /\ \A r \in Readable(t) : r \in Row /\ t[r] \in Readings
           /\ \A r \in Readable(t) : r = [circuit |-> r.circuit, ts |-> r.ts]
  <1>1. Readable(t) \in SUBSET DOMAIN t
    BY DEF Readable
  <1>2. IsFiniteSet(Readable(t))
    BY <1>1, FS_Subset DEF ReadingsTable
  <1>3. QED
    BY <1>1, <1>2 DEF ReadingsTable, Row

LEMMA TotalType ==
    ASSUME NEW t, ReadingsTable(t), NEW rows \in SUBSET DOMAIN t
    PROVE  Total(t, rows) \in Nat /\ IsFiniteSet(rows) /\ Cardinality(rows) \in Nat
           /\ (rows # {} => Cardinality(rows) > 0)
  <1>1. IsFiniteSet(rows)
    BY FS_Subset DEF ReadingsTable
  <1>2. \A r \in rows : KwhOrZero(t)[r] \in Nat
    BY DEF KwhOrZero, ReadingsTable, Readings
  <1>3. SumFunctionOnSet(KwhOrZero(t), rows) \in Nat
    BY <1>1, <1>2, SumOfNats
  <1>4. Cardinality(rows) \in Nat /\ (Cardinality(rows) = 0 <=> rows = {})
    BY <1>1, FS_CardinalityType, FS_EmptySet
  <1>5. QED
    BY <1>1, <1>3, <1>4 DEF Total

LEMMA ProductOfNats ==
    ASSUME NEW a \in Nat, NEW b \in Nat
    PROVE  a * b \in Nat /\ (a > 0 /\ b > 0 => a * b > 0)
  OBVIOUS

LEMMA RollingBaselineRatio ==
    ASSUME NEW t, ReadingsTable(t), NEW r \in Readable(t)
    PROVE  /\ RollingBaseline(t, r).num \in Nat
           /\ RollingBaseline(t, r).den \in Nat /\ RollingBaseline(t, r).den > 0
  <1> DEFINE w == {q \in RowsOf(t, r.circuit) : r.ts - RollingHours < q.ts /\ q.ts <= r.ts}
  <1>1. w \in SUBSET DOMAIN t
    BY DEF RowsOf, Readable
  <1>2. r.ts \in Nat /\ RollingHours \in Nat \ {0}
    BY ReadableRows, BuildingAssumption, RollingAssumption DEF Row
  <1>3. r \in w
    BY <1>2 DEF RowsOf
  <1> HIDE DEF w
  <1>4. Total(t, w) \in Nat /\ Cardinality(w) \in Nat /\ Cardinality(w) > 0
    BY <1>1, <1>3, TotalType
  <1>5. RollingBaseline(t, r) = [num |-> Total(t, w), den |-> Cardinality(w)]
    BY DEF RollingBaseline, Ratio, w
  <1>6. QED
    BY <1>4, <1>5

LEMMA WeekendFloorRatio ==
    ASSUME NEW t, ReadingsTable(t), NEW r \in Readable(t)
    PROVE  IsRatio(WeekendFloorLoad(t, r))
  <1> DEFINE after == {q \in Measured(t, RowsOf(t, r.circuit)) : Hour(q.ts) \notin OfficeHours}
             ends  == {q \in after : Weekday(q.ts) \in {6, 7}}
             week  == {q \in after : Weekday(q.ts) \in BusinessDays}
             base  == IF week = {} THEN Ratio(100, 1) ELSE Ratio(Total(t, week), Cardinality(week))
             num   == Total(t, ends) * base.den
             den   == Cardinality(ends) * base.num
  <1>1. ends \in SUBSET DOMAIN t /\ week \in SUBSET DOMAIN t
    BY DEF Measured, RowsOf, Readable
  <1>2. WeekendFloorLoad(t, r) =
            IF Weekday(r.ts) \notin {6, 7} \/ ends = {} \/ base.num = 0 THEN None
            ELSE [num |-> num, den |-> den]
    BY DEF WeekendFloorLoad, Ratio
  <1> HIDE DEF after, ends, week
  <1>3. base.num \in Nat /\ base.den \in Nat
    BY <1>1, TotalType DEF Ratio
  <1>4. Total(t, ends) \in Nat /\ Cardinality(ends) \in Nat
        /\ (ends # {} => Cardinality(ends) > 0)
    BY <1>1, TotalType
  <1> HIDE DEF base
  <1>5. num \in Nat
    BY <1>3, <1>4, ProductOfNats
  <1>6. ends # {} /\ base.num # 0 => den \in Nat /\ den > 0
    BY <1>3, <1>4, ProductOfNats
  <1> HIDE DEF num, den
  <1>7. QED
    BY <1>2, <1>5, <1>6 DEF IsRatio

\* A row of features is what its class accepts: no ratio is negative or has a
\* zero below it, whatever was stored for the building.
LEMMA FeatureRow ==
    ASSUME NEW t, ReadingsTable(t), NEW stl, NEW fires, NEW r \in Readable(t),
           \A q \in DOMAIN stl : stl[q] \in ResidualResults,
           \A f \in fires : f.rule \in RuleIds
    PROVE  LET row == FromComponents(t, stl, fires, r)
           IN  /\ IsFeatureSet(row) /\ row.fires = RuleFiresOf(fires, r)
               /\ r \in DOMAIN stl => row.low = stl[r].low
  <1> DEFINE row == FromComponents(t, stl, fires, r)
             s == IF r \in DOMAIN stl THEN stl[r] ELSE NoStlFields
  <1>1. row = [baseline |-> RollingBaseline(t, r),
               peak |-> PeakOffpeakSplit(t[r].kwh, r.ts),
               after |-> AfterHoursRatio(t[r].kwh, r.ts),
               floor |-> WeekendFloorLoad(t, r), eff |-> EfficiencyRatio(t, r),
               residual |-> s.residual, day |-> s.day, low |-> s.low,
               fires |-> RuleFiresOf(fires, r)]
    BY DEF FromComponents
  <1>2. s.low => ~s.residual
    BY DEF ResidualResults, NoStlFields
  <1>3. RuleFiresOf(fires, r) \subseteq RuleIds
    BY DEF RuleFiresOf
  <1>4. /\ PeakOffpeakSplit(t[r].kwh, r.ts) \in {0, 1, None}
        /\ AfterHoursRatio(t[r].kwh, r.ts) \in {0, 1, None}
    BY DEF PeakOffpeakSplit, AfterHoursRatio
  <1>5. IsRatio(RollingBaseline(t, r))
    BY RollingBaselineRatio DEF IsRatio
  <1>6. IsRatio(EfficiencyRatio(t, r))
    <2> DEFINE b == RollingBaseline(t, r)
    <2>1. b.num \in Nat /\ b.den \in Nat /\ (t[r].kwh # None => t[r].kwh \in Nat)
      BY RollingBaselineRatio, ReadableRows DEF Readings
    <2>2. EfficiencyRatio(t, r) =
              IF t[r].kwh = None \/ b.num = 0 THEN None
              ELSE [num |-> t[r].kwh * b.den, den |-> b.num]
      BY DEF EfficiencyRatio, Ratio
    <2> HIDE DEF b
    <2>3. t[r].kwh # None => t[r].kwh * b.den \in Nat
      BY <2>1, ProductOfNats
    <2>4. QED
      BY <2>1, <2>2, <2>3 DEF IsRatio
  <1>7. IsRatio(WeekendFloorLoad(t, r))
    BY WeekendFloorRatio
  <1> HIDE DEF s
  <1>8. IsFeatureSet(row)
    BY <1>1, <1>2, <1>3, <1>4, <1>5, <1>6, <1>7 DEF IsFeatureSet
  <1>9. row.fires = RuleFiresOf(fires, r) /\ (r \in DOMAIN stl => row.low = stl[r].low)
    BY <1>1 DEF s
  <1>10. QED
    BY <1>8, <1>9

\* The rules that hold of a circuit and hour in the readings t.
RulesAt(t, r) ==
    {id \in RuleIds :
        /\ r \in Readable(t)
        /\ MatchesAppliesTo(Rules[id], r.circuit)
        /\ EvaluateCondition(Rules[id], r.ts, t[r].kwh)}

LEMMA FiresOfRow ==
    ASSUME NEW t, NEW r \in Row
    PROVE  RuleFiresOf(ProcessReadings(t), r) = RulesAt(t, r)
  <1>1. r = [circuit |-> r.circuit, ts |-> r.ts] /\ r.circuit \in Circuits /\ r.ts \in Slots
    BY DEF Row
  <1>2. ASSUME NEW id \in RuleFiresOf(ProcessReadings(t), r) PROVE id \in RulesAt(t, r)
    <2>1. PICK f \in ProcessReadings(t) : f.rule = id /\ f.circuit = r.circuit /\ f.ts = r.ts
      BY DEF RuleFiresOf
    <2>2. QED
      BY <1>1, <2>1 DEF ProcessReadings, RulesAt
  <1>3. ASSUME NEW id \in RulesAt(t, r) PROVE id \in RuleFiresOf(ProcessReadings(t), r)
    <2> DEFINE f == [circuit |-> r.circuit, ts |-> r.ts, rule |-> id]
    <2>1. f \in [circuit : Circuits, ts : Slots, rule : RuleIds]
      BY <1>1 DEF RulesAt
    <2>2. f \in ProcessReadings(t)
      BY <1>1, <2>1 DEF ProcessReadings, RulesAt
    <2>3. QED
      BY <2>2 DEF RuleFiresOf
  <1>4. QED
    BY <1>2, <1>3

\* The fires of a table are finitely many, each of a stored row and a rule.
LEMMA FiresFinite ==
    ASSUME NEW t, ReadingsTable(t)
    PROVE  /\ IsFiniteSet(ProcessReadings(t))
           /\ \A f \in ProcessReadings(t) :
                  f.rule \in RuleIds /\ [circuit |-> f.circuit, ts |-> f.ts] \in Row
  <1> DEFINE P == Readable(t) \X RuleIds
             g == [f \in ProcessReadings(t) |-> <<[circuit |-> f.circuit, ts |-> f.ts], f.rule>>]
  <1>1. IsFiniteSet(RuleIds)
    <2>1. RuleIds = {"hvac_after_hours_v3"} \cup {"scheduling_violation_v1"}
                        \cup {"weekend_vampire_load_v1"}
      BY DEF RuleIds, Rules
    <2>2. QED
      BY <2>1, FS_Singleton, FS_Union
  <1>2. IsFiniteSet(P)
    BY <1>1, ReadableRows, FS_Product
  <1>3. \A f \in ProcessReadings(t) :
            /\ f = [circuit |-> f.circuit, ts |-> f.ts, rule |-> f.rule]
            /\ f.rule \in RuleIds
            /\ [circuit |-> f.circuit, ts |-> f.ts] \in Readable(t)
    BY DEF ProcessReadings
  <1>4. g \in Injection(ProcessReadings(t), P)
    <2>1. g \in [ProcessReadings(t) -> P]
      BY <1>3
    <2>2. ASSUME NEW e \in ProcessReadings(t), NEW f \in ProcessReadings(t), g[e] = g[f]
          PROVE  e = f
      <3>1. e.rule = f.rule /\ [circuit |-> e.circuit, ts |-> e.ts]
                                 = [circuit |-> f.circuit, ts |-> f.ts]
        BY <2>2
      <3>2. e.circuit = f.circuit /\ e.ts = f.ts
        BY <3>1
      <3>3. QED
        BY <1>3, <3>1, <3>2
    <2>3. QED
      BY <2>1, <2>2 DEF Injection, IsInjective
  <1>5. IsFiniteSet(ProcessReadings(t))
    <2> HIDE DEF P, g
    <2>1. QED
      BY <1>2, <1>4, FS_Injection
  <1>6. QED
    BY <1>3, <1>5, ReadableRows

LEMMA LowOrResidual ==
    ASSUME NEW cold, NEW d, NEW result, result = [day |-> d, low |-> cold, residual |-> ~cold]
    PROVE  ~(result.low /\ result.residual)
  BY Zenon

LEMMA ResidualsValid ==
    ASSUME NEW t, NEW days, \A x \in DOMAIN days : days[x] \in DayTypes
    PROVE  \A r \in DOMAIN AnalyseWindow(t, days) :
               AnalyseWindow(t, days)[r] \in ResidualResults
  <1> SUFFICES ASSUME NEW r \in DOMAIN AnalyseWindow(t, days)
               PROVE  AnalyseWindow(t, days)[r] \in ResidualResults
    OBVIOUS
  <1> DEFINE cold == CheckColdStart(Cardinality(Cohort(t, days, r)))
  <1>1. /\ r \in Readable(t) /\ Covered(t, days, r.circuit)
        /\ AnalyseWindow(t, days)[r] = DecomposeCohort(t, days, r)
    BY DEF AnalyseWindow
  <1>2. days[DateOf(r.ts)] \in DayTypes
    BY <1>1 DEF Covered, RowsOf
  <1>3. cold \in BOOLEAN
    BY DEF CheckColdStart
  <1>4. DecomposeCohort(t, days, r)
            = [day |-> days[DateOf(r.ts)], low |-> cold, residual |-> ~cold]
    BY DEF DecomposeCohort
  <1> HIDE DEF cold
  <1>5. DecomposeCohort(t, days, r)
            \in [day : DayTypes, low : BOOLEAN, residual : BOOLEAN]
    BY <1>2, <1>3, <1>4
  <1>6. ~(DecomposeCohort(t, days, r).low /\ DecomposeCohort(t, days, r).residual)
    BY <1>4, LowOrResidual
  <1>7. QED
    BY <1>1, <1>5, <1>6 DEF ResidualResults

LEMMA FlaggedUsable ==
    ASSUME NEW member, NEW runs, NEW features, NEW a \in Flags(member, runs, features)
    PROVE  a \subseteq UsableRows(features)
  BY DEF Flags, Flaggable, IsolationForestRows, AutoencoderRows

Label == {"confirmed", "dismissed"}
ConfidenceBand == [lower : 0..100, upper : 0..100]

\* A band narrower than [0, 1] takes both labels, enough of them, and a
\* building that is not cold.
LEMMA BandsWarranted ==
    ASSUME NEW flag \in BOOLEAN, NEW given \in Seq(Label), NEW band \in Bands(flag, given)
    PROVE  /\ band \in ConfidenceBand /\ IsBand(band)
           /\ band # WideBand => /\ ~flag /\ Len(given) >= MinLabels
                                 /\ ToSet(given) = Label
  <1> USE CalibrationAssumption
  <1>1. WideBand \in ConfidenceBand /\ IsBand(WideBand)
    BY DEF WideBand, Band, ConfidenceBand, IsBand
  <1>2. CASE band = WideBand
    BY <1>1, <1>2
  <1>3. CASE band # WideBand
    <2>1. ~IsCold(flag, given) /\ Fitted(given)
          /\ band \in {Band(AtLeast(0, Probability - 10), AtMost(100, Probability + 10)),
                       Band(0, Probability)}
      BY <1>3 DEF Bands, Predict
    <2>2. band \in ConfidenceBand /\ IsBand(band)
      <3>1. PICK l, u : /\ band = [lower |-> l, upper |-> u] /\ l \in Int /\ u \in Int
                        /\ 0 <= l /\ l <= u /\ u <= 100
        BY <2>1 DEF Band, AtLeast, AtMost
      <3>2. QED
        BY <3>1 DEF ConfidenceBand, IsBand
    <2> DEFINE m == AtLeast(1, Len(given) - MaxLabelSet + 1)
    <2>3. m \in Int /\ m >= 1 /\ Len(given) \in Nat
      BY DEF AtLeast
    <2>4. CalibrationSet(given) = SubSeq(given, m, Len(given))
      BY DEF CalibrationSet
    <2> HIDE DEF m
    <2>5. Len(CalibrationSet(given)) <= Len(given) /\ Len(CalibrationSet(given)) \in Nat
          /\ ToSet(CalibrationSet(given)) \subseteq ToSet(given)
      BY <2>3, <2>4 DEF ToSet
    <2>6. ~flag /\ Len(given) >= MinLabels
      BY <2>1, <2>5 DEF IsCold
    <2>7. ToSet(given) \subseteq Label
      BY DEF ToSet
    <2>8. ASSUME NEW a \in Label, a \notin ToSet(CalibrationSet(given)) PROVE FALSE
      <3> DEFINE c == ToSet(CalibrationSet(given))
      <3>1. \E b : c \subseteq {b}
        BY <2>5, <2>7, <2>8 DEF Label
      <3> HIDE DEF c
      <3>2. Cardinality(c) <= 1 /\ Cardinality(c) \in Nat
        <4>1. PICK b : c \in SUBSET {b}
          BY <3>1
        <4>2. IsFiniteSet({b}) /\ Cardinality({b}) = 1
          BY FS_Singleton
        <4>3. IsFiniteSet(c) /\ Cardinality(c) <= Cardinality({b})
          BY <4>1, <4>2, FS_Subset
        <4>4. QED
          BY <4>2, <4>3, FS_CardinalityType
      <3>3. QED
        BY <2>1, <3>2 DEF Fitted, c
    <2>9. QED
      BY <2>2, <2>5, <2>6, <2>7, <2>8
  <1>4. QED
    BY <1>2, <1>3

-----------------------------------------------------------------------------
(* Scenarios and reports                                                     *)

LEMMA RoundedInt ==
    ASSUME NEW n \in Int, NEW d \in Int, d > 0
    PROVE  Rounded(n, d) \in Int
  <1>1. 2 * n + d \in Int /\ 2 * d \in Int /\ 2 * d > 0
    OBVIOUS
  <1>2. QED
    BY <1>1 DEF Rounded

LEMMA ProductOfInts ==
    ASSUME NEW a \in Int, NEW b \in Int
    PROVE  a * b \in Int
  OBVIOUS

LEMMA ConsumedType ==
    ASSUME NEW t, ReadingsTable(t), NEW rows \in SUBSET DOMAIN t
    PROVE  Consumed(t, rows) \in Nat
  BY TotalType DEF Total, Consumed

LEMMA BlendedRateType ==
    ASSUME NEW t, ReadingsTable(t), NEW rows \in SUBSET DOMAIN t
    PROVE  BlendedRate(t, rows) \in Int
  <1> DEFINE all == Consumed(t, rows)
             peak == Consumed(t, AtPeak(rows))
             sum == 10 * (peak * PeakRate + (all - peak) * OffpeakRate)
  <1>1. all \in Nat /\ peak \in Nat
    <2>1. AtPeak(rows) \in SUBSET DOMAIN t
      BY DEF AtPeak
    <2>2. QED
      BY <2>1, ConsumedType
  <1>2. PeakRate \in Int /\ OffpeakRate \in Int
    BY BuildingAssumption DEF PeakRate, OffpeakRate
  <1>3. BlendedRate(t, rows) = IF all = 0 THEN 10 * OffpeakRate ELSE Rounded(sum, all)
    BY DEF BlendedRate
  <1> HIDE DEF all, peak
  <1>4. peak * PeakRate \in Int /\ (all - peak) * OffpeakRate \in Int
    BY <1>1, <1>2, ProductOfInts
  <1>5. sum \in Int
    BY <1>4
  <1> HIDE DEF sum
  <1>6. QED
    BY <1>1, <1>2, <1>3, <1>5, RoundedInt

\* What is common to the scenarios of the three models: one that is available
\* rests on findings it was given and has a time of payback.
Sound(s, given) ==
    /\ s.status \in {"passed", "unavailable"}
    /\ s.status = "passed" =>
           /\ s = Scenario(s.model, s.justifying, s.baseline, s.optimized, s.pct, s.payback)
           /\ s.model # "investigate"
           /\ s.justifying # {} /\ s.justifying \subseteq given
           /\ s.payback \in Int

LEMMA ShiftSound ==
    ASSUME NEW t, NEW given, NEW s \in LoadShift(t, given)
    PROVE  Sound(s, given)
  BY DEF LoadShift, Sound, Unavailable, Scenario

LEMMA SetpointSound ==
    ASSUME NEW t, NEW given, NEW s \in SetpointAdjustment(t, given)
    PROVE  Sound(s, given)
  BY DEF SetpointAdjustment, Sound, Unavailable, Scenario

LEMMA SolarSound ==
    ASSUME NEW t, ReadingsTable(t), NEW given, NEW s \in SolarOffset(t, given)
    PROVE  Sound(s, given)
  <1> DEFINE window == Consumed(t, Readable(t))
             annual == Rounded(window * 365, WindowDays)
             made   == (Declared.rooftop * Irradiance * 135 * 365) \div 100
             opt    == Larger(annual - made, 0)
             rate   == BlendedRate(t, Readable(t))
             saved  == (annual - opt) * rate
             cost   == Declared.rooftop * 6750 * 1200
             months == IF saved < 1000 THEN 99990 ELSE Rounded(cost, saved \div 1000)
             pct    == Rounded((annual - opt) * 10000, annual)
  <1>1. CASE given = {} \/ Declared.rooftop \in {None, 0} \/ Irradiance = None \/ window = 0
    <2>1. s = Unavailable("solar_offset_v1")
      BY <1>1 DEF SolarOffset
    <2>2. QED
      BY <2>1 DEF Sound, Unavailable
  <1>2. CASE ~(given = {} \/ Declared.rooftop \in {None, 0} \/ Irradiance = None \/ window = 0)
    <2>1. s = Scenario("solar_offset_v1", given, annual, opt, pct, months)
      BY <1>2 DEF SolarOffset
    <2>2. Declared.rooftop \in Nat /\ Irradiance \in Nat
      BY <1>2, BuildingAssumption DEF Irradiance
    <2>3. window \in Nat /\ rate \in Int
      BY ReadableRows, ConsumedType, BlendedRateType
    <2>4. annual \in Int
      <3> HIDE DEF window
      <3>1. window * 365 \in Int /\ WindowDays \in Int /\ WindowDays > 0
        BY <2>3, OptimizationAssumption
      <3>2. QED
        BY <3>1, RoundedInt
    <2>5. made \in Int
      <3>1. Declared.rooftop * Irradiance \in Int
        BY <2>2, ProductOfInts
      <3>2. QED
        BY <3>1
    <2> HIDE DEF annual, made
    <2>6. opt \in Int
      BY <2>4, <2>5 DEF Larger
    <2> HIDE DEF opt, rate
    <2>7. saved \in Int
      BY <2>3, <2>4, <2>6, ProductOfInts
    <2> HIDE DEF saved
    <2>8. cost \in Int
      BY <2>2
    <2> HIDE DEF cost
    <2>9. months \in Int
      <3>1. ~(saved < 1000) => saved \div 1000 \in Int /\ saved \div 1000 > 0
        BY <2>7
      <3>2. QED
        BY <2>8, <3>1, RoundedInt
    <2> HIDE DEF months, pct
    <2>10. QED
      BY <1>2, <2>1, <2>9 DEF Sound, Scenario
  <1>3. QED
    BY <1>1, <1>2

\* Of what comes out of the bounds check, only what is within the bounds passed.
LEMMA PassedBounds ==
    ASSUME NEW given, NEW a, Sound(a, given), NEW s, s = EnforceBounds(a), s.status = "passed"
    PROVE  /\ s.model # "investigate"
           /\ s.justifying # {} /\ s.justifying \subseteq given /\ s.payback <= 1200
  <1>1. a.status = "passed" /\ s = a /\ ~PaybackImplausible(a)
    <2>1. CASE a.status = "passed"
      BY <2>1 DEF EnforceBounds, Sound, Scenario
    <2>2. CASE a.status # "passed"
      BY <2>2 DEF EnforceBounds
    <2>3. QED
      BY <2>1, <2>2
  <1>2. QED
    BY <1>1 DEF PaybackImplausible, Sound

LEMMA PassedScenario ==
    ASSUME NEW t, ReadingsTable(t), NEW found,
           NEW scenarios \in GenerateScenarios(t, found), NEW s \in scenarios,
           s.status = "passed"
    PROVE  /\ s.model # "investigate" /\ s.justifying # {}
           /\ s.justifying \subseteq Justifying(found) /\ s.payback <= 1200
  <1> DEFINE given == Justifying(found)
  <1>1. \E a : Sound(a, given) /\ s = EnforceBounds(a)
    <2>1. PICK a \in LoadShift(t, given), b \in SetpointAdjustment(t, given),
               c \in SolarOffset(t, given) :
                   scenarios = {EnforceBounds(a), EnforceBounds(b), EnforceBounds(c)}
      BY DEF GenerateScenarios
    <2>2. Sound(a, given) /\ Sound(b, given) /\ Sound(c, given)
      BY ShiftSound, SetpointSound, SolarSound
    <2>3. QED
      BY <2>1, <2>2
  <1>2. QED
    BY <1>1, PassedBounds

LEMMA LeastNatural ==
    ASSUME NEW T \in SUBSET Nat, T # {}
    PROVE  \E n \in T : \A m \in T : n <= m
  <1> DEFINE R == OpToRel(<, Nat)
  <1>1. \A m, n \in Nat : m < n => <<m, n>> \in R
    BY DEF OpToRel
  <1>2. IsWellFoundedOn(R, Nat)
    BY NatLessThanWellFounded
  <1> HIDE DEF R
  <1>3. PICK n \in T : \A m \in T : ~(<<m, n>> \in R)
    BY <1>2, WFMin
  <1>4. \A m \in T : ~(m < n)
    BY <1>1, <1>3
  <1>5. QED
    BY <1>4

\* Of rows with bounded numbers one has the highest.
LEMMA LatestRow ==
    ASSUME NEW F, F # {}, NEW n \in Nat, \A f \in F : f.id \in Nat /\ f.id <= n
    PROVE  \E f \in F : \A g \in F : f.id >= g.id
  <1> DEFINE B == {m \in Nat : \A f \in F : f.id <= m}
  <1>1. B \in SUBSET Nat /\ n \in B
    OBVIOUS
  <1>2. PICK m \in B : \A k \in B : m <= k
    BY <1>1, LeastNatural
  <1>3. PICK f \in F : f.id = m
    <2>1. SUFFICES ASSUME \A f \in F : f.id # m PROVE FALSE
      OBVIOUS
    <2>2. \A f \in F : f.id <= m - 1
      BY <1>2, <2>1
    <2>3. m - 1 \in B
      BY <2>2
    <2>4. QED
      BY <1>2, <2>3
  <1>4. QED
    BY <1>2, <1>3

LEMMA NoteCited ==
    ASSUME NEW s, NEW F, NEW lead, NEW n \in Nat,
           \A f \in F : f.id \in Nat /\ f.id <= n,
           \E f \in F : f.id \in {j.id : j \in s.justifying}
    PROVE  NoteOf(s, F, lead).id \in {j.id : j \in s.justifying}
  <1> DEFINE own == {f \in F : \E j \in s.justifying : j.id = f.id}
             note == CHOOSE f \in own : \A g \in own : f.id >= g.id
  <1>1. own # {} /\ \A f \in own : f.id \in Nat /\ f.id <= n
    OBVIOUS
  <1>2. NoteOf(s, F, lead) = note
    BY <1>1 DEF NoteOf
  <1> HIDE DEF own
  <1>3. \E f \in own : \A g \in own : f.id >= g.id
    BY <1>1, LatestRow
  <1>4. note \in own
    BY <1>3
  <1> HIDE DEF note
  <1>5. QED
    BY <1>2, <1>4 DEF own

\* What a fallback report recommends, and on what it rests.
LEMMA FallbackActions ==
    ASSUME NEW t, ReadingsTable(t), NEW found,
           NEW scenarios \in GenerateScenarios(t, found),
           NEW F, NEW lead \in Leads(F), NEW n \in Nat,
           \A f \in F : f.id \in Nat /\ f.id <= n,
           NEW a \in Fallback(F, scenarios, lead)
    PROVE  /\ a.cites # {} /\ a.payback <= 1200
           /\ a.model # "investigate" =>
                  \E J \in SUBSET Justifying(found) : a.cites = {j.id : j \in J}
           /\ (\E f \in F : f.id \in a.cites) => a.note \in a.cites
  <1> DEFINE passed == {s \in scenarios : s.status = "passed"}
  <1>1. CASE a = [model |-> "investigate", cites |-> {f.id : f \in {lead}},
                  note |-> lead.id, payback |-> 0]
    BY <1>1
  <1>2. ASSUME NEW s \in passed,
               a = [model |-> s.model, cites |-> {f.id : f \in s.justifying},
                    note |-> NoteOf(s, F, lead).id, payback |-> s.payback]
        PROVE  /\ a.cites # {} /\ a.payback <= 1200
               /\ \E J \in SUBSET Justifying(found) : a.cites = {j.id : j \in J}
               /\ (\E f \in F : f.id \in a.cites) => a.note \in a.cites
    <2>1. /\ s.justifying # {} /\ s.justifying \in SUBSET Justifying(found)
          /\ s.payback <= 1200
      BY PassedScenario
    <2>2. /\ a.cites = {j.id : j \in s.justifying} /\ a.payback = s.payback
          /\ a.note = NoteOf(s, F, lead).id
      BY <1>2
    <2>3. (\E f \in F : f.id \in a.cites) => a.note \in a.cites
      BY <2>2, NoteCited
    <2>4. a.cites # {}
      BY <2>1, <2>2
    <2>5. QED
      BY <2>1, <2>2, <2>3, <2>4
  <1>3. \/ a = [model |-> "investigate", cites |-> {f.id : f \in {lead}},
                note |-> lead.id, payback |-> 0]
        \/ \E s \in passed :
               a = [model |-> s.model, cites |-> {f.id : f \in s.justifying},
                    note |-> NoteOf(s, F, lead).id, payback |-> s.payback]
    BY DEF Fallback
  <1>4. QED
    BY <1>1, <1>2, <1>3

-----------------------------------------------------------------------------
(* The inductive invariant                                                   *)

\* The tables that other components write, and the flag.
Tables ==
    /\ ReadingsTable(db)
    /\ \A x \in DOMAIN calendar : calendar[x] \in DayTypes
    /\ coldStart \in BOOLEAN
    /\ labels \in Seq(Label)

\* Features are stored only of rows whose reading is.
FeatureStore ==
    DOMAIN store \subseteq DOMAIN db /\ \A r \in DOMAIN store : IsFeatureSet(store[r])

\* While a member's run is logged it is the last of its member.
Registered ==
    /\ registry \in [Members -> Seq([rules : SUBSET RuleIds, ready : BOOLEAN])]
    /\ training \in [step : {"idle"} \cup Members, logging : BOOLEAN,
                     executions : Nat, crashes : Nat]
    /\ training.logging => training.step \in Members /\ registry[training.step] # <<>>

\* Findings are numbered, none is of a later run, and a band and a confidence
\* are given together.
FindingRows ==
    /\ findings \subseteq FindingRow /\ Numbered(findings)
    /\ \A f \in findings :
          f.run <= analysis.run /\ IsBundle(f) /\ (f.band = None <=> f.confidence = None)

Steps == {"idle", "detect", "assembly", "ensemble", "calibration", "saving", "rootcause"}

\* The run's step, what is left of it in parallel, and its outputs' fields.
RunFields ==
    /\ analysis = [step |-> analysis.step, pending |-> analysis.pending,
                   run |-> analysis.run, read |-> analysis.read, fires |-> analysis.fires,
                   stl |-> analysis.stl, features |-> analysis.features,
                   flagged |-> analysis.flagged, scorer |-> analysis.scorer,
                   ids |-> analysis.ids, band |-> analysis.band]
    /\ analysis.step \in Steps /\ analysis.run \in Nat
    /\ analysis.pending \subseteq {"rules", "stl"}
    /\ analysis.step = "detect" <=> analysis.pending # {}

\* Once the rules have been evaluated, the fires handed on are those of the
\* readings they were evaluated on.
FiresHandedOn ==
    analysis.step # "idle" /\ "rules" \notin analysis.pending =>
        ReadingsTable(analysis.read) /\ analysis.fires = ProcessReadings(analysis.read)

ResidualsHandedOn ==
    \A r \in DOMAIN analysis.stl : analysis.stl[r] \in ResidualResults

\* From assembly on, each feature row agrees with what the two detectors found
\* at its row, and only rows of good quality are flagged.
FeaturesAgree ==
    analysis.step \in {"ensemble", "calibration", "saving", "rootcause"} =>
        /\ IsFiniteSet(DOMAIN analysis.features) /\ DOMAIN analysis.features \subseteq Row
        /\ \A r \in DOMAIN analysis.features :
              /\ IsFeatureSet(analysis.features[r])
              /\ analysis.features[r].fires = RulesAt(analysis.read, r)
              /\ r \in DOMAIN analysis.stl =>
                     analysis.features[r].low = analysis.stl[r].low

FlaggedAreUsable ==
    analysis.step \in {"calibration", "saving", "rootcause"} =>
        analysis.flagged \subseteq UsableRows(analysis.features)

\* A run in progress has stored no finding of the ensemble yet.
NotYetAccused ==
    analysis.step # "idle" =>
        \A f \in findings : f.layer = "ml_ensemble" => f.run < analysis.run

\* The forest that scored is one of those registered.
ScorerRegistered == analysis.scorer \in 0..Len(registry["isolation_forest"])

\* What a narrow band takes.
Earned == ~coldStart /\ Len(labels) >= MinLabels /\ ToSet(labels) = Label

Warranted(band) == band \in ConfidenceBand /\ IsBand(band) /\ (band # WideBand => Earned)

BandEarned == Warranted(analysis.band)

\* What a stray attempt writes when its time comes.
Fire == [circuit : Circuits, ts : Slots, rule : RuleIds]
StrayRecord ==
    [step : {"rules", "calibration", "over"}, fires : SUBSET Fire, ids : SUBSET Nat,
     band : ConfidenceBand]

\* Rows that the rule engine can write: finitely many, of circuits and hours.
FireSet(fires) ==
    /\ IsFiniteSet(fires)
    /\ \A f \in fires : f.rule \in RuleIds /\ [circuit |-> f.circuit, ts |-> f.ts] \in Row

StraysTyped ==
    /\ strays \in Seq(StrayRecord)
    /\ \A a \in 1..Len(strays) : FireSet(strays[a].fires) /\ Warranted(strays[a].band)

\* An attempt saves findings that are there, and of those that have a band by
\* now it is a rival.
RivalsKnown ==
    \A a \in Attempts :
        /\ PickedUp(a) \subseteq {f.id : f \in findings}
        /\ \A f \in findings : f.band # None /\ f.id \in PickedUp(a) => <<f.id, a>> \in rivals

\* A finding without a band is a stray attempt's, or of the run between its
\* rule engine and its calibration, which has picked it up by the time it saves.
UncalibratedRuns ==
    \A f \in findings : f.band = None =>
        /\ f.run \in {0, MidRun}
        /\ analysis.step = "saving" /\ f.run # 0 => f.id \in analysis.ids

\* What a report has read are earlier versions of stored findings, and those
\* without a band are of the run that was under way or of a stray attempt.
ReportReads ==
    /\ report = [step |-> report.step, requests |-> report.requests, open |-> report.open,
                 midRun |-> report.midRun, incidents |-> report.incidents]
    /\ report.step \in {"idle", "scenarios"}
    /\ report.open \subseteq FindingRow
    /\ \A f \in report.open : \E g \in findings : g.id = f.id
    /\ \A f \in report.open : f.band = None => f.run \in {0, report.midRun}

TypeInv ==
    Tables /\ FeatureStore /\ Registered /\ FindingRows /\ RunFields
        /\ FiresHandedOn /\ ResidualsHandedOn /\ FeaturesAgree /\ FlaggedAreUsable
        /\ BandEarned /\ StraysTyped

IInv ==
    /\ TypeInv
    /\ NotYetAccused /\ LowQualityNeverAccused
    /\ ScorerRegistered /\ ExplainerNeverOlder
    /\ NarrowBandsEarned
    /\ RivalsKnown /\ UncalibratedRuns /\ ReportReads

-----------------------------------------------------------------------------
(* The fields of the run after each of its steps                             *)

LEMMA AfterStart ==
    ASSUME RunFields, StartAnalysis
    PROVE  analysis' = [step |-> "detect", pending |-> {"rules", "stl"},
             run |-> analysis.run + 1, read |-> analysis.read,
             fires |-> analysis.fires, stl |-> analysis.stl,
             features |-> analysis.features, flagged |-> analysis.flagged,
             scorer |-> analysis.scorer, ids |-> analysis.ids, band |-> analysis.band]
  BY DEF RunFields, StartAnalysis

LEMMA AfterRules ==
    ASSUME RunFields, RuleEngineActivity
    PROVE  analysis' = [step |-> AfterDetect(analysis.pending \ {"rules"}),
             pending |-> analysis.pending \ {"rules"}, run |-> analysis.run,
             read |-> db, fires |-> ProcessReadings(db), stl |-> analysis.stl,
             features |-> analysis.features, flagged |-> analysis.flagged,
             scorer |-> analysis.scorer, ids |-> analysis.ids, band |-> analysis.band]
  BY DEF RunFields, RuleEngineActivity

LEMMA AfterStl ==
    ASSUME RunFields, StlDetectionActivity
    PROVE  analysis' = [step |-> AfterDetect(analysis.pending \ {"stl"}),
             pending |-> analysis.pending \ {"stl"}, run |-> analysis.run,
             read |-> analysis.read, fires |-> analysis.fires,
             stl |-> AnalyseWindow(db, calendar), features |-> analysis.features,
             flagged |-> analysis.flagged, scorer |-> analysis.scorer,
             ids |-> analysis.ids, band |-> analysis.band]
  BY DEF RunFields, StlDetectionActivity

LEMMA AfterAssembly ==
    ASSUME RunFields, FeatureAssemblyActivity
    PROVE  analysis' = [step |-> "ensemble", pending |-> analysis.pending, run |-> analysis.run,
             read |-> analysis.read, fires |-> analysis.fires, stl |-> analysis.stl,
             features |-> Assemble(db, analysis.stl, analysis.fires),
             flagged |-> analysis.flagged, scorer |-> analysis.scorer,
             ids |-> analysis.ids, band |-> analysis.band]
  BY DEF RunFields, FeatureAssemblyActivity

LEMMA AfterEnsemble ==
    ASSUME RunFields, MlEnsembleActivity
    PROVE  \E a \in Flags("isolation_forest", registry["isolation_forest"], analysis.features),
              b \in Flags("autoencoder", registry["autoencoder"], analysis.features) :
               analysis' =
                   [step |-> "calibration", pending |-> analysis.pending,
                    run |-> analysis.run, read |-> analysis.read,
                    fires |-> analysis.fires, stl |-> analysis.stl,
                    features |-> analysis.features, flagged |-> a \cup b,
                    scorer |-> IF Loads(registry["isolation_forest"])
                               THEN FindLatestRun(registry["isolation_forest"]) ELSE 0,
                    ids |-> analysis.ids, band |-> analysis.band]
  BY DEF RunFields, MlEnsembleActivity

LEMMA AfterSelect ==
    ASSUME RunFields, SelectUncalibrated
    PROVE  \E band \in Bands(coldStart, labels) : analysis' =
               [step |-> "saving", pending |-> analysis.pending, run |-> analysis.run,
                read |-> analysis.read, fires |-> analysis.fires, stl |-> analysis.stl,
                features |-> analysis.features, flagged |-> analysis.flagged,
                scorer |-> analysis.scorer, ids |-> Uncalibrated, band |-> band]
  BY DEF RunFields, SelectUncalibrated

LEMMA AfterSave ==
    ASSUME RunFields, SaveCalibrated
    PROVE  \E band \in Bands(coldStart, labels) : analysis' =
               [step |-> "rootcause", pending |-> analysis.pending, run |-> analysis.run,
                read |-> analysis.read, fires |-> analysis.fires, stl |-> analysis.stl,
                features |-> analysis.features, flagged |-> analysis.flagged,
                scorer |-> analysis.scorer, ids |-> {}, band |-> band]
  BY DEF RunFields, SaveCalibrated

LEMMA AfterRootCause ==
    ASSUME RunFields, RootCauseActivity
    PROVE  analysis' = [step |-> "idle", pending |-> analysis.pending, run |-> analysis.run,
             read |-> NoData, fires |-> {}, stl |-> analysis.stl,
             features |-> NoData, flagged |-> {}, scorer |-> 0,
             ids |-> analysis.ids, band |-> WideBand]
  BY DEF RunFields, RootCauseActivity

\* Every other step leaves the run alone.
Elsewhere ==
    /\ UNCHANGED analysis
    /\ \/ Stray \/ Training \/ LabelFinding \/ ClearColdStart \/ ReadingArrives
       \/ RequestReport \/ FinishReport \/ UNCHANGED vars

LEMMA StepCases ==
    ASSUME [Next]_vars
    PROVE  StartAnalysis \/ Activity \/ Elsewhere
  BY DEF Next, Elsewhere, Stray, BeginStray, StrayRuleEngine, StrayCalibration, Training,
         StartTraining, SkipMember, StartRun, FinishRun, CrashRun, LabelFinding,
         ClearColdStart, ReadingArrives, RequestReport, FinishReport, vars

LEMMA RunFieldsKept ==
    ASSUME RunFields, [Next]_vars
    PROVE  RunFields'
  <1>1. CASE StartAnalysis
    BY <1>1, AfterStart DEF RunFields, Steps
  <1>2. CASE RuleEngineActivity
    BY <1>2, AfterRules DEF RunFields, Steps, AfterDetect, RuleEngineActivity
  <1>3. CASE StlDetectionActivity
    BY <1>3, AfterStl DEF RunFields, Steps, AfterDetect, StlDetectionActivity
  <1>4. CASE FeatureAssemblyActivity
    BY <1>4, AfterAssembly DEF RunFields, Steps, FeatureAssemblyActivity
  <1>5. CASE MlEnsembleActivity
    BY <1>5, AfterEnsemble DEF RunFields, Steps, MlEnsembleActivity
  <1>6. CASE SelectUncalibrated \/ SaveCalibrated
    BY <1>6, AfterSelect, AfterSave DEF RunFields, Steps, SelectUncalibrated, SaveCalibrated
  <1>7. CASE RootCauseActivity
    BY <1>7, AfterRootCause DEF RunFields, Steps, RootCauseActivity
  <1>8. CASE Elsewhere
    BY <1>8 DEF RunFields, Elsewhere
  <1>9. QED
    BY <1>1, <1>2, <1>3, <1>4, <1>5, <1>6, <1>7, <1>8, StepCases DEF Activity

-----------------------------------------------------------------------------
(* Tables, registry and the outputs handed on                                *)

LEMMA TablesKept ==
    ASSUME Tables, [Next]_vars
    PROVE  Tables' /\ DOMAIN db \subseteq DOMAIN db'
  <1>1. CASE LabelFinding
    <2>1. PICK a \in Label : labels' = Append(labels, a)
      BY <1>1 DEF LabelFinding, Label
    <2>2. labels' \in Seq(Label)
      BY <2>1 DEF Tables
    <2>3. UNCHANGED <<db, calendar, coldStart>>
      BY <1>1 DEF LabelFinding
    <2>4. QED
      BY <2>2, <2>3 DEF Tables
  <1>2. CASE ClearColdStart
    BY <1>2 DEF ClearColdStart, Tables
  <1>3. CASE ReadingArrives
    <2>1. PICK r \in DOMAIN Arrivals :
              db' = [q \in DOMAIN db \cup {r} |-> IF q = r THEN Arrivals[r] ELSE db[q]]
      BY <1>3 DEF ReadingArrives
    <2>2. /\ DOMAIN db' = DOMAIN db \cup {r} /\ db'[r] = Arrivals[r]
          /\ \A q \in DOMAIN db : q # r => db'[q] = db[q]
      BY <2>1
    <2>3. IsFiniteSet(DOMAIN db')
      BY <2>2, FS_AddElement DEF Tables, ReadingsTable
    <2>4. r \in Row /\ Arrivals[r] \in Readings
      BY ArrivalsAssumption
    <2>5. ReadingsTable(db)'
      BY <2>2, <2>3, <2>4 DEF Tables, ReadingsTable
    <2>6. QED
      BY <1>3, <2>2, <2>5 DEF ReadingArrives, Tables
  <1>4. CASE UNCHANGED <<db, calendar, coldStart, labels>>
    BY <1>4 DEF Tables
  <1>5. QED
    BY <1>1, <1>2, <1>3, <1>4
    DEF Next, Activity, Stray, Training, BeginStray, StrayRuleEngine, StrayCalibration,
        StartAnalysis, RuleEngineActivity, StlDetectionActivity,
        FeatureAssemblyActivity, MlEnsembleActivity, SelectUncalibrated, SaveCalibrated,
        RootCauseActivity, StartTraining, SkipMember, StartRun, FinishRun, CrashRun,
        RequestReport, FinishReport, vars

\* The forests only grow in number, and one that is complete stays so.
ForestsKept ==
    /\ Len(registry'["isolation_forest"]) >= Len(registry["isolation_forest"])
    /\ \A i \in 1..Len(registry["isolation_forest"]) :
           registry["isolation_forest"][i].ready => registry'["isolation_forest"][i].ready

LEMMA RegistryKept ==
    ASSUME Registered, FeatureStore, [Next]_vars
    PROVE  Registered' /\ ForestsKept
  <1> DEFINE Run == [rules : SUBSET RuleIds, ready : BOOLEAN]
  <1> USE DEF Members
  <1>0. /\ registry["isolation_forest"] \in Seq(Run)
        /\ Len(registry["isolation_forest"]) \in Nat
    BY DEF Registered
  <1>1. ASSUME registry' = registry, training'.logging => training' = training,
               training' \in [step : {"idle"} \cup Members, logging : BOOLEAN,
                              executions : Nat, crashes : Nat]
        PROVE  Registered' /\ ForestsKept
    BY <1>0, <1>1 DEF Registered, ForestsKept
  <1>2. CASE StartTraining \/ SkipMember \/ CrashRun
    <2>1. registry' = registry
      BY <1>2 DEF StartTraining, SkipMember, CrashRun
    <2>2. CASE StartTraining
      <3>1. training.step \notin Members
        BY <2>2 DEF StartTraining
      <3>2. training' \in [step : {"idle"} \cup Members, logging : BOOLEAN,
                           executions : Nat, crashes : Nat]
        <4>1. training.executions + 1 \in Nat
          BY DEF Registered
        <4>2. PICK n \in Nat :
                  training' = [training EXCEPT !.step = "isolation_forest", !.executions = n]
          BY <2>2, <4>1 DEF StartTraining
        <4>3. QED
          BY <4>2 DEF Registered
      <3>3. training'.logging = training.logging
        BY <2>2 DEF StartTraining, Registered
      <3>4. ~training.logging
        BY <3>1 DEF Registered
      <3>5. QED
        BY <1>1, <2>1, <3>2, <3>3, <3>4
    <2>3. CASE SkipMember
      BY <1>1, <2>1, <2>3 DEF SkipMember, NextMember, Registered
    <2>4. CASE CrashRun
      <3>1. training' \in [step : {"idle"} \cup Members, logging : BOOLEAN,
                           executions : Nat, crashes : Nat]
        <4>1. training.crashes + 1 \in Nat
          BY DEF Registered
        <4>2. PICK n \in Nat : training' = [training EXCEPT !.logging = FALSE, !.crashes = n]
          BY <2>4, <4>1 DEF CrashRun
        <4>3. QED
          BY <4>2 DEF Registered
      <3>2. ~training'.logging
        BY <2>4 DEF CrashRun, Registered
      <3>3. QED
        BY <1>1, <2>1, <3>1, <3>2
    <2>5. QED
      BY <1>2, <2>2, <2>3, <2>4
  <1>3. CASE StartRun
    <2> DEFINE m == training.step
    <2>1. PICK run \in Train(m, store) :
              registry' = [registry EXCEPT ![m] = Append(@, run)]
      BY <1>3 DEF StartRun
    <2>2. m \in Members /\ training' = [training EXCEPT !.logging = TRUE]
      BY <1>3 DEF StartRun
    <2>3. run \in Run
      <3>1. CollectRuleIds(store) \subseteq RuleIds
        BY DEF CollectRuleIds, UsableRows, FeatureStore, IsFeatureSet
      <3>2. run = NewRun(CollectRuleIds(store))
        BY <2>1 DEF Train, TrainForest, TrainAutoencoder
      <3>3. QED
        BY <3>1, <3>2 DEF NewRun
    <2> HIDE DEF Run
    <2>4. registry[m] \in Seq(Run) /\ registry[m] # Append(registry[m], run)
      BY <2>2, <2>3 DEF Registered, Run
    <2>5. Append(registry[m], run) \in Seq(Run) /\ Append(registry[m], run) # <<>>
          /\ Len(Append(registry[m], run)) = Len(registry[m]) + 1
          /\ \A i \in 1..Len(registry[m]) : Append(registry[m], run)[i] = registry[m][i]
      BY <2>3, <2>4
    <2>6. registry \in [Members -> Seq(Run)]
      BY DEF Registered, Run
    <2>7. registry' \in [Members -> Seq(Run)] /\ registry'[m] # <<>>
      BY <2>1, <2>2, <2>5, <2>6
    <2>8. Registered'
      BY <2>2, <2>7 DEF Registered, Run
    <2>9. ForestsKept
      <3>1. Len(registry["isolation_forest"]) \in Nat
        BY <2>6
      <3>2. CASE m = "isolation_forest"
        BY <2>1, <2>5, <2>6, <3>1, <3>2 DEF ForestsKept
      <3>3. CASE m # "isolation_forest"
        BY <2>1, <2>6, <3>1, <3>3 DEF ForestsKept
      <3>4. QED
        BY <3>2, <3>3
    <2>10. QED
      BY <2>8, <2>9
  <1>4. CASE FinishRun
    <2> DEFINE m == training.step
               n == Len(registry[m])
    <2>1. registry' = [registry EXCEPT ![m][n].ready = TRUE]
          /\ training' = [training EXCEPT !.logging = FALSE, !.step = NextMember]
      BY <1>4 DEF FinishRun
    <2>2. m \in Members /\ registry[m] \in Seq(Run) /\ registry[m] # <<>>
      BY <1>4 DEF FinishRun, Registered
    <2>3. n \in 1..Len(registry[m]) /\ registry[m][n] \in Run
      <3> HIDE DEF Run
      <3>1. n \in Nat /\ n # 0
        BY <2>2
      <3>2. QED
        BY <2>2, <3>1
    <2> DEFINE done == [registry[m] EXCEPT ![n] = [registry[m][n] EXCEPT !.ready = TRUE]]
    <2>4. registry' = [registry EXCEPT ![m] = done]
      BY <2>1
    <2>5. [registry[m][n] EXCEPT !.ready = TRUE] \in Run
          /\ [registry[m][n] EXCEPT !.ready = TRUE].ready = TRUE
      BY <2>3
    <2> HIDE DEF Run
    <2>6. done \in Seq(Run) /\ Len(done) = Len(registry[m])
          /\ \A i \in 1..Len(registry[m]) : registry[m][i].ready => done[i].ready
      BY <2>2, <2>3, <2>5
    <2>7. registry \in [Members -> Seq(Run)]
      BY DEF Registered, Run
    <2> HIDE DEF done
    <2>8. registry' \in [Members -> Seq(Run)]
      BY <2>2, <2>4, <2>6, <2>7
    <2>9. Registered'
      BY <2>1, <2>8 DEF Registered, Run, NextMember
    <2>10. ForestsKept
      <3>1. Len(registry["isolation_forest"]) \in Nat
        BY <2>7
      <3>2. CASE m = "isolation_forest"
        BY <2>4, <2>6, <2>7, <3>1, <3>2 DEF ForestsKept
      <3>3. CASE m # "isolation_forest"
        BY <2>4, <2>7, <3>1, <3>3 DEF ForestsKept
      <3>4. QED
        BY <3>2, <3>3
    <2>11. QED
      BY <2>9, <2>10
  <1>5. CASE UNCHANGED <<registry, training>>
    BY <1>0, <1>5 DEF Registered, ForestsKept
  <1>6. QED
    BY <1>2, <1>3, <1>4, <1>5
    DEF Next, Activity, Stray, Training, BeginStray, StrayRuleEngine, StrayCalibration,
        StartAnalysis, RuleEngineActivity, StlDetectionActivity,
        FeatureAssemblyActivity, MlEnsembleActivity, SelectUncalibrated, SaveCalibrated,
        RootCauseActivity, LabelFinding, ClearColdStart, ReadingArrives, RequestReport,
        FinishReport, vars

LEMMA HandedOnKept ==
    ASSUME Tables, RunFields, FiresHandedOn, ResidualsHandedOn, [Next]_vars
    PROVE  FiresHandedOn' /\ ResidualsHandedOn'
  <1>1. CASE StartAnalysis
    BY <1>1, AfterStart DEF FiresHandedOn, ResidualsHandedOn
  <1>2. CASE RuleEngineActivity
    BY <1>2, AfterRules DEF FiresHandedOn, ResidualsHandedOn, Tables
  <1>3. CASE StlDetectionActivity
    <2>1. \A r \in DOMAIN AnalyseWindow(db, calendar) :
              AnalyseWindow(db, calendar)[r] \in ResidualResults
      BY ResidualsValid DEF Tables
    <2>2. analysis.step # "idle"
      BY <1>3 DEF StlDetectionActivity, RunFields
    <2>3. QED
      BY <1>3, <2>1, <2>2, AfterStl DEF FiresHandedOn, ResidualsHandedOn
  <1>4. CASE FeatureAssemblyActivity
    BY <1>4, AfterAssembly DEF FiresHandedOn, ResidualsHandedOn, FeatureAssemblyActivity
  <1>5. CASE MlEnsembleActivity
    BY <1>5, AfterEnsemble DEF FiresHandedOn, ResidualsHandedOn, MlEnsembleActivity
  <1>6. CASE SelectUncalibrated \/ SaveCalibrated
    BY <1>6, AfterSelect, AfterSave
    DEF FiresHandedOn, ResidualsHandedOn, SelectUncalibrated, SaveCalibrated
  <1>7. CASE RootCauseActivity
    BY <1>7, AfterRootCause DEF FiresHandedOn, ResidualsHandedOn
  <1>8. CASE Elsewhere
    BY <1>8 DEF FiresHandedOn, ResidualsHandedOn, Elsewhere
  <1>9. QED
    BY <1>1, <1>2, <1>3, <1>4, <1>5, <1>6, <1>7, <1>8, StepCases DEF Activity

-----------------------------------------------------------------------------
(* Feature rows, flags and bands                                             *)

\* What assembly saves and hands on.
LEMMA AssembledRows ==
    ASSUME Tables, RunFields, FiresHandedOn, ResidualsHandedOn, FeatureAssemblyActivity
    PROVE  LET rows == Assemble(db, analysis.stl, analysis.fires)
           IN  /\ IsFiniteSet(DOMAIN rows) /\ DOMAIN rows \subseteq Row
               /\ DOMAIN rows \subseteq DOMAIN db
               /\ \A r \in DOMAIN rows :
                     /\ IsFeatureSet(rows[r]) /\ rows[r].fires = RulesAt(analysis.read, r)
                     /\ r \in DOMAIN analysis.stl => rows[r].low = analysis.stl[r].low
  <1> DEFINE rows == Assemble(db, analysis.stl, analysis.fires)
  <1>1. analysis.step = "assembly" /\ analysis.pending = {}
    BY DEF FeatureAssemblyActivity, RunFields
  <1>2. ReadingsTable(analysis.read) /\ analysis.fires = ProcessReadings(analysis.read)
    BY <1>1 DEF FiresHandedOn
  <1>3. \A f \in analysis.fires : f.rule \in RuleIds
    BY <1>2, FiresFinite
  <1>4. /\ DOMAIN rows = Readable(db)
        /\ \A r \in Readable(db) :
               rows[r] = FromComponents(db, analysis.stl, analysis.fires, r)
    BY DEF Assemble
  <1>5. /\ IsFiniteSet(Readable(db)) /\ Readable(db) \subseteq DOMAIN db
        /\ Readable(db) \subseteq Row
    BY ReadableRows DEF Tables
  <1>6. ASSUME NEW r \in Readable(db)
        PROVE  /\ IsFeatureSet(rows[r]) /\ rows[r].fires = RulesAt(analysis.read, r)
               /\ r \in DOMAIN analysis.stl => rows[r].low = analysis.stl[r].low
    <2>1. /\ IsFeatureSet(FromComponents(db, analysis.stl, analysis.fires, r))
          /\ FromComponents(db, analysis.stl, analysis.fires, r).fires
                 = RuleFiresOf(analysis.fires, r)
          /\ r \in DOMAIN analysis.stl =>
                 FromComponents(db, analysis.stl, analysis.fires, r).low = analysis.stl[r].low
      BY <1>3, FeatureRow DEF Tables, ResidualsHandedOn
    <2>2. RuleFiresOf(analysis.fires, r) = RulesAt(analysis.read, r)
      BY <1>2, <1>5, FiresOfRow
    <2> HIDE DEF rows
    <2>3. QED
      BY <1>4, <2>1, <2>2
  <1> HIDE DEF rows
  <1>7. QED
    BY <1>4, <1>5, <1>6 DEF rows

LEMMA FeatureStoreKept ==
    ASSUME Tables, RunFields, FiresHandedOn, ResidualsHandedOn, FeatureStore, [Next]_vars
    PROVE  FeatureStore'
  <1>1. DOMAIN db \subseteq DOMAIN db'
    BY TablesKept
  <1>2. CASE FeatureAssemblyActivity
    <2> DEFINE rows == Assemble(db, analysis.stl, analysis.fires)
    <2>1. DOMAIN rows \subseteq DOMAIN db /\ \A r \in DOMAIN rows : IsFeatureSet(rows[r])
      BY <1>2, AssembledRows
    <2>2. store' = SaveFeatures(store, rows)
      BY <1>2 DEF FeatureAssemblyActivity
    <2> HIDE DEF rows
    <2>3. /\ DOMAIN store' = DOMAIN rows \cup DOMAIN store
          /\ \A r \in DOMAIN store' :
                 store'[r] = IF r \in DOMAIN rows THEN rows[r] ELSE store[r]
      BY <2>2 DEF SaveFeatures
    <2>4. \A r \in DOMAIN store' : IsFeatureSet(store'[r])
      BY <2>1, <2>3 DEF FeatureStore
    <2>5. QED
      BY <1>1, <2>1, <2>3, <2>4 DEF FeatureStore
  <1>3. CASE store' = store
    BY <1>1, <1>3 DEF FeatureStore
  <1>4. QED
    BY <1>2, <1>3
    DEF Next, Activity, Stray, Training, BeginStray, StrayRuleEngine, StrayCalibration,
        StartAnalysis, RuleEngineActivity, StlDetectionActivity,
        MlEnsembleActivity, SelectUncalibrated, SaveCalibrated, RootCauseActivity,
        StartTraining, SkipMember, StartRun, FinishRun, CrashRun, LabelFinding,
        ClearColdStart, ReadingArrives, RequestReport, FinishReport, vars

LEMMA FeaturesAgreeKept ==
    ASSUME Tables, RunFields, FiresHandedOn, ResidualsHandedOn, FeaturesAgree, [Next]_vars
    PROVE  FeaturesAgree'
  <1>1. CASE StartAnalysis
    BY <1>1, AfterStart DEF FeaturesAgree
  <1>2. CASE RuleEngineActivity
    BY <1>2, AfterRules DEF FeaturesAgree, AfterDetect
  <1>3. CASE StlDetectionActivity
    BY <1>3, AfterStl DEF FeaturesAgree, AfterDetect
  <1>4. CASE FeatureAssemblyActivity
    <2> DEFINE rows == Assemble(db, analysis.stl, analysis.fires)
    <2>1. /\ IsFiniteSet(DOMAIN rows) /\ DOMAIN rows \subseteq Row
          /\ \A r \in DOMAIN rows :
                /\ IsFeatureSet(rows[r]) /\ rows[r].fires = RulesAt(analysis.read, r)
                /\ r \in DOMAIN analysis.stl => rows[r].low = analysis.stl[r].low
      BY <1>4, AssembledRows
    <2>2. analysis'.features = rows /\ analysis'.read = analysis.read
          /\ analysis'.stl = analysis.stl
      BY <1>4, AfterAssembly
    <2> HIDE DEF rows
    <2>3. QED
      BY <2>1, <2>2 DEF FeaturesAgree
  <1>5. CASE MlEnsembleActivity
    BY <1>5, AfterEnsemble DEF FeaturesAgree, MlEnsembleActivity
  <1>6. CASE SelectUncalibrated \/ SaveCalibrated
    BY <1>6, AfterSelect, AfterSave DEF FeaturesAgree, SelectUncalibrated, SaveCalibrated
  <1>7. CASE RootCauseActivity
    BY <1>7, AfterRootCause DEF FeaturesAgree
  <1>8. CASE Elsewhere
    BY <1>8 DEF FeaturesAgree, Elsewhere
  <1>9. QED
    BY <1>1, <1>2, <1>3, <1>4, <1>5, <1>6, <1>7, <1>8, StepCases DEF Activity

LEMMA FlaggedAreUsableKept ==
    ASSUME RunFields, FlaggedAreUsable, [Next]_vars
    PROVE  FlaggedAreUsable'
  <1>1. CASE StartAnalysis
    BY <1>1, AfterStart DEF FlaggedAreUsable
  <1>2. CASE RuleEngineActivity
    BY <1>2, AfterRules DEF FlaggedAreUsable, AfterDetect
  <1>3. CASE StlDetectionActivity
    BY <1>3, AfterStl DEF FlaggedAreUsable, AfterDetect
  <1>4. CASE FeatureAssemblyActivity
    BY <1>4, AfterAssembly DEF FlaggedAreUsable
  <1>5. CASE MlEnsembleActivity
    <2>1. PICK a \in Flags("isolation_forest", registry["isolation_forest"], analysis.features),
               b \in Flags("autoencoder", registry["autoencoder"], analysis.features) :
                   analysis'.flagged = a \cup b /\ analysis'.features = analysis.features
      BY <1>5, AfterEnsemble
    <2>2. a \subseteq UsableRows(analysis.features) /\ b \subseteq UsableRows(analysis.features)
      BY FlaggedUsable
    <2>3. QED
      BY <2>1, <2>2 DEF FlaggedAreUsable
  <1>6. CASE SelectUncalibrated \/ SaveCalibrated
    BY <1>6, AfterSelect, AfterSave DEF FlaggedAreUsable, SelectUncalibrated, SaveCalibrated
  <1>7. CASE RootCauseActivity
    BY <1>7, AfterRootCause DEF FlaggedAreUsable
  <1>8. CASE Elsewhere
    BY <1>8 DEF FlaggedAreUsable, Elsewhere
  <1>9. QED
    BY <1>1, <1>2, <1>3, <1>4, <1>5, <1>6, <1>7, <1>8, StepCases DEF Activity

\* Labels are never withdrawn and cold start is never entered again.
LEMMA EarnedKept ==
    ASSUME Tables, Earned, [Next]_vars
    PROVE  Earned'
  <1>1. CASE LabelFinding
    <2>1. PICK a \in Label : labels' = Append(labels, a)
      BY <1>1 DEF LabelFinding, Label
    <2>2. labels \in Seq(Label) /\ Len(labels) \in Nat
      BY DEF Tables
    <2>3. Len(labels') = Len(labels) + 1 /\ labels' \in Seq(Label)
          /\ \A i \in 1..Len(labels) : labels'[i] = labels[i]
      BY <2>1, <2>2
    <2>4. ToSet(labels') \subseteq Label
      BY <2>3 DEF ToSet
    <2>5. ToSet(labels) \subseteq ToSet(labels')
      BY <2>2, <2>3 DEF ToSet
    <2>6. UNCHANGED coldStart
      BY <1>1 DEF LabelFinding
    <2>7. QED
      BY <2>2, <2>3, <2>4, <2>5, <2>6, CalibrationAssumption DEF Earned
  <1>2. CASE ClearColdStart
    BY <1>2 DEF ClearColdStart, Earned
  <1>3. CASE UNCHANGED <<coldStart, labels>>
    BY <1>3 DEF Earned
  <1>4. QED
    BY <1>1, <1>2, <1>3
    DEF Next, Activity, Stray, Training, BeginStray, StrayRuleEngine, StrayCalibration,
        StartAnalysis, RuleEngineActivity, StlDetectionActivity,
        FeatureAssemblyActivity, MlEnsembleActivity, SelectUncalibrated, SaveCalibrated,
        RootCauseActivity, StartTraining, SkipMember, StartRun, FinishRun, CrashRun,
        ReadingArrives, RequestReport, FinishReport, vars

LEMMA BandEarnedKept ==
    ASSUME Tables, RunFields, BandEarned, [Next]_vars
    PROVE  BandEarned'
  <1>1. ASSUME analysis'.band = analysis.band
        PROVE  BandEarned'
    BY <1>1, EarnedKept DEF BandEarned, Warranted
  <1>2. CASE SelectUncalibrated \/ SaveCalibrated
    <2>1. PICK band \in Bands(coldStart, labels) : analysis'.band = band
      BY <1>2, AfterSelect, AfterSave
    <2>2. UNCHANGED <<coldStart, labels>>
      BY <1>2 DEF SelectUncalibrated, SaveCalibrated
    <2>3. Warranted(band)
      BY BandsWarranted DEF Tables, Earned, Warranted
    <2>4. QED
      BY <2>1, <2>2, <2>3 DEF BandEarned, Earned, Warranted
  <1>3. CASE RootCauseActivity
    <2>1. WideBand \in ConfidenceBand /\ IsBand(WideBand)
      BY DEF WideBand, Band, ConfidenceBand, IsBand
    <2>2. QED
      BY <1>3, <2>1, AfterRootCause DEF BandEarned, Warranted
  <1>4. CASE StartAnalysis
    BY <1>1, <1>4, AfterStart
  <1>5. CASE RuleEngineActivity
    BY <1>1, <1>5, AfterRules
  <1>6. CASE StlDetectionActivity
    BY <1>1, <1>6, AfterStl
  <1>7. CASE FeatureAssemblyActivity
    BY <1>1, <1>7, AfterAssembly
  <1>8. CASE MlEnsembleActivity
    BY <1>1, <1>8, AfterEnsemble
  <1>9. CASE Elsewhere
    BY <1>1, <1>9 DEF Elsewhere
  <1>10. QED
    BY <1>2, <1>3, <1>4, <1>5, <1>6, <1>7, <1>8, <1>9, StepCases DEF Activity

-----------------------------------------------------------------------------
(* Stray attempts                                                            *)

LEMMA FiresOfTable ==
    ASSUME NEW t, ReadingsTable(t)
    PROVE  ProcessReadings(t) \subseteq Fire /\ FireSet(ProcessReadings(t))
  <1>1. ProcessReadings(t) \subseteq Fire
    BY DEF ProcessReadings, Fire
  <1>2. QED
    BY <1>1, FiresFinite DEF FireSet

\* An attempt that is over has nothing left to write, and the others go on.
LEMMA StrayOver ==
    ASSUME StraysTyped, NEW a \in 1..Len(strays), Over(a)
    PROVE  /\ strays' \in Seq(StrayRecord) /\ Len(strays') = Len(strays)
           /\ strays'[a].fires = {} /\ strays'[a].ids = {}
           /\ strays'[a].band = strays[a].band
           /\ \A b \in 1..Len(strays) : b # a => strays'[b] = strays[b]
  <1>1. strays \in Seq(StrayRecord) /\ strays[a] \in StrayRecord
    BY DEF StraysTyped
  <1> DEFINE over == [strays[a] EXCEPT !.step = "over", !.fires = {}, !.ids = {}]
  <1>2. /\ over \in StrayRecord /\ over.fires = {} /\ over.ids = {}
        /\ over.band = strays[a].band
    BY <1>1 DEF StrayRecord
  <1>3. strays' = [strays EXCEPT ![a] = over]
    BY <1>1 DEF Over, StrayRecord
  <1> HIDE DEF over
  <1>4. QED
    BY <1>1, <1>2, <1>3

\* A new attempt comes last, with what it has read.
LEMMA StrayBegun ==
    ASSUME Tables, FindingRows, StraysTyped, BeginStray
    PROVE  \E new \in StrayRecord :
               /\ strays' = Append(strays, new) /\ strays' \in Seq(StrayRecord)
               /\ Len(strays') = Len(strays) + 1 /\ strays'[Len(strays) + 1] = new
               /\ \A b \in 1..Len(strays) : strays'[b] = strays[b]
               /\ FireSet(new.fires) /\ Warranted(new.band)
               /\ new.ids \in {{}, Uncalibrated}
  <1>1. WideBand \in ConfidenceBand /\ Warranted(WideBand)
    BY DEF WideBand, Band, ConfidenceBand, IsBand, Warranted
  <1>2. ProcessReadings(db) \subseteq Fire /\ FireSet(ProcessReadings(db)) /\ FireSet({})
    BY FiresOfTable, FS_EmptySet DEF Tables, FireSet
  <1>3. Uncalibrated \subseteq Nat
    BY DEF Uncalibrated, FindingRows, Numbered
  <1>4. \A band \in Bands(coldStart, labels) : band \in ConfidenceBand /\ Warranted(band)
    BY BandsWarranted DEF Tables, Warranted, Earned
  <1>5. PICK new \in StrayRecord :
            /\ strays' = Append(strays, new) /\ FireSet(new.fires) /\ Warranted(new.band)
            /\ new.ids \in {{}, Uncalibrated}
    <2>1. CASE strays' = Append(strays, NewStray("rules", ProcessReadings(db), {}, WideBand))
      <3> DEFINE new == NewStray("rules", ProcessReadings(db), {}, WideBand)
      <3>1. new \in StrayRecord /\ new.ids = {} /\ new.fires = ProcessReadings(db)
            /\ new.band = WideBand
        BY <1>1, <1>2 DEF NewStray, StrayRecord
      <3> HIDE DEF new
      <3>2. QED
        BY <1>1, <1>2, <2>1, <3>1 DEF new
    <2>2. ASSUME NEW band \in Bands(coldStart, labels),
                 strays' = Append(strays, NewStray("calibration", {}, Uncalibrated, band))
          PROVE  \E new \in StrayRecord :
                    /\ strays' = Append(strays, new)
                    /\ FireSet(new.fires) /\ Warranted(new.band)
                    /\ new.ids \in {{}, Uncalibrated}
      <3> DEFINE new == NewStray("calibration", {}, Uncalibrated, band)
      <3>1. new \in StrayRecord /\ new.ids = Uncalibrated /\ new.fires = {}
            /\ new.band = band
        BY <1>3, <1>4 DEF NewStray, StrayRecord
      <3> HIDE DEF new
      <3>2. QED
        BY <1>2, <1>4, <2>2, <3>1 DEF new
    <2>3. QED
      BY <2>1, <2>2 DEF BeginStray
  <1>6. strays \in Seq(StrayRecord) /\ Len(strays) \in Nat
    BY DEF StraysTyped
  <1>7. QED
    BY <1>5, <1>6

LEMMA StraysKept ==
    ASSUME Tables, FindingRows, StraysTyped, [Next]_vars
    PROVE  StraysTyped'
  <1>0. \A band : Warranted(band) => band \in ConfidenceBand /\ IsBand(band)
                                      /\ (band # WideBand => Earned')
    BY EarnedKept DEF Warranted
  <1>1. CASE BeginStray
    <2>1. PICK new \in StrayRecord :
              /\ strays' \in Seq(StrayRecord)
              /\ Len(strays') = Len(strays) + 1 /\ strays'[Len(strays) + 1] = new
              /\ \A b \in 1..Len(strays) : strays'[b] = strays[b]
              /\ FireSet(new.fires) /\ Warranted(new.band)
      BY <1>1, StrayBegun
    <2>2. Len(strays) \in Nat
      BY DEF StraysTyped
    <2>3. \A b \in 1..Len(strays') : b = Len(strays) + 1 \/ b \in 1..Len(strays)
      BY <2>1, <2>2
    <2>4. ASSUME NEW b \in 1..Len(strays')
          PROVE  FireSet(strays'[b].fires) /\ Warranted(strays'[b].band)
      BY <2>1, <2>3 DEF StraysTyped
    <2>5. QED
      BY <1>0, <2>1, <2>4 DEF StraysTyped, Warranted
  <1>2. ASSUME NEW a \in 1..Len(strays), Over(a)
        PROVE  StraysTyped'
    <2>1. /\ strays' \in Seq(StrayRecord) /\ Len(strays') = Len(strays)
          /\ strays'[a].fires = {} /\ strays'[a].band = strays[a].band
          /\ \A b \in 1..Len(strays) : b # a => strays'[b] = strays[b]
      BY <1>2, StrayOver
    <2>2. FireSet({})
      BY FS_EmptySet DEF FireSet
    <2>3. ASSUME NEW b \in 1..Len(strays')
          PROVE  FireSet(strays'[b].fires) /\ Warranted(strays'[b].band)
      <3>1. CASE b = a
        BY <2>1, <2>2, <3>1 DEF StraysTyped
      <3>2. CASE b # a
        BY <2>1, <3>2 DEF StraysTyped
      <3>3. QED
        BY <3>1, <3>2
    <2>4. QED
      BY <1>0, <2>1, <2>3 DEF StraysTyped, Warranted
  <1>3. CASE strays' = strays
    BY <1>0, <1>3 DEF StraysTyped, Warranted
  <1>4. CASE StrayRuleEngine \/ StrayCalibration
    <2>1. PICK a \in 1..Len(strays) : Over(a)
      BY <1>4 DEF StrayRuleEngine, StrayCalibration, StraysTyped
    <2>2. QED
      BY <1>2, <2>1
  <1>5. QED
    BY <1>1, <1>3, <1>4
    DEF Next, Activity, Stray, Training, StartAnalysis, RuleEngineActivity,
        StlDetectionActivity, FeatureAssemblyActivity, MlEnsembleActivity,
        SelectUncalibrated, SaveCalibrated, RootCauseActivity, StartTraining, SkipMember,
        StartRun, FinishRun, CrashRun, LabelFinding, ClearColdStart, ReadingArrives,
        RequestReport, FinishReport, vars

-----------------------------------------------------------------------------
(* The steps that write findings                                             *)

\* A bundle that a row of findings can hold.
Storable(bundle) ==
    /\ bundle.layers \subseteq Layers /\ bundle.top \subseteq FeatureNames(RuleIds)
    /\ bundle.rules \subseteq RuleIds /\ bundle.band \in ConfidenceBand \cup {None}
    /\ IsBundle(bundle)

LEMMA FindingInTable ==
    ASSUME NEW run \in Nat,
           NEW id \in Nat, NEW layer \in {"domain_rule", "ml_ensemble"}, NEW row \in Row,
           NEW bundle, Storable(bundle),
           NEW confidence \in 0..100 \cup {None}, NEW model \in Nat, NEW scorer \in Nat
    PROVE  LET f == Finding(id, layer, row, run, bundle, confidence, model, scorer)
           IN  f \in FindingRow /\ IsBundle(f)
  <1> DEFINE f == Finding(id, layer, row, run, bundle, confidence, model, scorer)
  <1>1. f = [id |-> id, layer |-> layer, row |-> row, status |-> "open",
             confidence |-> confidence, run |-> run, model |-> model,
             scorer |-> scorer, layers |-> bundle.layers, top |-> bundle.top,
             rules |-> bundle.rules, band |-> bundle.band]
    BY DEF Finding
  <1> HIDE DEF f
  <1>2. f \in FindingRow
    BY <1>1 DEF FindingRow, ConfidenceBand, Storable
  <1>3. IsBundle(f)
    BY <1>1 DEF IsBundle, Storable
  <1>4. QED
    BY <1>1, <1>2, <1>3 DEF f

\* The rule engine adds findings of its run, with new numbers and without a band.
NewRuleFinding(f, run) ==
    /\ f \in FindingRow /\ IsBundle(f) /\ f.layer = "domain_rule" /\ f.run = run
    /\ f.band = None /\ f.confidence = None /\ f.id > Cardinality(findings)

LEMMA RuleRows ==
    ASSUME FindingRows, NEW fires, FireSet(fires), NEW run \in Nat
    PROVE  /\ Numbered(findings \cup RuleFindings(fires, run))
           /\ \A f \in RuleFindings(fires, run) : NewRuleFinding(f, run)
  <1> DEFINE seq == SetToSeq(fires)
             n == Len(seq)
             rows == [i \in 1..n |->
                 Finding(Cardinality(findings) + i, "domain_rule",
                         [circuit |-> seq[i].circuit, ts |-> seq[i].ts], run,
                         RuleBundle(seq[i].rule), None, 0, 0)]
             new == {rows[i] : i \in 1..n}
  <1>1. RuleFindings(fires, run) = new
    BY DEF RuleFindings
  <1>2. /\ IsFiniteSet(fires)
        /\ \A f \in fires : f.rule \in RuleIds /\ [circuit |-> f.circuit, ts |-> f.ts] \in Row
    BY DEF FireSet
  <1>3. seq \in [1..n -> fires] /\ n \in Nat
    BY <1>2, SequenceOfSet
  <1>4. Numbered(findings) /\ Cardinality(findings) \in Nat
    BY FS_CardinalityType DEF FindingRows, Numbered
  <1> HIDE DEF seq, n
  <1>5. ASSUME NEW i \in 1..n
        PROVE  rows[i].id = Cardinality(findings) + i /\ NewRuleFinding(rows[i], run)
    <2> DEFINE row == [circuit |-> seq[i].circuit, ts |-> seq[i].ts]
               bundle == RuleBundle(seq[i].rule)
    <2>1. row \in Row /\ seq[i].rule \in RuleIds
      BY <1>2, <1>3
    <2>2. Storable(bundle) /\ bundle.band = None
      BY <2>1 DEF RuleBundle, Layers, IsBundle, Storable
    <2> DEFINE id == Cardinality(findings) + i
               f == Finding(id, "domain_rule", row, run, bundle, None, 0, 0)
    <2>3. rows[i] = f
      OBVIOUS
    <2>4. id \in Nat /\ id > Cardinality(findings)
      BY <1>3, <1>4
    <2> HIDE DEF row, bundle, rows, id
    <2>5. /\ "domain_rule" \in {"domain_rule", "ml_ensemble"} /\ row \in Row
          /\ run \in Nat /\ id \in Nat /\ Storable(bundle)
          /\ None \in 0..100 \cup {None} /\ 0 \in Nat
      BY <2>1, <2>2, <2>4
    <2>6. f \in FindingRow /\ IsBundle(f)
      BY <2>5, FindingInTable, ZenonT(30)
    <2>7. /\ f.id = id /\ f.layer = "domain_rule" /\ f.run = run
          /\ f.band = bundle.band /\ f.confidence = None
      BY DEF Finding
    <2> HIDE DEF f
    <2>8. QED
      BY <2>2, <2>3, <2>4, <2>6, <2>7 DEF id, NewRuleFinding
  <1> HIDE DEF rows
  <1>6. Numbered(findings \cup new)
    <2>1. Continue(findings, rows, n)
      BY <1>5 DEF Continue
    <2>2. Numbered(findings \cup Entries(rows, n))
      BY <1>3, <1>4, <2>1, NumberedRows
    <2>3. QED
      BY <2>2 DEF Entries
  <1>7. \A f \in new : NewRuleFinding(f, run)
    BY <1>5
  <1> HIDE DEF new
  <1>8. QED
    BY <1>1, <1>6, <1>7

\* Either rule engine: the run's own, or a stray one.
LEMMA RulesInsert ==
    ASSUME Tables, RunFields, FindingRows, StraysTyped, RuleEngineActivity \/ StrayRuleEngine
    PROVE  \E added, run :
               /\ findings' = findings \cup added /\ Numbered(findings')
               /\ \A f \in added : NewRuleFinding(f, run)
               /\ \/ RuleEngineActivity /\ run = analysis.run
                  \/ StrayRuleEngine /\ run = 0
  <1>1. CASE RuleEngineActivity
    <2>1. FireSet(ProcessReadings(db)) /\ analysis.run \in Nat
      BY FiresOfTable DEF Tables, RunFields
    <2>2. findings' = findings \cup RuleFindings(ProcessReadings(db), analysis.run)
      BY <1>1 DEF RuleEngineActivity
    <2>3. QED
      BY <1>1, <2>1, <2>2, RuleRows
  <1>2. CASE StrayRuleEngine
    <2>1. PICK a \in 1..Len(strays) : findings' = findings \cup RuleFindings(strays[a].fires, 0)
      BY <1>2 DEF StrayRuleEngine, StraysTyped
    <2>2. FireSet(strays[a].fires)
      BY DEF StraysTyped
    <2>3. QED
      BY <1>2, <2>1, <2>2, RuleRows
  <1>3. QED
    BY <1>1, <1>2

\* What the explanation of a flagged row says.
LEMMA MlBundle ==
    ASSUME NEW feature, NEW forest, forest.rules \subseteq RuleIds,
           NEW band \in ConfidenceBand, IsBand(band)
    PROVE  LET bundle == AssembleMlOnly(feature, forest, band)
           IN  Storable(bundle) /\ bundle.band = band
  <1> DEFINE bundle == AssembleMlOnly(feature, forest, band)
  <1>1. bundle = [layers |-> {"ml_ensemble"} \cup
                                 (IF feature.residual THEN {"stl_residual"} ELSE {}),
                  top |-> FeatureNames(forest.rules), rules |-> {}, band |-> band]
    BY DEF AssembleMlOnly, Explain
  <1>2. "day_type_encoded" \in FeatureNames(forest.rules)
        /\ FeatureNames(forest.rules) \subseteq FeatureNames(RuleIds)
    BY DEF FeatureNames, BaseFeatureNames
  <1>3. band # None
    BY AnalysisAssumption DEF ConfidenceBand
  <1> HIDE DEF bundle
  <1>4. QED
    BY <1>1, <1>2, <1>3 DEF IsBundle, Layers, Storable, bundle

\* Attribution adds findings of its run about the flagged rows, explained by
\* the newest forest.
LEMMA MlFindings ==
    ASSUME RunFields, FindingRows, Registered, FeaturesAgree, FlaggedAreUsable,
           BandEarned, ScorerRegistered, RootCauseActivity
    PROVE  LET forests == registry["isolation_forest"]
           IN  \E added :
                   /\ findings' = findings \cup added /\ Numbered(findings')
                   /\ \A f \in added :
                         /\ f \in FindingRow /\ IsBundle(f)
                         /\ f.layer = "ml_ensemble" /\ f.run = analysis.run
                         /\ f.row \in UsableRows(analysis.features)
                         /\ f.band = analysis.band /\ f.band # None /\ f.confidence # None
                         /\ Loads(forests) /\ f.model = Len(forests)
                         /\ f.scorer = analysis.scorer
                         /\ f.id > Cardinality(findings)
  <1> DEFINE forests == registry["isolation_forest"]
             usable == analysis.flagged \cap DOMAIN analysis.features
             chosen == IF Loads(forests) THEN usable ELSE {}
             seq == SetToSeq(chosen)
             n == Len(seq)
             confidence == (analysis.band.lower + analysis.band.upper) \div 2
             rows == [i \in 1..n |->
                 Finding(Cardinality(findings) + i, "ml_ensemble", seq[i], analysis.run,
                         AssembleMlOnly(analysis.features[seq[i]],
                                        forests[FindLatestRun(forests)], analysis.band),
                         confidence, FindLatestRun(forests), analysis.scorer)]
             new == {rows[i] : i \in 1..n}
  <1>1. findings' = findings \cup new
    BY DEF RootCauseActivity
  <1>2. analysis.step = "rootcause"
    BY DEF RootCauseActivity
  <1>3. IsFiniteSet(chosen) /\ chosen \subseteq DOMAIN analysis.features
        /\ chosen \subseteq Row /\ chosen \subseteq analysis.flagged
    <2>1. IsFiniteSet(DOMAIN analysis.features) /\ DOMAIN analysis.features \subseteq Row
      BY <1>2 DEF FeaturesAgree
    <2>2. chosen \in SUBSET DOMAIN analysis.features
      OBVIOUS
    <2>3. IsFiniteSet(chosen)
      <3> HIDE DEF chosen
      <3>1. QED
        BY <2>1, <2>2, FS_Subset
    <2>4. QED
      BY <2>1, <2>2, <2>3
  <1>4. \A r \in chosen : r \in UsableRows(analysis.features) /\ Loads(forests)
    BY <1>2, <1>3 DEF FlaggedAreUsable
  <1> HIDE DEF chosen
  <1>5. seq \in [1..n -> chosen] /\ n \in Nat
    BY <1>3, SequenceOfSet
  <1>6. Numbered(findings) /\ Cardinality(findings) \in Nat
    BY FS_CardinalityType DEF FindingRows, Numbered
  <1>7. analysis.band \in ConfidenceBand /\ IsBand(analysis.band) /\ analysis.band # None
    BY AnalysisAssumption DEF BandEarned, Warranted, ConfidenceBand
  <1>8. confidence \in 0..100 /\ confidence # None
    <2>1. analysis.band.lower \in 0..100 /\ analysis.band.upper \in 0..100
      BY <1>7 DEF ConfidenceBand
    <2>2. confidence \in 0..100
      <3> DEFINE l == analysis.band.lower
                 u == analysis.band.upper
      <3>1. confidence = (l + u) \div 2 /\ l \in 0..100 /\ u \in 0..100
        BY <2>1
      <3> HIDE DEF l, u, confidence
      <3>2. QED
        BY <3>1
    <2>3. QED
      BY <2>2, BuildingAssumption
  <1>9. forests \in Seq([rules : SUBSET RuleIds, ready : BOOLEAN]) /\ Len(forests) \in Nat
        /\ analysis.scorer \in Nat
    BY DEF Registered, Members, ScorerRegistered
  <1> HIDE DEF seq, n, confidence, forests
  <1>10. ASSUME NEW i \in 1..n
         PROVE  /\ rows[i].id = Cardinality(findings) + i
                /\ rows[i].id > Cardinality(findings)
                /\ rows[i] \in FindingRow /\ IsBundle(rows[i])
                /\ rows[i].layer = "ml_ensemble" /\ rows[i].run = analysis.run
                /\ rows[i].row \in UsableRows(analysis.features)
                /\ rows[i].band = analysis.band /\ rows[i].confidence # None
                /\ Loads(forests) /\ rows[i].model = Len(forests)
                /\ rows[i].scorer = analysis.scorer
    <2> DEFINE bundle == AssembleMlOnly(analysis.features[seq[i]],
                                        forests[FindLatestRun(forests)], analysis.band)
    <2>1. seq[i] \in Row /\ seq[i] \in UsableRows(analysis.features) /\ Loads(forests)
      BY <1>3, <1>4, <1>5
    <2>2. forests[FindLatestRun(forests)].rules \subseteq RuleIds
      <3> DEFINE Run == [rules : SUBSET RuleIds, ready : BOOLEAN]
                 k == FindLatestRun(forests)
      <3>1. k \in 1..Len(forests)
        BY <1>9, <2>1 DEF Loads, FindLatestRun
      <3>2. forests \in Seq(Run)
        BY <1>9
      <3> HIDE DEF Run, k
      <3>3. forests[k] \in Run
        BY <3>1, <3>2
      <3>4. QED
        BY <3>3 DEF Run, k
    <2>3. Storable(bundle) /\ bundle.band = analysis.band
      BY <1>7, <2>2, MlBundle
    <2> DEFINE id == Cardinality(findings) + i
               row == seq[i]
               f == Finding(id, "ml_ensemble", row, analysis.run, bundle, confidence,
                            FindLatestRun(forests), analysis.scorer)
    <2>4. rows[i] = f
      OBVIOUS
    <2>5. id \in Nat /\ id > Cardinality(findings) /\ analysis.run \in Nat
          /\ FindLatestRun(forests) \in Nat /\ FindLatestRun(forests) = Len(forests)
      BY <1>5, <1>6, <1>9 DEF RunFields, FindLatestRun
    <2> HIDE DEF bundle, rows, id, row
    <2>6. /\ "ml_ensemble" \in {"domain_rule", "ml_ensemble"} /\ row \in Row
          /\ analysis.run \in Nat /\ id \in Nat /\ Storable(bundle)
          /\ confidence \in 0..100 \cup {None}
          /\ FindLatestRun(forests) \in Nat /\ analysis.scorer \in Nat
      BY <1>8, <1>9, <2>1, <2>3, <2>5 DEF row
    <2>7. f \in FindingRow /\ IsBundle(f)
      BY <2>6, FindingInTable, ZenonT(30)
    <2>8. /\ f.id = id /\ f.layer = "ml_ensemble" /\ f.row = row /\ f.run = analysis.run
          /\ f.band = bundle.band /\ f.confidence = confidence
          /\ f.model = FindLatestRun(forests) /\ f.scorer = analysis.scorer
      BY DEF Finding
    <2> HIDE DEF f
    <2>9. QED
      BY <1>8, <2>1, <2>3, <2>4, <2>5, <2>7, <2>8 DEF id, row
  <1> HIDE DEF rows
  <1>11. Numbered(findings \cup new)
    <2>1. Continue(findings, rows, n)
      BY <1>10 DEF Continue
    <2>2. Numbered(findings \cup Entries(rows, n))
      BY <1>5, <1>6, <2>1, NumberedRows
    <2>3. QED
      BY <2>2 DEF Entries
  <1>12. \A f \in new :
             /\ f \in FindingRow /\ IsBundle(f)
             /\ f.layer = "ml_ensemble" /\ f.run = analysis.run
             /\ f.row \in UsableRows(analysis.features)
             /\ f.band = analysis.band /\ f.band # None /\ f.confidence # None
             /\ Loads(forests) /\ f.model = Len(forests)
             /\ f.scorer = analysis.scorer /\ f.id > Cardinality(findings)
    BY <1>7, <1>10
  <1> HIDE DEF new
  <1>13. QED
    BY <1>1, <1>11, <1>12 DEF forests

\* A row of the same finding.
Rewritten(f, g) ==
    /\ g \in FindingRow /\ IsBundle(g)
    /\ g.id = f.id /\ g.layer = f.layer /\ g.row = f.row /\ g.run = f.run
    /\ g.model = f.model /\ g.scorer = f.scorer

LEMMA CalibratedRow ==
    ASSUME NEW f \in FindingRow, IsBundle(f), f.band = None <=> f.confidence = None,
           NEW ids, NEW band \in ConfidenceBand, IsBand(band)
    PROVE  LET g == Calibrated(f, ids, band)
           IN  /\ Rewritten(f, g) /\ (g.band = None <=> g.confidence = None)
               /\ g.band = IF f.id \in ids THEN band ELSE f.band
  <1>1. CASE f.id \notin ids
    BY <1>1 DEF Calibrated, Rewritten
  <1>2. CASE f.id \in ids
    <2> DEFINE g == [f EXCEPT !.confidence = band.upper, !.band = band]
    <2>1. Calibrated(f, ids, band) = g
      BY <1>2 DEF Calibrated
    <2>2. band # None /\ band.upper \in 0..100 /\ band.upper # None
      BY AnalysisAssumption, BuildingAssumption DEF ConfidenceBand
    <2>3. /\ g.id = f.id /\ g.layer = f.layer /\ g.row = f.row /\ g.run = f.run
          /\ g.model = f.model /\ g.scorer = f.scorer /\ g.layers = f.layers
          /\ g.top = f.top /\ g.rules = f.rules /\ g.band = band /\ g.confidence = band.upper
          /\ g \in FindingRow
      BY <2>2 DEF FindingRow, ConfidenceBand
    <2> HIDE DEF g
    <2>4. IsBundle(g)
      BY <2>2, <2>3 DEF IsBundle
    <2>5. QED
      BY <1>2, <2>1, <2>2, <2>3, <2>4 DEF Rewritten
  <1>3. QED
    BY <1>1, <1>2

\* What saving a band makes of the findings.
LEMMA CalibratedRows ==
    ASSUME FindingRows, NEW ids, NEW band \in ConfidenceBand, IsBand(band)
    PROVE  \E h :
               /\ {Calibrated(f, ids, band) : f \in findings} = {h[f] : f \in findings}
               /\ Numbered({h[f] : f \in findings})
               /\ \A f \in findings :
                     /\ Rewritten(f, h[f]) /\ (h[f].band = None <=> h[f].confidence = None)
                     /\ h[f].band = IF f.id \in ids THEN band ELSE f.band
  <1> DEFINE h == [f \in findings |-> Calibrated(f, ids, band)]
  <1>1. \A f \in findings : f \in FindingRow /\ IsBundle(f)
                            /\ (f.band = None <=> f.confidence = None)
    BY DEF FindingRows
  <1>2. {Calibrated(f, ids, band) : f \in findings} = {h[f] : f \in findings}
    OBVIOUS
  <1>3. ASSUME NEW f \in findings
        PROVE  /\ Rewritten(f, h[f]) /\ (h[f].band = None <=> h[f].confidence = None)
               /\ h[f].band = IF f.id \in ids THEN band ELSE f.band
    <2>1. h[f] = Calibrated(f, ids, band)
      OBVIOUS
    <2> HIDE DEF h
    <2>2. QED
      BY <1>1, <2>1, CalibratedRow
  <1> HIDE DEF h
  <1>4. Numbered({h[f] : f \in findings})
    BY <1>3, NumberedChange DEF FindingRows, Rewritten
  <1>5. QED
    BY <1>2, <1>3, <1>4

\* The rivals that are left when attempt a has saved.
RivalsAfter(a) ==
    LET first == {f.id : f \in {g \in findings : g.band = None /\ g.id \in PickedUp(a)}}
    IN  {p \in rivals \cup (first \X Attempts) : p[2] # a /\ p[1] \in PickedUp(p[2])}

\* Either calibration: an attempt gives its band, which is warranted, to what
\* it has picked up, and has nothing left to save.
Saves(a, band, h) ==
    /\ Warranted(band) /\ rivals' = RivalsAfter(a)
    /\ findings' = {h[f] : f \in findings} /\ Numbered(findings')
    /\ \A f \in findings :
          /\ Rewritten(f, h[f]) /\ (h[f].band = None <=> h[f].confidence = None)
          /\ h[f].band = IF f.id \in PickedUp(a) THEN band ELSE f.band
    /\ Len(strays') = Len(strays)
    /\ analysis'.ids = IF a = 0 THEN {} ELSE analysis.ids
    /\ \A b \in 1..Len(strays) : strays'[b].ids = IF b = a THEN {} ELSE strays[b].ids

LEMMA AttemptSaves ==
    ASSUME RunFields, FindingRows, BandEarned, StraysTyped, SaveCalibrated \/ StrayCalibration
    PROVE  \E a, band, h : a \in Attempts /\ Saves(a, band, h) /\ (SaveCalibrated => a = 0)
  <1>0. Len(strays) \in Nat /\ 0 \in Attempts /\ 1..Len(strays) \subseteq Attempts
    BY DEF StraysTyped, Attempts
  <1>1. ASSUME NEW a \in Attempts, NEW band, Warranted(band), rivals' = RivalsAfter(a),
               findings' = {Calibrated(f, PickedUp(a), band) : f \in findings},
               Len(strays') = Len(strays),
               analysis'.ids = IF a = 0 THEN {} ELSE analysis.ids,
               \A b \in 1..Len(strays) :
                   strays'[b].ids = IF b = a THEN {} ELSE strays[b].ids
        PROVE  \E h : Saves(a, band, h)
    <2>1. PICK h :
              /\ {Calibrated(f, PickedUp(a), band) : f \in findings} = {h[f] : f \in findings}
              /\ Numbered({h[f] : f \in findings})
              /\ \A f \in findings :
                    /\ Rewritten(f, h[f]) /\ (h[f].band = None <=> h[f].confidence = None)
                    /\ h[f].band = IF f.id \in PickedUp(a) THEN band ELSE f.band
      BY <1>1, CalibratedRows DEF Warranted
    <2>2. QED
      BY <1>1, <2>1 DEF Saves
  <1>2. CASE SaveCalibrated
    <2>1. PICK band : band = analysis.band
      OBVIOUS
    <2>2. Warranted(band)
      BY <2>1 DEF BandEarned
    <2>3. /\ rivals' = RivalsAfter(0) /\ strays' = strays
          /\ findings' = {Calibrated(f, PickedUp(0), band) : f \in findings}
      <3>1. SaveBands(0, analysis.band) /\ strays' = strays
        BY <1>2 DEF SaveCalibrated
      <3>2. /\ rivals' = RivalsAfter(0)
            /\ findings' = {Calibrated(f, PickedUp(0), analysis.band) : f \in findings}
        BY <3>1 DEF SaveBands, RivalsAfter
      <3>3. QED
        BY <2>1, <3>1, <3>2
    <2>4. analysis'.ids = {}
      BY <1>2, AfterSave
    <2>5. \E h : Saves(0, band, h)
      BY <1>0, <1>1, <2>2, <2>3, <2>4
    <2>6. QED
      BY <1>0, <2>5
  <1>3. CASE StrayCalibration
    <2>1. PICK a \in 1..Len(strays) : SaveBands(a, strays[a].band) /\ Over(a)
      BY <1>3 DEF StrayCalibration, StraysTyped
    <2>2. PICK band : band = strays[a].band
      OBVIOUS
    <2>3. Warranted(band) /\ a \in Attempts /\ a # 0
      BY <1>0, <2>2 DEF StraysTyped
    <2>4. /\ rivals' = RivalsAfter(a) /\ analysis' = analysis
          /\ findings' = {Calibrated(f, PickedUp(a), band) : f \in findings}
      BY <1>3, <2>1, <2>2 DEF StrayCalibration, SaveBands, RivalsAfter
    <2>5. /\ Len(strays') = Len(strays)
          /\ \A b \in 1..Len(strays) :
                 strays'[b].ids = IF b = a THEN {} ELSE strays[b].ids
      BY <2>1, StrayOver
    <2>6. \E h : Saves(a, band, h)
      BY <1>1, <2>3, <2>4, <2>5
    <2>7. ~SaveCalibrated
      <3>1. SaveCalibrated => strays' = strays /\ rivals' = RivalsAfter(0)
        BY DEF SaveCalibrated, SaveBands, RivalsAfter
      <3>2. SaveCalibrated => analysis'.step = "rootcause" /\ analysis.step = "saving"
        BY AfterSave DEF SaveCalibrated
      <3>3. QED
        BY <2>4, <3>2
    <2>8. QED
      BY <2>3, <2>6, <2>7
  <1>4. QED
    BY <1>2, <1>3

\* A label changes the status of one finding.
LEMMA LabelledFindings ==
    ASSUME FindingRows, LabelFinding
    PROVE  \E h :
               /\ findings' = {h[f] : f \in findings} /\ Numbered(findings')
               /\ \A f \in findings :
                     /\ Rewritten(f, h[f]) /\ h[f].band = f.band
                     /\ h[f].confidence = f.confidence
  <1>1. PICK f \in findings, a \in Label :
            findings' = (findings \ {f}) \cup {[f EXCEPT !.status = a]}
    BY DEF LabelFinding, Label
  <1> DEFINE h == [x \in findings |-> IF x = f THEN [f EXCEPT !.status = a] ELSE x]
  <1>2. findings' = {h[x] : x \in findings}
    <2>1. h[f] = [f EXCEPT !.status = a] /\ \A x \in findings \ {f} : h[x] = x
      OBVIOUS
    <2> HIDE DEF h
    <2>2. QED
      BY <1>1, <2>1
  <1>3. ASSUME NEW x \in findings
        PROVE  Rewritten(x, h[x]) /\ h[x].band = x.band /\ h[x].confidence = x.confidence
    <2>1. x \in FindingRow /\ IsBundle(x)
      BY DEF FindingRows
    <2>2. CASE x # f
      BY <2>1, <2>2 DEF Rewritten
    <2>3. CASE x = f
      <3> DEFINE g == [f EXCEPT !.status = a]
      <3>1. h[x] = g
        BY <2>3
      <3>2. /\ g.id = f.id /\ g.layer = f.layer /\ g.row = f.row /\ g.run = f.run
            /\ g.model = f.model /\ g.scorer = f.scorer /\ g.layers = f.layers
            /\ g.top = f.top /\ g.rules = f.rules /\ g.band = f.band
            /\ g.confidence = f.confidence /\ g \in FindingRow
        BY <2>1, <2>3 DEF FindingRow, Label
      <3> HIDE DEF g, h
      <3>3. IsBundle(g)
        BY <2>1, <2>3, <3>2 DEF IsBundle
      <3>4. QED
        BY <2>3, <3>1, <3>2, <3>3 DEF Rewritten
    <2>4. QED
      BY <2>2, <2>3
  <1> HIDE DEF h
  <1>4. Numbered(findings')
    <2>1. Numbered({h[x] : x \in findings})
      BY <1>3, NumberedChange DEF FindingRows, Rewritten
    <2>2. QED
      BY <1>2, <2>1
  <1>5. QED
    BY <1>2, <1>3, <1>4

-----------------------------------------------------------------------------
(* What the findings of a building keep                                      *)

LEMMA FindingsCases ==
    ASSUME [Next]_vars
    PROVE  \/ RuleEngineActivity \/ StrayRuleEngine \/ SaveCalibrated \/ StrayCalibration
           \/ RootCauseActivity \/ LabelFinding \/ findings' = findings
  BY DEF Next, Activity, Stray, Training, BeginStray, StartAnalysis, StlDetectionActivity,
         FeatureAssemblyActivity, MlEnsembleActivity, SelectUncalibrated, StartTraining,
         SkipMember, StartRun, FinishRun, CrashRun, ClearColdStart, ReadingArrives,
         RequestReport, FinishReport, vars

\* Runs are numbered upwards, and a run in progress is started only once.
LEMMA RunGrows ==
    ASSUME RunFields, [Next]_vars
    PROVE  /\ analysis'.run \in Nat
           /\ \/ /\ StartAnalysis
                 /\ analysis'.run = analysis.run + 1 /\ analysis'.stl = analysis.stl
              \/ /\ analysis'.run = analysis.run
                 /\ analysis'.step # "idle" => analysis.step # "idle"
                 /\ analysis.step = "idle" => analysis'.stl = analysis.stl
                 /\ StlDetectionActivity \/ analysis'.stl = analysis.stl
  <1>0. analysis.run \in Nat
    BY DEF RunFields
  <1>1. CASE StartAnalysis
    BY <1>0, <1>1, AfterStart
  <1>2. CASE RuleEngineActivity
    BY <1>0, <1>2, AfterRules DEF RuleEngineActivity, RunFields
  <1>3. CASE StlDetectionActivity
    <2>1. analysis.step # "idle"
      BY <1>3 DEF StlDetectionActivity, RunFields
    <2>2. QED
      BY <1>0, <1>3, <2>1, AfterStl
  <1>4. CASE FeatureAssemblyActivity
    BY <1>0, <1>4, AfterAssembly DEF FeatureAssemblyActivity
  <1>5. CASE MlEnsembleActivity
    BY <1>0, <1>5, AfterEnsemble DEF MlEnsembleActivity
  <1>6. CASE SelectUncalibrated \/ SaveCalibrated
    BY <1>0, <1>6, AfterSelect, AfterSave DEF SelectUncalibrated, SaveCalibrated
  <1>7. CASE RootCauseActivity
    BY <1>0, <1>7, AfterRootCause
  <1>8. CASE Elsewhere
    BY <1>0, <1>8 DEF Elsewhere
  <1>9. QED
    BY <1>1, <1>2, <1>3, <1>4, <1>5, <1>6, <1>7, <1>8, StepCases DEF Activity

\* Where a stored finding comes from: it was there, with the same row, run and
\* models, or a rule engine or the run's attribution has added it.
Descends(g, f) ==
    /\ g.id = f.id /\ g.layer = f.layer /\ g.row = f.row /\ g.run = f.run
    /\ g.model = f.model /\ g.scorer = f.scorer

AddedByRules(g) ==
    g.layer = "domain_rule" /\ g.band = None /\ g.id > Cardinality(findings)

AddedByRootCause(g) ==
    /\ g.run = analysis.run /\ g.row \in UsableRows(analysis.features)
    /\ g.band = analysis.band /\ g.band # None /\ g.id > Cardinality(findings)
    /\ Loads(registry["isolation_forest"])
    /\ g.model = Len(registry["isolation_forest"]) /\ g.scorer = analysis.scorer

LEMMA FindingsStep ==
    ASSUME Tables, RunFields, FindingRows, Registered, FeaturesAgree, FlaggedAreUsable,
           BandEarned, StraysTyped, ScorerRegistered, [Next]_vars
    PROVE  /\ FindingRows'
           /\ \A g \in findings' :
                 \/ \E f \in findings :
                       Descends(g, f) /\ (g.band = f.band \/ Warranted(g.band))
                 \/ (RuleEngineActivity \/ StrayRuleEngine) /\ AddedByRules(g)
                 \/ RootCauseActivity /\ AddedByRootCause(g)
           /\ \A f \in findings : \E g \in findings' : g.id = f.id
  <1>1. analysis.run \in Nat /\ analysis'.run \in Nat /\ analysis.run <= analysis'.run
    BY RunGrows DEF RunFields
  <1>2. \A f \in findings :
            /\ f \in FindingRow /\ IsBundle(f) /\ (f.band = None <=> f.confidence = None)
            /\ f.run \in Nat /\ f.run <= analysis'.run
    BY <1>1 DEF FindingRows, FindingRow
  <1>3. CASE RuleEngineActivity \/ StrayRuleEngine
    <2>1. PICK added, run :
              /\ findings' = findings \cup added /\ Numbered(findings')
              /\ \A f \in added : NewRuleFinding(f, run)
              /\ run \in {0, analysis.run}
      BY <1>3, RulesInsert
    <2>2. \A f \in added :
              /\ f \in FindingRow /\ IsBundle(f) /\ f.run <= analysis'.run
              /\ f.band = None /\ f.confidence = None /\ AddedByRules(f)
      BY <1>1, <2>1 DEF NewRuleFinding, AddedByRules
    <2>3. FindingRows'
      BY <1>2, <2>1, <2>2 DEF FindingRows
    <2>4. \A f \in findings : Descends(f, f)
      BY DEF Descends
    <2>5. QED
      BY <1>3, <2>1, <2>2, <2>3, <2>4
  <1>4. CASE SaveCalibrated \/ StrayCalibration
    <2>1. PICK a, band, h : a \in Attempts /\ Saves(a, band, h)
      BY <1>4, AttemptSaves
    <2>2. /\ findings' = {h[f] : f \in findings} /\ Numbered(findings')
          /\ \A f \in findings :
                /\ Rewritten(f, h[f]) /\ (h[f].band = None <=> h[f].confidence = None)
                /\ h[f].band = f.band \/ Warranted(h[f].band)
      BY <2>1 DEF Saves
    <2>3. FindingRows'
      BY <1>2, <2>2 DEF FindingRows, Rewritten
    <2>4. \A f \in findings : Descends(h[f], f) /\ h[f].id = f.id
      BY <2>2 DEF Rewritten, Descends
    <2>5. QED
      BY <2>2, <2>3, <2>4
  <1>5. CASE RootCauseActivity
    <2>1. PICK added :
              /\ findings' = findings \cup added /\ Numbered(findings')
              /\ \A f \in added :
                    /\ f \in FindingRow /\ IsBundle(f) /\ f.run = analysis.run
                    /\ f.row \in UsableRows(analysis.features)
                    /\ f.band = analysis.band /\ f.band # None /\ f.confidence # None
                    /\ Loads(registry["isolation_forest"])
                    /\ f.model = Len(registry["isolation_forest"])
                    /\ f.scorer = analysis.scorer /\ f.id > Cardinality(findings)
      BY <1>5, MlFindings
    <2>2. FindingRows'
      BY <1>1, <1>2, <2>1 DEF FindingRows
    <2>3. \A f \in added : AddedByRootCause(f)
      BY <2>1 DEF AddedByRootCause
    <2>4. \A f \in findings : Descends(f, f)
      BY DEF Descends
    <2>5. QED
      BY <1>5, <2>1, <2>2, <2>3, <2>4
  <1>6. CASE LabelFinding
    <2>1. PICK h :
              /\ findings' = {h[f] : f \in findings} /\ Numbered(findings')
              /\ \A f \in findings :
                    /\ Rewritten(f, h[f]) /\ h[f].band = f.band
                    /\ h[f].confidence = f.confidence
      BY <1>6, LabelledFindings
    <2>2. FindingRows'
      BY <1>2, <2>1 DEF FindingRows, Rewritten
    <2>3. \A f \in findings : Descends(h[f], f) /\ h[f].id = f.id
      BY <2>1 DEF Rewritten, Descends
    <2>4. QED
      BY <2>1, <2>2, <2>3
  <1>7. CASE findings' = findings
    BY <1>2, <1>7 DEF FindingRows, Descends
  <1>8. QED
    BY <1>3, <1>4, <1>5, <1>6, <1>7, FindingsCases

-----------------------------------------------------------------------------
(* The rest of the invariant                                                 *)

LEMMA TypeInvKept ==
    ASSUME TypeInv, ScorerRegistered, [Next]_vars
    PROVE  TypeInv' /\ ForestsKept
  <1> USE DEF TypeInv
  <1>1. Tables' /\ RunFields'
    BY TablesKept, RunFieldsKept
  <1>2. Registered' /\ ForestsKept
    BY RegistryKept
  <1>3. FiresHandedOn' /\ ResidualsHandedOn'
    BY HandedOnKept
  <1>4. FeatureStore' /\ FeaturesAgree' /\ FlaggedAreUsable'
    BY FeatureStoreKept, FeaturesAgreeKept, FlaggedAreUsableKept
  <1>5. BandEarned' /\ StraysTyped' /\ FindingRows'
    BY BandEarnedKept, StraysKept, FindingsStep
  <1>6. QED
    BY <1>1, <1>2, <1>3, <1>4, <1>5

\* A finding of the ensemble is new, with the attribution of its row, or was stored.
LEMMA OldOrAttributed ==
    ASSUME TypeInv, ScorerRegistered, [Next]_vars, NEW g \in findings', g.layer = "ml_ensemble"
    PROVE  \/ \E f \in findings : Descends(g, f)
           \/ RootCauseActivity /\ AddedByRootCause(g)
  <1>1. Tables /\ RunFields /\ FindingRows /\ Registered /\ FeaturesAgree
        /\ FlaggedAreUsable /\ BandEarned /\ StraysTyped
    BY DEF TypeInv
  <1>2. ~AddedByRules(g)
    BY DEF AddedByRules
  <1>3. QED
    BY <1>1, <1>2, FindingsStep

LEMMA NotYetAccusedKept ==
    ASSUME TypeInv, ScorerRegistered, NotYetAccused, [Next]_vars
    PROVE  NotYetAccused'
  <1> SUFFICES ASSUME analysis'.step # "idle", NEW g \in findings', g.layer = "ml_ensemble"
               PROVE  g.run < analysis'.run
    BY DEF NotYetAccused
  <1>1. RunFields /\ FindingRows
    BY DEF TypeInv
  <1>2. ~RootCauseActivity
    BY <1>1, AfterRootCause
  <1>3. PICK f \in findings : Descends(g, f)
    BY <1>2, OldOrAttributed
  <1>4. f.run = g.run /\ f.layer = "ml_ensemble" /\ f.run <= analysis.run /\ f.run \in Nat
    BY <1>1, <1>3 DEF Descends, FindingRows, FindingRow
  <1>5. analysis.run \in Nat
    BY <1>1 DEF RunFields
  <1>6. CASE analysis'.run = analysis.run + 1
    BY <1>4, <1>5, <1>6
  <1>7. CASE analysis'.run = analysis.run /\ analysis.step # "idle"
    BY <1>4, <1>7 DEF NotYetAccused
  <1>8. QED
    BY <1>1, <1>6, <1>7, RunGrows

LEMMA LowQualityKept ==
    ASSUME TypeInv, ScorerRegistered, NotYetAccused, LowQualityNeverAccused, [Next]_vars
    PROVE  LowQualityNeverAccused'
  <1> SUFFICES ASSUME NEW g \in findings', g.layer = "ml_ensemble", g.run = analysis'.run,
                      g.row \in DOMAIN analysis'.stl
               PROVE  ~analysis'.stl[g.row].low
    BY DEF LowQualityNeverAccused
  <1>1. RunFields /\ FindingRows /\ FeaturesAgree
    BY DEF TypeInv
  <1>2. CASE RootCauseActivity /\ g.row \in UsableRows(analysis.features)
    <2>1. analysis.step = "rootcause" /\ analysis'.stl = analysis.stl
      BY <1>1, <1>2, AfterRootCause DEF RootCauseActivity
    <2>2. g.row \in DOMAIN analysis.features /\ ~analysis.features[g.row].low
      BY <1>2 DEF UsableRows
    <2>3. analysis.features[g.row].low = analysis.stl[g.row].low
      BY <1>1, <2>1, <2>2 DEF FeaturesAgree
    <2>4. QED
      BY <2>1, <2>2, <2>3
  <1>3. ASSUME NEW f \in findings, Descends(g, f)
        PROVE  ~analysis'.stl[g.row].low
    <2>1. /\ f.run = g.run /\ f.row = g.row /\ f.layer = "ml_ensemble"
          /\ f.run <= analysis.run /\ f.run \in Nat /\ analysis.run \in Nat
      BY <1>1, <1>3 DEF Descends, FindingRows, FindingRow, RunFields
    <2>2. analysis'.run = analysis.run
      <3>1. analysis'.run # analysis.run + 1
        BY <2>1
      <3>2. QED
        BY <1>1, <3>1, RunGrows
    <2>3. ~StlDetectionActivity
      <3>1. StlDetectionActivity => analysis.step # "idle"
        BY <1>1 DEF StlDetectionActivity, RunFields
      <3>2. analysis.step # "idle" => f.run < analysis.run
        BY <2>1 DEF NotYetAccused
      <3>3. QED
        BY <2>1, <2>2, <3>1, <3>2
    <2>4. analysis'.stl = analysis.stl
      BY <1>1, <2>3, RunGrows
    <2>5. QED
      BY <2>1, <2>2, <2>4 DEF LowQualityNeverAccused
  <1>4. QED
    BY <1>2, <1>3, OldOrAttributed DEF AddedByRootCause

LEMMA ScorerRegisteredKept ==
    ASSUME TypeInv, ScorerRegistered, [Next]_vars
    PROVE  ScorerRegistered'
  <1>1. RunFields /\ ForestsKept /\ Registered /\ Registered'
    BY TypeInvKept DEF TypeInv
  <1>2. /\ Len(registry["isolation_forest"]) \in Nat
        /\ Len(registry'["isolation_forest"]) \in Nat
        /\ Len(registry["isolation_forest"]) <= Len(registry'["isolation_forest"])
    BY <1>1 DEF Registered, Members, ForestsKept
  <1>3. ASSUME analysis'.scorer \in 0..Len(registry["isolation_forest"])
        PROVE  ScorerRegistered'
    BY <1>2, <1>3 DEF ScorerRegistered
  <1>4. 0 \in 0..Len(registry["isolation_forest"])
        /\ Len(registry["isolation_forest"]) \in 0..Len(registry["isolation_forest"])
    BY <1>2
  <1>5. CASE MlEnsembleActivity
    <2>1. analysis'.scorer \in {0, Len(registry["isolation_forest"])}
      BY <1>1, <1>5, AfterEnsemble DEF FindLatestRun
    <2>2. QED
      BY <1>3, <1>4, <2>1
  <1>6. CASE RootCauseActivity
    BY <1>1, <1>3, <1>4, <1>6, AfterRootCause
  <1>7. CASE analysis'.scorer = analysis.scorer
    BY <1>3, <1>7 DEF ScorerRegistered
  <1>8. QED
    BY <1>1, <1>5, <1>6, <1>7, AfterStart, AfterRules, AfterStl, AfterAssembly,
       AfterSelect, AfterSave, StepCases DEF Activity, Elsewhere

LEMMA ExplainedKept ==
    ASSUME TypeInv, ScorerRegistered, ExplainerNeverOlder, [Next]_vars
    PROVE  ExplainerNeverOlder'
  <1> SUFFICES ASSUME NEW g \in findings', g.layer = "ml_ensemble"
               PROVE  /\ g.model >= g.scorer
                      /\ g.model \in 1..Len(registry'["isolation_forest"])
                      /\ registry'["isolation_forest"][g.model].ready
    BY DEF ExplainerNeverOlder
  <1>1. ForestsKept /\ Registered /\ Registered'
    BY TypeInvKept DEF TypeInv
  <1>2. /\ Len(registry["isolation_forest"]) \in Nat
        /\ Len(registry'["isolation_forest"]) \in Nat
        /\ Len(registry["isolation_forest"]) <= Len(registry'["isolation_forest"])
    BY <1>1 DEF Registered, Members, ForestsKept
  <1>3. /\ g.model >= g.scorer /\ g.model \in 1..Len(registry["isolation_forest"])
        /\ registry["isolation_forest"][g.model].ready
    <2>1. CASE \E f \in findings : Descends(g, f)
      BY <2>1 DEF Descends, ExplainerNeverOlder
    <2>2. CASE /\ Loads(registry["isolation_forest"])
               /\ g.model = Len(registry["isolation_forest"])
               /\ g.scorer = analysis.scorer
      BY <1>2, <2>2 DEF Loads, Complete, FindLatestRun, ScorerRegistered
    <2>3. QED
      BY <2>1, <2>2, OldOrAttributed DEF AddedByRootCause
  <1>4. QED
    BY <1>1, <1>2, <1>3 DEF ForestsKept

LEMMA NarrowBandsKept ==
    ASSUME TypeInv, ScorerRegistered, NarrowBandsEarned, [Next]_vars
    PROVE  NarrowBandsEarned'
  <1>1. Tables /\ RunFields /\ FindingRows /\ Registered /\ FeaturesAgree
        /\ FlaggedAreUsable /\ BandEarned /\ StraysTyped
    BY DEF TypeInv
  <1>2. Earned => Earned'
    BY <1>1, EarnedKept
  <1> SUFFICES ASSUME NEW g \in findings', g.band \notin {None, WideBand}
               PROVE  Earned
    BY <1>2 DEF NarrowBandsEarned, Earned, Label
  <1>3. CASE \E f \in findings : g.band = f.band
    BY <1>3 DEF NarrowBandsEarned, Earned, Label
  <1>4. CASE Warranted(g.band)
    BY <1>4 DEF Warranted
  <1>5. CASE g.band = analysis.band
    BY <1>1, <1>5 DEF BandEarned, Warranted
  <1>6. QED
    BY <1>1, <1>3, <1>4, <1>5, FindingsStep DEF AddedByRules, AddedByRootCause

\* Nobody picks up a finding that has a band.
LEMMA PickedUpUnbanded ==
    ASSUME FindingRows, NEW f \in findings, f.id \in Uncalibrated
    PROVE  f.band = None
  <1>1. PICK g \in findings : g.confidence = None /\ g.id = f.id
    BY DEF Uncalibrated
  <1>2. QED
    BY <1>1 DEF FindingRows, Numbered

\* Steps that give no band to a stored finding, and let an attempt pick up
\* only findings without one.
LEMMA RivalsKnownCarried ==
    ASSUME FindingRows, RivalsKnown, Len(strays) \in Nat, rivals' = rivals,
           \A f \in findings : \E g \in findings' : g.id = f.id,
           \A g \in findings' :
               \/ \E f \in findings : g.id = f.id /\ (f.band = None => g.band = None)
               \/ g.id > Cardinality(findings),
           \A a \in Attempts' :
               \/ a \in Attempts /\ PickedUp(a)' \subseteq PickedUp(a)
               \/ PickedUp(a)' \subseteq Uncalibrated /\ UNCHANGED findings
    PROVE  RivalsKnown'
  <1> DEFINE held == {f.id : f \in findings}
             held2 == {f.id : f \in findings'}
  <1>1. held \subseteq held2 /\ Uncalibrated \subseteq held
    BY DEF Uncalibrated
  <1>2. Cardinality(findings) \in Nat
        /\ \A i \in held : i \in Nat /\ i <= Cardinality(findings)
    BY FS_CardinalityType DEF FindingRows, Numbered
  <1> HIDE DEF held, held2
  <1>3. ASSUME NEW a \in Attempts'
        PROVE  /\ PickedUp(a)' \subseteq held2
               /\ \A g \in findings' :
                     g.band # None /\ g.id \in PickedUp(a)' => <<g.id, a>> \in rivals'
    <2>1. CASE a \in Attempts /\ PickedUp(a)' \subseteq PickedUp(a)
      <3>1. PickedUp(a)' \subseteq held
        BY <2>1 DEF RivalsKnown, held
      <3>2. ASSUME NEW g \in findings', g.band # None, g.id \in PickedUp(a)'
            PROVE  <<g.id, a>> \in rivals'
        <4>1. ~ g.id > Cardinality(findings)
          BY <1>2, <3>1, <3>2
        <4>2. PICK f \in findings : g.id = f.id /\ f.band # None
          BY <3>2, <4>1
        <4>3. QED
          BY <2>1, <3>2, <4>2 DEF RivalsKnown
      <3>3. QED
        BY <1>1, <3>1, <3>2
    <2>2. CASE PickedUp(a)' \subseteq Uncalibrated /\ UNCHANGED findings
      <3>1. \A g \in findings : g.id \in Uncalibrated => g.band = None
        BY PickedUpUnbanded
      <3>2. QED
        BY <1>1, <2>2, <3>1
    <2>3. QED
      BY <2>1, <2>2
  <1>4. QED
    BY <1>3 DEF RivalsKnown, held2

\* The step that saves makes rivals of those that had picked up the same.
LEMMA RivalsKnownSaved ==
    ASSUME FindingRows, RivalsKnown, Len(strays) \in Nat,
           NEW a \in Attempts, NEW band, NEW h, Saves(a, band, h)
    PROVE  RivalsKnown'
  <1>1. \A b \in Attempts' :
            b \in Attempts /\ PickedUp(b)' = IF b = a THEN {} ELSE PickedUp(b)
    BY DEF Attempts, PickedUp, Saves
  <1>2. \A f \in findings : h[f] \in findings' /\ h[f].id = f.id
    BY DEF Saves, Rewritten
  <1>3. ASSUME NEW b \in Attempts'
        PROVE  PickedUp(b)' \subseteq {f.id : f \in findings'}
    BY <1>1, <1>2 DEF RivalsKnown
  <1>4. ASSUME NEW b \in Attempts', NEW g \in findings', g.band # None, g.id \in PickedUp(b)'
        PROVE  <<g.id, b>> \in rivals'
    <2>1. b \in Attempts /\ b # a /\ g.id \in PickedUp(b)
      BY <1>1, <1>4
    <2>2. PICK f \in findings : g = h[f] /\ g.id = f.id
      BY <1>2 DEF Saves
    <2>3. CASE f.band # None
      <3>1. <<f.id, b>> \in rivals
        BY <2>1, <2>2, <2>3 DEF RivalsKnown
      <3>2. QED
        BY <2>1, <2>2, <3>1 DEF Saves, RivalsAfter
    <2>4. CASE f.band = None
      <3>1. f.id \in PickedUp(a)
        BY <1>4, <2>2, <2>4 DEF Saves
      <3>2. f.id \in {x.id : x \in {y \in findings : y.band = None /\ y.id \in PickedUp(a)}}
        BY <2>4, <3>1
      <3>3. QED
        BY <2>1, <2>2, <3>2 DEF Saves, RivalsAfter
    <2>5. QED
      BY <2>3, <2>4
  <1>5. QED
    BY <1>3, <1>4 DEF RivalsKnown

LEMMA RivalsKnownKept ==
    ASSUME TypeInv, ScorerRegistered, RivalsKnown, [Next]_vars
    PROVE  RivalsKnown'
  <1>1. Tables /\ RunFields /\ FindingRows /\ Registered /\ FeaturesAgree
        /\ FlaggedAreUsable /\ BandEarned /\ StraysTyped /\ Len(strays) \in Nat
    BY DEF TypeInv, StraysTyped
  <1>2. \A f \in findings : \E g \in findings' : g.id = f.id
    BY <1>1, FindingsStep
  <1>3. CASE SaveCalibrated \/ StrayCalibration
    BY <1>1, <1>3, AttemptSaves, RivalsKnownSaved
  <1>4. CASE ~(SaveCalibrated \/ StrayCalibration)
    <2>1. rivals' = rivals
      BY <1>4
      DEF Next, Activity, Stray, Training, BeginStray, StrayRuleEngine, StartAnalysis,
          RuleEngineActivity, StlDetectionActivity, FeatureAssemblyActivity,
          MlEnsembleActivity, SelectUncalibrated, RootCauseActivity, StartTraining,
          SkipMember, StartRun, FinishRun, CrashRun, LabelFinding, ClearColdStart,
          ReadingArrives, RequestReport, FinishReport, vars
    <2>2. ASSUME NEW g \in findings'
          PROVE  \/ \E f \in findings : g.id = f.id /\ (f.band = None => g.band = None)
                 \/ g.id > Cardinality(findings)
      <3>1. CASE RuleEngineActivity \/ StrayRuleEngine
        <4>1. PICK added, run : /\ findings' = findings \cup added
                                /\ \A f \in added : NewRuleFinding(f, run)
          BY <1>1, <3>1, RulesInsert
        <4>2. QED
          BY <4>1 DEF NewRuleFinding
      <3>2. CASE RootCauseActivity
        <4>1. PICK added : /\ findings' = findings \cup added
                           /\ \A f \in added : f.id > Cardinality(findings)
          BY <1>1, <3>2, MlFindings DEF TypeInv
        <4>2. QED
          BY <4>1
      <3>3. CASE LabelFinding
        <4>1. PICK h : /\ findings' = {h[f] : f \in findings}
                       /\ \A f \in findings : Rewritten(f, h[f]) /\ h[f].band = f.band
          BY <1>1, <3>3, LabelledFindings
        <4>2. QED
          BY <4>1 DEF Rewritten
      <3>4. CASE findings' = findings
        BY <3>4
      <3>5. QED
        BY <1>4, <3>1, <3>2, <3>3, <3>4, FindingsCases
    <2>3. analysis'.ids = analysis.ids \/ SelectUncalibrated
      BY <1>1, <1>4, AfterStart, AfterRules, AfterStl, AfterAssembly, AfterEnsemble,
         AfterRootCause, StepCases DEF Activity, Elsewhere
    <2>4. \/ strays' = strays
          \/ StrayRuleEngine
          \/ BeginStray
      BY <1>4
      DEF Next, Activity, Stray, Training, StartAnalysis, RuleEngineActivity,
          StlDetectionActivity, FeatureAssemblyActivity, MlEnsembleActivity,
          SelectUncalibrated, RootCauseActivity, StartTraining, SkipMember, StartRun,
          FinishRun, CrashRun, LabelFinding, ClearColdStart, ReadingArrives, RequestReport,
          FinishReport, vars
    <2>5. ASSUME NEW a \in Attempts'
          PROVE  \/ a \in Attempts /\ PickedUp(a)' \subseteq PickedUp(a)
                 \/ PickedUp(a)' \subseteq Uncalibrated /\ UNCHANGED findings
      <3>1. CASE a = 0
        <4>1. CASE SelectUncalibrated
          <5>1. analysis'.ids = Uncalibrated /\ UNCHANGED findings
            BY <1>1, <4>1, AfterSelect DEF SelectUncalibrated
          <5>2. QED
            BY <3>1, <5>1 DEF PickedUp
        <4>2. CASE analysis'.ids = analysis.ids
          BY <1>1, <3>1, <4>2 DEF PickedUp, Attempts
        <4>3. QED
          BY <2>3, <4>1, <4>2
      <3>2. CASE a # 0 /\ strays' = strays
        BY <3>2 DEF PickedUp, Attempts
      <3>3. CASE a # 0 /\ StrayRuleEngine
        <4>1. PICK b \in 1..Len(strays) : Over(b)
          BY <3>3 DEF StrayRuleEngine, StraysTyped
        <4>2. /\ Len(strays') = Len(strays) /\ strays'[b].ids = {}
              /\ \A c \in 1..Len(strays) : c # b => strays'[c] = strays[c]
          BY <1>1, <4>1, StrayOver
        <4>3. a \in 1..Len(strays) /\ a \in Attempts
          BY <1>1, <3>3, <4>2 DEF Attempts
        <4>4. QED
          BY <3>3, <4>2, <4>3 DEF PickedUp
      <3>4. CASE a # 0 /\ BeginStray
        <4>1. PICK new \in StrayRecord :
                  /\ Len(strays') = Len(strays) + 1 /\ strays'[Len(strays) + 1] = new
                  /\ \A b \in 1..Len(strays) : strays'[b] = strays[b]
                  /\ new.ids \in {{}, Uncalibrated}
          BY <1>1, <3>4, StrayBegun
        <4>2. a = Len(strays) + 1 \/ (a \in 1..Len(strays) /\ a \in Attempts)
          BY <1>1, <3>4, <4>1 DEF Attempts
        <4>3. UNCHANGED findings
          BY <3>4 DEF BeginStray
        <4>4. QED
          BY <3>4, <4>1, <4>2, <4>3 DEF PickedUp
      <3>5. QED
        BY <2>4, <3>1, <3>2, <3>3, <3>4
    <2>6. QED
      BY <1>1, <1>2, <2>1, <2>2, <2>5, RivalsKnownCarried
  <1>5. QED
    BY <1>3, <1>4

LEMMA UncalibratedRunsKept ==
    ASSUME TypeInv, ScorerRegistered, UncalibratedRuns, [Next]_vars
    PROVE  UncalibratedRuns'
  <1>1. Tables /\ RunFields /\ FindingRows /\ Registered /\ FeaturesAgree
        /\ FlaggedAreUsable /\ BandEarned /\ StraysTyped
    BY DEF TypeInv
  <1> SUFFICES ASSUME NEW g \in findings', g.band = None
               PROVE  /\ g.run \in {0, MidRun'}
                      /\ analysis'.step = "saving" /\ g.run # 0 => g.id \in analysis'.ids
    BY DEF UncalibratedRuns
  <1>2. ASSUME NEW f \in findings, f.band = None, MidRun \in {0, MidRun'},
               f.run = g.run, f.id = g.id,
               analysis'.step = "saving" =>
                   analysis.step = "saving" /\ analysis'.ids = analysis.ids
        PROVE  /\ g.run \in {0, MidRun'}
               /\ analysis'.step = "saving" /\ g.run # 0 => g.id \in analysis'.ids
    BY <1>2 DEF UncalibratedRuns
  <1>3. CASE StartAnalysis
    <2>1. MidRun = 0 /\ findings' = findings /\ analysis'.step = "detect"
      BY <1>1, <1>3, AfterStart DEF StartAnalysis, MidRun
    <2>2. QED
      BY <1>2, <2>1
  <1>4. CASE RuleEngineActivity
    <2>1. MidRun = 0 /\ MidRun' = analysis.run /\ analysis'.step # "saving"
      BY <1>1, <1>4, AfterRules DEF MidRun, RuleEngineActivity, AfterDetect
    <2>2. PICK added, run :
              /\ findings' = findings \cup added /\ run \in {0, analysis.run}
              /\ \A f \in added : NewRuleFinding(f, run)
      BY <1>1, <1>4, RulesInsert
    <2>3. CASE g \in findings
      BY <1>2, <2>1, <2>3
    <2>4. CASE g \in added
      BY <2>1, <2>2, <2>4 DEF NewRuleFinding
    <2>5. QED
      BY <2>2, <2>3, <2>4
  <1>5. CASE StlDetectionActivity
    <2>1. /\ analysis.step = "detect" /\ analysis'.step # "saving" /\ findings' = findings
          /\ MidRun' = MidRun
      BY <1>1, <1>5, AfterStl DEF StlDetectionActivity, RunFields, MidRun, AfterDetect
    <2>2. QED
      BY <1>2, <2>1
  <1>6. CASE FeatureAssemblyActivity
    <2>1. MidRun' = MidRun /\ analysis'.step # "saving" /\ findings' = findings
      BY <1>1, <1>6, AfterAssembly DEF FeatureAssemblyActivity, MidRun
    <2>2. QED
      BY <1>2, <2>1
  <1>7. CASE MlEnsembleActivity
    <2>1. MidRun' = MidRun /\ analysis'.step # "saving" /\ findings' = findings
      BY <1>1, <1>7, AfterEnsemble DEF MlEnsembleActivity, MidRun
    <2>2. QED
      BY <1>2, <2>1
  <1>8. CASE SelectUncalibrated
    <2>1. MidRun' = MidRun /\ analysis'.ids = Uncalibrated /\ findings' = findings
      BY <1>1, <1>8, AfterSelect DEF SelectUncalibrated, MidRun
    <2>2. g \in findings /\ g.confidence = None /\ g.id \in Uncalibrated
      BY <1>1, <2>1 DEF FindingRows, Uncalibrated
    <2>3. QED
      BY <2>1, <2>2 DEF UncalibratedRuns
  <1>9. CASE SaveCalibrated
    <2>1. PICK a, band, h : a \in Attempts /\ Saves(a, band, h) /\ a = 0
      BY <1>1, <1>9, AttemptSaves
    <2>2. PICK f \in findings : g = h[f]
      BY <2>1 DEF Saves
    <2>3. /\ f.run = g.run /\ g.band = IF f.id \in analysis.ids THEN band ELSE f.band
          /\ band # None
      BY <2>1, <2>2, AnalysisAssumption
      DEF Saves, Rewritten, PickedUp, Warranted, ConfidenceBand
    <2>4. f.band = None /\ f.id \notin analysis.ids
      BY <2>3
    <2>5. analysis.step = "saving" /\ analysis'.step = "rootcause"
      BY <1>1, <1>9, AfterSave DEF SaveCalibrated
    <2>6. QED
      BY <2>3, <2>4, <2>5 DEF UncalibratedRuns
  <1>10. CASE RootCauseActivity
    <2>1. PICK added : /\ findings' = findings \cup added
                       /\ \A f \in added : f.band # None
      BY <1>1, <1>10, MlFindings DEF TypeInv
    <2>2. MidRun = 0 /\ analysis'.step = "idle"
      BY <1>1, <1>10, AfterRootCause DEF RootCauseActivity, MidRun
    <2>3. QED
      BY <1>2, <2>1, <2>2
  <1>11. CASE Elsewhere
    <2>1. MidRun' = MidRun /\ analysis' = analysis
      BY <1>11 DEF Elsewhere, MidRun
    <2>2. CASE StrayRuleEngine
      <3>1. PICK added, run :
                /\ findings' = findings \cup added
                /\ \A f \in added : NewRuleFinding(f, run)
                /\ RuleEngineActivity \/ run = 0
        BY <1>1, <2>2, RulesInsert
      <3>2. ~RuleEngineActivity
        BY <1>1, <2>1, AfterRules DEF RuleEngineActivity
      <3>3. CASE g \in findings
        BY <1>2, <2>1, <3>3
      <3>4. CASE g \in added
        <4>1. g.run = 0
          BY <3>1, <3>2, <3>4 DEF NewRuleFinding
        <4>2. QED
          BY <4>1
      <3>5. QED
        BY <3>1, <3>3, <3>4
    <2>3. CASE StrayCalibration
      <3>1. PICK a, band, h : a \in Attempts /\ Saves(a, band, h)
        BY <1>1, <2>3, AttemptSaves
      <3>2. PICK f \in findings : g = h[f]
        BY <3>1 DEF Saves
      <3>3. f.run = g.run /\ f.id = g.id /\ (g.band = band \/ g.band = f.band) /\ band # None
        BY <3>1, <3>2, AnalysisAssumption DEF Saves, Rewritten, Warranted, ConfidenceBand
      <3>4. QED
        BY <1>2, <2>1, <3>3
    <2>4. CASE LabelFinding
      <3>1. PICK h : /\ findings' = {h[f] : f \in findings}
                     /\ \A f \in findings : Rewritten(f, h[f]) /\ h[f].band = f.band
        BY <1>1, <2>4, LabelledFindings
      <3>2. PICK f \in findings : g = h[f]
        BY <3>1
      <3>3. QED
        BY <1>2, <2>1, <3>1, <3>2 DEF Rewritten
    <2>5. CASE findings' = findings
      BY <1>2, <2>1, <2>5
    <2>6. QED
      BY <1>11, <2>2, <2>3, <2>4, <2>5
      DEF Elsewhere, Stray, BeginStray, Training, StartTraining, SkipMember, StartRun,
          FinishRun, CrashRun, ClearColdStart, ReadingArrives, RequestReport, FinishReport,
          vars
  <1>12. QED
    BY <1>3, <1>4, <1>5, <1>6, <1>7, <1>8, <1>9, <1>10, <1>11, StepCases DEF Activity

LEMMA ReportReadsKept ==
    ASSUME TypeInv, ScorerRegistered, UncalibratedRuns, ReportReads, [Next]_vars
    PROVE  ReportReads'
  <1>1. Tables /\ RunFields /\ FindingRows /\ Registered /\ FeaturesAgree
        /\ FlaggedAreUsable /\ BandEarned /\ StraysTyped
    BY DEF TypeInv
  <1>2. \A f \in findings : \E g \in findings' : g.id = f.id
    BY <1>1, FindingsStep
  <1>3. CASE RequestReport
    <2> DEFINE open == {f \in findings : f.status = "open"}
    <2>1. /\ report' = [report EXCEPT !.requests = @ + 1, !.step = "scenarios",
                                      !.open = open, !.midRun = MidRun]
          /\ findings' = findings
      BY <1>3 DEF RequestReport
    <2>2. open \subseteq findings
      OBVIOUS
    <2> HIDE DEF open
    <2>3. report' = [step |-> "scenarios", requests |-> report.requests + 1,
                     open |-> open, midRun |-> MidRun,
                     incidents |-> report.incidents]
      BY <2>1 DEF ReportReads
    <2>4. /\ report'.step = "scenarios" /\ report'.open = open
          /\ report'.midRun = MidRun
          /\ report' = [step |-> report'.step, requests |-> report'.requests,
                        open |-> report'.open, midRun |-> report'.midRun,
                        incidents |-> report'.incidents]
      BY <2>3
    <2>5. \A f \in findings : f.band = None => f.run \in {0, MidRun}
      BY DEF UncalibratedRuns
    <2>6. QED
      BY <1>1, <2>1, <2>2, <2>4, <2>5 DEF ReportReads, FindingRows
  <1>4. CASE FinishReport
    <2>1. PICK some : report' = [report EXCEPT !.step = "idle", !.open = {}, !.midRun = 0,
                                               !.incidents = some]
      BY <1>4 DEF FinishReport
    <2>2. report' = [step |-> "idle", requests |-> report.requests, open |-> {},
                     midRun |-> 0, incidents |-> some]
      BY <2>1 DEF ReportReads
    <2>3. QED
      BY <2>2 DEF ReportReads
  <1>5. CASE report' = report
    BY <1>2, <1>5 DEF ReportReads
  <1>6. QED
    BY <1>3, <1>4, <1>5
    DEF Next, Activity, Stray, Training, BeginStray, StrayRuleEngine, StrayCalibration,
        StartAnalysis, RuleEngineActivity, StlDetectionActivity,
        FeatureAssemblyActivity, MlEnsembleActivity, SelectUncalibrated, SaveCalibrated,
        RootCauseActivity, StartTraining, SkipMember, StartRun, FinishRun, CrashRun,
        LabelFinding, ClearColdStart, ReadingArrives, vars

LEMMA StepInv ==
    ASSUME IInv, [Next]_vars
    PROVE  IInv'
  <1> USE DEF IInv
  <1>1. TypeInv'
    BY TypeInvKept
  <1>2. NotYetAccused' /\ LowQualityNeverAccused'
    BY NotYetAccusedKept, LowQualityKept
  <1>3. ScorerRegistered' /\ ExplainerNeverOlder' /\ NarrowBandsEarned'
    BY ScorerRegisteredKept, ExplainedKept, NarrowBandsKept
  <1>4. RivalsKnown' /\ UncalibratedRuns' /\ ReportReads'
    BY RivalsKnownKept, UncalibratedRunsKept, ReportReadsKept
  <1>5. QED
    BY <1>1, <1>2, <1>3, <1>4

LEMMA InitInv ==
    ASSUME Init
    PROVE  IInv
  <1>1. PICK d \in InitialData :
            db = d.db /\ calendar = d.calendar /\ findings = d.findings /\ labels = d.labels
    BY DEF Init
  <1>2. /\ IsFiniteSet(DOMAIN db) /\ DOMAIN db \subseteq Row
        /\ \A r \in DOMAIN db : db[r] \in Readings
        /\ \A x \in DOMAIN calendar : calendar[x] \in DayTypes
        /\ labels \in Seq(Label)
        /\ findings \subseteq FindingRow /\ IsFiniteSet(findings)
        /\ \A f \in findings :
              /\ f.id <= Cardinality(findings)
              /\ f.layers = {"domain_rule"} /\ f.layer = "domain_rule" /\ f.run = 0
              /\ f.band = WideBand /\ f.confidence = 100
        /\ \A f, g \in findings : f.id = g.id => f = g
    BY <1>1, InitialAssumption DEF Label
  <1>3. analysis = [step |-> "idle", pending |-> {}, run |-> 0, read |-> NoData, fires |-> {},
                    stl |-> NoData, features |-> NoData, flagged |-> {}, scorer |-> 0,
                    ids |-> {}, band |-> WideBand]
    BY DEF Init
  <1>4. report = [step |-> "idle", requests |-> 0, open |-> {}, midRun |-> 0,
                  incidents |-> {}]
    BY DEF Init
  <1>5. WideBand \in ConfidenceBand /\ IsBand(WideBand) /\ WideBand # None
        /\ 100 # None
    BY AnalysisAssumption, BuildingAssumption DEF WideBand, Band, ConfidenceBand, IsBand
  <1>6. Tables
    BY <1>2 DEF Tables, ReadingsTable, Init
  <1>7. FeatureStore /\ ResidualsHandedOn
    <2>1. DOMAIN NoData = {}
      BY DEF NoData
    <2>2. store = NoData /\ analysis.stl = NoData
      BY <1>3 DEF Init
    <2>3. QED
      BY <2>1, <2>2 DEF FeatureStore, ResidualsHandedOn
  <1>8. Registered
    <2> DEFINE Run == [rules : SUBSET RuleIds, ready : BOOLEAN]
    <2>1. registry \in [Members -> Seq(Run)]
      <3> HIDE DEF Run
      <3>1. QED
        BY DEF Init
    <2>2. training = [step |-> "idle", logging |-> FALSE, executions |-> 0, crashes |-> 0]
      BY DEF Init
    <2>3. training \in [step : {"idle"} \cup Members, logging : BOOLEAN,
                        executions : Nat, crashes : Nat] /\ ~training.logging
      BY <2>2
    <2>4. QED
      BY <2>1, <2>3 DEF Registered
  <1>9. FindingRows
    <2>1. ASSUME NEW f \in findings
          PROVE  f.run <= analysis.run /\ IsBundle(f) /\ (f.band = None <=> f.confidence = None)
      <3>1. f.run = 0 /\ f.layers = {"domain_rule"} /\ f.band = WideBand /\ f.confidence = 100
        BY <1>2
      <3>2. IsBundle(f)
        BY <1>5, <3>1 DEF IsBundle, Layers
      <3>3. QED
        BY <1>3, <1>5, <3>1, <3>2
    <2>2. Numbered(findings)
      BY <1>2 DEF Numbered, FindingRow
    <2>3. QED
      BY <1>2, <2>1, <2>2 DEF FindingRows
  <1>10. RunFields
    BY <1>3 DEF RunFields, Steps
  <1>11. FiresHandedOn /\ FeaturesAgree /\ FlaggedAreUsable
    BY <1>3 DEF FiresHandedOn, FeaturesAgree, FlaggedAreUsable
  <1>12. BandEarned /\ NotYetAccused /\ LowQualityNeverAccused
    BY <1>2, <1>3, <1>5 DEF BandEarned, Warranted, NotYetAccused, LowQualityNeverAccused
  <1>13. ScorerRegistered
    BY <1>3 DEF ScorerRegistered, Init, Members
  <1>14. ExplainerNeverOlder /\ NarrowBandsEarned /\ UncalibratedRuns
    BY <1>2, <1>5 DEF ExplainerNeverOlder, NarrowBandsEarned, UncalibratedRuns
  <1>15. ReportReads
    BY <1>4 DEF ReportReads
  <1>16. StraysTyped /\ RivalsKnown
    <2>1. strays = <<>> /\ analysis.ids = {}
      BY <1>3 DEF Init
    <2>2. QED
      BY <2>1 DEF StraysTyped, RivalsKnown, Attempts, PickedUp
  <1>17. QED
    BY <1>6, <1>7, <1>8, <1>9, <1>10, <1>11, <1>12, <1>13, <1>14, <1>15, <1>16
    DEF IInv, TypeInv

LEMMA Invariant == Spec => []IInv
  <1>1. Init => IInv
    BY InitInv
  <1>2. IInv /\ [Next]_vars => IInv'
    BY StepInv
  <1>3. QED
    BY <1>1, <1>2, PTL DEF Spec

-----------------------------------------------------------------------------
(* Theorems                                                                  *)

\* Every stored row of readings, features, labels and findings, and every
\* residual the decomposition hands on, is one that its columns accept and
\* that the validators of its class let through (models.py), in whatever
\* order activities, trainings, labels and corrections interleave.
THEOREM RecordsStayValid == Spec => []TypeOK
  <1>1. IInv => TypeOK
    <2> SUFFICES ASSUME IInv PROVE TypeOK
      OBVIOUS
    <2>1. /\ Tables /\ FeatureStore /\ Registered /\ FindingRows /\ RunFields
          /\ ResidualsHandedOn /\ ReportReads
      BY DEF IInv, TypeInv
    <2>2. \A i \in DOMAIN labels : labels[i] \in {"confirmed", "dismissed"}
      BY <2>1 DEF Tables, Label
    <2>3. training.step \in {"idle"} \cup Members
      BY <2>1 DEF Registered
    <2>4. ASSUME NEW f \in findings
          PROVE  /\ f.row \in Row /\ f.run \in 0..analysis.run
                 /\ f.status \in {"open", "confirmed", "dismissed"}
                 /\ f.confidence \in 0..100 \cup {None}
                 /\ IsBundle(f)
      BY <2>1 DEF FindingRows, FindingRow, RunFields
    <2>5. /\ DOMAIN db \subseteq Row /\ \A r \in DOMAIN db : db[r] \in Readings
          /\ DOMAIN store \subseteq DOMAIN db
          /\ \A r \in DOMAIN store : IsFeatureSet(store[r])
          /\ \A r \in DOMAIN analysis.stl : analysis.stl[r] \in ResidualResults
          /\ coldStart \in BOOLEAN
      BY <2>1 DEF Tables, ReadingsTable, FeatureStore, ResidualsHandedOn
    <2>6. /\ analysis.step \in {"idle", "detect", "assembly", "ensemble", "calibration",
                                "saving", "rootcause"}
          /\ report.step \in {"idle", "scenarios"}
      BY <2>1 DEF RunFields, Steps, ReportReads
    <2>7. QED
      BY <2>2, <2>3, <2>4, <2>5, <2>6 DEF TypeOK
  <1>2. QED
    BY <1>1, Invariant, PTL

\* The rule indicators of every feature row are exactly the rules that hold of
\* its circuit and hour in the readings the rule engine saw: the merge by
\* circuit and timestamp (feature_assembly.py, assemble) neither loses a fire
\* nor lends one to another row, though the table changes between the reads.
THEOREM IndicatorsMatchReadings == Spec => []FiresMatchReadings
  <1>1. IInv => FiresMatchReadings
    <2> SUFFICES ASSUME IInv PROVE FiresMatchReadings
      OBVIOUS
    <2>1. FeaturesAgree
      BY DEF IInv, TypeInv
    <2>2. QED
      BY <2>1 DEF FeaturesAgree, FiresMatchReadings, RulesAt
  <1>2. QED
    BY <1>1, Invariant, PTL

\* A row that was too short to decompose is never accused by the ensemble: its
\* mark survives the merge, and both members leave it out (ensemble_serving.py).
THEOREM ShortCohortsNotAccused == Spec => []LowQualityNeverAccused
  <1>1. IInv => LowQualityNeverAccused
    BY DEF IInv
  <1>2. QED
    BY <1>1, Invariant, PTL

\* However trainings start, finish and crash between scoring and attribution,
\* the forest that explains a finding is complete and no older than the one
\* that scored its row (root_cause_attribution service.py).
THEOREM ExplanationsByNewerForest == Spec => []ExplainerNeverOlder
  <1>1. IInv => ExplainerNeverOlder
    BY DEF IInv
  <1>2. QED
    BY <1>1, Invariant, PTL

\* A stored band narrower than [0, 1] means that the building has left cold
\* start and that reviewers gave enough labels of both kinds (calibration
\* service.py), whenever labels arrive and the flag is cleared.
THEOREM NarrowBandsTakeLabels == Spec => []NarrowBandsEarned
  <1>1. IInv => NarrowBandsEarned
    BY DEF IInv
  <1>2. QED
    BY <1>1, Invariant, PTL

\* A report that raises has read a finding without a band: of the run that
\* was between its rule engine and its calibration when it was asked for, or
\* of a stray attempt of the rule engine (prompt_builder.py).  Without such
\* attempts a request at any other time reads a band for every finding.
THEOREM ReportsRaiseOnlyThen == Spec => []ReportsRaiseOnlyMidRun
  <1>1. IInv => ReportsRaiseOnlyMidRun
    <2> SUFFICES ASSUME IInv, NEW reply \in Replies, reply.outcome = "raised"
                 PROVE  \E f \in report.open : f.band = None /\ f.run \in {0, report.midRun}
      BY DEF ReportsRaiseOnlyMidRun
    <2>1. ~MessageBuilds(report.open)
      <3>1. MessageBuilds(report.open) => reply.outcome \in {"llm", "fallback"}
        BY DEF Replies
      <3>2. QED
        BY <3>1
    <2>2. PICK f \in report.open : f.band = None
      BY <2>1 DEF MessageBuilds
    <2>3. f.run \in {0, report.midRun}
      BY <2>2 DEF IInv, ReportReads
    <2>4. QED
      BY <2>2, <2>3
  <1>2. QED
    BY <1>1, Invariant, PTL

\* What a fallback report recommends rests on findings nobody had dismissed
\* when the scenarios were made, repays within ten years, and carries the
\* confidence of a finding it cites if one was open (fallback.py), whatever
\* is stored or labelled between the report's two reads.
THEOREM FallbackReportsJustified == Spec => []ReportsJustified
  <1>1. IInv => ReportsJustified
    <2> SUFFICES ASSUME IInv, NEW reply \in Replies, NEW a \in reply.actions
                 PROVE  /\ a.cites # {}
                        /\ a.model # "investigate" =>
                                \A f \in findings : f.id \in a.cites => f.status # "dismissed"
                        /\ a.payback <= 1200
                        /\ (\E f \in report.open : f.id \in a.cites) => a.note \in a.cites
      BY DEF ReportsJustified
    <2>1. Tables /\ FindingRows /\ ReportReads
      BY DEF IInv, TypeInv
    <2>2. PICK s \in GenerateScenarios(db, findings), lead \in Leads(report.open) :
              reply.actions = Fallback(report.open, s, lead)
      BY DEF Replies
    <2>3. Cardinality(findings) \in Nat
          /\ \A f \in findings : f.id \in Nat /\ f.id <= Cardinality(findings)
      BY <2>1, FS_CardinalityType DEF FindingRows, Numbered
    <2>4. \A f \in report.open : f.id \in Nat /\ f.id <= Cardinality(findings)
      BY <2>1, <2>3 DEF ReportReads
    <2>5. /\ a.cites # {} /\ a.payback <= 1200
          /\ a.model # "investigate" =>
                 \E J \in SUBSET Justifying(findings) : a.cites = {j.id : j \in J}
          /\ (\E f \in report.open : f.id \in a.cites) => a.note \in a.cites
      BY <2>1, <2>2, <2>3, <2>4, FallbackActions DEF Tables
    <2>6. ASSUME NEW J \in SUBSET Justifying(findings), a.cites = {j.id : j \in J},
                 NEW f \in findings, f.id \in a.cites
          PROVE  f.status # "dismissed"
      <3>1. PICK j \in J : j.id = f.id
        BY <2>6
      <3>2. j \in findings /\ j.status # "dismissed"
        BY DEF Justifying
      <3>3. j = f
        BY <2>1, <3>1, <3>2 DEF FindingRows, Numbered
      <3>4. QED
        BY <3>2, <3>3
    <2>7. QED
      BY <2>5, <2>6
  <1>2. QED
    BY <1>1, Invariant, PTL

\* No step of any component loses a finding, and the one that changes a band
\* already given is the save of an attempt that had picked the finding up
\* before it had one, and which is its rival no longer: overlapping runs and
\* late attempts overwrite a band, each at most once, and a run that starts
\* afterwards never does (calibration repository.py).
THEOREM OnlyOverlapsRewrite == Spec => OnlyRivalsRewrite
  <1> DEFINE Step == \A f \in findings : \E g \in findings' :
                         /\ g.id = f.id
                         /\ (f.band # None /\ g.band # f.band) =>
                                 \E a \in Attempts : <<f.id, a>> \in rivals \ rivals'
  <1>1. ASSUME IInv, Next
        PROVE  Step
    <2>1. Tables /\ RunFields /\ FindingRows /\ Registered /\ FeaturesAgree
          /\ FlaggedAreUsable /\ BandEarned /\ StraysTyped /\ RivalsKnown
          /\ ScorerRegistered
      BY <1>1 DEF IInv, TypeInv
    <2>2. CASE RuleEngineActivity \/ StrayRuleEngine
      <3>1. PICK added, run : findings' = findings \cup added
        BY <2>1, <2>2, RulesInsert
      <3>2. QED
        BY <3>1
    <2>3. CASE SaveCalibrated \/ StrayCalibration
      <3>1. PICK a, band, h : a \in Attempts /\ Saves(a, band, h)
        BY <2>1, <2>3, AttemptSaves
      <3>2. ASSUME NEW f \in findings
            PROVE  /\ h[f] \in findings' /\ h[f].id = f.id
                   /\ (f.band # None /\ h[f].band # f.band) => <<f.id, a>> \in rivals \ rivals'
        <4>1. h[f] \in findings' /\ h[f].id = f.id
              /\ h[f].band = IF f.id \in PickedUp(a) THEN band ELSE f.band
          BY <3>1 DEF Saves, Rewritten
        <4>2. f.band # None /\ f.id \in PickedUp(a) => <<f.id, a>> \in rivals
          BY <2>1, <3>1 DEF RivalsKnown
        <4>3. <<f.id, a>> \notin rivals'
          BY <3>1 DEF Saves, RivalsAfter
        <4>4. QED
          BY <4>1, <4>2, <4>3
      <3>3. QED
        BY <3>1, <3>2
    <2>4. CASE RootCauseActivity
      <3>1. PICK added : findings' = findings \cup added
        BY <2>1, <2>4, MlFindings
      <3>2. QED
        BY <3>1
    <2>5. CASE LabelFinding
      <3>1. PICK h : /\ findings' = {h[f] : f \in findings}
                     /\ \A f \in findings : Rewritten(f, h[f]) /\ h[f].band = f.band
        BY <2>1, <2>5, LabelledFindings
      <3>2. QED
        BY <3>1 DEF Rewritten
    <2>6. CASE findings' = findings
      BY <2>6
    <2>7. QED
      BY <1>1, <2>2, <2>3, <2>4, <2>5, <2>6, FindingsCases
  <1>2. IInv /\ [Next]_vars => [Step]_vars
    BY <1>1
  <1>3. QED
    BY <1>2, Invariant, PTL DEF Spec, OnlyRivalsRewrite

=============================================================================
