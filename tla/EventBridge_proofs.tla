-------------------------- MODULE EventBridge_proofs --------------------------
(* Type correctness of the event bridge, the bound on lost messages and the *)
(* bound on repeated workflows, for any topic and any number of failures.   *)
EXTENDS EventBridge, FiniteSetTheorems, SequenceTheorems, TLAPS

USE MessageKindsAssumption, BridgeBoundsAssumption

-----------------------------------------------------------------------------
(* Types *)

LEMMA TypeInit == Init => TypeOK
  BY EmptySeq DEF Init, TypeOK

LEMMA ProducerTypes ==
    ASSUME TypeOK, Produce \/ \E m \in Message : Publish(m)
    PROVE  TypeOK'
  <1>1. ASSUME NEW m \in Message, Publish(m)
        PROVE  TypeOK'
    <2>1. /\ published' \in Seq(Message)
          /\ Len(published') = Len(published) + 1
      BY <1>1, AppendProperties DEF Publish, TypeOK
    <2>2. Len(published) \in Nat
      BY LenProperties DEF TypeOK
    <2>3. Numbers \subseteq Numbers' /\ Len(published) + 1 \in Numbers'
      BY <2>1, <2>2 DEF Numbers
    <2>4. buffer \in Seq(Numbers') /\ log \in Seq(Numbers') /\ dropped \subseteq Numbers'
      BY <2>3 DEF TypeOK
    <2>5. buffer' \in Seq(Numbers')
      BY <1>1, <2>3, <2>4, AppendProperties DEF Publish
    <2>6. QED
      BY <1>1, <2>1, <2>4, <2>5 DEF Publish, TypeOK
  <1>2. ASSUME Produce
        PROVE  TypeOK'
    <2>1. Numbers' = Numbers /\ published' = published /\ buffer # <<>>
      BY <1>2 DEF Produce, Deliver, DeliverUnanswered, DeliveryFails, ProducerEnds,
                  producer, Numbers
    <2>2. Head(buffer) \in Numbers /\ Tail(buffer) \in Seq(Numbers)
      BY <2>1, HeadTailProperties DEF TypeOK
    <2>3. Append(log, Head(buffer)) \in Seq(Numbers)
      BY <2>2, AppendProperties DEF TypeOK
    <2>4. {buffer[i] : i \in DOMAIN buffer} \subseteq Numbers /\ <<>> \in Seq(Numbers)
      BY EmptySeq, LenProperties DEF TypeOK
    <2>5. buffer' \in Seq(Numbers) /\ log' \in Seq(Numbers) /\ dropped' \subseteq Numbers
      BY <1>2, <2>2, <2>3, <2>4
      DEF Produce, Deliver, DeliverUnanswered, DeliveryFails, ProducerEnds, producer, TypeOK
    <2>6. failures' \in Nat
      BY <1>2 DEF Produce, Deliver, DeliverUnanswered, DeliveryFails, ProducerEnds, TypeOK
    <2>7. QED
      BY <1>2, <2>1, <2>5, <2>6
      DEF Produce, Deliver, DeliverUnanswered, DeliveryFails, ProducerEnds, producer, TypeOK
  <1>3. QED
    BY <1>1, <1>2

\* A start adds one run to one workflow.
LEMMA StartedType ==
    ASSUME TypeOK, NEW w \in WorkflowIds
    PROVE  Started(w) \in [WorkflowIds -> [state : {"none", "open", "closed"}, runs : Nat]]
  BY DEF TypeOK, Started

LEMMA ConsumerTypes ==
    ASSUME TypeOK, Work
    PROVE  TypeOK'
  <1>1. CASE Poll
    BY <1>1 DEF Poll, TypeOK, producer, Numbers
  <1>2. CASE IgnoreForeign
    BY <1>2 DEF IgnoreForeign, HandlerReturns, TypeOK, producer, Numbers
  <1>3. CASE StartWorkflow
    <2>1. workflow' \in [WorkflowIds -> [state : {"none", "open", "closed"}, runs : Nat]]
      BY <1>3, StartedType DEF StartWorkflow, TypeOK
    <2>2. QED
      BY <1>3, <2>1 DEF StartWorkflow, HandlerReturns, TypeOK, producer, Numbers
  <1>4. CASE HandlerRaises \/ HandlerCancelled
    <2>1. workflow' \in [WorkflowIds -> [state : {"none", "open", "closed"}, runs : Nat]]
      BY <1>4, StartedType DEF HandlerRaises, HandlerCancelled, PerhapsStarted, LeaveLoop, TypeOK
    <2>2. committed' \in Nat
      BY <1>4 DEF HandlerRaises, HandlerCancelled, PerhapsStarted, LeaveLoop, TypeOK
    <2>3. consumer' \in [pc : {"poll", "handle", "stopped"}, position : Nat, stored : Nat]
      BY <1>4 DEF HandlerRaises, HandlerCancelled, PerhapsStarted, LeaveLoop, TypeOK
    <2>4. /\ UNCHANGED <<published, buffer, dropped, log, handled>>
          /\ failures' = failures + 1
      BY <1>4 DEF HandlerRaises, HandlerCancelled, PerhapsStarted, LeaveLoop, producer
    <2>5. QED
      BY <2>1, <2>2, <2>3, <2>4 DEF TypeOK, Numbers
  <1>5. CASE AutoCommit
    BY <1>5 DEF AutoCommit, TypeOK, producer, Numbers
  <1>6. CASE Crash
    <2>1. consumer' \in [pc : {"poll", "handle", "stopped"}, position : Nat, stored : Nat]
      BY <1>6 DEF Crash, TypeOK
    <2>2. /\ UNCHANGED <<published, buffer, dropped, log, committed, workflow, handled>>
          /\ failures' = failures + 1
      BY <1>6 DEF Crash, producer
    <2>3. QED
      BY <2>1, <2>2 DEF TypeOK, Numbers
  <1>7. CASE Restart
    BY <1>7 DEF Restart, TypeOK, producer, Numbers
  <1>8. ASSUME NEW w \in WorkflowIds, WorkflowCloses(w)
        PROVE  TypeOK'
    BY <1>8 DEF WorkflowCloses, TypeOK, producer, Numbers
  <1>9. QED
    BY <1>1, <1>2, <1>3, <1>4, <1>5, <1>6, <1>7, <1>8 DEF Work, ConsumerStep

LEMMA StutterTypes ==
    ASSUME TypeOK, UNCHANGED vars
    PROVE  TypeOK'
  BY DEF TypeOK, vars, Numbers

LEMMA TypesStep ==
    ASSUME TypeOK, [Next]_vars
    PROVE  TypeOK'
  BY ProducerTypes, ConsumerTypes, StutterTypes DEF Next

\* The variables keep their types, for any workflows and any bounds: offsets are
\* never negative and the topic and the buffer hold only published messages.
THEOREM BridgeTypes == Spec => []TypeOK
  BY TypeInit, TypesStep, PTL DEF Spec

-----------------------------------------------------------------------------
(* How many messages a failure can lose, and how many runs it can repeat *)

InHandler == IF consumer.pc = "handle" THEN {consumer.position} ELSE {}

\* Messages whose offset is stored although no handler is at work on them or
\* has finished with them.
Outstanding == {i \in 1..consumer.stored : i \notin handled} \ InHandler

OffsetsOrdered ==
    /\ consumer.position = consumer.stored
    /\ committed <= consumer.stored
    /\ consumer.stored <= Len(log)
    /\ consumer.pc = "handle" => consumer.position >= 1

OutstandingBounded == IsFiniteSet(Outstanding) /\ Cardinality(Outstanding) <= failures

\* The first n messages of the log that start workflow w.
CopiesUpTo(w, n) == {i \in 1..n : published[log[i]] = w}

\* Messages the consumer has finished with since it was last started.
Processed ==
    CASE consumer.pc = "poll" -> consumer.position
      [] consumer.pc = "handle" -> consumer.position - 1
      [] OTHER -> 0

RunsInv ==
    \A w \in WorkflowIds :
        workflow[w].runs <=
            Cardinality(CopiesUpTo(w, Len(log))) * failures
              + Cardinality(CopiesUpTo(w, Processed))

LEMMA OffsetsInit == Init => OffsetsOrdered
  BY DEF Init, OffsetsOrdered

LEMMA OffsetsStep ==
    ASSUME TypeOK, OffsetsOrdered, [Next]_vars
    PROVE  OffsetsOrdered'
  <1>1. Len(log) \in Nat
    BY LenProperties DEF TypeOK
  <1>2. CASE Produce \/ \E m \in Message : Publish(m)
    <2>1. consumer' = consumer /\ committed' = committed
      BY <1>2 DEF Publish, Produce, Deliver, DeliverUnanswered, DeliveryFails, ProducerEnds
    <2>2. Len(log') \in Nat /\ Len(log) <= Len(log')
      <3>1. ASSUME buffer # <<>>
            PROVE  Len(Append(log, Head(buffer))) = Len(log) + 1
        BY <3>1, HeadTailProperties, AppendProperties DEF TypeOK
      <3>2. log' = log \/ (buffer # <<>> /\ log' = Append(log, Head(buffer)))
        BY <1>2 DEF Publish, Produce, Deliver, DeliverUnanswered, DeliveryFails, ProducerEnds
      <3>3. QED
        BY <1>1, <3>1, <3>2
    <2>3. QED
      BY <1>1, <2>1, <2>2 DEF OffsetsOrdered, TypeOK
  <1>3. CASE Poll
    BY <1>1, <1>3 DEF Poll, TypeOK, OffsetsOrdered
  <1>4. CASE IgnoreForeign \/ StartWorkflow
    BY <1>1, <1>4 DEF IgnoreForeign, StartWorkflow, HandlerReturns, TypeOK, OffsetsOrdered
  <1>5. CASE HandlerRaises \/ HandlerCancelled \/ Crash
    <2>1. /\ consumer' = [consumer EXCEPT !.pc = "stopped"]
          /\ log' = log
          /\ committed' \in {committed, consumer.stored}
      BY <1>5 DEF HandlerRaises, HandlerCancelled, PerhapsStarted, LeaveLoop, Crash
    <2>2. QED
      BY <1>1, <2>1 DEF TypeOK, OffsetsOrdered
  <1>6. CASE AutoCommit
    BY <1>1, <1>6 DEF AutoCommit, TypeOK, OffsetsOrdered
  <1>7. CASE Restart
    BY <1>1, <1>7 DEF Restart, TypeOK, OffsetsOrdered
  <1>8. CASE (\E w \in WorkflowIds : WorkflowCloses(w)) \/ UNCHANGED vars
    BY <1>8 DEF WorkflowCloses, vars, OffsetsOrdered
  <1>9. QED
    BY <1>2, <1>3, <1>4, <1>5, <1>6, <1>7, <1>8 DEF Next, Work, ConsumerStep

LEMMA OutstandingInit == Init => OutstandingBounded
  <1>1. Init => Outstanding = {}
    BY DEF Init, Outstanding
  <1>2. QED
    BY <1>1, FS_EmptySet DEF Init, OutstandingBounded

\* A failure gives up the message in hand and no other; every other step leaves
\* the outstanding messages as they are or fetches some of them again.
LEMMA OutstandingStep ==
    ASSUME TypeOK, OffsetsOrdered, OutstandingBounded, [Next]_vars
    PROVE  OutstandingBounded'
  <1>0. Cardinality(Outstanding) \in Nat
    BY FS_CardinalityType DEF OutstandingBounded
  <1>1. ASSUME Outstanding' \subseteq Outstanding, failures' \in Nat, failures <= failures'
        PROVE  OutstandingBounded'
    <2>1. IsFiniteSet(Outstanding') /\ Cardinality(Outstanding') <= Cardinality(Outstanding)
      BY <1>1, FS_Subset DEF OutstandingBounded
    <2>2. Cardinality(Outstanding') \in Nat
      BY <2>1, FS_CardinalityType
    <2>3. QED
      BY <1>0, <1>1, <2>1, <2>2 DEF OutstandingBounded, TypeOK
  <1>2. CASE HandlerRaises \/ HandlerCancelled \/ Crash
    <2>1. /\ consumer' = [consumer EXCEPT !.pc = "stopped"]
          /\ handled' = handled /\ failures' = failures + 1
      BY <1>2 DEF HandlerRaises, HandlerCancelled, PerhapsStarted, LeaveLoop, Crash
    <2>2. Outstanding' \subseteq Outstanding \cup {consumer.position}
      BY <2>1 DEF Outstanding, InHandler, TypeOK
    <2>3. /\ IsFiniteSet(Outstanding \cup {consumer.position})
          /\ Cardinality(Outstanding \cup {consumer.position}) <= Cardinality(Outstanding) + 1
      BY <1>0, FS_AddElement DEF OutstandingBounded
    <2>4. /\ IsFiniteSet(Outstanding')
          /\ Cardinality(Outstanding') <= Cardinality(Outstanding \cup {consumer.position})
      BY <2>2, <2>3, FS_Subset
    <2>5. /\ Cardinality(Outstanding') \in Nat
          /\ Cardinality(Outstanding \cup {consumer.position}) \in Nat
      BY <2>3, <2>4, FS_CardinalityType
    <2>6. QED
      BY <1>0, <2>1, <2>3, <2>4, <2>5 DEF OutstandingBounded, TypeOK
  <1>3. CASE Produce \/ \E m \in Message : Publish(m)
    <2>1. UNCHANGED <<consumer, handled>> /\ failures' \in Nat /\ failures <= failures'
      BY <1>3 DEF Publish, Produce, Deliver, DeliverUnanswered, DeliveryFails, ProducerEnds, TypeOK
    <2>2. QED
      BY <1>1, <2>1 DEF Outstanding, InHandler
  <1>4. CASE Poll
    <2>1. /\ consumer.stored \in Nat /\ consumer.position = consumer.stored
          /\ consumer.pc = "poll" /\ handled' = handled /\ failures' = failures
          /\ consumer'.pc = "handle"
          /\ consumer'.position = consumer.stored + 1
          /\ consumer'.stored = consumer.stored + 1
      BY <1>4 DEF Poll, TypeOK, OffsetsOrdered
    <2>2. Outstanding' \subseteq Outstanding
      BY <2>1 DEF Outstanding, InHandler
    <2>3. QED
      BY <1>1, <2>1, <2>2 DEF TypeOK
  <1>5. CASE IgnoreForeign \/ StartWorkflow
    <2>1. /\ consumer.pc = "handle" /\ handled' = handled \cup {consumer.position}
          /\ consumer' = [consumer EXCEPT !.pc = "poll"] /\ failures' = failures
      BY <1>5 DEF IgnoreForeign, StartWorkflow, HandlerReturns
    <2>2. Outstanding' \subseteq Outstanding
      BY <2>1 DEF Outstanding, InHandler, TypeOK
    <2>3. QED
      BY <1>1, <2>1, <2>2 DEF TypeOK
  <1>6. CASE Restart
    <2>1. Outstanding' \subseteq Outstanding
      BY <1>6 DEF Restart, Outstanding, InHandler, TypeOK, OffsetsOrdered
    <2>2. QED
      BY <1>1, <1>6, <2>1 DEF Restart, TypeOK
  <1>7. CASE AutoCommit \/ (\E w \in WorkflowIds : WorkflowCloses(w)) \/ UNCHANGED vars
    <2>1. UNCHANGED <<consumer, handled, failures>>
      BY <1>7 DEF AutoCommit, WorkflowCloses, vars
    <2>2. QED
      BY <1>1, <2>1 DEF Outstanding, InHandler, TypeOK
  <1>8. QED
    BY <1>2, <1>3, <1>4, <1>5, <1>6, <1>7 DEF Next, Work, ConsumerStep

LEMMA SkippedFew ==
    ASSUME TypeOK, OffsetsOrdered, OutstandingBounded
    PROVE  LossBounded
  <1>1. Skipped \subseteq Outstanding \cup InHandler
    BY DEF Skipped, Outstanding, InHandler, OffsetsOrdered, TypeOK
  <1>2. Cardinality(Outstanding) \in Nat
    BY FS_CardinalityType DEF OutstandingBounded
  <1>3. /\ IsFiniteSet(Outstanding \cup InHandler)
        /\ Cardinality(Outstanding \cup InHandler)
             <= Cardinality(Outstanding) + (IF consumer.pc = "handle" THEN 1 ELSE 0)
    <2>1. CASE consumer.pc = "handle"
      BY <1>2, <2>1, FS_AddElement DEF InHandler, OutstandingBounded
    <2>2. CASE consumer.pc # "handle"
      <3>1. Outstanding \cup InHandler = Outstanding
        BY <2>2 DEF InHandler
      <3>2. IsFiniteSet(Outstanding \cup InHandler)
        BY <3>1 DEF OutstandingBounded
      <3>3. Cardinality(Outstanding \cup InHandler) = Cardinality(Outstanding)
        BY <3>1
      <3>4. QED
        BY <1>2, <2>2, <3>2, <3>3
    <2>3. QED
      BY <2>1, <2>2
  <1>4. IsFiniteSet(Skipped) /\ Cardinality(Skipped) <= Cardinality(Outstanding \cup InHandler)
    BY <1>1, <1>3, FS_Subset
  <1>5. Cardinality(Skipped) \in Nat /\ Cardinality(Outstanding \cup InHandler) \in Nat
    BY <1>3, <1>4, FS_CardinalityType
  <1>6. QED
    BY <1>2, <1>3, <1>4, <1>5 DEF LossBounded, OutstandingBounded, TypeOK

\* Whatever the order of polls, commits, crashes and restarts, the group passes
\* over at most one unhandled message per failure, and the one in hand.
THEOREM LossIsBounded == Spec => []LossBounded
  <1>1. Init => TypeOK /\ OffsetsOrdered /\ OutstandingBounded
    BY TypeInit, OffsetsInit, OutstandingInit
  <1>2. TypeOK /\ OffsetsOrdered /\ OutstandingBounded /\ [Next]_vars
            => (TypeOK /\ OffsetsOrdered /\ OutstandingBounded)'
    BY TypesStep, OffsetsStep, OutstandingStep
  <1>3. TypeOK /\ OffsetsOrdered /\ OutstandingBounded => LossBounded
    BY SkippedFew
  <1>4. QED
    BY <1>1, <1>2, <1>3, PTL DEF Spec

-----------------------------------------------------------------------------
(* Repeated runs *)

LEMMA PrefixFinite ==
    ASSUME NEW n \in Nat
    PROVE  IsFiniteSet(1..n)
  BY FS_Interval

LEMMA CopiesFinite ==
    ASSUME NEW w, NEW n \in Nat
    PROVE  /\ IsFiniteSet(CopiesUpTo(w, n))
           /\ Cardinality(CopiesUpTo(w, n)) \in Nat
           /\ \A k \in 0..n : Cardinality(CopiesUpTo(w, k)) <= Cardinality(CopiesUpTo(w, n))
  <1>1. IsFiniteSet(1..n)
    BY FS_Interval
  <1>2. IsFiniteSet(CopiesUpTo(w, n))
    BY <1>1, FS_Subset DEF CopiesUpTo
  <1>3. \A k \in 0..n : CopiesUpTo(w, k) \subseteq CopiesUpTo(w, n)
    BY DEF CopiesUpTo
  <1>4. QED
    BY <1>2, <1>3, FS_Subset, FS_CardinalityType

\* The message in hand is one copy more.
LEMMA CopyCounted ==
    ASSUME NEW n \in Nat, n >= 1
    PROVE  Cardinality(CopiesUpTo(published[log[n]], n))
             = Cardinality(CopiesUpTo(published[log[n]], n - 1)) + 1
  <1> DEFINE w == published[log[n]]
  <1>1. CopiesUpTo(w, n) = CopiesUpTo(w, n - 1) \cup {n} /\ n \notin CopiesUpTo(w, n - 1)
    BY DEF CopiesUpTo
  <1>2. IsFiniteSet(CopiesUpTo(w, n - 1))
    BY CopiesFinite
  <1> HIDE DEF w
  <1>3. Cardinality(CopiesUpTo(w, n)) = Cardinality(CopiesUpTo(w, n - 1)) + 1
    BY <1>1, <1>2, FS_AddElement
  <1>4. QED
    BY <1>3 DEF w

LEMMA ProductGrows ==
    ASSUME NEW c \in Nat, NEW d \in Nat, NEW f \in Nat, NEW g \in Nat, c <= d, f <= g
    PROVE  c * f \in Nat /\ d * g \in Nat /\ c * f <= d * g
  <1>1. c * f \in Nat /\ c * g \in Nat /\ d * g \in Nat
    OBVIOUS
  <1>2. c * f <= c * g
    BY SMT
  <1>3. c * g <= d * g
    BY SMT
  <1>4. QED
    BY <1>1, <1>2, <1>3

LEMMA ProcessedInLog ==
    ASSUME TypeOK, OffsetsOrdered
    PROVE  Processed \in 0..Len(log) /\ Len(log) \in Nat
  <1>1. Len(log) \in Nat
    BY LenProperties DEF TypeOK
  <1>2. QED
    BY <1>1 DEF Processed, OffsetsOrdered, TypeOK

LEMMA ProcessedNext ==
    ASSUME TypeOK', OffsetsOrdered'
    PROVE  Processed' \in Nat
  <1>1. consumer'.position \in Nat
    BY DEF TypeOK
  <1>2. consumer'.pc = "handle" => consumer'.position >= 1
    BY DEF OffsetsOrdered
  <1>3. QED
    BY <1>1, <1>2 DEF Processed

\* What is in the topic stays there, and messages keep their contents.
LEMMA CopiesKept ==
    ASSUME TypeOK, [Next]_vars, NEW w, NEW n \in 0..Len(log)
    PROVE  CopiesUpTo(w, n)' = CopiesUpTo(w, n)
  <1>1. ASSUME NEW i \in 1..Len(log)
        PROVE  published'[log'[i]] = published[log[i]]
    <2>1. log[i] \in 1..Len(published)
      BY <1>1, ElementOfSeq DEF TypeOK, Numbers
    <2>2. ASSUME NEW m \in Message, Publish(m)
          PROVE  published'[log'[i]] = published[log[i]]
      <3>1. \A j \in 1..Len(published) : Append(published, m)[j] = published[j]
        BY AppendProperties DEF TypeOK
      <3>2. QED
        BY <2>1, <2>2, <3>1 DEF Publish
    <2>3. CASE Deliver \/ DeliverUnanswered
      <3>1. /\ published' = published /\ log' = Append(log, Head(buffer))
            /\ Head(buffer) \in Numbers
        BY <2>3, HeadTailProperties DEF Deliver, DeliverUnanswered, producer, TypeOK
      <3>2. \A j \in 1..Len(log) : Append(log, Head(buffer))[j] = log[j]
        BY <3>1, AppendProperties DEF TypeOK
      <3>3. QED
        BY <1>1, <3>1, <3>2
    <2>4. CASE DeliveryFails \/ ProducerEnds \/ Work \/ UNCHANGED vars
      BY <2>4 DEF DeliveryFails, ProducerEnds, Work, ConsumerStep, Poll, IgnoreForeign,
                  StartWorkflow, HandlerRaises, HandlerCancelled, LeaveLoop, AutoCommit, Crash,
                  Restart, WorkflowCloses,
                  vars, producer
    <2>5. QED
      BY <2>2, <2>3, <2>4 DEF Next, Produce
  <1>2. Len(log) \in Nat
    BY LenProperties DEF TypeOK
  <1>3. QED
    BY <1>1, <1>2 DEF CopiesUpTo

LEMMA LogKept ==
    ASSUME TypeOK, [Next]_vars
    PROVE  Len(log) \in Nat /\ Len(log') \in Nat /\ Len(log) <= Len(log')
  <1>1. ASSUME buffer # <<>>
        PROVE  Len(Append(log, Head(buffer))) = Len(log) + 1
    BY <1>1, HeadTailProperties, AppendProperties DEF TypeOK
  <1>2. log' = log \/ (buffer # <<>> /\ log' = Append(log, Head(buffer)))
    BY DEF Next, Publish, Produce, Deliver, DeliverUnanswered, DeliveryFails, ProducerEnds,
           Work, ConsumerStep, Poll, IgnoreForeign, StartWorkflow, HandlerRaises,
           HandlerCancelled, LeaveLoop, AutoCommit, Crash, Restart, WorkflowCloses, vars, producer
  <1>3. Len(log) \in Nat
    BY LenProperties DEF TypeOK
  <1>4. QED
    BY <1>1, <1>2, <1>3

\* A step that adds no failure: what was processed covers what was started.
LEMMA RunsCovered ==
    ASSUME TypeOK, OffsetsOrdered, RunsInv, [Next]_vars, TypeOK', OffsetsOrdered',
           NEW w \in WorkflowIds,
           failures <= failures',
           workflow'[w].runs - workflow[w].runs
             <= Cardinality(CopiesUpTo(w, Processed)') - Cardinality(CopiesUpTo(w, Processed))
    PROVE  workflow'[w].runs <=
             Cardinality(CopiesUpTo(w, Len(log))') * failures'
               + Cardinality(CopiesUpTo(w, Processed)')
  <1>1. Len(log) \in Nat /\ Len(log') \in Nat /\ Len(log) <= Len(log')
    BY LogKept
  <1>2. CopiesUpTo(w, Len(log)) \subseteq CopiesUpTo(w, Len(log))'
    <2>1. \A n \in 0..Len(log) : CopiesUpTo(w, n)' = CopiesUpTo(w, n)
      BY CopiesKept
    <2>2. QED
      BY <1>1, <2>1 DEF CopiesUpTo
  <1>3. IsFiniteSet(CopiesUpTo(w, Len(log))')
    <2>1. IsFiniteSet(1..Len(log'))
      BY <1>1, PrefixFinite
    <2>2. QED
      BY <2>1, FS_Subset DEF CopiesUpTo
  <1> DEFINE c == Cardinality(CopiesUpTo(w, Len(log)))
             c1 == Cardinality(CopiesUpTo(w, Len(log))')
             d == Cardinality(CopiesUpTo(w, Processed))
             d1 == Cardinality(CopiesUpTo(w, Processed)')
  <1>4. c \in Nat /\ c1 \in Nat /\ c <= c1
    BY <1>1, <1>2, <1>3, FS_Subset, FS_CardinalityType, CopiesFinite
  <1>5. d \in Nat
    BY ProcessedInLog, CopiesFinite
  <1>6. d1 \in Nat
    <2>1. Processed' \in Nat
      BY ProcessedNext
    <2>2. IsFiniteSet(1..Processed')
      BY <2>1, PrefixFinite
    <2>3. QED
      BY <2>2, FS_Subset, FS_CardinalityType DEF CopiesUpTo
  <1>7. /\ workflow[w].runs \in Nat /\ workflow'[w].runs \in Nat
        /\ failures \in Nat /\ failures' \in Nat
    BY DEF TypeOK
  <1>8. workflow[w].runs <= c * failures + d
    BY DEF RunsInv
  <1>9. workflow'[w].runs - workflow[w].runs <= d1 - d
    OBVIOUS
  <1> HIDE DEF c, c1, d, d1
  <1>10. c * failures \in Nat /\ c1 * failures' \in Nat /\ c * failures <= c1 * failures'
    BY <1>4, <1>7, ProductGrows
  <1>11. workflow'[w].runs <= c1 * failures' + d1
    BY <1>5, <1>6, <1>7, <1>8, <1>9, <1>10
  <1>12. QED
    BY <1>11 DEF c1, d1

\* A step that starts no run and goes back over no message.
LEMMA RunsKept ==
    ASSUME TypeOK, OffsetsOrdered, RunsInv, [Next]_vars, TypeOK', OffsetsOrdered',
           NEW w \in WorkflowIds,
           failures <= failures', workflow'[w].runs = workflow[w].runs,
           Processed <= Processed'
    PROVE  workflow'[w].runs <=
             Cardinality(CopiesUpTo(w, Len(log))') * failures'
               + Cardinality(CopiesUpTo(w, Processed)')
  <1>0. Processed' \in Nat
    BY ProcessedNext
  <1>1. Processed \in 0..Len(log) /\ Len(log) \in Nat /\ Processed' \in Nat
    BY <1>0, ProcessedInLog
  <1>2. CopiesUpTo(w, Processed) \subseteq CopiesUpTo(w, Processed)'
    <2>1. \A n \in 0..Len(log) : CopiesUpTo(w, n)' = CopiesUpTo(w, n)
      BY CopiesKept
    <2>2. QED
      BY <1>1, <2>1 DEF CopiesUpTo
  <1>3. IsFiniteSet(CopiesUpTo(w, Processed)')
    <2>1. IsFiniteSet(1..Processed')
      BY <1>1, PrefixFinite
    <2>2. QED
      BY <2>1, FS_Subset DEF CopiesUpTo
  <1>4. /\ Cardinality(CopiesUpTo(w, Processed)) \in Nat
        /\ Cardinality(CopiesUpTo(w, Processed)') \in Nat
        /\ Cardinality(CopiesUpTo(w, Processed)) <= Cardinality(CopiesUpTo(w, Processed)')
    BY <1>1, <1>2, <1>3, FS_Subset, FS_CardinalityType, CopiesFinite
  <1>5. workflow[w].runs \in Nat
    BY DEF TypeOK
  <1>6. workflow'[w].runs - workflow[w].runs
          <= Cardinality(CopiesUpTo(w, Processed)') - Cardinality(CopiesUpTo(w, Processed))
    BY <1>4, <1>5
  <1>7. QED
    BY <1>6, RunsCovered

\* A failure starts at most the workflow of the message in hand, and the consumer
\* begins again from an earlier message.
LEMMA RunsAfterFailure ==
    ASSUME TypeOK, OffsetsOrdered, RunsInv, TypeOK',
           HandlerRaises \/ HandlerCancelled \/ Crash,
           NEW w \in WorkflowIds
    PROVE  workflow'[w].runs <=
             Cardinality(CopiesUpTo(w, Len(log))') * failures'
               + Cardinality(CopiesUpTo(w, Processed)')
  <1> DEFINE c == Cardinality(CopiesUpTo(w, Len(log)))
             d == Cardinality(CopiesUpTo(w, Processed))
  <1>1. /\ published' = published /\ log' = log /\ failures' = failures + 1
        /\ consumer'.pc = "stopped"
    BY DEF HandlerRaises, HandlerCancelled, PerhapsStarted, LeaveLoop, Crash, producer, TypeOK
  <1>2. c \in Nat /\ d \in Nat /\ d <= c
    BY ProcessedInLog, CopiesFinite
  <1>3. workflow[w].runs \in Nat /\ workflow'[w].runs \in Nat /\ failures \in Nat
    BY DEF TypeOK
  <1>4. workflow'[w].runs - workflow[w].runs <= c - d
    <2>1. CASE workflow'[w] = workflow[w]
      BY <1>2, <1>3, <2>1
    <2>2. CASE workflow'[w] # workflow[w]
      <3>1. /\ consumer.pc = "handle" /\ InHand = w
            /\ workflow'[w].runs = workflow[w].runs + 1
        <4>1. (HandlerRaises \/ HandlerCancelled) /\ workflow' # workflow
          BY <2>2 DEF Crash
        <4>2. consumer.pc = "handle" /\ InHand \in WorkflowIds /\ workflow' = Started(InHand)
          BY <4>1 DEF HandlerRaises, HandlerCancelled, PerhapsStarted
        <4>3. InHand = w
          BY <2>2, <4>2 DEF Started, TypeOK
        <4>4. QED
          BY <4>2, <4>3 DEF Started, TypeOK
      <3>2. /\ consumer.position \in 1..Len(log) /\ Processed = consumer.position - 1
            /\ Len(log) \in Nat
        BY <3>1, ProcessedInLog DEF Processed, OffsetsOrdered, TypeOK
      <3>3. Cardinality(CopiesUpTo(w, consumer.position)) = d + 1
        BY <3>1, <3>2, CopyCounted DEF InHand
      <3>4. Cardinality(CopiesUpTo(w, consumer.position)) <= c
        BY <3>2, CopiesFinite
      <3>5. QED
        BY <1>2, <1>3, <3>1, <3>3, <3>4
    <2>3. QED
      BY <2>1, <2>2
  <1>5. workflow[w].runs <= c * failures + d
    BY DEF RunsInv
  <1>6. Cardinality(CopiesUpTo(w, Len(log))') = c /\ Cardinality(CopiesUpTo(w, Processed)') = 0
    <2>1. CopiesUpTo(w, Len(log))' = CopiesUpTo(w, Len(log))
      BY <1>1 DEF CopiesUpTo
    <2>2. CopiesUpTo(w, Processed)' = {}
      BY <1>1 DEF CopiesUpTo, Processed
    <2>3. QED
      BY <2>1, <2>2, FS_EmptySet
  <1> HIDE DEF c, d
  <1>7. c * (failures + 1) = c * failures + c /\ c * failures \in Nat
    BY <1>2, <1>3
  <1>8. workflow'[w].runs <= c * (failures + 1) + 0
    BY <1>2, <1>3, <1>4, <1>5, <1>7
  <1>9. QED
    BY <1>1, <1>6, <1>8

LEMMA RunsStep ==
    ASSUME TypeOK, OffsetsOrdered, RunsInv, [Next]_vars, TypeOK', OffsetsOrdered'
    PROVE  RunsInv'
  <1> SUFFICES ASSUME NEW w \in WorkflowIds
               PROVE  workflow'[w].runs <=
                        Cardinality(CopiesUpTo(w, Len(log))') * failures'
                          + Cardinality(CopiesUpTo(w, Processed)')
    BY DEF RunsInv
  <1>1. CASE HandlerRaises \/ HandlerCancelled \/ Crash
    BY <1>1, RunsAfterFailure
  <1>2. CASE (Produce \/ \E m \in Message : Publish(m)) \/ AutoCommit \/ UNCHANGED vars
    <2>1. consumer' = consumer /\ workflow' = workflow /\ failures <= failures'
      BY <1>2 DEF Produce, Publish, Deliver, DeliverUnanswered, DeliveryFails, ProducerEnds,
                  AutoCommit, vars, TypeOK
    <2>2. Processed' = Processed /\ Processed \in Nat
      BY <2>1, ProcessedInLog DEF Processed
    <2>3. QED
      BY <2>1, <2>2, RunsKept
  <1>3. CASE Poll \/ IgnoreForeign \/ Restart
    <2>1. workflow' = workflow /\ failures' = failures /\ failures \in Nat
      BY <1>3 DEF Poll, IgnoreForeign, Restart, TypeOK
    <2>2. Processed <= Processed'
      <3>1. CASE Poll
        <4>1. /\ consumer.pc = "poll" /\ consumer.position \in Nat
              /\ consumer'.pc = "handle" /\ consumer'.position = consumer.position + 1
          BY <3>1 DEF Poll, TypeOK
        <4>2. QED
          BY <4>1 DEF Processed
      <3>2. CASE IgnoreForeign
        <4>1. /\ consumer.pc = "handle" /\ consumer.position \in Nat
              /\ consumer'.pc = "poll" /\ consumer'.position = consumer.position
          BY <3>2 DEF IgnoreForeign, HandlerReturns, TypeOK
        <4>2. QED
          BY <4>1 DEF Processed
      <3>3. CASE Restart
        <4>1. /\ consumer.pc = "stopped" /\ committed \in Nat
              /\ consumer'.pc = "poll" /\ consumer'.position = committed
          BY <3>3 DEF Restart, TypeOK
        <4>2. QED
          BY <4>1 DEF Processed
      <3>4. QED
        BY <1>3, <3>1, <3>2, <3>3
    <2>3. QED
      BY <2>1, <2>2, RunsKept
  <1>4. ASSUME NEW u \in WorkflowIds, WorkflowCloses(u)
        PROVE  workflow'[w].runs <=
                 Cardinality(CopiesUpTo(w, Len(log))') * failures'
                   + Cardinality(CopiesUpTo(w, Processed)')
    <2>1. /\ consumer' = consumer /\ failures' = failures /\ failures \in Nat
          /\ workflow'[w].runs = workflow[w].runs
      BY <1>4 DEF WorkflowCloses, TypeOK
    <2>2. Processed' = Processed /\ Processed \in Nat
      BY <2>1, ProcessedInLog DEF Processed
    <2>3. QED
      BY <2>1, <2>2, RunsKept
  <1>5. CASE StartWorkflow
    <2>1. /\ consumer.pc = "handle" /\ failures' = failures /\ failures \in Nat
          /\ published' = published /\ log' = log
          /\ consumer'.pc = "poll" /\ consumer'.position = consumer.position
      BY <1>5 DEF StartWorkflow, HandlerReturns, producer, TypeOK
    <2>2. /\ Processed = consumer.position - 1 /\ Processed' = consumer.position
          /\ consumer.position \in 1..Len(log) /\ Len(log) \in Nat
      BY <2>1, ProcessedInLog DEF Processed, OffsetsOrdered, TypeOK
    <2>3. CASE workflow'[w].runs = workflow[w].runs
      BY <2>1, <2>2, <2>3, RunsKept
    <2>4. CASE workflow'[w].runs # workflow[w].runs
      <3>1. InHand = w /\ workflow'[w].runs = workflow[w].runs + 1 /\ workflow[w].runs \in Nat
        BY <1>5, <2>4 DEF StartWorkflow, Started, TypeOK
      <3>2. Cardinality(CopiesUpTo(w, consumer.position))
              = Cardinality(CopiesUpTo(w, Processed)) + 1
        <4>1. Cardinality(CopiesUpTo(w, consumer.position))
                = Cardinality(CopiesUpTo(w, consumer.position - 1)) + 1
          BY <2>2, <3>1, CopyCounted DEF InHand
        <4>2. QED
          BY <2>2, <4>1
      <3>3. CopiesUpTo(w, Processed)' = CopiesUpTo(w, consumer.position)
        BY <2>1, <2>2 DEF CopiesUpTo
      <3>4. Cardinality(CopiesUpTo(w, Processed)) \in Nat
        BY ProcessedInLog, CopiesFinite
      <3>5. workflow'[w].runs - workflow[w].runs
              <= Cardinality(CopiesUpTo(w, Processed)') - Cardinality(CopiesUpTo(w, Processed))
        BY <3>1, <3>2, <3>3, <3>4
      <3>6. QED
        BY <2>1, <3>5, RunsCovered
    <2>5. QED
      BY <2>3, <2>4
  <1>6. QED
    BY <1>1, <1>2, <1>3, <1>4, <1>5 DEF Next, Work, ConsumerStep

LEMMA RunsInit == Init => RunsInv
  <1>1. ASSUME Init, NEW w \in WorkflowIds
        PROVE  /\ workflow[w].runs = 0 /\ failures = 0
               /\ CopiesUpTo(w, Len(log)) = {} /\ CopiesUpTo(w, Processed) = {}
    BY <1>1 DEF Init, CopiesUpTo, Processed
  <1>2. Init => \A w \in WorkflowIds :
                    /\ workflow[w].runs = 0 /\ failures = 0
                    /\ Cardinality(CopiesUpTo(w, Len(log))) = 0
                    /\ Cardinality(CopiesUpTo(w, Processed)) = 0
    BY <1>1, FS_EmptySet
  <1>3. QED
    BY <1>2 DEF RunsInv

LEMMA RunsFew ==
    ASSUME TypeOK, OffsetsOrdered, RunsInv
    PROVE  RunsBounded
  <1> SUFFICES ASSUME NEW w \in WorkflowIds
               PROVE  workflow[w].runs <= Copies(w) * (failures + 1)
    BY DEF RunsBounded
  <1>1. Copies(w) = Cardinality(CopiesUpTo(w, Len(log)))
    BY DEF Copies, CopiesUpTo
  <1>2. /\ Copies(w) \in Nat /\ Cardinality(CopiesUpTo(w, Processed)) \in Nat
        /\ Cardinality(CopiesUpTo(w, Processed)) <= Copies(w)
    BY <1>1, ProcessedInLog, CopiesFinite
  <1>3. workflow[w].runs \in Nat /\ failures \in Nat
    BY DEF TypeOK
  <1>4. workflow[w].runs <= Copies(w) * failures + Cardinality(CopiesUpTo(w, Processed))
    BY <1>1 DEF RunsInv
  <1>5. Copies(w) * (failures + 1) = Copies(w) * failures + Copies(w)
        /\ Copies(w) * failures \in Nat
    BY <1>2, <1>3
  <1>6. QED
    BY <1>2, <1>3, <1>4, <1>5

\* However often messages are delivered again and the consumer is restarted, a
\* workflow runs at most once per copy of its message and round of failures.
THEOREM RunsAreBounded == Spec => []RunsBounded
  <1>1. Init => TypeOK /\ OffsetsOrdered /\ RunsInv
    BY TypeInit, OffsetsInit, RunsInit
  <1>2. TypeOK /\ OffsetsOrdered /\ RunsInv /\ [Next]_vars
            => (TypeOK /\ OffsetsOrdered /\ RunsInv)'
    BY TypesStep, OffsetsStep, RunsStep
  <1>3. TypeOK /\ OffsetsOrdered /\ RunsInv => RunsBounded
    BY RunsFew
  <1>4. QED
    BY <1>1, <1>2, <1>3, PTL DEF Spec

=============================================================================
