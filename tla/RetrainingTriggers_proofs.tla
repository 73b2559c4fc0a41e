---------------------- MODULE RetrainingTriggers_proofs ----------------------
(***************************************************************************)
(* Feedback requests and the retrainings they lead to, for any number of   *)
(* requests, findings and drift evaluations and any threshold: types, the  *)
(* status of a finding, how early an event can be, and that a retraining   *)
(* is justified by labels.  The theorems about Spec are of FeedbackLoop,   *)
(* those about TriggersSpec of the composition.                            *)
(***************************************************************************)
EXTENDS RetrainingTriggers, TLAPS

USE BundledAssumption, ThresholdAssumption, NoOneAssumption

\* A change of one request's statement pointer keeps the requests' types.
LEMMA GotoType ==
    ASSUME TypeOK, NEW r \in Requests, NEW s \in {"idle", "done", "failed"} \cup Running,
           Goto(r, s)
    PROVE  request' \in [Requests -> RequestState]
  BY DEF TypeOK, Goto, RequestState

LEMMA ReleaseType ==
    ASSUME TypeOK, NEW r \in Requests, ReleaseLocks(r)
    PROVE  lock' \in [Findings -> Requests \cup {NoOne}]
  BY DEF TypeOK, ReleaseLocks

LEMMA StepType ==
    ASSUME TypeOK, NEW r \in Requests, Receive(r) \/ Step(r) \/ RequestFails(r)
    PROVE  TypeOK'
  <1>1. CASE Receive(r)
    BY <1>1, GotoType DEF Receive, TypeOK, Running
  <1>2. CASE CheckFinding(r)
    <2>1. Goto(r, "insert") \/ Goto(r, "failed")
      BY <1>2 DEF CheckFinding
    <2>2. request' \in [Requests -> RequestState]
      BY <2>1, GotoType DEF Running
    <2>3. QED
      BY <1>2, <2>2 DEF CheckFinding, TypeOK
  <1>3. CASE SaveFeedbackLabel(r)
    BY <1>3, GotoType DEF SaveFeedbackLabel, TypeOK, Running
  <1>4. CASE UpdateFindingStatus(r)
    <2>1. request' \in [Requests -> RequestState]
      BY <1>4, GotoType DEF UpdateFindingStatus, Running
    <2>2. lock' \in [Findings -> Requests \cup {NoOne}]
      BY <1>4 DEF UpdateFindingStatus, TypeOK
    <2>3. QED
      BY <1>4, <2>1, <2>2 DEF UpdateFindingStatus, TypeOK
  <1>5. CASE CountAndPublish(r)
    <2>1. request' \in [Requests -> RequestState]
      BY <1>5, GotoType DEF CountAndPublish, Running
    <2>2. FeedbackCount(r) = Threshold =>
              [by |-> r, feedback_count |-> FeedbackCount(r)] \in Event
      BY DEF Event
    <2>3. buffer' \subseteq Event
      BY <1>5, <2>2 DEF CountAndPublish, TypeOK
    <2>4. QED
      BY <1>5, <2>1, <2>3 DEF CountAndPublish, TypeOK
  <1>6. CASE Commit(r)
    <2>1. request' \in [Requests -> RequestState]
      BY <1>6, GotoType DEF Commit, Running
    <2>2. labels' \in Seq(Requests)
      BY <1>6 DEF Commit, TypeOK
    <2>3. status' \in [Findings -> {"open"} \cup Action]
      BY <1>6 DEF Commit, TypeOK, RequestState
    <2>4. lock' \in [Findings -> Requests \cup {NoOne}]
      BY <1>6, ReleaseType DEF Commit
    <2>5. QED
      BY <1>6, <2>1, <2>2, <2>3, <2>4 DEF Commit, TypeOK
  <1>7. CASE RequestFails(r)
    BY <1>7, GotoType, ReleaseType DEF RequestFails, TypeOK, Running
  <1>8. QED
    BY <1>1, <1>2, <1>3, <1>4, <1>5, <1>6, <1>7 DEF Step

LEMMA ProducerType ==
    ASSUME TypeOK, Deliver \/ DeliveryFails \/ ApiCrash
    PROVE  TypeOK'
  <1>1. CASE Deliver
    <2>1. PICK e \in buffer : topic' = Append(topic, e) /\ buffer' = buffer \ {e}
      BY <1>1 DEF Deliver
    <2>2. topic' \in Seq(Event)
      BY <2>1 DEF TypeOK
    <2>3. QED
      BY <1>1, <2>1, <2>2 DEF Deliver, TypeOK
  <1>2. CASE DeliveryFails
    BY <1>2 DEF DeliveryFails, TypeOK
  <1>3. CASE ApiCrash
    <2>1. request' \in [Requests -> RequestState]
      BY <1>3 DEF ApiCrash, TypeOK, RequestState
    <2>2. QED
      BY <1>3, <2>1 DEF ApiCrash, TypeOK
  <1>4. QED
    BY <1>1, <1>2, <1>3

LEMMA TypesInit == Init => TypeOK
  <1> SUFFICES ASSUME Init PROVE TypeOK
    OBVIOUS
  <1>1. PICK f \in [Requests -> Findings], a \in [Requests -> Action] :
            request = [r \in Requests |->
                          [pc |-> "idle", finding |-> f[r], action |-> a[r]]]
    BY DEF Init
  <1>2. request \in [Requests -> RequestState]
    BY <1>1 DEF RequestState
  <1>3. QED
    BY <1>2 DEF Init, TypeOK

LEMMA TypesKept == TypeOK /\ [Next]_vars => TypeOK'
  <1> SUFFICES ASSUME TypeOK, [Next]_vars PROVE TypeOK'
    OBVIOUS
  <1>1. CASE UNCHANGED vars
    BY <1>1 DEF vars, TypeOK
  <1>2. QED
    BY <1>1, StepType, ProducerType DEF Next

\* Requests, locks, events and the committed rows keep their types.
THEOREM FeedbackTypes == Spec => []TypeOK
  BY TypesInit, TypesKept, PTL DEF Spec

-----------------------------------------------------------------------------
(* How early an event can be *)

LEMMA PublishedEvents ==
    ASSUME TypeOK
    PROVE  Published \subseteq Event
  <1>1. ToSet(topic) \subseteq Event
    BY DEF TypeOK, ToSet
  <1>2. QED
    BY <1>1 DEF TypeOK, Published

LEMMA AppendToSet ==
    ASSUME NEW S, NEW s \in Seq(S), NEW e \in S
    PROVE  ToSet(Append(s, e)) = ToSet(s) \cup {e}
  BY DEF ToSet

\* What EventAtMostOneLabelEarly says of an event of request r, n labels being
\* committed and r being at the statement pc.
NotEarlier(e, n, pc) ==
    n >= e.feedback_count - 1 /\ (n < e.feedback_count => pc # "done")

\* A step that publishes nothing new and neither adds a label nor completes a
\* request keeps events as early as they were.
LEMMA QuietStep ==
    ASSUME TypeOK, EventAtMostOneLabelEarly, labels' = labels,
           Published' \subseteq Published,
           \A r \in Requests : request'[r].pc = "done" => request[r].pc = "done"
    PROVE  EventAtMostOneLabelEarly'
  <1> SUFFICES ASSUME NEW e \in Published'
               PROVE  NotEarlier(e, Len(labels'), request'[e.by].pc)
    BY DEF EventAtMostOneLabelEarly, NotEarlier
  <1>1. e \in Published /\ e.by \in Requests
    BY PublishedEvents DEF Event
  <1>2. QED
    BY <1>1 DEF EventAtMostOneLabelEarly, NotEarlier

\* The event of the threshold is published while its request is still open and
\* one label short.
LEMMA PublishStep ==
    ASSUME TypeOK, EventAtMostOneLabelEarly, NEW r \in Requests, CountAndPublish(r)
    PROVE  EventAtMostOneLabelEarly'
  <1> SUFFICES ASSUME NEW e \in Published'
               PROVE  NotEarlier(e, Len(labels'), request'[e.by].pc)
    BY DEF EventAtMostOneLabelEarly, NotEarlier
  <1>1. request'[r].pc = "commit" /\ \A q \in Requests \ {r} : request'[q] = request[q]
    BY DEF CountAndPublish, Goto, TypeOK
  <1>2. labels' = labels /\ Len(labels) \in Nat
    BY DEF CountAndPublish, TypeOK
  <1>3. CASE e \in Published
    <2>1. e.by \in Requests
      BY <1>3, PublishedEvents DEF Event
    <2>2. QED
      BY <1>1, <1>2, <1>3, <2>1 DEF EventAtMostOneLabelEarly, NotEarlier
  <1>4. CASE e \notin Published
    <2>1. e = [by |-> r, feedback_count |-> FeedbackCount(r)]
      BY <1>4 DEF CountAndPublish, Published
    <2>2. QED
      BY <1>1, <1>2, <2>1 DEF NotEarlier, FeedbackCount
  <1>5. QED
    BY <1>3, <1>4

\* The commit that completes a request adds the label its event was short of.
LEMMA CommitStep ==
    ASSUME TypeOK, EventAtMostOneLabelEarly, NEW r \in Requests, Commit(r)
    PROVE  EventAtMostOneLabelEarly'
  <1> SUFFICES ASSUME NEW e \in Published'
               PROVE  NotEarlier(e, Len(labels'), request'[e.by].pc)
    BY DEF EventAtMostOneLabelEarly, NotEarlier
  <1>1. e \in Published
    BY DEF Commit, Published
  <1>2. e \in Event
    BY <1>1, PublishedEvents
  <1>3. e.feedback_count \in Nat
    BY <1>2 DEF Event
  <1>4. Len(labels') = Len(labels) + 1 /\ Len(labels) \in Nat
    BY DEF Commit, TypeOK
  <1>5. Len(labels) >= e.feedback_count - 1
    BY <1>1 DEF EventAtMostOneLabelEarly
  <1>6. QED
    BY <1>3, <1>4, <1>5 DEF NotEarlier

LEMMA RequestEarly ==
    ASSUME TypeOK, EventAtMostOneLabelEarly, NEW r \in Requests,
           Receive(r) \/ Step(r) \/ RequestFails(r)
    PROVE  EventAtMostOneLabelEarly'
  <1> DEFINE NoneDone == \A q \in Requests : request'[q].pc = "done" => request[q].pc = "done"
  <1>1. ASSUME NEW s, Goto(r, s), s # "done" PROVE NoneDone
    BY <1>1 DEF Goto, TypeOK
  <1>2. UNCHANGED <<buffer, topic, lost>> => Published' \subseteq Published
    BY DEF Published
  <1> HIDE DEF NoneDone
  <1>3. CASE Receive(r)
    BY <1>1, <1>2, <1>3, QuietStep DEF Receive, NoneDone
  <1>4. CASE CheckFinding(r)
    BY <1>1, <1>2, <1>4, QuietStep DEF CheckFinding, NoneDone
  <1>5. CASE SaveFeedbackLabel(r)
    BY <1>1, <1>2, <1>5, QuietStep DEF SaveFeedbackLabel, NoneDone
  <1>6. CASE UpdateFindingStatus(r)
    BY <1>1, <1>2, <1>6, QuietStep DEF UpdateFindingStatus, NoneDone
  <1>7. CASE RequestFails(r)
    BY <1>1, <1>2, <1>7, QuietStep DEF RequestFails, NoneDone
  <1>8. QED
    BY <1>3, <1>4, <1>5, <1>6, <1>7, PublishStep, CommitStep DEF Step

LEMMA ProducerEarly ==
    ASSUME TypeOK, EventAtMostOneLabelEarly, Deliver \/ DeliveryFails \/ ApiCrash
    PROVE  EventAtMostOneLabelEarly'
  <1>1. CASE Deliver
    <2>1. PICK e \in buffer : topic' = Append(topic, e) /\ buffer' = buffer \ {e}
      BY <1>1 DEF Deliver
    <2>2. ToSet(topic') = ToSet(topic) \cup {e}
      BY <2>1, AppendToSet DEF TypeOK
    <2>3. Published' \subseteq Published
      BY <1>1, <2>1, <2>2 DEF Deliver, Published
    <2>4. QED
      BY <1>1, <2>3, QuietStep DEF Deliver
  <1>2. CASE DeliveryFails
    <2>1. Published' \subseteq Published
      BY <1>2 DEF DeliveryFails, Published
    <2>2. QED
      BY <1>2, <2>1, QuietStep DEF DeliveryFails
  <1>3. CASE ApiCrash
    <2>1. Published' \subseteq Published
      BY <1>3 DEF ApiCrash, Published
    <2>2. \A q \in Requests : request'[q].pc = "done" => request[q].pc = "done"
      BY <1>3 DEF ApiCrash, TypeOK
    <2>3. QED
      BY <1>3, <2>1, <2>2, QuietStep DEF ApiCrash
  <1>4. QED
    BY <1>1, <1>2, <1>3

LEMMA EarlyInit == Init => EventAtMostOneLabelEarly
  BY DEF Init, EventAtMostOneLabelEarly, Published, ToSet

LEMMA EarlyKept == TypeOK /\ EventAtMostOneLabelEarly /\ [Next]_vars => EventAtMostOneLabelEarly'
  <1> SUFFICES ASSUME TypeOK, EventAtMostOneLabelEarly, [Next]_vars
               PROVE  EventAtMostOneLabelEarly'
    OBVIOUS
  <1>1. CASE UNCHANGED vars
    BY <1>1, QuietStep DEF vars, Published
  <1>2. QED
    BY <1>1, RequestEarly, ProducerEarly DEF Next

\* A retraining event is at most one committed label early, however many
\* requests overlap, fail or die with their process, and whatever the producer
\* loses: while the label it counts is missing, its request is not complete.
THEOREM EventsOnTime == Spec => []EventAtMostOneLabelEarly
  BY EarlyInit, EarlyKept, FeedbackTypes, PTL DEF Spec

-----------------------------------------------------------------------------
(* The status of a finding *)

\* A request names one finding and one action for good.
SameRequests ==
    \A r \in Requests : request'[r].finding = request[r].finding
                      /\ request'[r].action = request[r].action

LEMMA RequestsSame ==
    ASSUME TypeOK, [Next]_vars
    PROVE  SameRequests
  <1>1. ASSUME NEW r \in Requests, NEW s, Goto(r, s) PROVE SameRequests
    BY <1>1 DEF Goto, TypeOK, RequestState, SameRequests
  <1>2. ASSUME NEW r \in Requests, Receive(r) \/ Step(r) \/ RequestFails(r)
        PROVE  SameRequests
    <2>1. \E s : Goto(r, s)
      BY <1>2 DEF Receive, Step, RequestFails, CheckFinding, SaveFeedbackLabel,
                  UpdateFindingStatus, CountAndPublish, Commit
    <2>2. QED
      BY <1>1, <2>1
  <1>3. CASE ApiCrash
    BY <1>3 DEF ApiCrash, TypeOK, RequestState, SameRequests
  <1>4. CASE Deliver \/ DeliveryFails \/ UNCHANGED vars
    BY <1>4 DEF Deliver, DeliveryFails, vars, SameRequests
  <1>5. QED
    BY <1>2, <1>3, <1>4 DEF Next

\* Only a commit writes to the tables, and it writes to both.
LEMMA TablesChange ==
    ASSUME [Next]_vars
    PROVE  UNCHANGED <<labels, status>> \/ \E r \in Requests : Commit(r)
  BY DEF Next, Step, Receive, CheckFinding, SaveFeedbackLabel, UpdateFindingStatus,
         CountAndPublish, RequestFails, ApiCrash, Deliver, DeliveryFails, vars

LEMMA LabelsKept ==
    ASSUME TypeOK, SameRequests, labels' = labels, NEW f
    PROVE  /\ LabelsOf(f)' = LabelsOf(f)
           /\ \A i \in LabelsOf(f) : request'[labels'[i]].action = request[labels[i]].action
  <1>1. \A i \in DOMAIN labels : labels[i] \in Requests
    BY DEF TypeOK
  <1>2. QED
    BY <1>1 DEF SameRequests, LabelsOf

LEMMA LabelAdded ==
    ASSUME TypeOK, SameRequests, NEW r \in Requests, labels' = Append(labels, r),
           NEW n, n = Len(labels) + 1, NEW f
    PROVE  /\ LabelsOf(f)' = LabelsOf(f) \cup (IF f = request[r].finding THEN {n} ELSE {})
           /\ \A i \in DOMAIN labels : i < n /\ labels'[i] = labels[i]
           /\ labels'[n] = r /\ n \in Nat
  <1>1. /\ Len(labels) \in Nat /\ DOMAIN labels = 1..Len(labels)
        /\ DOMAIN labels' = DOMAIN labels \cup {n} /\ labels'[n] = r
        /\ \A i \in DOMAIN labels : i < n /\ labels'[i] = labels[i] /\ labels[i] \in Requests
    BY DEF TypeOK
  <1>2. LabelsOf(f)' = LabelsOf(f) \cup (IF f = request[r].finding THEN {n} ELSE {})
    BY <1>1 DEF LabelsOf, SameRequests
  <1>3. QED
    BY <1>1, <1>2

\* However requests that label the same findings overlap, wait and fail, what
\* is committed agrees: the status of a finding is the action of its last label.
THEOREM StatusAgrees == Spec => []StatusIsLastLabel
  <1>1. Init => StatusIsLastLabel
    BY DEF Init, StatusIsLastLabel, LabelsOf
  <1>2. TypeOK /\ StatusIsLastLabel /\ [Next]_vars => StatusIsLastLabel'
    <2> SUFFICES ASSUME TypeOK, StatusIsLastLabel, [Next]_vars, NEW f \in Findings
                 PROVE  (\/ LabelsOf(f) = {} /\ status[f] = "open"
                         \/ \E i \in LabelsOf(f) :
                               /\ \A j \in LabelsOf(f) : j <= i
                               /\ status[f] = request[labels[i]].action)'
      BY DEF StatusIsLastLabel
    <2>1. SameRequests
      BY RequestsSame
    <2>2. CASE UNCHANGED <<labels, status>>
      BY <2>1, <2>2, LabelsKept DEF StatusIsLastLabel
    <2>3. ASSUME NEW r \in Requests, Commit(r), f = request[r].finding
          PROVE  \E i \in LabelsOf(f)' :
                    /\ \A j \in LabelsOf(f)' : j <= i
                    /\ status'[f] = request'[labels'[i]].action
      <3> DEFINE n == Len(labels) + 1
      <3>0. labels' = Append(labels, r)
        BY <2>3 DEF Commit
      <3>1. /\ LabelsOf(f)' = LabelsOf(f) \cup {n} /\ labels'[n] = r /\ n \in Nat
            /\ \A i \in DOMAIN labels : i < n
        <4> HIDE DEF n
        <4>1. n = Len(labels) + 1
          BY DEF n
        <4>2. QED
          BY <2>1, <2>3, <3>0, <4>1, LabelAdded, SMT
      <3> HIDE DEF n
      <3>2. \A j \in LabelsOf(f)' : j <= n
        <4>1. \A j \in LabelsOf(f) : j \in DOMAIN labels /\ j \in Nat
          BY DEF LabelsOf, TypeOK
        <4>2. QED
          BY <3>1, <4>1
      <3>3. status'[f] = request'[labels'[n]].action
        BY <2>1, <2>3, <3>1 DEF Commit, TypeOK, SameRequests
      <3>4. QED
        BY <3>1, <3>2, <3>3
    <2>4. ASSUME NEW r \in Requests, Commit(r), f # request[r].finding
          PROVE  /\ LabelsOf(f)' = LabelsOf(f) /\ status'[f] = status[f]
                 /\ \A i \in LabelsOf(f) :
                        request'[labels'[i]].action = request[labels[i]].action
      <3>1. /\ LabelsOf(f)' = LabelsOf(f)
            /\ \A i \in DOMAIN labels : labels'[i] = labels[i] /\ labels[i] \in Requests
        <4> DEFINE n == Len(labels) + 1
        <4>1. labels' = Append(labels, r) /\ n = Len(labels) + 1
          BY <2>4 DEF Commit
        <4> HIDE DEF n
        <4>2. /\ LabelsOf(f)' =
                     LabelsOf(f) \cup (IF f = request[r].finding THEN {n} ELSE {})
              /\ \A i \in DOMAIN labels : labels'[i] = labels[i]
          BY <2>1, <4>1, LabelAdded
        <4>3. QED
          BY <2>4, <4>2 DEF TypeOK
      <3>2. status'[f] = status[f]
        BY <2>4 DEF Commit, TypeOK
      <3>3. QED
        BY <2>1, <3>1, <3>2 DEF LabelsOf, SameRequests
    <2>5. QED
      BY <2>2, <2>3, <2>4, TablesChange DEF StatusIsLastLabel
  <1>3. QED
    BY <1>1, <1>2, FeedbackTypes, PTL DEF Spec

-----------------------------------------------------------------------------
(* From the request to the retraining *)

\* Whoever has published has counted its label: it is about to commit, has
\* committed or has failed.
PublishersCounted ==
    \A e \in buffer \cup ToSet(topic) : request[e.by].pc \in {"commit", "failed", "done"}

ConsumerTypes ==
    /\ fbConsumer \in [pc : {"poll", "handle", "stopped"}, position : Nat, stored : Nat]
    /\ fbCommitted \in Nat
    /\ fbWorkflow \in [{FeedbackId} -> [state : {"none", "open", "closed"}, runs : Nat]]

\* The consumer has a message in hand, or a run has been started, only if there
\* is a message.
RunsHaveEvents ==
    fbConsumer.pc = "handle" \/ fbWorkflow[FeedbackId].runs > 0 => topic # <<>>

IInv ==
    /\ TypeOK /\ EventAtMostOneLabelEarly /\ PublishersCounted
    /\ ConsumerTypes /\ RunsHaveEvents

\* Only a request that has counted and not committed publishes; from then on
\* it can only commit or fail.
LEMMA CountedStep ==
    ASSUME TypeOK, PublishersCounted, [Next]_vars
    PROVE  PublishersCounted'
  <1> DEFINE Held == buffer \cup ToSet(topic)
             Gone == {"commit", "failed", "done"}
  <1>1. \A e \in Held : e.by \in Requests
    <2>1. ToSet(topic) \subseteq Event
      BY DEF TypeOK, ToSet
    <2>2. QED
      BY <2>1 DEF TypeOK, Event
  <1>2. ASSUME NEW r \in Requests, Receive(r) \/ Step(r) \/ RequestFails(r)
        PROVE  /\ topic' = topic
               /\ \A q \in Requests : request[q].pc \in Gone => request'[q].pc \in Gone
               /\ \/ buffer' \subseteq buffer
                  \/ /\ request'[r].pc = "commit"
                     /\ \A e \in buffer' : e \in buffer \/ e.by = r
    <2>1. ASSUME NEW s, Goto(r, s), s \in Gone \/ request[r].pc \notin Gone
          PROVE  \A q \in Requests : request[q].pc \in Gone => request'[q].pc \in Gone
      BY <2>1 DEF Goto, TypeOK, RequestState
    <2>2. CASE CountAndPublish(r)
      <3>1. request'[r].pc = "commit"
        BY <2>2 DEF CountAndPublish, Goto, TypeOK, RequestState
      <3>2. QED
        BY <2>1, <2>2, <3>1 DEF CountAndPublish
    <2>3. CASE Receive(r) \/ CheckFinding(r) \/ SaveFeedbackLabel(r) \/ UpdateFindingStatus(r)
      BY <2>1, <2>3 DEF Receive, CheckFinding, SaveFeedbackLabel, UpdateFindingStatus
    <2>4. CASE Commit(r) \/ RequestFails(r)
      BY <2>1, <2>4 DEF Commit, RequestFails
    <2>5. QED
      BY <1>2, <2>2, <2>3, <2>4 DEF Step
  <1>3. CASE ApiCrash
    <2>1. \A q \in Requests : request[q].pc \in Gone => request'[q].pc \in Gone
      BY <1>3 DEF ApiCrash, TypeOK, RequestState, Running
    <2>2. QED
      BY <1>1, <1>3, <2>1 DEF ApiCrash, PublishersCounted
  <1>4. CASE Deliver
    <2>1. PICK e \in buffer : topic' = Append(topic, e) /\ buffer' = buffer \ {e}
      BY <1>4 DEF Deliver
    <2>2. ToSet(topic') = ToSet(topic) \cup {e}
      BY <2>1, AppendToSet DEF TypeOK
    <2>3. QED
      BY <1>4, <2>1, <2>2 DEF Deliver, PublishersCounted
  <1>5. CASE DeliveryFails \/ UNCHANGED vars
    BY <1>5 DEF DeliveryFails, vars, PublishersCounted
  <1>6. QED
    BY <1>1, <1>2, <1>3, <1>4, <1>5 DEF Next, PublishersCounted

LEMMA TopicKept ==
    ASSUME TypeOK, [Next]_vars
    PROVE  topic # <<>> => topic' # <<>>
  <1>1. topic' = topic \/ \E e \in buffer : topic' = Append(topic, e)
    BY DEF Next, Step, Receive, CheckFinding, SaveFeedbackLabel, UpdateFindingStatus,
           CountAndPublish, Commit, RequestFails, ApiCrash, Deliver, DeliveryFails, vars
  <1>2. QED
    BY <1>1 DEF TypeOK

-----------------------------------------------------------------------------
(* The consumer and its workflow *)

\* With a message on the topic nothing that the consumer or Temporal does can
\* take the events away; without one there is nothing to handle.
LEMMA ConsumerStep ==
    ASSUME TypeOK, ConsumerTypes, RunsHaveEvents, UNCHANGED vars,
           \/ FeedbackBridge!ConsumerStep \/ FeedbackBridge!AutoCommit
           \/ FeedbackBridge!WorkflowCloses(FeedbackId)
           \/ FeedbackBridge!Crash \/ FeedbackBridge!Restart
           \/ FeedbackBridge!HandlerCancelled
    PROVE  ConsumerTypes' /\ RunsHaveEvents'
  <1> DEFINE empty == topic = <<>>
             Events == [i \in 1..Len(topic) |-> i]
  <1>1. topic' = topic /\ Len(topic) \in Nat /\ Len(Events) = Len(topic)
        /\ (empty => Len(topic) = 0)
    BY DEF vars, TypeOK
  <1>2. \A w \in {FeedbackId} : w = FeedbackId
    OBVIOUS
  <1>3. CASE FeedbackBridge!Poll
    <2>1. fbConsumer.position < Len(Events)
      BY <1>3 DEF FeedbackBridge!Poll
    <2>2. topic # <<>>
      BY <1>1, <2>1 DEF ConsumerTypes
    <2>3. QED
      BY <1>1, <1>3, <2>2 DEF FeedbackBridge!Poll, ConsumerTypes, RunsHaveEvents
  <1>4. CASE FeedbackBridge!IgnoreForeign
    BY <1>1, <1>4 DEF FeedbackBridge!IgnoreForeign, FeedbackBridge!HandlerReturns,
       ConsumerTypes, RunsHaveEvents
  <1>5. CASE FeedbackBridge!StartWorkflow
    <2>1. topic # <<>>
      BY <1>5 DEF FeedbackBridge!StartWorkflow, RunsHaveEvents
    <2>2. fbConsumer' = [fbConsumer EXCEPT !.pc = "poll"] /\ fbCommitted' = fbCommitted
      BY <1>5 DEF FeedbackBridge!StartWorkflow, FeedbackBridge!HandlerReturns
    <2>3. fbWorkflow' = fbWorkflow \/ fbWorkflow' = FeedbackBridge!Started(FeedbackId)
      BY <1>5 DEF FeedbackBridge!StartWorkflow
    <2>4. FeedbackBridge!Started(FeedbackId) \in
              [{FeedbackId} -> [state : {"none", "open", "closed"}, runs : Nat]]
      BY DEF FeedbackBridge!Started, ConsumerTypes
    <2>5. QED
      BY <1>1, <2>1, <2>2, <2>3, <2>4 DEF ConsumerTypes, RunsHaveEvents
  <1>6. CASE FeedbackBridge!HandlerRaises \/ FeedbackBridge!HandlerCancelled
    <2>1. topic # <<>>
      BY <1>6 DEF FeedbackBridge!HandlerRaises, FeedbackBridge!HandlerCancelled, RunsHaveEvents
    <2>2. /\ fbConsumer' = [fbConsumer EXCEPT !.pc = "stopped"]
          /\ fbCommitted' \in {fbCommitted, fbConsumer.stored}
      BY <1>6 DEF FeedbackBridge!HandlerRaises, FeedbackBridge!HandlerCancelled,
         FeedbackBridge!LeaveLoop
    <2>3. fbWorkflow' = fbWorkflow \/ fbWorkflow' = FeedbackBridge!Started(FeedbackId)
      BY <1>6 DEF FeedbackBridge!HandlerRaises, FeedbackBridge!HandlerCancelled,
         FeedbackBridge!PerhapsStarted
    <2>4. FeedbackBridge!Started(FeedbackId) \in
              [{FeedbackId} -> [state : {"none", "open", "closed"}, runs : Nat]]
      BY DEF FeedbackBridge!Started, ConsumerTypes
    <2>5. QED
      BY <1>1, <2>1, <2>2, <2>3, <2>4 DEF ConsumerTypes, RunsHaveEvents
  <1>7. CASE FeedbackBridge!AutoCommit
    BY <1>1, <1>7 DEF FeedbackBridge!AutoCommit, ConsumerTypes, RunsHaveEvents
  <1>8. CASE FeedbackBridge!WorkflowCloses(FeedbackId)
    BY <1>1, <1>8 DEF FeedbackBridge!WorkflowCloses, ConsumerTypes, RunsHaveEvents
  <1>9. CASE FeedbackBridge!Crash \/ FeedbackBridge!Restart
    BY <1>1, <1>9 DEF FeedbackBridge!Crash, FeedbackBridge!Restart, ConsumerTypes,
       RunsHaveEvents
  <1>10. QED
    BY <1>3, <1>4, <1>5, <1>6, <1>7, <1>8, <1>9 DEF FeedbackBridge!ConsumerStep

LEMMA ConsumerKept ==
    ASSUME ConsumerTypes, RunsHaveEvents, UNCHANGED fbVars, topic # <<>> => topic' # <<>>
    PROVE  ConsumerTypes' /\ RunsHaveEvents'
  BY DEF ConsumerTypes, RunsHaveEvents, fbVars

LEMMA RequestsStep ==
    ASSUME TypeOK, EventAtMostOneLabelEarly, PublishersCounted, [Next]_vars
    PROVE  TypeOK' /\ EventAtMostOneLabelEarly' /\ PublishersCounted'
  BY TypesKept, EarlyKept, CountedStep

LEMMA TriggersStep == IInv /\ [TriggersNext]_allVars => IInv'
  <1> SUFFICES ASSUME IInv, [TriggersNext]_allVars PROVE IInv'
    OBVIOUS
  <1> USE DEF IInv
  <1>1. CASE FeedbackRequests
    BY <1>1, RequestsStep, TopicKept, ConsumerKept DEF FeedbackRequests
  <1>2. ASSUME UNCHANGED vars,
               \/ UNCHANGED fbVars
               \/ FeedbackBridge!ConsumerStep \/ FeedbackBridge!AutoCommit
               \/ FeedbackBridge!WorkflowCloses(FeedbackId)
               \/ FeedbackBridge!Crash \/ FeedbackBridge!Restart
               \/ FeedbackBridge!HandlerCancelled
        PROVE  IInv'
    <2>1. topic # <<>> => topic' # <<>>
      BY <1>2 DEF vars
    <2>2. QED
      BY <1>2, <2>1, RequestsStep, ConsumerKept, ConsumerStep
  <1>3. CASE DriftDetected \/ DriftConsumer \/ UNCHANGED allVars
    <2>1. UNCHANGED <<vars, fbVars>>
      BY <1>3 DEF DriftDetected, DriftConsumer, allVars
    <2>2. QED
      BY <1>2, <2>1
  <1>4. CASE FeedbackConsumer
    BY <1>2, <1>4 DEF FeedbackConsumer, FeedbackBridge!ConsumerStep
  <1>5. CASE RetrainingEnds
    BY <1>2, <1>5 DEF RetrainingEnds
  <1>6. CASE CrashProcess \/ RestartProcess \/ Teardown \/ LoopCloses
    BY <1>2, <1>6 DEF CrashProcess, RestartProcess, Teardown, LoopCloses
  <1>7. QED
    BY <1>1, <1>3, <1>4, <1>5, <1>6 DEF TriggersNext

\* Whatever requests overlap, fail or die, and whatever is lost or delivered
\* again on the way to the consumer: a feedback retraining has run only if the
\* building has the labels of the threshold, or all but that of a request that
\* is about to commit it or has failed.
THEOREM RetrainingsAreJustified == TriggersSpec => []RetrainingJustified
  <1>1. TriggersInit => IInv
    <2> SUFFICES ASSUME TriggersInit PROVE IInv
      OBVIOUS
    <2>1. TypeOK /\ EventAtMostOneLabelEarly
      BY TypesInit, EarlyInit DEF TriggersInit
    <2>2. PublishersCounted
      BY DEF TriggersInit, Init, PublishersCounted, ToSet
    <2>3. ConsumerTypes /\ RunsHaveEvents
      BY DEF TriggersInit, FeedbackBridge!Init, ConsumerTypes, RunsHaveEvents
    <2>4. QED
      BY <2>1, <2>2, <2>3 DEF IInv
  <1>2. IInv => RetrainingJustified
    <2> SUFFICES ASSUME IInv, fbWorkflow[FeedbackId].runs > 0
                 PROVE  /\ Len(labels) >= Threshold - 1
                        /\ Len(labels) < Threshold =>
                               \E r \in Requests : request[r].pc \in {"commit", "failed"}
      BY DEF RetrainingJustified
    <2>1. topic \in Seq(Event) /\ topic # <<>>
      BY DEF IInv, TypeOK, RunsHaveEvents
    <2>2. topic[1] \in Event /\ topic[1] \in ToSet(topic)
      BY <2>1 DEF ToSet
    <2>3. /\ topic[1].by \in Requests /\ topic[1].feedback_count = Threshold
          /\ topic[1] \in Published
      BY <2>2 DEF Event, Published
    <2>4. QED
      BY <2>2, <2>3 DEF IInv, EventAtMostOneLabelEarly, PublishersCounted
  <1>3. QED
    BY <1>1, <1>2, TriggersStep, PTL DEF TriggersSpec

-----------------------------------------------------------------------------
(* The composition adds no behaviour to its parts *)

LEMMA DriftStep ==
    [TriggersNext]_allVars => [DriftBridge!Next]_(DriftBridge!vars)
  <1> SUFFICES ASSUME [TriggersNext]_allVars PROVE [DriftBridge!Next]_(DriftBridge!vars)
    OBVIOUS
  <1>1. CASE UNCHANGED drVars
    BY <1>1 DEF drVars, DriftBridge!vars
  <1>2. CASE DriftDetected
    BY <1>2 DEF DriftDetected, DriftBridge!Next, DriftBridge!Message
  <1>3. CASE DriftConsumer
    BY <1>3 DEF DriftConsumer, DriftBridge!Next, DriftBridge!Work, DriftBridge!ConsumerStep
  <1>4. CASE \E w \in DriftIds : DriftBridge!WorkflowCloses(w)
    BY <1>4 DEF DriftBridge!Next, DriftBridge!Work
  <1>5. CASE DriftBridge!Crash \/ DriftBridge!Restart \/ DriftBridge!HandlerCancelled
    BY <1>5 DEF DriftBridge!Next, DriftBridge!Work
  <1>6. QED
    BY <1>1, <1>2, <1>3, <1>4, <1>5
    DEF TriggersNext, FeedbackRequests, FeedbackConsumer, RetrainingEnds, Teardown,
        LoopCloses, CrashProcess, RestartProcess, allVars

\* The composition implements FeedbackLoop and the drift detector's bridge:
\* what holds of either alone holds of it in the composition, although the two
\* consumers share a process that is killed and restarted as a whole and whose
\* event loop the failure of one takes away from the other.
THEOREM PartsImplemented == TriggersSpec => Spec /\ DriftBridge!Spec
  <1>1. TriggersInit => Init /\ DriftBridge!Init
    BY DEF TriggersInit
  <1>2. [TriggersNext]_allVars => [Next]_vars
    BY DEF TriggersNext, FeedbackRequests, DriftDetected, FeedbackConsumer, DriftConsumer,
           RetrainingEnds, Teardown, LoopCloses, CrashProcess, RestartProcess, allVars
  <1>3. QED
    BY <1>1, <1>2, DriftStep, PTL DEF TriggersSpec, Spec, DriftBridge!Spec

==============================================================================
