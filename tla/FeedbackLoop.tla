---------------------------- MODULE FeedbackLoop ----------------------------
(***************************************************************************)
(* POST /feedback: services/feedback/{service,repository}.py under the     *)
(* request-scoped session of apps/api/dependencies.py, for the findings of *)
(* one building.                                                           *)
(*                                                                         *)
(* A request runs its SQL statements in one READ COMMITTED transaction and *)
(* awaits each of them, so requests interleave statement by statement.     *)
(* UPDATE takes the finding's row lock until the transaction ends.  The    *)
(* retraining event goes to the producer's buffer as soon as the count     *)
(* equals the threshold, before the transaction commits.                   *)
(***************************************************************************)
EXTENDS Integers, Sequences, FiniteSets, SequencesExt

CONSTANTS
    Requests,          \* feedback requests, each sent once
    Findings,          \* the building's findings that feedback may name
    Bundled,           \* those that exist with an explainability bundle
    Threshold,         \* RETRAINING_THRESHOLD
    NoOne              \* no request holds the row lock

ASSUME BundledAssumption == Bundled \subseteq Findings
ASSUME ThresholdAssumption == Threshold \in Nat \ {0}
ASSUME NoOneAssumption == NoOne \notin Requests

VARIABLES
    request,           \* per request: its statement pointer, finding and action
    labels,            \* committed feedback labels in the order of their commits
    status,            \* committed status of each finding
    lock,              \* request holding the finding's row lock, or NoOne
    buffer,            \* events in the API process's Kafka producer
    topic,             \* events on topic_retraining_eligible, oldest first
    lost               \* events published that never reached the topic

vars == <<request, labels, status, lock, buffer, topic, lost>>

Action == {"confirmed", "dismissed"}
Running == {"check", "insert", "update", "count", "commit"}

RequestState ==
    [pc : {"idle", "done", "failed"} \cup Running,
     finding : Findings, action : Action]

\* A RetrainingEligibleEvent: the request that published it, and its count.
Event == [by : Requests, feedback_count : {Threshold}]

TypeOK ==
    /\ request \in [Requests -> RequestState]
    /\ labels \in Seq(Requests)
    /\ status \in [Findings -> {"open"} \cup Action]
    /\ lock \in [Findings -> Requests \cup {NoOne}]
    /\ buffer \subseteq Event
    /\ topic \in Seq(Event)
    /\ lost \subseteq Event

Init ==
    /\ \E f \in [Requests -> Findings], a \in [Requests -> Action] :
        request = [r \in Requests |->
                      [pc |-> "idle", finding |-> f[r], action |-> a[r]]]
    /\ labels = <<>>
    /\ status = [f \in Findings |-> "open"]
    /\ lock = [f \in Findings |-> NoOne]
    /\ buffer = {}
    /\ topic = <<>>
    /\ lost = {}

-----------------------------------------------------------------------------

\* The request enters `stage' of record_feedback.
Goto(r, stage) == request' = [request EXCEPT ![r].pc = stage]

\* The transaction of r ends: PostgreSQL releases the row locks it holds.
ReleaseLocks(r) ==
    lock' = [f \in Findings |-> IF lock[f] = r THEN NoOne ELSE lock[f]]

Receive(r) ==
    /\ request[r].pc = "idle"
    /\ Goto(r, "check")
    /\ UNCHANGED <<labels, status, lock, buffer, topic, lost>>

\* get_finding_for_feedback and the three errors raised before any write.
CheckFinding(r) ==
    /\ request[r].pc = "check"
    /\ Goto(r, IF request[r].finding \in Bundled THEN "insert" ELSE "failed")
    /\ UNCHANGED <<labels, status, lock, buffer, topic, lost>>

\* The new row is invisible to other transactions until the commit.
SaveFeedbackLabel(r) ==
    /\ request[r].pc = "insert"
    /\ Goto(r, "update")
    /\ UNCHANGED <<labels, status, lock, buffer, topic, lost>>

\* Mutant: the UPDATE runs in a transaction of its own.
UpdateAtOnce(r) ==
    LET f == request[r].finding IN
    /\ request[r].pc = "update"
    /\ lock[f] = NoOne
    /\ status' = [status EXCEPT ![f] = request[r].action]
    /\ Goto(r, "count")
    /\ UNCHANGED <<labels, lock, buffer, topic, lost>>

\* UPDATE findings: waits for the row lock, and keeps it.
UpdateFindingStatus(r) ==
    LET f == request[r].finding IN
    /\ request[r].pc = "update"
    /\ lock[f] = NoOne
    /\ lock' = [lock EXCEPT ![f] = r]
    /\ Goto(r, "count")
    /\ UNCHANGED <<labels, status, buffer, topic, lost>>

Inserted == {r \in Requests : request[r].pc \in {"update", "count", "commit"}}

\* Mutant: counts the labels of transactions still open.
CountUncommitted(r) == Len(labels) + Cardinality(Inserted)

\* COUNT(*) sees the committed labels and the request's own.
FeedbackCount(r) == Len(labels) + 1

\* count_feedback_for_building, and the event if the count is the threshold.
CountAndPublish(r) ==
    /\ request[r].pc = "count"
    /\ buffer' = buffer \cup
           (IF FeedbackCount(r) = Threshold
            THEN {[by |-> r, feedback_count |-> FeedbackCount(r)]} ELSE {})
    /\ Goto(r, "commit")
    /\ UNCHANGED <<labels, status, lock, topic, lost>>

\* get_tenant_scoped_session commits once the handler has returned.
Commit(r) ==
    LET f == request[r].finding IN
    /\ request[r].pc = "commit"
    /\ labels' = Append(labels, r)
    /\ status' = [status EXCEPT ![f] = request[r].action]
    /\ ReleaseLocks(r)
    /\ Goto(r, "done")
    /\ UNCHANGED <<buffer, topic, lost>>

\* Mutant: the session is not closed when a statement raises.
RequestFailsOpen(r) ==
    /\ request[r].pc \in Running
    /\ Goto(r, "failed")
    /\ UNCHANGED <<labels, status, lock, buffer, topic, lost>>

\* A statement or the commit raises: the session's exit rolls back.
RequestFails(r) ==
    /\ request[r].pc \in Running
    /\ ReleaseLocks(r)
    /\ Goto(r, "failed")
    /\ UNCHANGED <<labels, status, buffer, topic, lost>>

\* The API process dies: open transactions roll back, and the events still in
\* the producer's buffer are gone (apps/api/main.py never flushes it).
ApiCrash ==
    /\ \/ \E r \in Requests : request[r].pc \in Running
       \/ buffer # {}
    /\ request' = [r \in Requests |->
           IF request[r].pc \in Running THEN [request[r] EXCEPT !.pc = "failed"]
           ELSE request[r]]
    /\ lock' = [f \in Findings |-> NoOne]
    /\ buffer' = {}
    /\ lost' = lost \cup buffer
    /\ UNCHANGED <<labels, status, topic>>

\* librdkafka's background thread delivers an event to the broker.
Deliver ==
    /\ \E e \in buffer :
        /\ topic' = Append(topic, e)
        /\ buffer' = buffer \ {e}
    /\ UNCHANGED <<request, labels, status, lock, lost>>

\* Delivery fails for good: _delivery_callback only logs it.
DeliveryFails ==
    /\ \E e \in buffer :
        /\ buffer' = buffer \ {e}
        /\ lost' = lost \cup {e}
    /\ UNCHANGED <<request, labels, status, lock, topic>>

Step(r) ==
    \/ CheckFinding(r) \/ SaveFeedbackLabel(r) \/ UpdateFindingStatus(r)
    \/ CountAndPublish(r) \/ Commit(r)

Next ==
    \/ \E r \in Requests : Receive(r) \/ Step(r) \/ RequestFails(r)
    \/ Deliver
    \/ DeliveryFails
    \/ ApiCrash

Spec == Init /\ [][Next]_vars

\* The event loop resumes a request whose statement has returned, and the
\* producer's thread keeps sending; clients, crashes and errors owe nothing.
FairSpec ==
    /\ Spec
    /\ \A r \in Requests : WF_vars(Step(r))
    /\ WF_vars(Deliver)

-----------------------------------------------------------------------------
(* Properties that hold *)

\* The places of the labels given to f.
LabelsOf(f) == {i \in DOMAIN labels : request[labels[i]].finding = f}

\* The finding's status is the action of the label committed last, although the
\* two are written by different statements of concurrent requests that may fail
\* after either: service.py writes both in one transaction under the row lock.
StatusIsLastLabel ==
    \A f \in Findings :
        \/ LabelsOf(f) = {} /\ status[f] = "open"
        \/ \E i \in LabelsOf(f) :
              (\A j \in LabelsOf(f) : j <= i) /\ status[f] = request[labels[i]].action

Published == buffer \cup ToSet(topic) \cup lost

\* An event may precede the commit of the request that published it, but it is
\* never more than that one label early, however requests overlap or fail.
EventAtMostOneLabelEarly ==
    \A e \in Published :
        /\ Len(labels) >= e.feedback_count - 1
        /\ Len(labels) < e.feedback_count => request[e.by].pc # "done"

\* Requests that label the same finding wait for each other's row lock, also
\* for that of a request that fails while it holds it; each one still ends.
RequestsEnd ==
    \A r \in Requests :
        request[r].pc \in Running ~> request[r].pc \in {"done", "failed"}

-----------------------------------------------------------------------------
(* A statement of the documentation that the code does not keep *)

Quiet == \A r \in Requests : request[r].pc \in {"idle", "done"}

\* service.py: an event is fired at the threshold crossing.  (In a state where
\* no request has failed or is still running.)
FiresAtCrossing == Quiet /\ Len(labels) >= Threshold => Published # {}

=============================================================================
