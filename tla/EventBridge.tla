----------------------------- MODULE EventBridge -----------------------------
(***************************************************************************)
(* A topic, its producer and consumer and the workflows that are started:  *)
(* orchestration/events/kafka/{producer,consumer,analysis_trigger,         *)
(* drift_retraining_trigger,feedback_retraining_trigger}.py and            *)
(* apps/worker/{event_consumer,retraining_event_consumer}.py.              *)
(*                                                                         *)
(* With enable.auto.commit the client library stores a message's offset    *)
(* when poll() returns it, before the handler runs, and commits the stored *)
(* offset in the background and in close().  Offsets are counts of         *)
(* messages.  One action of the consumer is one poll or one handler call.  *)
(* publish() leaves a message in the producer's buffer; its background     *)
(* thread delivers it.  No process calls flush() before it ends.           *)
(***************************************************************************)
EXTENDS Integers, Sequences, FiniteSets

CONSTANTS
    WorkflowIds,       \* workflow ids that _workflow_id_for derives from events
    Foreign,           \* a message of another event_type
    Malformed,         \* a message that does not deserialize
    MaxMessages,       \* bound on the messages published
    MaxFailures        \* bound on crashes and failed calls

ASSUME MessageKindsAssumption == {Foreign, Malformed} \cap WorkflowIds = {}
ASSUME BridgeBoundsAssumption == MaxMessages \in Nat /\ MaxFailures \in Nat

VARIABLES
    published,         \* messages published so far, oldest first
    buffer,            \* the producer's buffer: messages by their number
    dropped,           \* messages that never reach the topic
    log,               \* the topic's partition: messages by their number
    consumer,          \* the consumer process and its offsets
    committed,         \* offset committed to the broker for the consumer group
    workflow,          \* Temporal: state and number of runs of each workflow id
    handled,           \* offsets of the messages a handler has finished with
    failures           \* crashes and failed handler calls so far

vars == <<published, buffer, dropped, log, consumer, committed, workflow, handled, failures>>

producer == <<published, buffer, dropped>>

Message == WorkflowIds \cup {Foreign, Malformed}

Numbers == 1..Len(published)

TypeOK ==
    /\ published \in Seq(Message)
    /\ buffer \in Seq(Numbers) /\ log \in Seq(Numbers) /\ dropped \subseteq Numbers
    /\ consumer \in [pc : {"poll", "handle", "stopped"}, position : Nat, stored : Nat]
    /\ committed \in Nat
    /\ workflow \in [WorkflowIds -> [state : {"none", "open", "closed"}, runs : Nat]]
    /\ handled \subseteq Nat
    /\ failures \in Nat

Init ==
    /\ published = <<>> /\ buffer = <<>> /\ dropped = {} /\ log = <<>>
    /\ consumer = [pc |-> "poll", position |-> 0, stored |-> 0]
    /\ committed = 0
    /\ workflow = [w \in WorkflowIds |-> [state |-> "none", runs |-> 0]]
    /\ handled = {}
    /\ failures = 0

-----------------------------------------------------------------------------

\* publish: produce() copies the message to the buffer and returns.
Publish(m) ==
    /\ Len(published) < MaxMessages
    /\ published' = Append(published, m)
    /\ buffer' = Append(buffer, Len(published) + 1)
    /\ UNCHANGED <<dropped, log, consumer, committed, workflow, handled, failures>>

\* Mutant: a failed delivery leaves its message in front of the others, for
\* good once it is too old to be sent.
DeliverFresh ==
    /\ buffer # <<>> /\ failures = 0
    /\ log' = Append(log, Head(buffer))
    /\ buffer' = Tail(buffer)
    /\ UNCHANGED <<published, dropped, consumer, committed, workflow, handled, failures>>

\* The background thread delivers the oldest message.
Deliver ==
    /\ buffer # <<>>
    /\ log' = Append(log, Head(buffer))
    /\ buffer' = Tail(buffer)
    /\ UNCHANGED <<published, dropped, consumer, committed, workflow, handled, failures>>

\* The broker has the message but its answer is lost: it is sent once more,
\* because the producer is not idempotent.
DeliverUnanswered ==
    /\ buffer # <<>>
    /\ failures < MaxFailures
    /\ log' = Append(log, Head(buffer))
    /\ failures' = failures + 1
    /\ UNCHANGED <<producer, consumer, committed, workflow, handled>>

\* A delivery fails for good: _delivery_callback logs it.
DeliveryFails ==
    /\ buffer # <<>>
    /\ failures < MaxFailures
    /\ dropped' = dropped \cup {Head(buffer)}
    /\ buffer' = Tail(buffer)
    /\ failures' = failures + 1
    /\ UNCHANGED <<published, log, consumer, committed, workflow, handled>>

\* The publishing process ends, for whatever reason, with its buffer.
ProducerEnds ==
    /\ buffer # <<>>
    /\ failures < MaxFailures
    /\ dropped' = dropped \cup {buffer[i] : i \in DOMAIN buffer}
    /\ buffer' = <<>>
    /\ failures' = failures + 1
    /\ UNCHANGED <<published, log, consumer, committed, workflow, handled>>

\* Mutant: the offset of the message returned is not stored.
PollUnstored ==
    /\ consumer.pc = "poll"
    /\ consumer.position < Len(log)
    /\ consumer' = [consumer EXCEPT !.pc = "handle", !.position = consumer.stored + 1]
    /\ UNCHANGED <<producer, log, committed, workflow, handled, failures>>

\* consume_loop: poll() returns the next message and stores its offset.
Poll ==
    /\ consumer.pc = "poll"
    /\ consumer.position < Len(log)
    /\ consumer' = [pc |-> "handle", position |-> consumer.position + 1,
                    stored |-> consumer.position + 1]
    /\ UNCHANGED <<producer, log, committed, workflow, handled, failures>>

\* The client library's periodic commit of the stored offset.
AutoCommit ==
    /\ consumer.pc # "stopped"
    /\ committed # consumer.stored
    /\ committed' = consumer.stored
    /\ UNCHANGED <<producer, log, consumer, workflow, handled, failures>>

InHand == published[log[consumer.position]]

\* The handler returns; consume_loop polls again.
HandlerReturns ==
    /\ consumer' = [consumer EXCEPT !.pc = "poll"]
    /\ handled' = handled \cup {consumer.position}

\* A message of another type is logged and ignored.
IgnoreForeign ==
    /\ consumer.pc = "handle"
    /\ InHand = Foreign
    /\ HandlerReturns
    /\ UNCHANGED <<producer, log, committed, workflow, failures>>

Started(w) == [workflow EXCEPT ![w] = [state |-> "open", runs |-> @.runs + 1]]

\* start_workflow.  The default id reuse policy starts a new run of a closed
\* workflow; only an open one raises WorkflowAlreadyStartedError, which the
\* handler swallows.
StartWorkflow ==
    /\ consumer.pc = "handle"
    /\ InHand \in WorkflowIds
    /\ workflow' = IF workflow[InHand].state = "open" THEN workflow ELSE Started(InHand)
    /\ HandlerReturns
    /\ UNCHANGED <<producer, log, committed, failures>>

\* A start_workflow call that does not return: the server may have acted on it.
PerhapsStarted ==
    workflow' \in {workflow} \cup
        {Started(w) : w \in {InHand} \cap {u \in WorkflowIds : workflow[u].state # "open"}}

\* An exception leaves consume_loop, whose close() commits the stored offset if
\* the broker can be reached.
LeaveLoop ==
    /\ \/ committed' = consumer.stored
       \/ failures < MaxFailures /\ UNCHANGED committed
    /\ consumer' = [consumer EXCEPT !.pc = "stopped"]
    /\ failures' = failures + 1
    /\ UNCHANGED <<producer, log, handled>>

\* A message does not deserialize, or start_workflow fails.
HandlerRaises ==
    /\ consumer.pc = "handle"
    /\ \/ InHand = Malformed /\ UNCHANGED workflow
       \/ InHand \in WorkflowIds /\ failures < MaxFailures /\ PerhapsStarted
    /\ LeaveLoop

\* The event loop is being shut down: asyncio.run cancels the call in flight,
\* whatever its message is, and future.result() raises in the thread.
HandlerCancelled ==
    /\ consumer.pc = "handle"
    /\ PerhapsStarted
    /\ LeaveLoop

\* The process is killed: what was stored and not committed is lost.
Crash ==
    /\ consumer.pc # "stopped"
    /\ failures < MaxFailures
    /\ consumer' = [consumer EXCEPT !.pc = "stopped"]
    /\ failures' = failures + 1
    /\ UNCHANGED <<producer, log, committed, workflow, handled>>

\* Mutant: auto.offset.reset applies on every start, at the end of the log.
RestartAtLatest ==
    /\ consumer.pc = "stopped"
    /\ consumer' = [pc |-> "poll", position |-> Len(log), stored |-> Len(log)]
    /\ UNCHANGED <<producer, log, committed, workflow, handled, failures>>

\* The process is started again and resumes from the committed offset.
Restart ==
    /\ consumer.pc = "stopped"
    /\ consumer' = [pc |-> "poll", position |-> committed, stored |-> committed]
    /\ UNCHANGED <<producer, log, committed, workflow, handled, failures>>

WorkflowCloses(w) ==
    /\ workflow[w].state = "open"
    /\ workflow' = [workflow EXCEPT ![w].state = "closed"]
    /\ UNCHANGED <<producer, log, consumer, committed, handled, failures>>

ConsumerStep == Poll \/ IgnoreForeign \/ StartWorkflow \/ HandlerRaises

Work ==
    \/ ConsumerStep
    \/ HandlerCancelled
    \/ AutoCommit
    \/ Crash
    \/ Restart
    \/ \E w \in WorkflowIds : WorkflowCloses(w)

Produce == Deliver \/ DeliverUnanswered \/ DeliveryFails \/ ProducerEnds

Next == Work \/ Produce \/ \E m \in Message : Publish(m)

Spec == Init /\ [][Next]_vars

\* The producer's and the consumer's threads keep running, and whoever runs the
\* consumer's process starts it again when it has exited.
Fairness == WF_vars(Deliver) /\ WF_vars(ConsumerStep) /\ WF_vars(Restart)

FairSpec == Spec /\ Fairness

-----------------------------------------------------------------------------
(* Properties that hold *)

\* Messages the group has moved past although no handler finished with them.
Skipped == {i \in 1..committed : i \notin handled}

\* The committed offset runs ahead of the handler by the one message in hand,
\* so each crash or failed call loses at most one message, and without one
\* nothing but the message in hand is unaccounted for.
LossBounded ==
    Cardinality(Skipped) <= failures + (IF consumer.pc = "handle" THEN 1 ELSE 0)

Copies(w) == Cardinality({i \in 1..Len(log) : published[log[i]] = w})

\* How far a workflow id keeps a redelivery from starting a second run: not at
\* all once the first run has closed, so that a message may run its workflow
\* once per delivery, of which each failure adds at most one per copy.
RunsBounded ==
    \A w \in WorkflowIds : workflow[w].runs <= Copies(w) * (failures + 1)

\* Every message published is in the end handled, unless a failure drops it from
\* the buffer or makes the group skip it: neither a malformed message nor a
\* failing call blocks what comes after it for ever.
MessagesConsumed ==
    \A n \in 1..MaxMessages :
        n <= Len(published) ~>
            n \in dropped \cup {log[i] : i \in (handled \cup Skipped) \cap DOMAIN log}

=============================================================================
