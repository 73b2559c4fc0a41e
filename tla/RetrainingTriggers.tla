------------------------- MODULE RetrainingTriggers -------------------------
(***************************************************************************)
(* The two event-driven retraining triggers of one building, end to end:   *)
(* FeedbackLoop publishes to one topic, the drift detector to another, and *)
(* apps/worker/retraining_event_consumer.py runs the consumers of both in  *)
(* one process: asyncio.gather over two executor threads.  When one        *)
(* consume_loop raises, gather raises and asyncio.run ends the event loop, *)
(* which every handler call runs on: it cancels the call in flight, waits  *)
(* up to 300 s for the threads of the default executor, and closes the     *)
(* loop.  The other thread polls on, and the process cannot exit, nor be   *)
(* started again, before that thread ends too.                             *)
(* FeedbackLoop is extended: its variables and actions are the requests'   *)
(* part of this system.  Each consumer is an instance of EventBridge.      *)
(***************************************************************************)
EXTENDS FeedbackLoop

CONSTANTS
    DriftIds,          \* workflow ids of drift evaluations
    Foreign, Malformed, MaxMessages, MaxFailures    \* see EventBridge

VARIABLES
    fbConsumer, fbCommitted, fbWorkflow, fbHandled, fbFailures,
    drPublished, drBuffer, drDropped, drLog,
    drConsumer, drCommitted, drWorkflow, drHandled, drFailures,
    loop,              \* the process's event loop
    hung               \* consumers that wait for a call the closed loop abandoned

fbVars == <<fbConsumer, fbCommitted, fbWorkflow, fbHandled, fbFailures>>
drVars == <<drPublished, drBuffer, drDropped, drLog, drConsumer, drCommitted,
            drWorkflow, drHandled, drFailures>>
allVars == <<vars, fbVars, drVars, loop, hung>>

\* The id of every feedback retraining: the count published is the threshold.
FeedbackId == "retraining-feedback"

\* FeedbackLoop models the producer of its topic: the bridge begins behind it.
FeedbackBridge == INSTANCE EventBridge WITH
    WorkflowIds <- {FeedbackId},
    published <- [i \in 1..Len(topic) |-> FeedbackId],
    buffer <- <<>>, dropped <- {}, log <- [i \in 1..Len(topic) |-> i],
    consumer <- fbConsumer, committed <- fbCommitted, workflow <- fbWorkflow,
    handled <- fbHandled, failures <- fbFailures

DriftBridge == INSTANCE EventBridge WITH
    WorkflowIds <- DriftIds,
    published <- drPublished, buffer <- drBuffer, dropped <- drDropped, log <- drLog,
    consumer <- drConsumer, committed <- drCommitted, workflow <- drWorkflow,
    handled <- drHandled, failures <- drFailures

TriggersInit ==
    /\ Init /\ FeedbackBridge!Init /\ DriftBridge!Init
    /\ loop = "running" /\ hung = {}

-----------------------------------------------------------------------------

FeedbackRequests == Next /\ UNCHANGED <<fbVars, drVars, loop, hung>>

\* The drift detector is the only producer of its topic.
DriftDetected ==
    /\ UNCHANGED <<vars, fbVars, loop, hung>>
    /\ \/ \E w \in DriftIds : DriftBridge!Publish(w)
       \/ DriftBridge!Produce

\* One consumer polls, handles a message, commits, or leaves its loop.  On a
\* closed event loop every call of the handler raises.
FeedbackConsumer ==
    /\ UNCHANGED <<vars, drVars, loop, hung>>
    /\ \/ FeedbackBridge!Poll \/ FeedbackBridge!AutoCommit
       \/ loop # "closed" /\ FeedbackBridge!ConsumerStep
       \/ /\ loop = "closed" /\ "feedback" \notin hung
          /\ FeedbackBridge!HandlerCancelled /\ UNCHANGED fbWorkflow

\* Mutant: a consumer whose event loop has closed stops polling.
DriftConsumerCoupled ==
    /\ UNCHANGED <<vars, fbVars, loop, hung>>
    /\ loop # "closed"
    /\ DriftBridge!ConsumerStep \/ DriftBridge!AutoCommit

DriftConsumer ==
    /\ UNCHANGED <<vars, fbVars, loop, hung>>
    /\ \/ DriftBridge!Poll \/ DriftBridge!AutoCommit
       \/ loop # "closed" /\ DriftBridge!ConsumerStep
       \/ /\ loop = "closed" /\ "drift" \notin hung
          /\ DriftBridge!HandlerCancelled /\ UNCHANGED drWorkflow

\* A RetrainingWorkflow run completes.
RetrainingEnds ==
    /\ UNCHANGED <<vars, loop, hung>>
    /\ \/ UNCHANGED drVars /\ FeedbackBridge!WorkflowCloses(FeedbackId)
       \/ UNCHANGED fbVars /\ \E w \in DriftIds : DriftBridge!WorkflowCloses(w)

OneStopped ==
    {fbConsumer.pc, drConsumer.pc} \in {{"stopped", "poll"}, {"stopped", "handle"}}

\* gather has raised: asyncio.run cancels the survivor's call, if it has one in
\* flight that is a task already, and joins the threads with the loop running.
Teardown ==
    /\ loop = "running" /\ OneStopped
    /\ loop' = "closing"
    /\ UNCHANGED <<vars, hung>>
    /\ FeedbackBridge!HandlerCancelled \/ UNCHANGED fbVars
    /\ DriftBridge!HandlerCancelled \/ UNCHANGED drVars

\* After 300 s the loop is closed over the call that is then in flight, whose
\* thread waits for ever; a message that is only polled raises (see above).
LoopCloses ==
    /\ loop = "closing" /\ OneStopped
    /\ loop' = "closed"
    /\ \E both \in SUBSET {"feedback", "drift"} :
          hung' = {c \in both : [feedback |-> fbConsumer, drift |-> drConsumer][c].pc = "handle"}
    /\ UNCHANGED <<vars, fbVars, drVars>>

\* The process is killed, and with it whichever consumer still runs.
CrashProcess ==
    /\ UNCHANGED <<vars, loop, hung>>
    /\ {fbConsumer.pc, drConsumer.pc} # {"stopped"}
    /\ FeedbackBridge!Crash \/ (fbConsumer.pc = "stopped" /\ UNCHANGED fbVars)
    /\ DriftBridge!Crash \/ (drConsumer.pc = "stopped" /\ UNCHANGED drVars)

\* Both loops have ended, the process has exited and is started again.
RestartProcess ==
    /\ UNCHANGED vars
    /\ FeedbackBridge!Restart
    /\ DriftBridge!Restart
    /\ loop' = "running" /\ hung' = {}

TriggersNext ==
    \/ FeedbackRequests
    \/ DriftDetected
    \/ FeedbackConsumer
    \/ DriftConsumer
    \/ RetrainingEnds
    \/ Teardown
    \/ LoopCloses
    \/ CrashProcess
    \/ RestartProcess

TriggersSpec == TriggersInit /\ [][TriggersNext]_allVars

\* Both threads keep running and whoever runs the process restarts it when it
\* has exited.
TriggersFairSpec ==
    /\ TriggersSpec
    /\ WF_allVars(FeedbackConsumer)
    /\ WF_allVars(DriftConsumer)
    /\ WF_allVars(RestartProcess)

-----------------------------------------------------------------------------
(* Properties that hold *)

\* Across the request, the broker and the consumer, with redeliveries and
\* failures on the way, a feedback retraining starts only for a building that
\* has all but one of the labels of the threshold, and the missing one is of a
\* request that has not been answered yet or has failed.
RetrainingJustified ==
    fbWorkflow[FeedbackId].runs > 0 =>
        /\ Len(labels) >= Threshold - 1
        /\ Len(labels) < Threshold =>
               \E r \in Requests : request[r].pc \in {"commit", "failed"}

\* Message i was handled, or lost: the group is past it and nobody has it.
Settled(i, consumer, committed, handled) ==
    i \in handled \/ (i <= committed /\ ~(consumer.pc = "handle" /\ consumer.position = i))

\* What it costs that the consumers share a process: every message on either
\* topic is in the end handled, or lost with a failure or a cancelled call,
\* unless its consumer has stopped and the other one, idle, keeps the process
\* from being started again, or a call is left hanging on a closed event loop.
\* A consumer that has not failed is never held up by one that has.
ConsumersGoOn ==
    /\ \A i \in 1..MaxMessages :
          i <= Len(drLog) ~>
              \/ Settled(i, drConsumer, drCommitted, drHandled)
              \/ [](hung # {} \/ (OneStopped /\ drConsumer.pc = "stopped"))
    /\ \A i \in 1..Cardinality(Requests) :
          i <= Len(topic) ~>
              \/ Settled(i, fbConsumer, fbCommitted, fbHandled)
              \/ [](hung # {} \/ (OneStopped /\ fbConsumer.pc = "stopped"))

=============================================================================
