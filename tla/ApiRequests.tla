----------------------------- MODULE ApiRequests -----------------------------
(***************************************************************************)
(* The two API requests that accept an Idempotency-Key and start work:     *)
(* POST /v1/ingestion/csv (apps/api/routers/ingestion.py,                  *)
(* services/ingestion/orchestrator.py) and POST /v1/scenarios/analyze with *)
(* its background task (apps/api/routers/scenarios.py, apps/api/{jobs,     *)
(* webhooks}.py), for one tenant, one building and one meter.              *)
(*                                                                         *)
(* A request runs in one READ COMMITTED transaction of its own, which the  *)
(* dependency get_tenant_scoped_session commits when the handler has       *)
(* returned.  Whether that is before the response is sent and the          *)
(* background task runs, or after both, depends on the release of FastAPI, *)
(* which pyproject.toml bounds only from below: both orders are modelled.  *)
(***************************************************************************)
EXTENDS Integers, FiniteSets

CONSTANTS
    Requests,          \* requests clients send, the retries of others included
    Keys,              \* values of the Idempotency-Key header
    NoBody             \* the request has no answer yet

ASSUME NoBodyAssumption == NoBody \notin Requests

VARIABLES
    commitFirst,       \* the session commits before the response is sent
    request,           \* each request: its parameters and how far it is
    stored,            \* committed rows of idempotency_keys
    created,           \* requests whose batch or job is committed
    circuits,          \* committed circuits of the meter, by their creator
    published,         \* requests whose building.data.arrived is published
    answered,          \* requests whose client has received the 202
    job,               \* committed status of each analysis job
    task,              \* the background task of each job
    webhooks           \* jobs announced by an analysis.completed webhook

vars == <<commitFirst, request, stored, created, circuits, published,
          answered, job, task, webhooks>>

Running == {"resolve", "write", "create", "finish"}

\* body: the request whose batch or job the answer names.  found: the meter had
\* a circuit when the request looked it up.
RequestState ==
    [pc : {"lookup", "done", "failed"} \cup Running, kind : {"csv", "analyze"},
     key : Keys, usable : BOOLEAN, body : Requests \cup {NoBody},
     found : BOOLEAN, committed : BOOLEAN, sent : BOOLEAN]

TypeOK ==
    /\ commitFirst \in BOOLEAN
    /\ request \in [Requests -> RequestState]
    /\ stored \subseteq [kind : {"csv", "analyze"}, key : Keys, body : Requests]
    /\ \A p, q \in stored : p.kind = q.kind /\ p.key = q.key => p = q
    /\ created \subseteq Requests
    /\ circuits \subseteq created
    /\ published \subseteq Requests
    /\ answered \subseteq Requests
    /\ job \in [Requests -> {"none", "processing", "completed", "failed"}]
    /\ task \in [Requests -> {"none", "queued", "notify", "ended", "lost"}]
    /\ webhooks \subseteq Requests

Init ==
    /\ commitFirst \in BOOLEAN
    /\ \E kind \in [Requests -> {"csv", "analyze"}], key \in [Requests -> Keys] :
        request = [r \in Requests |->
            [pc |-> "lookup", kind |-> kind[r], key |-> key[r], usable |-> TRUE,
             body |-> NoBody, found |-> FALSE, committed |-> FALSE, sent |-> FALSE]]
    /\ stored = {}
    /\ created = {}
    /\ circuits = {}
    /\ published = {}
    /\ answered = {}
    /\ job = [r \in Requests |-> "none"]
    /\ task = [r \in Requests |-> "none"]
    /\ webhooks = {}

-----------------------------------------------------------------------------
(* The handlers, statement by statement *)

\* Rows of idempotency_keys a request can replay: tenant, key and endpoint.
Cached(r) == {p \in stored : p.kind = request[r].kind /\ p.key = request[r].key}

\* Where each handler goes on after a miss.
Handler == [csv |-> "resolve", analyze |-> "create"]

\* get_cached_response, whenever the request arrives: a hit is the whole answer.
GetCachedResponse(r) ==
    /\ request[r].pc = "lookup"
    /\ \/ \E p \in Cached(r) :
             request' = [request EXCEPT ![r] =
                 [@ EXCEPT !.pc = "finish", !.body = p.body]]
       \/ /\ Cached(r) = {}
          /\ request' = [request EXCEPT ![r].pc = Handler[request[r].kind]]
    /\ UNCHANGED <<commitFirst, stored, created, circuits, published, answered,
                   job, task, webhooks>>

\* The first half of get_or_create_circuits: the SELECT.
ResolveCircuits(r) ==
    /\ request[r].pc = "resolve"
    /\ request' = [request EXCEPT ![r] = [@ EXCEPT !.pc = "write", !.found = circuits # {}]]
    /\ UNCHANGED <<commitFirst, stored, created, circuits, published, answered,
                   job, task, webhooks>>

\* Mutant: a quarantined batch is published too.
PublishAlways(r) ==
    /\ request[r].pc = "write"
    /\ \E usable \in BOOLEAN :
        request' = [request EXCEPT ![r] =
            [@ EXCEPT !.pc = "finish", !.usable = usable, !.body = r]]
    /\ published' = published \cup {r}
    /\ UNCHANGED <<commitFirst, stored, created, circuits, answered,
                   job, task, webhooks>>

\* A missing circuit, the readings and the batch are inserted, seen by others
\* after the commit only; then publish_or_alert publishes, unless the quality
\* gate has quarantined the whole batch.
IngestBatch(r) ==
    /\ request[r].pc = "write"
    /\ \E usable \in BOOLEAN :
        /\ request' = [request EXCEPT ![r] =
               [@ EXCEPT !.pc = "finish", !.usable = usable, !.body = r]]
        /\ published' = IF usable THEN published \cup {r} ELSE published
    /\ UNCHANGED <<commitFirst, stored, created, circuits, answered,
                   job, task, webhooks>>

Row(r) == [kind |-> request[r].kind, key |-> request[r].key, body |-> request[r].body]

\* Mutant: the answer is stored in a session of its own.
CreateJobStored(r) ==
    /\ request[r].pc = "create"
    /\ request' = [request EXCEPT ![r] = [@ EXCEPT !.pc = "finish", !.body = r]]
    /\ stored' = IF Cached(r) = {}
                 THEN stored \cup {[kind |-> "analyze", key |-> request[r].key, body |-> r]}
                 ELSE stored
    /\ UNCHANGED <<commitFirst, created, circuits, published, answered,
                   job, task, webhooks>>

\* AnalysisJobRepository.create.
CreateJob(r) ==
    /\ request[r].pc = "create"
    /\ request' = [request EXCEPT ![r] = [@ EXCEPT !.pc = "finish", !.body = r]]
    /\ UNCHANGED <<commitFirst, stored, created, circuits, published, answered,
                   job, task, webhooks>>

\* Mutant: ON CONFLICT DO UPDATE.
StoreResponseLast(r) == (stored \ Cached(r)) \cup {Row(r)}

\* store_response.  ON CONFLICT DO NOTHING lets the row of whoever commits first
\* stand: its INSERT waits for a concurrent one and shows at the commit.
StoreResponse(r) == IF Cached(r) = {} THEN stored \cup {Row(r)} ELSE stored

-----------------------------------------------------------------------------
(* The end of a request *)

Own(r) == request[r].body = r

\* pc after the commit and the sending of the response, which come in the order
\* of commitFirst: the second of them ends the request.
AfterBoth(other) == IF other THEN "done" ELSE "finish"

Commit(r) ==
    /\ request[r].pc = "finish" /\ ~request[r].committed
    /\ commitFirst \/ (request[r].sent /\ task[r] \notin {"queued", "notify"})
    /\ request' = [request EXCEPT ![r] =
           [@ EXCEPT !.committed = TRUE, !.pc = AfterBoth(request[r].sent)]]
    /\ IF Own(r)
       THEN /\ created' = created \cup {r}
            /\ stored' = StoreResponse(r)
            /\ circuits' = IF request[r].kind = "csv" /\ ~request[r].found
                           THEN circuits \cup {r} ELSE circuits
            /\ job' = IF request[r].kind = "analyze"
                      THEN [job EXCEPT ![r] = "processing"] ELSE job
       ELSE UNCHANGED <<created, stored, circuits, job>>
    /\ UNCHANGED <<commitFirst, published, answered, task, webhooks>>

\* Mutant: the task starts only if the client has got the answer.
RespondDelivered(r) ==
    /\ request[r].pc = "finish" /\ ~request[r].sent
    /\ commitFirst => request[r].committed
    /\ request' = [request EXCEPT ![r] =
           [@ EXCEPT !.sent = TRUE, !.pc = AfterBoth(request[r].committed)]]
    /\ \/ UNCHANGED <<answered, task>>
       \/ /\ answered' = answered \cup {r}
          /\ task' = IF request[r].kind = "analyze" /\ Own(r)
                     THEN [task EXCEPT ![r] = "queued"] ELSE task
    /\ UNCHANGED <<commitFirst, stored, created, circuits, published, job, webhooks>>

\* The response is sent, and may not arrive; then the background task starts.
Respond(r) ==
    /\ request[r].pc = "finish" /\ ~request[r].sent
    /\ commitFirst => request[r].committed
    /\ request' = [request EXCEPT ![r] =
           [@ EXCEPT !.sent = TRUE, !.pc = AfterBoth(request[r].committed)]]
    /\ answered' \in {answered, answered \cup {r}}
    /\ task' = IF request[r].kind = "analyze" /\ Own(r)
               THEN [task EXCEPT ![r] = "queued"] ELSE task
    /\ UNCHANGED <<commitFirst, stored, created, circuits, published, job, webhooks>>

\* A statement or the commit raises: the transaction is rolled back.
RequestFails(r) ==
    /\ request[r].pc \in {"lookup"} \cup Running /\ ~request[r].committed
    /\ task[r] \in {"none", "ended", "lost"}
    /\ request' = [request EXCEPT ![r].pc = "failed"]
    /\ UNCHANGED <<commitFirst, stored, created, circuits, published, answered,
                   job, task, webhooks>>

-----------------------------------------------------------------------------
(* The background task of an analysis job: _run_portfolio_analysis *)

\* mark_completed and mark_failed update no row while the job is uncommitted.
Marked(r, status) ==
    IF job[r] = "none" THEN job ELSE [job EXCEPT ![r] = status]

TaskCompletes(r) ==
    /\ task[r] = "queued"
    /\ job' = Marked(r, "completed")
    /\ task' = [task EXCEPT ![r] = "notify"]
    /\ UNCHANGED <<commitFirst, request, stored, created, circuits, published,
                   answered, webhooks>>

\* Mutant: no return after mark_failed.
TaskFailsThrough(r) ==
    /\ task[r] = "queued"
    /\ job' = Marked(r, "failed")
    /\ task' = [task EXCEPT ![r] = "notify"]
    /\ UNCHANGED <<commitFirst, request, stored, created, circuits, published,
                   answered, webhooks>>

TaskFails(r) ==
    /\ task[r] = "queued"
    /\ job' = Marked(r, "failed")
    /\ task' = [task EXCEPT ![r] = "ended"]
    /\ UNCHANGED <<commitFirst, request, stored, created, circuits, published,
                   answered, webhooks>>

\* After an error of the database itself mark_failed raises too, and so does the
\* task; a session that has not been committed is then rolled back.
TaskRaises(r) ==
    /\ task[r] = "queued"
    /\ task' = [task EXCEPT ![r] = "lost"]
    /\ request' = IF request[r].committed THEN request
                  ELSE [request EXCEPT ![r].pc = "failed"]
    /\ UNCHANGED <<commitFirst, stored, created, circuits, published, answered,
                   job, webhooks>>

\* notify_webhooks is best effort.
NotifyWebhooks(r) ==
    /\ task[r] = "notify"
    /\ webhooks' \in {webhooks, webhooks \cup {r}}
    /\ task' = [task EXCEPT ![r] = "ended"]
    /\ UNCHANGED <<commitFirst, request, stored, created, circuits, published,
                   answered, job>>

\* The API process dies with its open transactions and background tasks.
ApiCrash ==
    /\ \E r \in Requests : request[r].pc \in Running \/ task[r] \in {"queued", "notify"}
    /\ request' = [r \in Requests |->
           IF request[r].pc \in Running THEN [request[r] EXCEPT !.pc = "failed"]
           ELSE request[r]]
    /\ task' = [r \in Requests |->
           IF task[r] \in {"queued", "notify"} THEN "lost" ELSE task[r]]
    /\ UNCHANGED <<commitFirst, stored, created, circuits, published, answered,
                   job, webhooks>>

Step(r) ==
    \/ ResolveCircuits(r) \/ IngestBatch(r) \/ CreateJob(r) \/ Commit(r) \/ Respond(r)

TaskStep(r) == TaskCompletes(r) \/ TaskFails(r) \/ NotifyWebhooks(r)

Next ==
    \/ \E r \in Requests :
        \/ GetCachedResponse(r) \/ Step(r) \/ RequestFails(r)
        \/ TaskStep(r) \/ TaskRaises(r)
    \/ ApiCrash

Spec == Init /\ [][Next]_vars

\* The event loop keeps resuming the requests and tasks it has; clients, errors
\* and crashes owe nothing.
FairSpec == Spec /\ \A r \in Requests : WF_vars(Step(r)) /\ WF_vars(TaskStep(r))

-----------------------------------------------------------------------------
(* Properties that hold *)

\* Retries are told one thing: whatever requests with a key overlap, create a
\* batch or a job each, fail and commit, a replayed answer names the one that the
\* key's row names from then on, not now this one and now that one.
ReplaysAgree ==
    \A r \in Requests : request[r].body \notin {NoBody, r} => Row(r) \in stored

\* A client that is answered can poll what the answer names: it is committed.
\* An answer sent before its own request's commit is excepted, not a replay.
AnswersStored ==
    \A r \in answered : commitFirst \/ ~Own(r) => request[r].body \in created

\* An ingested batch is announced to the pipeline if and only if it is stored
\* and not quarantined; only a request that failed leaves an event without one.
BatchIffEvent ==
    \A r \in Requests : request[r].kind = "csv" /\ request[r].pc = "done" =>
        (r \in published <=> r \in created /\ request[r].usable)

\* A caller that acts on the webhook finds the result: it is sent only when the
\* job is completed and stays so.  (With a session that commits first.)
WebhookAfterResult ==
    \A r \in webhooks : commitFirst => job[r] = "completed"

\* The outcome of a job is final.
OutcomeFinal ==
    [][\A r \in Requests : job[r] \in {"completed", "failed"} => job'[r] = job[r]]_vars

\* The job of a request whose session commits first reaches an outcome, whether
\* or not the client got the answer, unless its task is lost.
JobsEnd ==
    \A r \in Requests : commitFirst /\ job[r] = "processing" ~>
        job[r] \in {"completed", "failed"} \/ task[r] = "lost" \/ request[r].pc = "failed"

-----------------------------------------------------------------------------
(* A statement of the documentation that the code does not keep *)

\* webhooks.py: poll_url is the reliable path, so that a job a client polls
\* reaches an outcome.
PollingEnds ==
    \A r \in Requests : job[r] = "processing" ~> job[r] \in {"completed", "failed"}

=============================================================================
