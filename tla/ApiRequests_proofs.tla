-------------------------- MODULE ApiRequests_proofs --------------------------
(* What clients, pollers and webhook receivers may rely on, for any number  *)
(* of requests, retries and idempotency keys.                               *)
EXTENDS ApiRequests, TLAPS

USE NoBodyAssumption

-----------------------------------------------------------------------------
(* The inductive invariant, request by request *)

\* A request creates and publishes only after its lookup, and commits and sends
\* only with an answer.
Handling(r) ==
    /\ request[r].pc \in {"resolve", "write"} => request[r].kind = "csv"
    /\ request[r].pc = "create" => request[r].kind = "analyze"
    /\ request[r].pc \in {"lookup", "resolve", "write", "create"} =>
          /\ request[r].body = NoBody
          /\ request[r].committed = FALSE /\ request[r].sent = FALSE
          /\ r \notin published
    /\ request[r].pc \in {"finish", "done"} => request[r].body # NoBody
    /\ request[r].pc = "done" => request[r].committed = TRUE /\ request[r].sent = TRUE
    /\ request[r].sent = TRUE =>
          request[r].body # NoBody /\ (commitFirst = TRUE => request[r].committed = TRUE)
    /\ r \in answered => request[r].sent = TRUE

\* What is committed belongs to the request whose answer names it.
Created(r) ==
    /\ r \in created <=> request[r].committed = TRUE /\ request[r].body = r
    /\ request[r].body \notin {NoBody, r} => request[r].body \in created
    /\ request[r].kind = "csv" /\ request[r].pc \in {"finish", "done"} =>
          (r \in published <=> request[r].body = r /\ request[r].usable = TRUE)

\* A job exists once its request is committed; its task runs once the answer is
\* sent, and announces only what it has completed.
Job(r) ==
    /\ job[r] = "none" <=> ~(r \in created /\ request[r].kind = "analyze")
    /\ task[r] # "none" =>
          /\ request[r].sent = TRUE /\ request[r].kind = "analyze" /\ request[r].body = r
    /\ task[r] \in {"none", "queued"} => job[r] \in {"none", "processing"}
    /\ task[r] = "notify" /\ commitFirst = TRUE => job[r] = "completed"
    /\ r \in webhooks => task[r] = "ended" /\ (commitFirst = TRUE => job[r] = "completed")

\* A stored answer and the committed batch or job it names have one key.
Stored ==
    /\ \A p \in stored :
          /\ p.body \in created
          /\ request[p.body].kind = p.kind /\ request[p.body].key = p.key
    /\ \A s \in created : \E p \in stored :
          p.kind = request[s].kind /\ p.key = request[s].key

RequestInv == \A r \in Requests : Handling(r) /\ Created(r) /\ Job(r)

IInv == TypeOK /\ RequestInv /\ Stored

-----------------------------------------------------------------------------
(* What a step leaves alone *)

Untouched(q) ==
    /\ request'[q] = request[q]
    /\ q \in created' <=> q \in created
    /\ q \in published' <=> q \in published
    /\ q \in answered' <=> q \in answered
    /\ q \in webhooks' <=> q \in webhooks
    /\ job'[q] = job[q] /\ task'[q] = task[q]

\* No request changes its parameters, and what is committed stays.
Growing ==
    /\ commitFirst' = commitFirst
    /\ created \subseteq created'
    /\ \A q \in Requests : request'[q].kind = request[q].kind /\ request'[q].key = request[q].key

LEMMA FrameHandling ==
    ASSUME NEW q \in Requests, Handling(q), Untouched(q), Growing
    PROVE  Handling(q)'
  BY DEF Handling, Untouched, Growing

LEMMA FrameCreated ==
    ASSUME NEW q \in Requests, Created(q), Untouched(q), Growing
    PROVE  Created(q)'
  BY DEF Created, Untouched, Growing

LEMMA FrameJob ==
    ASSUME NEW q \in Requests, Job(q), Untouched(q), Growing
    PROVE  Job(q)'
  BY DEF Job, Untouched, Growing

LEMMA FrameStored ==
    ASSUME TypeOK, Stored, Growing, UNCHANGED <<created, stored>>
    PROVE  Stored'
  BY DEF Stored, Growing, TypeOK

\* A step of one request, once its own conjuncts are shown.
LEMMA OneRequest ==
    ASSUME IInv, NEW r \in Requests, TypeOK', Growing,
           \A q \in Requests \ {r} : Untouched(q),
           Handling(r)', Created(r)', Job(r)', Stored'
    PROVE  IInv'
  <1>1. ASSUME NEW q \in Requests PROVE Handling(q)' /\ Created(q)' /\ Job(q)'
    <2>1. CASE q = r
      BY <2>1
    <2>2. CASE q # r
      <3>1. Untouched(q)
        BY <2>2
      <3>2. Handling(q) /\ Created(q) /\ Job(q)
        BY DEF IInv, RequestInv
      <3>3. QED
        BY <3>1, <3>2, FrameHandling, FrameCreated, FrameJob
    <2>3. QED
      BY <2>1, <2>2
  <1>2. QED
    BY <1>1 DEF IInv, RequestInv

-----------------------------------------------------------------------------
(* The steps of a handler *)

LEMMA LookupStep ==
    ASSUME IInv, NEW r \in Requests, GetCachedResponse(r)
    PROVE  IInv'
  <1>1. Handling(r) /\ Created(r) /\ Job(r) /\ TypeOK /\ Stored
    BY DEF IInv, RequestInv
  <1>2. request[r] \in RequestState /\ request[r].pc = "lookup"
    BY <1>1 DEF TypeOK, GetCachedResponse
  <1>3. UNCHANGED <<commitFirst, stored, created, circuits, published, answered,
                    job, task, webhooks>>
    BY DEF GetCachedResponse
  <1>4. \/ \E p \in Cached(r) : request' =
               [request EXCEPT ![r] = [request[r] EXCEPT !.pc = "finish", !.body = p.body]]
        \/ request' = [request EXCEPT ![r] =
               [request[r] EXCEPT !.pc = Handler[request[r].kind]]]
    BY <1>1 DEF GetCachedResponse, TypeOK
  <1>5. CASE request' = [request EXCEPT ![r] =
                 [request[r] EXCEPT !.pc = Handler[request[r].kind]]]
    <2>1. /\ request'[r].pc = Handler[request[r].kind]
          /\ request'[r].kind = request[r].kind /\ request'[r].key = request[r].key
          /\ request'[r].usable = request[r].usable /\ request'[r].body = request[r].body
          /\ request'[r].committed = request[r].committed /\ request'[r].sent = request[r].sent
          /\ \A q \in Requests \ {r} : request'[q] = request[q]
      BY <1>1, <1>2, <1>5 DEF TypeOK, RequestState
    <2>2. /\ request[r].kind = "csv" => request'[r].pc = "resolve"
          /\ request[r].kind = "analyze" => request'[r].pc = "create"
          /\ request[r].kind \in {"csv", "analyze"}
      BY <1>2, <2>1 DEF Handler, RequestState
    <2>3. TypeOK'
      BY <1>1, <1>2, <1>3, <1>5, <2>1, <2>2 DEF TypeOK, RequestState, Running
    <2>4. Growing /\ \A q \in Requests \ {r} : Untouched(q)
      BY <1>3, <2>1 DEF Growing, Untouched
    <2>5. Handling(r)' /\ Created(r)' /\ Job(r)'
      BY <1>1, <1>2, <1>3, <2>1, <2>2 DEF Handling, Created, Job
    <2>6. QED
      BY <1>1, <1>3, <2>3, <2>4, <2>5, FrameStored, OneRequest
  <1>6. ASSUME NEW p \in Cached(r), request' =
                 [request EXCEPT ![r] = [request[r] EXCEPT !.pc = "finish", !.body = p.body]]
        PROVE  IInv'
    <2>1. /\ request'[r].pc = "finish"
          /\ request'[r].kind = request[r].kind /\ request'[r].key = request[r].key
          /\ request'[r].usable = request[r].usable /\ request'[r].body = p.body
          /\ request'[r].committed = request[r].committed /\ request'[r].sent = request[r].sent
          /\ \A q \in Requests \ {r} : request'[q] = request[q]
      BY <1>1, <1>2, <1>6 DEF TypeOK, RequestState
    <2>2. p.body \in created /\ p.body \in Requests
      BY <1>1 DEF Stored, Cached, TypeOK
    <2>3. p.body # r /\ p.body # NoBody
      BY <1>1, <1>2, <2>2 DEF Handling, Created
    <2>4. TypeOK'
      BY <1>1, <1>2, <1>3, <1>6, <2>1, <2>2 DEF TypeOK, RequestState, Running
    <2>5. Growing /\ \A q \in Requests \ {r} : Untouched(q)
      BY <1>3, <2>1 DEF Growing, Untouched
    <2>6. Handling(r)' /\ Created(r)' /\ Job(r)'
      BY <1>1, <1>2, <1>3, <2>1, <2>2, <2>3 DEF Handling, Created, Job
    <2>7. QED
      BY <1>1, <1>3, <2>4, <2>5, <2>6, FrameStored, OneRequest
  <1>7. QED
    BY <1>4, <1>5, <1>6

LEMMA ResolveStep ==
    ASSUME IInv, NEW r \in Requests, ResolveCircuits(r)
    PROVE  IInv'
  <1>1. Handling(r) /\ Created(r) /\ Job(r) /\ TypeOK /\ Stored
    BY DEF IInv, RequestInv
  <1>2. request[r] \in RequestState
    BY <1>1 DEF TypeOK
  <1>3. /\ request'[r].pc = "write"
        /\ request'[r].kind = request[r].kind
        /\ request'[r].key = request[r].key
        /\ request'[r].usable = request[r].usable
        /\ request'[r].body = request[r].body
        /\ request'[r].committed = request[r].committed
        /\ request'[r].sent = request[r].sent
        /\ \A q \in Requests \ {r} : request'[q] = request[q]
    BY <1>1, <1>2 DEF ResolveCircuits, TypeOK, RequestState
  <1>4. TypeOK'
    BY <1>1, <1>2 DEF ResolveCircuits, TypeOK, RequestState, Running
  <1>5. Growing /\ \A q \in Requests \ {r} : Untouched(q)
    BY <1>1, <1>3 DEF ResolveCircuits, Growing, Untouched, TypeOK
  <1>6. Handling(r)' /\ Created(r)' /\ Job(r)'
    BY <1>1, <1>2, <1>3 DEF ResolveCircuits, Handling, Created, Job, RequestState
  <1>7. Stored'
    BY <1>1, <1>5, FrameStored DEF ResolveCircuits
  <1>8. QED
    BY <1>1, <1>4, <1>5, <1>6, <1>7, OneRequest

LEMMA IngestStep ==
    ASSUME IInv, NEW r \in Requests, IngestBatch(r)
    PROVE  IInv'
  <1>1. Handling(r) /\ Created(r) /\ Job(r) /\ TypeOK /\ Stored
    BY DEF IInv, RequestInv
  <1>2. request[r] \in RequestState
    BY <1>1 DEF TypeOK
  <1>2a. PICK usable \in BOOLEAN :
            /\ request' = [request EXCEPT ![r] =
                   [request[r] EXCEPT !.pc = "finish", !.usable = usable, !.body = r]]
            /\ published' = IF usable THEN published \cup {r} ELSE published
    BY <1>1 DEF IngestBatch, TypeOK
  <1>2b. r \notin published /\ request[r].kind = "csv" /\ request[r].pc = "write"
    BY <1>1 DEF IngestBatch, Handling
  <1>3. /\ request'[r].pc = "finish"
        /\ request'[r].kind = request[r].kind
        /\ request'[r].key = request[r].key
        /\ request'[r].usable = usable
        /\ r \in published' <=> usable = TRUE
        /\ request'[r].body = r
        /\ request'[r].found = request[r].found
        /\ request'[r].committed = request[r].committed
        /\ request'[r].sent = request[r].sent
        /\ \A q \in Requests \ {r} : request'[q] = request[q]
    BY <1>1, <1>2, <1>2a, <1>2b DEF TypeOK, RequestState
  <1>4. TypeOK'
    BY <1>1, <1>2, <1>2a DEF IngestBatch, TypeOK, RequestState, Running
  <1>5. Growing /\ \A q \in Requests \ {r} : Untouched(q)
    BY <1>1, <1>3, <1>2a DEF IngestBatch, Growing, Untouched, TypeOK
  <1>6. Handling(r)' /\ Created(r)' /\ Job(r)'
    BY <1>1, <1>2, <1>3 DEF IngestBatch, Handling, Created, Job, RequestState
  <1>7. Stored'
    BY <1>1, <1>5, FrameStored DEF IngestBatch
  <1>8. QED
    BY <1>1, <1>4, <1>5, <1>6, <1>7, OneRequest

LEMMA CreateStep ==
    ASSUME IInv, NEW r \in Requests, CreateJob(r)
    PROVE  IInv'
  <1>1. Handling(r) /\ Created(r) /\ Job(r) /\ TypeOK /\ Stored
    BY DEF IInv, RequestInv
  <1>2. request[r] \in RequestState
    BY <1>1 DEF TypeOK
  <1>3. /\ request'[r].pc = "finish"
        /\ request'[r].kind = request[r].kind
        /\ request'[r].key = request[r].key
        /\ request'[r].usable = request[r].usable
        /\ request'[r].body = r
        /\ request'[r].found = request[r].found
        /\ request'[r].committed = request[r].committed
        /\ request'[r].sent = request[r].sent
        /\ \A q \in Requests \ {r} : request'[q] = request[q]
    BY <1>1, <1>2 DEF CreateJob, TypeOK, RequestState
  <1>4. TypeOK'
    BY <1>1, <1>2 DEF CreateJob, TypeOK, RequestState, Running
  <1>5. Growing /\ \A q \in Requests \ {r} : Untouched(q)
    BY <1>1, <1>3 DEF CreateJob, Growing, Untouched, TypeOK
  <1>6. Handling(r)' /\ Created(r)' /\ Job(r)'
    BY <1>1, <1>2, <1>3 DEF CreateJob, Handling, Created, Job, RequestState
  <1>7. Stored'
    BY <1>1, <1>5, FrameStored DEF CreateJob
  <1>8. QED
    BY <1>1, <1>4, <1>5, <1>6, <1>7, OneRequest

LEMMA FailStep ==
    ASSUME IInv, NEW r \in Requests, RequestFails(r)
    PROVE  IInv'
  <1>1. Handling(r) /\ Created(r) /\ Job(r) /\ TypeOK /\ Stored
    BY DEF IInv, RequestInv
  <1>2. request[r] \in RequestState
    BY <1>1 DEF TypeOK
  <1>3. /\ request'[r].pc = "failed"
        /\ request'[r].kind = request[r].kind
        /\ request'[r].key = request[r].key
        /\ request'[r].usable = request[r].usable
        /\ request'[r].body = request[r].body
        /\ request'[r].found = request[r].found
        /\ request'[r].committed = request[r].committed
        /\ request'[r].sent = request[r].sent
        /\ \A q \in Requests \ {r} : request'[q] = request[q]
    BY <1>1, <1>2 DEF RequestFails, TypeOK, RequestState
  <1>4. TypeOK'
    BY <1>1, <1>2 DEF RequestFails, TypeOK, RequestState, Running
  <1>5. Growing /\ \A q \in Requests \ {r} : Untouched(q)
    BY <1>1, <1>3 DEF RequestFails, Growing, Untouched, TypeOK
  <1>6. Handling(r)' /\ Created(r)' /\ Job(r)'
    BY <1>1, <1>2, <1>3 DEF RequestFails, Handling, Created, Job, RequestState
  <1>7. Stored'
    BY <1>1, <1>5, FrameStored DEF RequestFails
  <1>8. QED
    BY <1>1, <1>4, <1>5, <1>6, <1>7, OneRequest

LEMMA CommitStep ==
    ASSUME IInv, NEW r \in Requests, Commit(r)
    PROVE  IInv'
  <1>1. Handling(r) /\ Created(r) /\ Job(r) /\ TypeOK /\ Stored
    BY DEF IInv, RequestInv
  <1>2. request[r] \in RequestState
    BY <1>1 DEF TypeOK
  <1>3. /\ request'[r].pc = AfterBoth(request[r].sent)
        /\ request'[r].kind = request[r].kind
        /\ request'[r].key = request[r].key
        /\ request'[r].usable = request[r].usable
        /\ request'[r].body = request[r].body
        /\ request'[r].found = request[r].found
        /\ request'[r].committed = TRUE
        /\ request'[r].sent = request[r].sent
        /\ \A q \in Requests \ {r} : request'[q] = request[q]
    BY <1>1, <1>2 DEF Commit, TypeOK, RequestState
  <1>4. /\ request[r].pc = "finish" /\ request[r].committed = FALSE
        /\ request[r].body # NoBody /\ request[r].body \in Requests
        /\ request'[r].pc \in {"finish", "done"}
        /\ request'[r].pc = "done" => request[r].sent = TRUE
    BY <1>1, <1>2, <1>3 DEF Commit, Handling, RequestState, AfterBoth
  <1>5. /\ r \notin created /\ job[r] = "none"
        /\ r \in webhooks => commitFirst = FALSE
        /\ task[r] \notin {"queued", "notify"}
    <2>1. r \notin created /\ job[r] = "none"
      BY <1>1, <1>4 DEF Created, Job
    <2>2. task[r] = "none" => r \notin webhooks /\ task[r] \notin {"queued", "notify"}
      BY <1>1 DEF Job
    <2>3. ~(request[r].sent = TRUE) => task[r] = "none"
      BY <1>1 DEF Job
    <2>4. request[r].sent = TRUE /\ commitFirst = TRUE => request[r].committed = TRUE
      BY <1>1 DEF Handling
    <2>5. commitFirst \/ task[r] \notin {"queued", "notify"}
      BY DEF Commit
    <2>6. commitFirst = TRUE => task[r] = "none"
      BY <1>4, <2>3, <2>4
    <2>7. r \in webhooks => job[r] = "completed" \/ commitFirst = FALSE
      BY <1>1 DEF Job, TypeOK
    <2>8. QED
      BY <1>1, <2>1, <2>2, <2>5, <2>6, <2>7 DEF TypeOK
  <1>6. UNCHANGED <<commitFirst, published, answered, task, webhooks>>
    BY DEF Commit
  <1>7. CASE request[r].body # r
    <2>1. UNCHANGED <<created, stored, circuits, job>>
      BY <1>7 DEF Commit, Own
    <2>2. TypeOK'
      BY <1>1, <1>2, <1>6, <2>1 DEF Commit, TypeOK, RequestState, AfterBoth, Running
    <2>3. Growing /\ \A q \in Requests \ {r} : Untouched(q)
      BY <1>3, <1>6, <2>1 DEF Growing, Untouched
    <2>4. Handling(r)' /\ Created(r)' /\ Job(r)'
      BY <1>1, <1>2, <1>3, <1>4, <1>5, <1>6, <1>7, <2>1 DEF Handling, Created, Job, RequestState
    <2>5. QED
      BY <1>1, <2>1, <2>2, <2>3, <2>4, FrameStored, OneRequest
  <1>8. CASE request[r].body = r
    <2>1. /\ created' = created \cup {r}
          /\ stored' = StoreResponse(r)
          /\ circuits' \subseteq circuits \cup {r}
          /\ job' = IF request[r].kind = "analyze"
                    THEN [job EXCEPT ![r] = "processing"] ELSE job
      BY <1>8 DEF Commit, Own
    <2>2. Row(r) = [kind |-> request[r].kind, key |-> request[r].key, body |-> r]
      BY <1>8 DEF Row
    <2>3. /\ stored' \subseteq [kind : {"csv", "analyze"}, key : Keys, body : Requests]
          /\ \A p, q \in stored' : p.kind = q.kind /\ p.key = q.key => p = q
      <3>1. Row(r) \in [kind : {"csv", "analyze"}, key : Keys, body : Requests]
        BY <1>2, <2>2 DEF RequestState
      <3>2. CASE Cached(r) = {}
        <4>1. stored' = stored \cup {Row(r)}
          BY <2>1, <3>2 DEF StoreResponse
        <4>2. \A p \in stored : ~(p.kind = request[r].kind /\ p.key = request[r].key)
          BY <3>2 DEF Cached
        <4>3. Row(r).kind = request[r].kind /\ Row(r).key = request[r].key
          BY <2>2
        <4>4. QED
          BY <1>1, <3>1, <4>1, <4>2, <4>3 DEF TypeOK
      <3>3. CASE Cached(r) # {}
        BY <1>1, <2>1, <3>3 DEF StoreResponse, TypeOK
      <3>4. QED
        BY <3>2, <3>3
    <2>4. TypeOK'
      <3>1. request' \in [Requests -> RequestState]
        BY <1>1, <1>2 DEF Commit, TypeOK, RequestState, AfterBoth, Running
      <3>2. created' \subseteq Requests /\ circuits' \subseteq created'
        BY <1>1, <2>1 DEF TypeOK
      <3>3. job' \in [Requests -> {"none", "processing", "completed", "failed"}]
        BY <1>1, <2>1 DEF TypeOK
      <3>4. QED
        BY <1>1, <1>6, <2>3, <3>1, <3>2, <3>3 DEF TypeOK
    <2>5. Growing /\ \A q \in Requests \ {r} : Untouched(q)
      BY <1>1, <1>3, <1>6, <2>1 DEF Growing, Untouched, TypeOK
    <2>6. job'[r] = IF request[r].kind = "analyze" THEN "processing" ELSE "none"
      BY <1>1, <1>5, <2>1 DEF TypeOK
    <2>7. Handling(r)' /\ Created(r)' /\ Job(r)'
      BY <1>1, <1>2, <1>3, <1>4, <1>5, <1>6, <1>8, <2>1, <2>6
         DEF Handling, Created, Job, RequestState
    <2>8. Stored'
      <3>1. ASSUME NEW p \in stored'
            PROVE  /\ p.body \in created'
                   /\ request'[p.body].kind = p.kind /\ request'[p.body].key = p.key
        <4>1. CASE p \in stored
          BY <1>1, <2>1, <2>5, <4>1 DEF Stored, Growing, TypeOK
        <4>2. CASE p = Row(r)
          BY <1>3, <2>1, <2>2, <4>2
        <4>3. QED
          BY <2>1, <4>1, <4>2 DEF StoreResponse
      <3>2. ASSUME NEW s \in created'
            PROVE  \E p \in stored' : p.kind = request'[s].kind /\ p.key = request'[s].key
        <4>1. stored \subseteq stored'
          BY <2>1 DEF StoreResponse
        <4>2. CASE s \in created
          BY <1>1, <2>5, <4>1, <4>2 DEF Stored, Growing, TypeOK
        <4>3. CASE s = r /\ Cached(r) = {}
          BY <1>3, <2>1, <2>2, <4>3 DEF StoreResponse
        <4>4. CASE s = r /\ Cached(r) # {}
          BY <1>3, <4>1, <4>4 DEF Cached
        <4>5. QED
          BY <2>1, <4>2, <4>3, <4>4
      <3>3. QED
        BY <3>1, <3>2 DEF Stored
    <2>9. QED
      BY <1>1, <2>4, <2>5, <2>7, <2>8, OneRequest
  <1>9. QED
    BY <1>7, <1>8

LEMMA RespondStep ==
    ASSUME IInv, NEW r \in Requests, Respond(r)
    PROVE  IInv'
  <1>1. Handling(r) /\ Created(r) /\ Job(r) /\ TypeOK /\ Stored
    BY DEF IInv, RequestInv
  <1>2. request[r] \in RequestState
    BY <1>1 DEF TypeOK
  <1>3. /\ request'[r].pc = AfterBoth(request[r].committed)
        /\ request'[r].kind = request[r].kind
        /\ request'[r].key = request[r].key
        /\ request'[r].usable = request[r].usable
        /\ request'[r].body = request[r].body
        /\ request'[r].found = request[r].found
        /\ request'[r].committed = request[r].committed
        /\ request'[r].sent = TRUE
        /\ \A q \in Requests \ {r} : request'[q] = request[q]
    BY <1>1, <1>2 DEF Respond, TypeOK, RequestState
  <1>4. /\ request[r].pc = "finish" /\ request[r].sent = FALSE
        /\ request[r].body # NoBody
        /\ request'[r].pc \in {"finish", "done"}
        /\ request'[r].pc = "done" => request[r].committed = TRUE
        /\ commitFirst = TRUE => request[r].committed = TRUE
    BY <1>1, <1>2, <1>3 DEF Respond, Handling, RequestState, AfterBoth
  <1>5. task[r] = "none" /\ r \notin webhooks
    BY <1>1, <1>4 DEF Job
  <1>6. /\ UNCHANGED <<commitFirst, stored, created, circuits, published, job, webhooks>>
        /\ answered' \in {answered, answered \cup {r}}
        /\ task' = IF request[r].kind = "analyze" /\ request[r].body = r
                   THEN [task EXCEPT ![r] = "queued"] ELSE task
    BY DEF Respond, Own
  <1>7. TypeOK'
    <2>1. request' \in [Requests -> RequestState]
      BY <1>1, <1>2 DEF Respond, TypeOK, RequestState, AfterBoth, Running
    <2>2. QED
      BY <1>1, <1>6, <2>1 DEF TypeOK
  <1>8. Growing /\ \A q \in Requests \ {r} : Untouched(q)
    BY <1>1, <1>3, <1>6 DEF Growing, Untouched, TypeOK
  <1>9. task'[r] = IF request[r].kind = "analyze" /\ request[r].body = r
                   THEN "queued" ELSE "none"
    BY <1>1, <1>5, <1>6 DEF TypeOK
  <1>10. job[r] \in {"none", "processing"}
    BY <1>1, <1>4, <1>5 DEF Job
  <1>11. Handling(r)' /\ Created(r)' /\ Job(r)'
    BY <1>1, <1>2, <1>3, <1>4, <1>5, <1>6, <1>9, <1>10 DEF Handling, Created, Job, RequestState
  <1>12. QED
    BY <1>1, <1>6, <1>7, <1>8, <1>11, FrameStored, OneRequest

-----------------------------------------------------------------------------
(* The steps of a background task, errors and crashes *)

\* A step of a task leaves its request alone, or, where the session was still
\* open, ends it.
TaskFrame(r) ==
    /\ UNCHANGED <<commitFirst, stored, created, circuits, published, answered>>
    /\ request' = request
    /\ job' \in {job} \cup {Marked(r, status) : status \in {"completed", "failed"}}
    /\ task' = [task EXCEPT ![r] = task'[r]]
    /\ task'[r] \in {"notify", "ended", "lost"}
    /\ webhooks' \in {webhooks, webhooks \cup {r}}

LEMMA TaskLemma ==
    ASSUME IInv, NEW r \in Requests, TaskFrame(r), task[r] \in {"queued", "notify"}, Job(r)'
    PROVE  IInv'
  <1>1. Handling(r) /\ Created(r) /\ Job(r) /\ TypeOK /\ Stored
    BY DEF IInv, RequestInv
  <1>2. job' \in [Requests -> {"none", "processing", "completed", "failed"}]
    BY <1>1 DEF TaskFrame, Marked, TypeOK
  <1>3. \A q \in Requests \ {r} : job'[q] = job[q]
    BY <1>1 DEF TaskFrame, Marked, TypeOK
  <1>4. TypeOK'
    BY <1>1, <1>2 DEF TaskFrame, TypeOK
  <1>5. Growing /\ \A q \in Requests \ {r} : Untouched(q)
    BY <1>1, <1>3 DEF TaskFrame, Growing, Untouched, TypeOK
  <1>6. Handling(r)' /\ Created(r)'
    BY <1>1 DEF TaskFrame, Handling, Created
  <1>7. Stored'
    BY <1>1, <1>5, FrameStored DEF TaskFrame
  <1>8. QED
    BY <1>1, <1>4, <1>5, <1>6, <1>7, OneRequest

LEMMA TaskEndStep ==
    ASSUME IInv, NEW r \in Requests, TaskCompletes(r) \/ TaskFails(r)
    PROVE  IInv'
  <1>1. Created(r) /\ Job(r) /\ TypeOK /\ Handling(r)
    BY DEF IInv, RequestInv
  <1>2. PICK status \in {"completed", "failed"} :
            /\ job' = Marked(r, status)
            /\ task' = [task EXCEPT ![r] = IF status = "completed" THEN "notify" ELSE "ended"]
    BY DEF TaskCompletes, TaskFails
  <1>3. /\ UNCHANGED <<commitFirst, request, stored, created, circuits, published,
                       answered, webhooks>>
        /\ task[r] = "queued"
    BY DEF TaskCompletes, TaskFails
  <1>4. /\ task'[r] = IF status = "completed" THEN "notify" ELSE "ended"
        /\ job'[r] = IF job[r] = "none" THEN "none" ELSE status
    BY <1>1, <1>2 DEF Marked, TypeOK
  <1>5. TaskFrame(r)
    BY <1>1, <1>2, <1>3, <1>4 DEF TaskFrame, TypeOK
  <1>6. commitFirst = TRUE => job[r] # "none"
    BY <1>1, <1>3 DEF Handling, Created, Job
  <1>7. Job(r)'
    BY <1>1, <1>2, <1>3, <1>4, <1>6 DEF Job
  <1>8. QED
    BY <1>3, <1>5, <1>7, TaskLemma

LEMMA NotifyStep ==
    ASSUME IInv, NEW r \in Requests, NotifyWebhooks(r)
    PROVE  IInv'
  <1>1. Job(r) /\ TypeOK
    BY DEF IInv, RequestInv
  <1>2. task'[r] = "ended" /\ task[r] = "notify"
    BY <1>1 DEF NotifyWebhooks, TypeOK
  <1>3. TaskFrame(r)
    BY <1>1, <1>2 DEF NotifyWebhooks, TaskFrame, TypeOK
  <1>4. Job(r)'
    BY <1>1, <1>2 DEF NotifyWebhooks, Job
  <1>5. QED
    BY <1>2, <1>3, <1>4, TaskLemma

LEMMA TaskRaiseStep ==
    ASSUME IInv, NEW r \in Requests, TaskRaises(r)
    PROVE  IInv'
  <1>1. Handling(r) /\ Created(r) /\ Job(r) /\ TypeOK /\ Stored
    BY DEF IInv, RequestInv
  <1>2. request[r] \in RequestState
    BY <1>1 DEF TypeOK
  <1>3. /\ request'[r].kind = request[r].kind /\ request'[r].key = request[r].key
        /\ request'[r].usable = request[r].usable /\ request'[r].body = request[r].body
        /\ request'[r].committed = request[r].committed /\ request'[r].sent = request[r].sent
        /\ request'[r].pc \in {request[r].pc, "failed"}
        /\ \A q \in Requests \ {r} : request'[q] = request[q]
    BY <1>1, <1>2 DEF TaskRaises, TypeOK, RequestState
  <1>4. /\ UNCHANGED <<commitFirst, stored, created, circuits, published, answered, job, webhooks>>
        /\ task' = [task EXCEPT ![r] = "lost"] /\ task[r] = "queued"
    BY DEF TaskRaises
  <1>5. task'[r] = "lost"
    BY <1>1, <1>4 DEF TypeOK
  <1>6. TypeOK'
    <2>1. request' \in [Requests -> RequestState]
      BY <1>1, <1>2 DEF TaskRaises, TypeOK, RequestState
    <2>2. QED
      BY <1>1, <1>4, <2>1 DEF TypeOK
  <1>7. Growing /\ \A q \in Requests \ {r} : Untouched(q)
    BY <1>1, <1>3, <1>4 DEF Growing, Untouched, TypeOK
  <1>8. Handling(r)' /\ Created(r)' /\ Job(r)'
    BY <1>1, <1>3, <1>4, <1>5 DEF Handling, Created, Job
  <1>9. QED
    BY <1>1, <1>4, <1>6, <1>7, <1>8, FrameStored, OneRequest

LEMMA CrashStep ==
    ASSUME IInv, ApiCrash
    PROVE  IInv'
  <1>1. TypeOK /\ Stored
    BY DEF IInv
  <1>2. UNCHANGED <<commitFirst, stored, created, circuits, published, answered, job, webhooks>>
    BY DEF ApiCrash
  <1>3. ASSUME NEW r \in Requests
        PROVE  /\ request'[r] \in RequestState
               /\ request'[r].kind = request[r].kind /\ request'[r].key = request[r].key
               /\ request'[r].usable = request[r].usable /\ request'[r].body = request[r].body
               /\ request'[r].committed = request[r].committed
               /\ request'[r].sent = request[r].sent
               /\ \/ request'[r].pc = request[r].pc /\ request[r].pc \notin Running
                  \/ request'[r].pc = "failed"
               /\ task'[r] = IF task[r] \in {"queued", "notify"} THEN "lost" ELSE task[r]
    <2>1. request[r] \in RequestState
      BY <1>1 DEF TypeOK
    <2>2. request'[r] = IF request[r].pc \in Running THEN [request[r] EXCEPT !.pc = "failed"]
                        ELSE request[r]
      BY DEF ApiCrash
    <2>3. QED
      BY <2>1, <2>2 DEF ApiCrash, RequestState
  <1>4. TypeOK'
    <2>1. request' \in [Requests -> RequestState]
      BY <1>3 DEF ApiCrash
    <2>2. task' \in [Requests -> {"none", "queued", "notify", "ended", "lost"}]
      BY <1>1 DEF ApiCrash, TypeOK
    <2>3. QED
      BY <1>1, <1>2, <2>1, <2>2 DEF TypeOK
  <1>5. Growing
    BY <1>2, <1>3 DEF Growing
  <1>6. ASSUME NEW r \in Requests PROVE Handling(r)' /\ Created(r)' /\ Job(r)'
    <2>1. Handling(r) /\ Created(r) /\ Job(r)
      BY DEF IInv, RequestInv
    <2>2. QED
      BY <1>2, <1>3, <2>1 DEF Handling, Created, Job
  <1>7. QED
    BY <1>1, <1>2, <1>4, <1>5, <1>6, FrameStored DEF IInv, RequestInv

-----------------------------------------------------------------------------
(* The invariant and what follows from it *)

LEMMA InvariantStarts == Init => IInv
  <1> SUFFICES ASSUME Init PROVE IInv
    OBVIOUS
  <1>1. PICK kind \in [Requests -> {"csv", "analyze"}], key \in [Requests -> Keys] :
            request = [r \in Requests |->
                [pc |-> "lookup", kind |-> kind[r], key |-> key[r], usable |-> TRUE,
                 body |-> NoBody, found |-> FALSE, committed |-> FALSE, sent |-> FALSE]]
    BY DEF Init
  <1>2. request \in [Requests -> RequestState]
    BY <1>1 DEF RequestState
  <1>3. TypeOK
    BY <1>2 DEF Init, TypeOK
  <1>4. RequestInv
    BY <1>1 DEF Init, RequestInv, Handling, Created, Job
  <1>5. Stored
    BY DEF Init, Stored
  <1>6. QED
    BY <1>3, <1>4, <1>5 DEF IInv

LEMMA InvariantSteps == IInv /\ [Next]_vars => IInv'
  <1> SUFFICES ASSUME IInv, [Next]_vars PROVE IInv'
    OBVIOUS
  <1>1. CASE UNCHANGED vars
    BY <1>1 DEF vars, IInv, TypeOK, RequestInv, Stored, Handling, Created, Job
  <1>2. ASSUME NEW r \in Requests, GetCachedResponse(r) \/ Step(r) \/ RequestFails(r)
        PROVE  IInv'
    BY <1>2, LookupStep, ResolveStep, IngestStep, CreateStep, CommitStep, RespondStep, FailStep
       DEF Step
  <1>3. ASSUME NEW r \in Requests, TaskStep(r) \/ TaskRaises(r) PROVE IInv'
    BY <1>3, TaskEndStep, NotifyStep, TaskRaiseStep DEF TaskStep
  <1>4. QED
    BY <1>1, <1>2, <1>3, CrashStep DEF Next

LEMMA InvariantHolds == Spec => []IInv
  BY InvariantStarts, InvariantSteps, PTL DEF Spec

\* Requests, jobs, tasks and stored answers keep their types; no two answers are
\* stored for one key and endpoint.
THEOREM RequestTypes == Spec => []TypeOK
  <1>1. IInv => TypeOK
    BY DEF IInv
  <1>2. QED
    BY <1>1, InvariantHolds, PTL

\* A client that is answered can poll what the answer names, except before its
\* own request's commit: get_cached_response only finds committed answers.
THEOREM AnswersAreStored == Spec => []AnswersStored
  <1>1. IInv => AnswersStored
    BY DEF IInv, RequestInv, Handling, Created, AnswersStored, Own, TypeOK
  <1>2. QED
    BY <1>1, InvariantHolds, PTL

\* Of the requests that ended well, exactly the stored and usable batches are
\* announced to the pipeline.
THEOREM BatchesMatchEvents == Spec => []BatchIffEvent
  <1>1. IInv => BatchIffEvent
    BY DEF IInv, RequestInv, Handling, Created, BatchIffEvent, TypeOK, RequestState
  <1>2. QED
    BY <1>1, InvariantHolds, PTL

\* With a session that commits first, a webhook announces a completed job.
THEOREM WebhooksFollowResults == Spec => []WebhookAfterResult
  <1>1. IInv => WebhookAfterResult
    BY DEF IInv, RequestInv, Job, WebhookAfterResult, TypeOK
  <1>2. QED
    BY <1>1, InvariantHolds, PTL

-----------------------------------------------------------------------------
(* What a step may never do *)

\* What a step does to an answer: it keeps it, replays one that is stored, or
\* gives the request one of its own.
LEMMA AnswerChange ==
    ASSUME TypeOK, [Next]_vars, NEW r \in Requests
    PROVE  /\ request'[r].kind = request[r].kind /\ request'[r].key = request[r].key
           /\ \/ request'[r].body \in {request[r].body, r}
              \/ \E p \in Cached(r) : request'[r].body = p.body
  <1> DEFINE Same(q) == /\ request'[q].kind = request[q].kind
                        /\ request'[q].key = request[q].key
                        /\ request'[q].body = request[q].body
  <1>1. request[r] \in RequestState
    BY DEF TypeOK
  <1>2. ASSUME NEW q \in Requests,
               \/ GetCachedResponse(q) \/ Step(q) \/ RequestFails(q)
               \/ TaskStep(q) \/ TaskRaises(q)
        PROVE  /\ request'[r].kind = request[r].kind /\ request'[r].key = request[r].key
               /\ \/ request'[r].body \in {request[r].body, r}
                  \/ \E p \in Cached(r) : request'[r].body = p.body
    <2>1. CASE q # r
      BY <1>2, <2>1
      DEF GetCachedResponse, Step, ResolveCircuits, IngestBatch, CreateJob, Commit, Respond,
          RequestFails, TaskStep, TaskCompletes, TaskFails, NotifyWebhooks, TaskRaises, TypeOK
    <2>2. CASE q = r /\ GetCachedResponse(r)
      <3>1. \/ request' = [request EXCEPT ![r].pc = Handler[request[r].kind]]
            \/ \E p \in Cached(r) : request' = [request EXCEPT ![r] =
                     [request[r] EXCEPT !.pc = "finish", !.body = p.body]]
        BY <2>2 DEF GetCachedResponse, TypeOK
      <3>2. CASE request' = [request EXCEPT ![r].pc = Handler[request[r].kind]]
        BY <1>1, <3>2 DEF TypeOK, RequestState
      <3>3. ASSUME NEW p \in Cached(r),
                   request' = [request EXCEPT ![r] =
                                  [request[r] EXCEPT !.pc = "finish", !.body = p.body]]
            PROVE  Same(r) \/ (/\ request'[r].kind = request[r].kind
                               /\ request'[r].key = request[r].key
                               /\ request'[r].body = p.body)
        BY <1>1, <3>3 DEF TypeOK, RequestState
      <3>4. QED
        BY <3>1, <3>2, <3>3
    <2>3. CASE q = r /\ Step(r)
      <3>1. CASE ResolveCircuits(r)
        <4>1. request'[r] = [request[r] EXCEPT !.pc = "write", !.found = circuits # {}]
          BY <3>1 DEF ResolveCircuits, TypeOK
        <4>2. QED
          BY <1>1, <4>1 DEF RequestState
      <3>2. CASE IngestBatch(r)
        <4>1. \E usable \in BOOLEAN : request'[r] =
                  [request[r] EXCEPT !.pc = "finish", !.usable = usable, !.body = r]
          BY <3>2 DEF IngestBatch, TypeOK
        <4>2. QED
          BY <1>1, <4>1 DEF RequestState
      <3>3. CASE CreateJob(r)
        <4>1. request'[r] = [request[r] EXCEPT !.pc = "finish", !.body = r]
          BY <3>3 DEF CreateJob, TypeOK
        <4>2. QED
          BY <1>1, <4>1 DEF RequestState
      <3>4. CASE Commit(r) \/ Respond(r)
        <4>1. request'[r] \in
                  {[request[r] EXCEPT !.committed = TRUE, !.pc = AfterBoth(request[r].sent)],
                   [request[r] EXCEPT !.sent = TRUE, !.pc = AfterBoth(request[r].committed)]}
          BY <3>4 DEF Commit, Respond, TypeOK
        <4>2. QED
          BY <1>1, <4>1 DEF RequestState
      <3>5. QED
        BY <2>3, <3>1, <3>2, <3>3, <3>4 DEF Step
    <2>4. CASE q = r /\ (RequestFails(r) \/ TaskStep(r) \/ TaskRaises(r))
      <3>1. request' \in {request, [request EXCEPT ![r].pc = "failed"]}
        BY <2>4 DEF RequestFails, TaskStep, TaskCompletes, TaskFails, NotifyWebhooks, TaskRaises
      <3>2. request'[r] \in {request[r], [request[r] EXCEPT !.pc = "failed"]}
        BY <3>1 DEF TypeOK
      <3>3. QED
        BY <1>1, <3>2 DEF RequestState
    <2>5. QED
      BY <1>2, <2>1, <2>2, <2>3, <2>4
  <1>3. CASE ApiCrash
    BY <1>1, <1>3 DEF ApiCrash, TypeOK, RequestState
  <1>4. CASE UNCHANGED vars
    BY <1>4 DEF vars
  <1>5. QED
    BY <1>2, <1>3, <1>4 DEF Next

\* Answers that are stored stay.
LEMMA StoredStay == [Next]_vars => stored \subseteq stored'
  BY DEF Next, GetCachedResponse, Step, ResolveCircuits, IngestBatch, CreateJob, Commit,
         StoreResponse, Respond, RequestFails, TaskStep, TaskCompletes, TaskFails,
         NotifyWebhooks, TaskRaises, ApiCrash, vars

\* Replays of one key agree, whatever requests with it overlap, fail or commit:
\* ON CONFLICT DO NOTHING keeps the row that the first replay was read from.
THEOREM RetriesToldOneThing == Spec => []ReplaysAgree
  <1>1. Init => ReplaysAgree
    BY DEF Init, ReplaysAgree
  <1>2. IInv /\ ReplaysAgree /\ [Next]_vars => ReplaysAgree'
    <2> SUFFICES ASSUME IInv, ReplaysAgree, [Next]_vars,
                        NEW r \in Requests, request'[r].body \notin {NoBody, r}
                 PROVE  [kind |-> request'[r].kind, key |-> request'[r].key,
                         body |-> request'[r].body] \in stored'
      BY DEF ReplaysAgree, Row
    <2>1. TypeOK /\ stored \subseteq stored'
      BY StoredStay DEF IInv
    <2>2. request'[r].kind = request[r].kind /\ request'[r].key = request[r].key
      BY <2>1, AnswerChange
    <2>3. CASE request'[r].body = request[r].body
      BY <2>1, <2>2, <2>3 DEF ReplaysAgree, Row
    <2>4. ASSUME NEW p \in Cached(r), request'[r].body = p.body
          PROVE  [kind |-> request'[r].kind, key |-> request'[r].key,
                  body |-> request'[r].body] \in stored'
      <3>1. p \in stored /\ p.kind = request[r].kind /\ p.key = request[r].key
        BY DEF Cached
      <3>2. p = [kind |-> p.kind, key |-> p.key, body |-> p.body]
        BY <2>1, <3>1 DEF TypeOK
      <3>3. QED
        BY <2>1, <2>2, <2>4, <3>1, <3>2
    <2>5. QED
      BY <2>1, <2>3, <2>4, AnswerChange
  <1>3. QED
    BY <1>1, <1>2, InvariantHolds, PTL DEF Spec

\* The outcome of a job is final: only a queued task marks it, and a job whose
\* task is queued has none.
THEOREM OutcomesAreFinal == Spec => OutcomeFinal
  <1>1. IInv /\ [Next]_vars =>
          \A r \in Requests : job[r] \in {"completed", "failed"} => job'[r] = job[r]
    <2> SUFFICES ASSUME IInv, [Next]_vars, NEW r \in Requests,
                        job[r] \in {"completed", "failed"}
                 PROVE  job'[r] = job[r]
      OBVIOUS
    <2>1. TypeOK /\ Job(r) /\ Created(r)
      BY DEF IInv, RequestInv
    <2>2. CASE UNCHANGED vars
      BY <2>2 DEF vars
    <2>3. ASSUME NEW q \in Requests, GetCachedResponse(q) \/ Step(q) \/ RequestFails(q)
          PROVE  job'[r] = job[r]
      <3>1. CASE Commit(q)
        <4>1. q # r
          \* A request that is not committed has no job.
          BY <2>1, <3>1 DEF Commit, Created, Job
        <4>2. QED
          BY <2>1, <3>1, <4>1 DEF Commit, TypeOK
      <3>2. QED
        BY <2>3, <3>1 DEF GetCachedResponse, Step, ResolveCircuits, IngestBatch, CreateJob,
              Respond, RequestFails
    <2>4. ASSUME NEW q \in Requests, TaskStep(q) \/ TaskRaises(q) PROVE job'[r] = job[r]
      <3>1. task[r] # "queued"
        BY <2>1 DEF Job
      <3>2. QED
        BY <2>1, <2>4, <3>1
           DEF TaskStep, TaskCompletes, TaskFails, NotifyWebhooks, TaskRaises, Marked, TypeOK
    <2>5. CASE ApiCrash
      BY <2>5 DEF ApiCrash
    <2>6. QED
      BY <2>2, <2>3, <2>4, <2>5 DEF Next
  <1>2. QED
    BY <1>1, InvariantHolds, PTL DEF Spec, OutcomeFinal

=============================================================================
