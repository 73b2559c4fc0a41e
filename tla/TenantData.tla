----------------------------- MODULE TenantData -----------------------------
(***************************************************************************)
(* A tenant's rows, who writes them and how they are deleted:              *)
(* services/tenant_admin/{service,repository}.py, apps/api/routers/        *)
(* tenant.py, database/migrations/versions/0003_retention_and_deletion.py  *)
(* and scripts/maintenance/tenant_data_deletion.py.                        *)
(*                                                                         *)
(* The database runs at READ COMMITTED: each statement of a transaction    *)
(* sees what is committed when it starts.  A row that another transaction  *)
(* has deleted and not committed makes whoever needs it wait.  A foreign   *)
(* key is checked at the end of a statement, against everything committed  *)
(* by then.  The deletion runs as a role that bypasses row-level security, *)
(* without which its first SELECT raises: the script sets no tenant.       *)
(***************************************************************************)
EXTENDS Integers, Sequences, FiniteSets

CONSTANTS
    Tenants, Buildings,    \* identifiers the database may hand out
    None,                  \* no tenant, no transaction
    MaxUploads,            \* uploads that may be in progress at a time
    MaxRequests            \* bound on the operations that begin

ASSUME TenantDataAssumption ==
    /\ None \notin Tenants \cup Buildings
    /\ Tenants \cap Buildings = {}
    /\ MaxUploads \in Nat /\ MaxRequests \in Nat

VARIABLES
    tenants,       \* rows of tenants
    clients,       \* tenants with a row in api_clients
    owner,         \* the tenant each building was created for
    rows,          \* the committed rows of the other tables
    audit,         \* audit_log: event, entity, and what the call deleted
    tx,            \* the deletion in progress
    upload,        \* uploads in progress
    analysing,     \* buildings with an analysis run in progress
    requests,      \* operations begun so far
    raced,         \* history: buildings whose first uploads overlapped
    overlapped     \* history: buildings deleted while an analysis was running

vars == <<tenants, clients, owner, rows, audit, tx, upload, analysing,
          requests, raced, overlapped>>

Uploads == 1..MaxUploads

\* A row stands for all rows of its table that belong to a building, except
\* that circuits are told apart by the upload that created them, 0 for the
\* sandbox's, and readings and features by their circuit.
Row ==
    ({"buildings", "findings", "labels", "batches"} \X Buildings \X {0}) \cup
    ({"circuits", "readings", "features"} \X Buildings \X (0..MaxUploads))

Building(b) == <<"buildings", b, 0>>
Circuit(b, c) == <<"circuits", b, c>>

\* The foreign keys.  findings has none: a row without a parent is its own.
Parent(r) ==
    CASE r[1] \in {"circuits", "batches"} -> Building(r[2])
      [] r[1] \in {"readings", "features"} -> Circuit(r[2], r[3])
      [] r[1] = "labels" -> <<"findings", r[2], 0>>
      [] OTHER -> r

TypeOK ==
    /\ tenants \subseteq Tenants /\ clients \subseteq Tenants
    /\ owner \in [Buildings -> Tenants \cup {None}]
    /\ rows \subseteq Row
    /\ tx # None => tx.deleted \subseteq Row /\ tx.todo \subseteq Buildings
    /\ upload \in [Uploads -> {None} \cup (Buildings \X (0..MaxUploads))]
    /\ analysing \subseteq Buildings
    /\ requests \in 0..MaxRequests
    /\ raced \subseteq Buildings /\ overlapped \subseteq Buildings

Init ==
    /\ tenants \in SUBSET Tenants
    /\ clients \in SUBSET tenants
    /\ owner = [b \in Buildings |-> None]
    /\ rows = {} /\ audit = {}
    /\ tx = None
    /\ upload = [u \in Uploads |-> None]
    /\ analysing = {}
    /\ requests = 0
    /\ raced = {} /\ overlapped = {}

Begins == requests < MaxRequests /\ requests' = requests + 1

Deleted == IF tx = None THEN {} ELSE tx.deleted

\* Committed and not being deleted: what a statement of another transaction
\* neither fails for the lack of nor waits for.
Present(r) == r \in rows \ Deleted

\* A transaction that inserts S commits.  Rows that the deletion has passed by
\* since it deleted their table are there again.
Insert(S) ==
    /\ \A r \in S : Parent(r) \in S \/ Present(Parent(r))
    /\ rows' = rows \cup S
    /\ tx' = IF tx = None THEN None ELSE [tx EXCEPT !.deleted = @ \ S]

-----------------------------------------------------------------------------
(* Tenants, buildings and keys: TenantAdminService *)

\* provision: a tenant with a building, its circuits and two days of readings.
ProvisionSandbox(t, b) ==
    /\ t \notin tenants /\ \A a \in audit : a[2] # t
    /\ owner[b] = None
    /\ Begins
    /\ tenants' = tenants \cup {t}
    /\ owner' = [owner EXCEPT ![b] = t]
    /\ Insert({Building(b), Circuit(b, 0), <<"readings", b, 0>>})
    /\ UNCHANGED <<clients, audit, upload, analysing, raced, overlapped>>

\* A request for a tenant carries a token of one of its clients.
CreateBuilding(t, b) ==
    /\ t \in tenants \cap clients
    /\ owner[b] = None
    /\ Begins
    /\ owner' = [owner EXCEPT ![b] = t]
    /\ Insert({Building(b)})
    /\ UNCHANGED <<tenants, clients, audit, upload, analysing, raced, overlapped>>

\* issue_api_client.  revoke_api_client sets a date and keeps the row.
IssueApiClient(t) ==
    /\ t \in tenants \ clients
    /\ Begins
    /\ clients' = clients \cup {t}
    /\ UNCHANGED <<tenants, owner, rows, audit, tx, upload, analysing,
                   raced, overlapped>>

\* An upload that has created a circuit holds its building until it commits.
Holds(u, b) == upload[u] # None /\ upload[u][1] = b /\ Circuit(b, upload[u][2]) \notin rows

Refers(s, r) == s # r /\ Parent(s) = r

\* delete_building of the API: one DELETE, which a foreign key may refuse.
DeleteBuilding(b) ==
    /\ owner[b] \in clients
    /\ Present(Building(b)) /\ \A s \in rows : ~Refers(s, Building(b))
    /\ \A u \in Uploads : ~Holds(u, b)
    /\ Begins
    /\ rows' = rows \ {Building(b)}
    /\ UNCHANGED <<tenants, clients, owner, audit, tx, upload, analysing,
                   raced, overlapped>>

-----------------------------------------------------------------------------
(* Uploads: ingest_raw_rows with one meter, up to and after the commit *)

\* The meter's circuits, as the SELECT of get_or_create_circuits finds them.
Found(b) == {c \in Uploads : Circuit(b, c) \in rows}

\* Mutant: a circuit is inserted without looking for the meter's.
ResolvedAnew(u, b) == {u}

\* The map by label keeps the last of several circuits of a meter, in no order;
\* without one the upload creates its own.
Resolved(u, b) == IF Found(b) = {} THEN {u} ELSE Found(b)

BeginUpload(u, b) ==
    /\ upload[u] = None
    /\ owner[b] \in clients
    /\ Present(Building(b))
    /\ Begins
    /\ \E c \in Resolved(u, b) : upload' = [upload EXCEPT ![u] = <<b, c>>]
    /\ raced' = IF Found(b) = {} /\ \E v \in Uploads : Holds(v, b)
                THEN raced \cup {b} ELSE raced
    /\ UNCHANGED <<tenants, clients, owner, rows, audit, tx, analysing, overlapped>>

CommitUpload(u) ==
    /\ upload[u] # None
    /\ LET b == upload[u][1]  c == upload[u][2]
       IN  Insert((IF Holds(u, b) THEN {Circuit(b, c)} ELSE {})
                  \cup {<<"readings", b, c>>, <<"batches", b, 0>>})
    /\ upload' = [upload EXCEPT ![u] = None]
    /\ UNCHANGED <<tenants, clients, owner, audit, analysing, requests,
                   raced, overlapped>>

\* An error, or a foreign key whose row is gone: nothing is kept.
FailUpload(u) ==
    /\ upload[u] # None
    /\ upload' = [upload EXCEPT ![u] = None]
    /\ UNCHANGED <<tenants, clients, owner, rows, audit, tx, analysing, requests,
                   raced, overlapped>>

-----------------------------------------------------------------------------
(* Analysis runs and feedback, reduced to the rows they write *)

StartAnalysis(b) ==
    /\ b \notin analysing
    /\ \E c \in 0..MaxUploads : <<"readings", b, c>> \in rows
    /\ Begins
    /\ analysing' = analysing \cup {b}
    /\ tx' = IF tx = None THEN None ELSE [tx EXCEPT !.met = @ \cup {b}]
    /\ UNCHANGED <<tenants, clients, owner, rows, audit, upload, raced, overlapped>>

\* Later steps write what earlier ones computed; no key ties findings to the
\* building, and no step looks whether it is still there.
SaveFindings(b) ==
    /\ b \in analysing
    /\ Insert({<<"findings", b, 0>>})
    /\ UNCHANGED <<tenants, clients, owner, audit, upload, analysing, requests,
                   raced, overlapped>>

SaveFeatures(b) ==
    /\ b \in analysing
    /\ \E c \in 0..MaxUploads :
        /\ <<"readings", b, c>> \in rows
        /\ Insert({<<"features", b, c>>})
    /\ UNCHANGED <<tenants, clients, owner, audit, upload, analysing, requests,
                   raced, overlapped>>

EndAnalysis(b) ==
    /\ b \in analysing
    /\ analysing' = analysing \ {b}
    /\ UNCHANGED <<tenants, clients, owner, rows, audit, tx, upload, requests,
                   raced, overlapped>>

RecordFeedback(b) ==
    /\ Present(<<"findings", b, 0>>)
    /\ Begins
    /\ Insert({<<"labels", b, 0>>})
    /\ UNCHANGED <<tenants, clients, owner, audit, upload, analysing,
                   raced, overlapped>>

-----------------------------------------------------------------------------
(* delete_building_data and delete_tenant_data, in one transaction *)

\* Mutant: the function forgets findings and their labels.
StatementsWithoutFindings == <<"readings", "circuits", "buildings">>

\* The tables in the order of the function's DELETEs.  building_calendar has no
\* writer, and features and batches are not in the list.
Statements == <<"labels", "findings", "readings", "circuits", "buildings">>

NewDeletion(target, bs) ==
    [target |-> target, todo |-> bs, current |-> None, at |-> 0,
     deleted |-> {}, log |-> {}, met |-> analysing \cap bs]

\* The function raises for a building that is not there.
BeginBuildingDeletion(b) ==
    /\ tx = None /\ Building(b) \in rows
    /\ Begins
    /\ tx' = NewDeletion(b, {b})
    /\ UNCHANGED <<tenants, clients, owner, rows, audit, upload, analysing,
                   raced, overlapped>>

\* The loop runs over the buildings there are when it starts.
BeginTenantDeletion(t) ==
    /\ tx = None /\ t \in tenants
    /\ Begins
    /\ tx' = [NewDeletion(t, {b \in Buildings : owner[b] = t /\ Building(b) \in rows})
              EXCEPT !.log = {<<"tenant.data.deletion_initiated", t, t>>}]
    /\ UNCHANGED <<tenants, clients, owner, rows, audit, upload, analysing,
                   raced, overlapped>>

\* The next building: its deletion is logged before any of its rows goes.
NextBuilding ==
    /\ tx # None /\ tx.current = None
    /\ \E b \in tx.todo :
        /\ Present(Building(b))
        /\ tx' = [tx EXCEPT !.current = b, !.at = 1,
                            !.log = @ \cup {<<"building.data.deleted", b, tx.target>>}]
    /\ UNCHANGED <<tenants, clients, owner, rows, audit, upload, analysing,
                   requests, raced, overlapped>>

\* One DELETE.  A foreign key of a row committed by now refuses it.
DeleteRows ==
    /\ tx # None /\ tx.current # None /\ tx.at <= Len(Statements)
    /\ LET hit == {r \in rows : r[1] = Statements[tx.at] /\ r[2] = tx.current}
       IN  /\ \A s \in rows \ (tx.deleted \cup hit), r \in hit : ~Refers(s, r)
           /\ Statements[tx.at] = "buildings" => \A u \in Uploads : ~Holds(u, tx.current)
           /\ tx' = [tx EXCEPT !.deleted = @ \cup hit, !.at = @ + 1]
    /\ UNCHANGED <<tenants, clients, owner, rows, audit, upload, analysing,
                   requests, raced, overlapped>>

BuildingDone ==
    /\ tx # None /\ tx.current # None /\ tx.at > Len(Statements)
    /\ tx' = [tx EXCEPT !.current = None, !.todo = @ \ {tx.current},
                 !.log = @ \cup {<<"building.data.deletion_completed", tx.current, tx.target>>}]
    /\ UNCHANGED <<tenants, clients, owner, rows, audit, upload, analysing,
                   requests, raced, overlapped>>

\* Nothing refers to the tenant: no key of the API, and no building, be it one
\* that was created after the loop had started.
TenantRowFree(t) ==
    /\ t \notin clients
    /\ \A b \in Buildings : owner[b] = t => Building(b) \notin rows \ tx.deleted

CommitDeletion ==
    /\ tx # None /\ tx.todo = {}
    /\ tx.target \in Tenants => TenantRowFree(tx.target)
    /\ rows' = rows \ tx.deleted
    /\ tenants' = tenants \ {tx.target}
    /\ audit' = audit \cup tx.log \cup
           {<<"tenant.data.deletion_completed", t, t>> : t \in {tx.target} \cap Tenants}
    /\ overlapped' = overlapped \cup tx.met
    /\ tx' = None
    /\ UNCHANGED <<clients, owner, upload, analysing, requests, raced>>

\* Mutant: the log is written in a transaction of its own.
AbortKeepingLog ==
    /\ tx # None
    /\ tx' = None
    /\ audit' = audit \cup tx.log
    /\ UNCHANGED <<tenants, clients, owner, rows, upload, analysing,
                   requests, raced, overlapped>>

\* A foreign key refuses a DELETE, a deadlock is broken, the script is killed:
\* all of the transaction is undone.
AbortDeletion ==
    /\ tx # None
    /\ tx' = None
    /\ UNCHANGED <<tenants, clients, owner, rows, audit, upload, analysing,
                   requests, raced, overlapped>>

-----------------------------------------------------------------------------

Next ==
    \/ \E t \in Tenants :
        \/ IssueApiClient(t) \/ BeginTenantDeletion(t)
        \/ \E b \in Buildings : ProvisionSandbox(t, b) \/ CreateBuilding(t, b)
    \/ \E b \in Buildings :
        \/ DeleteBuilding(b) \/ BeginBuildingDeletion(b)
        \/ StartAnalysis(b) \/ SaveFindings(b) \/ SaveFeatures(b) \/ EndAnalysis(b)
        \/ RecordFeedback(b)
    \/ \E u \in Uploads :
        \/ CommitUpload(u) \/ FailUpload(u)
        \/ \E b \in Buildings : BeginUpload(u, b)
    \/ NextBuilding \/ DeleteRows \/ BuildingDone \/ CommitDeletion \/ AbortDeletion

Spec == Init /\ [][Next]_vars

-----------------------------------------------------------------------------
(* Properties that hold *)

\* delete_building_data removes a building's findings and nothing stops them
\* from coming back, but only an analysis that was running while the building
\* was deleted leaves any behind.
OrphansWereInFlight ==
    \A b \in Buildings :
        <<"findings", b, 0>> \in rows /\ Building(b) \notin rows => b \in overlapped

\* What is logged of a deletion: for building and tenant, that it has begun and
\* that it is complete, and then no row of the building is left that a key
\* ties to it.
LoggedDeletion(b) ==
    LET calls == {a[3] : a \in {e \in audit : e[2] = b}}
    IN  \A call \in calls :
            /\ <<"building.data.deleted", b, call>> \in audit
            /\ <<"building.data.deletion_completed", b, call>> \in audit
            /\ \A r \in rows : r[2] = b => r[1] \in {"findings", "labels"}
            /\ call \in Tenants => call \notin tenants

\* A deletion is logged completely or not at all, and happens as logged:
\* a tenant's buildings go all together with its row, or all stay, also when
\* a statement late in the transaction is refused.
DeletionsAtomic ==
    /\ \A b \in Buildings : LoggedDeletion(b)
    /\ \A t \in Tenants : t \in {a[2] : a \in {e \in audit : e[1] = "tenant.data.deletion_completed"}}
                          => t \notin tenants /\ \A b \in Buildings : owner[b] = t => Building(b) \notin rows

\* A meter gets two circuits only when its first two uploads overlap: every
\* later upload finds a committed one, whatever is deleted in between.
TwinsFromOverlap ==
    \A b \in Buildings : Cardinality(Found(b)) > 1 => b \in raced

=============================================================================
