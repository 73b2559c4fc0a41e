-------------------------- MODULE TenantData_proofs --------------------------
(* What holds of a tenant's rows and of deletions, for any number of        *)
(* tenants, buildings, uploads and operations.                              *)
EXTENDS TenantData, FiniteSetTheorems, TLAPS

USE TenantDataAssumption

-----------------------------------------------------------------------------
(* Types *)

Ids == Tenants \cup Buildings

Events ==
    {"tenant.data.deletion_initiated", "tenant.data.deletion_completed",
     "building.data.deleted", "building.data.deletion_completed"}

LogEntry == Events \X Ids \X Ids

Transaction ==
    [target : Ids, todo : SUBSET Buildings, current : Buildings \cup {None},
     at : 0..6, deleted : SUBSET Row, log : SUBSET LogEntry, met : SUBSET Buildings]

Typed ==
    /\ TypeOK
    /\ tx = None \/ tx \in Transaction
    /\ audit \subseteq LogEntry

LEMMA StatementOrder ==
    /\ Len(Statements) = 5
    /\ Statements[1] = "labels" /\ Statements[2] = "findings" /\ Statements[3] = "readings"
    /\ Statements[4] = "circuits" /\ Statements[5] = "buildings"
  BY DEF Statements

LEMMA RowKinds ==
    ASSUME NEW b \in Buildings, NEW c \in 0..MaxUploads
    PROVE  /\ Building(b) \in Row /\ Circuit(b, c) \in Row
           /\ <<"readings", b, c>> \in Row /\ <<"features", b, c>> \in Row
           /\ <<"findings", b, 0>> \in Row /\ <<"labels", b, 0>> \in Row
           /\ <<"batches", b, 0>> \in Row
  BY DEF Row, Building, Circuit

LEMMA InsertType ==
    ASSUME Typed, NEW S \in SUBSET Row, Insert(S)
    PROVE  /\ rows' \subseteq Row
           /\ tx' = None \/ tx' \in Transaction
           /\ tx = None \/ tx' = [tx EXCEPT !.deleted = tx.deleted \ S]
  BY DEF Typed, TypeOK, Insert, Transaction

\* The rows an upload commits.
Uploaded(u) ==
    (IF Holds(u, upload[u][1]) THEN {Circuit(upload[u][1], upload[u][2])} ELSE {})
    \cup {<<"readings", upload[u][1], upload[u][2]>>, <<"batches", upload[u][1], 0>>}

LEMMA UploadedRows ==
    ASSUME Typed, NEW u \in Uploads, upload[u] # None
    PROVE  Uploaded(u) \subseteq Row /\ upload[u][1] \in Buildings /\ upload[u][2] \in 0..MaxUploads
  <1>1. upload[u] \in Buildings \X (0..MaxUploads)
    BY DEF Typed, TypeOK
  <1>2. upload[u][1] \in Buildings /\ upload[u][2] \in 0..MaxUploads
    BY <1>1
  <1>3. QED
    BY <1>2, RowKinds DEF Uploaded

LEMMA InsertingTypes ==
    ASSUME Typed,
           \/ \E t \in Tenants, b \in Buildings : ProvisionSandbox(t, b) \/ CreateBuilding(t, b)
           \/ \E b \in Buildings : SaveFindings(b) \/ SaveFeatures(b) \/ RecordFeedback(b)
           \/ \E u \in Uploads : CommitUpload(u)
    PROVE  Typed'
  <1>1. 0 \in 0..MaxUploads
    OBVIOUS
  <1>2. PICK S \in SUBSET Row : Insert(S)
    <2>1. ASSUME NEW t \in Tenants, NEW b \in Buildings, ProvisionSandbox(t, b)
          PROVE  \E S \in SUBSET Row : Insert(S)
      BY <1>1, <2>1, RowKinds DEF ProvisionSandbox
    <2>2. ASSUME NEW t \in Tenants, NEW b \in Buildings, CreateBuilding(t, b)
          PROVE  \E S \in SUBSET Row : Insert(S)
      BY <1>1, <2>2, RowKinds DEF CreateBuilding
    <2>3. ASSUME NEW u \in Uploads, CommitUpload(u) PROVE \E S \in SUBSET Row : Insert(S)
      BY <2>3, UploadedRows DEF CommitUpload, Uploaded
    <2>4. ASSUME NEW b \in Buildings, SaveFindings(b) PROVE \E S \in SUBSET Row : Insert(S)
      BY <1>1, <2>4, RowKinds DEF SaveFindings
    <2>5. ASSUME NEW b \in Buildings, SaveFeatures(b) PROVE \E S \in SUBSET Row : Insert(S)
      BY <2>5, RowKinds DEF SaveFeatures
    <2>6. ASSUME NEW b \in Buildings, RecordFeedback(b) PROVE \E S \in SUBSET Row : Insert(S)
      BY <1>1, <2>6, RowKinds DEF RecordFeedback
    <2>7. QED
      BY <2>1, <2>2, <2>3, <2>4, <2>5, <2>6
  <1>3. rows' \subseteq Row /\ (tx' = None \/ tx' \in Transaction)
    BY <1>2, InsertType
  <1>4. tx' # None => tx'.deleted \subseteq Row /\ tx'.todo \subseteq Buildings
    BY <1>3 DEF Transaction
  <1> DEFINE Rest ==
             /\ tenants' \subseteq Tenants /\ owner' \in [Buildings -> Tenants \cup {None}]
             /\ upload' \in [Uploads -> {None} \cup (Buildings \X (0..MaxUploads))]
             /\ requests' \in 0..MaxRequests
             /\ UNCHANGED <<clients, audit, analysing, raced, overlapped>>
  <1>5. ASSUME NEW t \in Tenants, NEW b \in Buildings,
               ProvisionSandbox(t, b) \/ CreateBuilding(t, b)
        PROVE  Rest
    BY <1>5 DEF ProvisionSandbox, CreateBuilding, Begins, Typed, TypeOK
  <1>6. ASSUME NEW b \in Buildings, SaveFindings(b) \/ SaveFeatures(b) \/ RecordFeedback(b)
        PROVE  Rest
    BY <1>6 DEF SaveFindings, SaveFeatures, RecordFeedback, Begins, Typed, TypeOK
  <1>7. ASSUME NEW u \in Uploads, CommitUpload(u) PROVE Rest
    BY <1>7 DEF CommitUpload, Typed, TypeOK
  <1>8. Rest
    BY <1>5, <1>6, <1>7
  <1>9. QED
    BY <1>3, <1>4, <1>8 DEF Typed, TypeOK

LEMMA DeletionTypes ==
    ASSUME Typed,
           \/ \E b \in Buildings : BeginBuildingDeletion(b)
           \/ \E t \in Tenants : BeginTenantDeletion(t)
           \/ NextBuilding \/ DeleteRows \/ BuildingDone \/ AbortDeletion \/ CommitDeletion
    PROVE  Typed'
  <1>1. ASSUME NEW b \in Buildings, BeginBuildingDeletion(b) PROVE Typed'
    <2>1. NewDeletion(b, {b}) \in Transaction
      BY DEF NewDeletion, Transaction, Typed, TypeOK, Ids
    <2>2. tx' \in Transaction
      BY <1>1, <2>1 DEF BeginBuildingDeletion
    <2>3. tx'.deleted \subseteq Row /\ tx'.todo \subseteq Buildings
      BY <2>2 DEF Transaction
    <2>4. UNCHANGED <<tenants, clients, owner, rows, audit, upload, analysing,
                      raced, overlapped>> /\ requests' \in 0..MaxRequests
      BY <1>1 DEF BeginBuildingDeletion, Begins, Typed, TypeOK
    <2>5. QED
      BY <2>2, <2>3, <2>4 DEF Typed, TypeOK
  <1>2. ASSUME NEW t \in Tenants, BeginTenantDeletion(t) PROVE Typed'
    <2>1. PICK bs \in SUBSET Buildings : tx' =
              [NewDeletion(t, bs) EXCEPT !.log = {<<"tenant.data.deletion_initiated", t, t>>}]
      BY <1>2 DEF BeginTenantDeletion
    <2>2. NewDeletion(t, bs) \in Transaction
      BY DEF NewDeletion, Transaction, Typed, TypeOK, Ids
    <2>3. <<"tenant.data.deletion_initiated", t, t>> \in LogEntry
      BY DEF LogEntry, Events, Ids
    <2>4. tx' \in Transaction
      BY <2>1, <2>2, <2>3 DEF Transaction
    <2>5. tx'.deleted \subseteq Row /\ tx'.todo \subseteq Buildings
      BY <2>4 DEF Transaction
    <2>6. UNCHANGED <<tenants, clients, owner, rows, audit, upload, analysing,
                      raced, overlapped>> /\ requests' \in 0..MaxRequests
      BY <1>2 DEF BeginTenantDeletion, Begins, Typed, TypeOK
    <2>7. QED
      BY <2>4, <2>5, <2>6 DEF Typed, TypeOK
  <1>3. CASE NextBuilding
    <2>1. tx \in Transaction
      BY <1>3 DEF NextBuilding, Typed
    <2>2. PICK d \in tx.todo :
              tx' = [tx EXCEPT !.current = d, !.at = 1,
                               !.log = tx.log \cup {<<"building.data.deleted", d, tx.target>>}]
      BY <1>3 DEF NextBuilding
    <2>3. d \in Buildings /\ tx.target \in Ids /\ tx.log \subseteq LogEntry
      BY <2>1 DEF Transaction
    <2>4. <<"building.data.deleted", d, tx.target>> \in LogEntry
      BY <2>3 DEF LogEntry, Events, Ids
    <2>5. tx.log \cup {<<"building.data.deleted", d, tx.target>>} \subseteq LogEntry
      BY <2>3, <2>4
    <2>6. ASSUME NEW log \in SUBSET LogEntry
          PROVE  [tx EXCEPT !.current = d, !.at = 1, !.log = log] \in Transaction
      <3>1. 1 \in 0..6 /\ d \in Buildings \cup {None}
        BY <2>3
      <3>2. QED
        BY <2>1, <3>1 DEF Transaction
    <2>7. tx' \in Transaction
      BY <2>2, <2>5, <2>6
    <2>8. tx'.deleted \subseteq Row /\ tx'.todo \subseteq Buildings
      BY <2>7 DEF Transaction
    <2>9. QED
      BY <1>3, <2>7, <2>8 DEF NextBuilding, Typed, TypeOK
  <1>4. CASE DeleteRows
    <2>1. tx \in Transaction /\ tx.at <= 5
      BY <1>4, StatementOrder DEF DeleteRows, Typed
    <2>2. PICK hit \in SUBSET rows :
              tx' = [tx EXCEPT !.deleted = tx.deleted \cup hit, !.at = tx.at + 1]
      BY <1>4 DEF DeleteRows
    <2>3. tx.at + 1 \in 0..6
      BY <2>1 DEF Transaction
    <2>4. tx' \in Transaction
      BY <2>1, <2>2, <2>3 DEF Transaction, Typed, TypeOK
    <2>5. QED
      BY <1>4, <2>4 DEF DeleteRows, Typed, TypeOK, Transaction
  <1>5. CASE BuildingDone
    <2>1. tx \in Transaction /\ tx.current \in Buildings
      BY <1>5 DEF BuildingDone, Typed, Transaction
    <2>2. <<"building.data.deletion_completed", tx.current, tx.target>> \in LogEntry
      BY <2>1 DEF Transaction, LogEntry, Events, Ids
    <2>3. tx' \in Transaction
      BY <1>5, <2>1, <2>2 DEF BuildingDone, Transaction
    <2>4. QED
      BY <1>5, <2>3 DEF BuildingDone, Typed, TypeOK, Transaction
  <1>6. CASE AbortDeletion
    BY <1>6 DEF AbortDeletion, Typed, TypeOK
  <1>7. CASE CommitDeletion
    <2>1. tx \in Transaction
      BY <1>7 DEF CommitDeletion, Typed
    <2>2. audit' \subseteq LogEntry
      BY <1>7, <2>1 DEF CommitDeletion, Typed, Transaction, LogEntry, Events, Ids
    <2>3. overlapped' \subseteq Buildings /\ tenants' \subseteq Tenants /\ rows' \subseteq Row
      BY <1>7, <2>1 DEF CommitDeletion, Typed, TypeOK, Transaction
    <2>4. QED
      BY <1>7, <2>2, <2>3 DEF CommitDeletion, Typed, TypeOK
  <1>8. QED
    BY <1>1, <1>2, <1>3, <1>4, <1>5, <1>6, <1>7

LEMMA OtherTypes ==
    ASSUME Typed,
           \/ \E t \in Tenants : IssueApiClient(t)
           \/ \E b \in Buildings : DeleteBuilding(b) \/ StartAnalysis(b) \/ EndAnalysis(b)
           \/ \E u \in Uploads : FailUpload(u) \/ \E b \in Buildings : BeginUpload(u, b)
    PROVE  Typed'
  <1>1. ASSUME NEW t \in Tenants, IssueApiClient(t) PROVE Typed'
    BY <1>1 DEF IssueApiClient, Begins, Typed, TypeOK
  <1>2. ASSUME NEW b \in Buildings, DeleteBuilding(b) PROVE Typed'
    BY <1>2 DEF DeleteBuilding, Begins, Typed, TypeOK
  <1>3. ASSUME NEW u \in Uploads, NEW b \in Buildings, BeginUpload(u, b) PROVE Typed'
    <2>1. Resolved(u, b) \subseteq 0..MaxUploads
      BY DEF Resolved, Found, Uploads
    <2>2. upload' \in [Uploads -> {None} \cup (Buildings \X (0..MaxUploads))]
      BY <1>3, <2>1 DEF BeginUpload, Typed, TypeOK
    <2>3. QED
      BY <1>3, <2>2 DEF BeginUpload, Begins, Typed, TypeOK
  <1>4. ASSUME NEW u \in Uploads, FailUpload(u) PROVE Typed'
    BY <1>4 DEF FailUpload, Typed, TypeOK
  <1>5. ASSUME NEW b \in Buildings, StartAnalysis(b) PROVE Typed'
    <2>1. tx' = None \/ tx' \in Transaction
      BY <1>5 DEF StartAnalysis, Typed, Transaction
    <2>2. tx' # None => tx'.deleted \subseteq Row /\ tx'.todo \subseteq Buildings
      BY <2>1 DEF Transaction
    <2>3. QED
      BY <1>5, <2>1, <2>2 DEF StartAnalysis, Begins, Typed, TypeOK
  <1>6. ASSUME NEW b \in Buildings, EndAnalysis(b) PROVE Typed'
    BY <1>6 DEF EndAnalysis, Typed, TypeOK
  <1>7. QED
    BY <1>1, <1>2, <1>3, <1>4, <1>5, <1>6

LEMMA TypesStart == Init => Typed
  <1>1. Init => TypeOK
    BY DEF Init, TypeOK
  <1>2. QED
    BY <1>1 DEF Init, Typed

LEMMA TypesStep == Typed /\ [Next]_vars => Typed'
  <1> SUFFICES ASSUME Typed, [Next]_vars PROVE Typed'
    OBVIOUS
  <1>1. CASE UNCHANGED vars
    BY <1>1 DEF vars, Typed, TypeOK
  <1>2. ASSUME NEW t \in Tenants, IssueApiClient(t) \/ BeginTenantDeletion(t)
        PROVE  Typed'
    BY <1>2, OtherTypes, DeletionTypes
  <1>3. ASSUME NEW t \in Tenants, NEW b \in Buildings,
               ProvisionSandbox(t, b) \/ CreateBuilding(t, b)
        PROVE  Typed'
    BY <1>3, InsertingTypes
  <1>4. ASSUME NEW b \in Buildings,
               \/ DeleteBuilding(b) \/ BeginBuildingDeletion(b)
               \/ StartAnalysis(b) \/ SaveFindings(b) \/ SaveFeatures(b) \/ EndAnalysis(b)
               \/ RecordFeedback(b)
        PROVE  Typed'
    BY <1>4, OtherTypes, DeletionTypes, InsertingTypes
  <1>5. ASSUME NEW u \in Uploads, CommitUpload(u) \/ FailUpload(u) PROVE Typed'
    BY <1>5, OtherTypes, InsertingTypes
  <1>6. ASSUME NEW u \in Uploads, NEW b \in Buildings, BeginUpload(u, b) PROVE Typed'
    BY <1>6, OtherTypes
  <1>7. CASE NextBuilding \/ DeleteRows \/ BuildingDone \/ CommitDeletion \/ AbortDeletion
    BY <1>7, DeletionTypes
  <1>8. QED
    BY <1>1, <1>2, <1>3, <1>4, <1>5, <1>6, <1>7 DEF Next

LEMMA TypesHold == Spec => []Typed
  BY TypesStart, TypesStep, PTL DEF Spec

\* Rows, transactions and uploads keep their types.
THEOREM TenantTypes == Spec => []TypeOK
  <1>1. Typed => TypeOK
    BY DEF Typed
  <1>2. QED
    BY <1>1, TypesHold, PTL

-----------------------------------------------------------------------------
(* Circuits of a meter *)

\* The meter's committed circuits and those that uploads in progress will use.
Used(b) == Found(b) \cup {c \in Uploads : \E u \in Uploads : upload[u] # None /\ upload[u] = <<b, c>>}

\* While no first uploads of the building have overlapped, they are all one.
TwinsInv == \A b \in Buildings : b \notin raced => \A c, d \in Used(b) : c = d

LEMMA FewerUsed ==
    ASSUME TwinsInv, raced \subseteq raced',
           \A b \in Buildings : Used(b)' \subseteq Used(b)
    PROVE  TwinsInv'
  BY DEF TwinsInv

LEMMA TwinsFrame ==
    ASSUME TwinsInv, raced \subseteq raced', upload' = upload,
           \A b \in Buildings, c \in Uploads : Circuit(b, c) \in rows' => Circuit(b, c) \in rows
    PROVE  TwinsInv'
  <1>1. ASSUME NEW b \in Buildings PROVE Used(b)' \subseteq Used(b)
    BY <1>1 DEF Used, Found
  <1>2. QED
    BY <1>1, FewerUsed

\* Inserts other than that of an upload create no circuit of a meter.
LEMMA TwinsInsert ==
    ASSUME TwinsInv,
           \/ \E t \in Tenants, b \in Buildings : ProvisionSandbox(t, b) \/ CreateBuilding(t, b)
           \/ \E b \in Buildings : SaveFindings(b) \/ SaveFeatures(b) \/ RecordFeedback(b)
    PROVE  TwinsInv'
  <1> DEFINE NoneNew == \A b \in Buildings, c \in Uploads :
                            Circuit(b, c) \in rows' => Circuit(b, c) \in rows
  <1>1. ASSUME NEW t \in Tenants, NEW b \in Buildings,
               ProvisionSandbox(t, b) \/ CreateBuilding(t, b)
        PROVE  NoneNew
    <2>1. rows' \subseteq rows \cup {Building(b), Circuit(b, 0), <<"readings", b, 0>>}
      BY <1>1 DEF ProvisionSandbox, CreateBuilding, Insert
    <2>2. QED
      BY <2>1 DEF Building, Circuit, Uploads
  <1>2. ASSUME NEW b \in Buildings, SaveFindings(b) \/ SaveFeatures(b) \/ RecordFeedback(b)
        PROVE  NoneNew
    <2>1. \A r \in rows' \ rows : r[1] \in {"findings", "features", "labels"}
      <3>1. ASSUME SaveFindings(b) PROVE rows' = rows \cup {<<"findings", b, 0>>}
        BY <3>1 DEF SaveFindings, Insert
      <3>2. ASSUME SaveFeatures(b)
            PROVE  \E c \in 0..MaxUploads : rows' = rows \cup {<<"features", b, c>>}
        BY <3>2 DEF SaveFeatures, Insert
      <3>3. ASSUME RecordFeedback(b) PROVE rows' = rows \cup {<<"labels", b, 0>>}
        BY <3>3 DEF RecordFeedback, Insert
      <3>4. QED
        BY <1>2, <3>1, <3>2, <3>3
    <2>2. QED
      BY <2>1 DEF Circuit
  <1>3. upload' = upload /\ raced' = raced
    BY DEF ProvisionSandbox, CreateBuilding, SaveFindings, SaveFeatures, RecordFeedback
  <1>4. NoneNew
    BY <1>1, <1>2
  <1>5. QED
    BY <1>3, <1>4, TwinsFrame

LEMMA TwinsUpload ==
    ASSUME Typed, TwinsInv, NEW u \in Uploads,
           CommitUpload(u) \/ FailUpload(u) \/ \E b \in Buildings : BeginUpload(u, b)
    PROVE  TwinsInv'
  <1>1. CASE FailUpload(u)
    <2>1. rows' = rows /\ raced' = raced /\ \A v \in Uploads : upload'[v] \in {None, upload[v]}
      BY <1>1 DEF FailUpload, Typed, TypeOK
    <2>2. \A b \in Buildings : Used(b)' \subseteq Used(b)
      BY <2>1 DEF Used, Found
    <2>3. QED
      BY <2>1, <2>2, FewerUsed
  <1>2. CASE CommitUpload(u)
    <2>1. raced' = raced /\ upload[u] # None /\ \A v \in Uploads : upload'[v] \in {None, upload[v]}
      BY <1>2 DEF CommitUpload, Typed, TypeOK
    <2>2. upload[u] = <<upload[u][1], upload[u][2]>>
      BY <2>1 DEF Typed, TypeOK
    <2>3. rows' = rows \cup Uploaded(u)
      BY <1>2 DEF CommitUpload, Insert, Uploaded
    <2>4. ASSUME NEW b \in Buildings, NEW c \in Uploads, Circuit(b, c) \in rows'
          PROVE  Circuit(b, c) \in rows \/ upload[u] = <<b, c>>
      <3>1. Circuit(b, c) \in rows \/ Circuit(b, c) = Circuit(upload[u][1], upload[u][2])
        BY <2>3, <2>4 DEF Uploaded, Circuit
      <3>2. QED
        BY <2>2, <3>1 DEF Circuit
    <2>5. \A b \in Buildings : Used(b)' \subseteq Used(b)
      BY <2>1, <2>4 DEF Used, Found
    <2>6. QED
      BY <2>1, <2>5, FewerUsed
  <1>3. ASSUME NEW b \in Buildings, BeginUpload(u, b) PROVE TwinsInv'
    <2>1. PICK c \in Resolved(u, b) : upload' = [upload EXCEPT ![u] = <<b, c>>]
      BY <1>3 DEF BeginUpload
    <2>2. /\ upload[u] = None /\ upload'[u] = <<b, c>> /\ rows' = rows
          /\ \A v \in Uploads \ {u} : upload'[v] = upload[v]
          /\ raced \subseteq raced'
      BY <1>3, <2>1 DEF BeginUpload, Typed, TypeOK
    <2>3. ASSUME NEW d \in Buildings \ {b} PROVE Used(d)' \subseteq Used(d)
      BY <2>2 DEF Used, Found
    <2>4. Used(b)' \subseteq Used(b) \cup {c}
      BY <2>2 DEF Used, Found
    <2>5. CASE Found(b) # {}
      <3>1. c \in Used(b)
        BY <2>1, <2>5 DEF Resolved, Used
      <3>2. \A d \in Buildings : Used(d)' \subseteq Used(d)
        BY <2>3, <2>4, <3>1
      <3>3. QED
        BY <2>2, <3>2, FewerUsed
    <2>6. CASE Found(b) = {}
      <3>1. ASSUME b \notin raced' PROVE Used(b) = {}
        <4>1. \A v \in Uploads : ~Holds(v, b)
          BY <1>3, <2>6, <3>1 DEF BeginUpload
        <4>2. ASSUME NEW v \in Uploads, NEW d \in Uploads, upload[v] # None, upload[v] = <<b, d>>
              PROVE  FALSE
          <5>1. upload[v][1] = b /\ upload[v][2] = d
            BY <4>2
          <5>2. Circuit(b, d) \notin rows
            BY <2>6 DEF Found
          <5>3. QED
            BY <4>1, <4>2, <5>1, <5>2 DEF Holds
        <4>3. QED
          BY <2>6, <4>2 DEF Used
      <3>2. ASSUME NEW d \in Buildings, d \notin raced' PROVE \A x, y \in Used(d)' : x = y
        <4>1. CASE d = b
          BY <2>4, <3>1, <3>2, <4>1
        <4>2. CASE d # b
          BY <2>2, <2>3, <3>2, <4>2 DEF TwinsInv
        <4>3. QED
          BY <4>1, <4>2
      <3>3. QED
        BY <3>2 DEF TwinsInv
    <2>7. QED
      BY <2>5, <2>6
  <1>4. QED
    BY <1>1, <1>2, <1>3

LEMMA TwinsStep == Typed /\ TwinsInv /\ [Next]_vars => TwinsInv'
  <1> SUFFICES ASSUME Typed, TwinsInv, [Next]_vars PROVE TwinsInv'
    OBVIOUS
  <1>1. CASE rows' \subseteq rows /\ upload' = upload /\ raced' = raced
    BY <1>1, TwinsFrame
  <1>2. ASSUME NEW u \in Uploads,
               CommitUpload(u) \/ FailUpload(u) \/ \E b \in Buildings : BeginUpload(u, b)
        PROVE  TwinsInv'
    BY <1>2, TwinsUpload
  <1>3. CASE \/ \E t \in Tenants, b \in Buildings : ProvisionSandbox(t, b) \/ CreateBuilding(t, b)
             \/ \E b \in Buildings : SaveFindings(b) \/ SaveFeatures(b) \/ RecordFeedback(b)
    BY <1>3, TwinsInsert
  <1>4. CASE UNCHANGED <<rows, upload, raced>>
    BY <1>1, <1>4
  <1>5. CASE CommitDeletion \/ \E b \in Buildings : DeleteBuilding(b)
    BY <1>1, <1>5 DEF CommitDeletion, DeleteBuilding
  <1>6. QED
    BY <1>2, <1>3, <1>4, <1>5
       DEF Next, vars, IssueApiClient, BeginTenantDeletion, BeginBuildingDeletion, StartAnalysis,
           EndAnalysis, NextBuilding, DeleteRows, BuildingDone, AbortDeletion

\* A meter gets two circuits only where its first two uploads overlapped.
THEOREM TwinsNeedOverlap == Spec => []TwinsFromOverlap
  <1>1. Init => TwinsInv
    <2> SUFFICES ASSUME Init, NEW b \in Buildings PROVE Used(b) = {}
      BY DEF TwinsInv
    <2>1. QED
      BY DEF Init, Used, Found
  <1>2. TwinsInv => TwinsFromOverlap
    <2> SUFFICES ASSUME TwinsInv, NEW b \in Buildings, b \notin raced
                 PROVE  ~(Cardinality(Found(b)) > 1)
      BY DEF TwinsFromOverlap
    <2>1. CASE Found(b) = {}
      <3>1. Cardinality(Found(b)) = 0
        BY <2>1, FS_EmptySet
      <3>2. QED
        BY <3>1
    <2>2. CASE Found(b) # {}
      <3>1. PICK c : c \in Found(b)
        BY <2>2
      <3>2. Found(b) = {c}
        BY <3>1 DEF TwinsInv, Used
      <3>3. Cardinality(Found(b)) = 1
        BY <3>2, FS_Singleton
      <3>4. QED
        BY <3>3
    <2>3. QED
      BY <2>1, <2>2
  <1>3. QED
    BY <1>1, <1>2, TwinsStep, TypesHold, PTL DEF Spec

-----------------------------------------------------------------------------
(* The foreign keys *)

\* Every row is there with the row it refers to, before and after what the
\* deletion in progress has deleted; rows belong to buildings that were created.
Keyed(S) == \A r \in S : Parent(r) \in S

KeysInv ==
    /\ Deleted \subseteq rows
    /\ Keyed(rows) /\ Keyed(rows \ Deleted)
    /\ \A r \in rows : owner[r[2]] \in Tenants
    /\ \A b \in analysing : owner[b] \in Tenants

LEMMA Parents ==
    ASSUME NEW b, NEW c
    PROVE  /\ Parent(Building(b)) = Building(b)
           /\ Parent(Circuit(b, c)) = Building(b)
           /\ Parent(<<"batches", b, c>>) = Building(b)
           /\ Parent(<<"readings", b, c>>) = Circuit(b, c)
           /\ Parent(<<"features", b, c>>) = Circuit(b, c)
           /\ Parent(<<"labels", b, c>>) = <<"findings", b, 0>>
           /\ Parent(<<"findings", b, c>>) = <<"findings", b, c>>
  BY DEF Parent, Building, Circuit

\* A row and the row it refers to are of one building.
LEMMA ParentBuilding ==
    ASSUME NEW r \in Row
    PROVE  /\ Parent(r)[2] = r[2]
           /\ r[1] \in {"readings", "features"} => Parent(r) = Circuit(r[2], r[3])
           /\ r[1] \in {"circuits", "batches"} => Parent(r) = Building(r[2])
  BY DEF Parent, Row, Building, Circuit

LEMMA InsertKeys ==
    ASSUME Typed, KeysInv, NEW S \in SUBSET Row, Insert(S),
           \A b \in Buildings : owner[b] \in Tenants => owner'[b] \in Tenants,
           \A r \in S : owner'[r[2]] \in Tenants, analysing' = analysing
    PROVE  KeysInv'
  <1>1. rows' = rows \cup S /\ \A r \in S : Parent(r) \in S \/ Parent(r) \in rows \ Deleted
    BY DEF Insert, Present
  <1>2. Deleted' = {} \/ Deleted' = Deleted \ S
    BY InsertType DEF Deleted, Insert, Typed, Transaction
  <1>3. rows' \ Deleted' = rows' \/ rows' \ Deleted' = (rows \ Deleted) \cup S
    BY <1>1, <1>2
  <1>4. Keyed(rows \cup S) /\ Keyed((rows \ Deleted) \cup S)
    BY <1>1 DEF KeysInv, Keyed
  <1>5. Deleted' \subseteq rows'
    BY <1>1, <1>2 DEF KeysInv
  <1>6. /\ \A r \in rows' : owner'[r[2]] \in Tenants
        /\ \A b \in analysing' : owner'[b] \in Tenants
    <2>1. \A r \in rows : r[2] \in Buildings
      BY DEF Typed, TypeOK, Row
    <2>2. QED
      BY <1>1, <2>1 DEF KeysInv, Typed, TypeOK
  <1>7. Keyed(rows') /\ Keyed(rows' \ Deleted')
    BY <1>1, <1>3, <1>4
  <1>8. QED
    BY <1>5, <1>6, <1>7 DEF KeysInv

LEMMA KeysFrame ==
    ASSUME KeysInv, UNCHANGED <<rows, owner>>, Deleted' \in {Deleted, {}},
           \A b \in analysing' : owner[b] \in Tenants
    PROVE  KeysInv'
  <1>1. rows' \ Deleted' \in {rows, rows \ Deleted}
    OBVIOUS
  <1>2. QED
    BY <1>1 DEF KeysInv, Keyed

\* A deletion begins with nothing done.
LEMMA BegunDeletion ==
    ASSUME NEW target, NEW bs, NEW log
    PROVE  /\ NewDeletion(target, bs).deleted = {}
           /\ [NewDeletion(target, bs) EXCEPT !.log = log].deleted = {}
           /\ NewDeletion(target, bs).todo = bs
           /\ [NewDeletion(target, bs) EXCEPT !.log = log].todo = bs
           /\ NewDeletion(target, bs).current = None
           /\ [NewDeletion(target, bs) EXCEPT !.log = log].current = None
           /\ NewDeletion(target, bs).met = analysing \cap bs
           /\ [NewDeletion(target, bs) EXCEPT !.log = log].met = analysing \cap bs
           /\ NewDeletion(target, bs).target = target
           /\ [NewDeletion(target, bs) EXCEPT !.log = log].target = target
           /\ NewDeletion(target, bs).log = {}
           /\ [NewDeletion(target, bs) EXCEPT !.log = log].log = log
  BY DEF NewDeletion

LEMMA DeleteRowsKeys ==
    ASSUME Typed, KeysInv, DeleteRows
    PROVE  KeysInv'
  <1>1. PICK hit \in SUBSET rows :
            /\ \A s \in rows \ (Deleted \cup hit), r \in hit : ~Refers(s, r)
            /\ tx' = [tx EXCEPT !.deleted = tx.deleted \cup hit, !.at = tx.at + 1]
    BY DEF DeleteRows, Deleted
  <1>2. UNCHANGED <<rows, owner, analysing>> /\ tx \in Transaction /\ tx # None
    BY DEF DeleteRows, Typed
  <1>3. tx'.deleted = Deleted \cup hit
    BY <1>1, <1>2 DEF Transaction, Deleted
  <1>4. Deleted' \in {{}, Deleted \cup hit}
    BY <1>3 DEF Deleted
  <1>5. Keyed(rows \ (Deleted \cup hit))
    <2> SUFFICES ASSUME NEW r \in rows \ (Deleted \cup hit)
                 PROVE  Parent(r) \in rows \ (Deleted \cup hit)
      BY DEF Keyed
    <2>1. Parent(r) \in rows \ Deleted
      BY DEF KeysInv, Keyed
    <2>2. Parent(r) \notin hit
      BY <1>1 DEF Refers
    <2>3. QED
      BY <2>1, <2>2
  <1>6. rows' \ Deleted' \in {rows, rows \ (Deleted \cup hit)} /\ Deleted' \subseteq rows'
    BY <1>2, <1>4 DEF KeysInv
  <1>7. Keyed(rows' \ Deleted') /\ Keyed(rows')
    BY <1>2, <1>5, <1>6 DEF KeysInv
  <1>8. QED
    BY <1>2, <1>6, <1>7 DEF KeysInv

\* What the API's DELETE of a building removes, nothing refers to.
LEMMA DeleteBuildingKeys ==
    ASSUME Typed, KeysInv, NEW b \in Buildings, DeleteBuilding(b)
    PROVE  KeysInv'
  <1>1. /\ rows' = rows \ {Building(b)} /\ UNCHANGED <<tx, owner, analysing>>
        /\ Building(b) \notin Deleted /\ \A s \in rows : ~Refers(s, Building(b))
    BY DEF DeleteBuilding, Present
  <1>2. ASSUME NEW S \in SUBSET rows, Keyed(S) PROVE Keyed(S \ {Building(b)})
    BY <1>1, <1>2 DEF Keyed, Refers
  <1>3. Keyed(rows \ {Building(b)}) /\ Keyed((rows \ Deleted) \ {Building(b)})
    BY <1>2 DEF KeysInv
  <1>4. Deleted' = Deleted /\ rows' \ Deleted' = (rows \ Deleted) \ {Building(b)}
    BY <1>1 DEF Deleted
  <1>5. QED
    BY <1>1, <1>3, <1>4 DEF KeysInv, Keyed

LEMMA InsertActions ==
    ASSUME Typed, KeysInv,
           \/ \E t \in Tenants, b \in Buildings : ProvisionSandbox(t, b) \/ CreateBuilding(t, b)
           \/ \E b \in Buildings : SaveFindings(b) \/ SaveFeatures(b) \/ RecordFeedback(b)
           \/ \E u \in Uploads : CommitUpload(u)
    PROVE  KeysInv'
  <1>1. 0 \in 0..MaxUploads
    OBVIOUS
  <1>2. ASSUME NEW t \in Tenants, NEW b \in Buildings,
               ProvisionSandbox(t, b) \/ CreateBuilding(t, b)
        PROVE  KeysInv'
    <2> DEFINE Sandbox == {Building(b), Circuit(b, 0), <<"readings", b, 0>>}
    <2>1. Sandbox \subseteq Row /\ {Building(b)} \subseteq Row
      BY <1>1, RowKinds
    <2>2. \A r \in Sandbox : r[2] = b
      BY DEF Building, Circuit
    <2>3. PICK S \in SUBSET Row : Insert(S) /\ \A r \in S : r[2] = b
      <3>1. CASE ProvisionSandbox(t, b)
        BY <2>1, <2>2, <3>1 DEF ProvisionSandbox
      <3>2. CASE CreateBuilding(t, b)
        <4>1. \A r \in {Building(b)} : r[2] = b
          BY <2>2
        <4>2. QED
          BY <2>1, <3>2, <4>1 DEF CreateBuilding
      <3>3. QED
        BY <1>2, <3>1, <3>2
    <2>4. owner' = [owner EXCEPT ![b] = t] /\ analysing' = analysing
      BY <1>2 DEF ProvisionSandbox, CreateBuilding
    <2>5. /\ \A d \in Buildings : owner[d] \in Tenants => owner'[d] \in Tenants
          /\ owner'[b] = t
      BY <2>4 DEF Typed, TypeOK
    <2>6. QED
      BY <2>3, <2>4, <2>5, InsertKeys
  <1>3. ASSUME NEW b \in Buildings, SaveFindings(b) PROVE KeysInv'
    <2>1. Insert({<<"findings", b, 0>>}) /\ UNCHANGED <<owner, analysing>> /\ owner[b] \in Tenants
      BY <1>3 DEF SaveFindings, KeysInv
    <2>2. {<<"findings", b, 0>>} \in SUBSET Row
      BY <1>1, RowKinds
    <2>3. \A r \in {<<"findings", b, 0>>} : owner'[r[2]] \in Tenants
      BY <2>1
    <2>4. QED
      BY <2>1, <2>2, <2>3, InsertKeys
  <1>4. ASSUME NEW b \in Buildings, SaveFeatures(b) PROVE KeysInv'
    <2>1. PICK c \in 0..MaxUploads : Insert({<<"features", b, c>>})
      BY <1>4 DEF SaveFeatures
    <2>2. UNCHANGED <<owner, analysing>> /\ owner[b] \in Tenants
      BY <1>4 DEF SaveFeatures, KeysInv
    <2>3. {<<"features", b, c>>} \in SUBSET Row
      BY RowKinds
    <2>4. \A r \in {<<"features", b, c>>} : owner'[r[2]] \in Tenants
      BY <2>2
    <2>5. QED
      BY <2>1, <2>2, <2>3, <2>4, InsertKeys
  <1>5. ASSUME NEW b \in Buildings, RecordFeedback(b) PROVE KeysInv'
    <2>1. Insert({<<"labels", b, 0>>}) /\ UNCHANGED <<owner, analysing>>
      BY <1>5 DEF RecordFeedback
    <2>2. owner[b] \in Tenants
      BY <1>5 DEF RecordFeedback, Present, KeysInv
    <2>3. {<<"labels", b, 0>>} \in SUBSET Row
      BY <1>1, RowKinds
    <2>4. \A r \in {<<"labels", b, 0>>} : owner'[r[2]] \in Tenants
      BY <2>1, <2>2
    <2>5. QED
      BY <2>1, <2>2, <2>3, <2>4, InsertKeys
  <1>6. ASSUME NEW u \in Uploads, CommitUpload(u) PROVE KeysInv'
    <2>1. Insert(Uploaded(u)) /\ UNCHANGED <<owner, analysing>> /\ upload[u] # None
      BY <1>6 DEF CommitUpload, Uploaded
    <2> DEFINE b == upload[u][1]
    <2>2. b \in Buildings /\ Uploaded(u) \subseteq Row
      BY <2>1, UploadedRows
    <2>3. \A r \in Uploaded(u) : r[2] = b
      BY DEF Uploaded, Circuit
    <2>4. owner[b] \in Tenants
      <3>1. <<"batches", b, 0>> \in Uploaded(u) /\ Building(b) \notin Uploaded(u)
        BY DEF Uploaded, Building, Circuit
      <3>2. Building(b) \in rows
        BY <2>1, <3>1, Parents DEF Insert, Present
      <3>3. QED
        BY <3>2 DEF KeysInv, Building
    <2>5. QED
      BY <2>1, <2>2, <2>3, <2>4, InsertKeys
  <1>7. QED
    BY <1>2, <1>3, <1>4, <1>5, <1>6

LEMMA KeysStep == Typed /\ KeysInv /\ [Next]_vars => KeysInv'
  <1> SUFFICES ASSUME Typed, KeysInv, [Next]_vars PROVE KeysInv'
    OBVIOUS
  <1>1. CASE UNCHANGED <<rows, owner, tx, analysing>>
    BY <1>1, KeysFrame DEF Deleted, KeysInv
  <1>2. CASE \/ \E t \in Tenants, b \in Buildings : ProvisionSandbox(t, b) \/ CreateBuilding(t, b)
             \/ \E b \in Buildings : SaveFindings(b) \/ SaveFeatures(b) \/ RecordFeedback(b)
             \/ \E u \in Uploads : CommitUpload(u)
    BY <1>2, InsertActions
  <1>3. ASSUME NEW b \in Buildings, DeleteBuilding(b) PROVE KeysInv'
    BY <1>3, DeleteBuildingKeys
  <1>4. ASSUME NEW b \in Buildings, StartAnalysis(b) PROVE KeysInv'
    <2>1. owner[b] \in Tenants /\ UNCHANGED <<rows, owner>> /\ analysing' = analysing \cup {b}
      BY <1>4 DEF StartAnalysis, KeysInv
    <2>2. Deleted' \in {Deleted, {}}
      BY <1>4 DEF StartAnalysis, Deleted, Typed, Transaction
    <2>3. QED
      BY <2>1, <2>2, KeysFrame DEF KeysInv
  <1>5. ASSUME NEW b \in Buildings, EndAnalysis(b) PROVE KeysInv'
    BY <1>5, KeysFrame DEF EndAnalysis, Deleted, KeysInv
  <1>6. CASE \/ \E b \in Buildings : BeginBuildingDeletion(b)
             \/ \E t \in Tenants : BeginTenantDeletion(t)
             \/ AbortDeletion
    <2>1. Deleted' \in {Deleted, {}}
      <3>1. tx' = None \/ tx'.deleted = {}
        <4>1. CASE AbortDeletion
          BY <4>1 DEF AbortDeletion
        <4>2. ASSUME NEW b \in Buildings, BeginBuildingDeletion(b) PROVE tx'.deleted = {}
          BY <4>2, BegunDeletion DEF BeginBuildingDeletion
        <4>3. ASSUME NEW t \in Tenants, BeginTenantDeletion(t) PROVE tx'.deleted = {}
          <5>1. PICK bs : tx' = [NewDeletion(t, bs) EXCEPT
                                 !.log = {<<"tenant.data.deletion_initiated", t, t>>}]
            BY <4>3 DEF BeginTenantDeletion
          <5>2. QED
            BY <5>1, BegunDeletion
        <4>4. QED
          BY <1>6, <4>1, <4>2, <4>3
      <3>2. QED
        BY <3>1 DEF Deleted
    <2>2. UNCHANGED <<rows, owner, analysing>>
      BY <1>6 DEF BeginBuildingDeletion, BeginTenantDeletion, AbortDeletion
    <2>3. QED
      BY <2>1, <2>2, KeysFrame DEF KeysInv
  <1>7. CASE NextBuilding \/ BuildingDone
    <2>1. Deleted' \in {Deleted, {}}
      BY <1>7 DEF NextBuilding, BuildingDone, Deleted, Typed, Transaction
    <2>2. UNCHANGED <<rows, owner, analysing>>
      BY <1>7 DEF NextBuilding, BuildingDone
    <2>3. QED
      BY <2>1, <2>2, KeysFrame DEF KeysInv
  <1>8. CASE CommitDeletion
    <2>1. rows' = rows \ Deleted /\ tx' = None /\ UNCHANGED <<owner, analysing>>
      BY <1>8 DEF CommitDeletion, Deleted
    <2>2. Deleted' = {}
      BY <2>1 DEF Deleted
    <2>3. rows' \ Deleted' = rows \ Deleted
      BY <2>1, <2>2
    <2>4. QED
      BY <2>1, <2>2, <2>3 DEF KeysInv, Keyed
  <1>9. QED
    BY <1>1, <1>2, <1>3, <1>4, <1>5, <1>6, <1>7, <1>8, DeleteRowsKeys
       DEF Next, vars, IssueApiClient, BeginUpload, FailUpload

-----------------------------------------------------------------------------
(* Findings of deleted buildings *)

Findings(b) == <<"findings", b, 0>>

\* Which buildings a deletion in progress has dealt with, and how far.
Current ==
    /\ tx.current # None => tx.current \in tx.todo /\ tx.at >= 1
    /\ \A b \in tx.todo : owner[b] \in Tenants
    /\ tx.current # None /\ tx.at > 5 => Building(tx.current) \notin rows \ tx.deleted
    /\ \A b \in Buildings, c \in 0..MaxUploads :
          Circuit(b, c) \in tx.deleted => b \in tx.todo \/ Building(b) \in tx.deleted

\* Past the DELETE of a building's findings, only an analysis that the deletion
\* has met brings any back.
Met ==
    /\ \A b \in Buildings :
          /\ Findings(b) \in rows \ tx.deleted
          /\ (tx.current = b /\ tx.at > 2) \/ Building(b) \in tx.deleted
          => b \in tx.met
    /\ \A b \in analysing : b \in tx.todo \/ Building(b) \in tx.deleted => b \in tx.met

\* While there is anything to find, or an analysis, a circuit keeps the API from
\* deleting the building.
Guarded ==
    /\ \A b \in analysing : Building(b) \in rows \/ b \in overlapped
    /\ \A b \in Buildings :
          (b \in analysing \/ Findings(b) \in rows) /\ Building(b) \in rows =>
              \E c \in 0..MaxUploads : Circuit(b, c) \in rows

InFlight == \A b \in Buildings : Findings(b) \in rows /\ Building(b) \notin rows => b \in overlapped

OrphanInv == InFlight /\ Guarded /\ (tx # None => Current /\ Met)

\* A step that inserts a building only when it is new, and findings only from
\* an analysis.
LEMMA OrphanInsert ==
    ASSUME Typed, KeysInv, OrphanInv, NEW S \in SUBSET Row, Insert(S),
           \A b \in Buildings : Building(b) \in S => owner[b] = None,
           \A b \in Buildings : Findings(b) \in S => b \in analysing,
           \A b \in Buildings : owner[b] \in Tenants => owner'[b] \in Tenants,
           UNCHANGED <<analysing, overlapped>>
    PROVE  OrphanInv'
  <1>1. rows' = rows \cup S
    BY DEF Insert
  <1>2. /\ \A b \in analysing : b \in Buildings /\ Building(b) \notin S
        /\ \A b \in Buildings : Findings(b) \in rows \/ Building(b) \in rows => Building(b) \notin S
    BY DEF KeysInv, Typed, TypeOK, Building, Findings
  <1>3. InFlight'
    BY <1>1, <1>2 DEF InFlight, OrphanInv, Guarded
  <1>4. Guarded'
    BY <1>1, <1>2 DEF OrphanInv, Guarded
  <1>5. ASSUME tx' # None PROVE Current' /\ Met'
    <2>1. tx \in Transaction /\ tx # None /\ tx' = [tx EXCEPT !.deleted = tx.deleted \ S]
      BY <1>5, InsertType DEF Insert, Typed
    <2>2. /\ tx'.deleted = tx.deleted \ S /\ tx'.current = tx.current /\ tx'.at = tx.at
          /\ tx'.todo = tx.todo /\ tx'.met = tx.met
      BY <2>1 DEF Transaction
    <2>3. tx.deleted \subseteq rows
      BY <2>1 DEF KeysInv, Deleted
    <2>4. \A b \in tx.todo : b \in Buildings /\ Building(b) \notin S
      BY <2>1 DEF OrphanInv, Current, Transaction
    <2>5. Current'
      BY <1>1, <1>2, <2>1, <2>2, <2>3, <2>4 DEF OrphanInv, Current, Transaction
    <2>6. ASSUME NEW b \in Buildings, Findings(b) \in rows' \ tx'.deleted,
                 (tx.current = b /\ tx.at > 2) \/ Building(b) \in tx.deleted
          PROVE  b \in tx.met
      <3>1. CASE Findings(b) \in rows \ tx.deleted
        BY <2>1, <2>6, <3>1 DEF OrphanInv, Met
      <3>2. CASE Findings(b) \in S
        <4>1. b \in tx.todo \/ Building(b) \in tx.deleted
          BY <2>1, <2>6 DEF OrphanInv, Current
        <4>2. QED
          BY <2>1, <3>2, <4>1 DEF OrphanInv, Met
      <3>3. QED
        BY <1>1, <2>2, <2>6, <3>1, <3>2
    <2>7. Met'
      BY <2>1, <2>2, <2>6 DEF OrphanInv, Met
    <2>8. QED
      BY <2>5, <2>7
  <1>6. QED
    BY <1>3, <1>4, <1>5 DEF OrphanInv

LEMMA OrphanInsertActions ==
    ASSUME Typed, KeysInv, OrphanInv,
           \/ \E t \in Tenants, b \in Buildings : ProvisionSandbox(t, b) \/ CreateBuilding(t, b)
           \/ \E b \in Buildings : SaveFindings(b) \/ SaveFeatures(b) \/ RecordFeedback(b)
           \/ \E u \in Uploads : CommitUpload(u)
    PROVE  OrphanInv'
  <1> DEFINE Buildless(S) ==
             \A b \in Buildings : Building(b) \notin S /\ (Findings(b) \in S => b \in analysing)
  <1>1. 0 \in 0..MaxUploads
    OBVIOUS
  <1>2. ASSUME NEW S \in SUBSET Row, Insert(S), Buildless(S),
               UNCHANGED <<owner, analysing, overlapped>>
        PROVE  OrphanInv'
    BY <1>2, OrphanInsert
  <1>3. ASSUME NEW t \in Tenants, NEW b \in Buildings,
               ProvisionSandbox(t, b) \/ CreateBuilding(t, b)
        PROVE  OrphanInv'
    <2> DEFINE Sandbox == {Building(b), Circuit(b, 0), <<"readings", b, 0>>}
    <2>1. Sandbox \subseteq Row
      BY <1>1, RowKinds
    <2>2. \A d \in Buildings : Findings(d) \notin Sandbox /\ (Building(d) \in Sandbox => d = b)
      BY DEF Building, Circuit, Findings
    <2>3. PICK S \in SUBSET Sandbox : Insert(S)
      BY <1>3 DEF ProvisionSandbox, CreateBuilding
    <2>4. /\ owner[b] = None /\ owner' = [owner EXCEPT ![b] = t]
          /\ UNCHANGED <<analysing, overlapped>>
      BY <1>3 DEF ProvisionSandbox, CreateBuilding
    <2>5. \A d \in Buildings : owner[d] \in Tenants => owner'[d] \in Tenants
      BY <2>4 DEF Typed, TypeOK
    <2>6. S \in SUBSET Row
      BY <2>1
    <2>7. \A d \in Buildings : (Building(d) \in S => owner[d] = None) /\ Findings(d) \notin S
      BY <2>2, <2>4
    <2>8. QED
      BY <2>3, <2>4, <2>5, <2>6, <2>7, OrphanInsert
  <1>4. ASSUME NEW b \in Buildings, SaveFindings(b) PROVE OrphanInv'
    <2>1. Insert({<<"findings", b, 0>>}) /\ UNCHANGED <<owner, analysing, overlapped>> /\ b \in analysing
      BY <1>4 DEF SaveFindings
    <2>2. {<<"findings", b, 0>>} \in SUBSET Row
      BY <1>1, RowKinds
    <2>3. Buildless({<<"findings", b, 0>>})
      BY <2>1 DEF Building, Findings
    <2>4. QED
      BY <1>2, <2>1, <2>2, <2>3
  <1>5. ASSUME NEW b \in Buildings, SaveFeatures(b) PROVE OrphanInv'
    <2>1. PICK c \in 0..MaxUploads : Insert({<<"features", b, c>>})
      BY <1>5 DEF SaveFeatures
    <2>2. UNCHANGED <<owner, analysing, overlapped>>
      BY <1>5 DEF SaveFeatures
    <2>3. {<<"features", b, c>>} \in SUBSET Row /\ Buildless({<<"features", b, c>>})
      BY RowKinds DEF Building, Findings
    <2>4. QED
      BY <1>2, <2>1, <2>2, <2>3
  <1>6. ASSUME NEW b \in Buildings, RecordFeedback(b) PROVE OrphanInv'
    <2>1. Insert({<<"labels", b, 0>>}) /\ UNCHANGED <<owner, analysing, overlapped>>
      BY <1>6 DEF RecordFeedback
    <2>2. {<<"labels", b, 0>>} \in SUBSET Row /\ Buildless({<<"labels", b, 0>>})
      BY <1>1, RowKinds DEF Building, Findings
    <2>3. QED
      BY <1>2, <2>1, <2>2
  <1>7. ASSUME NEW u \in Uploads, CommitUpload(u) PROVE OrphanInv'
    <2>1. Insert(Uploaded(u)) /\ UNCHANGED <<owner, analysing, overlapped>> /\ upload[u] # None
      BY <1>7 DEF CommitUpload, Uploaded
    <2>2. Uploaded(u) \in SUBSET Row
      BY <2>1, UploadedRows
    <2>3. Buildless(Uploaded(u))
      BY DEF Uploaded, Building, Circuit, Findings
    <2>4. QED
      BY <1>2, <2>1, <2>2, <2>3
  <1>8. QED
    BY <1>3, <1>4, <1>5, <1>6, <1>7

LEMMA OrphanAnalysis ==
    ASSUME Typed, KeysInv, OrphanInv, NEW b \in Buildings,
           StartAnalysis(b) \/ EndAnalysis(b) \/ DeleteBuilding(b)
    PROVE  OrphanInv'
  <1>1. CASE StartAnalysis(b)
    <2>1. PICK c \in 0..MaxUploads : <<"readings", b, c>> \in rows
      BY <1>1 DEF StartAnalysis
    <2>2. Circuit(b, c) \in rows /\ Building(b) \in rows
      <3>1. \A r \in rows : Parent(r) \in rows
        BY DEF KeysInv, Keyed
      <3>2. Circuit(b, c) \in rows
        BY <2>1, <3>1, Parents
      <3>3. QED
        BY <3>1, <3>2, Parents
    <2>3. UNCHANGED <<rows, owner, overlapped>> /\ analysing' = analysing \cup {b}
      BY <1>1 DEF StartAnalysis
    <2>4. InFlight' /\ Guarded'
      BY <2>2, <2>3 DEF OrphanInv, InFlight, Guarded
    <2>5. ASSUME tx' # None PROVE Current' /\ Met'
      <3>1. tx # None /\ tx \in Transaction /\ tx' = [tx EXCEPT !.met = tx.met \cup {b}]
        BY <1>1, <2>5 DEF StartAnalysis, Typed
      <3>2. /\ tx'.deleted = tx.deleted /\ tx'.current = tx.current /\ tx'.at = tx.at
            /\ tx'.todo = tx.todo /\ tx'.met = tx.met \cup {b}
        BY <3>1 DEF Transaction
      <3>3. QED
        BY <2>3, <3>1, <3>2 DEF OrphanInv, Current, Met
    <2>6. QED
      BY <2>4, <2>5 DEF OrphanInv
  <1>2. CASE EndAnalysis(b)
    BY <1>2 DEF EndAnalysis, OrphanInv, InFlight, Guarded, Current, Met
  <1>3. CASE DeleteBuilding(b)
    <2>1. /\ rows' = rows \ {Building(b)} /\ UNCHANGED <<tx, owner, analysing, overlapped>>
          /\ Building(b) \in rows /\ \A s \in rows : ~Refers(s, Building(b))
      BY <1>3 DEF DeleteBuilding, Present
    <2>2. \A c : Circuit(b, c) \notin rows
      <3>1. \A c : Circuit(b, c) # Building(b)
        BY DEF Circuit, Building
      <3>2. QED
        BY <2>1, <3>1, Parents DEF Refers
    <2>3. b \notin analysing /\ Findings(b) \notin rows
      BY <2>1, <2>2 DEF OrphanInv, Guarded
    <2>4. \A d \in Buildings : /\ \A c : Circuit(d, c) # Building(b)
                              /\ Findings(d) # Building(b)
                              /\ (d # b => Building(d) # Building(b))
      BY DEF Circuit, Building, Findings
    <2>5. analysing \subseteq Buildings
      BY DEF Typed, TypeOK
    <2>6. InFlight'
      BY <2>1, <2>3, <2>4 DEF OrphanInv, InFlight
    <2>7. Guarded'
      BY <2>1, <2>3, <2>4, <2>5 DEF OrphanInv, Guarded
    <2>8. tx # None => Current' /\ Met'
      BY <2>1 DEF OrphanInv, Current, Met
    <2>9. QED
      BY <2>1, <2>6, <2>7, <2>8 DEF OrphanInv
  <1>4. QED
    BY <1>1, <1>2, <1>3

\* Beginnings and the steps that neither delete nor commit.
LEMMA OrphanDeletion ==
    ASSUME Typed, KeysInv, OrphanInv,
           \/ \E b \in Buildings : BeginBuildingDeletion(b)
           \/ \E t \in Tenants : BeginTenantDeletion(t)
           \/ NextBuilding \/ BuildingDone \/ AbortDeletion
    PROVE  OrphanInv'
  <1>1. UNCHANGED <<rows, owner, analysing, overlapped>>
    BY DEF BeginBuildingDeletion, BeginTenantDeletion, NextBuilding, BuildingDone, AbortDeletion
  <1>2. InFlight' /\ Guarded'
    BY <1>1 DEF OrphanInv, InFlight, Guarded
  <1>3. ASSUME NEW bs \in SUBSET Buildings, \A b \in bs : owner[b] \in Tenants,
               tx'.todo = bs, tx'.deleted = {}, tx'.current = None, tx'.met = analysing \cap bs
        PROVE  Current' /\ Met'
    BY <1>1, <1>3 DEF Current, Met
  <1>4. ASSUME NEW b \in Buildings, BeginBuildingDeletion(b) PROVE Current' /\ Met'
    <2>1. tx' = NewDeletion(b, {b}) /\ owner[b] \in Tenants
      BY <1>4 DEF BeginBuildingDeletion, KeysInv, Building
    <2>2. QED
      BY <1>3, <2>1, BegunDeletion
  <1>5. ASSUME NEW t \in Tenants, BeginTenantDeletion(t) PROVE Current' /\ Met'
    <2> DEFINE bs == {b \in Buildings : owner[b] = t /\ Building(b) \in rows}
    <2>1. tx' = [NewDeletion(t, bs) EXCEPT !.log = {<<"tenant.data.deletion_initiated", t, t>>}]
      BY <1>5 DEF BeginTenantDeletion
    <2>2. \A b \in bs : owner[b] \in Tenants
      OBVIOUS
    <2> HIDE DEF bs
    <2>3. tx'.todo = bs /\ tx'.deleted = {} /\ tx'.current = None /\ tx'.met = analysing \cap bs
      BY <2>1, BegunDeletion
    <2>4. bs \in SUBSET Buildings
      BY DEF bs
    <2>5. QED
      BY <1>3, <2>2, <2>3, <2>4
  <1>6. ASSUME NextBuilding PROVE Current' /\ Met'
    <2>1. tx # None /\ tx \in Transaction /\ tx.current = None
      BY <1>6 DEF NextBuilding, Typed
    <2>2. PICK d \in tx.todo : tx' = [tx EXCEPT !.current = d, !.at = 1,
              !.log = tx.log \cup {<<"building.data.deleted", d, tx.target>>}]
      BY <1>6 DEF NextBuilding
    <2>3. /\ tx'.deleted = tx.deleted /\ tx'.current = d /\ tx'.at = 1
          /\ tx'.todo = tx.todo /\ tx'.met = tx.met
      BY <2>1, <2>2 DEF Transaction
    <2>4. QED
      BY <1>1, <2>1, <2>3 DEF OrphanInv, Current, Met
  <1>7. ASSUME BuildingDone PROVE Current' /\ Met'
    <2> DEFINE k == tx.current
    <2>1. tx # None /\ tx \in Transaction /\ k # None /\ tx.at > 5
      BY <1>7, StatementOrder DEF BuildingDone, Typed
    <2>2. /\ tx'.deleted = tx.deleted /\ tx'.current = None
          /\ tx'.todo = tx.todo \ {k} /\ tx'.met = tx.met
      BY <1>7, <2>1 DEF BuildingDone, Transaction
    <2>3. ASSUME NEW c \in 0..MaxUploads, Circuit(k, c) \in tx.deleted
          PROVE  Building(k) \in tx.deleted
      <3>1. Circuit(k, c) \in rows
        BY <2>1, <2>3 DEF KeysInv, Deleted
      <3>2. Building(k) \in rows
        BY <3>1, Parents DEF KeysInv, Keyed
      <3>3. QED
        BY <2>1, <3>2 DEF OrphanInv, Current
    <2>4. Current'
      BY <1>1, <2>1, <2>2, <2>3 DEF OrphanInv, Current
    <2>5. Met'
      BY <1>1, <2>1, <2>2 DEF OrphanInv, Met
    <2>6. QED
      BY <2>4, <2>5
  <1>8. CASE AbortDeletion
    BY <1>2, <1>8 DEF AbortDeletion, OrphanInv
  <1>9. QED
    BY <1>2, <1>4, <1>5, <1>6, <1>7, <1>8 DEF OrphanInv

LEMMA OrphanDeleteRows ==
    ASSUME Typed, KeysInv, OrphanInv, DeleteRows
    PROVE  OrphanInv'
  <1> DEFINE k == tx.current
             hit == {r \in rows : r[1] = Statements[tx.at] /\ r[2] = k}
  <1>1. UNCHANGED <<rows, owner, analysing, overlapped>>
    BY DEF DeleteRows
  <1>2. /\ tx # None /\ tx \in Transaction /\ k # None /\ k \in tx.todo
        /\ tx.at \in 1..5 /\ tx' = [tx EXCEPT !.deleted = tx.deleted \cup hit, !.at = tx.at + 1]
    BY StatementOrder DEF DeleteRows, Typed, OrphanInv, Current, Transaction
  <1>3. /\ tx'.deleted = tx.deleted \cup hit /\ tx'.current = k /\ tx'.at = tx.at + 1
        /\ tx'.todo = tx.todo /\ tx'.met = tx.met
    BY <1>2 DEF Transaction
  <1>4. \A r \in hit : r[2] = k
    OBVIOUS
  <1>5. tx.at = 5 /\ Building(k) \in rows => Building(k) \in hit
    BY StatementOrder DEF Building
  <1>6. tx.at = 2 /\ Findings(k) \in rows => Findings(k) \in hit
    BY StatementOrder DEF Findings
  <1>7. \A b \in Buildings : Building(b) \in hit => b = k /\ tx.at = 5
    BY <1>2, StatementOrder DEF Building
  <1> HIDE DEF hit
  <1>8. Current'
    <2>1. \A b \in Buildings, c \in 0..MaxUploads : Circuit(b, c) \in hit => b = k
      BY <1>4 DEF Circuit
    <2>2. tx.at + 1 > 5 => tx.at = 5
      BY <1>2
    <2>3. QED
      BY <1>1, <1>2, <1>3, <1>5, <2>1, <2>2 DEF OrphanInv, Current
  <1>9. Met'
    <2>1. ASSUME NEW b \in Buildings, Findings(b) \in rows \ (tx.deleted \cup hit),
                 (k = b /\ tx.at + 1 > 2) \/ Building(b) \in tx.deleted \cup hit
          PROVE  b \in tx.met
      <3>1. CASE Building(b) \in tx.deleted
        BY <1>2, <2>1, <3>1 DEF OrphanInv, Met
      <3>2. CASE k = b /\ tx.at + 1 > 2
        <4>1. tx.at # 2
          BY <1>6, <2>1, <3>2
        <4>2. tx.at > 2
          BY <1>2, <3>2, <4>1
        <4>3. QED
          BY <1>2, <2>1, <3>2, <4>2 DEF OrphanInv, Met
      <3>3. CASE Building(b) \in hit
        BY <1>2, <1>7, <2>1, <3>3 DEF OrphanInv, Met
      <3>4. QED
        BY <2>1, <3>1, <3>2, <3>3
    <2>2. \A b \in analysing : Building(b) \in hit => b \in tx.todo
      BY <1>2, <1>7 DEF Typed, TypeOK
    <2>3. QED
      BY <1>1, <1>2, <1>3, <2>1, <2>2 DEF OrphanInv, Met
  <1>10. QED
    BY <1>1, <1>8, <1>9 DEF OrphanInv, InFlight, Guarded

LEMMA OrphanCommit ==
    ASSUME Typed, KeysInv, OrphanInv, CommitDeletion
    PROVE  OrphanInv'
  <1>1. /\ tx # None /\ tx \in Transaction /\ tx.todo = {}
        /\ rows' = rows \ tx.deleted /\ overlapped' = overlapped \cup tx.met
        /\ UNCHANGED <<owner, analysing>> /\ tx' = None
    BY DEF CommitDeletion, Typed
  <1>2. InFlight'
    BY <1>1 DEF OrphanInv, InFlight, Met
  <1>3. ASSUME NEW b \in Buildings, NEW c \in 0..MaxUploads, Circuit(b, c) \in rows,
               Building(b) \in rows'
        PROVE  Circuit(b, c) \in rows'
    BY <1>1, <1>3 DEF OrphanInv, Current
  <1>4. \A b \in analysing : Building(b) \in rows' \/ b \in overlapped'
    BY <1>1 DEF OrphanInv, Guarded, Met
  <1>5. analysing \subseteq Buildings
    BY DEF Typed, TypeOK
  <1>6. \A b \in Buildings :
            (b \in analysing \/ Findings(b) \in rows') /\ Building(b) \in rows' =>
                \E c \in 0..MaxUploads : Circuit(b, c) \in rows'
    BY <1>1, <1>3 DEF OrphanInv, Guarded
  <1>7. QED
    BY <1>1, <1>2, <1>4, <1>6 DEF OrphanInv, Guarded

LEMMA OrphanStep == Typed /\ KeysInv /\ OrphanInv /\ [Next]_vars => OrphanInv'
  <1> SUFFICES ASSUME Typed, KeysInv, OrphanInv, [Next]_vars PROVE OrphanInv'
    OBVIOUS
  <1>1. CASE UNCHANGED <<rows, owner, tx, analysing, overlapped>>
    BY <1>1 DEF OrphanInv, InFlight, Guarded, Current, Met
  <1>2. CASE \/ \E t \in Tenants, b \in Buildings : ProvisionSandbox(t, b) \/ CreateBuilding(t, b)
             \/ \E b \in Buildings : SaveFindings(b) \/ SaveFeatures(b) \/ RecordFeedback(b)
             \/ \E u \in Uploads : CommitUpload(u)
    BY <1>2, OrphanInsertActions
  <1>3. ASSUME NEW b \in Buildings, StartAnalysis(b) \/ EndAnalysis(b) \/ DeleteBuilding(b)
        PROVE  OrphanInv'
    BY <1>3, OrphanAnalysis
  <1>4. CASE \/ \E b \in Buildings : BeginBuildingDeletion(b)
             \/ \E t \in Tenants : BeginTenantDeletion(t)
             \/ NextBuilding \/ BuildingDone \/ AbortDeletion
    BY <1>4, OrphanDeletion
  <1>5. QED
    BY <1>1, <1>2, <1>3, <1>4, OrphanDeleteRows, OrphanCommit
       DEF Next, vars, IssueApiClient, BeginUpload, FailUpload

LEMMA KeysStart == Init => KeysInv
  BY DEF Init, KeysInv, Keyed, Deleted

LEMMA OrphansStart == Init => OrphanInv
  BY DEF Init, OrphanInv, InFlight, Guarded

LEMMA OrphanInvariant == Spec => [](Typed /\ KeysInv /\ OrphanInv)
  <1>1. Init => Typed /\ KeysInv /\ OrphanInv
    BY TypesStart, KeysStart, OrphansStart
  <1>2. (Typed /\ KeysInv /\ OrphanInv) /\ [Next]_vars => (Typed /\ KeysInv /\ OrphanInv)'
    BY TypesStep, KeysStep, OrphanStep
  <1>3. QED
    BY <1>1, <1>2, PTL DEF Spec

\* Findings outlive their building only where an analysis was running while the
\* building was deleted.
THEOREM OrphansNeedAnalysis == Spec => []OrphansWereInFlight
  <1>1. OrphanInv => OrphansWereInFlight
    BY DEF OrphanInv, InFlight, OrphansWereInFlight, Findings
  <1>2. QED
    BY <1>1, OrphanInvariant, PTL

-----------------------------------------------------------------------------
(* What is logged of deletions *)

Begun(b, call) == <<"building.data.deleted", b, call>>
Completed(b, call) == <<"building.data.deletion_completed", b, call>>
Gone(t) == <<"tenant.data.deletion_completed", t, t>>

\* A building in the log is being deleted, or is deleted and logged so.
Logging ==
    /\ tx.current # None => Begun(tx.current, tx.target) \in tx.log
    /\ \A e \in tx.log :
          /\ e[3] = tx.target
          /\ e[2] \in Tenants => e[1] = "tenant.data.deletion_initiated"
          /\ e[2] \in Buildings =>
                /\ Begun(e[2], tx.target) \in tx.log
                /\ owner[e[2]] \in Tenants
                /\ \/ e[2] = tx.current
                   \/ /\ Completed(e[2], tx.target) \in tx.log
                      /\ Building(e[2]) \notin rows \ tx.deleted

BuildingsLogged ==
    \A e \in audit : e[2] \in Buildings =>
        /\ Begun(e[2], e[3]) \in audit /\ Completed(e[2], e[3]) \in audit
        /\ Building(e[2]) \notin rows /\ owner[e[2]] \in Tenants
        /\ e[3] \in Tenants => e[3] \notin tenants

TenantsLogged ==
    \A e \in audit :
        /\ e[3] \in Tenants => \E a \in audit : a[2] = e[3]
        /\ e[1] = "tenant.data.deletion_completed" /\ e[2] \in Tenants =>
              e[2] \notin tenants /\ \A b \in Buildings : owner[b] = e[2] => Building(b) \notin rows

AuditInv == BuildingsLogged /\ TenantsLogged /\ (tx # None => Logging)

\* Inserts bring back no building that is logged as deleted.
LEMMA AuditInsert ==
    ASSUME Typed, AuditInv, NEW S \in SUBSET Row, Insert(S),
           \A b \in Buildings : Building(b) \in S => owner[b] = None /\ owner'[b] \in tenants',
           \A b \in Buildings : owner[b] \in Tenants => owner'[b] = owner[b],
           \A b \in Buildings : owner[b] \notin Tenants => owner'[b] = owner[b] \/ owner'[b] \in tenants',
           \A t \in tenants' : t \in tenants \/ (t \in Tenants /\ \A a \in audit : a[2] # t),
           UNCHANGED audit
    PROVE  AuditInv'
  <1>1. rows' = rows \cup S
    BY DEF Insert
  <1>2. \A b \in Buildings : owner[b] \in Tenants \/ owner[b] = None
    BY DEF Typed, TypeOK
  <1>3. BuildingsLogged'
    <2> SUFFICES ASSUME NEW e \in audit, e[2] \in Buildings
                 PROVE  /\ Begun(e[2], e[3]) \in audit /\ Completed(e[2], e[3]) \in audit
                        /\ Building(e[2]) \notin rows' /\ owner'[e[2]] \in Tenants
                        /\ e[3] \in Tenants => e[3] \notin tenants'
      BY DEF BuildingsLogged
    <2>1. /\ Begun(e[2], e[3]) \in audit /\ Completed(e[2], e[3]) \in audit
          /\ Building(e[2]) \notin rows /\ owner[e[2]] \in Tenants
          /\ e[3] \in Tenants => e[3] \notin tenants
      BY DEF AuditInv, BuildingsLogged
    <2>2. e[3] \in Tenants => \E a \in audit : a[2] = e[3]
      BY DEF AuditInv, TenantsLogged
    <2>3. QED
      BY <1>1, <2>1, <2>2
  <1>4. TenantsLogged'
    <2> SUFFICES ASSUME NEW e \in audit
                 PROVE  /\ e[3] \in Tenants => \E a \in audit : a[2] = e[3]
                        /\ e[1] = "tenant.data.deletion_completed" /\ e[2] \in Tenants =>
                              /\ e[2] \notin tenants'
                              /\ \A b \in Buildings : owner'[b] = e[2] => Building(b) \notin rows'
      BY DEF TenantsLogged
    <2>1. e[3] \in Tenants => \E a \in audit : a[2] = e[3]
      BY DEF AuditInv, TenantsLogged
    <2>2. ASSUME e[1] = "tenant.data.deletion_completed", e[2] \in Tenants
          PROVE  /\ e[2] \notin tenants'
                 /\ \A b \in Buildings : owner'[b] = e[2] => Building(b) \notin rows'
      <3>1. e[2] \notin tenants /\ \A b \in Buildings : owner[b] = e[2] => Building(b) \notin rows
        BY <2>2 DEF AuditInv, TenantsLogged
      <3>2. e[2] \notin tenants'
        BY <3>1
      <3>3. ASSUME NEW b \in Buildings, owner'[b] = e[2] PROVE Building(b) \notin rows'
        BY <1>1, <1>2, <2>2, <3>1, <3>2, <3>3
      <3>4. QED
        BY <3>2, <3>3
    <2>3. QED
      BY <2>1, <2>2
  <1>5. ASSUME tx' # None PROVE Logging'
    <2>1. tx \in Transaction /\ tx # None /\ tx' = [tx EXCEPT !.deleted = tx.deleted \ S]
      BY <1>5, InsertType DEF Insert, Typed
    <2>2. /\ tx'.deleted = tx.deleted \ S /\ tx'.current = tx.current
          /\ tx'.log = tx.log /\ tx'.target = tx.target
      BY <2>1 DEF Transaction
    <2>3. QED
      BY <1>1, <2>1, <2>2 DEF AuditInv, Logging
  <1>6. QED
    BY <1>3, <1>4, <1>5 DEF AuditInv

LEMMA AuditInsertActions ==
    ASSUME Typed, AuditInv,
           \/ \E t \in Tenants, b \in Buildings : ProvisionSandbox(t, b) \/ CreateBuilding(t, b)
           \/ \E b \in Buildings : SaveFindings(b) \/ SaveFeatures(b) \/ RecordFeedback(b)
           \/ \E u \in Uploads : CommitUpload(u)
    PROVE  AuditInv'
  <1> DEFINE Buildless(S) == \A b \in Buildings : Building(b) \notin S
  <1>1. 0 \in 0..MaxUploads
    OBVIOUS
  <1>2. ASSUME NEW S \in SUBSET Row, Insert(S), Buildless(S), UNCHANGED <<owner, tenants, audit>>
        PROVE  AuditInv'
    BY <1>2, AuditInsert
  <1>3. ASSUME NEW t \in Tenants, NEW b \in Buildings,
               ProvisionSandbox(t, b) \/ CreateBuilding(t, b)
        PROVE  AuditInv'
    <2> DEFINE Sandbox == {Building(b), Circuit(b, 0), <<"readings", b, 0>>}
    <2>1. Sandbox \subseteq Row
      BY <1>1, RowKinds
    <2>2. \A d \in Buildings : Building(d) \in Sandbox => d = b
      BY DEF Building, Circuit
    <2>3. PICK S \in SUBSET Sandbox : Insert(S)
      BY <1>3 DEF ProvisionSandbox, CreateBuilding
    <2>4. /\ owner[b] = None /\ owner' = [owner EXCEPT ![b] = t] /\ audit' = audit
          /\ t \in tenants'
          /\ \A s \in tenants' : s \in tenants \/ (s \in Tenants /\ \A a \in audit : a[2] # s)
      BY <1>3 DEF ProvisionSandbox, CreateBuilding
    <2>5. owner'[b] = t /\ \A d \in Buildings \ {b} : owner'[d] = owner[d]
      BY <2>4 DEF Typed, TypeOK
    <2>6. S \in SUBSET Row
      BY <2>1
    <2>7. \A d \in Buildings : Building(d) \in S => owner[d] = None /\ owner'[d] \in tenants'
      BY <2>2, <2>4, <2>5
    <2>8. \A d \in Buildings : owner[d] \in Tenants => owner'[d] = owner[d]
      BY <2>4, <2>5
    <2>9. \A d \in Buildings : owner[d] \notin Tenants => owner'[d] = owner[d] \/ owner'[d] \in tenants'
      BY <2>4, <2>5
    <2>10. QED
      BY <2>3, <2>4, <2>6, <2>7, <2>8, <2>9, AuditInsert
  <1>4. ASSUME NEW b \in Buildings, SaveFindings(b) PROVE AuditInv'
    <2>1. Insert({<<"findings", b, 0>>}) /\ UNCHANGED <<owner, tenants, audit>>
      BY <1>4 DEF SaveFindings
    <2>2. {<<"findings", b, 0>>} \in SUBSET Row /\ Buildless({<<"findings", b, 0>>})
      BY <1>1, RowKinds DEF Building
    <2>3. QED
      BY <1>2, <2>1, <2>2
  <1>5. ASSUME NEW b \in Buildings, SaveFeatures(b) PROVE AuditInv'
    <2>1. PICK c \in 0..MaxUploads : Insert({<<"features", b, c>>})
      BY <1>5 DEF SaveFeatures
    <2>2. UNCHANGED <<owner, tenants, audit>>
      BY <1>5 DEF SaveFeatures
    <2>3. {<<"features", b, c>>} \in SUBSET Row /\ Buildless({<<"features", b, c>>})
      BY RowKinds DEF Building
    <2>4. QED
      BY <1>2, <2>1, <2>2, <2>3
  <1>6. ASSUME NEW b \in Buildings, RecordFeedback(b) PROVE AuditInv'
    <2>1. Insert({<<"labels", b, 0>>}) /\ UNCHANGED <<owner, tenants, audit>>
      BY <1>6 DEF RecordFeedback
    <2>2. {<<"labels", b, 0>>} \in SUBSET Row /\ Buildless({<<"labels", b, 0>>})
      BY <1>1, RowKinds DEF Building
    <2>3. QED
      BY <1>2, <2>1, <2>2
  <1>7. ASSUME NEW u \in Uploads, CommitUpload(u) PROVE AuditInv'
    <2>1. Insert(Uploaded(u)) /\ UNCHANGED <<owner, tenants, audit>> /\ upload[u] # None
      BY <1>7 DEF CommitUpload, Uploaded
    <2>2. Uploaded(u) \in SUBSET Row
      BY <2>1, UploadedRows
    <2>3. Buildless(Uploaded(u))
      BY DEF Uploaded, Building, Circuit
    <2>4. QED
      BY <1>2, <2>1, <2>2, <2>3
  <1>8. QED
    BY <1>3, <1>4, <1>5, <1>6, <1>7

\* Steps of the deletion before its end.
LEMMA AuditDeletion ==
    ASSUME Typed, OrphanInv, AuditInv,
           \/ \E b \in Buildings : BeginBuildingDeletion(b)
           \/ \E t \in Tenants : BeginTenantDeletion(t)
           \/ NextBuilding \/ DeleteRows \/ BuildingDone \/ AbortDeletion
    PROVE  AuditInv'
  <1>1. UNCHANGED <<rows, owner, tenants, audit>>
    BY DEF BeginBuildingDeletion, BeginTenantDeletion, NextBuilding, DeleteRows, BuildingDone,
           AbortDeletion
  <1>2. BuildingsLogged' /\ TenantsLogged'
    BY <1>1 DEF AuditInv, BuildingsLogged, TenantsLogged
  <1>3. ASSUME NEW b \in Buildings, BeginBuildingDeletion(b) PROVE Logging'
    BY <1>3, BegunDeletion DEF BeginBuildingDeletion, Logging
  <1>4. ASSUME NEW t \in Tenants, BeginTenantDeletion(t) PROVE Logging'
    <2>1. PICK bs : tx' = [NewDeletion(t, bs) EXCEPT
                           !.log = {<<"tenant.data.deletion_initiated", t, t>>}]
      BY <1>4 DEF BeginTenantDeletion
    <2>2. /\ tx'.log = {<<"tenant.data.deletion_initiated", t, t>>} /\ tx'.target = t
          /\ tx'.current = None
      BY <2>1, BegunDeletion
    <2>3. QED
      BY <2>2 DEF Logging
  <1>5. ASSUME NextBuilding PROVE Logging'
    <2>1. tx # None /\ tx \in Transaction /\ tx.current = None
      BY <1>5 DEF NextBuilding, Typed
    <2>2. PICK d \in tx.todo : tx' = [tx EXCEPT !.current = d, !.at = 1,
              !.log = tx.log \cup {<<"building.data.deleted", d, tx.target>>}]
      BY <1>5 DEF NextBuilding
    <2>3. /\ tx'.deleted = tx.deleted /\ tx'.current = d /\ tx'.target = tx.target
          /\ tx'.log = tx.log \cup {Begun(d, tx.target)}
      BY <2>1, <2>2 DEF Transaction, Begun
    <2>4. d \in Buildings /\ owner[d] \in Tenants
      BY <2>1 DEF Transaction, OrphanInv, Current
    <2>5. ASSUME NEW e \in tx.log, e[2] \in Buildings
          PROVE  Completed(e[2], tx.target) \in tx.log /\ Building(e[2]) \notin rows \ tx.deleted
      BY <2>1, <2>5 DEF AuditInv, Logging
    <2>6. QED
      BY <1>1, <2>1, <2>3, <2>4, <2>5 DEF AuditInv, Logging, Begun
  <1>6. ASSUME DeleteRows PROVE Logging'
    <2>1. tx # None /\ tx \in Transaction /\ \E hit :
              tx' = [tx EXCEPT !.deleted = tx.deleted \cup hit, !.at = tx.at + 1]
      BY <1>6 DEF DeleteRows, Typed
    <2>2. /\ tx'.current = tx.current /\ tx'.target = tx.target /\ tx'.log = tx.log
          /\ tx.deleted \subseteq tx'.deleted
      BY <2>1 DEF Transaction
    <2>3. QED
      BY <1>1, <2>1, <2>2 DEF AuditInv, Logging
  <1>7. ASSUME BuildingDone PROVE Logging'
    <2> DEFINE k == tx.current
    <2>1. tx # None /\ tx \in Transaction /\ k # None /\ tx.at > 5 /\ k \in Buildings
      BY <1>7, StatementOrder DEF BuildingDone, Typed, Transaction
    <2>2. /\ tx'.deleted = tx.deleted /\ tx'.current = None /\ tx'.target = tx.target
          /\ tx'.log = tx.log \cup {Completed(k, tx.target)}
      BY <1>7, <2>1 DEF BuildingDone, Transaction, Completed
    <2>3. Building(k) \notin rows \ tx.deleted /\ owner[k] \in Tenants
      BY <2>1 DEF OrphanInv, Current
    <2>4. Begun(k, tx.target) \in tx.log
      BY <2>1 DEF AuditInv, Logging
    <2>5. ASSUME NEW e \in tx'.log
          PROVE  /\ e[3] = tx.target
                 /\ e[2] \in Tenants => e[1] = "tenant.data.deletion_initiated"
                 /\ e[2] \in Buildings =>
                       /\ Begun(e[2], tx.target) \in tx'.log
                       /\ owner[e[2]] \in Tenants
                       /\ Completed(e[2], tx.target) \in tx'.log
                       /\ Building(e[2]) \notin rows \ tx.deleted
      <3>1. CASE e \in tx.log
        BY <2>1, <2>2, <2>3, <3>1 DEF AuditInv, Logging
      <3>2. CASE e = Completed(k, tx.target)
        <4>1. e[2] = k /\ e[3] = tx.target
          BY <3>2 DEF Completed
        <4>2. QED
          BY <2>1, <2>2, <2>3, <2>4, <4>1
      <3>3. QED
        BY <2>2, <3>1, <3>2
    <2>6. QED
      BY <1>1, <2>2, <2>5 DEF Logging
  <1>8. CASE AbortDeletion
    BY <1>2, <1>8 DEF AbortDeletion, AuditInv
  <1>9. QED
    BY <1>2, <1>3, <1>4, <1>5, <1>6, <1>7, <1>8 DEF AuditInv

LEMMA AuditCommit ==
    ASSUME Typed, OrphanInv, AuditInv, CommitDeletion
    PROVE  AuditInv'
  <1>1. /\ tx # None /\ tx \in Transaction /\ tx.todo = {}
        /\ rows' = rows \ tx.deleted /\ owner' = owner /\ tx' = None
        /\ tenants' = tenants \ {tx.target}
        /\ audit' = audit \cup tx.log \cup {Gone(t) : t \in {tx.target} \cap Tenants}
        /\ tx.target \in Tenants => TenantRowFree(tx.target)
    BY DEF CommitDeletion, Typed, Gone
  <1>2. tx.current = None
    BY <1>1 DEF OrphanInv, Current
  <1>3. ASSUME NEW e \in audit'
        PROVE  e \in audit \/ e \in tx.log \/ (tx.target \in Tenants /\ e = Gone(tx.target))
    BY <1>1, <1>3
  <1>4. \A t : Gone(t)[1] = "tenant.data.deletion_completed" /\ Gone(t)[2] = t /\ Gone(t)[3] = t
    BY DEF Gone
  <1>5. BuildingsLogged'
    <2> SUFFICES ASSUME NEW e \in audit', e[2] \in Buildings
                 PROVE  /\ Begun(e[2], e[3]) \in audit' /\ Completed(e[2], e[3]) \in audit'
                        /\ Building(e[2]) \notin rows' /\ owner'[e[2]] \in Tenants
                        /\ e[3] \in Tenants => e[3] \notin tenants'
      BY DEF BuildingsLogged
    <2>1. CASE e \in audit
      BY <1>1, <2>1 DEF AuditInv, BuildingsLogged
    <2>2. CASE e \in tx.log
      <3>1. e[2] # tx.current /\ e[3] = tx.target
        BY <1>1, <1>2, <2>2 DEF AuditInv, Logging
      <3>2. /\ Begun(e[2], tx.target) \in tx.log /\ Completed(e[2], tx.target) \in tx.log
            /\ Building(e[2]) \notin rows \ tx.deleted /\ owner[e[2]] \in Tenants
        BY <1>1, <2>2, <3>1 DEF AuditInv, Logging
      <3>3. QED
        BY <1>1, <3>1, <3>2
    <2>3. CASE tx.target \in Tenants /\ e = Gone(tx.target)
      BY <1>4, <2>3
    <2>4. QED
      BY <1>3, <2>1, <2>2, <2>3
  <1>6. TenantsLogged'
    <2> SUFFICES ASSUME NEW e \in audit'
                 PROVE  /\ e[3] \in Tenants => \E a \in audit' : a[2] = e[3]
                        /\ e[1] = "tenant.data.deletion_completed" /\ e[2] \in Tenants =>
                              /\ e[2] \notin tenants'
                              /\ \A b \in Buildings : owner'[b] = e[2] => Building(b) \notin rows'
      BY DEF TenantsLogged
    <2>1. CASE e \in audit
      BY <1>1, <2>1 DEF AuditInv, TenantsLogged
    <2>2. tx.target \in Tenants => \E a \in audit' : a[2] = tx.target
      <3>1. tx.target \in Tenants => Gone(tx.target) \in audit'
        BY <1>1
      <3>2. QED
        BY <1>4, <3>1
    <2>3. CASE e \in tx.log
      BY <1>1, <2>2, <2>3 DEF AuditInv, Logging
    <2>4. CASE tx.target \in Tenants /\ e = Gone(tx.target)
      <3>1. e[2] = tx.target /\ e[3] = tx.target
        BY <1>4, <2>4
      <3>2. \A b \in Buildings : owner[b] = tx.target => Building(b) \notin rows \ tx.deleted
        BY <1>1, <2>4 DEF TenantRowFree
      <3>3. QED
        BY <1>1, <2>2, <3>1, <3>2
    <2>5. QED
      BY <1>3, <2>1, <2>3, <2>4
  <1>7. QED
    BY <1>1, <1>5, <1>6 DEF AuditInv

LEMMA AuditStep == Typed /\ OrphanInv /\ AuditInv /\ [Next]_vars => AuditInv'
  <1> SUFFICES ASSUME Typed, OrphanInv, AuditInv, [Next]_vars PROVE AuditInv'
    OBVIOUS
  <1>1. CASE UNCHANGED <<rows, owner, tenants, tx, audit>>
    BY <1>1 DEF AuditInv, BuildingsLogged, TenantsLogged, Logging
  <1>2. CASE \/ \E t \in Tenants, b \in Buildings : ProvisionSandbox(t, b) \/ CreateBuilding(t, b)
             \/ \E b \in Buildings : SaveFindings(b) \/ SaveFeatures(b) \/ RecordFeedback(b)
             \/ \E u \in Uploads : CommitUpload(u)
    BY <1>2, AuditInsertActions
  <1>3. CASE \/ \E b \in Buildings : BeginBuildingDeletion(b)
             \/ \E t \in Tenants : BeginTenantDeletion(t)
             \/ NextBuilding \/ DeleteRows \/ BuildingDone \/ AbortDeletion
    BY <1>3, AuditDeletion
  <1>4. ASSUME NEW b \in Buildings, DeleteBuilding(b) PROVE AuditInv'
    BY <1>4 DEF DeleteBuilding, AuditInv, BuildingsLogged, TenantsLogged, Logging
  <1>5. ASSUME NEW b \in Buildings, StartAnalysis(b) PROVE AuditInv'
    <2>1. UNCHANGED <<rows, owner, tenants, audit>>
      BY <1>5 DEF StartAnalysis
    <2>2. ASSUME tx' # None PROVE Logging'
      <3>1. tx # None /\ tx \in Transaction /\ tx' = [tx EXCEPT !.met = tx.met \cup {b}]
        BY <1>5, <2>2 DEF StartAnalysis, Typed
      <3>2. /\ tx'.deleted = tx.deleted /\ tx'.current = tx.current
            /\ tx'.log = tx.log /\ tx'.target = tx.target
        BY <3>1 DEF Transaction
      <3>3. QED
        BY <2>1, <3>1, <3>2 DEF AuditInv, Logging
    <2>3. QED
      BY <2>1, <2>2 DEF AuditInv, BuildingsLogged, TenantsLogged
  <1>6. QED
    BY <1>1, <1>2, <1>3, <1>4, <1>5, AuditCommit
       DEF Next, vars, IssueApiClient, BeginUpload, FailUpload, EndAnalysis

\* A deletion is logged completely or not at all, and what is logged as deleted
\* is gone for good: the rows that keys tie to the building go with it, and the
\* tenant's row goes with the last of its buildings.
THEOREM DeletionsAreAtomic == Spec => []DeletionsAtomic
  <1>1. Init => AuditInv
    BY DEF Init, AuditInv, BuildingsLogged, TenantsLogged
  <1>2. Typed /\ KeysInv /\ AuditInv => DeletionsAtomic
    <2> SUFFICES ASSUME Typed, KeysInv, AuditInv PROVE DeletionsAtomic
      OBVIOUS
    <2>1. ASSUME NEW b \in Buildings, NEW e \in audit, e[2] = b
          PROVE  /\ Begun(b, e[3]) \in audit /\ Completed(b, e[3]) \in audit
                 /\ \A r \in rows : r[2] = b => r[1] \in {"findings", "labels"}
                 /\ e[3] \in Tenants => e[3] \notin tenants
      <3>1. /\ Begun(b, e[3]) \in audit /\ Completed(b, e[3]) \in audit
            /\ Building(b) \notin rows
            /\ e[3] \in Tenants => e[3] \notin tenants
        BY <2>1 DEF AuditInv, BuildingsLogged
      <3>2. ASSUME NEW r \in rows, r[2] = b PROVE r[1] \in {"findings", "labels"}
        <4>1. r \in Row /\ Parent(r) \in rows
          BY DEF Typed, TypeOK, KeysInv, Keyed
        <4>2. r[1] \notin {"circuits", "batches"}
          BY <3>1, <3>2, <4>1, ParentBuilding
        <4>3. r[1] \notin {"readings", "features"}
          <5>1. SUFFICES ASSUME r[1] \in {"readings", "features"} PROVE FALSE
            OBVIOUS
          <5>2. Circuit(b, r[3]) \in rows
            BY <3>2, <4>1, <5>1, ParentBuilding
          <5>3. Building(b) \in rows
            BY <5>2, Parents DEF KeysInv, Keyed
          <5>4. QED
            BY <3>1, <5>3
        <4>4. r[1] = "buildings" => r = Building(b)
          BY <3>2, <4>1 DEF Row, Building
        <4>5. r[1] \in {"buildings", "findings", "labels", "batches", "circuits", "readings", "features"}
          BY <4>1 DEF Row
        <4>6. QED
          BY <3>1, <4>2, <4>3, <4>4, <4>5
      <3>3. QED
        BY <3>1, <3>2
    <2>2. \A b \in Buildings : LoggedDeletion(b)
      BY <2>1 DEF LoggedDeletion, Begun, Completed
    <2>3. ASSUME NEW t \in Tenants, NEW e \in audit, e[1] = "tenant.data.deletion_completed", e[2] = t
          PROVE  t \notin tenants /\ \A b \in Buildings : owner[b] = t => Building(b) \notin rows
      BY <2>3 DEF AuditInv, TenantsLogged
    <2>4. QED
      BY <2>2, <2>3 DEF DeletionsAtomic
  <1>3. QED
    BY <1>1, <1>2, AuditStep, OrphanInvariant, PTL DEF Spec

=============================================================================
