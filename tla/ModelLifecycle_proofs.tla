------------------------ MODULE ModelLifecycle_proofs ------------------------
(***************************************************************************)
(* What holds of ModelLifecycle for every number of members, attempts,     *)
(* monitors, versions and labels and every setting of the gate.            *)
(***************************************************************************)
EXTENDS ModelLifecycle, FiniteSetTheorems, TLAPS

USE NumMembersAssumption, SettingsAssumption, BoundsAssumption

\* A row of audit_log keeps its type whatever an attempt or a check writes.
LEMMA RowTypes ==
    /\ \A s \in AttemptState : DecisionRow(s) \in AuditRow
    /\ \A m \in Members, f \in Nat, t \in Nat : RollbackRow(m, f, t) \in AuditRow
  BY DEF DecisionRow, RollbackRow, AuditRow, AttemptState

LEMMA IdleTypes ==
    /\ IdleAttempt \in AttemptState
    /\ IdleMonitor \in MonitorState
  BY DEF IdleAttempt, IdleMonitor, AttemptState, MonitorState, Members, Metrics

LEMMA NextTypes ==
    ASSUME TypeOK
    PROVE  /\ \A a \in Attempts : NextMember(a) \in AttemptState
           /\ \A d \in Monitors : NextCheck(d) \in MonitorState
  <1>1. \A a \in Attempts : attempt[a].member \in Members
    BY DEF TypeOK, AttemptState
  <1>2. \A d \in Monitors : monitor[d].member \in Members
    BY DEF TypeOK, MonitorState
  <1>3. ASSUME NEW a \in Attempts PROVE NextMember(a) \in AttemptState
    <2>1. attempt[a].member < NumMembers => attempt[a].member + 1 \in Members
      BY <1>1 DEF Members
    <2>2. QED
      BY <2>1, IdleTypes DEF NextMember, AttemptState
  <1>4. ASSUME NEW d \in Monitors PROVE NextCheck(d) \in MonitorState
    <2>1. monitor[d].member < NumMembers => monitor[d].member + 1 \in Members
      BY <1>2 DEF Members
    <2>2. QED
      BY <2>1, IdleTypes DEF NextCheck, MonitorState
  <1>5. QED
    BY <1>3, <1>4

LEMMA AttemptStepType ==
    ASSUME TypeOK, NEW a \in Attempts, AttemptStep(a)
    PROVE  TypeOK'
  <1>1. /\ NextMember(a) \in AttemptState /\ IdleAttempt \in AttemptState
        /\ attempt[a] \in AttemptState
    BY NextTypes, IdleTypes DEF TypeOK
  <1>2. CASE StartRetraining(a)
    <2>1. [IdleAttempt EXCEPT !.pc = "train"] \in AttemptState
      BY <1>1 DEF AttemptState
    <2>2. QED
      BY <1>2, <2>1 DEF StartRetraining, TypeOK
  <1>3. CASE Train(a)
    <2>1. PICK q \in Metrics, ok \in BOOLEAN :
            LET m == attempt[a].member
                v == IF ok THEN registered[m] + 1 ELSE 0
            IN  /\ v <= MaxVersions
                /\ registered' = [registered EXCEPT ![m] = IF ok THEN v ELSE @]
                /\ attempt' = [attempt EXCEPT ![a] =
                       [@ EXCEPT !.pc = "evaluate", !.version = v, !.metrics = q]]
      BY <1>3 DEF Train
    <2>2. attempt[a].member \in Members /\ registered[attempt[a].member] \in Nat
      BY <1>1 DEF AttemptState, TypeOK
    <2>3. registered' \in [Members -> Nat]
      BY <2>1, <2>2 DEF TypeOK
    <2>4. \A v \in Nat : [attempt[a] EXCEPT !.pc = "evaluate", !.version = v,
                                            !.metrics = q] \in AttemptState
      BY <1>1 DEF AttemptState
    <2>5. attempt' \in [Attempts -> AttemptState]
      <3>1. (IF ok THEN registered[attempt[a].member] + 1 ELSE 0) \in Nat
        BY <2>2
      <3>2. PICK v \in Nat : attempt' = [attempt EXCEPT ![a] =
                [attempt[a] EXCEPT !.pc = "evaluate", !.version = v, !.metrics = q]]
        BY <2>1, <3>1
      <3>3. QED
        BY <2>4, <3>2 DEF TypeOK
    <2>6. QED
      BY <1>3, <2>3, <2>5 DEF Train, TypeOK
  <1>4. CASE Evaluate(a)
    <2>1. \A x, y \in BOOLEAN : [attempt[a] EXCEPT !.pc = "commit", !.approved = x,
                                                   !.review = y] \in AttemptState
      BY <1>1 DEF AttemptState
    <2>2. QED
      BY <1>4, <2>1 DEF Evaluate, TypeOK
  <1>5. CASE CommitDecision(a)
    <2>1. [attempt[a] EXCEPT !.pc = "promote"] \in AttemptState
      BY <1>1 DEF AttemptState
    <2>2. attempt' \in [Attempts -> AttemptState]
      BY <1>1, <1>5, <2>1 DEF CommitDecision, TypeOK
    <2>3. audit' \subseteq AuditRow
      BY <1>1, <1>5, RowTypes DEF CommitDecision, TypeOK
    <2>4. QED
      BY <1>5, <2>2, <2>3 DEF CommitDecision, TypeOK
  <1>6. CASE Promote(a)
    <2>1. attempt[a].member \in Members /\ attempt[a].version \in Nat
      BY <1>1 DEF AttemptState
    <2>2. QED
      BY <1>1, <1>6, <2>1 DEF Promote, TypeOK
  <1>7. CASE AttemptFails(a)
    BY <1>1, <1>7 DEF AttemptFails, TypeOK
  <1>8. QED
    BY <1>2, <1>3, <1>4, <1>5, <1>6, <1>7 DEF AttemptStep

LEMMA MonitorStepType ==
    ASSUME TypeOK, NEW d \in Monitors, MonitorStep(d)
    PROVE  TypeOK'
  <1>1. /\ NextCheck(d) \in MonitorState /\ IdleMonitor \in MonitorState
        /\ monitor[d] \in MonitorState
    BY NextTypes, IdleTypes DEF TypeOK
  <1>2. /\ monitor[d].member \in Members /\ monitor[d].previous \in Nat
        /\ monitor[d].current \in Nat
    BY <1>1 DEF MonitorState
  <1>3. CASE StartCheck(d)
    <2>1. [IdleMonitor EXCEPT !.pc = "measure"] \in MonitorState
      BY <1>1 DEF MonitorState
    <2>2. QED
      BY <1>3, <2>1 DEF StartCheck, TypeOK
  <1>4. CASE MeasureFpRate(d)
    <2>1. [monitor[d] EXCEPT !.pc = "previous"] \in MonitorState
      BY <1>1 DEF MonitorState
    <2>2. QED
      BY <1>1, <1>4, <2>1 DEF MeasureFpRate, TypeOK
  <1>5. CASE GetPreviousVersion(d)
    <2>1. RollbackRow(monitor[d].member, 0, 0) \in AuditRow
      BY <1>2, RowTypes
    <2>2. \A v \in Older(monitor[d].member) :
            [monitor[d] EXCEPT !.pc = "current", !.previous = v] \in MonitorState
      <3>1. Older(monitor[d].member) \subseteq Nat
        BY <1>2 DEF Older, TypeOK
      <3>2. QED
        BY <1>1, <3>1 DEF MonitorState
    <2>3. monitor' \in [Monitors -> MonitorState]
      BY <1>1, <1>5, <2>2 DEF GetPreviousVersion, TypeOK
    <2>4. audit' \subseteq AuditRow
      BY <1>5, <2>1 DEF GetPreviousVersion, TypeOK
    <2>5. QED
      BY <1>5, <2>3, <2>4 DEF GetPreviousVersion, TypeOK
  <1>6. CASE GetChampionVersion(d)
    <2>1. champion[monitor[d].member] \in Nat
      BY <1>2 DEF TypeOK
    <2>2. [monitor[d] EXCEPT !.pc = "alias", !.current = champion[monitor[d].member]]
            \in MonitorState
      BY <1>1, <2>1 DEF MonitorState
    <2>3. QED
      BY <1>6, <2>2 DEF GetChampionVersion, TypeOK
  <1>7. CASE RollBack(d)
    <2>1. [monitor[d] EXCEPT !.pc = "audit"] \in MonitorState
      BY <1>1 DEF MonitorState
    <2>2. QED
      BY <1>2, <1>7, <2>1 DEF RollBack, TypeOK
  <1>8. CASE CommitRollback(d)
    <2>1. RollbackRow(monitor[d].member, monitor[d].current, monitor[d].previous)
            \in AuditRow
      BY <1>2, RowTypes
    <2>2. QED
      BY <1>1, <1>8, <2>1 DEF CommitRollback, TypeOK
  <1>9. CASE CheckFails(d)
    <2>1. [IdleMonitor EXCEPT !.pc = "measure", !.member = monitor[d].member]
            \in MonitorState
      BY <1>1, <1>2 DEF MonitorState
    <2>2. QED
      BY <1>9, <2>1 DEF CheckFails, TypeOK
  <1>10. QED
    BY <1>3, <1>4, <1>5, <1>6, <1>7, <1>8, <1>9 DEF MonitorStep

LEMMA LabelStepType ==
    ASSUME TypeOK, Label \/ LabelsExpire
    PROVE  TypeOK'
  <1>1. CASE Label
    BY <1>1 DEF Label, TypeOK
  <1>2. CASE LabelsExpire
    <2>1. PICK c \in 0..labels.confirmed, d \in 0..labels.dismissed :
            /\ labels' = [confirmed |-> c, dismissed |-> d]
      BY <1>2 DEF LabelsExpire
    <2>2. QED
      BY <1>2, <2>1 DEF LabelsExpire, TypeOK
  <1>3. QED
    BY <1>1, <1>2

\* Every variable of the model keeps its type: the two stores hold versions and
\* audit rows, an attempt and a check are always at one of the steps of the code.
THEOREM TypeCorrect == Spec => []TypeOK
  <1>1. Init => TypeOK
    BY IdleTypes DEF Init, TypeOK
  <1>2. TypeOK /\ [Next]_vars => TypeOK'
    <2> SUFFICES ASSUME TypeOK, [Next]_vars PROVE TypeOK'
      OBVIOUS
    <2>1. CASE UNCHANGED vars
      BY <2>1 DEF vars, TypeOK
    <2>2. CASE Next
      BY <2>2, AttemptStepType, MonitorStepType, LabelStepType DEF Next
    <2>3. QED
      BY <2>1, <2>2
  <1>3. QED
    BY <1>1, <1>2, PTL DEF Spec

-----------------------------------------------------------------------------
(* The invariant that relates the registry, the audit trail and the attempts *)

LEMMA ApprovedGrows ==
    ASSUME audit \subseteq audit', NEW m \in Members
    PROVE  Approved(m) \subseteq Approved(m)'
  BY DEF Approved, PromotedRows

\* No step but a committed approval adds to the approved versions.
LEMMA ApprovedFrame ==
    ASSUME NEW row, audit' = audit \cup {row}, row.event # "model.promoted",
           NEW m \in Members
    PROVE  Approved(m)' = Approved(m)
  BY DEF Approved, PromotedRows

\* Steps that leave the audit trail alone, or add a rollback row to it, and
\* leave the attempts and the registry alone.
LEMMA AttemptsFrame ==
    ASSUME IInv, UNCHANGED <<registered, attempt>>,
           \/ audit' = audit
           \/ \E row : row.event = "model.rollback" /\ audit' = audit \cup {row}
    PROVE  /\ VersionsRegistered' /\ UndecidedInFlight'
           /\ DecidedOnce' /\ ApprovedBeforePromote'
           /\ \A m \in Members : Approved(m)' = Approved(m)
  <1>1. \A r \in audit' : r.event # "model.rollback" => r \in audit
    OBVIOUS
  <1>2. \A m \in Members : Approved(m)' = Approved(m)
    BY DEF Approved, PromotedRows
  <1>3. VersionsRegistered'
    BY <1>1 DEF IInv, VersionsRegistered
  <1>4. UndecidedInFlight'
    BY <1>1 DEF IInv, UndecidedInFlight, Deciding
  <1>5. DecidedOnce'
    BY <1>1 DEF IInv, DecidedOnce
  <1>6. ApprovedBeforePromote'
    BY <1>2 DEF IInv, ApprovedBeforePromote, TypeOK, AttemptState
  <1>7. QED
    BY <1>2, <1>3, <1>4, <1>5, <1>6

\* Monitors and the champion are not disturbed by steps that leave them alone.
LEMMA ChampionFrame ==
    ASSUME IInv, UNCHANGED <<champion, monitor>>, audit \subseteq audit'
    PROVE  ChampionNotAheadOfGate' /\ RollbackTargetOlder'
  <1>1. \A m \in Members : Approved(m) \subseteq Approved(m)'
    BY ApprovedGrows
  <1>2. \A d \in Monitors : monitor[d].member \in Members
    BY DEF IInv, TypeOK, MonitorState
  <1>3. QED
    BY <1>1, <1>2 DEF IInv, ChampionNotAheadOfGate, RollbackTargetOlder

LEMMA TrainInv ==
    ASSUME IInv, NEW a \in Attempts, Train(a)
    PROVE  IInv'
  <1> DEFINE m == attempt[a].member
  <1>1. TypeOK'
    BY AttemptStepType DEF IInv, AttemptStep
  <1>2. /\ attempt[a] \in AttemptState /\ m \in Members /\ registered[m] \in Nat
        /\ registered \in [Members -> Nat] /\ attempt \in [Attempts -> AttemptState]
    BY DEF IInv, TypeOK, AttemptState
  <1>3. PICK v \in Nat :
          /\ v <= MaxVersions
          /\ \/ v = 0 /\ registered' = registered
             \/ v = registered[m] + 1 /\ registered' = [registered EXCEPT ![m] = v]
          /\ attempt'[a].pc = "evaluate" /\ attempt'[a].version = v
          /\ attempt'[a].member = m
          /\ \A b \in Attempts \ {a} : attempt'[b] = attempt[b]
    <2>1. PICK q \in Metrics, ok \in BOOLEAN :
            LET v == IF ok THEN registered[m] + 1 ELSE 0
            IN  /\ v <= MaxVersions
                /\ registered' = [registered EXCEPT ![m] = IF ok THEN v ELSE @]
                /\ attempt' = [attempt EXCEPT ![a] =
                       [@ EXCEPT !.pc = "evaluate", !.version = v, !.metrics = q]]
      BY DEF Train
    <2>2. \A v : LET s == [attempt[a] EXCEPT !.pc = "evaluate", !.version = v,
                                             !.metrics = q]
                 IN  s.pc = "evaluate" /\ s.version = v /\ s.member = m
      BY <1>2 DEF AttemptState
    <2>3. CASE ok
      <3>1. /\ registered[m] + 1 \in Nat /\ registered[m] + 1 <= MaxVersions
            /\ registered' = [registered EXCEPT ![m] = registered[m] + 1]
        BY <1>2, <2>1, <2>3
      <3>2. attempt' = [attempt EXCEPT ![a] = [attempt[a] EXCEPT
                !.pc = "evaluate", !.version = registered[m] + 1, !.metrics = q]]
        BY <2>1, <2>3
      <3>3. /\ attempt'[a].pc = "evaluate" /\ attempt'[a].member = m
            /\ attempt'[a].version = registered[m] + 1
            /\ \A b \in Attempts \ {a} : attempt'[b] = attempt[b]
        BY <1>2, <2>2, <3>2
      <3>4. QED
        BY <3>1, <3>3
    <2>4. CASE ~ok
      BY <1>2, <2>1, <2>2, <2>4
    <2>5. QED
      BY <2>3, <2>4
  <1>4. UNCHANGED <<champion, audit, monitor>>
    BY DEF Train
  <1>5. \A n \in Members : registered[n] <= registered'[n]
    BY <1>2, <1>3
  <1>6. \A r \in audit : r.member \in Members /\ r.version \in Nat
    BY DEF IInv, TypeOK, AuditRow
  <1>7. VersionsRegistered'
    <2>1. \A n \in Members : registered'[n] <= MaxVersions
      BY <1>2, <1>3 DEF IInv, VersionsRegistered
    <2>2. \A r \in audit' : r.event # "model.rollback" => r.version <= registered'[r.member]
      BY <1>1, <1>2, <1>4, <1>5, <1>6 DEF IInv, VersionsRegistered, TypeOK
    <2>3. ASSUME NEW b \in Attempts, attempt'[b].pc \in {"evaluate", "commit", "promote"}
          PROVE  attempt'[b].version <= registered'[attempt'[b].member]
      <3>1. CASE b = a
        BY <1>2, <1>3, <3>1
      <3>2. CASE b # a
        <4>1. attempt[b].member \in Members /\ attempt[b].version \in Nat
          BY DEF IInv, TypeOK, AttemptState
        <4>2. attempt[b].version <= registered[attempt[b].member]
          BY <1>3, <2>3, <3>2 DEF IInv, VersionsRegistered
        <4>3. QED
          BY <1>1, <1>2, <1>3, <1>5, <3>2, <4>1, <4>2 DEF TypeOK
      <3>3. QED
        BY <3>1, <3>2
    <2>4. QED
      BY <2>1, <2>2, <2>3 DEF VersionsRegistered
  <1>8. UndecidedInFlight'
    <2> SUFFICES ASSUME NEW b \in Attempts, Deciding(b)', attempt'[b].version # 0
                 PROVE  /\ \A r \in audit :
                             r.event # "model.rollback" /\ r.member = attempt'[b].member =>
                                 r.version # attempt'[b].version
                        /\ \A c \in Attempts \ {b} :
                             Deciding(c)' /\ attempt'[c].member = attempt'[b].member =>
                                 attempt'[c].version # attempt'[b].version
      BY <1>4 DEF UndecidedInFlight
    <2>1. \A c \in Attempts : attempt[c].version \in Nat /\ attempt[c].member \in Members
      BY DEF IInv, TypeOK, AttemptState
    <2>2. \A c \in Attempts \ {a} : Deciding(c)' /\ attempt'[c].member = m =>
             attempt'[c].version <= registered[m]
      BY <1>3 DEF IInv, VersionsRegistered, Deciding
    <2>3. CASE b = a
      <3>1. attempt'[b].version = registered[m] + 1 /\ attempt'[b].member = m
        BY <1>3, <2>3
      <3>2. \A r \in audit : r.event # "model.rollback" /\ r.member = m =>
                r.version <= registered[m]
        BY DEF IInv, VersionsRegistered
      <3>3. QED
        BY <1>2, <1>3, <1>6, <2>1, <2>2, <2>3, <3>1, <3>2
    <2>4. CASE b # a
      <3>1. /\ attempt'[b] = attempt[b] /\ Deciding(b)
        BY <1>3, <2>4 DEF Deciding
      <3>2. \A r \in audit : r.event # "model.rollback" /\ r.member = attempt[b].member =>
                r.version # attempt[b].version
        BY <3>1 DEF IInv, UndecidedInFlight
      <3>3. \A c \in Attempts \ {a, b} :
               Deciding(c)' /\ attempt'[c].member = attempt[b].member =>
                   attempt'[c].version # attempt[b].version
        BY <1>3, <3>1 DEF IInv, UndecidedInFlight, Deciding
      <3>4. attempt'[a].member = attempt[b].member =>
                attempt'[a].version # attempt[b].version
        BY <1>2, <1>3, <2>1, <2>2, <2>4, <3>1
      <3>5. QED
        BY <3>1, <3>2, <3>3, <3>4
    <2>5. QED
      BY <2>3, <2>4
  <1>9. DecidedOnce'
    BY <1>4 DEF IInv, DecidedOnce
  <1>10. ApprovedBeforePromote'
    BY <1>3, <1>4 DEF IInv, ApprovedBeforePromote, Approved, PromotedRows
  <1>11. QED
    BY <1>1, <1>4, <1>7, <1>8, <1>9, <1>10, ChampionFrame DEF IInv

\* An attempt that starts, fails or goes on to the next member decides nothing.
LEMMA ResetInv ==
    ASSUME IInv, NEW a \in Attempts, TypeOK',
           UNCHANGED <<registered, champion, audit, monitor>>,
           attempt'[a].pc \in {"idle", "train"},
           \A b \in Attempts \ {a} : attempt'[b] = attempt[b]
    PROVE  IInv'
  <1>1. VersionsRegistered'
    BY DEF IInv, VersionsRegistered
  <1>2. UndecidedInFlight'
    BY DEF IInv, UndecidedInFlight, Deciding
  <1>3. DecidedOnce'
    BY DEF IInv, DecidedOnce
  <1>4. ApprovedBeforePromote'
    BY DEF IInv, ApprovedBeforePromote, Approved, PromotedRows
  <1>5. QED
    BY <1>1, <1>2, <1>3, <1>4, ChampionFrame DEF IInv

LEMMA NextMemberPc ==
    ASSUME NEW a \in Attempts
    PROVE  NextMember(a).pc \in {"idle", "train"}
  BY DEF NextMember, IdleAttempt

LEMMA EvaluateInv ==
    ASSUME IInv, NEW a \in Attempts, Evaluate(a)
    PROVE  IInv'
  <1>1. TypeOK'
    BY AttemptStepType DEF IInv, AttemptStep
  <1>2. /\ attempt[a] \in AttemptState /\ attempt[a].pc = "evaluate"
        /\ attempt \in [Attempts -> AttemptState]
    BY DEF IInv, TypeOK, Evaluate
  <1>3. /\ attempt'[a].pc = "commit" /\ attempt'[a].version = attempt[a].version
        /\ attempt'[a].member = attempt[a].member
        /\ attempt'[a].approved => attempt[a].version # 0
        /\ \A b \in Attempts \ {a} : attempt'[b] = attempt[b]
    BY <1>2 DEF Evaluate, AttemptState
  <1>4. UNCHANGED <<registered, champion, audit, monitor>>
    BY DEF Evaluate
  <1>5. VersionsRegistered'
    BY <1>2, <1>3, <1>4 DEF IInv, VersionsRegistered
  <1>6. UndecidedInFlight'
    <2>1. \A b \in Attempts : /\ Deciding(b)' <=> Deciding(b)
                              /\ attempt'[b].version = attempt[b].version
                              /\ attempt'[b].member = attempt[b].member
      BY <1>2, <1>3 DEF Deciding
    <2>2. QED
      BY <1>4, <2>1 DEF IInv, UndecidedInFlight
  <1>7. DecidedOnce'
    BY <1>4 DEF IInv, DecidedOnce
  <1>8. ApprovedBeforePromote'
    BY <1>3, <1>4 DEF IInv, ApprovedBeforePromote, Approved, PromotedRows
  <1>9. QED
    BY <1>1, <1>4, <1>5, <1>6, <1>7, <1>8, ChampionFrame DEF IInv

LEMMA CommitDecisionInv ==
    ASSUME IInv, NEW a \in Attempts, CommitDecision(a)
    PROVE  IInv'
  <1> DEFINE row == DecisionRow(attempt[a])
  <1>1. TypeOK'
    BY AttemptStepType DEF IInv, AttemptStep
  <1>2. /\ attempt[a] \in AttemptState /\ attempt[a].pc = "commit"
        /\ attempt \in [Attempts -> AttemptState] /\ attempt[a].member \in Members
    BY DEF IInv, TypeOK, CommitDecision, AttemptState
  <1>3. /\ audit' = audit \cup {row}
        /\ UNCHANGED <<registered, champion, monitor>>
        /\ \A b \in Attempts \ {a} : attempt'[b] = attempt[b]
    BY <1>2 DEF CommitDecision
  <1>4. /\ row.member = attempt[a].member /\ row.version = attempt[a].version
        /\ row.event # "model.rollback"
        /\ row.event = "model.promoted" <=> attempt[a].approved
    BY <1>2 DEF DecisionRow, AttemptState
  <1>5. \/ attempt'[a].pc \in {"idle", "train"}
        \/ /\ attempt'[a].pc = "promote" /\ attempt[a].approved
           /\ attempt'[a].version = attempt[a].version /\ attempt[a].version # 0
           /\ attempt'[a].member = attempt[a].member
    BY <1>2, NextMemberPc DEF CommitDecision, AttemptState
  <1>6. \A m \in Members : Approved(m) \subseteq Approved(m)'
    BY <1>3, ApprovedGrows
  <1>7. VersionsRegistered'
    BY <1>2, <1>3, <1>4, <1>5 DEF IInv, VersionsRegistered
  <1>8. UndecidedInFlight'
    <2> SUFFICES ASSUME NEW b \in Attempts, Deciding(b)', attempt'[b].version # 0
                 PROVE  /\ \A r \in audit' :
                             r.event # "model.rollback" /\ r.member = attempt'[b].member =>
                                 r.version # attempt'[b].version
                        /\ \A c \in Attempts \ {b} :
                             Deciding(c)' /\ attempt'[c].member = attempt'[b].member =>
                                 attempt'[c].version # attempt'[b].version
      BY DEF UndecidedInFlight
    <2>1. b # a /\ attempt'[b] = attempt[b] /\ Deciding(b) /\ Deciding(a) /\ ~ Deciding(a)'
      BY <1>2, <1>3, <1>5 DEF Deciding
    <2>2. row.member = attempt[b].member => row.version # attempt[b].version
      BY <1>4, <2>1 DEF IInv, UndecidedInFlight
    <2>3. \A r \in audit : r.event # "model.rollback" /\ r.member = attempt[b].member =>
              r.version # attempt[b].version
      BY <2>1 DEF IInv, UndecidedInFlight
    <2>4. \A c \in Attempts \ {b} : Deciding(c)' => attempt'[c] = attempt[c] /\ Deciding(c)
      BY <1>3, <2>1 DEF Deciding
    <2>5. QED
      BY <1>3, <2>1, <2>2, <2>3, <2>4 DEF IInv, UndecidedInFlight
  <1>9. DecidedOnce'
    <2>1. row.version # 0 => \A r \in audit :
              r.event # "model.rollback" /\ r.member = row.member => r.version # row.version
      BY <1>2, <1>4 DEF IInv, UndecidedInFlight, Deciding
    <2>2. QED
      BY <1>3, <2>1 DEF IInv, DecidedOnce
  <1>10. ApprovedBeforePromote'
    <2>1. \A b \in Attempts, n \in Members :
              b # a /\ attempt[b].pc = "promote" /\ attempt[b].member = n =>
                  attempt[b].version \in Approved(n)'
      BY <1>6 DEF IInv, ApprovedBeforePromote
    <2>2. \A n \in Members : attempt[a].approved /\ attempt[a].member = n =>
              attempt[a].version \in Approved(n)'
      BY <1>3, <1>4 DEF Approved, PromotedRows
    <2>3. \A b \in Attempts : attempt'[b].member \in Members
      BY <1>1 DEF TypeOK, AttemptState
    <2>4. ASSUME NEW b \in Attempts, NEW n \in Members,
                 attempt'[b].pc = "promote", attempt'[b].member = n
          PROVE  attempt'[b].version # 0 /\ attempt'[b].version \in Approved(n)'
      <3>1. CASE b = a
        BY <1>5, <2>2, <2>4, <3>1
      <3>2. CASE b # a
        BY <1>3, <2>1, <2>4, <3>2 DEF IInv, ApprovedBeforePromote
      <3>3. QED
        BY <3>1, <3>2
    <2>5. \A b \in Attempts : attempt'[b].pc = "commit" /\ attempt'[b].approved =>
              attempt'[b].version # 0
      BY <1>3, <1>5 DEF IInv, ApprovedBeforePromote
    <2>6. QED
      BY <2>3, <2>4, <2>5 DEF ApprovedBeforePromote
  <1>11. QED
    BY <1>1, <1>3, <1>7, <1>8, <1>9, <1>10, ChampionFrame DEF IInv

LEMMA PromoteInv ==
    ASSUME IInv, NEW a \in Attempts, Promote(a)
    PROVE  IInv'
  <1> DEFINE m == attempt[a].member
             v == attempt[a].version
  <1>1. TypeOK'
    BY AttemptStepType DEF IInv, AttemptStep
  <1>2. /\ attempt[a] \in AttemptState /\ attempt[a].pc = "promote"
        /\ attempt \in [Attempts -> AttemptState] /\ m \in Members /\ v \in Nat
        /\ champion \in [Members -> Nat]
    BY DEF IInv, TypeOK, Promote, AttemptState
  <1>3. /\ champion' = [champion EXCEPT ![m] = v]
        /\ UNCHANGED <<registered, audit, monitor>>
        /\ attempt'[a].pc \in {"idle", "train"}
        /\ \A b \in Attempts \ {a} : attempt'[b] = attempt[b]
    BY <1>2, NextMemberPc DEF Promote
  <1>4. v # 0 /\ v \in Approved(m)
    BY <1>2 DEF IInv, ApprovedBeforePromote
  <1>5. \A n \in Members : Approved(n)' = Approved(n)
    BY <1>3 DEF Approved, PromotedRows
  <1>6. VersionsRegistered'
    BY <1>3 DEF IInv, VersionsRegistered
  <1>7. UndecidedInFlight'
    BY <1>3 DEF IInv, UndecidedInFlight, Deciding
  <1>8. DecidedOnce'
    BY <1>3 DEF IInv, DecidedOnce
  <1>9. ApprovedBeforePromote'
    BY <1>3 DEF IInv, ApprovedBeforePromote, Approved, PromotedRows
  <1>10. ChampionNotAheadOfGate'
    BY <1>2, <1>3, <1>4, <1>5 DEF IInv, ChampionNotAheadOfGate
  <1>11. RollbackTargetOlder'
    BY <1>2, <1>3, <1>4, <1>5 DEF IInv, RollbackTargetOlder, TypeOK, MonitorState
  <1>12. QED
    BY <1>1, <1>6, <1>7, <1>8, <1>9, <1>10, <1>11 DEF IInv

LEMMA AttemptStepInv ==
    ASSUME IInv, NEW a \in Attempts, AttemptStep(a)
    PROVE  IInv'
  <1>1. TypeOK' /\ attempt \in [Attempts -> AttemptState]
    BY AttemptStepType DEF IInv, TypeOK
  <1>2. CASE StartRetraining(a)
    <2>1. /\ attempt'[a].pc = "train"
          /\ \A b \in Attempts \ {a} : attempt'[b] = attempt[b]
      BY <1>1, <1>2 DEF StartRetraining, IdleAttempt
    <2>2. QED
      BY <1>1, <1>2, <2>1, ResetInv DEF StartRetraining
  <1>3. CASE AttemptFails(a)
    <2>1. /\ attempt'[a].pc = "idle"
          /\ \A b \in Attempts \ {a} : attempt'[b] = attempt[b]
      BY <1>1, <1>3 DEF AttemptFails, IdleAttempt
    <2>2. QED
      BY <1>1, <1>3, <2>1, ResetInv DEF AttemptFails
  <1>4. QED
    BY <1>2, <1>3, TrainInv, EvaluateInv, CommitDecisionInv, PromoteInv DEF AttemptStep

-----------------------------------------------------------------------------
(* Steps of the rollback monitor *)

\* A step of a check that leaves the champion alone, and whose check, if it now
\* has a target, has one older than an approved version.
LEMMA CheckInv ==
    ASSUME IInv, TypeOK', NEW d \in Monitors,
           UNCHANGED <<registered, champion, attempt>>,
           \/ audit' = audit
           \/ \E row : row.event = "model.rollback" /\ audit' = audit \cup {row},
           \A e \in Monitors \ {d} : monitor'[e] = monitor[e],
           monitor'[d].pc \in {"current", "alias"} =>
               /\ monitor'[d].previous # 0 /\ champion[monitor'[d].member] # 0
               /\ \E p \in Approved(monitor[d].member) : monitor'[d].previous < p
               /\ monitor'[d].member = monitor[d].member
    PROVE  IInv'
  <1>1. /\ VersionsRegistered' /\ UndecidedInFlight'
        /\ DecidedOnce' /\ ApprovedBeforePromote'
        /\ \A m \in Members : Approved(m)' = Approved(m)
    BY AttemptsFrame
  <1>2. ChampionNotAheadOfGate'
    BY <1>1 DEF IInv, ChampionNotAheadOfGate
  <1>3. RollbackTargetOlder'
    <2> SUFFICES ASSUME NEW e \in Monitors, monitor'[e].pc \in {"current", "alias"}
                 PROVE  /\ monitor'[e].previous # 0 /\ champion[monitor'[e].member] # 0
                        /\ \A m \in Members : monitor'[e].member = m =>
                               \E p \in Approved(m)' : monitor'[e].previous < p
      BY DEF RollbackTargetOlder, TypeOK, MonitorState
    <2>1. CASE e = d
      BY <1>1, <2>1
    <2>2. CASE e # d
      BY <1>1, <2>2 DEF IInv, RollbackTargetOlder
    <2>3. QED
      BY <2>1, <2>2
  <1>4. QED
    BY <1>1, <1>2, <1>3 DEF IInv

LEMMA NextCheckPc ==
    ASSUME NEW d \in Monitors
    PROVE  NextCheck(d).pc \in {"idle", "measure"}
  BY DEF NextCheck, IdleMonitor

LEMMA GetPreviousVersionInv ==
    ASSUME IInv, NEW d \in Monitors, GetPreviousVersion(d)
    PROVE  IInv'
  <1> DEFINE m == monitor[d].member
  <1>1. /\ TypeOK' /\ monitor \in [Monitors -> MonitorState] /\ m \in Members
        /\ monitor[d] \in MonitorState /\ champion[m] \in Nat
    BY MonitorStepType DEF IInv, TypeOK, MonitorStep, MonitorState
  <1>2. /\ UNCHANGED <<registered, champion, attempt>>
        /\ \A e \in Monitors \ {d} : monitor'[e] = monitor[e]
    BY <1>1 DEF GetPreviousVersion
  <1>3. CASE Older(m) = {} /\ audit' = audit \cup {RollbackRow(m, 0, 0)}
                          /\ monitor' = [monitor EXCEPT ![d] = NextCheck(d)]
    <2>1. RollbackRow(m, 0, 0).event = "model.rollback"
      BY DEF RollbackRow
    <2>2. monitor'[d].pc \in {"idle", "measure"}
      BY <1>1, <1>3, NextCheckPc
    <2>3. QED
      BY <1>1, <1>2, <1>3, <2>1, <2>2, CheckInv
  <1>4. ASSUME NEW v \in Older(m), audit' = audit,
               monitor' = [monitor EXCEPT ![d] =
                   [@ EXCEPT !.pc = "current", !.previous = v]]
        PROVE  IInv'
    <2>1. v \in Nat /\ v # 0 /\ v < champion[m]
      BY <1>1 DEF Older, IInv, TypeOK
    <2>2. PICK p \in Approved(m) : champion[m] <= p
      BY <1>1, <2>1 DEF IInv, ChampionNotAheadOfGate
    <2>3. p \in Nat
      BY DEF Approved, PromotedRows, IInv, TypeOK, AuditRow
    <2>4. /\ monitor'[d].previous = v /\ monitor'[d].member = m
      BY <1>1, <1>4 DEF MonitorState
    <2>5. v < p /\ champion[m] # 0
      BY <1>1, <2>1, <2>2, <2>3
    <2>6. QED
      BY <1>1, <1>2, <1>4, <2>1, <2>4, <2>5, CheckInv
  <1>5. QED
    BY <1>3, <1>4 DEF GetPreviousVersion

LEMMA RollBackInv ==
    ASSUME IInv, NEW d \in Monitors, RollBack(d)
    PROVE  IInv'
  <1> DEFINE m == monitor[d].member
             v == monitor[d].previous
  <1>1. /\ TypeOK' /\ monitor \in [Monitors -> MonitorState] /\ m \in Members
        /\ v \in Nat /\ champion \in [Members -> Nat]
        /\ monitor[d] \in MonitorState
    BY MonitorStepType DEF IInv, TypeOK, MonitorStep, MonitorState
  <1>2. /\ champion' = [champion EXCEPT ![m] = v]
        /\ UNCHANGED <<registered, audit, attempt>>
        /\ monitor'[d].pc = "audit"
        /\ \A e \in Monitors \ {d} : monitor'[e] = monitor[e]
    BY <1>1 DEF RollBack, MonitorState
  <1>3. v # 0 /\ \E p \in Approved(m) : v < p
    BY DEF IInv, RollbackTargetOlder, RollBack
  <1>4. /\ VersionsRegistered' /\ UndecidedInFlight'
        /\ DecidedOnce' /\ ApprovedBeforePromote'
        /\ \A n \in Members : Approved(n)' = Approved(n)
    BY <1>2, AttemptsFrame
  <1>5. \A p \in Approved(m) : p \in Nat
    BY DEF Approved, PromotedRows, IInv, TypeOK, AuditRow
  <1>6. ChampionNotAheadOfGate'
    BY <1>1, <1>2, <1>3, <1>4, <1>5 DEF IInv, ChampionNotAheadOfGate
  <1>7. RollbackTargetOlder'
    <2> SUFFICES ASSUME NEW e \in Monitors, monitor'[e].pc \in {"current", "alias"}
                 PROVE  /\ monitor'[e].previous # 0 /\ champion'[monitor'[e].member] # 0
                        /\ \A n \in Members : monitor'[e].member = n =>
                               \E p \in Approved(n)' : monitor'[e].previous < p
      BY <1>1 DEF RollbackTargetOlder, TypeOK, MonitorState
    <2>1. e # d /\ monitor'[e] = monitor[e]
      BY <1>2
    <2>2. QED
      BY <1>1, <1>2, <1>3, <1>4, <2>1 DEF IInv, RollbackTargetOlder, TypeOK, MonitorState
  <1>8. QED
    BY <1>1, <1>4, <1>6, <1>7 DEF IInv

LEMMA MonitorStepInv ==
    ASSUME IInv, NEW d \in Monitors, MonitorStep(d)
    PROVE  IInv'
  <1>1. /\ TypeOK' /\ monitor \in [Monitors -> MonitorState]
        /\ monitor[d] \in MonitorState
    BY MonitorStepType DEF IInv, TypeOK
  <1>2. CASE StartCheck(d)
    <2>1. /\ monitor'[d].pc = "measure"
          /\ \A e \in Monitors \ {d} : monitor'[e] = monitor[e]
      BY <1>1, <1>2 DEF StartCheck, IdleMonitor
    <2>2. QED
      BY <1>1, <1>2, <2>1, CheckInv DEF StartCheck
  <1>3. CASE MeasureFpRate(d)
    <2>1. /\ monitor'[d].pc \in {"idle", "measure", "previous"}
          /\ \A e \in Monitors \ {d} : monitor'[e] = monitor[e]
      BY <1>1, <1>3, NextCheckPc DEF MeasureFpRate, MonitorState
    <2>2. QED
      BY <1>1, <1>3, <2>1, CheckInv DEF MeasureFpRate
  <1>4. CASE GetChampionVersion(d)
    <2>1. /\ monitor[d].pc = "current"
          /\ monitor'[d].previous = monitor[d].previous
          /\ monitor'[d].member = monitor[d].member
          /\ \A e \in Monitors \ {d} : monitor'[e] = monitor[e]
      BY <1>1, <1>4 DEF GetChampionVersion, MonitorState
    <2>2. /\ monitor[d].previous # 0 /\ champion[monitor[d].member] # 0
          /\ \E p \in Approved(monitor[d].member) : monitor[d].previous < p
      BY <2>1 DEF IInv, RollbackTargetOlder
    <2>3. UNCHANGED <<registered, champion, attempt, audit>>
      BY <1>4 DEF GetChampionVersion
    <2>4. QED
      BY <1>1, <2>1, <2>2, <2>3, CheckInv
  <1>5. CASE CommitRollback(d)
    <2> DEFINE row == RollbackRow(monitor[d].member, monitor[d].current,
                                  monitor[d].previous)
    <2>1. /\ monitor'[d].pc \in {"idle", "measure"}
          /\ \A e \in Monitors \ {d} : monitor'[e] = monitor[e]
      BY <1>1, <1>5, NextCheckPc DEF CommitRollback
    <2>2. row.event = "model.rollback" /\ audit' = audit \cup {row}
      BY <1>5 DEF CommitRollback, RollbackRow
    <2>3. UNCHANGED <<registered, champion, attempt>>
      BY <1>5 DEF CommitRollback
    <2>4. QED
      BY <1>1, <2>1, <2>2, <2>3, CheckInv
  <1>6. CASE CheckFails(d)
    <2>1. /\ monitor'[d].pc = "measure"
          /\ \A e \in Monitors \ {d} : monitor'[e] = monitor[e]
      BY <1>1, <1>6 DEF CheckFails, IdleMonitor
    <2>2. QED
      BY <1>1, <1>6, <2>1, CheckInv DEF CheckFails
  <1>7. QED
    BY <1>2, <1>3, <1>4, <1>5, <1>6, GetPreviousVersionInv, RollBackInv DEF MonitorStep

LEMMA InitIInv == Init => IInv
  <1> SUFFICES ASSUME Init PROVE IInv
    OBVIOUS
  <1>1. TypeOK
    BY IdleTypes DEF Init, TypeOK
  <1>2. QED
    BY <1>1 DEF Init, IInv, VersionsRegistered, UndecidedInFlight, Deciding, DecidedOnce,
       ApprovedBeforePromote, ChampionNotAheadOfGate, RollbackTargetOlder,
       IdleAttempt, IdleMonitor

LEMMA NextIInv == IInv /\ [Next]_vars => IInv'
  <1> SUFFICES ASSUME IInv, [Next]_vars PROVE IInv'
    OBVIOUS
  <1>1. CASE Label \/ LabelsExpire
    <2>1. TypeOK' /\ UNCHANGED <<registered, champion, audit, attempt, monitor>>
      BY <1>1, LabelStepType DEF IInv, Label, LabelsExpire
    <2>2. QED
      BY <2>1, AttemptsFrame, ChampionFrame DEF IInv
  <1>2. CASE UNCHANGED vars
    <2>1. UNCHANGED <<registered, champion, audit, attempt, monitor>> /\ TypeOK'
      BY <1>2 DEF vars, IInv, TypeOK
    <2>2. QED
      BY <2>1, AttemptsFrame, ChampionFrame DEF IInv
  <1>3. QED
    BY <1>1, <1>2, AttemptStepInv, MonitorStepInv DEF Next

LEMMA Inductive == Spec => []IInv
  BY InitIInv, NextIInv, PTL DEF Spec

\* The champion is never newer than everything the gate has approved, for every
\* number of overlapping attempts, retries, crashes and rollbacks.
THEOREM ChampionSafe == Spec => []ChampionNotAheadOfGate
  <1>1. IInv => ChampionNotAheadOfGate
    BY DEF IInv
  <1>2. QED
    BY <1>1, Inductive, PTL

\* No registered version is decided twice by PromotionGate.evaluate.
THEOREM DecisionsUnique == Spec => []DecidedOnce
  <1>1. IInv => DecidedOnce
    BY DEF IInv
  <1>2. QED
    BY <1>1, Inductive, PTL

-----------------------------------------------------------------------------
(* Moves of the alias, and the contract *)

\* What a step does to the alias of a member: nothing, a promotion of an approved
\* version, or a rollback to a version older than an approved one.
LEMMA AliasStep ==
    ASSUME IInv, [Next]_vars
    PROVE  \/ champion' = champion
           \/ \E m \in Members : \E v \in Approved(m) :
                 /\ champion' = [champion EXCEPT ![m] = v]
                 /\ audit' = audit
           \/ \E d \in Monitors :
                 /\ monitor'[d].pc = "audit"
                 /\ monitor'[d].previous = monitor[d].previous
                 /\ monitor'[d].member = monitor[d].member
                 /\ champion[monitor[d].member] # 0
                 /\ monitor[d].previous # 0
                 /\ \E p \in Approved(monitor[d].member) : monitor[d].previous < p
                 /\ champion' = [champion EXCEPT ![monitor[d].member] =
                                    monitor[d].previous]
                 /\ audit' = audit
  <1>1. ASSUME NEW a \in Attempts, Promote(a)
        PROVE  \E m \in Members : \E v \in Approved(m) :
                 champion' = [champion EXCEPT ![m] = v] /\ audit' = audit
    <2>1. attempt[a].member \in Members
      BY DEF IInv, TypeOK, AttemptState
    <2>2. attempt[a].version \in Approved(attempt[a].member)
      BY <1>1 DEF Promote, IInv, ApprovedBeforePromote
    <2>3. QED
      BY <1>1, <2>1, <2>2 DEF Promote
  <1>2. ASSUME NEW d \in Monitors, RollBack(d)
        PROVE  /\ monitor'[d].pc = "audit"
               /\ monitor'[d].previous = monitor[d].previous
               /\ monitor'[d].member = monitor[d].member
               /\ champion[monitor[d].member] # 0
               /\ monitor[d].previous # 0
               /\ \E p \in Approved(monitor[d].member) : monitor[d].previous < p
               /\ champion' = [champion EXCEPT ![monitor[d].member] = monitor[d].previous]
               /\ audit' = audit
    <2>1. monitor \in [Monitors -> MonitorState] /\ monitor[d] \in MonitorState
      BY DEF IInv, TypeOK
    <2>2. QED
      BY <1>2, <2>1 DEF RollBack, IInv, RollbackTargetOlder, MonitorState
  <1>3. ASSUME NEW a \in Attempts, AttemptStep(a), ~ Promote(a) PROVE champion' = champion
    BY <1>3 DEF AttemptStep, StartRetraining, Train, Evaluate, CommitDecision, AttemptFails
  <1>4. ASSUME NEW d \in Monitors, MonitorStep(d), ~ RollBack(d) PROVE champion' = champion
    BY <1>4 DEF MonitorStep, StartCheck, MeasureFpRate, GetPreviousVersion,
       GetChampionVersion, CommitRollback, CheckFails
  <1>5. QED
    BY <1>1, <1>2, <1>3, <1>4 DEF Next, vars, Label, LabelsExpire

\* Every move of the alias goes to a version whose approval is on the audit
\* trail, or is made by a check that goes on to log its rollback.
THEOREM AliasAccounted == Spec => AliasMovesAccounted
  <1> DEFINE A == \A m \in Members : champion'[m] # champion[m] =>
                     \/ champion'[m] \in Approved(m)
                     \/ \E d \in Monitors : /\ monitor'[d].pc = "audit"
                                            /\ monitor'[d].member = m
                                            /\ monitor'[d].previous = champion'[m]
  <1>1. IInv /\ [Next]_vars => [A]_vars
    <2> SUFFICES ASSUME IInv, [Next]_vars, NEW m \in Members, champion'[m] # champion[m]
                 PROVE  \/ champion'[m] \in Approved(m)
                        \/ \E d \in Monitors : /\ monitor'[d].pc = "audit"
                                               /\ monitor'[d].member = m
                                               /\ monitor'[d].previous = champion'[m]
      OBVIOUS
    <2>1. champion \in [Members -> Nat]
          /\ \A d \in Monitors : monitor[d].member \in Members
      BY DEF IInv, TypeOK, MonitorState
    <2>2. QED
      BY <2>1, AliasStep
  <1>2. QED
    BY <1>1, Inductive, PTL DEF Spec, AliasMovesAccounted

\* What a step adds to the approvals: nothing, or one registered version that
\* had not been decided.
LEMMA ApprovalStep ==
    ASSUME IInv, [Next]_vars
    PROVE  \/ \A m \in Members : Approved(m)' = Approved(m)
           \/ \E a \in Attempts :
                 /\ champion' = champion
                 /\ attempt[a].version \in (1..MaxVersions) \ Approved(attempt[a].member)
                 /\ \A m \in Members : Approved(m)' =
                        IF m = attempt[a].member
                        THEN Approved(m) \cup {attempt[a].version} ELSE Approved(m)
  <1>1. ASSUME NEW a \in Attempts, CommitDecision(a), attempt[a].approved
        PROVE  /\ champion' = champion
               /\ attempt[a].version \in (1..MaxVersions) \ Approved(attempt[a].member)
               /\ \A m \in Members : Approved(m)' =
                        IF m = attempt[a].member
                        THEN Approved(m) \cup {attempt[a].version} ELSE Approved(m)
    <2> DEFINE row == DecisionRow(attempt[a])
    <2>1. /\ attempt[a] \in AttemptState /\ attempt[a].pc = "commit"
          /\ attempt[a].member \in Members /\ attempt[a].version \in Nat
          /\ audit' = audit \cup {row} /\ champion' = champion
      BY <1>1 DEF IInv, TypeOK, AttemptState, CommitDecision
    <2>2. /\ row.event = "model.promoted" /\ row.member = attempt[a].member
          /\ row.version = attempt[a].version
      BY <1>1 DEF DecisionRow
    <2>3. attempt[a].version # 0
      BY <1>1, <2>1 DEF IInv, ApprovedBeforePromote
    <2>4. attempt[a].version <= MaxVersions
      BY <2>1 DEF IInv, VersionsRegistered, TypeOK
    <2>5. attempt[a].version \notin Approved(attempt[a].member)
      BY <2>1, <2>3 DEF IInv, UndecidedInFlight, Deciding, Approved, PromotedRows
    <2>6. \A m \in Members : Approved(m)' =
              IF m = attempt[a].member
              THEN Approved(m) \cup {attempt[a].version} ELSE Approved(m)
      <3> SUFFICES ASSUME NEW m \in Members
                   PROVE  Approved(m)' = IF m = attempt[a].member
                            THEN Approved(m) \cup {attempt[a].version} ELSE Approved(m)
        OBVIOUS
      <3>1. PromotedRows(m)' = IF m = attempt[a].member
                               THEN PromotedRows(m) \cup {row} ELSE PromotedRows(m)
        BY <2>1, <2>2 DEF PromotedRows
      <3>2. QED
        BY <2>2, <3>1 DEF Approved
    <2>7. QED
      BY <2>1, <2>3, <2>4, <2>5, <2>6
  <1>2. ASSUME NEW a \in Attempts, CommitDecision(a), ~ attempt[a].approved
        PROVE  \A m \in Members : Approved(m)' = Approved(m)
    <2>1. /\ audit' = audit \cup {DecisionRow(attempt[a])}
          /\ DecisionRow(attempt[a]).event # "model.promoted"
      BY <1>2 DEF CommitDecision, DecisionRow
    <2>2. QED
      BY <2>1, ApprovedFrame
  <1>3. ASSUME NEW a \in Attempts, AttemptStep(a), ~ CommitDecision(a) PROVE audit' = audit
    BY <1>3 DEF AttemptStep, StartRetraining, Train, Evaluate, Promote, AttemptFails
  <1>4. ASSUME NEW d \in Monitors, MonitorStep(d)
        PROVE  \/ audit' = audit
               \/ \E row : row.event = "model.rollback" /\ audit' = audit \cup {row}
    <2>1. \A n, f, t : RollbackRow(n, f, t).event = "model.rollback"
      BY DEF RollbackRow
    <2>2. CASE GetPreviousVersion(d)
      BY <2>1, <2>2 DEF GetPreviousVersion
    <2>3. CASE CommitRollback(d)
      BY <2>1, <2>3 DEF CommitRollback
    <2>4. QED
      BY <1>4, <2>2, <2>3 DEF MonitorStep, StartCheck, MeasureFpRate,
         GetChampionVersion, RollBack, CheckFails
  <1>5. audit' = audit => \A m \in Members : Approved(m)' = Approved(m)
    BY DEF Approved, PromotedRows
  <1>6. ASSUME NEW row, row.event = "model.rollback", audit' = audit \cup {row}
        PROVE  \A m \in Members : Approved(m)' = Approved(m)
    BY <1>6, ApprovedFrame
  <1>7. CASE \E a \in Attempts : AttemptStep(a)
    BY <1>1, <1>2, <1>3, <1>5, <1>7
  <1>8. CASE \E d \in Monitors : MonitorStep(d)
    BY <1>4, <1>5, <1>6, <1>8
  <1>9. CASE Label \/ LabelsExpire \/ UNCHANGED vars
    BY <1>5, <1>9 DEF Label, LabelsExpire, vars
  <1>10. QED
    BY <1>7, <1>8, <1>9 DEF Next

\* The retraining activities and the rollback monitor, over the two stores they
\* write, implement the contract of the champion alias.
THEOREM ContractImplemented == Spec => ImplementsContract
  <1> DEFINE approvedBar == [m \in Members |-> Approved(m)]
  <1>1. Init => Contract!Init
    BY DEF Init, Contract!Init, Approved, PromotedRows
  <1>2. IInv /\ [Next]_vars => [Contract!Next]_<<approvedBar, champion>>
    <2> SUFFICES ASSUME IInv, [Next]_vars
                 PROVE  Contract!Next \/ UNCHANGED <<approvedBar, champion>>
      OBVIOUS
    <2>1. CASE \E a \in Attempts :
                 /\ champion' = champion
                 /\ attempt[a].version \in (1..MaxVersions) \ Approved(attempt[a].member)
                 /\ \A m \in Members : Approved(m)' =
                        IF m = attempt[a].member
                        THEN Approved(m) \cup {attempt[a].version} ELSE Approved(m)
      <3>1. PICK a \in Attempts :
                 /\ champion' = champion
                 /\ attempt[a].version \in (1..MaxVersions) \ Approved(attempt[a].member)
                 /\ \A m \in Members : Approved(m)' =
                        IF m = attempt[a].member
                        THEN Approved(m) \cup {attempt[a].version} ELSE Approved(m)
        BY <2>1
      <3>2. attempt[a].member \in Members
        BY DEF IInv, TypeOK, AttemptState
      <3>3. Contract!Approve(attempt[a].member)
        BY <3>1, <3>2 DEF Contract!Approve
      <3>4. QED
        BY <3>2, <3>3 DEF Contract!Next
    <2>2. CASE \A m \in Members : Approved(m)' = Approved(m)
      <3>1. approvedBar' = approvedBar
        BY <2>2
      <3>2. ASSUME NEW m \in Members, NEW v \in Approved(m),
                   champion' = [champion EXCEPT ![m] = v]
            PROVE  Contract!Promote(m)
        BY <3>1, <3>2 DEF Contract!Promote
      <3>3. ASSUME NEW d \in Monitors, champion[monitor[d].member] # 0,
                   monitor[d].previous # 0, NEW p \in Approved(monitor[d].member),
                   monitor[d].previous < p,
                   champion' = [champion EXCEPT ![monitor[d].member] = monitor[d].previous]
            PROVE  Contract!Rollback(monitor[d].member)
        <4>1. monitor[d].member \in Members /\ monitor[d].previous \in Nat
          BY DEF IInv, TypeOK, MonitorState
        <4>2. p \in Nat
          BY DEF Approved, PromotedRows, IInv, TypeOK, AuditRow
        <4>3. monitor[d].previous \in 1..(p - 1)
          BY <3>3, <4>1, <4>2
        <4>4. QED
          BY <3>1, <3>3, <4>1, <4>3 DEF Contract!Rollback
      <3>4. \A d \in Monitors : monitor[d].member \in Members
        BY DEF IInv, TypeOK, MonitorState
      <3>5. QED
        BY <3>1, <3>2, <3>3, <3>4, AliasStep DEF Contract!Next
    <2>3. QED
      BY <2>1, <2>2, ApprovalStep
  <1>3. QED
    BY <1>1, <1>2, Inductive, PTL DEF Spec, ImplementsContract, Contract!Spec

-----------------------------------------------------------------------------
(* The review requirement *)

ReviewInv ==
    ReviewFirstN > 0 =>
        /\ \A m \in Members : PromotedRows(m) = {}
        /\ \A a \in Attempts : attempt[a].pc = "commit" => ~ attempt[a].approved

LEMMA ReviewInductive == Spec => [](IInv /\ ReviewInv)
  <1>1. Init => ReviewInv
    BY DEF Init, ReviewInv, PromotedRows, IdleAttempt
  <1>2. IInv /\ ReviewInv /\ [Next]_vars => ReviewInv'
    <2> SUFFICES ASSUME IInv, ReviewInv, [Next]_vars, ReviewFirstN > 0
                 PROVE  /\ \A m \in Members : PromotedRows(m)' = {}
                        /\ \A a \in Attempts : attempt'[a].pc = "commit" =>
                               ~ attempt'[a].approved
      BY DEF ReviewInv
    <2>1. /\ \A m \in Members : PromotedRows(m) = {}
          /\ \A a \in Attempts : attempt[a].pc = "commit" => ~ attempt[a].approved
          /\ attempt \in [Attempts -> AttemptState]
      BY DEF ReviewInv, IInv, TypeOK
    <2>2. \A m \in Members : PromotedRows(m)' = {}
      <3>1. \A m \in Members : Approved(m) = {}
        BY <2>1 DEF Approved
      <3>2. ASSUME NEW r \in audit', r.event = "model.promoted" PROVE r \in audit
        <4>1. CASE \E a \in Attempts : CommitDecision(a)
          <5>1. PICK a \in Attempts : CommitDecision(a)
            BY <4>1
          <5>2. DecisionRow(attempt[a]).event # "model.promoted"
            BY <2>1, <5>1 DEF CommitDecision, DecisionRow
          <5>3. QED
            BY <3>2, <5>1, <5>2 DEF CommitDecision
        <4>2. CASE \E d \in Monitors : GetPreviousVersion(d) \/ CommitRollback(d)
          <5>1. \A n, f, t : RollbackRow(n, f, t).event # "model.promoted"
            BY DEF RollbackRow
          <5>2. \A d \in Monitors : GetPreviousVersion(d) =>
                  \/ audit' = audit
                  \/ audit' = audit \cup {RollbackRow(monitor[d].member, 0, 0)}
            BY DEF GetPreviousVersion
          <5>3. \A d \in Monitors : CommitRollback(d) =>
                  audit' = audit \cup {RollbackRow(monitor[d].member,
                               monitor[d].current, monitor[d].previous)}
            BY DEF CommitRollback
          <5>4. QED
            BY <3>2, <4>2, <5>1, <5>2, <5>3
        <4>3. CASE audit' = audit
          BY <4>3
        <4>4. QED
          BY <4>1, <4>2, <4>3 DEF Next, vars, AttemptStep, MonitorStep, Label,
             LabelsExpire, StartRetraining, Train, Evaluate, Promote, AttemptFails,
             StartCheck, MeasureFpRate, GetChampionVersion, RollBack, CheckFails
      <3>3. QED
        BY <2>1, <3>2 DEF PromotedRows
    <2>3. ASSUME NEW a \in Attempts, attempt'[a].pc = "commit"
          PROVE  ~ attempt'[a].approved
      <3>1. CASE Evaluate(a)
        <4>1. count_promotions(attempt[a].member) < ReviewFirstN
          <5>1. attempt[a].member \in Members
            BY DEF IInv, TypeOK, AttemptState
          <5>2. count_promotions(attempt[a].member) = 0
            BY <2>1, <5>1, FS_EmptySet DEF count_promotions
          <5>3. QED
            BY <5>2
        <4>2. QED
          BY <2>1, <3>1, <4>1 DEF Evaluate, AttemptState
      <3>2. CASE attempt'[a] = attempt[a]
        BY <2>1, <2>3, <3>2
      <3>3. ASSUME AttemptStep(a), ~ Evaluate(a) PROVE attempt'[a].pc # "commit"
        <4>1. attempt[a] \in AttemptState
          BY <2>1
        <4>2. CASE StartRetraining(a) \/ AttemptFails(a)
          BY <2>1, <4>2 DEF StartRetraining, AttemptFails, IdleAttempt
        <4>3. CASE Train(a)
          BY <2>1, <4>1, <4>3 DEF Train, AttemptState
        <4>4. CASE CommitDecision(a)
          BY <2>1, <4>1, <4>4, NextMemberPc DEF CommitDecision, AttemptState
        <4>5. CASE Promote(a)
          BY <2>1, <4>5, NextMemberPc DEF Promote
        <4>6. QED
          BY <3>3, <4>2, <4>3, <4>4, <4>5 DEF AttemptStep
      <3>4. ASSUME NEW b \in Attempts \ {a}, AttemptStep(b) PROVE attempt'[a] = attempt[a]
        BY <2>1, <3>4 DEF AttemptStep, StartRetraining, Train, Evaluate,
           CommitDecision, Promote, AttemptFails
      <3>5. ASSUME NEW d \in Monitors, MonitorStep(d) PROVE attempt'[a] = attempt[a]
        BY <3>5 DEF MonitorStep, StartCheck, MeasureFpRate, GetPreviousVersion,
           GetChampionVersion, RollBack, CommitRollback, CheckFails
      <3>6. QED
        BY <2>3, <3>1, <3>2, <3>3, <3>4, <3>5 DEF Next, vars, Label, LabelsExpire
    <2>4. QED
      BY <2>2, <2>3
  <1>3. QED
    BY <1>1, <1>2, InitIInv, NextIInv, PTL DEF Spec

\* With any positive review requirement, the default being 3, no version is ever
\* promoted: count_promotions counts rows that only a promotion writes.
THEOREM ReviewForever == Spec => []ReviewBlocksPromotion
  <1>1. IInv /\ ReviewInv => ReviewBlocksPromotion
    BY DEF IInv, ReviewInv, ReviewBlocksPromotion, ChampionNotAheadOfGate, Approved
  <1>2. QED
    BY <1>1, ReviewInductive, PTL

=============================================================================
