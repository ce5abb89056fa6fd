-------------------------- MODULE WithdrawalProofs --------------------------
(***************************************************************************)
(* The safety properties of Withdrawal for any number of accounts, Kakao   *)
(* identities, requests and recovery workers, stalled requests included.   *)
(*                                                                         *)
(* RecoveryStateSurvives is not inductive: it must be known that a worker  *)
(* about to call Kakao still has a row to come back to.  IInv adds what a  *)
(* worker knows of the row it holds.                                       *)
(***************************************************************************)
EXTENDS Withdrawal, TLAPS

USE DEF Active, At, Step, Fail, Processes

(* Steps at which a process holds a row, and those before a request has    *)
(* inserted one.                                                           *)
RowSteps == {"recheck", "recheckUnlinked", "unlink", "mark", "finalize",
             "commit"}
EarlySteps == {"begin", "checkAttempt", "deleteLocal", "consumeState",
               "readIdentity", "createAttempt"}

(* A worker's row is there as long as the account is: rows go only with    *)
(* their account.                                                          *)
HeldRowExists ==
    \A p \in Processes : pc[p] \in RowSteps =>
        /\ RowOf(p) \in Requests
        /\ account[target[RowOf(p)]] # "deleted" => attempt[RowOf(p)] # "none"

(* A row is marked only after Kakao's answer, and finalized only marked.   *)
MarkFollowsSever ==
    \A p \in Processes : pc[p] = "mark" => target[RowOf(p)] \in severed

CommitFollowsMark ==
    \A p \in Processes :
        pc[p] = "commit" => attempt[RowOf(p)] # "UNLINK_PENDING"

(* Nobody works on the row of a request that has not inserted it.          *)
EarlyRequestHasNoRow ==
    \A r \in Requests : pc[r] \in EarlySteps =>
        /\ attempt[r] = "none"
        /\ \A c \in Reconcilers : working[c] # r

SeveredKeepsRow ==
    \A a \in severed : account[a] # "deleted" => HasAttempt(a)

IInv ==
    /\ TypeOK
    /\ HeldRowExists
    /\ MarkFollowsSever
    /\ CommitFollowsMark
    /\ EarlyRequestHasNoRow
    /\ SeveredKeepsRow
    /\ UnlinkedMeansSevered
    /\ AuditMatchesDeletion

-----------------------------------------------------------------------------
(* The steps of the environment and of the processes keep the types.       *)
LEMMA TypeStep ==
    ASSUME TypeOK, HeldRowExists, [Next]_vars
    PROVE  TypeOK'
<1> USE BoundsAreNat DEF TypeOK, RequestSteps, RecoverySteps, SharedSteps,
                         RowStatus
<1>1. CASE Environment
  <2>1. ASSUME NEW a \in Accounts, SignUp(a) PROVE TypeOK'
    BY <2>1 DEF SignUp, stateVars, requestVars, ghostVars
  <2>2. ASSUME NEW a \in Accounts, ChangePassword(a) PROVE TypeOK'
    BY <2>2 DEF ChangePassword, stateVars, requestVars, ghostVars
  <2>3. ASSUME NEW a \in Accounts, StartKakaoWithdrawal(a) PROVE TypeOK'
    BY <2>3 DEF StartKakaoWithdrawal, userVars, requestVars, ghostVars
  <2>4. ASSUME NEW a \in Accounts, ExpireState(a) PROVE TypeOK'
    BY <2>4 DEF ExpireState, userVars, requestVars, ghostVars
  <2>5. ASSUME NEW a \in Accounts, NEW k \in KakaoIds, KakaoSignUp(a, k)
        PROVE  TypeOK'
    BY <2>5 DEF KakaoSignUp, stateVars, requestVars, ghostVars
  <2>6. ASSUME NEW a \in Accounts, NEW k \in KakaoIds, CompleteKakaoLink(a, k)
        PROVE  TypeOK'
    BY <2>6 DEF CompleteKakaoLink, stateVars, requestVars, ghostVars
  <2>7. ASSUME NEW k \in KakaoIds, KakaoConsent(k) PROVE TypeOK'
    BY <2>7 DEF KakaoConsent, userVars, stateVars, requestVars, ghostVars
  <2> QED BY <1>1, <2>1, <2>2, <2>3, <2>4, <2>5, <2>6, <2>7 DEF Environment
<1>2. ASSUME NEW r \in Requests, RequestStep(r) PROVE TypeOK'
  <2>1. CASE Begin(r)
    BY <2>1 DEF Begin, userVars, stateVars, ghostVars
  <2>2. CASE CheckAttempt(r)
    BY <2>2 DEF CheckAttempt, userVars, stateVars, requestVars, ghostVars
  <2>3. CASE DeleteLocalUser(r)
    <3>1. target[r] \in Accounts /\ audits[target[r]] + 1 \in Nat
      OBVIOUS
    <3>2. CASE LocalDeleteMatches(r)
      BY <2>3, <3>1, <3>2 DEF DeleteLocalUser, DropAccount, requestVars
    <3>3. CASE ~LocalDeleteMatches(r)
      BY <2>3, <3>3 DEF DeleteLocalUser, requestVars
    <3> QED BY <3>2, <3>3
  <2>4. CASE ConsumeState(r)
    <3>1. /\ \/ /\ liveState' = [liveState EXCEPT ![target[r]] = FALSE]
                /\ accepted' = accepted \cup {r}
             \/ UNCHANGED <<liveState, accepted>>
          /\ UNCHANGED <<userVars, issuedState, attempt, connected, requestVars,
                         working, audits, severed>>
      BY <2>4, Zenon DEF ConsumeState
    <3>2. \E next \in {"readIdentity", "done"} : pc' = [pc EXCEPT ![r] = next]
      BY <2>4 DEF ConsumeState
    <3>3. accepted' \in SUBSET Requests
      BY <3>1
    <3>4. liveState' \in [Accounts -> BOOLEAN]
      BY <3>1
    <3>5. pc' \in [Processes -> RequestSteps \cup RecoverySteps \cup SharedSteps]
      BY <3>2
    <3> QED BY <3>1, <3>3, <3>4, <3>5 DEF userVars, requestVars
  <2>5. CASE ReadIdentity(r)
    BY <2>5 DEF ReadIdentity, userVars, stateVars, requestVars, ghostVars
  <2>6. CASE CreateAttempt(r)
    BY <2>6 DEF CreateAttempt, userVars, stateVars, requestVars, ghostVars
  <2> QED BY <1>2, <2>1, <2>2, <2>3, <2>4, <2>5, <2>6 DEF RequestStep
<1>3. ASSUME NEW c \in Reconcilers, RecoveryStep(c) PROVE TypeOK'
  <2>1. CASE PickAttempt(c)
    BY <2>1 DEF PickAttempt, userVars, stateVars, requestVars, ghostVars
  <2>2. CASE NextAttempt(c)
    BY <2>2 DEF NextAttempt, userVars, stateVars, requestVars, ghostVars
  <2> QED BY <1>3, <2>1, <2>2 DEF RecoveryStep
<1>4. ASSUME NEW p \in Processes, FinishStep(p) \/ Interrupt(p) PROVE TypeOK'
  <2>1. CASE Recheck(p)
    BY <2>1 DEF Recheck, userVars, stateVars, requestVars, ghostVars
  <2>2. CASE Unlink(p)
    <3>1. target[RowOf(p)] \in Accounts
      BY <2>2 DEF Unlink, HeldRowExists, RowSteps
    <3>2. QED
      BY <2>2, <3>1 DEF Unlink, userVars, stateVars, requestVars
  <2>3. CASE Mark(p)
    BY <2>3 DEF Mark, MarkedStatus, userVars, stateVars, requestVars, ghostVars
  <2>4. CASE FinalizeRead(p)
    BY <2>4 DEF FinalizeRead, userVars, stateVars, requestVars, ghostVars
  <2>5. CASE FinalizeCommit(p)
    <3>1. RowOf(p) \in Requests
      BY <2>5 DEF FinalizeCommit, HeldRowExists, RowSteps
    <3>2. /\ target[RowOf(p)] \in Accounts
          /\ audits[target[RowOf(p)]] + 1 \in Nat
      BY <3>1
    <3>3. CASE CommitMatches(RowOf(p))
      <4>1. account' \in [Accounts -> {"absent", "active", "deleted"}]
        BY <2>5, <3>3 DEF FinalizeCommit, DropAccount
      <4>2. /\ liveState' \in [Accounts -> BOOLEAN]
            /\ attempt' \in [Requests -> RowStatus]
            /\ pc' \in [Processes ->
                          RequestSteps \cup RecoverySteps \cup SharedSteps]
        BY <2>5, <3>3 DEF FinalizeCommit, DropAccount
      <4>3. audits' \in [Accounts -> Nat]
        BY <2>5, <3>2, <3>3 DEF FinalizeCommit, DropAccount
      <4> QED BY <2>5, <4>1, <4>2, <4>3 DEF FinalizeCommit, requestVars
    <3>4. CASE ~CommitMatches(RowOf(p))
      BY <2>5, <3>4 DEF FinalizeCommit, requestVars
    <3> QED BY <3>3, <3>4
  <2>6. CASE Interrupt(p)
    BY <2>6 DEF Interrupt, userVars, stateVars, requestVars, ghostVars
  <2> QED BY <1>4, <2>1, <2>2, <2>3, <2>4, <2>5, <2>6 DEF FinishStep
<1>5. CASE UNCHANGED vars
  BY <1>5 DEF vars, userVars, stateVars, requestVars, ghostVars
<1> QED BY <1>1, <1>2, <1>3, <1>4, <1>5 DEF Next

-----------------------------------------------------------------------------
LEMMA InitEstablishesIInv == Init => IInv
  BY BoundsAreNat, NullsDistinct
     DEF Init, IInv, TypeOK, RequestSteps, RecoverySteps, SharedSteps,
         RowStatus, HeldRowExists, RowSteps, MarkFollowsSever,
         CommitFollowsMark, EarlyRequestHasNoRow, SeveredKeepsRow,
         UnlinkedMeansSevered, AuditMatchesDeletion

(* What the other handlers do to an account: it may come to exist, and     *)
(* nothing of a withdrawal changes.                                        *)
OnlyBirths ==
    /\ UNCHANGED <<attempt, pc, target, working, severed, audits>>
    /\ \A a \in Accounts : \/ account'[a] = account[a]
                           \/ account[a] = "absent" /\ account'[a] = "active"

LEMMA EnvironmentEffect ==
    ASSUME IInv, Environment
    PROVE  OnlyBirths
<1> USE DEF OnlyBirths, IInv, TypeOK, userVars, requestVars, ghostVars
<1>1. ASSUME NEW a \in Accounts, SignUp(a) PROVE OnlyBirths
  BY <1>1 DEF SignUp
<1>2. ASSUME NEW a \in Accounts, NEW k \in KakaoIds, KakaoSignUp(a, k)
      PROVE  OnlyBirths
  BY <1>2 DEF KakaoSignUp
<1>3. ASSUME NEW a \in Accounts,
             \/ ChangePassword(a)
             \/ StartKakaoWithdrawal(a)
             \/ ExpireState(a)
             \/ \E k \in KakaoIds : CompleteKakaoLink(a, k)
      PROVE  OnlyBirths
  BY <1>3 DEF ChangePassword, StartKakaoWithdrawal, ExpireState,
              CompleteKakaoLink
<1>4. ASSUME NEW k \in KakaoIds, KakaoConsent(k) PROVE OnlyBirths
  BY <1>4 DEF KakaoConsent
<1> QED BY <1>1, <1>2, <1>3, <1>4 DEF Environment

LEMMA EnvironmentStep ==
    ASSUME IInv, Environment
    PROVE  IInv'
<1>1. OnlyBirths
  BY EnvironmentEffect
<1>2. TypeOK'
  BY TypeStep DEF IInv, Next
<1>3. \A r \in Requests : target[r] \in Accounts
  BY DEF IInv, TypeOK
<1>4. \A p \in Processes : RowOf(p)' = RowOf(p)
  BY <1>1 DEF OnlyBirths, RowOf
<1>5. HeldRowExists' /\ MarkFollowsSever' /\ CommitFollowsMark'
  BY <1>1, <1>3, <1>4
     DEF OnlyBirths, IInv, HeldRowExists, MarkFollowsSever, CommitFollowsMark
<1>6. EarlyRequestHasNoRow' /\ UnlinkedMeansSevered'
  BY <1>1 DEF OnlyBirths, IInv, EarlyRequestHasNoRow, UnlinkedMeansSevered
<1>7. SeveredKeepsRow' /\ AuditMatchesDeletion'
  BY <1>1 DEF OnlyBirths, IInv, TypeOK, SeveredKeepsRow, HasAttempt, AuditMatchesDeletion
<1> QED BY <1>2, <1>5, <1>6, <1>7 DEF IInv

(* A step that moves one process and touches neither rows nor accounts     *)
(* keeps IInv if what IInv says of the process at its next step holds.     *)
Moves(p, next) ==
    /\ Step(p, next)
    /\ UNCHANGED <<account, attempt, target, working, severed, audits>>

LEMMA MoveStep ==
    ASSUME IInv, TypeOK', NEW p \in Processes, NEW next, Moves(p, next),
           next \in RowSteps => pc[p] \in RowSteps,
           next = "mark" => target[RowOf(p)] \in severed,
           next = "commit" => attempt[RowOf(p)] # "UNLINK_PENDING",
           next \in EarlySteps => pc[p] \in EarlySteps
    PROVE  IInv'
<1>1. /\ UNCHANGED <<account, attempt, target, working, severed, audits>>
      /\ pc'[p] = next
      /\ \A q \in Processes \ {p} : pc'[q] = pc[q]
  BY DEF Moves, IInv, TypeOK
<1>2. \A q \in Processes : RowOf(q)' = RowOf(q)
  BY <1>1 DEF RowOf
<1>3. HeldRowExists'
  BY <1>1, <1>2 DEF IInv, HeldRowExists
<1>4. MarkFollowsSever' /\ CommitFollowsMark'
  BY <1>1, <1>2 DEF IInv, MarkFollowsSever, CommitFollowsMark
<1>5. EarlyRequestHasNoRow'
  BY <1>1 DEF IInv, EarlyRequestHasNoRow
<1>6. SeveredKeepsRow' /\ UnlinkedMeansSevered' /\ AuditMatchesDeletion'
  BY <1>1 DEF IInv, SeveredKeepsRow, HasAttempt, UnlinkedMeansSevered,
              AuditMatchesDeletion
<1> QED BY <1>3, <1>4, <1>5, <1>6 DEF IInv

(* deleteUser: only the local deletion and the insertion of the row do     *)
(* more than move the request.                                             *)
LEMMA RequestPreservesIInv ==
    ASSUME IInv, NEW r \in Requests, RequestStep(r)
    PROVE  IInv'
<1>1. TypeOK'
  BY TypeStep DEF IInv, Next
<1>2. target[r] \in Accounts /\ r \in Processes /\ RowOf(r) = r
  BY DEF IInv, TypeOK, RowOf
<1>3. CASE Begin(r)
  <2>1. Moves(r, "checkAttempt") \/ Moves(r, "done")
    BY <1>3 DEF Begin, Moves, userVars, ghostVars
  <2> QED BY <1>1, <1>2, <1>3, <2>1, MoveStep DEF Begin, RowSteps, EarlySteps
<1>4. CASE CheckAttempt(r)
  <2>1. \E next \in {"deleteLocal", "createAttempt", "consumeState", "done"} :
            Moves(r, next)
    BY <1>4 DEF CheckAttempt, Moves, userVars, requestVars, ghostVars
  <2> QED BY <1>1, <1>2, <1>4, <2>1, MoveStep
             DEF CheckAttempt, RowSteps, EarlySteps
<1>5. CASE ConsumeState(r)
  <2>1. Moves(r, "readIdentity") \/ Moves(r, "done")
    BY <1>5 DEF ConsumeState, Moves, userVars, requestVars, ghostVars
  <2> QED BY <1>1, <1>2, <1>5, <2>1, MoveStep
             DEF ConsumeState, RowSteps, EarlySteps
<1>6. CASE ReadIdentity(r)
  <2>1. Moves(r, "createAttempt") \/ Moves(r, "done")
    BY <1>6 DEF ReadIdentity, Moves, userVars, requestVars, ghostVars
  <2> QED BY <1>1, <1>2, <1>6, <2>1, MoveStep
             DEF ReadIdentity, RowSteps, EarlySteps
<1>7. CASE DeleteLocalUser(r)
  <2>1. CASE ~LocalDeleteMatches(r)
    <3>1. Moves(r, "done")
      BY <1>7, <2>1 DEF DeleteLocalUser, Moves, requestVars
    <3> QED BY <1>1, <1>2, <3>1, MoveStep DEF RowSteps, EarlySteps
  <2>2. CASE LocalDeleteMatches(r)
    <3>1. /\ account' = [account EXCEPT ![target[r]] = "deleted"]
          /\ audits' = [audits EXCEPT ![target[r]] = @ + 1]
          /\ account[target[r]] = "active"
          /\ pc' = [pc EXCEPT ![r] = "done"]
          /\ UNCHANGED <<attempt, target, working, severed>>
      BY <1>7, <2>2
         DEF DeleteLocalUser, DropAccount, LocalDeleteMatches, requestVars
    <3>2. \A q \in Processes : RowOf(q)' = RowOf(q)
      BY <3>1 DEF RowOf
    <3>3. HeldRowExists' /\ MarkFollowsSever' /\ CommitFollowsMark'
      BY <1>2, <3>1, <3>2 DEF IInv, TypeOK, HeldRowExists, RowSteps,
                              MarkFollowsSever, CommitFollowsMark
    <3>4. EarlyRequestHasNoRow' /\ UnlinkedMeansSevered'
      BY <1>2, <3>1 DEF IInv, TypeOK, EarlyRequestHasNoRow, EarlySteps,
                        UnlinkedMeansSevered
    <3>5. SeveredKeepsRow' /\ AuditMatchesDeletion'
      BY <1>2, <3>1 DEF IInv, TypeOK, SeveredKeepsRow, HasAttempt,
                        AuditMatchesDeletion
    <3> QED BY <1>1, <3>3, <3>4, <3>5 DEF IInv
  <2> QED BY <2>1, <2>2
<1>8. CASE CreateAttempt(r)
  <2>1. CASE HasAttempt(target[r])
    <3>1. Moves(r, "done")
      BY <1>8, <2>1 DEF CreateAttempt, Moves, userVars, requestVars, ghostVars
    <3> QED BY <1>1, <1>2, <3>1, MoveStep DEF RowSteps, EarlySteps
  <2>2. CASE ~HasAttempt(target[r])
    <3>1. /\ attempt' = [attempt EXCEPT ![r] = "UNLINK_PENDING"]
          /\ pc[r] = "createAttempt"
          /\ pc' = [pc EXCEPT ![r] = "recheck"]
          /\ UNCHANGED <<account, target, working, severed, audits>>
      BY <1>8, <2>2 DEF CreateAttempt, userVars, requestVars, ghostVars
    <3>2. /\ \A q \in Processes : RowOf(q)' = RowOf(q)
          /\ \A q \in Processes \ {r} : RowOf(q) # r
      BY <3>1 DEF RowOf, IInv, EarlyRequestHasNoRow, EarlySteps
    <3>3. HeldRowExists'
      BY <1>2, <3>1, <3>2 DEF IInv, TypeOK, HeldRowExists, RowSteps
    <3>4. MarkFollowsSever' /\ CommitFollowsMark'
      BY <1>2, <3>1, <3>2 DEF IInv, TypeOK, HeldRowExists, RowSteps,
                              MarkFollowsSever, CommitFollowsMark
    <3>5. EarlyRequestHasNoRow' /\ UnlinkedMeansSevered'
      BY <1>2, <3>1 DEF IInv, TypeOK, EarlyRequestHasNoRow, EarlySteps,
                        UnlinkedMeansSevered
    <3>6. SeveredKeepsRow' /\ AuditMatchesDeletion'
      BY <1>2, <3>1 DEF IInv, TypeOK, SeveredKeepsRow, HasAttempt,
                        AuditMatchesDeletion
    <3> QED BY <1>1, <3>3, <3>4, <3>5, <3>6 DEF IInv
  <2> QED BY <2>1, <2>2
<1> QED BY <1>3, <1>4, <1>5, <1>6, <1>7, <1>8 DEF RequestStep

(* The recovery command takes up and puts down rows. *)
LEMMA RecoveryPreservesIInv ==
    ASSUME IInv, NEW c \in Reconcilers, RecoveryStep(c)
    PROVE  IInv'
<1>1. TypeOK'
  BY TypeStep DEF IInv, Next
<1>2. c \in Processes /\ c \notin Requests
  BY ProcessesDisjoint
<1>3. ASSUME UNCHANGED <<account, attempt, target, severed, audits>>,
             NEW row \in Requests \cup {NoRow}, NEW next,
             working' = [working EXCEPT ![c] = row],
             pc' = [pc EXCEPT ![c] = next],
             next \in {"pick", "recheck", "recheckUnlinked"},
             \/ next = "pick" /\ row = NoRow
             \/ next # "pick" /\ row \in Requests /\ attempt[row] # "none"
      PROVE  IInv'
  <2>1. /\ RowOf(c)' = row
        /\ pc'[c] = next
        /\ \A q \in Processes \ {c} : RowOf(q)' = RowOf(q) /\ pc'[q] = pc[q]
    BY <1>2, <1>3 DEF RowOf, IInv, TypeOK
  <2>2. HeldRowExists'
    BY <1>3, <2>1 DEF IInv, HeldRowExists, RowSteps
  <2>3. MarkFollowsSever' /\ CommitFollowsMark'
    BY <1>3, <2>1 DEF IInv, MarkFollowsSever, CommitFollowsMark
  <2>4. EarlyRequestHasNoRow'
    <3>1. ASSUME NEW r \in Requests, pc'[r] \in EarlySteps
          PROVE  /\ attempt[r] = "none"
                 /\ \A d \in Reconcilers : working'[d] # r
      <4>1. pc[r] \in EarlySteps
        BY <1>2, <2>1, <3>1 DEF Processes
      <4>2. attempt[r] = "none" /\ \A d \in Reconcilers : working[d] # r
        BY <4>1 DEF IInv, EarlyRequestHasNoRow
      <4>3. row # r
        BY <1>3, <4>2, NullsDistinct
      <4> QED BY <1>3, <4>2, <4>3 DEF IInv, TypeOK
    <3> QED BY <1>3, <3>1 DEF EarlyRequestHasNoRow
  <2>5. SeveredKeepsRow' /\ UnlinkedMeansSevered' /\ AuditMatchesDeletion'
    BY <1>3 DEF IInv, SeveredKeepsRow, HasAttempt, UnlinkedMeansSevered,
                AuditMatchesDeletion
  <2> QED BY <1>1, <2>2, <2>3, <2>4, <2>5 DEF IInv
<1>4. CASE PickAttempt(c)
  <2>1. PICK r \in Requests :
            Retriable(r) /\ working' = [working EXCEPT ![c] = r]
    BY <1>4 DEF PickAttempt
  <2>2. \E next \in {"recheck", "recheckUnlinked"} :
            pc' = [pc EXCEPT ![c] = next]
    BY <1>4 DEF PickAttempt
  <2>3. UNCHANGED <<account, attempt, target, severed, audits>>
    BY <1>4 DEF PickAttempt, userVars, requestVars, ghostVars
  <2> QED BY <1>3, <2>1, <2>2, <2>3 DEF Retriable
<1>5. CASE NextAttempt(c)
  <2>1. UNCHANGED <<account, attempt, target, severed, audits>>
    BY <1>5 DEF NextAttempt, userVars, requestVars, ghostVars
  <2> QED BY <1>3, <1>5, <2>1 DEF NextAttempt
<1> QED BY <1>4, <1>5 DEF RecoveryStep

(* What a process does with the row it holds. *)
LEMMA FinishPreservesIInv ==
    ASSUME IInv, NEW p \in Processes, FinishStep(p) \/ Interrupt(p)
    PROVE  IInv'
<1>1. TypeOK'
  BY TypeStep DEF IInv, Next
<1> DEFINE r == RowOf(p)
<1>2. CASE Interrupt(p)
  <2>1. Moves(p, "done")
    BY <1>2 DEF Interrupt, Moves, userVars, requestVars, ghostVars
  <2> QED BY <1>1, <2>1, MoveStep DEF RowSteps, EarlySteps
<1>3. CASE Recheck(p)
  <2>1. /\ \E next \in {"unlink", "finalize", "done"} : Moves(p, next)
        /\ pc[p] \in RowSteps
    BY <1>3 DEF Recheck, Moves, userVars, requestVars, ghostVars, RowSteps
  <2> QED BY <1>1, <2>1, MoveStep DEF RowSteps, EarlySteps
<1>4. CASE FinalizeRead(p)
  <2>1. CASE Finalizable(r)
    <3>1. Moves(p, "commit")
      BY <1>4, <2>1
         DEF FinalizeRead, Moves, userVars, requestVars, ghostVars
    <3>2. pc[p] \in RowSteps /\ attempt[r] # "UNLINK_PENDING"
      BY <1>4, <2>1 DEF FinalizeRead, Finalizable, RowSteps
    <3> QED BY <1>1, <3>1, <3>2, MoveStep DEF EarlySteps
  <2>2. CASE ~Finalizable(r)
    <3>1. Moves(p, "done")
      BY <1>4, <2>2
         DEF FinalizeRead, Moves, userVars, requestVars, ghostVars
    <3> QED BY <1>1, <3>1, MoveStep DEF RowSteps, EarlySteps
  <2> QED BY <2>1, <2>2
<1>5. ASSUME pc[p] \in RowSteps
      PROVE  /\ r \in Requests /\ target[r] \in Accounts
             /\ account[target[r]] # "deleted" => attempt[r] # "none"
  BY <1>5 DEF IInv, TypeOK, HeldRowExists
<1>6. CASE Unlink(p)
  <2>1. /\ \/ severed' = severed \cup {target[r]}
           \/ severed' = severed /\ pc'[p] # "mark"
        /\ \E next \in {"mark", "done"} : pc' = [pc EXCEPT ![p] = next]
        /\ UNCHANGED <<account, attempt, target, working, audits>>
    BY <1>6 DEF Unlink, userVars, requestVars, IInv, TypeOK
  <2>2. pc[p] = "unlink" /\ pc[p] \in RowSteps
    BY <1>6 DEF Unlink, RowSteps
  <2>3. \A q \in Processes : RowOf(q)' = RowOf(q)
    BY <2>1 DEF RowOf
  <2>4. HeldRowExists' /\ CommitFollowsMark'
    BY <2>1, <2>2, <2>3
       DEF IInv, TypeOK, HeldRowExists, RowSteps, CommitFollowsMark
  <2>5. MarkFollowsSever'
    BY <2>1, <2>2, <2>3 DEF IInv, TypeOK, MarkFollowsSever
  <2>6. EarlyRequestHasNoRow' /\ UnlinkedMeansSevered' /\ AuditMatchesDeletion'
    BY <2>1 DEF IInv, TypeOK, EarlyRequestHasNoRow, EarlySteps,
                UnlinkedMeansSevered, AuditMatchesDeletion
  <2>7. SeveredKeepsRow'
    BY <1>5, <2>1, <2>2 DEF IInv, SeveredKeepsRow, HasAttempt
  <2> QED BY <1>1, <2>4, <2>5, <2>6, <2>7 DEF IInv
<1>7. CASE Mark(p)
  <2>1. CASE attempt[r] = "none"
    <3>1. /\ \E next \in {"finalize", "done"} : Moves(p, next)
          /\ pc[p] \in RowSteps
      BY <1>7, <2>1
         DEF Mark, Moves, userVars, requestVars, ghostVars, RowSteps
    <3> QED BY <1>1, <3>1, MoveStep DEF RowSteps, EarlySteps
  <2>2. CASE attempt[r] # "none"
    <3>1. /\ attempt' = [attempt EXCEPT ![r] = "UNLINKED"]
          /\ pc' = [pc EXCEPT ![p] = "finalize"]
          /\ UNCHANGED <<account, target, working, severed, audits>>
      BY <1>7, <2>2
         DEF Mark, MarkedStatus, userVars, requestVars, ghostVars
    <3>2. pc[p] \in RowSteps /\ target[r] \in severed
      BY <1>7 DEF Mark, RowSteps, IInv, MarkFollowsSever
    <3>3. \A q \in Processes : RowOf(q)' = RowOf(q)
      BY <3>1 DEF RowOf
    <3>4. HeldRowExists' /\ MarkFollowsSever' /\ CommitFollowsMark'
      BY <1>5, <3>1, <3>2, <3>3
         DEF IInv, TypeOK, HeldRowExists, RowSteps, MarkFollowsSever,
             CommitFollowsMark
    <3>5. EarlyRequestHasNoRow'
      BY <1>5, <2>2, <3>1, <3>2
         DEF IInv, TypeOK, EarlyRequestHasNoRow, EarlySteps
    <3>6. UnlinkedMeansSevered' /\ SeveredKeepsRow' /\ AuditMatchesDeletion'
      BY <1>5, <3>1, <3>2
         DEF IInv, TypeOK, UnlinkedMeansSevered, SeveredKeepsRow, HasAttempt,
             AuditMatchesDeletion
    <3> QED BY <1>1, <3>4, <3>5, <3>6 DEF IInv
  <2> QED BY <2>1, <2>2
<1>8. CASE FinalizeCommit(p)
  <2>1. CASE ~CommitMatches(r)
    <3>1. Moves(p, "done")
      BY <1>8, <2>1 DEF FinalizeCommit, Moves, requestVars
    <3> QED BY <1>1, <3>1, MoveStep DEF RowSteps, EarlySteps
  <2>2. CASE CommitMatches(r)
    <3>1. /\ account' = [account EXCEPT ![target[r]] = "deleted"]
          /\ audits' = [audits EXCEPT ![target[r]] = @ + 1]
          /\ attempt' = [attempt EXCEPT ![r] = "none"]
          /\ pc' = [pc EXCEPT ![p] = "done"]
          /\ account[target[r]] = "active"
          /\ UNCHANGED <<target, working, severed>>
      BY <1>8, <2>2 DEF FinalizeCommit, DropAccount, CommitMatches, requestVars
    <3>2. pc[p] \in RowSteps
      BY <1>8 DEF FinalizeCommit, RowSteps
    <3>3. \A q \in Processes : RowOf(q)' = RowOf(q)
      BY <3>1 DEF RowOf
    <3>4. HeldRowExists' /\ MarkFollowsSever' /\ CommitFollowsMark'
      BY <1>5, <3>1, <3>2, <3>3
         DEF IInv, TypeOK, HeldRowExists, RowSteps, MarkFollowsSever,
             CommitFollowsMark
    <3>5. EarlyRequestHasNoRow' /\ UnlinkedMeansSevered'
      BY <1>5, <3>1, <3>2
         DEF IInv, TypeOK, EarlyRequestHasNoRow, EarlySteps,
             UnlinkedMeansSevered
    <3>6. SeveredKeepsRow' /\ AuditMatchesDeletion'
      BY <1>5, <3>1, <3>2
         DEF IInv, TypeOK, SeveredKeepsRow, HasAttempt, AuditMatchesDeletion
    <3> QED BY <1>1, <3>4, <3>5, <3>6 DEF IInv
  <2> QED BY <2>1, <2>2
<1> QED BY <1>2, <1>3, <1>4, <1>6, <1>7, <1>8 DEF FinishStep

-----------------------------------------------------------------------------
LEMMA IInvIsInvariant == Spec => []IInv
<1>1. ASSUME IInv, [Next]_vars PROVE IInv'
  <2>1. CASE Next
    BY <1>1, <2>1, EnvironmentStep, RequestPreservesIInv, RecoveryPreservesIInv,
       FinishPreservesIInv DEF Next
  <2>2. CASE UNCHANGED vars
    BY <1>1, <2>2
       DEF vars, userVars, stateVars, requestVars, ghostVars, IInv, TypeOK,
           HeldRowExists, RowOf, MarkFollowsSever, CommitFollowsMark,
           EarlyRequestHasNoRow, SeveredKeepsRow, HasAttempt,
           UnlinkedMeansSevered, AuditMatchesDeletion
  <2> QED BY <1>1, <2>1, <2>2
<1> QED BY <1>1, InitEstablishesIInv, PTL DEF Spec

(* Every variable of the withdrawal keeps its type. *)
THEOREM TypeCorrect == Spec => []TypeOK
<1>1. IInv => TypeOK
  BY DEF IInv
<1> QED BY <1>1, IInvIsInvariant, PTL

(* However many requests and recovery workers run, stall or crash: an      *)
(* account whose Kakao link was severed on its behalf has a row to recover *)
(* from as long as it exists.                                              *)
THEOREM RecoveryStateAlwaysSurvives == Spec => []RecoveryStateSurvives
<1>1. IInv => RecoveryStateSurvives
  BY DEF IInv, SeveredKeepsRow, RecoveryStateSurvives
<1> QED BY <1>1, IInvIsInvariant, PTL

(* The status UNLINKED is never written ahead of Kakao's answer. *)
THEOREM UnlinkedStatusIsTrue == Spec => []UnlinkedMeansSevered
<1>1. IInv => UnlinkedMeansSevered
  BY DEF IInv
<1> QED BY <1>1, IInvIsInvariant, PTL

(* One audit row for each deleted account and none for the others, though  *)
(* several processes may try to finish the same withdrawal.                *)
THEOREM AuditsAreExact == Spec => []AuditMatchesDeletion
<1>1. IInv => AuditMatchesDeletion
  BY DEF IInv
<1> QED BY <1>1, IInvIsInvariant, PTL

(* An account is deleted only for a request that proved the credential and *)
(* saw the identity the account has when it is deleted.                    *)
THEOREM DeletionsAreProven == Spec => DeletionIsProven
<1> DEFINE Proven == \A a \in Accounts :
               Active(a) /\ account'[a] = "deleted" =>
                   \E r \in Requests : ProvenFor(r, a)
<1>1. ASSUME IInv, [Next]_vars, NEW a \in Accounts,
             Active(a), account'[a] = "deleted"
      PROVE  \E r \in Requests : ProvenFor(r, a)
  <2>1. ASSUME NEW r \in Requests, DeleteLocalUser(r)
        PROVE  ProvenFor(r, a)
    BY <1>1, <2>1 DEF DeleteLocalUser, DropAccount, LocalDeleteMatches,
                      ProvenFor, IInv, TypeOK
  <2>2. ASSUME NEW p \in Processes, FinalizeCommit(p)
        PROVE  RowOf(p) \in Requests /\ ProvenFor(RowOf(p), a)
    <3>1. /\ RowOf(p) \in Requests
          /\ attempt[RowOf(p)] \in {"none", "UNLINKED"}
      BY <1>1, <2>2 DEF FinalizeCommit, IInv, TypeOK, RowStatus, HeldRowExists,
                  RowSteps, CommitFollowsMark
    <3> QED BY <1>1, <2>2, <3>1 DEF FinalizeCommit, CommitMatches, DropAccount,
                                    ProvenFor, IInv, TypeOK
  <2>3. CASE Environment
    <3>1. OnlyBirths
      BY <1>1, <2>3, EnvironmentEffect
    <3> QED BY <1>1, <3>1 DEF OnlyBirths
  <2>4. ASSUME UNCHANGED account PROVE FALSE
    BY <1>1, <2>4
  <2>5. ASSUME NEW r \in Requests, RequestStep(r), ~DeleteLocalUser(r)
        PROVE  UNCHANGED account
    BY <2>5 DEF RequestStep, Begin, CheckAttempt, ConsumeState, ReadIdentity,
                CreateAttempt, userVars
  <2>6. ASSUME NEW c \in Reconcilers, RecoveryStep(c)
        PROVE  UNCHANGED account
    BY <2>6 DEF RecoveryStep, PickAttempt, NextAttempt, userVars
  <2>7. ASSUME NEW p \in Processes, FinishStep(p) \/ Interrupt(p),
               ~FinalizeCommit(p)
        PROVE  UNCHANGED account
    BY <2>7 DEF FinishStep, Recheck, Unlink, Mark, FinalizeRead, Interrupt,
                userVars
  <2>8. CASE UNCHANGED vars
    BY <2>4, <2>8 DEF vars, userVars
  <2> QED BY <1>1, <2>1, <2>2, <2>3, <2>4, <2>5, <2>6, <2>7, <2>8 DEF Next
<1>2. IInv /\ [Next]_vars => [Proven]_vars
  BY <1>1
<1> QED BY <1>2, IInvIsInvariant, PTL DEF Spec, DeletionIsProven

-----------------------------------------------------------------------------
(* ReauthenticationUsedOnce.  A request that a state was accepted from      *)
(* presented one that was issued, and that state is either used or no      *)
(* longer the newest: it is not accepted from anybody else.                *)
StateIsSpent ==
    \A r \in Requests :
        /\ presented[r] <= issuedState[target[r]]
        /\ r \in accepted =>
              /\ pc[r] # "begin"
              /\ ~(liveState[target[r]] /\ presented[r] = issuedState[target[r]])

StateInv == StateIsSpent /\ ReauthenticationUsedOnce

(* A step that accepts no state, after which nobody presents another one   *)
(* and none is issued.                                                     *)
LEMMA NoneIsAccepted ==
    ASSUME StateInv,
           \A r \in Requests : pc'[r] = "begin" => pc[r] = "begin",
           accepted \in SUBSET Requests,
           UNCHANGED <<accepted, target, presented, issuedState>>,
           \A a \in Accounts : liveState'[a] => liveState[a],
           target \in [Requests -> Accounts]
    PROVE  StateInv'
  BY DEF StateInv, StateIsSpent, ReauthenticationUsedOnce

LEMMA StatesOfEnvironment ==
    ASSUME StateInv, TypeOK, Environment
    PROVE  StateInv'
<1>1. ASSUME NEW a \in Accounts, StartKakaoWithdrawal(a) PROVE StateInv'
  <2>1. /\ issuedState' = [issuedState EXCEPT ![a] = @ + 1]
        /\ liveState' = [liveState EXCEPT ![a] = TRUE]
        /\ UNCHANGED <<target, presented, pc, accepted>>
    BY <1>1 DEF StartKakaoWithdrawal, requestVars, ghostVars
  <2>2. ASSUME NEW r \in Requests
        PROVE  /\ presented[r] <= issuedState'[target[r]]
               /\ target[r] = a => presented[r] # issuedState'[target[r]]
               /\ target[r] # a =>
                     /\ issuedState'[target[r]] = issuedState[target[r]]
                     /\ liveState'[target[r]] = liveState[target[r]]
    <3>1. /\ presented[r] \in Nat /\ target[r] \in Accounts
          /\ issuedState[target[r]] \in Nat
          /\ presented[r] <= issuedState[target[r]]
      BY BoundsAreNat DEF TypeOK, StateInv, StateIsSpent
    <3>2. issuedState'[target[r]] = IF target[r] = a
                                    THEN issuedState[target[r]] + 1
                                    ELSE issuedState[target[r]]
      BY <2>1, <3>1 DEF TypeOK
    <3>3. /\ presented[r] <= issuedState'[target[r]]
          /\ target[r] = a => presented[r] # issuedState'[target[r]]
      BY <3>1, <3>2
    <3>4. target[r] # a => liveState'[target[r]] = liveState[target[r]]
      BY <2>1, <3>1 DEF TypeOK
    <3> QED BY <3>2, <3>3, <3>4
  <2>3. StateIsSpent'
    BY <2>1, <2>2 DEF StateInv, StateIsSpent
  <2>4. ReauthenticationUsedOnce'
    BY <2>1 DEF StateInv, ReauthenticationUsedOnce
  <2> QED BY <2>3, <2>4 DEF StateInv
<1>2. CASE /\ UNCHANGED <<requestVars, pc, issuedState, accepted>>
           /\ \A a \in Accounts : liveState'[a] => liveState[a]
  BY <1>2, NoneIsAccepted DEF requestVars, TypeOK
<1>3. ASSUME NEW a \in Accounts,
             SignUp(a) \/ ChangePassword(a) \/ ExpireState(a)
      PROVE  StateInv'
  BY <1>2, <1>3 DEF SignUp, ChangePassword, ExpireState, stateVars, ghostVars, TypeOK
<1>4. ASSUME NEW a \in Accounts, NEW k \in KakaoIds,
             KakaoSignUp(a, k) \/ CompleteKakaoLink(a, k)
      PROVE  StateInv'
  BY <1>2, <1>4 DEF KakaoSignUp, CompleteKakaoLink, stateVars, ghostVars
<1>5. ASSUME NEW k \in KakaoIds, KakaoConsent(k) PROVE StateInv'
  BY <1>2, <1>5 DEF KakaoConsent, stateVars, ghostVars
<1> QED BY <1>1, <1>3, <1>4, <1>5 DEF Environment

LEMMA StatesOfRequest ==
    ASSUME StateInv, TypeOK, NEW r \in Requests, RequestStep(r)
    PROVE  StateInv'
<1> USE DEF TypeOK
<1>1. CASE Begin(r)
  <2>1. /\ pc'[r] \in {"checkAttempt", "done"}
        /\ \A s \in Requests \ {r} :
              /\ pc'[s] = pc[s] /\ presented'[s] = presented[s]
        /\ UNCHANGED <<target, issuedState, liveState, accepted>>
    BY <1>1 DEF Begin, stateVars, ghostVars
  <2>2. presented'[r] <= issuedState[target[r]]
    BY <1>1, BoundsAreNat DEF Begin, StateInv, StateIsSpent
  <2>3. r \notin accepted
    BY <1>1 DEF Begin, StateInv, StateIsSpent
  <2>4. StateIsSpent'
    BY <2>1, <2>2, <2>3 DEF StateInv, StateIsSpent
  <2>5. ReauthenticationUsedOnce'
    BY <2>1, <2>3 DEF StateInv, ReauthenticationUsedOnce
  <2> QED BY <2>4, <2>5 DEF StateInv
<1>2. CASE ConsumeState(r)
  <2>1. CASE ~StateMatches(r)
    BY <1>2, <2>1, NoneIsAccepted DEF ConsumeState, requestVars
  <2>2. CASE StateMatches(r)
    <3>1. /\ liveState' = [liveState EXCEPT ![target[r]] = FALSE]
          /\ accepted' = accepted \cup {r} /\ pc'[r] = "readIdentity"
          /\ UNCHANGED <<target, presented, issuedState>>
          /\ \A s \in Requests \ {r} : pc'[s] = pc[s]
      BY <1>2, <2>2 DEF ConsumeState, requestVars
    <3>2. ASSUME NEW s \in accepted, target[s] = target[r]
          PROVE  presented[s] # presented[r]
      BY <2>2, <3>2 DEF StateMatches, StateInv, StateIsSpent
    <3>3. StateIsSpent'
      BY <3>1, <3>2 DEF StateInv, StateIsSpent
    <3>4. ReauthenticationUsedOnce'
      BY <3>1, <3>2 DEF StateInv, ReauthenticationUsedOnce
    <3> QED BY <3>3, <3>4 DEF StateInv
  <2> QED BY <2>1, <2>2
<1>3. CASE CheckAttempt(r)
  BY <1>3, NoneIsAccepted
     DEF CheckAttempt, ghostVars, requestVars, stateVars
<1>4. CASE DeleteLocalUser(r)
  <2>1. \A a \in Accounts : liveState'[a] => liveState[a]
    BY <1>4 DEF DeleteLocalUser, DropAccount
  <2> QED BY <1>4, <2>1, NoneIsAccepted
             DEF DeleteLocalUser, ghostVars, requestVars
<1>5. CASE ReadIdentity(r)
  BY <1>5, NoneIsAccepted
     DEF ReadIdentity, ghostVars, requestVars, stateVars
<1>6. CASE CreateAttempt(r)
  BY <1>6, NoneIsAccepted
     DEF CreateAttempt, ghostVars, requestVars, stateVars
<1> QED BY <1>1, <1>2, <1>3, <1>4, <1>5, <1>6 DEF RequestStep

LEMMA StatesOfOthers ==
    ASSUME StateInv, TypeOK,
           \/ \E c \in Reconcilers : RecoveryStep(c)
           \/ \E p \in Processes : FinishStep(p) \/ Interrupt(p)
    PROVE  StateInv'
<1> USE DEF TypeOK
<1>1. ASSUME NEW c \in Reconcilers, RecoveryStep(c) PROVE StateInv'
  BY <1>1, ProcessesDisjoint, NoneIsAccepted
     DEF RecoveryStep, PickAttempt, NextAttempt, ghostVars, requestVars, stateVars
<1>2. ASSUME NEW p \in Processes, FinishStep(p) \/ Interrupt(p)
      PROVE  StateInv'
  <2>1. CASE FinalizeCommit(p)
    <3>1. \A a \in Accounts : liveState'[a] => liveState[a]
      BY <2>1 DEF FinalizeCommit, DropAccount
    <3> QED BY <2>1, <3>1, NoneIsAccepted
               DEF FinalizeCommit, requestVars
  <2>2. CASE Recheck(p)
    BY <2>2, NoneIsAccepted
       DEF Recheck, ghostVars, requestVars, stateVars
  <2>3. CASE Unlink(p)
    BY <2>3, NoneIsAccepted
       DEF Unlink, ghostVars, requestVars, stateVars
  <2>4. CASE Mark(p)
    BY <2>4, NoneIsAccepted
       DEF Mark, ghostVars, requestVars, stateVars
  <2>5. CASE FinalizeRead(p)
    BY <2>5, NoneIsAccepted
       DEF FinalizeRead, ghostVars, requestVars, stateVars
  <2>6. CASE Interrupt(p)
    BY <2>6, NoneIsAccepted
       DEF Interrupt, ghostVars, requestVars, stateVars
  <2> QED BY <1>2, <2>1, <2>2, <2>3, <2>4, <2>5, <2>6 DEF FinishStep
<1> QED BY <1>1, <1>2

(* However many requests present the same re-authentication state, at once *)
(* or one after the other, it is accepted from one of them at most.        *)
THEOREM StatesAreUsedOnce == Spec => []ReauthenticationUsedOnce
<1>1. Init => StateInv
  BY DEF Init, StateInv, StateIsSpent, ReauthenticationUsedOnce
<1>2. StateInv /\ TypeOK /\ [Next]_vars => StateInv'
  <2> SUFFICES ASSUME StateInv, TypeOK, [Next]_vars PROVE StateInv'
    OBVIOUS
  <2>1. CASE UNCHANGED vars
    BY <2>1, NoneIsAccepted
       DEF vars, requestVars, stateVars, ghostVars, TypeOK
  <2> QED BY <2>1, StatesOfEnvironment, StatesOfRequest, StatesOfOthers
             DEF Next
<1>3. StateInv => ReauthenticationUsedOnce
  BY DEF StateInv
<1> QED BY <1>1, <1>2, <1>3, TypeCorrect, PTL DEF Spec
=============================================================================
