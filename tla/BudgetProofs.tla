---------------------------- MODULE BudgetProofs ----------------------------
(***************************************************************************)
(* setBudget implements the atomic partial update for any requests and     *)
(* bodies: what a transaction read is still true when it writes.           *)
(***************************************************************************)
EXTENDS Budget, TLAPS

(* The shared lock: the list that was read is the list of the row.         *)
ReadIsCurrent ==
    \A r \in Requests :
        /\ call[r].step \in {"read", "write"} => call[r].body \in Patches
        /\ call[r].step = "write" =>
              \/ budget = Deleted
              \/ call[r].categories = budget["categoryBudgets"]

IInv == TypeOK /\ ReadIsCurrent

LEMMA ClosedHasType ==
    ASSUME NEW step \in {"idle", "read", "write", "done", "failed"}
    PROVE  /\ Closed(step) \in CallState
           /\ Closed(step).step = step /\ Closed(step).body = NoPatch
  BY ZeroIsAnAmount DEF Closed, CallState, MaxTries

(* When what was read is current, the upsert is the plain merge.           *)
LEMMA UpsertIsMerge ==
    ASSUME NEW row \in Rows, NEW body \in Patches
    PROVE  /\ Upsert(body, row, row["categoryBudgets"]) = Given(row, body)
           /\ Given(row, body) \in Rows
<1>1. [row EXCEPT !["categoryBudgets"] = row["categoryBudgets"]] = row
  BY DEF Rows
<1>2. \A f \in DOMAIN body : body[f] \in Amounts
  BY PatchesAreBodies DEF Bodies
<1> QED BY <1>1, <1>2 DEF Upsert, Given, Rows

LEMMA InitEstablishesIInv == Init => IInv
  BY ClosedHasType, ZeroIsAnAmount DEF Init, IInv, TypeOK, ReadIsCurrent, Empty, Rows

(* The one step that writes the row. *)
LEMMA CommitIsApply ==
    ASSUME IInv, NEW r \in Requests, Commit(r)
    PROVE  /\ call[r].body \in Patches /\ budget \in Rows
           /\ budget' = Given(budget, call[r].body)
           /\ budget' \in Rows
  BY UpsertIsMerge DEF IInv, TypeOK, ReadIsCurrent, Commit

LEMMA StepPreservesIInv == IInv /\ [Next]_vars => IInv'
<1> SUFFICES ASSUME IInv, [Next]_vars PROVE IInv'
  OBVIOUS
<1> USE DEF IInv, TypeOK
<1>1. ASSUME NEW r \in Requests, Start(r) PROVE IInv'
  <2>1. PICK body \in Patches :
           call' = [call EXCEPT ![r] = [Closed("read") EXCEPT !.body = body]]
    BY <1>1 DEF Start
  <2> QED BY <1>1, <2>1, ZeroIsAnAmount
          DEF Start, ReadIsCurrent, Closed, CallState, MaxTries
<1>2. ASSUME NEW r \in Requests, Read(r) PROVE IInv'
  <2>1. budget["categoryBudgets"] \in Amounts
    BY <1>2 DEF Read, Rows, Fields
  <2> QED BY <1>2, <2>1 DEF Read, ReadIsCurrent, CallState
<1>3. ASSUME NEW r \in Requests, Commit(r) PROVE IInv'
  <2>1. budget' \in Rows /\ call' = [call EXCEPT ![r] = Closed("done")]
    BY <1>3, CommitIsApply DEF Commit
  <2>2. TypeOK'
    BY <2>1, ClosedHasType
  <2>3. ReadIsCurrent'
    BY <1>3, <2>1, ClosedHasType DEF ReadIsCurrent, Commit, Alone
  <2> QED BY <2>2, <2>3
<1>4. ASSUME NEW r \in Requests, Conflict(r) PROVE IInv'
  <2>1. CASE LastTry(r)
    BY <1>4, <2>1, ClosedHasType DEF Conflict, ReadIsCurrent
  <2>2. CASE ~LastTry(r)
    <3>1. /\ call' = [call EXCEPT ![r].step = "read",
                          ![r].tries = IF @ < MaxTries THEN @ + 1 ELSE @]
          /\ UNCHANGED budget /\ call[r].step = "write"
      BY <1>4, <2>2 DEF Conflict
    <3>2. /\ call[r] \in CallState
          /\ (IF call[r].tries < MaxTries THEN call[r].tries + 1
                                         ELSE call[r].tries) \in 0..MaxTries
      BY DEF CallState, MaxTries
    <3>3. TypeOK'
      BY <3>1, <3>2 DEF CallState
    <3> QED BY <3>1, <3>2, <3>3 DEF ReadIsCurrent, CallState
  <2> QED BY <2>1, <2>2
<1>5. ASSUME NEW r \in Requests, Fail(r) \/ Finish(r) PROVE IInv'
  BY <1>5, ClosedHasType DEF Fail, Finish, ReadIsCurrent
<1>6. CASE DeleteUser
  BY <1>6 DEF DeleteUser, ReadIsCurrent
<1>7. CASE UNCHANGED vars
  BY <1>7 DEF vars, ReadIsCurrent
<1> QED BY <1>1, <1>2, <1>3, <1>4, <1>5, <1>6, <1>7 DEF Next

LEMMA IInvIsInvariant == Spec => []IInv
  BY InitEstablishesIInv, StepPreservesIInv, PTL DEF Spec

(* The row and the calls of setBudget are well typed in every state, and a *)
(* call is tried three times at most.                                      *)
THEOREM TypeCorrect == Spec => []TypeOK
<1>1. IInv => TypeOK
  BY DEF IInv
<1> QED BY <1>1, IInvIsInvariant, PTL

-----------------------------------------------------------------------------
LEMMA RequestMoves ==
    ASSUME TypeOK, NEW r \in Requests,
           NEW step \in {"idle", "done", "failed"},
           call' = [call EXCEPT ![r] = Closed(step)]
    PROVE  AbstractRequest' =
             [AbstractRequest EXCEPT
                ![r] = Atomic!Closed(IF step = "failed" THEN "refused" ELSE step)]
<1>1. Closed(step).step = step /\ Closed(step).body = NoPatch
  BY DEF Closed
<1> QED BY <1>1 DEF AbstractRequest, Atomic!Closed, TypeOK

(* Every step of setBudget is a step of the atomic partial update: the     *)
(* category list written back is never an older one.                       *)
THEOREM UpdatesLoseNothing == Spec => UpdatesAreAtomic
<1>1. Init => Atomic!Init
  BY DEF Init, Atomic!Init, Atomic!NoRequest, Atomic!Closed, Closed,
         AbstractRequest
<1>2. ASSUME IInv, [Next]_vars
      PROVE  [Atomic!Next]_<<budget, AbstractRequest>>
  <2> USE <1>2 DEF IInv
  <2>1. ASSUME NEW r \in Requests
        PROVE  /\ call[r].step \in {"read", "write"} =>
                     AbstractRequest[r].state = "open"
               /\ call[r].step = "failed" => AbstractRequest[r].state = "refused"
               /\ call[r].step \in {"idle", "done"} =>
                     AbstractRequest[r].state = call[r].step
               /\ AbstractRequest[r].patch = call[r].body
    BY DEF AbstractRequest
  <2>2. ASSUME NEW r \in Requests, Start(r) PROVE Atomic!Start(r)
    <3>1. PICK body \in Patches :
             call' = [call EXCEPT ![r] = [Closed("read") EXCEPT !.body = body]]
      BY <2>2 DEF Start
    <3>2. AbstractRequest' = [AbstractRequest EXCEPT
                                ![r] = [state |-> "open", patch |-> body]]
      BY <3>1 DEF AbstractRequest, Closed, TypeOK
    <3> QED BY <2>1, <2>2, <3>2 DEF Start, Atomic!Start
  <2>3. ASSUME NEW r \in Requests, Read(r)
        PROVE  UNCHANGED <<budget, AbstractRequest>>
    BY <2>3 DEF Read, AbstractRequest, TypeOK, CallState
  <2>4. ASSUME NEW r \in Requests, Commit(r) PROVE Atomic!Apply(r)
    <3>1. AbstractRequest' = [AbstractRequest EXCEPT ![r] = Atomic!Closed("done")]
      BY <2>4, RequestMoves DEF Commit
    <3> QED BY <2>1, <2>4, <3>1, CommitIsApply DEF Commit, Atomic!Apply
  <2>5. ASSUME NEW r \in Requests, Conflict(r) \/ Fail(r)
        PROVE  Atomic!Refuse(r) \/ UNCHANGED <<budget, AbstractRequest>>
    <3>1. CASE call' = [call EXCEPT ![r] = Closed("failed")]
      <4>1. AbstractRequest' = [AbstractRequest EXCEPT
                                  ![r] = Atomic!Closed("refused")]
        BY <3>1, RequestMoves
      <4> QED BY <2>1, <2>5, <4>1 DEF Conflict, Fail, Atomic!Refuse
    <3>2. CASE Conflict(r) /\ ~LastTry(r)
      <4>1. AbstractRequest' = AbstractRequest
        BY <3>2 DEF Conflict, AbstractRequest, TypeOK, CallState
      <4> QED BY <3>2, <4>1 DEF Conflict
    <3> QED BY <2>5, <3>1, <3>2 DEF Conflict, Fail
  <2>6. ASSUME NEW r \in Requests, Finish(r) PROVE Atomic!Finish(r)
    <3>1. AbstractRequest' = [AbstractRequest EXCEPT ![r] = Atomic!Closed("idle")]
      BY <2>6, RequestMoves DEF Finish
    <3> QED BY <2>1, <2>6, <3>1 DEF Finish, Atomic!Finish
  <2>7. CASE DeleteUser
    BY <2>7 DEF DeleteUser, Atomic!Next, Atomic!Disappear, AbstractRequest
  <2>8. CASE UNCHANGED vars
    BY <2>8 DEF vars, AbstractRequest
  <2> QED BY <1>2, <2>2, <2>3, <2>4, <2>5, <2>6, <2>7, <2>8
          DEF Next, Atomic!Next
<1> QED BY <1>1, <1>2, IInvIsInvariant, PTL
        DEF Spec, UpdatesAreAtomic, Atomic!Spec
=============================================================================
