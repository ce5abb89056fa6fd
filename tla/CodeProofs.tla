----------------------------- MODULE CodeProofs -----------------------------
(***************************************************************************)
(* What holds of the six-digit codes, for any number of requests and calls *)
(* and any limits.                                                         *)
(*                                                                         *)
(*   Confirming (CodeConfirm): a code is accepted once, a lock stays until *)
(*   it runs out, no counted failure is forgotten, and the last allowed    *)
(*   failure leads to the lock.                                            *)
(*                                                                         *)
(*   Issuing (CodeIssue): requests that are let in keep the cooldown and   *)
(*   the send limit, a newer code kills the older ones, and the newest one *)
(*   dies early only by a request that was running when it was inserted.   *)
(***************************************************************************)
EXTENDS CodeConfirm, CodeIssue, FiniteSetTheorems, TLAPS

-----------------------------------------------------------------------------
(* Confirming a code.                                                      *)


(* The columns of the row.  (Apart from RowIsConsistent, because the       *)
(* provers take a Boolean variable either as a value or as a formula.)     *)
RowHasType ==
    /\ now \in Time /\ kind \in Kinds /\ died \in BOOLEAN
    /\ exists \in BOOLEAN /\ used \in BOOLEAN
    /\ count \in 0..Max /\ blockedUntil \in LockTime /\ accepted \in {0, 1}

(* Only an exhausted counter is locked, and what was accepted is used.     *)
RowIsConsistent ==
    /\ blockedUntil # 0 => count = Max
    /\ accepted = 1 => used

RowOK == RowHasType /\ RowIsConsistent

(* No call is ahead of the clock; one that clears a lock saw it run out. *)
LagsBehind(state) ==
    /\ state.at <= now
    /\ state.step = "clear" => state.blocked # 0 /\ state.blocked <= state.at

CallsLagBehind ==
    /\ call \in [Calls -> CallState]
    /\ \A c \in Calls : LagsBehind(call[c])

IInv == RowOK /\ CallsLagBehind /\ ExhaustionIsLocked

LEMMA ZeroFits == 0 \in Time /\ 0 \in LockTime /\ 0 \in 0..Max
BY LimitsArePositive, TimesAreNat DEF Time, LockTime

LEMMA InitEstablishesIInv == Init => IInv
<1> SUFFICES ASSUME Init PROVE IInv
  OBVIOUS
<1> USE LimitsArePositive, TimesAreNat DEF Init
<1>1. RowHasType
  BY ZeroFits DEF RowHasType
<1>4. RowIsConsistent
  BY DEF RowIsConsistent
<1>2. CallsLagBehind
  BY DEF CallsLagBehind, LagsBehind, CallState, Idle, Time, LockTime
<1>3. ExhaustionIsLocked
  BY DEF ExhaustionIsLocked
<1> QED BY <1>1, <1>2, <1>3, <1>4 DEF IInv, RowOK

-----------------------------------------------------------------------------
(* What a step of one call does to the calls. *)
CallMoves(c, state) == call' = [call EXCEPT ![c] = state]

(* A call that moves keeps the part of the invariant about calls when its  *)
(* new state does.                                                         *)
LEMMA MovePreservesCalls ==
    ASSUME CallsLagBehind, UNCHANGED now,
           NEW c \in Calls, NEW state \in CallState, LagsBehind(state),
           CallMoves(c, state)
    PROVE  /\ CallsLagBehind'
           /\ \A d \in Calls \ {c} : call'[d] = call[d]
           /\ call'[c] = state
BY DEF CallMoves, CallsLagBehind, LagsBehind

LEMMA FinishIsAMove ==
    ASSUME now \in Nat, NEW c \in Calls, Finish(c)
    PROVE  CallMoves(c, Idle) /\ Idle \in CallState /\ LagsBehind(Idle)
BY LimitsArePositive, TimesAreNat
   DEF Finish, CallMoves, LagsBehind, Idle, CallState, Time, LockTime

(* A call that changes its step keeps everything else it holds. *)
LEMMA StepIsAMove ==
    ASSUME CallsLagBehind, NEW c \in Calls, NEW target, Step(c, target),
           target \in {"read", "consume", "count", "reread", "lock"}
    PROVE  \E state \in CallState :
              CallMoves(c, state) /\ LagsBehind(state) /\ state.step = target
<1>1. [call[c] EXCEPT !.step = target] \in CallState
  BY DEF CallsLagBehind, CallState
<1>2. /\ [call[c] EXCEPT !.step = target].step = target
      /\ [call[c] EXCEPT !.step = target].at = call[c].at
  BY DEF CallsLagBehind, CallState
<1>3. CallMoves(c, [call[c] EXCEPT !.step = target])
  BY DEF Step, CallMoves
<1> QED BY <1>1, <1>2, <1>3 DEF CallsLagBehind, LagsBehind

(* The numbers of a state of the invariant are numbers. *)
LEMMA Facts ==
    ASSUME IInv
    PROVE  /\ now \in Nat /\ count \in Nat /\ count <= Max
           /\ blockedUntil \in Nat
           /\ \A c \in Calls :
                 /\ call[c].at \in Nat /\ call[c].at \in Time
                 /\ call[c].at <= now
                 /\ At(c, "clear") =>
                       call[c].blocked # 0 /\ call[c].blocked <= call[c].at
<1>1. now \in Nat /\ count \in Nat /\ count <= Max /\ blockedUntil \in Nat
  BY LimitsArePositive, TimesAreNat DEF IInv, RowOK, RowHasType, Time, LockTime
<1>2. \A c \in Calls : call[c].at \in Time
  BY DEF IInv, CallsLagBehind, CallState
<1>3. Time \subseteq Nat
  BY TimesAreNat DEF Time
<1> QED BY <1>1, <1>2, <1>3 DEF IInv, CallsLagBehind, LagsBehind, At

(* The columns, whichever call writes them. *)
LEMMA StepPreservesRowType == IInv /\ [Next]_vars => RowHasType'
<1> SUFFICES ASSUME IInv, [Next]_vars PROVE RowHasType'
  OBVIOUS
<1> USE ZeroFits DEF RowHasType
<1>1. RowHasType
  BY DEF IInv, RowOK
<1>2. ASSUME NEW c \in Calls, CallStep(c) PROVE RowHasType'
  <2>1. CASE Consume(c)
    <3>1. accepted = 0 \/ ~Consumable(c)
      BY <1>1 DEF IInv, RowOK, RowIsConsistent, Consumable, Usable
    <3>2. accepted' \in {0, 1}
      BY <1>1, <2>1, <3>1 DEF Consume
    <3> QED BY <1>1, <2>1, <3>2 DEF Consume, MarkUsed
  <2>2. CASE ClearLock(c)
    BY <1>1, <2>2 DEF ClearLock
  <2>3. CASE CountFailure(c)
    <3>1. Countable(c) => count + 1 \in 0..Max
      BY <1>1, LimitsArePositive DEF Countable
    <3> QED BY <1>1, <2>3, <3>1 DEF CountFailure
  <2>4. CASE LockRow(c)
    <3>1. call[c].at + Lock \in LockTime
      BY Facts, LimitsArePositive, TimesAreNat DEF Time, LockTime
    <3> QED BY <1>1, <2>4, <3>1 DEF LockRow
  <2> QED BY <1>1, <1>2, <2>1, <2>2, <2>3, <2>4
          DEF CallStep, Start, Read, Reread, Abort, rowVars
<1>3. CASE Supersede \/ DeleteCode
  BY <1>1, <1>3 DEF Supersede, DeleteCode, MarkUsed
<1>4. CASE Tick
  <2>1. now + 1 \in Time \/ ~(now < MaxClock)
    BY <1>1, TimesAreNat DEF Time
  <2> QED BY <1>1, <1>4, <2>1 DEF Tick, rowVars
<1>5. CASE UNCHANGED vars
  BY <1>1, <1>5 DEF vars, rowVars
<1> QED BY <1>2, <1>3, <1>4, <1>5 DEF Next

LEMMA StepPreservesRow == IInv /\ [Next]_vars => RowIsConsistent'
<1> SUFFICES ASSUME IInv, [Next]_vars PROVE RowIsConsistent'
  OBVIOUS
<1> USE Facts, LimitsArePositive DEF RowIsConsistent
<1>1. RowIsConsistent /\ accepted \in {0, 1}
  BY DEF IInv, RowOK, RowHasType
<1>2. ASSUME NEW c \in Calls, CallStep(c) PROVE RowIsConsistent'
  <2>1. CASE Consume(c)
    BY <1>1, <2>1 DEF Consume, MarkUsed
  <2>2. CASE ClearLock(c)
    BY <1>1, <2>2 DEF ClearLock
  <2>3. CASE CountFailure(c)
    BY <1>1, <2>3 DEF CountFailure, Countable, Usable
  <2>4. CASE LockRow(c)
    BY <1>1, <2>4 DEF LockRow, Lockable, Exhausted, Usable
  <2> QED BY <1>1, <1>2, <2>1, <2>2, <2>3, <2>4
          DEF CallStep, Start, Read, Reread, Abort, rowVars
<1>3. CASE Supersede \/ DeleteCode
  BY <1>1, <1>3 DEF Supersede, DeleteCode, MarkUsed
<1>4. CASE Tick \/ UNCHANGED vars
  BY <1>1, <1>4 DEF Tick, vars, rowVars
<1> QED BY <1>2, <1>3, <1>4 DEF Next

(* The calls and the exhausted counter: one step per action, and under it  *)
(* one per part.                                                           *)
LEMMA StepPreservesCalls ==
    IInv /\ [Next]_vars => CallsLagBehind' /\ ExhaustionIsLocked'
<1> SUFFICES ASSUME IInv, [Next]_vars
             PROVE  CallsLagBehind' /\ ExhaustionIsLocked'
  OBVIOUS
<1> DEFINE Goal == CallsLagBehind' /\ ExhaustionIsLocked'
<1>0. CallsLagBehind /\ ExhaustionIsLocked /\ now \in Nat /\ now \in Time
  BY Facts DEF IInv, RowOK, RowHasType
<1>1. ASSUME NEW c \in Calls, Start(c) PROVE Goal
  <2> DEFINE s == [call[c] EXCEPT !.step = "read", !.at = now]
  <2>1. s \in CallState /\ s.at = now /\ s.step = "read" /\ CallMoves(c, s)
    BY <1>0, <1>1 DEF Start, CallMoves, CallState, CallsLagBehind
  <2> HIDE DEF s
  <2>2. LagsBehind(s)
    BY <1>0, <2>1 DEF LagsBehind
  <2>3. CallsLagBehind' /\ \A d \in Calls \ {c} : call'[d] = call[d]
    BY <1>0, <1>1, <2>1, <2>2, MovePreservesCalls DEF Start
  <2> QED BY <1>0, <1>1, <2>3
          DEF Start, ExhaustionIsLocked, rowVars, At, Usable
<1>2. ASSUME NEW c \in Calls, Read(c) PROVE Goal
  <2>1. PICK s \in CallState : CallMoves(c, s) /\ LagsBehind(s)
    <3>1. CASE Step(c, "consume") \/ Step(c, "count")
      BY <1>0, <3>1, StepIsAMove
    <3>2. CASE Finish(c)
      BY <1>0, <3>2, FinishIsAMove
    <3>3. CASE /\ blockedUntil # 0 /\ Usable /\ InTime(call[c].at)
               /\ call' = [call EXCEPT ![c] =
                              [step |-> "clear", at |-> call[c].at,
                               count |-> count, blocked |-> blockedUntil]]
      <4>1. [step |-> "clear", at |-> call[c].at, count |-> count,
             blocked |-> blockedUntil] \in CallState
        BY Facts DEF CallState, IInv, RowOK, RowHasType
      <4> QED BY <3>3, <4>1, Facts DEF CallMoves, InTime, Unlocked, LagsBehind
    <3> QED BY <1>2, <3>1, <3>2, <3>3 DEF Read
  <2>2. CallsLagBehind' /\ \A d \in Calls \ {c} : call'[d] = call[d]
    BY <1>0, <1>2, <2>1, MovePreservesCalls DEF Read
  <2> QED BY <1>0, <1>2, <2>2
          DEF Read, ExhaustionIsLocked, rowVars, At, Usable
<1>3. ASSUME NEW c \in Calls, Consume(c) PROVE Goal
  <2>1. CallsLagBehind' /\ \A d \in Calls \ {c} : call'[d] = call[d]
    BY <1>0, <1>3, FinishIsAMove, MovePreservesCalls DEF Consume
  <2> QED BY <1>0, <1>3, <2>1
          DEF Consume, MarkUsed, ExhaustionIsLocked, At, Usable
<1>4. ASSUME NEW c \in Calls, ClearLock(c) PROVE Goal
  <2>1. CallsLagBehind' /\ \A d \in Calls \ {c} : call'[d] = call[d]
    BY <1>0, <1>4, StepIsAMove, MovePreservesCalls DEF ClearLock
  <2> QED BY <1>0, <1>4, <2>1, LimitsArePositive
          DEF ClearLock, ExhaustionIsLocked, At, Usable
<1>5. ASSUME NEW c \in Calls, CountFailure(c) PROVE Goal
  <2>1. CallsLagBehind' /\ call'[c].step = "reread"
    BY <1>0, <1>5, StepIsAMove, MovePreservesCalls DEF CountFailure
  <2> QED BY <2>1 DEF ExhaustionIsLocked, At
<1>6. ASSUME NEW c \in Calls, Reread(c) PROVE Goal
  <2>1. /\ CallsLagBehind'
        /\ \A d \in Calls \ {c} : call'[d] = call[d]
        /\ Usable /\ Unlocked(call[c].at) /\ Exhausted => At(c, "lock")'
    <3>1. CASE Usable /\ Unlocked(call[c].at) /\ Exhausted
      <4>1. PICK s \in CallState :
               CallMoves(c, s) /\ LagsBehind(s) /\ s.step = "lock"
        BY <1>0, <1>6, <3>1, StepIsAMove DEF Reread
      <4> QED BY <1>0, <1>6, <4>1, MovePreservesCalls DEF Reread, At
    <3>2. CASE ~(Usable /\ Unlocked(call[c].at) /\ Exhausted)
      BY <1>0, <1>6, <3>2, FinishIsAMove, MovePreservesCalls DEF Reread
    <3> QED BY <3>1, <3>2
  <2> QED BY <1>0, <1>6, <2>1, LimitsArePositive
          DEF Reread, ExhaustionIsLocked, rowVars, At, Usable, Unlocked,
              Exhausted
<1>7. ASSUME NEW c \in Calls, LockRow(c) PROVE Goal
  <2>1. CallsLagBehind' /\ \A d \in Calls \ {c} : call'[d] = call[d]
    BY <1>0, <1>7, FinishIsAMove, MovePreservesCalls DEF LockRow
  <2>2. CASE Lockable(c)
    <3>1. blockedUntil' # 0
      BY <1>7, <2>2, Facts, LimitsArePositive DEF LockRow
    <3> QED BY <2>1, <3>1 DEF ExhaustionIsLocked
  <2>3. CASE ~Lockable(c)
    BY <1>0, <1>7, <2>1, <2>3, LimitsArePositive
       DEF LockRow, Lockable, Unlocked, Exhausted, ExhaustionIsLocked, At,
           Usable
  <2> QED BY <2>2, <2>3
<1>8. ASSUME NEW c \in Calls, Abort(c) PROVE Goal
  <2>1. CallsLagBehind'
    BY <1>0, <1>8, FinishIsAMove, MovePreservesCalls DEF Abort
  <2> QED BY <1>8, <2>1 DEF Abort, ExhaustionIsLocked
<1>9. ASSUME Supersede \/ DeleteCode PROVE Goal
  <2>1. CallsLagBehind'
    BY <1>0, <1>9 DEF Supersede, DeleteCode, CallsLagBehind, LagsBehind
  <2>2. ~Usable'
    BY <1>9 DEF Supersede, DeleteCode, MarkUsed, Usable
  <2> QED BY <2>1, <2>2 DEF ExhaustionIsLocked
<1>10. CASE Tick
  <2>1. CallsLagBehind'
    BY <1>0, <1>10, Facts DEF Tick, CallsLagBehind, LagsBehind
  <2> QED BY <1>0, <1>10, <2>1 DEF Tick, ExhaustionIsLocked, rowVars, At, Usable
<1>11. CASE UNCHANGED vars
  BY <1>0, <1>11 DEF vars, rowVars, CallsLagBehind, LagsBehind,
                     ExhaustionIsLocked, At, Usable
<1> QED BY <1>1, <1>2, <1>3, <1>4, <1>5, <1>6, <1>7, <1>8, <1>9, <1>10,
           <1>11 DEF Next, CallStep

LEMMA StepPreservesIInv == IInv /\ [Next]_vars => IInv'
BY StepPreservesRowType, StepPreservesRow, StepPreservesCalls DEF IInv, RowOK

LEMMA IInvHolds == Spec => []IInv
BY InitEstablishesIInv, StepPreservesIInv, PTL DEF Spec

-----------------------------------------------------------------------------
(* Every state of the confirmation, for any number of concurrent calls. *)
THEOREM TypeCorrect == Spec => []TypeOK
<1>1. IInv => TypeOK
  BY DEF IInv, RowOK, RowHasType, CallsLagBehind, TypeOK
<1> QED BY <1>1, IInvHolds, PTL

(* One guess is let through, however many carry the right code at once. *)
THEOREM CodesAreAcceptedOnce == Spec => []AcceptedOnce
<1>1. IInv => AcceptedOnce
  BY DEF IInv, RowOK, RowHasType, AcceptedOnce
<1> QED BY <1>1, IInvHolds, PTL

(* Guessing never goes on unlocked past the limit while no call has died. *)
THEOREM ExhaustionLeadsToLock == Spec => []ExhaustionIsLocked
<1>1. IInv => ExhaustionIsLocked
  BY DEF IInv
<1> QED BY <1>1, IInvHolds, PTL

(* A lock is neither lifted nor moved before its time by calls that are    *)
(* still under way, and what it locks is not accepted.                     *)
THEOREM LocksHold == Spec => LockIsKept
<1>1. IInv /\ [Next]_vars => [LockHolds]_vars
  <2> SUFFICES ASSUME IInv, Next PROVE LockHolds
    OBVIOUS
  <2> SUFFICES ASSUME exists, blockedUntil > now
               PROVE  \/ blockedUntil' = blockedUntil
                      \/ used' /\ (accepted' = accepted \/ TakenAsRead)
    BY DEF LockHolds
  <2> USE Facts
  <2>0. /\ blockedUntil # 0
        /\ \A c \in Calls : ~(blockedUntil <= call[c].at)
    OBVIOUS
  <2>3. \A c \in Calls : ~Unlocked(call[c].at)
    BY <2>0, Zenon DEF Unlocked
  <2>1. \A c \in Calls : ~Unlocked(call[c].at) /\ ~InTime(call[c].at)
    BY <2>3, Zenon DEF InTime
  <2>2. ASSUME NEW c \in Calls, CallStep(c)
        PROVE  \/ blockedUntil' = blockedUntil
               \/ used' /\ (accepted' = accepted \/ TakenAsRead)
    <3>1. CASE ClearLock(c)
      <4>1. ~Clearable(c)
        BY <3>1 DEF ClearLock, Clearable
      <4> QED BY <3>1, <4>1 DEF ClearLock
    <3>2. CASE Consume(c)
      BY <2>1, <3>2 DEF Consume, Consumable, MarkUsed
    <3>3. CASE CountFailure(c)
      BY <2>1, <3>3 DEF CountFailure, Countable
    <3>4. CASE LockRow(c)
      BY <2>1, <3>4 DEF LockRow, Lockable
    <3> QED BY <2>2, <3>1, <3>2, <3>3, <3>4
            DEF CallStep, Start, Read, Reread, Abort, rowVars
  <2> QED BY <2>2 DEF Next, Supersede, MarkUsed, DeleteCode, Tick, rowVars
<1> QED BY <1>1, IInvHolds, PTL DEF Spec, LockIsKept

(* The counter goes down only with a lock that has run out, or with the    *)
(* code itself.                                                            *)
THEOREM FailuresStayCounted == Spec => FailuresAreRemembered
<1>1. IInv /\ [Next]_vars => [CountHolds]_vars
  <2> SUFFICES ASSUME IInv, Next, count' < count
               PROVE  used' \/ (blockedUntil # 0 /\ blockedUntil <= now)
    BY DEF CountHolds
  <2> USE Facts
  <2>1. ASSUME NEW c \in Calls, CallStep(c)
        PROVE  used' \/ (blockedUntil # 0 /\ blockedUntil <= now)
    <3>1. CASE ClearLock(c)
      <4>1. Clearable(c)
        BY <3>1 DEF ClearLock
      <4> QED BY <3>1, <4>1 DEF ClearLock, Clearable
    <3>2. CASE Consume(c)
      BY <3>2 DEF Consume, MarkUsed
    <3>3. CASE CountFailure(c)
      BY <3>3 DEF CountFailure
    <3> QED BY <2>1, <3>1, <3>2, <3>3
            DEF CallStep, Start, Read, Reread, LockRow, Abort, rowVars
  <2> QED BY <2>1 DEF Next, Supersede, MarkUsed, DeleteCode, Tick, rowVars
<1> QED BY <1>1, IInvHolds, PTL DEF Spec, FailuresAreRemembered

-----------------------------------------------------------------------------
(* Issuing codes: the parts of the inductive invariant.                    *)

(* Which steps a request takes depends on its token type. *)
StepsOfType ==
    \A r \in Requests :
        /\ tokenType = "EMAIL_VERIFY" => step[r] # "log"
        /\ tokenType = "PASSWORD_RESET" => step[r] # "window"
        /\ tokenType = "EMAIL_CHANGE" =>
              step[r] \in {"idle", "send", "delete", "ok", "failed"}

(* A row comes after the start of its request. *)
ClockOrder ==
    \A r \in Requests :
        /\ step[r] # "idle" => started[r] <= clock
        /\ id[r] # 0 => started[r] <= createdAt[r] /\ createdAt[r] <= clock

(* Ids are given out one by one, and a row is there once it has one. *)
Inserted == {r \in Requests : id[r] # 0}

RowOfStep ==
    \A r \in Requests :
        /\ id[r] = 0 <=> code[r] = "none"
        /\ step[r] \in {"idle", "window", "log", "insert"} => id[r] = 0
        /\ step[r] \in {"send", "retire", "delete", "ok"} => r \in Rows

IdsAreOrdered ==
    /\ \A r \in Requests : id[r] <= Cardinality(Inserted)
    /\ \A r, s \in Inserted : id[r] = id[s] => r = s

(* A recovery request is logged at the time it started, before its row.    *)
LogsAreStarts ==
    \A r \in Requests :
        /\ logged[r] # NoLog => /\ logged[r] = started[r]
                                /\ step[r] \notin {"idle", "window", "log"}
        /\ tokenType = "PASSWORD_RESET" /\ (id[r] # 0 \/ step[r] = "insert")
               => logged[r] # NoLog

(* A log row is deleted only when a newer one is a window away. *)
PrunedIsOld ==
    \A q \in pruned : /\ q \in Granted
                      /\ \E p \in Logs : logged[q] + Window <= logged[p]

(* What a sign-up request has seen: the rows that were there are cool.     *)
RowsSeenAreCool ==
    tokenType = "EMAIL_VERIFY" =>
        \A r \in Requests : step[r] \in {"window", "insert"} \/ id[r] # 0 =>
            \A s \in Rows : \/ started[r] <= createdAt[s]
                            \/ createdAt[s] + Cooldown <= started[r]

(* A code that was retired, not spent, has a newer one that stays, or was  *)
(* retired by a request with an older row that had not finished.           *)
RetiredBy(s, r) ==
    \/ /\ id[s] > id[r]
       /\ tokenType = "EMAIL_CHANGE" \/ (StepIs(s, "ok") /\ s \in Rows)
    \/ /\ tokenType # "EMAIL_CHANGE"
       /\ s \in rivals[r] /\ StepIs(s, "ok")

RetiredForCause ==
    \A r \in Requests : code[r] = "used" /\ r \notin spent =>
        \E s \in Requests : RetiredBy(s, r)

(* Rivals have older rows, and an unfinished request has every later row   *)
(* as a rival.                                                             *)
RivalsAreOlder ==
    \A r \in Requests :
        /\ id[r] = 0 => rivals[r] = {}
        /\ \A s \in rivals[r] : s \in Requests /\ id[s] # 0 /\ id[s] < id[r]
        /\ \A s \in Inserted : id[s] < id[r] /\ Running(s) => s \in rivals[r]

IssueInv ==
    /\ IssueTypeOK
    /\ StepsOfType
    /\ ClockOrder
    /\ RowOfStep
    /\ IdsAreOrdered
    /\ LogsAreStarts
    /\ PrunedIsOld
    /\ RowsSeenAreCool
    /\ RetiredForCause
    /\ RivalsAreOlder
    /\ OlderCodesAreDead
    /\ CooldownKept
    /\ LimitKept


-----------------------------------------------------------------------------
(* The rate limit as facts about a set of requests and their times.        *)
SpacedOut(S, at, span) ==
    \A r, s \in S : r # s => \/ at[r] + span <= at[s]
                             \/ at[s] + span <= at[r]

InSpan(S, at, a) == {s \in S : at[s] \in at[a]..(at[a] + Window - 1)}

WithinLimit(S, at) == \A a \in S : Cardinality(InSpan(S, at, a)) <= Limit

(* Sets of requests are finite. *)
LEMMA RequestSetsAreFinite ==
    ASSUME NEW S \in SUBSET Requests
    PROVE  /\ IsFiniteSet(S)
           /\ Cardinality(S) \in Nat
           /\ \A T \in SUBSET S : Cardinality(T) <= Cardinality(S)
<1>1. IsFiniteSet(S)
  BY FS_Subset, RequestsAreFinite
<1>2. Cardinality(S) \in Nat
  BY <1>1, FS_CardinalityType
<1>3. \A T \in SUBSET S : Cardinality(T) <= Cardinality(S)
  BY <1>1, FS_Subset
<1> QED BY <1>1, <1>2, <1>3

(* A request whose time is a cooldown after all others keeps them spaced.  *)
LEMMA NewcomerKeepsSpacing ==
    ASSUME NEW S \in SUBSET Requests, NEW at \in [Requests -> Nat],
           NEW r \in Requests, NEW t \in Nat, NEW span, SpacedOut(S, at, span),
           r \notin S, \A s \in S : at[s] + span <= t
    PROVE  SpacedOut(S \cup {r}, [at EXCEPT ![r] = t], span)
BY DEF SpacedOut

LEMMA FewerKeepSpacing ==
    ASSUME NEW S, NEW T \in SUBSET S, NEW at, NEW span, SpacedOut(S, at, span)
    PROVE  SpacedOut(T, at, span)
BY DEF SpacedOut

(* A request of time t keeps the limit when fewer than Limit others, R,    *)
(* are not a window older: a window that holds it holds only R besides.    *)
LEMMA NewcomerKeepsLimit ==
    ASSUME NEW S \in SUBSET Requests, NEW at \in [Requests -> Nat],
           NEW r \in Requests, NEW t \in Nat, WithinLimit(S, at), r \notin S,
           NEW R \in SUBSET S, Cardinality(R) < Limit,
           \A s \in S \ R : at[s] + Window <= t
    PROVE  WithinLimit(S \cup {r}, [at EXCEPT ![r] = t])
<1> DEFINE new == [at EXCEPT ![r] = t]
           N == S \cup {r}
<1>0. Window \in Nat /\ Limit \in Nat
  BY SpansAreNat, SendLimitsArePositive
<1>1. \A s \in S : new[s] = at[s] /\ at[s] \in Nat
  OBVIOUS
<1>2. new[r] = t
  OBVIOUS
<1> SUFFICES ASSUME NEW a \in N
             PROVE  Cardinality(InSpan(N, new, a)) <= Limit
  BY DEF WithinLimit
<1>3. N \in SUBSET Requests /\ R \in SUBSET Requests
  OBVIOUS
<1>4. CASE t \in new[a]..(new[a] + Window - 1)
  <2>1. new[a] \in Nat
    BY <1>1, <1>2
  <2>2. \A s \in S \ R : s \notin InSpan(N, new, a)
    BY <1>0, <1>1, <1>4, <2>1 DEF InSpan
  <2>3. InSpan(N, new, a) \subseteq R \cup {r}
    BY <2>2 DEF InSpan
  <2>4. IsFiniteSet(R) /\ Cardinality(R) \in Nat
    BY <1>3, RequestSetsAreFinite
  <2>5. IsFiniteSet(R \cup {r}) /\ Cardinality(R \cup {r}) = Cardinality(R) + 1
    BY <2>4, FS_AddElement
  <2>6. Cardinality(InSpan(N, new, a)) <= Cardinality(R \cup {r})
    BY <2>3, <2>5, FS_Subset
  <2>7. Cardinality(InSpan(N, new, a)) \in Nat
    BY <1>3, RequestSetsAreFinite DEF InSpan
  <2> QED BY <1>0, <2>4, <2>5, <2>6, <2>7
<1>5. CASE t \notin new[a]..(new[a] + Window - 1)
  <2>1. a # r
    <3>1. Window > 0
      BY SpansAreNat
    <3> QED BY <1>0, <1>2, <1>5, <3>1
  <2>2. a \in S
    BY <2>1
  <2>3. InSpan(N, new, a) = InSpan(S, at, a)
    BY <1>1, <1>2, <1>5, <2>2 DEF InSpan
  <2> QED BY <2>2, <2>3 DEF WithinLimit
<1> QED BY <1>4, <1>5

LEMMA FewerKeepLimit ==
    ASSUME NEW S \in SUBSET Requests, NEW T \in SUBSET S, NEW at,
           WithinLimit(S, at)
    PROVE  WithinLimit(T, at)
<1> SUFFICES ASSUME NEW a \in T
             PROVE  Cardinality(InSpan(T, at, a)) <= Limit
  BY DEF WithinLimit
<1>1. InSpan(T, at, a) \subseteq InSpan(S, at, a)
  BY DEF InSpan
<1>2. InSpan(S, at, a) \in SUBSET Requests
  BY DEF InSpan
<1>3. Cardinality(InSpan(T, at, a)) <= Cardinality(InSpan(S, at, a))
  BY <1>1, <1>2, RequestSetsAreFinite
<1>4. Cardinality(InSpan(S, at, a)) <= Limit
  BY DEF WithinLimit
<1>5. InSpan(T, at, a) \in SUBSET Requests
  BY <1>1, <1>2
<1>6. Cardinality(InSpan(T, at, a)) \in Nat /\ Cardinality(InSpan(S, at, a)) \in Nat
  BY <1>2, <1>5, RequestSetsAreFinite
<1> QED BY <1>3, <1>4, <1>6, SendLimitsArePositive

-----------------------------------------------------------------------------
(* The constants, as the arithmetic below uses them. *)
LEMMA SpansAreOrdered ==
    /\ Cooldown \in Nat /\ Cooldown > 0 /\ Window \in Nat /\ Window > 0
    /\ Spacing \in Nat /\ Spacing > 0 /\ Spacing <= Cooldown
    /\ tokenType = "PASSWORD_RESET" => Spacing <= Window
    /\ tokenType # "PASSWORD_RESET" => Spacing = Cooldown
    /\ MaxTime \in Nat /\ NoLog \in Nat /\ NoLog \notin Times
    /\ Times \subseteq Nat /\ 0 \in Times
    /\ Limit \in Nat
BY SendLimitsArePositive, SpansAreNat DEF NoLog, Times, Spacing

LEMMA ColumnsAreNat ==
    ASSUME IssueTypeOK
    PROVE  /\ clock \in Nat /\ started \in [Requests -> Nat]
           /\ createdAt \in [Requests -> Nat] /\ id \in [Requests -> Nat]
           /\ logged \in [Requests -> Nat] /\ DOMAIN step = Requests
<1>1. \A n \in 0..Cardinality(Requests) : n \in Nat
  BY RequestSetsAreFinite
<1>2. /\ clock \in Times /\ DOMAIN step = Requests
      /\ started \in [Requests -> Times] /\ createdAt \in [Requests -> Times]
      /\ id \in [Requests -> 0..Cardinality(Requests)]
      /\ logged \in [Requests -> Times \cup {NoLog}]
  BY DEF IssueTypeOK
<1>3. Times \subseteq Nat /\ NoLog \in Nat
  BY SpansAreOrdered
<1> QED BY <1>1, <1>2, <1>3

(* Retiring codes neither adds a row nor removes one. *)
LEMMA RetiringKeepsRows ==
    ASSUME IssueTypeOK, NEW S
    PROVE  /\ Retired(S) \in [Requests -> {"none", "unused", "used", "deleted"}]
           /\ \A r \in Requests :
                 /\ Retired(S)[r] = "none" <=> code[r] = "none"
                 /\ Retired(S)[r] \in {"unused", "used"} <=> r \in Rows
                 /\ r \notin S => Retired(S)[r] = code[r]
                 /\ Retired(S)[r] = "used" =>
                       code[r] = "used" \/ (r \in S /\ code[r] = "unused")
BY DEF Retired, Rows, IssueTypeOK

(* An inserted row gets the highest id, which is one of the ids there are. *)
LEMMA InsertingTakesTheNextId ==
    ASSUME IssueTypeOK, NEW r \in Requests, id[r] = 0,
           NEW rows \in [Requests -> {"none", "unused", "used", "deleted"}],
           Insert(r, rows)
    PROVE  /\ id' = [id EXCEPT ![r] = Cardinality(Inserted) + 1]
           /\ Cardinality(Inserted) + 1 \in 1..Cardinality(Requests)
           /\ Inserted' = Inserted \cup {r}
           /\ Cardinality(Inserted') = Cardinality(Inserted) + 1
<1>1. id' = [id EXCEPT ![r] = Cardinality(Inserted) + 1]
  BY DEF Insert, Inserted
<1>2. Inserted \in SUBSET Requests /\ r \notin Inserted
  BY DEF Inserted
<1>3. IsFiniteSet(Inserted) /\ Cardinality(Inserted) \in Nat
  BY <1>2, RequestSetsAreFinite
<1>4. Inserted' = Inserted \cup {r}
  <2>1. id \in [Requests -> 0..Cardinality(Requests)]
    BY DEF IssueTypeOK
  <2>2. Cardinality(Inserted) + 1 # 0
    BY <1>3
  <2>3. \A q \in Requests : id'[q] # 0 <=> q = r \/ id[q] # 0
    BY <1>1, <2>1, <2>2
  <2> QED BY <2>3 DEF Inserted
<1>5. Cardinality(Inserted') = Cardinality(Inserted) + 1
  BY <1>2, <1>3, <1>4, FS_AddElement
<1>6. Inserted' \in SUBSET Requests
  BY <1>2, <1>4
<1>7. Cardinality(Inserted') <= Cardinality(Requests)
      /\ Cardinality(Requests) \in Nat
  BY <1>6, RequestSetsAreFinite
<1> QED BY <1>1, <1>3, <1>4, <1>5, <1>7

-----------------------------------------------------------------------------
LEMMA InitEstablishesIssueInv == IssueInit => IssueInv
<1> SUFFICES ASSUME IssueInit PROVE IssueInv
  OBVIOUS
<1> USE SpansAreOrdered DEF IssueInit
<1>1. IssueTypeOK
  BY RequestSetsAreFinite DEF IssueTypeOK
<1>2. Granted = {} /\ Rows = {} /\ Inserted = {}
  BY DEF Granted, Rows, Inserted
<1>3. StepsOfType /\ ClockOrder
  BY DEF StepsOfType, ClockOrder
<1>4. RowOfStep /\ RetiredForCause
  BY DEF RowOfStep, RetiredForCause
<1>5. IdsAreOrdered /\ RivalsAreOlder /\ OlderCodesAreDead
  BY <1>2, RequestSetsAreFinite DEF IdsAreOrdered, RivalsAreOlder, OlderCodesAreDead
<1>6. LogsAreStarts /\ PrunedIsOld /\ RowsSeenAreCool
  BY <1>2 DEF LogsAreStarts, PrunedIsOld, RowsSeenAreCool
<1>7. CooldownKept /\ LimitKept
  BY <1>2 DEF CooldownKept, OnlyOverlapping, Spaced, LimitKept, Counted
<1> QED BY <1>1, <1>3, <1>4, <1>5, <1>6, <1>7 DEF IssueInv

(* Types, and which step follows which.                                    *)
LEMMA StepKeepsTypes ==
    ASSUME IssueInv, IssueNext PROVE IssueTypeOK'
<1> USE SpansAreOrdered DEF IssueTypeOK
<1>0. IssueTypeOK /\ RowOfStep
  BY DEF IssueInv
<1>a. ASSUME NEW r \in Requests, RequestStep(r) PROVE IssueTypeOK'
  <2>1. CASE CheckCooldown(r)
    BY <1>0, <2>1 DEF CheckCooldown, Goto, codeVars, logVars
  <2>2. CASE CheckWindow(r)
    BY <1>0, <2>2 DEF CheckWindow, Goto, codeVars, logVars
  <2>3. CASE StartRecovery(r)
    BY <1>0, <2>3 DEF StartRecovery, Goto, codeVars, logVars
  <2>4. CASE RecordRecoveryRequest(r)
    BY <1>0, <2>4 DEF RecordRecoveryRequest, Goto, codeVars, logVars, Granted
  <2>5. CASE InsertCode(r)
    <3>1. id[r] = 0
      BY <1>0, <2>5 DEF InsertCode, StepIs, RowOfStep
    <3>2. Insert(r, code)
      BY <2>5 DEF InsertCode
    <3>3. id' \in [Requests -> 0..Cardinality(Requests)]
      BY <1>0, <3>1, <3>2, InsertingTakesTheNextId
    <3> QED BY <1>0, <2>5, <3>3 DEF InsertCode, Insert, Goto, logVars
  <2>6. CASE IssueUnderLock(r)
    <3>1. CASE Allowed(Rows, createdAt, clock)
      <4>1. id[r] = 0
        BY <1>0, <2>6 DEF IssueUnderLock, StepIs, RowOfStep
      <4>2. Insert(r, Retired(Requests)) /\ Goto(r, "send")
        BY <2>6, <3>1 DEF IssueUnderLock
      <4>3. Retired(Requests) \in [Requests -> {"none", "unused", "used", "deleted"}]
        BY <1>0, RetiringKeepsRows
      <4>4. id' \in [Requests -> 0..Cardinality(Requests)]
        BY <1>0, <4>1, <4>2, <4>3, InsertingTakesTheNextId
      <4> QED BY <1>0, <2>6, <4>2, <4>3, <4>4 DEF IssueUnderLock, Insert, Goto, logVars
    <3>2. CASE ~Allowed(Rows, createdAt, clock)
      BY <1>0, <2>6, <3>2 DEF IssueUnderLock, Goto, codeVars, logVars
    <3> QED BY <3>1, <3>2
  <2>7. CASE Send(r)
    BY <1>0, <2>7 DEF Send, Goto, codeVars, logVars
  <2>8. CASE RetireOthers(r)
    BY <1>0, <2>8, RetiringKeepsRows DEF RetireOthers, Goto, logVars
  <2>9. CASE DeleteUndelivered(r)
    BY <1>0, <2>9 DEF DeleteUndelivered, Goto, logVars
  <2>10. CASE Crash(r)
    BY <1>0, <2>10 DEF Crash, Goto, codeVars, logVars
  <2> QED BY <1>a, <2>1, <2>2, <2>3, <2>4, <2>5, <2>6, <2>7, <2>8, <2>9, <2>10
        DEF RequestStep
<1>b. ASSUME NEW r \in Requests, Confirm(r) PROVE IssueTypeOK'
  BY <1>0, <1>b, RetiringKeepsRows DEF Confirm, logVars
<1>c. CASE TimePasses
  BY <1>0, <1>c DEF TimePasses, codeVars, logVars, Times
<1> QED BY <1>a, <1>b, <1>c DEF IssueNext

LEMMA StepKeepsStepsOfType ==
    ASSUME IssueInv, IssueNext PROVE StepsOfType'
<1>0. IssueTypeOK /\ StepsOfType
  BY DEF IssueInv
<1>a. ASSUME NEW r \in Requests, RequestStep(r) PROVE StepsOfType'
  BY <1>0, <1>a DEF RequestStep, CheckCooldown, CheckWindow, StartRecovery,
     RecordRecoveryRequest, InsertCode, IssueUnderLock, Send, RetireOthers,
     DeleteUndelivered, Crash, Goto, StepIs, StepsOfType, IssueTypeOK
<1>b. ASSUME NEW r \in Requests, Confirm(r) PROVE StepsOfType'
  BY <1>0, <1>b DEF Confirm, StepsOfType
<1>c. CASE TimePasses
  BY <1>0, <1>c DEF TimePasses, StepsOfType
<1> QED BY <1>a, <1>b, <1>c DEF IssueNext

LEMMA StepKeepsClockOrder ==
    ASSUME IssueInv, IssueNext PROVE ClockOrder'
<1> USE SpansAreOrdered DEF ClockOrder
<1>0. IssueTypeOK /\ ClockOrder /\ RowOfStep
  BY DEF IssueInv
<1>1. /\ clock \in Nat /\ started \in [Requests -> Nat]
      /\ createdAt \in [Requests -> Nat] /\ DOMAIN step = Requests
      /\ id \in [Requests -> Nat]
  BY <1>0, ColumnsAreNat
<1>a. ASSUME NEW r \in Requests, RequestStep(r) PROVE ClockOrder'
  <2>1. CASE CheckCooldown(r)
    BY <1>0, <1>1, <2>1 DEF CheckCooldown, Goto, StepIs, RowOfStep, codeVars
  <2>2. CASE CheckWindow(r)
    BY <1>0, <1>1, <2>2 DEF CheckWindow, Goto, StepIs, codeVars
  <2>3. CASE StartRecovery(r)
    BY <1>0, <1>1, <2>3 DEF StartRecovery, Goto, StepIs, RowOfStep, codeVars
  <2>4. CASE RecordRecoveryRequest(r)
    BY <1>0, <1>1, <2>4 DEF RecordRecoveryRequest, Goto, StepIs, codeVars
  <2>5. CASE InsertCode(r)
    <3>1. \A q \in Requests \ {r} : id'[q] = id[q] /\ createdAt'[q] = createdAt[q]
      BY <1>1, <2>5 DEF InsertCode, Insert
    <3>2. createdAt'[r] = clock
      BY <1>1, <2>5 DEF InsertCode, Insert
    <3> QED BY <1>0, <1>1, <2>5, <3>1, <3>2 DEF InsertCode, Goto, StepIs
  <2>6. CASE IssueUnderLock(r)
    <3>1. CASE Allowed(Rows, createdAt, clock)
      <4>1. \A q \in Requests \ {r} : id'[q] = id[q] /\ createdAt'[q] = createdAt[q]
        BY <1>1, <2>6, <3>1 DEF IssueUnderLock, Insert
      <4>2. createdAt'[r] = clock
        BY <1>1, <2>6, <3>1 DEF IssueUnderLock, Insert
      <4>3. started' = [started EXCEPT ![r] = clock] /\ clock' = clock
            /\ step' = [step EXCEPT ![r] = "send"]
        BY <2>6, <3>1 DEF IssueUnderLock, Goto
      <4> QED BY <1>0, <1>1, <4>1, <4>2, <4>3
    <3>2. CASE ~Allowed(Rows, createdAt, clock)
      BY <1>0, <1>1, <2>6, <3>2 DEF IssueUnderLock, Goto, StepIs, RowOfStep, codeVars
    <3> QED BY <3>1, <3>2
  <2>7. CASE Send(r)
    BY <1>0, <1>1, <2>7 DEF Send, Goto, StepIs, codeVars
  <2>8. CASE RetireOthers(r)
    BY <1>0, <1>1, <2>8 DEF RetireOthers, Goto, StepIs
  <2>9. CASE DeleteUndelivered(r)
    BY <1>0, <1>1, <2>9 DEF DeleteUndelivered, Goto, StepIs
  <2>10. CASE Crash(r)
    BY <1>0, <1>1, <2>10 DEF Crash, Goto, codeVars, Running
  <2> QED BY <1>a, <2>1, <2>2, <2>3, <2>4, <2>5, <2>6, <2>7, <2>8, <2>9, <2>10
        DEF RequestStep
<1>b. ASSUME NEW r \in Requests, Confirm(r) PROVE ClockOrder'
  BY <1>0, <1>b DEF Confirm
<1>c. CASE TimePasses
  BY <1>0, <1>1, <1>c DEF TimePasses, codeVars
<1> QED BY <1>a, <1>b, <1>c DEF IssueNext

LEMMA StepKeepsRowOfStep ==
    ASSUME IssueInv, IssueNext PROVE RowOfStep'
<1> USE DEF RowOfStep, Rows
<1>0. IssueTypeOK /\ RowOfStep
  BY DEF IssueInv
<1>1. DOMAIN step = Requests /\ DOMAIN id = Requests /\ DOMAIN code = Requests
      /\ code \in [Requests -> {"none", "unused", "used", "deleted"}]
  BY <1>0 DEF IssueTypeOK
<1>a. ASSUME NEW r \in Requests, RequestStep(r) PROVE RowOfStep'
  <2>1. CASE CheckCooldown(r)
    BY <1>0, <1>1, <2>1 DEF CheckCooldown, Goto, StepIs, codeVars
  <2>2. CASE CheckWindow(r)
    BY <1>0, <1>1, <2>2 DEF CheckWindow, Goto, StepIs, codeVars
  <2>3. CASE StartRecovery(r)
    BY <1>0, <1>1, <2>3 DEF StartRecovery, Goto, StepIs, codeVars
  <2>4. CASE RecordRecoveryRequest(r)
    BY <1>0, <1>1, <2>4 DEF RecordRecoveryRequest, Goto, StepIs, codeVars
  <2>5. CASE InsertCode(r)
    <3>1. id' = [id EXCEPT ![r] = Cardinality(Inserted) + 1]
          /\ Cardinality(Inserted) + 1 \in 1..Cardinality(Requests)
      BY <1>0, <1>1, <2>5, InsertingTakesTheNextId DEF InsertCode, StepIs
    <3>2. \A q \in Requests : IF q = r THEN id'[q] # 0 ELSE id'[q] = id[q]
      BY <1>1, <3>1, RequestSetsAreFinite
    <3> QED BY <1>0, <1>1, <2>5, <3>2 DEF InsertCode, Insert, Goto, StepIs
  <2>6. CASE IssueUnderLock(r)
    <3>1. CASE Allowed(Rows, createdAt, clock)
      <4> DEFINE rows == Retired(Requests)
      <4>1. Insert(r, rows) /\ step' = [step EXCEPT ![r] = "send"] /\ id[r] = 0
        BY <1>0, <2>6, <3>1 DEF IssueUnderLock, StepIs, Goto
      <4>2. rows \in [Requests -> {"none", "unused", "used", "deleted"}]
        BY <1>0, RetiringKeepsRows
      <4>3. id' = [id EXCEPT ![r] = Cardinality(Inserted) + 1]
            /\ Cardinality(Inserted) + 1 \in 1..Cardinality(Requests)
        BY <1>0, <4>1, <4>2, InsertingTakesTheNextId
      <4>4. \A q \in Requests : IF q = r THEN id'[q] # 0 ELSE id'[q] = id[q]
        BY <1>1, <4>3, RequestSetsAreFinite
      <4>5. \A q \in Requests \ {r} :
               /\ code'[q] = "none" <=> code[q] = "none"
               /\ code'[q] \in {"unused", "used"} <=> code[q] \in {"unused", "used"}
        BY <1>0, <4>1, <4>2, RetiringKeepsRows DEF Insert
      <4>6. code'[r] = "unused"
        BY <4>1, <4>2 DEF Insert
      <4> HIDE DEF rows
      <4> QED BY <1>0, <1>1, <4>1, <4>4, <4>5, <4>6
    <3>2. CASE ~Allowed(Rows, createdAt, clock)
      BY <1>0, <1>1, <2>6, <3>2 DEF IssueUnderLock, Goto, StepIs, codeVars
    <3> QED BY <3>1, <3>2
  <2>7. CASE Send(r)
    BY <1>0, <1>1, <2>7 DEF Send, Goto, StepIs, codeVars
  <2>8. CASE RetireOthers(r)
    BY <1>0, <1>1, <2>8, RetiringKeepsRows DEF RetireOthers, Goto, StepIs
  <2>9. CASE DeleteUndelivered(r)
    BY <1>0, <1>1, <2>9 DEF DeleteUndelivered, Goto, StepIs
  <2>10. CASE Crash(r)
    BY <1>0, <1>1, <2>10 DEF Crash, Goto, codeVars, Running
  <2> QED BY <1>a, <2>1, <2>2, <2>3, <2>4, <2>5, <2>6, <2>7, <2>8, <2>9, <2>10
        DEF RequestStep
<1>b. ASSUME NEW r \in Requests, Confirm(r) PROVE RowOfStep'
  BY <1>0, <1>1, <1>b, RetiringKeepsRows DEF Confirm
<1>c. CASE TimePasses
  BY <1>0, <1>c DEF TimePasses, codeVars
<1> QED BY <1>a, <1>b, <1>c DEF IssueNext

(* A step that inserts, and what the other steps leave as it is.           *)
LEMMA OnlyInsertionsGiveIds ==
    ASSUME IssueInv, IssueNext
    PROVE  \/ UNCHANGED <<id, createdAt, rivals>> /\ Rows' \subseteq Rows
           \/ \E r \in Requests :
                 /\ InsertCode(r) \/ (IssueUnderLock(r) /\ Allowed(Rows, createdAt, clock))
                 /\ id[r] = 0 /\ r \notin Rows
                 /\ id' = [id EXCEPT ![r] = Cardinality(Inserted) + 1]
                 /\ createdAt' = [createdAt EXCEPT ![r] = clock]
                 /\ rivals' = [rivals EXCEPT ![r] = {q \in Inserted : Running(q)}]
                 /\ Inserted' = Inserted \cup {r}
                 /\ Rows' = Rows \cup {r}
                 /\ Cardinality(Inserted') = Cardinality(Inserted) + 1
                 /\ Cardinality(Inserted) \in Nat
<1>0. IssueTypeOK /\ RowOfStep
  BY DEF IssueInv
<1>1. code \in [Requests -> {"none", "unused", "used", "deleted"}]
  BY <1>0 DEF IssueTypeOK
<1>2. Cardinality(Inserted) \in Nat
  BY RequestSetsAreFinite DEF Inserted
<1>3. ASSUME NEW r \in Requests, InsertCode(r)
      PROVE  /\ id[r] = 0 /\ r \notin Rows /\ Insert(r, code)
             /\ Rows' = Rows \cup {r}
  <2>1. id[r] = 0 /\ code[r] = "none" /\ Insert(r, code)
    BY <1>0, <1>3 DEF InsertCode, StepIs, RowOfStep
  <2> QED BY <1>1, <2>1 DEF Insert, Rows
<1>4. ASSUME NEW r \in Requests, IssueUnderLock(r), Allowed(Rows, createdAt, clock)
      PROVE  /\ id[r] = 0 /\ r \notin Rows /\ Insert(r, Retired(Requests))
             /\ Rows' = Rows \cup {r}
  <2>1. id[r] = 0 /\ code[r] = "none" /\ Insert(r, Retired(Requests))
    BY <1>0, <1>4 DEF IssueUnderLock, StepIs, RowOfStep
  <2> QED BY <1>0, <1>1, <2>1, RetiringKeepsRows DEF Insert, Rows
<1>5. Retired(Requests) \in [Requests -> {"none", "unused", "used", "deleted"}]
  BY <1>0, RetiringKeepsRows
<1>6. CASE \E r \in Requests : InsertCode(r)
  <2> PICK r \in Requests : InsertCode(r)
    BY <1>6
  <2>1. id[r] = 0 /\ r \notin Rows /\ Insert(r, code) /\ Rows' = Rows \cup {r}
    BY <1>3
  <2>2. /\ createdAt' = [createdAt EXCEPT ![r] = clock]
        /\ rivals' = [rivals EXCEPT ![r] = {q \in Inserted : Running(q)}]
    <3>1. {q \in Requests : id[q] # 0 /\ Running(q)} = {q \in Inserted : Running(q)}
      BY DEF Inserted
    <3> QED BY <2>1, <3>1 DEF Insert
  <2> QED BY <1>0, <1>1, <1>2, <2>1, <2>2, InsertingTakesTheNextId
<1>7. CASE \E r \in Requests : IssueUnderLock(r) /\ Allowed(Rows, createdAt, clock)
  <2> PICK r \in Requests : IssueUnderLock(r) /\ Allowed(Rows, createdAt, clock)
    BY <1>7
  <2>1. id[r] = 0 /\ r \notin Rows /\ Insert(r, Retired(Requests))
        /\ Rows' = Rows \cup {r}
    BY <1>4
  <2>2. /\ createdAt' = [createdAt EXCEPT ![r] = clock]
        /\ rivals' = [rivals EXCEPT ![r] = {q \in Inserted : Running(q)}]
    <3>1. {q \in Requests : id[q] # 0 /\ Running(q)} = {q \in Inserted : Running(q)}
      BY DEF Inserted
    <3> QED BY <2>1, <3>1 DEF Insert
  <2> QED BY <1>0, <1>2, <1>5, <2>1, <2>2, InsertingTakesTheNextId
<1>8. ASSUME NEW r \in Requests, RequestStep(r), ~InsertCode(r),
             ~(IssueUnderLock(r) /\ Allowed(Rows, createdAt, clock))
      PROVE  UNCHANGED <<id, createdAt, rivals>> /\ Rows' \subseteq Rows
  <2>1. CASE RetireOthers(r)
    BY <1>0, <2>1, RetiringKeepsRows DEF RetireOthers, Rows
  <2>2. CASE DeleteUndelivered(r)
    BY <1>1, <2>2 DEF DeleteUndelivered, Rows
  <2>3. CASE IssueUnderLock(r)
    BY <1>8, <2>3 DEF IssueUnderLock, Rows, codeVars
  <2>4. CASE CheckCooldown(r) \/ CheckWindow(r) \/ StartRecovery(r)
             \/ RecordRecoveryRequest(r) \/ Send(r) \/ Crash(r)
    BY <2>4 DEF CheckCooldown, CheckWindow, StartRecovery,
       RecordRecoveryRequest, Send, Crash, codeVars, Rows
  <2> QED BY <1>8, <2>1, <2>2, <2>3, <2>4 DEF RequestStep
<1>9. ASSUME NEW r \in Requests, Confirm(r)
      PROVE  UNCHANGED <<id, createdAt, rivals>> /\ Rows' \subseteq Rows
  BY <1>0, <1>1, <1>9, RetiringKeepsRows DEF Confirm, Rows
<1>10. CASE TimePasses
  BY <1>10 DEF TimePasses, codeVars, Rows
<1> QED BY <1>6, <1>7, <1>8, <1>9, <1>10 DEF IssueNext

LEMMA StepKeepsIdsOrdered ==
    ASSUME IssueInv, IssueNext PROVE IdsAreOrdered'
<1>0. IssueTypeOK /\ IdsAreOrdered
  BY DEF IssueInv
<1>1. id \in [Requests -> Nat]
  BY <1>0, ColumnsAreNat
<1>2. CASE UNCHANGED id
  BY <1>0, <1>2 DEF IdsAreOrdered, Inserted
<1>3. CASE \E r \in Requests :
             /\ id[r] = 0
             /\ id' = [id EXCEPT ![r] = Cardinality(Inserted) + 1]
             /\ Inserted' = Inserted \cup {r}
             /\ Cardinality(Inserted') = Cardinality(Inserted) + 1
             /\ Cardinality(Inserted) \in Nat
  <2> PICK r \in Requests :
             /\ id[r] = 0
             /\ id' = [id EXCEPT ![r] = Cardinality(Inserted) + 1]
             /\ Inserted' = Inserted \cup {r}
             /\ Cardinality(Inserted') = Cardinality(Inserted) + 1
             /\ Cardinality(Inserted) \in Nat
    BY <1>3
  <2>1. \A q \in Requests : id[q] <= Cardinality(Inserted)
    BY <1>0 DEF IdsAreOrdered
  <2>2. \A q \in Requests : id'[q] = IF q = r THEN Cardinality(Inserted) + 1 ELSE id[q]
    BY <1>1
  <2>3. \A q \in Requests : id'[q] <= Cardinality(Inserted')
    BY <1>1, <2>1, <2>2
  <2>4. \A p, q \in Inserted' : id'[p] = id'[q] => p = q
    BY <1>0, <1>1, <2>1, <2>2 DEF IdsAreOrdered, Inserted
  <2> QED BY <2>3, <2>4 DEF IdsAreOrdered
<1> QED BY <1>2, <1>3, OnlyInsertionsGiveIds

(* A step that logs a request of time started[r], and what the others      *)
(* leave as it is.                                                         *)
LEMMA OnlyRecordingLogs ==
    ASSUME IssueInv, IssueNext
    PROVE  \/ UNCHANGED logVars
           \/ \E r \in Requests :
                 LET kept == Recent(Logs, logged, started[r], Window) IN
                 /\ StepIs(r, "log") /\ tokenType = "PASSWORD_RESET"
                 /\ Goto(r, "insert") /\ UNCHANGED <<started, tokenType>>
                 /\ r \notin Granted
                 /\ Allowed(kept, logged, started[r])
                 /\ logged' = [logged EXCEPT ![r] = started[r]]
                 /\ pruned' = Granted \ kept
                 /\ Granted' = Granted \cup {r}
                 /\ kept \subseteq Granted
<1>0. IssueTypeOK /\ StepsOfType /\ LogsAreStarts
  BY DEF IssueInv
<1>1. ASSUME NEW r \in Requests, RequestStep(r), ~RecordRecoveryRequest(r)
      PROVE  UNCHANGED logVars
  BY <1>1 DEF RequestStep, CheckCooldown, CheckWindow, StartRecovery,
     InsertCode, IssueUnderLock, Send, RetireOthers, DeleteUndelivered, Crash
<1>2. ASSUME NEW r \in Requests, Confirm(r) \/ TimePasses
      PROVE  UNCHANGED logVars
  BY <1>2 DEF Confirm, TimePasses, logVars
<1>3. CASE TimePasses
  BY <1>3 DEF TimePasses
<1>4. ASSUME NEW r \in Requests, RecordRecoveryRequest(r), ~UNCHANGED logVars
      PROVE  LET kept == Recent(Logs, logged, started[r], Window) IN
                 /\ StepIs(r, "log") /\ tokenType = "PASSWORD_RESET"
                 /\ Goto(r, "insert") /\ UNCHANGED <<started, tokenType>>
                 /\ r \notin Granted
                 /\ Allowed(kept, logged, started[r])
                 /\ logged' = [logged EXCEPT ![r] = started[r]]
                 /\ pruned' = Granted \ kept
                 /\ Granted' = Granted \cup {r}
                 /\ kept \subseteq Granted
  <2> DEFINE kept == Recent(Logs, logged, started[r], Window)
  <2>1. Allowed(kept, logged, started[r])
    BY <1>4 DEF RecordRecoveryRequest
  <2>2. /\ StepIs(r, "log") /\ Goto(r, "insert") /\ UNCHANGED <<started, tokenType>>
        /\ logged' = [logged EXCEPT ![r] = started[r]] /\ pruned' = Granted \ kept
    BY <1>4, <2>1 DEF RecordRecoveryRequest
  <2>3. tokenType = "PASSWORD_RESET"
    BY <1>0, <2>2, TokenTypesAreKnown DEF StepsOfType, StepIs, IssueTypeOK
  <2>4. logged[r] = NoLog
    BY <1>0, <2>2 DEF LogsAreStarts, StepIs
  <2>5. started[r] # NoLog
    BY <1>0, SpansAreOrdered DEF IssueTypeOK
  <2>6. Granted' = Granted \cup {r}
    BY <1>0, <2>2, <2>5 DEF Granted, IssueTypeOK
  <2>7. kept \subseteq Granted
    BY DEF Recent, Logs
  <2> HIDE DEF kept
  <2> QED BY <2>1, <2>2, <2>3, <2>4, <2>6, <2>7 DEF Granted, kept
<1> QED BY <1>1, <1>2, <1>3, <1>4 DEF IssueNext

LEMMA StepKeepsLogsAreStarts ==
    ASSUME IssueInv, IssueNext PROVE LogsAreStarts'
<1> USE DEF LogsAreStarts
<1>0. IssueTypeOK /\ LogsAreStarts /\ RowOfStep /\ StepsOfType
  BY DEF IssueInv
<1>1. DOMAIN step = Requests /\ started \in [Requests -> Times]
      /\ DOMAIN id = Requests /\ DOMAIN logged = Requests
  BY <1>0 DEF IssueTypeOK
<1>a. ASSUME NEW r \in Requests, RequestStep(r) PROVE LogsAreStarts'
  <2>1. CASE CheckCooldown(r)
    BY <1>0, <1>1, <2>1 DEF CheckCooldown, Goto, StepIs, codeVars, logVars
  <2>2. CASE CheckWindow(r)
    BY <1>0, <1>1, <2>2 DEF CheckWindow, Goto, StepIs, codeVars, logVars, StepsOfType
  <2>3. CASE StartRecovery(r)
    BY <1>0, <1>1, <2>3 DEF StartRecovery, Goto, StepIs, codeVars, logVars, RowOfStep
  <2>4. CASE RecordRecoveryRequest(r)
    BY <1>0, <1>1, <2>4, SpansAreOrdered
       DEF RecordRecoveryRequest, Goto, StepIs, codeVars, logVars
  <2>5. CASE InsertCode(r)
    BY <1>0, <1>1, <2>5 DEF InsertCode, Insert, Goto, StepIs, logVars
  <2>6. CASE IssueUnderLock(r)
    BY <1>0, <1>1, <2>6 DEF IssueUnderLock, Insert, Goto, StepIs, codeVars, logVars
  <2>7. CASE Send(r)
    BY <1>0, <1>1, <2>7 DEF Send, Goto, StepIs, codeVars, logVars
  <2>8. CASE RetireOthers(r)
    BY <1>0, <1>1, <2>8 DEF RetireOthers, Goto, StepIs, logVars
  <2>9. CASE DeleteUndelivered(r)
    BY <1>0, <1>1, <2>9 DEF DeleteUndelivered, Goto, StepIs, logVars
  <2>10. CASE Crash(r)
    BY <1>0, <1>1, <2>10 DEF Crash, Goto, Running, codeVars, logVars
  <2> QED BY <1>a, <2>1, <2>2, <2>3, <2>4, <2>5, <2>6, <2>7, <2>8, <2>9, <2>10
        DEF RequestStep
<1>b. ASSUME NEW r \in Requests, Confirm(r) PROVE LogsAreStarts'
  BY <1>0, <1>b DEF Confirm, logVars
<1>c. CASE TimePasses
  BY <1>0, <1>c DEF TimePasses, codeVars, logVars
<1> QED BY <1>a, <1>b, <1>c DEF IssueNext

(* When a request is granted, every log row it keeps is a cooldown before  *)
(* it, and every other request, pruned now or before, a window.            *)
LEMMA GrantedIsAfterAll ==
    ASSUME IssueTypeOK, PrunedIsOld, NEW r \in Requests,
           NEW kept, kept = Recent(Logs, logged, started[r], Window),
           Allowed(kept, logged, started[r])
    PROVE  /\ \A q \in kept : logged[q] + Cooldown <= started[r]
           /\ \A q \in Granted \ kept : logged[q] + Window <= started[r]
           /\ Cardinality(kept) < Limit
<1>0. /\ logged \in [Requests -> Nat] /\ started[r] \in Nat
      /\ Cooldown \in Nat /\ Window \in Nat /\ Limit \in Nat
  BY ColumnsAreNat, SpansAreOrdered
<1>1. kept \subseteq Requests
  BY DEF Recent, Logs, Granted
<1>2. \A q \in kept : logged[q] + Cooldown <= started[r]
  BY <1>0, <1>1 DEF Allowed, Cooling, Recent
<1>3. ASSUME NEW q \in Logs \ kept PROVE logged[q] + Window <= started[r]
  BY <1>0, <1>3 DEF Recent, Logs, Granted
<1>4. ASSUME NEW q \in pruned PROVE logged[q] + Window <= started[r]
  <2>1. q \in Granted
    BY <1>4 DEF PrunedIsOld
  <2>2. PICK p \in Logs : logged[q] + Window <= logged[p]
    BY <1>4 DEF PrunedIsOld
  <2>3. logged[p] <= started[r]
    <3>1. logged[p] \in Nat
      BY <1>0 DEF Logs, Granted
    <3>2. CASE p \in kept
      BY <1>0, <1>2, <3>1, <3>2
    <3>3. CASE p \notin kept
      BY <1>0, <1>3, <3>1, <3>3
    <3> QED BY <3>2, <3>3
  <2> QED BY <1>0, <2>1, <2>2, <2>3 DEF Logs, Granted
<1>5. Cardinality(kept) < Limit
  <2>1. Recent(kept, logged, started[r], Window) = kept
    BY DEF Recent
  <2>2. Cardinality(kept) \in Nat
    BY <1>1, RequestSetsAreFinite
  <2> QED BY <1>0, <2>1, <2>2 DEF Allowed, LimitReached
<1> QED BY <1>2, <1>3, <1>4, <1>5 DEF Logs

LEMMA StepKeepsPrunedOld ==
    ASSUME IssueInv, IssueNext PROVE PrunedIsOld'
<1>0. IssueTypeOK /\ PrunedIsOld
  BY DEF IssueInv
<1>1. CASE UNCHANGED logVars
  BY <1>0, <1>1 DEF PrunedIsOld, Granted, Logs, logVars
<1>2. CASE ~UNCHANGED logVars
  <2>1. PICK r \in Requests :
          LET kept == Recent(Logs, logged, started[r], Window) IN
                 /\ r \notin Granted
                 /\ Allowed(kept, logged, started[r])
                 /\ logged' = [logged EXCEPT ![r] = started[r]]
                 /\ pruned' = Granted \ kept
                 /\ Granted' = Granted \cup {r}
                 /\ kept \subseteq Granted
    BY <1>2, OnlyRecordingLogs
  <2> DEFINE kept == Recent(Logs, logged, started[r], Window)
  <2>2. \A q \in Granted \ kept : logged[q] + Window <= started[r]
    BY <1>0, <2>1, GrantedIsAfterAll
  <2>3. r \in Logs' /\ logged'[r] = started[r]
    BY <1>0, <2>1, ColumnsAreNat DEF Logs
  <2>4. \A q \in Granted \ kept : q \in Granted' /\ logged'[q] = logged[q]
    BY <1>0, <2>1, ColumnsAreNat DEF Granted
  <2> QED BY <2>1, <2>2, <2>3, <2>4 DEF PrunedIsOld
<1> QED BY <1>1, <1>2

LEMMA StepKeepsRowsSeenCool ==
    ASSUME IssueInv, IssueNext PROVE RowsSeenAreCool'
<1>0. IssueTypeOK /\ RowsSeenAreCool /\ ClockOrder /\ RowOfStep /\ StepsOfType
  BY DEF IssueInv
<1>1. /\ clock \in Nat /\ started \in [Requests -> Nat]
      /\ createdAt \in [Requests -> Nat] /\ DOMAIN step = Requests
      /\ id \in [Requests -> Nat] /\ Cooldown \in Nat
  BY <1>0, ColumnsAreNat, SpansAreOrdered
<1>2. tokenType' = tokenType
  BY DEF IssueNext, RequestStep, CheckCooldown, CheckWindow, StartRecovery,
     RecordRecoveryRequest, InsertCode, IssueUnderLock, Send, RetireOthers,
     DeleteUndelivered, Crash, Confirm, TimePasses
<1> SUFFICES ASSUME tokenType = "EMAIL_VERIFY",
                    NEW q \in Requests, (step[q] \in {"window", "insert"} \/ id[q] # 0)',
                    NEW s \in Rows'
             PROVE  (\/ started[q] <= createdAt[s]
                     \/ createdAt[s] + Cooldown <= started[q])'
  BY <1>2 DEF RowsSeenAreCool
<1>3. s \in Requests
  BY DEF Rows
<1>4. CASE \E r \in Requests : CheckCooldown(r)
  <2> PICK r \in Requests : CheckCooldown(r)
    BY <1>4
  <2>1. Rows' = Rows /\ createdAt' = createdAt /\ id' = id
    BY DEF CheckCooldown, codeVars, Rows
  <2>2. \A p \in Requests \ {r} : step'[p] = step[p] /\ started'[p] = started[p]
    BY <1>1 DEF CheckCooldown, Goto
  <2>3. started'[r] = clock /\ id[r] = 0
    BY <1>0, <1>1 DEF CheckCooldown, RowOfStep, StepIs
  <2>4. step'[r] = "window" => \A p \in Rows : ~(createdAt[p] + Cooldown > clock)
    BY <1>1 DEF CheckCooldown, Goto, Cooling, Recent
  <2>5. step'[r] # "insert"
    BY <1>1 DEF CheckCooldown, Goto
  <2> QED BY <1>0, <1>1, <1>3, <2>1, <2>2, <2>3, <2>4, <2>5 DEF RowsSeenAreCool
<1>5. CASE \E r \in Requests : InsertCode(r)
  <2> PICK r \in Requests : InsertCode(r)
    BY <1>5
  <2>1. id[r] = 0 /\ step[r] = "insert" /\ step'[r] = "send" /\ started' = started
    BY <1>0, <1>1 DEF InsertCode, StepIs, Goto, RowOfStep
  <2>2. createdAt' = [createdAt EXCEPT ![r] = clock]
    BY DEF InsertCode, Insert
  <2>3. Rows' \subseteq Rows \cup {r}
    BY <1>0 DEF InsertCode, Insert, Rows, IssueTypeOK
  <2>4. r \notin Rows
    BY <1>0, <2>1 DEF RowOfStep, Rows
  <2>5. \A p \in Requests \ {r} : step'[p] = step[p] /\ id'[p] = id[p]
    BY <1>1 DEF InsertCode, Insert, Goto
  <2>6. q = r \/ step[q] \in {"window", "insert"} \/ id[q] # 0
    BY <2>5
  <2>7. started[q] <= clock
    BY <1>0, <2>1, <2>6 DEF ClockOrder, RowOfStep
  <2> QED BY <1>0, <1>1, <1>3, <2>1, <2>2, <2>3, <2>4, <2>6, <2>7 DEF RowsSeenAreCool
<1>6. CASE /\ ~\E r \in Requests : CheckCooldown(r) \/ InsertCode(r)
  <2>1. UNCHANGED <<id, createdAt>> /\ Rows' \subseteq Rows
    BY <1>6, OnlyInsertionsGiveIds DEF IssueUnderLock
  <2>2. UNCHANGED started
    BY <1>6 DEF IssueNext, RequestStep, CheckWindow, StartRecovery,
       RecordRecoveryRequest, InsertCode, IssueUnderLock, Send, RetireOthers,
       DeleteUndelivered, Crash, Confirm, TimePasses
  <2>3. step'[q] \in {"window", "insert"} => step[q] \in {"window", "insert"}
    <3>1. \A r \in Requests : step[r] # "log"
      BY <1>0 DEF StepsOfType
    <3>2. ASSUME NEW r \in Requests, Confirm(r) \/ TimePasses PROVE step' = step
      BY <3>2 DEF Confirm, TimePasses
    <3>3. ASSUME TimePasses PROVE step' = step
      BY <3>3 DEF TimePasses
    <3>4. ASSUME NEW r \in Requests, RequestStep(r)
          PROVE  step'[q] \in {"window", "insert"} => step[q] \in {"window", "insert"}
      BY <1>1, <1>6, <3>1, <3>4 DEF RequestStep, CheckWindow, StartRecovery,
         RecordRecoveryRequest, IssueUnderLock, Send, RetireOthers,
         DeleteUndelivered, Crash, Goto, StepIs
    <3> QED BY <3>2, <3>3, <3>4 DEF IssueNext
  <2> QED BY <1>0, <2>1, <2>2, <2>3 DEF RowsSeenAreCool
<1> QED BY <1>4, <1>5, <1>6

(* A request that is done stays so, and no row is unused again.            *)
LEMMA DoneStaysDone ==
    ASSUME IssueInv, IssueNext, NEW s \in Requests
    PROVE  /\ step[s] \in {"ok", "failed"} => step'[s] = step[s]
           /\ step'[s] = "ok" /\ step[s] # "ok" =>
                 RetireOthers(s) \/ tokenType = "EMAIL_CHANGE"
           /\ id[s] # 0 /\ code'[s] = "unused" => code[s] = "unused"
           /\ tokenType' = tokenType /\ spent \subseteq spent'
<1>0. IssueTypeOK /\ RowOfStep
  BY DEF IssueInv
<1>1. DOMAIN step = Requests /\ DOMAIN code = Requests
  BY <1>0 DEF IssueTypeOK
<1>2. step[s] \in {"ok", "failed"} => step'[s] = step[s]
  BY <1>1 DEF IssueNext, RequestStep, CheckCooldown, CheckWindow, StartRecovery,
     RecordRecoveryRequest, InsertCode, IssueUnderLock, Send, RetireOthers,
     DeleteUndelivered, Crash, Confirm, TimePasses, Goto, StepIs, Running
<1>3. ASSUME step'[s] = "ok", step[s] # "ok"
      PROVE  RetireOthers(s) \/ tokenType = "EMAIL_CHANGE"
  BY <1>1, <1>3 DEF IssueNext, RequestStep, CheckCooldown, CheckWindow, StartRecovery,
     RecordRecoveryRequest, InsertCode, IssueUnderLock, Send, RetireOthers,
     DeleteUndelivered, Crash, Confirm, TimePasses, Goto
<1>4. ASSUME id[s] # 0, code[s] # "unused" PROVE code'[s] # "unused"
  <2>1. \A S : Retired(S)[s] # "unused"
    BY <1>4 DEF Retired
  <2>2. step[s] \notin {"idle", "insert"}
    BY <1>0, <1>4 DEF RowOfStep
  <2>3. ASSUME NEW r \in Requests, InsertCode(r) \/ IssueUnderLock(r)
        PROVE  code'[s] # "unused"
    <3>1. r # s
      BY <2>2, <2>3 DEF InsertCode, IssueUnderLock, StepIs
    <3> QED BY <1>1, <1>4, <2>1, <2>3, <3>1
            DEF InsertCode, IssueUnderLock, Insert, codeVars, Retired
  <2>4. ASSUME NEW r \in Requests, RetireOthers(r) \/ Confirm(r)
        PROVE  code'[s] # "unused"
    BY <1>1, <1>4, <2>1, <2>4 DEF RetireOthers, Confirm
  <2>5. ASSUME NEW r \in Requests, DeleteUndelivered(r) PROVE code'[s] # "unused"
    BY <1>1, <1>4, <2>5 DEF DeleteUndelivered
  <2> QED BY <1>4, <2>3, <2>4, <2>5 DEF IssueNext, RequestStep, CheckCooldown,
       CheckWindow, StartRecovery, RecordRecoveryRequest, Send, Crash, TimePasses, codeVars
<1>5. tokenType' = tokenType /\ spent \subseteq spent'
  BY DEF IssueNext, RequestStep, CheckCooldown, CheckWindow, StartRecovery,
     RecordRecoveryRequest, InsertCode, IssueUnderLock, Send, RetireOthers,
     DeleteUndelivered, Crash, Confirm, TimePasses
<1> QED BY <1>2, <1>3, <1>4, <1>5

(* The newcomer has the highest id, and the others keep theirs.            *)
LEMMA NewcomerIsLast ==
    ASSUME IssueInv, IssueNext, NEW r \in Requests, id'[r] # id[r]
    PROVE  /\ InsertCode(r) \/ (IssueUnderLock(r) /\ Allowed(Rows, createdAt, clock))
           /\ id[r] = 0 /\ rivals'[r] = {q \in Inserted : Running(q)}
           /\ \A q \in Requests \ {r} :
                 id'[q] = id[q] /\ rivals'[q] = rivals[q] /\ id[q] < id'[r]
<1>0. IssueTypeOK /\ IdsAreOrdered
  BY DEF IssueInv
<1>1. id \in [Requests -> Nat] /\ rivals \in [Requests -> SUBSET Requests]
  BY <1>0, ColumnsAreNat DEF IssueTypeOK
<1>2. PICK p \in Requests :
                 /\ InsertCode(p) \/ (IssueUnderLock(p) /\ Allowed(Rows, createdAt, clock))
                 /\ id[p] = 0
                 /\ id' = [id EXCEPT ![p] = Cardinality(Inserted) + 1]
                 /\ rivals' = [rivals EXCEPT ![p] = {q \in Inserted : Running(q)}]
                 /\ Cardinality(Inserted) \in Nat
  BY OnlyInsertionsGiveIds
<1>3. p = r
  BY <1>1, <1>2
<1>4. \A q \in Requests : id[q] <= Cardinality(Inserted)
  BY <1>0 DEF IdsAreOrdered
<1> QED BY <1>1, <1>2, <1>3, <1>4

LEMMA StepKeepsRivalsOlder ==
    ASSUME IssueInv, IssueNext PROVE RivalsAreOlder'
<1>0. IssueTypeOK /\ RivalsAreOlder /\ RowOfStep
  BY DEF IssueInv
<1>1. id \in [Requests -> Nat] /\ id' \in [Requests -> Nat]
  BY <1>0, ColumnsAreNat, StepKeepsTypes DEF IssueTypeOK
<1>2. \A s \in Inserted : Running(s)' => Running(s)
  BY <1>0, DoneStaysDone DEF Running, RowOfStep, Inserted
<1>3. CASE UNCHANGED <<id, rivals>>
  BY <1>0, <1>2, <1>3 DEF RivalsAreOlder, Inserted
<1>4. CASE \E r \in Requests : id'[r] # id[r]
  <2> PICK r \in Requests : id'[r] # id[r]
    BY <1>4
  <2>1. /\ id[r] = 0 /\ rivals'[r] = {q \in Inserted : Running(q)}
        /\ \A q \in Requests \ {r} :
              id'[q] = id[q] /\ rivals'[q] = rivals[q] /\ id[q] < id'[r]
    BY NewcomerIsLast
  <2>2. ASSUME NEW q \in Requests
        PROVE  /\ id'[q] = 0 => rivals'[q] = {}
               /\ \A s \in rivals'[q] : s \in Requests /\ id'[s] # 0 /\ id'[s] < id'[q]
               /\ \A s \in Inserted' : id'[s] < id'[q] /\ Running(s)' => s \in rivals'[q]
    <3>1. CASE q = r
      BY <1>0, <1>1, <1>2, <2>1, <3>1 DEF Inserted
    <3>2. CASE q # r
      <4>1. id'[q] = id[q] /\ rivals'[q] = rivals[q] /\ ~(id'[r] < id'[q])
        BY <1>1, <2>1, <3>2
      <4>2. \A s \in rivals[q] : s \in Requests \ {r} /\ id[s] # 0 /\ id[s] < id[q]
        BY <1>0, <2>1 DEF RivalsAreOlder
      <4>3. \A s \in Inserted' : id'[s] < id'[q] => s \in Inserted /\ id'[s] = id[s]
        BY <2>1, <4>1 DEF Inserted
      <4> QED BY <1>0, <1>2, <2>1, <4>1, <4>2, <4>3 DEF RivalsAreOlder
    <3> QED BY <3>1, <3>2
  <2> QED BY <2>2 DEF RivalsAreOlder
<1>5. CASE ~\E r \in Requests : id'[r] # id[r]
  <2>1. UNCHANGED <<id, rivals>> \/ \E r \in Requests :
             /\ id[r] = 0 /\ Cardinality(Inserted) \in Nat
             /\ id' = [id EXCEPT ![r] = Cardinality(Inserted) + 1]
    BY OnlyInsertionsGiveIds
  <2> QED BY <1>1, <1>3, <1>5, <2>1
<1> QED BY <1>4, <1>5

LEMMA StepKeepsOlderDead ==
    ASSUME IssueInv, IssueNext PROVE OlderCodesAreDead'
<1>0. IssueTypeOK /\ OlderCodesAreDead /\ StepsOfType
  BY DEF IssueInv
<1>1. id \in [Requests -> Nat] /\ id' \in [Requests -> Nat]
  BY <1>0, ColumnsAreNat, StepKeepsTypes DEF IssueTypeOK
<1> SUFFICES ASSUME NEW r \in Requests, NEW s \in Requests, id'[r] # 0, id'[r] < id'[s],
                    step'[s] = "ok" \/ tokenType' = "EMAIL_CHANGE"
             PROVE  code'[r] # "unused"
  BY DEF OlderCodesAreDead, StepIs
<1>2. r # s /\ tokenType' = tokenType
  BY <1>1, DoneStaysDone
<1>3. id'[r] = id[r]
  BY <1>1, <1>2, NewcomerIsLast
<1>4. CASE id'[s] = id[s]
  <2>1. CASE step[s] = "ok" \/ tokenType = "EMAIL_CHANGE"
    BY <1>0, <1>3, <1>4, <2>1, DoneStaysDone DEF OlderCodesAreDead, StepIs
  <2>2. CASE ~(step[s] = "ok" \/ tokenType = "EMAIL_CHANGE")
    <3>1. RetireOthers(s)
      BY <1>2, <2>2, DoneStaysDone
    <3> QED BY <1>2, <3>1 DEF RetireOthers, OtherCodes, Retired
  <2> QED BY <2>1, <2>2
<1>5. CASE id'[s] # id[s]
  <2>1. InsertCode(s) \/ (IssueUnderLock(s) /\ Allowed(Rows, createdAt, clock))
    BY <1>5, NewcomerIsLast
  <2>2. ~InsertCode(s)
    <3>1. InsertCode(s) => step[s] = "insert" /\ step'[s] = "send"
      BY <1>0, ColumnsAreNat DEF InsertCode, StepIs, Goto
    <3> QED BY <1>0, <1>2, <3>1 DEF StepsOfType
  <2> QED BY <1>2, <2>1, <2>2 DEF IssueUnderLock, Insert, Retired
<1> QED BY <1>4, <1>5

LEMMA StepKeepsRetiredForCause ==
    ASSUME IssueInv, IssueNext PROVE RetiredForCause'
<1>0. /\ IssueTypeOK /\ IdsAreOrdered /\ RowOfStep /\ StepsOfType
      /\ RetiredForCause /\ RivalsAreOlder
  BY DEF IssueInv
<1>1. /\ id \in [Requests -> Nat] /\ DOMAIN step = Requests
      /\ code \in [Requests -> {"none", "unused", "used", "deleted"}]
  BY <1>0, ColumnsAreNat DEF IssueTypeOK
<1>2. tokenType' = tokenType /\ spent \subseteq spent'
  BY DoneStaysDone DEF IssueNext, RequestStep, TimePasses
<1>3. ASSUME NEW q \in Requests, NEW s \in Requests, RetiredBy(s, q), id[q] # 0
      PROVE  RetiredBy(s, q)'
  <2>1. id'[q] = id[q] /\ rivals'[q] = rivals[q]
    <3>1. id'[q] = id[q]
      BY <1>3, NewcomerIsLast
    <3> QED BY <1>3, <3>1, OnlyInsertionsGiveIds, <1>0 DEF IssueTypeOK
  <2>2. CASE id[s] > id[q] /\ (tokenType = "EMAIL_CHANGE" \/ (StepIs(s, "ok") /\ s \in Rows))
    <3>1. id'[s] = id[s]
      BY <1>1, <1>3, <2>2, NewcomerIsLast
    <3>2. StepIs(s, "ok") => StepIs(s, "ok")' /\ s \in Rows'
      BY DoneStaysDone, StepKeepsRowOfStep DEF StepIs, RowOfStep
    <3> QED BY <1>2, <2>1, <2>2, <3>1, <3>2 DEF RetiredBy
  <2>3. CASE tokenType # "EMAIL_CHANGE" /\ s \in rivals[q] /\ StepIs(s, "ok")
    <3>1. StepIs(s, "ok")'
      BY <2>3, DoneStaysDone DEF StepIs
    <3> QED BY <1>2, <2>1, <2>3, <3>1 DEF RetiredBy
  <2> QED BY <1>3, <2>2, <2>3 DEF RetiredBy
<1> SUFFICES ASSUME NEW q \in Requests, code'[q] = "used", q \notin spent'
             PROVE  \E s \in Requests : RetiredBy(s, q)'
  BY DEF RetiredForCause
<1>4. CASE code[q] = "used"
  <2>1. PICK s \in Requests : RetiredBy(s, q)
    BY <1>0, <1>2, <1>4 DEF RetiredForCause
  <2> QED BY <1>0, <1>3, <1>4, <2>1 DEF RowOfStep
<1>5. CASE code[q] # "used"
  <2>1. \A r \in Requests : ~Confirm(r)
    BY <1>5 DEF Confirm
  <2>2. CASE \E r \in Requests : RetireOthers(r)
    <3> PICK r \in Requests : RetireOthers(r)
      BY <2>2
    <3>1. q # r /\ code[q] = "unused" /\ UNCHANGED <<id, rivals>>
      BY <1>0, <1>5, RetiringKeepsRows DEF RetireOthers, OtherCodes
    <3>2. step[r] = "retire" /\ step'[r] = "ok"
      BY <1>1 DEF RetireOthers, StepIs, Goto
    <3>3. r \in Rows'
      BY StepKeepsRowOfStep, <3>2 DEF RowOfStep
    <3>4. id[q] # 0 /\ id[r] # 0 /\ id[q] # id[r]
      BY <1>0, <1>1, <3>1, <3>2 DEF RowOfStep, Rows, IdsAreOrdered, Inserted
    <3>5. tokenType # "EMAIL_CHANGE"
      BY <1>0, <3>2 DEF StepsOfType
    <3>6. CASE id[r] > id[q]
      BY <3>1, <3>2, <3>3, <3>6 DEF RetiredBy, StepIs
    <3>7. CASE id[r] < id[q]
      <4>1. r \in rivals[q]
        BY <1>0, <3>2, <3>4, <3>7 DEF RivalsAreOlder, Inserted, Running
      <4> QED BY <1>2, <3>1, <3>2, <3>5, <4>1 DEF RetiredBy, StepIs
    <3> QED BY <1>1, <3>4, <3>6, <3>7
  <2>3. CASE \E r \in Requests : IssueUnderLock(r)
    <3> PICK r \in Requests : IssueUnderLock(r)
      BY <2>3
    <3>1. Allowed(Rows, createdAt, clock) /\ Insert(r, Retired(Requests))
      BY <1>5 DEF IssueUnderLock, codeVars
    <3>2. id[r] = 0
      BY <1>0 DEF IssueUnderLock, StepIs, RowOfStep
    <3>3. /\ id' = [id EXCEPT ![r] = Cardinality(Inserted) + 1]
          /\ Cardinality(Inserted) \in Nat
      BY <1>0, <3>1, <3>2, InsertingTakesTheNextId, RetiringKeepsRows,
         RequestSetsAreFinite DEF Inserted
    <3>4. q # r
      BY <1>0, <3>1, RetiringKeepsRows DEF Insert
    <3>5. id[q] <= Cardinality(Inserted)
      BY <1>0 DEF IdsAreOrdered
    <3>6. id'[r] > id'[q]
      BY <1>1, <3>3, <3>4, <3>5
    <3> QED BY <1>2, <3>6 DEF IssueUnderLock, RetiredBy
  <2>4. CASE \A r \in Requests : ~RetireOthers(r) /\ ~IssueUnderLock(r)
    BY <1>1, <1>5, <2>1, <2>4 DEF IssueNext, RequestStep, CheckCooldown, CheckWindow,
         StartRecovery, RecordRecoveryRequest, InsertCode, Insert, Send,
         DeleteUndelivered, Crash, TimePasses, codeVars
  <2> QED BY <2>2, <2>3, <2>4
<1> QED BY <1>4, <1>5

-----------------------------------------------------------------------------
(* The requests that are counted, and when, as a set and a function.       *)
Stamp == IF tokenType = "PASSWORD_RESET" THEN logged ELSE createdAt

LEMMA RateLimitOfCounted ==
    /\ Spaced <=> SpacedOut(Counted, Stamp, Spacing)
    /\ LimitKept <=> (tokenType # "EMAIL_VERIFY" => WithinLimit(Counted, Stamp))
BY DEF Spaced, SpacedOut, LimitKept, WithinLimit, InSpan, CountedAt, Stamp

(* A step lets in one request that the limits allow, or none.              *)
LEMMA StepLetsInAtMostOne ==
    ASSUME IssueInv, IssueNext, tokenType # "EMAIL_VERIFY"
    PROVE  \/ Counted' \subseteq Counted /\ Stamp' = Stamp
           \/ \E r \in Requests, t \in Nat, R \in SUBSET Counted :
                 /\ r \notin Counted
                 /\ Counted' = Counted \cup {r}
                 /\ Stamp' = [Stamp EXCEPT ![r] = t]
                 /\ \A s \in Counted : Stamp[s] + Spacing <= t
                 /\ \A s \in Counted \ R : Stamp[s] + Window <= t
                 /\ Cardinality(R) < Limit
<1>0. IssueTypeOK /\ StepsOfType /\ PrunedIsOld
  BY DEF IssueInv
<1>1. /\ clock \in Nat /\ started \in [Requests -> Nat]
      /\ createdAt \in [Requests -> Nat] /\ logged \in [Requests -> Nat]
      /\ Cooldown \in Nat /\ Window \in Nat /\ Limit \in Nat /\ Spacing \in Nat
      /\ Spacing <= Cooldown /\ (tokenType = "PASSWORD_RESET" => Spacing <= Window)
  BY <1>0, ColumnsAreNat, SpansAreOrdered
<1>2. tokenType' = tokenType
  BY DEF IssueNext, RequestStep, CheckCooldown, CheckWindow, StartRecovery,
     RecordRecoveryRequest, InsertCode, IssueUnderLock, Send, RetireOthers,
     DeleteUndelivered, Crash, Confirm, TimePasses
<1>3. CASE tokenType = "PASSWORD_RESET"
  <2>1. /\ Counted = Granted /\ Counted' = Granted'
        /\ Stamp = logged /\ Stamp' = logged'
    BY <1>2, <1>3 DEF Counted, Stamp
  <2>2. CASE UNCHANGED logVars
    BY <2>1, <2>2 DEF logVars, Granted
  <2>3. CASE ~UNCHANGED logVars
    <3>1. PICK r \in Requests :
            LET kept == Recent(Logs, logged, started[r], Window) IN
                 /\ r \notin Granted
                 /\ Allowed(kept, logged, started[r])
                 /\ logged' = [logged EXCEPT ![r] = started[r]]
                 /\ Granted' = Granted \cup {r}
                 /\ kept \subseteq Granted
      BY <2>3, OnlyRecordingLogs
    <3> DEFINE kept == Recent(Logs, logged, started[r], Window)
    <3>2. /\ \A q \in kept : logged[q] + Cooldown <= started[r]
          /\ \A q \in Granted \ kept : logged[q] + Window <= started[r]
          /\ Cardinality(kept) < Limit
      BY <1>0, <3>1, GrantedIsAfterAll
    <3>3. \A q \in Granted : logged[q] + Spacing <= started[r]
      BY <1>1, <1>3, <3>2 DEF Granted
    <3>4. started[r] \in Nat /\ kept \in SUBSET Counted
      BY <1>1, <2>1, <3>1
    <3> HIDE DEF kept
    <3> QED BY <2>1, <3>1, <3>2, <3>3, <3>4
  <2> QED BY <2>2, <2>3
<1>4. CASE tokenType # "PASSWORD_RESET"
  <2>1. /\ Counted = Rows /\ Counted' = Rows'
        /\ Stamp = createdAt /\ Stamp' = createdAt'
    BY <1>2, <1>4 DEF Counted, Stamp
  <2>2. tokenType = "EMAIL_CHANGE"
    BY <1>0, <1>4, TokenTypesAreKnown DEF IssueTypeOK
  <2>3. \A r \in Requests : ~InsertCode(r)
    BY <1>0, <2>2 DEF StepsOfType, InsertCode, StepIs
  <2>4. CASE UNCHANGED <<id, createdAt>> /\ Rows' \subseteq Rows
    BY <2>1, <2>4
  <2>5. CASE ~(UNCHANGED <<id, createdAt>> /\ Rows' \subseteq Rows)
    <3>1. PICK r \in Requests :
                 /\ Allowed(Rows, createdAt, clock)
                 /\ r \notin Rows
                 /\ createdAt' = [createdAt EXCEPT ![r] = clock]
                 /\ Rows' = Rows \cup {r}
      BY <2>3, <2>5, OnlyInsertionsGiveIds
    <3> DEFINE R == Recent(Rows, createdAt, clock, Window)
    <3>2. \A s \in Rows : createdAt[s] + Spacing <= clock
      BY <1>1, <3>1 DEF Allowed, Cooling, Recent, Rows
    <3>3. \A s \in Rows \ R : createdAt[s] + Window <= clock
      BY <1>1 DEF Recent, Rows
    <3>4. Cardinality(R) < Limit
      <4>1. Cardinality(R) \in Nat
        BY RequestSetsAreFinite DEF Recent, Rows
      <4> QED BY <1>1, <3>1, <4>1 DEF Allowed, LimitReached
    <3>5. R \in SUBSET Rows
      BY DEF Recent
    <3> HIDE DEF R
    <3> QED BY <1>1, <2>1, <3>1, <3>2, <3>3, <3>4, <3>5
  <2> QED BY <2>4, <2>5
<1> QED BY <1>3, <1>4

LEMMA StepKeepsRateLimit ==
    ASSUME IssueInv, IssueNext, tokenType # "EMAIL_VERIFY"
    PROVE  Spaced' /\ LimitKept'
<1>0. IssueTypeOK /\ Spaced /\ LimitKept
  BY DEF IssueInv, CooldownKept
<1>1. Counted \in SUBSET Requests /\ Stamp \in [Requests -> Nat]
  BY <1>0, ColumnsAreNat DEF Counted, Granted, Rows, Stamp
<1>2. SpacedOut(Counted, Stamp, Spacing) /\ WithinLimit(Counted, Stamp)
  BY <1>0, RateLimitOfCounted
<1>3. SpacedOut(Counted', Stamp', Spacing) /\ WithinLimit(Counted', Stamp')
  <2>1. CASE Counted' \subseteq Counted /\ Stamp' = Stamp
    <3> DEFINE T == Counted'
    <3>1. T \in SUBSET Counted
      BY <2>1
    <3> HIDE DEF T
    <3>2. SpacedOut(T, Stamp, Spacing) /\ WithinLimit(T, Stamp)
      BY <1>1, <1>2, <3>1, FewerKeepSpacing, FewerKeepLimit
    <3> QED BY <2>1, <3>2 DEF T
  <2>2. CASE \E r \in Requests, t \in Nat, R \in SUBSET Counted :
                 /\ r \notin Counted
                 /\ Counted' = Counted \cup {r}
                 /\ Stamp' = [Stamp EXCEPT ![r] = t]
                 /\ \A s \in Counted : Stamp[s] + Spacing <= t
                 /\ \A s \in Counted \ R : Stamp[s] + Window <= t
                 /\ Cardinality(R) < Limit
    <3> PICK r \in Requests, t \in Nat, R \in SUBSET Counted :
                 /\ r \notin Counted
                 /\ Counted' = Counted \cup {r}
                 /\ Stamp' = [Stamp EXCEPT ![r] = t]
                 /\ \A s \in Counted : Stamp[s] + Spacing <= t
                 /\ \A s \in Counted \ R : Stamp[s] + Window <= t
                 /\ Cardinality(R) < Limit
      BY <2>2
    <3>1. SpacedOut(Counted \cup {r}, [Stamp EXCEPT ![r] = t], Spacing)
      BY <1>1, <1>2, NewcomerKeepsSpacing
    <3>2. WithinLimit(Counted \cup {r}, [Stamp EXCEPT ![r] = t])
      BY <1>1, <1>2, NewcomerKeepsLimit
    <3> QED BY <3>1, <3>2
  <2> QED BY <2>1, <2>2, StepLetsInAtMostOne
<1>4. /\ SpacedOut(Counted', Stamp', Spacing) => Spaced'
      /\ WithinLimit(Counted', Stamp') => LimitKept'
  <2>1. Spacing' = Spacing
    BY DoneStaysDone DEF Spacing, IssueNext, RequestStep, TimePasses
  <2>2. SpacedOut(Counted', Stamp', Spacing') => Spaced'
    BY DEF Spaced, SpacedOut, CountedAt, Stamp
  <2>3. WithinLimit(Counted', Stamp') => LimitKept'
    BY DEF LimitKept, WithinLimit, InSpan, CountedAt, Stamp
  <2> QED BY <2>1, <2>2, <2>3
<1> QED BY <1>3, <1>4

(* Two sign-up requests: the one whose row comes second had seen the row   *)
(* of the first, unless it looked before that was there.                   *)
LEMMA OverlapFollows ==
    IssueTypeOK /\ ClockOrder /\ RowsSeenAreCool /\ tokenType = "EMAIL_VERIFY"
        => OnlyOverlapping
<1> SUFFICES ASSUME IssueTypeOK, ClockOrder, RowsSeenAreCool,
                    tokenType = "EMAIL_VERIFY", NEW r \in Rows, NEW s \in Rows,
                    id[s] < id[r], createdAt[r] < createdAt[s] + Cooldown
             PROVE  started[r] <= createdAt[s]
  BY DEF OnlyOverlapping, Counted
<1>1. r \in Requests /\ s \in Requests
  BY DEF Rows
<1>2. /\ id[r] \in Nat /\ id[s] \in Nat /\ started[r] \in Nat
      /\ createdAt[r] \in Nat /\ createdAt[s] \in Nat /\ Cooldown \in Nat
  BY <1>1, ColumnsAreNat, SpansAreOrdered
<1>3. id[r] # 0
  BY <1>2
<1>4. started[r] <= createdAt[r]
  BY <1>1, <1>3 DEF ClockOrder
<1>5. started[r] <= createdAt[s] \/ createdAt[s] + Cooldown <= started[r]
  BY <1>1, <1>3 DEF RowsSeenAreCool
<1> QED BY <1>2, <1>4, <1>5

LEMMA StepPreservesIssueInv ==
    IssueInv /\ [IssueNext]_issueVars => IssueInv'
<1>1. ASSUME IssueInv, IssueNext PROVE IssueInv'
  <2>1. IssueTypeOK' /\ StepsOfType' /\ ClockOrder' /\ RowOfStep' /\ IdsAreOrdered'
    BY <1>1, StepKeepsTypes, StepKeepsStepsOfType, StepKeepsClockOrder,
       StepKeepsRowOfStep, StepKeepsIdsOrdered
  <2>2. LogsAreStarts' /\ PrunedIsOld' /\ RowsSeenAreCool' /\ RetiredForCause'
        /\ RivalsAreOlder' /\ OlderCodesAreDead'
    BY <1>1, StepKeepsLogsAreStarts, StepKeepsPrunedOld, StepKeepsRowsSeenCool,
       StepKeepsRetiredForCause, StepKeepsRivalsOlder, StepKeepsOlderDead
  <2>3. tokenType' = tokenType
    BY <1>1 DEF IssueNext, RequestStep, CheckCooldown, CheckWindow, StartRecovery,
       RecordRecoveryRequest, InsertCode, IssueUnderLock, Send, RetireOthers,
       DeleteUndelivered, Crash, Confirm, TimePasses
  <2>4. CASE tokenType = "EMAIL_VERIFY"
    <3>1. (IssueTypeOK /\ ClockOrder /\ RowsSeenAreCool
             /\ tokenType = "EMAIL_VERIFY")' => OnlyOverlapping'
      BY OverlapFollows, PTL
    <3> QED BY <2>1, <2>2, <2>3, <2>4, <3>1 DEF IssueInv, CooldownKept, LimitKept
  <2>5. CASE tokenType # "EMAIL_VERIFY"
    BY <1>1, <2>1, <2>2, <2>3, <2>5, StepKeepsRateLimit DEF IssueInv, CooldownKept
  <2> QED BY <2>4, <2>5
<1>2. ASSUME IssueInv, UNCHANGED issueVars PROVE IssueInv'
  BY <1>2 DEF issueVars, codeVars, logVars, IssueInv, IssueTypeOK, StepsOfType,
     ClockOrder, Running, RowOfStep, Rows, IdsAreOrdered, Inserted, LogsAreStarts,
     PrunedIsOld, Granted, Logs, RowsSeenAreCool, RetiredForCause, RetiredBy,
     RivalsAreOlder, OlderCodesAreDead, StepIs, Spacing, CooldownKept,
     OnlyOverlapping, Spaced, LimitKept, Counted, CountedAt
<1> QED BY <1>1, <1>2

-----------------------------------------------------------------------------
THEOREM IssueInvariant == IssueSpec => []IssueInv
BY InitEstablishesIssueInv, StepPreservesIssueInv, PTL DEF IssueSpec

(* Only states that a code row, a request and a log row can have occur.    *)
THEOREM IssueTypesAreRight == IssueSpec => []IssueTypeOK
<1>1. IssueInv => IssueTypeOK
  BY DEF IssueInv
<1> QED BY <1>1, IssueInvariant, PTL

(* The resend cooldown: recovery and e-mail change requests that were let  *)
(* in are a cooldown apart, for any number of requests at once, and sign-up *)
(* requests unless they overlapped.                                        *)
THEOREM CooldownIsKept == IssueSpec => []CooldownKept
<1>1. IssueInv => CooldownKept
  BY DEF IssueInv
<1> QED BY <1>1, IssueInvariant, PTL

(* The send limit: no window of the configured length holds more requests  *)
(* than the limit, although each transaction prunes the log as of the time *)
(* its own request began.                                                  *)
THEOREM SendLimitIsKept == IssueSpec => []LimitKept
<1>1. IssueInv => LimitKept
  BY DEF IssueInv
<1> QED BY <1>1, IssueInvariant, PTL

(* A code that was answered with success is dead as soon as a request with *)
(* a newer row is answered: at no moment does the mailbox hold two codes   *)
(* that a user was told of and that both work.                             *)
THEOREM OlderCodesStayDead == IssueSpec => []OlderCodesAreDead
<1>1. IssueInv => OlderCodesAreDead
  BY DEF IssueInv
<1> QED BY <1>1, IssueInvariant, PTL

(* The newest code is retired early only by a request with an older row    *)
(* that was still running when it was inserted, and for a password reset   *)
(* that request began a cooldown before it or after it.                    *)
THEOREM CodesDieForCause == IssueSpec => []OnlyRivalsRetire
<1>1. ASSUME IssueInv PROVE OnlyRivalsRetire
  <2>0. /\ IssueTypeOK /\ RowOfStep /\ RetiredForCause /\ RivalsAreOlder
        /\ LogsAreStarts /\ CooldownKept
    BY <1>1 DEF IssueInv
  <2> SUFFICES ASSUME NEW r \in Requests, StepIs(r, "ok"), r \notin spent,
                      ~Replaced(r), code[r] # "unused"
               PROVE  /\ tokenType # "EMAIL_CHANGE"
                      /\ \E s \in rivals[r] :
                            /\ StepIs(s, "ok")
                            /\ tokenType = "PASSWORD_RESET" =>
                                  \/ started[s] + Spacing <= started[r]
                                  \/ started[r] + Spacing <= started[s]
    BY DEF OnlyRivalsRetire
  <2>1. r \in Rows /\ code[r] = "used"
    BY <2>0 DEF RowOfStep, StepIs, Rows
  <2>2. PICK s \in Requests : RetiredBy(s, r)
    BY <2>0, <2>1 DEF RetiredForCause
  <2>3. tokenType # "EMAIL_CHANGE" /\ s \in rivals[r] /\ StepIs(s, "ok")
    BY <2>2 DEF RetiredBy, Replaced
  <2>4. id[s] # 0 /\ id[s] < id[r] /\ id[r] # 0
    BY <2>0, <2>1, <2>3 DEF RivalsAreOlder, RowOfStep, Rows
  <2>5. ASSUME tokenType = "PASSWORD_RESET"
        PROVE  \/ started[s] + Spacing <= started[r]
               \/ started[r] + Spacing <= started[s]
    <3>1. /\ s \in Granted /\ r \in Granted /\ s # r
          /\ logged[s] = started[s] /\ logged[r] = started[r]
      BY <2>0, <2>4, <2>5, ColumnsAreNat DEF LogsAreStarts, Granted
    <3> QED BY <2>0, <2>5, <3>1 DEF CooldownKept, Spaced, Counted, CountedAt
  <2> QED BY <2>3, <2>5
<1> QED BY <1>1, IssueInvariant, PTL
=============================================================================
