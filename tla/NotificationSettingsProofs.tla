--------------------- MODULE NotificationSettingsProofs ---------------------
(***************************************************************************)
(* updateNotificationSettings implements the atomic partial update for any *)
(* requests and bodies, and answers 409 only under real contention.        *)
(***************************************************************************)
EXTENDS NotificationSettings, TLAPS

(* A request that failed once saw the row change once, and a request whose *)
(* comparison will fail sees one change more.                              *)
TriesAreChanges ==
    \A r \in Requests :
        /\ call[r].step \in {"read", "write"} =>
              /\ call[r].body \in Patches
              /\ call[r].tries < MaxTries
              /\ changes[r] >= call[r].tries
        /\ call[r].step = "write" /\ settings # call[r].seen =>
              changes[r] >= call[r].tries + 1

IInv == TypeOK /\ TriesAreChanges /\ ConflictMeansContention

LEMMA BodyDomain == \A b \in Patches : DOMAIN b \subseteq Flags
                       /\ \A f \in DOMAIN b : b[f] \in BOOLEAN
BY PatchesAreBodies, SMT DEF Bodies, Flags, Details

(* Whatever the flags read, the merged flags keep notifyPushEnabled equal  *)
(* to the conjunction of the three others.                                 *)
LEMMA MergeIsConsistent ==
    ASSUME NEW s \in Settings, NEW b \in Patches
    PROVE  NextSettings(s, b) \in Settings
<1>1. \A d \in Details : Merged(s, b)[d] \in BOOLEAN
  BY BodyDomain DEF Merged, Settings, Flags, Details
<1>2. NextSettings(s, b) \in [Flags -> BOOLEAN]
  BY <1>1 DEF NextSettings, Flags
<1>3. /\ NextSettings(s, b)["push"] = \A d \in Details : Merged(s, b)[d]
      /\ \A d \in Details : NextSettings(s, b)[d] = Merged(s, b)[d]
  BY DEF NextSettings, Flags, Details
<1> QED BY <1>2, <1>3 DEF Settings

LEMMA InitEstablishesIInv == Init => IInv
  BY DEF Init, IInv, TypeOK, TriesAreChanges, ConflictMeansContention,
         Closed, CallState, AllOn, Settings, Flags, Details, MaxTries

LEMMA ClosedHasType ==
    \A step \in {"idle", "done", "conflict", "missing"} :
        /\ Closed(step) \in CallState
        /\ Closed(step).step = step
  BY DEF Closed, CallState, AllOn, Settings, Flags, Details, MaxTries

LEMMA StepPreservesIInv == IInv /\ [Next]_vars => IInv'
<1> SUFFICES ASSUME IInv, [Next]_vars PROVE IInv'
  OBVIOUS
<1> USE DEF IInv, TypeOK, MaxTries
<1>1. ASSUME NEW r \in Requests, Start(r) PROVE IInv'
  <2>1. PICK body \in Patches :
           call' = [call EXCEPT ![r] = [step |-> "read", body |-> body,
                                        seen |-> AllOn, tries |-> 0]]
    BY <1>1 DEF Start
  <2>2. AllOn \in Settings
    BY DEF AllOn, Settings, Flags, Details
  <2>3. TypeOK'
    BY <1>1, <2>1, <2>2 DEF Start, CallState
  <2> QED BY <1>1, <2>1, <2>3 DEF Start, TriesAreChanges,
                                   ConflictMeansContention, CallState
<1>2. ASSUME NEW r \in Requests, Read(r) PROVE IInv'
  <2>1. CASE settings = NoUser
    BY <1>2, <2>1, ClosedHasType
       DEF Read, TriesAreChanges, ConflictMeansContention
  <2>2. CASE settings # NoUser
    <3>1. call' = [call EXCEPT ![r].step = "write", ![r].seen = settings]
      BY <1>2, <2>2 DEF Read
    <3>2. UNCHANGED <<settings, changes>> /\ settings \in Settings
      BY <1>2, <2>2 DEF Read
    <3>3. TypeOK'
      BY <3>1, <3>2 DEF CallState
    <3> QED BY <1>2, <3>1, <3>2, <3>3
            DEF Read, TriesAreChanges, ConflictMeansContention, CallState
  <2> QED BY <2>1, <2>2
<1>3. ASSUME NEW r \in Requests, Update(r) PROVE IInv'
  <2> DEFINE s == NextSettings(call[r].seen, call[r].body)
  <2>1. s \in Settings
    BY <1>3, MergeIsConsistent DEF Update, TriesAreChanges, CallState
  <2>2. /\ settings' = s
        /\ call' = [call EXCEPT ![r] = Closed("done")]
        /\ changes' = [q \in Requests |-> IF s # settings THEN Bump(changes[q])
                                                         ELSE changes[q]]
    BY <1>3 DEF Update, Write
  <2> HIDE DEF s
  <2>3. TypeOK'
    BY <2>1, <2>2, ClosedHasType DEF Bump
  <2>4. \A q \in Requests :
           /\ call[q].tries \in 0..MaxTries
           /\ changes'[q] >= changes[q]
           /\ s # settings => changes'[q] = Bump(changes[q])
           /\ call'[q] = IF q = r THEN Closed("done") ELSE call[q]
    BY <2>2 DEF Bump, CallState
  <2>5. ConflictMeansContention'
    BY <2>3, <2>4, ClosedHasType DEF ConflictMeansContention
  <2>6. TriesAreChanges'
    <3>1. Closed("done").step = "done"
      BY ClosedHasType
    <3>2. ASSUME NEW q \in Requests, call'[q].step \in {"read", "write"}
          PROVE  call'[q] = call[q] /\ call[q].tries < MaxTries
      BY <2>4, <3>1, <3>2 DEF TriesAreChanges
    <3>3. ASSUME NEW q \in Requests, call'[q].step \in {"read", "write"}
          PROVE  /\ call'[q].body \in Patches
                 /\ changes'[q] >= call'[q].tries
      BY <2>3, <2>4, <3>2, <3>3 DEF TriesAreChanges
    <3>4. ASSUME NEW q \in Requests, call'[q].step = "write",
                 s # call'[q].seen
          PROVE  changes'[q] >= call'[q].tries + 1
      BY <2>3, <2>4, <3>2, <3>4 DEF TriesAreChanges, Bump
    <3> QED BY <2>2, <3>2, <3>3, <3>4 DEF TriesAreChanges
  <2> QED BY <2>3, <2>5, <2>6
<1>4. ASSUME NEW r \in Requests, LoseRace(r) PROVE IInv'
  <2>1. CASE LastTry(r)
    BY <1>4, <2>1, ClosedHasType
       DEF LoseRace, LastTry, Matches, TriesAreChanges,
           ConflictMeansContention, CallState
  <2>2. CASE ~LastTry(r)
    <3>1. /\ call' = [call EXCEPT ![r].step = "read", ![r].tries = @ + 1]
          /\ UNCHANGED <<settings, changes>>
          /\ call[r].step = "write" /\ settings # call[r].seen
          /\ call[r].tries + 1 < MaxTries
      BY <1>4, <2>2 DEF LoseRace, LastTry, Matches, TriesAreChanges, CallState
    <3>2. TypeOK'
      BY <3>1 DEF CallState
    <3> QED BY <3>1, <3>2
            DEF TriesAreChanges, ConflictMeansContention, CallState
  <2> QED BY <2>1, <2>2
<1>5. ASSUME NEW r \in Requests, Finish(r) PROVE IInv'
  BY <1>5, ClosedHasType DEF Finish, TriesAreChanges, ConflictMeansContention
<1>6. CASE DeleteUser
  <2>1. /\ settings' = NoUser /\ call' = call
        /\ changes' = [q \in Requests |->
                         IF NoUser # settings THEN Bump(changes[q])
                                              ELSE changes[q]]
    BY <1>6 DEF DeleteUser, Write
  <2> QED BY <1>6, <2>1 DEF DeleteUser, Bump, TriesAreChanges,
                            ConflictMeansContention, CallState
<1>7. CASE UNCHANGED vars
  BY <1>7 DEF vars, TriesAreChanges, ConflictMeansContention
<1> QED BY <1>1, <1>2, <1>3, <1>4, <1>5, <1>6, <1>7 DEF Next

LEMMA IInvIsInvariant == Spec => []IInv
  BY InitEstablishesIInv, StepPreservesIInv, PTL DEF Spec

(* The flags, notifyPushEnabled included, are always consistent. *)
THEOREM TypeCorrect == Spec => []TypeOK
<1>1. IInv => TypeOK
  BY DEF IInv
<1> QED BY <1>1, IInvIsInvariant, PTL

(* A 409 means that the row changed at least twice during the request. *)
THEOREM ConflictsAreReal == Spec => []ConflictMeansContention
<1>1. IInv => ConflictMeansContention
  BY DEF IInv
<1> QED BY <1>1, IInvIsInvariant, PTL

-----------------------------------------------------------------------------
LEMMA AbstractStates ==
    /\ AbstractState("idle") = "idle"
    /\ AbstractState("read") = "open" /\ AbstractState("write") = "open"
    /\ AbstractState("done") = "done"
    /\ AbstractState("conflict") = "refused"
    /\ AbstractState("missing") = "refused"
  BY DEF AbstractState

(* A step of one call changes the abstract state of that request only. *)
LEMMA OneRequestMoves ==
    ASSUME TypeOK, NEW r \in Requests, NEW new,
           call' = [call EXCEPT ![r] = new]
    PROVE  AbstractRequest' =
             [AbstractRequest EXCEPT
                ![r] = [state |-> AbstractState(new.step), patch |-> new.body]]
  BY DEF TypeOK, AbstractRequest

LEMMA RequestClosed ==
    ASSUME TypeOK, NEW r \in Requests,
           NEW step \in {"idle", "done", "conflict", "missing"},
           call' = [call EXCEPT ![r] = Closed(step)]
    PROVE  AbstractRequest' =
             [AbstractRequest EXCEPT ![r] = Atomic!Closed(AbstractState(step))]
<1>1. Closed(step).step = step /\ Closed(step).body = NoBody
  BY DEF Closed
<1> QED BY <1>1, OneRequestMoves DEF Atomic!Closed

(* Every step of the handler is a step of the atomic partial update, or    *)
(* changes nothing that it speaks of.                                      *)
THEOREM UpdatesLoseNothing == Spec => UpdatesAreAtomic
<1>1. Init => Atomic!Init
  BY AbstractStates DEF Init, Atomic!Init, Atomic!NoRequest, Atomic!Closed,
         Closed, AbstractRequest
<1>2. ASSUME IInv, [Next]_vars
      PROVE  [Atomic!Next]_<<settings, AbstractRequest>>
  <2> USE <1>2 DEF IInv
  <2>0. ASSUME NEW r \in Requests
        PROVE  /\ AbstractRequest[r].state = AbstractState(call[r].step)
               /\ AbstractRequest[r].patch = call[r].body
    BY DEF AbstractRequest
  <2>1. ASSUME NEW r \in Requests, Start(r) PROVE Atomic!Start(r)
    <3>1. PICK body \in Patches :
             call' = [call EXCEPT ![r] = [step |-> "read", body |-> body,
                                          seen |-> AllOn, tries |-> 0]]
      BY <2>1 DEF Start
    <3>2. AbstractRequest' = [AbstractRequest EXCEPT
                                ![r] = [state |-> "open", patch |-> body]]
      BY <3>1, AbstractStates DEF AbstractRequest, TypeOK
    <3> QED BY <2>0, <2>1, <3>2, AbstractStates DEF Start, Atomic!Start
  <2>2. ASSUME NEW r \in Requests, Read(r)
        PROVE  Atomic!Refuse(r) \/ UNCHANGED <<settings, AbstractRequest>>
    <3>1. CASE settings = NoUser
      <4>1. AbstractRequest' = [AbstractRequest EXCEPT
                                  ![r] = Atomic!Closed("refused")]
        BY <2>2, <3>1, RequestClosed, AbstractStates DEF Read
      <4> QED BY <2>0, <2>2, <4>1, AbstractStates DEF Read, Atomic!Refuse
    <3>2. CASE settings # NoUser
      <4>1. call' = [call EXCEPT ![r].step = "write", ![r].seen = settings]
        BY <2>2, <3>2 DEF Read
      <4>2. AbstractRequest' = AbstractRequest
        BY <2>2, <4>1, AbstractStates
           DEF Read, AbstractRequest, TypeOK, CallState
      <4> QED BY <2>2, <4>2 DEF Read
    <3> QED BY <3>1, <3>2
  <2>3. ASSUME NEW r \in Requests, Update(r) PROVE Atomic!Apply(r)
    <3>1. AbstractRequest' = [AbstractRequest EXCEPT ![r] = Atomic!Closed("done")]
      BY <2>3, RequestClosed, AbstractStates DEF Update
    <3>2. settings # NoUser
      BY <2>3, NullsAreNew DEF Update, Matches, TypeOK, CallState, Settings
    <3> QED BY <2>0, <2>3, <3>1, <3>2, AbstractStates
            DEF Update, Matches, Write, Atomic!Apply
  <2>4. ASSUME NEW r \in Requests, LoseRace(r)
        PROVE  Atomic!Refuse(r) \/ UNCHANGED <<settings, AbstractRequest>>
    <3>1. CASE LastTry(r)
      <4>1. AbstractRequest' = [AbstractRequest EXCEPT
                                  ![r] = Atomic!Closed("refused")]
        BY <2>4, <3>1, RequestClosed, AbstractStates DEF LoseRace
      <4> QED BY <2>0, <2>4, <4>1, AbstractStates DEF LoseRace, Atomic!Refuse
    <3>2. CASE ~LastTry(r)
      <4>1. call' = [call EXCEPT ![r].step = "read", ![r].tries = @ + 1]
        BY <2>4, <3>2 DEF LoseRace
      <4>2. AbstractRequest' = AbstractRequest
        BY <2>4, <4>1, AbstractStates
           DEF LoseRace, AbstractRequest, TypeOK, CallState
      <4> QED BY <2>4, <4>2 DEF LoseRace
    <3> QED BY <3>1, <3>2
  <2>5. ASSUME NEW r \in Requests, Finish(r) PROVE Atomic!Finish(r)
    <3>1. AbstractRequest' = [AbstractRequest EXCEPT ![r] = Atomic!Closed("idle")]
      BY <2>5, RequestClosed, AbstractStates DEF Finish
    <3> QED BY <2>0, <2>5, <3>1, AbstractStates DEF Finish, Atomic!Finish
  <2>6. CASE DeleteUser
    BY <2>6 DEF DeleteUser, Write, Atomic!Next, Atomic!Disappear, AbstractRequest
  <2>7. CASE UNCHANGED vars
    BY <2>7 DEF vars, AbstractRequest
  <2> QED BY <1>2, <2>1, <2>2, <2>3, <2>4, <2>5, <2>6, <2>7
          DEF Next, Atomic!Next
<1> QED BY <1>1, <1>2, IInvIsInvariant, PTL
        DEF Spec, UpdatesAreAtomic, Atomic!Spec
=============================================================================
