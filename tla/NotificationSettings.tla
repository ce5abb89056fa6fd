------------------------ MODULE NotificationSettings ------------------------
(***************************************************************************)
(* updateNotificationSettings of src/src/features/users/users.service.js:  *)
(* the four flags of a user are read, merged with the request in memory,   *)
(* and written only if they still have the values that were read; two      *)
(* tries, then 409.  The flags carry no version, so a value that went away *)
(* and came back passes the comparison.                                    *)
(***************************************************************************)
EXTENDS Naturals, FiniteSets

CONSTANTS
    Requests,
    Patches,    \* the bodies requests send (notificationSettingsDto)
    NoBody,     \* a request that is not in progress
    NoUser      \* the user row has been deleted

Details == {"general", "goal", "temptation"}
Flags == Details \cup {"push"}

(* A body sets some of the detailed flags, or notifyPushEnabled alone. *)
Bodies == UNION {[D -> BOOLEAN] : D \in (SUBSET Details \ {{}}) \cup {{"push"}}}

ASSUME PatchesAreBodies == Patches \subseteq Bodies
ASSUME NullsAreNew == /\ NoUser \notin [Flags -> BOOLEAN]
                      /\ NoBody \notin Bodies

VARIABLES
    settings,   \* the flags of the user row, or NoUser
    call,       \* [Requests -> step, body, flags read, failed tries]
    changes     \* changes of the row since a request started, up to MaxTries

vars == <<settings, call, changes>>

MaxTries == 2

(* "notifyPushEnabled" means all three, and is kept so in the row. *)
Settings == {s \in [Flags -> BOOLEAN] :
                s["push"] <=> \A d \in Details : s[d]}

CallState == [step: {"idle", "read", "write", "done", "conflict", "missing"},
              body: Patches \cup {NoBody},
              seen: Settings,
              tries: 0..MaxTries]

TypeOK ==
    /\ settings \in Settings \cup {NoUser}
    /\ call \in [Requests -> CallState]
    /\ changes \in [Requests -> 0..MaxTries]

AllOn == [f \in Flags |-> TRUE]

Closed(step) == [step |-> step, body |-> NoBody, seen |-> AllOn, tries |-> 0]

Init ==
    /\ settings = AllOn
    /\ call = [r \in Requests |-> Closed("idle")]
    /\ changes = [r \in Requests |-> 0]

-----------------------------------------------------------------------------
(* next: the body over the flags that were read. *)
Merged(s, body) ==
    [d \in Details |-> IF "push" \in DOMAIN body THEN body["push"]
                       ELSE IF d \in DOMAIN body THEN body[d]
                       ELSE s[d]]

MergedKeepingPush(s, body) ==  \* mutant: notifyPushEnabled is not recomputed
    [f \in Flags |-> IF f = "push" THEN s["push"] ELSE Merged(s, body)[f]]

NextSettings(s, body) ==
    [f \in Flags |-> IF f = "push" THEN \A d \in Details : Merged(s, body)[d]
                                   ELSE Merged(s, body)[f]]

Bump(n) == IF n < MaxTries THEN n + 1 ELSE n

(* The row gets the value s: every request in progress saw it change. *)
Write(s) ==
    /\ settings' = s
    /\ changes' = [r \in Requests |->
                      IF s # settings THEN Bump(changes[r]) ELSE changes[r]]

Start(r) ==
    /\ call[r].step = "idle"
    /\ \E body \in Patches :
          call' = [call EXCEPT ![r] = [step |-> "read", body |-> body,
                                       seen |-> AllOn, tries |-> 0]]
    /\ changes' = [changes EXCEPT ![r] = 0]
    /\ UNCHANGED settings

(* findUnique, 404 when the user is gone. *)
Read(r) ==
    /\ call[r].step = "read"
    /\ \/ /\ settings # NoUser
          /\ call' = [call EXCEPT ![r].step = "write", ![r].seen = settings]
       \/ /\ settings = NoUser
          /\ call' = [call EXCEPT ![r] = Closed("missing")]
    /\ UNCHANGED <<settings, changes>>

(* updateMany on the values that were read. *)
MatchesIfPresent(r) == settings # NoUser  \* mutant: where: { id } only

Matches(r) == settings = call[r].seen

Update(r) ==
    /\ call[r].step = "write"
    /\ Matches(r)
    /\ Write(NextSettings(call[r].seen, call[r].body))
    /\ call' = [call EXCEPT ![r] = Closed("done")]

LastTryEarly(r) == TRUE  \* mutant: gives up at the first conflict

LastTry(r) == call[r].tries + 1 = MaxTries

LoseRace(r) ==
    /\ call[r].step = "write"
    /\ ~Matches(r)
    /\ \/ /\ LastTry(r)
          /\ call' = [call EXCEPT ![r] = Closed("conflict")]
       \/ /\ ~LastTry(r)
          /\ call' = [call EXCEPT ![r].step = "read", ![r].tries = @ + 1]
    /\ UNCHANGED <<settings, changes>>

Finish(r) ==
    /\ call[r].step \in {"done", "conflict", "missing"}
    /\ call' = [call EXCEPT ![r] = Closed("idle")]
    /\ UNCHANGED <<settings, changes>>

(* A withdrawal deletes the row under the requests. *)
DeleteUser ==
    /\ settings # NoUser
    /\ Write(NoUser)
    /\ UNCHANGED call

Next ==
    \/ \E r \in Requests :
          Start(r) \/ Read(r) \/ Update(r) \/ LoseRace(r) \/ Finish(r)
    \/ DeleteUser

Spec == Init /\ [][Next]_vars

-----------------------------------------------------------------------------
(* The handler as an atomic merge of each body into the current flags. *)
AbstractState(step) ==
    CASE step = "idle" -> "idle"
      [] step \in {"read", "write"} -> "open"
      [] step = "done" -> "done"
      [] OTHER -> "refused"

AbstractRequest == [r \in Requests |-> [state |-> AbstractState(call[r].step),
                                         patch |-> call[r].body]]

Atomic == INSTANCE AtomicPatch WITH
    NoPatch <- NoBody,
    Gone <- NoUser,
    Initial <- AllOn,
    Merge <- NextSettings,
    value <- settings,
    request <- AbstractRequest

(* No flag another request wrote is lost, and a 404 or 409 had no effect,  *)
(* although the flags are compared by value.                               *)
UpdatesAreAtomic == Atomic!Spec

(* A 409 is only answered to a request during which the row changed at     *)
(* least twice: one concurrent change is always survived by the retry.     *)
ConflictMeansContention ==
    \A r \in Requests : call[r].step = "conflict" => changes[r] >= MaxTries
=============================================================================
