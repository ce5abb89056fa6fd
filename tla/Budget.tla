------------------------------- MODULE Budget -------------------------------
(***************************************************************************)
(* setBudget of src/src/features/users/users.service.js: one month's       *)
(* budget of a user is read and upserted in a SERIALIZABLE transaction     *)
(* that writes the category list back even when the request has none; the  *)
(* transaction is retried twice when the database reports a conflict       *)
(* (P2034).                                                                *)
(*                                                                         *)
(* At that level a MySQL read locks the row, or its gap, in shared mode,   *)
(* and a write waits for every other reader; two transactions that wait    *)
(* for each other are a deadlock, and the database rolls one of them back. *)
(***************************************************************************)
EXTENDS Naturals

CONSTANTS
    Requests,
    Amounts,    \* values of a field; 0 stands for NULL, 0n and []
    Patches,    \* the bodies requests send (setBudgetDto)
    NoPatch,    \* a request that is not in progress
    Deleted     \* the user row, and by cascade the budget, is gone

Fields == {"monthlyIncome", "monthlyBudget", "categoryBudgets", "hourlyWage"}
Rows == [Fields -> Amounts]
Bodies == UNION {[F -> Amounts] : F \in SUBSET Fields \ {{}}}

ASSUME ZeroIsAnAmount == 0 \in Amounts
ASSUME PatchesAreBodies == Patches \subseteq Bodies
ASSUME NullsAreNew == Deleted \notin Rows /\ NoPatch \notin Bodies

VARIABLES
    budget,     \* the budget fields of the month and the wage of the user
    call        \* [Requests -> step, body, categories read, failed tries]

vars == <<budget, call>>

MaxTries == 3

(* A call past its read, at "write", holds the shared lock. *)
CallState == [step: {"idle", "read", "write", "done", "failed"},
              body: Patches \cup {NoPatch},
              categories: Amounts,
              tries: 0..MaxTries]

TypeOK ==
    /\ budget \in Rows \cup {Deleted}
    /\ call \in [Requests -> CallState]

Closed(step) == [step |-> step, body |-> NoPatch, categories |-> 0, tries |-> 0]
Empty == [f \in Fields |-> 0]

Init ==
    /\ budget = Empty
    /\ call = [r \in Requests |-> Closed("idle")]

-----------------------------------------------------------------------------
(* The user is looked up before the transaction: 404 changes nothing. *)
Start(r) ==
    /\ call[r].step = "idle"
    /\ budget # Deleted
    /\ \E body \in Patches :
          call' = [call EXCEPT ![r] = [Closed("read") EXCEPT !.body = body]]
    /\ UNCHANGED budget

Read(r) ==
    /\ call[r].step = "read"
    /\ budget # Deleted
    /\ call' = [call EXCEPT ![r].step = "write",
                            ![r].categories = budget["categoryBudgets"]]
    /\ UNCHANGED budget

(* The upsert: given fields are set, the others kept, but the category     *)
(* list is the one of the body or else the one that was read.              *)
Given(row, body) ==
    [f \in Fields |-> IF f \in DOMAIN body THEN body[f] ELSE row[f]]

Upsert(body, row, categories) ==
    Given([row EXCEPT !["categoryBudgets"] = categories], body)

AloneAnyway(r) == TRUE  \* mutant: the default isolation level, no read lock

Alone(r) == \A q \in Requests \ {r} : call[q].step # "write"

Commit(r) ==
    /\ call[r].step = "write"
    /\ budget # Deleted
    /\ Alone(r)
    /\ budget' = Upsert(call[r].body, budget, call[r].categories)
    /\ call' = [call EXCEPT ![r] = Closed("done")]

NeverLastTry(r) == FALSE  \* mutant: retries for ever

LastTry(r) == call[r].tries + 1 = MaxTries

(* Two readers that both want to write: r is rolled back and retried.      *)
(* (The cap on tries only binds when there is no last try.)                *)
Conflict(r) ==
    /\ call[r].step = "write"
    /\ ~Alone(r)
    /\ \/ /\ LastTry(r)
          /\ call' = [call EXCEPT ![r] = Closed("failed")]
       \/ /\ ~LastTry(r)
          /\ call' = [call EXCEPT ![r].step = "read",
                                  ![r].tries = IF @ < MaxTries THEN @ + 1 ELSE @]
    /\ UNCHANGED budget

(* Any other database error, such as the user being gone, is not retried. *)
Fail(r) ==
    /\ call[r].step \in {"read", "write"}
    /\ call' = [call EXCEPT ![r] = Closed("failed")]
    /\ UNCHANGED budget

Finish(r) ==
    /\ call[r].step \in {"done", "failed"}
    /\ call' = [call EXCEPT ![r] = Closed("idle")]
    /\ UNCHANGED budget

(* A withdrawal: its cascade waits for the readers of an existing row; a   *)
(* reader of a gap does not stop it.                                       *)
DeleteUser ==
    /\ budget # Deleted
    /\ budget' = Deleted
    /\ \/ budget = Empty
       \/ \A r \in Requests : call[r].step # "write"
    /\ UNCHANGED call

Next ==
    \/ \E r \in Requests :
          Start(r) \/ Read(r) \/ Commit(r) \/ Conflict(r) \/ Fail(r) \/ Finish(r)
    \/ DeleteUser

Spec == Init /\ [][Next]_vars

(* A request in progress keeps running and the database resolves every     *)
(* deadlock; clients need not send requests and no error has to happen,    *)
(* but a transaction on a missing user does fail.                          *)
Progress(r) ==
    \/ Read(r)
    \/ Commit(r)
    \/ Conflict(r)
    \/ budget = Deleted /\ Fail(r)

FairSpec == Spec /\ \A r \in Requests : WF_vars(Progress(r))

-----------------------------------------------------------------------------
AbstractRequest ==
    [r \in Requests |->
        [state |-> CASE call[r].step \in {"read", "write"} -> "open"
                     [] call[r].step = "failed" -> "refused"
                     [] OTHER -> call[r].step,
         patch |-> call[r].body]]

Atomic == INSTANCE AtomicPatch WITH
    Gone <- Deleted,
    Initial <- Empty,
    Merge <- Given,
    value <- budget,
    request <- AbstractRequest

(* A request that leaves the category list out never puts back an older    *)
(* one over the list another request has just saved.                       *)
UpdatesAreAtomic == Atomic!Spec

(* Two requests that deadlock again and again are still both answered.     *)
EveryRequestAnswered ==
    \A r \in Requests :
        call[r].step \in {"read", "write"}
            ~> call[r].step \in {"done", "failed"}
=============================================================================
