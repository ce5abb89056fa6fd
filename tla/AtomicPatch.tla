---------------------------- MODULE AtomicPatch -----------------------------
(***************************************************************************)
(* What a partial update of a shared row promises: each request is applied *)
(* to the current value as a whole, at one instant between its start and   *)
(* its answer, or is answered with an error and has no effect.  Nothing    *)
(* another request wrote is lost.  The row may disappear (withdrawal).     *)
(***************************************************************************)
CONSTANTS
    Requests,
    Patches,
    NoPatch,            \* a request that is not in progress
    Gone,               \* the row does not exist any more
    Initial,            \* its first value
    Merge(_, _)         \* the value after a patch

VARIABLES
    value,
    request             \* [Requests -> [state, patch]]

Closed(state) == [state |-> state, patch |-> NoPatch]
NoRequest == Closed("idle")

Init ==
    /\ value = Initial
    /\ request = [r \in Requests |-> NoRequest]

Start(r) ==
    /\ request[r].state = "idle"
    /\ \E p \in Patches :
          request' = [request EXCEPT ![r] = [state |-> "open", patch |-> p]]
    /\ UNCHANGED value

Apply(r) ==
    /\ request[r].state = "open"
    /\ value # Gone
    /\ value' = Merge(value, request[r].patch)
    /\ request' = [request EXCEPT ![r] = Closed("done")]

Refuse(r) ==
    /\ request[r].state = "open"
    /\ request' = [request EXCEPT ![r] = Closed("refused")]
    /\ UNCHANGED value

Finish(r) ==
    /\ request[r].state \in {"done", "refused"}
    /\ request' = [request EXCEPT ![r] = Closed("idle")]
    /\ UNCHANGED value

Disappear ==
    /\ value' = Gone
    /\ UNCHANGED request

Next ==
    \/ \E r \in Requests : Start(r) \/ Apply(r) \/ Refuse(r) \/ Finish(r)
    \/ Disappear

Spec == Init /\ [][Next]_<<value, request>>
=============================================================================
