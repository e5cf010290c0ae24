----------------------------- MODULE RemoteAccess -----------------------------
(***************************************************************************)
(* What the RDMA engines promise together: every access of an L1 cache to  *)
(* the memory of another GPU is done once and then answered once, and      *)
(* while the engines are stopped no access is under way.                   *)
(***************************************************************************)
CONSTANT Id

VARIABLES
    state,   \* progress of an access
    stopped  \* the engines are drained

vars == <<state, stopped>>

Init ==
    /\ state = [id \in Id |-> "new"]
    /\ stopped = FALSE

Advance(id, here, there) ==
    /\ state[id] = here
    /\ state' = [state EXCEPT ![id] = there]
    /\ UNCHANGED stopped

Accept(id) == ~stopped /\ Advance(id, "new", "accepted")

Perform(id) == Advance(id, "accepted", "done")

Answer(id) == Advance(id, "done", "answered")

Stop ==
    /\ ~stopped
    /\ \A id \in Id : state[id] \in {"new", "answered"}
    /\ stopped' = TRUE
    /\ UNCHANGED state

Start ==
    /\ stopped
    /\ stopped' = FALSE
    /\ UNCHANGED state

Next ==
    \/ \E id \in Id : Accept(id) \/ Perform(id) \/ Answer(id)
    \/ Stop
    \/ Start

(* An accepted access is answered. *)
Spec ==
    /\ Init
    /\ [][Next]_vars
    /\ \A id \in Id : WF_vars(Perform(id)) /\ WF_vars(Answer(id))
=============================================================================
