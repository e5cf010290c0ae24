-------------------------- MODULE TranslationService --------------------------
(***************************************************************************)
(* What the last level TLB expects of an MMU (BottomPort of                *)
(* mem/vm/tlb/tlb_with_pwc.go): every translation request it sends is      *)
(* answered once, with the page the page table holds. How long a walk      *)
(* takes, and in which order walks finish, is up to the MMU.               *)
(***************************************************************************)

CONSTANT Req    \* translation requests

VARIABLES
    waiting,    \* requests that were sent and are not answered yet
    answered    \* requests whose right answer has left the MMU

Init == waiting = {} /\ answered = {}

(* The TLB sends a request. *)
Ask(r) ==
    /\ r \notin waiting \cup answered
    /\ waiting' = waiting \cup {r}
    /\ UNCHANGED answered

(* The MMU answers it with the page it asks for. *)
Answer(r) ==
    /\ r \in waiting
    /\ waiting' = waiting \ {r}
    /\ answered' = answered \cup {r}

Next == \E r \in Req : Ask(r) \/ Answer(r)

Spec ==
    /\ Init
    /\ [][Next]_<<waiting, answered>>
    /\ \A r \in Req : WF_<<waiting, answered>>(Answer(r))
==============================================================================
