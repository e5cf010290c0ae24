------------------------------ MODULE RDMAEngine ------------------------------
(***************************************************************************)
(* The RDMA engines (mgpusim/rdma/rdmaengine.go) that take the accesses of *)
(* the L1 caches of a GPU to memory of another one. The engine of the GPU  *)
(* that asks sends a copy of the request, with an ID of its own, to the    *)
(* engine of the other GPU, which sends a copy of that to its L2 cache;    *)
(* the responses take the same way back. Requests and responses use a port *)
(* and a link each.                                                        *)
(*                                                                         *)
(* An action handles one message in one of the handlers of Tick. L1 and L2 *)
(* caches, links and the controller (driver and command processor), which  *)
(* drains and restarts all engines, are modelled by what they do to the    *)
(* ports of the engines. No L2 cache and no PwPort sends a request to an   *)
(* engine in the builders' wiring (builders/common.go:858-869).            *)
(***************************************************************************)
EXTENDS Naturals, Sequences, FiniteSets, SequencesExt

CONSTANTS
    Engine,
    Id,        \* accesses
    From, To,  \* the GPU of an access and the one whose memory it is for
    PortCap,   \* messages in the buffer of a port
    LinkCap,   \* messages of a port in its connection
    Rounds     \* bound: times the controller drains the engines

ASSUME RDMAAssumption ==
    /\ From \in [Id -> Engine]
    /\ To \in [Id -> Engine]
    /\ PortCap \in Nat \ {0}
    /\ LinkCap \in Nat \ {0}
    /\ Rounds \in Nat

VARIABLES
    toL1, toL2,                 \* buffers of ToL1 (requests) and ToL2 (responses)
    requestPort, responsePort,  \* buffers of RequestPort and ResponsePort
    requestLink, responseLink,  \* their messages in the connection
    ctrlPort,                   \* buffer of CtrlPort
    ctrlLink,                   \* its messages in the connection (1)
    isDraining,
    pauseIncomingReqsFromL1,
    currentDrainReq,            \* there is one
    transactionsFromInside,
    transactionsFromOutside,
    l2,                         \* requests in the L2 cache
    answered,                   \* accesses whose answer L1 has
    phase,                      \* of the controller
    acks,                       \* engines it waits for
    rounds

portVars == <<toL1, toL2, requestPort, responsePort, requestLink, responseLink>>
ctrlVars == <<ctrlPort, ctrlLink>>
drainVars == <<isDraining, pauseIncomingReqsFromL1, currentDrainReq>>
transVars == <<transactionsFromInside, transactionsFromOutside>>
controllerVars == <<phase, acks, rounds>>
vars == <<portVars, ctrlVars, drainVars, transVars, l2, answered, controllerVars>>

(* A message is the access it belongs to; its copies have the access and   *)
(* the engine that made them as ID.                                        *)
Outside(id) == [id |-> id, at |-> "outside"]
Inside(id)  == [id |-> id, at |-> "inside"]

(* A transaction names the message an engine received and the one it sent. *)
Transaction == [received : [id : Id, at : {"L1", "outside"}],
                sent : [id : Id, at : {"outside", "inside"}]]

Limited(port, msgs, cap) ==
    /\ port \in [Engine -> Seq(msgs)]
    /\ \A e \in Engine : Len(port[e]) <= cap

TypeOK ==
    /\ Limited(toL1, Id, PortCap)
    /\ Limited(toL2, Id, PortCap)
    /\ Limited(requestPort, Id, PortCap)
    /\ Limited(responsePort, Id, PortCap)
    /\ Limited(requestLink, Id, LinkCap)
    /\ Limited(responseLink, [id : Id, dst : Engine], LinkCap)
    /\ Limited(ctrlPort, {"drain", "restart"}, PortCap)
    /\ Limited(ctrlLink, {"drain", "restart"}, 1)
    /\ isDraining \in [Engine -> BOOLEAN]
    /\ pauseIncomingReqsFromL1 \in [Engine -> BOOLEAN]
    /\ currentDrainReq \in [Engine -> BOOLEAN]
    /\ transactionsFromInside \in [Engine -> SUBSET Transaction]
    /\ transactionsFromOutside \in [Engine -> SUBSET Transaction]
    /\ l2 \in [Engine -> SUBSET Id]
    /\ answered \subseteq Id
    /\ phase \in {"running", "draining", "stopped", "restarting"}
    /\ acks \subseteq Engine
    /\ rounds \in 0..Rounds

Empty == [e \in Engine |-> <<>>]

Init ==
    /\ toL1 = Empty /\ toL2 = Empty
    /\ requestPort = Empty /\ responsePort = Empty
    /\ requestLink = Empty /\ responseLink = Empty
    /\ ctrlPort = Empty /\ ctrlLink = Empty
    /\ isDraining = [e \in Engine |-> FALSE]
    /\ pauseIncomingReqsFromL1 = [e \in Engine |-> FALSE]
    /\ currentDrainReq = [e \in Engine |-> FALSE]
    /\ transactionsFromInside = [e \in Engine |-> {}]
    /\ transactionsFromOutside = [e \in Engine |-> {}]
    /\ l2 = [e \in Engine |-> {}]
    /\ answered = {}
    /\ phase = "running"
    /\ acks = {}
    /\ rounds = 0

-----------------------------------------------------------------------------
(* CtrlPort. *)

(* processFromCtrlPort, a DrainReq. *)
ProcessDrainReq(e) ==
    /\ ctrlPort[e] # <<>>
    /\ Head(ctrlPort[e]) = "drain"
    /\ ctrlPort' = [ctrlPort EXCEPT ![e] = Tail(@)]
    /\ currentDrainReq' = [currentDrainReq EXCEPT ![e] = TRUE]
    /\ isDraining' = [isDraining EXCEPT ![e] = TRUE]
    /\ pauseIncomingReqsFromL1' = [pauseIncomingReqsFromL1 EXCEPT ![e] = TRUE]
    /\ UNCHANGED <<portVars, ctrlLink, transVars, l2, answered, controllerVars>>

(* processFromCtrlPort, a RestartReq: it has left the port when the send   *)
(* of the response may fail, and is lost then.                             *)
ProcessRDMARestartReq(e) ==
    /\ ctrlPort[e] # <<>>
    /\ Head(ctrlPort[e]) = "restart"
    /\ ctrlPort' = [ctrlPort EXCEPT ![e] = Tail(@)]
    /\ IF ctrlLink[e] = <<>>
       THEN /\ ctrlLink' = [ctrlLink EXCEPT ![e] = <<"restart">>]
            /\ currentDrainReq' = [currentDrainReq EXCEPT ![e] = FALSE]
            /\ pauseIncomingReqsFromL1' = [pauseIncomingReqsFromL1 EXCEPT ![e] = FALSE]
       ELSE UNCHANGED <<ctrlLink, currentDrainReq, pauseIncomingReqsFromL1>>
    /\ UNCHANGED <<portVars, isDraining, transVars, l2, answered, controllerVars>>

(* Faulty: only what others ask of this GPU is waited for. *)
OutsideDrained(e) == transactionsFromOutside[e] = {}

FullyDrained(e) == transactionsFromOutside[e] = {} /\ transactionsFromInside[e] = {}

(* Faulty: goes on draining, so that it answers again. *)
DrainRDMAAgain(e) ==
    /\ isDraining[e]
    /\ FullyDrained(e)
    /\ ctrlLink[e] = <<>>
    /\ ctrlLink' = [ctrlLink EXCEPT ![e] = <<"drain">>]
    /\ UNCHANGED <<portVars, ctrlPort, drainVars, transVars, l2, answered, controllerVars>>

DrainRDMA(e) ==
    /\ isDraining[e]
    /\ FullyDrained(e)
    /\ ctrlLink[e] = <<>>
    /\ ctrlLink' = [ctrlLink EXCEPT ![e] = <<"drain">>]
    /\ isDraining' = [isDraining EXCEPT ![e] = FALSE]
    /\ UNCHANGED <<portVars, ctrlPort, pauseIncomingReqsFromL1, currentDrainReq, transVars,
                   l2, answered, controllerVars>>

-----------------------------------------------------------------------------
(* Accesses. *)

(* Faulty: sends without looking whether it can. *)
RoomAlways(link, e, cap) == TRUE

Room(link, e, cap) == Len(link[e]) < cap

(* processFromL1 and processReqFromL1. *)
ProcessReqFromL1(e) ==
    /\ ~pauseIncomingReqsFromL1[e]
    /\ toL1[e] # <<>>
    /\ Room(requestLink, e, LinkCap)
    /\ LET id == Head(toL1[e])
       IN  /\ requestLink' = [requestLink EXCEPT ![e] = Append(@, id)]
           /\ transactionsFromInside' = [transactionsFromInside EXCEPT ![e] =
                @ \cup {[received |-> [id |-> id, at |-> "L1"], sent |-> Outside(id)]}]
    /\ toL1' = [toL1 EXCEPT ![e] = Tail(@)]
    /\ UNCHANGED <<toL2, requestPort, responsePort, responseLink, ctrlVars, drainVars,
                   transactionsFromOutside, l2, answered, controllerVars>>

(* processReqFromOutside; ToL2 is one send away from the L2 cache. *)
ProcessReqFromOutside(e) ==
    /\ requestPort[e] # <<>>
    /\ Cardinality(l2[e]) < PortCap
    /\ LET id == Head(requestPort[e])
       IN  /\ l2' = [l2 EXCEPT ![e] = @ \cup {id}]
           /\ transactionsFromOutside' = [transactionsFromOutside EXCEPT ![e] =
                @ \cup {[received |-> Outside(id), sent |-> Inside(id)]}]
    /\ requestPort' = [requestPort EXCEPT ![e] = Tail(@)]
    /\ UNCHANGED <<toL1, toL2, responsePort, requestLink, responseLink, ctrlVars, drainVars,
                   transactionsFromInside, answered, controllerVars>>

(* findTransactionByRspToID, which panics when there is none. *)
Find(transactions, msg) == { t \in transactions : t.sent = msg }

(* Faulty: answers to the engine itself. *)
OwnResponsePort(e, id) == e

(* getResponsePort: the engine whose RequestPort sent the request. *)
GetResponsePort(e, id) == From[id]

(* processFromL2 and processRspFromL2. *)
ProcessRspFromL2(e) ==
    /\ toL2[e] # <<>>
    /\ Room(responseLink, e, LinkCap)
    /\ LET id == Head(toL2[e])
           ts == Find(transactionsFromOutside[e], Inside(id))
       IN  /\ ts # {}
           /\ responseLink' = [responseLink EXCEPT ![e] =
                Append(@, [id |-> id, dst |-> GetResponsePort(e, id)])]
           /\ transactionsFromOutside' = [transactionsFromOutside EXCEPT ![e] = @ \ ts]
    /\ toL2' = [toL2 EXCEPT ![e] = Tail(@)]
    /\ UNCHANGED <<toL1, requestPort, responsePort, requestLink, ctrlVars, drainVars,
                   transactionsFromInside, l2, answered, controllerVars>>

(* processRspFromOutside; the L1 cache takes the response. *)
ProcessRspFromOutside(e) ==
    /\ responsePort[e] # <<>>
    /\ LET id == Head(responsePort[e])
           ts == Find(transactionsFromInside[e], Outside(id))
       IN  /\ ts # {}
           /\ answered' = answered \cup {id}
           /\ transactionsFromInside' = [transactionsFromInside EXCEPT ![e] = @ \ ts]
    /\ responsePort' = [responsePort EXCEPT ![e] = Tail(@)]
    /\ UNCHANGED <<toL1, toL2, requestPort, requestLink, responseLink, ctrlVars, drainVars,
                   transactionsFromOutside, l2, controllerVars>>

EngineStep(e) ==
    \/ ProcessDrainReq(e)
    \/ ProcessRDMARestartReq(e)
    \/ DrainRDMA(e)
    \/ ProcessReqFromL1(e)
    \/ ProcessRspFromL2(e)
    \/ ProcessReqFromOutside(e)
    \/ ProcessRspFromOutside(e)

-----------------------------------------------------------------------------
(* Links and caches. *)

DeliverRequest(e) ==
    /\ requestLink[e] # <<>>
    /\ LET d == To[Head(requestLink[e])]
       IN  /\ Room(requestPort, d, PortCap)
           /\ requestPort' = [requestPort EXCEPT ![d] = Append(@, Head(requestLink[e]))]
    /\ requestLink' = [requestLink EXCEPT ![e] = Tail(@)]
    /\ UNCHANGED <<toL1, toL2, responsePort, responseLink, ctrlVars, drainVars, transVars,
                   l2, answered, controllerVars>>

DeliverResponse(e) ==
    /\ responseLink[e] # <<>>
    /\ LET d == Head(responseLink[e]).dst
       IN  /\ Room(responsePort, d, PortCap)
           /\ responsePort' = [responsePort EXCEPT ![d] = Append(@, Head(responseLink[e]).id)]
    /\ responseLink' = [responseLink EXCEPT ![e] = Tail(@)]
    /\ UNCHANGED <<toL1, toL2, requestPort, requestLink, ctrlVars, drainVars, transVars,
                   l2, answered, controllerVars>>

(* The L2 cache answers in any order. *)
L2Performs(e, id) ==
    /\ id \in l2[e]
    /\ Room(toL2, e, PortCap)
    /\ l2' = [l2 EXCEPT ![e] = @ \ {id}]
    /\ toL2' = [toL2 EXCEPT ![e] = Append(@, id)]
    /\ UNCHANGED <<toL1, requestPort, responsePort, requestLink, responseLink, ctrlVars,
                   drainVars, transVars, answered, controllerVars>>

In(port, e, id) == Contains(port[e], id)

Accepted(id) == \E t \in transactionsFromInside[From[id]] : t.received.id = id

(* An L1 cache sends every access once, at any time. *)
L1Sends(id) ==
    /\ ~In(toL1, From[id], id)
    /\ ~Accepted(id)
    /\ id \notin answered
    /\ Room(toL1, From[id], PortCap)
    /\ toL1' = [toL1 EXCEPT ![From[id]] = Append(@, id)]
    /\ UNCHANGED <<toL2, requestPort, responsePort, requestLink, responseLink, ctrlVars,
                   drainVars, transVars, l2, answered, controllerVars>>

-----------------------------------------------------------------------------
(* The controller: it drains all engines, waits for all of them, restarts  *)
(* them all and waits again.                                               *)

ControllerUnchanged == UNCHANGED <<portVars, drainVars, transVars, l2, answered>>

SendAll(msg) ==
    /\ ctrlPort' = [e \in Engine |-> Append(ctrlPort[e], msg)]
    /\ acks' = Engine

Drain ==
    /\ phase = "running"
    /\ rounds < Rounds
    /\ SendAll("drain")
    /\ phase' = "draining"
    /\ rounds' = rounds + 1
    /\ UNCHANGED ctrlLink /\ ControllerUnchanged

(* Faulty: restarts at once. *)
RestartUnasked ==
    /\ phase \in {"draining", "stopped"}
    /\ SendAll("restart")
    /\ phase' = "restarting"
    /\ UNCHANGED <<ctrlLink, rounds>> /\ ControllerUnchanged

Restart ==
    /\ phase = "stopped"
    /\ SendAll("restart")
    /\ phase' = "restarting"
    /\ UNCHANGED <<ctrlLink, rounds>> /\ ControllerUnchanged

TakeAck(e) ==
    /\ ctrlLink[e] # <<>>
    /\ ctrlLink' = [ctrlLink EXCEPT ![e] = Tail(@)]
    /\ acks' = acks \ {e}
    /\ phase' = IF acks # {e} THEN phase
                 ELSE IF phase = "draining" THEN "stopped" ELSE "running"
    /\ UNCHANGED <<ctrlPort, rounds>> /\ ControllerUnchanged

-----------------------------------------------------------------------------

System ==
    \/ \E e \in Engine : EngineStep(e) \/ DeliverRequest(e) \/ DeliverResponse(e) \/ TakeAck(e)
    \/ \E e \in Engine, id \in Id : L2Performs(e, id)
    \/ Restart

Done ==
    /\ answered = Id
    /\ phase = "running"
    /\ rounds = Rounds
    /\ UNCHANGED vars

Next ==
    \/ System
    \/ \E id \in Id : L1Sends(id)
    \/ Drain
    \/ Done

(* Ticking components tick while they can go on; L1 caches and the driver  *)
(* need not ask for anything.                                              *)
Spec == Init /\ [][Next]_vars /\ WF_vars(System)

-----------------------------------------------------------------------------
(* Properties. *)

OnTheWay(id) ==
    LET a == From[id]
        b == To[id]
    IN  In(requestLink, a, id) \/ In(requestPort, b, id)

Served(id) ==
    \/ In(toL2, To[id], id)
    \/ \E i \in DOMAIN responseLink[To[id]] : responseLink[To[id]][i].id = id
    \/ In(responsePort, From[id], id)

(* The transactions of the engines are the accesses under way: the engine  *)
(* that asks has one from the time the request leaves to the time its      *)
(* response comes back, the other one while its L2 cache works. So a       *)
(* response finds its transaction (the panic of findTransactionByRspToID   *)
(* is not reached) and reaches the L1 cache that asked.                    *)
TransactionsMatch ==
    \A id \in Id :
        /\ Accepted(id) <=> OnTheWay(id) \/ id \in l2[To[id]] \/ Served(id)
        /\ (\E t \in transactionsFromOutside[To[id]] : t.received.id = id)
              <=> id \in l2[To[id]] \/ In(toL2, To[id], id)
        /\ Accepted(id) => id \notin answered

(* "DrainReq asks the rdma to stop processing requests from L1 while       *)
(* allowing pending requests to L2 to complete" (rdmaprotocol.go:7). One   *)
(* engine may answer while another one's request is on its way to it; when *)
(* all have answered nothing is under way between them.                    *)
NothingUnderWay ==
    phase = "stopped" =>
        \A e \in Engine :
            /\ transactionsFromInside[e] = {}
            /\ transactionsFromOutside[e] = {}
            /\ l2[e] = {}
            /\ <<requestPort[e], responsePort[e], requestLink[e], responseLink[e], toL2[e]>>
                    = <<<<>>, <<>>, <<>>, <<>>, <<>>>>

(* A restart request finds a drain to answer to and room for its answer,   *)
(* so it is not lost, though the code drops it when the send fails.        *)
RestartNotLost ==
    \A e \in Engine :
        ctrlPort[e] # <<>> /\ Head(ctrlPort[e]) = "restart"
            => currentDrainReq[e] /\ ctrlLink[e] = <<>> /\ ~isDraining[e]

(* Every drain ends, though accesses of all engines are under way in both  *)
(* directions and ports and links are full.                                *)
DrainEnds == phase = "draining" ~> phase = "running"

(* The engines implement what they promise. *)
State ==
    [ id \in Id |->
        CASE Served(id) -> "done"
          [] ~Served(id) /\ Accepted(id) -> "accepted"
          [] ~Served(id) /\ ~Accepted(id) /\ id \in answered -> "answered"
          [] OTHER -> "new" ]

Promise == INSTANCE RemoteAccess WITH state <- State, stopped <- phase = "stopped"

Refines == Promise!Spec
=============================================================================
