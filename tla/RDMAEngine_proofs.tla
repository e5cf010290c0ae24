--------------------------- MODULE RDMAEngine_proofs ---------------------------
(***************************************************************************)
(* Proofs about RDMAEngine, for any number of engines and accesses, any    *)
(* capacities and any number of drains: responses find their transactions, *)
(* drained engines have nothing under way, restarts are not lost, and      *)
(* every step of the engines is a step of RemoteAccess.                    *)
(***************************************************************************)
EXTENDS RDMAEngine, CountingFacts

-----------------------------------------------------------------------------
(* The inductive invariant. *)

(* The transactions of an access at the engine that asks and at the one    *)
(* that is asked, and the response between them.                           *)
Asking(id) == [received |-> [id |-> id, at |-> "L1"], sent |-> Outside(id)]
Asked(id)  == [received |-> Outside(id), sent |-> Inside(id)]
Rsp(id)    == [id |-> id, dst |-> From[id]]

(* An access is only in the buffers of the engines it is from and for, at  *)
(* most once in each.                                                      *)
PlacedIn(port, home) == \A e \in Engine : \A id \in Id : In(port, e, id) => home[id] = e

PlacedInL2 == \A e \in Engine : \A id \in Id : id \in l2[e] => To[id] = e

PlacedResponses ==
    \A e \in Engine : \A m \in [id : Id, dst : Engine] :
        In(responseLink, e, m) => To[m.id] = e /\ m = Rsp(m.id)

PlacedAsking ==
    \A e \in Engine : \A t \in transactionsFromInside[e] : \E id \in Id : t = Asking(id) /\ From[id] = e

PlacedAsked ==
    \A e \in Engine : \A t \in transactionsFromOutside[e] : \E id \in Id : t = Asked(id) /\ To[id] = e

Placed ==
    /\ PlacedIn(toL1, From) /\ PlacedIn(requestLink, From) /\ PlacedIn(responsePort, From)
    /\ PlacedIn(requestPort, To) /\ PlacedIn(toL2, To)
    /\ PlacedInL2 /\ PlacedResponses /\ PlacedAsking /\ PlacedAsked

(* No buffer of a kind has a message twice. *)
Distinct(port) == \A e \in Engine : NoDuplicates(port[e])

NoDuplicate ==
    /\ Distinct(toL1) /\ Distinct(toL2)
    /\ Distinct(requestPort) /\ Distinct(responsePort)
    /\ Distinct(requestLink) /\ Distinct(responseLink)

(* Where an access is on its way. *)
WaitsInL1(id)      == In(toL1, From[id], id)
InRequestLink(id)  == In(requestLink, From[id], id)
InRequestPort(id)  == In(requestPort, To[id], id)
InL2(id)           == id \in l2[To[id]]
InToL2(id)         == In(toL2, To[id], id)
InResponseLink(id) == In(responseLink, To[id], Rsp(id))
InResponsePort(id) == In(responsePort, From[id], id)
HasAsking(id)      == Asking(id) \in transactionsFromInside[From[id]]
HasAsked(id)       == Asked(id) \in transactionsFromOutside[To[id]]

(* An access is in one of these places exactly while the engine that asks  *)
(* has its transaction, and has not been answered then.                    *)
OnePlaceOf(id) ==
    /\ InRequestLink(id) => ~InRequestPort(id) /\ ~InL2(id) /\ ~InToL2(id)
                               /\ ~InResponseLink(id) /\ ~InResponsePort(id)
    /\ InRequestPort(id) => ~InL2(id) /\ ~InToL2(id) /\ ~InResponseLink(id) /\ ~InResponsePort(id)
    /\ InL2(id) => ~InToL2(id) /\ ~InResponseLink(id) /\ ~InResponsePort(id)
    /\ InToL2(id) => ~InResponseLink(id) /\ ~InResponsePort(id)
    /\ InResponseLink(id) => ~InResponsePort(id)
    /\ HasAsking(id) <=> \/ InRequestLink(id) \/ InRequestPort(id) \/ InL2(id)
                         \/ InToL2(id) \/ InResponseLink(id) \/ InResponsePort(id)
    /\ HasAsked(id) <=> InL2(id) \/ InToL2(id)
    /\ HasAsking(id) => id \notin answered
    /\ WaitsInL1(id) => ~HasAsking(id) /\ id \notin answered

OnePlace == \A id \in Id : OnePlaceOf(id)

(* An access that L2 has performed and L1 does not know of. *)
ServedAt(id) == InToL2(id) \/ InResponseLink(id) \/ InResponsePort(id)

(* The progress of an access: none, or a step on its way. *)
Still(i) ==
    /\ HasAsking(i)' <=> HasAsking(i)
    /\ ServedAt(i)' <=> ServedAt(i)
    /\ i \in answered' <=> i \in answered

AllStill == \A i \in Id : Still(i)

OthersStill(id) == \A i \in Id \ {id} : Still(i)

Accepts(id) ==
    /\ ~HasAsking(id) /\ ~ServedAt(id) /\ id \notin answered
    /\ HasAsking(id)' /\ ~ServedAt(id)'
    /\ OthersStill(id)

Performs(id) ==
    /\ HasAsking(id) /\ ~ServedAt(id)
    /\ ServedAt(id)'
    /\ OthersStill(id)

Answers(id) ==
    /\ ServedAt(id)
    /\ ~HasAsking(id)' /\ ~ServedAt(id)' /\ id \in answered'
    /\ OthersStill(id)

(* The states of an engine in a drain and a restart. *)
Runs(e) ==
    /\ ctrlPort[e] = <<>> /\ ctrlLink[e] = <<>>
    /\ ~isDraining[e] /\ ~pauseIncomingReqsFromL1[e] /\ ~currentDrainReq[e]

DrainAsked(e) ==
    /\ ctrlPort[e] = <<"drain">> /\ ctrlLink[e] = <<>>
    /\ ~isDraining[e] /\ ~pauseIncomingReqsFromL1[e] /\ ~currentDrainReq[e]

Drains(e) ==
    /\ ctrlPort[e] = <<>> /\ ctrlLink[e] = <<>>
    /\ isDraining[e] /\ pauseIncomingReqsFromL1[e] /\ currentDrainReq[e]

DrainAnswered(e) ==
    /\ ctrlPort[e] = <<>> /\ ctrlLink[e] = <<"drain">>
    /\ ~isDraining[e] /\ pauseIncomingReqsFromL1[e] /\ currentDrainReq[e]
    /\ transactionsFromInside[e] = {}

Drained(e) ==
    /\ ctrlPort[e] = <<>> /\ ctrlLink[e] = <<>>
    /\ ~isDraining[e] /\ pauseIncomingReqsFromL1[e] /\ currentDrainReq[e]
    /\ transactionsFromInside[e] = {}

RestartAsked(e) ==
    /\ ctrlPort[e] = <<"restart">> /\ ctrlLink[e] = <<>>
    /\ ~isDraining[e] /\ pauseIncomingReqsFromL1[e] /\ currentDrainReq[e]

RestartAnswered(e) ==
    /\ ctrlPort[e] = <<>> /\ ctrlLink[e] = <<"restart">>
    /\ ~isDraining[e] /\ ~pauseIncomingReqsFromL1[e] /\ ~currentDrainReq[e]

(* The state of an engine in a phase of the controller. *)
Obeys(e) ==
    /\ phase = "running" => Runs(e)
    /\ phase = "draining" => IF e \in acks THEN DrainAsked(e) \/ Drains(e) \/ DrainAnswered(e)
                                           ELSE Drained(e)
    /\ phase = "stopped" => Drained(e)
    /\ phase = "restarting" => IF e \in acks THEN RestartAsked(e) \/ RestartAnswered(e) ELSE Runs(e)

(* Every engine is where the controller believes it to be; one that has    *)
(* answered a drain takes no access of its own GPU until it restarts.      *)
Controlled ==
    /\ phase \in {"running", "stopped"} => acks = {}
    /\ \A e \in Engine : Obeys(e)

(* What moving the accesses keeps. *)
Travels == Placed /\ NoDuplicate /\ OnePlace

IInv == TypeOK /\ Travels /\ Controlled

-----------------------------------------------------------------------------
(* The buffers. *)

(* A buffer may hold any short sequence of messages. *)
LEMMA LimitedReplace ==
    ASSUME NEW S, NEW cap, NEW port, NEW e \in Engine, NEW s \in Seq(S),
           Limited(port, S, cap), Len(s) <= cap
    PROVE  Limited([port EXCEPT ![e] = s], S, cap)
  BY DEF Limited

(* A buffer may hold any message alone. *)
LEMMA LimitedOne ==
    ASSUME NEW S, NEW port, NEW e \in Engine, NEW x \in S, Limited(port, S, 1)
    PROVE  Limited([port EXCEPT ![e] = <<x>>], S, 1)
  <1> DEFINE s == <<x>>
  <1>1. s \in Seq(S) /\ Len(s) <= 1
    OBVIOUS
  <1> HIDE DEF s
  <1>2. Limited([port EXCEPT ![e] = s], S, 1)
    BY <1>1, LimitedReplace
  <1> QED BY <1>2 DEF s

(* A buffer that is not full takes a message. *)
LEMMA LimitedAppend ==
    ASSUME NEW S, NEW cap \in Nat, NEW port, NEW e \in Engine, NEW x \in S,
           Limited(port, S, cap), Len(port[e]) < cap
    PROVE  Limited([port EXCEPT ![e] = Append(@, x)], S, cap)
  <1>1. port[e] \in Seq(S) /\ Len(port[e]) \in Nat
    BY LenProperties DEF Limited
  <1>2. Append(port[e], x) \in Seq(S) /\ Len(Append(port[e], x)) = Len(port[e]) + 1
    BY <1>1, AppendProperties
  <1>3. Len(port[e]) + 1 <= cap
    BY <1>1
  <1> DEFINE s == Append(port[e], x)
  <1> HIDE DEF s
  <1>4. s \in Seq(S) /\ Len(s) <= cap
    BY <1>2, <1>3 DEF s
  <1>5. Limited([port EXCEPT ![e] = s], S, cap)
    BY <1>4, LimitedReplace
  <1> QED BY <1>5 DEF s

(* A buffer stays a buffer when its head is taken. *)
LEMMA LimitedTail ==
    ASSUME NEW S, NEW cap \in Nat, NEW port, NEW e \in Engine,
           Limited(port, S, cap), port[e] # <<>>
    PROVE  /\ Limited([port EXCEPT ![e] = Tail(@)], S, cap)
           /\ Head(port[e]) \in S
  <1>1. port[e] \in Seq(S) /\ Len(port[e]) \in Nat /\ Len(port[e]) <= cap
    BY LenProperties DEF Limited
  <1>2. /\ Tail(port[e]) \in Seq(S) /\ Len(Tail(port[e])) = Len(port[e]) - 1
        /\ Head(port[e]) \in S
    BY <1>1, HeadTailProperties
  <1> DEFINE s == Tail(port[e])
  <1> HIDE DEF s
  <1>3. s \in Seq(S) /\ Len(s) <= cap
    BY <1>1, <1>2 DEF s
  <1>4. Limited([port EXCEPT ![e] = s], S, cap)
    BY <1>3, LimitedReplace
  <1> QED BY <1>2, <1>4 DEF s

(* Engine e has a message more, or less, in its buffer. *)
Sent(port, port1, e, x) ==
    /\ Distinct(port1)
    /\ \A d \in Engine : \A y : In(port1, d, y) <=> In(port, d, y) \/ (d = e /\ y = x)

Taken(port, port1, e, x) ==
    /\ In(port, e, x)
    /\ Distinct(port1)
    /\ \A d \in Engine : \A y : In(port1, d, y) <=> In(port, d, y) /\ ~(d = e /\ y = x)

(* What the buffers contain when one of them takes a message. *)
LEMMA InAppend ==
    ASSUME NEW S, NEW cap \in Nat, NEW port, NEW e \in Engine, NEW x \in S,
           Limited(port, S, cap), Distinct(port), ~In(port, e, x)
    PROVE  Sent(port, [port EXCEPT ![e] = Append(@, x)], e, x)
  <1>1. port[e] \in Seq(S) /\ port \in [Engine -> Seq(S)]
    BY DEF Limited
  <1> DEFINE s == Append(port[e], x)
  <1>2. NoDuplicates(s)
    BY <1>1, NoDuplicatesAppend DEF Distinct, In
  <1>3. \A y : Contains(s, y) <=> Contains(port[e], y) \/ y = x
    BY <1>1, ContainsAppend
  <1> HIDE DEF s
  <1> DEFINE port1 == [port EXCEPT ![e] = s]
  <1>4. port1[e] = s /\ \A d \in Engine : d # e => port1[d] = port[d]
    BY <1>1
  <1> HIDE DEF port1
  <1>5. Sent(port, port1, e, x)
    BY <1>2, <1>3, <1>4 DEF Distinct, In, Sent
  <1> QED BY <1>5 DEF port1, s

(* What the buffers contain when the head of one of them is taken. *)
LEMMA InTail ==
    ASSUME NEW S, NEW cap \in Nat, NEW port, NEW e \in Engine,
           Limited(port, S, cap), Distinct(port), port[e] # <<>>
    PROVE  /\ Taken(port, [port EXCEPT ![e] = Tail(@)], e, Head(port[e]))
           /\ Head(port[e]) \in S
  <1>1. port[e] \in Seq(S) /\ port \in [Engine -> Seq(S)]
    BY DEF Limited
  <1> DEFINE s == Tail(port[e])
  <1>2. NoDuplicates(s) /\ \A y : Contains(s, y) <=> Contains(port[e], y) /\ y # Head(port[e])
    BY <1>1, ContainsTail DEF Distinct
  <1>3. Contains(port[e], Head(port[e])) /\ Head(port[e]) \in S
    BY <1>1, ContainsHead
  <1> HIDE DEF s
  <1> DEFINE port1 == [port EXCEPT ![e] = s]
  <1>4. port1[e] = s /\ \A d \in Engine : d # e => port1[d] = port[d]
    BY <1>1
  <1> HIDE DEF port1
  <1>5. Taken(port, port1, e, Head(port[e]))
    BY <1>2, <1>3, <1>4 DEF Distinct, In, Taken
  <1> QED BY <1>3, <1>5 DEF port1, s

-----------------------------------------------------------------------------
(* Types. *)

(* Every step keeps the types; the controller sends to engines whose       *)
(* CtrlPort is empty.                                                      *)
LEMMA TypeStep == TypeOK /\ Controlled /\ [Next]_vars => TypeOK'
  <1> SUFFICES ASSUME TypeOK, Controlled, [Next]_vars PROVE TypeOK'
    OBVIOUS
  <1> USE RDMAAssumption
  <1>1. ASSUME NEW e \in Engine, ProcessDrainReq(e) PROVE TypeOK'
    <2>1. Limited(ctrlPort, {"drain", "restart"}, PortCap)
      BY DEF TypeOK
    <2>2. Limited(ctrlPort', {"drain", "restart"}, PortCap)
      BY <1>1, <2>1, LimitedTail DEF ProcessDrainReq
    <2> QED BY <1>1, <2>2 DEF ProcessDrainReq, TypeOK, portVars, transVars, controllerVars
  <1>2. ASSUME NEW e \in Engine, ProcessRDMARestartReq(e) PROVE TypeOK'
    <2>1. Limited(ctrlPort, {"drain", "restart"}, PortCap)
          /\ Limited(ctrlLink, {"drain", "restart"}, 1)
      BY DEF TypeOK
    <2>2. Limited(ctrlPort', {"drain", "restart"}, PortCap)
      BY <1>2, <2>1, LimitedTail DEF ProcessRDMARestartReq
    <2>3. ctrlLink' = [ctrlLink EXCEPT ![e] = <<"restart">>] \/ ctrlLink' = ctrlLink
      BY <1>2 DEF ProcessRDMARestartReq
    <2>4. Limited([ctrlLink EXCEPT ![e] = <<"restart">>], {"drain", "restart"}, 1)
      BY <2>1, LimitedOne
    <2>5. Limited(ctrlLink', {"drain", "restart"}, 1)
      BY <2>1, <2>3, <2>4
    <2> QED BY <1>2, <2>2, <2>5
        DEF ProcessRDMARestartReq, TypeOK, portVars, transVars, controllerVars
  <1>3. ASSUME NEW e \in Engine, DrainRDMA(e) PROVE TypeOK'
    <2>1. Limited(ctrlLink, {"drain", "restart"}, 1)
      BY DEF TypeOK
    <2>2. Limited([ctrlLink EXCEPT ![e] = <<"drain">>], {"drain", "restart"}, 1)
      BY <2>1, LimitedOne
    <2>3. ctrlLink' = [ctrlLink EXCEPT ![e] = <<"drain">>]
      BY <1>3 DEF DrainRDMA
    <2>4. Limited(ctrlLink', {"drain", "restart"}, 1)
      BY <2>2, <2>3
    <2> QED BY <1>3, <2>4 DEF DrainRDMA, TypeOK, portVars, transVars, controllerVars
  <1>4. ASSUME NEW e \in Engine, ProcessReqFromL1(e) PROVE TypeOK'
    <2>1. Limited(toL1, Id, PortCap) /\ Limited(requestLink, Id, LinkCap)
          /\ PortCap \in Nat /\ LinkCap \in Nat /\ toL1[e] # <<>> /\ Len(requestLink[e]) < LinkCap
      BY <1>4 DEF TypeOK, ProcessReqFromL1, Room
    <2>2. Limited([toL1 EXCEPT ![e] = Tail(@)], Id, PortCap) /\ Head(toL1[e]) \in Id
      BY <2>1, LimitedTail
    <2>3. Limited([requestLink EXCEPT ![e] = Append(@, Head(toL1[e]))], Id, LinkCap)
      BY <2>1, <2>2, LimitedAppend
    <2>4. Limited(toL1', Id, PortCap) /\ Limited(requestLink', Id, LinkCap)
      BY <1>4, <2>2, <2>3 DEF ProcessReqFromL1
    <2>5. transactionsFromInside' \in [Engine -> SUBSET Transaction]
      <3>1. [received |-> [id |-> Head(toL1[e]), at |-> "L1"], sent |-> Outside(Head(toL1[e]))]
                \in Transaction
        BY <2>2 DEF Transaction, Outside
      <3> QED BY <1>4, <3>1 DEF ProcessReqFromL1, TypeOK
    <2> QED BY <1>4, <2>4, <2>5
        DEF ProcessReqFromL1, TypeOK, ctrlVars, drainVars, controllerVars
  <1>5. ASSUME NEW e \in Engine, ProcessRspFromL2(e) PROVE TypeOK'
    <2>1. Limited(toL2, Id, PortCap) /\ Limited(responseLink, [id : Id, dst : Engine], LinkCap)
          /\ PortCap \in Nat /\ LinkCap \in Nat /\ toL2[e] # <<>> /\ Len(responseLink[e]) < LinkCap
      BY <1>5 DEF TypeOK, ProcessRspFromL2, Room
    <2>2. Limited([toL2 EXCEPT ![e] = Tail(@)], Id, PortCap) /\ Head(toL2[e]) \in Id
      BY <2>1, LimitedTail
    <2> DEFINE m == [id |-> Head(toL2[e]), dst |-> GetResponsePort(e, Head(toL2[e]))]
    <2>3. m \in [id : Id, dst : Engine]
      BY <2>2 DEF GetResponsePort
    <2> HIDE DEF m
    <2>4. Limited([responseLink EXCEPT ![e] = Append(@, m)], [id : Id, dst : Engine], LinkCap)
      BY <2>1, <2>3, LimitedAppend
    <2>5. responseLink' = [responseLink EXCEPT ![e] = Append(@, m)]
      BY <1>5 DEF ProcessRspFromL2, m
    <2>6. Limited(toL2', Id, PortCap)
      BY <1>5, <2>2 DEF ProcessRspFromL2
    <2>7. transactionsFromOutside' \in [Engine -> SUBSET Transaction]
      BY <1>5 DEF ProcessRspFromL2, TypeOK
    <2> QED BY <1>5, <2>4, <2>5, <2>6, <2>7
        DEF ProcessRspFromL2, TypeOK, ctrlVars, drainVars, controllerVars
  <1>6. ASSUME NEW e \in Engine, ProcessReqFromOutside(e) PROVE TypeOK'
    <2>1. Limited(requestPort, Id, PortCap) /\ PortCap \in Nat /\ requestPort[e] # <<>>
      BY <1>6 DEF TypeOK, ProcessReqFromOutside
    <2>2. Limited([requestPort EXCEPT ![e] = Tail(@)], Id, PortCap) /\ Head(requestPort[e]) \in Id
      BY <2>1, LimitedTail
    <2>3. Limited(requestPort', Id, PortCap)
      BY <1>6, <2>2 DEF ProcessReqFromOutside
    <2>4. l2' \in [Engine -> SUBSET Id]
      BY <1>6, <2>2 DEF ProcessReqFromOutside, TypeOK
    <2>5. transactionsFromOutside' \in [Engine -> SUBSET Transaction]
      <3>1. [received |-> Outside(Head(requestPort[e])), sent |-> Inside(Head(requestPort[e]))]
                \in Transaction
        BY <2>2 DEF Transaction, Outside, Inside
      <3> QED BY <1>6, <3>1 DEF ProcessReqFromOutside, TypeOK
    <2> QED BY <1>6, <2>3, <2>4, <2>5
        DEF ProcessReqFromOutside, TypeOK, ctrlVars, drainVars, controllerVars
  <1>7. ASSUME NEW e \in Engine, ProcessRspFromOutside(e) PROVE TypeOK'
    <2>1. Limited(responsePort, Id, PortCap) /\ PortCap \in Nat /\ responsePort[e] # <<>>
      BY <1>7 DEF TypeOK, ProcessRspFromOutside
    <2>2. Limited([responsePort EXCEPT ![e] = Tail(@)], Id, PortCap) /\ Head(responsePort[e]) \in Id
      BY <2>1, LimitedTail
    <2>3. Limited(responsePort', Id, PortCap)
      BY <1>7, <2>2 DEF ProcessRspFromOutside
    <2>4. answered' \subseteq Id /\ transactionsFromInside' \in [Engine -> SUBSET Transaction]
      BY <1>7, <2>2 DEF ProcessRspFromOutside, TypeOK
    <2> QED BY <1>7, <2>3, <2>4
        DEF ProcessRspFromOutside, TypeOK, ctrlVars, drainVars, controllerVars
  <1>8. ASSUME NEW e \in Engine, DeliverRequest(e) PROVE TypeOK'
    <2> DEFINE id == Head(requestLink[e])
    <2>1. Limited(requestLink, Id, LinkCap) /\ Limited(requestPort, Id, PortCap)
          /\ PortCap \in Nat /\ LinkCap \in Nat /\ requestLink[e] # <<>>
      BY <1>8 DEF TypeOK, DeliverRequest
    <2>2. Limited([requestLink EXCEPT ![e] = Tail(@)], Id, LinkCap) /\ id \in Id
      BY <2>1, LimitedTail
    <2>3. /\ To[id] \in Engine /\ Len(requestPort[To[id]]) < PortCap
          /\ requestPort' = [requestPort EXCEPT ![To[id]] = Append(@, id)]
          /\ requestLink' = [requestLink EXCEPT ![e] = Tail(@)]
      BY <1>8, <2>2 DEF DeliverRequest, Room
    <2> HIDE DEF id
    <2>4. Limited([requestPort EXCEPT ![To[id]] = Append(@, id)], Id, PortCap)
      BY <2>1, <2>2, <2>3, LimitedAppend
    <2> QED BY <1>8, <2>2, <2>3, <2>4
        DEF DeliverRequest, TypeOK, ctrlVars, drainVars, transVars, controllerVars
  <1>9. ASSUME NEW e \in Engine, DeliverResponse(e) PROVE TypeOK'
    <2> DEFINE m == Head(responseLink[e])
    <2>1. Limited(responseLink, [id : Id, dst : Engine], LinkCap) /\ Limited(responsePort, Id, PortCap)
          /\ PortCap \in Nat /\ LinkCap \in Nat /\ responseLink[e] # <<>>
      BY <1>9 DEF TypeOK, DeliverResponse
    <2>2. Limited([responseLink EXCEPT ![e] = Tail(@)], [id : Id, dst : Engine], LinkCap)
          /\ m \in [id : Id, dst : Engine]
      BY <2>1, LimitedTail
    <2>3. /\ m.dst \in Engine /\ m.id \in Id /\ Len(responsePort[m.dst]) < PortCap
          /\ responsePort' = [responsePort EXCEPT ![m.dst] = Append(@, m.id)]
          /\ responseLink' = [responseLink EXCEPT ![e] = Tail(@)]
      BY <1>9, <2>2 DEF DeliverResponse, Room
    <2> HIDE DEF m
    <2>4. Limited([responsePort EXCEPT ![m.dst] = Append(@, m.id)], Id, PortCap)
      BY <2>1, <2>2, <2>3, LimitedAppend
    <2> QED BY <1>9, <2>2, <2>3, <2>4
        DEF DeliverResponse, TypeOK, ctrlVars, drainVars, transVars, controllerVars
  <1>10. ASSUME NEW e \in Engine, NEW id \in Id, L2Performs(e, id) PROVE TypeOK'
    <2>1. Limited(toL2, Id, PortCap) /\ PortCap \in Nat /\ Len(toL2[e]) < PortCap
      BY <1>10 DEF TypeOK, L2Performs, Room
    <2>2. Limited([toL2 EXCEPT ![e] = Append(@, id)], Id, PortCap)
      BY <2>1, LimitedAppend
    <2> QED BY <1>10, <2>2
        DEF L2Performs, TypeOK, ctrlVars, drainVars, transVars, controllerVars
  <1>11. ASSUME NEW id \in Id, L1Sends(id) PROVE TypeOK'
    <2>1. /\ Limited(toL1, Id, PortCap) /\ PortCap \in Nat /\ Len(toL1[From[id]]) < PortCap
          /\ From[id] \in Engine
      BY <1>11 DEF TypeOK, L1Sends, Room
    <2>2. Limited([toL1 EXCEPT ![From[id]] = Append(@, id)], Id, PortCap)
      BY <2>1, LimitedAppend
    <2> QED BY <1>11, <2>2
        DEF L1Sends, TypeOK, ctrlVars, drainVars, transVars, controllerVars
  <1>12. ASSUME NEW e \in Engine, TakeAck(e) PROVE TypeOK'
    <2>1. Limited(ctrlLink, {"drain", "restart"}, 1) /\ ctrlLink[e] # <<>> /\ 1 \in Nat
      BY <1>12 DEF TypeOK, TakeAck
    <2>2. Limited([ctrlLink EXCEPT ![e] = Tail(@)], {"drain", "restart"}, 1)
      BY <2>1, LimitedTail
    <2> QED BY <1>12, <2>2
        DEF TakeAck, TypeOK, ControllerUnchanged, portVars, drainVars, transVars
  <1>13. ASSUME NEW msg \in {"drain", "restart"}, SendAll(msg), \A e \in Engine : ctrlPort[e] = <<>>
         PROVE  Limited(ctrlPort', {"drain", "restart"}, PortCap) /\ acks' = Engine
    <2> DEFINE s == <<msg>>
    <2>1. s \in Seq({"drain", "restart"}) /\ Len(s) = 1 /\ s = Append(<<>>, msg)
      OBVIOUS
    <2> HIDE DEF s
    <2>2. ctrlPort' = [e \in Engine |-> s] /\ acks' = Engine
      BY <1>13, <2>1 DEF SendAll
    <2> QED BY <2>1, <2>2 DEF Limited
  <1>14. CASE Drain
    <2>1. \A e \in Engine : ctrlPort[e] = <<>>
      BY <1>14 DEF Drain, Controlled, Obeys, Runs
    <2>2. Limited(ctrlPort', {"drain", "restart"}, PortCap) /\ acks' = Engine
      BY <1>13, <1>14, <2>1 DEF Drain
    <2> QED BY <1>14, <2>2
        DEF Drain, TypeOK, ControllerUnchanged, portVars, drainVars, transVars
  <1>15. CASE Restart
    <2>1. \A e \in Engine : ctrlPort[e] = <<>>
      BY <1>15 DEF Restart, Controlled, Obeys, Drained
    <2>2. Limited(ctrlPort', {"drain", "restart"}, PortCap) /\ acks' = Engine
      BY <1>13, <1>15, <2>1 DEF Restart
    <2> QED BY <1>15, <2>2
        DEF Restart, TypeOK, ControllerUnchanged, portVars, drainVars, transVars
  <1>16. CASE UNCHANGED vars
    BY <1>16 DEF TypeOK, vars, portVars, ctrlVars, drainVars, transVars, controllerVars
  <1> QED
    BY <1>1, <1>2, <1>3, <1>4, <1>5, <1>6, <1>7, <1>8, <1>9, <1>10, <1>11, <1>12, <1>14, <1>15, <1>16
    DEF Next, System, EngineStep, Done

-----------------------------------------------------------------------------
(* The way of an access. *)

(* Copies of different accesses differ. *)
LEMMA Copies ==
    ASSUME NEW i, NEW j
    PROVE  /\ Asking(i) = Asking(j) <=> i = j
           /\ Asked(i) = Asked(j) <=> i = j
           /\ Asking(i).sent = Outside(i) /\ Asking(i).received.id = i
           /\ Asked(i).sent = Inside(i) /\ Asked(i).received.id = i
           /\ Outside(i) = Outside(j) <=> i = j
           /\ Inside(i) = Inside(j) <=> i = j
           /\ Rsp(i) = Rsp(j) <=> i = j
           /\ Rsp(i).id = i /\ Rsp(i).dst = From[i]
  BY DEF Asking, Asked, Outside, Inside, Rsp

(* A response finds one transaction, the one of its access. *)
LEMMA Found ==
    ASSUME TypeOK, Placed, NEW e \in Engine, NEW id
    PROVE  /\ Find(transactionsFromInside[e], Outside(id)) =
                transactionsFromInside[e] \cap {Asking(id)}
           /\ Find(transactionsFromOutside[e], Inside(id)) =
                transactionsFromOutside[e] \cap {Asked(id)}
  <1>1. \A t \in transactionsFromInside[e] : t.sent = Outside(id) <=> t = Asking(id)
    BY Copies DEF Placed, PlacedAsking
  <1>2. ASSUME NEW t \in transactionsFromOutside[e] PROVE t.sent = Inside(id) <=> t = Asked(id)
    <2>1. PICK i \in Id : t = Asked(i)
      BY DEF Placed, PlacedAsked
    <2> QED BY <2>1, Copies
  <1> QED BY <1>1, <1>2 DEF Find

(* A buffer has its accesses in place when one of them comes or goes. *)
LEMMA PlacedSent ==
    ASSUME NEW port, NEW port1, NEW home, NEW e \in Engine, NEW x,
           PlacedIn(port, home), Sent(port, port1, e, x), home[x] = e
    PROVE  PlacedIn(port1, home)
  BY DEF PlacedIn, Sent

(* A message taken from a port leaves the others where they belong. *)
LEMMA PlacedTaken ==
    ASSUME NEW port, NEW port1, NEW home, NEW e \in Engine, NEW x,
           PlacedIn(port, home), Taken(port, port1, e, x)
    PROVE  PlacedIn(port1, home)
  BY DEF PlacedIn, Taken

(* A request of L1 that leaves. *)
LEMMA TravelFromL1 ==
    ASSUME TypeOK, Travels, NEW e \in Engine, ProcessReqFromL1(e)
    PROVE  Travels' /\ \E id \in Id : Accepts(id)
  <1> DEFINE id == Head(toL1[e])
  <1>1. /\ Limited(toL1, Id, PortCap) /\ Limited(requestLink, Id, LinkCap)
        /\ PortCap \in Nat /\ LinkCap \in Nat /\ toL1[e] # <<>>
        /\ Distinct(toL1) /\ Distinct(requestLink)
    BY RDMAAssumption DEF TypeOK, ProcessReqFromL1, Travels, NoDuplicate
  <1>2. toL1' = [toL1 EXCEPT ![e] = Tail(@)] /\ requestLink' = [requestLink EXCEPT ![e] = Append(@, id)]
    BY DEF ProcessReqFromL1
  <1>3. Taken(toL1, toL1', e, id) /\ id \in Id
    BY <1>1, <1>2, InTail
  <1>4. In(toL1, e, id)
    BY <1>3 DEF Taken
  <1>5. /\ \A d \in Engine : \A t : t \in transactionsFromInside'[d] <=>
                t \in transactionsFromInside[d] \/ (d = e /\ t = Asking(id))
        /\ UNCHANGED <<toL2, requestPort, responsePort, responseLink, transactionsFromOutside, l2, answered>>
    BY DEF ProcessReqFromL1, TypeOK, Asking
  <1> HIDE DEF id
  <1>6. From[id] = e /\ WaitsInL1(id) /\ ~HasAsking(id)
    BY <1>3, <1>4 DEF Travels, Placed, PlacedIn, OnePlace, OnePlaceOf, WaitsInL1
  <1>7. ~In(requestLink, e, id)
    BY <1>3, <1>6 DEF Travels, OnePlace, OnePlaceOf, InRequestLink
  <1>8. Sent(requestLink, requestLink', e, id)
    BY <1>1, <1>2, <1>3, <1>7, InAppend
  <1>9. Placed'
    <2>1. PlacedIn(toL1', From) /\ PlacedIn(requestLink', From)
      BY <1>3, <1>6, <1>8, PlacedSent, PlacedTaken DEF Travels, Placed
    <2>2. PlacedAsking'
      BY <1>3, <1>5, <1>6 DEF Travels, Placed, PlacedAsking
    <2> QED BY <1>5, <2>1, <2>2 DEF Travels, Placed, PlacedInL2, PlacedResponses, PlacedAsked
  <1>10. NoDuplicate'
    BY <1>3, <1>5, <1>8 DEF Travels, NoDuplicate, Sent, Taken
  <1>11. ASSUME NEW i \in Id PROVE OnePlaceOf(i)' /\ (i # id => Still(i)) /\ (i = id => ~ServedAt(i) /\ HasAsking(i)' /\ ~ServedAt(i)')
    <2>1. From[i] \in Engine /\ To[i] \in Engine
      BY RDMAAssumption
    <2>2. /\ WaitsInL1(i)' <=> WaitsInL1(i) /\ i # id
          /\ InRequestLink(i)' <=> InRequestLink(i) \/ i = id
          /\ HasAsking(i)' <=> HasAsking(i) \/ i = id
      BY <1>3, <1>5, <1>6, <1>8, <2>1, Copies DEF WaitsInL1, InRequestLink, HasAsking, Sent, Taken
    <2>3. /\ InRequestPort(i)' = InRequestPort(i) /\ InL2(i)' = InL2(i) /\ InToL2(i)' = InToL2(i)
          /\ InResponseLink(i)' = InResponseLink(i) /\ InResponsePort(i)' = InResponsePort(i)
          /\ HasAsked(i)' = HasAsked(i) /\ answered' = answered
      BY <1>5 DEF InRequestPort, InL2, InToL2, InResponseLink, InResponsePort, HasAsked
    <2>4. OnePlaceOf(i)
      BY DEF Travels, OnePlace
    <2>5. OnePlaceOf(i)'
      BY <1>6, <2>2, <2>3, <2>4 DEF OnePlaceOf
    <2>6. i # id => Still(i)
      BY <2>2, <2>3 DEF Still, ServedAt
    <2>7. i = id => ~ServedAt(i) /\ HasAsking(i)' /\ ~ServedAt(i)'
      BY <1>6, <2>2, <2>3, <2>4 DEF OnePlaceOf, ServedAt
    <2> QED BY <2>5, <2>6, <2>7
  <1> QED BY <1>9, <1>10, <1>11, <1>3, <1>6 DEF Travels, OnePlace, OnePlaceOf, Accepts, OthersStill

(* A request that a link delivers. *)
LEMMA TravelRequest ==
    ASSUME TypeOK, Travels, NEW e \in Engine, DeliverRequest(e)
    PROVE  Travels' /\ AllStill
  <1> DEFINE id == Head(requestLink[e])
             d == To[id]
  <1>1. /\ Limited(requestPort, Id, PortCap) /\ Limited(requestLink, Id, LinkCap)
        /\ PortCap \in Nat /\ LinkCap \in Nat /\ requestLink[e] # <<>>
        /\ Distinct(requestPort) /\ Distinct(requestLink)
    BY RDMAAssumption DEF TypeOK, DeliverRequest, Travels, NoDuplicate
  <1>2. /\ requestPort' = [requestPort EXCEPT ![d] = Append(@, id)]
        /\ requestLink' = [requestLink EXCEPT ![e] = Tail(@)]
        /\ UNCHANGED <<toL1, toL2, responsePort, responseLink, transVars, l2, answered>>
    BY DEF DeliverRequest
  <1>3. Taken(requestLink, requestLink', e, id) /\ id \in Id
    BY <1>1, <1>2, InTail
  <1>4. In(requestLink, e, id)
    BY <1>3 DEF Taken
  <1>5. d \in Engine /\ d = To[id]
    BY <1>3, RDMAAssumption
  <1> HIDE DEF id, d
  <1>6. From[id] = e /\ InRequestLink(id)
    BY <1>3, <1>4 DEF Travels, Placed, PlacedIn, InRequestLink
  <1>7. ~In(requestPort, d, id)
    BY <1>3, <1>5, <1>6 DEF Travels, OnePlace, OnePlaceOf, InRequestPort
  <1>8. Sent(requestPort, requestPort', d, id)
    BY <1>1, <1>2, <1>3, <1>5, <1>7, InAppend
  <1>9. Placed'
    <2>1. PlacedIn(requestLink', From) /\ PlacedIn(requestPort', To)
      BY <1>3, <1>5, <1>8, PlacedSent, PlacedTaken DEF Travels, Placed
    <2> QED BY <1>2, <2>1
            DEF Travels, Placed, PlacedInL2, PlacedResponses, PlacedAsking, PlacedAsked, transVars
  <1>10. NoDuplicate'
    BY <1>2, <1>3, <1>8 DEF Travels, NoDuplicate, Sent, Taken
  <1>11. ASSUME NEW i \in Id PROVE OnePlaceOf(i)' /\ Still(i)
    <2>1. From[i] \in Engine /\ To[i] \in Engine
      BY RDMAAssumption
    <2>2. /\ InRequestLink(i)' <=> InRequestLink(i) /\ i # id
          /\ InRequestPort(i)' <=> InRequestPort(i) \/ i = id
      BY <1>3, <1>5, <1>6, <1>8, <2>1 DEF InRequestLink, InRequestPort, Sent, Taken
    <2>3. /\ WaitsInL1(i)' = WaitsInL1(i) /\ InL2(i)' = InL2(i) /\ InToL2(i)' = InToL2(i)
          /\ InResponseLink(i)' = InResponseLink(i) /\ InResponsePort(i)' = InResponsePort(i)
          /\ HasAsking(i)' = HasAsking(i) /\ HasAsked(i)' = HasAsked(i) /\ answered' = answered
      BY <1>2 DEF WaitsInL1, InL2, InToL2, InResponseLink, InResponsePort, HasAsking, HasAsked, transVars
    <2>4. OnePlaceOf(i)
      BY DEF Travels, OnePlace
    <2> QED BY <1>6, <2>2, <2>3, <2>4 DEF OnePlaceOf, Still, ServedAt
  <1> QED BY <1>9, <1>10, <1>11 DEF Travels, OnePlace, AllStill

(* A request that reaches the L2 cache. *)
LEMMA TravelFromOutside ==
    ASSUME TypeOK, Travels, NEW e \in Engine, ProcessReqFromOutside(e)
    PROVE  Travels' /\ AllStill
  <1> DEFINE id == Head(requestPort[e])
  <1>1. /\ Limited(requestPort, Id, PortCap) /\ PortCap \in Nat /\ requestPort[e] # <<>>
        /\ Distinct(requestPort)
    BY RDMAAssumption DEF TypeOK, ProcessReqFromOutside, Travels, NoDuplicate
  <1>2. /\ requestPort' = [requestPort EXCEPT ![e] = Tail(@)]
        /\ UNCHANGED <<toL1, toL2, responsePort, requestLink, responseLink, transactionsFromInside, answered>>
        /\ \A d \in Engine : \A t : t \in transactionsFromOutside'[d] <=>
                t \in transactionsFromOutside[d] \/ (d = e /\ t = Asked(id))
        /\ \A d \in Engine : \A i : i \in l2'[d] <=> i \in l2[d] \/ (d = e /\ i = id)
    BY DEF ProcessReqFromOutside, TypeOK, Asked
  <1>3. Taken(requestPort, requestPort', e, id) /\ id \in Id
    BY <1>1, <1>2, InTail
  <1>4. In(requestPort, e, id)
    BY <1>3 DEF Taken
  <1> HIDE DEF id
  <1>5. To[id] = e /\ InRequestPort(id)
    BY <1>3, <1>4 DEF Travels, Placed, PlacedIn, InRequestPort
  <1>6. Placed'
    <2>1. PlacedIn(requestPort', To)
      BY <1>3, PlacedTaken DEF Travels, Placed
    <2>2. PlacedInL2'
      BY <1>2, <1>5 DEF Travels, Placed, PlacedInL2
    <2>3. PlacedAsked'
      BY <1>2, <1>3, <1>5 DEF Travels, Placed, PlacedAsked
    <2> QED BY <1>2, <2>1, <2>2, <2>3 DEF Travels, Placed, PlacedResponses, PlacedAsking
  <1>7. NoDuplicate'
    BY <1>2, <1>3 DEF Travels, NoDuplicate, Taken
  <1>8. ASSUME NEW i \in Id PROVE OnePlaceOf(i)' /\ Still(i)
    <2>1. From[i] \in Engine /\ To[i] \in Engine
      BY RDMAAssumption
    <2>2. InRequestPort(i)' <=> InRequestPort(i) /\ i # id
      BY <1>3, <1>5, <2>1 DEF InRequestPort, Taken
    <2>3. InL2(i)' <=> InL2(i) \/ i = id
      BY <1>2, <1>5, <2>1 DEF InL2
    <2>4. HasAsked(i)' <=> HasAsked(i) \/ i = id
      <3>1. Asked(i) = Asked(id) <=> i = id
        BY Copies
      <3> QED BY <1>2, <1>5, <2>1, <3>1 DEF HasAsked
    <2>5. /\ WaitsInL1(i)' = WaitsInL1(i) /\ InRequestLink(i)' = InRequestLink(i)
          /\ InToL2(i)' = InToL2(i) /\ InResponseLink(i)' = InResponseLink(i)
          /\ InResponsePort(i)' = InResponsePort(i) /\ HasAsking(i)' = HasAsking(i)
          /\ answered' = answered
      BY <1>2 DEF WaitsInL1, InRequestLink, InToL2, InResponseLink, InResponsePort, HasAsking
    <2>6. OnePlaceOf(i)
      BY DEF Travels, OnePlace
    <2> QED BY <1>5, <2>2, <2>3, <2>4, <2>5, <2>6 DEF OnePlaceOf, Still, ServedAt
  <1> QED BY <1>6, <1>7, <1>8 DEF Travels, OnePlace, AllStill

(* An access that the L2 cache performs. *)
LEMMA TravelPerformed ==
    ASSUME TypeOK, Travels, NEW e \in Engine, NEW id \in Id, L2Performs(e, id)
    PROVE  Travels' /\ Performs(id)
  <1>1. /\ Limited(toL2, Id, PortCap) /\ PortCap \in Nat /\ Distinct(toL2)
    BY RDMAAssumption DEF TypeOK, Travels, NoDuplicate
  <1>2. /\ id \in l2[e] /\ toL2' = [toL2 EXCEPT ![e] = Append(@, id)]
        /\ UNCHANGED <<toL1, requestPort, responsePort, requestLink, responseLink, transVars, answered>>
        /\ \A d \in Engine : \A i : i \in l2'[d] <=> i \in l2[d] /\ ~(d = e /\ i = id)
    BY DEF L2Performs, TypeOK
  <1>3. To[id] = e /\ InL2(id)
    BY <1>2 DEF Travels, Placed, PlacedInL2, InL2
  <1>4. ~In(toL2, e, id)
    BY <1>3 DEF Travels, OnePlace, OnePlaceOf, InToL2
  <1>5. Sent(toL2, toL2', e, id)
    BY <1>1, <1>2, <1>4, InAppend
  <1>6. Placed'
    <2>1. PlacedIn(toL2', To)
      BY <1>3, <1>5, PlacedSent DEF Travels, Placed
    <2>2. PlacedInL2'
      BY <1>2 DEF Travels, Placed, PlacedInL2
    <2> QED BY <1>2, <2>1, <2>2
            DEF Travels, Placed, PlacedResponses, PlacedAsking, PlacedAsked, transVars
  <1>7. NoDuplicate'
    BY <1>2, <1>5 DEF Travels, NoDuplicate, Sent
  <1>8. ASSUME NEW i \in Id PROVE OnePlaceOf(i)' /\ (i # id => Still(i)) /\ (i = id => HasAsking(i) /\ ~ServedAt(i) /\ ServedAt(i)')
    <2>1. From[i] \in Engine /\ To[i] \in Engine
      BY RDMAAssumption
    <2>2. /\ InL2(i)' <=> InL2(i) /\ i # id
          /\ InToL2(i)' <=> InToL2(i) \/ i = id
      BY <1>2, <1>3, <1>5, <2>1 DEF InL2, InToL2, Sent
    <2>3. /\ WaitsInL1(i)' = WaitsInL1(i) /\ InRequestLink(i)' = InRequestLink(i)
          /\ InRequestPort(i)' = InRequestPort(i) /\ InResponseLink(i)' = InResponseLink(i)
          /\ InResponsePort(i)' = InResponsePort(i) /\ HasAsking(i)' = HasAsking(i)
          /\ HasAsked(i)' = HasAsked(i) /\ answered' = answered
      BY <1>2 DEF WaitsInL1, InRequestLink, InRequestPort, InResponseLink, InResponsePort,
                  HasAsking, HasAsked, transVars
    <2>4. OnePlaceOf(i)
      BY DEF Travels, OnePlace
    <2>5. OnePlaceOf(i)'
      BY <1>3, <2>2, <2>3, <2>4 DEF OnePlaceOf
    <2>6. i # id => Still(i)
      BY <2>2, <2>3 DEF Still, ServedAt
    <2>7. i = id => HasAsking(i) /\ ~ServedAt(i) /\ ServedAt(i)'
      BY <1>3, <2>2, <2>3, <2>4 DEF OnePlaceOf, ServedAt
    <2> QED BY <2>5, <2>6, <2>7
  <1> QED BY <1>3, <1>6, <1>7, <1>8 DEF Travels, OnePlace, Performs, OthersStill

(* A response of the L2 cache that leaves. *)
LEMMA TravelFromL2 ==
    ASSUME TypeOK, Travels, NEW e \in Engine, ProcessRspFromL2(e)
    PROVE  Travels' /\ AllStill
  <1> DEFINE id == Head(toL2[e])
  <1>1. /\ Limited(toL2, Id, PortCap) /\ Limited(responseLink, [id : Id, dst : Engine], LinkCap)
        /\ PortCap \in Nat /\ LinkCap \in Nat /\ toL2[e] # <<>>
        /\ Distinct(toL2) /\ Distinct(responseLink)
    BY RDMAAssumption DEF TypeOK, ProcessRspFromL2, Travels, NoDuplicate
  <1>2. Find(transactionsFromOutside[e], Inside(id)) = transactionsFromOutside[e] \cap {Asked(id)}
    BY Found DEF Travels
  <1>3. /\ toL2' = [toL2 EXCEPT ![e] = Tail(@)]
        /\ responseLink' = [responseLink EXCEPT ![e] = Append(@, Rsp(id))]
        /\ transactionsFromOutside' = [transactionsFromOutside EXCEPT ![e] = @ \ {Asked(id)}]
        /\ UNCHANGED <<toL1, requestPort, responsePort, requestLink, transactionsFromInside, l2, answered>>
    BY <1>2 DEF ProcessRspFromL2, Rsp, GetResponsePort, TypeOK
  <1>4. \A d \in Engine : \A t : t \in transactionsFromOutside'[d] <=>
                t \in transactionsFromOutside[d] /\ ~(d = e /\ t = Asked(id))
    BY <1>3 DEF TypeOK
  <1>5. Taken(toL2, toL2', e, id) /\ id \in Id
    BY <1>1, <1>3, InTail
  <1>6. In(toL2, e, id)
    BY <1>5 DEF Taken
  <1> HIDE DEF id
  <1>7. To[id] = e /\ InToL2(id)
    BY <1>5, <1>6 DEF Travels, Placed, PlacedIn, InToL2
  <1>8. ~In(responseLink, e, Rsp(id)) /\ Rsp(id) \in [id : Id, dst : Engine]
    BY <1>5, <1>7, RDMAAssumption DEF Travels, OnePlace, OnePlaceOf, InResponseLink, Rsp
  <1>9. Sent(responseLink, responseLink', e, Rsp(id))
    BY <1>1, <1>3, <1>8, InAppend
  <1>10. Placed'
    <2>1. PlacedIn(toL2', To)
      BY <1>5, PlacedTaken DEF Travels, Placed
    <2>2. PlacedResponses'
      <3>1. Rsp(id).id = id
        BY Copies
      <3> QED BY <1>7, <1>9, <3>1 DEF Travels, Placed, PlacedResponses, Sent
    <2>3. PlacedAsked'
      BY <1>4 DEF Travels, Placed, PlacedAsked
    <2> QED BY <1>3, <2>1, <2>2, <2>3 DEF Travels, Placed, PlacedInL2, PlacedAsking
  <1>11. NoDuplicate'
    BY <1>3, <1>5, <1>9 DEF Travels, NoDuplicate, Sent, Taken
  <1>12. ASSUME NEW i \in Id PROVE OnePlaceOf(i)' /\ Still(i)
    <2>1. From[i] \in Engine /\ To[i] \in Engine
      BY RDMAAssumption
    <2>2. /\ InToL2(i)' <=> InToL2(i) /\ i # id
          /\ InResponseLink(i)' <=> InResponseLink(i) \/ i = id
          /\ HasAsked(i)' <=> HasAsked(i) /\ i # id
      BY <1>4, <1>5, <1>7, <1>9, <2>1, Copies DEF InToL2, InResponseLink, HasAsked, Sent, Taken
    <2>3. /\ WaitsInL1(i)' = WaitsInL1(i) /\ InRequestLink(i)' = InRequestLink(i)
          /\ InRequestPort(i)' = InRequestPort(i) /\ InL2(i)' = InL2(i)
          /\ InResponsePort(i)' = InResponsePort(i) /\ HasAsking(i)' = HasAsking(i)
          /\ answered' = answered
      BY <1>3 DEF WaitsInL1, InRequestLink, InRequestPort, InL2, InResponsePort, HasAsking
    <2>4. OnePlaceOf(i)
      BY DEF Travels, OnePlace
    <2> QED BY <1>7, <2>2, <2>3, <2>4 DEF OnePlaceOf, Still, ServedAt
  <1> QED BY <1>10, <1>11, <1>12 DEF Travels, OnePlace, AllStill

(* A response that a link delivers. *)
LEMMA TravelResponse ==
    ASSUME TypeOK, Travels, NEW e \in Engine, DeliverResponse(e)
    PROVE  Travels' /\ AllStill
  <1> DEFINE m == Head(responseLink[e])
  <1>1. /\ Limited(responsePort, Id, PortCap) /\ Limited(responseLink, [id : Id, dst : Engine], LinkCap)
        /\ PortCap \in Nat /\ LinkCap \in Nat /\ responseLink[e] # <<>>
        /\ Distinct(responsePort) /\ Distinct(responseLink)
    BY RDMAAssumption DEF TypeOK, DeliverResponse, Travels, NoDuplicate
  <1>2. /\ responsePort' = [responsePort EXCEPT ![m.dst] = Append(@, m.id)]
        /\ responseLink' = [responseLink EXCEPT ![e] = Tail(@)]
        /\ UNCHANGED <<toL1, toL2, requestPort, requestLink, transVars, l2, answered>>
    BY DEF DeliverResponse
  <1>3. Taken(responseLink, responseLink', e, m) /\ m \in [id : Id, dst : Engine]
    BY <1>1, <1>2, InTail
  <1>4. In(responseLink, e, m)
    BY <1>3 DEF Taken
  <1> HIDE DEF m
  <1> DEFINE id == m.id
             d == m.dst
  <1>5. id \in Id /\ To[id] = e /\ m = Rsp(id)
    BY <1>3, <1>4 DEF Travels, Placed, PlacedResponses
  <1>6. d = From[id] /\ d \in Engine
    <2>1. Rsp(id).dst = From[id]
      BY Copies
    <2> QED BY <1>5, <2>1, RDMAAssumption
  <1> HIDE DEF id, d
  <1>7. InResponseLink(id)
    BY <1>4, <1>5 DEF InResponseLink
  <1>8. ~In(responsePort, d, id)
    BY <1>5, <1>6, <1>7 DEF Travels, OnePlace, OnePlaceOf, InResponsePort
  <1>9. responsePort' = [responsePort EXCEPT ![d] = Append(@, id)]
    BY <1>2 DEF d, id
  <1>10. Sent(responsePort, responsePort', d, id)
    BY <1>1, <1>5, <1>6, <1>8, <1>9, InAppend
  <1>11. Placed'
    <2>1. PlacedIn(responsePort', From)
      BY <1>6, <1>10, PlacedSent DEF Travels, Placed
    <2>2. PlacedResponses'
      BY <1>3 DEF Travels, Placed, PlacedResponses, Taken
    <2> QED BY <1>2, <2>1, <2>2 DEF Travels, Placed, PlacedInL2, PlacedAsking, PlacedAsked, transVars
  <1>12. NoDuplicate'
    BY <1>2, <1>3, <1>10 DEF Travels, NoDuplicate, Sent, Taken
  <1>13. ASSUME NEW i \in Id PROVE OnePlaceOf(i)' /\ Still(i)
    <2>1. From[i] \in Engine /\ To[i] \in Engine
      BY RDMAAssumption
    <2>2. /\ InResponseLink(i)' <=> InResponseLink(i) /\ i # id
          /\ InResponsePort(i)' <=> InResponsePort(i) \/ i = id
      BY <1>3, <1>5, <1>6, <1>10, <2>1, Copies DEF InResponseLink, InResponsePort, Sent, Taken
    <2>3. /\ WaitsInL1(i)' = WaitsInL1(i) /\ InRequestLink(i)' = InRequestLink(i)
          /\ InRequestPort(i)' = InRequestPort(i) /\ InL2(i)' = InL2(i) /\ InToL2(i)' = InToL2(i)
          /\ HasAsking(i)' = HasAsking(i) /\ HasAsked(i)' = HasAsked(i) /\ answered' = answered
      BY <1>2 DEF WaitsInL1, InRequestLink, InRequestPort, InL2, InToL2, HasAsking, HasAsked, transVars
    <2>4. OnePlaceOf(i)
      BY DEF Travels, OnePlace
    <2> QED BY <1>7, <2>2, <2>3, <2>4 DEF OnePlaceOf, Still, ServedAt
  <1> QED BY <1>11, <1>12, <1>13 DEF Travels, OnePlace, AllStill

(* A response that L1 takes. *)
LEMMA TravelAnswered ==
    ASSUME TypeOK, Travels, NEW e \in Engine, ProcessRspFromOutside(e)
    PROVE  Travels' /\ \E id \in Id : Answers(id)
  <1> DEFINE id == Head(responsePort[e])
  <1>1. /\ Limited(responsePort, Id, PortCap) /\ PortCap \in Nat /\ responsePort[e] # <<>>
        /\ Distinct(responsePort)
    BY RDMAAssumption DEF TypeOK, ProcessRspFromOutside, Travels, NoDuplicate
  <1>2. Find(transactionsFromInside[e], Outside(id)) = transactionsFromInside[e] \cap {Asking(id)}
    BY Found DEF Travels
  <1>3. /\ responsePort' = [responsePort EXCEPT ![e] = Tail(@)]
        /\ answered' = answered \cup {id}
        /\ transactionsFromInside' = [transactionsFromInside EXCEPT ![e] = @ \ {Asking(id)}]
        /\ UNCHANGED <<toL1, toL2, requestPort, requestLink, responseLink, transactionsFromOutside, l2>>
    BY <1>2 DEF ProcessRspFromOutside, TypeOK
  <1>4. \A d \in Engine : \A t : t \in transactionsFromInside'[d] <=>
                t \in transactionsFromInside[d] /\ ~(d = e /\ t = Asking(id))
    BY <1>3 DEF TypeOK
  <1>5. Taken(responsePort, responsePort', e, id) /\ id \in Id
    BY <1>1, <1>3, InTail
  <1>6. In(responsePort, e, id)
    BY <1>5 DEF Taken
  <1> HIDE DEF id
  <1>7. From[id] = e /\ InResponsePort(id)
    BY <1>5, <1>6 DEF Travels, Placed, PlacedIn, InResponsePort
  <1>8. Placed'
    <2>1. PlacedIn(responsePort', From)
      BY <1>5, PlacedTaken DEF Travels, Placed
    <2>2. PlacedAsking'
      BY <1>4 DEF Travels, Placed, PlacedAsking
    <2> QED BY <1>3, <2>1, <2>2 DEF Travels, Placed, PlacedInL2, PlacedResponses, PlacedAsked
  <1>9. NoDuplicate'
    BY <1>3, <1>5 DEF Travels, NoDuplicate, Taken
  <1>10. ASSUME NEW i \in Id PROVE OnePlaceOf(i)' /\ (i # id => Still(i)) /\ (i = id => ServedAt(i) /\ ~HasAsking(i)' /\ ~ServedAt(i)' /\ i \in answered')
    <2>1. From[i] \in Engine /\ To[i] \in Engine
      BY RDMAAssumption
    <2>2. /\ InResponsePort(i)' <=> InResponsePort(i) /\ i # id
          /\ HasAsking(i)' <=> HasAsking(i) /\ i # id
          /\ i \in answered' <=> i \in answered \/ i = id
      BY <1>3, <1>4, <1>5, <1>7, <2>1, Copies DEF InResponsePort, HasAsking, Taken
    <2>3. /\ WaitsInL1(i)' = WaitsInL1(i) /\ InRequestLink(i)' = InRequestLink(i)
          /\ InRequestPort(i)' = InRequestPort(i) /\ InL2(i)' = InL2(i) /\ InToL2(i)' = InToL2(i)
          /\ InResponseLink(i)' = InResponseLink(i) /\ HasAsked(i)' = HasAsked(i)
      BY <1>3 DEF WaitsInL1, InRequestLink, InRequestPort, InL2, InToL2, InResponseLink, HasAsked
    <2>4. OnePlaceOf(i)
      BY DEF Travels, OnePlace
    <2>5. OnePlaceOf(i)'
      BY <1>7, <2>2, <2>3, <2>4 DEF OnePlaceOf
    <2>6. i # id => Still(i)
      BY <2>2, <2>3 DEF Still, ServedAt
    <2>7. i = id => ServedAt(i) /\ ~HasAsking(i)' /\ ~ServedAt(i)' /\ i \in answered'
      BY <1>7, <2>2, <2>3, <2>4 DEF OnePlaceOf, ServedAt
    <2> QED BY <2>5, <2>6, <2>7
  <1> QED BY <1>8, <1>9, <1>10, <1>5 DEF Travels, OnePlace, Answers, OthersStill

(* A transaction at the engine that asks is the one of the access. *)
LEMMA AcceptedIsAsking ==
    ASSUME Placed, NEW id \in Id
    PROVE  Accepted(id) <=> HasAsking(id)
  <1>1. From[id] \in Engine
    BY RDMAAssumption
  <1>2. ASSUME NEW t \in transactionsFromInside[From[id]] PROVE t.received.id = id <=> t = Asking(id)
    <2>1. PICK i \in Id : t = Asking(i)
      BY <1>1 DEF Placed, PlacedAsking
    <2> QED BY <2>1, Copies
  <1> QED BY <1>2 DEF Accepted, HasAsking

(* An access that L1 sends. *)
LEMMA TravelSent ==
    ASSUME TypeOK, Travels, NEW id \in Id, L1Sends(id)
    PROVE  Travels' /\ AllStill
  <1>1. /\ Limited(toL1, Id, PortCap) /\ PortCap \in Nat /\ Distinct(toL1) /\ From[id] \in Engine
    BY RDMAAssumption DEF TypeOK, Travels, NoDuplicate
  <1>2. /\ toL1' = [toL1 EXCEPT ![From[id]] = Append(@, id)] /\ ~In(toL1, From[id], id)
        /\ UNCHANGED <<toL2, requestPort, responsePort, requestLink, responseLink, transVars, l2, answered>>
    BY DEF L1Sends
  <1>3. ~HasAsking(id) /\ id \notin answered
    BY AcceptedIsAsking DEF L1Sends, Travels
  <1>4. Sent(toL1, toL1', From[id], id)
    BY <1>1, <1>2, InAppend
  <1>5. Placed'
    <2>1. PlacedIn(toL1', From)
      BY <1>1, <1>4, PlacedSent DEF Travels, Placed
    <2> QED BY <1>2, <2>1
            DEF Travels, Placed, PlacedInL2, PlacedResponses, PlacedAsking, PlacedAsked, transVars
  <1>6. NoDuplicate'
    BY <1>2, <1>4 DEF Travels, NoDuplicate, Sent
  <1>7. ASSUME NEW i \in Id PROVE OnePlaceOf(i)' /\ Still(i)
    <2>1. From[i] \in Engine
      BY RDMAAssumption
    <2>2. WaitsInL1(i)' <=> WaitsInL1(i) \/ i = id
      BY <1>4, <2>1 DEF WaitsInL1, Sent
    <2>3. /\ InRequestLink(i)' = InRequestLink(i) /\ InRequestPort(i)' = InRequestPort(i)
          /\ InL2(i)' = InL2(i) /\ InToL2(i)' = InToL2(i) /\ InResponseLink(i)' = InResponseLink(i)
          /\ InResponsePort(i)' = InResponsePort(i) /\ HasAsking(i)' = HasAsking(i)
          /\ HasAsked(i)' = HasAsked(i) /\ answered' = answered
      BY <1>2 DEF InRequestLink, InRequestPort, InL2, InToL2, InResponseLink, InResponsePort,
                  HasAsking, HasAsked, transVars
    <2>4. OnePlaceOf(i)
      BY DEF Travels, OnePlace
    <2> QED BY <1>3, <2>2, <2>3, <2>4 DEF OnePlaceOf, Still, ServedAt
  <1> QED BY <1>5, <1>6, <1>7 DEF Travels, OnePlace, AllStill

(* What the other steps leave alone. *)
LEMMA TravelUnchanged ==
    ASSUME Travels, UNCHANGED <<portVars, transVars, l2, answered>>
    PROVE  Travels' /\ AllStill
  BY DEF Travels, Placed, PlacedIn, PlacedInL2, PlacedResponses, PlacedAsking, PlacedAsked,
         NoDuplicate, Distinct, OnePlace, OnePlaceOf, WaitsInL1, InRequestLink, InRequestPort, InL2,
         InToL2, InResponseLink, InResponsePort, HasAsking, HasAsked, In, portVars, transVars,
         AllStill, Still, ServedAt

(* Every step moves an access from one place to the next or none. *)
LEMMA TravelStep == TypeOK /\ Travels /\ [Next]_vars => Travels'
  <1> SUFFICES ASSUME TypeOK, Travels, [Next]_vars PROVE Travels'
    OBVIOUS
  <1>1. ASSUME NEW e \in Engine, EngineStep(e) PROVE Travels'
    <2>1. CASE ProcessDrainReq(e) \/ ProcessRDMARestartReq(e) \/ DrainRDMA(e)
      BY <2>1, TravelUnchanged DEF ProcessDrainReq, ProcessRDMARestartReq, DrainRDMA
    <2> QED BY <1>1, <2>1, TravelFromL1, TravelFromL2, TravelFromOutside, TravelAnswered DEF EngineStep
  <1>2. ASSUME NEW e \in Engine, TakeAck(e) PROVE Travels'
    BY <1>2, TravelUnchanged DEF TakeAck, ControllerUnchanged
  <1>3. CASE Drain \/ Restart
    BY <1>3, TravelUnchanged DEF Drain, Restart, ControllerUnchanged
  <1>4. CASE UNCHANGED vars
    BY <1>4, TravelUnchanged DEF vars
  <1> QED
    BY <1>1, <1>2, <1>3, <1>4, TravelRequest, TravelResponse, TravelPerformed, TravelSent
    DEF Next, System, Done

-----------------------------------------------------------------------------
(* The controller. *)

(* What the controller knows of engine d does not change. *)
Same(d) ==
    /\ phase' = phase /\ acks' = acks
    /\ ctrlPort'[d] = ctrlPort[d] /\ ctrlLink'[d] = ctrlLink[d] /\ isDraining'[d] = isDraining[d]
    /\ pauseIncomingReqsFromL1'[d] = pauseIncomingReqsFromL1[d]
    /\ currentDrainReq'[d] = currentDrainReq[d]
    /\ pauseIncomingReqsFromL1[d] /\ transactionsFromInside[d] = {} => transactionsFromInside'[d] = {}

(* An engine that does not change goes on obeying. *)
LEMMA ObeysSame ==
    ASSUME NEW d \in Engine, Obeys(d), Same(d)
    PROVE  Obeys(d)'
  BY DEF Obeys, Same, Runs, DrainAsked, Drains, DrainAnswered, Drained, RestartAsked, RestartAnswered

(* The messages to and from the controller. *)
LEMMA ControlMessages ==
    /\ <<"drain">> # <<>> /\ <<"restart">> # <<>> /\ <<"drain">> # <<"restart">>
    /\ Head(<<"drain">>) = "drain" /\ Head(<<"restart">>) = "restart"
    /\ Tail(<<"drain">>) = <<>> /\ Tail(<<"restart">>) = <<>>
    /\ Append(<<>>, "drain") = <<"drain">> /\ Append(<<>>, "restart") = <<"restart">>
  OBVIOUS

(* Every step keeps the engines where the controller believes them. *)
LEMMA ControlStep == TypeOK /\ Controlled /\ [Next]_vars => Controlled'
  <1> SUFFICES ASSUME TypeOK, Controlled, [Next]_vars PROVE Controlled'
    OBVIOUS
  <1> DEFINE Flags == /\ ctrlPort \in [Engine -> Seq({"drain", "restart"})]
                      /\ ctrlLink \in [Engine -> Seq({"drain", "restart"})]
                      /\ isDraining \in [Engine -> BOOLEAN]
                      /\ pauseIncomingReqsFromL1 \in [Engine -> BOOLEAN]
                      /\ currentDrainReq \in [Engine -> BOOLEAN]
                      /\ transactionsFromInside \in [Engine -> SUBSET Transaction]
  <1>1. Flags
    BY DEF TypeOK, Limited
  <1>2. /\ phase \in {"running", "draining", "stopped", "restarting"} /\ acks \subseteq Engine
        /\ \A e \in Engine : Obeys(e)
        /\ phase \in {"running", "stopped"} => acks = {}
    BY DEF TypeOK, Controlled
  <1>3. ASSUME NEW e \in Engine, ProcessDrainReq(e) PROVE Controlled'
    <2>1. phase = "draining" /\ e \in acks /\ DrainAsked(e)
      BY <1>2, <1>3, ControlMessages DEF ProcessDrainReq, Obeys, Runs, DrainAsked, Drains,
            DrainAnswered, Drained, RestartAsked, RestartAnswered
    <2>2. Drains(e)' /\ phase' = phase /\ acks' = acks
      BY <1>1, <1>3, <2>1, ControlMessages DEF ProcessDrainReq, Drains, DrainAsked, controllerVars
    <2>3. Obeys(e)'
      BY <2>1, <2>2 DEF Obeys
    <2>4. ASSUME NEW d \in Engine, d # e PROVE Same(d)
      BY <1>1, <1>3, <2>4 DEF ProcessDrainReq, Same, controllerVars, transVars
    <2> QED BY <1>2, <2>1, <2>2, <2>3, <2>4, ObeysSame DEF Controlled
  <1>4. ASSUME NEW e \in Engine, ProcessRDMARestartReq(e) PROVE Controlled'
    <2>1. phase = "restarting" /\ e \in acks /\ RestartAsked(e)
      BY <1>2, <1>4, ControlMessages DEF ProcessRDMARestartReq, Obeys, Runs, DrainAsked, Drains,
            DrainAnswered, Drained, RestartAsked, RestartAnswered
    <2>2. RestartAnswered(e)' /\ phase' = phase /\ acks' = acks
      BY <1>1, <1>4, <2>1, ControlMessages
      DEF ProcessRDMARestartReq, RestartAsked, RestartAnswered, controllerVars
    <2>3. Obeys(e)'
      BY <2>1, <2>2 DEF Obeys
    <2>4. ASSUME NEW d \in Engine, d # e PROVE Same(d)
      BY <1>1, <1>4, <2>4 DEF ProcessRDMARestartReq, Same, controllerVars, transVars
    <2> QED BY <1>2, <2>1, <2>2, <2>3, <2>4, ObeysSame DEF Controlled
  <1>5. ASSUME NEW e \in Engine, DrainRDMA(e) PROVE Controlled'
    <2>1. phase = "draining" /\ e \in acks /\ Drains(e)
      BY <1>2, <1>5 DEF DrainRDMA, Obeys, Runs, DrainAsked, Drains,
            DrainAnswered, Drained, RestartAsked, RestartAnswered
    <2>2. DrainAnswered(e)' /\ phase' = phase /\ acks' = acks
      BY <1>1, <1>5, <2>1 DEF DrainRDMA, FullyDrained, Drains, DrainAnswered, controllerVars, transVars
    <2>3. Obeys(e)'
      BY <2>1, <2>2 DEF Obeys
    <2>4. ASSUME NEW d \in Engine, d # e PROVE Same(d)
      BY <1>1, <1>5, <2>4 DEF DrainRDMA, Same, controllerVars, transVars
    <2> QED BY <1>2, <2>1, <2>2, <2>3, <2>4, ObeysSame DEF Controlled
  <1>6. ASSUME NEW e \in Engine, TakeAck(e) PROVE Controlled'
    <2>1. e \in acks /\ \/ phase = "draining" /\ DrainAnswered(e)
                        \/ phase = "restarting" /\ RestartAnswered(e)
      BY <1>2, <1>6, ControlMessages DEF TakeAck, Obeys, Runs, DrainAsked, Drains,
            DrainAnswered, Drained, RestartAsked, RestartAnswered
    <2>2. /\ acks' = acks \ {e} /\ ctrlLink' = [ctrlLink EXCEPT ![e] = Tail(@)]
          /\ phase' = IF acks # {e} THEN phase ELSE IF phase = "draining" THEN "stopped" ELSE "running"
          /\ UNCHANGED <<ctrlPort, isDraining, pauseIncomingReqsFromL1, currentDrainReq,
                         transactionsFromInside>>
      BY <1>6 DEF TakeAck, ControllerUnchanged, drainVars, transVars
    <2>3. \A d \in Engine : d # e => ctrlLink'[d] = ctrlLink[d]
      BY <1>1, <2>2
    <2>4. CASE phase = "draining"
      <3>1. Drained(e)'
        BY <1>1, <2>1, <2>2, <2>4, ControlMessages DEF DrainAnswered, Drained
      <3>2. \A d \in Engine : d # e => d \in acks' \/ Drained(d)'
        BY <1>2, <2>2, <2>3, <2>4 DEF Obeys, Drained
      <3>3. \A d \in Engine : d # e /\ d \in acks' => DrainAsked(d)' \/ Drains(d)' \/ DrainAnswered(d)'
        BY <1>2, <2>2, <2>3, <2>4 DEF Obeys, DrainAsked, Drains, DrainAnswered
      <3>4. CASE acks = {e}
        BY <2>2, <2>4, <3>1, <3>2, <3>4 DEF Controlled, Obeys
      <3>5. CASE acks # {e}
        BY <2>2, <2>4, <3>1, <3>2, <3>3, <3>5 DEF Controlled, Obeys
      <3> QED BY <3>4, <3>5
    <2>5. CASE phase = "restarting"
      <3>1. Runs(e)'
        BY <1>1, <2>1, <2>2, <2>5, ControlMessages DEF RestartAnswered, Runs
      <3>2. \A d \in Engine : d # e => d \in acks' \/ Runs(d)'
        BY <1>2, <2>2, <2>3, <2>5 DEF Obeys, Runs
      <3>3. \A d \in Engine : d # e /\ d \in acks' => RestartAsked(d)' \/ RestartAnswered(d)'
        BY <1>2, <2>2, <2>3, <2>5 DEF Obeys, RestartAsked, RestartAnswered
      <3>4. CASE acks = {e}
        BY <2>2, <2>5, <3>1, <3>2, <3>4 DEF Controlled, Obeys
      <3>5. CASE acks # {e}
        BY <2>2, <2>5, <3>1, <3>2, <3>3, <3>5 DEF Controlled, Obeys
      <3> QED BY <3>4, <3>5
    <2> QED BY <2>1, <2>4, <2>5
  <1>7. CASE Drain
    <2>1. /\ phase = "running" /\ phase' = "draining" /\ acks' = Engine
          /\ ctrlPort' = [e \in Engine |-> Append(ctrlPort[e], "drain")]
          /\ UNCHANGED <<ctrlLink, isDraining, pauseIncomingReqsFromL1, currentDrainReq>>
      BY <1>7 DEF Drain, SendAll, ControllerUnchanged, drainVars
    <2>2. \A e \in Engine : DrainAsked(e)'
      BY <1>2, <2>1, ControlMessages DEF Obeys, Runs, DrainAsked
    <2> QED BY <2>1, <2>2 DEF Controlled, Obeys
  <1>8. CASE Restart
    <2>1. /\ phase = "stopped" /\ phase' = "restarting" /\ acks' = Engine
          /\ ctrlPort' = [e \in Engine |-> Append(ctrlPort[e], "restart")]
          /\ UNCHANGED <<ctrlLink, isDraining, pauseIncomingReqsFromL1, currentDrainReq>>
      BY <1>8 DEF Restart, SendAll, ControllerUnchanged, drainVars
    <2>2. \A e \in Engine : RestartAsked(e)'
      BY <1>2, <2>1, ControlMessages DEF Obeys, Drained, RestartAsked
    <2> QED BY <2>1, <2>2 DEF Controlled, Obeys
  <1>9. ASSUME UNCHANGED <<ctrlVars, drainVars, transactionsFromInside, controllerVars>>
        PROVE  Controlled'
    <2>1. ASSUME NEW d \in Engine PROVE Same(d)
      BY <1>9 DEF Same, ctrlVars, drainVars, controllerVars
    <2> QED BY <1>2, <1>9, <2>1, ObeysSame DEF Controlled, controllerVars
  <1>10. ASSUME NEW e \in Engine, ProcessReqFromL1(e) PROVE Controlled'
    <2>1. ASSUME NEW d \in Engine PROVE Same(d)
      BY <1>1, <1>10 DEF ProcessReqFromL1, Same, ctrlVars, drainVars, controllerVars
    <2> QED BY <1>2, <1>10, <2>1, ObeysSame DEF Controlled, ProcessReqFromL1, controllerVars
  <1>11. ASSUME NEW e \in Engine, ProcessRspFromOutside(e) PROVE Controlled'
    <2>1. \A d \in Engine : transactionsFromInside'[d] \subseteq transactionsFromInside[d]
      BY <1>1, <1>11 DEF ProcessRspFromOutside
    <2>2. ASSUME NEW d \in Engine PROVE Same(d)
      BY <1>11, <2>1 DEF ProcessRspFromOutside, Same, ctrlVars, drainVars, controllerVars
    <2> QED BY <1>2, <1>11, <2>2, ObeysSame DEF Controlled, ProcessRspFromOutside, controllerVars
  <1>12. ASSUME NEW e \in Engine, EngineStep(e) PROVE Controlled'
    <2>1. CASE ProcessRspFromL2(e) \/ ProcessReqFromOutside(e)
      BY <1>9, <2>1 DEF ProcessRspFromL2, ProcessReqFromOutside
    <2> QED BY <1>3, <1>4, <1>5, <1>10, <1>11, <1>12, <2>1 DEF EngineStep
  <1>13. ASSUME NEW e \in Engine, DeliverRequest(e) \/ DeliverResponse(e) PROVE Controlled'
    BY <1>9, <1>13 DEF DeliverRequest, DeliverResponse, transVars
  <1>14. ASSUME NEW e \in Engine, NEW id \in Id, L2Performs(e, id) PROVE Controlled'
    BY <1>9, <1>14 DEF L2Performs, transVars
  <1>15. ASSUME NEW id \in Id, L1Sends(id) PROVE Controlled'
    BY <1>9, <1>15 DEF L1Sends, transVars
  <1>16. CASE UNCHANGED vars
    BY <1>9, <1>16 DEF vars, transVars
  <1> QED BY <1>6, <1>7, <1>8, <1>12, <1>13, <1>14, <1>15, <1>16 DEF Next, System, Done

-----------------------------------------------------------------------------
(* The properties. *)

LEMMA Initially == Init => IInv
  <1> SUFFICES ASSUME Init PROVE IInv
    OBVIOUS
  <1>1. ASSUME NEW S, NEW cap \in Nat PROVE Limited(Empty, S, cap)
    <2>1. <<>> \in Seq(S) /\ Len(<<>>) = 0
      BY EmptySeq
    <2> QED BY <2>1 DEF Empty, Limited
  <1>2. TypeOK
    BY <1>1, RDMAAssumption DEF Init, TypeOK
  <1>3. \A e \in Engine : \A x : ~In(Empty, e, x)
    BY ContainsEmpty DEF Empty, In
  <1>4. Distinct(Empty)
    BY ContainsEmpty DEF Empty, Distinct
  <1>5. Placed
    BY <1>3 DEF Init, Placed, PlacedIn, PlacedInL2, PlacedResponses, PlacedAsking, PlacedAsked
  <1>6. NoDuplicate
    BY <1>4 DEF Init, NoDuplicate
  <1>7. \A id \in Id : From[id] \in Engine /\ To[id] \in Engine
    BY RDMAAssumption
  <1>8. OnePlace
    BY <1>3, <1>7 DEF Init, OnePlace, OnePlaceOf, WaitsInL1, InRequestLink, InRequestPort, InL2,
           InToL2, InResponseLink, InResponsePort, HasAsking, HasAsked
  <1>9. Controlled
    BY DEF Init, Empty, Controlled, Obeys, Runs
  <1> QED BY <1>2, <1>5, <1>6, <1>8, <1>9 DEF IInv, Travels

(* The invariant of the engines. *)
THEOREM Inductive == Spec => []IInv
  <1>1. IInv /\ [Next]_vars => IInv'
    BY TypeStep, TravelStep, ControlStep DEF IInv
  <1> QED BY <1>1, Initially, PTL DEF Spec

(* Buffers never hold more than their capacity, of what they are for.      *)
THEOREM TypeCorrect == Spec => []TypeOK
  <1>1. IInv => TypeOK
    BY DEF IInv
  <1> QED BY <1>1, Inductive, PTL

(* Where a response is that L1 waits for. *)
LEMMA ServedIs ==
    ASSUME TypeOK, Placed, NEW id \in Id
    PROVE  Served(id) <=> ServedAt(id)
  <1> DEFINE s == responseLink[To[id]]
  <1>1. s \in Seq([id : Id, dst : Engine]) /\ To[id] \in Engine
    BY RDMAAssumption DEF TypeOK, Limited
  <1>2. DOMAIN s = 1..Len(s) /\ \A i \in 1..Len(s) : s[i] \in [id : Id, dst : Engine]
    BY <1>1, LenProperties, ElementOfSeq
  <1>3. \A m \in [id : Id, dst : Engine] : In(responseLink, To[id], m) => m = Rsp(m.id)
    BY <1>1 DEF Placed, PlacedResponses
  <1>4. In(responseLink, To[id], Rsp(id)) <=> \E i \in 1..Len(s) : s[i] = Rsp(id)
    BY DEF In, Contains
  <1>5. ASSUME NEW i \in 1..Len(s) PROVE s[i].id = id <=> s[i] = Rsp(id)
    <2>1. In(responseLink, To[id], s[i])
      BY DEF In, Contains
    <2>2. s[i] = Rsp(s[i].id)
      BY <1>2, <1>3, <2>1
    <2>3. Rsp(id).id = id
      BY Copies
    <2> QED BY <2>2, <2>3
  <1>6. (\E i \in DOMAIN s : s[i].id = id) <=> InResponseLink(id)
    BY <1>2, <1>4, <1>5 DEF InResponseLink
  <1> QED BY <1>6 DEF Served, ServedAt, InToL2, InResponsePort

(* Transactions are the accesses under way. *)
THEOREM TransactionsAreUnderWay == Spec => []TransactionsMatch
  <1>1. ASSUME IInv PROVE TransactionsMatch
    <2>1. TypeOK /\ Placed /\ OnePlace
      BY <1>1 DEF IInv, Travels
    <2> SUFFICES ASSUME NEW id \in Id
                 PROVE  /\ Accepted(id) <=> OnTheWay(id) \/ id \in l2[To[id]] \/ Served(id)
                        /\ (\E t \in transactionsFromOutside[To[id]] : t.received.id = id)
                                <=> id \in l2[To[id]] \/ In(toL2, To[id], id)
                        /\ Accepted(id) => id \notin answered
      BY DEF TransactionsMatch
    <2>2. Accepted(id) <=> HasAsking(id)
      BY <2>1, AcceptedIsAsking
    <2>3. Served(id) <=> ServedAt(id)
      BY <2>1, ServedIs
    <2>4. (\E t \in transactionsFromOutside[To[id]] : t.received.id = id) <=> HasAsked(id)
      <3>1. To[id] \in Engine
        BY RDMAAssumption
      <3>2. ASSUME NEW t \in transactionsFromOutside[To[id]] PROVE t.received.id = id <=> t = Asked(id)
        <4>1. PICK i \in Id : t = Asked(i)
          BY <2>1, <3>1 DEF Placed, PlacedAsked
        <4> QED BY <4>1, Copies
      <3> QED BY <3>2 DEF HasAsked
    <2>5. OnePlaceOf(id)
      BY <2>1 DEF OnePlace
    <2>6. /\ OnTheWay(id) <=> InRequestLink(id) \/ InRequestPort(id)
          /\ id \in l2[To[id]] <=> InL2(id)
          /\ In(toL2, To[id], id) <=> InToL2(id)
      BY DEF OnTheWay, InRequestLink, InRequestPort, InL2, InToL2
    <2> QED BY <2>2, <2>3, <2>4, <2>5, <2>6 DEF OnePlaceOf, ServedAt
  <1> QED BY <1>1, Inductive, PTL

(* When all engines have answered a drain nothing is under way. *)
THEOREM DrainedIsEmpty == Spec => []NothingUnderWay
  <1>1. ASSUME IInv PROVE NothingUnderWay
    <2>1. TypeOK /\ Placed /\ OnePlace /\ Controlled
      BY <1>1 DEF IInv, Travels
    <2> SUFFICES ASSUME phase = "stopped", NEW e \in Engine
                 PROVE  /\ transactionsFromInside[e] = {} /\ transactionsFromOutside[e] = {} /\ l2[e] = {}
                        /\ requestPort[e] = <<>> /\ responsePort[e] = <<>> /\ requestLink[e] = <<>>
                        /\ responseLink[e] = <<>> /\ toL2[e] = <<>>
      BY DEF NothingUnderWay
    <2>2. \A d \in Engine : transactionsFromInside[d] = {}
      BY <2>1 DEF Controlled, Obeys, Drained
    <2>3. \A id \in Id : From[id] \in Engine /\ To[id] \in Engine
      BY RDMAAssumption
    <2>4. \A id \in Id : ~HasAsking(id)
      BY <2>2, <2>3 DEF HasAsking
    <2>5. \A id \in Id : /\ ~InRequestLink(id) /\ ~InRequestPort(id) /\ ~InL2(id) /\ ~InToL2(id)
                         /\ ~InResponseLink(id) /\ ~InResponsePort(id) /\ ~HasAsked(id)
      BY <2>1, <2>4 DEF OnePlace, OnePlaceOf
    <2>6. transactionsFromOutside[e] = {}
      BY <2>1, <2>5 DEF Placed, PlacedAsked, HasAsked
    <2>7. l2[e] = {}
      <3>1. l2[e] \subseteq Id
        BY <2>1 DEF TypeOK
      <3> QED BY <2>1, <2>5, <3>1 DEF Placed, PlacedInL2, InL2
    <2>8. \A id \in Id : /\ ~In(requestPort, e, id) /\ ~In(toL2, e, id)
                         /\ ~In(requestLink, e, id) /\ ~In(responsePort, e, id)
      BY <2>1, <2>5 DEF Placed, PlacedIn, InRequestPort, InToL2, InRequestLink, InResponsePort
    <2>9. \A m \in [id : Id, dst : Engine] : ~In(responseLink, e, m)
      BY <2>1, <2>5 DEF Placed, PlacedResponses, InResponseLink
    <2>10. /\ requestPort[e] \in Seq(Id) /\ toL2[e] \in Seq(Id)
           /\ requestLink[e] \in Seq(Id) /\ responsePort[e] \in Seq(Id)
           /\ responseLink[e] \in Seq([id : Id, dst : Engine])
      BY <2>1 DEF TypeOK, Limited
    <2>11. /\ requestPort[e] = <<>> /\ toL2[e] = <<>>
           /\ requestLink[e] = <<>> /\ responsePort[e] = <<>>
      BY <2>8, <2>10, NothingContained DEF In
    <2>12. responseLink[e] = <<>>
      BY <2>9, <2>10, NothingContained DEF In
    <2> QED BY <2>2, <2>6, <2>7, <2>11, <2>12
  <1> QED BY <1>1, Inductive, PTL

(* A restart finds the drain it answers to and room for its answer. *)
THEOREM RestartsAnswered == Spec => []RestartNotLost
  <1>1. ASSUME IInv PROVE RestartNotLost
    <2> SUFFICES ASSUME NEW e \in Engine, ctrlPort[e] # <<>>, Head(ctrlPort[e]) = "restart"
                 PROVE  currentDrainReq[e] /\ ctrlLink[e] = <<>> /\ ~isDraining[e]
      BY DEF RestartNotLost
    <2>1. Obeys(e) /\ phase \in {"running", "draining", "stopped", "restarting"}
      BY <1>1 DEF IInv, Controlled, TypeOK
    <2>2. RestartAsked(e)
      BY <2>1, ControlMessages DEF Obeys, Runs, DrainAsked, Drains, DrainAnswered, Drained, RestartAnswered
    <2> QED BY <2>2 DEF RestartAsked
  <1> QED BY <1>1, Inductive, PTL

-----------------------------------------------------------------------------
(* The refinement. *)

(* The progress of an access in terms of the invariant. *)
LEMMA StateIs ==
    ASSUME TypeOK, Placed, NEW id \in Id
    PROVE  State[id] = IF ServedAt(id) THEN "done"
                       ELSE IF HasAsking(id) THEN "accepted"
                       ELSE IF id \in answered THEN "answered" ELSE "new"
  BY ServedIs, AcceptedIsAsking DEF State

(* What a step does to the progress of the accesses. *)
LEMMA StateStep ==
    ASSUME TypeOK, Placed, TypeOK', Placed'
    PROVE  /\ AllStill => State' = State
           /\ \A id \in Id : /\ Accepts(id) => State[id] = "new" /\ State' = [State EXCEPT ![id] = "accepted"]
                             /\ Performs(id) => State[id] = "accepted" /\ State' = [State EXCEPT ![id] = "done"]
                             /\ Answers(id) => State[id] = "done" /\ State' = [State EXCEPT ![id] = "answered"]
  <1> DEFINE At(id) == IF ServedAt(id) THEN "done"
                       ELSE IF HasAsking(id) THEN "accepted"
                       ELSE IF id \in answered THEN "answered" ELSE "new"
  <1>1. DOMAIN State = Id /\ DOMAIN State' = Id /\ State = [id \in Id |-> State[id]]
        /\ State' = [id \in Id |-> State'[id]]
    BY DEF State
  <1>2. \A id \in Id : State[id] = At(id)
    BY StateIs
  <1>3. \A id \in Id : State'[id] = At(id)'
    <2> SUFFICES ASSUME NEW id \in Id PROVE State'[id] = At(id)'
      OBVIOUS
    <2>1. (TypeOK /\ Placed => State[id] = At(id))'
      BY StateIs, PTL
    <2> QED BY <2>1
  <1>4. \A id \in Id : Still(id) => State'[id] = State[id]
    BY <1>2, <1>3 DEF Still
  <1>5. \A id \in Id : /\ Accepts(id) => At(id) = "new" /\ At(id)' = "accepted"
                       /\ Performs(id) => At(id) = "accepted" /\ At(id)' = "done"
                       /\ Answers(id) => At(id) = "done" /\ At(id)' = "answered"
    BY DEF Accepts, Performs, Answers
  <1> QED BY <1>1, <1>2, <1>3, <1>4, <1>5 DEF AllStill, OthersStill, Accepts, Performs, Answers

(* Every step of the engines is a step of what they promise, or none.      *)
LEMMA PromiseStep == IInv /\ IInv' /\ [Next]_vars => [Promise!Next]_(Promise!vars)
  <1> SUFFICES ASSUME IInv, IInv', [Next]_vars PROVE [Promise!Next]_(Promise!vars)
    OBVIOUS
  <1> DEFINE Stopped == phase = "stopped"
  <1>1. TypeOK /\ Travels /\ Placed /\ Controlled /\ TypeOK' /\ Placed'
    BY DEF IInv, Travels
  <1>2. ASSUME AllStill, UNCHANGED Stopped PROVE [Promise!Next]_(Promise!vars)
    <2>1. State' = State
      BY <1>1, <1>2, StateStep
    <2> QED BY <1>2, <2>1 DEF Promise!vars
  <1>3. ASSUME NEW e \in Engine, EngineStep(e) PROVE [Promise!Next]_(Promise!vars)
    <2>1. phase' = phase
      BY <1>3 DEF EngineStep, ProcessDrainReq, ProcessRDMARestartReq, DrainRDMA, ProcessReqFromL1,
            ProcessRspFromL2, ProcessReqFromOutside, ProcessRspFromOutside, controllerVars
    <2>2. CASE ProcessReqFromL1(e)
      <3>1. PICK id \in Id : Accepts(id)
        BY <1>1, <2>2, TravelFromL1
      <3>2. State[id] = "new" /\ State' = [State EXCEPT ![id] = "accepted"]
        BY <1>1, <3>1, StateStep
      <3>3. phase # "stopped"
        BY <1>1, <2>2 DEF ProcessReqFromL1, Controlled, Obeys, Drained
      <3>4. Promise!Accept(id)
        BY <2>1, <3>2, <3>3 DEF Promise!Accept, Promise!Advance
      <3> QED BY <3>4 DEF Promise!Next
    <2>3. CASE ProcessRspFromOutside(e)
      <3>1. PICK id \in Id : Answers(id)
        BY <1>1, <2>3, TravelAnswered
      <3>2. State[id] = "done" /\ State' = [State EXCEPT ![id] = "answered"]
        BY <1>1, <3>1, StateStep
      <3>3. Promise!Answer(id)
        BY <2>1, <3>2 DEF Promise!Answer, Promise!Advance
      <3> QED BY <3>3 DEF Promise!Next
    <2>4. CASE ProcessRspFromL2(e) \/ ProcessReqFromOutside(e)
      BY <1>1, <1>2, <2>1, <2>4, TravelFromL2, TravelFromOutside
    <2>5. CASE ProcessDrainReq(e) \/ ProcessRDMARestartReq(e) \/ DrainRDMA(e)
      BY <1>1, <1>2, <2>1, <2>5, TravelUnchanged DEF ProcessDrainReq, ProcessRDMARestartReq, DrainRDMA
    <2> QED BY <1>3, <2>2, <2>3, <2>4, <2>5 DEF EngineStep
  <1>4. ASSUME NEW e \in Engine, DeliverRequest(e) \/ DeliverResponse(e)
        PROVE  [Promise!Next]_(Promise!vars)
    <2>1. phase' = phase
      BY <1>4 DEF DeliverRequest, DeliverResponse, controllerVars
    <2> QED BY <1>1, <1>2, <1>4, <2>1, TravelRequest, TravelResponse
  <1>5. ASSUME NEW e \in Engine, NEW id \in Id, L2Performs(e, id) PROVE [Promise!Next]_(Promise!vars)
    <2>1. State[id] = "accepted" /\ State' = [State EXCEPT ![id] = "done"] /\ phase' = phase
      BY <1>1, <1>5, TravelPerformed, StateStep DEF L2Performs, controllerVars
    <2>2. Promise!Perform(id)
      BY <2>1 DEF Promise!Perform, Promise!Advance
    <2> QED BY <2>2 DEF Promise!Next
  <1>6. ASSUME NEW id \in Id, L1Sends(id) PROVE [Promise!Next]_(Promise!vars)
    <2>1. phase' = phase
      BY <1>6 DEF L1Sends, controllerVars
    <2> QED BY <1>1, <1>2, <1>6, <2>1, TravelSent
  <1>7. ASSUME ControllerUnchanged PROVE AllStill /\ State' = State
    BY <1>1, <1>7, TravelUnchanged, StateStep DEF ControllerUnchanged
  <1>8. ASSUME NEW e \in Engine, TakeAck(e) PROVE [Promise!Next]_(Promise!vars)
    <2>1. AllStill /\ State' = State
      BY <1>7, <1>8 DEF TakeAck
    <2>2. CASE UNCHANGED Stopped
      BY <1>2, <2>1, <2>2
    <2>3. CASE ~UNCHANGED Stopped
      <3>1. phase # "stopped" /\ phase' = "stopped"
        <4>1. phase = "stopped" => ctrlLink[e] = <<>>
          BY <1>1 DEF Controlled, Obeys, Drained
        <4> QED BY <1>8, <2>3, <4>1 DEF TakeAck
      <3>2. \A id \in Id : State'[id] \in {"new", "answered"}
        <4> SUFFICES ASSUME NEW id \in Id PROVE State'[id] \in {"new", "answered"}
          OBVIOUS
        <4>1. From[id] \in Engine
          BY RDMAAssumption
        <4>2. transactionsFromInside'[From[id]] = {}
          BY <3>1, <4>1 DEF IInv, Controlled, Obeys, Drained
        <4>3. ~HasAsking(id)'
          BY <4>2 DEF HasAsking
        <4>4. OnePlaceOf(id)'
          BY DEF IInv, Travels, OnePlace
        <4>5. ~ServedAt(id)'
          BY <4>3, <4>4 DEF OnePlaceOf, ServedAt
        <4>6. ~ServedAt(id) /\ ~HasAsking(id)
          BY <2>1, <4>3, <4>5 DEF AllStill, Still
        <4>7. State[id] \in {"new", "answered"}
          BY <1>1, <4>6, StateIs
        <4> QED BY <2>1, <4>7
      <3>3. Promise!Stop
        BY <2>1, <3>1, <3>2 DEF Promise!Stop
      <3> QED BY <3>3 DEF Promise!Next
    <2> QED BY <2>2, <2>3
  <1>9. CASE Drain
    <2>1. AllStill /\ phase # "stopped" /\ phase' # "stopped"
      BY <1>7, <1>9 DEF Drain
    <2> QED BY <1>2, <2>1
  <1>10. CASE Restart
    <2>1. State' = State /\ phase = "stopped" /\ phase' # "stopped"
      BY <1>7, <1>10 DEF Restart
    <2>2. Promise!Start
      BY <2>1 DEF Promise!Start
    <2> QED BY <2>2 DEF Promise!Next
  <1>11. CASE UNCHANGED vars
    <2>1. AllStill /\ phase' = phase
      BY <1>1, <1>11, TravelUnchanged DEF vars, controllerVars
    <2> QED BY <1>2, <2>1
  <1> QED BY <1>3, <1>4, <1>5, <1>6, <1>8, <1>9, <1>10, <1>11 DEF Next, System, Done

(* Together the engines do every access once and answer it once, and none  *)
(* is under way while they are stopped: the safety part of Refines.        *)
THEOREM PromiseKept == Spec => Promise!Init /\ [][Promise!Next]_(Promise!vars)
  <1>1. Init => Promise!Init
    <2> SUFFICES ASSUME Init PROVE Promise!Init
      OBVIOUS
    <2>1. TypeOK /\ Travels /\ Placed /\ phase = "running"
      BY Initially DEF Init, IInv, Travels
    <2>2. ASSUME NEW id \in Id PROVE State[id] = "new"
      <3>1. From[id] \in Engine
        BY RDMAAssumption
      <3>2. ~HasAsking(id) /\ id \notin answered
        BY <3>1 DEF Init, HasAsking
      <3>3. ~ServedAt(id)
        BY <2>1, <3>2 DEF Travels, OnePlace, OnePlaceOf, ServedAt
      <3> QED BY <2>1, <3>2, <3>3, StateIs
    <2>3. State = [id \in Id |-> "new"]
      BY <2>2 DEF State
    <2> QED BY <2>1, <2>3 DEF Promise!Init
  <1> QED BY <1>1, PromiseStep, Inductive, PTL DEF Spec
=============================================================================
