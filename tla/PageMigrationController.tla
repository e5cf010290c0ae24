----------------------- MODULE PageMigrationController -----------------------
(***************************************************************************)
(* The page migration controllers (PMC) of the GPUs                        *)
(* (mgpusim/pagemigrationcontroller/pmc.go). The PMC of the GPU a page     *)
(* moves to pulls it chunk by chunk from the PMC of the GPU that holds it, *)
(* which reads the chunks from its memory; the first one writes them to    *)
(* its own memory and tells its command processor when all are written.    *)
(*                                                                         *)
(* An action is one of the handlers of Tick, with the process... handler   *)
(* that consumes its result in the same Tick.                              *)
(***************************************************************************)
EXTENDS Integers, Sequences, FiniteSets

CONSTANTS
    GPU,
    Page,
    NumChunks,   \* PageSize / onDemandPagingDataTransferSize (16 of 256 bytes)
    WireCap      \* messages of one PMC the connection between them holds

ASSUME PMCAssumption ==
    /\ NumChunks \in Nat \ {0}
    /\ WireCap \in Nat \ {0}

Chunk == 1..NumChunks

(* ID of a pull, kept by the read, the response and the address map. *)
PullID == Page \X Chunk

Migration == [page : Page, from : GPU]

NoMigration == [page |-> "nil"]

Data == Nat

(* Requests to a memory controller and its answers. *)
MemOp == [type : {"read", "write"}, id : PullID, data : Data]

RemoteMsg ==
    [type : {"pull"}, id : PullID, src : GPU, dst : GPU]
        \cup [type : {"data"}, id : PullID, dst : GPU, data : Data]

VARIABLES
    mem,                      \* contents of every GPU's memory
    ctrlPort,                 \* buffer of CtrlPort (1 message)
    currentMigrationRequest,
    isHandlingPageMigration,
    toPullFromAnotherPMC,
    wire,                     \* messages of a PMC in the connection between them
    remotePort,               \* buffer of RemotePort (1 message)
    requestingPMCtrlPort,     \* PMC the last pull came from
    toSendLocalMemPort,
    toRspToAnotherPMC,
    writeReqLocalMemPort,
    memOps,                   \* requests in a memory controller
    localMemPort,             \* buffer of LocalMemPort (1 message)
    reqIDToWriteAddressMap,   \* pulls whose data has not arrived
    numDataRspPendingForPageMigration,
    toSendToCtrlPort          \* the response to the command processor is due

migrationVars == <<ctrlPort, currentMigrationRequest, isHandlingPageMigration,
                   toSendToCtrlPort, numDataRspPendingForPageMigration>>
pullVars == <<toPullFromAnotherPMC, reqIDToWriteAddressMap, writeReqLocalMemPort>>
serveVars == <<requestingPMCtrlPort, toSendLocalMemPort, toRspToAnotherPMC>>
netVars == <<wire, remotePort>>
memVars == <<memOps, localMemPort>>
pmcVars == <<mem, migrationVars, pullVars, serveVars, netVars, memVars>>

PMCTypeOK ==
    /\ mem \in [GPU -> [PullID -> Data]]
    /\ ctrlPort \in [GPU -> Seq(Migration)]
    /\ currentMigrationRequest \in [GPU -> Migration \cup {NoMigration}]
    /\ isHandlingPageMigration \in [GPU -> BOOLEAN]
    /\ toPullFromAnotherPMC \in [GPU -> Seq(RemoteMsg)]
    /\ wire \in [GPU -> Seq(RemoteMsg)]
    /\ \A g \in GPU : Len(wire[g]) <= WireCap
    /\ remotePort \in [GPU -> Seq(RemoteMsg)]
    /\ requestingPMCtrlPort \in [GPU -> GPU \cup {"nil"}]
    /\ toSendLocalMemPort \in [GPU -> Seq(MemOp)]
    /\ toRspToAnotherPMC \in [GPU -> Seq(RemoteMsg)]
    /\ writeReqLocalMemPort \in [GPU -> Seq(MemOp)]
    /\ memOps \in [GPU -> SUBSET MemOp]
    /\ localMemPort \in [GPU -> Seq(MemOp)]
    /\ reqIDToWriteAddressMap \in [GPU -> SUBSET PullID]
    /\ numDataRspPendingForPageMigration \in [GPU -> Int]
    /\ toSendToCtrlPort \in [GPU -> BOOLEAN]

PMCInit ==
    /\ mem = [g \in GPU |-> [id \in PullID |-> 0]]
    /\ ctrlPort = [g \in GPU |-> <<>>]
    /\ currentMigrationRequest = [g \in GPU |-> NoMigration]
    /\ isHandlingPageMigration = [g \in GPU |-> FALSE]
    /\ toPullFromAnotherPMC = [g \in GPU |-> <<>>]
    /\ wire = [g \in GPU |-> <<>>]
    /\ remotePort = [g \in GPU |-> <<>>]
    /\ requestingPMCtrlPort = [g \in GPU |-> "nil"]
    /\ toSendLocalMemPort = [g \in GPU |-> <<>>]
    /\ toRspToAnotherPMC = [g \in GPU |-> <<>>]
    /\ writeReqLocalMemPort = [g \in GPU |-> <<>>]
    /\ memOps = [g \in GPU |-> {}]
    /\ localMemPort = [g \in GPU |-> <<>>]
    /\ reqIDToWriteAddressMap = [g \in GPU |-> {}]
    /\ numDataRspPendingForPageMigration = [g \in GPU |-> -1]
    /\ toSendToCtrlPort = [g \in GPU |-> FALSE]

-----------------------------------------------------------------------------
(* The connection and the memory controllers. *)

Least(a, b) == IF a < b THEN a ELSE b

(* Faulty: what the connection has no room for counts as sent. *)
SendableAll(g, list) == Len(list)

(* How many of the messages of a list a loop of sends gets rid of. *)
Sendable(g, list) == Least(Len(list), WireCap - Len(wire[g]))

Deliver(g) ==
    /\ wire[g] # <<>>
    /\ LET msg == Head(wire[g])
       IN  /\ remotePort[msg.dst] = <<>>
           /\ remotePort' = [remotePort EXCEPT ![msg.dst] = <<msg>>]
    /\ wire' = [wire EXCEPT ![g] = Tail(@)]
    /\ UNCHANGED <<mem, migrationVars, pullVars, serveVars, memVars>>

(* Requests are served in any order. *)
MemServes(g) ==
    \E op \in memOps[g] :
        /\ localMemPort[g] = <<>>
        /\ memOps' = [memOps EXCEPT ![g] = @ \ {op}]
        /\ IF op.type = "read"
           THEN /\ localMemPort' = [localMemPort EXCEPT ![g] = <<[op EXCEPT !.data = mem[g][op.id]]>>]
                /\ UNCHANGED mem
           ELSE /\ localMemPort' = [localMemPort EXCEPT ![g] = <<op>>]
                /\ mem' = [mem EXCEPT ![g][op.id] = op.data]
        /\ UNCHANGED <<migrationVars, pullVars, serveVars, netVars>>

-----------------------------------------------------------------------------
(* Sends of Tick. *)

SendMigrationReqToAnotherPMC(g) ==
    LET n == Sendable(g, toPullFromAnotherPMC[g])
    IN  /\ n > 0
        /\ wire' = [wire EXCEPT ![g] = @ \o SubSeq(toPullFromAnotherPMC[g], 1, n)]
        /\ toPullFromAnotherPMC' = [toPullFromAnotherPMC EXCEPT ![g] = SubSeq(@, n + 1, Len(@))]
        /\ UNCHANGED <<mem, migrationVars, reqIDToWriteAddressMap, writeReqLocalMemPort,
                       serveVars, remotePort, memVars>>

SendDataReadyRspToRequestingPMC(g) ==
    LET n == Sendable(g, toRspToAnotherPMC[g])
    IN  /\ n > 0
        /\ wire' = [wire EXCEPT ![g] = @ \o SubSeq(toRspToAnotherPMC[g], 1, n)]
        /\ toRspToAnotherPMC' = [toRspToAnotherPMC EXCEPT ![g] = SubSeq(@, n + 1, Len(@))]
        /\ UNCHANGED <<mem, migrationVars, pullVars, requestingPMCtrlPort, toSendLocalMemPort,
                       remotePort, memVars>>

Ops(list) == { list[i] : i \in DOMAIN list }

(* The memory controller takes every request it is sent. *)
SendReadReqLocalMemPort(g) ==
    /\ toSendLocalMemPort[g] # <<>>
    /\ memOps' = [memOps EXCEPT ![g] = @ \cup Ops(toSendLocalMemPort[g])]
    /\ toSendLocalMemPort' = [toSendLocalMemPort EXCEPT ![g] = <<>>]
    /\ UNCHANGED <<mem, migrationVars, pullVars, requestingPMCtrlPort, toRspToAnotherPMC,
                   netVars, localMemPort>>

SendWriteReqLocalMemPort(g) ==
    /\ writeReqLocalMemPort[g] # <<>>
    /\ memOps' = [memOps EXCEPT ![g] = @ \cup Ops(writeReqLocalMemPort[g])]
    /\ writeReqLocalMemPort' = [writeReqLocalMemPort EXCEPT ![g] = <<>>]
    /\ UNCHANGED <<mem, migrationVars, toPullFromAnotherPMC, reqIDToWriteAddressMap,
                   serveVars, netVars, localMemPort>>

(* The response leaves once the command processor's side takes it. *)
SendMigrationCompleteRspToCtrlPort(g) ==
    /\ toSendToCtrlPort[g]
    /\ toSendToCtrlPort' = [toSendToCtrlPort EXCEPT ![g] = FALSE]
    /\ isHandlingPageMigration' = [isHandlingPageMigration EXCEPT ![g] = FALSE]
    /\ currentMigrationRequest' = [currentMigrationRequest EXCEPT ![g] = NoMigration]
    /\ UNCHANGED <<mem, ctrlPort, numDataRspPendingForPageMigration, pullVars, serveVars,
                   netVars, memVars>>

-----------------------------------------------------------------------------
(* Messages received by Tick. *)

Pulls(g, m) ==
    [ c \in Chunk |-> [type |-> "pull", id |-> <<m.page, c>>, src |-> g, dst |-> m.from] ]

(* processFromCtrlPort, then processPageMigrationReqFromCtrlPort: one page *)
(* at a time, broken down into chunks.                                     *)
ProcessPageMigrationReqFromCtrlPort(g) ==
    /\ ~isHandlingPageMigration[g]
    /\ ctrlPort[g] # <<>>
    /\ LET m == Head(ctrlPort[g])
       IN  /\ currentMigrationRequest' = [currentMigrationRequest EXCEPT ![g] = m]
           /\ toPullFromAnotherPMC' = [toPullFromAnotherPMC EXCEPT ![g] = @ \o Pulls(g, m)]
           /\ reqIDToWriteAddressMap' = [reqIDToWriteAddressMap EXCEPT
                                            ![g] = @ \cup {m.page} \X Chunk]
    /\ isHandlingPageMigration' = [isHandlingPageMigration EXCEPT ![g] = TRUE]
    /\ numDataRspPendingForPageMigration' =
            [numDataRspPendingForPageMigration EXCEPT ![g] = NumChunks]
    /\ ctrlPort' = [ctrlPort EXCEPT ![g] = Tail(@)]
    /\ UNCHANGED <<mem, toSendToCtrlPort, writeReqLocalMemPort, serveVars, netVars, memVars>>

(* handleDataPullReq, then processReadPageReqFromAnotherPMC: the read has  *)
(* the ID of the pull; who pulled is remembered once for all pulls.        *)
HandleDataPullReq(g) ==
    /\ remotePort[g] # <<>>
    /\ Head(remotePort[g]).type = "pull"
    /\ requestingPMCtrlPort' = [requestingPMCtrlPort EXCEPT ![g] = Head(remotePort[g]).src]
    /\ toSendLocalMemPort' = [toSendLocalMemPort EXCEPT ![g] =
            Append(@, [type |-> "read", id |-> Head(remotePort[g]).id, data |-> 0])]
    /\ remotePort' = [remotePort EXCEPT ![g] = Tail(@)]
    /\ UNCHANGED <<mem, migrationVars, pullVars, toRspToAnotherPMC, wire, memVars>>

(* handleDataPullRsp, then processDataPullRsp. Data nobody pulled is a     *)
(* panic ("We do not know where the mem controller should write").         *)
HandleDataPullRsp(g) ==
    /\ remotePort[g] # <<>>
    /\ Head(remotePort[g]).type = "data"
    /\ Head(remotePort[g]).id \in reqIDToWriteAddressMap[g]
    /\ writeReqLocalMemPort' = [writeReqLocalMemPort EXCEPT ![g] =
            Append(@, [type |-> "write", id |-> Head(remotePort[g]).id,
                       data |-> Head(remotePort[g]).data])]
    /\ reqIDToWriteAddressMap' = [reqIDToWriteAddressMap EXCEPT ![g] = @ \ {Head(remotePort[g]).id}]
    /\ remotePort' = [remotePort EXCEPT ![g] = Tail(@)]
    /\ UNCHANGED <<mem, migrationVars, toPullFromAnotherPMC, serveVars, wire, memVars>>

(* handleDataReadyRspFromMemCtrl, then processDataReadyRspFromMemCtrl. *)
HandleDataReadyRspFromMemCtrl(g) ==
    /\ localMemPort[g] # <<>>
    /\ Head(localMemPort[g]).type = "read"
    /\ toRspToAnotherPMC' = [toRspToAnotherPMC EXCEPT ![g] =
            Append(@, [type |-> "data", id |-> Head(localMemPort[g]).id,
                       dst |-> requestingPMCtrlPort[g], data |-> Head(localMemPort[g]).data])]
    /\ localMemPort' = [localMemPort EXCEPT ![g] = Tail(@)]
    /\ UNCHANGED <<mem, migrationVars, pullVars, requestingPMCtrlPort, toSendLocalMemPort,
                   netVars, memOps>>

(* Faulty: complete when one write is still under way. *)
CompletesEarly(pending) == pending <= 1

(* Faulty: waits for a write more than there are chunks. *)
CompletesLate(pending) == pending < 0

Completes(pending) == pending = 0

(* handleWriteDoneRspFromMemCtrl, then processWriteDoneRspFromMemCtrl. A   *)
(* write too many is a panic ("Not possible").                             *)
HandleWriteDoneRspFromMemCtrl(g) ==
    LET pending == numDataRspPendingForPageMigration[g] - 1
    IN  /\ localMemPort[g] # <<>>
        /\ Head(localMemPort[g]).type = "write"
        /\ pending >= 0
        /\ localMemPort' = [localMemPort EXCEPT ![g] = Tail(@)]
        /\ numDataRspPendingForPageMigration' = [numDataRspPendingForPageMigration EXCEPT
                ![g] = IF Completes(pending) THEN -1 ELSE pending]
        /\ IF Completes(pending)
           THEN /\ toSendToCtrlPort' = [toSendToCtrlPort EXCEPT ![g] = TRUE]
                /\ currentMigrationRequest' = [currentMigrationRequest EXCEPT ![g] = NoMigration]
           ELSE UNCHANGED <<toSendToCtrlPort, currentMigrationRequest>>
        /\ UNCHANGED <<mem, ctrlPort, isHandlingPageMigration, pullVars, serveVars, netVars, memOps>>

PMCStep(g) ==
    \/ Deliver(g)
    \/ MemServes(g)
    \/ SendMigrationReqToAnotherPMC(g)
    \/ SendDataReadyRspToRequestingPMC(g)
    \/ SendReadReqLocalMemPort(g)
    \/ SendWriteReqLocalMemPort(g)
    \/ ProcessPageMigrationReqFromCtrlPort(g)
    \/ HandleDataPullReq(g)
    \/ HandleDataPullRsp(g)
    \/ HandleDataReadyRspFromMemCtrl(g)
    \/ HandleWriteDoneRspFromMemCtrl(g)

-----------------------------------------------------------------------------
(* Properties. *)

(* Data arrives at a PMC that pulled it and knows where to write it: the   *)
(* panics of processDataPullRsp and processWriteDoneRspFromMemCtrl         *)
(* (pmc.go:347, 409) are never reached.                                    *)
PullsAnswered ==
    \A g \in GPU :
        /\ remotePort[g] # <<>> /\ Head(remotePort[g]).type = "data"
              => Head(remotePort[g]).id \in reqIDToWriteAddressMap[g]
        /\ localMemPort[g] # <<>> /\ Head(localMemPort[g]).type = "write"
              => numDataRspPendingForPageMigration[g] > 0
=============================================================================
