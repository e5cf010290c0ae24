-------------------------- MODULE CommandProcessor --------------------------
(***************************************************************************)
(* The command processors (CP) of the GPUs                                 *)
(* (mgpusim/timing/cp/commandprocessor.go): they carry out the driver's    *)
(* commands on the parts of their GPU, phase by phase, counting the        *)
(* acknowledgements of each phase.                                         *)
(*                                                                         *)
(* An action is one handler of the CP's Tick. The parts of the GPU are     *)
(* modelled by what they promise the CP: they stop or continue, and what   *)
(* they held is written back or dropped.                                   *)
(***************************************************************************)
EXTENDS PageMigrationController

CONSTANTS
    CU, AT, L1, TLB,   \* names of the parts registered with every CP
    UnregisteredTLB,   \* TLBs of a GPU the CP does not know (L1 and L2 TLBs)
    FoundByFlush       \* pages whose entry the flush of a TLB looks for where it is

Cache == L1 \cup {"l2"}

Part == CU \cup AT \cup Cache \cup TLB \cup {"rdma", "dma", "pmc"}

(* A phase waits for at least one acknowledgement; no two parts share a   *)
(* name.                                                                   *)
ASSUME CPAssumption ==
    /\ {} \notin {CU, AT, L1, TLB}
    /\ IsFiniteSet(Part)
    /\ CU \cap (AT \cup L1 \cup TLB) = {}
    /\ AT \cap (L1 \cup TLB) = {}
    /\ L1 \cap TLB = {}
    /\ UnregisteredTLB \cap TLB = {}
    /\ FoundByFlush \subseteq Page
    /\ {"l2", "rdma", "dma", "pmc"} \cap (CU \cup AT \cup L1 \cup TLB) = {}

Command ==
    [type : {"launch", "flush", "copy", "drain", "gpuRestart", "rdmaRestart"}, gpu : GPU]
        \cup [type : {"shootdown"}, gpu : GPU, pages : SUBSET Page]
        \cup [type : {"migrate"}, gpu : GPU, page : Page, from : GPU]

Answer == {"launch", "flush", "copy", "drain", "shootdown", "migrate", "gpuRestart", "rdmaRestart"}

Control == {"flush", "reset", "restart", "copy"}

(* What a TLB answers: the GPU that holds the page, and which of the       *)
(* frames this GPU has given to the page so far.                           *)
Translation == [owner : GPU, frame : Nat]

NoTranslation == [owner |-> "none"]

AnyTLB == TLB \cup UnregisteredTLB

CPState ==
    [currShootdownRequest : SUBSET Page,
     shootDownInProcess : BOOLEAN,
     numCUAck : Int,
     numAddrTranslationFlushAck : Int,
     numAddrTranslationRestartAck : Int,
     numCacheACK : Int,
     numTLBAck : Int]

VARIABLES
    toDriver,    \* buffer of port ToDriver (1 message)
    uplink,      \* toDriverSender and the connection to the driver
    toPart,      \* requests under way to a part of the GPU
    fromPart,    \* responses under way to the CP
    toPMCSender,
    cp,          \* fields of the CP
    dispatching, \* the dispatcher runs a kernel
    paused,      \* parts that have stopped; the RDMA engine: is drained
    tlb,         \* last translation every TLB got; it may have been evicted
    dirty        \* lines of the L2 cache not written back

Clean == -1

portVars == <<toDriver, uplink, toPart, fromPart, toPMCSender>>
gpuVars  == <<dispatching, paused, tlb, dirty>>
cpVars   == <<portVars, cp, gpuVars>>

CPTypeOK ==
    /\ toDriver \in [GPU -> Seq(Command)]
    /\ uplink \in [GPU -> Seq(Answer)]
    /\ toPart \in [GPU -> [Part -> Seq(Control)]]
    /\ fromPart \in [GPU -> [Part -> Seq(Control)]]
    /\ toPMCSender \in [GPU -> Seq(Migration)]
    /\ cp \in [GPU -> CPState]
    /\ dispatching \in [GPU -> BOOLEAN]
    /\ paused \in [GPU -> SUBSET Part]
    /\ tlb \in [GPU -> [AnyTLB -> [Page -> Translation \cup {NoTranslation}]]]
    /\ dirty \in [GPU -> [PullID -> Data \cup {Clean}]]

CPInit ==
    /\ toDriver = [g \in GPU |-> <<>>]
    /\ uplink = [g \in GPU |-> <<>>]
    /\ toPart = [g \in GPU |-> [p \in Part |-> <<>>]]
    /\ fromPart = [g \in GPU |-> [p \in Part |-> <<>>]]
    /\ toPMCSender = [g \in GPU |-> <<>>]
    /\ cp = [g \in GPU |-> [currShootdownRequest |-> {},
                            shootDownInProcess |-> FALSE,
                            numCUAck |-> 0,
                            numAddrTranslationFlushAck |-> 0,
                            numAddrTranslationRestartAck |-> 0,
                            numCacheACK |-> 0,
                            numTLBAck |-> 0]]
    /\ dispatching = [g \in GPU |-> FALSE]
    /\ paused = [g \in GPU |-> {}]
    /\ tlb = [g \in GPU |-> [t \in AnyTLB |-> [p \in Page |-> NoTranslation]]]
    /\ dirty = [g \in GPU |-> [id \in PullID |-> Clean]]

-----------------------------------------------------------------------------
(* Sending and receiving. The senders of the CP have no limit.            *)

SendTo(g, parts, req) ==
    toPart' = [toPart EXCEPT ![g] =
                  [p \in Part |-> IF p \in parts THEN Append(@[p], req) ELSE @[p]]]

SendToDriver(g, answer) == uplink' = [uplink EXCEPT ![g] = Append(@, answer)]

FromDriver(g, type) == toDriver[g] # <<>> /\ Head(toDriver[g]).type = type

RetrieveFromDriver(g) == toDriver' = [toDriver EXCEPT ![g] = Tail(@)]

From(g, p, rsp) == fromPart[g][p] # <<>> /\ Head(fromPart[g][p]) = rsp

Retrieve(g, p) == fromPart' = [fromPart EXCEPT ![g][p] = Tail(@)]

SetCP(g, fields) == cp' = [cp EXCEPT ![g] = fields]

-----------------------------------------------------------------------------
(* processReqFromDriver. *)

ProcessLaunchKernelReq(g) ==
    /\ FromDriver(g, "launch")
    /\ ~dispatching[g]
    /\ dispatching' = [dispatching EXCEPT ![g] = TRUE]
    /\ RetrieveFromDriver(g)
    /\ UNCHANGED <<pmcVars, uplink, toPart, fromPart, toPMCSender, cp, paused, tlb, dirty>>

(* Faulty: starts beside another phase of the caches. *)
ProcessFlushCommandUnguarded(g) ==
    /\ FromDriver(g, "flush")
    /\ SendTo(g, Cache, "flush")
    /\ SetCP(g, [cp[g] EXCEPT !.numCacheACK = Cardinality(Cache)])
    /\ RetrieveFromDriver(g)
    /\ UNCHANGED <<pmcVars, uplink, fromPart, toPMCSender, gpuVars>>

(* One flush of the caches at a time. *)
ProcessFlushCommand(g) ==
    /\ FromDriver(g, "flush")
    /\ cp[g].numCacheACK = 0
    /\ SendTo(g, Cache, "flush")
    /\ SetCP(g, [cp[g] EXCEPT !.numCacheACK = Cardinality(Cache)])
    /\ RetrieveFromDriver(g)
    /\ UNCHANGED <<pmcVars, uplink, fromPart, toPMCSender, gpuVars>>

ProcessMemCopyReq(g) ==
    /\ FromDriver(g, "copy")
    /\ SendTo(g, {"dma"}, "copy")
    /\ RetrieveFromDriver(g)
    /\ UNCHANGED <<pmcVars, uplink, fromPart, toPMCSender, cp, gpuVars>>

ProcessRDMADrainCmd(g) ==
    /\ FromDriver(g, "drain")
    /\ SendTo(g, {"rdma"}, "flush")
    /\ RetrieveFromDriver(g)
    /\ UNCHANGED <<pmcVars, uplink, fromPart, toPMCSender, cp, gpuVars>>

ProcessRDMARestartCommand(g) ==
    /\ FromDriver(g, "rdmaRestart")
    /\ SendTo(g, {"rdma"}, "restart")
    /\ RetrieveFromDriver(g)
    /\ UNCHANGED <<pmcVars, uplink, fromPart, toPMCSender, cp, gpuVars>>

(* The first phase of a shootdown stops the compute units. *)
ProcessShootdownCommand(g) ==
    /\ FromDriver(g, "shootdown")
    /\ ~cp[g].shootDownInProcess
    /\ SendTo(g, CU, "flush")
    /\ SetCP(g, [cp[g] EXCEPT !.shootDownInProcess = TRUE,
                              !.currShootdownRequest = Head(toDriver[g]).pages,
                              !.numCUAck = @ + Cardinality(CU)])
    /\ RetrieveFromDriver(g)
    /\ UNCHANGED <<pmcVars, uplink, fromPart, toPMCSender, gpuVars>>

(* Faulty: the compute units do not wait for the parts that serve them. *)
ProcessGPURestartReqAtOnce(g) ==
    /\ FromDriver(g, "gpuRestart")
    /\ SendTo(g, Cache \cup CU, "restart")
    /\ SetCP(g, [cp[g] EXCEPT !.numCacheACK = @ + Cardinality(Cache),
                              !.numCUAck = @ + Cardinality(CU)])
    /\ RetrieveFromDriver(g)
    /\ UNCHANGED <<pmcVars, uplink, fromPart, toPMCSender, gpuVars>>

(* The first phase of a restart is the caches, the last the compute units. *)
ProcessGPURestartReq(g) ==
    /\ FromDriver(g, "gpuRestart")
    /\ SendTo(g, Cache, "restart")
    /\ SetCP(g, [cp[g] EXCEPT !.numCacheACK = @ + Cardinality(Cache)])
    /\ RetrieveFromDriver(g)
    /\ UNCHANGED <<pmcVars, uplink, fromPart, toPMCSender, gpuVars>>

ProcessPageMigrationReq(g) ==
    /\ FromDriver(g, "migrate")
    /\ toPMCSender' = [toPMCSender EXCEPT ![g] =
            Append(@, [page |-> Head(toDriver[g]).page, from |-> Head(toDriver[g]).from])]
    /\ RetrieveFromDriver(g)
    /\ UNCHANGED <<pmcVars, uplink, toPart, fromPart, cp, gpuVars>>

ProcessReqFromDriver(g) ==
    \/ ProcessLaunchKernelReq(g)
    \/ ProcessFlushCommand(g)
    \/ ProcessMemCopyReq(g)
    \/ ProcessRDMADrainCmd(g)
    \/ ProcessRDMARestartCommand(g)
    \/ ProcessShootdownCommand(g)
    \/ ProcessGPURestartReq(g)
    \/ ProcessPageMigrationReq(g)

-----------------------------------------------------------------------------
(* processRspFromInternal: each response ends a phase when it is the last, *)
(* and then starts the next one.                                           *)

ProcessMemCopyRsp(g) ==
    /\ From(g, "dma", "copy")
    /\ SendToDriver(g, "copy")
    /\ Retrieve(g, "dma")
    /\ UNCHANGED <<pmcVars, toDriver, toPart, toPMCSender, cp, gpuVars>>

ProcessRDMARsp(g) ==
    /\ \/ From(g, "rdma", "flush") /\ SendToDriver(g, "drain")
       \/ From(g, "rdma", "restart") /\ SendToDriver(g, "rdmaRestart")
    /\ Retrieve(g, "rdma")
    /\ UNCHANGED <<pmcVars, toDriver, toPart, toPMCSender, cp, gpuVars>>

ProcessPageMigrationRsp(g) ==
    /\ From(g, "pmc", "copy")
    /\ SendToDriver(g, "migrate")
    /\ Retrieve(g, "pmc")
    /\ UNCHANGED <<pmcVars, toDriver, toPart, toPMCSender, cp, gpuVars>>

LastAck(n) == n = 1

ProcessCUPipelineFlushRsp(g, c) ==
    /\ From(g, c, "flush")
    /\ Retrieve(g, c)
    /\ IF LastAck(cp[g].numCUAck)
       THEN /\ SendTo(g, AT, "flush")
            /\ SetCP(g, [cp[g] EXCEPT !.numCUAck = @ - 1,
                                      !.numAddrTranslationFlushAck = @ + Cardinality(AT)])
       ELSE /\ SetCP(g, [cp[g] EXCEPT !.numCUAck = @ - 1])
            /\ UNCHANGED toPart
    /\ UNCHANGED <<pmcVars, toDriver, uplink, toPMCSender, gpuVars>>

(* Both answers of an address translator look the same: the counters tell *)
(* which one it is.                                                        *)
ProcessAddressTranslatorFlushRsp(g, a) ==
    /\ fromPart[g][a] # <<>>
    /\ cp[g].numAddrTranslationFlushAck > 0
    /\ Retrieve(g, a)
    /\ IF LastAck(cp[g].numAddrTranslationFlushAck)
       THEN /\ SendTo(g, Cache, "reset")
            /\ SetCP(g, [cp[g] EXCEPT !.numAddrTranslationFlushAck = @ - 1,
                                      !.numCacheACK = @ + Cardinality(Cache)])
       ELSE /\ SetCP(g, [cp[g] EXCEPT !.numAddrTranslationFlushAck = @ - 1])
            /\ UNCHANGED toPart
    /\ UNCHANGED <<pmcVars, toDriver, uplink, toPMCSender, gpuVars>>

(* Faulty: the TLBs are not waited for. *)
ShootdownAnsweredAtOnce(g) ==
    /\ SendTo(g, TLB, "flush")
    /\ SetCP(g, [cp[g] EXCEPT !.numCacheACK = @ - 1, !.shootDownInProcess = FALSE])
    /\ SendToDriver(g, "shootdown")

(* processCacheFlushCausedByTLBShootdown. *)
CacheFlushCausedByTLBShootdown(g) ==
    /\ SendTo(g, TLB, "flush")
    /\ SetCP(g, [cp[g] EXCEPT !.numCacheACK = @ - 1, !.numTLBAck = @ + Cardinality(TLB)])
    /\ UNCHANGED uplink

(* The last acknowledgement belongs to the shootdown if there is one, else *)
(* to the driver's flush command.                                          *)
ProcessCacheFlushRsp(g, c) ==
    /\ fromPart[g][c] # <<>>
    /\ Head(fromPart[g][c]) \in {"flush", "reset"}
    /\ Retrieve(g, c)
    /\ IF LastAck(cp[g].numCacheACK)
       THEN IF cp[g].shootDownInProcess
            THEN CacheFlushCausedByTLBShootdown(g)
            ELSE /\ SendToDriver(g, "flush")
                 /\ SetCP(g, [cp[g] EXCEPT !.numCacheACK = @ - 1])
                 /\ UNCHANGED toPart
       ELSE /\ SetCP(g, [cp[g] EXCEPT !.numCacheACK = @ - 1])
            /\ UNCHANGED <<toPart, uplink>>
    /\ UNCHANGED <<pmcVars, toDriver, toPMCSender, gpuVars>>

ProcessTLBFlushRsp(g, t) ==
    /\ From(g, t, "flush")
    /\ Retrieve(g, t)
    /\ IF LastAck(cp[g].numTLBAck)
       THEN /\ SendToDriver(g, "shootdown")
            /\ SetCP(g, [cp[g] EXCEPT !.numTLBAck = @ - 1, !.shootDownInProcess = FALSE])
       ELSE /\ SetCP(g, [cp[g] EXCEPT !.numTLBAck = @ - 1])
            /\ UNCHANGED uplink
    /\ UNCHANGED <<pmcVars, toDriver, toPart, toPMCSender, gpuVars>>

ProcessCacheRestartRsp(g, c) ==
    /\ From(g, c, "restart")
    /\ Retrieve(g, c)
    /\ IF LastAck(cp[g].numCacheACK)
       THEN /\ SendTo(g, TLB, "restart")
            /\ SetCP(g, [cp[g] EXCEPT !.numCacheACK = @ - 1, !.numTLBAck = @ + Cardinality(TLB)])
       ELSE /\ SetCP(g, [cp[g] EXCEPT !.numCacheACK = @ - 1])
            /\ UNCHANGED toPart
    /\ UNCHANGED <<pmcVars, toDriver, uplink, toPMCSender, gpuVars>>

ProcessTLBRestartRsp(g, t) ==
    /\ From(g, t, "restart")
    /\ Retrieve(g, t)
    /\ IF LastAck(cp[g].numTLBAck)
       THEN /\ SendTo(g, AT, "restart")
            /\ SetCP(g, [cp[g] EXCEPT !.numTLBAck = @ - 1,
                                      !.numAddrTranslationRestartAck = @ + Cardinality(AT)])
       ELSE /\ SetCP(g, [cp[g] EXCEPT !.numTLBAck = @ - 1])
            /\ UNCHANGED toPart
    /\ UNCHANGED <<pmcVars, toDriver, uplink, toPMCSender, gpuVars>>

ProcessAddressTranslatorRestartRsp(g, a) ==
    /\ fromPart[g][a] # <<>>
    /\ cp[g].numAddrTranslationFlushAck <= 0
    /\ cp[g].numAddrTranslationRestartAck > 0
    /\ Retrieve(g, a)
    /\ IF LastAck(cp[g].numAddrTranslationRestartAck)
       THEN /\ SendTo(g, CU, "restart")
            /\ SetCP(g, [cp[g] EXCEPT !.numAddrTranslationRestartAck = @ - 1,
                                      !.numCUAck = @ + Cardinality(CU)])
       ELSE /\ SetCP(g, [cp[g] EXCEPT !.numAddrTranslationRestartAck = @ - 1])
            /\ UNCHANGED toPart
    /\ UNCHANGED <<pmcVars, toDriver, uplink, toPMCSender, gpuVars>>

ProcessCUPipelineRestartRsp(g, c) ==
    /\ From(g, c, "restart")
    /\ Retrieve(g, c)
    /\ SetCP(g, [cp[g] EXCEPT !.numCUAck = @ - 1])
    /\ IF LastAck(cp[g].numCUAck)
       THEN SendToDriver(g, "gpuRestart")
       ELSE UNCHANGED uplink
    /\ UNCHANGED <<pmcVars, toDriver, toPart, toPMCSender, gpuVars>>

ProcessRspFromInternal(g) ==
    \/ ProcessMemCopyRsp(g)
    \/ ProcessRDMARsp(g)
    \/ ProcessPageMigrationRsp(g)
    \/ \E c \in CU : ProcessCUPipelineFlushRsp(g, c) \/ ProcessCUPipelineRestartRsp(g, c)
    \/ \E a \in AT : ProcessAddressTranslatorFlushRsp(g, a) \/ ProcessAddressTranslatorRestartRsp(g, a)
    \/ \E c \in Cache : ProcessCacheFlushRsp(g, c) \/ ProcessCacheRestartRsp(g, c)
    \/ \E t \in TLB : ProcessTLBFlushRsp(g, t) \/ ProcessTLBRestartRsp(g, t)

(* toPMCSender.Tick: the request enters the CtrlPort of the PMC. *)
SendToPMC(g) ==
    /\ toPMCSender[g] # <<>>
    /\ ctrlPort[g] = <<>>
    /\ ctrlPort' = [ctrlPort EXCEPT ![g] = <<Head(toPMCSender[g])>>]
    /\ toPMCSender' = [toPMCSender EXCEPT ![g] = Tail(@)]
    /\ UNCHANGED <<mem, currentMigrationRequest, isHandlingPageMigration, toSendToCtrlPort,
                   numDataRspPendingForPageMigration, pullVars, serveVars, netVars, memVars,
                   toDriver, uplink, toPart, fromPart, cp, gpuVars>>

(* The PMC's response reaches the CP. *)
PMCAnswers(g) ==
    /\ SendMigrationCompleteRspToCtrlPort(g)
    /\ fromPart' = [fromPart EXCEPT ![g]["pmc"] = Append(@, "copy")]
    /\ UNCHANGED <<toDriver, uplink, toPart, toPMCSender, cp, gpuVars>>

-----------------------------------------------------------------------------
(* The other parts of the GPU. *)

HasRequest(g, p, reqs) == toPart[g][p] # <<>> /\ Head(toPart[g][p]) \in reqs

Answers(g, p) ==
    /\ toPart' = [toPart EXCEPT ![g][p] = Tail(@)]
    /\ fromPart' = [fromPart EXCEPT ![g][p] = Append(@, Head(toPart[g][p]))]

(* A compute unit, an address translator or an L1 cache stops, or goes on. *)
StopsOrContinues(g, p) ==
    /\ HasRequest(g, p, Control)
    /\ Answers(g, p)
    /\ paused' = [paused EXCEPT ![g] =
            CASE Head(toPart[g][p]) = "restart" -> @ \ {p}
              [] p \in L1 /\ Head(toPart[g][p]) = "flush" -> @
              [] OTHER -> @ \cup {p}]
    /\ UNCHANGED <<pmcVars, toDriver, uplink, toPMCSender, cp, dispatching, tlb, dirty>>

(* The L2 cache writes its dirty lines back; a reset also stops it. *)
L2Flushes(g) ==
    /\ HasRequest(g, "l2", {"flush", "reset"})
    /\ Answers(g, "l2")
    /\ mem' = [mem EXCEPT ![g] =
            [id \in PullID |-> IF dirty[g][id] = Clean THEN @[id] ELSE dirty[g][id]]]
    /\ dirty' = [dirty EXCEPT ![g] = [id \in PullID |-> Clean]]
    /\ paused' = IF Head(toPart[g]["l2"]) = "reset"
                  THEN [paused EXCEPT ![g] = @ \cup {"l2"}] ELSE paused
    /\ UNCHANGED <<migrationVars, pullVars, serveVars, netVars, memVars,
                   toDriver, uplink, toPMCSender, cp, dispatching, tlb>>

L2Restarts(g) ==
    /\ HasRequest(g, "l2", {"restart"})
    /\ Answers(g, "l2")
    /\ paused' = [paused EXCEPT ![g] = @ \ {"l2"}]
    /\ UNCHANGED <<pmcVars, toDriver, uplink, toPMCSender, cp, dispatching, tlb, dirty>>

(* A registered TLB drops those pages of the shootdown whose entry it      *)
(* finds, and stops, or goes on. The last level TLB looks for an entry in  *)
(* the set vAddrToSetIDxor7 gives, and fills the one of vAddrToSetID.      *)
TLBHandles(g, t) ==
    /\ HasRequest(g, t, {"flush", "restart"})
    /\ Answers(g, t)
    /\ IF Head(toPart[g][t]) = "flush"
       THEN /\ tlb' = [tlb EXCEPT ![g][t] =
                    [p \in Page |-> IF p \in cp[g].currShootdownRequest \cap FoundByFlush
                                   THEN NoTranslation ELSE @[p]]]
            /\ paused' = [paused EXCEPT ![g] = @ \cup {t}]
       ELSE /\ paused' = [paused EXCEPT ![g] = @ \ {t}]
            /\ UNCHANGED tlb
    /\ UNCHANGED <<pmcVars, toDriver, uplink, toPMCSender, cp, dispatching, dirty>>

PartStep(g) ==
    \/ \E p \in CU \cup AT \cup L1 : StopsOrContinues(g, p)
    \/ L2Flushes(g)
    \/ L2Restarts(g)
    \/ \E t \in TLB : TLBHandles(g, t)

CPStep(g) ==
    \/ ProcessReqFromDriver(g)
    \/ ProcessRspFromInternal(g)
    \/ SendToPMC(g)

-----------------------------------------------------------------------------
(* Properties. *)

Outstanding(g, parts, kinds) ==
    Cardinality({ p \in parts : toPart[g][p] # <<>> /\ Head(toPart[g][p]) \in kinds })
    + Cardinality({ p \in parts : fromPart[g][p] # <<>> /\ Head(fromPart[g][p]) \in kinds })

(* Every counter of acknowledgements counts the requests of its phase that *)
(* are still under way, though flushes, resets and restarts share them.    *)
AcksCounted ==
    \A g \in GPU :
        /\ cp[g].numCUAck = Outstanding(g, CU, Control)
        /\ cp[g].numAddrTranslationFlushAck = Outstanding(g, AT, {"flush"})
        /\ cp[g].numAddrTranslationRestartAck = Outstanding(g, AT, {"restart"})
        /\ cp[g].numCacheACK = Outstanding(g, Cache, Control)
        /\ cp[g].numTLBAck = Outstanding(g, TLB, Control)

(* A compute unit runs only while every other part of its GPU that serves  *)
(* it runs: it is the first to stop and the last to continue.              *)
StoppedInOrder ==
    \A g \in GPU : ~(CU \subseteq paused[g]) => paused[g] \subseteq CU \cup {"rdma"}
=============================================================================
