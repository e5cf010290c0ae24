------------------------------ MODULE GPUDriver ------------------------------
(***************************************************************************)
(* The driver (mgpusim/driver/driver.go) on top of the command processors  *)
(* and the page migration controllers. It runs the commands of a command   *)
(* queue one at a time and, when an MMU asks for it, moves pages from one  *)
(* GPU to another: it drains the RDMA engines of all GPUs, shoots down the *)
(* translations of the GPUs that use the pages, moves the pages one by     *)
(* one, and restarts what it stopped.                                      *)
(*                                                                         *)
(* An action is one of the handlers of the driver's Tick. Kernels, RDMA    *)
(* engines, DMA engines and the MMU that asks for a migration are modelled *)
(* by what they do to pages, translations and memories.                    *)
(***************************************************************************)
EXTENDS CommandProcessor, SequencesExt

CONSTANTS
    Program,       \* commands of the queue: [type, page]
    Home,          \* the GPU every page is allocated on
    LinkCap,       \* messages on the way from the driver to one CP
    MaxWrites,     \* bound: writes of the kernels
    MaxMigrations  \* bound: migrations the MMU asks for

QueueCommand == [type : {"launch", "flush", "copy"}, page : Page]

ASSUME DriverAssumption ==
    /\ IsFiniteSet(GPU) /\ IsFiniteSet(Page)
    /\ "nil" \notin Page
    /\ Program \in Seq(QueueCommand)
    /\ Home \in [Page -> GPU]
    /\ LinkCap \in Nat \ {0}
    /\ MaxWrites \in Nat
    /\ MaxMigrations \in Nat

(* enqueueFlushBeforeMemCopy: a copy that follows a kernel has a flush      *)
(* between the two.                                                        *)
ASSUME ProgramAssumption ==
    \A i, j \in DOMAIN Program :
        i < j /\ Program[i].type = "launch" /\ Program[j].type = "copy"
            => \E f \in i..j : Program[f].type = "flush"

PageMigrationReq == [to : GPU, host : GPU, pages : SUBSET Page, accessing : SUBSET GPU]

NoReq == [to |-> "nil", pages |-> {}]

DriverState ==
    [requestsToSend : Seq(Command),
     currentPageMigrationReq : PageMigrationReq \cup {NoReq},
     isCurrentlyHandlingMigrationReq : BOOLEAN,
     migrationReqToSendToCP : Seq(Command),
     isCurrentlyMigratingOnePage : Page \cup {"nil"},  \* the page, "nil" for false
     numRDMADrainACK : Int,
     numShootDownACK : Int,
     numPagesMigratingACK : Int,
     numRestartACK : Int,
     numRDMARestartACK : Int,
     toSendToMMU : BOOLEAN]

VARIABLES
    queue,      \* commands of the command queue
    isRunning,  \* CommandQueue.IsRunning
    reqs,       \* GPUs the running command waits for
    driver,     \* fields of the driver
    toMMU,      \* buffer of port ToMMU (1 message)
    pageTable,  \* GPU that holds a page
    frames,     \* the last frame a GPU has given to a page
    inflight,   \* access of a kernel, translated, in the L1 cache
    rdmaOut,    \* access of a kernel taken by the RDMA engine
    mmuWaits,   \* the request the MMU waits for; its pages are not translated
    value,      \* last value written to a chunk of a page
    writes,     \* writes the kernels have begun
    migrations

NoAccess == [id |-> "nil"]

queueVars  == <<queue, isRunning, reqs>>
accessVars == <<inflight, rdmaOut, value, writes>>
mmuVars    == <<toMMU, mmuWaits, migrations>>
tableVars  == <<pageTable, frames>>
vars       == <<pmcVars, cpVars, queueVars, driver, tableVars, accessVars, mmuVars>>

Access == [id : PullID, owner : GPU, frame : Nat, data : Data]

TypeOK ==
    /\ PMCTypeOK
    /\ CPTypeOK
    /\ queue \in Seq(QueueCommand)
    /\ isRunning \in BOOLEAN
    /\ reqs \subseteq GPU
    /\ driver \in DriverState
    /\ toMMU \in Seq(PageMigrationReq)
    /\ pageTable \in [Page -> GPU]
    /\ frames \in [GPU -> [Page -> Nat]]
    /\ inflight \in [GPU -> Access \cup {NoAccess}]
    /\ rdmaOut \in [GPU -> Access \cup {NoAccess}]
    /\ mmuWaits \in PageMigrationReq \cup {NoReq}
    /\ value \in [PullID -> Data]
    /\ writes \in 0..MaxWrites
    /\ migrations \in 0..MaxMigrations

Init ==
    /\ PMCInit
    /\ CPInit
    /\ queue = Program
    /\ isRunning = FALSE
    /\ reqs = {}
    /\ driver = [requestsToSend |-> <<>>,
                 currentPageMigrationReq |-> NoReq,
                 isCurrentlyHandlingMigrationReq |-> FALSE,
                 migrationReqToSendToCP |-> <<>>,
                 isCurrentlyMigratingOnePage |-> "nil",
                 numRDMADrainACK |-> 0,
                 numShootDownACK |-> 0,
                 numPagesMigratingACK |-> 0,
                 numRestartACK |-> 0,
                 numRDMARestartACK |-> 0,
                 toSendToMMU |-> FALSE]
    /\ toMMU = <<>>
    /\ pageTable = Home
    /\ frames = [g \in GPU |-> [p \in Page |-> 0]]
    /\ inflight = [g \in GPU |-> NoAccess]
    /\ rdmaOut = [g \in GPU |-> NoAccess]
    /\ mmuWaits = NoReq
    /\ value = [id \in PullID |-> 0]
    /\ writes = 0
    /\ migrations = 0

-----------------------------------------------------------------------------
(* Sending. *)

(* The link to a CP and the port ToDriver of the CP. *)
SendToCP(msg) ==
    /\ Len(toDriver[msg.gpu]) < LinkCap
    /\ toDriver' = [toDriver EXCEPT ![msg.gpu] = Append(@, msg)]

ToCPUnchanged ==
    UNCHANGED <<pmcVars, uplink, toPart, fromPart, toPMCSender, cp, gpuVars,
                queueVars, tableVars, accessVars, mmuVars>>

SendToGPUs ==
    /\ driver.requestsToSend # <<>>
    /\ SendToCP(Head(driver.requestsToSend))
    /\ driver' = [driver EXCEPT !.requestsToSend = Tail(@)]
    /\ ToCPUnchanged

(* One page at a time. *)
SendMigrationReqToCP ==
    /\ driver.isCurrentlyMigratingOnePage = "nil"
    /\ driver.migrationReqToSendToCP # <<>>
    /\ SendToCP(Head(driver.migrationReqToSendToCP))
    /\ driver' = [driver EXCEPT
            !.migrationReqToSendToCP = Tail(@),
            !.isCurrentlyMigratingOnePage = Head(driver.migrationReqToSendToCP).page]
    /\ ToCPUnchanged

(* The MMU takes the response at once, and translates the pages again. *)
SendToMMU ==
    /\ driver.toSendToMMU
    /\ driver' = [driver EXCEPT !.toSendToMMU = FALSE]
    /\ mmuWaits' = NoReq
    /\ UNCHANGED <<pmcVars, cpVars, queueVars, toMMU, migrations, tableVars, accessVars>>

-----------------------------------------------------------------------------
(* Commands of the queue. *)

ToEach(type, gpus) == [ i \in 1..Cardinality(gpus) |-> [type |-> type, gpu |-> SetToSeq(gpus)[i]] ]

(* A kernel is launched, and the caches are flushed, on all GPUs; a page   *)
(* is copied from the GPU the page table names now.                        *)
ProcessOneCommand ==
    /\ queue # <<>>
    /\ ~isRunning
    /\ isRunning' = TRUE
    /\ LET cmd == Head(queue)
           gpus == IF cmd.type = "copy" THEN {pageTable[cmd.page]} ELSE GPU
       IN  /\ reqs' = gpus
           /\ driver' = [driver EXCEPT !.requestsToSend = @ \o ToEach(cmd.type, gpus)]
    /\ UNCHANGED <<pmcVars, cpVars, queue, tableVars, accessVars, mmuVars>>

(* Faulty: the first answer ends the command. *)
CommandEndsAny(left) == TRUE

CommandEnds(left) == left = {}

(* processLaunchKernelReturn, processFlushReturn, processMemCopyD2HReturn. *)
(* findCommandByReq panics unless the command is the first of its queue.   *)
ProcessCommandReturn(g) ==
    /\ uplink[g] # <<>>
    /\ Head(uplink[g]) \in {"launch", "flush", "copy"}
    /\ queue # <<>>
    /\ Head(queue).type = Head(uplink[g])
    /\ g \in reqs
    /\ reqs' = reqs \ {g}
    /\ uplink' = [uplink EXCEPT ![g] = Tail(@)]
    /\ IF CommandEnds(reqs \ {g})
       THEN isRunning' = FALSE /\ queue' = Tail(queue)
       ELSE UNCHANGED <<isRunning, queue>>
    /\ UNCHANGED <<pmcVars, toDriver, toPart, fromPart, toPMCSender, cp, gpuVars,
                   driver, tableVars, accessVars, mmuVars>>

-----------------------------------------------------------------------------
(* Page migration. *)

(* parseFromMMU and initiateRDMADrain: all GPUs, accessing or not. *)
ParseFromMMU ==
    /\ ~driver.isCurrentlyHandlingMigrationReq
    /\ toMMU # <<>>
    /\ toMMU' = Tail(toMMU)
    /\ driver' = [driver EXCEPT !.currentPageMigrationReq = Head(toMMU),
                                !.isCurrentlyHandlingMigrationReq = TRUE,
                                !.requestsToSend = @ \o ToEach("drain", GPU),
                                !.numRDMADrainACK = @ + Cardinality(GPU)]
    /\ UNCHANGED <<pmcVars, cpVars, queueVars, tableVars, accessVars, mmuWaits, migrations>>

Return(g, answer) ==
    /\ uplink[g] # <<>>
    /\ Head(uplink[g]) = answer
    /\ uplink' = [uplink EXCEPT ![g] = Tail(@)]

ReturnUnchanged ==
    UNCHANGED <<pmcVars, toDriver, toPart, fromPart, toPMCSender, cp, gpuVars,
                queueVars, accessVars, mmuVars>>

Shootdowns(req) ==
    LET gpus == SetToSeq(req.accessing)
    IN  [ i \in DOMAIN gpus |-> [type |-> "shootdown", gpu |-> gpus[i], pages |-> req.pages] ]

LastAnswer(n) == n = 0

(* processRDMADrainRsp and sendShootDownReqs. *)
ProcessRDMADrainRsp(g) ==
    /\ Return(g, "drain")
    /\ LET n == driver.numRDMADrainACK - 1
           req == driver.currentPageMigrationReq
       IN  driver' = IF LastAnswer(n)
                     THEN [driver EXCEPT !.numRDMADrainACK = n,
                                         !.numShootDownACK = Cardinality(req.accessing),
                                         !.requestsToSend = @ \o Shootdowns(req)]
                     ELSE [driver EXCEPT !.numRDMADrainACK = n]
    /\ UNCHANGED tableVars
    /\ ReturnUnchanged

Migrations(req) ==
    LET pages == SetToSeq(req.pages)
    IN  [ i \in DOMAIN pages |->
            [type |-> "migrate", gpu |-> req.to, page |-> pages[i], from |-> req.host] ]

(* processShootdownCompleteRsp: with the last answer every page gets a new *)
(* frame on its new GPU and the page table points there                    *)
(* (preparePageForMigration), before a page has moved. The old frame is    *)
(* not freed.                                                              *)
ProcessShootdownCompleteRsp(g) ==
    /\ Return(g, "shootdown")
    /\ LET n == driver.numShootDownACK - 1
           req == driver.currentPageMigrationReq
       IN  IF LastAnswer(n)
           THEN /\ driver' = [driver EXCEPT !.numShootDownACK = n,
                                            !.numPagesMigratingACK = @ + Cardinality(req.pages),
                                            !.migrationReqToSendToCP = @ \o Migrations(req)]
                /\ pageTable' = [p \in Page |-> IF p \in req.pages THEN req.to ELSE pageTable[p]]
                /\ frames' = [frames EXCEPT ![req.to] =
                        [p \in Page |-> IF p \in req.pages THEN @[p] + 1 ELSE @[p]]]
           ELSE /\ driver' = [driver EXCEPT !.numShootDownACK = n]
                /\ UNCHANGED tableVars
    /\ ReturnUnchanged

(* processPageMigrationRspFromCP, prepareGPURestartReqs and                *)
(* preparePageMigrationRspToMMU.                                           *)
ProcessPageMigrationRspFromCP(g) ==
    /\ Return(g, "migrate")
    /\ LET n == driver.numPagesMigratingACK - 1
           req == driver.currentPageMigrationReq
       IN  driver' = IF LastAnswer(n)
                     THEN [driver EXCEPT
                              !.numPagesMigratingACK = n,
                              !.isCurrentlyMigratingOnePage = "nil",
                              !.requestsToSend = @ \o ToEach("gpuRestart", req.accessing),
                              !.numRestartACK = @ + Cardinality(req.accessing),
                              !.toSendToMMU = TRUE]
                     ELSE [driver EXCEPT !.numPagesMigratingACK = n,
                                         !.isCurrentlyMigratingOnePage = "nil"]
    /\ UNCHANGED tableVars
    /\ ReturnUnchanged

(* Faulty: the RDMA engines continue with the first GPU that restarts. *)
HandleGPURestartRspEarly(g) ==
    /\ Return(g, "gpuRestart")
    /\ driver' = [driver EXCEPT !.numRestartACK = @ - 1,
                                !.requestsToSend = @ \o ToEach("rdmaRestart", GPU),
                                !.numRDMARestartACK = @ + Cardinality(GPU)]
    /\ UNCHANGED tableVars
    /\ ReturnUnchanged

(* handleGPURestartRsp and prepareRDMARestartReqs. *)
HandleGPURestartRsp(g) ==
    /\ Return(g, "gpuRestart")
    /\ LET n == driver.numRestartACK - 1
       IN  driver' = IF LastAnswer(n)
                     THEN [driver EXCEPT !.numRestartACK = n,
                                         !.requestsToSend = @ \o ToEach("rdmaRestart", GPU),
                                         !.numRDMARestartACK = @ + Cardinality(GPU)]
                     ELSE [driver EXCEPT !.numRestartACK = n]
    /\ UNCHANGED tableVars
    /\ ReturnUnchanged

ProcessRDMARestartRspToDriver(g) ==
    /\ Return(g, "rdmaRestart")
    /\ LET n == driver.numRDMARestartACK - 1
       IN  driver' = IF LastAnswer(n)
                     THEN [driver EXCEPT !.numRDMARestartACK = n,
                                         !.currentPageMigrationReq = NoReq,
                                         !.isCurrentlyHandlingMigrationReq = FALSE]
                     ELSE [driver EXCEPT !.numRDMARestartACK = n]
    /\ UNCHANGED tableVars
    /\ ReturnUnchanged

DriverStep ==
    \/ SendToGPUs
    \/ SendToMMU
    \/ SendMigrationReqToCP
    \/ \E g \in GPU :
        \/ ProcessCommandReturn(g)
        \/ ProcessRDMADrainRsp(g)
        \/ ProcessShootdownCompleteRsp(g)
        \/ ProcessPageMigrationRspFromCP(g)
        \/ HandleGPURestartRsp(g)
        \/ ProcessRDMARestartRspToDriver(g)
    \/ ProcessOneCommand
    \/ ParseFromMMU

-----------------------------------------------------------------------------
(* The RDMA and DMA engines of a GPU. *)

(* The RDMA engine takes no more accesses from the L1 caches and answers   *)
(* when those it took are done.                                            *)
RDMAPauses(g) ==
    /\ HasRequest(g, "rdma", {"flush"})
    /\ "rdma" \notin paused[g]
    /\ paused' = [paused EXCEPT ![g] = @ \cup {"rdma"}]
    /\ UNCHANGED <<pmcVars, portVars, cp, dispatching, tlb, dirty,
                   queueVars, driver, tableVars, accessVars, mmuVars>>

RDMADrained(g) ==
    /\ HasRequest(g, "rdma", {"flush"})
    /\ "rdma" \in paused[g]
    /\ rdmaOut[g] = NoAccess
    /\ Answers(g, "rdma")
    /\ UNCHANGED <<pmcVars, toDriver, uplink, toPMCSender, cp, gpuVars,
                   queueVars, driver, tableVars, accessVars, mmuVars>>

RDMARestarts(g) ==
    /\ HasRequest(g, "rdma", {"restart"})
    /\ Answers(g, "rdma")
    /\ paused' = [paused EXCEPT ![g] = @ \ {"rdma"}]
    /\ UNCHANGED <<pmcVars, toDriver, uplink, toPMCSender, cp, dispatching, tlb, dirty,
                   queueVars, driver, tableVars, accessVars, mmuVars>>

(* The DMA engine reads the page from the memory of its GPU. *)
DMACopies(g) ==
    /\ HasRequest(g, "dma", {"copy"})
    /\ Answers(g, "dma")
    /\ UNCHANGED <<pmcVars, toDriver, uplink, toPMCSender, cp, gpuVars,
                   queueVars, driver, tableVars, accessVars, mmuVars>>

-----------------------------------------------------------------------------
(* Kernels: an access is translated by the TLBs of its GPU, or by the MMU  *)
(* through the page table, waits in the L1 cache, and is done by the L2    *)
(* cache of the GPU it is addressed to, reached through the RDMA engines.  *)
(* Every access here is a write.                                           *)

Running(g, parts) == ~(parts \subseteq paused[g])

TableEntry(p) == [owner |-> pageTable[p], frame |-> frames[pageTable[p]][p]]

(* The unregistered TLB a kernel asks first has the page: it answers,      *)
(* whatever the registered ones do.                                        *)
TLBHit(g, u, p, tr) ==
    /\ tr = tlb[g][u][p]
    /\ UNCHANGED tlb

(* It has not, or no longer: a registered TLB answers, or the MMU, which   *)
(* does not translate the pages it has asked to move.                      *)
TLBMiss(g, u, p, tr) ==
    \E t \in TLB :
        /\ t \notin paused[g]
        /\ \/ tr = tlb[g][t][p]
           \/ tr = TableEntry(p) /\ p \notin mmuWaits.pages
        /\ tlb' = [tlb EXCEPT ![g][u][p] = tr, ![g][t][p] = tr]

Translate(g, u, id) ==
    /\ dispatching[g]
    /\ writes < MaxWrites
    /\ Running(g, CU)
    /\ Running(g, AT)
    /\ inflight[g] = NoAccess
    /\ \E tr \in {tlb[g][t][id[1]] : t \in AnyTLB} \cup {TableEntry(id[1])} :
        /\ tr # NoTranslation
        /\ TLBHit(g, u, id[1], tr) \/ TLBMiss(g, u, id[1], tr)
        /\ inflight' = [inflight EXCEPT ![g] =
                [id |-> id, owner |-> tr.owner, frame |-> tr.frame, data |-> writes + 1]]
    /\ writes' = writes + 1
    /\ UNCHANGED <<pmcVars, portVars, cp, dispatching, paused, dirty,
                   queueVars, driver, tableVars, rdmaOut, value, mmuVars>>

(* The L2 cache of the owner does the write, at the address it was given.  *)
(* Only a write to the frame the page table names is one to the page. The  *)
(* memories and caches of the model have the last frame of every GPU: what *)
(* is written to older ones nobody sees.                                   *)
L2Writes(a) ==
    LET p == a.id[1]
        lands == a.frame = frames[a.owner][p]
    IN  /\ "l2" \notin paused[a.owner]
        /\ dirty' = IF lands THEN [dirty EXCEPT ![a.owner][a.id] = a.data] ELSE dirty
        /\ value' = IF lands /\ a.owner = pageTable[p]
                    THEN [value EXCEPT ![a.id] = a.data] ELSE value

LocalWrite(g) ==
    /\ inflight[g] # NoAccess
    /\ inflight[g].owner = g
    /\ Running(g, L1)
    /\ L2Writes(inflight[g])
    /\ inflight' = [inflight EXCEPT ![g] = NoAccess]
    /\ UNCHANGED <<pmcVars, portVars, cp, dispatching, paused, tlb,
                   queueVars, driver, tableVars, rdmaOut, writes, mmuVars>>

RemoteRequest(g) ==
    /\ inflight[g] # NoAccess
    /\ inflight[g].owner # g
    /\ rdmaOut[g] = NoAccess
    /\ Running(g, L1)
    /\ "rdma" \notin paused[g]
    /\ rdmaOut' = [rdmaOut EXCEPT ![g] = inflight[g]]
    /\ inflight' = [inflight EXCEPT ![g] = NoAccess]
    /\ UNCHANGED <<pmcVars, cpVars, queueVars, driver, tableVars, value, writes, mmuVars>>

RemoteWrite(g) ==
    /\ rdmaOut[g] # NoAccess
    /\ L2Writes(rdmaOut[g])
    /\ rdmaOut' = [rdmaOut EXCEPT ![g] = NoAccess]
    /\ UNCHANGED <<pmcVars, portVars, cp, dispatching, paused, tlb,
                   queueVars, driver, tableVars, inflight, writes, mmuVars>>

(* A kernel ends when its accesses are done, the one that made the MMU ask *)
(* for a migration included; the dispatcher answers the driver.            *)
KernelDone(g) ==
    /\ dispatching[g]
    /\ Running(g, CU)
    /\ inflight[g] = NoAccess
    /\ rdmaOut[g] = NoAccess
    /\ mmuWaits.to # g
    /\ dispatching' = [dispatching EXCEPT ![g] = FALSE]
    /\ SendToDriver(g, "launch")
    /\ UNCHANGED <<pmcVars, toDriver, toPart, fromPart, toPMCSender, cp, paused, tlb, dirty,
                   queueVars, driver, tableVars, accessVars, mmuVars>>

(* A kernel of GPU g uses pages another GPU holds: the MMU asks to move    *)
(* them. It names GPUs that use them, the two of them included; the        *)
(* migration relies on no others.                                          *)
MMURequests(g, host, pages) ==
    /\ migrations < MaxMigrations
    /\ mmuWaits = NoReq
    /\ toMMU = <<>>
    /\ dispatching[g]
    /\ Running(g, CU)
    /\ g # host
    /\ pages # {}
    /\ \A p \in pages : pageTable[p] = host
    /\ \E others \in SUBSET (GPU \ {g, host}) :
        LET req == [to |-> g, host |-> host, pages |-> pages, accessing |-> {g, host} \cup others]
        IN  toMMU' = <<req>> /\ mmuWaits' = req
    /\ migrations' = migrations + 1
    /\ UNCHANGED <<pmcVars, cpVars, queueVars, driver, tableVars, accessVars>>

-----------------------------------------------------------------------------

ComposedUnchanged == UNCHANGED <<queueVars, driver, tableVars, mmuVars>>

(* A stopped L1 cache has dropped the accesses it held. *)
GPUStep(g) ==
    \/ PMCStep(g) /\ UNCHANGED <<cpVars, accessVars>> /\ ComposedUnchanged
    \/ (CPStep(g) \/ PMCAnswers(g)) /\ UNCHANGED accessVars /\ ComposedUnchanged
    \/ /\ PartStep(g)
       /\ inflight' = IF L1 \subseteq paused'[g]
                        THEN [inflight EXCEPT ![g] = NoAccess] ELSE inflight
       /\ UNCHANGED <<rdmaOut, value, writes>>
       /\ ComposedUnchanged
    \/ RDMAPauses(g) \/ RDMADrained(g) \/ RDMARestarts(g) \/ DMACopies(g)

KernelEnds(g) ==
    \/ LocalWrite(g)
    \/ RemoteRequest(g)
    \/ RemoteWrite(g)
    \/ KernelDone(g)

System == DriverStep \/ \E g \in GPU : GPUStep(g) \/ KernelEnds(g)

Kernels ==
    \/ \E g \in GPU, u \in UnregisteredTLB, id \in PullID : Translate(g, u, id)
    \/ \E g, host \in GPU, pages \in SUBSET Page : MMURequests(g, host, pages)

Finished ==
    /\ queue = <<>>
    /\ ~driver.isCurrentlyHandlingMigrationReq
    /\ UNCHANGED vars

Next == System \/ Kernels \/ Finished

Spec == Init /\ [][Next]_vars /\ WF_vars(System)

-----------------------------------------------------------------------------
(* Properties. *)

(* What a read of a chunk on GPU g returns: the L2 cache before memory. *)
Holds(g, id) == IF dirty[g][id] = Clean THEN mem[g][id] ELSE dirty[g][id]

(* Pages the driver has moved in the page table and not yet been told that *)
(* their data moved.                                                       *)
Moving ==
    { p \in Page :
        \/ driver.isCurrentlyMigratingOnePage = p
        \/ \E i \in DOMAIN driver.migrationReqToSendToCP : driver.migrationReqToSendToCP[i].page = p }

(* No write that reaches a page is lost in a migration: the GPU the page   *)
(* table names holds the last value written to every chunk, and while the  *)
(* page moves the GPU it comes from does. Kernels that go on with an old   *)
(* translation write to frames the page has left, before and while it      *)
(* comes back: these writes are not the page's and never get into it.      *)
PageIntact ==
    \A id \in PullID :
        LET p == id[1]
            g == IF p \in Moving THEN driver.currentPageMigrationReq.host ELSE pageTable[p]
        IN  Holds(g, id) = value[id]

(* A copy to the host reads the last values written: whenever a DMA engine *)
(* is about to copy a page its memory is up to date, though the copy was   *)
(* addressed when the command started.                                     *)
CopyFresh ==
    \A g \in GPU :
        HasRequest(g, "dma", {"copy"})
            => \A c \in Chunk : mem[g][<<Head(queue).page, c>>] = value[<<Head(queue).page, c>>]

(* While a page moves nobody reaches its old or its new frame, whatever    *)
(* translations are left: on the GPUs of the migration, source and target  *)
(* among them, every part has stopped and no access waits; the RDMA        *)
(* engines of all GPUs are drained. The registered TLBs have dropped the   *)
(* entries their flush finds.                                              *)
MigrationQuiesced ==
    Moving # {} =>
        /\ \A g \in driver.currentPageMigrationReq.accessing :
            /\ CU \cup AT \cup Cache \cup TLB \subseteq paused[g]
            /\ inflight[g] = NoAccess
            /\ \A t \in TLB, p \in Moving \cap FoundByFlush : tlb[g][t][p] = NoTranslation
        /\ \A g \in GPU : "rdma" \in paused[g] /\ rdmaOut[g] = NoAccess

(* "ShootDownCommand requests the GPU to perform a TLB shootdown and       *)
(* invalidate the corresponding PTE's" (driverprotocol.go): while a page   *)
(* moves no TLB of a GPU of the migration has its translation. It does not *)
(* hold: connectCPWithTLBs registers the last level TLBs only.             *)
Invalidated ==
    Moving # {} =>
        \A g \in driver.currentPageMigrationReq.accessing, t \in AnyTLB, p \in Moving :
            tlb[g][t][p] = NoTranslation

(* Outside a migration everything runs: a migration is over only when all  *)
(* it stopped has restarted, on every GPU.                                 *)
RestartedAtEnd ==
    ~driver.isCurrentlyHandlingMigrationReq => \A g \in GPU : paused[g] = {}

(* A migration ends, and the program ends: nobody waits forever for an     *)
(* acknowledgement that was counted and not sent, or sent and not counted. *)
MigrationEnds ==
    /\ mmuWaits # NoReq ~> mmuWaits = NoReq
    /\ <>(queue = <<>>)
=============================================================================
