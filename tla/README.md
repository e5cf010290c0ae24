# Verification of the CachePWQ simulator

CachePWQ is a multi-chip GPU simulator built from the Akita engine
(`src/simulator/akita`), memory components (`mem`), a GPU model (`mgpusim`) and a
network (`noc`). What is new in it is the handling of page walks: page walk caches,
several MMU designs, and the *NBWalker* design, in which a page walker hands part of
its walks to the L1 vector caches. This directory holds TLA+ models of its protocols,
the TLC runs that check them, and proofs checked by TLAPS.

## The system

| Component | State | Operations | Interacts through |
|---|---|---|---|
| Tick scheduling (`akita/ticker.go`) | time of the latest tick asked for | `TickNow`, `TickLater`, `Handle` | events in the engine |
| Serial engine (`akita/serialengine.go`) | primary and secondary event queues, time | `Schedule`, `Run` | calls every handler |
| Port, direct connection (`akita/port.go`, `directconnection.go`) | bounded buffers, busy flags, round-robin pointer | `Send`, `Recv`, `Retrieve`, `NotifyAvailable`, `Tick` | wake-ups (`NotifyRecv`, `NotifyPortFree`) |
| Ideal memory controller | transactions in flight, storage | `Tick`, respond events | port, events |
| Memory access agent | pending requests, known values | `Tick` | port |
| NBWalker MMU (`mem/vm/mmu/nbwalker`) | two queues, two slots per walker, `topSender`, counter | `Tick` of the MMU and of each walker | ports to the last level TLB, memory, L1 caches, page walk cache |
| Page walk cache (`mem/cache/writeback/pagewalkcache*.go`) | directory, pipeline, senders | lookup, write | TLB (lookups), MMU (writes) |
| Last level TLB (`mem/vm/tlb/tlb_with_pwc.go`) | sets, MSHR, requests in the page walk cache | lookup, miss, fill, flush, restart | L2 TLBs, page walk cache, MMUs, command processor |
| NBWalker L1 cache (`mgpusim/timing/caches/nbwalker`) | L1 cache plus walker port, walker MSHR | walker stage, fetch, respond, flush | MMU, L2 |
| Page table (`mem/device/pagetable.go`) | tree per process | insert, remove, find, address arithmetic | called by all of the above |
| RDMA engine (`mgpusim/rdma`) | transactions from inside and outside, drain state | forward requests and responses, drain, restart | L1 and L2 caches, the engines of other GPUs, command processor |
| Page migration controller (`mgpusim/pagemigrationcontroller`) | the migration, chunks to pull, reads and writes under way | pull, read, write, complete | other controllers, memory, command processor |
| Command processor (`mgpusim/timing/cp`) | counters of acknowledgements, shootdown, migration | kernels, copies, flush, shootdown, restart, migration | driver, and every part of its GPU |
| Driver (`mgpusim/driver`) | contexts, command queues, the migration in hand | API calls of host threads, `Tick` | host threads, engine, command processors, MMU |
| L1 and L2 TLBs, address translators | translations, requests under way | lookup, fill; flush and restart of the translators | kernels, last level TLB, command processor (translators only) |
| Other MMUs, other caches, networks | see `PROJECT.json` | | |

How commands travel: a host thread puts commands into a command queue and waits until it is empty; the
driver takes one command of each queue at a time and sends it to the command processors of the GPUs, which
hand it to dispatchers, DMA engines and caches and count their acknowledgements. To move a page, the driver
drains the RDMA engines, has the command processors stop the GPUs that use the page and drop its
translations in the TLBs they know, has the page migration controllers copy it, and restarts everything.

How a translation travels: an L2 TLB miss enters the last level TLB; on a miss there the
TLB asks the page walk cache, adds what it answered to a request to the MMU, and the MMU
walks the page table from there. A request waits in the MMU's request queue until a walker
has a slot. The walk in a walker's *primary* slot reads one page table entry after the other
from memory. A walk in the *secondary* slot is sent to an L1 vector cache and forgotten by
the MMU; it comes back with the entry, waits in the response queue, and takes whatever
slot is free. Each entry read on the way is written to the page walk cache.

What is hard here, and therefore what the properties are about: every component sleeps
until another one wakes it, so a missed wake-up stops the simulation silently; all buffers are
bounded, so every send may be refused; walks change hands between five places; counters
are raised in one handler and lowered in another; and a walk's position in the page
table is kept in different ways on the memory and the L1 path. Around the page walks, phases of
acknowledgements share counters, a flush meets requests under way, several goroutines share queues, flags and
locks, and a page has two places while it moves. `PROJECT.json` lists these
hazards at their lines, including those of components that are not modelled yet.

What makes each component correct:

* engine, ports, connection: whoever has work has an event or is registered with the one
  who will create it; no message is lost, duplicated or delivered elsewhere; the engine
  runs dry only when all work is done;
* memory: a read returns a value written before;
* MMU: each request is answered once, with the page the table holds, whatever the path;
  no walk is lost between slots, queues and caches; no panic of the code is reached;
* page walk cache: returns only entries of the page table; never sends into a full buffer;
* TLB: each request of an L2 TLB is answered once, also across flush and restart;
* L1 cache: every walk it takes comes back with the right entry; the walker MSHR's bits
  match the fetches under way;
* RDMA engines: each access is done and answered once; drained engines have nothing under way;
* migration: nobody reaches a page while it moves, no write that reaches the page is lost, everything restarts;
* driver: commands of a queue run one after the other, a drain returns when they are done, a copy
  finds the results of the kernels before it.

## Modules

| Module | Models |
|---|---|
| `AkitaTicker` | `TickScheduler`: operators on a ticker record |
| `AkitaMessaging` | engine, ports, connection, memory controller and agents, on the system of `mem/acceptancetests/idealmemcontroller` |
| `AkitaMessaging_proofs` | theorems about `AkitaMessaging` |
| `MCAkitaMessaging` | its instance for TLC |
| `TranslationService` | what the last level TLB expects of an MMU |
| `NBWalkerMMU` | the NBWalker MMU with its environment; implements `TranslationService` |
| `MCNBWalkerMMU` | its instances for TLC |
| `NBWalkerMMU_proofs` | theorems about `NBWalkerMMU` |
| `CountingFacts` | lemmas the proofs share: what a queue contains after `Append`, `Tail` and `RemoveAt`, and how often something occurs in a queue, a set or the slots |
| `PageMigrationController` | the page migration controllers of the GPUs |
| `CommandProcessor` | extends it with the command processors and the parts of their GPUs |
| `GPUDriver` | extends that with the driver, kernels, DMA and the MMU that asks for migrations |
| `MCGPUDriver` | its instances for TLC |
| `CommandProcessor_proofs` | lemmas about the GPUs in `GPUDriver`: what each stage of shootdown, restart and flush means, and what every step does to it |
| `GPUDriver_proofs` | theorems about `GPUDriver`, `CommandProcessor` and `PageMigrationController` |
| `DriverThreads` | host threads, `runAsync`, the goroutines that run the engine |
| `MCDriverThreads` | its instances for TLC |
| `DriverThreads_proofs` | theorems about `DriverThreads` |
| `RDMAEngine` | the RDMA engines; implements `RemoteAccess` |
| `RemoteAccess` | what they promise |
| `MCRDMAEngine` | its instance for TLC |
| `RDMAEngine_proofs` | theorems about `RDMAEngine` |
| `PageWalkCache` | the page walk cache |
| `LastLevelTLB` | extends it with the last level TLB, between L2 TLBs and MMUs |
| `MCLastLevelTLB` | its instance for TLC |
| `LastLevelTLB_proofs` | theorems about `LastLevelTLB` and `PageWalkCache` |

### AkitaMessaging

One action is one event of the engine: the tick of an agent (`AgentTickNoSend`,
`AgentTickSendFails`, `AgentTickSends`, by how `Send` ends), the tick of the controller
(`MemTick`), a respond event (`HandleRespond`, or `RetryRespond` when the send is refused),
the advance of time. The connection's `Tick` has nested loops; it is one action per iteration
(`ConnTick`, `Forward`, `LeaveEnd`), and `running` keeps all other events out until the loops are
done. Which of the events of one cycle runs first is left open, except that secondary events
(the connection's) run after the primary ones: the event queue is a heap and promises no more.

Times are kept relative to now: 0, 1 (next cycle) or `Past`. All frequencies are equal, as in the
test. The data of a message is a value of a small set; addresses and data are model values. Agents
own disjoint addresses: the storage is a function of agent and address. An agent's
random choices are nondeterministic. The test has one agent; the model has any
number, so that the ports of the controller and the connection are contended.
Two reads or writes of one agent never overlap at an address (`isAddressInPendingReq`).

`RetryRespond` does not happen in the run: an agent takes a message in every tick, so with one
controller and equal frequencies the controller's end of the connection never fills up. The code has it, so
`RespondOrRetry` has both branches, and the proofs cover both.

### NBWalkerMMU

`Tick` calls its stages one after the other, and nothing else runs in between. Each stage is an
action, `stage` says which is next, and all other actions wait for `stage = "idle"`. A walker
is a ticking component of its own; its tick is `WalkPrimary`, `WalkSecondary` or `WalkerSleeps`,
and `awake` says that it has a tick scheduled.

An address is the path of page table indices that leads to it: the page number of a page table
node is the path to the node, and the address of an entry is that path with one more index. This keeps
exactly what the address arithmetic (`addOffset`, `nextLevel`, `MoveFromVAddrToLevel`) can get wrong.
What is read outside the page table is `Junk`.

The page walk cache is the set of entries ever written to it. A lookup may return any matching one or nothing, since
an entry may have been evicted, or its write refused. The level of a fill goes
through two bits (`% 4`), as in the code. The memory answers reads, and the L1 caches answer walks, in any order.
A panic of the code is a missing step, so a run that checks for deadlock also shows that none is
reached, and `PagesMatch` and `ReadsAwaited` name the two panics that matter.

Left out because nothing depends on it: `translationSender` (never given a message), the stage
`parseFromPageWalkCache` (throws away write acknowledgements), virtual addresses of pages already
rearranged, statistics and tracing. `MaxLevel` bounds how far past the page table a walk may run.

### TranslationService

A request is waiting from `Ask` to `Answer`. The refinement maps requests in the MMU's queues
and walks anywhere to `waiting`, and responses in `topSender` and in the connection to
`answered`. It says that no request is answered twice or dropped, and that each one is eventually answered.

### PageMigrationController, CommandProcessor, GPUDriver

Three layers, each extending the one below, and composed in `GPUDriver!Next`. An action is one handler of a
component's `Tick`, with the `process...` function that consumes its result in the same tick; handlers of one
tick may so be interleaved with other components, which allows more orders than the code has.

A page consists of chunks (`Chunk`), which are pulled, read and written one by one. `mem` and `dirty` say which
version of a chunk a GPU has in memory and in its L2 caches, `value` which version was written to the page last. The parts of
a GPU (`CU`, `AT`, `L1`, the L2
cache, `TLB`, RDMA engine, DMA engine) take requests of the command processor, stop or go on, and answer; a part that is
reset drops what it holds. The command queue holds kernels, flushes and copies to the host. As in the code, a copy's address is
translated when the command starts.

A GPU has two kinds of TLBs. Those in `TLB` are registered with the command processor, which flushes and restarts them: in the builders
these are the last level TLBs only (`builders/common.go:795-819`; the loops over the L1 TLBs are commented out). A flush
removes only the pages in `FoundByFlush`, because `handleTLBFlush` looks for an entry in the set of `vAddrToSetIDxor7`
(`tlb_with_pwc.go:758`) and lookup and fill use `vAddrToSetID`. Those in `UnregisteredTLB` are the L1 and L2 TLBs, which a kernel asks first
and no shootdown reaches; an L1 TLB and the L2 TLB behind it are one, since what either keeps has the same effect.
A translation (`Translation`) is the GPU that holds the page and the frame it has there; every migration gives the page a new frame (`frames`
counts those a GPU has given it). A kernel (`Translate`) uses what its unregistered TLB has, or else what a
registered one has, or else the page table; a TLB may at any time have evicted its entry, so none has to answer. The
access is then under way (`inflight`), at the RDMA engines (`rdmaOut`), or done. Every access is a write, and `MaxWrites`
bounds those begun. A write through an old translation goes to an old frame; no page is there any more, and the
model keeps no memory for such frames.

The properties must be read with that. Stale writes exist, and they are lost to the page: this is one of the defects below, and
`Invalidated` is the claim it refutes. What holds nevertheless, and needs every phase of the protocol, is that a stale translation
does no harm beyond that: `MigrationQuiesced` says that nobody reaches the old or the new frame while the page moves, although the
translations are still there, because everything that could use one has stopped; `PageIntact`, that every write that reaches the
page survives its migrations, and that none that misses it gets into it, also not by being pulled along when the page comes back;
`CopyFresh`, that the host gets the page's values. None of them says that a kernel's writes reach the page after a migration.

Assumed about code outside the modules: the MMU names as accessing GPUs at least the one that asks and the one that
holds the page (`MMURequests` adds any others), and does not answer for pages that move. No component of this build sends the driver
a `PageMigrationReqToDriver` (the connection is commented out, `mcmgpu.go:134`), so
`MMURequests` is what such an MMU would do. Left out: several command queues (see `DriverThreads`), copies to the device,
the copy of the page table, kernels on some of the GPUs only, requests waiting in TLBs and MMUs (a lookup is one step), remote translation
units, switching of the TLBs' index function, statistics.

### DriverThreads

One process per host thread, `runAsync`, and one per goroutine started by `go d.runEngine()`. A host thread calls
`EnqueueLaunchKernel`, `EnqueueMemCopyD2H` and `DrainCommandQueue` in the order of `Program`; `MemCopyD2H` and `LaunchKernel` are
such calls followed by a drain, on a queue of their own. Actions end wherever another goroutine may interfere: at each
lock, channel operation, and access to a shared variable, so `l2Dirty` is read in one step and the queue looked through in
another. `SerialEngine.Run` is lock, event, unlock; the engine's mutexes and `pauseLock` are variables.
`Notify` reaches a thread only when it waits (`select` with `default`), and is lost otherwise. One event of the driver is one
action, since the goroutine holds `pauseLock`; the driver's calls to a queue inside of it take that queue's mutex once per
call, and no thread holds one of them across actions.

The GPUs are one event per command, which comes at any time. `unflushed` is what the caches hold of the kernels
of a queue.

### RDMAEngine, RemoteAccess

Two ports and two links per engine, one for requests and one for responses, all bounded; an action handles one message. An
access is one identity through all of its copies; the engines' own message IDs are `Outside(id)` and
`Inside(id)`, and transactions are found by them as in `findTransactionByRspToID`. The L2 caches answer in any
order. The controller is driver and command processor: it drains all engines, and restarts them when all have answered.
In `RemoteAccess` an access is new, accepted, done, answered; engines stop only when none is accepted or done.

Left out: `processReqFromL2` and `processFromPwPort`, because no L2 cache and no `PwPort` sends to an engine in
the builders' wiring (`builders/common.go:858-869`). The command processor drains the GPU's `rdmaEngine` (`common.go:727`), while
the accesses between chiplets go through the `chipRdmaEngine`s (`common.go:666`); the model drains the engines that are used.

### PageWalkCache, LastLevelTLB

These are the components that the `numa` builder uses (`mgpusim/builders/numa.go:418-470`). `PageWalkCache` has
the two parsers, the pipeline, the directory stage (hit and miss, read and write, replacement in LRU order) and the bank stage. `LastLevelTLB`
has each stage of the TLB's `Tick`, the MSHR with its entries by page, the sets, the list of reads in the page walk cache, flush and
restart. A pipeline is a set of bounded size: its lanes are independent, so requests may overtake each other. Tags
are `Masked` addresses, so that two pages, also of two processes, share the first nodes of their walks. `SetOf` and `FlushSetOf` are the two index functions that
the code uses for one and the same set (`vAddrToSetID`, and `vAddrToSetIDxor7` in the flush), in the model any two functions.

A port that refuses a send is a stage that waits. The sender of the page walk cache, the connection and the TLB's port
are one queue, `dataReady`; the bank's buffer and its current transaction are one queue. The MMUs are one set of requests,
answered with the right page, and write nodes to the page walk cache meanwhile. The page table does not change here; what stale
translations do when a page moves is the subject of `GPUDriver`. Left out: the choice of the MMU (`dispatcher`; with
policy `leasefirst` its counter rises also when the send is refused), acknowledgements of writes, the list of transactions in flight of
the page walk cache (it is never emptied for misses, and never read), the limits of its senders, switching of the index function, statistics.

A flush empties the MSHR and leaves the fetches alone. When an answer finds no entry, the code panics
(`tlb_with_pwc.go:652`); the model stops there with `panicked`.

## Runs

| Run | Instance | Shows |
|---|---|---|
| `messaging` | 2 agents, 2 addresses and 2 values each, 2 writes and 1 read each, all buffers 1, latency 2, 2 transactions | type, no lost wake-up, no lost request, quiescence, read values, everything served |
| `nbwalker` | 2 walkers, 3 requests, `topSender` 3, all other buffers 1 | type, every request in one place, counter, reads awaited, walkers awake, walks in the tree, right pages, refinement of `TranslationService` with liveness, no deadlock |
| `nbwalker_full` | 1 walker, 3 requests, `topSender` 1, walks up to level 6 | `Bookkeeping`: each request in one place, counted, its reads awaited, its walker awake, even while walks run past the last level |
| `nbwalker_panic` | as `nbwalker_full` | expected violation of `PagesMatch`, see below |
| `migration` | 2 GPUs, 2 pages of 1 chunk; queue of kernel, flush, copy; 1 write, 1 migration of one page or two | acknowledgements counted, order of stops and restarts, migrations and program end |
| `migration_back` | 1 page of 2 chunks, 2 migrations (there and back), 2 writes | type, each chunk where it was pulled, nobody reaches a moving page, no write to the page lost, copies fresh, everything restarted, no deadlock |
| `migration_shootdown` | as `migration` | expected violation of `Invalidated`, see below |
| `driver_threads` | 2 host threads, a context each | type, one command of a queue at a time, one goroutine in the engine, drains return only when done, signals heard |
| `driver_drain` | 1 host thread | expected violation of `DrainReturns`, see below |
| `driver_copy` | 2 host threads in one context | expected violation of `CopyFresh`, see below |
| `rdma` | 2 engines, 3 accesses in both directions, ports 2, links 1, 2 drains | type, responses find their transactions, drained engines are empty, no lost restart, drains end, refinement of `RemoteAccess` |
| `tlb` | 3 requests, 2 pages of 2 processes in one set of 1 way, 1 block of page walk cache, MSHR 2, 2 writes, 1 flush | type, each request in one place, each miss has a fetch, right pages and nodes, every request answered or dropped |

Bounds. Buffers of one message make every buffer full in the runs, which is when
refusals, retries and busy flags matter; larger ones only delay that. Two agents compete for one controller; a third
adds no new kind of contention. Of the three translations two share their last page table
node and one differs at the second level, so walks share entries of the page walk cache at each level.
Two walkers are needed for the choice between a free primary slot and a free secondary slot. `nbwalker`
gives `topSender` room for all requests: this is the assumption under which the MMU works. The other two
runs of the MMU drop it.

In the three migration runs one GPU is the source and one the target, which is all that a migration distinguishes; one part of
each kind per GPU is enough for a phase to have to wait, and the cache phases have two (`L1` and the L2 cache). Two pages make the driver
send one migration after the other; two chunks make chunks overtake each other; a migration there and
back finds what the first one left behind, and with two writes one can be made through the translation that the first migration left in
a TLB while the page has come back to another frame of the same GPU. Writes to different chunks do not interact, so two are enough. The TLBs: one
registered, one not, per GPU; of the pages of `migration` the flush finds one and not the other (the proofs have any set). In `rdma` two accesses of one engine may overtake each other in the L2
cache and meet one of the other engine; the second drain meets the state left by the first. Instances
with four accesses and ports of one and of two messages were run as well. In `tlb` two requests share a page, so that one
waits in the MSHR for the other, and the third evicts the page and the block of the others. One flush and restart meet requests in every stage.
An instance of four requests for three pages was run for the invariants.

Deadlock is not checked where the program may stop: `messaging` (`Run` returns when no event is left;
`QuiescentMeansServed` is checked instead), `nbwalker_full` and `nbwalker_panic` (the MMU may panic), the runs of `DriverThreads`
(threads end, or hang as `driver_drain` shows), and `migration`, where `MigrationEnds` says more. The
NBWalker MMU ticks for ever; in the other runs the last action of `Next` is a stutter step in the states in which all is
done, or the simulator has panicked, so that every other stop is reported.

Fairness. `AkitaMessaging`: `WF(Next)`, since `Run` executes events while there are any.
`NBWalkerMMU`: `WF(Tick)`, because the MMU's `Tick` returns true and so schedules itself again each
cycle, and `SF(OtherEvent)`, because the engine runs every event of a cycle before the next `Tick`. No fairness is assumed of the TLB's
sending. Strong fairness is needed since these events are only enabled
between two `Tick`s. It is one condition for all of these events together and favours none of them.
`GPUDriver`, `RDMAEngine` and `LastLevelTLB`: `WF(System)`, where `System` is everything but new work from outside: a component ticks
until it makes no progress, and is woken by messages and free ports, so something happens as long as something
can. It is again one condition, and no handler is favoured over another. `DriverThreads`: `WF` for each goroutine, which the Go scheduler grants. No strong fairness is assumed for locks: events are
finitely many, so every lock is free in the end for good.

## Defects found

**The MMU loses a walk.** `finalizeTransaction` returns early when `topSender` has no room
(`NBWalkerMMU.go:591`). Its callers do not notice: the walk's level is raised, its state stays, and the
walk goes on below the leaf page, as if that were a page table. It is never answered. What
it reads is written to the page walk cache under `level % 4`, and a later request that hits such an entry
ends in `panic("addresses don't match!")` (`NBWalkerMMU.go:602`). `nbwalker_panic` finds this with a
buffer of one. In the simulator the buffer holds 16 responses; one leaves per tick at most, two
walks may end in a tick (one from memory, one from an L1 cache), and 64 walkers are busy.
From the same state a fill with level 3 indexes `masks` out of range
(`pagewalkcachedirectory.go:169`), which the model leaves out.

**A drain may wait for ever** (`driver_drain`). When `Run` has seen that there is no event (`serialengine.go:64`) and `engineRunning` is
still true (`driver.go:125`), `runAsync` schedules the driver's tick and starts no goroutine: the tick never runs. Besides,
a notification that comes between `NumCommand` and `Wait` (`api.go:127-130`) is lost. In both cases the thread hangs in
`DrainCommandQueue`. `DrainedDone` shows that a drain that does return is right.

**A copy may be stale** (`driver_copy`). `l2Dirty` belongs to the context; the end of one queue's flush clears it although a kernel of another
queue of the context has started since the flush did (`driver.go:660`). The copy that is then enqueued finds it false, goes without
a flush, and reads old data from DRAM.

**A shootdown leaves translations** (`migration_shootdown`). `ShootDownCommand` is to "perform a TLB shootdown and invalidate
the corresponding PTE's" (`protocol/driverprotocol.go:150`). The command processor flushes the TLBs it knows, and
`connectCPWithTLBs` (`builders/common.go:795-819`) tells it of the last level TLBs only. The L1 and L2 TLBs keep the
translation, and a kernel that goes on after the migration writes to the frame the page has left. In the
last level TLB, too, the entry may stay, as its flush looks in another set (`tlb_with_pwc.go:758`) than lookup and fill. In this
build the defect sleeps, because no component asks the driver for a migration (`mcmgpu.go:134`).

**A flush of the last level TLB may end in a panic.** The states of `tlb` with `panicked` show how: a miss is in the page walk cache; a flush
empties the MSHR; after the restart the answer comes and finds no entry (`panic("oh no!")`, `tlb_with_pwc.go:652`).
`MissesFetched` shows that this needs a flush. The requests that waited in the MSHR are dropped without an answer; the L2 TLBs
are not flushed together with it, because they are not registered with the command processor (`common.go:795-815`), so they keep waiting.

## Proofs

`AkitaMessaging_proofs` proves, for every number of agents, every capacity, latency and transaction limit
(`MessagingAssumption`):

* `TypeCorrect`: `TypeOK`;
* `WakeupsKept`: `NoLostWakeup`;
* `RequestsKept`: `Conserved`;
* `QuiescenceCorrect`: `QuiescentMeansServed`;
* `ReadsCorrect`: `ReadsMatch`.

The first four follow from `Inductive`, the invariance of `IInv`. `NoLostWakeup` alone is not inductive. It needs
`SchedulerOK` (a ticker that has asked for the next cycle has that event), so that asking again is not a loss;
`ConnectionRanLast` (when the connection has run in a cycle no primary event of that cycle is left), which is what makes it
harmless that `TickNow` does nothing for a component that has run in this cycle; `BusyMeansFull` (a busy flag is only
set on a full buffer), so that the flag is seen by the next `Retrieve`; and `TransCounted` (the transaction counter is the
number of respond events), so that a controller at its limit has an event that will tick it. The proof
has one lemma per action. `QuiescenceCorrect` then argues from no event left: no message in any port, hence no full port, hence
no message in any end, hence by `Conserved` nothing pending, hence by `AgentServed` nothing left to send.

`ReadsCorrect` has an invariant of its own, `AllFaithful` (`Delivery`). A read is right because the memory holds the last value the agent has
sent to the address; that is so (`UpToDate`) except for the write the agent still waits for. To know that
nothing overtakes, a request and its response must be one message (`OneCopy`, counted over the five places a message can be
in), the agent must wait for it (`Asked`), and for one request per address (`Numbered`: IDs count downwards, `isAddressInPendingReq` keeps
addresses apart). `Answered` then says that a response on its way agrees with the storage until it arrives. Most steps move a message and
leave the rest as it is (`Carried`); a response (`RespondFaithful`) and the agent's own tick (`ConsumeSettles`,
`TickTakes`, `TickSends`) are the ones that do not. `AllFaithful` was first checked by TLC on the instance of `MCAkitaMessaging`.

`DriverThreads_proofs` proves, for any number of host threads, contexts and programs and the two goroutine slots
(`ThreadsAssumption`; `WakesSafelyAlways` shows that two are enough):

* `TypeCorrect`: `TypeOK`; `CommandsInOrder`: `OneAtATime`; `EngineExclusive`: `OneEngine`; `DrainsComplete`: `DrainedDone`;
* `WakesSafelyAlways`: no event is handled between `Pause` and `Continue`.

`OneEngine` is inductive only together with who holds which mutex (`PauseLockHeld`, `EngineMutexHeld`): `engineRunning` alone does not keep
the goroutines apart, because a goroutine clears it before it gives the mutex back. `TypeOK` needs `OneAtATime`: the
answer that `Tick` takes is for the head of the queue.

`RDMAEngine_proofs` proves, for any number of engines and accesses and all capacities:

* `TypeCorrect`: `TypeOK`; `TransactionsAreUnderWay`: `TransactionsMatch`; `DrainedIsEmpty`: `NothingUnderWay`; `RestartsAnswered`:
  `RestartNotLost`;
* `PromiseKept`: the initial states and the steps of the engines are those of `RemoteAccess`, under the mapping of `Refines`.

Its invariant follows an access on its way. `TransactionsMatch` counts the accesses under way, but to know that the last place has been left when the
transaction is removed, an access must be in one place only (`OnePlace`), once (`NoDuplicate`), and only in the engines it
is from and for (`Placed`): the handlers find a transaction by the message alone. `Controlled` says which of six states each
engine is in for each phase of the controller; `NothingUnderWay` and `RestartNotLost` follow from it, the first with `OnePlace`. One lemma per action shows
which access it moves; that the others stay where they are is `AllStill` or `OthersStill`.

`NBWalkerMMU_proofs` proves, for any requests, page table paths, number of walkers and capacities (`MMUAssumption`):

* `TypeCorrect`: `TypeOK`; `RequestsKept`: `EachRequestOnce`; `WalksCounted`: `InflightCounted`; `ResponsesMatch`: `ReadsAwaited`; `WalkersAwake`:
  `WalkerAwake`; `BookkeepingRight`: the last four together;
* `ServiceKept`: the initial states and the steps of the MMU are those of `TranslationService`, under the mapping of `Refines`.

`EachRequestOnce` counts occurrences of a request over nine kinds of places (`OccSlot`, `OccTrans`, ...). Every step keeps the count
(`Kept`), takes a request in (`Asked`), begins its walk (`Begun`) or completes it (`Completed`): the lemma `Moves`, with a case for
each handler and each of its early returns, from which the count (`CountStep`), the number of walks in flight and the refinement follow. The
strengthenings: `FinishedGone`, a walk that is marked finished has been answered, so that freeing its slot loses nothing; `IDsMatch`, a
walk has the ID of its last read; `ReadsCounted`, there are as many reads with an ID as walks that wait for it, from
which `ReadsAwaited` follows because a request has one walk; `Finite`, without which the counts mean nothing.
`CountingFacts` has what counting needs: how the number of positions, walkers or members with a property changes by `Append`, `Tail`, one
assignment, one member more or less.

`LastLevelTLB_proofs` proves, for any requests, pages, sets, blocks and capacities, any two index functions and any number of writes, flushes and
restarts (`PageWalkCacheAssumption`, `LastLevelTLBAssumption`):

* `TypeCorrect`: `TypeOK`; `RequestsKept`: `EachRequestOnce`; `MissesAreFetched`: `MissesFetched`; `AnswersAreRight`: `AnswersRight`.

`EachRequestOnce` counts a request over its places (`Places`); a step changes the count by its handler and early return
(`MovedOn`, `TakenIn`, `SentNow`, `Answering`). It needs `PagesRight`: an entry of the MSHR holds requests for its own page only, so that
the answer for a page takes the right ones away. `MissesFetched` speaks of the list of reads that the TLB keeps. That an answer of the page walk cache
finds its read there needs `ReadsKnown` (the list and the page walk cache agree, read by read), and
that needs `FetchedOnce`: a read or a walk is for a request that has been looked up, and a request is looked up once. `Paused` says that the
MSHR is empty from the flush to the restart, so that a restart, which empties `BottomPort`, takes away no page an entry waits for. `OneFetch`
is the part that holds before the first flush only.

`AnswersRight` needs the most. The directory stage of the page walk cache chooses a block and the bank reads it later; in
between the victim search may return the block. `BlockRight` says that `readCount` and `locked` count exactly
what waits in the bank for the block, so that a victim that is not locked and not read is one that nothing waits for, and `EntryRight` that
the tag of a block stays that of the transactions that wait for it. `VisitKeeps` says that visiting keeps an LRU queue a permutation, for ways and for blocks.

`GPUDriver_proofs`, on top of `CommandProcessor_proofs`, proves for any finite sets of GPUs, pages, compute units, translators, L1 caches and TLBs, any number of chunks,
any capacities, and any program that has a flush between a kernel and a copy (`CPAssumption`, `PMCAssumption`, `DriverAssumption`,
`ProgramAssumption`):

* `AlwaysTyped`: `TypeOK`; `AcksAlwaysCounted`: `AcksCounted`; `AlwaysStoppedInOrder`: `StoppedInOrder`; `AlwaysRestarted`: `RestartedAtEnd`;
* `MigrationAlwaysQuiesced`: `MigrationQuiesced`; `AlwaysAnswered`: `PullsAnswered`; `PagesAlwaysIntact`: `PageIntact`;
  `CopiesAlwaysFresh`: `CopyFresh`.

The invariant has five layers, each proved with the ones before it.

* `Controlled` (`DriverInvariant`). A GPU is in one of ten stages: running, stopping or starting one kind of its parts, flushing, or
  stopped. `Staged` says for each what every part does, has been asked or has answered. The counters of one
  command processor are shared by phases, so this is what keeps the acknowledgement of one phase from being taken for that
  of another, and `AcksCounted` follows. The driver's counters are the other half: `Under` counts a command for a GPU wherever it is (`Before`
  the command processor has taken it, `Inside`, or `After` it as an answer), and `Phased` says that a counter is the number of GPUs with such a command, and that only the
  counter of the current phase is not zero. Every step of a GPU leaves these numbers alone, takes one command in or answers one
  (`Moves`), which is all the driver's proof needs to know about a GPU.
* `Orderly` (`OrderlyInvariant`): which RDMA engines are off (`RdmaMatch`), that the accessing GPUs are told in the right order (`Told`), and
  what has become of accesses and TLB entries where parts have stopped (`Apart`): no access in a stopped L1 cache, none at a drained RDMA
  engine, none of the pages that the flush finds in a stopped TLB. `MigrationQuiesced` and `RestartedAtEnd` follow.
* `Pulled` (`PulledInvariant`): a chunk that moves is in one place between two controllers, and carries what its home holds; when
  the target has answered all chunks have arrived. `TypeOK` and `PullsAnswered` follow.
* `Sound` (`SoundInvariant`): an L2 cache that has stopped is clean, the controllers copy what the keeper of the page holds, and so
  `PageIntact`. It assumes nothing about translations: accesses may carry any. While a page moves the L2 caches of source and target have
  stopped, so that no write, old or new, is done there (`IntactWrite`); at other times a write to a frame that is not the page's
  changes neither the page nor its value.
* `Fresh` (`FreshInvariant`): dirty lines have a flush in the queue before the next copy, and a flush that runs has not passed a dirty
  cache. With `PageIntact` this gives `CopyFresh`, though a page may move between the start of the copy and its execution.

The conjuncts of this invariant were model-checked before they were proved, on the instances of `migration` and `migration_back`.

The assumptions are about sizes and kinds: capacities are positive, ways and blocks are numbered from 1, the kinds of parts of a GPU share
no name, as each part is a component of its own. One is about the program the driver runs: it has a flush between a kernel and a copy,
because `enqueueFlushBeforeMemCopy` puts one there (`api.go:256-271`).

The two largest modules take their time from nothing, a quarter of an hour to half an hour each (`CommandProcessor_proofs`, `GPUDriver_proofs`); the others
take a few minutes.

What stays with TLC:

* liveness (`EventuallyServed`, `MigrationEnds`, `SignalTaken`, `DrainEnds`, `EventuallyAnswered`, the liveness parts of both refinements): out of
  the prover's reach;
* `WalksInTree` and `PagesMatch`: they hold when `topSender` has room for the answers, and nothing in the code makes it so
  (see `nbwalker_full`); a theorem would have to assume it.

## Plan

1. Done: `AkitaTicker`, `AkitaMessaging`, its proofs; `NBWalkerMMU`, `TranslationService`; `PageMigrationController`, `CommandProcessor`, `GPUDriver`;
   `DriverThreads`; `RDMAEngine`, `RemoteAccess`; `PageWalkCache`, `LastLevelTLB`.
2. Proofs, for every value of the constants. Done: `AkitaMessaging`, `DriverThreads`, `RDMAEngine`, `NBWalkerMMU`,
   `LastLevelTLB` with `PageWalkCache`, `GPUDriver` with `CommandProcessor` and `PageMigrationController`.
3. `NBWalkerL1Cache`: walker stage, walker MSHR, fetches, responses, hard reset; an abstract entry service (walk in, entry out) that
   it implements and that `NBWalkerMMU` uses as its environment.
4. `LastLevelTLB` with `NBWalkerMMU` in place of its set of MMUs, through `TranslationService`.
5. `BaselineMMU` and the other MMUs against `TranslationService`; the MSHRs and requests of the L1 and L2 TLBs, which `GPUDriver` has only as
   what they keep.
6. Page table operators and the buddy allocator as functions, checked against a reference definition; write-back cache, reorder
   buffer.

## Not modelled

Timing (DRAM, compute units, networks, dispatching of work-groups), data processing (emulator, instructions, kernels, benchmarks, `dnn`),
construction of the platform (builders, configuration), statistics and tracing: they have no protocol state, or none that
page walks, migrations or commands depend on. They are most of the repository's lines.

The walker path of the L1 cache, the other MMUs, the requests inside L1 and L2 TLBs and address translators, the write-back cache, the
reorder buffer, remote translation and the allocators do have protocols or algorithms of their own; the plan has most of them.
`PROJECT.json` lists the hazards met in them.
