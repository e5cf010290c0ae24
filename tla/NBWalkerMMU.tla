----------------------------- MODULE NBWalkerMMU -----------------------------
(***************************************************************************)
(* The NBWalker MMU (mem/vm/mmu/nbwalker/NBWalkerMMU.go): page walkers     *)
(* with two slots each. The walk in a primary slot reads page table        *)
(* entries from memory; the walk in a secondary slot is handed to an L1    *)
(* vector cache, which reads the next entry and returns the walk.          *)
(*                                                                         *)
(* One action is one call of the MMU's Tick (its stages run one after the  *)
(* other, nothing else runs in between), one tick of a walker, or one step *)
(* of the environment: the last level TLB, the memory, an L1 vector cache. *)
(*                                                                         *)
(* An address is the sequence of page table indices that leads to it: a    *)
(* physical page number is a node of the page table tree, or Junk when it  *)
(* was not read from a page table.                                         *)
(***************************************************************************)
EXTENDS Integers, Sequences, FiniteSets, FiniteSetsExt

CONSTANTS
    Req,            \* translation requests of the last level TLB
    PathOf,         \* the page table indices of the address each one asks for
    NumWalkers,     \* maxNumReqInFlight (64)
    ReqQueueCap,    \* walkReqQueueCapacity (4 per walker)
    RspQueueCap,    \* walkRspQueueCapacity (2 per walker)
    TopSenderCap,   \* capacity of topSender's buffer (16)
    EndCap,         \* responses the connection to the TLB holds
    MemCap,         \* reads the connection and the memory hold
    L1Cap,          \* walks the connection and the L1 vector caches hold
    PortCap,        \* capacity of TranslationPort and of ToCache (16)
    MaxLevel        \* bound of the model: deeper entries are never returned

numLevels == 4

ASSUME MMUAssumption ==
    /\ PathOf \in [Req -> Seq(Nat)]
    /\ \A r \in Req : Len(PathOf[r]) = numLevels
    /\ NumWalkers \in Nat \ {0}
    /\ {ReqQueueCap, RspQueueCap, TopSenderCap, EndCap, MemCap, L1Cap, PortCap}
         \subseteq Nat \ {0}
    /\ MaxLevel \in Nat

Walker == 1..NumWalkers

Junk == <<-1>>

(* ID of the read of the entry at a level of a walk; msgID before the first. *)
MsgID == [req : Req, level : Int]

LiveState == {"pageWalkCacheDone", "sentToMem", "l1Done", "memDone"}

Trans == [req : Req, ppn : Seq(Int), vAddr : Seq(Nat), level : Nat,
          state : LiveState \cup {"transactionFinished"}, msgID : MsgID]

NoTrans == [state |-> "nil"]

(* Data of a translation request: the deepest entry the page walk cache   *)
(* had for the address, or nothing (level -1).                            *)
NoHit == [level |-> -1, ppn |-> <<>>]

TopReq == [req : Req, hit : [level : -1..2, ppn : Seq(Int)]]

Block == [req : Req, address : Seq(Int), level : Nat, msgID : MsgID]

VARIABLES
    unsent,           \* requests the TLB has not sent yet
    toTop,            \* buffer of port ToTop
    pageWalkReqQueue,
    pageWalkRspQueue,
    primary,          \* transaction of every walker
    secondary,        \* secondaryTransaction of every walker
    awake,            \* walkers with a tick scheduled
    numInflightPTWRequests,
    topSender,        \* buffer of topSender
    topEnd,           \* responses in the connection to the TLB
    answered,         \* requests the TLB has the answer to
    memReads,         \* reads in the connection or in the memory
    translationPort,  \* buffer of TranslationPort
    l1Blocks,         \* walks in the connection or in an L1 vector cache
    toCache,          \* buffer of port ToCache
    pageWalkCache,    \* entries written to the page walk cache
    stage             \* the stage of Tick that runs next

tlbVars  == <<unsent, topEnd, answered>>
queues   == <<pageWalkReqQueue, pageWalkRspQueue>>
walkers  == <<primary, secondary, awake>>
memVars  == <<memReads, translationPort>>
l1Vars   == <<l1Blocks, toCache>>
vars == <<tlbVars, toTop, queues, walkers, numInflightPTWRequests, topSender,
          memVars, l1Vars, pageWalkCache, stage>>

Stage == {"idle", "reqQueue", "rspQueue", "mem", "l1", "top"}

PWCEntry == [tag : Seq(Nat), level : 0..2, ppn : Seq(Int)]

TypeOK ==
    /\ unsent \subseteq Req
    /\ toTop \in Seq(TopReq)
    /\ pageWalkReqQueue \in Seq(TopReq)
    /\ pageWalkRspQueue \in Seq(Trans)
    /\ primary \in [Walker -> Trans \cup {NoTrans}]
    /\ secondary \in [Walker -> Trans \cup {NoTrans}]
    /\ awake \in [Walker -> BOOLEAN]
    /\ numInflightPTWRequests \in Nat
    /\ topSender \in Seq([req : Req, ppn : Seq(Int)])
    /\ topEnd \in Seq([req : Req, ppn : Seq(Int)])
    /\ answered \subseteq Req
    /\ memReads \subseteq [id : MsgID, address : Seq(Int)]
    /\ translationPort \in Seq([respondTo : MsgID, data : Seq(Int)])
    /\ l1Blocks \subseteq Block
    /\ toCache \in Seq([info : Block, data : Seq(Int)])
    /\ pageWalkCache \subseteq PWCEntry
    /\ stage \in Stage

Init ==
    /\ unsent = Req
    /\ toTop = <<>>
    /\ pageWalkReqQueue = <<>>
    /\ pageWalkRspQueue = <<>>
    /\ primary = [w \in Walker |-> NoTrans]
    /\ secondary = [w \in Walker |-> NoTrans]
    /\ awake = [w \in Walker |-> FALSE]
    /\ numInflightPTWRequests = 0
    /\ topSender = <<>>
    /\ topEnd = <<>>
    /\ answered = {}
    /\ memReads = {}
    /\ translationPort = <<>>
    /\ l1Blocks = {}
    /\ toCache = <<>>
    /\ pageWalkCache = {}
    /\ stage = "idle"

-----------------------------------------------------------------------------
(* The page table: addresses and what is stored at them. *)

Prefix(r, n) == SubSeq(PathOf[r], 1, n)

AddOffset(ppn, vAddr) == Append(ppn, IF vAddr = <<>> THEN 0 ELSE Head(vAddr))

NextLevelSame(vAddr) == vAddr  \* faulty: every level uses the same index

NextLevel(vAddr) == IF vAddr = <<>> THEN vAddr ELSE Tail(vAddr)

MoveFromVAddrToLevel(r, level) == SubSeq(PathOf[r], level + 1, numLevels)

(* The 8 bytes at an address: the child's page number if the address is the *)
(* one of a page table entry, else whatever the application stored there.   *)
Contents(address) ==
    IF \E r \in Req, n \in 1..numLevels : address = Prefix(r, n)
    THEN address ELSE Junk

-----------------------------------------------------------------------------
(* The environment. *)

(* What the page walk cache may answer: an entry that was written, if it is *)
(* still there, or nothing.                                                 *)
Hits(r) ==
    {NoHit} \cup { [level |-> e.level, ppn |-> e.ppn] :
                   e \in { f \in pageWalkCache : f.tag = Prefix(r, f.level + 1) } }

TLBSends(r) ==
    /\ stage = "idle"
    /\ r \in unsent
    /\ unsent' = unsent \ {r}
    /\ \E h \in Hits(r) : toTop' = Append(toTop, [req |-> r, hit |-> h])
    /\ UNCHANGED <<topEnd, answered, queues, walkers, numInflightPTWRequests,
                   topSender, memVars, l1Vars, pageWalkCache, stage>>

TLBReceives ==
    /\ stage = "idle"
    /\ topEnd # <<>>
    /\ answered' = answered \cup {Head(topEnd).req}
    /\ topEnd' = Tail(topEnd)
    /\ UNCHANGED <<unsent, toTop, queues, walkers, numInflightPTWRequests,
                   topSender, memVars, l1Vars, pageWalkCache, stage>>

MemAnswers(read) ==
    /\ stage = "idle"
    /\ read.id.level <= MaxLevel
    /\ Len(translationPort) < PortCap
    /\ memReads' = memReads \ {read}
    /\ translationPort' = Append(translationPort,
            [respondTo |-> read.id, data |-> Contents(read.address)])
    /\ UNCHANGED <<tlbVars, toTop, queues, walkers, numInflightPTWRequests,
                   topSender, l1Vars, pageWalkCache, stage>>

L1Answers(block) ==
    /\ stage = "idle"
    /\ block.level <= MaxLevel
    /\ Len(toCache) < PortCap
    /\ l1Blocks' = l1Blocks \ {block}
    /\ toCache' = Append(toCache, [info |-> block, data |-> Contents(block.address)])
    /\ UNCHANGED <<tlbVars, toTop, queues, walkers, numInflightPTWRequests,
                   topSender, memVars, pageWalkCache, stage>>

-----------------------------------------------------------------------------
(* The MMU's Tick, in the order of its stages. *)

(* topSender.Tick: one response leaves, if the connection takes it. *)
TopSenderTick ==
    /\ stage = "idle"
    /\ IF topSender # <<>> /\ Len(topEnd) < EndCap
       THEN topEnd' = Append(topEnd, Head(topSender)) /\ topSender' = Tail(topSender)
       ELSE UNCHANGED <<topEnd, topSender>>
    /\ stage' = "reqQueue"
    /\ UNCHANGED <<unsent, answered, toTop, queues, walkers, numInflightPTWRequests,
                   memVars, l1Vars, pageWalkCache>>

(* AcceptReqFromTop: the walk starts at the root, or below the entry the *)
(* page walk cache had.                                                  *)
NewWalk(t) ==
    [req   |-> t.req,
     ppn   |-> IF t.hit.level = -1 THEN <<>> ELSE t.hit.ppn,
     level |-> t.hit.level + 1,
     vAddr |-> MoveFromVAddrToLevel(t.req, t.hit.level + 1),
     state |-> "pageWalkCacheDone",
     msgID |-> [req |-> t.req, level |-> -1]]

CanAcceptPrimary(w) == primary[w] = NoTrans

CanAcceptAlways(w) == TRUE  \* faulty: a walk may be overwritten

CanAccept(w) == primary[w] = NoTrans \/ secondary[w] = NoTrans

(* Faulty: the walker is not woken. *)
AcceptAsleep(w, trans) ==
    /\ UNCHANGED awake
    /\ IF primary[w] = NoTrans
       THEN primary' = [primary EXCEPT ![w] = trans] /\ UNCHANGED secondary
       ELSE secondary' = [secondary EXCEPT ![w] = trans] /\ UNCHANGED primary

(* The new transaction takes the primary slot if that is free. *)
Accept(w, trans) ==
    /\ awake' = [awake EXCEPT ![w] = TRUE]
    /\ IF primary[w] = NoTrans
       THEN primary' = [primary EXCEPT ![w] = trans] /\ UNCHANGED secondary
       ELSE secondary' = [secondary EXCEPT ![w] = trans] /\ UNCHANGED primary

(* processPageWalkReqQueue: the first walker with a free primary slot, else *)
(* the first one with a free slot.                                          *)
ProcessPageWalkReqQueue ==
    /\ stage = "reqQueue"
    /\ stage' = "rspQueue"
    /\ LET free == { w \in Walker : CanAcceptPrimary(w) }
           any  == { w \in Walker : CanAccept(w) }
       IN  IF pageWalkReqQueue = <<>> \/ any = {}
           THEN UNCHANGED <<walkers, pageWalkReqQueue, numInflightPTWRequests>>
           ELSE /\ Accept(Min(IF free # {} THEN free ELSE any), NewWalk(Head(pageWalkReqQueue)))
                /\ pageWalkReqQueue' = Tail(pageWalkReqQueue)
                /\ numInflightPTWRequests' = numInflightPTWRequests + 1
    /\ UNCHANGED <<tlbVars, toTop, pageWalkRspQueue, topSender, memVars, l1Vars, pageWalkCache>>

(* processPageWalkRspQueue and AcceptL1CacheRsp. *)
ProcessPageWalkRspQueue ==
    /\ stage = "rspQueue"
    /\ stage' = "mem"
    /\ LET any == { w \in Walker : CanAccept(w) }
       IN  IF pageWalkRspQueue = <<>> \/ any = {}
           THEN UNCHANGED <<walkers, pageWalkRspQueue>>
           ELSE /\ Accept(Min(any), Head(pageWalkRspQueue))
                /\ pageWalkRspQueue' = Tail(pageWalkRspQueue)
    /\ UNCHANGED <<tlbVars, toTop, pageWalkReqQueue, numInflightPTWRequests, topSender,
                   memVars, l1Vars, pageWalkCache>>
(* finalizeTransaction, with its early return. The response carries the    *)
(* page number the walk found; a number other than the page table's is a   *)
(* panic ("addresses don't match!"), after which there is no step.         *)
Finalizes(trans) == trans.level + 1 = numLevels /\ Len(topSender) < TopSenderCap

Matches(trans) == Finalizes(trans) => trans.ppn = PathOf[trans.req]

(* Faulty: the walk is not taken off the count. *)
FinalizeUncounted(trans) ==
    /\ UNCHANGED numInflightPTWRequests
    /\ topSender' = IF Finalizes(trans)
                     THEN Append(topSender, [req |-> trans.req, ppn |-> trans.ppn])
                     ELSE topSender

Finalize(trans) ==
    IF Finalizes(trans)
    THEN /\ topSender' = Append(topSender, [req |-> trans.req, ppn |-> trans.ppn])
         /\ numInflightPTWRequests' = numInflightPTWRequests - 1
    ELSE UNCHANGED <<topSender, numInflightPTWRequests>>

(* Faulty: the last level is filled as well. *)
FilledAtEveryLevel(trans) ==
    { [tag   |-> Prefix(trans.req, (trans.level % 4) + 1),
       level |-> trans.level % 4,
       ppn   |-> trans.ppn] }

(* fillPageWalkCache: the level travels in the low two bits of the address *)
(* and of the data. The cache has no mask for level 3.                     *)
FilledEntries(trans) ==
    IF trans.level + 1 = numLevels \/ trans.level % 4 = 3 THEN {}
    ELSE { [tag   |-> Prefix(trans.req, (trans.level % 4) + 1),
            level |-> trans.level % 4,
            ppn   |-> IF trans.level < 4 THEN trans.ppn ELSE Junk] }

(* What both kinds of response do to a walk whose entry was read. *)
AdvancedUnfinished(trans) == [trans EXCEPT !.level = @ + 1]  \* faulty

Advanced(trans) ==
    [trans EXCEPT !.level = @ + 1,
                  !.state = IF Finalizes(trans) THEN "transactionFinished" ELSE @]

EntryRead(trans) ==
    /\ Matches(trans)
    /\ Finalize(trans)
    /\ pageWalkCache' = pageWalkCache \cup FilledEntries(trans)

(* parseFromMem, handleMemResponse and AcceptMemRsp. A response that matches *)
(* no walker is a panic: there is no step.                                   *)
ParseFromMem ==
    /\ stage = "mem"
    /\ stage' = "l1"
    /\ IF translationPort = <<>>
       THEN UNCHANGED <<walkers, translationPort, topSender, numInflightPTWRequests, pageWalkCache>>
       ELSE LET rsp   == Head(translationPort)
                match == { w \in Walker : primary[w] # NoTrans /\ primary[w].msgID = rsp.respondTo }
                w     == Min(match)
                trans == [primary[w] EXCEPT !.ppn = rsp.data, !.state = "memDone"]
            IN  /\ match # {}
                /\ EntryRead(trans)
                /\ primary' = [primary EXCEPT ![w] = Advanced(trans)]
                /\ awake' = [awake EXCEPT ![w] = TRUE]
                /\ translationPort' = Tail(translationPort)
                /\ UNCHANGED secondary
    /\ UNCHANGED <<tlbVars, toTop, queues, memReads, l1Vars>>

(* parseFromL1 and handleL1ReadResponse. Write acknowledgements, which it   *)
(* throws away, never come: an L1 cache answers every walk with the entry   *)
(* it has read (respondWalkerWriteTrans).                                   *)
ParseFromL1 ==
    /\ stage = "l1"
    /\ stage' = "top"
    /\ IF toCache = <<>> \/ Len(pageWalkRspQueue) >= RspQueueCap
       THEN UNCHANGED <<toCache, pageWalkRspQueue, topSender, numInflightPTWRequests, pageWalkCache>>
       ELSE LET block == Head(toCache).info
                trans == [req |-> block.req, ppn |-> Head(toCache).data, level |-> block.level,
                          vAddr |-> <<>>, state |-> "l1Done", msgID |-> block.msgID]
            IN  /\ EntryRead(trans)
                /\ pageWalkRspQueue' = Append(pageWalkRspQueue, Advanced(trans))
                /\ toCache' = Tail(toCache)
    /\ UNCHANGED <<tlbVars, toTop, pageWalkReqQueue, walkers, memVars, l1Blocks>>

ParseFromTop ==
    /\ stage = "top"
    /\ stage' = "idle"
    /\ IF toTop = <<>> \/ Len(pageWalkReqQueue) >= ReqQueueCap
       THEN UNCHANGED <<toTop, pageWalkReqQueue>>
       ELSE /\ pageWalkReqQueue' = Append(pageWalkReqQueue, Head(toTop))
            /\ toTop' = Tail(toTop)
    /\ UNCHANGED <<tlbVars, pageWalkRspQueue, walkers, numInflightPTWRequests, topSender,
                   memVars, l1Vars, pageWalkCache>>

-----------------------------------------------------------------------------
(* A walker's Tick. *)

(* The walker serves its primary transaction, unless that waits for memory. *)
PrimaryRunsAlways(w) == primary[w] # NoTrans  \* faulty: sends while it waits

PrimaryRuns(w) == primary[w] # NoTrans /\ primary[w].state # "sentToMem"

(* The address within the page table of the level the walk is at. *)
PositionedBefore(trans) == trans  \* faulty: vAddr of a returned walk is unset

Positioned(trans) ==
    IF trans.state = "l1Done"
    THEN [trans EXCEPT !.vAddr = MoveFromVAddrToLevel(trans.req, trans.level)]
    ELSE trans

SendToMem(w) ==
    LET trans == Positioned(primary[w])
        id    == [req |-> trans.req, level |-> trans.level]
    IN  IF Cardinality(memReads) < MemCap
        THEN /\ memReads' = memReads \cup
                    {[id |-> id, address |-> AddOffset(trans.ppn, trans.vAddr)]}
             /\ primary' = [primary EXCEPT ![w] =
                    [trans EXCEPT !.vAddr = NextLevel(@), !.msgID = id, !.state = "sentToMem"]]
        ELSE /\ primary' = [primary EXCEPT ![w] = trans]
             /\ UNCHANGED memReads

SendWriteReqToL1V(w) ==
    LET trans == Positioned(secondary[w])
    IN  IF Cardinality(l1Blocks) < L1Cap
        THEN /\ l1Blocks' = l1Blocks \cup
                    {[req |-> trans.req, address |-> AddOffset(trans.ppn, trans.vAddr),
                      level |-> trans.level, msgID |-> trans.msgID]}
             /\ secondary' = [secondary EXCEPT ![w] = NoTrans]
        ELSE /\ secondary' = [secondary EXCEPT ![w] = trans]
             /\ UNCHANGED l1Blocks

WalkPrimary(w) ==
    /\ stage = "idle"
    /\ awake[w]
    /\ PrimaryRuns(w)
    /\ IF primary[w].state = "transactionFinished"
       THEN primary' = [primary EXCEPT ![w] = NoTrans] /\ UNCHANGED memReads
       ELSE SendToMem(w)
    /\ UNCHANGED <<tlbVars, toTop, queues, secondary, awake, numInflightPTWRequests,
                   topSender, translationPort, l1Vars, pageWalkCache, stage>>

(* A transaction handed back to a secondary slot by mistake in another     *)
(* state is a panic ("invalid transaction state").                         *)
WalkSecondary(w) ==
    /\ stage = "idle"
    /\ awake[w]
    /\ ~PrimaryRuns(w)
    /\ secondary[w] # NoTrans
    /\ IF secondary[w].state = "transactionFinished"
       THEN secondary' = [secondary EXCEPT ![w] = NoTrans] /\ UNCHANGED l1Blocks
       ELSE /\ secondary[w].state \in {"pageWalkCacheDone", "l1Done"}
            /\ SendWriteReqToL1V(w)
    /\ UNCHANGED <<tlbVars, toTop, queues, primary, awake, numInflightPTWRequests,
                   topSender, memVars, toCache, pageWalkCache, stage>>

(* Nothing to do: no tick is scheduled until the MMU wakes the walker. *)
WalkerSleeps(w) ==
    /\ stage = "idle"
    /\ awake[w]
    /\ ~PrimaryRuns(w)
    /\ secondary[w] = NoTrans
    /\ awake' = [awake EXCEPT ![w] = FALSE]
    /\ UNCHANGED <<tlbVars, toTop, queues, primary, secondary, numInflightPTWRequests,
                   topSender, memVars, l1Vars, pageWalkCache, stage>>

WalkerTick(w) == WalkPrimary(w) \/ WalkSecondary(w) \/ WalkerSleeps(w)

Tick ==
    \/ TopSenderTick
    \/ ProcessPageWalkReqQueue
    \/ ProcessPageWalkRspQueue
    \/ ParseFromMem
    \/ ParseFromL1
    \/ ParseFromTop

(* What happens in a cycle besides the MMU's Tick. *)
OtherEvent ==
    \/ TLBReceives
    \/ \E read \in memReads : MemAnswers(read)
    \/ \E block \in l1Blocks : L1Answers(block)
    \/ \E w \in Walker : WalkerTick(w)

Next ==
    \/ \E r \in Req : TLBSends(r)
    \/ Tick
    \/ OtherEvent

-----------------------------------------------------------------------------
(* Properties. *)

Live(trans) == trans # NoTrans /\ trans.state # "transactionFinished"

Slots == { primary[w] : w \in Walker } \cup { secondary[w] : w \in Walker }
            \cup { pageWalkRspQueue[i] : i \in DOMAIN pageWalkRspQueue }

(* Requests in the hands of the MMU or of an L1 vector cache. *)
Walking ==
    { trans.req : trans \in { t \in Slots : Live(t) } }
        \cup { b.req : b \in l1Blocks }
        \cup { toCache[i].info.req : i \in DOMAIN toCache }

Queued == { toTop[i].req : i \in DOMAIN toTop }
            \cup { pageWalkReqQueue[i].req : i \in DOMAIN pageWalkReqQueue }

Responding == { topSender[i].req : i \in DOMAIN topSender }
                 \cup { topEnd[i].req : i \in DOMAIN topEnd }

(* Where a request can be, as a count: a request in two places would be    *)
(* walked or answered twice, one in no place is lost.                      *)
Places(r) ==
    Cardinality({ w \in Walker : Live(primary[w]) /\ primary[w].req = r })
    + Cardinality({ w \in Walker : Live(secondary[w]) /\ secondary[w].req = r })
    + Cardinality({ i \in DOMAIN pageWalkRspQueue :
                       Live(pageWalkRspQueue[i]) /\ pageWalkRspQueue[i].req = r })
    + Cardinality({ b \in l1Blocks : b.req = r })
    + Cardinality({ i \in DOMAIN toCache : toCache[i].info.req = r })
    + Cardinality({ i \in DOMAIN toTop : toTop[i].req = r })
    + Cardinality({ i \in DOMAIN pageWalkReqQueue : pageWalkReqQueue[i].req = r })
    + Cardinality({ i \in DOMAIN topSender : topSender[i].req = r })
    + Cardinality({ i \in DOMAIN topEnd : topEnd[i].req = r })
    + (IF r \in unsent THEN 1 ELSE 0) + (IF r \in answered THEN 1 ELSE 0)

(* A request is in exactly one place, through every hand-over between the  *)
(* TLB, the queues, the two slots, the memory and the L1 vector caches.    *)
EachRequestOnce == \A r \in Req : Places(r) = 1

(* numInflightPTWRequests counts the walks under way, wherever they are:   *)
(* it is raised in one handler and lowered in two others.                  *)
InflightCounted == numInflightPTWRequests = Cardinality(Walking)

(* Every read of the memory or response to one belongs to exactly one      *)
(* walker, whose primary transaction waits for it ("response doesn't match *)
(* any inflight transaction").                                             *)
ReadIDs == { read.id : read \in memReads }
              \cup { translationPort[i].respondTo : i \in DOMAIN translationPort }

ReadsAwaited ==
    /\ \A id \in ReadIDs :
          \E w \in Walker : /\ primary[w] # NoTrans
                            /\ primary[w].state = "sentToMem" /\ primary[w].msgID = id
                            /\ \A v \in Walker : primary[v] # NoTrans /\ primary[v].msgID = id => v = w
    /\ \A w \in Walker : primary[w] # NoTrans /\ primary[w].state = "sentToMem"
          => primary[w].msgID \in ReadIDs

(* A walker with something to do has a tick scheduled; while its secondary *)
(* walk waits, the tick of the primary one keeps it awake.                 *)
WalkerAwake == \A w \in Walker : PrimaryRuns(w) \/ secondary[w] # NoTrans => awake[w]

(* The bookkeeping of requests, reads and ticks does not depend on room in *)
(* topSender: it holds although finalizeTransaction returns early then and *)
(* walks run on.                                                           *)
Bookkeeping == EachRequestOnce /\ InflightCounted /\ ReadsAwaited /\ WalkerAwake

(* Every walk is at the node of the page table its level says, whichever   *)
(* mix of page walk cache hits, memory reads and L1 reads brought it there.*)
AtNode(trans) == Live(trans) => trans.level < numLevels /\ trans.ppn = Prefix(trans.req, trans.level)

WalksInTree ==
    /\ \A trans \in Slots : AtNode(trans)
    /\ \A read \in memReads : read.address = Prefix(read.id.req, read.id.level + 1)
    /\ \A b \in l1Blocks : b.address = Prefix(b.req, b.level + 1)
    /\ \A e \in pageWalkCache : e.ppn = e.tag

(* The last entry a walk reads, from either side, is the page the page     *)
(* table holds for its address ("addresses don't match!").                 *)
PagesMatch ==
    /\ stage = "mem" /\ translationPort # <<>> =>
         \A w \in Walker : primary[w] # NoTrans /\ primary[w].msgID = Head(translationPort).respondTo
             => Matches([primary[w] EXCEPT !.ppn = Head(translationPort).data])
    /\ stage = "l1" /\ toCache # <<>> /\ Len(pageWalkRspQueue) < RspQueueCap =>
         Matches([req |-> Head(toCache).info.req, level |-> Head(toCache).info.level,
                  ppn |-> Head(toCache).data])

(* The MMU implements the TLB's view of it. *)
Service == INSTANCE TranslationService WITH
    waiting  <- Queued \cup Walking,
    answered <- Responding \cup answered

(* The stages of a Tick follow one another, and when events are scheduled  *)
(* for the time between two Ticks again and again, some of them do happen: *)
(* Run runs every event of a cycle before it turns to the next cycle.      *)
Fairness == WF_vars(Tick) /\ SF_vars(OtherEvent)

Spec == Init /\ [][Next]_vars /\ Fairness

Refines == Service!Spec
==============================================================================
