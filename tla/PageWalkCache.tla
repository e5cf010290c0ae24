----------------------------- MODULE PageWalkCache -----------------------------
(***************************************************************************)
(* The page walk cache of the last level TLB (mem/cache/writeback/         *)
(* pagewalkcache*.go, mem/cache/pagewalkcachedirectory.go). It holds nodes *)
(* of the page tables under the part of the address that leads to them.    *)
(* The TLB reads it for every miss; the answer is the node nearest to the  *)
(* leaf, or nothing. The MMUs write the nodes that their walks pass.       *)
(*                                                                         *)
(* An action handles one transaction in one stage of runPipeline. TLB and  *)
(* MMUs are in module LastLevelTLB. The acknowledgements of writes, which  *)
(* the MMUs throw away, are left out.                                      *)
(***************************************************************************)
EXTENDS Naturals, Sequences, FiniteSets, SequencesExt

CONSTANTS
    Req,      \* translation requests
    Page,     \* a process and one of its virtual addresses
    PageOf,   \* the page of a request
    PidOf,    \* the process of a page
    Masked,   \* the address of a page, masked for every level
    Block,    \* blocks of the directory's only set, 1..n
    PortCap,  \* messages in TopPort and its connection, and in ToMMUs
    PipeCap,  \* transactions in the pipeline
    BankCap   \* transactions in the bank, and answers it may add to

(* Levels that can be cached: "masks [3]uint64". *)
Level == 0..2

ASSUME PageWalkCacheAssumption ==
    /\ PageOf \in [Req -> Page]
    /\ \A p \in Page : DOMAIN Masked[p] = Level
    /\ DOMAIN PidOf = Page
    /\ IsFiniteSet(Block) /\ Block = 1..Cardinality(Block) /\ Block # {}
    /\ {PortCap, PipeCap, BankCap} \subseteq Nat \ {0}

VARIABLES
    toTop,        \* reads on their way to TopPort and in it
    toMMUs,       \* writes in ToMMUs
    pwcPipeline,  \* transactions in the pipeline
    pwcLookup,    \* lookupBuffer
    bank,         \* dirToBankBuffers[0] and the bank's currentTrans
    blocks,       \* the directory, with the storage
    LRUQueue,
    dataReady     \* answers in topSender, its connection and the TLB's port

pwcVars == <<toTop, toMMUs, pwcPipeline, pwcLookup, bank, blocks, LRUQueue, dataReady>>

(* A transaction is the read of a request or a write by its walk. *)
Read(r) == [read |-> TRUE, req |-> r]
Write(r, l) == [read |-> FALSE, req |-> r, level |-> l]
Transaction == { Read(r) : r \in Req } \cup { Write(r, l) : r \in Req, l \in Level }

(* FormulateWriteAddress, with the process. *)
Tag(p, l) == [pid |-> PidOf[p], addr |-> Masked[p][l], level |-> l]

Nodes == { Tag(p, l) : p \in Page, l \in Level }

Nothing == [addr |-> "nil"]

PWCTypeOK ==
    /\ toTop \in Seq(Req) /\ Len(toTop) <= PortCap
    /\ toMMUs \in Seq({ t \in Transaction : ~t.read }) /\ Len(toMMUs) <= PortCap
    /\ pwcPipeline \subseteq Transaction /\ Cardinality(pwcPipeline) <= PipeCap
    /\ pwcLookup \in Seq(Transaction) /\ Len(pwcLookup) <= PipeCap
    /\ bank \in Seq([trans : Transaction, block : Block]) /\ Len(bank) <= BankCap
    /\ blocks \in [Block -> [valid : BOOLEAN, tag : Nodes \cup {Nothing}, locked : BOOLEAN,
                             readCount : 0..BankCap, data : Nodes \cup {Nothing}]]
    /\ LRUQueue \in Seq(Block) /\ Range(LRUQueue) = Block /\ Len(LRUQueue) = Cardinality(Block)
    /\ dataReady \in Seq([req : Req, data : Nodes \cup {Nothing}])

PWCInit ==
    /\ toTop = <<>> /\ toMMUs = <<>>
    /\ pwcPipeline = {}
    /\ pwcLookup = <<>>
    /\ bank = <<>>
    /\ blocks = [b \in Block |-> [valid |-> FALSE, tag |-> Nothing, locked |-> FALSE,
                                  readCount |-> 0, data |-> Nothing]]
    /\ LRUQueue = [i \in Block |-> i]
    /\ dataReady = <<>>

-----------------------------------------------------------------------------
(* Buffers and ports. *)

(* Faulty: says yes to one more. *)
CanPushOneMore(buffer, cap) == Len(buffer) <= cap

CanPush(buffer, cap) == Len(buffer) < cap

-----------------------------------------------------------------------------
(* The top parser and the pipeline. *)

ParseReads ==
    /\ toTop # <<>>
    /\ Cardinality(pwcPipeline) < PipeCap
    /\ pwcPipeline' = pwcPipeline \cup {Read(Head(toTop))}
    /\ toTop' = Tail(toTop)
    /\ UNCHANGED <<toMMUs, pwcLookup, bank, blocks, LRUQueue, dataReady>>

ParseWrites ==
    /\ toMMUs # <<>>
    /\ Cardinality(pwcPipeline) < PipeCap
    /\ pwcPipeline' = pwcPipeline \cup {Head(toMMUs)}
    /\ toMMUs' = Tail(toMMUs)
    /\ UNCHANGED <<toTop, pwcLookup, bank, blocks, LRUQueue, dataReady>>

(* Lanes do not wait for each other. *)
PWCPipelineTick(t) ==
    /\ t \in pwcPipeline
    /\ CanPush(pwcLookup, PipeCap)
    /\ pwcPipeline' = pwcPipeline \ {t}
    /\ pwcLookup' = Append(pwcLookup, t)
    /\ UNCHANGED <<toTop, toMMUs, bank, blocks, LRUQueue, dataReady>>

-----------------------------------------------------------------------------
(* The directory stage. *)

Matches(b, p) == blocks[b].valid /\ blocks[b].tag = Tag(p, blocks[b].tag.level)

(* Lookup: the matching block of the highest level, {} when there is none. *)
LookupBlock(p) ==
    { b \in Block :
        /\ Matches(b, p)
        /\ \A c \in Block : Matches(c, p) => blocks[c].tag.level <= blocks[b].tag.level }

LookupExactAddress(tag) == { b \in Block : blocks[b].valid /\ blocks[b].tag = tag }

(* FindVictim: the least recently used block, an empty one if possible and *)
(* one that is not locked if possible.                                     *)
FirstBlock(Test(_)) == SelectInSeq(LRUQueue, Test)

FindVictim ==
    LET free(b) == ~blocks[b].valid /\ ~blocks[b].locked
        unlocked(b) == ~blocks[b].locked
    IN  LRUQueue[ CASE FirstBlock(free) # 0 -> FirstBlock(free)
                    [] FirstBlock(free) = 0 /\ FirstBlock(unlocked) # 0 -> FirstBlock(unlocked)
                    [] OTHER -> 1 ]

VisitBlock(b) == LRUQueue' = Append(RemoveFirst(LRUQueue, b), b)

LooksUp(read) == pwcLookup # <<>> /\ Head(pwcLookup).read = read

LookedUp == PageOf[Head(pwcLookup).req]

HandleReadMiss ==
    /\ LooksUp(TRUE)
    /\ LookupBlock(LookedUp) = {}
    /\ dataReady' = Append(dataReady, [req |-> Head(pwcLookup).req, data |-> Nothing])
    /\ pwcLookup' = Tail(pwcLookup)
    /\ UNCHANGED <<toTop, toMMUs, pwcPipeline, bank, blocks, LRUQueue>>

(* handleReadHit and readFromBank; a locked block has to be written first. *)
HandleReadHit ==
    /\ LooksUp(TRUE)
    /\ CanPush(bank, BankCap)
    /\ \E b \in LookupBlock(LookedUp) :
        /\ ~blocks[b].locked
        /\ VisitBlock(b)
        /\ blocks' = [blocks EXCEPT ![b].readCount = @ + 1]
        /\ bank' = Append(bank, [trans |-> Head(pwcLookup), block |-> b])
    /\ pwcLookup' = Tail(pwcLookup)
    /\ UNCHANGED <<toTop, toMMUs, pwcPipeline, dataReady>>

WriteTag == Tag(LookedUp, Head(pwcLookup).level)

(* doWriteHit: a node that is cached is not written again. *)
DoWriteHit ==
    /\ LooksUp(FALSE)
    /\ \E b \in LookupExactAddress(WriteTag) :
        /\ ~blocks[b].locked
        /\ VisitBlock(b)
    /\ pwcLookup' = Tail(pwcLookup)
    /\ UNCHANGED <<toTop, toMMUs, pwcPipeline, bank, blocks, dataReady>>

(* doWriteMiss and writeToBank; a block that is being read stays. *)
DoWriteMiss ==
    /\ LooksUp(FALSE)
    /\ LookupExactAddress(WriteTag) = {}
    /\ CanPush(bank, BankCap)
    /\ LET b == FindVictim
       IN  /\ ~blocks[b].locked
           /\ blocks[b].readCount = 0
           /\ VisitBlock(b)
           /\ blocks' = [blocks EXCEPT ![b].locked = TRUE, ![b].tag = WriteTag, ![b].valid = TRUE]
           /\ bank' = Append(bank, [trans |-> Head(pwcLookup), block |-> b])
    /\ pwcLookup' = Tail(pwcLookup)
    /\ UNCHANGED <<toTop, toMMUs, pwcPipeline, dataReady>>

-----------------------------------------------------------------------------
(* The bank. *)

FinalizeReadHit ==
    /\ bank # <<>>
    /\ Head(bank).trans.read
    /\ CanPush(dataReady, BankCap)
    /\ LET b == Head(bank).block
       IN  /\ dataReady' = Append(dataReady,
                [req |-> Head(bank).trans.req, data |-> blocks[b].data])
           /\ blocks' = [blocks EXCEPT ![b].readCount = @ - 1]
    /\ bank' = Tail(bank)
    /\ UNCHANGED <<toTop, toMMUs, pwcPipeline, pwcLookup, LRUQueue>>

FinalizeWriteHit ==
    /\ bank # <<>>
    /\ ~Head(bank).trans.read
    /\ LET trans == Head(bank).trans
       IN  blocks' = [blocks EXCEPT ![Head(bank).block].data = Tag(PageOf[trans.req], trans.level),
                                    ![Head(bank).block].locked = FALSE]
    /\ bank' = Tail(bank)
    /\ UNCHANGED <<toTop, toMMUs, pwcPipeline, pwcLookup, LRUQueue, dataReady>>

PWCStep ==
    \/ ParseReads
    \/ ParseWrites
    \/ \E t \in pwcPipeline : PWCPipelineTick(t)
    \/ HandleReadMiss
    \/ HandleReadHit
    \/ DoWriteHit
    \/ DoWriteMiss
    \/ FinalizeReadHit
    \/ FinalizeWriteHit

(* Requests whose read is in the cache, answered or not. *)
Reading ==
    Range(toTop)
        \cup { t.req : t \in { u \in pwcPipeline \cup Range(pwcLookup) : u.read } }
        \cup { e.trans.req : e \in { f \in Range(bank) : f.trans.read } }
        \cup { d.req : d \in Range(dataReady) }
=============================================================================
