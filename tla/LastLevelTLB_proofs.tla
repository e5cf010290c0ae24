-------------------------- MODULE LastLevelTLB_proofs --------------------------
(***************************************************************************)
(* Proofs about LastLevelTLB and its PageWalkCache, for any requests,      *)
(* pages, addresses and capacities and any number of writes, flushes and   *)
(* restarts: no request is lost or answered twice, every miss is fetched,  *)
(* and no request is given another page or node than its own.              *)
(***************************************************************************)
EXTENDS LastLevelTLB, CountingFacts

-----------------------------------------------------------------------------
(* The inductive invariant. *)

(* Messages about a request, of the kinds that the queues hold. *)
BankEntry  == [trans : Transaction, block : Block]
CacheAnswer == [req : Req, data : Nodes \cup {Nothing}]
CacheBlock == [valid : BOOLEAN, tag : Nodes \cup {Nothing}, locked : BOOLEAN,
               readCount : 0..BankCap, data : Nodes \cup {Nothing}]

BankReads(r) == { e \in BankEntry : e.trans = Read(r) }
AnswersTo(r) == { d \in CacheAnswer : d.req = r }

(* How often a read is in the page walk cache. *)
Reads(r) ==
    Number(toTop, {r}) + Number(pwcLookup, {Read(r)}) + Number(bank, BankReads(r))
    + Number(dataReady, AnswersTo(r)) + (IF Read(r) \in pwcPipeline THEN 1 ELSE 0)

Finite == IsFiniteSet(pwcPipeline) /\ IsFiniteSet(pipeline) /\ IsFiniteSet(mmus) /\ IsFiniteSet(Entries)

(* The TLB knows the reads, and has only one for a request. *)
ReadsKnown == \A r \in Req : Reads(r) = IF r \in inflightPageWalkCacheReqs THEN 1 ELSE 0

(* A request waits for its first lookup. *)
Early(r) ==
    Number(topPort, {r}) + Number(lookupBuffer, {r}) + (IF r \in pipeline THEN 1 ELSE 0)

(* A page is fetched for requests that have been looked up, and once.      *)
FetchedOnce ==
    /\ inflightPageWalkCacheReqs \cap mmus = {}
    /\ \A r \in inflightPageWalkCacheReqs \cup mmus : r \in sent /\ Early(r) = 0

FetchesOf == inflightPageWalkCacheReqs \cup mmus

(* Before the first flush there is one fetch for every entry.              *)
OneFetch ==
    /\ ~panicked
    /\ \A r \in FetchesOf : mshr[PageOf[r]] # <<>> /\ Number(bottomPort, {PageOf[r]}) = 0
    /\ \A r, s \in FetchesOf : PageOf[r] = PageOf[s] => r = s
    /\ \A p \in Page :
          /\ Number(bottomPort, {p}) <= 1
          /\ Number(bottomPort, {p}) = 1 => mshr[p] # <<>>

EntriesFetched ==
    \A p \in Entries : Number(bottomPort, {p}) # 0 \/ \E r \in FetchesOf : PageOf[r] = p

Fetches ==
    /\ EntriesFetched
    /\ flushes = 0 => OneFetch

(* While the TLB is paused the MSHR is as the flush left it.               *)
Paused ==
    /\ isPaused <=> control \in {"flushed", "restart"}
    /\ isPaused => \A p \in Page : mshr[p] = <<>>
    /\ control # "idle" => flushes # 0

(* Requests wait for their own page, and the sets find what they hold.     *)
OwnPage(q, p) == \A i \in DOMAIN q : PageOf[q[i]] = p

Finds(s, p) == vAddrWayIDMap[s][p] # 0 => pages[s][vAddrWayIDMap[s][p]] = p

PagesRight ==
    /\ \A p \in Page : OwnPage(mshr[p], p)
    /\ OwnPage(respondingMSHREntry.reqs, respondingMSHREntry.page)
    /\ \A s \in Set, p \in Page : Finds(s, p)
    /\ \A a \in answered : a.page = PageOf[a.req]

(* What waits for the bank, by kind and block. *)
BlockReads(b)  == { e \in BankEntry : e.trans.read /\ e.block = b }
BlockWrites(b) == { e \in BankEntry : ~e.trans.read /\ e.block = b }

(* A block that is being read or written keeps its tag until the bank has  *)
(* done so, and one that is not being written holds the node of its tag.   *)
BlockRight(b) ==
    /\ blocks[b].readCount = Number(bank, BlockReads(b))
    /\ Number(bank, BlockWrites(b)) = IF blocks[b].locked THEN 1 ELSE 0
    /\ blocks[b].locked => blocks[b].readCount = 0
    /\ blocks[b].valid => blocks[b].tag \in Nodes
    /\ blocks[b].valid /\ ~blocks[b].locked => blocks[b].data = blocks[b].tag

EntryRight(directory, e) ==
    LET b == directory[e.block]
    IN  /\ b.valid
        /\ e.trans.read  => b.tag = Tag(PageOf[e.trans.req], b.tag.level)
        /\ ~e.trans.read => b.tag = Tag(PageOf[e.trans.req], e.trans.level)

NodeOf(d) == d.data = Nothing \/ \E l \in Level : d.data = Tag(PageOf[d.req], l)

CacheRight ==
    /\ \A b \in Block : BlockRight(b)
    /\ \A i \in DOMAIN bank : EntryRight(blocks, bank[i])
    /\ \A i \in DOMAIN dataReady : NodeOf(dataReady[i])

IInv ==
    /\ TypeOK
    /\ Finite
    /\ EachRequestOnce
    /\ ReadsKnown
    /\ FetchedOnce
    /\ Fetches
    /\ Paused
    /\ PagesRight
    /\ CacheRight

-----------------------------------------------------------------------------
(* Queues that say what has been used least recently. *)

(* The entry that is moved to the end is taken from where it is.           *)
LEMMA FoundInSeq ==
    ASSUME NEW S, NEW q \in Seq(S), NEW w, NEW k \in DOMAIN q, q[k] = w
    PROVE  \E i \in 1..Len(q) : q[i] = w /\ RemoveFirst(q, w) = RemoveAt(q, i)
  <1> DEFINE I == { i \in 1..Len(q) : q[i] = w }
  <1>1. Len(q) \in Nat /\ DOMAIN q = 1..Len(q)
    BY LenProperties
  <1>2. I # {} /\ I \subseteq Nat
    BY <1>1
  <1>3. Min(I) \in I
    <2> HIDE DEF I
    <2> QED BY <1>2, MinIn
  <1>4. RemoveFirst(q, w) = RemoveAt(q, Min(I))
    BY <1>1, <1>2 DEF RemoveFirst, SelectInSeq
  <1> QED BY <1>3, <1>4

(* A visited way moves to the end of the queue, which holds the same ways. *)
LEMMA VisitKeeps ==
    ASSUME NEW S, NEW q \in Seq(S), NEW w \in Range(q)
    PROVE  /\ Append(RemoveFirst(q, w), w) \in Seq(S)
           /\ Range(Append(RemoveFirst(q, w), w)) = Range(q)
           /\ Len(Append(RemoveFirst(q, w), w)) = Len(q)
  <1>1. PICK k \in DOMAIN q : q[k] = w
    BY DEF Range
  <1>2. PICK i \in 1..Len(q) : q[i] = w /\ RemoveFirst(q, w) = RemoveAt(q, i)
    BY <1>1, FoundInSeq
  <1> DEFINE r == RemoveFirst(q, w)
             n == Len(q)
             t == Append(r, w)
  <1>3. n \in Nat /\ DOMAIN q = 1..n /\ \A j \in 1..n : q[j] \in S
    BY LenProperties, ElementOfSeq
  <1>4. /\ r \in Seq(S) /\ Len(r) = n - 1
        /\ \A j \in 1..(n - 1) : r[j] = IF j < i THEN q[j] ELSE q[j + 1]
    BY <1>2, RemoveAtProperties
  <1>5. w \in S
    BY <1>2, <1>3
  <1>6. i \in 1..n
    OBVIOUS
  <1> HIDE DEF r, n
  <1>7. /\ t \in Seq(S) /\ Len(t) = n /\ t[n] = w
        /\ \A j \in 1..(n - 1) : t[j] = r[j]
    <2>1. /\ t \in Seq(S) /\ Len(t) = Len(r) + 1 /\ t[Len(r) + 1] = w
          /\ \A j \in 1..Len(r) : t[j] = r[j]
      BY <1>4, <1>5, AppendProperties
    <2>2. Len(r) + 1 = n
      BY <1>3, <1>4
    <2> QED BY <1>4, <2>1, <2>2
  <1>8. DOMAIN t = 1..n
    BY <1>7, LenProperties
  <1> HIDE DEF t
  <1>9. \A j \in 1..n : \E m \in 1..n : t[j] = q[m]
    <2> TAKE j \in 1..n
    <2>1. CASE j = n
      BY <1>2, <1>6, <1>7, <2>1
    <2>2. CASE j # n
      <3>1. j \in 1..(n - 1) /\ j \in 1..n /\ j + 1 \in 1..n
        BY <1>3, <1>6, <2>2
      <3> QED BY <1>4, <1>7, <3>1
    <2> QED BY <2>1, <2>2
  <1>10. \A m \in 1..n : \E j \in 1..n : q[m] = t[j]
    <2> TAKE m \in 1..n
    <2>1. CASE m < i
      <3>1. m \in 1..(n - 1)
        BY <1>3, <1>6, <2>1
      <3> QED BY <1>4, <1>7, <2>1, <3>1
    <2>2. CASE m = i
      <3>1. n \in 1..n
        BY <1>3, <1>6
      <3> QED BY <1>2, <1>7, <2>2, <3>1
    <2>3. CASE m > i
      <3>1. m - 1 \in 1..(n - 1) /\ ~(m - 1 < i) /\ (m - 1) + 1 = m /\ m - 1 \in 1..n
        BY <1>3, <1>6, <2>3
      <3>2. t[m - 1] = q[m]
        BY <1>4, <1>7, <3>1
      <3> QED BY <3>1, <3>2
    <2> QED BY <1>3, <1>6, <2>1, <2>2, <2>3
  <1>11. Range(t) = Range(q)
    <2>1. Range(q) = { q[m] : m \in 1..n } /\ Range(t) = { t[j] : j \in 1..n }
      BY <1>3, <1>8 DEF Range
    <2>2. Range(t) \subseteq Range(q)
      BY <1>9, <2>1
    <2>3. Range(q) \subseteq Range(t)
      BY <1>10, <2>1
    <2> QED BY <2>2, <2>3
  <1> QED BY <1>7, <1>11 DEF t, r, n

-----------------------------------------------------------------------------
(* The page walk cache keeps its types. *)

LEMMA Capacities ==
    /\ PortCap \in Nat /\ PipeCap \in Nat /\ BankCap \in Nat
    /\ TopCap \in Nat /\ LookupCap \in Nat /\ MSHRCap \in Nat /\ BottomCap \in Nat
    /\ MaxWrites \in Nat /\ MaxFlushes \in Nat
  BY PageWalkCacheAssumption, LastLevelTLBAssumption

(* The transaction of a lookup. *)
LEMMA ReadType ==
    ASSUME NEW r \in Req
    PROVE  Read(r) \in Transaction /\ Read(r).read /\ Read(r).req = r
  <1>1. Read(r) \in Transaction
    BY DEF Transaction
  <1> QED BY <1>1 DEF Read

(* The transaction of a fill. *)
LEMMA WriteType ==
    ASSUME NEW r \in Req, NEW l \in Level
    PROVE  /\ Write(r, l) \in Transaction
           /\ ~Write(r, l).read /\ Write(r, l).req = r /\ Write(r, l).level = l
  <1>1. Write(r, l) \in Transaction
    BY DEF Transaction
  <1> QED BY <1>1 DEF Write

(* A transaction is a lookup or a fill. *)
LEMMA TransactionKinds ==
    ASSUME NEW t \in Transaction
    PROVE  /\ t.read \in BOOLEAN /\ t.req \in Req
           /\ t.read => t = Read(t.req)
           /\ ~t.read => t.level \in Level
  <1>1. (\E r \in Req : t = Read(r)) \/ \E r \in Req, l \in Level : t = Write(r, l)
    BY DEF Transaction
  <1>2. CASE \E r \in Req : t = Read(r)
    BY <1>2, ReadType
  <1>3. CASE \E r \in Req, l \in Level : t = Write(r, l)
    <2>1. PICK r \in Req, l \in Level : t = Write(r, l)
      BY <1>3
    <2>2. ~t.read /\ t.read \in BOOLEAN /\ t.req = r /\ t.level = l
      BY <2>1 DEF Write
    <2> QED BY <2>2
  <1> QED BY <1>1, <1>2, <1>3

(* Every request is for a page. *)
LEMMA PageIn == \A r \in Req : PageOf[r] \in Page
  BY PageWalkCacheAssumption

(* The tag of a page at a level is a node of the tree. *)
LEMMA TagType ==
    ASSUME NEW p \in Page, NEW l \in Level
    PROVE  Tag(p, l) \in Nodes /\ Tag(p, l).level = l
  BY DEF Tag, Nodes

(* A node has a level. *)
LEMMA NodeLevel ==
    ASSUME NEW n \in Nodes
    PROVE  n.level \in Level
  BY DEF Tag, Nodes

PipelineFinite == IsFiniteSet(pwcPipeline)

(* The victim is a block of the directory.                                 *)
LEMMA VictimType ==
    ASSUME PWCTypeOK
    PROVE  FindVictim \in Block
  <1> DEFINE n == Len(LRUQueue)
  <1>1. n \in Nat /\ n # 0 /\ \A i \in 1..n : LRUQueue[i] \in Block
    <2>1. LRUQueue \in Seq(Block) /\ Range(LRUQueue) = Block
      BY DEF PWCTypeOK
    <2>2. n \in Nat /\ DOMAIN LRUQueue = 1..n /\ \A i \in 1..n : LRUQueue[i] \in Block
      BY <2>1, LenProperties, ElementOfSeq
    <2>3. Range(LRUQueue) # {}
      BY <2>1, PageWalkCacheAssumption
    <2>4. n = 0 => 1..n = {}
      OBVIOUS
    <2> HIDE DEF n
    <2> QED BY <2>2, <2>3, <2>4 DEF Range
  <1> DEFINE free(b) == ~blocks[b].valid /\ ~blocks[b].locked
             unlocked(b) == ~blocks[b].locked
             I == { i \in 1..n : free(LRUQueue[i]) }
             J == { i \in 1..n : unlocked(LRUQueue[i]) }
             f == FirstBlock(free)
             u == FirstBlock(unlocked)
  <1>2. f = 0 \/ f \in 1..n
    <2>1. f = IF I # {} THEN Min(I) ELSE 0
      BY DEF FirstBlock, SelectInSeq
    <2>2. I \subseteq Nat /\ I \subseteq 1..n
      BY <1>1
    <2> HIDE DEF I, f, n
    <2>3. I # {} => Min(I) \in 1..n
      BY <2>2, MinIn
    <2> QED BY <2>1, <2>3
  <1>3. u = 0 \/ u \in 1..n
    <2>1. u = IF J # {} THEN Min(J) ELSE 0
      BY DEF FirstBlock, SelectInSeq
    <2>2. J \subseteq Nat /\ J \subseteq 1..n
      BY <1>1
    <2> HIDE DEF J, u, n
    <2>3. J # {} => Min(J) \in 1..n
      BY <2>2, MinIn
    <2> QED BY <2>1, <2>3
  <1>4. FindVictim = LRUQueue[ CASE f # 0 -> f [] f = 0 /\ u # 0 -> u [] OTHER -> 1 ]
    BY DEF FindVictim
  <1>5. 1 \in 1..n
    BY <1>1
  <1> HIDE DEF f, u, n
  <1>6. CASE f # 0
    BY <1>1, <1>2, <1>4, <1>6
  <1>7. CASE f = 0 /\ u # 0
    BY <1>1, <1>3, <1>4, <1>7
  <1>8. CASE f = 0 /\ u = 0
    BY <1>1, <1>4, <1>5, <1>8
  <1> QED BY <1>6, <1>7, <1>8

(* A visited block moves to the end of the LRU queue, which holds the same *)
(* blocks.                                                                 *)
LEMMA VisitBlockType ==
    ASSUME PWCTypeOK, NEW b \in Block, VisitBlock(b)
    PROVE  /\ LRUQueue' \in Seq(Block) /\ Range(LRUQueue') = Block
           /\ Len(LRUQueue') = Cardinality(Block)
  BY VisitKeeps DEF PWCTypeOK, VisitBlock

(* A block that is taken for a node that is not there yet.                 *)
Taken(e, n) == [e EXCEPT !.locked = TRUE, !.tag = n, !.valid = TRUE]

(* A block taken for a node is a block. *)
LEMMA BlockTaken ==
    ASSUME NEW e \in CacheBlock, NEW n \in Nodes
    PROVE  Taken(e, n) \in CacheBlock
  <1> DEFINE l == [e EXCEPT !.locked = TRUE]
             t == [l EXCEPT !.tag = n]
             v == [t EXCEPT !.valid = TRUE]
  <1>1. l \in CacheBlock
    BY DEF CacheBlock
  <1> HIDE DEF l
  <1>2. t \in CacheBlock
    BY <1>1 DEF CacheBlock
  <1> HIDE DEF t
  <1>3. v \in CacheBlock
    BY <1>2 DEF CacheBlock
  <1> QED BY <1>3 DEF l, t, Taken

(* A step of the page walk cache keeps its types. *)
LEMMA PWCTypeStep ==
    ASSUME PWCTypeOK, PipelineFinite, CacheRight, PWCStep
    PROVE  PWCTypeOK' /\ PipelineFinite'
  <1> USE Capacities
  <1> DEFINE Kind == { t \in Transaction : ~t.read }
  <1>13. blocks \in [Block -> CacheBlock]
    BY DEF PWCTypeOK, CacheBlock
  <1>1. ASSUME ParseReads PROVE PWCTypeOK' /\ PipelineFinite'
    <2>1. Tail(toTop) \in Seq(Req) /\ Len(Tail(toTop)) <= PortCap /\ Head(toTop) \in Req
      BY <1>1, Popped DEF ParseReads, PWCTypeOK
    <2>2. IsFiniteSet(pwcPipeline') /\ Cardinality(pwcPipeline') <= PipeCap
      BY <1>1, Included DEF ParseReads, PipelineFinite
    <2>3. pwcPipeline' \subseteq Transaction
      BY <1>1, <2>1, ReadType DEF ParseReads, PWCTypeOK
    <2> QED BY <1>1, <2>1, <2>2, <2>3 DEF ParseReads, PWCTypeOK, PipelineFinite
  <1>2. ASSUME ParseWrites PROVE PWCTypeOK' /\ PipelineFinite'
    <2>1. Tail(toMMUs) \in Seq(Kind) /\ Len(Tail(toMMUs)) <= PortCap /\ Head(toMMUs) \in Kind
      <3> HIDE DEF Kind
      <3>1. toMMUs \in Seq(Kind) /\ Len(toMMUs) <= PortCap
        BY DEF PWCTypeOK, Kind
      <3> QED BY <1>2, <3>1, Popped DEF ParseWrites
    <2>2. IsFiniteSet(pwcPipeline') /\ Cardinality(pwcPipeline') <= PipeCap
      BY <1>2, Included DEF ParseWrites, PipelineFinite
    <2>3. pwcPipeline' \subseteq Transaction
      BY <1>2, <2>1 DEF ParseWrites, PWCTypeOK
    <2> QED BY <1>2, <2>1, <2>2, <2>3 DEF ParseWrites, PWCTypeOK, PipelineFinite
  <1>3. ASSUME NEW t \in pwcPipeline, PWCPipelineTick(t) PROVE PWCTypeOK' /\ PipelineFinite'
    <2>1. pwcLookup' \in Seq(Transaction) /\ Len(pwcLookup') <= PipeCap
      BY <1>3, Pushed DEF PWCPipelineTick, CanPush, PWCTypeOK
    <2>2. IsFiniteSet(pwcPipeline') /\ Cardinality(pwcPipeline') <= PipeCap
      BY <1>3, Excluded DEF PWCPipelineTick, PipelineFinite, PWCTypeOK
    <2>3. pwcPipeline' \subseteq Transaction
      BY <1>3 DEF PWCPipelineTick, PWCTypeOK
    <2> QED BY <1>3, <2>1, <2>2, <2>3 DEF PWCPipelineTick, PWCTypeOK, PipelineFinite
  <1>4. ASSUME pwcLookup # <<>>, pwcLookup' = Tail(pwcLookup)
        PROVE  /\ pwcLookup' \in Seq(Transaction) /\ Len(pwcLookup') <= PipeCap
               /\ Head(pwcLookup) \in Transaction
    BY <1>4, Popped DEF PWCTypeOK
  <1>5. ASSUME HandleReadMiss PROVE PWCTypeOK' /\ PipelineFinite'
    <2>1. /\ pwcLookup' \in Seq(Transaction) /\ Len(pwcLookup') <= PipeCap
          /\ Head(pwcLookup) \in Transaction
      BY <1>4, <1>5 DEF HandleReadMiss, LooksUp
    <2>2. [req |-> Head(pwcLookup).req, data |-> Nothing] \in CacheAnswer
      BY <2>1, TransactionKinds DEF CacheAnswer
    <2>3. dataReady' \in Seq(CacheAnswer)
      <3>1. dataReady \in Seq(CacheAnswer)
        BY DEF PWCTypeOK, CacheAnswer
      <3> QED BY <1>5, <2>2, <3>1, AppendAt DEF HandleReadMiss
    <2> QED BY <1>5, <2>1, <2>3 DEF HandleReadMiss, PWCTypeOK, PipelineFinite, CacheAnswer
  <1>6. ASSUME NEW b \in Block, CanPush(bank, BankCap), Head(pwcLookup) \in Transaction,
               bank' = Append(bank, [trans |-> Head(pwcLookup), block |-> b])
        PROVE  bank' \in Seq(BankEntry) /\ Len(bank') <= BankCap
    <2>1. [trans |-> Head(pwcLookup), block |-> b] \in BankEntry
      BY <1>6 DEF BankEntry
    <2>2. bank \in Seq(BankEntry)
      BY DEF PWCTypeOK, BankEntry
    <2> QED BY <1>6, <2>1, <2>2, Pushed DEF CanPush
  <1>7. ASSUME HandleReadHit PROVE PWCTypeOK' /\ PipelineFinite'
    <2>1. /\ pwcLookup' \in Seq(Transaction) /\ Len(pwcLookup') <= PipeCap
          /\ Head(pwcLookup) \in Transaction
      BY <1>4, <1>7 DEF HandleReadHit, LooksUp
    <2>2. PICK b \in Block :
            /\ VisitBlock(b)
            /\ blocks' = [blocks EXCEPT ![b].readCount = @ + 1]
            /\ bank' = Append(bank, [trans |-> Head(pwcLookup), block |-> b])
      BY <1>7 DEF HandleReadHit, LookupBlock
    <2>3. bank' \in Seq(BankEntry) /\ Len(bank') <= BankCap
      BY <1>6, <1>7, <2>1, <2>2 DEF HandleReadHit
    <2>4. blocks[b].readCount + 1 \in 0..BankCap
      <3>1. bank \in Seq(BankEntry)
        BY DEF PWCTypeOK, BankEntry
      <3>2. /\ Number(bank, BlockReads(b)) \in Nat /\ Number(bank, BlockReads(b)) <= Len(bank)
            /\ Len(bank) \in Nat
        BY <3>1, NumberIn, LenProperties
      <3>3. blocks[b].readCount = Number(bank, BlockReads(b))
        BY DEF CacheRight, BlockRight
      <3>4. Len(bank) < BankCap
        BY <1>7 DEF HandleReadHit, CanPush
      <3> QED BY <3>2, <3>3, <3>4
    <2>5. blocks' \in [Block -> CacheBlock]
      BY <1>13, <2>2, <2>4 DEF CacheBlock
    <2> QED BY <1>7, <2>1, <2>2, <2>3, <2>5, VisitBlockType
            DEF HandleReadHit, PWCTypeOK, PipelineFinite, BankEntry, CacheBlock
  <1>8. ASSUME DoWriteHit PROVE PWCTypeOK' /\ PipelineFinite'
    <2>1. /\ pwcLookup' \in Seq(Transaction) /\ Len(pwcLookup') <= PipeCap
      BY <1>4, <1>8 DEF DoWriteHit, LooksUp
    <2>2. PICK b \in Block : VisitBlock(b)
      BY <1>8 DEF DoWriteHit, LookupExactAddress
    <2> QED BY <1>8, <2>1, <2>2, VisitBlockType DEF DoWriteHit, PWCTypeOK, PipelineFinite
  <1>9. ASSUME DoWriteMiss PROVE PWCTypeOK' /\ PipelineFinite'
    <2>1. /\ pwcLookup' \in Seq(Transaction) /\ Len(pwcLookup') <= PipeCap
          /\ Head(pwcLookup) \in Transaction
      BY <1>4, <1>9 DEF DoWriteMiss, LooksUp
    <2> DEFINE b == FindVictim
    <2>2. /\ b \in Block /\ VisitBlock(b)
          /\ blocks' = [blocks EXCEPT ![b].locked = TRUE, ![b].tag = WriteTag, ![b].valid = TRUE]
          /\ bank' = Append(bank, [trans |-> Head(pwcLookup), block |-> b])
      <3>1. b \in Block
        BY VictimType
      <3>2. VisitBlock(b)
        BY <1>9 DEF DoWriteMiss
      <3>3. blocks' = [blocks EXCEPT ![b].locked = TRUE, ![b].tag = WriteTag, ![b].valid = TRUE]
        BY <1>9 DEF DoWriteMiss
      <3>4. bank' = Append(bank, [trans |-> Head(pwcLookup), block |-> b])
        BY <1>9 DEF DoWriteMiss
      <3> HIDE DEF b
      <3> QED BY <3>1, <3>2, <3>3, <3>4
    <2> HIDE DEF b
    <2>3. bank' \in Seq(BankEntry) /\ Len(bank') <= BankCap
      <3>1. CanPush(bank, BankCap)
        BY <1>9 DEF DoWriteMiss
      <3> QED BY <1>6, <2>1, <2>2, <3>1
    <2>4. WriteTag \in Nodes
      BY <1>9, <2>1, TransactionKinds, PageIn, TagType DEF DoWriteMiss, LooksUp, WriteTag, LookedUp
    <2>5. blocks' \in [Block -> CacheBlock]
      <3> DEFINE c == Taken(blocks[b], WriteTag)
      <3>1. c \in CacheBlock
        <4>1. blocks[b] \in CacheBlock
          BY <1>13, <2>2
        <4> QED BY <2>4, <4>1, BlockTaken
      <3>2. blocks' = [blocks EXCEPT ![b] = c]
        BY <1>13, <2>2 DEF Taken
      <3> HIDE DEF c
      <3> QED BY <1>13, <3>1, <3>2
    <2> QED BY <1>9, <2>1, <2>2, <2>3, <2>5, VisitBlockType
            DEF DoWriteMiss, PWCTypeOK, PipelineFinite, BankEntry, CacheBlock
  <1>10. ASSUME bank # <<>>, bank' = Tail(bank)
         PROVE  bank' \in Seq(BankEntry) /\ Len(bank') <= BankCap /\ Head(bank) \in BankEntry
    <2>1. bank \in Seq(BankEntry) /\ Len(bank) <= BankCap
      BY DEF PWCTypeOK, BankEntry
    <2> QED BY <1>10, <2>1, Popped
  <1>11. ASSUME FinalizeReadHit PROVE PWCTypeOK' /\ PipelineFinite'
    <2> DEFINE b == Head(bank).block
    <2>1. /\ bank' \in Seq(BankEntry) /\ Len(bank') <= BankCap
          /\ Head(bank) \in BankEntry
      BY <1>10, <1>11 DEF FinalizeReadHit
    <2>2. b \in Block /\ Head(bank).trans.req \in Req
      BY <2>1, TransactionKinds DEF BankEntry
    <2>3. [req |-> Head(bank).trans.req, data |-> blocks[b].data] \in CacheAnswer
      BY <2>2 DEF PWCTypeOK, CacheAnswer
    <2>4. dataReady' \in Seq(CacheAnswer)
      <3>1. dataReady \in Seq(CacheAnswer)
        BY DEF PWCTypeOK, CacheAnswer
      <3> QED BY <1>11, <2>3, <3>1, AppendAt DEF FinalizeReadHit
    <2>5. blocks[b].readCount - 1 \in 0..BankCap
      <3>1. bank \in Seq(BankEntry) /\ bank # <<>>
        BY <1>11 DEF PWCTypeOK, BankEntry, FinalizeReadHit
      <3>2. Head(bank) \in BlockReads(b)
        BY <1>11, <2>1 DEF FinalizeReadHit, BlockReads
      <3>3. Number(bank, BlockReads(b)) # 0
        BY <3>1, <3>2, TailAt, NumberIn
      <3>4. blocks[b].readCount = Number(bank, BlockReads(b)) /\ blocks[b].readCount \in 0..BankCap
        BY <2>2 DEF CacheRight, BlockRight, PWCTypeOK
      <3> HIDE DEF b
      <3> QED BY <3>3, <3>4
    <2>6. blocks' = [blocks EXCEPT ![b].readCount = @ - 1]
      BY <1>11 DEF FinalizeReadHit
    <2>7. blocks' \in [Block -> CacheBlock]
      <3> HIDE DEF b
      <3> QED BY <1>13, <2>2, <2>5, <2>6 DEF CacheBlock
    <2> QED BY <1>11, <2>1, <2>4, <2>7
            DEF FinalizeReadHit, PWCTypeOK, PipelineFinite, BankEntry, CacheAnswer, CacheBlock
  <1>12. ASSUME FinalizeWriteHit PROVE PWCTypeOK' /\ PipelineFinite'
    <2> DEFINE b == Head(bank).block
               n == Tag(PageOf[Head(bank).trans.req], Head(bank).trans.level)
    <2>1. /\ bank' \in Seq(BankEntry) /\ Len(bank') <= BankCap
          /\ Head(bank) \in BankEntry
      BY <1>10, <1>12 DEF FinalizeWriteHit
    <2>2. b \in Block /\ n \in Nodes
      BY <1>12, <2>1, TransactionKinds, PageIn, TagType DEF BankEntry, FinalizeWriteHit
    <2>3. blocks' = [blocks EXCEPT ![b].data = n, ![b].locked = FALSE]
      BY <1>12 DEF FinalizeWriteHit
    <2>4. blocks' \in [Block -> CacheBlock]
      <3> HIDE DEF b, n
      <3> DEFINE c == [blocks[b] EXCEPT !.data = n, !.locked = FALSE]
      <3>1. c \in CacheBlock
        BY <1>13, <2>2 DEF CacheBlock
      <3>2. blocks' = [blocks EXCEPT ![b] = c]
        BY <1>13, <2>2, <2>3
      <3> HIDE DEF c
      <3> QED BY <1>13, <3>1, <3>2
    <2>5. UNCHANGED <<toTop, toMMUs, pwcPipeline, pwcLookup, LRUQueue, dataReady>>
      BY <1>12 DEF FinalizeWriteHit
    <2> HIDE DEF b, n
    <2> QED BY <2>1, <2>4, <2>5 DEF PWCTypeOK, PipelineFinite, BankEntry, CacheBlock
  <1> QED BY <1>1, <1>2, <1>3, <1>5, <1>7, <1>8, <1>9, <1>11, <1>12 DEF PWCStep

-----------------------------------------------------------------------------
(* The page walk cache loses no read and answers none twice. *)

LEMMA ReadsOf ==
    ASSUME NEW r \in Req, NEW t \in Transaction
    PROVE  t \in {Read(r)} <=> t.read /\ t.req = r
  BY ReadType, TransactionKinds

(* What the page walk cache has of a request are numbers. *)
LEMMA ReadsType ==
    ASSUME PWCTypeOK, NEW r \in Req
    PROVE  /\ Number(toTop, {r}) \in Nat /\ Number(pwcLookup, {Read(r)}) \in Nat
           /\ Number(bank, BankReads(r)) \in Nat /\ Number(dataReady, AnswersTo(r)) \in Nat
  <1>1. /\ toTop \in Seq(Req) /\ pwcLookup \in Seq(Transaction)
        /\ bank \in Seq(BankEntry) /\ dataReady \in Seq(CacheAnswer)
    BY DEF PWCTypeOK, BankEntry, CacheAnswer
  <1> QED BY <1>1, NumberIn

(* A step of the page walk cache loses and duplicates no lookup. *)
LEMMA ReadsKept ==
    ASSUME PWCTypeOK, ReadsKnown, PWCStep, NEW r \in Req
    PROVE  Reads(r)' = Reads(r)
  <1> DEFINE T == Number(toTop, {r})
             L == Number(pwcLookup, {Read(r)})
             B == Number(bank, BankReads(r))
             D == Number(dataReady, AnswersTo(r))
             P == IF Read(r) \in pwcPipeline THEN 1 ELSE 0
  <1>1. /\ toTop \in Seq(Req) /\ pwcLookup \in Seq(Transaction)
        /\ bank \in Seq(BankEntry) /\ dataReady \in Seq(CacheAnswer)
        /\ toMMUs \in Seq({ t \in Transaction : ~t.read })
        /\ pwcPipeline \subseteq Transaction
    BY DEF PWCTypeOK, BankEntry, CacheAnswer
  <1>2. T \in Nat /\ L \in Nat /\ B \in Nat /\ D \in Nat /\ P \in 0..1
    BY ReadsType
  <1>3. T + L + B + D + P \in 0..1
    BY DEF ReadsKnown, Reads
  <1>4. SUFFICES T' + L' + B' + D' + P' = T + L + B + D + P
    BY DEF Reads
  <1>5. /\ toTop' = toTop => T' = T
        /\ pwcLookup' = pwcLookup => L' = L
        /\ bank' = bank => B' = B
        /\ dataReady' = dataReady => D' = D
        /\ pwcPipeline' = pwcPipeline => P' = P
    OBVIOUS
  <1>6. toTop # <<>> /\ toTop' = Tail(toTop)
          => /\ T' \in Nat /\ Head(toTop) \in Req
             /\ T = T' + IF Head(toTop) = r THEN 1 ELSE 0
    BY <1>1, NumberTail, TailAt
  <1>7. \A t \in Transaction :
          pwcLookup' = Append(pwcLookup, t) => L' = L + IF t \in {Read(r)} THEN 1 ELSE 0
    BY <1>1, NumberAppend
  <1>8. pwcLookup # <<>> /\ pwcLookup' = Tail(pwcLookup)
          => /\ L' \in Nat /\ Head(pwcLookup) \in Transaction
             /\ L = L' + IF Head(pwcLookup) \in {Read(r)} THEN 1 ELSE 0
    BY <1>1, NumberTail, TailAt
  <1>9. \A e \in BankEntry :
          bank' = Append(bank, e) => B' = B + IF e.trans \in {Read(r)} THEN 1 ELSE 0
    <2> TAKE e \in BankEntry
    <2>1. e \in BankReads(r) <=> e.trans \in {Read(r)}
      BY DEF BankReads
    <2> QED BY <1>1, <2>1, NumberAppend
  <1>10. bank # <<>> /\ bank' = Tail(bank)
          => /\ B' \in Nat /\ Head(bank) \in BankEntry
             /\ B = B' + IF Head(bank).trans \in {Read(r)} THEN 1 ELSE 0
    <2> SUFFICES ASSUME bank # <<>>, bank' = Tail(bank)
                 PROVE  /\ B' \in Nat /\ Head(bank) \in BankEntry
                        /\ B = B' + IF Head(bank).trans \in {Read(r)} THEN 1 ELSE 0
      OBVIOUS
    <2>1. Head(bank) \in BankEntry
      BY <1>1, TailAt
    <2>2. Head(bank) \in BankReads(r) <=> Head(bank).trans \in {Read(r)}
      BY <2>1 DEF BankReads
    <2> QED BY <1>1, <2>1, <2>2, NumberTail
  <1>11. \A d \in CacheAnswer :
          dataReady' = Append(dataReady, d) => D' = D + IF d.req = r THEN 1 ELSE 0
    <2> TAKE d \in CacheAnswer
    <2>1. d \in AnswersTo(r) <=> d.req = r
      BY DEF AnswersTo
    <2> QED BY <1>1, <2>1, NumberAppend
  <1> HIDE DEF T, L, B, D
  <1>12. ASSUME ParseReads PROVE T' + L' + B' + D' + P' = T + L + B + D + P
    <2> DEFINE h == Head(toTop)
    <2>1. h \in Req /\ T' \in Nat /\ T = T' + IF h = r THEN 1 ELSE 0
      BY <1>6, <1>12 DEF ParseReads
    <2>2. P' = IF Read(r) \in pwcPipeline \/ Read(r) = Read(h) THEN 1 ELSE 0
      BY <1>12 DEF ParseReads
    <2>3. Read(r) = Read(h) <=> r = h
      BY <2>1, ReadType
    <2>4. h = r => Read(r) \notin pwcPipeline
      <3>1. h = r => T # 0
        BY <1>1, <1>12, TailAt, NumberIn DEF T, ParseReads
      <3>2. h = r => P = 0
        <4> HIDE DEF P, h
        <4> QED BY <1>2, <1>3, <3>1
      <3> QED BY <3>2
    <2>5. L' = L /\ B' = B /\ D' = D
      BY <1>5, <1>12 DEF ParseReads
    <2> QED BY <1>2, <2>1, <2>2, <2>3, <2>4, <2>5
  <1>13. ASSUME ParseWrites PROVE T' + L' + B' + D' + P' = T + L + B + D + P
    <2>1. toMMUs # <<>> /\ pwcPipeline' = pwcPipeline \cup {Head(toMMUs)}
      BY <1>13 DEF ParseWrites
    <2>2. Head(toMMUs) \in { t \in Transaction : ~t.read }
      BY <1>1, <2>1, TailAt
    <2>3. Read(r) # Head(toMMUs)
      BY <2>2, ReadType
    <2>4. P' = P
      BY <2>1, <2>3
    <2> QED BY <1>5, <1>13, <2>4 DEF ParseWrites
  <1>14. ASSUME NEW t \in pwcPipeline, PWCPipelineTick(t)
         PROVE  T' + L' + B' + D' + P' = T + L + B + D + P
    <2>1. L' = L + IF t \in {Read(r)} THEN 1 ELSE 0
      BY <1>1, <1>7, <1>14 DEF PWCPipelineTick
    <2>2. P' = IF Read(r) \in pwcPipeline /\ Read(r) # t THEN 1 ELSE 0
      BY <1>14 DEF PWCPipelineTick
    <2>3. T' = T /\ B' = B /\ D' = D
      BY <1>5, <1>14 DEF PWCPipelineTick
    <2> QED BY <1>2, <1>14, <2>1, <2>2, <2>3
  <1> HIDE DEF P
  <1>15. ASSUME HandleReadMiss PROVE T' + L' + B' + D' + P' = T + L + B + D + P
    <2> DEFINE h == Head(pwcLookup)
    <2>1. /\ h \in Transaction /\ h.read /\ L' \in Nat
          /\ L = L' + IF h \in {Read(r)} THEN 1 ELSE 0
      BY <1>8, <1>15 DEF HandleReadMiss, LooksUp
    <2>2. [req |-> h.req, data |-> Nothing] \in CacheAnswer
      BY <2>1, TransactionKinds DEF CacheAnswer
    <2>3. D' = D + IF h.req = r THEN 1 ELSE 0
      BY <1>11, <1>15, <2>2 DEF HandleReadMiss
    <2>4. h \in {Read(r)} <=> h.req = r
      BY <2>1, ReadsOf
    <2>5. T' = T /\ B' = B /\ P' = P
      BY <1>5, <1>15 DEF HandleReadMiss
    <2> HIDE DEF h
    <2> QED BY <1>2, <2>1, <2>3, <2>4, <2>5
  <1>16. ASSUME HandleReadHit \/ DoWriteMiss PROVE T' + L' + B' + D' + P' = T + L + B + D + P
    <2> DEFINE h == Head(pwcLookup)
    <2>1. /\ h \in Transaction /\ L' \in Nat
          /\ L = L' + IF h \in {Read(r)} THEN 1 ELSE 0
      BY <1>8, <1>16 DEF HandleReadHit, DoWriteMiss, LooksUp
    <2>2. \E b \in Block : bank' = Append(bank, [trans |-> h, block |-> b])
      BY <1>16, VictimType DEF HandleReadHit, DoWriteMiss, LookupBlock
    <2>3. B' = B + IF h \in {Read(r)} THEN 1 ELSE 0
      <3>1. PICK b \in Block : bank' = Append(bank, [trans |-> h, block |-> b])
        BY <2>2
      <3>2. [trans |-> h, block |-> b] \in BankEntry
        BY <2>1 DEF BankEntry
      <3> QED BY <1>9, <3>1, <3>2
    <2>4. T' = T /\ D' = D /\ P' = P
      BY <1>5, <1>16 DEF HandleReadHit, DoWriteMiss
    <2> HIDE DEF h
    <2> QED BY <1>2, <2>1, <2>3, <2>4
  <1>17. ASSUME DoWriteHit PROVE T' + L' + B' + D' + P' = T + L + B + D + P
    <2>1. /\ Head(pwcLookup) \in Transaction /\ ~Head(pwcLookup).read /\ L' \in Nat
          /\ L = L' + IF Head(pwcLookup) \in {Read(r)} THEN 1 ELSE 0
      BY <1>8, <1>17 DEF DoWriteHit, LooksUp
    <2>2. Head(pwcLookup) \notin {Read(r)}
      BY <2>1, ReadsOf
    <2>3. T' = T /\ B' = B /\ D' = D /\ P' = P
      BY <1>5, <1>17 DEF DoWriteHit
    <2> QED BY <1>2, <2>1, <2>2, <2>3
  <1>18. ASSUME FinalizeReadHit PROVE T' + L' + B' + D' + P' = T + L + B + D + P
    <2> DEFINE t == Head(bank).trans
    <2>1. /\ Head(bank) \in BankEntry /\ t.read /\ B' \in Nat
          /\ B = B' + IF t \in {Read(r)} THEN 1 ELSE 0
      BY <1>10, <1>18 DEF FinalizeReadHit
    <2>2. t \in Transaction /\ Head(bank).block \in Block
      BY <2>1 DEF BankEntry
    <2>3. [req |-> t.req, data |-> blocks[Head(bank).block].data] \in CacheAnswer
      BY <2>2, TransactionKinds DEF CacheAnswer, PWCTypeOK
    <2>4. D' = D + IF t.req = r THEN 1 ELSE 0
      BY <1>11, <1>18, <2>3 DEF FinalizeReadHit
    <2>5. t \in {Read(r)} <=> t.req = r
      BY <2>1, <2>2, ReadsOf
    <2>6. T' = T /\ L' = L /\ P' = P
      BY <1>5, <1>18 DEF FinalizeReadHit
    <2> HIDE DEF t
    <2> QED BY <1>2, <2>1, <2>4, <2>5, <2>6
  <1>19. ASSUME FinalizeWriteHit PROVE T' + L' + B' + D' + P' = T + L + B + D + P
    <2> DEFINE t == Head(bank).trans
    <2>1. /\ Head(bank) \in BankEntry /\ ~t.read /\ B' \in Nat
          /\ B = B' + IF t \in {Read(r)} THEN 1 ELSE 0
      BY <1>10, <1>19 DEF FinalizeWriteHit
    <2>2. t \notin {Read(r)}
      <3>1. t \in Transaction
        BY <2>1 DEF BankEntry
      <3> QED BY <2>1, <3>1, ReadsOf
    <2>3. T' = T /\ L' = L /\ D' = D /\ P' = P
      BY <1>5, <1>19 DEF FinalizeWriteHit
    <2> HIDE DEF t
    <2> QED BY <1>2, <2>1, <2>2, <2>3
  <1> QED BY <1>12, <1>13, <1>14, <1>15, <1>16, <1>17, <1>18, <1>19 DEF PWCStep

-----------------------------------------------------------------------------
(* The page walk cache answers with nodes on the way to the page.          *)

LEMMA BlockCounts ==
    ASSUME PWCTypeOK, NEW b \in Block
    PROVE  Number(bank, BlockReads(b)) \in Nat /\ Number(bank, BlockWrites(b)) \in Nat
  <1>1. bank \in Seq(BankEntry)
    BY DEF PWCTypeOK, BankEntry
  <1> QED BY <1>1, NumberIn

(* A block in the bank is read, and then not locked, or written and locked. *)
LEMMA InBank ==
    ASSUME PWCTypeOK, CacheRight, NEW i \in DOMAIN bank
    PROVE  /\ bank[i] \in BankEntry
           /\ bank[i].trans.read => ~blocks[bank[i].block].locked /\ blocks[bank[i].block].readCount # 0
           /\ ~bank[i].trans.read => blocks[bank[i].block].locked
  <1> DEFINE e == bank[i]
             b == e.block
  <1>1. bank \in Seq(BankEntry)
    BY DEF PWCTypeOK, BankEntry
  <1>2. e \in BankEntry
    BY <1>1, LenProperties, ElementOfSeq
  <1>3. b \in Block
    BY <1>2 DEF BankEntry
  <1>4. BlockRight(b)
    BY <1>3 DEF CacheRight
  <1>5. e.trans.read \in BOOLEAN
    BY <1>2, TransactionKinds DEF BankEntry
  <1>6. e.trans.read => Number(bank, BlockReads(b)) # 0
    <2>1. e.trans.read => e \in BlockReads(b)
      BY <1>2 DEF BlockReads
    <2> QED BY <1>1, <2>1, NumberIn
  <1>7. ~e.trans.read => Number(bank, BlockWrites(b)) # 0
    <2>1. ~e.trans.read => e \in BlockWrites(b)
      BY <1>2 DEF BlockWrites
    <2> QED BY <1>1, <2>1, NumberIn
  <1> HIDE DEF e, b
  <1>8. /\ e \in BankEntry
        /\ e.trans.read => ~blocks[b].locked /\ blocks[b].readCount # 0
        /\ ~e.trans.read => blocks[b].locked
    BY <1>2, <1>4, <1>6, <1>7 DEF BlockRight
  <1> QED BY <1>8 DEF e, b

(* The counts of a block follow the bank.                                  *)
LEMMA BankGrows ==
    ASSUME PWCTypeOK, NEW e \in BankEntry, bank' = Append(bank, e), NEW b \in Block
    PROVE  /\ Number(bank, BlockReads(b))' = Number(bank, BlockReads(b))
                                             + IF e.trans.read /\ e.block = b THEN 1 ELSE 0
           /\ Number(bank, BlockWrites(b))' = Number(bank, BlockWrites(b))
                                             + IF ~e.trans.read /\ e.block = b THEN 1 ELSE 0
  <1>1. bank \in Seq(BankEntry)
    BY DEF PWCTypeOK, BankEntry
  <1>2. e \in BlockReads(b) <=> e.trans.read /\ e.block = b
    BY DEF BlockReads
  <1>3. e \in BlockWrites(b) <=> ~e.trans.read /\ e.block = b
    BY DEF BlockWrites
  <1>4. Number(bank, BlockReads(b))' = Number(bank', BlockReads(b))
        /\ Number(bank, BlockWrites(b))' = Number(bank', BlockWrites(b))
    BY DEF Number
  <1>5. Number(bank', BlockReads(b)) = Number(bank, BlockReads(b))
                                        + IF e \in BlockReads(b) THEN 1 ELSE 0
    BY <1>1, NumberAppend
  <1>6. Number(bank', BlockWrites(b)) = Number(bank, BlockWrites(b))
                                        + IF e \in BlockWrites(b) THEN 1 ELSE 0
    BY <1>1, NumberAppend
  <1> QED BY <1>2, <1>3, <1>4, <1>5, <1>6

(* The bank without its head counts that transaction less. *)
LEMMA BankShrinks ==
    ASSUME PWCTypeOK, bank # <<>>, bank' = Tail(bank), NEW b \in Block
    PROVE  /\ Number(bank, BlockReads(b))' \in Nat /\ Number(bank, BlockWrites(b))' \in Nat
           /\ Number(bank, BlockReads(b)) = Number(bank, BlockReads(b))'
                         + IF Head(bank).trans.read /\ Head(bank).block = b THEN 1 ELSE 0
           /\ Number(bank, BlockWrites(b)) = Number(bank, BlockWrites(b))'
                         + IF ~Head(bank).trans.read /\ Head(bank).block = b THEN 1 ELSE 0
  <1> DEFINE e == Head(bank)
  <1>1. bank \in Seq(BankEntry) /\ e \in BankEntry
    BY TailAt DEF PWCTypeOK, BankEntry
  <1>2. e \in BlockReads(b) <=> e.trans.read /\ e.block = b
    BY <1>1 DEF BlockReads
  <1>3. e \in BlockWrites(b) <=> ~e.trans.read /\ e.block = b
    BY <1>1 DEF BlockWrites
  <1>4. Number(bank, BlockReads(b))' = Number(bank', BlockReads(b))
        /\ Number(bank, BlockWrites(b))' = Number(bank', BlockWrites(b))
    BY DEF Number
  <1>5. /\ Number(bank', BlockReads(b)) \in Nat
        /\ Number(bank, BlockReads(b)) = Number(bank', BlockReads(b))
                                          + IF e \in BlockReads(b) THEN 1 ELSE 0
    BY <1>1, NumberTail
  <1>6. /\ Number(bank', BlockWrites(b)) \in Nat
        /\ Number(bank, BlockWrites(b)) = Number(bank', BlockWrites(b))
                                          + IF e \in BlockWrites(b) THEN 1 ELSE 0
    BY <1>1, NumberTail
  <1> HIDE DEF e
  <1>7. /\ Number(bank, BlockReads(b)) = Number(bank, BlockReads(b))'
                         + IF e.trans.read /\ e.block = b THEN 1 ELSE 0
        /\ Number(bank, BlockWrites(b)) = Number(bank, BlockWrites(b))'
                         + IF ~e.trans.read /\ e.block = b THEN 1 ELSE 0
    BY <1>2, <1>3, <1>4, <1>5, <1>6
  <1> QED BY <1>4, <1>5, <1>6, <1>7 DEF e

(* Answers stay right when one is added or taken.                          *)
LEMMA AnswerAdded ==
    ASSUME PWCTypeOK, CacheRight, NEW d \in CacheAnswer, NodeOf(d), dataReady' = Append(dataReady, d)
    PROVE  (\A i \in DOMAIN dataReady : NodeOf(dataReady[i]))'
  <1>1. dataReady \in Seq(CacheAnswer)
    BY DEF PWCTypeOK, CacheAnswer
  <1>2. /\ DOMAIN dataReady' = DOMAIN dataReady \cup {Len(dataReady) + 1}
        /\ dataReady'[Len(dataReady) + 1] = d
        /\ \A i \in DOMAIN dataReady : dataReady'[i] = dataReady[i]
    BY <1>1, AppendAt
  <1>3. \A i \in DOMAIN dataReady : NodeOf(dataReady[i])
    BY DEF CacheRight
  <1>4. \A i \in DOMAIN dataReady' : NodeOf(dataReady'[i])
    BY <1>2, <1>3
  <1> QED BY <1>4 DEF NodeOf

(* Taking an answer leaves answers for the nodes they were read from. *)
LEMMA AnswerTaken ==
    ASSUME PWCTypeOK, CacheRight, dataReady # <<>>, dataReady' = Tail(dataReady)
    PROVE  (\A i \in DOMAIN dataReady : NodeOf(dataReady[i]))'
  <1>1. dataReady \in Seq(CacheAnswer)
    BY DEF PWCTypeOK, CacheAnswer
  <1>2. \A i \in DOMAIN dataReady' : i + 1 \in DOMAIN dataReady /\ dataReady'[i] = dataReady[i + 1]
    BY <1>1, TailAt
  <1>3. \A i \in DOMAIN dataReady : NodeOf(dataReady[i])
    BY DEF CacheRight
  <1>4. \A i \in DOMAIN dataReady' : NodeOf(dataReady'[i])
    BY <1>2, <1>3
  <1> QED BY <1>4 DEF NodeOf

(* The transactions in the bank stay right while the blocks they use do. *)
LEMMA EntriesStep ==
    ASSUME PWCTypeOK, CacheRight,
           \/ bank' = bank
           \/ bank # <<>> /\ bank' = Tail(bank)
           \/ \E e \in BankEntry : bank' = Append(bank, e) /\ EntryRight(blocks', e),
           \A e \in BankEntry :
               (\E i \in DOMAIN bank : bank[i] = e) /\ EntryRight(blocks, e) => EntryRight(blocks', e)
    PROVE  (\A i \in DOMAIN bank : EntryRight(blocks, bank[i]))'
  <1>1. bank \in Seq(BankEntry)
    BY DEF PWCTypeOK, BankEntry
  <1> DEFINE Old(x) == \E i \in DOMAIN bank : bank[i] = x
             Good(x) == EntryRight(blocks', x)
  <1>2. ASSUME NEW i \in DOMAIN bank PROVE Good(bank[i])
    <2>1. PICK e \in BankEntry : e = bank[i]
      BY <1>1, LenProperties, ElementOfSeq
    <2>2. EntryRight(blocks, e)
      BY <2>1 DEF CacheRight
    <2>3. Good(e)
      BY <2>1, <2>2
    <2> HIDE DEF Good
    <2> QED BY <2>1, <2>3
  <1>3. \A i \in DOMAIN bank' : (\E j \in DOMAIN bank : bank'[i] = bank[j]) \/ Good(bank'[i])
    <2> HIDE DEF Good
    <2>1. CASE bank' = bank
      BY <2>1
    <2>2. CASE bank # <<>> /\ bank' = Tail(bank)
      BY <1>1, <2>2, TailAt
    <2>3. CASE \E e \in BankEntry : bank' = Append(bank, e) /\ Good(e)
      <3>1. PICK e \in BankEntry : bank' = Append(bank, e) /\ Good(e)
        BY <2>3
      <3>2. /\ DOMAIN bank' = DOMAIN bank \cup {Len(bank) + 1}
            /\ bank'[Len(bank) + 1] = e
            /\ \A i \in DOMAIN bank : bank'[i] = bank[i]
        BY <1>1, <3>1, AppendAt
      <3> QED BY <3>1, <3>2
    <2> QED BY <2>1, <2>2, <2>3 DEF Good
  <1>4. \A i \in DOMAIN bank' : Good(bank'[i])
    <2> HIDE DEF Good
    <2> QED BY <1>2, <1>3
  <1> QED BY <1>4 DEF EntryRight

(* A step of the page walk cache keeps what it holds right. *)
LEMMA CacheStep ==
    ASSUME PWCTypeOK, CacheRight, PWCStep
    PROVE  CacheRight'
  <1>1. bank \in Seq(BankEntry)
    BY DEF PWCTypeOK, BankEntry
  <1> DEFINE Old(e) == \E i \in DOMAIN bank : bank[i] = e
  <1>2. ASSUME UNCHANGED <<bank, blocks>>, (\A i \in DOMAIN dataReady : NodeOf(dataReady[i]))'
        PROVE  CacheRight'
    <2>1. \A b \in Block : BlockRight(b)'
      <3> TAKE b \in Block
      <3>1. BlockRight(b)
        BY DEF CacheRight
      <3> QED BY <1>2, <3>1 DEF BlockRight
    <2>2. (\A i \in DOMAIN bank : EntryRight(blocks, bank[i]))'
      <3>1. \A i \in DOMAIN bank : EntryRight(blocks, bank[i])
        BY DEF CacheRight
      <3> QED BY <1>2, <3>1 DEF EntryRight
    <2> QED BY <1>2, <2>1, <2>2 DEF CacheRight
  <1>3. dataReady' = dataReady => (\A i \in DOMAIN dataReady : NodeOf(dataReady[i]))'
    <2>1. \A i \in DOMAIN dataReady : NodeOf(dataReady[i])
      BY DEF CacheRight
    <2> QED BY <2>1 DEF NodeOf
  <1>4. pwcLookup # <<>> => Head(pwcLookup) \in Transaction
    BY TailAt DEF PWCTypeOK
  <1>5. ASSUME \/ ParseReads \/ ParseWrites \/ DoWriteHit
               \/ \E t \in pwcPipeline : PWCPipelineTick(t)
        PROVE  CacheRight'
    BY <1>2, <1>3, <1>5 DEF ParseReads, ParseWrites, PWCPipelineTick, DoWriteHit
  <1>6. ASSUME HandleReadMiss PROVE CacheRight'
    <2> DEFINE d == [req |-> Head(pwcLookup).req, data |-> Nothing]
    <2>1. d \in CacheAnswer
      BY <1>4, <1>6, TransactionKinds DEF HandleReadMiss, LooksUp, CacheAnswer
    <2>2. NodeOf(d)
      BY DEF NodeOf
    <2>3. dataReady' = Append(dataReady, d)
      BY <1>6 DEF HandleReadMiss
    <2>4. (\A i \in DOMAIN dataReady : NodeOf(dataReady[i]))'
      <3> HIDE DEF d
      <3> QED BY <2>1, <2>2, <2>3, AnswerAdded
    <2> QED BY <1>2, <1>6, <2>4 DEF HandleReadMiss
  <1>7. ASSUME HandleReadHit PROVE CacheRight'
    <2> DEFINE h == Head(pwcLookup)
    <2>1. h \in Transaction /\ h.read
      BY <1>4, <1>7 DEF HandleReadHit, LooksUp
    <2>2. PICK b \in Block :
            /\ Matches(b, PageOf[h.req]) /\ ~blocks[b].locked
            /\ blocks' = [blocks EXCEPT ![b].readCount = @ + 1]
            /\ bank' = Append(bank, [trans |-> h, block |-> b])
      BY <1>7 DEF HandleReadHit, LookupBlock, LookedUp
    <2>3. PICK e \in BankEntry : e = [trans |-> h, block |-> b]
      BY <2>1 DEF BankEntry
    <2>4. /\ blocks'[b] = [blocks[b] EXCEPT !.readCount = @ + 1]
          /\ \A c \in Block : c # b => blocks'[c] = blocks[c]
          /\ \A c \in Block : /\ blocks'[c].valid = blocks[c].valid
                              /\ blocks'[c].tag = blocks[c].tag
                              /\ blocks'[c].locked = blocks[c].locked
                              /\ blocks'[c].data = blocks[c].data
      BY <2>2 DEF PWCTypeOK
    <2>5. blocks'[b].readCount = blocks[b].readCount + 1
      BY <2>4 DEF PWCTypeOK
    <2>6. \A c \in Block : BlockRight(c)'
      <3> TAKE c \in Block
      <3>1. /\ Number(bank, BlockReads(c))' = Number(bank, BlockReads(c)) + IF b = c THEN 1 ELSE 0
            /\ Number(bank, BlockWrites(c))' = Number(bank, BlockWrites(c))
            /\ Number(bank, BlockReads(c)) \in Nat /\ Number(bank, BlockWrites(c)) \in Nat
        BY <2>1, <2>2, <2>3, BankGrows, BlockCounts
      <3>2. BlockRight(c)
        BY DEF CacheRight
      <3>3. CASE c = b
        BY <2>2, <2>4, <2>5, <3>1, <3>2, <3>3 DEF BlockRight
      <3>4. CASE c # b
        <4>1. blocks'[c] = blocks[c]
          BY <2>4, <3>4
        <4>2. /\ Number(bank, BlockReads(c))' = Number(bank, BlockReads(c))
              /\ Number(bank, BlockWrites(c))' = Number(bank, BlockWrites(c))
          BY <3>1, <3>4
        <4> QED BY <3>2, <4>1, <4>2 DEF BlockRight
      <3> QED BY <3>3, <3>4
    <2>7. \A x \in BankEntry : EntryRight(blocks, x) => EntryRight(blocks', x)
      <3> TAKE x \in BankEntry
      <3>1. x.block \in Block
        BY DEF BankEntry
      <3> QED BY <2>4, <3>1 DEF EntryRight
    <2>8. EntryRight(blocks, e)
      BY <2>1, <2>2, <2>3 DEF EntryRight, Matches
    <2>9. (\A i \in DOMAIN bank : EntryRight(blocks, bank[i]))'
      BY <2>2, <2>3, <2>7, <2>8, EntriesStep
    <2>10. dataReady' = dataReady
      BY <1>7 DEF HandleReadHit
    <2> QED BY <1>3, <2>6, <2>9, <2>10 DEF CacheRight
  <1>8. ASSUME DoWriteMiss PROVE CacheRight'
    <2> DEFINE h == Head(pwcLookup)
               n == Tag(PageOf[h.req], h.level)
    <2>1. h \in Transaction /\ ~h.read
      BY <1>4, <1>8 DEF DoWriteMiss, LooksUp
    <2>2. PICK b \in Block :
            /\ ~blocks[b].locked /\ blocks[b].readCount = 0
            /\ blocks' = [blocks EXCEPT ![b].locked = TRUE, ![b].tag = n, ![b].valid = TRUE]
            /\ bank' = Append(bank, [trans |-> h, block |-> b])
      BY <1>8, VictimType DEF DoWriteMiss, WriteTag, LookedUp
    <2>3. PICK e \in BankEntry : e = [trans |-> h, block |-> b]
      BY <2>1 DEF BankEntry
    <2>4. n \in Nodes
      BY <2>1, TransactionKinds, PageIn, TagType
    <2> HIDE DEF n
    <2>5. /\ blocks'[b].valid /\ blocks'[b].locked /\ blocks'[b].tag = n
          /\ blocks'[b].readCount = blocks[b].readCount
          /\ \A c \in Block : c # b => blocks'[c] = blocks[c]
      BY <2>2 DEF PWCTypeOK
    <2>6. \A c \in Block : BlockRight(c)'
      <3> TAKE c \in Block
      <3>1. /\ Number(bank, BlockReads(c))' = Number(bank, BlockReads(c))
            /\ Number(bank, BlockWrites(c))' = Number(bank, BlockWrites(c)) + IF b = c THEN 1 ELSE 0
            /\ Number(bank, BlockReads(c)) \in Nat
        BY <2>1, <2>2, <2>3, BankGrows, BlockCounts
      <3>2. BlockRight(c)
        BY DEF CacheRight
      <3>3. CASE c = b
        BY <2>2, <2>4, <2>5, <3>1, <3>2, <3>3 DEF BlockRight
      <3>4. CASE c # b
        <4>1. blocks'[c] = blocks[c]
          BY <2>5, <3>4
        <4> QED BY <3>1, <3>2, <3>4, <4>1 DEF BlockRight
      <3> QED BY <3>3, <3>4
    <2>7. \A x \in BankEntry : Old(x) /\ EntryRight(blocks, x) => EntryRight(blocks', x)
      <3> TAKE x \in BankEntry
      <3>1. x.block \in Block /\ x.trans.read \in BOOLEAN
        BY TransactionKinds DEF BankEntry
      <3>2. Old(x) => x.block # b
        BY <2>2, <3>1, InBank
      <3> QED BY <2>5, <3>1, <3>2 DEF EntryRight
    <2>8. EntryRight(blocks', e)
      BY <2>1, <2>3, <2>5 DEF EntryRight, n
    <2>9. (\A i \in DOMAIN bank : EntryRight(blocks, bank[i]))'
      BY <2>2, <2>3, <2>7, <2>8, EntriesStep
    <2>10. dataReady' = dataReady
      BY <1>8 DEF DoWriteMiss
    <2> QED BY <1>3, <2>6, <2>9, <2>10 DEF CacheRight
  <1>9. ASSUME bank # <<>>
        PROVE  /\ Head(bank) \in BankEntry /\ Head(bank).block \in Block
               /\ Head(bank).trans \in Transaction
               /\ EntryRight(blocks, Head(bank)) /\ BlockRight(Head(bank).block)
               /\ Head(bank).trans.read => ~blocks[Head(bank).block].locked
    <2>1. 1 \in DOMAIN bank /\ bank[1] = Head(bank) /\ Head(bank) \in BankEntry
      BY <1>1, <1>9, TailAt
    <2>2. Head(bank).block \in Block /\ Head(bank).trans \in Transaction
      BY <2>1 DEF BankEntry
    <2> QED BY <2>1, <2>2, InBank DEF CacheRight
  <1>10. ASSUME FinalizeReadHit PROVE CacheRight'
    <2>1. PICK e \in BankEntry : e = Head(bank)
      BY <1>9, <1>10 DEF FinalizeReadHit
    <2>2. PICK b \in Block : b = e.block
      BY <2>1 DEF BankEntry
    <2>3. /\ e.trans \in Transaction /\ e.trans.read /\ bank # <<>> /\ bank' = Tail(bank)
          /\ EntryRight(blocks, e) /\ BlockRight(b) /\ ~blocks[b].locked
      BY <1>9, <1>10, <2>1, <2>2 DEF FinalizeReadHit
    <2>4. /\ blocks' = [blocks EXCEPT ![b].readCount = @ - 1]
          /\ dataReady' = Append(dataReady, [req |-> e.trans.req, data |-> blocks[b].data])
      BY <1>10, <2>1, <2>2 DEF FinalizeReadHit
    <2>5. /\ \A c \in Block : c # b => blocks'[c] = blocks[c]
          /\ \A c \in Block : /\ blocks'[c].valid = blocks[c].valid
                              /\ blocks'[c].tag = blocks[c].tag
                              /\ blocks'[c].locked = blocks[c].locked
                              /\ blocks'[c].data = blocks[c].data
          /\ blocks'[b].readCount = blocks[b].readCount - 1
      BY <2>4 DEF PWCTypeOK
    <2>6. \A c \in Block : BlockRight(c)'
      <3> TAKE c \in Block
      <3>1. /\ Number(bank, BlockReads(c))' \in Nat
            /\ Number(bank, BlockReads(c)) = Number(bank, BlockReads(c))' + IF b = c THEN 1 ELSE 0
            /\ Number(bank, BlockWrites(c))' = Number(bank, BlockWrites(c))
        BY <2>1, <2>2, <2>3, BankShrinks, BlockCounts
      <3>2. BlockRight(c)
        BY DEF CacheRight
      <3> QED BY <2>3, <2>5, <3>1, <3>2 DEF BlockRight
    <2>7. \A x \in BankEntry : EntryRight(blocks, x) => EntryRight(blocks', x)
      <3> TAKE x \in BankEntry
      <3>1. x.block \in Block
        BY DEF BankEntry
      <3> QED BY <2>5, <3>1 DEF EntryRight
    <2>8. (\A i \in DOMAIN bank : EntryRight(blocks, bank[i]))'
      BY <2>3, <2>7, EntriesStep
    <2>9. PICK d \in CacheAnswer : d = [req |-> e.trans.req, data |-> blocks[b].data]
      BY <2>3, TransactionKinds DEF CacheAnswer, PWCTypeOK
    <2>10. NodeOf(d)
      <3>1. /\ blocks[b].valid /\ blocks[b].data = blocks[b].tag /\ blocks[b].tag \in Nodes
            /\ blocks[b].tag = Tag(PageOf[e.trans.req], blocks[b].tag.level)
        BY <2>2, <2>3 DEF EntryRight, BlockRight
      <3>2. blocks[b].tag.level \in Level
        BY <3>1, NodeLevel
      <3>3. d.req = e.trans.req /\ d.data = blocks[b].tag
        BY <2>9, <3>1
      <3> QED BY <3>1, <3>2, <3>3 DEF NodeOf
    <2>11. (\A i \in DOMAIN dataReady : NodeOf(dataReady[i]))'
      BY <2>4, <2>9, <2>10, AnswerAdded
    <2> QED BY <2>6, <2>8, <2>11 DEF CacheRight
  <1>11. ASSUME FinalizeWriteHit PROVE CacheRight'
    <2>1. PICK e \in BankEntry : e = Head(bank)
      BY <1>9, <1>11 DEF FinalizeWriteHit
    <2>2. PICK b \in Block : b = e.block
      BY <2>1 DEF BankEntry
    <2>3. /\ e.trans \in Transaction /\ ~e.trans.read /\ bank # <<>> /\ bank' = Tail(bank)
          /\ EntryRight(blocks, e) /\ BlockRight(b)
      BY <1>9, <1>11, <2>1, <2>2 DEF FinalizeWriteHit
    <2> DEFINE n == Tag(PageOf[e.trans.req], e.trans.level)
    <2>4. blocks' = [blocks EXCEPT ![b].data = n, ![b].locked = FALSE] /\ dataReady' = dataReady
      BY <1>11, <2>1, <2>2 DEF FinalizeWriteHit
    <2>5. blocks[b].tag = n
      BY <2>2, <2>3 DEF EntryRight
    <2> HIDE DEF n
    <2>6. /\ \A c \in Block : c # b => blocks'[c] = blocks[c]
          /\ \A c \in Block : /\ blocks'[c].valid = blocks[c].valid
                              /\ blocks'[c].tag = blocks[c].tag
                              /\ blocks'[c].readCount = blocks[c].readCount
          /\ blocks'[b].data = n /\ blocks'[b].locked = FALSE
      BY <2>4 DEF PWCTypeOK
    <2>7. \A c \in Block : BlockRight(c)'
      <3> TAKE c \in Block
      <3>1. /\ Number(bank, BlockReads(c))' = Number(bank, BlockReads(c))
            /\ Number(bank, BlockWrites(c))' \in Nat
            /\ Number(bank, BlockWrites(c)) = Number(bank, BlockWrites(c))' + IF b = c THEN 1 ELSE 0
        BY <2>1, <2>2, <2>3, BankShrinks, BlockCounts
      <3>2. BlockRight(c)
        BY DEF CacheRight
      <3> QED BY <2>3, <2>5, <2>6, <3>1, <3>2 DEF BlockRight
    <2>8. \A x \in BankEntry : EntryRight(blocks, x) => EntryRight(blocks', x)
      <3> TAKE x \in BankEntry
      <3>1. x.block \in Block
        BY DEF BankEntry
      <3> QED BY <2>6, <3>1 DEF EntryRight
    <2>9. (\A i \in DOMAIN bank : EntryRight(blocks, bank[i]))'
      BY <2>3, <2>8, EntriesStep
    <2> QED BY <1>3, <2>4, <2>7, <2>9 DEF CacheRight
  <1> QED BY <1>5, <1>6, <1>7, <1>8, <1>10, <1>11 DEF PWCStep

-----------------------------------------------------------------------------
(* The TLB keeps its types. Each part of the type invariant is about the   *)
(* variables that the same actions change.                                 *)

QueuesOK ==
    /\ topPort \in Seq(Req) /\ Len(topPort) <= TopCap
    /\ pipeline \subseteq Req /\ Cardinality(pipeline) <= LookupCap /\ IsFiniteSet(pipeline)
    /\ lookupBuffer \in Seq(Req) /\ Len(lookupBuffer) <= LookupCap
    /\ mmus \subseteq Req /\ Cardinality(mmus) <= BottomCap /\ IsFiniteSet(mmus)
    /\ bottomPort \in Seq(Page) /\ Len(bottomPort) <= BottomCap

SetsOK ==
    /\ pages \in [Set -> [Way -> Page \cup {Empty}]]
    /\ valid \in [Set -> [Way -> BOOLEAN]]
    /\ vAddrWayIDMap \in [Set -> [Page -> Way \cup {0}]]
    /\ visits \in [Set -> Seq(Way)]
    /\ \A s \in Set : Range(visits[s]) = Way /\ Len(visits[s]) = Cardinality(Way)

MissesOK ==
    /\ mshr \in [Page -> Seq(Req)]
    /\ Cardinality(Entries) <= MSHRCap /\ IsFiniteSet(Entries)
    /\ respondingMSHREntry \in [page : Page, reqs : Seq(Req) \ {<<>>}] \cup {NoEntry}
    /\ inflightPageWalkCacheReqs \subseteq Req

RestOK ==
    /\ isPaused \in BOOLEAN
    /\ control \in {"idle", "flush", "flushed", "restart"}
    /\ panicked \in BOOLEAN
    /\ sent \subseteq Req
    /\ answered \subseteq [req : Req, page : Page]
    /\ dropped \subseteq Req
    /\ written \subseteq Transaction
    /\ flushes \in 0..MaxFlushes

CacheOK == PWCTypeOK /\ PipelineFinite

(* The type invariant, part by part. *)
LEMMA TypeParts ==
    TypeOK /\ Finite <=> CacheOK /\ QueuesOK /\ SetsOK /\ MissesOK /\ RestOK
  BY DEF TypeOK, Finite, CacheOK, PipelineFinite, QueuesOK, SetsOK, MissesOK, RestOK

(* A part stays well typed while its variables stay. *)
LEMMA Unchanging ==
    /\ CacheOK /\ UNCHANGED pwcVars => CacheOK'
    /\ QueuesOK /\ UNCHANGED <<inVars, mmus, bottomPort>> => QueuesOK'
    /\ SetsOK /\ UNCHANGED setVars => SetsOK'
    /\ MissesOK /\ UNCHANGED missVars => MissesOK'
    /\ RestOK /\ UNCHANGED <<isPaused, control, panicked, sent, answered, dropped, written, flushes>>
         => RestOK'
  <1>1. CacheOK /\ UNCHANGED pwcVars => CacheOK'
    BY DEF CacheOK, PWCTypeOK, PipelineFinite, pwcVars
  <1>2. QueuesOK /\ UNCHANGED <<inVars, mmus, bottomPort>> => QueuesOK'
    BY DEF QueuesOK, inVars
  <1>3. SetsOK /\ UNCHANGED setVars => SetsOK'
    BY DEF SetsOK, setVars
  <1>4. MissesOK /\ UNCHANGED missVars => MissesOK'
    BY DEF MissesOK, missVars, Entries
  <1>5. RestOK /\ UNCHANGED <<isPaused, control, panicked, sent, answered, dropped, written, flushes>>
          => RestOK'
    BY DEF RestOK
  <1> QED BY <1>1, <1>2, <1>3, <1>4, <1>5

(* An entry of the MSHR gets a request.                                    *)
LEMMA EntryGrows ==
    ASSUME MissesOK, NEW r \in Req, mshr' = [mshr EXCEPT ![PageOf[r]] = Append(@, r)],
           mshr[PageOf[r]] # <<>> \/ Cardinality(Entries) < MSHRCap
    PROVE  /\ mshr' \in [Page -> Seq(Req)]
           /\ Cardinality(Entries') <= MSHRCap /\ IsFiniteSet(Entries')
           /\ Entries' = Entries \cup {PageOf[r]}
  <1> DEFINE p == PageOf[r]
  <1>1. p \in Page
    BY PageIn
  <1>2. mshr[p] \in Seq(Req)
    BY <1>1 DEF MissesOK
  <1>3. Append(mshr[p], r) \in Seq(Req) /\ Append(mshr[p], r) # <<>>
    BY <1>2, AppendAt
  <1>4. mshr' = [mshr EXCEPT ![p] = Append(mshr[p], r)] /\ mshr' \in [Page -> Seq(Req)]
    BY <1>1, <1>3 DEF MissesOK
  <1> HIDE DEF p
  <1>5. Entries' = Entries \cup {p}
    BY <1>1, <1>3, <1>4 DEF Entries, MissesOK
  <1>6. IsFiniteSet(Entries) /\ Cardinality(Entries) <= MSHRCap /\ MSHRCap \in Nat
    BY Capacities DEF MissesOK
  <1>7. CASE Cardinality(Entries) < MSHRCap
    BY <1>4, <1>5, <1>6, <1>7, Included DEF p
  <1>8. CASE mshr[p] # <<>>
    <2>1. Entries' = Entries
      BY <1>1, <1>5, <1>8 DEF Entries
    <2> QED BY <1>4, <1>5, <1>6, <2>1 DEF p
  <1> QED BY <1>7, <1>8 DEF p

(* A visited way moves to the end of its set's queue, which holds the same *)
(* ways.                                                                   *)
LEMMA VisitType ==
    ASSUME SetsOK, NEW s \in Set, NEW w \in Way, Visit(s, w)
    PROVE  /\ visits' \in [Set -> Seq(Way)]
           /\ \A t \in Set : Range(visits'[t]) = Way /\ Len(visits'[t]) = Cardinality(Way)
  <1>1. visits[s] \in Seq(Way) /\ Range(visits[s]) = Way /\ Len(visits[s]) = Cardinality(Way)
    BY DEF SetsOK
  <1> DEFINE q == Append(RemoveFirst(visits[s], w), w)
  <1>2. q \in Seq(Way) /\ Range(q) = Way /\ Len(q) = Cardinality(Way)
    BY <1>1, VisitKeeps
  <1>3. visits' = [visits EXCEPT ![s] = q]
    BY DEF Visit
  <1> HIDE DEF q
  <1> QED BY <1>2, <1>3 DEF SetsOK

(* The least recently visited way is a way. *)
LEMMA EvictType ==
    ASSUME SetsOK, NEW s \in Set
    PROVE  Head(visits[s]) \in Way
  <1>1. visits[s] \in Seq(Way) /\ Len(visits[s]) = Cardinality(Way)
    BY DEF SetsOK
  <1>2. Cardinality(Way) # 0
    BY LastLevelTLBAssumption, CountZero
  <1>3. visits[s] # <<>>
    BY <1>1, <1>2
  <1> QED BY <1>1, <1>3, TailAt

(* A sequence over a set contains elements of the set. *)
LEMMA RangeType ==
    ASSUME NEW S, NEW q \in Seq(S)
    PROVE  Range(q) \subseteq S
  BY LenProperties, ElementOfSeq DEF Range

(* The request looked up is a request, and the others stay in the buffer. *)
LEMMA LookingType ==
    ASSUME QueuesOK, lookupBuffer # <<>>, lookupBuffer' = Tail(lookupBuffer)
    PROVE  /\ Looking \in Req /\ PageOf[Looking] \in Page
           /\ lookupBuffer' \in Seq(Req) /\ Len(lookupBuffer') <= LookupCap
  <1>1. Looking \in Req /\ lookupBuffer' \in Seq(Req) /\ Len(lookupBuffer') <= LookupCap
    BY Capacities, Popped DEF QueuesOK, Looking
  <1> QED BY <1>1, PageIn

(* Every step keeps the types. *)
LEMMA TypeStep ==
    ASSUME TypeOK, Finite, PagesRight, CacheRight, Next
    PROVE  (TypeOK /\ Finite)'
  <1> DEFINE TypesKept == CacheOK' /\ QueuesOK' /\ SetsOK' /\ MissesOK' /\ RestOK'
  <1>1. CacheOK /\ QueuesOK /\ SetsOK /\ MissesOK /\ RestOK
    BY TypeParts
  <1>2. SUFFICES TypesKept
    BY TypeParts DEF TypeOK, Finite, CacheOK, PWCTypeOK, PipelineFinite, QueuesOK, SetsOK,
                     MissesOK, RestOK
  <1> USE Capacities
  <1>3. ASSUME RespondMSHREntry PROVE TypesKept
    <2> DEFINE e == respondingMSHREntry
    <2>1. e \in [page : Page, reqs : Seq(Req) \ {<<>>}] /\ e.reqs \in Seq(Req) /\ e.reqs # <<>>
      BY <1>1, <1>3 DEF RespondMSHREntry, MissesOK
    <2>2. Head(e.reqs) \in Req /\ Tail(e.reqs) \in Seq(Req) /\ Len(Tail(e.reqs)) = Len(e.reqs) - 1
          /\ Len(e.reqs) \in Nat
      BY <2>1, TailAt, LenProperties
    <2>3. Len(e.reqs) # 1 => Tail(e.reqs) # <<>>
      <3>1. PICK t \in Seq(Req) : t = Tail(e.reqs)
        BY <2>2
      <3>2. Len(t) = 0 => Len(e.reqs) = 1
        BY <2>2, <3>1
      <3> QED BY <3>1, <3>2
    <2>4. respondingMSHREntry' \in [page : Page, reqs : Seq(Req) \ {<<>>}] \cup {NoEntry}
      BY <1>3, <2>1, <2>2, <2>3 DEF RespondMSHREntry
    <2>5. MissesOK'
      BY <1>1, <1>3, <2>4 DEF RespondMSHREntry, MissesOK, Entries
    <2>6. answered' \subseteq [req : Req, page : Page]
      BY <1>1, <1>3, <2>1, <2>2 DEF RespondMSHREntry, RestOK
    <2>7. RestOK'
      BY <1>1, <1>3, <2>6 DEF RespondMSHREntry, RestOK, controlVars, mmuVars
    <2> QED BY <1>1, <1>3, <2>5, <2>7, Unchanging DEF RespondMSHREntry, mmuVars, inVars
  <1>4. ASSUME ParseFromPageWalkCache PROVE TypesKept
    <2>1. dataReady \in Seq(CacheAnswer) /\ dataReady # <<>>
      BY <1>1, <1>4 DEF ParseFromPageWalkCache, CacheOK, PWCTypeOK, CacheAnswer
    <2>2. dataReady' \in Seq(CacheAnswer)
      BY <1>4, <2>1, TailAt DEF ParseFromPageWalkCache
    <2>3. CacheOK'
      BY <1>1, <1>4, <2>2 DEF ParseFromPageWalkCache, CacheOK, PWCTypeOK, PipelineFinite, CacheAnswer
    <2>4. PICK r \in Req : r = Head(dataReady).req
      <3>1. Head(dataReady) \in CacheAnswer
        BY <2>1, TailAt
      <3> QED BY <3>1 DEF CacheAnswer
    <2>5. /\ mmus' = mmus \cup {r} /\ inflightPageWalkCacheReqs' = inflightPageWalkCacheReqs \ {r}
          /\ panicked' \in BOOLEAN /\ Cardinality(mmus) < BottomCap
      BY <1>4, <2>4 DEF ParseFromPageWalkCache
    <2>6. IsFiniteSet(mmus') /\ Cardinality(mmus') <= BottomCap
      BY <1>1, <2>5, Included DEF QueuesOK
    <2>7. QueuesOK'
      BY <1>1, <1>4, <2>5, <2>6 DEF ParseFromPageWalkCache, QueuesOK, inVars
    <2>8. MissesOK'
      BY <1>1, <1>4, <2>5 DEF ParseFromPageWalkCache, MissesOK, Entries
    <2>9. RestOK'
      BY <1>1, <1>4, <2>5 DEF ParseFromPageWalkCache, RestOK, l2Vars
    <2> QED BY <1>1, <1>4, <2>3, <2>7, <2>8, <2>9, Unchanging DEF ParseFromPageWalkCache
  <1>5. bottomPort # <<>> => Head(bottomPort) \in Page
    BY <1>1, TailAt DEF QueuesOK
  <1>6. ASSUME DropPage PROVE TypesKept
    <2>1. bottomPort' \in Seq(Page) /\ Len(bottomPort') <= BottomCap
      BY <1>1, <1>6, Popped DEF DropPage, QueuesOK
    <2>2. QueuesOK'
      BY <1>1, <1>6, <2>1 DEF DropPage, QueuesOK, inVars
    <2> QED BY <1>1, <1>6, <2>2, Unchanging DEF DropPage, controlVars, l2Vars
  <1>7. ASSUME ParseBottom PROVE TypesKept
    <2>1. PICK p \in Page : p = Head(bottomPort)
      BY <1>5, <1>7 DEF ParseBottom
    <2>2. PICK s \in Set : s = SetOf[p]
      BY LastLevelTLBAssumption
    <2>3. PICK w \in Way : w = Head(visits[s])
      BY <1>1, EvictType
    <2>4. /\ mshr[p] # <<>>
          /\ pages' = [pages EXCEPT ![s][w] = p]
          /\ valid' = [valid EXCEPT ![s][w] = TRUE]
          /\ vAddrWayIDMap' = [vAddrWayIDMap EXCEPT ![s] = Updated(@, pages[s][w], p, w)]
          /\ Visit(s, w)
          /\ respondingMSHREntry' = [page |-> p, reqs |-> mshr[p]]
          /\ mshr' = [mshr EXCEPT ![p] = <<>>]
      BY <1>7, <2>1, <2>2, <2>3 DEF ParseBottom
    <2>5. bottomPort' \in Seq(Page) /\ Len(bottomPort') <= BottomCap
      BY <1>1, <1>7, Popped DEF ParseBottom, QueuesOK
    <2>6. QueuesOK'
      BY <1>1, <1>7, <2>5 DEF ParseBottom, QueuesOK, inVars
    <2>7. pages' \in [Set -> [Way -> Page \cup {Empty}]] /\ valid' \in [Set -> [Way -> BOOLEAN]]
      BY <1>1, <2>4 DEF SetsOK
    <2>8. vAddrWayIDMap' \in [Set -> [Page -> Way \cup {0}]]
      <3>1. vAddrWayIDMap[s] \in [Page -> Way \cup {0}]
        BY <1>1 DEF SetsOK
      <3>2. Updated(vAddrWayIDMap[s], pages[s][w], p, w) \in [Page -> Way \cup {0}]
        BY <3>1 DEF Updated
      <3> QED BY <1>1, <2>4, <3>2 DEF SetsOK
    <2>9. SetsOK'
      BY <1>1, <2>4, <2>7, <2>8, VisitType DEF SetsOK
    <2>10. mshr' \in [Page -> Seq(Req)]
      BY <1>1, <2>4 DEF MissesOK
    <2>11. Entries' = Entries \ {p}
      BY <1>1, <2>4 DEF Entries, MissesOK
    <2>12. IsFiniteSet(Entries') /\ Cardinality(Entries') <= MSHRCap
      BY <1>1, <2>11, Excluded DEF MissesOK
    <2>13. respondingMSHREntry' \in [page : Page, reqs : Seq(Req) \ {<<>>}]
      BY <1>1, <2>4 DEF MissesOK
    <2>14. MissesOK'
      BY <1>1, <1>7, <2>10, <2>12, <2>13 DEF ParseBottom, MissesOK
    <2> QED BY <1>1, <1>7, <2>6, <2>9, <2>14, Unchanging DEF ParseBottom, controlVars, l2Vars
  <1>8. ASSUME ProcessTLBMSHRHit PROVE TypesKept
    <2>1. /\ Looking \in Req
          /\ lookupBuffer' \in Seq(Req) /\ Len(lookupBuffer') <= LookupCap
      BY <1>1, <1>8, LookingType DEF ProcessTLBMSHRHit
    <2>2. /\ mshr' \in [Page -> Seq(Req)]
          /\ Cardinality(Entries') <= MSHRCap /\ IsFiniteSet(Entries')
      BY <1>1, <1>8, <2>1, EntryGrows DEF ProcessTLBMSHRHit
    <2>3. MissesOK'
      BY <1>1, <1>8, <2>2 DEF ProcessTLBMSHRHit, MissesOK
    <2>4. QueuesOK'
      BY <1>1, <1>8, <2>1 DEF ProcessTLBMSHRHit, QueuesOK, mmuVars
    <2> QED BY <1>1, <1>8, <2>3, <2>4, Unchanging DEF ProcessTLBMSHRHit, controlVars, mmuVars, l2Vars
  <1>9. ASSUME HandleTranslationHit PROVE TypesKept
    <2>1. /\ Looking \in Req /\ PageOf[Looking] \in Page
          /\ lookupBuffer' \in Seq(Req) /\ Len(lookupBuffer') <= LookupCap
      BY <1>1, <1>9, LookingType DEF HandleTranslationHit
    <2>2. QueuesOK'
      BY <1>1, <1>9, <2>1 DEF HandleTranslationHit, QueuesOK, mmuVars
    <2>3. PICK p \in Page : p = PageOf[Looking]
      BY <2>1
    <2>4. PICK s \in Set : s = SetOf[p]
      BY LastLevelTLBAssumption
    <2>5. vAddrWayIDMap[s][p] # 0
      BY <1>9, <2>3, <2>4 DEF HandleTranslationHit, Hit
    <2>6. PICK w \in Way : w = vAddrWayIDMap[s][p]
      BY <1>1, <2>5 DEF SetsOK
    <2>7. pages[s][w] = p
      BY <2>5, <2>6 DEF PagesRight, Finds
    <2>8. answered' \subseteq [req : Req, page : Page]
      BY <1>1, <1>9, <2>1, <2>3, <2>4, <2>6, <2>7 DEF HandleTranslationHit, RestOK
    <2>9. RestOK'
      BY <1>1, <1>9, <2>8 DEF HandleTranslationHit, RestOK, controlVars, mmuVars
    <2>10. Visit(s, w)
      BY <1>9, <2>3, <2>4, <2>6 DEF HandleTranslationHit
    <2>11. SetsOK'
      BY <1>1, <1>9, <2>10, VisitType DEF HandleTranslationHit, SetsOK
    <2> QED BY <1>1, <1>9, <2>2, <2>9, <2>11, Unchanging DEF HandleTranslationHit
  <1>10. ASSUME HandleTranslationMiss PROVE TypesKept
    <2>1. /\ Looking \in Req
          /\ lookupBuffer' \in Seq(Req) /\ Len(lookupBuffer') <= LookupCap
      BY <1>1, <1>10, LookingType DEF HandleTranslationMiss
    <2>2. /\ mshr' \in [Page -> Seq(Req)]
          /\ Cardinality(Entries') <= MSHRCap /\ IsFiniteSet(Entries')
      BY <1>1, <1>10, <2>1, EntryGrows DEF HandleTranslationMiss
    <2>3. MissesOK'
      BY <1>1, <1>10, <2>1, <2>2 DEF HandleTranslationMiss, MissesOK
    <2>4. QueuesOK'
      BY <1>1, <1>10, <2>1 DEF HandleTranslationMiss, QueuesOK, mmuVars
    <2>5. toTop' \in Seq(Req) /\ Len(toTop') <= PortCap
      BY <1>1, <1>10, <2>1, Pushed DEF HandleTranslationMiss, CanPush, CacheOK, PWCTypeOK
    <2>6. CacheOK'
      BY <1>1, <1>10, <2>5 DEF HandleTranslationMiss, CacheOK, PWCTypeOK, PipelineFinite
    <2> QED BY <1>1, <1>10, <2>3, <2>4, <2>6, Unchanging
            DEF HandleTranslationMiss, controlVars, mmuVars, l2Vars
  <1>11. ASSUME NEW r \in Req, PipelineTick(r) PROVE TypesKept
    <2>1. lookupBuffer' \in Seq(Req) /\ Len(lookupBuffer') <= LookupCap
      BY <1>1, <1>11, Pushed DEF PipelineTick, CanPush, QueuesOK
    <2>2. IsFiniteSet(pipeline') /\ Cardinality(pipeline') <= LookupCap
      BY <1>1, <1>11, Excluded DEF PipelineTick, QueuesOK
    <2>3. QueuesOK'
      BY <1>1, <1>11, <2>1, <2>2 DEF PipelineTick, QueuesOK, mmuVars
    <2> QED BY <1>1, <1>11, <2>3, Unchanging DEF PipelineTick, controlVars, mmuVars, l2Vars
  <1>12. ASSUME ParseFromTop PROVE TypesKept
    <2>1. topPort' \in Seq(Req) /\ Len(topPort') <= TopCap /\ Head(topPort) \in Req
      BY <1>1, <1>12, Popped DEF ParseFromTop, QueuesOK
    <2>2. IsFiniteSet(pipeline') /\ Cardinality(pipeline') <= LookupCap
      BY <1>1, <1>12, Included DEF ParseFromTop, QueuesOK
    <2>3. QueuesOK'
      BY <1>1, <1>12, <2>1, <2>2 DEF ParseFromTop, QueuesOK, mmuVars
    <2> QED BY <1>1, <1>12, <2>3, Unchanging DEF ParseFromTop, controlVars, mmuVars, l2Vars
  <1>13. ASSUME PWCStep, UNCHANGED tlbVars PROVE TypesKept
    <2>1. CacheOK'
      BY <1>1, <1>13, PWCTypeStep DEF CacheOK
    <2> QED BY <1>1, <1>13, <2>1, Unchanging
            DEF tlbVars, inVars, setVars, missVars, mmuVars, controlVars, l2Vars
  <1>14. ASSUME NEW p \in Page, HandleTLBFlush(p) PROVE TypesKept
    <2>1. valid' \in [Set -> [Way -> BOOLEAN]]
      <3>1. PICK s \in Set : s = FlushSetOf[p]
        BY LastLevelTLBAssumption
      <3>2. PICK w \in Way \cup {0} : w = vAddrWayIDMap[s][p]
        BY <1>1 DEF SetsOK
      <3>3. valid' = IF w = 0 THEN valid ELSE [valid EXCEPT ![s][w] = FALSE]
        BY <1>14, <3>1, <3>2 DEF HandleTLBFlush
      <3> QED BY <1>1, <3>3 DEF SetsOK
    <2>2. SetsOK'
      BY <1>1, <1>14, <2>1 DEF HandleTLBFlush, SetsOK
    <2>3. \A q \in Page : Range(mshr[q]) \subseteq Req
      BY <1>1, RangeType DEF MissesOK
    <2>4. dropped' \subseteq Req
      BY <1>1, <1>14, <2>3 DEF HandleTLBFlush, RestOK
    <2>5. RestOK'
      BY <1>1, <1>14, <2>4 DEF HandleTLBFlush, RestOK, mmuVars, l2Vars
    <2>6. mshr' \in [Page -> Seq(Req)] /\ Entries' = {}
      BY <1>14 DEF HandleTLBFlush, Entries
    <2>7. MissesOK'
      BY <1>1, <1>14, <2>6, FS_EmptySet DEF HandleTLBFlush, MissesOK
    <2> QED BY <1>1, <1>14, <2>2, <2>5, <2>7, Unchanging DEF HandleTLBFlush, mmuVars
  <1>15. ASSUME HandleTLBRestart PROVE TypesKept
    <2>1. dropped' \subseteq Req
      BY <1>1, <1>15, RangeType DEF HandleTLBRestart, RestOK, QueuesOK
    <2>2. RestOK'
      BY <1>1, <1>15, <2>1 DEF HandleTLBRestart, RestOK, l2Vars
    <2>3. QueuesOK'
      BY <1>1, <1>15 DEF HandleTLBRestart, QueuesOK
    <2> QED BY <1>1, <1>15, <2>2, <2>3, Unchanging DEF HandleTLBRestart
  <1>16. ASSUME AskRestart \/ AskFlush PROVE TypesKept
    <2>1. RestOK'
      BY <1>1, <1>16 DEF AskRestart, AskFlush, RestOK, mmuVars, l2Vars
    <2> QED BY <1>1, <1>16, <2>1, Unchanging DEF AskRestart, AskFlush, mmuVars
  <1>17. ASSUME NEW r \in Req, MMUAnswers(r) PROVE TypesKept
    <2>1. bottomPort' \in Seq(Page) /\ Len(bottomPort') <= BottomCap
      BY <1>1, <1>17, PageIn, Pushed DEF MMUAnswers, CanPush, QueuesOK
    <2>2. IsFiniteSet(mmus') /\ Cardinality(mmus') <= BottomCap
      BY <1>1, <1>17, Excluded DEF MMUAnswers, QueuesOK
    <2>3. QueuesOK'
      BY <1>1, <1>17, <2>1, <2>2 DEF MMUAnswers, QueuesOK, inVars
    <2> QED BY <1>1, <1>17, <2>3, Unchanging DEF MMUAnswers, controlVars, l2Vars
  <1>18. ASSUME NEW r \in Req, L2Sends(r) PROVE TypesKept
    <2>1. topPort' \in Seq(Req) /\ Len(topPort') <= TopCap
      BY <1>1, <1>18, Pushed DEF L2Sends, CanPush, QueuesOK
    <2>2. QueuesOK'
      BY <1>1, <1>18, <2>1 DEF L2Sends, QueuesOK, mmuVars
    <2>3. RestOK'
      BY <1>1, <1>18 DEF L2Sends, RestOK, controlVars, mmuVars
    <2> QED BY <1>1, <1>18, <2>2, <2>3, Unchanging DEF L2Sends
  <1>19. ASSUME NEW r \in Req, NEW l \in WriteLevel, MMUWrites(r, l) PROVE TypesKept
    <2>1. l \in Level
      BY LastLevelTLBAssumption
    <2>2. PICK t \in Transaction : t = Write(r, l) /\ ~t.read
      BY <2>1, WriteType
    <2>3. toMMUs' \in Seq({ u \in Transaction : ~u.read }) /\ Len(toMMUs') <= PortCap
      <3> DEFINE Kind == { u \in Transaction : ~u.read }
      <3>1. toMMUs \in Seq(Kind) /\ t \in Kind
        BY <1>1, <2>2 DEF CacheOK, PWCTypeOK
      <3>2. toMMUs' = Append(toMMUs, t) /\ Len(toMMUs) < PortCap
        BY <1>19, <2>2 DEF MMUWrites, CanPush
      <3> HIDE DEF Kind
      <3>3. toMMUs' \in Seq(Kind) /\ Len(toMMUs') <= PortCap
        BY <3>1, <3>2, Pushed
      <3> QED BY <3>3 DEF Kind
    <2>4. CacheOK'
      BY <1>1, <1>19, <2>3 DEF MMUWrites, CacheOK, PWCTypeOK, PipelineFinite
    <2>5. RestOK'
      BY <1>1, <1>19, <2>2 DEF MMUWrites, RestOK, controlVars, l2Vars
    <2> QED BY <1>1, <1>19, <2>4, <2>5, Unchanging DEF MMUWrites
  <1>20. ASSUME UNCHANGED vars PROVE TypesKept
    BY <1>1, <1>20, Unchanging
       DEF vars, tlbVars, inVars, setVars, missVars, mmuVars, controlVars, l2Vars
  <1> HIDE DEF TypesKept
  <1> QED BY <1>3, <1>4, <1>6, <1>7, <1>8, <1>9, <1>10, <1>11, <1>12, <1>13, <1>14, <1>15, <1>16,
             <1>17, <1>18, <1>19, <1>20 DEF Next, System, Stages, Over

-----------------------------------------------------------------------------
(* Requests and pages stay together.                                       *)

LEMMA OwnAppend ==
    ASSUME NEW q \in Seq(Req), NEW r \in Req, OwnPage(q, PageOf[r])
    PROVE  OwnPage(Append(q, r), PageOf[r])
  BY AppendAt DEF OwnPage

(* An MSHR entry for a page without its first request is still for that    *)
(* page.                                                                   *)
LEMMA OwnTail ==
    ASSUME NEW q \in Seq(Req), q # <<>>, NEW p, OwnPage(q, p)
    PROVE  OwnPage(Tail(q), p) /\ PageOf[Head(q)] = p
  BY TailAt DEF OwnPage

(* An entry without requests is for any page. *)
LEMMA OwnNone == \A p : OwnPage(<<>>, p)
  BY EmptySeq DEF OwnPage

(* A queue of one message is empty without it. *)
LEMMA TailOfOne ==
    ASSUME NEW S, NEW q \in Seq(S), Len(q) = 1
    PROVE  Tail(q) = <<>>
  <1>1. q # <<>>
    OBVIOUS
  <1>2. Tail(q) \in Seq(S) /\ Len(Tail(q)) = Len(q) - 1
    BY <1>1, TailAt
  <1>3. PICK t \in Seq(S) : t = Tail(q)
    BY <1>2
  <1>4. Len(t) = 0
    BY <1>2, <1>3
  <1> QED BY <1>3, <1>4, EmptySeq

(* The requests that an entry has still to answer.                         *)
LEMMA Responds ==
    ASSUME TypeOK, RespondMSHREntry
    PROVE  /\ respondingMSHREntry.page \in Page
           /\ respondingMSHREntry.reqs \in Seq(Req) /\ respondingMSHREntry.reqs # <<>>
           /\ respondingMSHREntry'.reqs = Tail(respondingMSHREntry.reqs)
           /\ respondingMSHREntry' = NoEntry \/ respondingMSHREntry'.page = respondingMSHREntry.page
  <1>1. respondingMSHREntry \in [page : Page, reqs : Seq(Req) \ {<<>>}]
    BY DEF TypeOK, RespondMSHREntry
  <1>2. PICK q \in Seq(Req) : q = respondingMSHREntry.reqs /\ q # <<>>
    BY <1>1
  <1>3. CASE Len(q) = 1
    <2>1. respondingMSHREntry' = NoEntry /\ NoEntry.reqs = <<>>
      BY <1>2, <1>3 DEF RespondMSHREntry, NoEntry
    <2> QED BY <1>1, <1>2, <1>3, <2>1, TailOfOne
  <1>4. CASE Len(q) # 1
    BY <1>1, <1>2, <1>4 DEF RespondMSHREntry
  <1> QED BY <1>3, <1>4

(* The request looked up is a request for a page. *)
LEMMA LookingIn ==
    ASSUME TypeOK, lookupBuffer # <<>>
    PROVE  Looking \in Req /\ PageOf[Looking] \in Page
  <1>1. Looking \in Req
    BY TailAt DEF TypeOK, Looking
  <1> QED BY <1>1, PageIn

(* Every step keeps PagesRight. *)
LEMMA PagesStep ==
    ASSUME TypeOK, PagesRight, Next
    PROVE  PagesRight'
  <1> DEFINE WaitRight == \A p \in Page : OwnPage(mshr'[p], p)
             RespondRight == OwnPage(respondingMSHREntry'.reqs, respondingMSHREntry'.page)
             SetsRight == \A s \in Set, p \in Page : Finds(s, p)'
             AnsweredRight == \A a \in answered' : a.page = PageOf[a.req]
  <1>1. /\ mshr' = mshr => WaitRight
        /\ respondingMSHREntry' = respondingMSHREntry => RespondRight
        /\ UNCHANGED <<vAddrWayIDMap, pages>> => SetsRight
        /\ answered' = answered => AnsweredRight
    BY DEF PagesRight, Finds
  <1>2. SUFFICES WaitRight /\ RespondRight /\ SetsRight /\ AnsweredRight
    BY DEF PagesRight, OwnPage
  <1>3. mshr \in [Page -> Seq(Req)]
    BY DEF TypeOK
  <1> HIDE DEF WaitRight, RespondRight, SetsRight, AnsweredRight
  <1>4. ASSUME RespondMSHREntry PROVE WaitRight /\ RespondRight /\ SetsRight /\ AnsweredRight
    <2> DEFINE e == respondingMSHREntry
    <2>1. /\ e.reqs \in Seq(Req) /\ e.reqs # <<>> /\ respondingMSHREntry'.reqs = Tail(e.reqs)
          /\ respondingMSHREntry' = NoEntry \/ respondingMSHREntry'.page = e.page
      BY <1>4, Responds
    <2>2. OwnPage(Tail(e.reqs), e.page) /\ PageOf[Head(e.reqs)] = e.page
      BY <2>1, OwnTail DEF PagesRight
    <2>3. RespondRight
      BY <2>1, <2>2, OwnNone DEF RespondRight, NoEntry
    <2>4. AnsweredRight
      BY <1>4, <2>2 DEF RespondMSHREntry, AnsweredRight, PagesRight
    <2> QED BY <1>1, <1>4, <2>3, <2>4 DEF RespondMSHREntry, setVars
  <1>5. ASSUME ParseBottom PROVE WaitRight /\ RespondRight /\ SetsRight /\ AnsweredRight
    <2>1. PICK p \in Page : p = Head(bottomPort)
      BY <1>5, TailAt DEF ParseBottom, TypeOK
    <2>2. PICK s \in Set : s = SetOf[p]
      BY LastLevelTLBAssumption
    <2>3. PICK w \in Way : w = Head(visits[s])
      BY EvictType, TypeParts DEF TypeOK, SetsOK
    <2>4. /\ pages' = [pages EXCEPT ![s][w] = p]
          /\ vAddrWayIDMap' = [vAddrWayIDMap EXCEPT ![s] = Updated(@, pages[s][w], p, w)]
          /\ respondingMSHREntry' = [page |-> p, reqs |-> mshr[p]]
          /\ mshr' = [mshr EXCEPT ![p] = <<>>]
          /\ answered' = answered
      BY <1>5, <2>1, <2>2, <2>3 DEF ParseBottom, l2Vars
    <2>5. WaitRight
      BY <1>3, <2>4, OwnNone DEF WaitRight, PagesRight
    <2>6. RespondRight
      BY <2>4 DEF RespondRight, PagesRight
    <2>7. SetsRight
      <3> SUFFICES ASSUME NEW t \in Set, NEW q \in Page PROVE Finds(t, q)'
        BY DEF SetsRight
      <3>1. Finds(t, q)
        BY DEF PagesRight
      <3>2. CASE t # s
        <4>1. pages'[t] = pages[t] /\ vAddrWayIDMap'[t] = vAddrWayIDMap[t]
          BY <2>4, <3>2 DEF TypeOK
        <4> QED BY <3>1, <4>1 DEF Finds
      <3>3. CASE t = s
        <4>1. /\ vAddrWayIDMap'[s][q] = IF q = p THEN w ELSE IF q = pages[s][w] THEN 0
                                        ELSE vAddrWayIDMap[s][q]
          BY <2>4 DEF Updated, TypeOK
        <4>2. \A v \in Way : pages'[s][v] = IF v = w THEN p ELSE pages[s][v]
          BY <2>4 DEF TypeOK
        <4>3. vAddrWayIDMap[s][q] \in Way \cup {0}
          BY DEF TypeOK
        <4> QED BY <3>1, <3>3, <4>1, <4>2, <4>3 DEF Finds
      <3> QED BY <3>2, <3>3
    <2> QED BY <1>1, <2>4, <2>5, <2>6, <2>7
  <1>6. ASSUME ProcessTLBMSHRHit \/ HandleTranslationMiss
        PROVE  WaitRight /\ RespondRight /\ SetsRight /\ AnsweredRight
    <2>1. PICK r \in Req : r = Looking /\ PageOf[r] \in Page
      BY <1>6, LookingIn DEF ProcessTLBMSHRHit, HandleTranslationMiss
    <2>2. mshr' = [mshr EXCEPT ![PageOf[r]] = Append(@, r)]
      BY <1>6, <2>1 DEF ProcessTLBMSHRHit, HandleTranslationMiss
    <2>3. OwnPage(Append(mshr[PageOf[r]], r), PageOf[r])
      BY <1>3, <2>1, OwnAppend DEF PagesRight
    <2>4. WaitRight
      BY <1>3, <2>1, <2>2, <2>3 DEF WaitRight, PagesRight
    <2> QED BY <1>1, <1>6, <2>4 DEF ProcessTLBMSHRHit, HandleTranslationMiss, setVars, l2Vars
  <1>7. ASSUME HandleTranslationHit PROVE WaitRight /\ RespondRight /\ SetsRight /\ AnsweredRight
    <2>1. PICK p \in Page : p = PageOf[Looking]
      BY <1>7, LookingIn DEF HandleTranslationHit
    <2>2. PICK s \in Set : s = SetOf[p]
      BY LastLevelTLBAssumption
    <2>3. /\ vAddrWayIDMap[s][p] # 0
          /\ answered' = answered \cup {[req |-> Looking, page |-> pages[s][vAddrWayIDMap[s][p]]]}
      BY <1>7, <2>1, <2>2 DEF HandleTranslationHit, Hit
    <2>4. pages[s][vAddrWayIDMap[s][p]] = p
      BY <2>3 DEF PagesRight, Finds
    <2>5. AnsweredRight
      BY <2>1, <2>3, <2>4 DEF AnsweredRight, PagesRight
    <2> QED BY <1>1, <1>7, <2>5 DEF HandleTranslationHit, missVars
  <1>8. ASSUME NEW p \in Page, HandleTLBFlush(p)
        PROVE  WaitRight /\ RespondRight /\ SetsRight /\ AnsweredRight
    <2>1. WaitRight
      BY <1>8, OwnNone DEF HandleTLBFlush, WaitRight
    <2> QED BY <1>1, <1>8, <2>1 DEF HandleTLBFlush, l2Vars
  <1>9. ASSUME UNCHANGED <<mshr, respondingMSHREntry, vAddrWayIDMap, pages, answered>>
        PROVE  WaitRight /\ RespondRight /\ SetsRight /\ AnsweredRight
    BY <1>1, <1>9
  <1>10. Next => \/ RespondMSHREntry \/ ParseBottom \/ ProcessTLBMSHRHit \/ HandleTranslationMiss
                 \/ HandleTranslationHit \/ \E p \in Page : HandleTLBFlush(p)
                 \/ UNCHANGED <<mshr, respondingMSHREntry, vAddrWayIDMap, pages, answered>>
    BY DEF Next, System, Stages, Over, ParseFromPageWalkCache, DropPage, PipelineTick, ParseFromTop,
           HandleTLBRestart, AskRestart, AskFlush, MMUAnswers, L2Sends, MMUWrites,
           vars, tlbVars, setVars, missVars, l2Vars
  <1> QED BY <1>4, <1>5, <1>6, <1>7, <1>8, <1>9, <1>10

-----------------------------------------------------------------------------
(* No request is lost, and none is answered twice.                         *)

LEMMA OccurrencesOf == \A q, r : Occurrences(q, r) = Number(q, {r})
  BY DEF Occurrences, Number

(* A queue with one more request counts it. *)
LEMMA OneMore ==
    ASSUME NEW q \in Seq(Req), NEW u \in Req, NEW r
    PROVE  Number(Append(q, u), {r}) = Number(q, {r}) + IF u = r THEN 1 ELSE 0
  BY NumberAppend

(* A queue without its first request counts that one less. *)
LEMMA OneLess ==
    ASSUME NEW q \in Seq(Req), q # <<>>, NEW r
    PROVE  /\ Number(Tail(q), {r}) \in Nat
           /\ Number(q, {r}) = Number(Tail(q), {r}) + IF Head(q) = r THEN 1 ELSE 0
           /\ Head(q) = r => Number(q, {r}) # 0
  <1>1. Head(q) = r => Number(q, {r}) # 0
    BY TailAt, NumberIn
  <1> QED BY <1>1, NumberTail

(* The responding entry holds a queue of requests. *)
LEMMA EntryReqs ==
    ASSUME NEW e \in [page : Page, reqs : Seq(Req) \ {<<>>}] \cup {NoEntry}
    PROVE  e.reqs \in Seq(Req)
  <1>1. NoEntry.reqs = <<>> /\ <<>> \in Seq(Req)
    BY EmptySeq DEF NoEntry
  <1> QED BY <1>1

(* A request is early, waits for a page, or is over.                       *)
Waits(r) == Number(mshr[PageOf[r]], {r}) + Number(respondingMSHREntry.reqs, {r})
Ended(r) == (IF r \in Answered THEN 1 ELSE 0) + (IF r \in dropped THEN 1 ELSE 0)

(* The places of a request: before the lookup, waiting for the page, and   *)
(* ended.                                                                  *)
LEMMA PlacesSum == \A r : Places(r) = Early(r) + Waits(r) + Ended(r)
  BY OccurrencesOf DEF Places, Early, Waits, Ended

(* What is counted are numbers. *)
LEMMA PlacesParts ==
    ASSUME TypeOK, NEW r \in Req
    PROVE  /\ Number(topPort, {r}) \in Nat /\ Number(lookupBuffer, {r}) \in Nat
           /\ Number(mshr[PageOf[r]], {r}) \in Nat /\ Number(respondingMSHREntry.reqs, {r}) \in Nat
           /\ Early(r) \in Nat /\ Waits(r) \in Nat /\ Ended(r) \in 0..2
  <1> DEFINE T == Number(topPort, {r})
             L == Number(lookupBuffer, {r})
             M == Number(mshr[PageOf[r]], {r})
             S == Number(respondingMSHREntry.reqs, {r})
             P == IF r \in pipeline THEN 1 ELSE 0
             A == IF r \in Answered THEN 1 ELSE 0
             D == IF r \in dropped THEN 1 ELSE 0
  <1>1. /\ topPort \in Seq(Req) /\ lookupBuffer \in Seq(Req)
        /\ mshr[PageOf[r]] \in Seq(Req) /\ respondingMSHREntry.reqs \in Seq(Req)
    BY PageIn, EntryReqs DEF TypeOK
  <1>2. T \in Nat /\ L \in Nat /\ M \in Nat /\ S \in Nat /\ P \in 0..1 /\ A \in 0..1 /\ D \in 0..1
    BY <1>1, NumberIn
  <1>3. Early(r) = T + L + P /\ Waits(r) = M + S /\ Ended(r) = A + D
    BY DEF Early, Waits, Ended
  <1> HIDE DEF T, L, M, S, P, A, D
  <1>4. Early(r) \in Nat /\ Waits(r) \in Nat /\ Ended(r) \in 0..2
    BY <1>2, <1>3
  <1> QED BY <1>2, <1>4 DEF T, L, M, S

(* Before a step a request is in one place at most.                        *)
LEMMA InOnePlace ==
    ASSUME TypeOK, EachRequestOnce, NEW r \in Req
    PROVE  /\ Early(r) \in Nat /\ Waits(r) \in Nat /\ Ended(r) \in Nat
           /\ Early(r) + Waits(r) + Ended(r) = IF r \in sent THEN 1 ELSE 0
  <1>1. Early(r) \in Nat /\ Waits(r) \in Nat /\ Ended(r) \in 0..2
    BY PlacesParts
  <1>2. Early(r) + Waits(r) + Ended(r) = IF r \in sent THEN 1 ELSE 0
    BY PlacesSum DEF EachRequestOnce
  <1> QED BY <1>1, <1>2

(* The parts of Places that a step changes.                                *)
LEMMA PlacesKept ==
    ASSUME NEW r \in Req
    PROVE  /\ UNCHANGED <<topPort, pipeline, lookupBuffer>> => Early(r)' = Early(r)
           /\ UNCHANGED <<mshr, respondingMSHREntry>> => Waits(r)' = Waits(r)
           /\ UNCHANGED <<answered, dropped>> => Ended(r)' = Ended(r)
  BY DEF Early, Waits, Ended, Number, Answered

(* The request looked up leaves the lookup buffer. *)
LEMMA LookedUpOnce ==
    ASSUME TypeOK, NEW r \in Req, lookupBuffer # <<>>, lookupBuffer' = Tail(lookupBuffer),
           UNCHANGED <<topPort, pipeline>>
    PROVE  Early(r)' \in Nat /\ Early(r) = Early(r)' + IF Looking = r THEN 1 ELSE 0
  <1> DEFINE T == Number(topPort, {r})
             L == Number(lookupBuffer, {r})
             K == Number(Tail(lookupBuffer), {r})
             P == IF r \in pipeline THEN 1 ELSE 0
  <1>1. K \in Nat /\ L = K + IF Looking = r THEN 1 ELSE 0
    BY OneLess DEF TypeOK, Looking
  <1>2. T \in Nat /\ P \in 0..1
    <2>1. T \in Nat
      BY PlacesParts
    <2> QED BY <2>1
  <1>3. Early(r) = T + L + P /\ Early(r)' = T + K + P
    BY DEF Early, Number
  <1> HIDE DEF T, L, K, P
  <1> QED BY <1>1, <1>2, <1>3

(* A request moves on in the lookup pipeline. *)
LEMMA MovedOn ==
    ASSUME TypeOK, NEW r \in Req, NEW u \in Req, PipelineTick(u)
    PROVE  Early(r)' = Early(r)
  <1> DEFINE T == Number(topPort, {r})
             L == Number(lookupBuffer, {r})
             P == IF r \in pipeline THEN 1 ELSE 0
             Q == IF r \in pipeline \ {u} THEN 1 ELSE 0
  <1>1. Number(Append(lookupBuffer, u), {r}) = L + IF u = r THEN 1 ELSE 0
    BY OneMore DEF TypeOK
  <1>2. T \in Nat /\ L \in Nat /\ P \in 0..1
    <2>1. T \in Nat /\ L \in Nat
      BY PlacesParts
    <2> QED BY <2>1
  <1>3. Q + (IF u = r THEN 1 ELSE 0) = P
    BY DEF PipelineTick
  <1>4. /\ Early(r) = T + L + P
        /\ Early(r)' = T + Number(Append(lookupBuffer, u), {r}) + Q
    BY DEF Early, Number, PipelineTick
  <1>5. Q \in 0..1
    OBVIOUS
  <1> HIDE DEF T, L, P, Q
  <1> QED BY <1>1, <1>2, <1>3, <1>4, <1>5

(* A request goes from the port into the lookup pipeline. *)
LEMMA TakenIn ==
    ASSUME TypeOK, EachRequestOnce, NEW r \in Req, ParseFromTop
    PROVE  Early(r)' = Early(r)
  <1> DEFINE T == Number(topPort, {r})
             K == Number(Tail(topPort), {r})
             L == Number(lookupBuffer, {r})
             P == IF r \in pipeline THEN 1 ELSE 0
             Q == IF r \in pipeline \cup {Head(topPort)} THEN 1 ELSE 0
  <1>1. K \in Nat /\ T = K + (IF Head(topPort) = r THEN 1 ELSE 0) /\ (Head(topPort) = r => T # 0)
    BY OneLess DEF TypeOK, ParseFromTop
  <1>2. T \in Nat /\ L \in Nat /\ P \in 0..1
    <2>1. T \in Nat /\ L \in Nat
      BY PlacesParts
    <2> QED BY <2>1
  <1>3. Early(r) = T + L + P /\ Early(r)' = K + L + Q
    BY DEF Early, Number, ParseFromTop
  <1>4. Early(r) <= 1
    BY InOnePlace
  <1>5. Head(topPort) = r => P = 0
    <2> HIDE DEF P, T, K, L
    <2> QED BY <1>1, <1>2, <1>3, <1>4
  <1>6. Head(topPort) = r => Q = 1
    OBVIOUS
  <1>7. Head(topPort) # r => Q = P
    OBVIOUS
  <1> HIDE DEF T, L, P, Q, K
  <1> QED BY <1>1, <1>2, <1>3, <1>5, <1>6, <1>7

(* The L2 TLB sends a request: it is counted once more. *)
LEMMA SentNow ==
    ASSUME TypeOK, NEW r \in Req, NEW u \in Req, L2Sends(u)
    PROVE  Early(r)' = Early(r) + IF u = r THEN 1 ELSE 0
  <1> DEFINE T == Number(topPort, {r})
             L == Number(lookupBuffer, {r})
             P == IF r \in pipeline THEN 1 ELSE 0
  <1>1. Number(Append(topPort, u), {r}) = T + IF u = r THEN 1 ELSE 0
    BY OneMore DEF TypeOK
  <1>2. T \in Nat /\ L \in Nat /\ P \in 0..1
    <2>1. T \in Nat /\ L \in Nat
      BY PlacesParts
    <2> QED BY <2>1
  <1>3. Early(r) = T + L + P /\ Early(r)' = Number(Append(topPort, u), {r}) + L + P
    BY DEF Early, Number, L2Sends
  <1> HIDE DEF T, L, P
  <1> QED BY <1>1, <1>2, <1>3

(* An answered request has ended. *)
LEMMA Answering ==
    ASSUME NEW r \in Req, NEW h, \E p : answered' = answered \cup {[req |-> h, page |-> p]},
           dropped' = dropped, Ended(r) = 0 \/ h # r
    PROVE  Ended(r)' = Ended(r) + IF h = r THEN 1 ELSE 0
  <1>1. PICK p, a : a = [req |-> h, page |-> p] /\ answered' = answered \cup {a}
    OBVIOUS
  <1>2. a.req = h
    BY <1>1
  <1>3. r \in Answered' <=> r \in Answered \/ h = r
    BY <1>1, <1>2 DEF Answered
  <1>4. Ended(r)' = (IF r \in Answered \/ h = r THEN 1 ELSE 0) + (IF r \in dropped THEN 1 ELSE 0)
    BY <1>3 DEF Ended
  <1> QED BY <1>4 DEF Ended

(* A request that misses joins the entry of its page. *)
LEMMA EntryTakes ==
    ASSUME TypeOK, NEW r \in Req, NEW h \in Req, respondingMSHREntry' = respondingMSHREntry,
           mshr' = [mshr EXCEPT ![PageOf[h]] = Append(@, h)]
    PROVE  Waits(r)' = Waits(r) + IF h = r THEN 1 ELSE 0
  <1> DEFINE M == Number(mshr[PageOf[r]], {r})
             S == Number(respondingMSHREntry.reqs, {r})
             N == Number(mshr'[PageOf[r]], {r})
  <1>1. PageOf[h] \in Page /\ PageOf[r] \in Page /\ mshr \in [Page -> Seq(Req)]
    BY PageIn DEF TypeOK
  <1>2. M \in Nat /\ S \in Nat
    BY PlacesParts
  <1>3. Waits(r) = M + S /\ Waits(r)' = N + S
    BY DEF Waits, Number
  <1>4. N = M + IF h = r THEN 1 ELSE 0
    <2>1. CASE PageOf[h] = PageOf[r]
      <3>1. PICK q \in Seq(Req) : q = mshr[PageOf[r]]
        BY <1>1
      <3>2. mshr'[PageOf[r]] = Append(q, h)
        BY <1>1, <2>1, <3>1
      <3>3. Number(Append(q, h), {r}) = Number(q, {r}) + IF h = r THEN 1 ELSE 0
        BY OneMore
      <3> QED BY <3>1, <3>2, <3>3
    <2>2. CASE PageOf[h] # PageOf[r]
      <3>1. mshr'[PageOf[r]] = mshr[PageOf[r]]
        BY <1>1, <2>2
      <3>2. N = M /\ h # r
        BY <2>2, <3>1
      <3> HIDE DEF M, N
      <3> QED BY <1>2, <3>2
    <2> QED BY <2>1, <2>2
  <1> HIDE DEF M, N, S
  <1> QED BY <1>2, <1>3, <1>4

(* Every step keeps EachRequestOnce. *)
LEMMA OnceStep ==
    ASSUME TypeOK, PagesRight, EachRequestOnce, Next
    PROVE  EachRequestOnce'
  <1>1. PagesRight'
    BY PagesStep
  <1>2. (\A p \in Page : \A r \in Waiting(p) : PageOf[r] = p)'
    BY <1>1 DEF PagesRight, OwnPage, Waiting, Range
  <1>3. SUFFICES ASSUME NEW r \in Req PROVE (Places(r) = IF r \in sent THEN 1 ELSE 0)'
    BY <1>2 DEF EachRequestOnce
  <1> DEFINE Balanced == Early(r)' + Waits(r)' + Ended(r)' = IF r \in sent' THEN 1 ELSE 0
  <1>4. SUFFICES Balanced
    BY OccurrencesOf DEF Places, Early, Waits, Ended
  <1>5. /\ Early(r) \in Nat /\ Waits(r) \in Nat /\ Ended(r) \in Nat
        /\ Early(r) + Waits(r) + Ended(r) = IF r \in sent THEN 1 ELSE 0
    BY InOnePlace
  <1>6. ASSUME RespondMSHREntry PROVE Balanced
    <2> DEFINE e == respondingMSHREntry
               M == Number(mshr[PageOf[r]], {r})
               S == Number(e.reqs, {r})
               K == Number(Tail(e.reqs), {r})
    <2>1. e.reqs \in Seq(Req) /\ e.reqs # <<>> /\ respondingMSHREntry'.reqs = Tail(e.reqs)
      BY <1>6, Responds
    <2>2. PICK h \in Req : h = Head(e.reqs)
      BY <2>1, TailAt
    <2>3. K \in Nat /\ S = K + (IF h = r THEN 1 ELSE 0) /\ (h = r => S # 0)
      BY <2>1, <2>2, OneLess
    <2>4. M \in Nat /\ Waits(r) = M + S /\ Waits(r)' = M + K
      <3>1. M \in Nat
        BY PlacesParts
      <3>2. Waits(r)' = M + K
        BY <1>6, <2>1 DEF Waits, Number, RespondMSHREntry
      <3> QED BY <3>1, <3>2 DEF Waits
    <2> HIDE DEF M, S, K, e
    <2>5. h = r => Ended(r) = 0
      BY <1>5, <2>3, <2>4
    <2>6. Ended(r)' = Ended(r) + IF h = r THEN 1 ELSE 0
      <3>1. dropped' = dropped /\ \E p : answered' = answered \cup {[req |-> h, page |-> p]}
        BY <1>6, <2>2 DEF RespondMSHREntry, controlVars, e
      <3> QED BY <2>5, <3>1, Answering
    <2>7. Early(r)' = Early(r) /\ sent' = sent
      BY <1>6, PlacesKept DEF RespondMSHREntry, inVars
    <2> QED BY <1>5, <2>3, <2>4, <2>6, <2>7
  <1>7. ASSUME ParseBottom PROVE Balanced
    <2>1. PICK p \in Page : p = Head(bottomPort)
      BY <1>7, TailAt DEF ParseBottom, TypeOK
    <2>2. /\ respondingMSHREntry'.reqs = mshr[p] /\ mshr' = [mshr EXCEPT ![p] = <<>>]
          /\ mshr \in [Page -> Seq(Req)] /\ respondingMSHREntry.reqs = <<>>
      BY <1>7, <2>1 DEF ParseBottom, TypeOK, NoEntry
    <2> DEFINE M == Number(mshr[PageOf[r]], {r})
               N == Number(mshr'[PageOf[r]], {r})
               S == Number(mshr[p], {r})
    <2>3. Waits(r) = M + 0 /\ Waits(r)' = N + S /\ M \in Nat
      <3>1. M \in Nat
        BY PlacesParts
      <3>2. Waits(r) = M + 0
        BY <2>2, NumberEmpty DEF Waits
      <3> QED BY <2>2, <3>1, <3>2 DEF Waits, Number
    <2>4. CASE PageOf[r] = p
      <3>1. N = 0 /\ S = M
        BY <2>2, <2>4, NumberEmpty
      <3>2. Waits(r)' = Waits(r)
        <4> HIDE DEF M, N, S
        <4> QED BY <2>3, <3>1
      <3> QED BY <1>5, <1>7, <3>2, PlacesKept DEF ParseBottom, inVars, controlVars, l2Vars
    <2>5. CASE PageOf[r] # p
      <3>1. N = M
        BY <2>2, <2>5, PageIn
      <3>2. S = 0
        <4>1. \A i \in DOMAIN mshr[p] : mshr[p][i] \notin {r}
          BY <2>5 DEF PagesRight, OwnPage
        <4> QED BY <2>2, <4>1, NumberIn
      <3>3. Waits(r)' = Waits(r)
        <4> HIDE DEF M, N, S
        <4> QED BY <2>3, <3>1, <3>2
      <3> QED BY <1>5, <1>7, <3>3, PlacesKept DEF ParseBottom, inVars, controlVars, l2Vars
    <2> QED BY <2>4, <2>5
  <1>8. ASSUME ProcessTLBMSHRHit \/ HandleTranslationMiss PROVE Balanced
    <2>1. Early(r)' \in Nat /\ Early(r) = Early(r)' + IF Looking = r THEN 1 ELSE 0
      BY <1>8, LookedUpOnce DEF ProcessTLBMSHRHit, HandleTranslationMiss
    <2>2. PICK h \in Req : h = Looking
      BY <1>8, LookingIn DEF ProcessTLBMSHRHit, HandleTranslationMiss
    <2>3. Waits(r)' = Waits(r) + IF h = r THEN 1 ELSE 0
      BY <1>8, <2>2, EntryTakes DEF ProcessTLBMSHRHit, HandleTranslationMiss
    <2>4. Ended(r)' = Ended(r) /\ sent' = sent
      BY <1>8, PlacesKept DEF ProcessTLBMSHRHit, HandleTranslationMiss, controlVars, l2Vars
    <2> QED BY <1>5, <2>1, <2>2, <2>3, <2>4
  <1>9. ASSUME HandleTranslationHit PROVE Balanced
    <2>1. Early(r)' \in Nat /\ Early(r) = Early(r)' + IF Looking = r THEN 1 ELSE 0
      BY <1>9, LookedUpOnce DEF HandleTranslationHit
    <2>2. PICK h \in Req : h = Looking
      BY <1>9, LookingIn DEF HandleTranslationHit
    <2>3. h = r => Ended(r) = 0
      BY <1>5, <2>1, <2>2
    <2>4. Ended(r)' = Ended(r) + IF h = r THEN 1 ELSE 0
      <3>1. dropped' = dropped /\ \E p : answered' = answered \cup {[req |-> h, page |-> p]}
        BY <1>9, <2>2 DEF HandleTranslationHit, controlVars
      <3> QED BY <2>3, <3>1, Answering
    <2>5. Waits(r)' = Waits(r) /\ sent' = sent
      BY <1>9, PlacesKept DEF HandleTranslationHit, missVars
    <2> QED BY <1>5, <2>1, <2>2, <2>4, <2>5
  <1>10. ASSUME ParseFromTop \/ \E u \in Req : PipelineTick(u) PROVE Balanced
    <2>1. Early(r)' = Early(r)
      BY <1>10, TakenIn, MovedOn
    <2>2. UNCHANGED <<mshr, respondingMSHREntry, answered, dropped, sent>>
      BY <1>10 DEF ParseFromTop, PipelineTick, missVars, controlVars, l2Vars
    <2> QED BY <1>5, <2>1, <2>2, PlacesKept
  <1>11. ASSUME NEW p \in Page, HandleTLBFlush(p) PROVE Balanced
    <2> DEFINE M == Number(mshr[PageOf[r]], {r})
               S == Number(respondingMSHREntry.reqs, {r})
    <2>1. M \in Nat /\ S \in Nat /\ Waits(r) = M + S
      BY PlacesParts DEF Waits
    <2>2. Waits(r)' = 0 + S
      <3>1. mshr'[PageOf[r]] = <<>> /\ respondingMSHREntry' = respondingMSHREntry
        BY <1>11, PageIn DEF HandleTLBFlush
      <3>2. Waits(r)' = Number(<<>>, {r}) + S
        BY <3>1 DEF Waits, Number
      <3> QED BY <3>2, NumberEmpty
    <2>3. M # 0 <=> \E q \in Page : r \in Waiting(q)
      <3>1. M # 0 <=> r \in Waiting(PageOf[r])
        BY PageIn, NumberIn DEF Waiting, Range, TypeOK
      <3> QED BY <3>1, PageIn DEF EachRequestOnce
    <2>4. r \in dropped' <=> r \in dropped \/ M # 0
      <3>1. r \in dropped' <=> r \in dropped \/ \E q \in Page : r \in Waiting(q)
        BY <1>11 DEF HandleTLBFlush, Waiting
      <3> QED BY <2>3, <3>1
    <2>5. /\ Early(r)' = Early(r) /\ sent' = sent
          /\ Ended(r)' = (IF r \in Answered THEN 1 ELSE 0) + (IF r \in dropped' THEN 1 ELSE 0)
      BY <1>11, PlacesKept DEF HandleTLBFlush, inVars, l2Vars, Ended, Answered
    <2> HIDE DEF M, S
    <2>6. CASE M = 0
      <3>1. Ended(r)' = Ended(r)
        BY <2>4, <2>5, <2>6 DEF Ended
      <3> QED BY <1>5, <2>1, <2>2, <2>5, <2>6, <3>1
    <2>7. CASE M # 0
      <3>1. Early(r) = 0 /\ S = 0 /\ Ended(r) = 0 /\ r \in sent
        BY <1>5, <2>1, <2>7
      <3>2. r \notin Answered
        BY <3>1 DEF Ended
      <3>3. Ended(r)' = 1
        BY <2>4, <2>5, <2>7, <3>2
      <3> QED BY <2>2, <2>5, <3>1, <3>3
    <2> QED BY <2>6, <2>7
  <1>12. ASSUME HandleTLBRestart PROVE Balanced
    <2> DEFINE T == Number(topPort, {r})
               L == Number(lookupBuffer, {r})
               P == IF r \in pipeline THEN 1 ELSE 0
    <2>1. T \in Nat /\ L \in Nat
      BY PlacesParts
    <2>2. P \in 0..1 /\ Early(r) = T + L + P
      BY DEF Early
    <2>3. Early(r)' = 0 + L + P
      <3>1. Early(r)' = Number(<<>>, {r}) + L + P
        BY <1>12 DEF Early, Number, HandleTLBRestart
      <3> QED BY <3>1, NumberEmpty
    <2>4. r \in dropped' <=> r \in dropped \/ T # 0
      <3>1. T # 0 <=> r \in Range(topPort)
        BY NumberIn DEF Range, TypeOK
      <3> QED BY <1>12, <3>1 DEF HandleTLBRestart
    <2>5. /\ Waits(r)' = Waits(r) /\ sent' = sent
          /\ Ended(r)' = (IF r \in Answered THEN 1 ELSE 0) + (IF r \in dropped' THEN 1 ELSE 0)
      BY <1>12, PlacesKept DEF HandleTLBRestart, missVars, l2Vars, Ended, Answered
    <2> HIDE DEF T, L, P
    <2>6. CASE T = 0
      <3>1. Ended(r)' = Ended(r)
        BY <2>4, <2>5, <2>6 DEF Ended
      <3> QED BY <1>5, <2>1, <2>2, <2>3, <2>5, <2>6, <3>1
    <2>7. CASE T # 0
      <3>1. Waits(r) = 0 /\ L = 0 /\ P = 0 /\ Ended(r) = 0 /\ r \in sent
        BY <1>5, <2>1, <2>2, <2>7
      <3>2. r \notin Answered
        BY <3>1 DEF Ended
      <3>3. Ended(r)' = 1
        BY <2>4, <2>5, <2>7, <3>2
      <3> QED BY <2>3, <2>5, <3>1, <3>3
    <2> QED BY <2>6, <2>7
  <1>13. ASSUME NEW u \in Req, L2Sends(u) PROVE Balanced
    <2>1. Early(r)' = Early(r) + IF u = r THEN 1 ELSE 0
      BY <1>13, SentNow
    <2>2. u \notin sent /\ sent' = sent \cup {u}
      BY <1>13 DEF L2Sends
    <2>3. Waits(r)' = Waits(r) /\ Ended(r)' = Ended(r)
      BY <1>13, PlacesKept DEF L2Sends, missVars, controlVars
    <2> QED BY <1>5, <2>1, <2>2, <2>3
  <1> DEFINE Quiet == UNCHANGED <<topPort, lookupBuffer, mshr, respondingMSHREntry, pipeline,
                                  answered, dropped, sent>>
  <1>14. ASSUME Quiet PROVE Balanced
    BY <1>5, <1>14, PlacesKept
  <1>15. Next => \/ RespondMSHREntry \/ ParseBottom \/ ProcessTLBMSHRHit \/ HandleTranslationMiss
                 \/ HandleTranslationHit \/ (\E u \in Req : PipelineTick(u)) \/ ParseFromTop
                 \/ (\E p \in Page : HandleTLBFlush(p)) \/ HandleTLBRestart
                 \/ (\E u \in Req : L2Sends(u)) \/ Quiet
    BY DEF Next, System, Stages, Over, ParseFromPageWalkCache, DropPage, AskRestart, AskFlush,
           MMUAnswers, MMUWrites, vars, tlbVars, inVars, missVars, controlVars, l2Vars
  <1> HIDE DEF Balanced, Quiet
  <1> QED BY <1>6, <1>7, <1>8, <1>9, <1>10, <1>11, <1>12, <1>13, <1>14, <1>15

-----------------------------------------------------------------------------
(* The TLB knows what it fetches.                                          *)

(* A request whose page is fetched has been looked up.                     *)
LEMMA EarlyKept ==
    ASSUME TypeOK, EachRequestOnce, Next, NEW r \in Req, r \in sent, Early(r) = 0
    PROVE  r \in sent' /\ Early(r)' = 0
  <1>1. r \in sent'
    BY DEF Next, System, Stages, Over, RespondMSHREntry, ParseFromPageWalkCache, DropPage, ParseBottom,
           ProcessTLBMSHRHit, HandleTranslationHit, HandleTranslationMiss, PipelineTick, ParseFromTop,
           HandleTLBFlush, HandleTLBRestart, AskRestart, AskFlush, MMUAnswers, L2Sends, MMUWrites,
           vars, tlbVars, l2Vars
  <1>2. CASE ProcessTLBMSHRHit \/ HandleTranslationHit \/ HandleTranslationMiss
    <2>1. Early(r)' \in Nat /\ Early(r) = Early(r)' + IF Looking = r THEN 1 ELSE 0
      BY <1>2, LookedUpOnce DEF ProcessTLBMSHRHit, HandleTranslationHit, HandleTranslationMiss
    <2> QED BY <1>1, <2>1
  <1>3. CASE ParseFromTop \/ \E u \in Req : PipelineTick(u)
    BY <1>1, <1>3, TakenIn, MovedOn
  <1>4. CASE HandleTLBRestart
    <2> DEFINE T == Number(topPort, {r})
               L == Number(lookupBuffer, {r})
               P == IF r \in pipeline THEN 1 ELSE 0
    <2>1. T \in Nat /\ L \in Nat
      BY PlacesParts
    <2>2. P \in 0..1 /\ Early(r) = T + L + P
      BY DEF Early
    <2>3. Early(r)' = 0 + L + P
      <3>1. Early(r)' = Number(<<>>, {r}) + L + P
        BY <1>4 DEF Early, Number, HandleTLBRestart
      <3> QED BY <3>1, NumberEmpty
    <2> HIDE DEF T, L, P
    <2> QED BY <1>1, <2>1, <2>2, <2>3
  <1>5. CASE \E u \in Req : L2Sends(u)
    <2>1. PICK u \in Req : L2Sends(u)
      BY <1>5
    <2>2. u # r /\ Early(r)' = Early(r) + IF u = r THEN 1 ELSE 0
      BY <2>1, SentNow DEF L2Sends
    <2> QED BY <1>1, <2>2
  <1>6. CASE UNCHANGED <<topPort, pipeline, lookupBuffer>>
    BY <1>1, <1>6, PlacesKept
  <1>7. Next => \/ ProcessTLBMSHRHit \/ HandleTranslationHit \/ HandleTranslationMiss
                \/ ParseFromTop \/ (\E u \in Req : PipelineTick(u)) \/ HandleTLBRestart
                \/ (\E u \in Req : L2Sends(u)) \/ UNCHANGED <<topPort, pipeline, lookupBuffer>>
    BY DEF Next, System, Stages, Over, RespondMSHREntry, ParseFromPageWalkCache, DropPage, ParseBottom,
           HandleTLBFlush, AskRestart, AskFlush, MMUAnswers, MMUWrites, vars, tlbVars, inVars
  <1> QED BY <1>2, <1>3, <1>4, <1>5, <1>6, <1>7

(* The answer of the page walk cache that the TLB takes.                   *)
LEMMA AnswerType ==
    ASSUME TypeOK, ParseFromPageWalkCache
    PROVE  /\ Head(dataReady).req \in Req
           /\ dataReady \in Seq(CacheAnswer) /\ dataReady # <<>> /\ Head(dataReady) \in CacheAnswer
  <1>1. dataReady \in Seq(CacheAnswer) /\ dataReady # <<>>
    BY DEF ParseFromPageWalkCache, TypeOK, PWCTypeOK, CacheAnswer
  <1>2. Head(dataReady) \in CacheAnswer
    BY <1>1, TailAt
  <1> QED BY <1>1, <1>2 DEF CacheAnswer

(* Every step keeps ReadsKnown. *)
LEMMA ReadsStep ==
    ASSUME TypeOK, EachRequestOnce, ReadsKnown, FetchedOnce, Next
    PROVE  ReadsKnown'
  <1> DEFINE Fetched(r) == IF r \in inflightPageWalkCacheReqs THEN 1 ELSE 0
  <1>1. SUFFICES ASSUME NEW r \in Req PROVE Reads(r)' = Fetched(r)'
    BY DEF ReadsKnown
  <1> DEFINE T == Number(toTop, {r})
             L == Number(pwcLookup, {Read(r)})
             B == Number(bank, BankReads(r))
             D == Number(dataReady, AnswersTo(r))
             P == IF Read(r) \in pwcPipeline THEN 1 ELSE 0
  <1>2. T \in Nat /\ L \in Nat /\ B \in Nat /\ D \in Nat
    BY ReadsType DEF TypeOK
  <1>3. P \in 0..1 /\ Reads(r) = T + L + B + D + P /\ Reads(r) = Fetched(r)
    BY DEF Reads, ReadsKnown
  <1>4. ASSUME ParseFromPageWalkCache PROVE Reads(r)' = Fetched(r)'
    <2> DEFINE K == Number(Tail(dataReady), AnswersTo(r))
    <2>1. PICK d \in CacheAnswer : d = Head(dataReady) /\ d.req \in Req
      BY <1>4, AnswerType
    <2>2. d \in AnswersTo(r) <=> d.req = r
      BY DEF AnswersTo
    <2>3. K \in Nat /\ D = K + IF d.req = r THEN 1 ELSE 0
      <3>1. K \in Nat /\ D = K + IF Head(dataReady) \in AnswersTo(r) THEN 1 ELSE 0
        BY <1>4, AnswerType, NumberTail
      <3> QED BY <2>1, <2>2, <3>1
    <2>4. Reads(r)' = T + L + B + K + P
      BY <1>4 DEF Reads, Number, ParseFromPageWalkCache
    <2>5. /\ d.req \in inflightPageWalkCacheReqs
          /\ inflightPageWalkCacheReqs' = inflightPageWalkCacheReqs \ {d.req}
      BY <1>4, <2>1 DEF ParseFromPageWalkCache
    <2>6. Fetched(r)' = IF r \in inflightPageWalkCacheReqs /\ r # d.req THEN 1 ELSE 0
      BY <2>5
    <2> HIDE DEF T, L, B, D, P, K
    <2> QED BY <1>2, <1>3, <2>3, <2>4, <2>5, <2>6
  <1>5. ASSUME HandleTranslationMiss PROVE Reads(r)' = Fetched(r)'
    <2>1. PICK h \in Req : h = Looking
      BY <1>5, LookingIn DEF HandleTranslationMiss
    <2>2. h \notin inflightPageWalkCacheReqs
      <3>1. Early(h)' \in Nat /\ Early(h) = Early(h)' + 1
        BY <1>5, <2>1, LookedUpOnce DEF HandleTranslationMiss
      <3> QED BY <3>1 DEF FetchedOnce
    <2>3. Number(Append(toTop, h), {r}) = T + IF h = r THEN 1 ELSE 0
      BY OneMore DEF TypeOK, PWCTypeOK
    <2>4. Reads(r)' = Number(Append(toTop, h), {r}) + L + B + D + P
      BY <1>5, <2>1 DEF Reads, Number, HandleTranslationMiss
    <2>5. Fetched(r)' = IF r \in inflightPageWalkCacheReqs \/ r = h THEN 1 ELSE 0
      BY <1>5, <2>1 DEF HandleTranslationMiss
    <2> HIDE DEF T, L, B, D, P
    <2> QED BY <1>2, <1>3, <2>2, <2>3, <2>4, <2>5
  <1>6. ASSUME PWCStep, UNCHANGED tlbVars PROVE Reads(r)' = Fetched(r)'
    <2>1. Reads(r)' = Reads(r)
      BY <1>6, ReadsKept DEF TypeOK
    <2> QED BY <1>3, <1>6, <2>1 DEF tlbVars, missVars
  <1>7. ASSUME UNCHANGED <<toTop, pwcPipeline, pwcLookup, bank, dataReady, inflightPageWalkCacheReqs>>
        PROVE  Reads(r)' = Fetched(r)'
    <2>1. Reads(r)' = Reads(r)
      BY <1>7 DEF Reads, Number
    <2> QED BY <1>3, <1>7, <2>1
  <1>8. Next => \/ ParseFromPageWalkCache \/ HandleTranslationMiss \/ (PWCStep /\ UNCHANGED tlbVars)
                \/ UNCHANGED <<toTop, pwcPipeline, pwcLookup, bank, dataReady,
                               inflightPageWalkCacheReqs>>
    BY DEF Next, System, Stages, Over, RespondMSHREntry, DropPage, ParseBottom, ProcessTLBMSHRHit,
           HandleTranslationHit, PipelineTick, ParseFromTop, HandleTLBFlush, HandleTLBRestart,
           AskRestart, AskFlush, MMUAnswers, L2Sends, MMUWrites, vars, pwcVars, tlbVars, missVars
  <1> QED BY <1>4, <1>5, <1>6, <1>7, <1>8

(* Every step keeps FetchedOnce. *)
LEMMA FetchedStep ==
    ASSUME TypeOK, EachRequestOnce, FetchedOnce, Next
    PROVE  FetchedOnce'
  <1>1. \A r \in FetchesOf : r \in Req /\ r \in sent' /\ Early(r)' = 0
    <2> SUFFICES ASSUME NEW r \in FetchesOf PROVE r \in Req /\ r \in sent' /\ Early(r)' = 0
      OBVIOUS
    <2>1. r \in Req /\ r \in sent /\ Early(r) = 0
      BY DEF FetchesOf, FetchedOnce, TypeOK
    <2> QED BY <2>1, EarlyKept
  <1>2. CASE ParseFromPageWalkCache
    <2>1. PICK r \in Req : r = Head(dataReady).req
      BY <1>2, AnswerType
    <2>2. /\ r \in inflightPageWalkCacheReqs /\ mmus' = mmus \cup {r}
          /\ inflightPageWalkCacheReqs' = inflightPageWalkCacheReqs \ {r}
      BY <1>2, <2>1 DEF ParseFromPageWalkCache
    <2> QED BY <1>1, <2>2 DEF FetchesOf, FetchedOnce
  <1>3. CASE HandleTranslationMiss
    <2>1. PICK h \in Req : h = Looking
      BY <1>3, LookingIn DEF HandleTranslationMiss
    <2>2. /\ inflightPageWalkCacheReqs' = inflightPageWalkCacheReqs \cup {h}
          /\ mmus' = mmus /\ sent' = sent
      BY <1>3, <2>1 DEF HandleTranslationMiss, mmuVars, l2Vars
    <2>3. Early(h)' \in Nat /\ Early(h) = Early(h)' + 1
      BY <1>3, <2>1, LookedUpOnce DEF HandleTranslationMiss
    <2>4. /\ Early(h) \in Nat /\ Waits(h) \in Nat /\ Ended(h) \in Nat
          /\ Early(h) + Waits(h) + Ended(h) = IF h \in sent THEN 1 ELSE 0
      BY InOnePlace
    <2>5. Early(h)' = 0 /\ h \in sent' /\ h \notin mmus
      BY <2>2, <2>3, <2>4 DEF FetchedOnce
    <2> QED BY <1>1, <2>2, <2>5 DEF FetchesOf, FetchedOnce
  <1>4. CASE mmus' \subseteq mmus /\ inflightPageWalkCacheReqs' = inflightPageWalkCacheReqs
    BY <1>1, <1>4 DEF FetchesOf, FetchedOnce
  <1>5. Next => \/ ParseFromPageWalkCache
                \/ HandleTranslationMiss
                \/ mmus' \subseteq mmus /\ inflightPageWalkCacheReqs' = inflightPageWalkCacheReqs
    BY DEF Next, System, Stages, Over, RespondMSHREntry, DropPage, ParseBottom, ProcessTLBMSHRHit,
           HandleTranslationHit, PipelineTick, ParseFromTop, HandleTLBFlush, HandleTLBRestart,
           AskRestart, AskFlush, MMUAnswers, L2Sends, MMUWrites, vars, tlbVars, missVars, mmuVars
  <1> QED BY <1>2, <1>3, <1>4, <1>5

(* While the TLB is paused, no stage runs.                                 *)
LEMMA PausedStep ==
    ASSUME TypeOK, Paused, Next
    PROVE  Paused'
  <1>1. CASE ~isPaused /\ Stages
    <2>1. UNCHANGED <<isPaused, control, flushes>>
      BY <1>1 DEF Stages, RespondMSHREntry, ParseFromPageWalkCache, DropPage, ParseBottom,
           ProcessTLBMSHRHit, HandleTranslationHit, HandleTranslationMiss, PipelineTick, ParseFromTop,
           controlVars
    <2> QED BY <1>1, <2>1 DEF Paused
  <1>2. CASE \E p \in Page : HandleTLBFlush(p)
    BY <1>2 DEF HandleTLBFlush, Paused
  <1>3. CASE HandleTLBRestart \/ AskRestart
    BY <1>3 DEF HandleTLBRestart, AskRestart, Paused, missVars
  <1>4. CASE AskFlush
    <2>1. flushes \in Nat /\ flushes' = flushes + 1
      BY <1>4 DEF AskFlush, TypeOK
    <2> QED BY <1>4, <2>1 DEF AskFlush, Paused, missVars
  <1>5. CASE UNCHANGED <<isPaused, control, flushes, mshr>>
    BY <1>5 DEF Paused
  <1>6. Next => \/ ~isPaused /\ Stages
                \/ (\E p \in Page : HandleTLBFlush(p)) \/ HandleTLBRestart \/ AskRestart \/ AskFlush
                \/ UNCHANGED <<isPaused, control, flushes, mshr>>
    BY DEF Next, System, Over, MMUAnswers, L2Sends, MMUWrites, vars, tlbVars, missVars, controlVars
  <1> QED BY <1>1, <1>2, <1>3, <1>4, <1>5, <1>6

-----------------------------------------------------------------------------
(* Every entry of the MSHR is fetched, and before the first flush once.    *)

(* How often a page waits in BottomPort.                                   *)
Back(p) == Number(bottomPort, {p})

(* The pages on their way back, when the port changes. *)
LEMMA BackChanges ==
    ASSUME TypeOK, NEW p \in Page
    PROVE  /\ Back(p) \in Nat
           /\ bottomPort' = bottomPort => Back(p)' = Back(p)
           /\ bottomPort # <<>> /\ bottomPort' = Tail(bottomPort)
                => Back(p)' \in Nat /\ Back(p) = Back(p)' + IF Head(bottomPort) = p THEN 1 ELSE 0
           /\ \A q \in Page : bottomPort' = Append(bottomPort, q)
                => Back(p)' = Back(p) + IF q = p THEN 1 ELSE 0
  <1>1. bottomPort \in Seq(Page)
    BY DEF TypeOK
  <1>2. Back(p) \in Nat
    BY <1>1, NumberIn DEF Back
  <1>3. bottomPort' = bottomPort => Back(p)' = Back(p)
    BY DEF Back, Number
  <1>4. ASSUME bottomPort # <<>>, bottomPort' = Tail(bottomPort)
        PROVE  Back(p)' \in Nat /\ Back(p) = Back(p)' + IF Head(bottomPort) = p THEN 1 ELSE 0
    <2>1. /\ Number(Tail(bottomPort), {p}) \in Nat
          /\ Number(bottomPort, {p}) = Number(Tail(bottomPort), {p})
                                        + IF Head(bottomPort) \in {p} THEN 1 ELSE 0
      BY <1>1, <1>4, NumberTail
    <2>2. Back(p)' = Number(Tail(bottomPort), {p})
      BY <1>4 DEF Back, Number
    <2> QED BY <2>1, <2>2 DEF Back
  <1>5. ASSUME NEW q \in Page, bottomPort' = Append(bottomPort, q)
        PROVE  Back(p)' = Back(p) + IF q = p THEN 1 ELSE 0
    <2>1. Number(Append(bottomPort, q), {p}) = Number(bottomPort, {p}) + IF q \in {p} THEN 1 ELSE 0
      BY <1>1, NumberAppend
    <2>2. Back(p)' = Number(Append(bottomPort, q), {p})
      BY <1>5 DEF Back, Number
    <2> QED BY <2>1, <2>2 DEF Back
  <1> QED BY <1>2, <1>3, <1>4, <1>5

(* Every step keeps the fetches counted. *)
LEMMA FetchesStep ==
    ASSUME TypeOK, FetchedOnce, Fetches, Paused, Next
    PROVE  Fetches'
  <1> DEFINE EF == \A p \in Page : mshr'[p] # <<>> => Back(p)' # 0 \/ \E r \in FetchesOf' : PageOf[r] = p
             OF == /\ ~panicked'
                   /\ \A r \in FetchesOf' : mshr'[PageOf[r]] # <<>> /\ Back(PageOf[r])' = 0
                   /\ \A r, s \in FetchesOf' : PageOf[r] = PageOf[s] => r = s
                   /\ \A p \in Page : Back(p)' <= 1 /\ (Back(p)' = 1 => mshr'[p] # <<>>)
  <1>1. SUFFICES EF /\ (flushes' = 0 => OF)
    BY DEF Fetches, EntriesFetched, OneFetch, Entries, Back
  <1>2. /\ \A p \in Page : mshr[p] # <<>> => Back(p) # 0 \/ \E r \in FetchesOf : PageOf[r] = p
        /\ flushes = 0 =>
             /\ ~panicked
             /\ \A r \in FetchesOf : mshr[PageOf[r]] # <<>> /\ Back(PageOf[r]) = 0
             /\ \A r, s \in FetchesOf : PageOf[r] = PageOf[s] => r = s
             /\ \A p \in Page : Back(p) <= 1 /\ (Back(p) = 1 => mshr[p] # <<>>)
    BY DEF Fetches, EntriesFetched, OneFetch, Entries, Back
  <1>3. mshr \in [Page -> Seq(Req)] /\ \A r \in FetchesOf : r \in Req /\ PageOf[r] \in Page
    BY PageIn DEF TypeOK, FetchesOf
  <1>4. \A p \in Page : Back(p) \in Nat
    BY BackChanges
  <1>5. bottomPort' = bottomPort => \A p \in Page : Back(p)' = Back(p)
    BY BackChanges
  <1>6. bottomPort # <<>> /\ bottomPort' = Tail(bottomPort)
          => \A p \in Page : /\ Back(p)' \in Nat
                             /\ Back(p) = Back(p)' + IF Head(bottomPort) = p THEN 1 ELSE 0
    BY BackChanges
  <1>7. CASE ParseFromPageWalkCache
    <2>1. PICK r \in Req : r = Head(dataReady).req
      BY <1>7, AnswerType
    <2>2. /\ r \in inflightPageWalkCacheReqs /\ mmus' = mmus \cup {r}
          /\ inflightPageWalkCacheReqs' = inflightPageWalkCacheReqs \ {r}
          /\ panicked' = (mshr[PageOf[r]] = <<>>)
          /\ UNCHANGED <<mshr, bottomPort, flushes>>
      BY <1>7, <2>1 DEF ParseFromPageWalkCache
    <2>3. FetchesOf' = FetchesOf /\ r \in FetchesOf
      BY <2>2 DEF FetchesOf
    <2> QED BY <1>2, <1>3, <1>5, <2>2, <2>3
  <1>8. CASE DropPage
    <2>1. PICK p \in Page : p = Head(bottomPort)
      BY <1>8, TailAt DEF DropPage, TypeOK
    <2>2. /\ bottomPort # <<>> /\ mshr[p] = <<>> /\ bottomPort' = Tail(bottomPort)
          /\ UNCHANGED <<mshr, flushes, panicked>> /\ FetchesOf' = FetchesOf
      BY <1>8, <2>1 DEF DropPage, missVars, controlVars, FetchesOf
    <2>3. \A q \in Page : /\ Back(q)' \in Nat
                          /\ Back(q) = Back(q)' + IF p = q THEN 1 ELSE 0
      BY <1>6, <2>1, <2>2
    <2>4. EF
      BY <1>2, <2>2, <2>3
    <2>5. flushes # 0
      <3>1. Back(p)' \in Nat /\ Back(p) = Back(p)' + 1
        BY <2>3
      <3> QED BY <1>2, <2>2, <3>1
    <2> QED BY <2>2, <2>4, <2>5
  <1>9. CASE ParseBottom
    <2>1. PICK p \in Page : p = Head(bottomPort)
      BY <1>9, TailAt DEF ParseBottom, TypeOK
    <2>2. /\ bottomPort # <<>> /\ mshr' = [mshr EXCEPT ![p] = <<>>] /\ bottomPort' = Tail(bottomPort)
          /\ UNCHANGED <<flushes, panicked>> /\ FetchesOf' = FetchesOf
      BY <1>9, <2>1 DEF ParseBottom, controlVars, FetchesOf
    <2>3. \A q \in Page : /\ Back(q)' \in Nat
                          /\ Back(q) = Back(q)' + IF p = q THEN 1 ELSE 0
      BY <1>6, <2>1, <2>2
    <2>4. /\ mshr'[p] = <<>> /\ \A q \in Page : q # p => mshr'[q] = mshr[q] /\ Back(q)' = Back(q)
      BY <1>3, <2>2, <2>3
    <2>5. EF
      BY <1>2, <2>2, <2>4
    <2>6. ASSUME flushes' = 0 PROVE OF
      <3>1. Back(p)' \in Nat /\ Back(p) = Back(p)' + 1 /\ Back(p) <= 1
        BY <1>2, <2>2, <2>3, <2>6
      <3>2. Back(p)' = 0 /\ Back(p) = 1
        BY <3>1
      <3>3. \A r \in FetchesOf : PageOf[r] # p
        BY <1>2, <2>2, <2>6, <3>2
      <3> QED BY <1>2, <1>3, <2>2, <2>4, <2>6, <3>2, <3>3
    <2> QED BY <2>5, <2>6
  <1>10. CASE ProcessTLBMSHRHit
    <2>1. PICK h \in Req : h = Looking /\ PageOf[h] \in Page
      BY <1>10, LookingIn DEF ProcessTLBMSHRHit
    <2>2. /\ mshr[PageOf[h]] # <<>> /\ mshr' = [mshr EXCEPT ![PageOf[h]] = Append(@, h)]
          /\ UNCHANGED <<bottomPort, flushes, panicked>> /\ FetchesOf' = FetchesOf
      BY <1>10, <2>1 DEF ProcessTLBMSHRHit, mmuVars, controlVars, FetchesOf
    <2>3. \A p \in Page : mshr'[p] # <<>> <=> mshr[p] # <<>>
      <3>1. PICK q \in Seq(Req) : q = mshr[PageOf[h]]
        BY <1>3, <2>1
      <3>2. Append(q, h) # <<>>
        BY AppendAt
      <3> QED BY <1>3, <2>1, <2>2, <3>1, <3>2
    <2> QED BY <1>2, <1>3, <1>5, <2>2, <2>3
  <1>11. CASE HandleTranslationMiss
    <2>1. PICK h \in Req : h = Looking /\ PageOf[h] \in Page
      BY <1>11, LookingIn DEF HandleTranslationMiss
    <2>2. /\ mshr[PageOf[h]] = <<>> /\ mshr' = [mshr EXCEPT ![PageOf[h]] = Append(@, h)]
          /\ UNCHANGED <<bottomPort, flushes, panicked>> /\ FetchesOf' = FetchesOf \cup {h}
      BY <1>11, <2>1 DEF HandleTranslationMiss, Misses, mmuVars, controlVars, FetchesOf
    <2>3. /\ mshr'[PageOf[h]] # <<>>
          /\ \A p \in Page : p # PageOf[h] => mshr'[p] = mshr[p]
      <3>1. PICK q \in Seq(Req) : q = mshr[PageOf[h]]
        BY <1>3, <2>1
      <3>2. Append(q, h) # <<>>
        BY AppendAt
      <3> QED BY <1>3, <2>1, <2>2, <3>1, <3>2
    <2>4. EF
      BY <1>2, <1>5, <2>1, <2>2, <2>3
    <2>5. ASSUME flushes' = 0 PROVE OF
      <3>1. Back(PageOf[h]) = 0
        <4>1. Back(PageOf[h]) \in Nat /\ Back(PageOf[h]) <= 1 /\ Back(PageOf[h]) # 1
          BY <1>2, <1>4, <2>1, <2>2, <2>5
        <4> QED BY <4>1
      <3>2. \A r \in FetchesOf : PageOf[r] # PageOf[h]
        BY <1>2, <2>2, <2>5
      <3> QED BY <1>2, <1>3, <1>5, <2>1, <2>2, <2>3, <2>5, <3>1, <3>2
    <2> QED BY <2>4, <2>5
  <1>12. CASE \E p \in Page : HandleTLBFlush(p)
    <2>1. flushes' = flushes /\ flushes # 0
      BY <1>12 DEF HandleTLBFlush, Paused
    <2>2. \A p \in Page : mshr'[p] = <<>>
      BY <1>12 DEF HandleTLBFlush
    <2> QED BY <2>1, <2>2
  <1>13. CASE HandleTLBRestart
    <2>1. flushes' = flushes /\ flushes # 0
      BY <1>13 DEF HandleTLBRestart, Paused
    <2>2. \A p \in Page : mshr'[p] = <<>>
      BY <1>13 DEF HandleTLBRestart, Paused, missVars
    <2> QED BY <2>1, <2>2
  <1>14. CASE AskFlush
    <2>1. flushes' # 0
      BY <1>14 DEF AskFlush, TypeOK
    <2>2. UNCHANGED <<mshr, bottomPort>> /\ FetchesOf' = FetchesOf
      BY <1>14 DEF AskFlush, missVars, mmuVars, FetchesOf
    <2> QED BY <1>2, <1>5, <2>1, <2>2
  <1>15. CASE \E r \in Req : MMUAnswers(r)
    <2>1. PICK r \in Req : MMUAnswers(r)
      BY <1>15
    <2>2. /\ r \in FetchesOf /\ FetchesOf' = FetchesOf \ {r}
          /\ UNCHANGED <<mshr, flushes, panicked>>
      BY <2>1 DEF MMUAnswers, FetchedOnce, FetchesOf, missVars, controlVars
    <2>3. \A p \in Page : Back(p)' = Back(p) + IF PageOf[r] = p THEN 1 ELSE 0
      BY <2>1, BackChanges, PageIn DEF MMUAnswers
    <2>4. \A p \in Page : PageOf[r] # p => Back(p)' = Back(p)
      BY <1>4, <2>3
    <2>5. Back(PageOf[r])' = Back(PageOf[r]) + 1 /\ Back(PageOf[r])' # 0
      BY <1>3, <1>4, <2>2, <2>3
    <2>6. EF
      BY <1>2, <2>2, <2>4, <2>5
    <2>7. ASSUME flushes' = 0 PROVE OF
      <3>1. /\ mshr[PageOf[r]] # <<>> /\ Back(PageOf[r])' = 1
            /\ \A s \in FetchesOf' : s \in FetchesOf /\ PageOf[s] # PageOf[r]
        BY <1>2, <2>2, <2>5, <2>7
      <3>2. \A s \in FetchesOf' : Back(PageOf[s])' = 0 /\ mshr'[PageOf[s]] # <<>>
        BY <1>2, <1>3, <2>2, <2>4, <2>7, <3>1
      <3>3. \A p \in Page : Back(p)' <= 1 /\ (Back(p)' = 1 => mshr'[p] # <<>>)
        BY <1>2, <2>2, <2>4, <2>7, <3>1
      <3> QED BY <1>2, <2>2, <2>7, <3>1, <3>2, <3>3
    <2> QED BY <2>6, <2>7
  <1>16. CASE UNCHANGED <<mshr, bottomPort, inflightPageWalkCacheReqs, mmus, panicked, flushes>>
    <2>1. FetchesOf' = FetchesOf
      BY <1>16 DEF FetchesOf
    <2> QED BY <1>2, <1>3, <1>5, <1>16, <2>1
  <1>17. Next => \/ ParseFromPageWalkCache \/ DropPage \/ ParseBottom \/ ProcessTLBMSHRHit
                 \/ HandleTranslationMiss \/ (\E p \in Page : HandleTLBFlush(p)) \/ HandleTLBRestart
                 \/ AskFlush \/ (\E r \in Req : MMUAnswers(r))
                 \/ UNCHANGED <<mshr, bottomPort, inflightPageWalkCacheReqs, mmus, panicked, flushes>>
    BY DEF Next, System, Stages, Over, RespondMSHREntry, HandleTranslationHit, PipelineTick,
           ParseFromTop, AskRestart, L2Sends, MMUWrites, vars, tlbVars, missVars, mmuVars, controlVars
  <1> HIDE DEF EF, OF
  <1> QED BY <1>7, <1>8, <1>9, <1>10, <1>11, <1>12, <1>13, <1>14, <1>15, <1>16, <1>17

-----------------------------------------------------------------------------
(* The invariant. *)

LEMMA CacheKept ==
    ASSUME TypeOK, CacheRight, Next
    PROVE  CacheRight'
  <1>1. CASE PWCStep
    BY <1>1, CacheStep DEF TypeOK
  <1>2. ASSUME UNCHANGED <<bank, blocks>>, (\A i \in DOMAIN dataReady : NodeOf(dataReady[i]))'
        PROVE  CacheRight'
    <2>1. (\A b \in Block : BlockRight(b))'
      BY <1>2 DEF CacheRight, BlockRight, Number
    <2>2. (\A i \in DOMAIN bank : EntryRight(blocks, bank[i]))'
      BY <1>2 DEF CacheRight, EntryRight
    <2> QED BY <1>2, <2>1, <2>2 DEF CacheRight
  <1>3. CASE ParseFromPageWalkCache
    <2>1. (\A i \in DOMAIN dataReady : NodeOf(dataReady[i]))'
      BY <1>3, AnswerTaken DEF ParseFromPageWalkCache, TypeOK
    <2> QED BY <1>2, <1>3, <2>1 DEF ParseFromPageWalkCache
  <1>4. CASE UNCHANGED <<bank, blocks, dataReady>>
    <2>1. (\A i \in DOMAIN dataReady : NodeOf(dataReady[i]))'
      BY <1>4 DEF CacheRight, NodeOf
    <2> QED BY <1>2, <1>4, <2>1
  <1>5. Next => \/ PWCStep \/ ParseFromPageWalkCache \/ UNCHANGED <<bank, blocks, dataReady>>
    BY DEF Next, System, Stages, Over, RespondMSHREntry, DropPage, ParseBottom, ProcessTLBMSHRHit,
           HandleTranslationHit, HandleTranslationMiss, PipelineTick, ParseFromTop, HandleTLBFlush,
           HandleTLBRestart, AskRestart, AskFlush, MMUAnswers, L2Sends, MMUWrites, vars, pwcVars
  <1> QED BY <1>1, <1>3, <1>4, <1>5

(* Every step keeps the inductive invariant. *)
LEMMA InvariantStep ==
    ASSUME IInv, [Next]_vars
    PROVE  IInv'
  <1>1. CASE Next
    <2>1. (TypeOK /\ Finite)'
      BY <1>1, TypeStep DEF IInv
    <2>2. EachRequestOnce' /\ PagesRight'
      BY <1>1, OnceStep, PagesStep DEF IInv
    <2>3. ReadsKnown' /\ FetchedOnce'
      BY <1>1, ReadsStep, FetchedStep DEF IInv
    <2>4. Fetches' /\ Paused'
      BY <1>1, FetchesStep, PausedStep DEF IInv
    <2>5. CacheRight'
      BY <1>1, CacheKept DEF IInv
    <2> QED BY <2>1, <2>2, <2>3, <2>4, <2>5 DEF IInv
  <1>2. CASE UNCHANGED vars
    <2> USE <1>2 DEF vars, pwcVars, tlbVars, inVars, setVars, missVars, mmuVars, controlVars, l2Vars
    <2>1. TypeOK' /\ Finite'
      BY DEF IInv, TypeOK, Finite, PWCTypeOK, Entries
    <2>2. EachRequestOnce'
      BY DEF IInv, EachRequestOnce, Places, Occurrences, Waiting, Answered
    <2>3. ReadsKnown'
      BY DEF IInv, ReadsKnown, Reads, Number
    <2>4. FetchedOnce'
      BY DEF IInv, FetchedOnce, Early, Number
    <2>5. Fetches'
      BY DEF IInv, Fetches, EntriesFetched, OneFetch, Entries, FetchesOf, Number
    <2>6. Paused'
      BY DEF IInv, Paused
    <2>7. PagesRight'
      BY DEF IInv, PagesRight, OwnPage, Finds
    <2>8. CacheRight'
      BY DEF IInv, CacheRight, BlockRight, EntryRight, NodeOf, Number
    <2> QED BY <2>1, <2>2, <2>3, <2>4, <2>5, <2>6, <2>7, <2>8 DEF IInv
  <1> QED BY <1>1, <1>2

(* A queue of all blocks, or ways, in their order.                         *)
LEMMA InOrder ==
    ASSUME NEW S, IsFiniteSet(S), S = 1..Cardinality(S)
    PROVE  /\ [i \in S |-> i] \in Seq(S)
           /\ Range([i \in S |-> i]) = S /\ Len([i \in S |-> i]) = Cardinality(S)
  <1> DEFINE n == Cardinality(S)
             q == [i \in S |-> i]
  <1>1. n \in Nat
    BY CountZero
  <1>2. q \in [1..n -> S]
    OBVIOUS
  <1>3. q \in Seq(S)
    BY <1>1, <1>2, SeqDef
  <1>4. Len(q) = n
    BY <1>1, <1>2, <1>3, LenProperties
  <1> QED BY <1>3, <1>4 DEF Range

(* The initial states satisfy the inductive invariant. *)
LEMMA Initially == Init => IInv
  <1> SUFFICES ASSUME Init PROVE IInv
    OBVIOUS
  <1> USE Capacities
  <1>1. IsFiniteSet({}) /\ Cardinality({}) = 0
    BY FS_EmptySet
  <1>2. \A S : <<>> \in Seq(S) /\ Len(<<>>) = 0
    BY EmptySeq
  <1>3. \A M : Number(<<>>, M) = 0
    BY NumberEmpty
  <1>4. PWCTypeOK
    <2>1. LRUQueue \in Seq(Block) /\ Range(LRUQueue) = Block /\ Len(LRUQueue) = Cardinality(Block)
      BY InOrder, PageWalkCacheAssumption DEF Init, PWCInit
    <2>2. blocks \in [Block -> [valid : BOOLEAN, tag : Nodes \cup {Nothing}, locked : BOOLEAN,
                                readCount : 0..BankCap, data : Nodes \cup {Nothing}]]
      BY DEF Init, PWCInit
    <2> QED BY <1>1, <1>2, <2>1, <2>2 DEF PWCTypeOK, Init, PWCInit
  <1>5. Entries = {}
    BY DEF Entries, Init
  <1>6. TypeOK /\ Finite
    <2>1. SetsOK
      <3>1. \A s \in Set : visits[s] = [w \in Way |-> w]
        BY DEF Init
      <3>2. \A s \in Set : /\ visits[s] \in Seq(Way)
                           /\ Range(visits[s]) = Way /\ Len(visits[s]) = Cardinality(Way)
        BY <3>1, InOrder, LastLevelTLBAssumption
      <3> QED BY <3>2 DEF SetsOK, Init
    <2>2. CacheOK
      BY <1>1, <1>4 DEF CacheOK, PipelineFinite, Init, PWCInit
    <2>3. QueuesOK
      BY <1>1, <1>2 DEF QueuesOK, Init
    <2>4. MissesOK
      BY <1>1, <1>2, <1>5 DEF MissesOK, Init
    <2>5. RestOK
      <3>1. flushes \in 0..MaxFlushes
        BY DEF Init
      <3>2. isPaused \in BOOLEAN /\ panicked \in BOOLEAN
        BY DEF Init
      <3> QED BY <3>1, <3>2 DEF RestOK, Init
    <2> QED BY <2>1, <2>2, <2>3, <2>4, <2>5, TypeParts
  <1>7. PagesRight
    BY OwnNone DEF PagesRight, Init, NoEntry, Finds
  <1>8. EachRequestOnce
    <2>1. \A p \in Page : Waiting(p) = {}
      BY DEF Waiting, Range, Init
    <2>2. \A r \in Req : Places(r) = 0
      <3> TAKE r \in Req
      <3>1. Early(r) = 0 /\ Waits(r) = 0 /\ Ended(r) = 0
        BY <1>3, PageIn DEF Early, Waits, Ended, Init, NoEntry, Answered
      <3> QED BY <3>1, PlacesSum
    <2> QED BY <2>1, <2>2 DEF EachRequestOnce, Init
  <1>9. ReadsKnown
    BY <1>3 DEF ReadsKnown, Reads, Init, PWCInit
  <1>10. FetchedOnce /\ FetchesOf = {}
    BY DEF FetchedOnce, FetchesOf, Init
  <1>11. Fetches
    BY <1>3, <1>5, <1>10 DEF Fetches, EntriesFetched, OneFetch, Init
  <1>12. Paused
    BY DEF Paused, Init
  <1>13. CacheRight
    BY <1>3 DEF CacheRight, BlockRight, Init, PWCInit
  <1> QED BY <1>6, <1>7, <1>8, <1>9, <1>10, <1>11, <1>12, <1>13 DEF IInv

-----------------------------------------------------------------------------
(* Theorems. *)

(* IInv holds in every behaviour of the TLB with its page walk cache, L2   *)
(* TLBs, MMUs and command processor.                                       *)
THEOREM Inductive == Spec => []IInv
  <1>1. IInv /\ [Next]_vars => IInv'
    BY InvariantStep
  <1> QED BY <1>1, Initially, PTL DEF Spec

(* Ports, buffers, sets, MSHR, blocks and queues keep their bounds and     *)
(* types: the queues that say which way or block was used least recently   *)
(* hold each one once, and no MSHR entry is made beyond the capacity.      *)
THEOREM TypeCorrect == Spec => []TypeOK
  <1>1. IInv => TypeOK
    BY DEF IInv
  <1> QED BY <1>1, Inductive, PTL

(* parseBottom, processTLBMSHRHit, handleTranslationHit, flush and restart *)
(* between them: a request of an L2 TLB is in one place of the TLB until   *)
(* it is answered, once, or lost by a flush or a restart.                  *)
THEOREM RequestsKept == Spec => []EachRequestOnce
  <1>1. IInv => EachRequestOnce
    BY DEF IInv
  <1> QED BY <1>1, Inductive, PTL

(* The reads in the page walk cache are counted by Reads.                  *)
LEMMA ReadsCounted ==
    ASSUME TypeOK
    PROVE  Reading \subseteq Req /\ \A r \in Req : r \in Reading <=> Reads(r) # 0
  <1>1. /\ toTop \in Seq(Req) /\ pwcLookup \in Seq(Transaction)
        /\ bank \in Seq(BankEntry) /\ dataReady \in Seq(CacheAnswer)
        /\ pwcPipeline \subseteq Transaction
    BY DEF TypeOK, PWCTypeOK, BankEntry, CacheAnswer
  <1> DEFINE InPipe == { t.req : t \in { u \in pwcPipeline \cup Range(pwcLookup) : u.read } }
             InBanks == { e.trans.req : e \in { f \in Range(bank) : f.trans.read } }
             InAnswers == { d.req : d \in Range(dataReady) }
  <1>2. Range(toTop) \subseteq Req /\ Range(pwcLookup) \subseteq Transaction
        /\ Range(bank) \subseteq BankEntry /\ Range(dataReady) \subseteq CacheAnswer
    BY <1>1, RangeType
  <1>3. Reading = Range(toTop) \cup InPipe \cup InBanks \cup InAnswers
    BY DEF Reading
  <1>4. InPipe \subseteq Req
    BY <1>1, <1>2, TransactionKinds
  <1>5. InBanks \subseteq Req
    BY <1>2, TransactionKinds DEF BankEntry
  <1>6. InAnswers \subseteq Req
    BY <1>2 DEF CacheAnswer
  <1>7. ASSUME NEW r \in Req PROVE r \in Reading <=> Reads(r) # 0
    <2> DEFINE T == Number(toTop, {r})
               L == Number(pwcLookup, {Read(r)})
               B == Number(bank, BankReads(r))
               D == Number(dataReady, AnswersTo(r))
               P == IF Read(r) \in pwcPipeline THEN 1 ELSE 0
    <2>1. T # 0 <=> r \in Range(toTop)
      BY <1>1, NumberIn DEF Range
    <2>2. L # 0 <=> Read(r) \in Range(pwcLookup)
      BY <1>1, NumberIn DEF Range
    <2>3. r \in InPipe <=> Read(r) \in pwcPipeline \/ Read(r) \in Range(pwcLookup)
      <3>1. Read(r) \in pwcPipeline \/ Read(r) \in Range(pwcLookup) => r \in InPipe
        BY ReadType
      <3>2. ASSUME r \in InPipe PROVE Read(r) \in pwcPipeline \cup Range(pwcLookup)
        <4>1. PICK t \in pwcPipeline \cup Range(pwcLookup) : t.read /\ t.req = r
          BY <3>2
        <4> QED BY <1>1, <1>2, <4>1, TransactionKinds
      <3> QED BY <3>1, <3>2
    <2>4. B # 0 <=> r \in InBanks
      <3>1. B # 0 <=> \E e \in Range(bank) : e \in BankReads(r)
        BY <1>1, NumberIn DEF Range
      <3>2. \A e \in Range(bank) : e \in BankReads(r) <=> e.trans.read /\ e.trans.req = r
        <4> TAKE e \in Range(bank)
        <4>1. e \in BankEntry /\ e.trans \in Transaction
          BY <1>2 DEF BankEntry
        <4> QED BY <4>1, ReadsOf DEF BankReads
      <3> QED BY <3>1, <3>2
    <2>5. D # 0 <=> r \in InAnswers
      <3>1. D # 0 <=> \E d \in Range(dataReady) : d \in AnswersTo(r)
        BY <1>1, NumberIn DEF Range
      <3> QED BY <1>2, <3>1 DEF AnswersTo
    <2>6. T \in Nat /\ L \in Nat /\ B \in Nat /\ D \in Nat
      BY ReadsType DEF TypeOK
    <2>7. P \in 0..1 /\ Reads(r) = T + L + B + D + P /\ (P # 0 <=> Read(r) \in pwcPipeline)
      BY DEF Reads
    <2> HIDE DEF T, L, B, D, P, InPipe, InBanks, InAnswers
    <2>8. Reads(r) # 0 <=> T # 0 \/ L # 0 \/ B # 0 \/ D # 0 \/ P # 0
      BY <2>6, <2>7
    <2> QED BY <1>3, <2>1, <2>2, <2>3, <2>4, <2>5, <2>7, <2>8
  <1> QED BY <1>2, <1>3, <1>4, <1>5, <1>6, <1>7

(* The TLB knows the reads in its page walk cache, every MSHR entry has a  *)
(* fetch under way after any flush and restart, and before the first flush *)
(* no page comes back that nobody waits for.                               *)
THEOREM MissesAreFetched == Spec => []MissesFetched
  <1>1. ASSUME IInv PROVE MissesFetched
    <2>1. TypeOK /\ ReadsKnown /\ EntriesFetched /\ (flushes = 0 => OneFetch)
      BY <1>1 DEF IInv, Fetches
    <2>2. inflightPageWalkCacheReqs = Reading
      <3>1. inflightPageWalkCacheReqs \subseteq Req
        BY <2>1 DEF TypeOK
      <3>2. \A r \in Req : r \in inflightPageWalkCacheReqs <=> Reads(r) # 0
        BY <2>1 DEF ReadsKnown
      <3> QED BY <2>1, <3>1, <3>2, ReadsCounted
    <2>3. Fetching = FetchesOf
      BY <2>2 DEF Fetching, FetchesOf
    <2>4. \A p \in Page : Number(bottomPort, {p}) # 0 => p \in Range(bottomPort)
      <3>1. bottomPort \in Seq(Page)
        BY <2>1 DEF TypeOK
      <3> QED BY <3>1, NumberIn DEF Range
    <2> QED BY <2>1, <2>2, <2>3, <2>4 DEF MissesFetched, EntriesFetched, OneFetch, Entries
  <1> QED BY <1>1, Inductive, PTL

(* In whichever order pages are filled, evicted, flushed and asked for, a  *)
(* request is answered with its own page, and with a node on the way to it *)
(* by the page walk cache, whose blocks are overwritten in the meantime.   *)
THEOREM AnswersAreRight == Spec => []AnswersRight
  <1>1. ASSUME IInv PROVE AnswersRight
    <2>1. PagesRight /\ CacheRight
      BY <1>1 DEF IInv
    <2> QED BY <2>1 DEF AnswersRight, PagesRight, Finds, CacheRight, NodeOf, Range
  <1> QED BY <1>1, Inductive, PTL
=============================================================================
