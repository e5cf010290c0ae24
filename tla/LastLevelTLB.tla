----------------------------- MODULE LastLevelTLB -----------------------------
(***************************************************************************)
(* The last level TLB (mem/vm/tlb/tlb_with_pwc.go) with its MSHR, its sets *)
(* and its page walk cache, between the L2 TLBs that ask and the MMUs that *)
(* walk the page table. A miss reads the page walk cache; the answer goes  *)
(* with the request to an MMU; the page that comes back is put into the    *)
(* set and sent to all requests that wait for it. The command processor    *)
(* flushes the TLB and restarts it, at any time.                           *)
(*                                                                         *)
(* An action is one round of one stage of Tick. A message that a port      *)
(* refuses is a stage that waits. Which MMU the dispatcher chooses makes   *)
(* no difference here: the MMUs are one set of requests, answered in any   *)
(* order and with the right page.                                          *)
(***************************************************************************)
EXTENDS PageWalkCache

CONSTANTS
    Set,          \* sets
    Way,          \* blocks of a set, 1..n
    SetOf,        \* vAddrToSetID of a page
    FlushSetOf,   \* vAddrToSetIDxor7 of a page
    TopCap,       \* messages in TopPort
    LookupCap,    \* requests in the lookup buffer, and in the pipeline
    MSHRCap,      \* entries of the MSHR
    BottomCap,    \* messages of BottomPort, and requests in the MMUs
    WriteLevel,   \* bound: levels whose nodes the MMUs write to the page walk cache
    MaxWrites,    \* bound: writes of the MMUs to the page walk cache
    MaxFlushes    \* bound: flushes

ASSUME LastLevelTLBAssumption ==
    /\ IsFiniteSet(Way) /\ Way = 1..Cardinality(Way) /\ Way # {}
    /\ SetOf \in [Page -> Set]
    /\ FlushSetOf \in [Page -> Set]
    /\ {TopCap, LookupCap, MSHRCap, BottomCap} \subseteq Nat \ {0}
    /\ WriteLevel \subseteq Level
    /\ {MaxWrites, MaxFlushes} \subseteq Nat

VARIABLES
    topPort,        \* requests of the L2 TLBs
    pipeline, lookupBuffer,
    pages,          \* page in every way, Empty in the beginning
    valid,          \* Valid of that page
    vAddrWayIDMap,  \* way of a page, 0 for none
    visits,         \* ways of a set, least recently visited first
    mshr,           \* requests waiting for a page; <<>>: no entry
    respondingMSHREntry,        \* the page and the requests still to answer
    inflightPageWalkCacheReqs,
    mmus,           \* requests in the MMUs
    bottomPort,     \* pages in BottomPort
    isPaused,
    control,        \* what the TLB owes the command processor or it the TLB
    panicked,       \* parseFromPageWalkCache found no MSHR entry
    sent,           \* requests the L2 TLBs have sent
    answered,       \* answers the L2 TLBs have, with the page
    dropped,        \* requests lost by flush and restart
    written,        \* writes of the MMUs
    flushes

setVars == <<pages, valid, vAddrWayIDMap, visits>>
inVars == <<topPort, pipeline, lookupBuffer>>
missVars == <<mshr, respondingMSHREntry, inflightPageWalkCacheReqs>>
mmuVars == <<mmus, bottomPort, written>>
controlVars == <<isPaused, control, panicked, dropped, flushes>>
l2Vars == <<sent, answered>>
tlbVars == <<inVars, setVars, missVars, mmuVars, controlVars, l2Vars>>
vars == <<pwcVars, tlbVars>>

Empty == "empty"

NoEntry == [page |-> Empty, reqs |-> <<>>]

Entries == { p \in Page : mshr[p] # <<>> }

TypeOK ==
    /\ PWCTypeOK
    /\ topPort \in Seq(Req) /\ Len(topPort) <= TopCap
    /\ pipeline \subseteq Req /\ Cardinality(pipeline) <= LookupCap
    /\ lookupBuffer \in Seq(Req) /\ Len(lookupBuffer) <= LookupCap
    /\ pages \in [Set -> [Way -> Page \cup {Empty}]]
    /\ valid \in [Set -> [Way -> BOOLEAN]]
    /\ vAddrWayIDMap \in [Set -> [Page -> Way \cup {0}]]
    /\ visits \in [Set -> Seq(Way)]
    /\ \A s \in Set : Range(visits[s]) = Way /\ Len(visits[s]) = Cardinality(Way)
    /\ mshr \in [Page -> Seq(Req)] /\ Cardinality(Entries) <= MSHRCap
    /\ respondingMSHREntry \in [page : Page, reqs : Seq(Req) \ {<<>>}] \cup {NoEntry}
    /\ inflightPageWalkCacheReqs \subseteq Req
    /\ mmus \subseteq Req /\ Cardinality(mmus) <= BottomCap
    /\ bottomPort \in Seq(Page) /\ Len(bottomPort) <= BottomCap
    /\ isPaused \in BOOLEAN
    /\ control \in {"idle", "flush", "flushed", "restart"}
    /\ panicked \in BOOLEAN
    /\ sent \subseteq Req
    /\ answered \subseteq [req : Req, page : Page]
    /\ dropped \subseteq Req
    /\ written \subseteq Transaction
    /\ flushes \in 0..MaxFlushes

Init ==
    /\ PWCInit
    /\ topPort = <<>> /\ pipeline = {} /\ lookupBuffer = <<>>
    /\ pages = [s \in Set |-> [w \in Way |-> Empty]]
    /\ valid = [s \in Set |-> [w \in Way |-> FALSE]]
    /\ vAddrWayIDMap = [s \in Set |-> [p \in Page |-> 0]]
    /\ visits = [s \in Set |-> [w \in Way |-> w]]
    /\ mshr = [p \in Page |-> <<>>]
    /\ respondingMSHREntry = NoEntry
    /\ inflightPageWalkCacheReqs = {}
    /\ mmus = {} /\ bottomPort = <<>>
    /\ isPaused = FALSE /\ control = "idle" /\ panicked = FALSE
    /\ sent = {} /\ answered = {} /\ dropped = {} /\ written = {}
    /\ flushes = 0

-----------------------------------------------------------------------------
(* Sets (internal/set.go). *)

(* Faulty: the old key stays. *)
UpdatedOnly(map, old, p, w) == [map EXCEPT ![p] = w]

(* Update: a key leaves the map with the page it was the key of. *)
Updated(map, old, p, w) ==
    [ q \in Page |-> IF q = p THEN w ELSE IF q = old THEN 0 ELSE map[q] ]

(* Lookup, found with a valid page. *)
Hit(p) ==
    LET s == SetOf[p]
        w == vAddrWayIDMap[s][p]
    IN  w # 0 /\ valid[s][w]

Visit(s, w) == visits' = [visits EXCEPT ![s] = Append(RemoveFirst(@, w), w)]

-----------------------------------------------------------------------------
(* The stages of Tick. *)

RespondMSHREntry ==
    LET entry == respondingMSHREntry
    IN  /\ entry # NoEntry
        /\ answered' = answered \cup {[req |-> Head(entry.reqs), page |-> entry.page]}
        /\ respondingMSHREntry' = IF Len(entry.reqs) = 1 THEN NoEntry
                                  ELSE [entry EXCEPT !.reqs = Tail(@)]
        /\ UNCHANGED <<pwcVars, inVars, setVars, mshr, inflightPageWalkCacheReqs, mmuVars,
                       controlVars, sent>>

(* The request is sent before the MSHR is looked at. *)
ParseFromPageWalkCache ==
    /\ dataReady # <<>>
    /\ Cardinality(mmus) < BottomCap
    /\ LET r == Head(dataReady).req
       IN  /\ r \in inflightPageWalkCacheReqs
           /\ mmus' = mmus \cup {r}
           /\ inflightPageWalkCacheReqs' = inflightPageWalkCacheReqs \ {r}
           /\ panicked' = (mshr[PageOf[r]] = <<>>)
    /\ dataReady' = Tail(dataReady)
    /\ UNCHANGED <<toTop, toMMUs, pwcPipeline, pwcLookup, bank, blocks, LRUQueue, inVars,
                   setVars, mshr, respondingMSHREntry, bottomPort, written, isPaused, control,
                   dropped, flushes, l2Vars>>

(* parseBottom, for a page that nobody waits for any more. *)
DropPage ==
    /\ respondingMSHREntry = NoEntry
    /\ bottomPort # <<>>
    /\ mshr[Head(bottomPort)] = <<>>
    /\ bottomPort' = Tail(bottomPort)
    /\ UNCHANGED <<pwcVars, inVars, setVars, missVars, mmus, written, controlVars, l2Vars>>

(* Faulty: overwrites an entry that still responds. *)
ParseBottomAnyTime ==
    /\ bottomPort # <<>>
    /\ mshr[Head(bottomPort)] # <<>>
    /\ LET p == Head(bottomPort)
           s == SetOf[p]
           w == Head(visits[s])
       IN  /\ pages' = [pages EXCEPT ![s][w] = p]
           /\ valid' = [valid EXCEPT ![s][w] = TRUE]
           /\ vAddrWayIDMap' = [vAddrWayIDMap EXCEPT ![s] = Updated(@, pages[s][w], p, w)]
           /\ Visit(s, w)
           /\ respondingMSHREntry' = [page |-> p, reqs |-> mshr[p]]
           /\ mshr' = [mshr EXCEPT ![p] = <<>>]
    /\ bottomPort' = Tail(bottomPort)
    /\ UNCHANGED <<pwcVars, inVars, inflightPageWalkCacheReqs, mmus, written, controlVars, l2Vars>>

(* parseBottom: Evict, Update and Visit, and the entry starts responding. *)
ParseBottom ==
    /\ respondingMSHREntry = NoEntry
    /\ bottomPort # <<>>
    /\ mshr[Head(bottomPort)] # <<>>
    /\ LET p == Head(bottomPort)
           s == SetOf[p]
           w == Head(visits[s])
       IN  /\ pages' = [pages EXCEPT ![s][w] = p]
           /\ valid' = [valid EXCEPT ![s][w] = TRUE]
           /\ vAddrWayIDMap' = [vAddrWayIDMap EXCEPT ![s] = Updated(@, pages[s][w], p, w)]
           /\ Visit(s, w)
           /\ respondingMSHREntry' = [page |-> p, reqs |-> mshr[p]]
           /\ mshr' = [mshr EXCEPT ![p] = <<>>]
    /\ bottomPort' = Tail(bottomPort)
    /\ UNCHANGED <<pwcVars, inVars, inflightPageWalkCacheReqs, mmus, written, controlVars, l2Vars>>

Looking == Head(lookupBuffer)

(* Faulty: forgets the request. *)
ProcessTLBMSHRHitForgotten ==
    /\ lookupBuffer # <<>>
    /\ mshr[PageOf[Looking]] # <<>>
    /\ lookupBuffer' = Tail(lookupBuffer)
    /\ UNCHANGED <<pwcVars, topPort, pipeline, setVars, missVars, mmuVars, controlVars, l2Vars>>

(* processTLBMSHRHit *)
ProcessTLBMSHRHit ==
    /\ lookupBuffer # <<>>
    /\ mshr[PageOf[Looking]] # <<>>
    /\ mshr' = [mshr EXCEPT ![PageOf[Looking]] = Append(@, Looking)]
    /\ lookupBuffer' = Tail(lookupBuffer)
    /\ UNCHANGED <<pwcVars, topPort, pipeline, setVars, respondingMSHREntry,
                   inflightPageWalkCacheReqs, mmuVars, controlVars, l2Vars>>

HandleTranslationHit ==
    /\ lookupBuffer # <<>>
    /\ LET p == PageOf[Looking]
           s == SetOf[p]
       IN  /\ mshr[p] = <<>>
           /\ Hit(p)
           /\ answered' = answered \cup {[req |-> Looking, page |-> pages[s][vAddrWayIDMap[s][p]]]}
           /\ Visit(s, vAddrWayIDMap[s][p])
    /\ lookupBuffer' = Tail(lookupBuffer)
    /\ UNCHANGED <<pwcVars, topPort, pipeline, pages, valid, vAddrWayIDMap, missVars, mmuVars,
                   controlVars, sent>>

(* Faulty: misses although the page is being fetched. *)
MissesAlways(p) == ~Hit(p)

Misses(p) == mshr[p] = <<>> /\ ~Hit(p)

(* handleTranslationMiss and fetchBottom *)
HandleTranslationMiss ==
    /\ lookupBuffer # <<>>
    /\ Misses(PageOf[Looking])
    /\ Cardinality(Entries) < MSHRCap
    /\ CanPush(toTop, PortCap)
    /\ toTop' = Append(toTop, Looking)
    /\ mshr' = [mshr EXCEPT ![PageOf[Looking]] = Append(@, Looking)]
    /\ inflightPageWalkCacheReqs' = inflightPageWalkCacheReqs \cup {Looking}
    /\ lookupBuffer' = Tail(lookupBuffer)
    /\ UNCHANGED <<toMMUs, pwcPipeline, pwcLookup, bank, blocks, LRUQueue, dataReady, topPort,
                   pipeline, setVars, respondingMSHREntry, mmuVars, controlVars, l2Vars>>

PipelineTick(r) ==
    /\ r \in pipeline
    /\ CanPush(lookupBuffer, LookupCap)
    /\ pipeline' = pipeline \ {r}
    /\ lookupBuffer' = Append(lookupBuffer, r)
    /\ UNCHANGED <<pwcVars, topPort, setVars, missVars, mmuVars, controlVars, l2Vars>>

ParseFromTop ==
    /\ topPort # <<>>
    /\ Cardinality(pipeline) < LookupCap
    /\ pipeline' = pipeline \cup {Head(topPort)}
    /\ topPort' = Tail(topPort)
    /\ UNCHANGED <<pwcVars, lookupBuffer, setVars, missVars, mmuVars, controlVars, l2Vars>>

-----------------------------------------------------------------------------
(* Control. *)

(* handleTLBFlush: a page is looked for where another function of its      *)
(* address says it is, and the MSHR forgets every request.                 *)
HandleTLBFlush(p) ==
    /\ control = "flush"
    /\ control' = "flushed"
    /\ LET s == FlushSetOf[p]
           w == vAddrWayIDMap[s][p]
       IN  valid' = IF w = 0 THEN valid ELSE [valid EXCEPT ![s][w] = FALSE]
    /\ dropped' = dropped \cup UNION { Range(mshr[q]) : q \in Page }
    /\ mshr' = [q \in Page |-> <<>>]
    /\ isPaused' = TRUE
    /\ UNCHANGED <<pwcVars, inVars, pages, vAddrWayIDMap, visits, respondingMSHREntry,
                   inflightPageWalkCacheReqs, mmuVars, panicked, flushes, l2Vars>>

(* handleTLBRestart empties TopPort and BottomPort. *)
HandleTLBRestart ==
    /\ control = "restart"
    /\ control' = "idle"
    /\ isPaused' = FALSE
    /\ dropped' = dropped \cup Range(topPort)
    /\ topPort' = <<>>
    /\ bottomPort' = <<>>
    /\ UNCHANGED <<pwcVars, pipeline, lookupBuffer, setVars, missVars, mmus, written, panicked,
                   flushes, l2Vars>>

(* The command processor asks for a flush of a page, and for the restart   *)
(* some time after it.                                                     *)
AskFlush ==
    /\ control = "idle"
    /\ flushes < MaxFlushes
    /\ control' = "flush"
    /\ flushes' = flushes + 1
    /\ UNCHANGED <<pwcVars, inVars, setVars, missVars, mmuVars, isPaused, panicked, dropped,
                   l2Vars>>

AskRestart ==
    /\ control = "flushed"
    /\ control' = "restart"
    /\ UNCHANGED <<pwcVars, inVars, setVars, missVars, mmuVars, isPaused, panicked, dropped,
                   flushes, l2Vars>>

-----------------------------------------------------------------------------
(* L2 TLBs and MMUs. *)

Waiting(p) == Range(mshr[p])

Responding == Range(respondingMSHREntry.reqs)

Inside ==
    Range(topPort) \cup pipeline \cup Range(lookupBuffer)
        \cup UNION { Waiting(p) : p \in Page } \cup Responding

Answered == { a.req : a \in answered }

(* An L2 TLB sends a request once. *)
L2Sends(r) ==
    /\ r \notin sent
    /\ CanPush(topPort, TopCap)
    /\ topPort' = Append(topPort, r)
    /\ sent' = sent \cup {r}
    /\ UNCHANGED <<pwcVars, pipeline, lookupBuffer, setVars, missVars, mmuVars, controlVars,
                   answered>>

(* fillPageWalkCache, from the root down: a write the port refuses is lost.*)
MMUWrites(r, l) ==
    /\ r \in mmus
    /\ \A t \in written : t.req = r => t.level < l
    /\ Cardinality(written) < MaxWrites
    /\ CanPush(toMMUs, PortCap)
    /\ toMMUs' = Append(toMMUs, Write(r, l))
    /\ written' = written \cup {Write(r, l)}
    /\ UNCHANGED <<toTop, pwcPipeline, pwcLookup, bank, blocks, LRUQueue, dataReady, inVars,
                   setVars, missVars, mmus, bottomPort, controlVars, l2Vars>>

MMUAnswers(r) ==
    /\ r \in mmus
    /\ CanPush(bottomPort, BottomCap)
    /\ mmus' = mmus \ {r}
    /\ bottomPort' = Append(bottomPort, PageOf[r])
    /\ UNCHANGED <<pwcVars, inVars, setVars, missVars, written, controlVars, l2Vars>>

-----------------------------------------------------------------------------

Stages ==
    \/ RespondMSHREntry
    \/ ParseFromPageWalkCache
    \/ DropPage
    \/ ParseBottom
    \/ ProcessTLBMSHRHit
    \/ HandleTranslationHit
    \/ HandleTranslationMiss
    \/ \E r \in Req : PipelineTick(r)
    \/ ParseFromTop

System ==
    /\ ~panicked
    /\ \/ ~isPaused /\ Stages
       \/ PWCStep /\ UNCHANGED tlbVars
       \/ \E p \in Page : HandleTLBFlush(p)
       \/ HandleTLBRestart
       \/ AskRestart
       \/ \E r \in Req : MMUAnswers(r)

(* The simulator has panicked, or the TLB holds no request. *)
Over ==
    /\ panicked \/ Inside = {}
    /\ UNCHANGED vars

Next ==
    \/ System
    \/ ~panicked /\ \E r \in Req : L2Sends(r) \/ \E l \in WriteLevel : MMUWrites(r, l)
    \/ ~panicked /\ AskFlush
    \/ Over

(* TLB, page walk cache and MMUs tick while they can go on, and a flush is *)
(* followed by a restart.                                                  *)
Spec == Init /\ [][Next]_vars /\ WF_vars(System)

-----------------------------------------------------------------------------
(* Properties. *)

Occurrences(q, r) == Cardinality({ i \in DOMAIN q : q[i] = r })

(* How often a request is on the way to its lookup, waits for its page, or *)
(* is over.                                                                *)
Places(r) ==
    (Occurrences(topPort, r) + Occurrences(lookupBuffer, r) + (IF r \in pipeline THEN 1 ELSE 0))
    + (Occurrences(mshr[PageOf[r]], r) + Occurrences(respondingMSHREntry.reqs, r))
    + ((IF r \in Answered THEN 1 ELSE 0) + (IF r \in dropped THEN 1 ELSE 0))

(* A request that the TLB has taken is in one place until it is answered   *)
(* or lost by a flush or a restart, and it is never answered twice: it is  *)
(* not in an entry that responds and again in the MSHR, and no page that   *)
(* comes back takes an entry away that still responds.                     *)
EachRequestOnce ==
    /\ \A r \in Req : Places(r) = IF r \in sent THEN 1 ELSE 0
    /\ \A p \in Page : \A r \in Waiting(p) : PageOf[r] = p

(* Requests for which a page is being fetched. *)
Fetching == Reading \cup mmus

(* Every entry of the MSHR has a fetch under way, also when a flush has    *)
(* forgotten entries whose fetches went on and an old fetch has answered a *)
(* new entry. The reads under way are those that the TLB knows ("not       *)
(* found!"), and only after a flush can one come back to a page that       *)
(* nobody waits for any more ("oh no!").                                   *)
MissesFetched ==
    /\ inflightPageWalkCacheReqs = Reading
    /\ \A p \in Entries :
        p \in Range(bottomPort) \/ \E r \in Fetching : PageOf[r] = p
    /\ flushes = 0 =>
        /\ ~panicked
        /\ \A r \in Fetching : mshr[PageOf[r]] # <<>>

(* No request is given another page: what the TLB finds under an address,  *)
(* in whichever order fills, evictions and flushes have come, is its page, *)
(* and what the page walk cache answers is a node on the way to it, though *)
(* the block it is read from is looked up before.                          *)
AnswersRight ==
    /\ \A a \in answered : a.page = PageOf[a.req]
    /\ \A s \in Set, p \in Page : vAddrWayIDMap[s][p] # 0 => pages[s][vAddrWayIDMap[s][p]] = p
    /\ \A d \in Range(dataReady) :
        d.data = Nothing \/ \E l \in Level : d.data = Tag(PageOf[d.req], l)

(* Every request that the TLB takes is answered, or lost by a flush or a   *)
(* restart, or the simulator panics.                                       *)
EventuallyAnswered ==
    \A r \in Req : r \in sent ~> r \in Answered \cup dropped \/ panicked
=============================================================================
