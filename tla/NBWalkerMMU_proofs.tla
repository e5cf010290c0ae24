--------------------------- MODULE NBWalkerMMU_proofs ---------------------------
(***************************************************************************)
(* Proofs about NBWalkerMMU, for any requests, any number of walkers and   *)
(* any capacities: no request is lost or served twice, the count of walks  *)
(* is right, reads and the walks that wait for them belong together and no *)
(* walker with something to do sleeps.                                     *)
(***************************************************************************)
EXTENDS NBWalkerMMU, CountingFacts

-----------------------------------------------------------------------------
(* The inductive invariant. *)

(* Where a request occurs, of the kinds of places it can be in. *)
OccSlot(f, r)  == { w \in Walker : Live(f[w]) /\ f[w].req = r }
OccTrans(q, r) == { i \in DOMAIN q : Live(q[i]) /\ q[i].req = r }
OccBlock(B, r) == { b \in B : b.req = r }
OccInfo(q, r)  == { i \in DOMAIN q : q[i].info.req = r }
OccReq(q, r)   == { i \in DOMAIN q : q[i].req = r }

(* How often it occurs in each of them. *)
InPrimary(r)   == Cardinality(OccSlot(primary, r))
InSecondary(r) == Cardinality(OccSlot(secondary, r))
InRspQueue(r)  == Cardinality(OccTrans(pageWalkRspQueue, r))
InL1(r)        == Cardinality(OccBlock(l1Blocks, r))
InToCache(r)   == Cardinality(OccInfo(toCache, r))
InToTop(r)     == Cardinality(OccReq(toTop, r))
InReqQueue(r)  == Cardinality(OccReq(pageWalkReqQueue, r))
InTopSender(r) == Cardinality(OccReq(topSender, r))
InTopEnd(r)    == Cardinality(OccReq(topEnd, r))

(* The reads with an ID, in the memory or answered, and the walks that     *)
(* wait for it.                                                            *)
OccMem(R, id)  == { read \in R : read.id = id }
OccRsp(q, id)  == { i \in DOMAIN q : q[i].respondTo = id }
OccWait(f, id) == { w \in Walker : f[w] # NoTrans /\ f[w].state = "sentToMem" /\ f[w].msgID = id }

(* Only finitely many things are under way. *)
Finite == IsFiniteSet(memReads) /\ IsFiniteSet(l1Blocks) /\ IsFiniteSet(Walking)

(* A walk has the ID of its last read: that of its level while it waits,   *)
(* else of an earlier one. Only a primary walk waits.                      *)
OwnID(trans) ==
    /\ trans.msgID.req = trans.req
    /\ IF trans.state = "sentToMem" THEN trans.msgID.level = trans.level
                                    ELSE trans.msgID.level < trans.level

EarlierID(block) == block.msgID.req = block.req /\ block.msgID.level < block.level

IDsMatch ==
    /\ \A w \in Walker : primary[w] # NoTrans => OwnID(primary[w])
    /\ \A w \in Walker : secondary[w] # NoTrans => EarlierID(secondary[w]) /\ secondary[w].state # "sentToMem"
    /\ \A i \in DOMAIN pageWalkRspQueue :
            EarlierID(pageWalkRspQueue[i]) /\ pageWalkRspQueue[i].state # "sentToMem"
    /\ \A b \in l1Blocks : EarlierID(b)
    /\ \A i \in DOMAIN toCache : EarlierID(toCache[i].info)

(* The request of a walk that is finished has been answered. *)
Gone(r) == InTopSender(r) + InTopEnd(r) + One(r \in answered) >= 1

FinishedGone ==
    /\ \A w \in Walker : primary[w].state = "transactionFinished" => Gone(primary[w].req)
    /\ \A w \in Walker : secondary[w].state = "transactionFinished" => Gone(secondary[w].req)
    /\ \A i \in DOMAIN pageWalkRspQueue :
            pageWalkRspQueue[i].state = "transactionFinished" => Gone(pageWalkRspQueue[i].req)

(* A read is under way for every walk that waits, and for no other.        *)
ReadOnce(id) ==
    Cardinality(OccMem(memReads, id)) + Cardinality(OccRsp(translationPort, id))
        = Cardinality(OccWait(primary, id))

ReadsCounted == \A id \in MsgID : ReadOnce(id)

IInv ==
    /\ TypeOK
    /\ Finite
    /\ IDsMatch
    /\ EachRequestOnce
    /\ FinishedGone
    /\ ReadsCounted
    /\ InflightCounted
    /\ WalkerAwake

-----------------------------------------------------------------------------
(* Counting. *)

LEMMA WalkerFinite == IsFiniteSet(Walker)
  BY FS_Interval, MMUAssumption DEF Walker

(* Whether a slot holds a live walk of a request, or one that waits for a  *)
(* read.                                                                   *)
Bears(x, r)   == One(Live(x) /\ x.req = r)
Awaits(x, id) == One(x # NoTrans /\ x.state = "sentToMem" /\ x.msgID = id)

(* A slot that changes. *)
Becomes(f, g, w, x) == \A v \in Walker : g[v] = IF v = w THEN x ELSE f[v]

(* An update of one walker's slot changes that slot only. *)
LEMMA ExceptBecomes ==
    ASSUME NEW f, f \in [Walker -> Trans \cup {NoTrans}], NEW w \in Walker, NEW x
    PROVE  Becomes(f, [f EXCEPT ![w] = x], w, x)
  BY DEF Becomes

(* The count of a request over the slots changes with the slot. *)
LEMMA SlotChanges ==
    ASSUME NEW f, NEW g, NEW w \in Walker, NEW x, Becomes(f, g, w, x), NEW r
    PROVE  /\ Cardinality(OccSlot(f, r)) \in Nat
           /\ Cardinality(OccSlot(g, r)) + Bears(f[w], r)
                = Cardinality(OccSlot(f, r)) + Bears(x, r)
  <1> DEFINE A == OccSlot(f, r)
             B == OccSlot(g, r)
  <1>1. g[w] = x /\ \A v \in Walker : v # w => g[v] = f[v]
    BY DEF Becomes
  <1>2. \A v : v # w => (v \in A <=> v \in B)
    BY <1>1 DEF OccSlot
  <1>3. (w \in A <=> Live(f[w]) /\ f[w].req = r) /\ (w \in B <=> Live(x) /\ x.req = r)
    BY <1>1 DEF OccSlot
  <1>4. IsFiniteSet(A)
    <2>1. A \in SUBSET Walker
      BY DEF OccSlot
    <2> HIDE DEF A
    <2> QED BY <2>1, WalkerFinite, FS_Subset
  <1>5. Cardinality(A) \in Nat /\ Cardinality(B) + One(w \in A) = Cardinality(A) + One(w \in B)
    <2> HIDE DEF A, B
    <2> QED BY <1>2, <1>4, CountDiffer
  <1> QED BY <1>3, <1>5 DEF Bears, One

(* The count of the walks that wait for a read changes with the slot. *)
LEMMA WaitChanges ==
    ASSUME NEW f, NEW g, NEW w \in Walker, NEW x, Becomes(f, g, w, x), NEW id
    PROVE  /\ Cardinality(OccWait(f, id)) \in Nat
           /\ Cardinality(OccWait(g, id)) + Awaits(f[w], id)
                = Cardinality(OccWait(f, id)) + Awaits(x, id)
  <1> DEFINE A == OccWait(f, id)
             B == OccWait(g, id)
  <1>1. g[w] = x /\ \A v \in Walker : v # w => g[v] = f[v]
    BY DEF Becomes
  <1>2. \A v : v # w => (v \in A <=> v \in B)
    BY <1>1 DEF OccWait
  <1>3. /\ w \in A <=> f[w] # NoTrans /\ f[w].state = "sentToMem" /\ f[w].msgID = id
        /\ w \in B <=> x # NoTrans /\ x.state = "sentToMem" /\ x.msgID = id
    BY <1>1 DEF OccWait
  <1>4. IsFiniteSet(A)
    <2>1. A \in SUBSET Walker
      BY DEF OccWait
    <2> HIDE DEF A
    <2> QED BY <2>1, WalkerFinite, FS_Subset
  <1>5. Cardinality(A) \in Nat /\ Cardinality(B) + One(w \in A) = Cardinality(A) + One(w \in B)
    <2> HIDE DEF A, B
    <2> QED BY <1>2, <1>4, CountDiffer
  <1> QED BY <1>3, <1>5 DEF Awaits, One

(* A message in a set that comes or goes. *)
Of(b, r) == One(b.req = r)

(* One more page table block under way counts one more. *)
LEMMA BlockAdded ==
    ASSUME NEW B, IsFiniteSet(B), NEW b, b \notin B, NEW r
    PROVE  /\ IsFiniteSet(B \cup {b}) /\ Cardinality(OccBlock(B, r)) \in Nat
           /\ Cardinality(OccBlock(B \cup {b}, r)) = Cardinality(OccBlock(B, r)) + Of(b, r)
  <1> DEFINE A == OccBlock(B, r)
             C == OccBlock(B \cup {b}, r)
  <1>1. (\A y : y # b => (y \in A <=> y \in C)) /\ b \notin A /\ (b \in C <=> b.req = r)
    BY DEF OccBlock
  <1>2. IsFiniteSet(A)
    <2>1. A \in SUBSET B
      BY DEF OccBlock
    <2> HIDE DEF A
    <2> QED BY <2>1, FS_Subset
  <1>3. Cardinality(A) \in Nat /\ Cardinality(C) \in Nat
        /\ Cardinality(C) + One(b \in A) = Cardinality(A) + One(b \in C)
    <2> HIDE DEF A, C
    <2> QED BY <1>1, <1>2, CountDiffer
  <1> QED BY <1>1, <1>3, FS_AddElement DEF Of, One

(* One block less counts one less. *)
LEMMA BlockRemoved ==
    ASSUME NEW B, IsFiniteSet(B), NEW b \in B, NEW r
    PROVE  /\ IsFiniteSet(B \ {b}) /\ Cardinality(OccBlock(B, r)) \in Nat
           /\ Cardinality(OccBlock(B, r)) = Cardinality(OccBlock(B \ {b}, r)) + One(b.req = r)
           /\ Cardinality(OccBlock(B \ {b}, r)) \in Nat
  <1> DEFINE A == OccBlock(B, r)
             C == OccBlock(B \ {b}, r)
  <1>1. (\A y : y # b => (y \in A <=> y \in C)) /\ b \notin C /\ (b \in A <=> b.req = r)
    BY DEF OccBlock
  <1>2. IsFiniteSet(A)
    <2>1. A \in SUBSET B
      BY DEF OccBlock
    <2> HIDE DEF A
    <2> QED BY <2>1, FS_Subset
  <1>3. Cardinality(A) \in Nat /\ Cardinality(C) \in Nat
        /\ Cardinality(C) + One(b \in A) = Cardinality(A) + One(b \in C)
    <2> HIDE DEF A, C
    <2> QED BY <1>1, <1>2, CountDiffer
  <1> QED BY <1>1, <1>3, FS_RemoveElement DEF One

Holds(read, id) == One(read.id = id)

(* One more memory read under way counts one more. *)
LEMMA ReadAdded ==
    ASSUME NEW B, IsFiniteSet(B), NEW b, b \notin B, NEW id
    PROVE  /\ IsFiniteSet(B \cup {b}) /\ Cardinality(OccMem(B, id)) \in Nat
           /\ Cardinality(OccMem(B \cup {b}, id)) = Cardinality(OccMem(B, id)) + Holds(b, id)
  <1> DEFINE A == OccMem(B, id)
             C == OccMem(B \cup {b}, id)
  <1>1. (\A y : y # b => (y \in A <=> y \in C)) /\ b \notin A /\ (b \in C <=> b.id = id)
    BY DEF OccMem
  <1>2. IsFiniteSet(A)
    <2>1. A \in SUBSET B
      BY DEF OccMem
    <2> HIDE DEF A
    <2> QED BY <2>1, FS_Subset
  <1>3. Cardinality(A) \in Nat /\ Cardinality(C) \in Nat
        /\ Cardinality(C) + One(b \in A) = Cardinality(A) + One(b \in C)
    <2> HIDE DEF A, C
    <2>1. \A y : y # b => (y \in A <=> y \in C)
      BY <1>1
    <2> QED BY <1>2, <2>1, CountDiffer
  <1> QED BY <1>1, <1>3, FS_AddElement DEF Holds, One

(* One memory read less counts one less. *)
LEMMA ReadRemoved ==
    ASSUME NEW B, IsFiniteSet(B), NEW b \in B, NEW id
    PROVE  /\ IsFiniteSet(B \ {b}) /\ Cardinality(OccMem(B, id)) \in Nat
           /\ Cardinality(OccMem(B, id)) = Cardinality(OccMem(B \ {b}, id)) + Holds(b, id)
           /\ Cardinality(OccMem(B \ {b}, id)) \in Nat
  <1> DEFINE A == OccMem(B, id)
             C == OccMem(B \ {b}, id)
  <1>1. (\A y : y # b => (y \in A <=> y \in C)) /\ b \notin C /\ (b \in A <=> b.id = id)
    BY DEF OccMem
  <1>2. IsFiniteSet(A)
    <2>1. A \in SUBSET B
      BY DEF OccMem
    <2> HIDE DEF A
    <2> QED BY <2>1, FS_Subset
  <1>3. Cardinality(A) \in Nat /\ Cardinality(C) \in Nat
        /\ Cardinality(C) + One(b \in A) = Cardinality(A) + One(b \in C)
    <2> HIDE DEF A, C
    <2> QED BY <1>1, <1>2, CountDiffer
  <1> QED BY <1>1, <1>3, FS_RemoveElement DEF Holds, One

(* A walk in a queue. *)
LEMMA TransAppend ==
    ASSUME NEW S, NEW q \in Seq(S), NEW x \in S, NEW r
    PROVE  /\ Cardinality(OccTrans(q, r)) \in Nat
           /\ Cardinality(OccTrans(Append(q, x), r)) = Cardinality(OccTrans(q, r)) + One(Live(x) /\ x.req = r)
  <1> DEFINE t == Append(q, x)
             A == OccTrans(q, r)
             B == OccTrans(t, r)
  <1>1. /\ DOMAIN t = DOMAIN q \cup {Len(q) + 1} /\ t[Len(q) + 1] = x
        /\ \A i \in DOMAIN q : t[i] = q[i]
    BY AppendAt
  <1>2. A \subseteq DOMAIN q /\ B \subseteq DOMAIN t /\ \A i \in DOMAIN q : i \in A <=> i \in B
    <2> HIDE DEF t
    <2> QED BY <1>1 DEF OccTrans
  <1>3. Len(q) + 1 \in B <=> Live(x) /\ x.req = r
    <2> HIDE DEF t
    <2> QED BY <1>1 DEF OccTrans
  <1>4. Cardinality(A) \in Nat /\ Cardinality(B) = Cardinality(A) + One(Len(q) + 1 \in B)
    <2> HIDE DEF A, B
    <2> QED BY <1>2, CountAppend
  <1> QED BY <1>3, <1>4 DEF One

(* The response queue without its head counts one walk less. *)
LEMMA TransTail ==
    ASSUME NEW S, NEW q \in Seq(S), q # <<>>, NEW r
    PROVE  /\ Cardinality(OccTrans(q, r)) \in Nat /\ Cardinality(OccTrans(Tail(q), r)) \in Nat
           /\ Cardinality(OccTrans(q, r)) = Cardinality(OccTrans(Tail(q), r)) + One(Live(Head(q)) /\ Head(q).req = r)
  <1> DEFINE t == Tail(q)
             A == OccTrans(q, r)
             B == OccTrans(t, r)
  <1>1. /\ 1 \in DOMAIN q /\ q[1] = Head(q)
        /\ \A i \in DOMAIN t : i + 1 \in DOMAIN q /\ t[i] = q[i + 1]
    BY TailAt
  <1>2. A \subseteq DOMAIN q /\ B \subseteq DOMAIN t /\ \A i \in DOMAIN t : i \in B <=> i + 1 \in A
    <2> HIDE DEF t
    <2> QED BY <1>1 DEF OccTrans
  <1>3. 1 \in A <=> Live(Head(q)) /\ Head(q).req = r
    <2> HIDE DEF t
    <2> QED BY <1>1 DEF OccTrans
  <1>4. /\ Cardinality(A) \in Nat /\ Cardinality(B) \in Nat
        /\ Cardinality(A) = Cardinality(B) + One(1 \in A)
    <2> HIDE DEF A, B
    <2> QED BY <1>2, CountTail
  <1> QED BY <1>3, <1>4 DEF One

(* A walk that an L1 vector cache returns. *)
LEMMA InfoAppend ==
    ASSUME NEW S, NEW q \in Seq(S), NEW x \in S, NEW r
    PROVE  /\ Cardinality(OccInfo(q, r)) \in Nat
           /\ Cardinality(OccInfo(Append(q, x), r)) = Cardinality(OccInfo(q, r)) + One(x.info.req = r)
  <1> DEFINE t == Append(q, x)
             A == OccInfo(q, r)
             B == OccInfo(t, r)
  <1>1. /\ DOMAIN t = DOMAIN q \cup {Len(q) + 1} /\ t[Len(q) + 1] = x
        /\ \A i \in DOMAIN q : t[i] = q[i]
    BY AppendAt
  <1>2. A \subseteq DOMAIN q /\ B \subseteq DOMAIN t /\ \A i \in DOMAIN q : i \in A <=> i \in B
    <2> HIDE DEF t
    <2> QED BY <1>1 DEF OccInfo
  <1>3. Len(q) + 1 \in B <=> x.info.req = r
    <2> HIDE DEF t
    <2> QED BY <1>1 DEF OccInfo
  <1>4. Cardinality(A) \in Nat /\ Cardinality(B) = Cardinality(A) + One(Len(q) + 1 \in B)
    <2> HIDE DEF A, B
    <2> QED BY <1>2, CountAppend
  <1> QED BY <1>3, <1>4 DEF One

(* The queue from the L1 cache without its head counts one block less. *)
LEMMA InfoTail ==
    ASSUME NEW S, NEW q \in Seq(S), q # <<>>, NEW r
    PROVE  /\ Cardinality(OccInfo(q, r)) \in Nat /\ Cardinality(OccInfo(Tail(q), r)) \in Nat
           /\ Cardinality(OccInfo(q, r)) = Cardinality(OccInfo(Tail(q), r)) + One(Head(q).info.req = r)
  <1> DEFINE t == Tail(q)
             A == OccInfo(q, r)
             B == OccInfo(t, r)
  <1>1. /\ 1 \in DOMAIN q /\ q[1] = Head(q)
        /\ \A i \in DOMAIN t : i + 1 \in DOMAIN q /\ t[i] = q[i + 1]
    BY TailAt
  <1>2. A \subseteq DOMAIN q /\ B \subseteq DOMAIN t /\ \A i \in DOMAIN t : i \in B <=> i + 1 \in A
    <2> HIDE DEF t
    <2> QED BY <1>1 DEF OccInfo
  <1>3. 1 \in A <=> Head(q).info.req = r
    <2> HIDE DEF t
    <2> QED BY <1>1 DEF OccInfo
  <1>4. /\ Cardinality(A) \in Nat /\ Cardinality(B) \in Nat
        /\ Cardinality(A) = Cardinality(B) + One(1 \in A)
    <2> HIDE DEF A, B
    <2> QED BY <1>2, CountTail
  <1> QED BY <1>3, <1>4 DEF One

(* A request or an answer in a queue. *)
LEMMA ReqAppend ==
    ASSUME NEW S, NEW q \in Seq(S), NEW x \in S, NEW r
    PROVE  /\ Cardinality(OccReq(q, r)) \in Nat
           /\ Cardinality(OccReq(Append(q, x), r)) = Cardinality(OccReq(q, r)) + One(x.req = r)
  <1> DEFINE t == Append(q, x)
             A == OccReq(q, r)
             B == OccReq(t, r)
  <1>1. /\ DOMAIN t = DOMAIN q \cup {Len(q) + 1} /\ t[Len(q) + 1] = x
        /\ \A i \in DOMAIN q : t[i] = q[i]
    BY AppendAt
  <1>2. A \subseteq DOMAIN q /\ B \subseteq DOMAIN t /\ \A i \in DOMAIN q : i \in A <=> i \in B
    <2> HIDE DEF t
    <2> QED BY <1>1 DEF OccReq
  <1>3. Len(q) + 1 \in B <=> x.req = r
    <2> HIDE DEF t
    <2> QED BY <1>1 DEF OccReq
  <1>4. Cardinality(A) \in Nat /\ Cardinality(B) = Cardinality(A) + One(Len(q) + 1 \in B)
    <2> HIDE DEF A, B
    <2> QED BY <1>2, CountAppend
  <1> QED BY <1>3, <1>4 DEF One

(* The request queue without its head counts one request less. *)
LEMMA ReqTail ==
    ASSUME NEW S, NEW q \in Seq(S), q # <<>>, NEW r
    PROVE  /\ Cardinality(OccReq(q, r)) \in Nat /\ Cardinality(OccReq(Tail(q), r)) \in Nat
           /\ Cardinality(OccReq(q, r)) = Cardinality(OccReq(Tail(q), r)) + One(Head(q).req = r)
  <1> DEFINE t == Tail(q)
             A == OccReq(q, r)
             B == OccReq(t, r)
  <1>1. /\ 1 \in DOMAIN q /\ q[1] = Head(q)
        /\ \A i \in DOMAIN t : i + 1 \in DOMAIN q /\ t[i] = q[i + 1]
    BY TailAt
  <1>2. A \subseteq DOMAIN q /\ B \subseteq DOMAIN t /\ \A i \in DOMAIN t : i \in B <=> i + 1 \in A
    <2> HIDE DEF t
    <2> QED BY <1>1 DEF OccReq
  <1>3. 1 \in A <=> Head(q).req = r
    <2> HIDE DEF t
    <2> QED BY <1>1 DEF OccReq
  <1>4. /\ Cardinality(A) \in Nat /\ Cardinality(B) \in Nat
        /\ Cardinality(A) = Cardinality(B) + One(1 \in A)
    <2> HIDE DEF A, B
    <2> QED BY <1>2, CountTail
  <1> QED BY <1>3, <1>4 DEF One

(* A response of the memory in a queue. *)
LEMMA RspAppend ==
    ASSUME NEW S, NEW q \in Seq(S), NEW x \in S, NEW id
    PROVE  /\ Cardinality(OccRsp(q, id)) \in Nat
           /\ Cardinality(OccRsp(Append(q, x), id)) = Cardinality(OccRsp(q, id)) + One(x.respondTo = id)
  <1> DEFINE t == Append(q, x)
             A == OccRsp(q, id)
             B == OccRsp(t, id)
  <1>1. /\ DOMAIN t = DOMAIN q \cup {Len(q) + 1} /\ t[Len(q) + 1] = x
        /\ \A i \in DOMAIN q : t[i] = q[i]
    BY AppendAt
  <1>2. A \subseteq DOMAIN q /\ B \subseteq DOMAIN t /\ \A i \in DOMAIN q : i \in A <=> i \in B
    <2> HIDE DEF t
    <2> QED BY <1>1 DEF OccRsp
  <1>3. Len(q) + 1 \in B <=> x.respondTo = id
    <2> HIDE DEF t
    <2> QED BY <1>1 DEF OccRsp
  <1>4. Cardinality(A) \in Nat /\ Cardinality(B) = Cardinality(A) + One(Len(q) + 1 \in B)
    <2> HIDE DEF A, B
    <2> QED BY <1>2, CountAppend
  <1> QED BY <1>3, <1>4 DEF One

(* The memory port without its head counts one response less. *)
LEMMA RspTail ==
    ASSUME NEW S, NEW q \in Seq(S), q # <<>>, NEW id
    PROVE  /\ Cardinality(OccRsp(q, id)) \in Nat /\ Cardinality(OccRsp(Tail(q), id)) \in Nat
           /\ Cardinality(OccRsp(q, id)) = Cardinality(OccRsp(Tail(q), id)) + One(Head(q).respondTo = id)
  <1> DEFINE t == Tail(q)
             A == OccRsp(q, id)
             B == OccRsp(t, id)
  <1>1. /\ 1 \in DOMAIN q /\ q[1] = Head(q)
        /\ \A i \in DOMAIN t : i + 1 \in DOMAIN q /\ t[i] = q[i + 1]
    BY TailAt
  <1>2. A \subseteq DOMAIN q /\ B \subseteq DOMAIN t /\ \A i \in DOMAIN t : i \in B <=> i + 1 \in A
    <2> HIDE DEF t
    <2> QED BY <1>1 DEF OccRsp
  <1>3. 1 \in A <=> Head(q).respondTo = id
    <2> HIDE DEF t
    <2> QED BY <1>1 DEF OccRsp
  <1>4. /\ Cardinality(A) \in Nat /\ Cardinality(B) \in Nat
        /\ Cardinality(A) = Cardinality(B) + One(1 \in A)
    <2> HIDE DEF A, B
    <2> QED BY <1>2, CountTail
  <1> QED BY <1>3, <1>4 DEF One

-----------------------------------------------------------------------------
(* Addresses and walks. *)

LEMMA AddressTypes ==
    ASSUME NEW r \in Req, NEW level \in Nat
    PROVE  /\ MoveFromVAddrToLevel(r, level) \in Seq(Nat)
           /\ level <= numLevels => Prefix(r, level) \in Seq(Nat)
  <1>1. PathOf[r] \in Seq(Nat) /\ Len(PathOf[r]) = 4
    BY MMUAssumption DEF numLevels
  <1>2. \A i \in 1..4 : PathOf[r][i] \in Nat
    BY <1>1, ElementOfSeq
  <1>3. \A i \in (level + 1)..4 : PathOf[r][i] \in Nat
    BY <1>2
  <1>4. MoveFromVAddrToLevel(r, level) \in Seq(Nat)
    BY <1>3, SubSeqProperties DEF MoveFromVAddrToLevel, numLevels
  <1>5. level <= 4 => \A i \in 1..level : PathOf[r][i] \in Nat
    BY <1>2
  <1>6. level <= 4 => Prefix(r, level) \in Seq(Nat)
    BY <1>5, SubSeqProperties DEF Prefix
  <1> QED BY <1>4, <1>6 DEF numLevels

(* An address with its offset added, or without its first level, is an     *)
(* address.                                                                *)
LEMMA OffsetTypes ==
    ASSUME NEW ppn \in Seq(Int), NEW vAddr \in Seq(Nat)
    PROVE  /\ AddOffset(ppn, vAddr) \in Seq(Int)
           /\ NextLevel(vAddr) \in Seq(Nat)
  <1> DEFINE n == IF vAddr = <<>> THEN 0 ELSE Head(vAddr)
  <1>1. vAddr # <<>> => Head(vAddr) \in Nat /\ Tail(vAddr) \in Seq(Nat)
    BY TailAt
  <1>2. n \in Int
    BY <1>1
  <1> HIDE DEF n
  <1>3. Append(ppn, n) \in Seq(Int)
    BY <1>2, AppendProperties
  <1> QED BY <1>1, <1>3 DEF n, AddOffset, NextLevel

(* The page table holds addresses. *)
LEMMA ContentsType ==
    ASSUME NEW address \in Seq(Int)
    PROVE  Contents(address) \in Seq(Int)
  BY DEF Contents, Junk

(* A walk is never the empty slot. *)
LEMMA WalkIsNot ==
    ASSUME NEW t \in Trans
    PROVE  t # NoTrans /\ (Live(t) <=> t.state # "transactionFinished")
  BY DEF Trans, NoTrans, LiveState, Live

(* An empty slot is no walk. *)
LEMMA NoTransNotLive == ~Live(NoTrans)
  BY DEF Live

(* A new walk is below the entry the page walk cache had. *)
LEMMA NewWalkType ==
    ASSUME NEW t \in TopReq
    PROVE  /\ NewWalk(t) \in Trans /\ NewWalk(t).req = t.req /\ t.req \in Req
           /\ Live(NewWalk(t)) /\ EarlierID(NewWalk(t))
           /\ NewWalk(t).state = "pageWalkCacheDone"
  <1>1. /\ t.req \in Req /\ t.hit.level \in -1..2 /\ t.hit.ppn \in Seq(Int)
    BY DEF TopReq
  <1>2. t.hit.level + 1 \in Nat /\ -1 < t.hit.level + 1
    BY <1>1
  <1>3. MoveFromVAddrToLevel(t.req, t.hit.level + 1) \in Seq(Nat)
    BY <1>1, <1>2, AddressTypes
  <1> DEFINE ppn == IF t.hit.level = -1 THEN <<>> ELSE t.hit.ppn
             level == t.hit.level + 1
             vAddr == MoveFromVAddrToLevel(t.req, t.hit.level + 1)
             id == [req |-> t.req, level |-> -1]
  <1>4. ppn \in Seq(Int)
    BY <1>1, EmptySeq
  <1>5. id \in MsgID /\ id.req = t.req /\ id.level = -1
    BY <1>1 DEF MsgID
  <1>6. NewWalk(t) = [req |-> t.req, ppn |-> ppn, level |-> level, vAddr |-> vAddr,
                      state |-> "pageWalkCacheDone", msgID |-> id]
    BY DEF NewWalk
  <1> HIDE DEF ppn, vAddr, id
  <1>7. NewWalk(t) \in Trans
    BY <1>1, <1>2, <1>3, <1>4, <1>5, <1>6 DEF Trans, LiveState, vAddr
  <1>8. EarlierID(NewWalk(t))
    BY <1>2, <1>5, <1>6 DEF EarlierID
  <1> QED BY <1>1, <1>6, <1>7, <1>8, WalkIsNot

(* Positioning a walk changes its address only. *)
LEMMA PositionedType ==
    ASSUME NEW t \in Trans
    PROVE  /\ Positioned(t) \in Trans
           /\ Positioned(t).req = t.req /\ Positioned(t).level = t.level
           /\ Positioned(t).state = t.state /\ Positioned(t).msgID = t.msgID
  <1>1. MoveFromVAddrToLevel(t.req, t.level) \in Seq(Nat)
    BY AddressTypes DEF Trans
  <1> DEFINE v == MoveFromVAddrToLevel(t.req, t.level)
  <1> HIDE DEF v
  <1>2. [t EXCEPT !.vAddr = v] \in Trans
    BY <1>1 DEF Trans, v
  <1>3. Positioned(t) = IF t.state = "l1Done" THEN [t EXCEPT !.vAddr = v] ELSE t
    BY DEF Positioned, v
  <1> QED BY <1>2, <1>3 DEF Trans

(* A walk that waits for its next entry. *)
LEMMA SentType ==
    ASSUME NEW t \in Trans, NextLevel(t.vAddr) \in Seq(Nat), NEW id \in MsgID
    PROVE  LET sent == [t EXCEPT !.vAddr = NextLevel(@), !.msgID = id, !.state = "sentToMem"]
           IN  /\ sent \in Trans /\ sent.state = "sentToMem" /\ sent.msgID = id
               /\ sent.req = t.req /\ sent.level = t.level
  <1> DEFINE v == NextLevel(t.vAddr)
             u == [t EXCEPT !.vAddr = v]
             x == [u EXCEPT !.msgID = id]
             y == [x EXCEPT !.state = "sentToMem"]
  <1>1. v \in Seq(Nat)
    OBVIOUS
  <1>2. [t EXCEPT !.vAddr = NextLevel(@), !.msgID = id, !.state = "sentToMem"] = y
    BY DEF Trans
  <1> HIDE DEF v
  <1>3. u \in Trans /\ u.req = t.req /\ u.level = t.level
    BY <1>1 DEF Trans
  <1> HIDE DEF u
  <1>4. x \in Trans /\ x.req = t.req /\ x.level = t.level /\ x.msgID = id
    BY <1>3 DEF Trans
  <1> HIDE DEF x
  <1>5. y \in Trans /\ y.req = t.req /\ y.level = t.level /\ y.msgID = id /\ y.state = "sentToMem"
    BY <1>4 DEF Trans, LiveState
  <1> QED BY <1>2, <1>5

(* A walk whose entry was read is at the next level; it is live unless it  *)
(* was finalized.                                                          *)
LEMMA AdvancedType ==
    ASSUME NEW t \in Trans, t.state # "transactionFinished"
    PROVE  /\ Advanced(t) \in Trans
           /\ Advanced(t).req = t.req /\ Advanced(t).msgID = t.msgID
           /\ Advanced(t).level = t.level + 1
           /\ Live(Advanced(t)) <=> ~Finalizes(t)
           /\ Advanced(t).state = IF Finalizes(t) THEN "transactionFinished" ELSE t.state
  <1> DEFINE st == IF Finalizes(t) THEN "transactionFinished" ELSE t.state
  <1>1. Advanced(t) = [t EXCEPT !.level = t.level + 1, !.state = st]
    BY DEF Advanced, Trans
  <1>2. st \in LiveState \cup {"transactionFinished"}
    BY DEF Trans
  <1>3. st = "transactionFinished" <=> Finalizes(t)
    OBVIOUS
  <1> HIDE DEF st
  <1> DEFINE n == t.level + 1
             u == [t EXCEPT !.level = n]
  <1>4. n \in Nat
    BY DEF Trans
  <1> HIDE DEF n
  <1>5. /\ u \in Trans /\ u.req = t.req /\ u.msgID = t.msgID /\ u.level = n
    BY <1>4 DEF Trans
  <1>6. Advanced(t) = [u EXCEPT !.state = st]
    BY <1>1 DEF Trans, n
  <1> HIDE DEF u
  <1>7. Advanced(t) \in Trans /\ Advanced(t).req = t.req /\ Advanced(t).msgID = t.msgID
        /\ Advanced(t).level = n /\ Advanced(t).state = st
    BY <1>2, <1>5, <1>6 DEF Trans
  <1> QED BY <1>3, <1>7, WalkIsNot DEF st, n

(* What finalizing and filling the page walk cache write. *)
LEMMA FilledType ==
    ASSUME NEW t \in Trans
    PROVE  FilledEntries(t) \subseteq PWCEntry
  <1>1. t.req \in Req /\ t.level \in Nat /\ t.ppn \in Seq(Int)
    BY DEF Trans
  <1>2. t.level % 4 # 3 => t.level % 4 \in 0..2 /\ (t.level % 4) + 1 \in Nat /\ (t.level % 4) + 1 <= 4
    BY <1>1
  <1>3. t.level % 4 # 3 => Prefix(t.req, (t.level % 4) + 1) \in Seq(Nat)
    BY <1>1, <1>2, AddressTypes DEF numLevels
  <1> DEFINE ppn == IF t.level < 4 THEN t.ppn ELSE Junk
             tag == Prefix(t.req, (t.level % 4) + 1)
             level == t.level % 4
  <1>4. ppn \in Seq(Int)
    BY <1>1 DEF Junk
  <1>5. FilledEntries(t) = {} \/ (level # 3 /\ FilledEntries(t) = {[tag |-> tag, level |-> level, ppn |-> ppn]})
    BY DEF FilledEntries
  <1> HIDE DEF ppn, tag, level
  <1>6. level # 3 => level \in 0..2 /\ tag \in Seq(Nat)
    BY <1>2, <1>3 DEF level, tag
  <1> QED BY <1>4, <1>5, <1>6 DEF PWCEntry

-----------------------------------------------------------------------------
(* What the handlers of the MMU do, in the cases they distinguish. *)

(* The walk a response of the memory is for, and one an L1 vector cache    *)
(* returns, with the entry that was read.                                  *)
MemTrans(w) == [primary[w] EXCEPT !.ppn = Head(translationPort).data, !.state = "memDone"]

L1Trans == [req |-> Head(toCache).info.req, ppn |-> Head(toCache).data,
            level |-> Head(toCache).info.level, vAddr |-> <<>>, state |-> "l1Done",
            msgID |-> Head(toCache).info.msgID]

(* A walker is chosen among those that can accept. *)
LEMMA Chosen ==
    ASSUME NEW S, S \subseteq Walker, S # {}
    PROVE  Min(S) \in S
  <1>1. S \subseteq Nat
    BY MMUAssumption DEF Walker
  <1> QED BY <1>1, MinIn

(* Accept fills a free slot. *)
Fills(w, t) ==
    /\ \/ primary[w] = NoTrans /\ primary' = [primary EXCEPT ![w] = t] /\ secondary' = secondary
       \/ secondary[w] = NoTrans /\ secondary' = [secondary EXCEPT ![w] = t] /\ primary' = primary
    /\ awake' = [awake EXCEPT ![w] = TRUE]

(* Accepting a walk fills one slot of the walker. *)
LEMMA AcceptFills ==
    ASSUME NEW w \in Walker, CanAccept(w), NEW t, Accept(w, t)
    PROVE  Fills(w, t)
  BY DEF CanAccept, Accept, Fills

(* The request queue stays, or its head becomes a new walk of a walker. *)
LEMMA ReqQueueCases ==
    ASSUME TypeOK, ProcessPageWalkReqQueue
    PROVE  \/ UNCHANGED <<walkers, pageWalkReqQueue, numInflightPTWRequests>>
           \/ /\ pageWalkReqQueue # <<>> /\ pageWalkReqQueue' = Tail(pageWalkReqQueue)
              /\ numInflightPTWRequests' = numInflightPTWRequests + 1
              /\ \E w \in Walker : Fills(w, NewWalk(Head(pageWalkReqQueue)))
  <1> DEFINE free == { w \in Walker : CanAcceptPrimary(w) }
             any  == { w \in Walker : CanAccept(w) }
             w == Min(IF free # {} THEN free ELSE any)
  <1>1. CASE pageWalkReqQueue = <<>> \/ any = {}
    BY <1>1 DEF ProcessPageWalkReqQueue
  <1>2. CASE ~(pageWalkReqQueue = <<>> \/ any = {})
    <2>1. w \in IF free # {} THEN free ELSE any
      <3>1. free \subseteq Walker /\ any \subseteq Walker /\ any # {}
        BY <1>2
      <3> HIDE DEF free, any
      <3> QED BY <3>1, Chosen
    <2>2. w \in Walker /\ CanAccept(w)
      BY <2>1 DEF CanAccept, CanAcceptPrimary
    <2>3. /\ Accept(w, NewWalk(Head(pageWalkReqQueue)))
          /\ pageWalkReqQueue' = Tail(pageWalkReqQueue)
          /\ numInflightPTWRequests' = numInflightPTWRequests + 1
      BY <1>2 DEF ProcessPageWalkReqQueue
    <2> HIDE DEF w
    <2>4. Fills(w, NewWalk(Head(pageWalkReqQueue)))
      BY <2>2, <2>3, AcceptFills
    <2> QED BY <1>2, <2>2, <2>3, <2>4
  <1> QED BY <1>1, <1>2

(* The response queue stays, or its head goes back to a walker. *)
LEMMA RspQueueCases ==
    ASSUME TypeOK, ProcessPageWalkRspQueue
    PROVE  \/ UNCHANGED <<walkers, pageWalkRspQueue>>
           \/ /\ pageWalkRspQueue # <<>> /\ pageWalkRspQueue' = Tail(pageWalkRspQueue)
              /\ \E w \in Walker : Fills(w, Head(pageWalkRspQueue))
  <1> DEFINE any == { w \in Walker : CanAccept(w) }
             w == Min(any)
  <1>1. CASE pageWalkRspQueue = <<>> \/ any = {}
    BY <1>1 DEF ProcessPageWalkRspQueue
  <1>2. CASE ~(pageWalkRspQueue = <<>> \/ any = {})
    <2>1. w \in any
      <3>1. any \subseteq Walker /\ any # {}
        BY <1>2
      <3> HIDE DEF any
      <3> QED BY <3>1, Chosen
    <2>2. w \in Walker /\ CanAccept(w)
      BY <2>1
    <2>3. Accept(w, Head(pageWalkRspQueue)) /\ pageWalkRspQueue' = Tail(pageWalkRspQueue)
      BY <1>2 DEF ProcessPageWalkRspQueue
    <2> HIDE DEF w
    <2>4. Fills(w, Head(pageWalkRspQueue))
      BY <2>2, <2>3, AcceptFills
    <2> QED BY <1>2, <2>2, <2>3, <2>4
  <1> QED BY <1>1, <1>2

(* The response from memory waits, or it is read into the walk that waits  *)
(* for it.                                                                 *)
LEMMA MemCases ==
    ASSUME TypeOK, ParseFromMem
    PROVE  \/ UNCHANGED <<walkers, translationPort, topSender, numInflightPTWRequests, pageWalkCache>>
           \/ /\ translationPort # <<>> /\ translationPort' = Tail(translationPort)
              /\ secondary' = secondary
              /\ \E w \in Walker :
                    /\ primary[w] # NoTrans /\ primary[w].msgID = Head(translationPort).respondTo
                    /\ EntryRead(MemTrans(w))
                    /\ primary' = [primary EXCEPT ![w] = Advanced(MemTrans(w))]
                    /\ awake' = [awake EXCEPT ![w] = TRUE]
  <1> DEFINE match == { w \in Walker : primary[w] # NoTrans
                            /\ primary[w].msgID = Head(translationPort).respondTo }
             w == Min(match)
  <1>1. CASE translationPort = <<>>
    BY <1>1 DEF ParseFromMem
  <1>2. CASE translationPort # <<>>
    <2>1. /\ match # {} /\ EntryRead(MemTrans(w)) /\ translationPort' = Tail(translationPort)
          /\ primary' = [primary EXCEPT ![w] = Advanced(MemTrans(w))]
          /\ awake' = [awake EXCEPT ![w] = TRUE] /\ secondary' = secondary
      BY <1>2 DEF ParseFromMem, MemTrans
    <2>2. w \in match
      <3>1. match \subseteq Walker
        OBVIOUS
      <3> HIDE DEF match
      <3> QED BY <2>1, <3>1, Chosen
    <2>3. w \in Walker /\ primary[w] # NoTrans /\ primary[w].msgID = Head(translationPort).respondTo
      BY <2>2
    <2> HIDE DEF w
    <2> QED BY <1>2, <2>1, <2>3
  <1> QED BY <1>1, <1>2

(* The block from the L1 cache waits, or its walk goes to the response     *)
(* queue.                                                                  *)
LEMMA L1Cases ==
    ASSUME TypeOK, ParseFromL1
    PROVE  \/ UNCHANGED <<toCache, pageWalkRspQueue, topSender, numInflightPTWRequests, pageWalkCache>>
           \/ /\ toCache # <<>> /\ toCache' = Tail(toCache)
              /\ EntryRead(L1Trans)
              /\ pageWalkRspQueue' = Append(pageWalkRspQueue, Advanced(L1Trans))
  BY DEF ParseFromL1, L1Trans

(* The walks that the responses are for. *)
LEMMA MemTransType ==
    ASSUME TypeOK, translationPort # <<>>, NEW w \in Walker, primary[w] # NoTrans
    PROVE  /\ primary[w] \in Trans /\ MemTrans(w) \in Trans
           /\ MemTrans(w).req = primary[w].req /\ MemTrans(w).level = primary[w].level
           /\ MemTrans(w).msgID = primary[w].msgID /\ MemTrans(w).state = "memDone"
  <1>1. primary[w] \in Trans
    BY DEF TypeOK
  <1>2. Head(translationPort) \in [respondTo : MsgID, data : Seq(Int)]
    BY TailAt DEF TypeOK
  <1> DEFINE t == primary[w]
             d == Head(translationPort).data
             u == [t EXCEPT !.ppn = d]
  <1>3. d \in Seq(Int)
    BY <1>2
  <1> HIDE DEF t, d
  <1>4. u \in Trans /\ u.req = t.req /\ u.level = t.level /\ u.msgID = t.msgID
    BY <1>1, <1>3 DEF Trans, t
  <1>5. MemTrans(w) = [u EXCEPT !.state = "memDone"]
    BY DEF MemTrans, t, d
  <1> HIDE DEF u
  <1>6. /\ MemTrans(w) \in Trans /\ MemTrans(w).req = u.req /\ MemTrans(w).level = u.level
        /\ MemTrans(w).msgID = u.msgID /\ MemTrans(w).state = "memDone"
    BY <1>4, <1>5 DEF Trans, LiveState
  <1> QED BY <1>1, <1>4, <1>6 DEF t

(* A block from the L1 cache carries the walk it was fetched for. *)
LEMMA L1TransType ==
    ASSUME TypeOK, toCache # <<>>
    PROVE  /\ L1Trans \in Trans
           /\ L1Trans.req = Head(toCache).info.req /\ L1Trans.level = Head(toCache).info.level
           /\ L1Trans.msgID = Head(toCache).info.msgID /\ L1Trans.state = "l1Done"
  <1>1. Head(toCache) \in [info : Block, data : Seq(Int)]
    BY TailAt DEF TypeOK
  <1>2. <<>> \in Seq(Nat)
    BY EmptySeq
  <1> QED BY <1>1, <1>2 DEF L1Trans, Trans, LiveState, Block

-----------------------------------------------------------------------------
(* Types. *)

(* The types of what the queues hold, and of slots and sets. *)
Counted == numInflightPTWRequests \in Nat

(* A filled slot holds a walk. *)
LEMMA SlotTypes ==
    ASSUME TypeOK, NEW w \in Walker, NEW t \in Trans, Fills(w, t)
    PROVE  /\ primary' \in [Walker -> Trans \cup {NoTrans}]
           /\ secondary' \in [Walker -> Trans \cup {NoTrans}]
           /\ awake' \in [Walker -> BOOLEAN]
  BY DEF TypeOK, Fills

(* Reading an entry leaves well-typed answers and cache entries. *)
LEMMA EntryTypes ==
    ASSUME TypeOK, NEW t \in Trans, EntryRead(t)
    PROVE  /\ topSender' \in Seq([req : Req, ppn : Seq(Int)])
           /\ pageWalkCache' \subseteq PWCEntry
  <1>1. pageWalkCache' \subseteq PWCEntry
    BY FilledType DEF EntryRead, TypeOK
  <1> DEFINE x == [req |-> t.req, ppn |-> t.ppn]
  <1>2. x \in [req : Req, ppn : Seq(Int)]
    BY DEF Trans
  <1>3. topSender' = Append(topSender, x) \/ topSender' = topSender
    BY DEF EntryRead, Finalize
  <1> HIDE DEF x
  <1>4. topSender \in Seq([req : Req, ppn : Seq(Int)])
    BY DEF TypeOK
  <1>5. Append(topSender, x) \in Seq([req : Req, ppn : Seq(Int)])
    BY <1>2, <1>4, AppendAt
  <1> QED BY <1>1, <1>3, <1>4, <1>5

(* The TLB sends a request, with what the page walk cache answers. *)
LEMMA SentRequest ==
    ASSUME TypeOK, NEW s \in Req, TLBSends(s)
    PROVE  \E x \in TopReq : x.req = s /\ toTop' = Append(toTop, x)
  <1>1. PICK h \in Hits(s) : toTop' = Append(toTop, [req |-> s, hit |-> h])
    BY DEF TLBSends
  <1>2. h \in [level : -1..2, ppn : Seq(Int)]
    <2>1. CASE h = NoHit
      <3>1. <<>> \in Seq(Int)
        BY EmptySeq
      <3> QED BY <2>1, <3>1 DEF NoHit
    <2>2. CASE \E e \in pageWalkCache : h = [level |-> e.level, ppn |-> e.ppn]
      BY <2>2 DEF TypeOK, PWCEntry
    <2> QED BY <2>1, <2>2 DEF Hits
  <1>3. [req |-> s, hit |-> h] \in TopReq
    BY <1>2 DEF TopReq
  <1> QED BY <1>1, <1>3

(* Every step keeps TypeOK. *)
LEMMA TypeStep == TypeOK /\ Counted' /\ [Next]_vars => TypeOK'
  <1> SUFFICES ASSUME TypeOK, Counted', [Next]_vars PROVE TypeOK'
    OBVIOUS
  <1>1. ASSUME NEW r \in Req, TLBSends(r) PROVE TypeOK'
    <2>1. PICK x \in TopReq : x.req = r /\ toTop' = Append(toTop, x)
      BY <1>1, SentRequest
    <2>2. toTop' \in Seq(TopReq)
      BY <2>1, AppendAt DEF TypeOK
    <2> QED BY <1>1, <2>2 DEF TLBSends, TypeOK, queues, walkers, memVars, l1Vars
  <1>2. ASSUME TLBReceives PROVE TypeOK'
    <2> DEFINE S == [req : Req, ppn : Seq(Int)]
    <2>1. topEnd \in Seq(S) /\ topEnd # <<>>
      BY <1>2 DEF TLBReceives, TypeOK
    <2>2. Tail(topEnd) \in Seq(S) /\ Head(topEnd) \in S
      <3> HIDE DEF S
      <3> QED BY <2>1, TailAt
    <2>3. Tail(topEnd) \in Seq([req : Req, ppn : Seq(Int)]) /\ Head(topEnd).req \in Req
      BY <2>2
    <2> HIDE DEF S
    <2> QED BY <1>2, <2>3 DEF TLBReceives, TypeOK, queues, walkers, memVars, l1Vars
  <1>3. ASSUME NEW read \in memReads, MemAnswers(read) PROVE TypeOK'
    <2> DEFINE x == [respondTo |-> read.id, data |-> Contents(read.address)]
               S == [respondTo : MsgID, data : Seq(Int)]
    <2>1. x \in S
      BY ContentsType DEF TypeOK
    <2>2. translationPort \in Seq(S) /\ translationPort' = Append(translationPort, x)
      BY <1>3 DEF MemAnswers, TypeOK
    <2> HIDE DEF x, S
    <2>3. translationPort' \in Seq(S)
      BY <2>1, <2>2, AppendAt
    <2>4. translationPort' \in Seq([respondTo : MsgID, data : Seq(Int)])
      BY <2>3 DEF S
    <2> QED BY <1>3, <2>4 DEF MemAnswers, TypeOK, tlbVars, queues, walkers, l1Vars
  <1>4. ASSUME NEW block \in l1Blocks, L1Answers(block) PROVE TypeOK'
    <2> DEFINE x == [info |-> block, data |-> Contents(block.address)]
               S == [info : Block, data : Seq(Int)]
    <2>1. x \in S
      BY ContentsType DEF TypeOK, Block
    <2>2. toCache \in Seq(S) /\ toCache' = Append(toCache, x)
      BY <1>4 DEF L1Answers, TypeOK
    <2> HIDE DEF x, S
    <2>3. toCache' \in Seq(S)
      BY <2>1, <2>2, AppendAt
    <2>4. toCache' \in Seq([info : Block, data : Seq(Int)])
      BY <2>3 DEF S
    <2> QED BY <1>4, <2>4 DEF L1Answers, TypeOK, tlbVars, queues, walkers, memVars
  <1>5. ASSUME TopSenderTick PROVE TypeOK'
    <2> DEFINE S == [req : Req, ppn : Seq(Int)]
    <2>1. topSender \in Seq(S) /\ topEnd \in Seq(S)
      BY DEF TypeOK
    <2> HIDE DEF S
    <2>2. topSender' \in Seq(S) /\ topEnd' \in Seq(S)
      <3>1. topSender # <<>> => /\ Head(topSender) \in S /\ Tail(topSender) \in Seq(S)
                                /\ Append(topEnd, Head(topSender)) \in Seq(S)
        BY <2>1, TailAt, AppendAt
      <3> QED BY <1>5, <2>1, <3>1 DEF TopSenderTick
    <2>3. topSender' \in Seq([req : Req, ppn : Seq(Int)]) /\ topEnd' \in Seq([req : Req, ppn : Seq(Int)])
      BY <2>2 DEF S
    <2> QED BY <1>5, <2>3 DEF TopSenderTick, TypeOK, queues, walkers, memVars, l1Vars, Stage
  <1>6. ASSUME ProcessPageWalkReqQueue PROVE TypeOK'
    <2>1. CASE UNCHANGED <<walkers, pageWalkReqQueue, numInflightPTWRequests>>
      BY <1>6, <2>1 DEF ProcessPageWalkReqQueue, TypeOK, tlbVars, walkers, memVars, l1Vars, Stage
    <2>2. ASSUME NEW w \in Walker, Fills(w, NewWalk(Head(pageWalkReqQueue))),
                 pageWalkReqQueue # <<>>, pageWalkReqQueue' = Tail(pageWalkReqQueue)
          PROVE  TypeOK'
      <3>1. Tail(pageWalkReqQueue) \in Seq(TopReq) /\ Head(pageWalkReqQueue) \in TopReq
        BY <2>2, TailAt DEF TypeOK
      <3>2. NewWalk(Head(pageWalkReqQueue)) \in Trans
        BY <3>1, NewWalkType
      <3>3. /\ primary' \in [Walker -> Trans \cup {NoTrans}]
            /\ secondary' \in [Walker -> Trans \cup {NoTrans}] /\ awake' \in [Walker -> BOOLEAN]
        BY <2>2, <3>2, SlotTypes
      <3> QED BY <1>6, <2>2, <3>1, <3>3
              DEF ProcessPageWalkReqQueue, TypeOK, Counted, tlbVars, memVars, l1Vars, Stage
    <2> QED BY <1>6, <2>1, <2>2, ReqQueueCases
  <1>7. ASSUME ProcessPageWalkRspQueue PROVE TypeOK'
    <2>1. CASE UNCHANGED <<walkers, pageWalkRspQueue>>
      BY <1>7, <2>1 DEF ProcessPageWalkRspQueue, TypeOK, tlbVars, walkers, memVars, l1Vars, Stage
    <2>2. ASSUME NEW w \in Walker, Fills(w, Head(pageWalkRspQueue)),
                 pageWalkRspQueue # <<>>, pageWalkRspQueue' = Tail(pageWalkRspQueue)
          PROVE  TypeOK'
      <3>1. Tail(pageWalkRspQueue) \in Seq(Trans) /\ Head(pageWalkRspQueue) \in Trans
        BY <2>2, TailAt DEF TypeOK
      <3>2. /\ primary' \in [Walker -> Trans \cup {NoTrans}]
            /\ secondary' \in [Walker -> Trans \cup {NoTrans}] /\ awake' \in [Walker -> BOOLEAN]
        BY <2>2, <3>1, SlotTypes
      <3> QED BY <1>7, <2>2, <3>1, <3>2
              DEF ProcessPageWalkRspQueue, TypeOK, tlbVars, memVars, l1Vars, Stage
    <2> QED BY <1>7, <2>1, <2>2, RspQueueCases
  <1>8. ASSUME ParseFromMem PROVE TypeOK'
    <2>1. CASE UNCHANGED <<walkers, translationPort, topSender, numInflightPTWRequests, pageWalkCache>>
      BY <1>8, <2>1 DEF ParseFromMem, TypeOK, tlbVars, queues, walkers, l1Vars, Stage
    <2>2. ASSUME translationPort # <<>>, translationPort' = Tail(translationPort), secondary' = secondary,
                 NEW w \in Walker, primary[w] # NoTrans, EntryRead(MemTrans(w)),
                 primary' = [primary EXCEPT ![w] = Advanced(MemTrans(w))],
                 awake' = [awake EXCEPT ![w] = TRUE]
          PROVE  TypeOK'
      <3>1. MemTrans(w) \in Trans /\ MemTrans(w).state = "memDone"
        BY <2>2, MemTransType
      <3>2. Advanced(MemTrans(w)) \in Trans
        BY <3>1, AdvancedType
      <3>3. topSender' \in Seq([req : Req, ppn : Seq(Int)]) /\ pageWalkCache' \subseteq PWCEntry
        BY <2>2, <3>1, EntryTypes
      <3>4. Tail(translationPort) \in Seq([respondTo : MsgID, data : Seq(Int)])
        BY <2>2, TailAt DEF TypeOK
      <3>5. primary' \in [Walker -> Trans \cup {NoTrans}] /\ awake' \in [Walker -> BOOLEAN]
        BY <2>2, <3>2 DEF TypeOK
      <3> QED BY <1>8, <2>2, <3>3, <3>4, <3>5
              DEF ParseFromMem, TypeOK, Counted, tlbVars, queues, l1Vars, Stage
    <2> QED BY <1>8, <2>1, <2>2, MemCases
  <1>9. ASSUME ParseFromL1 PROVE TypeOK'
    <2>1. CASE UNCHANGED <<toCache, pageWalkRspQueue, topSender, numInflightPTWRequests, pageWalkCache>>
      BY <1>9, <2>1 DEF ParseFromL1, TypeOK, tlbVars, walkers, memVars, Stage
    <2>2. ASSUME toCache # <<>>, toCache' = Tail(toCache), EntryRead(L1Trans),
                 pageWalkRspQueue' = Append(pageWalkRspQueue, Advanced(L1Trans))
          PROVE  TypeOK'
      <3>1. L1Trans \in Trans /\ L1Trans.state = "l1Done"
        BY <2>2, L1TransType
      <3>2. Advanced(L1Trans) \in Trans
        BY <3>1, AdvancedType
      <3>3. topSender' \in Seq([req : Req, ppn : Seq(Int)]) /\ pageWalkCache' \subseteq PWCEntry
        BY <2>2, <3>1, EntryTypes
      <3>4. Tail(toCache) \in Seq([info : Block, data : Seq(Int)])
        BY <2>2, TailAt DEF TypeOK
      <3>5. pageWalkRspQueue' \in Seq(Trans)
        BY <2>2, <3>2, AppendAt DEF TypeOK
      <3> QED BY <1>9, <2>2, <3>3, <3>4, <3>5
              DEF ParseFromL1, TypeOK, Counted, tlbVars, walkers, memVars, Stage
    <2> QED BY <1>9, <2>1, <2>2, L1Cases
  <1>10. ASSUME ParseFromTop PROVE TypeOK'
    <2>1. toTop # <<>> => /\ Tail(toTop) \in Seq(TopReq) /\ Head(toTop) \in TopReq
                          /\ Append(pageWalkReqQueue, Head(toTop)) \in Seq(TopReq)
      BY TailAt, AppendAt DEF TypeOK
    <2>2. toTop' \in Seq(TopReq) /\ pageWalkReqQueue' \in Seq(TopReq)
      BY <1>10, <2>1 DEF ParseFromTop, TypeOK
    <2> QED BY <1>10, <2>2 DEF ParseFromTop, TypeOK, tlbVars, walkers, memVars, l1Vars, Stage
  <1>11. ASSUME NEW w \in Walker, WalkPrimary(w) PROVE TypeOK'
    <2> DEFINE t == Positioned(primary[w])
               id == [req |-> t.req, level |-> t.level]
               address == AddOffset(t.ppn, t.vAddr)
               sent == [t EXCEPT !.vAddr = NextLevel(@), !.msgID = id, !.state = "sentToMem"]
    <2>1. primary[w] \in Trans
      BY <1>11 DEF WalkPrimary, PrimaryRuns, TypeOK
    <2>2. t \in Trans
      BY <2>1, PositionedType
    <2>3. id \in MsgID /\ address \in Seq(Int) /\ NextLevel(t.vAddr) \in Seq(Nat)
      BY <2>2, OffsetTypes DEF Trans, MsgID
    <2>4. sent \in Trans
      BY <2>2, <2>3, SentType
    <2>5. \/ primary' = [primary EXCEPT ![w] = NoTrans] /\ memReads' = memReads
          \/ primary' = [primary EXCEPT ![w] = sent] /\ memReads' = memReads \cup {[id |-> id, address |-> address]}
          \/ primary' = [primary EXCEPT ![w] = t] /\ memReads' = memReads
      BY <1>11 DEF WalkPrimary, SendToMem
    <2> DEFINE read == [id |-> id, address |-> address]
    <2> HIDE DEF t, id, address, sent
    <2>6. read \in [id : MsgID, address : Seq(Int)]
      BY <2>3
    <2> HIDE DEF read
    <2>7. primary' \in [Walker -> Trans \cup {NoTrans}]
      BY <2>2, <2>4, <2>5 DEF TypeOK
    <2>8. memReads' \subseteq [id : MsgID, address : Seq(Int)]
      <3>1. memReads' = memReads \/ memReads' = memReads \cup {read}
        BY <2>5 DEF read
      <3> QED BY <2>6, <3>1 DEF TypeOK
    <2> QED BY <1>11, <2>7, <2>8 DEF WalkPrimary, TypeOK, tlbVars, queues, l1Vars
  <1>12. ASSUME NEW w \in Walker, WalkSecondary(w) PROVE TypeOK'
    <2> DEFINE t == Positioned(secondary[w])
               b == [req |-> t.req, address |-> AddOffset(t.ppn, t.vAddr),
                      level |-> t.level, msgID |-> t.msgID]
    <2>1. secondary[w] \in Trans
      BY <1>12 DEF WalkSecondary, TypeOK
    <2>2. t \in Trans
      BY <2>1, PositionedType
    <2>3. b \in Block
      BY <2>2, OffsetTypes DEF Trans, Block
    <2>4. \/ secondary' = [secondary EXCEPT ![w] = NoTrans] /\ l1Blocks' \in {l1Blocks, l1Blocks \cup {b}}
          \/ secondary' = [secondary EXCEPT ![w] = t] /\ l1Blocks' = l1Blocks
      BY <1>12 DEF WalkSecondary, SendWriteReqToL1V
    <2> HIDE DEF t, b
    <2>5. secondary' \in [Walker -> Trans \cup {NoTrans}] /\ l1Blocks' \subseteq Block
      BY <2>2, <2>3, <2>4 DEF TypeOK
    <2> QED BY <1>12, <2>5 DEF WalkSecondary, TypeOK, tlbVars, queues, memVars
  <1>13. ASSUME NEW w \in Walker, WalkerSleeps(w) PROVE TypeOK'
    BY <1>13 DEF WalkerSleeps, TypeOK, tlbVars, queues, memVars, l1Vars
  <1>14. CASE UNCHANGED vars
    BY <1>14 DEF TypeOK, vars, tlbVars, queues, walkers, memVars, l1Vars
  <1> QED
    BY <1>1, <1>2, <1>3, <1>4, <1>5, <1>6, <1>7, <1>8, <1>9, <1>10, <1>11, <1>12, <1>13, <1>14
    DEF Next, Tick, OtherEvent, WalkerTick

-----------------------------------------------------------------------------
(* Where requests are. *)

(* What is counted is finite. *)
LEMMA OccFinite ==
    ASSUME TypeOK, IsFiniteSet(l1Blocks), IsFiniteSet(memReads), NEW r
    PROVE  /\ IsFiniteSet(OccSlot(primary, r)) /\ IsFiniteSet(OccSlot(secondary, r))
           /\ IsFiniteSet(OccTrans(pageWalkRspQueue, r)) /\ IsFiniteSet(OccBlock(l1Blocks, r))
           /\ IsFiniteSet(OccInfo(toCache, r)) /\ IsFiniteSet(OccReq(toTop, r))
           /\ IsFiniteSet(OccReq(pageWalkReqQueue, r)) /\ IsFiniteSet(OccReq(topSender, r))
           /\ IsFiniteSet(OccReq(topEnd, r)) /\ IsFiniteSet(OccMem(memReads, r))
           /\ IsFiniteSet(OccRsp(translationPort, r)) /\ IsFiniteSet(OccWait(primary, r))
  <1>1. \A f : OccSlot(f, r) \in SUBSET Walker /\ OccWait(f, r) \in SUBSET Walker
    BY DEF OccSlot, OccWait
  <1>2. OccBlock(l1Blocks, r) \in SUBSET l1Blocks /\ OccMem(memReads, r) \in SUBSET memReads
    BY DEF OccBlock, OccMem
  <1>3. /\ \A q : OccTrans(q, r) \subseteq DOMAIN q
        /\ \A q : OccInfo(q, r) \subseteq DOMAIN q
        /\ \A q : OccReq(q, r) \subseteq DOMAIN q
        /\ \A q : OccRsp(q, r) \subseteq DOMAIN q
    BY DEF OccTrans, OccInfo, OccReq, OccRsp
  <1>4. /\ pageWalkRspQueue \in Seq(Trans) /\ toCache \in Seq([info : Block, data : Seq(Int)])
        /\ toTop \in Seq(TopReq) /\ pageWalkReqQueue \in Seq(TopReq)
        /\ topSender \in Seq([req : Req, ppn : Seq(Int)]) /\ topEnd \in Seq([req : Req, ppn : Seq(Int)])
        /\ translationPort \in Seq([respondTo : MsgID, data : Seq(Int)])
    BY DEF TypeOK
  <1>5. /\ IsFiniteSet(OccTrans(pageWalkRspQueue, r)) /\ IsFiniteSet(OccInfo(toCache, r))
        /\ IsFiniteSet(OccReq(toTop, r)) /\ IsFiniteSet(OccReq(pageWalkReqQueue, r))
        /\ IsFiniteSet(OccReq(topSender, r)) /\ IsFiniteSet(OccReq(topEnd, r))
        /\ IsFiniteSet(OccRsp(translationPort, r))
    BY <1>3, <1>4, PlacesFinite
  <1>6. /\ IsFiniteSet(OccSlot(primary, r)) /\ IsFiniteSet(OccSlot(secondary, r))
        /\ IsFiniteSet(OccWait(primary, r))
    BY <1>1, WalkerFinite, FS_Subset
  <1>7. IsFiniteSet(OccBlock(l1Blocks, r)) /\ IsFiniteSet(OccMem(memReads, r))
    BY <1>2, FS_Subset
  <1> QED BY <1>5, <1>6, <1>7

(* A request before it was sent, queued, being walked and answered. *)
Unsent(r) == One(r \in unsent)
Wait(r)   == InToTop(r) + InReqQueue(r)
Walk(r)   == InPrimary(r) + InSecondary(r) + InRspQueue(r) + InL1(r) + InToCache(r)
Ended(r)  == InTopSender(r) + InTopEnd(r) + One(r \in answered)

(* What is counted are numbers. *)
LEMMA CountTypes ==
    ASSUME TypeOK, IsFiniteSet(l1Blocks), IsFiniteSet(memReads), NEW r
    PROVE  /\ InPrimary(r) \in Nat /\ InSecondary(r) \in Nat /\ InRspQueue(r) \in Nat
           /\ InL1(r) \in Nat /\ InToCache(r) \in Nat
           /\ InToTop(r) \in Nat /\ InReqQueue(r) \in Nat
           /\ InTopSender(r) \in Nat /\ InTopEnd(r) \in Nat
           /\ Unsent(r) \in Nat /\ Wait(r) \in Nat /\ Walk(r) \in Nat /\ Ended(r) \in Nat
           /\ Cardinality(OccMem(memReads, r)) \in Nat
           /\ Cardinality(OccRsp(translationPort, r)) \in Nat
           /\ Cardinality(OccWait(primary, r)) \in Nat
  <1>1. /\ InPrimary(r) \in Nat /\ InSecondary(r) \in Nat /\ InRspQueue(r) \in Nat
        /\ InL1(r) \in Nat /\ InToCache(r) \in Nat /\ InToTop(r) \in Nat /\ InReqQueue(r) \in Nat
        /\ InTopSender(r) \in Nat /\ InTopEnd(r) \in Nat
        /\ Cardinality(OccMem(memReads, r)) \in Nat
        /\ Cardinality(OccRsp(translationPort, r)) \in Nat
        /\ Cardinality(OccWait(primary, r)) \in Nat
    BY OccFinite, CountZero
    DEF InPrimary, InSecondary, InRspQueue, InL1, InToCache, InToTop, InReqQueue, InTopSender, InTopEnd
  <1> QED BY <1>1 DEF Unsent, Wait, Walk, Ended, One

(* The places of a request are these. *)
LEMMA PlacesAre ==
    ASSUME TypeOK, IsFiniteSet(l1Blocks), IsFiniteSet(memReads), NEW r
    PROVE  Places(r) = Unsent(r) + Wait(r) + Walk(r) + Ended(r)
  <1>1. Places(r) = InPrimary(r) + InSecondary(r) + InRspQueue(r) + InL1(r) + InToCache(r)
                    + InToTop(r) + InReqQueue(r) + InTopSender(r) + InTopEnd(r)
                    + One(r \in unsent) + One(r \in answered)
    BY DEF Places, InPrimary, InSecondary, InRspQueue, InL1, InToCache, InToTop, InReqQueue,
           InTopSender, InTopEnd, OccSlot, OccTrans, OccBlock, OccInfo, OccReq, One
  <1>2. One(r \in unsent) \in Nat /\ One(r \in answered) \in Nat
    BY DEF One
  <1> QED BY <1>1, <1>2, CountTypes DEF Unsent, Wait, Walk, Ended

(* The walks under way are those of the requests that occur in one. *)
LEMMA WalkingIs ==
    ASSUME TypeOK, IsFiniteSet(l1Blocks), IsFiniteSet(memReads)
    PROVE  \A r : r \in Walking <=> Walk(r) >= 1
  <1> SUFFICES ASSUME NEW r PROVE r \in Walking <=> Walk(r) >= 1
    OBVIOUS
  <1>1. r \in Walking <=> \/ OccSlot(primary, r) # {} \/ OccSlot(secondary, r) # {}
                          \/ OccTrans(pageWalkRspQueue, r) # {}
                          \/ OccBlock(l1Blocks, r) # {} \/ OccInfo(toCache, r) # {}
    <2>1. (\E x \in { trans.req : trans \in { t \in Slots : Live(t) } } : x = r)
            <=> \/ OccSlot(primary, r) # {} \/ OccSlot(secondary, r) # {}
                \/ OccTrans(pageWalkRspQueue, r) # {}
      BY DEF Slots, OccSlot, OccTrans
    <2>2. (r \in { b.req : b \in l1Blocks }) <=> OccBlock(l1Blocks, r) # {}
      BY DEF OccBlock
    <2>3. (r \in { toCache[i].info.req : i \in DOMAIN toCache }) <=> OccInfo(toCache, r) # {}
      BY DEF OccInfo
    <2> QED BY <2>1, <2>2, <2>3 DEF Walking
  <1>2. /\ InPrimary(r) # 0 <=> OccSlot(primary, r) # {}
        /\ InSecondary(r) # 0 <=> OccSlot(secondary, r) # {}
        /\ InRspQueue(r) # 0 <=> OccTrans(pageWalkRspQueue, r) # {}
        /\ InL1(r) # 0 <=> OccBlock(l1Blocks, r) # {}
        /\ InToCache(r) # 0 <=> OccInfo(toCache, r) # {}
    BY OccFinite, CountZero DEF InPrimary, InSecondary, InRspQueue, InL1, InToCache
  <1>3. Walk(r) >= 1 <=> \/ InPrimary(r) # 0 \/ InSecondary(r) # 0 \/ InRspQueue(r) # 0
                         \/ InL1(r) # 0 \/ InToCache(r) # 0
    <2>1. /\ InPrimary(r) \in Nat /\ InSecondary(r) \in Nat /\ InRspQueue(r) \in Nat
          /\ InL1(r) \in Nat /\ InToCache(r) \in Nat
      BY CountTypes
    <2> QED BY ONLY <2>1 DEF Walk
  <1> QED BY <1>1, <1>2, <1>3

-----------------------------------------------------------------------------
(* How requests move. *)

(* What a step does to the counts: a request is sent, its walk begins, its *)
(* walk ends, or nothing is handed over between these parts of the system. *)
Asked(s) ==
    /\ \A r : /\ Unsent(r) = Unsent(r)' + One(r = s) /\ Wait(r)' = Wait(r) + One(r = s)
              /\ Walk(r)' = Walk(r) /\ Ended(r)' = Ended(r)
    /\ numInflightPTWRequests' = numInflightPTWRequests

Begun(s) ==
    /\ \A r : /\ Unsent(r)' = Unsent(r) /\ Wait(r) = Wait(r)' + One(r = s)
              /\ Walk(r)' = Walk(r) + One(r = s) /\ Ended(r)' = Ended(r)
    /\ numInflightPTWRequests' = numInflightPTWRequests + 1

Completed(s) ==
    /\ \A r : /\ Unsent(r)' = Unsent(r) /\ Wait(r)' = Wait(r)
              /\ Walk(r) = Walk(r)' + One(r = s) /\ Ended(r)' = Ended(r) + One(r = s)
    /\ Walk(s) >= 1
    /\ numInflightPTWRequests' = numInflightPTWRequests - 1

Kept ==
    /\ \A r : /\ Unsent(r)' = Unsent(r) /\ Wait(r)' = Wait(r)
              /\ Walk(r)' = Walk(r) /\ Ended(r)' = Ended(r)
    /\ numInflightPTWRequests' = numInflightPTWRequests

Base == TypeOK /\ Finite /\ EachRequestOnce

Answer == [req : Req, ppn : Seq(Int)]
MemRsp == [respondTo : MsgID, data : Seq(Int)]
L1Rsp  == [info : Block, data : Seq(Int)]

(* The queues hold what they are declared to hold. *)
LEMMA QueueTypes ==
    ASSUME TypeOK
    PROVE  /\ toTop \in Seq(TopReq) /\ pageWalkReqQueue \in Seq(TopReq)
           /\ pageWalkRspQueue \in Seq(Trans) /\ toCache \in Seq(L1Rsp)
           /\ topSender \in Seq(Answer) /\ topEnd \in Seq(Answer)
           /\ translationPort \in Seq(MemRsp)
  BY DEF TypeOK, Answer, MemRsp, L1Rsp

(* What does not change does not count differently. *)
LEMMA SameCounts ==
    ASSUME NEW r
    PROVE  /\ unsent' = unsent => Unsent(r)' = Unsent(r)
           /\ toTop' = toTop => InToTop(r)' = InToTop(r)
           /\ pageWalkReqQueue' = pageWalkReqQueue => InReqQueue(r)' = InReqQueue(r)
           /\ primary' = primary => InPrimary(r)' = InPrimary(r)
           /\ secondary' = secondary => InSecondary(r)' = InSecondary(r)
           /\ pageWalkRspQueue' = pageWalkRspQueue => InRspQueue(r)' = InRspQueue(r)
           /\ l1Blocks' = l1Blocks => InL1(r)' = InL1(r)
           /\ toCache' = toCache => InToCache(r)' = InToCache(r)
           /\ topSender' = topSender => InTopSender(r)' = InTopSender(r)
           /\ topEnd' = topEnd => InTopEnd(r)' = InTopEnd(r)
  BY DEF Unsent, InToTop, InReqQueue, InPrimary, InSecondary, InRspQueue, InL1, InToCache,
         InTopSender, InTopEnd, OccSlot, OccTrans, OccBlock, OccInfo, OccReq

(* A request waits as before if the queues in front of the walkers stay. *)
LEMMA WaitSame ==
    ASSUME NEW r, toTop' = toTop, pageWalkReqQueue' = pageWalkReqQueue
    PROVE  Wait(r)' = Wait(r)
  BY SameCounts DEF Wait

(* A request is walked as before if the slots and the blocks stay. *)
LEMMA WalkSame ==
    ASSUME NEW r, primary' = primary, secondary' = secondary, pageWalkRspQueue' = pageWalkRspQueue,
           l1Blocks' = l1Blocks, toCache' = toCache
    PROVE  Walk(r)' = Walk(r)
  BY SameCounts DEF Walk

(* A request is answered as before if the answers stay. *)
LEMMA EndedSame ==
    ASSUME NEW r, topSender' = topSender, topEnd' = topEnd, answered' = answered
    PROVE  Ended(r)' = Ended(r)
  BY SameCounts DEF Ended

(* The TLB sends a request: it is asked for, once. *)
LEMMA MoveTLBSends ==
    ASSUME Base, NEW s \in Req, TLBSends(s)
    PROVE  Asked(s)
  <1>1. PICK x \in TopReq : x.req = s /\ toTop' = Append(toTop, x)
    BY SentRequest DEF Base
  <1>2. /\ UNCHANGED <<topEnd, answered, queues, walkers, numInflightPTWRequests, topSender, l1Vars>>
        /\ s \in unsent /\ unsent' = unsent \ {s}
    BY DEF TLBSends
  <1> SUFFICES ASSUME NEW r
               PROVE  /\ Unsent(r) = Unsent(r)' + One(r = s) /\ Wait(r)' = Wait(r) + One(r = s)
                      /\ Walk(r)' = Walk(r) /\ Ended(r)' = Ended(r)
    BY <1>2 DEF Asked
  <1>3. InToTop(r) \in Nat /\ InToTop(r)' = InToTop(r) + One(r = s)
    <2>1. /\ Cardinality(OccReq(toTop, r)) \in Nat
          /\ Cardinality(OccReq(Append(toTop, x), r)) = Cardinality(OccReq(toTop, r)) + One(x.req = r)
      BY ReqAppend, QueueTypes DEF Base
    <2> QED BY <1>1, <2>1 DEF InToTop, One
  <1>4. Unsent(r) = Unsent(r)' + One(r = s)
    BY <1>2 DEF Unsent, One
  <1>5. InReqQueue(r) \in Nat /\ InReqQueue(r)' = InReqQueue(r)
    BY <1>2, CountTypes, SameCounts DEF queues, Base, Finite
  <1>6. Wait(r)' = Wait(r) + One(r = s)
    BY <1>3, <1>5 DEF Wait, One
  <1>7. Walk(r)' = Walk(r) /\ Ended(r)' = Ended(r)
    BY <1>2, WalkSame, EndedSame DEF queues, walkers, l1Vars
  <1> QED BY <1>4, <1>6, <1>7

(* An answer goes from the port to the TLB. *)
LEMMA MoveTLBReceives ==
    ASSUME Base, TLBReceives
    PROVE  Kept
  <1> DEFINE h == Head(topEnd).req
  <1>1. /\ UNCHANGED <<unsent, toTop, queues, walkers, numInflightPTWRequests, topSender, l1Vars>>
        /\ topEnd # <<>> /\ answered' = answered \cup {h} /\ topEnd' = Tail(topEnd)
    BY DEF TLBReceives
  <1>2. topEnd \in Seq(Answer) /\ topEnd # <<>>
    BY <1>1, QueueTypes DEF Base
  <1>3. h \in Req
    <2>1. Head(topEnd) \in Answer
      BY <1>2, TailAt
    <2> QED BY <2>1 DEF Answer
  <1>4. \A r : /\ InTopEnd(r)' \in Nat
               /\ InTopEnd(r) = InTopEnd(r)' + One(h = r)
    BY <1>1, <1>2, ReqTail DEF InTopEnd
  <1> HIDE DEF h
  <1>5. h \notin answered
    <2>1. Unsent(h) + Wait(h) + Walk(h) + Ended(h) = 1
      BY <1>3, PlacesAre DEF Base, Finite, EachRequestOnce
    <2>2. Unsent(h) \in Nat /\ Wait(h) \in Nat /\ Walk(h) \in Nat /\ InTopSender(h) \in Nat
      BY CountTypes DEF Base, Finite
    <2>3. InTopEnd(h) \in Nat /\ InTopEnd(h) >= 1
      BY <1>4 DEF One
    <2> QED BY ONLY <2>1, <2>2, <2>3 DEF Ended, One
  <1> SUFFICES ASSUME NEW r
               PROVE  /\ Unsent(r)' = Unsent(r) /\ Wait(r)' = Wait(r)
                      /\ Walk(r)' = Walk(r) /\ Ended(r)' = Ended(r)
    BY <1>1 DEF Kept
  <1>6. Unsent(r)' = Unsent(r) /\ Wait(r)' = Wait(r) /\ Walk(r)' = Walk(r)
    BY <1>1, WaitSame, WalkSame, SameCounts DEF queues, walkers, l1Vars
  <1>7. Ended(r)' = Ended(r)
    <2>1. InTopSender(r) \in Nat /\ InTopSender(r)' = InTopSender(r)
      BY <1>1, CountTypes, SameCounts DEF Base, Finite
    <2>2. One(r \in answered)' = One(r \in answered) + One(h = r)
      BY <1>1, <1>5 DEF One
    <2>3. One(h = r) \in Nat /\ One(r \in answered) \in Nat
      BY DEF One
    <2> QED BY <1>4, <2>1, <2>2, <2>3 DEF Ended
  <1> QED BY <1>6, <1>7

(* The memory answers a read. *)
LEMMA MoveMemAnswers ==
    ASSUME NEW read \in memReads, MemAnswers(read)
    PROVE  Kept
  <1>1. UNCHANGED <<tlbVars, toTop, queues, walkers, numInflightPTWRequests, topSender, l1Vars>>
    BY DEF MemAnswers
  <1> QED BY <1>1, WaitSame, WalkSame, EndedSame, SameCounts DEF Kept, tlbVars, queues, walkers, l1Vars

(* The L1 cache answers with a block. *)
LEMMA MoveL1Answers ==
    ASSUME Base, NEW block \in l1Blocks, L1Answers(block)
    PROVE  Kept /\ IsFiniteSet(l1Blocks')
  <1> DEFINE x == [info |-> block, data |-> Contents(block.address)]
  <1>1. /\ UNCHANGED <<tlbVars, toTop, queues, walkers, numInflightPTWRequests, topSender>>
        /\ l1Blocks' = l1Blocks \ {block} /\ toCache' = Append(toCache, x)
    BY DEF L1Answers
  <1>2. x \in L1Rsp
    BY ContentsType DEF L1Rsp, Block, Base, TypeOK
  <1>3. x.info = block
    OBVIOUS
  <1> HIDE DEF x
  <1>4. \A r : InL1(r)' \in Nat /\ InL1(r) = InL1(r)' + One(block.req = r)
    <2> TAKE r
    <2>1. IsFiniteSet(l1Blocks)
      BY DEF Base, Finite
    <2>2. /\ Cardinality(OccBlock(l1Blocks \ {block}, r)) \in Nat
          /\ Cardinality(OccBlock(l1Blocks, r))
                = Cardinality(OccBlock(l1Blocks \ {block}, r)) + One(block.req = r)
      BY <2>1, BlockRemoved
    <2> QED BY ONLY <1>1, <2>2 DEF InL1
  <1>5. \A r : InToCache(r) \in Nat /\ InToCache(r)' = InToCache(r) + One(block.req = r)
    BY <1>1, <1>2, <1>3, InfoAppend, QueueTypes DEF InToCache, Base
  <1>6. \A r : Walk(r)' = Walk(r)
    <2> TAKE r
    <2>1. /\ InPrimary(r)' = InPrimary(r) /\ InSecondary(r)' = InSecondary(r)
          /\ InRspQueue(r)' = InRspQueue(r)
      BY <1>1, SameCounts DEF queues, walkers
    <2>2. InPrimary(r) \in Nat /\ InSecondary(r) \in Nat /\ InRspQueue(r) \in Nat
      BY CountTypes DEF Base, Finite
    <2>3. One(block.req = r) \in Nat
      BY DEF One
    <2> QED BY <1>4, <1>5, <2>1, <2>2, <2>3 DEF Walk
  <1>7. \A r : Unsent(r)' = Unsent(r) /\ Wait(r)' = Wait(r) /\ Ended(r)' = Ended(r)
    BY <1>1, WaitSame, EndedSame, SameCounts DEF tlbVars, queues
  <1>8. IsFiniteSet(l1Blocks')
    BY <1>1, BlockRemoved DEF Base, Finite
  <1> QED BY <1>1, <1>6, <1>7, <1>8 DEF Kept

(* An answer goes from the sender's buffer to the port. *)
LEMMA MoveTopSender ==
    ASSUME Base, TopSenderTick
    PROVE  Kept
  <1>1. UNCHANGED <<unsent, answered, toTop, queues, walkers, numInflightPTWRequests, l1Vars>>
    BY DEF TopSenderTick
  <1>2. topSender \in Seq(Answer) /\ topEnd \in Seq(Answer)
    BY QueueTypes DEF Base
  <1>3. \A r : InTopSender(r)' + InTopEnd(r)' = InTopSender(r) + InTopEnd(r)
    <2> TAKE r
    <2>1. CASE topSender' = topSender /\ topEnd' = topEnd
      BY <2>1, SameCounts
    <2>2. CASE /\ topSender # <<>> /\ topSender' = Tail(topSender)
               /\ topEnd' = Append(topEnd, Head(topSender))
      <3>1. Head(topSender) \in Answer
        BY <1>2, <2>2, TailAt
      <3>2. /\ InTopSender(r)' \in Nat
            /\ InTopSender(r) = InTopSender(r)' + One(Head(topSender).req = r)
        BY <1>2, <2>2, ReqTail DEF InTopSender
      <3>3. /\ InTopEnd(r) \in Nat
            /\ InTopEnd(r)' = InTopEnd(r) + One(Head(topSender).req = r)
        BY <1>2, <2>2, <3>1, ReqAppend DEF InTopEnd
      <3>4. One(Head(topSender).req = r) \in Nat
        BY DEF One
      <3> QED BY <3>2, <3>3, <3>4
    <2> QED BY <2>1, <2>2 DEF TopSenderTick
  <1>4. \A r : Ended(r)' = Ended(r)
    BY <1>1, <1>3 DEF Ended
  <1>5. \A r : Unsent(r)' = Unsent(r) /\ Wait(r)' = Wait(r) /\ Walk(r)' = Walk(r)
    BY <1>1, WaitSame, WalkSame, SameCounts DEF queues, walkers, l1Vars
  <1> QED BY <1>1, <1>4, <1>5 DEF Kept

(* A walk that is accepted is in one more slot. *)
LEMMA FillsCounts ==
    ASSUME Base, NEW w \in Walker, NEW t \in Trans, Fills(w, t), NEW r
    PROVE  InPrimary(r)' + InSecondary(r)' = InPrimary(r) + InSecondary(r) + Bears(t, r)
  <1>1. /\ primary \in [Walker -> Trans \cup {NoTrans}]
        /\ secondary \in [Walker -> Trans \cup {NoTrans}]
    BY DEF Base, TypeOK
  <1>2. InPrimary(r) \in Nat /\ InSecondary(r) \in Nat
    BY CountTypes DEF Base, Finite
  <1>3. Bears(t, r) \in Nat
    BY DEF Bears, One
  <1>4. CASE primary[w] = NoTrans /\ primary' = [primary EXCEPT ![w] = t] /\ secondary' = secondary
    <2>1. InSecondary(r)' = InSecondary(r)
      BY <1>4, SameCounts
    <2>2. InPrimary(r)' + Bears(primary[w], r)
            = InPrimary(r) + Bears(t, r)
      <3>1. Becomes(primary, primary', w, t)
        BY <1>1, <1>4, ExceptBecomes
      <3> QED BY <3>1, SlotChanges DEF InPrimary
    <2>3. Bears(primary[w], r) = 0 /\ InPrimary(r)' \in Nat
      <3>1. Bears(primary[w], r) = 0
        BY <1>4, NoTransNotLive DEF Bears, One
      <3>2. InPrimary(r)' \in Nat
        <4>1. Becomes(primary', primary', w, primary'[w])
          BY DEF Becomes
        <4> QED BY <4>1, SlotChanges DEF InPrimary
      <3> QED BY <3>1, <3>2
    <2> QED BY <1>2, <1>3, <2>1, <2>2, <2>3
  <1>5. CASE secondary[w] = NoTrans /\ secondary' = [secondary EXCEPT ![w] = t] /\ primary' = primary
    <2>1. InPrimary(r)' = InPrimary(r)
      BY <1>5, SameCounts
    <2>2. InSecondary(r)' + Bears(secondary[w], r)
            = InSecondary(r) + Bears(t, r)
      <3>1. Becomes(secondary, secondary', w, t)
        BY <1>1, <1>5, ExceptBecomes
      <3> QED BY <3>1, SlotChanges DEF InSecondary
    <2>3. Bears(secondary[w], r) = 0 /\ InSecondary(r)' \in Nat
      <3>1. Bears(secondary[w], r) = 0
        BY <1>5, NoTransNotLive DEF Bears, One
      <3>2. InSecondary(r)' \in Nat
        <4>1. Becomes(secondary', secondary', w, secondary'[w])
          BY DEF Becomes
        <4> QED BY <4>1, SlotChanges DEF InSecondary
      <3> QED BY <3>1, <3>2
    <2> QED BY <1>2, <1>3, <2>1, <2>2, <2>3
  <1> QED BY <1>4, <1>5 DEF Fills

(* A request goes from the queue to a walker, and its walk begins. *)
LEMMA MoveReqQueue ==
    ASSUME Base, ProcessPageWalkReqQueue
    PROVE  Kept \/ \E s \in Req : Begun(s)
  <1>1. UNCHANGED <<tlbVars, toTop, pageWalkRspQueue, topSender, l1Vars>>
    BY DEF ProcessPageWalkReqQueue
  <1>2. CASE UNCHANGED <<walkers, pageWalkReqQueue, numInflightPTWRequests>>
    BY <1>1, <1>2, WaitSame, WalkSame, EndedSame, SameCounts DEF Kept, tlbVars, walkers, l1Vars
  <1>3. ASSUME pageWalkReqQueue # <<>>, pageWalkReqQueue' = Tail(pageWalkReqQueue),
               numInflightPTWRequests' = numInflightPTWRequests + 1,
               NEW w \in Walker, Fills(w, NewWalk(Head(pageWalkReqQueue)))
        PROVE  \E s \in Req : Begun(s)
    <2> DEFINE h == Head(pageWalkReqQueue)
               t == NewWalk(h)
    <2>1. pageWalkReqQueue \in Seq(TopReq)
      BY QueueTypes DEF Base
    <2>2. h \in TopReq
      BY <1>3, <2>1, TailAt
    <2>3. t \in Trans /\ t.req = h.req /\ h.req \in Req /\ Live(t)
      BY <2>2, NewWalkType
    <2>4. \A r : InReqQueue(r)' \in Nat /\ InReqQueue(r) = InReqQueue(r)' + One(h.req = r)
      BY <1>3, <2>1, ReqTail DEF InReqQueue
    <2>5. Fills(w, t)
      BY <1>3
    <2> HIDE DEF h, t
    <2>6. \A r : InPrimary(r)' + InSecondary(r)' = InPrimary(r) + InSecondary(r) + One(h.req = r)
      BY <2>3, <2>5, FillsCounts DEF Bears, One
    <2> DEFINE s == h.req
    <2>7. SUFFICES ASSUME NEW r
                   PROVE  /\ Unsent(r)' = Unsent(r) /\ Wait(r) = Wait(r)' + One(r = s)
                          /\ Walk(r)' = Walk(r) + One(r = s) /\ Ended(r)' = Ended(r)
      BY <1>3, <2>3 DEF Begun
    <2>8. One(h.req = r) = One(r = s) /\ One(r = s) \in Nat
      BY DEF One
    <2>9. Wait(r) = Wait(r)' + One(r = s)
      <3>1. InToTop(r)' = InToTop(r) /\ InToTop(r) \in Nat
        BY <1>1, SameCounts, CountTypes DEF Base, Finite
      <3> QED BY <2>4, <2>8, <3>1 DEF Wait
    <2>10. Walk(r)' = Walk(r) + One(r = s)
      <3>1. InRspQueue(r)' = InRspQueue(r) /\ InL1(r)' = InL1(r) /\ InToCache(r)' = InToCache(r)
        BY <1>1, SameCounts DEF l1Vars
      <3>2. /\ InPrimary(r) \in Nat /\ InSecondary(r) \in Nat /\ InRspQueue(r) \in Nat
            /\ InL1(r) \in Nat /\ InToCache(r) \in Nat
        BY CountTypes DEF Base, Finite
      <3>3. InPrimary(r)' + InSecondary(r)' = InPrimary(r) + InSecondary(r) + One(r = s)
        BY <2>6, <2>8
      <3> QED BY ONLY <2>8, <3>1, <3>2, <3>3 DEF Walk
    <2>11. Unsent(r)' = Unsent(r) /\ Ended(r)' = Ended(r)
      BY <1>1, EndedSame, SameCounts DEF tlbVars
    <2> QED BY <2>9, <2>10, <2>11
  <1> QED BY <1>2, <1>3, ReqQueueCases DEF Base

(* A walk goes from the response queue to a walker. *)
LEMMA MoveRspQueue ==
    ASSUME Base, ProcessPageWalkRspQueue
    PROVE  Kept
  <1>1. UNCHANGED <<tlbVars, toTop, pageWalkReqQueue, numInflightPTWRequests, topSender, l1Vars>>
    BY DEF ProcessPageWalkRspQueue
  <1>2. CASE UNCHANGED <<walkers, pageWalkRspQueue>>
    BY <1>1, <1>2, WaitSame, WalkSame, EndedSame, SameCounts DEF Kept, tlbVars, walkers, l1Vars
  <1>3. ASSUME pageWalkRspQueue # <<>>, pageWalkRspQueue' = Tail(pageWalkRspQueue),
               NEW w \in Walker, Fills(w, Head(pageWalkRspQueue))
        PROVE  Kept
    <2> DEFINE t == Head(pageWalkRspQueue)
    <2>1. pageWalkRspQueue \in Seq(Trans)
      BY QueueTypes DEF Base
    <2>2. t \in Trans
      BY <1>3, <2>1, TailAt
    <2>3. Fills(w, t)
      BY <1>3
    <2>4. \A r : /\ InRspQueue(r)' \in Nat
                 /\ InRspQueue(r) = InRspQueue(r)' + Bears(t, r)
      BY <1>3, <2>1, TransTail DEF InRspQueue, Bears
    <2> HIDE DEF t
    <2>5. \A r : Walk(r)' = Walk(r)
      <3> TAKE r
      <3>1. InL1(r)' = InL1(r) /\ InToCache(r)' = InToCache(r)
        BY <1>1, SameCounts DEF l1Vars
      <3>2. /\ InPrimary(r) \in Nat /\ InSecondary(r) \in Nat /\ InL1(r) \in Nat /\ InToCache(r) \in Nat
        BY CountTypes DEF Base, Finite
      <3>3. InPrimary(r)' + InSecondary(r)' = InPrimary(r) + InSecondary(r) + Bears(t, r)
        BY <2>2, <2>3, FillsCounts
      <3>4. Bears(t, r) \in Nat
        BY DEF Bears, One
      <3> QED BY ONLY <2>4, <3>1, <3>2, <3>3, <3>4 DEF Walk
    <2>6. \A r : Unsent(r)' = Unsent(r) /\ Wait(r)' = Wait(r) /\ Ended(r)' = Ended(r)
      BY <1>1, WaitSame, EndedSame, SameCounts DEF tlbVars
    <2> QED BY <1>1, <2>5, <2>6 DEF Kept
  <1> QED BY <1>2, <1>3, RspQueueCases DEF Base

(* A request goes from the port to the queue. *)
LEMMA MoveFromTop ==
    ASSUME Base, ParseFromTop
    PROVE  Kept
  <1>1. UNCHANGED <<tlbVars, pageWalkRspQueue, walkers, numInflightPTWRequests, topSender, l1Vars>>
    BY DEF ParseFromTop
  <1>2. toTop \in Seq(TopReq) /\ pageWalkReqQueue \in Seq(TopReq)
    BY QueueTypes DEF Base
  <1>3. \A r : Wait(r)' = Wait(r)
    <2> TAKE r
    <2>1. CASE toTop' = toTop /\ pageWalkReqQueue' = pageWalkReqQueue
      BY <2>1, WaitSame
    <2>2. CASE /\ toTop # <<>> /\ toTop' = Tail(toTop)
               /\ pageWalkReqQueue' = Append(pageWalkReqQueue, Head(toTop))
      <3>1. Head(toTop) \in TopReq
        BY <1>2, <2>2, TailAt
      <3>2. InToTop(r)' \in Nat /\ InToTop(r) = InToTop(r)' + One(Head(toTop).req = r)
        BY <1>2, <2>2, ReqTail DEF InToTop
      <3>3. InReqQueue(r) \in Nat /\ InReqQueue(r)' = InReqQueue(r) + One(Head(toTop).req = r)
        BY <1>2, <2>2, <3>1, ReqAppend DEF InReqQueue
      <3>4. One(Head(toTop).req = r) \in Nat
        BY DEF One
      <3> QED BY <3>2, <3>3, <3>4 DEF Wait
    <2> QED BY <2>1, <2>2 DEF ParseFromTop
  <1>4. \A r : Unsent(r)' = Unsent(r) /\ Walk(r)' = Walk(r) /\ Ended(r)' = Ended(r)
    BY <1>1, WalkSame, EndedSame, SameCounts DEF tlbVars, walkers, l1Vars
  <1> QED BY <1>1, <1>3, <1>4 DEF Kept

(* A request is in one place. *)
LEMMA OnePlace ==
    ASSUME Base, NEW r \in Req
    PROVE  /\ Unsent(r) + Wait(r) + Walk(r) + Ended(r) = 1
           /\ Unsent(r) \in Nat /\ Wait(r) \in Nat /\ Walk(r) \in Nat /\ Ended(r) \in Nat
           /\ InPrimary(r) + InSecondary(r) + InRspQueue(r) + InL1(r) + InToCache(r) <= 1
           /\ InPrimary(r) \in Nat /\ InSecondary(r) \in Nat /\ InRspQueue(r) \in Nat
           /\ InL1(r) \in Nat /\ InToCache(r) \in Nat
  <1>1. Unsent(r) + Wait(r) + Walk(r) + Ended(r) = 1
    BY PlacesAre DEF Base, Finite, EachRequestOnce
  <1>2. /\ Unsent(r) \in Nat /\ Wait(r) \in Nat /\ Walk(r) \in Nat /\ Ended(r) \in Nat
        /\ InPrimary(r) \in Nat /\ InSecondary(r) \in Nat /\ InRspQueue(r) \in Nat
        /\ InL1(r) \in Nat /\ InToCache(r) \in Nat
    BY CountTypes DEF Base, Finite
  <1>3. Walk(r) <= 1
    BY <1>1, <1>2
  <1> QED BY <1>1, <1>2, <1>3 DEF Walk

(* A live primary walk is counted, and there is no other one of its request. *)
LEMMA PrimaryCounted ==
    ASSUME Base, NEW w \in Walker, primary[w] \in Trans, Live(primary[w])
    PROVE  /\ InPrimary(primary[w].req) >= 1 /\ primary[w].req \in Req
           /\ \A v \in Walker : Live(primary[v]) /\ primary[v].req = primary[w].req => v = w
  <1> DEFINE r == primary[w].req
  <1>1. r \in Req
    BY DEF Trans
  <1>2. IsFiniteSet(OccSlot(primary, r)) /\ w \in OccSlot(primary, r)
    BY OccFinite DEF Base, Finite, OccSlot
  <1>3. Cardinality(OccSlot(primary, r)) <= 1
    BY <1>1, OnePlace DEF InPrimary
  <1>4. \A v \in OccSlot(primary, r) : v = w
    BY <1>2, <1>3, CountOnce
  <1>5. Cardinality(OccSlot(primary, r)) \in Nat /\ Cardinality(OccSlot(primary, r)) # 0
    BY <1>2, CountZero
  <1> QED BY <1>1, <1>4, <1>5 DEF InPrimary, OccSlot

(* A walk in a secondary slot is counted there. *)
LEMMA SecondaryCounted ==
    ASSUME Base, NEW w \in Walker, secondary[w] \in Trans, Live(secondary[w])
    PROVE  InSecondary(secondary[w].req) >= 1 /\ secondary[w].req \in Req
  <1> DEFINE r == secondary[w].req
  <1>1. IsFiniteSet(OccSlot(secondary, r)) /\ w \in OccSlot(secondary, r)
    BY OccFinite DEF Base, Finite, OccSlot
  <1>2. Cardinality(OccSlot(secondary, r)) \in Nat /\ Cardinality(OccSlot(secondary, r)) # 0
    BY <1>1, CountZero
  <1> QED BY <1>2 DEF InSecondary, Trans

(* A primary walk with the ID of a read that is under way waits for it: it *)
(* is the walk of the same request that does.                              *)
LEMMA AwaitedWalk ==
    ASSUME Base, IDsMatch, FinishedGone, ReadsCounted, NEW id \in MsgID,
           OccMem(memReads, id) # {} \/ OccRsp(translationPort, id) # {},
           NEW w \in Walker, primary[w] # NoTrans, primary[w].msgID = id
    PROVE  primary[w].state = "sentToMem"
  <1>1. PICK v \in Walker : primary[v] # NoTrans /\ primary[v].state = "sentToMem" /\ primary[v].msgID = id
    <2>1. /\ IsFiniteSet(OccMem(memReads, id)) /\ IsFiniteSet(OccRsp(translationPort, id))
          /\ IsFiniteSet(OccWait(primary, id))
      BY OccFinite DEF Base, Finite
    <2>2. /\ Cardinality(OccMem(memReads, id)) \in Nat /\ Cardinality(OccRsp(translationPort, id)) \in Nat
          /\ Cardinality(OccMem(memReads, id)) # 0 \/ Cardinality(OccRsp(translationPort, id)) # 0
      BY <2>1, CountZero
    <2>3. Cardinality(OccMem(memReads, id)) + Cardinality(OccRsp(translationPort, id))
            = Cardinality(OccWait(primary, id))
      BY DEF ReadsCounted, ReadOnce
    <2>4. OccWait(primary, id) # {}
      BY <2>1, <2>2, <2>3, CountZero
    <2> QED BY <2>4 DEF OccWait
  <1>2. primary[v] \in Trans /\ primary[w] \in Trans
    BY <1>1 DEF Base, TypeOK
  <1>3. primary[v].req = primary[w].req
    BY <1>1 DEF IDsMatch, OwnID
  <1>4. Live(primary[v])
    BY <1>1, <1>2, WalkIsNot
  <1>5. CASE Live(primary[w])
    <2>1. v = w
      BY <1>2, <1>3, <1>4, <1>5, PrimaryCounted
    <2> QED BY <1>1, <2>1
  <1>6. CASE ~Live(primary[w])
    <2> DEFINE r == primary[v].req
    <2>1. InPrimary(r) >= 1 /\ r \in Req
      BY <1>2, <1>4, PrimaryCounted
    <2>2. primary[w].state = "transactionFinished"
      BY <1>2, <1>6, WalkIsNot
    <2>3. Gone(primary[w].req)
      BY <2>2 DEF FinishedGone
    <2>4. Ended(r) >= 1
      BY <1>3, <2>3 DEF Gone, Ended
    <2>5. /\ Unsent(r) + Wait(r) + Walk(r) + Ended(r) = 1
          /\ Unsent(r) \in Nat /\ Wait(r) \in Nat /\ Walk(r) \in Nat /\ Ended(r) \in Nat
          /\ InPrimary(r) \in Nat /\ InSecondary(r) \in Nat /\ InRspQueue(r) \in Nat
          /\ InL1(r) \in Nat /\ InToCache(r) \in Nat
      BY <2>1, OnePlace
    <2> HIDE DEF r
    <2>6. FALSE
      BY ONLY <2>1, <2>4, <2>5 DEF Walk
    <2> QED BY <2>6
  <1> QED BY <1>5, <1>6

(* The walk that a response of the memory is for. *)
LEMMA ResponseAwaited ==
    ASSUME Base, IDsMatch, FinishedGone, ReadsCounted, translationPort # <<>>,
           NEW w \in Walker, primary[w] # NoTrans, primary[w].msgID = Head(translationPort).respondTo
    PROVE  /\ primary[w] \in Trans /\ primary[w].state = "sentToMem" /\ Live(primary[w])
           /\ primary[w].msgID \in MsgID
  <1>1. /\ Head(translationPort) \in MemRsp
        /\ 1 \in DOMAIN translationPort /\ translationPort[1] = Head(translationPort)
    BY QueueTypes, TailAt DEF Base
  <1>2. primary[w].msgID \in MsgID /\ OccRsp(translationPort, primary[w].msgID) # {}
    BY <1>1 DEF MemRsp, OccRsp
  <1>3. primary[w] \in Trans
    BY DEF Base, TypeOK
  <1>4. primary[w].state = "sentToMem"
    BY <1>2, AwaitedWalk
  <1> QED BY <1>2, <1>3, <1>4, WalkIsNot

(* What an entry that was read does to the answers. *)
LEMMA EntryMoves ==
    ASSUME Base, NEW t \in Trans, EntryRead(t)
    PROVE  /\ Finalizes(t) =>
                /\ \A r : InTopSender(r)' = InTopSender(r) + One(t.req = r)
                /\ numInflightPTWRequests' = numInflightPTWRequests - 1
           /\ ~Finalizes(t) => topSender' = topSender /\ numInflightPTWRequests' = numInflightPTWRequests
  <1> DEFINE x == [req |-> t.req, ppn |-> t.ppn]
  <1>1. x \in Answer /\ x.req = t.req
    BY DEF Answer, Trans
  <1>2. /\ Finalizes(t) => /\ topSender' = Append(topSender, x)
                           /\ numInflightPTWRequests' = numInflightPTWRequests - 1
        /\ ~Finalizes(t) => topSender' = topSender /\ numInflightPTWRequests' = numInflightPTWRequests
    BY DEF EntryRead, Finalize
  <1> HIDE DEF x
  <1>3. topSender' = Append(topSender, x) => \A r : InTopSender(r)' = InTopSender(r) + One(t.req = r)
    <2>1. topSender \in Seq(Answer)
      BY QueueTypes DEF Base
    <2> QED BY <1>1, <2>1, ReqAppend DEF InTopSender
  <1> QED BY <1>2, <1>3

(* A response from memory moves its walk on, or completes it. *)
LEMMA MoveFromMem ==
    ASSUME Base, IDsMatch, FinishedGone, ReadsCounted, ParseFromMem
    PROVE  Kept \/ \E s \in Req : Completed(s)
  <1>1. UNCHANGED <<tlbVars, toTop, queues, l1Vars>>
    BY DEF ParseFromMem
  <1>2. CASE UNCHANGED <<walkers, translationPort, topSender, numInflightPTWRequests, pageWalkCache>>
    BY <1>1, <1>2, WaitSame, WalkSame, EndedSame, SameCounts DEF Kept, tlbVars, queues, walkers, l1Vars
  <1>3. ASSUME translationPort # <<>>, secondary' = secondary,
               NEW w \in Walker, primary[w] # NoTrans, primary[w].msgID = Head(translationPort).respondTo,
               EntryRead(MemTrans(w)), primary' = [primary EXCEPT ![w] = Advanced(MemTrans(w))]
        PROVE  Kept \/ \E s \in Req : Completed(s)
    <2> DEFINE t == MemTrans(w)
               s == primary[w].req
    <2>1. primary[w] \in Trans /\ Live(primary[w])
      BY <1>3, ResponseAwaited
    <2>2. t \in Trans /\ t.req = s /\ t.state = "memDone"
      BY <1>3, MemTransType DEF Base
    <2>3. s \in Req
      BY <2>1 DEF Trans
    <2>4. Advanced(t).req = s /\ (Live(Advanced(t)) <=> ~Finalizes(t))
      BY <2>2, AdvancedType
    <2>5. Becomes(primary, primary', w, Advanced(t))
      BY <1>3, ExceptBecomes DEF Base, TypeOK
    <2>6. EntryRead(t)
      BY <1>3
    <2> HIDE DEF t
    <2>7. \A r : InPrimary(r)' + Bears(primary[w], r) = InPrimary(r) + Bears(Advanced(t), r)
      BY <2>5, SlotChanges DEF InPrimary
    <2>8. \A r : Bears(primary[w], r) = One(r = s)
      BY <2>1 DEF Bears, One
    <2> HIDE DEF s
    <2>9. \A r : InPrimary(r)' \in Nat
      <3>1. Becomes(primary', primary', w, primary'[w])
        BY DEF Becomes
      <3> QED BY <3>1, SlotChanges DEF InPrimary
    <2>10. \A r : /\ Unsent(r)' = Unsent(r) /\ Wait(r)' = Wait(r)
                  /\ InSecondary(r)' = InSecondary(r) /\ InRspQueue(r)' = InRspQueue(r)
                  /\ InL1(r)' = InL1(r) /\ InToCache(r)' = InToCache(r) /\ InTopEnd(r)' = InTopEnd(r)
                  /\ One(r \in answered)' = One(r \in answered)
      BY <1>1, <1>3, WaitSame, SameCounts DEF tlbVars, queues, l1Vars
    <2>11. \A r : /\ InPrimary(r) \in Nat /\ InSecondary(r) \in Nat /\ InRspQueue(r) \in Nat
                  /\ InL1(r) \in Nat /\ InToCache(r) \in Nat
                  /\ InTopSender(r) \in Nat /\ InTopEnd(r) \in Nat
      BY CountTypes DEF Base, Finite
    <2>12. \A r : One(r = s) \in Nat /\ One(r \in answered) \in Nat
      BY DEF One
    <2>13. CASE Finalizes(t)
      <3>1. /\ \A r : InTopSender(r)' = InTopSender(r) + One(s = r)
            /\ numInflightPTWRequests' = numInflightPTWRequests - 1
        BY <2>2, <2>6, <2>13, EntryMoves
      <3>2. \A r : InPrimary(r) = InPrimary(r)' + One(r = s)
        <4> TAKE r
        <4>1. Bears(Advanced(t), r) = 0
          BY <2>4, <2>13 DEF Bears, One
        <4> QED BY <2>7, <2>8, <2>9, <2>11, <2>12, <4>1
      <3>3. \A r : Walk(r) = Walk(r)' + One(r = s)
        <4> TAKE r
        <4>1. /\ InPrimary(r)' \in Nat /\ InPrimary(r) = InPrimary(r)' + One(r = s)
              /\ InSecondary(r)' = InSecondary(r) /\ InRspQueue(r)' = InRspQueue(r)
              /\ InL1(r)' = InL1(r) /\ InToCache(r)' = InToCache(r)
          BY <2>9, <2>10, <3>2
        <4>2. /\ InSecondary(r) \in Nat /\ InRspQueue(r) \in Nat
              /\ InL1(r) \in Nat /\ InToCache(r) \in Nat /\ One(r = s) \in Nat
          BY <2>11, <2>12
        <4> QED BY ONLY <4>1, <4>2 DEF Walk
      <3>4. \A r : Ended(r)' = Ended(r) + One(r = s)
        <4> TAKE r
        <4>1. One(s = r) = One(r = s)
          BY DEF One
        <4> QED BY ONLY <2>10, <2>11, <2>12, <3>1, <4>1 DEF Ended
      <3>5. Walk(s) >= 1
        <4>1. InPrimary(s) >= 1
          BY <2>1, PrimaryCounted DEF s
        <4>2. /\ InPrimary(s) \in Nat /\ InSecondary(s) \in Nat /\ InRspQueue(s) \in Nat
              /\ InL1(s) \in Nat /\ InToCache(s) \in Nat
          BY <2>11
        <4> QED BY ONLY <4>1, <4>2 DEF Walk
      <3>6. Completed(s)
        BY <2>10, <3>1, <3>3, <3>4, <3>5 DEF Completed
      <3> QED BY <2>3, <3>6
    <2>14. CASE ~Finalizes(t)
      <3>1. topSender' = topSender /\ numInflightPTWRequests' = numInflightPTWRequests
        BY <2>2, <2>6, <2>14, EntryMoves
      <3>2. \A r : InPrimary(r)' = InPrimary(r)
        <4> TAKE r
        <4>1. Bears(Advanced(t), r) = One(r = s)
          BY <2>4, <2>14 DEF Bears, One
        <4> QED BY <2>7, <2>8, <2>9, <2>11, <2>12, <4>1
      <3>3. \A r : Walk(r)' = Walk(r)
        BY <2>10, <3>2 DEF Walk
      <3>4. \A r : Ended(r)' = Ended(r)
        BY <1>1, <3>1, EndedSame DEF tlbVars
      <3> QED BY <2>10, <3>1, <3>3, <3>4 DEF Kept
    <2> QED BY <2>13, <2>14
  <1> QED BY <1>2, <1>3, MemCases DEF Base

(* A block from the L1 cache moves its walk on, or completes it. *)
LEMMA MoveFromL1 ==
    ASSUME Base, ParseFromL1
    PROVE  Kept \/ \E s \in Req : Completed(s)
  <1>1. UNCHANGED <<tlbVars, toTop, pageWalkReqQueue, walkers, l1Blocks>>
    BY DEF ParseFromL1
  <1>2. CASE UNCHANGED <<toCache, pageWalkRspQueue, topSender, numInflightPTWRequests, pageWalkCache>>
    BY <1>1, <1>2, WaitSame, WalkSame, EndedSame, SameCounts DEF Kept, tlbVars, walkers
  <1>3. ASSUME toCache # <<>>, toCache' = Tail(toCache), EntryRead(L1Trans),
               pageWalkRspQueue' = Append(pageWalkRspQueue, Advanced(L1Trans))
        PROVE  Kept \/ \E s \in Req : Completed(s)
    <2> DEFINE t == L1Trans
               u == Advanced(t)
               s == t.req
    <2>1. t \in Trans /\ t.req = Head(toCache).info.req /\ t.state = "l1Done"
      BY <1>3, L1TransType DEF Base
    <2>2. s \in Req
      BY <2>1 DEF Trans
    <2>3. u \in Trans /\ u.req = s /\ (Live(u) <=> ~Finalizes(t))
      BY <2>1, AdvancedType
    <2>4. EntryRead(t) /\ pageWalkRspQueue' = Append(pageWalkRspQueue, u)
      BY <1>3
    <2> HIDE DEF t, u
    <2>5. \A r : InToCache(r)' \in Nat /\ InToCache(r) = InToCache(r)' + One(s = r)
      <3>1. toCache \in Seq(L1Rsp)
        BY QueueTypes DEF Base
      <3> QED BY <1>3, <2>1, <3>1, InfoTail DEF InToCache
    <2>6. \A r : InRspQueue(r)' = InRspQueue(r) + Bears(u, r)
      <3>1. pageWalkRspQueue \in Seq(Trans)
        BY QueueTypes DEF Base
      <3> QED BY <2>3, <2>4, <3>1, TransAppend DEF InRspQueue, Bears
    <2>7. \A r : Bears(u, r) = IF Finalizes(t) THEN 0 ELSE One(s = r)
      BY <2>3 DEF Bears, One
    <2>8. \A r : /\ Unsent(r)' = Unsent(r) /\ Wait(r)' = Wait(r)
                 /\ InPrimary(r)' = InPrimary(r) /\ InSecondary(r)' = InSecondary(r)
                 /\ InL1(r)' = InL1(r) /\ InTopEnd(r)' = InTopEnd(r)
                 /\ One(r \in answered)' = One(r \in answered)
      BY <1>1, WaitSame, SameCounts DEF tlbVars, walkers
    <2>9. \A r : /\ InPrimary(r) \in Nat /\ InSecondary(r) \in Nat /\ InRspQueue(r) \in Nat
                 /\ InL1(r) \in Nat /\ InTopSender(r) \in Nat /\ InTopEnd(r) \in Nat
      BY CountTypes DEF Base, Finite
    <2>10. \A r : One(s = r) = One(r = s) /\ One(s = r) \in Nat /\ One(r \in answered) \in Nat
      BY DEF One
    <2> HIDE DEF s
    <2>11. \A r : Walk(r) = Walk(r)' + IF Finalizes(t) THEN One(r = s) ELSE 0
      <3> TAKE r
      <3>1. /\ InToCache(r)' \in Nat /\ InToCache(r) = InToCache(r)' + One(r = s)
            /\ InRspQueue(r)' = InRspQueue(r) + IF Finalizes(t) THEN 0 ELSE One(r = s)
            /\ InPrimary(r)' = InPrimary(r) /\ InSecondary(r)' = InSecondary(r) /\ InL1(r)' = InL1(r)
        BY <2>5, <2>6, <2>7, <2>8, <2>10
      <3>2. /\ InPrimary(r) \in Nat /\ InSecondary(r) \in Nat /\ InRspQueue(r) \in Nat
            /\ InL1(r) \in Nat /\ One(r = s) \in Nat
        BY <2>9, <2>10
      <3>3. CASE Finalizes(t)
        BY ONLY <3>1, <3>2, <3>3 DEF Walk
      <3>4. CASE ~Finalizes(t)
        BY ONLY <3>1, <3>2, <3>4 DEF Walk
      <3> QED BY <3>3, <3>4
    <2>12. \A r : Walk(r)' \in Nat
      <3> TAKE r
      <3>1. /\ InPrimary(r)' \in Nat /\ InSecondary(r)' \in Nat /\ InL1(r)' \in Nat
            /\ InToCache(r)' \in Nat
        BY <2>5, <2>8, <2>9
      <3>2. InRspQueue(r)' \in Nat
        BY <2>6, <2>7, <2>9, <2>10
      <3> QED BY ONLY <3>1, <3>2 DEF Walk
    <2>13. CASE Finalizes(t)
      <3>1. /\ \A r : InTopSender(r)' = InTopSender(r) + One(t.req = r)
            /\ numInflightPTWRequests' = numInflightPTWRequests - 1
        BY <2>1, <2>4, <2>13, EntryMoves
      <3>2. \A r : Ended(r)' = Ended(r) + One(r = s)
        <4> TAKE r
        <4>1. /\ InTopSender(r)' = InTopSender(r) + One(r = s) /\ InTopEnd(r)' = InTopEnd(r)
              /\ One(r \in answered)' = One(r \in answered)
          BY <2>8, <2>10, <3>1 DEF s
        <4>2. InTopSender(r) \in Nat /\ InTopEnd(r) \in Nat /\ One(r = s) \in Nat /\ One(r \in answered) \in Nat
          BY <2>9, <2>10
        <4> QED BY ONLY <4>1, <4>2 DEF Ended
      <3>3. \A r : Walk(r) = Walk(r)' + One(r = s)
        BY <2>11, <2>13
      <3>4. Walk(s) >= 1
        <4>1. PICK c : c = s
          OBVIOUS
        <4>2. Walk(c) = Walk(c)' + 1
          BY <3>3, <4>1 DEF One
        <4>3. Walk(c)' \in Nat
          BY <2>12
        <4>4. Walk(c) >= 1
          BY ONLY <4>2, <4>3
        <4> QED BY <4>1, <4>4
      <3>5. Completed(s)
        BY <2>8, <3>1, <3>2, <3>3, <3>4 DEF Completed
      <3> QED BY <2>2, <3>5
    <2>14. CASE ~Finalizes(t)
      <3>1. topSender' = topSender /\ numInflightPTWRequests' = numInflightPTWRequests
        BY <2>1, <2>4, <2>14, EntryMoves
      <3>2. \A r : Ended(r)' = Ended(r)
        BY <1>1, <3>1, EndedSame DEF tlbVars
      <3>3. \A r : Walk(r)' = Walk(r)
        BY <2>11, <2>12, <2>14
      <3> QED BY <2>8, <3>1, <3>2, <3>3 DEF Kept
    <2> QED BY <2>13, <2>14
  <1> QED BY <1>2, <1>3, L1Cases DEF Base

(* What a walker does to the walk in its primary slot: it drops it when it *)
(* is finished, moves it to its place in the page table, or reads there.   *)
ReadFor(t) == [req |-> t.req, level |-> t.level]

Drops(w)     == primary[w].state = "transactionFinished" /\ Becomes(primary, primary', w, NoTrans)
                    /\ memReads' = memReads
Positions(w, t) == primary[w].state # "transactionFinished" /\ Becomes(primary, primary', w, t)
                    /\ t.state = primary[w].state /\ t.msgID = primary[w].msgID
                    /\ memReads' = memReads
Reads(w, t) == /\ primary[w].state # "transactionFinished" /\ Becomes(primary, primary', w, t)
               /\ t.state = "sentToMem" /\ t.msgID = ReadFor(primary[w])
               /\ \E read : read.id = t.msgID /\ memReads' = memReads \cup {read}

(* A primary walk is dropped when it is finished, or it goes on as the     *)
(* same request at the same level.                                         *)
LEMMA PrimaryCases ==
    ASSUME TypeOK, NEW w \in Walker, WalkPrimary(w)
    PROVE  /\ primary[w] \in Trans /\ primary[w].state # "sentToMem"
           /\ \/ Drops(w)
              \/ \E t \in Trans : /\ t.req = primary[w].req /\ t.level = primary[w].level
                                  /\ Positions(w, t) \/ Reads(w, t)
  <1> DEFINE t == Positioned(primary[w])
             id == [req |-> t.req, level |-> t.level]
             address == AddOffset(t.ppn, t.vAddr)
             sent == [t EXCEPT !.vAddr = NextLevel(@), !.msgID = id, !.state = "sentToMem"]
             read == [id |-> id, address |-> address]
  <1>1. primary[w] \in Trans /\ primary[w].state # "sentToMem"
    BY DEF WalkPrimary, PrimaryRuns, TypeOK
  <1>2. /\ t \in Trans /\ t.req = primary[w].req /\ t.level = primary[w].level
        /\ t.state = primary[w].state /\ t.msgID = primary[w].msgID
    BY <1>1, PositionedType
  <1>3. id \in MsgID /\ NextLevel(t.vAddr) \in Seq(Nat)
    BY <1>2, OffsetTypes DEF Trans, MsgID
  <1>4. /\ sent \in Trans /\ sent.state = "sentToMem" /\ sent.msgID = id
        /\ sent.req = t.req /\ sent.level = t.level
    BY <1>2, <1>3, SentType
  <1>5. \/ /\ primary[w].state = "transactionFinished"
           /\ primary' = [primary EXCEPT ![w] = NoTrans] /\ memReads' = memReads
        \/ /\ primary[w].state # "transactionFinished"
           /\ \/ primary' = [primary EXCEPT ![w] = sent] /\ memReads' = memReads \cup {read}
              \/ primary' = [primary EXCEPT ![w] = t] /\ memReads' = memReads
    BY DEF WalkPrimary, SendToMem
  <1>6. read.id = id /\ id = ReadFor(primary[w])
    BY <1>2 DEF ReadFor
  <1> HIDE DEF t, id, sent, read
  <1>7. /\ primary' = [primary EXCEPT ![w] = NoTrans] => Becomes(primary, primary', w, NoTrans)
        /\ primary' = [primary EXCEPT ![w] = sent] => Becomes(primary, primary', w, sent)
        /\ primary' = [primary EXCEPT ![w] = t] => Becomes(primary, primary', w, t)
    <2>1. primary \in [Walker -> Trans \cup {NoTrans}]
      BY DEF TypeOK
    <2>2. \A x : Becomes(primary, [primary EXCEPT ![w] = x], w, x)
      BY <2>1, ExceptBecomes
    <2> QED BY ONLY <2>2
  <1>8. CASE primary[w].state = "transactionFinished"
    BY <1>1, <1>5, <1>7, <1>8 DEF Drops
  <1>9. CASE /\ primary[w].state # "transactionFinished"
             /\ primary' = [primary EXCEPT ![w] = sent] /\ memReads' = memReads \cup {read}
    <2>1. Reads(w, sent)
      BY <1>4, <1>6, <1>7, <1>9 DEF Reads
    <2> QED BY <1>1, <1>2, <1>4, <2>1
  <1>10. CASE /\ primary[w].state # "transactionFinished"
              /\ primary' = [primary EXCEPT ![w] = t] /\ memReads' = memReads
    <2>1. Positions(w, t)
      BY <1>2, <1>7, <1>10 DEF Positions
    <2> QED BY <1>1, <1>2, <2>1
  <1> QED BY <1>5, <1>8, <1>9, <1>10

(* A primary walk stays the walk of its request. *)
LEMMA MoveWalkPrimary ==
    ASSUME Base, NEW w \in Walker, WalkPrimary(w)
    PROVE  Kept
  <1>1. UNCHANGED <<tlbVars, toTop, queues, secondary, numInflightPTWRequests, topSender, l1Vars>>
    BY DEF WalkPrimary
  <1>2. primary[w] \in Trans
    BY PrimaryCases DEF Base
  <1>3. \E x : Becomes(primary, primary', w, x) /\ \A r : Bears(x, r) = Bears(primary[w], r)
    <2>1. CASE Drops(w)
      <3>1. \A r : Bears(NoTrans, r) = Bears(primary[w], r)
        BY <1>2, <2>1, WalkIsNot, NoTransNotLive DEF Bears, One, Drops
      <3> QED BY <2>1, <3>1 DEF Drops
    <2>2. ASSUME NEW t \in Trans, t.req = primary[w].req, Positions(w, t) \/ Reads(w, t)
          PROVE  Becomes(primary, primary', w, t) /\ \A r : Bears(t, r) = Bears(primary[w], r)
      <3>1. Becomes(primary, primary', w, t)
        BY <2>2 DEF Positions, Reads
      <3>2. Live(t) /\ Live(primary[w])
        BY <1>2, <2>2, WalkIsNot DEF Positions, Reads
      <3> QED BY <2>2, <3>1, <3>2 DEF Bears
    <2> QED BY <2>1, <2>2, PrimaryCases DEF Base
  <1>4. \A r : InPrimary(r)' = InPrimary(r)
    <2>1. PICK x : Becomes(primary, primary', w, x) /\ \A r : Bears(x, r) = Bears(primary[w], r)
      BY <1>3
    <2> TAKE r
    <2>2. InPrimary(r)' + Bears(primary[w], r) = InPrimary(r) + Bears(x, r)
      BY <2>1, SlotChanges DEF InPrimary
    <2>3. InPrimary(r) \in Nat /\ InPrimary(r)' \in Nat
      <3>1. Becomes(primary', primary', w, primary'[w]) /\ Becomes(primary, primary, w, primary[w])
        BY DEF Becomes
      <3> QED BY <3>1, SlotChanges DEF InPrimary
    <2>4. Bears(primary[w], r) \in Nat /\ Bears(x, r) = Bears(primary[w], r)
      BY <2>1 DEF Bears, One
    <2> QED BY ONLY <2>2, <2>3, <2>4
  <1>5. \A r : Walk(r)' = Walk(r)
    BY <1>1, <1>4, SameCounts DEF Walk, queues, l1Vars
  <1>6. \A r : Unsent(r)' = Unsent(r) /\ Wait(r)' = Wait(r) /\ Ended(r)' = Ended(r)
    BY <1>1, WaitSame, EndedSame, SameCounts DEF tlbVars, queues
  <1> QED BY <1>1, <1>5, <1>6 DEF Kept

(* A secondary walk stays the walk of its request. *)
LEMMA MoveWalkSecondary ==
    ASSUME Base, NEW w \in Walker, WalkSecondary(w)
    PROVE  Kept /\ IsFiniteSet(l1Blocks')
  <1> DEFINE t == Positioned(secondary[w])
             b == [req |-> t.req, address |-> AddOffset(t.ppn, t.vAddr),
                    level |-> t.level, msgID |-> t.msgID]
             s == secondary[w].req
  <1>1. UNCHANGED <<tlbVars, toTop, queues, primary, numInflightPTWRequests, topSender, toCache>>
    BY DEF WalkSecondary
  <1>2. secondary[w] \in Trans
    BY DEF WalkSecondary, Base, TypeOK
  <1>3. t \in Trans /\ t.req = s /\ t.state = secondary[w].state
    BY <1>2, PositionedType
  <1>4. b.req = s
    BY <1>3
  <1>5. \/ /\ secondary[w].state = "transactionFinished"
           /\ secondary' = [secondary EXCEPT ![w] = NoTrans] /\ l1Blocks' = l1Blocks
        \/ /\ secondary[w].state # "transactionFinished"
           /\ \/ secondary' = [secondary EXCEPT ![w] = NoTrans] /\ l1Blocks' = l1Blocks \cup {b}
              \/ secondary' = [secondary EXCEPT ![w] = t] /\ l1Blocks' = l1Blocks
    BY DEF WalkSecondary, SendWriteReqToL1V
  <1> HIDE DEF t, b
  <1>6. /\ secondary' = [secondary EXCEPT ![w] = NoTrans] => Becomes(secondary, secondary', w, NoTrans)
        /\ secondary' = [secondary EXCEPT ![w] = t] => Becomes(secondary, secondary', w, t)
    <2>1. secondary \in [Walker -> Trans \cup {NoTrans}]
      BY DEF Base, TypeOK
    <2>2. \A x : Becomes(secondary, [secondary EXCEPT ![w] = x], w, x)
      BY <2>1, ExceptBecomes
    <2> QED BY ONLY <2>2
  <1>7. \A r : /\ InSecondary(r) \in Nat /\ InSecondary(r)' \in Nat
               /\ \A x : Becomes(secondary, secondary', w, x)
                    => InSecondary(r)' + Bears(secondary[w], r) = InSecondary(r) + Bears(x, r)
    <2>1. Becomes(secondary', secondary', w, secondary'[w]) /\ Becomes(secondary, secondary, w, secondary[w])
      BY DEF Becomes
    <2> QED BY <2>1, SlotChanges DEF InSecondary
  <1>8. \A r : Bears(NoTrans, r) = 0
    BY NoTransNotLive DEF Bears, One
  <1>9. IsFiniteSet(l1Blocks)
    BY DEF Base, Finite
  <1>10. /\ IsFiniteSet(l1Blocks')
         /\ \A r : InL1(r)' + InSecondary(r)' = InL1(r) + InSecondary(r)
    <2>1. CASE /\ secondary[w].state = "transactionFinished"
               /\ secondary' = [secondary EXCEPT ![w] = NoTrans] /\ l1Blocks' = l1Blocks
      <3>1. \A r : Bears(secondary[w], r) = 0
        BY <1>2, <2>1, WalkIsNot DEF Bears, One
      <3>2. \A r : InSecondary(r)' = InSecondary(r)
        <4> TAKE r
        <4>1. InSecondary(r)' + Bears(secondary[w], r) = InSecondary(r) + Bears(NoTrans, r)
          BY <1>6, <1>7, <2>1
        <4> QED BY <1>7, <1>8, <3>1, <4>1
      <3> QED BY <1>9, <2>1, <3>2, SameCounts
    <2>2. CASE /\ secondary[w].state # "transactionFinished"
               /\ secondary' = [secondary EXCEPT ![w] = t] /\ l1Blocks' = l1Blocks
      <3>1. \A r : Bears(secondary[w], r) = Bears(t, r) /\ Bears(t, r) \in Nat
        BY <1>2, <1>3, <2>2, WalkIsNot DEF Bears, One
      <3>2. \A r : InSecondary(r)' = InSecondary(r)
        <4> TAKE r
        <4>1. InSecondary(r)' + Bears(secondary[w], r) = InSecondary(r) + Bears(t, r)
          BY <1>6, <1>7, <2>2
        <4> QED BY <1>7, <3>1, <4>1
      <3> QED BY <1>9, <2>2, <3>2, SameCounts
    <2>3. CASE /\ secondary[w].state # "transactionFinished"
               /\ secondary' = [secondary EXCEPT ![w] = NoTrans] /\ l1Blocks' = l1Blocks \cup {b}
      <3>1. Live(secondary[w])
        BY <1>2, <2>3, WalkIsNot
      <3>2. \A r : Bears(secondary[w], r) = One(s = r) /\ One(s = r) \in Nat
        BY <3>1 DEF Bears, One
      <3>3. b \notin l1Blocks
        <4>1. InSecondary(s) >= 1 /\ s \in Req
          BY <1>2, <3>1, SecondaryCounted
        <4>2. /\ InPrimary(s) + InSecondary(s) + InRspQueue(s) + InL1(s) + InToCache(s) <= 1
              /\ InPrimary(s) \in Nat /\ InSecondary(s) \in Nat /\ InRspQueue(s) \in Nat
              /\ InL1(s) \in Nat /\ InToCache(s) \in Nat
          BY <4>1, OnePlace
        <4>3. InL1(s) = 0
          BY ONLY <4>1, <4>2
        <4>4. OccBlock(l1Blocks, s) = {}
          BY <4>3, OccFinite, CountZero DEF InL1, Base, Finite
        <4> QED BY <1>4, <4>4 DEF OccBlock
      <3>4. \A r : /\ Cardinality(OccBlock(l1Blocks, r)) \in Nat
                   /\ Cardinality(OccBlock(l1Blocks \cup {b}, r))
                        = Cardinality(OccBlock(l1Blocks, r)) + One(b.req = r)
        <4> TAKE r
        <4>1. /\ Cardinality(OccBlock(l1Blocks, r)) \in Nat
              /\ Cardinality(OccBlock(l1Blocks \cup {b}, r))
                   = Cardinality(OccBlock(l1Blocks, r)) + Of(b, r)
          BY <1>9, <3>3, BlockAdded
        <4> QED BY <4>1 DEF Of
      <3>5. \A r : InL1(r) \in Nat /\ InL1(r)' = InL1(r) + One(s = r)
        BY <1>4, <2>3, <3>4 DEF InL1
      <3>6. \A r : InSecondary(r)' + One(s = r) = InSecondary(r)
        <4> TAKE r
        <4>1. InSecondary(r)' + Bears(secondary[w], r) = InSecondary(r) + Bears(NoTrans, r)
          BY <1>6, <1>7, <2>3
        <4>2. InSecondary(r)' \in Nat /\ Bears(NoTrans, r) = 0 /\ InSecondary(r) \in Nat
          BY <1>7, <1>8
        <4>3. Bears(secondary[w], r) = One(s = r) /\ One(s = r) \in Nat
          BY <3>2
        <4> QED BY ONLY <4>1, <4>2, <4>3
      <3>7. IsFiniteSet(l1Blocks')
        BY <1>9, <2>3, FS_AddElement
      <3>8. \A r : InL1(r)' + InSecondary(r)' = InL1(r) + InSecondary(r)
        <4> TAKE r
        <4>1. InL1(r) \in Nat /\ InSecondary(r)' \in Nat /\ One(s = r) \in Nat
          BY <1>7, <3>2, <3>5
        <4>2. InL1(r)' = InL1(r) + One(s = r) /\ InSecondary(r)' + One(s = r) = InSecondary(r)
          BY <3>5, <3>6
        <4> QED BY ONLY <4>1, <4>2
      <3> QED BY <3>7, <3>8
    <2> QED BY <1>5, <2>1, <2>2, <2>3
  <1>11. \A r : InL1(r)' \in Nat
    BY <1>10, CountZero, FS_Subset DEF InL1, OccBlock
  <1>12. \A r : Walk(r)' = Walk(r)
    <2> TAKE r
    <2>1. InPrimary(r)' = InPrimary(r) /\ InRspQueue(r)' = InRspQueue(r) /\ InToCache(r)' = InToCache(r)
      BY <1>1, SameCounts DEF queues
    <2>2. /\ InPrimary(r) \in Nat /\ InRspQueue(r) \in Nat /\ InToCache(r) \in Nat /\ InL1(r) \in Nat
      BY CountTypes DEF Base, Finite
    <2>3. InL1(r)' + InSecondary(r)' = InL1(r) + InSecondary(r)
      BY <1>10
    <2>4. InSecondary(r) \in Nat /\ InSecondary(r)' \in Nat /\ InL1(r)' \in Nat
      BY <1>7, <1>11
    <2> QED BY ONLY <2>1, <2>2, <2>3, <2>4 DEF Walk
  <1>13. \A r : Unsent(r)' = Unsent(r) /\ Wait(r)' = Wait(r) /\ Ended(r)' = Ended(r)
    BY <1>1, WaitSame, EndedSame, SameCounts DEF tlbVars, queues
  <1> QED BY <1>1, <1>10, <1>12, <1>13 DEF Kept

(* Every step hands over one request at most. *)
LEMMA Moves ==
    ASSUME Base, IDsMatch, FinishedGone, ReadsCounted, [Next]_vars
    PROVE  /\ Kept \/ \E s \in Req : Asked(s) \/ Begun(s) \/ Completed(s)
           /\ IsFiniteSet(l1Blocks') /\ IsFiniteSet(memReads')
  <1>0. IsFiniteSet(l1Blocks) /\ IsFiniteSet(memReads)
    BY DEF Base, Finite
  <1>1. ASSUME NEW r \in Req, TLBSends(r)
        PROVE  Asked(r) /\ UNCHANGED <<l1Blocks, memReads>>
    BY <1>1, MoveTLBSends DEF TLBSends, memVars, l1Vars
  <1>2. CASE TLBReceives
    BY <1>0, <1>2, MoveTLBReceives DEF TLBReceives, memVars, l1Vars
  <1>3. ASSUME NEW read \in memReads, MemAnswers(read)
        PROVE  Kept /\ IsFiniteSet(l1Blocks') /\ IsFiniteSet(memReads')
    BY <1>0, <1>3, MoveMemAnswers, FS_RemoveElement DEF MemAnswers, l1Vars
  <1>4. ASSUME NEW block \in l1Blocks, L1Answers(block)
        PROVE  Kept /\ IsFiniteSet(l1Blocks') /\ IsFiniteSet(memReads')
    BY <1>0, <1>4, MoveL1Answers DEF L1Answers, memVars
  <1>5. CASE TopSenderTick
    BY <1>0, <1>5, MoveTopSender DEF TopSenderTick, memVars, l1Vars
  <1>6. CASE ProcessPageWalkReqQueue
    BY <1>0, <1>6, MoveReqQueue DEF ProcessPageWalkReqQueue, memVars, l1Vars
  <1>7. CASE ProcessPageWalkRspQueue
    BY <1>0, <1>7, MoveRspQueue DEF ProcessPageWalkRspQueue, memVars, l1Vars
  <1>8. CASE ParseFromMem
    BY <1>0, <1>8, MoveFromMem DEF ParseFromMem, l1Vars
  <1>9. CASE ParseFromL1
    BY <1>0, <1>9, MoveFromL1 DEF ParseFromL1, memVars
  <1>10. CASE ParseFromTop
    BY <1>0, <1>10, MoveFromTop DEF ParseFromTop, memVars, l1Vars
  <1>11. ASSUME NEW w \in Walker, WalkPrimary(w)
         PROVE  Kept /\ IsFiniteSet(l1Blocks') /\ IsFiniteSet(memReads')
    <2>1. memReads' = memReads \/ \E read : memReads' = memReads \cup {read}
      BY <1>11, PrimaryCases DEF Drops, Positions, Reads, Base
    <2>2. IsFiniteSet(memReads')
      BY <1>0, <2>1, FS_AddElement
    <2> QED BY <1>0, <1>11, <2>2, MoveWalkPrimary DEF WalkPrimary, l1Vars
  <1>12. ASSUME NEW w \in Walker, WalkSecondary(w)
         PROVE  Kept /\ IsFiniteSet(l1Blocks') /\ IsFiniteSet(memReads')
    BY <1>0, <1>12, MoveWalkSecondary DEF WalkSecondary, memVars
  <1>13. ASSUME NEW w \in Walker, WalkerSleeps(w)
         PROVE  Kept /\ IsFiniteSet(l1Blocks') /\ IsFiniteSet(memReads')
    BY <1>0, <1>13, WaitSame, WalkSame, EndedSame, SameCounts
    DEF Kept, WalkerSleeps, tlbVars, queues, memVars, l1Vars
  <1>14. CASE UNCHANGED vars
    BY <1>0, <1>14, WaitSame, WalkSame, EndedSame, SameCounts
    DEF Kept, vars, tlbVars, queues, walkers, memVars, l1Vars
  <1> QED
    BY <1>0, <1>1, <1>2, <1>3, <1>4, <1>5, <1>6, <1>7, <1>8, <1>9, <1>10, <1>11, <1>12, <1>13, <1>14
    DEF Next, Tick, OtherEvent, WalkerTick

(* What the TLB waits for, and what it was told. *)
LEMMA PromisedIs ==
    ASSUME TypeOK, IsFiniteSet(l1Blocks), IsFiniteSet(memReads), NEW r
    PROVE  /\ r \in Queued <=> Wait(r) >= 1
           /\ r \in Responding \cup answered <=> Ended(r) >= 1
  <1>1. /\ r \in Queued <=> OccReq(toTop, r) # {} \/ OccReq(pageWalkReqQueue, r) # {}
        /\ r \in Responding <=> OccReq(topSender, r) # {} \/ OccReq(topEnd, r) # {}
    BY DEF Queued, Responding, OccReq
  <1>2. /\ InToTop(r) # 0 <=> OccReq(toTop, r) # {}
        /\ InReqQueue(r) # 0 <=> OccReq(pageWalkReqQueue, r) # {}
        /\ InTopSender(r) # 0 <=> OccReq(topSender, r) # {}
        /\ InTopEnd(r) # 0 <=> OccReq(topEnd, r) # {}
    BY OccFinite, CountZero DEF InToTop, InReqQueue, InTopSender, InTopEnd
  <1>3. /\ InToTop(r) \in Nat /\ InReqQueue(r) \in Nat
        /\ InTopSender(r) \in Nat /\ InTopEnd(r) \in Nat
    BY CountTypes
  <1>4. /\ Wait(r) >= 1 <=> InToTop(r) # 0 \/ InReqQueue(r) # 0
        /\ Ended(r) >= 1 <=> InTopSender(r) # 0 \/ InTopEnd(r) # 0 \/ r \in answered
    BY ONLY <1>3 DEF Wait, Ended, One
  <1> QED BY <1>1, <1>2, <1>4

(* The counts after a step. *)
Countable == TypeOK /\ IsFiniteSet(l1Blocks) /\ IsFiniteSet(memReads)

Summed ==
    /\ \A r : r \in Walking <=> Walk(r) >= 1
    /\ \A r : r \in Queued <=> Wait(r) >= 1
    /\ \A r : r \in Responding \cup answered <=> Ended(r) >= 1
    /\ \A r : Unsent(r) \in Nat /\ Wait(r) \in Nat /\ Walk(r) \in Nat /\ Ended(r) \in Nat
    /\ \A r : Places(r) = Unsent(r) + Wait(r) + Walk(r) + Ended(r)

(* The counts add up after the step, too. *)
LEMMA CountedNext == (Countable => Summed)'
  <1>1. Countable => Summed
    BY WalkingIs, PromisedIs, CountTypes, PlacesAre DEF Countable, Summed
  <1> QED BY <1>1, PTL

(* A walk begins or ends for one request, which was not walked or is not   *)
(* any more: the count of walks follows.                                   *)
LEMMA CountStep ==
    ASSUME IInv, [Next]_vars
    PROVE  TypeOK' /\ Finite' /\ EachRequestOnce' /\ InflightCounted'
  <1>1. Base /\ IDsMatch /\ FinishedGone /\ ReadsCounted /\ InflightCounted
    BY DEF IInv, Base
  <1>2. /\ Kept \/ \E s \in Req : Asked(s) \/ Begun(s) \/ Completed(s)
        /\ IsFiniteSet(l1Blocks') /\ IsFiniteSet(memReads')
    BY <1>1, Moves
  <1>3. /\ TypeOK /\ IsFiniteSet(Walking) /\ IsFiniteSet(l1Blocks) /\ IsFiniteSet(memReads)
        /\ numInflightPTWRequests = Cardinality(Walking)
    BY <1>1 DEF Base, Finite, InflightCounted
  <1>4. \A r : r \in Walking <=> Walk(r) >= 1
    BY <1>3, WalkingIs
  <1>5. Cardinality(Walking) \in Nat
    BY <1>3, CountZero
  <1>6. \A r : Unsent(r) \in Nat /\ Wait(r) \in Nat /\ Walk(r) \in Nat /\ Ended(r) \in Nat
    BY <1>3, CountTypes
  <1>7. \A r \in Req : Unsent(r) + Wait(r) + Walk(r) + Ended(r) = 1
    BY <1>1, OnePlace
  <1>8. TypeOK'
    <2>1. ASSUME NEW s \in Req, Completed(s) PROVE numInflightPTWRequests >= 1
      <3>1. s \in Walking
        BY <1>4, <2>1 DEF Completed
      <3>2. Cardinality(Walking) # 0
        BY <1>3, <3>1, CountZero
      <3> QED BY <1>3, <1>5, <3>2
    <2>2. numInflightPTWRequests \in Nat
      BY <1>3, <1>5
    <2>3. Counted'
      BY <1>2, <2>1, <2>2 DEF Counted, Kept, Asked, Begun, Completed
    <2> QED BY <1>3, <2>3, TypeStep
  <1>9. \A r : (r \in Walking)' <=> Walk(r)' >= 1
    BY <1>2, <1>8, CountedNext DEF Countable, Summed
  <1>10. \A r : Unsent(r)' \in Nat /\ Wait(r)' \in Nat /\ Walk(r)' \in Nat /\ Ended(r)' \in Nat
    BY <1>2, <1>8, CountedNext DEF Countable, Summed
  <1>11. \A r : Places(r)' = Unsent(r)' + Wait(r)' + Walk(r)' + Ended(r)'
    BY <1>2, <1>8, CountedNext DEF Countable, Summed
  <1>12. EachRequestOnce'
    <2>1. ASSUME NEW r \in Req PROVE Unsent(r)' + Wait(r)' + Walk(r)' + Ended(r)' = 1
      <3>1. /\ Unsent(r) + Wait(r) + Walk(r) + Ended(r) = 1
            /\ Unsent(r) \in Nat /\ Wait(r) \in Nat /\ Walk(r) \in Nat /\ Ended(r) \in Nat
            /\ Unsent(r)' \in Nat /\ Wait(r)' \in Nat /\ Walk(r)' \in Nat /\ Ended(r)' \in Nat
        BY <1>6, <1>7, <1>10
      <3>2. CASE Kept
        BY ONLY <3>1, <3>2 DEF Kept
      <3>3. ASSUME NEW s \in Req, Asked(s) \/ Begun(s) \/ Completed(s)
            PROVE  Unsent(r)' + Wait(r)' + Walk(r)' + Ended(r)' = 1
        <4>1. One(r = s) \in Nat
          BY DEF One
        <4>2. CASE Asked(s)
          BY ONLY <3>1, <4>1, <4>2 DEF Asked
        <4>3. CASE Begun(s)
          BY ONLY <3>1, <4>1, <4>3 DEF Begun
        <4>4. CASE Completed(s)
          BY ONLY <3>1, <4>1, <4>4 DEF Completed
        <4> QED BY <3>3, <4>2, <4>3, <4>4
      <3> QED BY <1>2, <3>2, <3>3
    <2> QED BY <1>11, <2>1 DEF EachRequestOnce
  <1>13. IsFiniteSet(Walking)' /\ InflightCounted'
    <2>1. CASE Kept \/ \E s \in Req : Asked(s)
      <3>1. /\ \A r : Walk(r)' = Walk(r)
            /\ numInflightPTWRequests' = numInflightPTWRequests
        BY <2>1 DEF Kept, Asked
      <3>2. Walking' = Walking
        BY <1>4, <1>9, <3>1
      <3> QED BY <1>3, <3>1, <3>2 DEF InflightCounted
    <2>2. ASSUME NEW s \in Req, Begun(s) PROVE IsFiniteSet(Walking)' /\ InflightCounted'
      <3>1. /\ Wait(s) = Wait(s)' + 1 /\ Walk(s)' = Walk(s) + 1
            /\ \A r : r # s => Walk(r)' = Walk(r)
            /\ numInflightPTWRequests' = numInflightPTWRequests + 1
        BY <1>6, <2>2 DEF Begun, One
      <3>2. Walk(s) = 0 /\ Walk(s)' = 1
        <4>1. /\ Unsent(s) + Wait(s) + Walk(s) + Ended(s) = 1
              /\ Unsent(s) \in Nat /\ Wait(s) \in Nat /\ Walk(s) \in Nat /\ Ended(s) \in Nat
              /\ Wait(s)' \in Nat
          BY <1>6, <1>7, <1>10
        <4> QED BY ONLY <3>1, <4>1
      <3>3. s \notin Walking /\ (s \in Walking)' /\ \A r : r # s => ((r \in Walking)' <=> r \in Walking)
        BY <1>4, <1>9, <3>1, <3>2
      <3>4. Walking' = Walking \cup {s} /\ s \notin Walking
        BY <3>3
      <3> QED BY <1>3, <3>1, <3>4, FS_AddElement DEF InflightCounted
    <2>3. ASSUME NEW s \in Req, Completed(s) PROVE IsFiniteSet(Walking)' /\ InflightCounted'
      <3>1. /\ Walk(s) = Walk(s)' + 1 /\ Walk(s) >= 1
            /\ \A r : r # s => Walk(r) = Walk(r)'
            /\ numInflightPTWRequests' = numInflightPTWRequests - 1
        BY <1>6, <1>10, <2>3 DEF Completed, One
      <3>2. Walk(s)' = 0
        <4>1. /\ Unsent(s) + Wait(s) + Walk(s) + Ended(s) = 1
              /\ Unsent(s) \in Nat /\ Wait(s) \in Nat /\ Walk(s) \in Nat /\ Ended(s) \in Nat
              /\ Walk(s)' \in Nat
          BY <1>6, <1>7, <1>10
        <4> QED BY ONLY <3>1, <4>1
      <3>3. s \in Walking /\ ~(s \in Walking)' /\ \A r : r # s => ((r \in Walking)' <=> r \in Walking)
        BY <1>4, <1>9, <3>1, <3>2
      <3>4. Walking' = Walking \ {s} /\ s \in Walking
        BY <3>3
      <3> QED BY <1>3, <3>1, <3>4, FS_RemoveElement DEF InflightCounted
    <2> QED BY <1>2, <2>1, <2>2, <2>3
  <1> QED BY <1>2, <1>8, <1>12, <1>13 DEF Finite

(* A request that was answered stays answered. *)
LEMMA GoneStays ==
    ASSUME IInv, [Next]_vars, NEW r, Gone(r)
    PROVE  Gone(r)'
  <1>1. Base /\ IDsMatch /\ FinishedGone /\ ReadsCounted
    BY DEF IInv, Base
  <1>2. Kept \/ \E s \in Req : Asked(s) \/ Begun(s) \/ Completed(s)
    BY <1>1, Moves
  <1>3. Ended(r) \in Nat /\ Ended(r) >= 1
    BY <1>1, CountTypes DEF Gone, Ended, Base, Finite
  <1>4. Ended(r)' >= 1
    BY <1>2, <1>3 DEF Kept, Asked, Begun, Completed, One
  <1> QED BY <1>4 DEF Gone, Ended

-----------------------------------------------------------------------------
(* Finished walks. *)

IsOver(x, r) == x.state = "transactionFinished" /\ x.req = r

Over(r) ==
    \/ \E w \in Walker : IsOver(primary[w], r) \/ IsOver(secondary[w], r)
    \/ \E i \in DOMAIN pageWalkRspQueue : IsOver(pageWalkRspQueue[i], r)

(* A finished walk anywhere means that its request was answered. *)
LEMMA FinishedGoneIs == FinishedGone <=> \A r : Over(r) => Gone(r)
  BY DEF FinishedGone, Over, IsOver

(* An empty slot is no finished walk. *)
LEMMA EmptyNotOver == \A r : ~IsOver(NoTrans, r)
  BY DEF IsOver, NoTrans

(* A slot that is filled with a walk does not hold a finished one unless   *)
(* that walk is finished.                                                  *)
LEMMA FillsOver ==
    ASSUME TypeOK, NEW w \in Walker, NEW t \in Trans, Fills(w, t), NEW r, NEW v \in Walker,
           IsOver(primary'[v], r) \/ IsOver(secondary'[v], r)
    PROVE  IsOver(t, r) \/ IsOver(primary[v], r) \/ IsOver(secondary[v], r)
  <1>1. /\ primary' = primary \/ primary' = [primary EXCEPT ![w] = t]
        /\ secondary' = secondary \/ secondary' = [secondary EXCEPT ![w] = t]
    BY DEF Fills
  <1>2. /\ primary'[v] = primary[v] \/ primary'[v] = t
        /\ secondary'[v] = secondary[v] \/ secondary'[v] = t
    BY <1>1 DEF TypeOK
  <1> QED BY <1>2

(* A walk is finished when its answer is in the buffer of topSender. *)
LEMMA EntryOver ==
    ASSUME Base, NEW t \in Trans, t.state # "transactionFinished", EntryRead(t), NEW r,
           IsOver(Advanced(t), r), answered' = answered, topEnd' = topEnd
    PROVE  Gone(r)'
  <1>1. Finalizes(t) /\ t.req = r
    BY AdvancedType DEF IsOver
  <1>2. InTopSender(r)' = InTopSender(r) + 1
    BY <1>1, EntryMoves DEF One
  <1>3. InTopSender(r) \in Nat /\ InTopEnd(r) \in Nat /\ InTopEnd(r)' = InTopEnd(r)
    BY CountTypes, SameCounts DEF Base, Finite
  <1> QED BY <1>2, <1>3 DEF Gone, One

(* A step that finishes a walk answers its request. *)
LEMMA OverStep ==
    ASSUME IInv, [Next]_vars, NEW r, Over(r)'
    PROVE  Over(r) \/ Gone(r)'
  <1>1. Base /\ TypeOK /\ IDsMatch /\ FinishedGone /\ ReadsCounted
    BY DEF IInv, Base
  <1>2. CASE UNCHANGED <<primary, secondary, pageWalkRspQueue>>
    BY <1>2 DEF Over
  <1>3. CASE ProcessPageWalkReqQueue
    <2>1. ASSUME pageWalkReqQueue # <<>>, NEW w \in Walker, Fills(w, NewWalk(Head(pageWalkReqQueue)))
          PROVE  Over(r)
      <3> DEFINE t == NewWalk(Head(pageWalkReqQueue))
      <3>1. t \in Trans /\ t.state = "pageWalkCacheDone"
        <4>1. Head(pageWalkReqQueue) \in TopReq
          BY <1>1, <2>1, QueueTypes, TailAt
        <4> QED BY <4>1, NewWalkType
      <3>2. Fills(w, t)
        BY <2>1
      <3> HIDE DEF t
      <3>3. ~IsOver(t, r)
        BY <3>1 DEF IsOver
      <3>4. pageWalkRspQueue' = pageWalkRspQueue
        BY <1>3 DEF ProcessPageWalkReqQueue
      <3> QED BY <1>1, <3>1, <3>2, <3>3, <3>4, FillsOver DEF Over
    <2> QED BY <1>1, <1>2, <1>3, <2>1, ReqQueueCases DEF walkers, ProcessPageWalkReqQueue
  <1>4. CASE ProcessPageWalkRspQueue
    <2>1. ASSUME pageWalkRspQueue # <<>>, pageWalkRspQueue' = Tail(pageWalkRspQueue),
                 NEW w \in Walker, Fills(w, Head(pageWalkRspQueue))
          PROVE  Over(r)
      <3> DEFINE t == Head(pageWalkRspQueue)
      <3>1. /\ t \in Trans /\ 1 \in DOMAIN pageWalkRspQueue /\ pageWalkRspQueue[1] = t
            /\ \A i \in DOMAIN pageWalkRspQueue' :
                  i + 1 \in DOMAIN pageWalkRspQueue /\ pageWalkRspQueue'[i] = pageWalkRspQueue[i + 1]
        BY <1>1, <2>1, QueueTypes, TailAt
      <3>2. Fills(w, t)
        BY <2>1
      <3> HIDE DEF t
      <3> QED BY <1>1, <3>1, <3>2, FillsOver DEF Over
    <2> QED BY <1>1, <1>2, <1>4, <2>1, RspQueueCases DEF walkers
  <1>5. CASE ParseFromMem
    <2>1. ASSUME translationPort # <<>>, secondary' = secondary,
                 NEW w \in Walker, primary[w] # NoTrans, EntryRead(MemTrans(w)),
                 primary' = [primary EXCEPT ![w] = Advanced(MemTrans(w))]
          PROVE  Over(r) \/ Gone(r)'
      <3> DEFINE t == MemTrans(w)
                 u == Advanced(t)
      <3>1. t \in Trans /\ t.state = "memDone"
        BY <1>1, <2>1, MemTransType
      <3>2. pageWalkRspQueue' = pageWalkRspQueue /\ answered' = answered /\ topEnd' = topEnd
        BY <1>5 DEF ParseFromMem, queues, tlbVars
      <3>3. \A v \in Walker : primary'[v] = primary[v] \/ primary'[v] = u
        BY <1>1, <2>1 DEF TypeOK
      <3>4. EntryRead(t)
        BY <2>1
      <3> HIDE DEF t
      <3>5. IsOver(u, r) => Gone(r)'
        BY <1>1, <3>1, <3>2, <3>4, EntryOver
      <3> HIDE DEF u
      <3> QED BY <2>1, <3>2, <3>3, <3>5 DEF Over
    <2> QED BY <1>1, <1>2, <1>5, <2>1, MemCases DEF walkers, queues, ParseFromMem
  <1>6. CASE ParseFromL1
    <2>1. ASSUME toCache # <<>>, EntryRead(L1Trans),
                 pageWalkRspQueue' = Append(pageWalkRspQueue, Advanced(L1Trans))
          PROVE  Over(r) \/ Gone(r)'
      <3> DEFINE t == L1Trans
                 u == Advanced(t)
      <3>1. t \in Trans /\ t.state = "l1Done"
        BY <1>1, <2>1, L1TransType
      <3>2. primary' = primary /\ secondary' = secondary /\ answered' = answered /\ topEnd' = topEnd
        BY <1>6 DEF ParseFromL1, walkers, tlbVars
      <3>3. u \in Trans
        BY <3>1, AdvancedType
      <3>4. EntryRead(t) /\ pageWalkRspQueue' = Append(pageWalkRspQueue, u)
        BY <2>1
      <3> HIDE DEF t
      <3>5. IsOver(u, r) => Gone(r)'
        BY <1>1, <3>1, <3>2, <3>4, EntryOver
      <3> HIDE DEF u
      <3>6. \A i \in DOMAIN pageWalkRspQueue' :
               \/ i \in DOMAIN pageWalkRspQueue /\ pageWalkRspQueue'[i] = pageWalkRspQueue[i]
               \/ pageWalkRspQueue'[i] = u
        BY <1>1, <3>3, <3>4, QueueTypes, AppendAt
      <3> QED BY <3>2, <3>5, <3>6 DEF Over
    <2> QED BY <1>1, <1>2, <1>6, <2>1, L1Cases DEF walkers, ParseFromL1
  <1>7. ASSUME NEW w \in Walker, WalkPrimary(w) PROVE Over(r)
    <2>1. secondary' = secondary /\ pageWalkRspQueue' = pageWalkRspQueue
      BY <1>7 DEF WalkPrimary, queues
    <2>2. \E x : Becomes(primary, primary', w, x) /\ ~IsOver(x, r)
      BY <1>1, <1>7, PrimaryCases, EmptyNotOver DEF Drops, Positions, Reads, IsOver
    <2>3. \A v \in Walker : IsOver(primary'[v], r) => IsOver(primary[v], r)
      BY <2>2 DEF Becomes
    <2> QED BY <2>1, <2>3 DEF Over
  <1>8. ASSUME NEW w \in Walker, WalkSecondary(w) PROVE Over(r)
    <2> DEFINE t == Positioned(secondary[w])
    <2>1. primary' = primary /\ pageWalkRspQueue' = pageWalkRspQueue
      BY <1>8 DEF WalkSecondary, queues
    <2>2. secondary[w] \in Trans
      BY <1>1, <1>8 DEF WalkSecondary, TypeOK
    <2>3. t.state = secondary[w].state /\ t.req = secondary[w].req
      BY <2>2, PositionedType
    <2>4. secondary' = [secondary EXCEPT ![w] = NoTrans] \/ secondary' = [secondary EXCEPT ![w] = t]
      BY <1>8 DEF WalkSecondary, SendWriteReqToL1V
    <2> HIDE DEF t
    <2>5. \A v \in Walker : \/ secondary'[v] = secondary[v]
                            \/ secondary'[v] = NoTrans
                            \/ v = w /\ secondary'[v] = t
      BY <1>1, <2>4 DEF TypeOK
    <2>6. \A v \in Walker : IsOver(secondary'[v], r) => IsOver(secondary[v], r)
      BY <2>3, <2>5, EmptyNotOver DEF IsOver
    <2> QED BY <2>1, <2>6 DEF Over
  <1>9. \/ UNCHANGED <<primary, secondary, pageWalkRspQueue>>
        \/ ProcessPageWalkReqQueue \/ ProcessPageWalkRspQueue \/ ParseFromMem \/ ParseFromL1
        \/ \E w \in Walker : WalkPrimary(w) \/ WalkSecondary(w)
    BY DEF Next, Tick, OtherEvent, WalkerTick, TLBSends, TLBReceives, MemAnswers, L1Answers,
           TopSenderTick, ParseFromTop, WalkerSleeps, vars, queues, walkers
  <1> QED BY <1>2, <1>3, <1>4, <1>5, <1>6, <1>7, <1>8, <1>9

(* Every step keeps FinishedGone. *)
LEMMA FinishedStep ==
    ASSUME IInv, [Next]_vars
    PROVE  FinishedGone'
  <1>1. \A r : Over(r) => Gone(r)
    BY FinishedGoneIs DEF IInv
  <1>2. \A r : Over(r)' => Gone(r)'
    BY <1>1, OverStep, GoneStays
  <1>3. (FinishedGone <=> \A r : Over(r) => Gone(r))'
    BY FinishedGoneIs, PTL
  <1> QED BY <1>2, <1>3

-----------------------------------------------------------------------------
(* Walkers are awake. *)

LEMMA AwakeStep ==
    ASSUME IInv, [Next]_vars
    PROVE  WalkerAwake'
  <1>1. TypeOK /\ WalkerAwake
    BY DEF IInv
  <1>2. awake \in [Walker -> BOOLEAN] /\ primary \in [Walker -> Trans \cup {NoTrans}]
        /\ secondary \in [Walker -> Trans \cup {NoTrans}]
    BY <1>1 DEF TypeOK
  <1>3. CASE UNCHANGED walkers
    BY <1>1, <1>3 DEF WalkerAwake, PrimaryRuns, walkers
  <1>4. ASSUME NEW w \in Walker, NEW t, Fills(w, t) PROVE WalkerAwake'
    <2>1. \A v \in Walker : v # w => /\ primary'[v] = primary[v] /\ secondary'[v] = secondary[v]
                                     /\ awake'[v] = awake[v]
      BY <1>2, <1>4 DEF Fills
    <2>2. awake'[w]
      BY <1>2, <1>4 DEF Fills
    <2> QED BY <1>1, <2>1, <2>2 DEF WalkerAwake, PrimaryRuns
  <1>5. CASE ProcessPageWalkReqQueue
    BY <1>1, <1>3, <1>4, <1>5, ReqQueueCases DEF walkers
  <1>6. CASE ProcessPageWalkRspQueue
    BY <1>1, <1>3, <1>4, <1>6, RspQueueCases
  <1>7. CASE ParseFromMem
    <2>1. ASSUME NEW w \in Walker, NEW x, primary' = [primary EXCEPT ![w] = x], secondary' = secondary,
                 awake' = [awake EXCEPT ![w] = TRUE]
          PROVE  WalkerAwake'
      BY <1>1, <1>2, <2>1 DEF WalkerAwake, PrimaryRuns
    <2> QED BY <1>1, <1>3, <1>7, <2>1, MemCases
  <1>8. ASSUME NEW w \in Walker, WalkPrimary(w) \/ WalkSecondary(w)
        PROVE  WalkerAwake'
    <2>1. awake' = awake /\ awake[w]
      BY <1>8 DEF WalkPrimary, WalkSecondary
    <2>2. CASE WalkPrimary(w)
      <3>1. \A v \in Walker : v # w => primary'[v] = primary[v]
        BY <1>1, <2>2, PrimaryCases DEF Drops, Positions, Reads, Becomes
      <3>2. secondary' = secondary
        BY <2>2 DEF WalkPrimary
      <3> QED BY <1>1, <2>1, <3>1, <3>2 DEF WalkerAwake, PrimaryRuns
    <2>3. CASE WalkSecondary(w)
      <3>1. \A v \in Walker : v # w => secondary'[v] = secondary[v]
        BY <1>2, <2>3 DEF WalkSecondary, SendWriteReqToL1V
      <3>2. primary' = primary
        BY <2>3 DEF WalkSecondary
      <3> QED BY <1>1, <2>1, <3>1, <3>2 DEF WalkerAwake, PrimaryRuns
    <2> QED BY <1>8, <2>2, <2>3
  <1>9. ASSUME NEW w \in Walker, WalkerSleeps(w) PROVE WalkerAwake'
    <2>1. /\ primary' = primary /\ secondary' = secondary
          /\ awake' = [awake EXCEPT ![w] = FALSE] /\ ~PrimaryRuns(w) /\ secondary[w] = NoTrans
      BY <1>9 DEF WalkerSleeps
    <2> QED BY <1>1, <1>2, <2>1 DEF WalkerAwake, PrimaryRuns
  <1>10. \/ UNCHANGED walkers
         \/ ProcessPageWalkReqQueue \/ ProcessPageWalkRspQueue \/ ParseFromMem
         \/ \E w \in Walker : WalkPrimary(w) \/ WalkSecondary(w) \/ WalkerSleeps(w)
    BY DEF Next, Tick, OtherEvent, WalkerTick, TLBSends, TLBReceives, MemAnswers, L1Answers,
           TopSenderTick, ParseFromL1, ParseFromTop, vars
  <1> QED BY <1>3, <1>5, <1>6, <1>7, <1>8, <1>9, <1>10

-----------------------------------------------------------------------------
(* IDs. *)

PrimaryID(x) == x # NoTrans => OwnID(x)
ReturnID(x)  == x # NoTrans => EarlierID(x) /\ x.state # "sentToMem"

(* IDsMatch, place by place. *)
LEMMA IDsMatchAre ==
    ASSUME TypeOK
    PROVE  IDsMatch <=> /\ \A w \in Walker : PrimaryID(primary[w]) /\ ReturnID(secondary[w])
                        /\ \A i \in DOMAIN pageWalkRspQueue : ReturnID(pageWalkRspQueue[i])
                        /\ \A b \in l1Blocks : EarlierID(b)
                        /\ \A i \in DOMAIN toCache : EarlierID(toCache[i].info)
  <1>1. \A i \in DOMAIN pageWalkRspQueue : pageWalkRspQueue[i] # NoTrans
    <2>1. \A i \in DOMAIN pageWalkRspQueue : pageWalkRspQueue[i] \in Trans
      BY ElementOfSeq, LenProperties DEF TypeOK
    <2> QED BY <2>1, WalkIsNot
  <1> QED BY <1>1 DEF IDsMatch, PrimaryID, ReturnID

(* The ID of a walk that returns is one a primary slot may hold. *)
LEMMA ReturnIsOwn ==
    ASSUME NEW x, ReturnID(x)
    PROVE  PrimaryID(x)
  BY DEF ReturnID, PrimaryID, EarlierID, OwnID

(* Filling a slot keeps the IDs of the walks. *)
LEMMA FillsID ==
    ASSUME TypeOK, NEW w \in Walker, NEW t \in Trans, Fills(w, t), ReturnID(t), NEW v \in Walker,
           PrimaryID(primary[v]), ReturnID(secondary[v])
    PROVE  PrimaryID(primary'[v]) /\ ReturnID(secondary'[v])
  <1>1. /\ primary' = primary \/ primary' = [primary EXCEPT ![w] = t]
        /\ secondary' = secondary \/ secondary' = [secondary EXCEPT ![w] = t]
    BY DEF Fills
  <1>2. /\ primary'[v] = primary[v] \/ primary'[v] = t
        /\ secondary'[v] = secondary[v] \/ secondary'[v] = t
    BY <1>1 DEF TypeOK
  <1> QED BY <1>2, ReturnIsOwn

(* An entry that was read takes the walk past the level of its last read. *)
LEMMA AdvancedID ==
    ASSUME NEW t \in Trans, t.state \notin {"sentToMem", "transactionFinished"},
           t.msgID.req = t.req, t.msgID.level <= t.level
    PROVE  ReturnID(Advanced(t))
  <1>1. /\ Advanced(t).req = t.req /\ Advanced(t).msgID = t.msgID
        /\ Advanced(t).level = t.level + 1
        /\ Advanced(t).state \in {"transactionFinished", t.state}
    BY AdvancedType
  <1>2. t.level \in Nat /\ t.msgID.level \in Int
    BY DEF Trans, MsgID
  <1> QED BY <1>1, <1>2 DEF ReturnID, EarlierID

(* Every step keeps the IDs of the walks. *)
LEMMA IDsStep ==
    ASSUME IInv, [Next]_vars
    PROVE  /\ \A w \in Walker : PrimaryID(primary'[w]) /\ ReturnID(secondary'[w])
           /\ \A i \in DOMAIN pageWalkRspQueue' : ReturnID(pageWalkRspQueue'[i])
           /\ \A b \in l1Blocks' : EarlierID(b)
           /\ \A i \in DOMAIN toCache' : EarlierID(toCache'[i].info)
  <1> DEFINE Goal == /\ \A w \in Walker : PrimaryID(primary'[w]) /\ ReturnID(secondary'[w])
                     /\ \A i \in DOMAIN pageWalkRspQueue' : ReturnID(pageWalkRspQueue'[i])
                     /\ \A b \in l1Blocks' : EarlierID(b)
                     /\ \A i \in DOMAIN toCache' : EarlierID(toCache'[i].info)
  <1> SUFFICES Goal
    OBVIOUS
  <1>1. /\ Base /\ TypeOK /\ IDsMatch /\ FinishedGone /\ ReadsCounted
        /\ \A w \in Walker : PrimaryID(primary[w]) /\ ReturnID(secondary[w])
        /\ \A i \in DOMAIN pageWalkRspQueue : ReturnID(pageWalkRspQueue[i])
        /\ \A b \in l1Blocks : EarlierID(b)
        /\ \A i \in DOMAIN toCache : EarlierID(toCache[i].info)
    BY IDsMatchAre DEF IInv, Base
  <1>2. CASE UNCHANGED <<primary, secondary, pageWalkRspQueue, l1Vars>>
    BY <1>1, <1>2 DEF l1Vars
  <1>3. ASSUME NEW block \in l1Blocks, L1Answers(block) PROVE Goal
    <2> DEFINE x == [info |-> block, data |-> Contents(block.address)]
    <2>1. x \in L1Rsp /\ x.info = block
      BY <1>1, ContentsType DEF L1Rsp, Block, TypeOK
    <2>2. /\ toCache' = Append(toCache, x) /\ l1Blocks' \subseteq l1Blocks
          /\ UNCHANGED <<primary, secondary, pageWalkRspQueue>>
      BY <1>3 DEF L1Answers, walkers, queues
    <2> HIDE DEF x
    <2>3. \A i \in DOMAIN toCache' : \/ i \in DOMAIN toCache /\ toCache'[i] = toCache[i]
                                     \/ toCache'[i] = x
      BY <1>1, <2>1, <2>2, QueueTypes, AppendAt
    <2> QED BY <1>1, <2>1, <2>2, <2>3
  <1>4. CASE ProcessPageWalkReqQueue
    <2>0. UNCHANGED <<pageWalkRspQueue, l1Vars>>
      BY <1>4 DEF ProcessPageWalkReqQueue
    <2>1. ASSUME pageWalkReqQueue # <<>>, NEW w \in Walker, Fills(w, NewWalk(Head(pageWalkReqQueue)))
          PROVE  Goal
      <3> DEFINE t == NewWalk(Head(pageWalkReqQueue))
      <3>1. t \in Trans /\ ReturnID(t)
        <4>1. Head(pageWalkReqQueue) \in TopReq
          BY <1>1, <2>1, QueueTypes, TailAt
        <4> QED BY <4>1, NewWalkType DEF ReturnID
      <3>2. Fills(w, t)
        BY <2>1
      <3> HIDE DEF t
      <3>3. \A v \in Walker : PrimaryID(primary'[v]) /\ ReturnID(secondary'[v])
        BY <1>1, <3>1, <3>2, FillsID
      <3> QED BY <1>1, <2>0, <3>3 DEF l1Vars
    <2> HIDE DEF Goal
    <2> QED BY <1>1, <1>2, <1>4, <2>0, <2>1, ReqQueueCases DEF walkers
  <1>5. CASE ProcessPageWalkRspQueue
    <2>0. UNCHANGED l1Vars
      BY <1>5 DEF ProcessPageWalkRspQueue
    <2>1. ASSUME pageWalkRspQueue # <<>>, pageWalkRspQueue' = Tail(pageWalkRspQueue),
                 NEW w \in Walker, Fills(w, Head(pageWalkRspQueue))
          PROVE  Goal
      <3> DEFINE t == Head(pageWalkRspQueue)
      <3>1. /\ t \in Trans /\ 1 \in DOMAIN pageWalkRspQueue /\ pageWalkRspQueue[1] = t
            /\ \A i \in DOMAIN pageWalkRspQueue' :
                  i + 1 \in DOMAIN pageWalkRspQueue /\ pageWalkRspQueue'[i] = pageWalkRspQueue[i + 1]
        BY <1>1, <2>1, QueueTypes, TailAt
      <3>2. Fills(w, t)
        BY <2>1
      <3>3. ReturnID(t)
        <4> HIDE DEF t
        <4> QED BY <1>1, <3>1
      <3> HIDE DEF t
      <3>4. \A v \in Walker : PrimaryID(primary'[v]) /\ ReturnID(secondary'[v])
        BY <1>1, <3>1, <3>2, <3>3, FillsID
      <3>5. \A i \in DOMAIN pageWalkRspQueue' : ReturnID(pageWalkRspQueue'[i])
        BY <1>1, <3>1
      <3> QED BY <1>1, <2>0, <3>4, <3>5 DEF l1Vars
    <2> HIDE DEF Goal
    <2> QED BY <1>1, <1>2, <1>5, <2>0, <2>1, RspQueueCases DEF walkers
  <1>6. CASE ParseFromMem
    <2>0. UNCHANGED <<pageWalkRspQueue, l1Vars>>
      BY <1>6 DEF ParseFromMem, queues
    <2>1. ASSUME translationPort # <<>>, secondary' = secondary,
                 NEW w \in Walker, primary[w] # NoTrans,
                 primary' = [primary EXCEPT ![w] = Advanced(MemTrans(w))]
          PROVE  Goal
      <3> DEFINE t == MemTrans(w)
                 u == Advanced(t)
      <3>1. /\ t \in Trans /\ t.state = "memDone" /\ t.req = primary[w].req
            /\ t.level = primary[w].level /\ t.msgID = primary[w].msgID /\ primary[w] \in Trans
        BY <1>1, <2>1, MemTransType
      <3>2. t.msgID.req = t.req /\ t.msgID.level <= t.level
        <4>1. OwnID(primary[w]) /\ primary[w].level \in Int /\ primary[w].msgID.level \in Int
          BY <1>1, <2>1, <3>1 DEF PrimaryID, Trans, MsgID
        <4> QED BY <3>1, <4>1 DEF OwnID
      <3> HIDE DEF t
      <3>3. PrimaryID(u)
        BY <3>1, <3>2, AdvancedID, ReturnIsOwn
      <3>4. primary' = [primary EXCEPT ![w] = u]
        BY <2>1 DEF t
      <3> HIDE DEF u
      <3>5. \A v \in Walker : PrimaryID(primary'[v])
        BY <1>1, <3>3, <3>4 DEF TypeOK
      <3> QED BY <1>1, <2>0, <2>1, <3>5 DEF l1Vars
    <2> HIDE DEF Goal
    <2> QED BY <1>1, <1>2, <1>6, <2>0, <2>1, MemCases DEF walkers
  <1>7. CASE ParseFromL1
    <2>0. UNCHANGED <<walkers, l1Blocks>>
      BY <1>7 DEF ParseFromL1
    <2>1. ASSUME toCache # <<>>, toCache' = Tail(toCache),
                 pageWalkRspQueue' = Append(pageWalkRspQueue, Advanced(L1Trans))
          PROVE  Goal
      <3> DEFINE t == L1Trans
                 u == Advanced(t)
      <3>1. /\ t \in Trans /\ t.state = "l1Done" /\ t.req = Head(toCache).info.req
            /\ t.level = Head(toCache).info.level /\ t.msgID = Head(toCache).info.msgID
        BY <1>1, <2>1, L1TransType
      <3>2. /\ 1 \in DOMAIN toCache /\ toCache[1] = Head(toCache)
            /\ \A i \in DOMAIN toCache' : i + 1 \in DOMAIN toCache /\ toCache'[i] = toCache[i + 1]
        BY <1>1, <2>1, QueueTypes, TailAt
      <3>3. EarlierID(Head(toCache).info)
        BY <1>1, <3>2
      <3>4. t.msgID.req = t.req /\ t.msgID.level <= t.level
        <4>1. t.level \in Int /\ t.msgID.level \in Int
          BY <3>1 DEF Trans, MsgID
        <4> QED BY <3>1, <3>3, <4>1 DEF EarlierID
      <3>5. u \in Trans
        BY <3>1, AdvancedType
      <3>6. pageWalkRspQueue' = Append(pageWalkRspQueue, u)
        BY <2>1
      <3> HIDE DEF t
      <3>7. ReturnID(u)
        BY <3>1, <3>4, AdvancedID
      <3> HIDE DEF u
      <3>8. \A i \in DOMAIN pageWalkRspQueue' :
               \/ i \in DOMAIN pageWalkRspQueue /\ pageWalkRspQueue'[i] = pageWalkRspQueue[i]
               \/ pageWalkRspQueue'[i] = u
        BY <1>1, <3>5, <3>6, QueueTypes, AppendAt
      <3>9. \A i \in DOMAIN pageWalkRspQueue' : ReturnID(pageWalkRspQueue'[i])
        BY <1>1, <3>7, <3>8
      <3>10. \A i \in DOMAIN toCache' : EarlierID(toCache'[i].info)
        BY <1>1, <3>2
      <3> QED BY <1>1, <2>0, <3>9, <3>10 DEF walkers
    <2> HIDE DEF Goal
    <2> QED BY <1>1, <1>2, <1>7, <2>0, <2>1, L1Cases DEF walkers, l1Vars
  <1>8. ASSUME NEW w \in Walker, WalkPrimary(w) PROVE Goal
    <2>1. UNCHANGED <<secondary, pageWalkRspQueue, l1Vars>>
      BY <1>8 DEF WalkPrimary, queues
    <2>2. primary[w] \in Trans /\ primary[w].state # "sentToMem" /\ PrimaryID(primary[w])
      BY <1>1, <1>8, PrimaryCases
    <2>3. OwnID(primary[w])
      BY <2>2, WalkIsNot DEF PrimaryID
    <2>4. \E x : Becomes(primary, primary', w, x) /\ PrimaryID(x)
      <3>1. CASE Drops(w)
        BY <3>1 DEF Drops, PrimaryID
      <3>2. ASSUME NEW t \in Trans, t.req = primary[w].req, t.level = primary[w].level, Positions(w, t)
            PROVE  Becomes(primary, primary', w, t) /\ PrimaryID(t)
        BY <2>2, <2>3, <3>2 DEF Positions, PrimaryID, OwnID
      <3>3. ASSUME NEW t \in Trans, t.req = primary[w].req, t.level = primary[w].level, Reads(w, t)
            PROVE  Becomes(primary, primary', w, t) /\ PrimaryID(t)
        BY <2>2, <2>3, <3>3 DEF Reads, PrimaryID, OwnID, ReadFor
      <3> QED BY <1>1, <1>8, <3>1, <3>2, <3>3, PrimaryCases
    <2>5. \A v \in Walker : PrimaryID(primary'[v])
      BY <1>1, <2>4 DEF Becomes
    <2> QED BY <1>1, <2>1, <2>5 DEF l1Vars
  <1>9. ASSUME NEW w \in Walker, WalkSecondary(w) PROVE Goal
    <2> DEFINE t == Positioned(secondary[w])
               b == [req |-> t.req, address |-> AddOffset(t.ppn, t.vAddr),
                      level |-> t.level, msgID |-> t.msgID]
    <2>1. UNCHANGED <<primary, pageWalkRspQueue, toCache>>
      BY <1>9 DEF WalkSecondary, queues
    <2>2. secondary[w] \in Trans
      BY <1>1, <1>9 DEF WalkSecondary, TypeOK
    <2>3. /\ t \in Trans /\ t.req = secondary[w].req /\ t.level = secondary[w].level
          /\ t.state = secondary[w].state /\ t.msgID = secondary[w].msgID
      BY <2>2, PositionedType
    <2>4. EarlierID(secondary[w]) /\ secondary[w].state # "sentToMem"
      BY <1>1, <2>2, WalkIsNot DEF ReturnID
    <2>5. ReturnID(t) /\ EarlierID(b)
      BY <2>3, <2>4 DEF ReturnID, EarlierID
    <2>6. /\ secondary' = [secondary EXCEPT ![w] = NoTrans] \/ secondary' = [secondary EXCEPT ![w] = t]
          /\ l1Blocks' = l1Blocks \/ l1Blocks' = l1Blocks \cup {b}
      BY <1>9 DEF WalkSecondary, SendWriteReqToL1V
    <2> HIDE DEF t, b
    <2>7. \A v \in Walker : ReturnID(secondary'[v])
      <3>1. \A v \in Walker : \/ secondary'[v] = secondary[v]
                              \/ secondary'[v] = NoTrans
                              \/ secondary'[v] = t
        BY <1>1, <2>6 DEF TypeOK
      <3>2. ReturnID(NoTrans)
        BY DEF ReturnID
      <3> QED BY <1>1, <2>5, <3>1, <3>2
    <2>8. \A c \in l1Blocks' : EarlierID(c)
      BY <1>1, <2>5, <2>6
    <2> QED BY <1>1, <2>1, <2>7, <2>8
  <1>10. \/ UNCHANGED <<primary, secondary, pageWalkRspQueue, l1Vars>>
         \/ \E block \in l1Blocks : L1Answers(block)
         \/ ProcessPageWalkReqQueue \/ ProcessPageWalkRspQueue \/ ParseFromMem \/ ParseFromL1
         \/ \E w \in Walker : WalkPrimary(w) \/ WalkSecondary(w)
    BY DEF Next, Tick, OtherEvent, WalkerTick, TLBSends, TLBReceives, MemAnswers,
           TopSenderTick, ParseFromTop, WalkerSleeps, vars, queues, walkers
  <1> QED BY <1>2, <1>3, <1>4, <1>5, <1>6, <1>7, <1>8, <1>9, <1>10

-----------------------------------------------------------------------------
(* Reads. *)

LEMMA WaitKept ==
    ASSUME NEW w \in Walker, NEW x, Becomes(primary, primary', w, x), NEW id,
           Awaits(primary[w], id) = 0, Awaits(x, id) = 0
    PROVE  Cardinality(OccWait(primary, id))' = Cardinality(OccWait(primary, id))
  <1>1. /\ Cardinality(OccWait(primary', id)) + Awaits(primary[w], id)
             = Cardinality(OccWait(primary, id)) + Awaits(x, id)
        /\ Cardinality(OccWait(primary, id)) \in Nat
    BY WaitChanges
  <1>2. Cardinality(OccWait(primary', id)) \in Nat
    <2>1. Becomes(primary', primary', w, primary'[w])
      BY DEF Becomes
    <2> QED BY <2>1, WaitChanges
  <1> QED BY <1>1, <1>2

(* Every step keeps one read under way for a walk that waits. *)
LEMMA ReadsStep ==
    ASSUME IInv, [Next]_vars, NEW id \in MsgID
    PROVE  ReadOnce(id)'
  <1> DEFINE Mem  == Cardinality(OccMem(memReads, id))
             Rsp  == Cardinality(OccRsp(translationPort, id))
             Waiting == Cardinality(OccWait(primary, id))
  <1>1. /\ Base /\ TypeOK /\ IDsMatch /\ FinishedGone /\ ReadsCounted
        /\ IsFiniteSet(memReads) /\ IsFiniteSet(l1Blocks)
    BY DEF IInv, Base, Finite
  <1>2. Mem + Rsp = Waiting /\ Mem \in Nat /\ Rsp \in Nat /\ Waiting \in Nat
    BY <1>1, CountTypes DEF ReadsCounted, ReadOnce
  <1>3. SUFFICES Mem' + Rsp' = Waiting'
    BY DEF ReadOnce
  <1>4. /\ memReads' = memReads => Mem' = Mem
        /\ translationPort' = translationPort => Rsp' = Rsp
        /\ primary' = primary => Waiting' = Waiting
    BY DEF OccMem, OccRsp, OccWait
  <1>5. \A w \in Walker : \A x : primary' = [primary EXCEPT ![w] = x]
                                    => Becomes(primary, primary', w, x)
    <2>1. primary \in [Walker -> Trans \cup {NoTrans}]
      BY <1>1 DEF TypeOK
    <2>2. \A w \in Walker : \A x : Becomes(primary, [primary EXCEPT ![w] = x], w, x)
      BY <2>1, ExceptBecomes
    <2> QED BY ONLY <2>2
  <1>6. CASE UNCHANGED <<memReads, translationPort, primary>>
    BY <1>2, <1>4, <1>6
  <1>7. ASSUME NEW read \in memReads, MemAnswers(read) PROVE Mem' + Rsp' = Waiting'
    <2> DEFINE x == [respondTo |-> read.id, data |-> Contents(read.address)]
    <2>1. x \in MemRsp /\ x.respondTo = read.id
      BY <1>1, ContentsType DEF MemRsp, TypeOK
    <2>2. /\ memReads' = memReads \ {read} /\ translationPort' = Append(translationPort, x)
          /\ primary' = primary
      BY <1>7 DEF MemAnswers, walkers
    <2> HIDE DEF x
    <2>3. Mem = Mem' + Holds(read, id) /\ Mem' \in Nat
      <3>1. /\ Cardinality(OccMem(memReads, id)) = Cardinality(OccMem(memReads \ {read}, id)) + Holds(read, id)
            /\ Cardinality(OccMem(memReads \ {read}, id)) \in Nat
        BY <1>1, ReadRemoved
      <3> QED BY <2>2, <3>1
    <2>4. Rsp' = Rsp + One(read.id = id)
      BY <1>1, <2>1, <2>2, QueueTypes, RspAppend
    <2>5. One(read.id = id) \in Nat /\ Holds(read, id) = One(read.id = id)
      BY DEF Holds, One
    <2> QED BY <1>2, <1>4, <2>2, <2>3, <2>4, <2>5
  <1>8. ASSUME NEW w \in Walker, NEW t \in Trans, t.state # "sentToMem", Fills(w, t),
               UNCHANGED memVars
        PROVE  Mem' + Rsp' = Waiting'
    <2>1. CASE primary' = primary
      BY <1>2, <1>4, <1>8, <2>1 DEF memVars
    <2>2. CASE primary[w] = NoTrans /\ primary' = [primary EXCEPT ![w] = t]
      <3>1. Awaits(primary[w], id) = 0 /\ Awaits(t, id) = 0
        BY <1>8, <2>2 DEF Awaits, One
      <3>2. Waiting' = Waiting
        BY <1>5, <2>2, <3>1, WaitKept
      <3> QED BY <1>2, <1>4, <1>8, <3>2 DEF memVars
    <2> QED BY <1>8, <2>1, <2>2 DEF Fills
  <1>9. CASE ProcessPageWalkReqQueue
    <2>1. UNCHANGED memVars
      BY <1>9 DEF ProcessPageWalkReqQueue
    <2>2. ASSUME pageWalkReqQueue # <<>>, NEW w \in Walker, Fills(w, NewWalk(Head(pageWalkReqQueue)))
          PROVE  Mem' + Rsp' = Waiting'
      <3>1. Head(pageWalkReqQueue) \in TopReq
        BY <1>1, <2>2, QueueTypes, TailAt
      <3>2. /\ NewWalk(Head(pageWalkReqQueue)) \in Trans
            /\ NewWalk(Head(pageWalkReqQueue)).state # "sentToMem"
        BY <3>1, NewWalkType
      <3> QED BY <1>8, <2>1, <2>2, <3>2
    <2> QED BY <1>1, <1>6, <1>9, <2>1, <2>2, ReqQueueCases DEF walkers, memVars
  <1>10. CASE ProcessPageWalkRspQueue
    <2>1. UNCHANGED memVars
      BY <1>10 DEF ProcessPageWalkRspQueue
    <2>2. ASSUME pageWalkRspQueue # <<>>, NEW w \in Walker, Fills(w, Head(pageWalkRspQueue))
          PROVE  Mem' + Rsp' = Waiting'
      <3>1. /\ Head(pageWalkRspQueue) \in Trans /\ 1 \in DOMAIN pageWalkRspQueue
            /\ pageWalkRspQueue[1] = Head(pageWalkRspQueue)
        BY <1>1, <2>2, QueueTypes, TailAt
      <3>2. Head(pageWalkRspQueue).state # "sentToMem"
        BY <1>1, <3>1 DEF IDsMatch
      <3> QED BY <1>8, <2>1, <2>2, <3>1, <3>2
    <2> QED BY <1>1, <1>6, <1>10, <2>1, <2>2, RspQueueCases DEF walkers, memVars
  <1>11. CASE ParseFromMem
    <2>1. memReads' = memReads
      BY <1>11 DEF ParseFromMem
    <2>2. ASSUME translationPort # <<>>, translationPort' = Tail(translationPort),
                 NEW w \in Walker, primary[w] # NoTrans, primary[w].msgID = Head(translationPort).respondTo,
                 primary' = [primary EXCEPT ![w] = Advanced(MemTrans(w))]
          PROVE  Mem' + Rsp' = Waiting'
      <3> DEFINE u == Advanced(MemTrans(w))
                 h == Head(translationPort).respondTo
      <3>1. primary[w].state = "sentToMem"
        BY <1>1, <2>2, ResponseAwaited
      <3>2. u.state # "sentToMem"
        <4>1. MemTrans(w) \in Trans /\ MemTrans(w).state = "memDone"
          BY <1>1, <2>2, MemTransType
        <4> QED BY <4>1, AdvancedType
      <3>3. Rsp = Rsp' + One(h = id) /\ Rsp' \in Nat
        BY <1>1, <2>2, QueueTypes, RspTail
      <3>4. Becomes(primary, primary', w, u)
        BY <1>5, <2>2
      <3> HIDE DEF u
      <3>5. Waiting' + Awaits(primary[w], id) = Waiting + Awaits(u, id)
        BY <3>4, WaitChanges
      <3>6. Waiting' \in Nat
        <4>1. Becomes(primary', primary', w, primary'[w])
          BY DEF Becomes
        <4> QED BY <4>1, WaitChanges
      <3>7. Awaits(u, id) = 0 /\ Awaits(primary[w], id) = One(h = id) /\ One(h = id) \in Nat
        BY <2>2, <3>1, <3>2 DEF Awaits, One
      <3> HIDE DEF h
      <3> QED BY <1>2, <1>4, <2>1, <3>3, <3>5, <3>6, <3>7
    <2> QED BY <1>1, <1>6, <1>11, <2>1, <2>2, MemCases DEF walkers
  <1>12. ASSUME NEW w \in Walker, WalkPrimary(w) PROVE Mem' + Rsp' = Waiting'
    <2>1. translationPort' = translationPort
      BY <1>12 DEF WalkPrimary
    <2>2. primary[w] \in Trans /\ primary[w].state # "sentToMem" /\ Awaits(primary[w], id) = 0
      BY <1>1, <1>12, PrimaryCases DEF Awaits, One
    <2>3. ASSUME NEW x, Becomes(primary, primary', w, x), Awaits(x, id) = 0, memReads' = memReads
          PROVE  Mem' + Rsp' = Waiting'
      <3>1. Waiting' = Waiting
        BY <2>2, <2>3, WaitKept
      <3> QED BY <1>2, <1>4, <2>1, <2>3, <3>1
    <2>4. CASE Drops(w)
      BY <2>3, <2>4 DEF Drops, Awaits, One
    <2>5. ASSUME NEW t \in Trans, Positions(w, t) PROVE Mem' + Rsp' = Waiting'
      <3>1. Awaits(t, id) = 0
        BY <2>2, <2>5 DEF Positions, Awaits, One
      <3> QED BY <2>3, <2>5, <3>1 DEF Positions
    <2>6. ASSUME NEW t \in Trans, t.req = primary[w].req, Reads(w, t) PROVE Mem' + Rsp' = Waiting'
      <3>1. PICK read : read.id = t.msgID /\ memReads' = memReads \cup {read}
        BY <2>6 DEF Reads
      <3>2. /\ t.state = "sentToMem" /\ Becomes(primary, primary', w, t)
            /\ t.msgID \in MsgID /\ t.msgID.req = primary[w].req
        BY <2>6 DEF Reads, ReadFor, Trans
      <3>3. Live(primary[w])
        BY <2>2, <2>6, WalkIsNot DEF Reads
      <3>4. read \notin memReads
        <4>1. SUFFICES ASSUME read \in memReads PROVE FALSE
          OBVIOUS
        <4> DEFINE n == t.msgID
        <4>2. OccMem(memReads, n) # {} /\ IsFiniteSet(OccMem(memReads, n))
              /\ IsFiniteSet(OccRsp(translationPort, n)) /\ IsFiniteSet(OccWait(primary, n))
          BY <1>1, <3>1, <4>1, OccFinite DEF OccMem
        <4>3. Cardinality(OccMem(memReads, n)) + Cardinality(OccRsp(translationPort, n))
                = Cardinality(OccWait(primary, n))
          BY <1>1, <3>2 DEF ReadsCounted, ReadOnce
        <4>4. OccWait(primary, n) # {}
          BY <4>2, <4>3, CountZero
        <4>5. PICK v \in Walker : /\ primary[v] # NoTrans /\ primary[v].state = "sentToMem"
                                  /\ primary[v].msgID = n
          BY <4>4 DEF OccWait
        <4>6. primary[v] \in Trans /\ primary[v].req = primary[w].req
          BY <1>1, <3>2, <4>5 DEF TypeOK, IDsMatch, OwnID
        <4>7. Live(primary[v])
          BY <4>5, <4>6, WalkIsNot
        <4>8. v = w
          BY <1>1, <2>2, <3>3, <4>6, <4>7, PrimaryCounted
        <4> QED BY <2>2, <4>5, <4>8
      <3>5. Mem' = Mem + Holds(read, id)
        <4>1. Cardinality(OccMem(memReads \cup {read}, id)) = Mem + Holds(read, id)
          BY <1>1, <3>4, ReadAdded
        <4> QED BY <3>1, <4>1
      <3>6. Waiting' + Awaits(primary[w], id) = Waiting + Awaits(t, id)
        BY <3>2, WaitChanges
      <3>7. Waiting' \in Nat
        <4>1. Becomes(primary', primary', w, primary'[w])
          BY DEF Becomes
        <4> QED BY <4>1, WaitChanges
      <3>8. Awaits(t, id) = Holds(read, id) /\ Holds(read, id) \in Nat
        BY <2>6, <3>1, <3>2, WalkIsNot DEF Awaits, Holds, One
      <3> QED BY <1>2, <1>4, <2>1, <2>2, <3>5, <3>6, <3>7, <3>8
    <2> QED BY <1>1, <1>12, <2>4, <2>5, <2>6, PrimaryCases
  <1>13. \/ UNCHANGED <<memReads, translationPort, primary>>
         \/ \E read \in memReads : MemAnswers(read)
         \/ ProcessPageWalkReqQueue \/ ProcessPageWalkRspQueue \/ ParseFromMem
         \/ \E w \in Walker : WalkPrimary(w)
    BY DEF Next, Tick, OtherEvent, WalkerTick, TLBSends, TLBReceives, L1Answers, WalkSecondary,
           TopSenderTick, ParseFromL1, ParseFromTop, WalkerSleeps, vars, memVars, walkers
  <1> QED BY <1>6, <1>7, <1>9, <1>10, <1>11, <1>12, <1>13

-----------------------------------------------------------------------------
(* The theorems. *)

LEMMA Initially == Init => IInv
  <1> SUFFICES ASSUME Init PROVE IInv
    OBVIOUS
  <1>1. TypeOK
    <2>1. <<>> \in Seq(TopReq) /\ <<>> \in Seq(Trans) /\ <<>> \in Seq(Answer)
          /\ <<>> \in Seq(MemRsp) /\ <<>> \in Seq(L1Rsp)
      BY EmptySeq
    <2>2. /\ toTop \in Seq(TopReq) /\ pageWalkReqQueue \in Seq(TopReq)
          /\ pageWalkRspQueue \in Seq(Trans) /\ toCache \in Seq(L1Rsp)
          /\ topSender \in Seq(Answer) /\ topEnd \in Seq(Answer) /\ translationPort \in Seq(MemRsp)
      BY <2>1 DEF Init
    <2> QED BY <2>2 DEF Init, TypeOK, Stage, Answer, MemRsp, L1Rsp
  <1>2. \A w \in Walker : primary[w] = NoTrans /\ secondary[w] = NoTrans
    BY DEF Init
  <1>3. DOMAIN <<>> = {}
    BY EmptySeq, LenProperties
  <1>4. IsFiniteSet(memReads) /\ IsFiniteSet(l1Blocks) /\ memReads = {} /\ l1Blocks = {}
    BY FS_EmptySet DEF Init
  <1>5. \A r : /\ OccSlot(primary, r) = {} /\ OccSlot(secondary, r) = {}
               /\ OccTrans(pageWalkRspQueue, r) = {} /\ OccBlock(l1Blocks, r) = {}
               /\ OccInfo(toCache, r) = {} /\ OccReq(toTop, r) = {} /\ OccReq(pageWalkReqQueue, r) = {}
               /\ OccReq(topSender, r) = {} /\ OccReq(topEnd, r) = {} /\ OccMem(memReads, r) = {}
               /\ OccRsp(translationPort, r) = {} /\ OccWait(primary, r) = {}
    <2> TAKE r
    <2>1. OccSlot(primary, r) = {} /\ OccSlot(secondary, r) = {} /\ OccWait(primary, r) = {}
      BY <1>2, NoTransNotLive DEF OccSlot, OccWait
    <2>2. /\ OccTrans(pageWalkRspQueue, r) = {} /\ OccInfo(toCache, r) = {} /\ OccReq(toTop, r) = {}
          /\ OccReq(pageWalkReqQueue, r) = {} /\ OccReq(topSender, r) = {} /\ OccReq(topEnd, r) = {}
          /\ OccRsp(translationPort, r) = {}
      BY <1>3 DEF Init, OccTrans, OccInfo, OccReq, OccRsp
    <2>3. OccBlock(l1Blocks, r) = {} /\ OccMem(memReads, r) = {}
      BY <1>4 DEF OccBlock, OccMem
    <2> QED BY <2>1, <2>2, <2>3
  <1>6. Cardinality({}) = 0
    BY FS_EmptySet
  <1>7. \A r : /\ Wait(r) = 0 /\ Walk(r) = 0
               /\ InPrimary(r) = 0 /\ InTopSender(r) = 0 /\ InTopEnd(r) = 0
    BY <1>5, <1>6 DEF Wait, Walk, InToTop, InReqQueue, InPrimary, InSecondary, InRspQueue, InL1,
                      InToCache, InTopSender, InTopEnd
  <1>8. \A r \in Req : Unsent(r) = 1 /\ Ended(r) = 0
    BY <1>7 DEF Init, Unsent, Ended, One
  <1>9. EachRequestOnce
    BY <1>1, <1>4, <1>7, <1>8, PlacesAre DEF EachRequestOnce
  <1>10. Walking = {}
    BY <1>1, <1>4, <1>7, WalkingIs
  <1>11. Finite /\ InflightCounted
    BY <1>4, <1>6, <1>10, FS_EmptySet DEF Finite, InflightCounted, Init
  <1>12. IDsMatch /\ FinishedGone
    BY <1>2, <1>3, <1>4 DEF Init, IDsMatch, FinishedGone, NoTrans
  <1>13. ReadsCounted
    BY <1>5, <1>6 DEF ReadsCounted, ReadOnce
  <1>14. WalkerAwake
    BY <1>2 DEF WalkerAwake, PrimaryRuns
  <1> QED BY <1>1, <1>9, <1>11, <1>12, <1>13, <1>14 DEF IInv

(* The inductive invariant holds in every state. *)
THEOREM Inductive == Spec => []IInv
  <1>1. IInv /\ [Next]_vars => IInv'
    <2> SUFFICES ASSUME IInv, [Next]_vars PROVE IInv'
      OBVIOUS
    <2>1. TypeOK' /\ Finite' /\ EachRequestOnce' /\ InflightCounted'
      BY CountStep
    <2>2. IDsMatch'
      <3>1. (TypeOK => (IDsMatch <=>
                /\ \A w \in Walker : PrimaryID(primary[w]) /\ ReturnID(secondary[w])
                /\ \A i \in DOMAIN pageWalkRspQueue : ReturnID(pageWalkRspQueue[i])
                /\ \A b \in l1Blocks : EarlierID(b)
                /\ \A i \in DOMAIN toCache : EarlierID(toCache[i].info)))'
        BY IDsMatchAre, PTL
      <3> QED BY <2>1, <3>1, IDsStep
    <2>3. ReadsCounted'
      BY ReadsStep DEF ReadsCounted
    <2>4. FinishedGone' /\ WalkerAwake'
      BY FinishedStep, AwakeStep
    <2> QED BY <2>1, <2>2, <2>3, <2>4 DEF IInv
  <1> QED BY <1>1, Initially, PTL DEF Spec

(* Every queue, slot and message of the MMU is of its type in every state: *)
(* NewWalk, SendToMem, handleMemResponse and handleL1ReadResponse build    *)
(* walks and messages that the handlers that get them expect, and the      *)
(* count of walks is never lowered below zero.                             *)
THEOREM TypeCorrect == Spec => []TypeOK
  <1>1. IInv => TypeOK
    BY DEF IInv
  <1> QED BY <1>1, Inductive, PTL

(* A request is never lost between the queues, the slots, the memory, the  *)
(* L1 vector caches and topSender, never walked twice at a time and never  *)
(* answered twice.                                                         *)
THEOREM RequestsKept == Spec => []EachRequestOnce
  <1>1. IInv => EachRequestOnce
    BY DEF IInv
  <1> QED BY <1>1, Inductive, PTL

(* numInflightPTWRequests is the number of walks under way, whichever      *)
(* handler began and finished them.                                        *)
THEOREM WalksCounted == Spec => []InflightCounted
  <1>1. IInv => InflightCounted
    BY DEF IInv
  <1> QED BY <1>1, Inductive, PTL

(* A read and the walk that waits for it belong together.                  *)
LEMMA AwaitedOnce == IInv => ReadsAwaited
  <1> SUFFICES ASSUME IInv PROVE ReadsAwaited
    OBVIOUS
  <1>1. /\ Base /\ TypeOK /\ IDsMatch /\ FinishedGone /\ ReadsCounted
        /\ IsFiniteSet(memReads) /\ IsFiniteSet(l1Blocks)
    BY DEF IInv, Base, Finite
  <1>2. \A id : id \in ReadIDs <=> OccMem(memReads, id) # {} \/ OccRsp(translationPort, id) # {}
    BY DEF ReadIDs, OccMem, OccRsp
  <1>3. \A id \in MsgID : id \in ReadIDs <=> OccWait(primary, id) # {}
    <2> TAKE id \in MsgID
    <2>1. /\ OccMem(memReads, id) # {} <=> Cardinality(OccMem(memReads, id)) # 0
          /\ OccRsp(translationPort, id) # {} <=> Cardinality(OccRsp(translationPort, id)) # 0
          /\ OccWait(primary, id) # {} <=> Cardinality(OccWait(primary, id)) # 0
      BY <1>1, OccFinite, CountZero
    <2>2. /\ Cardinality(OccMem(memReads, id)) \in Nat
          /\ Cardinality(OccRsp(translationPort, id)) \in Nat
          /\ Cardinality(OccWait(primary, id)) \in Nat
      BY <1>1, CountTypes
    <2>3. Cardinality(OccMem(memReads, id)) + Cardinality(OccRsp(translationPort, id))
            = Cardinality(OccWait(primary, id))
      BY <1>1 DEF ReadsCounted, ReadOnce
    <2>4. OccWait(primary, id) # {} <=> OccMem(memReads, id) # {} \/ OccRsp(translationPort, id) # {}
      BY ONLY <2>1, <2>2, <2>3
    <2> QED BY <1>2, <2>4
  <1>4. ReadIDs \subseteq MsgID
    <2>1. \A i \in DOMAIN translationPort : translationPort[i] \in MemRsp
      BY <1>1, QueueTypes, ElementOfSeq, LenProperties
    <2> QED BY <1>1, <2>1 DEF ReadIDs, TypeOK, MemRsp
  <1>5. ASSUME NEW id \in ReadIDs
        PROVE  \E w \in Walker : /\ primary[w] # NoTrans
                                 /\ primary[w].state = "sentToMem" /\ primary[w].msgID = id
                                 /\ \A v \in Walker : primary[v] # NoTrans /\ primary[v].msgID = id => v = w
    <2>1. id \in MsgID /\ OccWait(primary, id) # {}
          /\ (OccMem(memReads, id) # {} \/ OccRsp(translationPort, id) # {})
      BY <1>2, <1>3, <1>4, <1>5
    <2>2. PICK w \in Walker : /\ primary[w] # NoTrans
                              /\ primary[w].state = "sentToMem" /\ primary[w].msgID = id
      BY <2>1 DEF OccWait
    <2>3. ASSUME NEW v \in Walker, primary[v] # NoTrans, primary[v].msgID = id
          PROVE  v = w
      <3>1. primary[v].state = "sentToMem"
        BY <1>1, <2>1, <2>3, AwaitedWalk
      <3>2. primary[v] \in Trans /\ primary[w] \in Trans
        BY <1>1, <2>2, <2>3 DEF TypeOK
      <3>3. primary[v].req = primary[w].req
        BY <1>1, <2>2, <2>3 DEF IDsMatch, OwnID
      <3>4. Live(primary[v]) /\ Live(primary[w])
        BY <2>2, <3>1, <3>2, WalkIsNot
      <3> QED BY <1>1, <3>2, <3>3, <3>4, PrimaryCounted
    <2> QED BY <2>2, <2>3
  <1>6. ASSUME NEW w \in Walker, primary[w] # NoTrans, primary[w].state = "sentToMem"
        PROVE  primary[w].msgID \in ReadIDs
    <2>1. primary[w].msgID \in MsgID
      BY <1>1, <1>6 DEF TypeOK, Trans
    <2>2. w \in OccWait(primary, primary[w].msgID)
      BY <1>6 DEF OccWait
    <2> QED BY <1>3, <2>1, <2>2
  <1> QED BY <1>5, <1>6 DEF ReadsAwaited

(* A response of the memory always finds the one walk that waits for it,   *)
(* so parseFromMem never panics for a missing one, and a walk never waits  *)
(* for a read that was not sent.                                           *)
THEOREM ResponsesMatch == Spec => []ReadsAwaited
  <1> QED BY AwaitedOnce, Inductive, PTL

(* A walker with a walk it can go on with has a tick scheduled, although   *)
(* it goes to sleep by itself and is woken in three other handlers.        *)
THEOREM WalkersAwake == Spec => []WalkerAwake
  <1>1. IInv => WalkerAwake
    BY DEF IInv
  <1> QED BY <1>1, Inductive, PTL

(* The four properties hold together also when topSender is too small for  *)
(* the answers, where the code loses its place in the page table.          *)
THEOREM BookkeepingRight == Spec => []Bookkeeping
  <1>1. IInv => Bookkeeping
    BY AwaitedOnce DEF IInv, Bookkeeping
  <1> QED BY <1>1, Inductive, PTL

-----------------------------------------------------------------------------
(* The MMU implements the service that the TLB expects of it. *)

LEMMA ServiceStep ==
    ASSUME IInv, [Next]_vars
    PROVE  [Service!Next]_<<Queued \cup Walking, Responding \cup answered>>
  <1>1. Base /\ IDsMatch /\ FinishedGone /\ ReadsCounted /\ Countable
    BY DEF IInv, Base, Finite, Countable
  <1>2. /\ Kept \/ \E s \in Req : Asked(s) \/ Begun(s) \/ Completed(s)
        /\ IsFiniteSet(l1Blocks') /\ IsFiniteSet(memReads')
    BY <1>1, Moves
  <1>3. TypeOK'
    BY CountStep
  <1>4. Summed /\ Summed'
    BY <1>1, <1>2, <1>3, CountedNext, WalkingIs, PromisedIs, CountTypes, PlacesAre DEF Countable, Summed
  <1>5. \A r \in Req : Unsent(r) + Wait(r) + Walk(r) + Ended(r) = 1
    BY <1>1, OnePlace
  <1> DEFINE waiting == Queued \cup Walking
             told    == Responding \cup answered
  <1>6. /\ \A r : r \in waiting <=> Wait(r) >= 1 \/ Walk(r) >= 1
        /\ \A r : r \in told <=> Ended(r) >= 1
    BY <1>4 DEF Summed
  <1>7. /\ \A r : r \in waiting' <=> Wait(r)' >= 1 \/ Walk(r)' >= 1
        /\ \A r : r \in told' <=> Ended(r)' >= 1
    BY <1>4 DEF Summed
  <1>8. \A r : /\ Unsent(r) \in Nat /\ Wait(r) \in Nat /\ Walk(r) \in Nat /\ Ended(r) \in Nat
               /\ Unsent(r)' \in Nat /\ Wait(r)' \in Nat /\ Walk(r)' \in Nat /\ Ended(r)' \in Nat
    BY <1>4 DEF Summed
  <1> HIDE DEF waiting, told
  <1>9. CASE Kept
    <2>1. waiting' = waiting /\ told' = told
      BY <1>6, <1>7, <1>9 DEF Kept
    <2> QED BY <2>1 DEF waiting, told
  <1>10. ASSUME NEW s \in Req, Begun(s)
         PROVE  waiting' = waiting /\ told' = told
    <2>1. \A r : r # s => /\ Wait(r)' = Wait(r) /\ Walk(r)' = Walk(r)
      BY <1>8, <1>10 DEF Begun, One
    <2>2. \A r : Ended(r)' = Ended(r)
      BY <1>10 DEF Begun
    <2>3. Wait(s) = Wait(s)' + 1 /\ Walk(s)' = Walk(s) + 1
      BY <1>10 DEF Begun, One
    <2>4. s \in waiting /\ s \in waiting'
      BY <1>6, <1>7, <1>8, <2>3
    <2> QED BY <1>6, <1>7, <2>1, <2>2, <2>4
  <1>11. ASSUME NEW s \in Req, Asked(s)
         PROVE  /\ s \notin waiting \cup told /\ waiting' = waiting \cup {s} /\ told' = told
    <2>1. \A r : r # s => /\ Wait(r)' = Wait(r) /\ Walk(r)' = Walk(r)
      BY <1>8, <1>11 DEF Asked, One
    <2>2. \A r : Ended(r)' = Ended(r)
      BY <1>11 DEF Asked
    <2>3. Wait(s)' = Wait(s) + 1 /\ Unsent(s) = Unsent(s)' + 1
      BY <1>11 DEF Asked, One
    <2>4. Wait(s) = 0 /\ Walk(s) = 0 /\ Ended(s) = 0
      BY <1>5, <1>8, <2>3
    <2>5. s \notin waiting /\ s \notin told /\ s \in waiting'
      BY <1>6, <1>7, <2>3, <2>4
    <2> QED BY <1>6, <1>7, <2>1, <2>2, <2>5
  <1>12. ASSUME NEW s \in Req, Completed(s)
         PROVE  s \in waiting /\ waiting' = waiting \ {s} /\ told' = told \cup {s}
    <2>1. \A r : r # s => /\ Wait(r)' = Wait(r) /\ Walk(r)' = Walk(r) /\ Ended(r)' = Ended(r)
      BY <1>8, <1>12 DEF Completed, One
    <2>2. /\ Walk(s) = Walk(s)' + 1 /\ Ended(s)' = Ended(s) + 1 /\ Wait(s)' = Wait(s)
      BY <1>12 DEF Completed, One
    <2>3. Wait(s)' = 0 /\ Walk(s)' = 0
      BY <1>5, <1>8, <2>2
    <2>4. s \in waiting /\ ~(s \in waiting') /\ s \in told'
      BY <1>6, <1>7, <1>8, <2>2, <2>3
    <2> QED BY <1>6, <1>7, <2>1, <2>4
  <1>13. ASSUME NEW s \in Req, Begun(s)
         PROVE  [Service!Next]_<<Queued \cup Walking, Responding \cup answered>>
    BY <1>10, <1>13 DEF waiting, told
  <1>14. ASSUME NEW s \in Req, Asked(s)
         PROVE  [Service!Next]_<<Queued \cup Walking, Responding \cup answered>>
    <2>1. Service!Ask(s)
      BY <1>11, <1>14 DEF Service!Ask, waiting, told
    <2> QED BY <2>1 DEF Service!Next
  <1>15. ASSUME NEW s \in Req, Completed(s)
         PROVE  [Service!Next]_<<Queued \cup Walking, Responding \cup answered>>
    <2>1. Service!Answer(s)
      BY <1>12, <1>15 DEF Service!Answer, waiting, told
    <2> QED BY <2>1 DEF Service!Next
  <1> QED BY <1>2, <1>9, <1>13, <1>14, <1>15

(* The initial states are initial states of the service. *)
LEMMA ServiceInit == Init => Service!Init
  <1>1. DOMAIN <<>> = {}
    BY EmptySeq, LenProperties
  <1> SUFFICES ASSUME Init PROVE Service!Init
    OBVIOUS
  <1>2. Queued = {} /\ Responding = {} /\ answered = {}
    BY <1>1 DEF Init, Queued, Responding
  <1>3. \A trans \in Slots : trans = NoTrans
    BY <1>1 DEF Init, Slots
  <1>4. { trans.req : trans \in { t \in Slots : Live(t) } } = {}
    BY <1>3, NoTransNotLive
  <1>5. Walking = {}
    BY <1>1, <1>4 DEF Init, Walking
  <1> QED BY <1>2, <1>5 DEF Service!Init

(* To the TLB the MMU is the translation service: a request waits from     *)
(* the moment it is sent until it is answered, once. This is the safety    *)
(* part of Refines; that every request is answered needs the fairness.     *)
THEOREM ServiceKept ==
    Spec => Service!Init /\ [][Service!Next]_<<Queued \cup Walking, Responding \cup answered>>
  <1>1. IInv /\ [Next]_vars => [Service!Next]_<<Queued \cup Walking, Responding \cup answered>>
    BY ServiceStep
  <1> QED BY <1>1, ServiceInit, Inductive, PTL DEF Spec
=============================================================================
