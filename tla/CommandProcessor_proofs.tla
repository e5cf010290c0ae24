---------------------- MODULE CommandProcessor_proofs ----------------------
(***************************************************************************)
(* Proofs about the command processors of CommandProcessor.tla, run by the *)
(* driver of GPUDriver.tla.                                                *)
(*                                                                         *)
(* A GPU is in one of ten stages: it runs, it stops or starts one kind of  *)
(* its parts after the other, or it has stopped. Staged says what every    *)
(* part does in a stage, from which the counters of acknowledgements       *)
(* follow. A command of the driver is counted where it is: before a GPU,   *)
(* inside it, or after it as an answer. Every step of a GPU either leaves  *)
(* these counts alone, or takes one command in, or answers one.            *)
(***************************************************************************)
EXTENDS GPUDriver, CountingFacts

(* ---- page migration controllers ---- *)
Msg == RemoteMsg \cup MemOp
Of(id) == { m \in Msg : m.id = id }
Held(q, id) == Number(q, Of(id))
InMem(ops, id) == One(\E op \in ops : op.id = id)

Places(P) == {P} \X Chunk
PullMsg(T, H, P) == [type : {"pull"}, id : Places(P), src : {T}, dst : {H}]
ReadOp(P) == [type : {"read"}, id : Places(P), data : {0}]
Current(H, S) == { m \in S : m.data = mem[H][m.id] }
ReadDone(H, P) == Current(H, [type : {"read"}, id : Places(P), data : Data])
DataMsg(T, H, P) == Current(H, [type : {"data"}, id : Places(P), dst : {T}, data : Data])
WriteOp(H, P) == Current(H, [type : {"write"}, id : Places(P), data : Data])

(* A chunk is asked for, read, replied, written and acknowledged. *)
Wanting(T, H, id) == Held(toPullFromAnotherPMC[T], id) + Held(wire[T], id) + Held(remotePort[H], id)
Reading(H, id) == Held(toSendLocalMemPort[H], id) + InMem(memOps[H], id) + Held(localMemPort[H], id)
Replying(T, H, id) == Held(toRspToAnotherPMC[H], id) + Held(wire[H], id) + Held(remotePort[T], id)
Pulling(T, H, id) == Wanting(T, H, id) + Reading(H, id) + Replying(T, H, id)
Writing(T, id) == Held(writeReqLocalMemPort[T], id) + InMem(memOps[T], id)
Acking(T, id) == Held(localMemPort[T], id)
Left(T, H, id) == Pulling(T, H, id) + Writing(T, id) + Acking(T, id)

PMCOff(g) ==
    /\ toPullFromAnotherPMC[g] = <<>> /\ writeReqLocalMemPort[g] = <<>>
    /\ reqIDToWriteAddressMap[g] = {} /\ numDataRspPendingForPageMigration[g] = -1
    /\ toSendLocalMemPort[g] = <<>> /\ toRspToAnotherPMC[g] = <<>>
    /\ wire[g] = <<>> /\ remotePort[g] = <<>> /\ memOps[g] = {} /\ localMemPort[g] = <<>>

(* The GPU a page comes from pulls nothing, the one it goes to serves nothing. *)
Bystanders(T, H) ==
    /\ \A g \in GPU \ {T, H} : PMCOff(g)
    /\ writeReqLocalMemPort[H] = <<>> /\ toPullFromAnotherPMC[H] = <<>> /\ reqIDToWriteAddressMap[H] = {}
    /\ numDataRspPendingForPageMigration[H] = -1
    /\ toSendLocalMemPort[T] = <<>> /\ toRspToAnotherPMC[T] = <<>>

WantShape(T, H, P) ==
    /\ toPullFromAnotherPMC[T] \in Seq(PullMsg(T, H, P))
    /\ wire[T] \in Seq(PullMsg(T, H, P))
    /\ remotePort[H] \in Seq(PullMsg(T, H, P))

ReadShape(T, H, P) ==
    /\ toSendLocalMemPort[H] \in Seq(ReadOp(P))
    /\ memOps[H] \subseteq ReadOp(P)
    /\ localMemPort[H] \in Seq(ReadDone(H, P))
    /\ toSendLocalMemPort[H] # <<>> \/ memOps[H] # {} \/ localMemPort[H] # <<>>
            => requestingPMCtrlPort[H] = T

ReplyShape(T, H, P) ==
    /\ toRspToAnotherPMC[H] \in Seq(DataMsg(T, H, P))
    /\ wire[H] \in Seq(DataMsg(T, H, P))
    /\ remotePort[T] \in Seq(DataMsg(T, H, P))

WriteShape(T, H, P) ==
    /\ writeReqLocalMemPort[T] \in Seq(WriteOp(H, P))
    /\ memOps[T] \subseteq WriteOp(H, P)
    /\ localMemPort[T] \in Seq(WriteOp(H, P))

Counted(T, H, P) ==
    /\ \A id \in Places(P) : Left(T, H, id) \in {0, 1}
    /\ \A id \in Places(P) : Pulling(T, H, id) + Writing(T, id) = 0 => mem[T][id] = mem[H][id]

Numbered(T, H, P) ==
    /\ reqIDToWriteAddressMap[T] = { id \in Places(P) : Pulling(T, H, id) = 1 }
    /\ numDataRspPendingForPageMigration[T] = Cardinality({ id \in Places(P) : Left(T, H, id) = 1 })
    /\ numDataRspPendingForPageMigration[T] # 0

Copying(T, H, P) ==
    /\ T \in GPU /\ H \in GPU /\ T # H /\ P \in Page
    /\ Bystanders(T, H)
    /\ WantShape(T, H, P) /\ ReadShape(T, H, P) /\ ReplyShape(T, H, P) /\ WriteShape(T, H, P)
    /\ Counted(T, H, P) /\ Numbered(T, H, P)

-----------------------------------------------------------------------------
(* The number of messages about a chunk. *)
LEMMA HeldEmpty == \A id : Held(<<>>, id) = 0
  BY NumberEmpty DEF Held

(* One more message at the end of a queue counts for its own chunk only. *)
LEMMA HeldAppend ==
  ASSUME NEW S, S \subseteq Msg, NEW q \in Seq(S), NEW m \in S, NEW id
  PROVE  /\ Append(q, m) \in Seq(S)
         /\ Held(q, id) \in Nat
         /\ Held(Append(q, m), id) = Held(q, id) + One(m.id = id)
  <1>1. m \in Of(id) <=> m.id = id  BY DEF Of
  <1>2. /\ Number(q, Of(id)) \in Nat
        /\ Number(Append(q, m), Of(id)) = Number(q, Of(id)) + IF m \in Of(id) THEN 1 ELSE 0
    BY NumberAppend
  <1>3. Append(q, m) \in Seq(S)  OBVIOUS
  <1>4. QED  BY <1>1, <1>2, <1>3 DEF Held, One

(* Taking the head of a queue takes one message about its chunk away. *)
LEMMA HeldTail ==
  ASSUME NEW S, S \subseteq Msg, NEW q \in Seq(S), q # <<>>, NEW id
  PROVE  /\ Tail(q) \in Seq(S) /\ Head(q) \in S
         /\ Held(Tail(q), id) \in Nat
         /\ Held(q, id) = Held(Tail(q), id) + One(Head(q).id = id)
  <1>1. Tail(q) \in Seq(S) /\ Head(q) \in S  BY HeadTailProperties
  <1>2. Head(q) \in Of(id) <=> Head(q).id = id  BY <1>1 DEF Of
  <1>3. Number(Tail(q), Of(id)) \in Nat  BY <1>1, NumberIn
  <1>4. Number(q, Of(id)) = Number(Tail(q), Of(id)) + IF Head(q) \in Of(id) THEN 1 ELSE 0  BY NumberTail
  <1>5. QED  BY <1>1, <1>2, <1>3, <1>4 DEF Held, One

(* The only message of a list counts for its own chunk only. *)
LEMMA HeldOne ==
  ASSUME NEW m \in Msg, NEW id
  PROVE  Held(<<m>>, id) = One(m.id = id)
  <1>1. m \in Of(id) <=> m.id = id  BY DEF Of
  <1>2. PICK q : q = <<m>>  OBVIOUS
  <1>3. DOMAIN q = {1} /\ q[1] = m  BY <1>2
  <1>4. CASE m.id = id
    <2>1. Number(q, Of(id)) = 1  BY <1>1, <1>3, <1>4, NumberOne
    <2>2. QED  BY <1>2, <1>4, <2>1 DEF Held, One
  <1>5. CASE m.id # id
    <2>1. Number(q, Of(id)) = 0  BY <1>1, <1>3, <1>5, NumberNone
    <2>2. QED  BY <1>2, <1>5, <2>1 DEF Held, One
  <1>6. QED  BY <1>4, <1>5

(* What of a list is sent on. *)
LEMMA HeldPrefix ==
  ASSUME NEW S, NEW q \in Seq(S), NEW r \in Seq(S), NEW n \in 1..Len(q), NEW id
  PROVE  /\ r \o SubSeq(q, 1, n) \in Seq(S)
         /\ SubSeq(q, n + 1, Len(q)) \in Seq(S)
         /\ Held(r \o SubSeq(q, 1, n), id) + Held(SubSeq(q, n + 1, Len(q)), id)
               = Held(r, id) + Held(q, id)
         /\ Held(r \o SubSeq(q, 1, n), id) \in Nat /\ Held(SubSeq(q, n + 1, Len(q)), id) \in Nat
  <1> DEFINE a == SubSeq(q, 1, n)
             b == SubSeq(q, n + 1, Len(q))
  <1>1. Len(q) \in Nat /\ n \in Nat /\ n <= Len(q)  OBVIOUS
  <1>2. a \in Seq(S) /\ b \in Seq(S)
    BY <1>1, SubSeqProperties
  <1>3. q = a \o b
    <2>1. q = SubSeq(q, 1, Len(q))  BY SubSeqFull
    <2>2. SubSeq(q, 1, n) \o SubSeq(q, n + 1, Len(q)) = SubSeq(q, 1, Len(q))
      BY <1>1, ConcatAdjacentSubSeq
    <2>3. QED  BY <2>1, <2>2
  <1> HIDE DEF a, b
  <1>4. Held(a, id) \in Nat /\ Held(b, id) \in Nat /\ Held(r, id) \in Nat  BY <1>2, NumberIn DEF Held
  <1>5. Held(a \o b, id) = Held(a, id) + Held(b, id)  BY <1>2, NumberConcat DEF Held
  <1>6. Held(r \o a, id) = Held(r, id) + Held(a, id)  BY <1>2, NumberConcat DEF Held
  <1>7. r \o a \in Seq(S)  BY <1>2
  <1>8. r \o a \in Seq(S) /\ b \in Seq(S) /\ Held(r \o a, id) + Held(b, id) = Held(r, id) + Held(q, id)
        /\ Held(r \o a, id) \in Nat /\ Held(b, id) \in Nat
    BY <1>2, <1>3, <1>4, <1>5, <1>6, <1>7
  <1>9. QED  BY <1>8 DEF a, b

(* Requests a memory controller takes, all at once, and serves. *)
LEMMA InMemTakes ==
  ASSUME NEW S, S \subseteq Msg, NEW q \in Seq(S), NEW ops \in SUBSET S, NEW id,
         Held(q, id) + InMem(ops, id) <= 1
  PROVE  /\ ops \cup Ops(q) \in SUBSET S
         /\ InMem(ops \cup Ops(q), id) = Held(q, id) + InMem(ops, id)
  <1>1. Ops(q) \subseteq S  BY LenProperties DEF Ops
  <1>2. Held(q, id) \in Nat /\ (Held(q, id) = 0 <=> \A i \in DOMAIN q : q[i] \notin Of(id))
    BY NumberIn DEF Held
  <1>3. \A i \in DOMAIN q : q[i] \in Of(id) <=> q[i].id = id
    <2>1. \A i \in DOMAIN q : q[i] \in Msg  BY LenProperties
    <2>2. QED  BY <2>1 DEF Of
  <1>4. (\E op \in Ops(q) : op.id = id) <=> \E i \in DOMAIN q : q[i].id = id  BY DEF Ops
  <1>5. Held(q, id) = 0 <=> ~(\E op \in Ops(q) : op.id = id)
    BY <1>2, <1>3, <1>4
  <1>6. (\E op \in ops \cup Ops(q) : op.id = id) <=> (\E op \in ops : op.id = id) \/ (\E op \in Ops(q) : op.id = id)
    OBVIOUS
  <1>7. QED  BY <1>1, <1>2, <1>5, <1>6 DEF InMem, One

(* The memory answers one operation, and the others stay. *)
LEMMA InMemServes ==
  ASSUME NEW ops, NEW op \in ops, \A o \in ops : o.id = op.id => o = op, NEW id
  PROVE  InMem(ops, id) = InMem(ops \ {op}, id) + One(op.id = id)
  <1>1. CASE op.id = id
    <2>1. ~(\E o \in ops \ {op} : o.id = id)  BY <1>1
    <2>2. \E o \in ops : o.id = id  BY <1>1
    <2>3. QED  BY <1>1, <2>1, <2>2 DEF InMem, One
  <1>2. CASE op.id # id
    <2>1. (\E o \in ops \ {op} : o.id = id) <=> (\E o \in ops : o.id = id)  BY <1>2
    <2>2. QED  BY <1>2, <2>1 DEF InMem, One
  <1>3. QED  BY <1>1, <1>2

(* At most one operation on a chunk is counted in a memory. *)
LEMMA InMemType == \A ops, id : InMem(ops, id) \in {0, 1}
  BY DEF InMem, One

(* A memory without operations has none on any chunk. *)
LEMMA InMemEmpty == \A id : InMem({}, id) = 0
  BY DEF InMem, One

-----------------------------------------------------------------------------
(* A page on its way from H to T.                                          *)

LEMMA MsgSets ==
  ASSUME NEW T \in GPU, NEW H \in GPU, NEW P \in Page
  PROVE  /\ PullMsg(T, H, P) \subseteq Msg /\ ReadOp(P) \subseteq Msg
         /\ ReadDone(H, P) \subseteq Msg /\ DataMsg(T, H, P) \subseteq Msg
         /\ WriteOp(H, P) \subseteq Msg
  <1>1. Places(P) \subseteq PullID  BY DEF Places, PullID
  <1>2. PullMsg(T, H, P) \subseteq Msg  BY <1>1 DEF PullMsg, Msg, RemoteMsg
  <1>3. ReadOp(P) \subseteq Msg  BY <1>1 DEF ReadOp, Msg, MemOp, Data
  <1>4. ReadDone(H, P) \subseteq Msg  BY <1>1 DEF ReadDone, Current, Msg, MemOp
  <1>5. DataMsg(T, H, P) \subseteq Msg  BY <1>1 DEF DataMsg, Current, Msg, RemoteMsg
  <1>6. WriteOp(H, P) \subseteq Msg  BY <1>1 DEF WriteOp, Current, Msg, MemOp
  <1>7. QED  BY <1>2, <1>3, <1>4, <1>5, <1>6

(* The counts are numbers. *)
LEMMA CountsAreNat ==
  ASSUME NEW T \in GPU, NEW H \in GPU, NEW P \in Page, NEW id,
         WantShape(T, H, P), ReadShape(T, H, P), ReplyShape(T, H, P), WriteShape(T, H, P)
  PROVE  /\ Held(toPullFromAnotherPMC[T], id) \in Nat /\ Held(wire[T], id) \in Nat
         /\ Held(remotePort[H], id) \in Nat
         /\ Held(toSendLocalMemPort[H], id) \in Nat /\ InMem(memOps[H], id) \in Nat
         /\ Held(localMemPort[H], id) \in Nat
         /\ Held(toRspToAnotherPMC[H], id) \in Nat /\ Held(wire[H], id) \in Nat
         /\ Held(remotePort[T], id) \in Nat
         /\ Held(writeReqLocalMemPort[T], id) \in Nat /\ InMem(memOps[T], id) \in Nat
         /\ Held(localMemPort[T], id) \in Nat
  <1>1. InMem(memOps[H], id) \in Nat /\ InMem(memOps[T], id) \in Nat
    BY InMemType
  <1>2. /\ Held(toPullFromAnotherPMC[T], id) \in Nat /\ Held(wire[T], id) \in Nat
        /\ Held(remotePort[H], id) \in Nat
    BY NumberIn DEF Held, WantShape
  <1>3. /\ Held(toSendLocalMemPort[H], id) \in Nat /\ Held(localMemPort[H], id) \in Nat
    BY NumberIn DEF Held, ReadShape
  <1>4. /\ Held(toRspToAnotherPMC[H], id) \in Nat /\ Held(wire[H], id) \in Nat
        /\ Held(remotePort[T], id) \in Nat
    BY NumberIn DEF Held, ReplyShape
  <1>5. /\ Held(writeReqLocalMemPort[T], id) \in Nat /\ Held(localMemPort[T], id) \in Nat
    BY NumberIn DEF Held, WriteShape
  <1>6. QED  BY <1>1, <1>2, <1>3, <1>4, <1>5

(* What a step leaves alone. *)
LEMMA CurrentSame ==
  ASSUME NEW T, NEW H, NEW P, mem'[H] = mem[H]
  PROVE  /\ ReadDone(H, P)' = ReadDone(H, P)
         /\ DataMsg(T, H, P)' = DataMsg(T, H, P)
         /\ WriteOp(H, P)' = WriteOp(H, P)
  BY DEF ReadDone, DataMsg, WriteOp, Current

(* Requests for chunks stay what they are when their queues do. *)
LEMMA WantKept ==
  ASSUME NEW T, NEW H, NEW P, WantShape(T, H, P),
         toPullFromAnotherPMC'[T] = toPullFromAnotherPMC[T],
         wire'[T] = wire[T], remotePort'[H] = remotePort[H]
  PROVE  WantShape(T, H, P)' /\ \A id : Wanting(T, H, id)' = Wanting(T, H, id)
  BY DEF WantShape, Wanting

(* Reads at the host stay current while the host's memory and queues do. *)
LEMMA ReadKept ==
  ASSUME NEW T, NEW H, NEW P, ReadShape(T, H, P), mem'[H] = mem[H],
         toSendLocalMemPort'[H] = toSendLocalMemPort[H], memOps'[H] = memOps[H],
         localMemPort'[H] = localMemPort[H], requestingPMCtrlPort'[H] = requestingPMCtrlPort[H]
  PROVE  ReadShape(T, H, P)' /\ \A id : Reading(H, id)' = Reading(H, id)
  <1>1. ReadDone(H, P)' = ReadDone(H, P)  BY CurrentSame
  <1>2. QED  BY <1>1 DEF ReadShape, Reading

(* Replies stay current while the host's memory and their queues do. *)
LEMMA ReplyKept ==
  ASSUME NEW T, NEW H, NEW P, ReplyShape(T, H, P), mem'[H] = mem[H],
         toRspToAnotherPMC'[H] = toRspToAnotherPMC[H],
         wire'[H] = wire[H], remotePort'[T] = remotePort[T]
  PROVE  ReplyShape(T, H, P)' /\ \A id : Replying(T, H, id)' = Replying(T, H, id)
  <1>1. DataMsg(T, H, P)' = DataMsg(T, H, P)  BY CurrentSame
  <1>2. QED  BY <1>1 DEF ReplyShape, Replying

(* Writes at the destination stay current while the host's memory and their queues do. *)
LEMMA WriteKept ==
  ASSUME NEW T, NEW H, NEW P, WriteShape(T, H, P), mem'[H] = mem[H],
         writeReqLocalMemPort'[T] = writeReqLocalMemPort[T],
         memOps'[T] = memOps[T], localMemPort'[T] = localMemPort[T]
  PROVE  /\ WriteShape(T, H, P)'
         /\ \A id : Writing(T, id)' = Writing(T, id) /\ Acking(T, id)' = Acking(T, id)
  <1>1. WriteOp(H, P)' = WriteOp(H, P)  BY CurrentSame
  <1>2. QED  BY <1>1 DEF WriteShape, Writing, Acking

PMCSame(g) ==
    /\ toPullFromAnotherPMC'[g] = toPullFromAnotherPMC[g]
    /\ writeReqLocalMemPort'[g] = writeReqLocalMemPort[g]
    /\ reqIDToWriteAddressMap'[g] = reqIDToWriteAddressMap[g]
    /\ numDataRspPendingForPageMigration'[g] = numDataRspPendingForPageMigration[g]
    /\ toSendLocalMemPort'[g] = toSendLocalMemPort[g]
    /\ toRspToAnotherPMC'[g] = toRspToAnotherPMC[g]
    /\ wire'[g] = wire[g] /\ remotePort'[g] = remotePort[g]
    /\ memOps'[g] = memOps[g] /\ localMemPort'[g] = localMemPort[g]

(* Controllers that have nothing to do stay so while their state does. *)
LEMMA BystandersKept ==
  ASSUME NEW T, NEW H, Bystanders(T, H),
         \A g \in GPU \ {T, H} : PMCSame(g),
         writeReqLocalMemPort'[H] = writeReqLocalMemPort[H],
         toPullFromAnotherPMC'[H] = toPullFromAnotherPMC[H],
         reqIDToWriteAddressMap'[H] = reqIDToWriteAddressMap[H],
         numDataRspPendingForPageMigration'[H] = numDataRspPendingForPageMigration[H],
         toSendLocalMemPort'[T] = toSendLocalMemPort[T],
         toRspToAnotherPMC'[T] = toRspToAnotherPMC[T]
  PROVE  Bystanders(T, H)'
  <1>1. ASSUME NEW g \in GPU \ {T, H} PROVE PMCOff(g)'
    BY DEF Bystanders, PMCOff, PMCSame
  <1>2. QED  BY <1>1 DEF Bystanders

(* The counts of a page add up when no chunk changes its state. *)
LEMMA CountedKept ==
  ASSUME NEW T, NEW H, NEW P, Counted(T, H, P), mem'[H] = mem[H], mem'[T] = mem[T],
         \A id \in Places(P) : /\ Pulling(T, H, id)' = Pulling(T, H, id)
                               /\ Writing(T, id)' = Writing(T, id)
                               /\ Acking(T, id)' = Acking(T, id)
  PROVE  Counted(T, H, P)'
  BY DEF Counted, Left

(* The table and the counter of replies fit while every chunk stays where it is. *)
LEMMA NumberedKept ==
  ASSUME NEW T, NEW H, NEW P, Numbered(T, H, P),
         reqIDToWriteAddressMap'[T] = reqIDToWriteAddressMap[T],
         numDataRspPendingForPageMigration'[T] = numDataRspPendingForPageMigration[T],
         \A id \in Places(P) : /\ Pulling(T, H, id)' = Pulling(T, H, id)
                               /\ Left(T, H, id)' = Left(T, H, id)
  PROVE  Numbered(T, H, P)'
  <1>1. { id \in Places(P) : Pulling(T, H, id)' = 1 } = { id \in Places(P) : Pulling(T, H, id) = 1 }  OBVIOUS
  <1>2. { id \in Places(P) : Left(T, H, id)' = 1 } = { id \in Places(P) : Left(T, H, id) = 1 }  OBVIOUS
  <1>3. QED  BY <1>1, <1>2 DEF Numbered

CopyAt(T, H, P) == PMCTypeOK /\ Copying(T, H, P)

(* A pull reaches the GPU the page comes from. *)
LEMMA PullDelivered ==
  ASSUME NEW T \in GPU, NEW H \in GPU, NEW P \in Page, CopyAt(T, H, P), Deliver(T)
  PROVE  Copying(T, H, P)'
  <1> USE DEF CopyAt
  <1>1. T # H /\ WantShape(T, H, P) /\ ReadShape(T, H, P) /\ ReplyShape(T, H, P) /\ WriteShape(T, H, P)
        /\ Bystanders(T, H) /\ Counted(T, H, P) /\ Numbered(T, H, P)
    BY DEF Copying
  <1>2. PICK q \in Seq(PullMsg(T, H, P)) : q = wire[T]  BY <1>1 DEF WantShape
  <1>3. q # <<>>  BY <1>2 DEF Deliver
  <1>4. PICK m \in PullMsg(T, H, P) : m = Head(q)  BY <1>2, <1>3
  <1>5. m.dst = H  BY DEF PullMsg
  <1>6. /\ remotePort[H] = <<>> /\ remotePort' = [remotePort EXCEPT ![H] = <<m>>]
        /\ wire' = [wire EXCEPT ![T] = Tail(q)]
        /\ UNCHANGED <<mem, migrationVars, pullVars, serveVars, memVars>>
    BY <1>2, <1>4, <1>5 DEF Deliver
  <1>7. /\ remotePort'[H] = <<m>> /\ wire'[T] = Tail(q)
        /\ \A g \in GPU : g # H => remotePort'[g] = remotePort[g]
        /\ \A g \in GPU : g # T => wire'[g] = wire[g]
        /\ UNCHANGED <<mem, toPullFromAnotherPMC, reqIDToWriteAddressMap, writeReqLocalMemPort,
                       requestingPMCtrlPort, toSendLocalMemPort, toRspToAnotherPMC, memOps, localMemPort,
                       numDataRspPendingForPageMigration>>
    BY <1>6 DEF PMCTypeOK, migrationVars, pullVars, serveVars, memVars
  <1>8. m \in Msg /\ Tail(q) \in Seq(PullMsg(T, H, P)) /\ <<m>> \in Seq(PullMsg(T, H, P))
    BY <1>3, MsgSets
  <1>9. WantShape(T, H, P)'  BY <1>1, <1>7, <1>8 DEF WantShape
  <1>10. ASSUME NEW id PROVE Wanting(T, H, id)' = Wanting(T, H, id)
    <2>1. Held(<<m>>, id) = One(m.id = id)  BY <1>8, HeldOne
    <2>2. Held(q, id) = Held(Tail(q), id) + One(m.id = id) /\ Held(Tail(q), id) \in Nat
      BY <1>3, <1>4, MsgSets, HeldTail
    <2>3. Held(remotePort[H], id) = 0  BY <1>6, HeldEmpty
    <2>4. Held(toPullFromAnotherPMC[T], id) \in Nat  BY <1>1, CountsAreNat
    <2>5. One(m.id = id) \in Nat  BY DEF One
    <2>6. QED  BY <1>2, <1>7, <2>1, <2>2, <2>3, <2>4, <2>5 DEF Wanting
  <1>11. ReadShape(T, H, P)' /\ \A id : Reading(H, id)' = Reading(H, id)  BY <1>1, <1>7, ReadKept
  <1>12. ReplyShape(T, H, P)' /\ \A id : Replying(T, H, id)' = Replying(T, H, id)  BY <1>1, <1>7, ReplyKept
  <1>13. WriteShape(T, H, P)' /\ \A id : Writing(T, id)' = Writing(T, id) /\ Acking(T, id)' = Acking(T, id)
    BY <1>1, <1>7, WriteKept
  <1>14. Bystanders(T, H)'
    <2>1. \A g \in GPU \ {T, H} : PMCSame(g)  BY <1>7 DEF PMCSame
    <2>2. QED  BY <1>1, <1>7, <2>1, BystandersKept
  <1>15. \A id \in Places(P) : /\ Pulling(T, H, id)' = Pulling(T, H, id)
                               /\ Writing(T, id)' = Writing(T, id)
                               /\ Acking(T, id)' = Acking(T, id)
                               /\ Left(T, H, id)' = Left(T, H, id)
    BY <1>10, <1>11, <1>12, <1>13 DEF Pulling, Left
  <1>16. Counted(T, H, P)'  BY <1>1, <1>7, <1>15, CountedKept
  <1>17. Numbered(T, H, P)'  BY <1>1, <1>7, <1>15, NumberedKept
  <1>18. QED  BY <1>1, <1>9, <1>11, <1>12, <1>13, <1>14, <1>16, <1>17 DEF Copying

(* The parts of Copying. *)
LEMMA CopyParts ==
  ASSUME NEW T, NEW H, NEW P, Copying(T, H, P)
  PROVE  /\ T # H /\ WantShape(T, H, P) /\ ReadShape(T, H, P) /\ ReplyShape(T, H, P) /\ WriteShape(T, H, P)
         /\ Bystanders(T, H) /\ Counted(T, H, P) /\ Numbered(T, H, P)
  BY DEF Copying

(* A copy goes on when each kind of message keeps its shape and each chunk stays where it is. *)
LEMMA CopyKept ==
  ASSUME NEW T \in GPU, NEW H \in GPU, NEW P \in Page, Copying(T, H, P),
         WantShape(T, H, P)', ReadShape(T, H, P)', ReplyShape(T, H, P)', WriteShape(T, H, P)',
         mem'[H] = mem[H], mem'[T] = mem[T],
         reqIDToWriteAddressMap' = reqIDToWriteAddressMap,
         numDataRspPendingForPageMigration' = numDataRspPendingForPageMigration,
         writeReqLocalMemPort'[H] = writeReqLocalMemPort[H],
         toPullFromAnotherPMC'[H] = toPullFromAnotherPMC[H],
         toSendLocalMemPort'[T] = toSendLocalMemPort[T],
         toRspToAnotherPMC'[T] = toRspToAnotherPMC[T],
         \A g \in GPU \ {T, H} : PMCSame(g),
         \A id \in Places(P) : /\ Pulling(T, H, id)' = Pulling(T, H, id)
                               /\ Writing(T, id)' = Writing(T, id)
                               /\ Acking(T, id)' = Acking(T, id)
  PROVE  Copying(T, H, P)'
  <1>1. T # H /\ Bystanders(T, H) /\ Counted(T, H, P) /\ Numbered(T, H, P)  BY DEF Copying
  <1>2. Bystanders(T, H)'  BY <1>1, BystandersKept
  <1>3. Counted(T, H, P)'  BY <1>1, CountedKept
  <1>4. \A id \in Places(P) : Left(T, H, id)' = Left(T, H, id)  BY DEF Left
  <1>5. Numbered(T, H, P)'  BY <1>1, <1>4, NumberedKept
  <1>6. QED  BY <1>1, <1>2, <1>3, <1>5 DEF Copying

(* Data reaches the GPU the page goes to. *)
LEMMA DataDelivered ==
  ASSUME NEW T \in GPU, NEW H \in GPU, NEW P \in Page, CopyAt(T, H, P), Deliver(H)
  PROVE  Copying(T, H, P)'
  <1> USE DEF CopyAt
  <1>1. T # H /\ WantShape(T, H, P) /\ ReadShape(T, H, P) /\ ReplyShape(T, H, P) /\ WriteShape(T, H, P)
    BY CopyParts
  <1>2. PICK q \in Seq(DataMsg(T, H, P)) : q = wire[H]  BY <1>1 DEF ReplyShape
  <1>3. q # <<>>  BY <1>2 DEF Deliver
  <1>4. PICK m \in DataMsg(T, H, P) : m = Head(q)  BY <1>2, <1>3
  <1>5. m.dst = T  BY DEF DataMsg, Current
  <1>6. /\ remotePort[T] = <<>> /\ remotePort' = [remotePort EXCEPT ![T] = <<m>>]
        /\ wire' = [wire EXCEPT ![H] = Tail(q)]
        /\ UNCHANGED <<mem, migrationVars, pullVars, serveVars, memVars>>
    BY <1>2, <1>4, <1>5 DEF Deliver
  <1>7. /\ remotePort'[T] = <<m>> /\ wire'[H] = Tail(q)
        /\ \A g \in GPU : g # T => remotePort'[g] = remotePort[g]
        /\ \A g \in GPU : g # H => wire'[g] = wire[g]
        /\ UNCHANGED <<mem, toPullFromAnotherPMC, reqIDToWriteAddressMap, writeReqLocalMemPort,
                       requestingPMCtrlPort, toSendLocalMemPort, toRspToAnotherPMC, memOps, localMemPort,
                       numDataRspPendingForPageMigration>>
    BY <1>6 DEF PMCTypeOK, migrationVars, pullVars, serveVars, memVars
  <1>8. m \in Msg /\ Tail(q) \in Seq(DataMsg(T, H, P)) /\ <<m>> \in Seq(DataMsg(T, H, P))
    BY <1>3, MsgSets
  <1>9. ReplyShape(T, H, P)'
    <2>1. DataMsg(T, H, P)' = DataMsg(T, H, P)  BY <1>7, CurrentSame
    <2>2. QED  BY <1>1, <1>7, <1>8, <2>1 DEF ReplyShape
  <1>10. ASSUME NEW id PROVE Replying(T, H, id)' = Replying(T, H, id)
    <2>1. Held(<<m>>, id) = One(m.id = id)  BY <1>8, HeldOne
    <2>2. Held(q, id) = Held(Tail(q), id) + One(m.id = id) /\ Held(Tail(q), id) \in Nat
      BY <1>3, <1>4, MsgSets, HeldTail
    <2>3. Held(remotePort[T], id) = 0  BY <1>6, HeldEmpty
    <2>4. Held(toRspToAnotherPMC[H], id) \in Nat  BY <1>1, CountsAreNat
    <2>5. One(m.id = id) \in Nat  BY DEF One
    <2>6. QED  BY <1>2, <1>7, <2>1, <2>2, <2>3, <2>4, <2>5 DEF Replying
  <1>11. ReadShape(T, H, P)' /\ \A id : Reading(H, id)' = Reading(H, id)  BY <1>1, <1>7, ReadKept
  <1>12. WantShape(T, H, P)' /\ \A id : Wanting(T, H, id)' = Wanting(T, H, id)  BY <1>1, <1>7, WantKept
  <1>13. WriteShape(T, H, P)' /\ \A id : Writing(T, id)' = Writing(T, id) /\ Acking(T, id)' = Acking(T, id)
    BY <1>1, <1>7, WriteKept
  <1>14. \A g \in GPU \ {T, H} : PMCSame(g)  BY <1>7 DEF PMCSame
  <1>15. \A id \in Places(P) : Pulling(T, H, id)' = Pulling(T, H, id)
    BY <1>10, <1>11, <1>12 DEF Pulling
  <1>16. QED  BY <1>1, <1>7, <1>9, <1>11, <1>12, <1>13, <1>14, <1>15, CopyKept

(* The pulls leave the GPU the page goes to, as many as the connection takes. *)
LEMMA PullsSent ==
  ASSUME NEW T \in GPU, NEW H \in GPU, NEW P \in Page, CopyAt(T, H, P),
         SendMigrationReqToAnotherPMC(T)
  PROVE  Copying(T, H, P)'
  <1> USE DEF CopyAt
  <1>1. T # H /\ WantShape(T, H, P) /\ ReadShape(T, H, P) /\ ReplyShape(T, H, P) /\ WriteShape(T, H, P)
    BY CopyParts
  <1>2. PICK q \in Seq(PullMsg(T, H, P)) : q = toPullFromAnotherPMC[T]  BY <1>1 DEF WantShape
  <1>3. PICK r \in Seq(PullMsg(T, H, P)) : r = wire[T]  BY <1>1 DEF WantShape
  <1>4. PICK n : n = Sendable(T, toPullFromAnotherPMC[T])  OBVIOUS
  <1>5. n \in 1..Len(q)
    <2>1. n > 0 /\ n = Least(Len(q), WireCap - Len(r))
      BY <1>2, <1>3, <1>4 DEF SendMigrationReqToAnotherPMC, Sendable
    <2>2. WireCap - Len(r) \in Int /\ Len(q) \in Nat  BY PMCAssumption
    <2>3. QED  BY <2>1, <2>2 DEF Least
  <1>6. /\ wire' = [wire EXCEPT ![T] = r \o SubSeq(q, 1, n)]
        /\ toPullFromAnotherPMC' = [toPullFromAnotherPMC EXCEPT ![T] = SubSeq(q, n + 1, Len(q))]
        /\ UNCHANGED <<mem, migrationVars, reqIDToWriteAddressMap, writeReqLocalMemPort,
                       serveVars, remotePort, memVars>>
    BY <1>2, <1>3, <1>4 DEF SendMigrationReqToAnotherPMC
  <1>7. /\ wire'[T] = r \o SubSeq(q, 1, n) /\ toPullFromAnotherPMC'[T] = SubSeq(q, n + 1, Len(q))
        /\ \A g \in GPU : g # T => toPullFromAnotherPMC'[g] = toPullFromAnotherPMC[g]
        /\ \A g \in GPU : g # T => wire'[g] = wire[g]
        /\ UNCHANGED <<mem, reqIDToWriteAddressMap, writeReqLocalMemPort, remotePort,
                       requestingPMCtrlPort, toSendLocalMemPort, toRspToAnotherPMC, memOps, localMemPort,
                       numDataRspPendingForPageMigration>>
    BY <1>6 DEF PMCTypeOK, migrationVars, pullVars, serveVars, memVars
  <1>8. ASSUME NEW id
        PROVE  /\ r \o SubSeq(q, 1, n) \in Seq(PullMsg(T, H, P))
               /\ SubSeq(q, n + 1, Len(q)) \in Seq(PullMsg(T, H, P))
               /\ Held(r \o SubSeq(q, 1, n), id) + Held(SubSeq(q, n + 1, Len(q)), id)
                    = Held(r, id) + Held(q, id)
               /\ Held(r \o SubSeq(q, 1, n), id) \in Nat /\ Held(SubSeq(q, n + 1, Len(q)), id) \in Nat
    BY <1>5, HeldPrefix
  <1>9. WantShape(T, H, P)'  BY <1>1, <1>7, <1>8 DEF WantShape
  <1>10. ASSUME NEW id PROVE Wanting(T, H, id)' = Wanting(T, H, id)
    <2>1. Held(remotePort[H], id) \in Nat /\ Held(r, id) \in Nat /\ Held(q, id) \in Nat
      BY <1>1, <1>2, <1>3, CountsAreNat
    <2>2. Held(r \o SubSeq(q, 1, n), id) + Held(SubSeq(q, n + 1, Len(q)), id) = Held(r, id) + Held(q, id)
          /\ Held(r \o SubSeq(q, 1, n), id) \in Nat /\ Held(SubSeq(q, n + 1, Len(q)), id) \in Nat
      BY <1>8
    <2>3. Held(wire'[T], id) + Held(toPullFromAnotherPMC'[T], id)
             = Held(wire[T], id) + Held(toPullFromAnotherPMC[T], id)
          /\ Held(wire'[T], id) \in Nat /\ Held(toPullFromAnotherPMC'[T], id) \in Nat
      BY <1>2, <1>3, <1>7, <2>2
    <2>4. QED  BY <1>2, <1>3, <1>7, <2>1, <2>3 DEF Wanting
  <1>11. ReadShape(T, H, P)' /\ \A id : Reading(H, id)' = Reading(H, id)  BY <1>1, <1>7, ReadKept
  <1>12. ReplyShape(T, H, P)' /\ \A id : Replying(T, H, id)' = Replying(T, H, id)  BY <1>1, <1>7, ReplyKept
  <1>13. WriteShape(T, H, P)' /\ \A id : Writing(T, id)' = Writing(T, id) /\ Acking(T, id)' = Acking(T, id)
    BY <1>1, <1>7, WriteKept
  <1>14. \A g \in GPU \ {T, H} : PMCSame(g)  BY <1>7 DEF PMCSame
  <1>15. \A id \in Places(P) : Pulling(T, H, id)' = Pulling(T, H, id)
    BY <1>10, <1>11, <1>12 DEF Pulling
  <1>16. QED  BY <1>1, <1>7, <1>9, <1>11, <1>12, <1>13, <1>14, <1>15, CopyKept

(* The data leaves the GPU the page comes from. *)
LEMMA DataSent ==
  ASSUME NEW T \in GPU, NEW H \in GPU, NEW P \in Page, CopyAt(T, H, P),
         SendDataReadyRspToRequestingPMC(H)
  PROVE  Copying(T, H, P)'
  <1> USE DEF CopyAt
  <1>1. T # H /\ WantShape(T, H, P) /\ ReadShape(T, H, P) /\ ReplyShape(T, H, P) /\ WriteShape(T, H, P)
    BY CopyParts
  <1>2. PICK q \in Seq(DataMsg(T, H, P)) : q = toRspToAnotherPMC[H]  BY <1>1 DEF ReplyShape
  <1>3. PICK r \in Seq(DataMsg(T, H, P)) : r = wire[H]  BY <1>1 DEF ReplyShape
  <1>4. PICK n : n = Sendable(H, toRspToAnotherPMC[H])  OBVIOUS
  <1>5. n \in 1..Len(q)
    <2>1. n > 0 /\ n = Least(Len(q), WireCap - Len(r))
      BY <1>2, <1>3, <1>4 DEF SendDataReadyRspToRequestingPMC, Sendable
    <2>2. WireCap - Len(r) \in Int /\ Len(q) \in Nat  BY PMCAssumption
    <2>3. QED  BY <2>1, <2>2 DEF Least
  <1>6. /\ wire' = [wire EXCEPT ![H] = r \o SubSeq(q, 1, n)]
        /\ toRspToAnotherPMC' = [toRspToAnotherPMC EXCEPT ![H] = SubSeq(q, n + 1, Len(q))]
        /\ UNCHANGED <<mem, migrationVars, pullVars, requestingPMCtrlPort, toSendLocalMemPort,
                       remotePort, memVars>>
    BY <1>2, <1>3, <1>4 DEF SendDataReadyRspToRequestingPMC
  <1>7. /\ wire'[H] = r \o SubSeq(q, 1, n) /\ toRspToAnotherPMC'[H] = SubSeq(q, n + 1, Len(q))
        /\ \A g \in GPU : g # H => toRspToAnotherPMC'[g] = toRspToAnotherPMC[g]
        /\ \A g \in GPU : g # H => wire'[g] = wire[g]
        /\ UNCHANGED <<mem, reqIDToWriteAddressMap, writeReqLocalMemPort, remotePort, toPullFromAnotherPMC,
                       requestingPMCtrlPort, toSendLocalMemPort, memOps, localMemPort,
                       numDataRspPendingForPageMigration>>
    BY <1>6 DEF PMCTypeOK, migrationVars, pullVars, serveVars, memVars
  <1>8. ASSUME NEW id
        PROVE  /\ r \o SubSeq(q, 1, n) \in Seq(DataMsg(T, H, P))
               /\ SubSeq(q, n + 1, Len(q)) \in Seq(DataMsg(T, H, P))
               /\ Held(r \o SubSeq(q, 1, n), id) + Held(SubSeq(q, n + 1, Len(q)), id)
                    = Held(r, id) + Held(q, id)
               /\ Held(r \o SubSeq(q, 1, n), id) \in Nat /\ Held(SubSeq(q, n + 1, Len(q)), id) \in Nat
    <2>1. PICK S : S = DataMsg(T, H, P)  OBVIOUS
    <2>2. q \in Seq(S) /\ r \in Seq(S)  BY <2>1
    <2>3. QED  BY <1>5, <2>1, <2>2, HeldPrefix
  <1>9. ReplyShape(T, H, P)'
    <2>1. DataMsg(T, H, P)' = DataMsg(T, H, P)  BY <1>7, CurrentSame
    <2>2. QED  BY <1>1, <1>7, <1>8, <2>1 DEF ReplyShape
  <1>10. ASSUME NEW id PROVE Replying(T, H, id)' = Replying(T, H, id)
    <2>1. Held(remotePort[T], id) \in Nat /\ Held(r, id) \in Nat /\ Held(q, id) \in Nat
      BY <1>1, <1>2, <1>3, CountsAreNat
    <2>2. Held(r \o SubSeq(q, 1, n), id) + Held(SubSeq(q, n + 1, Len(q)), id) = Held(r, id) + Held(q, id)
          /\ Held(r \o SubSeq(q, 1, n), id) \in Nat /\ Held(SubSeq(q, n + 1, Len(q)), id) \in Nat
      BY <1>8
    <2>3. Held(wire'[H], id) + Held(toRspToAnotherPMC'[H], id)
             = Held(wire[H], id) + Held(toRspToAnotherPMC[H], id)
          /\ Held(wire'[H], id) \in Nat /\ Held(toRspToAnotherPMC'[H], id) \in Nat
      BY <1>2, <1>3, <1>7, <2>2
    <2>4. QED  BY <1>2, <1>3, <1>7, <2>1, <2>3 DEF Replying
  <1>11. ReadShape(T, H, P)' /\ \A id : Reading(H, id)' = Reading(H, id)  BY <1>1, <1>7, ReadKept
  <1>12. WantShape(T, H, P)' /\ \A id : Wanting(T, H, id)' = Wanting(T, H, id)  BY <1>1, <1>7, WantKept
  <1>13. WriteShape(T, H, P)' /\ \A id : Writing(T, id)' = Writing(T, id) /\ Acking(T, id)' = Acking(T, id)
    BY <1>1, <1>7, WriteKept
  <1>14. \A g \in GPU \ {T, H} : PMCSame(g)  BY <1>7 DEF PMCSame
  <1>15. \A id \in Places(P) : Pulling(T, H, id)' = Pulling(T, H, id)
    BY <1>10, <1>11, <1>12 DEF Pulling
  <1>16. QED  BY <1>1, <1>7, <1>9, <1>11, <1>12, <1>13, <1>14, <1>15, CopyKept

(* Each chunk is in one place at most. *)
LEMMA OncePulled ==
  ASSUME NEW T \in GPU, NEW H \in GPU, NEW P \in Page, Copying(T, H, P), NEW id \in Places(P)
  PROVE  /\ Held(toSendLocalMemPort[H], id) + InMem(memOps[H], id) <= 1
         /\ Held(writeReqLocalMemPort[T], id) + InMem(memOps[T], id) <= 1
         /\ Wanting(T, H, id) \in {0, 1} /\ Reading(H, id) \in {0, 1} /\ Replying(T, H, id) \in {0, 1}
         /\ Pulling(T, H, id) \in {0, 1} /\ Writing(T, id) \in {0, 1} /\ Acking(T, id) \in {0, 1}
         /\ Left(T, H, id) \in {0, 1}
  <1>1. WantShape(T, H, P) /\ ReadShape(T, H, P) /\ ReplyShape(T, H, P) /\ WriteShape(T, H, P)
        /\ Counted(T, H, P)
    BY CopyParts
  <1>2. Left(T, H, id) = 0 \/ Left(T, H, id) = 1  BY <1>1 DEF Counted
  <1>3. /\ Held(toPullFromAnotherPMC[T], id) \in Nat /\ Held(wire[T], id) \in Nat
        /\ Held(remotePort[H], id) \in Nat
        /\ Held(toSendLocalMemPort[H], id) \in Nat /\ InMem(memOps[H], id) \in Nat
        /\ Held(localMemPort[H], id) \in Nat
        /\ Held(toRspToAnotherPMC[H], id) \in Nat /\ Held(wire[H], id) \in Nat
        /\ Held(remotePort[T], id) \in Nat
        /\ Held(writeReqLocalMemPort[T], id) \in Nat /\ InMem(memOps[T], id) \in Nat
        /\ Held(localMemPort[T], id) \in Nat
    BY <1>1, CountsAreNat
  <1>4. /\ Wanting(T, H, id) \in Nat /\ Reading(H, id) \in Nat /\ Replying(T, H, id) \in Nat
        /\ Writing(T, id) \in Nat /\ Acking(T, id) \in Nat
    BY <1>3 DEF Wanting, Reading, Replying, Writing, Acking
  <1>5. Pulling(T, H, id) = Wanting(T, H, id) + Reading(H, id) + Replying(T, H, id)  BY DEF Pulling
  <1>6. Left(T, H, id) = Pulling(T, H, id) + Writing(T, id) + Acking(T, id)  BY DEF Left
  <1>7. /\ Wanting(T, H, id) \in {0, 1} /\ Reading(H, id) \in {0, 1} /\ Replying(T, H, id) \in {0, 1}
        /\ Pulling(T, H, id) \in {0, 1} /\ Writing(T, id) \in {0, 1} /\ Acking(T, id) \in {0, 1}
        /\ Left(T, H, id) \in {0, 1}
    <2>1. PICK a \in Nat : a = Wanting(T, H, id)  BY <1>4
    <2>2. PICK r \in Nat : r = Reading(H, id)  BY <1>4
    <2>3. PICK l \in Nat : l = Replying(T, H, id)  BY <1>4
    <2>4. PICK w \in Nat : w = Writing(T, id)  BY <1>4
    <2>5. PICK k \in Nat : k = Acking(T, id)  BY <1>4
    <2>6. Pulling(T, H, id) = a + r + l  BY <1>5, <2>1, <2>2, <2>3
    <2>7. Left(T, H, id) = a + r + l + w + k  BY <1>6, <2>4, <2>5, <2>6
    <2>8. a + r + l + w + k = 0 \/ a + r + l + w + k = 1  BY <1>2, <2>7
    <2>9. /\ a \in {0, 1} /\ r \in {0, 1} /\ l \in {0, 1} /\ w \in {0, 1} /\ k \in {0, 1}
          /\ a + r + l \in {0, 1}
      BY <2>8
    <2>10. QED  BY <1>2, <2>1, <2>2, <2>3, <2>4, <2>5, <2>6, <2>9
  <1>8. Held(toSendLocalMemPort[H], id) + InMem(memOps[H], id) <= 1  BY <1>3, <1>7 DEF Reading
  <1>9. Held(writeReqLocalMemPort[T], id) + InMem(memOps[T], id) <= 1  BY <1>3, <1>7 DEF Writing
  <1>10. QED  BY <1>7, <1>8, <1>9

(* The reads are issued to the memory of the GPU the page comes from. *)
LEMMA ReadsSent ==
  ASSUME NEW T \in GPU, NEW H \in GPU, NEW P \in Page, CopyAt(T, H, P), SendReadReqLocalMemPort(H)
  PROVE  Copying(T, H, P)'
  <1> USE DEF CopyAt
  <1>1. T # H /\ WantShape(T, H, P) /\ ReadShape(T, H, P) /\ ReplyShape(T, H, P) /\ WriteShape(T, H, P)
    BY CopyParts
  <1>2. PICK q \in Seq(ReadOp(P)) : q = toSendLocalMemPort[H]  BY <1>1 DEF ReadShape
  <1>3. PICK ops \in SUBSET ReadOp(P) : ops = memOps[H]  BY <1>1 DEF ReadShape
  <1>4. /\ q # <<>>
        /\ memOps' = [memOps EXCEPT ![H] = ops \cup Ops(q)]
        /\ toSendLocalMemPort' = [toSendLocalMemPort EXCEPT ![H] = <<>>]
        /\ UNCHANGED <<mem, migrationVars, pullVars, requestingPMCtrlPort, toRspToAnotherPMC,
                       netVars, localMemPort>>
    BY <1>2, <1>3 DEF SendReadReqLocalMemPort
  <1>5. /\ memOps'[H] = ops \cup Ops(q) /\ toSendLocalMemPort'[H] = <<>>
        /\ \A g \in GPU : g # H => memOps'[g] = memOps[g]
        /\ \A g \in GPU : g # H => toSendLocalMemPort'[g] = toSendLocalMemPort[g]
        /\ UNCHANGED <<mem, toPullFromAnotherPMC, reqIDToWriteAddressMap, writeReqLocalMemPort, wire, remotePort,
                       requestingPMCtrlPort, toRspToAnotherPMC, localMemPort,
                       numDataRspPendingForPageMigration>>
    BY <1>4 DEF PMCTypeOK, migrationVars, pullVars, netVars
  <1>6. requestingPMCtrlPort[H] = T  BY <1>1, <1>2, <1>4 DEF ReadShape
  <1>7. Ops(q) \subseteq ReadOp(P)  BY LenProperties DEF Ops
  <1>8. ReadShape(T, H, P)'
    <2>1. ReadDone(H, P)' = ReadDone(H, P)  BY <1>5, CurrentSame
    <2>2. <<>> \in Seq(ReadOp(P))  OBVIOUS
    <2>3. QED  BY <1>1, <1>3, <1>5, <1>6, <1>7, <2>1, <2>2 DEF ReadShape
  <1>9. ASSUME NEW id \in Places(P) PROVE Reading(H, id)' = Reading(H, id)
    <2>1. Held(q, id) + InMem(ops, id) <= 1  BY <1>2, <1>3, OncePulled
    <2>2. InMem(ops \cup Ops(q), id) = Held(q, id) + InMem(ops, id)
      BY <2>1, MsgSets, InMemTakes
    <2>3. Held(<<>>, id) = 0  BY HeldEmpty
    <2>4. Held(q, id) \in Nat /\ InMem(ops, id) \in Nat /\ Held(localMemPort[H], id) \in Nat
      BY <1>1, <1>2, <1>3, CountsAreNat
    <2>5. QED  BY <1>2, <1>3, <1>5, <2>2, <2>3, <2>4 DEF Reading
  <1>11. ReplyShape(T, H, P)' /\ \A id : Replying(T, H, id)' = Replying(T, H, id)  BY <1>1, <1>5, ReplyKept
  <1>12. WantShape(T, H, P)' /\ \A id : Wanting(T, H, id)' = Wanting(T, H, id)  BY <1>1, <1>5, WantKept
  <1>13. WriteShape(T, H, P)' /\ \A id : Writing(T, id)' = Writing(T, id) /\ Acking(T, id)' = Acking(T, id)
    BY <1>1, <1>5, WriteKept
  <1>14. \A g \in GPU \ {T, H} : PMCSame(g)  BY <1>5 DEF PMCSame
  <1>15. \A id \in Places(P) : Pulling(T, H, id)' = Pulling(T, H, id)
    BY <1>9, <1>11, <1>12 DEF Pulling
  <1>16. QED  BY <1>1, <1>5, <1>8, <1>11, <1>12, <1>13, <1>14, <1>15, CopyKept

(* The writes are issued to the memory of the GPU the page goes to. *)
LEMMA WritesSent ==
  ASSUME NEW T \in GPU, NEW H \in GPU, NEW P \in Page, CopyAt(T, H, P), SendWriteReqLocalMemPort(T)
  PROVE  Copying(T, H, P)'
  <1> USE DEF CopyAt
  <1>1. T # H /\ WantShape(T, H, P) /\ ReadShape(T, H, P) /\ ReplyShape(T, H, P) /\ WriteShape(T, H, P)
    BY CopyParts
  <1>2. PICK q \in Seq(WriteOp(H, P)) : q = writeReqLocalMemPort[T]  BY <1>1 DEF WriteShape
  <1>3. PICK ops \in SUBSET WriteOp(H, P) : ops = memOps[T]  BY <1>1 DEF WriteShape
  <1>4. /\ memOps' = [memOps EXCEPT ![T] = ops \cup Ops(q)]
        /\ writeReqLocalMemPort' = [writeReqLocalMemPort EXCEPT ![T] = <<>>]
        /\ UNCHANGED <<mem, migrationVars, toPullFromAnotherPMC, reqIDToWriteAddressMap,
                       serveVars, netVars, localMemPort>>
    BY <1>2, <1>3 DEF SendWriteReqLocalMemPort
  <1>5. /\ memOps'[T] = ops \cup Ops(q) /\ writeReqLocalMemPort'[T] = <<>>
        /\ \A g \in GPU : g # T => memOps'[g] = memOps[g]
        /\ \A g \in GPU : g # T => writeReqLocalMemPort'[g] = writeReqLocalMemPort[g]
        /\ UNCHANGED <<mem, toPullFromAnotherPMC, reqIDToWriteAddressMap, toSendLocalMemPort, wire, remotePort,
                       requestingPMCtrlPort, toRspToAnotherPMC, localMemPort,
                       numDataRspPendingForPageMigration>>
    BY <1>4 DEF PMCTypeOK, migrationVars, serveVars, netVars
  <1>7. Ops(q) \subseteq WriteOp(H, P)  BY LenProperties DEF Ops
  <1>8. WriteShape(T, H, P)'
    <2>1. WriteOp(H, P)' = WriteOp(H, P)  BY <1>5, CurrentSame
    <2>2. <<>> \in Seq(WriteOp(H, P))  OBVIOUS
    <2>3. QED  BY <1>1, <1>3, <1>5, <1>7, <2>1, <2>2 DEF WriteShape
  <1>9. ASSUME NEW id \in Places(P)
        PROVE  Writing(T, id)' = Writing(T, id) /\ Acking(T, id)' = Acking(T, id)
    <2>1. Held(q, id) + InMem(ops, id) <= 1  BY <1>2, <1>3, OncePulled
    <2>2. InMem(ops \cup Ops(q), id) = Held(q, id) + InMem(ops, id)
      <3>1. PICK S : S = WriteOp(H, P)  OBVIOUS
      <3>2. S \subseteq Msg /\ q \in Seq(S) /\ ops \in SUBSET S  BY <3>1, MsgSets
      <3>3. QED  BY <2>1, <3>2, InMemTakes
    <2>3. Held(<<>>, id) = 0  BY HeldEmpty
    <2>4. Held(q, id) \in Nat /\ InMem(ops, id) \in Nat
      BY <1>1, <1>2, <1>3, CountsAreNat
    <2>5. QED  BY <1>2, <1>3, <1>5, <2>2, <2>3, <2>4 DEF Writing, Acking
  <1>11. ReplyShape(T, H, P)' /\ \A id : Replying(T, H, id)' = Replying(T, H, id)  BY <1>1, <1>5, ReplyKept
  <1>12. WantShape(T, H, P)' /\ \A id : Wanting(T, H, id)' = Wanting(T, H, id)  BY <1>1, <1>5, WantKept
  <1>13. ReadShape(T, H, P)' /\ \A id : Reading(H, id)' = Reading(H, id)  BY <1>1, <1>5, ReadKept
  <1>14. \A g \in GPU \ {T, H} : PMCSame(g)  BY <1>5 DEF PMCSame
  <1>15. \A id \in Places(P) : Pulling(T, H, id)' = Pulling(T, H, id)
    BY <1>11, <1>12, <1>13 DEF Pulling
  <1>16. QED  BY <1>1, <1>5, <1>8, <1>9, <1>11, <1>12, <1>13, <1>14, <1>15, CopyKept

(* The memory of the GPU the page comes from serves a read. *)
LEMMA ReadServed ==
  ASSUME NEW T \in GPU, NEW H \in GPU, NEW P \in Page, CopyAt(T, H, P), MemServes(H)
  PROVE  Copying(T, H, P)'
  <1> USE DEF CopyAt
  <1>1. T # H /\ WantShape(T, H, P) /\ ReadShape(T, H, P) /\ ReplyShape(T, H, P) /\ WriteShape(T, H, P)
    BY CopyParts
  <1>2. PICK ops \in SUBSET ReadOp(P) : ops = memOps[H]  BY <1>1 DEF ReadShape
  <1>3. PICK op \in ops :
           /\ localMemPort[H] = <<>>
           /\ memOps' = [memOps EXCEPT ![H] = ops \ {op}]
           /\ op.type = "read" =>
                /\ localMemPort' = [localMemPort EXCEPT ![H] = <<[op EXCEPT !.data = mem[H][op.id]]>>]
                /\ UNCHANGED mem
           /\ UNCHANGED <<migrationVars, pullVars, serveVars, netVars>>
    BY <1>2 DEF MemServes
  <1>4. op \in ReadOp(P)  BY <1>3
  <1>5. op.type = "read" /\ op.id \in Places(P)  BY <1>4 DEF ReadOp
  <1>6. PICK a : a = [op EXCEPT !.data = mem[H][op.id]]  OBVIOUS
  <1>7. a \in ReadDone(H, P) /\ a.id = op.id
    <2>1. op.id \in PullID  BY <1>5 DEF Places, PullID
    <2>2. mem[H][op.id] \in Data  BY <2>1 DEF PMCTypeOK
    <2>3. op \in [type : {"read"}, id : Places(P), data : {0}]  BY <1>4 DEF ReadOp
    <2>4. a \in [type : {"read"}, id : Places(P), data : Data] /\ a.id = op.id /\ a.data = mem[H][op.id]
      BY <1>6, <2>2, <2>3
    <2>5. QED  BY <2>4 DEF ReadDone, Current
  <1>8. /\ memOps'[H] = ops \ {op} /\ localMemPort'[H] = <<a>>
        /\ \A g \in GPU : g # H => memOps'[g] = memOps[g]
        /\ \A g \in GPU : g # H => localMemPort'[g] = localMemPort[g]
        /\ UNCHANGED <<mem, toPullFromAnotherPMC, reqIDToWriteAddressMap, toSendLocalMemPort, wire, remotePort,
                       requestingPMCtrlPort, toRspToAnotherPMC, writeReqLocalMemPort,
                       numDataRspPendingForPageMigration>>
    BY <1>3, <1>5, <1>6 DEF PMCTypeOK, migrationVars, pullVars, serveVars, netVars
  <1>9. requestingPMCtrlPort[H] = T  BY <1>1, <1>2, <1>3 DEF ReadShape
  <1>10. ReadShape(T, H, P)'
    <2>1. ReadDone(H, P)' = ReadDone(H, P)  BY <1>8, CurrentSame
    <2>2. <<a>> \in Seq(ReadDone(H, P))  BY <1>7
    <2>3. QED  BY <1>1, <1>2, <1>8, <1>9, <2>1, <2>2 DEF ReadShape
  <1>11. ASSUME NEW id \in Places(P) PROVE Reading(H, id)' = Reading(H, id)
    <2>1. \A o \in ops : o.id = op.id => o = op  BY <1>4 DEF ReadOp
    <2>2. InMem(ops, id) = InMem(ops \ {op}, id) + One(op.id = id)  BY <2>1, InMemServes
    <2>3. Held(<<a>>, id) = One(op.id = id)  BY <1>7, MsgSets, HeldOne
    <2>4. Held(localMemPort[H], id) = 0  BY <1>3, HeldEmpty
    <2>5. InMem(ops \ {op}, id) \in Nat /\ One(op.id = id) \in Nat  BY InMemType DEF One
    <2>6. Held(toSendLocalMemPort[H], id) \in Nat  BY <1>1, CountsAreNat
    <2>7. QED  BY <1>2, <1>8, <2>2, <2>3, <2>4, <2>5, <2>6 DEF Reading
  <1>12. WantShape(T, H, P)' /\ \A id : Wanting(T, H, id)' = Wanting(T, H, id)  BY <1>1, <1>8, WantKept
  <1>13. WriteShape(T, H, P)' /\ \A id : Writing(T, id)' = Writing(T, id) /\ Acking(T, id)' = Acking(T, id)
    BY <1>1, <1>8, WriteKept
  <1>14. ReplyShape(T, H, P)' /\ \A id : Replying(T, H, id)' = Replying(T, H, id)  BY <1>1, <1>8, ReplyKept
  <1>15. \A g \in GPU \ {T, H} : PMCSame(g)  BY <1>8 DEF PMCSame
  <1>16. \A id \in Places(P) : Pulling(T, H, id)' = Pulling(T, H, id)
    BY <1>11, <1>12, <1>14 DEF Pulling
  <1>17. QED  BY <1>1, <1>8, <1>10, <1>12, <1>13, <1>14, <1>15, <1>16, CopyKept

(* The memory of the GPU the page goes to serves a write. *)
LEMMA WriteServed ==
  ASSUME NEW T \in GPU, NEW H \in GPU, NEW P \in Page, CopyAt(T, H, P), MemServes(T)
  PROVE  Copying(T, H, P)'
  <1> USE DEF CopyAt
  <1>1. T # H /\ WantShape(T, H, P) /\ ReadShape(T, H, P) /\ ReplyShape(T, H, P) /\ WriteShape(T, H, P)
        /\ Bystanders(T, H) /\ Counted(T, H, P) /\ Numbered(T, H, P)
    BY CopyParts
  <1>2. PICK ops \in SUBSET WriteOp(H, P) : ops = memOps[T]  BY <1>1 DEF WriteShape
  <1>3. PICK op \in ops :
           /\ localMemPort[T] = <<>>
           /\ memOps' = [memOps EXCEPT ![T] = ops \ {op}]
           /\ op.type # "read" =>
                /\ localMemPort' = [localMemPort EXCEPT ![T] = <<op>>]
                /\ mem' = [mem EXCEPT ![T][op.id] = op.data]
           /\ UNCHANGED <<migrationVars, pullVars, serveVars, netVars>>
    BY <1>2 DEF MemServes
  <1>4. op \in WriteOp(H, P)  BY <1>3
  <1>5. op.type = "write" /\ op.id \in Places(P) /\ op.data = mem[H][op.id]
    BY <1>4 DEF WriteOp, Current
  <1>6. op.id \in PullID  BY <1>5 DEF Places, PullID
  <1>7. /\ memOps'[T] = ops \ {op} /\ localMemPort'[T] = <<op>>
        /\ \A g \in GPU : g # T => memOps'[g] = memOps[g]
        /\ \A g \in GPU : g # T => localMemPort'[g] = localMemPort[g]
        /\ \A g \in GPU : g # T => mem'[g] = mem[g]
        /\ UNCHANGED <<toPullFromAnotherPMC, reqIDToWriteAddressMap, toSendLocalMemPort, wire, remotePort,
                       requestingPMCtrlPort, toRspToAnotherPMC, writeReqLocalMemPort,
                       numDataRspPendingForPageMigration>>
    BY <1>3, <1>5 DEF PMCTypeOK, migrationVars, pullVars, serveVars, netVars
  <1>8. mem'[T][op.id] = mem[H][op.id] /\ \A id \in PullID : id # op.id => mem'[T][id] = mem[T][id]
    BY <1>3, <1>5, <1>6 DEF PMCTypeOK
  <1>9. mem'[H] = mem[H]  BY <1>1, <1>7
  <1>10. WriteShape(T, H, P)'
    <2>1. WriteOp(H, P)' = WriteOp(H, P)  BY <1>9, CurrentSame
    <2>2. <<op>> \in Seq(WriteOp(H, P))  BY <1>4
    <2>3. QED  BY <1>1, <1>2, <1>7, <2>1, <2>2 DEF WriteShape
  <1>11. ASSUME NEW id \in Places(P)
         PROVE  /\ Writing(T, id) = Writing(T, id)' + One(op.id = id)
                /\ Acking(T, id)' = Acking(T, id) + One(op.id = id)
                /\ Writing(T, id)' \in Nat /\ Acking(T, id) \in Nat
    <2>1. \A o \in ops : o.id = op.id => o = op  BY <1>4 DEF WriteOp, Current
    <2>2. InMem(ops, id) = InMem(ops \ {op}, id) + One(op.id = id)  BY <2>1, InMemServes
    <2>3. Held(<<op>>, id) = One(op.id = id)  BY <1>4, MsgSets, HeldOne
    <2>4. Held(localMemPort[T], id) = 0  BY <1>3, HeldEmpty
    <2>5. InMem(ops \ {op}, id) \in Nat /\ One(op.id = id) \in Nat  BY InMemType DEF One
    <2>6. Held(writeReqLocalMemPort[T], id) \in Nat  BY <1>1, CountsAreNat
    <2>7. QED  BY <1>2, <1>7, <2>2, <2>3, <2>4, <2>5, <2>6 DEF Writing, Acking
  <1>12. WantShape(T, H, P)' /\ \A id : Wanting(T, H, id)' = Wanting(T, H, id)  BY <1>1, <1>7, WantKept
  <1>13. ReadShape(T, H, P)' /\ \A id : Reading(H, id)' = Reading(H, id)  BY <1>1, <1>7, <1>9, ReadKept
  <1>14. ReplyShape(T, H, P)' /\ \A id : Replying(T, H, id)' = Replying(T, H, id)  BY <1>1, <1>7, <1>9, ReplyKept
  <1>15. \A id \in Places(P) : Pulling(T, H, id)' = Pulling(T, H, id)
    BY <1>12, <1>13, <1>14 DEF Pulling
  <1>16. Bystanders(T, H)'
    <2>1. \A g \in GPU \ {T, H} : PMCSame(g)  BY <1>7 DEF PMCSame
    <2>2. QED  BY <1>1, <1>7, <2>1, BystandersKept
  <1>17. \A id \in Places(P) : Left(T, H, id)' = Left(T, H, id)
    <2> SUFFICES ASSUME NEW id \in Places(P) PROVE Left(T, H, id)' = Left(T, H, id)  OBVIOUS
    <2>1. Pulling(T, H, id)' = Pulling(T, H, id) /\ Pulling(T, H, id) \in Nat  BY <1>15, OncePulled
    <2>2. One(op.id = id) \in Nat  BY DEF One
    <2>3. QED  BY <1>11, <2>1, <2>2 DEF Left
  <1>18. Counted(T, H, P)'
    <2>1. \A id \in Places(P) : Left(T, H, id)' \in {0, 1}  BY <1>1, <1>17 DEF Counted
    <2>2. ASSUME NEW id \in Places(P), Pulling(T, H, id)' + Writing(T, id)' = 0
          PROVE  mem'[T][id] = mem'[H][id]
      <3>1. CASE id = op.id  BY <1>8, <1>9, <3>1
      <3>2. CASE id # op.id
        <4>1. Writing(T, id)' = Writing(T, id)  BY <1>11, <3>2 DEF One
        <4>2. Pulling(T, H, id) + Writing(T, id) = 0  BY <1>15, <2>2, <4>1
        <4>3. mem[T][id] = mem[H][id]  BY <1>1, <4>2 DEF Counted
        <4>4. id \in PullID  BY DEF Places, PullID
        <4>5. QED  BY <1>8, <1>9, <3>2, <4>3, <4>4
      <3>3. QED  BY <3>1, <3>2
    <2>3. QED  BY <2>1, <2>2 DEF Counted
  <1>19. Numbered(T, H, P)'  BY <1>1, <1>7, <1>15, <1>17, NumberedKept
  <1>20. QED  BY <1>1, <1>10, <1>12, <1>13, <1>14, <1>16, <1>18, <1>19 DEF Copying

(* A pull becomes a read. *)
LEMMA PullHandled ==
  ASSUME NEW T \in GPU, NEW H \in GPU, NEW P \in Page, CopyAt(T, H, P), HandleDataPullReq(H)
  PROVE  Copying(T, H, P)'
  <1> USE DEF CopyAt
  <1>1. T # H /\ WantShape(T, H, P) /\ ReadShape(T, H, P) /\ ReplyShape(T, H, P) /\ WriteShape(T, H, P)
    BY CopyParts
  <1>2. PICK q \in Seq(PullMsg(T, H, P)) : q = remotePort[H]  BY <1>1 DEF WantShape
  <1>3. PICK r \in Seq(ReadOp(P)) : r = toSendLocalMemPort[H]  BY <1>1 DEF ReadShape
  <1>4. q # <<>>  BY <1>2 DEF HandleDataPullReq
  <1>5. PICK m \in PullMsg(T, H, P) : m = Head(q)  BY <1>4
  <1>6. m.src = T /\ m.id \in Places(P)  BY DEF PullMsg
  <1>7. PICK o : o = [type |-> "read", id |-> m.id, data |-> 0]  OBVIOUS
  <1>8. o \in ReadOp(P) /\ o.id = m.id  BY <1>6, <1>7 DEF ReadOp
  <1>9. /\ requestingPMCtrlPort' = [requestingPMCtrlPort EXCEPT ![H] = T]
        /\ toSendLocalMemPort' = [toSendLocalMemPort EXCEPT ![H] = Append(r, o)]
        /\ remotePort' = [remotePort EXCEPT ![H] = Tail(q)]
        /\ UNCHANGED <<mem, migrationVars, pullVars, toRspToAnotherPMC, wire, memVars>>
    BY <1>2, <1>3, <1>5, <1>6, <1>7 DEF HandleDataPullReq
  <1>10. /\ requestingPMCtrlPort'[H] = T /\ toSendLocalMemPort'[H] = Append(r, o) /\ remotePort'[H] = Tail(q)
         /\ \A g \in GPU : g # H => toSendLocalMemPort'[g] = toSendLocalMemPort[g]
         /\ \A g \in GPU : g # H => remotePort'[g] = remotePort[g]
         /\ UNCHANGED <<mem, toPullFromAnotherPMC, reqIDToWriteAddressMap, wire, memOps, localMemPort,
                        toRspToAnotherPMC, writeReqLocalMemPort, numDataRspPendingForPageMigration>>
    BY <1>9 DEF PMCTypeOK, migrationVars, pullVars, memVars
  <1>11. ASSUME NEW id
         PROVE  /\ Tail(q) \in Seq(PullMsg(T, H, P)) /\ Held(Tail(q), id) \in Nat
                /\ Held(q, id) = Held(Tail(q), id) + One(m.id = id)
    BY <1>4, <1>5, MsgSets, HeldTail
  <1>12. ASSUME NEW id
         PROVE  /\ Append(r, o) \in Seq(ReadOp(P)) /\ Held(r, id) \in Nat
                /\ Held(Append(r, o), id) = Held(r, id) + One(m.id = id)
    BY <1>8, MsgSets, HeldAppend
  <1>13. WantShape(T, H, P)'  BY <1>1, <1>10, <1>11 DEF WantShape
  <1>14. ReadShape(T, H, P)'
    <2>1. ReadDone(H, P)' = ReadDone(H, P)  BY <1>10, CurrentSame
    <2>2. QED  BY <1>1, <1>10, <1>12, <2>1 DEF ReadShape
  <1>15. ReplyShape(T, H, P)' /\ \A id : Replying(T, H, id)' = Replying(T, H, id)  BY <1>1, <1>10, ReplyKept
  <1>16. WriteShape(T, H, P)' /\ \A id : Writing(T, id)' = Writing(T, id) /\ Acking(T, id)' = Acking(T, id)
    BY <1>1, <1>10, WriteKept
  <1>17. \A g \in GPU \ {T, H} : PMCSame(g)  BY <1>10 DEF PMCSame
  <1>18. ASSUME NEW id \in Places(P) PROVE Pulling(T, H, id)' = Pulling(T, H, id)
    <2>1. /\ Held(toPullFromAnotherPMC[T], id) \in Nat /\ Held(wire[T], id) \in Nat
          /\ InMem(memOps[H], id) \in Nat /\ Held(localMemPort[H], id) \in Nat
      BY <1>1, CountsAreNat
    <2>2. One(m.id = id) \in Nat  BY DEF One
    <2>3. Wanting(T, H, id) = Wanting(T, H, id)' + One(m.id = id) /\ Wanting(T, H, id)' \in Nat
      BY <1>2, <1>10, <1>11, <2>1, <2>2 DEF Wanting
    <2>4. Reading(H, id)' = Reading(H, id) + One(m.id = id) /\ Reading(H, id) \in Nat
      BY <1>3, <1>10, <1>12, <2>1, <2>2 DEF Reading
    <2>5. Replying(T, H, id)' = Replying(T, H, id) /\ Replying(T, H, id) \in Nat
      BY <1>15, OncePulled
    <2>6. QED  BY <2>2, <2>3, <2>4, <2>5 DEF Pulling
  <1>19. QED  BY <1>1, <1>10, <1>13, <1>14, <1>15, <1>16, <1>17, <1>18, CopyKept

(* A chunk that was read becomes data for who pulled it. *)
LEMMA ReadHandled ==
  ASSUME NEW T \in GPU, NEW H \in GPU, NEW P \in Page, CopyAt(T, H, P), HandleDataReadyRspFromMemCtrl(H)
  PROVE  Copying(T, H, P)'
  <1> USE DEF CopyAt
  <1>1. T # H /\ WantShape(T, H, P) /\ ReadShape(T, H, P) /\ ReplyShape(T, H, P) /\ WriteShape(T, H, P)
    BY CopyParts
  <1>2. PICK q \in Seq(ReadDone(H, P)) : q = localMemPort[H]  BY <1>1 DEF ReadShape
  <1>3. PICK r \in Seq(DataMsg(T, H, P)) : r = toRspToAnotherPMC[H]  BY <1>1 DEF ReplyShape
  <1>4. q # <<>>  BY <1>2 DEF HandleDataReadyRspFromMemCtrl
  <1>5. PICK m \in ReadDone(H, P) : m = Head(q)  BY <1>4
  <1>6. m.id \in Places(P) /\ m.data \in Data /\ m.data = mem[H][m.id]  BY DEF ReadDone, Current
  <1>7. requestingPMCtrlPort[H] = T  BY <1>1, <1>2, <1>4 DEF ReadShape
  <1>8. PICK o : o = [type |-> "data", id |-> m.id, dst |-> T, data |-> m.data]  OBVIOUS
  <1>9. o \in DataMsg(T, H, P) /\ o.id = m.id  BY <1>6, <1>8 DEF DataMsg, Current
  <1>10. /\ toRspToAnotherPMC' = [toRspToAnotherPMC EXCEPT ![H] = Append(r, o)]
         /\ localMemPort' = [localMemPort EXCEPT ![H] = Tail(q)]
         /\ UNCHANGED <<mem, migrationVars, pullVars, requestingPMCtrlPort, toSendLocalMemPort,
                        netVars, memOps>>
    BY <1>2, <1>3, <1>5, <1>7, <1>8 DEF HandleDataReadyRspFromMemCtrl
  <1>11. /\ toRspToAnotherPMC'[H] = Append(r, o) /\ localMemPort'[H] = Tail(q)
         /\ \A g \in GPU : g # H => toRspToAnotherPMC'[g] = toRspToAnotherPMC[g]
         /\ \A g \in GPU : g # H => localMemPort'[g] = localMemPort[g]
         /\ UNCHANGED <<mem, toPullFromAnotherPMC, reqIDToWriteAddressMap, wire, remotePort, memOps,
                        requestingPMCtrlPort, toSendLocalMemPort, writeReqLocalMemPort,
                        numDataRspPendingForPageMigration>>
    BY <1>10 DEF PMCTypeOK, migrationVars, pullVars, netVars
  <1>12. ASSUME NEW id
         PROVE  /\ Tail(q) \in Seq(ReadDone(H, P)) /\ Held(Tail(q), id) \in Nat
                /\ Held(q, id) = Held(Tail(q), id) + One(m.id = id)
    <2>1. PICK S : S = ReadDone(H, P)  OBVIOUS
    <2>2. S \subseteq Msg /\ q \in Seq(S)  BY <2>1, MsgSets
    <2>3. QED  BY <1>4, <1>5, <2>1, <2>2, HeldTail
  <1>13. ASSUME NEW id
         PROVE  /\ Append(r, o) \in Seq(DataMsg(T, H, P)) /\ Held(r, id) \in Nat
                /\ Held(Append(r, o), id) = Held(r, id) + One(m.id = id)
    <2>1. PICK S : S = DataMsg(T, H, P)  OBVIOUS
    <2>2. S \subseteq Msg /\ r \in Seq(S) /\ o \in S  BY <1>9, <2>1, MsgSets
    <2>3. QED  BY <1>9, <2>1, <2>2, HeldAppend
  <1>14. ReadShape(T, H, P)'
    <2>1. ReadDone(H, P)' = ReadDone(H, P)  BY <1>11, CurrentSame
    <2>2. QED  BY <1>1, <1>7, <1>11, <1>12, <2>1 DEF ReadShape
  <1>15. ReplyShape(T, H, P)'
    <2>1. DataMsg(T, H, P)' = DataMsg(T, H, P)  BY <1>11, CurrentSame
    <2>2. QED  BY <1>1, <1>11, <1>13, <2>1 DEF ReplyShape
  <1>16. WantShape(T, H, P)' /\ \A id : Wanting(T, H, id)' = Wanting(T, H, id)  BY <1>1, <1>11, WantKept
  <1>17. WriteShape(T, H, P)' /\ \A id : Writing(T, id)' = Writing(T, id) /\ Acking(T, id)' = Acking(T, id)
    BY <1>1, <1>11, WriteKept
  <1>18. \A g \in GPU \ {T, H} : PMCSame(g)  BY <1>11 DEF PMCSame
  <1>19. ASSUME NEW id \in Places(P) PROVE Pulling(T, H, id)' = Pulling(T, H, id)
    <2>1. /\ Held(toSendLocalMemPort[H], id) \in Nat /\ InMem(memOps[H], id) \in Nat
          /\ Held(wire[H], id) \in Nat /\ Held(remotePort[T], id) \in Nat
      BY <1>1, CountsAreNat
    <2>2. One(m.id = id) \in Nat  BY DEF One
    <2>3. Reading(H, id) = Reading(H, id)' + One(m.id = id) /\ Reading(H, id)' \in Nat
      BY <1>2, <1>11, <1>12, <2>1, <2>2 DEF Reading
    <2>4. Replying(T, H, id)' = Replying(T, H, id) + One(m.id = id) /\ Replying(T, H, id) \in Nat
      BY <1>3, <1>11, <1>13, <2>1, <2>2 DEF Replying
    <2>5. Wanting(T, H, id)' = Wanting(T, H, id) /\ Wanting(T, H, id) \in Nat
      BY <1>16, OncePulled
    <2>6. QED  BY <2>2, <2>3, <2>4, <2>5 DEF Pulling
  <1>20. QED  BY <1>1, <1>11, <1>14, <1>15, <1>16, <1>17, <1>18, <1>19, CopyKept

(* A chunk that arrives becomes a write; nobody waits for its data any more. *)
LEMMA DataHandled ==
  ASSUME NEW T \in GPU, NEW H \in GPU, NEW P \in Page, CopyAt(T, H, P), HandleDataPullRsp(T)
  PROVE  Copying(T, H, P)'
  <1> USE DEF CopyAt
  <1>1. T # H /\ WantShape(T, H, P) /\ ReadShape(T, H, P) /\ ReplyShape(T, H, P) /\ WriteShape(T, H, P)
        /\ Bystanders(T, H) /\ Counted(T, H, P) /\ Numbered(T, H, P)
    BY CopyParts
  <1>2. PICK q \in Seq(DataMsg(T, H, P)) : q = remotePort[T]  BY <1>1 DEF ReplyShape
  <1>3. PICK r \in Seq(WriteOp(H, P)) : r = writeReqLocalMemPort[T]  BY <1>1 DEF WriteShape
  <1>4. q # <<>>  BY <1>2 DEF HandleDataPullRsp
  <1>5. PICK m \in DataMsg(T, H, P) : m = Head(q)  BY <1>4
  <1>6. m.id \in Places(P) /\ m.data \in Data /\ m.data = mem[H][m.id]  BY DEF DataMsg, Current
  <1>7. PICK o : o = [type |-> "write", id |-> m.id, data |-> m.data]  OBVIOUS
  <1>8. o \in WriteOp(H, P) /\ o.id = m.id  BY <1>6, <1>7 DEF WriteOp, Current
  <1>9. /\ writeReqLocalMemPort' = [writeReqLocalMemPort EXCEPT ![T] = Append(r, o)]
        /\ reqIDToWriteAddressMap' = [reqIDToWriteAddressMap EXCEPT ![T] = @ \ {m.id}]
        /\ remotePort' = [remotePort EXCEPT ![T] = Tail(q)]
        /\ UNCHANGED <<mem, migrationVars, toPullFromAnotherPMC, serveVars, wire, memVars>>
    BY <1>2, <1>3, <1>5, <1>7 DEF HandleDataPullRsp
  <1>10. /\ writeReqLocalMemPort'[T] = Append(r, o) /\ remotePort'[T] = Tail(q)
         /\ reqIDToWriteAddressMap'[T] = reqIDToWriteAddressMap[T] \ {m.id}
         /\ \A g \in GPU : g # T => writeReqLocalMemPort'[g] = writeReqLocalMemPort[g]
         /\ \A g \in GPU : g # T => reqIDToWriteAddressMap'[g] = reqIDToWriteAddressMap[g]
         /\ \A g \in GPU : g # T => remotePort'[g] = remotePort[g]
         /\ UNCHANGED <<mem, toPullFromAnotherPMC, wire, memOps, localMemPort, requestingPMCtrlPort,
                        toSendLocalMemPort, toRspToAnotherPMC, numDataRspPendingForPageMigration>>
    BY <1>9 DEF PMCTypeOK, migrationVars, serveVars, memVars
  <1>11. ASSUME NEW id
         PROVE  /\ Tail(q) \in Seq(DataMsg(T, H, P)) /\ Held(Tail(q), id) \in Nat
                /\ Held(q, id) = Held(Tail(q), id) + One(m.id = id)
    <2>1. PICK S : S = DataMsg(T, H, P)  OBVIOUS
    <2>2. S \subseteq Msg /\ q \in Seq(S)  BY <2>1, MsgSets
    <2>3. QED  BY <1>4, <1>5, <2>1, <2>2, HeldTail
  <1>12. ASSUME NEW id
         PROVE  /\ Append(r, o) \in Seq(WriteOp(H, P)) /\ Held(r, id) \in Nat
                /\ Held(Append(r, o), id) = Held(r, id) + One(m.id = id)
    <2>1. PICK S : S = WriteOp(H, P)  OBVIOUS
    <2>2. S \subseteq Msg /\ r \in Seq(S) /\ o \in S  BY <1>8, <2>1, MsgSets
    <2>3. QED  BY <1>8, <2>1, <2>2, HeldAppend
  <1>13. ReplyShape(T, H, P)'
    <2>1. DataMsg(T, H, P)' = DataMsg(T, H, P)  BY <1>10, CurrentSame
    <2>2. QED  BY <1>1, <1>10, <1>11, <2>1 DEF ReplyShape
  <1>14. WriteShape(T, H, P)'
    <2>1. WriteOp(H, P)' = WriteOp(H, P)  BY <1>10, CurrentSame
    <2>2. QED  BY <1>1, <1>10, <1>12, <2>1 DEF WriteShape
  <1>15. WantShape(T, H, P)' /\ \A id : Wanting(T, H, id)' = Wanting(T, H, id)  BY <1>1, <1>10, WantKept
  <1>16. ReadShape(T, H, P)' /\ \A id : Reading(H, id)' = Reading(H, id)  BY <1>1, <1>10, ReadKept
  <1>17. Bystanders(T, H)'
    <2>1. \A g \in GPU \ {T, H} : PMCSame(g)  BY <1>10 DEF PMCSame
    <2>2. QED  BY <1>1, <1>10, <2>1, BystandersKept
  <1>18. ASSUME NEW id \in Places(P)
         PROVE  /\ Pulling(T, H, id) = Pulling(T, H, id)' + One(m.id = id) /\ Pulling(T, H, id)' \in Nat
                /\ Writing(T, id)' = Writing(T, id) + One(m.id = id) /\ Writing(T, id) \in Nat
                /\ Acking(T, id)' = Acking(T, id) /\ Acking(T, id) \in Nat
                /\ One(m.id = id) \in {0, 1}
    <2>1. /\ Held(toRspToAnotherPMC[H], id) \in Nat /\ Held(wire[H], id) \in Nat
          /\ InMem(memOps[T], id) \in Nat /\ Held(localMemPort[T], id) \in Nat
      BY <1>1, CountsAreNat
    <2>2. One(m.id = id) \in {0, 1}  BY DEF One
    <2>3. Replying(T, H, id) = Replying(T, H, id)' + One(m.id = id) /\ Replying(T, H, id)' \in Nat
      BY <1>2, <1>10, <1>11, <2>1, <2>2 DEF Replying
    <2>4. Writing(T, id)' = Writing(T, id) + One(m.id = id) /\ Writing(T, id) \in Nat
      BY <1>3, <1>10, <1>12, <2>1, <2>2 DEF Writing
    <2>5. Acking(T, id)' = Acking(T, id) /\ Acking(T, id) \in Nat
      BY <1>10, <2>1 DEF Acking
    <2>6. Wanting(T, H, id)' = Wanting(T, H, id) /\ Wanting(T, H, id) \in Nat /\ Reading(H, id)' = Reading(H, id)
          /\ Reading(H, id) \in Nat
      BY <1>15, <1>16, OncePulled
    <2>7. Pulling(T, H, id) = Pulling(T, H, id)' + One(m.id = id) /\ Pulling(T, H, id)' \in Nat
      BY <2>2, <2>3, <2>6 DEF Pulling
    <2>8. QED  BY <2>2, <2>4, <2>5, <2>7
  <1>19. \A id \in Places(P) : Left(T, H, id)' = Left(T, H, id)
    <2> SUFFICES ASSUME NEW id \in Places(P) PROVE Left(T, H, id)' = Left(T, H, id)  OBVIOUS
    <2>1. PICK d \in {0, 1} : d = One(m.id = id)  BY <1>18
    <2>2. /\ Pulling(T, H, id) = Pulling(T, H, id)' + d /\ Pulling(T, H, id)' \in Nat
          /\ Writing(T, id)' = Writing(T, id) + d /\ Writing(T, id) \in Nat
          /\ Acking(T, id)' = Acking(T, id) /\ Acking(T, id) \in Nat
      BY <1>18, <2>1
    <2>3. QED  BY <2>2 DEF Left
  <1>20. Counted(T, H, P)'
    <2>1. \A id \in Places(P) : Left(T, H, id)' \in {0, 1}  BY <1>1, <1>19 DEF Counted
    <2>2. ASSUME NEW id \in Places(P), Pulling(T, H, id)' + Writing(T, id)' = 0
          PROVE  mem'[T][id] = mem'[H][id]
      <3>1. PICK d \in {0, 1} : d = One(m.id = id)  BY <1>18
      <3>2. /\ Pulling(T, H, id) = Pulling(T, H, id)' + d /\ Pulling(T, H, id)' \in Nat
            /\ Writing(T, id)' = Writing(T, id) + d /\ Writing(T, id) \in Nat
        BY <1>18, <3>1
      <3>3. Pulling(T, H, id) + Writing(T, id) = 0  BY <2>2, <3>2
      <3>4. QED  BY <1>1, <1>10, <3>3 DEF Counted
    <2>3. QED  BY <2>1, <2>2 DEF Counted
  <1>21. Numbered(T, H, P)'
    <2>1. ASSUME NEW id \in Places(P)
          PROVE  Pulling(T, H, id)' = 1 <=> Pulling(T, H, id) = 1 /\ id # m.id
      <3>1. Pulling(T, H, id) = 0 \/ Pulling(T, H, id) = 1  BY OncePulled
      <3>2. CASE id = m.id
        <4>1. One(m.id = id) = 1  BY <3>2 DEF One
        <4>2. Pulling(T, H, id) = Pulling(T, H, id)' + 1 /\ Pulling(T, H, id)' \in Nat  BY <1>18, <4>1
        <4>3. QED  BY <3>1, <3>2, <4>2
      <3>3. CASE id # m.id
        <4>1. One(m.id = id) = 0  BY <3>3 DEF One
        <4>2. Pulling(T, H, id) = Pulling(T, H, id)' + 0 /\ Pulling(T, H, id)' \in Nat  BY <1>18, <4>1
        <4>3. QED  BY <3>1, <3>3, <4>2
      <3>4. QED  BY <3>2, <3>3
    <2>2. { id \in Places(P) : Pulling(T, H, id)' = 1 } = { id \in Places(P) : Pulling(T, H, id) = 1 } \ {m.id}
      BY <2>1
    <2>3. { id \in Places(P) : Left(T, H, id)' = 1 } = { id \in Places(P) : Left(T, H, id) = 1 }
      BY <1>19
    <2>4. QED  BY <1>1, <1>10, <2>2, <2>3 DEF Numbered
  <1>22. QED  BY <1>1, <1>13, <1>14, <1>15, <1>16, <1>17, <1>20, <1>21 DEF Copying

(* With no chunk left, every list is empty. *)
LEMMA HeldNone ==
  ASSUME NEW S, S \subseteq Msg, NEW I, \A m \in S : m.id \in I,
         NEW q \in Seq(S), \A id \in I : Held(q, id) = 0
  PROVE  q = <<>>
  <1> SUFFICES ASSUME q # <<>> PROVE FALSE  OBVIOUS
  <1>1. Head(q) \in S  BY HeadTailProperties
  <1>2. PICK id \in I : id = Head(q).id  BY <1>1
  <1>3. Held(q, id) = Held(Tail(q), id) + 1 /\ Held(Tail(q), id) \in Nat  BY <1>2, HeldTail DEF One
  <1>4. Held(q, id) = 0  BY <1>2
  <1>5. QED  BY <1>3, <1>4

(* When no chunk is left, every queue of the copy is empty. *)
LEMMA NothingLeft ==
  \A T, H \in GPU, P \in Page :
     WantShape(T, H, P) /\ ReadShape(T, H, P) /\ ReplyShape(T, H, P) /\ WriteShape(T, H, P)
     /\ (\A id \in Places(P) : Left(T, H, id) = 0)
       => /\ toPullFromAnotherPMC[T] = <<>> /\ wire[T] = <<>> /\ remotePort[H] = <<>>
          /\ toSendLocalMemPort[H] = <<>> /\ memOps[H] = {} /\ localMemPort[H] = <<>>
          /\ toRspToAnotherPMC[H] = <<>> /\ wire[H] = <<>> /\ remotePort[T] = <<>>
          /\ writeReqLocalMemPort[T] = <<>> /\ memOps[T] = {} /\ localMemPort[T] = <<>>
  <1> SUFFICES ASSUME NEW T \in GPU, NEW H \in GPU, NEW P \in Page,
                      WantShape(T, H, P), ReadShape(T, H, P), ReplyShape(T, H, P), WriteShape(T, H, P),
                      \A id \in Places(P) : Left(T, H, id) = 0
               PROVE  /\ toPullFromAnotherPMC[T] = <<>> /\ wire[T] = <<>> /\ remotePort[H] = <<>>
                      /\ toSendLocalMemPort[H] = <<>> /\ memOps[H] = {} /\ localMemPort[H] = <<>>
                      /\ toRspToAnotherPMC[H] = <<>> /\ wire[H] = <<>> /\ remotePort[T] = <<>>
                      /\ writeReqLocalMemPort[T] = <<>> /\ memOps[T] = {} /\ localMemPort[T] = <<>>
    OBVIOUS
  <1> DEFINE I == Places(P)
  <1>1. ASSUME NEW id \in I
        PROVE  /\ Held(toPullFromAnotherPMC[T], id) = 0 /\ Held(wire[T], id) = 0
               /\ Held(remotePort[H], id) = 0
               /\ Held(toSendLocalMemPort[H], id) = 0 /\ InMem(memOps[H], id) = 0
               /\ Held(localMemPort[H], id) = 0
               /\ Held(toRspToAnotherPMC[H], id) = 0 /\ Held(wire[H], id) = 0
               /\ Held(remotePort[T], id) = 0
               /\ Held(writeReqLocalMemPort[T], id) = 0 /\ InMem(memOps[T], id) = 0
               /\ Held(localMemPort[T], id) = 0
    <2>1. /\ Held(toPullFromAnotherPMC[T], id) \in Nat /\ Held(wire[T], id) \in Nat
          /\ Held(remotePort[H], id) \in Nat
          /\ Held(toSendLocalMemPort[H], id) \in Nat /\ InMem(memOps[H], id) \in Nat
          /\ Held(localMemPort[H], id) \in Nat
          /\ Held(toRspToAnotherPMC[H], id) \in Nat /\ Held(wire[H], id) \in Nat
          /\ Held(remotePort[T], id) \in Nat
          /\ Held(writeReqLocalMemPort[T], id) \in Nat /\ InMem(memOps[T], id) \in Nat
          /\ Held(localMemPort[T], id) \in Nat
      BY CountsAreNat
    <2>2. Pulling(T, H, id) + Writing(T, id) + Acking(T, id) = 0  BY DEF Left
    <2>3. PICK a \in Nat : a = Wanting(T, H, id)  BY <2>1 DEF Wanting
    <2>4. PICK r \in Nat : r = Reading(H, id)  BY <2>1 DEF Reading
    <2>5. PICK l \in Nat : l = Replying(T, H, id)  BY <2>1 DEF Replying
    <2>6. PICK w \in Nat : w = Writing(T, id)  BY <2>1 DEF Writing
    <2>7. PICK k \in Nat : k = Acking(T, id)  BY <2>1 DEF Acking
    <2>8. a = 0 /\ r = 0 /\ l = 0 /\ w = 0 /\ k = 0
      <3>1. Pulling(T, H, id) = a + r + l  BY <2>3, <2>4, <2>5 DEF Pulling
      <3>2. a + r + l + w + k = 0  BY <2>2, <2>6, <2>7, <3>1
      <3>3. QED  BY <3>2
    <2>9. /\ Held(toPullFromAnotherPMC[T], id) = 0 /\ Held(wire[T], id) = 0
          /\ Held(remotePort[H], id) = 0
      BY <2>1, <2>3, <2>8 DEF Wanting
    <2>10. /\ Held(toSendLocalMemPort[H], id) = 0 /\ InMem(memOps[H], id) = 0
           /\ Held(localMemPort[H], id) = 0
      BY <2>1, <2>4, <2>8 DEF Reading
    <2>11. /\ Held(toRspToAnotherPMC[H], id) = 0 /\ Held(wire[H], id) = 0
           /\ Held(remotePort[T], id) = 0
      BY <2>1, <2>5, <2>8 DEF Replying
    <2>12. Held(writeReqLocalMemPort[T], id) = 0 /\ InMem(memOps[T], id) = 0
      BY <2>1, <2>6, <2>8 DEF Writing
    <2>13. Held(localMemPort[T], id) = 0  BY <2>7, <2>8 DEF Acking
    <2>14. QED  BY <2>9, <2>10, <2>11, <2>12, <2>13
  <1> DEFINE S1 == PullMsg(T, H, P)
             S2 == ReadOp(P)
             S3 == ReadDone(H, P)
             S4 == DataMsg(T, H, P)
             S5 == WriteOp(H, P)
  <1>2. /\ S1 \subseteq Msg /\ S2 \subseteq Msg /\ S3 \subseteq Msg /\ S4 \subseteq Msg /\ S5 \subseteq Msg
    BY MsgSets
  <1>3. /\ \A m \in S1 : m.id \in I
        /\ \A m \in S2 : m.id \in I
        /\ \A m \in S3 : m.id \in I
        /\ \A m \in S4 : m.id \in I
        /\ \A m \in S5 : m.id \in I
    BY DEF PullMsg, ReadOp, ReadDone, DataMsg, WriteOp, Current
  <1>4. /\ toPullFromAnotherPMC[T] \in Seq(S1) /\ wire[T] \in Seq(S1) /\ remotePort[H] \in Seq(S1)
    BY DEF WantShape
  <1>5. toSendLocalMemPort[H] \in Seq(S2) /\ memOps[H] \in SUBSET S2 /\ localMemPort[H] \in Seq(S3)
    BY DEF ReadShape
  <1>6. toRspToAnotherPMC[H] \in Seq(S4) /\ wire[H] \in Seq(S4) /\ remotePort[T] \in Seq(S4)
    BY DEF ReplyShape
  <1>7. writeReqLocalMemPort[T] \in Seq(S5) /\ memOps[T] \in SUBSET S5 /\ localMemPort[T] \in Seq(S5)
    BY DEF WriteShape
  <1> HIDE DEF I, S1, S2, S3, S4, S5
  <1>8. toPullFromAnotherPMC[T] = <<>>
    <2>1. \A id \in I : Held(toPullFromAnotherPMC[T], id) = 0  BY <1>1
    <2>2. QED  BY <1>2, <1>3, <1>4, <2>1, HeldNone
  <1>9. wire[T] = <<>>
    <2>1. \A id \in I : Held(wire[T], id) = 0  BY <1>1
    <2>2. QED  BY <1>2, <1>3, <1>4, <2>1, HeldNone
  <1>10. remotePort[H] = <<>>
    <2>1. \A id \in I : Held(remotePort[H], id) = 0  BY <1>1
    <2>2. QED  BY <1>2, <1>3, <1>4, <2>1, HeldNone
  <1>11. toSendLocalMemPort[H] = <<>>
    <2>1. \A id \in I : Held(toSendLocalMemPort[H], id) = 0  BY <1>1
    <2>2. QED  BY <1>2, <1>3, <1>5, <2>1, HeldNone
  <1>12. localMemPort[H] = <<>>
    <2>1. \A id \in I : Held(localMemPort[H], id) = 0  BY <1>1
    <2>2. QED  BY <1>2, <1>3, <1>5, <2>1, HeldNone
  <1>13. toRspToAnotherPMC[H] = <<>>
    <2>1. \A id \in I : Held(toRspToAnotherPMC[H], id) = 0  BY <1>1
    <2>2. QED  BY <1>2, <1>3, <1>6, <2>1, HeldNone
  <1>14. wire[H] = <<>>
    <2>1. \A id \in I : Held(wire[H], id) = 0  BY <1>1
    <2>2. QED  BY <1>2, <1>3, <1>6, <2>1, HeldNone
  <1>15. remotePort[T] = <<>>
    <2>1. \A id \in I : Held(remotePort[T], id) = 0  BY <1>1
    <2>2. QED  BY <1>2, <1>3, <1>6, <2>1, HeldNone
  <1>16. writeReqLocalMemPort[T] = <<>>
    <2>1. \A id \in I : Held(writeReqLocalMemPort[T], id) = 0  BY <1>1
    <2>2. QED  BY <1>2, <1>3, <1>7, <2>1, HeldNone
  <1>17. localMemPort[T] = <<>>
    <2>1. \A id \in I : Held(localMemPort[T], id) = 0  BY <1>1
    <2>2. QED  BY <1>2, <1>3, <1>7, <2>1, HeldNone
  <1>18. memOps[H] = {}
    <2>1. \A id \in I : InMem(memOps[H], id) = 0  BY <1>1
    <2>2. ASSUME NEW o \in memOps[H] PROVE FALSE
      <3>1. o.id \in I  BY <1>3, <1>5
      <3>2. PICK id \in I : id = o.id  BY <3>1
      <3>3. InMem(memOps[H], id) = 1  BY <3>2 DEF InMem, One
      <3>4. InMem(memOps[H], id) = 0  BY <2>1
      <3>5. QED  BY <3>3, <3>4
    <2>3. QED  BY <2>2
  <1>19. memOps[T] = {}
    <2>1. \A id \in I : InMem(memOps[T], id) = 0  BY <1>1
    <2>2. ASSUME NEW o \in memOps[T] PROVE FALSE
      <3>1. o.id \in I  BY <1>3, <1>7
      <3>2. PICK id \in I : id = o.id  BY <3>1
      <3>3. InMem(memOps[T], id) = 1  BY <3>2 DEF InMem, One
      <3>4. InMem(memOps[T], id) = 0  BY <2>1
      <3>5. QED  BY <3>3, <3>4
    <2>3. QED  BY <2>2
  <1>20. QED  BY <1>8, <1>9, <1>10, <1>11, <1>12, <1>13, <1>14, <1>15, <1>16, <1>17, <1>18, <1>19

(* The same after a step. *)
LEMMA NothingLeftNext ==
  (\A T, H \in GPU, P \in Page :
     WantShape(T, H, P) /\ ReadShape(T, H, P) /\ ReplyShape(T, H, P) /\ WriteShape(T, H, P)
     /\ (\A id \in Places(P) : Left(T, H, id) = 0)
       => /\ toPullFromAnotherPMC[T] = <<>> /\ wire[T] = <<>> /\ remotePort[H] = <<>>
          /\ toSendLocalMemPort[H] = <<>> /\ memOps[H] = {} /\ localMemPort[H] = <<>>
          /\ toRspToAnotherPMC[H] = <<>> /\ wire[H] = <<>> /\ remotePort[T] = <<>>
          /\ writeReqLocalMemPort[T] = <<>> /\ memOps[T] = {} /\ localMemPort[T] = <<>>)'
  BY NothingLeft, PTL

(* Every controller is idle. *)
AllOff == \A g \in GPU : PMCOff(g)

(* The page is on the GPU it goes to. *)
Arrived(T, H, P) == \A id \in Places(P) : mem[T][id] = mem[H][id]

(* A write is acknowledged: the last one completes the page. *)
LEMMA WriteHandled ==
  ASSUME NEW T \in GPU, NEW H \in GPU, NEW P \in Page, CopyAt(T, H, P), HandleWriteDoneRspFromMemCtrl(T)
  PROVE  \/ Copying(T, H, P)' /\ UNCHANGED toSendToCtrlPort
         \/ /\ AllOff' /\ Arrived(T, H, P)'
            /\ toSendToCtrlPort' = [toSendToCtrlPort EXCEPT ![T] = TRUE]
  <1> USE DEF CopyAt
  <1>1. T # H /\ WantShape(T, H, P) /\ ReadShape(T, H, P) /\ ReplyShape(T, H, P) /\ WriteShape(T, H, P)
        /\ Bystanders(T, H) /\ Counted(T, H, P) /\ Numbered(T, H, P)
    BY CopyParts
  <1>2. PICK q \in Seq(WriteOp(H, P)) : q = localMemPort[T]  BY <1>1 DEF WriteShape
  <1>4. q # <<>>  BY <1>2 DEF HandleWriteDoneRspFromMemCtrl
  <1>5. PICK m \in WriteOp(H, P) : m = Head(q)  BY <1>4
  <1>6. m.id \in Places(P)  BY DEF WriteOp, Current
  <1>7. PICK n : n = numDataRspPendingForPageMigration[T] - 1  OBVIOUS
  <1>8. n \in Int /\ n >= 0  BY <1>7 DEF PMCTypeOK, HandleWriteDoneRspFromMemCtrl
  <1>9. /\ localMemPort' = [localMemPort EXCEPT ![T] = Tail(q)]
        /\ n # 0 => /\ numDataRspPendingForPageMigration' = [numDataRspPendingForPageMigration EXCEPT ![T] = n]
                    /\ UNCHANGED toSendToCtrlPort
        /\ n = 0 => /\ numDataRspPendingForPageMigration' = [numDataRspPendingForPageMigration EXCEPT ![T] = -1]
                    /\ toSendToCtrlPort' = [toSendToCtrlPort EXCEPT ![T] = TRUE]
        /\ UNCHANGED <<mem, pullVars, serveVars, netVars, memOps>>
    BY <1>2, <1>7 DEF HandleWriteDoneRspFromMemCtrl, Completes
  <1>10. /\ localMemPort'[T] = Tail(q)
         /\ n # 0 => numDataRspPendingForPageMigration'[T] = n
         /\ n = 0 => numDataRspPendingForPageMigration'[T] = -1
         /\ \A g \in GPU : g # T => localMemPort'[g] = localMemPort[g]
         /\ \A g \in GPU : g # T => numDataRspPendingForPageMigration'[g] = numDataRspPendingForPageMigration[g]
         /\ UNCHANGED <<mem, toPullFromAnotherPMC, reqIDToWriteAddressMap, writeReqLocalMemPort, wire, remotePort,
                        memOps, requestingPMCtrlPort, toSendLocalMemPort, toRspToAnotherPMC>>
    BY <1>9 DEF PMCTypeOK, pullVars, serveVars, netVars
  <1>11. ASSUME NEW id
         PROVE  /\ Tail(q) \in Seq(WriteOp(H, P)) /\ Held(Tail(q), id) \in Nat
                /\ Held(q, id) = Held(Tail(q), id) + One(m.id = id)
    <2>1. PICK S : S = WriteOp(H, P)  OBVIOUS
    <2>2. S \subseteq Msg /\ q \in Seq(S)  BY <2>1, MsgSets
    <2>3. QED  BY <1>4, <1>5, <2>1, <2>2, HeldTail
  <1>12. WriteShape(T, H, P)'
    <2>1. WriteOp(H, P)' = WriteOp(H, P)  BY <1>10, CurrentSame
    <2>2. QED  BY <1>1, <1>10, <1>11, <2>1 DEF WriteShape
  <1>13. WantShape(T, H, P)' /\ \A id : Wanting(T, H, id)' = Wanting(T, H, id)  BY <1>1, <1>10, WantKept
  <1>14. ReadShape(T, H, P)' /\ \A id : Reading(H, id)' = Reading(H, id)  BY <1>1, <1>10, ReadKept
  <1>15. ReplyShape(T, H, P)' /\ \A id : Replying(T, H, id)' = Replying(T, H, id)  BY <1>1, <1>10, ReplyKept
  <1>16. Bystanders(T, H)'
    <2>1. \A g \in GPU \ {T, H} : PMCSame(g)  BY <1>10 DEF PMCSame
    <2>2. QED  BY <1>1, <1>10, <2>1, BystandersKept
  <1>17. \A id \in Places(P) : Pulling(T, H, id)' = Pulling(T, H, id)
    BY <1>13, <1>14, <1>15 DEF Pulling
  <1>18. ASSUME NEW id \in Places(P)
         PROVE  /\ Writing(T, id)' = Writing(T, id) /\ One(m.id = id) \in {0, 1}
                /\ Left(T, H, id) = Left(T, H, id)' + One(m.id = id) /\ Left(T, H, id)' \in Nat
                /\ Left(T, H, id) \in {0, 1}
    <2>1. One(m.id = id) \in {0, 1}  BY DEF One
    <2>2. Acking(T, id) = Acking(T, id)' + One(m.id = id) /\ Acking(T, id)' \in Nat
      BY <1>2, <1>10, <1>11 DEF Acking
    <2>3. Writing(T, id)' = Writing(T, id)  BY <1>10 DEF Writing
    <2>4. Pulling(T, H, id) \in Nat /\ Writing(T, id) \in Nat /\ Left(T, H, id) \in {0, 1}  BY OncePulled
    <2>5. PICK d \in {0, 1} : d = One(m.id = id)  BY <2>1
    <2>6. Left(T, H, id) = Left(T, H, id)' + d /\ Left(T, H, id)' \in Nat
      BY <1>17, <2>2, <2>3, <2>4, <2>5 DEF Left
    <2>7. QED  BY <2>1, <2>3, <2>4, <2>5, <2>6
  <1>19. Counted(T, H, P)'
    <2>1. ASSUME NEW id \in Places(P) PROVE Left(T, H, id)' \in {0, 1}
      <3>1. PICK d \in {0, 1} : d = One(m.id = id)  BY <1>18
      <3>2. Left(T, H, id) = Left(T, H, id)' + d /\ Left(T, H, id)' \in Nat /\ Left(T, H, id) \in {0, 1}
        BY <1>18, <3>1
      <3>3. QED  BY <3>2
    <2>2. \A id \in Places(P) : Pulling(T, H, id)' + Writing(T, id)' = 0 => mem'[T][id] = mem'[H][id]
      BY <1>1, <1>10, <1>17, <1>18 DEF Counted
    <2>3. QED  BY <2>1, <2>2 DEF Counted
  <1> DEFINE A == { id \in Places(P) : Left(T, H, id) = 1 }
             B == { id \in Places(P) : Left(T, H, id)' = 1 }
  <1>20. m.id \in A /\ B = A \ {m.id}
    <2>1. One(m.id = m.id) = 1  BY DEF One
    <2>2. /\ Left(T, H, m.id) = Left(T, H, m.id)' + 1 /\ Left(T, H, m.id)' \in Nat
          /\ Left(T, H, m.id) \in {0, 1}
      BY <1>6, <1>18, <2>1
    <2>3. Left(T, H, m.id) = 1 /\ Left(T, H, m.id)' = 0  BY <2>2
    <2>4. ASSUME NEW id \in Places(P), id # m.id PROVE Left(T, H, id)' = Left(T, H, id)
      <3>1. One(m.id = id) = 0  BY <2>4 DEF One
      <3>2. Left(T, H, id) = Left(T, H, id)' + 0 /\ Left(T, H, id)' \in Nat  BY <1>18, <3>1
      <3>3. QED  BY <3>2
    <2>5. QED  BY <1>6, <2>3, <2>4
  <1>21. IsFiniteSet(A) /\ Cardinality(A) = n + 1 /\ Cardinality(B) = n
    <2>1. IsFiniteSet(Chunk) /\ IsFiniteSet({P})
      <3>1. 1 \in Int /\ NumChunks \in Int  BY PMCAssumption
      <3>2. QED  BY <3>1, FS_Interval, FS_Singleton DEF Chunk
    <2>2. IsFiniteSet(Places(P))  BY <2>1, FS_Product DEF Places
    <2>3. IsFiniteSet(A)  BY <2>2, FS_Subset
    <2>4. Cardinality(A) = n + 1
      <3>1. numDataRspPendingForPageMigration[T] \in Int  BY DEF PMCTypeOK
      <3>2. Cardinality(A) = numDataRspPendingForPageMigration[T]  BY <1>1 DEF Numbered
      <3>3. QED  BY <1>7, <3>1, <3>2
    <2> HIDE DEF A, B
    <2>5. Cardinality(A \ {m.id}) = Cardinality(A) - 1  BY <1>20, <2>3, FS_RemoveElement
    <2>6. QED  BY <1>8, <1>20, <2>3, <2>4, <2>5
  <1>22. CASE n # 0
    <2>1. { id \in Places(P) : Pulling(T, H, id)' = 1 } = { id \in Places(P) : Pulling(T, H, id) = 1 }
      BY <1>17
    <2>2. Numbered(T, H, P)'  BY <1>1, <1>10, <1>21, <1>22, <2>1 DEF Numbered
    <2>3. QED  BY <1>1, <1>9, <1>12, <1>13, <1>14, <1>15, <1>16, <1>19, <1>22, <2>2 DEF Copying
  <1>23. CASE n = 0
    <2>1. IsFiniteSet(B) /\ B = {}
      <3>1. IsFiniteSet(B)  BY <1>20, <1>21, FS_Subset
      <3>2. QED  BY <1>21, <1>23, <3>1, FS_EmptySet
    <2>2. ASSUME NEW id \in Places(P) PROVE Left(T, H, id)' = 0
      <3>1. Left(T, H, id)' \in {0, 1}  BY <1>19 DEF Counted
      <3>2. QED  BY <2>1, <3>1
    <2>3. ASSUME NEW id \in Places(P)
          PROVE  /\ Wanting(T, H, id)' = 0 /\ Reading(H, id)' = 0 /\ Replying(T, H, id)' = 0
                 /\ Pulling(T, H, id)' = 0 /\ Writing(T, id)' = 0
      <3>1. /\ Wanting(T, H, id) \in Nat /\ Reading(H, id) \in Nat /\ Replying(T, H, id) \in Nat
            /\ Writing(T, id) \in Nat
        BY OncePulled
      <3>2. Acking(T, id)' \in Nat  BY <1>10, <1>11 DEF Acking
      <3>3. PICK a \in Nat : a = Wanting(T, H, id)'  BY <1>13, <3>1
      <3>4. PICK r \in Nat : r = Reading(H, id)'  BY <1>14, <3>1
      <3>5. PICK l \in Nat : l = Replying(T, H, id)'  BY <1>15, <3>1
      <3>6. PICK w \in Nat : w = Writing(T, id)'  BY <1>18, <3>1
      <3>7. PICK k \in Nat : k = Acking(T, id)'  BY <3>2
      <3>8. Pulling(T, H, id)' = a + r + l  BY <3>3, <3>4, <3>5 DEF Pulling
      <3>9. a + r + l + w + k = 0  BY <2>2, <3>6, <3>7, <3>8 DEF Left
      <3>10. a = 0 /\ r = 0 /\ l = 0 /\ w = 0 /\ a + r + l = 0  BY <3>9
      <3>11. QED  BY <3>3, <3>4, <3>5, <3>6, <3>8, <3>10
    <2>4. Arrived(T, H, P)'
      <3>1. \A id \in Places(P) : mem'[T][id] = mem'[H][id]  BY <1>19, <2>3 DEF Counted
      <3>2. QED  BY <3>1 DEF Arrived
    <2>5. WantShape(T, H, P)' /\ ReadShape(T, H, P)' /\ ReplyShape(T, H, P)' /\ WriteShape(T, H, P)'
      BY <1>12, <1>13, <1>14, <1>15
    <2>6. \A id \in Places(P) : Left(T, H, id)' = 0  BY <2>2
    <2>7. reqIDToWriteAddressMap'[T] = {}
      <3>1. { id \in Places(P) : Pulling(T, H, id) = 1 } = {}  BY <1>17, <2>3
      <3>2. QED  BY <1>1, <1>10, <3>1 DEF Numbered
    <2>8. numDataRspPendingForPageMigration'[T] = -1  BY <1>10, <1>23
    <2>9. /\ toPullFromAnotherPMC'[T] = <<>> /\ wire'[T] = <<>> /\ remotePort'[H] = <<>>
          /\ toSendLocalMemPort'[H] = <<>> /\ memOps'[H] = {} /\ localMemPort'[H] = <<>>
          /\ toRspToAnotherPMC'[H] = <<>> /\ wire'[H] = <<>> /\ remotePort'[T] = <<>>
          /\ writeReqLocalMemPort'[T] = <<>> /\ memOps'[T] = {} /\ localMemPort'[T] = <<>>
      BY <2>5, <2>6, NothingLeftNext
    <2>10. PMCOff(T)' /\ PMCOff(H)'
      BY <1>16, <2>7, <2>8, <2>9 DEF PMCOff, Bystanders
    <2>11. AllOff'
      <3>1. ASSUME NEW g \in GPU PROVE PMCOff(g)'
        <4>1. CASE g \in GPU \ {T, H}  BY <1>16, <4>1 DEF Bystanders
        <4>2. CASE g = T \/ g = H  BY <2>10, <4>2
        <4>3. QED  BY <4>1, <4>2
      <3>2. QED  BY <3>1 DEF AllOff
    <2>12. QED  BY <1>9, <1>23, <2>4, <2>11
  <1>24. QED  BY <1>22, <1>23

(* The migration of a page begins: every chunk is pulled. *)
LEMMA CopyStarts ==
  ASSUME NEW T \in GPU, NEW H \in GPU, T # H, NEW P \in Page, PMCTypeOK, AllOff,
         NEW m, m = [page |-> P, from |-> H], Head(ctrlPort[T]) = m,
         ProcessPageMigrationReqFromCtrlPort(T)
  PROVE  Copying(T, H, P)'
  <1>1. PICK f : f = Pulls(T, m)  OBVIOUS
  <1>0. m.page = P  OBVIOUS
  <1>2. /\ toPullFromAnotherPMC' = [toPullFromAnotherPMC EXCEPT ![T] = @ \o f]
        /\ reqIDToWriteAddressMap' = [reqIDToWriteAddressMap EXCEPT ![T] = @ \cup ({m.page} \X Chunk)]
        /\ numDataRspPendingForPageMigration' = [numDataRspPendingForPageMigration EXCEPT ![T] = NumChunks]
        /\ UNCHANGED <<mem, toSendToCtrlPort, writeReqLocalMemPort, serveVars, netVars, memVars>>
    BY <1>1 DEF ProcessPageMigrationReqFromCtrlPort
  <1>3. PMCOff(T) /\ PMCOff(H)  BY DEF AllOff
  <1>4. DOMAIN f = 1..NumChunks /\ \A c \in 1..NumChunks :
            f[c] = [type |-> "pull", id |-> <<P, c>>, src |-> T, dst |-> H]
    BY <1>1 DEF Pulls, Chunk
  <1>5. NumChunks \in Nat /\ NumChunks # 0  BY PMCAssumption
  <1>6. ASSUME NEW c \in 1..NumChunks PROVE f[c] \in PullMsg(T, H, P)
    <2>1. <<P, c>> \in Places(P)  BY DEF Places, Chunk
    <2>2. QED  BY <1>4, <2>1 DEF PullMsg
  <1>7. f \in Seq(PullMsg(T, H, P))
    <2>1. f \in [1..NumChunks -> PullMsg(T, H, P)]
      <3>1. f = [c \in 1..NumChunks |-> f[c]]  BY <1>1, <1>4 DEF Pulls, Chunk
      <3>2. QED  BY <1>6, <3>1
    <2>2. QED  BY <1>5, <2>1
  <1>8. <<>> \o f = f  BY <1>7
  <1>9. /\ toPullFromAnotherPMC'[T] = f /\ reqIDToWriteAddressMap'[T] = Places(P)
        /\ numDataRspPendingForPageMigration'[T] = NumChunks
        /\ \A g \in GPU : g # T => toPullFromAnotherPMC'[g] = toPullFromAnotherPMC[g]
        /\ \A g \in GPU : g # T => reqIDToWriteAddressMap'[g] = reqIDToWriteAddressMap[g]
        /\ \A g \in GPU : g # T => numDataRspPendingForPageMigration'[g] = numDataRspPendingForPageMigration[g]
        /\ UNCHANGED <<mem, writeReqLocalMemPort, wire, remotePort, memOps, localMemPort,
                       requestingPMCtrlPort, toSendLocalMemPort, toRspToAnotherPMC>>
    <2>1. toPullFromAnotherPMC[T] = <<>> /\ reqIDToWriteAddressMap[T] = {}  BY <1>3 DEF PMCOff
    <2>2. QED  BY <1>0, <1>2, <1>8, <2>1 DEF PMCTypeOK, serveVars, netVars, memVars, Places
  <1>10. WantShape(T, H, P)' /\ ReadShape(T, H, P)' /\ ReplyShape(T, H, P)' /\ WriteShape(T, H, P)'
    <2>1. \A S : <<>> \in Seq(S)  OBVIOUS
    <2>2. WantShape(T, H, P)'  BY <1>3, <1>7, <1>9, <2>1 DEF WantShape, PMCOff
    <2>3. ReadShape(T, H, P)'  BY <1>3, <1>9, <2>1 DEF ReadShape, PMCOff
    <2>4. ReplyShape(T, H, P)'  BY <1>3, <1>9, <2>1 DEF ReplyShape, PMCOff
    <2>5. WriteShape(T, H, P)'  BY <1>3, <1>9, <2>1 DEF WriteShape, PMCOff
    <2>6. QED  BY <2>2, <2>3, <2>4, <2>5
  <1>11. ASSUME NEW id \in Places(P) PROVE Held(f, id) = 1
    <2>1. PICK c \in 1..NumChunks : id = <<P, c>>  BY DEF Places, Chunk
    <2>2. c \in DOMAIN f  BY <1>4
    <2>3. \A d \in DOMAIN f : f[d] \in Of(id) <=> d = c
      <3>1. ASSUME NEW d \in DOMAIN f PROVE f[d] \in Of(id) <=> d = c
        <4>1. f[d] \in Msg /\ f[d].id = <<P, d>>  BY <1>4, <1>6, MsgSets
        <4>2. f[d] \in Of(id) <=> <<P, d>> = <<P, c>>  BY <2>1, <4>1 DEF Of
        <4>3. QED  BY <4>2
      <3>2. QED  BY <3>1
    <2>4. Number(f, Of(id)) = 1  BY <2>2, <2>3, NumberOne
    <2>5. QED  BY <2>4 DEF Held
  <1>12. ASSUME NEW id \in Places(P)
         PROVE  Pulling(T, H, id)' = 1 /\ Writing(T, id)' = 0 /\ Left(T, H, id)' = 1
    <2>1. Held(f, id) = 1 /\ Held(<<>>, id) = 0 /\ InMem({}, id) = 0  BY <1>11, HeldEmpty, InMemEmpty
    <2>2. Wanting(T, H, id)' = 1  BY <1>3, <1>9, <2>1 DEF Wanting, PMCOff
    <2>3. Reading(H, id)' = 0
      <3>1. toSendLocalMemPort'[H] = <<>> /\ memOps'[H] = {} /\ localMemPort'[H] = <<>>
        BY <1>3, <1>9 DEF PMCOff
      <3>2. Reading(H, id)' = Held(<<>>, id) + InMem({}, id) + Held(<<>>, id)  BY <3>1 DEF Reading
      <3>3. QED  BY <2>1, <3>2
    <2>4. Replying(T, H, id)' = 0  BY <1>3, <1>9, <2>1 DEF Replying, PMCOff
    <2>5. Writing(T, id)' = 0
      <3>1. writeReqLocalMemPort'[T] = <<>> /\ memOps'[T] = {}  BY <1>3, <1>9 DEF PMCOff
      <3>2. Writing(T, id)' = Held(<<>>, id) + InMem({}, id)  BY <3>1 DEF Writing
      <3>3. QED  BY <2>1, <3>2
    <2>6. Acking(T, id)' = 0  BY <1>3, <1>9, <2>1 DEF Acking, PMCOff
    <2>7. Pulling(T, H, id)' = 1  BY <2>2, <2>3, <2>4 DEF Pulling
    <2>8. QED  BY <2>5, <2>6, <2>7 DEF Left
  <1>13. Counted(T, H, P)'
    <2>1. \A id \in Places(P) : Left(T, H, id)' \in {0, 1}  BY <1>12
    <2>2. \A id \in Places(P) : Pulling(T, H, id)' + Writing(T, id)' # 0  BY <1>12
    <2>3. QED  BY <2>1, <2>2 DEF Counted
  <1>14. Numbered(T, H, P)'
    <2>1. { id \in Places(P) : Pulling(T, H, id)' = 1 } = Places(P)  BY <1>12
    <2>2. { id \in Places(P) : Left(T, H, id)' = 1 } = Places(P)  BY <1>12
    <2>3. IsFiniteSet({P}) /\ Cardinality({P}) = 1  BY FS_Singleton
    <2>4. IsFiniteSet(1..NumChunks) /\ Cardinality(1..NumChunks) = NumChunks
      <3>1. 1 \in Int /\ NumChunks \in Int  BY <1>5
      <3>2. IsFiniteSet(1..NumChunks)
            /\ Cardinality(1..NumChunks) = IF 1 > NumChunks THEN 0 ELSE NumChunks - 1 + 1
        BY <3>1, FS_Interval
      <3>3. QED  BY <1>5, <3>2
    <2>5. Cardinality({P} \X (1..NumChunks)) = Cardinality({P}) * Cardinality(1..NumChunks)
      BY <2>3, <2>4, FS_Product
    <2>6. Cardinality(Places(P)) = NumChunks  BY <1>5, <2>3, <2>4, <2>5 DEF Places, Chunk
    <2>7. QED  BY <1>5, <1>9, <2>1, <2>2, <2>6 DEF Numbered
  <1>15. Bystanders(T, H)'
    <2>1. ASSUME NEW g \in GPU \ {T, H} PROVE PMCOff(g)'
      BY <1>9 DEF AllOff, PMCOff
    <2>2. QED  BY <1>3, <1>9, <2>1 DEF Bystanders, PMCOff
  <1>16. QED  BY <1>10, <1>13, <1>14, <1>15 DEF Copying

(* With every controller idle only a new migration can begin. *)
LEMMA OffSteps ==
  ASSUME NEW g \in GPU, AllOff, PMCTypeOK, PMCStep(g)
  PROVE  ProcessPageMigrationReqFromCtrlPort(g)
  <1>1. PMCOff(g)  BY DEF AllOff
  <1>2. ~Deliver(g)  BY <1>1 DEF PMCOff, Deliver
  <1>3. ~MemServes(g)  BY <1>1 DEF PMCOff, MemServes
  <1>4. ASSUME NEW q, q = <<>> PROVE ~(Sendable(g, q) > 0)
    <2>1. Len(q) = 0  BY <1>4
    <2>2. Len(wire[g]) = 0  BY <1>1 DEF PMCOff
    <2>3. QED  BY <2>1, <2>2, PMCAssumption DEF Sendable, Least
  <1>5. ~SendMigrationReqToAnotherPMC(g)
    BY <1>1, <1>4 DEF PMCOff, SendMigrationReqToAnotherPMC
  <1>6. ~SendDataReadyRspToRequestingPMC(g)
    BY <1>1, <1>4 DEF PMCOff, SendDataReadyRspToRequestingPMC
  <1>7. ~SendReadReqLocalMemPort(g) /\ ~SendWriteReqLocalMemPort(g)
    BY <1>1 DEF PMCOff, SendReadReqLocalMemPort, SendWriteReqLocalMemPort
  <1>8. ~HandleDataPullReq(g) /\ ~HandleDataPullRsp(g)
    BY <1>1 DEF PMCOff, HandleDataPullReq, HandleDataPullRsp
  <1>9. ~HandleDataReadyRspFromMemCtrl(g) /\ ~HandleWriteDoneRspFromMemCtrl(g)
    BY <1>1 DEF PMCOff, HandleDataReadyRspFromMemCtrl, HandleWriteDoneRspFromMemCtrl
  <1>10. QED  BY <1>2, <1>3, <1>5, <1>6, <1>7, <1>8, <1>9 DEF PMCStep

(* An empty list has nothing that could be sent on. *)
LEMMA NothingToSend ==
  ASSUME NEW g, NEW q, q = <<>>, Len(wire[g]) \in Nat, Len(wire[g]) <= WireCap
  PROVE  ~(Sendable(g, q) > 0)
  <1>1. Len(q) = 0  OBVIOUS
  <1>2. QED  BY <1>1, PMCAssumption DEF Sendable, Least

(* What the controllers do while a page is on its way. *)
CopyGoesOn(T, H, P) ==
    /\ Copying(T, H, P)' /\ UNCHANGED toSendToCtrlPort

CopyEnds(T, H, P) ==
    /\ AllOff' /\ Arrived(T, H, P)' /\ UNCHANGED mem
    /\ toSendToCtrlPort' = [toSendToCtrlPort EXCEPT ![T] = TRUE]

OnlyArrives(T, P) ==
    /\ mem' \in [GPU -> [PullID -> Data]]
    /\ \A g \in GPU : \A id \in PullID : mem'[g][id] # mem[g][id] => g = T /\ id \in Places(P)

(* Every step of a controller, taken while a page is copied, goes on with the copy or ends it. *)
LEMMA CopySteps ==
  ASSUME NEW T \in GPU, NEW H \in GPU, NEW P \in Page, CopyAt(T, H, P), NEW g \in GPU, PMCStep(g),
         ~ProcessPageMigrationReqFromCtrlPort(g)
  PROVE  CopyGoesOn(T, H, P) \/ CopyEnds(T, H, P)
  <1> USE DEF CopyAt
  <1>1. T # H /\ WantShape(T, H, P) /\ ReadShape(T, H, P) /\ ReplyShape(T, H, P) /\ WriteShape(T, H, P)
        /\ Bystanders(T, H)
    BY CopyParts
  <1>2. ASSUME PMCOff(g) PROVE FALSE
    <2>1. Len(wire[g]) \in Nat /\ Len(wire[g]) <= WireCap  BY <1>2, PMCAssumption DEF PMCOff
    <2>2. ~Deliver(g)  BY <1>2 DEF PMCOff, Deliver
    <2>3. ~MemServes(g)  BY <1>2 DEF PMCOff, MemServes
    <2>5. ~SendMigrationReqToAnotherPMC(g)
      BY <1>2, <2>1, NothingToSend DEF PMCOff, SendMigrationReqToAnotherPMC
    <2>6. ~SendDataReadyRspToRequestingPMC(g)
      BY <1>2, <2>1, NothingToSend DEF PMCOff, SendDataReadyRspToRequestingPMC
    <2>7. ~SendReadReqLocalMemPort(g) /\ ~SendWriteReqLocalMemPort(g)
      BY <1>2 DEF PMCOff, SendReadReqLocalMemPort, SendWriteReqLocalMemPort
    <2>8. ~HandleDataPullReq(g) /\ ~HandleDataPullRsp(g)
      BY <1>2 DEF PMCOff, HandleDataPullReq, HandleDataPullRsp
    <2>9. ~HandleDataReadyRspFromMemCtrl(g) /\ ~HandleWriteDoneRspFromMemCtrl(g)
      BY <1>2 DEF PMCOff, HandleDataReadyRspFromMemCtrl, HandleWriteDoneRspFromMemCtrl
    <2>10. QED  BY <2>2, <2>3, <2>5, <2>6, <2>7, <2>8, <2>9 DEF PMCStep
  <1>3. g = T \/ g = H  BY <1>1, <1>2 DEF Bystanders
  <1>4. Len(wire[g]) \in Nat /\ Len(wire[g]) <= WireCap  BY DEF PMCTypeOK
  <1>5. CASE g = T
    <2>1. ~SendDataReadyRspToRequestingPMC(T) /\ ~SendReadReqLocalMemPort(T)
      BY <1>1, <1>4, <1>5, NothingToSend
         DEF Bystanders, SendDataReadyRspToRequestingPMC, SendReadReqLocalMemPort
    <2>2. ~HandleDataPullReq(T)
      <3> SUFFICES ASSUME HandleDataPullReq(T) PROVE FALSE  OBVIOUS
      <3>1. PICK q \in Seq(DataMsg(T, H, P)) : q = remotePort[T]  BY <1>1 DEF ReplyShape
      <3>2. q # <<>> /\ Head(q).type = "pull"  BY <3>1 DEF HandleDataPullReq
      <3>3. Head(q) \in DataMsg(T, H, P)  BY <3>2
      <3>4. QED  BY <3>2, <3>3 DEF DataMsg, Current
    <2>3. ~HandleDataReadyRspFromMemCtrl(T)
      <3> SUFFICES ASSUME HandleDataReadyRspFromMemCtrl(T) PROVE FALSE  OBVIOUS
      <3>1. PICK q \in Seq(WriteOp(H, P)) : q = localMemPort[T]  BY <1>1 DEF WriteShape
      <3>2. q # <<>> /\ Head(q).type = "read"  BY <3>1 DEF HandleDataReadyRspFromMemCtrl
      <3>3. Head(q) \in WriteOp(H, P)  BY <3>2
      <3>4. QED  BY <3>2, <3>3 DEF WriteOp, Current
    <2>4. CASE Deliver(T)  BY <2>4, PullDelivered DEF CopyGoesOn, Deliver, migrationVars
    <2>5. CASE MemServes(T)  BY <2>5, WriteServed DEF CopyGoesOn, MemServes, migrationVars
    <2>6. CASE SendMigrationReqToAnotherPMC(T)
      BY <2>6, PullsSent DEF CopyGoesOn, SendMigrationReqToAnotherPMC, migrationVars
    <2>7. CASE SendWriteReqLocalMemPort(T)
      BY <2>7, WritesSent DEF CopyGoesOn, SendWriteReqLocalMemPort, migrationVars
    <2>8. CASE HandleDataPullRsp(T)
      BY <2>8, DataHandled DEF CopyGoesOn, HandleDataPullRsp, migrationVars
    <2>9. CASE HandleWriteDoneRspFromMemCtrl(T)
      BY <2>9, WriteHandled DEF CopyGoesOn, CopyEnds, HandleWriteDoneRspFromMemCtrl
    <2>10. QED  BY <1>5, <2>1, <2>2, <2>3, <2>4, <2>5, <2>6, <2>7, <2>8, <2>9 DEF PMCStep
  <1>6. CASE g = H
    <2>1. ~SendMigrationReqToAnotherPMC(H) /\ ~SendWriteReqLocalMemPort(H)
      BY <1>1, <1>4, <1>6, NothingToSend
         DEF Bystanders, SendMigrationReqToAnotherPMC, SendWriteReqLocalMemPort
    <2>2. ~HandleDataPullRsp(H)
      BY <1>1 DEF Bystanders, HandleDataPullRsp
    <2>3. ~HandleWriteDoneRspFromMemCtrl(H)
      BY <1>1 DEF Bystanders, HandleWriteDoneRspFromMemCtrl
    <2>4. CASE Deliver(H)  BY <2>4, DataDelivered DEF CopyGoesOn, Deliver, migrationVars
    <2>5. CASE MemServes(H)  BY <2>5, ReadServed DEF CopyGoesOn, MemServes, migrationVars
    <2>6. CASE SendDataReadyRspToRequestingPMC(H)
      BY <2>6, DataSent DEF CopyGoesOn, SendDataReadyRspToRequestingPMC, migrationVars
    <2>7. CASE SendReadReqLocalMemPort(H)
      BY <2>7, ReadsSent DEF CopyGoesOn, SendReadReqLocalMemPort, migrationVars
    <2>8. CASE HandleDataPullReq(H)
      BY <2>8, PullHandled DEF CopyGoesOn, HandleDataPullReq, migrationVars
    <2>9. CASE HandleDataReadyRspFromMemCtrl(H)
      BY <2>9, ReadHandled DEF CopyGoesOn, HandleDataReadyRspFromMemCtrl, migrationVars
    <2>10. QED  BY <1>6, <2>1, <2>2, <2>3, <2>4, <2>5, <2>6, <2>7, <2>8, <2>9 DEF PMCStep
  <1>7. QED  BY <1>3, <1>5, <1>6

-----------------------------------------------------------------------------
(* Types of the page migration controllers.                                *)

(* A message delivered is one of the controllers', for one of them. *)
LEMMA DeliverTyped ==
  ASSUME PMCTypeOK, NEW g \in GPU, Deliver(g)
  PROVE  PMCTypeOK'
  <1>1. PICK q \in Seq(RemoteMsg) : q = wire[g]  BY DEF PMCTypeOK
  <1>2. q # <<>>  BY <1>1 DEF Deliver
  <1>3. Tail(q) \in Seq(RemoteMsg) /\ Head(q) \in RemoteMsg /\ Len(Tail(q)) = Len(q) - 1 /\ Len(q) \in Nat
    BY <1>2, HeadTailProperties, LenProperties
  <1>4. PICK m \in RemoteMsg : m = Head(q)  BY <1>3
  <1>5. m.dst \in GPU  BY DEF RemoteMsg
  <1>6. remotePort' = [remotePort EXCEPT ![m.dst] = <<m>>] /\ wire' = [wire EXCEPT ![g] = Tail(q)]
        /\ UNCHANGED <<mem, migrationVars, pullVars, serveVars, memVars>>
    BY <1>1, <1>4 DEF Deliver
  <1>7. remotePort' \in [GPU -> Seq(RemoteMsg)]  BY <1>5, <1>6 DEF PMCTypeOK
  <1>8. wire' \in [GPU -> Seq(RemoteMsg)]  BY <1>3, <1>6 DEF PMCTypeOK
  <1>9. \A h \in GPU : Len(wire'[h]) <= WireCap
    <2>1. Len(wire'[g]) <= WireCap
      <3>1. Len(q) <= WireCap  BY <1>1 DEF PMCTypeOK
      <3>2. wire'[g] = Tail(q)  BY <1>6 DEF PMCTypeOK
      <3>3. QED  BY <1>3, <3>1, <3>2, PMCAssumption
    <2>2. QED  BY <1>6, <2>1 DEF PMCTypeOK
  <1>10. QED  BY <1>6, <1>7, <1>8, <1>9 DEF PMCTypeOK, migrationVars, pullVars, serveVars, memVars

(* A memory holds data, and answers with data. *)
LEMMA ServesTyped ==
  ASSUME PMCTypeOK, NEW g \in GPU, MemServes(g)
  PROVE  PMCTypeOK'
  <1>1. PICK op \in memOps[g] :
        /\ memOps' = [memOps EXCEPT ![g] = @ \ {op}]
        /\ IF op.type = "read"
           THEN /\ localMemPort' = [localMemPort EXCEPT ![g] = <<[op EXCEPT !.data = mem[g][op.id]]>>]
                /\ UNCHANGED mem
           ELSE /\ localMemPort' = [localMemPort EXCEPT ![g] = <<op>>]
                /\ mem' = [mem EXCEPT ![g][op.id] = op.data]
        /\ UNCHANGED <<migrationVars, pullVars, serveVars, netVars>>
    BY DEF MemServes
  <1>2. op \in MemOp  BY DEF PMCTypeOK
  <1>3. op.id \in PullID /\ op.data \in Data  BY <1>2 DEF MemOp
  <1>4. mem[g][op.id] \in Data  BY <1>3 DEF PMCTypeOK
  <1>5. [op EXCEPT !.data = mem[g][op.id]] \in MemOp  BY <1>2, <1>4 DEF MemOp
  <1>6. localMemPort' \in [GPU -> Seq(MemOp)]
    <2>1. PICK r \in MemOp : localMemPort' = [localMemPort EXCEPT ![g] = <<r>>]
      BY <1>1, <1>2, <1>5
    <2>2. <<r>> \in Seq(MemOp)  OBVIOUS
    <2>3. QED  BY <2>1, <2>2 DEF PMCTypeOK
  <1>7. mem' \in [GPU -> [PullID -> Data]]
    <2>1. PICK i, d : i = op.id /\ d = op.data  OBVIOUS
    <2>2. mem' = mem \/ mem' = [mem EXCEPT ![g][i] = d]  BY <1>1, <2>1
    <2>3. i \in PullID /\ d \in Data  BY <1>3, <2>1
    <2>4. mem \in [GPU -> [PullID -> Data]]  BY DEF PMCTypeOK
    <2>5. PICK D : D = Data  OBVIOUS
    <2>6. \A h \in GPU : [mem[h] EXCEPT ![i] = d] \in [PullID -> D]  BY <2>3, <2>4, <2>5
    <2>7. [mem EXCEPT ![g] = [mem[g] EXCEPT ![i] = d]] \in [GPU -> [PullID -> D]]  BY <2>4, <2>5, <2>6
    <2>8. QED  BY <2>2, <2>4, <2>5, <2>7
  <1>8. memOps' \in [GPU -> SUBSET MemOp]  BY <1>1 DEF PMCTypeOK
  <1>9. QED  BY <1>1, <1>6, <1>7, <1>8 DEF PMCTypeOK, migrationVars, pullVars, serveVars, netVars

(* What is sent fits into the connection. *)
LEMMA SendTyped ==
  ASSUME PMCTypeOK, NEW g \in GPU, NEW q \in Seq(RemoteMsg), NEW n, n = Sendable(g, q), n > 0,
         wire' = [wire EXCEPT ![g] = @ \o SubSeq(q, 1, n)]
  PROVE  /\ wire' \in [GPU -> Seq(RemoteMsg)] /\ \A h \in GPU : Len(wire'[h]) <= WireCap
         /\ SubSeq(q, n + 1, Len(q)) \in Seq(RemoteMsg)
  <1>1. PICK w \in Seq(RemoteMsg) : w = wire[g]  BY DEF PMCTypeOK
  <1>2. Len(w) \in Nat /\ Len(q) \in Nat /\ Len(w) <= WireCap  BY <1>1 DEF PMCTypeOK
  <1>3. n \in Nat /\ n <= Len(q) /\ n <= WireCap - Len(w) /\ n >= 1
    <2>1. PICK a \in Nat, b \in Nat : a = Len(q) /\ b = Len(w)  BY <1>2
    <2>2. PICK c \in Nat : c = WireCap  BY PMCAssumption
    <2>3. n = Least(a, c - b)  BY <1>1, <2>1, <2>2 DEF Sendable
    <2>4. b <= c  BY <1>2, <2>1, <2>2
    <2>5. n \in Nat /\ n <= a /\ n <= c - b /\ n >= 1  BY <2>1, <2>2, <2>3, <2>4 DEF Least
    <2>6. QED  BY <2>1, <2>2, <2>5
  <1>4. SubSeq(q, 1, n) \in Seq(RemoteMsg) /\ SubSeq(q, n + 1, Len(q)) \in Seq(RemoteMsg) /\ Len(SubSeq(q, 1, n)) = n
    BY <1>2, <1>3, SubSeqProperties
  <1>5. PICK s \in Seq(RemoteMsg) : s = SubSeq(q, 1, n)  BY <1>4
  <1>6. w \o s \in Seq(RemoteMsg) /\ Len(w \o s) = Len(w) + Len(s)  BY ConcatProperties
  <1>7. wire' = [wire EXCEPT ![g] = w \o s]  BY <1>1, <1>5
  <1>8. Len(w \o s) <= WireCap  BY <1>2, <1>3, <1>4, <1>5, <1>6, PMCAssumption
  <1>9. PICK v \in Seq(RemoteMsg) : v = w \o s  BY <1>6
  <1>10. wire' = [wire EXCEPT ![g] = v]  BY <1>7, <1>9
  <1>11. wire \in [GPU -> Seq(RemoteMsg)] /\ \A h \in GPU : Len(wire[h]) <= WireCap  BY DEF PMCTypeOK
  <1>12. Len(v) <= WireCap  BY <1>8, <1>9
  <1>13. wire' \in [GPU -> Seq(RemoteMsg)]  BY <1>10, <1>11
  <1>14. \A h \in GPU : Len(wire'[h]) <= WireCap  BY <1>10, <1>11, <1>12
  <1>15. QED  BY <1>4, <1>13, <1>14

(* Every send of a controller keeps the types. *)
LEMMA SendsTyped ==
  ASSUME PMCTypeOK, NEW g \in GPU,
         \/ SendMigrationReqToAnotherPMC(g) \/ SendDataReadyRspToRequestingPMC(g)
         \/ SendReadReqLocalMemPort(g) \/ SendWriteReqLocalMemPort(g)
  PROVE  PMCTypeOK'
  <1>1. CASE SendMigrationReqToAnotherPMC(g)
    <2>1. PICK q \in Seq(RemoteMsg) : q = toPullFromAnotherPMC[g]  BY DEF PMCTypeOK
    <2>2. PICK n : n = Sendable(g, q)  OBVIOUS
    <2>3. n > 0 /\ wire' = [wire EXCEPT ![g] = @ \o SubSeq(q, 1, n)]
          /\ toPullFromAnotherPMC' = [toPullFromAnotherPMC EXCEPT ![g] = SubSeq(q, n + 1, Len(q))]
          /\ UNCHANGED <<mem, migrationVars, reqIDToWriteAddressMap, writeReqLocalMemPort,
                       serveVars, remotePort, memVars>>
      BY <1>1, <2>1, <2>2 DEF SendMigrationReqToAnotherPMC
    <2>4. /\ wire' \in [GPU -> Seq(RemoteMsg)] /\ \A h \in GPU : Len(wire'[h]) <= WireCap
          /\ SubSeq(q, n + 1, Len(q)) \in Seq(RemoteMsg)
      BY <2>2, <2>3, SendTyped
    <2>5. toPullFromAnotherPMC' \in [GPU -> Seq(RemoteMsg)]  BY <2>3, <2>4 DEF PMCTypeOK
    <2>6. QED  BY <2>3, <2>4, <2>5 DEF PMCTypeOK, migrationVars, serveVars, memVars
  <1>2. CASE SendDataReadyRspToRequestingPMC(g)
    <2>1. PICK q \in Seq(RemoteMsg) : q = toRspToAnotherPMC[g]  BY DEF PMCTypeOK
    <2>2. PICK n : n = Sendable(g, q)  OBVIOUS
    <2>3. n > 0 /\ wire' = [wire EXCEPT ![g] = @ \o SubSeq(q, 1, n)]
          /\ toRspToAnotherPMC' = [toRspToAnotherPMC EXCEPT ![g] = SubSeq(q, n + 1, Len(q))]
          /\ UNCHANGED <<mem, migrationVars, pullVars, requestingPMCtrlPort, toSendLocalMemPort,
                       remotePort, memVars>>
      BY <1>2, <2>1, <2>2 DEF SendDataReadyRspToRequestingPMC
    <2>4. /\ wire' \in [GPU -> Seq(RemoteMsg)] /\ \A h \in GPU : Len(wire'[h]) <= WireCap
          /\ SubSeq(q, n + 1, Len(q)) \in Seq(RemoteMsg)
      BY <2>2, <2>3, SendTyped
    <2>5. toRspToAnotherPMC' \in [GPU -> Seq(RemoteMsg)]  BY <2>3, <2>4 DEF PMCTypeOK
    <2>6. QED  BY <2>3, <2>4, <2>5 DEF PMCTypeOK, migrationVars, pullVars, memVars
  <1>3. \A q \in Seq(MemOp) : Ops(q) \subseteq MemOp  BY DEF Ops
  <1>4. CASE SendReadReqLocalMemPort(g)
    <2>1. Ops(toSendLocalMemPort[g]) \subseteq MemOp  BY <1>3 DEF PMCTypeOK
    <2>2. memOps' \in [GPU -> SUBSET MemOp]  BY <1>4, <2>1 DEF SendReadReqLocalMemPort, PMCTypeOK
    <2>3. <<>> \in Seq(MemOp)  OBVIOUS
    <2>4. toSendLocalMemPort' \in [GPU -> Seq(MemOp)]  BY <1>4, <2>3 DEF SendReadReqLocalMemPort, PMCTypeOK
    <2>5. QED  BY <1>4, <2>2, <2>4 DEF SendReadReqLocalMemPort, PMCTypeOK, migrationVars, pullVars, netVars
  <1>5. CASE SendWriteReqLocalMemPort(g)
    <2>1. Ops(writeReqLocalMemPort[g]) \subseteq MemOp  BY <1>3 DEF PMCTypeOK
    <2>2. memOps' \in [GPU -> SUBSET MemOp]  BY <1>5, <2>1 DEF SendWriteReqLocalMemPort, PMCTypeOK
    <2>3. <<>> \in Seq(MemOp)  OBVIOUS
    <2>4. writeReqLocalMemPort' \in [GPU -> Seq(MemOp)]  BY <1>5, <2>3 DEF SendWriteReqLocalMemPort, PMCTypeOK
    <2>5. QED  BY <1>5, <2>2, <2>4 DEF SendWriteReqLocalMemPort, PMCTypeOK, migrationVars, serveVars, netVars
  <1>6. QED  BY <1>1, <1>2, <1>4, <1>5

(* Pulls of a controller for every chunk of the page. *)
LEMMA StartTyped ==
  ASSUME PMCTypeOK, NEW g \in GPU, ProcessPageMigrationReqFromCtrlPort(g)
  PROVE  PMCTypeOK'
  <1>1. PICK q \in Seq(Migration) : q = ctrlPort[g]  BY DEF PMCTypeOK
  <1>2. q # <<>>  BY <1>1 DEF ProcessPageMigrationReqFromCtrlPort
  <1>3. Tail(q) \in Seq(Migration) /\ Head(q) \in Migration  BY <1>2, HeadTailProperties
  <1>4. PICK m \in Migration : m = Head(q)  BY <1>3
  <1>5. m.page \in Page /\ m.from \in GPU  BY DEF Migration
  <1>6. PICK f : f = Pulls(g, m)  OBVIOUS
  <1>7. f \in Seq(RemoteMsg)
    <2>1. \A c \in Chunk : <<m.page, c>> \in PullID  BY <1>5 DEF PullID
    <2>2. \A c \in Chunk : [type |-> "pull", id |-> <<m.page, c>>, src |-> g, dst |-> m.from] \in RemoteMsg
      BY <1>5, <2>1 DEF RemoteMsg
    <2>3. f \in [1..NumChunks -> RemoteMsg]  BY <1>6, <2>2 DEF Pulls, Chunk
    <2>4. QED  BY <2>3, PMCAssumption
  <1>8. /\ currentMigrationRequest' = [currentMigrationRequest EXCEPT ![g] = m]
        /\ toPullFromAnotherPMC' = [toPullFromAnotherPMC EXCEPT ![g] = @ \o f]
        /\ reqIDToWriteAddressMap' = [reqIDToWriteAddressMap EXCEPT ![g] = @ \cup ({m.page} \X Chunk)]
        /\ isHandlingPageMigration' = [isHandlingPageMigration EXCEPT ![g] = TRUE]
        /\ numDataRspPendingForPageMigration' = [numDataRspPendingForPageMigration EXCEPT ![g] = NumChunks]
        /\ ctrlPort' = [ctrlPort EXCEPT ![g] = Tail(q)]
        /\ UNCHANGED <<mem, toSendToCtrlPort, writeReqLocalMemPort, serveVars, netVars, memVars>>
    BY <1>1, <1>4, <1>6 DEF ProcessPageMigrationReqFromCtrlPort
  <1>9. toPullFromAnotherPMC' \in [GPU -> Seq(RemoteMsg)]
    <2>1. PICK r \in Seq(RemoteMsg) : r = toPullFromAnotherPMC[g]  BY DEF PMCTypeOK
    <2>2. r \o f \in Seq(RemoteMsg)  BY <1>7
    <2>3. QED  BY <1>8, <2>1, <2>2 DEF PMCTypeOK
  <1>10. reqIDToWriteAddressMap' \in [GPU -> SUBSET PullID]
    <2>1. {m.page} \X Chunk \subseteq PullID  BY <1>5 DEF PullID
    <2>2. QED  BY <1>8, <2>1 DEF PMCTypeOK
  <1>11. numDataRspPendingForPageMigration' \in [GPU -> Int]  BY <1>8, PMCAssumption DEF PMCTypeOK
  <1>12. /\ ctrlPort' \in [GPU -> Seq(Migration)]
         /\ currentMigrationRequest' \in [GPU -> Migration \cup {NoMigration}]
         /\ isHandlingPageMigration' \in [GPU -> BOOLEAN]
    BY <1>3, <1>8 DEF PMCTypeOK
  <1>13. QED  BY <1>8, <1>9, <1>10, <1>11, <1>12 DEF PMCTypeOK, serveVars, netVars, memVars

(* The handlers of requests and data of other controllers keep the types. *)
LEMMA RemoteTyped ==
  ASSUME PMCTypeOK, NEW g \in GPU, HandleDataPullReq(g) \/ HandleDataPullRsp(g)
  PROVE  PMCTypeOK'
  <1>1. PICK q \in Seq(RemoteMsg) : q = remotePort[g]  BY DEF PMCTypeOK
  <1>2. q # <<>>  BY <1>1 DEF HandleDataPullReq, HandleDataPullRsp
  <1>3. Tail(q) \in Seq(RemoteMsg) /\ Head(q) \in RemoteMsg  BY <1>2, HeadTailProperties
  <1>4. PICK m \in RemoteMsg : m = Head(q)  BY <1>3
  <1>5. m.id \in PullID /\ (m.type = "pull" => m.src \in GPU) /\ (m.type = "data" => m.data \in Data)
    BY DEF RemoteMsg
  <1>6. remotePort' = [remotePort EXCEPT ![g] = Tail(q)]
    BY <1>1 DEF HandleDataPullReq, HandleDataPullRsp
  <1>7. remotePort' \in [GPU -> Seq(RemoteMsg)]  BY <1>3, <1>6 DEF PMCTypeOK
  <1>8. CASE HandleDataPullReq(g)
    <2>1. PICK op : op = [type |-> "read", id |-> m.id, data |-> 0]  OBVIOUS
    <2>2. op \in MemOp  BY <1>5, <2>1 DEF MemOp, Data
    <2>3. /\ m.type = "pull"
          /\ requestingPMCtrlPort' = [requestingPMCtrlPort EXCEPT ![g] = m.src]
          /\ toSendLocalMemPort' = [toSendLocalMemPort EXCEPT ![g] = Append(@, op)]
          /\ UNCHANGED <<mem, migrationVars, pullVars, toRspToAnotherPMC, wire, memVars>>
      BY <1>1, <1>4, <1>8, <2>1 DEF HandleDataPullReq
    <2>4. toSendLocalMemPort' \in [GPU -> Seq(MemOp)]  BY <2>2, <2>3 DEF PMCTypeOK
    <2>5. requestingPMCtrlPort' \in [GPU -> GPU \cup {"nil"}]  BY <1>5, <2>3 DEF PMCTypeOK
    <2>6. QED  BY <1>7, <2>3, <2>4, <2>5 DEF PMCTypeOK, migrationVars, pullVars, memVars
  <1>9. CASE HandleDataPullRsp(g)
    <2>1. PICK op : op = [type |-> "write", id |-> m.id, data |-> m.data]  OBVIOUS
    <2>2. /\ m.type = "data"
          /\ writeReqLocalMemPort' = [writeReqLocalMemPort EXCEPT ![g] = Append(@, op)]
          /\ reqIDToWriteAddressMap' = [reqIDToWriteAddressMap EXCEPT ![g] = @ \ {m.id}]
          /\ UNCHANGED <<mem, migrationVars, toPullFromAnotherPMC, serveVars, wire, memVars>>
      BY <1>1, <1>4, <1>9, <2>1 DEF HandleDataPullRsp
    <2>3. op \in MemOp  BY <1>5, <2>1, <2>2 DEF MemOp
    <2>4. writeReqLocalMemPort' \in [GPU -> Seq(MemOp)]  BY <2>2, <2>3 DEF PMCTypeOK
    <2>5. reqIDToWriteAddressMap' \in [GPU -> SUBSET PullID]  BY <2>2 DEF PMCTypeOK
    <2>6. QED  BY <1>7, <2>2, <2>4, <2>5 DEF PMCTypeOK, migrationVars, serveVars, memVars
  <1>10. QED  BY <1>8, <1>9

(* Data read goes to the controller that pulled last, which must be one. *)
LEMMA ReadTyped ==
  ASSUME PMCTypeOK, NEW g \in GPU, HandleDataReadyRspFromMemCtrl(g), requestingPMCtrlPort[g] \in GPU
  PROVE  PMCTypeOK'
  <1>1. PICK q \in Seq(MemOp) : q = localMemPort[g]  BY DEF PMCTypeOK
  <1>2. q # <<>>  BY <1>1 DEF HandleDataReadyRspFromMemCtrl
  <1>3. Tail(q) \in Seq(MemOp) /\ Head(q) \in MemOp  BY <1>2, HeadTailProperties
  <1>4. PICK m \in MemOp : m = Head(q)  BY <1>3
  <1>5. PICK r : r = [type |-> "data", id |-> m.id, dst |-> requestingPMCtrlPort[g], data |-> m.data]  OBVIOUS
  <1>6. r \in RemoteMsg
    <2>1. m.id \in PullID /\ m.data \in Data  BY DEF MemOp
    <2>2. QED  BY <1>5, <2>1 DEF RemoteMsg
  <1>7. /\ toRspToAnotherPMC' = [toRspToAnotherPMC EXCEPT ![g] = Append(@, r)]
        /\ localMemPort' = [localMemPort EXCEPT ![g] = Tail(q)]
        /\ UNCHANGED <<mem, migrationVars, pullVars, requestingPMCtrlPort, toSendLocalMemPort, netVars, memOps>>
    BY <1>1, <1>4, <1>5 DEF HandleDataReadyRspFromMemCtrl
  <1>8. toRspToAnotherPMC' \in [GPU -> Seq(RemoteMsg)]  BY <1>6, <1>7 DEF PMCTypeOK
  <1>9. localMemPort' \in [GPU -> Seq(MemOp)]  BY <1>3, <1>7 DEF PMCTypeOK
  <1>10. QED  BY <1>7, <1>8, <1>9 DEF PMCTypeOK, migrationVars, pullVars, netVars

(* Acknowledged writes and the answer to the command processor keep the types. *)
LEMMA DoneTyped ==
  ASSUME PMCTypeOK, NEW g \in GPU, HandleWriteDoneRspFromMemCtrl(g) \/ SendMigrationCompleteRspToCtrlPort(g)
  PROVE  PMCTypeOK'
  <1>1. CASE SendMigrationCompleteRspToCtrlPort(g)
    BY <1>1 DEF SendMigrationCompleteRspToCtrlPort, PMCTypeOK, pullVars, serveVars, netVars, memVars
  <1>2. CASE HandleWriteDoneRspFromMemCtrl(g)
    <2>1. PICK q \in Seq(MemOp) : q = localMemPort[g]  BY DEF PMCTypeOK
    <2>2. q # <<>>  BY <1>2, <2>1 DEF HandleWriteDoneRspFromMemCtrl
    <2>3. Tail(q) \in Seq(MemOp)  BY <2>2, HeadTailProperties
    <2>4. PICK n \in Int : n = numDataRspPendingForPageMigration[g]  BY DEF PMCTypeOK
    <2>5. PICK k \in Int : k = IF Completes(n - 1) THEN -1 ELSE n - 1  OBVIOUS
    <2>6. localMemPort' = [localMemPort EXCEPT ![g] = Tail(q)]
          /\ numDataRspPendingForPageMigration' = [numDataRspPendingForPageMigration EXCEPT ![g] = k]
      BY <1>2, <2>1, <2>4, <2>5 DEF HandleWriteDoneRspFromMemCtrl
    <2>7. localMemPort' \in [GPU -> Seq(MemOp)] /\ numDataRspPendingForPageMigration' \in [GPU -> Int]
      BY <2>3, <2>6 DEF PMCTypeOK
    <2>8. toSendToCtrlPort' \in [GPU -> BOOLEAN] /\ currentMigrationRequest' \in [GPU -> Migration \cup {NoMigration}]
      BY <1>2 DEF HandleWriteDoneRspFromMemCtrl, PMCTypeOK
    <2>9. QED  BY <1>2, <2>7, <2>8 DEF HandleWriteDoneRspFromMemCtrl, PMCTypeOK, pullVars, serveVars, netVars
  <1>3. QED  BY <1>1, <1>2

(* Every step of a controller keeps the types when reads have a controller they are for. *)
LEMMA PMCStepTyped ==
  ASSUME PMCTypeOK, NEW g \in GPU, PMCStep(g), HandleDataReadyRspFromMemCtrl(g) => requestingPMCtrlPort[g] \in GPU
  PROVE  PMCTypeOK'
  BY DeliverTyped, ServesTyped, SendsTyped, StartTyped, RemoteTyped, ReadTyped, DoneTyped DEF PMCStep

(* ---- one GPU ---- *)
Quiet(g, p)      == toPart[g][p] = <<>> /\ fromPart[g][p] = <<>>
Asked(g, p, k)   == toPart[g][p] = <<k>> /\ fromPart[g][p] = <<>>
Replied(g, p, k) == toPart[g][p] = <<>> /\ fromPart[g][p] = <<k>>

Stop(p) == IF p \in Cache THEN "reset" ELSE "flush"

PartUp(g, p) ==
    /\ p \notin paused[g]
    /\ \/ Quiet(g, p)
       \/ p \in Cache /\ (Asked(g, p, "flush") \/ Replied(g, p, "flush"))

PartDown(g, p) == p \in paused[g] /\ Quiet(g, p)

PartStops(g, p) ==
    \/ Asked(g, p, Stop(p)) /\ p \notin paused[g]
    \/ Replied(g, p, Stop(p)) /\ p \in paused[g]
    \/ PartDown(g, p)

PartStarts(g, p) ==
    \/ Asked(g, p, "restart") /\ p \in paused[g]
    \/ Replied(g, p, "restart") /\ p \notin paused[g]
    \/ Quiet(g, p) /\ p \notin paused[g]

BusyOf(g, X) == { p \in X : ~Quiet(g, p) }

GroupAt(g, X, way) ==
    /\ way = "up"     => \A p \in X : PartUp(g, p)
    /\ way = "down"   => \A p \in X : PartDown(g, p)
    /\ way = "stops"  => (\A p \in X : PartStops(g, p)) /\ BusyOf(g, X) # {}
    /\ way = "starts" => (\A p \in X : PartStarts(g, p)) /\ BusyOf(g, X) # {}

Stops  == {"stopCU", "stopAT", "stopCache", "stopTLB"}
Starts == {"startCache", "startTLB", "startAT", "startCU"}
Stage  == Stops \cup Starts \cup {"running", "stopped"}

CUAt(s) ==
    CASE s = "running" -> "up" [] s = "stopCU" -> "stops" [] s = "startCU" -> "starts"
      [] OTHER -> "down"
ATAt(s) ==
    CASE s \in {"running", "stopCU", "startCU"} -> "up" [] s = "stopAT" -> "stops"
      [] s = "startAT" -> "starts" [] OTHER -> "down"
CacheAt(s) ==
    CASE s = "stopCache" -> "stops" [] s = "startCache" -> "starts"
      [] s \in {"stopTLB", "stopped"} -> "down" [] OTHER -> "up"
TLBAt(s) ==
    CASE s = "stopTLB" -> "stops" [] s = "startTLB" -> "starts"
      [] s \in {"stopped", "startCache"} -> "down" [] OTHER -> "up"

CountAt(g, s) ==
    /\ cp[g].numCUAck = Cardinality(BusyOf(g, CU))
    /\ cp[g].numAddrTranslationFlushAck = IF s = "stopAT" THEN Cardinality(BusyOf(g, AT)) ELSE 0
    /\ cp[g].numAddrTranslationRestartAck = IF s = "startAT" THEN Cardinality(BusyOf(g, AT)) ELSE 0
    /\ cp[g].numCacheACK = Cardinality(BusyOf(g, Cache))
    /\ cp[g].numTLBAck = Cardinality(BusyOf(g, TLB))

Flushing(g) == \E p \in Cache : Asked(g, p, "flush") \/ Replied(g, p, "flush")

GPUAt(g, s) ==
    /\ GroupAt(g, CU, CUAt(s))
    /\ GroupAt(g, AT, ATAt(s))
    /\ GroupAt(g, Cache, CacheAt(s))
    /\ GroupAt(g, TLB, TLBAt(s))
    /\ CountAt(g, s)
    /\ cp[g].shootDownInProcess = (s \in Stops)
    /\ s \in Stops => ~Flushing(g)

StageOf(g) ==
    IF cp[g].shootDownInProcess
    THEN CASE cp[g].numCUAck # 0 -> "stopCU"
           [] cp[g].numCUAck = 0 /\ cp[g].numAddrTranslationFlushAck # 0 -> "stopAT"
           [] cp[g].numCUAck = 0 /\ cp[g].numAddrTranslationFlushAck = 0 /\ cp[g].numTLBAck # 0 -> "stopTLB"
           [] OTHER -> "stopCache"
    ELSE CASE cp[g].numCUAck # 0 -> "startCU"
           [] cp[g].numCUAck = 0 /\ cp[g].numAddrTranslationRestartAck # 0 -> "startAT"
           [] cp[g].numCUAck = 0 /\ cp[g].numAddrTranslationRestartAck = 0 /\ cp[g].numTLBAck # 0 -> "startTLB"
           [] OTHER -> IF ~(CU \subseteq paused[g]) THEN "running"
                       ELSE IF cp[g].numCacheACK # 0 THEN "startCache" ELSE "stopped"

Staged == \A g \in GPU : \E s \in Stage : GPUAt(g, s)

-----------------------------------------------------------------------------
(* Facts about the parts of one GPU.                                       *)

(* The sets of parts do not share a part.                                  *)
LEMMA PartsApart ==
    /\ CU \subseteq Part /\ AT \subseteq Part /\ Cache \subseteq Part /\ TLB \subseteq Part
    /\ "l2" \in Part /\ "rdma" \in Part /\ "dma" \in Part /\ "pmc" \in Part
    /\ CU \cap AT = {} /\ CU \cap Cache = {} /\ CU \cap TLB = {}
    /\ AT \cap Cache = {} /\ AT \cap TLB = {} /\ Cache \cap TLB = {}
    /\ {"rdma", "dma", "pmc"} \cap (CU \cup AT \cup Cache \cup TLB) = {}
    /\ L1 \subseteq Cache /\ "l2" \in Cache /\ "l2" \notin L1
    /\ CU # {} /\ AT # {} /\ Cache # {} /\ TLB # {} /\ L1 # {}
  BY CPAssumption DEF Part, Cache

(* A queue of one message. *)
LEMMA OneInQueue ==
    \A k : /\ Append(<<>>, k) = <<k>> /\ Tail(<<k>>) = <<>> /\ Head(<<k>>) = k
           /\ <<k>> # <<>> /\ \A l : <<k>> = <<l>> => k = l
  OBVIOUS

(* A group has finitely many parts that still owe an answer. *)
LEMMA BusyFinite ==
    ASSUME NEW g, NEW X, X \subseteq Part
    PROVE  IsFiniteSet(BusyOf(g, X)) /\ IsFiniteSet(BusyOf(g, X)')
  <1>1. BusyOf(g, X) \in SUBSET Part /\ BusyOf(g, X)' \in SUBSET Part
    BY DEF BusyOf
  <1> QED BY <1>1, FS_Subset, CPAssumption

(* Part p of GPU g, and whether it has stopped, stay as they are. *)
PartKept(g, p) ==
    /\ toPart'[g][p] = toPart[g][p]
    /\ fromPart'[g][p] = fromPart[g][p]
    /\ p \in paused'[g] <=> p \in paused[g]

(* A part whose queues and pause stay is in the same situation. *)
LEMMA KeptPart ==
    ASSUME NEW g, NEW p, PartKept(g, p)
    PROVE  /\ Quiet(g, p)' = Quiet(g, p)
           /\ PartUp(g, p)' = PartUp(g, p) /\ PartDown(g, p)' = PartDown(g, p)
           /\ PartStops(g, p)' = PartStops(g, p) /\ PartStarts(g, p)' = PartStarts(g, p)
           /\ \A k : Asked(g, p, k)' = Asked(g, p, k) /\ Replied(g, p, k)' = Replied(g, p, k)
  BY DEF PartKept, Quiet, Asked, Replied, PartUp, PartDown, PartStops, PartStarts

Ways == {"up", "down", "stops", "starts"}

(* A group whose parts stay the same stays where it is. *)
LEMMA KeptGroup ==
    ASSUME NEW g, NEW X, \A p \in X : PartKept(g, p), NEW way \in Ways
    PROVE  GroupAt(g, X, way)' = GroupAt(g, X, way) /\ BusyOf(g, X)' = BusyOf(g, X)
  <1>1. BusyOf(g, X)' = BusyOf(g, X)
    BY KeptPart DEF BusyOf
  <1>2. /\ (\A p \in X : PartUp(g, p))' = (\A p \in X : PartUp(g, p))
        /\ (\A p \in X : PartDown(g, p))' = (\A p \in X : PartDown(g, p))
        /\ (\A p \in X : PartStops(g, p))' = (\A p \in X : PartStops(g, p))
        /\ (\A p \in X : PartStarts(g, p))' = (\A p \in X : PartStarts(g, p))
    BY KeptPart
  <1> QED BY <1>1, <1>2 DEF GroupAt, Ways

(* The fields of a command processor, and the stage they tell of. *)
LEMMA StageIs ==
    \A g \in GPU, s \in Stage : CPTypeOK /\ GPUAt(g, s) => StageOf(g) = s
  <1> SUFFICES ASSUME NEW g \in GPU, NEW s \in Stage, CPTypeOK, GPUAt(g, s)
               PROVE  StageOf(g) = s
    OBVIOUS
  <1> DEFINE n(X) == Cardinality(BusyOf(g, X))
  <1>1. \A X : X \subseteq Part => n(X) \in Nat /\ (n(X) = 0 <=> BusyOf(g, X) = {})
    BY BusyFinite, CountZero
  <1> HIDE DEF n
  <1>2. /\ cp[g].numCUAck = n(CU) /\ cp[g].numCacheACK = n(Cache) /\ cp[g].numTLBAck = n(TLB)
        /\ cp[g].numAddrTranslationFlushAck = IF s = "stopAT" THEN n(AT) ELSE 0
        /\ cp[g].numAddrTranslationRestartAck = IF s = "startAT" THEN n(AT) ELSE 0
        /\ cp[g].shootDownInProcess = (s \in Stops)
    BY DEF GPUAt, CountAt, n
  <1>3. \A X \in {CU, AT, Cache, TLB} :
            /\ GroupAt(g, X, "down") => BusyOf(g, X) = {} /\ X \subseteq paused[g]
            /\ GroupAt(g, X, "up") => X \cap paused[g] = {}
            /\ GroupAt(g, X, "stops") => BusyOf(g, X) # {}
            /\ GroupAt(g, X, "starts") => BusyOf(g, X) # {}
    BY DEF GroupAt, PartDown, PartUp, BusyOf
  <1>4. \A X \in {CU, AT, TLB} : GroupAt(g, X, "up") => BusyOf(g, X) = {}
    BY PartsApart DEF GroupAt, PartUp, BusyOf
  <1>5. GroupAt(g, CU, CUAt(s)) /\ GroupAt(g, AT, ATAt(s)) /\ GroupAt(g, Cache, CacheAt(s)) /\ GroupAt(g, TLB, TLBAt(s))
    BY DEF GPUAt
  <1>6. CU # {}
    BY PartsApart
  <1>7. /\ n(CU) = 0 <=> BusyOf(g, CU) = {}
        /\ n(AT) = 0 <=> BusyOf(g, AT) = {}
        /\ n(Cache) = 0 <=> BusyOf(g, Cache) = {}
        /\ n(TLB) = 0 <=> BusyOf(g, TLB) = {}
    BY <1>1, PartsApart
  <1>8. CASE s \in Stops
    BY <1>2, <1>3, <1>4, <1>5, <1>7, <1>8 DEF StageOf, CUAt, ATAt, CacheAt, TLBAt, Stops
  <1>9. CASE s \in Stage \ Stops
    BY <1>2, <1>3, <1>4, <1>5, <1>6, <1>7, <1>9 DEF StageOf, CUAt, ATAt, CacheAt, TLBAt, Stops, Starts, Stage
  <1> QED BY <1>8, <1>9

(* The stage is determined by what the parts do, also after a step. *)
LEMMA StageIsNext ==
    (\A g \in GPU, s \in Stage : CPTypeOK /\ GPUAt(g, s) => StageOf(g) = s)'
  BY StageIs, PTL

(* What a handler of the command processor does to the parts. *)
LEMMA SentTo ==
    ASSUME CPTypeOK, NEW g \in GPU, NEW X, X \subseteq Part, NEW k, SendTo(g, X, k)
    PROVE  \A h \in GPU, p \in Part :
             toPart'[h][p] = IF h = g /\ p \in X THEN Append(toPart[h][p], k) ELSE toPart[h][p]
  BY DEF SendTo, CPTypeOK

(* Taking an answer from a part changes the queue of that part only. *)
LEMMA TakenFrom ==
    ASSUME CPTypeOK, NEW g \in GPU, NEW p \in Part, Retrieve(g, p)
    PROVE  \A h \in GPU, q \in Part :
             fromPart'[h][q] = IF h = g /\ q = p THEN Tail(fromPart[h][q]) ELSE fromPart[h][q]
  BY DEF Retrieve, CPTypeOK

(* A part that answers moves the command of its own queue into its answers. *)
LEMMA AnsweredBy ==
    ASSUME CPTypeOK, NEW g \in GPU, NEW p \in Part, Answers(g, p)
    PROVE  \A h \in GPU, q \in Part :
             /\ toPart'[h][q] = IF h = g /\ q = p THEN Tail(toPart[h][q]) ELSE toPart[h][q]
             /\ fromPart'[h][q] = IF h = g /\ q = p THEN Append(fromPart[h][q], Head(toPart[h][q]))
                                                     ELSE fromPart[h][q]
  BY DEF Answers, CPTypeOK

(* A group all of whose parts are asked for the same thing. *)
LEMMA GroupSent ==
    ASSUME NEW g, NEW X, X # {}, NEW k, BusyOf(g, X) = {},
           \A p \in X : /\ toPart'[g][p] = Append(toPart[g][p], k)
                        /\ fromPart'[g][p] = fromPart[g][p]
                        /\ p \in paused'[g] <=> p \in paused[g]
    PROVE  /\ BusyOf(g, X)' = X
           /\ GroupAt(g, X, "up") /\ (\A p \in X : Stop(p) = k) => GroupAt(g, X, "stops")'
           /\ GroupAt(g, X, "up") /\ X = Cache /\ k = "flush" => GroupAt(g, X, "up")' /\ Flushing(g)'
           /\ GroupAt(g, X, "down") /\ k = "restart" => GroupAt(g, X, "starts")'
  <1>1. \A p \in X : Quiet(g, p) /\ Asked(g, p, k)' /\ ~Quiet(g, p)'
    BY OneInQueue DEF BusyOf, Quiet, Asked
  <1>2. BusyOf(g, X)' = X
    BY <1>1 DEF BusyOf
  <1>3. GroupAt(g, X, "up") => \A p \in X : p \notin paused'[g]
    BY DEF GroupAt, PartUp
  <1>4. GroupAt(g, X, "down") => \A p \in X : p \in paused'[g]
    BY DEF GroupAt, PartDown
  <1>5. ASSUME GroupAt(g, X, "up"), \A p \in X : Stop(p) = k PROVE GroupAt(g, X, "stops")'
    BY <1>1, <1>2, <1>3, <1>5 DEF GroupAt, PartStops
  <1>6. ASSUME GroupAt(g, X, "up"), X = Cache, k = "flush" PROVE GroupAt(g, X, "up")' /\ Flushing(g)'
    BY <1>1, <1>3, <1>6 DEF GroupAt, PartUp, Flushing
  <1>7. ASSUME GroupAt(g, X, "down"), k = "restart" PROVE GroupAt(g, X, "starts")'
    BY <1>1, <1>2, <1>4, <1>7 DEF GroupAt, PartStarts
  <1> QED BY <1>2, <1>5, <1>6, <1>7

(* A group one of whose answers the command processor takes. *)
LEMMA GroupTaken ==
    ASSUME NEW g, NEW X, NEW p \in X, fromPart[g][p] # <<>>,
           \A q \in X : /\ toPart'[g][q] = toPart[g][q]
                        /\ fromPart'[g][q] = IF q = p THEN Tail(fromPart[g][q]) ELSE fromPart[g][q]
                        /\ q \in paused'[g] <=> q \in paused[g]
    PROVE  /\ p \in BusyOf(g, X)
           /\ ~GroupAt(g, X, "down")
           /\ GroupAt(g, X, "up") =>
                /\ X \cap Cache # {} /\ Replied(g, p, "flush")
                /\ BusyOf(g, X)' = BusyOf(g, X) \ {p} /\ GroupAt(g, X, "up")'
           /\ GroupAt(g, X, "stops") =>
                /\ Replied(g, p, Stop(p)) /\ BusyOf(g, X)' = BusyOf(g, X) \ {p}
                /\ IF BusyOf(g, X)' = {} THEN GroupAt(g, X, "down")' ELSE GroupAt(g, X, "stops")'
           /\ GroupAt(g, X, "starts") =>
                /\ Replied(g, p, "restart") /\ BusyOf(g, X)' = BusyOf(g, X) \ {p}
                /\ IF BusyOf(g, X)' = {} THEN GroupAt(g, X, "up")' ELSE GroupAt(g, X, "starts")'
  <1>1. \A q \in X \ {p} : PartKept(g, q)
    BY DEF PartKept
  <1>2. ~Quiet(g, p) /\ \A k : ~Asked(g, p, k)
    BY DEF Quiet, Asked
  <1>0. toPart'[g][p] = toPart[g][p] /\ fromPart'[g][p] = Tail(fromPart[g][p])
    OBVIOUS
  <1>3. ASSUME NEW k, Replied(g, p, k) PROVE Quiet(g, p)'
    BY <1>0, <1>3, OneInQueue DEF Replied, Quiet
  <1>4. \A k : Replied(g, p, k) => BusyOf(g, X)' = BusyOf(g, X) \ {p}
    BY <1>1, <1>3, KeptPart DEF BusyOf
  <1>5. ASSUME GroupAt(g, X, "up")
        PROVE  X \cap Cache # {} /\ Replied(g, p, "flush") /\ GroupAt(g, X, "up")'
    BY <1>1, <1>2, <1>3, <1>5, KeptPart DEF GroupAt, PartUp
  <1>6. ASSUME GroupAt(g, X, "stops")
        PROVE  Replied(g, p, Stop(p)) /\ (IF BusyOf(g, X)' = {} THEN GroupAt(g, X, "down")' ELSE GroupAt(g, X, "stops")')
    <2>1. Replied(g, p, Stop(p)) /\ p \in paused[g]
      BY <1>2, <1>6 DEF GroupAt, PartStops, PartDown
    <2>2. \A q \in X : PartStops(g, q)'
      BY <1>1, <1>3, <1>6, <2>1, KeptPart DEF GroupAt, PartStops, PartDown
    <2>3. BusyOf(g, X)' = {} => \A q \in X : PartDown(g, q)'
      BY <2>2, OneInQueue DEF PartStops, BusyOf, Quiet, Asked, Replied
    <2> QED BY <2>1, <2>2, <2>3 DEF GroupAt
  <1>7. ASSUME GroupAt(g, X, "starts")
        PROVE  Replied(g, p, "restart") /\ (IF BusyOf(g, X)' = {} THEN GroupAt(g, X, "up")' ELSE GroupAt(g, X, "starts")')
    <2>1. Replied(g, p, "restart") /\ p \notin paused[g]
      BY <1>2, <1>7 DEF GroupAt, PartStarts
    <2>2. \A q \in X : PartStarts(g, q)'
      BY <1>1, <1>3, <1>7, <2>1, KeptPart DEF GroupAt, PartStarts
    <2>3. BusyOf(g, X)' = {} => \A q \in X : PartUp(g, q)'
      BY <2>2, OneInQueue DEF PartStarts, PartUp, BusyOf, Quiet, Asked, Replied
    <2> QED BY <2>1, <2>2, <2>3 DEF GroupAt
  <1>8. ~GroupAt(g, X, "down")
    BY <1>2 DEF GroupAt, PartDown
  <1> QED BY <1>2, <1>4, <1>5, <1>6, <1>7, <1>8 DEF BusyOf

(* A group one of whose parts does what it was asked for. *)
LEMMA GroupAnswered ==
    ASSUME NEW g, NEW X, NEW p \in X, toPart[g][p] # <<>>,
           \A q \in X : /\ toPart'[g][q] = IF q = p THEN Tail(toPart[g][q]) ELSE toPart[g][q]
                        /\ fromPart'[g][q] = IF q = p THEN Append(fromPart[g][q], Head(toPart[g][q]))
                                                        ELSE fromPart[g][q]
                        /\ q # p => (q \in paused'[g] <=> q \in paused[g])
    PROVE  /\ p \in BusyOf(g, X)
           /\ ~GroupAt(g, X, "down")
           /\ GroupAt(g, X, "up") =>
                /\ p \in Cache /\ Asked(g, p, "flush") /\ p \notin paused[g]
                /\ p \notin paused'[g] => BusyOf(g, X)' = BusyOf(g, X) /\ GroupAt(g, X, "up")'
           /\ GroupAt(g, X, "stops") =>
                /\ Asked(g, p, Stop(p)) /\ p \notin paused[g]
                /\ p \in paused'[g] => BusyOf(g, X)' = BusyOf(g, X) /\ GroupAt(g, X, "stops")'
           /\ GroupAt(g, X, "starts") =>
                /\ Asked(g, p, "restart") /\ p \in paused[g]
                /\ p \notin paused'[g] => BusyOf(g, X)' = BusyOf(g, X) /\ GroupAt(g, X, "starts")'
  <1>1. \A q \in X \ {p} : PartKept(g, q)
    BY DEF PartKept
  <1>2. ~Quiet(g, p) /\ \A k : ~Replied(g, p, k)
    BY DEF Quiet, Replied
  <1>0. /\ toPart'[g][p] = Tail(toPart[g][p])
        /\ fromPart'[g][p] = Append(fromPart[g][p], Head(toPart[g][p]))
    OBVIOUS
  <1>3. ASSUME NEW k, Asked(g, p, k) PROVE Replied(g, p, k)' /\ ~Quiet(g, p)'
    BY <1>0, <1>3, OneInQueue DEF Asked, Replied, Quiet
  <1>4. \A k : Asked(g, p, k) => BusyOf(g, X)' = BusyOf(g, X)
    BY <1>1, <1>2, <1>3, KeptPart DEF BusyOf
  <1>5. ASSUME GroupAt(g, X, "up")
        PROVE  /\ p \in Cache /\ Asked(g, p, "flush") /\ p \notin paused[g]
               /\ p \notin paused'[g] => GroupAt(g, X, "up")'
    BY <1>1, <1>2, <1>3, <1>5, KeptPart DEF GroupAt, PartUp
  <1>6. ASSUME GroupAt(g, X, "stops")
        PROVE  /\ Asked(g, p, Stop(p)) /\ p \notin paused[g]
               /\ p \in paused'[g] => GroupAt(g, X, "stops")'
    <2>1. Asked(g, p, Stop(p)) /\ p \notin paused[g]
      BY <1>2, <1>6 DEF GroupAt, PartStops, PartDown
    <2>2. p \in paused'[g] => \A q \in X : PartStops(g, q)'
      BY <1>1, <1>3, <1>6, <2>1, KeptPart DEF GroupAt, PartStops
    <2> QED BY <1>4, <1>6, <2>1, <2>2 DEF GroupAt
  <1>7. ASSUME GroupAt(g, X, "starts")
        PROVE  /\ Asked(g, p, "restart") /\ p \in paused[g]
               /\ p \notin paused'[g] => GroupAt(g, X, "starts")'
    <2>1. Asked(g, p, "restart") /\ p \in paused[g]
      BY <1>2, <1>7 DEF GroupAt, PartStarts
    <2>2. p \notin paused'[g] => \A q \in X : PartStarts(g, q)'
      BY <1>1, <1>3, <1>7, <2>1, KeptPart DEF GroupAt, PartStarts
    <2> QED BY <1>4, <1>7, <2>1, <2>2 DEF GroupAt
  <1>8. ~GroupAt(g, X, "down")
    BY <1>2 DEF GroupAt, PartDown
  <1> QED BY <1>2, <1>4, <1>5, <1>6, <1>7, <1>8 DEF BusyOf

(* One busy part less. *)
LEMMA OneLess ==
    ASSUME NEW g, NEW X, X \subseteq Part, NEW p \in BusyOf(g, X), BusyOf(g, X)' = BusyOf(g, X) \ {p}
    PROVE  /\ Cardinality(BusyOf(g, X)) \in Nat \ {0}
           /\ Cardinality(BusyOf(g, X)') = Cardinality(BusyOf(g, X)) - 1
           /\ Cardinality(BusyOf(g, X)) = 1 <=> BusyOf(g, X)' = {}
  <1>1. IsFiniteSet(BusyOf(g, X)) /\ BusyOf(g, X) # {}
    BY BusyFinite
  <1>2. Cardinality(BusyOf(g, X)) \in Nat \ {0}
    BY <1>1, CountZero
  <1>3. /\ IsFiniteSet(BusyOf(g, X) \ {p})
        /\ Cardinality(BusyOf(g, X) \ {p}) = Cardinality(BusyOf(g, X)) - 1
    BY <1>1, FS_RemoveElement
  <1>4. Cardinality(BusyOf(g, X) \ {p}) = 0 <=> BusyOf(g, X) \ {p} = {}
    BY <1>3, CountZero
  <1> QED BY <1>2, <1>3, <1>4

(* The number of parts that owe an answer is zero when no part does. *)
LEMMA NoneBusy ==
    ASSUME NEW g, NEW X, X \subseteq Part
    PROVE  /\ Cardinality(BusyOf(g, X)) \in Nat /\ (Cardinality(BusyOf(g, X)) = 0 <=> BusyOf(g, X) = {})
           /\ Cardinality(BusyOf(g, X)') \in Nat /\ (Cardinality(BusyOf(g, X)') = 0 <=> BusyOf(g, X)' = {})
  BY BusyFinite, CountZero

-----------------------------------------------------------------------------
(* The stages of one GPU.                                                  *)

(* Nothing the stage of GPU h depends on changes. *)
GPUKept(h) ==
    /\ toPart'[h] = toPart[h] /\ fromPart'[h] = fromPart[h]
    /\ paused'[h] = paused[h] /\ cp'[h] = cp[h]

(* A GPU whose parts and state stay the same stays in its stage. *)
LEMMA KeptGPU ==
    ASSUME NEW h, GPUKept(h)
    PROVE  /\ \A s \in Stage : GPUAt(h, s) => GPUAt(h, s)'
           /\ StageOf(h)' = StageOf(h)
           /\ Flushing(h)' = Flushing(h)
  <1>1. \A p : PartKept(h, p)
    BY DEF PartKept, GPUKept
  <1>2. \A X : \A way \in Ways : GroupAt(h, X, way)' = GroupAt(h, X, way)
    BY <1>1, KeptGroup
  <1>9. \A X : BusyOf(h, X)' = BusyOf(h, X)
    BY <1>1, KeptPart DEF BusyOf
  <1>3. Flushing(h)' = Flushing(h)
    BY <1>1, KeptPart DEF Flushing
  <1>4. StageOf(h)' = StageOf(h)
    BY DEF StageOf, GPUKept
  <1>5. \A s \in Stage : CUAt(s) \in Ways /\ ATAt(s) \in Ways /\ CacheAt(s) \in Ways /\ TLBAt(s) \in Ways
    BY DEF CUAt, ATAt, CacheAt, TLBAt, Ways
  <1>6. ASSUME NEW s \in Stage PROVE CountAt(h, s)' = CountAt(h, s)
    BY <1>9 DEF CountAt, GPUKept
  <1>7. cp'[h].shootDownInProcess = cp[h].shootDownInProcess
    BY DEF GPUKept
  <1>8. ASSUME NEW s \in Stage, GPUAt(h, s) PROVE GPUAt(h, s)'
    <2>1. /\ GroupAt(h, CU, CUAt(s))' /\ GroupAt(h, AT, ATAt(s))'
          /\ GroupAt(h, Cache, CacheAt(s))' /\ GroupAt(h, TLB, TLBAt(s))'
      BY <1>2, <1>5, <1>8 DEF GPUAt
    <2>2. CountAt(h, s)'
      BY <1>6, <1>8 DEF GPUAt
    <2> QED BY <1>3, <1>7, <1>8, <2>1, <2>2 DEF GPUAt
  <1> QED BY <1>3, <1>4, <1>8

(* A handler of the command processor of GPU g changes its fields only. *)
LEMMA FieldsSet ==
    ASSUME CPTypeOK, NEW g \in GPU, NEW new, SetCP(g, new)
    PROVE  cp'[g] = new /\ \A h \in GPU : h # g => cp'[h] = cp[h]
  BY DEF SetCP, CPTypeOK

(* A GPU goes on with a cache flush while its caches stay the same. *)
LEMMA FlushingKept ==
    ASSUME NEW g, \A p \in Cache : PartKept(g, p)
    PROVE  Flushing(g)' = Flushing(g)
  BY KeptPart DEF Flushing

Groups == {CU, AT, Cache, TLB}

(* The groups of parts are nonempty, finite and disjoint. *)
LEMMA GroupsApart ==
    /\ \A X \in Groups : X \subseteq Part /\ X # {} /\ IsFiniteSet(X) /\ Cardinality(X) \in Nat \ {0}
    /\ \A X, Y \in Groups : X # Y => X \cap Y = {}
    /\ CU # AT /\ CU # Cache /\ CU # TLB /\ AT # Cache /\ AT # TLB /\ Cache # TLB
  <1>1. \A X \in Groups : X \in SUBSET Part /\ X # {}
    BY PartsApart DEF Groups
  <1>2. \A X \in Groups : IsFiniteSet(X)
    BY <1>1, CPAssumption, FS_Subset
  <1>3. \A X \in Groups : Cardinality(X) \in Nat \ {0}
    BY <1>1, <1>2, CountZero
  <1> QED BY <1>1, <1>2, <1>3, PartsApart DEF Groups

(* The command processor of GPU g takes an answer of part p and asks the   *)
(* parts of Y, if any, for something.                                      *)
Takes(g, p, Y, k) ==
    /\ fromPart[g][p] # <<>>
    /\ Retrieve(g, p)
    /\ IF Y = {} THEN UNCHANGED toPart ELSE SendTo(g, Y, k)
    /\ paused' = paused
    /\ \A h \in GPU : h # g => cp'[h] = cp[h]

(* An answer taken from one part leaves the other parts of its group alone. *)
LEMMA TakesOne ==
    ASSUME CPTypeOK, CPTypeOK', NEW g \in GPU, NEW X \in Groups, NEW p \in X,
           NEW Y \in Groups \cup {{}}, X # Y, NEW k, Takes(g, p, Y, k)
    PROVE  /\ \A h \in GPU : h # g => GPUKept(h)
           /\ \A Z \in Groups \ {X, Y} : \A q \in Z : PartKept(g, q)
           /\ \A q \in X : /\ toPart'[g][q] = toPart[g][q]
                           /\ fromPart'[g][q] = IF q = p THEN Tail(fromPart[g][q]) ELSE fromPart[g][q]
                           /\ q \in paused'[g] <=> q \in paused[g]
           /\ \A q \in Y : /\ toPart'[g][q] = Append(toPart[g][q], k)
                           /\ fromPart'[g][q] = fromPart[g][q]
                           /\ q \in paused'[g] <=> q \in paused[g]
  <1>1. X \subseteq Part /\ Y \subseteq Part /\ X \cap Y = {}
    BY GroupsApart
  <1>2. \A h \in GPU, q \in Part :
          /\ fromPart'[h][q] = IF h = g /\ q = p THEN Tail(fromPart[h][q]) ELSE fromPart[h][q]
          /\ toPart'[h][q] = IF h = g /\ q \in Y THEN Append(toPart[h][q], k) ELSE toPart[h][q]
    BY <1>1, TakenFrom, SentTo DEF Takes
  <1>3. \A h \in GPU : h # g => GPUKept(h)
    BY <1>2 DEF GPUKept, CPTypeOK, Takes
  <1>4. \A Z \in Groups \ {X, Y} : \A q \in Z : q \in Part \ (X \cup Y)
    BY GroupsApart
  <1>5. \A Z \in Groups \ {X, Y} : \A q \in Z : PartKept(g, q)
    BY <1>2, <1>4 DEF PartKept, Takes
  <1> QED BY <1>1, <1>2, <1>3, <1>5 DEF Takes

(* What the answer of a part means for its group and for the group asked next. *)
LEMMA TakesAll ==
    ASSUME CPTypeOK, CPTypeOK', NEW g \in GPU, NEW X \in Groups, NEW p \in X,
           NEW Y \in Groups \cup {{}}, X # Y, NEW k, Takes(g, p, Y, k)
    PROVE  /\ \A h \in GPU : h # g => GPUKept(h)
           /\ \A Z \in Groups \ {X, Y} : BusyOf(g, Z)' = BusyOf(g, Z)
           /\ \A Z \in Groups \ {X, Y} : \A way \in Ways : GroupAt(g, Z, way)' = GroupAt(g, Z, way)
           /\ Cache \notin {X, Y} => Flushing(g)' = Flushing(g)
           /\ ~GroupAt(g, X, "down")
           /\ GroupAt(g, X, "up") =>
                X = Cache /\ Replied(g, p, "flush") /\ GroupAt(g, X, "up")'
           /\ GroupAt(g, X, "stops") =>
                Replied(g, p, Stop(p)) /\ (IF BusyOf(g, X)' = {} THEN GroupAt(g, X, "down")' ELSE GroupAt(g, X, "stops")')
           /\ GroupAt(g, X, "starts") =>
                Replied(g, p, "restart") /\ (IF BusyOf(g, X)' = {} THEN GroupAt(g, X, "up")' ELSE GroupAt(g, X, "starts")')
           /\ GroupAt(g, X, "up") \/ GroupAt(g, X, "stops") \/ GroupAt(g, X, "starts") =>
                /\ Cardinality(BusyOf(g, X)) \in Nat \ {0}
                /\ Cardinality(BusyOf(g, X)') = Cardinality(BusyOf(g, X)) - 1
                /\ Cardinality(BusyOf(g, X)) = 1 <=> BusyOf(g, X)' = {}
           /\ Y # {} /\ BusyOf(g, Y) = {} =>
                /\ BusyOf(g, Y)' = Y
                /\ GroupAt(g, Y, "up") /\ (\A q \in Y : Stop(q) = k) => GroupAt(g, Y, "stops")'
                /\ GroupAt(g, Y, "down") /\ k = "restart" => GroupAt(g, Y, "starts")'
  <1>1. /\ \A h \in GPU : h # g => GPUKept(h)
        /\ \A Z \in Groups \ {X, Y} : \A q \in Z : PartKept(g, q)
        /\ \A q \in X : /\ toPart'[g][q] = toPart[g][q]
                        /\ fromPart'[g][q] = IF q = p THEN Tail(fromPart[g][q]) ELSE fromPart[g][q]
                        /\ q \in paused'[g] <=> q \in paused[g]
        /\ \A q \in Y : /\ toPart'[g][q] = Append(toPart[g][q], k)
                        /\ fromPart'[g][q] = fromPart[g][q]
                        /\ q \in paused'[g] <=> q \in paused[g]
    BY TakesOne
  <1>2. fromPart[g][p] # <<>>
    BY DEF Takes
  <1>3. ASSUME NEW Z \in Groups \ {X, Y}, NEW way \in Ways PROVE GroupAt(g, Z, way)' = GroupAt(g, Z, way)
    <2>1. \A q \in Z : PartKept(g, q)
      BY <1>1
    <2> QED BY <2>1, KeptGroup
  <1>4. \A Z \in Groups \ {X, Y} : BusyOf(g, Z)' = BusyOf(g, Z)
    BY <1>1, KeptPart DEF BusyOf
  <1>5. Cache \notin {X, Y} => Flushing(g)' = Flushing(g)
    BY <1>1, FlushingKept DEF Groups
  <1>6. /\ p \in BusyOf(g, X)
        /\ ~GroupAt(g, X, "down")
        /\ GroupAt(g, X, "up") =>
             /\ X \cap Cache # {} /\ Replied(g, p, "flush")
             /\ BusyOf(g, X)' = BusyOf(g, X) \ {p} /\ GroupAt(g, X, "up")'
        /\ GroupAt(g, X, "stops") =>
             /\ Replied(g, p, Stop(p)) /\ BusyOf(g, X)' = BusyOf(g, X) \ {p}
             /\ IF BusyOf(g, X)' = {} THEN GroupAt(g, X, "down")' ELSE GroupAt(g, X, "stops")'
        /\ GroupAt(g, X, "starts") =>
             /\ Replied(g, p, "restart") /\ BusyOf(g, X)' = BusyOf(g, X) \ {p}
             /\ IF BusyOf(g, X)' = {} THEN GroupAt(g, X, "up")' ELSE GroupAt(g, X, "starts")'
    BY <1>1, <1>2, GroupTaken
  <1>7. X \subseteq Part /\ (X \cap Cache # {} => X = Cache)
    BY GroupsApart DEF Groups
  <1>8. BusyOf(g, X)' = BusyOf(g, X) \ {p} =>
             /\ Cardinality(BusyOf(g, X)) \in Nat \ {0}
             /\ Cardinality(BusyOf(g, X)') = Cardinality(BusyOf(g, X)) - 1
             /\ Cardinality(BusyOf(g, X)) = 1 <=> BusyOf(g, X)' = {}
    BY <1>6, <1>7, OneLess
  <1>9. Y # {} /\ BusyOf(g, Y) = {} =>
             /\ BusyOf(g, Y)' = Y
             /\ GroupAt(g, Y, "up") /\ (\A q \in Y : Stop(q) = k) => GroupAt(g, Y, "stops")'
             /\ GroupAt(g, Y, "down") /\ k = "restart" => GroupAt(g, Y, "starts")'
    BY <1>1, GroupSent
  <1> QED BY <1>1, <1>3, <1>4, <1>5, <1>6, <1>7, <1>8, <1>9

(* What GPUAt says of the counters, and what they count.                   *)
LEMMA CountsAt ==
    ASSUME NEW g, NEW s \in Stage, GPUAt(g, s)
    PROVE  /\ \A X \in {CU, AT, TLB} : GroupAt(g, X, "up") \/ GroupAt(g, X, "down") => BusyOf(g, X) = {}
           /\ GroupAt(g, Cache, "down") => BusyOf(g, Cache) = {}
           /\ \A X \in Groups : /\ Cardinality(BusyOf(g, X)) \in Nat
                                /\ Cardinality(BusyOf(g, X)) = 0 <=> BusyOf(g, X) = {}
                                /\ Cardinality(BusyOf(g, X)') \in Nat
                                /\ Cardinality(BusyOf(g, X)') = 0 <=> BusyOf(g, X)' = {}
           /\ ~Flushing(g) /\ GroupAt(g, Cache, "up") => BusyOf(g, Cache) = {}
  <1>1. \A X \in {CU, AT, TLB} : GroupAt(g, X, "up") \/ GroupAt(g, X, "down") => BusyOf(g, X) = {}
    BY PartsApart DEF GroupAt, PartUp, PartDown, BusyOf
  <1>2. GroupAt(g, Cache, "down") => BusyOf(g, Cache) = {}
    BY PartsApart DEF GroupAt, PartDown, BusyOf
  <1>3. ~Flushing(g) /\ GroupAt(g, Cache, "up") => BusyOf(g, Cache) = {}
    BY DEF GroupAt, PartUp, BusyOf, Flushing
  <1>4. ASSUME NEW X \in Groups
        PROVE  /\ Cardinality(BusyOf(g, X)) \in Nat
               /\ Cardinality(BusyOf(g, X)) = 0 <=> BusyOf(g, X) = {}
               /\ Cardinality(BusyOf(g, X)') \in Nat
               /\ Cardinality(BusyOf(g, X)') = 0 <=> BusyOf(g, X)' = {}
    BY NoneBusy, GroupsApart
  <1> QED BY <1>1, <1>2, <1>3, <1>4

(* Which stages belong to a shootdown. *)
LEMMA StopStages ==
    /\ ("stopCU" \in Stops) = TRUE /\ ("stopAT" \in Stops) = TRUE /\ ("stopCache" \in Stops) = TRUE
    /\ ("stopTLB" \in Stops) = TRUE /\ ("running" \in Stops) = FALSE /\ ("stopped" \in Stops) = FALSE
    /\ ("startCache" \in Stops) = FALSE /\ ("startTLB" \in Stops) = FALSE
    /\ ("startAT" \in Stops) = FALSE /\ ("startCU" \in Stops) = FALSE
    /\ \A s \in Stops : s \in Stage
  BY DEF Stops, Stage

(* An answer of one group leaves every group alone that it does not ask next. *)
LEMMA TakesRest ==
    ASSUME CPTypeOK, CPTypeOK', NEW g \in GPU, NEW X \in Groups, NEW p \in X,
           NEW Y \in Groups \cup {{}}, X # Y, NEW k, Takes(g, p, Y, k),
           NEW Z \in Groups, Z # X, Z # Y, NEW way \in Ways, GroupAt(g, Z, way)
    PROVE  BusyOf(g, Z)' = BusyOf(g, Z) /\ GroupAt(g, Z, way)'
  <1>1. \A W \in Groups \ {X, Y} : \A q \in W : PartKept(g, q)
    BY TakesOne
  <1>2. \A q \in Z : PartKept(g, q)
    BY <1>1
  <1> QED BY <1>2, KeptGroup

(* The caches flush only beside a shootdown and a restart.                *)
LEMMA NotFlushing ==
    ASSUME NEW g
    PROVE  /\ GroupAt(g, Cache, "down") \/ GroupAt(g, Cache, "stops") \/ GroupAt(g, Cache, "starts") => ~Flushing(g)
           /\ GroupAt(g, Cache, "down")' \/ GroupAt(g, Cache, "stops")' \/ GroupAt(g, Cache, "starts")' => ~Flushing(g)'
           /\ GroupAt(g, Cache, "up") => (Flushing(g) <=> BusyOf(g, Cache) # {})
           /\ GroupAt(g, Cache, "up")' => (Flushing(g)' <=> BusyOf(g, Cache)' # {})
  <1>1. \A p \in Cache : /\ PartDown(g, p) \/ PartStops(g, p) \/ PartStarts(g, p) =>
                               ~Asked(g, p, "flush") /\ ~Replied(g, p, "flush")
                         /\ PartDown(g, p)' \/ PartStops(g, p)' \/ PartStarts(g, p)' =>
                               ~Asked(g, p, "flush")' /\ ~Replied(g, p, "flush")'
    BY OneInQueue DEF PartDown, PartStops, PartStarts, Stop, Asked, Replied, Quiet
  <1>2. \A p \in Cache : /\ PartUp(g, p) => (~Quiet(g, p) <=> Asked(g, p, "flush") \/ Replied(g, p, "flush"))
                         /\ PartUp(g, p)' => (~Quiet(g, p)' <=> Asked(g, p, "flush")' \/ Replied(g, p, "flush")')
    BY OneInQueue DEF PartUp, Asked, Replied, Quiet
  <1> QED BY <1>1, <1>2 DEF GroupAt, Flushing, BusyOf

(* The answers of the compute units that stop. *)
LEMMA CUsStop ==
    ASSUME CPTypeOK, CPTypeOK', NEW g \in GPU, NEW c \in CU, NEW s \in Stage, GPUAt(g, s),
           ProcessCUPipelineFlushRsp(g, c)
    PROVE  /\ s = "stopCU"
           /\ GPUAt(g, "stopCU")' \/ GPUAt(g, "stopAT")'
           /\ \A h \in GPU : h # g => GPUKept(h)
           /\ Flushing(g)' = Flushing(g)
  <1> DEFINE last == cp[g].numCUAck = 1
  <1>1. /\ last => cp'[g] = [cp[g] EXCEPT !.numCUAck = @ - 1, !.numAddrTranslationFlushAck = @ + Cardinality(AT)]
                    /\ Takes(g, c, AT, "flush") 
        /\ ~last => cp'[g] = [cp[g] EXCEPT !.numCUAck = @ - 1]
                     /\ Takes(g, c, {}, "flush") 
    BY FieldsSet, GroupsApart DEF ProcessCUPipelineFlushRsp, LastAck, Takes, From, gpuVars, Groups
  <1>2. CU \in Groups /\ AT \in Groups \ {CU}
    BY GroupsApart DEF Groups
  <1>3. \A l : Replied(g, c, l) => l = "flush"
    BY OneInQueue DEF ProcessCUPipelineFlushRsp, From, Replied
  <1>4. Stop(c) = "flush"
    BY PartsApart DEF Stop
  <1>5. /\ ~GroupAt(g, CU, "down")
        /\ GroupAt(g, CU, "up") => CU = Cache /\ Replied(g, c, "flush")
        /\ GroupAt(g, CU, "stops") => Replied(g, c, Stop(c))
        /\ GroupAt(g, CU, "starts") => Replied(g, c, "restart")
    <2>1. CASE last
      BY <1>1, <1>2, <2>1, TakesAll
    <2>2. CASE ~last
      BY <1>1, <1>2, <2>2, TakesAll
    <2> QED BY <2>1, <2>2
  <1>6. s = "stopCU" /\ GroupAt(g, CU, "stops")
    <2>1. CUAt(s) \in Ways /\ GroupAt(g, CU, CUAt(s))
      BY DEF GPUAt, CUAt, Ways
    <2>2. CUAt(s) = "stops"
      BY <1>3, <1>4, <1>5, <2>1, GroupsApart DEF Ways
    <2> QED BY <2>1, <2>2 DEF CUAt
  <1>7. GroupAt(g, AT, "up") /\ GroupAt(g, Cache, "up") /\ GroupAt(g, TLB, "up") /\ CountAt(g, "stopCU")
        /\ cp[g].shootDownInProcess = TRUE /\ ~Flushing(g)
    <2>1. CUAt("stopCU") = "stops" /\ ATAt("stopCU") = "up" /\ CacheAt("stopCU") = "up" /\ TLBAt("stopCU") = "up"
      BY DEF CUAt, ATAt, CacheAt, TLBAt
    <2> QED BY <1>6, <2>1, StopStages DEF GPUAt
  <1>8. cp[g] \in CPState /\ Cardinality(AT) \in Nat  /\ BusyOf(g, AT) = {} /\ BusyOf(g, Cache) = {} /\ BusyOf(g, TLB) = {}
    BY <1>2, <1>7, CountsAt, GroupsApart DEF CPTypeOK
  <1>9. CASE last
    <2>1. Takes(g, c, AT, "flush")
      BY <1>1, <1>9
    <2>2. /\ \A h \in GPU : h # g => GPUKept(h)
          /\ BusyOf(g, Cache)' = BusyOf(g, Cache) /\ GroupAt(g, Cache, "up")'
          /\ BusyOf(g, TLB)' = BusyOf(g, TLB) /\ GroupAt(g, TLB, "up")'
          /\ Flushing(g)' = Flushing(g)
      <3>1. BusyOf(g, Cache)' = BusyOf(g, Cache) /\ GroupAt(g, Cache, "up")'
        <4>1. Cache \in Groups /\ Cache # CU /\ Cache # AT /\ "up" \in Ways
          BY GroupsApart DEF Groups, Ways
        <4> QED BY <1>2, <1>7, <2>1, <4>1, TakesRest
      <3>2. BusyOf(g, TLB)' = BusyOf(g, TLB) /\ GroupAt(g, TLB, "up")'
        <4>1. TLB \in Groups /\ TLB # CU /\ TLB # AT /\ "up" \in Ways
          BY GroupsApart DEF Groups, Ways
        <4> QED BY <1>2, <1>7, <2>1, <4>1, TakesRest
      <3>3. Flushing(g)' = Flushing(g) /\ \A h \in GPU : h # g => GPUKept(h)
        <4>1. Cache \notin {CU, AT}
          BY GroupsApart DEF Groups
        <4> QED BY <1>2, <2>1, <4>1, TakesAll
      <3> QED BY <3>1, <3>2, <3>3
    <2>3. BusyOf(g, AT)' = AT /\ GroupAt(g, AT, "stops")'
      <3>1. \A q \in AT : Stop(q) = "flush"
        BY PartsApart DEF Stop
      <3> QED BY <1>2, <1>7, <1>8, <2>1, <3>1, GroupsApart, TakesAll
    <2>4. cp[g].numCUAck = Cardinality(BusyOf(g, CU))
      BY <1>7 DEF CountAt
    <2>5. Cardinality(BusyOf(g, CU)') = 0 /\ BusyOf(g, CU)' = {} /\ GroupAt(g, CU, "down")'
      <3>1. /\ IF BusyOf(g, CU)' = {} THEN GroupAt(g, CU, "down")' ELSE GroupAt(g, CU, "stops")'
            /\ Cardinality(BusyOf(g, CU)) \in Nat \ {0}
            /\ Cardinality(BusyOf(g, CU)') = Cardinality(BusyOf(g, CU)) - 1
            /\ Cardinality(BusyOf(g, CU)) = 1 <=> BusyOf(g, CU)' = {}
        BY <1>2, <1>6, <2>1, TakesAll
      <3> QED BY <1>9, <2>4, <3>1
    <2>6. /\ cp'[g].numCUAck = Cardinality(BusyOf(g, CU)')
          /\ cp'[g].numAddrTranslationFlushAck = Cardinality(BusyOf(g, AT)')
          /\ cp'[g].numAddrTranslationRestartAck = 0
          /\ cp'[g].numCacheACK = Cardinality(BusyOf(g, Cache)')
          /\ cp'[g].numTLBAck = Cardinality(BusyOf(g, TLB)')
          /\ cp'[g].shootDownInProcess = TRUE
      <3>1. CountAt(g, "stopCU") /\ cp[g] \in CPState /\ cp[g].shootDownInProcess = TRUE
        BY <1>7, <1>8
      <3>2. cp'[g] = [cp[g] EXCEPT !.numCUAck = @ - 1, !.numAddrTranslationFlushAck = @ + Cardinality(AT)]
        BY <1>1, <1>9
      <3>3. BusyOf(g, Cache)' = BusyOf(g, Cache) /\ BusyOf(g, TLB)' = BusyOf(g, TLB) /\ BusyOf(g, AT)' = AT /\ Cardinality(BusyOf(g, AT)) = 0 /\ Cardinality(AT) \in Nat
        BY <1>8, <2>2, <2>3, FS_EmptySet
      <3> QED BY <1>9, <2>4, <2>5, <3>1, <3>2, <3>3 DEF CountAt, CPState
    <2>8. GPUAt(g, "stopAT")'
      <3>1. CUAt("stopAT") = "down" /\ ATAt("stopAT") = "stops" /\ CacheAt("stopAT") = "up" /\ TLBAt("stopAT") = "up"
        BY DEF CUAt, ATAt, CacheAt, TLBAt
      <3>2. CountAt(g, "stopAT")'
        BY <2>6 DEF CountAt
      <3>3. cp'[g].shootDownInProcess = ("stopAT" \in Stops)
        BY <2>6, StopStages
      <3>4. ~Flushing(g)'
        BY <1>7, <2>2
      <3> QED BY <2>2, <2>3, <2>5, <3>1, <3>2, <3>3, <3>4 DEF GPUAt
    <2> QED BY <1>1, <1>6, <1>9, <2>2, <2>8
  <1>10. CASE ~last
    <2>1. Takes(g, c, {}, "flush")
      BY <1>1, <1>10
    <2>2. /\ \A h \in GPU : h # g => GPUKept(h)
          /\ BusyOf(g, AT)' = BusyOf(g, AT) /\ GroupAt(g, AT, "up")'
          /\ BusyOf(g, Cache)' = BusyOf(g, Cache) /\ GroupAt(g, Cache, "up")'
          /\ BusyOf(g, TLB)' = BusyOf(g, TLB) /\ GroupAt(g, TLB, "up")'
          /\ Flushing(g)' = Flushing(g)
      <3>1. BusyOf(g, AT)' = BusyOf(g, AT) /\ GroupAt(g, AT, "up")'
        <4>1. AT \in Groups /\ AT # CU /\ AT # {} /\ "up" \in Ways
          BY GroupsApart DEF Groups, Ways
        <4> QED BY <1>2, <1>7, <2>1, <4>1, TakesRest
      <3>2. BusyOf(g, Cache)' = BusyOf(g, Cache) /\ GroupAt(g, Cache, "up")'
        <4>1. Cache \in Groups /\ Cache # CU /\ Cache # {} /\ "up" \in Ways
          BY GroupsApart DEF Groups, Ways
        <4> QED BY <1>2, <1>7, <2>1, <4>1, TakesRest
      <3>3. BusyOf(g, TLB)' = BusyOf(g, TLB) /\ GroupAt(g, TLB, "up")'
        <4>1. TLB \in Groups /\ TLB # CU /\ TLB # {} /\ "up" \in Ways
          BY GroupsApart DEF Groups, Ways
        <4> QED BY <1>2, <1>7, <2>1, <4>1, TakesRest
      <3>4. Flushing(g)' = Flushing(g) /\ \A h \in GPU : h # g => GPUKept(h)
        <4>1. Cache \notin {CU, {}}
          BY GroupsApart DEF Groups
        <4> QED BY <1>2, <2>1, <4>1, TakesAll
      <3> QED BY <3>1, <3>2, <3>3, <3>4
    <2>4. cp[g].numCUAck = Cardinality(BusyOf(g, CU))
      BY <1>7 DEF CountAt
    <2>5. Cardinality(BusyOf(g, CU)') = cp[g].numCUAck - 1 /\ GroupAt(g, CU, "stops")'
      <3>1. /\ IF BusyOf(g, CU)' = {} THEN GroupAt(g, CU, "down")' ELSE GroupAt(g, CU, "stops")'
            /\ Cardinality(BusyOf(g, CU)) \in Nat \ {0}
            /\ Cardinality(BusyOf(g, CU)') = Cardinality(BusyOf(g, CU)) - 1
            /\ Cardinality(BusyOf(g, CU)) = 1 <=> BusyOf(g, CU)' = {}
        BY <1>2, <1>6, <2>1, TakesAll
      <3> QED BY <1>10, <2>4, <3>1
    <2>6. /\ cp'[g].numCUAck = Cardinality(BusyOf(g, CU)')
          /\ cp'[g].numAddrTranslationFlushAck = 0
          /\ cp'[g].numAddrTranslationRestartAck = 0
          /\ cp'[g].numCacheACK = Cardinality(BusyOf(g, Cache)')
          /\ cp'[g].numTLBAck = Cardinality(BusyOf(g, TLB)')
          /\ cp'[g].shootDownInProcess = TRUE
      <3>1. CountAt(g, "stopCU") /\ cp[g] \in CPState /\ cp[g].shootDownInProcess = TRUE
        BY <1>7, <1>8
      <3>2. cp'[g] = [cp[g] EXCEPT !.numCUAck = @ - 1]
        BY <1>1, <1>10
      <3>3. BusyOf(g, AT)' = BusyOf(g, AT) /\ BusyOf(g, Cache)' = BusyOf(g, Cache) /\ BusyOf(g, TLB)' = BusyOf(g, TLB)
        BY <1>8, <2>2, FS_EmptySet
      <3> QED BY <1>10, <2>4, <2>5, <3>1, <3>2, <3>3 DEF CountAt, CPState
    <2>8. GPUAt(g, "stopCU")'
      <3>1. CUAt("stopCU") = "stops" /\ ATAt("stopCU") = "up" /\ CacheAt("stopCU") = "up" /\ TLBAt("stopCU") = "up"
        BY DEF CUAt, ATAt, CacheAt, TLBAt
      <3>2. CountAt(g, "stopCU")'
        BY <2>6 DEF CountAt
      <3>3. cp'[g].shootDownInProcess = ("stopCU" \in Stops)
        BY <2>6, StopStages
      <3>4. ~Flushing(g)'
        BY <1>7, <2>2
      <3> QED BY <2>2, <2>5, <3>1, <3>2, <3>3, <3>4 DEF GPUAt
    <2> QED BY <1>1, <1>6, <1>10, <2>2, <2>8
  <1> QED BY <1>9, <1>10

(* The answers of the address translators that stop. *)
LEMMA ATsStop ==
    ASSUME CPTypeOK, CPTypeOK', NEW g \in GPU, NEW a \in AT, NEW s \in Stage, GPUAt(g, s),
           ProcessAddressTranslatorFlushRsp(g, a)
    PROVE  /\ s = "stopAT"
           /\ GPUAt(g, "stopAT")' \/ GPUAt(g, "stopCache")'
           /\ \A h \in GPU : h # g => GPUKept(h)
           /\ ~Flushing(g) /\ ~Flushing(g)'
  <1> DEFINE last == cp[g].numAddrTranslationFlushAck = 1
  <1>1. /\ last => cp'[g] = [cp[g] EXCEPT !.numAddrTranslationFlushAck = @ - 1, !.numCacheACK = @ + Cardinality(Cache)]
                    /\ Takes(g, a, Cache, "reset") 
        /\ ~last => cp'[g] = [cp[g] EXCEPT !.numAddrTranslationFlushAck = @ - 1]
                     /\ Takes(g, a, {}, "reset") 
    BY FieldsSet, GroupsApart DEF ProcessAddressTranslatorFlushRsp, LastAck, Takes, From, gpuVars, Groups
  <1>2. AT \in Groups /\ Cache \in Groups \ {AT}
    BY GroupsApart DEF Groups
  <1>6. s = "stopAT" /\ GroupAt(g, AT, "stops")
    BY DEF ProcessAddressTranslatorFlushRsp, GPUAt, CountAt, CUAt, ATAt, CacheAt, TLBAt
  <1>7. GroupAt(g, CU, "down") /\ GroupAt(g, Cache, "up") /\ GroupAt(g, TLB, "up") /\ CountAt(g, "stopAT")
        /\ cp[g].shootDownInProcess = TRUE /\ ~Flushing(g)
    <2>1. CUAt("stopAT") = "down" /\ ATAt("stopAT") = "stops" /\ CacheAt("stopAT") = "up" /\ TLBAt("stopAT") = "up"
      BY DEF CUAt, ATAt, CacheAt, TLBAt
    <2> QED BY <1>6, <2>1, StopStages DEF GPUAt
  <1>8. cp[g] \in CPState /\ Cardinality(Cache) \in Nat  /\ BusyOf(g, CU) = {} /\ BusyOf(g, Cache) = {} /\ BusyOf(g, TLB) = {}
    BY <1>2, <1>7, CountsAt, GroupsApart DEF CPTypeOK
  <1>f. ~Flushing(g)
    BY <1>6, <1>7, <1>8, NotFlushing
  <1>9. CASE last
    <2>1. Takes(g, a, Cache, "reset")
      BY <1>1, <1>9
    <2>2. /\ \A h \in GPU : h # g => GPUKept(h)
          /\ BusyOf(g, CU)' = BusyOf(g, CU) /\ GroupAt(g, CU, "down")'
          /\ BusyOf(g, TLB)' = BusyOf(g, TLB) /\ GroupAt(g, TLB, "up")'
      <3>1. BusyOf(g, CU)' = BusyOf(g, CU) /\ GroupAt(g, CU, "down")'
        <4>1. CU \in Groups /\ CU # AT /\ CU # Cache /\ "down" \in Ways
          BY GroupsApart DEF Groups, Ways
        <4> QED BY <1>2, <1>7, <2>1, <4>1, TakesRest
      <3>2. BusyOf(g, TLB)' = BusyOf(g, TLB) /\ GroupAt(g, TLB, "up")'
        <4>1. TLB \in Groups /\ TLB # AT /\ TLB # Cache /\ "up" \in Ways
          BY GroupsApart DEF Groups, Ways
        <4> QED BY <1>2, <1>7, <2>1, <4>1, TakesRest
      <3>3. \A h \in GPU : h # g => GPUKept(h)
        <4>1. Cache \in {AT, Cache}
          BY GroupsApart DEF Groups
        <4> QED BY <1>2, <2>1, <4>1, TakesAll
      <3> QED BY <3>1, <3>2, <3>3
    <2>3. BusyOf(g, Cache)' = Cache /\ GroupAt(g, Cache, "stops")'
      <3>1. \A q \in Cache : Stop(q) = "reset"
        BY PartsApart DEF Stop
      <3> QED BY <1>2, <1>7, <1>8, <2>1, <3>1, GroupsApart, TakesAll
    <2>4. cp[g].numAddrTranslationFlushAck = Cardinality(BusyOf(g, AT))
      BY <1>7 DEF CountAt
    <2>5. Cardinality(BusyOf(g, AT)') = 0 /\ BusyOf(g, AT)' = {} /\ GroupAt(g, AT, "down")'
      <3>1. /\ IF BusyOf(g, AT)' = {} THEN GroupAt(g, AT, "down")' ELSE GroupAt(g, AT, "stops")'
            /\ Cardinality(BusyOf(g, AT)) \in Nat \ {0}
            /\ Cardinality(BusyOf(g, AT)') = Cardinality(BusyOf(g, AT)) - 1
            /\ Cardinality(BusyOf(g, AT)) = 1 <=> BusyOf(g, AT)' = {}
        BY <1>2, <1>6, <2>1, TakesAll
      <3> QED BY <1>9, <2>4, <3>1
    <2>6. /\ cp'[g].numCUAck = Cardinality(BusyOf(g, CU)')
          /\ cp'[g].numAddrTranslationFlushAck = 0
          /\ cp'[g].numAddrTranslationRestartAck = 0
          /\ cp'[g].numCacheACK = Cardinality(BusyOf(g, Cache)')
          /\ cp'[g].numTLBAck = Cardinality(BusyOf(g, TLB)')
          /\ cp'[g].shootDownInProcess = TRUE
      <3>1. CountAt(g, "stopAT") /\ cp[g] \in CPState /\ cp[g].shootDownInProcess = TRUE
        BY <1>7, <1>8
      <3>2. cp'[g] = [cp[g] EXCEPT !.numAddrTranslationFlushAck = @ - 1, !.numCacheACK = @ + Cardinality(Cache)]
        BY <1>1, <1>9
      <3>3. BusyOf(g, CU)' = BusyOf(g, CU) /\ BusyOf(g, TLB)' = BusyOf(g, TLB) /\ BusyOf(g, Cache)' = Cache /\ Cardinality(BusyOf(g, Cache)) = 0 /\ Cardinality(Cache) \in Nat
        BY <1>8, <2>2, <2>3, FS_EmptySet
      <3> QED BY <1>9, <2>4, <2>5, <3>1, <3>2, <3>3 DEF CountAt, CPState
    <2>7. ~Flushing(g)'
      BY <1>7, <1>f, <2>2, <2>3, <2>5, NotFlushing
    <2>8. GPUAt(g, "stopCache")'
      <3>1. CUAt("stopCache") = "down" /\ ATAt("stopCache") = "down" /\ CacheAt("stopCache") = "stops" /\ TLBAt("stopCache") = "up"
        BY DEF CUAt, ATAt, CacheAt, TLBAt
      <3>2. CountAt(g, "stopCache")'
        BY <2>6 DEF CountAt
      <3>3. cp'[g].shootDownInProcess = ("stopCache" \in Stops)
        BY <2>6, StopStages
      <3>4. ~Flushing(g)'
        BY <1>7, <2>2, <2>7
      <3> QED BY <2>2, <2>3, <2>5, <3>1, <3>2, <3>3, <3>4 DEF GPUAt
    <2> QED BY <1>1, <1>6, <1>9, <2>2, <1>f, <2>7, <2>8
  <1>10. CASE ~last
    <2>1. Takes(g, a, {}, "reset")
      BY <1>1, <1>10
    <2>2. /\ \A h \in GPU : h # g => GPUKept(h)
          /\ BusyOf(g, CU)' = BusyOf(g, CU) /\ GroupAt(g, CU, "down")'
          /\ BusyOf(g, Cache)' = BusyOf(g, Cache) /\ GroupAt(g, Cache, "up")'
          /\ BusyOf(g, TLB)' = BusyOf(g, TLB) /\ GroupAt(g, TLB, "up")'
          /\ Flushing(g)' = Flushing(g)
      <3>1. BusyOf(g, CU)' = BusyOf(g, CU) /\ GroupAt(g, CU, "down")'
        <4>1. CU \in Groups /\ CU # AT /\ CU # {} /\ "down" \in Ways
          BY GroupsApart DEF Groups, Ways
        <4> QED BY <1>2, <1>7, <2>1, <4>1, TakesRest
      <3>2. BusyOf(g, Cache)' = BusyOf(g, Cache) /\ GroupAt(g, Cache, "up")'
        <4>1. Cache \in Groups /\ Cache # AT /\ Cache # {} /\ "up" \in Ways
          BY GroupsApart DEF Groups, Ways
        <4> QED BY <1>2, <1>7, <2>1, <4>1, TakesRest
      <3>3. BusyOf(g, TLB)' = BusyOf(g, TLB) /\ GroupAt(g, TLB, "up")'
        <4>1. TLB \in Groups /\ TLB # AT /\ TLB # {} /\ "up" \in Ways
          BY GroupsApart DEF Groups, Ways
        <4> QED BY <1>2, <1>7, <2>1, <4>1, TakesRest
      <3>4. Flushing(g)' = Flushing(g) /\ \A h \in GPU : h # g => GPUKept(h)
        <4>1. Cache \notin {AT, {}}
          BY GroupsApart DEF Groups
        <4> QED BY <1>2, <2>1, <4>1, TakesAll
      <3> QED BY <3>1, <3>2, <3>3, <3>4
    <2>4. cp[g].numAddrTranslationFlushAck = Cardinality(BusyOf(g, AT))
      BY <1>7 DEF CountAt
    <2>5. Cardinality(BusyOf(g, AT)') = cp[g].numAddrTranslationFlushAck - 1 /\ GroupAt(g, AT, "stops")'
      <3>1. /\ IF BusyOf(g, AT)' = {} THEN GroupAt(g, AT, "down")' ELSE GroupAt(g, AT, "stops")'
            /\ Cardinality(BusyOf(g, AT)) \in Nat \ {0}
            /\ Cardinality(BusyOf(g, AT)') = Cardinality(BusyOf(g, AT)) - 1
            /\ Cardinality(BusyOf(g, AT)) = 1 <=> BusyOf(g, AT)' = {}
        BY <1>2, <1>6, <2>1, TakesAll
      <3> QED BY <1>10, <2>4, <3>1
    <2>6. /\ cp'[g].numCUAck = Cardinality(BusyOf(g, CU)')
          /\ cp'[g].numAddrTranslationFlushAck = Cardinality(BusyOf(g, AT)')
          /\ cp'[g].numAddrTranslationRestartAck = 0
          /\ cp'[g].numCacheACK = Cardinality(BusyOf(g, Cache)')
          /\ cp'[g].numTLBAck = Cardinality(BusyOf(g, TLB)')
          /\ cp'[g].shootDownInProcess = TRUE
      <3>1. CountAt(g, "stopAT") /\ cp[g] \in CPState /\ cp[g].shootDownInProcess = TRUE
        BY <1>7, <1>8
      <3>2. cp'[g] = [cp[g] EXCEPT !.numAddrTranslationFlushAck = @ - 1]
        BY <1>1, <1>10
      <3>3. BusyOf(g, CU)' = BusyOf(g, CU) /\ BusyOf(g, Cache)' = BusyOf(g, Cache) /\ BusyOf(g, TLB)' = BusyOf(g, TLB)
        BY <1>8, <2>2, FS_EmptySet
      <3> QED BY <1>10, <2>4, <2>5, <3>1, <3>2, <3>3 DEF CountAt, CPState
    <2>8. GPUAt(g, "stopAT")'
      <3>1. CUAt("stopAT") = "down" /\ ATAt("stopAT") = "stops" /\ CacheAt("stopAT") = "up" /\ TLBAt("stopAT") = "up"
        BY DEF CUAt, ATAt, CacheAt, TLBAt
      <3>2. CountAt(g, "stopAT")'
        BY <2>6 DEF CountAt
      <3>3. cp'[g].shootDownInProcess = ("stopAT" \in Stops)
        BY <2>6, StopStages
      <3>4. ~Flushing(g)'
        BY <1>7, <2>2
      <3> QED BY <2>2, <2>5, <3>1, <3>2, <3>3, <3>4 DEF GPUAt
    <2> QED BY <1>1, <1>6, <1>10, <2>2, <1>f, <2>8
  <1> QED BY <1>9, <1>10

(* The answers of the caches that stop. *)
LEMMA CachesStop ==
    ASSUME CPTypeOK, CPTypeOK', NEW g \in GPU, NEW c \in Cache, NEW s \in Stage, GPUAt(g, s),
           ProcessCacheFlushRsp(g, c),
           cp[g].shootDownInProcess
    PROVE  /\ s = "stopCache"
           /\ \/ GPUAt(g, "stopCache")' /\ UNCHANGED uplink
              \/ GPUAt(g, "stopTLB")' /\ UNCHANGED uplink
           /\ \A h \in GPU : h # g => GPUKept(h)
           /\ ~Flushing(g) /\ ~Flushing(g)'
  <1> DEFINE last == cp[g].numCacheACK = 1
  <1>1. /\ last => cp'[g] = [cp[g] EXCEPT !.numCacheACK = @ - 1, !.numTLBAck = @ + Cardinality(TLB)]
                    /\ Takes(g, c, TLB, "flush") /\ UNCHANGED uplink
        /\ ~last => cp'[g] = [cp[g] EXCEPT !.numCacheACK = @ - 1]
                     /\ Takes(g, c, {}, "flush") /\ UNCHANGED uplink
    BY FieldsSet, GroupsApart DEF ProcessCacheFlushRsp, LastAck, Takes, From, gpuVars, Groups, CacheFlushCausedByTLBShootdown
  <1>2. Cache \in Groups /\ TLB \in Groups \ {Cache}
    BY GroupsApart DEF Groups
  <1>3. /\ \A l : Replied(g, c, l) => l # "restart"
        /\ ~Replied(g, c, "flush")
    <2>1. ~Flushing(g)
      BY DEF GPUAt
    <2> QED BY <2>1, OneInQueue DEF ProcessCacheFlushRsp, Replied, Flushing
  <1>4. Stop(c) = "reset"
    BY PartsApart DEF Stop
  <1>5. /\ ~GroupAt(g, Cache, "down")
        /\ GroupAt(g, Cache, "up") => Replied(g, c, "flush")
        /\ GroupAt(g, Cache, "stops") => Replied(g, c, Stop(c))
        /\ GroupAt(g, Cache, "starts") => Replied(g, c, "restart")
    <2>1. CASE last
      BY <1>1, <1>2, <2>1, TakesAll
    <2>2. CASE ~last
      BY <1>1, <1>2, <2>2, TakesAll
    <2> QED BY <2>1, <2>2
  <1>6. s = "stopCache" /\ GroupAt(g, Cache, "stops")
    <2>1. CacheAt(s) \in Ways /\ GroupAt(g, Cache, CacheAt(s))
      BY DEF GPUAt, CacheAt, Ways
    <2>2. CacheAt(s) = "stops"
      BY <1>3, <1>4, <1>5, <2>1, GroupsApart DEF Ways
    <2> QED BY <2>1, <2>2 DEF CacheAt
  <1>7. GroupAt(g, CU, "down") /\ GroupAt(g, AT, "down") /\ GroupAt(g, TLB, "up") /\ CountAt(g, "stopCache")
        /\ cp[g].shootDownInProcess = TRUE /\ ~Flushing(g)
    <2>1. CUAt("stopCache") = "down" /\ ATAt("stopCache") = "down" /\ CacheAt("stopCache") = "stops" /\ TLBAt("stopCache") = "up"
      BY DEF CUAt, ATAt, CacheAt, TLBAt
    <2> QED BY <1>6, <2>1, StopStages DEF GPUAt
  <1>8. cp[g] \in CPState /\ Cardinality(TLB) \in Nat  /\ BusyOf(g, CU) = {} /\ BusyOf(g, AT) = {} /\ BusyOf(g, TLB) = {}
    BY <1>2, <1>7, CountsAt, GroupsApart DEF CPTypeOK
  <1>f. ~Flushing(g)
    BY <1>6, <1>7, <1>8, NotFlushing
  <1>9. CASE last
    <2>1. Takes(g, c, TLB, "flush")
      BY <1>1, <1>9
    <2>2. /\ \A h \in GPU : h # g => GPUKept(h)
          /\ BusyOf(g, CU)' = BusyOf(g, CU) /\ GroupAt(g, CU, "down")'
          /\ BusyOf(g, AT)' = BusyOf(g, AT) /\ GroupAt(g, AT, "down")'
      <3>1. BusyOf(g, CU)' = BusyOf(g, CU) /\ GroupAt(g, CU, "down")'
        <4>1. CU \in Groups /\ CU # Cache /\ CU # TLB /\ "down" \in Ways
          BY GroupsApart DEF Groups, Ways
        <4> QED BY <1>2, <1>7, <2>1, <4>1, TakesRest
      <3>2. BusyOf(g, AT)' = BusyOf(g, AT) /\ GroupAt(g, AT, "down")'
        <4>1. AT \in Groups /\ AT # Cache /\ AT # TLB /\ "down" \in Ways
          BY GroupsApart DEF Groups, Ways
        <4> QED BY <1>2, <1>7, <2>1, <4>1, TakesRest
      <3>3. \A h \in GPU : h # g => GPUKept(h)
        <4>1. Cache \in {Cache, TLB}
          BY GroupsApart DEF Groups
        <4> QED BY <1>2, <2>1, <4>1, TakesAll
      <3> QED BY <3>1, <3>2, <3>3
    <2>3. BusyOf(g, TLB)' = TLB /\ GroupAt(g, TLB, "stops")'
      <3>1. \A q \in TLB : Stop(q) = "flush"
        BY PartsApart DEF Stop
      <3> QED BY <1>2, <1>7, <1>8, <2>1, <3>1, GroupsApart, TakesAll
    <2>4. cp[g].numCacheACK = Cardinality(BusyOf(g, Cache))
      BY <1>7 DEF CountAt
    <2>5. Cardinality(BusyOf(g, Cache)') = 0 /\ BusyOf(g, Cache)' = {} /\ GroupAt(g, Cache, "down")'
      <3>1. /\ IF BusyOf(g, Cache)' = {} THEN GroupAt(g, Cache, "down")' ELSE GroupAt(g, Cache, "stops")'
            /\ Cardinality(BusyOf(g, Cache)) \in Nat \ {0}
            /\ Cardinality(BusyOf(g, Cache)') = Cardinality(BusyOf(g, Cache)) - 1
            /\ Cardinality(BusyOf(g, Cache)) = 1 <=> BusyOf(g, Cache)' = {}
        BY <1>2, <1>6, <2>1, TakesAll
      <3> QED BY <1>9, <2>4, <3>1
    <2>6. /\ cp'[g].numCUAck = Cardinality(BusyOf(g, CU)')
          /\ cp'[g].numAddrTranslationFlushAck = 0
          /\ cp'[g].numAddrTranslationRestartAck = 0
          /\ cp'[g].numCacheACK = Cardinality(BusyOf(g, Cache)')
          /\ cp'[g].numTLBAck = Cardinality(BusyOf(g, TLB)')
          /\ cp'[g].shootDownInProcess = TRUE
      <3>1. CountAt(g, "stopCache") /\ cp[g] \in CPState /\ cp[g].shootDownInProcess = TRUE
        BY <1>7, <1>8
      <3>2. cp'[g] = [cp[g] EXCEPT !.numCacheACK = @ - 1, !.numTLBAck = @ + Cardinality(TLB)]
        BY <1>1, <1>9
      <3>3. BusyOf(g, CU)' = BusyOf(g, CU) /\ BusyOf(g, AT)' = BusyOf(g, AT) /\ BusyOf(g, TLB)' = TLB /\ Cardinality(BusyOf(g, TLB)) = 0 /\ Cardinality(TLB) \in Nat
        BY <1>8, <2>2, <2>3, FS_EmptySet
      <3> QED BY <1>9, <2>4, <2>5, <3>1, <3>2, <3>3 DEF CountAt, CPState
    <2>7. ~Flushing(g)'
      BY <1>7, <1>f, <2>2, <2>3, <2>5, NotFlushing
    <2>8. GPUAt(g, "stopTLB")'
      <3>1. CUAt("stopTLB") = "down" /\ ATAt("stopTLB") = "down" /\ CacheAt("stopTLB") = "down" /\ TLBAt("stopTLB") = "stops"
        BY DEF CUAt, ATAt, CacheAt, TLBAt
      <3>2. CountAt(g, "stopTLB")'
        BY <2>6 DEF CountAt
      <3>3. cp'[g].shootDownInProcess = ("stopTLB" \in Stops)
        BY <2>6, StopStages
      <3>4. ~Flushing(g)'
        BY <1>7, <2>2, <2>7
      <3> QED BY <2>2, <2>3, <2>5, <3>1, <3>2, <3>3, <3>4 DEF GPUAt
    <2> QED BY <1>1, <1>6, <1>9, <2>2, <1>f, <2>7, <2>8
  <1>10. CASE ~last
    <2>1. Takes(g, c, {}, "flush")
      BY <1>1, <1>10
    <2>2. /\ \A h \in GPU : h # g => GPUKept(h)
          /\ BusyOf(g, CU)' = BusyOf(g, CU) /\ GroupAt(g, CU, "down")'
          /\ BusyOf(g, AT)' = BusyOf(g, AT) /\ GroupAt(g, AT, "down")'
          /\ BusyOf(g, TLB)' = BusyOf(g, TLB) /\ GroupAt(g, TLB, "up")'
      <3>1. BusyOf(g, CU)' = BusyOf(g, CU) /\ GroupAt(g, CU, "down")'
        <4>1. CU \in Groups /\ CU # Cache /\ CU # {} /\ "down" \in Ways
          BY GroupsApart DEF Groups, Ways
        <4> QED BY <1>2, <1>7, <2>1, <4>1, TakesRest
      <3>2. BusyOf(g, AT)' = BusyOf(g, AT) /\ GroupAt(g, AT, "down")'
        <4>1. AT \in Groups /\ AT # Cache /\ AT # {} /\ "down" \in Ways
          BY GroupsApart DEF Groups, Ways
        <4> QED BY <1>2, <1>7, <2>1, <4>1, TakesRest
      <3>3. BusyOf(g, TLB)' = BusyOf(g, TLB) /\ GroupAt(g, TLB, "up")'
        <4>1. TLB \in Groups /\ TLB # Cache /\ TLB # {} /\ "up" \in Ways
          BY GroupsApart DEF Groups, Ways
        <4> QED BY <1>2, <1>7, <2>1, <4>1, TakesRest
      <3>4. \A h \in GPU : h # g => GPUKept(h)
        <4>1. Cache \in {Cache, {}}
          BY GroupsApart DEF Groups
        <4> QED BY <1>2, <2>1, <4>1, TakesAll
      <3> QED BY <3>1, <3>2, <3>3, <3>4
    <2>4. cp[g].numCacheACK = Cardinality(BusyOf(g, Cache))
      BY <1>7 DEF CountAt
    <2>5. Cardinality(BusyOf(g, Cache)') = cp[g].numCacheACK - 1 /\ GroupAt(g, Cache, "stops")'
      <3>1. /\ IF BusyOf(g, Cache)' = {} THEN GroupAt(g, Cache, "down")' ELSE GroupAt(g, Cache, "stops")'
            /\ Cardinality(BusyOf(g, Cache)) \in Nat \ {0}
            /\ Cardinality(BusyOf(g, Cache)') = Cardinality(BusyOf(g, Cache)) - 1
            /\ Cardinality(BusyOf(g, Cache)) = 1 <=> BusyOf(g, Cache)' = {}
        BY <1>2, <1>6, <2>1, TakesAll
      <3> QED BY <1>10, <2>4, <3>1
    <2>6. /\ cp'[g].numCUAck = Cardinality(BusyOf(g, CU)')
          /\ cp'[g].numAddrTranslationFlushAck = 0
          /\ cp'[g].numAddrTranslationRestartAck = 0
          /\ cp'[g].numCacheACK = Cardinality(BusyOf(g, Cache)')
          /\ cp'[g].numTLBAck = Cardinality(BusyOf(g, TLB)')
          /\ cp'[g].shootDownInProcess = TRUE
      <3>1. CountAt(g, "stopCache") /\ cp[g] \in CPState /\ cp[g].shootDownInProcess = TRUE
        BY <1>7, <1>8
      <3>2. cp'[g] = [cp[g] EXCEPT !.numCacheACK = @ - 1]
        BY <1>1, <1>10
      <3>3. BusyOf(g, CU)' = BusyOf(g, CU) /\ BusyOf(g, AT)' = BusyOf(g, AT) /\ BusyOf(g, TLB)' = BusyOf(g, TLB)
        BY <1>8, <2>2, FS_EmptySet
      <3> QED BY <1>10, <2>4, <2>5, <3>1, <3>2, <3>3 DEF CountAt, CPState
    <2>7. ~Flushing(g)'
      BY <1>7, <1>f, <2>2, <2>5, NotFlushing
    <2>8. GPUAt(g, "stopCache")'
      <3>1. CUAt("stopCache") = "down" /\ ATAt("stopCache") = "down" /\ CacheAt("stopCache") = "stops" /\ TLBAt("stopCache") = "up"
        BY DEF CUAt, ATAt, CacheAt, TLBAt
      <3>2. CountAt(g, "stopCache")'
        BY <2>6 DEF CountAt
      <3>3. cp'[g].shootDownInProcess = ("stopCache" \in Stops)
        BY <2>6, StopStages
      <3>4. ~Flushing(g)'
        BY <1>7, <2>2, <2>7
      <3> QED BY <2>2, <2>5, <3>1, <3>2, <3>3, <3>4 DEF GPUAt
    <2> QED BY <1>1, <1>6, <1>10, <2>2, <1>f, <2>7, <2>8
  <1> QED BY <1>9, <1>10

(* The answers of the TLBs that stop. *)
LEMMA TLBsStop ==
    ASSUME CPTypeOK, CPTypeOK', NEW g \in GPU, NEW t \in TLB, NEW s \in Stage, GPUAt(g, s),
           ProcessTLBFlushRsp(g, t)
    PROVE  /\ s = "stopTLB"
           /\ \/ GPUAt(g, "stopTLB")' /\ UNCHANGED uplink
              \/ GPUAt(g, "stopped")' /\ SendToDriver(g, "shootdown")
           /\ \A h \in GPU : h # g => GPUKept(h)
           /\ Flushing(g)' = Flushing(g)
  <1> DEFINE last == cp[g].numTLBAck = 1
  <1>1. /\ last => cp'[g] = [cp[g] EXCEPT !.numTLBAck = @ - 1, !.shootDownInProcess = FALSE]
                    /\ Takes(g, t, {}, "flush") /\ SendToDriver(g, "shootdown")
        /\ ~last => cp'[g] = [cp[g] EXCEPT !.numTLBAck = @ - 1]
                     /\ Takes(g, t, {}, "flush") /\ UNCHANGED uplink
    BY FieldsSet, GroupsApart DEF ProcessTLBFlushRsp, LastAck, Takes, From, gpuVars, Groups
  <1>2. TLB \in Groups 
    BY GroupsApart DEF Groups
  <1>3. \A l : Replied(g, t, l) => l = "flush"
    BY OneInQueue DEF ProcessTLBFlushRsp, From, Replied
  <1>4. Stop(t) = "flush"
    BY PartsApart DEF Stop
  <1>5. /\ ~GroupAt(g, TLB, "down")
        /\ GroupAt(g, TLB, "up") => TLB = Cache /\ Replied(g, t, "flush")
        /\ GroupAt(g, TLB, "stops") => Replied(g, t, Stop(t))
        /\ GroupAt(g, TLB, "starts") => Replied(g, t, "restart")
    <2>1. CASE last
      BY <1>1, <1>2, <2>1, TakesAll
    <2>2. CASE ~last
      BY <1>1, <1>2, <2>2, TakesAll
    <2> QED BY <2>1, <2>2
  <1>6. s = "stopTLB" /\ GroupAt(g, TLB, "stops")
    <2>1. TLBAt(s) \in Ways /\ GroupAt(g, TLB, TLBAt(s))
      BY DEF GPUAt, TLBAt, Ways
    <2>2. TLBAt(s) = "stops"
      BY <1>3, <1>4, <1>5, <2>1, GroupsApart DEF Ways
    <2> QED BY <2>1, <2>2 DEF TLBAt
  <1>7. GroupAt(g, CU, "down") /\ GroupAt(g, AT, "down") /\ GroupAt(g, Cache, "down") /\ CountAt(g, "stopTLB")
        /\ cp[g].shootDownInProcess = TRUE /\ ~Flushing(g)
    <2>1. CUAt("stopTLB") = "down" /\ ATAt("stopTLB") = "down" /\ CacheAt("stopTLB") = "down" /\ TLBAt("stopTLB") = "stops"
      BY DEF CUAt, ATAt, CacheAt, TLBAt
    <2> QED BY <1>6, <2>1, StopStages DEF GPUAt
  <1>8. cp[g] \in CPState /\ Cardinality(TLB) \in Nat  /\ BusyOf(g, CU) = {} /\ BusyOf(g, AT) = {} /\ BusyOf(g, Cache) = {}
    BY <1>2, <1>7, CountsAt, GroupsApart DEF CPTypeOK
  <1>9. CASE last
    <2>1. Takes(g, t, {}, "flush")
      BY <1>1, <1>9
    <2>2. /\ \A h \in GPU : h # g => GPUKept(h)
          /\ BusyOf(g, CU)' = BusyOf(g, CU) /\ GroupAt(g, CU, "down")'
          /\ BusyOf(g, AT)' = BusyOf(g, AT) /\ GroupAt(g, AT, "down")'
          /\ BusyOf(g, Cache)' = BusyOf(g, Cache) /\ GroupAt(g, Cache, "down")'
          /\ Flushing(g)' = Flushing(g)
      <3>1. BusyOf(g, CU)' = BusyOf(g, CU) /\ GroupAt(g, CU, "down")'
        <4>1. CU \in Groups /\ CU # TLB /\ CU # {} /\ "down" \in Ways
          BY GroupsApart DEF Groups, Ways
        <4> QED BY <1>2, <1>7, <2>1, <4>1, TakesRest
      <3>2. BusyOf(g, AT)' = BusyOf(g, AT) /\ GroupAt(g, AT, "down")'
        <4>1. AT \in Groups /\ AT # TLB /\ AT # {} /\ "down" \in Ways
          BY GroupsApart DEF Groups, Ways
        <4> QED BY <1>2, <1>7, <2>1, <4>1, TakesRest
      <3>3. BusyOf(g, Cache)' = BusyOf(g, Cache) /\ GroupAt(g, Cache, "down")'
        <4>1. Cache \in Groups /\ Cache # TLB /\ Cache # {} /\ "down" \in Ways
          BY GroupsApart DEF Groups, Ways
        <4> QED BY <1>2, <1>7, <2>1, <4>1, TakesRest
      <3>4. Flushing(g)' = Flushing(g) /\ \A h \in GPU : h # g => GPUKept(h)
        <4>1. Cache \notin {TLB, {}}
          BY GroupsApart DEF Groups
        <4> QED BY <1>2, <2>1, <4>1, TakesAll
      <3> QED BY <3>1, <3>2, <3>3, <3>4
    <2>4. cp[g].numTLBAck = Cardinality(BusyOf(g, TLB))
      BY <1>7 DEF CountAt
    <2>5. Cardinality(BusyOf(g, TLB)') = 0 /\ BusyOf(g, TLB)' = {} /\ GroupAt(g, TLB, "down")'
      <3>1. /\ IF BusyOf(g, TLB)' = {} THEN GroupAt(g, TLB, "down")' ELSE GroupAt(g, TLB, "stops")'
            /\ Cardinality(BusyOf(g, TLB)) \in Nat \ {0}
            /\ Cardinality(BusyOf(g, TLB)') = Cardinality(BusyOf(g, TLB)) - 1
            /\ Cardinality(BusyOf(g, TLB)) = 1 <=> BusyOf(g, TLB)' = {}
        BY <1>2, <1>6, <2>1, TakesAll
      <3> QED BY <1>9, <2>4, <3>1
    <2>6. /\ cp'[g].numCUAck = Cardinality(BusyOf(g, CU)')
          /\ cp'[g].numAddrTranslationFlushAck = 0
          /\ cp'[g].numAddrTranslationRestartAck = 0
          /\ cp'[g].numCacheACK = Cardinality(BusyOf(g, Cache)')
          /\ cp'[g].numTLBAck = Cardinality(BusyOf(g, TLB)')
          /\ cp'[g].shootDownInProcess = FALSE
      <3>1. CountAt(g, "stopTLB") /\ cp[g] \in CPState /\ cp[g].shootDownInProcess = TRUE
        BY <1>7, <1>8
      <3>2. cp'[g] = [cp[g] EXCEPT !.numTLBAck = @ - 1, !.shootDownInProcess = FALSE]
        BY <1>1, <1>9
      <3>3. BusyOf(g, CU)' = BusyOf(g, CU) /\ BusyOf(g, AT)' = BusyOf(g, AT) /\ BusyOf(g, Cache)' = BusyOf(g, Cache)
        BY <1>8, <2>2, FS_EmptySet
      <3> QED BY <1>9, <2>4, <2>5, <3>1, <3>2, <3>3 DEF CountAt, CPState
    <2>8. GPUAt(g, "stopped")'
      <3>1. CUAt("stopped") = "down" /\ ATAt("stopped") = "down" /\ CacheAt("stopped") = "down" /\ TLBAt("stopped") = "down"
        BY DEF CUAt, ATAt, CacheAt, TLBAt
      <3>2. CountAt(g, "stopped")'
        BY <2>6 DEF CountAt
      <3>3. cp'[g].shootDownInProcess = ("stopped" \in Stops)
        BY <2>6, StopStages
      <3> QED BY <2>2, <2>5, <3>1, <3>2, <3>3 DEF GPUAt, Stops
    <2> QED BY <1>1, <1>6, <1>9, <2>2, <2>8
  <1>10. CASE ~last
    <2>1. Takes(g, t, {}, "flush")
      BY <1>1, <1>10
    <2>2. /\ \A h \in GPU : h # g => GPUKept(h)
          /\ BusyOf(g, CU)' = BusyOf(g, CU) /\ GroupAt(g, CU, "down")'
          /\ BusyOf(g, AT)' = BusyOf(g, AT) /\ GroupAt(g, AT, "down")'
          /\ BusyOf(g, Cache)' = BusyOf(g, Cache) /\ GroupAt(g, Cache, "down")'
          /\ Flushing(g)' = Flushing(g)
      <3>1. BusyOf(g, CU)' = BusyOf(g, CU) /\ GroupAt(g, CU, "down")'
        <4>1. CU \in Groups /\ CU # TLB /\ CU # {} /\ "down" \in Ways
          BY GroupsApart DEF Groups, Ways
        <4> QED BY <1>2, <1>7, <2>1, <4>1, TakesRest
      <3>2. BusyOf(g, AT)' = BusyOf(g, AT) /\ GroupAt(g, AT, "down")'
        <4>1. AT \in Groups /\ AT # TLB /\ AT # {} /\ "down" \in Ways
          BY GroupsApart DEF Groups, Ways
        <4> QED BY <1>2, <1>7, <2>1, <4>1, TakesRest
      <3>3. BusyOf(g, Cache)' = BusyOf(g, Cache) /\ GroupAt(g, Cache, "down")'
        <4>1. Cache \in Groups /\ Cache # TLB /\ Cache # {} /\ "down" \in Ways
          BY GroupsApart DEF Groups, Ways
        <4> QED BY <1>2, <1>7, <2>1, <4>1, TakesRest
      <3>4. Flushing(g)' = Flushing(g) /\ \A h \in GPU : h # g => GPUKept(h)
        <4>1. Cache \notin {TLB, {}}
          BY GroupsApart DEF Groups
        <4> QED BY <1>2, <2>1, <4>1, TakesAll
      <3> QED BY <3>1, <3>2, <3>3, <3>4
    <2>4. cp[g].numTLBAck = Cardinality(BusyOf(g, TLB))
      BY <1>7 DEF CountAt
    <2>5. Cardinality(BusyOf(g, TLB)') = cp[g].numTLBAck - 1 /\ GroupAt(g, TLB, "stops")'
      <3>1. /\ IF BusyOf(g, TLB)' = {} THEN GroupAt(g, TLB, "down")' ELSE GroupAt(g, TLB, "stops")'
            /\ Cardinality(BusyOf(g, TLB)) \in Nat \ {0}
            /\ Cardinality(BusyOf(g, TLB)') = Cardinality(BusyOf(g, TLB)) - 1
            /\ Cardinality(BusyOf(g, TLB)) = 1 <=> BusyOf(g, TLB)' = {}
        BY <1>2, <1>6, <2>1, TakesAll
      <3> QED BY <1>10, <2>4, <3>1
    <2>6. /\ cp'[g].numCUAck = Cardinality(BusyOf(g, CU)')
          /\ cp'[g].numAddrTranslationFlushAck = 0
          /\ cp'[g].numAddrTranslationRestartAck = 0
          /\ cp'[g].numCacheACK = Cardinality(BusyOf(g, Cache)')
          /\ cp'[g].numTLBAck = Cardinality(BusyOf(g, TLB)')
          /\ cp'[g].shootDownInProcess = TRUE
      <3>1. CountAt(g, "stopTLB") /\ cp[g] \in CPState /\ cp[g].shootDownInProcess = TRUE
        BY <1>7, <1>8
      <3>2. cp'[g] = [cp[g] EXCEPT !.numTLBAck = @ - 1]
        BY <1>1, <1>10
      <3>3. BusyOf(g, CU)' = BusyOf(g, CU) /\ BusyOf(g, AT)' = BusyOf(g, AT) /\ BusyOf(g, Cache)' = BusyOf(g, Cache)
        BY <1>8, <2>2, FS_EmptySet
      <3> QED BY <1>10, <2>4, <2>5, <3>1, <3>2, <3>3 DEF CountAt, CPState
    <2>8. GPUAt(g, "stopTLB")'
      <3>1. CUAt("stopTLB") = "down" /\ ATAt("stopTLB") = "down" /\ CacheAt("stopTLB") = "down" /\ TLBAt("stopTLB") = "stops"
        BY DEF CUAt, ATAt, CacheAt, TLBAt
      <3>2. CountAt(g, "stopTLB")'
        BY <2>6 DEF CountAt
      <3>3. cp'[g].shootDownInProcess = ("stopTLB" \in Stops)
        BY <2>6, StopStages
      <3>4. ~Flushing(g)'
        BY <1>7, <2>2
      <3> QED BY <2>2, <2>5, <3>1, <3>2, <3>3, <3>4 DEF GPUAt
    <2> QED BY <1>1, <1>6, <1>10, <2>2, <2>8
  <1> QED BY <1>9, <1>10

(* The answers of the caches that continue. *)
LEMMA CachesStart ==
    ASSUME CPTypeOK, CPTypeOK', NEW g \in GPU, NEW c \in Cache, NEW s \in Stage, GPUAt(g, s),
           ProcessCacheRestartRsp(g, c)
    PROVE  /\ s = "startCache"
           /\ GPUAt(g, "startCache")' \/ GPUAt(g, "startTLB")'
           /\ \A h \in GPU : h # g => GPUKept(h)
           /\ ~Flushing(g) /\ ~Flushing(g)'
  <1> DEFINE last == cp[g].numCacheACK = 1
  <1>1. /\ last => cp'[g] = [cp[g] EXCEPT !.numCacheACK = @ - 1, !.numTLBAck = @ + Cardinality(TLB)]
                    /\ Takes(g, c, TLB, "restart") 
        /\ ~last => cp'[g] = [cp[g] EXCEPT !.numCacheACK = @ - 1]
                     /\ Takes(g, c, {}, "restart") 
    BY FieldsSet, GroupsApart DEF ProcessCacheRestartRsp, LastAck, Takes, From, gpuVars, Groups
  <1>2. Cache \in Groups /\ TLB \in Groups \ {Cache}
    BY GroupsApart DEF Groups
  <1>3. \A l : Replied(g, c, l) => l = "restart"
    BY OneInQueue DEF ProcessCacheRestartRsp, From, Replied
  <1>4. Stop(c) = "reset"
    BY PartsApart DEF Stop
  <1>5. /\ ~GroupAt(g, Cache, "down")
        /\ GroupAt(g, Cache, "up") => Replied(g, c, "flush")
        /\ GroupAt(g, Cache, "stops") => Replied(g, c, Stop(c))
        /\ GroupAt(g, Cache, "starts") => Replied(g, c, "restart")
    <2>1. CASE last
      BY <1>1, <1>2, <2>1, TakesAll
    <2>2. CASE ~last
      BY <1>1, <1>2, <2>2, TakesAll
    <2> QED BY <2>1, <2>2
  <1>6. s = "startCache" /\ GroupAt(g, Cache, "starts")
    <2>1. CacheAt(s) \in Ways /\ GroupAt(g, Cache, CacheAt(s))
      BY DEF GPUAt, CacheAt, Ways
    <2>2. CacheAt(s) = "starts"
      BY <1>3, <1>4, <1>5, <2>1, GroupsApart DEF Ways
    <2> QED BY <2>1, <2>2 DEF CacheAt
  <1>7. GroupAt(g, CU, "down") /\ GroupAt(g, AT, "down") /\ GroupAt(g, TLB, "down") /\ CountAt(g, "startCache")
        /\ cp[g].shootDownInProcess = FALSE
    <2>1. CUAt("startCache") = "down" /\ ATAt("startCache") = "down" /\ CacheAt("startCache") = "starts" /\ TLBAt("startCache") = "down"
      BY DEF CUAt, ATAt, CacheAt, TLBAt
    <2> QED BY <1>6, <2>1, StopStages DEF GPUAt
  <1>8. cp[g] \in CPState /\ Cardinality(TLB) \in Nat  /\ BusyOf(g, CU) = {} /\ BusyOf(g, AT) = {} /\ BusyOf(g, TLB) = {}
    BY <1>2, <1>7, CountsAt, GroupsApart DEF CPTypeOK
  <1>f. ~Flushing(g)
    BY <1>6, <1>7, <1>8, NotFlushing
  <1>9. CASE last
    <2>1. Takes(g, c, TLB, "restart")
      BY <1>1, <1>9
    <2>2. /\ \A h \in GPU : h # g => GPUKept(h)
          /\ BusyOf(g, CU)' = BusyOf(g, CU) /\ GroupAt(g, CU, "down")'
          /\ BusyOf(g, AT)' = BusyOf(g, AT) /\ GroupAt(g, AT, "down")'
      <3>1. BusyOf(g, CU)' = BusyOf(g, CU) /\ GroupAt(g, CU, "down")'
        <4>1. CU \in Groups /\ CU # Cache /\ CU # TLB /\ "down" \in Ways
          BY GroupsApart DEF Groups, Ways
        <4> QED BY <1>2, <1>7, <2>1, <4>1, TakesRest
      <3>2. BusyOf(g, AT)' = BusyOf(g, AT) /\ GroupAt(g, AT, "down")'
        <4>1. AT \in Groups /\ AT # Cache /\ AT # TLB /\ "down" \in Ways
          BY GroupsApart DEF Groups, Ways
        <4> QED BY <1>2, <1>7, <2>1, <4>1, TakesRest
      <3>3. \A h \in GPU : h # g => GPUKept(h)
        <4>1. Cache \in {Cache, TLB}
          BY GroupsApart DEF Groups
        <4> QED BY <1>2, <2>1, <4>1, TakesAll
      <3> QED BY <3>1, <3>2, <3>3
    <2>3. BusyOf(g, TLB)' = TLB /\ GroupAt(g, TLB, "starts")'
      BY <1>2, <1>7, <1>8, <2>1, GroupsApart, TakesAll
    <2>4. cp[g].numCacheACK = Cardinality(BusyOf(g, Cache))
      BY <1>7 DEF CountAt
    <2>5. Cardinality(BusyOf(g, Cache)') = 0 /\ BusyOf(g, Cache)' = {} /\ GroupAt(g, Cache, "up")'
      <3>1. /\ IF BusyOf(g, Cache)' = {} THEN GroupAt(g, Cache, "up")' ELSE GroupAt(g, Cache, "starts")'
            /\ Cardinality(BusyOf(g, Cache)) \in Nat \ {0}
            /\ Cardinality(BusyOf(g, Cache)') = Cardinality(BusyOf(g, Cache)) - 1
            /\ Cardinality(BusyOf(g, Cache)) = 1 <=> BusyOf(g, Cache)' = {}
        BY <1>2, <1>6, <2>1, TakesAll
      <3> QED BY <1>9, <2>4, <3>1
    <2>6. /\ cp'[g].numCUAck = Cardinality(BusyOf(g, CU)')
          /\ cp'[g].numAddrTranslationFlushAck = 0
          /\ cp'[g].numAddrTranslationRestartAck = 0
          /\ cp'[g].numCacheACK = Cardinality(BusyOf(g, Cache)')
          /\ cp'[g].numTLBAck = Cardinality(BusyOf(g, TLB)')
          /\ cp'[g].shootDownInProcess = FALSE
      <3>1. CountAt(g, "startCache") /\ cp[g] \in CPState /\ cp[g].shootDownInProcess = FALSE
        BY <1>7, <1>8
      <3>2. cp'[g] = [cp[g] EXCEPT !.numCacheACK = @ - 1, !.numTLBAck = @ + Cardinality(TLB)]
        BY <1>1, <1>9
      <3>3. BusyOf(g, CU)' = BusyOf(g, CU) /\ BusyOf(g, AT)' = BusyOf(g, AT) /\ BusyOf(g, TLB)' = TLB /\ Cardinality(BusyOf(g, TLB)) = 0 /\ Cardinality(TLB) \in Nat
        BY <1>8, <2>2, <2>3, FS_EmptySet
      <3> QED BY <1>9, <2>4, <2>5, <3>1, <3>2, <3>3 DEF CountAt, CPState
    <2>7. ~Flushing(g)'
      BY <1>7, <1>f, <2>2, <2>3, <2>5, NotFlushing
    <2>8. GPUAt(g, "startTLB")'
      <3>1. CUAt("startTLB") = "down" /\ ATAt("startTLB") = "down" /\ CacheAt("startTLB") = "up" /\ TLBAt("startTLB") = "starts"
        BY DEF CUAt, ATAt, CacheAt, TLBAt
      <3>2. CountAt(g, "startTLB")'
        BY <2>6 DEF CountAt
      <3>3. cp'[g].shootDownInProcess = ("startTLB" \in Stops)
        BY <2>6, StopStages
      <3> QED BY <2>2, <2>3, <2>5, <3>1, <3>2, <3>3 DEF GPUAt, Stops
    <2> QED BY <1>1, <1>6, <1>9, <2>2, <1>f, <2>7, <2>8
  <1>10. CASE ~last
    <2>1. Takes(g, c, {}, "restart")
      BY <1>1, <1>10
    <2>2. /\ \A h \in GPU : h # g => GPUKept(h)
          /\ BusyOf(g, CU)' = BusyOf(g, CU) /\ GroupAt(g, CU, "down")'
          /\ BusyOf(g, AT)' = BusyOf(g, AT) /\ GroupAt(g, AT, "down")'
          /\ BusyOf(g, TLB)' = BusyOf(g, TLB) /\ GroupAt(g, TLB, "down")'
      <3>1. BusyOf(g, CU)' = BusyOf(g, CU) /\ GroupAt(g, CU, "down")'
        <4>1. CU \in Groups /\ CU # Cache /\ CU # {} /\ "down" \in Ways
          BY GroupsApart DEF Groups, Ways
        <4> QED BY <1>2, <1>7, <2>1, <4>1, TakesRest
      <3>2. BusyOf(g, AT)' = BusyOf(g, AT) /\ GroupAt(g, AT, "down")'
        <4>1. AT \in Groups /\ AT # Cache /\ AT # {} /\ "down" \in Ways
          BY GroupsApart DEF Groups, Ways
        <4> QED BY <1>2, <1>7, <2>1, <4>1, TakesRest
      <3>3. BusyOf(g, TLB)' = BusyOf(g, TLB) /\ GroupAt(g, TLB, "down")'
        <4>1. TLB \in Groups /\ TLB # Cache /\ TLB # {} /\ "down" \in Ways
          BY GroupsApart DEF Groups, Ways
        <4> QED BY <1>2, <1>7, <2>1, <4>1, TakesRest
      <3>4. \A h \in GPU : h # g => GPUKept(h)
        <4>1. Cache \in {Cache, {}}
          BY GroupsApart DEF Groups
        <4> QED BY <1>2, <2>1, <4>1, TakesAll
      <3> QED BY <3>1, <3>2, <3>3, <3>4
    <2>4. cp[g].numCacheACK = Cardinality(BusyOf(g, Cache))
      BY <1>7 DEF CountAt
    <2>5. Cardinality(BusyOf(g, Cache)') = cp[g].numCacheACK - 1 /\ GroupAt(g, Cache, "starts")'
      <3>1. /\ IF BusyOf(g, Cache)' = {} THEN GroupAt(g, Cache, "up")' ELSE GroupAt(g, Cache, "starts")'
            /\ Cardinality(BusyOf(g, Cache)) \in Nat \ {0}
            /\ Cardinality(BusyOf(g, Cache)') = Cardinality(BusyOf(g, Cache)) - 1
            /\ Cardinality(BusyOf(g, Cache)) = 1 <=> BusyOf(g, Cache)' = {}
        BY <1>2, <1>6, <2>1, TakesAll
      <3> QED BY <1>10, <2>4, <3>1
    <2>6. /\ cp'[g].numCUAck = Cardinality(BusyOf(g, CU)')
          /\ cp'[g].numAddrTranslationFlushAck = 0
          /\ cp'[g].numAddrTranslationRestartAck = 0
          /\ cp'[g].numCacheACK = Cardinality(BusyOf(g, Cache)')
          /\ cp'[g].numTLBAck = Cardinality(BusyOf(g, TLB)')
          /\ cp'[g].shootDownInProcess = FALSE
      <3>1. CountAt(g, "startCache") /\ cp[g] \in CPState /\ cp[g].shootDownInProcess = FALSE
        BY <1>7, <1>8
      <3>2. cp'[g] = [cp[g] EXCEPT !.numCacheACK = @ - 1]
        BY <1>1, <1>10
      <3>3. BusyOf(g, CU)' = BusyOf(g, CU) /\ BusyOf(g, AT)' = BusyOf(g, AT) /\ BusyOf(g, TLB)' = BusyOf(g, TLB)
        BY <1>8, <2>2, FS_EmptySet
      <3> QED BY <1>10, <2>4, <2>5, <3>1, <3>2, <3>3 DEF CountAt, CPState
    <2>7. ~Flushing(g)'
      BY <1>7, <1>f, <2>2, <2>5, NotFlushing
    <2>8. GPUAt(g, "startCache")'
      <3>1. CUAt("startCache") = "down" /\ ATAt("startCache") = "down" /\ CacheAt("startCache") = "starts" /\ TLBAt("startCache") = "down"
        BY DEF CUAt, ATAt, CacheAt, TLBAt
      <3>2. CountAt(g, "startCache")'
        BY <2>6 DEF CountAt
      <3>3. cp'[g].shootDownInProcess = ("startCache" \in Stops)
        BY <2>6, StopStages
      <3> QED BY <2>2, <2>5, <3>1, <3>2, <3>3 DEF GPUAt, Stops
    <2> QED BY <1>1, <1>6, <1>10, <2>2, <1>f, <2>7, <2>8
  <1> QED BY <1>9, <1>10

(* The answers of the TLBs that continue. *)
LEMMA TLBsStart ==
    ASSUME CPTypeOK, CPTypeOK', NEW g \in GPU, NEW t \in TLB, NEW s \in Stage, GPUAt(g, s),
           ProcessTLBRestartRsp(g, t)
    PROVE  /\ s = "startTLB"
           /\ GPUAt(g, "startTLB")' \/ GPUAt(g, "startAT")'
           /\ \A h \in GPU : h # g => GPUKept(h)
           /\ Flushing(g)' = Flushing(g)
  <1> DEFINE last == cp[g].numTLBAck = 1
  <1>1. /\ last => cp'[g] = [cp[g] EXCEPT !.numTLBAck = @ - 1, !.numAddrTranslationRestartAck = @ + Cardinality(AT)]
                    /\ Takes(g, t, AT, "restart") 
        /\ ~last => cp'[g] = [cp[g] EXCEPT !.numTLBAck = @ - 1]
                     /\ Takes(g, t, {}, "restart") 
    BY FieldsSet, GroupsApart DEF ProcessTLBRestartRsp, LastAck, Takes, From, gpuVars, Groups
  <1>2. TLB \in Groups /\ AT \in Groups \ {TLB}
    BY GroupsApart DEF Groups
  <1>3. \A l : Replied(g, t, l) => l = "restart"
    BY OneInQueue DEF ProcessTLBRestartRsp, From, Replied
  <1>4. Stop(t) = "flush"
    BY PartsApart DEF Stop
  <1>5. /\ ~GroupAt(g, TLB, "down")
        /\ GroupAt(g, TLB, "up") => TLB = Cache /\ Replied(g, t, "flush")
        /\ GroupAt(g, TLB, "stops") => Replied(g, t, Stop(t))
        /\ GroupAt(g, TLB, "starts") => Replied(g, t, "restart")
    <2>1. CASE last
      BY <1>1, <1>2, <2>1, TakesAll
    <2>2. CASE ~last
      BY <1>1, <1>2, <2>2, TakesAll
    <2> QED BY <2>1, <2>2
  <1>6. s = "startTLB" /\ GroupAt(g, TLB, "starts")
    <2>1. TLBAt(s) \in Ways /\ GroupAt(g, TLB, TLBAt(s))
      BY DEF GPUAt, TLBAt, Ways
    <2>2. TLBAt(s) = "starts"
      BY <1>3, <1>4, <1>5, <2>1, GroupsApart DEF Ways
    <2> QED BY <2>1, <2>2 DEF TLBAt
  <1>7. GroupAt(g, CU, "down") /\ GroupAt(g, AT, "down") /\ GroupAt(g, Cache, "up") /\ CountAt(g, "startTLB")
        /\ cp[g].shootDownInProcess = FALSE
    <2>1. CUAt("startTLB") = "down" /\ ATAt("startTLB") = "down" /\ CacheAt("startTLB") = "up" /\ TLBAt("startTLB") = "starts"
      BY DEF CUAt, ATAt, CacheAt, TLBAt
    <2> QED BY <1>6, <2>1, StopStages DEF GPUAt
  <1>8. cp[g] \in CPState /\ Cardinality(AT) \in Nat  /\ BusyOf(g, CU) = {} /\ BusyOf(g, AT) = {}
    BY <1>2, <1>7, CountsAt, GroupsApart DEF CPTypeOK
  <1>9. CASE last
    <2>1. Takes(g, t, AT, "restart")
      BY <1>1, <1>9
    <2>2. /\ \A h \in GPU : h # g => GPUKept(h)
          /\ BusyOf(g, CU)' = BusyOf(g, CU) /\ GroupAt(g, CU, "down")'
          /\ BusyOf(g, Cache)' = BusyOf(g, Cache) /\ GroupAt(g, Cache, "up")'
          /\ Flushing(g)' = Flushing(g)
      <3>1. BusyOf(g, CU)' = BusyOf(g, CU) /\ GroupAt(g, CU, "down")'
        <4>1. CU \in Groups /\ CU # TLB /\ CU # AT /\ "down" \in Ways
          BY GroupsApart DEF Groups, Ways
        <4> QED BY <1>2, <1>7, <2>1, <4>1, TakesRest
      <3>2. BusyOf(g, Cache)' = BusyOf(g, Cache) /\ GroupAt(g, Cache, "up")'
        <4>1. Cache \in Groups /\ Cache # TLB /\ Cache # AT /\ "up" \in Ways
          BY GroupsApart DEF Groups, Ways
        <4> QED BY <1>2, <1>7, <2>1, <4>1, TakesRest
      <3>3. Flushing(g)' = Flushing(g) /\ \A h \in GPU : h # g => GPUKept(h)
        <4>1. Cache \notin {TLB, AT}
          BY GroupsApart DEF Groups
        <4> QED BY <1>2, <2>1, <4>1, TakesAll
      <3> QED BY <3>1, <3>2, <3>3
    <2>3. BusyOf(g, AT)' = AT /\ GroupAt(g, AT, "starts")'
      BY <1>2, <1>7, <1>8, <2>1, GroupsApart, TakesAll
    <2>4. cp[g].numTLBAck = Cardinality(BusyOf(g, TLB))
      BY <1>7 DEF CountAt
    <2>5. Cardinality(BusyOf(g, TLB)') = 0 /\ BusyOf(g, TLB)' = {} /\ GroupAt(g, TLB, "up")'
      <3>1. /\ IF BusyOf(g, TLB)' = {} THEN GroupAt(g, TLB, "up")' ELSE GroupAt(g, TLB, "starts")'
            /\ Cardinality(BusyOf(g, TLB)) \in Nat \ {0}
            /\ Cardinality(BusyOf(g, TLB)') = Cardinality(BusyOf(g, TLB)) - 1
            /\ Cardinality(BusyOf(g, TLB)) = 1 <=> BusyOf(g, TLB)' = {}
        BY <1>2, <1>6, <2>1, TakesAll
      <3> QED BY <1>9, <2>4, <3>1
    <2>6. /\ cp'[g].numCUAck = Cardinality(BusyOf(g, CU)')
          /\ cp'[g].numAddrTranslationFlushAck = 0
          /\ cp'[g].numAddrTranslationRestartAck = Cardinality(BusyOf(g, AT)')
          /\ cp'[g].numCacheACK = Cardinality(BusyOf(g, Cache)')
          /\ cp'[g].numTLBAck = Cardinality(BusyOf(g, TLB)')
          /\ cp'[g].shootDownInProcess = FALSE
      <3>1. CountAt(g, "startTLB") /\ cp[g] \in CPState /\ cp[g].shootDownInProcess = FALSE
        BY <1>7, <1>8
      <3>2. cp'[g] = [cp[g] EXCEPT !.numTLBAck = @ - 1, !.numAddrTranslationRestartAck = @ + Cardinality(AT)]
        BY <1>1, <1>9
      <3>3. BusyOf(g, CU)' = BusyOf(g, CU) /\ BusyOf(g, Cache)' = BusyOf(g, Cache) /\ BusyOf(g, AT)' = AT /\ Cardinality(BusyOf(g, AT)) = 0 /\ Cardinality(AT) \in Nat
        BY <1>8, <2>2, <2>3, FS_EmptySet
      <3> QED BY <1>9, <2>4, <2>5, <3>1, <3>2, <3>3 DEF CountAt, CPState
    <2>8. GPUAt(g, "startAT")'
      <3>1. CUAt("startAT") = "down" /\ ATAt("startAT") = "starts" /\ CacheAt("startAT") = "up" /\ TLBAt("startAT") = "up"
        BY DEF CUAt, ATAt, CacheAt, TLBAt
      <3>2. CountAt(g, "startAT")'
        BY <2>6 DEF CountAt
      <3>3. cp'[g].shootDownInProcess = ("startAT" \in Stops)
        BY <2>6, StopStages
      <3> QED BY <2>2, <2>3, <2>5, <3>1, <3>2, <3>3 DEF GPUAt, Stops
    <2> QED BY <1>1, <1>6, <1>9, <2>2, <2>8
  <1>10. CASE ~last
    <2>1. Takes(g, t, {}, "restart")
      BY <1>1, <1>10
    <2>2. /\ \A h \in GPU : h # g => GPUKept(h)
          /\ BusyOf(g, CU)' = BusyOf(g, CU) /\ GroupAt(g, CU, "down")'
          /\ BusyOf(g, AT)' = BusyOf(g, AT) /\ GroupAt(g, AT, "down")'
          /\ BusyOf(g, Cache)' = BusyOf(g, Cache) /\ GroupAt(g, Cache, "up")'
          /\ Flushing(g)' = Flushing(g)
      <3>1. BusyOf(g, CU)' = BusyOf(g, CU) /\ GroupAt(g, CU, "down")'
        <4>1. CU \in Groups /\ CU # TLB /\ CU # {} /\ "down" \in Ways
          BY GroupsApart DEF Groups, Ways
        <4> QED BY <1>2, <1>7, <2>1, <4>1, TakesRest
      <3>2. BusyOf(g, AT)' = BusyOf(g, AT) /\ GroupAt(g, AT, "down")'
        <4>1. AT \in Groups /\ AT # TLB /\ AT # {} /\ "down" \in Ways
          BY GroupsApart DEF Groups, Ways
        <4> QED BY <1>2, <1>7, <2>1, <4>1, TakesRest
      <3>3. BusyOf(g, Cache)' = BusyOf(g, Cache) /\ GroupAt(g, Cache, "up")'
        <4>1. Cache \in Groups /\ Cache # TLB /\ Cache # {} /\ "up" \in Ways
          BY GroupsApart DEF Groups, Ways
        <4> QED BY <1>2, <1>7, <2>1, <4>1, TakesRest
      <3>4. Flushing(g)' = Flushing(g) /\ \A h \in GPU : h # g => GPUKept(h)
        <4>1. Cache \notin {TLB, {}}
          BY GroupsApart DEF Groups
        <4> QED BY <1>2, <2>1, <4>1, TakesAll
      <3> QED BY <3>1, <3>2, <3>3, <3>4
    <2>4. cp[g].numTLBAck = Cardinality(BusyOf(g, TLB))
      BY <1>7 DEF CountAt
    <2>5. Cardinality(BusyOf(g, TLB)') = cp[g].numTLBAck - 1 /\ GroupAt(g, TLB, "starts")'
      <3>1. /\ IF BusyOf(g, TLB)' = {} THEN GroupAt(g, TLB, "up")' ELSE GroupAt(g, TLB, "starts")'
            /\ Cardinality(BusyOf(g, TLB)) \in Nat \ {0}
            /\ Cardinality(BusyOf(g, TLB)') = Cardinality(BusyOf(g, TLB)) - 1
            /\ Cardinality(BusyOf(g, TLB)) = 1 <=> BusyOf(g, TLB)' = {}
        BY <1>2, <1>6, <2>1, TakesAll
      <3> QED BY <1>10, <2>4, <3>1
    <2>6. /\ cp'[g].numCUAck = Cardinality(BusyOf(g, CU)')
          /\ cp'[g].numAddrTranslationFlushAck = 0
          /\ cp'[g].numAddrTranslationRestartAck = 0
          /\ cp'[g].numCacheACK = Cardinality(BusyOf(g, Cache)')
          /\ cp'[g].numTLBAck = Cardinality(BusyOf(g, TLB)')
          /\ cp'[g].shootDownInProcess = FALSE
      <3>1. CountAt(g, "startTLB") /\ cp[g] \in CPState /\ cp[g].shootDownInProcess = FALSE
        BY <1>7, <1>8
      <3>2. cp'[g] = [cp[g] EXCEPT !.numTLBAck = @ - 1]
        BY <1>1, <1>10
      <3>3. BusyOf(g, CU)' = BusyOf(g, CU) /\ BusyOf(g, AT)' = BusyOf(g, AT) /\ BusyOf(g, Cache)' = BusyOf(g, Cache)
        BY <1>8, <2>2, FS_EmptySet
      <3> QED BY <1>10, <2>4, <2>5, <3>1, <3>2, <3>3 DEF CountAt, CPState
    <2>8. GPUAt(g, "startTLB")'
      <3>1. CUAt("startTLB") = "down" /\ ATAt("startTLB") = "down" /\ CacheAt("startTLB") = "up" /\ TLBAt("startTLB") = "starts"
        BY DEF CUAt, ATAt, CacheAt, TLBAt
      <3>2. CountAt(g, "startTLB")'
        BY <2>6 DEF CountAt
      <3>3. cp'[g].shootDownInProcess = ("startTLB" \in Stops)
        BY <2>6, StopStages
      <3> QED BY <2>2, <2>5, <3>1, <3>2, <3>3 DEF GPUAt, Stops
    <2> QED BY <1>1, <1>6, <1>10, <2>2, <2>8
  <1> QED BY <1>9, <1>10

(* The answers of the address translators that continue. *)
LEMMA ATsStart ==
    ASSUME CPTypeOK, CPTypeOK', NEW g \in GPU, NEW a \in AT, NEW s \in Stage, GPUAt(g, s),
           ProcessAddressTranslatorRestartRsp(g, a)
    PROVE  /\ s = "startAT"
           /\ GPUAt(g, "startAT")' \/ GPUAt(g, "startCU")'
           /\ \A h \in GPU : h # g => GPUKept(h)
           /\ Flushing(g)' = Flushing(g)
  <1> DEFINE last == cp[g].numAddrTranslationRestartAck = 1
  <1>1. /\ last => cp'[g] = [cp[g] EXCEPT !.numAddrTranslationRestartAck = @ - 1, !.numCUAck = @ + Cardinality(CU)]
                    /\ Takes(g, a, CU, "restart") 
        /\ ~last => cp'[g] = [cp[g] EXCEPT !.numAddrTranslationRestartAck = @ - 1]
                     /\ Takes(g, a, {}, "restart") 
    BY FieldsSet, GroupsApart DEF ProcessAddressTranslatorRestartRsp, LastAck, Takes, From, gpuVars, Groups
  <1>2. AT \in Groups /\ CU \in Groups \ {AT}
    BY GroupsApart DEF Groups
  <1>6. s = "startAT" /\ GroupAt(g, AT, "starts")
    BY DEF ProcessAddressTranslatorRestartRsp, GPUAt, CountAt, CUAt, ATAt, CacheAt, TLBAt
  <1>7. GroupAt(g, CU, "down") /\ GroupAt(g, Cache, "up") /\ GroupAt(g, TLB, "up") /\ CountAt(g, "startAT")
        /\ cp[g].shootDownInProcess = FALSE
    <2>1. CUAt("startAT") = "down" /\ ATAt("startAT") = "starts" /\ CacheAt("startAT") = "up" /\ TLBAt("startAT") = "up"
      BY DEF CUAt, ATAt, CacheAt, TLBAt
    <2> QED BY <1>6, <2>1, StopStages DEF GPUAt
  <1>8. cp[g] \in CPState /\ Cardinality(CU) \in Nat  /\ BusyOf(g, CU) = {} /\ BusyOf(g, TLB) = {}
    BY <1>2, <1>7, CountsAt, GroupsApart DEF CPTypeOK
  <1>9. CASE last
    <2>1. Takes(g, a, CU, "restart")
      BY <1>1, <1>9
    <2>2. /\ \A h \in GPU : h # g => GPUKept(h)
          /\ BusyOf(g, Cache)' = BusyOf(g, Cache) /\ GroupAt(g, Cache, "up")'
          /\ BusyOf(g, TLB)' = BusyOf(g, TLB) /\ GroupAt(g, TLB, "up")'
          /\ Flushing(g)' = Flushing(g)
      <3>1. BusyOf(g, Cache)' = BusyOf(g, Cache) /\ GroupAt(g, Cache, "up")'
        <4>1. Cache \in Groups /\ Cache # AT /\ Cache # CU /\ "up" \in Ways
          BY GroupsApart DEF Groups, Ways
        <4> QED BY <1>2, <1>7, <2>1, <4>1, TakesRest
      <3>2. BusyOf(g, TLB)' = BusyOf(g, TLB) /\ GroupAt(g, TLB, "up")'
        <4>1. TLB \in Groups /\ TLB # AT /\ TLB # CU /\ "up" \in Ways
          BY GroupsApart DEF Groups, Ways
        <4> QED BY <1>2, <1>7, <2>1, <4>1, TakesRest
      <3>3. Flushing(g)' = Flushing(g) /\ \A h \in GPU : h # g => GPUKept(h)
        <4>1. Cache \notin {AT, CU}
          BY GroupsApart DEF Groups
        <4> QED BY <1>2, <2>1, <4>1, TakesAll
      <3> QED BY <3>1, <3>2, <3>3
    <2>3. BusyOf(g, CU)' = CU /\ GroupAt(g, CU, "starts")'
      BY <1>2, <1>7, <1>8, <2>1, GroupsApart, TakesAll
    <2>4. cp[g].numAddrTranslationRestartAck = Cardinality(BusyOf(g, AT))
      BY <1>7 DEF CountAt
    <2>5. Cardinality(BusyOf(g, AT)') = 0 /\ BusyOf(g, AT)' = {} /\ GroupAt(g, AT, "up")'
      <3>1. /\ IF BusyOf(g, AT)' = {} THEN GroupAt(g, AT, "up")' ELSE GroupAt(g, AT, "starts")'
            /\ Cardinality(BusyOf(g, AT)) \in Nat \ {0}
            /\ Cardinality(BusyOf(g, AT)') = Cardinality(BusyOf(g, AT)) - 1
            /\ Cardinality(BusyOf(g, AT)) = 1 <=> BusyOf(g, AT)' = {}
        BY <1>2, <1>6, <2>1, TakesAll
      <3> QED BY <1>9, <2>4, <3>1
    <2>6. /\ cp'[g].numCUAck = Cardinality(BusyOf(g, CU)')
          /\ cp'[g].numAddrTranslationFlushAck = 0
          /\ cp'[g].numAddrTranslationRestartAck = 0
          /\ cp'[g].numCacheACK = Cardinality(BusyOf(g, Cache)')
          /\ cp'[g].numTLBAck = Cardinality(BusyOf(g, TLB)')
          /\ cp'[g].shootDownInProcess = FALSE
      <3>1. CountAt(g, "startAT") /\ cp[g] \in CPState /\ cp[g].shootDownInProcess = FALSE
        BY <1>7, <1>8
      <3>2. cp'[g] = [cp[g] EXCEPT !.numAddrTranslationRestartAck = @ - 1, !.numCUAck = @ + Cardinality(CU)]
        BY <1>1, <1>9
      <3>3. BusyOf(g, Cache)' = BusyOf(g, Cache) /\ BusyOf(g, TLB)' = BusyOf(g, TLB) /\ BusyOf(g, CU)' = CU /\ Cardinality(BusyOf(g, CU)) = 0 /\ Cardinality(CU) \in Nat
        BY <1>8, <2>2, <2>3, FS_EmptySet
      <3> QED BY <1>9, <2>4, <2>5, <3>1, <3>2, <3>3 DEF CountAt, CPState
    <2>8. GPUAt(g, "startCU")'
      <3>1. CUAt("startCU") = "starts" /\ ATAt("startCU") = "up" /\ CacheAt("startCU") = "up" /\ TLBAt("startCU") = "up"
        BY DEF CUAt, ATAt, CacheAt, TLBAt
      <3>2. CountAt(g, "startCU")'
        BY <2>6 DEF CountAt
      <3>3. cp'[g].shootDownInProcess = ("startCU" \in Stops)
        BY <2>6, StopStages
      <3> QED BY <2>2, <2>3, <2>5, <3>1, <3>2, <3>3 DEF GPUAt, Stops
    <2> QED BY <1>1, <1>6, <1>9, <2>2, <2>8
  <1>10. CASE ~last
    <2>1. Takes(g, a, {}, "restart")
      BY <1>1, <1>10
    <2>2. /\ \A h \in GPU : h # g => GPUKept(h)
          /\ BusyOf(g, CU)' = BusyOf(g, CU) /\ GroupAt(g, CU, "down")'
          /\ BusyOf(g, Cache)' = BusyOf(g, Cache) /\ GroupAt(g, Cache, "up")'
          /\ BusyOf(g, TLB)' = BusyOf(g, TLB) /\ GroupAt(g, TLB, "up")'
          /\ Flushing(g)' = Flushing(g)
      <3>1. BusyOf(g, CU)' = BusyOf(g, CU) /\ GroupAt(g, CU, "down")'
        <4>1. CU \in Groups /\ CU # AT /\ CU # {} /\ "down" \in Ways
          BY GroupsApart DEF Groups, Ways
        <4> QED BY <1>2, <1>7, <2>1, <4>1, TakesRest
      <3>2. BusyOf(g, Cache)' = BusyOf(g, Cache) /\ GroupAt(g, Cache, "up")'
        <4>1. Cache \in Groups /\ Cache # AT /\ Cache # {} /\ "up" \in Ways
          BY GroupsApart DEF Groups, Ways
        <4> QED BY <1>2, <1>7, <2>1, <4>1, TakesRest
      <3>3. BusyOf(g, TLB)' = BusyOf(g, TLB) /\ GroupAt(g, TLB, "up")'
        <4>1. TLB \in Groups /\ TLB # AT /\ TLB # {} /\ "up" \in Ways
          BY GroupsApart DEF Groups, Ways
        <4> QED BY <1>2, <1>7, <2>1, <4>1, TakesRest
      <3>4. Flushing(g)' = Flushing(g) /\ \A h \in GPU : h # g => GPUKept(h)
        <4>1. Cache \notin {AT, {}}
          BY GroupsApart DEF Groups
        <4> QED BY <1>2, <2>1, <4>1, TakesAll
      <3> QED BY <3>1, <3>2, <3>3, <3>4
    <2>4. cp[g].numAddrTranslationRestartAck = Cardinality(BusyOf(g, AT))
      BY <1>7 DEF CountAt
    <2>5. Cardinality(BusyOf(g, AT)') = cp[g].numAddrTranslationRestartAck - 1 /\ GroupAt(g, AT, "starts")'
      <3>1. /\ IF BusyOf(g, AT)' = {} THEN GroupAt(g, AT, "up")' ELSE GroupAt(g, AT, "starts")'
            /\ Cardinality(BusyOf(g, AT)) \in Nat \ {0}
            /\ Cardinality(BusyOf(g, AT)') = Cardinality(BusyOf(g, AT)) - 1
            /\ Cardinality(BusyOf(g, AT)) = 1 <=> BusyOf(g, AT)' = {}
        BY <1>2, <1>6, <2>1, TakesAll
      <3> QED BY <1>10, <2>4, <3>1
    <2>6. /\ cp'[g].numCUAck = Cardinality(BusyOf(g, CU)')
          /\ cp'[g].numAddrTranslationFlushAck = 0
          /\ cp'[g].numAddrTranslationRestartAck = Cardinality(BusyOf(g, AT)')
          /\ cp'[g].numCacheACK = Cardinality(BusyOf(g, Cache)')
          /\ cp'[g].numTLBAck = Cardinality(BusyOf(g, TLB)')
          /\ cp'[g].shootDownInProcess = FALSE
      <3>1. CountAt(g, "startAT") /\ cp[g] \in CPState /\ cp[g].shootDownInProcess = FALSE
        BY <1>7, <1>8
      <3>2. cp'[g] = [cp[g] EXCEPT !.numAddrTranslationRestartAck = @ - 1]
        BY <1>1, <1>10
      <3>3. BusyOf(g, CU)' = BusyOf(g, CU) /\ BusyOf(g, Cache)' = BusyOf(g, Cache) /\ BusyOf(g, TLB)' = BusyOf(g, TLB)
        BY <1>8, <2>2, FS_EmptySet
      <3> QED BY <1>10, <2>4, <2>5, <3>1, <3>2, <3>3 DEF CountAt, CPState
    <2>8. GPUAt(g, "startAT")'
      <3>1. CUAt("startAT") = "down" /\ ATAt("startAT") = "starts" /\ CacheAt("startAT") = "up" /\ TLBAt("startAT") = "up"
        BY DEF CUAt, ATAt, CacheAt, TLBAt
      <3>2. CountAt(g, "startAT")'
        BY <2>6 DEF CountAt
      <3>3. cp'[g].shootDownInProcess = ("startAT" \in Stops)
        BY <2>6, StopStages
      <3> QED BY <2>2, <2>5, <3>1, <3>2, <3>3 DEF GPUAt, Stops
    <2> QED BY <1>1, <1>6, <1>10, <2>2, <2>8
  <1> QED BY <1>9, <1>10

(* The answers of the compute units that continue. *)
LEMMA CUsStart ==
    ASSUME CPTypeOK, CPTypeOK', NEW g \in GPU, NEW c \in CU, NEW s \in Stage, GPUAt(g, s),
           ProcessCUPipelineRestartRsp(g, c)
    PROVE  /\ s = "startCU"
           /\ \/ GPUAt(g, "startCU")' /\ UNCHANGED uplink
              \/ GPUAt(g, "running")' /\ SendToDriver(g, "gpuRestart")
           /\ \A h \in GPU : h # g => GPUKept(h)
           /\ Flushing(g)' = Flushing(g)
  <1> DEFINE last == cp[g].numCUAck = 1
  <1>1. /\ last => cp'[g] = [cp[g] EXCEPT !.numCUAck = @ - 1]
                    /\ Takes(g, c, {}, "restart") /\ SendToDriver(g, "gpuRestart")
        /\ ~last => cp'[g] = [cp[g] EXCEPT !.numCUAck = @ - 1]
                     /\ Takes(g, c, {}, "restart") /\ UNCHANGED uplink
    BY FieldsSet, GroupsApart DEF ProcessCUPipelineRestartRsp, LastAck, Takes, From, gpuVars, Groups
  <1>2. CU \in Groups 
    BY GroupsApart DEF Groups
  <1>3. \A l : Replied(g, c, l) => l = "restart"
    BY OneInQueue DEF ProcessCUPipelineRestartRsp, From, Replied
  <1>4. Stop(c) = "flush"
    BY PartsApart DEF Stop
  <1>5. /\ ~GroupAt(g, CU, "down")
        /\ GroupAt(g, CU, "up") => CU = Cache /\ Replied(g, c, "flush")
        /\ GroupAt(g, CU, "stops") => Replied(g, c, Stop(c))
        /\ GroupAt(g, CU, "starts") => Replied(g, c, "restart")
    <2>1. CASE last
      BY <1>1, <1>2, <2>1, TakesAll
    <2>2. CASE ~last
      BY <1>1, <1>2, <2>2, TakesAll
    <2> QED BY <2>1, <2>2
  <1>6. s = "startCU" /\ GroupAt(g, CU, "starts")
    <2>1. CUAt(s) \in Ways /\ GroupAt(g, CU, CUAt(s))
      BY DEF GPUAt, CUAt, Ways
    <2>2. CUAt(s) = "starts"
      BY <1>3, <1>4, <1>5, <2>1, GroupsApart DEF Ways
    <2> QED BY <2>1, <2>2 DEF CUAt
  <1>7. GroupAt(g, AT, "up") /\ GroupAt(g, Cache, "up") /\ GroupAt(g, TLB, "up") /\ CountAt(g, "startCU")
        /\ cp[g].shootDownInProcess = FALSE
    <2>1. CUAt("startCU") = "starts" /\ ATAt("startCU") = "up" /\ CacheAt("startCU") = "up" /\ TLBAt("startCU") = "up"
      BY DEF CUAt, ATAt, CacheAt, TLBAt
    <2> QED BY <1>6, <2>1, StopStages DEF GPUAt
  <1>8. cp[g] \in CPState /\ Cardinality(CU) \in Nat  /\ BusyOf(g, AT) = {} /\ BusyOf(g, TLB) = {}
    BY <1>2, <1>7, CountsAt, GroupsApart DEF CPTypeOK
  <1>9. CASE last
    <2>1. Takes(g, c, {}, "restart")
      BY <1>1, <1>9
    <2>2. /\ \A h \in GPU : h # g => GPUKept(h)
          /\ BusyOf(g, AT)' = BusyOf(g, AT) /\ GroupAt(g, AT, "up")'
          /\ BusyOf(g, Cache)' = BusyOf(g, Cache) /\ GroupAt(g, Cache, "up")'
          /\ BusyOf(g, TLB)' = BusyOf(g, TLB) /\ GroupAt(g, TLB, "up")'
          /\ Flushing(g)' = Flushing(g)
      <3>1. BusyOf(g, AT)' = BusyOf(g, AT) /\ GroupAt(g, AT, "up")'
        <4>1. AT \in Groups /\ AT # CU /\ AT # {} /\ "up" \in Ways
          BY GroupsApart DEF Groups, Ways
        <4> QED BY <1>2, <1>7, <2>1, <4>1, TakesRest
      <3>2. BusyOf(g, Cache)' = BusyOf(g, Cache) /\ GroupAt(g, Cache, "up")'
        <4>1. Cache \in Groups /\ Cache # CU /\ Cache # {} /\ "up" \in Ways
          BY GroupsApart DEF Groups, Ways
        <4> QED BY <1>2, <1>7, <2>1, <4>1, TakesRest
      <3>3. BusyOf(g, TLB)' = BusyOf(g, TLB) /\ GroupAt(g, TLB, "up")'
        <4>1. TLB \in Groups /\ TLB # CU /\ TLB # {} /\ "up" \in Ways
          BY GroupsApart DEF Groups, Ways
        <4> QED BY <1>2, <1>7, <2>1, <4>1, TakesRest
      <3>4. Flushing(g)' = Flushing(g) /\ \A h \in GPU : h # g => GPUKept(h)
        <4>1. Cache \notin {CU, {}}
          BY GroupsApart DEF Groups
        <4> QED BY <1>2, <2>1, <4>1, TakesAll
      <3> QED BY <3>1, <3>2, <3>3, <3>4
    <2>4. cp[g].numCUAck = Cardinality(BusyOf(g, CU))
      BY <1>7 DEF CountAt
    <2>5. Cardinality(BusyOf(g, CU)') = 0 /\ BusyOf(g, CU)' = {} /\ GroupAt(g, CU, "up")'
      <3>1. /\ IF BusyOf(g, CU)' = {} THEN GroupAt(g, CU, "up")' ELSE GroupAt(g, CU, "starts")'
            /\ Cardinality(BusyOf(g, CU)) \in Nat \ {0}
            /\ Cardinality(BusyOf(g, CU)') = Cardinality(BusyOf(g, CU)) - 1
            /\ Cardinality(BusyOf(g, CU)) = 1 <=> BusyOf(g, CU)' = {}
        BY <1>2, <1>6, <2>1, TakesAll
      <3> QED BY <1>9, <2>4, <3>1
    <2>6. /\ cp'[g].numCUAck = Cardinality(BusyOf(g, CU)')
          /\ cp'[g].numAddrTranslationFlushAck = 0
          /\ cp'[g].numAddrTranslationRestartAck = 0
          /\ cp'[g].numCacheACK = Cardinality(BusyOf(g, Cache)')
          /\ cp'[g].numTLBAck = Cardinality(BusyOf(g, TLB)')
          /\ cp'[g].shootDownInProcess = FALSE
      <3>1. CountAt(g, "startCU") /\ cp[g] \in CPState /\ cp[g].shootDownInProcess = FALSE
        BY <1>7, <1>8
      <3>2. cp'[g] = [cp[g] EXCEPT !.numCUAck = @ - 1]
        BY <1>1, <1>9
      <3>3. BusyOf(g, AT)' = BusyOf(g, AT) /\ BusyOf(g, Cache)' = BusyOf(g, Cache) /\ BusyOf(g, TLB)' = BusyOf(g, TLB)
        BY <1>8, <2>2, FS_EmptySet
      <3> QED BY <1>9, <2>4, <2>5, <3>1, <3>2, <3>3 DEF CountAt, CPState
    <2>8. GPUAt(g, "running")'
      <3>1. CUAt("running") = "up" /\ ATAt("running") = "up" /\ CacheAt("running") = "up" /\ TLBAt("running") = "up"
        BY DEF CUAt, ATAt, CacheAt, TLBAt
      <3>2. CountAt(g, "running")'
        BY <2>6 DEF CountAt
      <3>3. cp'[g].shootDownInProcess = ("running" \in Stops)
        BY <2>6, StopStages
      <3> QED BY <2>2, <2>5, <3>1, <3>2, <3>3 DEF GPUAt, Stops
    <2> QED BY <1>1, <1>6, <1>9, <2>2, <2>8
  <1>10. CASE ~last
    <2>1. Takes(g, c, {}, "restart")
      BY <1>1, <1>10
    <2>2. /\ \A h \in GPU : h # g => GPUKept(h)
          /\ BusyOf(g, AT)' = BusyOf(g, AT) /\ GroupAt(g, AT, "up")'
          /\ BusyOf(g, Cache)' = BusyOf(g, Cache) /\ GroupAt(g, Cache, "up")'
          /\ BusyOf(g, TLB)' = BusyOf(g, TLB) /\ GroupAt(g, TLB, "up")'
          /\ Flushing(g)' = Flushing(g)
      <3>1. BusyOf(g, AT)' = BusyOf(g, AT) /\ GroupAt(g, AT, "up")'
        <4>1. AT \in Groups /\ AT # CU /\ AT # {} /\ "up" \in Ways
          BY GroupsApart DEF Groups, Ways
        <4> QED BY <1>2, <1>7, <2>1, <4>1, TakesRest
      <3>2. BusyOf(g, Cache)' = BusyOf(g, Cache) /\ GroupAt(g, Cache, "up")'
        <4>1. Cache \in Groups /\ Cache # CU /\ Cache # {} /\ "up" \in Ways
          BY GroupsApart DEF Groups, Ways
        <4> QED BY <1>2, <1>7, <2>1, <4>1, TakesRest
      <3>3. BusyOf(g, TLB)' = BusyOf(g, TLB) /\ GroupAt(g, TLB, "up")'
        <4>1. TLB \in Groups /\ TLB # CU /\ TLB # {} /\ "up" \in Ways
          BY GroupsApart DEF Groups, Ways
        <4> QED BY <1>2, <1>7, <2>1, <4>1, TakesRest
      <3>4. Flushing(g)' = Flushing(g) /\ \A h \in GPU : h # g => GPUKept(h)
        <4>1. Cache \notin {CU, {}}
          BY GroupsApart DEF Groups
        <4> QED BY <1>2, <2>1, <4>1, TakesAll
      <3> QED BY <3>1, <3>2, <3>3, <3>4
    <2>4. cp[g].numCUAck = Cardinality(BusyOf(g, CU))
      BY <1>7 DEF CountAt
    <2>5. Cardinality(BusyOf(g, CU)') = cp[g].numCUAck - 1 /\ GroupAt(g, CU, "starts")'
      <3>1. /\ IF BusyOf(g, CU)' = {} THEN GroupAt(g, CU, "up")' ELSE GroupAt(g, CU, "starts")'
            /\ Cardinality(BusyOf(g, CU)) \in Nat \ {0}
            /\ Cardinality(BusyOf(g, CU)') = Cardinality(BusyOf(g, CU)) - 1
            /\ Cardinality(BusyOf(g, CU)) = 1 <=> BusyOf(g, CU)' = {}
        BY <1>2, <1>6, <2>1, TakesAll
      <3> QED BY <1>10, <2>4, <3>1
    <2>6. /\ cp'[g].numCUAck = Cardinality(BusyOf(g, CU)')
          /\ cp'[g].numAddrTranslationFlushAck = 0
          /\ cp'[g].numAddrTranslationRestartAck = 0
          /\ cp'[g].numCacheACK = Cardinality(BusyOf(g, Cache)')
          /\ cp'[g].numTLBAck = Cardinality(BusyOf(g, TLB)')
          /\ cp'[g].shootDownInProcess = FALSE
      <3>1. CountAt(g, "startCU") /\ cp[g] \in CPState /\ cp[g].shootDownInProcess = FALSE
        BY <1>7, <1>8
      <3>2. cp'[g] = [cp[g] EXCEPT !.numCUAck = @ - 1]
        BY <1>1, <1>10
      <3>3. BusyOf(g, AT)' = BusyOf(g, AT) /\ BusyOf(g, Cache)' = BusyOf(g, Cache) /\ BusyOf(g, TLB)' = BusyOf(g, TLB)
        BY <1>8, <2>2, FS_EmptySet
      <3> QED BY <1>10, <2>4, <2>5, <3>1, <3>2, <3>3 DEF CountAt, CPState
    <2>8. GPUAt(g, "startCU")'
      <3>1. CUAt("startCU") = "starts" /\ ATAt("startCU") = "up" /\ CacheAt("startCU") = "up" /\ TLBAt("startCU") = "up"
        BY DEF CUAt, ATAt, CacheAt, TLBAt
      <3>2. CountAt(g, "startCU")'
        BY <2>6 DEF CountAt
      <3>3. cp'[g].shootDownInProcess = ("startCU" \in Stops)
        BY <2>6, StopStages
      <3> QED BY <2>2, <2>5, <3>1, <3>2, <3>3 DEF GPUAt, Stops
    <2> QED BY <1>1, <1>6, <1>10, <2>2, <2>8
  <1> QED BY <1>9, <1>10


(* The answers of the caches that have flushed for the driver's command. *)
LEMMA CachesFlush ==
    ASSUME CPTypeOK, CPTypeOK', NEW g \in GPU, NEW c \in Cache, NEW s \in Stage, GPUAt(g, s),
           ProcessCacheFlushRsp(g, c), ~cp[g].shootDownInProcess
    PROVE  /\ s \notin Stops /\ Flushing(g)
           /\ GPUAt(g, s)'
           /\ \A h \in GPU : h # g => GPUKept(h)
           /\ \/ Flushing(g)' /\ UNCHANGED uplink
              \/ ~Flushing(g)' /\ SendToDriver(g, "flush")
  <1> DEFINE last == cp[g].numCacheACK = 1
  <1>1. /\ cp'[g] = [cp[g] EXCEPT !.numCacheACK = @ - 1]
        /\ Takes(g, c, {}, "flush")
        /\ last => SendToDriver(g, "flush")
        /\ ~last => UNCHANGED uplink
    BY FieldsSet, GroupsApart DEF ProcessCacheFlushRsp, LastAck, Takes, From, gpuVars, Groups
  <1>2. Cache \in Groups /\ Cache # {}
    BY GroupsApart DEF Groups
  <1>3. s \notin Stops
    <2>1. cp[g].shootDownInProcess = (s \in Stops)
      BY DEF GPUAt
    <2> QED BY <2>1
  <1>4. \A l : Replied(g, c, l) => l # "restart"
    BY OneInQueue DEF ProcessCacheFlushRsp, Replied
  <1>5. /\ ~GroupAt(g, Cache, "down")
        /\ GroupAt(g, Cache, "up") => Replied(g, c, "flush") /\ GroupAt(g, Cache, "up")'
        /\ GroupAt(g, Cache, "starts") => Replied(g, c, "restart")
        /\ GroupAt(g, Cache, "up") =>
                /\ Cardinality(BusyOf(g, Cache)) \in Nat \ {0}
                /\ Cardinality(BusyOf(g, Cache)') = Cardinality(BusyOf(g, Cache)) - 1
                /\ Cardinality(BusyOf(g, Cache)) = 1 <=> BusyOf(g, Cache)' = {}
    BY <1>1, <1>2, TakesAll
  <1>6. CacheAt(s) = "up" /\ GroupAt(g, Cache, "up")
    <2>1. CacheAt(s) \in Ways /\ GroupAt(g, Cache, CacheAt(s))
      BY DEF GPUAt, CacheAt, Ways
    <2>2. CacheAt(s) # "stops"
      BY <1>3, StopStages DEF CacheAt
    <2> QED BY <1>4, <1>5, <2>1, <2>2 DEF Ways
  <1>7. Flushing(g)
    BY <1>5, <1>6 DEF Flushing
  <1>8. CUAt(s) \in Ways /\ ATAt(s) \in Ways /\ TLBAt(s) \in Ways
    BY DEF CUAt, ATAt, TLBAt, Ways
  <1>9. GroupAt(g, CU, CUAt(s)) /\ GroupAt(g, AT, ATAt(s)) /\ GroupAt(g, TLB, TLBAt(s)) /\ CountAt(g, s)
    BY DEF GPUAt
  <1>10. BusyOf(g, CU)' = BusyOf(g, CU) /\ GroupAt(g, CU, CUAt(s))'
    <2>1. CU \in Groups /\ CU # Cache /\ CU # {}
      BY GroupsApart DEF Groups
    <2> QED BY <1>1, <1>2, <1>8, <1>9, <2>1, TakesRest
  <1>11. BusyOf(g, AT)' = BusyOf(g, AT) /\ GroupAt(g, AT, ATAt(s))'
    <2>1. AT \in Groups /\ AT # Cache /\ AT # {}
      BY GroupsApart DEF Groups
    <2> QED BY <1>1, <1>2, <1>8, <1>9, <2>1, TakesRest
  <1>12. BusyOf(g, TLB)' = BusyOf(g, TLB) /\ GroupAt(g, TLB, TLBAt(s))'
    <2>1. TLB \in Groups /\ TLB # Cache /\ TLB # {}
      BY GroupsApart DEF Groups
    <2> QED BY <1>1, <1>2, <1>8, <1>9, <2>1, TakesRest
  <1>13. cp[g] \in CPState
    BY DEF CPTypeOK
  <1>14. /\ cp'[g].numCUAck = cp[g].numCUAck
         /\ cp'[g].numAddrTranslationFlushAck = cp[g].numAddrTranslationFlushAck
         /\ cp'[g].numAddrTranslationRestartAck = cp[g].numAddrTranslationRestartAck
         /\ cp'[g].numCacheACK = cp[g].numCacheACK - 1
         /\ cp'[g].numTLBAck = cp[g].numTLBAck
         /\ cp'[g].shootDownInProcess = cp[g].shootDownInProcess
    BY <1>1, <1>13 DEF CPState
  <1>15. CountAt(g, s)'
    BY <1>5, <1>6, <1>9, <1>10, <1>11, <1>12, <1>14 DEF CountAt
  <1>16. GPUAt(g, s)'
    BY <1>3, <1>5, <1>6, <1>10, <1>11, <1>12, <1>14, <1>15 DEF GPUAt
  <1>17. last <=> ~Flushing(g)'
    BY <1>5, <1>6, <1>9, NotFlushing DEF CountAt
  <1>18. \A h \in GPU : h # g => GPUKept(h)
    BY <1>1, <1>2, TakesAll
  <1> QED BY <1>1, <1>3, <1>7, <1>16, <1>17, <1>18

(* The command processor of GPU g asks the parts of Y for something. *)
Sends(g, Y, k) ==
    /\ SendTo(g, Y, k)
    /\ fromPart' = fromPart
    /\ paused' = paused
    /\ \A h \in GPU : h # g => cp'[h] = cp[h]

(* A command sent to a group reaches each of its parts, and no other part. *)
LEMMA SendsAll ==
    ASSUME CPTypeOK, CPTypeOK', NEW g \in GPU, NEW Y \in Groups, NEW k, Sends(g, Y, k)
    PROVE  /\ \A h \in GPU : h # g => GPUKept(h)
           /\ \A W \in Groups \ {Y} : \A q \in W : PartKept(g, q)
           /\ \A q \in Y : /\ toPart'[g][q] = Append(toPart[g][q], k)
                           /\ fromPart'[g][q] = fromPart[g][q]
                           /\ q \in paused'[g] <=> q \in paused[g]
  <1>1. Y \subseteq Part /\ Y # {}
    BY GroupsApart
  <1>2. \A h \in GPU, q \in Part :
          toPart'[h][q] = IF h = g /\ q \in Y THEN Append(toPart[h][q], k) ELSE toPart[h][q]
    BY <1>1, SentTo DEF Sends
  <1>3. \A h \in GPU : h # g => GPUKept(h)
    BY <1>2 DEF GPUKept, CPTypeOK, Sends
  <1>4. \A Z \in Groups \ {Y} : \A q \in Z : q \in Part \ Y
    BY GroupsApart
  <1>5. \A Z \in Groups \ {Y} : \A q \in Z : PartKept(g, q)
    BY <1>2, <1>4 DEF PartKept, Sends
  <1> QED BY <1>1, <1>2, <1>3, <1>5 DEF Sends

(* A command sent to a group leaves the other groups alone. *)
LEMMA SendsRest ==
    ASSUME CPTypeOK, CPTypeOK', NEW g \in GPU, NEW Y \in Groups, NEW k, Sends(g, Y, k),
           NEW Z \in Groups, Z # Y, NEW way \in Ways, GroupAt(g, Z, way)
    PROVE  BusyOf(g, Z)' = BusyOf(g, Z) /\ GroupAt(g, Z, way)'
  <1>1. \A W \in Groups \ {Y} : \A q \in W : PartKept(g, q)
    BY SendsAll
  <1>2. \A q \in Z : PartKept(g, q)
    BY <1>1
  <1> QED BY <1>2, KeptGroup

(* A command sent to an idle group makes all of it busy with that command. *)
LEMMA SendsTo ==
    ASSUME CPTypeOK, CPTypeOK', NEW g \in GPU, NEW Y \in Groups, NEW k, Sends(g, Y, k),
           BusyOf(g, Y) = {}
    PROVE  /\ BusyOf(g, Y)' = Y
           /\ GroupAt(g, Y, "up") /\ (\A p \in Y : Stop(p) = k) => GroupAt(g, Y, "stops")'
           /\ GroupAt(g, Y, "up") /\ Y = Cache /\ k = "flush" => GroupAt(g, Y, "up")' /\ Flushing(g)'
           /\ GroupAt(g, Y, "down") /\ k = "restart" => GroupAt(g, Y, "starts")'
  <1>1. \A q \in Y : /\ toPart'[g][q] = Append(toPart[g][q], k)
                     /\ fromPart'[g][q] = fromPart[g][q]
                     /\ q \in paused'[g] <=> q \in paused[g]
    BY SendsAll
  <1>2. Y # {}
    BY GroupsApart
  <1> QED BY <1>1, <1>2, GroupSent

(* A shootdown begins with the compute units. *)
LEMMA ShootdownBegins ==
    ASSUME CPTypeOK, CPTypeOK', NEW g \in GPU, GPUAt(g, "running"), ~Flushing(g), ProcessShootdownCommand(g)
    PROVE  /\ GPUAt(g, "stopCU")' /\ ~Flushing(g)'
           /\ \A h \in GPU : h # g => GPUKept(h)
  <1>1. cp'[g] = [cp[g] EXCEPT !.shootDownInProcess = TRUE, !.currShootdownRequest = Head(toDriver[g]).pages, !.numCUAck = @ + Cardinality(CU)] /\ Sends(g, CU, "flush")
    BY FieldsSet DEF ProcessShootdownCommand, Sends, gpuVars
  <1>2. CU \in Groups
    BY DEF Groups
  <1>3. /\ CUAt("running") = "up" /\ ATAt("running") = "up" /\ CacheAt("running") = "up" /\ TLBAt("running") = "up"
        /\ CUAt("stopCU") = "stops" /\ ATAt("stopCU") = "up" /\ CacheAt("stopCU") = "up" /\ TLBAt("stopCU") = "up"
    BY DEF CUAt, ATAt, CacheAt, TLBAt
  <1>4. /\ GroupAt(g, CU, "up") /\ GroupAt(g, AT, "up") /\ GroupAt(g, Cache, "up") /\ GroupAt(g, TLB, "up") /\ CountAt(g, "running")
        /\ cp[g].shootDownInProcess = FALSE
    BY <1>3, StopStages DEF GPUAt
  <1>5. cp[g] \in CPState /\ Cardinality(CU) \in Nat /\ BusyOf(g, CU) = {} /\ BusyOf(g, AT) = {} /\ BusyOf(g, Cache) = {} /\ BusyOf(g, TLB) = {}
    <2>1. "running" \in Stage
      BY DEF Stage, Stops, Starts
    <2> QED BY <1>2, <1>4, <2>1, CountsAt, GroupsApart DEF CPTypeOK
  <1>6. BusyOf(g, AT)' = {} /\ GroupAt(g, AT, "up")'
    <2>1. AT \in Groups /\ AT # CU /\ "up" \in Ways
      BY GroupsApart DEF Groups, Ways
    <2> QED BY <1>1, <1>2, <1>4, <1>5, <2>1, SendsRest
  <1>7. BusyOf(g, Cache)' = {} /\ GroupAt(g, Cache, "up")'
    <2>1. Cache \in Groups /\ Cache # CU /\ "up" \in Ways
      BY GroupsApart DEF Groups, Ways
    <2> QED BY <1>1, <1>2, <1>4, <1>5, <2>1, SendsRest
  <1>8. BusyOf(g, TLB)' = {} /\ GroupAt(g, TLB, "up")'
    <2>1. TLB \in Groups /\ TLB # CU /\ "up" \in Ways
      BY GroupsApart DEF Groups, Ways
    <2> QED BY <1>1, <1>2, <1>4, <1>5, <2>1, SendsRest
  <1>9. BusyOf(g, CU)' = CU /\ GroupAt(g, CU, "stops")'
    <2>1. \A q \in CU : Stop(q) = "flush"
      BY PartsApart DEF Stop
    <2> QED BY <1>1, <1>2, <1>4, <1>5, <2>1, SendsTo
  <1>10. /\ CountAt(g, "stopCU")'
        /\ cp'[g].shootDownInProcess = TRUE
    <2>1. Cardinality({}) = 0
      BY FS_EmptySet
    <2> QED BY <1>1, <1>4, <1>5, <2>1, <1>6, <1>7, <1>8, <1>9 DEF CountAt, CPState
  <1>11. ~Flushing(g)'
    BY <1>6, <1>7, <1>8, <1>9, NotFlushing
  <1>12. \A h \in GPU : h # g => GPUKept(h)
    BY <1>1, <1>2, SendsAll
  <1> QED BY <1>3, <1>10, <1>11, <1>12, <1>6, <1>7, <1>8, <1>9, StopStages DEF GPUAt

(* A restart begins with the caches. *)
LEMMA RestartBegins ==
    ASSUME CPTypeOK, CPTypeOK', NEW g \in GPU, GPUAt(g, "stopped"), ~Flushing(g), ProcessGPURestartReq(g)
    PROVE  /\ GPUAt(g, "startCache")' /\ ~Flushing(g)'
           /\ \A h \in GPU : h # g => GPUKept(h)
  <1>1. cp'[g] = [cp[g] EXCEPT !.numCacheACK = @ + Cardinality(Cache)] /\ Sends(g, Cache, "restart")
    BY FieldsSet DEF ProcessGPURestartReq, Sends, gpuVars
  <1>2. Cache \in Groups
    BY DEF Groups
  <1>3. /\ CUAt("stopped") = "down" /\ ATAt("stopped") = "down" /\ CacheAt("stopped") = "down" /\ TLBAt("stopped") = "down"
        /\ CUAt("startCache") = "down" /\ ATAt("startCache") = "down" /\ CacheAt("startCache") = "starts" /\ TLBAt("startCache") = "down"
    BY DEF CUAt, ATAt, CacheAt, TLBAt
  <1>4. /\ GroupAt(g, CU, "down") /\ GroupAt(g, AT, "down") /\ GroupAt(g, Cache, "down") /\ GroupAt(g, TLB, "down") /\ CountAt(g, "stopped")
        /\ cp[g].shootDownInProcess = FALSE
    BY <1>3, StopStages DEF GPUAt
  <1>5. cp[g] \in CPState /\ Cardinality(Cache) \in Nat /\ BusyOf(g, CU) = {} /\ BusyOf(g, AT) = {} /\ BusyOf(g, Cache) = {} /\ BusyOf(g, TLB) = {}
    <2>1. "stopped" \in Stage
      BY DEF Stage, Stops, Starts
    <2> QED BY <1>2, <1>4, <2>1, CountsAt, GroupsApart DEF CPTypeOK
  <1>6. BusyOf(g, CU)' = {} /\ GroupAt(g, CU, "down")'
    <2>1. CU \in Groups /\ CU # Cache /\ "down" \in Ways
      BY GroupsApart DEF Groups, Ways
    <2> QED BY <1>1, <1>2, <1>4, <1>5, <2>1, SendsRest
  <1>7. BusyOf(g, AT)' = {} /\ GroupAt(g, AT, "down")'
    <2>1. AT \in Groups /\ AT # Cache /\ "down" \in Ways
      BY GroupsApart DEF Groups, Ways
    <2> QED BY <1>1, <1>2, <1>4, <1>5, <2>1, SendsRest
  <1>8. BusyOf(g, TLB)' = {} /\ GroupAt(g, TLB, "down")'
    <2>1. TLB \in Groups /\ TLB # Cache /\ "down" \in Ways
      BY GroupsApart DEF Groups, Ways
    <2> QED BY <1>1, <1>2, <1>4, <1>5, <2>1, SendsRest
  <1>9. BusyOf(g, Cache)' = Cache /\ GroupAt(g, Cache, "starts")'
    BY <1>1, <1>2, <1>4, <1>5, SendsTo
  <1>10. /\ CountAt(g, "startCache")'
        /\ cp'[g].shootDownInProcess = FALSE
    <2>1. Cardinality({}) = 0
      BY FS_EmptySet
    <2> QED BY <1>1, <1>4, <1>5, <2>1, <1>6, <1>7, <1>8, <1>9 DEF CountAt, CPState
  <1>11. ~Flushing(g)'
    BY <1>6, <1>7, <1>8, <1>9, NotFlushing
  <1>12. \A h \in GPU : h # g => GPUKept(h)
    BY <1>1, <1>2, SendsAll
  <1> QED BY <1>3, <1>10, <1>11, <1>12, <1>6, <1>7, <1>8, <1>9, StopStages DEF GPUAt

(* A flush of the caches begins while they serve the GPU.                  *)
LEMMA FlushBegins ==
    ASSUME CPTypeOK, CPTypeOK', NEW g \in GPU, NEW s \in {"running", "startTLB", "startAT", "startCU"},
           GPUAt(g, s), ProcessFlushCommand(g)
    PROVE  /\ GPUAt(g, s)' /\ ~Flushing(g) /\ Flushing(g)'
           /\ \A h \in GPU : h # g => GPUKept(h)
  <1>1. /\ cp'[g] = [cp[g] EXCEPT !.numCacheACK = Cardinality(Cache)] /\ Sends(g, Cache, "flush")
        /\ cp[g].numCacheACK = 0
    BY FieldsSet DEF ProcessFlushCommand, Sends, gpuVars
  <1>2. Cache \in Groups
    BY DEF Groups
  <1>3. /\ CacheAt(s) = "up" /\ CUAt(s) \in Ways /\ ATAt(s) \in Ways /\ TLBAt(s) \in Ways
        /\ (s \in Stops) = FALSE
    BY DEF CUAt, ATAt, CacheAt, TLBAt, Ways, Stops
  <1>4. GroupAt(g, Cache, "up") /\ GroupAt(g, CU, CUAt(s)) /\ GroupAt(g, AT, ATAt(s)) /\ GroupAt(g, TLB, TLBAt(s))
        /\ CountAt(g, s) /\ cp[g].shootDownInProcess = FALSE
    BY <1>3 DEF GPUAt
  <1>5. cp[g] \in CPState /\ Cardinality(Cache) \in Nat /\ BusyOf(g, Cache) = {} /\ ~Flushing(g)
    <2>1. s \in Stage
      BY DEF Stage, Stops, Starts
    <2>2. BusyOf(g, Cache) = {}
      BY <1>1, <1>2, <1>4, <2>1, CountsAt DEF CountAt
    <2> QED BY <1>2, <1>4, <2>2, NotFlushing, GroupsApart DEF CPTypeOK
  <1>6. BusyOf(g, CU)' = BusyOf(g, CU) /\ GroupAt(g, CU, CUAt(s))'
    <2>1. CU \in Groups /\ CU # Cache
      BY GroupsApart DEF Groups
    <2> QED BY <1>1, <1>2, <1>3, <1>4, <2>1, SendsRest
  <1>7. BusyOf(g, AT)' = BusyOf(g, AT) /\ GroupAt(g, AT, ATAt(s))'
    <2>1. AT \in Groups /\ AT # Cache
      BY GroupsApart DEF Groups
    <2> QED BY <1>1, <1>2, <1>3, <1>4, <2>1, SendsRest
  <1>8. BusyOf(g, TLB)' = BusyOf(g, TLB) /\ GroupAt(g, TLB, TLBAt(s))'
    <2>1. TLB \in Groups /\ TLB # Cache
      BY GroupsApart DEF Groups
    <2> QED BY <1>1, <1>2, <1>3, <1>4, <2>1, SendsRest
  <1>9. BusyOf(g, Cache)' = Cache /\ GroupAt(g, Cache, "up")' /\ Flushing(g)'
    BY <1>1, <1>2, <1>4, <1>5, SendsTo
  <1>10. CountAt(g, s)' /\ cp'[g].shootDownInProcess = FALSE
    BY <1>1, <1>4, <1>5, <1>6, <1>7, <1>8, <1>9 DEF CountAt, CPState
  <1>11. \A h \in GPU : h # g => GPUKept(h)
    BY <1>1, <1>2, SendsAll
  <1> QED BY <1>3, <1>5, <1>6, <1>7, <1>8, <1>9, <1>10, <1>11 DEF GPUAt

(* No group of GPU g changes, nor a counter of its command processor.     *)
GroupsKept(g) ==
    /\ \A X \in Groups : \A p \in X : PartKept(g, p)
    /\ cp'[g] = cp[g]

(* A GPU whose groups stay the same stays in its stage. *)
LEMMA KeptGroups ==
    ASSUME NEW g, GroupsKept(g)
    PROVE  /\ \A s \in Stage : GPUAt(g, s) => GPUAt(g, s)'
           /\ StageOf(g)' = StageOf(g)
           /\ Flushing(g)' = Flushing(g)
  <1>1. ASSUME NEW X \in Groups, NEW way \in Ways
        PROVE  GroupAt(g, X, way)' = GroupAt(g, X, way) /\ BusyOf(g, X)' = BusyOf(g, X)
    <2>1. \A p \in X : PartKept(g, p)
      BY DEF GroupsKept
    <2> QED BY <2>1, KeptGroup
  <1>2. CU \in Groups /\ AT \in Groups /\ Cache \in Groups /\ TLB \in Groups /\ "up" \in Ways
    BY DEF Groups, Ways
  <1>3. Flushing(g)' = Flushing(g)
    <2>1. \A p \in Cache : PartKept(g, p)
      BY <1>2 DEF GroupsKept
    <2> QED BY <2>1, FlushingKept
  <1>4. (CU \subseteq paused'[g]) = (CU \subseteq paused[g])
    <2>1. \A p \in CU : p \in paused'[g] <=> p \in paused[g]
      BY <1>2 DEF GroupsKept, PartKept
    <2> QED BY <2>1
  <1>5. StageOf(g)' = StageOf(g)
    BY <1>4 DEF StageOf, GroupsKept
  <1>6. ASSUME NEW s \in Stage, GPUAt(g, s) PROVE GPUAt(g, s)'
    <2>1. CUAt(s) \in Ways /\ ATAt(s) \in Ways /\ CacheAt(s) \in Ways /\ TLBAt(s) \in Ways
      BY DEF CUAt, ATAt, CacheAt, TLBAt, Ways
    <2>2. BusyOf(g, CU)' = BusyOf(g, CU) /\ BusyOf(g, AT)' = BusyOf(g, AT)
          /\ BusyOf(g, Cache)' = BusyOf(g, Cache) /\ BusyOf(g, TLB)' = BusyOf(g, TLB)
      BY <1>1, <1>2
    <2>3. CountAt(g, s)'
      BY <1>6, <2>2 DEF GPUAt, CountAt, GroupsKept
    <2>4. GroupAt(g, CU, CUAt(s))'
      BY <1>1, <1>2, <1>6, <2>1 DEF GPUAt
    <2>5. GroupAt(g, AT, ATAt(s))'
      BY <1>1, <1>2, <1>6, <2>1 DEF GPUAt
    <2>6. GroupAt(g, Cache, CacheAt(s))'
      BY <1>1, <1>2, <1>6, <2>1 DEF GPUAt
    <2>7. GroupAt(g, TLB, TLBAt(s))'
      BY <1>1, <1>2, <1>6, <2>1 DEF GPUAt
    <2>8. cp'[g].shootDownInProcess = cp[g].shootDownInProcess
      BY DEF GroupsKept
    <2> QED BY <1>3, <1>6, <2>3, <2>4, <2>5, <2>6, <2>7, <2>8 DEF GPUAt
  <1> QED BY <1>3, <1>5, <1>6

(* Part p of GPU g answers the request at its head: it stops, unless it is *)
(* asked to go on or, a cache, to flush only.                              *)
Handles(g, p) ==
    /\ toPart[g][p] # <<>>
    /\ Answers(g, p)
    /\ cp' = cp
    /\ \A h \in GPU : h # g => paused'[h] = paused[h]
    /\ \A q \in Part : q # p => (q \in paused'[g] <=> q \in paused[g])
    /\ Head(toPart[g][p]) = "restart" => p \notin paused'[g]
    /\ Head(toPart[g][p]) = Stop(p) => p \in paused'[g]
    /\ p \in Cache /\ Head(toPart[g][p]) = "flush" => (p \in paused'[g] <=> p \in paused[g])

(* A part that handles its command keeps the stage of the GPU. *)
LEMMA HandlesAll ==
    ASSUME CPTypeOK, CPTypeOK', NEW g \in GPU, NEW X \in Groups, NEW p \in X, Handles(g, p),
           NEW s \in Stage, GPUAt(g, s)
    PROVE  /\ GPUAt(g, s)' /\ Flushing(g)' = Flushing(g)
           /\ \A h \in GPU : h # g => GPUKept(h)
           /\ \/ GroupAt(g, X, "up") /\ p \in Cache /\ Asked(g, p, "flush")
              \/ GroupAt(g, X, "stops") /\ Asked(g, p, Stop(p)) /\ p \notin paused[g]
              \/ GroupAt(g, X, "starts") /\ Asked(g, p, "restart") /\ p \in paused[g]
  <1>1. X \subseteq Part
    BY GroupsApart
  <1>2. \A h \in GPU, q \in Part :
          /\ toPart'[h][q] = IF h = g /\ q = p THEN Tail(toPart[h][q]) ELSE toPart[h][q]
          /\ fromPart'[h][q] = IF h = g /\ q = p THEN Append(fromPart[h][q], Head(toPart[h][q]))
                                                  ELSE fromPart[h][q]
    BY <1>1, AnsweredBy DEF Handles
  <1>3. \A h \in GPU : h # g => GPUKept(h)
    BY <1>2 DEF GPUKept, CPTypeOK, Handles
  <1>4. ASSUME NEW Z \in Groups, Z # X, NEW way \in Ways, GroupAt(g, Z, way)
        PROVE  BusyOf(g, Z)' = BusyOf(g, Z) /\ GroupAt(g, Z, way)'
    <2>1. \A q \in Z : q \in Part /\ q # p
      BY <1>4, GroupsApart
    <2>2. \A q \in Z : PartKept(g, q)
      BY <1>2, <2>1 DEF PartKept, Handles
    <2> QED BY <1>4, <2>2, KeptGroup
  <1>5. /\ p \in BusyOf(g, X)
        /\ ~GroupAt(g, X, "down")
        /\ GroupAt(g, X, "up") =>
             /\ p \in Cache /\ Asked(g, p, "flush") /\ p \notin paused[g]
             /\ p \notin paused'[g] => BusyOf(g, X)' = BusyOf(g, X) /\ GroupAt(g, X, "up")'
        /\ GroupAt(g, X, "stops") =>
             /\ Asked(g, p, Stop(p)) /\ p \notin paused[g]
             /\ p \in paused'[g] => BusyOf(g, X)' = BusyOf(g, X) /\ GroupAt(g, X, "stops")'
        /\ GroupAt(g, X, "starts") =>
             /\ Asked(g, p, "restart") /\ p \in paused[g]
             /\ p \notin paused'[g] => BusyOf(g, X)' = BusyOf(g, X) /\ GroupAt(g, X, "starts")'
    <2>1. \A q \in X : /\ toPart'[g][q] = IF q = p THEN Tail(toPart[g][q]) ELSE toPart[g][q]
                       /\ fromPart'[g][q] = IF q = p THEN Append(fromPart[g][q], Head(toPart[g][q]))
                                                      ELSE fromPart[g][q]
                       /\ q # p => (q \in paused'[g] <=> q \in paused[g])
      BY <1>1, <1>2 DEF Handles
    <2>2. toPart[g][p] # <<>>
      BY DEF Handles
    <2> QED BY <2>1, <2>2, GroupAnswered
  <1>6. ASSUME NEW k, Asked(g, p, k) PROVE Head(toPart[g][p]) = k
    BY <1>6, OneInQueue DEF Asked
  <1>7. /\ GroupAt(g, X, "up") => BusyOf(g, X)' = BusyOf(g, X) /\ GroupAt(g, X, "up")'
        /\ GroupAt(g, X, "stops") => BusyOf(g, X)' = BusyOf(g, X) /\ GroupAt(g, X, "stops")'
        /\ GroupAt(g, X, "starts") => BusyOf(g, X)' = BusyOf(g, X) /\ GroupAt(g, X, "starts")'
    BY <1>5, <1>6 DEF Handles
  <1>8. ASSUME NEW Z \in Groups, NEW way \in Ways, GroupAt(g, Z, way)
        PROVE  BusyOf(g, Z)' = BusyOf(g, Z) /\ GroupAt(g, Z, way)'
    <2>1. CASE Z = X
      BY <1>5, <1>7, <1>8, <2>1 DEF Ways
    <2>2. CASE Z # X
      BY <1>4, <1>8, <2>2
    <2> QED BY <2>1, <2>2
  <1>9. CU \in Groups /\ AT \in Groups /\ Cache \in Groups /\ TLB \in Groups
    BY DEF Groups
  <1>10. CUAt(s) \in Ways /\ ATAt(s) \in Ways /\ CacheAt(s) \in Ways /\ TLBAt(s) \in Ways
    BY DEF CUAt, ATAt, CacheAt, TLBAt, Ways
  <1>11. /\ GroupAt(g, CU, CUAt(s)) /\ GroupAt(g, AT, ATAt(s)) /\ GroupAt(g, Cache, CacheAt(s))
         /\ GroupAt(g, TLB, TLBAt(s)) /\ CountAt(g, s) /\ cp[g].shootDownInProcess = (s \in Stops)
         /\ s \in Stops => ~Flushing(g)
    BY DEF GPUAt
  <1>12. BusyOf(g, CU)' = BusyOf(g, CU) /\ GroupAt(g, CU, CUAt(s))'
    BY <1>8, <1>9, <1>10, <1>11
  <1>13. BusyOf(g, AT)' = BusyOf(g, AT) /\ GroupAt(g, AT, ATAt(s))'
    BY <1>8, <1>9, <1>10, <1>11
  <1>14. BusyOf(g, Cache)' = BusyOf(g, Cache) /\ GroupAt(g, Cache, CacheAt(s))'
    BY <1>8, <1>9, <1>10, <1>11
  <1>15. BusyOf(g, TLB)' = BusyOf(g, TLB) /\ GroupAt(g, TLB, TLBAt(s))'
    BY <1>8, <1>9, <1>10, <1>11
  <1>16. Flushing(g)' = Flushing(g)
    <2>1. Flushing(g) <=> CacheAt(s) = "up" /\ BusyOf(g, Cache) # {}
      BY <1>10, <1>11, NotFlushing DEF Ways
    <2>2. Flushing(g)' <=> CacheAt(s) = "up" /\ BusyOf(g, Cache)' # {}
      BY <1>10, <1>14, NotFlushing DEF Ways
    <2>3. Flushing(g)' <=> Flushing(g)
      BY <1>14, <2>1, <2>2
    <2> QED BY <2>3 DEF Flushing
  <1>17. cp'[g] = cp[g]
    BY DEF Handles
  <1>18. CountAt(g, s)'
    BY <1>11, <1>12, <1>13, <1>14, <1>15, <1>17 DEF CountAt
  <1>19. GPUAt(g, s)'
    BY <1>11, <1>12, <1>13, <1>14, <1>15, <1>16, <1>17, <1>18 DEF GPUAt
  <1>20. GroupAt(g, X, "up") \/ GroupAt(g, X, "stops") \/ GroupAt(g, X, "starts")
    <2>1. \E way \in Ways : GroupAt(g, X, way)
      BY <1>10, <1>11 DEF Groups
    <2> QED BY <1>5, <2>1 DEF Ways
  <1> QED BY <1>3, <1>5, <1>16, <1>19, <1>20

(***************************************************************************)
(* The messages of a command: on their way to a command processor, worked  *)
(* on by the GPU, and on their way back.                                   *)
(***************************************************************************)
Kinds == {"launch", "flush", "copy", "drain", "rdmaRestart", "shootdown", "gpuRestart", "migrate"}

OfType(k) == { m \in Command : m.type = k }
CommandFor(k, g) == { m \in Command : m.type = k /\ m.gpu = g }

Before(k, g) == Number(driver.requestsToSend, CommandFor(k, g)) + Number(toDriver[g], OfType(k))
After(k, g)  == Number(uplink[g], {k})
InPart(g, p, k) == Number(toPart[g][p], {k}) + Number(fromPart[g][p], {k})

Halted(g) == StageOf(g) = "stopped"

Inside(k, g) ==
    CASE k = "launch" -> One(dispatching[g])
      [] k = "flush" -> One(Flushing(g))
      [] k = "copy" -> InPart(g, "dma", "copy")
      [] k = "drain" -> InPart(g, "rdma", "flush")
      [] k = "rdmaRestart" -> InPart(g, "rdma", "restart")
      [] k = "shootdown" -> One(StageOf(g) \in Stops)
      [] k = "gpuRestart" -> One(StageOf(g) \in Starts)
      [] k = "migrate" -> Len(toPMCSender[g]) + Len(ctrlPort[g]) + One(isHandlingPageMigration[g])
                            + Len(fromPart[g]["pmc"])

Under(k, g) == Before(k, g) + Inside(k, g) + After(k, g)

(* The types the messages have, whatever the page migration controllers hold. *)
Typed ==
    /\ CPTypeOK
    /\ queue \in Seq(QueueCommand) /\ isRunning \in BOOLEAN /\ reqs \subseteq GPU
    /\ driver \in DriverState
    /\ toMMU \in Seq(PageMigrationReq)
    /\ pageTable \in [Page -> GPU] /\ frames \in [GPU -> [Page -> Nat]]
    /\ inflight \in [GPU -> Access \cup {NoAccess}]
    /\ rdmaOut \in [GPU -> Access \cup {NoAccess}]
    /\ mmuWaits \in PageMigrationReq \cup {NoReq}
    /\ value \in [PullID -> Data] /\ writes \in 0..MaxWrites /\ migrations \in 0..MaxMigrations
    /\ ctrlPort \in [GPU -> Seq(Migration)]
    /\ isHandlingPageMigration \in [GPU -> BOOLEAN]
    /\ toSendToCtrlPort \in [GPU -> BOOLEAN]
    /\ numDataRspPendingForPageMigration \in [GPU -> Int]

(* What of a command a GPU works on, command by command. *)
LEMMA InsideIs ==
    \A g : /\ Inside("launch", g) = One(dispatching[g])
           /\ Inside("flush", g) = One(Flushing(g))
           /\ Inside("copy", g) = InPart(g, "dma", "copy")
           /\ Inside("drain", g) = InPart(g, "rdma", "flush")
           /\ Inside("rdmaRestart", g) = InPart(g, "rdma", "restart")
           /\ Inside("shootdown", g) = One(StageOf(g) \in Stops)
           /\ Inside("gpuRestart", g) = One(StageOf(g) \in Starts)
           /\ Inside("migrate", g) = Len(toPMCSender[g]) + Len(ctrlPort[g]) + One(isHandlingPageMigration[g])
                                        + Len(fromPart[g]["pmc"])
  BY DEF Inside

(* What is inside a GPU, also after a step. *)
LEMMA InsideIsNext ==
   (\A g : /\ Inside("launch", g) = One(dispatching[g])
           /\ Inside("flush", g) = One(Flushing(g))
           /\ Inside("copy", g) = InPart(g, "dma", "copy")
           /\ Inside("drain", g) = InPart(g, "rdma", "flush")
           /\ Inside("rdmaRestart", g) = InPart(g, "rdma", "restart")
           /\ Inside("shootdown", g) = One(StageOf(g) \in Stops)
           /\ Inside("gpuRestart", g) = One(StageOf(g) \in Starts)
           /\ Inside("migrate", g) = Len(toPMCSender[g]) + Len(ctrlPort[g]) + One(isHandlingPageMigration[g])
                                        + Len(fromPart[g]["pmc"]))'
  BY InsideIs, PTL

(* The counts of a command before, inside and after a GPU are natural numbers. *)
LEMMA CountsTyped ==
    \A k \in Kinds, g \in GPU :
        Typed => Before(k, g) \in Nat /\ Inside(k, g) \in Nat /\ After(k, g) \in Nat
  <1> SUFFICES ASSUME NEW k \in Kinds, NEW g \in GPU, Typed
               PROVE  Before(k, g) \in Nat /\ Inside(k, g) \in Nat /\ After(k, g) \in Nat
    OBVIOUS
  <1>1. /\ driver.requestsToSend \in Seq(Command) /\ toDriver[g] \in Seq(Command)
        /\ uplink[g] \in Seq(Answer) /\ ctrlPort[g] \in Seq(Migration) /\ toPMCSender[g] \in Seq(Migration)
    BY DEF Typed, CPTypeOK, DriverState
  <1>2. \A p \in Part : toPart[g][p] \in Seq(Control) /\ fromPart[g][p] \in Seq(Control)
    BY DEF Typed, CPTypeOK
  <1>3. Before(k, g) \in Nat /\ After(k, g) \in Nat
    BY <1>1, NumberIn DEF Before, After
  <1>4. \A p \in Part : \A l : InPart(g, p, l) \in Nat
    BY <1>2, NumberIn DEF InPart
  <1>5. InPart(g, "dma", "copy") \in Nat /\ InPart(g, "rdma", "flush") \in Nat /\ InPart(g, "rdma", "restart") \in Nat
    BY <1>4, PartsApart
  <1>6. \A b : One(b) \in Nat
    BY DEF One
  <1>7. Len(toPMCSender[g]) \in Nat /\ Len(ctrlPort[g]) \in Nat /\ Len(fromPart[g]["pmc"]) \in Nat
    BY <1>1, <1>2, PartsApart, LenProperties
  <1>8. Inside("migrate", g) \in Nat
    <2>1. One(isHandlingPageMigration[g]) \in Nat
      BY <1>6
    <2>2. Inside("migrate", g) = Len(toPMCSender[g]) + Len(ctrlPort[g]) + One(isHandlingPageMigration[g])
                                    + Len(fromPart[g]["pmc"])
      BY InsideIs
    <2>3. \A a, b, c, d \in Nat : a + b + c + d \in Nat
      OBVIOUS
    <2>4. Len(toPMCSender[g]) + Len(ctrlPort[g]) + One(isHandlingPageMigration[g]) + Len(fromPart[g]["pmc"]) \in Nat
      BY ONLY <1>7, <2>1, <2>3
    <2> QED BY <2>2, <2>4
  <1>9. Inside(k, g) \in Nat
    BY <1>5, <1>6, <1>8, InsideIs DEF Kinds
  <1> QED BY <1>3, <1>9

(* The same after a step. *)
LEMMA CountsTypedNext ==
    (\A k \in Kinds, g \in GPU :
        Typed => Before(k, g) \in Nat /\ Inside(k, g) \in Nat /\ After(k, g) \in Nat)'
  BY CountsTyped, PTL

-----------------------------------------------------------------------------
(* What the steps do to the numbers.                                       *)

LEMMA BeforeSame ==
    ASSUME driver'.requestsToSend = driver.requestsToSend, toDriver' = toDriver
    PROVE  \A k, g : Before(k, g)' = Before(k, g)
  BY DEF Before

(* A command processor takes a command. *)
LEMMA BeforeTaken ==
    ASSUME Typed, NEW g \in GPU, NEW t, FromDriver(g, t), RetrieveFromDriver(g),
           driver'.requestsToSend = driver.requestsToSend
    PROVE  /\ Before(t, g)' = Before(t, g) - 1
           /\ \A k \in Kinds, h \in GPU : k # t \/ h # g => Before(k, h)' = Before(k, h)
  <1>1. toDriver[g] \in Seq(Command) /\ toDriver[g] # <<>> /\ toDriver'[g] = Tail(toDriver[g])
        /\ \A h \in GPU : h # g => toDriver'[h] = toDriver[h]
    BY DEF Typed, CPTypeOK, FromDriver, RetrieveFromDriver
  <1>2. Head(toDriver[g]) \in Command /\ Head(toDriver[g]).type = t
    BY <1>1, TailAt DEF FromDriver
  <1>3. \A k : /\ Number(toDriver'[g], OfType(k)) \in Nat
               /\ Number(toDriver[g], OfType(k)) = Number(toDriver'[g], OfType(k)) + (IF k = t THEN 1 ELSE 0)
    <2>1. \A k : Head(toDriver[g]) \in OfType(k) <=> k = t
      BY <1>2 DEF OfType
    <2> QED BY <1>1, <2>1, NumberTail
  <1>4. \A k, h : Number(driver'.requestsToSend, CommandFor(k, h)) = Number(driver.requestsToSend, CommandFor(k, h))
    OBVIOUS
  <1>5. \A k, h : Before(k, h)' = Number(driver.requestsToSend, CommandFor(k, h)) + Number(toDriver'[h], OfType(k))
    BY <1>4 DEF Before
  <1>6. \A k \in Kinds, h \in GPU : k # t \/ h # g => Before(k, h)' = Before(k, h)
    BY <1>1, <1>3, <1>5 DEF Before
  <1>7. Before(t, g)' = Before(t, g) - 1
    <2>1. Number(driver.requestsToSend, CommandFor(t, g)) \in Nat
      BY NumberIn DEF Typed, DriverState
    <2> QED BY <2>1, <1>3, <1>5 DEF Before
  <1> QED BY <1>6, <1>7

(* Answers to the driver are counted from the uplink only. *)
LEMMA AfterSame ==
    ASSUME uplink' = uplink
    PROVE  \A k, g : After(k, g)' = After(k, g)
  BY DEF After

(* A GPU answers the driver. *)
LEMMA AfterSent ==
    ASSUME Typed, NEW g \in GPU, NEW t \in Answer, SendToDriver(g, t)
    PROVE  /\ After(t, g)' = After(t, g) + 1
           /\ \A k : \A h \in GPU : k # t \/ h # g => After(k, h)' = After(k, h)
  <1>1. uplink[g] \in Seq(Answer) /\ uplink'[g] = Append(uplink[g], t)
        /\ \A h \in GPU : h # g => uplink'[h] = uplink[h]
    BY DEF Typed, CPTypeOK, SendToDriver
  <1>2. \A k : Number(uplink'[g], {k}) = Number(uplink[g], {k}) + (IF t \in {k} THEN 1 ELSE 0)
               /\ Number(uplink[g], {k}) \in Nat
    BY <1>1, NumberAppend
  <1>5. ASSUME NEW k, k # t PROVE Number(uplink'[g], {k}) = Number(uplink[g], {k})
    <2>1. t \notin {k}
      BY <1>5
    <2> QED BY <1>1, <2>1, NumberAppends
  <1>3. After(t, g)' = After(t, g) + 1
    BY <1>2 DEF After
  <1>4. ASSUME NEW k, NEW h \in GPU, k # t \/ h # g PROVE After(k, h)' = After(k, h)
    <2>1. After(k, h) = Number(uplink[h], {k}) /\ After(k, h)' = Number(uplink'[h], {k})
      BY DEF After
    <2>2. CASE h # g
      <3>1. uplink'[h] = uplink[h]
        BY <1>1, <2>2
      <3> QED BY <2>1, <3>1
    <2>3. CASE h = g
      <3>1. k # t
        BY <1>4, <2>3
      <3>2. Number(uplink'[g], {k}) = Number(uplink[g], {k})
        BY <1>5, <3>1
      <3> QED BY <2>1, <2>3, <3>2
    <2> QED BY <2>2, <2>3
  <1> QED BY <1>3, <1>4

(* The driver takes an answer. *)
LEMMA AfterTaken ==
    ASSUME Typed, NEW g \in GPU, NEW t, uplink[g] # <<>>, Head(uplink[g]) = t,
           uplink' = [uplink EXCEPT ![g] = Tail(@)]
    PROVE  After(t, g)' = After(t, g) - 1 /\ After(t, g) \in Nat \ {0}
  <1>1. uplink[g] \in Seq(Answer) /\ uplink'[g] = Tail(uplink[g])
    BY DEF Typed, CPTypeOK
  <1>2. Number(uplink[g], {t}) = Number(uplink'[g], {t}) + (IF t \in {t} THEN 1 ELSE 0)
        /\ Number(uplink'[g], {t}) \in Nat
    BY <1>1, NumberTail
  <1>3. Number(uplink[g], {t}) = Number(uplink'[g], {t}) + 1 /\ Number(uplink'[g], {t}) \in Nat
    BY <1>2
  <1>4. After(t, g) = Number(uplink[g], {t}) /\ After(t, g)' = Number(uplink'[g], {t})
    BY DEF After
  <1> QED BY <1>3, <1>4

(* It takes one of no other kind, and none of another GPU.                 *)
LEMMA AfterLeft ==
    ASSUME Typed, NEW g \in GPU, uplink[g] # <<>>, uplink' = [uplink EXCEPT ![g] = Tail(@)],
           NEW k \in Kinds, NEW h \in GPU, k # Head(uplink[g]) \/ h # g
    PROVE  After(k, h)' = After(k, h)
  <1>1. uplink[g] \in Seq(Answer) /\ uplink'[g] = Tail(uplink[g])
        /\ \A i \in GPU : i # g => uplink'[i] = uplink[i]
    BY DEF Typed, CPTypeOK
  <1>2. After(k, h) = Number(uplink[h], {k}) /\ After(k, h)' = Number(uplink'[h], {k})
    BY DEF After
  <1>3. CASE h # g
    BY <1>1, <1>2, <1>3
  <1>4. CASE h = g
    <2>1. Head(uplink[g]) \notin {k}
      BY <1>4
    <2>2. Number(Tail(uplink[g]), {k}) = Number(uplink[g], {k})
      BY <1>1, <2>1, NumberTails
    <2> QED BY <1>1, <1>2, <1>4, <2>2
  <1> QED BY <1>3, <1>4

-----------------------------------------------------------------------------
(* The parts of a GPU outside its groups.                                  *)

Sides == {"rdma", "dma", "pmc"}

SidesKept(h) ==
    /\ \A p \in Sides : toPart'[h][p] = toPart[h][p] /\ fromPart'[h][p] = fromPart[h][p]
    /\ dispatching'[h] = dispatching[h] /\ toPMCSender'[h] = toPMCSender[h]
    /\ ctrlPort'[h] = ctrlPort[h] /\ isHandlingPageMigration'[h] = isHandlingPageMigration[h]

(* What is inside a GPU follows from its engines, its stage and its flush. *)
LEMMA SidesInside ==
    ASSUME NEW h, SidesKept(h)
    PROVE  /\ \A k \in {"launch", "copy", "drain", "rdmaRestart", "migrate"} : Inside(k, h)' = Inside(k, h)
           /\ Flushing(h)' = Flushing(h) => Inside("flush", h)' = Inside("flush", h)
           /\ StageOf(h)' = StageOf(h) => /\ Inside("shootdown", h)' = Inside("shootdown", h)
                                          /\ Inside("gpuRestart", h)' = Inside("gpuRestart", h)
                                          /\ Halted(h)' = Halted(h)
  <1>1. \A k : InPart(h, "dma", k)' = InPart(h, "dma", k) /\ InPart(h, "rdma", k)' = InPart(h, "rdma", k)
    BY DEF InPart, SidesKept, Sides
  <1>2. ASSUME NEW k \in {"launch", "copy", "drain", "rdmaRestart", "migrate"} PROVE Inside(k, h)' = Inside(k, h)
    <2>1. CASE k = "launch"
      BY <2>1, InsideIs, InsideIsNext DEF SidesKept
    <2>2. CASE k \in {"copy", "drain", "rdmaRestart"}
      BY <1>1, <2>2, InsideIs, InsideIsNext
    <2>3. CASE k = "migrate"
      <3>1. fromPart'[h]["pmc"] = fromPart[h]["pmc"]
        BY DEF SidesKept, Sides
      <3> QED BY <2>3, <3>1, InsideIs, InsideIsNext DEF SidesKept
    <2> QED BY <2>1, <2>2, <2>3
  <1>3. Flushing(h)' = Flushing(h) => Inside("flush", h)' = Inside("flush", h)
    BY InsideIs, InsideIsNext
  <1>4. StageOf(h)' = StageOf(h) => /\ Inside("shootdown", h)' = Inside("shootdown", h)
                                    /\ Inside("gpuRestart", h)' = Inside("gpuRestart", h)
                                    /\ Halted(h)' = Halted(h)
    BY InsideIs, InsideIsNext DEF Halted
  <1> QED BY <1>2, <1>3, <1>4

(* A command to a group does not reach the engines beside it. *)
LEMMA SideSent ==
    ASSUME CPTypeOK, NEW g \in GPU, NEW Y \in Groups, NEW k, SendTo(g, Y, k)
    PROVE  \A h \in GPU : \A p \in Sides : toPart'[h][p] = toPart[h][p]
  <1>1. Y \subseteq Part /\ Y \cap Sides = {} /\ Sides \subseteq Part
    BY GroupsApart, PartsApart DEF Groups, Sides
  <1> QED BY <1>1, SentTo

(* An answer taken from a group takes none from the engines beside it. *)
LEMMA SideTaken ==
    ASSUME CPTypeOK, NEW g \in GPU, NEW Y \in Groups, NEW p \in Y, Retrieve(g, p)
    PROVE  \A h \in GPU : \A q \in Sides : fromPart'[h][q] = fromPart[h][q]
  <1>1. Y \subseteq Part /\ Y \cap Sides = {} /\ Sides \subseteq Part
    BY GroupsApart, PartsApart DEF Groups, Sides
  <1> QED BY <1>1, TakenFrom

(* An answer of a part of a group is none of the engines beside it. *)
LEMMA SideAnswered ==
    ASSUME CPTypeOK, NEW g \in GPU, NEW Y \in Groups, NEW p \in Y, Answers(g, p)
    PROVE  \A h \in GPU : \A q \in Sides : toPart'[h][q] = toPart[h][q] /\ fromPart'[h][q] = fromPart[h][q]
  <1>1. Y \subseteq Part /\ Y \cap Sides = {} /\ Sides \subseteq Part
    BY GroupsApart, PartsApart DEF Groups, Sides
  <1> QED BY <1>1, AnsweredBy

(* What a step of GPU g does with the commands it works on: nothing; it    *)
(* takes one, of kind k, from the driver; it is done with one.             *)
Same(k, h) == Before(k, h)' = Before(k, h) /\ Inside(k, h)' = Inside(k, h) /\ After(k, h)' = After(k, h)

Still ==
    /\ \A k \in Kinds, h \in GPU : Same(k, h)
    /\ \A h \in GPU : Halted(h)' = Halted(h)

Begins(k, g) ==
    /\ Before(k, g)' = Before(k, g) - 1 /\ Inside(k, g)' = Inside(k, g) + 1 /\ After(k, g)' = After(k, g)
    /\ \A l \in Kinds, h \in GPU : l # k \/ h # g => Same(l, h)
    /\ \A h \in GPU : Halted(h)' = IF k = "gpuRestart" /\ h = g THEN FALSE ELSE Halted(h)
    /\ k = "gpuRestart" => Halted(g)

Ends(k, g) ==
    /\ Before(k, g)' = Before(k, g) /\ Inside(k, g)' = Inside(k, g) - 1 /\ After(k, g)' = After(k, g) + 1
    /\ \A l \in Kinds, h \in GPU : l # k \/ h # g => Same(l, h)
    /\ \A h \in GPU : Halted(h)' = IF k = "shootdown" /\ h = g THEN TRUE ELSE Halted(h)

(* A step that leaves every GPU but g alone, and takes g to stage r. *)
LEMMA Restaged ==
    ASSUME Typed, Typed', Staged, NEW g \in GPU, NEW s \in Stage, NEW r \in Stage, GPUAt(g, s), GPUAt(g, r)',
           \A h \in GPU : h # g => GPUKept(h), \A h \in GPU : SidesKept(h)
    PROVE  /\ Staged'
           /\ \A k \in Kinds, h \in GPU :
                 h # g \/ k \notin {"flush", "shootdown", "gpuRestart"} => Inside(k, h)' = Inside(k, h)
           /\ Inside("flush", g) = One(Flushing(g)) /\ Inside("flush", g)' = One(Flushing(g)')
           /\ Inside("shootdown", g) = One(s \in Stops) /\ Inside("shootdown", g)' = One(r \in Stops)
           /\ Inside("gpuRestart", g) = One(s \in Starts) /\ Inside("gpuRestart", g)' = One(r \in Starts)
           /\ \A h \in GPU : h # g => Halted(h)' = Halted(h)
           /\ Halted(g) = (s = "stopped") /\ Halted(g)' = (r = "stopped")
  <1>1. StageOf(g) = s /\ StageOf(g)' = r
    BY StageIs, StageIsNext DEF Typed
  <1>2. Staged'
    BY KeptGPU DEF Staged
  <1>3. ASSUME NEW k \in Kinds, NEW h \in GPU, h # g \/ k \notin {"flush", "shootdown", "gpuRestart"}
        PROVE  Inside(k, h)' = Inside(k, h)
    BY <1>3, SidesInside, KeptGPU DEF Kinds
  <1>4. \A h \in GPU : h # g => Halted(h)' = Halted(h)
    BY SidesInside, KeptGPU
  <1>5. /\ Inside("flush", g) = One(Flushing(g)) /\ Inside("flush", g)' = One(Flushing(g)')
        /\ Inside("shootdown", g) = One(StageOf(g) \in Stops)
        /\ Inside("shootdown", g)' = One(StageOf(g)' \in Stops)
        /\ Inside("gpuRestart", g) = One(StageOf(g) \in Starts)
        /\ Inside("gpuRestart", g)' = One(StageOf(g)' \in Starts)
    BY InsideIs, InsideIsNext
  <1>6. Halted(g) = (StageOf(g) = "stopped") /\ Halted(g)' = (StageOf(g)' = "stopped")
    BY DEF Halted
  <1> QED BY <1>1, <1>2, <1>3, <1>4, <1>5, <1>6

(* A step that leaves the groups of every GPU alone. *)
LEMMA Unstaged ==
    ASSUME Typed, Staged, \A h \in GPU : GroupsKept(h)
    PROVE  /\ Staged'
           /\ \A k \in {"flush", "shootdown", "gpuRestart"}, h \in GPU : Inside(k, h)' = Inside(k, h)
           /\ \A h \in GPU : Halted(h)' = Halted(h)
  <1>1. \A h \in GPU : Flushing(h)' = Flushing(h) /\ StageOf(h)' = StageOf(h)
    BY KeptGroups
  <1>2. Staged'
    BY KeptGroups DEF Staged
  <1>3. \A h \in GPU : Halted(h)' = Halted(h)
    BY <1>1 DEF Halted
  <1>4. ASSUME NEW k \in {"flush", "shootdown", "gpuRestart"}, NEW h \in GPU PROVE Inside(k, h)' = Inside(k, h)
    BY <1>1, InsideIs, InsideIsNext
  <1> QED BY <1>2, <1>3, <1>4

(* A step inside a GPU that neither takes nor answers a command of the driver. *)
LEMMA StillIs ==
    ASSUME driver'.requestsToSend = driver.requestsToSend, toDriver' = toDriver, uplink' = uplink,
           \A k \in Kinds, h \in GPU : Inside(k, h)' = Inside(k, h),
           \A h \in GPU : Halted(h)' = Halted(h)
    PROVE  Still
  BY BeforeSame, AfterSame DEF Still, Same

(* A step of a GPU that takes one command of the driver in. *)
LEMMA BeginsIs ==
    ASSUME Typed, NEW g \in GPU, NEW k \in Kinds, FromDriver(g, k), RetrieveFromDriver(g),
           driver'.requestsToSend = driver.requestsToSend, uplink' = uplink,
           Inside(k, g)' = Inside(k, g) + 1,
           \A l \in Kinds, h \in GPU : l # k \/ h # g => Inside(l, h)' = Inside(l, h),
           \A h \in GPU : Halted(h)' = IF k = "gpuRestart" /\ h = g THEN FALSE ELSE Halted(h),
           k = "gpuRestart" => Halted(g)
    PROVE  Begins(k, g)
  <1>1. Before(k, g)' = Before(k, g) - 1
    BY BeforeTaken
  <1>2. \A l \in Kinds, h \in GPU : l # k \/ h # g => Before(l, h)' = Before(l, h)
    BY BeforeTaken
  <1>3. \A l, h : After(l, h)' = After(l, h)
    BY AfterSame
  <1> QED BY <1>1, <1>2, <1>3 DEF Begins, Same

(* A step of a GPU that answers one command of the driver. *)
LEMMA EndsIs ==
    ASSUME Typed, NEW g \in GPU, NEW k \in Kinds, SendToDriver(g, k),
           driver'.requestsToSend = driver.requestsToSend, toDriver' = toDriver,
           Inside(k, g)' = Inside(k, g) - 1,
           \A l \in Kinds, h \in GPU : l # k \/ h # g => Inside(l, h)' = Inside(l, h),
           \A h \in GPU : Halted(h)' = IF k = "shootdown" /\ h = g THEN TRUE ELSE Halted(h)
    PROVE  Ends(k, g)
  <1>1. k \in Answer
    BY DEF Kinds, Answer
  <1>2. After(k, g)' = After(k, g) + 1 /\ \A l \in Kinds : \A h \in GPU : l # k \/ h # g => After(l, h)' = After(l, h)
    BY <1>1, AfterSent
  <1>3. \A l, h : Before(l, h)' = Before(l, h)
    BY BeforeSame
  <1> QED BY <1>2, <1>3 DEF Ends, Same

(* The queues of a side of GPU g.                                           *)
LEMMA SideAsked ==
    ASSUME CPTypeOK, NEW g \in GPU, NEW p \in Sides, NEW k \in Control, SendTo(g, {p}, k), fromPart' = fromPart
    PROVE  /\ \A h \in GPU, q \in Part : h # g \/ q # p => toPart'[h][q] = toPart[h][q]
           /\ toPart'[g][p] = Append(toPart[g][p], k)
           /\ InPart(g, p, k)' = InPart(g, p, k) + 1
           /\ \A l : l # k => InPart(g, p, l)' = InPart(g, p, l)
           /\ \A h \in GPU, q \in Sides : \A l : h # g \/ q # p => InPart(h, q, l)' = InPart(h, q, l)
  <1>1. {p} \subseteq Part /\ Sides \subseteq Part
    BY PartsApart DEF Sides
  <1>2. /\ \A h \in GPU, q \in Part : h # g \/ q # p => toPart'[h][q] = toPart[h][q]
        /\ toPart'[g][p] = Append(toPart[g][p], k)
    <2>1. \A h \in GPU, q \in Part :
            toPart'[h][q] = IF h = g /\ q \in {p} THEN Append(toPart[h][q], k) ELSE toPart[h][q]
      BY <1>1, SentTo
    <2> QED BY <1>1, <2>1
  <1>3. toPart[g][p] \in Seq(Control) /\ fromPart[g][p] \in Seq(Control)
    BY <1>1 DEF CPTypeOK
  <1>4. /\ Number(toPart'[g][p], {k}) = Number(toPart[g][p], {k}) + 1
        /\ Number(toPart[g][p], {k}) \in Nat /\ Number(fromPart[g][p], {k}) \in Nat
    BY <1>2, <1>3, NumberAppends, NumberIn
  <1>5. ASSUME NEW l, l # k PROVE Number(toPart'[g][p], {l}) = Number(toPart[g][p], {l})
    <2>1. k \notin {l}
      BY <1>5
    <2> QED BY <1>2, <1>3, <2>1, NumberAppends
  <1>6. InPart(g, p, k)' = InPart(g, p, k) + 1
    <2>1. InPart(g, p, k) = Number(toPart[g][p], {k}) + Number(fromPart[g][p], {k})
          /\ InPart(g, p, k)' = Number(toPart'[g][p], {k}) + Number(fromPart[g][p], {k})
      BY DEF InPart
    <2> QED BY <1>4, <2>1
  <1>7. \A l : l # k => InPart(g, p, l)' = InPart(g, p, l)
    BY <1>5 DEF InPart
  <1>8. ASSUME NEW h \in GPU, NEW q \in Sides, NEW l, h # g \/ q # p PROVE InPart(h, q, l)' = InPart(h, q, l)
    <2>1. toPart'[h][q] = toPart[h][q]
      BY <1>1, <1>2, <1>8
    <2> QED BY <2>1 DEF InPart
  <1> QED BY <1>2, <1>6, <1>7, <1>8

(* An engine beside the groups answers, and its command stays counted. *)
LEMMA SideAnswers ==
    ASSUME CPTypeOK, NEW g \in GPU, NEW p \in Sides, toPart[g][p] # <<>>, Answers(g, p)
    PROVE  /\ \A h \in GPU, q \in Part : h # g \/ q # p =>
                 toPart'[h][q] = toPart[h][q] /\ fromPart'[h][q] = fromPart[h][q]
           /\ toPart'[g][p] = Tail(toPart[g][p])
           /\ fromPart'[g][p] = Append(fromPart[g][p], Head(toPart[g][p]))
           /\ \A h \in GPU, q \in Sides : \A l : InPart(h, q, l)' = InPart(h, q, l)
  <1>1. p \in Part /\ Sides \subseteq Part
    BY PartsApart DEF Sides
  <1>2. /\ \A h \in GPU, q \in Part : h # g \/ q # p =>
              toPart'[h][q] = toPart[h][q] /\ fromPart'[h][q] = fromPart[h][q]
        /\ toPart'[g][p] = Tail(toPart[g][p])
        /\ fromPart'[g][p] = Append(fromPart[g][p], Head(toPart[g][p]))
    <2>1. \A h \in GPU, q \in Part :
            /\ toPart'[h][q] = IF h = g /\ q = p THEN Tail(toPart[h][q]) ELSE toPart[h][q]
            /\ fromPart'[h][q] = IF h = g /\ q = p THEN Append(fromPart[h][q], Head(toPart[h][q]))
                                                    ELSE fromPart[h][q]
      BY <1>1, AnsweredBy
    <2> QED BY <1>1, <2>1
  <1>3. toPart[g][p] \in Seq(Control) /\ fromPart[g][p] \in Seq(Control) /\ Head(toPart[g][p]) \in Control
    BY <1>1, TailAt DEF CPTypeOK
  <1>4. ASSUME NEW l PROVE InPart(g, p, l)' = InPart(g, p, l)
    <2>1. InPart(g, p, l) = Number(toPart[g][p], {l}) + Number(fromPart[g][p], {l})
          /\ InPart(g, p, l)' = Number(toPart'[g][p], {l}) + Number(fromPart'[g][p], {l})
      BY DEF InPart
    <2>2. Number(toPart[g][p], {l}) \in Nat /\ Number(fromPart[g][p], {l}) \in Nat
      BY <1>3, NumberIn
    <2>3. CASE Head(toPart[g][p]) \in {l}
      <3>1. Number(toPart'[g][p], {l}) = Number(toPart[g][p], {l}) - 1
        BY <1>2, <1>3, <2>3, NumberTails
      <3>2. Number(fromPart'[g][p], {l}) = Number(fromPart[g][p], {l}) + 1
        BY <1>2, <1>3, <2>3, NumberAppends
      <3> QED BY <2>1, <2>2, <3>1, <3>2
    <2>4. CASE Head(toPart[g][p]) \notin {l}
      <3>1. Number(toPart'[g][p], {l}) = Number(toPart[g][p], {l})
        BY <1>2, <1>3, <2>4, NumberTails
      <3>2. Number(fromPart'[g][p], {l}) = Number(fromPart[g][p], {l})
        BY <1>2, <1>3, <2>4, NumberAppends
      <3> QED BY <2>1, <3>1, <3>2
    <2> QED BY <2>3, <2>4
  <1>5. ASSUME NEW h \in GPU, NEW q \in Sides, NEW l, h # g \/ q # p PROVE InPart(h, q, l)' = InPart(h, q, l)
    <2>1. toPart'[h][q] = toPart[h][q] /\ fromPart'[h][q] = fromPart[h][q]
      BY <1>1, <1>2, <1>5
    <2> QED BY <2>1 DEF InPart
  <1> QED BY <1>2, <1>4, <1>5

(* The answer of an engine beside the groups is taken and counted no more. *)
LEMMA SideTakes ==
    ASSUME CPTypeOK, NEW g \in GPU, NEW p \in Sides, NEW k, From(g, p, k), Retrieve(g, p), toPart' = toPart
    PROVE  /\ \A h \in GPU, q \in Part : h # g \/ q # p => fromPart'[h][q] = fromPart[h][q]
           /\ fromPart'[g][p] = Tail(fromPart[g][p])
           /\ InPart(g, p, k)' = InPart(g, p, k) - 1
           /\ \A l : l # k => InPart(g, p, l)' = InPart(g, p, l)
           /\ \A h \in GPU, q \in Sides : \A l : h # g \/ q # p => InPart(h, q, l)' = InPart(h, q, l)
  <1>1. p \in Part /\ Sides \subseteq Part
    BY PartsApart DEF Sides
  <1>2. /\ \A h \in GPU, q \in Part : h # g \/ q # p => fromPart'[h][q] = fromPart[h][q]
        /\ fromPart'[g][p] = Tail(fromPart[g][p])
    BY <1>1, TakenFrom
  <1>3. /\ toPart[g][p] \in Seq(Control) /\ fromPart[g][p] \in Seq(Control)
        /\ fromPart[g][p] # <<>> /\ Head(fromPart[g][p]) = k
    BY <1>1 DEF CPTypeOK, From
  <1>4. /\ Number(fromPart'[g][p], {k}) = Number(fromPart[g][p], {k}) - 1
        /\ Number(toPart[g][p], {k}) \in Nat /\ Number(fromPart[g][p], {k}) \in Nat
    BY <1>2, <1>3, NumberTails, NumberIn
  <1>5. ASSUME NEW l, l # k PROVE Number(fromPart'[g][p], {l}) = Number(fromPart[g][p], {l})
    <2>1. Head(fromPart[g][p]) \notin {l}
      BY <1>3, <1>5
    <2> QED BY <1>2, <1>3, <2>1, NumberTails
  <1>6. InPart(g, p, k)' = InPart(g, p, k) - 1
    <2>1. InPart(g, p, k) = Number(toPart[g][p], {k}) + Number(fromPart[g][p], {k})
          /\ InPart(g, p, k)' = Number(toPart[g][p], {k}) + Number(fromPart'[g][p], {k})
      BY DEF InPart
    <2> QED BY <1>4, <2>1
  <1>7. \A l : l # k => InPart(g, p, l)' = InPart(g, p, l)
    BY <1>5 DEF InPart
  <1>8. ASSUME NEW h \in GPU, NEW q \in Sides, NEW l, h # g \/ q # p PROVE InPart(h, q, l)' = InPart(h, q, l)
    <2>1. fromPart'[h][q] = fromPart[h][q]
      BY <1>1, <1>2, <1>8
    <2> QED BY <2>1 DEF InPart
  <1> QED BY <1>2, <1>6, <1>7, <1>8

(* A step of an engine beside the groups leaves the groups alone. *)
LEMMA SideSteps ==
    ASSUME NEW g \in GPU, NEW p \in Sides,
           \A h \in GPU, q \in Part : h # g \/ q # p => toPart'[h][q] = toPart[h][q],
           \A h \in GPU, q \in Part : h # g \/ q # p => fromPart'[h][q] = fromPart[h][q],
           \A h \in GPU, q \in Part \ Sides : q \in paused'[h] <=> q \in paused[h], cp' = cp
    PROVE  \A h \in GPU : GroupsKept(h)
  <1>1. \A X \in Groups : \A q \in X : q \in Part \ Sides
    BY PartsApart DEF Groups, Sides
  <1>2. ASSUME NEW h \in GPU, NEW q \in Part \ Sides PROVE PartKept(h, q)
    BY DEF PartKept
  <1> QED BY <1>1, <1>2 DEF GroupsKept

(* The command processor of GPU g passes a command on to a side. *)
LEMMA SideBegins ==
    ASSUME Typed, Staged, NEW g \in GPU, NEW p \in Sides, NEW c \in Control, NEW k \in Kinds,
           FromDriver(g, k), RetrieveFromDriver(g), SendTo(g, {p}, c),
           UNCHANGED <<pmcVars, uplink, fromPart, toPMCSender, cp, gpuVars, driver>>,
           \/ k = "copy" /\ p = "dma" /\ c = "copy"
           \/ k = "drain" /\ p = "rdma" /\ c = "flush"
           \/ k = "rdmaRestart" /\ p = "rdma" /\ c = "restart"
    PROVE  Staged' /\ Begins(k, g)
  <1>1. CPTypeOK
    BY DEF Typed
  <1>2. /\ fromPart' = fromPart /\ toPMCSender' = toPMCSender /\ cp' = cp /\ uplink' = uplink
        /\ dispatching' = dispatching /\ paused' = paused
        /\ ctrlPort' = ctrlPort /\ isHandlingPageMigration' = isHandlingPageMigration
        /\ driver'.requestsToSend = driver.requestsToSend
    BY DEF pmcVars, gpuVars, migrationVars
  <1>3. /\ \A h \in GPU, q \in Part : h # g \/ q # p => toPart'[h][q] = toPart[h][q]
        /\ InPart(g, p, c)' = InPart(g, p, c) + 1
        /\ \A l : l # c => InPart(g, p, l)' = InPart(g, p, l)
        /\ \A h \in GPU, q \in Sides : \A l : h # g \/ q # p => InPart(h, q, l)' = InPart(h, q, l)
    BY <1>1, <1>2, SideAsked
  <1>4. \A h \in GPU : GroupsKept(h)
    <2>1. \A h \in GPU, q \in Part : h # g \/ q # p => fromPart'[h][q] = fromPart[h][q]
      BY <1>2
    <2>2. \A h \in GPU, q \in Part \ Sides : q \in paused'[h] <=> q \in paused[h]
      BY <1>2
    <2> QED BY <1>2, <1>3, <2>1, <2>2, SideSteps
  <1>5. /\ Staged' /\ \A h \in GPU : Halted(h)' = Halted(h)
        /\ \A l \in {"flush", "shootdown", "gpuRestart"}, h \in GPU : Inside(l, h)' = Inside(l, h)
    BY <1>4, Unstaged
  <1>6. "dma" \in Sides /\ "rdma" \in Sides /\ "pmc" \in Sides /\ "dma" # "rdma"
    BY DEF Sides
  <1>7. ASSUME NEW l \in {"launch", "migrate"}, NEW h \in GPU PROVE Inside(l, h)' = Inside(l, h)
    BY <1>2, InsideIs, InsideIsNext
  <1>8. ASSUME NEW l \in {"copy", "drain", "rdmaRestart"}, NEW h \in GPU, l # k \/ h # g
        PROVE  Inside(l, h)' = Inside(l, h)
    <2>1. CASE l = "copy"
      <3>1. InPart(h, "dma", "copy")' = InPart(h, "dma", "copy")
        BY <1>3, <1>6, <1>8, <2>1
      <3> QED BY <2>1, <3>1, InsideIs, InsideIsNext
    <2>2. CASE l = "drain"
      <3>1. InPart(h, "rdma", "flush")' = InPart(h, "rdma", "flush")
        BY <1>3, <1>6, <1>8, <2>2
      <3> QED BY <2>2, <3>1, InsideIs, InsideIsNext
    <2>3. CASE l = "rdmaRestart"
      <3>1. InPart(h, "rdma", "restart")' = InPart(h, "rdma", "restart")
        BY <1>3, <1>6, <1>8, <2>3
      <3> QED BY <2>3, <3>1, InsideIs, InsideIsNext
    <2> QED BY <2>1, <2>2, <2>3
  <1>9. Inside(k, g) = InPart(g, p, c) /\ Inside(k, g)' = InPart(g, p, c)'
    BY InsideIs, InsideIsNext
  <1>10. \A l \in Kinds, h \in GPU : l # k \/ h # g => Inside(l, h)' = Inside(l, h)
    BY <1>5, <1>7, <1>8 DEF Kinds
  <1>11. k # "gpuRestart" /\ Inside(k, g)' = Inside(k, g) + 1
    BY <1>3, <1>9
  <1> QED BY <1>2, <1>5, <1>10, <1>11, BeginsIs

(* A side of GPU g is done with a command. *)
LEMMA SideEnds ==
    ASSUME Typed, Staged, NEW g \in GPU, NEW p \in Sides, NEW c, NEW k \in Kinds,
           From(g, p, c), Retrieve(g, p), SendToDriver(g, k),
           UNCHANGED <<pmcVars, toDriver, toPart, toPMCSender, cp, gpuVars, driver>>,
           \/ k = "copy" /\ p = "dma" /\ c = "copy"
           \/ k = "drain" /\ p = "rdma" /\ c = "flush"
           \/ k = "rdmaRestart" /\ p = "rdma" /\ c = "restart"
           \/ k = "migrate" /\ p = "pmc" /\ c = "copy"
    PROVE  Staged' /\ Ends(k, g)
  <1>1. CPTypeOK
    BY DEF Typed
  <1>2. /\ toPart' = toPart /\ toPMCSender' = toPMCSender /\ cp' = cp /\ toDriver' = toDriver
        /\ dispatching' = dispatching /\ paused' = paused
        /\ ctrlPort' = ctrlPort /\ isHandlingPageMigration' = isHandlingPageMigration
        /\ driver'.requestsToSend = driver.requestsToSend
    BY DEF pmcVars, gpuVars, migrationVars
  <1>3. /\ \A h \in GPU, q \in Part : h # g \/ q # p => fromPart'[h][q] = fromPart[h][q]
        /\ fromPart'[g][p] = Tail(fromPart[g][p])
        /\ InPart(g, p, c)' = InPart(g, p, c) - 1
        /\ \A l : l # c => InPart(g, p, l)' = InPart(g, p, l)
        /\ \A h \in GPU, q \in Sides : \A l : h # g \/ q # p => InPart(h, q, l)' = InPart(h, q, l)
    BY <1>1, <1>2, SideTakes
  <1>4. \A h \in GPU : GroupsKept(h)
    <2>1. \A h \in GPU, q \in Part : h # g \/ q # p => toPart'[h][q] = toPart[h][q]
      BY <1>2
    <2>2. \A h \in GPU, q \in Part \ Sides : q \in paused'[h] <=> q \in paused[h]
      BY <1>2
    <2> QED BY <1>2, <1>3, <2>1, <2>2, SideSteps
  <1>5. /\ Staged' /\ \A h \in GPU : Halted(h)' = Halted(h)
        /\ \A l \in {"flush", "shootdown", "gpuRestart"}, h \in GPU : Inside(l, h)' = Inside(l, h)
    BY <1>4, Unstaged
  <1>6. "dma" \in Sides /\ "rdma" \in Sides /\ "pmc" \in Sides /\ "dma" # "rdma" /\ "pmc" # "rdma" /\ "pmc" # "dma"
        /\ "pmc" \in Part
    BY PartsApart DEF Sides
  <1>7. ASSUME NEW h \in GPU PROVE Inside("launch", h)' = Inside("launch", h)
    BY <1>2, InsideIs, InsideIsNext
  <1>12. ASSUME NEW h \in GPU, k # "migrate" \/ h # g PROVE Inside("migrate", h)' = Inside("migrate", h)
    <2>1. fromPart'[h]["pmc"] = fromPart[h]["pmc"]
      BY <1>3, <1>6, <1>12
    <2> QED BY <1>2, <2>1, InsideIs, InsideIsNext
  <1>8. ASSUME NEW l \in {"copy", "drain", "rdmaRestart"}, NEW h \in GPU, l # k \/ h # g
        PROVE  Inside(l, h)' = Inside(l, h)
    <2>1. CASE l = "copy"
      <3>1. InPart(h, "dma", "copy")' = InPart(h, "dma", "copy")
        BY <1>3, <1>6, <1>8, <2>1
      <3> QED BY <2>1, <3>1, InsideIs, InsideIsNext
    <2>2. CASE l = "drain"
      <3>1. InPart(h, "rdma", "flush")' = InPart(h, "rdma", "flush")
        BY <1>3, <1>6, <1>8, <2>2
      <3> QED BY <2>2, <3>1, InsideIs, InsideIsNext
    <2>3. CASE l = "rdmaRestart"
      <3>1. InPart(h, "rdma", "restart")' = InPart(h, "rdma", "restart")
        BY <1>3, <1>6, <1>8, <2>3
      <3> QED BY <2>3, <3>1, InsideIs, InsideIsNext
    <2> QED BY <2>1, <2>2, <2>3
  <1>9. k # "migrate" => Inside(k, g) = InPart(g, p, c) /\ Inside(k, g)' = InPart(g, p, c)'
    BY InsideIs, InsideIsNext
  <1>10. \A l \in Kinds, h \in GPU : l # k \/ h # g => Inside(l, h)' = Inside(l, h)
    BY <1>5, <1>7, <1>8, <1>12 DEF Kinds
  <1>13. k = "migrate" => Inside(k, g)' = Inside(k, g) - 1
    <2> SUFFICES ASSUME k = "migrate" PROVE Inside(k, g)' = Inside(k, g) - 1
      OBVIOUS
    <2>1. fromPart[g]["pmc"] \in Seq(Control) /\ fromPart[g]["pmc"] # <<>>
      BY <1>1, <1>6 DEF CPTypeOK, From
    <2>2. /\ Len(fromPart'[g]["pmc"]) = Len(fromPart[g]["pmc"]) - 1 /\ Len(fromPart[g]["pmc"]) \in Nat
          /\ Len(fromPart'[g]["pmc"]) \in Nat
      BY <1>3, <2>1, TailAt, LenProperties
    <2>3. Len(toPMCSender[g]) \in Nat /\ Len(ctrlPort[g]) \in Nat
      BY LenProperties DEF Typed, CPTypeOK
    <2>4. One(isHandlingPageMigration[g]) \in Nat
      BY DEF One
    <2>5. /\ Inside("migrate", g) = Len(toPMCSender[g]) + Len(ctrlPort[g]) + One(isHandlingPageMigration[g])
                                     + Len(fromPart[g]["pmc"])
          /\ Inside("migrate", g)' = Len(toPMCSender[g]) + Len(ctrlPort[g]) + One(isHandlingPageMigration[g])
                                     + Len(fromPart'[g]["pmc"])
      BY <1>2, InsideIs, InsideIsNext
    <2> DEFINE n == Len(toPMCSender[g]) + Len(ctrlPort[g]) + One(isHandlingPageMigration[g])
    <2>6. n \in Nat
      <3>1. \A a, b, d \in Nat : a + b + d \in Nat
        OBVIOUS
      <3> QED BY ONLY <2>3, <2>4, <3>1
    <2> HIDE DEF n
    <2>7. n + Len(fromPart'[g]["pmc"]) = (n + Len(fromPart[g]["pmc"])) - 1
      BY ONLY <2>2, <2>6
    <2>8. Inside("migrate", g) = n + Len(fromPart[g]["pmc"]) /\ Inside("migrate", g)' = n + Len(fromPart'[g]["pmc"])
      BY <2>5 DEF n
    <2> QED BY <2>7, <2>8
  <1>11. k # "shootdown" /\ Inside(k, g)' = Inside(k, g) - 1
    BY <1>3, <1>9, <1>13
  <1> QED BY <1>2, <1>5, <1>10, <1>11, EndsIs

(* The stage handlers of the command processor of GPU g. *)
LEMMA StageStill ==
    ASSUME Typed, Typed', Staged, NEW g \in GPU, NEW s \in Stage, NEW r \in Stage, GPUAt(g, s), GPUAt(g, r)',
           \A h \in GPU : h # g => GPUKept(h), \A h \in GPU : SidesKept(h),
           driver' = driver, toDriver' = toDriver, uplink' = uplink,
           Flushing(g)' = Flushing(g), s \in Stops <=> r \in Stops, s \in Starts <=> r \in Starts,
           s = "stopped" <=> r = "stopped"
    PROVE  Staged' /\ Still
  <1>1. /\ Staged'
        /\ \A k \in Kinds, h \in GPU :
              h # g \/ k \notin {"flush", "shootdown", "gpuRestart"} => Inside(k, h)' = Inside(k, h)
        /\ Inside("flush", g) = One(Flushing(g)) /\ Inside("flush", g)' = One(Flushing(g)')
        /\ Inside("shootdown", g) = One(s \in Stops) /\ Inside("shootdown", g)' = One(r \in Stops)
        /\ Inside("gpuRestart", g) = One(s \in Starts) /\ Inside("gpuRestart", g)' = One(r \in Starts)
        /\ \A h \in GPU : h # g => Halted(h)' = Halted(h)
        /\ Halted(g) = (s = "stopped") /\ Halted(g)' = (r = "stopped")
    BY Restaged
  <1>2. One(s \in Stops) = One(r \in Stops) /\ One(s \in Starts) = One(r \in Starts)
        /\ One(Flushing(g)') = One(Flushing(g))
    BY DEF One
  <1>3. \A k \in Kinds, h \in GPU : Inside(k, h)' = Inside(k, h)
    BY <1>1, <1>2
  <1>4. \A h \in GPU : Halted(h)' = Halted(h)
    BY <1>1
  <1> QED BY <1>1, <1>3, <1>4, StillIs

(* The answer of a group leaves the engines beside the groups alone. *)
LEMMA SidesAre ==
    ASSUME CPTypeOK, NEW g \in GPU, NEW X \in Groups, NEW p \in X, NEW Y \in Groups, NEW k,
           Retrieve(g, p), toPart' = toPart \/ SendTo(g, Y, k), UNCHANGED <<pmcVars, toPMCSender, gpuVars>>
    PROVE  \A h \in GPU : SidesKept(h)
  <1>1. \A h \in GPU : \A q \in Sides : fromPart'[h][q] = fromPart[h][q]
    BY SideTaken
  <1>2. \A h \in GPU : \A q \in Sides : toPart'[h][q] = toPart[h][q]
    BY SideSent
  <1>3. /\ dispatching' = dispatching /\ toPMCSender' = toPMCSender
        /\ ctrlPort' = ctrlPort /\ isHandlingPageMigration' = isHandlingPageMigration
    BY DEF pmcVars, gpuVars, migrationVars
  <1> QED BY <1>1, <1>2, <1>3 DEF SidesKept

(* The last part of GPU g has answered: the GPU has stopped or restarted.  *)
LEMMA StageEnds ==
    ASSUME Typed, Typed', Staged, NEW g \in GPU, NEW s \in Stage, NEW r \in Stage, GPUAt(g, s), GPUAt(g, r)',
           \A h \in GPU : h # g => GPUKept(h), \A h \in GPU : SidesKept(h),
           driver' = driver, toDriver' = toDriver,
           NEW k \in {"flush", "shootdown", "gpuRestart"}, SendToDriver(g, k),
           \/ k = "flush" /\ s = r /\ Flushing(g) /\ ~Flushing(g)'
           \/ k = "shootdown" /\ s = "stopTLB" /\ r = "stopped" /\ Flushing(g)' = Flushing(g)
           \/ k = "gpuRestart" /\ s = "startCU" /\ r = "running" /\ Flushing(g)' = Flushing(g)
    PROVE  Staged' /\ Ends(k, g)
  <1>1. /\ Staged'
        /\ \A l \in Kinds, h \in GPU :
              h # g \/ l \notin {"flush", "shootdown", "gpuRestart"} => Inside(l, h)' = Inside(l, h)
        /\ Inside("flush", g) = One(Flushing(g)) /\ Inside("flush", g)' = One(Flushing(g)')
        /\ Inside("shootdown", g) = One(s \in Stops) /\ Inside("shootdown", g)' = One(r \in Stops)
        /\ Inside("gpuRestart", g) = One(s \in Starts) /\ Inside("gpuRestart", g)' = One(r \in Starts)
        /\ \A h \in GPU : h # g => Halted(h)' = Halted(h)
        /\ Halted(g) = (s = "stopped") /\ Halted(g)' = (r = "stopped")
    BY Restaged
  <1>2. /\ "stopTLB" \in Stops /\ "stopped" \notin Stops /\ "startCU" \notin Stops /\ "running" \notin Stops
        /\ "stopTLB" \notin Starts /\ "stopped" \notin Starts /\ "startCU" \in Starts /\ "running" \notin Starts
    BY DEF Stops, Starts
  <1>3. CASE k = "flush"
    <2>1. /\ Inside("flush", g)' = Inside("flush", g) - 1
          /\ Inside("shootdown", g)' = Inside("shootdown", g)
          /\ Inside("gpuRestart", g)' = Inside("gpuRestart", g)
      BY <1>1, <1>3 DEF One
    <2>2. \A h \in GPU : Halted(h)' = Halted(h)
      BY <1>1, <1>3
    <2>3. \A l \in Kinds, h \in GPU : l # k \/ h # g => Inside(l, h)' = Inside(l, h)
      BY <1>1, <1>3, <2>1 DEF Kinds
    <2> QED BY <1>1, <1>3, <2>1, <2>2, <2>3, EndsIs DEF Kinds
  <1>4. CASE k = "shootdown"
    <2>1. /\ Inside("shootdown", g)' = Inside("shootdown", g) - 1
          /\ Inside("flush", g)' = Inside("flush", g)
          /\ Inside("gpuRestart", g)' = Inside("gpuRestart", g)
      BY <1>1, <1>2, <1>4 DEF One
    <2>2. \A h \in GPU : Halted(h)' = IF k = "shootdown" /\ h = g THEN TRUE ELSE Halted(h)
      BY <1>1, <1>4
    <2>3. \A l \in Kinds, h \in GPU : l # k \/ h # g => Inside(l, h)' = Inside(l, h)
      BY <1>1, <1>4, <2>1 DEF Kinds
    <2>4. k \in Kinds /\ driver'.requestsToSend = driver.requestsToSend /\ Inside(k, g)' = Inside(k, g) - 1
      BY <1>4, <2>1 DEF Kinds
    <2>5. Ends(k, g)
      BY <2>2, <2>3, <2>4, EndsIs
    <2> QED BY <1>1, <2>5
  <1>5. CASE k = "gpuRestart"
    <2>1. /\ Inside("gpuRestart", g)' = Inside("gpuRestart", g) - 1
          /\ Inside("flush", g)' = Inside("flush", g)
          /\ Inside("shootdown", g)' = Inside("shootdown", g)
      BY <1>1, <1>2, <1>5 DEF One
    <2>2. \A h \in GPU : Halted(h)' = Halted(h)
      BY <1>1, <1>5
    <2>3. \A l \in Kinds, h \in GPU : l # k \/ h # g => Inside(l, h)' = Inside(l, h)
      BY <1>1, <1>5, <2>1 DEF Kinds
    <2> QED BY <1>1, <1>5, <2>1, <2>2, <2>3, EndsIs DEF Kinds
  <1> QED BY <1>3, <1>4, <1>5

-----------------------------------------------------------------------------
(* The steps of a command processor.                                       *)

(* What a step of GPU g that does not start a command does.                *)
Goes(g) == Still \/ \E k \in Kinds \ {"launch"} : Ends(k, g)

(* A compute unit's answer to a flush goes on with the shootdown (ProcessCUPipelineFlushRsp). *)
LEMMA CUFlushed ==
    ASSUME Typed, Typed', Staged, NEW g \in GPU, NEW c \in CU, ProcessCUPipelineFlushRsp(g, c), driver' = driver
    PROVE  Staged' /\ Goes(g)
  <1>1. PICK s \in Stage : GPUAt(g, s)
    BY DEF Staged
  <1>2. CPTypeOK /\ CPTypeOK'
    BY DEF Typed
  <1>3. CU \in Groups /\ AT \in Groups
    BY DEF Groups
  <1>4. Retrieve(g, c) /\ (toPart' = toPart \/ SendTo(g, AT, "flush"))
        /\ UNCHANGED <<pmcVars, toPMCSender, gpuVars>> /\ toDriver' = toDriver
    BY DEF ProcessCUPipelineFlushRsp
  <1>5. \A h \in GPU : SidesKept(h)
    BY <1>2, <1>3, <1>4, SidesAre
  <1>6. s = "stopCU" /\ (GPUAt(g, "stopCU")' \/ GPUAt(g, "stopAT")')
        /\ (\A h \in GPU : h # g => GPUKept(h)) /\ (Flushing(g)' <=> Flushing(g))
    BY <1>1, <1>2, CUsStop
  <1>7. uplink' = uplink
    BY DEF ProcessCUPipelineFlushRsp
  <1>8. "stopCU" \in Stage /\ "stopAT" \in Stage
    BY DEF Stage, Stops, Starts
  <1>9. ("stopCU" \in Stops <=> "stopAT" \in Stops) /\ ("stopCU" \in Starts <=> "stopAT" \in Starts)
    BY DEF Stops, Starts
  <1>10. Flushing(g)' = Flushing(g)
    BY <1>6 DEF Flushing
  <1>11. Staged' /\ Still
    BY <1>1, <1>4, <1>5, <1>6, <1>7, <1>8, <1>9, <1>10, StageStill
  <1> QED BY <1>11 DEF Goes

(* An address translator's answer to a flush goes on with the shootdown. *)
LEMMA ATFlushed ==
    ASSUME Typed, Typed', Staged, NEW g \in GPU, NEW c \in AT, ProcessAddressTranslatorFlushRsp(g, c), driver' = driver
    PROVE  Staged' /\ Goes(g)
  <1>1. PICK s \in Stage : GPUAt(g, s)
    BY DEF Staged
  <1>2. CPTypeOK /\ CPTypeOK'
    BY DEF Typed
  <1>3. AT \in Groups /\ Cache \in Groups
    BY DEF Groups
  <1>4. Retrieve(g, c) /\ (toPart' = toPart \/ SendTo(g, Cache, "reset"))
        /\ UNCHANGED <<pmcVars, toPMCSender, gpuVars>> /\ toDriver' = toDriver
    BY DEF ProcessAddressTranslatorFlushRsp
  <1>5. \A h \in GPU : SidesKept(h)
    BY <1>2, <1>3, <1>4, SidesAre
  <1>6. s = "stopAT" /\ (GPUAt(g, "stopAT")' \/ GPUAt(g, "stopCache")')
        /\ (\A h \in GPU : h # g => GPUKept(h)) /\ (Flushing(g)' <=> Flushing(g))
    BY <1>1, <1>2, ATsStop
  <1>7. uplink' = uplink
    BY DEF ProcessAddressTranslatorFlushRsp
  <1>8. "stopAT" \in Stage /\ "stopCache" \in Stage
    BY DEF Stage, Stops, Starts
  <1>9. ("stopAT" \in Stops <=> "stopCache" \in Stops) /\ ("stopAT" \in Starts <=> "stopCache" \in Starts)
    BY DEF Stops, Starts
  <1>10. Flushing(g)' = Flushing(g)
    BY <1>6 DEF Flushing
  <1>11. Staged' /\ Still
    BY <1>1, <1>4, <1>5, <1>6, <1>7, <1>8, <1>9, <1>10, StageStill
  <1> QED BY <1>11 DEF Goes

(* A cache's answer to a restart goes on with the restart of the GPU. *)
LEMMA CacheRestarted ==
    ASSUME Typed, Typed', Staged, NEW g \in GPU, NEW c \in Cache, ProcessCacheRestartRsp(g, c), driver' = driver
    PROVE  Staged' /\ Goes(g)
  <1>1. PICK s \in Stage : GPUAt(g, s)
    BY DEF Staged
  <1>2. CPTypeOK /\ CPTypeOK'
    BY DEF Typed
  <1>3. Cache \in Groups /\ TLB \in Groups
    BY DEF Groups
  <1>4. Retrieve(g, c) /\ (toPart' = toPart \/ SendTo(g, TLB, "restart"))
        /\ UNCHANGED <<pmcVars, toPMCSender, gpuVars>> /\ toDriver' = toDriver
    BY DEF ProcessCacheRestartRsp
  <1>5. \A h \in GPU : SidesKept(h)
    BY <1>2, <1>3, <1>4, SidesAre
  <1>6. s = "startCache" /\ (GPUAt(g, "startCache")' \/ GPUAt(g, "startTLB")')
        /\ (\A h \in GPU : h # g => GPUKept(h)) /\ (Flushing(g)' <=> Flushing(g))
    BY <1>1, <1>2, CachesStart
  <1>7. uplink' = uplink
    BY DEF ProcessCacheRestartRsp
  <1>8. "startCache" \in Stage /\ "startTLB" \in Stage
    BY DEF Stage, Stops, Starts
  <1>9. ("startCache" \in Stops <=> "startTLB" \in Stops) /\ ("startCache" \in Starts <=> "startTLB" \in Starts)
    BY DEF Stops, Starts
  <1>10. Flushing(g)' = Flushing(g)
    BY <1>6 DEF Flushing
  <1>11. Staged' /\ Still
    BY <1>1, <1>4, <1>5, <1>6, <1>7, <1>8, <1>9, <1>10, StageStill
  <1> QED BY <1>11 DEF Goes

(* A TLB's answer to a restart goes on with the restart of the GPU. *)
LEMMA TLBRestarted ==
    ASSUME Typed, Typed', Staged, NEW g \in GPU, NEW c \in TLB, ProcessTLBRestartRsp(g, c), driver' = driver
    PROVE  Staged' /\ Goes(g)
  <1>1. PICK s \in Stage : GPUAt(g, s)
    BY DEF Staged
  <1>2. CPTypeOK /\ CPTypeOK'
    BY DEF Typed
  <1>3. TLB \in Groups /\ AT \in Groups
    BY DEF Groups
  <1>4. Retrieve(g, c) /\ (toPart' = toPart \/ SendTo(g, AT, "restart"))
        /\ UNCHANGED <<pmcVars, toPMCSender, gpuVars>> /\ toDriver' = toDriver
    BY DEF ProcessTLBRestartRsp
  <1>5. \A h \in GPU : SidesKept(h)
    BY <1>2, <1>3, <1>4, SidesAre
  <1>6. s = "startTLB" /\ (GPUAt(g, "startTLB")' \/ GPUAt(g, "startAT")')
        /\ (\A h \in GPU : h # g => GPUKept(h)) /\ (Flushing(g)' <=> Flushing(g))
    BY <1>1, <1>2, TLBsStart
  <1>7. uplink' = uplink
    BY DEF ProcessTLBRestartRsp
  <1>8. "startTLB" \in Stage /\ "startAT" \in Stage
    BY DEF Stage, Stops, Starts
  <1>9. ("startTLB" \in Stops <=> "startAT" \in Stops) /\ ("startTLB" \in Starts <=> "startAT" \in Starts)
    BY DEF Stops, Starts
  <1>10. Flushing(g)' = Flushing(g)
    BY <1>6 DEF Flushing
  <1>11. Staged' /\ Still
    BY <1>1, <1>4, <1>5, <1>6, <1>7, <1>8, <1>9, <1>10, StageStill
  <1> QED BY <1>11 DEF Goes

(* An address translator's answer to a restart goes on with the restart of the GPU. *)
LEMMA ATRestarted ==
    ASSUME Typed, Typed', Staged, NEW g \in GPU, NEW c \in AT, ProcessAddressTranslatorRestartRsp(g, c), driver' = driver
    PROVE  Staged' /\ Goes(g)
  <1>1. PICK s \in Stage : GPUAt(g, s)
    BY DEF Staged
  <1>2. CPTypeOK /\ CPTypeOK'
    BY DEF Typed
  <1>3. AT \in Groups /\ CU \in Groups
    BY DEF Groups
  <1>4. Retrieve(g, c) /\ (toPart' = toPart \/ SendTo(g, CU, "restart"))
        /\ UNCHANGED <<pmcVars, toPMCSender, gpuVars>> /\ toDriver' = toDriver
    BY DEF ProcessAddressTranslatorRestartRsp
  <1>5. \A h \in GPU : SidesKept(h)
    BY <1>2, <1>3, <1>4, SidesAre
  <1>6. s = "startAT" /\ (GPUAt(g, "startAT")' \/ GPUAt(g, "startCU")')
        /\ (\A h \in GPU : h # g => GPUKept(h)) /\ (Flushing(g)' <=> Flushing(g))
    BY <1>1, <1>2, ATsStart
  <1>7. uplink' = uplink
    BY DEF ProcessAddressTranslatorRestartRsp
  <1>8. "startAT" \in Stage /\ "startCU" \in Stage
    BY DEF Stage, Stops, Starts
  <1>9. ("startAT" \in Stops <=> "startCU" \in Stops) /\ ("startAT" \in Starts <=> "startCU" \in Starts)
    BY DEF Stops, Starts
  <1>10. Flushing(g)' = Flushing(g)
    BY <1>6 DEF Flushing
  <1>11. Staged' /\ Still
    BY <1>1, <1>4, <1>5, <1>6, <1>7, <1>8, <1>9, <1>10, StageStill
  <1> QED BY <1>11 DEF Goes

(* A TLB's answer to a flush goes on with the shootdown or completes it. *)
LEMMA TLBFlushed ==
    ASSUME Typed, Typed', Staged, NEW g \in GPU, NEW c \in TLB, ProcessTLBFlushRsp(g, c), driver' = driver
    PROVE  Staged' /\ Goes(g)
  <1>1. PICK s \in Stage : GPUAt(g, s)
    BY DEF Staged
  <1>2. CPTypeOK /\ CPTypeOK'
    BY DEF Typed
  <1>3. TLB \in Groups /\ CU \in Groups
    BY DEF Groups
  <1>4. Retrieve(g, c) /\ (toPart' = toPart \/ SendTo(g, CU, "flush"))
        /\ UNCHANGED <<pmcVars, toPMCSender, gpuVars>> /\ toDriver' = toDriver
    BY DEF ProcessTLBFlushRsp
  <1>5. \A h \in GPU : SidesKept(h)
    BY <1>2, <1>3, <1>4, SidesAre
  <1>6. s = "stopTLB" /\ (   (GPUAt(g, "stopTLB")' /\ uplink' = uplink)
                       \/ (GPUAt(g, "stopped")' /\ SendToDriver(g, "shootdown")))
        /\ (\A h \in GPU : h # g => GPUKept(h)) /\ Flushing(g)' = Flushing(g)
    BY <1>1, <1>2, TLBsStop
  <1>8. "stopTLB" \in Stage /\ "stopped" \in Stage
    BY DEF Stage, Stops, Starts
  <1>9. CASE GPUAt(g, "stopTLB")' /\ uplink' = uplink
    <2>1. Staged' /\ Still
      BY <1>1, <1>4, <1>5, <1>6, <1>8, <1>9, StageStill
    <2> QED BY <2>1 DEF Goes
  <1>10. CASE GPUAt(g, "stopped")' /\ SendToDriver(g, "shootdown")
    <2>1. Staged' /\ Ends("shootdown", g)
      BY <1>1, <1>4, <1>5, <1>6, <1>8, <1>10, StageEnds
    <2> QED BY <2>1 DEF Goes, Kinds
  <1> QED BY <1>6, <1>9, <1>10

(* A compute unit's answer to a restart goes on with the restart or completes it. *)
LEMMA CURestarted ==
    ASSUME Typed, Typed', Staged, NEW g \in GPU, NEW c \in CU, ProcessCUPipelineRestartRsp(g, c), driver' = driver
    PROVE  Staged' /\ Goes(g)
  <1>1. PICK s \in Stage : GPUAt(g, s)
    BY DEF Staged
  <1>2. CPTypeOK /\ CPTypeOK'
    BY DEF Typed
  <1>3. CU \in Groups /\ AT \in Groups
    BY DEF Groups
  <1>4. Retrieve(g, c) /\ (toPart' = toPart \/ SendTo(g, AT, "flush"))
        /\ UNCHANGED <<pmcVars, toPMCSender, gpuVars>> /\ toDriver' = toDriver
    BY DEF ProcessCUPipelineRestartRsp
  <1>5. \A h \in GPU : SidesKept(h)
    BY <1>2, <1>3, <1>4, SidesAre
  <1>6. s = "startCU" /\ (   (GPUAt(g, "startCU")' /\ uplink' = uplink)
                       \/ (GPUAt(g, "running")' /\ SendToDriver(g, "gpuRestart")))
        /\ (\A h \in GPU : h # g => GPUKept(h)) /\ Flushing(g)' = Flushing(g)
    BY <1>1, <1>2, CUsStart
  <1>8. "startCU" \in Stage /\ "running" \in Stage
    BY DEF Stage, Stops, Starts
  <1>9. CASE GPUAt(g, "startCU")' /\ uplink' = uplink
    <2>1. Staged' /\ Still
      BY <1>1, <1>4, <1>5, <1>6, <1>8, <1>9, StageStill
    <2> QED BY <2>1 DEF Goes
  <1>10. CASE GPUAt(g, "running")' /\ SendToDriver(g, "gpuRestart")
    <2>1. Staged' /\ Ends("gpuRestart", g)
      BY <1>1, <1>4, <1>5, <1>6, <1>8, <1>10, StageEnds
    <2> QED BY <2>1 DEF Goes, Kinds
  <1> QED BY <1>6, <1>9, <1>10

(* A cache's answer ends a flush of the driver or goes on with the shootdown. *)
LEMMA CacheFlushed ==
    ASSUME Typed, Typed', Staged, NEW g \in GPU, NEW c \in Cache, ProcessCacheFlushRsp(g, c), driver' = driver
    PROVE  Staged' /\ Goes(g)
  <1>1. PICK s \in Stage : GPUAt(g, s)
    BY DEF Staged
  <1>2. CPTypeOK /\ CPTypeOK'
    BY DEF Typed
  <1>3. Cache \in Groups /\ TLB \in Groups
    BY DEF Groups
  <1>4. Retrieve(g, c) /\ (toPart' = toPart \/ SendTo(g, TLB, "flush"))
        /\ UNCHANGED <<pmcVars, toPMCSender, gpuVars>> /\ toDriver' = toDriver
    BY DEF ProcessCacheFlushRsp, CacheFlushCausedByTLBShootdown
  <1>5. \A h \in GPU : SidesKept(h)
    BY <1>2, <1>3, <1>4, SidesAre
  <1>6. CASE cp[g].shootDownInProcess
    <2>1. s = "stopCache" /\ (GPUAt(g, "stopCache")' \/ GPUAt(g, "stopTLB")') /\ uplink' = uplink
          /\ (\A h \in GPU : h # g => GPUKept(h)) /\ (Flushing(g)' <=> Flushing(g))
      BY <1>1, <1>2, <1>6, CachesStop
    <2>2. /\ "stopCache" \in Stage /\ "stopTLB" \in Stage /\ "stopCache" \in Stops /\ "stopTLB" \in Stops
          /\ "stopCache" \notin Starts /\ "stopTLB" \notin Starts
      BY DEF Stage, Stops, Starts
    <2>3. Flushing(g)' = Flushing(g)
      BY <2>1 DEF Flushing
    <2>4. Staged' /\ Still
      BY <1>1, <1>4, <1>5, <2>1, <2>2, <2>3, StageStill
    <2> QED BY <2>4 DEF Goes
  <1>7. CASE ~cp[g].shootDownInProcess
    <2>1. Flushing(g) /\ GPUAt(g, s)' /\ (\A h \in GPU : h # g => GPUKept(h))
          /\ ((Flushing(g)' /\ uplink' = uplink) \/ (~Flushing(g)' /\ SendToDriver(g, "flush")))
      BY <1>1, <1>2, <1>7, CachesFlush
    <2>2. CASE Flushing(g)' /\ uplink' = uplink
      <3>1. Flushing(g)' = Flushing(g)
        BY <2>1, <2>2 DEF Flushing
      <3>2. Staged' /\ Still
        BY <1>1, <1>4, <1>5, <2>1, <2>2, <3>1, StageStill
      <3> QED BY <3>2 DEF Goes
    <2>3. CASE ~Flushing(g)' /\ SendToDriver(g, "flush")
      <3>1. Staged' /\ Ends("flush", g)
        BY <1>1, <1>4, <1>5, <2>1, <2>3, StageEnds
      <3> QED BY <3>1 DEF Goes, Kinds
    <2> QED BY <2>1, <2>2, <2>3
  <1> QED BY <1>6, <1>7

(* A command processor that takes an answer of a part. *)
LEMMA Collects ==
    ASSUME Typed, Typed', Staged, NEW g \in GPU, ProcessRspFromInternal(g), driver' = driver
    PROVE  Staged' /\ Goes(g)
  <1>1. CASE ProcessMemCopyRsp(g)
    <2>1. Staged' /\ Ends("copy", g)
      BY <1>1, SideEnds DEF ProcessMemCopyRsp, Kinds, Sides
    <2> QED BY <2>1 DEF Goes, Kinds
  <1>2. CASE ProcessRDMARsp(g)
    <2>1. Staged' /\ (Ends("drain", g) \/ Ends("rdmaRestart", g))
      BY <1>2, SideEnds DEF ProcessRDMARsp, Kinds, Sides
    <2> QED BY <2>1 DEF Goes, Kinds
  <1>3. CASE ProcessPageMigrationRsp(g)
    <2>1. Staged' /\ Ends("migrate", g)
      BY <1>3, SideEnds DEF ProcessPageMigrationRsp, Kinds, Sides
    <2> QED BY <2>1 DEF Goes, Kinds
  <1> QED
    BY <1>1, <1>2, <1>3, CUFlushed, CURestarted, ATFlushed, ATRestarted, CacheFlushed, CacheRestarted,
       TLBFlushed, TLBRestarted DEF ProcessRspFromInternal

(* A command to a group leaves the engines beside the groups alone. *)
LEMMA SidesSent ==
    ASSUME CPTypeOK, NEW g \in GPU, NEW Y \in Groups, NEW k, SendTo(g, Y, k), fromPart' = fromPart,
           UNCHANGED <<pmcVars, toPMCSender, gpuVars>>
    PROVE  \A h \in GPU : SidesKept(h)
  <1>1. \A h \in GPU : \A q \in Sides : toPart'[h][q] = toPart[h][q]
    BY SideSent
  <1>2. /\ dispatching' = dispatching /\ toPMCSender' = toPMCSender
        /\ ctrlPort' = ctrlPort /\ isHandlingPageMigration' = isHandlingPageMigration
    BY DEF pmcVars, gpuVars, migrationVars
  <1> QED BY <1>1, <1>2 DEF SidesKept

(* A command that starts a flush, a shootdown or a restart moves the GPU to the stage it starts. *)
LEMMA StageBegins ==
    ASSUME Typed, Typed', Staged, NEW g \in GPU, NEW s \in Stage, NEW r \in Stage, GPUAt(g, s), GPUAt(g, r)',
           \A h \in GPU : h # g => GPUKept(h), \A h \in GPU : SidesKept(h),
           driver' = driver, uplink' = uplink,
           NEW k \in {"flush", "shootdown", "gpuRestart"}, FromDriver(g, k), RetrieveFromDriver(g),
           \/ k = "flush" /\ s = r /\ ~Flushing(g) /\ Flushing(g)'
           \/ k = "shootdown" /\ s = "running" /\ r = "stopCU" /\ ~Flushing(g) /\ ~Flushing(g)'
           \/ k = "gpuRestart" /\ s = "stopped" /\ r = "startCache" /\ ~Flushing(g) /\ ~Flushing(g)'
    PROVE  Staged' /\ Begins(k, g)
  <1>1. /\ Staged'
        /\ \A l \in Kinds, h \in GPU :
              h # g \/ l \notin {"flush", "shootdown", "gpuRestart"} => Inside(l, h)' = Inside(l, h)
        /\ Inside("flush", g) = One(Flushing(g)) /\ Inside("flush", g)' = One(Flushing(g)')
        /\ Inside("shootdown", g) = One(s \in Stops) /\ Inside("shootdown", g)' = One(r \in Stops)
        /\ Inside("gpuRestart", g) = One(s \in Starts) /\ Inside("gpuRestart", g)' = One(r \in Starts)
        /\ \A h \in GPU : h # g => Halted(h)' = Halted(h)
        /\ Halted(g) = (s = "stopped") /\ Halted(g)' = (r = "stopped")
    BY Restaged
  <1>2. /\ "stopCU" \in Stops /\ "stopped" \notin Stops /\ "startCache" \notin Stops /\ "running" \notin Stops
        /\ "stopCU" \notin Starts /\ "stopped" \notin Starts /\ "startCache" \in Starts /\ "running" \notin Starts
    BY DEF Stops, Starts
  <1>3. CASE k = "flush"
    <2>1. /\ Inside("flush", g)' = Inside("flush", g) + 1
          /\ Inside("shootdown", g)' = Inside("shootdown", g)
          /\ Inside("gpuRestart", g)' = Inside("gpuRestart", g)
      BY <1>1, <1>3 DEF One
    <2>2. \A h \in GPU : Halted(h)' = IF k = "gpuRestart" /\ h = g THEN FALSE ELSE Halted(h)
      BY <1>1, <1>3
    <2>3. \A l \in Kinds, h \in GPU : l # k \/ h # g => Inside(l, h)' = Inside(l, h)
      BY <1>1, <1>3, <2>1 DEF Kinds
    <2>4. /\ k \in Kinds /\ driver'.requestsToSend = driver.requestsToSend /\ Inside(k, g)' = Inside(k, g) + 1
          /\ k # "gpuRestart"
      BY <1>3, <2>1 DEF Kinds
    <2>5. Begins(k, g)
      BY <2>2, <2>3, <2>4, BeginsIs
    <2> QED BY <1>1, <2>5
  <1>4. CASE k = "shootdown"
    <2>1. /\ Inside("shootdown", g)' = Inside("shootdown", g) + 1
          /\ Inside("flush", g)' = Inside("flush", g)
          /\ Inside("gpuRestart", g)' = Inside("gpuRestart", g)
      BY <1>1, <1>2, <1>4 DEF One
    <2>2. \A h \in GPU : Halted(h)' = IF k = "gpuRestart" /\ h = g THEN FALSE ELSE Halted(h)
      BY <1>1, <1>4
    <2>3. \A l \in Kinds, h \in GPU : l # k \/ h # g => Inside(l, h)' = Inside(l, h)
      BY <1>1, <1>4, <2>1 DEF Kinds
    <2>4. /\ k \in Kinds /\ driver'.requestsToSend = driver.requestsToSend /\ Inside(k, g)' = Inside(k, g) + 1
          /\ k # "gpuRestart"
      BY <1>4, <2>1 DEF Kinds
    <2>5. Begins(k, g)
      BY <2>2, <2>3, <2>4, BeginsIs
    <2> QED BY <1>1, <2>5
  <1>5. CASE k = "gpuRestart"
    <2>1. /\ Inside("gpuRestart", g)' = Inside("gpuRestart", g) + 1
          /\ Inside("flush", g)' = Inside("flush", g)
          /\ Inside("shootdown", g)' = Inside("shootdown", g)
      BY <1>1, <1>2, <1>5 DEF One
    <2>2. (\A h \in GPU : Halted(h)' = IF k = "gpuRestart" /\ h = g THEN FALSE ELSE Halted(h)) /\ Halted(g)
      BY <1>1, <1>5
    <2>3. \A l \in Kinds, h \in GPU : l # k \/ h # g => Inside(l, h)' = Inside(l, h)
      BY <1>1, <1>5, <2>1 DEF Kinds
    <2>4. k \in Kinds /\ driver'.requestsToSend = driver.requestsToSend /\ Inside(k, g)' = Inside(k, g) + 1
      BY <1>5, <2>1 DEF Kinds
    <2>5. Begins(k, g)
      BY <2>2, <2>3, <2>4, BeginsIs
    <2> QED BY <1>1, <2>5
  <1> QED BY <1>3, <1>4, <1>5

(* A running GPU takes a shootdown and begins to stop. *)
LEMMA ShootdownTaken ==
    ASSUME Typed, Typed', Staged, NEW g \in GPU, StageOf(g) = "running", ~Flushing(g),
           ProcessShootdownCommand(g), driver' = driver
    PROVE  Staged' /\ Begins("shootdown", g)
  <1>1. GPUAt(g, "running") /\ "running" \in Stage /\ "stopCU" \in Stage
    BY StageIs DEF Typed, Staged, Stage, Stops
  <1>2. CPTypeOK /\ CPTypeOK' /\ CU \in Groups
    BY DEF Typed, Groups
  <1>3. GPUAt(g, "stopCU")' /\ ~Flushing(g)' /\ \A h \in GPU : h # g => GPUKept(h)
    BY <1>1, <1>2, ShootdownBegins
  <1>4. /\ FromDriver(g, "shootdown") /\ RetrieveFromDriver(g) /\ SendTo(g, CU, "flush") /\ fromPart' = fromPart
        /\ UNCHANGED <<pmcVars, toPMCSender, gpuVars>> /\ uplink' = uplink
    BY DEF ProcessShootdownCommand
  <1>5. \A h \in GPU : SidesKept(h)
    BY <1>2, <1>4, SidesSent
  <1> QED BY <1>1, <1>3, <1>4, <1>5, StageBegins

(* A halted GPU takes a restart and begins to start. *)
LEMMA RestartTaken ==
    ASSUME Typed, Typed', Staged, NEW g \in GPU, Halted(g), ProcessGPURestartReq(g), driver' = driver
    PROVE  Staged' /\ Begins("gpuRestart", g)
  <1>1. GPUAt(g, "stopped") /\ "stopped" \in Stage /\ "startCache" \in Stage
    BY StageIs DEF Typed, Staged, Halted, Stage, Starts
  <1>2. CPTypeOK /\ CPTypeOK' /\ Cache \in Groups
    BY DEF Typed, Groups
  <1>3. ~Flushing(g)
    <2>1. CacheAt("stopped") = "down"
      BY DEF CacheAt
    <2>2. GroupAt(g, Cache, "down")
      BY <1>1, <2>1 DEF GPUAt
    <2> QED BY <2>2, NotFlushing
  <1>4. GPUAt(g, "startCache")' /\ ~Flushing(g)' /\ \A h \in GPU : h # g => GPUKept(h)
    BY <1>1, <1>2, <1>3, RestartBegins
  <1>5. /\ FromDriver(g, "gpuRestart") /\ RetrieveFromDriver(g) /\ SendTo(g, Cache, "restart")
        /\ fromPart' = fromPart /\ UNCHANGED <<pmcVars, toPMCSender, gpuVars>> /\ uplink' = uplink
    BY DEF ProcessGPURestartReq
  <1>6. \A h \in GPU : SidesKept(h)
    BY <1>2, <1>5, SidesSent
  <1> QED BY <1>1, <1>3, <1>4, <1>5, <1>6, StageBegins

(* A GPU that neither stops nor has stopped takes a flush and begins it. *)
LEMMA FlushTaken ==
    ASSUME Typed, Typed', Staged, NEW g \in GPU, StageOf(g) \notin Stops, ~Halted(g),
           ProcessFlushCommand(g), driver' = driver
    PROVE  Staged' /\ Begins("flush", g)
  <1>1. PICK s \in Stage : GPUAt(g, s)
    BY DEF Staged
  <1>2. CPTypeOK /\ CPTypeOK' /\ Cache \in Groups
    BY DEF Typed, Groups
  <1>3. s \notin Stops /\ s # "stopped"
    BY <1>1, <1>2, StageIs DEF Halted
  <1>4. s # "startCache"
    <2> SUFFICES ASSUME s = "startCache" PROVE FALSE
      OBVIOUS
    <2>1. CacheAt("startCache") = "starts"
      BY DEF CacheAt
    <2>2. BusyOf(g, Cache) # {} /\ cp[g].numCacheACK = Cardinality(BusyOf(g, Cache))
      BY <1>1, <2>1 DEF GPUAt, GroupAt, CountAt
    <2>3. Cardinality(BusyOf(g, Cache)) # 0
      BY <1>1, <1>2, <2>2, CountsAt
    <2> QED BY <2>2, <2>3 DEF ProcessFlushCommand
  <1>5. s \in {"running", "startTLB", "startAT", "startCU"}
    BY <1>1, <1>3, <1>4 DEF Stage, Starts
  <1>6. GPUAt(g, s)' /\ ~Flushing(g) /\ Flushing(g)' /\ \A h \in GPU : h # g => GPUKept(h)
    BY <1>1, <1>2, <1>5, FlushBegins
  <1>7. /\ FromDriver(g, "flush") /\ RetrieveFromDriver(g) /\ SendTo(g, Cache, "flush")
        /\ fromPart' = fromPart /\ UNCHANGED <<pmcVars, toPMCSender, gpuVars>> /\ uplink' = uplink
    BY DEF ProcessFlushCommand
  <1>8. \A h \in GPU : SidesKept(h)
    BY <1>2, <1>7, SidesSent
  <1> QED BY <1>1, <1>6, <1>7, <1>8, StageBegins

(* A step that touches neither the sides nor the groups of any GPU. *)
LEMMA Untouched ==
    ASSUME Staged, Typed, toPart' = toPart, fromPart' = fromPart, paused' = paused, cp' = cp
    PROVE  /\ Staged' /\ \A h \in GPU : Halted(h)' = Halted(h)
           /\ \A k \in Kinds \ {"launch", "migrate"}, h \in GPU : Inside(k, h)' = Inside(k, h)
  <1>1. \A h \in GPU : GroupsKept(h)
    BY DEF GroupsKept, PartKept
  <1>2. /\ Staged' /\ \A h \in GPU : Halted(h)' = Halted(h)
        /\ \A k \in {"flush", "shootdown", "gpuRestart"}, h \in GPU : Inside(k, h)' = Inside(k, h)
    BY <1>1, Unstaged
  <1>3. \A p, k, h : InPart(h, p, k)' = InPart(h, p, k)
    BY DEF InPart
  <1>4. ASSUME NEW k \in {"copy", "drain", "rdmaRestart"}, NEW h \in GPU PROVE Inside(k, h)' = Inside(k, h)
    BY <1>3, <1>4, InsideIs, InsideIsNext
  <1> QED BY <1>2, <1>4 DEF Kinds

(* A kernel launch is taken in by the dispatcher. *)
LEMMA LaunchTaken ==
    ASSUME Typed, Staged, NEW g \in GPU, ProcessLaunchKernelReq(g), driver' = driver
    PROVE  Staged' /\ Begins("launch", g)
  <1>1. /\ FromDriver(g, "launch") /\ RetrieveFromDriver(g) /\ toPart' = toPart /\ fromPart' = fromPart
        /\ paused' = paused /\ cp' = cp /\ uplink' = uplink /\ toPMCSender' = toPMCSender
        /\ ctrlPort' = ctrlPort /\ isHandlingPageMigration' = isHandlingPageMigration
        /\ ~dispatching[g] /\ dispatching' = [dispatching EXCEPT ![g] = TRUE]
    BY DEF ProcessLaunchKernelReq, pmcVars, migrationVars
  <1>2. /\ Staged' /\ \A h \in GPU : Halted(h)' = Halted(h)
        /\ \A k \in Kinds \ {"launch", "migrate"}, h \in GPU : Inside(k, h)' = Inside(k, h)
    BY <1>1, Untouched
  <1>3. ASSUME NEW h \in GPU PROVE Inside("migrate", h)' = Inside("migrate", h)
    BY <1>1, InsideIs, InsideIsNext
  <1>4. dispatching'[g] = TRUE /\ \A h \in GPU : h # g => dispatching'[h] = dispatching[h]
    BY <1>1 DEF Typed, CPTypeOK
  <1>5. \A h \in GPU : h # g => Inside("launch", h)' = Inside("launch", h)
    BY <1>4, InsideIs, InsideIsNext
  <1>6. Inside("launch", g)' = Inside("launch", g) + 1
    <2>1. Inside("launch", g) = 0
      BY <1>1, InsideIs DEF One
    <2>2. Inside("launch", g)' = 1
      BY <1>4, InsideIsNext DEF One
    <2> QED BY <2>1, <2>2
  <1>7. \A l \in Kinds, h \in GPU : l # "launch" \/ h # g => Inside(l, h)' = Inside(l, h)
    BY <1>2, <1>3, <1>5
  <1>8. "launch" \in Kinds /\ driver'.requestsToSend = driver.requestsToSend
    BY DEF Kinds
  <1> QED BY <1>1, <1>2, <1>6, <1>7, <1>8, BeginsIs

(* The messages of a migration in front of a page migration controller.    *)
Ahead(g) == Len(toPMCSender[g]) + Len(ctrlPort[g])
Behind(g) == One(isHandlingPageMigration[g]) + Len(fromPart[g]["pmc"])

(* A migration inside a GPU is on its way to the page migration controller or comes from it. *)
LEMMA MigrateIs ==
    \A g \in GPU : Typed => /\ Inside("migrate", g) = Ahead(g) + Behind(g)
                            /\ Ahead(g) \in Nat /\ Behind(g) \in Nat
  <1> SUFFICES ASSUME NEW g \in GPU, Typed
               PROVE  Inside("migrate", g) = Ahead(g) + Behind(g) /\ Ahead(g) \in Nat /\ Behind(g) \in Nat
    OBVIOUS
  <1> DEFINE a == Len(toPMCSender[g])
  <1> DEFINE b == Len(ctrlPort[g])
  <1> DEFINE c == One(isHandlingPageMigration[g])
  <1> DEFINE d == Len(fromPart[g]["pmc"])
  <1>1. a \in Nat /\ b \in Nat /\ d \in Nat
    BY PartsApart, LenProperties DEF Typed, CPTypeOK
  <1>2. c \in Nat
    BY DEF One
  <1>3. Inside("migrate", g) = a + b + c + d /\ Ahead(g) = a + b /\ Behind(g) = c + d
    BY InsideIs DEF Ahead, Behind
  <1> HIDE DEF a, b, c, d
  <1> QED BY <1>1, <1>2, <1>3

(* The same after a step. *)
LEMMA MigrateIsNext ==
   (\A g \in GPU : Typed => /\ Inside("migrate", g) = Ahead(g) + Behind(g)
                            /\ Ahead(g) \in Nat /\ Behind(g) \in Nat)'
  BY MigrateIs, PTL

(* A migration stays inside a GPU while its queues stay the same. *)
LEMMA MigrateKept ==
    ASSUME NEW h, toPMCSender'[h] = toPMCSender[h], ctrlPort'[h] = ctrlPort[h],
           isHandlingPageMigration'[h] = isHandlingPageMigration[h], fromPart'[h]["pmc"] = fromPart[h]["pmc"]
    PROVE  Inside("migrate", h)' = Inside("migrate", h)
  <1>1. Len(toPMCSender'[h]) = Len(toPMCSender[h]) /\ Len(ctrlPort'[h]) = Len(ctrlPort[h])
        /\ One(isHandlingPageMigration'[h]) = One(isHandlingPageMigration[h])
        /\ Len(fromPart'[h]["pmc"]) = Len(fromPart[h]["pmc"])
    OBVIOUS
  <1>2. Inside("migrate", h)' = Len(toPMCSender'[h]) + Len(ctrlPort'[h]) + One(isHandlingPageMigration'[h])
                                  + Len(fromPart'[h]["pmc"])
    BY InsideIsNext
  <1>3. Inside("migrate", h) = Len(toPMCSender[h]) + Len(ctrlPort[h]) + One(isHandlingPageMigration[h])
                                  + Len(fromPart[h]["pmc"])
    BY InsideIs
  <1> QED BY <1>1, <1>2, <1>3

(* A migration command is taken in and put before the page migration controller. *)
LEMMA MigrateTaken ==
    ASSUME Typed, Typed', Staged, NEW g \in GPU, ProcessPageMigrationReq(g), driver' = driver
    PROVE  Staged' /\ Begins("migrate", g)
  <1>1. /\ FromDriver(g, "migrate") /\ RetrieveFromDriver(g) /\ toPart' = toPart /\ fromPart' = fromPart
        /\ paused' = paused /\ cp' = cp /\ uplink' = uplink
        /\ ctrlPort' = ctrlPort /\ isHandlingPageMigration' = isHandlingPageMigration
        /\ dispatching' = dispatching
    BY DEF ProcessPageMigrationReq, pmcVars, migrationVars, gpuVars
  <1>2. /\ Staged' /\ \A h \in GPU : Halted(h)' = Halted(h)
        /\ \A k \in Kinds \ {"launch", "migrate"}, h \in GPU : Inside(k, h)' = Inside(k, h)
    BY <1>1, Untouched
  <1>3. ASSUME NEW h \in GPU PROVE Inside("launch", h)' = Inside("launch", h)
    BY <1>1, InsideIs, InsideIsNext
  <1>4. toPMCSender[g] \in Seq(Migration) /\ toPMCSender'[g] \in Seq(Migration)
        /\ \A h \in GPU : h # g => toPMCSender'[h] = toPMCSender[h]
    BY DEF Typed, CPTypeOK, ProcessPageMigrationReq
  <1>5. Len(toPMCSender'[g]) = Len(toPMCSender[g]) + 1
    <2> DEFINE m == [page |-> Head(toDriver[g]).page, from |-> Head(toDriver[g]).from]
    <2>1. toPMCSender'[g] = Append(toPMCSender[g], m)
      BY DEF Typed, CPTypeOK, ProcessPageMigrationReq
    <2> HIDE DEF m
    <2> QED BY <1>4, <2>1
  <1>6. \A h \in GPU : h # g => Inside("migrate", h)' = Inside("migrate", h)
    BY <1>1, <1>4, MigrateKept
  <1>7. Inside("migrate", g)' = Inside("migrate", g) + 1
    <2>1. Len(ctrlPort[g]) \in Nat /\ Len(toPMCSender[g]) \in Nat
      BY LenProperties DEF Typed, CPTypeOK
    <2>2. Ahead(g)' = Ahead(g) + 1
      <3> DEFINE a == Len(toPMCSender[g])
      <3> DEFINE b == Len(ctrlPort[g])
      <3>1. Ahead(g) = a + b /\ Ahead(g)' = (a + 1) + b /\ a \in Nat /\ b \in Nat
        BY <1>1, <1>5, <2>1 DEF Ahead
      <3> HIDE DEF a, b
      <3> QED BY <3>1
    <2>3. Behind(g)' = Behind(g)
      BY <1>1 DEF Behind
    <2> QED BY <2>2, <2>3, MigrateIs, MigrateIsNext
  <1>8. \A l \in Kinds, h \in GPU : l # "migrate" \/ h # g => Inside(l, h)' = Inside(l, h)
    BY <1>2, <1>3, <1>6
  <1>9. "migrate" \in Kinds /\ driver'.requestsToSend = driver.requestsToSend
    BY DEF Kinds
  <1> QED BY <1>1, <1>2, <1>7, <1>8, <1>9, BeginsIs

(* Steps that leave the number of messages of every migration as it is.    *)
LEMMA StillMigrating ==
    ASSUME Typed, Typed', Staged, NEW g \in GPU, toPart' = toPart, paused' = paused, cp' = cp,
           \A h \in GPU, p \in Part : h # g \/ p # "pmc" => fromPart'[h][p] = fromPart[h][p],
           dispatching' = dispatching, toDriver' = toDriver, uplink' = uplink, driver' = driver,
           \A h \in GPU : h # g => /\ toPMCSender'[h] = toPMCSender[h] /\ ctrlPort'[h] = ctrlPort[h]
                                   /\ isHandlingPageMigration'[h] = isHandlingPageMigration[h],
           Ahead(g)' + Behind(g)' = Ahead(g) + Behind(g)
    PROVE  Staged' /\ Still
  <1>1. "pmc" \in Sides /\ "dma" \in Part /\ "rdma" \in Part /\ "pmc" \in Part
    BY PartsApart DEF Sides
  <1>2. \A h \in GPU : GroupsKept(h)
    <2>1. \A h \in GPU, q \in Part : h # g \/ q # "pmc" => toPart'[h][q] = toPart[h][q]
      OBVIOUS
    <2>2. \A h \in GPU, q \in Part \ Sides : q \in paused'[h] <=> q \in paused[h]
      OBVIOUS
    <2> QED BY <1>1, <2>1, <2>2, SideSteps
  <1>3. /\ Staged' /\ \A h \in GPU : Halted(h)' = Halted(h)
        /\ \A k \in {"flush", "shootdown", "gpuRestart"}, h \in GPU : Inside(k, h)' = Inside(k, h)
    BY <1>2, Unstaged
  <1>5. ASSUME NEW k \in {"launch", "copy", "drain", "rdmaRestart"}, NEW h \in GPU
        PROVE  Inside(k, h)' = Inside(k, h)
    <2>1. \A l : InPart(h, "dma", l)' = InPart(h, "dma", l) /\ InPart(h, "rdma", l)' = InPart(h, "rdma", l)
      BY <1>1 DEF InPart
    <2> QED BY <2>1, InsideIs, InsideIsNext
  <1>6. ASSUME NEW h \in GPU PROVE Inside("migrate", h)' = Inside("migrate", h)
    <2>1. CASE h = g
      BY <2>1, MigrateIs, MigrateIsNext
    <2>2. CASE h # g
      <3>1. /\ fromPart'[h]["pmc"] = fromPart[h]["pmc"] /\ toPMCSender'[h] = toPMCSender[h]
            /\ ctrlPort'[h] = ctrlPort[h] /\ isHandlingPageMigration'[h] = isHandlingPageMigration[h]
        BY <1>1, <2>2
      <3> QED BY <3>1, MigrateKept
    <2> QED BY <2>1, <2>2
  <1>7. \A k \in Kinds, h \in GPU : Inside(k, h)' = Inside(k, h)
    BY <1>3, <1>5, <1>6 DEF Kinds
  <1> QED BY <1>3, <1>7, StillIs

(* A migration sent on to the page migration controller stays inside the GPU. *)
LEMMA PMCSent ==
    ASSUME Typed, Typed', Staged, NEW g \in GPU, SendToPMC(g), driver' = driver
    PROVE  Staged' /\ Still
  <1>1. /\ toPMCSender[g] # <<>> /\ ctrlPort[g] = <<>>
        /\ ctrlPort' = [ctrlPort EXCEPT ![g] = <<Head(toPMCSender[g])>>]
        /\ toPMCSender' = [toPMCSender EXCEPT ![g] = Tail(@)]
        /\ toPart' = toPart /\ fromPart' = fromPart /\ paused' = paused /\ cp' = cp /\ uplink' = uplink
        /\ toDriver' = toDriver /\ dispatching' = dispatching
        /\ isHandlingPageMigration' = isHandlingPageMigration
    BY DEF SendToPMC, gpuVars
  <1>2. toPMCSender[g] \in Seq(Migration) /\ toPMCSender'[g] = Tail(toPMCSender[g])
        /\ ctrlPort'[g] = <<Head(toPMCSender[g])>>
        /\ \A h \in GPU : h # g => toPMCSender'[h] = toPMCSender[h] /\ ctrlPort'[h] = ctrlPort[h]
    BY <1>1 DEF Typed, CPTypeOK
  <1>3. Len(toPMCSender'[g]) = Len(toPMCSender[g]) - 1 /\ Len(ctrlPort'[g]) = 1 /\ Len(ctrlPort[g]) = 0
        /\ Len(toPMCSender[g]) \in Nat
    BY <1>1, <1>2, TailAt, OneMessage, LenProperties
  <1>4. Ahead(g)' = Ahead(g)
    <2> DEFINE a == Len(toPMCSender[g])
    <2>1. Ahead(g) = a + 0 /\ Ahead(g)' = (a - 1) + 1 /\ a \in Nat
      BY <1>3 DEF Ahead
    <2> HIDE DEF a
    <2> QED BY <2>1
  <1>5. Behind(g)' = Behind(g)
    BY <1>1 DEF Behind
  <1> QED BY <1>1, <1>2, <1>4, <1>5, StillMigrating

(* A migration the page migration controller takes up stays inside the GPU. *)
LEMMA PMCTaken ==
    ASSUME Typed, Typed', Staged, NEW g \in GPU, ProcessPageMigrationReqFromCtrlPort(g), UNCHANGED cpVars,
           driver' = driver
    PROVE  Staged' /\ Still
  <1>1. /\ ctrlPort[g] # <<>> /\ ctrlPort' = [ctrlPort EXCEPT ![g] = Tail(@)]
        /\ ~isHandlingPageMigration[g]
        /\ isHandlingPageMigration' = [isHandlingPageMigration EXCEPT ![g] = TRUE]
        /\ toPart' = toPart /\ fromPart' = fromPart /\ paused' = paused /\ cp' = cp /\ uplink' = uplink
        /\ toDriver' = toDriver /\ dispatching' = dispatching /\ toPMCSender' = toPMCSender
    BY DEF ProcessPageMigrationReqFromCtrlPort, cpVars, portVars, gpuVars
  <1>2. ctrlPort[g] \in Seq(Migration) /\ ctrlPort'[g] = Tail(ctrlPort[g]) /\ isHandlingPageMigration'[g] = TRUE
        /\ \A h \in GPU : h # g => /\ ctrlPort'[h] = ctrlPort[h]
                                   /\ isHandlingPageMigration'[h] = isHandlingPageMigration[h]
    BY <1>1 DEF Typed
  <1>3. Len(ctrlPort'[g]) = Len(ctrlPort[g]) - 1 /\ Len(ctrlPort[g]) \in Nat
    BY <1>1, <1>2, TailAt, LenProperties
  <1>4. One(isHandlingPageMigration[g]) = 0 /\ One(isHandlingPageMigration'[g]) = 1
    BY <1>1, <1>2 DEF One
  <1>5. Len(toPMCSender[g]) \in Nat /\ Len(fromPart[g]["pmc"]) \in Nat
    BY PartsApart, LenProperties DEF Typed, CPTypeOK
  <1>6. Ahead(g)' + Behind(g)' = Ahead(g) + Behind(g)
    <2> DEFINE a == Len(toPMCSender[g])
    <2> DEFINE b == Len(ctrlPort[g])
    <2> DEFINE d == Len(fromPart[g]["pmc"])
    <2>1. Ahead(g) = a + b /\ Ahead(g)' = a + (b - 1) /\ Behind(g) = 0 + d /\ Behind(g)' = 1 + d
          /\ a \in Nat /\ b \in Nat /\ d \in Nat
      BY <1>1, <1>3, <1>4, <1>5 DEF Ahead, Behind
    <2> HIDE DEF a, b, d
    <2> QED BY <2>1
  <1> QED BY <1>1, <1>2, <1>6, StillMigrating

(* A response is due only from a controller that moves a page, and none is *)
(* due while chunks are under way.                                         *)
Answering ==
    \A g \in GPU :
        /\ toSendToCtrlPort[g] => isHandlingPageMigration[g]
        /\ numDataRspPendingForPageMigration[g] > 0 => isHandlingPageMigration[g] /\ ~toSendToCtrlPort[g]

(* The page migration controller's answer stays inside the GPU. *)
LEMMA PMCAnswered ==
    ASSUME Typed, Typed', Staged, Answering, NEW g \in GPU, PMCAnswers(g), driver' = driver
    PROVE  Staged' /\ Still
  <1>1. /\ isHandlingPageMigration[g]
        /\ isHandlingPageMigration' = [isHandlingPageMigration EXCEPT ![g] = FALSE]
        /\ fromPart' = [fromPart EXCEPT ![g]["pmc"] = Append(@, "copy")]
        /\ toPart' = toPart /\ paused' = paused /\ cp' = cp /\ uplink' = uplink
        /\ toDriver' = toDriver /\ dispatching' = dispatching /\ toPMCSender' = toPMCSender
        /\ ctrlPort' = ctrlPort
    BY DEF PMCAnswers, SendMigrationCompleteRspToCtrlPort, gpuVars, Answering
  <1>2. "pmc" \in Part /\ "copy" \in Control
    BY PartsApart DEF Control
  <1>3. /\ \A h \in GPU, p \in Part : h # g \/ p # "pmc" => fromPart'[h][p] = fromPart[h][p]
        /\ fromPart'[g]["pmc"] = Append(fromPart[g]["pmc"], "copy") /\ fromPart[g]["pmc"] \in Seq(Control)
    BY <1>1, <1>2 DEF Typed, CPTypeOK
  <1>4. Len(fromPart'[g]["pmc"]) = Len(fromPart[g]["pmc"]) + 1 /\ Len(fromPart[g]["pmc"]) \in Nat
    BY <1>2, <1>3, LenProperties
  <1>5. isHandlingPageMigration'[g] = FALSE
        /\ \A h \in GPU : h # g => isHandlingPageMigration'[h] = isHandlingPageMigration[h]
    BY <1>1 DEF Typed
  <1>6. One(isHandlingPageMigration[g]) = 1 /\ One(isHandlingPageMigration'[g]) = 0
    BY <1>1, <1>5 DEF One
  <1>7. Behind(g)' = Behind(g)
    <2> DEFINE d == Len(fromPart[g]["pmc"])
    <2>1. Behind(g) = 1 + d /\ Behind(g)' = 0 + (d + 1) /\ d \in Nat
      BY <1>4, <1>6 DEF Behind
    <2> HIDE DEF d
    <2> QED BY <2>1
  <1>8. Ahead(g)' = Ahead(g)
    BY <1>1 DEF Ahead
  <1> QED BY <1>1, <1>3, <1>5, <1>7, <1>8, StillMigrating

(* A step that touches no command leaves every GPU in its stage. *)
LEMMA Elsewhere ==
    ASSUME Typed, Staged, driver' = driver, UNCHANGED <<portVars, cp, dispatching, paused>>,
           ctrlPort' = ctrlPort, isHandlingPageMigration' = isHandlingPageMigration
    PROVE  Staged' /\ Still
  <1>1. /\ toPart' = toPart /\ fromPart' = fromPart /\ paused' = paused /\ cp' = cp /\ uplink' = uplink
        /\ toDriver' = toDriver /\ dispatching' = dispatching /\ toPMCSender' = toPMCSender
    BY DEF portVars
  <1>2. /\ Staged' /\ \A h \in GPU : Halted(h)' = Halted(h)
        /\ \A k \in Kinds \ {"launch", "migrate"}, h \in GPU : Inside(k, h)' = Inside(k, h)
    BY <1>1, Untouched
  <1>3. ASSUME NEW h \in GPU PROVE Inside("launch", h)' = Inside("launch", h) /\ Inside("migrate", h)' = Inside("migrate", h)
    BY <1>1, MigrateKept, InsideIs, InsideIsNext
  <1>4. \A k \in Kinds, h \in GPU : Inside(k, h)' = Inside(k, h)
    BY <1>2, <1>3
  <1> QED BY <1>1, <1>2, <1>4, StillIs

(* The page migration controller of GPU g takes a step. *)
LEMMA PMCSteps ==
    ASSUME Typed, Typed', Staged, NEW g \in GPU, PMCStep(g), UNCHANGED cpVars, driver' = driver
    PROVE  Staged' /\ Still
  <1>1. CASE ProcessPageMigrationReqFromCtrlPort(g)
    BY <1>1, PMCTaken
  <1>2. CASE ~ProcessPageMigrationReqFromCtrlPort(g)
    <2>1. ctrlPort' = ctrlPort /\ isHandlingPageMigration' = isHandlingPageMigration
      BY <1>2 DEF PMCStep, Deliver, MemServes, SendMigrationReqToAnotherPMC, SendDataReadyRspToRequestingPMC,
           SendReadReqLocalMemPort, SendWriteReqLocalMemPort, HandleDataPullReq, HandleDataPullRsp,
           HandleDataReadyRspFromMemCtrl, HandleWriteDoneRspFromMemCtrl, migrationVars
    <2>2. UNCHANGED <<portVars, cp, dispatching, paused>>
      BY DEF cpVars, gpuVars
    <2> QED BY <2>1, <2>2, Elsewhere
  <1> QED BY <1>1, <1>2

-----------------------------------------------------------------------------
(* The steps of the parts of a GPU, and of its kernels.                    *)

LEMMA PartHandles ==
    ASSUME Typed, NEW g \in GPU, PartStep(g)
    PROVE  /\ \E X \in Groups : \E p \in X : Handles(g, p)
           /\ UNCHANGED <<migrationVars, toDriver, uplink, toPMCSender, cp, dispatching>>
  <1>1. paused \in [GPU -> SUBSET Part]
    BY DEF Typed, CPTypeOK
  <1>2. ASSUME NEW p \in CU \cup AT \cup L1, StopsOrContinues(g, p)
        PROVE  Handles(g, p)
    <2>1. /\ toPart[g][p] # <<>> /\ Answers(g, p) /\ cp' = cp
          /\ paused' = [paused EXCEPT ![g] =
                CASE Head(toPart[g][p]) = "restart" -> @ \ {p}
                  [] p \in L1 /\ Head(toPart[g][p]) = "flush" -> @
                  [] OTHER -> @ \cup {p}]
      BY <1>2 DEF StopsOrContinues, HasRequest
    <2>2. /\ Head(toPart[g][p]) = "restart" => paused'[g] = paused[g] \ {p}
          /\ Head(toPart[g][p]) # "restart" /\ p \in L1 /\ Head(toPart[g][p]) = "flush" => paused'[g] = paused[g]
          /\ Head(toPart[g][p]) # "restart" /\ ~(p \in L1 /\ Head(toPart[g][p]) = "flush")
                => paused'[g] = paused[g] \cup {p}
          /\ \A h \in GPU : h # g => paused'[h] = paused[h]
      BY <1>1, <2>1
    <2>3. p \in Cache => p \in L1
      BY PartsApart, CPAssumption DEF Cache
    <2>4. /\ Stop(p) = "reset" \/ Stop(p) = "flush"
          /\ p \in L1 => Stop(p) = "reset"
      BY PartsApart DEF Stop
    <2> QED BY <2>1, <2>2, <2>3, <2>4 DEF Handles
  <1>3. ASSUME L2Flushes(g) \/ L2Restarts(g) PROVE Handles(g, "l2")
    <2>1. "l2" \in Cache /\ Stop("l2") = "reset"
      BY PartsApart DEF Stop
    <2>2. CASE L2Flushes(g)
      <3>1. /\ toPart[g]["l2"] # <<>> /\ Head(toPart[g]["l2"]) \in {"flush", "reset"} /\ Answers(g, "l2") /\ cp' = cp
            /\ paused' = IF Head(toPart[g]["l2"]) = "reset" THEN [paused EXCEPT ![g] = @ \cup {"l2"}] ELSE paused
        BY <2>2 DEF L2Flushes, HasRequest
      <3> QED BY <1>1, <2>1, <3>1 DEF Handles
    <2>3. CASE L2Restarts(g)
      <3>1. /\ toPart[g]["l2"] # <<>> /\ Head(toPart[g]["l2"]) = "restart" /\ Answers(g, "l2") /\ cp' = cp
            /\ paused' = [paused EXCEPT ![g] = @ \ {"l2"}]
        BY <2>3 DEF L2Restarts, HasRequest
      <3> QED BY <1>1, <2>1, <3>1 DEF Handles
    <2> QED BY <1>3, <2>2, <2>3
  <1>4. ASSUME NEW t \in TLB, TLBHandles(g, t) PROVE Handles(g, t)
    <2>1. t \notin Cache /\ Stop(t) = "flush"
      BY PartsApart DEF Stop
    <2>2. /\ toPart[g][t] # <<>> /\ Head(toPart[g][t]) \in {"flush", "restart"} /\ Answers(g, t) /\ cp' = cp
          /\ Head(toPart[g][t]) = "flush" => paused' = [paused EXCEPT ![g] = @ \cup {t}]
          /\ Head(toPart[g][t]) # "flush" => paused' = [paused EXCEPT ![g] = @ \ {t}]
      BY <1>4 DEF TLBHandles, HasRequest
    <2> QED BY <1>1, <2>1, <2>2 DEF Handles
  <1>5. \E X \in Groups : \E p \in X : Handles(g, p)
    BY <1>2, <1>3, <1>4, PartsApart DEF PartStep, Groups
  <1>6. UNCHANGED <<migrationVars, toDriver, uplink, toPMCSender, cp, dispatching>>
    BY DEF PartStep, StopsOrContinues, L2Flushes, L2Restarts, TLBHandles, pmcVars
  <1> QED BY <1>5, <1>6

(* A step of a part changes neither stage nor count. *)
LEMMA PartSteps ==
    ASSUME Typed, Typed', Staged, NEW g \in GPU, PartStep(g), driver' = driver
    PROVE  Staged' /\ Still
  <1>1. PICK X \in Groups : \E p \in X : Handles(g, p)
    BY PartHandles
  <1>2. PICK p \in X : Handles(g, p)
    BY <1>1
  <1>3. PICK s \in Stage : GPUAt(g, s)
    BY DEF Staged
  <1>4. CPTypeOK /\ CPTypeOK'
    BY DEF Typed
  <1>5. GPUAt(g, s)' /\ Flushing(g)' = Flushing(g) /\ \A h \in GPU : h # g => GPUKept(h)
    BY <1>1, <1>2, <1>3, <1>4, HandlesAll
  <1>6. Answers(g, p)
    BY <1>2 DEF Handles
  <1>7. \A h \in GPU : \A q \in Sides : toPart'[h][q] = toPart[h][q] /\ fromPart'[h][q] = fromPart[h][q]
    BY <1>1, <1>2, <1>4, <1>6, SideAnswered
  <1>8. /\ toDriver' = toDriver /\ uplink' = uplink /\ toPMCSender' = toPMCSender /\ dispatching' = dispatching
        /\ ctrlPort' = ctrlPort /\ isHandlingPageMigration' = isHandlingPageMigration
    BY PartHandles DEF migrationVars
  <1>9. \A h \in GPU : SidesKept(h)
    BY <1>7, <1>8 DEF SidesKept
  <1> QED BY <1>3, <1>5, <1>8, <1>9, StageStill

(* The RDMA or DMA engine of GPU g answers a request. *)
LEMMA SideStill ==
    ASSUME Typed, Staged, NEW g \in GPU, NEW p \in Sides, toPart[g][p] # <<>>, Answers(g, p),
           UNCHANGED <<pmcVars, toDriver, uplink, toPMCSender, cp, dispatching, driver>>, p # "pmc",
           \A h \in GPU, q \in Part \ Sides : q \in paused'[h] <=> q \in paused[h]
    PROVE  Staged' /\ Still
  <1>1. CPTypeOK
    BY DEF Typed
  <1>2. /\ toDriver' = toDriver /\ uplink' = uplink /\ toPMCSender' = toPMCSender /\ dispatching' = dispatching
        /\ ctrlPort' = ctrlPort /\ isHandlingPageMigration' = isHandlingPageMigration /\ cp' = cp
        /\ driver'.requestsToSend = driver.requestsToSend
    BY DEF pmcVars, migrationVars
  <1>3. /\ \A h \in GPU, q \in Part : h # g \/ q # p =>
              toPart'[h][q] = toPart[h][q] /\ fromPart'[h][q] = fromPart[h][q]
        /\ \A h \in GPU, q \in Sides : \A l : InPart(h, q, l)' = InPart(h, q, l)
    BY <1>1, SideAnswers
  <1>4. \A h \in GPU : GroupsKept(h)
    BY <1>2, <1>3, SideSteps
  <1>5. /\ Staged' /\ \A h \in GPU : Halted(h)' = Halted(h)
        /\ \A k \in {"flush", "shootdown", "gpuRestart"}, h \in GPU : Inside(k, h)' = Inside(k, h)
    BY <1>4, Unstaged
  <1>6. ASSUME NEW k \in {"launch", "copy", "drain", "rdmaRestart"}, NEW h \in GPU
        PROVE  Inside(k, h)' = Inside(k, h)
    <2>1. \A l : InPart(h, "dma", l)' = InPart(h, "dma", l) /\ InPart(h, "rdma", l)' = InPart(h, "rdma", l)
      BY <1>3 DEF Sides
    <2> QED BY <1>2, <2>1, InsideIs, InsideIsNext
  <1>7. ASSUME NEW h \in GPU PROVE Inside("migrate", h)' = Inside("migrate", h)
    <2>1. fromPart'[h]["pmc"] = fromPart[h]["pmc"]
      BY <1>3, PartsApart
    <2> QED BY <1>2, <2>1, MigrateKept
  <1>8. \A k \in Kinds, h \in GPU : Inside(k, h)' = Inside(k, h)
    BY <1>5, <1>6, <1>7 DEF Kinds
  <1> QED BY <1>2, <1>5, <1>8, StillIs

(* A step of an engine beside the groups changes neither stage nor count. *)
LEMMA SideHandles ==
    ASSUME Typed, Staged, NEW g \in GPU, RDMAPauses(g) \/ RDMADrained(g) \/ RDMARestarts(g) \/ DMACopies(g)
    PROVE  Staged' /\ Still
  <1>1. "rdma" \in Sides /\ "dma" \in Sides /\ "rdma" # "pmc" /\ "dma" # "pmc"
    BY DEF Sides
  <1>2. paused \in [GPU -> SUBSET Part]
    BY DEF Typed, CPTypeOK
  <1>3. CASE RDMAPauses(g)
    <2>1. \A h \in GPU, q \in Part \ Sides : q \in paused'[h] <=> q \in paused[h]
      BY <1>1, <1>2, <1>3 DEF RDMAPauses
    <2>2. toPart' = toPart /\ fromPart' = fromPart
      BY <1>3 DEF RDMAPauses, portVars
    <2>3. \A h \in GPU : GroupsKept(h)
      BY <1>1, <2>1, <2>2, <1>3, SideSteps DEF RDMAPauses
    <2>4. /\ Staged' /\ \A h \in GPU : Halted(h)' = Halted(h)
          /\ \A k \in {"flush", "shootdown", "gpuRestart"}, h \in GPU : Inside(k, h)' = Inside(k, h)
      BY <2>3, Unstaged
    <2>5. /\ toDriver' = toDriver /\ uplink' = uplink /\ toPMCSender' = toPMCSender /\ dispatching' = dispatching
          /\ ctrlPort' = ctrlPort /\ isHandlingPageMigration' = isHandlingPageMigration
          /\ driver'.requestsToSend = driver.requestsToSend
      BY <1>3 DEF RDMAPauses, portVars, pmcVars, migrationVars
    <2>6. \A h : SidesKept(h)
      BY <2>2, <2>5 DEF SidesKept
    <2>7. \A k \in Kinds, h \in GPU : Inside(k, h)' = Inside(k, h)
      BY <2>4, <2>6, SidesInside DEF Kinds
    <2> QED BY <2>4, <2>5, <2>7, StillIs
  <1>4. CASE RDMADrained(g)
    <2>1. /\ toPart[g]["rdma"] # <<>> /\ Answers(g, "rdma") /\ paused' = paused
          /\ UNCHANGED <<pmcVars, toDriver, uplink, toPMCSender, cp, dispatching, driver>>
      BY <1>4 DEF RDMADrained, HasRequest, gpuVars
    <2> QED BY <1>1, <2>1, SideStill
  <1>5. CASE RDMARestarts(g)
    <2>1. /\ toPart[g]["rdma"] # <<>> /\ Answers(g, "rdma") /\ paused' = [paused EXCEPT ![g] = @ \ {"rdma"}]
          /\ UNCHANGED <<pmcVars, toDriver, uplink, toPMCSender, cp, dispatching, driver>>
      BY <1>5 DEF RDMARestarts, HasRequest
    <2>2. \A h \in GPU, q \in Part \ Sides : q \in paused'[h] <=> q \in paused[h]
      BY <1>1, <1>2, <2>1
    <2> QED BY <1>1, <2>1, <2>2, SideStill
  <1>6. CASE DMACopies(g)
    <2>1. /\ toPart[g]["dma"] # <<>> /\ Answers(g, "dma") /\ paused' = paused
          /\ UNCHANGED <<pmcVars, toDriver, uplink, toPMCSender, cp, dispatching, driver>>
      BY <1>6 DEF DMACopies, HasRequest, gpuVars
    <2> QED BY <1>1, <2>1, SideStill
  <1> QED BY <1>3, <1>4, <1>5, <1>6

(* A kernel that is done answers its launch. *)
LEMMA KernelFinishes ==
    ASSUME Typed, Staged, NEW g \in GPU, KernelDone(g)
    PROVE  Staged' /\ Ends("launch", g)
  <1>1. /\ toPart' = toPart /\ fromPart' = fromPart
        /\ paused' = paused /\ cp' = cp /\ toDriver' = toDriver /\ toPMCSender' = toPMCSender
        /\ ctrlPort' = ctrlPort /\ isHandlingPageMigration' = isHandlingPageMigration
        /\ dispatching[g] /\ dispatching' = [dispatching EXCEPT ![g] = FALSE] /\ SendToDriver(g, "launch")
        /\ driver'.requestsToSend = driver.requestsToSend
    BY DEF KernelDone, pmcVars, migrationVars
  <1>2. /\ Staged' /\ \A h \in GPU : Halted(h)' = Halted(h)
        /\ \A k \in Kinds \ {"launch", "migrate"}, h \in GPU : Inside(k, h)' = Inside(k, h)
    BY <1>1, Untouched
  <1>3. ASSUME NEW h \in GPU PROVE Inside("migrate", h)' = Inside("migrate", h)
    BY <1>1, MigrateKept
  <1>4. dispatching'[g] = FALSE /\ \A h \in GPU : h # g => dispatching'[h] = dispatching[h]
    BY <1>1 DEF Typed, CPTypeOK
  <1>5. \A h \in GPU : h # g => Inside("launch", h)' = Inside("launch", h)
    BY <1>4, InsideIs, InsideIsNext
  <1>6. Inside("launch", g)' = Inside("launch", g) - 1
    <2>1. Inside("launch", g) = 1
      BY <1>1, InsideIs DEF One
    <2>2. Inside("launch", g)' = 0
      BY <1>4, InsideIsNext DEF One
    <2> QED BY <2>1, <2>2
  <1>7. \A l \in Kinds, h \in GPU : l # "launch" \/ h # g => Inside(l, h)' = Inside(l, h)
    BY <1>2, <1>3, <1>5
  <1>8. "launch" \in Kinds
    BY DEF Kinds
  <1> QED BY <1>1, <1>2, <1>6, <1>7, <1>8, EndsIs

-----------------------------------------------------------------------------
(* The inductive invariant: the driver.                                    *)

req      == driver.currentPageMigrationReq
OnePage  == driver.isCurrentlyMigratingOnePage
Handling == driver.isCurrentlyHandlingMigrationReq
ToMove   == driver.migrationReqToSendToCP

Due(k) == { g \in GPU : Under(k, g) # 0 }

(* The part of a migration the driver is in: the first of its counters     *)
(* that is not zero.                                                       *)
Phase ==
    CASE ~Handling -> "idle"
      [] Handling /\ driver.numRDMADrainACK # 0 -> "drain"
      [] Handling /\ driver.numRDMADrainACK = 0 /\ driver.numShootDownACK # 0 -> "shootdown"
      [] Handling /\ driver.numRDMADrainACK = 0 /\ driver.numShootDownACK = 0
            /\ driver.numPagesMigratingACK # 0 -> "migrate"
      [] Handling /\ driver.numRDMADrainACK = 0 /\ driver.numShootDownACK = 0
            /\ driver.numPagesMigratingACK = 0 /\ driver.numRestartACK # 0 -> "gpuRestart"
      [] OTHER -> "rdmaRestart"

Count(k) ==
    CASE k = "drain" -> driver.numRDMADrainACK
      [] k = "shootdown" -> driver.numShootDownACK
      [] k = "migrate" -> driver.numPagesMigratingACK
      [] k = "gpuRestart" -> driver.numRestartACK
      [] OTHER -> driver.numRDMARestartACK

Sweeps == {"drain", "shootdown", "gpuRestart", "rdmaRestart"}

Legal(r) ==
    /\ r \in PageMigrationReq /\ r.pages # {}
    /\ r.to \in r.accessing /\ r.host \in r.accessing /\ r.to # r.host

(* Every counter counts the GPUs with a command of its kind, and at most   *)
(* one of them is not zero.                                                *)
Phased ==
    /\ \A k \in Sweeps : Count(k) = Cardinality(Due(k))
    /\ \A k \in Sweeps : \A g \in GPU : Under(k, g) \in {0, 1}
    /\ \A k \in Sweeps \cup {"migrate"} : Count(k) # 0 <=> Phase = k
    /\ Handling => Legal(req)
    /\ \A k \in {"shootdown", "gpuRestart"} : \A g \in Due(k) : g \in req.accessing

(* One page is on its way at a time, to the GPU that asked for it.         *)
Paging ==
    /\ Count("migrate") = Len(ToMove) + One(OnePage # "nil")
    /\ \A g \in GPU : Under("migrate", g) = One(OnePage # "nil" /\ g = req.to)
    /\ OnePage # "nil" => OnePage \in req.pages
    /\ Phase = "migrate" =>
         ToMove \in Seq([type : {"migrate"}, gpu : {req.to}, page : req.pages, from : {req.host}])
    /\ Phase = "migrate" => \A p \in req.pages : pageTable[p] = req.to

(* A GPU has stopped from its answer to the shootdown on, until it takes   *)
(* the command to restart.                                                 *)
StoppedNow(g) ==
    \/ Phase = "shootdown" /\ g \in req.accessing /\ Before("shootdown", g) = 0 /\ Inside("shootdown", g) = 0
    \/ Phase = "migrate" /\ g \in req.accessing
    \/ Phase = "gpuRestart" /\ Before("gpuRestart", g) = 1

StagesMatch == \A g \in GPU : Halted(g) <=> StoppedNow(g)

(* The command at the head of the queue, and no other, is under way.       *)
Queued ==
    /\ reqs # {} => isRunning /\ queue # <<>>
    /\ isRunning => reqs # {}
    /\ \A k \in {"launch", "flush", "copy"}, g \in GPU :
          Under(k, g) = One(g \in reqs /\ Head(queue).type = k)
    /\ \A g \in reqs : Head(queue).type = "copy" => g = pageTable[Head(queue).page]

(* The kernel that made the MMU ask for a migration runs until the driver  *)
(* has answered.                                                           *)
Asking ==
    /\ mmuWaits # NoReq =>
         /\ Legal(mmuWaits)
         /\ dispatching[mmuWaits.to]
         /\ \/ toMMU = <<mmuWaits>> /\ ~driver.toSendToMMU
            \/ toMMU = <<>> /\ driver.toSendToMMU
            \/ /\ toMMU = <<>> /\ ~driver.toSendToMMU
               /\ Phase \in {"drain", "shootdown", "migrate"} /\ req = mmuWaits
    /\ mmuWaits = NoReq => toMMU = <<>> /\ ~driver.toSendToMMU /\ Phase \in {"idle", "gpuRestart", "rdmaRestart"}
    /\ toMMU # <<>> \/ driver.toSendToMMU => Phase \in {"idle", "gpuRestart", "rdmaRestart"}

(* No flush overtakes the restart of a GPU. *)
InOrder(q) == \A i, j \in DOMAIN q : i < j /\ q[i].type = "flush" => q[j].type # "gpuRestart"

Ordered ==
    /\ InOrder(driver.requestsToSend)
    /\ \A g \in GPU :
        /\ InOrder(toDriver[g])
        /\ Number(toDriver[g], OfType("flush")) # 0
               => Number(driver.requestsToSend, CommandFor("gpuRestart", g)) = 0

Driven == Phased /\ Paging /\ StagesMatch /\ Queued /\ Asking

(* Which part of a migration the counters mean. *)
PhaseFacts ==
    /\ Phase = "idle" <=> ~Handling
    /\ Handling => (Phase = "drain" <=> Count("drain") # 0)
    /\ Handling /\ Count("drain") = 0 => (Phase = "shootdown" <=> Count("shootdown") # 0)
    /\ Handling /\ Count("drain") = 0 /\ Count("shootdown") = 0 => (Phase = "migrate" <=> Count("migrate") # 0)
    /\ Handling /\ Count("drain") = 0 /\ Count("shootdown") = 0 /\ Count("migrate") = 0
         => (Phase = "gpuRestart" <=> Count("gpuRestart") # 0)
    /\ Handling /\ Count("drain") = 0 /\ Count("shootdown") = 0 /\ Count("migrate") = 0
         /\ Count("gpuRestart") = 0 => Phase = "rdmaRestart"
    /\ Phase \in {"idle", "drain", "shootdown", "migrate", "gpuRestart", "rdmaRestart"}

(* What the counter that is not zero says about the phase of the driver. *)
LEMMA PhaseIs == PhaseFacts
  BY DEF PhaseFacts, Phase, Count

(* The same after a step. *)
LEMMA PhaseIsNext == PhaseFacts'
  BY PhaseIs, PTL

(* The counters of the driver, one for each sweep of commands. *)
LEMMA CountIs ==
    /\ Count("drain") = driver.numRDMADrainACK /\ Count("shootdown") = driver.numShootDownACK
    /\ Count("migrate") = driver.numPagesMigratingACK /\ Count("gpuRestart") = driver.numRestartACK
    /\ Count("rdmaRestart") = driver.numRDMARestartACK
  BY DEF Count

(* The same after a step. *)
LEMMA CountIsNext ==
   (/\ Count("drain") = driver.numRDMADrainACK /\ Count("shootdown") = driver.numShootDownACK
    /\ Count("migrate") = driver.numPagesMigratingACK /\ Count("gpuRestart") = driver.numRestartACK
    /\ Count("rdmaRestart") = driver.numRDMARestartACK)'
  BY CountIs, PTL

(* The kinds of commands. *)
LEMMA KindsAre ==
    /\ Sweeps \subseteq Kinds /\ {"launch", "flush", "copy"} \subseteq Kinds
    /\ "migrate" \in Kinds /\ "shootdown" \in Kinds /\ "gpuRestart" \in Kinds /\ "launch" \in Kinds
    /\ "drain" \in Sweeps /\ "shootdown" \in Sweeps /\ "gpuRestart" \in Sweeps /\ "rdmaRestart" \in Sweeps
  BY DEF Sweeps, Kinds

(* Whatever a GPU takes in or answers, the commands under way stay the same. *)
LEMMA SameUnder ==
    ASSUME Typed, Typed', NEW g \in GPU, Still \/ \E k \in Kinds : Begins(k, g) \/ Ends(k, g)
    PROVE  \A k \in Kinds, h \in GPU : Under(k, h)' = Under(k, h)
  <1> SUFFICES ASSUME NEW k \in Kinds, NEW h \in GPU PROVE Under(k, h)' = Under(k, h)
    OBVIOUS
  <1>1. Before(k, h) \in Nat /\ Inside(k, h) \in Nat /\ After(k, h) \in Nat
    BY CountsTyped
  <1>2. Under(k, h) = Before(k, h) + Inside(k, h) + After(k, h)
        /\ Under(k, h)' = Before(k, h)' + Inside(k, h)' + After(k, h)'
    BY DEF Under
  <1>3. CASE Same(k, h)
    BY <1>2, <1>3 DEF Same
  <1>4. CASE h = g /\ Begins(k, g)
    BY <1>1, <1>2, <1>4 DEF Begins
  <1>5. CASE h = g /\ Ends(k, g)
    BY <1>1, <1>2, <1>5 DEF Ends
  <1> QED BY <1>3, <1>4, <1>5 DEF Still, Begins, Ends

(* A command that is under way is counted, and the counter tells the phase. *)
LEMMA DueIs ==
    ASSUME Typed, Phased, NEW k \in Sweeps, NEW g \in GPU, Under(k, g) # 0
    PROVE  /\ Phase = k /\ Under(k, g) = 1 /\ Count(k) # 0 /\ Handling
           /\ k \in {"shootdown", "gpuRestart"} => g \in req.accessing
  <1>1. IsFiniteSet(Due(k)) /\ g \in Due(k)
    <2>1. IsFiniteSet(GPU) /\ Due(k) \subseteq GPU
      BY DriverAssumption DEF Due
    <2>2. IsFiniteSet(Due(k))
      BY <2>1, FS_Subset
    <2> QED BY <2>2 DEF Due
  <1>2. Cardinality(Due(k)) # 0
    BY <1>1, CountZero
  <1>3. Count(k) = Cardinality(Due(k)) /\ Under(k, g) \in {0, 1} /\ (Count(k) # 0 <=> Phase = k)
    BY DEF Phased
  <1>4. k # "idle"
    BY DEF Sweeps
  <1>5. Phase = k
    BY <1>2, <1>3
  <1>6. Handling
    BY <1>4, <1>5, PhaseIs DEF PhaseFacts
  <1>7. k \in {"shootdown", "gpuRestart"} => g \in req.accessing
    BY <1>1 DEF Phased
  <1> QED BY <1>2, <1>3, <1>5, <1>6, <1>7

(* What a component other than the driver does with a command. *)
Moves(g) ==
    \/ Still
    \/ \E k \in Kinds : Begins(k, g)
    \/ \E k \in Kinds : Ends(k, g) /\ (k = "launch" => mmuWaits.to # g)

(* A step of a group is a step that moves commands along. *)
LEMMA GoesMoves ==
    ASSUME NEW g, Goes(g)
    PROVE  Moves(g)
  BY DEF Goes, Moves

(* The fields of the driver, its list of requests apart. *)
DriverKept ==
    /\ driver'.currentPageMigrationReq = driver.currentPageMigrationReq
    /\ driver'.isCurrentlyHandlingMigrationReq = driver.isCurrentlyHandlingMigrationReq
    /\ driver'.migrationReqToSendToCP = driver.migrationReqToSendToCP
    /\ driver'.isCurrentlyMigratingOnePage = driver.isCurrentlyMigratingOnePage
    /\ driver'.numRDMADrainACK = driver.numRDMADrainACK
    /\ driver'.numShootDownACK = driver.numShootDownACK
    /\ driver'.numPagesMigratingACK = driver.numPagesMigratingACK
    /\ driver'.numRestartACK = driver.numRestartACK
    /\ driver'.numRDMARestartACK = driver.numRDMARestartACK
    /\ driver'.toSendToMMU = driver.toSendToMMU

(* A step that moves commands along changes no phase, counter or number of commands. *)
LEMMA MovedUnder ==
    ASSUME Typed, Typed', NEW g \in GPU, Moves(g), DriverKept
    PROVE  /\ \A k \in Kinds, h \in GPU : Under(k, h)' = Under(k, h)
           /\ \A k \in Kinds : Due(k)' = Due(k)
           /\ Phase' = Phase /\ \A k : Count(k)' = Count(k)
           /\ req' = req /\ OnePage' = OnePage /\ Handling' = Handling /\ ToMove' = ToMove
  <1>1. \A k \in Kinds, h \in GPU : Under(k, h)' = Under(k, h)
    BY SameUnder DEF Moves
  <1>2. \A k \in Kinds : Due(k)' = Due(k)
    BY <1>1 DEF Due
  <1> QED BY <1>1, <1>2 DEF DriverKept, Phase, Count, req, OnePage, Handling, ToMove

(* The stages of the GPUs follow: a shootdown that ends halts its GPU, a   *)
(* restart that begins sets it going.                                      *)
LEMMA MovedStages ==
    ASSUME Typed, Typed', Phased, StagesMatch, NEW g \in GPU, Moves(g), DriverKept
    PROVE  StagesMatch'
  <1>1. Phase' = Phase /\ req' = req
    BY MovedUnder
  <1>2. "shootdown" \in Kinds /\ "gpuRestart" \in Kinds /\ "shootdown" \in Sweeps /\ "gpuRestart" \in Sweeps
    BY KindsAre
  <1>3. \A k \in Kinds, h \in GPU :
            /\ Before(k, h) \in Nat /\ Inside(k, h) \in Nat /\ After(k, h) \in Nat
            /\ Before(k, h)' \in Nat /\ Inside(k, h)' \in Nat /\ After(k, h)' \in Nat
    BY CountsTyped, CountsTypedNext
  <1>4. \A k \in Kinds, h \in GPU : Under(k, h) = Before(k, h) + Inside(k, h) + After(k, h)
    BY DEF Under
  <1> SUFFICES ASSUME NEW h \in GPU PROVE Halted(h)' <=> StoppedNow(h)'
    BY DEF StagesMatch
  <1>5. Halted(h) <=> StoppedNow(h)
    BY DEF StagesMatch
  <1>6. CASE /\ Before("shootdown", h)' = Before("shootdown", h) /\ Inside("shootdown", h)' = Inside("shootdown", h)
             /\ Before("gpuRestart", h)' = Before("gpuRestart", h) /\ Halted(h)' = Halted(h)
    BY <1>1, <1>5, <1>6 DEF StoppedNow
  <1>7. CASE Still
    BY <1>2, <1>6, <1>7 DEF Still, Same
  <1>8. ASSUME NEW k \in Kinds, Begins(k, g) PROVE Halted(h)' <=> StoppedNow(h)'
    <2>1. CASE k \notin {"shootdown", "gpuRestart"} \/ h # g
      BY <1>2, <1>6, <1>8, <2>1 DEF Begins, Same
    <2>2. CASE k = "shootdown" /\ h = g
      <3>1. /\ Before(k, g)' = Before(k, g) - 1 /\ Inside(k, g)' = Inside(k, g) + 1
            /\ Halted(g)' = Halted(g) /\ Before("gpuRestart", g)' = Before("gpuRestart", g)
        BY <1>2, <1>8, <2>2 DEF Begins, Same
      <3>2. Before(k, g) # 0 /\ Inside(k, g)' # 0
        BY <1>3, <3>1
      <3> QED BY <1>1, <1>5, <2>2, <3>1, <3>2 DEF StoppedNow
    <2>3. CASE k = "gpuRestart" /\ h = g
      <3>1. /\ Before(k, g)' = Before(k, g) - 1 /\ Halted(g)' = FALSE
        BY <1>8, <2>3 DEF Begins
      <3>2. Under(k, g) # 0
        BY <1>3, <1>4, <3>1
      <3>3. Phase = "gpuRestart" /\ Under(k, g) = 1
        BY <1>2, <2>3, <3>2, DueIs
      <3>4. Before(k, g)' = 0
        BY <1>3, <1>4, <3>1, <3>3
      <3> QED BY <1>1, <2>3, <3>1, <3>3, <3>4 DEF StoppedNow
    <2> QED BY <2>1, <2>2, <2>3
  <1>9. ASSUME NEW k \in Kinds, Ends(k, g) PROVE Halted(h)' <=> StoppedNow(h)'
    <2>1. CASE k \notin {"shootdown", "gpuRestart"} \/ h # g
      BY <1>2, <1>6, <1>9, <2>1 DEF Ends, Same
    <2>2. CASE k = "gpuRestart" /\ h = g
      BY <1>2, <1>6, <1>9, <2>2 DEF Ends, Same
    <2>3. CASE k = "shootdown" /\ h = g
      <3>1. /\ Before(k, g)' = Before(k, g) /\ Inside(k, g)' = Inside(k, g) - 1 /\ Halted(g)' = TRUE
        BY <1>9, <2>3 DEF Ends
      <3>2. Under(k, g) # 0
        BY <1>3, <1>4, <3>1
      <3>3. Phase = "shootdown" /\ Under(k, g) = 1 /\ g \in req.accessing
        BY <1>2, <2>3, <3>2, DueIs
      <3>4. Before(k, g)' = 0 /\ Inside(k, g)' = 0
        BY <1>3, <1>4, <3>1, <3>3
      <3> QED BY <1>1, <2>3, <3>1, <3>3, <3>4 DEF StoppedNow
    <2> QED BY <2>1, <2>2, <2>3
  <1> QED BY <1>7, <1>8, <1>9 DEF Moves

(* The kernel the MMU waits for goes on running. *)
LEMMA MovedAsking ==
    ASSUME Typed, Typed', Asking, NEW g \in GPU, Moves(g), DriverKept, UNCHANGED mmuVars
    PROVE  Asking'
  <1>1. Phase' = Phase /\ req' = req /\ mmuWaits' = mmuWaits /\ toMMU' = toMMU
    BY MovedUnder DEF mmuVars
  <1>2. ASSUME mmuWaits # NoReq PROVE dispatching'[mmuWaits.to]
    <2>1. PICK t \in GPU : t = mmuWaits.to /\ dispatching[t]
      BY <1>2 DEF Asking, Legal, PageMigrationReq
    <2>2. "launch" \in Kinds
      BY KindsAre
    <2>3. Inside("launch", t) = 1 /\ Inside("launch", t)' = One(dispatching'[t])
      BY <2>1, InsideIs, InsideIsNext DEF One
    <2>4. Inside("launch", t)' # 0
      <3>1. CASE Still
        BY <2>1, <2>2, <2>3, <3>1 DEF Still, Same
      <3>2. ASSUME NEW k \in Kinds, Begins(k, g) PROVE Inside("launch", t)' # 0
        <4>1. CASE k # "launch" \/ t # g
          BY <2>1, <2>2, <2>3, <3>2, <4>1 DEF Begins, Same
        <4>2. CASE k = "launch" /\ t = g
          BY <2>3, <3>2, <4>2 DEF Begins
        <4> QED BY <4>1, <4>2
      <3>3. ASSUME NEW k \in Kinds, Ends(k, g), k = "launch" => t # g PROVE Inside("launch", t)' # 0
        BY <2>1, <2>2, <2>3, <3>3 DEF Ends, Same
      <3> QED BY <2>1, <3>1, <3>2, <3>3 DEF Moves
    <2>5. dispatching'[t]
      BY <2>3, <2>4 DEF One
    <2> QED BY <2>1, <2>5
  <1> QED BY <1>1, <1>2 DEF Asking, Legal, DriverKept

(* A step that moves commands along keeps the driver's invariant. *)
LEMMA MovedDriver ==
    ASSUME Typed, Typed', Driven, NEW g \in GPU, Moves(g), DriverKept, UNCHANGED <<queueVars, tableVars, mmuVars>>
    PROVE  Driven'
  <1>1. UNCHANGED mmuVars /\ queue' = queue /\ isRunning' = isRunning /\ reqs' = reqs /\ pageTable' = pageTable
    BY DEF queueVars, tableVars
  <1>2. /\ \A k \in Kinds, h \in GPU : Under(k, h)' = Under(k, h)
        /\ \A k \in Kinds : Due(k)' = Due(k)
        /\ Phase' = Phase /\ \A k : Count(k)' = Count(k)
        /\ req' = req /\ OnePage' = OnePage /\ Handling' = Handling /\ ToMove' = ToMove
    BY <1>1, MovedUnder
  <1>3. Phased'
    <2>1. \A k \in Sweeps : Count(k)' = Cardinality(Due(k))'
      BY <1>2, KindsAre DEF Driven, Phased
    <2>2. \A k \in Sweeps : \A h \in GPU : Under(k, h)' \in {0, 1}
      BY <1>2, KindsAre DEF Driven, Phased
    <2>3. \A k \in Sweeps \cup {"migrate"} : (Count(k)' # 0 <=> Phase' = k)
      BY <1>2 DEF Driven, Phased
    <2>4. Handling' => Legal(req)'
      BY <1>2 DEF Driven, Phased, Legal
    <2>5. \A k \in {"shootdown", "gpuRestart"} : \A h \in Due(k)' : h \in req'.accessing
      BY <1>2, KindsAre DEF Driven, Phased
    <2> QED BY <2>1, <2>2, <2>3, <2>4, <2>5 DEF Phased
  <1>4. Paging'
    BY <1>1, <1>2, KindsAre DEF Driven, Paging
  <1>5. Queued'
    BY <1>1, <1>2, KindsAre DEF Driven, Queued
  <1>6. StagesMatch' /\ Asking'
    BY <1>1, MovedStages, MovedAsking DEF Driven
  <1> QED BY <1>3, <1>4, <1>5, <1>6 DEF Driven

-----------------------------------------------------------------------------
(* The types are kept. *)

LEMMA SentTyped ==
    ASSUME CPTypeOK, NEW g \in GPU
    PROVE  /\ \A X, k : SendTo(g, X, k) /\ k \in Control => toPart' \in [GPU -> [Part -> Seq(Control)]]
           /\ \A a \in Answer : SendToDriver(g, a) => uplink' \in [GPU -> Seq(Answer)]
           /\ \A p \in Part : Retrieve(g, p) /\ fromPart[g][p] # <<>>
                => fromPart' \in [GPU -> [Part -> Seq(Control)]] /\ Head(fromPart[g][p]) \in Control
           /\ RetrieveFromDriver(g) /\ toDriver[g] # <<>>
                => toDriver' \in [GPU -> Seq(Command)] /\ Head(toDriver[g]) \in Command
           /\ \A p \in Part : Answers(g, p) /\ toPart[g][p] # <<>>
                => /\ toPart' \in [GPU -> [Part -> Seq(Control)]] /\ fromPart' \in [GPU -> [Part -> Seq(Control)]]
                   /\ Head(toPart[g][p]) \in Control
  <1>1. ASSUME NEW X, NEW k \in Control, SendTo(g, X, k) PROVE toPart' \in [GPU -> [Part -> Seq(Control)]]
    <2> DEFINE F == [p \in Part |-> IF p \in X THEN Append(toPart[g][p], k) ELSE toPart[g][p]]
    <2>1. \A p \in Part : toPart[g][p] \in Seq(Control) /\ Append(toPart[g][p], k) \in Seq(Control)
      BY DEF CPTypeOK
    <2>2. F \in [Part -> Seq(Control)]
      BY <2>1
    <2>3. toPart' = [toPart EXCEPT ![g] = F]
      BY <1>1 DEF SendTo
    <2> HIDE DEF F
    <2> QED BY <2>2, <2>3 DEF CPTypeOK
  <1>2. \A a \in Answer : SendToDriver(g, a) => uplink' \in [GPU -> Seq(Answer)]
    BY DEF SendToDriver, CPTypeOK
  <1>3. \A p \in Part : Retrieve(g, p) /\ fromPart[g][p] # <<>>
            => fromPart' \in [GPU -> [Part -> Seq(Control)]] /\ Head(fromPart[g][p]) \in Control
    BY DEF Retrieve, CPTypeOK
  <1>4. RetrieveFromDriver(g) /\ toDriver[g] # <<>>
          => toDriver' \in [GPU -> Seq(Command)] /\ Head(toDriver[g]) \in Command
    BY DEF RetrieveFromDriver, CPTypeOK
  <1>5. ASSUME NEW p \in Part, Answers(g, p), toPart[g][p] # <<>>
        PROVE  /\ toPart' \in [GPU -> [Part -> Seq(Control)]] /\ fromPart' \in [GPU -> [Part -> Seq(Control)]]
               /\ Head(toPart[g][p]) \in Control
    <2>1. toPart[g][p] \in Seq(Control) /\ fromPart[g][p] \in Seq(Control)
      BY DEF CPTypeOK
    <2>2. Head(toPart[g][p]) \in Control /\ Tail(toPart[g][p]) \in Seq(Control)
          /\ Append(fromPart[g][p], Head(toPart[g][p])) \in Seq(Control)
      BY <1>5, <2>1
    <2> QED BY <1>5, <2>2 DEF Answers, CPTypeOK
  <1> QED BY <1>1, <1>2, <1>3, <1>4, <1>5

(* A new state of a command processor keeps the type of all of them. *)
LEMMA StateTyped ==
    ASSUME CPTypeOK, NEW g \in GPU, NEW new \in CPState, SetCP(g, new)
    PROVE  cp' \in [GPU -> CPState]
  BY DEF SetCP, CPTypeOK

(* The counters of a command processor are integers. *)
LEMMA CountersAre ==
    \A c \in CPState : /\ c.numCUAck \in Int
                        /\ c.numAddrTranslationFlushAck \in Int
                        /\ c.numAddrTranslationRestartAck \in Int
                        /\ c.numCacheACK \in Int
                        /\ c.numTLBAck \in Int
  BY DEF CPState

(* Setting one field keeps a command processor's type. *)
LEMMA FieldTyped ==
    \A c \in CPState :
        /\ \A n \in Int :
            /\ [c EXCEPT !.numCUAck = n] \in CPState
            /\ [c EXCEPT !.numAddrTranslationFlushAck = n] \in CPState
            /\ [c EXCEPT !.numAddrTranslationRestartAck = n] \in CPState
            /\ [c EXCEPT !.numCacheACK = n] \in CPState
            /\ [c EXCEPT !.numTLBAck = n] \in CPState
        /\ \A b \in BOOLEAN : [c EXCEPT !.shootDownInProcess = b] \in CPState
        /\ \A pages \in SUBSET Page : [c EXCEPT !.currShootdownRequest = pages] \in CPState
  <1>1. \A c \in CPState, n \in Int : [c EXCEPT !.numCUAck = n] \in CPState
    BY DEF CPState
  <1>2. \A c \in CPState, n \in Int : [c EXCEPT !.numAddrTranslationFlushAck = n] \in CPState
    BY DEF CPState
  <1>3. \A c \in CPState, n \in Int : [c EXCEPT !.numAddrTranslationRestartAck = n] \in CPState
    BY DEF CPState
  <1>4. \A c \in CPState, n \in Int : [c EXCEPT !.numCacheACK = n] \in CPState
    BY DEF CPState
  <1>5. \A c \in CPState, n \in Int : [c EXCEPT !.numTLBAck = n] \in CPState
    BY DEF CPState
  <1>6. \A c \in CPState, b \in BOOLEAN : [c EXCEPT !.shootDownInProcess = b] \in CPState
    BY DEF CPState
  <1>7. \A c \in CPState, pages \in SUBSET Page : [c EXCEPT !.currShootdownRequest = pages] \in CPState
    BY DEF CPState
  <1> QED BY <1>1, <1>2, <1>3, <1>4, <1>5, <1>6, <1>7

(* A counter that is counted down, and the one of the next phase. *)
LEMMA CountersTyped ==
    /\ \A c \in CPState : [c EXCEPT !.numCUAck = @ - 1] \in CPState
    /\ \A c \in CPState : [c EXCEPT !.numAddrTranslationFlushAck = @ - 1] \in CPState
    /\ \A c \in CPState : [c EXCEPT !.numAddrTranslationRestartAck = @ - 1] \in CPState
    /\ \A c \in CPState : [c EXCEPT !.numCacheACK = @ - 1] \in CPState
    /\ \A c \in CPState : [c EXCEPT !.numTLBAck = @ - 1] \in CPState
    /\ \A c \in CPState : [c EXCEPT !.numTLBAck = @ - 1, !.shootDownInProcess = FALSE] \in CPState
    /\ \A c \in CPState, n \in Int : [c EXCEPT !.numCUAck = @ - 1, !.numAddrTranslationFlushAck = @ + n] \in CPState
    /\ \A c \in CPState, n \in Int : [c EXCEPT !.numAddrTranslationFlushAck = @ - 1, !.numCacheACK = @ + n] \in CPState
    /\ \A c \in CPState, n \in Int : [c EXCEPT !.numCacheACK = @ - 1, !.numTLBAck = @ + n] \in CPState
    /\ \A c \in CPState, n \in Int : [c EXCEPT !.numTLBAck = @ - 1, !.numAddrTranslationRestartAck = @ + n] \in CPState
    /\ \A c \in CPState, n \in Int : [c EXCEPT !.numAddrTranslationRestartAck = @ - 1, !.numCUAck = @ + n] \in CPState
    /\ \A c \in CPState, n \in Int, pages \in SUBSET Page :
          [c EXCEPT !.shootDownInProcess = TRUE, !.currShootdownRequest = pages, !.numCUAck = @ + n] \in CPState
  <1>1. \A c \in CPState : [c EXCEPT !.numCUAck = @ - 1] \in CPState
    <2> SUFFICES ASSUME NEW c \in CPState PROVE [c EXCEPT !.numCUAck = @ - 1] \in CPState
      OBVIOUS
    <2>1. c.numCUAck - 1 \in Int
      BY CountersAre
    <2> QED BY <2>1, FieldTyped
  <1>2. \A c \in CPState : [c EXCEPT !.numAddrTranslationFlushAck = @ - 1] \in CPState
    <2> SUFFICES ASSUME NEW c \in CPState PROVE [c EXCEPT !.numAddrTranslationFlushAck = @ - 1] \in CPState
      OBVIOUS
    <2>1. c.numAddrTranslationFlushAck - 1 \in Int
      BY CountersAre
    <2> QED BY <2>1, FieldTyped
  <1>3. \A c \in CPState : [c EXCEPT !.numAddrTranslationRestartAck = @ - 1] \in CPState
    <2> SUFFICES ASSUME NEW c \in CPState PROVE [c EXCEPT !.numAddrTranslationRestartAck = @ - 1] \in CPState
      OBVIOUS
    <2>1. c.numAddrTranslationRestartAck - 1 \in Int
      BY CountersAre
    <2> QED BY <2>1, FieldTyped
  <1>4. \A c \in CPState : [c EXCEPT !.numCacheACK = @ - 1] \in CPState
    <2> SUFFICES ASSUME NEW c \in CPState PROVE [c EXCEPT !.numCacheACK = @ - 1] \in CPState
      OBVIOUS
    <2>1. c.numCacheACK - 1 \in Int
      BY CountersAre
    <2> QED BY <2>1, FieldTyped
  <1>5. \A c \in CPState : [c EXCEPT !.numTLBAck = @ - 1] \in CPState
    <2> SUFFICES ASSUME NEW c \in CPState PROVE [c EXCEPT !.numTLBAck = @ - 1] \in CPState
      OBVIOUS
    <2>1. c.numTLBAck - 1 \in Int
      BY CountersAre
    <2> QED BY <2>1, FieldTyped
  <1>6. \A c \in CPState : [c EXCEPT !.numTLBAck = @ - 1, !.shootDownInProcess = FALSE] \in CPState
    <2> SUFFICES ASSUME NEW c \in CPState PROVE [c EXCEPT !.numTLBAck = @ - 1, !.shootDownInProcess = FALSE] \in CPState
      OBVIOUS
    <2>1. c.numTLBAck - 1 \in Int /\ FALSE \in BOOLEAN
      BY CountersAre
    <2> QED BY <2>1, FieldTyped
  <1>7. \A c \in CPState, n \in Int : [c EXCEPT !.numCUAck = @ - 1, !.numAddrTranslationFlushAck = @ + n] \in CPState
    <2> SUFFICES ASSUME NEW c \in CPState, NEW n \in Int PROVE [c EXCEPT !.numCUAck = @ - 1, !.numAddrTranslationFlushAck = @ + n] \in CPState
      OBVIOUS
    <2>1. c.numCUAck - 1 \in Int /\ c.numAddrTranslationFlushAck + n \in Int
      BY CountersAre
    <2> QED BY <2>1, FieldTyped
  <1>8. \A c \in CPState, n \in Int : [c EXCEPT !.numAddrTranslationFlushAck = @ - 1, !.numCacheACK = @ + n] \in CPState
    <2> SUFFICES ASSUME NEW c \in CPState, NEW n \in Int PROVE [c EXCEPT !.numAddrTranslationFlushAck = @ - 1, !.numCacheACK = @ + n] \in CPState
      OBVIOUS
    <2>1. c.numAddrTranslationFlushAck - 1 \in Int /\ c.numCacheACK + n \in Int
      BY CountersAre
    <2> QED BY <2>1, FieldTyped
  <1>9. \A c \in CPState, n \in Int : [c EXCEPT !.numCacheACK = @ - 1, !.numTLBAck = @ + n] \in CPState
    <2> SUFFICES ASSUME NEW c \in CPState, NEW n \in Int PROVE [c EXCEPT !.numCacheACK = @ - 1, !.numTLBAck = @ + n] \in CPState
      OBVIOUS
    <2>1. c.numCacheACK - 1 \in Int /\ c.numTLBAck + n \in Int
      BY CountersAre
    <2> QED BY <2>1, FieldTyped
  <1>10. \A c \in CPState, n \in Int : [c EXCEPT !.numTLBAck = @ - 1, !.numAddrTranslationRestartAck = @ + n] \in CPState
    <2> SUFFICES ASSUME NEW c \in CPState, NEW n \in Int PROVE [c EXCEPT !.numTLBAck = @ - 1, !.numAddrTranslationRestartAck = @ + n] \in CPState
      OBVIOUS
    <2>1. c.numTLBAck - 1 \in Int /\ c.numAddrTranslationRestartAck + n \in Int
      BY CountersAre
    <2> QED BY <2>1, FieldTyped
  <1>11. \A c \in CPState, n \in Int : [c EXCEPT !.numAddrTranslationRestartAck = @ - 1, !.numCUAck = @ + n] \in CPState
    <2> SUFFICES ASSUME NEW c \in CPState, NEW n \in Int PROVE [c EXCEPT !.numAddrTranslationRestartAck = @ - 1, !.numCUAck = @ + n] \in CPState
      OBVIOUS
    <2>1. c.numAddrTranslationRestartAck - 1 \in Int /\ c.numCUAck + n \in Int
      BY CountersAre
    <2> QED BY <2>1, FieldTyped
  <1>12. \A c \in CPState, n \in Int, pages \in SUBSET Page :
          [c EXCEPT !.shootDownInProcess = TRUE, !.currShootdownRequest = pages, !.numCUAck = @ + n] \in CPState
    <2> SUFFICES ASSUME NEW c \in CPState, NEW n \in Int, NEW pages \in SUBSET Page
                 PROVE  [c EXCEPT !.shootDownInProcess = TRUE, !.currShootdownRequest = pages, !.numCUAck = @ + n] \in CPState
      OBVIOUS
    <2>1. PICK m \in Int : m = c.numCUAck + n
      BY CountersAre
    <2>2. [c EXCEPT !.shootDownInProcess = TRUE, !.currShootdownRequest = pages] \in CPState
      <3>1. [c EXCEPT !.shootDownInProcess = TRUE] \in CPState
        BY FieldTyped
      <3> QED BY <3>1, FieldTyped
    <2>3. [c EXCEPT !.shootDownInProcess = TRUE, !.currShootdownRequest = pages, !.numCUAck = m] \in CPState
      BY <2>2, FieldTyped
    <2> QED BY <2>1, <2>3
  <1> QED BY <1>1, <1>2, <1>3, <1>4, <1>5, <1>6, <1>7, <1>8, <1>9, <1>10, <1>11, <1>12

(* The variables of the page migration controllers that Typed names. *)
PMCTyped ==
    /\ ctrlPort \in [GPU -> Seq(Migration)]
    /\ isHandlingPageMigration \in [GPU -> BOOLEAN]
    /\ toSendToCtrlPort \in [GPU -> BOOLEAN]
    /\ numDataRspPendingForPageMigration \in [GPU -> Int]

(* A command processor keeps its type when it handles a command of the driver. *)
LEMMA RequestsTyped ==
    ASSUME CPTypeOK, NEW g \in GPU, ProcessReqFromDriver(g)
    PROVE  CPTypeOK'
  <1>1. toDriver[g] # <<>> /\ RetrieveFromDriver(g)
    BY DEF ProcessReqFromDriver, FromDriver, ProcessLaunchKernelReq, ProcessFlushCommand, ProcessMemCopyReq,
           ProcessRDMADrainCmd, ProcessRDMARestartCommand, ProcessShootdownCommand, ProcessGPURestartReq,
           ProcessPageMigrationReq
  <1>2. toDriver' \in [GPU -> Seq(Command)] /\ Head(toDriver[g]) \in Command
    BY <1>1, SentTyped
  <1>3. cp[g] \in CPState /\ "flush" \in Control /\ "copy" \in Control /\ "restart" \in Control
    BY DEF CPTypeOK, Control
  <1>4. Cardinality(Cache) \in Int /\ Cardinality(CU) \in Int
    BY GroupsApart DEF Groups
  <1>5. CASE ProcessLaunchKernelReq(g)
    <2>1. dispatching' \in [GPU -> BOOLEAN]
      BY <1>5 DEF ProcessLaunchKernelReq, CPTypeOK
    <2> QED BY <1>2, <1>5, <2>1 DEF ProcessLaunchKernelReq, CPTypeOK
  <1>6. CASE ProcessFlushCommand(g)
    <2>1. toPart' \in [GPU -> [Part -> Seq(Control)]]
      BY <1>3, <1>6, SentTyped DEF ProcessFlushCommand
    <2>2. [cp[g] EXCEPT !.numCacheACK = Cardinality(Cache)] \in CPState
      BY <1>3, <1>4, FieldTyped
    <2>3. cp' \in [GPU -> CPState]
      BY <1>6, <2>2, StateTyped DEF ProcessFlushCommand
    <2> QED BY <1>2, <1>6, <2>1, <2>3 DEF ProcessFlushCommand, CPTypeOK, gpuVars
  <1>7. CASE ProcessMemCopyReq(g)
    <2>1. toPart' \in [GPU -> [Part -> Seq(Control)]]
      BY <1>3, <1>7, SentTyped DEF ProcessMemCopyReq
    <2> QED BY <1>2, <1>7, <2>1 DEF ProcessMemCopyReq, CPTypeOK, gpuVars
  <1>8. CASE ProcessRDMADrainCmd(g)
    <2>1. toPart' \in [GPU -> [Part -> Seq(Control)]]
      BY <1>3, <1>8, SentTyped DEF ProcessRDMADrainCmd
    <2> QED BY <1>2, <1>8, <2>1 DEF ProcessRDMADrainCmd, CPTypeOK, gpuVars
  <1>9. CASE ProcessRDMARestartCommand(g)
    <2>1. toPart' \in [GPU -> [Part -> Seq(Control)]]
      BY <1>3, <1>9, SentTyped DEF ProcessRDMARestartCommand
    <2> QED BY <1>2, <1>9, <2>1 DEF ProcessRDMARestartCommand, CPTypeOK, gpuVars
  <1>10. CASE ProcessShootdownCommand(g)
    <2>1. toPart' \in [GPU -> [Part -> Seq(Control)]]
      BY <1>3, <1>10, SentTyped DEF ProcessShootdownCommand
    <2>2. Head(toDriver[g]).pages \in SUBSET Page
      BY <1>2, <1>10 DEF ProcessShootdownCommand, FromDriver, Command
    <2>3. [cp[g] EXCEPT !.shootDownInProcess = TRUE,
                        !.currShootdownRequest = Head(toDriver[g]).pages,
                        !.numCUAck = @ + Cardinality(CU)] \in CPState
      BY <1>3, <1>4, <2>2, CountersTyped
    <2>4. cp' \in [GPU -> CPState]
      BY <1>10, <2>3, StateTyped DEF ProcessShootdownCommand
    <2> QED BY <1>2, <1>10, <2>1, <2>4 DEF ProcessShootdownCommand, CPTypeOK, gpuVars
  <1>11. CASE ProcessGPURestartReq(g)
    <2>1. toPart' \in [GPU -> [Part -> Seq(Control)]]
      BY <1>3, <1>11, SentTyped DEF ProcessGPURestartReq
    <2>2. [cp[g] EXCEPT !.numCacheACK = @ + Cardinality(Cache)] \in CPState
      BY <1>3, <1>4 DEF CPState
    <2>3. cp' \in [GPU -> CPState]
      BY <1>11, <2>2, StateTyped DEF ProcessGPURestartReq
    <2> QED BY <1>2, <1>11, <2>1, <2>3 DEF ProcessGPURestartReq, CPTypeOK, gpuVars
  <1>12. CASE ProcessPageMigrationReq(g)
    <2>1. Head(toDriver[g]).page \in Page /\ Head(toDriver[g]).from \in GPU
      BY <1>2, <1>12 DEF ProcessPageMigrationReq, FromDriver, Command
    <2>2. [page |-> Head(toDriver[g]).page, from |-> Head(toDriver[g]).from] \in Migration
      BY <2>1 DEF Migration
    <2>3. toPMCSender' \in [GPU -> Seq(Migration)]
      BY <1>12, <2>2 DEF ProcessPageMigrationReq, CPTypeOK
    <2> QED BY <1>2, <1>12, <2>3 DEF ProcessPageMigrationReq, CPTypeOK, gpuVars
  <1> QED BY <1>5, <1>6, <1>7, <1>8, <1>9, <1>10, <1>11, <1>12 DEF ProcessReqFromDriver

(* A command processor keeps its type when it handles an answer of a part. *)
LEMMA ResponsesTyped ==
    ASSUME CPTypeOK, NEW g \in GPU, ProcessRspFromInternal(g)
    PROVE  CPTypeOK'
  <1>1. cp[g] \in CPState
    BY DEF CPTypeOK
  <1>2. Cardinality(Cache) \in Int /\ Cardinality(CU) \in Int /\ Cardinality(AT) \in Int /\ Cardinality(TLB) \in Int
    BY GroupsApart DEF Groups
  <1>3. \A p \in CU \cup AT \cup Cache \cup TLB \cup {"rdma", "dma", "pmc"} : p \in Part
    BY DEF Part
  <1>4. \A k \in {"flush", "reset", "restart", "copy"} : k \in Control
    BY DEF Control
  <1>5. \A k \in {"launch", "flush", "copy", "drain", "shootdown", "migrate", "gpuRestart", "rdmaRestart"} : k \in Answer
    BY DEF Answer
  <1>6. CASE ProcessMemCopyRsp(g)
    <2>1. fromPart[g]["dma"] # <<>> /\ Retrieve(g, "dma")
      BY <1>6 DEF ProcessMemCopyRsp, From
    <2>2. fromPart' \in [GPU -> [Part -> Seq(Control)]]
      BY <1>3, <2>1, SentTyped
    <2>3. uplink' \in [GPU -> Seq(Answer)]
      BY <1>5, <1>6, SentTyped DEF ProcessMemCopyRsp
    <2> QED BY <1>6, <2>2, <2>3 DEF ProcessMemCopyRsp, CPTypeOK, gpuVars
  <1>7. CASE ProcessRDMARsp(g)
    <2>1. fromPart[g]["rdma"] # <<>> /\ Retrieve(g, "rdma")
      BY <1>7 DEF ProcessRDMARsp, From
    <2>2. fromPart' \in [GPU -> [Part -> Seq(Control)]]
      BY <1>3, <2>1, SentTyped
    <2>3. uplink' \in [GPU -> Seq(Answer)]
      BY <1>5, <1>7, SentTyped DEF ProcessRDMARsp
    <2> QED BY <1>7, <2>2, <2>3 DEF ProcessRDMARsp, CPTypeOK, gpuVars
  <1>8. CASE ProcessPageMigrationRsp(g)
    <2>1. fromPart[g]["pmc"] # <<>> /\ Retrieve(g, "pmc")
      BY <1>8 DEF ProcessPageMigrationRsp, From
    <2>2. fromPart' \in [GPU -> [Part -> Seq(Control)]]
      BY <1>3, <2>1, SentTyped
    <2>3. uplink' \in [GPU -> Seq(Answer)]
      BY <1>5, <1>8, SentTyped DEF ProcessPageMigrationRsp
    <2> QED BY <1>8, <2>2, <2>3 DEF ProcessPageMigrationRsp, CPTypeOK, gpuVars
  <1>9. ASSUME NEW c \in CU, ProcessCUPipelineFlushRsp(g, c) PROVE CPTypeOK'
    <2>1. fromPart[g][c] # <<>> /\ Retrieve(g, c)
      BY <1>9 DEF ProcessCUPipelineFlushRsp, From
    <2>2. fromPart' \in [GPU -> [Part -> Seq(Control)]]
      BY <1>3, <2>1, SentTyped
    <2>3. toPart' \in [GPU -> [Part -> Seq(Control)]]
      <3>1. (UNCHANGED toPart) \/ SendTo(g, AT, "flush")
        BY <1>9 DEF ProcessCUPipelineFlushRsp
      <3> QED BY <1>4, <3>1, SentTyped DEF CPTypeOK
    <2>4. uplink' \in [GPU -> Seq(Answer)]
      <3>1. (UNCHANGED uplink)
        BY <1>9 DEF ProcessCUPipelineFlushRsp
      <3> QED BY <1>5, <3>1, SentTyped DEF CPTypeOK
    <2>5. /\ [cp[g] EXCEPT !.numCUAck = @ - 1, !.numAddrTranslationFlushAck = @ + Cardinality(AT)] \in CPState
          /\ [cp[g] EXCEPT !.numCUAck = @ - 1] \in CPState
      BY <1>1, <1>2, CountersTyped
    <2>6. SetCP(g, [cp[g] EXCEPT !.numCUAck = @ - 1, !.numAddrTranslationFlushAck = @ + Cardinality(AT)]) \/ SetCP(g, [cp[g] EXCEPT !.numCUAck = @ - 1])
      BY <1>9 DEF ProcessCUPipelineFlushRsp
    <2>7. cp' \in [GPU -> CPState]
      BY <2>5, <2>6, StateTyped
    <2> QED BY <1>9, <2>2, <2>3, <2>4, <2>7 DEF ProcessCUPipelineFlushRsp, CPTypeOK, gpuVars
  <1>10. ASSUME NEW c \in CU, ProcessCUPipelineRestartRsp(g, c) PROVE CPTypeOK'
    <2>1. fromPart[g][c] # <<>> /\ Retrieve(g, c)
      BY <1>10 DEF ProcessCUPipelineRestartRsp, From
    <2>2. fromPart' \in [GPU -> [Part -> Seq(Control)]]
      BY <1>3, <2>1, SentTyped
    <2>3. toPart' \in [GPU -> [Part -> Seq(Control)]]
      <3>1. (UNCHANGED toPart)
        BY <1>10 DEF ProcessCUPipelineRestartRsp
      <3> QED BY <1>4, <3>1, SentTyped DEF CPTypeOK
    <2>4. uplink' \in [GPU -> Seq(Answer)]
      <3>1. (UNCHANGED uplink) \/ SendToDriver(g, "gpuRestart")
        BY <1>10 DEF ProcessCUPipelineRestartRsp
      <3> QED BY <1>5, <3>1, SentTyped DEF CPTypeOK
    <2>5. /\ [cp[g] EXCEPT !.numCUAck = @ - 1] \in CPState
      BY <1>1, <1>2, CountersTyped
    <2>6. SetCP(g, [cp[g] EXCEPT !.numCUAck = @ - 1])
      BY <1>10 DEF ProcessCUPipelineRestartRsp
    <2>7. cp' \in [GPU -> CPState]
      BY <2>5, <2>6, StateTyped
    <2> QED BY <1>10, <2>2, <2>3, <2>4, <2>7 DEF ProcessCUPipelineRestartRsp, CPTypeOK, gpuVars
  <1>11. ASSUME NEW a \in AT, ProcessAddressTranslatorFlushRsp(g, a) PROVE CPTypeOK'
    <2>1. fromPart[g][a] # <<>> /\ Retrieve(g, a)
      BY <1>11 DEF ProcessAddressTranslatorFlushRsp, From
    <2>2. fromPart' \in [GPU -> [Part -> Seq(Control)]]
      BY <1>3, <2>1, SentTyped
    <2>3. toPart' \in [GPU -> [Part -> Seq(Control)]]
      <3>1. (UNCHANGED toPart) \/ SendTo(g, Cache, "reset")
        BY <1>11 DEF ProcessAddressTranslatorFlushRsp
      <3> QED BY <1>4, <3>1, SentTyped DEF CPTypeOK
    <2>4. uplink' \in [GPU -> Seq(Answer)]
      <3>1. (UNCHANGED uplink)
        BY <1>11 DEF ProcessAddressTranslatorFlushRsp
      <3> QED BY <1>5, <3>1, SentTyped DEF CPTypeOK
    <2>5. /\ [cp[g] EXCEPT !.numAddrTranslationFlushAck = @ - 1, !.numCacheACK = @ + Cardinality(Cache)] \in CPState
          /\ [cp[g] EXCEPT !.numAddrTranslationFlushAck = @ - 1] \in CPState
      BY <1>1, <1>2, CountersTyped
    <2>6. SetCP(g, [cp[g] EXCEPT !.numAddrTranslationFlushAck = @ - 1, !.numCacheACK = @ + Cardinality(Cache)]) \/ SetCP(g, [cp[g] EXCEPT !.numAddrTranslationFlushAck = @ - 1])
      BY <1>11 DEF ProcessAddressTranslatorFlushRsp
    <2>7. cp' \in [GPU -> CPState]
      BY <2>5, <2>6, StateTyped
    <2> QED BY <1>11, <2>2, <2>3, <2>4, <2>7 DEF ProcessAddressTranslatorFlushRsp, CPTypeOK, gpuVars
  <1>12. ASSUME NEW a \in AT, ProcessAddressTranslatorRestartRsp(g, a) PROVE CPTypeOK'
    <2>1. fromPart[g][a] # <<>> /\ Retrieve(g, a)
      BY <1>12 DEF ProcessAddressTranslatorRestartRsp, From
    <2>2. fromPart' \in [GPU -> [Part -> Seq(Control)]]
      BY <1>3, <2>1, SentTyped
    <2>3. toPart' \in [GPU -> [Part -> Seq(Control)]]
      <3>1. (UNCHANGED toPart) \/ SendTo(g, CU, "restart")
        BY <1>12 DEF ProcessAddressTranslatorRestartRsp
      <3> QED BY <1>4, <3>1, SentTyped DEF CPTypeOK
    <2>4. uplink' \in [GPU -> Seq(Answer)]
      <3>1. (UNCHANGED uplink)
        BY <1>12 DEF ProcessAddressTranslatorRestartRsp
      <3> QED BY <1>5, <3>1, SentTyped DEF CPTypeOK
    <2>5. /\ [cp[g] EXCEPT !.numAddrTranslationRestartAck = @ - 1, !.numCUAck = @ + Cardinality(CU)] \in CPState
          /\ [cp[g] EXCEPT !.numAddrTranslationRestartAck = @ - 1] \in CPState
      BY <1>1, <1>2, CountersTyped
    <2>6. SetCP(g, [cp[g] EXCEPT !.numAddrTranslationRestartAck = @ - 1, !.numCUAck = @ + Cardinality(CU)]) \/ SetCP(g, [cp[g] EXCEPT !.numAddrTranslationRestartAck = @ - 1])
      BY <1>12 DEF ProcessAddressTranslatorRestartRsp
    <2>7. cp' \in [GPU -> CPState]
      BY <2>5, <2>6, StateTyped
    <2> QED BY <1>12, <2>2, <2>3, <2>4, <2>7 DEF ProcessAddressTranslatorRestartRsp, CPTypeOK, gpuVars
  <1>13. ASSUME NEW c \in Cache, ProcessCacheFlushRsp(g, c) PROVE CPTypeOK'
    <2>1. fromPart[g][c] # <<>> /\ Retrieve(g, c)
      BY <1>13 DEF ProcessCacheFlushRsp, From
    <2>2. fromPart' \in [GPU -> [Part -> Seq(Control)]]
      BY <1>3, <2>1, SentTyped
    <2>3. toPart' \in [GPU -> [Part -> Seq(Control)]]
      <3>1. (UNCHANGED toPart) \/ SendTo(g, TLB, "flush")
        BY <1>13 DEF ProcessCacheFlushRsp, CacheFlushCausedByTLBShootdown
      <3> QED BY <1>4, <3>1, SentTyped DEF CPTypeOK
    <2>4. uplink' \in [GPU -> Seq(Answer)]
      <3>1. (UNCHANGED uplink) \/ SendToDriver(g, "flush")
        BY <1>13 DEF ProcessCacheFlushRsp, CacheFlushCausedByTLBShootdown
      <3> QED BY <1>5, <3>1, SentTyped DEF CPTypeOK
    <2>5. /\ [cp[g] EXCEPT !.numCacheACK = @ - 1, !.numTLBAck = @ + Cardinality(TLB)] \in CPState
          /\ [cp[g] EXCEPT !.numCacheACK = @ - 1] \in CPState
      BY <1>1, <1>2, CountersTyped
    <2>6. SetCP(g, [cp[g] EXCEPT !.numCacheACK = @ - 1, !.numTLBAck = @ + Cardinality(TLB)]) \/ SetCP(g, [cp[g] EXCEPT !.numCacheACK = @ - 1])
      BY <1>13 DEF ProcessCacheFlushRsp, CacheFlushCausedByTLBShootdown
    <2>7. cp' \in [GPU -> CPState]
      BY <2>5, <2>6, StateTyped
    <2> QED BY <1>13, <2>2, <2>3, <2>4, <2>7 DEF ProcessCacheFlushRsp, CPTypeOK, gpuVars
  <1>14. ASSUME NEW c \in Cache, ProcessCacheRestartRsp(g, c) PROVE CPTypeOK'
    <2>1. fromPart[g][c] # <<>> /\ Retrieve(g, c)
      BY <1>14 DEF ProcessCacheRestartRsp, From
    <2>2. fromPart' \in [GPU -> [Part -> Seq(Control)]]
      BY <1>3, <2>1, SentTyped
    <2>3. toPart' \in [GPU -> [Part -> Seq(Control)]]
      <3>1. (UNCHANGED toPart) \/ SendTo(g, TLB, "restart")
        BY <1>14 DEF ProcessCacheRestartRsp
      <3> QED BY <1>4, <3>1, SentTyped DEF CPTypeOK
    <2>4. uplink' \in [GPU -> Seq(Answer)]
      <3>1. (UNCHANGED uplink)
        BY <1>14 DEF ProcessCacheRestartRsp
      <3> QED BY <1>5, <3>1, SentTyped DEF CPTypeOK
    <2>5. /\ [cp[g] EXCEPT !.numCacheACK = @ - 1, !.numTLBAck = @ + Cardinality(TLB)] \in CPState
          /\ [cp[g] EXCEPT !.numCacheACK = @ - 1] \in CPState
      BY <1>1, <1>2, CountersTyped
    <2>6. SetCP(g, [cp[g] EXCEPT !.numCacheACK = @ - 1, !.numTLBAck = @ + Cardinality(TLB)]) \/ SetCP(g, [cp[g] EXCEPT !.numCacheACK = @ - 1])
      BY <1>14 DEF ProcessCacheRestartRsp
    <2>7. cp' \in [GPU -> CPState]
      BY <2>5, <2>6, StateTyped
    <2> QED BY <1>14, <2>2, <2>3, <2>4, <2>7 DEF ProcessCacheRestartRsp, CPTypeOK, gpuVars
  <1>15. ASSUME NEW t \in TLB, ProcessTLBFlushRsp(g, t) PROVE CPTypeOK'
    <2>1. fromPart[g][t] # <<>> /\ Retrieve(g, t)
      BY <1>15 DEF ProcessTLBFlushRsp, From
    <2>2. fromPart' \in [GPU -> [Part -> Seq(Control)]]
      BY <1>3, <2>1, SentTyped
    <2>3. toPart' \in [GPU -> [Part -> Seq(Control)]]
      <3>1. (UNCHANGED toPart)
        BY <1>15 DEF ProcessTLBFlushRsp
      <3> QED BY <1>4, <3>1, SentTyped DEF CPTypeOK
    <2>4. uplink' \in [GPU -> Seq(Answer)]
      <3>1. (UNCHANGED uplink) \/ SendToDriver(g, "shootdown")
        BY <1>15 DEF ProcessTLBFlushRsp
      <3> QED BY <1>5, <3>1, SentTyped DEF CPTypeOK
    <2>5. /\ [cp[g] EXCEPT !.numTLBAck = @ - 1, !.shootDownInProcess = FALSE] \in CPState
          /\ [cp[g] EXCEPT !.numTLBAck = @ - 1] \in CPState
      BY <1>1, <1>2, CountersTyped
    <2>6. SetCP(g, [cp[g] EXCEPT !.numTLBAck = @ - 1, !.shootDownInProcess = FALSE]) \/ SetCP(g, [cp[g] EXCEPT !.numTLBAck = @ - 1])
      BY <1>15 DEF ProcessTLBFlushRsp
    <2>7. cp' \in [GPU -> CPState]
      BY <2>5, <2>6, StateTyped
    <2> QED BY <1>15, <2>2, <2>3, <2>4, <2>7 DEF ProcessTLBFlushRsp, CPTypeOK, gpuVars
  <1>16. ASSUME NEW t \in TLB, ProcessTLBRestartRsp(g, t) PROVE CPTypeOK'
    <2>1. fromPart[g][t] # <<>> /\ Retrieve(g, t)
      BY <1>16 DEF ProcessTLBRestartRsp, From
    <2>2. fromPart' \in [GPU -> [Part -> Seq(Control)]]
      BY <1>3, <2>1, SentTyped
    <2>3. toPart' \in [GPU -> [Part -> Seq(Control)]]
      <3>1. (UNCHANGED toPart) \/ SendTo(g, AT, "restart")
        BY <1>16 DEF ProcessTLBRestartRsp
      <3> QED BY <1>4, <3>1, SentTyped DEF CPTypeOK
    <2>4. uplink' \in [GPU -> Seq(Answer)]
      <3>1. (UNCHANGED uplink)
        BY <1>16 DEF ProcessTLBRestartRsp
      <3> QED BY <1>5, <3>1, SentTyped DEF CPTypeOK
    <2>5. /\ [cp[g] EXCEPT !.numTLBAck = @ - 1, !.numAddrTranslationRestartAck = @ + Cardinality(AT)] \in CPState
          /\ [cp[g] EXCEPT !.numTLBAck = @ - 1] \in CPState
      BY <1>1, <1>2, CountersTyped
    <2>6. SetCP(g, [cp[g] EXCEPT !.numTLBAck = @ - 1, !.numAddrTranslationRestartAck = @ + Cardinality(AT)]) \/ SetCP(g, [cp[g] EXCEPT !.numTLBAck = @ - 1])
      BY <1>16 DEF ProcessTLBRestartRsp
    <2>7. cp' \in [GPU -> CPState]
      BY <2>5, <2>6, StateTyped
    <2> QED BY <1>16, <2>2, <2>3, <2>4, <2>7 DEF ProcessTLBRestartRsp, CPTypeOK, gpuVars
  <1> QED BY <1>6, <1>7, <1>8, <1>9, <1>10, <1>11, <1>12, <1>13, <1>14, <1>15, <1>16 DEF ProcessRspFromInternal
(* Every step of a command processor keeps the types. *)
LEMMA DriverActionsTyped ==
    ASSUME CPTypeOK, PMCTyped, NEW g \in GPU, CPStep(g)
    PROVE  CPTypeOK' /\ PMCTyped'
  <1>1. CASE ProcessReqFromDriver(g)
    <2>1. UNCHANGED pmcVars
      BY <1>1 DEF ProcessReqFromDriver, ProcessLaunchKernelReq, ProcessFlushCommand, ProcessMemCopyReq,
           ProcessRDMADrainCmd, ProcessRDMARestartCommand, ProcessShootdownCommand, ProcessGPURestartReq,
           ProcessPageMigrationReq
    <2> QED BY <1>1, <2>1, RequestsTyped DEF PMCTyped, pmcVars, migrationVars
  <1>2. CASE ProcessRspFromInternal(g)
    <2>1. UNCHANGED pmcVars
      BY <1>2 DEF ProcessRspFromInternal, ProcessMemCopyRsp, ProcessRDMARsp, ProcessPageMigrationRsp,
           ProcessCUPipelineFlushRsp, ProcessCUPipelineRestartRsp, ProcessAddressTranslatorFlushRsp,
           ProcessAddressTranslatorRestartRsp, ProcessCacheFlushRsp, ProcessCacheRestartRsp,
           ProcessTLBFlushRsp, ProcessTLBRestartRsp
    <2> QED BY <1>2, <2>1, ResponsesTyped DEF PMCTyped, pmcVars, migrationVars
  <1>3. CASE SendToPMC(g)
    <2>1. toPMCSender[g] \in Seq(Migration) /\ toPMCSender[g] # <<>>
      BY <1>3 DEF SendToPMC, CPTypeOK
    <2>2. Head(toPMCSender[g]) \in Migration /\ Tail(toPMCSender[g]) \in Seq(Migration)
      BY <2>1
    <2>3. <<Head(toPMCSender[g])>> \in Seq(Migration)
      BY <2>2
    <2>4. ctrlPort' \in [GPU -> Seq(Migration)] /\ toPMCSender' \in [GPU -> Seq(Migration)]
      BY <1>3, <2>2, <2>3 DEF SendToPMC, CPTypeOK, PMCTyped
    <2> QED BY <1>3, <2>4 DEF SendToPMC, CPTypeOK, PMCTyped, gpuVars
  <1> QED BY <1>1, <1>2, <1>3 DEF CPStep

(* The steps of page migration controllers keep the types the driver relies on. *)
LEMMA PMCActionsTyped ==
    ASSUME PMCTyped, NEW g \in GPU, PMCStep(g) \/ SendMigrationCompleteRspToCtrlPort(g)
    PROVE  PMCTyped'
  <1>1. CASE UNCHANGED migrationVars
    BY <1>1 DEF PMCTyped, migrationVars
  <1>2. CASE ProcessPageMigrationReqFromCtrlPort(g)
    BY <1>2, PMCAssumption DEF ProcessPageMigrationReqFromCtrlPort, PMCTyped
  <1>3. CASE HandleWriteDoneRspFromMemCtrl(g)
    <2>1. toSendToCtrlPort' \in [GPU -> BOOLEAN]
      BY <1>3 DEF HandleWriteDoneRspFromMemCtrl, PMCTyped
    <2>2. numDataRspPendingForPageMigration' \in [GPU -> Int]
      <3>1. numDataRspPendingForPageMigration[g] - 1 \in Int
        BY DEF PMCTyped
      <3>2. (IF Completes(numDataRspPendingForPageMigration[g] - 1) THEN -1
             ELSE numDataRspPendingForPageMigration[g] - 1) \in Int
        BY <3>1
      <3> QED BY <1>3, <3>2 DEF HandleWriteDoneRspFromMemCtrl, PMCTyped
    <2> QED BY <1>3, <2>1, <2>2 DEF HandleWriteDoneRspFromMemCtrl, PMCTyped
  <1>4. CASE SendMigrationCompleteRspToCtrlPort(g)
    BY <1>4 DEF SendMigrationCompleteRspToCtrlPort, PMCTyped
  <1> QED BY <1>1, <1>2, <1>3, <1>4 DEF PMCStep, Deliver, MemServes, SendMigrationReqToAnotherPMC,
           SendDataReadyRspToRequestingPMC, SendReadReqLocalMemPort, SendWriteReqLocalMemPort,
           HandleDataPullReq, HandleDataPullRsp, HandleDataReadyRspFromMemCtrl

(* A part is paused or released, whatever else it does. *)
LEMMA PausedTyped ==
    ASSUME CPTypeOK, NEW g \in GPU, NEW p \in Part
    PROVE  /\ [paused EXCEPT ![g] = @ \cup {p}] \in [GPU -> SUBSET Part]
           /\ [paused EXCEPT ![g] = @ \ {p}] \in [GPU -> SUBSET Part]
           /\ paused \in [GPU -> SUBSET Part]
  BY DEF CPTypeOK

(* A step of a part keeps the types. *)
LEMMA PartsTyped ==
    ASSUME CPTypeOK, NEW g \in GPU, PartStep(g)
    PROVE  CPTypeOK'
  <1>1. /\ \A p \in CU \cup AT \cup L1 \cup TLB \cup {"l2"} : p \in Part
        /\ L1 \subseteq Part
    BY DEF Part, Cache
  <1>2. ASSUME NEW p \in CU \cup AT \cup L1, StopsOrContinues(g, p) PROVE CPTypeOK'
    <2>1. toPart[g][p] # <<>> /\ Answers(g, p)
      BY <1>2 DEF StopsOrContinues, HasRequest
    <2>2. toPart' \in [GPU -> [Part -> Seq(Control)]] /\ fromPart' \in [GPU -> [Part -> Seq(Control)]]
      BY <1>1, <2>1, SentTyped
    <2>3. \/ paused' = [paused EXCEPT ![g] = @ \ {p}]
          \/ paused' = [paused EXCEPT ![g] = @ \cup {p}]
          \/ paused' = [paused EXCEPT ![g] = @]
      BY <1>2 DEF StopsOrContinues
    <2>4. paused' \in [GPU -> SUBSET Part]
      BY <1>1, <2>3, PausedTyped
    <2> QED BY <1>2, <2>2, <2>4 DEF StopsOrContinues, CPTypeOK
  <1>3. CASE L2Flushes(g)
    <2>1. toPart[g]["l2"] # <<>> /\ Answers(g, "l2")
      BY <1>3 DEF L2Flushes, HasRequest
    <2>2. toPart' \in [GPU -> [Part -> Seq(Control)]] /\ fromPart' \in [GPU -> [Part -> Seq(Control)]]
      BY <1>1, <2>1, SentTyped
    <2>3. paused' = paused \/ paused' = [paused EXCEPT ![g] = @ \cup {"l2"}]
      BY <1>3 DEF L2Flushes
    <2>4. paused' \in [GPU -> SUBSET Part]
      BY <1>1, <2>3, PausedTyped
    <2>5. dirty' \in [GPU -> [PullID -> Data \cup {Clean}]]
      BY <1>3 DEF L2Flushes, CPTypeOK
    <2> QED BY <1>3, <2>2, <2>4, <2>5 DEF L2Flushes, CPTypeOK
  <1>4. CASE L2Restarts(g)
    <2>1. toPart[g]["l2"] # <<>> /\ Answers(g, "l2")
      BY <1>4 DEF L2Restarts, HasRequest
    <2>2. toPart' \in [GPU -> [Part -> Seq(Control)]] /\ fromPart' \in [GPU -> [Part -> Seq(Control)]]
      BY <1>1, <2>1, SentTyped
    <2>4. paused' \in [GPU -> SUBSET Part]
      BY <1>1, <1>4, PausedTyped DEF L2Restarts
    <2> QED BY <1>4, <2>2, <2>4 DEF L2Restarts, CPTypeOK
  <1>5. ASSUME NEW t \in TLB, TLBHandles(g, t) PROVE CPTypeOK'
    <2>1. toPart[g][t] # <<>> /\ Answers(g, t)
      BY <1>5 DEF TLBHandles, HasRequest
    <2>2. toPart' \in [GPU -> [Part -> Seq(Control)]] /\ fromPart' \in [GPU -> [Part -> Seq(Control)]]
      BY <1>1, <2>1, SentTyped
    <2>3. paused' = [paused EXCEPT ![g] = @ \ {t}] \/ paused' = [paused EXCEPT ![g] = @ \cup {t}]
      BY <1>5 DEF TLBHandles
    <2>4. paused' \in [GPU -> SUBSET Part]
      BY <1>1, <2>3, PausedTyped
    <2>5. tlb' \in [GPU -> [AnyTLB -> [Page -> Translation \cup {NoTranslation}]]]
      <3> DEFINE F == [p \in Page |-> IF p \in cp[g].currShootdownRequest \cap FoundByFlush
                                      THEN NoTranslation ELSE tlb[g][t][p]]
      <3>1. t \in AnyTLB
        BY DEF AnyTLB
      <3>2. F \in [Page -> Translation \cup {NoTranslation}]
        BY <3>1 DEF CPTypeOK
      <3>3. tlb' = tlb \/ tlb' = [tlb EXCEPT ![g][t] = F]
        BY <1>5 DEF TLBHandles
      <3> HIDE DEF F
      <3>4. tlb[g] \in [AnyTLB -> [Page -> Translation \cup {NoTranslation}]]
        BY DEF CPTypeOK
      <3>5. [tlb[g] EXCEPT ![t] = F] \in [AnyTLB -> [Page -> Translation \cup {NoTranslation}]]
        BY <3>2, <3>4
      <3>6. tlb' = tlb \/ tlb' = [tlb EXCEPT ![g] = [tlb[g] EXCEPT ![t] = F]]
        BY <3>3
      <3> QED BY <3>5, <3>6 DEF CPTypeOK
    <2> QED BY <1>5, <2>2, <2>4, <2>5 DEF TLBHandles, CPTypeOK
  <1> QED BY <1>2, <1>3, <1>4, <1>5 DEF PartStep

(* A step of an engine beside the groups keeps the types. *)
LEMMA EnginesTyped ==
    ASSUME CPTypeOK, NEW g \in GPU, RDMAPauses(g) \/ RDMADrained(g) \/ RDMARestarts(g) \/ DMACopies(g)
    PROVE  CPTypeOK'
  <1>1. "rdma" \in Part /\ "dma" \in Part
    BY DEF Part
  <1>2. CASE RDMAPauses(g)
    <2>1. paused' \in [GPU -> SUBSET Part]
      BY <1>1, <1>2, PausedTyped DEF RDMAPauses
    <2> QED BY <1>2, <2>1 DEF RDMAPauses, CPTypeOK, portVars
  <1>3. CASE RDMADrained(g)
    <2>1. toPart' \in [GPU -> [Part -> Seq(Control)]] /\ fromPart' \in [GPU -> [Part -> Seq(Control)]]
      BY <1>1, <1>3, SentTyped DEF RDMADrained, HasRequest
    <2> QED BY <1>3, <2>1 DEF RDMADrained, CPTypeOK, gpuVars
  <1>4. CASE RDMARestarts(g)
    <2>1. toPart' \in [GPU -> [Part -> Seq(Control)]] /\ fromPart' \in [GPU -> [Part -> Seq(Control)]]
      BY <1>1, <1>4, SentTyped DEF RDMARestarts, HasRequest
    <2>2. paused' \in [GPU -> SUBSET Part]
      BY <1>1, <1>4, PausedTyped DEF RDMARestarts
    <2> QED BY <1>4, <2>1, <2>2 DEF RDMARestarts, CPTypeOK
  <1>5. CASE DMACopies(g)
    <2>1. toPart' \in [GPU -> [Part -> Seq(Control)]] /\ fromPart' \in [GPU -> [Part -> Seq(Control)]]
      BY <1>1, <1>5, SentTyped DEF DMACopies, HasRequest
    <2> QED BY <1>5, <2>1 DEF DMACopies, CPTypeOK, gpuVars
  <1> QED BY <1>2, <1>3, <1>4, <1>5

(* The rest of Typed: the driver, the accesses and the MMU. *)
RestTyped ==
    /\ queue \in Seq(QueueCommand) /\ isRunning \in BOOLEAN /\ reqs \subseteq GPU
    /\ driver \in DriverState
    /\ toMMU \in Seq(PageMigrationReq)
    /\ pageTable \in [Page -> GPU] /\ frames \in [GPU -> [Page -> Nat]]
    /\ inflight \in [GPU -> Access \cup {NoAccess}]
    /\ rdmaOut \in [GPU -> Access \cup {NoAccess}]
    /\ mmuWaits \in PageMigrationReq \cup {NoReq}
    /\ value \in [PullID -> Data] /\ writes \in 0..MaxWrites /\ migrations \in 0..MaxMigrations

(* Typed in three parts. *)
LEMMA TypedIs == Typed <=> CPTypeOK /\ PMCTyped /\ RestTyped
  BY DEF Typed, PMCTyped, RestTyped

(* The same after a step. *)
LEMMA TypedIsNext == Typed' <=> CPTypeOK' /\ PMCTyped' /\ RestTyped'
  BY DEF Typed, PMCTyped, RestTyped

(* A step inside a GPU keeps the types of the driver, the MMU and the memory system. *)
LEMMA ComposedTyped ==
    ASSUME Typed, ComposedUnchanged, UNCHANGED <<rdmaOut, value, writes>>,
           inflight' \in [GPU -> Access \cup {NoAccess}]
    PROVE  RestTyped'
  BY DEF Typed, RestTyped, ComposedUnchanged, queueVars, tableVars, mmuVars

(* Every step of a GPU keeps the types. *)
LEMMA GPUStepTyped ==
    ASSUME Typed, NEW g \in GPU, GPUStep(g)
    PROVE  Typed'
  <1>1. CPTypeOK /\ PMCTyped /\ RestTyped
    BY TypedIs
  <1>2. inflight \in [GPU -> Access \cup {NoAccess}]
    BY DEF Typed
  <1>3. CASE PMCStep(g) /\ UNCHANGED <<cpVars, accessVars>> /\ ComposedUnchanged
    <2>1. PMCTyped'
      BY <1>1, <1>3, PMCActionsTyped
    <2>2. CPTypeOK'
      BY <1>1, <1>3 DEF CPTypeOK, cpVars, portVars, gpuVars
    <2>3. RestTyped'
      BY <1>2, <1>3, ComposedTyped DEF accessVars
    <2> QED BY <2>1, <2>2, <2>3, TypedIsNext
  <1>4. CASE CPStep(g) /\ UNCHANGED accessVars /\ ComposedUnchanged
    <2>1. PMCTyped' /\ CPTypeOK'
      BY <1>1, <1>4, DriverActionsTyped
    <2>2. RestTyped'
      BY <1>2, <1>4, ComposedTyped DEF accessVars
    <2> QED BY <2>1, <2>2, TypedIsNext
  <1>5. CASE PMCAnswers(g) /\ UNCHANGED accessVars /\ ComposedUnchanged
    <2>1. PMCTyped'
      BY <1>1, <1>5, PMCActionsTyped DEF PMCAnswers
    <2>2. fromPart' \in [GPU -> [Part -> Seq(Control)]]
      <3>1. "pmc" \in Part /\ "copy" \in Control
        BY DEF Part, Control
      <3>2. Append(fromPart[g]["pmc"], "copy") \in Seq(Control)
        BY <1>1, <3>1 DEF CPTypeOK
      <3> QED BY <1>1, <1>5, <3>1, <3>2 DEF PMCAnswers, CPTypeOK
    <2>3. CPTypeOK'
      BY <1>1, <1>5, <2>2 DEF PMCAnswers, CPTypeOK, gpuVars
    <2>4. RestTyped'
      BY <1>2, <1>5, ComposedTyped DEF accessVars
    <2> QED BY <2>1, <2>3, <2>4, TypedIsNext
  <1>6. CASE /\ PartStep(g)
             /\ inflight' = IF L1 \subseteq paused'[g]
                              THEN [inflight EXCEPT ![g] = NoAccess] ELSE inflight
             /\ UNCHANGED <<rdmaOut, value, writes>>
             /\ ComposedUnchanged
    <2>1. CPTypeOK'
      BY <1>1, <1>6, PartsTyped
    <2>2. UNCHANGED migrationVars
      BY <1>6, PartHandles
    <2>3. PMCTyped'
      BY <1>1, <2>2 DEF PMCTyped, migrationVars
    <2>4. inflight' \in [GPU -> Access \cup {NoAccess}]
      BY <1>2, <1>6
    <2>5. RestTyped'
      BY <1>6, <2>4, ComposedTyped
    <2> QED BY <2>1, <2>3, <2>5, TypedIsNext
  <1>7. CASE RDMAPauses(g) \/ RDMADrained(g) \/ RDMARestarts(g) \/ DMACopies(g)
    <2>1. CPTypeOK'
      BY <1>1, <1>7, EnginesTyped
    <2>2. UNCHANGED <<pmcVars, queueVars, driver, tableVars, accessVars, mmuVars>>
      BY <1>7 DEF RDMAPauses, RDMADrained, RDMARestarts, DMACopies
    <2>3. PMCTyped'
      BY <1>1, <2>2 DEF PMCTyped, pmcVars, migrationVars
    <2>4. RestTyped'
      BY <1>2, <2>2, ComposedTyped DEF accessVars, ComposedUnchanged
    <2> QED BY <2>1, <2>3, <2>4, TypedIsNext
  <1> QED BY <1>3, <1>4, <1>5, <1>6, <1>7 DEF GPUStep

(* Every step of kernels and translations keeps the types. *)
LEMMA KernelsTyped ==
    ASSUME Typed, NEW g \in GPU,
           \/ KernelEnds(g)
           \/ \E u \in UnregisteredTLB, id \in PullID : Translate(g, u, id)
           \/ \E host \in GPU, pages \in SUBSET Page : MMURequests(g, host, pages)
    PROVE  Typed'
  <1>1. CPTypeOK /\ PMCTyped /\ RestTyped
    BY TypedIs
  <1>2. inflight \in [GPU -> Access \cup {NoAccess}] /\ rdmaOut \in [GPU -> Access \cup {NoAccess}]
    BY DEF Typed
  <1>3. UNCHANGED pmcVars
    BY DEF KernelEnds, LocalWrite, RemoteRequest, RemoteWrite, KernelDone, Translate, MMURequests
  <1>4. PMCTyped'
    BY <1>1, <1>3 DEF PMCTyped, pmcVars, migrationVars
  <1>5. ASSUME NEW a \in Access, L2Writes(a)
        PROVE  dirty' \in [GPU -> [PullID -> Data \cup {Clean}]] /\ value' \in [PullID -> Data]
    <2>1. a.owner \in GPU /\ a.id \in PullID /\ a.data \in Data
      BY DEF Access
    <2>2. dirty[a.owner] \in [PullID -> Data \cup {Clean}]
      BY <1>1, <2>1 DEF CPTypeOK
    <2>3. [dirty[a.owner] EXCEPT ![a.id] = a.data] \in [PullID -> Data \cup {Clean}]
      BY <2>1, <2>2
    <2>4. dirty' = dirty \/ dirty' = [dirty EXCEPT ![a.owner] = [dirty[a.owner] EXCEPT ![a.id] = a.data]]
      BY <1>5 DEF L2Writes
    <2>5. value' = value \/ value' = [value EXCEPT ![a.id] = a.data]
      BY <1>5 DEF L2Writes
    <2>6. dirty \in [GPU -> [PullID -> Data \cup {Clean}]] /\ value \in [PullID -> Data]
      BY <1>1 DEF CPTypeOK, RestTyped
    <2>7. PICK row \in [PullID -> Data \cup {Clean}] : row = [dirty[a.owner] EXCEPT ![a.id] = a.data]
      BY <2>3
    <2>8. dirty' \in [GPU -> [PullID -> Data \cup {Clean}]]
      BY <2>1, <2>4, <2>6, <2>7
    <2>9. value' \in [PullID -> Data]
      BY <2>1, <2>5, <2>6
    <2> QED BY <2>8, <2>9
  <1>6. CASE LocalWrite(g)
    <2>1. inflight[g] \in Access
      BY <1>2, <1>6 DEF LocalWrite
    <2>2. /\ dirty' \in [GPU -> [PullID -> Data \cup {Clean}]]
          /\ value' \in [PullID -> Data]
      BY <1>5, <1>6, <2>1 DEF LocalWrite
    <2>3. inflight' \in [GPU -> Access \cup {NoAccess}]
      BY <1>2, <1>6 DEF LocalWrite
    <2>4. CPTypeOK'
      BY <1>1, <1>6, <2>2 DEF LocalWrite, CPTypeOK, portVars
    <2>5. RestTyped'
      BY <1>1, <1>6, <2>2, <2>3 DEF LocalWrite, RestTyped, queueVars, tableVars, mmuVars
    <2> QED BY <1>4, <2>4, <2>5, TypedIsNext
  <1>7. CASE RemoteRequest(g)
    <2>1. inflight' \in [GPU -> Access \cup {NoAccess}] /\ rdmaOut' \in [GPU -> Access \cup {NoAccess}]
      BY <1>2, <1>7 DEF RemoteRequest
    <2>2. CPTypeOK'
      BY <1>1, <1>7 DEF RemoteRequest, CPTypeOK, cpVars, portVars, gpuVars
    <2>3. RestTyped'
      BY <1>1, <1>7, <2>1 DEF RemoteRequest, RestTyped, queueVars, tableVars, mmuVars
    <2> QED BY <1>4, <2>2, <2>3, TypedIsNext
  <1>8. CASE RemoteWrite(g)
    <2>1. rdmaOut[g] \in Access
      BY <1>2, <1>8 DEF RemoteWrite
    <2>2. /\ dirty' \in [GPU -> [PullID -> Data \cup {Clean}]]
          /\ value' \in [PullID -> Data]
      BY <1>5, <1>8, <2>1 DEF RemoteWrite
    <2>3. rdmaOut' \in [GPU -> Access \cup {NoAccess}]
      BY <1>2, <1>8 DEF RemoteWrite
    <2>4. CPTypeOK'
      BY <1>1, <1>8, <2>2 DEF RemoteWrite, CPTypeOK, portVars
    <2>5. RestTyped'
      BY <1>1, <1>8, <2>2, <2>3 DEF RemoteWrite, RestTyped, queueVars, tableVars, mmuVars
    <2> QED BY <1>4, <2>4, <2>5, TypedIsNext
  <1>9. CASE KernelDone(g)
    <2>1. uplink' \in [GPU -> Seq(Answer)] /\ dispatching' \in [GPU -> BOOLEAN]
      <3>1. "launch" \in Answer
        BY DEF Answer
      <3>2. uplink' \in [GPU -> Seq(Answer)]
        BY <1>1, <1>9, <3>1, SentTyped DEF KernelDone
      <3> QED BY <1>1, <1>9, <3>2 DEF KernelDone, CPTypeOK
    <2>2. CPTypeOK'
      BY <1>1, <1>9, <2>1 DEF KernelDone, CPTypeOK
    <2>3. RestTyped'
      BY <1>1, <1>9 DEF KernelDone, RestTyped, queueVars, tableVars, mmuVars, accessVars
    <2> QED BY <1>4, <2>2, <2>3, TypedIsNext
  <1>10. ASSUME NEW u \in UnregisteredTLB, NEW id \in PullID, Translate(g, u, id) PROVE Typed'
    <2>1. id[1] \in Page /\ u \in AnyTLB /\ \A t \in TLB : t \in AnyTLB
      BY DEF PullID, AnyTLB
    <2>2. TableEntry(id[1]) \in Translation
      BY <1>1, <2>1 DEF TableEntry, Translation, RestTyped
    <2>3. PICK tr \in {tlb[g][t][id[1]] : t \in AnyTLB} \cup {TableEntry(id[1])} :
             /\ tr # NoTranslation
             /\ TLBHit(g, u, id[1], tr) \/ TLBMiss(g, u, id[1], tr)
             /\ inflight' = [inflight EXCEPT ![g] =
                     [id |-> id, owner |-> tr.owner, frame |-> tr.frame, data |-> writes + 1]]
      BY <1>10 DEF Translate
    <2>4. tr \in Translation
      BY <1>1, <2>1, <2>2, <2>3 DEF CPTypeOK
    <2>5. writes' \in 0..MaxWrites /\ writes + 1 \in Data
      BY <1>1, <1>10, DriverAssumption DEF Translate, RestTyped, Data
    <2>6. [id |-> id, owner |-> tr.owner, frame |-> tr.frame, data |-> writes + 1] \in Access
      BY <2>4, <2>5 DEF Access, Translation
    <2>7. inflight' \in [GPU -> Access \cup {NoAccess}]
      BY <1>2, <2>3, <2>6
    <2>8. tlb' \in [GPU -> [AnyTLB -> [Page -> Translation \cup {NoTranslation}]]]
      <3>1. CASE TLBHit(g, u, id[1], tr)
        BY <1>1, <3>1 DEF TLBHit, CPTypeOK
      <3>2. CASE TLBMiss(g, u, id[1], tr)
        <4>1. PICK t \in TLB : tlb' = [tlb EXCEPT ![g][u][id[1]] = tr, ![g][t][id[1]] = tr]
          BY <3>2 DEF TLBMiss
        <4> DEFINE F == [tlb[g] EXCEPT ![u] = [tlb[g][u] EXCEPT ![id[1]] = tr]]
        <4> DEFINE G == [F EXCEPT ![t] = [F[t] EXCEPT ![id[1]] = tr]]
        <4>2. F \in [AnyTLB -> [Page -> Translation \cup {NoTranslation}]]
          BY <1>1, <2>1, <2>4 DEF CPTypeOK
        <4>3. G \in [AnyTLB -> [Page -> Translation \cup {NoTranslation}]]
          BY <2>1, <2>4, <4>2
        <4>4. tlb' = [tlb EXCEPT ![g] = G]
          BY <1>1, <4>1 DEF CPTypeOK
        <4> HIDE DEF G
        <4> QED BY <1>1, <4>3, <4>4 DEF CPTypeOK
      <3> QED BY <2>3, <3>1, <3>2
    <2>9. CPTypeOK'
      BY <1>1, <1>10, <2>8 DEF Translate, CPTypeOK, portVars
    <2>10. RestTyped'
      BY <1>1, <1>10, <2>5, <2>7 DEF Translate, RestTyped, queueVars, tableVars, mmuVars
    <2> QED BY <1>4, <2>9, <2>10, TypedIsNext
  <1>11. ASSUME NEW host \in GPU, NEW pages \in SUBSET Page, MMURequests(g, host, pages) PROVE Typed'
    <2>1. PICK others \in SUBSET (GPU \ {g, host}) :
             LET r == [to |-> g, host |-> host, pages |-> pages, accessing |-> {g, host} \cup others]
             IN  toMMU' = <<r>> /\ mmuWaits' = r
      BY <1>11 DEF MMURequests
    <2>2. [to |-> g, host |-> host, pages |-> pages, accessing |-> {g, host} \cup others] \in PageMigrationReq
      BY DEF PageMigrationReq
    <2>3. toMMU' \in Seq(PageMigrationReq) /\ mmuWaits' \in PageMigrationReq
      BY <2>1, <2>2
    <2>4. migrations' \in 0..MaxMigrations
      BY <1>1, <1>11, DriverAssumption DEF MMURequests, RestTyped
    <2>5. CPTypeOK'
      BY <1>1, <1>11 DEF MMURequests, CPTypeOK, cpVars, portVars, gpuVars
    <2>6. RestTyped'
      BY <1>1, <1>11, <2>3, <2>4 DEF MMURequests, RestTyped, queueVars, tableVars, accessVars
    <2> QED BY <1>4, <2>5, <2>6, TypedIsNext
  <1> QED BY <1>6, <1>7, <1>8, <1>9, <1>10, <1>11 DEF KernelEnds

-----------------------------------------------------------------------------
(* What may be under way together. *)

LEMMA AskingRuns ==
    ASSUME Typed, Driven, mmuWaits # NoReq
    PROVE  /\ reqs # {} /\ isRunning /\ Head(queue).type = "launch"
           /\ \A h \in GPU : Under("flush", h) = 0 /\ Under("copy", h) = 0
  <1>1. PICK t \in GPU : t = mmuWaits.to /\ dispatching[t]
    BY DEF Driven, Asking, Legal, PageMigrationReq
  <1>2. "launch" \in Kinds /\ "flush" \in Kinds /\ "copy" \in Kinds
    BY KindsAre
  <1>3. Inside("launch", t) = 1
    BY <1>1, InsideIs DEF One
  <1>4. Before("launch", t) \in Nat /\ After("launch", t) \in Nat
    BY <1>1, <1>2, CountsTyped
  <1>5. Under("launch", t) # 0
    BY <1>3, <1>4 DEF Under
  <1>6. \A k \in {"launch", "flush", "copy"}, h \in GPU : Under(k, h) = One(h \in reqs /\ Head(queue).type = k)
    BY DEF Driven, Queued
  <1>7. Under("launch", t) = One(t \in reqs /\ Head(queue).type = "launch")
    BY <1>6
  <1>8. t \in reqs /\ Head(queue).type = "launch"
    BY <1>5, <1>7 DEF One
  <1>9. \A h \in GPU : Under("flush", h) = 0 /\ Under("copy", h) = 0
    BY <1>6, <1>8 DEF One
  <1>10. reqs # {} /\ isRunning
    BY <1>8 DEF Driven, Queued
  <1> QED BY <1>8, <1>9, <1>10

(* While a migration is in its first phases, the MMU waits, and nothing is flushed or copied. *)
LEMMA PhaseAsks ==
    ASSUME Typed, Driven, Phase \in {"drain", "shootdown", "migrate"}
    PROVE  /\ mmuWaits # NoReq /\ req = mmuWaits /\ toMMU = <<>> /\ ~driver.toSendToMMU
           /\ \A h \in GPU : Under("flush", h) = 0 /\ Under("copy", h) = 0
           /\ Head(queue).type = "launch" /\ reqs # {}
  <1>1. mmuWaits # NoReq
    BY DEF Driven, Asking
  <1>2. toMMU = <<>> /\ ~driver.toSendToMMU
    BY DEF Driven, Asking
  <1>3. req = mmuWaits
    BY <1>1, <1>2 DEF Driven, Asking
  <1> QED BY <1>1, <1>2, <1>3, AskingRuns

(* Every GPU is in the stage StageOf gives it. *)
LEMMA StageOfIs ==
    ASSUME Typed, Staged, NEW g \in GPU
    PROVE  StageOf(g) \in Stage /\ GPUAt(g, StageOf(g))
  <1>1. PICK s \in Stage : GPUAt(g, s)
    BY DEF Staged
  <1>2. StageOf(g) = s
    BY <1>1, StageIs DEF Typed
  <1> QED BY <1>1, <1>2

(* A GPU stops in the second part of a migration and starts in the last    *)
(* but one.                                                                *)
LEMMA StagePhase ==
    ASSUME Typed, Driven, NEW g \in GPU
    PROVE  /\ StageOf(g) \in Stops => Phase = "shootdown"
           /\ StageOf(g) \in Starts => Phase = "gpuRestart"
           /\ Halted(g) => Phase \in {"shootdown", "migrate", "gpuRestart"}
           /\ Halted(g) /\ Phase = "gpuRestart" => Before("gpuRestart", g) = 1
           /\ Halted(g) /\ Phase = "shootdown" => Before("shootdown", g) = 0
           /\ Phase = "gpuRestart" /\ Before("gpuRestart", g) = 1 => Halted(g)
  <1>1. "shootdown" \in Sweeps /\ "gpuRestart" \in Sweeps /\ "shootdown" \in Kinds /\ "gpuRestart" \in Kinds
    BY KindsAre
  <1>2. \A k \in Kinds : Before(k, g) \in Nat /\ Inside(k, g) \in Nat /\ After(k, g) \in Nat
    BY CountsTyped
  <1>3. ASSUME StageOf(g) \in Stops PROVE Phase = "shootdown"
    <2>1. Inside("shootdown", g) = 1
      BY <1>3, InsideIs DEF One
    <2>2. Under("shootdown", g) # 0
      BY <1>1, <1>2, <2>1 DEF Under
    <2> QED BY <1>1, <2>2, DueIs DEF Driven
  <1>4. ASSUME StageOf(g) \in Starts PROVE Phase = "gpuRestart"
    <2>1. Inside("gpuRestart", g) = 1
      BY <1>4, InsideIs DEF One
    <2>2. Under("gpuRestart", g) # 0
      BY <1>1, <1>2, <2>1 DEF Under
    <2> QED BY <1>1, <2>2, DueIs DEF Driven
  <1>5. Halted(g) <=> StoppedNow(g)
    BY DEF Driven, StagesMatch
  <1> QED BY <1>3, <1>4, <1>5 DEF StoppedNow

(* A command at the head of a GPU's queue is counted before it. *)
LEMMA HeadBefore ==
    ASSUME Typed, NEW g \in GPU, NEW k \in Kinds, FromDriver(g, k)
    PROVE  Before(k, g) # 0 /\ Under(k, g) # 0 /\ Number(toDriver[g], OfType(k)) # 0
  <1>1. toDriver[g] \in Seq(Command) /\ toDriver[g] # <<>> /\ Head(toDriver[g]).type = k
    BY DEF Typed, CPTypeOK, FromDriver
  <1>2. Head(toDriver[g]) \in OfType(k)
    BY <1>1 DEF OfType
  <1>3. Number(toDriver[g], OfType(k)) # 0 /\ Number(toDriver[g], OfType(k)) \in Nat
    BY <1>1, <1>2, NumberTails, NumberIn
  <1>4. Number(driver.requestsToSend, CommandFor(k, g)) \in Nat
    BY NumberIn DEF Typed, DriverState
  <1>5. Before(k, g) # 0
    BY <1>3, <1>4 DEF Before
  <1>6. Before(k, g) \in Nat /\ Inside(k, g) \in Nat /\ After(k, g) \in Nat
    BY CountsTyped
  <1> QED BY <1>3, <1>5, <1>6 DEF Under

(* A GPU runs, and flushes nothing, when a shootdown arrives. *)
LEMMA ShootdownReady ==
    ASSUME Typed, Staged, Driven, NEW g \in GPU, FromDriver(g, "shootdown")
    PROVE  StageOf(g) = "running" /\ ~Flushing(g)
  <1>1. "shootdown" \in Kinds /\ "shootdown" \in Sweeps /\ "flush" \in Kinds
    BY KindsAre
  <1>2. Before("shootdown", g) # 0 /\ Under("shootdown", g) # 0
    BY <1>1, HeadBefore
  <1>3. Phase = "shootdown" /\ Under("shootdown", g) = 1
    BY <1>1, <1>2, DueIs DEF Driven
  <1>4. \A k \in Kinds : Before(k, g) \in Nat /\ Inside(k, g) \in Nat /\ After(k, g) \in Nat
    BY CountsTyped
  <1>5. Inside("shootdown", g) = 0
    BY <1>1, <1>2, <1>3, <1>4 DEF Under
  <1>6. StageOf(g) \notin Stops
    BY <1>5, InsideIs DEF One
  <1>7. ~Halted(g) /\ StageOf(g) \notin Starts
    BY <1>2, <1>3, StagePhase
  <1>8. StageOf(g) \in Stage
    BY StageOfIs
  <1>9. Under("flush", g) = 0
    BY <1>3, PhaseAsks
  <1>10. Inside("flush", g) = 0
    <2>1. Before("flush", g) \in Nat /\ Inside("flush", g) \in Nat /\ After("flush", g) \in Nat
      BY <1>1, <1>4
    <2> QED BY <1>9, <2>1 DEF Under
  <1>11. ~Flushing(g)
    BY <1>10, InsideIs DEF One
  <1> QED BY <1>6, <1>7, <1>8, <1>11 DEF Halted, Stage

(* A GPU has halted when a restart arrives. *)
LEMMA RestartReady ==
    ASSUME Typed, Driven, NEW g \in GPU, FromDriver(g, "gpuRestart")
    PROVE  Halted(g)
  <1>1. "gpuRestart" \in Kinds /\ "gpuRestart" \in Sweeps
    BY KindsAre
  <1>2. Before("gpuRestart", g) # 0 /\ Under("gpuRestart", g) # 0
    BY <1>1, HeadBefore
  <1>3. Phase = "gpuRestart" /\ Under("gpuRestart", g) = 1
    BY <1>1, <1>2, DueIs DEF Driven
  <1>4. \A k \in Kinds : Before(k, g) \in Nat /\ Inside(k, g) \in Nat /\ After(k, g) \in Nat
    BY CountsTyped
  <1>5. Before("gpuRestart", g) = 1
    BY <1>1, <1>2, <1>3, <1>4 DEF Under
  <1> QED BY <1>3, <1>5, StagePhase

(* A GPU neither stops nor has stopped when a flush arrives. *)
LEMMA FlushReady ==
    ASSUME Typed, Driven, Ordered, NEW g \in GPU, FromDriver(g, "flush")
    PROVE  StageOf(g) \notin Stops /\ ~Halted(g)
  <1>1. "flush" \in Kinds /\ "gpuRestart" \in Kinds
    BY KindsAre
  <1>2. Under("flush", g) # 0 /\ Number(toDriver[g], OfType("flush")) # 0
    BY <1>1, HeadBefore
  <1>3. Phase \notin {"drain", "shootdown", "migrate"}
    BY <1>2, PhaseAsks
  <1>4. StageOf(g) \notin Stops
    BY <1>3, StagePhase
  <1>5. Number(driver.requestsToSend, CommandFor("gpuRestart", g)) = 0
    BY <1>2 DEF Ordered
  <1>6. Number(toDriver[g], OfType("gpuRestart")) = 0
    <2>1. toDriver[g] \in Seq(Command) /\ toDriver[g] # <<>> /\ Head(toDriver[g]).type = "flush"
      BY DEF Typed, CPTypeOK, FromDriver
    <2>2. 1 \in DOMAIN toDriver[g] /\ toDriver[g][1] = Head(toDriver[g])
      BY <2>1, TailAt
    <2>3. DOMAIN toDriver[g] \subseteq Nat /\ \A i \in DOMAIN toDriver[g] : i >= 1
      BY <2>1
    <2>4. ASSUME NEW i \in DOMAIN toDriver[g] PROVE toDriver[g][i] \notin OfType("gpuRestart")
      <3>1. CASE i = 1
        BY <2>1, <2>2, <3>1 DEF OfType
      <3>2. CASE i > 1
        <4>1. toDriver[g][i].type # "gpuRestart"
          BY <2>1, <2>2, <3>2 DEF Ordered, InOrder
        <4> QED BY <4>1 DEF OfType
      <3> QED BY <2>3, <3>1, <3>2
    <2> QED BY <2>4, NumberNone
  <1>7. Before("gpuRestart", g) = 0
    BY <1>5, <1>6 DEF Before
  <1>8. ~Halted(g)
    BY <1>3, <1>7, StagePhase
  <1> QED BY <1>4, <1>8

(* A flush stays behind the restart it was sent after when a GPU takes the head of its queue. *)
LEMMA OrderedTail ==
    ASSUME Typed, Ordered, NEW g \in GPU, driver'.requestsToSend = driver.requestsToSend,
           toDriver' = toDriver \/ (toDriver[g] # <<>> /\ RetrieveFromDriver(g))
    PROVE  Ordered'
  <1>1. CASE toDriver' = toDriver
    BY <1>1 DEF Ordered
  <1>2. CASE toDriver[g] # <<>> /\ RetrieveFromDriver(g)
    <2>1. /\ toDriver[g] \in Seq(Command) /\ toDriver[g] # <<>> /\ toDriver'[g] = Tail(toDriver[g])
          /\ \A h \in GPU : h # g => toDriver'[h] = toDriver[h]
      BY <1>2 DEF Typed, CPTypeOK, RetrieveFromDriver
    <2>2. \A i \in DOMAIN Tail(toDriver[g]) : i + 1 \in DOMAIN toDriver[g] /\ Tail(toDriver[g])[i] = toDriver[g][i + 1]
      BY <2>1, TailAt
    <2>3. InOrder(toDriver[g])
      BY DEF Ordered
    <2>4. DOMAIN Tail(toDriver[g]) \subseteq Int
      BY <2>1
    <2>5. InOrder(Tail(toDriver[g]))
      BY <2>2, <2>3, <2>4 DEF InOrder
    <2>6. Number(toDriver[g], OfType("flush")) = 0 => Number(Tail(toDriver[g]), OfType("flush")) = 0
      BY <2>1, NumberTails
    <2>7. InOrder(toDriver'[g]) /\ (Number(toDriver'[g], OfType("flush")) # 0 => Number(toDriver[g], OfType("flush")) # 0)
      BY <2>1, <2>5, <2>6
    <2> QED BY <2>1, <2>7 DEF Ordered
  <1> QED BY <1>1, <1>2

-----------------------------------------------------------------------------
(* The steps of a GPU.                                                     *)

LEMMA TakesCommand ==
    ASSUME Typed, Typed', Staged, Driven, Ordered, NEW g \in GPU, ProcessReqFromDriver(g), driver' = driver
    PROVE  /\ Staged' /\ Moves(g)
           /\ toDriver[g] # <<>> /\ RetrieveFromDriver(g)
  <1>1. "flush" \in Kinds /\ "launch" \in Kinds /\ "copy" \in Kinds /\ "drain" \in Kinds /\ "rdmaRestart" \in Kinds
        /\ "shootdown" \in Kinds /\ "gpuRestart" \in Kinds /\ "migrate" \in Kinds
    BY DEF Kinds
  <1>2. "copy" \in Control /\ "flush" \in Control /\ "restart" \in Control /\ "dma" \in Sides /\ "rdma" \in Sides
    BY DEF Control, Sides
  <1>3. toDriver[g] # <<>> /\ RetrieveFromDriver(g)
    BY DEF ProcessReqFromDriver, FromDriver, ProcessLaunchKernelReq, ProcessFlushCommand, ProcessMemCopyReq,
           ProcessRDMADrainCmd, ProcessRDMARestartCommand, ProcessShootdownCommand, ProcessGPURestartReq,
           ProcessPageMigrationReq
  <1>4. CASE ProcessLaunchKernelReq(g)
    BY <1>1, <1>3, <1>4, LaunchTaken DEF Moves
  <1>5. CASE ProcessFlushCommand(g)
    <2>1. StageOf(g) \notin Stops /\ ~Halted(g)
      BY <1>5, FlushReady DEF ProcessFlushCommand
    <2> QED BY <1>1, <1>3, <1>5, <2>1, FlushTaken DEF Moves
  <1>6. CASE ProcessMemCopyReq(g)
    <2>1. /\ FromDriver(g, "copy") /\ RetrieveFromDriver(g) /\ SendTo(g, {"dma"}, "copy")
          /\ UNCHANGED <<pmcVars, uplink, fromPart, toPMCSender, cp, gpuVars, driver>>
      BY <1>6 DEF ProcessMemCopyReq
    <2> QED BY <1>1, <1>2, <1>3, <2>1, SideBegins DEF Moves
  <1>7. CASE ProcessRDMADrainCmd(g)
    <2>1. /\ FromDriver(g, "drain") /\ RetrieveFromDriver(g) /\ SendTo(g, {"rdma"}, "flush")
          /\ UNCHANGED <<pmcVars, uplink, fromPart, toPMCSender, cp, gpuVars, driver>>
      BY <1>7 DEF ProcessRDMADrainCmd
    <2> QED BY <1>1, <1>2, <1>3, <2>1, SideBegins DEF Moves
  <1>8. CASE ProcessRDMARestartCommand(g)
    <2>1. /\ FromDriver(g, "rdmaRestart") /\ RetrieveFromDriver(g) /\ SendTo(g, {"rdma"}, "restart")
          /\ UNCHANGED <<pmcVars, uplink, fromPart, toPMCSender, cp, gpuVars, driver>>
      BY <1>8 DEF ProcessRDMARestartCommand
    <2> QED BY <1>1, <1>2, <1>3, <2>1, SideBegins DEF Moves
  <1>9. CASE ProcessShootdownCommand(g)
    <2>1. StageOf(g) = "running" /\ ~Flushing(g)
      BY <1>9, ShootdownReady DEF ProcessShootdownCommand
    <2> QED BY <1>1, <1>3, <1>9, <2>1, ShootdownTaken DEF Moves
  <1>10. CASE ProcessGPURestartReq(g)
    <2>1. Halted(g)
      BY <1>10, RestartReady DEF ProcessGPURestartReq
    <2> QED BY <1>1, <1>3, <1>10, <2>1, RestartTaken DEF Moves
  <1>11. CASE ProcessPageMigrationReq(g)
    BY <1>1, <1>3, <1>11, MigrateTaken DEF Moves
  <1> QED BY <1>4, <1>5, <1>6, <1>7, <1>8, <1>9, <1>10, <1>11 DEF ProcessReqFromDriver

(* A step of a GPU or of one of its parts begins or ends a command, or     *)
(* leaves all where they are.                                              *)
LEMMA GPUMoves ==
    ASSUME Typed, Typed', Staged, Driven, Ordered, Answering, NEW g \in GPU, GPUStep(g)
    PROVE  /\ Staged' /\ Moves(g) /\ Answering'
           /\ ComposedUnchanged
           /\ toDriver' = toDriver \/ (toDriver[g] # <<>> /\ RetrieveFromDriver(g))
  <1>1. ComposedUnchanged
    BY DEF GPUStep, RDMAPauses, RDMADrained, RDMARestarts, DMACopies, ComposedUnchanged
  <1>2. driver' = driver
    BY <1>1 DEF ComposedUnchanged
  <1>3. CASE PMCStep(g) /\ UNCHANGED cpVars
    <2>1. Staged' /\ Moves(g)
      BY <1>2, <1>3, PMCSteps DEF Moves
    <2>2. Answering'
      <3>1. CASE UNCHANGED migrationVars
        BY <3>1 DEF migrationVars, Answering
      <3>2. CASE ProcessPageMigrationReqFromCtrlPort(g)
        BY <3>2 DEF ProcessPageMigrationReqFromCtrlPort, Answering, Typed
      <3>3. CASE HandleWriteDoneRspFromMemCtrl(g)
        <4>1. numDataRspPendingForPageMigration[g] \in Int /\ numDataRspPendingForPageMigration[g] > 0
          BY <3>3 DEF HandleWriteDoneRspFromMemCtrl, Typed
        <4>2. isHandlingPageMigration[g] /\ ~toSendToCtrlPort[g] /\ isHandlingPageMigration' = isHandlingPageMigration
          BY <3>3, <4>1 DEF Answering, HandleWriteDoneRspFromMemCtrl
        <4>3. CASE Completes(numDataRspPendingForPageMigration[g] - 1)
          <5>1. /\ numDataRspPendingForPageMigration' = [numDataRspPendingForPageMigration EXCEPT ![g] = -1]
                /\ toSendToCtrlPort' = [toSendToCtrlPort EXCEPT ![g] = TRUE]
            BY <3>3, <4>3 DEF HandleWriteDoneRspFromMemCtrl
          <5> QED BY <4>2, <5>1 DEF Answering, Typed
        <4>4. CASE ~Completes(numDataRspPendingForPageMigration[g] - 1)
          <5>1. /\ numDataRspPendingForPageMigration' =
                     [numDataRspPendingForPageMigration EXCEPT ![g] = numDataRspPendingForPageMigration[g] - 1]
                /\ toSendToCtrlPort' = toSendToCtrlPort
            BY <3>3, <4>4 DEF HandleWriteDoneRspFromMemCtrl
          <5> QED BY <4>2, <5>1 DEF Answering, Typed
        <4> QED BY <4>3, <4>4
      <3> QED BY <1>3, <3>1, <3>2, <3>3 DEF PMCStep, Deliver, MemServes, SendMigrationReqToAnotherPMC,
              SendDataReadyRspToRequestingPMC, SendReadReqLocalMemPort, SendWriteReqLocalMemPort,
              HandleDataPullReq, HandleDataPullRsp, HandleDataReadyRspFromMemCtrl
    <2>3. toDriver' = toDriver
      BY <1>3 DEF cpVars, portVars
    <2> QED BY <1>1, <2>1, <2>2, <2>3
  <1>4. CASE ProcessReqFromDriver(g)
    <2>1. Answering'
      <3>1. UNCHANGED pmcVars
        BY <1>4 DEF ProcessReqFromDriver, ProcessLaunchKernelReq, ProcessFlushCommand, ProcessMemCopyReq,
           ProcessRDMADrainCmd, ProcessRDMARestartCommand, ProcessShootdownCommand, ProcessGPURestartReq,
           ProcessPageMigrationReq
      <3> QED BY <3>1 DEF pmcVars, migrationVars, Answering
    <2> QED BY <1>1, <1>2, <1>4, <2>1, TakesCommand
  <1>5. CASE ProcessRspFromInternal(g)
    <2>1. UNCHANGED <<pmcVars, toDriver>>
      BY <1>5 DEF ProcessRspFromInternal, ProcessMemCopyRsp, ProcessRDMARsp, ProcessPageMigrationRsp,
           ProcessCUPipelineFlushRsp, ProcessCUPipelineRestartRsp, ProcessAddressTranslatorFlushRsp,
           ProcessAddressTranslatorRestartRsp, ProcessCacheFlushRsp, ProcessCacheRestartRsp,
           ProcessTLBFlushRsp, ProcessTLBRestartRsp
    <2>2. Answering'
      BY <2>1 DEF pmcVars, migrationVars, Answering
    <2>3. Staged' /\ Goes(g)
      BY <1>2, <1>5, Collects
    <2> QED BY <1>1, <2>1, <2>2, <2>3, GoesMoves
  <1>6. CASE SendToPMC(g)
    <2>1. Staged' /\ Moves(g)
      BY <1>2, <1>6, PMCSent DEF Moves
    <2> QED BY <1>1, <1>6, <2>1 DEF SendToPMC, Answering
  <1>7. CASE PMCAnswers(g)
    <2>1. Staged' /\ Moves(g)
      BY <1>2, <1>7, PMCAnswered DEF Moves
    <2>2. Answering'
      BY <1>7 DEF PMCAnswers, SendMigrationCompleteRspToCtrlPort, Answering, Typed
    <2> QED BY <1>1, <1>7, <2>1, <2>2 DEF PMCAnswers
  <1>8. CASE PartStep(g)
    <2>1. Staged' /\ Moves(g)
      BY <1>2, <1>8, PartSteps DEF Moves
    <2>2. UNCHANGED <<migrationVars, toDriver>>
      BY <1>8, PartHandles
    <2> QED BY <1>1, <2>1, <2>2 DEF migrationVars, Answering
  <1>9. CASE RDMAPauses(g) \/ RDMADrained(g) \/ RDMARestarts(g) \/ DMACopies(g)
    <2>1. Staged' /\ Moves(g)
      BY <1>9, SideHandles DEF Moves
    <2>2. UNCHANGED <<pmcVars, toDriver>>
      BY <1>9 DEF RDMAPauses, RDMADrained, RDMARestarts, DMACopies, portVars
    <2> QED BY <1>1, <2>1, <2>2 DEF pmcVars, migrationVars, Answering
  <1> QED BY <1>3, <1>4, <1>5, <1>6, <1>7, <1>8, <1>9 DEF GPUStep, CPStep

(* A step inside a GPU leaves the driver's own state alone. *)
LEMMA ComposedKept ==
    ASSUME ComposedUnchanged
    PROVE  DriverKept /\ UNCHANGED <<queueVars, tableVars, mmuVars>> /\ driver'.requestsToSend = driver.requestsToSend
  BY DEF ComposedUnchanged, DriverKept

(* What the steps must keep of the driver, the command processors and the  *)
(* kernels they run.                                                       *)
Controlled == Typed /\ Staged /\ Driven /\ Ordered /\ Answering

(* Every step of a GPU keeps the invariant. *)
LEMMA GPUStepControlled ==
    ASSUME Controlled, NEW g \in GPU, GPUStep(g)
    PROVE  Controlled'
  <1>1. Typed'
    BY GPUStepTyped DEF Controlled
  <1>2. /\ Staged' /\ Moves(g) /\ Answering' /\ ComposedUnchanged
        /\ toDriver' = toDriver \/ (toDriver[g] # <<>> /\ RetrieveFromDriver(g))
    BY <1>1, GPUMoves DEF Controlled
  <1>3. Driven' /\ Ordered'
    BY <1>1, <1>2, ComposedKept, MovedDriver, OrderedTail DEF Controlled
  <1> QED BY <1>1, <1>2, <1>3 DEF Controlled

(* The steps of a kernel, but for the question of the MMU. *)
LEMMA KernelControlled ==
    ASSUME Controlled, NEW g \in GPU,
           KernelEnds(g) \/ \E u \in UnregisteredTLB, id \in PullID : Translate(g, u, id)
    PROVE  Controlled'
  <1>1. Typed'
    BY KernelsTyped DEF Controlled
  <1>2. /\ ComposedUnchanged /\ toDriver' = toDriver /\ UNCHANGED pmcVars
    BY DEF KernelEnds, LocalWrite, RemoteRequest, RemoteWrite, KernelDone, Translate, cpVars, portVars,
           ComposedUnchanged
  <1>3. Answering'
    BY <1>2 DEF pmcVars, migrationVars, Answering, Controlled
  <1>4. Staged' /\ Moves(g)
    <2>1. CASE KernelDone(g)
      <3>1. "launch" \in Kinds /\ mmuWaits.to # g
        BY <2>1 DEF Kinds, KernelDone
      <3> QED BY <2>1, <3>1, KernelFinishes DEF Moves, Controlled
    <2>2. CASE ~KernelDone(g)
      <3>1. /\ UNCHANGED <<portVars, cp, dispatching, paused>>
            /\ driver' = driver /\ ctrlPort' = ctrlPort /\ isHandlingPageMigration' = isHandlingPageMigration
        BY <1>2, <2>2 DEF KernelEnds, LocalWrite, RemoteRequest, RemoteWrite, Translate, cpVars, gpuVars,
             portVars, ComposedUnchanged, pmcVars, migrationVars
      <3> QED BY <3>1, Elsewhere DEF Moves, Controlled
    <2> QED BY <2>1, <2>2
  <1>5. Driven' /\ Ordered'
    BY <1>1, <1>2, <1>4, ComposedKept, MovedDriver, OrderedTail DEF Controlled
  <1> QED BY <1>1, <1>3, <1>4, <1>5 DEF Controlled
==============================================================================
