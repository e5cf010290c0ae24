------------------------ MODULE AkitaMessaging_proofs ------------------------
(***************************************************************************)
(* Proofs about AkitaMessaging, for every number of agents and every       *)
(* capacity, latency and transaction limit: no wake-up is lost, no pending *)
(* request is lost, the engine runs out of events only when every access   *)
(* was answered, and a read returns what was written.                      *)
(***************************************************************************)
EXTENDS AkitaMessaging, CountingFacts

-----------------------------------------------------------------------------
(* Facts about the tick scheduler. *)

(* A TickScheduler whose nextTickTime matches its events in the queue. *)
WellScheduled(t) ==
    /\ (t.next = 1) <=> (1 \in t.due)
    /\ (0 \in t.due) => t.next >= 0

(* The current cycle's tick has run and no later one is scheduled: the one *)
(* situation in which TickNow is swallowed.                                *)
RanNow(t) == t.next = 0 /\ 0 \notin t.due

(* Scheduling a tick gives a TickScheduler again. *)
LEMMA TickerType ==
    ASSUME NEW t \in Ticker, NEW c \in BOOLEAN
    PROVE  /\ TickNow(t) \in Ticker
           /\ TickLater(t) \in Ticker
           /\ TickNowIf(c, t) \in Ticker
           /\ TickLaterIf(c, t) \in Ticker
           /\ Fired(t) \in Ticker
  BY DEF Ticker, TickNow, TickLater, TickNowIf, TickLaterIf, Fired, ScheduleTick, Past

(* Scheduling keeps nextTickTime and the queued events in agreement. *)
LEMMA TickerWellScheduled ==
    ASSUME NEW t \in Ticker, NEW c \in BOOLEAN, WellScheduled(t)
    PROVE  /\ WellScheduled(TickNow(t))
           /\ WellScheduled(TickLater(t))
           /\ WellScheduled(TickNowIf(c, t))
           /\ WellScheduled(TickLaterIf(c, t))
           /\ WellScheduled(Fired(t))
  BY DEF Ticker, TickNow, TickLater, TickNowIf, TickLaterIf, Fired, ScheduleTick,
         Past, WellScheduled

(* TickLater always leaves an event in the queue, TickNow does unless the  *)
(* tick of this cycle has already run, and neither removes an event or     *)
(* makes a component due now that was not.                                 *)
LEMMA TickerDue ==
    ASSUME NEW t \in Ticker, NEW c \in BOOLEAN, WellScheduled(t)
    PROVE  /\ TickLater(t).due # {}
           /\ ~RanNow(t) => TickNow(t).due # {} /\ ~RanNow(TickNow(t))
           /\ t.due # {} => TickLaterIf(c, t).due # {}
           /\ t.due # {} => TickNowIf(c, t).due # {}
           /\ c => TickLaterIf(c, t).due # {}
           /\ c /\ ~RanNow(t) => TickNowIf(c, t).due # {}
           /\ ~RanNow(t) => ~RanNow(TickNowIf(c, t))
           /\ 0 \notin t.due => 0 \notin TickLater(t).due /\ 0 \notin TickLaterIf(c, t).due
           /\ 0 \notin Fired(t).due
  BY DEF Ticker, TickNow, TickLater, TickNowIf, TickLaterIf, Fired, ScheduleTick,
         Past, WellScheduled, RanNow

(* When time advances to the earliest event, events keep their agreement   *)
(* with nextTickTime, none is lost and no tick is taken for already run.   *)
LEMMA ElapseProperties ==
    ASSUME NEW t \in Ticker, WellScheduled(t), NEW d \in Nat \ {0},
           \A e \in t.due : e >= d
    PROVE  /\ Elapse(t, d) \in Ticker
           /\ WellScheduled(Elapse(t, d))
           /\ ~RanNow(Elapse(t, d))
           /\ t.due # {} => Elapse(t, d).due # {}
  <1>1. CASE d = 1
    <2>1. t.due \in {{}, {1}}
      BY <1>1 DEF Ticker
    <2>2. CASE t.due = {}
      BY <1>1, <2>2 DEF Ticker, Elapse, WellScheduled, RanNow, Past
    <2>3. CASE t.due = {1}
      <3>1. { e - d : e \in t.due } = {0}
        BY <1>1, <2>3
      <3> QED BY <1>1, <2>3, <3>1 DEF Ticker, Elapse, WellScheduled, RanNow, Past
    <2> QED BY <2>1, <2>2, <2>3
  <1>2. CASE d > 1
    <2>1. t.due = {}
      BY <1>2 DEF Ticker
    <2>2. t.next # 1
      BY <2>1 DEF WellScheduled
    <2>3. Elapse(t, d) = [next |-> Past, due |-> {}]
      BY <1>2, <2>1, <2>2 DEF Elapse, Ticker, Past
    <2> QED BY <2>1, <2>3 DEF Ticker, WellScheduled, RanNow, Past
  <1> QED BY <1>1, <1>2

-----------------------------------------------------------------------------
(* Facts about sequences. *)

(* A value that occurs in a sequence has a first occurrence. *)
LEMMA FirstKnownInRange ==
    ASSUME NEW s \in Seq(Val), NEW v, IsKnown(s, v)
    PROVE  FirstKnown(s, v) \in 1..Len(s)
  <1> DEFINE T == { i \in 1..Len(s) : s[i] = v }
  <1>1. T \subseteq Nat /\ T # {}
    BY LenProperties DEF IsKnown
  <1>2. PICK i \in T : \A j \in T : ~(<<j, i>> \in OpToRel(<, Nat))
    BY <1>1, NatLessThanWellFounded, WFMin
  <1>3. \A j \in 1..(i-1) : s[j] # v
    <2> SUFFICES ASSUME NEW j \in 1..(i-1), s[j] = v PROVE FALSE
      OBVIOUS
    <2>1. i \in 1..Len(s) /\ Len(s) \in Nat
      BY LenProperties
    <2>2. j \in T /\ j < i /\ j \in Nat /\ i \in Nat
      BY <2>1
    <2> QED BY <1>2, <2>2 DEF OpToRel
  <1> QED BY <1>2, <1>3 DEF FirstKnown

-----------------------------------------------------------------------------
(* Type correctness. *)

(* The sets of handlers: agents and the memory controller own the ports.   *)
LEMMA Handlers ==
    /\ N \in Nat
    /\ Mem \in Port /\ Mem \notin Agent /\ Conn \in Handler /\ Conn \notin Port
    /\ Agent \subseteq Port /\ Port \subseteq Handler /\ Agent \subseteq Handler
    /\ Mem \in Handler
    /\ \A p \in Port : p \in Agent \/ p = Mem
    /\ \A h \in Handler : h \in Port \/ h = Conn
  BY MessagingAssumption DEF Agent, Mem, Port, Conn, Handler

(* What an agent's processMsgRsp leaves has the right type. *)
LEMMA AfterType ==
    ASSUME TypeOK, NEW a \in Agent
    PROVE  /\ pendingAfter(a) \in SUBSET Msg
           /\ knownAfter(a) \in [Addr -> Seq(Val)]
  <1>1. pendingAfter(a) \in SUBSET Msg
    BY Zenon DEF TypeOK, pendingAfter
  <1>2. CASE inBuf[a] = <<>>
    BY <1>1, <1>2 DEF TypeOK, knownAfter
  <1>3. CASE inBuf[a] # <<>>
    <2> DEFINE kn == known[a]
               rsp == Head(inBuf[a])
    <2>1. kn \in [Addr -> Seq(Val)]
      BY DEF TypeOK
    <2>2. rsp \in Msg
      BY <1>3, Handlers, HeadTailProperties DEF TypeOK
    <2>3. knownAfter(a) = checkReadResult(kn, rsp)
      BY <1>3 DEF knownAfter
    <2> HIDE DEF kn, rsp
    <2>4. CASE rsp.op = "read" /\ IsKnown(kn[rsp.addr], rsp.val)
      <3> DEFINE s == kn[rsp.addr]
                 k == FirstKnown(s, rsp.val)
      <3>1. s \in Seq(Val) /\ rsp.addr \in Addr
        BY <2>1, <2>2 DEF Msg
      <3>2. k \in 1..Len(s)
        BY <2>4, <3>1, FirstKnownInRange
      <3>3. Len(s) \in Nat /\ \A i \in 1..Len(s) : s[i] \in Val
        BY <3>1, LenProperties
      <3>4. k \in Int /\ Len(s) \in Int /\ \A i \in k..Len(s) : s[i] \in Val
        BY <3>2, <3>3
      <3> HIDE DEF k
      <3>5. SubSeq(s, k, Len(s)) \in Seq(Val)
        BY <3>4, SubSeqProperties
      <3>6. checkReadResult(kn, rsp) = [kn EXCEPT ![rsp.addr] = SubSeq(s, k, Len(s))]
        BY <2>4 DEF checkReadResult, k
      <3> QED BY <1>1, <2>1, <2>3, <3>1, <3>5, <3>6
    <2>5. CASE ~(rsp.op = "read" /\ IsKnown(kn[rsp.addr], rsp.val))
      BY <1>1, <2>1, <2>3, <2>5 DEF checkReadResult
    <2> QED BY <2>4, <2>5
  <1> QED BY <1>2, <1>3

(* Retrieve keeps the types of the port's state. *)
LEMMA RetrieveType ==
    ASSUME TypeOK, NEW p \in Port, Retrieve(p)
    PROVE  inBuf' \in [Port -> Seq(Msg)] /\ portBusy' \in [Port -> BOOLEAN]
  <1>1. inBuf[p] \in Seq(Msg)
    BY DEF TypeOK
  <1>2. (IF inBuf[p] = <<>> THEN inBuf[p] ELSE Tail(inBuf[p])) \in Seq(Msg)
    BY <1>1, HeadTailProperties
  <1>3. (portBusy[p] /\ inBuf[p] = <<>>) \in BOOLEAN
    OBVIOUS
  <1> QED BY <1>2, <1>3 DEF TypeOK, Retrieve

(* A request an agent builds is a message. *)
LEMMA NewReqType ==
    ASSUME TypeOK, NEW a \in Agent, NEW req \in NewReqs(a)
    PROVE  req \in Msg /\ req.agent = a /\ (req.op = "write" => req.val \in Val)
  BY DEF TypeOK, NewReqs, Msg

(* Every step keeps TypeOK. *)
LEMMA TypeStep == TypeOK /\ [Next]_vars => TypeOK'
  <1> SUFFICES ASSUME TypeOK, [Next]_vars PROVE TypeOK'
    OBVIOUS
  <1> USE Handlers
  <1>1. CASE AdvanceTime
    <2>1. PICK d \in 1..Latency :
            /\ EarliestEvent(d)
            /\ ticker' = [h \in Handler |-> Elapse(ticker[h], d)]
            /\ respond' = [i \in 1..Len(respond) |-> [respond[i] EXCEPT !.time = @ - d]]
      BY <1>1 DEF AdvanceTime
    <2>2. d \in Nat /\ Latency \in Nat /\ d >= 1
      BY MessagingAssumption
    <2>3. ASSUME NEW h \in Handler PROVE Elapse(ticker[h], d) \in Ticker
      <3>1. ticker[h] \in Ticker /\ \A e \in ticker[h].due : e >= d
        BY <2>1 DEF TypeOK, EarliestEvent
      <3>2. { e - d : e \in ticker[h].due } \in SUBSET {0, 1}
        BY <2>2, <3>1 DEF Ticker
      <3>3. (IF ticker[h].next >= d THEN ticker[h].next - d ELSE Past) \in {Past, 0, 1}
        BY <2>2, <3>1 DEF Ticker, Past
      <3> QED BY <3>2, <3>3 DEF Elapse, Ticker
    <2>4. respond' \in Seq(RespondEvent)
      <3>1. Len(respond) \in Nat /\ \A i \in 1..Len(respond) : respond[i] \in RespondEvent
        BY LenProperties DEF TypeOK
      <3>2. ASSUME NEW i \in 1..Len(respond)
            PROVE  [respond[i] EXCEPT !.time = @ - d] \in RespondEvent
        BY <2>1, <2>2, <3>1 DEF RespondEvent, EarliestEvent
      <3> QED BY <2>1, <3>1, <3>2, IsASeq
    <2> QED BY <1>1, <2>1, <2>3, <2>4 DEF AdvanceTime, TypeOK, connVars, agentVars
  <1>2. CASE \E a \in Agent : AgentTickNoSend(a) \/ AgentTickSendFails(a)
    <2>1. PICK a \in Agent : AgentTickNoSend(a) \/ AgentTickSendFails(a)
      BY <1>2
    <2>2. /\ Retrieve(a)
          /\ pending' = [pending EXCEPT ![a] = pendingAfter(a)]
          /\ known' = [known EXCEPT ![a] = knownAfter(a)]
          /\ ticker' = [ticker EXCEPT ![a] = TickLaterIf(inBuf[a] # <<>>, Fired(@)),
                                      ![Conn] = TickNowIf(Freed(a), @)]
          /\ endBusy' \in [Port -> BOOLEAN]
          /\ UNCHANGED <<endBuf, connVars, memVars, readLeft, writeLeft>>
      BY <2>1 DEF AgentTickNoSend, AgentTickSendFails, TypeOK
    <2>3. ticker' \in [Handler -> Ticker]
      <3>1. TickLaterIf(inBuf[a] # <<>>, Fired(ticker[a])) \in Ticker
        BY TickerType DEF TypeOK
      <3>2. TickNowIf(Freed(a), ticker[Conn]) \in Ticker
        BY TickerType DEF TypeOK, Freed
      <3> QED BY <2>2, <3>1, <3>2 DEF TypeOK
    <2>4. pending' \in [Agent -> SUBSET Msg] /\ known' \in [Agent -> [Addr -> Seq(Val)]]
      BY <2>2, AfterType DEF TypeOK
    <2> QED BY <2>2, <2>3, <2>4, RetrieveType DEF TypeOK, connVars, memVars
  <1>3. CASE \E a \in Agent : AgentTickSends(a)
    <2>1. PICK a \in Agent : AgentTickSends(a)
      BY <1>3
    <2>2. PICK req \in NewReqs(a) :
            /\ endBuf' = [endBuf EXCEPT ![a] = Append(@, req)]
            /\ pending' = [pending EXCEPT ![a] = pendingAfter(a) \cup {req}]
            /\ known' = [known EXCEPT ![a] =
                            IF req.op = "write"
                            THEN [knownAfter(a) EXCEPT ![req.addr] = Append(@, req.val)]
                            ELSE knownAfter(a)]
            /\ readLeft' = [readLeft EXCEPT ![a] = IF req.op = "read" THEN @ - 1 ELSE @]
            /\ writeLeft' = [writeLeft EXCEPT ![a] = IF req.op = "write" THEN @ - 1 ELSE @]
      BY <2>1 DEF AgentTickSends
    <2>3. req \in Msg /\ req.agent = a /\ (req.op = "write" => req.val \in Val)
      BY NewReqType
    <2>4. ticker' \in [Handler -> Ticker]
      <3>1. TickLater(Fired(ticker[a])) \in Ticker /\ TickNow(ticker[Conn]) \in Ticker
        BY TickerType DEF TypeOK
      <3> QED BY <2>1, <3>1 DEF TypeOK, AgentTickSends
    <2>5. endBuf' \in [Port -> Seq(Msg)]
      BY <2>2, <2>3, AppendProperties DEF TypeOK
    <2>6. pending' \in [Agent -> SUBSET Msg]
      BY <2>2, <2>3, AfterType DEF TypeOK
    <2>7. known' \in [Agent -> [Addr -> Seq(Val)]]
      <3>1. knownAfter(a) \in [Addr -> Seq(Val)] /\ req.addr \in Addr
        BY <2>3, AfterType DEF Msg
      <3>2. req.op = "write" => Append(knownAfter(a)[req.addr], req.val) \in Seq(Val)
        BY <2>3, <3>1, AppendProperties
      <3> QED BY <2>2, <3>1, <3>2 DEF TypeOK
    <2>8. readLeft' \in [Agent -> Int] /\ writeLeft' \in [Agent -> Int]
      <3>1. readLeft[a] \in Int /\ writeLeft[a] \in Int
        BY DEF TypeOK
      <3>2. /\ (IF req.op = "read" THEN readLeft[a] - 1 ELSE readLeft[a]) \in Int
            /\ (IF req.op = "write" THEN writeLeft[a] - 1 ELSE writeLeft[a]) \in Int
        BY <3>1
      <3> QED BY <2>2, <3>2 DEF TypeOK
    <2>9. Retrieve(a) /\ UNCHANGED <<endBusy, connVars, memVars>>
      BY <2>1 DEF AgentTickSends
    <2> QED BY <2>4, <2>5, <2>6, <2>7, <2>8, <2>9, RetrieveType DEF TypeOK, connVars, memVars
  <1>4. CASE MemTick
    <2>1. ticker' \in [Handler -> Ticker]
      <3>1. /\ Fired(ticker[Mem]) \in Ticker
            /\ TickLater(Fired(ticker[Mem])) \in Ticker
            /\ TickNowIf(Freed(Mem), ticker[Conn]) \in Ticker
        BY TickerType DEF TypeOK, Freed
      <3> QED BY <1>4, <3>1 DEF MemTick, TypeOK
    <2>2. inBuf' \in [Port -> Seq(Msg)] /\ portBusy' \in [Port -> BOOLEAN]
      BY <1>4, RetrieveType DEF MemTick, TypeOK
    <2>3. respond' \in Seq(RespondEvent) /\ numTrans' \in Int
      <3>1. CASE numTrans >= MaxTrans \/ inBuf[Mem] = <<>>
        BY <1>4, <3>1 DEF MemTick, TypeOK
      <3>2. CASE ~(numTrans >= MaxTrans \/ inBuf[Mem] = <<>>)
        <4>1. [msg |-> Head(inBuf[Mem]), time |-> Latency] \in RespondEvent
          BY <3>2, HeadTailProperties, MessagingAssumption DEF TypeOK, RespondEvent
        <4>2. /\ respond' = Append(respond, [msg |-> Head(inBuf[Mem]), time |-> Latency])
              /\ numTrans' = numTrans + 1
          BY <1>4, <3>2 DEF MemTick
        <4>3. respond' \in Seq(RespondEvent)
          BY <4>1, <4>2, AppendProperties DEF TypeOK
        <4>4. numTrans' \in Int
          BY <4>2 DEF TypeOK
        <4> QED BY <4>3, <4>4
      <3> QED BY <3>1, <3>2
    <2> QED BY <1>4, <2>1, <2>2, <2>3 DEF MemTick, TypeOK, connVars, agentVars
  <1>5. CASE \E i \in 1..Len(respond) : HandleRespond(i)
    <2>1. PICK i \in 1..Len(respond) : HandleRespond(i)
      BY <1>5
    <2> DEFINE req == respond[i].msg
    <2>2. respond[i] \in RespondEvent
      BY LenProperties DEF TypeOK
    <2>3. req \in Msg
      BY <2>2 DEF RespondEvent
    <2>4. req.agent \in Agent /\ req.addr \in Addr /\ req.val \in Data
      BY <2>3 DEF Msg
    <2>5. Response(req) \in Msg
      <3>1. storage[req.agent][req.addr] \in Data
        BY <2>4 DEF TypeOK
      <3> HIDE DEF req
      <3>2. [req EXCEPT !.val = storage[req.agent][req.addr]] \in Msg
        BY <2>3, <3>1 DEF Msg
      <3> QED BY <2>3, <3>2 DEF Response
    <2>6. endBuf' = [endBuf EXCEPT ![Mem] = Append(@, Response(req))]
      BY <2>1 DEF HandleRespond
    <2>7. endBuf' \in [Port -> Seq(Msg)]
      BY <2>5, <2>6, AppendProperties DEF TypeOK
    <2>8. storage' \in [Agent -> [Addr -> Data]]
      BY <2>1, <2>4 DEF HandleRespond, TypeOK
    <2>9. respond' \in Seq(RespondEvent) /\ numTrans' \in Int
      BY <2>1, RemoveAtProperties DEF HandleRespond, TypeOK
    <2>10. ticker' \in [Handler -> Ticker]
      <3>1. TickLater(ticker[Mem]) \in Ticker /\ TickNow(ticker[Conn]) \in Ticker
        BY TickerType DEF TypeOK
      <3> QED BY <2>1, <3>1 DEF HandleRespond, TypeOK
    <2> HIDE DEF req
    <2> QED BY <2>1, <2>7, <2>8, <2>9, <2>10 DEF HandleRespond, TypeOK, connVars, agentVars
  <1>6. CASE \E i \in 1..Len(respond) : RetryRespond(i)
    <2>1. PICK i \in 1..Len(respond) : RetryRespond(i)
      BY <1>6
    <2>2. respond[i] \in RespondEvent
      BY LenProperties DEF TypeOK
    <2>3. [respond[i] EXCEPT !.time = 1] \in RespondEvent
      BY <2>2, MessagingAssumption DEF RespondEvent
    <2>4. respond' = [respond EXCEPT ![i] = [respond[i] EXCEPT !.time = 1]]
      BY <2>1 DEF RetryRespond
    <2>5. respond' \in Seq(RespondEvent)
      BY <2>3, <2>4, ExceptSeq DEF TypeOK
    <2> QED BY <2>1, <2>5 DEF RetryRespond, TypeOK, connVars, agentVars
  <1>7. CASE ConnTick
    <2>1. Fired(ticker[Conn]) \in Ticker
      BY TickerType DEF TypeOK
    <2>2. 0 \in Port
      BY DEF Port
    <2>3. ticker' \in [Handler -> Ticker]
      BY <1>7, <2>1 DEF ConnTick, TypeOK
    <2> QED BY <1>7, <2>2, <2>3 DEF ConnTick, TypeOK, memVars, agentVars
  <1>8. CASE Forward
    <2> DEFINE p == CurrentEnd
               m == Head(endBuf[p])
               d == Dst(p, m)
    <2>1. p \in Port
      BY DEF CurrentEnd, TypeOK, Port
    <2>2. endBuf[p] \in Seq(Msg) /\ endBuf[p] # <<>>
      BY <1>8, <2>1 DEF Forward, TypeOK
    <2>3. m \in Msg /\ Tail(endBuf[p]) \in Seq(Msg)
      BY <2>2, HeadTailProperties
    <2>4. d \in Port
      BY <2>3 DEF Dst, Msg
    <2>5. Append(inBuf[d], m) \in Seq(Msg)
      BY <2>3, <2>4, AppendProperties DEF TypeOK
    <2>6. /\ inBuf' = [inBuf EXCEPT ![d] = Append(@, m)]
          /\ endBuf' = [endBuf EXCEPT ![p] = Tail(@)]
          /\ endBusy' = [endBusy EXCEPT ![p] = FALSE]
          /\ ticker' = [ticker EXCEPT ![d] = TickLater(@), ![p] = TickLaterIf(endBusy[p], @)]
          /\ progress' = TRUE
          /\ UNCHANGED <<portBusy, nextPortID, running, visited, memVars, agentVars>>
      BY <1>8 DEF Forward
    <2> HIDE DEF p, m, d
    <2>7. ticker' \in [Handler -> Ticker]
      <3>1. p # d
        BY <2>3 DEF p, d, m, Dst, Msg
      <3>2. TickLater(ticker[d]) \in Ticker /\ TickLaterIf(endBusy[p], ticker[p]) \in Ticker
        BY <2>1, <2>4, TickerType DEF TypeOK
      <3> QED BY <2>1, <2>4, <2>6, <3>1, <3>2 DEF TypeOK
    <2> QED BY <2>1, <2>3, <2>4, <2>5, <2>6, <2>7 DEF TypeOK, memVars, agentVars
  <1>9. CASE LeaveEnd
    <2>1. CurrentEnd \in Port
      BY DEF CurrentEnd, TypeOK, Port
    <2>2. portBusy' \in [Port -> BOOLEAN]
      BY <1>9 DEF LeaveEnd, TypeOK
    <2>3. TickLaterIf(progress, ticker[Conn]) \in Ticker
      BY TickerType DEF TypeOK
    <2>4. /\ ticker' \in [Handler -> Ticker]
          /\ visited' \in Port /\ nextPortID' \in Port
          /\ running' \in BOOLEAN /\ progress' \in BOOLEAN
      <3>1. CASE visited < N
        BY <1>9, <3>1 DEF LeaveEnd, TypeOK, Port
      <3>2. CASE ~(visited < N)
        <4>1. /\ visited' = 0
              /\ running' = FALSE
              /\ progress' = FALSE
              /\ nextPortID' = NextPort
              /\ ticker' = [ticker EXCEPT ![Conn] = TickLaterIf(progress, @)]
          BY <1>9, <3>2 DEF LeaveEnd
        <4>2. visited' \in Port /\ nextPortID' \in Port
          BY <4>1 DEF NextPort, TypeOK, Port
        <4>3. ticker' \in [Handler -> Ticker]
          BY <4>1, <2>3 DEF TypeOK
        <4> QED BY <4>1, <4>2, <4>3
      <3> QED BY <3>1, <3>2
    <2>6. UNCHANGED <<inBuf, endBuf, endBusy, memVars, agentVars>>
      BY <1>9 DEF LeaveEnd
    <2> QED BY <2>2, <2>4, <2>6 DEF TypeOK, memVars, agentVars
  <1>10. CASE UNCHANGED vars
    BY <1>10 DEF TypeOK, vars, connVars, memVars, agentVars
  <1> QED BY <1>1, <1>2, <1>3, <1>4, <1>5, <1>6, <1>7, <1>8, <1>9, <1>10 DEF Next, RespondOrRetry

-----------------------------------------------------------------------------
(* The wake-up invariant. *)

(* A message in a sequence is still there when another one is appended,    *)
(* and the appended one is there.                                          *)
LEMMA CarriesAppend ==
    ASSUME NEW s \in Seq(Msg), NEW e \in Msg, NEW a, NEW id
    PROVE  /\ Carries(s, a, id) => Carries(Append(s, e), a, id)
           /\ e.agent = a /\ e.id = id => Carries(Append(s, e), a, id)
  <1>1. /\ Len(s) \in Nat
        /\ Len(Append(s, e)) = Len(s) + 1
        /\ \A i \in 1..Len(s) : Append(s, e)[i] = s[i]
        /\ Append(s, e)[Len(s) + 1] = e
    BY LenProperties, AppendProperties
  <1>2. Len(s) + 1 \in 1..Len(Append(s, e)) /\ \A i \in 1..Len(s) : i \in 1..Len(Append(s, e))
    BY <1>1
  <1> QED BY <1>1, <1>2 DEF Carries

(* A message in a sequence is its head or in its tail. *)
LEMMA CarriesTail ==
    ASSUME NEW s \in Seq(Msg), s # <<>>, NEW a, NEW id, Carries(s, a, id)
    PROVE  \/ Head(s).agent = a /\ Head(s).id = id
           \/ Carries(Tail(s), a, id)
  <1>1. PICK i \in 1..Len(s) : s[i].agent = a /\ s[i].id = id
    BY DEF Carries
  <1>2. /\ Len(s) \in Nat
        /\ Len(Tail(s)) = Len(s) - 1
        /\ \A j \in 1..Len(Tail(s)) : Tail(s)[j] = s[j + 1]
    BY LenProperties, HeadTailProperties
  <1>3. CASE i = 1
    BY <1>1, <1>3
  <1>4. CASE i # 1
    <2>1. i - 1 \in 1..Len(Tail(s)) /\ (i - 1) + 1 = i
      BY <1>2, <1>4
    <2>2. Tail(s)[i - 1] = s[i]
      BY <1>2, <2>1
    <2> QED BY <1>1, <2>1, <2>2 DEF Carries
  <1> QED BY <1>3, <1>4

(* A full port is not empty. *)
LEMMA FullNotEmpty ==
    ASSUME TypeOK, NEW p \in Port
    PROVE  /\ Len(inBuf[p]) >= PortCap => inBuf[p] # <<>>
           /\ Len(endBuf[p]) >= EndCap => endBuf[p] # <<>>
  <1>1. Len(<<>>) = 0
    OBVIOUS
  <1> QED BY <1>1, MessagingAssumption

(* The destination of a queued message is a port, and not the sender's. *)
LEMMA DstType ==
    ASSUME TypeOK, NEW p \in Port, endBuf[p] # <<>>
    PROVE  /\ Head(endBuf[p]) \in Msg
           /\ Dst(p, Head(endBuf[p])) \in Port
           /\ Dst(p, Head(endBuf[p])) # p
  <1>1. endBuf[p] \in Seq(Msg)
    BY DEF TypeOK
  <1>2. Head(endBuf[p]) \in Msg
    BY <1>1, HeadTailProperties
  <1>3. Head(endBuf[p]).agent \in Agent
    BY <1>2 DEF Msg
  <1> QED BY <1>2, <1>3, Handlers DEF Dst

(* What the three outcomes of an agent's tick have in common: sent tells   *)
(* whether a request was sent.                                             *)
AgentTicked(a, sent) ==
    /\ ~running
    /\ 0 \in ticker[a].due
    /\ ticker' = [ticker EXCEPT ![a] = TickLaterIf(sent \/ inBuf[a] # <<>>, Fired(@)),
                                ![Conn] = TickNowIf(sent \/ Freed(a), @)]
    /\ Retrieve(a)
    /\ UNCHANGED <<connVars, memVars>>
    /\ \A p \in Port \ {a} : endBuf'[p] = endBuf[p] /\ endBusy'[p] = endBusy[p]
    /\ \A b \in Agent \ {a} : /\ pending'[b] = pending[b]
                              /\ readLeft'[b] = readLeft[b]
                              /\ writeLeft'[b] = writeLeft[b]
    /\ sent =>
         /\ endBusy'[a] = endBusy[a]
         /\ Len(endBuf[a]) < EndCap
         /\ \E req \in Msg : /\ req.agent = a
                             /\ endBuf'[a] = Append(endBuf[a], req)
                             /\ pending'[a] = pendingAfter(a) \cup {req}
    /\ ~sent =>
         /\ endBuf'[a] = endBuf[a]
         /\ pending'[a] = pendingAfter(a)
         /\ \/ endBusy'[a] = endBusy[a]
            \/ endBusy'[a] /\ Len(endBuf[a]) >= EndCap
         /\ \/ readLeft'[a] = 0 /\ writeLeft'[a] = 0
            \/ pendingAfter(a) # {}
            \/ endBusy'[a] /\ Len(endBuf[a]) >= EndCap

(* The three forms of an agent's tick have the effects AgentTicked lists. *)
LEMMA AgentTicks ==
    ASSUME TypeOK, NEW a \in Agent
    PROVE  /\ AgentTickNoSend(a) => AgentTicked(a, FALSE)
           /\ AgentTickSendFails(a) => AgentTicked(a, FALSE)
           /\ AgentTickSends(a) => AgentTicked(a, TRUE)
  <1> USE Handlers
  <1>1. ASSUME AgentTickNoSend(a) PROVE AgentTicked(a, FALSE)
    <2>1. NothingLeft(a) \/ pendingAfter(a) # {}
      BY <1>1 DEF AgentTickNoSend, isAddressInPendingReq
    <2>2. /\ ~running
          /\ 0 \in ticker[a].due
          /\ Retrieve(a)
          /\ ticker' = [ticker EXCEPT ![a] = TickLaterIf(inBuf[a] # <<>>, Fired(@)),
                                      ![Conn] = TickNowIf(Freed(a), @)]
          /\ pending' = [pending EXCEPT ![a] = pendingAfter(a)]
          /\ UNCHANGED <<endBuf, connVars, memVars, readLeft, writeLeft>>
      BY <1>1 DEF AgentTickNoSend, MayRunPrimary
    <2>3. ticker' = [ticker EXCEPT ![a] = TickLaterIf(FALSE \/ inBuf[a] # <<>>, Fired(@)),
                                   ![Conn] = TickNowIf(FALSE \/ Freed(a), @)]
      <3>1. /\ (FALSE \/ inBuf[a] # <<>>) = (inBuf[a] # <<>>)
            /\ (FALSE \/ Freed(a)) = Freed(a)
        BY DEF Freed
      <3> QED BY <2>2, <3>1
    <2>4. /\ pending'[a] = pendingAfter(a)
          /\ \A b \in Agent \ {a} : /\ pending'[b] = pending[b]
                                    /\ readLeft'[b] = readLeft[b]
                                    /\ writeLeft'[b] = writeLeft[b]
      BY <2>2 DEF TypeOK
    <2>5. UNCHANGED endBusy
      BY <1>1 DEF AgentTickNoSend
    <2> QED BY <2>1, <2>2, <2>3, <2>4, <2>5 DEF AgentTicked, NothingLeft
  <1>2. ASSUME AgentTickSendFails(a) PROVE AgentTicked(a, FALSE)
    <2>1. endBusy' = [endBusy EXCEPT ![a] = TRUE] /\ Len(endBuf[a]) >= EndCap
      BY <1>2 DEF AgentTickSendFails
    <2>2. /\ ~running
          /\ 0 \in ticker[a].due
          /\ Retrieve(a)
          /\ ticker' = [ticker EXCEPT ![a] = TickLaterIf(inBuf[a] # <<>>, Fired(@)),
                                      ![Conn] = TickNowIf(Freed(a), @)]
          /\ pending' = [pending EXCEPT ![a] = pendingAfter(a)]
          /\ UNCHANGED <<endBuf, connVars, memVars, readLeft, writeLeft>>
      BY <1>2 DEF AgentTickSendFails, MayRunPrimary
    <2>3. ticker' = [ticker EXCEPT ![a] = TickLaterIf(FALSE \/ inBuf[a] # <<>>, Fired(@)),
                                   ![Conn] = TickNowIf(FALSE \/ Freed(a), @)]
      <3>1. /\ (FALSE \/ inBuf[a] # <<>>) = (inBuf[a] # <<>>)
            /\ (FALSE \/ Freed(a)) = Freed(a)
        BY DEF Freed
      <3> QED BY <2>2, <3>1
    <2>4. /\ pending'[a] = pendingAfter(a)
          /\ \A b \in Agent \ {a} : /\ pending'[b] = pending[b]
                                    /\ readLeft'[b] = readLeft[b]
                                    /\ writeLeft'[b] = writeLeft[b]
      BY <2>2 DEF TypeOK
    <2>5. endBusy'[a] /\ \A p \in Port \ {a} : endBusy'[p] = endBusy[p]
      BY <2>1 DEF TypeOK
    <2> QED BY <2>1, <2>2, <2>3, <2>4, <2>5 DEF AgentTicked
  <1>3. ASSUME AgentTickSends(a) PROVE AgentTicked(a, TRUE)
    <2>1. PICK req \in NewReqs(a) :
            /\ endBuf' = [endBuf EXCEPT ![a] = Append(@, req)]
            /\ pending' = [pending EXCEPT ![a] = pendingAfter(a) \cup {req}]
            /\ readLeft' = [readLeft EXCEPT ![a] = IF req.op = "read" THEN @ - 1 ELSE @]
            /\ writeLeft' = [writeLeft EXCEPT ![a] = IF req.op = "write" THEN @ - 1 ELSE @]
      BY <1>3 DEF AgentTickSends
    <2>2. req \in Msg /\ req.agent = a
      BY NewReqType
    <2>3. /\ ~running
          /\ 0 \in ticker[a].due
          /\ Len(endBuf[a]) < EndCap
          /\ Retrieve(a)
          /\ ticker' = [ticker EXCEPT ![a] = TickLater(Fired(@)), ![Conn] = TickNow(@)]
          /\ UNCHANGED <<endBusy, connVars, memVars>>
      BY <1>3 DEF AgentTickSends, MayRunPrimary
    <2>4. ticker' = [ticker EXCEPT ![a] = TickLaterIf(TRUE \/ inBuf[a] # <<>>, Fired(@)),
                                   ![Conn] = TickNowIf(TRUE \/ Freed(a), @)]
      BY <2>3 DEF TickLaterIf, TickNowIf
    <2>5. endBuf'[a] = Append(endBuf[a], req) /\ pending'[a] = pendingAfter(a) \cup {req}
      BY <2>1 DEF TypeOK
    <2>6. /\ \A p \in Port \ {a} : endBuf'[p] = endBuf[p] /\ endBusy'[p] = endBusy[p]
          /\ \A b \in Agent \ {a} : /\ pending'[b] = pending[b]
                                    /\ readLeft'[b] = readLeft[b]
                                    /\ writeLeft'[b] = writeLeft[b]
      BY <2>1, <2>3 DEF TypeOK
    <2> QED BY <2>2, <2>3, <2>4, <2>5, <2>6 DEF AgentTicked
  <1> QED BY <1>1, <1>2, <1>3

(* The invariant without its type part. *)
WInv == /\ SchedulerOK
        /\ ConnectionRanLast
        /\ BusyMeansFull
        /\ TransCounted
        /\ AgentAwake
        /\ MemAwake
        /\ EndServed
        /\ AgentServed
        /\ Conserved

(* The schedulers of the invariant, in the words of the ticker lemmas. *)
LEMMA Schedulers ==
    ASSUME TypeOK, WInv
    PROVE  /\ \A h \in Handler : ticker[h] \in Ticker /\ WellScheduled(ticker[h])
           /\ PrimaryDueNow => ~running /\ ~RanNow(ticker[Conn])
           /\ \A p \in Port : 0 \in ticker[p].due => PrimaryDueNow
  BY DEF TypeOK, WInv, SchedulerOK, ConnectionRanLast, WellScheduled, RanNow, PrimaryDueNow

(* An agent's tick keeps the wake-up invariant. *)
LEMMA AgentStep ==
    ASSUME TypeOK, TypeOK', WInv, NEW a \in Agent, NEW sent \in BOOLEAN, AgentTicked(a, sent)
    PROVE  WInv'
  <1> USE Handlers
  <1>1. /\ ~running /\ ~running'
        /\ ~RanNow(ticker[Conn])
        /\ \A h \in Handler : ticker[h] \in Ticker /\ WellScheduled(ticker[h])
    BY Schedulers DEF AgentTicked, connVars
  <1>2. /\ ticker'[a] = TickLaterIf(sent \/ inBuf[a] # <<>>, Fired(ticker[a]))
        /\ ticker'[Conn] = TickNowIf(sent \/ Freed(a), ticker[Conn])
        /\ \A h \in Handler \ {a, Conn} : ticker'[h] = ticker[h]
    <2>1. ticker' = [ticker EXCEPT ![a] = TickLaterIf(sent \/ inBuf[a] # <<>>, Fired(@)),
                                   ![Conn] = TickNowIf(sent \/ Freed(a), @)]
      BY DEF AgentTicked
    <2>2. DOMAIN ticker = Handler /\ a \in Handler /\ Conn \in Handler /\ a # Conn
      BY DEF TypeOK
    <2> QED BY <2>1, <2>2
  <1>3. /\ \A p \in Port \ {a} : /\ inBuf'[p] = inBuf[p] /\ portBusy'[p] = portBusy[p]
                                 /\ endBuf'[p] = endBuf[p] /\ endBusy'[p] = endBusy[p]
        /\ portBusy'[a] = (portBusy[a] /\ inBuf[a] = <<>>)
        /\ inBuf'[a] = IF inBuf[a] = <<>> THEN inBuf[a] ELSE Tail(inBuf[a])
    BY DEF AgentTicked, Retrieve, TypeOK
  <1>4. UNCHANGED <<connVars, memVars>>
    BY DEF AgentTicked
  <1>5. /\ Fired(ticker[a]) \in Ticker /\ WellScheduled(Fired(ticker[a]))
        /\ 0 \notin Fired(ticker[a]).due
    BY <1>1, TickerType, TickerWellScheduled, TickerDue
  <1>6. /\ (sent \/ inBuf[a] # <<>>) \in BOOLEAN
        /\ (sent \/ Freed(a)) \in BOOLEAN
    BY DEF Freed
  <1>7. /\ WellScheduled(ticker'[a]) /\ WellScheduled(ticker'[Conn])
        /\ sent \/ inBuf[a] # <<>> => ticker'[a].due # {}
        /\ sent \/ Freed(a) => ticker'[Conn].due # {}
        /\ ticker[Conn].due # {} => ticker'[Conn].due # {}
        /\ ~RanNow(ticker'[Conn])
    BY <1>1, <1>2, <1>5, <1>6, TickerWellScheduled, TickerDue
  <1>8. ~portBusy'[a] \/ Len(inBuf'[a]) >= PortCap
    BY <1>3 DEF WInv, BusyMeansFull
  <1>9. SchedulerOK'
    BY <1>1, <1>2, <1>7 DEF SchedulerOK, WellScheduled
  <1>10. ConnectionRanLast'
    BY <1>1, <1>7 DEF ConnectionRanLast, RanNow
  <1>11. BusyMeansFull'
    <2>1. endBusy'[a] => Len(endBuf'[a]) >= EndCap
      <3>1. endBusy[a] => Len(endBuf[a]) >= EndCap
        BY DEF WInv, BusyMeansFull
      <3>2. Len(endBuf[a]) \in Nat /\ EndCap \in Nat
        BY MessagingAssumption, LenProperties DEF TypeOK
      <3>3. CASE sent
        <4>1. Len(endBuf[a]) < EndCap /\ endBusy'[a] = endBusy[a]
          BY <3>3 DEF AgentTicked
        <4>2. ~endBusy[a]
          BY <3>1, <3>2, <4>1
        <4> QED BY <4>1, <4>2
      <3>4. CASE ~sent
        BY <3>1, <3>4 DEF AgentTicked
      <3> QED BY <3>3, <3>4
    <2> QED BY <1>3, <1>8, <2>1 DEF WInv, BusyMeansFull
  <1>12. TransCounted'
    BY <1>4 DEF WInv, TransCounted, memVars
  <1>13. AgentAwake'
    BY <1>2, <1>3, <1>7 DEF WInv, AgentAwake
  <1>14. MemAwake'
    BY <1>2, <1>3, <1>4 DEF WInv, MemAwake, memVars
  <1>15. EndServed'
    <2> SUFFICES ASSUME NEW p \in Port, endBuf'[p] # <<>>, ticker'[Conn].due = {}
                 PROVE  portBusy'[Dst(p, Head(endBuf'[p]))]
                        /\ Len(inBuf'[Dst(p, Head(endBuf'[p]))]) >= PortCap
      BY DEF EndServed
    <2>1. ~sent /\ ~Freed(a) /\ ticker[Conn].due = {}
      BY <1>7
    <2>2. endBuf'[p] = endBuf[p]
      BY <1>3, <2>1 DEF AgentTicked
    <2> DEFINE d == Dst(p, Head(endBuf[p]))
    <2>3. portBusy[d] /\ Len(inBuf[d]) >= PortCap
      BY <1>1, <2>1, <2>2 DEF WInv, EndServed, StillToVisit
    <2>4. d \in Port
      BY <2>2, DstType
    <2>5. d # a
      BY <2>1, <2>3, <2>4, FullNotEmpty DEF Freed
    <2>6. portBusy'[d] /\ Len(inBuf'[d]) >= PortCap
      BY <1>3, <2>3, <2>4, <2>5
    <2> QED BY <2>2, <2>6 DEF Dst
  <1>16. AgentServed'
    <2> SUFFICES ASSUME NEW b \in Agent, ~NothingLeft(b)', ticker'[b].due = {}
                 PROVE  pending'[b] # {} \/ (endBusy'[b] /\ endBuf'[b] # <<>>)
      BY DEF AgentServed
    <2>1. CASE b = a
      <3>1. ~sent
        BY <1>7, <2>1
      <3> QED BY <2>1, <3>1, FullNotEmpty DEF AgentTicked, NothingLeft
    <2>2. CASE b # a
      <3>1. ticker'[b] = ticker[b] /\ ~NothingLeft(b)
        BY <1>2, <2>2 DEF AgentTicked, NothingLeft
      <3> QED BY <1>3, <2>2, <3>1 DEF AgentTicked, WInv, AgentServed
    <2> QED BY <2>1, <2>2
  <1>17. Conserved'
    <2> SUFFICES ASSUME NEW b \in Agent, NEW r \in pending'[b]
                 PROVE  \/ Carries(endBuf'[b], b, r.id)
                        \/ Carries(inBuf'[Mem], b, r.id)
                        \/ \E i \in 1..Len(respond') :
                              respond'[i].msg.agent = b /\ respond'[i].msg.id = r.id
                        \/ Carries(endBuf'[Mem], b, r.id)
                        \/ Carries(inBuf'[b], b, r.id)
      BY DEF Conserved
    <2>1. inBuf'[Mem] = inBuf[Mem] /\ endBuf'[Mem] = endBuf[Mem] /\ respond' = respond
      BY <1>3, <1>4 DEF memVars
    <2>2. CASE b # a
      <3>1. pending'[b] = pending[b] /\ endBuf'[b] = endBuf[b] /\ inBuf'[b] = inBuf[b]
        BY <1>3, <2>2 DEF AgentTicked
      <3> QED BY <2>1, <3>1 DEF WInv, Conserved
    <2>3. CASE b = a /\ r \in pendingAfter(a)
      <3>1. r \in pending[a] /\ (inBuf[a] # <<>> => r.id # Head(inBuf[a]).id)
        BY <2>3 DEF pendingAfter
      <3>2. Carries(endBuf[a], a, r.id) => Carries(endBuf'[a], a, r.id)
        <4>1. endBuf[a] \in Seq(Msg)
          BY DEF TypeOK
        <4>2. CASE sent
          <5>1. PICK req \in Msg : endBuf'[a] = Append(endBuf[a], req)
            BY <4>2 DEF AgentTicked
          <5> QED BY <4>1, <5>1, CarriesAppend
        <4>3. CASE ~sent
          BY <4>3 DEF AgentTicked
        <4> QED BY <4>2, <4>3
      <3>3. Carries(inBuf[a], a, r.id) => Carries(inBuf'[a], a, r.id)
        <4>1. inBuf[a] \in Seq(Msg)
          BY DEF TypeOK
        <4>2. CASE inBuf[a] = <<>>
          BY <1>3, <4>2
        <4>3. CASE inBuf[a] # <<>>
          BY <1>3, <3>1, <4>1, <4>3, CarriesTail
        <4> QED BY <4>2, <4>3
      <3> QED BY <2>1, <2>3, <3>1, <3>2, <3>3 DEF WInv, Conserved
    <2>4. CASE b = a /\ r \notin pendingAfter(a)
      <3>1. /\ r \in Msg /\ r.agent = a
            /\ endBuf'[a] = Append(endBuf[a], r)
        BY <2>4 DEF AgentTicked
      <3>2. Carries(endBuf'[a], a, r.id)
        <4>1. endBuf[a] \in Seq(Msg)
          BY DEF TypeOK
        <4> QED BY <3>1, <4>1, CarriesAppend
      <3> QED BY <2>4, <3>2
    <2> QED BY <2>2, <2>3, <2>4
  <1> QED BY <1>9, <1>10, <1>11, <1>12, <1>13, <1>14, <1>15, <1>16, <1>17 DEF WInv

(* A tick of the memory controller keeps the wake-up invariant. *)
LEMMA MemTickStep ==
    ASSUME TypeOK, TypeOK', WInv, MemTick
    PROVE  WInv'
  <1> USE Handlers
  <1>1. /\ ~running /\ ~running'
        /\ ~RanNow(ticker[Conn])
        /\ \A h \in Handler : ticker[h] \in Ticker /\ WellScheduled(ticker[h])
    BY Schedulers DEF MemTick, MayRunPrimary, connVars
  <1>2. /\ UNCHANGED <<endBuf, endBusy, connVars, storage, agentVars>>
        /\ DOMAIN ticker = Handler /\ Mem # Conn
        /\ inBuf[Mem] \in Seq(Msg)
        /\ respond \in Seq(RespondEvent) /\ Len(respond) \in Nat
    BY LenProperties DEF MemTick, TypeOK
  <1>3. /\ Fired(ticker[Mem]) \in Ticker /\ WellScheduled(Fired(ticker[Mem]))
    BY <1>1, TickerType, TickerWellScheduled
  <1>4. CASE numTrans >= MaxTrans \/ inBuf[Mem] = <<>>
    <2>1. /\ ticker' = [ticker EXCEPT ![Mem] = Fired(@)]
          /\ UNCHANGED <<inBuf, portBusy, respond, numTrans>>
      BY <1>4 DEF MemTick
    <2>2. /\ ticker'[Mem] = Fired(ticker[Mem])
          /\ \A h \in Handler \ {Mem} : ticker'[h] = ticker[h]
      BY <1>2, <2>1
    <2>3. SchedulerOK'
      BY <1>1, <1>3, <2>2 DEF SchedulerOK, WellScheduled
    <2>4. ConnectionRanLast'
      BY <1>1, <1>2, <2>2 DEF ConnectionRanLast, RanNow
    <2>5. BusyMeansFull' /\ TransCounted'
      BY <1>2, <2>1 DEF WInv, BusyMeansFull, TransCounted
    <2>6. AgentAwake' /\ AgentServed'
      BY <1>2, <2>1, <2>2 DEF WInv, AgentAwake, AgentServed, NothingLeft, agentVars
    <2>7. MemAwake'
      BY <1>4, <2>1 DEF MemAwake
    <2>8. EndServed'
      BY <1>2, <2>1, <2>2 DEF WInv, EndServed, StillToVisit, Offset, Dst, connVars
    <2>9. Conserved'
      BY <1>2, <2>1 DEF WInv, Conserved, agentVars
    <2> QED BY <2>3, <2>4, <2>5, <2>6, <2>7, <2>8, <2>9 DEF WInv
  <1>5. CASE ~(numTrans >= MaxTrans \/ inBuf[Mem] = <<>>)
    <2> DEFINE m == Head(inBuf[Mem])
    <2>1. /\ Retrieve(Mem)
          /\ numTrans' = numTrans + 1
          /\ respond' = Append(respond, [msg |-> m, time |-> Latency])
          /\ ticker' = [ticker EXCEPT ![Mem] = TickLater(Fired(@)),
                                      ![Conn] = TickNowIf(Freed(Mem), @)]
      BY <1>5 DEF MemTick
    <2>2. /\ ticker'[Mem] = TickLater(Fired(ticker[Mem]))
          /\ ticker'[Conn] = TickNowIf(Freed(Mem), ticker[Conn])
          /\ \A h \in Handler \ {Mem, Conn} : ticker'[h] = ticker[h]
      BY <1>2, <2>1
    <2>3. /\ \A p \in Port \ {Mem} : inBuf'[p] = inBuf[p] /\ portBusy'[p] = portBusy[p]
          /\ inBuf'[Mem] = Tail(inBuf[Mem])
          /\ ~portBusy'[Mem]
      BY <1>5, <2>1 DEF Retrieve, TypeOK
    <2>4. Freed(Mem) \in BOOLEAN
      BY DEF Freed
    <2>5. /\ WellScheduled(ticker'[Mem]) /\ WellScheduled(ticker'[Conn])
          /\ ticker'[Mem].due # {}
          /\ Freed(Mem) => ticker'[Conn].due # {}
          /\ ticker[Conn].due # {} => ticker'[Conn].due # {}
          /\ ~RanNow(ticker'[Conn])
      BY <1>1, <1>3, <2>2, <2>4, TickerWellScheduled, TickerDue
    <2>6. m \in Msg
      BY <1>2, <1>5, HeadTailProperties
    <2>7. [msg |-> m, time |-> Latency] \in RespondEvent
      BY <2>6, MessagingAssumption DEF RespondEvent
    <2>8. /\ Len(respond') = Len(respond) + 1
          /\ \A i \in 1..Len(respond) : respond'[i] = respond[i]
          /\ respond'[Len(respond) + 1] = [msg |-> m, time |-> Latency]
      BY <1>2, <2>1, <2>7, AppendProperties
    <2>9. SchedulerOK'
      BY <1>1, <2>2, <2>5 DEF SchedulerOK, WellScheduled
    <2>10. ConnectionRanLast'
      BY <1>1, <2>5 DEF ConnectionRanLast, RanNow
    <2>11. BusyMeansFull'
      BY <1>2, <2>3 DEF WInv, BusyMeansFull
    <2>12. TransCounted'
      BY <2>1, <2>8 DEF WInv, TransCounted
    <2>13. AgentAwake' /\ AgentServed'
      BY <1>2, <2>2, <2>3 DEF WInv, AgentAwake, AgentServed, NothingLeft, agentVars
    <2>14. MemAwake'
      BY <2>5 DEF MemAwake
    <2>15. EndServed'
      <3> SUFFICES ASSUME NEW p \in Port, endBuf[p] # <<>>, ticker'[Conn].due = {}
                   PROVE  portBusy'[Dst(p, Head(endBuf[p]))]
                          /\ Len(inBuf'[Dst(p, Head(endBuf[p]))]) >= PortCap
        BY <1>2 DEF EndServed, Dst
      <3> DEFINE d == Dst(p, Head(endBuf[p]))
      <3>1. portBusy[d] /\ Len(inBuf[d]) >= PortCap
        BY <1>1, <2>5 DEF WInv, EndServed, StillToVisit
      <3>2. d \in Port
        BY DstType
      <3>3. d # Mem
        BY <1>5, <2>5, <3>1 DEF Freed
      <3> QED BY <2>3, <3>1, <3>2, <3>3
    <2>16. Conserved'
      <3> SUFFICES ASSUME NEW b \in Agent, NEW r \in pending[b]
                   PROVE  \/ Carries(endBuf[b], b, r.id)
                          \/ Carries(inBuf'[Mem], b, r.id)
                          \/ \E i \in 1..Len(respond') :
                                respond'[i].msg.agent = b /\ respond'[i].msg.id = r.id
                          \/ Carries(endBuf[Mem], b, r.id)
                          \/ Carries(inBuf'[b], b, r.id)
        BY <1>2 DEF Conserved, agentVars
      <3>1. inBuf'[b] = inBuf[b]
        BY <2>3
      <3>2. CASE Carries(inBuf[Mem], b, r.id)
        <4>1. CASE m.agent = b /\ m.id = r.id
          <5>1. Len(respond) + 1 \in 1..Len(respond')
            BY <1>2, <2>8
          <5>2. respond'[Len(respond) + 1].msg = m
            BY <2>8
          <5> QED BY <4>1, <5>1, <5>2
        <4>2. CASE ~(m.agent = b /\ m.id = r.id)
          BY <1>2, <1>5, <2>3, <3>2, <4>2, CarriesTail
        <4> QED BY <4>1, <4>2
      <3>3. CASE \E i \in 1..Len(respond) : respond[i].msg.agent = b /\ respond[i].msg.id = r.id
        <4>1. PICK i \in 1..Len(respond) : respond[i].msg.agent = b /\ respond[i].msg.id = r.id
          BY <3>3
        <4>2. i \in 1..Len(respond') /\ respond'[i] = respond[i]
          BY <1>2, <2>8
        <4> QED BY <4>1, <4>2
      <3> QED BY <3>1, <3>2, <3>3 DEF WInv, Conserved
    <2> QED BY <2>9, <2>10, <2>11, <2>12, <2>13, <2>14, <2>15, <2>16 DEF WInv
  <1> QED BY <1>4, <1>5

(* A respond event whose Send succeeds keeps the wake-up invariant. *)
LEMMA HandleRespondStep ==
    ASSUME TypeOK, TypeOK', WInv, NEW i \in 1..Len(respond), HandleRespond(i)
    PROVE  WInv'
  <1> USE Handlers
  <1> DEFINE req == respond[i].msg
             rsp == Response(req)
  <1>1. /\ ~running /\ ~running'
        /\ ~RanNow(ticker[Conn])
        /\ \A h \in Handler : ticker[h] \in Ticker /\ WellScheduled(ticker[h])
    BY Schedulers DEF HandleRespond, MayRunPrimary, connVars, PrimaryDueNow
  <1>2. /\ UNCHANGED <<inBuf, portBusy, endBusy, connVars, agentVars>>
        /\ endBuf' = [endBuf EXCEPT ![Mem] = Append(@, rsp)]
        /\ respond' = RemoveAt(respond, i)
        /\ numTrans' = numTrans - 1
        /\ ticker' = [ticker EXCEPT ![Mem] = TickLater(@), ![Conn] = TickNow(@)]
        /\ Len(endBuf[Mem]) < EndCap
    BY DEF HandleRespond
  <1>3. /\ ticker'[Mem] = TickLater(ticker[Mem])
        /\ ticker'[Conn] = TickNow(ticker[Conn])
        /\ \A h \in Handler \ {Mem, Conn} : ticker'[h] = ticker[h]
    BY <1>2 DEF TypeOK
  <1>4. /\ WellScheduled(ticker'[Mem]) /\ WellScheduled(ticker'[Conn])
        /\ ticker'[Mem].due # {} /\ ticker'[Conn].due # {}
        /\ ~RanNow(ticker'[Conn])
    BY <1>1, <1>3, TickerWellScheduled, TickerDue
  <1>5. respond[i] \in RespondEvent /\ respond \in Seq(RespondEvent) /\ Len(respond) \in Nat
    <2>1. respond \in Seq(RespondEvent)
      BY DEF TypeOK
    <2> QED BY <2>1, LenProperties
  <1>6. req \in Msg /\ req.agent \in Agent /\ req.addr \in Addr
    BY <1>5 DEF RespondEvent, Msg
  <1>7. rsp \in Msg /\ rsp.agent = req.agent /\ rsp.id = req.id
    <2> HIDE DEF req
    <2>0. storage \in [Agent -> [Addr -> Data]]
      BY DEF TypeOK
    <2>1. storage[req.agent][req.addr] \in Data
      BY <1>6, <2>0
    <2>2. /\ [req EXCEPT !.val = storage[req.agent][req.addr]] \in Msg
          /\ [req EXCEPT !.val = storage[req.agent][req.addr]].agent = req.agent
          /\ [req EXCEPT !.val = storage[req.agent][req.addr]].id = req.id
      BY <1>6, <2>1 DEF Msg
    <2> QED BY <1>6, <2>2 DEF Response
  <1>8. /\ Len(respond') = Len(respond) - 1
        /\ \A j \in 1..Len(respond') : respond'[j] = IF j < i THEN respond[j] ELSE respond[j + 1]
    BY <1>2, <1>5, RemoveAtProperties
  <1> HIDE DEF req, rsp
  <1>9. SchedulerOK'
    BY <1>1, <1>3, <1>4 DEF SchedulerOK, WellScheduled
  <1>10. ConnectionRanLast'
    BY <1>1, <1>4 DEF ConnectionRanLast, RanNow
  <1>11. /\ \A p \in Port \ {Mem} : endBuf'[p] = endBuf[p]
         /\ endBuf'[Mem] = Append(endBuf[Mem], rsp)
         /\ endBuf[Mem] \in Seq(Msg)
    BY <1>2 DEF TypeOK
  <1>12. BusyMeansFull'
    <2>1. ~endBusy[Mem]
      <3>1. endBusy[Mem] => Len(endBuf[Mem]) >= EndCap
        BY DEF WInv, BusyMeansFull
      <3>2. Len(endBuf[Mem]) \in Nat /\ EndCap \in Nat
        BY <1>11, MessagingAssumption, LenProperties
      <3> QED BY <1>2, <3>1, <3>2
    <2> QED BY <1>2, <1>11, <2>1 DEF WInv, BusyMeansFull
  <1>13. TransCounted'
    BY <1>2, <1>8 DEF WInv, TransCounted
  <1>14. AgentAwake' /\ AgentServed'
    BY <1>2, <1>3, <1>11 DEF WInv, AgentAwake, AgentServed, NothingLeft, agentVars
  <1>15. MemAwake'
    BY <1>4 DEF MemAwake
  <1>16. EndServed'
    BY <1>4 DEF EndServed
  <1>17. Conserved'
    <2> SUFFICES ASSUME NEW b \in Agent, NEW r \in pending[b]
                 PROVE  \/ Carries(endBuf'[b], b, r.id)
                        \/ Carries(inBuf'[Mem], b, r.id)
                        \/ \E j \in 1..Len(respond') :
                              respond'[j].msg.agent = b /\ respond'[j].msg.id = r.id
                        \/ Carries(endBuf'[Mem], b, r.id)
                        \/ Carries(inBuf'[b], b, r.id)
      BY <1>2 DEF Conserved, agentVars
    <2>1. /\ endBuf'[b] = endBuf[b] /\ inBuf'[Mem] = inBuf[Mem] /\ inBuf'[b] = inBuf[b]
          /\ Carries(endBuf[Mem], b, r.id) => Carries(endBuf'[Mem], b, r.id)
      BY <1>2, <1>7, <1>11, CarriesAppend
    <2>2. CASE \E j \in 1..Len(respond) : respond[j].msg.agent = b /\ respond[j].msg.id = r.id
      <3>1. PICK j \in 1..Len(respond) : respond[j].msg.agent = b /\ respond[j].msg.id = r.id
        BY <2>2
      <3>2. CASE j = i
        BY <1>7, <1>11, <3>1, <3>2, CarriesAppend DEF req
      <3>3. CASE j < i
        <4>1. j \in 1..Len(respond')
          BY <1>5, <1>8, <3>3
        <4> QED BY <1>8, <3>1, <3>3, <4>1
      <3>4. CASE j > i
        <4>1. j - 1 \in 1..Len(respond') /\ ~(j - 1 < i) /\ (j - 1) + 1 = j
          BY <1>5, <1>8, <3>4
        <4>2. respond'[j - 1] = respond[j]
          BY <1>8, <4>1
        <4> QED BY <3>1, <4>1, <4>2
      <3>5. j = i \/ j < i \/ j > i
        BY <1>5
      <3> QED BY <3>2, <3>3, <3>4, <3>5
    <2> QED BY <2>1, <2>2 DEF WInv, Conserved
  <1> QED BY <1>9, <1>10, <1>12, <1>13, <1>14, <1>15, <1>16, <1>17 DEF WInv

(* A respond event whose Send is refused keeps the wake-up invariant. *)
LEMMA RetryRespondStep ==
    ASSUME TypeOK, TypeOK', WInv, NEW i \in 1..Len(respond), RetryRespond(i)
    PROVE  WInv'
  <1> USE Handlers
  <1>1. /\ ~running
        /\ ~RanNow(ticker[Conn])
    BY Schedulers DEF RetryRespond, MayRunPrimary, PrimaryDueNow
  <1>2. /\ UNCHANGED <<ticker, inBuf, portBusy, endBuf, connVars, numTrans, storage, agentVars>>
        /\ endBusy' = [endBusy EXCEPT ![Mem] = TRUE]
        /\ respond' = [respond EXCEPT ![i].time = 1]
        /\ Len(endBuf[Mem]) >= EndCap
    BY DEF RetryRespond
  <1>3. respond \in Seq(RespondEvent)
    BY DEF TypeOK
  <1>4. /\ Len(respond') = Len(respond)
        /\ \A j \in 1..Len(respond) : respond'[j].msg = respond[j].msg
    BY <1>2, <1>3
  <1>5. /\ \A p \in Port \ {Mem} : endBusy'[p] = endBusy[p]
        /\ endBusy'[Mem]
    BY <1>2 DEF TypeOK
  <1>6. SchedulerOK' /\ AgentAwake' /\ MemAwake'
    BY <1>2 DEF WInv, SchedulerOK, AgentAwake, MemAwake
  <1>7. ConnectionRanLast'
    BY <1>1, <1>2 DEF ConnectionRanLast, RanNow, connVars
  <1>8. BusyMeansFull'
    BY <1>2, <1>5 DEF WInv, BusyMeansFull
  <1>9. TransCounted'
    BY <1>2, <1>4 DEF WInv, TransCounted
  <1>10. EndServed'
    BY <1>2 DEF WInv, EndServed, StillToVisit, Offset, Dst, connVars
  <1>11. AgentServed'
    BY <1>2, <1>5 DEF WInv, AgentServed, NothingLeft, agentVars
  <1>12. Conserved'
    BY <1>2, <1>4 DEF WInv, Conserved, agentVars
  <1> QED BY <1>6, <1>7, <1>8, <1>9, <1>10, <1>11, <1>12 DEF WInv

(* The start of a connection's tick keeps the wake-up invariant: all ends  *)
(* are still to be visited.                                                *)
LEMMA ConnTickStep ==
    ASSUME TypeOK, TypeOK', WInv, ConnTick
    PROVE  WInv'
  <1> USE Handlers
  <1>1. /\ ~running /\ ~PrimaryDueNow
        /\ \A h \in Handler : ticker[h] \in Ticker /\ WellScheduled(ticker[h])
    BY Schedulers DEF ConnTick, MayRunSecondary
  <1>2. /\ ticker' = [ticker EXCEPT ![Conn] = Fired(@)]
        /\ running' = TRUE
        /\ visited' = 0
        /\ UNCHANGED <<inBuf, portBusy, endBuf, endBusy, nextPortID, memVars, agentVars>>
    BY DEF ConnTick
  <1>3. /\ ticker'[Conn] = Fired(ticker[Conn])
        /\ \A h \in Handler \ {Conn} : ticker'[h] = ticker[h]
    BY <1>2 DEF TypeOK
  <1>4. WellScheduled(ticker'[Conn])
    BY <1>1, <1>3, TickerWellScheduled
  <1>5. SchedulerOK'
    BY <1>1, <1>3, <1>4 DEF SchedulerOK, WellScheduled
  <1>6. ConnectionRanLast'
    BY <1>1, <1>2, <1>3 DEF ConnectionRanLast, PrimaryDueNow, memVars
  <1>7. BusyMeansFull' /\ TransCounted'
    BY <1>2 DEF WInv, BusyMeansFull, TransCounted, memVars
  <1>8. AgentAwake' /\ MemAwake' /\ AgentServed'
    BY <1>2, <1>3 DEF WInv, AgentAwake, MemAwake, AgentServed, NothingLeft, memVars, agentVars
  <1>9. EndServed'
    <2>1. ASSUME NEW p \in Port PROVE Offset(p)' >= 0
      BY <1>2 DEF Offset, TypeOK, Port
    <2> QED BY <1>2, <2>1 DEF EndServed, StillToVisit
  <1>10. Conserved'
    BY <1>2 DEF WInv, Conserved, memVars, agentVars
  <1> QED BY <1>5, <1>6, <1>7, <1>8, <1>9, <1>10 DEF WInv

(* The connection's current end is the one at offset visited. *)
LEMMA CurrentEndOffset ==
    ASSUME TypeOK
    PROVE  /\ CurrentEnd \in Port
           /\ Offset(CurrentEnd) = visited
           /\ \A p \in Port : /\ Offset(p) \in 0..N
                              /\ Offset(p) = visited => p = CurrentEnd
  BY Handlers DEF CurrentEnd, Offset, TypeOK, Port

(* Forwarding a message keeps the wake-up invariant. *)
LEMMA ForwardStep ==
    ASSUME TypeOK, TypeOK', WInv, Forward
    PROVE  WInv'
  <1> USE Handlers
  <1> DEFINE p == CurrentEnd
             m == Head(endBuf[p])
             d == Dst(p, m)
  <1>1. /\ running /\ running'
        /\ endBuf[p] # <<>>
        /\ Len(inBuf[d]) < PortCap
        /\ inBuf' = [inBuf EXCEPT ![d] = Append(@, m)]
        /\ endBuf' = [endBuf EXCEPT ![p] = Tail(@)]
        /\ endBusy' = [endBusy EXCEPT ![p] = FALSE]
        /\ ticker' = [ticker EXCEPT ![d] = TickLater(@), ![p] = TickLaterIf(endBusy[p], @)]
        /\ UNCHANGED <<portBusy, nextPortID, running, visited, memVars, agentVars>>
    BY DEF Forward
  <1>2. p \in Port /\ Offset(p) = visited
    BY CurrentEndOffset
  <1>3. m \in Msg /\ d \in Port /\ d # p
    BY <1>1, <1>2, DstType
  <1>3a. d = IF p = Mem THEN m.agent ELSE Mem
    BY DEF Dst
  <1>4. /\ \A h \in Handler : ticker[h] \in Ticker /\ WellScheduled(ticker[h])
        /\ ~PrimaryDueNow
    BY <1>1, Schedulers
  <1> HIDE DEF p, m, d
  <1>5. /\ ticker'[d] = TickLater(ticker[d])
        /\ ticker'[p] = TickLaterIf(endBusy[p], ticker[p])
        /\ \A h \in Handler \ {p, d} : ticker'[h] = ticker[h]
    BY <1>1, <1>2, <1>3 DEF TypeOK
  <1>6. /\ WellScheduled(ticker'[d]) /\ WellScheduled(ticker'[p])
        /\ ticker'[d].due # {}
        /\ endBusy[p] => ticker'[p].due # {}
        /\ ticker[p].due # {} => ticker'[p].due # {}
        /\ 0 \notin ticker'[p].due /\ 0 \notin ticker'[d].due
    <2>1. endBusy[p] \in BOOLEAN /\ 0 \notin ticker[p].due /\ 0 \notin ticker[d].due
      BY <1>2, <1>3, <1>4 DEF TypeOK, PrimaryDueNow
    <2>2. p \in Handler /\ d \in Handler
      BY <1>2, <1>3
    <2> QED BY <1>4, <1>5, <2>1, <2>2, TickerWellScheduled, TickerDue
  <1>7. /\ inBuf'[d] = Append(inBuf[d], m)
        /\ \A q \in Port \ {d} : inBuf'[q] = inBuf[q]
        /\ endBuf'[p] = Tail(endBuf[p])
        /\ \A q \in Port \ {p} : endBuf'[q] = endBuf[q] /\ endBusy'[q] = endBusy[q]
        /\ ~endBusy'[p]
        /\ inBuf[d] \in Seq(Msg) /\ endBuf[p] \in Seq(Msg)
    BY <1>1, <1>2, <1>3 DEF TypeOK
  <1>8. Len(inBuf'[d]) = Len(inBuf[d]) + 1 /\ Len(inBuf[d]) \in Nat
    BY <1>3, <1>7, AppendProperties, LenProperties
  <1>9. SchedulerOK'
    BY <1>4, <1>5, <1>6 DEF SchedulerOK, WellScheduled
  <1>10. ConnectionRanLast'
    BY <1>1, <1>4, <1>5, <1>6 DEF ConnectionRanLast, PrimaryDueNow, memVars
  <1>11. BusyMeansFull'
    <2>1. ASSUME NEW q \in Port, portBusy'[q] PROVE Len(inBuf'[q]) >= PortCap
      <3>1. Len(inBuf[q]) >= PortCap
        BY <1>1, <2>1 DEF WInv, BusyMeansFull
      <3>2. PortCap \in Nat
        BY MessagingAssumption
      <3>3. q # d
        BY <1>1, <1>8, <3>1, <3>2
      <3> QED BY <1>7, <3>1, <3>3
    <2> QED BY <1>7, <2>1 DEF WInv, BusyMeansFull
  <1>12. TransCounted'
    BY <1>1 DEF WInv, TransCounted, memVars
  <1>13. AgentAwake'
    <2> SUFFICES ASSUME NEW a \in Agent, inBuf'[a] # <<>> PROVE ticker'[a].due # {}
      BY DEF AgentAwake
    <2>1. CASE a = d
      BY <1>6, <2>1
    <2>2. CASE a # d
      <3>1. inBuf[a] # <<>> /\ ticker[a].due # {}
        BY <1>7, <2>2 DEF WInv, AgentAwake
      <3> QED BY <1>5, <1>6, <2>2, <3>1
    <2> QED BY <2>1, <2>2
  <1>14. MemAwake'
    <2>1. CASE d = Mem
      BY <1>6, <2>1 DEF MemAwake
    <2>2. CASE d # Mem
      <3>1. inBuf'[Mem] = inBuf[Mem] /\ UNCHANGED numTrans
        BY <1>1, <1>7, <2>2 DEF memVars
      <3>2. ticker[Mem].due # {} => ticker'[Mem].due # {}
        BY <1>5, <1>6, <2>2
      <3> QED BY <3>1, <3>2 DEF WInv, MemAwake
    <2> QED BY <2>1, <2>2
  <1>15. EndServed'
    <2> SUFFICES ASSUME NEW q \in Port, endBuf'[q] # <<>>,
                        ~StillToVisit(q)', ticker'[Conn].due = {}
                 PROVE  portBusy'[Dst(q, Head(endBuf'[q]))]
                        /\ Len(inBuf'[Dst(q, Head(endBuf'[q]))]) >= PortCap
      BY DEF EndServed
    <2>1. ~StillToVisit(q) /\ ticker[Conn].due = {}
      BY <1>1, <1>2, <1>3, <1>5 DEF StillToVisit, Offset
    <2>2. q # p
      BY <1>1, <1>2, <2>1 DEF StillToVisit, TypeOK, Port
    <2> DEFINE e == Dst(q, Head(endBuf[q]))
    <2>3. endBuf'[q] = endBuf[q] /\ endBuf[q] # <<>>
      BY <1>7, <2>2
    <2>4. e \in Port /\ portBusy[e] /\ Len(inBuf[e]) >= PortCap
      BY <2>1, <2>3, DstType DEF WInv, EndServed
    <2> HIDE DEF e
    <2>5. e # d
      BY <1>1, <1>8, <2>4, MessagingAssumption
    <2>6. inBuf'[e] = inBuf[e] /\ portBusy'[e] = portBusy[e]
      BY <1>1, <1>7, <2>4, <2>5
    <2> QED BY <2>3, <2>4, <2>6 DEF e, Dst
  <1>16. AgentServed'
    <2> SUFFICES ASSUME NEW a \in Agent, ~NothingLeft(a), ticker'[a].due = {}
                 PROVE  pending[a] # {} \/ (endBusy'[a] /\ endBuf'[a] # <<>>)
      BY <1>1 DEF AgentServed, NothingLeft, agentVars
    <2>1. ticker[a].due = {} /\ a # d /\ (a = p => ~endBusy[p])
      BY <1>5, <1>6
    <2> QED BY <1>7, <2>1 DEF WInv, AgentServed
  <1>17. Conserved'
    <2> SUFFICES ASSUME NEW a \in Agent, NEW r \in pending[a]
                 PROVE  \/ Carries(endBuf'[a], a, r.id)
                        \/ Carries(inBuf'[Mem], a, r.id)
                        \/ \E i \in 1..Len(respond) :
                              respond[i].msg.agent = a /\ respond[i].msg.id = r.id
                        \/ Carries(endBuf'[Mem], a, r.id)
                        \/ Carries(inBuf'[a], a, r.id)
      BY <1>1 DEF Conserved, memVars, agentVars
    <2>1. \A q \in Port : Carries(inBuf[q], a, r.id) => Carries(inBuf'[q], a, r.id)
      BY <1>3, <1>7, CarriesAppend
    <2>2. \A q \in Port \ {p} : Carries(endBuf[q], a, r.id) => Carries(endBuf'[q], a, r.id)
      BY <1>7
    <2>3. ASSUME Carries(endBuf[p], a, r.id), p = Mem \/ p = a
          PROVE  Carries(endBuf'[p], a, r.id) \/ Carries(inBuf'[Mem], a, r.id)
                 \/ Carries(inBuf'[a], a, r.id)
      <3>1. CASE Head(endBuf[p]).agent = a /\ Head(endBuf[p]).id = r.id
        <4>1. m.agent = a /\ m.id = r.id
          BY <3>1 DEF m
        <4>2. d = a \/ d = Mem
          BY <1>3a, <4>1
        <4>3. Carries(inBuf'[d], a, r.id)
          BY <1>3, <1>7, <4>1, CarriesAppend
        <4> QED BY <4>2, <4>3
      <3>2. CASE ~(Head(endBuf[p]).agent = a /\ Head(endBuf[p]).id = r.id)
        BY <1>1, <1>7, <2>3, <3>2, CarriesTail
      <3> QED BY <3>1, <3>2
    <2> QED BY <2>1, <2>2, <2>3 DEF WInv, Conserved
  <1> QED BY <1>9, <1>10, <1>11, <1>12, <1>13, <1>14, <1>15, <1>16, <1>17 DEF WInv

(* Leaving an end of the connection keeps the wake-up invariant: the end   *)
(* is empty or its destination has been marked busy.                       *)
LEMMA LeaveEndStep ==
    ASSUME TypeOK, TypeOK', WInv, LeaveEnd
    PROVE  WInv'
  <1> USE Handlers
  <1> DEFINE p == CurrentEnd
             d == Dst(p, Head(endBuf[p]))
  <1>1. /\ running
        /\ \/ endBuf[p] = <<>> /\ UNCHANGED portBusy
           \/ /\ endBuf[p] # <<>>
              /\ Len(inBuf[d]) >= PortCap
              /\ portBusy' = [portBusy EXCEPT ![d] = TRUE]
        /\ UNCHANGED <<inBuf, endBuf, endBusy, memVars, agentVars>>
    BY DEF LeaveEnd
  <1>2. p \in Port /\ \A q \in Port : Offset(q) \in 0..N /\ (Offset(q) = visited => q = p)
    BY CurrentEndOffset
  <1>3. endBuf[p] # <<>> => d \in Port
    BY <1>2, DstType
  <1>4. \A h \in Handler : ticker[h] \in Ticker /\ WellScheduled(ticker[h])
    BY Schedulers
  <1> HIDE DEF p, d
  <1>5. ~PrimaryDueNow /\ visited \in 0..N
    BY <1>1, Schedulers DEF TypeOK, Port
  <1>6. /\ \A q \in Port : portBusy[q] => portBusy'[q]
        /\ \A q \in Port : portBusy'[q] => Len(inBuf[q]) >= PortCap
        /\ endBuf[p] # <<>> => portBusy'[d] /\ Len(inBuf[d]) >= PortCap
    BY <1>1, <1>3 DEF TypeOK, WInv, BusyMeansFull
  <1>7. /\ \A h \in Port : ticker'[h] = ticker[h]
        /\ ticker'[Conn] = ticker[Conn]
           \/ ticker'[Conn] = TickLaterIf(progress, ticker[Conn])
    BY DEF LeaveEnd, TypeOK
  <1>8. WellScheduled(ticker'[Conn])
        /\ (ticker[Conn].due # {} => ticker'[Conn].due # {})
    <2>1. progress \in BOOLEAN /\ ticker[Conn] \in Ticker /\ WellScheduled(ticker[Conn])
      BY <1>4 DEF TypeOK
    <2>2. /\ WellScheduled(TickLaterIf(progress, ticker[Conn]))
          /\ ticker[Conn].due # {} => TickLaterIf(progress, ticker[Conn]).due # {}
      BY <2>1, TickerWellScheduled, TickerDue
    <2> QED BY <1>7, <2>1, <2>2
  <1>9. SchedulerOK'
    BY <1>4, <1>7, <1>8 DEF SchedulerOK, WellScheduled
  <1>10. ConnectionRanLast'
    BY <1>1, <1>5, <1>7 DEF ConnectionRanLast, PrimaryDueNow, memVars
  <1>11. BusyMeansFull' /\ TransCounted'
    BY <1>1, <1>6 DEF WInv, BusyMeansFull, TransCounted, memVars
  <1>12. AgentAwake' /\ MemAwake' /\ AgentServed' /\ Conserved'
    BY <1>1, <1>7 DEF WInv, AgentAwake, MemAwake, AgentServed, NothingLeft, Conserved,
                      memVars, agentVars
  <1>13. EndServed'
    <2> SUFFICES ASSUME NEW q \in Port, endBuf[q] # <<>>,
                        ~StillToVisit(q)', ticker'[Conn].due = {}
                 PROVE  portBusy'[Dst(q, Head(endBuf[q]))]
                        /\ Len(inBuf[Dst(q, Head(endBuf[q]))]) >= PortCap
      BY <1>1 DEF EndServed, Dst
    <2>1. CASE q = p
      BY <1>6, <2>1 DEF d
    <2>2. CASE q # p
      <3>1. ~StillToVisit(q)
        <4>1. Offset(q) \in 0..N /\ Offset(q) # visited
          BY <1>2, <2>2
        <4>2. CASE visited < N
          <5>1. /\ visited' = visited + 1
                /\ UNCHANGED <<nextPortID, running>>
            BY <4>2 DEF LeaveEnd
          <5>2. Offset(q)' = Offset(q)
            BY <5>1 DEF Offset
          <5>3. ~(Offset(q) >= visited + 1)
            BY <1>1, <5>1, <5>2 DEF StillToVisit
          <5> QED BY <1>5, <4>1, <5>3 DEF StillToVisit
        <4>3. CASE visited = N
          BY <4>1, <4>3 DEF StillToVisit
        <4> QED BY <1>5, <4>2, <4>3
      <3>2. ticker[Conn].due = {}
        BY <1>8
      <3>3. /\ portBusy[Dst(q, Head(endBuf[q]))]
            /\ Len(inBuf[Dst(q, Head(endBuf[q]))]) >= PortCap
        BY <3>1, <3>2 DEF WInv, EndServed
      <3>4. Dst(q, Head(endBuf[q])) \in Port
        BY DstType
      <3> QED BY <1>6, <3>3, <3>4
    <2> QED BY <2>1, <2>2
  <1> QED BY <1>9, <1>10, <1>11, <1>12, <1>13 DEF WInv

(* Moving time to the earliest event keeps the wake-up invariant. *)
LEMMA AdvanceTimeStep ==
    ASSUME TypeOK, TypeOK', WInv, AdvanceTime
    PROVE  WInv'
  <1> USE Handlers
  <1>1. PICK t \in 1..Latency :
            /\ EarliestEvent(t)
            /\ ticker' = [h \in Handler |-> Elapse(ticker[h], t)]
            /\ respond' = [i \in 1..Len(respond) |-> [respond[i] EXCEPT !.time = @ - t]]
    BY DEF AdvanceTime
  <1>2. /\ ~running
        /\ UNCHANGED <<inBuf, portBusy, endBuf, endBusy, connVars, numTrans, storage, agentVars>>
        /\ t \in Nat \ {0}
    BY MessagingAssumption DEF AdvanceTime
  <1>3. ASSUME NEW h \in Handler
        PROVE  /\ WellScheduled(ticker'[h])
               /\ ~RanNow(ticker'[h])
               /\ ticker[h].due # {} => ticker'[h].due # {}
    <2>1. /\ ticker[h] \in Ticker /\ WellScheduled(ticker[h])
          /\ \A e \in ticker[h].due : e >= t
      BY <1>1, Schedulers DEF EarliestEvent
    <2>2. ticker'[h] = Elapse(ticker[h], t)
      BY <1>1
    <2> QED BY <1>2, <2>1, <2>2, ElapseProperties
  <1>4. /\ Len(respond') = Len(respond)
        /\ \A i \in 1..Len(respond) : respond'[i].msg = respond[i].msg
    <2>0. respond \in Seq(RespondEvent)
      BY DEF TypeOK
    <2>1. Len(respond) \in Nat /\ \A i \in 1..Len(respond) : respond[i] \in RespondEvent
      BY <2>0, LenProperties
    <2>2. DOMAIN respond' = 1..Len(respond) /\ DOMAIN respond' = 1..Len(respond') /\ Len(respond') \in Nat
      <3>1. respond' \in Seq(RespondEvent)
        BY DEF TypeOK
      <3>2. DOMAIN respond' = 1..Len(respond') /\ Len(respond') \in Nat
        BY <3>1, LenProperties
      <3> QED BY <1>1, <3>2
    <2>3. \A i \in 1..Len(respond) : respond'[i].msg = respond[i].msg
      BY <1>1, <2>1 DEF RespondEvent
    <2> QED BY <2>1, <2>2, <2>3
  <1>5. SchedulerOK'
    BY <1>3 DEF SchedulerOK, WellScheduled
  <1>6. ConnectionRanLast'
    BY <1>2, <1>3 DEF ConnectionRanLast, RanNow, connVars
  <1>7. BusyMeansFull' /\ TransCounted'
    BY <1>2, <1>4 DEF WInv, BusyMeansFull, TransCounted
  <1>8. AgentAwake' /\ MemAwake' /\ AgentServed'
    BY <1>2, <1>3 DEF WInv, AgentAwake, MemAwake, AgentServed, NothingLeft, agentVars
  <1>9. EndServed'
    BY <1>2, <1>3 DEF WInv, EndServed, StillToVisit, Offset, Dst, connVars
  <1>10. Conserved'
    BY <1>2, <1>4 DEF WInv, Conserved, agentVars
  <1> QED BY <1>5, <1>6, <1>7, <1>8, <1>9, <1>10 DEF WInv

-----------------------------------------------------------------------------
(* The theorems. *)

(* The inductive invariant holds in every state: it holds initially, and   *)
(* each step of the engine preserves it.                                   *)
THEOREM Inductive == Spec => []IInv
  <1> USE Handlers
  <1>1. Init => IInv
    <2> SUFFICES ASSUME Init PROVE IInv
      OBVIOUS
    <2>1. \A h \in Handler : ticker[h] \in Ticker /\ WellScheduled(ticker[h])
      BY DEF Init, NewTicker, TickLater, ScheduleTick, Ticker, WellScheduled, Past
    <2>2. \A a \in Agent : ticker[a].due # {}
      <3>1. TickLater(NewTicker) = [next |-> 1, due |-> {1}]
        BY DEF NewTicker, TickLater, ScheduleTick, Past
      <3>2. ASSUME NEW a \in Agent PROVE ticker[a] = [next |-> 1, due |-> {1}]
        BY <3>1 DEF Init
      <3> QED BY <3>2
    <2>3. ticker[Conn].next # 0
      BY DEF Init, NewTicker, Past, Conn, Agent
    <2>4. Len(respond) = 0
      BY DEF Init
    <2>5. ticker \in [Handler -> Ticker]
      BY <2>1 DEF Init
    <2>6. 0 \in Port
      BY DEF Port
    <2>7. TypeOK
      BY <2>5, <2>6, MessagingAssumption DEF Init, TypeOK, Data
    <2>8. SchedulerOK /\ ConnectionRanLast
      BY <2>1, <2>3 DEF Init, SchedulerOK, WellScheduled, ConnectionRanLast
    <2>9. BusyMeansFull /\ TransCounted
      BY <2>4 DEF Init, BusyMeansFull, TransCounted
    <2>10. AgentAwake /\ MemAwake /\ EndServed /\ AgentServed /\ Conserved
      BY <2>2 DEF Init, AgentAwake, MemAwake, EndServed, AgentServed, Conserved
    <2> QED BY <2>7, <2>8, <2>9, <2>10 DEF IInv
  <1>2. IInv /\ [Next]_vars => IInv'
    <2> SUFFICES ASSUME IInv, [Next]_vars PROVE IInv'
      OBVIOUS
    <2>1. TypeOK /\ WInv /\ TypeOK'
      BY TypeStep DEF IInv, WInv
    <2> SUFFICES WInv'
      BY <2>1 DEF IInv, WInv
    <2>2. ASSUME NEW a \in Agent, AgentTickNoSend(a) PROVE WInv'
      BY <2>1, <2>2, AgentTicks, AgentStep
    <2>3. ASSUME NEW a \in Agent, AgentTickSendFails(a) PROVE WInv'
      BY <2>1, <2>3, AgentTicks, AgentStep
    <2>4. ASSUME NEW a \in Agent, AgentTickSends(a) PROVE WInv'
      BY <2>1, <2>4, AgentTicks, AgentStep
    <2>5. CASE UNCHANGED vars
      <3> USE <2>1, <2>5 DEF WInv, vars, connVars, memVars, agentVars
      <3>1. SchedulerOK' /\ ConnectionRanLast' /\ BusyMeansFull' /\ TransCounted'
        BY DEF SchedulerOK, ConnectionRanLast, PrimaryDueNow, BusyMeansFull, TransCounted
      <3>2. AgentAwake' /\ MemAwake' /\ AgentServed'
        BY DEF AgentAwake, MemAwake, AgentServed, NothingLeft
      <3>3. EndServed'
        BY DEF EndServed, StillToVisit, Offset, Dst
      <3>4. Conserved'
        BY DEF Conserved
      <3> QED BY <3>1, <3>2, <3>3, <3>4
    <2>6. CASE AdvanceTime
      BY <2>1, <2>6, AdvanceTimeStep
    <2>7. CASE \E a \in Agent : AgentTickNoSend(a) \/ AgentTickSendFails(a) \/ AgentTickSends(a)
      BY <2>2, <2>3, <2>4, <2>7
    <2>8. CASE MemTick
      BY <2>1, <2>8, MemTickStep
    <2>9. CASE \E i \in 1..Len(respond) : HandleRespond(i) \/ RetryRespond(i)
      BY <2>1, <2>9, HandleRespondStep, RetryRespondStep
    <2>10. CASE ConnTick
      BY <2>1, <2>10, ConnTickStep
    <2>11. CASE Forward
      BY <2>1, <2>11, ForwardStep
    <2>12. CASE LeaveEnd
      BY <2>1, <2>12, LeaveEndStep
    <2> QED BY <2>5, <2>6, <2>7, <2>8, <2>9, <2>10, <2>11, <2>12 DEF Next, RespondOrRetry
  <1> QED BY <1>1, <1>2, PTL DEF Spec

(* Type correctness of the engine, the ports, the connection, the memory   *)
(* controller and the agents.                                              *)
THEOREM TypeCorrect == Spec => []TypeOK
  <1>1. IInv => TypeOK
    BY DEF IInv
  <1> QED BY <1>1, Inductive, PTL

(* No wake-up is lost, whatever the number of agents and the capacities:   *)
(* whoever has something to do has an event in the queue or is registered  *)
(* with the one that will create it.                                       *)
THEOREM WakeupsKept == Spec => []NoLostWakeup
  <1>1. IInv => NoLostWakeup
    BY DEF IInv, NoLostWakeup
  <1> QED BY <1>1, Inductive, PTL

(* A request an agent waits for is in flight somewhere. *)
THEOREM RequestsKept == Spec => []Conserved
  <1>1. IInv => Conserved
    BY DEF IInv
  <1> QED BY <1>1, Inductive, PTL

(* The check at the end of the acceptance test never fails: when the       *)
(* engine has no event left, every access was sent and answered.           *)
THEOREM QuiescenceCorrect == Spec => []QuiescentMeansServed
  <1> USE Handlers
  <1>1. IInv => QuiescentMeansServed
    <2> SUFFICES ASSUME IInv, noMoreEvent, NEW a \in Agent
                 PROVE  NothingLeft(a) /\ pending[a] = {}
      BY DEF QuiescentMeansServed
    <2>1. /\ ~running
          /\ \A h \in Handler : ticker[h].due = {}
          /\ respond = <<>> /\ Len(respond) = 0
      BY DEF noMoreEvent
    <2>2. \A b \in Agent : inBuf[b] = <<>>
      BY <2>1 DEF IInv, AgentAwake
    <2>3. inBuf[Mem] = <<>>
      BY <2>1, MessagingAssumption DEF IInv, MemAwake, TransCounted
    <2>4. ASSUME NEW p \in Port PROVE endBuf[p] = <<>>
      <3> SUFFICES ASSUME endBuf[p] # <<>> PROVE FALSE
        OBVIOUS
      <3> DEFINE d == Dst(p, Head(endBuf[p]))
      <3>1. d \in Port /\ Len(inBuf[d]) >= PortCap
        BY <2>1, DstType DEF IInv, EndServed, StillToVisit
      <3>2. inBuf[d] # <<>>
        BY <3>1, FullNotEmpty DEF IInv
      <3> QED BY <2>2, <2>3, <3>1, <3>2
    <2>5. \A p \in Port : inBuf[p] = <<>> /\ endBuf[p] = <<>>
      BY <2>2, <2>3, <2>4
    <2>6. pending[a] = {}
      <3>1. \A x, id : ~Carries(<<>>, x, id)
        BY DEF Carries
      <3> QED BY <2>1, <2>5, <3>1 DEF IInv, Conserved
    <2>7. NothingLeft(a)
      BY <2>1, <2>5, <2>6 DEF IInv, AgentServed
    <2> QED BY <2>6, <2>7
  <1> QED BY <1>1, Inductive, PTL

-----------------------------------------------------------------------------
(* Reads return what was written: the messages between an agent and its    *)
(* memory.                                                                 *)

(* The messages of request id of agent a, and the events that hold one. *)
Of(a, id) == { m \in Msg : m.agent = a /\ m.id = id }
EventOf(a, id) == { e \in RespondEvent : e.msg \in Of(a, id) }

(* How many messages of a request are under way. *)
Copies(a, id) ==
    Number(endBuf[a], Of(a, id)) + Number(inBuf[Mem], Of(a, id)) + Number(respond, EventOf(a, id))
        + Number(endBuf[Mem], Of(a, id)) + Number(inBuf[a], Of(a, id))

(* Requests the memory has not dealt with, and responses. *)
Asks(a) ==
    { m \in Range(endBuf[a]) \cup Range(inBuf[Mem]) \cup { respond[i].msg : i \in DOMAIN respond } :
        m.agent = a }

Replies(a) == { m \in Range(endBuf[Mem]) \cup Range(inBuf[a]) : m.agent = a }

(* The memory holds the last value the agent has sent. *)
Stored(a, x) == known[a][x] # <<>> /\ Last(known[a][x]) = storage[a][x]

(* A response answers a request. *)
Matches(m, r) == r.id = m.id /\ r.op = m.op /\ r.addr = m.addr

(* An agent's end and port hold its own messages. *)
Routed(a) == \A m \in Range(endBuf[a]) \cup Range(inBuf[a]) : m.agent = a

(* A request is under way once: it, or the response to it. *)
OneCopy(a) == \A id \in Int : Copies(a, id) <= 1

(* The memory works on requests the agent waits for. *)
Asked(a) == Asks(a) \subseteq pending[a]

(* A response answers a request the agent waits for; the memory holds the  *)
(* last value sent to its address, and so does the response to a read.     *)
Answered(a) ==
    \A m \in Replies(a) :
        /\ \E r \in pending[a] : Matches(m, r)
        /\ Stored(a, m.addr)
        /\ m.op = "read" => m.val = storage[a][m.addr]

(* The requests an agent waits for: numbered downwards, and one for an     *)
(* address.                                                                *)
Numbered(a) ==
    /\ \A r \in pending[a] : r.agent = a /\ r.id > readLeft[a] + writeLeft[a]
    /\ \A r, s \in pending[a] : r.id = s.id \/ r.addr = s.addr => r = s

(* The memory is up to date but for the writes the agent waits for. *)
UpToDate(a) ==
    /\ \A r \in pending[a] : r.op = "read" => Stored(a, r.addr)
    /\ \A r \in pending[a] : r.op = "write" => known[a][r.addr] # <<>> /\ Last(known[a][r.addr]) = r.val
    /\ \A x \in Addr : (\A r \in pending[a] : r.addr # x) /\ known[a][x] # <<>> => Stored(a, x)

(* The accesses of an agent, wherever their messages are. *)
Faithful(a) == Routed(a) /\ OneCopy(a) /\ Asked(a) /\ Answered(a) /\ Numbered(a) /\ UpToDate(a)

(* Looking up the result of a read keeps the last value known for every    *)
(* address.                                                                *)
LEMMA LookupKeeps ==
    ASSUME NEW kn \in [Addr -> Seq(Val)], NEW rsp \in Msg
    PROVE  \A x \in Addr : /\ checkReadResult(kn, rsp)[x] # <<>> <=> kn[x] # <<>>
                           /\ kn[x] # <<>> => Last(checkReadResult(kn, rsp)[x]) = Last(kn[x])
  <1> SUFFICES ASSUME NEW x \in Addr
               PROVE  /\ checkReadResult(kn, rsp)[x] # <<>> <=> kn[x] # <<>>
                      /\ kn[x] # <<>> => Last(checkReadResult(kn, rsp)[x]) = Last(kn[x])
    OBVIOUS
  <1>1. PICK s \in Seq(Val) : s = kn[x]
    OBVIOUS
  <1>2. CASE rsp.op = "read" /\ rsp.addr = x /\ IsKnown(s, rsp.val)
    <2>1. PICK k : k = FirstKnown(s, rsp.val)
      OBVIOUS
    <2>2. k \in 1..Len(s)
      BY <1>2, <2>1, FirstKnownInRange
    <2>3. Len(s) \in Nat /\ \A i \in 1..Len(s) : s[i] \in Val
      BY LenProperties
    <2>4. PICK t : t = SubSeq(s, k, Len(s))
      OBVIOUS
    <2>5. t \in Seq(Val) /\ Len(t) = Len(s) - k + 1 /\ \A i \in 1..(Len(s) - k + 1) : t[i] = s[k + i - 1]
      BY <2>2, <2>3, <2>4, SubSeqProperties
    <2>6. checkReadResult(kn, rsp)[x] = t
      BY <1>1, <1>2, <2>1, <2>4 DEF checkReadResult
    <2>7. Len(t) \in 1..(Len(s) - k + 1) /\ k + Len(t) - 1 = Len(s)
      BY <2>2, <2>3, <2>5
    <2>8. t[Len(t)] = s[Len(s)] /\ t # <<>> /\ s # <<>>
      <3>1. t[Len(t)] = s[k + Len(t) - 1]
        BY <2>5, <2>7
      <3>2. Len(t) # 0 /\ Len(s) # 0
        BY <2>2, <2>3, <2>7
      <3> QED BY <2>7, <3>1, <3>2
    <2> QED BY <1>1, <2>6, <2>8 DEF Last
  <1>3. CASE ~(rsp.op = "read" /\ rsp.addr = x /\ IsKnown(s, rsp.val))
    <2>1. checkReadResult(kn, rsp)[x] = s
      BY <1>1, <1>3 DEF checkReadResult
    <2> QED BY <1>1, <2>1
  <1> QED BY <1>2, <1>3

(* Counting the messages of a request. *)
LEMMA CopiesAre ==
    ASSUME TypeOK, NEW a \in Agent, NEW id \in Int
    PROVE  /\ Number(endBuf[a], Of(a, id)) \in Nat /\ Number(inBuf[Mem], Of(a, id)) \in Nat
           /\ Number(respond, EventOf(a, id)) \in Nat
           /\ Number(endBuf[Mem], Of(a, id)) \in Nat /\ Number(inBuf[a], Of(a, id)) \in Nat
  <1>1. a \in Port /\ Mem \in Port
    BY Handlers
  <1>2. PICK e \in Seq(Msg) : e = endBuf[a]
    BY <1>1 DEF TypeOK
  <1>3. PICK q \in Seq(Msg) : q = inBuf[Mem]
    BY <1>1 DEF TypeOK
  <1>4. PICK f \in Seq(Msg) : f = endBuf[Mem]
    BY <1>1 DEF TypeOK
  <1>5. PICK b \in Seq(Msg) : b = inBuf[a]
    BY <1>1 DEF TypeOK
  <1>6. PICK s \in Seq(RespondEvent) : s = respond
    BY DEF TypeOK
  <1>7. PICK M : M = Of(a, id)
    OBVIOUS
  <1>8. PICK E : E = EventOf(a, id)
    OBVIOUS
  <1>9. Number(e, M) \in Nat /\ Number(q, M) \in Nat /\ Number(f, M) \in Nat /\ Number(b, M) \in Nat
    BY NumberIn
  <1>10. Number(s, E) \in Nat
    BY NumberIn
  <1> QED BY <1>2, <1>3, <1>4, <1>5, <1>6, <1>7, <1>8, <1>9, <1>10

(* What leaves an agent's accesses as they are, wherever their messages    *)
(* are.                                                                    *)
Carried(a) ==
    /\ Asks(a)' \subseteq Asks(a) /\ Replies(a)' \subseteq Replies(a) /\ Routed(a)'
    /\ \A id \in Int : Copies(a, id)' = Copies(a, id)
    /\ pending'[a] = pending[a] /\ known'[a] = known[a] /\ storage'[a] = storage[a]
    /\ readLeft'[a] = readLeft[a] /\ writeLeft'[a] = writeLeft[a]

(* An agent whose accesses stay as they are stays faithful. *)
LEMMA CarriedKeeps ==
    ASSUME NEW a \in Agent, Faithful(a), Carried(a)
    PROVE  Faithful(a)'
  <1>1. \A x : Stored(a, x)' <=> Stored(a, x)
    BY DEF Carried, Stored
  <1>2. Asked(a)'
    BY DEF Carried, Faithful, Asked
  <1>3. Answered(a)'
    BY <1>1 DEF Carried, Faithful, Answered
  <1>4. Numbered(a)'
    BY DEF Carried, Faithful, Numbered
  <1>5. UpToDate(a)'
    BY <1>1 DEF Carried, Faithful, UpToDate
  <1>6. OneCopy(a)'
    BY DEF Carried, Faithful, OneCopy
  <1> QED BY <1>2, <1>3, <1>4, <1>5, <1>6 DEF Faithful, Carried

(* The memory's events. *)
LEMMA EventsAre ==
    ASSUME TypeOK
    PROVE  DOMAIN respond = 1..Len(respond) /\ \A i \in DOMAIN respond : respond[i] \in RespondEvent
  <1>1. PICK s \in Seq(RespondEvent) : s = respond
    BY DEF TypeOK
  <1>2. DOMAIN s = 1..Len(s) /\ \A i \in DOMAIN s : s[i] \in RespondEvent
    BY LenProperties
  <1> QED BY <1>1, <1>2

(* The memory's events may be postponed. *)
LEMMA Retimed ==
    ASSUME TypeOK, TypeOK', DOMAIN respond' = DOMAIN respond,
           \A i \in DOMAIN respond : respond'[i].msg = respond[i].msg,
           UNCHANGED <<inBuf, endBuf, storage, agentVars>>, NEW a \in Agent, Routed(a)
    PROVE  Carried(a)
  <1>1. { respond'[i].msg : i \in DOMAIN respond' } = { respond[i].msg : i \in DOMAIN respond }
    OBVIOUS
  <1>2. ASSUME NEW id \in Int PROVE Number(respond, EventOf(a, id))' = Number(respond, EventOf(a, id))
    <2>1. \A i \in DOMAIN respond : respond[i] \in RespondEvent /\ respond'[i] \in RespondEvent
      BY DEF TypeOK
    <2>2. \A i \in DOMAIN respond : respond'[i] \in EventOf(a, id) <=> respond[i] \in EventOf(a, id)
      BY <2>1 DEF EventOf
    <2> QED BY <2>2 DEF Number, EventOf, Of
  <1>3. \A id \in Int : Copies(a, id)' = Copies(a, id)
    BY <1>2 DEF Copies, Of
  <1> QED BY <1>1, <1>3 DEF Carried, Asks, Replies, Routed, agentVars

(* The passing of time moves no message. *)
LEMMA AdvanceCarries ==
    ASSUME TypeOK, TypeOK', AdvanceTime, NEW a \in Agent, Routed(a)
    PROVE  Carried(a)
  <1>1. PICK d \in 1..Latency : respond' = [i \in 1..Len(respond) |-> [respond[i] EXCEPT !.time = @ - d]]
    BY DEF AdvanceTime
  <1>2. DOMAIN respond = 1..Len(respond) /\ \A i \in DOMAIN respond : respond[i] \in RespondEvent
    BY EventsAre
  <1>3. DOMAIN respond' = DOMAIN respond /\ \A i \in DOMAIN respond : respond'[i].msg = respond[i].msg
    BY <1>1, <1>2 DEF RespondEvent
  <1> QED BY <1>3, Retimed DEF AdvanceTime

(* A refused response stays in its event. *)
LEMMA RetryCarries ==
    ASSUME TypeOK, TypeOK', NEW i \in 1..Len(respond), RetryRespond(i), NEW a \in Agent, Routed(a)
    PROVE  Carried(a)
  <1>1. respond' = [respond EXCEPT ![i].time = 1]
    BY DEF RetryRespond
  <1>2. DOMAIN respond = 1..Len(respond) /\ \A j \in DOMAIN respond : respond[j] \in RespondEvent
    BY EventsAre
  <1>3. DOMAIN respond' = DOMAIN respond /\ \A j \in DOMAIN respond : respond'[j].msg = respond[j].msg
    BY <1>1, <1>2 DEF RespondEvent
  <1> QED BY <1>3, Retimed DEF RetryRespond

(* Steps that move no message. *)
LEMMA StillCarries ==
    ASSUME UNCHANGED <<inBuf, endBuf, respond, storage, agentVars>>, NEW a \in Agent, Routed(a)
    PROVE  Carried(a)
  BY DEF Carried, Asks, Replies, Routed, Copies, Of, EventOf, agentVars

(* The memory takes a request. *)
LEMMA MemCarries ==
    ASSUME TypeOK, TypeOK', MemTick, NEW a \in Agent, Routed(a)
    PROVE  Carried(a)
  <1>0. a \in Port /\ Mem \in Port /\ a # Mem
    BY Handlers
  <1>1. UNCHANGED <<endBuf, storage, agentVars>>
    BY DEF MemTick
  <1>2. CASE numTrans >= MaxTrans \/ inBuf[Mem] = <<>>
    BY <1>1, <1>2, StillCarries DEF MemTick
  <1>3. CASE ~(numTrans >= MaxTrans \/ inBuf[Mem] = <<>>)
    <2>1. PICK q \in Seq(Msg) : q = inBuf[Mem]
      BY <1>0 DEF TypeOK
    <2>2. PICK s \in Seq(RespondEvent) : s = respond
      BY DEF TypeOK
    <2>3. PICK e : e = [msg |-> Head(q), time |-> Latency]
      OBVIOUS
    <2>4. q # <<>> /\ respond' = Append(s, e)
      BY <1>3, <2>1, <2>2, <2>3 DEF MemTick
    <2>5. e \in RespondEvent /\ e.msg = Head(q)
      <3>1. Head(q) \in Msg
        BY <2>4
      <3> QED BY <2>3, <3>1, MessagingAssumption DEF RespondEvent
    <2>6. inBuf'[Mem] = Tail(q) /\ inBuf'[a] = inBuf[a]
      BY <1>0, <1>3, <2>1, <2>4 DEF MemTick, Retrieve, TypeOK
    <2>7. Asks(a)' \subseteq Asks(a)
      <3>1. Range(Tail(q)) \subseteq Range(q) /\ Head(q) \in Range(q)
        BY <2>4, RangeTail
      <3>2. \A i \in DOMAIN respond' : respond'[i] = e \/ \E j \in DOMAIN s : respond'[i] = s[j]
        BY <2>4, <2>5, AppendAt
      <3>3. \A i \in DOMAIN respond' : respond'[i].msg = Head(q) \/ \E j \in DOMAIN s : respond'[i].msg = s[j].msg
        BY <2>5, <3>2
      <3> QED BY <1>1, <2>1, <2>2, <2>6, <3>1, <3>3 DEF Asks
    <2>8. Replies(a)' = Replies(a) /\ Routed(a)'
      BY <1>1, <2>6 DEF Replies, Routed
    <2>9. ASSUME NEW id \in Int PROVE Copies(a, id)' = Copies(a, id)
      <3>1. e \in EventOf(a, id) <=> Head(q) \in Of(a, id)
        BY <2>5 DEF EventOf
      <3>2. PICK M : M = Of(a, id)
        OBVIOUS
      <3>3. PICK E : E = EventOf(a, id)
        OBVIOUS
      <3>4. /\ Number(Tail(q), M) \in Nat
            /\ Number(q, M) = Number(Tail(q), M) + IF Head(q) \in M THEN 1 ELSE 0
        BY <2>4, NumberTail
      <3>5. /\ Number(s, E) \in Nat
            /\ Number(Append(s, e), E) = Number(s, E) + IF e \in E THEN 1 ELSE 0
        BY <2>5, NumberAppend
      <3>6. Number(Tail(q), M) + Number(Append(s, e), E) = Number(q, M) + Number(s, E)
        BY <3>1, <3>2, <3>3, <3>4, <3>5
      <3>7. Number(inBuf'[Mem], M) + Number(respond', E) = Number(inBuf[Mem], M) + Number(respond, E)
        BY <2>1, <2>2, <2>4, <2>6, <3>6
      <3>8. Of(a, id)' = M /\ EventOf(a, id)' = E /\ endBuf' = endBuf
        BY <1>1, <3>2, <3>3 DEF Of, EventOf
      <3>9. Number(inBuf'[Mem], M) \in Nat /\ Number(respond', E) \in Nat
        BY <2>1, <2>2, <2>4, <2>6, <3>4, <3>5
      <3>10. PICK n1 \in Nat : n1 = Number(endBuf[a], M)
        BY <3>2, CopiesAre
      <3>11. PICK n2 \in Nat : n2 = Number(inBuf[Mem], M)
        BY <3>2, CopiesAre
      <3>12. PICK n3 \in Nat : n3 = Number(respond, E)
        BY <3>3, CopiesAre
      <3>13. PICK n4 \in Nat : n4 = Number(endBuf[Mem], M)
        BY <3>2, CopiesAre
      <3>14. PICK n5 \in Nat : n5 = Number(inBuf[a], M)
        BY <3>2, CopiesAre
      <3>15. PICK k2 \in Nat : k2 = Number(inBuf'[Mem], M)
        BY <3>9
      <3>16. PICK k3 \in Nat : k3 = Number(respond', E)
        BY <3>9
      <3>17. Copies(a, id) = n1 + n2 + n3 + n4 + n5
        BY <3>2, <3>3, <3>10, <3>11, <3>12, <3>13, <3>14 DEF Copies
      <3>18. Copies(a, id)' = n1 + k2 + k3 + n4 + n5
        BY <2>6, <3>8, <3>10, <3>13, <3>14, <3>15, <3>16 DEF Copies
      <3>19. k2 + k3 = n2 + n3
        BY <3>7, <3>11, <3>12, <3>15, <3>16
      <3> QED BY <3>17, <3>18, <3>19
    <2> QED BY <1>1, <2>7, <2>8, <2>9 DEF Carried, agentVars
  <1> QED BY <1>2, <1>3

(* The same counts after the step. *)
LEMMA CopiesAreNext ==
    ASSUME TypeOK', NEW a \in Agent, NEW id \in Int
    PROVE  /\ Number(endBuf'[a], Of(a, id)) \in Nat /\ Number(inBuf'[Mem], Of(a, id)) \in Nat
           /\ Number(respond', EventOf(a, id)) \in Nat
           /\ Number(endBuf'[Mem], Of(a, id)) \in Nat /\ Number(inBuf'[a], Of(a, id)) \in Nat
  <1>1. a \in Port /\ Mem \in Port
    BY Handlers
  <1>2. PICK e \in Seq(Msg) : e = endBuf'[a]
    BY <1>1 DEF TypeOK
  <1>3. PICK q \in Seq(Msg) : q = inBuf'[Mem]
    BY <1>1 DEF TypeOK
  <1>4. PICK f \in Seq(Msg) : f = endBuf'[Mem]
    BY <1>1 DEF TypeOK
  <1>5. PICK b \in Seq(Msg) : b = inBuf'[a]
    BY <1>1 DEF TypeOK
  <1>6. PICK s \in Seq(RespondEvent) : s = respond'
    BY DEF TypeOK
  <1>7. PICK M : M = Of(a, id)
    OBVIOUS
  <1>8. PICK E : E = EventOf(a, id)
    OBVIOUS
  <1>9. Number(e, M) \in Nat /\ Number(q, M) \in Nat /\ Number(f, M) \in Nat /\ Number(b, M) \in Nat
    BY NumberIn
  <1>10. Number(s, E) \in Nat
    BY NumberIn
  <1> QED BY <1>2, <1>3, <1>4, <1>5, <1>6, <1>7, <1>8, <1>9, <1>10

(* The connection moves requests and responses only. *)
LEMMA CopiesMoved ==
    ASSUME TypeOK, TypeOK', NEW a \in Agent, NEW id \in Int, respond' = respond,
           Number(endBuf'[a], Of(a, id)) + Number(inBuf'[Mem], Of(a, id))
               = Number(endBuf[a], Of(a, id)) + Number(inBuf[Mem], Of(a, id)),
           Number(endBuf'[Mem], Of(a, id)) + Number(inBuf'[a], Of(a, id))
               = Number(endBuf[Mem], Of(a, id)) + Number(inBuf[a], Of(a, id))
    PROVE  Copies(a, id)' = Copies(a, id)
  <1>1. PICK M : M = Of(a, id)
    OBVIOUS
  <1>2. PICK n1 \in Nat : n1 = Number(endBuf[a], M)
    BY <1>1, CopiesAre
  <1>3. PICK n2 \in Nat : n2 = Number(inBuf[Mem], M)
    BY <1>1, CopiesAre
  <1>4. PICK n3 \in Nat : n3 = Number(respond, EventOf(a, id))
    BY CopiesAre
  <1>5. PICK n4 \in Nat : n4 = Number(endBuf[Mem], M)
    BY <1>1, CopiesAre
  <1>6. PICK n5 \in Nat : n5 = Number(inBuf[a], M)
    BY <1>1, CopiesAre
  <1>7. PICK k1 \in Nat : k1 = Number(endBuf'[a], M)
    BY <1>1, CopiesAreNext
  <1>8. PICK k2 \in Nat : k2 = Number(inBuf'[Mem], M)
    BY <1>1, CopiesAreNext
  <1>9. PICK k4 \in Nat : k4 = Number(endBuf'[Mem], M)
    BY <1>1, CopiesAreNext
  <1>10. PICK k5 \in Nat : k5 = Number(inBuf'[a], M)
    BY <1>1, CopiesAreNext
  <1>11. k1 + k2 = n1 + n2 /\ k4 + k5 = n4 + n5
    BY <1>1, <1>2, <1>3, <1>5, <1>6, <1>7, <1>8, <1>9, <1>10
  <1>12. Copies(a, id) = n1 + n2 + n3 + n4 + n5
    BY <1>1, <1>2, <1>3, <1>4, <1>5, <1>6 DEF Copies
  <1>13. Of(a, id)' = M /\ EventOf(a, id)' = EventOf(a, id)
    BY <1>1 DEF Of, EventOf
  <1>14. Copies(a, id)' = k1 + k2 + n3 + k4 + k5
    BY <1>4, <1>7, <1>8, <1>9, <1>10, <1>13 DEF Copies
  <1> QED BY <1>11, <1>12, <1>14

(* The connection delivers a message. *)
LEMMA ForwardCarries ==
    ASSUME TypeOK, TypeOK', Forward, NEW a \in Agent, \A b \in Agent : Routed(b)
    PROVE  Carried(a)
  <1>0. a \in Port /\ Mem \in Port /\ a # Mem /\ \A x \in Port : x \in Agent \/ x = Mem
    BY Handlers
  <1>1. PICK p \in Port : p = CurrentEnd
    BY CurrentEndOffset DEF Forward
  <1>2. PICK q \in Seq(Msg) : q = endBuf[p]
    BY DEF TypeOK
  <1>3. PICK m : m = Head(q)
    OBVIOUS
  <1>4. q # <<>>
    BY <1>1, <1>2 DEF Forward
  <1>5. m \in Msg /\ m \in Range(q) /\ Range(Tail(q)) \subseteq Range(q)
    BY <1>3, <1>4, RangeTail
  <1>6. PICK d : d = Dst(p, m)
    OBVIOUS
  <1>7. d \in Port /\ (p = Mem => d = m.agent) /\ (p # Mem => d = Mem)
    BY <1>0, <1>5, <1>6, Handlers DEF Dst, Msg
  <1>8. PICK r \in Seq(Msg) : r = inBuf[d]
    BY <1>7 DEF TypeOK
  <1>9. /\ endBuf' = [endBuf EXCEPT ![p] = Tail(q)] /\ inBuf' = [inBuf EXCEPT ![d] = Append(r, m)]
        /\ UNCHANGED <<respond, storage, agentVars>>
    BY <1>1, <1>2, <1>3, <1>6, <1>8 DEF Forward, memVars
  <1>10. /\ endBuf'[p] = Tail(q) /\ inBuf'[d] = Append(r, m)
         /\ \A x \in Port : x # p => endBuf'[x] = endBuf[x]
         /\ \A x \in Port : x # d => inBuf'[x] = inBuf[x]
    BY <1>7, <1>9 DEF TypeOK
  <1>11. Range(Append(r, m)) = Range(r) \cup {m}
    BY <1>5, RangeAppend
  <1>12. p \in Agent => m.agent = p
    BY <1>2, <1>5 DEF Routed
  <1>13. ASSUME NEW M PROVE /\ Number(Tail(q), M) + Number(Append(r, m), M) = Number(q, M) + Number(r, M)
                            /\ m \notin M => Number(Tail(q), M) = Number(q, M) /\ Number(Append(r, m), M) = Number(r, M)
    BY <1>3, <1>4, NumberMoved
  <1>14. /\ storage'[a] = storage[a] /\ pending'[a] = pending[a] /\ known'[a] = known[a]
         /\ readLeft'[a] = readLeft[a] /\ writeLeft'[a] = writeLeft[a] /\ respond' = respond
    BY <1>9 DEF agentVars
  <1>15. CASE p = a
    <2>1. d = Mem /\ m.agent = a
      BY <1>0, <1>7, <1>12, <1>15
    <2>2. endBuf'[a] = Tail(q) /\ inBuf'[Mem] = Append(r, m) /\ endBuf'[Mem] = endBuf[Mem] /\ inBuf'[a] = inBuf[a]
      BY <1>0, <1>10, <1>15, <2>1
    <2>3. Asks(a)' \subseteq Asks(a)
      BY <1>2, <1>5, <1>8, <1>11, <1>14, <1>15, <2>1, <2>2 DEF Asks
    <2>4. Replies(a)' \subseteq Replies(a)
      BY <2>2 DEF Replies
    <2>5. Routed(a)'
      BY <1>2, <1>5, <1>15, <2>2 DEF Routed
    <2>6. ASSUME NEW id \in Int PROVE Copies(a, id)' = Copies(a, id)
      <3>1. Number(endBuf'[a], Of(a, id)) + Number(inBuf'[Mem], Of(a, id))
               = Number(endBuf[a], Of(a, id)) + Number(inBuf[Mem], Of(a, id))
        BY <1>2, <1>8, <1>13, <1>15, <2>1, <2>2
      <3>2. Number(endBuf'[Mem], Of(a, id)) + Number(inBuf'[a], Of(a, id))
               = Number(endBuf[Mem], Of(a, id)) + Number(inBuf[a], Of(a, id))
        BY <2>2
      <3> QED BY <1>14, <3>1, <3>2, CopiesMoved
    <2> QED BY <1>14, <2>3, <2>4, <2>5, <2>6 DEF Carried
  <1>16. CASE p \in Agent /\ p # a
    <2>1. d = Mem /\ m.agent # a
      BY <1>0, <1>7, <1>12, <1>16, Handlers
    <2>2. endBuf'[a] = endBuf[a] /\ inBuf'[Mem] = Append(r, m) /\ endBuf'[Mem] = endBuf[Mem] /\ inBuf'[a] = inBuf[a]
      BY <1>0, <1>10, <1>16, <2>1, Handlers
    <2>3. Asks(a)' \subseteq Asks(a)
      BY <1>8, <1>11, <1>14, <2>1, <2>2 DEF Asks
    <2>4. Replies(a)' \subseteq Replies(a)
      BY <2>2 DEF Replies
    <2>5. Routed(a)'
      BY <2>2 DEF Routed
    <2>6. ASSUME NEW id \in Int PROVE Copies(a, id)' = Copies(a, id)
      <3>0. m \notin Of(a, id)
        BY <2>1 DEF Of
      <3>1. Number(endBuf'[a], Of(a, id)) + Number(inBuf'[Mem], Of(a, id))
               = Number(endBuf[a], Of(a, id)) + Number(inBuf[Mem], Of(a, id))
        BY <1>8, <1>13, <2>1, <2>2, <3>0
      <3>2. Number(endBuf'[Mem], Of(a, id)) + Number(inBuf'[a], Of(a, id))
               = Number(endBuf[Mem], Of(a, id)) + Number(inBuf[a], Of(a, id))
        BY <2>2
      <3> QED BY <1>14, <3>1, <3>2, CopiesMoved
    <2> QED BY <1>14, <2>3, <2>4, <2>5, <2>6 DEF Carried
  <1>17. CASE p = Mem /\ m.agent = a
    <2>1. endBuf'[a] = endBuf[a] /\ inBuf'[Mem] = inBuf[Mem] /\ endBuf'[Mem] = Tail(q) /\ inBuf'[a] = Append(r, m)
      BY <1>0, <1>7, <1>10, <1>17
    <2>2. d = a
      BY <1>7, <1>17
    <2>3. Asks(a)' \subseteq Asks(a)
      BY <1>14, <2>1 DEF Asks
    <2>4. Replies(a)' \subseteq Replies(a)
      BY <1>2, <1>5, <1>8, <1>11, <1>17, <2>1, <2>2 DEF Replies
    <2>5. Routed(a)'
      BY <1>8, <1>11, <1>17, <2>1, <2>2 DEF Routed
    <2>6. ASSUME NEW id \in Int PROVE Copies(a, id)' = Copies(a, id)
      <3>1. Number(endBuf'[a], Of(a, id)) + Number(inBuf'[Mem], Of(a, id))
               = Number(endBuf[a], Of(a, id)) + Number(inBuf[Mem], Of(a, id))
        BY <2>1
      <3>2. Number(endBuf'[Mem], Of(a, id)) + Number(inBuf'[a], Of(a, id))
               = Number(endBuf[Mem], Of(a, id)) + Number(inBuf[a], Of(a, id))
        BY <1>2, <1>8, <1>13, <1>17, <2>1, <2>2
      <3> QED BY <1>14, <3>1, <3>2, CopiesMoved
    <2> QED BY <1>14, <2>3, <2>4, <2>5, <2>6 DEF Carried
  <1>18. CASE p = Mem /\ m.agent # a
    <2>1. endBuf'[a] = endBuf[a] /\ inBuf'[Mem] = inBuf[Mem] /\ endBuf'[Mem] = Tail(q) /\ inBuf'[a] = inBuf[a]
      <3>1. d # a /\ d # Mem
        BY <1>5, <1>7, <1>18, Handlers DEF Msg
      <3> QED BY <1>0, <1>10, <1>18, <3>1
    <2>3. Asks(a)' \subseteq Asks(a)
      BY <1>14, <2>1 DEF Asks
    <2>4. Replies(a)' \subseteq Replies(a)
      BY <1>2, <1>5, <1>18, <2>1 DEF Replies
    <2>5. Routed(a)'
      BY <2>1 DEF Routed
    <2>6. ASSUME NEW id \in Int PROVE Copies(a, id)' = Copies(a, id)
      <3>0. m \notin Of(a, id)
        BY <1>18 DEF Of
      <3>1. Number(endBuf'[a], Of(a, id)) + Number(inBuf'[Mem], Of(a, id))
               = Number(endBuf[a], Of(a, id)) + Number(inBuf[Mem], Of(a, id))
        BY <2>1
      <3>2. Number(endBuf'[Mem], Of(a, id)) + Number(inBuf'[a], Of(a, id))
               = Number(endBuf[Mem], Of(a, id)) + Number(inBuf[a], Of(a, id))
        BY <1>2, <1>13, <1>18, <2>1, <3>0
      <3> QED BY <1>14, <3>1, <3>2, CopiesMoved
    <2> QED BY <1>14, <2>3, <2>4, <2>5, <2>6 DEF Carried
  <1> QED BY <1>0, <1>15, <1>16, <1>17, <1>18

(* A request the memory still has to deal with has not been answered. *)
LEMMA NotAnswered ==
    ASSUME TypeOK, NEW a \in Agent, OneCopy(a), NEW i \in 1..Len(respond), respond[i].msg.agent = a
    PROVE  \A m \in Replies(a) : m.id # respond[i].msg.id
  <1>0. a \in Port /\ Mem \in Port
    BY Handlers
  <1>1. PICK s \in Seq(RespondEvent) : s = respond
    BY DEF TypeOK
  <1>2. s[i] \in RespondEvent
    BY <1>1, LenProperties
  <1>3. PICK req \in Msg : req = s[i].msg
    BY <1>2 DEF RespondEvent
  <1>4. PICK id \in Int : id = req.id
    BY DEF Msg
  <1>5. s[i] \in EventOf(a, id) /\ s[i].msg \in Of(a, id)
    BY <1>1, <1>2, <1>3, <1>4 DEF EventOf, Of
  <1>6. PICK M : M = Of(a, id)
    OBVIOUS
  <1>7. PICK E : E = EventOf(a, id)
    OBVIOUS
  <1>8. PICK n \in Nat : n = Number(RemoveAt(s, i), E)
    BY <1>1, NumberRemoved
  <1>9. Number(s, E) = n + 1
    <2>1. Number(s, E) = n + One(s[i] \in E)
      BY <1>1, <1>8, NumberRemoved
    <2> QED BY <1>5, <1>7, <2>1 DEF One
  <1>10. PICK n1 \in Nat : n1 = Number(endBuf[a], M)
    BY <1>6, CopiesAre
  <1>11. PICK n2 \in Nat : n2 = Number(inBuf[Mem], M)
    BY <1>6, CopiesAre
  <1>12. PICK n4 \in Nat : n4 = Number(endBuf[Mem], M)
    BY <1>6, CopiesAre
  <1>13. PICK n5 \in Nat : n5 = Number(inBuf[a], M)
    BY <1>6, CopiesAre
  <1>14. n1 + n2 + (n + 1) + n4 + n5 <= 1
    <2>1. Copies(a, id) = n1 + n2 + (n + 1) + n4 + n5
      BY <1>1, <1>6, <1>7, <1>9, <1>10, <1>11, <1>12, <1>13 DEF Copies
    <2> QED BY <2>1 DEF OneCopy
  <1>15. n4 = 0 /\ n5 = 0
    BY <1>14
  <1>16. PICK f \in Seq(Msg) : f = endBuf[Mem]
    BY <1>0 DEF TypeOK
  <1>17. PICK b \in Seq(Msg) : b = inBuf[a]
    BY <1>0 DEF TypeOK
  <1>18. \A m \in Range(f) : m \notin M
    BY <1>12, <1>15, <1>16, NoneOccurs
  <1>19. \A m \in Range(b) : m \notin M
    BY <1>13, <1>15, <1>17, NoneOccurs
  <1>20. Range(f) \subseteq Msg /\ Range(b) \subseteq Msg
    <2>1. (\A j \in DOMAIN f : f[j] \in Msg) /\ \A j \in DOMAIN b : b[j] \in Msg
      OBVIOUS
    <2> QED BY <2>1 DEF Range
  <1>21. \A m \in Replies(a) : m \in Msg /\ m \notin M /\ m.agent = a
    BY <1>16, <1>17, <1>18, <1>19, <1>20 DEF Replies
  <1> QED BY <1>1, <1>3, <1>4, <1>6, <1>21 DEF Of

(* The memory answers a request: what its messages do. *)
RequestAnswered(a, rsp) ==
    /\ Asks(a)' \subseteq Asks(a) /\ Routed(a)'
    /\ \A m \in Replies(a)' : m \in Replies(a) \/ (m = rsp /\ rsp.agent = a)
    /\ \A id \in Int : Copies(a, id)' = Copies(a, id)

(* The response to an event keeps the request but for the data. *)
LEMMA ResponseIs ==
    ASSUME TypeOK, NEW i \in 1..Len(respond)
    PROVE  /\ respond[i] \in RespondEvent /\ respond[i].msg \in Msg
           /\ Response(respond[i].msg) \in Msg
           /\ Response(respond[i].msg).agent = respond[i].msg.agent
           /\ Response(respond[i].msg).id = respond[i].msg.id
           /\ Response(respond[i].msg).op = respond[i].msg.op
           /\ Response(respond[i].msg).addr = respond[i].msg.addr
           /\ respond[i].msg.op = "read"
                => Response(respond[i].msg).val = storage[respond[i].msg.agent][respond[i].msg.addr]
  <1>1. PICK s \in Seq(RespondEvent) : s = respond
    BY DEF TypeOK
  <1>2. s[i] \in RespondEvent
    BY <1>1, LenProperties
  <1>3. PICK req \in Msg : req = s[i].msg
    BY <1>2 DEF RespondEvent
  <1>4. req.agent \in Agent /\ req.addr \in Addr
    BY DEF Msg
  <1>5. storage[req.agent][req.addr] \in Data
    BY <1>4 DEF TypeOK
  <1>6. PICK v \in Data : v = storage[req.agent][req.addr]
    BY <1>5
  <1>7. Response(req) = IF req.op = "read" THEN [req EXCEPT !.val = v] ELSE req
    BY <1>6 DEF Response
  <1>8. CASE req.op = "read"
    <2>1. Response(req) = [req EXCEPT !.val = v]
      BY <1>7, <1>8
    <2>2. /\ [req EXCEPT !.val = v] \in Msg /\ [req EXCEPT !.val = v].agent = req.agent
          /\ [req EXCEPT !.val = v].id = req.id /\ [req EXCEPT !.val = v].op = req.op
          /\ [req EXCEPT !.val = v].addr = req.addr /\ [req EXCEPT !.val = v].val = v
      BY DEF Msg
    <2> QED BY <1>1, <1>2, <1>3, <1>6, <2>1, <2>2
  <1>9. CASE req.op # "read"
    <2>1. Response(req) = req
      BY <1>7, <1>9
    <2> QED BY <1>1, <1>2, <1>3, <1>9, <2>1
  <1> QED BY <1>8, <1>9

(* The response takes the place of the event. *)
LEMMA RespondMoves ==
    ASSUME TypeOK, TypeOK', NEW i \in 1..Len(respond), HandleRespond(i), NEW a \in Agent, Routed(a)
    PROVE  RequestAnswered(a, Response(respond[i].msg))
  <1>0. a \in Port /\ Mem \in Port /\ a # Mem
    BY Handlers
  <1>1. PICK s \in Seq(RespondEvent) : s = respond
    BY DEF TypeOK
  <1>2. PICK f \in Seq(Msg) : f = endBuf[Mem]
    BY <1>0 DEF TypeOK
  <1>3. PICK rsp : rsp = Response(respond[i].msg)
    OBVIOUS
  <1>4. rsp \in Msg /\ rsp.agent = s[i].msg.agent /\ rsp.id = s[i].msg.id /\ s[i] \in RespondEvent /\ s[i].msg \in Msg
    BY <1>1, <1>3, ResponseIs
  <1>5. endBuf' = [endBuf EXCEPT ![Mem] = Append(f, rsp)] /\ respond' = RemoveAt(s, i) /\ inBuf' = inBuf
    BY <1>1, <1>2, <1>3 DEF HandleRespond
  <1>6. endBuf'[Mem] = Append(f, rsp) /\ endBuf'[a] = endBuf[a]
    BY <1>0, <1>5 DEF TypeOK
  <1>7. Range(Append(f, rsp)) = Range(f) \cup {rsp}
    BY <1>4, RangeAppend
  <1>8. \A j \in DOMAIN respond' : \E k \in DOMAIN s : respond'[j] = s[k]
    BY <1>1, <1>5, RangeRemoved
  <1>9. Asks(a)' \subseteq Asks(a)
    BY <1>1, <1>5, <1>6, <1>8 DEF Asks
  <1>10. \A m \in Replies(a)' : m \in Replies(a) \/ (m = rsp /\ rsp.agent = a)
    BY <1>2, <1>5, <1>6, <1>7 DEF Replies
  <1>11. Routed(a)'
    BY <1>5, <1>6 DEF Routed
  <1>12. ASSUME NEW id \in Int PROVE Copies(a, id)' = Copies(a, id)
    <2>1. rsp \in Of(a, id) <=> s[i] \in EventOf(a, id)
      BY <1>4 DEF Of, EventOf
    <2>2. PICK M : M = Of(a, id)
      OBVIOUS
    <2>3. PICK E : E = EventOf(a, id)
      OBVIOUS
    <2>4. PICK n \in Nat : n = Number(RemoveAt(s, i), E)
      BY <1>1, NumberRemoved
    <2>5. Number(s, E) = n + One(s[i] \in E)
      BY <1>1, <2>4, NumberRemoved
    <2>6. PICK n4 \in Nat : n4 = Number(f, M)
      BY NumberIn
    <2>7. Number(Append(f, rsp), M) = n4 + IF rsp \in M THEN 1 ELSE 0
      BY <1>4, <2>6, NumberAppend
    <2>8. PICK n1 \in Nat : n1 = Number(endBuf[a], M)
      BY <2>2, CopiesAre
    <2>9. PICK n2 \in Nat : n2 = Number(inBuf[Mem], M)
      BY <2>2, CopiesAre
    <2>10. PICK n5 \in Nat : n5 = Number(inBuf[a], M)
      BY <2>2, CopiesAre
    <2>11. Of(a, id)' = M /\ EventOf(a, id)' = E
      BY <2>2, <2>3 DEF Of, EventOf
    <2>12. PICK o \in 0..1 : o = One(s[i] \in E) /\ o = IF rsp \in M THEN 1 ELSE 0
      BY <2>1, <2>2, <2>3 DEF One
    <2>13. Copies(a, id) = n1 + n2 + (n + o) + n4 + n5
      BY <1>1, <1>2, <2>2, <2>3, <2>5, <2>6, <2>8, <2>9, <2>10, <2>12 DEF Copies
    <2>14. Copies(a, id)' = n1 + n2 + n + (n4 + o) + n5
      BY <1>5, <1>6, <2>4, <2>7, <2>8, <2>9, <2>10, <2>11, <2>12 DEF Copies
    <2> QED BY <2>13, <2>14
  <1> QED BY <1>3, <1>9, <1>10, <1>11, <1>12 DEF RequestAnswered

(* A response to another agent. *)
LEMMA RespondElsewhere ==
    ASSUME TypeOK, TypeOK', NEW i \in 1..Len(respond), HandleRespond(i), NEW a \in Agent, Routed(a),
           respond[i].msg.agent # a
    PROVE  Carried(a)
  <1>1. PICK req \in Msg : req = respond[i].msg
    BY ResponseIs
  <1>2. Response(req).agent = req.agent
    BY <1>1, ResponseIs
  <1>3. RequestAnswered(a, Response(req))
    BY <1>1, RespondMoves
  <1>4. Replies(a)' \subseteq Replies(a)
    BY <1>1, <1>2, <1>3 DEF RequestAnswered
  <1>5. UNCHANGED agentVars /\ (storage' = storage \/ storage' = [storage EXCEPT ![req.agent][req.addr] = req.val])
    BY <1>1 DEF HandleRespond
  <1>6. storage'[a] = storage[a]
    BY <1>1, <1>5 DEF TypeOK
  <1> QED BY <1>3, <1>4, <1>5, <1>6 DEF Carried, RequestAnswered, agentVars

(* A response to the agent: the memory is up to date with the write it     *)
(* acknowledges, and a read carries the last value written.                *)
LEMMA RespondFaithful ==
    ASSUME TypeOK, TypeOK', NEW i \in 1..Len(respond), HandleRespond(i), NEW a \in Agent, Faithful(a),
           respond[i].msg.agent = a
    PROVE  Faithful(a)'
  <1>1. PICK req \in Msg : req = respond[i].msg
    BY ResponseIs
  <1>2. PICK rsp \in Msg : rsp = Response(req)
    BY <1>1, ResponseIs
  <1>3. /\ req.agent = a /\ rsp.agent = a /\ rsp.id = req.id /\ rsp.op = req.op /\ rsp.addr = req.addr
        /\ req.op = "read" => rsp.val = storage[a][req.addr]
    BY <1>1, <1>2, ResponseIs
  <1>4. req \in pending[a]
    <2>1. i \in DOMAIN respond
      BY EventsAre
    <2>2. req \in Asks(a)
      BY <1>1, <1>3, <2>1 DEF Asks
    <2> QED BY <2>2 DEF Faithful, Asked
  <1>5. \A m \in Replies(a) : m.id # req.id
    BY <1>1, NotAnswered DEF Faithful
  <1>6. RequestAnswered(a, rsp)
    BY <1>1, <1>2, RespondMoves DEF Faithful
  <1>7. UNCHANGED agentVars
        /\ storage' = IF req.op = "write" THEN [storage EXCEPT ![a][req.addr] = req.val] ELSE storage
    BY <1>1, <1>3 DEF HandleRespond
  <1>8. /\ req.op = "write" => storage'[a][req.addr] = req.val
        /\ req.op = "read" => storage'[a] = storage[a]
        /\ \A x \in Addr : x # req.addr => storage'[a][x] = storage[a][x]
    <2>1. req.op = "read" \/ req.op = "write"
      BY DEF Msg
    <2>2. CASE req.op = "read"
      BY <1>7, <2>2
    <2>3. CASE req.op = "write"
      <3>1. storage[a] \in [Addr -> Data] /\ req.addr \in Addr
        BY DEF TypeOK, Msg
      <3>2. storage'[a] = [storage[a] EXCEPT ![req.addr] = req.val]
        BY <1>7, <2>3 DEF TypeOK
      <3> QED BY <2>3, <3>1, <3>2
    <2> QED BY <2>1, <2>2, <2>3
  <1>9. pending'[a] = pending[a] /\ known'[a] = known[a] /\ readLeft'[a] = readLeft[a] /\ writeLeft'[a] = writeLeft[a]
    BY <1>7 DEF agentVars
  <1>10. pending[a] \subseteq Msg
    BY DEF TypeOK
  <1>11. Stored(a, req.addr)'
    <2>1. CASE req.op = "read"
      BY <1>4, <1>8, <1>9, <2>1 DEF Faithful, UpToDate, Stored
    <2>2. CASE req.op = "write"
      BY <1>4, <1>8, <1>9, <2>2 DEF Faithful, UpToDate, Stored
    <2>3. req.op = "read" \/ req.op = "write"
      BY DEF Msg
    <2> QED BY <2>1, <2>2, <2>3
  <1>12. \A x \in Addr : Stored(a, x) => Stored(a, x)'
    <2>1. ASSUME NEW x \in Addr, Stored(a, x) PROVE Stored(a, x)'
      <3>1. CASE x = req.addr
        BY <1>11, <3>1
      <3>2. CASE x # req.addr
        BY <1>8, <1>9, <2>1, <3>2 DEF Stored
      <3> QED BY <3>1, <3>2
    <2> QED BY <2>1
  <1>13. Answered(a)'
    <2>1. ASSUME NEW m \in Replies(a)' PROVE /\ \E r \in pending'[a] : Matches(m, r)
                                             /\ Stored(a, m.addr)'
                                             /\ m.op = "read" => m.val = storage'[a][m.addr]
      <3>1. m \in Replies(a) \/ m = rsp
        BY <1>6 DEF RequestAnswered
      <3>2. CASE m = rsp
        <4>1. Matches(m, req)
          BY <1>3, <3>2 DEF Matches
        <4>2. m.op = "read" => m.val = storage'[a][m.addr]
          BY <1>3, <1>8, <3>2
        <4> QED BY <1>3, <1>4, <1>9, <1>11, <3>2, <4>1, <4>2
      <3>3. CASE m \in Replies(a)
        <4>1. PICK r \in pending[a] : Matches(m, r)
          BY <3>3 DEF Faithful, Answered
        <4>2. Stored(a, m.addr) /\ (m.op = "read" => m.val = storage[a][m.addr])
          BY <3>3 DEF Faithful, Answered
        <4>3. r.addr = m.addr /\ m.addr \in Addr /\ r.id = m.id
          BY <1>10, <4>1 DEF Matches, Msg
        <4>4. m.addr # req.addr
          BY <1>4, <1>5, <3>3, <4>3 DEF Faithful, Numbered
        <4> QED BY <1>8, <1>9, <1>12, <4>1, <4>2, <4>3, <4>4
      <3> QED BY <3>1, <3>2, <3>3
    <2> QED BY <2>1 DEF Answered
  <1>14. UpToDate(a)'
    <2>1. \A r \in pending[a] : r.op = "read" => Stored(a, r.addr)'
      BY <1>10, <1>12 DEF Faithful, UpToDate, Msg
    <2>2. \A r \in pending[a] : r.op = "write" => known[a][r.addr] # <<>> /\ Last(known[a][r.addr]) = r.val
      BY DEF Faithful, UpToDate
    <2>3. \A x \in Addr : (\A r \in pending[a] : r.addr # x) /\ known[a][x] # <<>> => Stored(a, x)'
      BY <1>12 DEF Faithful, UpToDate
    <2> QED BY <1>9, <2>1, <2>2, <2>3 DEF UpToDate
  <1>15. Asked(a)'
    BY <1>6, <1>9 DEF Faithful, Asked, RequestAnswered
  <1>16. Numbered(a)'
    BY <1>9 DEF Faithful, Numbered
  <1>17. OneCopy(a)' /\ Routed(a)'
    BY <1>6 DEF Faithful, OneCopy, RequestAnswered
  <1> QED BY <1>13, <1>14, <1>15, <1>16, <1>17 DEF Faithful

(* What an agent still has to receive once it has taken the head of its    *)
(* port.                                                                   *)
LeftBuf(a) == IF inBuf[a] = <<>> THEN <<>> ELSE Tail(inBuf[a])

LeftReplies(a) == { m \in Range(endBuf[Mem]) \cup Range(LeftBuf(a)) : m.agent = a }

(* Taking the head leaves a part of what was in the port. *)
LEMMA LeftBufIs ==
    ASSUME TypeOK, NEW a \in Agent, Routed(a)
    PROVE  /\ LeftBuf(a) \in Seq(Msg) /\ Range(LeftBuf(a)) \subseteq Range(inBuf[a])
           /\ LeftReplies(a) \subseteq Replies(a)
           /\ \A M : /\ Number(LeftBuf(a), M) \in Nat /\ Number(inBuf[a], M) \in Nat
                     /\ Number(LeftBuf(a), M) <= Number(inBuf[a], M)
  <1>0. a \in Port /\ Mem \in Port
    BY Handlers
  <1>1. PICK b \in Seq(Msg) : b = inBuf[a]
    BY <1>0 DEF TypeOK
  <1>2. CASE b = <<>>
    <2>1. LeftBuf(a) = b
      BY <1>1, <1>2 DEF LeftBuf
    <2>2. \A M : Number(b, M) \in Nat
      BY NumberIn
    <2> QED BY <1>1, <2>1, <2>2 DEF LeftReplies, Replies
  <1>3. CASE b # <<>>
    <2>1. LeftBuf(a) = Tail(b)
      BY <1>1, <1>3 DEF LeftBuf
    <2>2. Tail(b) \in Seq(Msg) /\ Range(Tail(b)) \subseteq Range(b)
      BY <1>3, RangeTail, TailAt
    <2>3. ASSUME NEW M PROVE Number(Tail(b), M) \in Nat /\ Number(b, M) \in Nat /\ Number(Tail(b), M) <= Number(b, M)
      <3>1. Number(Tail(b), M) \in Nat /\ Number(b, M) = Number(Tail(b), M) + IF Head(b) \in M THEN 1 ELSE 0
        BY <1>3, NumberTail
      <3> QED BY <3>1
    <2> QED BY <1>1, <2>1, <2>2, <2>3 DEF LeftReplies, Replies
  <1> QED BY <1>2, <1>3

(* The messages of an agent, wherever they are. *)
LEMMA MessagesAre ==
    ASSUME TypeOK, NEW a \in Agent
    PROVE  Asks(a) \subseteq Msg /\ Replies(a) \subseteq Msg
  <1>0. a \in Port /\ Mem \in Port
    BY Handlers
  <1>1. ASSUME NEW p \in Port PROVE Range(endBuf[p]) \subseteq Msg /\ Range(inBuf[p]) \subseteq Msg
    <2>1. PICK e \in Seq(Msg) : e = endBuf[p]
      BY DEF TypeOK
    <2>2. PICK b \in Seq(Msg) : b = inBuf[p]
      BY DEF TypeOK
    <2>3. (\A j \in DOMAIN e : e[j] \in Msg) /\ \A j \in DOMAIN b : b[j] \in Msg
      OBVIOUS
    <2> QED BY <2>1, <2>2, <2>3 DEF Range
  <1>2. \A i \in DOMAIN respond : respond[i].msg \in Msg
    BY EventsAre DEF RespondEvent
  <1> QED BY <1>0, <1>1, <1>2 DEF Asks, Replies

(* A response an agent takes is the only message of its request. *)
LEMMA HeadAlone ==
    ASSUME TypeOK, NEW a \in Agent, OneCopy(a), Routed(a), inBuf[a] # <<>>
    PROVE  /\ Head(inBuf[a]) \in Replies(a)
           /\ \A m \in Asks(a) \cup LeftReplies(a) : m.id # Head(inBuf[a]).id
  <1>0. a \in Port /\ Mem \in Port
    BY Handlers
  <1>1. PICK b \in Seq(Msg) : b = inBuf[a]
    BY <1>0 DEF TypeOK
  <1>2. PICK h \in Msg : h = Head(b) /\ h \in Range(b)
    BY <1>1, RangeTail
  <1>3. h.agent = a
    BY <1>1, <1>2 DEF Routed
  <1>4. PICK id \in Int : id = h.id
    BY DEF Msg
  <1>5. PICK M : M = Of(a, id)
    OBVIOUS
  <1>6. PICK E : E = EventOf(a, id)
    OBVIOUS
  <1>7. h \in M
    BY <1>3, <1>4, <1>5 DEF Of
  <1>8. PICK n \in Nat : n = Number(Tail(b), M)
    BY <1>1, NumberTail
  <1>9. Number(b, M) = n + 1
    <2>1. Number(b, M) = n + IF Head(b) \in M THEN 1 ELSE 0
      BY <1>1, <1>8, NumberTail
    <2> QED BY <1>2, <1>7, <2>1
  <1>10. PICK n1 \in Nat : n1 = Number(endBuf[a], M)
    BY <1>5, CopiesAre
  <1>11. PICK n2 \in Nat : n2 = Number(inBuf[Mem], M)
    BY <1>5, CopiesAre
  <1>12. PICK n3 \in Nat : n3 = Number(respond, E)
    BY <1>6, CopiesAre
  <1>13. PICK n4 \in Nat : n4 = Number(endBuf[Mem], M)
    BY <1>5, CopiesAre
  <1>14. n1 + n2 + n3 + n4 + (n + 1) <= 1
    <2>1. Copies(a, id) = n1 + n2 + n3 + n4 + (n + 1)
      BY <1>1, <1>5, <1>6, <1>9, <1>10, <1>11, <1>12, <1>13 DEF Copies
    <2> QED BY <2>1 DEF OneCopy
  <1>15. n1 = 0 /\ n2 = 0 /\ n3 = 0 /\ n4 = 0 /\ n = 0
    BY <1>14
  <1>16. PICK e \in Seq(Msg) : e = endBuf[a]
    BY <1>0 DEF TypeOK
  <1>17. PICK q \in Seq(Msg) : q = inBuf[Mem]
    BY <1>0 DEF TypeOK
  <1>18. PICK s \in Seq(RespondEvent) : s = respond
    BY DEF TypeOK
  <1>19. PICK f \in Seq(Msg) : f = endBuf[Mem]
    BY <1>0 DEF TypeOK
  <1>20. PICK t \in Seq(Msg) : t = Tail(b)
    BY <1>1, TailAt
  <1>21. \A m \in Range(e) : m \notin M
    BY <1>10, <1>15, <1>16, NoneOccurs
  <1>22. \A m \in Range(q) : m \notin M
    BY <1>11, <1>15, <1>17, NoneOccurs
  <1>23. \A i \in 1..Len(s) : s[i] \notin E
    BY <1>12, <1>15, <1>18, NoneOccurs
  <1>24. \A m \in Range(f) : m \notin M
    BY <1>13, <1>15, <1>19, NoneOccurs
  <1>25. \A m \in Range(t) : m \notin M
    BY <1>8, <1>15, <1>20, NoneOccurs
  <1>26. \A i \in DOMAIN s : s[i].msg \notin M
    <2>1. \A i \in DOMAIN s : s[i] \in RespondEvent /\ i \in 1..Len(s)
      BY LenProperties
    <2> QED BY <1>5, <1>6, <1>23, <2>1 DEF EventOf
  <1>27. LeftBuf(a) = t
    BY <1>1, <1>20 DEF LeftBuf
  <1>28. Asks(a) \subseteq Msg /\ LeftReplies(a) \subseteq Msg
    BY MessagesAre, LeftBufIs
  <1>29. ASSUME NEW m \in Asks(a) PROVE m \notin M /\ m.agent = a
    BY <1>16, <1>17, <1>18, <1>21, <1>22, <1>26 DEF Asks
  <1>30. ASSUME NEW m \in LeftReplies(a) PROVE m \notin M /\ m.agent = a
    BY <1>19, <1>24, <1>25, <1>27 DEF LeftReplies
  <1>31. \A m \in Asks(a) \cup LeftReplies(a) : m.id # id
    BY <1>5, <1>28, <1>29, <1>30 DEF Of
  <1>32. h \in Replies(a)
    BY <1>1, <1>2, <1>3 DEF Replies
  <1> QED BY <1>1, <1>2, <1>4, <1>31, <1>32

(* An agent has dealt with the response it took. *)
Settled(a) ==
    /\ pendingAfter(a) \subseteq pending[a]
    /\ Asks(a) \subseteq pendingAfter(a)
    /\ \A m \in LeftReplies(a) : \E r \in pendingAfter(a) : Matches(m, r)
    /\ \A x \in Addr : /\ knownAfter(a)[x] # <<>> <=> known[a][x] # <<>>
                       /\ known[a][x] # <<>> => Last(knownAfter(a)[x]) = Last(known[a][x])
    /\ \A x \in Addr : (\A r \in pendingAfter(a) : r.addr # x) /\ known[a][x] # <<>> => Stored(a, x)

(* Taking a response ends its request, and no other. *)
LEMMA ConsumeSettles ==
    ASSUME TypeOK, NEW a \in Agent, Faithful(a)
    PROVE  Settled(a)
  <1>1. CASE inBuf[a] = <<>>
    <2>1. pendingAfter(a) = pending[a] /\ knownAfter(a) = known[a]
      BY <1>1 DEF pendingAfter, knownAfter
    <2>2. LeftReplies(a) \subseteq Replies(a)
      BY LeftBufIs DEF Faithful
    <2>3. \A m \in LeftReplies(a) : \E r \in pending[a] : Matches(m, r)
      BY <2>2 DEF Faithful, Answered
    <2> QED BY <2>1, <2>3 DEF Settled, Faithful, Asked, UpToDate
  <1>2. CASE inBuf[a] # <<>>
    <2>1. PICK h : h = Head(inBuf[a])
      OBVIOUS
    <2>2. h \in Replies(a) /\ h \in Msg /\ \A m \in Asks(a) \cup LeftReplies(a) : m.id # h.id
      BY <1>2, <2>1, HeadAlone, MessagesAre DEF Faithful
    <2>3. pendingAfter(a) = { r \in pending[a] : r.id # h.id } /\ knownAfter(a) = checkReadResult(known[a], h)
      BY <1>2, <2>1 DEF pendingAfter, knownAfter
    <2>4. Asks(a) \subseteq pendingAfter(a)
      BY <2>2, <2>3 DEF Faithful, Asked
    <2>5. \A m \in LeftReplies(a) : \E r \in pendingAfter(a) : Matches(m, r)
      <3>1. ASSUME NEW m \in LeftReplies(a) PROVE \E r \in pendingAfter(a) : Matches(m, r)
        <4>1. m \in Replies(a)
          BY LeftBufIs DEF Faithful
        <4>2. PICK r \in pending[a] : Matches(m, r)
          BY <4>1 DEF Faithful, Answered
        <4>3. r.id = m.id /\ m.id # h.id
          BY <2>2, <4>2 DEF Matches
        <4> QED BY <2>3, <4>2, <4>3
      <3> QED BY <3>1
    <2>6. \A x \in Addr : /\ knownAfter(a)[x] # <<>> <=> known[a][x] # <<>>
                          /\ known[a][x] # <<>> => Last(knownAfter(a)[x]) = Last(known[a][x])
      <3>1. PICK kn \in [Addr -> Seq(Val)] : kn = known[a]
        BY DEF TypeOK
      <3>2. \A x \in Addr : /\ checkReadResult(kn, h)[x] # <<>> <=> kn[x] # <<>>
                            /\ kn[x] # <<>> => Last(checkReadResult(kn, h)[x]) = Last(kn[x])
        BY <2>2, LookupKeeps
      <3> QED BY <2>3, <3>1, <3>2
    <2>7. ASSUME NEW x \in Addr, \A r \in pendingAfter(a) : r.addr # x, known[a][x] # <<>> PROVE Stored(a, x)
      <3>1. PICK r0 \in pending[a] : Matches(h, r0)
        BY <2>2 DEF Faithful, Answered
      <3>2. r0.id = h.id /\ r0.addr = h.addr /\ Stored(a, h.addr)
        BY <2>2, <3>1 DEF Faithful, Answered, Matches
      <3>3. CASE x = h.addr
        BY <3>2, <3>3
      <3>4. CASE x # h.addr
        <4>1. ASSUME NEW r \in pending[a] PROVE r.addr # x
          <5>1. CASE r.id = h.id
            <6>1. r = r0
              BY <3>2, <5>1 DEF Faithful, Numbered
            <6> QED BY <3>2, <3>4, <6>1
          <5>2. CASE r.id # h.id
            BY <2>3, <2>7, <5>2
          <5> QED BY <5>1, <5>2
        <4> QED BY <2>7, <4>1 DEF Faithful, UpToDate
      <3> QED BY <3>3, <3>4
    <2>8. pendingAfter(a) \subseteq pending[a]
      BY <2>3
    <2> QED BY <2>4, <2>5, <2>6, <2>7, <2>8 DEF Settled
  <1> QED BY <1>1, <1>2

(* No message carries the number of the next request. *)
LEMMA NumberFree ==
    ASSUME TypeOK, NEW a \in Agent, Faithful(a), NEW id \in Int, \A r \in pending[a] : r.id # id
    PROVE  Copies(a, id) = 0
  <1>0. a \in Port /\ Mem \in Port
    BY Handlers
  <1>1. PICK M : M = Of(a, id)
    OBVIOUS
  <1>2. PICK E : E = EventOf(a, id)
    OBVIOUS
  <1>3. ASSUME NEW m \in Asks(a) \cup Replies(a) PROVE m \notin M
    <2>1. CASE m \in Asks(a)
      BY <1>1, <2>1 DEF Faithful, Asked, Of
    <2>2. CASE m \in Replies(a)
      <3>1. PICK r \in pending[a] : Matches(m, r)
        BY <2>2 DEF Faithful, Answered
      <3> QED BY <1>1, <3>1 DEF Matches, Of
    <2> QED BY <2>1, <2>2
  <1>4. \A m \in M : m.agent = a
    BY <1>1 DEF Of
  <1>5. \A j \in DOMAIN endBuf[a] : endBuf[a][j] \notin M
    BY <1>3, <1>4 DEF Asks, Range
  <1>6. \A j \in DOMAIN inBuf[Mem] : inBuf[Mem][j] \notin M
    BY <1>3, <1>4 DEF Asks, Range
  <1>7. \A j \in DOMAIN respond : respond[j] \notin E
    BY <1>1, <1>2, <1>3, <1>4 DEF Asks, EventOf
  <1>8. \A j \in DOMAIN endBuf[Mem] : endBuf[Mem][j] \notin M
    BY <1>3, <1>4 DEF Replies, Range
  <1>9. \A j \in DOMAIN inBuf[a] : inBuf[a][j] \notin M
    BY <1>3, <1>4 DEF Replies, Range
  <1>10. Number(endBuf[a], M) = 0
    <2>1. PICK e : e = endBuf[a]
      OBVIOUS
    <2>2. \A j \in DOMAIN e : e[j] \notin M
      BY <1>5, <2>1
    <2>3. Number(e, M) = 0
      BY <2>2, NumberNone
    <2> QED BY <2>1, <2>3
  <1>11. Number(inBuf[Mem], M) = 0
    <2>1. PICK q : q = inBuf[Mem]
      OBVIOUS
    <2>2. \A j \in DOMAIN q : q[j] \notin M
      BY <1>6, <2>1
    <2>3. Number(q, M) = 0
      BY <2>2, NumberNone
    <2> QED BY <2>1, <2>3
  <1>12. Number(respond, E) = 0
    <2>1. PICK s : s = respond
      OBVIOUS
    <2>2. \A j \in DOMAIN s : s[j] \notin E
      BY <1>7, <2>1
    <2>3. Number(s, E) = 0
      BY <2>2, NumberNone
    <2> QED BY <2>1, <2>3
  <1>13. Number(endBuf[Mem], M) = 0
    <2>1. PICK f : f = endBuf[Mem]
      OBVIOUS
    <2>2. \A j \in DOMAIN f : f[j] \notin M
      BY <1>8, <2>1
    <2>3. Number(f, M) = 0
      BY <2>2, NumberNone
    <2> QED BY <2>1, <2>3
  <1>14. Number(inBuf[a], M) = 0
    <2>1. PICK b : b = inBuf[a]
      OBVIOUS
    <2>2. \A j \in DOMAIN b : b[j] \notin M
      BY <1>9, <2>1
    <2>3. Number(b, M) = 0
      BY <2>2, NumberNone
    <2> QED BY <2>1, <2>3
  <1> QED BY <1>1, <1>2, <1>10, <1>11, <1>12, <1>13, <1>14 DEF Copies

(* An agent's tick without a successful Send. *)
TakesResponse(a) ==
    /\ inBuf' = [inBuf EXCEPT ![a] = LeftBuf(a)]
    /\ pending' = [pending EXCEPT ![a] = pendingAfter(a)]
    /\ known' = [known EXCEPT ![a] = knownAfter(a)]
    /\ UNCHANGED <<endBuf, respond, storage, readLeft, writeLeft>>

(* An agent's tick with a successful Send. *)
TakesAndSends(a, req) ==
    /\ inBuf' = [inBuf EXCEPT ![a] = LeftBuf(a)]
    /\ ~isAddressInPendingReq(pendingAfter(a), req.addr)
    /\ endBuf' = [endBuf EXCEPT ![a] = Append(@, req)]
    /\ pending' = [pending EXCEPT ![a] = pendingAfter(a) \cup {req}]
    /\ known' = [known EXCEPT ![a] =
                    IF req.op = "write"
                    THEN [knownAfter(a) EXCEPT ![req.addr] = Append(@, req.val)]
                    ELSE knownAfter(a)]
    /\ readLeft' = [readLeft EXCEPT ![a] = IF req.op = "read" THEN @ - 1 ELSE @]
    /\ writeLeft' = [writeLeft EXCEPT ![a] = IF req.op = "write" THEN @ - 1 ELSE @]
    /\ UNCHANGED <<respond, storage>>

(* An agent ticks in one of these two ways. *)
LEMMA TicksAre ==
    ASSUME TypeOK, NEW a \in Agent, AgentTickNoSend(a) \/ AgentTickSendFails(a) \/ AgentTickSends(a)
    PROVE  TakesResponse(a) \/ \E req \in NewReqs(a) : TakesAndSends(a, req)
  <1>1. Retrieve(a) => inBuf' = [inBuf EXCEPT ![a] = LeftBuf(a)]
    BY DEF Retrieve, LeftBuf
  <1>2. CASE AgentTickNoSend(a)
    BY <1>1, <1>2 DEF AgentTickNoSend, TakesResponse, memVars
  <1>3. CASE AgentTickSendFails(a)
    BY <1>1, <1>3 DEF AgentTickSendFails, TakesResponse, memVars
  <1>4. CASE AgentTickSends(a)
    BY <1>1, <1>4 DEF AgentTickSends, TakesAndSends, memVars
  <1> QED BY <1>2, <1>3, <1>4

(* The tick of another agent. *)
LEMMA TickElsewhere ==
    ASSUME TypeOK, NEW b \in Agent, TakesResponse(b) \/ \E req \in NewReqs(b) : TakesAndSends(b, req),
           NEW a \in Agent, a # b, Routed(a)
    PROVE  Carried(a)
  <1>0. a \in Port /\ Mem \in Port /\ a # b /\ b # Mem /\ b \in Port
    BY Handlers
  <1>1. /\ inBuf'[a] = inBuf[a] /\ inBuf'[Mem] = inBuf[Mem] /\ endBuf'[a] = endBuf[a] /\ endBuf'[Mem] = endBuf[Mem]
        /\ respond' = respond /\ storage' = storage
    BY <1>0 DEF TakesResponse, TakesAndSends, TypeOK
  <1>2. pending'[a] = pending[a] /\ known'[a] = known[a] /\ readLeft'[a] = readLeft[a] /\ writeLeft'[a] = writeLeft[a]
    <2>1. CASE TakesResponse(b)
      BY <2>1 DEF TakesResponse, TypeOK
    <2>2. CASE \E req \in NewReqs(b) : TakesAndSends(b, req)
      <3>1. PICK req : TakesAndSends(b, req)
        BY <2>2
      <3> QED BY <3>1 DEF TakesAndSends, TypeOK
    <2> QED BY <2>1, <2>2
  <1> QED BY <1>1, <1>2 DEF Carried, Asks, Replies, Routed, Copies, Of, EventOf

(* The agent's own tick: what it leaves in the messages' ways. *)
LEMMA TickTakes ==
    ASSUME TypeOK, TypeOK', NEW a \in Agent, TakesResponse(a), Faithful(a)
    PROVE  Faithful(a)'
  <1>0. a \in Port /\ Mem \in Port /\ a # Mem
    BY Handlers
  <1>1. Settled(a)
    BY ConsumeSettles
  <1>2. /\ inBuf'[a] = LeftBuf(a) /\ inBuf'[Mem] = inBuf[Mem] /\ endBuf' = endBuf /\ respond' = respond /\ storage' = storage
        /\ pending'[a] = pendingAfter(a) /\ known'[a] = knownAfter(a)
        /\ readLeft'[a] = readLeft[a] /\ writeLeft'[a] = writeLeft[a]
    BY <1>0 DEF TakesResponse, TypeOK
  <1>3. Asks(a)' = Asks(a) /\ Replies(a)' = LeftReplies(a)
    BY <1>2 DEF Asks, Replies, LeftReplies
  <1>4. \A x \in Addr : Stored(a, x) => Stored(a, x)'
    BY <1>1, <1>2 DEF Stored, Settled
  <1>5. \A m \in LeftReplies(a) : m \in Replies(a) /\ m.addr \in Addr
    BY LeftBufIs, MessagesAre DEF Faithful, Msg
  <1>6. Routed(a)'
    BY <1>2, LeftBufIs DEF Routed, Faithful
  <1>7. OneCopy(a)'
    <2>1. ASSUME NEW id \in Int PROVE Copies(a, id)' <= 1
      <3>1. PICK M : M = Of(a, id)
        OBVIOUS
      <3>2. PICK n1 \in Nat : n1 = Number(endBuf[a], M)
        BY <3>1, CopiesAre
      <3>3. PICK n2 \in Nat : n2 = Number(inBuf[Mem], M)
        BY <3>1, CopiesAre
      <3>4. PICK n3 \in Nat : n3 = Number(respond, EventOf(a, id))
        BY CopiesAre
      <3>5. PICK n4 \in Nat : n4 = Number(endBuf[Mem], M)
        BY <3>1, CopiesAre
      <3>6. PICK n5 \in Nat : n5 = Number(inBuf[a], M)
        BY <3>1, CopiesAre
      <3>7. PICK k5 \in Nat : k5 = Number(LeftBuf(a), M)
        BY LeftBufIs DEF Faithful
      <3>8. k5 <= n5
        BY <3>6, <3>7, LeftBufIs DEF Faithful
      <3>9. Copies(a, id) = n1 + n2 + n3 + n4 + n5
        BY <3>1, <3>2, <3>3, <3>4, <3>5, <3>6 DEF Copies
      <3>10. Of(a, id)' = M /\ EventOf(a, id)' = EventOf(a, id)
        BY <3>1 DEF Of, EventOf
      <3>11. Copies(a, id)' = n1 + n2 + n3 + n4 + k5
        BY <1>2, <3>2, <3>3, <3>4, <3>5, <3>7, <3>10 DEF Copies
      <3>12. n1 + n2 + n3 + n4 + n5 <= 1
        BY <3>9 DEF Faithful, OneCopy
      <3> QED BY <3>8, <3>11, <3>12
    <2> QED BY <2>1 DEF OneCopy
  <1>8. Asked(a)'
    BY <1>1, <1>2, <1>3 DEF Asked, Settled
  <1>9. Answered(a)'
    <2>1. ASSUME NEW m \in LeftReplies(a) PROVE /\ \E r \in pendingAfter(a) : Matches(m, r)
                                                /\ Stored(a, m.addr)'
                                                /\ m.op = "read" => m.val = storage[a][m.addr]
      BY <1>1, <1>4, <1>5 DEF Settled, Faithful, Answered
    <2> QED BY <1>2, <1>3, <2>1 DEF Answered
  <1>10. Numbered(a)'
    BY <1>1, <1>2 DEF Faithful, Numbered, Settled
  <1>11. UpToDate(a)'
    <2>1. ASSUME NEW r \in pendingAfter(a)
          PROVE  /\ r.op = "read" => Stored(a, r.addr)'
                 /\ r.op = "write" => knownAfter(a)[r.addr] # <<>> /\ Last(knownAfter(a)[r.addr]) = r.val
      <3>1. r \in pending[a] /\ r.addr \in Addr
        BY <1>1 DEF Settled, TypeOK, Msg
      <3>2. r.op = "read" => Stored(a, r.addr)'
        BY <1>4, <3>1 DEF Faithful, UpToDate
      <3>3. r.op = "write" => knownAfter(a)[r.addr] # <<>> /\ Last(knownAfter(a)[r.addr]) = r.val
        BY <1>1, <3>1 DEF Faithful, UpToDate, Settled
      <3> QED BY <3>2, <3>3
    <2>2. \A x \in Addr : (\A r \in pendingAfter(a) : r.addr # x) /\ knownAfter(a)[x] # <<>> => Stored(a, x)'
      BY <1>1, <1>4 DEF Settled
    <2> QED BY <1>2, <2>1, <2>2 DEF UpToDate
  <1> QED BY <1>6, <1>7, <1>8, <1>9, <1>10, <1>11 DEF Faithful

(* The request an agent sends. *)
LEMMA NewRequest ==
    ASSUME TypeOK, NEW a \in Agent, Faithful(a), NEW req \in NewReqs(a), TakesAndSends(a, req)
    PROVE  /\ req \in Msg /\ req.agent = a /\ req.addr \in Addr
           /\ req.id = readLeft[a] + writeLeft[a] /\ req.id \in Int
           /\ readLeft'[a] + writeLeft'[a] = req.id - 1
           /\ req.op = "read" => knownAfter(a)[req.addr] # <<>>
           /\ req.op = "write" => req.val \in Val
           /\ \A r \in pendingAfter(a) : r.addr # req.addr
           /\ \A r \in pending[a] : r.id > req.id /\ r.id \in Int
  <1>1. req \in Msg /\ req.agent = a /\ (req.op = "write" => req.val \in Val)
    BY NewReqType
  <1>2. req.id = readLeft[a] + writeLeft[a] /\ (req.op = "read" => knownAfter(a)[req.addr] # <<>>)
    BY DEF NewReqs
  <1>3. PICK n \in Int : n = readLeft[a]
    BY DEF TypeOK
  <1>4. PICK k \in Int : k = writeLeft[a]
    BY DEF TypeOK
  <1>5. readLeft'[a] = (IF req.op = "read" THEN n - 1 ELSE n) /\ writeLeft'[a] = IF req.op = "write" THEN k - 1 ELSE k
    BY <1>3, <1>4 DEF TakesAndSends, TypeOK
  <1>6. req.op = "read" \/ req.op = "write"
    BY <1>1 DEF Msg
  <1>7. readLeft'[a] + writeLeft'[a] = req.id - 1
    <2>1. CASE req.op = "read"
      BY <1>2, <1>3, <1>4, <1>5, <2>1
    <2>2. CASE req.op = "write"
      BY <1>2, <1>3, <1>4, <1>5, <2>2
    <2> QED BY <1>6, <2>1, <2>2
  <1>8. \A r \in pending[a] : r.id > req.id /\ r.id \in Int
    BY <1>2 DEF Faithful, Numbered, TypeOK, Msg
  <1>9. \A r \in pendingAfter(a) : r.addr # req.addr
    BY DEF TakesAndSends, isAddressInPendingReq
  <1> QED BY <1>1, <1>2, <1>3, <1>4, <1>7, <1>8, <1>9 DEF Msg

(* The agent sends a request: it is the only message with its number, and  *)
(* the only one the agent waits for at its address.                        *)
LEMMA TickSends ==
    ASSUME TypeOK, TypeOK', NEW a \in Agent, NEW req \in NewReqs(a), TakesAndSends(a, req), Faithful(a)
    PROVE  Faithful(a)'
  <1>0. a \in Port /\ Mem \in Port /\ a # Mem
    BY Handlers
  <1>1. Settled(a)
    BY ConsumeSettles
  <1>2. PICK e \in Seq(Msg) : e = endBuf[a]
    BY <1>0 DEF TypeOK
  <1>3. PICK rq \in Msg : rq = req
    BY NewReqType
  <1>4. /\ rq.agent = a /\ rq.addr \in Addr /\ rq.id \in Int
        /\ readLeft'[a] + writeLeft'[a] = rq.id - 1
        /\ rq.op = "read" => knownAfter(a)[rq.addr] # <<>>
        /\ rq.op = "write" => rq.val \in Val
        /\ \A r \in pendingAfter(a) : r.addr # rq.addr
        /\ \A r \in pending[a] : r.id > rq.id /\ r.id \in Int
    BY <1>3, NewRequest
  <1>5. PICK ka \in [Addr -> Seq(Val)] : ka = knownAfter(a)
    BY AfterType
  <1>6. /\ inBuf'[a] = LeftBuf(a) /\ inBuf'[Mem] = inBuf[Mem] /\ endBuf'[Mem] = endBuf[Mem]
        /\ endBuf'[a] = Append(e, rq) /\ respond' = respond /\ storage' = storage
        /\ pending'[a] = pendingAfter(a) \cup {rq}
    BY <1>0, <1>2, <1>3 DEF TakesAndSends, TypeOK
  <1>7. known'[a] = IF rq.op = "write" THEN [ka EXCEPT ![rq.addr] = Append(@, rq.val)] ELSE ka
    BY <1>3, <1>5 DEF TakesAndSends, TypeOK
  <1>8. \A x \in Addr : x # rq.addr => known'[a][x] = ka[x]
    BY <1>4, <1>7
  <1>9. rq.op = "write" => known'[a][rq.addr] # <<>> /\ Last(known'[a][rq.addr]) = rq.val
    <2>1. ASSUME rq.op = "write" PROVE known'[a][rq.addr] # <<>> /\ Last(known'[a][rq.addr]) = rq.val
      <3>1. PICK s \in Seq(Val) : s = ka[rq.addr]
        BY <1>4
      <3>2. PICK t : t = Append(s, rq.val)
        OBVIOUS
      <3>3. Len(s) \in Nat /\ t \in Seq(Val) /\ Len(t) = Len(s) + 1 /\ t[Len(s) + 1] = rq.val
        BY <1>4, <2>1, <3>2, LenProperties, AppendProperties
      <3>4. known'[a][rq.addr] = t
        BY <1>4, <1>7, <2>1, <3>1, <3>2
      <3>5. t # <<>>
        BY <3>3
      <3> QED BY <3>3, <3>4, <3>5 DEF Last
    <2> QED BY <2>1
  <1>10. rq.op = "read" => known'[a] = ka
    BY <1>7
  <1>11. \A x \in Addr : x # rq.addr /\ Stored(a, x) => Stored(a, x)'
    BY <1>1, <1>5, <1>6, <1>8 DEF Stored, Settled
  <1>12. rq.op = "read" => Stored(a, rq.addr)'
    <2>1. ASSUME rq.op = "read" PROVE Stored(a, rq.addr)'
      <3>1. ka[rq.addr] # <<>> /\ known[a][rq.addr] # <<>> /\ Last(ka[rq.addr]) = Last(known[a][rq.addr])
        BY <1>1, <1>4, <1>5, <2>1 DEF Settled
      <3>2. Stored(a, rq.addr)
        BY <1>1, <1>4, <3>1 DEF Settled
      <3> QED BY <1>6, <1>10, <2>1, <3>1, <3>2 DEF Stored
    <2> QED BY <2>1
  <1>13. Replies(a)' = LeftReplies(a)
    BY <1>6 DEF Replies, LeftReplies
  <1>14. Range(Append(e, rq)) = Range(e) \cup {rq}
    BY RangeAppend
  <1>15. Asks(a)' \subseteq Asks(a) \cup {rq}
    BY <1>2, <1>6, <1>14 DEF Asks
  <1>16. Routed(a)'
    BY <1>2, <1>4, <1>6, <1>14, LeftBufIs DEF Routed, Faithful
  <1>17. Asked(a)'
    BY <1>1, <1>6, <1>15 DEF Asked, Settled
  <1>18. Answered(a)'
    <2>1. ASSUME NEW m \in LeftReplies(a) PROVE /\ \E r \in pending'[a] : Matches(m, r)
                                                /\ Stored(a, m.addr)'
                                                /\ m.op = "read" => m.val = storage[a][m.addr]
      <3>1. m \in Replies(a)
        BY LeftBufIs DEF Faithful
      <3>2. m.addr \in Addr /\ Stored(a, m.addr) /\ (m.op = "read" => m.val = storage[a][m.addr])
        BY <3>1, MessagesAre DEF Faithful, Answered, Msg
      <3>3. PICK r \in pendingAfter(a) : Matches(m, r)
        BY <1>1 DEF Settled
      <3>4. m.addr # rq.addr
        BY <1>4, <3>3 DEF Matches
      <3> QED BY <1>6, <1>11, <3>2, <3>3, <3>4
    <2> QED BY <1>6, <1>13, <2>1 DEF Answered
  <1>19. Numbered(a)'
    <2>1. ASSUME NEW r \in pending'[a] PROVE r.agent = a /\ r.id > rq.id - 1
      <3>1. CASE r = rq
        BY <1>4, <3>1
      <3>2. CASE r \in pendingAfter(a)
        <4>1. r \in pending[a]
          BY <1>1, <3>2 DEF Settled
        <4>2. r.id \in Int /\ r.id > rq.id /\ r.agent = a
          BY <1>4, <4>1 DEF Faithful, Numbered
        <4> QED BY <1>4, <4>2
      <3> QED BY <1>6, <3>1, <3>2
    <2>2. ASSUME NEW r \in pending'[a], NEW s \in pending'[a], r.id = s.id \/ r.addr = s.addr PROVE r = s
      <3>1. \A z \in pendingAfter(a) : z \in pending[a] /\ z.addr # rq.addr /\ z.id # rq.id
        <4>1. ASSUME NEW z \in pendingAfter(a) PROVE z \in pending[a] /\ z.addr # rq.addr /\ z.id # rq.id
          <5>1. z \in pending[a]
            BY <1>1 DEF Settled
          <5>2. z.id > rq.id /\ z.id \in Int
            BY <1>4, <5>1
          <5> QED BY <1>4, <5>1, <5>2
        <4> QED BY <4>1
      <3>2. CASE r = rq \/ s = rq
        BY <1>6, <2>2, <3>1, <3>2
      <3>3. CASE r # rq /\ s # rq
        <4>1. r \in pending[a] /\ s \in pending[a]
          BY <1>6, <3>1, <3>3
        <4> QED BY <2>2, <4>1 DEF Faithful, Numbered
      <3> QED BY <3>2, <3>3
    <2> QED BY <1>4, <2>1, <2>2 DEF Numbered
  <1>20. UpToDate(a)'
    <2>1. ASSUME NEW r \in pending'[a]
          PROVE  /\ r.op = "read" => Stored(a, r.addr)'
                 /\ r.op = "write" => known'[a][r.addr] # <<>> /\ Last(known'[a][r.addr]) = r.val
      <3>1. CASE r = rq
        BY <1>9, <1>12, <3>1
      <3>2. CASE r \in pendingAfter(a)
        <4>0. r \in pending[a]
          BY <1>1, <3>2 DEF Settled
        <4>1. r \in pending[a] /\ r.addr \in Addr /\ r.addr # rq.addr
          <5>1. r \in Msg
            BY <4>0 DEF TypeOK
          <5>2. r.addr \in Addr
            BY <5>1 DEF Msg
          <5> QED BY <1>4, <3>2, <4>0, <5>2
        <4>2. r.op = "read" => Stored(a, r.addr)'
          BY <1>11, <4>1 DEF Faithful, UpToDate
        <4>3. r.op = "write" => ka[r.addr] # <<>> /\ Last(ka[r.addr]) = r.val
          BY <1>1, <1>5, <4>1 DEF Faithful, UpToDate, Settled
        <4> QED BY <1>8, <4>1, <4>2, <4>3
      <3> QED BY <1>6, <3>1, <3>2
    <2>2. ASSUME NEW x \in Addr, \A r \in pending'[a] : r.addr # x, known'[a][x] # <<>> PROVE Stored(a, x)'
      <3>1. x # rq.addr /\ \A r \in pendingAfter(a) : r.addr # x
        BY <1>6, <2>2
      <3>2. known[a][x] # <<>>
        BY <1>1, <1>5, <1>8, <2>2, <3>1 DEF Settled
      <3>3. Stored(a, x)
        BY <1>1, <3>1, <3>2 DEF Settled
      <3> QED BY <1>11, <3>1, <3>3
    <2> QED BY <2>1, <2>2 DEF UpToDate
  <1>21. OneCopy(a)'
    <2>1. ASSUME NEW id \in Int PROVE Copies(a, id)' <= 1
      <3>1. PICK M : M = Of(a, id)
        OBVIOUS
      <3>2. PICK n1 \in Nat : n1 = Number(e, M)
        BY NumberIn
      <3>3. PICK n2 \in Nat : n2 = Number(inBuf[Mem], M)
        BY <3>1, CopiesAre
      <3>4. PICK n3 \in Nat : n3 = Number(respond, EventOf(a, id))
        BY CopiesAre
      <3>5. PICK n4 \in Nat : n4 = Number(endBuf[Mem], M)
        BY <3>1, CopiesAre
      <3>6. PICK n5 \in Nat : n5 = Number(inBuf[a], M)
        BY <3>1, CopiesAre
      <3>7. PICK k5 \in Nat : k5 = Number(LeftBuf(a), M)
        BY LeftBufIs DEF Faithful
      <3>8. k5 <= n5
        BY <3>6, <3>7, LeftBufIs DEF Faithful
      <3>9. Copies(a, id) = n1 + n2 + n3 + n4 + n5
        BY <1>2, <3>1, <3>2, <3>3, <3>4, <3>5, <3>6 DEF Copies
      <3>10. Of(a, id)' = M /\ EventOf(a, id)' = EventOf(a, id)
        BY <3>1 DEF Of, EventOf
      <3>11. PICK o \in 0..1 : o = IF rq \in M THEN 1 ELSE 0
        OBVIOUS
      <3>12. Number(Append(e, rq), M) = n1 + o
        BY <3>2, <3>11, NumberAppend
      <3>13. Copies(a, id)' = (n1 + o) + n2 + n3 + n4 + k5
        BY <1>6, <3>3, <3>4, <3>5, <3>7, <3>10, <3>12 DEF Copies
      <3>14. CASE rq.id = id
        <4>1. Copies(a, id) = 0
          <5>1. \A r \in pending[a] : r.id # id
            <6>1. ASSUME NEW r \in pending[a] PROVE r.id # id
              <7>1. r.id > rq.id /\ r.id \in Int
                BY <1>4
              <7> QED BY <3>14, <7>1
            <6> QED BY <6>1
          <5> QED BY <5>1, NumberFree
        <4> QED BY <3>8, <3>9, <3>13, <4>1
      <3>15. CASE rq.id # id
        <4>1. rq \notin M
          BY <3>1, <3>15 DEF Of
        <4>2. o = 0
          BY <3>11, <4>1
        <4>3. n1 + n2 + n3 + n4 + n5 <= 1
          BY <3>9 DEF Faithful, OneCopy
        <4> QED BY <3>8, <3>13, <4>2, <4>3
      <3> QED BY <3>14, <3>15
    <2> QED BY <2>1 DEF OneCopy
  <1> QED BY <1>16, <1>17, <1>18, <1>19, <1>20, <1>21 DEF Faithful

-----------------------------------------------------------------------------
(* Every agent's accesses are faithful: the inductive invariant.           *)
AllFaithful == \A a \in Agent : Faithful(a)

(* Every step keeps the agents' accesses faithful. *)
LEMMA StaysFaithful == TypeOK /\ TypeOK' /\ AllFaithful /\ [Next]_vars => AllFaithful'
  <1> SUFFICES ASSUME TypeOK, TypeOK', AllFaithful, [Next]_vars, NEW a \in Agent PROVE Faithful(a)'
    BY DEF AllFaithful
  <1>0. Faithful(a) /\ Routed(a) /\ \A b \in Agent : Routed(b)
    BY DEF AllFaithful, Faithful
  <1>1. Carried(a) => Faithful(a)'
    BY <1>0, CarriedKeeps
  <1>2. CASE AdvanceTime
    BY <1>0, <1>1, <1>2, AdvanceCarries
  <1>3. CASE \E b \in Agent : AgentTickNoSend(b) \/ AgentTickSendFails(b) \/ AgentTickSends(b)
    <2>1. PICK b \in Agent : AgentTickNoSend(b) \/ AgentTickSendFails(b) \/ AgentTickSends(b)
      BY <1>3
    <2>2. TakesResponse(b) \/ \E req \in NewReqs(b) : TakesAndSends(b, req)
      BY <2>1, TicksAre
    <2>3. CASE a # b
      BY <1>0, <1>1, <2>2, <2>3, TickElsewhere
    <2>4. CASE a = b
      <3>1. CASE TakesResponse(a)
        BY <1>0, <3>1, TickTakes
      <3>2. CASE \E req \in NewReqs(a) : TakesAndSends(a, req)
        <4>1. PICK req \in NewReqs(a) : TakesAndSends(a, req)
          BY <3>2
        <4> QED BY <1>0, <4>1, TickSends
      <3> QED BY <2>2, <2>4, <3>1, <3>2
    <2> QED BY <2>3, <2>4
  <1>4. CASE MemTick
    BY <1>0, <1>1, <1>4, MemCarries
  <1>5. CASE \E i \in 1..Len(respond) : RespondOrRetry(i)
    <2>1. PICK i \in 1..Len(respond) : HandleRespond(i) \/ RetryRespond(i)
      BY <1>5 DEF RespondOrRetry
    <2>2. CASE RetryRespond(i)
      BY <1>0, <1>1, <2>2, RetryCarries
    <2>3. CASE HandleRespond(i) /\ respond[i].msg.agent = a
      BY <1>0, <2>3, RespondFaithful
    <2>4. CASE HandleRespond(i) /\ respond[i].msg.agent # a
      BY <1>0, <1>1, <2>4, RespondElsewhere
    <2> QED BY <2>1, <2>2, <2>3, <2>4
  <1>6. CASE ConnTick
    <2>1. UNCHANGED <<inBuf, endBuf, respond, storage, agentVars>>
      BY <1>6 DEF ConnTick, memVars
    <2> QED BY <1>0, <1>1, <2>1, StillCarries
  <1>7. CASE Forward
    BY <1>0, <1>1, <1>7, ForwardCarries
  <1>8. CASE LeaveEnd
    <2>1. UNCHANGED <<inBuf, endBuf, respond, storage, agentVars>>
      BY <1>8 DEF LeaveEnd, memVars
    <2> QED BY <1>0, <1>1, <2>1, StillCarries
  <1>9. CASE UNCHANGED vars
    <2>1. UNCHANGED <<inBuf, endBuf, respond, storage, agentVars>>
      BY <1>9 DEF vars, memVars
    <2> QED BY <1>0, <1>1, <2>1, StillCarries
  <1> QED BY <1>2, <1>3, <1>4, <1>5, <1>6, <1>7, <1>8, <1>9 DEF Next

(* An agent without accesses is faithful. *)
LEMMA StartsFaithful == Init => AllFaithful
  <1> SUFFICES ASSUME Init, NEW a \in Agent PROVE Faithful(a)
    BY DEF AllFaithful
  <1>0. a \in Port /\ Mem \in Port
    BY Handlers
  <1>1. endBuf[a] = <<>> /\ inBuf[Mem] = <<>> /\ respond = <<>> /\ endBuf[Mem] = <<>> /\ inBuf[a] = <<>>
    BY <1>0 DEF Init
  <1>2. pending[a] = {} /\ \A x \in Addr : known[a][x] = <<>>
    BY DEF Init
  <1>3. Range(<<>>) = {}
    BY DEF Range
  <1>4. Asks(a) = {} /\ Replies(a) = {}
    BY <1>1, <1>3 DEF Asks, Replies
  <1>5. Routed(a)
    BY <1>1, <1>3 DEF Routed
  <1>6. OneCopy(a)
    <2>1. ASSUME NEW id \in Int PROVE Copies(a, id) <= 1
      <3>1. Copies(a, id) = 0 + 0 + 0 + 0 + 0
        BY <1>1, NumberEmpty DEF Copies
      <3> QED BY <3>1
    <2> QED BY <2>1 DEF OneCopy
  <1>7. Asked(a) /\ Answered(a) /\ Numbered(a) /\ UpToDate(a)
    BY <1>2, <1>4 DEF Asked, Answered, Numbered, UpToDate
  <1> QED BY <1>5, <1>6, <1>7 DEF Faithful

(* The data of a read that arrives is the last value sent. *)
LEMMA FaithfulReads == TypeOK /\ AllFaithful => ReadsMatch
  <1> SUFFICES ASSUME TypeOK, AllFaithful, NEW a \in Agent, inBuf[a] # <<>>, Head(inBuf[a]).op = "read"
               PROVE  IsKnown(known[a][Head(inBuf[a]).addr], Head(inBuf[a]).val)
    BY DEF ReadsMatch
  <1>1. PICK h : h = Head(inBuf[a])
    OBVIOUS
  <1>2. h \in Replies(a) /\ h \in Msg
    BY <1>1, HeadAlone, MessagesAre DEF AllFaithful, Faithful
  <1>3. Stored(a, h.addr) /\ h.val = storage[a][h.addr]
    BY <1>1, <1>2 DEF AllFaithful, Faithful, Answered
  <1>4. PICK s \in Seq(Val) : s = known[a][h.addr]
    BY <1>2 DEF TypeOK, Msg
  <1>5. s # <<>> /\ s[Len(s)] = h.val
    BY <1>3, <1>4 DEF Stored, Last
  <1>6. Len(s) \in 1..Len(s)
    BY <1>5, LenProperties, EmptySeq
  <1> QED BY <1>1, <1>4, <1>5, <1>6 DEF IsKnown

(* The accesses of every agent stay faithful: a request has one message,   *)
(* and the memory and every response hold the last value the agent sent.   *)
THEOREM Delivery == Spec => []AllFaithful
  <1>1. Init => AllFaithful
    BY StartsFaithful
  <1>2. TypeOK /\ TypeOK' /\ AllFaithful /\ [Next]_vars => AllFaithful'
    BY StaysFaithful
  <1> QED BY <1>1, <1>2, TypeCorrect, PTL DEF Spec

(* Every read response carries a value the agent knows it wrote             *)
(* ("Mismatch when read" never happens).                                   *)
THEOREM ReadsCorrect == Spec => []ReadsMatch
  BY FaithfulReads, TypeCorrect, Delivery, PTL
==============================================================================
