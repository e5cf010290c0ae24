--------------------------- MODULE AkitaMessaging ----------------------------
(***************************************************************************)
(* Message passing in the Akita simulation engine, on the system of        *)
(* mem/acceptancetests/idealmemcontroller: memory access agents and an     *)
(* ideal memory controller whose ports are plugged into one direct         *)
(* connection, all driven by the serial event engine.                      *)
(*                                                                         *)
(* One step is one engine event (a component's tick or a respond event),   *)
(* except the connection's tick, whose loops are one step per iteration:   *)
(* no other event can run in between, because running is TRUE.             *)
(*                                                                         *)
(* Ports are numbered in PlugIn order, agents first, and a port's number   *)
(* also names the component that owns it.                                  *)
(***************************************************************************)
EXTENDS AkitaTicker, Sequences, SequencesExt

CONSTANTS
    N,          \* number of agents (the test has one)
    PortCap,    \* bufCapacity of every LimitNumMsgPort
    EndCap,     \* bufSize of every end of the connection
    Latency,    \* Latency of the memory controller, in cycles
    MaxTrans,   \* MaxNumTransaction of the memory controller
    Addr,       \* addresses an agent uses; agents do not share addresses
    Val,        \* values an agent writes
    Zero,       \* what unwritten storage holds
    NumWrite,   \* initial WriteLeft of an agent
    NumRead     \* initial ReadLeft of an agent

ASSUME MessagingAssumption ==
    /\ N \in Nat \ {0}
    /\ PortCap \in Nat \ {0}
    /\ EndCap \in Nat \ {0}
    /\ Latency \in Nat \ {0}
    /\ MaxTrans \in Nat \ {0}
    /\ Addr # {}
    /\ Val # {}
    /\ NumWrite \in Nat
    /\ NumRead \in Nat
    /\ (NumWrite = 0) => (NumRead = 0)

Agent   == 0..(N-1)
Mem     == N
Port    == 0..N
Conn    == N + 1
Handler == 0..(N+1)

Data == Val \cup {Zero}

(* A request, and the response to it: a response keeps the request's ID  *)
(* (RespondTo) and carries the data in val.                              *)
Msg == [agent : Agent, id : Int, op : {"read", "write"}, addr : Addr, val : Data]

RespondEvent == [msg : Msg, time : 0..Latency]

VARIABLES
    ticker,     \* the TickScheduler of every component and of the connection
    inBuf,      \* LimitNumMsgPort.buf of every port
    portBusy,   \* LimitNumMsgPort.portBusy
    endBuf,     \* directConnectionEnd.buf of every port's end
    endBusy,    \* directConnectionEnd.busy
    nextPortID, \* DirectConnection.nextPortID
    running,    \* the connection is inside its Tick
    visited,    \* ends the Tick under way has finished with
    progress,   \* madeProgress of the Tick under way
    respond,    \* respond events of the memory controller in the queue
    numTrans,   \* currNumTransaction of the memory controller
    storage,    \* Storage of the memory controller
    pending,    \* PendingReadReq and PendingWriteReq of every agent
    known,      \* KnownMemValue of every agent
    readLeft,   \* ReadLeft of every agent
    writeLeft   \* WriteLeft of every agent

connVars  == <<nextPortID, running, visited, progress>>
memVars   == <<respond, numTrans, storage>>
agentVars == <<pending, known, readLeft, writeLeft>>
vars == <<ticker, inBuf, portBusy, endBuf, endBusy, connVars, memVars, agentVars>>

TypeOK ==
    /\ ticker \in [Handler -> Ticker]
    /\ inBuf \in [Port -> Seq(Msg)]
    /\ portBusy \in [Port -> BOOLEAN]
    /\ endBuf \in [Port -> Seq(Msg)]
    /\ endBusy \in [Port -> BOOLEAN]
    /\ nextPortID \in Port
    /\ running \in BOOLEAN
    /\ visited \in Port
    /\ progress \in BOOLEAN
    /\ respond \in Seq(RespondEvent)
    /\ numTrans \in Int
    /\ storage \in [Agent -> [Addr -> Data]]
    /\ pending \in [Agent -> SUBSET Msg]
    /\ known \in [Agent -> [Addr -> Seq(Val)]]
    /\ readLeft \in [Agent -> Int]
    /\ writeLeft \in [Agent -> Int]

(* NewMemAccessAgent, New and PlugIn, then agent.TickLater(0). *)
Init ==
    /\ ticker = [h \in Handler |-> IF h \in Agent THEN TickLater(NewTicker) ELSE NewTicker]
    /\ inBuf = [p \in Port |-> <<>>]
    /\ portBusy = [p \in Port |-> FALSE]
    /\ endBuf = [p \in Port |-> <<>>]
    /\ endBusy = [p \in Port |-> FALSE]
    /\ nextPortID = 0
    /\ running = FALSE
    /\ visited = 0
    /\ progress = FALSE
    /\ respond = <<>>
    /\ numTrans = 0
    /\ storage = [a \in Agent |-> [x \in Addr |-> Zero]]
    /\ pending = [a \in Agent |-> {}]
    /\ known = [a \in Agent |-> [x \in Addr |-> <<>>]]
    /\ readLeft = [a \in Agent |-> NumRead]
    /\ writeLeft = [a \in Agent |-> NumWrite]

-----------------------------------------------------------------------------
(* The engine. *)

PrimaryDueNow ==
    \/ \E p \in Port : 0 \in ticker[p].due
    \/ \E i \in 1..Len(respond) : respond[i].time = 0

(* No event is left in either queue: Run returns. *)
noMoreEvent ==
    /\ ~running
    /\ \A h \in Handler : ticker[h].due = {}
    /\ respond = <<>>

(* nextEvent: an event of the current time may run if no handler is       *)
(* executing; a secondary event only when no primary one is due.          *)
MayRunPrimary == ~running

MayRunSecondaryAnyTime == ~running  \* faulty: secondary events do not wait

MayRunSecondary == ~running /\ ~PrimaryDueNow

(* writeNow: time moves to the earliest event left in the queues. *)
EarliestEvent(d) ==
    /\ \A h \in Handler : \A e \in ticker[h].due : e >= d
    /\ \A i \in 1..Len(respond) : respond[i].time >= d
    /\ \/ \E h \in Handler : d \in ticker[h].due
       \/ \E i \in 1..Len(respond) : respond[i].time = d

AdvanceTime ==
    /\ ~running
    /\ \E d \in 1..Latency :
        /\ EarliestEvent(d)
        /\ ticker' = [h \in Handler |-> Elapse(ticker[h], d)]
        /\ respond' = [i \in 1..Len(respond) |->
                          [respond[i] EXCEPT !.time = @ - d]]
    /\ UNCHANGED <<inBuf, portBusy, endBuf, endBusy, connVars, numTrans, storage, agentVars>>

-----------------------------------------------------------------------------
(* The memory access agent. *)

(* checkReadResult: the result of a read is looked up among the values   *)
(* known for the address (the code panics with "Mismatch when read" when *)
(* it is not one of them), and the values before it are forgotten.       *)
IsKnown(s, v) == \E i \in 1..Len(s) : s[i] = v

FirstKnown(s, v) ==
    CHOOSE i \in 1..Len(s) : s[i] = v /\ \A j \in 1..(i-1) : s[j] # v

checkReadResult(kn, rsp) ==
    IF rsp.op = "read" /\ IsKnown(kn[rsp.addr], rsp.val)
    THEN [kn EXCEPT ![rsp.addr] = SubSeq(@, FirstKnown(@, rsp.val), Len(@))]
    ELSE kn

(* Retrieve by component p from its port: the head of the buffer is taken, *)
(* and a busy port lets the connection know (Freed).                        *)
Retrieve(p) ==
    /\ inBuf' = [inBuf EXCEPT ![p] = IF @ = <<>> THEN @ ELSE Tail(@)]
    /\ portBusy' = [portBusy EXCEPT ![p] = @ /\ inBuf[p] = <<>>]

Freed(p) == inBuf[p] # <<>> /\ portBusy[p]

(* processMsgRsp: the agent's state once the response at the head of its *)
(* port, if there is one, has been dealt with.                           *)
pendingAfter(a) ==
    IF inBuf[a] = <<>> THEN pending[a]
    ELSE { r \in pending[a] : r.id # Head(inBuf[a]).id }

knownAfter(a) ==
    IF inBuf[a] = <<>> THEN known[a]
    ELSE checkReadResult(known[a], Head(inBuf[a]))

isAddressInPendingReq(pend, x) == \E r \in pend : r.addr = x

NothingLeft(a) == readLeft[a] = 0 /\ writeLeft[a] = 0

shouldRead(a, kn, dice) ==
    /\ \E x \in Addr : kn[x] # <<>>
    /\ readLeft[a] # 0
    /\ writeLeft[a] = 0 \/ dice

(* doRead and doWrite up to their checks: the requests the agent may build. *)
(* The number of accesses left serves as the request's unique ID.           *)
NewReqs(a) ==
    { req \in [agent : {a}, id : {readLeft[a] + writeLeft[a]},
               op : {"read", "write"}, addr : Addr, val : Data] :
        /\ ~NothingLeft(a)
        /\ \E dice \in BOOLEAN : (req.op = "read") <=> shouldRead(a, knownAfter(a), dice)
        /\ (req.op = "read")  => knownAfter(a)[req.addr] # <<>> /\ req.val = Zero
        /\ (req.op = "write") => req.val \in Val }

(* Tick, no Send: nothing is left to send, or the address is in use. *)
AgentTickNoSend(a) ==
    /\ MayRunPrimary
    /\ 0 \in ticker[a].due
    /\ \/ NothingLeft(a)
       \/ \E req \in NewReqs(a) : isAddressInPendingReq(pendingAfter(a), req.addr)
    /\ Retrieve(a)
    /\ pending' = [pending EXCEPT ![a] = pendingAfter(a)]
    /\ known' = [known EXCEPT ![a] = knownAfter(a)]
    /\ ticker' = [ticker EXCEPT ![a] = TickLaterIf(inBuf[a] # <<>>, Fired(@)),
                                ![Conn] = TickNowIf(Freed(a), @)]
    /\ UNCHANGED <<endBuf, endBusy, connVars, memVars, readLeft, writeLeft>>

(* Tick, Send refused: the agent's end of the connection is full. *)
AgentTickSendFails(a) ==
    /\ MayRunPrimary
    /\ 0 \in ticker[a].due
    /\ \E req \in NewReqs(a) : ~isAddressInPendingReq(pendingAfter(a), req.addr)
    /\ Len(endBuf[a]) >= EndCap
    /\ Retrieve(a)
    /\ pending' = [pending EXCEPT ![a] = pendingAfter(a)]
    /\ known' = [known EXCEPT ![a] = knownAfter(a)]
    /\ endBusy' = [endBusy EXCEPT ![a] = TRUE]
    /\ ticker' = [ticker EXCEPT ![a] = TickLaterIf(inBuf[a] # <<>>, Fired(@)),
                                ![Conn] = TickNowIf(Freed(a), @)]
    /\ UNCHANGED <<endBuf, connVars, memVars, readLeft, writeLeft>>

(* Tick with a successful Send. *)
AgentTickSends(a) ==
    /\ MayRunPrimary
    /\ 0 \in ticker[a].due
    /\ Len(endBuf[a]) < EndCap
    /\ \E req \in NewReqs(a) :
        /\ ~isAddressInPendingReq(pendingAfter(a), req.addr)
        /\ endBuf' = [endBuf EXCEPT ![a] = Append(@, req)]
        /\ pending' = [pending EXCEPT ![a] = pendingAfter(a) \cup {req}]
        /\ known' = [known EXCEPT ![a] =
                        IF req.op = "write"
                        THEN [knownAfter(a) EXCEPT ![req.addr] = Append(@, req.val)]
                        ELSE knownAfter(a)]
        /\ readLeft' = [readLeft EXCEPT ![a] = IF req.op = "read" THEN @ - 1 ELSE @]
        /\ writeLeft' = [writeLeft EXCEPT ![a] = IF req.op = "write" THEN @ - 1 ELSE @]
    /\ Retrieve(a)
    /\ ticker' = [ticker EXCEPT ![a] = TickLater(Fired(@)), ![Conn] = TickNow(@)]
    /\ UNCHANGED <<endBusy, connVars, memVars>>

-----------------------------------------------------------------------------
(* The ideal memory controller. *)

MemTick ==
    /\ MayRunPrimary
    /\ 0 \in ticker[Mem].due
    /\ IF numTrans >= MaxTrans \/ inBuf[Mem] = <<>>
       THEN /\ ticker' = [ticker EXCEPT ![Mem] = Fired(@)]
            /\ UNCHANGED <<inBuf, portBusy, respond, numTrans>>
       ELSE /\ Retrieve(Mem)
            /\ numTrans' = numTrans + 1
            /\ respond' = Append(respond, [msg |-> Head(inBuf[Mem]), time |-> Latency])
            /\ ticker' = [ticker EXCEPT ![Mem] = TickLater(Fired(@)),
                                        ![Conn] = TickNowIf(Freed(Mem), @)]
    /\ UNCHANGED <<endBuf, endBusy, connVars, storage, agentVars>>

ResponseWithoutData(req) == req  \* faulty

(* The response: a read carries the data the storage holds now. *)
Response(req) ==
    IF req.op = "read" THEN [req EXCEPT !.val = storage[req.agent][req.addr]] ELSE req

(* Faulty: the controller is not ticked, although it has room again. *)
RespondSilently(i) ==
    /\ MayRunPrimary
    /\ respond[i].time = 0
    /\ Len(endBuf[Mem]) < EndCap
    /\ LET req == respond[i].msg
       IN  /\ endBuf' = [endBuf EXCEPT ![Mem] = Append(@, Response(req))]
           /\ storage' = IF req.op = "write"
                         THEN [storage EXCEPT ![req.agent][req.addr] = req.val]
                         ELSE storage
    /\ respond' = RemoveAt(respond, i)
    /\ numTrans' = numTrans - 1
    /\ ticker' = [ticker EXCEPT ![Conn] = TickNow(@)]
    /\ UNCHANGED <<inBuf, portBusy, endBusy, connVars, agentVars>>

(* handleReadRespondEvent and handleWriteRespondEvent: the i-th event. *)
HandleRespond(i) ==
    /\ MayRunPrimary
    /\ respond[i].time = 0
    /\ Len(endBuf[Mem]) < EndCap
    /\ LET req == respond[i].msg
       IN  /\ endBuf' = [endBuf EXCEPT ![Mem] = Append(@, Response(req))]
           /\ storage' = IF req.op = "write"
                         THEN [storage EXCEPT ![req.agent][req.addr] = req.val]
                         ELSE storage
    /\ respond' = RemoveAt(respond, i)
    /\ numTrans' = numTrans - 1
    /\ ticker' = [ticker EXCEPT ![Mem] = TickLater(@), ![Conn] = TickNow(@)]
    /\ UNCHANGED <<inBuf, portBusy, endBusy, connVars, agentVars>>

(* The same handlers when the Send is refused: try again in the next cycle. *)
RetryRespond(i) ==
    /\ MayRunPrimary
    /\ respond[i].time = 0
    /\ Len(endBuf[Mem]) >= EndCap
    /\ endBusy' = [endBusy EXCEPT ![Mem] = TRUE]
    /\ respond' = [respond EXCEPT ![i].time = 1]
    /\ UNCHANGED <<ticker, inBuf, portBusy, endBuf, connVars, numTrans, storage, agentVars>>

RespondOrRetry(i) ==
    IF Len(endBuf[Mem]) < EndCap THEN HandleRespond(i) ELSE RetryRespond(i)

-----------------------------------------------------------------------------
(* The direct connection. *)

DstFirstAgent(p, m) == IF p = Mem THEN 0 ELSE Mem  \* faulty: not the sender

Dst(p, m) == IF p = Mem THEN m.agent ELSE Mem

(* The end the Tick under way works on: nextPortID + visited, wrapped. *)
CurrentEnd ==
    IF nextPortID + visited <= N THEN nextPortID + visited
    ELSE nextPortID + visited - (N + 1)

NextPortUnwrapped == nextPortID + 1  \* faulty: never wraps around

NextPort == IF nextPortID = N THEN 0 ELSE nextPortID + 1

ConnTick ==
    /\ MayRunSecondary
    /\ 0 \in ticker[Conn].due
    /\ ticker' = [ticker EXCEPT ![Conn] = Fired(@)]
    /\ running' = TRUE
    /\ visited' = 0
    /\ progress' = FALSE
    /\ UNCHANGED <<inBuf, portBusy, endBuf, endBusy, nextPortID, memVars, agentVars>>

(* One successful iteration of forwardMany: Recv at the destination, which *)
(* is told (NotifyRecv), and so is a sender that found the end full.       *)
Forward ==
    LET p == CurrentEnd
        d == Dst(p, Head(endBuf[p]))
    IN  /\ running
        /\ endBuf[p] # <<>>
        /\ Len(inBuf[d]) < PortCap
        /\ inBuf' = [inBuf EXCEPT ![d] = Append(@, Head(endBuf[p]))]
        /\ endBuf' = [endBuf EXCEPT ![p] = Tail(@)]
        /\ endBusy' = [endBusy EXCEPT ![p] = FALSE]
        /\ ticker' = [ticker EXCEPT ![d] = TickLater(@),
                                    ![p] = TickLaterIf(endBusy[p], @)]
        /\ progress' = TRUE
        /\ UNCHANGED <<portBusy, nextPortID, running, visited, memVars, agentVars>>

(* forwardMany leaves its loop: the end is empty, or the destination's port *)
(* is full and remembers that it refused a message. After the last end the  *)
(* Tick returns, and progress makes it tick again.                          *)
LeaveEnd ==
    LET p == CurrentEnd
        d == Dst(p, Head(endBuf[p]))
    IN  /\ running
        /\ \/ endBuf[p] = <<>> /\ UNCHANGED portBusy
           \/ /\ endBuf[p] # <<>>
              /\ Len(inBuf[d]) >= PortCap
              /\ portBusy' = [portBusy EXCEPT ![d] = TRUE]
        /\ IF visited < N
           THEN /\ visited' = visited + 1
                /\ UNCHANGED <<ticker, nextPortID, running, progress>>
           ELSE /\ visited' = 0
                /\ running' = FALSE
                /\ progress' = FALSE
                /\ nextPortID' = NextPort
                /\ ticker' = [ticker EXCEPT ![Conn] = TickLaterIf(progress, @)]
        /\ UNCHANGED <<inBuf, endBuf, endBusy, memVars, agentVars>>

-----------------------------------------------------------------------------
Next ==
    \/ AdvanceTime
    \/ \E a \in Agent : AgentTickNoSend(a) \/ AgentTickSendFails(a) \/ AgentTickSends(a)
    \/ MemTick
    \/ \E i \in 1..Len(respond) : RespondOrRetry(i)
    \/ ConnTick
    \/ Forward
    \/ LeaveEnd

(* Run executes events for as long as there are any. *)
Spec == Init /\ [][Next]_vars /\ WF_vars(Next)

-----------------------------------------------------------------------------
(* Properties. *)

(* The check at the end of the acceptance test: when the engine has run out *)
(* of events, every request was sent and answered ("Not all req returned",  *)
(* "more requests to send"): no component sleeps with work left to do.      *)
QuiescentMeansServed ==
    noMoreEvent => \A a \in Agent : NothingLeft(a) /\ pending[a] = {}

(* A message in an agent's port buffer has a tick of the agent to take it. *)
AgentAwake == \A a \in Agent : inBuf[a] # <<>> => ticker[a].due # {}

(* A message in the memory controller's port buffer has a tick to take it, *)
(* or the controller is at MaxNumTransaction and a response will tick it.  *)
MemAwake == inBuf[Mem] # <<>> => ticker[Mem].due # {} \/ numTrans >= MaxTrans

(* The position of end p in the Tick under way. *)
Offset(p) == IF p >= nextPortID THEN p - nextPortID ELSE p + (N + 1) - nextPortID

StillToVisit(p) == running /\ Offset(p) >= visited

(* A message in an end of the connection will be moved by a tick of the    *)
(* connection, or sits behind a full port that will report its next        *)
(* Retrieve.                                                               *)
EndServed ==
    \A p \in Port : endBuf[p] # <<>> =>
        \/ StillToVisit(p)
        \/ ticker[Conn].due # {}
        \/ LET d == Dst(p, Head(endBuf[p]))
           IN portBusy[d] /\ Len(inBuf[d]) >= PortCap

(* An agent that sleeps with accesses left waits for a response, or was    *)
(* refused by its full end, which will tell it when it has room again.     *)
AgentServed ==
    \A a \in Agent : ~NothingLeft(a) /\ ticker[a].due = {} =>
        pending[a] # {} \/ (endBusy[a] /\ endBuf[a] # <<>>)

(* No lost wake-up: whoever has something to do has an event in the queue  *)
(* or is registered with the one who will create it.                       *)
NoLostWakeup == AgentAwake /\ MemAwake /\ EndServed /\ AgentServed

Carries(s, a, id) == \E i \in 1..Len(s) : s[i].agent = a /\ s[i].id = id

(* A request an agent waits for is never lost: it, or the response to it,  *)
(* is in a buffer on the way or in an event of the memory controller.      *)
Conserved ==
    \A a \in Agent : \A r \in pending[a] :
        \/ Carries(endBuf[a], a, r.id)
        \/ Carries(inBuf[Mem], a, r.id)
        \/ \E i \in 1..Len(respond) : respond[i].msg.agent = a /\ respond[i].msg.id = r.id
        \/ Carries(endBuf[Mem], a, r.id)
        \/ Carries(inBuf[a], a, r.id)

(* What the wake-up argument rests on: a TickScheduler's nextTickTime      *)
(* matches its events in the queue, once the connection has run in a cycle *)
(* no component runs in that cycle any more, the two busy flags are only   *)
(* set while the buffer is full, and transactions are counted exactly.     *)
SchedulerOK ==
    \A h \in Handler : /\ (ticker[h].next = 1) <=> (1 \in ticker[h].due)
                       /\ (0 \in ticker[h].due) => ticker[h].next >= 0

ConnectionRanLast ==
    (running \/ (ticker[Conn].next = 0 /\ 0 \notin ticker[Conn].due)) => ~PrimaryDueNow

BusyMeansFull ==
    \A p \in Port : /\ portBusy[p] => Len(inBuf[p]) >= PortCap
                    /\ endBusy[p] => Len(endBuf[p]) >= EndCap

TransCounted == numTrans = Len(respond)

IInv ==
    /\ TypeOK
    /\ SchedulerOK
    /\ ConnectionRanLast
    /\ BusyMeansFull
    /\ TransCounted
    /\ AgentAwake
    /\ MemAwake
    /\ EndServed
    /\ AgentServed
    /\ Conserved

(* The agent's own check of the memory: the value of every read response is *)
(* one the agent knows it wrote ("Mismatch when read").                     *)
ReadsMatch ==
    \A a \in Agent : inBuf[a] # <<>> =>
        LET rsp == Head(inBuf[a])
        IN  rsp.op = "read" => IsKnown(known[a][rsp.addr], rsp.val)

(* Every access an agent starts with is eventually sent and answered. *)
EventuallyServed == <>[](\A a \in Agent : NothingLeft(a) /\ pending[a] = {})

==============================================================================
