---------------------------- MODULE DriverThreads ----------------------------
(***************************************************************************)
(* The goroutines of a simulation (mgpusim/driver/driver.go, api.go,       *)
(* commandqueue.go and akita/serialengine.go). Host threads put commands   *)
(* in their command queues and wait until they are empty; runAsync wakes   *)
(* the driver and starts a goroutine that runs the events of the engine;   *)
(* the driver, in its Tick, takes commands and removes them when the GPUs  *)
(* answer. They share the command queues, the flag l2Dirty of a context,   *)
(* the locks and the channels; an action is what a goroutine does between  *)
(* two points where another one may see or change what it uses.            *)
(*                                                                         *)
(* The GPUs are one event per command, which comes at any time.            *)
(***************************************************************************)
EXTENDS Naturals, Sequences, FiniteSets

CONSTANTS
    Host,     \* host threads, each with a command queue
    Context,  \* the context of every command queue
    Program,  \* what every thread calls: "kernel", "copy", "drain"
    Runner    \* goroutines that run the engine

Op == {"kernel", "copy", "drain"}

(* The second goroutine starts while the first one is about to end. *)
ASSUME ThreadsAssumption ==
    /\ Program \in [Host -> Seq(Op)]
    /\ DOMAIN Context = Host
    /\ IsFiniteSet(Runner) /\ Cardinality(Runner) = 2
    /\ "tick" \notin Host
    /\ {"free", "async"} \cap Runner = {}

VARIABLES
    program,       \* calls a host thread has still to make
    host,          \* point a host thread has reached
    dirty,         \* local variable of enqueueFlushBeforeMemCopy
    commands,      \* commands of a queue
    isRunning,     \* CommandQueue.IsRunning
    l2Dirty,       \* Context.l2Dirty
    async,         \* point runAsync has reached
    runner,        \* point a goroutine of runEngine has reached
    engineRunning,
    engineMutex,
    pauseLock,
    events,        \* of the engine: a tick of the driver, an answer of the GPUs
    returned,      \* queues whose command's answer is in port ToGPUs
    ended,         \* queue and command Tick is removing
    progress,      \* madeProgress of Tick
    unflushed      \* queues whose kernels' results are in the L2 caches only

hostVars   == <<program, host, dirty>>
queueVars  == <<commands, isRunning, l2Dirty>>
engineVars == <<engineRunning, engineMutex, pauseLock, events>>
tickVars   == <<returned, ended, progress>>
vars == <<hostVars, queueVars, async, runner, engineVars, tickVars, unflushed>>

Command == {"kernel", "flush", "copy"}

NoCommand == [queue |-> "nil", command |-> "nil"]

TypeOK ==
    /\ program \in [Host -> Seq(Op)]
    /\ host \in [Host -> {"next", "scan", "flush", "copy", "signal", "check", "wait"}]
    /\ dirty \in [Host -> BOOLEAN]
    /\ commands \in [Host -> Seq(Command)]
    /\ isRunning \in [Host -> BOOLEAN]
    /\ l2Dirty \in [{ Context[h] : h \in Host } -> BOOLEAN]
    /\ async \in {"select", "pause", "tick", "continue", "start", "stopped"}
    /\ runner \in [Runner -> {"none", "lock", "check", "pause", "handle", "return", "notify",
                               "clean", "new", "unlock", "leave", "exit"}]
    /\ engineRunning \in BOOLEAN
    /\ engineMutex \in Runner \cup {"free"}
    /\ \A r \in Runner : runner[r] \in {"none", "lock"} \/ engineMutex = r
    /\ pauseLock \in Runner \cup {"free", "async"}
    /\ events \subseteq {"tick"} \cup Host
    /\ returned \subseteq Host
    /\ ended \in [queue : Host, command : Command] \cup {NoCommand}
    /\ progress \in BOOLEAN
    /\ unflushed \subseteq Host

Init ==
    /\ program = Program
    /\ host = [h \in Host |-> "next"]
    /\ dirty = [h \in Host |-> FALSE]
    /\ commands = [h \in Host |-> <<>>]
    /\ isRunning = [h \in Host |-> FALSE]
    /\ l2Dirty = [c \in { Context[h] : h \in Host } |-> FALSE]
    /\ async = "select"
    /\ runner = [r \in Runner |-> "none"]
    /\ engineRunning = FALSE
    /\ engineMutex = "free"
    /\ pauseLock = "free"
    /\ events = {}
    /\ returned = {}
    /\ ended = NoCommand
    /\ progress = FALSE
    /\ unflushed = {}

-----------------------------------------------------------------------------
(* Host threads. *)

HostAt(h, here, there) == host[h] = here /\ host' = [host EXCEPT ![h] = there]

Calls(h, op) ==
    /\ program[h] # <<>>
    /\ Head(program[h]) = op

Called(h) == program' = [program EXCEPT ![h] = Tail(@)]

(* CommandQueue.Enqueue; the only listener of a queue is the thread that   *)
(* uses it, and it does not listen now.                                    *)
Enqueue(h, command) == commands' = [commands EXCEPT ![h] = Append(@, command)]

HostUnchanged ==
    UNCHANGED <<isRunning, l2Dirty, runner, engineVars, tickVars, unflushed>>

(* The copies that EnqueueLaunchKernel puts before the kernel are calls of *)
(* their own in Program.                                                   *)
EnqueueLaunchKernelCommand(h) ==
    /\ Calls(h, "kernel")
    /\ host[h] = "next"
    /\ Enqueue(h, "kernel")
    /\ Called(h)
    /\ UNCHANGED <<host, dirty, async>> /\ HostUnchanged

(* EnqueueMemCopyD2H, like EnqueueMemCopyH2D, calls                        *)
(* enqueueFlushBeforeMemCopy, which reads l2Dirty before it locks the      *)
(* queue.                                                                  *)
ReadL2Dirty(h) ==
    /\ Calls(h, "copy")
    /\ HostAt(h, "next", "scan")
    /\ dirty' = [dirty EXCEPT ![h] = l2Dirty[Context[h]]]
    /\ UNCHANGED <<program, commands, async>> /\ HostUnchanged

(* The last kernel or flush of the queue decides. *)
ScanCommands(h) ==
    /\ LET marks == { i \in DOMAIN commands[h] : commands[h][i] \in {"kernel", "flush"} }
           last == CHOOSE i \in marks : \A j \in marks : j <= i
           d == IF marks = {} THEN dirty[h] ELSE commands[h][last] = "kernel"
       IN  /\ dirty' = [dirty EXCEPT ![h] = d]
           /\ HostAt(h, "scan", IF d THEN "flush" ELSE "copy")
    /\ UNCHANGED <<program, commands, async>> /\ HostUnchanged

EnqueueFinalFlush(h) ==
    /\ HostAt(h, "flush", "copy")
    /\ Enqueue(h, "flush")
    /\ UNCHANGED <<program, dirty, async>> /\ HostUnchanged

EnqueueMemCopyD2H(h) ==
    /\ HostAt(h, "copy", "next")
    /\ Enqueue(h, "copy")
    /\ Called(h)
    /\ UNCHANGED <<dirty, async>> /\ HostUnchanged

(* DrainCommandQueue: listens, and then tells runAsync, on a channel       *)
(* without a buffer.                                                       *)
Subscribe(h) ==
    /\ Calls(h, "drain")
    /\ HostAt(h, "next", "signal")
    /\ UNCHANGED <<program, dirty, commands, async>> /\ HostUnchanged

EnqueueSignal(h) ==
    /\ HostAt(h, "signal", "check")
    /\ async = "select"
    /\ async' = "pause"
    /\ UNCHANGED <<program, dirty, commands>> /\ HostUnchanged

(* Faulty: takes an idle queue for an empty one. *)
NothingRuns(h) == ~isRunning[h]

NumCommandIsZero(h) == commands[h] = <<>>

(* It returns when the queue is empty, and else waits for a notification.  *)
CheckNumCommand(h) ==
    /\ IF NumCommandIsZero(h)
       THEN HostAt(h, "check", "next") /\ Called(h)
       ELSE HostAt(h, "check", "wait") /\ UNCHANGED program
    /\ UNCHANGED <<dirty, commands, async>> /\ HostUnchanged

HostStep(h) ==
    \/ EnqueueLaunchKernelCommand(h)
    \/ ReadL2Dirty(h)
    \/ ScanCommands(h)
    \/ EnqueueFinalFlush(h)
    \/ EnqueueMemCopyD2H(h)
    \/ Subscribe(h)
    \/ EnqueueSignal(h)
    \/ CheckNumCommand(h)

-----------------------------------------------------------------------------
(* runAsync. *)

AsyncAt(here, there) == async = here /\ async' = there

AsyncUnchanged == UNCHANGED <<hostVars, queueVars, tickVars, unflushed>>

Pause ==
    /\ AsyncAt("pause", "tick")
    /\ pauseLock = "free"
    /\ pauseLock' = "async"
    /\ UNCHANGED <<runner, engineRunning, engineMutex, events>> /\ AsyncUnchanged

TickLater ==
    /\ AsyncAt("tick", "continue")
    /\ events' = events \cup {"tick"}
    /\ UNCHANGED <<runner, engineRunning, engineMutex, pauseLock>> /\ AsyncUnchanged

(* Faulty: the engine stays paused. *)
ContinueForgotten ==
    /\ AsyncAt("continue", "start")
    /\ UNCHANGED <<runner, engineVars>> /\ AsyncUnchanged

Continue ==
    /\ AsyncAt("continue", "start")
    /\ pauseLock' = "free"
    /\ UNCHANGED <<runner, engineRunning, engineMutex, events>> /\ AsyncUnchanged

Start(r) ==
    /\ runner[r] = "none"
    /\ runner' = [runner EXCEPT ![r] = "lock"]

(* Faulty: starts a goroutine for every signal. *)
StartEngineAlways ==
    /\ AsyncAt("start", "select")
    /\ engineRunning' = TRUE
    /\ \E r \in Runner : Start(r)
    /\ UNCHANGED <<engineMutex, pauseLock, events>> /\ AsyncUnchanged

(* Both under engineRunningMutex. *)
StartEngine ==
    /\ AsyncAt("start", "select")
    /\ IF engineRunning
       THEN UNCHANGED <<engineRunning, runner>>
       ELSE engineRunning' = TRUE /\ \E r \in Runner : Start(r)
    /\ UNCHANGED <<engineMutex, pauseLock, events>> /\ AsyncUnchanged

(* Terminate, called when every host thread has ended. *)
Terminate ==
    /\ \A h \in Host : host[h] = "next" /\ program[h] = <<>>
    /\ AsyncAt("select", "stopped")
    /\ UNCHANGED <<runner, engineVars>> /\ AsyncUnchanged

AsyncStep == Pause \/ TickLater \/ Continue \/ StartEngine \/ Terminate

-----------------------------------------------------------------------------
(* runEngine and SerialEngine.Run. *)

RunnerAt(r, here, there) == runner[r] = here /\ runner' = [runner EXCEPT ![r] = there]

(* Faulty: engineRunning alone keeps the goroutines apart. *)
NoEngineMutex(r) ==
    /\ RunnerAt(r, "lock", "check")
    /\ engineMutex' = r
    /\ UNCHANGED <<hostVars, queueVars, async, engineRunning, pauseLock, events, tickVars, unflushed>>

LockEngineMutex(r) ==
    /\ RunnerAt(r, "lock", "check")
    /\ engineMutex = "free"
    /\ engineMutex' = r
    /\ UNCHANGED <<hostVars, queueVars, async, engineRunning, pauseLock, events, tickVars, unflushed>>

(* noMoreEvent is not under pauseLock. *)
NoMoreEvent(r) ==
    /\ RunnerAt(r, "check", IF events = {} THEN "leave" ELSE "pause")
    /\ UNCHANGED <<hostVars, queueVars, async, engineVars, tickVars, unflushed>>

LockPause(r) ==
    /\ RunnerAt(r, "pause", "handle")
    /\ pauseLock = "free"
    /\ pauseLock' = r
    /\ UNCHANGED <<hostVars, queueVars, async, engineRunning, engineMutex, events, tickVars, unflushed>>

(* The GPUs have done a command; the answer wakes the driver. *)
GPUAnswers(r, h) ==
    /\ RunnerAt(r, "handle", "unlock")
    /\ h \in events
    /\ events' = (events \ {h}) \cup {"tick"}
    /\ returned' = returned \cup {h}
    /\ unflushed' = CASE Head(commands[h]) = "kernel" -> unflushed \cup {h}
                      [] Head(commands[h]) = "flush" -> {}
                      [] OTHER -> unflushed
    /\ UNCHANGED <<hostVars, queueVars, async, engineRunning, engineMutex, pauseLock, ended, progress>>

HandleTick(r) ==
    /\ RunnerAt(r, "handle", "return")
    /\ "tick" \in events
    /\ events' = events \ {"tick"}
    /\ progress' = FALSE
    /\ UNCHANGED <<hostVars, queueVars, async, engineRunning, engineMutex, pauseLock,
                   returned, ended, unflushed>>

(* processReturnReq: the command leaves its queue. *)
Dequeue(r, h) ==
    /\ RunnerAt(r, "return", "notify")
    /\ h \in returned
    /\ returned' = returned \ {h}
    /\ isRunning' = [isRunning EXCEPT ![h] = FALSE]
    /\ commands' = [commands EXCEPT ![h] = Tail(@)]
    /\ ended' = [queue |-> h, command |-> Head(commands[h])]
    /\ progress' = TRUE
    /\ UNCHANGED <<hostVars, l2Dirty, async, engineVars, unflushed>>

NothingReturned(r) ==
    /\ RunnerAt(r, "return", "new")
    /\ returned = {}
    /\ UNCHANGED <<hostVars, queueVars, async, engineVars, tickVars, unflushed>>

(* Notify does not wait: it wakes a listener that waits already. *)
NotifyAllSubscribers(r) ==
    /\ RunnerAt(r, "notify", IF ended.command = "flush" THEN "clean" ELSE "new")
    /\ host' = [host EXCEPT ![ended.queue] = IF @ = "wait" THEN "check" ELSE @]
    /\ ended' = IF ended.command = "flush" THEN ended ELSE NoCommand
    /\ UNCHANGED <<program, dirty, queueVars, async, engineVars, returned, progress, unflushed>>

(* The end of processFlushReturn. *)
CleanL2(r) ==
    /\ RunnerAt(r, "clean", "new")
    /\ l2Dirty' = [l2Dirty EXCEPT ![Context[ended.queue]] = FALSE]
    /\ ended' = NoCommand
    /\ UNCHANGED <<hostVars, commands, isRunning, async, engineVars, returned, progress, unflushed>>

(* Faulty: does not look at IsRunning. *)
HasCommand(h) == commands[h] # <<>>

Startable(h) == commands[h] # <<>> /\ ~isRunning[h]

(* processNewCommand goes through all queues; Handle then ticks again if   *)
(* anything happened.                                                      *)
ProcessNewCommand(r) ==
    LET starts == { h \in Host : Startable(h) }
    IN  /\ RunnerAt(r, "new", "unlock")
        /\ isRunning' = [h \in Host |-> isRunning[h] \/ h \in starts]
        /\ l2Dirty' = [c \in DOMAIN l2Dirty |->
                \/ l2Dirty[c]
                \/ \E h \in starts : Context[h] = c /\ Head(commands[h]) = "kernel"]
        /\ events' = events \cup starts \cup (IF progress \/ starts # {} THEN {"tick"} ELSE {})
        /\ UNCHANGED <<hostVars, commands, async, engineRunning, engineMutex, pauseLock,
                       tickVars, unflushed>>

UnlockPause(r) ==
    /\ RunnerAt(r, "unlock", "check")
    /\ pauseLock' = "free"
    /\ UNCHANGED <<hostVars, queueVars, async, engineRunning, engineMutex, events, tickVars, unflushed>>

(* Run has returned. *)
EngineStops(r) ==
    /\ RunnerAt(r, "leave", "exit")
    /\ engineRunning' = FALSE
    /\ UNCHANGED <<hostVars, queueVars, async, engineMutex, pauseLock, events, tickVars, unflushed>>

UnlockEngineMutex(r) ==
    /\ RunnerAt(r, "exit", "none")
    /\ engineMutex' = "free"
    /\ UNCHANGED <<hostVars, queueVars, async, engineRunning, pauseLock, events, tickVars, unflushed>>

RunnerStep(r) ==
    \/ LockEngineMutex(r)
    \/ NoMoreEvent(r)
    \/ LockPause(r)
    \/ \E h \in Host : GPUAnswers(r, h) \/ Dequeue(r, h)
    \/ HandleTick(r)
    \/ NothingReturned(r)
    \/ NotifyAllSubscribers(r)
    \/ CleanL2(r)
    \/ ProcessNewCommand(r)
    \/ UnlockPause(r)
    \/ EngineStops(r)
    \/ UnlockEngineMutex(r)

-----------------------------------------------------------------------------

Next ==
    \/ \E h \in Host : HostStep(h)
    \/ AsyncStep
    \/ \E r \in Runner : RunnerStep(r)

(* Every goroutine that can go on does. Programs are finite, and so are    *)
(* the times a lock or the channel is taken: no stronger fairness of theirs *)
(* is needed.                                                              *)
Fairness ==
    /\ \A h \in Host : WF_vars(HostStep(h))
    /\ WF_vars(AsyncStep)
    /\ \A r \in Runner : WF_vars(RunnerStep(r))

Spec == Init /\ [][Next]_vars /\ Fairness

-----------------------------------------------------------------------------
(* Properties. *)

(* A drain that returns has waited for everything: no command its thread   *)
(* enqueued is still in the queue, on the GPUs or on the way back, unless  *)
(* the thread enqueued it after the drain.                                 *)
DrainedDone ==
    [][\A h \in Host :
        host[h] = "check" /\ host'[h] = "next"
            => commands[h] = <<>> /\ ~isRunning[h] /\ h \notin events \cup returned]_vars

(* The GPUs have at most one command of a queue, the first of it, from the *)
(* time Tick starts it to the time Tick removes it.                        *)
OneAtATime ==
    \A h \in Host :
        /\ isRunning[h] => commands[h] # <<>>
        /\ isRunning[h] <=> h \in events \cup returned
        /\ ~(h \in events /\ h \in returned)

(* One goroutine runs the engine, beside at most one that has left Run     *)
(* and only has its mutex to unlock, and engineRunning tells so: an event  *)
(* is never taken from an empty queue.                                     *)
OneEngine ==
    /\ \A r, s \in Runner : r # s => {runner[r], runner[s]} \cap {"none", "exit"} # {}
    /\ engineRunning <=> \E r \in Runner : runner[r] \notin {"none", "exit"}
    /\ \A r \in Runner : runner[r] \in {"pause", "handle"} => events # {}

(* A thread that signals is heard, and runAsync, which must stop the       *)
(* engine to wake the driver, always comes back to hear the next one.      *)
SignalTaken ==
    /\ \A h \in Host : host[h] = "signal" ~> host[h] # "signal"
    /\ async = "pause" ~> async = "select"

(* "DrainCommandQueue will return when there is no command to execute"     *)
(* (api.go:119).                                                           *)
DrainReturns == \A h \in Host : host[h] \in {"signal", "check", "wait"} ~> host[h] = "next"

(* "MemCopyD2H copies a memory from a GPU device to the host" (api.go:295): *)
(* a copy that runs finds the results of the kernels before it on its      *)
(* queue in memory.                                                        *)
CopyFresh ==
    \A h \in Host : h \in events /\ Head(commands[h]) = "copy" => h \notin unflushed
=============================================================================
