------------------------- MODULE DriverThreads_proofs -------------------------
(***************************************************************************)
(* Proofs about DriverThreads, for any number of host threads, contexts    *)
(* and programs: goroutines do not meet in the engine, runAsync wakes the  *)
(* driver only while the engine is stopped, a queue has one command under  *)
(* way at a time, and a drain that returns has waited for everything.      *)
(***************************************************************************)
EXTENDS DriverThreads, SequenceTheorems, FiniteSetTheorems, TLAPS

(* runAsync is between Pause and Continue exactly while it has pauseLock,  *)
(* and a goroutine is at an event exactly while it has it.                 *)
PauseLockHeld ==
    /\ async \in {"tick", "continue"} <=> pauseLock = "async"
    /\ \A r \in Runner :
          runner[r] \in {"handle", "return", "notify", "clean", "new", "unlock"} <=> pauseLock = r

(* The mutex of runEngine is held by a goroutine that is in it. *)
EngineMutexHeld ==
    \A r \in Runner : engineMutex = r => runner[r] \notin {"none", "lock"}

(* A host thread is in the call its program says. *)
InCall ==
    \A h \in Host :
        /\ host[h] \in {"scan", "flush", "copy"} => Calls(h, "copy")
        /\ host[h] \in {"signal", "check", "wait"} => Calls(h, "drain")

IInv ==
    /\ TypeOK
    /\ InCall
    /\ OneAtATime
    /\ OneEngine
    /\ EngineMutexHeld
    /\ PauseLockHeld

-----------------------------------------------------------------------------
(* Every step keeps TypeOK: in particular an answer of the GPUs finds the  *)
(* command it is for at the head of its queue.                             *)
LEMMA TypeStep == IInv /\ [Next]_vars => TypeOK'
  <1> SUFFICES ASSUME IInv, [Next]_vars PROVE TypeOK'
    OBVIOUS
  <1> USE ThreadsAssumption DEF IInv, TypeOK
  <1>1. ASSUME NEW h \in Host, HostStep(h) PROVE TypeOK'
    <2> USE DEF HostAt, Called, Calls, Enqueue, HostUnchanged, engineVars, tickVars
    <2>0. /\ program[h] # <<>> => Tail(program[h]) \in Seq(Op)
          /\ Append(commands[h], "kernel") \in Seq(Command)
          /\ Append(commands[h], "flush") \in Seq(Command)
          /\ Append(commands[h], "copy") \in Seq(Command)
      BY HeadTailProperties, AppendProperties DEF Command
    <2>1. CASE EnqueueLaunchKernelCommand(h)
      BY <2>0, <2>1 DEF EnqueueLaunchKernelCommand
    <2>2. CASE ReadL2Dirty(h)
      BY <2>2 DEF ReadL2Dirty
    <2>3. CASE ScanCommands(h)
      BY <2>3 DEF ScanCommands
    <2>4. CASE EnqueueFinalFlush(h)
      BY <2>0, <2>4 DEF EnqueueFinalFlush
    <2>5. CASE EnqueueMemCopyD2H(h)
      BY <2>0, <2>5 DEF EnqueueMemCopyD2H, InCall
    <2>6. CASE Subscribe(h)
      BY <2>6 DEF Subscribe
    <2>7. CASE EnqueueSignal(h)
      BY <2>7 DEF EnqueueSignal
    <2>8. CASE CheckNumCommand(h)
      <3>1. CASE NumCommandIsZero(h)
        <4>1. program[h] # <<>>
          BY <2>8, <3>1 DEF CheckNumCommand, InCall
        <4>2. Tail(program[h]) \in Seq(Op)
          BY <2>0, <4>1
        <4>3. program' = [program EXCEPT ![h] = Tail(program[h])]
          BY <2>8, <3>1 DEF CheckNumCommand
        <4>4. host' = [host EXCEPT ![h] = "next"]
          BY <2>8, <3>1 DEF CheckNumCommand
        <4>5. UNCHANGED <<dirty, commands, async>> /\ HostUnchanged
          BY <2>8 DEF CheckNumCommand
        <4> QED BY <4>2, <4>3, <4>4, <4>5
      <3>2. CASE ~NumCommandIsZero(h)
        BY <2>8, <3>2 DEF CheckNumCommand
      <3> QED BY <3>1, <3>2
    <2> QED BY <1>1, <2>1, <2>2, <2>3, <2>4, <2>5, <2>6, <2>7, <2>8 DEF HostStep
  <1>2. ASSUME AsyncStep PROVE TypeOK'
    BY <1>2 DEF AsyncStep, Pause, TickLater, Continue, StartEngine, Terminate, AsyncAt, Start,
                AsyncUnchanged, hostVars, queueVars, engineVars, tickVars
  <1>3. ASSUME NEW r \in Runner, RunnerStep(r) PROVE TypeOK'
    <2> USE DEF RunnerAt, hostVars, queueVars, engineVars, tickVars
    <2>1. CASE LockEngineMutex(r)
      BY <2>1 DEF LockEngineMutex
    <2>2. CASE NoMoreEvent(r)
      BY <2>2 DEF NoMoreEvent
    <2>3. CASE LockPause(r)
      BY <2>3 DEF LockPause
    <2>4. ASSUME NEW h \in Host, GPUAnswers(r, h) PROVE TypeOK'
      BY <2>4 DEF GPUAnswers
    <2>5. ASSUME NEW h \in Host, Dequeue(r, h) PROVE TypeOK'
      <3>1. commands[h] \in Seq(Command) /\ commands[h] # <<>>
        BY <2>5 DEF Dequeue, OneAtATime
      <3>2. Head(commands[h]) \in Command /\ Tail(commands[h]) \in Seq(Command)
        BY <3>1, HeadTailProperties
      <3> QED BY <2>5, <3>2 DEF Dequeue
    <2>6. CASE HandleTick(r)
      BY <2>6 DEF HandleTick
    <2>7. CASE NothingReturned(r)
      BY <2>7 DEF NothingReturned
    <2>8. CASE NotifyAllSubscribers(r)
      BY <2>8 DEF NotifyAllSubscribers
    <2>9. CASE CleanL2(r)
      BY <2>9 DEF CleanL2
    <2>10. CASE ProcessNewCommand(r)
      BY <2>10 DEF ProcessNewCommand, Startable
    <2>11. CASE UnlockPause(r)
      BY <2>11 DEF UnlockPause
    <2>12. CASE EngineStops(r)
      BY <2>12 DEF EngineStops
    <2>13. CASE UnlockEngineMutex(r)
      BY <2>13 DEF UnlockEngineMutex
    <2> QED BY <1>3, <2>1, <2>2, <2>3, <2>4, <2>5, <2>6, <2>7, <2>8, <2>9, <2>10, <2>11, <2>12,
               <2>13 DEF RunnerStep
  <1>4. CASE UNCHANGED vars
    BY <1>4 DEF vars, hostVars, queueVars, engineVars, tickVars
  <1> QED BY <1>1, <1>2, <1>3, <1>4 DEF Next

(* A thread's steps follow its program. *)
LEMMA InCallStep == IInv /\ [Next]_vars => InCall'
  <1> SUFFICES ASSUME IInv, [Next]_vars PROVE InCall'
    OBVIOUS
  <1> USE DEF IInv, InCall, Calls
  <1>1. ASSUME NEW h \in Host, HostStep(h) PROVE InCall'
    <2>1. /\ host' = [host EXCEPT ![h] = host'[h]]
          /\ program' = [program EXCEPT ![h] = program'[h]]
      BY <1>1 DEF HostStep, EnqueueLaunchKernelCommand, ReadL2Dirty, ScanCommands, EnqueueFinalFlush,
                  EnqueueMemCopyD2H, Subscribe, EnqueueSignal, CheckNumCommand, HostAt, Called, TypeOK
    <2>2. InCall!(h)'
      BY <1>1 DEF HostStep, EnqueueLaunchKernelCommand, ReadL2Dirty, ScanCommands, EnqueueFinalFlush,
                  EnqueueMemCopyD2H, Subscribe, EnqueueSignal, CheckNumCommand, HostAt, Called, TypeOK
    <2> QED BY <2>1, <2>2 DEF TypeOK
  <1>2. ASSUME AsyncStep PROVE InCall'
    BY <1>2 DEF AsyncStep, Pause, TickLater, Continue, StartEngine, Terminate, AsyncUnchanged, hostVars
  <1>3. ASSUME NEW r \in Runner, RunnerStep(r) PROVE InCall'
    <2>1. CASE NotifyAllSubscribers(r)
      BY <2>1 DEF NotifyAllSubscribers, TypeOK
    <2>2. CASE ~NotifyAllSubscribers(r)
      BY <1>3, <2>2 DEF RunnerStep, LockEngineMutex, NoMoreEvent, LockPause, GPUAnswers, Dequeue,
         HandleTick, NothingReturned, CleanL2, ProcessNewCommand, UnlockPause, EngineStops,
         UnlockEngineMutex, hostVars
    <2> QED BY <2>1, <2>2
  <1>4. CASE UNCHANGED vars
    BY <1>4 DEF vars, hostVars
  <1> QED BY <1>1, <1>2, <1>3, <1>4 DEF Next

(* Goroutines are started and let into the engine one at a time. *)
LEMMA OneEngineStep == IInv /\ [Next]_vars => OneEngine' /\ EngineMutexHeld'
  <1> SUFFICES ASSUME IInv, [Next]_vars PROVE OneEngine' /\ EngineMutexHeld'
    OBVIOUS
  <1> USE ThreadsAssumption DEF IInv, OneEngine, EngineMutexHeld, TypeOK
  <1>1. ASSUME NEW h \in Host, HostStep(h) PROVE UNCHANGED <<runner, engineVars>>
    BY <1>1 DEF HostStep, EnqueueLaunchKernelCommand, ReadL2Dirty, ScanCommands, EnqueueFinalFlush,
                EnqueueMemCopyD2H, Subscribe, EnqueueSignal, CheckNumCommand, HostUnchanged
  <1>2. CASE AsyncStep
    <2> USE DEF AsyncUnchanged, engineVars
    <2>1. CASE StartEngine
      BY <2>1 DEF StartEngine, Start
    <2>2. CASE TickLater
      BY <2>2 DEF TickLater
    <2>3. CASE Pause \/ Continue \/ Terminate
      BY <2>3 DEF Pause, Continue, Terminate
    <2> QED BY <1>2, <2>1, <2>2, <2>3 DEF AsyncStep
  <1>3. ASSUME NEW r \in Runner, RunnerStep(r) PROVE OneEngine' /\ EngineMutexHeld'
    <2> USE DEF RunnerAt, engineVars
    <2>1. CASE LockEngineMutex(r)
      BY <2>1 DEF LockEngineMutex
    <2>2. CASE NoMoreEvent(r)
      BY <2>2 DEF NoMoreEvent
    <2>3. CASE LockPause(r)
      BY <2>3 DEF LockPause
    <2>4. ASSUME NEW h \in Host, GPUAnswers(r, h) PROVE OneEngine' /\ EngineMutexHeld'
      BY <2>4 DEF GPUAnswers
    <2>5. ASSUME NEW h \in Host, Dequeue(r, h) PROVE OneEngine' /\ EngineMutexHeld'
      BY <2>5 DEF Dequeue
    <2>6. CASE HandleTick(r)
      BY <2>6 DEF HandleTick
    <2>7. CASE NothingReturned(r)
      BY <2>7 DEF NothingReturned
    <2>8. CASE NotifyAllSubscribers(r)
      BY <2>8 DEF NotifyAllSubscribers
    <2>9. CASE CleanL2(r)
      BY <2>9 DEF CleanL2
    <2>10. CASE ProcessNewCommand(r)
      BY <2>10 DEF ProcessNewCommand
    <2>11. CASE UnlockPause(r)
      BY <2>11 DEF UnlockPause
    <2>12. CASE EngineStops(r)
      BY <2>12 DEF EngineStops
    <2>13. CASE UnlockEngineMutex(r)
      BY <2>13 DEF UnlockEngineMutex
    <2> QED BY <1>3, <2>1, <2>2, <2>3, <2>4, <2>5, <2>6, <2>7, <2>8, <2>9, <2>10, <2>11, <2>12,
               <2>13 DEF RunnerStep
  <1>4. CASE UNCHANGED <<runner, engineVars>>
    BY <1>4 DEF engineVars
  <1> QED BY <1>1, <1>2, <1>3, <1>4 DEF Next, vars

(* Enqueue leaves a command in the queue. *)
LEMMA EnqueuedNotEmpty ==
    ASSUME TypeOK, NEW h \in Host, NEW c \in Command
    PROVE  Append(commands[h], c) # <<>>
  <1>1. commands[h] \in Seq(Command)
    BY DEF TypeOK
  <1> QED BY <1>1, AppendProperties

(* A command goes from the queue to the GPUs, to the port and out of the   *)
(* queue, and no step takes a second one in between.                       *)
LEMMA OneAtATimeStep == IInv /\ [Next]_vars => OneAtATime'
  <1> SUFFICES ASSUME IInv, [Next]_vars PROVE OneAtATime'
    OBVIOUS
  <1> USE ThreadsAssumption DEF IInv, OneAtATime, TypeOK
  <1>1. ASSUME NEW h \in Host, HostStep(h) PROVE OneAtATime'
    <2>1. UNCHANGED <<isRunning, events, returned>>
      BY <1>1 DEF HostStep, EnqueueLaunchKernelCommand, ReadL2Dirty, ScanCommands, EnqueueFinalFlush,
                  EnqueueMemCopyD2H, Subscribe, EnqueueSignal, CheckNumCommand, HostUnchanged,
                  engineVars, tickVars
    <2>2. \/ commands' = commands
          \/ \E c \in Command : commands' = [commands EXCEPT ![h] = Append(@, c)]
      BY <1>1 DEF HostStep, EnqueueLaunchKernelCommand, ReadL2Dirty, ScanCommands, EnqueueFinalFlush,
                  EnqueueMemCopyD2H, Subscribe, EnqueueSignal, CheckNumCommand, Enqueue, Command
    <2>3. CASE commands' = commands
      BY <2>1, <2>3
    <2>4. ASSUME NEW c \in Command, commands' = [commands EXCEPT ![h] = Append(@, c)]
          PROVE  OneAtATime'
      <3> DEFINE s == Append(commands[h], c)
      <3>1. s # <<>>
        BY EnqueuedNotEmpty
      <3>2. commands' = [commands EXCEPT ![h] = s]
        BY <2>4
      <3> HIDE DEF s
      <3> QED BY <2>1, <3>1, <3>2
    <2> QED BY <2>2, <2>3, <2>4
  <1>2. ASSUME AsyncStep PROVE OneAtATime'
    BY <1>2 DEF AsyncStep, Pause, TickLater, Continue, StartEngine, Terminate,
                AsyncUnchanged, queueVars, engineVars, tickVars
  <1>3. ASSUME NEW r \in Runner, RunnerStep(r) PROVE OneAtATime'
    <2> USE DEF RunnerAt, hostVars, queueVars, engineVars, tickVars
    <2>1. ASSUME NEW h \in Host, GPUAnswers(r, h) PROVE OneAtATime'
      BY <2>1 DEF GPUAnswers
    <2>2. ASSUME NEW h \in Host, Dequeue(r, h) PROVE OneAtATime'
      BY <2>2 DEF Dequeue
    <2>3. CASE HandleTick(r)
      BY <2>3 DEF HandleTick
    <2>4. CASE ProcessNewCommand(r)
      <3> DEFINE starts == { h \in Host : Startable(h) }
      <3>1. \A h \in starts : commands[h] # <<>> /\ h \notin events \cup returned
        BY DEF Startable
      <3>2. /\ \A h \in Host : isRunning'[h] <=> isRunning[h] \/ h \in starts
            /\ \A h \in Host : h \in events' <=> h \in events \/ h \in starts
            /\ UNCHANGED <<commands, returned>>
        BY <2>4 DEF ProcessNewCommand
      <3> QED BY <3>1, <3>2
    <2>5. CASE \/ LockEngineMutex(r) \/ NoMoreEvent(r) \/ LockPause(r) \/ NothingReturned(r)
               \/ NotifyAllSubscribers(r) \/ CleanL2(r) \/ UnlockPause(r) \/ EngineStops(r)
               \/ UnlockEngineMutex(r)
      BY <2>5 DEF LockEngineMutex, NoMoreEvent, LockPause, NothingReturned, NotifyAllSubscribers,
                  CleanL2, UnlockPause, EngineStops, UnlockEngineMutex
    <2> QED BY <1>3, <2>1, <2>2, <2>3, <2>4, <2>5 DEF RunnerStep
  <1>4. CASE UNCHANGED vars
    BY <1>4 DEF vars, queueVars, engineVars, tickVars
  <1> QED BY <1>1, <1>2, <1>3, <1>4 DEF Next

(* pauseLock is taken and given back by the same goroutine. *)
LEMMA PauseLockStep == IInv /\ [Next]_vars => PauseLockHeld'
  <1> SUFFICES ASSUME IInv, [Next]_vars PROVE PauseLockHeld'
    OBVIOUS
  <1> USE ThreadsAssumption DEF IInv, PauseLockHeld, TypeOK
  <1>1. ASSUME NEW h \in Host, HostStep(h) PROVE PauseLockHeld'
    <2>1. UNCHANGED <<runner, pauseLock>>
      BY <1>1 DEF HostStep, EnqueueLaunchKernelCommand, ReadL2Dirty, ScanCommands, EnqueueFinalFlush,
                  EnqueueMemCopyD2H, Subscribe, EnqueueSignal, CheckNumCommand, HostUnchanged, engineVars
    <2>2. async' = async \/ (async = "select" /\ async' = "pause")
      BY <1>1 DEF HostStep, EnqueueLaunchKernelCommand, ReadL2Dirty, ScanCommands, EnqueueFinalFlush,
                  EnqueueMemCopyD2H, Subscribe, EnqueueSignal, CheckNumCommand
    <2> QED BY <2>1, <2>2
  <1>2. CASE AsyncStep
    <2> USE DEF AsyncAt, AsyncUnchanged, engineVars
    <2>1. CASE Pause
      BY <2>1 DEF Pause
    <2>2. CASE StartEngine
      BY <2>2 DEF StartEngine, Start
    <2>3. CASE TickLater \/ Continue \/ Terminate
      BY <2>3 DEF TickLater, Continue, Terminate
    <2> QED BY <1>2, <2>1, <2>2, <2>3 DEF AsyncStep
  <1>3. ASSUME NEW r \in Runner, RunnerStep(r) PROVE PauseLockHeld'
    <2> USE DEF RunnerAt, engineVars
    <2>1. CASE LockPause(r)
      BY <2>1 DEF LockPause
    <2>2. CASE UnlockPause(r)
      BY <2>2 DEF UnlockPause
    <2>3. CASE NotifyAllSubscribers(r) \/ CleanL2(r) \/ ProcessNewCommand(r)
      BY <2>3 DEF NotifyAllSubscribers, CleanL2, ProcessNewCommand
    <2>4. CASE \E h \in Host : GPUAnswers(r, h) \/ Dequeue(r, h)
      BY <2>4 DEF GPUAnswers, Dequeue
    <2>5. CASE HandleTick(r) \/ NothingReturned(r) \/ NoMoreEvent(r)
      BY <2>5 DEF HandleTick, NothingReturned, NoMoreEvent
    <2>6. CASE LockEngineMutex(r) \/ EngineStops(r) \/ UnlockEngineMutex(r)
      BY <2>6 DEF LockEngineMutex, EngineStops, UnlockEngineMutex
    <2> QED BY <1>3, <2>1, <2>2, <2>3, <2>4, <2>5, <2>6 DEF RunnerStep
  <1>4. CASE UNCHANGED vars
    BY <1>4 DEF vars, engineVars
  <1> QED BY <1>1, <1>2, <1>3, <1>4 DEF Next

-----------------------------------------------------------------------------
(* Theorems. *)

(* The inductive invariant, for any number of threads, queues and contexts *)
(* and any programs.                                                       *)
THEOREM Inductive == Spec => []IInv
  <1>1. Init => IInv
    <2> SUFFICES ASSUME Init PROVE IInv
      OBVIOUS
    <2> USE ThreadsAssumption DEF Init
    <2>1. TypeOK
      <3>1. <<>> \in Seq(Command)
        BY EmptySeq
      <3>2. program \in [Host -> Seq(Op)] /\ commands \in [Host -> Seq(Command)]
        BY <3>1
      <3> QED BY <3>2 DEF TypeOK
    <2>2. InCall /\ OneAtATime
      BY DEF InCall, OneAtATime
    <2>3. OneEngine /\ EngineMutexHeld /\ PauseLockHeld
      BY DEF OneEngine, EngineMutexHeld, PauseLockHeld
    <2> QED BY <2>1, <2>2, <2>3 DEF IInv
  <1>2. IInv /\ [Next]_vars => IInv'
    BY TypeStep, InCallStep, OneEngineStep, OneAtATimeStep, PauseLockStep DEF IInv
  <1> QED BY <1>1, <1>2, PTL DEF Spec

(* Every variable keeps its type; in particular Tick finds a command in    *)
(* the queue whose answer it processes.                                    *)
THEOREM TypeCorrect == Spec => []TypeOK
  <1>1. IInv => TypeOK
    BY DEF IInv
  <1> QED BY <1>1, Inductive, PTL

(* The GPUs have at most one command of a queue, whatever threads enqueue  *)
(* while Tick runs.                                                        *)
THEOREM CommandsInOrder == Spec => []OneAtATime
  <1>1. IInv => OneAtATime
    BY DEF IInv
  <1> QED BY <1>1, Inductive, PTL

(* The goroutines that runAsync starts do not meet in the engine.          *)
THEOREM EngineExclusive == Spec => []OneEngine
  <1>1. IInv => OneEngine
    BY DEF IInv
  <1> QED BY <1>1, Inductive, PTL

(* runAsync schedules the driver's tick only while no event is handled,    *)
(* and a goroutine slot is free whenever it has to start the engine: the   *)
(* two slots of the model are all that the code can use.                   *)
WakesSafely ==
    /\ async \in {"tick", "continue"} =>
          \A r \in Runner : runner[r] \notin {"handle", "return", "notify", "clean", "new", "unlock"}
    /\ ~engineRunning => \E r \in Runner : runner[r] = "none"

(* Pause, of runAsync, excludes the handling of events, and two goroutine  *)
(* slots are enough.                                                       *)
THEOREM WakesSafelyAlways == Spec => []WakesSafely
  <1>1. PICK r, s \in Runner : r # s
    <2>1. IsFiniteSet(Runner) /\ Runner # {}
      BY ThreadsAssumption, FS_EmptySet
    <2>2. PICK r \in Runner : TRUE
      BY <2>1
    <2>3. Runner # {r}
      BY ThreadsAssumption, FS_Singleton
    <2> QED BY <2>2, <2>3
  <1>2. IInv => WakesSafely
    <2> SUFFICES ASSUME IInv PROVE WakesSafely
      OBVIOUS
    <2>1. ~engineRunning => runner[r] \in {"none", "exit"} /\ runner[s] \in {"none", "exit"}
      BY DEF IInv, OneEngine
    <2>2. ~(runner[r] = "exit" /\ runner[s] = "exit")
      BY <1>1 DEF IInv, TypeOK
    <2> QED BY <2>1, <2>2, ThreadsAssumption DEF WakesSafely, IInv, PauseLockHeld
  <1> QED BY <1>2, Inductive, PTL

(* A drain that returns has waited for every command of its queue.         *)
THEOREM DrainsComplete == Spec => DrainedDone
  <1> DEFINE Returns(h) == host[h] = "check" /\ host'[h] = "next"
             Clear(h) == commands[h] = <<>> /\ ~isRunning[h] /\ h \notin events \cup returned
  <1>1. IInv /\ [Next]_vars => \A h \in Host : Returns(h) => Clear(h)
    <2> SUFFICES ASSUME IInv, [Next]_vars, NEW h \in Host, Returns(h) PROVE Clear(h)
      OBVIOUS
    <2>1. CheckNumCommand(h) /\ NumCommandIsZero(h)
      <3>1. ASSUME NEW g \in Host, HostStep(g) PROVE g = h /\ CheckNumCommand(h) /\ NumCommandIsZero(h)
        BY <3>1 DEF HostStep, EnqueueLaunchKernelCommand, ReadL2Dirty, ScanCommands, EnqueueFinalFlush,
                    EnqueueMemCopyD2H, Subscribe, EnqueueSignal, CheckNumCommand, HostAt, IInv, TypeOK
      <3>2. ASSUME AsyncStep PROVE FALSE
        BY <3>2 DEF AsyncStep, Pause, TickLater, Continue, StartEngine, Terminate, AsyncUnchanged, hostVars
      <3>3. ASSUME NEW r \in Runner, RunnerStep(r) PROVE FALSE
        <4>1. CASE NotifyAllSubscribers(r)
          BY <4>1 DEF NotifyAllSubscribers, IInv, TypeOK
        <4>2. CASE ~NotifyAllSubscribers(r)
          BY <3>3, <4>2 DEF RunnerStep, LockEngineMutex, NoMoreEvent, LockPause, GPUAnswers, Dequeue,
             HandleTick, NothingReturned, CleanL2, ProcessNewCommand, UnlockPause, EngineStops,
             UnlockEngineMutex, hostVars
        <4> QED BY <4>1, <4>2
      <3>4. CASE UNCHANGED vars
        BY <3>4 DEF vars, hostVars
      <3> QED BY <3>1, <3>2, <3>3, <3>4 DEF Next
    <2> QED BY <2>1 DEF NumCommandIsZero, IInv, OneAtATime
  <1> QED BY <1>1, Inductive, PTL DEF Spec, DrainedDone
=============================================================================
