----------------------------- MODULE AkitaTicker -----------------------------
(***************************************************************************)
(* The tick scheduling protocol of the Akita engine (akita/ticker.go): a   *)
(* ticking component keeps the time of the latest tick it asked for and    *)
(* the engine keeps the tick events that have not run yet.                 *)
(*                                                                         *)
(* Times are relative to the engine's current time and counted in cycles:  *)
(* 0 is "now", 1 is the next cycle and Past stands for every earlier time  *)
(* and for the initial value -1 of nextTickTime.                           *)
(***************************************************************************)
EXTENDS Integers

Past == -1

(* One TickScheduler: nextTickTime and the tick events scheduled for it *)
(* that are still in one of the engine's queues.                        *)
Ticker == [next : {Past, 0, 1}, due : SUBSET {0, 1}]

(* NewTickScheduler: nothing was ever scheduled. *)
NewTicker == [next |-> Past, due |-> {}]

(* The guard of TickNow and TickLater: schedule only a tick that is later *)
(* than the latest one asked for.                                         *)
ScheduleTick(t, time) ==
    IF t.next >= time THEN t
    ELSE [next |-> time, due |-> t.due \cup {time}]

TickNow(t) == ScheduleTick(t, 0)

TickLater(t) == ScheduleTick(t, 1)

TickLaterIf(c, t) == IF c THEN TickLater(t) ELSE t

TickNowIf(c, t) == IF c THEN TickNow(t) ELSE t

(* The engine pops the tick event of the current time. *)
Fired(t) == [t EXCEPT !.due = @ \ {0}]

(* The engine's time advances by d cycles; no event earlier than d is left. *)
Elapse(t, d) ==
    [next |-> IF t.next >= d THEN t.next - d ELSE Past,
     due  |-> { e - d : e \in t.due }]
==============================================================================
