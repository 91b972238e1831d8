----------------------------- MODULE EngineTimers -----------------------------
(***************************************************************************)
(* The timers of the engine: startTimer(), startTicker(), setTimeout(),    *)
(* setInterval() and their stops (wbrules/engine.go, wbrules/esengine.go). *)
(*                                                                         *)
(* Every started timer has a goroutine that waits for ticks and queues an  *)
(* entryFunc for each one; the sync loop runs entryFuncs and scripts; the  *)
(* main loop stops all timers in handleStop.  entry.stop() closes the      *)
(* timer's quit channel and waits for quitted, with the entry locked.      *)
(*                                                                         *)
(* One step is one critical section or one channel operation.  Time is     *)
(* left out: a timer that was started may tick at any moment.  A script is *)
(* a sequence of starts and stops of timers; the rules that RunRules looks *)
(* at for a named timer are scripts like the callback of an unnamed one.   *)
(* A panic ends the process.                                               *)
(***************************************************************************)
EXTENDS Integers, Sequences, FiniteSets

CONSTANTS
  MaxTimers,  \* bound on the timers ever started
  Names,      \* names of timers
  NoName,     \* NO_TIMER_NAME: the timer has a callback
  Contexts,   \* script contexts, one for every loaded file
  QueueLen,   \* SYNC_QUEUE_LEN
  OtherThunk, \* a thunk in the sync queue that is not an entryFunc
  Nothing     \* no thunk, no timer

Ids == 1 .. MaxTimers

ASSUME TimersAssumption ==
  /\ MaxTimers \in Nat /\ QueueLen \in Nat \ {0}
  /\ NoName \notin Names
  /\ OtherThunk \notin Ids /\ Nothing \notin Ids \cup {OtherThunk}

Entry ==
  [periodic: BOOLEAN, name: Names \cup {NoName}, ctx: Contexts, active: BOOLEAN,
   quit: {"nil", "open", "closed"},
   loop: {"none", "waiting", "pushing", "ended"}]  \* its goroutine; ended: quitted is closed

Sync ==
  [thunk: Ids \cup {OtherThunk, Nothing},          \* what syncLoop runs
   at: {"idle", "active", "script"},               \* active: before fireTimer's lookup
   op: {"none", "found", "removed", "closed"},     \* how far StopTimerBy... has come
   id: Ids \cup {Nothing},                         \* with which timer
   clean: SUBSET Ids,                              \* what runTimerCleanups has still to stop
   name: Names \cup {NoName}]                      \* what esWbStartTimer is about to start

Main ==
  [at: {"loop", "stopping", "released"}, id: Ids \cup {Nothing}, left: SUBSET Ids]

VARIABLES
  entries,    \* the TimerEntry of every id handed out so far
  timers,     \* ids in engine.timers
  ctxTimers,  \* ids in the TimerSet of a context
  ready,      \* timerDeferQueue.Ready has been run
  queue,      \* syncQueue
  sync,       \* the sync loop
  stop,       \* Stop: "idle", "called"; "ended": the sync loop has quit
  main,       \* handleStop in the main loop; "released": syncQueue is closed
  crashed,    \* a goroutine has panicked
  fired,      \* history: timers whose callback has begun
  late        \* history: timers started after handleStop had taken its list

tables == <<timers, ctxTimers>>
history == <<fired, late>>
vars == <<entries, tables, ready, queue, sync, stop, main, crashed, history>>

Created == DOMAIN entries

\* entry.Lock is held for more than one step only by a stop() that waits for quitted.
Locked(n) == (sync.op = "closed" /\ sync.id = n) \/ main.id = n

\* removeTimer with the handler that handleTimerCleanup registered
Remove(n) ==
  /\ timers' = timers \ {n}
  /\ ctxTimers' = IF n \in timers
                  THEN [ctxTimers EXCEPT ![entries[n].ctx] = @ \ {n}] ELSE ctxTimers

-----------------------------------------------------------------------------
(* The goroutine of a timer *)

Tick(n) ==
  /\ ~ crashed /\ n \in Created /\ entries[n].loop = "waiting"
  /\ entries' = [entries EXCEPT ![n].loop = "pushing"]
  /\ UNCHANGED <<tables, ready, queue, sync, stop, main, crashed, history>>

\* Mutant: a tick that finds the queue full is dropped.
PushOrDrop(n) ==
  /\ ~ crashed /\ n \in Created /\ entries[n].loop = "pushing" /\ main.at # "released"
  /\ queue' = IF Len(queue) < QueueLen THEN Append(queue, n) ELSE queue
  /\ entries' = [entries EXCEPT ![n].loop = IF entries[n].periodic THEN "waiting" ELSE "ended"]
  /\ UNCHANGED <<tables, ready, sync, stop, main, crashed, history>>

Push(n) ==
  /\ ~ crashed /\ n \in Created /\ entries[n].loop = "pushing"
  /\ main.at # "released" /\ Len(queue) < QueueLen
  /\ queue' = Append(queue, n)
  /\ entries' = [entries EXCEPT ![n].loop = IF entries[n].periodic THEN "waiting" ELSE "ended"]
  /\ UNCHANGED <<tables, ready, sync, stop, main, crashed, history>>

\* The send on the closed sync queue panics.
PushAfterRelease(n) ==
  /\ ~ crashed /\ n \in Created /\ entries[n].loop = "pushing" /\ main.at = "released"
  /\ crashed' = TRUE
  /\ UNCHANGED <<entries, tables, ready, queue, sync, stop, main, history>>

\* Mutant: quit is only looked at between ticks.
SeeQuitBetweenTicks(n) ==
  /\ ~ crashed /\ n \in Created /\ entries[n].loop = "waiting" /\ entries[n].quit = "closed"
  /\ entries' = [entries EXCEPT ![n].loop = "ended"]
  /\ UNCHANGED <<tables, ready, queue, sync, stop, main, crashed, history>>

\* Both selects of the goroutine look at quit.
SeeQuit(n) ==
  /\ ~ crashed /\ n \in Created /\ entries[n].quit = "closed"
  /\ entries[n].loop \in {"waiting", "pushing"}
  /\ entries' = [entries EXCEPT ![n].loop = "ended"]
  /\ UNCHANGED <<tables, ready, queue, sync, stop, main, crashed, history>>

-----------------------------------------------------------------------------
(* The sync loop *)

CanTake == ~ crashed /\ sync.at = "idle" /\ stop # "ended"

\* Mutant: a timer stopped before the engine is ready is started all the same.
LaunchAny(e) == [e EXCEPT !.quit = "open", !.loop = "waiting"]

\* The thunk given to timerDeferQueue
Launch(e) == IF e.active THEN [e EXCEPT !.quit = "open", !.loop = "waiting"] ELSE e

\* The thunk that is timerDeferQueue.Ready
StartDeferred ==
  /\ CanTake /\ ~ ready /\ \A n \in Created : ~ Locked(n)
  /\ ready' = TRUE
  /\ entries' = [n \in Created |-> Launch(entries[n])]
  /\ UNCHANGED <<tables, queue, sync, stop, main, crashed, history>>

\* Another goroutine queues a thunk that runs a script.
QueueOther ==
  /\ ~ crashed /\ main.at = "loop" /\ Len(queue) < QueueLen
  /\ queue' = Append(queue, OtherThunk)
  /\ UNCHANGED <<entries, tables, ready, sync, stop, main, crashed, history>>

TakeOther ==
  /\ CanTake /\ queue # <<>> /\ Head(queue) = OtherThunk
  /\ queue' = Tail(queue)
  /\ sync' = [sync EXCEPT !.thunk = OtherThunk, !.at = "script"]
  /\ UNCHANGED <<entries, tables, ready, stop, main, crashed, history>>

\* entryFunc up to its look at entry.active
TakeEntryFunc ==
  /\ CanTake /\ queue # <<>> /\ Head(queue) # OtherThunk /\ ~ Locked(Head(queue))
  /\ queue' = Tail(queue)
  /\ sync' = IF entries[Head(queue)].active
             THEN [sync EXCEPT !.thunk = Head(queue), !.at = "active"] ELSE sync
  /\ UNCHANGED <<entries, tables, ready, stop, main, crashed, history>>

\* Mutant: fireTimer is given the entry and does not look it up.
FireEntry ==
  /\ ~ crashed /\ sync.at = "active"
  /\ sync' = [sync EXCEPT !.at = "script"]
  /\ fired' = fired \cup {sync.thunk}
  /\ UNCHANGED <<entries, tables, ready, queue, stop, main, crashed, late>>

\* fireTimer: the timer is looked up and its callback begins.
FireTimer ==
  /\ ~ crashed /\ sync.at = "active" /\ sync.thunk \in timers
  /\ sync' = [sync EXCEPT !.at = "script"]
  /\ fired' = fired \cup {sync.thunk}
  /\ UNCHANGED <<entries, tables, ready, queue, stop, main, crashed, late>>

\* fireTimer of a timer that handleStop has just taken away
FireUnknown ==
  /\ ~ crashed /\ sync.at = "active" /\ sync.thunk \notin timers
  /\ sync' = [sync EXCEPT !.thunk = Nothing, !.at = "idle"]
  /\ UNCHANGED <<entries, tables, ready, queue, stop, main, crashed, history>>

\* A script is running and it is in no engine function.
InScript ==
  ~ crashed /\ sync.at = "script" /\ sync.op = "none" /\ sync.clean = {} /\ sync.name = NoName

\* The end of the thunk; fireTimer removes a one-shot timer.
ScriptReturns ==
  /\ InScript
  /\ IF sync.thunk # OtherThunk /\ ~ entries[sync.thunk].periodic
     THEN Remove(sync.thunk) ELSE UNCHANGED tables
  /\ sync' = [sync EXCEPT !.thunk = Nothing, !.at = "idle"]
  /\ UNCHANGED <<entries, ready, queue, stop, main, crashed, history>>

\* StartTimer and handleTimerCleanup
StartTimer(name, periodic, ctx) ==
  LET n == Cardinality(Created) + 1
      e == [periodic |-> periodic, name |-> name, ctx |-> ctx, active |-> TRUE,
            quit |-> "nil", loop |-> "none"]
  IN /\ n \in Ids
     /\ entries' = [m \in Created \cup {n} |->
                      IF m # n THEN entries[m] ELSE IF ready THEN Launch(e) ELSE e]
     /\ timers' = timers \cup {n}
     /\ ctxTimers' = [ctxTimers EXCEPT ![ctx] = @ \cup {n}]
     /\ late' = IF main.at = "loop" THEN late ELSE late \cup {n}

\* setTimeout() and setInterval()
SetTimer(periodic, ctx) ==
  /\ InScript
  /\ StartTimer(NoName, periodic, ctx)
  /\ UNCHANGED <<ready, queue, sync, stop, main, crashed, fired>>

\* The first part of StopTimerByName: a timer of that name is removed.
RemoveByName(name, s) ==
  \/ \E n \in timers : /\ entries[n].name = name /\ Remove(n)
                       /\ sync' = [s EXCEPT !.op = "removed", !.id = n]
  \/ /\ \A n \in timers : entries[n].name # name
     /\ sync' = s /\ UNCHANGED tables

\* Mutant: a timer of the same name is left running.
NameNewTimer(name) ==
  /\ InScript /\ Cardinality(Created) < MaxTimers
  /\ sync' = [sync EXCEPT !.name = name]
  /\ UNCHANGED <<entries, tables, ready, queue, stop, main, crashed, history>>

\* startTimer() and startTicker() first stop the timer of that name, whoever started it.
NameTimer(name) ==
  /\ InScript /\ Cardinality(Created) < MaxTimers
  /\ RemoveByName(name, [sync EXCEPT !.name = name])
  /\ UNCHANGED <<entries, ready, queue, stop, main, crashed, history>>

StartNamedTimer(periodic, ctx) ==
  /\ ~ crashed /\ sync.name # NoName /\ sync.op = "none"
  /\ StartTimer(sync.name, periodic, ctx)
  /\ sync' = [sync EXCEPT !.name = NoName]
  /\ UNCHANGED <<ready, queue, stop, main, crashed, fired>>

\* timers.<name>.stop()
StopByName(name) ==
  /\ InScript
  /\ RemoveByName(name, sync)
  /\ UNCHANGED <<entries, ready, queue, stop, main, crashed, history>>

\* Mutant: a timer is stopped whether or not the engine still has it.
StopAnyByIndex(n) ==
  /\ InScript /\ n \in Created
  /\ sync' = [sync EXCEPT !.op = "found", !.id = n]
  /\ UNCHANGED <<entries, tables, ready, queue, stop, main, crashed, history>>

\* clearTimeout() and clearInterval(): StopTimerByIndex up to its FindTimerByIndex
StopByIndex(n) ==
  /\ InScript /\ n \in timers
  /\ sync' = [sync EXCEPT !.op = "found", !.id = n]
  /\ UNCHANGED <<entries, tables, ready, queue, stop, main, crashed, history>>

\* runTimerCleanups, when the file of ctx is loaded again or removed
RunTimerCleanups(ctx) ==
  /\ InScript /\ sync.thunk = OtherThunk
  /\ sync' = [sync EXCEPT !.clean = ctxTimers[ctx]]
  /\ UNCHANGED <<entries, tables, ready, queue, stop, main, crashed, history>>

CleanTimer(n) ==
  /\ ~ crashed /\ sync.op = "none" /\ n \in sync.clean
  /\ sync' = IF n \in timers
             THEN [sync EXCEPT !.clean = @ \ {n}, !.op = "found", !.id = n]
             ELSE [sync EXCEPT !.clean = @ \ {n}]
  /\ ctxTimers' = IF n \in timers THEN ctxTimers
                  ELSE [c \in Contexts |-> ctxTimers[c] \ {n}]
  /\ UNCHANGED <<entries, timers, ready, queue, stop, main, crashed, history>>

\* Mutant: the onRemove handlers are not called.
RemoveFoundSilently ==
  /\ ~ crashed /\ sync.op = "found"
  /\ timers' = timers \ {sync.id} /\ UNCHANGED ctxTimers
  /\ sync' = [sync EXCEPT !.op = "removed"]
  /\ UNCHANGED <<entries, ready, queue, stop, main, crashed, history>>

\* StopTimerByIndex once it has timersMutex again
RemoveFound ==
  /\ ~ crashed /\ sync.op = "found"
  /\ Remove(sync.id)
  /\ sync' = [sync EXCEPT !.op = "removed"]
  /\ UNCHANGED <<entries, ready, queue, stop, main, crashed, history>>

\* entry.stop(): a timer without a goroutine is only marked; otherwise quit is closed.
StopIdle ==
  /\ ~ crashed /\ sync.op = "removed" /\ ~ Locked(sync.id) /\ entries[sync.id].quit = "nil"
  /\ entries' = [entries EXCEPT ![sync.id].active = FALSE]
  /\ sync' = [sync EXCEPT !.op = "none", !.id = Nothing]
  /\ UNCHANGED <<tables, ready, queue, stop, main, crashed, history>>

CloseQuit ==
  /\ ~ crashed /\ sync.op = "removed" /\ ~ Locked(sync.id) /\ entries[sync.id].quit # "nil"
  /\ crashed' = (entries[sync.id].quit = "closed")
  /\ entries' = [entries EXCEPT ![sync.id].quit = "closed"]
  /\ sync' = [sync EXCEPT !.op = "closed"]
  /\ UNCHANGED <<tables, ready, queue, stop, main, history>>

WaitQuitted ==
  /\ ~ crashed /\ sync.op = "closed" /\ entries[sync.id].loop = "ended"
  /\ entries' = [entries EXCEPT ![sync.id].active = FALSE]
  /\ sync' = [sync EXCEPT !.op = "none", !.id = Nothing]
  /\ UNCHANGED <<tables, ready, queue, stop, main, crashed, history>>

-----------------------------------------------------------------------------
(* Stop and handleStop *)

Stop ==
  /\ ~ crashed /\ stop = "idle" /\ stop' = "called"
  /\ UNCHANGED <<entries, tables, ready, queue, sync, main, crashed, history>>

SyncLoopQuits ==
  /\ CanTake /\ stop = "called" /\ stop' = "ended"
  /\ UNCHANGED <<entries, tables, ready, queue, sync, main, crashed, history>>

TakeAllTimers ==
  /\ ~ crashed /\ stop # "idle" /\ main.at = "loop"
  /\ main' = [main EXCEPT !.at = "stopping", !.left = timers]
  /\ timers' = {}
  /\ UNCHANGED <<entries, ctxTimers, ready, queue, sync, stop, crashed, history>>

\* entry.stop() again, by the main loop
MainStopIdle(n) ==
  /\ ~ crashed /\ main.id = Nothing /\ n \in main.left /\ ~ Locked(n)
  /\ entries[n].quit = "nil"
  /\ entries' = [entries EXCEPT ![n].active = FALSE]
  /\ main' = [main EXCEPT !.left = @ \ {n}]
  /\ UNCHANGED <<tables, ready, queue, sync, stop, crashed, history>>

MainCloseQuit(n) ==
  /\ ~ crashed /\ main.id = Nothing /\ n \in main.left /\ ~ Locked(n)
  /\ entries[n].quit # "nil"
  /\ crashed' = (entries[n].quit = "closed")
  /\ entries' = [entries EXCEPT ![n].quit = "closed"]
  /\ main' = [main EXCEPT !.left = @ \ {n}, !.id = n]
  /\ UNCHANGED <<tables, ready, queue, sync, stop, history>>

MainWaitQuitted ==
  /\ ~ crashed /\ main.id # Nothing /\ entries[main.id].loop = "ended"
  /\ entries' = [entries EXCEPT ![main.id].active = FALSE]
  /\ main' = [main EXCEPT !.id = Nothing]
  /\ UNCHANGED <<tables, ready, queue, sync, stop, crashed, history>>

\* Mutant: the queue is closed before the timers are stopped.
ReleaseAtOnce ==
  /\ ~ crashed /\ main.at = "stopping"
  /\ main' = [main EXCEPT !.at = "released"]
  /\ UNCHANGED <<entries, tables, ready, queue, sync, stop, crashed, history>>

ReleaseQueue ==
  /\ ~ crashed /\ main.at = "stopping" /\ main.left = {} /\ main.id = Nothing
  /\ main' = [main EXCEPT !.at = "released"]
  /\ UNCHANGED <<entries, tables, ready, queue, sync, stop, crashed, history>>

-----------------------------------------------------------------------------

Init ==
  /\ entries = <<>> /\ timers = {} /\ ctxTimers = [c \in Contexts |-> {}]
  /\ ready = FALSE /\ queue = <<>>
  /\ sync = [thunk |-> Nothing, at |-> "idle", op |-> "none", id |-> Nothing, clean |-> {},
             name |-> NoName]
  /\ stop = "idle" /\ main = [at |-> "loop", id |-> Nothing, left |-> {}]
  /\ crashed = FALSE /\ fired = {} /\ late = {}

GoroutineStep(n) == Push(n) \/ PushAfterRelease(n) \/ SeeQuit(n)

SyncStep ==
  \/ StartDeferred \/ TakeOther \/ TakeEntryFunc \/ FireTimer \/ FireUnknown \/ ScriptReturns
  \/ \E p \in BOOLEAN, c \in Contexts : StartNamedTimer(p, c)
  \/ \E n \in Ids : CleanTimer(n)
  \/ RemoveFound \/ StopIdle \/ CloseQuit \/ WaitQuitted

ScriptStep ==
  \/ \E p \in BOOLEAN, c \in Contexts : SetTimer(p, c)
  \/ \E name \in Names : NameTimer(name) \/ StopByName(name)
  \/ \E n \in Ids : StopByIndex(n)
  \/ \E c \in Contexts : RunTimerCleanups(c)

MainStep ==
  \/ TakeAllTimers
  \/ \E n \in Ids : MainStopIdle(n) \/ MainCloseQuit(n)
  \/ MainWaitQuitted \/ ReleaseQueue

Next ==
  \/ \E n \in Ids : Tick(n) \/ GoroutineStep(n)
  \/ QueueOther \/ SyncStep \/ ScriptStep
  \/ Stop \/ SyncLoopQuits \/ MainStep

Spec == Init /\ [][Next]_vars

\* Every goroutine keeps running and scripts return.  Timers tick.  A goroutine that
\* waits for room in the queue gets its turn (senders wait in line).
Fairness ==
  /\ \A n \in Ids : WF_vars(Tick(n)) /\ SF_vars(GoroutineStep(n))
  /\ SF_vars(SyncStep) /\ WF_vars(MainStep)

FairSpec == Spec /\ Fairness

-----------------------------------------------------------------------------
(* Properties *)

EntriesType ==
  /\ Created \subseteq Ids /\ entries \in [Created -> Entry]
  /\ timers \subseteq Created /\ ctxTimers \in [Contexts -> SUBSET Created]

LoopsType ==
  /\ ready \in BOOLEAN /\ crashed \in BOOLEAN
  /\ sync \in Sync /\ main \in Main /\ stop \in {"idle", "called", "ended"}

QueueType ==
  /\ queue \in Seq(Created \cup {OtherThunk}) /\ Len(queue) <= QueueLen
  /\ fired \subseteq Created /\ late \subseteq Created

TypeOK == EntriesType /\ LoopsType /\ QueueType

\* No callback begins once the stop of its timer has returned, and that of a one-shot
\* timer begins once, whatever is left in the sync queue.
FiresOnlyWhileWanted ==
  [][\A n \in Ids : n \in Created /\ FireTimer /\ sync.thunk = n =>
       entries[n].active /\ (n \in fired => entries[n].periodic)]_vars

\* Once a stop has returned, the timer's goroutine is gone and none will be started.
StoppedForGood ==
  \A n \in Created : ~ entries[n].active => entries[n].loop \in {"none", "ended"}

\* There is one timer of a name at a time.
OneTimerPerName ==
  \A m, n \in timers : entries[m].name = entries[n].name /\ m # n => entries[n].name = NoName

\* A file that is loaded again finds exactly its own running timers to stop.
CleanupsKnowTheTimers ==
  main.at = "loop" => \A c \in Contexts : ctxTimers[c] = {n \in timers : entries[n].ctx = c}

\* While the engine is not being stopped, no order of ticks, stops and callbacks closes
\* a channel twice or sends on a closed one.
NoPanicWhileRunning == crashed => stop # "idle"

\* The only timers that can outlive the sync queue are one that a script has started
\* during the shutdown and one that it is just stopping.
OnlyLateTimersSurvive ==
  main.at = "released" =>
    \A n \in Created : entries[n].loop \in {"waiting", "pushing"} => n \in late \/ sync.id = n

\* A stop() returns: neither a full sync queue nor a callback can hold it up.
StopsReturn ==
  /\ sync.op # "none" ~> sync.op = "none" \/ crashed
  /\ main.at = "stopping" ~> main.at = "released" \/ crashed

\* A timer that is left alone fires.
TimersFire ==
  \A n \in Ids :
    n \in timers /\ ready ~> n \in fired \/ n \notin timers \/ stop # "idle"
=============================================================================
