---------------------------- MODULE EventPipeline ----------------------------
(***************************************************************************)
(* The way of a control change from the driver to the rules, and the       *)
(* goroutines it crosses (wbrules/eventbuffer.go, wbrules/engine.go):      *)
(*   driver     driverEventHandler pushes events into the EventBuffer;     *)
(*   main loop  mainLoop retrieves them and queues a thunk for each one;   *)
(*   sync loop  syncLoop runs the thunks, RunRules among them;             *)
(*   stopper    the goroutine that calls Stop;                             *)
(*   callers    any other goroutine that uses CallSync: cron, MQTT         *)
(*              trackers, finished shell commands, the editor's RPCs.      *)
(*                                                                         *)
(* Events are numbered in the order they are pushed.  What a thunk does is *)
(* left out, except that scripts push events of their own (setMeta).  The  *)
(* thunk that re-reads the debug switch after an event of that switch is   *)
(* left out.  A panic ends the process.                                    *)
(***************************************************************************)
EXTENDS Integers, Sequences, SequencesExt

CONSTANTS
  QueueLen,   \* SYNC_QUEUE_LEN
  MaxEvents,  \* bound on the events that are pushed
  MaxCalls,   \* bound on the thunks of other goroutines
  OtherThunk, \* a thunk that is not RunRules on an event
  Nothing     \* no thunk is running

Events == 1 .. MaxEvents
Thunks == Events \cup {OtherThunk}

ASSUME BoundsAssumption ==
  /\ QueueLen \in Nat \ {0} /\ MaxEvents \in Nat /\ MaxCalls \in Nat
  /\ OtherThunk \notin Events /\ Nothing \notin Thunks

\* setupCron, readyQueue.Ready, timerDeferQueue.Ready and updateDebugEnabled
Setup == <<OtherThunk, OtherThunk, OtherThunk, OtherThunk>>

VARIABLES
  active,       \* engine.active
  handling,     \* pushes that the driver's event handler has still to do
  pushed,       \* number of events pushed
  buffer,       \* EventBuffer.currentBuffer
  signal,       \* EventBuffer.observer holds its one item
  closed,       \* EventBuffer.observer is closed
  driverReady,  \* driverReadyCh holds its one item
  main,         \* where the main loop is
  batch,        \* thunks it has still to queue
  syncQueue,    \* syncQueue
  released,     \* syncQueue is closed
  running,      \* the thunk that the sync loop is running
  quit,         \* syncQuitCh: "none", "asked" or, once the loop has returned, "done"
  stopper,      \* where Stop is
  calls,        \* thunks of other goroutines so far
  crashed,      \* "no" or the goroutine that panicked
  run,          \* history: the events RunRules was called with
  dropped       \* history: events ignored because the engine was not ready

bufferVars == <<pushed, buffer, signal>>
vars == <<active, handling, bufferVars, closed, driverReady, main, batch, syncQueue,
          released, running, quit, stopper, calls, crashed, run, dropped>>

IsEvent(t) == t \in Events
Alive == crashed = "no"

-----------------------------------------------------------------------------
(* EventBuffer *)

\* PushEvent by goroutine g; the send on a closed observer panics.
PushEvent(g) ==
  /\ pushed < MaxEvents
  /\ pushed' = pushed + 1
  /\ buffer' = Append(buffer, pushed')
  /\ signal' = TRUE
  /\ crashed' = IF closed THEN g ELSE crashed

\* Mutant: the old slice stays in place.
RetrieveCopy == UNCHANGED buffer

\* Mutant: one event for one signal.
RetrieveOne == buffer' = IF buffer = <<>> THEN <<>> ELSE Tail(buffer)

Retrieve == buffer' = <<>>

-----------------------------------------------------------------------------
(* The driver *)

\* driverEventHandler up to its test of active; a value makes one event, external
\* metadata makes two.
DriverEvent ==
  /\ Alive /\ handling = 0 /\ active
  /\ handling' \in {1, 2}
  /\ UNCHANGED <<active, bufferVars, closed, driverReady, main, batch, syncQueue, released,
                 running, quit, stopper, calls, crashed, run, dropped>>

DriverPush ==
  /\ Alive /\ handling > 0
  /\ PushEvent("driver")
  /\ handling' = handling - 1
  /\ UNCHANGED <<active, closed, driverReady, main, batch, syncQueue, released, running,
                 quit, stopper, calls, run, dropped>>

\* The callback given to OnRetainReady, called once; after handleStop it blocks on a
\* nil channel.
RetainReady ==
  /\ Alive /\ handling = 0 /\ main \in {"wait", "dropping", "stopping"} /\ ~ driverReady
  /\ driverReady' = TRUE
  /\ UNCHANGED <<active, handling, bufferVars, closed, main, batch, syncQueue, released,
                 running, quit, stopper, calls, crashed, run, dropped>>

-----------------------------------------------------------------------------
(* mainLoop *)

\* ReadyWaitLoop: the driver is ready.
LeaveReadyWait ==
  /\ Alive /\ main = "wait" /\ driverReady
  /\ main' = "loop" /\ driverReady' = FALSE /\ batch' = Setup
  /\ UNCHANGED <<active, handling, bufferVars, closed, syncQueue, released, running, quit,
                 stopper, calls, crashed, run, dropped>>

\* A receive from Observe() that finds an item.
ReceiveSignal ==
  /\ Alive /\ main \in {"wait", "loop"} /\ batch = <<>> /\ signal
  /\ main' = IF main = "wait" THEN "dropping" ELSE "retrieving"
  /\ signal' = FALSE
  /\ UNCHANGED <<active, handling, pushed, buffer, closed, driverReady, batch, syncQueue,
                 released, running, quit, stopper, calls, crashed, run, dropped>>

\* The events of the ReadyWaitLoop are not for the rules.
DropEvents ==
  /\ Alive /\ main = "dropping"
  /\ Retrieve
  /\ main' = "wait" /\ dropped' = dropped + Len(buffer)
  /\ UNCHANGED <<active, handling, pushed, signal, closed, driverReady, batch, syncQueue,
                 released, running, quit, stopper, calls, crashed, run>>

\* Mutant: one event is handled for one signal.
RetrieveFirstEvent ==
  /\ Alive /\ main = "retrieving"
  /\ main' = "loop"
  /\ IF buffer = <<>> THEN UNCHANGED <<buffer, batch>>
     ELSE buffer' = Tail(buffer) /\ batch' = <<Head(buffer)>>
  /\ UNCHANGED <<active, handling, pushed, signal, closed, driverReady, syncQueue, released,
                 running, quit, stopper, calls, crashed, run, dropped>>

RetrieveEvents ==
  /\ Alive /\ main = "retrieving"
  /\ Retrieve
  /\ main' = "loop" /\ batch' = buffer
  /\ UNCHANGED <<active, handling, pushed, signal, closed, driverReady, syncQueue, released,
                 running, quit, stopper, calls, crashed, run, dropped>>

\* CallSync by the main loop, in processEvent or before the loop; it waits for room.
QueueThunk ==
  /\ Alive /\ batch # <<>> /\ Len(syncQueue) < QueueLen
  /\ syncQueue' = Append(syncQueue, Head(batch))
  /\ batch' = Tail(batch)
  /\ UNCHANGED <<active, handling, bufferVars, closed, driverReady, main, released, running,
                 quit, stopper, calls, crashed, run, dropped>>

\* Mutant: the loops end when the engine is no longer active.
ObserverInactive ==
  /\ Alive /\ main \in {"wait", "loop"} /\ batch = <<>> /\ ~ active
  /\ main' = "stopping"
  /\ UNCHANGED <<active, handling, bufferVars, closed, driverReady, batch, syncQueue,
                 released, running, quit, stopper, calls, crashed, run, dropped>>

\* A receive from Observe() that finds the channel closed and empty.
ObserverClosed ==
  /\ Alive /\ main \in {"wait", "loop"} /\ batch = <<>> /\ closed /\ ~ signal
  /\ main' = "stopping"
  /\ UNCHANGED <<active, handling, bufferVars, closed, driverReady, batch, syncQueue,
                 released, running, quit, stopper, calls, crashed, run, dropped>>

\* handleStop
HandleStop ==
  /\ Alive /\ main = "stopping"
  /\ main' = "done" /\ released' = TRUE
  /\ UNCHANGED <<active, handling, bufferVars, closed, driverReady, batch, syncQueue,
                 running, quit, stopper, calls, crashed, run, dropped>>

-----------------------------------------------------------------------------
(* syncLoop *)

\* Mutant: the newest thunk first.
TakeNewestThunk ==
  /\ Alive /\ running = Nothing /\ quit # "done" /\ syncQueue # <<>>
  /\ running' = Last(syncQueue)
  /\ syncQueue' = Front(syncQueue)
  /\ run' = IF IsEvent(running') THEN Append(run, running') ELSE run
  /\ UNCHANGED <<active, handling, bufferVars, closed, driverReady, main, batch, released,
                 quit, stopper, calls, crashed, dropped>>

TakeThunk ==
  /\ Alive /\ running = Nothing /\ quit # "done" /\ syncQueue # <<>>
  /\ running' = Head(syncQueue)
  /\ syncQueue' = Tail(syncQueue)
  /\ run' = IF IsEvent(running') THEN Append(run, running') ELSE run
  /\ UNCHANGED <<active, handling, bufferVars, closed, driverReady, main, batch, released,
                 quit, stopper, calls, crashed, dropped>>

\* A script sets metadata of a control: PushToEventBuffer.
ScriptPush ==
  /\ Alive /\ running # Nothing
  /\ PushEvent("syncLoop")
  /\ UNCHANGED <<active, handling, closed, driverReady, main, batch, syncQueue, released,
                 running, quit, stopper, calls, run, dropped>>

ThunkReturns ==
  /\ Alive /\ running # Nothing /\ running' = Nothing
  /\ UNCHANGED <<active, handling, bufferVars, closed, driverReady, main, batch, syncQueue,
                 released, quit, stopper, calls, crashed, run, dropped>>

\* The select may prefer the request to quit to a waiting thunk.
SyncLoopQuits ==
  /\ Alive /\ running = Nothing /\ quit = "asked" /\ quit' = "done"
  /\ UNCHANGED <<active, handling, bufferVars, closed, driverReady, main, batch, syncQueue,
                 released, running, stopper, calls, crashed, run, dropped>>

-----------------------------------------------------------------------------
(* CallSync by other goroutines; a send on the closed queue panics *)

CallSync ==
  /\ Alive /\ calls < MaxCalls /\ calls' = calls + 1
  /\ \/ /\ ~ released /\ Len(syncQueue) < QueueLen
        /\ syncQueue' = Append(syncQueue, OtherThunk) /\ UNCHANGED crashed
     \/ released /\ crashed' = "caller" /\ UNCHANGED syncQueue
  /\ UNCHANGED <<active, handling, bufferVars, closed, driverReady, main, batch, released,
                 running, quit, stopper, run, dropped>>

-----------------------------------------------------------------------------
(* Stop *)

Deactivate ==
  /\ Alive /\ stopper = "idle" /\ stopper' = "inactive" /\ active' = FALSE
  /\ UNCHANGED <<handling, bufferVars, closed, driverReady, main, batch, syncQueue, released,
                 running, quit, calls, crashed, run, dropped>>

CloseBuffer ==
  /\ Alive /\ stopper = "inactive" /\ stopper' = "closed" /\ closed' = TRUE
  /\ UNCHANGED <<active, handling, bufferVars, driverReady, main, batch, syncQueue, released,
                 running, quit, calls, crashed, run, dropped>>

AskSyncLoop ==
  /\ Alive /\ stopper = "closed" /\ stopper' = "asked" /\ quit' = "asked"
  /\ UNCHANGED <<active, handling, bufferVars, closed, driverReady, main, batch, syncQueue,
                 released, running, calls, crashed, run, dropped>>

\* Mutant: Stop drains the queue until it is closed.
StopReturnsWhenReleased ==
  /\ Alive /\ stopper = "asked" /\ quit = "done"
  /\ released
  /\ stopper' = "returned"
  /\ UNCHANGED <<active, handling, bufferVars, closed, driverReady, main, batch, syncQueue,
                 released, running, quit, calls, crashed, run, dropped>>

\* The receive from syncQueue takes a thunk that is still there, or finds the queue
\* closed.
StopReturns ==
  /\ Alive /\ stopper = "asked" /\ quit = "done"
  /\ syncQueue # <<>> \/ released
  /\ stopper' = "returned"
  /\ syncQueue' = IF syncQueue = <<>> THEN <<>> ELSE Tail(syncQueue)
  /\ UNCHANGED <<active, handling, bufferVars, closed, driverReady, main, batch, released,
                 running, quit, calls, crashed, run, dropped>>

-----------------------------------------------------------------------------

\* Start
Init ==
  /\ active = TRUE /\ handling = 0
  /\ pushed = 0 /\ buffer = <<>> /\ signal = FALSE /\ closed = FALSE
  /\ driverReady = FALSE
  /\ main = "wait" /\ batch = <<>>
  /\ syncQueue = <<>> /\ released = FALSE
  /\ running = Nothing /\ quit = "none"
  /\ stopper = "idle" /\ calls = 0 /\ crashed = "no"
  /\ run = <<>> /\ dropped = 0

DriverStep == DriverEvent \/ DriverPush \/ RetainReady
MainStep == ReceiveSignal \/ DropEvents \/ RetrieveEvents \/ ObserverClosed \/ HandleStop
SyncStep == TakeThunk \/ ThunkReturns
StopStep == Deactivate \/ CloseBuffer \/ AskSyncLoop \/ StopReturns

Next ==
  \/ DriverStep \/ LeaveReadyWait \/ MainStep \/ QueueThunk
  \/ SyncStep \/ ScriptPush \/ SyncLoopQuits
  \/ CallSync \/ StopStep

Spec == Init /\ [][Next]_vars

\* Every goroutine keeps running.  A blocked sender gets its turn (senders wait in
\* line), and the select of the sync loop, which is random, cannot prefer thunks to
\* the request to quit forever.  Nobody has to call Stop and the driver need not
\* become ready.
Fairness ==
  /\ WF_vars(MainStep) /\ WF_vars(LeaveReadyWait) /\ SF_vars(QueueThunk)
  /\ WF_vars(SyncStep) /\ SF_vars(SyncLoopQuits)
  /\ WF_vars(CloseBuffer \/ AskSyncLoop \/ StopReturns)

FairSpec == Spec /\ Fairness

-----------------------------------------------------------------------------
(* Properties *)

BufferType ==
  /\ active \in BOOLEAN /\ handling \in 0 .. 2
  /\ pushed \in 0 .. MaxEvents /\ dropped \in Nat /\ buffer \in Seq(Events)
  /\ signal \in BOOLEAN /\ closed \in BOOLEAN /\ driverReady \in BOOLEAN

LoopsType ==
  /\ main \in {"wait", "dropping", "loop", "retrieving", "stopping", "done"}
  /\ released \in BOOLEAN /\ quit \in {"none", "asked", "done"}
  /\ stopper \in {"idle", "inactive", "closed", "asked", "returned"}
  /\ calls \in 0 .. MaxCalls
  /\ crashed \in {"no", "driver", "syncLoop", "caller"}

QueueType ==
  /\ batch \in Seq(Thunks)
  /\ syncQueue \in Seq(Thunks) /\ Len(syncQueue) <= QueueLen
  /\ running \in Thunks \cup {Nothing}
  /\ run \in Seq(Events)

TypeOK == BufferType /\ LoopsType /\ QueueType

\* What has reached the rules and what is on its way to them, the newest event last
Way == run \o syncQueue \o batch \o buffer

\* Between the driver and the rules no event is lost, doubled or overtaken by a
\* later one, until Stop throws a thunk away.
NothingLostOrReordered ==
  stopper # "returned" =>
    /\ \A e \in (dropped + 1) .. pushed : \E i \in DOMAIN Way : Way[i] = e
    /\ \A i \in DOMAIN Way : IsEvent(Way[i]) => Way[i] \in (dropped + 1) .. pushed
    /\ \A i, j \in DOMAIN Way :
         i < j /\ IsEvent(Way[i]) /\ IsEvent(Way[j]) => Way[i] < Way[j]

\* The main loop is never left waiting for a signal with events in the buffer.
NoLostWakeup == buffer # <<>> => signal \/ main \in {"dropping", "retrieving"}

\* When the main loop ends, every event pushed before has reached the sync queue.
BufferDrainedAtStop == Alive /\ main \in {"stopping", "done"} => buffer = <<>> /\ batch = <<>>

\* The abstract specification
Delivery == INSTANCE EventDelivery WITH
  handled <- run, skipped <- dropped, ready <- main \notin {"wait", "dropping"}

Implements == Delivery!Spec

\* Every event is looked at by the rules, unless the engine was not ready or is
\* being stopped.
EveryEventHandled ==
  \A e \in Events :
    pushed >= e ~> \/ e <= dropped \/ (\E i \in DOMAIN run : run[i] = e)
                   \/ stopper # "idle"

\* Stop returns, even when the main loop is stuck at a full queue.
StopTerminates == stopper = "inactive" ~> stopper = "returned" \/ ~ Alive
=============================================================================
