-------------------------- MODULE EventPipelineProofs --------------------------
(***************************************************************************)
(* Proofs about EventPipeline, for every length of the sync queue and      *)
(* every number of events and of calls by other goroutines.                *)
(***************************************************************************)
EXTENDS EventPipeline, TLAPS

-----------------------------------------------------------------------------
(* The inductive invariant *)

\* The main loop stops because the buffer is closed; from then on nothing can come into
\* it, since whoever pushes brings the process down.
Drained ==
  Alive /\ main \in {"stopping", "done"} => closed /\ buffer = <<>> /\ batch = <<>>

\* The main loop has nothing left to queue when it waits for the driver, drops events or
\* retrieves new ones.
BatchQueued == main \in {"wait", "dropping", "retrieving"} => batch = <<>>

WakeInv == TypeOK /\ NoLostWakeup /\ BatchQueued /\ Drained

-----------------------------------------------------------------------------
(* Every step preserves the invariant *)

\* The bounds are numbers.
LEMMA Bounds == QueueLen \in Nat \ {0} /\ MaxEvents \in Nat /\ MaxCalls \in Nat
BY BoundsAssumption

\* Start leaves everything empty.
LEMMA InitWake == Init => WakeInv
<1> SUFFICES ASSUME Init PROVE WakeInv
  OBVIOUS
<1>1. /\ 0 \in 0 .. MaxEvents /\ 0 \in 0 .. MaxCalls /\ 0 <= QueueLen
      /\ 0 \in 0 .. 2 /\ 0 \in Nat /\ <<>> \in Seq(Events) /\ <<>> \in Seq(Thunks)
      /\ Len(<<>>) = 0
  BY Bounds
<1>2. BufferType
  BY <1>1 DEF Init, BufferType
<1>3. LoopsType
  BY <1>1 DEF Init, LoopsType
<1>4. QueueType
  BY <1>1 DEF Init, QueueType
<1> QED BY <1>2, <1>3, <1>4 DEF Init, WakeInv, TypeOK, NoLostWakeup, BatchQueued, Drained

\* The driver has seen that the engine is active and pushes nothing yet.
LEMMA DriverEventWake ==
  ASSUME WakeInv, DriverEvent
  PROVE  WakeInv'
<1>1. BufferType'
  BY BoundsAssumption DEF WakeInv, TypeOK, BufferType, DriverEvent, bufferVars, Events
<1>2. LoopsType'
  BY BoundsAssumption DEF WakeInv, TypeOK, LoopsType, DriverEvent, bufferVars
<1>3. QueueType'
  BY BoundsAssumption DEF WakeInv, TypeOK, BufferType, QueueType, DriverEvent, Thunks, IsEvent
<1>4. NoLostWakeup'
  BY DEF WakeInv, TypeOK, BufferType, NoLostWakeup, DriverEvent, bufferVars
<1>5. BatchQueued'
  BY DEF WakeInv, BatchQueued, DriverEvent
<1>6. Drained'
  BY DEF WakeInv, NoLostWakeup, BatchQueued, Drained, DriverEvent, Alive, bufferVars
<1> QED BY <1>1, <1>2, <1>3, <1>4, <1>5, <1>6 DEF WakeInv, TypeOK

\* A push leaves a signal, or ends the process if the buffer is closed.
LEMMA DriverPushWake ==
  ASSUME WakeInv, DriverPush
  PROVE  WakeInv'
<1>1. BufferType'
  BY BoundsAssumption
     DEF WakeInv, TypeOK, BufferType, DriverPush, PushEvent, bufferVars, Events
<1>2. LoopsType'
  BY BoundsAssumption DEF WakeInv, TypeOK, LoopsType, DriverPush, PushEvent, bufferVars
<1>3. QueueType'
  BY BoundsAssumption
     DEF WakeInv, TypeOK, BufferType, QueueType, DriverPush, PushEvent, Thunks, IsEvent
<1>4. NoLostWakeup'
  BY DEF WakeInv, TypeOK, BufferType, NoLostWakeup, DriverPush, PushEvent, bufferVars
<1>5. BatchQueued'
  BY DEF WakeInv, BatchQueued, DriverPush, PushEvent
<1>6. Drained'
  BY DEF WakeInv, NoLostWakeup, BatchQueued, Drained, DriverPush, PushEvent, Alive, bufferVars
<1> QED BY <1>1, <1>2, <1>3, <1>4, <1>5, <1>6 DEF WakeInv, TypeOK

\* The driver has become ready.
LEMMA RetainReadyWake ==
  ASSUME WakeInv, RetainReady
  PROVE  WakeInv'
<1>1. BufferType'
  BY BoundsAssumption DEF WakeInv, TypeOK, BufferType, RetainReady, bufferVars, Events
<1>2. LoopsType'
  BY BoundsAssumption DEF WakeInv, TypeOK, LoopsType, RetainReady, bufferVars
<1>3. QueueType'
  BY BoundsAssumption DEF WakeInv, TypeOK, BufferType, QueueType, RetainReady, Thunks, IsEvent
<1>4. NoLostWakeup'
  BY DEF WakeInv, TypeOK, BufferType, NoLostWakeup, RetainReady, bufferVars
<1>5. BatchQueued'
  BY DEF WakeInv, BatchQueued, RetainReady
<1>6. Drained'
  BY DEF WakeInv, NoLostWakeup, BatchQueued, Drained, RetainReady, Alive, bufferVars
<1> QED BY <1>1, <1>2, <1>3, <1>4, <1>5, <1>6 DEF WakeInv, TypeOK

\* The batch that follows the ReadyWaitLoop is that of Setup.
LEMMA LeaveReadyWaitWake ==
  ASSUME WakeInv, LeaveReadyWait
  PROVE  WakeInv'
<1>1. BufferType'
  BY BoundsAssumption
     DEF WakeInv, TypeOK, BufferType, LeaveReadyWait, Setup, bufferVars, Events
<1>2. LoopsType'
  BY BoundsAssumption DEF WakeInv, TypeOK, LoopsType, LeaveReadyWait, Setup, bufferVars
<1>3. QueueType'
  BY BoundsAssumption
     DEF WakeInv, TypeOK, BufferType, QueueType, LeaveReadyWait, Setup, Thunks, IsEvent
<1>4. NoLostWakeup'
  BY DEF WakeInv, TypeOK, BufferType, NoLostWakeup, LeaveReadyWait, Setup, bufferVars
<1>5. BatchQueued'
  BY DEF WakeInv, BatchQueued, LeaveReadyWait, Setup
<1>6. Drained'
  BY DEF WakeInv, NoLostWakeup, BatchQueued, Drained, LeaveReadyWait, Setup, Alive, bufferVars
<1> QED BY <1>1, <1>2, <1>3, <1>4, <1>5, <1>6 DEF WakeInv, TypeOK

\* Whoever takes the signal goes on to take the events.
LEMMA ReceiveSignalWake ==
  ASSUME WakeInv, ReceiveSignal
  PROVE  WakeInv'
<1>1. BufferType'
  BY BoundsAssumption DEF WakeInv, TypeOK, BufferType, ReceiveSignal, bufferVars, Events
<1>2. LoopsType'
  BY BoundsAssumption DEF WakeInv, TypeOK, LoopsType, ReceiveSignal, bufferVars
<1>3. QueueType'
  BY BoundsAssumption
     DEF WakeInv, TypeOK, BufferType, QueueType, ReceiveSignal, Thunks, IsEvent
<1>4. NoLostWakeup'
  BY DEF WakeInv, TypeOK, BufferType, NoLostWakeup, ReceiveSignal, bufferVars
<1>5. BatchQueued'
  BY DEF WakeInv, BatchQueued, ReceiveSignal
<1>6. Drained'
  BY DEF WakeInv, NoLostWakeup, BatchQueued, Drained, ReceiveSignal, Alive, bufferVars
<1> QED BY <1>1, <1>2, <1>3, <1>4, <1>5, <1>6 DEF WakeInv, TypeOK

\* The buffer is empty after a Retrieve.
LEMMA DropEventsWake ==
  ASSUME WakeInv, DropEvents
  PROVE  WakeInv'
<1>1. BufferType'
  BY BoundsAssumption DEF WakeInv, TypeOK, BufferType, DropEvents, Retrieve, bufferVars, Events
<1>2. LoopsType'
  BY BoundsAssumption DEF WakeInv, TypeOK, LoopsType, DropEvents, Retrieve, bufferVars
<1>3. QueueType'
  BY BoundsAssumption
     DEF WakeInv, TypeOK, BufferType, QueueType, DropEvents, Retrieve, Thunks, IsEvent
<1>4. NoLostWakeup'
  BY DEF WakeInv, TypeOK, BufferType, NoLostWakeup, DropEvents, Retrieve, bufferVars
<1>5. BatchQueued'
  BY DEF WakeInv, BatchQueued, DropEvents, Retrieve
<1>6. Drained'
  BY DEF WakeInv, NoLostWakeup, BatchQueued, Drained, DropEvents, Retrieve, Alive, bufferVars
<1> QED BY <1>1, <1>2, <1>3, <1>4, <1>5, <1>6 DEF WakeInv, TypeOK

\* So it is here; the events are in the batch.
LEMMA RetrieveEventsWake ==
  ASSUME WakeInv, RetrieveEvents
  PROVE  WakeInv'
<1>1. BufferType'
  BY BoundsAssumption
     DEF WakeInv, TypeOK, BufferType, RetrieveEvents, Retrieve, bufferVars, Events
<1>2. LoopsType'
  BY BoundsAssumption DEF WakeInv, TypeOK, LoopsType, RetrieveEvents, Retrieve, bufferVars
<1>3. QueueType'
  BY BoundsAssumption
     DEF WakeInv, TypeOK, BufferType, QueueType, RetrieveEvents, Retrieve, Thunks, IsEvent
<1>4. NoLostWakeup'
  BY DEF WakeInv, TypeOK, BufferType, NoLostWakeup, RetrieveEvents, Retrieve, bufferVars
<1>5. BatchQueued'
  BY DEF WakeInv, BatchQueued, RetrieveEvents, Retrieve
<1>6. Drained'
  BY DEF WakeInv, NoLostWakeup, BatchQueued, Drained, RetrieveEvents, Retrieve, Alive,
     bufferVars
<1> QED BY <1>1, <1>2, <1>3, <1>4, <1>5, <1>6 DEF WakeInv, TypeOK

\* A thunk is queued only if there is room.
LEMMA QueueThunkWake ==
  ASSUME WakeInv, QueueThunk
  PROVE  WakeInv'
<1>1. BufferType'
  BY BoundsAssumption DEF WakeInv, TypeOK, BufferType, QueueThunk, bufferVars, Events
<1>2. LoopsType'
  BY BoundsAssumption DEF WakeInv, TypeOK, LoopsType, QueueThunk, bufferVars
<1>3. QueueType'
  BY BoundsAssumption DEF WakeInv, TypeOK, BufferType, QueueType, QueueThunk, Thunks, IsEvent
<1>4. NoLostWakeup'
  BY DEF WakeInv, TypeOK, BufferType, NoLostWakeup, QueueThunk, bufferVars
<1>5. BatchQueued'
  BY DEF WakeInv, BatchQueued, QueueThunk
<1>6. Drained'
  BY DEF WakeInv, NoLostWakeup, BatchQueued, Drained, QueueThunk, Alive, bufferVars
<1> QED BY <1>1, <1>2, <1>3, <1>4, <1>5, <1>6 DEF WakeInv, TypeOK

\* Without a signal there are no events in the buffer that was closed.
LEMMA ObserverClosedWake ==
  ASSUME WakeInv, ObserverClosed
  PROVE  WakeInv'
<1>1. BufferType'
  BY BoundsAssumption DEF WakeInv, TypeOK, BufferType, ObserverClosed, bufferVars, Events
<1>2. LoopsType'
  BY BoundsAssumption DEF WakeInv, TypeOK, LoopsType, ObserverClosed, bufferVars
<1>3. QueueType'
  BY BoundsAssumption
     DEF WakeInv, TypeOK, BufferType, QueueType, ObserverClosed, Thunks, IsEvent
<1>4. NoLostWakeup'
  BY DEF WakeInv, TypeOK, BufferType, NoLostWakeup, ObserverClosed, bufferVars
<1>5. BatchQueued'
  BY DEF WakeInv, BatchQueued, ObserverClosed
<1>6. Drained'
  BY DEF WakeInv, NoLostWakeup, BatchQueued, Drained, ObserverClosed, Alive, bufferVars
<1> QED BY <1>1, <1>2, <1>3, <1>4, <1>5, <1>6 DEF WakeInv, TypeOK

\* The main loop ends with nothing left to queue.
LEMMA HandleStopWake ==
  ASSUME WakeInv, HandleStop
  PROVE  WakeInv'
<1>1. BufferType'
  BY BoundsAssumption DEF WakeInv, TypeOK, BufferType, HandleStop, bufferVars, Events
<1>2. LoopsType'
  BY BoundsAssumption DEF WakeInv, TypeOK, LoopsType, HandleStop, bufferVars
<1>3. QueueType'
  BY BoundsAssumption DEF WakeInv, TypeOK, BufferType, QueueType, HandleStop, Thunks, IsEvent
<1>4. NoLostWakeup'
  BY DEF WakeInv, TypeOK, BufferType, NoLostWakeup, HandleStop, bufferVars
<1>5. BatchQueued'
  BY DEF WakeInv, BatchQueued, HandleStop
<1>6. Drained'
  BY DEF WakeInv, NoLostWakeup, BatchQueued, Drained, HandleStop, Alive, bufferVars
<1> QED BY <1>1, <1>2, <1>3, <1>4, <1>5, <1>6 DEF WakeInv, TypeOK

\* The sync loop takes a thunk.
LEMMA TakeThunkWake ==
  ASSUME WakeInv, TakeThunk
  PROVE  WakeInv'
<1>1. BufferType'
  BY BoundsAssumption DEF WakeInv, TypeOK, BufferType, TakeThunk, bufferVars, Events
<1>2. LoopsType'
  BY BoundsAssumption DEF WakeInv, TypeOK, LoopsType, TakeThunk, bufferVars
<1>3. QueueType'
  BY BoundsAssumption DEF WakeInv, TypeOK, BufferType, QueueType, TakeThunk, Thunks, IsEvent
<1>4. NoLostWakeup'
  BY DEF WakeInv, TypeOK, BufferType, NoLostWakeup, TakeThunk, bufferVars
<1>5. BatchQueued'
  BY DEF WakeInv, BatchQueued, TakeThunk
<1>6. Drained'
  BY DEF WakeInv, NoLostWakeup, BatchQueued, Drained, TakeThunk, Alive, bufferVars
<1> QED BY <1>1, <1>2, <1>3, <1>4, <1>5, <1>6 DEF WakeInv, TypeOK

\* A script pushes as the driver does.
LEMMA ScriptPushWake ==
  ASSUME WakeInv, ScriptPush
  PROVE  WakeInv'
<1>1. BufferType'
  BY BoundsAssumption
     DEF WakeInv, TypeOK, BufferType, ScriptPush, PushEvent, bufferVars, Events
<1>2. LoopsType'
  BY BoundsAssumption DEF WakeInv, TypeOK, LoopsType, ScriptPush, PushEvent, bufferVars
<1>3. QueueType'
  BY BoundsAssumption
     DEF WakeInv, TypeOK, BufferType, QueueType, ScriptPush, PushEvent, Thunks, IsEvent
<1>4. NoLostWakeup'
  BY DEF WakeInv, TypeOK, BufferType, NoLostWakeup, ScriptPush, PushEvent, bufferVars
<1>5. BatchQueued'
  BY DEF WakeInv, BatchQueued, ScriptPush, PushEvent
<1>6. Drained'
  BY DEF WakeInv, NoLostWakeup, BatchQueued, Drained, ScriptPush, PushEvent, Alive, bufferVars
<1> QED BY <1>1, <1>2, <1>3, <1>4, <1>5, <1>6 DEF WakeInv, TypeOK

\* The sync loop is free again.
LEMMA ThunkReturnsWake ==
  ASSUME WakeInv, ThunkReturns
  PROVE  WakeInv'
<1>1. BufferType'
  BY BoundsAssumption DEF WakeInv, TypeOK, BufferType, ThunkReturns, bufferVars, Events
<1>2. LoopsType'
  BY BoundsAssumption DEF WakeInv, TypeOK, LoopsType, ThunkReturns, bufferVars
<1>3. QueueType'
  BY BoundsAssumption DEF WakeInv, TypeOK, BufferType, QueueType, ThunkReturns, Thunks, IsEvent
<1>4. NoLostWakeup'
  BY DEF WakeInv, TypeOK, BufferType, NoLostWakeup, ThunkReturns, bufferVars
<1>5. BatchQueued'
  BY DEF WakeInv, BatchQueued, ThunkReturns
<1>6. Drained'
  BY DEF WakeInv, NoLostWakeup, BatchQueued, Drained, ThunkReturns, Alive, bufferVars
<1> QED BY <1>1, <1>2, <1>3, <1>4, <1>5, <1>6 DEF WakeInv, TypeOK

\* The sync loop ends.
LEMMA SyncLoopQuitsWake ==
  ASSUME WakeInv, SyncLoopQuits
  PROVE  WakeInv'
<1>1. BufferType'
  BY BoundsAssumption DEF WakeInv, TypeOK, BufferType, SyncLoopQuits, bufferVars, Events
<1>2. LoopsType'
  BY BoundsAssumption DEF WakeInv, TypeOK, LoopsType, SyncLoopQuits, bufferVars
<1>3. QueueType'
  BY BoundsAssumption
     DEF WakeInv, TypeOK, BufferType, QueueType, SyncLoopQuits, Thunks, IsEvent
<1>4. NoLostWakeup'
  BY DEF WakeInv, TypeOK, BufferType, NoLostWakeup, SyncLoopQuits, bufferVars
<1>5. BatchQueued'
  BY DEF WakeInv, BatchQueued, SyncLoopQuits
<1>6. Drained'
  BY DEF WakeInv, NoLostWakeup, BatchQueued, Drained, SyncLoopQuits, Alive, bufferVars
<1> QED BY <1>1, <1>2, <1>3, <1>4, <1>5, <1>6 DEF WakeInv, TypeOK

\* Another goroutine queues a thunk if there is room, or ends the process.
LEMMA CallSyncWake ==
  ASSUME WakeInv, CallSync
  PROVE  WakeInv'
<1>1. BufferType'
  BY BoundsAssumption DEF WakeInv, TypeOK, BufferType, CallSync, bufferVars, Events
<1>2. LoopsType'
  BY BoundsAssumption DEF WakeInv, TypeOK, LoopsType, CallSync, bufferVars
<1>3. QueueType'
  <2>1. syncQueue \in Seq(Thunks) /\ Len(syncQueue) <= QueueLen /\ OtherThunk \in Thunks
    BY DEF WakeInv, TypeOK, QueueType, Thunks
  <2>2. \/ syncQueue' = syncQueue
        \/ Len(syncQueue) < QueueLen /\ syncQueue' = Append(syncQueue, OtherThunk)
    BY DEF CallSync
  <2>3. syncQueue' \in Seq(Thunks) /\ Len(syncQueue') <= QueueLen
    BY <2>1, <2>2, BoundsAssumption
  <2> QED BY <2>3 DEF WakeInv, TypeOK, QueueType, CallSync
<1>4. NoLostWakeup'
  BY DEF WakeInv, TypeOK, BufferType, NoLostWakeup, CallSync, bufferVars
<1>5. BatchQueued'
  BY DEF WakeInv, BatchQueued, CallSync
<1>6. Drained'
  BY DEF WakeInv, NoLostWakeup, BatchQueued, Drained, CallSync, Alive, bufferVars
<1> QED BY <1>1, <1>2, <1>3, <1>4, <1>5, <1>6 DEF WakeInv, TypeOK

\* Stop makes the engine inactive,
LEMMA DeactivateWake ==
  ASSUME WakeInv, Deactivate
  PROVE  WakeInv'
<1>1. BufferType'
  BY BoundsAssumption DEF WakeInv, TypeOK, BufferType, Deactivate, bufferVars, Events
<1>2. LoopsType'
  BY BoundsAssumption DEF WakeInv, TypeOK, LoopsType, Deactivate, bufferVars
<1>3. QueueType'
  BY BoundsAssumption DEF WakeInv, TypeOK, BufferType, QueueType, Deactivate, Thunks, IsEvent
<1>4. NoLostWakeup'
  BY DEF WakeInv, TypeOK, BufferType, NoLostWakeup, Deactivate, bufferVars
<1>5. BatchQueued'
  BY DEF WakeInv, BatchQueued, Deactivate
<1>6. Drained'
  BY DEF WakeInv, NoLostWakeup, BatchQueued, Drained, Deactivate, Alive, bufferVars
<1> QED BY <1>1, <1>2, <1>3, <1>4, <1>5, <1>6 DEF WakeInv, TypeOK

\* closes the buffer,
LEMMA CloseBufferWake ==
  ASSUME WakeInv, CloseBuffer
  PROVE  WakeInv'
<1>1. BufferType'
  BY BoundsAssumption DEF WakeInv, TypeOK, BufferType, CloseBuffer, bufferVars, Events
<1>2. LoopsType'
  BY BoundsAssumption DEF WakeInv, TypeOK, LoopsType, CloseBuffer, bufferVars
<1>3. QueueType'
  BY BoundsAssumption DEF WakeInv, TypeOK, BufferType, QueueType, CloseBuffer, Thunks, IsEvent
<1>4. NoLostWakeup'
  BY DEF WakeInv, TypeOK, BufferType, NoLostWakeup, CloseBuffer, bufferVars
<1>5. BatchQueued'
  BY DEF WakeInv, BatchQueued, CloseBuffer
<1>6. Drained'
  BY DEF WakeInv, NoLostWakeup, BatchQueued, Drained, CloseBuffer, Alive, bufferVars
<1> QED BY <1>1, <1>2, <1>3, <1>4, <1>5, <1>6 DEF WakeInv, TypeOK

\* asks the sync loop to end
LEMMA AskSyncLoopWake ==
  ASSUME WakeInv, AskSyncLoop
  PROVE  WakeInv'
<1>1. BufferType'
  BY BoundsAssumption DEF WakeInv, TypeOK, BufferType, AskSyncLoop, bufferVars, Events
<1>2. LoopsType'
  BY BoundsAssumption DEF WakeInv, TypeOK, LoopsType, AskSyncLoop, bufferVars
<1>3. QueueType'
  BY BoundsAssumption DEF WakeInv, TypeOK, BufferType, QueueType, AskSyncLoop, Thunks, IsEvent
<1>4. NoLostWakeup'
  BY DEF WakeInv, TypeOK, BufferType, NoLostWakeup, AskSyncLoop, bufferVars
<1>5. BatchQueued'
  BY DEF WakeInv, BatchQueued, AskSyncLoop
<1>6. Drained'
  BY DEF WakeInv, NoLostWakeup, BatchQueued, Drained, AskSyncLoop, Alive, bufferVars
<1> QED BY <1>1, <1>2, <1>3, <1>4, <1>5, <1>6 DEF WakeInv, TypeOK

\* and takes one value from the sync queue.
LEMMA StopReturnsWake ==
  ASSUME WakeInv, StopReturns
  PROVE  WakeInv'
<1>1. BufferType'
  BY BoundsAssumption DEF WakeInv, TypeOK, BufferType, StopReturns, bufferVars, Events
<1>2. LoopsType'
  BY BoundsAssumption DEF WakeInv, TypeOK, LoopsType, StopReturns, bufferVars
<1>3. QueueType'
  BY BoundsAssumption DEF WakeInv, TypeOK, BufferType, QueueType, StopReturns, Thunks, IsEvent
<1>4. NoLostWakeup'
  BY DEF WakeInv, TypeOK, BufferType, NoLostWakeup, StopReturns, bufferVars
<1>5. BatchQueued'
  BY DEF WakeInv, BatchQueued, StopReturns
<1>6. Drained'
  BY DEF WakeInv, NoLostWakeup, BatchQueued, Drained, StopReturns, Alive, bufferVars
<1> QED BY <1>1, <1>2, <1>3, <1>4, <1>5, <1>6 DEF WakeInv, TypeOK

-----------------------------------------------------------------------------
(* The order of the events on their way *)

\* The newest event that the main loop has retrieved.
Retrieved == pushed - Len(buffer)

\* The event that the rules are to see next.
Due == dropped + Len(run) + 1

\* The events of a sequence of thunks get newer.
Ordered(s) ==
  \A j, k \in DOMAIN s : j < k /\ IsEvent(s[j]) /\ IsEvent(s[k]) => s[j] < s[k]

\* Every thunk of an event is for one that is due or will be.
Outstanding(s) == \A j \in DOMAIN s : IsEvent(s[j]) => Due <= s[j] /\ s[j] <= Retrieved

\* The sync queue and the batch hold the retrieved events that the rules have not seen,
\* each of them, the older ones first.
QueueOrder ==
  /\ Ordered(syncQueue) /\ Ordered(batch)
  /\ Outstanding(syncQueue) /\ Outstanding(batch)
  /\ \A j \in DOMAIN syncQueue, k \in DOMAIN batch :
       IsEvent(syncQueue[j]) /\ IsEvent(batch[k]) => syncQueue[j] < batch[k]
  /\ \A e \in Due .. Retrieved :
       (\E j \in DOMAIN syncQueue : syncQueue[j] = e) \/ (\E k \in DOMAIN batch : batch[k] = e)
  /\ Due <= Retrieved + 1

\* The buffer holds the newest events in order.
BufferOrder ==
  /\ Len(buffer) <= pushed
  /\ \A j \in DOMAIN buffer : buffer[j] = Retrieved + j
  /\ dropped <= Retrieved

\* Until the engine is ready all the events that were retrieved have been dropped.
NotReady ==
  main \in {"wait", "dropping"} =>
    /\ dropped = Retrieved /\ run = <<>>
    /\ \A j \in DOMAIN syncQueue : ~ IsEvent(syncQueue[j])

OrderInv ==
  /\ BufferOrder /\ NotReady
  /\ stopper # "returned" => QueueOrder
  /\ stopper = "returned" => quit = "done"

\* The numbers and sequences that these conditions are about.
LEMMA Numbers ==
  ASSUME TypeOK
  PROVE  /\ pushed \in Nat /\ dropped \in Nat /\ Len(run) \in Nat /\ Len(buffer) \in Nat
         /\ Due \in Nat /\ Retrieved \in Int
         /\ buffer \in Seq(Events) /\ batch \in Seq(Thunks) /\ syncQueue \in Seq(Thunks)
         /\ Events \subseteq Nat /\ OtherThunk \in Thunks /\ ~ IsEvent(OtherThunk)
<1>1. pushed \in Nat /\ dropped \in Nat /\ buffer \in Seq(Events)
  BY DEF TypeOK, BufferType
<1>2. run \in Seq(Events) /\ batch \in Seq(Thunks) /\ syncQueue \in Seq(Thunks)
  BY DEF TypeOK, QueueType
<1>3. Len(run) \in Nat /\ Len(buffer) \in Nat
  BY <1>1, <1>2
<1>4. Due \in Nat /\ Retrieved \in Int
  BY <1>1, <1>3 DEF Due, Retrieved
<1>5. Events \subseteq Nat
  BY DEF Events
<1>6. OtherThunk \in Thunks /\ ~ IsEvent(OtherThunk)
  BY BoundsAssumption DEF Thunks, IsEvent
<1> QED BY <1>1, <1>2, <1>3, <1>4, <1>5, <1>6

\* What a sequence becomes when an element is put at its end.
LEMMA Appended ==
  ASSUME NEW S, NEW s \in Seq(S), NEW x \in S, NEW t, t = Append(s, x)
  PROVE  /\ t \in Seq(S) /\ Len(t) = Len(s) + 1
         /\ DOMAIN t = DOMAIN s \cup {Len(t)} /\ t[Len(t)] = x
         /\ \A j \in DOMAIN s : t[j] = s[j] /\ j \in Nat /\ j < Len(t)
OBVIOUS

\* What a sequence becomes when its first element is taken.
LEMMA Taken ==
  ASSUME NEW S, NEW s \in Seq(S), s # <<>>, NEW t, t = Tail(s)
  PROVE  /\ t \in Seq(S) /\ Head(s) = s[1] /\ 1 \in DOMAIN s
         /\ \A j \in DOMAIN s : j \in Nat /\ 1 <= j
         /\ \A j \in DOMAIN t :
              j \in Nat /\ 1 <= j /\ j + 1 \in DOMAIN s /\ t[j] = s[j + 1]
         /\ \A j \in DOMAIN s : j # 1 => j - 1 \in DOMAIN t /\ t[j - 1] = s[j]
OBVIOUS

\* Start leaves no event anywhere.
LEMMA InitOrder == Init => OrderInv
<1> SUFFICES ASSUME Init PROVE OrderInv
  OBVIOUS
<1>1. /\ pushed = 0 /\ dropped = 0 /\ buffer = <<>> /\ run = <<>> /\ batch = <<>>
      /\ syncQueue = <<>> /\ stopper = "idle"
  BY DEF Init
<1>2. Due = 1 /\ Retrieved = 0
  <2>1. Len(run) = 0 /\ Len(buffer) = 0
    BY <1>1
  <2>2. Due = 0 + 0 + 1 /\ Retrieved = 0 - 0
    BY <1>1, <2>1 DEF Due, Retrieved
  <2> QED BY <2>2
<1>3. BufferOrder /\ NotReady
  BY <1>1, <1>2 DEF BufferOrder, NotReady
<1>4. QueueOrder
  BY <1>1, <1>2 DEF QueueOrder, Ordered, Outstanding
<1> QED BY <1>1, <1>3, <1>4 DEF OrderInv

\* Steps that move no event.
LEMMA IdleOrder ==
  ASSUME OrderInv, UNCHANGED <<pushed, buffer, batch, syncQueue, run, dropped>>,
         main' \in {"wait", "dropping"} => main \in {"wait", "dropping"},
         stopper' = "returned" => stopper = "returned" /\ quit' = quit,
         stopper = "returned" => stopper' = "returned"
  PROVE  OrderInv'
<1>1. Due' = Due /\ Retrieved' = Retrieved
  BY DEF Due, Retrieved
<1>2. BufferOrder' /\ NotReady'
  BY <1>1 DEF OrderInv, BufferOrder, NotReady
<1>3. QueueOrder => QueueOrder'
  BY <1>1 DEF QueueOrder, Ordered, Outstanding
<1> QED BY <1>2, <1>3 DEF OrderInv

\* A pushed event is the newest one in the buffer.
LEMMA PushFacts ==
  ASSUME BufferType, NEW g, PushEvent(g)
  PROVE  pushed' = pushed + 1 /\ pushed' \in Events /\ buffer' = Append(buffer, pushed')
BY BoundsAssumption DEF BufferType, PushEvent, Events

\* The driver or a script pushes an event.
LEMMA PushOrder ==
  ASSUME TypeOK, OrderInv, NEW g, PushEvent(g),
         UNCHANGED <<main, batch, syncQueue, run, dropped, stopper, quit>>
  PROVE  OrderInv'
<1>1. /\ pushed' = pushed + 1 /\ pushed' \in Events
      /\ buffer' = Append(buffer, pushed')
  BY PushFacts DEF TypeOK
<1>2. /\ Len(buffer') = Len(buffer) + 1 /\ DOMAIN buffer' = DOMAIN buffer \cup {Len(buffer')}
      /\ buffer'[Len(buffer')] = pushed' /\ \A j \in DOMAIN buffer : buffer'[j] = buffer[j]
  BY <1>1, Numbers, Appended
<1>3. Due' = Due /\ Retrieved' = Retrieved
  BY <1>1, <1>2, Numbers DEF Due, Retrieved
<1>4. BufferOrder'
  <2>1. Len(buffer) <= pushed /\ dropped <= Retrieved
        /\ \A j \in DOMAIN buffer : buffer[j] = Retrieved + j
    BY DEF OrderInv, BufferOrder
  <2>2. Len(buffer') <= pushed' /\ pushed' = Retrieved + Len(buffer')
    BY <1>1, <1>2, <2>1, Numbers DEF Retrieved
  <2>3. \A j \in DOMAIN buffer' : buffer'[j] = Retrieved' + j
    BY <1>2, <1>3, <2>1, <2>2
  <2> QED BY <1>3, <2>1, <2>2, <2>3 DEF BufferOrder
<1>5. NotReady'
  BY <1>3 DEF OrderInv, NotReady
<1>6. QueueOrder => QueueOrder'
  BY <1>3 DEF QueueOrder, Ordered, Outstanding
<1> QED BY <1>4, <1>5, <1>6 DEF OrderInv

\* Setup holds no events.
LEMMA LeaveReadyWaitOrder ==
  ASSUME WakeInv, OrderInv, LeaveReadyWait
  PROVE  OrderInv'
<1>1. /\ UNCHANGED <<pushed, buffer, syncQueue, run, dropped, stopper, quit>>
      /\ main' = "loop" /\ batch' = Setup /\ batch = <<>>
  BY DEF LeaveReadyWait, bufferVars, WakeInv, BatchQueued
<1>2. Due' = Due /\ Retrieved' = Retrieved
  BY <1>1 DEF Due, Retrieved
<1>3. BufferOrder' /\ NotReady'
  BY <1>1, <1>2 DEF OrderInv, BufferOrder, NotReady
<1>4. \A j \in DOMAIN batch' : ~ IsEvent(batch'[j])
  BY <1>1, Numbers DEF Setup, WakeInv
<1>5. QueueOrder => QueueOrder'
  BY <1>1, <1>2, <1>4 DEF QueueOrder, Ordered, Outstanding
<1> QED BY <1>1, <1>3, <1>5 DEF OrderInv

\* The ReadyWaitLoop drops what is in the buffer.
LEMMA DropEventsOrder ==
  ASSUME WakeInv, OrderInv, DropEvents
  PROVE  OrderInv'
<1>1. /\ UNCHANGED <<pushed, batch, syncQueue, run, stopper, quit>>
      /\ buffer' = <<>> /\ dropped' = dropped + Len(buffer) /\ main = "dropping"
  BY DEF DropEvents, Retrieve
<1>2. batch = <<>>
  BY <1>1 DEF WakeInv, BatchQueued
<1>3. dropped = Retrieved /\ run = <<>> /\ \A j \in DOMAIN syncQueue : ~ IsEvent(syncQueue[j])
  BY <1>1 DEF OrderInv, NotReady
<1>4. Retrieved' = pushed /\ dropped' = Retrieved' /\ Due' = Retrieved' + 1
  BY <1>1, <1>3, Numbers DEF Retrieved, Due, WakeInv
<1>5. BufferOrder'
  BY <1>1, <1>4, Numbers DEF BufferOrder, WakeInv
<1>6. NotReady'
  BY <1>1, <1>3, <1>4 DEF NotReady
<1>7. QueueOrder'
  BY <1>1, <1>2, <1>3, <1>4, Numbers DEF QueueOrder, Ordered, Outstanding, WakeInv
<1> QED BY <1>1, <1>5, <1>6, <1>7 DEF OrderInv

\* The buffer's events become the batch.
LEMMA RetrieveEventsOrder ==
  ASSUME WakeInv, OrderInv, RetrieveEvents
  PROVE  OrderInv'
<1>1. /\ UNCHANGED <<pushed, syncQueue, run, dropped, stopper, quit>>
      /\ buffer' = <<>> /\ batch' = buffer /\ main = "retrieving" /\ main' = "loop"
  BY DEF RetrieveEvents, Retrieve
<1>2. batch = <<>>
  BY <1>1 DEF WakeInv, BatchQueued
<1>3. Retrieved' = pushed /\ Due' = Due /\ Retrieved <= Retrieved'
  BY <1>1, Numbers DEF Retrieved, Due, WakeInv
<1>4. BufferOrder' /\ NotReady'
  BY <1>1, <1>3, Numbers DEF OrderInv, BufferOrder, NotReady, WakeInv
<1>5. ASSUME QueueOrder PROVE QueueOrder'
  <2>1. \A j \in DOMAIN buffer : j \in Nat /\ 1 <= j /\ j <= Len(buffer)
    BY Numbers DEF WakeInv
  <2>2. \A j \in DOMAIN batch' : batch'[j] = Retrieved + j
    BY <1>1 DEF OrderInv, BufferOrder
  <2>3. Ordered(batch')
    BY <1>1, <2>1, <2>2, Numbers DEF Ordered, WakeInv
  <2>4. Outstanding(batch)'
    <3>1. Due <= Retrieved + 1 /\ pushed = Retrieved + Len(buffer)
      BY <1>5, Numbers DEF QueueOrder, Retrieved, WakeInv
    <3>2. Due \in Nat /\ Retrieved \in Int /\ pushed \in Nat /\ Len(buffer) \in Nat
      BY Numbers DEF Retrieved, WakeInv
    <3>3. \A j \in DOMAIN batch' : Due <= batch'[j] /\ batch'[j] <= pushed
      <4> SUFFICES ASSUME NEW j \in DOMAIN buffer
                   PROVE  Due <= Retrieved + j /\ Retrieved + j <= pushed
        BY <1>1, <2>2
      <4>1. j \in Nat /\ 1 <= j /\ j <= Len(buffer)
        BY <2>1
      <4> QED BY <3>1, <3>2, <4>1
    <3> QED BY <1>3, <3>3 DEF Outstanding
  <2>5. Ordered(syncQueue)' /\ Outstanding(syncQueue)'
    <3>1. \A j \in DOMAIN syncQueue : IsEvent(syncQueue[j]) =>
            /\ Due <= syncQueue[j] /\ syncQueue[j] <= Retrieved /\ syncQueue[j] \in Nat
      BY <1>5, Numbers DEF QueueOrder, Outstanding, IsEvent, WakeInv
    <3>2. \A j \in DOMAIN syncQueue : IsEvent(syncQueue[j]) => syncQueue[j] <= Retrieved'
      BY <1>3, <3>1, Numbers DEF WakeInv
    <3> QED BY <1>1, <1>3, <1>5, <3>1, <3>2 DEF QueueOrder, Ordered, Outstanding
  <2>6. ASSUME NEW j \in DOMAIN syncQueue', NEW k \in DOMAIN batch',
               IsEvent(syncQueue'[j]), IsEvent(batch'[k])
        PROVE  syncQueue'[j] < batch'[k]
    <3>1. syncQueue'[j] <= Retrieved /\ syncQueue'[j] \in Nat
      BY <1>1, <1>5, <2>6, Numbers DEF QueueOrder, Outstanding, IsEvent, WakeInv
    <3>2. k \in Nat /\ 1 <= k /\ batch'[k] = Retrieved + k
      BY <1>1, <2>1, <2>2, <2>6
    <3> QED BY <3>1, <3>2, Numbers DEF WakeInv
  <2>7. ASSUME NEW e \in Due' .. Retrieved'
        PROVE  \/ \E j \in DOMAIN syncQueue' : syncQueue'[j] = e
               \/ \E k \in DOMAIN batch' : batch'[k] = e
    <3>1. CASE e <= Retrieved
      BY <1>1, <1>2, <1>3, <1>5, <3>1, Numbers DEF QueueOrder, WakeInv
    <3>2. CASE e > Retrieved
      <4>1. e - Retrieved \in 1 .. Len(buffer)
        BY <1>3, <3>2, Numbers DEF Retrieved, WakeInv
      <4>2. e - Retrieved \in DOMAIN batch' /\ e \in Int /\ Retrieved \in Int
        BY <1>1, <1>3, <4>1, Numbers DEF Retrieved, WakeInv
      <4>3. batch'[e - Retrieved] = Retrieved + (e - Retrieved)
        BY <2>2, <4>2
      <4> QED BY <4>2, <4>3
    <3> QED BY <3>1, <3>2, Numbers DEF WakeInv
  <2>8. Due' <= Retrieved' + 1
    BY <1>3, <1>5, Numbers DEF QueueOrder, WakeInv
  <2> QED BY <2>3, <2>4, <2>5, <2>6, <2>7, <2>8 DEF QueueOrder
<1> QED BY <1>1, <1>4, <1>5 DEF OrderInv

\* The oldest thunk of the batch becomes the newest in the sync queue.
LEMMA QueueThunkOrder ==
  ASSUME WakeInv, OrderInv, QueueThunk
  PROVE  OrderInv'
<1>1. /\ UNCHANGED <<pushed, buffer, run, dropped, stopper, quit, main>>
      /\ batch # <<>> /\ syncQueue' = Append(syncQueue, Head(batch)) /\ batch' = Tail(batch)
  BY DEF QueueThunk, bufferVars
<1>2. Due' = Due /\ Retrieved' = Retrieved
  BY <1>1 DEF Due, Retrieved
<1>3. BufferOrder' /\ NotReady'
  BY <1>1, <1>2 DEF OrderInv, BufferOrder, NotReady, WakeInv, BatchQueued
<1>4. /\ Head(batch) = batch[1] /\ 1 \in DOMAIN batch
      /\ \A j \in DOMAIN batch : j \in Nat /\ 1 <= j
      /\ \A j \in DOMAIN batch' :
           j \in Nat /\ 1 <= j /\ j + 1 \in DOMAIN batch /\ batch'[j] = batch[j + 1]
      /\ \A j \in DOMAIN batch : j # 1 => j - 1 \in DOMAIN batch' /\ batch'[j - 1] = batch[j]
  <2>1. batch \in Seq(Thunks) /\ batch # <<>> /\ batch' = Tail(batch)
    BY <1>1, Numbers DEF WakeInv
  <2> QED BY <2>1, Taken
<1>5. /\ DOMAIN syncQueue' = DOMAIN syncQueue \cup {Len(syncQueue')}
      /\ syncQueue'[Len(syncQueue')] = batch[1]
      /\ \A j \in DOMAIN syncQueue :
           syncQueue'[j] = syncQueue[j] /\ j \in Nat /\ j < Len(syncQueue')
      /\ Len(syncQueue') \in Nat
  BY <1>1, <1>4, Numbers, Appended DEF WakeInv
<1>6. ASSUME QueueOrder PROVE QueueOrder'
  <2>1. Ordered(syncQueue)'
    <3> SUFFICES ASSUME NEW j \in DOMAIN syncQueue', NEW k \in DOMAIN syncQueue', j < k,
                        IsEvent(syncQueue'[j]), IsEvent(syncQueue'[k])
                 PROVE  syncQueue'[j] < syncQueue'[k]
      BY DEF Ordered
    <3>1. j \in DOMAIN syncQueue
      <4>1. syncQueue' \in Seq(Thunks)
        BY <1>1, <1>4, Numbers, Appended DEF WakeInv
      <4>2. j \in Nat /\ k \in Nat /\ k <= Len(syncQueue')
        BY <4>1
      <4>3. j # Len(syncQueue')
        BY <4>1, <4>2
      <4> QED BY <1>5, <4>3
    <3>2. CASE k \in DOMAIN syncQueue
      BY <1>5, <1>6, <3>1, <3>2 DEF QueueOrder, Ordered
    <3>3. CASE k = Len(syncQueue')
      BY <1>4, <1>5, <1>6, <3>1, <3>3 DEF QueueOrder
    <3> QED BY <1>5, <3>2, <3>3
  <2>2. Ordered(batch)'
    BY <1>4, <1>6 DEF QueueOrder, Ordered
  <2>3. Outstanding(syncQueue)' /\ Outstanding(batch)'
    BY <1>2, <1>4, <1>5, <1>6 DEF QueueOrder, Outstanding
  <2>4. ASSUME NEW j \in DOMAIN syncQueue', NEW k \in DOMAIN batch',
               IsEvent(syncQueue'[j]), IsEvent(batch'[k])
        PROVE  syncQueue'[j] < batch'[k]
    <3>1. k + 1 \in DOMAIN batch /\ 1 < k + 1 /\ batch'[k] = batch[k + 1]
      BY <1>4, <2>4
    <3>2. CASE j \in DOMAIN syncQueue
      BY <1>5, <1>6, <2>4, <3>1, <3>2 DEF QueueOrder
    <3>3. CASE j = Len(syncQueue')
      BY <1>4, <1>5, <1>6, <2>4, <3>1, <3>3 DEF QueueOrder, Ordered
    <3> QED BY <1>5, <3>2, <3>3
  <2>5. ASSUME NEW e \in Due .. Retrieved
        PROVE  \/ \E j \in DOMAIN syncQueue' : syncQueue'[j] = e
               \/ \E k \in DOMAIN batch' : batch'[k] = e
    <3>1. CASE \E j \in DOMAIN syncQueue : syncQueue[j] = e
      BY <1>5, <3>1
    <3>2. CASE \E k \in DOMAIN batch : batch[k] = e
      <4>1. PICK k \in DOMAIN batch : batch[k] = e
        BY <3>2
      <4>2. CASE k = 1
        BY <1>5, <4>1, <4>2
      <4>3. CASE k # 1
        BY <1>4, <4>1, <4>3
      <4> QED BY <4>2, <4>3
    <3> QED BY <1>6, <2>5, <3>1, <3>2 DEF QueueOrder
  <2> QED BY <1>2, <1>6, <2>1, <2>2, <2>3, <2>4, <2>5 DEF QueueOrder
<1> QED BY <1>1, <1>3, <1>6 DEF OrderInv

\* The thunk of an event that the sync loop takes is that of the event that is due.
LEMMA TakenIsDue ==
  ASSUME WakeInv, OrderInv, TakeThunk, IsEvent(Head(syncQueue))
  PROVE  stopper # "returned" /\ Head(syncQueue) = Due /\ Due <= Retrieved
<1>1. syncQueue # <<>> /\ quit # "done"
  BY DEF TakeThunk
<1>2. stopper # "returned" /\ QueueOrder
  BY <1>1 DEF OrderInv
<1>3. /\ 1 \in DOMAIN syncQueue /\ Head(syncQueue) = syncQueue[1]
      /\ \A j \in DOMAIN syncQueue : j \in Nat /\ 1 <= j
  BY <1>1, Numbers, Taken DEF WakeInv
<1>4. Due <= syncQueue[1] /\ syncQueue[1] <= Retrieved /\ syncQueue[1] \in Nat
  BY <1>2, <1>3, Numbers DEF QueueOrder, Outstanding, IsEvent, WakeInv
<1>5. Due \in Due .. Retrieved /\ Due \in Nat /\ IsEvent(Due)
  <2>1. Due \in Due .. Retrieved /\ Due \in Nat /\ 1 <= Due
    BY <1>4, Numbers DEF WakeInv, Due
  <2>2. syncQueue[1] \in 1 .. MaxEvents /\ MaxEvents \in Nat
    BY <1>3, BoundsAssumption DEF IsEvent, Events
  <2> QED BY <1>4, <2>1, <2>2 DEF IsEvent, Events
<1>6. CASE \E j \in DOMAIN syncQueue : syncQueue[j] = Due
  BY <1>2, <1>3, <1>4, <1>5, <1>6 DEF QueueOrder, Ordered
<1>7. CASE \E k \in DOMAIN batch : batch[k] = Due
  BY <1>2, <1>3, <1>4, <1>5, <1>7 DEF QueueOrder
<1> QED BY <1>2, <1>4, <1>5, <1>6, <1>7 DEF QueueOrder

\* The sync loop takes the oldest thunk.
LEMMA TakeThunkOrder ==
  ASSUME WakeInv, OrderInv, TakeThunk
  PROVE  OrderInv'
<1> DEFINE t == Head(syncQueue)
<1>1. /\ UNCHANGED <<pushed, buffer, batch, dropped, stopper, quit, main>>
      /\ syncQueue # <<>> /\ syncQueue' = Tail(syncQueue) /\ quit # "done"
      /\ run' = IF IsEvent(t) THEN Append(run, t) ELSE run
  BY DEF TakeThunk, bufferVars
<1>2. /\ t = syncQueue[1] /\ 1 \in DOMAIN syncQueue
      /\ \A j \in DOMAIN syncQueue : j \in Nat /\ 1 <= j
      /\ \A j \in DOMAIN syncQueue' :
           /\ j \in Nat /\ 1 <= j /\ j + 1 \in DOMAIN syncQueue
           /\ syncQueue'[j] = syncQueue[j + 1]
      /\ \A j \in DOMAIN syncQueue :
           j # 1 => j - 1 \in DOMAIN syncQueue' /\ syncQueue'[j - 1] = syncQueue[j]
  <2>1. syncQueue \in Seq(Thunks) /\ syncQueue # <<>> /\ syncQueue' = Tail(syncQueue)
    BY <1>1, Numbers DEF WakeInv
  <2> QED BY <2>1, Taken
<1>3. stopper # "returned" /\ QueueOrder
  BY <1>1 DEF OrderInv
<1>4. IsEvent(t) => t = Due /\ Due' = Due + 1 /\ Due <= Retrieved
  <2>1. IsEvent(t) => t = Due /\ Due <= Retrieved
    BY TakenIsDue
  <2>2. IsEvent(t) => Len(run') = Len(run) + 1
    BY <1>1 DEF WakeInv, TypeOK, QueueType, IsEvent
  <2> QED BY <1>1, <2>1, <2>2, Numbers DEF Due, WakeInv
<1>5. ~ IsEvent(t) => Due' = Due
  BY <1>1 DEF Due
<1>6. Retrieved' = Retrieved
  BY <1>1 DEF Retrieved
<1>7. BufferOrder'
  BY <1>1, <1>6 DEF OrderInv, BufferOrder
<1>8. NotReady'
  BY <1>1, <1>2, <1>6 DEF OrderInv, NotReady
<1>9. Ordered(syncQueue)' /\ Ordered(batch)'
  BY <1>1, <1>2, <1>3 DEF QueueOrder, Ordered
<1>10. \A j \in DOMAIN syncQueue' : IsEvent(syncQueue'[j]) =>
         /\ Due <= syncQueue'[j] /\ syncQueue'[j] <= Retrieved /\ syncQueue'[j] \in Nat
         /\ IsEvent(t) => Due < syncQueue'[j]
  <2> SUFFICES ASSUME NEW j \in DOMAIN syncQueue', IsEvent(syncQueue'[j])
               PROVE  /\ Due <= syncQueue'[j] /\ syncQueue'[j] <= Retrieved
                      /\ syncQueue'[j] \in Nat
                      /\ IsEvent(t) => Due < syncQueue'[j]
    OBVIOUS
  <2>1. j + 1 \in DOMAIN syncQueue /\ 1 < j + 1 /\ syncQueue'[j] = syncQueue[j + 1]
    BY <1>2
  <2> QED BY <1>2, <1>3, <1>4, <2>1, Numbers
             DEF QueueOrder, Ordered, Outstanding, IsEvent, WakeInv
<1>11. \A k \in DOMAIN batch : IsEvent(batch[k]) =>
         /\ Due <= batch[k] /\ batch[k] <= Retrieved /\ batch[k] \in Nat
         /\ IsEvent(t) => Due < batch[k]
  BY <1>2, <1>3, <1>4, Numbers DEF QueueOrder, Outstanding, IsEvent, WakeInv
<1>12. Outstanding(syncQueue)'
  BY <1>4, <1>5, <1>6, <1>10, Numbers DEF Outstanding, WakeInv
<1>13. Outstanding(batch)'
  BY <1>1, <1>4, <1>5, <1>6, <1>11, Numbers DEF Outstanding, WakeInv
<1>14. \A j \in DOMAIN syncQueue', k \in DOMAIN batch' :
         IsEvent(syncQueue'[j]) /\ IsEvent(batch'[k]) => syncQueue'[j] < batch'[k]
  BY <1>1, <1>2, <1>3 DEF QueueOrder
<1>15. ASSUME NEW e \in Due' .. Retrieved'
       PROVE  \/ \E j \in DOMAIN syncQueue' : syncQueue'[j] = e
              \/ \E k \in DOMAIN batch' : batch'[k] = e
  <2>1. e \in Due .. Retrieved /\ (IsEvent(t) => e # Due)
    BY <1>4, <1>5, <1>6, <1>15, Numbers DEF WakeInv
  <2>2. IsEvent(e)
    BY <2>1, Numbers, BoundsAssumption
    DEF WakeInv, TypeOK, BufferType, Due, Retrieved, IsEvent, Events
  <2>3. t # e
    BY <1>4, <2>1, <2>2
  <2>4. CASE \E k \in DOMAIN batch : batch[k] = e
    BY <1>1, <2>4
  <2>5. CASE \E j \in DOMAIN syncQueue : syncQueue[j] = e
    <3>1. PICK j \in DOMAIN syncQueue : syncQueue[j] = e
      BY <2>5
    <3>2. j # 1
      BY <1>2, <2>3, <3>1
    <3> QED BY <1>2, <3>1, <3>2
  <2> QED BY <1>3, <2>1, <2>4, <2>5 DEF QueueOrder
<1>16. Due' <= Retrieved' + 1
  BY <1>3, <1>4, <1>5, <1>6, Numbers DEF QueueOrder, WakeInv
<1>17. QueueOrder'
  BY <1>9, <1>12, <1>13, <1>14, <1>15, <1>16 DEF QueueOrder
<1> QED BY <1>1, <1>3, <1>7, <1>8, <1>17 DEF OrderInv

\* Thunks of other goroutines come between those of events.
LEMMA CallSyncOrder ==
  ASSUME WakeInv, OrderInv, CallSync
  PROVE  OrderInv'
<1>1. /\ UNCHANGED <<pushed, buffer, batch, run, dropped, stopper, quit, main>>
      /\ syncQueue' = syncQueue \/ syncQueue' = Append(syncQueue, OtherThunk)
  BY DEF CallSync, bufferVars
<1>2. CASE syncQueue' = syncQueue
  BY <1>1, <1>2, IdleOrder
<1>3. CASE syncQueue' = Append(syncQueue, OtherThunk)
  <2>1. /\ DOMAIN syncQueue' = DOMAIN syncQueue \cup {Len(syncQueue')}
        /\ ~ IsEvent(syncQueue'[Len(syncQueue')])
        /\ \A j \in DOMAIN syncQueue : syncQueue'[j] = syncQueue[j]
    BY <1>3, Numbers, Appended DEF WakeInv
  <2>2. Due' = Due /\ Retrieved' = Retrieved
    BY <1>1 DEF Due, Retrieved
  <2>3. BufferOrder' /\ NotReady'
    BY <1>1, <2>1, <2>2 DEF OrderInv, BufferOrder, NotReady
  <2>4. QueueOrder => QueueOrder'
    BY <1>1, <2>1, <2>2 DEF QueueOrder, Ordered, Outstanding
  <2> QED BY <1>1, <2>3, <2>4 DEF OrderInv
<1> QED BY <1>1, <1>2, <1>3

\* Stop may take a thunk that nobody will run; the sync loop has ended.
LEMMA StopReturnsOrder ==
  ASSUME WakeInv, OrderInv, StopReturns
  PROVE  OrderInv'
<1>1. /\ UNCHANGED <<pushed, buffer, batch, run, dropped, quit, main>>
      /\ stopper' = "returned" /\ quit = "done"
      /\ syncQueue' = IF syncQueue = <<>> THEN <<>> ELSE Tail(syncQueue)
  BY DEF StopReturns, bufferVars
<1>2. Retrieved' = Retrieved
  BY <1>1 DEF Retrieved
<1>3. BufferOrder'
  BY <1>1, <1>2 DEF OrderInv, BufferOrder
<1>4. \A j \in DOMAIN syncQueue' : \E k \in DOMAIN syncQueue : syncQueue'[j] = syncQueue[k]
  <2>1. CASE syncQueue = <<>>
    BY <1>1, <2>1
  <2>2. CASE syncQueue # <<>>
    <3>1. syncQueue' = Tail(syncQueue) /\ syncQueue \in Seq(Thunks)
      BY <1>1, <2>2, Numbers DEF WakeInv
    <3>2. \A j \in DOMAIN syncQueue' :
            j + 1 \in DOMAIN syncQueue /\ syncQueue'[j] = syncQueue[j + 1]
      BY <2>2, <3>1, Taken
    <3> QED BY <3>2
  <2> QED BY <2>1, <2>2
<1>5. NotReady'
  BY <1>1, <1>2, <1>4 DEF OrderInv, NotReady
<1> QED BY <1>1, <1>3, <1>5 DEF OrderInv

\* The rules have seen the events that were not dropped, one after the other.
RunOrder == \A i \in DOMAIN run : run[i] = dropped + i

LEMMA NextRun ==
  ASSUME WakeInv, OrderInv, RunOrder, [Next]_vars
  PROVE  RunOrder'
<1>1. CASE UNCHANGED <<run, dropped>>
  BY <1>1 DEF RunOrder
<1>2. CASE DropEvents
  <2>1. run = <<>> /\ run' = run
    BY <1>2 DEF DropEvents, OrderInv, NotReady
  <2> QED BY <2>1 DEF RunOrder
<1>3. CASE TakeThunk
  <2>1. dropped' = dropped /\ run \in Seq(Events)
    BY <1>3 DEF TakeThunk, WakeInv, TypeOK, QueueType
  <2>2. CASE ~ IsEvent(Head(syncQueue))
    BY <1>3, <2>1, <2>2 DEF TakeThunk, RunOrder
  <2>3. CASE IsEvent(Head(syncQueue))
    <3>1. Head(syncQueue) = dropped + Len(run) + 1 /\ Head(syncQueue) \in Events
      BY <1>3, <2>3, TakenIsDue DEF Due, IsEvent
    <3>2. run' = Append(run, Head(syncQueue))
      BY <1>3, <2>3 DEF TakeThunk
    <3>3. /\ DOMAIN run' = DOMAIN run \cup {Len(run')} /\ Len(run') = Len(run) + 1
          /\ run'[Len(run')] = Head(syncQueue)
          /\ \A i \in DOMAIN run : run'[i] = run[i]
      BY <2>1, <3>1, <3>2, Appended
    <3>4. run'[Len(run')] = dropped + Len(run')
      BY <3>1, <3>3, Numbers DEF WakeInv
    <3> QED BY <2>1, <3>3, <3>4 DEF RunOrder
  <2> QED BY <2>2, <2>3
<1>4. CASE DriverStep \/ LeaveReadyWait \/ QueueThunk \/ CallSync \/ StopStep
  BY <1>1, <1>4 DEF DriverStep, DriverEvent, DriverPush, RetainReady, LeaveReadyWait,
     QueueThunk, CallSync, StopStep, Deactivate, CloseBuffer, AskSyncLoop, StopReturns
<1>5. CASE MainStep \/ SyncStep \/ ScriptPush \/ SyncLoopQuits
  BY <1>1, <1>2, <1>3, <1>5 DEF MainStep, ReceiveSignal, RetrieveEvents, ObserverClosed,
     HandleStop, SyncStep, ThunkReturns, ScriptPush, SyncLoopQuits
<1> QED BY <1>1, <1>4, <1>5 DEF Next, vars

\* Where the elements of four sequences in a row come from.
LEMMA Joined ==
  ASSUME NEW S, NEW s \in Seq(S), NEW t \in Seq(S), NEW w, w = s \o t
  PROVE  /\ w \in Seq(S) /\ Len(w) = Len(s) + Len(t) /\ DOMAIN w = 1 .. Len(w)
         /\ Len(s) \in Nat /\ DOMAIN s = 1 .. Len(s)
         /\ Len(t) \in Nat /\ DOMAIN t = 1 .. Len(t)
         /\ \A i \in DOMAIN s : i \in DOMAIN w /\ w[i] = s[i]
         /\ \A i \in DOMAIN t : Len(s) + i \in DOMAIN w /\ w[Len(s) + i] = t[i]
<1>1. \A i \in DOMAIN s : i \in DOMAIN w /\ w[i] = s[i]
  OBVIOUS
<1>2. \A i \in DOMAIN t : Len(s) + i \in DOMAIN w /\ w[Len(s) + i] = t[i]
  <2> SUFFICES ASSUME NEW i \in DOMAIN t
               PROVE  Len(s) + i \in DOMAIN w /\ w[Len(s) + i] = t[i]
    OBVIOUS
  <2>1. i \in Nat /\ 1 <= i /\ i <= Len(t) /\ Len(s) \in Nat /\ Len(w) = Len(s) + Len(t)
    OBVIOUS
  <2>2. Len(s) + i \in 1 .. Len(w) /\ (Len(s) + i) - Len(s) = i /\ ~ (Len(s) + i <= Len(s))
    BY <2>1
  <2> QED BY <2>2
<1> QED BY <1>1, <1>2

\* Where the elements of Way come from.
LEMMA WayParts ==
  ASSUME run \in Seq(Thunks), syncQueue \in Seq(Thunks), batch \in Seq(Thunks),
         buffer \in Seq(Thunks)
  PROVE  /\ DOMAIN Way = 1 .. (Len(run) + Len(syncQueue) + Len(batch) + Len(buffer))
         /\ \A i \in DOMAIN run : i \in DOMAIN Way /\ Way[i] = run[i]
         /\ \A i \in DOMAIN syncQueue :
              Len(run) + i \in DOMAIN Way /\ Way[Len(run) + i] = syncQueue[i]
         /\ \A i \in DOMAIN batch :
              /\ Len(run) + Len(syncQueue) + i \in DOMAIN Way
              /\ Way[Len(run) + Len(syncQueue) + i] = batch[i]
         /\ \A i \in DOMAIN buffer :
              /\ Len(run) + Len(syncQueue) + Len(batch) + i \in DOMAIN Way
              /\ Way[Len(run) + Len(syncQueue) + Len(batch) + i] = buffer[i]
<1> DEFINE rq == run \o syncQueue
           rqb == rq \o batch
<1>1. /\ rq \in Seq(Thunks) /\ Len(rq) = Len(run) + Len(syncQueue)
      /\ \A i \in DOMAIN run : i \in DOMAIN rq /\ rq[i] = run[i]
      /\ \A i \in DOMAIN syncQueue :
           Len(run) + i \in DOMAIN rq /\ rq[Len(run) + i] = syncQueue[i]
  BY Joined
<1> HIDE DEF rq
<1>2. /\ rqb \in Seq(Thunks) /\ Len(rqb) = Len(rq) + Len(batch)
      /\ \A i \in DOMAIN rq : i \in DOMAIN rqb /\ rqb[i] = rq[i]
      /\ \A i \in DOMAIN batch : Len(rq) + i \in DOMAIN rqb /\ rqb[Len(rq) + i] = batch[i]
  <2>1. rq \in Seq(Thunks)
    BY <1>1
  <2> QED BY <2>1, Joined
<1>3. Way = rqb \o buffer
  BY DEF rq, Way
<1> HIDE DEF rqb
<1>4. /\ DOMAIN Way = 1 .. Len(Way) /\ Len(Way) = Len(rqb) + Len(buffer)
      /\ \A i \in DOMAIN rqb : i \in DOMAIN Way /\ Way[i] = rqb[i]
      /\ \A i \in DOMAIN buffer : Len(rqb) + i \in DOMAIN Way /\ Way[Len(rqb) + i] = buffer[i]
  <2>1. rqb \in Seq(Thunks)
    BY <1>2
  <2> QED BY <1>3, <2>1, Joined
<1>5. /\ Len(rq) = Len(run) + Len(syncQueue)
      /\ Len(rqb) = Len(run) + Len(syncQueue) + Len(batch)
  BY <1>1, <1>2
<1> QED BY <1>1, <1>2, <1>4, <1>5

-----------------------------------------------------------------------------
(* The steps together *)

\* The first invariant is inductive.
LEMMA NextWake == WakeInv /\ [Next]_vars => WakeInv'
<1> SUFFICES ASSUME WakeInv, [Next]_vars PROVE WakeInv'
  OBVIOUS
<1>1. CASE UNCHANGED vars
  BY <1>1 DEF vars, bufferVars, WakeInv, TypeOK, BufferType, LoopsType, QueueType,
     NoLostWakeup,
              BatchQueued, Drained, Alive
<1>2. CASE DriverStep
  BY <1>2, DriverEventWake, DriverPushWake, RetainReadyWake DEF DriverStep
<1>3. CASE MainStep
  BY <1>3, ReceiveSignalWake, DropEventsWake, RetrieveEventsWake, ObserverClosedWake,
     HandleStopWake DEF MainStep
<1>4. CASE LeaveReadyWait \/ QueueThunk
  BY <1>4, LeaveReadyWaitWake, QueueThunkWake
<1>5. CASE SyncStep \/ ScriptPush \/ SyncLoopQuits
  BY <1>5, TakeThunkWake, ThunkReturnsWake, ScriptPushWake, SyncLoopQuitsWake DEF SyncStep
<1>6. CASE CallSync \/ StopStep
  BY <1>6, CallSyncWake, DeactivateWake, CloseBufferWake, AskSyncLoopWake, StopReturnsWake
  DEF StopStep
<1> QED BY <1>1, <1>2, <1>3, <1>4, <1>5, <1>6 DEF Next

\* So is the second one, given the first.
LEMMA NextOrder == WakeInv /\ OrderInv /\ [Next]_vars => OrderInv'
<1> SUFFICES ASSUME WakeInv, OrderInv, [Next]_vars PROVE OrderInv'
  OBVIOUS
<1>1. CASE UNCHANGED vars
  BY <1>1, IdleOrder DEF vars, bufferVars
<1>2. CASE DriverEvent \/ RetainReady
  BY <1>2, IdleOrder DEF DriverEvent, RetainReady, bufferVars
<1>3. CASE DriverPush \/ ScriptPush
  BY <1>3, PushOrder DEF DriverPush, ScriptPush, WakeInv
<1>4. CASE ReceiveSignal \/ ObserverClosed \/ HandleStop
  BY <1>4, IdleOrder DEF ReceiveSignal, ObserverClosed, HandleStop, bufferVars
<1>5. CASE ThunkReturns \/ SyncLoopQuits
  BY <1>5, IdleOrder DEF ThunkReturns, SyncLoopQuits, OrderInv, bufferVars
<1>6. CASE Deactivate \/ CloseBuffer \/ AskSyncLoop
  BY <1>6, IdleOrder DEF Deactivate, CloseBuffer, AskSyncLoop, bufferVars
<1>7. CASE LeaveReadyWait \/ DropEvents \/ RetrieveEvents \/ QueueThunk
  BY <1>7, LeaveReadyWaitOrder, DropEventsOrder, RetrieveEventsOrder, QueueThunkOrder
<1>8. CASE TakeThunk \/ CallSync \/ StopReturns
  BY <1>8, TakeThunkOrder, CallSyncOrder, StopReturnsOrder
<1> QED BY <1>1, <1>2, <1>3, <1>4, <1>5, <1>6, <1>7, <1>8
        DEF Next, DriverStep, MainStep, SyncStep, StopStep

\* Both invariants hold in every reachable state.
LEMMA Invariance == Spec => [](WakeInv /\ OrderInv)
BY InitWake, InitOrder, NextWake, NextOrder, PTL DEF Spec

-----------------------------------------------------------------------------
(* The theorems *)

\* The queues of the pipeline hold what they should, and the sync queue never more than
\* SYNC_QUEUE_LEN thunks.
THEOREM TypeCorrect == Spec => []TypeOK
<1>1. WakeInv => TypeOK
  BY DEF WakeInv
<1> QED BY <1>1, Invariance, PTL

\* PushEvent's signal is never lost: with events in the buffer the main loop has one to
\* receive or is about to take the events.
THEOREM SignalNotLost == Spec => []NoLostWakeup
<1>1. WakeInv => NoLostWakeup
  BY DEF WakeInv
<1> QED BY <1>1, Invariance, PTL

\* The main loop does not end before everything that was pushed is in the sync queue.
THEOREM DrainedAtStop == Spec => []BufferDrainedAtStop
<1>1. WakeInv => BufferDrainedAtStop
  BY DEF WakeInv, Drained, BufferDrainedAtStop
<1> QED BY <1>1, Invariance, PTL

\* The sequences hold the events that NothingLostOrReordered speaks of, in that order.
LEMMA OrderedWay ==
  ASSUME WakeInv, OrderInv, RunOrder
  PROVE  NothingLostOrReordered
<1> SUFFICES ASSUME stopper # "returned"
             PROVE  /\ \A e \in (dropped + 1) .. pushed : \E i \in DOMAIN Way : Way[i] = e
                    /\ \A i \in DOMAIN Way : IsEvent(Way[i]) =>
                                              Way[i] \in (dropped + 1) .. pushed
                    /\ \A i, j \in DOMAIN Way :
                         i < j /\ IsEvent(Way[i]) /\ IsEvent(Way[j]) => Way[i] < Way[j]
  BY DEF NothingLostOrReordered
<1> DEFINE R == Len(run)
           Q == Len(run) + Len(syncQueue)
           B == Len(run) + Len(syncQueue) + Len(batch)
<1>1. QueueOrder /\ BufferOrder
  BY DEF OrderInv
<1>2. /\ run \in Seq(Events) /\ run \in Seq(Thunks) /\ buffer \in Seq(Thunks)
      /\ batch \in Seq(Thunks) /\ syncQueue \in Seq(Thunks) /\ buffer \in Seq(Events)
  <2>1. run \in Seq(Events) /\ buffer \in Seq(Events) /\ Events \subseteq Thunks
    BY DEF WakeInv, TypeOK, BufferType, QueueType, Thunks
  <2> QED BY <2>1, Numbers DEF WakeInv
<1>3. /\ DOMAIN Way = 1 .. (B + Len(buffer))
      /\ \A i \in DOMAIN run : i \in DOMAIN Way /\ Way[i] = run[i]
      /\ \A i \in DOMAIN syncQueue : R + i \in DOMAIN Way /\ Way[R + i] = syncQueue[i]
      /\ \A i \in DOMAIN batch : Q + i \in DOMAIN Way /\ Way[Q + i] = batch[i]
      /\ \A i \in DOMAIN buffer : B + i \in DOMAIN Way /\ Way[B + i] = buffer[i]
  BY <1>2, WayParts
<1>4. /\ R \in Nat /\ Q \in Nat /\ B \in Nat /\ Len(buffer) \in Nat /\ R <= Q /\ Q <= B
      /\ DOMAIN run = 1 .. R /\ DOMAIN syncQueue = 1 .. (Q - R) /\ DOMAIN batch = 1 .. (B - Q)
      /\ DOMAIN buffer = 1 .. Len(buffer)
  BY <1>2
<1>5. /\ Retrieved + Len(buffer) = pushed /\ Due = dropped + R + 1 /\ Due <= Retrieved + 1
      /\ dropped \in Nat /\ pushed \in Nat /\ Retrieved \in Int
  BY <1>1, Numbers DEF Retrieved, Due, QueueOrder, WakeInv
<1> HIDE DEF R, Q, B
<1>6. \A i \in DOMAIN Way :
        \/ i \in DOMAIN run /\ Way[i] = dropped + i
        \/ /\ i > R /\ i <= Q /\ i - R \in DOMAIN syncQueue /\ Way[i] = syncQueue[i - R]
           /\ IsEvent(Way[i]) => Due <= Way[i] /\ Way[i] <= Retrieved
        \/ /\ i > Q /\ i <= B /\ i - Q \in DOMAIN batch /\ Way[i] = batch[i - Q]
           /\ IsEvent(Way[i]) => Due <= Way[i] /\ Way[i] <= Retrieved
        \/ /\ i > B /\ i - B \in DOMAIN buffer /\ Way[i] = Retrieved + (i - B)
  <2> SUFFICES ASSUME NEW i \in DOMAIN Way
               PROVE  \/ i \in DOMAIN run /\ Way[i] = dropped + i
                      \/ /\ i > R /\ i <= Q /\ i - R \in DOMAIN syncQueue
                         /\ Way[i] = syncQueue[i - R]
                         /\ IsEvent(Way[i]) => Due <= Way[i] /\ Way[i] <= Retrieved
                      \/ /\ i > Q /\ i <= B /\ i - Q \in DOMAIN batch
                         /\ Way[i] = batch[i - Q]
                         /\ IsEvent(Way[i]) => Due <= Way[i] /\ Way[i] <= Retrieved
                      \/ /\ i > B /\ i - B \in DOMAIN buffer
                         /\ Way[i] = Retrieved + (i - B)
    OBVIOUS
  <2>1. i \in Nat /\ 1 <= i /\ i <= B + Len(buffer)
    BY <1>3, <1>4
  <2>2. CASE i <= R
    BY <1>3, <1>4, <2>1, <2>2 DEF RunOrder
  <2>3. CASE R < i /\ i <= Q
    <3>1. i - R \in DOMAIN syncQueue /\ R + (i - R) = i
      BY <1>4, <2>1, <2>3
    <3>2. Way[i] = syncQueue[i - R]
      BY <1>3, <3>1
    <3> QED BY <1>1, <2>3, <3>1, <3>2 DEF QueueOrder, Outstanding
  <2>4. CASE Q < i /\ i <= B
    <3>1. i - Q \in DOMAIN batch /\ Q + (i - Q) = i
      BY <1>4, <2>1, <2>4
    <3>2. Way[i] = batch[i - Q]
      BY <1>3, <3>1
    <3> QED BY <1>1, <2>4, <3>1, <3>2 DEF QueueOrder, Outstanding
  <2>5. CASE B < i
    <3>1. i - B \in DOMAIN buffer /\ B + (i - B) = i
      BY <1>4, <2>1, <2>5
    <3>2. Way[i] = buffer[i - B]
      BY <1>3, <3>1
    <3> QED BY <1>1, <2>5, <3>1, <3>2 DEF BufferOrder
  <2>6. i <= R \/ (R < i /\ i <= Q) \/ (Q < i /\ i <= B) \/ B < i
    BY <1>4, <2>1
  <2> QED BY <2>2, <2>3, <2>4, <2>5, <2>6
<1>10. \A i \in DOMAIN Way : IsEvent(Way[i]) =>
         /\ i <= R => Way[i] = dropped + i
         /\ R < i /\ i <= B => Due <= Way[i] /\ Way[i] <= Retrieved
         /\ B < i => Way[i] = Retrieved + (i - B)
         /\ i \in Nat /\ 1 <= i /\ i <= B + Len(buffer) /\ Way[i] \in Nat
  <2> SUFFICES ASSUME NEW i \in DOMAIN Way, IsEvent(Way[i])
               PROVE  /\ i <= R => Way[i] = dropped + i
                      /\ R < i /\ i <= B => Due <= Way[i] /\ Way[i] <= Retrieved
                      /\ B < i => Way[i] = Retrieved + (i - B)
                      /\ i \in Nat /\ 1 <= i /\ i <= B + Len(buffer) /\ Way[i] \in Nat
    OBVIOUS
  <2>1. i \in Nat /\ 1 <= i /\ i <= B + Len(buffer) /\ Way[i] \in Nat
    BY <1>3, <1>4, Numbers DEF IsEvent, WakeInv
  <2>2. i <= R => Way[i] = dropped + i
    BY <1>4, <1>6, <2>1
  <2>3. R < i /\ i <= B => Due <= Way[i] /\ Way[i] <= Retrieved
    BY <1>4, <1>6, <2>1
  <2>4. B < i => Way[i] = Retrieved + (i - B)
    BY <1>4, <1>6, <2>1
  <2> QED BY <2>1, <2>2, <2>3, <2>4
<1>11. \A i \in DOMAIN Way :
          /\ R < i /\ i <= Q => i - R \in DOMAIN syncQueue /\ Way[i] = syncQueue[i - R]
          /\ Q < i /\ i <= B => i - Q \in DOMAIN batch /\ Way[i] = batch[i - Q]
  <2> SUFFICES ASSUME NEW i \in DOMAIN Way
               PROVE  /\ R < i /\ i <= Q =>
                           i - R \in DOMAIN syncQueue /\ Way[i] = syncQueue[i - R]
                      /\ Q < i /\ i <= B =>
                           i - Q \in DOMAIN batch /\ Way[i] = batch[i - Q]
    OBVIOUS
  <2>1. i \in Nat
    BY <1>3, <1>4
  <2> QED BY <1>4, <1>6, <2>1
<1>7. ASSUME NEW e \in (dropped + 1) .. pushed
      PROVE  \E i \in DOMAIN Way : Way[i] = e
  <2>1. e \in Int /\ dropped + 1 <= e /\ e <= pushed
    BY <1>5
  <2>2. CASE e < Due
    <3>1. e - dropped \in DOMAIN run /\ run[e - dropped] = e
      BY <1>4, <1>5, <2>1, <2>2 DEF RunOrder
    <3> QED BY <1>3, <3>1
  <2>3. CASE Due <= e /\ e <= Retrieved
    <3>1. e \in Due .. Retrieved
      BY <1>5, <2>1, <2>3, Numbers DEF WakeInv
    <3>2. \/ \E j \in DOMAIN syncQueue : syncQueue[j] = e
          \/ \E k \in DOMAIN batch : batch[k] = e
      BY <1>1, <3>1 DEF QueueOrder
    <3> QED BY <1>3, <3>2
  <2>4. CASE Retrieved < e
    <3>1. /\ e - Retrieved \in DOMAIN buffer
          /\ buffer[e - Retrieved] = Retrieved + (e - Retrieved)
      <4>1. e - Retrieved \in 1 .. Len(buffer)
        BY <1>4, <1>5, <2>1, <2>4
      <4> QED BY <1>1, <1>4, <4>1 DEF BufferOrder
    <3>2. Retrieved + (e - Retrieved) = e
      BY <1>5, <2>1
    <3> QED BY <1>3, <3>1, <3>2
  <2> QED BY <1>4, <1>5, <2>1, <2>2, <2>3, <2>4
<1>8. ASSUME NEW i \in DOMAIN Way, IsEvent(Way[i])
      PROVE  Way[i] \in (dropped + 1) .. pushed
  <2>1. i \in Nat /\ 1 <= i /\ i <= B + Len(buffer) /\ Way[i] \in Nat
    BY <1>8, <1>10
  <2>2. CASE i <= R
    BY <1>4, <1>5, <1>8, <1>10, <2>1, <2>2
  <2>3. CASE R < i /\ i <= B
    BY <1>4, <1>5, <1>8, <1>10, <2>1, <2>3
  <2>4. CASE B < i
    BY <1>4, <1>5, <1>8, <1>10, <2>1, <2>4
  <2> QED BY <1>4, <2>1, <2>2, <2>3, <2>4
<1>9. ASSUME NEW i \in DOMAIN Way, NEW j \in DOMAIN Way, i < j,
             IsEvent(Way[i]), IsEvent(Way[j])
      PROVE  Way[i] < Way[j]
  <2>1. /\ i \in Nat /\ 1 <= i /\ i <= B + Len(buffer) /\ Way[i] \in Nat
        /\ j \in Nat /\ 1 <= j /\ j <= B + Len(buffer) /\ Way[j] \in Nat
    BY <1>9, <1>10
  <2>6. /\ i <= R => Way[i] = dropped + i
        /\ j <= R => Way[j] = dropped + j
        /\ R < j /\ j <= B => Due <= Way[j] /\ Way[j] <= Retrieved
        /\ R < i /\ i <= B => Due <= Way[i] /\ Way[i] <= Retrieved
        /\ B < i => Way[i] = Retrieved + (i - B)
        /\ B < j => Way[j] = Retrieved + (j - B)
    BY <1>9, <1>10
  <2>7. R \in Nat /\ B \in Nat /\ dropped \in Nat /\ Retrieved \in Int /\ Due = dropped + R + 1
    BY <1>4, <1>5
  <2>8. Due <= Retrieved + 1 /\ R <= B
    BY <1>4, <1>5
  <2>9. Q \in Nat /\ R <= Q /\ Q <= B
    BY <1>4
  <2>10. /\ R < i /\ i <= Q => i - R \in DOMAIN syncQueue /\ Way[i] = syncQueue[i - R]
         /\ Q < i /\ i <= B => i - Q \in DOMAIN batch /\ Way[i] = batch[i - Q]
         /\ R < j /\ j <= Q => j - R \in DOMAIN syncQueue /\ Way[j] = syncQueue[j - R]
         /\ Q < j /\ j <= B => j - Q \in DOMAIN batch /\ Way[j] = batch[j - Q]
    BY <1>11
  <2>2. CASE i <= R
    <3>1. Way[i] = dropped + i /\ Way[i] < Due
      BY <2>1, <2>2, <2>6, <2>7
    <3>2. CASE j <= R
      <4>1. Way[j] = dropped + j
        BY <2>6, <3>2
      <4> QED BY <1>9, <2>1, <2>7, <3>1, <4>1
    <3>3. CASE R < j /\ j <= B
      <4>1. Due <= Way[j]
        BY <2>6, <3>3
      <4> QED BY <2>1, <2>7, <3>1, <4>1
    <3>4. CASE B < j
      <4>1. Way[j] = Retrieved + (j - B)
        BY <2>6, <3>4
      <4> QED BY <2>1, <2>7, <2>8, <3>1, <3>4, <4>1
    <3> QED BY <2>1, <2>7, <3>2, <3>3, <3>4
  <2>3. CASE R < i /\ i <= Q
    <3>1. Way[i] = syncQueue[i - R] /\ i - R \in DOMAIN syncQueue /\ Way[i] <= Retrieved
      BY <2>1, <2>3, <2>6, <2>7, <2>9, <2>10
    <3>2. CASE j <= Q
      <4>1. Way[j] = syncQueue[j - R] /\ j - R \in DOMAIN syncQueue /\ i - R < j - R
        BY <1>9, <2>1, <2>3, <2>7, <2>9, <2>10, <3>2
      <4> QED BY <1>1, <1>9, <3>1, <4>1 DEF QueueOrder, Ordered
    <3>3. CASE Q < j /\ j <= B
      <4>1. Way[j] = batch[j - Q] /\ j - Q \in DOMAIN batch
        BY <2>10, <3>3
      <4> QED BY <1>1, <1>9, <3>1, <4>1 DEF QueueOrder
    <3>4. CASE B < j
      <4>1. Way[j] = Retrieved + (j - B)
        BY <2>6, <3>4
      <4> QED BY <2>1, <2>7, <3>1, <3>4, <4>1
    <3> QED BY <2>1, <2>7, <2>9, <3>2, <3>3, <3>4
  <2>4. CASE Q < i /\ i <= B
    <3>1. Way[i] = batch[i - Q] /\ i - Q \in DOMAIN batch /\ Way[i] <= Retrieved
      BY <2>1, <2>4, <2>6, <2>7, <2>9, <2>10
    <3>2. CASE j <= B
      <4>1. Way[j] = batch[j - Q] /\ j - Q \in DOMAIN batch /\ i - Q < j - Q
        BY <1>9, <2>1, <2>4, <2>7, <2>9, <2>10, <3>2
      <4> QED BY <1>1, <1>9, <3>1, <4>1 DEF QueueOrder, Ordered
    <3>3. CASE B < j
      <4>1. Way[j] = Retrieved + (j - B)
        BY <2>6, <3>3
      <4> QED BY <2>1, <2>7, <3>1, <3>3, <4>1
    <3> QED BY <2>1, <2>7, <3>2, <3>3
  <2>5. CASE B < i
    <3>1. B < j /\ Way[i] = Retrieved + (i - B)
      BY <1>9, <2>1, <2>5, <2>6, <2>7
    <3>2. Way[j] = Retrieved + (j - B)
      BY <2>6, <3>1
    <3> QED BY <1>9, <2>1, <2>7, <3>1, <3>2
  <2> QED BY <2>1, <2>7, <2>9, <2>2, <2>3, <2>4, <2>5
<1> QED BY <1>7, <1>8, <1>9

\* Between the driver and the rules no event is lost, doubled or overtaken, however many
\* there are and however long the queue is, until Stop throws a thunk away.
THEOREM EventsInOrder == Spec => []NothingLostOrReordered
<1>1. Init => RunOrder
  BY DEF Init, RunOrder
<1> QED BY <1>1, NextRun, OrderedWay, Invariance, PTL DEF Spec

\* What EventDelivery calls ready.
Ready == main \notin {"wait", "dropping"}

\* A step of the goroutines is one of the abstract specification, or none.
LEMMA StepRefines ==
  ASSUME WakeInv, OrderInv, [Next]_vars
  PROVE  [Delivery!Next]_<<pushed, dropped, Ready, run>>
<1>1. CASE \/ UNCHANGED vars \/ DriverEvent \/ RetainReady \/ HandleStop \/ RetrieveEvents
           \/ QueueThunk \/ ThunkReturns \/ SyncLoopQuits \/ CallSync \/ StopStep
  <2>1. UNCHANGED <<pushed, dropped, Ready, run>>
    BY <1>1 DEF vars, bufferVars, DriverEvent, RetainReady, HandleStop, RetrieveEvents,
       QueueThunk, ThunkReturns, SyncLoopQuits, CallSync, StopStep, Deactivate, CloseBuffer,
       AskSyncLoop, StopReturns, Ready
  <2> QED BY <2>1
<1>2. CASE DriverPush \/ ScriptPush
  <2>1. Delivery!Push
    BY <1>2 DEF DriverPush, ScriptPush, PushEvent, Delivery!Push
  <2> QED BY <2>1 DEF Delivery!Next
<1>3. CASE LeaveReadyWait \/ ReceiveSignal \/ ObserverClosed
  <2>1. Delivery!BecomeReady \/ UNCHANGED <<pushed, dropped, Ready, run>>
    BY <1>3 DEF LeaveReadyWait, ReceiveSignal, ObserverClosed, bufferVars, Ready,
                Delivery!BecomeReady
  <2> QED BY <2>1 DEF Delivery!Next
<1>4. CASE DropEvents
  <2>1. /\ dropped' = dropped + Len(buffer) /\ main = "dropping" /\ main' = "wait"
        /\ UNCHANGED <<pushed, run>>
    BY <1>4 DEF DropEvents
  <2>2. dropped + Len(buffer) <= pushed /\ dropped \in Nat /\ Len(buffer) \in Nat
    BY Numbers DEF OrderInv, BufferOrder, Retrieved, WakeInv
  <2>3. CASE Len(buffer) = 0
    BY <2>1, <2>2, <2>3 DEF Ready
  <2>4. CASE Len(buffer) # 0
    <3>1. dropped' \in (dropped + 1) .. pushed
      BY <2>1, <2>2, <2>4, Numbers DEF WakeInv
    <3>2. Delivery!Skip
      BY <2>1, <3>1 DEF Delivery!Skip
    <3> QED BY <3>2 DEF Delivery!Next
  <2> QED BY <2>3, <2>4
<1>5. CASE TakeThunk
  <2>1. UNCHANGED <<pushed, dropped, Ready>>
    BY <1>5 DEF TakeThunk, bufferVars, Ready
  <2>2. CASE ~ IsEvent(Head(syncQueue))
    BY <1>5, <2>1, <2>2 DEF TakeThunk
  <2>3. CASE IsEvent(Head(syncQueue))
    <3>1. run' = Append(run, Due) /\ Due <= pushed
      <4>1. Head(syncQueue) = Due /\ Due <= Retrieved
        BY <1>5, <2>3, TakenIsDue
      <4>2. run' = Append(run, Head(syncQueue))
        BY <1>5, <2>3 DEF TakeThunk
      <4> QED BY <4>1, <4>2, Numbers DEF Retrieved, WakeInv
    <3>2. Ready
      <4>1. 1 \in DOMAIN syncQueue /\ syncQueue[1] = Head(syncQueue)
        BY <1>5, Numbers, Taken DEF TakeThunk, WakeInv
      <4> QED BY <2>3, <4>1 DEF OrderInv, NotReady, Ready
    <3>3. Delivery!Handle
      BY <2>1, <3>1, <3>2 DEF Delivery!Handle, Due, Ready
    <3> QED BY <3>3 DEF Delivery!Next
  <2> QED BY <2>2, <2>3
<1> QED BY <1>1, <1>2, <1>3, <1>4, <1>5 DEF Next, DriverStep, MainStep, SyncStep

\* Whatever buffers, goroutines and queues lie between them, the driver's changes reach
\* RunRules in their order, each at most once, and none is skipped once the engine is
\* ready: the pipeline implements EventDelivery.
THEOREM PipelineDelivers == Spec => Implements
<1>1. Init => Delivery!Init
  BY DEF Init, Delivery!Init
<1>2. WakeInv /\ OrderInv /\ [Next]_vars
      => [Delivery!Next]_<<pushed, dropped, main \notin {"wait", "dropping"}, run>>
  BY StepRefines DEF Ready
<1> QED BY <1>1, <1>2, Invariance, PTL DEF Spec, Implements, Delivery!Spec

=============================================================================
