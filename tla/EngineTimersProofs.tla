-------------------------- MODULE EngineTimersProofs --------------------------
(***************************************************************************)
(* Proofs about EngineTimers, for every number of timers, names, script    *)
(* contexts and places in the sync queue.                                  *)
(***************************************************************************)
EXTENDS EngineTimers, FiniteSetTheorems, TLAPS

-----------------------------------------------------------------------------
(* The inductive invariant *)

\* Ids are handed out one after the other.
Numbered == \E k \in 0 .. MaxTimers : Created = 1 .. k

\* A timer has a goroutine once it has a channel to quit it, and the engine is ready.
LoopOK ==
  \A n \in Created :
    /\ entries[n].loop = "none" <=> entries[n].quit = "nil"
    /\ ~ ready => entries[n].loop = "none"

\* What the sync loop is doing
SyncOK ==
  /\ sync.op = "none" <=> sync.id = Nothing
  /\ sync.id # Nothing => sync.id \in Created
  /\ sync.thunk # Nothing /\ sync.thunk # OtherThunk => sync.thunk \in Created
  /\ sync.at = "idle" <=> sync.thunk = Nothing
  /\ sync.at = "active" => sync.thunk # OtherThunk
  /\ sync.clean \subseteq Created
  /\ sync.at # "script" => sync.op = "none" /\ sync.clean = {} /\ sync.name = NoName

\* A timer that is being stopped is not in the tables any more, and a name is free when
\* a timer of that name is about to start.
StopOK ==
  /\ sync.op \in {"removed", "closed"} => sync.id \notin timers
  /\ sync.op = "closed" => entries[sync.id].quit = "closed"
  /\ sync.name # NoName => \A n \in timers : entries[n].name # sync.name

\* How far handleStop has come
MainOK ==
  /\ main.at = "loop" => main.left = {} /\ main.id = Nothing
  /\ main.left \subseteq Created \ timers
  /\ main.id # Nothing => main.id \in Created \ timers /\ entries[main.id].quit = "closed"
  /\ stop = "idle" => main.at = "loop"
  /\ main.at = "released" => main.left = {} /\ main.id = Nothing

\* A timer that runs, or will when the engine is ready, is known to somebody who will
\* stop it, unless it was started too late.
Kept ==
  /\ \A n \in timers : entries[n].active
  /\ \A n \in Created : entries[n].active /\ entries[n].loop # "ended" =>
       IF main.at = "loop" THEN n \in timers \/ sync.id = n
       ELSE n \in late \/ sync.id = n \/ n \in main.left \/ main.id = n

\* While the engine is not being stopped, only the stop() that has closed quit knows
\* the timer.
ClosedOnce ==
  main.at = "loop" /\ ~ crashed =>
    \A n \in Created : entries[n].quit = "closed" =>
      n \notin timers /\ (sync.id = n => sync.op = "closed")

InQueue(n) == \E i \in DOMAIN queue : queue[i] = n

\* The goroutine of a one-shot timer ends with its only push, and its entryFunc is in
\* the queue, taken, or in its callback, and never again.
OneShotOK ==
  \A n \in Created : ~ entries[n].periodic =>
    /\ entries[n].loop # "ended" => ~ InQueue(n) /\ sync.thunk # n /\ n \notin fired
    /\ \A i, j \in DOMAIN queue : queue[i] = n /\ queue[j] = n => i = j
    /\ InQueue(n) => sync.thunk # n /\ n \notin fired
    /\ sync.thunk = n /\ sync.at = "active" => n \notin fired

IInv ==
  /\ TypeOK /\ Numbered /\ LoopOK /\ SyncOK /\ StopOK /\ MainOK /\ StoppedForGood
  /\ OneTimerPerName /\ CleanupsKnowTheTimers /\ NoPanicWhileRunning /\ Kept /\ ClosedOnce
  /\ OneShotOK

-----------------------------------------------------------------------------
(* The operators the model is built from *)

\* Ids, names and thunks are told apart.
LEMMA Sorts ==
  /\ MaxTimers \in Nat /\ QueueLen \in Nat /\ QueueLen > 0
  /\ NoName \notin Names /\ OtherThunk # Nothing
  /\ \A n \in Ids : n \in Nat /\ n # OtherThunk /\ n # Nothing
BY TimersAssumption DEF Ids

\* Each field of an entry has its type.
LEMMA EntryFields ==
  ASSUME EntriesType, NEW n \in Created
  PROVE  /\ n \in Ids /\ entries[n] \in Entry
         /\ entries[n].periodic \in BOOLEAN /\ entries[n].name \in Names \cup {NoName}
         /\ entries[n].ctx \in Contexts /\ entries[n].active \in BOOLEAN
         /\ entries[n].quit \in {"nil", "open", "closed"}
         /\ entries[n].loop \in {"none", "waiting", "pushing", "ended"}
BY DEF EntriesType, Entry

\* What a step changes in an entry, field by field
OthersKept(n) ==
  /\ Created' = Created /\ entries' \in [Created -> Entry]
  /\ \A m \in Created \ {n} : entries'[m] = entries[m]
  /\ entries'[n].periodic = entries[n].periodic
  /\ entries'[n].name = entries[n].name /\ entries'[n].ctx = entries[n].ctx

LoopSet(n, v) ==
  /\ OthersKept(n) /\ entries'[n].loop = v
  /\ entries'[n].active = entries[n].active /\ entries'[n].quit = entries[n].quit

QuitSet(n) ==
  /\ OthersKept(n) /\ entries'[n].quit = "closed"
  /\ entries'[n].active = entries[n].active /\ entries'[n].loop = entries[n].loop

ActiveSet(n) ==
  /\ OthersKept(n) /\ entries'[n].active = FALSE
  /\ entries'[n].quit = entries[n].quit /\ entries'[n].loop = entries[n].loop

\* What the sync loop and the main loop do next, field by field
SyncIs(thunk, at, op, id, clean, name) ==
  /\ sync' \in Sync
  /\ sync'.thunk = thunk /\ sync'.at = at /\ sync'.op = op /\ sync'.id = id
  /\ sync'.clean = clean /\ sync'.name = name

MainIs(at, id, left) ==
  /\ main' \in Main
  /\ main'.at = at /\ main'.id = id /\ main'.left = left

\* A goroutine's step changes where its loop is.
LEMMA LoopChange ==
  ASSUME EntriesType, NEW n \in Created, NEW v \in {"none", "waiting", "pushing", "ended"},
         entries' = [entries EXCEPT ![n].loop = v]
  PROVE  LoopSet(n, v)
BY DEF EntriesType, Entry, Created, LoopSet, OthersKept

\* A stop closes the channel quit.
LEMMA QuitChange ==
  ASSUME EntriesType, NEW n \in Created, entries' = [entries EXCEPT ![n].quit = "closed"]
  PROVE  QuitSet(n)
BY DEF EntriesType, Entry, Created, QuitSet, OthersKept

\* At its end it marks the entry.
LEMMA ActiveChange ==
  ASSUME EntriesType, NEW n \in Created, entries' = [entries EXCEPT ![n].active = FALSE]
  PROVE  ActiveSet(n)
BY DEF EntriesType, Entry, Created, ActiveSet, OthersKept

\* Removing a timer takes it from both tables.
LEMMA RemoveFacts ==
  ASSUME EntriesType, NEW n \in Created, Remove(n)
  PROVE  /\ timers' = timers \ {n}
         /\ ctxTimers' \in [Contexts -> SUBSET Created]
         /\ n \notin timers => ctxTimers' = ctxTimers
         /\ n \in timers => \A c \in Contexts :
              ctxTimers'[c] = IF c = entries[n].ctx THEN ctxTimers[c] \ {n} ELSE ctxTimers[c]
BY EntryFields DEF EntriesType, Remove

\* The id of the next timer is new.
LEMMA NextId ==
  ASSUME Numbered
  PROVE  /\ Cardinality(Created) \in Nat /\ Created = 1 .. Cardinality(Created)
         /\ Cardinality(Created) + 1 \notin Created
<1>1. PICK k \in 0 .. MaxTimers : Created = 1 .. k
  BY DEF Numbered
<1>2. k \in Nat
  BY Sorts
<1>3. Cardinality(1 .. k) = k
  BY <1>2, FS_Interval
<1> QED BY <1>1, <1>2, <1>3

\* Timer n is new, with the entry e.
Started(n, e, name, ctx) ==
  /\ n \notin Created /\ Created' = Created \cup {n} /\ Created' = 1 .. n
  /\ entries' \in [Created' -> Entry] /\ entries'[n] = e
  /\ \A m \in Created : entries'[m] = entries[m]
  /\ e.active /\ e.name = name /\ e.ctx = ctx
  /\ ready => e.quit = "open" /\ e.loop = "waiting"
  /\ ~ ready => e.quit = "nil" /\ e.loop = "none"
  /\ timers' = timers \cup {n}
  /\ ctxTimers' \in [Contexts -> SUBSET Created']
  /\ \A c \in Contexts :
       ctxTimers'[c] = IF c = ctx THEN ctxTimers[c] \cup {n} ELSE ctxTimers[c]
  /\ late' = IF main.at = "loop" THEN late ELSE late \cup {n}

\* A timer is started with a new id, and gets its goroutine if the engine is ready.
LEMMA StartFacts ==
  ASSUME EntriesType, Numbered, NEW name \in Names \cup {NoName}, NEW periodic \in BOOLEAN,
         NEW ctx \in Contexts, StartTimer(name, periodic, ctx)
  PROVE  \E n \in Ids, e \in Entry : Started(n, e, name, ctx)
<1> DEFINE n == Cardinality(Created) + 1
<1> DEFINE new == [periodic |-> periodic, name |-> name, ctx |-> ctx, active |-> TRUE,
                   quit |-> "nil", loop |-> "none"]
<1> DEFINE e == IF ready THEN Launch(new) ELSE new
<1>1. n \in Ids /\ n \notin Created /\ Created \cup {n} = 1 .. n
  BY NextId DEF StartTimer
<1>2. /\ new \in Entry /\ e \in Entry /\ e.active /\ e.name = name /\ e.ctx = ctx
      /\ ready => e.quit = "open" /\ e.loop = "waiting"
      /\ ~ ready => e.quit = "nil" /\ e.loop = "none"
  BY DEF Entry, Launch
<1>3. entries' = [m \in Created \cup {n} |-> IF m # n THEN entries[m] ELSE e]
  BY DEF StartTimer
<1>4. /\ Created' = Created \cup {n} /\ entries' \in [Created' -> Entry] /\ entries'[n] = e
      /\ \A m \in Created : entries'[m] = entries[m]
  BY <1>1, <1>2, <1>3 DEF Created, EntriesType
<1>5. /\ timers' = timers \cup {n}
      /\ ctxTimers' = [ctxTimers EXCEPT ![ctx] = @ \cup {n}]
      /\ late' = IF main.at = "loop" THEN late ELSE late \cup {n}
  BY DEF StartTimer
<1>6. /\ ctxTimers' \in [Contexts -> SUBSET Created']
      /\ \A c \in Contexts :
           ctxTimers'[c] = IF c = ctx THEN ctxTimers[c] \cup {n} ELSE ctxTimers[c]
  BY <1>4, <1>5 DEF EntriesType
<1>7. Started(n, e, name, ctx)
  BY <1>1, <1>2, <1>4, <1>5, <1>6 DEF Started
<1> QED BY <1>1, <1>2, <1>7

-----------------------------------------------------------------------------
(* Every step preserves the invariant *)

\* A tick changes nothing but where the goroutine is.
LEMMA TickStep ==
  ASSUME IInv, NEW n \in Ids, Tick(n)
  PROVE  IInv'
<1>1. /\ n \in Created /\ entries[n].loop = "waiting"
      /\ UNCHANGED <<timers, ctxTimers, ready, queue, sync, stop, main, crashed, fired,
                     late>>
  BY DEF Tick, tables, history
<1>2. LoopSet(n, "pushing")
  BY <1>1, LoopChange DEF IInv, TypeOK, Tick
<1>3. LoopsType' /\ NoPanicWhileRunning'
  BY <1>1 DEF IInv, TypeOK, LoopsType, NoPanicWhileRunning
<1>4. EntriesType'
  BY <1>1, <1>2 DEF IInv, TypeOK, EntriesType, LoopSet, OthersKept
<1>5. QueueType'
  BY <1>1, <1>2 DEF IInv, TypeOK, QueueType, LoopSet, OthersKept
<1>6. Numbered'
  BY <1>1, <1>2 DEF IInv, Numbered, LoopSet, OthersKept
<1>7. LoopOK'
  BY <1>1, <1>2 DEF IInv, LoopOK, LoopSet, OthersKept
<1>8. SyncOK'
  BY <1>1, <1>2 DEF IInv, SyncOK, LoopSet, OthersKept
<1>9. StopOK'
  BY <1>1, <1>2 DEF IInv, StopOK, TypeOK, EntriesType, SyncOK, LoopSet, OthersKept
<1>10. MainOK'
  BY <1>1, <1>2 DEF IInv, MainOK, LoopSet, OthersKept
<1>11. StoppedForGood'
  BY <1>1, <1>2 DEF IInv, StoppedForGood, LoopSet, OthersKept
<1>12. OneTimerPerName'
  BY <1>1, <1>2 DEF IInv, OneTimerPerName, TypeOK, EntriesType, LoopSet, OthersKept
<1>13. CleanupsKnowTheTimers'
  BY <1>1, <1>2 DEF IInv, CleanupsKnowTheTimers, TypeOK, EntriesType, LoopSet, OthersKept
<1>14. Kept'
  BY <1>1, <1>2 DEF IInv, Kept, TypeOK, EntriesType, StoppedForGood, LoopSet, OthersKept
<1>15. ClosedOnce'
  BY <1>1, <1>2 DEF IInv, ClosedOnce, LoopSet, OthersKept
<1>16. OneShotOK'
  BY <1>1, <1>2 DEF IInv, OneShotOK, InQueue, LoopSet, OthersKept
<1> QED BY <1>3, <1>4, <1>5, <1>6, <1>7, <1>8, <1>9, <1>10, <1>11, <1>12, <1>13, <1>14,
           <1>15, <1>16 DEF IInv, TypeOK

\* A goroutine that sees quit ends.
LEMMA SeeQuitStep ==
  ASSUME IInv, NEW n \in Ids, SeeQuit(n)
  PROVE  IInv'
<1>1. /\ n \in Created /\ entries[n].quit = "closed"
      /\ entries[n].loop \in {"waiting", "pushing"}
      /\ UNCHANGED <<timers, ctxTimers, ready, queue, sync, stop, main, crashed, fired,
                     late>>
  BY DEF SeeQuit, tables, history
<1>2. LoopSet(n, "ended")
  BY <1>1, LoopChange DEF IInv, TypeOK, SeeQuit
<1>3. LoopsType' /\ NoPanicWhileRunning'
  BY <1>1 DEF IInv, TypeOK, LoopsType, NoPanicWhileRunning
<1>4. EntriesType'
  BY <1>1, <1>2 DEF IInv, TypeOK, EntriesType, LoopSet, OthersKept
<1>5. QueueType'
  BY <1>1, <1>2 DEF IInv, TypeOK, QueueType, LoopSet, OthersKept
<1>6. Numbered'
  BY <1>1, <1>2 DEF IInv, Numbered, LoopSet, OthersKept
<1>7. LoopOK'
  BY <1>1, <1>2 DEF IInv, LoopOK, LoopSet, OthersKept
<1>8. SyncOK'
  BY <1>1, <1>2 DEF IInv, SyncOK, LoopSet, OthersKept
<1>9. StopOK'
  BY <1>1, <1>2 DEF IInv, StopOK, TypeOK, EntriesType, SyncOK, LoopSet, OthersKept
<1>10. MainOK'
  BY <1>1, <1>2 DEF IInv, MainOK, LoopSet, OthersKept
<1>11. StoppedForGood'
  BY <1>1, <1>2 DEF IInv, StoppedForGood, LoopSet, OthersKept
<1>12. OneTimerPerName'
  BY <1>1, <1>2 DEF IInv, OneTimerPerName, TypeOK, EntriesType, LoopSet, OthersKept
<1>13. CleanupsKnowTheTimers'
  BY <1>1, <1>2 DEF IInv, CleanupsKnowTheTimers, TypeOK, EntriesType, LoopSet, OthersKept
<1>14. Kept'
  BY <1>1, <1>2 DEF IInv, Kept, TypeOK, EntriesType, StoppedForGood, LoopSet, OthersKept
<1>15. ClosedOnce'
  BY <1>1, <1>2 DEF IInv, ClosedOnce, LoopSet, OthersKept
<1>16. OneShotOK'
  BY <1>1, <1>2 DEF IInv, OneShotOK, InQueue, LoopSet, OthersKept
<1> QED BY <1>3, <1>4, <1>5, <1>6, <1>7, <1>8, <1>9, <1>10, <1>11, <1>12, <1>13, <1>14,
           <1>15, <1>16 DEF IInv, TypeOK

\* The goroutine of a one-shot timer ends with its push.
LEMMA PushStep ==
  ASSUME IInv, NEW n \in Ids, Push(n)
  PROVE  IInv'
<1>1. /\ n \in Created /\ entries[n].loop = "pushing"
      /\ UNCHANGED <<timers, ctxTimers, ready, sync, stop, main, crashed, fired, late>>
  BY DEF Push, tables, history
<1>2. LoopSet(n, IF entries[n].periodic THEN "waiting" ELSE "ended")
  BY <1>1, LoopChange DEF IInv, TypeOK, Push
<1>3. /\ queue' \in Seq(Created \cup {OtherThunk}) /\ Len(queue') <= QueueLen
      /\ DOMAIN queue' = DOMAIN queue \cup {Len(queue) + 1}
      /\ Len(queue) + 1 \notin DOMAIN queue
      /\ queue'[Len(queue) + 1] = n
      /\ \A i \in DOMAIN queue : queue'[i] = queue[i]
  BY <1>1, Sorts DEF IInv, TypeOK, QueueType, Push
<1>4. LoopsType' /\ NoPanicWhileRunning'
  BY <1>1 DEF IInv, TypeOK, LoopsType, NoPanicWhileRunning
<1>5. EntriesType'
  BY <1>1, <1>2, <1>3 DEF IInv, TypeOK, EntriesType, LoopSet, OthersKept
<1>6. QueueType'
  BY <1>1, <1>2, <1>3 DEF IInv, TypeOK, QueueType, LoopSet, OthersKept
<1>7. Numbered'
  BY <1>1, <1>2, <1>3 DEF IInv, Numbered, LoopSet, OthersKept
<1>8. LoopOK'
  BY <1>1, <1>2, <1>3 DEF IInv, LoopOK, LoopSet, OthersKept
<1>9. SyncOK'
  BY <1>1, <1>2, <1>3 DEF IInv, SyncOK, LoopSet, OthersKept
<1>10. StopOK'
  BY <1>1, <1>2, <1>3 DEF IInv, StopOK, TypeOK, EntriesType, SyncOK, LoopSet, OthersKept
<1>11. MainOK'
  BY <1>1, <1>2, <1>3 DEF IInv, MainOK, LoopSet, OthersKept
<1>12. StoppedForGood'
  BY <1>1, <1>2, <1>3 DEF IInv, StoppedForGood, LoopSet, OthersKept
<1>13. OneTimerPerName'
  BY <1>1, <1>2, <1>3 DEF IInv, OneTimerPerName, TypeOK, EntriesType, LoopSet, OthersKept
<1>14. CleanupsKnowTheTimers'
  BY <1>1, <1>2, <1>3 DEF IInv, CleanupsKnowTheTimers, TypeOK, EntriesType, LoopSet, OthersKept
<1>15. Kept'
  BY <1>1, <1>2, <1>3 DEF IInv, Kept, TypeOK, EntriesType, StoppedForGood, LoopSet, OthersKept
<1>16. ClosedOnce'
  BY <1>1, <1>2, <1>3 DEF IInv, ClosedOnce, LoopSet, OthersKept
<1>17. OneShotOK'
  BY <1>1, <1>2, <1>3 DEF IInv, OneShotOK, InQueue, LoopSet, OthersKept
<1> QED BY <1>4, <1>5, <1>6, <1>7, <1>8, <1>9, <1>10, <1>11, <1>12, <1>13, <1>14, <1>15,
           <1>16, <1>17 DEF IInv, TypeOK

\* Only Stop releases the queue.
LEMMA PushAfterReleaseStep ==
  ASSUME IInv, NEW n \in Ids, PushAfterRelease(n)
  PROVE  IInv'
<1>1. /\ crashed' = TRUE /\ main.at = "released"
      /\ UNCHANGED <<entries, timers, ctxTimers, ready, queue, sync, stop, main, fired,
                     late>>
  BY DEF PushAfterRelease, tables, history
<1>2. Created' = Created
  BY <1>1 DEF Created
<1>3. /\ EntriesType' /\ QueueType' /\ Numbered' /\ LoopOK' /\ SyncOK' /\ StopOK' /\ MainOK'
      /\ StoppedForGood' /\ OneTimerPerName' /\ CleanupsKnowTheTimers' /\ Kept' /\ OneShotOK'
  BY <1>1 DEF IInv, TypeOK, EntriesType, QueueType, Numbered, LoopOK, SyncOK, StopOK,
     MainOK, StoppedForGood, OneTimerPerName, CleanupsKnowTheTimers, Kept, OneShotOK,
     InQueue, Created
<1>4. LoopsType'
  BY <1>1, <1>2 DEF IInv, TypeOK, LoopsType
<1>5. NoPanicWhileRunning'
  BY <1>1, <1>2 DEF IInv, NoPanicWhileRunning, MainOK
<1>6. ClosedOnce'
  BY <1>1, <1>2 DEF IInv, ClosedOnce
<1> QED BY <1>3, <1>4, <1>5, <1>6 DEF IInv, TypeOK

\* What was started before the engine was ready gets its goroutine unless it was stopped.
LEMMA StartDeferredStep ==
  ASSUME IInv, StartDeferred
  PROVE  IInv'
<1>1. /\ ready' = TRUE /\ ~ ready /\ sync.at = "idle" /\ main.id \notin Created
      /\ UNCHANGED <<timers, ctxTimers, queue, sync, stop, main, crashed, fired, late>>
  BY DEF StartDeferred, CanTake, Locked, tables, history
<1>2. /\ Created' = Created /\ entries' \in [Created -> Entry]
      /\ \A m \in Created :
           /\ entries'[m].periodic = entries[m].periodic
           /\ entries'[m].name = entries[m].name /\ entries'[m].ctx = entries[m].ctx
           /\ entries'[m].active = entries[m].active
           /\ entries'[m].quit = IF entries[m].active THEN "open" ELSE entries[m].quit
           /\ entries'[m].loop = IF entries[m].active THEN "waiting" ELSE entries[m].loop
  BY DEF IInv, TypeOK, EntriesType, Entry, Created, StartDeferred, Launch
<1>3. EntriesType'
  BY <1>1, <1>2 DEF IInv, TypeOK, EntriesType
<1>4. LoopsType'
  BY <1>1, <1>2 DEF IInv, TypeOK, LoopsType
<1>5. QueueType'
  BY <1>1, <1>2 DEF IInv, TypeOK, QueueType
<1>6. Numbered'
  BY <1>1, <1>2 DEF IInv, Numbered
<1>7. LoopOK'
  BY <1>1, <1>2 DEF IInv, LoopOK
<1>8. SyncOK'
  BY <1>1, <1>2 DEF IInv, SyncOK
<1>9. StopOK'
  BY <1>1, <1>2 DEF IInv, StopOK, TypeOK, EntriesType, SyncOK
<1>10. MainOK'
  BY <1>1, <1>2 DEF IInv, MainOK
<1>11. StoppedForGood'
  BY <1>1, <1>2 DEF IInv, StoppedForGood
<1>12. OneTimerPerName'
  BY <1>1, <1>2 DEF IInv, OneTimerPerName, TypeOK, EntriesType
<1>13. CleanupsKnowTheTimers'
  BY <1>1, <1>2 DEF IInv, CleanupsKnowTheTimers, TypeOK, EntriesType
<1>14. NoPanicWhileRunning'
  BY <1>1, <1>2 DEF IInv, NoPanicWhileRunning
<1>15. Kept'
  BY <1>1, <1>2 DEF IInv, Kept, TypeOK, EntriesType, StoppedForGood, LoopOK
<1>16. ClosedOnce'
  BY <1>1, <1>2 DEF IInv, ClosedOnce
<1>17. OneShotOK'
  BY <1>1, <1>2 DEF IInv, OneShotOK, InQueue, LoopOK
<1> QED BY <1>3, <1>4, <1>5, <1>6, <1>7, <1>8, <1>9, <1>10, <1>11, <1>12, <1>13, <1>14,
           <1>15, <1>16, <1>17 DEF IInv, TypeOK

\* A thunk of others is no timer's.
LEMMA QueueOtherStep ==
  ASSUME IInv, QueueOther
  PROVE  IInv'
<1>1. /\ UNCHANGED <<entries, timers, ctxTimers, ready, sync, stop, main, crashed, fired,
                     late>>
  BY DEF QueueOther, tables, history
<1>2. Created' = Created
  BY <1>1 DEF Created
<1>3. /\ queue' \in Seq(Created \cup {OtherThunk}) /\ Len(queue') <= QueueLen
      /\ DOMAIN queue' = DOMAIN queue \cup {Len(queue) + 1}
      /\ queue'[Len(queue) + 1] = OtherThunk
      /\ \A i \in DOMAIN queue : queue'[i] = queue[i]
  BY Sorts DEF IInv, TypeOK, QueueType, QueueOther
<1>4. /\ EntriesType' /\ LoopsType' /\ Numbered' /\ LoopOK' /\ SyncOK' /\ StopOK' /\ MainOK'
      /\ StoppedForGood' /\ OneTimerPerName' /\ CleanupsKnowTheTimers'
      /\ NoPanicWhileRunning' /\ Kept' /\ ClosedOnce'
  BY <1>1 DEF IInv, TypeOK, EntriesType, LoopsType, Numbered, LoopOK, SyncOK, StopOK,
     MainOK, StoppedForGood, OneTimerPerName, CleanupsKnowTheTimers, NoPanicWhileRunning,
     Kept, ClosedOnce, Created
<1>5. QueueType'
  BY <1>1, <1>2, <1>3 DEF IInv, TypeOK, QueueType
<1>6. OneShotOK'
  BY EntryFields, Sorts, <1>1, <1>2, <1>3 DEF IInv, OneShotOK, InQueue, TypeOK
<1> QED BY <1>4, <1>5, <1>6 DEF IInv, TypeOK

\* The sync loop takes a thunk that runs a script.
LEMMA TakeOtherStep ==
  ASSUME IInv, TakeOther
  PROVE  IInv'
<1>1. /\ Head(queue) = OtherThunk /\ sync.at = "idle"
      /\ UNCHANGED <<entries, timers, ctxTimers, ready, stop, main, crashed, fired,
                     late>>
  BY DEF TakeOther, CanTake, tables, history
<1>2. Created' = Created
  BY <1>1 DEF Created
<1>3. /\ queue' \in Seq(Created \cup {OtherThunk}) /\ Len(queue') <= QueueLen
      /\ 1 \in DOMAIN queue /\ queue[1] = Head(queue)
      /\ \A i \in DOMAIN queue' : i + 1 \in DOMAIN queue /\ queue'[i] = queue[i + 1]
                                   /\ i + 1 # 1 /\ i \in Nat
  BY Sorts DEF IInv, TypeOK, QueueType, TakeOther
<1>4. SyncIs(OtherThunk, "script", sync.op, sync.id, sync.clean, sync.name)
  BY DEF TakeOther, SyncIs, Sync, IInv, TypeOK, LoopsType
<1>5. /\ EntriesType' /\ Numbered' /\ LoopOK' /\ MainOK' /\ StoppedForGood'
      /\ OneTimerPerName' /\ CleanupsKnowTheTimers' /\ NoPanicWhileRunning'
  BY <1>1 DEF IInv, TypeOK, EntriesType, Numbered, LoopOK, MainOK, StoppedForGood,
     OneTimerPerName, CleanupsKnowTheTimers, NoPanicWhileRunning, Created
<1>6. LoopsType'
  BY <1>1, <1>2, <1>3, <1>4 DEF IInv, TypeOK, LoopsType, SyncIs
<1>7. QueueType'
  BY <1>1, <1>2, <1>3, <1>4 DEF IInv, TypeOK, QueueType
<1>8. SyncOK'
  BY Sorts, <1>1, <1>2, <1>3, <1>4 DEF IInv, SyncOK, SyncIs
<1>9. StopOK'
  BY <1>1, <1>2, <1>3, <1>4 DEF IInv, StopOK, TypeOK, EntriesType, SyncOK, SyncIs
<1>10. Kept'
  BY Sorts, <1>1, <1>2, <1>3, <1>4 DEF IInv, Kept, TypeOK, EntriesType, StoppedForGood, SyncIs
<1>11. ClosedOnce'
  BY <1>1, <1>2, <1>3, <1>4 DEF IInv, ClosedOnce, SyncIs
<1>12. OneShotOK'
  BY <1>1, <1>2, <1>3, <1>4 DEF IInv, OneShotOK, InQueue, SyncIs
<1> QED BY <1>5, <1>6, <1>7, <1>8, <1>9, <1>10, <1>11, <1>12 DEF IInv, TypeOK

\* The sync loop takes an entryFunc; an entry that is not active is left at that.
LEMMA TakeEntryFuncStep ==
  ASSUME IInv, TakeEntryFunc
  PROVE  IInv'
<1>1. /\ Head(queue) # OtherThunk /\ sync.at = "idle"
      /\ UNCHANGED <<entries, timers, ctxTimers, ready, stop, main, crashed, fired,
                     late>>
  BY DEF TakeEntryFunc, CanTake, tables, history
<1>2. Created' = Created
  BY <1>1 DEF Created
<1>3. /\ queue' \in Seq(Created \cup {OtherThunk}) /\ Len(queue') <= QueueLen
      /\ 1 \in DOMAIN queue /\ queue[1] = Head(queue)
      /\ \A i \in DOMAIN queue' : i + 1 \in DOMAIN queue /\ queue'[i] = queue[i + 1]
                                   /\ i + 1 # 1 /\ i \in Nat
  BY Sorts DEF IInv, TypeOK, QueueType, TakeEntryFunc
<1>4. Head(queue) \in Created /\ Head(queue) \in Ids
  BY <1>1, <1>3 DEF IInv, TypeOK, QueueType, EntriesType
<1>5. \/ SyncIs(Head(queue), "active", sync.op, sync.id, sync.clean, sync.name)
      \/ sync' = sync
  BY <1>4 DEF TakeEntryFunc, SyncIs, Sync, IInv, TypeOK, LoopsType
<1>6. /\ EntriesType' /\ Numbered' /\ LoopOK' /\ MainOK' /\ StoppedForGood'
      /\ OneTimerPerName' /\ CleanupsKnowTheTimers' /\ NoPanicWhileRunning'
  BY <1>1 DEF IInv, TypeOK, EntriesType, Numbered, LoopOK, MainOK, StoppedForGood,
     OneTimerPerName, CleanupsKnowTheTimers, NoPanicWhileRunning, Created
<1>7. LoopsType'
  BY <1>1, <1>2, <1>3, <1>4, <1>5 DEF IInv, TypeOK, LoopsType, SyncIs
<1>8. QueueType'
  BY <1>1, <1>2, <1>3, <1>4, <1>5 DEF IInv, TypeOK, QueueType
<1>9. SyncOK'
  BY Sorts, <1>1, <1>2, <1>3, <1>4, <1>5 DEF IInv, SyncOK, SyncIs
<1>10. StopOK'
  BY <1>1, <1>2, <1>3, <1>4, <1>5 DEF IInv, StopOK, TypeOK, EntriesType, SyncOK, SyncIs
<1>11. Kept'
  BY Sorts, <1>1, <1>2, <1>3, <1>4, <1>5
     DEF IInv, Kept, TypeOK, EntriesType, StoppedForGood, SyncIs
<1>12. ClosedOnce'
  BY <1>1, <1>2, <1>3, <1>4, <1>5 DEF IInv, ClosedOnce, SyncIs
<1>13. OneShotOK'
  BY Sorts, <1>1, <1>2, <1>3, <1>4, <1>5 DEF IInv, OneShotOK, InQueue, SyncIs
<1> QED BY <1>6, <1>7, <1>8, <1>9, <1>10, <1>11, <1>12, <1>13 DEF IInv, TypeOK

\* A callback begins.
LEMMA FireTimerStep ==
  ASSUME IInv, FireTimer
  PROVE  IInv'
<1>1. /\ fired' = fired \cup {sync.thunk} /\ sync.at = "active" /\ sync.thunk \in timers
      /\ UNCHANGED <<entries, timers, ctxTimers, ready, queue, stop, main, crashed,
                     late>>
  BY DEF FireTimer, tables, history
<1>2. Created' = Created
  BY <1>1 DEF Created
<1>3. SyncIs(sync.thunk, "script", sync.op, sync.id, sync.clean, sync.name)
  BY <1>1 DEF FireTimer, SyncIs, Sync, IInv, TypeOK, LoopsType
<1>4. /\ EntriesType' /\ Numbered' /\ LoopOK' /\ MainOK' /\ StoppedForGood'
      /\ OneTimerPerName' /\ CleanupsKnowTheTimers' /\ NoPanicWhileRunning'
  BY <1>1 DEF IInv, TypeOK, EntriesType, Numbered, LoopOK, MainOK, StoppedForGood,
     OneTimerPerName, CleanupsKnowTheTimers, NoPanicWhileRunning, Created
<1>5. LoopsType'
  BY <1>1, <1>2, <1>3 DEF IInv, TypeOK, LoopsType, SyncIs
<1>6. QueueType'
  BY <1>1, <1>2, <1>3 DEF IInv, TypeOK, QueueType, EntriesType
<1>7. SyncOK'
  BY Sorts, <1>1, <1>2, <1>3 DEF IInv, SyncOK, SyncIs
<1>8. StopOK'
  BY <1>1, <1>2, <1>3 DEF IInv, StopOK, TypeOK, EntriesType, SyncOK, SyncIs
<1>9. Kept'
  BY Sorts, <1>1, <1>2, <1>3 DEF IInv, Kept, TypeOK, EntriesType, StoppedForGood, SyncIs
<1>10. ClosedOnce'
  BY <1>1, <1>2, <1>3 DEF IInv, ClosedOnce, SyncIs
<1>11. OneShotOK'
  BY <1>1, <1>2, <1>3 DEF IInv, OneShotOK, InQueue, SyncOK, SyncIs
<1> QED BY <1>4, <1>5, <1>6, <1>7, <1>8, <1>9, <1>10, <1>11 DEF IInv, TypeOK

\* The timer is gone.
LEMMA FireUnknownStep ==
  ASSUME IInv, FireUnknown
  PROVE  IInv'
<1>1. /\ sync.at = "active"
      /\ UNCHANGED <<entries, timers, ctxTimers, ready, queue, stop, main, crashed,
                     fired, late>>
  BY DEF FireUnknown, tables, history
<1>2. Created' = Created
  BY <1>1 DEF Created
<1>3. SyncIs(Nothing, "idle", sync.op, sync.id, sync.clean, sync.name)
  BY <1>1 DEF FireUnknown, SyncIs, Sync, IInv, TypeOK, LoopsType
<1>4. /\ EntriesType' /\ QueueType' /\ Numbered' /\ LoopOK' /\ MainOK' /\ StoppedForGood'
      /\ OneTimerPerName' /\ CleanupsKnowTheTimers' /\ NoPanicWhileRunning'
  BY <1>1 DEF IInv, TypeOK, EntriesType, QueueType, Numbered, LoopOK, MainOK,
     StoppedForGood, OneTimerPerName, CleanupsKnowTheTimers, NoPanicWhileRunning, Created
<1>5. LoopsType'
  BY <1>1, <1>2, <1>3 DEF IInv, TypeOK, LoopsType, SyncIs
<1>6. SyncOK'
  BY Sorts, <1>1, <1>2, <1>3 DEF IInv, SyncOK, SyncIs
<1>7. StopOK'
  BY <1>1, <1>2, <1>3 DEF IInv, StopOK, TypeOK, EntriesType, SyncOK, SyncIs
<1>8. Kept'
  BY Sorts, <1>1, <1>2, <1>3 DEF IInv, Kept, TypeOK, EntriesType, StoppedForGood, SyncIs
<1>9. ClosedOnce'
  BY <1>1, <1>2, <1>3 DEF IInv, ClosedOnce, SyncIs
<1>10. OneShotOK'
  BY EntryFields, Sorts, <1>1, <1>2, <1>3 DEF IInv, OneShotOK, InQueue, TypeOK, SyncIs
<1> QED BY <1>4, <1>5, <1>6, <1>7, <1>8, <1>9, <1>10 DEF IInv, TypeOK

\* fireTimer removes a one-shot timer, whose goroutine has ended.
LEMMA ScriptReturnsStep ==
  ASSUME IInv, ScriptReturns
  PROVE  IInv'
<1>1. /\ sync.at = "script" /\ sync.op = "none" /\ sync.clean = {} /\ sync.name = NoName
      /\ UNCHANGED <<entries, ready, queue, stop, main, crashed, fired, late>>
  BY DEF ScriptReturns, InScript, history
<1>2. Created' = Created
  BY <1>1 DEF Created
<1>3. SyncIs(Nothing, "idle", "none", sync.id, {}, NoName)
  BY <1>1 DEF ScriptReturns, SyncIs, Sync, IInv, TypeOK, LoopsType
<1>4. \/ UNCHANGED <<timers, ctxTimers>>
      \/ /\ sync.thunk \in Created /\ ~ entries[sync.thunk].periodic
         /\ Remove(sync.thunk)
  BY <1>1 DEF ScriptReturns, tables, IInv, SyncOK
<1>5. /\ timers' \subseteq timers
      /\ \A n \in timers \ timers' : n = sync.thunk /\ ~ entries[n].periodic
      /\ ctxTimers' \in [Contexts -> SUBSET Created]
  BY <1>4, RemoveFacts DEF IInv, TypeOK, EntriesType
<1>6. QueueType' /\ Numbered' /\ LoopOK' /\ StoppedForGood' /\ NoPanicWhileRunning'
  BY <1>1 DEF IInv, TypeOK, QueueType, Numbered, LoopOK, StoppedForGood,
     NoPanicWhileRunning, Created
<1>7. EntriesType'
  BY <1>1, <1>2, <1>3, <1>4, <1>5 DEF IInv, TypeOK, EntriesType
<1>8. LoopsType'
  BY <1>1, <1>2, <1>3, <1>4, <1>5 DEF IInv, TypeOK, LoopsType, SyncIs
<1>9. SyncOK'
  BY Sorts, <1>1, <1>2, <1>3, <1>4, <1>5 DEF IInv, SyncOK, SyncIs
<1>10. StopOK'
  BY <1>1, <1>2, <1>3, <1>4, <1>5 DEF IInv, StopOK, TypeOK, EntriesType, SyncOK, SyncIs
<1>11. MainOK'
  BY <1>1, <1>2, <1>3, <1>4, <1>5 DEF IInv, MainOK
<1>12. OneTimerPerName'
  BY <1>1, <1>2, <1>3, <1>4, <1>5 DEF IInv, OneTimerPerName, TypeOK, EntriesType
<1>13. CleanupsKnowTheTimers'
  BY RemoveFacts, <1>1, <1>2, <1>3, <1>4, <1>5
     DEF IInv, CleanupsKnowTheTimers, TypeOK, EntriesType
<1>14. Kept'
  BY Sorts, <1>1, <1>2, <1>3, <1>4, <1>5
     DEF IInv, Kept, TypeOK, EntriesType, StoppedForGood, OneShotOK, InQueue, SyncIs
<1>15. ClosedOnce'
  BY <1>1, <1>2, <1>3, <1>4, <1>5 DEF IInv, ClosedOnce, SyncIs
<1>16. OneShotOK'
  BY EntryFields, Sorts, <1>1, <1>2, <1>3, <1>4, <1>5
     DEF IInv, OneShotOK, InQueue, TypeOK, SyncIs
<1> QED BY <1>6, <1>7, <1>8, <1>9, <1>10, <1>11, <1>12, <1>13, <1>14, <1>15, <1>16
           DEF IInv, TypeOK

\* A timer without a name is in nobody's way.
LEMMA SetTimerStep ==
  ASSUME IInv, NEW periodic \in BOOLEAN, NEW ctx \in Contexts, SetTimer(periodic, ctx)
  PROVE  IInv'
<1>1. /\ sync.at # "idle" /\ sync.name = NoName /\ sync.op = "none"
      /\ UNCHANGED <<ready, queue, sync, stop, main, crashed, fired>>
  BY DEF SetTimer, InScript, tables, history, IInv, SyncOK
<1>2. NoName \in Names \cup {NoName}
  BY DEF IInv, TypeOK, LoopsType, Sync
<1>3. PICK n \in Ids, e \in Entry : Started(n, e, NoName, ctx)
  BY <1>2, StartFacts DEF IInv, TypeOK, SetTimer
<1>4. n \in Nat /\ n <= MaxTimers /\ n # OtherThunk /\ n # Nothing
  BY Sorts DEF Ids
<1>5. sync.thunk # n /\ n \notin fired /\ \A i \in DOMAIN queue : queue[i] # n
  BY <1>3, <1>4 DEF Started, IInv, TypeOK, QueueType, SyncOK
<1>6. LoopsType' /\ NoPanicWhileRunning'
  BY <1>1 DEF IInv, TypeOK, LoopsType, NoPanicWhileRunning
<1>7. EntriesType'
  BY <1>1, <1>2, <1>3, <1>4, <1>5 DEF IInv, TypeOK, EntriesType, Started
<1>8. QueueType'
  BY <1>1, <1>2, <1>3, <1>4, <1>5 DEF IInv, TypeOK, QueueType, Started
<1>9. Numbered'
  BY <1>1, <1>2, <1>3, <1>4, <1>5 DEF IInv, Numbered, Started
<1>10. LoopOK'
  BY <1>1, <1>2, <1>3, <1>4, <1>5 DEF IInv, LoopOK, Started
<1>11. SyncOK'
  BY <1>1, <1>2, <1>3, <1>4, <1>5 DEF IInv, SyncOK, Started
<1>12. StopOK'
  BY <1>1, <1>2, <1>3, <1>4, <1>5 DEF IInv, StopOK, TypeOK, EntriesType, SyncOK, Started
<1>13. MainOK'
  BY <1>1, <1>2, <1>3, <1>4, <1>5 DEF IInv, MainOK, Started
<1>14. StoppedForGood'
  BY <1>1, <1>2, <1>3, <1>4, <1>5 DEF IInv, StoppedForGood, Started
<1>15. OneTimerPerName'
  BY <1>1, <1>2, <1>3, <1>4, <1>5 DEF IInv, OneTimerPerName, TypeOK, EntriesType, Started
<1>16. CleanupsKnowTheTimers'
  <2> SUFFICES ASSUME main.at = "loop", NEW c \in Contexts, NEW x
               PROVE  x \in ctxTimers'[c] <=> x \in timers' /\ entries'[x].ctx = c
    BY <1>1, <1>3 DEF CleanupsKnowTheTimers, Started
  <2>1. x \in ctxTimers[c] <=> x \in timers /\ entries[x].ctx = c
    BY DEF IInv, CleanupsKnowTheTimers
  <2>2. timers \subseteq Created
    BY DEF IInv, TypeOK, EntriesType
  <2>3. CASE x = n
    BY <1>3, <2>1, <2>2, <2>3 DEF Started
  <2>4. CASE x # n
    <3>1. /\ x \in timers' <=> x \in timers
          /\ x \in ctxTimers'[c] <=> x \in ctxTimers[c]
          /\ x \in timers => entries'[x] = entries[x]
      BY <1>3, <2>2, <2>4 DEF Started
    <3> QED BY <2>1, <3>1
  <2> QED BY <2>3, <2>4
<1>17. Kept'
  BY <1>1, <1>2, <1>3, <1>4, <1>5 DEF IInv, Kept, TypeOK, EntriesType, StoppedForGood, Started
<1>18. ClosedOnce'
  BY <1>1, <1>2, <1>3, <1>4, <1>5 DEF IInv, ClosedOnce, Started
<1>19. OneShotOK'
  BY <1>1, <1>2, <1>3, <1>4, <1>5 DEF IInv, OneShotOK, InQueue, Started
<1> QED BY <1>6, <1>7, <1>8, <1>9, <1>10, <1>11, <1>12, <1>13, <1>14, <1>15, <1>16, <1>17,
           <1>18, <1>19 DEF IInv, TypeOK

\* The name of the new timer is free.
LEMMA StartNamedTimerStep ==
  ASSUME IInv, NEW periodic \in BOOLEAN, NEW ctx \in Contexts, StartNamedTimer(periodic, ctx)
  PROVE  IInv'
<1>1. /\ sync.at # "idle" /\ sync.name # NoName /\ sync.op = "none"
      /\ UNCHANGED <<ready, queue, stop, main, crashed, fired>>
  BY DEF StartNamedTimer, InScript, tables, history, IInv, SyncOK
<1>2. sync.name \in Names \cup {NoName}
  BY DEF IInv, TypeOK, LoopsType, Sync
<1>3. PICK n \in Ids, e \in Entry : Started(n, e, sync.name, ctx)
  BY <1>2, StartFacts DEF IInv, TypeOK, StartNamedTimer
<1>4. n \in Nat /\ n <= MaxTimers /\ n # OtherThunk /\ n # Nothing
  BY Sorts DEF Ids
<1>5. sync.thunk # n /\ n \notin fired /\ \A i \in DOMAIN queue : queue[i] # n
  BY <1>3, <1>4 DEF Started, IInv, TypeOK, QueueType, SyncOK
<1>6. SyncIs(sync.thunk, sync.at, sync.op, sync.id, sync.clean, NoName)
  BY <1>1 DEF StartNamedTimer, SyncIs, Sync, IInv, TypeOK, LoopsType
<1>7. EntriesType'
  BY <1>1, <1>2, <1>3, <1>4, <1>5, <1>6 DEF IInv, TypeOK, EntriesType, Started
<1>8. LoopsType'
  BY <1>1, <1>2, <1>3, <1>4, <1>5, <1>6 DEF IInv, TypeOK, LoopsType, Started, SyncIs
<1>9. QueueType'
  BY <1>1, <1>2, <1>3, <1>4, <1>5, <1>6 DEF IInv, TypeOK, QueueType, Started
<1>10. Numbered'
  BY <1>1, <1>2, <1>3, <1>4, <1>5, <1>6 DEF IInv, Numbered, Started
<1>11. LoopOK'
  BY <1>1, <1>2, <1>3, <1>4, <1>5, <1>6 DEF IInv, LoopOK, Started
<1>12. SyncOK'
  BY <1>1, <1>2, <1>3, <1>4, <1>5, <1>6 DEF IInv, SyncOK, Started, SyncIs
<1>13. StopOK'
  BY <1>1, <1>2, <1>3, <1>4, <1>5, <1>6
     DEF IInv, StopOK, TypeOK, EntriesType, SyncOK, Started, SyncIs
<1>14. MainOK'
  BY <1>1, <1>2, <1>3, <1>4, <1>5, <1>6 DEF IInv, MainOK, Started
<1>15. StoppedForGood'
  BY <1>1, <1>2, <1>3, <1>4, <1>5, <1>6 DEF IInv, StoppedForGood, Started
<1>16. OneTimerPerName'
  BY <1>1, <1>2, <1>3, <1>4, <1>5, <1>6
     DEF IInv, OneTimerPerName, TypeOK, EntriesType, StopOK, Started
<1>17. CleanupsKnowTheTimers'
  <2> SUFFICES ASSUME main.at = "loop", NEW c \in Contexts, NEW x
               PROVE  x \in ctxTimers'[c] <=> x \in timers' /\ entries'[x].ctx = c
    BY <1>1, <1>3 DEF CleanupsKnowTheTimers, Started
  <2>1. x \in ctxTimers[c] <=> x \in timers /\ entries[x].ctx = c
    BY DEF IInv, CleanupsKnowTheTimers
  <2>2. timers \subseteq Created
    BY DEF IInv, TypeOK, EntriesType
  <2>3. CASE x = n
    BY <1>3, <2>1, <2>2, <2>3 DEF Started
  <2>4. CASE x # n
    <3>1. /\ x \in timers' <=> x \in timers
          /\ x \in ctxTimers'[c] <=> x \in ctxTimers[c]
          /\ x \in timers => entries'[x] = entries[x]
      BY <1>3, <2>2, <2>4 DEF Started
    <3> QED BY <2>1, <3>1
  <2> QED BY <2>3, <2>4
<1>18. NoPanicWhileRunning'
  BY <1>1, <1>2, <1>3, <1>4, <1>5, <1>6 DEF IInv, NoPanicWhileRunning, Started
<1>19. Kept'
  BY Sorts, <1>1, <1>2, <1>3, <1>4, <1>5, <1>6
     DEF IInv, Kept, TypeOK, EntriesType, StoppedForGood, Started, SyncIs
<1>20. ClosedOnce'
  BY <1>1, <1>2, <1>3, <1>4, <1>5, <1>6 DEF IInv, ClosedOnce, Started, SyncIs
<1>21. OneShotOK'
  BY <1>1, <1>2, <1>3, <1>4, <1>5, <1>6 DEF IInv, OneShotOK, InQueue, Started, SyncIs
<1> QED BY <1>7, <1>8, <1>9, <1>10, <1>11, <1>12, <1>13, <1>14, <1>15, <1>16, <1>17, <1>18,
           <1>19, <1>20, <1>21 DEF IInv, TypeOK

\* The timer of a name is removed, and no other timer has that name.
LEMMA RemoveByNameStep ==
  ASSUME IInv, NEW name \in Names, NEW new \in {NoName, name}, InScript,
         RemoveByName(name, [sync EXCEPT !.name = new]),
         UNCHANGED <<entries, ready, queue, stop, main, crashed, history>>
  PROVE  IInv'
<1>1. /\ sync.at = "script" /\ sync.op = "none" /\ sync.id = Nothing /\ sync.name = NoName
      /\ UNCHANGED <<entries, ready, queue, stop, main, crashed, fired, late>>
  BY DEF InScript, history, IInv, SyncOK
<1>2. Created' = Created
  BY <1>1 DEF Created
<1>3. \/ \E n \in timers :
           /\ entries[n].name = name /\ Remove(n)
           /\ SyncIs(sync.thunk, sync.at, "removed", n, sync.clean, new)
      \/ /\ \A n \in timers : entries[n].name # name
         /\ UNCHANGED <<timers, ctxTimers>>
         /\ SyncIs(sync.thunk, sync.at, "none", Nothing, sync.clean, new)
  <2>1. timers \subseteq Ids /\ sync \in Sync
    BY DEF IInv, TypeOK, EntriesType, LoopsType, Created
  <2>2. ASSUME NEW n \in timers, sync' = [[sync EXCEPT !.name = new] EXCEPT !.op = "removed",
                                                                       !.id = n]
        PROVE  SyncIs(sync.thunk, sync.at, "removed", n, sync.clean, new)
    BY <2>1, <2>2 DEF SyncIs, Sync
  <2>3. ASSUME sync' = [sync EXCEPT !.name = new]
        PROVE  SyncIs(sync.thunk, sync.at, "none", Nothing, sync.clean, new)
    BY <1>1, <2>1, <2>3 DEF SyncIs, Sync
  <2> QED BY <2>2, <2>3 DEF RemoveByName, tables
<1>4. \/ \E n \in timers :
           /\ entries[n].name = name
           /\ timers' = timers \ {n} /\ ctxTimers' \in [Contexts -> SUBSET Created]
           /\ \A c \in Contexts :
                ctxTimers'[c] = IF c = entries[n].ctx THEN ctxTimers[c] \ {n} ELSE ctxTimers[c]
           /\ SyncIs(sync.thunk, sync.at, "removed", n, sync.clean, new)
      \/ /\ \A n \in timers : entries[n].name # name
         /\ UNCHANGED <<timers, ctxTimers>>
         /\ SyncIs(sync.thunk, sync.at, "none", Nothing, sync.clean, new)
  BY <1>3, RemoveFacts DEF IInv, TypeOK, EntriesType
<1>5. QueueType' /\ Numbered' /\ LoopOK' /\ StoppedForGood' /\ NoPanicWhileRunning'
  BY <1>1 DEF IInv, TypeOK, QueueType, Numbered, LoopOK, StoppedForGood,
     NoPanicWhileRunning, Created
<1>6. EntriesType'
  BY <1>1, <1>2, <1>4 DEF IInv, TypeOK, EntriesType
<1>7. LoopsType'
  BY <1>1, <1>2, <1>3, <1>4 DEF IInv, TypeOK, LoopsType, SyncIs
<1>8. SyncOK'
  BY <1>1, <1>2, <1>4, Sorts DEF IInv, SyncOK, EntriesType, TypeOK, SyncIs
<1>9. StopOK'
  BY <1>1, <1>2, <1>4, Sorts
     DEF IInv, StopOK, TypeOK, EntriesType, SyncOK, OneTimerPerName, SyncIs
<1>10. MainOK'
  BY <1>1, <1>2, <1>3, <1>4 DEF IInv, MainOK, SyncIs
<1>11. OneTimerPerName'
  BY <1>1, <1>2, <1>4 DEF IInv, OneTimerPerName, TypeOK, EntriesType
<1>12. CleanupsKnowTheTimers'
  <2> SUFFICES ASSUME main.at = "loop", NEW c \in Contexts, NEW x
               PROVE  x \in ctxTimers'[c] <=> x \in timers' /\ entries[x].ctx = c
    BY <1>1 DEF CleanupsKnowTheTimers
  <2>1. x \in ctxTimers[c] <=> x \in timers /\ entries[x].ctx = c
    BY DEF IInv, CleanupsKnowTheTimers
  <2> QED BY <1>4, <2>1
<1>13. Kept'
  BY Sorts, <1>1, <1>2, <1>4 DEF IInv, Kept, TypeOK, EntriesType, StoppedForGood, SyncIs
<1>14. ClosedOnce'
  BY <1>1, <1>2, <1>4 DEF IInv, ClosedOnce, SyncIs
<1>15. OneShotOK'
  BY <1>1, <1>2, <1>4 DEF IInv, OneShotOK, InQueue, SyncIs
<1> QED BY <1>5, <1>6, <1>7, <1>8, <1>9, <1>10, <1>11, <1>12, <1>13, <1>14, <1>15
           DEF IInv, TypeOK

\* clearTimeout has found the timer.
LEMMA StopByIndexStep ==
  ASSUME IInv, NEW n \in Ids, StopByIndex(n)
  PROVE  IInv'
<1>1. /\ n \in timers /\ sync.at = "script" /\ sync.op = "none"
      /\ UNCHANGED <<entries, timers, ctxTimers, ready, queue, stop, main, crashed,
                     fired, late>>
  BY DEF StopByIndex, tables, history, InScript
<1>2. Created' = Created
  BY <1>1 DEF Created
<1>3. SyncIs(sync.thunk, sync.at, "found", n, sync.clean, sync.name)
  BY <1>1 DEF StopByIndex, SyncIs, Sync, IInv, TypeOK, LoopsType, InScript
<1>4. /\ EntriesType' /\ QueueType' /\ Numbered' /\ LoopOK' /\ MainOK' /\ StoppedForGood'
      /\ OneTimerPerName' /\ CleanupsKnowTheTimers' /\ NoPanicWhileRunning'
  BY <1>1 DEF IInv, TypeOK, EntriesType, QueueType, Numbered, LoopOK, MainOK,
     StoppedForGood, OneTimerPerName, CleanupsKnowTheTimers, NoPanicWhileRunning, Created
<1>5. LoopsType'
  BY <1>1, <1>2, <1>3 DEF IInv, TypeOK, LoopsType, SyncIs
<1>6. SyncOK'
  BY Sorts, <1>1, <1>2, <1>3 DEF IInv, SyncOK, TypeOK, EntriesType, SyncIs
<1>7. StopOK'
  BY <1>1, <1>2, <1>3 DEF IInv, StopOK, TypeOK, EntriesType, SyncOK, SyncIs
<1>8. Kept'
  BY Sorts, <1>1, <1>2, <1>3
     DEF IInv, Kept, TypeOK, EntriesType, StoppedForGood, SyncOK, SyncIs
<1>9. ClosedOnce'
  BY <1>1, <1>2, <1>3 DEF IInv, ClosedOnce, SyncIs
<1>10. OneShotOK'
  BY <1>1, <1>2, <1>3 DEF IInv, OneShotOK, InQueue, SyncIs
<1> QED BY <1>4, <1>5, <1>6, <1>7, <1>8, <1>9, <1>10 DEF IInv, TypeOK

\* The cleanup of a file takes the ids of its timers.
LEMMA RunTimerCleanupsStep ==
  ASSUME IInv, NEW c \in Contexts, RunTimerCleanups(c)
  PROVE  IInv'
<1>1. /\ sync.at = "script"
      /\ UNCHANGED <<entries, timers, ctxTimers, ready, queue, stop, main, crashed,
                     fired, late>>
  BY DEF RunTimerCleanups, tables, history, InScript, EntriesType
<1>2. Created' = Created
  BY <1>1 DEF Created
<1>3. SyncIs(sync.thunk, sync.at, sync.op, sync.id, ctxTimers[c], sync.name)
  BY <1>1 DEF RunTimerCleanups, SyncIs, Sync, IInv, TypeOK, LoopsType, InScript, EntriesType
<1>4. /\ EntriesType' /\ QueueType' /\ Numbered' /\ LoopOK' /\ MainOK' /\ StoppedForGood'
      /\ OneTimerPerName' /\ CleanupsKnowTheTimers' /\ NoPanicWhileRunning'
  BY <1>1 DEF IInv, TypeOK, EntriesType, QueueType, Numbered, LoopOK, MainOK,
     StoppedForGood, OneTimerPerName, CleanupsKnowTheTimers, NoPanicWhileRunning, Created
<1>5. LoopsType'
  BY <1>1, <1>2, <1>3 DEF IInv, TypeOK, LoopsType, SyncIs
<1>6. SyncOK'
  BY <1>1, <1>2, <1>3 DEF IInv, SyncOK, TypeOK, EntriesType, SyncIs
<1>7. StopOK'
  BY <1>1, <1>2, <1>3 DEF IInv, StopOK, TypeOK, EntriesType, SyncOK, SyncIs
<1>8. Kept'
  BY Sorts, <1>1, <1>2, <1>3 DEF IInv, Kept, TypeOK, EntriesType, StoppedForGood, SyncIs
<1>9. ClosedOnce'
  BY <1>1, <1>2, <1>3 DEF IInv, ClosedOnce, SyncIs
<1>10. OneShotOK'
  BY <1>1, <1>2, <1>3 DEF IInv, OneShotOK, InQueue, SyncIs
<1> QED BY <1>4, <1>5, <1>6, <1>7, <1>8, <1>9, <1>10 DEF IInv, TypeOK

\* Stop asks the sync loop to quit, and it does.
LEMMA ShutdownStep ==
  ASSUME IInv, Stop \/ SyncLoopQuits
  PROVE  IInv'
<1>1. /\ stop' \in {"called", "ended"}
      /\ UNCHANGED <<entries, timers, ctxTimers, ready, queue, sync, main, crashed,
                     fired, late>>
  BY DEF Stop, SyncLoopQuits, tables, history
<1>2. Created' = Created
  BY <1>1 DEF Created
<1>3. /\ EntriesType' /\ QueueType' /\ Numbered' /\ LoopOK' /\ SyncOK' /\ StopOK'
      /\ StoppedForGood' /\ OneTimerPerName' /\ CleanupsKnowTheTimers' /\ Kept'
      /\ ClosedOnce' /\ OneShotOK'
  BY <1>1 DEF IInv, TypeOK, EntriesType, QueueType, Numbered, LoopOK, SyncOK, StopOK,
     StoppedForGood, OneTimerPerName, CleanupsKnowTheTimers, Kept, ClosedOnce, OneShotOK,
     InQueue, Created
<1>4. LoopsType'
  BY <1>1, <1>2 DEF IInv, TypeOK, LoopsType
<1>5. MainOK'
  BY <1>1, <1>2 DEF IInv, MainOK
<1>6. NoPanicWhileRunning'
  BY <1>1, <1>2 DEF IInv, NoPanicWhileRunning
<1> QED BY <1>3, <1>4, <1>5, <1>6 DEF IInv, TypeOK

\* StopTimerByIndex removes what it had found, if it is still there.
LEMMA RemoveFoundStep ==
  ASSUME IInv, RemoveFound
  PROVE  IInv'
<1>1. /\ sync.op = "found" /\ sync.id \in Created
      /\ UNCHANGED <<entries, ready, queue, stop, main, crashed, fired, late>>
  BY DEF RemoveFound, history, IInv, SyncOK
<1>2. Created' = Created
  BY <1>1 DEF Created
<1>3. SyncIs(sync.thunk, sync.at, "removed", sync.id, sync.clean, sync.name)
  BY DEF RemoveFound, SyncIs, Sync, IInv, TypeOK, LoopsType
<1>4. /\ timers' = timers \ {sync.id} /\ ctxTimers' \in [Contexts -> SUBSET Created]
      /\ sync.id \notin timers => ctxTimers' = ctxTimers
      /\ sync.id \in timers => \A c \in Contexts :
           ctxTimers'[c] = IF c = entries[sync.id].ctx THEN ctxTimers[c] \ {sync.id}
                           ELSE ctxTimers[c]
  BY <1>1, RemoveFacts DEF RemoveFound, IInv, TypeOK
<1>5. QueueType' /\ Numbered' /\ LoopOK' /\ StoppedForGood' /\ NoPanicWhileRunning'
  BY <1>1 DEF IInv, TypeOK, QueueType, Numbered, LoopOK, StoppedForGood,
     NoPanicWhileRunning, Created
<1>6. EntriesType'
  BY <1>1, <1>2, <1>3, <1>4 DEF IInv, TypeOK, EntriesType
<1>7. LoopsType'
  BY <1>1, <1>2, <1>3, <1>4 DEF IInv, TypeOK, LoopsType, SyncIs
<1>8. SyncOK'
  BY <1>1, <1>2, <1>3, <1>4 DEF IInv, SyncOK, SyncIs
<1>9. StopOK'
  BY <1>1, <1>2, <1>3, <1>4 DEF IInv, StopOK, TypeOK, EntriesType, SyncOK, SyncIs
<1>10. MainOK'
  BY <1>1, <1>2, <1>3, <1>4 DEF IInv, MainOK
<1>11. OneTimerPerName'
  BY <1>1, <1>2, <1>3, <1>4 DEF IInv, OneTimerPerName, TypeOK, EntriesType
<1>12. CleanupsKnowTheTimers'
  BY <1>1, <1>2, <1>3, <1>4 DEF IInv, CleanupsKnowTheTimers, TypeOK, EntriesType
<1>13. Kept'
  BY Sorts, <1>1, <1>2, <1>3, <1>4 DEF IInv, Kept, TypeOK, EntriesType, StoppedForGood, SyncIs
<1>14. ClosedOnce'
  BY <1>1, <1>2, <1>3, <1>4 DEF IInv, ClosedOnce, SyncIs
<1>15. OneShotOK'
  BY <1>1, <1>2, <1>3, <1>4 DEF IInv, OneShotOK, InQueue, SyncIs
<1> QED BY <1>5, <1>6, <1>7, <1>8, <1>9, <1>10, <1>11, <1>12, <1>13, <1>14, <1>15
           DEF IInv, TypeOK

\* The cleanup finds a timer of its list, or strikes off the id of one that is gone.
LEMMA CleanTimerStep ==
  ASSUME IInv, NEW n \in Ids, CleanTimer(n)
  PROVE  IInv'
<1>1. /\ sync.op = "none" /\ sync.id = Nothing /\ n \in Created /\ sync.at = "script"
      /\ UNCHANGED <<entries, timers, ready, queue, stop, main, crashed, fired, late>>
  BY DEF CleanTimer, history, IInv, SyncOK
<1>2. Created' = Created
  BY <1>1 DEF Created
<1>3. \/ /\ n \in timers /\ ctxTimers' = ctxTimers
         /\ SyncIs(sync.thunk, sync.at, "found", n, sync.clean \ {n}, sync.name)
      \/ /\ n \notin timers /\ ctxTimers' \in [Contexts -> SUBSET Created]
         /\ \A c \in Contexts : ctxTimers'[c] = ctxTimers[c] \ {n}
         /\ SyncIs(sync.thunk, sync.at, "none", Nothing, sync.clean \ {n}, sync.name)
  BY <1>1 DEF CleanTimer, SyncIs, Sync, IInv, TypeOK, EntriesType, LoopsType
<1>4. /\ QueueType' /\ Numbered' /\ LoopOK' /\ MainOK' /\ StoppedForGood' /\ OneTimerPerName'
      /\ NoPanicWhileRunning'
  BY <1>1 DEF IInv, TypeOK, QueueType, Numbered, LoopOK, MainOK, StoppedForGood,
     OneTimerPerName, NoPanicWhileRunning, Created
<1>5. EntriesType'
  BY <1>1, <1>2, <1>3 DEF IInv, TypeOK, EntriesType
<1>6. LoopsType'
  BY <1>1, <1>2, <1>3 DEF IInv, TypeOK, LoopsType, SyncIs
<1>7. SyncOK'
  BY Sorts, <1>1, <1>2, <1>3 DEF IInv, SyncOK, SyncIs
<1>8. StopOK'
  BY <1>1, <1>2, <1>3 DEF IInv, StopOK, TypeOK, EntriesType, SyncOK, SyncIs
<1>9. CleanupsKnowTheTimers'
  BY <1>1, <1>2, <1>3 DEF IInv, CleanupsKnowTheTimers, TypeOK, EntriesType
<1>10. Kept'
  BY Sorts, <1>1, <1>2, <1>3 DEF IInv, Kept, TypeOK, EntriesType, StoppedForGood, SyncIs
<1>11. ClosedOnce'
  BY <1>1, <1>2, <1>3 DEF IInv, ClosedOnce, SyncIs
<1>12. OneShotOK'
  BY <1>1, <1>2, <1>3 DEF IInv, OneShotOK, InQueue, SyncIs
<1> QED BY <1>4, <1>5, <1>6, <1>7, <1>8, <1>9, <1>10, <1>11, <1>12 DEF IInv, TypeOK

\* A timer without a goroutine is marked.
LEMMA StopIdleStep ==
  ASSUME IInv, StopIdle
  PROVE  IInv'
<1>1. /\ sync.op = "removed" /\ sync.id \in Created /\ entries[sync.id].quit = "nil"
      /\ sync.id # main.id
      /\ UNCHANGED <<timers, ctxTimers, ready, queue, stop, main, crashed, fired, late>>
  BY DEF StopIdle, Locked, tables, history, IInv, SyncOK, MainOK
<1>2. ActiveSet(sync.id)
  BY <1>1, ActiveChange DEF StopIdle, IInv, TypeOK
<1>3. SyncIs(sync.thunk, sync.at, "none", Nothing, sync.clean, sync.name)
  BY <1>1 DEF StopIdle, SyncIs, Sync, IInv, TypeOK, LoopsType
<1>4. EntriesType'
  BY <1>1, <1>2, <1>3 DEF IInv, TypeOK, EntriesType, ActiveSet, OthersKept
<1>5. LoopsType'
  BY <1>1, <1>2, <1>3 DEF IInv, TypeOK, LoopsType, SyncIs
<1>6. QueueType'
  BY <1>1, <1>2, <1>3 DEF IInv, TypeOK, QueueType, ActiveSet, OthersKept
<1>7. Numbered'
  BY <1>1, <1>2, <1>3 DEF IInv, Numbered, ActiveSet, OthersKept
<1>8. LoopOK'
  BY <1>1, <1>2, <1>3 DEF IInv, LoopOK, ActiveSet, OthersKept
<1>9. SyncOK'
  BY Sorts, <1>1, <1>2, <1>3 DEF IInv, SyncOK, ActiveSet, OthersKept, SyncIs
<1>10. StopOK'
  BY <1>1, <1>2, <1>3
     DEF IInv, StopOK, TypeOK, EntriesType, SyncOK, ActiveSet, OthersKept, SyncIs
<1>11. MainOK'
  BY <1>1, <1>2, <1>3 DEF IInv, MainOK, ActiveSet, OthersKept
<1>12. StoppedForGood'
  BY <1>1, <1>2, <1>3 DEF IInv, StoppedForGood, LoopOK, ActiveSet, OthersKept
<1>13. OneTimerPerName'
  BY <1>1, <1>2, <1>3 DEF IInv, OneTimerPerName, TypeOK, EntriesType, ActiveSet, OthersKept
<1>14. CleanupsKnowTheTimers'
  BY <1>1, <1>2, <1>3
     DEF IInv, CleanupsKnowTheTimers, TypeOK, EntriesType, ActiveSet, OthersKept
<1>15. NoPanicWhileRunning'
  BY <1>1, <1>2, <1>3 DEF IInv, NoPanicWhileRunning
<1>16. Kept'
  BY Sorts, <1>1, <1>2, <1>3
     DEF IInv, Kept, TypeOK, EntriesType, StoppedForGood, StopOK, ActiveSet, OthersKept,
     SyncIs
<1>17. ClosedOnce'
  BY Sorts, <1>1, <1>2, <1>3
     DEF IInv, ClosedOnce, TypeOK, EntriesType, ActiveSet, OthersKept, SyncIs
<1>18. OneShotOK'
  BY <1>1, <1>2, <1>3 DEF IInv, OneShotOK, InQueue, ActiveSet, OthersKept, SyncIs
<1> QED BY <1>4, <1>5, <1>6, <1>7, <1>8, <1>9, <1>10, <1>11, <1>12, <1>13, <1>14, <1>15,
           <1>16, <1>17, <1>18 DEF IInv, TypeOK

\* So is one whose goroutine has ended.
LEMMA WaitQuittedStep ==
  ASSUME IInv, WaitQuitted
  PROVE  IInv'
<1>1. /\ sync.op = "closed" /\ sync.id \in Created /\ entries[sync.id].loop = "ended"
      /\ UNCHANGED <<timers, ctxTimers, ready, queue, stop, main, crashed, fired, late>>
  BY DEF WaitQuitted, Locked, tables, history, IInv, SyncOK, MainOK
<1>2. ActiveSet(sync.id)
  BY <1>1, ActiveChange DEF WaitQuitted, IInv, TypeOK
<1>3. SyncIs(sync.thunk, sync.at, "none", Nothing, sync.clean, sync.name)
  BY <1>1 DEF WaitQuitted, SyncIs, Sync, IInv, TypeOK, LoopsType
<1>4. EntriesType'
  BY <1>1, <1>2, <1>3 DEF IInv, TypeOK, EntriesType, ActiveSet, OthersKept
<1>5. LoopsType'
  BY <1>1, <1>2, <1>3 DEF IInv, TypeOK, LoopsType, SyncIs
<1>6. QueueType'
  BY <1>1, <1>2, <1>3 DEF IInv, TypeOK, QueueType, ActiveSet, OthersKept
<1>7. Numbered'
  BY <1>1, <1>2, <1>3 DEF IInv, Numbered, ActiveSet, OthersKept
<1>8. LoopOK'
  BY <1>1, <1>2, <1>3 DEF IInv, LoopOK, ActiveSet, OthersKept
<1>9. SyncOK'
  BY Sorts, <1>1, <1>2, <1>3 DEF IInv, SyncOK, ActiveSet, OthersKept, SyncIs
<1>10. StopOK'
  BY <1>1, <1>2, <1>3
     DEF IInv, StopOK, TypeOK, EntriesType, SyncOK, ActiveSet, OthersKept, SyncIs
<1>11. MainOK'
  BY <1>1, <1>2, <1>3 DEF IInv, MainOK, ActiveSet, OthersKept
<1>12. StoppedForGood'
  BY <1>1, <1>2, <1>3 DEF IInv, StoppedForGood, ActiveSet, OthersKept
<1>13. OneTimerPerName'
  BY <1>1, <1>2, <1>3 DEF IInv, OneTimerPerName, TypeOK, EntriesType, ActiveSet, OthersKept
<1>14. CleanupsKnowTheTimers'
  BY <1>1, <1>2, <1>3
     DEF IInv, CleanupsKnowTheTimers, TypeOK, EntriesType, ActiveSet, OthersKept
<1>15. NoPanicWhileRunning'
  BY <1>1, <1>2, <1>3 DEF IInv, NoPanicWhileRunning
<1>16. Kept'
  BY Sorts, <1>1, <1>2, <1>3
     DEF IInv, Kept, TypeOK, EntriesType, StoppedForGood, StopOK, ActiveSet, OthersKept,
     SyncIs
<1>17. ClosedOnce'
  BY Sorts, <1>1, <1>2, <1>3
     DEF IInv, ClosedOnce, TypeOK, EntriesType, StopOK, SyncOK, ActiveSet, OthersKept,
     SyncIs
<1>18. OneShotOK'
  BY <1>1, <1>2, <1>3 DEF IInv, OneShotOK, InQueue, ActiveSet, OthersKept, SyncIs
<1> QED BY <1>4, <1>5, <1>6, <1>7, <1>8, <1>9, <1>10, <1>11, <1>12, <1>13, <1>14, <1>15,
           <1>16, <1>17, <1>18 DEF IInv, TypeOK

\* quit is closed; it was closed before only if the engine is being stopped.
LEMMA CloseQuitStep ==
  ASSUME IInv, CloseQuit
  PROVE  IInv'
<1>1. /\ sync.op = "removed" /\ sync.id \in Created /\ entries[sync.id].quit # "nil"
      /\ ~ crashed /\ crashed' = (entries[sync.id].quit = "closed")
      /\ UNCHANGED <<timers, ctxTimers, ready, queue, stop, main, fired, late>>
  BY DEF CloseQuit, Locked, tables, history, IInv, SyncOK, MainOK
<1>2. QuitSet(sync.id)
  BY <1>1, QuitChange DEF CloseQuit, IInv, TypeOK
<1>3. SyncIs(sync.thunk, sync.at, "closed", sync.id, sync.clean, sync.name)
  BY <1>1 DEF CloseQuit, SyncIs, Sync, IInv, TypeOK, LoopsType
<1>4. EntriesType'
  BY <1>1, <1>2, <1>3 DEF IInv, TypeOK, EntriesType, QuitSet, OthersKept
<1>5. LoopsType'
  BY <1>1, <1>2, <1>3 DEF IInv, TypeOK, LoopsType, SyncIs
<1>6. QueueType'
  BY <1>1, <1>2, <1>3 DEF IInv, TypeOK, QueueType, QuitSet, OthersKept
<1>7. Numbered'
  BY <1>1, <1>2, <1>3 DEF IInv, Numbered, QuitSet, OthersKept
<1>8. LoopOK'
  BY <1>1, <1>2, <1>3 DEF IInv, LoopOK, QuitSet, OthersKept
<1>9. SyncOK'
  BY <1>1, <1>2, <1>3 DEF IInv, SyncOK, QuitSet, OthersKept, SyncIs
<1>10. StopOK'
  BY <1>1, <1>2, <1>3
     DEF IInv, StopOK, TypeOK, EntriesType, SyncOK, QuitSet, OthersKept, SyncIs
<1>11. MainOK'
  BY <1>1, <1>2, <1>3 DEF IInv, MainOK, QuitSet, OthersKept
<1>12. StoppedForGood'
  BY <1>1, <1>2, <1>3 DEF IInv, StoppedForGood, QuitSet, OthersKept
<1>13. OneTimerPerName'
  BY <1>1, <1>2, <1>3 DEF IInv, OneTimerPerName, TypeOK, EntriesType, QuitSet, OthersKept
<1>14. CleanupsKnowTheTimers'
  BY <1>1, <1>2, <1>3 DEF IInv, CleanupsKnowTheTimers, TypeOK, EntriesType, QuitSet, OthersKept
<1>15. NoPanicWhileRunning'
  BY <1>1, <1>2, <1>3 DEF IInv, NoPanicWhileRunning, MainOK, ClosedOnce
<1>16. Kept'
  BY Sorts, <1>1, <1>2, <1>3
     DEF IInv, Kept, TypeOK, EntriesType, StoppedForGood, QuitSet, OthersKept, SyncIs
<1>17. ClosedOnce'
  BY <1>1, <1>2, <1>3 DEF IInv, ClosedOnce, StopOK, QuitSet, OthersKept, SyncIs
<1>18. OneShotOK'
  BY <1>1, <1>2, <1>3 DEF IInv, OneShotOK, InQueue, QuitSet, OthersKept, SyncIs
<1> QED BY <1>4, <1>5, <1>6, <1>7, <1>8, <1>9, <1>10, <1>11, <1>12, <1>13, <1>14, <1>15,
           <1>16, <1>17, <1>18 DEF IInv, TypeOK

\* handleStop marks a timer without a goroutine.
LEMMA MainStopIdleStep ==
  ASSUME IInv, NEW n \in Ids, MainStopIdle(n)
  PROVE  IInv'
<1>1. /\ n \in main.left /\ n \in Created /\ entries[n].quit = "nil" /\ main.at # "loop"
      /\ main.id = Nothing
      /\ UNCHANGED <<timers, ctxTimers, ready, queue, sync, stop, crashed, fired, late>>
  BY DEF MainStopIdle, Locked, tables, history, IInv, SyncOK, MainOK, TypeOK, EntriesType
<1>2. ActiveSet(n)
  BY <1>1, ActiveChange DEF MainStopIdle, IInv, TypeOK
<1>3. MainIs(main.at, Nothing, main.left \ {n})
  BY <1>1 DEF MainStopIdle, MainIs, Main, IInv, TypeOK, LoopsType
<1>4. EntriesType'
  BY <1>1, <1>2, <1>3 DEF IInv, TypeOK, EntriesType, ActiveSet, OthersKept
<1>5. LoopsType'
  BY <1>1, <1>2, <1>3 DEF IInv, TypeOK, LoopsType, MainIs
<1>6. QueueType'
  BY <1>1, <1>2, <1>3 DEF IInv, TypeOK, QueueType, ActiveSet, OthersKept
<1>7. Numbered'
  BY <1>1, <1>2, <1>3 DEF IInv, Numbered, ActiveSet, OthersKept
<1>8. LoopOK'
  BY <1>1, <1>2, <1>3 DEF IInv, LoopOK, ActiveSet, OthersKept
<1>9. SyncOK'
  BY <1>1, <1>2, <1>3 DEF IInv, SyncOK, ActiveSet, OthersKept
<1>10. StopOK'
  BY <1>1, <1>2, <1>3 DEF IInv, StopOK, TypeOK, EntriesType, SyncOK, ActiveSet, OthersKept
<1>11. MainOK'
  BY Sorts, <1>1, <1>2, <1>3 DEF IInv, MainOK, ActiveSet, OthersKept, MainIs
<1>12. StoppedForGood'
  BY <1>1, <1>2, <1>3 DEF IInv, StoppedForGood, LoopOK, ActiveSet, OthersKept
<1>13. OneTimerPerName'
  BY <1>1, <1>2, <1>3
     DEF IInv, OneTimerPerName, TypeOK, EntriesType, ActiveSet, OthersKept, MainIs
<1>14. CleanupsKnowTheTimers'
  BY <1>1, <1>2, <1>3
     DEF IInv, CleanupsKnowTheTimers, TypeOK, EntriesType, ActiveSet, OthersKept, MainIs
<1>15. NoPanicWhileRunning'
  BY <1>1, <1>2, <1>3 DEF IInv, NoPanicWhileRunning
<1>16. Kept'
  BY Sorts, <1>1, <1>2, <1>3
     DEF IInv, Kept, TypeOK, EntriesType, StoppedForGood, MainOK, ActiveSet, OthersKept,
     MainIs
<1>17. ClosedOnce'
  BY <1>1, <1>2, <1>3 DEF IInv, ClosedOnce, ActiveSet, OthersKept, MainIs
<1>18. OneShotOK'
  BY <1>1, <1>2, <1>3 DEF IInv, OneShotOK, InQueue, ActiveSet, OthersKept
<1> QED BY <1>4, <1>5, <1>6, <1>7, <1>8, <1>9, <1>10, <1>11, <1>12, <1>13, <1>14, <1>15,
           <1>16, <1>17, <1>18 DEF IInv, TypeOK

\* handleStop closes quit.
LEMMA MainCloseQuitStep ==
  ASSUME IInv, NEW n \in Ids, MainCloseQuit(n)
  PROVE  IInv'
<1>1. /\ n \in main.left /\ n \in Created /\ entries[n].quit # "nil" /\ main.at # "loop"
      /\ main.id = Nothing
      /\ UNCHANGED <<timers, ctxTimers, ready, queue, sync, stop, fired, late>>
  BY DEF MainCloseQuit, Locked, tables, history, IInv, SyncOK, MainOK, TypeOK, EntriesType
<1>2. QuitSet(n)
  BY <1>1, QuitChange DEF MainCloseQuit, IInv, TypeOK
<1>3. MainIs(main.at, n, main.left \ {n})
  BY <1>1 DEF MainCloseQuit, MainIs, Main, IInv, TypeOK, LoopsType
<1>4. EntriesType'
  BY <1>1, <1>2, <1>3 DEF IInv, TypeOK, EntriesType, QuitSet, OthersKept
<1>5. LoopsType'
  BY <1>1, <1>2, <1>3 DEF IInv, TypeOK, LoopsType, EntriesType, MainCloseQuit, MainIs
<1>6. QueueType'
  BY <1>1, <1>2, <1>3 DEF IInv, TypeOK, QueueType, QuitSet, OthersKept
<1>7. Numbered'
  BY <1>1, <1>2, <1>3 DEF IInv, Numbered, QuitSet, OthersKept
<1>8. LoopOK'
  BY <1>1, <1>2, <1>3 DEF IInv, LoopOK, QuitSet, OthersKept
<1>9. SyncOK'
  BY <1>1, <1>2, <1>3 DEF IInv, SyncOK, QuitSet, OthersKept
<1>10. StopOK'
  BY <1>1, <1>2, <1>3 DEF IInv, StopOK, TypeOK, EntriesType, SyncOK, QuitSet, OthersKept
<1>11. MainOK'
  BY Sorts, <1>1, <1>2, <1>3 DEF IInv, MainOK, QuitSet, OthersKept, MainIs
<1>12. StoppedForGood'
  BY <1>1, <1>2, <1>3 DEF IInv, StoppedForGood, QuitSet, OthersKept
<1>13. OneTimerPerName'
  BY <1>1, <1>2, <1>3
     DEF IInv, OneTimerPerName, TypeOK, EntriesType, QuitSet, OthersKept, MainIs
<1>14. CleanupsKnowTheTimers'
  BY <1>1, <1>2, <1>3
     DEF IInv, CleanupsKnowTheTimers, TypeOK, EntriesType, QuitSet, OthersKept, MainIs
<1>15. NoPanicWhileRunning'
  BY <1>1, <1>2, <1>3 DEF IInv, NoPanicWhileRunning, MainOK
<1>16. Kept'
  BY Sorts, <1>1, <1>2, <1>3
     DEF IInv, Kept, TypeOK, EntriesType, StoppedForGood, QuitSet, OthersKept, MainIs
<1>17. ClosedOnce'
  BY <1>1, <1>2, <1>3 DEF IInv, ClosedOnce, QuitSet, OthersKept, MainIs
<1>18. OneShotOK'
  BY <1>1, <1>2, <1>3 DEF IInv, OneShotOK, InQueue, QuitSet, OthersKept
<1> QED BY <1>4, <1>5, <1>6, <1>7, <1>8, <1>9, <1>10, <1>11, <1>12, <1>13, <1>14, <1>15,
           <1>16, <1>17, <1>18 DEF IInv, TypeOK

\* handleStop has waited for the goroutine.
LEMMA MainWaitQuittedStep ==
  ASSUME IInv, MainWaitQuitted
  PROVE  IInv'
<1>1. /\ main.id \in Created /\ entries[main.id].loop = "ended" /\ main.at # "loop"
      /\ UNCHANGED <<timers, ctxTimers, ready, queue, sync, stop, crashed, fired, late>>
  BY DEF MainWaitQuitted, Locked, tables, history, IInv, SyncOK, MainOK, TypeOK, EntriesType
<1>2. ActiveSet(main.id)
  BY <1>1, ActiveChange DEF MainWaitQuitted, IInv, TypeOK
<1>3. MainIs(main.at, Nothing, main.left)
  BY <1>1 DEF MainWaitQuitted, MainIs, Main, IInv, TypeOK, LoopsType
<1>4. EntriesType'
  BY <1>1, <1>2, <1>3 DEF IInv, TypeOK, EntriesType, ActiveSet, OthersKept
<1>5. LoopsType'
  BY <1>1, <1>2, <1>3 DEF IInv, TypeOK, LoopsType, MainIs
<1>6. QueueType'
  BY <1>1, <1>2, <1>3 DEF IInv, TypeOK, QueueType, ActiveSet, OthersKept
<1>7. Numbered'
  BY <1>1, <1>2, <1>3 DEF IInv, Numbered, ActiveSet, OthersKept
<1>8. LoopOK'
  BY <1>1, <1>2, <1>3 DEF IInv, LoopOK, ActiveSet, OthersKept
<1>9. SyncOK'
  BY <1>1, <1>2, <1>3 DEF IInv, SyncOK, ActiveSet, OthersKept
<1>10. StopOK'
  BY <1>1, <1>2, <1>3 DEF IInv, StopOK, TypeOK, EntriesType, SyncOK, ActiveSet, OthersKept
<1>11. MainOK'
  BY <1>1, <1>2, <1>3 DEF IInv, MainOK, ActiveSet, OthersKept, MainIs
<1>12. StoppedForGood'
  BY <1>1, <1>2, <1>3 DEF IInv, StoppedForGood, ActiveSet, OthersKept
<1>13. OneTimerPerName'
  BY <1>1, <1>2, <1>3
     DEF IInv, OneTimerPerName, TypeOK, EntriesType, ActiveSet, OthersKept, MainIs
<1>14. CleanupsKnowTheTimers'
  BY <1>1, <1>2, <1>3
     DEF IInv, CleanupsKnowTheTimers, TypeOK, EntriesType, ActiveSet, OthersKept, MainIs
<1>15. NoPanicWhileRunning'
  BY <1>1, <1>2, <1>3 DEF IInv, NoPanicWhileRunning
<1>16. Kept'
  BY Sorts, <1>1, <1>2, <1>3
     DEF IInv, Kept, TypeOK, EntriesType, StoppedForGood, MainOK, ActiveSet, OthersKept,
     MainIs
<1>17. ClosedOnce'
  BY <1>1, <1>2, <1>3 DEF IInv, ClosedOnce, ActiveSet, OthersKept, MainIs
<1>18. OneShotOK'
  BY <1>1, <1>2, <1>3 DEF IInv, OneShotOK, InQueue, ActiveSet, OthersKept
<1> QED BY <1>4, <1>5, <1>6, <1>7, <1>8, <1>9, <1>10, <1>11, <1>12, <1>13, <1>14, <1>15,
           <1>16, <1>17, <1>18 DEF IInv, TypeOK

\* handleStop takes all timers there are.
LEMMA TakeAllTimersStep ==
  ASSUME IInv, TakeAllTimers
  PROVE  IInv'
<1>1. /\ timers' = {} /\ main.at = "loop" /\ stop # "idle"
      /\ UNCHANGED <<entries, ctxTimers, ready, queue, sync, stop, crashed, fired, late>>
  BY DEF TakeAllTimers, tables, history
<1>2. Created' = Created
  BY <1>1 DEF Created
<1>3. MainIs("stopping", main.id, timers)
  BY <1>1 DEF TakeAllTimers, MainIs, Main, IInv, TypeOK, LoopsType, EntriesType
<1>4. /\ QueueType' /\ Numbered' /\ LoopOK' /\ SyncOK' /\ StoppedForGood'
      /\ NoPanicWhileRunning' /\ OneShotOK'
  BY <1>1 DEF IInv, TypeOK, QueueType, Numbered, LoopOK, SyncOK, StoppedForGood,
     NoPanicWhileRunning, OneShotOK, InQueue, Created
<1>5. EntriesType'
  BY <1>1, <1>2, <1>3 DEF IInv, TypeOK, EntriesType
<1>6. LoopsType'
  BY <1>1, <1>2, <1>3 DEF IInv, TypeOK, LoopsType, MainIs
<1>7. StopOK'
  BY <1>1, <1>2, <1>3 DEF IInv, StopOK, TypeOK, EntriesType, SyncOK
<1>8. MainOK'
  BY <1>1, <1>2, <1>3 DEF IInv, MainOK, TypeOK, EntriesType, MainIs
<1>9. OneTimerPerName'
  BY <1>1, <1>2, <1>3 DEF IInv, OneTimerPerName, TypeOK, EntriesType, MainIs
<1>10. CleanupsKnowTheTimers'
  BY <1>1, <1>2, <1>3 DEF IInv, CleanupsKnowTheTimers, TypeOK, EntriesType, MainIs
<1>11. Kept'
  BY Sorts, <1>1, <1>2, <1>3 DEF IInv, Kept, TypeOK, EntriesType, StoppedForGood, MainIs
<1>12. ClosedOnce'
  BY <1>1, <1>2, <1>3 DEF IInv, ClosedOnce, MainIs
<1> QED BY <1>4, <1>5, <1>6, <1>7, <1>8, <1>9, <1>10, <1>11, <1>12 DEF IInv, TypeOK

\* The queue is released when all of them are stopped.
LEMMA ReleaseQueueStep ==
  ASSUME IInv, ReleaseQueue
  PROVE  IInv'
<1>1. /\ main.at = "stopping" /\ main.left = {} /\ main.id = Nothing
      /\ UNCHANGED <<entries, timers, ctxTimers, ready, queue, sync, stop, crashed,
                     fired, late>>
  BY DEF ReleaseQueue, tables, history
<1>2. Created' = Created
  BY <1>1 DEF Created
<1>3. MainIs("released", Nothing, {})
  BY <1>1 DEF ReleaseQueue, MainIs, Main, IInv, TypeOK, LoopsType, EntriesType
<1>4. /\ EntriesType' /\ QueueType' /\ Numbered' /\ LoopOK' /\ SyncOK' /\ StopOK'
      /\ StoppedForGood' /\ OneTimerPerName' /\ NoPanicWhileRunning' /\ OneShotOK'
  BY <1>1 DEF IInv, TypeOK, EntriesType, QueueType, Numbered, LoopOK, SyncOK, StopOK,
     StoppedForGood, OneTimerPerName, NoPanicWhileRunning, OneShotOK, InQueue, Created
<1>5. LoopsType'
  BY <1>1, <1>2, <1>3 DEF IInv, TypeOK, LoopsType, MainIs
<1>6. MainOK'
  BY <1>1, <1>2, <1>3 DEF IInv, MainOK, MainIs
<1>7. CleanupsKnowTheTimers'
  BY <1>1, <1>2, <1>3 DEF IInv, CleanupsKnowTheTimers, TypeOK, EntriesType, MainIs
<1>8. Kept'
  BY Sorts, <1>1, <1>2, <1>3 DEF IInv, Kept, TypeOK, EntriesType, StoppedForGood, MainIs
<1>9. ClosedOnce'
  BY <1>1, <1>2, <1>3 DEF IInv, ClosedOnce, MainIs
<1> QED BY <1>4, <1>5, <1>6, <1>7, <1>8, <1>9 DEF IInv, TypeOK

-----------------------------------------------------------------------------
(* The invariant, and what follows from it *)

\* There are no timers at first.
LEMMA InitInv == Init => IInv
<1> SUFFICES ASSUME Init PROVE IInv
  OBVIOUS
<1>1. /\ entries = <<>> /\ timers = {} /\ queue = <<>> /\ fired = {} /\ late = {} /\ ~ crashed
      /\ sync.thunk = Nothing /\ sync.at = "idle" /\ sync.op = "none" /\ sync.id = Nothing
      /\ sync.clean = {} /\ sync.name = NoName
      /\ main.at = "loop" /\ main.id = Nothing /\ main.left = {}
      /\ ready = FALSE /\ stop = "idle" /\ ctxTimers = [c \in Contexts |-> {}]
  BY DEF Init
<1>2. Created = {} /\ DOMAIN queue = {}
  BY <1>1 DEF Created
<1>3. EntriesType
  BY <1>1, <1>2 DEF EntriesType, Created
<1>4. LoopsType
  BY <1>1 DEF Init, LoopsType, Sync, Main
<1>5. QueueType
  BY <1>1, Sorts DEF QueueType
<1>6. Numbered
  BY <1>2, Sorts DEF Numbered
<1>7. SyncOK /\ StopOK /\ MainOK
  BY <1>1, <1>2, Sorts DEF SyncOK, StopOK, MainOK
<1>8. CleanupsKnowTheTimers
  BY <1>1 DEF CleanupsKnowTheTimers
<1> QED BY <1>1, <1>2, <1>3, <1>4, <1>5, <1>6, <1>7, <1>8
        DEF IInv, TypeOK, LoopOK, StoppedForGood, OneTimerPerName, NoPanicWhileRunning, Kept,
            ClosedOnce, OneShotOK

\* Every step of a goroutine preserves the invariant.
LEMMA NextInv == IInv /\ [Next]_vars => IInv'
<1> SUFFICES ASSUME IInv, [Next]_vars PROVE IInv'
  OBVIOUS
<1>1. CASE UNCHANGED vars
  BY <1>1 DEF vars, tables, history, IInv, TypeOK, EntriesType, LoopsType, QueueType, Numbered,
     LoopOK, SyncOK, StopOK, MainOK, StoppedForGood, OneTimerPerName, CleanupsKnowTheTimers,
     NoPanicWhileRunning, Kept, ClosedOnce, OneShotOK, InQueue, Created
<1>2. CASE \E n \in Ids : Tick(n) \/ GoroutineStep(n)
  BY <1>2, TickStep, PushStep, PushAfterReleaseStep, SeeQuitStep DEF GoroutineStep
<1>3. CASE QueueOther \/ Stop \/ SyncLoopQuits
  BY <1>3, QueueOtherStep, ShutdownStep
<1>4. CASE SyncStep
  <2>1. CASE StartDeferred \/ TakeOther \/ TakeEntryFunc \/ FireTimer \/ FireUnknown
    BY <2>1, StartDeferredStep, TakeOtherStep, TakeEntryFuncStep, FireTimerStep,
       FireUnknownStep
  <2>2. CASE ScriptReturns \/ RemoveFound \/ StopIdle \/ CloseQuit \/ WaitQuitted
    BY <2>2, ScriptReturnsStep, RemoveFoundStep, StopIdleStep, CloseQuitStep, WaitQuittedStep
  <2>3. CASE \E p \in BOOLEAN, c \in Contexts : StartNamedTimer(p, c)
    BY <2>3, StartNamedTimerStep
  <2>4. CASE \E n \in Ids : CleanTimer(n)
    BY <2>4, CleanTimerStep
  <2> QED BY <1>4, <2>1, <2>2, <2>3, <2>4 DEF SyncStep
<1>5. CASE ScriptStep
  <2>1. CASE \E p \in BOOLEAN, c \in Contexts : SetTimer(p, c)
    BY <2>1, SetTimerStep
  <2>2. CASE \E name \in Names : NameTimer(name)
    <3>1. PICK name \in Names : NameTimer(name)
      BY <2>2
    <3> QED BY <3>1, RemoveByNameStep DEF NameTimer
  <2>3. CASE \E name \in Names : StopByName(name)
    <3>1. PICK name \in Names : StopByName(name)
      BY <2>3
    <3>2. [sync EXCEPT !.name = NoName] = sync
      BY <3>1 DEF StopByName, InScript, IInv, TypeOK, LoopsType, Sync
    <3> QED BY <3>1, <3>2, RemoveByNameStep DEF StopByName
  <2>4. CASE \E n \in Ids : StopByIndex(n)
    BY <2>4, StopByIndexStep
  <2>5. CASE \E c \in Contexts : RunTimerCleanups(c)
    BY <2>5, RunTimerCleanupsStep
  <2> QED BY <1>5, <2>1, <2>2, <2>3, <2>4, <2>5 DEF ScriptStep
<1>6. CASE MainStep
  BY <1>6, TakeAllTimersStep, MainStopIdleStep, MainCloseQuitStep, MainWaitQuittedStep,
     ReleaseQueueStep DEF MainStep
<1> QED BY <1>1, <1>2, <1>3, <1>4, <1>5, <1>6 DEF Next

\* The invariant holds of every behaviour.
LEMMA Invariance == Spec => []IInv
<1>1. Init => IInv
  BY InitInv
<1>2. IInv /\ [Next]_vars => IInv'
  BY NextInv
<1> QED BY <1>1, <1>2, PTL DEF Spec

\* All variables keep their types, and the queue its bound.
THEOREM TypeCorrect == Spec => []TypeOK
<1>1. IInv => TypeOK
  BY DEF IInv
<1> QED BY <1>1, Invariance, PTL

\* Once entry.stop() has returned, the timer's goroutine is gone for good.
THEOREM StoppedStays == Spec => []StoppedForGood
<1>1. IInv => StoppedForGood
  BY DEF IInv
<1> QED BY <1>1, Invariance, PTL

\* startTimer() replaces the timer of its name: there is one at a time.
THEOREM NamesAreUnique == Spec => []OneTimerPerName
<1>1. IInv => OneTimerPerName
  BY DEF IInv
<1> QED BY <1>1, Invariance, PTL

\* A file's TimerSet holds exactly its own running timers (handleTimerCleanup).
THEOREM CleanupsKnow == Spec => []CleanupsKnowTheTimers
<1>1. IInv => CleanupsKnowTheTimers
  BY DEF IInv
<1> QED BY <1>1, Invariance, PTL

\* Nobody panics while the engine is not being stopped.
THEOREM RunsWithoutPanic == Spec => []NoPanicWhileRunning
<1>1. IInv => NoPanicWhileRunning
  BY DEF IInv
<1> QED BY <1>1, Invariance, PTL

\* handleStop leaves only timers that were started too late, or that are being stopped.
THEOREM OnlyLateSurvive == Spec => []OnlyLateTimersSurvive
<1>1. IInv => OnlyLateTimersSurvive
  <2> SUFFICES ASSUME IInv, main.at = "released", NEW n \in Created,
                      entries[n].loop \in {"waiting", "pushing"}
               PROVE  n \in late \/ sync.id = n
    BY DEF OnlyLateTimersSurvive
  <2>1. main.left = {} /\ main.id # n
    BY Sorts DEF IInv, TypeOK, EntriesType, MainOK
  <2>2. entries[n].active
    BY DEF IInv, StoppedForGood
  <2> QED BY <2>1, <2>2 DEF IInv, Kept
<1> QED BY <1>1, Invariance, PTL

\* fireTimer calls no callback of a timer that was stopped, and that of a one-shot timer
\* once.
THEOREM FiresOnlyWanted == Spec => FiresOnlyWhileWanted
<1> DEFINE Wanted(n) == n \in Created /\ FireTimer /\ sync.thunk = n =>
                          entries[n].active /\ (n \in fired => entries[n].periodic)
<1>1. IInv => \A n \in Ids : Wanted(n)
  BY DEF FireTimer, IInv, Kept, OneShotOK
<1> QED BY <1>1, Invariance, PTL DEF FiresOnlyWhileWanted

=============================================================================
