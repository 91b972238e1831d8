-------------------------- MODULE ScriptFilesProofs --------------------------
(***************************************************************************)
(* Proofs about ScriptFiles, for every set of scripts and contents and     *)
(* every number of acts of users.                                          *)
(***************************************************************************)
EXTENDS ScriptFiles, FiniteSetTheorems, TLAPS

-----------------------------------------------------------------------------
(* The inductive invariant *)

\* The sync loop is past the look at the file p.
Busy(p) == job.path = p /\ job.step \in {"clean", "register", "run"}

LoadIn(s, p) == \E i \in DOMAIN s : s[i].op = "load" /\ s[i].path = p
RemoveOfIn(s, p) == \E i \in DOMAIN s : s[i].op = "remove" /\ s[i].path = p

\* A load of p is to be handled, a removal of p is.
LoadPending(p) == LoadIn(events, p) \/ LoadIn(syncQueue, p)
RemovalOf(p) == RemoveOfIn(events, p) \/ RemoveOfIn(syncQueue, p)

\* Every removal for k in s is followed by a load of p, in s or, if b, elsewhere.
Ordered(s, k, p, b) ==
  \A i \in DOMAIN s : s[i].op = "remove" /\ Virtual(s[i].path) = k =>
    b \/ \E j \in DOMAIN s : j > i /\ s[j].op = "load" /\ s[j].path = p

Gone(p) ==
  /\ running[p] = Nothing /\ sources[p] = Nothing
  /\ UnderRoot(p) => editable[Name(p)] # p

LoadedWith(p, c) ==
  /\ running[p] = IF Enabled(p) THEN c ELSE Nothing
  /\ sources[p] = [enabled |-> Enabled(p), error |-> Enabled(p) /\ c \in BadContents]
  /\ UnderRoot(p) => editable[Name(p)] = p

\* The only file of its virtual path, now and before
Single(p) == disk[p] # Nothing /\ Virtual(p) \notin clashed

\* What the sync loop has done of a load
Stages ==
  LET p == job.path
  IN /\ job.step \in {"register", "run"} => /\ running[p] = Nothing
                                            /\ UnderRoot(p) => editable[Name(p)] = p
     /\ job.step = "register" => sources[p] = Nothing
     /\ job.step = "run" => Enabled(p) /\ sources[p] = NewEntry(p)

ClashesNoted == Clashes(disk) \subseteq clashed

\* A file that is gone is gone from the engine, or its removal is to be handled.
AbsentGone ==
  \A p \in Paths : disk[p] = Nothing => RemovalOf(p) \/ (Gone(p) /\ ~ Busy(p))

\* A removal does not come after the load of the file that has taken the place.
LoadsLast ==
  \A p \in Paths : Single(p) =>
    /\ Ordered(events, Virtual(p), p, FALSE)
    /\ Ordered(syncQueue, Virtual(p), p, LoadIn(events, p))

\* A hash is that of a file, or is to be dropped.
HashHasFile ==
  \A k \in Keys : hash[k] # Nothing =>
    RemovalPending(k) \/ \E p \in Paths : Virtual(p) = k /\ disk[p] # Nothing

\* The hash of a file that is being loaded is up to date unless the file is raced.
HashWhileBusy ==
  \A p \in Paths : Busy(p) /\ p \notin raced /\ Single(p) => hash[Virtual(p)] = disk[p]

\* What the tracker knows of a file is what the engine has loaded, or is loading.
LoadedAsHash ==
  \A p \in Paths : Single(p) /\ p \notin raced /\ hash[Virtual(p)] # Nothing =>
    RemovalPending(Virtual(p)) \/ Busy(p) \/ LoadedWith(p, hash[Virtual(p)])

\* The hash of a file is up to date, or its load is to be handled or in progress.
HashAsDisk ==
  \A p \in Paths : Single(p) /\ p \notin raced =>
    LoadPending(p) \/ job.path = p \/ hash[Virtual(p)] = disk[p]

FilesInv ==
  /\ Stages /\ ClashesNoted /\ AbsentGone /\ LoadsLast /\ HashHasFile /\ HashWhileBusy
  /\ LoadedAsHash /\ HashAsDisk

IInv == TypeOK /\ TablesAgree /\ FilesInv

-----------------------------------------------------------------------------
(* Paths, jobs and sequences *)

\* A file's virtual path
LEMMA PathFacts ==
  ASSUME NEW p \in Paths
  PROVE  /\ Enabled(p) \in BOOLEAN /\ Virtual(p) \in Keys
         /\ UnderRoot(p) => Virtual(p) = Name(p) /\ Name(p) \in Scripts
         /\ ~ UnderRoot(p) => Virtual(p) = NoName /\ Enabled(p) = TRUE
         /\ UnderRoot(p) <=> Virtual(p) \in Scripts
BY FilesAssumption DEF Paths, Keys, Enabled, Virtual, UnderRoot, Name

\* No file, entry or content is Nothing.
LEMMA NothingFacts ==
  /\ Nothing \notin Paths /\ Nothing \notin Contents /\ Nothing \notin Entry
  /\ \A p \in Paths : NewEntry(p) \in Entry
BY FilesAssumption, PathFacts DEF NewEntry, Entry

\* The sync loop's job
LEMMA JobFacts ==
  ASSUME EngineType
  PROVE  /\ job = NoJob <=> job.step = "idle"
         /\ job = NoJob <=> job.path \notin Paths
         /\ job # NoJob => /\ job.step \in {"track", "clean", "register", "run"}
                           /\ job.path \in Paths /\ job.save \in BOOLEAN
                           /\ job = [step |-> job.step, path |-> job.path,
                                     save |-> job.save]
BY NothingFacts DEF EngineType, NoJob

\* Two files of one virtual path clash.
LEMMA ClashFacts ==
  ASSUME ClashesNoted, NEW p \in Paths, NEW q \in Paths, Single(p), p # q,
         Virtual(q) = Virtual(p)
  PROVE  disk[q] = Nothing
BY DEF ClashesNoted, Clashes, Present, Single

\* What is pending after one more item at the end
LEMMA AppendFacts ==
  ASSUME NEW S, NEW s \in Seq(S), NEW x \in S
  PROVE  /\ \A p : LoadIn(Append(s, x), p) <=> LoadIn(s, p) \/ (x.op = "load" /\ x.path = p)
         /\ \A p : RemoveOfIn(Append(s, x), p)
                   <=> RemoveOfIn(s, p) \/ (x.op = "remove" /\ x.path = p)
         /\ \A k : RemoveIn(Append(s, x), k)
                   <=> RemoveIn(s, k) \/ (x.op = "remove" /\ Virtual(x.path) = k)
         /\ \A k, p, b : Ordered(s, k, p, b) /\ ~ (x.op = "remove" /\ Virtual(x.path) = k)
                         => Ordered(Append(s, x), k, p, b)
         /\ \A k, p, b : x.op = "load" /\ x.path = p => Ordered(Append(s, x), k, p, b)
         /\ \A k, p : Ordered(Append(s, x), k, p, TRUE)
<1>1. /\ Append(s, x) \in Seq(S) /\ Len(s) \in Nat /\ DOMAIN s = 1 .. Len(s)
      /\ DOMAIN Append(s, x) = 1 .. Len(s) + 1 /\ Append(s, x)[Len(s) + 1] = x
      /\ \A i \in 1 .. Len(s) : Append(s, x)[i] = s[i]
  OBVIOUS
<1> DEFINE t == Append(s, x)
<1> HIDE DEF t
<1>2. /\ \A i \in DOMAIN t : (i \in DOMAIN s /\ t[i] = s[i]) \/ t[i] = x
      /\ \A i \in DOMAIN s : i \in DOMAIN t /\ t[i] = s[i]
      /\ Len(s) + 1 \in DOMAIN t /\ t[Len(s) + 1] = x
  BY <1>1 DEF t
<1>3. \A p : LoadIn(t, p) <=> LoadIn(s, p) \/ (x.op = "load" /\ x.path = p)
  BY <1>2 DEF LoadIn
<1>4. \A p : RemoveOfIn(t, p) <=> RemoveOfIn(s, p) \/ (x.op = "remove" /\ x.path = p)
  BY <1>2 DEF RemoveOfIn
<1>5. \A k : RemoveIn(t, k) <=> RemoveIn(s, k) \/ (x.op = "remove" /\ Virtual(x.path) = k)
  BY <1>2 DEF RemoveIn
<1>6. ASSUME NEW k, NEW p, NEW b, Ordered(s, k, p, b),
             ~ (x.op = "remove" /\ Virtual(x.path) = k)
      PROVE  Ordered(t, k, p, b)
  BY <1>2, <1>6 DEF Ordered
<1>7. ASSUME NEW k, NEW p, NEW b, x.op = "load", x.path = p
      PROVE  Ordered(t, k, p, b)
  <2> SUFFICES ASSUME NEW i \in DOMAIN t, t[i].op = "remove"
               PROVE  \E j \in DOMAIN t : j > i /\ t[j].op = "load" /\ t[j].path = p
    BY DEF Ordered
  <2>1. i \in 1 .. Len(s) + 1 /\ i # Len(s) + 1
    BY <1>1, <1>2, <1>7 DEF t
  <2>2. Len(s) + 1 > i
    BY <1>1, <2>1
  <2> QED BY <1>2, <1>7, <2>2
<1>8. \A k, p : Ordered(t, k, p, TRUE)
  BY DEF Ordered
<1> QED BY <1>3, <1>4, <1>5, <1>6, <1>7, <1>8 DEF t

\* What is pending after the first item is taken
LEMMA TailFacts ==
  ASSUME NEW S, NEW s \in Seq(S), s # <<>>
  PROVE  /\ Head(s) \in S /\ Tail(s) \in Seq(S)
         /\ \A p : LoadIn(s, p)
                   <=> LoadIn(Tail(s), p) \/ (Head(s).op = "load" /\ Head(s).path = p)
         /\ \A p : RemoveOfIn(s, p)
                   <=> RemoveOfIn(Tail(s), p) \/ (Head(s).op = "remove" /\ Head(s).path = p)
         /\ \A k : RemoveIn(s, k) <=> \/ RemoveIn(Tail(s), k)
                                      \/ Head(s).op = "remove" /\ Virtual(Head(s).path) = k
         /\ \A k, p, b : Ordered(s, k, p, b) => Ordered(Tail(s), k, p, b)
         /\ \A k, p, b : /\ Ordered(s, k, p, b)
                         /\ Head(s).op = "remove" /\ Virtual(Head(s).path) = k
                         => b \/ LoadIn(Tail(s), p)
<1>1. /\ Tail(s) \in Seq(S) /\ Len(s) \in Nat /\ DOMAIN s = 1 .. Len(s) /\ Len(s) >= 1
      /\ DOMAIN Tail(s) = 1 .. Len(s) - 1 /\ Head(s) = s[1] /\ Head(s) \in S
      /\ \A i \in 1 .. Len(s) - 1 : Tail(s)[i] = s[i + 1]
  OBVIOUS
<1> DEFINE t == Tail(s)
           x == Head(s)
<1> HIDE DEF t, x
<1>2. /\ \A i \in DOMAIN t : i \in Nat /\ i + 1 \in DOMAIN s /\ t[i] = s[i + 1]
      /\ 1 \in DOMAIN s /\ s[1] = x
      /\ \A i \in DOMAIN s : i = 1 \/ (i - 1 \in DOMAIN t /\ t[i - 1] = s[i])
      /\ DOMAIN s \subseteq Nat
  BY <1>1 DEF t, x
<1>3. \A p : LoadIn(s, p) <=> LoadIn(t, p) \/ (x.op = "load" /\ x.path = p)
  BY <1>2 DEF LoadIn
<1>4. \A p : RemoveOfIn(s, p) <=> RemoveOfIn(t, p) \/ (x.op = "remove" /\ x.path = p)
  BY <1>2 DEF RemoveOfIn
<1>5. \A k : RemoveIn(s, k) <=> RemoveIn(t, k) \/ (x.op = "remove" /\ Virtual(x.path) = k)
  BY <1>2 DEF RemoveIn
<1>6. ASSUME NEW k, NEW p, NEW b, Ordered(s, k, p, b), ~ b,
             NEW i \in DOMAIN s, s[i].op = "remove", Virtual(s[i].path) = k
      PROVE  \E j \in DOMAIN t : j > i - 1 /\ t[j].op = "load" /\ t[j].path = p
  <2>1. PICK j \in DOMAIN s : j > i /\ s[j].op = "load" /\ s[j].path = p
    BY <1>6 DEF Ordered
  <2>2. j - 1 \in DOMAIN t /\ t[j - 1] = s[j] /\ j - 1 > i - 1
    BY <1>2, <2>1
  <2> QED BY <2>1, <2>2
<1>7. ASSUME NEW k, NEW p, NEW b, Ordered(s, k, p, b)
      PROVE  Ordered(t, k, p, b)
  <2> SUFFICES ASSUME NEW i \in DOMAIN t, t[i].op = "remove", Virtual(t[i].path) = k, ~ b
               PROVE  \E j \in DOMAIN t : j > i /\ t[j].op = "load" /\ t[j].path = p
    BY DEF Ordered
  <2>1. i + 1 \in DOMAIN s /\ s[i + 1] = t[i] /\ (i + 1) - 1 = i
    BY <1>2
  <2>2. \E j \in DOMAIN t : j > (i + 1) - 1 /\ t[j].op = "load" /\ t[j].path = p
    BY <1>6, <1>7, <2>1
  <2> QED BY <2>1, <2>2
<1>8. ASSUME NEW k, NEW p, NEW b, Ordered(s, k, p, b), x.op = "remove",
             Virtual(x.path) = k
      PROVE  b \/ LoadIn(t, p)
  BY <1>2, <1>6, <1>8 DEF LoadIn
<1> QED BY <1>1, <1>3, <1>4, <1>5, <1>7, <1>8 DEF t, x

-----------------------------------------------------------------------------
(* The steps of the watcher and of the queue *)

\* Nothing but what is pending changes, and nothing pending gets lost.
LEMMA Kept ==
  ASSUME TablesAgree, FilesInv,
         UNCHANGED <<disk, job, hash, sources, editable, running, clashed, raced>>,
         \A p \in Paths : LoadPending(p) => LoadPending(p)',
         \A p \in Paths : RemovalOf(p) => RemovalOf(p)',
         \A k \in Keys : RemovalPending(k) => RemovalPending(k)',
         LoadsLast'
  PROVE  TablesAgree' /\ FilesInv'
<1>1. TablesAgree'
  BY DEF TablesAgree
<1>2. Stages' /\ ClashesNoted'
  BY DEF FilesInv, Stages, ClashesNoted
<1>3. \A p \in Paths : (Gone(p)' <=> Gone(p)) /\ (Busy(p)' <=> Busy(p))
  BY DEF Gone, Busy
<1>4. \A p \in Paths : (Single(p)' <=> Single(p)) /\ Virtual(p) \in Keys
  BY PathFacts DEF Single
<1>5. AbsentGone'
  BY <1>3 DEF FilesInv, AbsentGone
<1>6. HashHasFile'
  BY DEF FilesInv, HashHasFile
<1>7. HashWhileBusy'
  BY <1>3, <1>4 DEF FilesInv, HashWhileBusy
<1>8. \A p, c : LoadedWith(p, c)' <=> LoadedWith(p, c)
  BY DEF LoadedWith
<1>9. LoadedAsHash'
  BY <1>3, <1>4, <1>8 DEF FilesInv, LoadedAsHash
<1>10. HashAsDisk'
  BY <1>4 DEF FilesInv, HashAsDisk
<1> QED BY <1>1, <1>2, <1>5, <1>6, <1>7, <1>9, <1>10 DEF FilesInv

\* Neither the files nor the engine change.
LEMMA Same ==
  ASSUME TablesAgree, FilesInv,
         UNCHANGED <<disk, events, engineState, clashed, raced>>
  PROVE  TablesAgree' /\ FilesInv'
<1>1. UNCHANGED <<disk, events, syncQueue, job, hash, sources, editable, running, clashed,
                  raced>>
  BY DEF engineState
<1>2. /\ \A p \in Paths : LoadPending(p) => LoadPending(p)'
      /\ \A p \in Paths : RemovalOf(p) => RemovalOf(p)'
      /\ \A k \in Keys : RemovalPending(k) => RemovalPending(k)'
  BY <1>1 DEF LoadPending, RemovalOf, RemovalPending
<1>3. LoadsLast'
  BY <1>1 DEF FilesInv, LoadsLast, Single
<1> QED BY <1>1, <1>2, <1>3, Kept

\* A file event becomes a thunk.
LEMMA WatcherStep ==
  ASSUME IInv, WatcherLoads \/ WatcherRemoves
  PROVE  TablesAgree' /\ FilesInv'
<1> DEFINE e == Head(events)
           x == [op |-> e.op, path |-> e.path, content |-> Nothing]
<1>1. /\ events # <<>> /\ e.op \in {"load", "remove"} /\ events' = Tail(events)
      /\ syncQueue' = Append(syncQueue, x)
      /\ UNCHANGED <<disk, job, hash, sources, editable, running, clashed, raced>>
  BY DEF WatcherLoads, WatcherRemoves, Queue
<1>2. events \in Seq(FileEvent) /\ syncQueue \in Seq(Thunk)
  BY DEF IInv, TypeOK, FilesType, EngineType
<1>3. e \in FileEvent
  BY <1>1, <1>2, TailFacts
<1>4. x \in Thunk /\ x.op = e.op /\ x.path = e.path /\ e.path \in Paths
  BY <1>3 DEF FileEvent, Thunk
<1> HIDE DEF e, x
<1>5. /\ \A p : LoadIn(events, p) <=> LoadIn(events', p) \/ (e.op = "load" /\ e.path = p)
      /\ \A p : RemoveOfIn(events, p)
                <=> RemoveOfIn(events', p) \/ (e.op = "remove" /\ e.path = p)
      /\ \A k : RemoveIn(events, k)
                <=> RemoveIn(events', k) \/ (e.op = "remove" /\ Virtual(e.path) = k)
      /\ \A k, p, b : Ordered(events, k, p, b) => Ordered(events', k, p, b)
      /\ \A k, p, b : Ordered(events, k, p, b) /\ e.op = "remove" /\ Virtual(e.path) = k
                      => b \/ LoadIn(events', p)
  BY <1>1, <1>2, TailFacts DEF e
<1>6. /\ \A p : LoadIn(syncQueue', p)
                <=> LoadIn(syncQueue, p) \/ (x.op = "load" /\ x.path = p)
      /\ \A p : RemoveOfIn(syncQueue', p)
                <=> RemoveOfIn(syncQueue, p) \/ (x.op = "remove" /\ x.path = p)
      /\ \A k : RemoveIn(syncQueue', k)
                <=> RemoveIn(syncQueue, k) \/ (x.op = "remove" /\ Virtual(x.path) = k)
      /\ \A k, p, b : Ordered(syncQueue, k, p, b)
                      /\ ~ (x.op = "remove" /\ Virtual(x.path) = k)
                      => Ordered(syncQueue', k, p, b)
      /\ \A k, p, b : x.op = "load" /\ x.path = p => Ordered(syncQueue', k, p, b)
      /\ \A k, p : Ordered(syncQueue', k, p, TRUE)
  BY <1>1, <1>2, <1>4, AppendFacts
<1>7. /\ \A p \in Paths : LoadPending(p) => LoadPending(p)'
      /\ \A p \in Paths : RemovalOf(p) => RemovalOf(p)'
      /\ \A k \in Keys : RemovalPending(k) => RemovalPending(k)'
  BY <1>4, <1>5, <1>6 DEF LoadPending, RemovalOf, RemovalPending
<1>8. LoadsLast'
  <2> SUFFICES ASSUME NEW p \in Paths, Single(p)'
               PROVE  /\ Ordered(events', Virtual(p), p, FALSE)
                      /\ Ordered(syncQueue', Virtual(p), p, LoadIn(events', p))
    BY DEF LoadsLast
  <2>1. /\ Ordered(events, Virtual(p), p, FALSE)
        /\ Ordered(syncQueue, Virtual(p), p, LoadIn(events, p))
    BY <1>1 DEF IInv, FilesInv, LoadsLast, Single
  <2>2. Ordered(events', Virtual(p), p, FALSE)
    BY <1>5, <2>1
  <2>3. CASE e.op = "remove" /\ Virtual(e.path) = Virtual(p)
    <3>1. LoadIn(events', p) = TRUE
      BY <1>5, <2>1, <2>3 DEF LoadIn
    <3> QED BY <1>6, <2>2, <3>1
  <2>4. CASE e.op = "load" /\ e.path = p
    BY <1>4, <1>6, <2>2, <2>4
  <2>5. CASE /\ ~ (e.op = "remove" /\ Virtual(e.path) = Virtual(p))
             /\ ~ (e.op = "load" /\ e.path = p)
    <3>1. LoadIn(events', p) = LoadIn(events, p)
      BY <1>5, <2>5 DEF LoadIn
    <3> QED BY <1>4, <1>6, <2>1, <2>2, <2>5, <3>1
  <2> QED BY <2>3, <2>4, <2>5
<1> QED BY <1>1, <1>7, <1>8, Kept DEF IInv

\* A save comes or goes without an effect on the files.
LEMMA SaveQueueStep ==
  ASSUME IInv, WriteScript \/ SaveFails
  PROVE  TablesAgree' /\ FilesInv'
<1>1. events \in Seq(FileEvent) /\ syncQueue \in Seq(Thunk)
  BY DEF IInv, TypeOK, FilesType, EngineType
<1>2. UNCHANGED <<disk, events, job, hash, sources, editable, running, clashed, raced>>
  BY DEF WriteScript, SaveFails
<1>3. /\ \A p : LoadIn(syncQueue', p) <=> LoadIn(syncQueue, p)
      /\ \A p : RemoveOfIn(syncQueue', p) <=> RemoveOfIn(syncQueue, p)
      /\ \A k : RemoveIn(syncQueue', k) <=> RemoveIn(syncQueue, k)
      /\ \A k, p, b : Ordered(syncQueue, k, p, b) => Ordered(syncQueue', k, p, b)
  <2>1. CASE WriteScript
    <3> DEFINE x == [op |-> "save", path |-> call.path, content |-> call.content]
    <3>1. call.path \in Paths /\ call.content \in Contents
      BY <2>1 DEF WriteScript, IInv, TypeOK, CallType, NoCall
    <3>2. x \in Thunk /\ x.op = "save"
      BY <3>1 DEF Thunk
    <3>3. syncQueue' = Append(syncQueue, x)
      BY <2>1 DEF WriteScript, Queue
    <3> HIDE DEF x
    <3> QED BY <1>1, <3>2, <3>3, AppendFacts
  <2>2. CASE SaveFails
    <3>1. /\ syncQueue # <<>> /\ Head(syncQueue).op = "save"
          /\ syncQueue' = Tail(syncQueue)
      BY <2>2 DEF SaveFails
    <3> QED BY <1>1, <3>1, TailFacts
  <2> QED BY <2>1, <2>2
<1>4. /\ \A p \in Paths : LoadPending(p) => LoadPending(p)'
      /\ \A p \in Paths : RemovalOf(p) => RemovalOf(p)'
      /\ \A k \in Keys : RemovalPending(k) => RemovalPending(k)'
  BY <1>2, <1>3 DEF LoadPending, RemovalOf, RemovalPending
<1>5. LoadsLast'
  BY <1>2, <1>3 DEF IInv, FilesInv, LoadsLast, Single
<1> QED BY <1>2, <1>4, <1>5, Kept DEF IInv


\* A load is taken out of the queue.
LEMMA BeginLoadStep ==
  ASSUME IInv, BeginLoad
  PROVE  TablesAgree' /\ FilesInv'
<1> DEFINE x == Head(syncQueue)
<1>1. /\ job = NoJob /\ syncQueue # <<>> /\ x.op = "load" /\ syncQueue' = Tail(syncQueue)
      /\ job' = [step |-> "track", path |-> x.path, save |-> FALSE]
      /\ UNCHANGED <<disk, events, hash, sources, editable, running, clashed, raced>>
  BY DEF BeginLoad
<1>2. syncQueue \in Seq(Thunk) /\ EngineType
  BY DEF IInv, TypeOK, EngineType
<1> HIDE DEF x
<1>3. /\ \A p : LoadIn(syncQueue, p) <=> LoadIn(syncQueue', p) \/ x.path = p
      /\ \A p : RemoveOfIn(syncQueue, p) <=> RemoveOfIn(syncQueue', p)
      /\ \A k : RemoveIn(syncQueue, k) <=> RemoveIn(syncQueue', k)
      /\ \A k, p, b : Ordered(syncQueue, k, p, b) => Ordered(syncQueue', k, p, b)
  BY <1>1, <1>2, TailFacts DEF x
<1>4. /\ \A p \in Paths : LoadPending(p) => LoadPending(p)' \/ job'.path = p
      /\ \A p \in Paths : RemovalOf(p) => RemovalOf(p)'
      /\ \A k \in Keys : RemovalPending(k) => RemovalPending(k)'
  BY <1>1, <1>3 DEF LoadPending, RemovalOf, RemovalPending
<1>5. \A p \in Paths : ~ Busy(p) /\ ~ Busy(p)' /\ job.path # p
  BY <1>1, <1>2, JobFacts DEF Busy
<1>6. /\ \A p \in Paths : (Single(p)' <=> Single(p)) /\ Virtual(p) \in Keys
      /\ \A p, c : LoadedWith(p, c)' <=> LoadedWith(p, c)
      /\ \A p : Gone(p)' <=> Gone(p)
  BY <1>1, PathFacts DEF Single, LoadedWith, Gone
<1>7. TablesAgree'
  BY <1>1 DEF IInv, TablesAgree, NoJob
<1>8. Stages' /\ ClashesNoted'
  BY <1>1 DEF IInv, FilesInv, Stages, ClashesNoted
<1>9. AbsentGone' /\ HashHasFile' /\ HashWhileBusy'
  BY <1>1, <1>4, <1>5, <1>6 DEF IInv, FilesInv, AbsentGone, HashHasFile, HashWhileBusy
<1>10. LoadsLast'
  BY <1>1, <1>3, <1>6 DEF IInv, FilesInv, LoadsLast
<1>11. LoadedAsHash'
  BY <1>1, <1>4, <1>5, <1>6 DEF IInv, FilesInv, LoadedAsHash
<1>12. HashAsDisk'
  BY <1>1, <1>4, <1>5, <1>6 DEF IInv, FilesInv, HashAsDisk
<1> QED BY <1>7, <1>8, <1>9, <1>10, <1>11, <1>12 DEF FilesInv

-----------------------------------------------------------------------------
(* Changes of the files *)

\* What the file system reports when the files become d: nothing is lost, and loads
\* come after the removals that made room for them.
Reported(d) ==
  /\ \A p \in Paths : LoadIn(events, p) => LoadIn(events', p)
  /\ \A p \in Paths : RemoveOfIn(events, p) => RemoveOfIn(events', p)
  /\ \A k \in Keys : RemoveIn(events, k) => RemoveIn(events', k)
  /\ \A p \in Paths : d[p] # disk[p] /\ d[p] # Nothing => LoadIn(events', p)
  /\ \A p \in Paths : d[p] = Nothing /\ disk[p] # Nothing =>
       RemoveOfIn(events', p) /\ RemoveIn(events', Virtual(p))
  /\ \A p \in Paths : d[p] # Nothing /\ Virtual(p) \notin clashed' =>
       Ordered(events', Virtual(p), p, FALSE)

\* A file is written.
LEMMA WriteReported ==
  ASSUME IInv, NEW p \in Paths, NEW c \in Contents,
         Disk([disk EXCEPT ![p] = c], <<LoadEvent(p)>>)
  PROVE  Reported(disk')
<1> DEFINE e == LoadEvent(p)
<1>1. /\ disk' = [disk EXCEPT ![p] = c] /\ events' = Append(events, e)
      /\ clashed \subseteq clashed'
  BY DEF Disk, IInv, TypeOK, FilesType
<1>2. events \in Seq(FileEvent) /\ disk \in [Paths -> Contents \cup {Nothing}]
  BY DEF IInv, TypeOK, FilesType
<1>3. e \in FileEvent /\ e.op = "load" /\ e.path = p
  BY DEF FileEvent, LoadEvent
<1>4. \A q \in Paths : q # p => disk'[q] = disk[q]
  BY <1>1, <1>2
<1>5. disk'[p] = c /\ c # Nothing
  BY <1>1, <1>2, NothingFacts
<1> HIDE DEF e
<1>6. /\ \A q : LoadIn(events', q) <=> LoadIn(events, q) \/ p = q
      /\ \A q : RemoveOfIn(events', q) <=> RemoveOfIn(events, q)
      /\ \A k : RemoveIn(events', k) <=> RemoveIn(events, k)
      /\ \A k, q, b : Ordered(events, k, q, b) \/ p = q => Ordered(events', k, q, b)
  BY <1>1, <1>2, <1>3, AppendFacts
<1>7. ASSUME NEW q \in Paths, disk'[q] # Nothing, Virtual(q) \notin clashed'
      PROVE  Ordered(events', Virtual(q), q, FALSE)
  BY <1>1, <1>4, <1>6, <1>7 DEF IInv, FilesInv, LoadsLast, Single
<1> QED BY <1>4, <1>5, <1>6, <1>7 DEF Reported

\* A file is deleted.
LEMMA DeleteReported ==
  ASSUME IInv, NEW p \in Paths, disk[p] # Nothing,
         Disk([disk EXCEPT ![p] = Nothing], <<RemoveEvent(p)>>)
  PROVE  Reported(disk')
<1> DEFINE e == RemoveEvent(p)
<1>1. /\ disk' = [disk EXCEPT ![p] = Nothing] /\ events' = Append(events, e)
      /\ clashed \subseteq clashed'
  BY DEF Disk, IInv, TypeOK, FilesType
<1>2. events \in Seq(FileEvent) /\ disk \in [Paths -> Contents \cup {Nothing}]
  BY DEF IInv, TypeOK, FilesType
<1>3. e \in FileEvent /\ e.op = "remove" /\ e.path = p
  BY DEF FileEvent, RemoveEvent
<1>4. disk'[p] = Nothing /\ \A q \in Paths : q # p => disk'[q] = disk[q]
  BY <1>1, <1>2
<1> HIDE DEF e
<1>5. /\ \A q : LoadIn(events', q) <=> LoadIn(events, q)
      /\ \A q : RemoveOfIn(events', q) <=> RemoveOfIn(events, q) \/ p = q
      /\ \A k : RemoveIn(events', k) <=> RemoveIn(events, k) \/ Virtual(p) = k
      /\ \A k, q, b : Ordered(events, k, q, b) /\ Virtual(p) # k => Ordered(events', k, q, b)
  BY <1>1, <1>2, <1>3, AppendFacts
<1>6. ASSUME NEW q \in Paths, disk'[q] # Nothing, Virtual(q) \notin clashed'
      PROVE  Ordered(events', Virtual(q), q, FALSE)
  <2>1. q # p /\ Single(q)
    BY <1>1, <1>4, <1>6 DEF Single
  <2>2. Virtual(p) # Virtual(q)
    BY <2>1, ClashFacts DEF IInv, FilesInv
  <2> QED BY <1>5, <2>1, <2>2 DEF IInv, FilesInv, LoadsLast
<1> QED BY <1>4, <1>5, <1>6 DEF Reported

\* A file is renamed.
LEMMA MoveReported ==
  ASSUME IInv, NEW p \in Paths, NEW r \in Paths, p # r, disk[p] # Nothing,
         Disk([disk EXCEPT ![r] = disk[p], ![p] = Nothing], <<RemoveEvent(p), LoadEvent(r)>>)
  PROVE  Reported(disk')
<1> DEFINE e == RemoveEvent(p)
           f == LoadEvent(r)
           es == Append(events, e)
<1>1. /\ disk' = [disk EXCEPT ![r] = disk[p], ![p] = Nothing]
      /\ events' = events \o <<e, f>> /\ clashed \subseteq clashed'
  BY DEF Disk, IInv, TypeOK, FilesType
<1>2. events \in Seq(FileEvent) /\ disk \in [Paths -> Contents \cup {Nothing}]
  BY DEF IInv, TypeOK, FilesType
<1>3. /\ e \in FileEvent /\ e.op = "remove" /\ e.path = p
      /\ f \in FileEvent /\ f.op = "load" /\ f.path = r
  BY DEF FileEvent, RemoveEvent, LoadEvent
<1>4. /\ disk'[p] = Nothing /\ disk'[r] # Nothing
      /\ \A q \in Paths \ {p, r} : disk'[q] = disk[q]
  BY <1>1, <1>2
<1> HIDE DEF e, f
<1>5. es \in Seq(FileEvent) /\ events' = Append(es, f)
  BY <1>1, <1>2, <1>3
<1>6. /\ \A q : LoadIn(es, q) <=> LoadIn(events, q)
      /\ \A q : RemoveOfIn(es, q) <=> RemoveOfIn(events, q) \/ p = q
      /\ \A k : RemoveIn(es, k) <=> RemoveIn(events, k) \/ Virtual(p) = k
      /\ \A k, q, b : Ordered(events, k, q, b) /\ Virtual(p) # k => Ordered(es, k, q, b)
  BY <1>2, <1>3, AppendFacts
<1> HIDE DEF es
<1>7. /\ \A q : LoadIn(events', q) <=> LoadIn(es, q) \/ r = q
      /\ \A q : RemoveOfIn(events', q) <=> RemoveOfIn(es, q)
      /\ \A k : RemoveIn(events', k) <=> RemoveIn(es, k)
      /\ \A k, q, b : Ordered(es, k, q, b) \/ r = q => Ordered(events', k, q, b)
  BY <1>3, <1>5, AppendFacts
<1>8. ASSUME NEW q \in Paths, disk'[q] # Nothing, Virtual(q) \notin clashed'
      PROVE  Ordered(events', Virtual(q), q, FALSE)
  <2>1. CASE q = r
    BY <1>7, <2>1
  <2>2. CASE q # r
    <3>1. q # p /\ Single(q)
      BY <1>1, <1>4, <1>8, <2>2 DEF Single
    <3>2. Virtual(p) # Virtual(q)
      BY <3>1, ClashFacts DEF IInv, FilesInv
    <3> QED BY <1>6, <1>7, <3>1, <3>2 DEF IInv, FilesInv, LoadsLast
  <2> QED BY <2>1, <2>2
<1> QED BY <1>4, <1>6, <1>7, <1>8 DEF Reported

\* The files change, and the sync loop may begin the load of a file just saved.
LEMMA DiskStep ==
  ASSUME IInv, NEW es, Disk(disk', es), Reported(disk'),
         disk' \in [Paths -> Contents \cup {Nothing}],
         UNCHANGED <<hash, sources, editable, running>>,
         \/ job' = job
         \/ job = NoJob /\ job'.step = "track",
         \A p : LoadIn(syncQueue', p) <=> LoadIn(syncQueue, p),
         \A p : RemoveOfIn(syncQueue', p) <=> RemoveOfIn(syncQueue, p),
         \A k : RemoveIn(syncQueue', k) <=> RemoveIn(syncQueue, k),
         \A k, p, b : Ordered(syncQueue, k, p, b) => Ordered(syncQueue', k, p, b)
  PROVE  TablesAgree' /\ FilesInv'
<1>1. /\ clashed' = clashed \cup Clashes(disk')
      /\ raced' = raced \cup {p \in Paths : disk'[p] # disk[p] /\ Busy(p)}
  BY DEF Disk, Busy
<1>2. EngineType
  BY DEF IInv, TypeOK
<1>3. /\ \A p \in Paths : Busy(p)' <=> Busy(p)
      /\ \A p \in Paths : job.path = p => job'.path = p
      /\ job'.step \in {"register", "run"} => job' = job
      /\ job.step \in {"register", "run"} => job' = job
  BY <1>2, JobFacts DEF Busy
<1>4. /\ \A p \in Paths : LoadPending(p) => LoadPending(p)'
      /\ \A p \in Paths : RemovalOf(p) => RemovalOf(p)'
      /\ \A k \in Keys : RemovalPending(k) => RemovalPending(k)'
      /\ \A p \in Paths : disk'[p] # disk[p] /\ disk'[p] # Nothing => LoadPending(p)'
      /\ \A p \in Paths : disk'[p] = Nothing /\ disk[p] # Nothing =>
           RemovalOf(p)' /\ RemovalPending(Virtual(p))'
  BY DEF Reported, LoadPending, RemovalOf, RemovalPending
<1>5. /\ \A p, c : LoadedWith(p, c)' <=> LoadedWith(p, c)
      /\ \A p : Gone(p)' <=> Gone(p)
  BY DEF LoadedWith, Gone
<1>6. \A p \in Paths : Virtual(p) \in Keys
  BY PathFacts
<1>7. /\ \A p \in Paths : Single(p)' /\ disk[p] # Nothing => Single(p)
      /\ \A p \in Paths : p \notin raced' => p \notin raced
      /\ \A p \in Paths : p \notin raced' /\ Busy(p) => disk'[p] = disk[p]
  BY <1>1 DEF Single
<1>8. TablesAgree'
  BY <1>3 DEF IInv, TablesAgree
<1>9. Stages'
  BY <1>3 DEF IInv, FilesInv, Stages
<1>10. ClashesNoted'
  BY <1>1 DEF ClashesNoted
<1>11. AbsentGone'
  BY <1>3, <1>4, <1>5 DEF IInv, FilesInv, AbsentGone
<1>12. LoadsLast'
  <2> SUFFICES ASSUME NEW p \in Paths, Single(p)'
               PROVE  /\ Ordered(events', Virtual(p), p, FALSE)
                      /\ Ordered(syncQueue', Virtual(p), p, LoadIn(events', p))
    BY DEF LoadsLast
  <2>1. disk'[p] # Nothing /\ Virtual(p) \notin clashed'
    BY DEF Single
  <2>2. Ordered(events', Virtual(p), p, FALSE)
    BY <2>1 DEF Reported
  <2>3. CASE LoadIn(events', p)
    BY <2>2, <2>3 DEF Ordered
  <2>4. CASE ~ LoadIn(events', p)
    <3>1. Single(p) /\ ~ LoadIn(events, p)
      BY <1>7, <2>1, <2>4 DEF Reported
    <3>2. Ordered(syncQueue, Virtual(p), p, LoadIn(events, p))
      BY <3>1 DEF IInv, FilesInv, LoadsLast
    <3>3. Ordered(syncQueue', Virtual(p), p, LoadIn(events, p))
      BY <3>2
    <3> QED BY <2>2, <2>4, <3>1, <3>3 DEF Ordered
  <2> QED BY <2>3, <2>4
<1>13. HashHasFile'
  <2> SUFFICES ASSUME NEW k \in Keys, hash[k] # Nothing, ~ RemovalPending(k)'
               PROVE  \E p \in Paths : Virtual(p) = k /\ disk'[p] # Nothing
    BY DEF HashHasFile
  <2>1. PICK p \in Paths : Virtual(p) = k /\ disk[p] # Nothing
    BY <1>4 DEF IInv, FilesInv, HashHasFile
  <2> QED BY <1>4, <2>1
<1>14. HashWhileBusy'
  BY <1>3, <1>7 DEF IInv, FilesInv, HashWhileBusy, Single
<1>15. LoadedAsHash'
  <2> SUFFICES ASSUME NEW p \in Paths, Single(p)', p \notin raced',
                      hash[Virtual(p)] # Nothing, ~ RemovalPending(Virtual(p))'
               PROVE  Busy(p) \/ LoadedWith(p, hash[Virtual(p)])
    BY <1>3, <1>5 DEF LoadedAsHash
  <2>1. ~ RemovalPending(Virtual(p))
    BY <1>4, <1>6
  <2>2. disk[p] # Nothing
    <3> SUFFICES ASSUME disk[p] = Nothing PROVE FALSE
      OBVIOUS
    <3>1. PICK q \in Paths : Virtual(q) = Virtual(p) /\ disk[q] # Nothing
      BY <1>6, <2>1 DEF IInv, FilesInv, HashHasFile
    <3>2. disk'[q] # Nothing /\ q # p
      BY <1>4, <3>1
    <3> QED BY <1>1, <3>1, <3>2 DEF Single, Clashes, Present
  <2>3. Single(p) /\ p \notin raced
    BY <1>7, <2>2
  <2> QED BY <2>1, <2>3 DEF IInv, FilesInv, LoadedAsHash
<1>16. HashAsDisk'
  <2> SUFFICES ASSUME NEW p \in Paths, Single(p)', p \notin raced', ~ LoadPending(p)',
                      job'.path # p
               PROVE  hash[Virtual(p)] = disk'[p]
    BY DEF HashAsDisk
  <2>1. disk'[p] = disk[p] /\ disk[p] # Nothing
    BY <1>4 DEF Single
  <2>2. Single(p) /\ p \notin raced /\ ~ LoadPending(p) /\ job.path # p
    BY <1>3, <1>4, <1>7, <2>1
  <2> QED BY <2>1, <2>2 DEF IInv, FilesInv, HashAsDisk
<1> QED BY <1>8, <1>9, <1>10, <1>11, <1>12, <1>13, <1>14, <1>15, <1>16 DEF FilesInv


\* By hand, by the editor or by the thunk of a save
LEMMA FileSteps ==
  ASSUME IInv
  PROVE  /\ \A p \in Paths, c \in Contents : WriteByHand(p, c) => TablesAgree' /\ FilesInv'
         /\ \A p \in Paths : DeleteByHand(p) => TablesAgree' /\ FilesInv'
         /\ DeleteFile \/ MoveFile \/ BeginSave => TablesAgree' /\ FilesInv'
<1>1. /\ disk \in [Paths -> Contents \cup {Nothing}] /\ events \in Seq(FileEvent)
      /\ syncQueue \in Seq(Thunk)
  BY DEF IInv, TypeOK, FilesType, EngineType
<1>2. TablesAgree /\ FilesInv
  BY DEF IInv
<1>3. UNCHANGED engineState =>
        /\ UNCHANGED <<hash, sources, editable, running>> /\ job' = job
        /\ \A p : LoadIn(syncQueue', p) <=> LoadIn(syncQueue, p)
        /\ \A p : RemoveOfIn(syncQueue', p) <=> RemoveOfIn(syncQueue, p)
        /\ \A k : RemoveIn(syncQueue', k) <=> RemoveIn(syncQueue, k)
        /\ \A k, p, b : Ordered(syncQueue, k, p, b) => Ordered(syncQueue', k, p, b)
  BY DEF engineState
<1>4. ASSUME NEW p \in Paths, NEW c \in Contents, WriteByHand(p, c)
      PROVE  TablesAgree' /\ FilesInv'
  <2>1. Disk([disk EXCEPT ![p] = c], <<LoadEvent(p)>>) /\ UNCHANGED engineState
    BY <1>4 DEF WriteByHand
  <2>2. /\ disk' = [disk EXCEPT ![p] = c] /\ disk' \in [Paths -> Contents \cup {Nothing}]
        /\ Disk(disk', <<LoadEvent(p)>>)
    BY <1>1, <2>1 DEF Disk
  <2>3. Reported(disk')
    BY <2>1, WriteReported
  <2> QED BY <1>3, <2>1, <2>2, <2>3, DiskStep
<1>5. ASSUME NEW p \in Paths, disk[p] # Nothing, UNCHANGED engineState,
             Disk([disk EXCEPT ![p] = Nothing], <<RemoveEvent(p)>>)
      PROVE  TablesAgree' /\ FilesInv'
  <2>1. /\ disk' = [disk EXCEPT ![p] = Nothing]
        /\ disk' \in [Paths -> Contents \cup {Nothing}]
        /\ Disk(disk', <<RemoveEvent(p)>>)
    BY <1>1, <1>5 DEF Disk
  <2>2. Reported(disk')
    BY <1>5, DeleteReported
  <2> QED BY <1>3, <1>5, <2>1, <2>2, DiskStep
<1>6. ASSUME NEW p \in Paths, DeleteByHand(p)
      PROVE  TablesAgree' /\ FilesInv'
  BY <1>5, <1>6 DEF DeleteByHand
<1>7. CASE DeleteFile
  <2>1. call.path \in Paths /\ UNCHANGED engineState
    BY <1>7 DEF DeleteFile, IInv, TypeOK, CallType, NoCall
  <2>2. CASE disk[call.path] = Nothing
    BY <1>2, <1>7, <2>1, <2>2, Same DEF DeleteFile
  <2>3. CASE disk[call.path] # Nothing
    BY <1>5, <1>7, <2>1, <2>3 DEF DeleteFile
  <2> QED BY <2>2, <2>3
<1>8. CASE MoveFile
  <2> DEFINE p == call.path
             r == call.to
  <2>1. p \in Paths /\ r \in Paths /\ UNCHANGED engineState
    BY <1>8 DEF MoveFile, IInv, TypeOK, CallType, NoCall
  <2>2. CASE disk[p] = Nothing \/ r = p
    BY <1>2, <1>8, <2>1, <2>2, Same DEF MoveFile
  <2>3. CASE disk[p] # Nothing /\ r # p
    <3>1. Disk([disk EXCEPT ![r] = disk[p], ![p] = Nothing],
               <<RemoveEvent(p), LoadEvent(r)>>)
      BY <1>8, <2>3 DEF MoveFile
    <3> HIDE DEF p, r
    <3>2. /\ disk' = [disk EXCEPT ![r] = disk[p], ![p] = Nothing]
          /\ disk' \in [Paths -> Contents \cup {Nothing}]
          /\ Disk(disk', <<RemoveEvent(p), LoadEvent(r)>>)
      BY <1>1, <2>1, <3>1 DEF Disk
    <3>3. Reported(disk')
      BY <2>1, <2>3, <3>1, MoveReported
    <3> QED BY <1>3, <2>1, <3>2, <3>3, DiskStep
  <2> QED BY <2>2, <2>3
<1>9. CASE BeginSave
  <2> DEFINE x == Head(syncQueue)
             p == x.path
  <2>1. /\ job = NoJob /\ syncQueue # <<>> /\ x.op = "save" /\ syncQueue' = Tail(syncQueue)
        /\ Disk([disk EXCEPT ![p] = x.content], <<LoadEvent(p)>>)
        /\ job'.step = "track"
        /\ UNCHANGED <<hash, sources, editable, running>>
    BY <1>9 DEF BeginSave
  <2> HIDE DEF x
  <2>2. x \in Thunk
    BY <1>1, <2>1, TailFacts DEF x
  <2>3. p \in Paths /\ x.content \in Contents
    BY <2>1, <2>2 DEF Thunk
  <2>4. /\ \A q : LoadIn(syncQueue', q) <=> LoadIn(syncQueue, q)
        /\ \A q : RemoveOfIn(syncQueue', q) <=> RemoveOfIn(syncQueue, q)
        /\ \A k : RemoveIn(syncQueue', k) <=> RemoveIn(syncQueue, k)
        /\ \A k, q, b : Ordered(syncQueue, k, q, b) => Ordered(syncQueue', k, q, b)
    BY <1>1, <2>1, TailFacts DEF x
  <2> HIDE DEF p
  <2>5. /\ disk' = [disk EXCEPT ![p] = x.content]
        /\ disk' \in [Paths -> Contents \cup {Nothing}]
        /\ Disk(disk', <<LoadEvent(p)>>)
    BY <1>1, <2>1, <2>3 DEF Disk
  <2>6. Reported(disk')
    BY <2>1, <2>3, WriteReported
  <2> QED BY <2>1, <2>4, <2>5, <2>6, DiskStep
<1> QED BY <1>4, <1>6, <1>7, <1>8, <1>9

-----------------------------------------------------------------------------
(* The steps of a load *)

\* The load is over before anything is done.
LEMMA NothingToLoadStep ==
  ASSUME IInv, NothingToLoad
  PROVE  TablesAgree' /\ FilesInv'
<1>1. /\ job.step = "track" /\ job' = NoJob
      /\ disk[job.path] = Nothing \/ hash[Virtual(job.path)] = disk[job.path]
      /\ UNCHANGED <<disk, events, syncQueue, hash, sources, editable, running, clashed,
                     raced>>
  BY DEF NothingToLoad, Reply
<1>2. /\ \A p \in Paths : ~ Busy(p)' /\ ~ Busy(p)
      /\ \A p : Single(p)' <=> Single(p)
      /\ \A p, c : LoadedWith(p, c)' <=> LoadedWith(p, c)
      /\ \A p : Gone(p)' <=> Gone(p)
      /\ \A p : (LoadPending(p)' <=> LoadPending(p)) /\ (RemovalOf(p)' <=> RemovalOf(p))
      /\ \A k : RemovalPending(k)' <=> RemovalPending(k)
  BY <1>1 DEF Busy, NoJob, Single, LoadedWith, Gone, LoadPending, RemovalOf, RemovalPending
<1>3. TablesAgree'
  BY <1>1 DEF IInv, TablesAgree
<1>4. Stages' /\ ClashesNoted'
  BY <1>1 DEF IInv, FilesInv, Stages, ClashesNoted, NoJob
<1>5. AbsentGone' /\ HashHasFile' /\ HashWhileBusy'
  BY <1>1, <1>2 DEF IInv, FilesInv, AbsentGone, HashHasFile, HashWhileBusy
<1>6. LoadsLast'
  BY <1>1, <1>2 DEF IInv, FilesInv, LoadsLast
<1>7. LoadedAsHash'
  BY <1>1, <1>2 DEF IInv, FilesInv, LoadedAsHash
<1>8. HashAsDisk'
  <2> SUFFICES ASSUME NEW p \in Paths, Single(p), p \notin raced, ~ LoadPending(p)
               PROVE  hash[Virtual(p)] = disk[p]
    BY <1>1, <1>2 DEF HashAsDisk
  <2>1. CASE job.path = p
    BY <1>1, <2>1 DEF Single
  <2>2. CASE job.path # p
    BY <2>2 DEF IInv, FilesInv, HashAsDisk
  <2> QED BY <2>1, <2>2
<1> QED BY <1>3, <1>4, <1>5, <1>6, <1>7, <1>8 DEF FilesInv

\* The hash of the file is noted; no other file has the same hash.
LEMMA TrackStep ==
  ASSUME IInv, Track
  PROVE  TablesAgree' /\ FilesInv'
<1> DEFINE q == job.path
           h == Virtual(q)
<1>1. /\ job.step = "track" /\ disk[q] # Nothing /\ hash' = [hash EXCEPT ![h] = disk[q]]
      /\ job' = [job EXCEPT !.step = "clean"] /\ raced' = raced \ {q}
      /\ UNCHANGED <<disk, events, syncQueue, sources, editable, running, clashed>>
  BY DEF Track
<1>2. EngineType /\ hash \in [Keys -> Contents \cup {Nothing}]
  BY DEF IInv, TypeOK, EngineType
<1>3. q \in Paths /\ h \in Keys /\ job'.step = "clean" /\ job'.path = q
  BY <1>1, <1>2, JobFacts, PathFacts DEF NoJob
<1> HIDE DEF q, h
<1>4. hash'[h] = disk[q] /\ \A k \in Keys \ {h} : hash'[k] = hash[k]
  BY <1>1, <1>2, <1>3
<1>5. /\ \A p \in Paths : ~ Busy(p) /\ (Busy(p)' <=> p = q)
      /\ \A p : Single(p)' <=> Single(p)
      /\ \A p, c : LoadedWith(p, c)' <=> LoadedWith(p, c)
      /\ \A p : Gone(p)' <=> Gone(p)
      /\ \A p : (LoadPending(p)' <=> LoadPending(p)) /\ (RemovalOf(p)' <=> RemovalOf(p))
      /\ \A k : RemovalPending(k)' <=> RemovalPending(k)
  BY <1>1, <1>3 DEF Busy, Single, LoadedWith, Gone, LoadPending, RemovalOf, RemovalPending
<1>6. \A p \in Paths : Virtual(p) \in Keys /\ (Single(p) /\ p # q => Virtual(p) # h)
  BY <1>1, <1>3, PathFacts, ClashFacts DEF h, IInv, FilesInv
<1>7. TablesAgree'
  BY <1>1, <1>3 DEF IInv, TablesAgree
<1>8. Stages' /\ ClashesNoted'
  BY <1>1, <1>3 DEF IInv, FilesInv, Stages, ClashesNoted
<1>9. AbsentGone'
  BY <1>1, <1>5 DEF IInv, FilesInv, AbsentGone
<1>10. HashHasFile'
  BY <1>1, <1>3, <1>4, <1>5 DEF IInv, FilesInv, HashHasFile, h
<1>11. HashWhileBusy'
  BY <1>1, <1>4, <1>5 DEF HashWhileBusy, h
<1>12. LoadsLast'
  BY <1>1, <1>5 DEF IInv, FilesInv, LoadsLast
<1>13. LoadedAsHash'
  BY <1>1, <1>4, <1>5, <1>6 DEF IInv, FilesInv, LoadedAsHash
<1>14. HashAsDisk'
  BY <1>1, <1>3, <1>4, <1>5, <1>6 DEF IInv, FilesInv, HashAsDisk, q
<1> QED BY <1>7, <1>8, <1>9, <1>10, <1>11, <1>12, <1>13, <1>14 DEF FilesInv

\* Whose virtual path a load has while there is a file of that path
LEMMA BusyFacts ==
  ASSUME IInv, NEW q \in Paths, Busy(q), NEW p \in Paths, Single(p), p # q,
         Virtual(p) = Virtual(q)
  PROVE  RemovalPending(Virtual(p))
<1>1. disk[q] = Nothing
  BY ClashFacts DEF IInv, FilesInv
<1>2. RemovalOf(q)
  BY <1>1 DEF IInv, FilesInv, AbsentGone
<1> QED BY <1>2 DEF RemovalOf, RemovalPending, RemoveOfIn, RemoveIn


\* The old version goes.
LEMMA CleanUpStep ==
  ASSUME IInv, CleanUp
  PROVE  TablesAgree' /\ FilesInv'
<1> DEFINE q == job.path
<1>1. /\ job.step = "clean" /\ job' = [job EXCEPT !.step = "register"]
      /\ running' = [running EXCEPT ![q] = Nothing]
      /\ sources' = [sources EXCEPT ![q] = Nothing]
      /\ editable' = IF UnderRoot(q) THEN [editable EXCEPT ![Name(q)] = q] ELSE editable
      /\ UNCHANGED <<disk, events, syncQueue, hash, clashed, raced>>
  BY DEF CleanUp, Cleanups
<1>2. /\ EngineType /\ sources \in [Paths -> Entry \cup {Nothing}]
      /\ running \in [Paths -> Contents \cup {Nothing}]
      /\ editable \in [Scripts -> Paths \cup {Nothing}]
  BY DEF IInv, TypeOK, EngineType
<1>3. q \in Paths /\ job'.step = "register" /\ job'.path = q
  BY <1>1, <1>2, JobFacts DEF NoJob
<1> HIDE DEF q
<1>4. /\ running'[q] = Nothing /\ sources'[q] = Nothing
      /\ UnderRoot(q) => Name(q) \in Scripts /\ editable'[Name(q)] = q
      /\ \A p \in Paths \ {q} : running'[p] = running[p] /\ sources'[p] = sources[p]
      /\ \A n \in Scripts : ~ (UnderRoot(q) /\ n = Name(q)) => editable'[n] = editable[n]
  BY <1>1, <1>2, <1>3, PathFacts
<1>5. /\ \A p \in Paths : (Busy(p)' <=> p = q) /\ (Busy(p) <=> p = q)
      /\ \A p : Single(p)' <=> Single(p)
      /\ \A p : (LoadPending(p)' <=> LoadPending(p)) /\ (RemovalOf(p)' <=> RemovalOf(p))
      /\ \A k : RemovalPending(k)' <=> RemovalPending(k)
  BY <1>1, <1>3 DEF Busy, Single, LoadPending, RemovalOf, RemovalPending, q
<1>6. TablesAgree'
  <2>1. ASSUME NEW p \in Paths, running'[p] # Nothing
        PROVE  sources'[p] # Nothing /\ Enabled(p)
    BY <1>4, <2>1 DEF IInv, TablesAgree
  <2>2. ASSUME NEW n \in Scripts, editable'[n] # Nothing
        PROVE  /\ Name(editable'[n]) = n
               /\ sources'[editable'[n]] # Nothing \/ editable'[n] = q
    <3>1. CASE UnderRoot(q) /\ n = Name(q)
      BY <1>4, <3>1
    <3>2. CASE ~ (UnderRoot(q) /\ n = Name(q))
      <4>1. editable'[n] = editable[n] /\ editable[n] \in Paths
        BY <1>2, <1>4, <2>2, <3>2
      <4> QED BY <1>1, <1>4, <2>2, <4>1 DEF IInv, TablesAgree
    <3> QED BY <3>1, <3>2
  <2> QED BY <1>3, <2>1, <2>2 DEF TablesAgree
<1>7. Stages' /\ ClashesNoted'
  BY <1>1, <1>3, <1>4 DEF IInv, FilesInv, Stages, ClashesNoted
<1>8. \A p \in Paths \ {q} : Gone(p) => Gone(p)'
  BY <1>4, PathFacts DEF Gone
<1>9. AbsentGone'
  BY <1>1, <1>5, <1>8 DEF IInv, FilesInv, AbsentGone
<1>10. HashHasFile' /\ HashWhileBusy'
  BY <1>1, <1>5 DEF IInv, FilesInv, HashHasFile, HashWhileBusy
<1>11. LoadsLast'
  BY <1>1, <1>5 DEF IInv, FilesInv, LoadsLast
<1>12. LoadedAsHash'
  <2> SUFFICES ASSUME NEW p \in Paths, Single(p), p \notin raced, hash[Virtual(p)] # Nothing,
                      ~ RemovalPending(Virtual(p)), p # q
               PROVE  LoadedWith(p, hash[Virtual(p)])'
    BY <1>1, <1>5 DEF LoadedAsHash
  <2>1. Virtual(p) # Virtual(q)
    BY <1>3, <1>5, BusyFacts
  <2>2. LoadedWith(p, hash[Virtual(p)])
    BY <1>5 DEF IInv, FilesInv, LoadedAsHash
  <2>3. UnderRoot(p) => editable'[Name(p)] = editable[Name(p)]
    BY <1>3, <1>4, <2>1, PathFacts
  <2> QED BY <1>1, <1>4, <2>2, <2>3 DEF LoadedWith
<1>13. HashAsDisk'
  BY <1>1, <1>3, <1>5 DEF IInv, FilesInv, HashAsDisk, q
<1> QED BY <1>6, <1>7, <1>9, <1>10, <1>11, <1>12, <1>13 DEF FilesInv

\* The load of q goes on or ends; entries of other files stay.
LEMMA LoadGoesOn ==
  ASSUME IInv, NEW q \in Paths, Busy(q),
         UNCHANGED <<disk, events, syncQueue, hash, editable, clashed, raced>>,
         job' = NoJob \/ (job'.path = q /\ job'.step = "run"),
         Stages',
         sources'[q] # Nothing,
         running'[q] # Nothing => Enabled(q),
         \A p \in Paths \ {q} : running'[p] = running[p] /\ sources'[p] = sources[p],
         job.step \in {"register", "run"},
         job' = NoJob /\ q \notin raced /\ Single(q) => LoadedWith(q, disk[q])'
  PROVE  TablesAgree' /\ FilesInv'
<1>1. /\ \A p : Single(p)' <=> Single(p)
      /\ \A p : (LoadPending(p)' <=> LoadPending(p)) /\ (RemovalOf(p)' <=> RemovalOf(p))
      /\ \A k : RemovalPending(k)' <=> RemovalPending(k)
      /\ \A p \in Paths \ {q} : Gone(p)' <=> Gone(p)
      /\ \A c : \A p \in Paths \ {q} : LoadedWith(p, c)' <=> LoadedWith(p, c)
  BY DEF Single, LoadPending, RemovalOf, RemovalPending, Gone, LoadedWith
<1>2. /\ job.path = q
      /\ \A p \in Paths : (Busy(p) <=> p = q) /\ (Busy(p)' => p = q)
      /\ job' # NoJob => Busy(q)'
  BY NothingFacts DEF Busy, NoJob
<1>3. editable \in [Scripts -> Paths \cup {Nothing}]
  BY DEF IInv, TypeOK, EngineType
<1>4. TablesAgree'
  <2>1. ASSUME NEW p \in Paths, running'[p] # Nothing
        PROVE  sources'[p] # Nothing /\ Enabled(p)
    BY <2>1 DEF IInv, TablesAgree
  <2>2. ASSUME NEW n \in Scripts, editable[n] # Nothing
        PROVE  Name(editable[n]) = n /\ sources'[editable[n]] # Nothing
    BY <1>2, <1>3, <2>2 DEF IInv, TablesAgree
  <2> QED BY <2>1, <2>2 DEF TablesAgree
<1>5. ClashesNoted'
  BY DEF IInv, FilesInv, ClashesNoted
<1>6. AbsentGone'
  BY <1>1, <1>2 DEF IInv, FilesInv, AbsentGone
<1>7. HashHasFile' /\ HashWhileBusy'
  BY <1>1, <1>2 DEF IInv, FilesInv, HashHasFile, HashWhileBusy
<1>8. LoadsLast'
  BY <1>1 DEF IInv, FilesInv, LoadsLast
<1>9. q \notin raced /\ Single(q) => hash[Virtual(q)] = disk[q]
  BY <1>2 DEF IInv, FilesInv, HashWhileBusy
<1>10. LoadedAsHash'
  <2> SUFFICES ASSUME NEW p \in Paths, Single(p), p \notin raced,
                      hash[Virtual(p)] # Nothing, ~ RemovalPending(Virtual(p)), ~ Busy(p)'
               PROVE  LoadedWith(p, hash[Virtual(p)])'
    BY <1>1 DEF LoadedAsHash
  <2>1. CASE p = q
    BY <1>2, <1>9, <2>1
  <2>2. CASE p # q
    <3>1. LoadedWith(p, hash[Virtual(p)])
      BY <1>2, <2>2 DEF IInv, FilesInv, LoadedAsHash
    <3> QED BY <1>1, <2>2, <3>1
  <2> QED BY <2>1, <2>2
<1>11. HashAsDisk'
  <2> SUFFICES ASSUME NEW p \in Paths, Single(p), p \notin raced, ~ LoadPending(p)
               PROVE  hash[Virtual(p)] = disk[p] \/ job'.path = p
    BY <1>1 DEF HashAsDisk
  <2> QED BY <1>2, <1>9 DEF IInv, FilesInv, HashAsDisk
<1> QED BY <1>4, <1>5, <1>6, <1>7, <1>8, <1>10, <1>11 DEF FilesInv

\* A disabled file is loaded when it has its entry.
LEMMA RegisterStep ==
  ASSUME IInv, Register
  PROVE  TablesAgree' /\ FilesInv'
<1>0. PICK q \in Paths : q = job.path
  BY JobFacts DEF IInv, TypeOK, Register, RunScript, NoJob
<1>1. /\ job.step = "register" /\ sources' = [sources EXCEPT ![q] = NewEntry(q)]
      /\ IF Enabled(q) THEN job' = [job EXCEPT !.step = "run"] ELSE job' = NoJob
      /\ UNCHANGED <<disk, events, syncQueue, hash, editable, running, clashed, raced>>
  BY <1>0 DEF Register, Reply
<1>2. EngineType /\ sources \in [Paths -> Entry \cup {Nothing}]
  BY DEF IInv, TypeOK, EngineType
<1>3. /\ q \in Paths /\ Busy(q)
      /\ Enabled(q) => job'.step = "run" /\ job'.path = q
  BY <1>0, <1>1, <1>2, JobFacts DEF NoJob, Busy
<1>4. running[q] = Nothing /\ (UnderRoot(q) => editable[Name(q)] = q)
  BY <1>0, <1>1 DEF IInv, FilesInv, Stages
<1>5. /\ sources'[q] = NewEntry(q) /\ NewEntry(q) # Nothing
      /\ \A p \in Paths \ {q} : sources'[p] = sources[p]
  BY <1>1, <1>2, <1>3, NothingFacts
<1>6. Stages'
  <2>1. CASE Enabled(q)
    BY <1>1, <1>3, <1>4, <1>5, <2>1 DEF Stages
  <2>2. CASE ~ Enabled(q)
    BY <1>1, <2>2 DEF Stages, NoJob
  <2> QED BY <2>1, <2>2
<1>7. job' = NoJob => LoadedWith(q, disk[q])'
  <2> SUFFICES ASSUME job' = NoJob PROVE LoadedWith(q, disk[q])'
    OBVIOUS
  <2>1. ~ Enabled(q) /\ UnderRoot(q)
    BY <1>3, PathFacts DEF NoJob
  <2>2. NewEntry(q) = [enabled |-> Enabled(q), error |-> Enabled(q) /\ disk[q] \in BadContents]
    BY <1>3, <2>1, PathFacts DEF NewEntry
  <2> QED BY <1>1, <1>4, <1>5, <2>1, <2>2 DEF LoadedWith
<1> QED BY <1>1, <1>3, <1>4, <1>5, <1>6, <1>7, LoadGoesOn

\* The script runs.
LEMMA RunScriptStep ==
  ASSUME IInv, RunScript
  PROVE  TablesAgree' /\ FilesInv'
<1>0. PICK q \in Paths : q = job.path
  BY JobFacts DEF IInv, TypeOK, Register, RunScript, NoJob
<1>1. /\ job.step = "run" /\ job' = NoJob
      /\ running' = [running EXCEPT ![q] = disk[q]]
      /\ sources' = [sources EXCEPT ![q].error = disk[q] \in BadContents]
      /\ UNCHANGED <<disk, events, syncQueue, hash, editable, clashed, raced>>
  BY <1>0 DEF RunScript, Reply
<1>2. /\ EngineType /\ sources \in [Paths -> Entry \cup {Nothing}]
      /\ running \in [Paths -> Contents \cup {Nothing}]
  BY DEF IInv, TypeOK, EngineType
<1>3. q \in Paths /\ Busy(q)
  BY <1>0, <1>1, <1>2, JobFacts DEF NoJob, Busy
<1>4. /\ UnderRoot(q) => editable[Name(q)] = q
      /\ Enabled(q) /\ sources[q] = NewEntry(q)
  BY <1>0, <1>1 DEF IInv, FilesInv, Stages
<1>5. /\ running'[q] = disk[q]
      /\ \A p \in Paths \ {q} : running'[p] = running[p] /\ sources'[p] = sources[p]
  BY <1>1, <1>2, <1>3
<1>6. /\ sources'[q] = [enabled |-> TRUE, error |-> disk[q] \in BadContents]
      /\ sources'[q] # Nothing
  <2> DEFINE e == disk[q] \in BadContents
  <2>1. sources[q] \in Entry /\ sources[q].enabled = TRUE
    <3>1. Enabled(q) = TRUE
      BY <1>4, PathFacts
    <3>2. NewEntry(q).enabled = TRUE
      BY <3>1 DEF NewEntry
    <3> QED BY <1>4, <3>2, NothingFacts
  <2>2. e \in BOOLEAN
    OBVIOUS
  <2>3. sources' = [sources EXCEPT ![q].error = e]
    BY <1>1
  <2> HIDE DEF e
  <2>4. sources'[q] = [sources[q] EXCEPT !.error = e]
    BY <1>2, <1>3, <2>3
  <2>5. sources'[q] \in Entry /\ sources'[q].enabled = TRUE /\ sources'[q].error = e
    BY <2>1, <2>2, <2>4 DEF Entry
  <2>6. sources'[q] = [enabled |-> TRUE, error |-> e]
    BY <2>5 DEF Entry
  <2> QED BY <2>5, <2>6, NothingFacts DEF e
<1>7. Stages'
  BY <1>1 DEF Stages, NoJob
<1>8. LoadedWith(q, disk[q])'
  BY <1>1, <1>3, <1>4, <1>5, <1>6, PathFacts DEF LoadedWith
<1> QED BY <1>1, <1>3, <1>4, <1>5, <1>6, <1>7, <1>8, LoadGoesOn

\* A removal leaves nothing of the file, and what has taken its place is loaded after it.
LEMMA LiveRemoveStep ==
  ASSUME IInv, LiveRemove
  PROVE  TablesAgree' /\ FilesInv'
<1> DEFINE x == Head(syncQueue)
<1>1. EngineType /\ syncQueue \in Seq(Thunk) /\ syncQueue # <<>> /\ x.op = "remove"
  BY DEF IInv, TypeOK, EngineType, LiveRemove
<1>2. x \in Thunk
  BY <1>1, TailFacts
<1>3. PICK q \in Paths : q = x.path
  BY <1>1, <1>2 DEF Thunk
<1>4. PICK h \in Keys : h = Virtual(q)
  BY PathFacts
<1>91. job = NoJob /\ UNCHANGED <<disk, events, job, clashed, raced>>
  BY DEF LiveRemove
<1>92. syncQueue' = Tail(syncQueue)
  BY DEF LiveRemove
<1>93. hash' = [hash EXCEPT ![h] = Nothing]
  BY <1>3, <1>4 DEF LiveRemove
<1>94. /\ running' = [running EXCEPT ![q] = Nothing]
       /\ sources' = [sources EXCEPT ![q] = Nothing]
  BY <1>3 DEF LiveRemove, Cleanups
<1>95. editable' = IF UnderRoot(q) /\ sources[q] # Nothing
                   THEN [editable EXCEPT ![Name(q)] = Nothing] ELSE editable
  BY <1>3 DEF LiveRemove
<1>96. /\ sources \in [Paths -> Entry \cup {Nothing}]
      /\ running \in [Paths -> Contents \cup {Nothing}]
      /\ hash \in [Keys -> Contents \cup {Nothing}]
      /\ editable \in [Scripts -> Paths \cup {Nothing}]
  BY <1>1 DEF EngineType
<1>5. /\ \A p : LoadIn(syncQueue, p) <=> LoadIn(syncQueue', p)
      /\ \A p : RemoveOfIn(syncQueue, p) <=> RemoveOfIn(syncQueue', p) \/ q = p
      /\ \A k : RemoveIn(syncQueue, k) <=> RemoveIn(syncQueue', k) \/ h = k
      /\ \A k, p, b : Ordered(syncQueue, k, p, b) => Ordered(syncQueue', k, p, b)
      /\ \A k, p, b : Ordered(syncQueue, k, p, b) /\ h = k => b \/ LoadIn(syncQueue', p)
  BY <1>1, <1>3, <1>4, <1>91, <1>92, <1>93, <1>94, <1>95, TailFacts
<1> HIDE DEF x
<1>6. /\ hash'[h] = Nothing /\ \A k \in Keys \ {h} : hash'[k] = hash[k]
      /\ running'[q] = Nothing /\ sources'[q] = Nothing
      /\ \A p \in Paths \ {q} : running'[p] = running[p] /\ sources'[p] = sources[p]
      /\ \A n \in Scripts : editable'[n] \in {editable[n], Nothing}
      /\ \A n \in Scripts : (UnderRoot(q) /\ n = Name(q)) \/ editable'[n] = editable[n]
      /\ UnderRoot(q) /\ sources[q] # Nothing => editable'[Name(q)] = Nothing
  BY <1>4, <1>91, <1>92, <1>93, <1>94, <1>95, <1>96, PathFacts
<1>7. job.step = "idle" /\ \A p \in Paths : ~ Busy(p) /\ ~ Busy(p)' /\ job.path # p
  BY <1>1, <1>91, <1>92, <1>93, <1>94, <1>95, JobFacts DEF Busy
<1>8. \A n \in Scripts : editable'[n] # q /\ (editable'[n] # Nothing => editable'[n] \in Paths)
  <2> SUFFICES ASSUME NEW n \in Scripts, editable'[n] = q PROVE FALSE
    BY <1>6, <1>96
  <2>1. editable[n] = q /\ q # Nothing
    BY <1>6, NothingFacts
  <2>2. Name(q) = n /\ sources[q] # Nothing
    BY <1>7, <2>1 DEF IInv, TablesAgree
  <2> QED BY <1>4, <1>6, <2>1, <2>2, PathFacts, NothingFacts DEF UnderRoot
<1>9. /\ \A p : Single(p)' <=> Single(p)
      /\ \A p \in Paths : LoadPending(p)' <=> LoadPending(p)
      /\ \A p \in Paths \ {q} : RemovalOf(p) => RemovalOf(p)'
      /\ \A k \in Keys \ {h} : RemovalPending(k) => RemovalPending(k)'
  BY <1>91, <1>92, <1>93, <1>94, <1>95, <1>5 DEF Single, LoadPending, RemovalOf, RemovalPending
<1>10. TablesAgree'
  <2>1. ASSUME NEW p \in Paths, running'[p] # Nothing
        PROVE  sources'[p] # Nothing /\ Enabled(p)
    BY <1>6, <2>1 DEF IInv, TablesAgree
  <2>2. ASSUME NEW n \in Scripts, editable'[n] # Nothing
        PROVE  Name(editable'[n]) = n /\ sources'[editable'[n]] # Nothing
    BY <1>6, <1>7, <1>8, <2>2 DEF IInv, TablesAgree
  <2> QED BY <2>1, <2>2 DEF TablesAgree
<1>11. Stages' /\ ClashesNoted'
  BY <1>91, <1>92, <1>93, <1>94, <1>95, <1>7 DEF IInv, FilesInv, Stages, ClashesNoted
<1>12. AbsentGone'
  <2>1. Gone(q)'
    BY <1>4, <1>6, <1>8, PathFacts DEF Gone
  <2>2. \A p \in Paths \ {q} : Gone(p) => Gone(p)'
    BY <1>6, PathFacts, NothingFacts DEF Gone
  <2> QED BY <1>91, <1>92, <1>93, <1>94, <1>95, <1>7, <1>9, <2>1, <2>2
             DEF IInv, FilesInv, AbsentGone
<1>13. LoadsLast'
  BY <1>91, <1>92, <1>93, <1>94, <1>95, <1>5, <1>9 DEF IInv, FilesInv, LoadsLast
<1>14. HashHasFile'
  BY <1>91, <1>92, <1>93, <1>94, <1>95, <1>6, <1>9 DEF IInv, FilesInv, HashHasFile
<1>15. HashWhileBusy'
  BY <1>7 DEF HashWhileBusy
<1>16. LoadedAsHash'
  <2> SUFFICES ASSUME NEW p \in Paths, Single(p), p \notin raced, hash'[Virtual(p)] # Nothing,
                      ~ RemovalPending(Virtual(p))'
               PROVE  LoadedWith(p, hash[Virtual(p)])' /\ Virtual(p) # h
    BY <1>91, <1>92, <1>93, <1>94, <1>95, <1>6, <1>9, PathFacts DEF LoadedAsHash, LoadedWith
  <2>1. Virtual(p) \in Keys \ {h} /\ p # q
    BY <1>4, <1>6, PathFacts
  <2>2. LoadedWith(p, hash[Virtual(p)])
    BY <1>6, <1>7, <1>9, <2>1 DEF IInv, FilesInv, LoadedAsHash
  <2>3. UnderRoot(p) => editable'[Name(p)] = editable[Name(p)]
    BY <1>4, <1>6, <2>1, PathFacts
  <2>4. hash'[Virtual(p)] = hash[Virtual(p)]
    BY <1>6, <2>1
  <2> QED BY <1>6, <2>1, <2>2, <2>3, <2>4 DEF LoadedWith
<1>17. HashAsDisk'
  <2> SUFFICES ASSUME NEW p \in Paths, Single(p), p \notin raced, ~ LoadPending(p)
               PROVE  hash'[Virtual(p)] = disk[p]
    BY <1>91, <1>92, <1>93, <1>94, <1>95, <1>9 DEF HashAsDisk
  <2>1. ASSUME Virtual(p) = h PROVE FALSE
    <3>1. LoadIn(events, p) = FALSE /\ ~ LoadIn(syncQueue', p)
      BY <1>5 DEF LoadPending, LoadIn
    <3>2. Ordered(syncQueue, h, p, LoadIn(events, p))
      BY <2>1 DEF IInv, FilesInv, LoadsLast
    <3>3. Ordered(syncQueue, h, p, FALSE)
      BY <3>1, <3>2
    <3> QED BY <1>5, <3>1, <3>3
  <2> QED BY <1>6, <1>7, <2>1, PathFacts DEF IInv, FilesInv, HashAsDisk
<1> QED BY <1>10, <1>11, <1>12, <1>13, <1>14, <1>15, <1>16, <1>17 DEF FilesInv


-----------------------------------------------------------------------------
(* Starting the process *)

\* There are finitely many files.
LEMMA PathsFinite == IsFiniteSet(Paths)
<1>1. IsFiniteSet(BOOLEAN) /\ IsFiniteSet({TRUE})
  <2>1. BOOLEAN = {TRUE} \cup {FALSE}
    OBVIOUS
  <2>2. IsFiniteSet({TRUE}) /\ IsFiniteSet({FALSE})
    BY FS_Singleton
  <2>3. IsFiniteSet({TRUE} \cup {FALSE})
    BY <2>2, FS_Union
  <2> QED BY <2>1, <2>2, <2>3
<1>2. IsFiniteSet(Scripts \X BOOLEAN) /\ IsFiniteSet(SystemFiles \X {TRUE})
  BY <1>1, FilesAssumption, FS_Product
<1> QED BY <1>2, FS_Union DEF Paths

\* main loads every file there is.
LEMMA LoadsOfFacts ==
  ASSUME NEW P \in SUBSET Paths, NEW s \in LoadsOf(P)
  PROVE  /\ s \in Seq(FileEvent) /\ \A p \in P : LoadIn(s, p)
         /\ \A i \in DOMAIN s : s[i].op # "remove"
<1> DEFINE n == Cardinality(P)
<1>1. n \in Nat
  BY PathsFinite, FS_Subset, FS_CardinalityType
<1> HIDE DEF n
<1>2. PICK t \in Bijection(1 .. n, P) : s = [i \in DOMAIN t |-> LoadEvent(t[i])]
  BY DEF LoadsOf, n
<1>3. t \in [1 .. n -> P] /\ \A p \in P : \E i \in 1 .. n : t[i] = p
  BY <1>2 DEF Bijection, Injection, Surjection
<1>4. \A i \in 1 .. n : LoadEvent(t[i]) \in FileEvent
  BY <1>3 DEF LoadEvent, FileEvent
<1>5. s \in [1 .. n -> FileEvent] /\ \A i \in 1 .. n : s[i] = LoadEvent(t[i])
  BY <1>2, <1>3, <1>4
<1>6. s \in Seq(FileEvent)
  BY <1>1, <1>5
<1>7. \A i \in 1 .. n : s[i].op = "load" /\ s[i].path = t[i]
  BY <1>5 DEF LoadEvent
<1> QED BY <1>3, <1>5, <1>6, <1>7 DEF LoadIn

\* A process that has just been started
Fresh ==
  /\ disk \in [Paths -> Contents \cup {Nothing}] /\ events \in LoadsOf(Present(disk))
  /\ watching = FALSE /\ syncQueue = <<>> /\ job = NoJob
  /\ hash = [k \in Keys |-> Nothing]
  /\ sources = [p \in Paths |-> Nothing]
  /\ editable = [n \in Scripts |-> Nothing]
  /\ running = [p \in Paths |-> Nothing]
  /\ booting = TRUE /\ call = NoCall
  /\ clashed = Clashes(disk) /\ raced = {}
  /\ left \in 0 .. MaxOps

\* knows nothing and will load all.
LEMMA FreshInv == Fresh => IInv
<1> SUFFICES ASSUME Fresh PROVE IInv
  OBVIOUS
<1>1. /\ events \in Seq(FileEvent) /\ \A i \in DOMAIN events : events[i].op # "remove"
      /\ \A p \in Paths : disk[p] # Nothing => LoadIn(events, p)
  <2>1. Present(disk) \in SUBSET Paths /\ events \in LoadsOf(Present(disk))
    BY DEF Fresh, Present
  <2> QED BY <2>1, LoadsOfFacts DEF Present
<1>2. Clashes(disk) \subseteq Keys
  BY PathFacts DEF Clashes, Present
<1>3. FilesType
  BY <1>1, <1>2 DEF Fresh, FilesType
<1>4. EngineType
  BY DEF Fresh, EngineType
<1>5. CallType
  BY DEF Fresh, CallType
<1>6. TablesAgree
  BY DEF Fresh, TablesAgree
<1>7. \A p \in Paths : job.path # p /\ ~ Busy(p) /\ Virtual(p) \in Keys
  BY <1>4, JobFacts, PathFacts, NothingFacts DEF Fresh, Busy
<1>8. Stages /\ ClashesNoted
  BY DEF Fresh, Stages, NoJob, ClashesNoted
<1>9. \A p \in Paths : Gone(p)
  BY PathFacts, NothingFacts DEF Fresh, Gone
<1>10. AbsentGone
  BY <1>7, <1>9 DEF AbsentGone
<1>11. LoadsLast
  BY <1>1 DEF Fresh, LoadsLast, Ordered
<1>12. HashHasFile /\ HashWhileBusy
  BY <1>7 DEF Fresh, HashHasFile, HashWhileBusy
<1>13. LoadedAsHash
  BY <1>7 DEF Fresh, LoadedAsHash
<1>14. HashAsDisk
  BY <1>1 DEF HashAsDisk, LoadPending, Single
<1> QED BY <1>3, <1>4, <1>5, <1>6, <1>8, <1>10, <1>11, <1>12, <1>13, <1>14
        DEF IInv, TypeOK, FilesInv

\* The process is started with any of the disks.
LEMMA InitInv == Init => IInv
<1>1. Init => Fresh
  BY FilesAssumption DEF Init, Fresh
<1> QED BY <1>1, FreshInv

\* It is started again.
LEMMA RestartStep ==
  IInv /\ (Restart \/ ListPanics) => IInv'
<1>1. IInv /\ (Restart \/ ListPanics) => Fresh'
  <2> SUFFICES ASSUME IInv, Restart \/ ListPanics PROVE Fresh'
    OBVIOUS
  <2>1. Started(disk) /\ disk' = disk /\ left' = left - 1 /\ left > 0
    BY DEF Restart, ListPanics
  <2>2. disk \in [Paths -> Contents \cup {Nothing}] /\ left' \in 0 .. MaxOps
    BY <2>1, FilesAssumption DEF IInv, TypeOK, FilesType
  <2> QED BY <2>1, <2>2 DEF Started, Fresh
<1>2. Fresh' => IInv'
  BY FreshInv, PTL
<1> QED BY <1>1, <1>2


-----------------------------------------------------------------------------
(* Type correctness *)

\* New files and their events
LEMMA DiskType ==
  ASSUME FilesType, NEW d \in [Paths -> Contents \cup {Nothing}],
         NEW es \in Seq(FileEvent), Disk(d, es), watching' \in BOOLEAN,
         booting' \in BOOLEAN, left' \in 0 .. MaxOps
  PROVE  FilesType'
<1>1. Clashes(d) \subseteq Keys
  BY PathFacts DEF Clashes, Present
<1>2. clashed' \subseteq Keys /\ raced' \subseteq Paths
  BY <1>1 DEF Disk, FilesType
<1>3. events' \in Seq(FileEvent) /\ disk' = d
  BY DEF Disk, FilesType
<1> QED BY <1>2, <1>3 DEF FilesType

\* A thunk more and a thunk less
LEMMA QueueType ==
  ASSUME EngineType, NEW p \in Paths
  PROVE  /\ \A op \in {"load", "remove"} : Queue(op, p, Nothing) \in Seq(Thunk)
         /\ \A c \in Contents : Queue("save", p, c) \in Seq(Thunk)
         /\ syncQueue # <<>> => /\ Tail(syncQueue) \in Seq(Thunk)
                                /\ Head(syncQueue) \in Thunk
                                /\ Head(syncQueue).path \in Paths
<1>1. /\ \A op \in {"load", "remove"} : [op |-> op, path |-> p, content |-> Nothing] \in Thunk
      /\ \A c \in Contents : [op |-> "save", path |-> p, content |-> c] \in Thunk
  BY DEF Thunk
<1>2. syncQueue \in Seq(Thunk)
  BY DEF EngineType
<1>3. \A x \in Thunk : Append(syncQueue, x) \in Seq(Thunk)
  BY <1>2
<1>4. syncQueue # <<>> => Tail(syncQueue) \in Seq(Thunk) /\ Head(syncQueue) \in Thunk
  BY <1>2
<1>5. \A x \in Thunk : x.path \in Paths
  BY DEF Thunk
<1> QED BY <1>1, <1>3, <1>4, <1>5 DEF Queue

\* The watcher's steps
LEMMA WatcherTypes ==
  ASSUME TypeOK, Watcher
  PROVE  TypeOK'
<1>1. CASE WatcherLoads \/ WatcherRemoves
  <2>1. /\ events # <<>> /\ events' = Tail(events) /\ watching' \in BOOLEAN
        /\ \/ syncQueue' = Queue("load", Head(events).path, Nothing)
           \/ syncQueue' = Queue("remove", Head(events).path, Nothing)
        /\ UNCHANGED <<disk, job, hash, sources, editable, running, booting, call, left,
                       clashed, raced>>
    BY <1>1 DEF WatcherLoads, WatcherRemoves, TypeOK, FilesType
  <2>2. events' \in Seq(FileEvent) /\ Head(events) \in FileEvent
    BY <2>1 DEF TypeOK, FilesType
  <2>3. Head(events).path \in Paths
    BY <2>2 DEF FileEvent
  <2>4. syncQueue' \in Seq(Thunk)
    BY <2>1, <2>3, QueueType DEF TypeOK
  <2> QED BY <2>1, <2>2, <2>4 DEF TypeOK, FilesType, EngineType, CallType
<1>2. CASE BootEnds
  BY <1>2 DEF BootEnds, engineState, TypeOK, FilesType, EngineType, CallType
<1> QED BY <1>1, <1>2 DEF Watcher

\* A load is over, or goes on.
LEMMA ReplyType ==
  ASSUME TypeOK, Reply
  PROVE  job' = NoJob /\ watching' \in BOOLEAN /\ CallType'
BY DEF Reply, TypeOK, FilesType, CallType

\* The sync loop's steps
LEMMA SyncLoopTypes ==
  ASSUME TypeOK, Stages, SyncLoop
  PROVE  TypeOK'
<1> USE DEF TypeOK
<1>1. job # NoJob => job.path \in Paths /\ job.save \in BOOLEAN
  BY JobFacts
<1>2. job.step # "idle" => /\ job.path \in Paths /\ Virtual(job.path) \in Keys
                           /\ UnderRoot(job.path) => Name(job.path) \in Scripts
  BY JobFacts, PathFacts
<1>3. \A p \in Paths : syncQueue # <<>> => /\ Tail(syncQueue) \in Seq(Thunk)
                                           /\ Head(syncQueue) \in Thunk
                                           /\ Head(syncQueue).path \in Paths
  BY QueueType
<1>4. syncQueue # <<>> => Head(syncQueue).path \in Paths
  BY DEF EngineType, Thunk
<1>5. CASE BeginLoad
  <2>1. Tail(syncQueue) \in Seq(Thunk) /\ Head(syncQueue).path \in Paths
    BY <1>3, <1>4, <1>5 DEF BeginLoad
  <2> QED BY <1>5, <2>1 DEF BeginLoad, FilesType, EngineType, CallType
<1>6. CASE BeginSave
  <2> DEFINE p == Head(syncQueue).path
             c == Head(syncQueue).content
  <2>1. Tail(syncQueue) \in Seq(Thunk) /\ p \in Paths /\ Head(syncQueue) \in Thunk
    BY <1>3, <1>4, <1>6 DEF BeginSave
  <2>2. c \in Contents
    BY <1>6, <2>1 DEF BeginSave, Thunk
  <2> HIDE DEF p, c
  <2>3. [disk EXCEPT ![p] = c] \in [Paths -> Contents \cup {Nothing}]
    BY <2>1, <2>2 DEF FilesType
  <2>4. <<LoadEvent(p)>> \in Seq(FileEvent)
    BY <2>1 DEF LoadEvent, FileEvent
  <2>5. /\ Disk([disk EXCEPT ![p] = c], <<LoadEvent(p)>>)
        /\ job' = [step |-> "track", path |-> p, save |-> TRUE]
        /\ syncQueue' = Tail(syncQueue)
        /\ UNCHANGED <<watching, hash, sources, editable, running, booting, call, left>>
    BY <1>6 DEF BeginSave, p, c
  <2>6. FilesType'
    BY <2>3, <2>4, <2>5, DiskType DEF FilesType
  <2> QED BY <2>1, <2>5, <2>6 DEF EngineType, CallType
<1>7. CASE SaveFails
  <2>1. Tail(syncQueue) \in Seq(Thunk)
    BY <1>3, <1>4, <1>7 DEF SaveFails
  <2> QED BY <1>7, <2>1 DEF SaveFails, FilesType, EngineType, CallType
<1>8. CASE NothingToLoad
  <2>1. job' = NoJob /\ watching' \in BOOLEAN /\ CallType'
    BY <1>8, ReplyType DEF NothingToLoad
  <2> QED BY <1>8, <2>1 DEF NothingToLoad, FilesType, EngineType
<1>9. CASE Track
  <2>1. disk[job.path] \in Contents \cup {Nothing} /\ job \in [step: {"track"}, path: Paths,
                                                               save: BOOLEAN]
    BY <1>9, <1>2, JobFacts DEF Track, FilesType, NoJob
  <2>2. job' \in [step: {"clean"}, path: Paths, save: BOOLEAN]
    BY <1>9, <2>1 DEF Track
  <2>3. hash' \in [Keys -> Contents \cup {Nothing}]
    BY <1>9, <2>1 DEF Track, EngineType
  <2> QED BY <1>9, <2>2, <2>3 DEF Track, FilesType, EngineType, CallType
<1>10. CASE CleanUp
  <2>1. job \in [step: {"clean"}, path: Paths, save: BOOLEAN]
    BY <1>10, JobFacts DEF CleanUp, NoJob
  <2>2. job' \in [step: {"register"}, path: Paths, save: BOOLEAN]
    BY <1>10, <2>1 DEF CleanUp
  <2>3. editable' \in [Scripts -> Paths \cup {Nothing}]
    BY <1>10, <2>1 DEF CleanUp, EngineType
  <2>4. /\ running' \in [Paths -> Contents \cup {Nothing}]
        /\ sources' \in [Paths -> Entry \cup {Nothing}]
    BY <1>10 DEF CleanUp, Cleanups, EngineType
  <2> QED BY <1>10, <2>2, <2>3, <2>4 DEF CleanUp, FilesType, EngineType, CallType
<1>11. CASE Register
  <2>1. job \in [step: {"register"}, path: Paths, save: BOOLEAN]
    BY <1>11, JobFacts DEF Register, NoJob
  <2>2. sources' \in [Paths -> Entry \cup {Nothing}]
    BY <1>11, <2>1, NothingFacts DEF Register, EngineType
  <2>3. CASE Enabled(job.path)
    <3>1. job' \in [step: {"run"}, path: Paths, save: BOOLEAN]
      BY <1>11, <2>1, <2>3 DEF Register
    <3> QED BY <1>11, <2>2, <2>3, <3>1 DEF Register, FilesType, EngineType, CallType
  <2>4. CASE ~ Enabled(job.path)
    <3>1. job' = NoJob /\ watching' \in BOOLEAN /\ CallType'
      BY <1>11, <2>4, ReplyType DEF Register
    <3> QED BY <1>11, <2>2, <3>1 DEF Register, FilesType, EngineType
  <2> QED BY <2>3, <2>4
<1>12. CASE RunScript
  <2>1. job.path \in Paths
    BY <1>12, <1>2 DEF RunScript
  <2>2. job' = NoJob /\ watching' \in BOOLEAN /\ CallType'
    BY <1>12, ReplyType DEF RunScript
  <2>3. running' \in [Paths -> Contents \cup {Nothing}]
    BY <1>12, <2>1 DEF RunScript, EngineType, FilesType
  <2>4. sources' \in [Paths -> Entry \cup {Nothing}]
    <3> DEFINE b == disk[job.path] \in BadContents
    <3>1. b \in BOOLEAN /\ sources' = [sources EXCEPT ![job.path].error = b]
      BY <1>12 DEF RunScript
    <3>2. sources[job.path] \in Entry
      BY <1>12, <2>1, NothingFacts DEF RunScript, Stages
    <3> HIDE DEF b
    <3>3. [sources[job.path] EXCEPT !.error = b] \in Entry
      BY <3>1, <3>2 DEF Entry
    <3>4. sources' = [sources EXCEPT ![job.path] = [sources[job.path] EXCEPT !.error = b]]
      BY <3>1
    <3> QED BY <2>1, <3>3, <3>4 DEF EngineType
  <2> QED BY <1>12, <2>2, <2>3, <2>4 DEF RunScript, FilesType, EngineType
<1>13. CASE LiveRemove
  <2> DEFINE p == Head(syncQueue).path
  <2>1. Tail(syncQueue) \in Seq(Thunk) /\ p \in Paths
    BY <1>3, <1>4, <1>13 DEF LiveRemove
  <2>2. Virtual(p) \in Keys /\ (UnderRoot(p) => Name(p) \in Scripts)
    BY <2>1, PathFacts
  <2> HIDE DEF p
  <2>3. /\ syncQueue' = Tail(syncQueue) /\ Cleanups(p)
        /\ hash' = [hash EXCEPT ![Virtual(p)] = Nothing]
        /\ \/ editable' = [editable EXCEPT ![Name(p)] = Nothing]
           \/ editable' = editable
        /\ UNCHANGED <<disk, events, watching, job, booting, call, left, clashed, raced>>
    BY <1>13 DEF LiveRemove, p
  <2>4. /\ hash' \in [Keys -> Contents \cup {Nothing}]
        /\ editable' \in [Scripts -> Paths \cup {Nothing}]
    BY <2>3 DEF EngineType
  <2>5. /\ running' \in [Paths -> Contents \cup {Nothing}]
        /\ sources' \in [Paths -> Entry \cup {Nothing}]
    BY <2>3 DEF Cleanups, EngineType
  <2> QED BY <2>1, <2>3, <2>4, <2>5 DEF FilesType, EngineType, CallType
<1> QED BY <1>5, <1>6, <1>7, <1>8, <1>9, <1>10, <1>11, <1>12, <1>13 DEF SyncLoop

\* A call arrives.
LEMMA EditorCallsTypes ==
  ASSUME TypeOK, EditorCalls
  PROVE  TypeOK'
<1>1. PICK step, p, q, c :
        /\ Called(step, p, q, c)
        /\ \/ step = "save" /\ p \in Paths /\ q = Nothing /\ c \in Contents
           \/ step = "delete" /\ p \in Paths /\ q = Nothing /\ c = Nothing
           \/ step = "stat" /\ p \in Paths /\ q \in Paths /\ c = Nothing
  <2>1. CASE \E n \in Scripts, c \in Contents : CallSave(n, c)
    <3>1. PICK n \in Scripts, c \in Contents : CallSave(n, c)
      BY <2>1
    <3>2. /\ <<n, TRUE>> \in Paths
          /\ editable[n] # Nothing => editable[n] \in Paths
      BY DEF Paths, TypeOK, EngineType
    <3>3. \E p \in Paths : Called("save", p, Nothing, c)
      BY <3>1, <3>2 DEF CallSave
    <3> QED BY <3>3
  <2>2. CASE \E n \in Scripts : CallRemove(n)
    <3>1. PICK n \in Scripts : CallRemove(n)
      BY <2>2
    <3>2. editable[n] \in Paths /\ Called("delete", editable[n], Nothing, Nothing)
      BY <3>1 DEF CallRemove, TypeOK, EngineType
    <3> QED BY <3>2
  <2>3. CASE \E n \in Scripts, on \in BOOLEAN : CallChangeState(n, on)
    <3>1. PICK n \in Scripts, on \in BOOLEAN : CallChangeState(n, on)
      BY <2>3
    <3>2. /\ editable[n] \in Paths /\ <<n, on>> \in Paths
          /\ Called("stat", editable[n], <<n, on>>, Nothing)
      BY <3>1 DEF CallChangeState, TypeOK, EngineType, Paths
    <3> QED BY <3>2
  <2>4. CASE \E n, m \in Scripts : CallRename(n, m)
    <3>1. PICK n \in Scripts, m \in Scripts : CallRename(n, m)
      BY <2>4
    <3>2. editable[n] \in Paths /\ Called("stat", editable[n], <<m, Enabled(editable[n])>>,
                                          Nothing)
      BY <3>1 DEF CallRename, TypeOK, EngineType
    <3>3. <<m, Enabled(editable[n])>> \in Paths
      BY <3>2, PathFacts DEF Paths
    <3> QED BY <3>2, <3>3
  <2> QED BY <2>1, <2>2, <2>3, <2>4 DEF EditorCalls
<1>2. /\ call' = [step |-> step, path |-> p, to |-> q, content |-> c]
      /\ left' = left - 1 /\ left > 0
      /\ UNCHANGED <<disk, events, watching, engineState, booting, clashed, raced>>
  BY <1>1 DEF Called
<1>3. CallType'
  BY <1>1, <1>2 DEF CallType
<1>4. left' \in 0 .. MaxOps
  BY <1>2, FilesAssumption DEF TypeOK, FilesType
<1> QED BY <1>2, <1>3, <1>4 DEF TypeOK, FilesType, EngineType, engineState

\* It is worked on.
LEMMA EditorStepsTypes ==
  ASSUME TypeOK, EditorSteps
  PROVE  TypeOK'
<1> USE DEF TypeOK
<1>1. CASE WriteScript
  <2>1. call \in [step: {"save"}, path: Paths, to: {Nothing}, content: Contents]
    BY <1>1 DEF WriteScript, CallType, NoCall
  <2>2. call.path \in Paths /\ call.content \in Contents
    BY <2>1
  <2>3. syncQueue' \in Seq(Thunk)
    BY <1>1, <2>2, QueueType DEF WriteScript
  <2>4. call' \in [step: {"wait"}, path: Paths, to: {Nothing}, content: Contents]
    BY <1>1, <2>1 DEF WriteScript
  <2> QED BY <1>1, <2>3, <2>4 DEF WriteScript, FilesType, EngineType, CallType
<1>2. CASE DeleteFile
  <2>1. call.path \in Paths
    BY <1>2 DEF DeleteFile, CallType, NoCall
  <2>2. /\ [disk EXCEPT ![call.path] = Nothing] \in [Paths -> Contents \cup {Nothing}]
        /\ <<RemoveEvent(call.path)>> \in Seq(FileEvent)
    BY <2>1 DEF FilesType, RemoveEvent, FileEvent
  <2>3. FilesType'
    <3>1. CASE disk[call.path] = Nothing
      BY <1>2, <3>1 DEF DeleteFile, FilesType
    <3>2. CASE disk[call.path] # Nothing
      BY <1>2, <2>2, <3>2, DiskType DEF DeleteFile, FilesType
    <3> QED BY <3>1, <3>2
  <2> QED BY <1>2, <2>3 DEF DeleteFile, Answer, EngineType, CallType, engineState
<1>3. CASE StatTarget
  <2>1. call \in [step: {"stat"}, path: Paths, to: Paths, content: {Nothing}]
    BY <1>3 DEF StatTarget, CallType, NoCall
  <2>2. call' = NoCall \/ call' \in [step: {"move"}, path: Paths, to: Paths,
                                     content: {Nothing}]
    BY <1>3, <2>1 DEF StatTarget, Answer
  <2> QED BY <1>3, <2>2 DEF StatTarget, FilesType, EngineType, CallType, engineState
<1>4. CASE MoveFile
  <2>1. call.path \in Paths /\ call.to \in Paths
    BY <1>4 DEF MoveFile, CallType, NoCall
  <2> DEFINE d == [disk EXCEPT ![call.to] = disk[call.path], ![call.path] = Nothing]
             es == <<RemoveEvent(call.path), LoadEvent(call.to)>>
  <2>2. d \in [Paths -> Contents \cup {Nothing}] /\ es \in Seq(FileEvent)
    BY <2>1 DEF FilesType, RemoveEvent, LoadEvent, FileEvent
  <2>3. UNCHANGED <<disk, events, clashed, raced>> \/ Disk(d, es)
    BY <1>4 DEF MoveFile
  <2> HIDE DEF d, es
  <2>4. FilesType'
    <3>1. CASE UNCHANGED <<disk, events, clashed, raced>>
      BY <1>4, <3>1 DEF MoveFile, FilesType
    <3>2. CASE Disk(d, es)
      BY <1>4, <2>2, <3>2, DiskType DEF MoveFile, FilesType
    <3> QED BY <2>3, <3>1, <3>2
  <2> QED BY <1>4, <2>4 DEF MoveFile, Answer, EngineType, CallType, engineState
<1> QED BY <1>1, <1>2, <1>3, <1>4 DEF EditorSteps

\* Somebody writes or deletes a file.
LEMMA ByHandTypes ==
  ASSUME TypeOK, (\E p \in Paths, c \in Contents : WriteByHand(p, c))
                 \/ \E p \in Paths : DeleteByHand(p)
  PROVE  TypeOK'
<1>1. PICK d \in [Paths -> Contents \cup {Nothing}], es \in Seq(FileEvent) :
        /\ Disk(d, es) /\ left > 0 /\ left' = left - 1
        /\ UNCHANGED <<watching, engineState, booting, call>>
  <2>1. ASSUME NEW p \in Paths
        PROVE  /\ \A c \in Contents \cup {Nothing} :
                    [disk EXCEPT ![p] = c] \in [Paths -> Contents \cup {Nothing}]
               /\ <<LoadEvent(p)>> \in Seq(FileEvent) /\ <<RemoveEvent(p)>> \in Seq(FileEvent)
    BY DEF TypeOK, FilesType, LoadEvent, RemoveEvent, FileEvent
  <2>2. CASE \E p \in Paths, c \in Contents : WriteByHand(p, c)
    BY <2>1, <2>2 DEF WriteByHand
  <2>3. CASE \E p \in Paths : DeleteByHand(p)
    BY <2>1, <2>3 DEF DeleteByHand
  <2> QED BY <2>2, <2>3
<1>2. left' \in 0 .. MaxOps
  BY <1>1, FilesAssumption DEF TypeOK, FilesType
<1>3. FilesType'
  BY <1>1, <1>2, DiskType DEF TypeOK, FilesType
<1> QED BY <1>1, <1>3 DEF TypeOK, EngineType, CallType, engineState

-----------------------------------------------------------------------------
(* The theorems *)

\* Every step keeps the types.
LEMMA TypeStep ==
  ASSUME IInv, Next, ~ Restart, ~ ListPanics
  PROVE  TypeOK'
<1>1. TypeOK /\ Stages
  BY DEF IInv, FilesInv
<1>2. \/ Watcher \/ SyncLoop \/ EditorCalls \/ EditorSteps
      \/ (\E p \in Paths, c \in Contents : WriteByHand(p, c))
      \/ \E p \in Paths : DeleteByHand(p)
  BY DEF Next, Others
<1> QED BY <1>1, <1>2, WatcherTypes, SyncLoopTypes, EditorCallsTypes, EditorStepsTypes,
           ByHandTypes

\* Every step keeps the tables and the engine in line with the files.
LEMMA FilesStep ==
  ASSUME IInv, Next, ~ Restart, ~ ListPanics
  PROVE  TablesAgree' /\ FilesInv'
<1>1. TablesAgree /\ FilesInv
  BY DEF IInv
<1>2. CASE BootEnds \/ EditorCalls \/ StatTarget
  <2>1. UNCHANGED <<disk, events, engineState, clashed, raced>>
    BY <1>2 DEF BootEnds, EditorCalls, CallSave, CallRemove, CallChangeState, CallRename,
                Called, StatTarget
  <2> QED BY <1>1, <2>1, Same
<1>3. CASE WatcherLoads \/ WatcherRemoves
  BY <1>3, WatcherStep
<1>4. CASE WriteScript \/ SaveFails
  BY <1>4, SaveQueueStep
<1>5. CASE \/ \E p \in Paths, c \in Contents : WriteByHand(p, c)
           \/ \E p \in Paths : DeleteByHand(p)
           \/ DeleteFile \/ MoveFile \/ BeginSave
  BY <1>5, FileSteps
<1>6. CASE BeginLoad \/ NothingToLoad \/ Track
  BY <1>6, BeginLoadStep, NothingToLoadStep, TrackStep
<1>7. CASE CleanUp \/ Register \/ RunScript \/ LiveRemove
  BY <1>7, CleanUpStep, RegisterStep, RunScriptStep, LiveRemoveStep
<1> QED BY <1>2, <1>3, <1>4, <1>5, <1>6, <1>7
        DEF Next, Watcher, SyncLoop, EditorSteps, Others

\* Every step keeps the invariant.
LEMMA NextInv == IInv /\ [Next]_vars => IInv'
<1> SUFFICES ASSUME IInv, [Next]_vars PROVE IInv'
  OBVIOUS
<1>1. CASE Restart \/ ListPanics
  BY <1>1, RestartStep
<1>2. CASE Next /\ ~ Restart /\ ~ ListPanics
  BY <1>2, TypeStep, FilesStep DEF IInv
<1>3. CASE UNCHANGED vars
  <2>1. TablesAgree /\ FilesInv /\ UNCHANGED <<disk, events, engineState, clashed, raced>>
    BY <1>3 DEF vars, IInv
  <2>2. TablesAgree' /\ FilesInv'
    BY <2>1, Same
  <2>3. TypeOK'
    BY <1>3 DEF vars, engineState, IInv, TypeOK, FilesType, EngineType, CallType
  <2> QED BY <2>2, <2>3 DEF IInv
<1> QED BY <1>1, <1>2, <1>3

\* The invariant holds at all times.
LEMMA Invariance == Spec => []IInv
<1>1. Init => IInv
  BY InitInv
<1>2. IInv /\ [Next]_vars => IInv'
  BY NextInv
<1> QED BY <1>1, <1>2, PTL DEF Spec

\* All variables keep their types.
THEOREM TypeCorrect == Spec => []TypeOK
<1>1. IInv => TypeOK
  BY DEF IInv
<1> QED BY <1>1, Invariance, PTL

\* A script that is alive has an entry, and editableSources leads to one of its path.
THEOREM EntriesAgree == Spec => []TablesAgree
<1>1. IInv => TablesAgree
  BY DEF IInv
<1> QED BY <1>1, Invariance, PTL

\* When all is done, the engine has loaded what the files hold.
THEOREM EngineFollowsFiles == Spec => []LoadedAsOnDisk
<1>1. IInv => LoadedAsOnDisk
  <2> SUFFICES ASSUME IInv, Quiet, NEW p \in Paths, Virtual(p) \notin clashed, p \notin raced
               PROVE  InSync(p)
    BY DEF LoadedAsOnDisk
  <2>1. events = <<>> /\ syncQueue = <<>> /\ job = NoJob /\ EngineType
    BY DEF Quiet, IInv, TypeOK
  <2>2. job.path # p /\ ~ Busy(p) /\ ~ LoadPending(p) /\ ~ RemovalOf(p)
        /\ ~ RemovalPending(Virtual(p))
    BY <2>1, JobFacts DEF Busy, LoadPending, RemovalOf, RemovalPending, LoadIn, RemoveIn,
                          RemoveOfIn
  <2>3. CASE disk[p] = Nothing
    BY <2>2, <2>3 DEF IInv, FilesInv, AbsentGone, Gone, InSync
  <2>4. CASE disk[p] # Nothing
    <3>1. Single(p)
      BY <2>4 DEF Single
    <3>2. hash[Virtual(p)] = disk[p]
      BY <2>2, <3>1 DEF IInv, FilesInv, HashAsDisk
    <3>3. LoadedWith(p, disk[p])
      BY <2>2, <2>4, <3>1, <3>2 DEF IInv, FilesInv, LoadedAsHash
    <3> QED BY <2>4, <3>3 DEF LoadedWith, InSync
  <2> QED BY <2>3, <2>4
<1> QED BY <1>1, Invariance, PTL

\* The watcher never makes the engine load what it is running.
THEOREM NoReload == Spec => NoIdleReload
<1> DEFINE Idle == /\ job.step = "track" /\ job'.step = "clean" /\ ~ job.save
                   /\ Virtual(job.path) \notin clashed /\ job.path \notin raced
                   /\ hash[Virtual(job.path)] # Nothing
                   /\ ~ RemovalPending(Virtual(job.path))
                   => running[job.path] # disk[job.path]
<1>1. IInv /\ [Next]_vars => [Idle]_vars
  <2> SUFFICES ASSUME IInv, Next, vars' # vars, job.step = "track", job'.step = "clean",
                      ~ job.save, Virtual(job.path) \notin clashed, job.path \notin raced,
                      hash[Virtual(job.path)] # Nothing,
                      ~ RemovalPending(Virtual(job.path))
               PROVE  running[job.path] # disk[job.path]
    OBVIOUS
  <2>1. job' # job /\ job' # NoJob /\ job # NoJob
    BY DEF NoJob
  <2>2. ~ Watcher /\ ~ EditorCalls /\ ~ EditorSteps /\ ~ Others
    <3>1. Watcher \/ EditorCalls \/ EditorSteps => UNCHANGED job
      BY DEF Watcher, WatcherLoads, WatcherRemoves, BootEnds, EditorCalls, CallSave,
             CallRemove, CallChangeState, CallRename, Called, EditorSteps, WriteScript,
             DeleteFile, StatTarget, MoveFile, engineState
    <3>2. Others => UNCHANGED job \/ job' = NoJob
      BY DEF Others, WriteByHand, DeleteByHand, Restart, ListPanics, Started, engineState
    <3> QED BY <2>1, <3>1, <3>2
  <2>3. SyncLoop
    BY <2>2 DEF Next
  <2>4. Track
    BY <2>1, <2>3 DEF SyncLoop, BeginLoad, BeginSave, SaveFails, NothingToLoad, CleanUp,
                      Register, RunScript, LiveRemove, Reply
  <2>5. job.path \in Paths /\ ~ Busy(job.path)
    BY <2>1, JobFacts DEF IInv, TypeOK, Busy
  <2>6. Single(job.path) /\ hash[Virtual(job.path)] # disk[job.path]
    BY <2>4 DEF Track, Single
  <2>7. LoadedWith(job.path, hash[Virtual(job.path)])
    BY <2>5, <2>6 DEF IInv, FilesInv, LoadedAsHash
  <2> QED BY <2>6, <2>7 DEF LoadedWith, Single
<1> QED BY <1>1, Invariance, PTL DEF Spec, NoIdleReload

-----------------------------------------------------------------------------
(* Answers *)

\* S has one element when b holds, and none otherwise.
OneIf(S, b) == IF b THEN \E i : S = {i} ELSE S = {}

\* AnswersOnTheirWay without cardinalities
Awaited ==
  /\ OneIf(Unanswered("load"), watching)
  /\ OneIf(Unanswered("save"), call.step = "wait")
  /\ \A i \in Unanswered("save") : call.path = IF i = 0 THEN job.path ELSE syncQueue[i].path

\* Nothing changes for those who wait.
LEMMA WaitGoesOn ==
  ASSUME Awaited, EngineType, UNCHANGED <<syncQueue, watching>>,
         job' = job \/ (job # NoJob /\ job' # NoJob /\ job'.path = job.path
                        /\ job'.save = job.save),
         call' = call \/ (call.step # "wait" /\ call'.step # "wait")
  PROVE  Awaited'
<1>1. \A op : Unanswered(op)' = Unanswered(op)
  BY DEF Unanswered
<1>2. ~ (call.step = "wait") => Unanswered("save") = {}
  BY DEF Awaited, OneIf
<1>3. call.step = "wait" => call' = call
  OBVIOUS
<1>4. \A i : (IF i = 0 THEN job.path ELSE syncQueue[i].path)'
             = IF i = 0 THEN job.path ELSE syncQueue[i].path
  OBVIOUS
<1> QED BY <1>1, <1>2, <1>3, <1>4 DEF Awaited, OneIf

\* One more thunk at the end of the queue
LEMMA PushFacts ==
  ASSUME EngineType, NEW x, syncQueue' = Append(syncQueue, x), x \in Thunk, job' = job
  PROVE  /\ \A op : Unanswered(op)' = IF x.op = op
                                      THEN Unanswered(op) \cup {Len(syncQueue) + 1}
                                      ELSE Unanswered(op)
         /\ syncQueue'[Len(syncQueue) + 1] = x /\ Len(syncQueue) + 1 # 0
         /\ \A i \in DOMAIN syncQueue : syncQueue'[i] = syncQueue[i]
<1>1. /\ syncQueue \in Seq(Thunk) /\ Len(syncQueue) \in Nat
      /\ DOMAIN syncQueue = 1 .. Len(syncQueue)
      /\ DOMAIN syncQueue' = 1 .. Len(syncQueue) + 1 /\ syncQueue'[Len(syncQueue) + 1] = x
      /\ \A i \in 1 .. Len(syncQueue) : syncQueue'[i] = syncQueue[i]
  BY DEF EngineType
<1>2. \A op, i : i \in Unanswered(op)'
                 <=> i \in Unanswered(op) \/ (x.op = op /\ i = Len(syncQueue) + 1)
  BY <1>1 DEF Unanswered
<1>3. ASSUME NEW op
      PROVE  Unanswered(op)' = IF x.op = op THEN Unanswered(op) \cup {Len(syncQueue) + 1}
                               ELSE Unanswered(op)
  <2>1. CASE x.op = op
    <3>1. Unanswered(op)' = Unanswered(op) \cup {Len(syncQueue) + 1}
      <4>1. \A i : i \in Unanswered(op)'
                  <=> i \in Unanswered(op) \/ i = Len(syncQueue) + 1
        BY <1>2, <2>1
      <4> QED BY <4>1
    <3> QED BY <2>1, <3>1
  <2>2. CASE x.op # op
    <3>1. Unanswered(op)' = Unanswered(op)
      <4>1. \A i : i \in Unanswered(op)' <=> i \in Unanswered(op)
        BY <1>2, <2>2
      <4> QED BY <4>1
    <3> QED BY <2>2, <3>1
  <2> QED BY <2>1, <2>2
<1> QED BY <1>1, <1>3

\* The first thunk is taken from the queue, and is run as job' unless that is over at once.
LEMMA TakeFacts ==
  ASSUME EngineType, job = NoJob, syncQueue # <<>>, syncQueue' = Tail(syncQueue),
         NEW op, NEW k, Unanswered(op) = {k}
  PROVE  /\ Head(syncQueue).op = op => k = 1 /\ Unanswered(op)' \ {0} = {}
         /\ Head(syncQueue).op # op => /\ Unanswered(op)' \ {0} = {k - 1} /\ k - 1 # 0
                                       /\ syncQueue'[k - 1] = syncQueue[k]
<1>1. /\ Len(syncQueue) \in Nat /\ DOMAIN syncQueue = 1 .. Len(syncQueue)
      /\ Len(syncQueue) >= 1 /\ DOMAIN syncQueue' = 1 .. Len(syncQueue) - 1
      /\ Head(syncQueue) = syncQueue[1]
      /\ \A i \in 1 .. Len(syncQueue) - 1 : syncQueue'[i] = syncQueue[i + 1]
  BY DEF EngineType
<1>2. k \in 1 .. Len(syncQueue) /\ syncQueue[k].op = op
  BY <1>1 DEF Unanswered
<1>3. \A i \in 1 .. Len(syncQueue) : syncQueue[i].op = op => i = k
  BY <1>1 DEF Unanswered
<1>4. \A i : i \in Unanswered(op)' \ {0} <=> i \in 1 .. Len(syncQueue) - 1 /\ i + 1 = k
  BY <1>1, <1>2, <1>3 DEF Unanswered
<1>5. CASE Head(syncQueue).op = op
  BY <1>1, <1>2, <1>3, <1>4, <1>5
<1>6. CASE Head(syncQueue).op # op
  <2>1. k # 1 /\ k - 1 \in 1 .. Len(syncQueue) - 1
    BY <1>1, <1>2, <1>6
  <2> QED BY <1>1, <1>2, <1>4, <1>6, <2>1
<1> QED BY <1>5, <1>6

\* Those for whom no thunk is in the queue get none by taking one.
LEMMA TakeNone ==
  ASSUME EngineType, job = NoJob, syncQueue # <<>>, syncQueue' = Tail(syncQueue),
         NEW op, Unanswered(op) = {}
  PROVE  Head(syncQueue).op # op /\ Unanswered(op)' \ {0} = {}
<1>1. /\ Len(syncQueue) \in Nat /\ DOMAIN syncQueue = 1 .. Len(syncQueue)
      /\ Len(syncQueue) >= 1 /\ DOMAIN syncQueue' = 1 .. Len(syncQueue) - 1
      /\ Head(syncQueue) = syncQueue[1]
      /\ \A i \in 1 .. Len(syncQueue) - 1 : syncQueue'[i] = syncQueue[i + 1]
  BY DEF EngineType
<1>2. \A i \in 1 .. Len(syncQueue) : syncQueue[i].op # op
  BY <1>1 DEF Unanswered
<1> QED BY <1>1, <1>2 DEF Unanswered

\* An answer: the job is over, and nobody waits for it any more.
LEMMA ReplyAnswers ==
  ASSUME Awaited, EngineType, job # NoJob, Reply, UNCHANGED syncQueue
  PROVE  Awaited'
<1>1. job' = NoJob /\ job.save \in BOOLEAN
  BY JobFacts DEF Reply
<1>2. /\ 0 \in Unanswered(IF job.save THEN "save" ELSE "load")
      /\ 0 \notin Unanswered(IF job.save THEN "load" ELSE "save")
  BY <1>1 DEF Unanswered, EngineType
<1>3. \A op : Unanswered(op)' = Unanswered(op) \ {0}
  <2>1. \A op, i : i \in Unanswered(op)' <=> i \in Unanswered(op) \ {0}
    BY <1>1 DEF Unanswered, EngineType
  <2> QED BY <2>1
<1>4. CASE job.save
  <2>1. call' = NoCall /\ watching' = watching /\ Unanswered("save")' = {}
    BY <1>2, <1>3, <1>4 DEF Reply, Awaited, OneIf
  <2>2. Unanswered("load")' = Unanswered("load")
    BY <1>2, <1>3, <1>4
  <2> QED BY <2>1, <2>2 DEF Awaited, OneIf, NoCall
<1>5. CASE ~ job.save
  <2>1. watching' = FALSE /\ call' = call /\ Unanswered("load")' = {}
    BY <1>2, <1>3, <1>5 DEF Reply, Awaited, OneIf
  <2>2. Unanswered("save")' = Unanswered("save") /\ 0 \notin Unanswered("save")
    BY <1>2, <1>3, <1>5
  <2> QED BY <2>1, <2>2 DEF Awaited, OneIf
<1> QED BY <1>1, <1>4, <1>5

\* The watcher queues a load and waits for it, or queues a removal.
LEMMA WatcherWaits ==
  ASSUME IInv, Awaited, Watcher
  PROVE  Awaited'
<1>1. EngineType /\ events \in Seq(FileEvent) /\ watching \in BOOLEAN
  BY DEF IInv, TypeOK, FilesType
<1>2. CASE WatcherLoads \/ WatcherRemoves
  <2> DEFINE e == Head(events)
             x == [op |-> e.op, path |-> e.path, content |-> Nothing]
  <2>1. /\ events # <<>> /\ ~ watching /\ e.op \in {"load", "remove"}
        /\ (watching' <=> e.op = "load") /\ syncQueue' = Append(syncQueue, x)
        /\ UNCHANGED <<job, call>>
    BY <1>1, <1>2 DEF WatcherLoads, WatcherRemoves, Queue
  <2>2. e \in FileEvent
    BY <1>1, <2>1
  <2>3. x \in Thunk /\ x.op = e.op
    BY <2>2 DEF FileEvent, Thunk
  <2> HIDE DEF e, x
  <2>4. /\ Unanswered("load")' = IF e.op = "load"
                                 THEN Unanswered("load") \cup {Len(syncQueue) + 1}
                                 ELSE Unanswered("load")
        /\ Unanswered("save")' = Unanswered("save")
        /\ \A i \in DOMAIN syncQueue : syncQueue'[i] = syncQueue[i]
    BY <1>1, <2>1, <2>3, PushFacts
  <2>5. \A i \in Unanswered("save") : i = 0 \/ i \in DOMAIN syncQueue
    BY DEF Unanswered
  <2> QED BY <2>1, <2>4, <2>5 DEF Awaited, OneIf
<1>3. CASE BootEnds
  BY <1>1, <1>3, WaitGoesOn DEF BootEnds, engineState
<1> QED BY <1>2, <1>3 DEF Watcher

\* The editor queues a save and waits for it; its other steps wait for nothing.
LEMMA EditorWaits ==
  ASSUME IInv, Awaited, EditorCalls \/ EditorSteps
  PROVE  Awaited'
<1>1. EngineType /\ CallType
  BY DEF IInv, TypeOK
<1>2. CASE EditorCalls
  <2>1. PICK step \in {"save", "delete", "stat"} : \E p, q, c : Called(step, p, q, c)
    BY <1>2 DEF EditorCalls, CallSave, CallRemove, CallChangeState, CallRename
  <2>2. call'.step = step /\ call = NoCall /\ UNCHANGED <<syncQueue, watching, job>>
    BY <2>1 DEF Called, engineState
  <2>3. call.step # "wait" /\ call'.step # "wait"
    BY <2>2 DEF NoCall
  <2> QED BY <1>1, <2>2, <2>3, WaitGoesOn
<1>3. CASE DeleteFile \/ StatTarget \/ MoveFile
  <2>1. /\ call.step # "wait" /\ call'.step # "wait"
        /\ UNCHANGED <<syncQueue, watching, job>>
    BY <1>1, <1>3 DEF DeleteFile, StatTarget, MoveFile, Answer, NoCall, CallType, engineState
  <2> QED BY <1>1, <2>1, WaitGoesOn
<1>4. CASE WriteScript
  <2> DEFINE x == [op |-> "save", path |-> call.path, content |-> call.content]
  <2>1. /\ call.step = "save" /\ syncQueue' = Append(syncQueue, x)
        /\ call' = [call EXCEPT !.step = "wait"] /\ UNCHANGED <<watching, job>>
    BY <1>4 DEF WriteScript, Queue
  <2>2. /\ call.path \in Paths /\ call.content \in Contents
        /\ call'.step = "wait" /\ call'.path = call.path
    BY <1>1, <2>1 DEF CallType, NoCall
  <2>3. x \in Thunk /\ x.op = "save" /\ x.path = call.path
    BY <2>2 DEF Thunk
  <2> HIDE DEF x
  <2>4. /\ Unanswered("save")' = Unanswered("save") \cup {Len(syncQueue) + 1}
        /\ Unanswered("load")' = Unanswered("load")
        /\ syncQueue'[Len(syncQueue) + 1] = x /\ Len(syncQueue) + 1 # 0
    BY <1>1, <2>1, <2>3, PushFacts
  <2>5. Unanswered("save") = {}
    BY <2>1 DEF Awaited, OneIf
  <2> QED BY <2>1, <2>2, <2>3, <2>4, <2>5 DEF Awaited, OneIf
<1> QED BY <1>2, <1>3, <1>4 DEF EditorSteps

\* The sync loop takes a thunk: a load goes on as its job, a save too or fails at once, and
\* for a removal nobody waits.
LEMMA TakeAnswers ==
  ASSUME IInv, Awaited, BeginLoad \/ BeginSave \/ SaveFails \/ LiveRemove
  PROVE  Awaited'
<1>1. EngineType /\ CallType
  BY DEF IInv, TypeOK
<1> DEFINE o == Head(syncQueue).op
<1>2. /\ job = NoJob /\ syncQueue # <<>> /\ syncQueue' = Tail(syncQueue)
      /\ watching' = watching
      /\ \/ o = "load" /\ job' # NoJob /\ job'.save = FALSE /\ call' = call
         \/ o = "remove" /\ job' = NoJob /\ call' = call
         \/ o = "save" /\ job' = NoJob /\ call' = NoCall
         \/ /\ o = "save" /\ job' # NoJob /\ job'.save = TRUE /\ call' = call
            /\ job'.path = Head(syncQueue).path
  BY DEF BeginLoad, BeginSave, SaveFails, LiveRemove, NoJob
<1>3. /\ Head(syncQueue) = syncQueue[1] /\ 1 \in DOMAIN syncQueue /\ 0 \notin DOMAIN syncQueue'
      /\ 0 \notin DOMAIN syncQueue
  BY <1>1, <1>2 DEF EngineType
<1> HIDE DEF o
<1>4. 0 \in Unanswered("load")' <=> o = "load"
  BY <1>2, <1>3 DEF Unanswered
<1>5. 0 \in Unanswered("save")' <=> o = "save" /\ job' # NoJob
  BY <1>2, <1>3 DEF Unanswered
<1>6. OneIf(Unanswered("load"), watching)'
  <2>1. CASE watching
    <3>1. PICK k : Unanswered("load") = {k}
      BY <2>1 DEF Awaited, OneIf
    <3>2. /\ o = "load" => Unanswered("load")' \ {0} = {}
          /\ o # "load" => Unanswered("load")' \ {0} = {k - 1}
      BY <1>1, <1>2, <3>1, TakeFacts DEF o
    <3>3. \E i : Unanswered("load")' = {i}
      BY <1>4, <3>2
    <3> QED BY <1>2, <2>1, <3>3 DEF OneIf
  <2>2. CASE ~ watching
    <3>1. Unanswered("load") = {}
      BY <2>2 DEF Awaited, OneIf
    <3>2. o # "load" /\ Unanswered("load")' \ {0} = {}
      BY <1>1, <1>2, <3>1, TakeNone DEF o
    <3>3. Unanswered("load")' = {}
      BY <1>4, <3>2
    <3> QED BY <1>2, <2>2, <3>3 DEF OneIf
  <2> QED BY <2>1, <2>2
<1>7. CASE call.step = "wait"
  <2>1. PICK k : Unanswered("save") = {k}
    BY <1>7 DEF Awaited, OneIf
  <2>2. /\ o = "save" => k = 1 /\ Unanswered("save")' \ {0} = {}
        /\ o # "save" => /\ Unanswered("save")' \ {0} = {k - 1} /\ k - 1 # 0
                        /\ syncQueue'[k - 1] = syncQueue[k]
    BY <1>1, <1>2, <2>1, TakeFacts DEF o
  <2>3. k # 0 /\ call.path = syncQueue[k].path
    <3>1. k # 0
      <4>1. 0 \notin Unanswered("save")
        BY <1>2, <1>3 DEF Unanswered
      <4> QED BY <2>1, <4>1
    <3> QED BY <2>1, <3>1 DEF Awaited
  <2>4. CASE o # "save"
    <3>1. Unanswered("save")' = {k - 1} /\ call' = call
      BY <1>2, <1>5, <2>2, <2>4
    <3> QED BY <1>6, <1>7, <2>2, <2>3, <2>4, <3>1 DEF Awaited, OneIf
  <2>5. CASE o = "save" /\ job' = NoJob
    <3>1. Unanswered("save")' = {} /\ call'.step # "wait"
      BY <1>2, <1>5, <2>2, <2>5 DEF NoCall
    <3> QED BY <1>6, <3>1 DEF Awaited, OneIf
  <2>6. CASE o = "save" /\ job' # NoJob
    <3>1. Unanswered("save")' = {0} /\ call' = call /\ job'.path = syncQueue[k].path
      BY <1>2, <1>3, <1>5, <2>2, <2>6
    <3> QED BY <1>6, <1>7, <2>3, <3>1 DEF Awaited, OneIf
  <2> QED BY <2>4, <2>5, <2>6
<1>8. CASE call.step # "wait"
  <2>1. Unanswered("save") = {}
    BY <1>8 DEF Awaited, OneIf
  <2>2. o # "save" /\ Unanswered("save")' \ {0} = {}
    BY <1>1, <1>2, <2>1, TakeNone DEF o
  <2>3. Unanswered("save")' = {} /\ call' = call
    BY <1>2, <1>5, <2>2
  <2> QED BY <1>6, <1>8, <2>3 DEF Awaited, OneIf
<1> QED BY <1>7, <1>8

\* Whoever has been waiting still waits for one thunk, or has its answer.
LEMMA AwaitedStep ==
  ASSUME IInv, Awaited, [Next]_vars
  PROVE  Awaited'
<1>1. EngineType /\ Stages
  BY DEF IInv, TypeOK, FilesInv
<1>2. CASE Watcher
  BY <1>2, WatcherWaits
<1>3. CASE EditorCalls \/ EditorSteps
  BY <1>3, EditorWaits
<1>4. CASE BeginLoad \/ BeginSave \/ SaveFails \/ LiveRemove
  BY <1>4, TakeAnswers
<1>5. CASE Track \/ CleanUp \/ (Register /\ Enabled(job.path))
  <2>1. /\ job.step \in {"track", "clean", "register"}
        /\ \E s \in {"clean", "register", "run"} : job' = [job EXCEPT !.step = s]
        /\ UNCHANGED <<syncQueue, watching, call>>
    BY <1>5 DEF Track, CleanUp, Register
  <2>2. /\ job # NoJob /\ job' # NoJob /\ job'.path = job.path /\ job'.save = job.save
    BY <1>1, <2>1, JobFacts DEF NoJob
  <2> QED BY <1>1, <2>1, <2>2, WaitGoesOn
<1>6. CASE NothingToLoad \/ RunScript \/ (Register /\ ~ Enabled(job.path))
  <2>1. job # NoJob /\ Reply /\ UNCHANGED syncQueue
    BY <1>6 DEF NothingToLoad, RunScript, Register, NoJob
  <2> QED BY <1>1, <2>1, ReplyAnswers
<1>7. CASE \/ \E p \in Paths, c \in Contents : WriteByHand(p, c)
           \/ \E p \in Paths : DeleteByHand(p)
           \/ UNCHANGED vars
  <2>1. UNCHANGED <<syncQueue, watching, job, call>>
    BY <1>7 DEF WriteByHand, DeleteByHand, vars, engineState
  <2> QED BY <1>1, <2>1, WaitGoesOn
<1>8. CASE Restart \/ ListPanics
  <2>1. syncQueue' = <<>> /\ job' = NoJob /\ watching' = FALSE /\ call'.step # "wait"
    BY <1>8 DEF Restart, ListPanics, Started, NoCall
  <2>2. Unanswered("load")' = {} /\ Unanswered("save")' = {}
    BY <2>1 DEF Unanswered
  <2> QED BY <2>1, <2>2 DEF Awaited, OneIf
<1> QED BY <1>2, <1>3, <1>4, <1>5, <1>6, <1>7, <1>8 DEF Next, SyncLoop, Others

\* The watcher and a call of the editor that wait for the sync loop wait for one thunk each,
\* which is their own, on every path through LiveLoadFile and LiveWriteScript.
THEOREM AnswersComing == Spec => []AnswersOnTheirWay
<1>1. Init => Awaited
  BY DEF Init, Awaited, OneIf, Unanswered, NoCall
<1>2. IInv /\ Awaited /\ [Next]_vars => Awaited'
  BY AwaitedStep
<1>3. Awaited => AnswersOnTheirWay
  <2>1. \A S, b : OneIf(S, b) => Cardinality(S) = IF b THEN 1 ELSE 0
    BY FS_Singleton, FS_EmptySet DEF OneIf
  <2> QED BY <2>1 DEF Awaited, AnswersOnTheirWay
<1> QED BY <1>1, <1>2, <1>3, Invariance, PTL DEF Spec

=============================================================================
