---------------------------- MODULE ScriptFiles ----------------------------
(***************************************************************************)
(* Script files and the engine that follows them: live loading, writing    *)
(* and removal in wbrules/esengine.go, the editor's RPC calls in           *)
(* wbrules/editor.go and the order of start in main.go.                    *)
(*                                                                         *)
(* Four parties share the files: the sync loop, which runs one thunk at a  *)
(* time; the directory watcher, which turns events of the file system into *)
(* thunks; the editor's RPC handler, which works on the files itself and   *)
(* reads the engine's tables from its own goroutine; and everybody else    *)
(* who writes into the directory.  The process may be killed at any moment *)
(* and is started again.                                                   *)
(*                                                                         *)
(* Abstractions.  A path is <<name, on>>: the file <name>.js, or           *)
(* <name>.js.disabled when on is FALSE.  A content is an opaque value, its *)
(* hash the value itself; the items that a script defines are those of its *)
(* content (ScriptItems tells them apart).  The watcher and its content    *)
(* tracker belong to the wbgong library and are modelled from their use.   *)
(* RPC calls are handled one at a time.                                    *)
(***************************************************************************)
EXTENDS Integers, Sequences, FiniteSets, Functions

CONSTANTS
  Scripts,      \* virtual paths of the files in the edit directory
  SystemFiles,  \* names of script files elsewhere
  NoName,       \* "", the virtual path of a file outside the source root
  Contents,     \* what a file may hold
  BadContents,  \* contents that throw when they are run
  Nothing,      \* no file, no content, no entry
  InitDisks,    \* what may be on disk when the process is first started
  MaxOps        \* bound on the acts of users: RPC calls, writes, kills

Paths == (Scripts \X BOOLEAN) \cup (SystemFiles \X {TRUE})
Keys == Scripts \cup {NoName}
Entry == [enabled: BOOLEAN, error: BOOLEAN]
Thunk == [op: {"load", "remove"}, path: Paths, content: {Nothing}]
         \cup [op: {"save"}, path: Paths, content: Contents]
FileEvent == [op: {"load", "remove"}, path: Paths]
NoJob == [step |-> "idle", path |-> Nothing, save |-> FALSE]
NoCall == [step |-> "idle", path |-> Nothing, to |-> Nothing, content |-> Nothing]

ASSUME FilesAssumption ==
  /\ IsFiniteSet(Scripts) /\ IsFiniteSet(SystemFiles)
  /\ Scripts \cap SystemFiles = {} /\ NoName \notin Scripts
  /\ BadContents \subseteq Contents
  /\ Nothing \notin Contents /\ Nothing \notin Paths /\ Nothing \notin Entry
  /\ InitDisks \subseteq [Paths -> Contents \cup {Nothing}]
  /\ MaxOps \in Nat

VARIABLES
  disk,       \* the files
  events,     \* file events that the watcher has not handled, oldest first
  watching,   \* the watcher waits for the answer of LiveLoadFile
  syncQueue,  \* thunks of the file operations in the engine's queue
  job,        \* the thunk that the sync loop is running
  hash,       \* ContentTracker: the content last seen under a virtual path
  sources,    \* ESEngine.sources
  editable,   \* ESEngine.editableSources
  running,    \* localCtxs and all that its script defined: the content run
  booting,    \* main() is still loading the files it was started with
  call,       \* the editor's RPC call
  left,       \* acts that users may still perform
  clashed,    \* history: virtual paths that two files have had at once
  raced       \* history: files written while they were being loaded

engineState == <<syncQueue, job, hash, sources, editable, running>>
vars == <<disk, events, watching, engineState, booting, call, left, clashed, raced>>

-----------------------------------------------------------------------------

Name(p) == p[1]
Enabled(p) == p[2]
UnderRoot(p) == Name(p) \in Scripts

\* checkSourcePath: x.js and x.js.disabled have one virtual path, files outside
\* the source root have the empty one.
Virtual(p) == IF UnderRoot(p) THEN Name(p) ELSE NoName

Present(d) == {p \in Paths : d[p] # Nothing}
Clashes(d) == {Virtual(p) : p \in {q \in Present(d) :
                                     \E r \in Present(d) \ {q} : Virtual(r) = Virtual(q)}}

LoadEvent(p) == [op |-> "load", path |-> p]
RemoveEvent(p) == [op |-> "remove", path |-> p]

\* The files of P in any order
LoadsOf(P) == {[i \in DOMAIN s |-> LoadEvent(s[i])] : s \in Bijection(1 .. Cardinality(P), P)}

\* The files become d and the file system reports es.
Disk(d, es) ==
  /\ disk' = d
  /\ events' = events \o es
  /\ clashed' = clashed \cup Clashes(d)
  /\ raced' = raced \cup {p \in Paths : /\ d[p] # disk[p] /\ job.path = p
                                        /\ job.step \in {"clean", "register", "run"}}

Queue(op, p, c) == Append(syncQueue, [op |-> op, path |-> p, content |-> c])

-----------------------------------------------------------------------------
(* The directory watcher *)

\* LiveLoadFile waits for the load to be over.
WatcherLoads ==
  /\ ~ watching /\ events # <<>> /\ Head(events).op = "load"
  /\ events' = Tail(events)
  /\ watching' = TRUE
  /\ syncQueue' = Queue("load", Head(events).path, Nothing)
  /\ UNCHANGED <<disk, job, hash, sources, editable, running, booting, call, left,
                 clashed, raced>>

\* LiveRemoveFile does not wait.
WatcherRemoves ==
  /\ ~ watching /\ events # <<>> /\ Head(events).op = "remove"
  /\ events' = Tail(events)
  /\ syncQueue' = Queue("remove", Head(events).path, Nothing)
  /\ UNCHANGED <<disk, watching, job, hash, sources, editable, running, booting, call,
                 left, clashed, raced>>

\* watcher.Load has returned for every argument of main; the RPC server starts.
BootEnds ==
  /\ booting /\ events = <<>> /\ ~ watching
  /\ booting' = FALSE
  /\ UNCHANGED <<disk, events, watching, engineState, call, left, clashed, raced>>

-----------------------------------------------------------------------------
(* The sync loop *)

\* The thunk is over: whoever waits on the channel r gets its answer.
Reply ==
  /\ job' = NoJob
  /\ IF job.save THEN call' = NoCall /\ UNCHANGED watching
                 ELSE watching' = FALSE /\ UNCHANGED call

BeginLoad ==
  /\ job = NoJob /\ syncQueue # <<>> /\ Head(syncQueue).op = "load"
  /\ job' = [step |-> "track", path |-> Head(syncQueue).path, save |-> FALSE]
  /\ syncQueue' = Tail(syncQueue)
  /\ UNCHANGED <<disk, events, watching, hash, sources, editable, running, booting, call,
                 left, clashed, raced>>

\* LiveWriteScript's thunk up to os.WriteFile
BeginSave ==
  /\ job = NoJob /\ syncQueue # <<>> /\ Head(syncQueue).op = "save"
  /\ LET p == Head(syncQueue).path
     IN /\ Disk([disk EXCEPT ![p] = Head(syncQueue).content], <<LoadEvent(p)>>)
        /\ job' = [step |-> "track", path |-> p, save |-> TRUE]
  /\ syncQueue' = Tail(syncQueue)
  /\ UNCHANGED <<watching, hash, sources, editable, running, booting, call, left>>

\* Mutant: a file that cannot be written is not worth an answer.
SaveFailsNoAnswer ==
  /\ job = NoJob /\ syncQueue # <<>> /\ Head(syncQueue).op = "save"
  /\ syncQueue' = Tail(syncQueue)
  /\ UNCHANGED <<disk, events, watching, job, hash, sources, editable, running, booting,
                 call, left, clashed, raced>>

\* os.MkdirAll or os.WriteFile fails.
SaveFails ==
  /\ job = NoJob /\ syncQueue # <<>> /\ Head(syncQueue).op = "save"
  /\ syncQueue' = Tail(syncQueue)
  /\ call' = NoCall
  /\ UNCHANGED <<disk, events, watching, job, hash, sources, editable, running, booting,
                 left, clashed, raced>>

\* Mutant: a file that is gone is not worth an answer.
NothingToLoadNoAnswer ==
  /\ job.step = "track"
  /\ \/ disk[job.path] = Nothing /\ job' = NoJob /\ UNCHANGED <<watching, call>>
     \/ ~ job.save /\ hash[Virtual(job.path)] = disk[job.path] /\ Reply
  /\ UNCHANGED <<disk, events, syncQueue, hash, sources, editable, running, booting,
                 left, clashed, raced>>

\* loadScript finds that the file is gone or its content is known.
NothingToLoad ==
  /\ job.step = "track"
  /\ \/ disk[job.path] = Nothing
     \/ ~ job.save /\ hash[Virtual(job.path)] = disk[job.path]
  /\ Reply
  /\ UNCHANGED <<disk, events, syncQueue, hash, sources, editable, running, booting,
                 left, clashed, raced>>

\* Mutant: LiveWriteScript does not tell the tracker.
TrackWatched ==
  /\ job.step = "track" /\ disk[job.path] # Nothing
  /\ job.save \/ hash[Virtual(job.path)] # disk[job.path]
  /\ hash' = IF job.save THEN hash ELSE [hash EXCEPT ![Virtual(job.path)] = disk[job.path]]
  /\ job' = [job EXCEPT !.step = "clean"]
  /\ raced' = raced \ {job.path}
  /\ UNCHANGED <<disk, events, watching, syncQueue, sources, editable, running, booting,
                 call, left, clashed>>

\* loadScript goes on with a content that is new, or was just saved.
Track ==
  /\ job.step = "track" /\ disk[job.path] # Nothing
  /\ job.save \/ hash[Virtual(job.path)] # disk[job.path]
  /\ hash' = [hash EXCEPT ![Virtual(job.path)] = disk[job.path]]
  /\ job' = [job EXCEPT !.step = "clean"]
  /\ raced' = raced \ {job.path}
  /\ UNCHANGED <<disk, events, watching, syncQueue, sources, editable, running, booting,
                 call, left, clashed>>

\* Mutant: the context of the old version is not invalidated.
CleanupsKeepContext(p) ==
  /\ sources' = [sources EXCEPT ![p] = Nothing]
  /\ UNCHANGED running

\* runCleanups: all that was registered for the file when it was loaded, and its
\* context.
Cleanups(p) ==
  /\ running' = [running EXCEPT ![p] = Nothing]
  /\ sources' = [sources EXCEPT ![p] = Nothing]

\* The old version goes, and the path becomes editable: editableSources is written
\* without the lock under which ListSourceFiles reads it.
CleanUp ==
  /\ job.step = "clean"
  /\ Cleanups(job.path)
  /\ editable' = IF UnderRoot(job.path)
                 THEN [editable EXCEPT ![Name(job.path)] = job.path] ELSE editable
  /\ job' = [job EXCEPT !.step = "register"]
  /\ UNCHANGED <<disk, events, watching, syncQueue, hash, booting, call, left, clashed,
                 raced>>

NewEntry(p) == [enabled |-> Enabled(p) \/ ~ UnderRoot(p), error |-> FALSE]

\* The new entry; there is no more to do for a disabled file.
Register ==
  /\ job.step = "register"
  /\ sources' = [sources EXCEPT ![job.path] = NewEntry(job.path)]
  /\ IF Enabled(job.path)
     THEN job' = [job EXCEPT !.step = "run"] /\ UNCHANGED <<watching, call>>
     ELSE Reply
  /\ UNCHANGED <<disk, events, syncQueue, hash, editable, running, booting, left,
                 clashed, raced>>

\* LoadScenario reads the file once more and runs it; trackESError notes what it
\* throws; Refresh.
RunScript ==
  /\ job.step = "run"
  /\ running' = [running EXCEPT ![job.path] = disk[job.path]]
  /\ sources' = [sources EXCEPT ![job.path].error = disk[job.path] \in BadContents]
  /\ Reply
  /\ UNCHANGED <<disk, events, syncQueue, hash, editable, booting, left, clashed, raced>>

\* Mutant: the tracker still knows the content of the removed file.
LiveRemoveTracked ==
  /\ job = NoJob /\ syncQueue # <<>> /\ Head(syncQueue).op = "remove"
  /\ LET p == Head(syncQueue).path
     IN /\ Cleanups(p)
        /\ editable' = IF UnderRoot(p) /\ sources[p] # Nothing
                       THEN [editable EXCEPT ![Name(p)] = Nothing] ELSE editable
  /\ syncQueue' = Tail(syncQueue)
  /\ UNCHANGED <<disk, events, watching, job, hash, booting, call, left, clashed, raced>>

\* LiveRemoveFile's thunk; the cleanup of editableSources was registered when the
\* file was loaded and asks for no path.
LiveRemove ==
  /\ job = NoJob /\ syncQueue # <<>> /\ Head(syncQueue).op = "remove"
  /\ LET p == Head(syncQueue).path
     IN /\ hash' = [hash EXCEPT ![Virtual(p)] = Nothing]
        /\ Cleanups(p)
        /\ editable' = IF UnderRoot(p) /\ sources[p] # Nothing
                       THEN [editable EXCEPT ![Name(p)] = Nothing] ELSE editable
  /\ syncQueue' = Tail(syncQueue)
  /\ UNCHANGED <<disk, events, watching, job, booting, call, left, clashed, raced>>

-----------------------------------------------------------------------------
(* The editor's RPC calls *)

Dangling == \E n \in Scripts : editable[n] # Nothing /\ sources[editable[n]] = Nothing

\* A call arrives and locateFile lists the files; what is found is used later.
Called(step, p, q, c) ==
  /\ ~ booting /\ call = NoCall /\ left > 0 /\ ~ Dangling
  /\ call' = [step |-> step, path |-> p, to |-> q, content |-> c]
  /\ left' = left - 1
  /\ UNCHANGED <<disk, events, watching, engineState, booting, clashed, raced>>

\* Save: the path of a listed file that is disabled, else <name>.js
CallSave(n, c) ==
  LET p == editable[n]
  IN Called("save", IF p # Nothing /\ ~ sources[p].enabled THEN p ELSE <<n, TRUE>>,
            Nothing, c)

CallRemove(n) ==
  editable[n] # Nothing /\ Called("delete", editable[n], Nothing, Nothing)

CallChangeState(n, on) ==
  LET p == editable[n]
  IN /\ p # Nothing /\ ~ Dangling /\ sources[p].enabled # on
     /\ Called("stat", p, <<n, on>>, Nothing)

CallRename(n, m) ==
  LET p == editable[n]
  IN p # Nothing /\ Called("stat", p, <<m, Enabled(p)>>, Nothing)

Answer == call' = NoCall

WriteScript ==
  /\ call.step = "save"
  /\ syncQueue' = Queue("save", call.path, call.content)
  /\ call' = [call EXCEPT !.step = "wait"]
  /\ UNCHANGED <<disk, events, watching, job, hash, sources, editable, running, booting,
                 left, clashed, raced>>

\* os.Remove, which fails when the file is gone
DeleteFile ==
  /\ call.step = "delete"
  /\ IF disk[call.path] = Nothing
     THEN UNCHANGED <<disk, events, clashed, raced>>
     ELSE Disk([disk EXCEPT ![call.path] = Nothing], <<RemoveEvent(call.path)>>)
  /\ Answer
  /\ UNCHANGED <<watching, engineState, booting, left>>

\* os.Stat: a file that exists is not to be overwritten.
StatTarget ==
  /\ call.step = "stat"
  /\ IF disk[call.to] # Nothing THEN Answer ELSE call' = [call EXCEPT !.step = "move"]
  /\ UNCHANGED <<disk, events, watching, engineState, booting, left, clashed, raced>>

\* os.Rename, which does nothing when the name is the same
MoveFile ==
  /\ call.step = "move"
  /\ IF disk[call.path] = Nothing \/ call.to = call.path
     THEN UNCHANGED <<disk, events, clashed, raced>>
     ELSE Disk([disk EXCEPT ![call.to] = disk[call.path], ![call.path] = Nothing],
               <<RemoveEvent(call.path), LoadEvent(call.to)>>)
  /\ Answer
  /\ UNCHANGED <<watching, engineState, booting, left>>

-----------------------------------------------------------------------------
(* Everybody else *)

WriteByHand(p, c) ==
  /\ left > 0
  /\ Disk([disk EXCEPT ![p] = c], <<LoadEvent(p)>>)
  /\ left' = left - 1
  /\ UNCHANGED <<watching, engineState, booting, call>>

DeleteByHand(p) ==
  /\ left > 0 /\ disk[p] # Nothing
  /\ Disk([disk EXCEPT ![p] = Nothing], <<RemoveEvent(p)>>)
  /\ left' = left - 1
  /\ UNCHANGED <<watching, engineState, booting, call>>

\* A new process, which loads the files d one after the other
Started(d) ==
  /\ events' \in LoadsOf(Present(d))
  /\ watching' = FALSE
  /\ syncQueue' = <<>>
  /\ job' = NoJob
  /\ hash' = [k \in Keys |-> Nothing]
  /\ sources' = [p \in Paths |-> Nothing]
  /\ editable' = [n \in Scripts |-> Nothing]
  /\ running' = [p \in Paths |-> Nothing]
  /\ booting' = TRUE
  /\ call' = NoCall
  /\ clashed' = Clashes(d)
  /\ raced' = {}

Restart ==
  /\ left > 0
  /\ left' = left - 1
  /\ Started(disk)
  /\ UNCHANGED disk

\* ListSourceFiles follows a path that has no entry.
ListPanics ==
  /\ ~ booting /\ call = NoCall /\ left > 0 /\ Dangling
  /\ left' = left - 1
  /\ Started(disk)
  /\ UNCHANGED disk

-----------------------------------------------------------------------------

Init ==
  /\ disk \in InitDisks
  /\ events \in LoadsOf(Present(disk))
  /\ watching = FALSE
  /\ syncQueue = <<>>
  /\ job = NoJob
  /\ hash = [k \in Keys |-> Nothing]
  /\ sources = [p \in Paths |-> Nothing]
  /\ editable = [n \in Scripts |-> Nothing]
  /\ running = [p \in Paths |-> Nothing]
  /\ booting = TRUE
  /\ call = NoCall
  /\ left = MaxOps
  /\ clashed = Clashes(disk)
  /\ raced = {}

Watcher == WatcherLoads \/ WatcherRemoves \/ BootEnds

SyncLoop == \/ BeginLoad \/ BeginSave \/ SaveFails \/ NothingToLoad \/ Track
            \/ CleanUp \/ Register \/ RunScript \/ LiveRemove

EditorCalls ==
  \/ \E n \in Scripts, c \in Contents : CallSave(n, c)
  \/ \E n \in Scripts : CallRemove(n)
  \/ \E n \in Scripts, on \in BOOLEAN : CallChangeState(n, on)
  \/ \E n, m \in Scripts : CallRename(n, m)

EditorSteps == WriteScript \/ DeleteFile \/ StatTarget \/ MoveFile

Others == \/ \E p \in Paths, c \in Contents : WriteByHand(p, c)
          \/ \E p \in Paths : DeleteByHand(p)
          \/ Restart \/ ListPanics

Next == Watcher \/ SyncLoop \/ EditorCalls \/ EditorSteps \/ Others

Spec == Init /\ [][Next]_vars

\* The three goroutines go on; nobody has to call or to write.
FairSpec == Spec /\ WF_vars(Watcher) /\ WF_vars(SyncLoop) /\ WF_vars(EditorSteps)

-----------------------------------------------------------------------------

\* Types of the files and of the acts of users
FilesType ==
  /\ disk \in [Paths -> Contents \cup {Nothing}]
  /\ events \in Seq(FileEvent)
  /\ watching \in BOOLEAN /\ booting \in BOOLEAN
  /\ left \in 0 .. MaxOps
  /\ clashed \subseteq Keys
  /\ raced \subseteq Paths

\* Types of the engine
EngineType ==
  /\ syncQueue \in Seq(Thunk)
  /\ job \in {NoJob} \cup [step: {"track", "clean", "register", "run"}, path: Paths,
                            save: BOOLEAN]
  /\ hash \in [Keys -> Contents \cup {Nothing}]
  /\ sources \in [Paths -> Entry \cup {Nothing}]
  /\ editable \in [Scripts -> Paths \cup {Nothing}]
  /\ running \in [Paths -> Contents \cup {Nothing}]

\* Types of the editor's call
CallType ==
  call \in {NoCall}
       \cup [step: {"save", "wait"}, path: Paths, to: {Nothing}, content: Contents]
       \cup [step: {"delete"}, path: Paths, to: {Nothing}, content: {Nothing}]
       \cup [step: {"stat", "move"}, path: Paths, to: Paths, content: {Nothing}]

TypeOK == FilesType /\ EngineType /\ CallType

\* The tables of ESEngine agree: a script that is alive has an entry, so that
\* registerSourceItem never panics, and a path that ListSourceFiles follows leads
\* to an entry of that virtual path, but for the moment in which loadScript has
\* set the one and not the other.
TablesAgree ==
  /\ \A p \in Paths : running[p] # Nothing => sources[p] # Nothing /\ Enabled(p)
  /\ \A n \in Scripts : editable[n] # Nothing =>
       /\ Name(editable[n]) = n
       /\ sources[editable[n]] # Nothing \/ (job.step = "register" /\ job.path = editable[n])

Quiet == /\ events = <<>> /\ ~ watching /\ syncQueue = <<>> /\ job = NoJob
         /\ call = NoCall

InSync(p) ==
  IF disk[p] = Nothing
  THEN /\ running[p] = Nothing /\ sources[p] = Nothing
       /\ UnderRoot(p) => editable[Name(p)] # p
  ELSE /\ running[p] = IF Enabled(p) THEN disk[p] ELSE Nothing
       /\ sources[p] = [enabled |-> Enabled(p),
                        error |-> Enabled(p) /\ disk[p] \in BadContents]
       /\ UnderRoot(p) => editable[Name(p)] = p

\* Whenever nothing is left to do, the engine runs the content of every enabled
\* file and of no other, shows the editor the files there are and marks the ones
\* that failed.  Two cases are outside of what the code can tell: two files with
\* one virtual path share a hash and an entry of editableSources, and a file
\* written while it is being loaded may be run with a content whose hash was not
\* taken.
LoadedAsOnDisk ==
  Quiet => \A p \in Paths : Virtual(p) \notin clashed /\ p \notin raced => InSync(p)

RemoveIn(s, k) == \E i \in DOMAIN s : s[i].op = "remove" /\ Virtual(s[i].path) = k

\* The removal of a file of virtual path k is still to be handled.
RemovalPending(k) == RemoveIn(events, k) \/ RemoveIn(syncQueue, k)

\* The watcher never makes the engine load the content that it is running already,
\* as the comments on LiveLoadFile and in LiveWriteScript promise; unless the hash
\* was dropped by the late removal of the other file of that virtual path, or a
\* removal is still to come.
NoIdleReload ==
  [][/\ job.step = "track" /\ job'.step = "clean" /\ ~ job.save
     /\ Virtual(job.path) \notin clashed /\ job.path \notin raced
     /\ hash[Virtual(job.path)] # Nothing /\ ~ RemovalPending(Virtual(job.path))
     => running[job.path] # disk[job.path]]_vars

\* The thunks of op that have not answered: their places in the queue, 0 for the one
\* that is running
Unanswered(op) ==
  {i \in DOMAIN syncQueue : syncQueue[i].op = op}
  \cup {i \in {0} : job # NoJob /\ job.save = (op = "save")}

\* Nobody waits in vain for the sync loop, whichever way loadScript returns: behind the
\* watcher and behind a call of the editor that wait there is one thunk each, which is
\* theirs, and there is none that nobody waits for.
AnswersOnTheirWay ==
  /\ Cardinality(Unanswered("load")) = IF watching THEN 1 ELSE 0
  /\ Cardinality(Unanswered("save")) = IF call.step = "wait" THEN 1 ELSE 0
  /\ \A i \in Unanswered("save") : call.path = IF i = 0 THEN job.path ELSE syncQueue[i].path

\* Every call of the editor comes to an answer.
CallsAnswered == call # NoCall ~> call = NoCall

=============================================================================
