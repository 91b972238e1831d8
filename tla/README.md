# wb-rules: models, model checking and proofs

`wb-rules` is the rule engine of Wiren Board controllers. JavaScript files (run by
Duktape) define rules over the controls of MQTT devices; a Go program feeds the engine
with control changes, timers and cron ticks, and reloads a file whenever it is edited.
This directory holds TLA+ models of the engine, TLC configurations that check them and
TLAPS proofs. Paths below are relative to the repository; line numbers are in
`PROJECT.json`, which maps every definition to the code it stands for.

## 1. The system

| Part | Code | State | Operations |
|---|---|---|---|
| Rule dispatch | `wbrules/engine.go`, `wbrules/rule.go` | `ruleList`, `ruleMap`, `controlToRulesListMap`, `timerRules`, `rulesWithoutControls`, `uninitializedRules`, `currentTimer`; per rule `enabled`, `checkMode` and the memory of its conditions | `RunRules`, `Rule.Check`, `StoreRuleDeps`, `DefineRule`, `Refresh`, `enableRule`/`disableRule`, `runRules` |
| Event pipeline | `wbrules/eventbuffer.go`, `engine.go` | `currentBuffer`, its observer channel, `syncQueue`, `driverReadyCh`, `active` | `driverEventHandler`, `PushEvent`, `mainLoop`, `syncLoop`, `CallSync`, `Stop`, `handleStop` |
| Timers | `engine.go`, `esengine.go` | `timers`, `timerDeferQueue`, a `TimerSet` per script context, a goroutine per timer | `startTimer`, `startTicker`, `setTimeout`, `setInterval`, their stops, `fireTimer`, `runTimerCleanups` |
| Proxies | `engine.go` | caches of devices and control values, revision, the driver's handlers of value updates | `dev[...]` reads and writes |
| Cron | `engine.go`, `rule.go` | the current `Cron`, an entry id per rule | `setupCron`, `MaybeAddToCron`, `SetState`, queued callbacks |
| Scripts | `esengine.go`, `scopedcleanup.go`, `escontext.go` | contexts, `sources`, `editableSources`, content hashes, cleanup lists and scopes | `LoadFile`, `LiveLoadFile`, `LiveWriteScript`, `LiveRemoveFile`, `RunCleanups` |
| Editor | `editor.go` | none of its own: works on the files and tracked sources | `List`, `Load`, `Save`, `Remove`, `ChangeState`, ... |
| MQTT trackers | `engine.go`, `mqtt_tracker.go` | `tracks` | `trackMqtt`, delivery of messages |
| Alarms | `modules/wb-alarms.js` | per alarm: triggered and active flags, three timers, a counter | two `asSoonAs` rules, delayed activation and deactivation, repeated notification |
| Notifications | `modules/wb-notify.js` | SMS queue and busy flag | `sendSMS`, `sendEmail`, ... |
| Storage, virtual devices, spawn | `esengine.go`, `spawn.go`, `scripts/lib.js` | outside the process (bbolt, driver, kernel) | |

How they interact. The driver calls `driverEventHandler` on its own goroutine, which
appends to the event buffer. The main loop empties the buffer and hands one thunk per
event to the sync loop through the bounded channel `syncQueue`. All JavaScript runs on
the sync loop: rule conditions and bodies, timer callbacks, script loading, callbacks of
external commands. Timers, cron, trackers, finished commands and the editor's RPCs are
goroutines of their own that only queue thunks. `Stop` runs on the caller's goroutine
and walks through all of the above.

What is hard here, and what a test would hardly reach, is listed in `PROJECT.json`
under `hazards`, each at its line: dependency tracking that follows the reads of
condition functions, state kept in rules and reused by nested calls, tables that outlive
a reload, a wake-up channel of one place, a bounded queue whose consumer is also a
producer, timers, cron entries and trackers that go while their callback is queued, a value
cache that two goroutines fill, files that the watcher, the editor and the sync loop see
at different times, and a shutdown that crosses four goroutines.

## 2. Modules

| Module | Stands for | Composed of |
|---|---|---|
| `RuleDispatch` | rule dispatch: selection, checking, dependency tracking, firing, reload | |
| `MCRuleDispatch` | instances of it: the conditions of everyday scripts over two controls and a timer | `EXTENDS RuleDispatch` |
| `RuleDispatchProofs` | theorems about `RuleDispatch` | `EXTENDS RuleDispatch, WellFoundedInduction, TLAPS` |
| `EventDelivery` | abstract specification: changes are handled in order, at most once, and skipped only before readiness | |
| `EventPipeline` | driver, event buffer, main loop, sync queue, sync loop, `Stop` | `INSTANCE EventDelivery` |
| `EventPipelineProofs` | theorems about `EventPipeline` and its refinement of `EventDelivery` | `EXTENDS EventPipeline, TLAPS` |
| `EngineTimers` | timers with their goroutines, the sync loop and shutdown | |
| `EngineTimersProofs` | theorems about `EngineTimers` | `EXTENDS EngineTimers, TLAPS` |
| `SmsQueue` | `sendSMS` of `wb-notify.js` with its external commands | |
| `Alarms` | an alarm of `wb-alarms.js`: rules, delays, repeated messages | `EXTENDS SmsQueue` |
| `MCAlarms` | alarms of every kind | `EXTENDS Alarms` |
| `AlarmsProofs` | theorems about `Alarms` and `SmsQueue` | `EXTENDS Alarms, TLAPS` |
| `ScriptFiles` | files, watcher, sync loop and editor: loading, writing, removal, kills and restarts | |
| `MCScriptFiles` | a directory of two scripts and a system file | `EXTENDS ScriptFiles` |
| `ScriptFilesProofs` | theorems about `ScriptFiles` | `EXTENDS ScriptFiles, FiniteSetTheorems, TLAPS` |
| `ScriptItems` | what scripts define (rules, cron rules, trackers, devices), the cleanup scopes, `Cron`, queued callbacks | |
| `MCScriptItems` | two scripts with five definitions | `EXTENDS ScriptItems` |
| `ScriptItemsProofs` | theorems about `ScriptItems` | `EXTENDS ScriptItems, TLAPS` |
| `ControlProxies` | `DeviceProxy` and `ControlProxy`: reads, writes, the value cache, the revision | |
| `ControlProxiesProofs` | theorems about `ControlProxies` | `EXTENDS ControlProxies, TLAPS` |

### RuleDispatch

One action per step of the sync loop or of the driver. `RunRules` is the code up to the
copy of `ruleList`: it sets the check modes and pushes a frame; `SkipRule` and
`CheckRule` take one rule of the innermost frame; `ThenReturns` ends a rule's body;
`EndRun` pops the frame and resets `currentTimer`. While a body runs (or no frame is
open) a script may call `runRules()`, switch a rule, or define one; a reload is a thunk
of its own. `ControlValue` and `ControlMeta` are the driver's and come between any two
of these steps, so that a condition may see a newer value than the event it is checked
for. The four kinds of conditions (a control named in `whenChanged`, a function in
`whenChanged`, `asSoonAs`, `when`) differ in `CondFires`; what a function reads and
returns are the constants `Reads` and `Eval`, constrained only by
`ReadsDetermineEval`: a function that sees the same values in the controls it reads
gives the same result.

A named rule that is defined again is refused (`NameTaken`), but only when it is in the
tables of dependencies already: `MakeRules` is `NewRule`, and what follows it in
`DefineRule` depends on the name. `Rules` has an element for every definition, also for
those that will be refused, and `NameOf` says which share a name. What is refused in a
callback or a body stays in the tables until the next `Refresh`; a refusal while a file
is being loaded ends the script, and the `Refresh` follows at once.

Data left abstract: control names and values, results, rule order (a frame's rules are
taken in any order), how a value is converted. `owed` is a history variable: rules that
the current event has to fire because they name its control.

### EventDelivery, EventPipeline

Events are numbered. `EventPipeline` has one action per channel operation or critical
section of each goroutine. A receive from the observer and the `Retrieve` that follows
are two steps, as are the driver's test of `active` and its pushes; `QueueThunk` is the
main loop in `CallSync` and waits for room. `StopReturns` is the receive that ends
`Stop`. Other users of `CallSync` are a single action. The refinement maps `handled` to
the events `RunRules` was called with, `skipped` to the events dropped before readiness
and `ready` to the main loop having left `ReadyWaitLoop`.

### EngineTimers

A timer is a record with its goroutine's state. `stop()` is three steps (remove from
the tables, close `quit` with the entry locked, wait for `quitted`), interleaved with the
timer's goroutine, which ticks, pushes an `entryFunc` into the bounded queue or sees
`quit`. `TakeEntryFunc` reads `active` under the entry's lock, `FireTimer` is
`fireTimer`. `handleStop` takes the list of timers once and stops them one by one. Time
is left out: a started timer may tick at any moment, which includes every real schedule.

### SmsQueue, Alarms

The library on top of the engine. What it needs of the engine is taken from the other
modules: `StartEventRun` and `StartOtherRun` begin a pass over the two rules of an alarm
(an event of its control, or a pass without an event, which looks at every rule), the
disjuncts of `RuleStep` are the looks at a rule together with its body, in the order in
which the rules were defined, and a timer that was cleared does not fire
(`FiresOnlyWhileWanted` of `EngineTimers`). `ControlChange` is the driver's and comes
between any two of these steps. Timer callbacks and callbacks of commands are thunks,
never inside a pass. `Timers` keeps apart the timers that run and the variables that hold
their ids, as the code does: losing an id loses the timer. `Reload` starts the script
anew with any definition of the alarm; the virtual device keeps the stored value of the
alarm's control. Delays have no length: a timer may fire at any moment. A message is
sent, waits, is preceded by the check of the modem, or is lost with a command that
cannot be run. A value is known by the comparisons that hold of it (`Below`, `AtLeastMin`, `Above`,
`AtMostMax`, `Expected`). The condition of a range may read the control twice: `FirstRead`
is the comparison with `min` when `||` or `&&` does not end there (`MaxMatters`), and the
look is over with the second read (`Verdict`), which may see another value. The history
variable `doubt` names the race of finding 3: it is set when the control changes after the
look at `activate` and before the last read of the look at `deactivate`, and until a look
finds a rule due to fire, or none whose condition is true.

### ScriptFiles

Four parties. `WatcherLoads` and `WatcherRemoves` turn file events into thunks, one at a
time: the watcher waits for the answer of a load and not for that of a removal. The sync
loop takes a thunk in the steps between which the others may act: read the file and
compare its hash (`NothingToLoad`, `Track`), clean up the old version (`CleanUp`), enter
the new one into `sources` (`Register`), read the file again and run it (`RunScript`). The
editor's calls read the tables from their own goroutine (`CallSave`, `CallRemove`, ...) and
act on what they have read later (`DeleteFile`, `StatTarget`, `MoveFile`, or a `save` thunk).
Everybody else writes and deletes files, and `Restart` is a kill at any of these steps
followed by a new start, which loads the files one by one and only then answers the editor.
A path is a name and whether it ends in `.disabled`; the two have one virtual path, which
is the key of the hash and of `editableSources`. A content is a value, and some contents
throw. `ListPanics` is `ListSourceFiles` meeting an entry of `editableSources` that has no
entry in `sources` yet (see section 4). `clashed` and `raced` are history variables that
name the two cases in which the code cannot know better.

### ScriptItems

`frames` is the stack of script code on the sync loop: a load or a callback, and in it the
bodies that `runRules()` and `runRule()` call. An item is a definition together with the
load that made it, so that an old version's items differ from the new one's. `BeginLoad`
runs the cleanups of the old version and opens a scope. `DefineRule` and `DefineTracker` open
a scope of their script for the cleanup they file; `DefineDevice` files it under whatever
scope is innermost, or nowhere (`FileCleanup`). The end of a load closes the scope and
refreshes the `Cron`. `SetupCron` makes a new `Cron` with new ids, `AddToCron` is
`MaybeAddToCron`, `CronFires` is the library's goroutine that queues a thunk, and
`TakeThunk` runs it or finds that its context is no longer valid. A message of MQTT copies
the trackers of its topic and queues their callbacks one by one. Rules fire whenever they
are registered: when they should is the business of `RuleDispatch`.

### ControlProxies

One control of one device, virtual (`local`) or external. A read is `Begin`, `LookAt`, `Find`,
`CheckCache`, `Access` and `Store`, and the driver's `Receive` and `ReceiveMeta` come between
any two of them, as only `Access` and `Write` are transactions; a write first does all of
a read, since `SetValue` compares with the old value. Control objects are numbered as
they are made, so that a device defined anew has another object than the one a proxy may
have kept. `devProxy` tells whether the device proxy's revision is the engine's. A write to
a local control leaves it with any value (`Write`): what the script gave, what the control
made of that, or the old one when `UpdateValue` returns an error; `TellCache` stores what
the script gave in each case. Two history variables state the properties: `seen`, the
values of the control since the access began, and `stale`: the control has got another
value than its cache was told, by an update that came before the cache was stored, by a
write without notification, or by a write that was refused or converted.

## 3. Runs

| Run | Instance | Shows |
|---|---|---|
| `rules_core` | a `whenChanged` function and a rule on a control and another's metadata in two files, with definitions, reloads and switching | types; check modes are used up by the calls they were set for; no change of a function's value goes unnoticed; a change of a named control or its metadata fires its rule; under fairness conditions settle |
| `rules_nested` | an `asSoonAs` rule on controls that may be incomplete, a timer rule and a rule without controls, `runRules()` in bodies, reloads, a second definition of a name | what tables hold of a rule that does not exist is what a refused definition left there; dependencies of `asSoonAs` are never lost; no edge is missed once all events are handled; the timer flag is not seen outside its pass |
| `rules_array_refresh` | a `whenChanged` array and reloads | **violated**: after a reload the array's functions lose their controls |
| `rules_nested_event` | `runRules()` in a body | **violated**: the inner call uses up the check modes of the event being handled |
| `pipeline` | a queue of two, four events, one foreign thunk | FIFO without loss or duplication, no lost wake-up, buffer emptied at shutdown, refinement of `EventDelivery`, every event handled, `Stop` returns |
| `timers` | two timers, one name, two files, a queue of one | no callback after a stop, one timer per name, a reload stops exactly its own timers, no double close while running, what can survive shutdown |
| `timers_live` | one timer, a queue of two, fairness | every `stop()` returns; a timer left alone fires |
| `alarms` | alarms over a range and with an expected value, with and without delays, interval, limit and command; a value below, within and above the range and a text; three messages | the timers that run are those its state calls for, and none is forgotten; at most `maxCount` messages in a period; the alarm follows its control unless the control changed between the look at `activate` and the last read of `deactivate`; the SMS queue never waits for nothing; a waiting message gets its turn |
| `alarms_end` | the same | **violated**: an alarm may outlive its cause |
| `scripts` | two scripts that may be disabled and a system file, two contents of which one throws, three acts of users, fairness | the tables agree; when nothing is left to do the engine runs what is on disk and shows the editor the files and errors there are; no idle reload; whoever waits for the sync loop has exactly one thunk there; every call is answered |
| `script_items` | two scripts with two cron rules, a tracker, a device and a rule | no code of a removed item runs; what a version of a script defined goes with it; every cron rule has exactly its own entry; the client is subscribed to what trackers ask for |
| `proxies` | a control with two values, three control objects, writes that are refused or converted | reads return a value the control has had meanwhile; the cache follows the control; a proxy that is up to date has the present control |

Bounds. Two events in flight (`MaxQueue`) give an event that is being processed and one
that overtakes its reads; two controls give a condition whose reads depend on what it
read; two files give a reload that must keep another file's rules; `MaxDepth` 2 gives a call
inside a call, and the proofs cover any depth; three of the four
rules of `rules_nested` have one name in one file, so that one exists while another is
refused, and a reload may then exchange them. The sync queue of one or two places (32 in the code,
`SYNC_QUEUE_LEN`) is full in most states, which is the interesting case; four events
exceed buffer, batch, queue and running thunk together. Two timers cover two timers of
one name, two of one file and a stop of one while the other's goroutine holds the
queue's only place. For alarms one event in flight (`MaxEvents`) is enough for a value
that changes between two looks or two reads, from above the range to below it as well; limits 0, 1 and 2 are the count that is used up before
the interval starts, with its first message, and at a tick; three messages fill the
queue behind a command (a fourth is not followed while three are under way); there are
never more than four timers (`Ids`), one of a kind and one whose id is lost.

Three acts of users (`MaxOps`) are a call of the editor, a file written under it and a kill
or a second call; a script, its disabled twin and another script give renames onto a free
and a used name, and the system file is one outside the source root. Two loads, three
entries of a `Cron` (`MaxLoads`, `MaxEntries`), one queued callback and a body in a body are
the smallest instance in which a callback is older than its script, the `Cron` older than a
reload, and code of one file defines while another's is loaded. Three control objects are
one that a proxy has kept, its successor, and one more.

Deadlock is not checked where the system may stop: the pipeline and the timers end with
`Stop` (or a panic), the counters of events, timers, loads, acts of users and control
objects are bounded, and a user need not act.

Fairness. Goroutines keep running (weak fairness of each one's step). A goroutine that
waits to send on a channel is served in FIFO order by the Go runtime, hence strong
fairness of `QueueThunk` and of a timer's push. `select` picks at random among ready
cases, hence strong fairness of `SyncLoopQuits`. Scripts return (`ThenReturns`,
`ScriptReturns`, `RuleStep`). In `ScriptFiles` the watcher, the sync loop and a call of the
editor that has begun go on (weak fairness of `Watcher`, `SyncLoop`, `EditorSteps`).
External commands end, and their callbacks are thunks that the sync loop takes sooner or
later among others (strong fairness of `ModemChecked` and `DoneCallback`); a command that cannot be run is the exception, and `EverySmsSent` says
so. Nothing is assumed of the driver, of timers being started, of scripts
calling anything, of users or of `Stop` being called.

Each property has a mutant of the model in `PROJECT.json`, a plausible bug in the code
(a dropped reset, a lookup under the wrong key, a queue operation that does not wait),
under which TLC finds that property violated. The mutated operators stand before the
originals in the modules, marked `Mutant:`.

## 4. Findings

Disagreements between the code and what the repository says of it, each shown by a run
that TLC ends with a counterexample:

1. `whenChanged` arrays and reloads (`rule.go:215`), run `rules_array_refresh`: the flag
   that makes an array call all of its conditions once is not reset by `Refresh`, which
   forgets the controls those calls had collected.
2. `runRules()` in a body swallows the event for rules that the outer pass has not
   reached (`rule.go:313`), run `rules_nested_event`.
3. An alarm whose control leaves its bounds and returns between the looks at the two
   rules is activated and not deactivated until the next excursion is over
   (`wb-alarms.js:276`), run `alarms_end`. By the same race an alarm may never be raised: a
   control that is out of bounds at the first look only, and leaves them again between two
   passes, finds the condition of `activate` true already. The change may also fall
   between the two reads of a range (`wb-alarms.js:277`): a control that goes from above
   `max` to below `min` there passes both comparisons, and the alarm is deactivated and not
   raised again although the control was never within its bounds. `AlarmFollowsControl`,
   checked by the run `alarms` and proved, says that without a change in this window the
   alarm follows its control.

The models also contain behaviour that a maintainer should know of and that no run is
spent on. The properties above allow for it explicitly.

- A named rule that is defined again from a callback or a body is refused
  (`engine.go:1897`) after `NewRule` has entered it in the tables of dependencies, where it
  stays until the next `Refresh` (`StraysWereRefused`). `RunRules` goes through `ruleList`
  and never meets it.
- A disabled rule still has its condition evaluated and remembers the result
  (`rule.go:316`), although `src/README.md:615` says that its check is turned off.
- A timer pass evaluates `whenChanged` functions (`rule.go:303`), which `src/README.md:584`
  says it does not.
- `Stop` may return before the main loop has ended: it takes one value from `syncQueue`
  for the sign that it was closed (`engine.go:1379`).
- A cron rule that `disableRule` has stopped is armed again by the reload of any file
  (`setupCron` adds it without asking whether it is enabled), and a callback that was queued
  before it was disabled still fires.
- `editableSources` is written before `sources` and without its lock, so that
  `ListSourceFiles` may follow a path to an entry that does not exist yet
  (`esengine.go:769-790`).
- `x.js` and `x.js.disabled` share a hash and an entry of the list: with both on disk one
  hides the other, and the removal of one drops the hash of the other, which is then
  loaded once more. All files outside the source root share one hash key.
- A file that is written while it is being loaded is read twice: the hash may be that of the
  first content and the script that of the second.
- A device that a rule's body defines outside of any load has no cleanup; defined while
  another file is being loaded it goes with that file (`src/README.md:1638-1641` says
  that the removal of a definition is tracked and handled).
- `ControlProxy.Value` and `SetValue` store what they have read or written without asking
  whether an update came in between, and `setValue` with `notify: false` does not tell the
  cache: until the next update or revision the cache shows another value than the
  control. `SetValue` does not look at the error of `UpdateValue` before it tells the cache
  the value of the script (`engine.go:435-438`), nor at what the control has made of it: a
  script then reads a value that the control never had. Between the removal of a device in a load and the `Refresh` at its end, proxies
  read and write the removed device's control, although the comment at `engine.go:126`
  says the actual one is always accessed.

## 5. Proofs

What is proved holds for every value of the constants that satisfies the assumptions of
the module (sorts are disjoint, conditions belong to one rule, bounds are numbers,
`ReadsDetermineEval`, there are finitely many scripts). Two theorems have hypotheses of
their own, which the table names and the text below explains. `TypeOK` is in the
configuration of `rules_core` only: in the other modules it is a theorem, and part of
every other one.

| Module | Theorem | Property |
|---|---|---|
| `RuleDispatchProofs` | `TypeCorrect` | `TypeOK` |
| | `ModesBelongToCalls` | `CallsOwnTheirModes` |
| | `StraysAreRefused` | `StraysWereRefused` |
| | `TimerFlagIsOwn` | `TimerFlagBelongsToItsRun` |
| | `DependenciesTracked` | `EdgesTracked` |
| | `NoEdgeMissed` | `NoMissedEdge` |
| | `NamedChangesFire` | `CellChangesFire`, if `NoNestedRuns` |
| | `NoFunctionChangeMissed` | `NoMissedFunctionChange`, if `NoNestedRuns`, `ControlsReceived` and `FunctionsAlone` |
| `EventPipelineProofs` | `TypeCorrect` | `TypeOK` |
| | `SignalNotLost` | `NoLostWakeup` |
| | `DrainedAtStop` | `BufferDrainedAtStop` |
| | `EventsInOrder` | `NothingLostOrReordered` |
| | `PipelineDelivers` | `Implements`, the refinement of `EventDelivery` |
| `ScriptItemsProofs` | `TypeCorrect` | `TypeOK` |
| | `NoDeadCode` | `CalledItemsAreLive` |
| | `CleanupsComplete` | `NothingOutlivesItsScript` |
| | `CronAsRules` | `CronKnowsItsRules` |
| | `SubscriptionsAsTrackers` | `SubscribedWhileTracked` |
| `ControlProxiesProofs` | `TypeCorrect` | `TypeOK` |
| | `ReadsCurrent` | `ReadsAreCurrent` |
| | `CacheFollows` | `CacheFollowsControl` |
| | `ProxyFollows` | `ProxyFollowsDevice` |
| `EngineTimersProofs` | `TypeCorrect` | `TypeOK` |
| | `StoppedStays` | `StoppedForGood` |
| | `NamesAreUnique` | `OneTimerPerName` |
| | `CleanupsKnow` | `CleanupsKnowTheTimers` |
| | `RunsWithoutPanic` | `NoPanicWhileRunning` |
| | `OnlyLateSurvive` | `OnlyLateTimersSurvive` |
| | `FiresOnlyWanted` | `FiresOnlyWhileWanted` |
| `AlarmsProofs` | `TypeCorrect` | `TypeOK` |
| | `TimersAsState` | `TimersMatchState` |
| | `WithinLimit` | `MessagesPerPeriod` |
| | `QueueMoves` | `QueueKeepsMoving` |
| | `AlarmFollows` | `AlarmFollowsControl` |
| `ScriptFilesProofs` | `TypeCorrect` | `TypeOK` |
| | `EntriesAgree` | `TablesAgree` |
| | `EngineFollowsFiles` | `LoadedAsOnDisk` |
| | `NoReload` | `NoIdleReload` |
| | `AnswersComing` | `AnswersOnTheirWay` |

**Rule dispatch.** `TypeOK` is inductive. `CallsOwnTheirModes` is inductive relative to it:
a mode is set only together with a frame whose `todo` is the whole rule list, and only
the check that takes the rule off that `todo` resets it; a nested frame is popped only
with an empty `todo`, and a reload happens only with no frame at all.
`StraysWereRefused` is inductive relative to both: rules only go with a reload, which takes
away with `Refresh` what the tables hold, so that a name once taken stays taken as long as
its stray is there (`NameStaysTaken`), and no check registers a rule that does not exist
(`StoreRuleDepsGrows`). For dependency tracking the
statement itself is inductive: every `asSoonAs` condition that does not look at timers is
due for a first look, or scheduled in a call in progress, or was last evaluated on some
valuation `v` such that its rule is registered for everything it read in `v`, and every
difference between `v` and the present values is announced by an event still in the
queue. The delicate step is `StartEventRun`, which takes that announcement away: the rule
is registered for the changed control, so `Selected` gives it a mode, and by
`CallsOwnTheirModes` a call will reach it. `CheckRule` takes the present valuation for
`v`. When no event is in flight and no call in progress, `v` agrees with the present
values on everything the condition reads, so by `ReadsDetermineEval` its remembered
value is the one it would give now: `NoMissedEdge`.

What `whenChanged` promises is proved of scripts that do not call `runRules()`
(`NoNestedRuns`; the run `rules_nested_event` shows that it fails otherwise). Then there is
never more than one call (`OneRun`), and a rule that the present event has selected keeps
its mode until that call takes it. For `NamedChangesFire` the invariant is
`OwedWillFire`: a rule that the event has still to fire is in `todo` with a mode that lets
it fire. `CheckRule` then fires it: of the conditions in its array that the event makes
true, one is the first (by the well-foundedness of the natural numbers), and none before
it ends the search (`SomeCondFires`). For `NoFunctionChangeMissed` the invariant is
`FunctionsFollowed`, which is that of `NoMissedEdge` with one difference: a function in
`whenChanged` is only called for an event that changes something (`WillCall`), so that
what announces a difference must be an event that carries a change (`ChangeAnnounced`).
Two things make that hold. A rule that is due for its first look is in no table of
dependencies, so that an event without a change cannot use up that look (`FirstLooks`).
And every control has a value (`ControlsReceived`), buttons apart: the first value of a
control is no change for `whenChanged` (`rule.go:145` and `171`), and a function that has
seen the control incomplete is not called for it. `FunctionsAlone` excludes arrays with
functions, about which `rules_array_refresh` says what goes wrong. The instance of
`rules_core` satisfies all three hypotheses.

**Event pipeline.** `WakeInv` adds to `NoLostWakeup` that the main loop waits, drops or
retrieves only with an empty batch (`BatchQueued`) and that, once it stops, the buffer is
closed and everything empty (`Drained`): a push on the closed buffer ends the process, so
that nothing comes in afterwards. `OrderInv` is what the refinement needs: buffer, batch
and queue hold the numbers of the events in order and without a gap from the newest
back to the one that the rules have seen last (`BufferOrder`, `QueueOrder`), and nothing has
been handled before readiness (`NotReady`). A step of the pipeline is then `Push`, `Skip`,
`Handle` or `BecomeReady` of `EventDelivery`, or changes nothing that it sees. `RunOrder`
adds that the events which the rules have seen rise from the last one dropped up to the
first one in the queue. What has been seen, the queue, the batch and the buffer, one after
the other (`Way`), are then in order without a gap, wherever one part ends and the next
begins: `EventsInOrder`.

**What scripts define.** The properties are proved together, since each needs the others.
`Filed`: an item's cleanup is on one list, and only a device's may be on another script's.
`Made`: an item's number is that of a load that has been, so that a new load's items are
new. `Queued`: a tracker with a queued callback is registered or its script has changed,
which is why the callback of a valid context finds its tracker, whatever was reloaded
while it waited. `EntriesKnown`: outside of loads the id that a cron rule keeps is that of an
entry of its own, so that disabling a rule removes the right entry and defining one adds
a second to no rule.

**Proxies.** `OpOK` is what an access knows at each of its steps, `DeviceOK` and `SameOK` that
a proxy that was never out of date has one control, which it uses throughout the access
and which is watched as soon as anything is cached; `CacheOK` that what is about to be
stored is the control's value unless an update was noted; `SeenOK` that whatever the
access may still return was the control's value since it began. The exceptions in
`ReadsAreCurrent` (`lags`) are those of section 4: a cache that was passed by, quietly or by
a race, a cache that was told what the control did not take, and a control read while
its file is being loaded anew.

**Timers.** `Numbered`: ids are handed out one after the other, so that a new timer is new.
`LoopOK`, `SyncOK`, `StopOK` and `MainOK` say how far each goroutine has come; a name is free
while a timer of that name is about to start, since the old one has left the tables in a
step before. `Kept` is the heart of it: a timer that runs, or will once the engine is
ready, is in the tables or in the hands of somebody who will stop it, or was started after
`handleStop` had taken the list. `ClosedOnce`: while the engine is not being stopped, only
the `stop()` that has closed `quit` knows the timer, so that nobody closes it again.
`OneShotOK`: the `entryFunc` of a one-shot timer is in the queue, taken, or in its
callback, and never in two of these places.

**Alarms.** `Known`: every timer that runs is named by the variable of its kind, and no two
variables hold the same id; a new id is free because there are three variables and four
ids. `Match` is `TimersMatchState` without the timers' ids, and tells how many messages may
be left while the repeating timer runs. `Counted`: what was sent and what is left never
exceed the limit. `Waiting`: what is in the SMS queue waits, once each. `RulesAgree` is what
`AlarmFollowsControl` needs: a rule that has been looked at in this pass, or both when there
is nothing left to look at, remembers whether its condition holds now (`LooksAgree`); a
condition of `activate` that has been read once, with no event pending, is still within
`min` (`HalfKnown`), and a change during the look at `deactivate` is a doubt, so that the
second read gives what the whole condition says of one value; a
remembered `activate` means that the alarm is triggered and a remembered `deactivate` that it
is not. None of this holds while `doubt` is set, and the looks restore it: `asSoonAs` fires
when a condition becomes true, and the rule that fires sets `wasTriggered` and with it both
halves (`FirstLook`, `SecondLook`).

**Script files.** `Stages` says what the sync loop has done of a load. `AbsentGone`: a file
that is gone is gone from the engine, or its removal is to be handled. `HashAsDisk` and
`LoadedAsHash` are the two halves of `LoadedAsOnDisk`: the hash of a file is up to date
unless its load is to be handled or in progress, and what the hash stands for is loaded
unless it is being loaded or a removal will drop it. `LoadsLast` is what makes the second
hold after a rename there and back: a removal that is still on its way is followed by the
load of the file that has taken the place. `HashHasFile`, `HashWhileBusy` and `ClashesNoted`
serve these. The exemption of a pending removal in `NoIdleReload` came out of the proof:
a save does not go through the watcher and overtakes its events, so that the disabled
twin may be saved, and leave its hash, before the removal of the other file has been
handled; written again, that file is loaded although it runs. It takes seven acts of
users, more than the run's three. `Awaited` is `AnswersOnTheirWay` without numbers of
elements: whoever waits has exactly one thunk, which is in the queue or is the job. Taking a
thunk moves every place in the queue by one, and the first becomes the job, place 0
(`TakeFacts`), so that nobody gets a second thunk or loses the one they have.

Only model-checked are the liveness properties, since fairness and `ENABLED` are out of the
prover's reach: `ConditionsSettle`, `EveryEventHandled`, `StopTerminates`, `StopsReturn`,
`TimersFire`, `EverySmsSent`, `CallsAnswered`. Every invariant and every action property of
a passing run is a theorem above. The two theorems about `whenChanged` carry the hypotheses
that the table names; where these do not hold, the runs `rules_nested_event` and
`rules_array_refresh` show that the promise is broken.

## 6. Not modelled, and what is left

- `RuleDispatch` evaluates a condition function in one step. A function that reads a control
  twice may see two values; a change during the look is followed by its event and another
  look. What an alarm's range makes of that is in `Alarms`.
- Persistent storage: each operation is one database transaction on the sync loop.
- `addControl`, `removeControl` and `setMeta` of virtual devices: single transactions of the
  external driver.
- The editor's validation of names and its `List` and `Load`, which change nothing; module
  search (`require`) and the state of modules.
- The table of callbacks with its finalizers and the conversions in `escontext.go`, string
  helpers, formatting, logging, command-line handling.
- `RunAllCleanups` at `Stop`, which races with scripts the sync loop may still run; the
  process ends with it.
- E-mail, Telegram and webhooks: one external command each, without state.

`wbgong` (driver, MQTT, file watcher), Duktape, `robfig/cron` and bbolt are external: what
the models say of them is how the code here uses them.

What would come next: `NamedChangesFire` for scripts that call `runRules()` only from rules
on timers, where no event can be overtaken; how a message that `spawn` could not send is
noticed by the alarm; persistent storage, once it is more than single transactions.
