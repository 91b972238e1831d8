---------------------------- MODULE RuleDispatch ----------------------------
(***************************************************************************)
(* How the rule engine decides which rules to look at and which to fire:   *)
(* RuleEngine.RunRules with the dependency bookkeeping around it           *)
(* (wbrules/engine.go) and Rule.Check with the rule conditions             *)
(* (wbrules/rule.go).                                                      *)
(*                                                                         *)
(* Everything here but ControlValue and ControlMeta runs on the engine's   *)
(* sync loop, one thunk at a time.  The two exceptions are the driver's:   *)
(* control values change between any two steps of the sync loop.  A step   *)
(* of this module is one rule of one RunRules call, so a change may come   *)
(* between two rules of a call; a condition function is read in one step.  *)
(*                                                                         *)
(* Abstractions.  Control names, values and results of functions are       *)
(* opaque.  The order of ruleList is left open: the rules of one call are  *)
(* checked in any order.  Cron rules never fire from RunRules and are not  *)
(* among Rules.  A rule that is defined again after a removal is a new Go  *)
(* object; StraysWereRefused says that no table still holds the old one.   *)
(* A definition that is refused because of its name has its own element of *)
(* Rules, also when it repeats the definition that has the name.           *)
(***************************************************************************)
EXTENDS Integers, Sequences, Functions

CONSTANTS
  Controls,     \* controls of the devices known to the driver
  Metas,        \* specs "control#field" of the controls' metadata
  MetaOf,       \* MetaOf[m]: the control that meta spec m belongs to
  Buttons,      \* specs of type pushbutton
  Retained,     \* specs whose values are retained in MQTT
  Values,       \* values a control can have
  NoValue,      \* nil: nothing received yet, the control is incomplete
  InitValues,   \* possible contents of the controls when the engine is ready
  Timers,       \* names given to startTimer() and startTicker()
  NoTimer,      \* NO_TIMER_NAME
  Rules,        \* rules that scripts may define
  NoRule,       \* no rule's body is running
  NoEvent,      \* nil in place of a *ControlChangeEvent
  Files,        \* script files
  FileOf,       \* FileOf[r]: the file that defines rule r
  NameOf,       \* NameOf[r]: the name that defineRule() gives it
  NoName,       \* no name
  Conds,        \* elementary conditions
  Kind,         \* Kind[c] \in {"cell", "level", "edge", "func"}
  SpecOf,       \* SpecOf[c]: the control named by a "cell" condition
  CondsOf,      \* CondsOf[r]: the conditions of r, several in a whenChanged array
  Results,      \* results of condition functions
  Eval(_, _, _),  \* Eval(c, v, t): result of c's function on values v, timer t
  Reads(_, _, _), \* Reads(c, v, t): the controls and timers it looks at then
  Calls,        \* what scripts may do: "runRules", "setState", "define", "reload"
  MaxQueue,     \* bound on the events in flight
  MaxDepth      \* bound on the nesting of runRules() calls

Specs == Controls \cup Metas
Valuations == [Specs -> Values \cup {NoValue}]
TimerNames == Timers \cup {NoTimer}
Event == [spec: Specs, value: Values \cup {NoValue}, prev: Values \cup {NoValue},
          complete: BOOLEAN]
Frame == [event: Event \cup {NoEvent}, timer: TimerNames, todo: SUBSET Rules,
          firing: Rules \cup {NoRule}]

ASSUME SortAssumption ==
  /\ Controls \cap Metas = {} /\ Specs \cap Timers = {}
  /\ MetaOf \in [Metas -> Controls]
  /\ NoValue \notin Values /\ NoTimer \notin Timers /\ NoRule \notin Rules
  /\ NoEvent \notin Event
  /\ InitValues \subseteq Valuations
  /\ FileOf \in [Rules -> Files] /\ DOMAIN NameOf = Rules
  /\ Kind \in [Conds -> {"cell", "level", "edge", "func"}]
  /\ SpecOf \in [Conds -> Specs]
  /\ CondsOf \in [Rules -> Seq(Conds)]
  /\ {"true", "false", "nil"} \subseteq Results
  /\ MaxQueue \in Nat /\ MaxDepth \in Nat

\* A condition belongs to one rule: every defineRule() wraps its own functions.
\* Only a whenChanged array has several.
ASSUME OwnConds ==
  /\ \A r \in Rules : IsInjective(CondsOf[r])
  /\ \A r \in Rules :
       Len(CondsOf[r]) = 1 \/ \A c \in Range(CondsOf[r]) : Kind[c] \in {"cell", "func"}
  /\ \A r, q \in Rules : r # q => Range(CondsOf[r]) \cap Range(CondsOf[q]) = {}

\* A condition function is determined by what it looks at, and metadata is not
\* among that (a read of dev["d/c#field"] is recorded as a read of d/c only).
ASSUME ReadsDetermineEval ==
  \A c \in Conds, v \in Valuations, t \in TimerNames :
    /\ Eval(c, v, t) \in Results
    /\ Reads(c, v, t) \subseteq Controls \cup Timers
    /\ \A w \in Valuations :
         (\A s \in Reads(c, v, t) \cap Controls : v[s] = w[s])
           => /\ Eval(c, w, t) = Eval(c, v, t)
              /\ Reads(c, w, t) = Reads(c, v, t)

VARIABLES
  values,           \* control values as condition functions read them
  queue,            \* events pushed by the driver, not yet given to RunRules
  rules,            \* rules in ruleList and ruleMap
  enabled,          \* Rule.enabled
  mode,             \* Rule.checkMode
  memo,             \* prevCondValue or oldValue of the conditions
  initialized,      \* OrRuleCondition.initialized
  deps,             \* controlToRulesListMap
  withoutControls,  \* rulesWithoutControls: "absent", "false" or "true"
  timerRules,       \* timerRules
  uninit,           \* uninitializedRules
  currentTimer,     \* currentTimer
  stack,            \* the RunRules calls in progress, innermost last
  owed              \* history: rules that the current event still has to fire

tables == <<deps, withoutControls, timerRules, uninit>>
ruleState == <<rules, enabled, mode, memo, initialized>>
vars == <<values, queue, ruleState, tables, currentTimer, stack, owed>>

-----------------------------------------------------------------------------
(* What the conditions of a rule make of an event *)

CondSet(r) == Range(CondsOf[r])

\* Rule.hasDeps: the specs a rule names itself are known before it ever runs.
HasDeps(r) == \E c \in CondSet(r) : Kind[c] = "cell"

NeedsInit(r) == \E c \in CondSet(r) : Kind[c] # "cell"

NamedDeps(s, R) == {r \in R : \E c \in CondSet(r) : Kind[c] = "cell" /\ SpecOf[c] = s}

FreshMemo(c) == IF Kind[c] = "edge" THEN "false" ELSE "nil"

\* The test that both whenChanged conditions apply to an event.
IsChange(e) ==
  /\ e.complete
  /\ e.spec \in Buttons \/ e.prev # NoValue
  /\ ~ (e.spec \in Retained /\ e.prev = e.value)

CellFires(c, e) == e # NoEvent /\ e.spec = SpecOf[c] /\ IsChange(e)

\* Is the condition's function called at all?
IsCalled(c, e) ==
  \/ Kind[c] \in {"level", "edge"}
  \/ Kind[c] = "func" /\ (e = NoEvent \/ IsChange(e))

Result(c) == Eval(c, values, currentTimer)

CondFires(c, e) ==
  \/ Kind[c] = "cell"  /\ CellFires(c, e)
  \/ Kind[c] = "level" /\ Result(c) = "true"
  \/ Kind[c] = "edge"  /\ Result(c) = "true" /\ memo[c] # "true"
  \/ Kind[c] = "func"  /\ IsCalled(c, e) /\ Result(c) # memo[c]

\* An initialized array of conditions stops at the first one that fires.
CheckedConds(r, e) ==
  {CondsOf[r][i] : i \in {j \in DOMAIN CondsOf[r] :
     initialized[r] => \A k \in 1 .. (j - 1) : ~ CondFires(CondsOf[r][k], e)}}

CalledConds(r, e) == {c \in CheckedConds(r, e) : IsCalled(c, e)}

ShouldFire(r, e) == \E c \in CheckedConds(r, e) : CondFires(c, e)

\* Mutant: dependencies are only collected from a condition that holds.
NotedWhenFiring(r, e) ==
  IF ShouldFire(r, e) THEN UNION {Reads(c, values, currentTimer) : c \in CalledConds(r, e)}
  ELSE {}

\* notedControls and notedTimers once the condition has been checked
Noted(r, e) == UNION {Reads(c, values, currentTimer) : c \in CalledConds(r, e)}

-----------------------------------------------------------------------------
(* The steps of a RunRules call *)

Top == stack[Len(stack)]
SetTop(f) == [stack EXCEPT ![Len(stack)] = f]

\* JavaScript other than a condition function is running: a callback on its own
\* thunk or the body of the rule that the innermost call is firing.
InScript == stack # <<>> => Top.firing # NoRule

\* Mutant: an event of a control's metadata is looked up under the control.
SelectedByControl(r, e, t) ==
  IF \/ e # NoEvent /\ withoutControls[r] = "true"
     \/ t # NoTimer /\ r \in timerRules[t]            THEN "Independent"
  ELSE IF /\ e # NoEvent /\ e.complete
          /\ r \in deps[IF e.spec \in Metas THEN MetaOf[e.spec] ELSE e.spec] THEN "WithEvent"
  ELSE IF r \in uninit                                    THEN "Independent"
  ELSE mode[r]

\* The mode RunRules gives rule r; the later assignments override.  Nobody asks for the
\* mode of a rule that does not exist.
Selected(r, e, t) ==
  IF r \notin rules                                      THEN mode[r]
  ELSE IF \/ e # NoEvent /\ withoutControls[r] = "true"
          \/ t # NoTimer /\ r \in timerRules[t]         THEN "Independent"
  ELSE IF e # NoEvent /\ e.complete /\ r \in deps[e.spec] THEN "WithEvent"
  ELSE IF r \in uninit                                    THEN "Independent"
  ELSE mode[r]

\* Mutant: disabled rules are left out of the loop.
RunRulesOnEnabled(e, t) ==
  /\ mode' = [r \in Rules |-> Selected(r, e, t)]
  /\ uninit' = {}
  /\ currentTimer' = IF t # NoTimer THEN t ELSE currentTimer
  /\ stack' = Append(stack, [event |-> e, timer |-> t, firing |-> NoRule,
                             todo |-> {r \in rules : enabled[r]}])
  /\ UNCHANGED <<values, rules, enabled, memo, initialized, deps, withoutControls,
                 timerRules>>

\* RunRules up to the point where the copy of the rule list is made.
RunRules(e, t) ==
  /\ mode' = [r \in Rules |-> Selected(r, e, t)]
  /\ uninit' = {}
  /\ currentTimer' = IF t # NoTimer THEN t ELSE currentTimer
  /\ stack' = Append(stack, [event |-> e, timer |-> t, todo |-> rules, firing |-> NoRule])
  /\ UNCHANGED <<values, rules, enabled, memo, initialized, deps, withoutControls,
                 timerRules>>

\* The rules that have to fire when e is processed: e is a change of a control
\* they name themselves.
Owed(e) == {r \in rules : enabled[r] /\ \E c \in CondSet(r) :
                             Kind[c] = "cell" /\ CellFires(c, e)}

\* The thunk that processEvent queued for the oldest event.
StartEventRun ==
  /\ stack = <<>> /\ queue # <<>>
  /\ RunRules(Head(queue), NoTimer)
  /\ queue' = Tail(queue)
  /\ owed' = Owed(Head(queue))

\* fireTimer of a named timer.
StartTimerRun(t) ==
  /\ stack = <<>>
  /\ RunRules(NoEvent, t)
  /\ UNCHANGED <<queue, owed>>

\* runRules() and runRules(device, control) called by a script; the event made of
\* the two arguments is not complete.
CallRunRules(e) ==
  /\ "runRules" \in Calls /\ InScript /\ Len(stack) < MaxDepth
  /\ RunRules(e, NoTimer)
  /\ UNCHANGED <<queue, owed>>

\* The next rule of the call is not concerned by its event.
SkipRule(r) ==
  /\ stack # <<>> /\ Top.firing = NoRule /\ r \in Top.todo
  /\ Top.event # NoEvent /\ mode[r] = "None"
  /\ stack' = SetTop([Top EXCEPT !.todo = @ \ {r}])
  /\ UNCHANGED <<values, queue, ruleState, tables, currentTimer, owed>>

\* Mutant: the controls of a rule are stored once.
StoreRuleDepsOnce(r, noted) ==
  LET ctrls == IF \E s \in Specs : r \in deps[s] THEN {} ELSE noted \cap Controls
  IN /\ deps' = [s \in Specs |-> IF s \in ctrls THEN deps[s] \cup {r} ELSE deps[s]]
     /\ withoutControls' = [withoutControls EXCEPT ![r] = IF noted = {} THEN "true" ELSE @]
     /\ UNCHANGED timerRules

\* StoreRuleDeps
StoreRuleDeps(r, noted) ==
  LET ctrls == noted \cap Controls
      tmrs  == noted \cap Timers
  IN /\ deps' = [s \in Specs |-> IF s \in ctrls THEN deps[s] \cup {r} ELSE deps[s]]
     /\ timerRules' = [t \in Timers |-> IF ctrls = {} /\ t \in tmrs
                                         THEN timerRules[t] \cup {r} ELSE timerRules[t]]
     /\ withoutControls' =
          [withoutControls EXCEPT ![r] =
             IF \E s \in ctrls : r \notin deps[s] THEN "false"
             ELSE IF noted = {} /\ ~ HasDeps(r) /\ @ = "absent" THEN "true"
             ELSE @]

\* The next rule of the call has its condition checked, and fires if that says so
\* and the rule is enabled.
CheckRule(r) ==
  LET e     == IF mode[r] = "Independent" THEN NoEvent ELSE Top.event
      fires == enabled[r] /\ ShouldFire(r, e)
  IN /\ stack # <<>> /\ Top.firing = NoRule /\ r \in Top.todo
     /\ Top.event = NoEvent \/ mode[r] # "None"
     /\ r \in rules
     /\ mode' = [mode EXCEPT ![r] = "None"]
     /\ memo' = [c \in Conds |-> IF c \in CalledConds(r, e) /\ Kind[c] # "level"
                                 THEN Result(c) ELSE memo[c]]
     /\ initialized' = [initialized EXCEPT ![r] = TRUE]
     /\ StoreRuleDeps(r, Noted(r, e))
     /\ stack' = SetTop([Top EXCEPT !.todo = @ \ {r},
                                    !.firing = IF fires THEN r ELSE NoRule])
     /\ owed' = IF fires THEN owed \ {r} ELSE owed
     /\ UNCHANGED <<values, queue, rules, enabled, uninit, currentTimer>>

\* The body of the rule returns.
ThenReturns ==
  /\ stack # <<>> /\ Top.firing # NoRule
  /\ stack' = SetTop([Top EXCEPT !.firing = NoRule])
  /\ UNCHANGED <<values, queue, ruleState, tables, currentTimer, owed>>

\* Mutant: the timer of the call stays current.
EndRunKeepsTimer ==
  /\ stack # <<>> /\ Top.firing = NoRule /\ Top.todo = {}
  /\ stack' = SubSeq(stack, 1, Len(stack) - 1)
  /\ UNCHANGED <<values, queue, ruleState, tables, currentTimer, owed>>

\* The end of RunRules.
EndRun ==
  /\ stack # <<>> /\ Top.firing = NoRule /\ Top.todo = {}
  /\ stack' = SubSeq(stack, 1, Len(stack) - 1)
  /\ currentTimer' = NoTimer
  /\ UNCHANGED <<values, queue, ruleState, tables, owed>>

-----------------------------------------------------------------------------
(* Scripts defining, removing and switching rules *)

\* esWbCtrlRule: enableRule() and disableRule(); a disabled rule owes nothing.
SetState(r, b) ==
  /\ "setState" \in Calls /\ InScript /\ r \in rules
  /\ enabled' = [enabled EXCEPT ![r] = b]
  /\ owed' = IF b THEN owed ELSE owed \ {r}
  /\ UNCHANGED <<values, queue, rules, mode, memo, initialized, tables, currentTimer,
                 stack>>

\* NewRule for every rule of R: the rule objects as they are first made.
MakeRules(R) ==
  /\ enabled' = [r \in Rules |-> IF r \in R THEN TRUE ELSE enabled[r]]
  /\ mode' = [r \in Rules |-> IF r \in R THEN "None" ELSE mode[r]]
  /\ memo' = [c \in Conds |-> IF \E r \in R : c \in CondSet(r)
                              THEN FreshMemo(c) ELSE memo[c]]
  /\ initialized' = [r \in Rules |-> IF r \in R THEN ~ NeedsInit(r) ELSE initialized[r]]

\* The rules of a file that have a name have different ones (ruleNames).
Homonyms(r, q) ==
  r # q /\ FileOf[r] = FileOf[q] /\ NameOf[r] = NameOf[q] /\ NameOf[r] # NoName

NamesDiffer(R) == \A r, q \in R : ~ Homonyms(r, q)

NameTaken(r) == \E q \in rules : Homonyms(r, q)

\* defineRule() from a callback or a rule body, outside the loading of a file.  A name
\* that is taken is noticed when the new rule is in the tables.
DefineRule(r) ==
  /\ "define" \in Calls /\ InScript /\ r \notin rules
  /\ MakeRules({r})
  /\ deps' = [s \in Specs |-> deps[s] \cup NamedDeps(s, {r})]
  /\ uninit' = IF NeedsInit(r) THEN uninit \cup {r} ELSE uninit
  /\ withoutControls' =
       [withoutControls EXCEPT ![r] = IF HasDeps(r) THEN "false" ELSE "absent"]
  /\ rules' = IF NameTaken(r) THEN rules ELSE rules \cup {r}
  /\ UNCHANGED <<values, queue, timerRules, currentTimer, stack, owed>>

\* Mutant: the map of controls is added to.
RefreshKeepsDeps(R) ==
  /\ deps' = [s \in Specs |-> deps[s] \cup NamedDeps(s, R)]
  /\ uninit' = {r \in R : NeedsInit(r)}
  /\ withoutControls' = [r \in Rules |-> "absent"]
  /\ timerRules' = [t \in Timers |-> {}]

\* Mutant: the rules are not due for a first look.
RefreshLooked(R) ==
  /\ deps' = [s \in Specs |-> NamedDeps(s, R)]
  /\ uninit' = {}
  /\ withoutControls' = [r \in Rules |-> "absent"]
  /\ timerRules' = [t \in Timers |-> {}]

\* Mutant: the map of timers is made without entries.
RefreshNilTimers(R) ==
  /\ deps' = [s \in Specs |-> NamedDeps(s, R)]
  /\ uninit' = {r \in R : NeedsInit(r)}
  /\ withoutControls' = [r \in Rules |-> "absent"]
  /\ timerRules' = [t \in {} |-> {}]

\* Refresh, with the rules in R the ones that exist
Refresh(R) ==
  /\ deps' = [s \in Specs |-> NamedDeps(s, R)]
  /\ uninit' = {r \in R : NeedsInit(r)}
  /\ withoutControls' = [r \in Rules |-> "absent"]
  /\ timerRules' = [t \in Timers |-> {}]

RulesOf(f) == {r \in Rules : FileOf[r] = f}

\* A file is loaded again: the cleanups of the old version, the definitions R of
\* the new one and Refresh are one thunk.  A definition that is refused ends the script.
\* With R = {} it is also LiveRemoveFile.  What a removed rule remembers goes with it.
ReloadFile(f, R) ==
  /\ "reload" \in Calls /\ stack = <<>> /\ R \subseteq RulesOf(f) /\ NamesDiffer(R)
  /\ rules' = (rules \ RulesOf(f)) \cup R
  /\ MakeRules(RulesOf(f))
  /\ Refresh(rules')
  /\ UNCHANGED <<values, queue, currentTimer, stack, owed>>

-----------------------------------------------------------------------------
(* The driver *)

\* Mutant: the previous value is read after the new one was stored.
EventForLate(s, v, complete) ==
  [spec |-> s, value |-> v, prev |-> v, complete |-> complete]

EventFor(s, v, complete) ==
  [spec |-> s, value |-> v, prev |-> values[s], complete |-> complete]

\* driverEventHandler on a ControlValueEvent: a new or a repeated value.
ControlValue(s, v) ==
  /\ Len(queue) < MaxQueue
  /\ values' = [values EXCEPT ![s] = v]
  /\ queue' = Append(queue, EventFor(s, v, TRUE))
  /\ UNCHANGED <<ruleState, tables, currentTimer, stack, owed>>

\* driverEventHandler on a NewExternalDeviceControlMetaEvent: an event for the
\* metadata and one for the control, whose value did not change.
ControlMeta(m, v) ==
  LET s        == MetaOf[m]
      complete == values[s] # NoValue
  IN /\ Len(queue) + 1 < MaxQueue
     /\ values' = [values EXCEPT ![m] = v]
     /\ queue' = queue \o <<EventFor(m, v, complete), EventFor(s, values[s], complete)>>
     /\ UNCHANGED <<ruleState, tables, currentTimer, stack, owed>>

-----------------------------------------------------------------------------

\* Every file has been loaded and followed by a Refresh; no rule has been looked at.
Init ==
  /\ values \in InitValues
  /\ queue = <<>>
  /\ rules \in SUBSET Rules /\ NamesDiffer(rules)
  /\ enabled = [r \in Rules |-> TRUE]
  /\ mode = [r \in Rules |-> "None"]
  /\ memo = [c \in Conds |-> FreshMemo(c)]
  /\ initialized = [r \in Rules |-> ~ NeedsInit(r)]
  /\ deps = [s \in Specs |-> NamedDeps(s, rules)]
  /\ withoutControls = [r \in Rules |-> "absent"]
  /\ timerRules = [t \in Timers |-> {}]
  /\ uninit = {r \in rules : NeedsInit(r)}
  /\ currentTimer = NoTimer
  /\ stack = <<>>
  /\ owed = {}

PlainEvent(s) == [spec |-> s, value |-> NoValue, prev |-> NoValue, complete |-> FALSE]

DriverStep ==
  \/ \E s \in Controls, v \in Values : ControlValue(s, v)
  \/ \E m \in Metas, v \in Values : ControlMeta(m, v)

RunStep ==
  \/ \E r \in Rules : SkipRule(r)
  \/ \E r \in Rules : CheckRule(r)
  \/ ThenReturns
  \/ EndRun

ScriptStep ==
  \/ \E t \in Timers : StartTimerRun(t)
  \/ \E e \in {NoEvent} \cup {PlainEvent(s) : s \in Specs} : CallRunRules(e)
  \/ \E r \in Rules, b \in BOOLEAN : SetState(r, b)
  \/ \E r \in Rules : DefineRule(r)
  \/ \E f \in Files : \E R \in SUBSET RulesOf(f) : ReloadFile(f, R)

Next == DriverStep \/ StartEventRun \/ RunStep \/ ScriptStep

\* The sync loop keeps running its thunks, a script's function returns, and the
\* FIFO syncQueue reaches every event's thunk however many timers fire.
Fairness ==
  /\ SF_vars(StartEventRun)
  /\ WF_vars((\E r \in Rules : SkipRule(r) \/ CheckRule(r)) \/ EndRun)
  /\ SF_vars(ThenReturns)

Spec == Init /\ [][Next]_vars

FairSpec == Spec /\ Fairness

-----------------------------------------------------------------------------
(* Properties *)

TypeOK ==
  /\ values \in Valuations
  /\ queue \in Seq(Event)
  /\ rules \subseteq Rules
  /\ enabled \in [Rules -> BOOLEAN]
  /\ mode \in [Rules -> {"None", "WithEvent", "Independent"}]
  /\ memo \in [Conds -> Results]
  /\ initialized \in [Rules -> BOOLEAN]
  /\ deps \in [Specs -> SUBSET Rules]
  /\ withoutControls \in [Rules -> {"absent", "false", "true"}]
  /\ timerRules \in [Timers -> SUBSET Rules]
  /\ uninit \subseteq Rules
  /\ currentTimer \in TimerNames
  /\ stack \in Seq(Frame)
  /\ owed \subseteq Rules

\* A check mode is set and the call that will use it up has yet to reach the rule.
Scheduled(r) == mode[r] # "None" /\ \E k \in DOMAIN stack : r \in stack[k].todo

\* No check mode outlives the RunRules calls it was set for: a rule left with a
\* mode would be evaluated on some later, unrelated event.  Every call in
\* progress works on rules that exist (Check on a removed rule panics).
CallsOwnTheirModes ==
  /\ \A r \in rules : mode[r] # "None" => Scheduled(r)
  /\ \A k \in DOMAIN stack : stack[k].todo \subseteq rules

\* What the tables of the engine hold of a rule that does not exist is what a refused
\* definition has left there, under the controls it names, for as long as the rule that
\* has its name: an entry of a removed rule would pass for the rule that is defined next,
\* or keep a destroyed one.
StraysWereRefused ==
  /\ \A s \in Specs : \A r \in deps[s] \ rules : NameTaken(r) /\ r \in NamedDeps(s, {r})
  /\ \A r \in uninit \ rules : NameTaken(r)
  /\ \A t \in Timers : timerRules[t] \subseteq rules
  /\ \A r \in Rules \ rules : withoutControls[r] # "true"

\* timers.<name>.firing is only ever true while the rules are being looked at
\* because of that timer, whatever nested runRules() calls there are.
TimerFlagBelongsToItsRun ==
  currentTimer # NoTimer => stack # <<>> /\ stack[1].timer = currentTimer

TimerFree(c) ==
  \A v \in Valuations, t \in TimerNames :
    /\ Eval(c, v, t) = Eval(c, v, NoTimer)
    /\ Reads(c, v, t) = Reads(c, v, NoTimer)
    /\ Reads(c, v, NoTimer) \subseteq Controls

\* The change of s is still on its way to the rules that depend on s.
ChangeInFlight(s) ==
  \E i \in DOMAIN queue : queue[i].spec = s /\ queue[i].complete

\* The condition was last evaluated on v: its rule is registered for all it looked
\* at, and what differs from v by now is announced by an event in flight.
SeenAt(r, c, v) ==
  /\ memo[c] = Eval(c, v, NoTimer)
  /\ \A s \in Reads(c, v, NoTimer) :
       r \in deps[s] /\ (values[s] # v[s] => ChangeInFlight(s))

\* The dependency tracking never loses a control that an asSoonAs condition has
\* looked at, however the condition's reads vary from one evaluation to the next.
EdgesTracked ==
  \A r \in rules : \A c \in CondSet(r) :
    Kind[c] = "edge" /\ TimerFree(c) =>
      \/ r \in uninit
      \/ Scheduled(r)
      \/ \E v \in Valuations : SeenAt(r, c, v)

Idle == stack = <<>> /\ queue = <<>>

\* When every change has been processed, the value an asSoonAs condition has
\* remembered is the one it would give now: no change went unnoticed.
NoMissedEdge ==
  Idle => \A r \in rules \ uninit : \A c \in CondSet(r) :
    Kind[c] = "edge" /\ TimerFree(c) => memo[c] = Eval(c, values, NoTimer)

\* The same for the functions of whenChanged.
NoMissedFunctionChange ==
  Idle => \A r \in rules \ uninit : \A c \in CondSet(r) :
    Kind[c] = "func" /\ TimerFree(c) => memo[c] = Eval(c, values, NoTimer)

\* An event that changes a control named in whenChanged makes every enabled rule
\* that names it fire before the next event is taken.
CellChangesFire == stack = <<>> => owed = {}

\* Once the controls stop changing, a condition that was ever looked at ends up
\* remembering its present value.
ConditionsSettle ==
  \A c \in Conds :
    Kind[c] \in {"edge", "func"} =>
      (<>[][values' = values /\ rules' = rules /\ uninit' \subseteq uninit]_<<values, rules, uninit>>
        => <>[](\A r \in rules \ uninit : c \in CondSet(r) =>
                   memo[c] = Eval(c, values, NoTimer)))
=============================================================================
