------------------------- MODULE RuleDispatchProofs -------------------------
(***************************************************************************)
(* Proofs about RuleDispatch, for every set of rules, conditions, controls *)
(* and timers, every nesting of RunRules calls and every number of events  *)
(* in flight.                                                              *)
(***************************************************************************)
EXTENDS RuleDispatch, WellFoundedInduction, TLAPS

-----------------------------------------------------------------------------
(* The operators the model is built from *)

\* A condition function always gives a result, whatever its timers.
LEMMA EvalType ==
  ASSUME NEW c \in Conds, NEW v \in Valuations, NEW t \in TimerNames
  PROVE  Eval(c, v, t) \in Results /\ Reads(c, v, t) \subseteq Controls \cup Timers
BY ReadsDetermineEval

\* The conditions that are checked are conditions of the rule.
LEMMA CheckedAreOwn ==
  ASSUME NEW r \in Rules, NEW e
  PROVE  /\ CheckedConds(r, e) \subseteq CondSet(r)
         /\ CalledConds(r, e) \subseteq CondSet(r)
BY DEF CheckedConds, CalledConds, CondSet, Range

LEMMA CondSetType ==
  ASSUME NEW r \in Rules
  PROVE  CondSet(r) \subseteq Conds
<1>1. CondsOf[r] \in Seq(Conds)
  BY SortAssumption
<1> QED BY <1>1 DEF CondSet, Range

\* A rule that asks for initialization has a function among its conditions.
LEMMA FreshMemoType ==
  ASSUME NEW c \in Conds
  PROVE  FreshMemo(c) \in Results
BY SortAssumption DEF FreshMemo

\* Replacing the innermost frame of a call keeps a stack of frames.
LEMMA SetTopType ==
  ASSUME stack \in Seq(Frame), stack # <<>>, NEW f \in Frame
  PROVE  SetTop(f) \in Seq(Frame)
BY DEF SetTop

LEMMA TopType ==
  ASSUME stack \in Seq(Frame), stack # <<>>
  PROVE  Top \in Frame /\ Len(stack) \in DOMAIN stack
BY DEF Top

\* What RunRules selects is a check mode.
LEMMA SelectedType ==
  ASSUME TypeOK, NEW r \in Rules, NEW e, NEW t
  PROVE  Selected(r, e, t) \in {"None", "WithEvent", "Independent"}
BY DEF Selected, TypeOK

-----------------------------------------------------------------------------
(* Type correctness *)

LEMMA InitType == Init => TypeOK
<1> SUFFICES ASSUME Init PROVE TypeOK
  OBVIOUS
<1>1. values \in Valuations
  BY SortAssumption DEF Init
<1>2. memo \in [Conds -> Results]
  BY FreshMemoType DEF Init
<1>3. deps \in [Specs -> SUBSET Rules]
  BY DEF Init, NamedDeps
<1>4. queue \in Seq(Event) /\ stack \in Seq(Frame)
  BY DEF Init
<1> QED BY <1>1, <1>2, <1>3, <1>4 DEF Init, TypeOK, TimerNames

\* RunRules pushes a frame.
LEMMA RunRulesType ==
  ASSUME TypeOK, NEW e \in Event \cup {NoEvent}, NEW t \in TimerNames, RunRules(e, t),
         queue' \in Seq(Event), owed' \subseteq Rules
  PROVE  TypeOK'
<1> DEFINE f == [event |-> e, timer |-> t, todo |-> rules, firing |-> NoRule]
<1>1. f \in Frame
  BY DEF Frame, TypeOK
<1>2. stack' = Append(stack, f) /\ stack' \in Seq(Frame)
  BY <1>1 DEF RunRules, TypeOK
<1>3. mode' \in [Rules -> {"None", "WithEvent", "Independent"}]
  BY SelectedType DEF RunRules
<1>4. currentTimer' \in TimerNames
  BY DEF RunRules, TypeOK
<1> QED BY <1>2, <1>3, <1>4 DEF RunRules, TypeOK

\* StoreRuleDeps keeps the tables' types.
LEMMA StoreRuleDepsType ==
  ASSUME TypeOK, NEW r \in Rules, NEW noted, StoreRuleDeps(r, noted)
  PROVE  /\ deps' \in [Specs -> SUBSET Rules]
         /\ timerRules' \in [Timers -> SUBSET Rules]
         /\ withoutControls' \in [Rules -> {"absent", "false", "true"}]
BY DEF StoreRuleDeps, TypeOK

LEMMA MakeRulesType ==
  ASSUME TypeOK, NEW R \in SUBSET Rules, MakeRules(R)
  PROVE  /\ enabled' \in [Rules -> BOOLEAN]
         /\ mode' \in [Rules -> {"None", "WithEvent", "Independent"}]
         /\ memo' \in [Conds -> Results]
         /\ initialized' \in [Rules -> BOOLEAN]
<1>1. \A r \in Rules : NeedsInit(r) \in BOOLEAN
  BY DEF NeedsInit
<1>2. enabled' \in [Rules -> BOOLEAN]
  BY DEF MakeRules, TypeOK
<1>3. mode' \in [Rules -> {"None", "WithEvent", "Independent"}]
  BY DEF MakeRules, TypeOK
<1>4. memo' \in [Conds -> Results]
  BY FreshMemoType DEF MakeRules, TypeOK
<1>5. initialized' \in [Rules -> BOOLEAN]
  BY <1>1 DEF MakeRules, TypeOK
<1> QED BY <1>2, <1>3, <1>4, <1>5

\* An event announces the change of one spec.
LEMMA EventForType ==
  ASSUME values \in Valuations, NEW s \in Specs, NEW v \in Values \cup {NoValue},
         NEW b \in BOOLEAN
  PROVE  EventFor(s, v, b) \in Event
BY DEF EventFor, Event, Valuations

LEMMA PlainEventType ==
  {NoEvent} \cup {PlainEvent(s) : s \in Specs} \subseteq Event \cup {NoEvent}
<1>1. \A s \in Specs : PlainEvent(s) \in Event
  BY DEF PlainEvent, Event
<1> QED BY <1>1

LEMMA CheckRuleType ==
  ASSUME TypeOK, NEW r \in Rules, CheckRule(r)
  PROVE  TypeOK'
<1> DEFINE e == IF mode[r] = "Independent" THEN NoEvent ELSE Top.event
           fires == enabled[r] /\ ShouldFire(r, e)
           f == [Top EXCEPT !.todo = @ \ {r}, !.firing = IF fires THEN r ELSE NoRule]
<1>1. stack # <<>> /\ Top \in Frame
  BY TopType DEF CheckRule, TypeOK
<1>2. f \in Frame
  BY <1>1 DEF Frame
<1>3. stack' = SetTop(f) /\ stack' \in Seq(Frame)
  BY <1>1, <1>2, SetTopType DEF CheckRule, TypeOK
<1>4. \A c \in Conds : Result(c) \in Results
  BY EvalType DEF Result, TypeOK
<1>5. memo' \in [Conds -> Results]
  BY <1>4 DEF CheckRule, TypeOK
<1>6. /\ deps' \in [Specs -> SUBSET Rules]
      /\ timerRules' \in [Timers -> SUBSET Rules]
      /\ withoutControls' \in [Rules -> {"absent", "false", "true"}]
  BY StoreRuleDepsType DEF CheckRule
<1>7. mode' \in [Rules -> {"None", "WithEvent", "Independent"}]
  BY DEF CheckRule, TypeOK
<1>8. owed' \subseteq Rules /\ initialized' \in [Rules -> BOOLEAN]
  BY DEF CheckRule, TypeOK
<1> QED BY <1>3, <1>5, <1>6, <1>7, <1>8 DEF CheckRule, TypeOK

LEMMA TypeStep == TypeOK /\ [Next]_vars => TypeOK'
<1> SUFFICES ASSUME TypeOK, [Next]_vars PROVE TypeOK'
  OBVIOUS
<1>1. ASSUME NEW s \in Controls, NEW v \in Values, ControlValue(s, v) PROVE TypeOK'
  <2> DEFINE e == EventFor(s, v, TRUE)
  <2>1. e \in Event
    BY EventForType DEF TypeOK, Specs
  <2>2. queue' \in Seq(Event)
    <3>1. queue' = Append(queue, e) /\ queue \in Seq(Event)
      BY <1>1 DEF ControlValue, TypeOK
    <3> HIDE DEF e
    <3> QED BY <2>1, <3>1
  <2>3. values' \in Valuations
    BY <1>1 DEF ControlValue, TypeOK, Valuations
  <2> QED BY <1>1, <2>2, <2>3 DEF ControlValue, ruleState, tables, TypeOK
<1>2. ASSUME NEW m \in Metas, NEW v \in Values, ControlMeta(m, v) PROVE TypeOK'
  <2> DEFINE s == MetaOf[m]
             b == values[s] # NoValue
             e1 == EventFor(m, v, b)
             e2 == EventFor(s, values[s], b)
  <2>1. m \in Specs /\ s \in Specs /\ values[s] \in Values \cup {NoValue} /\ b \in BOOLEAN
    BY SortAssumption DEF TypeOK, Valuations, Specs
  <2>2. e1 \in Event /\ e2 \in Event
    BY <2>1, EventForType DEF TypeOK
  <2>3. queue' = queue \o <<e1, e2>>
    BY <1>2 DEF ControlMeta
  <2>4. queue' \in Seq(Event)
    <3> HIDE DEF e1, e2
    <3> QED BY <2>2, <2>3 DEF TypeOK
  <2>5. values' \in Valuations
    BY <1>2, <2>1 DEF ControlMeta, TypeOK, Valuations
  <2> QED BY <1>2, <2>4, <2>5 DEF ControlMeta, ruleState, tables, TypeOK
<1>3. CASE StartEventRun
  <2>1. Head(queue) \in Event /\ Tail(queue) \in Seq(Event)
    BY <1>3 DEF StartEventRun, TypeOK
  <2>2. Owed(Head(queue)) \subseteq Rules
    BY DEF Owed, TypeOK
  <2> QED BY <1>3, <2>1, <2>2, RunRulesType DEF StartEventRun, TimerNames
<1>4. ASSUME NEW r \in Rules, SkipRule(r) PROVE TypeOK'
  <2>1. stack # <<>> /\ Top \in Frame
    BY <1>4, TopType DEF SkipRule, TypeOK
  <2>2. [Top EXCEPT !.todo = @ \ {r}] \in Frame
    BY <2>1 DEF Frame
  <2>3. stack' \in Seq(Frame)
    BY <1>4, <2>1, <2>2, SetTopType DEF SkipRule, TypeOK
  <2> QED BY <1>4, <2>3 DEF SkipRule, ruleState, tables, TypeOK
<1>5. ASSUME NEW r \in Rules, CheckRule(r) PROVE TypeOK'
  BY <1>5, CheckRuleType
<1>6. CASE ThenReturns
  <2>1. stack # <<>> /\ Top \in Frame
    BY <1>6, TopType DEF ThenReturns, TypeOK
  <2>2. [Top EXCEPT !.firing = NoRule] \in Frame
    BY <2>1 DEF Frame
  <2>3. stack' \in Seq(Frame)
    BY <1>6, <2>1, <2>2, SetTopType DEF ThenReturns, TypeOK
  <2> QED BY <1>6, <2>3 DEF ThenReturns, ruleState, tables, TypeOK
<1>7. CASE EndRun
  <2>1. stack' \in Seq(Frame)
    BY <1>7 DEF EndRun, TypeOK
  <2> QED BY <1>7, <2>1 DEF EndRun, ruleState, tables, TypeOK, TimerNames
<1>8. ASSUME NEW t \in Timers, StartTimerRun(t) PROVE TypeOK'
  <2>1. queue' \in Seq(Event) /\ owed' \subseteq Rules
    BY <1>8 DEF StartTimerRun, TypeOK
  <2> QED BY <1>8, <2>1, RunRulesType DEF StartTimerRun, TimerNames
<1>9. ASSUME NEW e \in {NoEvent} \cup {PlainEvent(s) : s \in Specs}, CallRunRules(e)
      PROVE TypeOK'
  <2>1. e \in Event \cup {NoEvent}
    BY PlainEventType
  <2>2. queue' \in Seq(Event) /\ owed' \subseteq Rules
    BY <1>9 DEF CallRunRules, TypeOK
  <2> QED BY <1>9, <2>1, <2>2, RunRulesType DEF CallRunRules, TimerNames
<1>10. ASSUME NEW r \in Rules, NEW b \in BOOLEAN, SetState(r, b) PROVE TypeOK'
  BY <1>10 DEF SetState, tables, TypeOK
<1>11. ASSUME NEW r \in Rules, DefineRule(r) PROVE TypeOK'
  <2>1. /\ enabled' \in [Rules -> BOOLEAN]
        /\ mode' \in [Rules -> {"None", "WithEvent", "Independent"}]
        /\ memo' \in [Conds -> Results]
        /\ initialized' \in [Rules -> BOOLEAN]
    BY <1>11, MakeRulesType DEF DefineRule
  <2>2. deps' \in [Specs -> SUBSET Rules]
    BY <1>11 DEF DefineRule, NamedDeps, TypeOK
  <2>3. withoutControls' \in [Rules -> {"absent", "false", "true"}]
    BY <1>11 DEF DefineRule, TypeOK
  <2> QED BY <1>11, <2>1, <2>2, <2>3 DEF DefineRule, TypeOK
<1>12. ASSUME NEW f \in Files, NEW R \in SUBSET RulesOf(f), ReloadFile(f, R) PROVE TypeOK'
  <2>1. R \in SUBSET Rules /\ rules' \subseteq Rules
    BY <1>12 DEF ReloadFile, RulesOf, TypeOK
  <2>2. /\ enabled' \in [Rules -> BOOLEAN]
        /\ mode' \in [Rules -> {"None", "WithEvent", "Independent"}]
        /\ memo' \in [Conds -> Results]
        /\ initialized' \in [Rules -> BOOLEAN]
    <3>1. RulesOf(f) \in SUBSET Rules /\ MakeRules(RulesOf(f))
      BY <1>12 DEF ReloadFile, RulesOf
    <3> QED BY <3>1, MakeRulesType
  <2>3. /\ deps' \in [Specs -> SUBSET Rules] /\ uninit' \subseteq Rules
        /\ withoutControls' \in [Rules -> {"absent", "false", "true"}]
        /\ timerRules' \in [Timers -> SUBSET Rules]
    BY <1>12, <2>1 DEF ReloadFile, Refresh, NamedDeps
  <2> QED BY <1>12, <2>1, <2>2, <2>3 DEF ReloadFile, TypeOK
<1>13. CASE UNCHANGED vars
  BY <1>13 DEF vars, ruleState, tables, TypeOK
<1> QED
  BY <1>1, <1>2, <1>3, <1>4, <1>5, <1>6, <1>7, <1>8, <1>9, <1>10, <1>11, <1>12, <1>13
  DEF Next, DriverStep, RunStep, ScriptStep

\* The engine's tables, modes, frames and events keep their types.
THEOREM TypeCorrect == Spec => []TypeOK
BY InitType, TypeStep, PTL DEF Spec

-----------------------------------------------------------------------------
(* Check modes and the calls in progress *)

\* A step of RunRules on the innermost frame leaves the other frames alone.
LEMMA SetTopOthers ==
  ASSUME stack \in Seq(Frame), stack # <<>>, NEW f \in Frame
  PROVE  /\ DOMAIN SetTop(f) = DOMAIN stack
         /\ SetTop(f)[Len(stack)] = f
         /\ \A k \in DOMAIN stack : k # Len(stack) => SetTop(f)[k] = stack[k]
BY DEF SetTop

\* RunRules schedules nothing it will not reach, for every rule that exists.
LEMMA RunRulesModes ==
  ASSUME TypeOK, CallsOwnTheirModes, NEW e \in Event \cup {NoEvent}, NEW t \in TimerNames,
         RunRules(e, t)
  PROVE  CallsOwnTheirModes' /\ \A r \in rules : mode'[r] # "None" => Scheduled(r)'
<1> DEFINE f == [event |-> e, timer |-> t, todo |-> rules, firing |-> NoRule]
<1>1. stack' = Append(stack, f) /\ stack \in Seq(Frame) /\ f \in Frame
  BY DEF RunRules, Frame, TypeOK
<1>2. f.todo = rules
  OBVIOUS
<1> HIDE DEF f
<1>3. /\ DOMAIN stack' = DOMAIN stack \cup {Len(stack) + 1}
      /\ stack'[Len(stack) + 1] = f
      /\ \A k \in DOMAIN stack : stack'[k] = stack[k]
  BY <1>1
<1>4. rules' = rules
  BY DEF RunRules
<1>5. \A r \in rules : mode'[r] # "None" => Scheduled(r)'
  BY <1>2, <1>3 DEF Scheduled
<1>6. \A k \in DOMAIN stack' : stack'[k].todo \subseteq rules'
  BY <1>2, <1>3, <1>4 DEF CallsOwnTheirModes
<1> QED BY <1>4, <1>5, <1>6 DEF CallsOwnTheirModes

\* The step that takes rule r off the innermost call keeps the others scheduled.
LEMMA TakenOff ==
  ASSUME TypeOK, CallsOwnTheirModes, stack # <<>>, NEW r \in Rules, NEW f \in Frame,
         stack' = SetTop(f), f.todo = Top.todo \ {r}
  PROVE  /\ \A k \in DOMAIN stack' : stack'[k].todo \subseteq rules
         /\ \A q \in Rules : q # r /\ mode'[q] = mode[q] /\ Scheduled(q) => Scheduled(q)'
<1>1. /\ DOMAIN stack' = DOMAIN stack
      /\ stack'[Len(stack)] = f
      /\ \A k \in DOMAIN stack : k # Len(stack) => stack'[k] = stack[k]
  BY SetTopOthers DEF TypeOK
<1>2. Len(stack) \in DOMAIN stack /\ Top = stack[Len(stack)]
  BY TopType DEF TypeOK, Top
<1>3. \A k \in DOMAIN stack' : stack'[k].todo \subseteq stack[k].todo
  BY <1>1, <1>2
<1>4. \A q \in Rules, k \in DOMAIN stack : q # r /\ q \in stack[k].todo => q \in stack'[k].todo
  BY <1>1, <1>2
<1> QED BY <1>1, <1>3, <1>4 DEF Scheduled, CallsOwnTheirModes

\* The frame at the end of a RunRules call has nothing left to do.
LEMMA Popped ==
  ASSUME TypeOK, EndRun
  PROVE  /\ \A k \in DOMAIN stack' : k \in DOMAIN stack /\ stack'[k] = stack[k]
         /\ \A r \in Rules : mode' = mode /\ (Scheduled(r) => Scheduled(r)')
<1>1. /\ stack # <<>> /\ stack \in Seq(Frame) /\ stack' = SubSeq(stack, 1, Len(stack) - 1)
      /\ stack[Len(stack)].todo = {} /\ mode' = mode
  BY DEF EndRun, Top, ruleState, TypeOK
<1>2. /\ DOMAIN stack' = 1 .. (Len(stack) - 1) /\ DOMAIN stack = 1 .. Len(stack)
      /\ \A k \in DOMAIN stack' : stack'[k] = stack[k]
  BY <1>1
<1>3. Len(stack) \in Nat
  BY <1>1
<1>4. \A k \in DOMAIN stack : stack[k].todo # {} => k \in DOMAIN stack'
  BY <1>1, <1>2, <1>3
<1> QED BY <1>1, <1>2, <1>3, <1>4 DEF Scheduled

LEMMA ModesInit == Init => CallsOwnTheirModes
BY DEF Init, CallsOwnTheirModes

LEMMA ModesStep == TypeOK /\ CallsOwnTheirModes /\ [Next]_vars => CallsOwnTheirModes'
<1> SUFFICES ASSUME TypeOK, CallsOwnTheirModes, [Next]_vars PROVE CallsOwnTheirModes'
  OBVIOUS
<1>1. CASE UNCHANGED <<rules, mode, stack>>
  BY <1>1 DEF CallsOwnTheirModes, Scheduled
<1>2. ASSUME NEW s \in Controls, NEW v \in Values, ControlValue(s, v)
      PROVE CallsOwnTheirModes'
  BY <1>1, <1>2 DEF ControlValue, ruleState
<1>3. ASSUME NEW m \in Metas, NEW v \in Values, ControlMeta(m, v) PROVE CallsOwnTheirModes'
  BY <1>1, <1>3 DEF ControlMeta, ruleState
<1>4. CASE StartEventRun
  <2>1. Head(queue) \in Event
    BY <1>4 DEF StartEventRun, TypeOK
  <2> QED BY <1>4, <2>1, RunRulesModes DEF StartEventRun, TimerNames
<1>5. ASSUME NEW r \in Rules, SkipRule(r) PROVE CallsOwnTheirModes'
  <2> DEFINE f == [Top EXCEPT !.todo = @ \ {r}]
  <2>1. stack # <<>> /\ f \in Frame /\ f.todo = Top.todo \ {r} /\ stack' = SetTop(f)
    BY <1>5, TopType DEF SkipRule, TypeOK, Frame
  <2>2. mode' = mode /\ rules' = rules /\ mode[r] = "None"
    BY <1>5 DEF SkipRule, ruleState
  <2> HIDE DEF f
  <2> QED BY <2>1, <2>2, TakenOff DEF CallsOwnTheirModes, TypeOK
<1>6. ASSUME NEW r \in Rules, CheckRule(r) PROVE CallsOwnTheirModes'
  <2> DEFINE e == IF mode[r] = "Independent" THEN NoEvent ELSE Top.event
             f == [Top EXCEPT !.todo = @ \ {r},
                              !.firing = IF enabled[r] /\ ShouldFire(r, e)
                                         THEN r ELSE NoRule]
  <2>1. stack # <<>> /\ f \in Frame /\ f.todo = Top.todo \ {r} /\ stack' = SetTop(f)
    BY <1>6, TopType DEF CheckRule, TypeOK, Frame
  <2>2. mode' = [mode EXCEPT ![r] = "None"] /\ rules' = rules
    BY <1>6 DEF CheckRule
  <2> HIDE DEF f
  <2>3. \A q \in Rules : q # r => mode'[q] = mode[q]
    BY <2>2 DEF TypeOK
  <2>4. mode'[r] = "None"
    BY <2>2 DEF TypeOK
  <2> QED BY <2>1, <2>2, <2>3, <2>4, TakenOff DEF CallsOwnTheirModes, TypeOK
<1>7. CASE ThenReturns
  <2> DEFINE f == [Top EXCEPT !.firing = NoRule]
  <2>1. stack # <<>> /\ f \in Frame /\ f.todo = Top.todo /\ stack' = SetTop(f)
    BY <1>7, TopType DEF ThenReturns, TypeOK, Frame
  <2>2. mode' = mode /\ rules' = rules
    BY <1>7 DEF ThenReturns, ruleState
  <2> HIDE DEF f
  <2>3. /\ DOMAIN stack' = DOMAIN stack
        /\ \A k \in DOMAIN stack : stack'[k].todo = stack[k].todo
    BY <2>1, SetTopOthers DEF TypeOK, Top
  <2> QED BY <2>2, <2>3 DEF CallsOwnTheirModes, Scheduled
<1>8. CASE EndRun
  <2>1. rules' = rules
    BY <1>8 DEF EndRun, ruleState
  <2> QED BY <1>8, <2>1, Popped DEF CallsOwnTheirModes, TypeOK
<1>9. ASSUME NEW t \in Timers, StartTimerRun(t) PROVE CallsOwnTheirModes'
  BY <1>9, RunRulesModes DEF StartTimerRun, TimerNames
<1>10. ASSUME NEW e \in {NoEvent} \cup {PlainEvent(s) : s \in Specs}, CallRunRules(e)
       PROVE CallsOwnTheirModes'
  <2>1. e \in Event \cup {NoEvent}
    BY PlainEventType
  <2> QED BY <1>10, <2>1, RunRulesModes DEF CallRunRules, TimerNames
<1>11. ASSUME NEW r \in Rules, NEW b \in BOOLEAN, SetState(r, b) PROVE CallsOwnTheirModes'
  BY <1>1, <1>11 DEF SetState
<1>12. ASSUME NEW r \in Rules, DefineRule(r) PROVE CallsOwnTheirModes'
  <2>1. /\ rules \subseteq rules' /\ rules' \subseteq rules \cup {r} /\ stack' = stack
        /\ \A q \in Rules : mode'[q] = IF q = r THEN "None" ELSE mode[q]
    BY <1>12 DEF DefineRule, MakeRules
  <2> QED BY <2>1 DEF CallsOwnTheirModes, Scheduled, TypeOK
<1>13. ASSUME NEW f \in Files, NEW R \in SUBSET RulesOf(f), ReloadFile(f, R)
       PROVE CallsOwnTheirModes'
  <2>1. /\ rules' \subseteq rules \cup R /\ rules' \subseteq Rules
        /\ stack = <<>> /\ stack' = stack
        /\ \A q \in Rules : mode'[q] = IF q \in RulesOf(f) THEN "None" ELSE mode[q]
    BY <1>13 DEF ReloadFile, MakeRules, RulesOf, TypeOK
  <2>2. R \subseteq RulesOf(f)
    OBVIOUS
  <2> QED BY <2>1, <2>2 DEF CallsOwnTheirModes, Scheduled
<1>14. CASE UNCHANGED vars
  BY <1>1, <1>14 DEF vars, ruleState
<1> QED
  BY <1>2, <1>3, <1>4, <1>5, <1>6, <1>7, <1>8, <1>9, <1>10, <1>11, <1>12, <1>13, <1>14
  DEF Next, DriverStep, RunStep, ScriptStep

\* No check mode outlives the RunRules calls it was set for, however deep scripts
\* nest runRules() and whatever they define, switch and reload in between.
THEOREM ModesBelongToCalls == Spec => []CallsOwnTheirModes
BY InitType, TypeStep, ModesInit, ModesStep, PTL DEF Spec

-----------------------------------------------------------------------------
(* The engine's tables *)

LEMMA TablesInit == Init => StraysWereRefused
BY DEF Init, StraysWereRefused, NamedDeps

\* A check adds the rule that is checked to the tables, and no other.
LEMMA StoreRuleDepsGrows ==
  ASSUME TypeOK, NEW r \in Rules, NEW noted, StoreRuleDeps(r, noted)
  PROVE  /\ \A s \in Specs : deps'[s] \subseteq deps[s] \cup {r}
         /\ \A t \in Timers : timerRules'[t] \subseteq timerRules[t] \cup {r}
         /\ \A q \in Rules : q # r => withoutControls'[q] = withoutControls[q]
BY DEF StoreRuleDeps, TypeOK

\* A name stays taken while rules are only added.
LEMMA NameStaysTaken ==
  ASSUME rules \subseteq rules', NEW r \in Rules, NameTaken(r)
  PROVE  NameTaken(r)'
BY DEF NameTaken, Homonyms

LEMMA TablesStep == TypeOK /\ StraysWereRefused /\ [Next]_vars => StraysWereRefused'
<1> SUFFICES ASSUME TypeOK, StraysWereRefused, [Next]_vars PROVE StraysWereRefused'
  OBVIOUS
<1>1. CASE UNCHANGED <<rules, tables>>
  BY <1>1 DEF StraysWereRefused, NameTaken, tables
<1>2. CASE DriverStep \/ ThenReturns \/ EndRun \/ \E r \in Rules : SkipRule(r)
  BY <1>1, <1>2 DEF DriverStep, ControlValue, ControlMeta, ThenReturns, EndRun, SkipRule,
                    ruleState
<1>3. ASSUME NEW e, NEW t, RunRules(e, t) PROVE StraysWereRefused'
  BY <1>3 DEF RunRules, StraysWereRefused, NameTaken
<1>4. ASSUME NEW r \in Rules, CheckRule(r) PROVE StraysWereRefused'
  <2>1. PICK noted : StoreRuleDeps(r, noted)
    BY <1>4 DEF CheckRule
  <2>2. /\ \A s \in Specs : deps'[s] \subseteq deps[s] \cup {r}
        /\ \A t \in Timers : timerRules'[t] \subseteq timerRules[t] \cup {r}
        /\ \A q \in Rules : q # r => withoutControls'[q] = withoutControls[q]
    BY <2>1, StoreRuleDepsGrows
  <2>3. r \in rules /\ rules' = rules /\ uninit' = uninit
    BY <1>4 DEF CheckRule
  <2> QED BY <2>2, <2>3 DEF StraysWereRefused, NameTaken
<1>5. ASSUME NEW r \in Rules, NEW b \in BOOLEAN, SetState(r, b) PROVE StraysWereRefused'
  BY <1>1, <1>5 DEF SetState
<1>6. ASSUME NEW r \in Rules, DefineRule(r) PROVE StraysWereRefused'
  <2>1. /\ rules \subseteq rules' /\ rules' \subseteq rules \cup {r}
        /\ r \in rules' \/ NameTaken(r)
        /\ uninit' \subseteq uninit \cup {r}
        /\ timerRules' = timerRules
    BY <1>6 DEF DefineRule
  <2>2. \A s \in Specs : deps'[s] = deps[s] \cup NamedDeps(s, {r})
    BY <1>6 DEF DefineRule
  <2>3. \A q \in Rules : NameTaken(q) => NameTaken(q)'
    BY <2>1, NameStaysTaken
  <2>4. ASSUME NEW s \in Specs, NEW q \in deps'[s] \ rules'
        PROVE  NameTaken(q)' /\ q \in NamedDeps(s, {q})
    <3>1. q \in Rules /\ q \notin rules
      BY <1>6, <2>1, <2>2 DEF NamedDeps, TypeOK
    <3>2. CASE q \in deps[s]
      BY <2>3, <3>1, <3>2 DEF StraysWereRefused
    <3>3. CASE q \in NamedDeps(s, {r})
      BY <2>1, <2>3, <2>4, <3>3 DEF NamedDeps
    <3> QED BY <2>2, <3>2, <3>3
  <2>5. \A q \in uninit' \ rules' : NameTaken(q)'
    BY <2>1, <2>3 DEF StraysWereRefused, TypeOK
  <2>6. \A q \in Rules \ rules' : withoutControls'[q] # "true"
    BY <1>6, <2>1 DEF DefineRule, StraysWereRefused, TypeOK
  <2>7. \A t \in Timers : timerRules'[t] \subseteq rules'
    BY <2>1 DEF StraysWereRefused
  <2>8. \A s \in Specs : \A q \in deps'[s] \ rules' : q \in NamedDeps(s, {q})'
    BY <2>4 DEF NamedDeps
  <2> QED BY <2>4, <2>5, <2>6, <2>7, <2>8 DEF StraysWereRefused
<1>7. ASSUME NEW f \in Files, NEW R \in SUBSET RulesOf(f), ReloadFile(f, R)
      PROVE StraysWereRefused'
  BY <1>7 DEF ReloadFile, Refresh, NamedDeps, StraysWereRefused
<1>8. CASE UNCHANGED vars
  BY <1>1, <1>8 DEF vars, ruleState
<1> QED
  BY <1>2, <1>3, <1>4, <1>5, <1>6, <1>7, <1>8
  DEF Next, RunStep, ScriptStep, StartEventRun, StartTimerRun, CallRunRules

\* A removed rule leaves nothing in the tables: what they hold of a rule that does not
\* exist comes from a definition refused because of its name, stands under the controls
\* that definition names, and lasts no longer than the rule that has the name.
THEOREM StraysAreRefused == Spec => []StraysWereRefused
BY InitType, TypeStep, TablesInit, TablesStep, PTL DEF Spec

-----------------------------------------------------------------------------
(* timers.<name>.firing *)

LEMMA FlagInit == Init => TimerFlagBelongsToItsRun
BY DEF Init, TimerFlagBelongsToItsRun

\* A step on the innermost frame leaves the timer of the outermost call alone.
LEMMA SetTopFirst ==
  ASSUME stack \in Seq(Frame), stack # <<>>, NEW f \in Frame, f.timer = Top.timer
  PROVE  SetTop(f) # <<>> /\ SetTop(f)[1].timer = stack[1].timer
<1>1. CASE Len(stack) = 1
  BY <1>1 DEF SetTop, Top
<1>2. CASE Len(stack) # 1
  BY <1>2 DEF SetTop
<1> QED BY <1>1, <1>2

LEMMA FlagStep ==
  TypeOK /\ TimerFlagBelongsToItsRun /\ [Next]_vars => TimerFlagBelongsToItsRun'
<1> SUFFICES ASSUME TypeOK, TimerFlagBelongsToItsRun, [Next]_vars
             PROVE  TimerFlagBelongsToItsRun'
  OBVIOUS
<1>1. CASE UNCHANGED <<currentTimer, stack>>
  BY <1>1 DEF TimerFlagBelongsToItsRun
<1>2. CASE DriverStep \/ \E r \in Rules : DefineRule(r) \/ \E b \in BOOLEAN : SetState(r, b)
  BY <1>1, <1>2 DEF DriverStep, ControlValue, ControlMeta, DefineRule, SetState
<1>3. ASSUME NEW f \in Files, NEW R \in SUBSET RulesOf(f), ReloadFile(f, R)
      PROVE TimerFlagBelongsToItsRun'
  BY <1>1, <1>3 DEF ReloadFile
<1>4. ASSUME NEW e \in Event \cup {NoEvent}, NEW t \in TimerNames, RunRules(e, t),
             t # NoTimer => stack = <<>>
      PROVE TimerFlagBelongsToItsRun'
  <2> DEFINE f == [event |-> e, timer |-> t, todo |-> rules, firing |-> NoRule]
  <2>1. /\ stack' = Append(stack, f) /\ f \in Frame /\ f.timer = t /\ stack \in Seq(Frame)
        /\ currentTimer' = IF t # NoTimer THEN t ELSE currentTimer
    BY <1>4 DEF RunRules, Frame, TypeOK
  <2> HIDE DEF f
  <2>2. /\ stack' # <<>> /\ (stack = <<>> => stack'[1] = f)
        /\ stack # <<>> => stack'[1] = stack[1]
    BY <2>1
  <2> QED BY <1>4, <2>1, <2>2 DEF TimerFlagBelongsToItsRun
<1>5. CASE StartEventRun
  <2>1. Head(queue) \in Event
    BY <1>5 DEF StartEventRun, TypeOK
  <2> QED BY <1>4, <1>5, <2>1 DEF StartEventRun, TimerNames
<1>6. ASSUME NEW t \in Timers, StartTimerRun(t) PROVE TimerFlagBelongsToItsRun'
  BY <1>4, <1>6 DEF StartTimerRun, TimerNames
<1>7. ASSUME NEW e \in {NoEvent} \cup {PlainEvent(s) : s \in Specs}, CallRunRules(e)
      PROVE TimerFlagBelongsToItsRun'
  <2>1. e \in Event \cup {NoEvent}
    BY PlainEventType
  <2> QED BY <1>4, <1>7, <2>1 DEF CallRunRules, TimerNames
<1>8. ASSUME NEW f \in Frame, stack # <<>>, f.timer = Top.timer, stack' = SetTop(f),
             currentTimer' = currentTimer
      PROVE TimerFlagBelongsToItsRun'
  BY <1>8, SetTopFirst DEF TimerFlagBelongsToItsRun, TypeOK
<1>9. ASSUME NEW r \in Rules, SkipRule(r) PROVE TimerFlagBelongsToItsRun'
  <2> DEFINE f == [Top EXCEPT !.todo = @ \ {r}]
  <2>1. /\ stack # <<>> /\ f \in Frame /\ f.timer = Top.timer /\ stack' = SetTop(f)
        /\ currentTimer' = currentTimer
    BY <1>9, TopType DEF SkipRule, TypeOK, Frame
  <2> QED BY <1>8, <2>1
<1>10. ASSUME NEW r \in Rules, CheckRule(r) PROVE TimerFlagBelongsToItsRun'
  <2> DEFINE e == IF mode[r] = "Independent" THEN NoEvent ELSE Top.event
             f == [Top EXCEPT !.todo = @ \ {r},
                              !.firing = IF enabled[r] /\ ShouldFire(r, e)
                                         THEN r ELSE NoRule]
  <2>1. /\ stack # <<>> /\ f \in Frame /\ f.timer = Top.timer /\ stack' = SetTop(f)
        /\ currentTimer' = currentTimer
    BY <1>10, TopType DEF CheckRule, TypeOK, Frame
  <2> QED BY <1>8, <2>1
<1>11. CASE ThenReturns
  <2> DEFINE f == [Top EXCEPT !.firing = NoRule]
  <2>1. /\ stack # <<>> /\ f \in Frame /\ f.timer = Top.timer /\ stack' = SetTop(f)
        /\ currentTimer' = currentTimer
    BY <1>11, TopType DEF ThenReturns, TypeOK, Frame
  <2> QED BY <1>8, <2>1
<1>12. CASE EndRun
  BY <1>12 DEF EndRun, TimerFlagBelongsToItsRun
<1>13. CASE UNCHANGED vars
  BY <1>1, <1>13 DEF vars
<1> QED
  BY <1>2, <1>3, <1>5, <1>6, <1>7, <1>9, <1>10, <1>11, <1>12, <1>13
  DEF Next, RunStep, ScriptStep

\* timers.<name>.firing is true only inside the pass that the timer started.
THEOREM TimerFlagIsOwn == Spec => []TimerFlagBelongsToItsRun
BY InitType, TypeStep, FlagInit, FlagStep, PTL DEF Spec

-----------------------------------------------------------------------------
(* The dependencies of asSoonAs conditions *)

\* EdgesTracked for one condition c of one rule r
Tracked(r, c) ==
  r \in uninit \/ Scheduled(r) \/ \E v \in Valuations : SeenAt(r, c, v)

EdgeOf(r, c) == c \in CondSet(r) /\ Kind[c] = "edge" /\ TimerFree(c)

LEMMA TrackedEach ==
  EdgesTracked <=> \A r \in rules : \A c \in CondSet(r) : EdgeOf(r, c) => Tracked(r, c)
BY DEF EdgesTracked, Tracked, EdgeOf

\* The condition of an asSoonAs rule is the rule's only one and is always evaluated.
LEMMA EdgeAlone ==
  ASSUME NEW r \in Rules, NEW c, EdgeOf(r, c)
  PROVE  c \in Conds /\ NeedsInit(r) /\ \A e : c \in CalledConds(r, e)
<1>1. CondsOf[r] \in Seq(Conds) /\ c \in Range(CondsOf[r]) /\ Kind[c] = "edge"
  BY SortAssumption DEF EdgeOf, CondSet
<1>2. Len(CondsOf[r]) = 1
  BY <1>1, OwnConds
<1>3. DOMAIN CondsOf[r] = {1} /\ c = CondsOf[r][1]
  BY <1>1, <1>2 DEF Range
<1>4. \A e : c \in CheckedConds(r, e)
  BY <1>3 DEF CheckedConds
<1>5. c \in Conds /\ NeedsInit(r)
  BY <1>1, CondSetType DEF NeedsInit, CondSet
<1> QED BY <1>1, <1>4, <1>5 DEF CalledConds, IsCalled

\* A condition belongs to one rule only.
LEMMA NotShared ==
  ASSUME NEW r \in Rules, NEW q \in Rules, r # q, NEW c \in CondSet(r)
  PROVE  c \notin CondSet(q)
BY OwnConds DEF CondSet

\* What an evaluation found stays found while nothing is forgotten and every new
\* difference of a value is announced.
LEMMA SeenStays ==
  ASSUME NEW r, NEW c, NEW v, SeenAt(r, c, v), memo'[c] = memo[c],
         \A s \in Reads(c, v, NoTimer) :
           /\ r \in deps[s] => r \in deps'[s]
           /\ ChangeInFlight(s) => ChangeInFlight(s)'
           /\ values'[s] # values[s] => ChangeInFlight(s)'
  PROVE  SeenAt(r, c, v)'
BY DEF SeenAt

\* Events that are queued behind others do not hide them.
LEMMA FlightGrows ==
  ASSUME queue \in Seq(Event), NEW e \in Event, queue' = Append(queue, e), e.complete
  PROVE  /\ ChangeInFlight(e.spec)'
         /\ \A s : ChangeInFlight(s) => ChangeInFlight(s)'
<1>1. /\ DOMAIN queue' = DOMAIN queue \cup {Len(queue) + 1}
      /\ queue'[Len(queue) + 1] = e
      /\ \A i \in DOMAIN queue : queue'[i] = queue[i]
  BY SMT
<1> QED BY <1>1 DEF ChangeInFlight

LEMMA FlightGrowsTwice ==
  ASSUME queue \in Seq(Event), NEW e1 \in Event, NEW e2 \in Event,
         queue' = queue \o <<e1, e2>>
  PROVE  \A s : ChangeInFlight(s) => ChangeInFlight(s)'
<1>1. /\ DOMAIN queue \subseteq DOMAIN queue'
      /\ \A i \in DOMAIN queue : queue'[i] = queue[i]
  BY SMT
<1> QED BY <1>1 DEF ChangeInFlight

\* To keep EdgesTracked, consider one condition of one rule.
LEMMA TrackOne ==
  ASSUME \A r \in rules', c \in Conds : EdgeOf(r, c) => Tracked(r, c)', TypeOK'
  PROVE  EdgesTracked'
<1>1. \A r \in rules' : CondSet(r) \subseteq Conds
  BY CondSetType DEF TypeOK
<1> QED BY <1>1 DEF EdgesTracked, Tracked, EdgeOf

\* RunRules schedules the rules of its event and those due for a first look.
LEMMA RunRulesTracks ==
  ASSUME TypeOK, TypeOK', CallsOwnTheirModes, EdgesTracked,
         NEW e \in Event \cup {NoEvent}, NEW t \in TimerNames, RunRules(e, t),
         \A s \in Specs : ChangeInFlight(s) =>
           ChangeInFlight(s)' \/ (e # NoEvent /\ e.spec = s /\ e.complete)
  PROVE  EdgesTracked'
<1> SUFFICES ASSUME NEW r \in rules', NEW c \in Conds, EdgeOf(r, c)
             PROVE  Tracked(r, c)'
  BY TrackOne
<1>1. /\ r \in rules /\ r \in Rules
      /\ mode'[r] = Selected(r, e, t)
      /\ UNCHANGED <<values, memo, deps>>
  BY DEF RunRules, TypeOK
<1>2. mode'[r] # "None" => Tracked(r, c)'
  BY <1>1, RunRulesModes DEF Tracked
<1>3. Tracked(r, c)
  BY <1>1 DEF EdgesTracked, EdgeOf, Tracked
<1>4. CASE r \in uninit
  BY <1>1, <1>2, <1>4 DEF Selected
<1>5. CASE Scheduled(r)
  BY <1>1, <1>2, <1>5 DEF Selected, Scheduled
<1>6. ASSUME NEW v \in Valuations, SeenAt(r, c, v), mode'[r] = "None"
      PROVE  Tracked(r, c)'
  <2>1. \A s \in Reads(c, v, NoTimer) : s \in Specs /\ r \in deps[s]
    BY <1>6 DEF SeenAt, EdgeOf, TimerFree, Specs
  <2>2. \A s \in Reads(c, v, NoTimer) : ~ (e # NoEvent /\ e.spec = s /\ e.complete)
    BY <1>1, <1>6, <2>1 DEF Selected
  <2>3. SeenAt(r, c, v)'
    BY <1>1, <1>6, <2>1, <2>2, SeenStays
  <2> QED BY <2>3 DEF Tracked
<1> QED BY <1>2, <1>3, <1>4, <1>5, <1>6 DEF Tracked

\* A step that schedules, forgets and changes nothing for r keeps it tracked.
LEMMA TrackedStays ==
  ASSUME NEW r \in Rules, NEW c \in Conds, EdgeOf(r, c), Tracked(r, c),
         r \in uninit => r \in uninit', Scheduled(r) => Scheduled(r)',
         memo'[c] = memo[c], values' = values, queue' = queue,
         \A s \in Specs : deps[s] \subseteq deps'[s]
  PROVE  Tracked(r, c)'
<1>1. CASE r \in uninit \/ Scheduled(r)
  BY <1>1 DEF Tracked
<1>2. ASSUME NEW v \in Valuations, SeenAt(r, c, v) PROVE Tracked(r, c)'
  <2>1. Reads(c, v, NoTimer) \subseteq Specs
    BY <1>2 DEF EdgeOf, TimerFree, TimerNames, Specs
  <2>2. \A s : ChangeInFlight(s) => ChangeInFlight(s)'
    BY DEF ChangeInFlight
  <2>3. SeenAt(r, c, v)'
    BY <1>2, <2>1, <2>2, SeenStays
  <2> QED BY <2>3 DEF Tracked
<1> QED BY <1>1, <1>2 DEF Tracked

\* The rule that is checked is registered for all that its condition looked at.
LEMMA CheckRuleTracks ==
  ASSUME TypeOK, TypeOK', CallsOwnTheirModes, EdgesTracked, NEW r \in Rules, CheckRule(r)
  PROVE  EdgesTracked'
<1> DEFINE e == IF mode[r] = "Independent" THEN NoEvent ELSE Top.event
           f == [Top EXCEPT !.todo = @ \ {r},
                            !.firing = IF enabled[r] /\ ShouldFire(r, e) THEN r ELSE NoRule]
<1>1. stack # <<>> /\ f \in Frame /\ f.todo = Top.todo \ {r} /\ stack' = SetTop(f)
  BY TopType DEF CheckRule, TypeOK, Frame
<1>2. /\ mode' = [mode EXCEPT ![r] = "None"] /\ UNCHANGED <<values, queue, rules, uninit>>
      /\ memo' = [c \in Conds |-> IF c \in CalledConds(r, e) /\ Kind[c] # "level"
                                  THEN Result(c) ELSE memo[c]]
      /\ StoreRuleDeps(r, Noted(r, e))
  BY DEF CheckRule
<1> HIDE DEF e, f
<1> SUFFICES ASSUME NEW q \in rules', NEW c \in Conds, EdgeOf(q, c)
             PROVE  Tracked(q, c)'
  BY TrackOne
<1>3. q \in rules /\ q \in Rules
  BY <1>2 DEF TypeOK
<1>4. CASE q = r
  <2>1. c \in CalledConds(r, e) /\ Kind[c] = "edge"
    BY <1>3, <1>4, EdgeAlone DEF EdgeOf
  <2>2. values \in Valuations /\ currentTimer \in TimerNames
    BY DEF TypeOK
  <2>3. memo'[c] = Eval(c, values, NoTimer)
    BY <1>2, <2>1, <2>2 DEF Result, EdgeOf, TimerFree
  <2>4. /\ Reads(c, values, NoTimer) \subseteq Controls
        /\ Reads(c, values, NoTimer) \subseteq Noted(r, e)
    BY <2>1, <2>2 DEF Noted, EdgeOf, TimerFree
  <2>5. \A s \in Reads(c, values, NoTimer) : r \in deps'[s]
    BY <1>2, <2>4 DEF StoreRuleDeps, Specs
  <2>6. SeenAt(q, c, values)'
    BY <1>2, <1>4, <2>3, <2>5 DEF SeenAt
  <2> QED BY <1>2, <2>2, <2>6 DEF Tracked
<1>5. CASE q # r
  <2>1. memo'[c] = memo[c]
    <3>1. c \notin CalledConds(r, e)
      BY <1>3, <1>5, NotShared, CheckedAreOwn DEF EdgeOf
    <3> QED BY <1>2, <3>1
  <2>2. \A s \in Specs : deps[s] \subseteq deps'[s]
    BY <1>2 DEF StoreRuleDeps
  <2>3. Scheduled(q) => Scheduled(q)'
    BY <1>1, <1>2, <1>3, <1>5, TakenOff DEF TypeOK
  <2>4. Tracked(q, c)
    BY <1>3 DEF EdgesTracked, EdgeOf, Tracked
  <2> QED BY <1>2, <1>3, <2>1, <2>2, <2>3, <2>4, TrackedStays
<1> QED BY <1>4, <1>5

\* A change of a control is announced by the event that follows it.
LEMMA ChangeTracks ==
  ASSUME TypeOK, TypeOK', EdgesTracked, UNCHANGED <<rules, memo, deps, uninit, mode, stack>>,
         \A s \in Controls : /\ ChangeInFlight(s) => ChangeInFlight(s)'
                             /\ values'[s] # values[s] => ChangeInFlight(s)'
  PROVE  EdgesTracked'
<1> SUFFICES ASSUME NEW r \in rules', NEW c \in Conds, EdgeOf(r, c)
             PROVE  Tracked(r, c)'
  BY TrackOne
<1>1. r \in rules /\ Tracked(r, c)
  BY DEF EdgesTracked, EdgeOf, Tracked
<1>2. CASE r \in uninit \/ Scheduled(r)
  BY <1>2 DEF Tracked, Scheduled
<1>3. ASSUME NEW v \in Valuations, SeenAt(r, c, v) PROVE Tracked(r, c)'
  <2>1. Reads(c, v, NoTimer) \subseteq Controls
    BY <1>3 DEF EdgeOf, TimerFree, TimerNames
  <2>2. SeenAt(r, c, v)'
    BY <1>3, <2>1, SeenStays
  <2> QED BY <2>2 DEF Tracked
<1> QED BY <1>1, <1>2, <1>3 DEF Tracked

LEMMA EdgesInit == Init => EdgesTracked
<1>1. \A r \in Rules : \A c \in CondSet(r) : Kind[c] = "edge" => NeedsInit(r)
  BY DEF NeedsInit
<1> QED BY <1>1 DEF Init, EdgesTracked

LEMMA EdgesStep ==
  TypeOK /\ CallsOwnTheirModes /\ EdgesTracked /\ [Next]_vars => EdgesTracked'
<1> SUFFICES ASSUME TypeOK, CallsOwnTheirModes, EdgesTracked, [Next]_vars
             PROVE  EdgesTracked'
  OBVIOUS
<1> USE TypeStep
<1>1. ASSUME NEW s \in Controls, NEW v \in Values, ControlValue(s, v) PROVE EdgesTracked'
  <2> DEFINE e == EventFor(s, v, TRUE)
  <2>1. e \in Event /\ e.complete /\ e.spec = s
    BY EventForType DEF TypeOK, Specs, EventFor
  <2>2. queue' = Append(queue, e) /\ queue \in Seq(Event)
    BY <1>1 DEF ControlValue, TypeOK
  <2> HIDE DEF e
  <2>3. ChangeInFlight(s)' /\ \A u : ChangeInFlight(u) => ChangeInFlight(u)'
    BY <2>1, <2>2, FlightGrows
  <2>4. \A u \in Controls : values'[u] # values[u] => u = s
    BY <1>1 DEF ControlValue, TypeOK, Valuations, Specs
  <2>5. UNCHANGED <<rules, memo, deps, uninit, mode, stack>>
    BY <1>1 DEF ControlValue, ruleState, tables
  <2> QED BY <2>3, <2>4, <2>5, ChangeTracks
<1>2. ASSUME NEW m \in Metas, NEW v \in Values, ControlMeta(m, v) PROVE EdgesTracked'
  <2> DEFINE s == MetaOf[m]
             b == values[s] # NoValue
             e1 == EventFor(m, v, b)
             e2 == EventFor(s, values[s], b)
  <2>1. m \in Specs /\ s \in Specs /\ values[s] \in Values \cup {NoValue} /\ b \in BOOLEAN
    BY SortAssumption DEF TypeOK, Valuations, Specs
  <2>2. e1 \in Event /\ e2 \in Event
    BY <2>1, EventForType DEF TypeOK
  <2>3. queue' = queue \o <<e1, e2>> /\ queue \in Seq(Event)
    BY <1>2 DEF ControlMeta, TypeOK
  <2> HIDE DEF e1, e2
  <2>4. \A u : ChangeInFlight(u) => ChangeInFlight(u)'
    BY <2>2, <2>3, FlightGrowsTwice
  <2>5. \A u \in Controls : values'[u] = values[u]
    BY <1>2, SortAssumption DEF ControlMeta, TypeOK, Valuations, Specs
  <2>6. UNCHANGED <<rules, memo, deps, uninit, mode, stack>>
    BY <1>2 DEF ControlMeta, ruleState, tables
  <2> QED BY <2>4, <2>5, <2>6, ChangeTracks
<1>3. CASE StartEventRun
  <2> DEFINE e == Head(queue)
  <2>1. e \in Event /\ queue \in Seq(Event) /\ queue # <<>> /\ queue' = Tail(queue)
    BY <1>3 DEF StartEventRun, TypeOK
  <2>2. RunRules(e, NoTimer)
    BY <1>3 DEF StartEventRun
  <2>3. /\ e = queue[1]
        /\ \A i \in DOMAIN queue : i # 1 => i - 1 \in DOMAIN queue' /\ queue'[i - 1] = queue[i]
    BY <2>1
  <2>4. ASSUME NEW s \in Specs, ChangeInFlight(s)
        PROVE  ChangeInFlight(s)' \/ (e # NoEvent /\ e.spec = s /\ e.complete)
    <3>1. PICK i \in DOMAIN queue : queue[i].spec = s /\ queue[i].complete
      BY <2>4 DEF ChangeInFlight
    <3>2. e # NoEvent
      BY <2>1, SortAssumption
    <3>3. CASE i = 1
      BY <2>3, <3>1, <3>2, <3>3
    <3>4. CASE i # 1
      <4>1. i - 1 \in DOMAIN queue' /\ queue'[i - 1] = queue[i]
        BY <2>3, <3>4
      <4> QED BY <3>1, <4>1 DEF ChangeInFlight
    <3> QED BY <3>3, <3>4
  <2> HIDE DEF e
  <2> QED BY <2>1, <2>2, <2>4, RunRulesTracks DEF TimerNames
<1>4. ASSUME NEW e \in Event \cup {NoEvent}, NEW t \in TimerNames, RunRules(e, t),
             queue' = queue
      PROVE EdgesTracked'
  BY <1>4, RunRulesTracks DEF ChangeInFlight
<1>5. ASSUME NEW t \in Timers, StartTimerRun(t) PROVE EdgesTracked'
  BY <1>4, <1>5 DEF StartTimerRun, TimerNames
<1>6. ASSUME NEW e \in {NoEvent} \cup {PlainEvent(s) : s \in Specs}, CallRunRules(e)
      PROVE EdgesTracked'
  <2>1. e \in Event \cup {NoEvent}
    BY PlainEventType
  <2> QED BY <1>4, <1>6, <2>1 DEF CallRunRules, TimerNames
<1>7. ASSUME NEW r \in Rules, CheckRule(r) PROVE EdgesTracked'
  BY <1>7, CheckRuleTracks
<1>8. ASSUME UNCHANGED <<values, queue, rules, memo, deps, uninit>>,
             \A q \in Rules : Scheduled(q) => Scheduled(q)'
      PROVE EdgesTracked'
  <2> SUFFICES ASSUME NEW q \in rules', NEW c \in Conds, EdgeOf(q, c)
               PROVE  Tracked(q, c)'
    BY TrackOne
  <2>1. q \in Rules /\ Tracked(q, c)
    BY <1>8 DEF EdgesTracked, EdgeOf, Tracked, TypeOK
  <2> QED BY <1>8, <2>1, TrackedStays
<1>9. ASSUME NEW r \in Rules, SkipRule(r) PROVE EdgesTracked'
  <2> DEFINE f == [Top EXCEPT !.todo = @ \ {r}]
  <2>1. stack # <<>> /\ f \in Frame /\ f.todo = Top.todo \ {r} /\ stack' = SetTop(f)
    BY <1>9, TopType DEF SkipRule, TypeOK, Frame
  <2>2. UNCHANGED <<values, queue, rules, memo, deps, uninit, mode>> /\ mode[r] = "None"
    BY <1>9 DEF SkipRule, ruleState, tables
  <2> HIDE DEF f
  <2>3. \A q \in Rules : Scheduled(q) => Scheduled(q)'
    BY <2>1, <2>2, TakenOff DEF Scheduled
  <2> QED BY <1>8, <2>2, <2>3
<1>10. CASE ThenReturns
  <2> DEFINE f == [Top EXCEPT !.firing = NoRule]
  <2>1. stack # <<>> /\ f \in Frame /\ f.todo = Top.todo /\ stack' = SetTop(f)
    BY <1>10, TopType DEF ThenReturns, TypeOK, Frame
  <2>2. UNCHANGED <<values, queue, rules, memo, deps, uninit, mode>>
    BY <1>10 DEF ThenReturns, ruleState, tables
  <2> HIDE DEF f
  <2>3. /\ DOMAIN stack' = DOMAIN stack
        /\ \A k \in DOMAIN stack : stack'[k].todo = stack[k].todo
    BY <2>1, SetTopOthers DEF TypeOK, Top
  <2> QED BY <1>8, <2>2, <2>3 DEF Scheduled
<1>11. CASE EndRun
  <2>1. UNCHANGED <<values, queue, rules, memo, deps, uninit, mode>>
    BY <1>11 DEF EndRun, ruleState, tables
  <2> QED BY <1>8, <1>11, <2>1, Popped
<1>12. ASSUME NEW r \in Rules, NEW b \in BOOLEAN, SetState(r, b) PROVE EdgesTracked'
  <2>1. UNCHANGED <<values, queue, rules, memo, deps, uninit, mode, stack>>
    BY <1>12 DEF SetState, tables
  <2> QED BY <1>8, <2>1 DEF Scheduled
<1>13. ASSUME NEW r \in Rules, DefineRule(r) PROVE EdgesTracked'
  <2> SUFFICES ASSUME NEW q \in rules', NEW c \in Conds, EdgeOf(q, c)
               PROVE  Tracked(q, c)'
    BY TrackOne
  <2>1. /\ rules' \subseteq rules \cup {r} /\ UNCHANGED <<values, queue, stack>>
        /\ uninit' = IF NeedsInit(r) THEN uninit \cup {r} ELSE uninit
        /\ \A s \in Specs : deps[s] \subseteq deps'[s]
        /\ MakeRules({r})
    BY <1>13 DEF DefineRule
  <2>2. CASE q = r
    BY <2>1, <2>2, EdgeAlone DEF Tracked
  <2>3. CASE q # r
    <3>1. q \in rules /\ q \in Rules /\ Tracked(q, c)
      BY <2>1, <2>3 DEF EdgesTracked, EdgeOf, Tracked, TypeOK
    <3>2. memo'[c] = memo[c]
      BY <2>1, <2>3, <3>1, NotShared DEF MakeRules, EdgeOf
    <3>3. mode'[q] = mode[q]
      BY <2>1, <2>3, <3>1 DEF MakeRules
    <3>4. Scheduled(q) => Scheduled(q)'
      BY <2>1, <3>3 DEF Scheduled
    <3> QED BY <2>1, <3>1, <3>2, <3>4, TrackedStays
  <2> QED BY <2>2, <2>3
<1>14. ASSUME NEW f \in Files, NEW R \in SUBSET RulesOf(f), ReloadFile(f, R)
       PROVE EdgesTracked'
  <2> SUFFICES ASSUME NEW q \in rules', NEW c \in Conds, EdgeOf(q, c)
               PROVE  Tracked(q, c)'
    BY TrackOne
  <2>1. uninit' = {r \in rules' : NeedsInit(r)} /\ q \in Rules
    BY <1>14 DEF ReloadFile, Refresh, TypeOK
  <2> QED BY <2>1, EdgeAlone DEF Tracked
<1>15. CASE UNCHANGED vars
  BY <1>8, <1>15 DEF vars, ruleState, tables, Scheduled
<1> QED
  BY <1>1, <1>2, <1>3, <1>5, <1>6, <1>7, <1>9, <1>10, <1>11, <1>12, <1>13, <1>14, <1>15
  DEF Next, DriverStep, RunStep, ScriptStep

\* The dependency tracking never loses a control that an asSoonAs condition looked at.
THEOREM DependenciesTracked == Spec => []EdgesTracked
BY InitType, TypeStep, ModesInit, ModesStep, EdgesInit, EdgesStep, PTL DEF Spec

\* When nothing is left to process, no condition remembers an outdated result.
LEMMA TrackedMissesNothing == TypeOK /\ EdgesTracked => NoMissedEdge
<1> SUFFICES ASSUME TypeOK, EdgesTracked, Idle,
                    NEW r \in rules \ uninit, NEW c \in CondSet(r),
                    Kind[c] = "edge", TimerFree(c)
             PROVE  memo[c] = Eval(c, values, NoTimer)
  BY DEF NoMissedEdge
<1>1. ~ Scheduled(r) /\ \A s : ~ ChangeInFlight(s)
  BY DEF Idle, Scheduled, ChangeInFlight
<1>2. PICK v \in Valuations : SeenAt(r, c, v)
  BY <1>1 DEF EdgesTracked
<1>3. c \in Conds /\ values \in Valuations /\ NoTimer \in TimerNames
  BY CondSetType DEF TypeOK, TimerNames
<1>4. \A s \in Reads(c, v, NoTimer) : values[s] = v[s]
  BY <1>1, <1>2 DEF SeenAt
<1>5. Eval(c, values, NoTimer) = Eval(c, v, NoTimer)
  BY <1>3, <1>4, ReadsDetermineEval
<1> QED BY <1>2, <1>5 DEF SeenAt

\* When every change has been processed, an asSoonAs rule has noticed them all:
\* its condition remembers the value it would give now.
THEOREM NoEdgeMissed == Spec => []NoMissedEdge
BY TrackedMissesNothing, InitType, TypeStep, ModesInit, ModesStep, EdgesInit, EdgesStep,
   PTL DEF Spec
-----------------------------------------------------------------------------
(* Scripts that do not call runRules() *)

\* A hypothesis: no script calls runRules().  A nested call uses up check modes
\* that were set for the event of the outer one.
NoNestedRuns == "runRules" \notin Calls

OneRun == Len(stack) <= 1

LEMMA OnlyTop ==
  ASSUME TypeOK, OneRun, stack # <<>>
  PROVE  /\ Len(stack) = 1 /\ Top = stack[1] /\ stack[1] \in Frame
         /\ \A f \in Frame : SetTop(f) # <<>> /\ Len(SetTop(f)) = 1 /\ SetTop(f)[1] = f
<1>1. stack \in Seq(Frame) /\ Len(stack) <= 1
  BY DEF OneRun, TypeOK
<1>2. Len(stack) \in Nat /\ Len(stack) # 0
  BY <1>1
<1>3. \A n \in Nat : n <= 1 /\ n # 0 => n = 1
  OBVIOUS
<1>4. Len(stack) = 1
  BY ONLY <1>1, <1>2, <1>3
<1> QED BY <1>1, <1>4 DEF Top, SetTop

\* RunRules starts a call for all the rules there are.
LEMMA RunStarted ==
  ASSUME TypeOK, stack = <<>>, NEW e \in Event \cup {NoEvent}, NEW t \in TimerNames,
         RunRules(e, t)
  PROVE  /\ stack' # <<>> /\ Len(stack') = 1
         /\ stack'[1].event = e /\ stack'[1].todo = rules
<1> DEFINE f == [event |-> e, timer |-> t, todo |-> rules, firing |-> NoRule]
<1>1. stack' = Append(stack, f)
  BY DEF RunRules
<1> QED BY <1>1

\* Each rule of the call is taken off when it is looked at.
LEMMA RuleTaken ==
  ASSUME TypeOK, OneRun, NEW r \in Rules, SkipRule(r) \/ CheckRule(r)
  PROVE  /\ stack # <<>> /\ Top = stack[1] /\ r \in stack[1].todo
         /\ stack' # <<>> /\ Len(stack') = 1
         /\ stack'[1].event = stack[1].event /\ stack'[1].todo = stack[1].todo \ {r}
<1> DEFINE e == IF mode[r] = "Independent" THEN NoEvent ELSE Top.event
           f == [Top EXCEPT !.todo = @ \ {r}]
           g == [Top EXCEPT !.todo = @ \ {r},
                            !.firing = IF enabled[r] /\ ShouldFire(r, e)
                                       THEN r ELSE NoRule]
<1>1. stack # <<>> /\ r \in Top.todo /\ (stack' = SetTop(f) \/ stack' = SetTop(g))
  BY DEF SkipRule, CheckRule
<1>2. Top \in Frame /\ Top = stack[1]
  BY <1>1, OnlyTop
<1>3. /\ f \in Frame /\ f.event = Top.event /\ f.todo = Top.todo \ {r}
      /\ g \in Frame /\ g.event = Top.event /\ g.todo = Top.todo \ {r}
  BY <1>2 DEF Frame
<1> HIDE DEF f, g
<1> QED BY <1>1, <1>2, <1>3, OnlyTop

LEMMA BodyReturned ==
  ASSUME TypeOK, OneRun, ThenReturns
  PROVE  /\ stack # <<>> /\ stack' # <<>> /\ Len(stack') = 1
         /\ stack'[1].event = stack[1].event /\ stack'[1].todo = stack[1].todo
<1> DEFINE f == [Top EXCEPT !.firing = NoRule]
<1>1. stack # <<>> /\ stack' = SetTop(f)
  BY DEF ThenReturns
<1>2. Top \in Frame /\ Top = stack[1]
  BY <1>1, OnlyTop
<1>3. f \in Frame /\ f.event = Top.event /\ f.todo = Top.todo
  BY <1>2 DEF Frame
<1> HIDE DEF f
<1> QED BY <1>1, <1>2, <1>3, OnlyTop

LEMMA RunEnded ==
  ASSUME TypeOK, OneRun, EndRun
  PROVE  stack # <<>> /\ stack[1].todo = {} /\ stack' = <<>>
<1>1. /\ stack # <<>> /\ Top.todo = {} /\ stack \in Seq(Frame)
      /\ stack' = SubSeq(stack, 1, Len(stack) - 1)
  BY DEF EndRun, TypeOK
<1>2. Len(stack) = 1 /\ Top = stack[1]
  BY <1>1, OnlyTop
<1> QED BY <1>1, <1>2

\* The steps that leave the calls in progress alone
Aside ==
  \/ DriverStep
  \/ \E r \in Rules, b \in BOOLEAN : SetState(r, b)
  \/ \E r \in Rules : DefineRule(r)
  \/ \E f \in Files : \E R \in SUBSET RulesOf(f) : ReloadFile(f, R)
  \/ UNCHANGED vars

LEMMA AsideStack == Aside => stack' = stack
BY DEF Aside, DriverStep, ControlValue, ControlMeta, SetState, DefineRule, ReloadFile, vars

\* The steps that scripts take without nesting calls
LEMMA NextCases ==
  ASSUME NoNestedRuns, [Next]_vars
  PROVE  \/ StartEventRun
         \/ \E t \in Timers : StartTimerRun(t)
         \/ \E r \in Rules : SkipRule(r)
         \/ \E r \in Rules : CheckRule(r)
         \/ ThenReturns
         \/ EndRun
         \/ Aside
BY DEF NoNestedRuns, CallRunRules, Next, RunStep, ScriptStep, Aside

LEMMA OneRunStep ==
  ASSUME NoNestedRuns, TypeOK, OneRun, [Next]_vars
  PROVE  OneRun'
<1>1. CASE StartEventRun
  <2>1. Head(queue) \in Event /\ NoTimer \in TimerNames
    BY <1>1 DEF StartEventRun, TypeOK, TimerNames
  <2>2. stack = <<>> /\ RunRules(Head(queue), NoTimer)
    BY <1>1 DEF StartEventRun
  <2>3. Len(stack') = 1
    BY <2>1, <2>2, RunStarted
  <2> QED BY <2>3 DEF OneRun
<1>2. ASSUME NEW t \in Timers, StartTimerRun(t) PROVE OneRun'
  <2>1. stack = <<>> /\ RunRules(NoEvent, t) /\ t \in TimerNames
    BY <1>2 DEF StartTimerRun, TimerNames
  <2>2. Len(stack') = 1
    BY <2>1, RunStarted
  <2> QED BY <2>2 DEF OneRun
<1>3. ASSUME NEW r \in Rules, SkipRule(r) \/ CheckRule(r) PROVE OneRun'
  BY <1>3, RuleTaken DEF OneRun
<1>4. CASE ThenReturns
  BY <1>4, BodyReturned DEF OneRun
<1>5. CASE EndRun
  BY <1>5, RunEnded DEF OneRun
<1>6. CASE Aside
  BY <1>6, AsideStack DEF OneRun
<1> QED BY <1>1, <1>2, <1>3, <1>4, <1>5, <1>6, NextCases

-----------------------------------------------------------------------------
(* Changes of the controls that whenChanged names *)

\* The specs that rules name are in the dependency map, and such a rule never
\* counts as one without controls.
NamedKnown ==
  \A r \in rules :
    /\ \A c \in CondSet(r) : Kind[c] = "cell" => r \in deps[SpecOf[c]]
    /\ HasDeps(r) => withoutControls[r] # "true"

LEMMA NamedInit == Init => NamedKnown
<1>1. \A r \in Rules : \A c \in CondSet(r) : SpecOf[c] \in Specs
  BY CondSetType, SortAssumption
<1> QED BY <1>1 DEF Init, NamedKnown, NamedDeps

LEMMA NamedStep == TypeOK /\ NamedKnown /\ [Next]_vars => NamedKnown'
<1> SUFFICES ASSUME TypeOK, NamedKnown, [Next]_vars PROVE NamedKnown'
  OBVIOUS
<1>1. CASE UNCHANGED <<rules, deps, withoutControls>>
  BY <1>1 DEF NamedKnown
<1>2. \A r \in Rules : \A c \in CondSet(r) : SpecOf[c] \in Specs
  BY CondSetType, SortAssumption
<1>3. ASSUME NEW r \in Rules, CheckRule(r) PROVE NamedKnown'
  <2>1. PICK noted : StoreRuleDeps(r, noted)
    BY <1>3 DEF CheckRule
  <2>2. \A s \in Specs : deps[s] \subseteq deps'[s]
    BY <2>1 DEF StoreRuleDeps
  <2>3. \A q \in Rules :
          HasDeps(q) /\ withoutControls[q] # "true" => withoutControls'[q] # "true"
    BY <2>1 DEF StoreRuleDeps, TypeOK
  <2>4. rules' = rules /\ rules \subseteq Rules
    BY <1>3 DEF CheckRule, TypeOK
  <2> QED BY <1>2, <2>2, <2>3, <2>4 DEF NamedKnown
<1>4. ASSUME NEW r \in Rules, DefineRule(r) PROVE NamedKnown'
  <2>1. /\ rules' \subseteq rules \cup {r} /\ rules \subseteq Rules
        /\ \A s \in Specs : deps'[s] = deps[s] \cup NamedDeps(s, {r})
        /\ \A q \in Rules : withoutControls'[q] =
             IF q = r THEN IF HasDeps(r) THEN "false" ELSE "absent" ELSE withoutControls[q]
    BY <1>4 DEF DefineRule, TypeOK
  <2> QED BY <1>2, <2>1 DEF NamedKnown, NamedDeps
<1>5. ASSUME NEW f \in Files, NEW R \in SUBSET RulesOf(f), ReloadFile(f, R)
      PROVE NamedKnown'
  <2>1. /\ rules' \subseteq Rules
        /\ \A s \in Specs : deps'[s] = NamedDeps(s, rules')
        /\ \A q \in Rules : withoutControls'[q] = "absent"
    BY <1>5 DEF ReloadFile, RulesOf, Refresh, TypeOK
  <2> QED BY <1>2, <2>1 DEF NamedKnown, NamedDeps
<1>6. CASE \/ UNCHANGED vars \/ DriverStep \/ ThenReturns \/ EndRun \/ StartEventRun
           \/ \E r \in Rules : SkipRule(r) \/ \E b \in BOOLEAN : SetState(r, b)
           \/ \E t \in Timers : StartTimerRun(t)
           \/ \E e \in {NoEvent} \cup {PlainEvent(s) : s \in Specs} : CallRunRules(e)
  BY <1>1, <1>6 DEF vars, tables, ruleState, DriverStep, ControlValue, ControlMeta,
     ThenReturns, EndRun, StartEventRun, StartTimerRun, CallRunRules, RunRules, SkipRule,
     SetState
<1> QED BY <1>3, <1>4, <1>5, <1>6 DEF Next, RunStep, ScriptStep

\* The call in progress will fire rule r: its mode is set for the event, which is a
\* change of a control that r names.
WillFire(r) ==
  /\ r \in rules /\ enabled[r] /\ mode[r] = "WithEvent"
  /\ stack # <<>> /\ r \in stack[1].todo
  /\ \E c \in CondSet(r) : Kind[c] = "cell" /\ CellFires(c, stack[1].event)

OwedWillFire == \A r \in owed : WillFire(r)

\* An array of conditions stops at one that fires, so that a condition which fires
\* makes the rule fire, wherever in the array it is.
LEMMA SomeCondFires ==
  ASSUME NEW r \in Rules, NEW e, NEW c \in CondSet(r), CondFires(c, e)
  PROVE  ShouldFire(r, e)
<1> DEFINE conds == CondsOf[r]
           F == {i \in DOMAIN conds : CondFires(conds[i], e)}
<1>1. conds \in Seq(Conds)
  BY SortAssumption
<1>2. F \subseteq Nat /\ F # {} /\ IsWellFoundedOn(OpToRel(<, Nat), Nat)
  <2>1. F \subseteq Nat
    BY <1>1
  <2>2. F # {}
    BY DEF CondSet, Range
  <2> QED BY <2>1, <2>2, NatLessThanWellFounded
<1>3. PICK i \in F : \A j \in F : ~ (<<j, i>> \in OpToRel(<, Nat))
  BY <1>2, WFMin, Zenon
<1>4. i \in DOMAIN conds /\ CondFires(conds[i], e)
  OBVIOUS
<1>5. \A k \in 1 .. (i - 1) : ~ CondFires(conds[k], e)
  <2> SUFFICES ASSUME NEW k \in 1 .. (i - 1), CondFires(conds[k], e) PROVE FALSE
    OBVIOUS
  <2>1. k \in Nat /\ i \in Nat /\ k < i /\ k \in DOMAIN conds
    BY <1>1, <1>4
  <2>2. <<k, i>> \in OpToRel(<, Nat)
    BY <2>1 DEF OpToRel
  <2> QED BY <1>3, <2>1, <2>2
<1>6. conds[i] \in CheckedConds(r, e)
  BY <1>4, <1>5 DEF CheckedConds
<1> QED BY <1>4, <1>6 DEF ShouldFire

\* RunRules on a change sets the mode of every enabled rule that names the control.
LEMMA OwedScheduled ==
  ASSUME TypeOK, NamedKnown, StartEventRun
  PROVE  OwedWillFire'
<1> DEFINE e == Head(queue)
<1>1. e \in Event /\ e # NoEvent /\ stack = <<>> /\ RunRules(e, NoTimer) /\ owed' = Owed(e)
  BY SortAssumption DEF StartEventRun, TypeOK
<1> HIDE DEF e
<1>2. stack' # <<>> /\ stack'[1].event = e /\ stack'[1].todo = rules
  BY <1>1, RunStarted DEF TimerNames
<1> SUFFICES ASSUME NEW r \in owed' PROVE WillFire(r)'
  BY DEF OwedWillFire
<1>3. PICK c \in CondSet(r) : Kind[c] = "cell" /\ CellFires(c, e)
  BY <1>1 DEF Owed
<1>4. r \in rules /\ r \in Rules /\ enabled[r]
  BY <1>1 DEF Owed, TypeOK
<1>5. e.complete /\ r \in deps[e.spec] /\ withoutControls[r] # "true"
  BY <1>3, <1>4 DEF CellFires, IsChange, NamedKnown, HasDeps
<1>6. mode'[r] = "WithEvent"
  BY <1>1, <1>4, <1>5 DEF RunRules, Selected
<1> QED BY <1>1, <1>2, <1>3, <1>4, <1>6 DEF WillFire, RunRules

LEMMA OwedStep ==
  ASSUME NoNestedRuns, TypeOK, OneRun, NamedKnown, OwedWillFire, [Next]_vars
  PROVE  OwedWillFire'
<1>1. CASE StartEventRun
  BY <1>1, OwedScheduled
<1>2. ASSUME NEW t \in Timers, StartTimerRun(t) PROVE OwedWillFire'
  BY <1>2 DEF StartTimerRun, OwedWillFire, WillFire
<1>3. ASSUME NEW r \in Rules, SkipRule(r) PROVE OwedWillFire'
  <2>1. /\ stack' # <<>> /\ stack'[1].event = stack[1].event
        /\ stack'[1].todo = stack[1].todo \ {r}
    BY <1>3, RuleTaken
  <2>2. r \notin owed
    BY <1>3 DEF SkipRule, OwedWillFire, WillFire
  <2>3. UNCHANGED <<owed, rules, enabled, mode>>
    BY <1>3 DEF SkipRule, ruleState
  <2> QED BY <2>1, <2>2, <2>3 DEF OwedWillFire, WillFire
<1>4. ASSUME NEW r \in Rules, CheckRule(r) PROVE OwedWillFire'
  <2>1. /\ stack' # <<>> /\ stack'[1].event = stack[1].event
        /\ stack'[1].todo = stack[1].todo \ {r} /\ Top = stack[1]
    BY <1>4, RuleTaken
  <2>2. r \in owed => enabled[r] /\ ShouldFire(r, Top.event) /\ mode[r] = "WithEvent"
    BY <2>1, SomeCondFires DEF OwedWillFire, WillFire, CondFires
  <2>3. r \notin owed'
    BY <1>4, <2>2 DEF CheckRule
  <2>4. owed' \subseteq owed /\ UNCHANGED <<rules, enabled>>
    BY <1>4 DEF CheckRule
  <2>5. \A q \in Rules : q # r => mode'[q] = mode[q]
    BY <1>4 DEF CheckRule, TypeOK
  <2> QED BY <2>1, <2>3, <2>4, <2>5 DEF OwedWillFire, WillFire, TypeOK
<1>5. CASE ThenReturns
  <2>1. /\ stack' # <<>> /\ stack'[1].event = stack[1].event
        /\ stack'[1].todo = stack[1].todo
    BY <1>5, BodyReturned
  <2> QED BY <1>5, <2>1 DEF ThenReturns, ruleState, OwedWillFire, WillFire
<1>6. CASE EndRun
  <2>1. stack[1].todo = {}
    BY <1>6, RunEnded
  <2> QED BY <1>6, <2>1 DEF EndRun, OwedWillFire, WillFire
<1>7. CASE DriverStep \/ UNCHANGED vars
  BY <1>7 DEF DriverStep, ControlValue, ControlMeta, vars, ruleState, OwedWillFire, WillFire
<1>8. ASSUME NEW r \in Rules, NEW b \in BOOLEAN, SetState(r, b) PROVE OwedWillFire'
  BY <1>8 DEF SetState, OwedWillFire, WillFire, TypeOK
<1>9. ASSUME NEW r \in Rules, DefineRule(r) PROVE OwedWillFire'
  <2>1. /\ r \notin rules /\ rules \subseteq rules' /\ UNCHANGED <<stack, owed>>
        /\ \A q \in rules : enabled'[q] = enabled[q] /\ mode'[q] = mode[q]
    BY <1>9 DEF DefineRule, MakeRules, TypeOK
  <2> QED BY <2>1 DEF OwedWillFire, WillFire
<1>10. ASSUME NEW f \in Files, NEW R \in SUBSET RulesOf(f), ReloadFile(f, R)
       PROVE OwedWillFire'
  BY <1>10 DEF ReloadFile, OwedWillFire, WillFire
<1> QED
  BY <1>1, <1>2, <1>3, <1>4, <1>5, <1>6, <1>7, <1>8, <1>9, <1>10, NextCases DEF Aside

\* An event that changes a control named in whenChanged fires every enabled rule that
\* names it before the next event is taken, in whatever array of conditions the control
\* is named and whatever scripts define, switch and reload meanwhile.
THEOREM NamedChangesFire ==
  ASSUME NoNestedRuns
  PROVE  Spec => []CellChangesFire
<1>1. Init => OneRun /\ OwedWillFire
  BY DEF Init, OneRun, OwedWillFire
<1>2. TypeOK /\ OneRun /\ NamedKnown /\ OwedWillFire /\ [Next]_vars => OneRun' /\ OwedWillFire'
  BY OneRunStep, OwedStep
<1>3. OwedWillFire => CellChangesFire
  BY DEF OwedWillFire, WillFire, CellChangesFire
<1> QED
  BY <1>1, <1>2, <1>3, InitType, TypeStep, NamedInit, NamedStep, PTL DEF Spec
-----------------------------------------------------------------------------
(* The functions of whenChanged *)

\* A hypothesis: no control is without a value when the engine is ready, buttons
\* apart.  The first value of a control is no change for whenChanged.
ControlsReceived == \A v \in InitValues, s \in Controls \ Buttons : v[s] # NoValue

\* A hypothesis: a rule with a function in whenChanged has no other condition.  In an
\* array the function waits behind the conditions before it.
FunctionsAlone ==
  \A r \in Rules : (\E c \in CondSet(r) : Kind[c] = "func") => Len(CondsOf[r]) = 1

Received == \A s \in Controls \ Buttons : values[s] # NoValue

LEMMA ReceivedInit == ControlsReceived /\ Init => Received
BY DEF ControlsReceived, Init, Received

LEMMA ReceivedStep == TypeOK /\ Received /\ [Next]_vars => Received'
<1> SUFFICES ASSUME TypeOK, Received, [Next]_vars PROVE Received'
  OBVIOUS
<1>1. ASSUME NEW s \in Specs, NEW v \in Values, values' = [values EXCEPT ![s] = v]
      PROVE Received'
  BY <1>1, SortAssumption DEF Received, TypeOK, Valuations, Specs
<1>2. CASE DriverStep
  BY <1>1, <1>2 DEF DriverStep, ControlValue, ControlMeta, Specs
<1>3. CASE values' = values
  BY <1>3 DEF Received
<1> QED
  BY <1>2, <1>3 DEF Next, StartEventRun, RunStep, ScriptStep, RunRules, SkipRule, CheckRule,
     ThenReturns, EndRun, StartTimerRun, CallRunRules, SetState, DefineRule, ReloadFile, vars

\* A rule whose only condition is the function c
LoneFunction(r, c) ==
  /\ c \in CondSet(r) /\ Kind[c] = "func" /\ TimerFree(c) /\ Len(CondsOf[r]) = 1

\* The function is the only condition, so that it is called whenever its event is none
\* or a change.
LEMMA FunctionCalled ==
  ASSUME NEW r \in Rules, NEW c, LoneFunction(r, c)
  PROVE  /\ c \in Conds /\ CondSet(r) = {c} /\ NeedsInit(r) /\ ~ HasDeps(r)
         /\ \A e : c \in CalledConds(r, e) <=> e = NoEvent \/ IsChange(e)
<1>1. CondsOf[r] \in Seq(Conds) /\ c \in Range(CondsOf[r]) /\ Len(CondsOf[r]) = 1
  BY SortAssumption DEF LoneFunction, CondSet
<1>2. DOMAIN CondsOf[r] = {1} /\ c = CondsOf[r][1] /\ Kind[c] = "func"
  BY <1>1 DEF Range, LoneFunction
<1>3. CondSet(r) = {c} /\ c \in Conds
  BY <1>1, <1>2, CondSetType DEF CondSet, Range
<1>4. \A e : c \in CheckedConds(r, e)
  BY <1>2 DEF CheckedConds
<1>5. NeedsInit(r) /\ ~ HasDeps(r)
  BY <1>2, <1>3 DEF NeedsInit, HasDeps
<1> QED BY <1>2, <1>3, <1>4, <1>5 DEF CalledConds, IsCalled

\* A rule that is due for its first look is registered for no control that it does not
\* name, and no call in progress will look at it.
Untouched(r) ==
  /\ \A s \in Specs : r \notin deps[s]
  /\ \A k \in DOMAIN stack : r \notin stack[k].todo

FirstLooks == \A r \in uninit : ~ HasDeps(r) => Untouched(r)

LEMMA FirstLooksInit == Init => FirstLooks
BY DEF Init, FirstLooks, Untouched, NamedDeps, HasDeps

LEMMA FirstLooksStep ==
  TypeOK /\ CallsOwnTheirModes /\ StraysWereRefused /\ FirstLooks /\ [Next]_vars
    => FirstLooks'
<1> SUFFICES ASSUME TypeOK, CallsOwnTheirModes, StraysWereRefused, FirstLooks, [Next]_vars
             PROVE  FirstLooks'
  OBVIOUS
<1>1. CASE UNCHANGED <<uninit, deps, stack>>
  BY <1>1 DEF FirstLooks, Untouched
<1>2. ASSUME NEW e, NEW t, RunRules(e, t) PROVE FirstLooks'
  BY <1>2 DEF RunRules, FirstLooks
<1>3. ASSUME NEW r \in Rules, SkipRule(r) PROVE FirstLooks'
  <2> DEFINE f == [Top EXCEPT !.todo = @ \ {r}]
  <2>1. stack # <<>> /\ f \in Frame /\ f.todo = Top.todo \ {r} /\ stack' = SetTop(f)
    BY <1>3, TopType DEF SkipRule, TypeOK, Frame
  <2>2. UNCHANGED <<uninit, deps>>
    BY <1>3 DEF SkipRule, tables
  <2> HIDE DEF f
  <2>3. \A k \in DOMAIN stack' : k \in DOMAIN stack /\ stack'[k].todo \subseteq stack[k].todo
    BY <2>1, SetTopOthers DEF TypeOK, Top
  <2> QED BY <2>2, <2>3 DEF FirstLooks, Untouched
<1>4. ASSUME NEW r \in Rules, CheckRule(r) PROVE FirstLooks'
  <2> DEFINE e == IF mode[r] = "Independent" THEN NoEvent ELSE Top.event
             f == [Top EXCEPT !.todo = @ \ {r},
                              !.firing = IF enabled[r] /\ ShouldFire(r, e)
                                         THEN r ELSE NoRule]
  <2>1. stack # <<>> /\ f \in Frame /\ f.todo = Top.todo \ {r} /\ stack' = SetTop(f)
    BY <1>4, TopType DEF CheckRule, TypeOK, Frame
  <2>2. /\ uninit' = uninit /\ r \in Top.todo
        /\ \A s \in Specs : deps'[s] \subseteq deps[s] \cup {r}
    BY <1>4 DEF CheckRule, StoreRuleDeps
  <2> HIDE DEF f
  <2>3. \A k \in DOMAIN stack' : k \in DOMAIN stack /\ stack'[k].todo \subseteq stack[k].todo
    BY <2>1, SetTopOthers DEF TypeOK, Top
  <2>4. Len(stack) \in DOMAIN stack /\ r \in stack[Len(stack)].todo
    BY <2>1, <2>2, TopType DEF TypeOK, Top
  <2> QED BY <2>2, <2>3, <2>4 DEF FirstLooks, Untouched
<1>5. CASE ThenReturns
  <2> DEFINE f == [Top EXCEPT !.firing = NoRule]
  <2>1. stack # <<>> /\ f \in Frame /\ f.todo = Top.todo /\ stack' = SetTop(f)
    BY <1>5, TopType DEF ThenReturns, TypeOK, Frame
  <2>2. UNCHANGED <<uninit, deps>>
    BY <1>5 DEF ThenReturns, tables
  <2> HIDE DEF f
  <2>3. \A k \in DOMAIN stack' : k \in DOMAIN stack /\ stack'[k].todo = stack[k].todo
    BY <2>1, SetTopOthers DEF TypeOK, Top
  <2> QED BY <2>2, <2>3 DEF FirstLooks, Untouched
<1>6. CASE EndRun
  <2>1. UNCHANGED <<uninit, deps>>
    BY <1>6 DEF EndRun, tables
  <2>2. \A k \in DOMAIN stack' : k \in DOMAIN stack /\ stack'[k] = stack[k]
    BY <1>6, Popped
  <2> QED BY <2>1, <2>2 DEF FirstLooks, Untouched
<1>7. ASSUME NEW r \in Rules, DefineRule(r) PROVE FirstLooks'
  <2>1. /\ r \notin rules /\ uninit' \subseteq uninit \cup {r} /\ stack' = stack
        /\ \A s \in Specs : deps'[s] = deps[s] \cup NamedDeps(s, {r})
    BY <1>7 DEF DefineRule
  <2>2. ~ HasDeps(r) => Untouched(r)'
    BY <2>1 DEF CallsOwnTheirModes, StraysWereRefused, Untouched, NamedDeps, HasDeps
  <2>3. ASSUME NEW q \in uninit, ~ HasDeps(q), q # r PROVE Untouched(q)'
    BY <2>1, <2>3 DEF FirstLooks, Untouched, NamedDeps
  <2> QED BY <2>1, <2>2, <2>3 DEF FirstLooks
<1>8. ASSUME NEW f \in Files, NEW R \in SUBSET RulesOf(f), ReloadFile(f, R)
      PROVE FirstLooks'
  BY <1>8 DEF ReloadFile, Refresh, FirstLooks, Untouched, NamedDeps, HasDeps
<1>9. CASE DriverStep \/ UNCHANGED vars \/ \E r \in Rules, b \in BOOLEAN : SetState(r, b)
  BY <1>1, <1>9 DEF DriverStep, ControlValue, ControlMeta, SetState, vars, tables
<1> QED
  BY <1>2, <1>3, <1>4, <1>5, <1>6, <1>7, <1>8, <1>9
  DEF Next, RunStep, ScriptStep, StartEventRun, StartTimerRun, CallRunRules

\* A change of s that whenChanged will see as one is on its way.
ChangeAnnounced(s) == \E i \in DOMAIN queue : queue[i].spec = s /\ IsChange(queue[i])

\* The call in progress will call r's function.
WillCall(r) ==
  /\ stack # <<>> /\ r \in stack[1].todo
  /\ \/ mode[r] = "Independent"
     \/ mode[r] = "WithEvent" /\ (stack[1].event = NoEvent \/ IsChange(stack[1].event))

\* The function was last called on v, and what differs from v by now is announced.
CalledAt(r, c, v) ==
  /\ memo[c] = Eval(c, v, NoTimer)
  /\ \A s \in Reads(c, v, NoTimer) :
       r \in deps[s] /\ (values[s] # v[s] => ChangeAnnounced(s))

Followed(r, c) ==
  r \in uninit \/ WillCall(r) \/ \E v \in Valuations : CalledAt(r, c, v)

FunctionsFollowed ==
  \A r \in rules : \A c \in Conds : LoneFunction(r, c) => Followed(r, c)

\* A function's reads are controls.
LEMMA FunctionReads ==
  ASSUME NEW r, NEW c, LoneFunction(r, c), NEW v \in Valuations
  PROVE  Reads(c, v, NoTimer) \subseteq Controls
BY DEF LoneFunction, TimerFree, TimerNames

\* A call stays noted while the condition remembers it, its rule stays registered and
\* every new difference of a value is announced.
LEMMA CallStays ==
  ASSUME NEW r, NEW c, NEW v \in Valuations, LoneFunction(r, c), CalledAt(r, c, v),
         memo'[c] = memo[c],
         \A s \in Controls :
           /\ r \in deps[s] => r \in deps'[s]
           /\ ChangeAnnounced(s) => ChangeAnnounced(s)'
           /\ values'[s] # values[s] => ChangeAnnounced(s)'
  PROVE  CalledAt(r, c, v)'
<1>1. Reads(c, v, NoTimer) \subseteq Controls
  BY FunctionReads
<1> QED BY <1>1 DEF CalledAt

\* Steps of the driver
LEMMA DriverFollowed ==
  ASSUME TypeOK, Received, FunctionsFollowed, DriverStep
  PROVE  FunctionsFollowed'
<1>1. UNCHANGED <<rules, memo, deps, uninit, mode, stack>>
  BY DEF DriverStep, ControlValue, ControlMeta, ruleState, tables
<1>2. /\ \A i \in DOMAIN queue : i \in DOMAIN queue' /\ queue'[i] = queue[i]
      /\ \A s \in Controls : values'[s] # values[s] => ChangeAnnounced(s)'
  <2>1. ASSUME NEW s \in Controls, NEW v \in Values, ControlValue(s, v)
        PROVE  /\ \A i \in DOMAIN queue : i \in DOMAIN queue' /\ queue'[i] = queue[i]
               /\ \A u \in Controls : values'[u] # values[u] => ChangeAnnounced(u)'
    <3> DEFINE e == EventFor(s, v, TRUE)
    <3>1. e \in Event /\ e.spec = s /\ e.complete /\ e.value = v /\ e.prev = values[s]
      BY EventForType DEF TypeOK, Specs, EventFor
    <3>2. queue' = Append(queue, e) /\ queue \in Seq(Event)
      BY <2>1 DEF ControlValue, TypeOK
    <3> HIDE DEF e
    <3>3. /\ \A i \in DOMAIN queue : i \in DOMAIN queue' /\ queue'[i] = queue[i]
          /\ Len(queue') \in DOMAIN queue' /\ queue'[Len(queue')] = e
      BY <3>1, <3>2
    <3>4. \A u \in Controls : values'[u] # values[u] => u = s /\ v # values[s]
      BY <2>1 DEF ControlValue, TypeOK, Valuations, Specs
    <3>5. v # values[s] => IsChange(e)
      BY <3>1 DEF IsChange, Received
    <3> QED BY <3>1, <3>3, <3>4, <3>5 DEF ChangeAnnounced
  <2>2. ASSUME NEW m \in Metas, NEW v \in Values, ControlMeta(m, v)
        PROVE  /\ \A i \in DOMAIN queue : i \in DOMAIN queue' /\ queue'[i] = queue[i]
               /\ \A u \in Controls : values'[u] = values[u]
    <3> DEFINE s == MetaOf[m]
               b == values[s] # NoValue
               e1 == EventFor(m, v, b)
               e2 == EventFor(s, values[s], b)
    <3>1. m \in Specs /\ s \in Specs /\ values[s] \in Values \cup {NoValue} /\ b \in BOOLEAN
      BY SortAssumption DEF TypeOK, Valuations, Specs
    <3>2. e1 \in Event /\ e2 \in Event
      BY <3>1, EventForType DEF TypeOK
    <3>3. queue' = queue \o <<e1, e2>> /\ queue \in Seq(Event)
      BY <2>2 DEF ControlMeta, TypeOK
    <3> HIDE DEF e1, e2
    <3>4. \A i \in DOMAIN queue : i \in DOMAIN queue' /\ queue'[i] = queue[i]
      BY <3>2, <3>3
    <3>5. \A u \in Controls : values'[u] = values[u]
      BY <2>2, SortAssumption DEF ControlMeta, TypeOK, Valuations, Specs
    <3> QED BY <3>4, <3>5
  <2> QED BY <2>1, <2>2 DEF DriverStep
<1>3. \A s \in Controls : ChangeAnnounced(s) => ChangeAnnounced(s)'
  BY <1>2 DEF ChangeAnnounced
<1> SUFFICES ASSUME NEW r \in rules, NEW c \in Conds, LoneFunction(r, c)
             PROVE  Followed(r, c)'
  BY <1>1 DEF FunctionsFollowed
<1>4. Followed(r, c)
  BY DEF FunctionsFollowed
<1>5. CASE r \in uninit \/ WillCall(r)
  BY <1>1, <1>5 DEF Followed, WillCall
<1>6. ASSUME NEW v \in Valuations, CalledAt(r, c, v) PROVE Followed(r, c)'
  <2>1. CalledAt(r, c, v)'
    BY <1>1, <1>2, <1>3, <1>6, CallStays
  <2> QED BY <2>1 DEF Followed
<1> QED BY <1>4, <1>5, <1>6 DEF Followed

\* RunRules has the functions called that it must not miss.
LEMMA RunRulesFollowed ==
  ASSUME TypeOK, stack = <<>>, FirstLooks, FunctionsFollowed,
         NEW e \in Event \cup {NoEvent}, NEW t \in TimerNames, RunRules(e, t),
         \A s \in Specs : ChangeAnnounced(s) =>
           ChangeAnnounced(s)' \/ (e # NoEvent /\ e.spec = s /\ IsChange(e))
  PROVE  FunctionsFollowed'
<1>1. /\ stack' # <<>> /\ stack'[1].event = e /\ stack'[1].todo = rules
      /\ UNCHANGED <<rules, values, memo, deps>>
  BY RunStarted DEF RunRules
<1> SUFFICES ASSUME NEW r \in rules, NEW c \in Conds, LoneFunction(r, c)
             PROVE  Followed(r, c)'
  BY <1>1 DEF FunctionsFollowed
<1>2. r \in Rules /\ mode'[r] = Selected(r, e, t)
  BY DEF RunRules, TypeOK
<1>3. CASE r \in uninit
  <2>1. \A s \in Specs : r \notin deps[s]
    BY <1>2, <1>3, FunctionCalled DEF FirstLooks, Untouched
  <2>2. e # NoEvent => e.spec \in Specs
    BY DEF Event
  <2>3. mode'[r] = "Independent"
    BY <1>2, <1>3, <2>1, <2>2 DEF Selected
  <2> QED BY <1>1, <2>3 DEF Followed, WillCall
<1>4. ASSUME NEW v \in Valuations, CalledAt(r, c, v), ~ WillCall(r)'
      PROVE  Followed(r, c)'
  <2>1. \A s \in Reads(c, v, NoTimer) : s \in Specs /\ r \in deps[s]
    BY <1>4, FunctionReads DEF CalledAt, Specs
  <2>2. \A s \in Reads(c, v, NoTimer) : ~ (e # NoEvent /\ e.spec = s /\ IsChange(e))
    <3> SUFFICES ASSUME e # NoEvent, r \in deps[e.spec], IsChange(e) PROVE FALSE
      BY <2>1
    <3>1. mode'[r] \in {"Independent", "WithEvent"}
      BY <1>2 DEF Selected, IsChange
    <3> QED BY <1>1, <1>4, <3>1 DEF WillCall
  <2>3. CalledAt(r, c, v)'
    BY <1>1, <1>4, <2>1, <2>2 DEF CalledAt
  <2> QED BY <2>3 DEF Followed
<1>5. ~ WillCall(r) /\ Followed(r, c)
  BY DEF WillCall, FunctionsFollowed
<1> QED BY <1>3, <1>4, <1>5 DEF Followed

\* A function that is called remembers the present values; one that is not had none of
\* its changes in the event.
LEMMA CheckRuleFollowed ==
  ASSUME TypeOK, OneRun, FirstLooks, FunctionsFollowed, NEW r \in Rules, CheckRule(r)
  PROVE  FunctionsFollowed'
<1> DEFINE e == IF mode[r] = "Independent" THEN NoEvent ELSE Top.event
<1>1. /\ stack # <<>> /\ Top = stack[1] /\ r \in stack[1].todo
      /\ stack' # <<>> /\ stack'[1].event = stack[1].event
      /\ stack'[1].todo = stack[1].todo \ {r}
  BY RuleTaken
<1>2. /\ mode' = [mode EXCEPT ![r] = "None"] /\ UNCHANGED <<values, queue, rules, uninit>>
      /\ memo' = [c \in Conds |-> IF c \in CalledConds(r, e) /\ Kind[c] # "level"
                                  THEN Result(c) ELSE memo[c]]
      /\ StoreRuleDeps(r, Noted(r, e))
      /\ Top.event = NoEvent \/ mode[r] # "None"
  BY DEF CheckRule
<1> HIDE DEF e
<1>3. \A s : ChangeAnnounced(s) => ChangeAnnounced(s)'
  BY <1>2 DEF ChangeAnnounced
<1>4. \A s \in Specs : deps[s] \subseteq deps'[s]
  BY <1>2 DEF StoreRuleDeps
<1> SUFFICES ASSUME NEW q \in rules, NEW c \in Conds, LoneFunction(q, c)
             PROVE  Followed(q, c)'
  BY <1>2 DEF FunctionsFollowed
<1>5. q \in Rules /\ Followed(q, c)
  BY DEF FunctionsFollowed, TypeOK
<1>6. ASSUME NEW v \in Valuations, CalledAt(q, c, v), memo'[c] = memo[c]
      PROVE  Followed(q, c)'
  <2>1. CalledAt(q, c, v)'
    BY <1>2, <1>3, <1>4, <1>6, CallStays DEF Specs
  <2> QED BY <2>1 DEF Followed
<1>7. CASE q # r
  <2>1. c \notin CalledConds(r, e)
    BY <1>5, <1>7, NotShared, CheckedAreOwn DEF LoneFunction
  <2>2. memo'[c] = memo[c]
    BY <1>2, <2>1
  <2>3. WillCall(q) => WillCall(q)'
    BY <1>1, <1>2, <1>5, <1>7 DEF WillCall, TypeOK
  <2> QED BY <1>2, <1>5, <1>6, <2>2, <2>3 DEF Followed
<1>8. CASE q = r /\ (e = NoEvent \/ IsChange(e))
  <2>1. c \in CalledConds(r, e) /\ Kind[c] = "func"
    BY <1>5, <1>8, FunctionCalled DEF LoneFunction
  <2>2. values \in Valuations /\ currentTimer \in TimerNames
    BY DEF TypeOK
  <2>3. memo'[c] = Eval(c, values, NoTimer)
    BY <1>2, <2>1, <2>2 DEF Result, LoneFunction, TimerFree
  <2>4. /\ Reads(c, values, NoTimer) \subseteq Controls
        /\ Reads(c, values, NoTimer) \subseteq Noted(r, e)
    BY <2>1, <2>2 DEF Noted, LoneFunction, TimerFree
  <2>5. \A s \in Reads(c, values, NoTimer) : r \in deps'[s]
    BY <1>2, <2>4 DEF StoreRuleDeps, Specs
  <2>6. CalledAt(q, c, values)'
    BY <1>2, <1>8, <2>3, <2>5 DEF CalledAt
  <2> QED BY <1>2, <2>2, <2>6 DEF Followed
<1>9. CASE q = r /\ e # NoEvent /\ ~ IsChange(e)
  <2>1. ~ WillCall(r)
    BY <1>1, <1>9 DEF WillCall, e
  <2>2. r \notin uninit
    <3>1. 1 \in DOMAIN stack
      BY <1>1 DEF TypeOK
    <3> QED BY <1>1, <1>5, <1>9, <3>1, FunctionCalled DEF FirstLooks, Untouched
  <2>3. memo'[c] = memo[c]
    BY <1>2, <1>5, <1>9, FunctionCalled
  <2> QED BY <1>5, <1>6, <1>9, <2>1, <2>2, <2>3 DEF Followed
<1> QED BY <1>7, <1>8, <1>9

LEMMA FunctionsInit == Init => FunctionsFollowed
BY FunctionCalled DEF Init, FunctionsFollowed, Followed

LEMMA FunctionsStep ==
  ASSUME NoNestedRuns, TypeOK, OneRun, Received, FirstLooks, FunctionsFollowed, [Next]_vars
  PROVE  FunctionsFollowed'
<1>1. CASE StartEventRun
  <2> DEFINE e == Head(queue)
  <2>1. e \in Event /\ queue \in Seq(Event) /\ queue # <<>> /\ queue' = Tail(queue)
    BY <1>1 DEF StartEventRun, TypeOK
  <2>2. RunRules(e, NoTimer) /\ stack = <<>>
    BY <1>1 DEF StartEventRun
  <2>3. /\ e = queue[1]
        /\ \A i \in DOMAIN queue : i # 1 => i - 1 \in DOMAIN queue' /\ queue'[i - 1] = queue[i]
    BY <2>1
  <2>4. \A s \in Specs : ChangeAnnounced(s) =>
          ChangeAnnounced(s)' \/ (e # NoEvent /\ e.spec = s /\ IsChange(e))
    BY <2>1, <2>3, SortAssumption DEF ChangeAnnounced
  <2> HIDE DEF e
  <2> QED BY <2>1, <2>2, <2>4, RunRulesFollowed DEF TimerNames
<1>2. ASSUME NEW t \in Timers, StartTimerRun(t) PROVE FunctionsFollowed'
  <2>1. /\ stack = <<>> /\ RunRules(NoEvent, t) /\ t \in TimerNames
        /\ \A s \in Specs : ChangeAnnounced(s) => ChangeAnnounced(s)'
    BY <1>2 DEF StartTimerRun, TimerNames, ChangeAnnounced
  <2> QED BY <2>1, RunRulesFollowed
<1>3. ASSUME UNCHANGED <<values, queue, rules, memo, deps, uninit>>,
             \A q \in rules : WillCall(q) => WillCall(q)'
      PROVE  FunctionsFollowed'
  <2>1. \A q, c, v : CalledAt(q, c, v) => CalledAt(q, c, v)'
    BY <1>3 DEF CalledAt, ChangeAnnounced
  <2> QED BY <1>3, <2>1 DEF FunctionsFollowed, Followed
<1>4. ASSUME NEW r \in Rules, SkipRule(r) PROVE FunctionsFollowed'
  <2>1. /\ stack' # <<>> /\ stack'[1].event = stack[1].event
        /\ stack'[1].todo = stack[1].todo \ {r}
    BY <1>4, RuleTaken
  <2>2. UNCHANGED <<values, queue, rules, memo, deps, uninit, mode>> /\ mode[r] = "None"
    BY <1>4 DEF SkipRule, ruleState, tables
  <2> QED BY <1>3, <2>1, <2>2 DEF WillCall
<1>5. ASSUME NEW r \in Rules, CheckRule(r) PROVE FunctionsFollowed'
  BY <1>5, CheckRuleFollowed
<1>6. CASE ThenReturns
  <2>1. /\ stack' # <<>> /\ stack'[1].event = stack[1].event
        /\ stack'[1].todo = stack[1].todo
    BY <1>6, BodyReturned
  <2>2. UNCHANGED <<values, queue, rules, memo, deps, uninit, mode>>
    BY <1>6 DEF ThenReturns, ruleState, tables
  <2> QED BY <1>3, <2>1, <2>2 DEF WillCall
<1>7. CASE EndRun
  <2>1. stack[1].todo = {} /\ UNCHANGED <<values, queue, rules, memo, deps, uninit>>
    BY <1>7, RunEnded DEF EndRun, ruleState, tables
  <2> QED BY <1>3, <2>1 DEF WillCall
<1>8. CASE DriverStep
  BY <1>8, DriverFollowed
<1>9. ASSUME NEW r \in Rules, NEW b \in BOOLEAN, SetState(r, b) PROVE FunctionsFollowed'
  <2>1. UNCHANGED <<values, queue, rules, memo, deps, uninit, mode, stack>>
    BY <1>9 DEF SetState, tables
  <2> QED BY <1>3, <2>1 DEF WillCall
<1>10. ASSUME NEW r \in Rules, DefineRule(r) PROVE FunctionsFollowed'
  <2>1. /\ rules' \subseteq rules \cup {r} /\ UNCHANGED <<values, queue, stack>>
        /\ uninit' = IF NeedsInit(r) THEN uninit \cup {r} ELSE uninit
        /\ \A s \in Specs : deps[s] \subseteq deps'[s]
        /\ MakeRules({r})
    BY <1>10 DEF DefineRule
  <2> SUFFICES ASSUME NEW q \in rules', NEW c \in Conds, LoneFunction(q, c)
               PROVE  Followed(q, c)'
    BY DEF FunctionsFollowed
  <2>2. CASE q = r
    BY <2>1, <2>2, FunctionCalled DEF Followed
  <2>3. CASE q # r
    <3>1. q \in rules /\ q \in Rules /\ Followed(q, c)
      BY <2>1, <2>3 DEF FunctionsFollowed, TypeOK
    <3>2. memo'[c] = memo[c]
      BY <2>1, <2>3, <3>1, NotShared DEF MakeRules, LoneFunction
    <3>3. mode'[q] = mode[q]
      BY <2>1, <2>3, <3>1 DEF MakeRules
    <3>4. CASE q \in uninit \/ WillCall(q)
      BY <2>1, <3>3, <3>4 DEF Followed, WillCall
    <3>5. ASSUME NEW v \in Valuations, CalledAt(q, c, v) PROVE Followed(q, c)'
      <4>1. CalledAt(q, c, v)'
        BY <2>1, <3>2, <3>5, CallStays DEF ChangeAnnounced, Specs
      <4> QED BY <4>1 DEF Followed
    <3> QED BY <3>1, <3>4, <3>5 DEF Followed
  <2> QED BY <2>2, <2>3
<1>11. ASSUME NEW f \in Files, NEW R \in SUBSET RulesOf(f), ReloadFile(f, R)
       PROVE FunctionsFollowed'
  <2>1. uninit' = {r \in rules' : NeedsInit(r)} /\ rules' \subseteq Rules
    BY <1>11 DEF ReloadFile, Refresh, RulesOf, TypeOK
  <2> QED BY <2>1, FunctionCalled DEF FunctionsFollowed, Followed
<1>12. CASE UNCHANGED vars
  BY <1>3, <1>12 DEF vars, ruleState, tables, WillCall
<1> QED
  BY <1>1, <1>2, <1>4, <1>5, <1>6, <1>7, <1>8, <1>9, <1>10, <1>11, <1>12, NextCases
  DEF Aside

\* When nothing is left to process, no lone function remembers an outdated result.
LEMMA FollowedMissesNothing ==
  ASSUME FunctionsAlone, TypeOK, FunctionsFollowed
  PROVE  NoMissedFunctionChange
<1> SUFFICES ASSUME Idle, NEW r \in rules \ uninit, NEW c \in CondSet(r),
                    Kind[c] = "func", TimerFree(c)
             PROVE  memo[c] = Eval(c, values, NoTimer)
  BY DEF NoMissedFunctionChange
<1>1. ~ WillCall(r) /\ \A s : ~ ChangeAnnounced(s)
  BY DEF Idle, WillCall, ChangeAnnounced
<1>2. r \in Rules /\ c \in Conds /\ LoneFunction(r, c)
  BY CondSetType DEF FunctionsAlone, LoneFunction, TypeOK
<1>3. PICK v \in Valuations : CalledAt(r, c, v)
  BY <1>1, <1>2 DEF FunctionsFollowed, Followed
<1>4. values \in Valuations /\ NoTimer \in TimerNames
  BY DEF TypeOK, TimerNames
<1>5. \A s \in Reads(c, v, NoTimer) : values[s] = v[s]
  BY <1>1, <1>3 DEF CalledAt
<1>6. Eval(c, values, NoTimer) = Eval(c, v, NoTimer)
  BY <1>2, <1>4, <1>5, ReadsDetermineEval
<1> QED BY <1>3, <1>6 DEF CalledAt

\* When every change has been processed, a whenChanged function remembers the value it
\* would give now: whichever controls it has looked at, whatever events of no change,
\* definitions and reloads came in between, no change went unnoticed.
THEOREM NoFunctionChangeMissed ==
  ASSUME NoNestedRuns, ControlsReceived, FunctionsAlone
  PROVE  Spec => []NoMissedFunctionChange
<1>1. Init => OneRun /\ Received
  BY ReceivedInit DEF Init, OneRun
<1>2. TypeOK /\ OneRun /\ [Next]_vars => OneRun'
  BY OneRunStep
<1>3. TypeOK /\ OneRun /\ Received /\ FirstLooks /\ FunctionsFollowed /\ [Next]_vars
      => FunctionsFollowed'
  BY FunctionsStep
<1>4. TypeOK /\ FunctionsFollowed => NoMissedFunctionChange
  BY FollowedMissesNothing
<1> QED
  BY <1>1, <1>2, <1>3, <1>4, InitType, TypeStep, ModesInit, ModesStep, TablesInit,
     TablesStep, ReceivedStep, FirstLooksInit, FirstLooksStep, FunctionsInit, PTL DEF Spec
=============================================================================
