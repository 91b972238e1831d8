------------------------------- MODULE Alarms -------------------------------
(***************************************************************************)
(* One alarm of modules/wb-alarms.js: the two asSoonAs rules, activate and *)
(* deactivate, that loadAlarm defines over one control, its three timers,  *)
(* and the messages it sends through the SMS queue of the same script.     *)
(*                                                                         *)
(* Rules, timer callbacks and command callbacks are run by the sync loop,  *)
(* one after the other.  The driver changes the control at any moment:     *)
(* between the looks at the two rules, which are made in the order the     *)
(* rules were defined, and between the two reads that the condition of a   *)
(* range may make.  From RuleDispatch: the rules are looked at when an     *)
(* event of the control is handled, and also when a named timer of any     *)
(* script fires.  From EngineTimers: a timer that was cleared does not     *)
(* fire.                                                                   *)
(*                                                                         *)
(* A value is known by the comparisons that hold of it; a text compared    *)
(* with a number satisfies none.  The texts of messages, the log control   *)
(* and recipients other than SMS are left out; sending does not throw.     *)
(***************************************************************************)
EXTENDS Integers, SmsQueue

CONSTANTS
  Values,      \* values of the control
  Below, AtLeastMin,  \* values v with v < min, with v >= min
  Above, AtMostMax,   \* values v with v > max, with v <= max
  Expected,    \* values equal to expectedValue
  NoValue,     \* the control is incomplete: both conditions are false
  Configs,     \* alarms that alarms.conf may define
  NoLimit,     \* maxCount is absent
  MaxEvents    \* bound on the events of the control in flight

Kinds == {"activate", "deactivate", "repeat"}   \* activateTimerId, ...
Ids == 1 .. 4   \* timers alive at a time: one of a kind and one that nobody knows
NoId == 0       \* null

\* range: the bounds are minValue and maxValue and not an expectedValue.
Config == [range: BOOLEAN, alarmDelay: BOOLEAN, noAlarmDelay: BOOLEAN,
           interval: BOOLEAN, maxCount: Nat \cup {NoLimit}, command: BOOLEAN]

ASSUME AlarmAssumption ==
  /\ Below \cap AtLeastMin = {} /\ Above \cap AtMostMax = {}
  /\ NoValue \notin Values \cup Below \cup AtLeastMin \cup Above \cup AtMostMax
  /\ NoLimit \notin Int /\ Configs \subseteq Config /\ MaxEvents \in Nat

VARIABLES
  config,          \* the alarm's definition
  value,           \* the control
  events,          \* changes of the control that the rules have not been looked at for
  nextRule,        \* the rule to be looked at next, "none" between RunRules calls
  half,            \* its condition has read the control once and will read it again
  memo,            \* prevCondValue of the two rules
  wasTriggered,
  wasActive,
  remainingCount,
  timers,          \* see Timers
  cell,            \* the alarm's own control
  alerts,          \* history: alarm messages since the activation, when limited
  doubt            \* history: no look yet, or the control changed after the look at
                   \* activate and before the end of the look at deactivate, and neither
                   \* rule has been due to fire since

ruleVars == <<nextRule, half, memo>>
alarmVars == <<wasTriggered, wasActive, remainingCount, timers, cell, alerts>>
vars == <<config, value, events, ruleVars, alarmVars, smsVars, doubt>>

-----------------------------------------------------------------------------
(* Timers: setTimeout, setInterval and their clears *)

\* live: what each timer of the script will call; id: the variables
\* activateTimerId, deactivateTimerId and intervalId
Timers == [live: [Ids -> Kinds \cup {"none"}], id: [Kinds -> Ids \cup {NoId}]]

NoTimers == [live |-> [i \in Ids |-> "none"], id |-> [k \in Kinds |-> NoId]]

\* An id that no timer has and no variable remembers
NewId(t) == CHOOSE i \in Ids : t.live[i] = "none" /\ \A k \in Kinds : t.id[k] # i

Started(t, k) ==
  LET i == NewId(t)
  IN [live |-> [t.live EXCEPT ![i] = k], id |-> [t.id EXCEPT ![k] = i]]

\* Mutant: the variable is reset and the timer goes on.
ClearedInName(t, k) == [t EXCEPT !.id[k] = NoId]

\* clearTimeout or clearInterval of the timer that a variable holds, if any
Cleared(t, k) ==
  [live |-> [i \in Ids |-> IF i = t.id[k] THEN "none" ELSE t.live[i]],
   id   |-> [t.id EXCEPT ![k] = NoId]]

\* Timer i of kind k has fired for the only time and resets its variable.
Fired(t, i, k) == [live |-> [t.live EXCEPT ![i] = "none"], id |-> [t.id EXCEPT ![k] = NoId]]

-----------------------------------------------------------------------------
(* What the alarm does; t is the state of the timers otherwise *)

Notify(b) == IF b THEN SendSMS(config.command) ELSE UNCHANGED smsVars

\* Mutant: one message too many.
MayAlertAtZero(n) == n = NoLimit \/ n >= 0

MayAlert(n) == n = NoLimit \/ n > 0

OneLess(n) == IF n = NoLimit THEN NoLimit ELSE n - 1

Exhausted(n) == n # NoLimit /\ n <= 0

\* notifyAboutActiveAlarm when remainingCount is n and there were k messages
NotifyAboutActiveAlarm(n, k, t) ==
  /\ Notify(MayAlert(n))
  /\ remainingCount' = OneLess(n)
  /\ alerts' = IF n # NoLimit /\ MayAlert(n) THEN k + 1 ELSE k
  /\ timers' = IF Exhausted(OneLess(n)) THEN Cleared(t, "repeat") ELSE t

\* activateAlarm; the interval is set even when no message may follow.
ActivateAlarm(t) ==
  LET n == config.maxCount
      u == IF Exhausted(OneLess(n)) THEN Cleared(t, "repeat") ELSE t
  IN /\ cell' = TRUE /\ wasActive' = TRUE
     /\ Notify(MayAlert(n))
     /\ remainingCount' = OneLess(n)
     /\ alerts' = IF n # NoLimit /\ MayAlert(n) THEN 1 ELSE 0
     /\ timers' = IF config.interval THEN Started(u, "repeat") ELSE u

\* deactivateAlarm
DeactivateAlarm(t) ==
  /\ cell' = FALSE /\ wasActive' = FALSE
  /\ timers' = Cleared(t, "repeat")
  /\ Notify(TRUE)
  /\ UNCHANGED <<remainingCount, alerts>>

-----------------------------------------------------------------------------
(* The rules *)

\* RunRules for an event of the control
StartEventRun ==
  /\ nextRule = "none" /\ events > 0
  /\ nextRule' = "activate" /\ events' = events - 1
  /\ UNCHANGED <<config, value, half, memo, alarmVars, smsVars, doubt>>

\* RunRules for a named timer of any script, or the first RunRules after the load
StartOtherRun ==
  /\ nextRule = "none" /\ nextRule' = "activate"
  /\ UNCHANGED <<config, value, events, half, memo, alarmVars, smsVars, doubt>>

\* The comparisons in the conditions of the two rules
TestMin(r) == value \in (IF r = "activate" THEN Below ELSE AtLeastMin)
TestMax(r) == value \in (IF r = "activate" THEN Above ELSE AtMostMax)
TestExpected(r) == value # NoValue /\ (value \in Expected <=> r = "deactivate")

\* The control is out of the alarm's bounds, or within them.
Holds(r) ==
  IF ~ config.range THEN TestExpected(r)
  ELSE IF r = "activate" THEN TestMin(r) \/ TestMax(r) ELSE TestMin(r) /\ TestMax(r)

\* || and && go on to max unless the comparison with min decides.
MaxMatters(r) == config.range /\ value # NoValue /\ (TestMin(r) <=> r = "deactivate")

\* The condition of rule r compares the control with min, and will read it again.
FirstRead(r) ==
  /\ nextRule = r /\ ~ half /\ MaxMatters(r)
  /\ half' = TRUE
  /\ UNCHANGED <<config, value, events, nextRule, memo, alarmVars, smsVars, doubt>>

\* What the condition of rule r comes to with its last read.
Verdict(r) == IF half THEN TestMax(r) ELSE Holds(r)

\* Mutant: the value of the condition is kept when the rule fires.
LookAndKeepFired(r, b) ==
  /\ nextRule = r /\ (half \/ ~ MaxMatters(r)) /\ b = (Verdict(r) /\ ~ memo[r])
  /\ memo' = [memo EXCEPT ![r] = @ \/ b]
  /\ nextRule' = (IF r = "activate" THEN "deactivate" ELSE "none") /\ half' = FALSE
  /\ doubt' = (doubt /\ (r = "activate" => \E q \in DOMAIN memo : Holds(q) /\ memo[q]))
  /\ UNCHANGED <<config, value, events>>

\* Rule.Check of rule r from the last read of its condition; b: the rule fires.
Look(r, b) ==
  /\ nextRule = r /\ (half \/ ~ MaxMatters(r)) /\ b = (Verdict(r) /\ ~ memo[r])
  /\ memo' = [memo EXCEPT ![r] = Verdict(r)]
  /\ nextRule' = (IF r = "activate" THEN "deactivate" ELSE "none") /\ half' = FALSE
  /\ doubt' = (doubt /\ (r = "activate" => \E q \in DOMAIN memo : Holds(q) /\ memo[q]))
  /\ UNCHANGED <<config, value, events>>

LookOnly(r) == Look(r, FALSE) /\ UNCHANGED <<alarmVars, smsVars>>

AlreadyTriggered ==
  /\ Look("activate", TRUE) /\ wasTriggered
  /\ UNCHANGED <<alarmVars, smsVars>>

\* Out of bounds again before the end of noAlarmDelayMs
StayActive ==
  /\ Look("activate", TRUE) /\ ~ wasTriggered /\ wasActive
  /\ wasTriggered' = TRUE
  /\ timers' = Cleared(timers, "deactivate")
  /\ UNCHANGED <<wasActive, remainingCount, cell, alerts, smsVars>>

ActivateLater ==
  /\ Look("activate", TRUE) /\ ~ wasTriggered /\ ~ wasActive /\ config.alarmDelay
  /\ wasTriggered' = TRUE
  /\ timers' = Cleared(Started(timers, "activate"), "deactivate")
  /\ UNCHANGED <<wasActive, remainingCount, cell, alerts, smsVars>>

ActivateNow ==
  /\ Look("activate", TRUE) /\ ~ wasTriggered /\ ~ wasActive /\ ~ config.alarmDelay
  /\ wasTriggered' = TRUE
  /\ ActivateAlarm(Cleared(timers, "deactivate"))

\* The first look, and any time the alarm was not triggered
ResetCell ==
  /\ Look("deactivate", TRUE) /\ ~ wasTriggered
  /\ cell' = FALSE
  /\ UNCHANGED <<wasTriggered, wasActive, remainingCount, timers, alerts, smsVars>>

\* Within bounds again before the end of alarmDelayMs
StayInactive ==
  /\ Look("deactivate", TRUE) /\ wasTriggered /\ ~ wasActive
  /\ wasTriggered' = FALSE
  /\ timers' = Cleared(timers, "activate")
  /\ UNCHANGED <<wasActive, remainingCount, cell, alerts, smsVars>>

DeactivateLater ==
  /\ Look("deactivate", TRUE) /\ wasTriggered /\ wasActive /\ config.noAlarmDelay
  /\ wasTriggered' = FALSE
  /\ timers' = Cleared(Started(timers, "deactivate"), "activate")
  /\ UNCHANGED <<wasActive, remainingCount, cell, alerts, smsVars>>

DeactivateNow ==
  /\ Look("deactivate", TRUE) /\ wasTriggered /\ wasActive /\ ~ config.noAlarmDelay
  /\ wasTriggered' = FALSE
  /\ DeactivateAlarm(Cleared(timers, "activate"))

-----------------------------------------------------------------------------
(* Callbacks, each a thunk of its own *)

ActivateTimeout(i) ==
  /\ nextRule = "none" /\ timers.live[i] = "activate"
  /\ ActivateAlarm(Fired(timers, i, "activate"))
  /\ UNCHANGED <<config, value, events, ruleVars, wasTriggered, doubt>>

DeactivateTimeout(i) ==
  /\ nextRule = "none" /\ timers.live[i] = "deactivate"
  /\ DeactivateAlarm(Fired(timers, i, "deactivate"))
  /\ UNCHANGED <<config, value, events, ruleVars, wasTriggered, doubt>>

Repeat(i) ==
  /\ nextRule = "none" /\ timers.live[i] = "repeat"
  /\ NotifyAboutActiveAlarm(remainingCount, alerts, timers)
  /\ UNCHANGED <<config, value, events, ruleVars, wasTriggered, wasActive, cell, doubt>>

SmsCallback ==
  /\ nextRule = "none" /\ SmsStep
  /\ UNCHANGED <<config, value, events, ruleVars, alarmVars, doubt>>

-----------------------------------------------------------------------------

\* The driver receives a new or a repeated value.
ControlChange(v) ==
  /\ events < MaxEvents
  /\ value' = v /\ events' = events + 1
  /\ doubt' = (doubt \/ (nextRule = "deactivate" /\ v # value))
  /\ UNCHANGED <<config, ruleVars, alarmVars, smsVars>>

\* loadAlarm by a script that has just been started
Load(c) ==
  /\ config' = c
  /\ nextRule' = "none" /\ half' = FALSE
  /\ memo' = [r \in {"activate", "deactivate"} |-> FALSE]
  /\ wasTriggered' = FALSE /\ wasActive' = FALSE /\ remainingCount' = NoLimit
  /\ timers' = NoTimers /\ alerts' = 0 /\ doubt' = TRUE
  /\ smsQueue' = <<>> /\ smsBusy' = FALSE /\ message' = [m \in Sms |-> "free"]

\* The script is loaded again: its timers are stopped, the callbacks of its commands
\* are ignored and its virtual device is given the stored value of the alarm's control.
Reload(c) ==
  /\ nextRule = "none" /\ Load(c)
  /\ UNCHANGED <<value, events, cell>>

Init ==
  /\ config \in Configs
  /\ value = NoValue /\ events = 0
  /\ nextRule = "none" /\ half = FALSE
  /\ memo = [r \in {"activate", "deactivate"} |-> FALSE]
  /\ wasTriggered = FALSE /\ wasActive = FALSE /\ remainingCount = NoLimit
  /\ timers = NoTimers /\ alerts = 0 /\ doubt = TRUE
  /\ cell \in BOOLEAN
  /\ SmsInit

RuleStep ==
  \/ \E r \in {"activate", "deactivate"} : FirstRead(r) \/ LookOnly(r)
  \/ AlreadyTriggered \/ StayActive \/ ActivateLater \/ ActivateNow
  \/ ResetCell \/ StayInactive \/ DeactivateLater \/ DeactivateNow

Next ==
  \/ StartEventRun \/ StartOtherRun \/ RuleStep
  \/ \E i \in Ids : ActivateTimeout(i) \/ DeactivateTimeout(i) \/ Repeat(i)
  \/ SmsCallback
  \/ \E v \in Values : ControlChange(v)
  \/ \E c \in Configs : Reload(c)

Spec == Init /\ [][Next]_vars

\* A pass over the rules comes to its end, and the commands that run end and are heard
\* of: their callbacks wait in line for the sync loop.
FairSpec ==
  /\ Spec /\ WF_vars(RuleStep)
  /\ SF_vars(SmsCallback /\ (\E m \in Sms : ModemChecked(m)))
  /\ SF_vars(SmsCallback /\ (\E m \in Sms : DoneCallback(m)))

-----------------------------------------------------------------------------
(* Properties *)

TypeOK ==
  /\ config \in Configs /\ value \in Values \cup {NoValue} /\ events \in 0 .. MaxEvents
  /\ nextRule \in {"none", "activate", "deactivate"}
  /\ half \in BOOLEAN /\ memo \in [{"activate", "deactivate"} -> BOOLEAN]
  /\ wasTriggered \in BOOLEAN /\ wasActive \in BOOLEAN
  /\ remainingCount \in Nat \cup {-2, -1, NoLimit} /\ timers \in Timers
  /\ cell \in BOOLEAN /\ alerts \in Nat /\ doubt \in BOOLEAN
  /\ SmsTypeOK

Running(k) == \E i \in Ids : timers.live[i] = k

\* The alarm's timers are the ones its state calls for, and it knows them: a delay runs
\* exactly while the alarm is about to change, messages are repeated only while it is
\* active and are repeated while there are any left.
TimersMatchState ==
  /\ \A i \in Ids : timers.live[i] # "none" => timers.id[timers.live[i]] = i
  /\ Running("activate") <=> wasTriggered /\ ~ wasActive
  /\ Running("deactivate") <=> ~ wasTriggered /\ wasActive
  /\ Running("repeat") => wasActive
  /\ wasActive /\ config.interval /\ MayAlert(remainingCount) => Running("repeat")

\* No more than maxCount messages are sent in one period of activity.
MessagesPerPeriod == config.maxCount # NoLimit => alerts <= config.maxCount

\* The rules have been looked at for the last change of the control.
Settled == nextRule = "none" /\ events = 0

\* The alarm is triggered when the control is out of its bounds and not when it is back,
\* whatever the delays: the two rules complement each other as long as the control does not
\* change between the look at activate and the last read of the look at deactivate.
AlarmFollowsControl ==
  Settled /\ ~ doubt =>
    /\ Holds("activate") => wasTriggered
    /\ Holds("deactivate") => ~ wasTriggered

\* When the value is back within its bounds, the alarm is deactivated (the comments of
\* the alarm definitions in the README).
AlarmEnds == Settled /\ Holds("deactivate") /\ memo["deactivate"] => ~ wasTriggered
=============================================================================
