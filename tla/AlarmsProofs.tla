---------------------------- MODULE AlarmsProofs ----------------------------
(***************************************************************************)
(* Proofs about Alarms and SmsQueue, for every control, every alarm and    *)
(* every set of messages.                                                  *)
(***************************************************************************)
EXTENDS Alarms, TLAPS

-----------------------------------------------------------------------------
(* The inductive invariant *)

\* Is a timer of kind k alive in t?
Runs(t, k) == \E i \in Ids : t.live[i] = k

\* Every timer alive is known to the variable of its kind, and no two variables hold
\* the same id.
Known(t) ==
  /\ t \in Timers
  /\ \A i \in Ids : t.live[i] # "none" => t.id[t.live[i]] = i
  /\ \A j, k \in Kinds : t.id[j] = t.id[k] /\ t.id[j] # NoId => j = k

\* The timers for an alarm that is triggered (w), active (a), with n messages left
Match(t, w, a, n, c) ==
  /\ Runs(t, "activate") <=> w /\ ~ a
  /\ Runs(t, "deactivate") <=> ~ w /\ a
  /\ Runs(t, "repeat") => a /\ (n = NoLimit \/ n >= -1)
  /\ a /\ c.interval /\ MayAlert(n) => Runs(t, "repeat")

Limit == remainingCount \in {n \in Int : n >= -2} \cup {NoLimit}

\* What was sent and what is left make up no more than the limit.
Counted ==
  /\ alerts \in Nat
  /\ config.maxCount # NoLimit =>
       /\ alerts <= config.maxCount
       /\ remainingCount # NoLimit => alerts + remainingCount <= config.maxCount

\* What waits is in the queue once.
Waiting == \A i \in DOMAIN smsQueue : message[smsQueue[i]] = "queued"

SmsInv == SmsTypeOK /\ QueueKeepsMoving /\ Waiting

AlarmInv ==
  /\ wasTriggered \in BOOLEAN /\ wasActive \in BOOLEAN /\ cell \in BOOLEAN
  /\ Limit /\ Counted
  /\ Known(timers) /\ Match(timers, wasTriggered, wasActive, remainingCount, config)

RestType ==
  /\ config \in Configs /\ value \in Values \cup {NoValue} /\ events \in 0 .. MaxEvents
  /\ nextRule \in {"none", "activate", "deactivate"}
  /\ memo \in [{"activate", "deactivate"} -> BOOLEAN] /\ doubt \in BOOLEAN
  /\ half \in BOOLEAN /\ (half => config.range /\ nextRule # "none")

IInv == RestType /\ AlarmInv /\ SmsInv

\* A condition that has read half of its bounds has read what is still there, when no
\* event is left to come.
HalfKnown == nextRule = "activate" /\ half /\ events = 0 => ~ TestMin("activate")

\* What the looks at the two rules leave behind when the control did not change from the
\* end of the first to the end of the second.  Once activate has been looked at, what it
\* remembers is true of the control, and where no event is left to come the rules remember
\* the present value.
LooksAgree ==
  /\ nextRule = "deactivate" =>
       /\ memo["activate"] => Holds("activate")
       /\ events = 0 => memo["activate"] = Holds("activate")
       /\ half => TestMin("deactivate")
  /\ nextRule = "none" /\ events = 0 => \A r \in DOMAIN memo : memo[r] = Holds(r)
  /\ memo["activate"] => wasTriggered
  /\ memo["deactivate"] /\ (nextRule = "deactivate" => Holds("deactivate")) => ~ wasTriggered

RulesAgree == HalfKnown /\ (~ doubt => LooksAgree)

-----------------------------------------------------------------------------
(* The timers *)

\* The fields of the timers
LEMMA TimersFields ==
  ASSUME NEW t \in Timers
  PROVE  /\ t.live \in [Ids -> Kinds \cup {"none"}] /\ t.id \in [Kinds -> Ids \cup {NoId}]
         /\ \A i \in Ids : t.live[i] \in Kinds \cup {"none"}
         /\ \A k \in Kinds : t.id[k] \in Ids \cup {NoId}
BY DEF Timers

\* Three variables and four ids: one is free.
LEMMA NewIdFree ==
  ASSUME NEW t, Known(t)
  PROVE  /\ NewId(t) \in Ids /\ t.live[NewId(t)] = "none"
         /\ \A k \in Kinds : t.id[k] # NewId(t)
<1>1. \E i \in Ids : i # t.id["activate"] /\ i # t.id["deactivate"] /\ i # t.id["repeat"]
  BY DEF Ids
<1>2. PICK i \in Ids : i # t.id["activate"] /\ i # t.id["deactivate"] /\ i # t.id["repeat"]
  BY <1>1
<1>3. \A k \in Kinds : t.id[k] # i
  BY <1>2 DEF Kinds
<1>4. t.live[i] = "none"
  BY <1>3, TimersFields DEF Known
<1> QED BY <1>3, <1>4 DEF NewId

\* Clearing a timer leaves those of the other kinds.
LEMMA ClearedFacts ==
  ASSUME NEW t, Known(t), NEW k \in Kinds
  PROVE  /\ Known(Cleared(t, k)) /\ ~ Runs(Cleared(t, k), k)
         /\ \A j \in Kinds \ {k} : Runs(Cleared(t, k), j) <=> Runs(t, j)
<1> DEFINE u == Cleared(t, k)
<1>1. /\ t.live \in [Ids -> Kinds \cup {"none"}] /\ t.id \in [Kinds -> Ids \cup {NoId}]
      /\ NoId \notin Ids /\ "none" \notin Kinds
  BY TimersFields DEF Known, NoId, Ids, Kinds
<1>2. /\ u.live = [i \in Ids |-> IF i = t.id[k] THEN "none" ELSE t.live[i]]
      /\ u.id = [t.id EXCEPT ![k] = NoId]
  BY DEF Cleared
<1>3. u \in Timers
  BY <1>1 DEF Cleared, Timers
<1>4. \A i \in Ids : u.live[i] = IF i = t.id[k] THEN "none" ELSE t.live[i]
  BY <1>2
<1>5. u.id[k] = NoId /\ \A j \in Kinds \ {k} : u.id[j] = t.id[j]
  BY <1>1, <1>2
<1> HIDE DEF u
<1>6. ASSUME NEW i \in Ids, u.live[i] # "none"
      PROVE  u.live[i] # k /\ u.live[i] \in Kinds /\ u.id[u.live[i]] = i
  BY <1>1, <1>4, <1>5, <1>6 DEF Known
<1>7. \A i, j \in Kinds : u.id[i] = u.id[j] /\ u.id[i] # NoId => i = j
  BY <1>5 DEF Known
<1>8. Known(u)
  BY <1>3, <1>6, <1>7 DEF Known
<1>9. ~ Runs(u, k)
  BY <1>1, <1>6 DEF Runs
<1>10. ASSUME NEW j \in Kinds \ {k}, NEW i \in Ids
       PROVE  u.live[i] = j <=> t.live[i] = j
  <2>1. CASE i = t.id[k]
    BY <1>1, <1>4, <2>1 DEF Known
  <2>2. CASE i # t.id[k]
    BY <1>4, <2>2
  <2> QED BY <2>1, <2>2
<1> QED BY <1>8, <1>9, <1>10 DEF Runs, u

\* Starting a timer of a kind that does not run leaves the others.
LEMMA StartedFacts ==
  ASSUME NEW t, Known(t), NEW k \in Kinds, ~ Runs(t, k)
  PROVE  /\ Known(Started(t, k)) /\ Runs(Started(t, k), k)
         /\ \A j \in Kinds \ {k} : Runs(Started(t, k), j) <=> Runs(t, j)
<1> DEFINE u == Started(t, k)
           n == NewId(t)
<1>1. /\ t.live \in [Ids -> Kinds \cup {"none"}] /\ t.id \in [Kinds -> Ids \cup {NoId}]
      /\ NoId \notin Ids /\ "none" \notin Kinds
  BY TimersFields DEF Known, NoId, Ids, Kinds
<1>2. n \in Ids /\ t.live[n] = "none" /\ \A j \in Kinds : t.id[j] # n
  BY NewIdFree
<1> HIDE DEF n
<1>3. u.live = [t.live EXCEPT ![n] = k] /\ u.id = [t.id EXCEPT ![k] = n]
  BY DEF Started, n
<1>4. u \in Timers
  BY <1>1, <1>2 DEF Started, Timers, n
<1> HIDE DEF u
<1>5. u.live[n] = k /\ \A i \in Ids \ {n} : u.live[i] = t.live[i]
  BY <1>1, <1>2, <1>3
<1>6. u.id[k] = n /\ \A j \in Kinds \ {k} : u.id[j] = t.id[j]
  BY <1>1, <1>3
<1>7. ASSUME NEW i \in Ids, u.live[i] # "none"
      PROVE  u.id[u.live[i]] = i
  <2>1. CASE i = n
    BY <1>5, <1>6, <2>1
  <2>2. CASE i # n
    <3>1. t.live[i] # k /\ t.live[i] \in Kinds /\ u.live[i] = t.live[i]
      BY <1>1, <1>5, <1>7, <2>2 DEF Runs
    <3> QED BY <1>6, <1>7, <3>1 DEF Known
  <2> QED BY <2>1, <2>2
<1>8. \A i, j \in Kinds : u.id[i] = u.id[j] /\ u.id[i] # NoId => i = j
  BY <1>2, <1>6 DEF Known
<1>9. Known(u) /\ Runs(u, k)
  BY <1>2, <1>4, <1>5, <1>7, <1>8 DEF Known, Runs
<1>10. ASSUME NEW j \in Kinds \ {k}, NEW i \in Ids
       PROVE  u.live[i] = j <=> t.live[i] = j
  <2>1. CASE i = n
    BY <1>1, <1>2, <1>5, <2>1
  <2>2. CASE i # n
    BY <1>5, <2>2
  <2> QED BY <2>1, <2>2
<1> QED BY <1>9, <1>10 DEF Runs, u

\* The timer that has fired was the only one of its kind.
LEMMA FiredFacts ==
  ASSUME NEW t, Known(t), NEW k \in Kinds, NEW i \in Ids, t.live[i] = k
  PROVE  /\ Known(Fired(t, i, k)) /\ ~ Runs(Fired(t, i, k), k)
         /\ \A j \in Kinds \ {k} : Runs(Fired(t, i, k), j) <=> Runs(t, j)
<1>1. t.id[k] = i /\ t.live \in [Ids -> Kinds \cup {"none"}]
  BY TimersFields DEF Known, Kinds
<1>2. [t.live EXCEPT ![i] = "none"]
      = [j \in Ids |-> IF j = t.id[k] THEN "none" ELSE t.live[j]]
  BY <1>1
<1>3. Fired(t, i, k) = Cleared(t, k)
  BY <1>2 DEF Fired, Cleared
<1> QED BY <1>3, ClearedFacts

-----------------------------------------------------------------------------
(* The queue of messages *)

Places == {"free", "checking", "queued", "sending", "lost"}

\* A message that is nowhere or being checked goes to its command or to the queue.
LEMMA EnqueueFacts ==
  ASSUME SmsInv, NEW m \in Sms, message[m] \in {"free", "checking"}, SendOrEnqueue(m)
  PROVE  SmsInv'
<1>1. /\ smsQueue \in Seq(Sms) /\ message \in [Sms -> Places] /\ smsBusy \in BOOLEAN
      /\ \A i, j \in DOMAIN smsQueue : smsQueue[i] = smsQueue[j] => i = j
      /\ \A i \in DOMAIN smsQueue : message[smsQueue[i]] = "queued"
  BY DEF SmsInv, SmsTypeOK, IsInjective, Waiting, Places
<1>2. \A i \in DOMAIN smsQueue : smsQueue[i] \in Sms /\ smsQueue[i] # m
  BY <1>1
<1>3. CASE smsBusy
  <2>1. smsQueue' = Append(smsQueue, m) /\ smsBusy' = smsBusy
    BY <1>3 DEF SendOrEnqueue
  <2>2. message' = [message EXCEPT ![m] = "queued"]
    BY <1>3 DEF SendOrEnqueue
  <2>3. /\ smsQueue' \in Seq(Sms) /\ DOMAIN smsQueue' = 1 .. Len(smsQueue) + 1
        /\ smsQueue'[Len(smsQueue) + 1] = m
        /\ \A i \in 1 .. Len(smsQueue) : smsQueue'[i] = smsQueue[i]
        /\ DOMAIN smsQueue = 1 .. Len(smsQueue) /\ Len(smsQueue) \in Nat
    BY <1>1, <2>1
  <2>4. message' \in [Sms -> Places] /\ message'[m] = "queued"
    BY <1>1, <2>2 DEF Places
  <2>5. \A n \in Sms \ {m} : message'[n] = message[n]
    BY <1>1, <2>2
  <2>6. \A i, j \in DOMAIN smsQueue' : smsQueue'[i] = smsQueue'[j] => i = j
    BY <1>1, <1>2, <2>3
  <2>7. \A i \in DOMAIN smsQueue' : message'[smsQueue'[i]] = "queued"
    BY <1>1, <1>2, <2>3, <2>4, <2>5
  <2>8. PICK n \in Sms : message[n] \in {"sending", "lost"}
    BY <1>3 DEF SmsInv, QueueKeepsMoving
  <2>9. message'[n] \in {"sending", "lost"}
    BY <2>5, <2>8
  <2> QED BY <1>1, <2>1, <2>3, <2>4, <2>6, <2>7, <2>9
          DEF SmsInv, SmsTypeOK, IsInjective, Waiting, QueueKeepsMoving, Places
<1>4. CASE ~ smsBusy
  <2>1. smsQueue' = smsQueue /\ smsBusy' = TRUE
    BY <1>4 DEF SendOrEnqueue
  <2>2. message' = [message EXCEPT ![m] = "sending"]
    BY <1>4 DEF SendOrEnqueue
  <2>3. /\ message' \in [Sms -> Places] /\ message'[m] = "sending"
        /\ \A n \in Sms \ {m} : message'[n] = message[n]
    BY <1>1, <2>2 DEF Places
  <2> QED BY <1>1, <1>2, <2>1, <2>3
          DEF SmsInv, SmsTypeOK, IsInjective, Waiting, QueueKeepsMoving, Places
<1> QED BY <1>3, <1>4

\* sendSMS takes a message that is free.
LEMMA SendFacts ==
  ASSUME SmsInv, NEW b, SendSMS(b)
  PROVE  SmsInv'
<1> DEFINE m == CHOOSE n \in Free : TRUE
<1>1. CASE Free = {}
  BY <1>1 DEF SendSMS, smsVars, SmsInv, SmsTypeOK, Waiting, QueueKeepsMoving
<1>2. CASE Free # {}
  <2>1. m \in Sms /\ message[m] = "free"
    BY <1>2 DEF Free
  <2>2. CASE b
    <3>1. SendOrEnqueue(m)
      BY <1>2, <2>2 DEF SendSMS
    <3> HIDE DEF m
    <3> QED BY <2>1, <3>1, EnqueueFacts
  <2>3. CASE ~ b
    <3>1. message' = [message EXCEPT ![m] = "checking"]
          /\ smsQueue' = smsQueue /\ smsBusy' = smsBusy
      BY <1>2, <2>3 DEF SendSMS
    <3> HIDE DEF m
    <3>2. message \in [Sms -> Places] /\ smsQueue \in Seq(Sms)
      BY DEF SmsInv, SmsTypeOK, Places
    <3>3. message' \in [Sms -> Places] /\ \A n \in Sms \ {m} : message'[n] = message[n]
      BY <3>1, <3>2 DEF Places
    <3>4. \A i \in DOMAIN smsQueue : smsQueue[i] \in Sms \ {m}
      BY <2>1, <3>2 DEF SmsInv, Waiting
    <3> QED BY <2>1, <3>1, <3>3, <3>4
            DEF SmsInv, SmsTypeOK, Waiting, QueueKeepsMoving, Places
  <2> QED BY <2>2, <2>3
<1> QED BY <1>1, <1>2

\* A callback of a command moves the queue, or finds nobody waiting.
LEMMA SmsStepFacts ==
  ASSUME SmsInv, SmsStep
  PROVE  SmsInv'
<1>1. PICK m \in Sms : ModemChecked(m) \/ DoneCallback(m) \/ SpawnFails(m)
  BY DEF SmsStep
<1>2. /\ smsQueue \in Seq(Sms) /\ message \in [Sms -> Places] /\ smsBusy \in BOOLEAN
      /\ \A i, j \in DOMAIN smsQueue : smsQueue[i] = smsQueue[j] => i = j
      /\ \A i \in DOMAIN smsQueue : message[smsQueue[i]] = "queued"
  BY DEF SmsInv, SmsTypeOK, IsInjective, Waiting, Places
<1>3. CASE ModemChecked(m)
  BY <1>3, EnqueueFacts DEF ModemChecked
<1>4. CASE DoneCallback(m)
  <2> DEFINE ts == [message EXCEPT ![m] = "free"]
  <2>1. /\ message[m] = "sending" /\ smsBusy' = FALSE
        /\ AdvanceSmsQueue(ts)
    BY <1>4 DEF DoneCallback
  <2>2. /\ ts \in [Sms -> Places] /\ ts[m] = "free"
        /\ \A n \in Sms \ {m} : ts[n] = message[n]
    BY <1>2 DEF Places
  <2>3. \A i \in DOMAIN smsQueue : smsQueue[i] \in Sms /\ smsQueue[i] # m
    BY <1>2, <2>1
  <2> HIDE DEF ts
  <2>4. CASE smsQueue = <<>>
    <3>1. message' = ts /\ smsQueue' = smsQueue
      BY <2>1, <2>4 DEF AdvanceSmsQueue
    <3> QED BY <1>2, <2>1, <2>2, <2>3, <2>4, <3>1
            DEF SmsInv, SmsTypeOK, IsInjective, Waiting, QueueKeepsMoving, Places
  <2>5. CASE smsQueue # <<>>
    <3>1. message' = [ts EXCEPT ![Head(smsQueue)] = "sending"] /\ smsQueue' = Tail(smsQueue)
      BY <2>1, <2>5 DEF AdvanceSmsQueue
    <3>2. /\ smsQueue' \in Seq(Sms) /\ DOMAIN smsQueue' = 1 .. Len(smsQueue) - 1
          /\ \A i \in 1 .. Len(smsQueue) - 1 : smsQueue'[i] = smsQueue[i + 1]
          /\ DOMAIN smsQueue = 1 .. Len(smsQueue) /\ Len(smsQueue) \in Nat
          /\ Head(smsQueue) = smsQueue[1] /\ 1 \in DOMAIN smsQueue
      BY <1>2, <2>5, <3>1
    <3>3. Head(smsQueue) \in Sms
      BY <2>3, <3>2
    <3>4. /\ message' \in [Sms -> Places] /\ message'[Head(smsQueue)] = "sending"
          /\ \A n \in Sms \ {Head(smsQueue)} : message'[n] = ts[n]
      BY <2>2, <3>1, <3>3 DEF Places
    <3>5. \A i \in DOMAIN smsQueue' : i + 1 \in DOMAIN smsQueue /\ i + 1 # 1
      BY <3>2
    <3>6. \A i, j \in DOMAIN smsQueue' : smsQueue'[i] = smsQueue'[j] => i = j
      BY <1>2, <3>2, <3>5
    <3>7. ASSUME NEW i \in DOMAIN smsQueue'
          PROVE  message'[smsQueue'[i]] = "queued"
      <4>1. smsQueue'[i] = smsQueue[i + 1] /\ smsQueue[i + 1] # smsQueue[1]
        BY <1>2, <3>2, <3>5
      <4> QED BY <1>2, <2>2, <2>3, <3>2, <3>4, <3>5, <4>1
    <3> QED BY <2>1, <3>2, <3>3, <3>4, <3>6, <3>7
            DEF SmsInv, SmsTypeOK, IsInjective, Waiting, QueueKeepsMoving, Places
  <2> QED BY <2>4, <2>5
<1>5. CASE SpawnFails(m)
  <2>1. /\ message[m] \in {"checking", "sending"}
        /\ smsQueue' = smsQueue /\ smsBusy' = smsBusy
    BY <1>5 DEF SpawnFails
  <2>2. message' = [message EXCEPT ![m] = IF @ = "checking" THEN "free" ELSE "lost"]
    BY <1>5 DEF SpawnFails
  <2>3. /\ message' \in [Sms -> Places]
        /\ message'[m] = IF message[m] = "checking" THEN "free" ELSE "lost"
        /\ \A n \in Sms \ {m} : message'[n] = message[n]
    BY <1>2, <2>2 DEF Places
  <2>4. \A i \in DOMAIN smsQueue : smsQueue[i] \in Sms \ {m}
    BY <1>2, <2>1
  <2> QED BY <1>2, <2>1, <2>3, <2>4
          DEF SmsInv, SmsTypeOK, IsInjective, Waiting, QueueKeepsMoving, Places
<1> QED BY <1>1, <1>3, <1>4, <1>5

-----------------------------------------------------------------------------
(* What the alarm does *)

\* The alarm's definition
LEMMA ConfigFields ==
  ASSUME RestType
  PROVE  /\ config.alarmDelay \in BOOLEAN /\ config.noAlarmDelay \in BOOLEAN
         /\ config.interval \in BOOLEAN /\ config.command \in BOOLEAN
         /\ config.maxCount \in Nat \cup {NoLimit} /\ NoLimit \notin Int
BY AlarmAssumption DEF RestType, Config

\* Three kinds of timers
LEMMA KindsFacts ==
  /\ "activate" \in Kinds /\ "deactivate" \in Kinds /\ "repeat" \in Kinds
  /\ "activate" \in Kinds \ {"repeat"} /\ "deactivate" \in Kinds \ {"repeat"}
  /\ "activate" \in Kinds \ {"deactivate"} /\ "repeat" \in Kinds \ {"deactivate"}
  /\ "deactivate" \in Kinds \ {"activate"} /\ "repeat" \in Kinds \ {"activate"}
BY DEF Kinds

\* Nothing of the alarm changes.
LEMMA AlarmSame ==
  ASSUME AlarmInv, UNCHANGED <<config, alarmVars>>
  PROVE  AlarmInv'
BY DEF AlarmInv, alarmVars, Limit, Counted, Known, Match, Runs, MayAlert, Timers

\* Nothing of the messages changes.
LEMMA SmsSame ==
  ASSUME SmsInv, UNCHANGED smsVars
  PROVE  SmsInv'
BY DEF SmsInv, smsVars, SmsTypeOK, Waiting, QueueKeepsMoving

\* Whether a message is sent or not, the queue stays in order.
LEMMA NotifyFacts ==
  ASSUME SmsInv, NEW b, Notify(b)
  PROVE  SmsInv'
<1>1. CASE b
  BY <1>1, SendFacts DEF Notify
<1>2. CASE ~ b
  BY <1>2, SmsSame DEF Notify
<1> QED BY <1>1, <1>2

\* An activation starts the repetition and counts anew.
LEMMA ActivateFacts ==
  ASSUME RestType, AlarmInv, SmsInv, UNCHANGED config, wasTriggered' = TRUE,
         NEW t, Known(t), \A k \in Kinds : ~ Runs(t, k), ActivateAlarm(t)
  PROVE  AlarmInv' /\ SmsInv'
<1> DEFINE n == config.maxCount
           u == IF Exhausted(OneLess(n)) THEN Cleared(t, "repeat") ELSE t
<1>1. /\ cell' = TRUE /\ wasActive' = TRUE /\ remainingCount' = OneLess(n)
      /\ alerts' = IF n # NoLimit /\ MayAlert(n) THEN 1 ELSE 0
      /\ timers' = IF config.interval THEN Started(u, "repeat") ELSE u
      /\ Notify(MayAlert(n))
  BY DEF ActivateAlarm
<1>2. SmsInv'
  BY <1>1, NotifyFacts
<1>3. Limit' /\ Counted'
  BY <1>1, ConfigFields DEF Limit, Counted, OneLess, MayAlert
<1>4. Known(u) /\ \A k \in Kinds : ~ Runs(u, k)
  BY ClearedFacts, KindsFacts
<1>5. remainingCount' = NoLimit \/ remainingCount' >= -1
  BY <1>1, ConfigFields DEF OneLess
<1> HIDE DEF u, n
<1>6. /\ Known(timers') /\ ~ Runs(timers', "activate") /\ ~ Runs(timers', "deactivate")
      /\ config.interval => Runs(timers', "repeat")
  BY <1>1, <1>4, StartedFacts, KindsFacts
<1>7. Match(timers', TRUE, TRUE, remainingCount', config)
  BY <1>5, <1>6 DEF Match
<1> QED BY <1>1, <1>2, <1>3, <1>6, <1>7 DEF AlarmInv

\* A deactivation leaves no timer.
LEMMA DeactivateFacts ==
  ASSUME RestType, AlarmInv, SmsInv, UNCHANGED config, wasTriggered' = FALSE,
         NEW t, Known(t), ~ Runs(t, "activate"), ~ Runs(t, "deactivate"), DeactivateAlarm(t)
  PROVE  AlarmInv' /\ SmsInv'
<1>1. /\ cell' = FALSE /\ wasActive' = FALSE /\ timers' = Cleared(t, "repeat")
      /\ remainingCount' = remainingCount /\ alerts' = alerts /\ Notify(TRUE)
  BY DEF DeactivateAlarm
<1>2. SmsInv'
  BY <1>1, NotifyFacts
<1>3. Limit' /\ Counted'
  BY <1>1 DEF AlarmInv, Limit, Counted
<1>4. /\ Known(timers') /\ ~ Runs(timers', "repeat")
      /\ ~ Runs(timers', "activate") /\ ~ Runs(timers', "deactivate")
  BY <1>1, ClearedFacts, KindsFacts
<1>5. Match(timers', FALSE, FALSE, remainingCount', config)
  BY <1>4 DEF Match
<1> QED BY <1>1, <1>2, <1>3, <1>4, <1>5 DEF AlarmInv

\* One more message, and the last one ends the repetition.
LEMMA RepeatStep ==
  ASSUME IInv, NEW i \in Ids, Repeat(i)
  PROVE  AlarmInv' /\ SmsInv'
<1> DEFINE n == remainingCount
<1>1. /\ timers.live[i] = "repeat" /\ UNCHANGED <<config, wasTriggered, wasActive, cell>>
      /\ remainingCount' = OneLess(n) /\ Notify(MayAlert(n))
      /\ alerts' = IF n # NoLimit /\ MayAlert(n) THEN alerts + 1 ELSE alerts
      /\ timers' = IF Exhausted(OneLess(n)) THEN Cleared(timers, "repeat") ELSE timers
  BY DEF Repeat, NotifyAboutActiveAlarm
<1>2. RestType /\ AlarmInv /\ SmsInv /\ Limit /\ Counted /\ Known(timers)
  BY DEF IInv, AlarmInv
<1>3. Match(timers, wasTriggered, wasActive, n, config) /\ Runs(timers, "repeat")
  BY <1>1 DEF IInv, AlarmInv, Runs
<1>4. wasActive /\ (n = NoLimit \/ n >= -1)
  BY <1>3 DEF Match
<1>5. SmsInv'
  BY <1>1, <1>2, NotifyFacts
<1>6. Limit' /\ Counted'
  BY <1>1, <1>2, <1>4, ConfigFields DEF Limit, Counted, OneLess, MayAlert
<1>7. /\ Known(timers')
      /\ Runs(timers', "activate") <=> Runs(timers, "activate")
      /\ Runs(timers', "deactivate") <=> Runs(timers, "deactivate")
      /\ Runs(timers', "repeat") <=> ~ Exhausted(OneLess(n))
  BY <1>1, <1>2, <1>3, ClearedFacts, KindsFacts
<1>8. /\ ~ Exhausted(OneLess(n)) <=> MayAlert(OneLess(n))
      /\ ~ Exhausted(OneLess(n)) => OneLess(n) = NoLimit \/ OneLess(n) >= -1
  BY <1>2, <1>4, ConfigFields DEF Limit, OneLess, Exhausted, MayAlert
<1>9. Match(timers', wasTriggered, wasActive, remainingCount', config)
  BY <1>1, <1>3, <1>4, <1>7, <1>8 DEF Match
<1> QED BY <1>1, <1>2, <1>5, <1>6, <1>7, <1>9 DEF AlarmInv

-----------------------------------------------------------------------------
(* The steps *)

\* The delay before the alarm ends is cut short.
LEMMA StayActiveStep ==
  ASSUME IInv, StayActive
  PROVE  AlarmInv' /\ SmsInv'
<1>1. /\ ~ wasTriggered /\ wasActive /\ wasTriggered' = TRUE /\ config' = config
      /\ timers' = Cleared(timers, "deactivate")
      /\ UNCHANGED <<wasActive, remainingCount, cell, alerts, smsVars>>
  BY DEF StayActive, Look
<1>2. AlarmInv /\ SmsInv /\ Known(timers)
  BY DEF IInv, AlarmInv
<1>3. /\ Known(timers') /\ ~ Runs(timers', "deactivate")
      /\ Runs(timers', "activate") <=> Runs(timers, "activate")
      /\ Runs(timers', "repeat") <=> Runs(timers, "repeat")
  BY <1>1, <1>2, ClearedFacts, KindsFacts
<1>4. Match(timers', wasTriggered', wasActive', remainingCount', config')
  BY <1>1, <1>2, <1>3 DEF AlarmInv, Match
<1>5. Limit' /\ Counted'
  BY <1>1, <1>2 DEF AlarmInv, Limit, Counted
<1> QED BY <1>1, <1>2, <1>3, <1>4, <1>5, SmsSame DEF AlarmInv

\* The delay before the alarm begins
LEMMA ActivateLaterStep ==
  ASSUME IInv, ActivateLater
  PROVE  AlarmInv' /\ SmsInv'
<1> DEFINE u == Started(timers, "activate")
<1>1. /\ ~ wasTriggered /\ ~ wasActive /\ wasTriggered' = TRUE /\ config' = config
      /\ timers' = Cleared(u, "deactivate")
      /\ UNCHANGED <<wasActive, remainingCount, cell, alerts, smsVars>>
  BY DEF ActivateLater, Look
<1>2. AlarmInv /\ SmsInv /\ Known(timers)
  BY DEF IInv, AlarmInv
<1>3. ~ Runs(timers, "activate") /\ ~ Runs(timers, "repeat")
  BY <1>1, <1>2 DEF AlarmInv, Match
<1>4. Known(u) /\ Runs(u, "activate") /\ ~ Runs(u, "repeat")
  BY <1>2, <1>3, StartedFacts, KindsFacts
<1> HIDE DEF u
<1>5. /\ Known(timers') /\ ~ Runs(timers', "deactivate")
      /\ Runs(timers', "activate") /\ ~ Runs(timers', "repeat")
  BY <1>1, <1>4, ClearedFacts, KindsFacts
<1>6. Match(timers', wasTriggered', wasActive', remainingCount', config')
  BY <1>1, <1>5 DEF Match
<1>7. Limit' /\ Counted'
  BY <1>1, <1>2 DEF AlarmInv, Limit, Counted
<1> QED BY <1>1, <1>2, <1>5, <1>6, <1>7, SmsSame DEF AlarmInv

\* The alarm begins at once.
LEMMA ActivateNowStep ==
  ASSUME IInv, ActivateNow
  PROVE  AlarmInv' /\ SmsInv'
<1> DEFINE t == Cleared(timers, "deactivate")
<1>1. /\ ~ wasTriggered /\ ~ wasActive /\ wasTriggered' = TRUE /\ config' = config
      /\ ActivateAlarm(t)
  BY DEF ActivateNow, Look
<1>2. RestType /\ AlarmInv /\ SmsInv /\ Known(timers)
  BY DEF IInv, AlarmInv
<1>3. ~ Runs(timers, "activate") /\ ~ Runs(timers, "repeat")
  BY <1>1, <1>2 DEF AlarmInv, Match
<1>4. Known(t) /\ \A k \in Kinds : ~ Runs(t, k)
  BY <1>2, <1>3, ClearedFacts, KindsFacts DEF Kinds
<1> HIDE DEF t
<1> QED BY <1>1, <1>2, <1>4, ActivateFacts

\* The alarm's own control is no part of the invariant.
LEMMA ResetCellStep ==
  ASSUME IInv, ResetCell
  PROVE  AlarmInv' /\ SmsInv'
<1>1. /\ cell' = FALSE
      /\ UNCHANGED <<config, wasTriggered, wasActive, remainingCount, timers, alerts, smsVars>>
  BY DEF ResetCell, Look
<1>2. AlarmInv /\ SmsInv
  BY DEF IInv
<1>3. AlarmInv'
  BY <1>1, <1>2 DEF AlarmInv, Limit, Counted, Known, Match, Runs, MayAlert, Timers
<1> QED BY <1>1, <1>2, <1>3, SmsSame

\* The delay before the alarm begins is cut short.
LEMMA StayInactiveStep ==
  ASSUME IInv, StayInactive
  PROVE  AlarmInv' /\ SmsInv'
<1>1. /\ wasTriggered /\ ~ wasActive /\ wasTriggered' = FALSE /\ config' = config
      /\ timers' = Cleared(timers, "activate")
      /\ UNCHANGED <<wasActive, remainingCount, cell, alerts, smsVars>>
  BY DEF StayInactive, Look
<1>2. AlarmInv /\ SmsInv /\ Known(timers)
  BY DEF IInv, AlarmInv
<1>3. /\ Known(timers') /\ ~ Runs(timers', "activate")
      /\ Runs(timers', "deactivate") <=> Runs(timers, "deactivate")
      /\ Runs(timers', "repeat") <=> Runs(timers, "repeat")
  BY <1>1, <1>2, ClearedFacts, KindsFacts
<1>4. Match(timers', wasTriggered', wasActive', remainingCount', config')
  BY <1>1, <1>2, <1>3 DEF AlarmInv, Match
<1>5. Limit' /\ Counted'
  BY <1>1, <1>2 DEF AlarmInv, Limit, Counted
<1> QED BY <1>1, <1>2, <1>3, <1>4, <1>5, SmsSame DEF AlarmInv

\* The delay before the alarm ends
LEMMA DeactivateLaterStep ==
  ASSUME IInv, DeactivateLater
  PROVE  AlarmInv' /\ SmsInv'
<1> DEFINE u == Started(timers, "deactivate")
<1>1. /\ wasTriggered /\ wasActive /\ wasTriggered' = FALSE /\ config' = config
      /\ timers' = Cleared(u, "activate")
      /\ UNCHANGED <<wasActive, remainingCount, cell, alerts, smsVars>>
  BY DEF DeactivateLater, Look
<1>2. AlarmInv /\ SmsInv /\ Known(timers)
  BY DEF IInv, AlarmInv
<1>3. ~ Runs(timers, "deactivate")
  BY <1>1, <1>2 DEF AlarmInv, Match
<1>4. Known(u) /\ Runs(u, "deactivate") /\ (Runs(u, "repeat") <=> Runs(timers, "repeat"))
  BY <1>2, <1>3, StartedFacts, KindsFacts
<1> HIDE DEF u
<1>5. /\ Known(timers') /\ ~ Runs(timers', "activate")
      /\ Runs(timers', "deactivate") /\ (Runs(timers', "repeat") <=> Runs(timers, "repeat"))
  BY <1>1, <1>4, ClearedFacts, KindsFacts
<1>6. Match(timers', wasTriggered', wasActive', remainingCount', config')
  BY <1>1, <1>2, <1>5 DEF AlarmInv, Match
<1>7. Limit' /\ Counted'
  BY <1>1, <1>2 DEF AlarmInv, Limit, Counted
<1> QED BY <1>1, <1>2, <1>5, <1>6, <1>7, SmsSame DEF AlarmInv

\* The alarm ends at once.
LEMMA DeactivateNowStep ==
  ASSUME IInv, DeactivateNow
  PROVE  AlarmInv' /\ SmsInv'
<1> DEFINE t == Cleared(timers, "activate")
<1>1. /\ wasTriggered /\ wasActive /\ wasTriggered' = FALSE /\ config' = config
      /\ DeactivateAlarm(t)
  BY DEF DeactivateNow, Look
<1>2. RestType /\ AlarmInv /\ SmsInv /\ Known(timers)
  BY DEF IInv, AlarmInv
<1>3. ~ Runs(timers, "deactivate")
  BY <1>1, <1>2 DEF AlarmInv, Match
<1>4. Known(t) /\ ~ Runs(t, "activate") /\ ~ Runs(t, "deactivate")
  BY <1>2, <1>3, ClearedFacts, KindsFacts
<1> HIDE DEF t
<1> QED BY <1>1, <1>2, <1>4, DeactivateFacts

\* The delay is over while the value is still out of its bounds.
LEMMA ActivateTimeoutStep ==
  ASSUME IInv, NEW i \in Ids, ActivateTimeout(i)
  PROVE  AlarmInv' /\ SmsInv'
<1> DEFINE t == Fired(timers, i, "activate")
<1>1. /\ timers.live[i] = "activate" /\ UNCHANGED <<config, wasTriggered>>
      /\ ActivateAlarm(t)
  BY DEF ActivateTimeout
<1>2. RestType /\ AlarmInv /\ SmsInv /\ Known(timers)
  BY DEF IInv, AlarmInv
<1>3. Runs(timers, "activate")
  BY <1>1 DEF Runs
<1>4. wasTriggered /\ ~ Runs(timers, "deactivate") /\ ~ Runs(timers, "repeat")
  BY <1>2, <1>3 DEF AlarmInv, Match
<1>5. Known(t) /\ \A k \in Kinds : ~ Runs(t, k)
  BY <1>1, <1>2, <1>4, FiredFacts, KindsFacts DEF Kinds
<1>6. wasTriggered' = TRUE
  BY <1>1, <1>2, <1>4 DEF AlarmInv
<1> HIDE DEF t
<1> QED BY <1>1, <1>2, <1>5, <1>6, ActivateFacts

\* The delay is over while the value is still within its bounds.
LEMMA DeactivateTimeoutStep ==
  ASSUME IInv, NEW i \in Ids, DeactivateTimeout(i)
  PROVE  AlarmInv' /\ SmsInv'
<1> DEFINE t == Fired(timers, i, "deactivate")
<1>1. /\ timers.live[i] = "deactivate" /\ UNCHANGED <<config, wasTriggered>>
      /\ DeactivateAlarm(t)
  BY DEF DeactivateTimeout
<1>2. RestType /\ AlarmInv /\ SmsInv /\ Known(timers)
  BY DEF IInv, AlarmInv
<1>3. Runs(timers, "deactivate")
  BY <1>1 DEF Runs
<1>4. ~ wasTriggered /\ ~ Runs(timers, "activate")
  BY <1>2, <1>3 DEF AlarmInv, Match
<1>5. Known(t) /\ ~ Runs(t, "activate") /\ ~ Runs(t, "deactivate")
  BY <1>1, <1>2, <1>4, FiredFacts, KindsFacts
<1>6. wasTriggered' = FALSE
  BY <1>1, <1>2, <1>4 DEF AlarmInv
<1> HIDE DEF t
<1> QED BY <1>1, <1>2, <1>5, <1>6, DeactivateFacts

\* A script that has just been started has no timers and no messages.
LEMMA NoTimersFacts ==
  /\ Known(NoTimers) /\ \A k \in Kinds : ~ Runs(NoTimers, k)
BY DEF Known, Runs, NoTimers, Timers, Kinds, Ids, NoId

\* An empty queue is in order.
LEMMA EmptyQueue ==
  /\ <<>> \in Seq(Sms) /\ IsInjective(<<>>) /\ \A i \in DOMAIN <<>> : FALSE
  /\ [m \in Sms |-> "free"] \in [Sms -> Places]
BY DEF IsInjective, Places

\* The script is loaded again.
LEMMA ReloadStep ==
  ASSUME IInv, NEW c \in Configs, Reload(c)
  PROVE  IInv'
<1>1. /\ config' = c /\ nextRule' = "none" /\ half' = FALSE
      /\ memo' = [r \in {"activate", "deactivate"} |-> FALSE]
      /\ wasTriggered' = FALSE /\ wasActive' = FALSE /\ remainingCount' = NoLimit
      /\ timers' = NoTimers /\ alerts' = 0 /\ doubt' = TRUE
      /\ UNCHANGED <<value, events, cell>>
  BY DEF Reload, Load
<1>2. smsQueue' = <<>> /\ smsBusy' = FALSE /\ message' = [m \in Sms |-> "free"]
  BY DEF Reload, Load
<1>3. RestType'
  BY <1>1 DEF IInv, RestType
<1>4. SmsTypeOK'
  BY <1>2, EmptyQueue DEF SmsTypeOK, Places
<1>5. QueueKeepsMoving' /\ Waiting'
  BY <1>2, EmptyQueue DEF QueueKeepsMoving, Waiting
<1>6. Limit'
  BY <1>1 DEF Limit
<1>7. Counted'
  BY <1>1, <1>3, ConfigFields, AlarmAssumption DEF Counted, Config
<1>8. Known(timers') /\ Match(timers', FALSE, FALSE, remainingCount', config')
  BY <1>1, NoTimersFacts, KindsFacts DEF Match
<1>9. cell' \in BOOLEAN
  BY <1>1 DEF IInv, AlarmInv
<1> QED BY <1>1, <1>3, <1>4, <1>5, <1>6, <1>7, <1>8, <1>9 DEF IInv, AlarmInv, SmsInv

-----------------------------------------------------------------------------
(* The invariant *)

\* The script starts in such a state.
LEMMA InitInv == Init => IInv
<1> SUFFICES ASSUME Init PROVE IInv
  OBVIOUS
<1>1. RestType
  <2>1. 0 \in 0 .. MaxEvents
    BY AlarmAssumption
  <2> QED BY <2>1 DEF Init, RestType
<1>2. SmsTypeOK
  BY EmptyQueue DEF Init, SmsInit, SmsTypeOK, Places
<1>3. QueueKeepsMoving /\ Waiting
  BY EmptyQueue DEF Init, SmsInit, QueueKeepsMoving, Waiting
<1>4. Limit
  BY DEF Init, Limit
<1>5. Counted
  BY <1>1, ConfigFields DEF Init, Counted
<1>6. Known(timers) /\ Match(timers, FALSE, FALSE, remainingCount, config)
  BY NoTimersFacts, KindsFacts DEF Init, Match
<1> QED BY <1>1, <1>2, <1>3, <1>4, <1>5, <1>6 DEF Init, IInv, AlarmInv, SmsInv

\* A condition comes to true or false.
LEMMA VerdictType ==
  ASSUME NEW r
  PROVE  Verdict(r) \in BOOLEAN /\ Holds(r) \in BOOLEAN
<1>1. TestMin(r) \in BOOLEAN /\ TestMax(r) \in BOOLEAN /\ TestExpected(r) \in BOOLEAN
  BY DEF TestMin, TestMax, TestExpected
<1>2. Holds(r) \in BOOLEAN
  <2>1. CASE ~ config.range
    BY <1>1, <2>1 DEF Holds
  <2>2. CASE config.range
    BY <2>2 DEF Holds
  <2> QED BY <2>1, <2>2
<1> QED BY <1>1, <1>2 DEF Verdict

\* What is not of the alarm or of the messages keeps its type.
LEMMA RestStep ==
  ASSUME RestType, [Next]_vars
  PROVE  RestType'
<1>1. CASE StartEventRun \/ StartOtherRun
  BY <1>1, AlarmAssumption DEF RestType, StartEventRun, StartOtherRun
<1>2. CASE RuleStep /\ \A r \in {"activate", "deactivate"} : ~ FirstRead(r)
  <2>1. PICK r \in {"activate", "deactivate"} : \E b : Look(r, b)
    BY <1>2 DEF RuleStep, LookOnly, AlreadyTriggered, StayActive, ActivateLater, ActivateNow,
                ResetCell, StayInactive, DeactivateLater, DeactivateNow
  <2>2. Verdict(r) \in BOOLEAN
    BY VerdictType
  <2> QED BY <2>1, <2>2 DEF RestType, Look
<1>3. CASE \E i \in Ids : ActivateTimeout(i) \/ DeactivateTimeout(i) \/ Repeat(i)
  BY <1>3 DEF RestType, ActivateTimeout, DeactivateTimeout, Repeat, ruleVars
<1>4. CASE SmsCallback
  BY <1>4 DEF RestType, SmsCallback, ruleVars
<1>5. CASE \E v \in Values : ControlChange(v)
  BY <1>5, AlarmAssumption DEF RestType, ControlChange, ruleVars
<1>6. CASE \E c \in Configs : Reload(c)
  BY <1>6 DEF RestType, Reload, Load
<1>7. CASE UNCHANGED vars
  BY <1>7 DEF RestType, vars, ruleVars
<1>8. CASE \E r \in {"activate", "deactivate"} : FirstRead(r)
  BY <1>8 DEF RestType, FirstRead, MaxMatters
<1> QED BY <1>1, <1>2, <1>3, <1>4, <1>5, <1>6, <1>7, <1>8 DEF Next, RuleStep

\* Every step of a rule, of a callback or of the driver preserves the invariant.
LEMMA NextInv == IInv /\ [Next]_vars => IInv'
<1> SUFFICES ASSUME IInv, [Next]_vars PROVE IInv'
  OBVIOUS
<1>1. AlarmInv /\ SmsInv
  BY DEF IInv
<1>2. RestType'
  BY RestStep DEF IInv
<1>3. CASE StartEventRun \/ StartOtherRun
  BY <1>1, <1>2, <1>3, AlarmSame, SmsSame DEF StartEventRun, StartOtherRun, IInv
<1>4. CASE \E r \in {"activate", "deactivate"} : LookOnly(r)
  BY <1>1, <1>2, <1>4, AlarmSame, SmsSame DEF LookOnly, Look, IInv
<1>5. CASE AlreadyTriggered
  BY <1>1, <1>2, <1>5, AlarmSame, SmsSame DEF AlreadyTriggered, Look, IInv
<1>6. CASE StayActive
  BY <1>2, <1>6, StayActiveStep DEF IInv
<1>7. CASE ActivateLater
  BY <1>2, <1>7, ActivateLaterStep DEF IInv
<1>8. CASE ActivateNow
  BY <1>2, <1>8, ActivateNowStep DEF IInv
<1>9. CASE ResetCell
  BY <1>2, <1>9, ResetCellStep DEF IInv
<1>10. CASE StayInactive
  BY <1>2, <1>10, StayInactiveStep DEF IInv
<1>11. CASE DeactivateLater
  BY <1>2, <1>11, DeactivateLaterStep DEF IInv
<1>12. CASE DeactivateNow
  BY <1>2, <1>12, DeactivateNowStep DEF IInv
<1>13. ASSUME NEW i \in Ids, ActivateTimeout(i)
       PROVE  IInv'
  BY <1>2, <1>13, ActivateTimeoutStep DEF IInv
<1>14. ASSUME NEW i \in Ids, DeactivateTimeout(i)
       PROVE  IInv'
  BY <1>2, <1>14, DeactivateTimeoutStep DEF IInv
<1>15. ASSUME NEW i \in Ids, Repeat(i)
       PROVE  IInv'
  BY <1>2, <1>15, RepeatStep DEF IInv
<1>16. CASE SmsCallback
  BY <1>1, <1>2, <1>16, AlarmSame, SmsStepFacts DEF SmsCallback, IInv
<1>17. CASE \E v \in Values : ControlChange(v)
  BY <1>1, <1>2, <1>17, AlarmSame, SmsSame DEF ControlChange, IInv
<1>18. CASE \E c \in Configs : Reload(c)
  BY <1>18, ReloadStep
<1>19. CASE UNCHANGED vars
  BY <1>1, <1>2, <1>19, AlarmSame, SmsSame DEF vars, IInv
<1>20. CASE \E r \in {"activate", "deactivate"} : FirstRead(r)
  BY <1>1, <1>2, <1>20, AlarmSame, SmsSame DEF FirstRead, IInv
<1> QED BY <1>3, <1>4, <1>5, <1>6, <1>7, <1>8, <1>9, <1>10, <1>11, <1>12, <1>13, <1>14,
           <1>15, <1>16, <1>17, <1>18, <1>19, <1>20 DEF Next, RuleStep

\* The invariant holds of every behaviour.
LEMMA Invariance == Spec => []IInv
<1>1. Init => IInv
  BY InitInv
<1>2. IInv /\ [Next]_vars => IInv'
  BY NextInv
<1> QED BY <1>1, <1>2, PTL DEF Spec

\* All variables of an alarm and of the SMS queue keep their types: the count of messages
\* left never falls below -2, and no message waits twice.
THEOREM TypeCorrect == Spec => []TypeOK
<1>1. IInv => TypeOK
  <2> SUFFICES ASSUME IInv PROVE TypeOK
    OBVIOUS
  <2>1. remainingCount \in Nat \cup {-2, -1, NoLimit}
    BY DEF IInv, AlarmInv, Limit
  <2> QED BY <2>1 DEF IInv, AlarmInv, RestType, SmsInv, Counted, Known, TypeOK
<1> QED BY <1>1, Invariance, PTL

\* The alarm's timers are those that its state calls for, and it knows them all
\* (activateAlarm, deactivateAlarm and the two rules of loadAlarm).
THEOREM TimersAsState == Spec => []TimersMatchState
<1>1. IInv => TimersMatchState
  BY DEF IInv, AlarmInv, Known, Match, Runs, Running, TimersMatchState
<1> QED BY <1>1, Invariance, PTL

\* notifyAboutActiveAlarm keeps to maxCount, also when the alarm is activated anew.
THEOREM WithinLimit == Spec => []MessagesPerPeriod
<1>1. IInv => MessagesPerPeriod
  BY DEF IInv, AlarmInv, Counted, MessagesPerPeriod
<1> QED BY <1>1, Invariance, PTL

\* The SMS queue never waits for a callback that nobody will make, but for a lost one.
THEOREM QueueMoves == Spec => []QueueKeepsMoving
<1>1. IInv => QueueKeepsMoving
  BY DEF IInv, SmsInv
<1> QED BY <1>1, Invariance, PTL

-----------------------------------------------------------------------------
(* The alarm and the control *)

\* No value is both out of the bounds and within them.
LEMMA OneHolds == ~ (Holds("activate") /\ Holds("deactivate"))
BY AlarmAssumption DEF Holds, TestExpected, TestMin, TestMax

\* The memos are functions on the two rules.
LEMMA MemoFacts ==
  ASSUME RestType
  PROVE  /\ DOMAIN memo = {"activate", "deactivate"}
         /\ memo["activate"] \in BOOLEAN /\ memo["deactivate"] \in BOOLEAN
         /\ Holds("activate") \in BOOLEAN /\ Holds("deactivate") \in BOOLEAN
BY DEF RestType, Holds, TestExpected, TestMin, TestMax

\* The look at a rule whose condition has just become true acts on the alarm; any other
\* look does not.
LEMMA LookActs ==
  ASSUME IInv, RuleStep
  PROVE  \/ /\ Look("activate", TRUE) /\ wasTriggered'
         \/ /\ Look("deactivate", TRUE) /\ ~ wasTriggered'
         \/ /\ \E r \in {"activate", "deactivate"} : FirstRead(r) \/ Look(r, FALSE)
            /\ wasTriggered' = wasTriggered
<1>1. wasTriggered \in BOOLEAN
  BY DEF IInv, AlarmInv
<1>2. CASE \E r \in {"activate", "deactivate"} : FirstRead(r) \/ LookOnly(r)
  BY <1>2 DEF FirstRead, LookOnly, alarmVars
<1>3. CASE AlreadyTriggered
  BY <1>3 DEF AlreadyTriggered, alarmVars
<1>4. CASE StayActive \/ ActivateLater \/ ActivateNow
  BY <1>4 DEF StayActive, ActivateLater, ActivateNow
<1>5. CASE ResetCell
  BY <1>5 DEF ResetCell
<1>6. CASE StayInactive \/ DeactivateLater \/ DeactivateNow
  BY <1>6 DEF StayInactive, DeactivateLater, DeactivateNow
<1> QED BY <1>2, <1>3, <1>4, <1>5, <1>6 DEF RuleStep

\* What holds of the control depends on nothing else.
LEMMA HoldsStays ==
  ASSUME UNCHANGED <<config, value>>, NEW r
  PROVE  /\ Holds(r)' = Holds(r) /\ TestMin(r)' = TestMin(r) /\ TestMax(r)' = TestMax(r)
         /\ MaxMatters(r)' = MaxMatters(r)
BY DEF Holds, TestExpected, TestMin, TestMax, MaxMatters

\* What activate comes to is true of the control, also when its two reads were of two
\* values; if no event is left to come, it is whether the control is out of bounds.
LEMMA ActivateVerdict ==
  ASSUME RestType
  PROVE  /\ Verdict("activate") \in BOOLEAN
         /\ Verdict("activate") => Holds("activate")
         /\ (half => ~ TestMin("activate")) => Verdict("activate") = Holds("activate")
<1>1. CASE half
  <2>1. Verdict("activate") = TestMax("activate")
    BY <1>1 DEF Verdict
  <2>2. Holds("activate") = (TestMin("activate") \/ TestMax("activate"))
    BY <1>1 DEF RestType, Holds
  <2>3. TestMin("activate") \in BOOLEAN /\ TestMax("activate") \in BOOLEAN
    BY DEF TestMin, TestMax
  <2> QED BY <1>1, <2>1, <2>2, <2>3
<1>2. CASE ~ half
  BY <1>2, VerdictType DEF Verdict
<1> QED BY <1>1, <1>2 DEF RestType

\* The look at deactivate comes to whether the control is within its bounds when what it
\* has read of min is still true.
LEMMA DeactivateVerdict ==
  ASSUME RestType, half => TestMin("deactivate")
  PROVE  Verdict("deactivate") = Holds("deactivate")
BY DEF RestType, Verdict, Holds, TestExpected, TestMin, TestMax

\* The first read of a range
LEMMA FirstReadAgrees ==
  ASSUME IInv, RulesAgree, NEW r \in {"activate", "deactivate"}, FirstRead(r),
         wasTriggered' = wasTriggered
  PROVE  RulesAgree'
<1>1. /\ nextRule = r /\ half' = TRUE /\ MaxMatters(r)
      /\ UNCHANGED <<config, value, events, nextRule, memo, doubt>>
  BY DEF FirstRead
<1>2. r = "activate" => ~ TestMin("activate")
  BY <1>1 DEF MaxMatters, TestMin
<1>3. r = "deactivate" => TestMin("deactivate")
  BY <1>1 DEF MaxMatters, TestMin
<1> QED BY <1>1, <1>2, <1>3, HoldsStays DEF RulesAgree, HalfKnown, LooksAgree

\* The first look of a pass, at the rule activate
LEMMA FirstLook ==
  ASSUME IInv, RulesAgree, NEW b \in BOOLEAN, Look("activate", b),
         IF b THEN wasTriggered' ELSE wasTriggered' = wasTriggered
  PROVE  RulesAgree'
<1> DEFINE w == Verdict("activate")
<1>1. /\ b = (w /\ ~ memo["activate"]) /\ nextRule = "activate"
      /\ memo' = [memo EXCEPT !["activate"] = w]
      /\ nextRule' = "deactivate" /\ half' = FALSE /\ UNCHANGED <<config, value, events>>
      /\ doubt' = (doubt /\ \E q \in DOMAIN memo : Holds(q) /\ memo[q])
  BY DEF Look
<1>2. /\ DOMAIN memo = {"activate", "deactivate"}
      /\ memo["activate"] \in BOOLEAN /\ memo["deactivate"] \in BOOLEAN
      /\ Holds("activate") \in BOOLEAN /\ Holds("deactivate") \in BOOLEAN
  BY MemoFacts DEF IInv
<1>3. /\ memo'["activate"] = w /\ memo'["deactivate"] = memo["deactivate"]
      /\ DOMAIN memo' = DOMAIN memo
  BY <1>1, <1>2
<1>4. Holds("activate")' = Holds("activate") /\ Holds("deactivate")' = Holds("deactivate")
  BY <1>1, HoldsStays
<1>5. w \in BOOLEAN /\ (w => Holds("activate"))
  BY ActivateVerdict DEF IInv
<1> SUFFICES ASSUME ~ doubt' PROVE LooksAgree'
  BY <1>1 DEF RulesAgree, HalfKnown
<1>6. events = 0 => w = Holds("activate")
  BY <1>1, ActivateVerdict DEF IInv, RulesAgree, HalfKnown
<1> HIDE DEF w
<1>7. CASE ~ doubt
  <2>1. /\ memo["activate"] => wasTriggered
        /\ memo["deactivate"] => ~ wasTriggered
    BY <1>1, <1>7 DEF RulesAgree, LooksAgree
  <2> QED BY <1>1, <1>2, <1>3, <1>4, <1>5, <1>6, <2>1, OneHolds DEF LooksAgree
<1>8. CASE doubt
  <2>1. /\ Holds("activate") => ~ memo["activate"]
        /\ Holds("deactivate") => ~ memo["deactivate"]
    BY <1>1, <1>2, <1>8
  <2> QED BY <1>1, <1>2, <1>3, <1>4, <1>5, <1>6, <2>1 DEF LooksAgree
<1> QED BY <1>7, <1>8 DEF IInv, RestType

\* The second look, at the rule deactivate
LEMMA SecondLook ==
  ASSUME IInv, RulesAgree, NEW b \in BOOLEAN, Look("deactivate", b),
         IF b THEN ~ wasTriggered' ELSE wasTriggered' = wasTriggered
  PROVE  RulesAgree'
<1> DEFINE w == Verdict("deactivate")
<1>1. /\ b = (w /\ ~ memo["deactivate"]) /\ nextRule = "deactivate"
      /\ memo' = [memo EXCEPT !["deactivate"] = w]
      /\ nextRule' = "none" /\ half' = FALSE
      /\ UNCHANGED <<config, value, events>> /\ doubt' = doubt
  BY DEF Look, IInv, RestType
<1>2. /\ DOMAIN memo = {"activate", "deactivate"}
      /\ memo["activate"] \in BOOLEAN /\ memo["deactivate"] \in BOOLEAN
      /\ Holds("activate") \in BOOLEAN /\ Holds("deactivate") \in BOOLEAN
  BY MemoFacts DEF IInv
<1>3. /\ memo'["deactivate"] = w /\ memo'["activate"] = memo["activate"]
      /\ DOMAIN memo' = DOMAIN memo
  BY <1>1, <1>2
<1>4. Holds("activate")' = Holds("activate") /\ Holds("deactivate")' = Holds("deactivate")
  BY <1>1, HoldsStays
<1> SUFFICES ASSUME ~ doubt' PROVE LooksAgree'
  BY <1>1 DEF RulesAgree, HalfKnown
<1>5. /\ memo["activate"] => Holds("activate")
      /\ memo["activate"] => wasTriggered
      /\ events = 0 => memo["activate"] = Holds("activate")
      /\ half => TestMin("deactivate")
      /\ memo["deactivate"] /\ Holds("deactivate") => ~ wasTriggered
  BY <1>1 DEF RulesAgree, LooksAgree
<1>6. w = Holds("deactivate")
  BY <1>5, DeactivateVerdict DEF IInv
<1> HIDE DEF w
<1> QED BY <1>1, <1>2, <1>3, <1>4, <1>5, <1>6, OneHolds DEF LooksAgree

\* A change of the control is followed by a look at both rules, or makes a doubt.
LEMMA ChangeAgrees ==
  ASSUME IInv, RulesAgree, NEW v \in Values, ControlChange(v)
  PROVE  RulesAgree'
<1>1. /\ value' = v /\ events' = events + 1
      /\ UNCHANGED <<config, nextRule, half, memo, wasTriggered>>
      /\ doubt' = (doubt \/ (nextRule = "deactivate" /\ v # value))
  BY DEF ControlChange, ruleVars, alarmVars
<1>2. events' # 0
  BY <1>1, AlarmAssumption DEF IInv, RestType
<1> SUFFICES ASSUME ~ doubt' PROVE LooksAgree'
  BY <1>2 DEF RulesAgree, HalfKnown
<1>3. LooksAgree /\ (nextRule = "deactivate" => UNCHANGED <<config, value>>)
  BY <1>1 DEF RulesAgree
<1>4. CASE nextRule = "deactivate"
  BY <1>1, <1>2, <1>3, <1>4, HoldsStays DEF LooksAgree
<1>5. CASE nextRule # "deactivate"
  BY <1>1, <1>2, <1>3, <1>5 DEF LooksAgree
<1> QED BY <1>4, <1>5

\* Every step keeps the rules in agreement.
LEMMA AgreeStep ==
  ASSUME IInv, RulesAgree, [Next]_vars
  PROVE  RulesAgree'
<1>1. CASE StartEventRun \/ StartOtherRun
  <2>1. /\ nextRule = "none" /\ nextRule' = "activate"
        /\ UNCHANGED <<value, half, memo, wasTriggered, doubt>>
    BY <1>1 DEF StartEventRun, StartOtherRun, alarmVars
  <2>2. ~ half
    BY <2>1 DEF IInv, RestType
  <2> QED BY <2>1, <2>2 DEF RulesAgree, HalfKnown, LooksAgree
<1>2. CASE RuleStep
  <2>1. CASE Look("activate", TRUE) /\ wasTriggered'
    BY <2>1, FirstLook
  <2>2. CASE Look("deactivate", TRUE) /\ ~ wasTriggered'
    BY <2>2, SecondLook
  <2>3. CASE Look("activate", FALSE) /\ wasTriggered' = wasTriggered
    BY <2>3, FirstLook
  <2>4. CASE Look("deactivate", FALSE) /\ wasTriggered' = wasTriggered
    BY <2>4, SecondLook
  <2>5. CASE wasTriggered' = wasTriggered /\ \E r \in {"activate", "deactivate"} : FirstRead(r)
    BY <2>5, FirstReadAgrees
  <2> QED BY <1>2, <2>1, <2>2, <2>3, <2>4, <2>5, LookActs
<1>3. CASE (\E i \in Ids : ActivateTimeout(i) \/ DeactivateTimeout(i) \/ Repeat(i))
           \/ SmsCallback \/ UNCHANGED vars
  <2>1. UNCHANGED <<config, value, events, nextRule, half, memo, wasTriggered, doubt>>
    BY <1>3 DEF ActivateTimeout, DeactivateTimeout, Repeat, SmsCallback, vars, ruleVars,
                alarmVars
  <2> QED BY <2>1, HoldsStays DEF RulesAgree, HalfKnown, LooksAgree
<1>4. CASE \E v \in Values : ControlChange(v)
  BY <1>4, ChangeAgrees
<1>5. CASE \E c \in Configs : Reload(c)
  BY <1>5 DEF Reload, Load, RulesAgree, HalfKnown
<1> QED BY <1>1, <1>2, <1>3, <1>4, <1>5 DEF Next

\* An alarm is triggered while its control is out of its bounds and not while it is within
\* them, as far as the rules have got, unless the control changed after the look at
\* activate and before the last read of the look at deactivate (loadAlarm); a change
\* between the two reads of activate does no harm.
THEOREM AlarmFollows == Spec => []AlarmFollowsControl
<1>1. Init => RulesAgree
  BY DEF Init, RulesAgree, HalfKnown
<1>2. IInv /\ RulesAgree /\ [Next]_vars => RulesAgree'
  BY AgreeStep
<1>3. IInv /\ RulesAgree => AlarmFollowsControl
  <2> SUFFICES ASSUME IInv, RulesAgree, Settled, ~ doubt
               PROVE  /\ Holds("activate") => wasTriggered
                      /\ Holds("deactivate") => ~ wasTriggered
    BY DEF AlarmFollowsControl
  <2>1. LooksAgree /\ nextRule = "none" /\ events = 0
    BY DEF RulesAgree, Settled
  <2>2. /\ memo["activate"] = Holds("activate") /\ memo["deactivate"] = Holds("deactivate")
    BY <2>1, MemoFacts DEF LooksAgree, IInv
  <2> QED BY <2>1, <2>2 DEF LooksAgree
<1> QED BY <1>1, <1>2, <1>3, Invariance, PTL DEF Spec

=============================================================================
