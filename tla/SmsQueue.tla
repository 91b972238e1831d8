------------------------------ MODULE SmsQueue ------------------------------
(***************************************************************************)
(* sendSMS of modules/wb-notify.js: a message is sent by an external       *)
(* command; while one runs, messages wait in _smsQueue.  Without a command *)
(* of its own a message first runs "wb-gsm should_enable" to find out how  *)
(* to send it.  The callback of a command is a thunk on the sync loop      *)
(* (spawn in scripts/lib.js, esWbSpawn in wbrules/esengine.go); it is      *)
(* never called when the command could not be run (wbrules/spawn.go).      *)
(*                                                                         *)
(* Every script file that requires the module has a queue of its own: this *)
(* is the queue of one file.                                               *)
(***************************************************************************)
EXTENDS Sequences, Functions

CONSTANT Sms   \* messages: the bound on those that are followed at a time

VARIABLES
  smsQueue,   \* _smsQueue
  smsBusy,    \* _smsBusy
  message     \* where each message is; "lost": the callback will never come

smsVars == <<smsQueue, smsBusy, message>>

Free == {m \in Sms : message[m] = "free"}
Sending == {m \in Sms : message[m] = "sending"}

SmsInit ==
  /\ smsQueue = <<>> /\ smsBusy = FALSE
  /\ message = [m \in Sms |-> "free"]

\* sendOrEnqueue
SendOrEnqueue(m) ==
  IF smsBusy
  THEN /\ smsQueue' = Append(smsQueue, m)
       /\ message' = [message EXCEPT ![m] = "queued"]
       /\ UNCHANGED smsBusy
  ELSE /\ smsBusy' = TRUE
       /\ message' = [message EXCEPT ![m] = "sending"]
       /\ UNCHANGED smsQueue

\* sendSMS, with a command or without; no message is followed beyond the bound.
SendSMS(hasCommand) ==
  LET m == CHOOSE n \in Free : TRUE
  IN IF Free = {} THEN UNCHANGED smsVars
     ELSE IF hasCommand THEN SendOrEnqueue(m)
     ELSE /\ message' = [message EXCEPT ![m] = "checking"]
          /\ UNCHANGED <<smsQueue, smsBusy>>

\* _checkUse4gModem calls back.
ModemChecked(m) == message[m] = "checking" /\ SendOrEnqueue(m)

\* Mutant: the sender moves on by itself only when nobody waits.
AdvanceSmsQueueLater(ts) == message' = ts /\ UNCHANGED smsQueue

\* Mutant: the message is taken and stays in the queue.
AdvanceSmsQueuePeek(ts) ==
  /\ message' = IF smsQueue = <<>> THEN ts ELSE [ts EXCEPT ![Head(smsQueue)] = "sending"]
  /\ UNCHANGED smsQueue

\* _advanceSmsQueue, with the messages otherwise as in ts; busy is not set again.
AdvanceSmsQueue(ts) ==
  IF smsQueue = <<>> THEN message' = ts /\ UNCHANGED smsQueue
  ELSE /\ message' = [ts EXCEPT ![Head(smsQueue)] = "sending"]
       /\ smsQueue' = Tail(smsQueue)

\* doneCallback, whatever the exit code
DoneCallback(m) ==
  /\ message[m] = "sending"
  /\ smsBusy' = FALSE
  /\ AdvanceSmsQueue([message EXCEPT ![m] = "free"])

\* Spawn fails: the message is gone when it was the check that failed, and the
\* sender stays busy when it was the command.
SpawnFails(m) ==
  /\ message[m] \in {"checking", "sending"}
  /\ message' = [message EXCEPT ![m] = IF @ = "checking" THEN "free" ELSE "lost"]
  /\ UNCHANGED <<smsQueue, smsBusy>>

SmsStep == \E m \in Sms : ModemChecked(m) \/ DoneCallback(m) \/ SpawnFails(m)

-----------------------------------------------------------------------------

SmsTypeOK ==
  /\ smsQueue \in Seq(Sms) /\ IsInjective(smsQueue) /\ smsBusy \in BOOLEAN
  /\ message \in [Sms -> {"free", "checking", "queued", "sending", "lost"}]

\* Nobody waits for nothing: while the sender is busy or messages wait, a command is
\* running whose callback will move the queue, unless one was lost.
QueueKeepsMoving ==
  smsBusy \/ smsQueue # <<>> => \E m \in Sms : message[m] \in {"sending", "lost"}

\* A message that waits gets its turn, unless a callback is lost.
EverySmsSent ==
  \A m \in Sms : message[m] = "queued" ~>
    message[m] # "queued" \/ \E n \in Sms : message[n] = "lost"
=============================================================================
