------------------------------ MODULE MCAlarms ------------------------------
(***************************************************************************)
(* An alarm out of every kind of definition: with and without the delays,  *)
(* the interval, a limit of messages and a command for SMS; over a range   *)
(* and with an expected value.                                             *)
(***************************************************************************)
EXTENDS Alarms

MCConfigs ==
  {[range |-> TRUE, alarmDelay |-> p[1], noAlarmDelay |-> p[1], interval |-> TRUE,
    maxCount |-> p[2], command |-> TRUE] :
     p \in {<<TRUE, 0>>, <<TRUE, 1>>, <<TRUE, 2>>, <<FALSE, 2>>}}
  \cup {[range |-> FALSE, alarmDelay |-> TRUE, noAlarmDelay |-> FALSE, interval |-> FALSE,
          maxCount |-> NoLimit, command |-> FALSE]}

=============================================================================
