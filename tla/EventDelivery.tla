---------------------------- MODULE EventDelivery ----------------------------
(***************************************************************************)
(* What the rule engine promises about control changes, whatever buffers,  *)
(* goroutines and queues lie between the driver and RunRules: the changes, *)
(* numbered in the order they are reported, are handled in that order, each *)
(* at most once, and the only ones that are skipped come before the first  *)
(* that is handled, while the engine is not ready.                         *)
(***************************************************************************)
EXTENDS Integers, Sequences

VARIABLES
  pushed,   \* how many changes have been reported
  skipped,  \* how many of them were ignored
  ready,    \* changes are no longer ignored
  handled   \* the changes the rules have seen

Init == pushed = 0 /\ skipped = 0 /\ ready = FALSE /\ handled = <<>>

Push == pushed' = pushed + 1 /\ UNCHANGED <<skipped, ready, handled>>

Skip ==
  /\ ~ ready
  /\ skipped' \in (skipped + 1) .. pushed
  /\ UNCHANGED <<pushed, ready, handled>>

BecomeReady == ~ ready /\ ready' = TRUE /\ UNCHANGED <<pushed, skipped, handled>>

Handle ==
  LET next == skipped + Len(handled) + 1
  IN /\ ready /\ next <= pushed
     /\ handled' = Append(handled, next)
     /\ UNCHANGED <<pushed, skipped, ready>>

Next == Push \/ Skip \/ BecomeReady \/ Handle

Spec == Init /\ [][Next]_<<pushed, skipped, ready, handled>>
=============================================================================
