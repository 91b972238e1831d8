--------------------------- MODULE MCScriptItems ---------------------------
(***************************************************************************)
(* Two scripts for ScriptItems.  a.js defines two cron rules, a tracker    *)
(* and a virtual device; b.js a rule whose body is any script code.        *)
(***************************************************************************)
EXTENDS ScriptItems

MCFileOf == [d \in Defs |-> IF d = "press" THEN "b.js" ELSE "a.js"]
MCKindOf ==
  [d \in Defs |-> CASE d \in {"night", "noon"} -> "cron"
                    [] d = "listen"            -> "track"
                    [] d = "press"             -> "rule"
                    [] OTHER                   -> "device"]
MCTopicOf == [d \in Defs |-> "topic"]

=============================================================================
