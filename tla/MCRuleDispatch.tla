--------------------------- MODULE MCRuleDispatch ---------------------------
(***************************************************************************)
(* Small instances of RuleDispatch.  The conditions are those of everyday  *)
(* scripts over two controls, a and b, and one named timer:                *)
(*   e1  asSoonAs: dev.a && dev.b                                          *)
(*   f1  whenChanged: function () { return dev.a ? dev.b : 0 }             *)
(*   c1  whenChanged: "b"                                                  *)
(*   c2, f2  whenChanged: ["a", function () { return dev.b }]              *)
(*   t1  when: timers.t.firing                                             *)
(*   n1  when: a function that looks at nothing                            *)
(*   c1, m1  whenChanged: ["b", "a#error"], in the rule meta               *)
(*   c3  whenChanged: "a", in the rule again                                *)
(* The rules of t1, n1 and c3 are named alike.                             *)
(***************************************************************************)
EXTENDS RuleDispatch

MCKind ==
  [c \in Conds |->
     CASE c = "e1" -> "edge"
       [] c \in {"f1", "f2"} -> "func"
       [] c \in {"c1", "c2", "c3", "m1"} -> "cell"
       [] OTHER -> "level"]

MCSpecOf ==
  [c \in Conds |-> CASE c = "m1" -> "a#error" [] c = "c1" -> "b" [] OTHER -> "a"]
MCMetaOf == [m \in Metas |-> "a"]

MCCondsOf ==
  [r \in Rules |->
     CASE r = "edge"  -> <<"e1">>
       [] r = "func"  -> <<"f1">>
       [] r = "cell"  -> <<"c1">>
       [] r = "array" -> <<"c2", "f2">>
       [] r = "tick"  -> <<"t1">>
       [] r = "plain" -> <<"n1">>
       [] r = "again" -> <<"c3">>
       [] OTHER       -> <<"c1", "m1">>]

\* Only the conditions of the rules in use.
CondsOfRules(R) ==
  UNION {CASE r = "edge" -> {"e1"} [] r = "func" -> {"f1"} [] r = "cell" -> {"c1"}
           [] r = "array" -> {"c2", "f2"} [] r = "tick" -> {"t1"}
           [] r = "plain" -> {"n1"} [] r = "again" -> {"c3"}
           [] OTHER -> {"c1", "m1"} : r \in R}

UsedConds == CondsOfRules(Rules)

\* dev.a && dev.b stops at a when a is false, and an incomplete control throws.
AReads(v) == {"a"} \cup (IF v["a"] = "1" THEN {"b"} ELSE {})

MCReads(c, v, t) ==
  CASE c \in {"e1", "f1"} -> AReads(v)
    [] c = "f2"           -> {"b"}
    [] c = "t1"           -> {"t"}
    [] OTHER              -> {}

MCEval(c, v, t) ==
  CASE c = "e1" -> IF v["a"] = "1" /\ v["b"] = "1" THEN "true" ELSE "false"
    [] c = "f1" -> IF v["a"] = "none" \/ (v["a"] = "1" /\ v["b"] = "none") THEN "nil"
                   ELSE IF v["a"] = "1" THEN v["b"] ELSE "0"
    [] c = "f2" -> IF v["b"] = "none" THEN "nil" ELSE v["b"]
    [] c = "t1" -> IF t = "t" THEN "true" ELSE "false"
    [] OTHER    -> "false"

MCFileOf == [r \in Rules |-> IF r = "edge" THEN "f1.js" ELSE "f2.js"]

MCNameOf == [r \in Rules |-> IF r \in {"tick", "plain", "again"} THEN "rule" ELSE ""]

NothingReceived == {[s \in Specs |-> NoValue]}
AllReceived == {[s \in Specs |-> "0"]}

=============================================================================
