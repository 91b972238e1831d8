--------------------------- MODULE MCScriptFiles ---------------------------
(* A small directory for ScriptFiles: two scripts and a system file. *)
EXTENDS ScriptFiles

Disk0(here) == [p \in Paths |-> IF p \in here THEN "one" ELSE Nothing]

\* One script is enabled, disabled or not there; the system file always is.
MCDisks == {Disk0({<<"lib", TRUE>>} \cup here) :
              here \in {{}, {<<"a", TRUE>>}, {<<"a", FALSE>>}}}

=============================================================================
