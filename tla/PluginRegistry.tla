--------------------------- MODULE PluginRegistry ---------------------------
(***************************************************************************)
(* What the install of console plugins comes to for those who use the      *)
(* console: parts of the operator's plugins appear, one at a time and in   *)
(* any order, and stay; a plugin is loaded, once and for all, when it is   *)
(* whole; and plugins of others come and go as others wish. Nothing of     *)
(* caches, workers, conflicts, errors and restarts is to be seen.          *)
(***************************************************************************)
CONSTANTS
  Own,     \* names of the operator's plugins
  Others,  \* plugins of others
  Parts    \* what each of the operator's plugins is made of

VARIABLES
  there,   \* the parts there are, by name
  loaded   \* the plugins that the console loads

Init ==
  /\ there = [n \in Own |-> {}]
  /\ loaded \in SUBSET Others

Install(n) == \E k \in Parts \ there[n] :
  /\ there' = [there EXCEPT ![n] = there[n] \cup {k}]
  /\ UNCHANGED loaded

Load(n) ==
  /\ there[n] = Parts
  /\ loaded' = loaded \cup {n}
  /\ UNCHANGED there

OthersChoose == \E p \in Others :
  /\ loaded' \in {loaded \cup {p}, loaded \ {p}}
  /\ UNCHANGED there

Next == (\E n \in Own : Install(n) \/ Load(n)) \/ OthersChoose

Spec == Init /\ [][Next]_<<there, loaded>>
=============================================================================
