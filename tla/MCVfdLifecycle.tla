---------------------------- MODULE MCVfdLifecycle ----------------------------
(* Instances of VfdLifecycle for TLC: two files, two processes.             *)
EXTENDS VfdLifecycle

MCAttrs == <<"display", "dotled">>

\* No dot LEDs, two of them, names without their bits; keys or none.
MCTrees ==
  {[names |-> -22, bits |-> "match", keys |-> 2], [names |-> 2, bits |-> "match", keys |-> 0],
   [names |-> 2, bits |-> "match", keys |-> 2], [names |-> 2, bits |-> "mismatch", keys |-> 2]}
=============================================================================
