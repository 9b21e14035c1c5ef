------------------------------- MODULE Mirror -------------------------------
(***************************************************************************)
(* What the update protocol of the driver promises, whatever the order of  *)
(* its steps: a copy follows a source, and a flag says when it may lag.    *)
(*                                                                         *)
(* While the copy is clean it equals the source and neither moves.  To     *)
(* change the source one has to dirty the copy first, the copy is worked   *)
(* on only while it is dirty, and it is declared clean only when it equals *)
(* the source again.                                                       *)
(***************************************************************************)
CONSTANT Places, Values

VARIABLES source, copy, dirty

Contents == [Places -> Values]

Init ==
  /\ source \in Contents
  /\ copy \in Contents
  /\ dirty \in BOOLEAN
  /\ ~ dirty => copy = source

Soil ==
  /\ ~ dirty
  /\ dirty' = TRUE
  /\ UNCHANGED <<source, copy>>

Work ==
  /\ dirty
  /\ source' \in Contents
  /\ copy' \in Contents
  /\ dirty' \in BOOLEAN
  /\ ~ dirty' => copy' = source'

Next == Soil \/ Work

Spec == Init /\ [][Next]_<<source, copy, dirty>>
=============================================================================
