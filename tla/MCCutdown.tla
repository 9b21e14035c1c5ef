------------------------------ MODULE MCCutdown ------------------------------
(* Instances of Cutdown for TLC.                                            *)
EXTENDS Cutdown

Key(sc, code) == [scancode |-> sc, keycode |-> code]
OverlayCall(ws)   == [file |-> "overlay", words |-> ws]
SettingCall(f, v) == [file |-> f, val |-> v]

\* Two codes for one switch, one for another, one for a bit nobody presses.
MCTable == <<Key(0, 11), Key(3, 12), Key(0, 13), Key(7, 14)>>
\* KS1 and KS4 of the FD620, and KS2, which has no code.
MCSwitches == {[ks |-> 1, k |-> 1], [ks |-> 4, k |-> 1]}
\* The four switches of the first byte of the other chips.
MatrixSwitches == [ks : {1, 2}, k : {1, 2}]

MCRequests ==
  {OverlayCall(<<"w", "w">>), OverlayCall(<<"0">>),
   SettingCall("brightness", 9)}
NoRequests == {}
=============================================================================
