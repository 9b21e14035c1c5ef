-------------------------------- MODULE MCVfd --------------------------------
(* Instances of Vfd for TLC: a few words of display RAM, one glyph.         *)
EXTENDS Vfd

MCChars == {"nul", "a", "b"}
MCImage == [c \in {"a", "b"} |-> IF c = "a" THEN {0} ELSE {0, 1}]
MCSegno == [j \in 0 .. 6 |-> j]
\* The digits in the opposite order of the words.
MCGrid  == [i \in Cells |-> DisplayLen - 1 - i]
MCBootText == <<<<"a", "a", "b">>>>
NoBootText == <<>>

Led(word, bit, on) == [word |-> word, bit |-> bit, on |-> on]
DisplayCall(text) == [op |-> "display", text |-> text]
OverlayCall(ws)   == [op |-> "overlay", words |-> ws]
DotledCall(leds)  == [op |-> "dotled", leds |-> leds]
SettingCall(f, v) == [op |-> f, val |-> v]
PowerCall(cb)     == [op |-> "power", callback |-> cb]

\* A text shorter than the display, after a boot frame that is longer; an
\* overlay longer than the display; two LEDs in one call, in words that are
\* not adjacent, one of them in a word where the overlay sets another bit.
ContentRequests ==
  {DisplayCall(<<"b">>), OverlayCall(<<{9}, {}, {4}, {1}>>),
   DotledCall(<<Led(2, 2, TRUE), Led(0, 9, FALSE)>>)}

\* Off, on, a level the driver clamps, the night level, and the power cycle.
ControlRequests ==
  {SettingCall("enabled", 0), SettingCall("enabled", 1),
   SettingCall("brightness", 2), SettingCall("brightness", 9),
   SettingCall("brightness_suspend", 1),
   PowerCall("suspend"), PowerCall("resume"), PowerCall("shutdown")}

\* A text, and two LEDs in one call, which takes the lock twice.
ProgressRequests ==
  {DisplayCall(<<"b">>), DotledCall(<<Led(0, 9, TRUE), Led(0, 2, FALSE)>>)}

\* A text and a brightness.
MixedRequests == {OverlayCall(<<{9}, {2}>>), SettingCall("brightness", 2)}
OneOverlay == {OverlayCall(<<{9}>>)}
=============================================================================
