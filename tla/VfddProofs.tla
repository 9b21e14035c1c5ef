------------------------------ MODULE VfddProofs ------------------------------
(***************************************************************************)
(* Theorems about the daemon, for every text, configuration, word and set  *)
(* of signals.                                                             *)
(*                                                                         *)
(* DaemonInv says what the reader of JsonProofs has made when its tree is  *)
(* used, OverlayInv what the display has come to, HandlerInv describes the *)
(* stack of signal handlers.                                               *)
(***************************************************************************)
EXTENDS Vfdd, JsonProofs

-----------------------------------------------------------------------------
(* The configuration.                                                      *)

\* The tree is used after it was read.
DaemonInv ==
  /\ ReaderInv
  /\ pc \in {"print", "display", "dotleds", "free"} => at = "parsed"

\* The rest of the program leaves the reader alone.
LEMMA OthersKeepReader ==
  ASSUME DaemonInv, UNCHANGED jvars,
         pc' \in {"print", "display", "dotleds", "free"} => pc \in {"print", "display", "dotleds", "free"}
  PROVE  DaemonInv'
<1>1. UNCHANGED <<at, frames, item, path, count, node, fresh, text, pos, scratch>>
  BY DEF jvars
<1>2. TextInv'
  <2>1. UNCHANGED Contents(scratch) /\ UNCHANGED Buffer(scratch)
    BY <1>1
  <2>2. QED BY <1>1, <2>1 DEF DaemonInv, ReaderInv, TextInv
<1>3. ShapeInv'
  BY <1>1 DEF DaemonInv, ReaderInv, ShapeInv, Fine, TreeInv, FramesInv, Top
<1>4. NamedInv'
  <2>1. UNCHANGED odd
    BY DEF jvars
  <2>2. QED BY <1>1, <2>1 DEF DaemonInv, ReaderInv, NamedInv, Fine
<1>5. WrittenInv'
  BY WrittenKept DEF DaemonInv, ReaderInv, jvars
<1>6. QED BY <1>1, <1>2, <1>3, <1>4, <1>5 DEF DaemonInv, ReaderInv

\* The tree that is freed is all there is: the reader is left as it began.
LEMMA FreeLeavesNothing == ASSUME DaemonInv, FreeTree PROVE InitJson'
<1>1. pc = "free" /\ at = "parsed"
  BY DEF FreeTree, At, DaemonInv
<1>2. DOMAIN node \ Reached(node) = {}
  <2>1. NodesInTree
    BY ShapeHoldsNodes DEF DaemonInv, ReaderInv
  <2>2. fresh = NoNode
    BY <1>1 DEF DaemonInv, ReaderInv, ShapeInv, Fine, TreeInv, KeyStates
  <2>3. QED BY <1>1, <2>1, <2>2 DEF NodesInTree
<1>3. node' = [i \in {Root} |-> NewNode(<<>>)]
  <2>1. node' = With([n \in DOMAIN node \ Reached(node) |-> node[n]], Root, NewNode(<<>>))
    BY DEF FreeTree
  <2>2. DOMAIN [n \in DOMAIN node \ Reached(node) |-> node[n]] = {}
    BY <1>2
  <2>3. QED BY <2>1, <2>2 DEF With
<1>4. QED BY <1>3 DEF FreeTree, InitJson

\* Nothing is read at the start.
LEMMA DaemonInit == Init => DaemonInv
  BY ReaderInit DEF Init, DaemonInv

\* Every step of the daemon keeps text, tree and buffer in order.
LEMMA DaemonStep == DaemonInv /\ [Next]_vvars => DaemonInv'
<1> SUFFICES ASSUME DaemonInv, [Next]_vvars PROVE DaemonInv'
  OBVIOUS
<1> USE DEF At, Running, Goto
<1>1. CASE MapConf
  BY <1>1, OthersKeepReader DEF MapConf, Exit, mainvars
<1>2. CASE ReadConf
  <2>1. ReaderInv' /\ UNCHANGED pc /\ pc = "read"
    BY <1>2, ReaderStep DEF ReadConf, mainvars, DaemonInv
  <2>2. QED BY <2>1 DEF DaemonInv
<1>3. CASE ReadReturns
  <2>1. CASE UNCHANGED jvars /\ pc' = pc
    BY <2>1, OthersKeepReader
  <2>2. UNCHANGED <<reused, odd, loose>>
    BY <1>3 DEF ReadReturns, jvars
  <2>3. CASE /\ at = "parsed" /\ UNCHANGED <<at, frames, item, path, count, node, fresh, text, pos>>
             /\ scratch' \in {scratch, Clear(scratch)}
    <3>1. Buffer(scratch') /\ scratch'.len <= Longest
      BY <2>3, ClearIsBuffer, DBufAssumption DEF DaemonInv, ReaderInv, TextInv
    <3>2. ReaderInv'
      BY <2>3, <2>2, <3>1, ReaderPrints DEF DaemonInv
    <3>3. QED BY <2>3, <3>2 DEF DaemonInv
  <2>4. QED BY <1>3, <2>1, <2>3 DEF ReadReturns, Fault, Exit, mainvars
<1>4. CASE PrintTree
  <2>1. /\ at = "parsed" /\ UNCHANGED <<at, frames, item, path, count, node, fresh, text, pos>>
        /\ \/ UNCHANGED scratch
           \/ /\ scratch.len < Longest
              /\ \E u : scratch' \in {PutChar(scratch, u), StrNCat(scratch, <<u>>)}
    BY <1>4 DEF PrintTree, DaemonInv
  <2>2. Buffer(scratch) /\ scratch.len \in Nat /\ Longest \in Nat /\ scratch.len <= Longest
    BY DBufAssumption DEF DaemonInv, ReaderInv, TextInv, Buffer, WellFormed
  <2>3. ASSUME scratch.len < Longest, NEW u, scratch' \in {PutChar(scratch, u), StrNCat(scratch, <<u>>)}
        PROVE  Buffer(scratch') /\ scratch'.len <= Longest
    <3>1. Len(<<u>>) = 1
      OBVIOUS
    <3>2. Buffer(PutChar(scratch, u)) /\ PutChar(scratch, u).len = scratch.len + 1
      BY <2>2, <2>3, PutCharIsBuffer
    <3>3. Len(<<u>>) \in Nat /\ scratch.len + Len(<<u>>) <= Longest
      BY <2>2, <2>3, <3>1
    <3>4. Buffer(StrNCat(scratch, <<u>>)) /\ StrNCat(scratch, <<u>>).len = scratch.len + Len(<<u>>)
      BY <2>2, <3>3, StrNCatIsBuffer
    <3>5. QED BY <2>2, <2>3, <3>1, <3>2, <3>3, <3>4
  <2>4. Buffer(scratch') /\ scratch'.len <= Longest
    <3>1. CASE UNCHANGED scratch
      BY <2>2, <3>1
    <3>2. CASE ~ UNCHANGED scratch
      <4>1. PICK u : scratch.len < Longest /\ scratch' \in {PutChar(scratch, u), StrNCat(scratch, <<u>>)}
        BY <2>1, <3>2
      <4>2. QED BY <2>3, <4>1
    <3>3. QED BY <3>1, <3>2
  <2>5. ReaderInv'
    <3>1. UNCHANGED <<reused, odd, loose>>
      BY <1>4 DEF PrintTree
    <3>2. QED BY <2>1, <2>4, <3>1, ReaderPrints DEF DaemonInv
  <2>6. QED BY <2>1, <2>5 DEF DaemonInv
<1>5. CASE FreeTree
  <2>1. InitJson'
    BY <1>5, FreeLeavesNothing
  <2>2. (InitJson => ReaderInv)'
    BY ReaderInit, PTL
  <2>3. pc' = "construct"
    BY <1>5 DEF FreeTree
  <2>4. QED BY <2>1, <2>2, <2>3 DEF DaemonInv
<1>6. CASE ReadDisplay
  BY <1>6, OthersKeepReader DEF ReadDisplay, Fault, Exit, mainvars
<1>7. CASE ReadDotleds
  BY <1>7, OthersKeepReader DEF ReadDotleds, Fault, mainvars
<1>8. CASE Construct \/ Publish \/ Start \/ Tick \/ DisplayDup \/ Leave
  BY <1>8, OthersKeepReader DEF Construct, Publish, Start, Tick, DisplayDup, Leave, Exit, Fault, mainvars
<1>9. CASE Display
  BY <1>9, OthersKeepReader DEF Display, Fault, mainvars
<1>10. CASE DotLed
  BY <1>10, OthersKeepReader DEF DotLed, Fault, mainvars
<1>11. CASE UpdateDisplay
  BY <1>11, OthersKeepReader DEF UpdateDisplay, Fault, mainvars
<1>12. CASE OpenOverlay \/ WriteWord
  BY <1>12, OthersKeepReader DEF OpenOverlay, WriteWord
<1>13. CASE Handler \/ Deliver \/ Stopped \/ UNCHANGED vvars
  BY <1>13, OthersKeepReader
     DEF Handler, CheckFlag, SetFlag, IgnorePipe, Destroy, HandlerExit, Deliver, Stopped, mainvars, vvars
<1>14. QED
  BY <1>1, <1>2, <1>3, <1>4, <1>5, <1>6, <1>7, <1>8, <1>9, <1>10, <1>11, <1>12, <1>13 DEF Next, Main

\* Whatever text is read and whatever tree is printed, the reader's buffer ends
\* within its storage and is terminated (dbuf.c:355, dbuf.c:205).
THEOREM ScratchIsString == Spec => []ScratchWellFormed
<1>1. DaemonInv => ScratchWellFormed
  BY DEF DaemonInv, ReaderInv, TextInv, Buffer, ScratchWellFormed
<1>2. QED BY <1>1, DaemonInit, DaemonStep, PTL DEF Spec

\* Whatever text is read, whether its keys are new, repeated or lead elsewhere,
\* no node of the tree is lost before it is freed, and none is freed that the
\* tree still uses (jsonroot.c:321-326, jsonroot.c:392-397).
THEOREM NoNodeIsLost == Spec => []NodesInTree
<1>1. DaemonInv => NodesInTree
  BY ShapeHoldsNodes DEF DaemonInv, ReaderInv
<1>2. QED BY <1>1, DaemonInit, DaemonStep, PTL DEF Spec

\* As long as no key has a separator in it, a member is read into a child of
\* the node whose bracket is open, the path of the reader is made of the names
\* of those children, and no node has two children of one name
\* (jsonroot.c:307-337, jsonroot.c:374-410).
THEOREM MembersStayInPlace == Spec => []MembersInPlace
<1>1. DaemonInv => MembersInPlace
  BY NamedIsInPlace DEF DaemonInv, ReaderInv
<1>2. QED BY <1>1, DaemonInit, DaemonStep, PTL DEF Spec

\* A text is what its tree is printed as: the comma, the quotes and the brackets
\* are written back where they were read, however many members there are and
\* however deep they are nested (read by jsonroot.c:154-455, printed by
\* jsonroot.c:508-707).  Excepted are texts with something the tree does not
\* keep: spaces, escapes, a name that is found already, and numbers other than
\* integers of at most 15 digits with no sign or a minus in front, no leading
\* zero, no point and no exponent; -0 is one of those.
THEOREM TextIsPrintedBack == Spec => []PrintsWhatItRead
<1>1. DaemonInv => PrintsWhatItRead
  BY WrittenPrints DEF DaemonInv, ReaderInv
<1>2. QED BY <1>1, DaemonInit, DaemonStep, PTL DEF Spec

-----------------------------------------------------------------------------
(* The display.                                                            *)

\* What is asked of the tree is a node of it.
LEMMA GetNode ==
  ASSUME NEW t, node \in [0 .. t -> Record], Tree(node, t), NEW n \in 0 .. t, NEW k
  PROVE  Get(n, k) \in (0 .. t) \cup {NoNode}
<1> DEFINE h == node
           N == {<<k>>}
           p == <<<<k>>>>
<1>1. Descends(h, t)
  BY DEF Tree, Descends
<1>2. p \in Seq(N) /\ Len(p) >= 1
  OBVIOUS
<1>3. Get(n, k) = FindIn(h, n, p)
  BY DEF Get
<1>4. FindIn(h, n, p) \in {NoNode} \cup UNION {ToSet(h[c].kids) : c \in DOMAIN h}
  <2> HIDE DEF h, p, N
  <2>1. QED BY <1>1, <1>2, FindInKids
<1>5. \A c \in DOMAIN h : ToSet(h[c].kids) \subseteq 0 .. t
  BY SetOfSeq DEF Tree
<1>6. QED BY <1>3, <1>4, <1>5

\* A number that is asked for is one.
LEMMA IntOfType ==
  ASSUME NEW t, node \in [0 .. t -> Record], Tree(node, t), NEW n \in 0 .. t, NEW k
  PROVE  IntOf(n, k) \in Int
<1>1. Get(n, k) \in (0 .. t) \cup {NoNode}
  BY GetNode
<1>2. ASSUME NEW m \in 0 .. t PROVE Truncated(node[m].num) \in Int
  <2>1. node[m].num \in Number
    BY DEF Record
  <2>2. Magnitude(node[m].num) \in Nat
    BY <2>1, MagnitudeType
  <2>3. QED BY <2>2 DEF Truncated
<1>3. QED BY <1>1, <1>2 DEF IntOf

\* The functions that are enabled are nodes in a row.
LEMMA FunctionsType ==
  ASSUME NEW t, node \in [0 .. t -> Record], Tree(node, t), NEW n \in 0 .. t
  PROVE  Functions(n) \in Seq(Nat)
<1> DEFINE dir == Get(n, "functions")
           kids == node[dir].kids
           K == Len(kids)
           V == Seq(Nat)
           Step(s, k) == IF Enabled(kids[k]) THEN Append(s, kids[k]) ELSE s
           enabled[k \in 0 .. K] == IF k = 0 THEN <<>> ELSE Step(enabled[k - 1], k)
           F == [k \in 1 .. K |-> [s \in V |-> Step(s, k)]]
<1>1. dir \in (0 .. t) \cup {NoNode}
  BY GetNode
<1>2. CASE dir = NoNode
  BY <1>2 DEF Functions
<1>3. CASE dir # NoNode
  <2>1. kids \in Seq(Nat)
    BY <1>1, <1>3 DEF Record
  <2>2. Functions(n) = enabled[K]
    BY <1>3 DEF Functions
  <2> HIDE DEF kids
  <2>3. K \in Nat /\ <<>> \in V /\ \A k \in 1 .. K : kids[k] \in Nat
    BY <2>1
  <2>4. ASSUME NEW s \in V, NEW k \in 1 .. K PROVE Step(s, k) \in V
    BY <2>3
  <2>5. F \in [1 .. K -> [V -> V]] /\ \A k \in 1 .. K : \A s \in V : F[k][s] = Step(s, k)
    BY <2>4
  <2> HIDE DEF F, V, K, Step
  <2>6. PICK g \in [0 .. K -> V] : IsRecursive(g, K, <<>>, F)
    BY <2>3, <2>5, Recursion
  <2>7. g = [k \in 0 .. K |-> IF k = 0 THEN <<>> ELSE Step(g[k - 1], k)]
    <3>1. ASSUME NEW k \in 0 .. K PROVE g[k] = IF k = 0 THEN <<>> ELSE Step(g[k - 1], k)
      <4>1. CASE k = 0
        BY <4>1, <2>6 DEF IsRecursive
      <4>2. CASE k # 0
        <5>1. k \in 1 .. K /\ k - 1 \in 0 .. K
          BY <2>3, <4>2
        <5>2. QED BY <2>5, <2>6, <5>1, <4>2 DEF IsRecursive
      <4>3. QED BY <4>1, <4>2
    <3>2. QED BY <3>1
  <2>8. enabled = [k \in 0 .. K |-> IF k = 0 THEN <<>> ELSE Step(enabled[k - 1], k)]
    BY <2>7
  <2> HIDE DEF enabled
  <2>9. enabled \in [0 .. K -> V] /\ IsRecursive(enabled, K, <<>>, F)
    <3>1. enabled = [k \in 0 .. K |-> enabled[k]]
      BY <2>8
    <3>2. enabled[0] = <<>>
      BY <2>3, <2>8
    <3>3. ASSUME NEW k \in 1 .. K, enabled[k - 1] \in V PROVE enabled[k] = F[k][enabled[k - 1]]
      <4>1. k \in 0 .. K /\ k # 0
        OBVIOUS
      <4>2. QED BY <2>5, <2>8, <3>3, <4>1
    <3>4. Computes(enabled, K, V, <<>>, F)
      BY <3>1, <3>2, <3>3 DEF Computes
    <3>5. QED BY <2>3, <2>5, <3>4, RecursionType
  <2>10. K \in 0 .. K
    BY <2>3
  <2>11. enabled[K] \in V
    BY <2>9, <2>10
  <2>12. QED BY <2>2, <2>11 DEF V
<1>4. QED BY <1>2, <1>3

\* Before the first tick, and while the callback runs up to the writing.
Before == {"map", "read", "print", "display", "dotleds", "free", "construct", "publish", "start", "loop"}
Shows == {"open", "write", "exit"}
Words == {vf.raw[k] : k \in DOMAIN vf.raw}

\* The fields that count.
FieldsInv ==
  /\ DOMAIN vf = {"overlay", "grid", "raw", "digits", "displays", "map", "leds", "loop", "colon",
                  "nocolon", "sec", "str"}
  /\ vf.grid \in Int /\ vf.map \in Int /\ DOMAIN vf.raw = 0 .. vf.grid - 1
  /\ pc \notin Before => vf.grid >= 0
  /\ Len(vf.leds) \in Nat /\ DOMAIN vf.leds = 1 .. Len(vf.leds)
  /\ idx \in Nat \ {0}

\* The word the leds are in is there when the daemon is v.
MapIn(v) == v.map \in 0 .. v.grid - 1

\* Memory beside display_raw is only written if the grids are not as they should be.
WildInv ==
  /\ pc \in Before => ~ wild
  /\ vf.grid >= 4 /\ MapIn(vf) => ~ wild

\* The leds whose test succeeds when the daemon is v.
TestIn(v, k) == v.leds[k].test = "net" \/ (v.leds[k].test = "colon" /\ v.colon = k /\ v.nocolon)

\* What the led k may light, and what it lights in any case.
MayLight(v, k) == {<<"led", b>> : b \in UNION Shifted(v.leds[k].bit)}
Lights(v, k) == k \in DOMAIN v.leds /\ TestIn(v, k) /\ ~ v.leds[k].sysfile /\ v.leds[k].bit \in 0 .. 15

\* What those before the k-th have made of the word w of their grid.
LitBefore(v, w, k) ==
  /\ \A j \in 1 .. k - 1 : Lights(v, j) => <<"led", v.leds[j].bit>> \in w
  /\ \A x \in w : \E j \in 1 .. k - 1 : TestIn(v, j) /\ x \in MayLight(v, j)

\* display_raw, step by step: empty, then with leds, then with the word.
Unlit(v) == \A k \in 0 .. v.grid - 1 : k # v.map => v.raw[k] = {}
Worded(v) ==
  /\ \A k \in 0 .. 3 : v.raw[k] = GlyphOf(Word[4 - k])
  /\ \A k \in 4 .. v.grid - 1 : k # v.map => v.raw[k] = {}
  /\ v.map >= 4 => LitBefore(v, v.raw[v.map], Len(v.leds) + 1)
RawFor(v, where, i) ==
  v.grid >= 4 /\ MapIn(v) =>
    /\ where \in {"displays", "dup"} => Unlit(v) /\ v.raw[v.map] = {}
    /\ where = "leds" => i <= Len(v.leds) + 1 /\ Unlit(v) /\ LitBefore(v, v.raw[v.map], i)
    /\ where = "update" => Unlit(v) /\ LitBefore(v, v.raw[v.map], Len(v.leds) + 1)
    /\ where \in Shows => Worded(v)

RawInv == RawFor(vf, pc, idx)

\* A beginning of display_raw.
Beginning(s) ==
  s \in Seq(Words) /\ Len(s) <= vf.grid /\ \A k \in 1 .. Len(s) : s[k] = vf.raw[k - 1]

\* What has been written is one; all of it is when the file was closed.
FileInv ==
  /\ pc # "write" => stream = Closed
  /\ pc = "write" => Beginning(stream)
  /\ file = <<>> \/ (pc \in {"write", "exit"} /\ Beginning(file))
  /\ ended \notin {"no", "exit"} \/ file = <<>> \/ (pc = "exit" /\ Len(file) = vf.grid)

OverlayInv == FieldsInv /\ WildInv /\ RawInv /\ FileInv

\* It is what the property asks for.
LEMMA OverlayIsShown == OverlayInv => OverlayShowsWord
<1> SUFFICES ASSUME OverlayInv, vf.grid >= 4, MapIn(vf)
             PROVE  /\ ~ wild
                    /\ \A k \in 1 .. Len(file) :
                         IF k <= 4 THEN Word[5 - k] \in GlyphCodes => file[k] = {<<"glyph", Word[5 - k]>>}
                         ELSE IF k = vf.map + 1 THEN SurelyLit \subseteq file[k] /\ file[k] \subseteq MayBeLit
                         ELSE file[k] = {}
                    /\ ended = "exit" /\ file # <<>> => Len(file) = vf.grid
  BY DEF OverlayShowsWord, MapInside, MapIn
<1> USE DEF OverlayInv
<1>1. ~ wild
  BY DEF WildInv
<1>2. ended = "exit" /\ file # <<>> => Len(file) = vf.grid
  BY DEF FileInv
<1>3. ASSUME NEW k \in 1 .. Len(file)
      PROVE  IF k <= 4 THEN Word[5 - k] \in GlyphCodes => file[k] = {<<"glyph", Word[5 - k]>>}
             ELSE IF k = vf.map + 1 THEN SurelyLit \subseteq file[k] /\ file[k] \subseteq MayBeLit
             ELSE file[k] = {}
  <2>1. file # <<>>
    OBVIOUS
  <2>2. pc \in Shows /\ Beginning(file)
    BY <2>1 DEF FileInv, Shows
  <2>3. file[k] = vf.raw[k - 1] /\ k - 1 \in 0 .. vf.grid - 1 /\ k \in Nat /\ vf.grid \in Int /\ vf.map \in Int
    BY <2>2 DEF Beginning, FieldsInv
  <2>4. Worded(vf)
    BY <2>2 DEF RawInv, RawFor
  <2>5. CASE k <= 4
    <3>1. k - 1 \in 0 .. 3 /\ 4 - (k - 1) = 5 - k
      BY <2>3, <2>5
    <3>2. file[k] = GlyphOf(Word[5 - k])
      BY <2>3, <2>4, <3>1 DEF Worded
    <3>3. QED BY <2>5, <3>2 DEF GlyphOf
  <2>6. CASE ~ (k <= 4) /\ k = vf.map + 1
    <3>1. vf.map >= 4 /\ k - 1 = vf.map
      BY <2>3, <2>6
    <3>2. LitBefore(vf, file[k], Len(vf.leds) + 1)
      BY <2>3, <2>4, <3>1 DEF Worded
    <3>3. /\ (Len(vf.leds) + 1) - 1 = Len(vf.leds) /\ DOMAIN vf.leds = 1 .. Len(vf.leds)
      BY DEF FieldsInv
    <3>4. SurelyLit \subseteq file[k] /\ file[k] \subseteq MayBeLit
      <4>1. \A j : TestOf(j) <=> TestIn(vf, j)
        BY DEF TestOf, TestIn
      <4>2. \A j \in DOMAIN vf.leds : Lights(vf, j) => <<"led", vf.leds[j].bit>> \in file[k]
        BY <3>2, <3>3 DEF LitBefore
      <4>3. \A x \in file[k] : \E j \in DOMAIN vf.leds : TestIn(vf, j) /\ x \in MayLight(vf, j)
        BY <3>2, <3>3 DEF LitBefore
      <4>4. SurelyLit \subseteq file[k]
        BY <4>1, <4>2 DEF SurelyLit, LitLeds, Lights
      <4>5. file[k] \subseteq MayBeLit
        BY <4>1, <4>3 DEF MayBeLit, LitLeds, MayLight
      <4>6. QED BY <4>4, <4>5
    <3>5. QED BY <2>6, <3>4
  <2>7. CASE ~ (k <= 4) /\ k # vf.map + 1
    <3>1. k - 1 \in 4 .. vf.grid - 1 /\ k - 1 # vf.map
      BY <2>3, <2>7
    <3>2. QED BY <2>3, <2>4, <2>7, <3>1 DEF Worded
  <2>8. QED BY <2>5, <2>6, <2>7
<1>4. QED BY <1>1, <1>2, <1>3

\* At the start no display is known.
LEMMA OverlayInit == Init => OverlayInv
<1> SUFFICES ASSUME Init PROVE OverlayInv
  OBVIOUS
<1>1. vf = [overlay |-> FALSE, grid |-> 0, raw |-> <<>>, digits |-> 0, displays |-> <<>>, map |-> 0,
            leds |-> <<>>, loop |-> FALSE, colon |-> 0, nocolon |-> FALSE, sec |-> 0, str |-> "null"]
      /\ idx = 1 /\ pc = "map" /\ wild = FALSE /\ stream = Closed /\ file = <<>>
  BY DEF Init
<1>2. FieldsInv
  BY <1>1 DEF FieldsInv
<1>3. WildInv /\ FileInv
  BY <1>1 DEF WildInv, FileInv
<1>4. RawInv
  BY <1>1 DEF RawInv, RawFor
<1>5. QED BY <1>2, <1>3, <1>4 DEF OverlayInv

\* The others leave the display alone.
LEMMA OthersKeepDisplay ==
  ASSUME OverlayInv, UNCHANGED <<pc, idx, vf, wild, stream, file>>, ended' = ended \/ ended = "no"
  PROVE  OverlayInv'
<1>1. FieldsInv' /\ WildInv' /\ RawInv'
  BY DEF OverlayInv, FieldsInv, WildInv, RawInv
<1>2. FileInv'
  <2>1. UNCHANGED Words
    BY DEF Words
  <2>2. UNCHANGED Beginning(stream) /\ UNCHANGED Beginning(file)
    BY <2>1 DEF Beginning
  <2>3. QED BY <2>2 DEF OverlayInv, FileInv
<1>3. QED BY <1>1, <1>2 DEF OverlayInv

\* Before the first tick only the fields matter.
LEMMA BeforeTick ==
  ASSUME OverlayInv, pc \in Before, pc' \in Before, UNCHANGED <<idx, wild, stream, file, ended>>, ended = "no",
         vf' = vf \/ FieldsInv'
  PROVE  OverlayInv'
<1>1. FieldsInv'
  BY DEF OverlayInv, FieldsInv
<1>2. WildInv'
  BY DEF OverlayInv, WildInv
<1>3. RawInv'
  BY DEF RawInv, RawFor, Before, Shows
<1>4. FileInv'
  BY DEF OverlayInv, FileInv, Before
<1>5. QED BY <1>1, <1>2, <1>3, <1>4 DEF OverlayInv

\* The steps that set up the daemon.
LEMMA SetUpStep ==
  ASSUME OverlayInv, DaemonInv,
         \/ MapConf \/ ReadConf \/ ReadReturns \/ PrintTree \/ ReadDisplay \/ ReadDotleds \/ FreeTree
         \/ Construct \/ Publish \/ Start
  PROVE  OverlayInv'
<1> USE DEF At, Running, Goto
<1>1. CASE MapConf
  BY <1>1, BeforeTick, OthersKeepDisplay DEF MapConf, Exit, mainvars, Before
<1>2. CASE ReadConf
  BY <1>2, OthersKeepDisplay DEF ReadConf, mainvars
<1>3. CASE ReadReturns
  BY <1>3, BeforeTick, OthersKeepDisplay DEF ReadReturns, Exit, Fault, mainvars, Before
<1>4. CASE PrintTree
  BY <1>4, BeforeTick DEF PrintTree, Before
<1>5. CASE FreeTree
  BY <1>5, BeforeTick DEF FreeTree, Before
<1>6. CASE Publish
  BY <1>6, BeforeTick DEF Publish, Before
<1>7. CASE Construct
  <2> DEFINE c == LET named == {k \in DOMAIN vf.leds : vf.leds[k].name = <<"colon">>}
                  IN  IF named = {} THEN 0 ELSE CHOOSE k \in named : \A j \in named : k <= j
  <2>1. vf' = [vf EXCEPT !.loop = TRUE, !.colon = c]
    BY <1>7 DEF Construct
  <2> HIDE DEF c
  <2>2. FieldsInv'
    BY <1>7, <2>1 DEF OverlayInv, FieldsInv, Construct, Before
  <2>3. QED BY <1>7, <2>2, BeforeTick DEF Construct, Before
<1>8. CASE Start
  <2>1. FieldsInv'
    BY <1>8 DEF OverlayInv, FieldsInv, Start, Before
  <2>2. QED BY <1>8, <2>1, BeforeTick DEF Start, Before
<1>9. ASSUME pc \in {"display", "dotleds"}
      PROVE  \E t \in Nat : node \in [0 .. t -> Record] /\ Tree(node, t) /\ Root \in 0 .. t
  <2>1. at = "parsed" /\ ShapeInv
    BY <1>9 DEF DaemonInv, ReaderInv
  <2>2. PICK t \in Nat : TreeInv(t)
    BY <2>1 DEF ShapeInv, Fine
  <2>3. QED BY <2>1, <2>2 DEF TreeInv, KeyStates, Root
<1>10. CASE ReadDisplay
  <2> DEFINE d == Get(Root, "display")
             n == IntOf(d, "grid_num")
             K == Len(Functions(d))
  <2>1. CASE UNCHANGED <<pc, vf>>
    BY <1>10, <2>1, OthersKeepDisplay DEF ReadDisplay, Fault, Exit, mainvars
  <2>2. CASE d = NoNode
    BY <1>10, <2>2, BeforeTick DEF ReadDisplay, Before
  <2>3. CASE /\ d # NoNode /\ pc' = "dotleds"
             /\ vf' = [vf EXCEPT
                         !.overlay = StringAt(d, "sysfile") # NoString,
                         !.grid = n,
                         !.raw = [k \in 0 .. n - 1 |-> {}],
                         !.digits = ElementsOf(d, "digit_map"),
                         !.displays = [k \in 1 .. K |-> DisplayOf(Functions(d)[k])]]
             /\ UNCHANGED <<idx, wild, stream, file, ended>>
    <3>1. PICK t \in Nat : node \in [0 .. t -> Record] /\ Tree(node, t) /\ Root \in 0 .. t
      BY <1>9, <1>10 DEF ReadDisplay
    <3>2. d \in 0 .. t
      BY <2>3, <3>1, GetNode
    <3>3. n \in Int
      BY <3>1, <3>2, IntOfType
    <3> HIDE DEF n, d, K
    <3>4. FieldsInv'
      BY <2>3, <3>3 DEF OverlayInv, FieldsInv, Before
    <3>5. QED BY <1>10, <2>3, <3>4, BeforeTick DEF ReadDisplay, Before
  <2>4. QED
    <3>1. CASE d = NoNode
      BY <2>2, <3>1
    <3>2. CASE d # NoNode
      BY <1>10, <2>1, <2>3, <3>2 DEF ReadDisplay, Fault, Exit, mainvars
    <3>3. QED BY <3>1, <3>2
<1>11. CASE ReadDotleds
  <2> DEFINE d == Get(Root, "dotleds")
             n == IntOf(d, "grid_map")
             K == Len(Functions(d))
             leds == [k \in 1 .. K |-> LedOf(Functions(d)[k])]
  <2>1. CASE UNCHANGED <<pc, vf>>
    BY <1>11, <2>1, OthersKeepDisplay DEF ReadDotleds, Fault, mainvars
  <2>2. CASE /\ d # NoNode /\ pc' = "free"
             /\ vf' = [vf EXCEPT !.map = n, !.leds = leds]
             /\ UNCHANGED <<idx, wild, stream, file, ended>>
    <3>1. PICK t \in Nat : node \in [0 .. t -> Record] /\ Tree(node, t) /\ Root \in 0 .. t
      BY <1>9, <1>11 DEF ReadDotleds
    <3>2. d \in 0 .. t
      BY <2>2, <3>1, GetNode
    <3>3. n \in Int
      BY <3>1, <3>2, IntOfType
    <3>4. K \in Nat
      <4>1. Functions(d) \in Seq(Nat)
        BY <3>1, <3>2, FunctionsType
      <4>2. QED BY <4>1
    <3> HIDE DEF K
    <3>5. Len(leds) \in Nat /\ DOMAIN leds = 1 .. Len(leds)
      BY <3>4
    <3> HIDE DEF n, d, leds
    <3>6. FieldsInv'
      BY <2>2, <3>3, <3>5 DEF OverlayInv, FieldsInv, Before
    <3>7. QED BY <1>11, <2>2, <3>6, BeforeTick DEF ReadDotleds, Before
  <2>3. CASE d = NoNode /\ pc' = "free" /\ vf' = vf /\ UNCHANGED <<idx, wild, stream, file, ended>>
    BY <1>11, <2>3, BeforeTick DEF ReadDotleds, Before
  <2>4. QED
    BY <1>11, <2>1, <2>2, <2>3 DEF ReadDotleds, Fault, mainvars
<1>12. QED BY <1>1, <1>2, <1>3, <1>4, <1>5, <1>6, <1>7, <1>8, <1>10, <1>11

\* What the leds light depends on them alone.
LEMMA SameLeds ==
  ASSUME NEW v, NEW u, u.leds = v.leds, u.colon = v.colon, u.nocolon = v.nocolon, NEW w, NEW k, LitBefore(v, w, k)
  PROVE  LitBefore(u, w, k)
  BY DEF LitBefore, Lights, MayLight, TestIn

\* A led that is not lit, and one that is.
LEMMA OneMoreLed ==
  ASSUME NEW v, NEW k \in Nat \ {0}, k \in DOMAIN v.leds, NEW w, LitBefore(v, w, k),
         NEW x, \/ v.leds[k].sysfile /\ x = w
                \/ ~ TestIn(v, k) /\ x = w
                \/ TestIn(v, k) /\ \E bits \in Shifted(v.leds[k].bit) : x = w \cup {<<"led", b>> : b \in bits}
  PROVE  LitBefore(v, x, k + 1)
<1>1. (k + 1) - 1 = k /\ \A j : j \in 1 .. k <=> (j \in 1 .. k - 1 \/ j = k)
  OBVIOUS
<1>2. w \subseteq x /\ \A y \in x \ w : TestIn(v, k) /\ y \in MayLight(v, k)
  BY DEF MayLight
<1>3. Lights(v, k) => <<"led", v.leds[k].bit>> \in x
  <2> SUFFICES ASSUME Lights(v, k) PROVE <<"led", v.leds[k].bit>> \in x
    OBVIOUS
  <2> DEFINE n == v.leds[k].bit
  <2>1. n \in 0 .. 15
    BY DEF Lights
  <2> HIDE DEF n
  <2>2. \A bits \in Shifted(n) : n \in bits
    <3>1. Shifted(n) = {{n} \cap (0 .. 15)}
      BY <2>1 DEF Shifted
    <3>2. QED BY <2>1, <3>1
  <2>3. PICK bits \in Shifted(n) : x = w \cup {<<"led", b>> : b \in bits}
    BY DEF Lights, n
  <2>4. QED BY <2>2, <2>3 DEF n
<1>4. \A j \in 1 .. k : Lights(v, j) => <<"led", v.leds[j].bit>> \in x
  BY <1>1, <1>2, <1>3 DEF LitBefore
<1>5. \A y \in x : \E j \in 1 .. k : TestIn(v, j) /\ y \in MayLight(v, j)
  BY <1>1, <1>2 DEF LitBefore
<1>6. QED BY <1>1, <1>4, <1>5 DEF LitBefore

\* The display functions do not touch display_raw.
LEMMA DisplaysStep ==
  ASSUME OverlayInv, Tick \/ Display \/ DisplayDup
  PROVE  OverlayInv'
<1> USE DEF At, Running, Goto
<1>1. CASE Tick
  <2>1. CASE UNCHANGED <<pc, idx, vf, wild, stream, file>>
    BY <1>1, <2>1, OthersKeepDisplay DEF Tick
  <2>2. ASSUME NEW z, vf' = [vf EXCEPT !.raw = [k \in DOMAIN @ |-> {}], !.sec = z], vf.grid >= 0,
               pc' = "displays", idx' = 1, UNCHANGED <<wild, stream, file, ended>>
        PROVE  OverlayInv'
    <3>1. FieldsInv'
      BY <2>2 DEF OverlayInv, FieldsInv
    <3>2. /\ vf'.grid = vf.grid /\ vf'.map = vf.map /\ vf.map \in Int /\ vf.grid \in Int
          /\ \A k \in 0 .. vf.grid - 1 : vf'.raw[k] = {}
      BY <2>2 DEF OverlayInv, FieldsInv
    <3>3. RawInv'
      BY <2>2, <3>2 DEF RawInv, RawFor, Shows, Unlit, MapIn
    <3>4. WildInv' /\ FileInv'
      BY <1>1, <2>2, <3>2 DEF Tick, OverlayInv, WildInv, FileInv, Before, MapIn
    <3>5. QED BY <3>1, <3>3, <3>4 DEF OverlayInv
  <2>3. QED BY <1>1, <2>1, <2>2 DEF Tick, Fault, mainvars
<1>2. ASSUME pc \in {"displays", "dup"}, pc' \in {"displays", "dup"}, idx' \in {idx, idx + 1},
             UNCHANGED <<wild, stream, file, ended>>, ended = "no", NEW s, vf' \in {vf, [vf EXCEPT !.str = s]}
      PROVE  OverlayInv'
  <2>1. FieldsInv'
    BY <1>2 DEF OverlayInv, FieldsInv, Before
  <2>2. vf'.grid = vf.grid /\ vf'.map = vf.map /\ vf'.raw = vf.raw
    BY <1>2 DEF OverlayInv, FieldsInv
  <2>3. RawInv'
    BY <1>2, <2>2 DEF OverlayInv, RawInv, RawFor, MapIn, Unlit, Shows
  <2>4. WildInv' /\ FileInv'
    BY <1>2, <2>2 DEF OverlayInv, WildInv, MapIn, FileInv, Before
  <2>5. QED BY <2>1, <2>3, <2>4 DEF OverlayInv
<1>3. CASE Display
  <2>1. CASE pc' = "leds" /\ idx' = 1 /\ UNCHANGED <<vf, wild, stream, file, ended>> /\ pc = "displays"
    <3>1. FieldsInv' /\ WildInv' /\ FileInv'
      BY <1>3, <2>1 DEF Display, OverlayInv, FieldsInv, WildInv, FileInv, Before
    <3>2. LitBefore(vf, {}, 1)
      <4>1. 1 .. 1 - 1 = {}
        OBVIOUS
      <4>2. QED BY <4>1 DEF LitBefore
    <3>3. Len(vf.leds) \in Nat
      BY DEF OverlayInv, FieldsInv
    <3>4. ASSUME vf.grid >= 4, MapIn(vf) PROVE Unlit(vf) /\ LitBefore(vf, vf.raw[vf.map], 1)
      <4>1. Unlit(vf) /\ vf.raw[vf.map] = {}
        BY <2>1, <3>4 DEF OverlayInv, RawInv, RawFor
      <4>2. QED BY <3>2, <4>1
    <3>5. RawFor(vf, "leds", 1)
      BY <3>3, <3>4 DEF RawFor, Shows
    <3>6. RawInv'
      BY <2>1, <3>5 DEF RawInv
    <3>7. QED BY <3>1, <3>6 DEF OverlayInv
  <2>2. CASE UNCHANGED <<pc, idx, vf, wild, stream, file>>
    BY <1>3, <2>2, OthersKeepDisplay DEF Display
  <2>3. CASE pc' = "displays" /\ idx' = idx + 1 /\ UNCHANGED <<vf, wild, stream, file, ended>>
    BY <1>2, <1>3, <2>3 DEF Display
  <2>4. CASE /\ pc' = "dup" /\ UNCHANGED <<idx, wild, stream, file, ended>>
             /\ vf' = [vf EXCEPT !.str = IF @ = "null" THEN @ ELSE "freed"]
    <3>1. \E s : vf' = [vf EXCEPT !.str = s]
      BY <2>4
    <3>2. QED BY <1>2, <1>3, <2>4, <3>1 DEF Display
  <2>5. QED BY <1>3, <2>1, <2>2, <2>3, <2>4 DEF Display, Fault, mainvars
<1>4. CASE DisplayDup
  BY <1>2, <1>4 DEF DisplayDup
<1>5. QED BY <1>1, <1>3, <1>4

\* Each led in its turn is lit if its test says so.
LEMMA LedStep ==
  ASSUME OverlayInv, DotLed
  PROVE  OverlayInv'
<1> USE DEF At, Running, Goto
<1>1. /\ pc = "leds" /\ ended = "no" /\ idx \in Nat \ {0} /\ Len(vf.leds) \in Nat
      /\ DOMAIN vf.leds = 1 .. Len(vf.leds) /\ vf.grid \in Int /\ vf.map \in Int
      /\ DOMAIN vf.raw = 0 .. vf.grid - 1
  BY DEF DotLed, OverlayInv, FieldsInv
<1>2. CASE UNCHANGED <<pc, idx, vf, wild, stream, file>>
  BY <1>1, <1>2, OthersKeepDisplay
<1>3. CASE /\ idx > Len(vf.leds) /\ pc' = "update" /\ idx' = 1
           /\ UNCHANGED <<vf, wild, stream, file, ended>>
  <2>1. FieldsInv' /\ WildInv' /\ FileInv'
    BY <1>1, <1>3 DEF OverlayInv, FieldsInv, WildInv, FileInv, Before
  <2>2. idx <= Len(vf.leds) + 1 => idx = Len(vf.leds) + 1
    BY <1>1, <1>3
  <2>3. RawInv'
    BY <1>1, <1>3, <2>2 DEF OverlayInv, RawInv, RawFor, Shows
  <2>4. QED BY <2>1, <2>3 DEF OverlayInv
<1>4. ASSUME idx <= Len(vf.leds), idx' = idx + 1, pc' = pc, UNCHANGED <<stream, file, ended>>,
             \/ vf.leds[idx].sysfile /\ UNCHANGED <<vf, wild>>
             \/ Light(idx)
      PROVE  OverlayInv'
  <2>1. idx \in DOMAIN vf.leds
    BY <1>1, <1>4
  <2>2. /\ TestOf(idx) <=> TestIn(vf, idx)
        /\ MapInside <=> MapIn(vf)
    BY DEF TestOf, TestIn, MapInside, MapIn
  <2>3. \/ vf' = vf /\ UNCHANGED wild /\ (vf.leds[idx].sysfile \/ ~ TestIn(vf, idx))
        \/ /\ TestIn(vf, idx) /\ MapIn(vf) /\ UNCHANGED wild
           /\ \E bits \in Shifted(vf.leds[idx].bit) :
                vf' = [vf EXCEPT !.raw[vf.map] = @ \cup {<<"led", b>> : b \in bits}]
        \/ vf' = vf /\ ~ MapIn(vf)
    BY <1>4, <2>2 DEF Light
  <2>4. CASE vf' = vf /\ UNCHANGED wild /\ (vf.leds[idx].sysfile \/ ~ TestIn(vf, idx))
    <3>1. FieldsInv' /\ WildInv' /\ FileInv'
      BY <1>1, <1>4, <2>4 DEF OverlayInv, FieldsInv, WildInv, FileInv, Before
    <3>2. ASSUME vf.grid >= 4, MapIn(vf) PROVE LitBefore(vf, vf.raw[vf.map], idx + 1)
      <4>1. LitBefore(vf, vf.raw[vf.map], idx)
        BY <1>1, <3>2 DEF OverlayInv, RawInv, RawFor
      <4>2. QED BY <1>1, <2>1, <2>4, <4>1, OneMoreLed
    <3>3. idx + 1 <= Len(vf.leds) + 1
      BY <1>1, <1>4
    <3>4. RawInv'
      BY <1>1, <1>4, <2>4, <3>2, <3>3 DEF OverlayInv, RawInv, RawFor, Shows
    <3>5. QED BY <3>1, <3>4 DEF OverlayInv
  <2>5. ASSUME TestIn(vf, idx), MapIn(vf), UNCHANGED wild, NEW bits \in Shifted(vf.leds[idx].bit),
               vf' = [vf EXCEPT !.raw[vf.map] = @ \cup {<<"led", b>> : b \in bits}]
        PROVE  OverlayInv'
    <3> DEFINE x == vf.raw[vf.map] \cup {<<"led", b>> : b \in bits}
               raw == [vf.raw EXCEPT ![vf.map] = x]
    <3>0. vf' = [vf EXCEPT !.raw = raw]
      BY <2>5
    <3> HIDE DEF x
    <3>1. DOMAIN raw = 0 .. vf.grid - 1 /\ raw[vf.map] = x /\ \A k \in 0 .. vf.grid - 1 : k # vf.map => raw[k] = vf.raw[k]
      BY <1>1, <2>5 DEF MapIn
    <3> HIDE DEF raw
    <3>2. /\ DOMAIN vf' = DOMAIN vf /\ vf'.raw = raw /\ vf'.leds = vf.leds /\ vf'.colon = vf.colon
          /\ vf'.nocolon = vf.nocolon /\ vf'.grid = vf.grid /\ vf'.map = vf.map
      BY <3>0 DEF OverlayInv, FieldsInv
    <3>3. FieldsInv'
      BY <1>1, <1>4, <3>1, <3>2 DEF OverlayInv, FieldsInv
    <3>4. WildInv' /\ FileInv'
      BY <1>1, <1>4, <2>5, <3>2 DEF OverlayInv, WildInv, FileInv, Before, MapIn
    <3>5. ASSUME vf.grid >= 4 PROVE LitBefore(vf', x, idx + 1) /\ Unlit(vf')
      <4>1. LitBefore(vf, vf.raw[vf.map], idx) /\ Unlit(vf)
        BY <1>1, <2>5, <3>5 DEF OverlayInv, RawInv, RawFor
      <4>2. LitBefore(vf, x, idx + 1)
        BY <1>1, <2>1, <2>5, <4>1, OneMoreLed DEF x
      <4>3. LitBefore(vf', x, idx + 1)
        BY <3>2, <4>2, SameLeds
      <4>4. Unlit(vf')
        BY <3>1, <3>2, <4>1 DEF Unlit
      <4>5. QED BY <4>3, <4>4
    <3>6. idx + 1 <= Len(vf.leds) + 1
      BY <1>1, <1>4
    <3>7. RawInv'
      BY <1>1, <1>4, <3>1, <3>2, <3>5, <3>6 DEF RawInv, RawFor, Shows
    <3>8. QED BY <3>3, <3>4, <3>7 DEF OverlayInv
  <2>6. CASE vf' = vf /\ ~ MapIn(vf)
    <3>1. FieldsInv' /\ WildInv' /\ FileInv' /\ RawInv'
      BY <1>1, <1>4, <2>6 DEF OverlayInv, FieldsInv, WildInv, FileInv, Before, RawInv, RawFor
    <3>2. QED BY <3>1 DEF OverlayInv
  <2>7. QED BY <2>3, <2>4, <2>5, <2>6
<1>5. QED
  BY <1>1, <1>2, <1>3, <1>4 DEF DotLed, Fault, mainvars

\* The word is put over the first four grids.
LEMMA UpdateStep ==
  ASSUME OverlayInv, UpdateDisplay
  PROVE  OverlayInv'
<1> USE DEF At, Running, Goto
<1>1. CASE Fault
  BY <1>1, OthersKeepDisplay DEF UpdateDisplay, Fault, mainvars
<1>2. ASSUME NEW raw, raw = [k \in DOMAIN vf.raw |-> IF k <= 3 THEN GlyphOf(Word[4 - k]) ELSE vf.raw[k]],
             vf' = [vf EXCEPT !.raw = raw],
             wild' = (wild \/ vf.grid < 4), pc' = "open", UNCHANGED <<idx, stream, file, ended>>
      PROVE  OverlayInv'
  <2>1. /\ DOMAIN vf' = DOMAIN vf /\ vf'.raw = raw /\ vf'.leds = vf.leds /\ vf'.colon = vf.colon
        /\ vf'.nocolon = vf.nocolon /\ vf'.grid = vf.grid /\ vf'.map = vf.map
    BY <1>2 DEF OverlayInv, FieldsInv
  <2>2. /\ pc = "update" /\ ended = "no" /\ vf.grid \in Int /\ vf.map \in Int
        /\ DOMAIN vf.raw = 0 .. vf.grid - 1
    BY DEF UpdateDisplay, OverlayInv, FieldsInv
  <2>3. DOMAIN raw = 0 .. vf.grid - 1
    BY <1>2, <2>2
  <2>4. FieldsInv'
    BY <1>2, <2>1, <2>2, <2>3 DEF OverlayInv, FieldsInv, Before
  <2>5. WildInv' /\ FileInv'
    <3>1. FileInv'
      BY <1>2, <2>2 DEF OverlayInv, FileInv
    <3>2. pc' \notin Before
      BY <1>2 DEF Before
    <3>3. vf'.grid >= 4 /\ MapIn(vf') => ~ wild'
      <4>1. SUFFICES ASSUME vf.grid >= 4, MapIn(vf) PROVE ~ wild'
        BY <2>1 DEF MapIn
      <4>2. ~ wild
        BY <4>1 DEF OverlayInv, WildInv
      <4>3. ~ (vf.grid < 4)
        BY <2>2, <4>1
      <4>4. QED BY <1>2, <4>2, <4>3, Zenon
    <3>4. QED BY <3>1, <3>2, <3>3 DEF WildInv
  <2>6. ASSUME vf.grid >= 4, MapIn(vf) PROVE Worded(vf')
    <3>1. Unlit(vf) /\ LitBefore(vf, vf.raw[vf.map], Len(vf.leds) + 1)
      BY <2>2, <2>6 DEF OverlayInv, RawInv, RawFor
    <3>2. \A k \in 0 .. 3 : raw[k] = GlyphOf(Word[4 - k])
      BY <1>2, <2>2, <2>6
    <3>3. \A k \in 4 .. vf.grid - 1 : raw[k] = vf.raw[k]
      BY <1>2, <2>2
    <3>4. \A k \in 4 .. vf.grid - 1 : k # vf.map => raw[k] = {}
      BY <2>2, <3>1, <3>3 DEF Unlit
    <3>5. ASSUME vf.map >= 4 PROVE LitBefore(vf', raw[vf.map], Len(vf.leds) + 1)
      <4>1. raw[vf.map] = vf.raw[vf.map]
        BY <2>2, <2>6, <3>3, <3>5 DEF MapIn
      <4>2. LitBefore(vf, raw[vf.map], Len(vf.leds) + 1)
        BY <3>1, <4>1
      <4>3. QED BY <2>1, <4>2, SameLeds
    <3>6. QED BY <2>1, <3>2, <3>4, <3>5 DEF Worded
  <2>7. RawInv'
    BY <1>2, <2>1, <2>6 DEF RawInv, RawFor, MapIn, Shows
  <2>8. QED BY <2>4, <2>5, <2>7 DEF OverlayInv
<1>3. QED BY <1>1, <1>2 DEF UpdateDisplay

\* The words go to the file in their order.
LEMMA StoreStep ==
  ASSUME OverlayInv, OpenOverlay \/ WriteWord \/ Leave
  PROVE  OverlayInv'
<1> USE DEF At, Running, Goto
<1>1. /\ UNCHANGED <<vf, idx, wild>> /\ ended = "no" /\ {pc, pc'} \subseteq {"open", "write", "exit"}
      /\ vf.grid \in Nat /\ DOMAIN vf.raw = 0 .. vf.grid - 1
  BY DEF OpenOverlay, WriteWord, Leave, Exit, mainvars, OverlayInv, FieldsInv, Before
<1>2. FieldsInv' /\ WildInv' /\ RawInv' /\ UNCHANGED Words
  BY <1>1 DEF OverlayInv, FieldsInv, WildInv, RawInv, RawFor, Before, Shows, Words
<1>3. \A s : Beginning(s) => Beginning(s)'
  BY <1>1, <1>2 DEF Beginning
<1>4. CASE OpenOverlay
  <2>1. Beginning(<<>>)
    BY <1>1, EmptySeq DEF Beginning
  <2>2. file = <<>>
    BY <1>1, <1>4 DEF OpenOverlay, OverlayInv, FileInv
  <2>3. FileInv'
    BY <1>1, <1>3, <1>4, <2>1, <2>2 DEF OpenOverlay, OverlayInv, FileInv
  <2>4. QED BY <1>2, <2>3 DEF OverlayInv
<1>5. CASE WriteWord
  <2>1. Beginning(stream) /\ file = <<>> /\ pc = "write"
    BY <1>1, <1>5 DEF WriteWord, OverlayInv, FileInv
  <2>2. CASE Len(stream) < vf.grid /\ stream' = Append(stream, vf.raw[Len(stream)]) /\ UNCHANGED <<pc, file>>
    <3>1. stream \in Seq(Words) /\ Len(stream) \in Nat /\ Len(stream) \in DOMAIN vf.raw
      BY <1>1, <2>1, <2>2 DEF Beginning
    <3>2. vf.raw[Len(stream)] \in Words
      BY <3>1 DEF Words
    <3>3. /\ stream' \in Seq(Words) /\ Len(stream') = Len(stream) + 1
          /\ \A k \in 1 .. Len(stream) : stream'[k] = stream[k]
          /\ stream'[Len(stream) + 1] = vf.raw[Len(stream)]
      BY <2>2, <3>1, <3>2
    <3>4. \A k \in 1 .. Len(stream') : k \in 1 .. Len(stream) \/ k = Len(stream) + 1
      BY <3>1, <3>3
    <3>5. (Len(stream) + 1) - 1 = Len(stream) /\ Len(stream) + 1 <= vf.grid
      BY <1>1, <2>2, <3>1
    <3>6. \A k \in 1 .. Len(stream') : stream'[k] = vf.raw[k - 1]
      BY <2>1, <3>3, <3>4, <3>5 DEF Beginning
    <3>7. Beginning(stream')
      BY <3>3, <3>5, <3>6 DEF Beginning
    <3>8. Beginning(stream)'
      BY <1>1, <1>2, <3>7 DEF Beginning
    <3>9. FileInv'
      BY <1>1, <1>5, <2>1, <2>2, <3>8 DEF WriteWord, FileInv
    <3>10. QED BY <1>2, <3>9 DEF OverlayInv
  <2>3. CASE ~ (Len(stream) < vf.grid) /\ stream' = Closed /\ file' = stream /\ pc' = "exit"
    <3>1. Len(stream) = vf.grid
      BY <1>1, <2>1, <2>3 DEF Beginning
    <3>2. Beginning(file)'
      BY <1>1, <1>2, <2>1, <2>3 DEF Beginning
    <3>3. FileInv'
      BY <1>1, <1>5, <2>3, <3>1, <3>2 DEF WriteWord, FileInv
    <3>4. QED BY <1>2, <3>3 DEF OverlayInv
  <2>4. QED BY <1>5, <2>2, <2>3 DEF WriteWord
<1>6. CASE Leave
  BY <1>6, OthersKeepDisplay DEF Leave, Exit, mainvars
<1>7. QED BY <1>4, <1>5, <1>6

\* A handler that ends the program writes what is in the buffer of the file.
LEMMA HandlerLeaves ==
  ASSUME OverlayInv, HandlerExit
  PROVE  OverlayInv'
<1>1. UNCHANGED <<pc, idx, vf, wild, stream>> /\ ended' = "killed"
      /\ file' = IF stream = Closed THEN file ELSE stream
  BY DEF HandlerExit
<1>2. FieldsInv' /\ WildInv' /\ RawInv' /\ UNCHANGED Words
  BY <1>1 DEF OverlayInv, FieldsInv, WildInv, RawInv, Words
<1>3. Beginning(stream)' = Beginning(stream)
  BY <1>1, <1>2 DEF Beginning
<1>4. CASE stream = Closed
  <2>1. Beginning(file)' = Beginning(file) /\ file' = file
    BY <1>1, <1>2, <1>4 DEF Beginning
  <2>2. FileInv'
    BY <1>1, <1>3, <2>1 DEF OverlayInv, FileInv
  <2>3. QED BY <1>2, <2>2 DEF OverlayInv
<1>5. CASE stream # Closed
  <2>1. pc = "write" /\ Beginning(stream) /\ file' = stream
    BY <1>1, <1>5 DEF OverlayInv, FileInv
  <2>2. Beginning(file)'
    BY <1>1, <1>2, <2>1 DEF Beginning
  <2>3. FileInv'
    BY <1>1, <1>3, <2>1, <2>2 DEF FileInv
  <2>4. QED BY <1>2, <2>3 DEF OverlayInv
<1>6. QED BY <1>4, <1>5

\* Every step.
LEMMA OverlayStep == DaemonInv /\ OverlayInv /\ [Next]_vvars => OverlayInv'
<1> SUFFICES ASSUME DaemonInv, OverlayInv, [Next]_vvars PROVE OverlayInv'
  OBVIOUS
<1>1. CASE Main
  BY <1>1, SetUpStep, DisplaysStep, LedStep, UpdateStep, StoreStep DEF Main
<1>2. CASE CheckFlag \/ SetFlag \/ IgnorePipe \/ Destroy
  BY <1>2, OthersKeepDisplay DEF CheckFlag, SetFlag, IgnorePipe, Destroy, HandlerAt, mainvars
<1>3. CASE HandlerExit
  BY <1>3, HandlerLeaves
<1>4. CASE Deliver
  BY <1>4, OthersKeepDisplay DEF Deliver, mainvars
<1>5. CASE UNCHANGED vvars
  BY <1>5, OthersKeepDisplay DEF vvars, mainvars
<1>6. QED BY <1>1, <1>2, <1>3, <1>4, <1>5 DEF Next, Handler, Stopped

\* With four grids for the word and the leds on a grid that exists, the driver
\* is given the word, the leds that are lit and nothing else, in their order,
\* whatever signals come while they are written (vfdd.c:251-275, sigmain.c:42-66).
THEOREM WordIsShown == Spec => []OverlayShowsWord
<1>1. Init => DaemonInv /\ OverlayInv
  BY DaemonInit, OverlayInit
<1>2. DaemonInv /\ OverlayInv /\ [Next]_vvars => (DaemonInv /\ OverlayInv)'
  BY DaemonStep, OverlayStep
<1>3. DaemonInv /\ OverlayInv => OverlayShowsWord
  BY OverlayIsShown
<1>4. QED BY <1>1, <1>2, <1>3, PTL DEF Spec

-----------------------------------------------------------------------------
(* The signal handler.                                                     *)

Call == [sig : Signals \cup {SIGSEGV}, pc : {"check", "set", "work", "exit"}]
Busy == {"work", "exit"}   \* the flag was set and has not been cleared

\* Calls that interrupt one that has set the flag find it set; the flag is set
\* exactly as long as there is such a call.
HandlerInv ==
  /\ handlers \in Seq(Call)
  /\ inProgress \in BOOLEAN
  /\ destroys \in Nat
  /\ \A i, j \in 1 .. Len(handlers) :
       handlers[i].pc \in Busy /\ i < j => handlers[j].pc = "check"
  /\ inProgress <=> \E i \in 1 .. Len(handlers) : handlers[i].pc \in Busy
  /\ destroys > 0 => \E i \in 1 .. Len(handlers) : handlers[i].pc = "exit"

\* The main thread runs when no handler does; a fault calls one.
MainEffect ==
  /\ handlers = <<>>
  /\ UNCHANGED <<inProgress, destroys>>
  /\ handlers' = handlers \/ handlers' = <<[sig |-> SIGSEGV, pc |-> "check"]>>

\* Every step of the main thread leaves the signals as they are, unless it faults.
LEMMA MainHasEffect == ASSUME Main PROVE MainEffect
<1> USE DEF At, Running, sigvars
<1>1. CASE MapConf \/ ReadConf \/ ReadReturns
  BY <1>1 DEF MapConf, ReadConf, ReadReturns, Fault, Exit, MainEffect
<1>2. CASE PrintTree \/ FreeTree \/ Construct \/ Publish \/ Start \/ Tick \/ DisplayDup \/ Leave
  BY <1>2 DEF PrintTree, FreeTree, Construct, Publish, Start, Tick, Fault, DisplayDup, Leave, Exit, MainEffect
<1>3. CASE ReadDisplay \/ ReadDotleds
  BY <1>3 DEF ReadDisplay, ReadDotleds, Exit, Fault, MainEffect
<1>4. CASE Display
  BY <1>4 DEF Display, Fault, MainEffect
<1>5. CASE DotLed
  BY <1>5 DEF DotLed, Fault, MainEffect
<1>6. CASE UpdateDisplay
  BY <1>6 DEF UpdateDisplay, Fault, MainEffect
<1>7. CASE OpenOverlay \/ WriteWord
  BY <1>7 DEF OpenOverlay, WriteWord, MainEffect
<1>8. QED BY <1>1, <1>2, <1>3, <1>4, <1>5, <1>6, <1>7 DEF Main

\* No handler runs at the start.
LEMMA HandlerInit == Init => HandlerInv
<1> SUFFICES ASSUME Init PROVE HandlerInv
  OBVIOUS
<1>1. handlers = <<>> /\ inProgress = FALSE /\ destroys = 0
  BY DEF Init
<1>2. handlers \in Seq(Call) /\ Len(handlers) = 0
  BY <1>1
<1>3. inProgress \in BOOLEAN
  BY <1>1, Zenon
<1>4. \A i : i \notin 1 .. Len(handlers)
  BY <1>2
<1>5. inProgress <=> \E i \in 1 .. Len(handlers) : handlers[i].pc \in Busy
  BY <1>1, <1>4
<1>6. destroys \in Nat /\ ~ (destroys > 0)
  BY <1>1
<1>7. QED BY <1>2, <1>3, <1>4, <1>5, <1>6 DEF HandlerInv

\* Every step, of a handler or of the main thread, keeps the stack of handlers in order.
LEMMA HandlerStep == HandlerInv /\ [Next]_vvars => HandlerInv'
<1> SUFFICES ASSUME HandlerInv, [Next]_vvars PROVE HandlerInv'
  OBVIOUS
<1> DEFINE top == Len(handlers)
<1>1. CASE Main
  <2>1. MainEffect
    BY <1>1, MainHasEffect
  <2>2. ~ inProgress /\ ~ (destroys > 0)
    BY <2>1 DEF MainEffect, HandlerInv
  <2>3. CASE handlers' = handlers
    BY <2>1, <2>3 DEF MainEffect, HandlerInv
  <2>4. CASE handlers' = <<[sig |-> SIGSEGV, pc |-> "check"]>>
    <3>1. handlers' \in Seq(Call) /\ Len(handlers') = 1 /\ handlers'[1].pc = "check"
      BY <2>4 DEF Call
    <3>2. QED BY <2>1, <2>2, <3>1 DEF MainEffect, HandlerInv, Busy
  <2>5. QED BY <2>1, <2>3, <2>4 DEF MainEffect
<1>2. CASE Deliver
  <2>1. PICK s \in Signals : handlers' = Append(handlers, [sig |-> s, pc |-> "check"])
    BY <1>2 DEF Deliver
  <2>2. [sig |-> s, pc |-> "check"] \in Call
    BY DEF Call
  <2>3. /\ handlers' \in Seq(Call) /\ Len(handlers') = top + 1 /\ top \in Nat
        /\ handlers'[top + 1].pc = "check"
        /\ \A i \in 1 .. top : handlers'[i] = handlers[i]
    BY <2>1, <2>2 DEF HandlerInv
  <2>4. UNCHANGED <<inProgress, destroys>>
    BY <1>2 DEF Deliver
  <2>5. QED BY <2>3, <2>4 DEF HandlerInv, Busy
<1>3. ASSUME Handler PROVE HandlerInv'
  <2>1. /\ handlers \in Seq(Call) /\ top \in Nat
        /\ \A l : HandlerAt(l) => top \in 1 .. top /\ handlers[top].pc = l /\ handlers[top] \in Call
    BY DEF HandlerInv, HandlerAt
  <2>2. ASSUME Return, top \in 1 .. top
        PROVE  /\ handlers' \in Seq(Call) /\ Len(handlers') = top - 1
               /\ \A i \in 1 .. top - 1 : handlers'[i] = handlers[i]
    <3>1. handlers' = SubSeq(handlers, 1, top - 1)
      BY <2>2 DEF Return
    <3>2. top - 1 \in Nat /\ \A i \in 1 .. top - 1 : handlers[i] \in Call
      BY <2>1, <2>2
    <3>3. /\ SubSeq(handlers, 1, top - 1) \in Seq(Call)
          /\ Len(SubSeq(handlers, 1, top - 1)) = IF 1 <= top - 1 THEN (top - 1) - 1 + 1 ELSE 0
          /\ \A i \in 1 .. (top - 1) - 1 + 1 : SubSeq(handlers, 1, top - 1)[i] = handlers[1 + i - 1]
      BY <3>2, SubSeqProperties
    <3> HIDE DEF top
    <3>4. \A i \in 1 .. top - 1 : 1 + i - 1 = i /\ i \in 1 .. (top - 1) - 1 + 1
      BY <3>2
    <3>5. (IF 1 <= top - 1 THEN (top - 1) - 1 + 1 ELSE 0) = top - 1
      BY <3>2
    <3>6. QED BY <3>1, <3>3, <3>4, <3>5
  <2>3. ASSUME NEW l \in {"check", "set", "work", "exit"}, HandlerGoto(l), top \in 1 .. top
        PROVE  /\ handlers' \in Seq(Call) /\ Len(handlers') = top
               /\ handlers'[top].pc = l
               /\ \A i \in 1 .. top - 1 : handlers'[i] = handlers[i]
    <3>1. handlers' = [handlers EXCEPT ![top] = [@ EXCEPT !.pc = l]]
      BY <2>3 DEF HandlerGoto
    <3>2. handlers[top] \in Call
      BY <2>1, <2>3
    <3>3. [handlers[top] EXCEPT !.pc = l] \in Call /\ [handlers[top] EXCEPT !.pc = l].pc = l
      BY <3>2 DEF Call
    <3> DEFINE c == [handlers[top] EXCEPT !.pc = l]
    <3>4. handlers' = [handlers EXCEPT ![top] = c] /\ c \in Call /\ c.pc = l
      BY <3>1, <3>3
    <3> HIDE DEF c
    <3>5. /\ handlers' \in Seq(Call) /\ Len(handlers') = top
          /\ \A i \in 1 .. top : handlers'[i] = IF i = top THEN c ELSE handlers[i]
      BY <2>1, <2>3, <3>4, ExceptSeq
    <3> HIDE DEF top
    <3>6. top \in Nat
      BY <2>1
    <3>7. QED BY <2>3, <3>4, <3>5, <3>6
  <2>4. CASE CheckFlag
    <3>1. handlers[top].pc = "check" /\ top \in 1 .. top /\ UNCHANGED <<inProgress, destroys>>
      BY <2>1, <2>4 DEF CheckFlag
    <3>2. CASE inProgress
      <4>1. /\ handlers' \in Seq(Call) /\ Len(handlers') = top - 1
            /\ \A i \in 1 .. top - 1 : handlers'[i] = handlers[i]
        BY <2>2, <2>4, <3>1, <3>2 DEF CheckFlag
      <4>2. \E i \in 1 .. top - 1 : handlers[i].pc \in Busy
        BY <2>1, <3>1, <3>2 DEF HandlerInv, Busy
      <4>3. destroys > 0 => \E i \in 1 .. top - 1 : handlers[i].pc = "exit"
        BY <2>1, <3>1 DEF HandlerInv
      <4>4. \A i, j \in 1 .. top - 1 : handlers[i].pc \in Busy /\ i < j => handlers[j].pc = "check"
        BY <2>1, <3>1 DEF HandlerInv
      <4>5. inProgress' <=> \E i \in 1 .. Len(handlers') : handlers'[i].pc \in Busy
        BY <3>1, <3>2, <4>1, <4>2
      <4>6. QED BY <3>1, <4>1, <4>3, <4>4, <4>5 DEF HandlerInv
    <3>3. CASE ~ inProgress
      <4>1. HandlerGoto("set") /\ \A i \in 1 .. top : handlers[i].pc \notin Busy
        BY <2>1, <2>4, <3>3 DEF CheckFlag, HandlerInv
      <4>2. /\ handlers' \in Seq(Call) /\ Len(handlers') = top /\ handlers'[top].pc = "set"
            /\ \A i \in 1 .. top - 1 : handlers'[i] = handlers[i]
        BY <2>3, <3>1, <4>1
      <4>3. \A i \in 1 .. top : handlers'[i].pc \notin Busy
        BY <2>1, <4>1, <4>2 DEF Busy
      <4>4. ~ inProgress' /\ ~ (destroys' > 0)
        BY <3>1, <3>3, <4>1 DEF HandlerInv, Busy
      <4>5. QED BY <3>1, <4>2, <4>3, <4>4 DEF HandlerInv
    <3>4. QED BY <3>2, <3>3
  <2>5. CASE SetFlag
    <3>1. handlers[top].pc = "set" /\ top \in 1 .. top /\ HandlerGoto("work")
          /\ inProgress' = TRUE /\ UNCHANGED destroys
      BY <2>1, <2>5 DEF SetFlag
    <3>2. \A i \in 1 .. top : handlers[i].pc \notin Busy
      BY <2>1, <3>1 DEF HandlerInv, Busy
    <3>3. QED BY <2>1, <2>3, <3>1, <3>2 DEF HandlerInv, Busy
  <2>6. CASE IgnorePipe
    <3>1. handlers[top].pc = "work" /\ top \in 1 .. top /\ Return
          /\ inProgress' = FALSE /\ UNCHANGED destroys
      BY <2>1, <2>6 DEF IgnorePipe
    <3>2. \A i \in 1 .. top - 1 : handlers[i].pc \notin Busy
      BY <2>1, <3>1 DEF HandlerInv, Busy
    <3>3. ~ (destroys > 0)
      BY <2>1, <3>1, <3>2 DEF HandlerInv, Busy
    <3>4. /\ handlers' \in Seq(Call) /\ Len(handlers') = top - 1
          /\ \A i \in 1 .. top - 1 : handlers'[i] = handlers[i]
      BY <2>2, <3>1
    <3>5. \A i \in 1 .. Len(handlers') : handlers'[i].pc \notin Busy
      BY <3>2, <3>4
    <3>6. QED BY <3>1, <3>3, <3>4, <3>5 DEF HandlerInv
  <2>7. CASE Destroy
    <3>1. handlers[top].pc = "work" /\ top \in 1 .. top /\ HandlerGoto("exit")
          /\ destroys' = destroys + 1 /\ UNCHANGED inProgress
      BY <2>1, <2>7 DEF Destroy
    <3>2. QED BY <2>1, <2>3, <3>1 DEF HandlerInv, Busy
  <2>8. CASE HandlerExit
    BY <2>8 DEF HandlerExit, sigvars, HandlerInv
  <2>9. QED BY <1>3, <2>4, <2>5, <2>6, <2>7, <2>8 DEF Handler
<1>4. CASE Stopped \/ UNCHANGED vvars
  BY <1>4 DEF Stopped, vvars, sigvars, HandlerInv
<1>5. QED BY <1>1, <1>2, <1>3, <1>4 DEF Next

\* Whatever signals come, and however their handlers nest, the flag is clear when
\* none of them runs: no later signal is dropped (sigmain.c:44-56).
THEOREM NoSignalIsDropped == Spec => []SignalsHeard
<1>1. HandlerInv => SignalsHeard
  BY DEF HandlerInv, SignalsHeard
<1>2. QED BY <1>1, HandlerInit, HandlerStep, PTL DEF Spec

\* For any number of signals: one handler at most destroys the daemon, and the
\* code it interrupted never runs again (sigmain.c:65-68).
THEOREM NothingAfterDestroy == Spec => DestroyedIsOver
<1>1. HandlerInv /\ [Next]_vvars => [destroys > 0 => UNCHANGED <<pc, idx, vf, destroys>>]_vvars
  <2> SUFFICES ASSUME HandlerInv, Next, destroys > 0
               PROVE  UNCHANGED <<pc, idx, vf, destroys>>
    OBVIOUS
  <2>1. PICK i \in 1 .. Len(handlers) : handlers[i].pc = "exit"
    BY DEF HandlerInv
  <2>2. ~ Main
    BY <2>1, MainHasEffect DEF MainEffect, HandlerInv
  <2>3. ~ Destroy
    <3>1. handlers \in Seq(Call) /\ Len(handlers) \in Nat
      BY DEF HandlerInv
    <3>2. CASE i = Len(handlers)
      BY <2>1, <3>2 DEF Destroy, HandlerAt
    <3>3. CASE i < Len(handlers)
      <4>1. handlers[Len(handlers)].pc = "check"
        BY <2>1, <3>1, <3>3 DEF HandlerInv, Busy
      <4>2. QED BY <4>1 DEF Destroy, HandlerAt
    <3>4. QED BY <3>1, <3>2, <3>3
  <2>4. QED
    BY <2>2, <2>3 DEF Next, Handler, CheckFlag, SetFlag, IgnorePipe, HandlerExit, Deliver, Stopped,
                      mainvars, sigvars, vvars
<1>2. QED BY <1>1, HandlerInit, HandlerStep, PTL DEF Spec, DestroyedIsOver
=============================================================================
