--------------------------------- MODULE Vfdd ---------------------------------
(***************************************************************************)
(* The daemon: vfdd.c, display.c and dotled.c, started by vfddmain.c, with *)
(* the signal handler of sigmain.c.                                        *)
(*                                                                         *)
(* The main thread reads its configuration with the reader of Json, waits  *)
(* in its loop (EventLoop) and leaves the program at the end of the first  *)
(* timer callback.  A signal suspends it: handlers is the stack of the     *)
(* handler calls, the last of which runs.                                  *)
(***************************************************************************)
EXTENDS Json

CONSTANTS
  Word,       \* the word of the command line, four characters
  GlyphCodes, \* the characters vfd_glyphs has an image for
  Signals,    \* the signals of sigmain_signal_init that others send
  SIGPIPE,    \* the one that does not end the program
  SIGSEGV,    \* sent by the kernel for a wild access
  MaxSignals  \* bound: signals that others send in one life of the program

ASSUME VfddAssumption ==
  /\ Word \in [1 .. 4 -> STRING]
  /\ SIGPIPE \in Signals /\ SIGSEGV \notin Signals
  /\ MaxSignals \in Nat

VARIABLES
  pc,         \* where the main thread is
  idx,        \* the display function, led or word it has come to
  debug,      \* prog_debug
  vf,         \* struct _Vfdd
  published,  \* ud->vfdd is set
  stream,     \* the words written to the open overlay file
  file,       \* the words that have reached the driver
  wild,       \* memory was written outside display_raw
  ended,      \* how the process ended
  handlers,   \* calls of sigmain_handler, innermost last
  inProgress, \* signalInProgress
  segv,       \* the disposition of SIGSEGV
  sent,       \* signals sent by others
  destroys    \* calls of vfddmain_destroy

mainvars == <<pc, idx, debug, vf, published, stream, file, wild>>
sigvars  == <<handlers, inProgress, segv, sent, destroys>>
vvars    == <<jvars, mainvars, sigvars, ended>>

Closed == <<{<<"closed", 0>>}>>   \* no overlay file is open

Running == ended = "no" /\ handlers = <<>>
At(l)   == Running /\ pc = l
Goto(l) == pc' = l

\* The main thread is stopped by the kernel; SA_ONESHOT.
Fault ==
  /\ IF segv = "handler"
     THEN handlers' = <<[sig |-> SIGSEGV, pc |-> "check"]>> /\ segv' = "default" /\ UNCHANGED ended
     ELSE ended' = "segv" /\ UNCHANGED <<handlers, segv>>
  /\ UNCHANGED <<mainvars, inProgress, sent, destroys>>

Exit(how) == ended' = how /\ UNCHANGED <<mainvars, sigvars>>

-----------------------------------------------------------------------------
(* Reading the configuration: vfdd_read_conf.                              *)

MapConf ==
  /\ At("map")
  /\ \/ Goto("read") /\ UNCHANGED <<idx, debug, vf, published, stream, file, wild, sigvars, ended>>
     \/ Exit("fatal")
  /\ UNCHANGED jvars

ReadConf ==
  /\ At("read")
  /\ Read
  /\ UNCHANGED <<mainvars, sigvars, ended>>

\* The reader returns; with -dm 1, which sets prog_debug as -d does, the tree
\* is printed into its buffer.
ReadReturns ==
  /\ At("read")
  /\ \/ at = "crashed" /\ Fault /\ UNCHANGED jvars
     \/ at = "failed" /\ Exit("fatal") /\ UNCHANGED jvars
     \/ /\ at = "parsed"
        /\ debug' \in BOOLEAN
        /\ \/ debug' /\ Goto("print") /\ scratch' = Clear(scratch)
           \/ Goto("display") /\ UNCHANGED scratch
        /\ UNCHANGED <<idx, vf, published, stream, file, wild, sigvars, ended, at, frames, item,
                       path, count, node, fresh, text, pos, closed, reused, odd, loose>>

\* json_root_print appends the brackets and quotes as characters, the rest as
\* strings.  Bound: the buffer holds no more than Longest units.
PrintTree ==
  /\ At("print")
  /\ LET out == Printed(node)[Root]
         u == out[scratch.len + 1]
     IN  IF scratch.len < Len(out)
         THEN /\ scratch.len < Longest
              /\ scratch' = IF u \in Punctuation THEN PutChar(scratch, u) ELSE StrNCat(scratch, <<u>>)
              /\ UNCHANGED pc
         ELSE Goto("display") /\ UNCHANGED scratch
  /\ UNCHANGED <<idx, debug, vf, published, stream, file, wild, sigvars, ended, at, frames, item,
                 path, count, node, fresh, text, pos, closed, reused, odd, loose>>

\* json_root_get_item_int, _bool, _string: the value of what is found.
Get(n, k) == FindIn(node, n, <<<<k>>>>)
IntOf(n, k) == IF Get(n, k) = NoNode THEN 0 ELSE Truncated(node[Get(n, k)].num)
Enabled(n) == Get(n, "enable") # NoNode /\ node[Get(n, "enable")].type = "true"

\* A string is taken from u.ptr whatever the type of the node: a number is a
\* wild pointer unless all its bits are 0.
NoString == <<NUL>>
StringAt(n, k) ==
  LET m == Get(n, k)
  IN  IF m # NoNode /\ node[m].type = "string" THEN node[m].str ELSE NoString
AllBitsZero(d) == ~ d.neg /\ \A j \in 1 .. Len(d.digits) : d.digits[j] = "0"
WildString(n, k) == Get(n, k) # NoNode /\ ~ AllBitsZero(node[Get(n, k)].num)

\* The enabled members of the object "functions" of n.
Functions(n) ==
  LET f == Get(n, "functions")
      enabled[k \in 0 .. Len(node[f].kids)] ==
        IF k = 0 THEN <<>>
        ELSE IF Enabled(node[f].kids[k]) THEN Append(enabled[k - 1], node[f].kids[k])
        ELSE enabled[k - 1]
  IN  IF f = NoNode THEN <<>> ELSE enabled[Len(node[f].kids)]

\* display_construct
DisplayOf(n) == [order |-> IntOf(n, "order"), format |-> StringAt(n, "format") # NoString]

\* dotled_construct, dotled_set_test_func: of the drivers in the table only
\* these two have a function.
LedOf(n) ==
  [name |-> node[n].key, sysfile |-> StringAt(n, "sysfile") # NoString, bit |-> IntOf(n, "bit"),
   test |-> IF StringAt(n, "driver") \in {<<"net">>, <<"colon">>} THEN StringAt(n, "driver")[1]
            ELSE "none"]

ElementsOf(n, k) == IF Get(n, k) = NoNode THEN 0 ELSE Len(node[Get(n, k)].kids)

AnyWild(n, keys, memberKeys) ==
  \/ \E k \in keys : WildString(n, k)
  \/ \E m \in ToSet(Functions(n)), k \in memberKeys : WildString(m, k)

\* For a negative grid_num 4 GB are asked for (an unsigned product, appmem.h:75),
\* which the program may not get.
ReadDisplay ==
  /\ At("display")
  /\ LET d == Get(Root, "display")
     IN  IF d = NoNode
         THEN Goto("dotleds") /\ UNCHANGED <<idx, debug, vf, published, stream, file, wild, sigvars, ended>>
         ELSE IF AnyWild(d, {"device", "sysfile"}, {"sysfile", "format"}) THEN Fault
         ELSE \/ /\ Goto("dotleds")
                 /\ vf' = [vf EXCEPT
                      !.overlay = StringAt(d, "sysfile") # NoString,
                      !.grid = IntOf(d, "grid_num"),
                      !.raw = [k \in 0 .. IntOf(d, "grid_num") - 1 |-> {}],
                      !.digits = ElementsOf(d, "digit_map"),
                      !.displays = [k \in 1 .. Len(Functions(d)) |-> DisplayOf(Functions(d)[k])]]
                 /\ UNCHANGED <<idx, debug, published, stream, file, wild, sigvars, ended>>
              \/ IntOf(d, "grid_num") < 0 /\ Exit("fatal")
  /\ UNCHANGED jvars

ReadDotleds ==
  /\ At("dotleds")
  /\ LET d == Get(Root, "dotleds")
     IN  IF d # NoNode /\ AnyWild(d, {}, {"sysfile", "driver"}) THEN Fault
         ELSE /\ Goto("free")
              /\ vf' = IF d = NoNode THEN vf
                       ELSE [vf EXCEPT
                              !.map = IntOf(d, "grid_map"),
                              !.leds = [k \in 1 .. Len(Functions(d)) |-> LedOf(Functions(d)[k])]]
              /\ UNCHANGED <<idx, debug, published, stream, file, wild, sigvars, ended>>
  /\ UNCHANGED jvars

\* json_root_destroy frees what hangs on the root; the variables of the reader
\* take their first values.
FreeTree ==
  /\ At("free")
  /\ Goto("construct")
  /\ node' = With([n \in DOMAIN node \ Reached(node) |-> node[n]], Root, NewNode(<<>>))
  /\ scratch' = NewBuf(ScratchSize)
  /\ at' = "value" /\ frames' = <<>> /\ item' = Root /\ path' = <<>> /\ count' = 0
  /\ fresh' = NoNode /\ text' = <<>> /\ pos' = 0 /\ closed' = FALSE
  /\ reused' = FALSE /\ odd' = FALSE /\ loose' = FALSE
  /\ UNCHANGED <<idx, debug, vf, published, stream, file, wild, sigvars, ended>>

\* The rest of vfdd_construct: the loop, its timer and the led named colon.
Construct ==
  /\ At("construct")
  /\ Goto("publish")
  /\ vf' = [vf EXCEPT
       !.loop = TRUE,
       !.colon = LET named == {k \in DOMAIN vf.leds : vf.leds[k].name = <<"colon">>}
                 IN  IF named = {} THEN 0 ELSE CHOOSE k \in named : \A j \in named : k <= j]
  /\ UNCHANGED <<jvars, idx, debug, published, stream, file, wild, sigvars, ended>>

\* vfddmain_process: ud->vfdd, then the word and the colon, then loop_run.
Publish ==
  /\ At("publish")
  /\ Goto("start")
  /\ published' = TRUE
  /\ UNCHANGED <<jvars, idx, debug, vf, stream, file, wild, sigvars, ended>>

Start ==
  /\ At("start")
  /\ Goto("loop")
  /\ \E c \in BOOLEAN : vf' = [vf EXCEPT !.nocolon = c]
  /\ UNCHANGED <<jvars, idx, debug, published, stream, file, wild, sigvars, ended>>

-----------------------------------------------------------------------------
(* The timer callback.                                                     *)

\* memset takes a negative length for one of nearly 2^64.
Tick ==
  /\ At("loop")
  /\ \/ vf.grid < 0 /\ Fault
     \/ /\ vf.grid >= 0
        /\ \E s \in {0, 5, 15} :   \* tm_sec: outside, in 5 .. 9, in 15 .. 19
             vf' = [vf EXCEPT !.raw = [k \in DOMAIN @ |-> {}], !.sec = s]
        /\ Goto("displays") /\ idx' = 1
        /\ UNCHANGED <<debug, published, stream, file, wild, sigvars, ended>>
  /\ UNCHANGED jvars

\* display_iter_update_cb up to the free of app_dup_str.  Without a format
\* strftime faults; snprintf, for the temperature, returns an error.
Shown(d) == d.order = 1 => vf.sec = 5
TempShown(d) == d.order = 2 => vf.sec = 15

Display ==
  /\ At("displays")
  /\ IF idx > Len(vf.displays)
     THEN Goto("leds") /\ idx' = 1 /\ UNCHANGED <<debug, vf, published, stream, file, wild, sigvars, ended>>
     ELSE LET d == vf.displays[idx]
          IN  IF ~ Shown(d) \/ ~ TempShown(d)
              THEN idx' = idx + 1 /\ UNCHANGED <<pc, debug, vf, published, stream, file, wild, sigvars, ended>>
              ELSE IF d.order \in 0 .. 1 /\ ~ d.format THEN Fault
              ELSE /\ Goto("dup")
                   /\ vf' = [vf EXCEPT !.str = IF @ = "null" THEN @ ELSE "freed"]
                   /\ UNCHANGED <<idx, debug, published, stream, file, wild, sigvars, ended>>
  /\ UNCHANGED jvars

DisplayDup ==
  /\ At("dup")
  /\ Goto("displays") /\ idx' = idx + 1
  /\ vf' = [vf EXCEPT !.str = "set"]
  /\ UNCHANGED <<jvars, debug, published, stream, file, wild, sigvars, ended>>

\* What led k's test says, when it is asked.
TestOf(k) ==
  \/ vf.leds[k].test = "net"
  \/ vf.leds[k].test = "colon" /\ vf.colon = k /\ vf.nocolon

\* The bits that 1 << n, stored in 16 bits, may have: beyond 31 the machines
\* take n modulo 32 or shift the 1 out.
Shifted(n) ==
  IF n \in 0 .. 31 THEN {{n} \cap (0 .. 15)} ELSE {{n % 32} \cap (0 .. 15), {}}

\* The word of display_raw the leds are in is there.
MapInside == vf.map \in 0 .. vf.grid - 1

\* Seeded fault: a led without a test function is lit.
LightAlways(k) ==
  IF MapInside
  THEN /\ \E bits \in Shifted(vf.leds[k].bit) :
            vf' = [vf EXCEPT !.raw[vf.map] = @ \cup {<<"led", b>> : b \in bits}]
       /\ UNCHANGED wild
  ELSE wild' = TRUE /\ UNCHANGED vf

\* dotled_iter_update
Light(k) ==
  IF ~ TestOf(k) THEN UNCHANGED <<vf, wild>>
  ELSE IF MapInside
       THEN /\ \E bits \in Shifted(vf.leds[k].bit) :
                 vf' = [vf EXCEPT !.raw[vf.map] = @ \cup {<<"led", b>> : b \in bits}]
            /\ UNCHANGED wild
       ELSE wild' = TRUE /\ UNCHANGED vf

DotLed ==
  /\ At("leds")
  /\ \/ /\ idx > Len(vf.leds)
        /\ Goto("update") /\ idx' = 1
        /\ UNCHANGED <<debug, vf, published, stream, file, wild, sigvars, ended>>
     \/ /\ idx <= Len(vf.leds) /\ vf.leds[idx].sysfile   \* it cannot be opened
        /\ idx' = idx + 1
        /\ UNCHANGED <<pc, debug, vf, published, stream, file, wild, sigvars, ended>>
     \/ /\ idx <= Len(vf.leds)
        /\ LET l == vf.leds[idx]
           IN  IF (l.test = "net" /\ ~ l.sysfile) \/ (TestOf(idx) /\ vf.grid = 0)
               THEN Fault
               ELSE \/ /\ Light(idx) /\ idx' = idx + 1
                       /\ UNCHANGED <<pc, debug, published, stream, file, sigvars, ended>>
                    \/ TestOf(idx) /\ ~ MapInside /\ Fault
  /\ UNCHANGED jvars

\* getMyGlyph: for another character the search leaves the table.
GlyphOf(c) == IF c \in GlyphCodes THEN {<<"glyph", c>>} ELSE {<<"glyph", "any">>}

\* vfdd_update_display: the digits are looked at but only the word is shown.
UpdateDisplay ==
  /\ At("update")
  /\ \/ /\ \/ vf.digits > 0 /\ (debug \/ vf.str = "null")
           \/ vf.grid = 0
        /\ Fault
     \/ /\ ~ (vf.digits > 0 /\ debug) /\ vf.grid > 0
        /\ vf' = [vf EXCEPT !.raw = [k \in DOMAIN @ |-> IF k <= 3 THEN GlyphOf(Word[4 - k]) ELSE @[k]]]
        /\ wild' = (wild \/ vf.grid < 4)
        /\ Goto("open")
        /\ UNCHANGED <<idx, debug, published, stream, file, sigvars, ended>>
  /\ UNCHANGED jvars

\* vfdd_overlay_store, with the buffer of its FILE.
OpenOverlay ==
  /\ At("open")
  /\ \/ Goto("exit") /\ UNCHANGED stream
     \/ vf.overlay /\ Goto("write") /\ stream' = <<>>
  /\ UNCHANGED <<jvars, idx, debug, vf, published, file, wild, sigvars, ended>>

WriteWord ==
  /\ At("write")
  /\ IF Len(stream) < vf.grid
     THEN stream' = Append(stream, vf.raw[Len(stream)]) /\ UNCHANGED <<pc, file>>
     ELSE stream' = Closed /\ file' = stream /\ Goto("exit")
  /\ UNCHANGED <<jvars, idx, debug, vf, published, wild, sigvars, ended>>

\* Seeded fault: the callback returns to the loop.
LeaveNot == /\ At("exit") /\ Goto("loop")
            /\ UNCHANGED <<jvars, idx, debug, vf, published, stream, file, wild, sigvars, ended>>

\* exit(1) at the end of the callback.
Leave == At("exit") /\ Exit("exit") /\ UNCHANGED jvars

-----------------------------------------------------------------------------
(* Signals: sigmain_handler.                                               *)

\* A signal is sent while the program runs; one whose handler runs is blocked.
\* Bound: none comes while the configuration is read, where ud->vfdd is NULL.
Deliver ==
  /\ ended = "no" /\ pc \notin {"map", "read", "print", "display", "dotleds", "free"}
  /\ sent < MaxSignals
  /\ \E s \in Signals :
       /\ \A k \in DOMAIN handlers : handlers[k].sig # s
       /\ handlers' = Append(handlers, [sig |-> s, pc |-> "check"])
  /\ sent' = sent + 1
  /\ UNCHANGED <<jvars, mainvars, inProgress, segv, destroys, ended>>

HandlerAt(l) == ended = "no" /\ handlers # <<>> /\ handlers[Len(handlers)].pc = l
Innermost == handlers[Len(handlers)]
Return == handlers' = SubSeq(handlers, 1, Len(handlers) - 1)
HandlerGoto(l) == handlers' = [handlers EXCEPT ![Len(handlers)].pc = l]

\* Seeded fault: the flag is not looked at.
CheckFlagNot ==
  /\ HandlerAt("check")
  /\ HandlerGoto("set")
  /\ UNCHANGED <<jvars, mainvars, inProgress, segv, sent, destroys, ended>>

CheckFlag ==
  /\ HandlerAt("check")
  /\ IF inProgress THEN Return ELSE HandlerGoto("set")
  /\ UNCHANGED <<jvars, mainvars, inProgress, segv, sent, destroys, ended>>

SetFlag ==
  /\ HandlerAt("set")
  /\ inProgress' = TRUE
  /\ HandlerGoto("work")
  /\ UNCHANGED <<jvars, mainvars, segv, sent, destroys, ended>>

\* Seeded fault: the flag is left set.
IgnorePipeForGood ==
  /\ HandlerAt("work") /\ Innermost.sig = SIGPIPE
  /\ Return
  /\ UNCHANGED <<jvars, mainvars, inProgress, segv, sent, destroys, ended>>

IgnorePipe ==
  /\ HandlerAt("work") /\ Innermost.sig = SIGPIPE
  /\ inProgress' = FALSE
  /\ Return
  /\ UNCHANGED <<jvars, mainvars, segv, sent, destroys, ended>>

\* exit_func is vfddmain_destroy: what vfdd_destroy frees.  A string freed
\* before may end the process.
Destroy ==
  /\ HandlerAt("work") /\ Innermost.sig # SIGPIPE
  /\ destroys' = destroys + 1
  /\ HandlerGoto("exit")
  /\ \/ UNCHANGED ended
     \/ published /\ vf.str = "freed" /\ ended' = "aborted"
  /\ UNCHANGED <<jvars, mainvars, inProgress, segv, sent>>

\* exit(-1): the words in the buffer of the open file are written.
HandlerExit ==
  /\ HandlerAt("exit")
  /\ ended' = "killed"
  /\ file' = IF stream = Closed THEN file ELSE stream
  /\ UNCHANGED <<jvars, pc, idx, debug, vf, published, stream, wild, sigvars>>

-----------------------------------------------------------------------------
Main ==
  \/ MapConf \/ ReadConf \/ ReadReturns \/ PrintTree \/ ReadDisplay \/ ReadDotleds \/ FreeTree \/ Construct
  \/ Publish \/ Start \/ Tick \/ Display \/ DisplayDup \/ DotLed \/ UpdateDisplay
  \/ OpenOverlay \/ WriteWord \/ Leave

Handler == CheckFlag \/ SetFlag \/ IgnorePipe \/ Destroy \/ HandlerExit

\* The process is gone.
Stopped == ended # "no" /\ UNCHANGED vvars

Next == Main \/ Handler \/ Deliver \/ Stopped

Init ==
  /\ InitJson
  /\ pc = "map" /\ idx = 1 /\ debug = FALSE /\ published = FALSE
  /\ vf = [overlay |-> FALSE, grid |-> 0, raw |-> <<>>, digits |-> 0, displays |-> <<>>, map |-> 0,
           leds |-> <<>>, loop |-> FALSE, colon |-> 0, nocolon |-> FALSE, sec |-> 0, str |-> "null"]
  /\ stream = Closed /\ file = <<>> /\ wild = FALSE /\ ended = "no"
  /\ handlers = <<>> /\ inProgress = FALSE /\ segv = "handler" /\ sent = 0 /\ destroys = 0

\* The scheduler runs the process, on either stack, until it ends: weak fairness
\* of Main \/ Handler, one of which is enabled as long as ended = "no" (TLC finds
\* no deadlock), written out because TLC is slow to find that out by itself.
Fairness == []<>(ended # "no") \/ []<><<Main \/ Handler>>_vvars

Spec == Init /\ [][Next]_vvars /\ Fairness
-----------------------------------------------------------------------------
(* Correctness.                                                            *)

\* root->dbuf, a string for strtod and strdup, is terminated and within its
\* storage whatever is read or printed (dbuf.c:372).
ScratchWellFormed == WellFormed(scratch)

\* The leds whose test succeeds; the bits they may show, and those they show in
\* any case, because no file is needed and the bit is one of the word.
LitLeds == {k \in DOMAIN vf.leds : TestOf(k)}
MayBeLit == {<<"led", b>> : b \in UNION {UNION Shifted(vf.leds[k].bit) : k \in LitLeds}}
SurelyLit ==
  {<<"led", vf.leds[k].bit>> : k \in {j \in LitLeds : ~ vf.leds[j].sysfile /\ vf.leds[j].bit \in 0 .. 15}}

\* With four grids for the word and the leds on a grid that exists, the driver
\* is given the word from its last character to its first, on any other grid
\* nothing but the leds that are lit, all words if the program was left by
\* itself, and nothing was written elsewhere (vfdd.c:251-275).
OverlayShowsWord ==
  vf.grid >= 4 /\ MapInside =>
    /\ ~ wild
    /\ \A k \in 1 .. Len(file) :
         IF k <= 4 THEN Word[5 - k] \in GlyphCodes => file[k] = {<<"glyph", Word[5 - k]>>}
         ELSE IF k = vf.map + 1 THEN SurelyLit \subseteq file[k] /\ file[k] \subseteq MayBeLit
         ELSE file[k] = {}
    /\ ended = "exit" /\ file # <<>> => Len(file) = vf.grid

\* Between two signals the flag is clear, so the next one is not dropped.
SignalsHeard == handlers = <<>> => ~ inProgress

\* The daemon is destroyed at most once, and the main thread, whose objects are
\* gone, does nothing after that (sigmain.c:42-66).
DestroyedIsOver == [][destroys > 0 => UNCHANGED <<pc, idx, vf, destroys>>]_vvars

\* The program always comes to its end: the callback leaves it after the first
\* tick, and no signal, fault or text keeps it from getting there.
EventuallyEnds == <>(ended # "no")
=============================================================================
