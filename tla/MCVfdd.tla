-------------------------------- MODULE MCVfdd --------------------------------
(***************************************************************************)
(* The daemon on small texts and on the configurations below.              *)
(***************************************************************************)
EXTENDS Vfdd

B == "\""
Key(k) == <<B, k, B, ":">>
Str(s) == <<B, s, B>>

\* The members ms, in brackets.
Between(open, ms, close) ==
  <<open>> \o FoldLeft(LAMBDA acc, m : IF acc = <<>> THEN m ELSE acc \o <<",">> \o m, <<>>, ms) \o <<close>>
Obj(ms) == Between("{", ms, "}")
Arr(ms) == Between("[", ms, "]")

Member(name, ms) == Key(name) \o Obj(<<Key("enable") \o <<"true">>>> \o ms)
Off(name) == Key(name) \o Obj(<<Key("enable") \o <<"false">>>>)
Num(k, d) == Key(k) \o <<d>>
Digits(k, ds) == Key(k) \o ds
Txt(k, s) == Key(k) \o Str(s)

TimeFn == Member("time", <<Num("order", "0"), Txt("format", "f")>>)
DateFn == Member("date", <<Num("order", "1"), Txt("format", "f")>>)
TempFn == Member("temp", <<Num("order", "2"), Txt("format", "f"), Txt("sysfile", "s")>>)
NetBit(name, ds) == Member(name, <<Txt("sysfile", "s"), Txt("driver", "net"), Digits("bit", ds)>>)
Net(name) == NetBit(name, <<"5">>)
Colon(name) == Member(name, <<Txt("driver", "colon"), Num("bit", "4")>>)
Usb == Member("usb", <<Txt("driver", "usb"), Num("bit", "1")>>)

Display5(g, fns) ==
  Key("display") \o Obj(<<Txt("device", "d"), Txt("sysfile", "s"), Num("grid_num", g),
                          Key("digit_map") \o Arr(<<<<"3">>, <<"2">>>>),
                          Key("functions") \o Obj(fns)>>)
Dots(g, fns) == Key("dotleds") \o Obj(<<Num("grid_map", g), Key("functions") \o Obj(fns)>>)

MCScripts == {
  \* like the configuration that comes with the program
  Obj(<<Display5("5", <<TimeFn, DateFn, TempFn>>), Dots("4", <<Usb, Colon("colon"), Net("net"), Off("wifi")>>)>>),
  \* leds on a grid of the word, on one that is not there, no time to show
  Obj(<<Display5("5", <<DateFn>>), Dots("2", <<Net("net"), Colon("dots")>>)>>),
  Obj(<<Display5("4", <<TimeFn>>), Dots("4", <<Net("net")>>)>>),
  \* too few grids, no array of digits, no format
  Obj(<<Key("display") \o Obj(<<Num("grid_num", "2"), Txt("sysfile", "s")>>)>>),
  Obj(<<Key("display") \o Obj(<<Num("grid_num", "4"), Key("functions") \o Obj(<<Member("time", <<>>)>>)>>)>>),
  \* a number where a string is asked for
  Obj(<<Key("display") \o Obj(<<Num("device", "5")>>)>>),
  Obj(<<Dots("0", <<Member("net", <<Num("driver", "1")>>)>>)>>),
  \* numbers with signs, points and exponents; bits beyond the word and the int
  Obj(<<Display5("5", <<Member("temp", <<Num("order", "2")>>)>>),
        Key("dotleds") \o Obj(<<Digits("grid_map", <<"0", ".", "4", "2", "e", "+", "1">>),
          Key("functions") \o Obj(<<NetBit("net", <<"3", "3">>), NetBit("a", <<"-", "1">>), NetBit("b", <<"2", "0">>)>>)>>)>>),
  Obj(<<Display5("4", <<>>), Key("dotleds") \o Obj(<<Digits("grid_map", <<"-", "1">>),
          Key("functions") \o Obj(<<Net("net")>>)>>)>>),
  Obj(<<Key("display") \o Obj(<<Digits("grid_num", <<"-", "5", ".", "5">>)>>)>>),
  Obj(<<Key("display") \o Obj(<<Digits("device", <<"-", "0">>)>>)>>),
  Arr(<<<<"-", "1", "0">>, <<"-">>, <<"1", "e", "-", "9", "9", "9">>, <<"0">>>>),
  Arr(<<<<"-", "0">>, <<"5", "e", "E">>, <<"0", "e", "9", "9", "9">>, <<"-", ".", "5">>, <<"5", "-", "1">>>>),
  \* leds without a display, without a file
  Obj(<<Dots("0", <<Colon("colon")>>)>>),
  Obj(<<Key("display") \o Obj(<<Num("grid_num", "5")>>), Dots("4", <<Member("net", <<Txt("driver", "net")>>)>>)>>),
  \* keys that occur twice, keys that are no names, blanks, escapes
  Obj(<<Txt("a", "x"), Num("a", "1"), Key("b") \o Arr(<<<<"1">>>>), Key("b") \o Arr(<<<<"0">>, <<"1">>>>), Key("a") \o <<"null">>>>),
  Obj(<<Key("a") \o Obj(<<Num("b", "1")>>), <<B, "a", ".", "b", B, ":", "0">>, <<B, "*", ".", "b", B, ":", "1">>, <<B, B, ":", "1">>>>),
  Obj(<<Key("*") \o Obj(<<Key("*") \o Obj(<<Num("a", "1")>>)>>), Num("a", "0")>>),
  <<"{", " ", B, "a", "\\a", B, " ", ":", " ", "1", "0", " ", ",", " ", B, "\\u">>,
  <<"[", " ", "]", " ">>, <<"{", ",", B, "a", B, ":", "0", "0", "}">>
}

MCFreeUnits == {"{", "}", "[", "]", ":", ",", B, "a", ".", "1"}
MCUnits == UNION {ToSet(s) : s \in MCScripts} \cup MCFreeUnits
MCLetters == MCUnits \ {B, "\\u", "{", "}", "[", "]", ":", ",", " "}
MCPowers == {2^k : k \in 0 .. 10}
MCWord == <<"A", "B", "?", "A">>
=============================================================================
