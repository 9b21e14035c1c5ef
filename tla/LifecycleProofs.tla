---------------------------- MODULE LifecycleProofs ----------------------------
(***************************************************************************)
(* Proofs about the set-up and removal of the driver, for any files, dot   *)
(* LEDs, keys and number of processes, and wherever vfd_probe fails.       *)
(*                                                                         *)
(* A process is only ever in a file that was created and has not been      *)
(* waited for yet (FilesInv), and the timer handler looks keys up only     *)
(* once the input device is there, which comes after the table (KeysInv).  *)
(***************************************************************************)
EXTENDS VfdLifecycle, TLAPS

\* Stages in which no file exists.
NoFiles == {"unbound", "setup", "free", "kfree"}

\* The loop index is in range where it is used.
IndexInv ==
  /\ bus \in {"create", "unlink", "drain"} => i \in 1 .. Len(Attrs)
  /\ live <=> bus # "unbound"

\* The tables are filled up to the count that was read for them.
TablesInv ==
  /\ bus \in {"alloc_leds", "fill_leds"} => num_dotleds = tree.names /\ tree.names > 0
  /\ bus = "fill_leds" => dotleds \in 0 .. num_dotleds - 1
  /\ bus = "fill_keys" => num_keys = tree.keys /\ keys \in 0 .. num_keys - 1

TypeInv == TypeOK /\ IndexInv /\ TablesInv

\* Every step keeps the types and the ranges.
LEMMA TypeNext == TypeInv /\ [Next]_vars => TypeInv'
<1> SUFFICES ASSUME TypeInv, [Next]_vars PROVE TypeInv'
  OBVIOUS
<1> USE LifecycleAssumption
    DEF TypeInv, TypeOK, IndexInv, TablesInv, Stages, RemoveFiles, tables, user, Null, Tree
<1>a. /\ Len(Attrs) \in Nat /\ Len(Attrs) > 0
      /\ \A j \in 1 .. Len(Attrs) : Attrs[j] \in Files
  BY DEF Files
<1>b. tree.names \in Int /\ tree.keys \in Nat
  OBVIOUS
<1>1. CASE Probe
  BY <1>1 DEF Probe
<1>2. CASE Setup
  BY <1>a, <1>2 DEF Setup
<1>3. CASE CreateFile
  BY <1>a, <1>3 DEF CreateFile
<1>4. CASE CountLeds
  BY <1>b, <1>4 DEF CountLeds
<1>5. CASE AllocLeds
  BY <1>b, <1>5 DEF AllocLeds
<1>6. CASE FillLed
  BY <1>b, <1>6 DEF FillLed
<1>7. CASE CountKeys
  BY <1>b, <1>7 DEF CountKeys
<1>8. CASE FillKey
  BY <1>b, <1>8 DEF FillKey
<1>9. CASE AllocateInput \/ RegisterInput \/ Remove
  <2>1. CASE AllocateInput
    BY <1>a, <1>9, <2>1 DEF AllocateInput
  <2>2. CASE RegisterInput
    BY <1>a, <1>9, <2>2 DEF RegisterInput
  <2>3. CASE Remove
    BY <1>a, <1>9, <2>3 DEF Remove
  <2>4. QED BY <1>9, <2>1, <2>2, <2>3
<1>10. CASE Unlink
  BY <1>10 DEF Unlink
<1>11. CASE Drain
  BY <1>a, <1>11 DEF Drain
<1>12. CASE FreeInput \/ Kfree
  BY <1>12 DEF FreeInput, Kfree
<1>13. ASSUME NEW u \in Users,
              Open(u) \/ UserLock(u) \/ UserUnlock(u) \/ NextLed(u) \/ LastLed(u)
       PROVE  TypeInv'
  <2>1. UNCHANGED <<tree, bus, i, live, timer, orphan, files, tables, input>>
    BY <1>13, Zenon DEF Open, UserLock, UserUnlock, NextLed, LastLed
  <2>2. lock' \in Users \cup {Timer, NoOne} /\ fault' \in {"none", "freed", "dotleds"}
    BY <1>13 DEF Open, UserLock, UserUnlock, NextLed, LastLed
  <2>3. at' \in [Users -> Files \cup {Idle}]
    BY <1>13, SMTT(30) DEF Open, UserLock, UserUnlock, AfterSection, NextLed, LastLed
  <2>4. led' \in [Users -> Nat]
    <3>1. \A v \in Users : led[v] \in Nat /\ led[v] + 1 \in Nat
      OBVIOUS
    <3>2. QED BY <1>13, <3>1, SMTT(30)
         DEF Open, UserLock, UserUnlock, AfterSection, NextLed, LastLed
  <2>5. QED BY <2>1, <2>2, <2>3, <2>4
<1>14. CASE Fire \/ Scan \/ Scanned \/ Report \/ Rearm \/ FireFreed
  <2>1. UNCHANGED <<tree, bus, i, live, orphan, files, user, tables, input>>
    BY <1>14, Zenon DEF Fire, Scan, Scanned, Report, Rearm, FireFreed
  <2>2. /\ lock' \in Users \cup {Timer, NoOne} /\ fault' \in {"none", "freed", "dotleds"}
    BY <1>14 DEF Fire, Scan, Scanned, Report, Rearm, FireFreed
  <2>3. timer' \in {"off", "armed", "scan", "scanning", "report", "rest"}
    BY <1>14 DEF Fire, Scan, Scanned, Report, Rearm, FireFreed
  <2>4. IndexInv' /\ TablesInv'
    BY <2>1
  <2>5. TypeOK'
    BY <2>1, <2>2, <2>3
  <2>6. QED BY <2>4, <2>5
<1>15. CASE Halt \/ UNCHANGED vars
  <2>1. UNCHANGED <<tree, bus, i, live, lock, timer, orphan, files, user, tables, input, fault>>
    BY <1>15 DEF Halt, vars
  <2>2. IndexInv' /\ TablesInv'
    BY <2>1
  <2>3. TypeOK'
    BY <2>1
  <2>4. QED BY <2>2, <2>3
<1>16. QED
  BY <1>1, <1>2, <1>3, <1>4, <1>5, <1>6, <1>7, <1>8, <1>9, <1>10, <1>11, <1>12, <1>13, <1>14,
     <1>15 DEF Next, Bus

\* vfd_probe starts from nothing.
LEMMA TypeInit == Init => TypeInv
<1> SUFFICES ASSUME Init PROVE TypeInv
  OBVIOUS
<1>1. Len(Attrs) \in Nat
  BY LifecycleAssumption
<1>2. at \in [Users -> Files \cup {Idle}] /\ led \in [Users -> Nat]
  BY DEF Init
<1>3. IndexInv /\ TablesInv
  BY DEF Init, IndexInv, TablesInv
<1>4. i \in 0 .. Len(Attrs) + 1 /\ num_dotleds \in Int /\ num_keys \in Nat
  BY <1>1 DEF Init
<1>5. QED BY <1>2, <1>3, <1>4, Zenon DEF Init, TypeInv, TypeOK, Stages

\* The structure, the tables and the loop index of probe and remove keep their
\* types, and no table is written past its allocation.
THEOREM TypeCorrect == Spec => []TypeOK
<1>1. TypeInv => TypeOK
  BY DEF TypeInv
<1>2. QED BY <1>1, TypeInit, TypeNext, PTL DEF Spec

-----------------------------------------------------------------------------
\* The first n files of the list.
Below(n) == {Attrs[j] : j \in 1 .. n}

\* The files that exist, and those a process may still be in.
FilesInv ==
  /\ bus \in NoFiles => files = {} /\ \A u \in Users : at[u] = Idle
  /\ bus = "unlink" => files \subseteq Below(i) /\ \A u \in Users : at[u] \in Below(i) \cup {Idle}
  /\ bus = "drain" => /\ files \subseteq Below(i) /\ Attrs[i] \notin files
                      /\ \A u \in Users : at[u] \in Below(i) \cup {Idle}

\* What is below the n-th file, without that one, is below the one before it.
LEMMA BelowPrevious ==
  ASSUME NEW n \in 1 .. Len(Attrs)
  PROVE  Below(n) \ {Attrs[n]} \subseteq Below(n - 1)
BY LifecycleAssumption DEF Below

\* Every step keeps what is known of the files and the processes in them.
LEMMA FilesNext == TypeInv /\ FilesInv /\ [Next]_vars => FilesInv'
<1> SUFFICES ASSUME TypeInv, FilesInv, [Next]_vars PROVE FilesInv'
  OBVIOUS
<1> USE DEF FilesInv, NoFiles, RemoveFiles, user
<1>a. /\ Below(Len(Attrs)) = Files /\ Below(0) = {}
      /\ files \subseteq Files /\ at \in [Users -> Files \cup {Idle}]
  BY LifecycleAssumption DEF Below, Files, TypeInv, TypeOK
<1>1. CASE Probe \/ Setup \/ CountLeds \/ AllocLeds \/ FillLed \/ CountKeys \/ FillKey
  BY <1>1 DEF Probe, Setup, CountLeds, AllocLeds, FillLed, CountKeys, FillKey
<1>2. CASE CreateFile
  BY <1>a, <1>2 DEF CreateFile
<1>3. CASE AllocateInput \/ RegisterInput \/ Remove
  BY <1>a, <1>3 DEF AllocateInput, RegisterInput, Remove
<1>4. CASE Unlink
  BY <1>4 DEF Unlink
<1>5. CASE Drain
  <2>1. /\ i \in 1 .. Len(Attrs) /\ i' = i - 1 /\ bus' = IF i = 1 THEN "free" ELSE "unlink"
        /\ UNCHANGED <<files, at>>
    BY <1>5 DEF Drain, TypeInv, IndexInv
  <2>2. files \subseteq Below(i - 1) /\ \A u \in Users : at[u] \in Below(i - 1) \cup {Idle}
    BY <1>5, <2>1, BelowPrevious DEF Drain
  <2>3. i = 1 => files = {} /\ \A u \in Users : at[u] = Idle
    BY <1>a, <2>2
  <2>4. QED BY <2>1, <2>2, <2>3
<1>6. CASE FreeInput \/ Kfree
  BY <1>6 DEF FreeInput, Kfree
<1>7. ASSUME NEW u \in Users, Open(u) PROVE FilesInv'
  BY <1>a, <1>7 DEF Open
<1>8. ASSUME NEW u \in Users, UserUnlock(u) \/ LastLed(u) PROVE FilesInv'
  BY <1>a, <1>8 DEF UserUnlock, AfterSection, LastLed
<1>9. ASSUME NEW u \in Users, UserLock(u) \/ NextLed(u) PROVE FilesInv'
  BY <1>9 DEF UserLock, NextLed
<1>10. CASE Fire \/ Scan \/ Scanned \/ Report \/ Rearm \/ FireFreed
  BY <1>10 DEF Fire, Scan, Scanned, Report, Rearm, FireFreed
<1>11. CASE Halt \/ UNCHANGED vars
  BY <1>11 DEF Halt, vars
<1>12. QED
  BY <1>1, <1>2, <1>3, <1>4, <1>5, <1>6, <1>7, <1>8, <1>9, <1>10, <1>11 DEF Next, Bus

\* No handler of a sysfs file runs without the structure, and no file is left
\* when the device is unbound, whichever step of the set-up failed.
THEOREM HandlersSafe == Spec => [](HandlersFindDevice /\ UnboundHasNoFiles)
<1>1. Init => FilesInv
  BY DEF Init, FilesInv, NoFiles, user
<1>2. TypeInv /\ FilesInv => HandlersFindDevice /\ UnboundHasNoFiles
  BY DEF TypeInv, IndexInv, FilesInv, NoFiles, HandlersFindDevice, UnboundHasNoFiles
<1>3. QED BY <1>1, <1>2, TypeInit, TypeNext, FilesNext, PTL DEF Spec

\* A device that is not bound has no file left in sysfs, whichever step of vfd_probe
\* failed and wherever its error path was entered.
THEOREM FilesGone == Spec => []UnboundHasNoFiles
<1>1. HandlersFindDevice /\ UnboundHasNoFiles => UnboundHasNoFiles
  OBVIOUS
<1>2. QED BY <1>1, HandlersSafe, PTL

-----------------------------------------------------------------------------
\* Stages in which the table of keys may be unfinished.
KeysUnready == {"setup", "create", "count_leds", "alloc_leds", "fill_leds", "count_keys",
                "fill_keys", "input"}
Scanning == {"scan", "scanning", "report"}

\* With an input device the table of keys is complete, and the timer handler
\* scans only when there is one.
KeysInv ==
  /\ timer \in Scanning => input # "null"
  /\ input # "null" => keys = num_keys /\ bus \notin KeysUnready
  /\ bus \in {"input", "register"} => keys = num_keys
  /\ bus \in {"unbound", "setup"} => timer = "off"

\* Every step keeps the order of the key table, the input device and the scan.
LEMMA KeysNext == TypeInv /\ KeysInv /\ [Next]_vars => KeysInv'
<1> SUFFICES ASSUME TypeInv, KeysInv, [Next]_vars PROVE KeysInv'
  OBVIOUS
<1> USE DEF KeysInv, KeysUnready, Scanning, RemoveFiles, tables, user
<1>1. CASE Probe \/ Setup \/ CreateFile \/ CountLeds \/ AllocLeds \/ FillLed
  BY <1>1 DEF Probe, Setup, CreateFile, CountLeds, AllocLeds, FillLed
<1>2. CASE CountKeys \/ FillKey
  BY <1>2 DEF CountKeys, FillKey
<1>3. CASE AllocateInput \/ RegisterInput \/ Remove
  BY <1>3 DEF AllocateInput, RegisterInput, Remove
<1>4. CASE Unlink \/ Drain \/ FreeInput \/ Kfree
  BY <1>4 DEF Unlink, Drain, FreeInput, Kfree
<1>5. ASSUME NEW u \in Users,
             Open(u) \/ UserLock(u) \/ UserUnlock(u) \/ NextLed(u) \/ LastLed(u)
      PROVE  KeysInv'
  BY <1>5 DEF Open, UserLock, UserUnlock, NextLed, LastLed
<1>6. CASE Fire \/ Scan \/ Scanned \/ Report \/ Rearm \/ FireFreed
  BY <1>6 DEF Fire, Scan, Scanned, Report, Rearm, FireFreed
<1>7. CASE Halt \/ UNCHANGED vars
  BY <1>7 DEF Halt, vars
<1>8. QED
  BY <1>1, <1>2, <1>3, <1>4, <1>5, <1>6, <1>7 DEF Next, Bus

\* The timer handler never looks a key up in an unfinished table, although the
\* timer is armed before the table is allocated.
THEOREM KeysComplete == Spec => []KeysReady
<1>1. Init => KeysInv
  BY DEF Init, KeysInv, Scanning
<1>2. KeysInv => KeysReady
  BY DEF KeysInv, KeysReady, Scanning
<1>3. QED BY <1>1, <1>2, TypeInit, TypeNext, KeysNext, PTL DEF Spec
=============================================================================
