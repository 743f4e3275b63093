--------------------------- MODULE WodLog_proofs ---------------------------
(***************************************************************************)
(* Theorems about the logger of WodLog, for every value of its constants.  *)
(***************************************************************************)
EXTENDS WodLog, TLAPS

(* The steps of init_wodlog, where the loop of wod_init is under way. *)
Writing == {"removeOld", "createLog", "writeMagic", "writeTime", "writeFirst"}

(* The loop's counter is spent outside of the loop. *)
TriesInv == tries = 0 \/ pc \in Writing \cup {"writeNum"}

-----------------------------------------------------------------------------
(* The daemon's modulo brings any number back into the ring. *)
LEMMA NextInRingType ==
  ASSUME NEW n \in Nat
  PROVE  NextInRing(n) \in 0 .. MaxNum
  BY ConstantsAssumption DEF NextInRing

(* Writing one field of one file, which need not exist. *)
LEMMA ExceptHdr ==
  ASSUME NEW l \in [Names -> File], NEW f, NEW h \in -1 .. 2
  PROVE  [l EXCEPT ![f].hdr = h] \in [Names -> File]
  BY DEF File

LEMMA ExceptTime ==
  ASSUME NEW l \in [Names -> File], NEW f, NEW h \in -1 .. 2, NEW t \in Nat
  PROVE  [l EXCEPT ![f].hdr = h, ![f].time = t] \in [Names -> File]
  BY DEF File

LEMMA ExceptCount ==
  ASSUME NEW l \in [Names -> File], NEW f, NEW n \in Nat
  PROVE  [l EXCEPT ![f].n = n] \in [Names -> File]
  BY DEF File

(* Each call on a file leaves well-formed log files, whatever the path     *)
(* names.                                                                  *)
LEMMA FilesType == NoFile \in File /\ NewFile \in File /\ FirstLog \in File
  BY DEF NoFile, NewFile, FirstLog, File

LEMMA CallsType ==
  ASSUME log \in [Names -> File], clock \in Nat, NEW f
  PROVE  {Removed(f), Opened(f), Created(f), WithMagic(f), WithTime(f),
          WithFirst(f), WithNext(f)} \subseteq [Names -> File]
<1>1. Removed(f) \in [Names -> File]
  BY FilesType DEF Removed
<1>2. Opened(f) \in [Names -> File]
  BY FilesType DEF Opened
<1>3. Created(f) \in [Names -> File]
  BY <1>2, FilesType DEF Created
<1>4. WithMagic(f) \in [Names -> File]
  <2> DEFINE h == IF log[f].hdr = 2 THEN 2 ELSE 1
  <2>1. WithMagic(f) = [log EXCEPT ![f].hdr = h]
    BY DEF WithMagic
  <2>2. h \in -1 .. 2
    OBVIOUS
  <2> HIDE DEF h
  <2>3. [log EXCEPT ![f].hdr = h] \in [Names -> File]
    BY <2>2, ExceptHdr
  <2> QED
    BY <2>1, <2>3
<1>5. WithTime(f) \in [Names -> File]
  <2>1. 2 \in -1 .. 2
    OBVIOUS
  <2> QED
    BY <2>1, ExceptTime DEF WithTime
<1>6. WithFirst(f) \in [Names -> File]
  <2>1. CASE f \in Names
    <3> DEFINE m == IF log[f].n = 0 THEN 1 ELSE log[f].n
    <3>1. m \in Nat
      BY <2>1 DEF File
    <3>2. WithFirst(f) = [log EXCEPT ![f].n = m]
      BY DEF WithFirst
    <3> HIDE DEF m
    <3>3. [log EXCEPT ![f].n = m] \in [Names -> File]
      BY <3>1, ExceptCount
    <3> QED
      BY <3>2, <3>3
  <2>2. CASE f \notin Names
    BY <2>2 DEF WithFirst
  <2> QED
    BY <2>1, <2>2
<1>7. WithNext(f) \in [Names -> File]
  <2>1. CASE f \in Names
    <3> DEFINE m == log[f].n + 1
    <3>1. m \in Nat
      BY <2>1 DEF File
    <3>2. WithNext(f) = [log EXCEPT ![f].n = m]
      BY DEF WithNext
    <3> HIDE DEF m
    <3>3. [log EXCEPT ![f].n = m] \in [Names -> File]
      BY <3>1, ExceptCount
    <3> QED
      BY <3>2, <3>3
  <2>2. CASE f \notin Names
    BY <2>2 DEF WithNext
  <2> QED
    BY <2>1, <2>2
<1> QED
  BY <1>1, <1>2, <1>3, <1>4, <1>5, <1>6, <1>7

(* TypeOK is inductive once the loop's counter is known to be spent        *)
(* outside of the loop: wod_init's numbers then stay below LastName.       *)
LEMMA TypeInit == Init => TypeOK /\ TriesInv
<1> SUFFICES ASSUME Init
             PROVE  TypeOK /\ TriesInv
  OBVIOUS
<1> USE ConstantsAssumption DEF Init, LastName, Names, Absent, Blank, Unset
<1>1. NoFile \in File /\ FirstLog \in File
  BY DEF NoFile, FirstLog, File
<1>2. log \in [Names -> File]
  BY <1>1
<1>3. enable \in BOOLEAN /\ previous \in BOOLEAN /\ wanted \in BOOLEAN
  OBVIOUS
<1>4. wodnum \in {Absent, Blank} \cup Names
  OBVIOUS
<1>5. number \in 0 .. (LastName - tries) /\ tries \in 0 .. Tries /\ arg \in Names
  OBVIOUS
<1> QED
  BY <1>2, <1>3, <1>4, <1>5 DEF TypeOK, TriesInv

LEMMA TypeStep == TypeOK /\ TriesInv /\ [Next]_vars => TypeOK' /\ TriesInv'
<1> SUFFICES ASSUME TypeOK, TriesInv, [Next]_vars
             PROVE  TypeOK' /\ TriesInv'
  OBVIOUS
<1>0. /\ Removed(path) \in [Names -> File]
      /\ Removed(arg) \in [Names -> File]
      /\ Opened(path) \in [Names -> File]
      /\ Created(path) \in [Names -> File]
      /\ WithMagic(path) \in [Names -> File]
      /\ WithTime(path) \in [Names -> File]
      /\ WithFirst(path) \in [Names -> File]
      /\ WithNext(path) \in [Names -> File]
  BY CallsType DEF TypeOK
<1> USE ConstantsAssumption DEF TypeOK, TriesInv, Names, LastName, Writing,
        Absent, Blank, Unset, Ok, Fault, Goto, env, card
<1>1. CASE ReadNum
  BY <1>1 DEF ReadNum, Return
<1>2. CASE CreateNum
  BY <1>2 DEF CreateNum, Return, OpenedNum
<1>3. CASE WriteFresh
  BY <1>3 DEF WriteFresh, Return, SetWodnum
<1>4. CASE ReopenNum
  BY <1>4 DEF ReopenNum, Return, OpenedNum, NextNumber
<1>5. CASE WriteNum
  BY <1>5 DEF WriteNum, SetWodnum
<1>6. CASE RemoveOld
  BY <1>0, <1>6 DEF RemoveOld
<1>7. CASE CreateLog
  BY <1>0, <1>7 DEF CreateLog, InitFailed, Return
<1>8. CASE WriteMagic
  BY <1>0, <1>8 DEF WriteMagic, InitFailed, Return
<1>9. CASE WriteTime
  BY <1>0, <1>9 DEF WriteTime, InitFailed, Return
<1>10. CASE WriteFirst
  BY <1>0, <1>10 DEF WriteFirst, InitFailed, Return
<1>11. CASE LogTick
  <2>1. entry % Wrap \in Nat
    OBVIOUS
  <2>2. /\ iter' = Passed /\ entry' = entry % Wrap
        /\ log' = log \/ log' = Opened(path)
        /\ (pc' = "append" /\ job' = "log") \/ UNCHANGED <<pc, job>>
        /\ faults' = faults \/ faults' = faults + 1
        /\ pc = "idle" /\ enable' = enable
        /\ UNCHANGED <<wodnum, number, path, previous, arg, tries>>
        /\ UNCHANGED <<clock, crashes, cmds, wanted>>
    BY <1>11, Zenon DEF LogTick
  <2> QED
    BY <1>0, <2>1, <2>2 DEF Passed
<1>12. CASE AppendRecord
  BY <1>0, <1>12 DEF AppendRecord, Return
<1>13. CASE Rotate
  <2>1. NextInRing(number) \in 0 .. MaxNum
    BY NextInRingType
  <2>2. /\ iter' = 0 /\ entry' = 0
        /\ number' = NextInRing(number) /\ path' = NextInRing(number)
        /\ wodnum' = wodnum \/ wodnum' = OpenedNum
        /\ (pc' = "writeRotate" /\ job' = "log") \/ UNCHANGED <<pc, job>>
        /\ faults' = faults \/ faults' = faults + 1
        /\ pc = "idle" /\ enable' = enable
        /\ UNCHANGED <<log, previous, arg, tries>>
        /\ UNCHANGED <<clock, crashes, cmds, wanted>>
    BY <1>13, Zenon DEF Rotate, RestartCount
  <2> QED
    BY <2>1, <2>2 DEF OpenedNum
<1>14. CASE WriteRotate
  BY <1>14 DEF WriteRotate, SetWodnum
<1>15. CASE WriteZero
  BY <1>15 DEF WriteZero, SetWodnum
<1>16. CASE Purge
  BY <1>0, <1>16 DEF Purge
<1>17. CASE OpenCmd
  <2>1. enable' \in BOOLEAN
    BY <1>17 DEF OpenCmd, CmdFailed
  <2> QED
    BY <1>17, <2>1 DEF OpenCmd, CmdFailed, OpenedNum
<1>18. CASE WriteCmd
  <2>1. enable' \in BOOLEAN
    BY <1>18 DEF WriteCmd, CmdFailed, Return
  <2> QED
    BY <1>18, <2>1 DEF WriteCmd, CmdFailed, SetWodnum, Return
<1>19. CASE Shell
  <2>1. enable' \in BOOLEAN /\ previous' \in BOOLEAN /\ wanted' \in BOOLEAN
    BY <1>19 DEF Shell, CmdOn, CmdOff, CmdRmall, CmdReset, CmdSet, Arrives, SwitchOff
  <2>2. CASE CmdOn \/ CmdOff
    <3>1. /\ cmds' = cmds + 1
          /\ UNCHANGED <<wodnum, log, number, entry, iter, path>>
          /\ UNCHANGED <<pc, job, arg, tries, clock, crashes, faults>>
      BY <2>2, Zenon DEF CmdOn, CmdOff, Arrives
    <3> QED
      BY <2>1, <3>1
  <2>3. CASE CmdRmall
    BY <2>1, <2>3 DEF CmdRmall, Arrives, SwitchOff, OpenedNum
  <2>4. CASE CmdReset
    BY <2>1, <2>4 DEF CmdReset, Arrives, SwitchOff
  <2>5. CASE CmdSet
    BY <2>1, <2>5 DEF CmdSet, Arrives, SwitchOff
  <2> QED
    BY <1>19, <2>2, <2>3, <2>4, <2>5 DEF Shell
<1>20. CASE Tick
  BY <1>20 DEF Tick
<1>21. CASE Crash
  <2>1. enable' \in BOOLEAN /\ previous' \in BOOLEAN /\ wanted' \in BOOLEAN
    BY <1>21 DEF Crash
  <2> QED
    BY <1>21, <2>1 DEF Crash
<1>22. CASE UNCHANGED vars
  BY <1>22 DEF vars
<1> QED
  BY <1>1, <1>2, <1>3, <1>4, <1>5, <1>6, <1>7, <1>8, <1>9, <1>10, <1>11, <1>12,
     <1>13, <1>14, <1>15, <1>16, <1>17, <1>18, <1>19, <1>20, <1>21, <1>22
  DEF Next, System, WodInit, InitWodlog, WodLogging, Handling

(* Whatever fails and whenever the computer is reset, the variables keep   *)
(* their types and the numbers of wod_init stay within LastName.           *)
THEOREM TypeCorrect == Spec => []TypeOK
<1>1. TypeOK /\ TriesInv /\ [Next]_vars => (TypeOK /\ TriesInv)'
  BY TypeStep
<1> QED
  BY TypeInit, <1>1, PTL DEF Spec

-----------------------------------------------------------------------------
(* CounterBound needs to know which numbers stand ready to be written.     *)
BoundInv ==
  /\ CounterBound
  /\ pc \in {"writeFresh", "writeNum", "writeRotate"} => number <= MaxNum + 1
  /\ pc \in {"openCmd", "writeCmd"} => arg <= MaxNum

LEMMA BoundStep == TypeOK /\ BoundInv /\ [Next]_vars => BoundInv'
<1> SUFFICES ASSUME TypeOK, BoundInv, [Next]_vars
             PROVE  BoundInv'
  OBVIOUS
<1>0. number \in Nat /\ arg \in Nat /\ wodnum \in Int /\ tries \in Nat
  BY ConstantsAssumption DEF TypeOK, Names, LastName, Absent, Blank
<1> USE ConstantsAssumption, <1>0
    DEF BoundInv, CounterBound, Absent, Blank, Goto, env, card
<1>1. CASE ReadNum
  BY <1>1 DEF ReadNum, Return
<1>2. CASE CreateNum
  BY <1>2 DEF CreateNum, Return, OpenedNum
<1>3. CASE WriteFresh
  BY <1>3 DEF WriteFresh, Return, SetWodnum
<1>4. CASE ReopenNum
  BY <1>4 DEF ReopenNum, Return, OpenedNum, NextNumber
<1>5. CASE WriteNum
  BY <1>5 DEF WriteNum, SetWodnum
<1>6. CASE InitWodlog
  <2>1. wodnum' = wodnum /\ pc' \in Writing \cup {"idle"}
    BY <1>6 DEF InitWodlog, RemoveOld, CreateLog, WriteMagic, WriteTime,
         WriteFirst, InitFailed, Return, Writing
  <2> QED
    BY <2>1 DEF Writing
<1>7. CASE LogTick
  <2>1. wodnum' = wodnum /\ pc' \in {"idle", "append"}
    BY <1>7, Zenon DEF LogTick
  <2> QED
    BY <2>1
<1>8. CASE AppendRecord
  BY <1>8 DEF AppendRecord, Return
<1>9. CASE Rotate
  <2>1. NextInRing(number) \in 0 .. MaxNum
    BY NextInRingType
  <2>2. /\ number' = NextInRing(number) /\ arg' = arg
        /\ wodnum' = wodnum \/ wodnum' = OpenedNum
        /\ pc' \in {"idle", "writeRotate"}
    BY <1>9, Zenon DEF Rotate
  <2> QED
    BY <2>1, <2>2 DEF OpenedNum
<1>10. CASE WriteRotate
  BY <1>10 DEF WriteRotate, SetWodnum
<1>11. CASE WriteZero
  BY <1>11 DEF WriteZero, SetWodnum
<1>12. CASE Purge
  BY <1>12 DEF Purge
<1>13. CASE OpenCmd
  BY <1>13 DEF OpenCmd, CmdFailed, OpenedNum
<1>14. CASE WriteCmd
  BY <1>14 DEF WriteCmd, CmdFailed, SetWodnum, Return
<1>15. CASE CmdOn \/ CmdOff
  <2>1. UNCHANGED <<wodnum, number, arg, pc>>
    BY <1>15, Zenon DEF CmdOn, CmdOff
  <2> QED
    BY <2>1
<1>16. CASE CmdRmall
  BY <1>16 DEF CmdRmall, OpenedNum
<1>17. CASE CmdReset \/ CmdSet
  BY <1>17 DEF CmdReset, CmdSet
<1>18. CASE Tick \/ Crash
  BY <1>18 DEF Tick, Crash
<1>19. CASE UNCHANGED vars
  BY <1>19 DEF vars
<1> QED
  BY <1>1, <1>2, <1>3, <1>4, <1>5, <1>6, <1>7, <1>8, <1>9, <1>10, <1>11, <1>12,
     <1>13, <1>14, <1>15, <1>16, <1>17, <1>18, <1>19
  DEF Next, System, WodInit, WodLogging, Handling, Shell

(* However often the computer is reset and whichever calls fail, the card  *)
(* never holds a number further than one past the ring.                    *)
THEOREM CounterBounded == Spec => []CounterBound
<1>1. Init => BoundInv
  BY ConstantsAssumption DEF Init, BoundInv, CounterBound, Absent
<1>2. BoundInv => CounterBound
  BY DEF BoundInv
<1> QED
  BY TypeCorrect, BoundStep, <1>1, <1>2, PTL DEF Spec

-----------------------------------------------------------------------------
(* On a driver whose fopen("w") keeps the file, as fat.c does, a counter   *)
(* that is on the card stays readable.                                     *)
LEMMA ReadableStep ==
  ASSUME ~Truncates
  PROVE  TypeOK /\ CounterReadable /\ [Next]_vars => CounterReadable'
<1> SUFFICES ASSUME TypeOK, CounterReadable, [Next]_vars
             PROVE  CounterReadable'
  OBVIOUS
<1>0. number \in Nat /\ arg \in Nat /\ OpenedNum = wodnum
  BY ConstantsAssumption DEF TypeOK, Names, LastName, CounterReadable, OpenedNum, Absent
<1>1. CASE WodInit
  BY <1>0, <1>1 DEF WodInit, ReadNum, CreateNum, WriteFresh, ReopenNum, WriteNum,
       SetWodnum, CounterReadable
<1>2. CASE InitWodlog
  BY <1>2 DEF InitWodlog, RemoveOld, CreateLog, WriteMagic, WriteTime, WriteFirst,
       CounterReadable
<1>3. CASE WodLogging
  <2>1. wodnum' = wodnum \/ wodnum' = OpenedNum \/ wodnum' = number
    BY <1>3, Zenon DEF WodLogging, LogTick, AppendRecord, Rotate, WriteRotate, SetWodnum
  <2> QED
    BY <1>0, <2>1 DEF CounterReadable
<1>4. CASE Handling
  BY <1>0, <1>4 DEF Handling, WriteZero, Purge, OpenCmd, WriteCmd, SetWodnum,
       card, CounterReadable
<1>5. CASE Shell
  <2>1. wodnum' = wodnum \/ wodnum' = OpenedNum
    BY <1>5, Zenon DEF Shell, CmdOn, CmdOff, CmdRmall, CmdReset, CmdSet, card
  <2> QED
    BY <1>0, <2>1 DEF CounterReadable
<1>6. CASE Tick \/ Crash \/ UNCHANGED vars
  BY <1>6 DEF Tick, Crash, vars, card, CounterReadable
<1> QED
  BY <1>1, <1>2, <1>3, <1>4, <1>5, <1>6 DEF Next, System

(* A boot never finds /sd/wodnum without a number on a card that once held *)
(* one: no reset and no failed call stops the logger for good.             *)
THEOREM CounterStaysReadable ==
  ASSUME ~Truncates, Formatted
  PROVE  Spec => []CounterReadable
<1>1. Init => CounterReadable
  BY DEF Init, CounterReadable
<1>2. TypeOK /\ CounterReadable /\ [Next]_vars => CounterReadable'
  BY ReadableStep
<1> QED
  BY TypeCorrect, <1>1, <1>2, PTL DEF Spec

-----------------------------------------------------------------------------
(* Who keeps the operator's wish: wod_enable itself, or previous while a   *)
(* long command has switched the logger off.                               *)
Long == {"rmall", "reset", "set"}
Keeper == IF job \in Long THEN previous ELSE enable
JobInv ==
  /\ pc = "idle" => job = "none"
  /\ pc \in {"openCmd", "writeCmd"} => job \in {"reset", "set"}
OnInv == JobInv /\ (wanted => Keeper)

LEMMA OnStep == OnInv /\ [Next]_vars => OnInv'
<1> SUFFICES ASSUME OnInv, [Next]_vars
             PROVE  OnInv'
  OBVIOUS
<1> USE DEF OnInv, JobInv, Keeper, Long, Goto, env
<1>1. CASE WodInit
  <2>1. CASE ReadNum
    BY <2>1 DEF ReadNum, Return
  <2>2. CASE CreateNum
    BY <2>2 DEF CreateNum, Return
  <2>5. CASE WriteFresh
    BY <2>5 DEF WriteFresh, SetWodnum, Return
  <2>3. CASE ReopenNum
    BY <2>3 DEF ReopenNum, Return
  <2>4. CASE WriteNum
    BY <2>4 DEF WriteNum
  <2> QED
    BY <1>1, <2>1, <2>2, <2>3, <2>4, <2>5 DEF WodInit
<1>2. CASE InitWodlog
  BY <1>2 DEF InitWodlog, RemoveOld, CreateLog, WriteMagic, WriteTime, WriteFirst,
       InitFailed, Return
<1>3. CASE LogTick \/ AppendRecord
  BY <1>3 DEF LogTick, AppendRecord, Return
<1>4. CASE Rotate \/ WriteRotate
  BY <1>4 DEF Rotate, WriteRotate
<1>5. CASE WriteZero \/ Purge
  BY <1>5 DEF WriteZero, Purge
<1>6. CASE OpenCmd \/ WriteCmd
  <2>1. CASE CmdFailed
    <3>1. wanted => previous
      BY <1>6 DEF OpenCmd, WriteCmd
    <3>2. wanted' = wanted
      BY <1>6, Zenon DEF OpenCmd, WriteCmd
    <3>3. pc' = "idle" /\ job' = "none"
      BY <2>1 DEF CmdFailed
    <3>4. wanted' => enable'
      BY <2>1, <3>1, <3>2, Zenon DEF CmdFailed
    <3> QED
      BY <3>3, <3>4
  <2>2. CASE Return
    BY <1>6, <2>2 DEF OpenCmd, WriteCmd, SetWodnum, Return
  <2>3. CASE Goto("writeCmd") \/ Goto("removeOld")
    BY <1>6, <2>3 DEF OpenCmd, WriteCmd, SetWodnum
  <2> QED
    BY <1>6, <2>1, <2>2, <2>3, Zenon DEF OpenCmd, WriteCmd
<1>7. CASE CmdOn \/ CmdOff
  BY <1>7 DEF CmdOn, CmdOff, Arrives
<1>8. CASE CmdRmall \/ CmdReset \/ CmdSet
  BY <1>8 DEF CmdRmall, CmdReset, CmdSet, Arrives, SwitchOff
<1>9. CASE Tick \/ Crash \/ UNCHANGED vars
  BY <1>9 DEF Tick, Crash, vars
<1> QED
  BY <1>1, <1>2, <1>3, <1>4, <1>5, <1>6, <1>7, <1>8, <1>9
  DEF Next, System, WodLogging, Handling, Shell

(* An operator who left the logger on finds it on after any command,       *)
(* whichever of its calls failed and however often the computer was reset. *)
THEOREM LoggerStaysOn == Spec => []OnStaysOn
<1>1. Init => OnInv
  BY DEF Init, OnInv, JobInv, Keeper, Long
<1>2. OnInv => OnStaysOn
  BY DEF OnInv, JobInv, Keeper, Long, OnStaysOn, Idle
<1> QED
  BY OnStep, <1>1, <1>2, PTL DEF Spec

-----------------------------------------------------------------------------
(* What follows supposes that no call on the card fails. *)
NoFaults == faults = 0

LEMMA NoFaultsStep ==
  ASSUME MaxFaults = 0
  PROVE  NoFaults /\ [Next]_vars => NoFaults' /\ ~Fault
<1> SUFFICES ASSUME NoFaults, [Next]_vars
             PROVE  NoFaults' /\ ~Fault
  OBVIOUS
<1>1. ~Fault
  BY DEF Fault, NoFaults
<1>2. Ok => NoFaults'
  BY DEF Ok, NoFaults
<1>3. CASE WodInit
  BY <1>1, <1>2, <1>3, Zenon
  DEF WodInit, ReadNum, CreateNum, WriteFresh, ReopenNum, WriteNum, SetWodnum
<1>4. CASE InitWodlog
  BY <1>1, <1>2, <1>4, Zenon
  DEF InitWodlog, RemoveOld, CreateLog, WriteMagic, WriteTime, WriteFirst
<1>5. CASE WodLogging
  BY <1>1, <1>2, <1>5, Zenon
  DEF WodLogging, LogTick, AppendRecord, Rotate, WriteRotate, SetWodnum
<1>6. CASE Handling
  BY <1>1, <1>2, <1>6, Zenon
  DEF Handling, WriteZero, Purge, OpenCmd, WriteCmd, SetWodnum
<1>7. CASE Shell
  BY <1>1, <1>2, <1>7, Zenon
  DEF Shell, CmdOn, CmdOff, CmdRmall, CmdReset, CmdSet, Ok
<1>8. CASE Tick \/ Crash \/ UNCHANGED vars
  BY <1>1, <1>2, <1>8, Zenon DEF Tick, Crash, vars, Ok
<1> QED
  BY <1>1, <1>3, <1>4, <1>5, <1>6, <1>7, <1>8 DEF Next, System

(* Where the card and the memory name one log, and where only a boot or a  *)
(* write still to come can tell.                                           *)
AgreeInv ==
  /\ pc \in Writing \cup {"append"} => wodnum = number /\ path = number
  /\ CounterAgrees
  /\ pc = "purge" => wodnum = 0 /\ number = 0 /\ path = 0
  /\ pc = "readNum" => path = Unset \/ (wodnum = 0 /\ number = 0 /\ path = 0)
  /\ pc = "createNum" => wodnum = Absent
  /\ wodnum = Absent => pc \in {"readNum", "createNum"}
  /\ pc = "reopenNum" => arg = wodnum

LEMMA AgreeStep ==
  ASSUME MaxFaults = 0
  PROVE  NoFaults /\ TypeOK /\ AgreeInv /\ [Next]_vars => AgreeInv'
<1> SUFFICES ASSUME NoFaults, TypeOK, AgreeInv, [Next]_vars
             PROVE  AgreeInv'
  OBVIOUS
<1>0. ~Fault
  BY NoFaultsStep
<1>00. /\ number \in Nat /\ arg \in Nat
       /\ wodnum \in Nat \/ wodnum = Blank \/ wodnum = Absent
  BY ConstantsAssumption DEF TypeOK, Names, LastName
<1> USE ConstantsAssumption, <1>0, <1>00
    DEF AgreeInv, CounterAgrees, Idle, Writing, Absent, Blank, Unset, Goto, env, card
<1>1. CASE ReadNum
  BY <1>1 DEF ReadNum, Return
<1>2. CASE CreateNum
  BY <1>2 DEF CreateNum, OpenedNum
<1>3. CASE WriteFresh
  BY <1>3 DEF WriteFresh, SetWodnum
<1>4. CASE ReopenNum
  BY <1>4 DEF ReopenNum, OpenedNum
<1>5. CASE WriteNum
  BY <1>5 DEF WriteNum, SetWodnum
<1>6. CASE InitWodlog
  <2>1. /\ UNCHANGED <<wodnum, number, path>> /\ pc' \in Writing \cup {"idle"}
        /\ pc \in Writing
    BY <1>6 DEF InitWodlog, RemoveOld, CreateLog, WriteMagic, WriteTime,
         WriteFirst, Return
  <2> QED
    BY <2>1
<1>7. CASE LogTick
  <2>1. /\ UNCHANGED <<wodnum, number, path>> /\ pc = "idle"
        /\ pc' = "idle" \/ (pc' = "append" /\ path # Unset)
    BY <1>7, Zenon DEF LogTick
  <2> QED
    BY <2>1
<1>8. CASE AppendRecord
  BY <1>8 DEF AppendRecord, Return
<1>9. CASE Rotate
  <2>1. wodnum' = OpenedNum /\ pc' = "writeRotate" /\ pc = "idle"
    BY <1>9, Zenon DEF Rotate
  <2> QED
    BY <2>1 DEF OpenedNum
<1>10. CASE WriteRotate
  BY <1>10 DEF WriteRotate, SetWodnum
<1>11. CASE WriteZero
  BY <1>11 DEF WriteZero, SetWodnum
<1>12. CASE Purge
  BY <1>12 DEF Purge
<1>13. CASE OpenCmd
  BY <1>13 DEF OpenCmd, OpenedNum
<1>14. CASE WriteCmd
  BY <1>14 DEF WriteCmd, SetWodnum, Return
<1>15. CASE CmdOn \/ CmdOff
  <2>1. UNCHANGED <<wodnum, number, path, arg, pc>>
    BY <1>15, Zenon DEF CmdOn, CmdOff
  <2> QED
    BY <2>1
<1>16. CASE CmdRmall
  BY <1>16 DEF CmdRmall, Arrives, OpenedNum
<1>17. CASE CmdReset \/ CmdSet
  BY <1>17 DEF CmdReset, CmdSet, Arrives
<1>18. CASE Tick \/ Crash
  BY <1>18 DEF Tick, Crash
<1>19. CASE UNCHANGED vars
  BY <1>19 DEF vars
<1> QED
  BY <1>1, <1>2, <1>3, <1>4, <1>5, <1>6, <1>7, <1>8, <1>9, <1>10, <1>11, <1>12,
     <1>13, <1>14, <1>15, <1>16, <1>17, <1>18, <1>19
  DEF Next, System, WodInit, WodLogging, Handling, Shell

(* Resets of the computer alone, wherever they strike, never leave the     *)
(* logger writing to another log than the one the card names.              *)
THEOREM CardAndMemoryAgree ==
  ASSUME MaxFaults = 0
  PROVE  Spec => []CounterAgrees
<1>1. Init => NoFaults /\ AgreeInv
  BY DEF Init, NoFaults, AgreeInv, CounterAgrees, Idle, Writing, Absent, Unset
<1>2. AgreeInv => CounterAgrees
  BY DEF AgreeInv
<1>3. NoFaults /\ [Next]_vars => NoFaults'
  BY NoFaultsStep
<1>4. NoFaults /\ TypeOK /\ AgreeInv /\ [Next]_vars => AgreeInv'
  BY AgreeStep
<1> QED
  BY TypeCorrect, <1>1, <1>2, <1>3, <1>4, PTL DEF Spec

-----------------------------------------------------------------------------
(* The header of the log that path names is complete whenever wod_log may  *)
(* open it.  The command "reset" is left out: it points path at log 0 and  *)
(* does not create it.                                                     *)
HeaderInv ==
  /\ pc \in {"idle", "append", "writeFirst"} /\ path # Unset => log[path].hdr = 2
  /\ job # "reset"

LEMMA HeaderStep ==
  ASSUME MaxFaults = 0, "reset" \notin Commands
  PROVE  NoFaults /\ TypeOK /\ AgreeInv /\ HeaderInv /\ [Next]_vars => HeaderInv'
<1> SUFFICES ASSUME NoFaults, TypeOK, AgreeInv, HeaderInv, [Next]_vars
             PROVE  HeaderInv'
  OBVIOUS
<1>0. ~Fault
  BY NoFaultsStep
<1>00. /\ path \in {Unset} \cup Names /\ log \in [Names -> File]
       /\ pc \in Writing \cup {"append"} => path \in Names
  BY ConstantsAssumption DEF TypeOK, AgreeInv, Names, LastName
<1> USE <1>0, <1>00 DEF HeaderInv, Goto, env, card
<1>1. CASE ReadNum
  BY <1>1 DEF ReadNum, Return, AgreeInv, Blank
<1>2. CASE CreateNum \/ ReopenNum \/ WriteNum
  BY <1>2 DEF CreateNum, ReopenNum, WriteNum
<1>3. CASE WriteFresh
  BY <1>3 DEF WriteFresh, SetWodnum
<1>4. CASE RemoveOld \/ CreateLog \/ WriteMagic
  BY <1>4 DEF RemoveOld, CreateLog, WriteMagic
<1>5. CASE WriteTime
  <2>1. log'[path].hdr = 2
    BY <1>5 DEF WriteTime, WithTime, Writing, File
  <2>2. path' = path
    BY <1>5, Zenon DEF WriteTime
  <2>3. job' = job \/ job' = "none"
    BY <1>5, Zenon DEF WriteTime, Return
  <2> QED
    BY <2>1, <2>2, <2>3
<1>6. CASE WriteFirst
  <2>1. log'[path].hdr = log[path].hdr
    BY <1>6 DEF WriteFirst, WithFirst, Writing, File
  <2> QED
    BY <1>6, <2>1 DEF WriteFirst, Return, Writing, Unset, Names
<1>7. CASE LogTick
  <2>1. /\ log' = log \/ (path # Unset /\ log' = Opened(path))
        /\ path' = path /\ pc = "idle" /\ job' \in {job, "log"}
    BY <1>7, Zenon DEF LogTick
  <2>2. path # Unset => Opened(path) = log
    BY <2>1 DEF Opened, Here
  <2> QED
    BY <2>1, <2>2
<1>8. CASE AppendRecord
  <2>1. log'[path].hdr = log[path].hdr
    BY <1>8 DEF AppendRecord, WithNext, Writing, File
  <2> QED
    BY <1>8, <2>1 DEF AppendRecord, Return
<1>9. CASE Rotate
  <2>1. pc' = "writeRotate" /\ job' = "log"
    BY <1>9, Zenon DEF Rotate
  <2> QED
    BY <2>1
<1>10. CASE WriteRotate \/ WriteZero \/ Purge
  BY <1>10 DEF WriteRotate, WriteZero, Purge
<1>11. CASE OpenCmd
  BY <1>11 DEF OpenCmd
<1>12. CASE WriteCmd
  BY <1>12 DEF WriteCmd, SetWodnum
<1>13. CASE CmdOn \/ CmdOff
  <2>1. UNCHANGED <<log, path, pc, job>>
    BY <1>13, Zenon DEF CmdOn, CmdOff
  <2> QED
    BY <2>1
<1>14. CASE CmdRmall
  BY <1>14 DEF CmdRmall, SwitchOff
<1>15. CASE CmdReset
  BY <1>15 DEF CmdReset, Arrives
<1>16. CASE CmdSet
  BY <1>16 DEF CmdSet, SwitchOff
<1>17. CASE Tick \/ Crash \/ UNCHANGED vars
  BY <1>17 DEF Tick, Crash, vars
<1> QED
  BY <1>1, <1>2, <1>3, <1>4, <1>5, <1>6, <1>7, <1>8, <1>9, <1>10, <1>11, <1>12,
     <1>13, <1>14, <1>15, <1>16, <1>17
  DEF Next, System, WodInit, InitWodlog, WodLogging, Handling, Shell

(* The decoder finds the magic and the start time in every log the daemon  *)
(* adds to, wherever resets of the computer strike.                        *)
THEOREM HeadersComeFirst ==
  ASSUME MaxFaults = 0, "reset" \notin Commands
  PROVE  Spec => []HeaderFirst
<1>1. Init => NoFaults /\ AgreeInv /\ HeaderInv
  BY DEF Init, NoFaults, AgreeInv, CounterAgrees, Idle, Writing, Absent, Unset, HeaderInv
<1>2. TypeOK /\ AgreeInv /\ HeaderInv => HeaderFirst
  BY DEF TypeOK, AgreeInv, HeaderInv, HeaderFirst, Writing, Unset, Names
<1>3. NoFaults /\ [Next]_vars => NoFaults'
  BY NoFaultsStep
<1>4. NoFaults /\ TypeOK /\ AgreeInv /\ [Next]_vars => AgreeInv'
  BY AgreeStep
<1>5. NoFaults /\ TypeOK /\ AgreeInv /\ HeaderInv /\ [Next]_vars => HeaderInv'
  BY HeaderStep
<1> QED
  BY TypeCorrect, <1>1, <1>2, <1>3, <1>4, <1>5, PTL DEF Spec

-----------------------------------------------------------------------------
(* Without failing calls the wish is kept exactly. *)
WishInv == JobInv /\ Keeper = wanted

LEMMA WishStep ==
  ASSUME MaxFaults = 0
  PROVE  NoFaults /\ WishInv /\ [Next]_vars => WishInv'
<1> SUFFICES ASSUME NoFaults, WishInv, [Next]_vars
             PROVE  WishInv'
  OBVIOUS
<1>0. ~Fault
  BY NoFaultsStep
<1> USE <1>0 DEF WishInv, JobInv, Keeper, Long, Goto, env
<1>1. CASE ReadNum
  BY <1>1 DEF ReadNum, Return
<1>2. CASE CreateNum \/ ReopenNum \/ WriteNum
  BY <1>2 DEF CreateNum, ReopenNum, WriteNum
<1>3. CASE WriteFresh
  BY <1>3 DEF WriteFresh, SetWodnum, Return
<1>4. CASE InitWodlog
  BY <1>4 DEF InitWodlog, RemoveOld, CreateLog, WriteMagic, WriteTime, WriteFirst, Return
<1>5. CASE LogTick \/ AppendRecord
  BY <1>5 DEF LogTick, AppendRecord, Return
<1>6. CASE Rotate \/ WriteRotate
  BY <1>6 DEF Rotate, WriteRotate
<1>7. CASE WriteZero \/ Purge
  BY <1>7 DEF WriteZero, Purge
<1>8. CASE OpenCmd
  BY <1>8 DEF OpenCmd
<1>9. CASE WriteCmd
  BY <1>9 DEF WriteCmd, SetWodnum, Return
<1>10. CASE CmdOn \/ CmdOff
  BY <1>10 DEF CmdOn, CmdOff, Arrives
<1>11. CASE CmdRmall \/ CmdReset \/ CmdSet
  BY <1>11 DEF CmdRmall, CmdReset, CmdSet, Arrives, SwitchOff
<1>12. CASE Tick \/ Crash \/ UNCHANGED vars
  BY <1>12 DEF Tick, Crash, vars
<1> QED
  BY <1>1, <1>2, <1>3, <1>4, <1>5, <1>6, <1>7, <1>8, <1>9, <1>10, <1>11, <1>12
  DEF Next, System, WodInit, WodLogging, Handling, Shell

(* Every command that switches the logger off for its own time puts back   *)
(* what the operator had asked for.                                        *)
THEOREM WishRestored ==
  ASSUME MaxFaults = 0
  PROVE  Spec => []EnableRestored
<1>1. Init => NoFaults /\ WishInv
  BY DEF Init, NoFaults, WishInv, JobInv, Keeper, Long
<1>2. WishInv => EnableRestored
  BY DEF WishInv, JobInv, Keeper, Long, EnableRestored, Idle
<1>3. NoFaults /\ [Next]_vars => NoFaults'
  BY NoFaultsStep
<1>4. NoFaults /\ WishInv /\ [Next]_vars => WishInv'
  BY WishStep
<1> QED
  BY <1>1, <1>2, <1>3, <1>4, PTL DEF Spec

-----------------------------------------------------------------------------
(* What keeps a boot away from the log it read: while it removes and       *)
(* creates the next one, the old log is not the one path names.            *)
Old(f) == log[f].hdr = 2 /\ clock - log[f].time > Limit
NoLogs == \A f \in Names : log[f].hdr < 2

KeepInv ==
  /\ wodnum = Absent \/ pc = "writeFresh" => NoLogs
  /\ job = "boot" /\ pc = "writeNum" /\ arg <= MaxNum /\ Old(arg) => number # arg
  /\ job = "boot" /\ pc \in Writing /\ arg <= MaxNum /\ Old(arg) => path # arg
  /\ pc \in {"writeRotate", "append", "writeZero", "purge"} => job # "boot"

(* The calls of init_wodlog on one file leave the others as they are, and  *)
(* do not turn the file itself into an old and complete log.               *)
LEMMA CallsKeep ==
  ASSUME TypeOK, NEW f \in Names, NEW g \in Names,
         NEW l \in {Removed(f), Created(f), WithMagic(f), WithTime(f), WithFirst(f)}
  PROVE  /\ g # f => l[g] = log[g]
         /\ l[g].hdr = 2 /\ clock - l[g].time > Limit => Old(g)
<1> USE DEF TypeOK, Old
<1>1. CASE l = Removed(f)
  BY <1>1 DEF Removed, NoFile, File
<1>2. CASE l = Created(f)
  BY <1>2 DEF Created, Opened, NewFile, File
<1>3. CASE l = WithMagic(f)
  BY <1>3 DEF WithMagic, File
<1>4. CASE l = WithTime(f)
  BY <1>4, ConstantsAssumption DEF WithTime, File
<1>5. CASE l = WithFirst(f)
  BY <1>5 DEF WithFirst, File
<1> QED
  BY <1>1, <1>2, <1>3, <1>4, <1>5

LEMMA KeepStep ==
  ASSUME MaxFaults = 0
  PROVE  NoFaults /\ TypeOK /\ AgreeInv /\ WishInv /\ KeepInv /\ [Next]_vars => KeepInv'
<1> SUFFICES ASSUME NoFaults, TypeOK, AgreeInv, WishInv, KeepInv, [Next]_vars
             PROVE  KeepInv'
  OBVIOUS
<1>0. ~Fault
  BY NoFaultsStep
<1>00. /\ arg \in Names /\ Names \subseteq Nat /\ clock \in Nat
       /\ pc \in Writing => path \in Names
  BY ConstantsAssumption DEF TypeOK, AgreeInv, Names, LastName
<1> USE <1>0, <1>00 DEF KeepInv, NoLogs, Goto, env, card
<1>1. CASE ReadNum
  BY <1>1 DEF ReadNum, Return, AgreeInv, Absent, Writing
<1>2. CASE CreateNum
  BY <1>2 DEF CreateNum, AgreeInv, OpenedNum, Absent, Blank, Writing
<1>3. CASE WriteFresh
  <2>1. ~Old(arg) /\ UNCHANGED <<log, clock>> /\ wodnum' \in Nat /\ arg' = arg
    BY <1>3, ConstantsAssumption DEF WriteFresh, SetWodnum, Old, TypeOK, LastName
  <2> QED
    BY <1>3, <2>1 DEF WriteFresh, Old, Absent, SetWodnum
<1>4. CASE ReopenNum
  <2>1. arg <= MaxNum /\ Old(arg) => number' # arg
    <3>1. arg <= MaxNum => \E d \in TimeDiffs(arg) : number' = NextNumber(arg, d)
      BY <1>4, ConstantsAssumption DEF ReopenNum
    <3>2. Old(arg) => \A d \in TimeDiffs(arg) : NextNumber(arg, d) = arg + 1
      BY DEF Old, NextNumber, TimeDiffs
    <3> QED
      BY <3>1, <3>2
  <2> QED
    BY <1>4, <2>1 DEF ReopenNum, Old, AgreeInv, OpenedNum, Absent, Blank, Writing
<1>5. CASE WriteNum
  BY <1>5, ConstantsAssumption DEF WriteNum, SetWodnum, Old, TypeOK, LastName, Absent, Writing
<1>6. CASE InitWodlog
  <2>1. /\ pc \in Writing
        /\ log' \in {Removed(path), Created(path), WithMagic(path), WithTime(path), WithFirst(path)}
    BY <1>6, Zenon DEF InitWodlog, RemoveOld, CreateLog, WriteMagic, WriteTime,
         WriteFirst, Writing
  <2>2. /\ pc' \in Writing \cup {"idle"} /\ wodnum' = wodnum /\ path' = path /\ clock' = clock
        /\ pc' \in Writing => arg' = arg /\ job' = job
    BY <1>6 DEF InitWodlog, RemoveOld, CreateLog, WriteMagic, WriteTime,
         WriteFirst, Return, Writing
  <2>3. wodnum # Absent
    BY <2>1 DEF AgreeInv, Writing
  <2>4. Old(arg)' /\ arg' = arg => Old(arg)
    BY <2>1, <2>2, CallsKeep DEF Old
  <2> QED
    BY <2>1, <2>2, <2>3, <2>4 DEF Writing
<1>7. CASE LogTick
  <2>1. pc' = "idle" \/ (pc' = "append" /\ job' = "log")
    BY <1>7, Zenon DEF LogTick
  <2>2. pc = "idle" /\ wodnum' = wodnum
    BY <1>7, Zenon DEF LogTick
  <2> QED
    BY <2>1, <2>2 DEF AgreeInv, Writing
<1>8. CASE AppendRecord
  BY <1>8 DEF AppendRecord, Return, AgreeInv, Writing
<1>9. CASE Rotate
  <2>1. wodnum' = OpenedNum /\ pc' = "writeRotate" /\ job' = "log"
    BY <1>9, Zenon DEF Rotate
  <2> QED
    BY <2>1 DEF OpenedNum, Absent, Blank, Writing
<1>10. CASE WriteRotate
  <2>1. wodnum' = number /\ pc' = "removeOld" /\ job' # "boot"
    BY <1>10 DEF WriteRotate, SetWodnum
  <2> QED
    BY <2>1, ConstantsAssumption DEF TypeOK, LastName, Absent, Writing
<1>11. CASE WriteZero
  BY <1>11 DEF WriteZero, SetWodnum, Absent, Writing
<1>12. CASE Purge
  BY <1>12 DEF Purge, AgreeInv, Absent, Writing
<1>13. CASE OpenCmd
  BY <1>13 DEF OpenCmd, OpenedNum, Absent, Blank, Writing
<1>14. CASE WriteCmd
  <2>1. wodnum' \in Nat /\ pc' \in {"idle", "removeOld"} /\ job' # "boot"
    BY <1>14 DEF WriteCmd, SetWodnum, Return, WishInv, JobInv
  <2> QED
    BY <2>1 DEF Absent, Writing
<1>15. CASE CmdOn \/ CmdOff
  <2>1. UNCHANGED <<wodnum, log, pc, job>> /\ pc = "idle"
    BY <1>15, Zenon DEF CmdOn, CmdOff, Arrives
  <2> QED
    BY <2>1 DEF Writing
<1>16. CASE CmdRmall
  BY <1>16 DEF CmdRmall, Arrives, SwitchOff, OpenedNum, Absent, Blank, Writing
<1>17. CASE CmdReset \/ CmdSet
  BY <1>17 DEF CmdReset, CmdSet, Arrives, SwitchOff, Writing
<1>18. CASE Tick
  BY <1>18 DEF Tick, Quiet, Writing
<1>19. CASE Crash
  BY <1>19 DEF Crash, Writing
<1>20. CASE UNCHANGED vars
  BY <1>20 DEF vars, Old
<1> QED
  BY <1>1, <1>2, <1>3, <1>4, <1>5, <1>6, <1>7, <1>8, <1>9, <1>10, <1>11, <1>12,
     <1>13, <1>14, <1>15, <1>16, <1>17, <1>18, <1>19, <1>20
  DEF Next, System, WodInit, WodLogging, Handling, Shell

LEMMA BootKeeps ==
  ASSUME MaxFaults = 0,
         NoFaults, TypeOK, AgreeInv, WishInv, KeepInv, [Next]_vars,
         job = "boot", pc # "readNum", arg <= MaxNum, Old(arg)
  PROVE  log'[arg] = log[arg]
<1>0. ~Fault
  BY NoFaultsStep
<1>00. /\ arg \in Names
       /\ pc \in Writing => path \in Names
  BY ConstantsAssumption DEF TypeOK, AgreeInv, Names, LastName
<1>1. CASE WodInit
  BY <1>1 DEF WodInit, ReadNum, CreateNum, WriteFresh, ReopenNum, WriteNum
<1>2. CASE InitWodlog
  <2>1. /\ pc \in Writing
        /\ log' \in {Removed(path), Created(path), WithMagic(path), WithTime(path), WithFirst(path)}
    BY <1>0, <1>2, Zenon DEF InitWodlog, RemoveOld, CreateLog, WriteMagic, WriteTime,
         WriteFirst, Writing
  <2>2. path # arg
    BY <2>1 DEF KeepInv
  <2> QED
    BY <1>00, <2>1, <2>2, CallsKeep
<1>3. CASE LogTick \/ AppendRecord \/ Rotate \/ WriteRotate \/ Handling \/ Shell
  <2>1. job # "boot" \/ UNCHANGED log
    BY <1>3 DEF LogTick, AppendRecord, Rotate, WriteRotate, Handling, WriteZero, Purge,
         OpenCmd, WriteCmd, Shell, CmdOn, CmdOff, CmdRmall, CmdReset, CmdSet, card,
         KeepInv, WishInv, JobInv
  <2> QED
    BY <2>1
<1>4. CASE Tick \/ Crash \/ UNCHANGED vars
  BY <1>4 DEF Tick, Crash, vars, card
<1> QED
  BY <1>1, <1>2, <1>3, <1>4 DEF Next, System, WodLogging

(* A boot never overwrites a complete log older than Limit: it is for the  *)
(* next number, wherever resets interrupt the boots and however the ground *)
(* steps the clock between them.                                           *)
THEOREM OldLogSurvivesReboot ==
  ASSUME MaxFaults = 0
  PROVE  Spec => RebootKeepsOldLog
<1>1. Init => NoFaults /\ AgreeInv /\ WishInv /\ KeepInv
  BY DEF Init, NoFaults, AgreeInv, CounterAgrees, Idle, Writing, Absent, Unset,
       WishInv, JobInv, Keeper, Long, KeepInv, NoLogs, Names, NoFile
<1>2. NoFaults /\ [Next]_vars => NoFaults'
  BY NoFaultsStep
<1>3. NoFaults /\ TypeOK /\ AgreeInv /\ [Next]_vars => AgreeInv'
  BY AgreeStep
<1>4. NoFaults /\ WishInv /\ [Next]_vars => WishInv'
  BY WishStep
<1>5. NoFaults /\ TypeOK /\ AgreeInv /\ WishInv /\ KeepInv /\ [Next]_vars => KeepInv'
  BY KeepStep
<1>6. NoFaults /\ TypeOK /\ AgreeInv /\ WishInv /\ KeepInv /\ [Next]_vars
      => [job = "boot" /\ pc # "readNum" /\ arg <= MaxNum
            /\ log[arg].hdr = 2 /\ clock - log[arg].time > Limit
          => log'[arg] = log[arg]]_vars
  BY BootKeeps DEF Old
<1> QED
  BY TypeCorrect, <1>1, <1>2, <1>3, <1>4, <1>5, <1>6, PTL DEF Spec, RebootKeepsOldLog

-----------------------------------------------------------------------------
(* How many records the current log should hold, and how many a log can.   *)
Counted == 1 + iter * Wrap + entry
Capacity == 1 + Passes * Wrap

(* One pass of the minute counter more, and the passes of a full log.      *)
LEMMA PassAdds ==
  ASSUME NEW i \in Nat, NEW w \in Nat
  PROVE  (i + 1) * w = i * w + w
  OBVIOUS

LEMMA PassFits ==
  ASSUME NEW i \in Nat, NEW p \in Nat, NEW w \in Nat, i < p
  PROVE  i * w + w <= p * w
<1> DEFINE d == p - (i + 1)
<1>1. d \in Nat /\ p = (i + 1) + d
  OBVIOUS
<1> HIDE DEF d
<1>2. p * w = (i + 1) * w + d * w
  BY <1>1
<1>3. d * w \in Nat /\ (i + 1) * w \in Nat
  BY <1>1
<1>4. (i + 1) * w <= p * w
  BY <1>2, <1>3
<1> QED
  BY <1>4, PassAdds

(* The counters of wod_log between two cycles. *)
CountersInv == entry \in 0 .. Wrap /\ iter \in Nat /\ iter < Passes

LEMMA CountedType ==
  ASSUME CountersInv
  PROVE  Counted \in Nat /\ Capacity \in Nat
<1>1. iter * Wrap \in Nat /\ Passes * Wrap \in Nat
  BY ConstantsAssumption DEF CountersInv
<1> QED
  BY <1>1 DEF CountersInv, Counted, Capacity

(* While the pass is not over there is room for one record more. *)
LEMMA RoomLeft ==
  ASSUME CountersInv, entry < Wrap
  PROVE  Counted + 1 <= Capacity
<1>1. iter * Wrap + Wrap <= Passes * Wrap
  BY PassFits, ConstantsAssumption DEF CountersInv
<1>2. iter * Wrap \in Nat /\ Passes * Wrap \in Nat
  BY ConstantsAssumption DEF CountersInv
<1> QED
  BY <1>1, <1>2, ConstantsAssumption DEF CountersInv, Counted, Capacity

(* The eight-bit counter starts over and iteration takes its place: the    *)
(* count goes on.                                                          *)
LEMMA CountGoesOn ==
  ASSUME CountersInv, Passed < Passes, iter' = Passed, entry' = entry % Wrap
  PROVE  CountersInv' /\ entry' < Wrap /\ Counted' = Counted
<1> USE ConstantsAssumption DEF CountersInv
<1>1. CASE entry = Wrap
  <2>1. entry' = 0 /\ iter' = iter + 1
    BY <1>1 DEF Passed
  <2>2. (iter + 1) * Wrap = iter * Wrap + Wrap
    BY PassAdds
  <2>3. Counted' = 1 + (iter + 1) * Wrap + 0
    BY <2>1 DEF Counted
  <2>4. Counted' = Counted
    BY <1>1, <2>2, <2>3 DEF Counted
  <2> QED
    BY <2>1, <2>4
<1>2. CASE entry < Wrap
  <2>1. entry' = entry /\ iter' = iter
    BY <1>2 DEF Passed
  <2> QED
    BY <1>2, <2>1 DEF Counted
<1> QED
  BY <1>1, <1>2

LEMMA CountNext ==
  ASSUME CountersInv, entry < Wrap, iter' = iter, entry' = entry + 1
  PROVE  CountersInv' /\ Counted' = Counted + 1
<1>1. iter * Wrap \in Nat
  BY ConstantsAssumption DEF CountersInv
<1> QED
  BY <1>1, ConstantsAssumption DEF CountersInv, Counted

LEMMA CountRestarts ==
  ASSUME CountersInv, iter' \in {iter, 0}, entry' = 0
  PROVE  CountersInv' /\ Counted' >= 1 /\ Counted' \in Nat
<1>1. CountersInv'
  BY ConstantsAssumption DEF CountersInv
<1>2. iter * Wrap \in Nat /\ 0 * Wrap \in Nat
  BY ConstantsAssumption DEF CountersInv
<1>3. Counted' = 1 + iter' * Wrap + entry'
  BY DEF Counted
<1>4. Counted' = 1 + iter * Wrap \/ Counted' = 1 + 0 * Wrap
  BY <1>2, <1>3
<1> QED
  BY <1>1, <1>2, <1>4

(* What each call on a file does to the number of its records and of the   *)
(* records of the others.                                                  *)
LEMMA CallsCount ==
  ASSUME log \in [Names -> File], NEW f \in Names, NEW g \in Names
  PROVE  /\ Removed(f)[f].n = 0
         /\ Removed(f)[g].n <= log[g].n
         /\ Created(f)[g].n <= log[g].n
         /\ WithMagic(f)[g].n = log[g].n
         /\ WithTime(f)[g].n = log[g].n
         /\ WithFirst(f)[f].n = IF log[f].n = 0 THEN 1 ELSE log[f].n
         /\ WithNext(f)[f].n = log[f].n + 1
         /\ g # f => WithFirst(f)[g] = log[g] /\ WithNext(f)[g] = log[g]
<1>1. log[g].n \in Nat /\ log[f].n \in Nat
  BY DEF File
<1>2. Removed(f)[f].n = 0 /\ Removed(f)[g].n <= log[g].n
  BY <1>1 DEF Removed, NoFile, File
<1>3. Created(f)[g].n <= log[g].n
  BY <1>1 DEF Created, Opened, NewFile, File
<1>4. WithMagic(f)[g].n = log[g].n
  BY DEF WithMagic, File
<1>5. WithTime(f)[g].n = log[g].n
  BY DEF WithTime, File
<1>6. WithFirst(f)[f].n = IF log[f].n = 0 THEN 1 ELSE log[f].n
  BY DEF WithFirst, File
<1>7. WithNext(f)[f].n = log[f].n + 1
  BY DEF WithNext, File
<1>8. g # f => WithFirst(f)[g] = log[g] /\ WithNext(f)[g] = log[g]
  BY DEF WithFirst, WithNext, File
<1> QED
  BY <1>2, <1>3, <1>4, <1>5, <1>6, <1>7, <1>8

-----------------------------------------------------------------------------
(* Why no log outgrows its capacity: the current one never holds more than *)
(* was counted since it was created, because every operation that lets     *)
(* path name a log creates that log and restarts the count.  The command   *)
(* "reset" does not (HeaderInv), and is left out.                          *)
Filling == {"createLog", "writeMagic", "writeTime", "writeFirst"}
SizeInv ==
  /\ CountersInv
  /\ \A f \in Names : log[f].n <= Capacity
  /\ pc \in {"idle", "append"} /\ path # Unset => log[path].n <= Counted
  /\ pc = "append" => entry < Wrap
  /\ pc \in Filling => log[path].n = 0

(* A step that adds no record to any log keeps them within the capacity.   *)
LEMMA NoRecordAdded ==
  ASSUME SizeInv, log \in [Names -> File], log' \in [Names -> File],
         \A f \in Names : log'[f].n <= log[f].n
  PROVE  \A f \in Names : log'[f].n <= Capacity
<1> SUFFICES ASSUME NEW f \in Names
             PROVE  log'[f].n <= Capacity
  OBVIOUS
<1>1. log'[f].n <= log[f].n /\ log[f].n <= Capacity
  BY DEF SizeInv
<1>2. log'[f].n \in Nat /\ log[f].n \in Nat /\ Capacity \in Nat
  BY CountedType DEF SizeInv, File
<1> QED
  BY <1>1, <1>2

(* Only init_wodlog and wod_log need a path, and there it names a log.     *)
LEMMA PathIs ==
  ASSUME TypeOK, AgreeInv
  PROVE  path \in {Unset} \cup Names /\ (pc \in Writing \cup {"append"} => path \in Names)
  BY ConstantsAssumption DEF TypeOK, AgreeInv, Names, LastName

LEMMA SizeStep ==
  ASSUME MaxFaults = 0
  PROVE  NoFaults /\ TypeOK /\ TypeOK' /\ AgreeInv /\ HeaderInv /\ SizeInv /\ [Next]_vars
         => SizeInv'
<1> SUFFICES ASSUME NoFaults, TypeOK, TypeOK', AgreeInv, HeaderInv, SizeInv, [Next]_vars
             PROVE  SizeInv'
  OBVIOUS
<1>0. ~Fault
  BY NoFaultsStep
<1>p. path \in {Unset} \cup Names /\ (pc \in Writing \cup {"append"} => path \in Names)
  BY PathIs
<1>l. log \in [Names -> File] /\ log' \in [Names -> File]
  BY DEF TypeOK
<1>00. /\ path \in {Unset} \cup Names
       /\ log \in [Names -> File] /\ log' \in [Names -> File]
       /\ pc \in Writing \cup {"append"} => path \in Names
  BY <1>p, <1>l
<1>c. CountersInv /\ Counted \in Nat /\ Capacity \in Nat
  BY CountedType DEF SizeInv
<1>s. log' = log => \A f \in Names : log'[f].n <= Capacity
  BY DEF SizeInv
<1>q. ASSUME log' = log, pc' \notin {"idle", "append"} \cup Filling,
             entry' \in {entry, 0}, iter' \in {iter, 0}
      PROVE  SizeInv'
  <2>1. CountersInv'
    BY <1>c, <1>q, ConstantsAssumption DEF CountersInv
  <2> QED
    BY <1>q, <1>s, <2>1 DEF SizeInv
<1>1. CASE ReadNum
  <2>1. log' = log /\ entry' = entry /\ iter' = iter /\ path' = path
    BY <1>1 DEF ReadNum
  <2>2. pc' \in {"idle", "createNum", "reopenNum"}
    BY <1>0, <1>1 DEF ReadNum, Return, Goto
  <2>3. pc' = "idle" => path' = Unset
    BY <1>0, <1>1, <2>1 DEF ReadNum, Return, AgreeInv, Goto, Blank
  <2>4. CountersInv'
    BY <1>c, <2>1 DEF CountersInv
  <2> QED
    BY <1>s, <2>1, <2>2, <2>3, <2>4 DEF SizeInv, Filling
<1>2. CASE CreateNum \/ WriteFresh \/ ReopenNum \/ WriteNum
  <2>1. log' = log /\ entry' \in {entry, 0} /\ iter' = iter
    BY <1>0, <1>2 DEF CreateNum, WriteFresh, ReopenNum, WriteNum, SetWodnum
  <2>2. pc' \in {"writeFresh", "removeOld", "writeNum"}
    BY <1>0, <1>2 DEF CreateNum, WriteFresh, ReopenNum, WriteNum, SetWodnum, Goto
  <2> QED
    BY <1>q, <2>1, <2>2 DEF Filling
<1>3. CASE RemoveOld \/ CreateLog \/ WriteMagic
  <2>1. /\ path \in Names /\ path' = path /\ entry' = entry /\ iter' = iter
        /\ pc' \in Filling
        /\ log' \in {Removed(path), Created(path), WithMagic(path)}
        /\ log' = Removed(path) \/ log[path].n = 0
    BY <1>0, <1>00, <1>3 DEF RemoveOld, CreateLog, WriteMagic, Goto, Filling, Writing, SizeInv
  <2>2. \A f \in Names : log'[f].n <= log[f].n
    BY <1>00, <2>1, CallsCount DEF File
  <2>3. log'[path].n = 0
    <3>1. log'[path].n \in Nat
      BY <1>00, <2>1 DEF File
    <3>2. CASE log' = Removed(path)
      BY <1>00, <2>1, <3>2, CallsCount
    <3>3. CASE log[path].n = 0
      BY <2>1, <2>2, <3>1, <3>3
    <3> QED
      BY <2>1, <3>2, <3>3
  <2>4. \A f \in Names : log'[f].n <= Capacity
    BY <1>00, <2>2, NoRecordAdded
  <2>5. CountersInv'
    BY <1>c, <2>1 DEF CountersInv
  <2> QED
    BY <2>1, <2>3, <2>4, <2>5 DEF SizeInv, Filling
<1>4. CASE WriteTime
  <2>1. /\ path \in Names /\ path' = path /\ iter' = iter /\ log[path].n = 0
        /\ log' = WithTime(path)
        /\ (pc' = "writeFirst" /\ entry' = entry) \/ (pc' = "idle" /\ entry' = 0)
    BY <1>0, <1>00, <1>4 DEF WriteTime, Goto, Return, Filling, Writing, SizeInv
  <2>2. \A f \in Names : log'[f].n = log[f].n
    BY <1>00, <2>1, CallsCount
  <2>3. \A f \in Names : log'[f].n <= Capacity
    BY <2>2 DEF SizeInv
  <2>4. CountersInv' /\ (entry' = 0 => Counted' >= 1 /\ Counted' \in Nat)
    BY <1>c, <2>1, CountRestarts DEF CountersInv
  <2>5. log'[path'].n = 0
    BY <2>1, <2>2
  <2>6. pc' = "idle" => log'[path'].n <= Counted'
    BY <2>1, <2>4, <2>5
  <2> QED
    BY <2>1, <2>3, <2>4, <2>5, <2>6 DEF SizeInv, Filling
<1>5. CASE WriteFirst
  <2>1. /\ path \in Names /\ path' = path /\ iter' = iter /\ log[path].n = 0
        /\ log' = WithFirst(path)
        /\ pc' = "idle" /\ entry' = 0
    BY <1>0, <1>00, <1>5 DEF WriteFirst, Return, Filling, Writing, SizeInv
  <2>2. log'[path].n = 1 /\ \A f \in Names : f # path => log'[f] = log[f]
    BY <1>00, <2>1, CallsCount
  <2>3. CountersInv' /\ Counted' >= 1 /\ Counted' \in Nat
    BY <1>c, <2>1, CountRestarts
  <2>4. 1 <= Capacity
    BY <1>c, RoomLeft, ConstantsAssumption DEF Capacity, CountersInv
  <2>5. \A f \in Names : log'[f].n <= Capacity
    BY <2>2, <2>4 DEF SizeInv
  <2>6. log'[path'].n <= Counted'
    BY <2>1, <2>2, <2>3
  <2> QED
    BY <2>1, <2>3, <2>5, <2>6 DEF SizeInv, Filling
<1>6. CASE LogTick
  <2>1. /\ pc = "idle" /\ Passed < Passes /\ iter' = Passed /\ entry' = entry % Wrap
        /\ path' = path
        /\ \/ log' = log /\ pc' = pc
           \/ path # Unset /\ log' = Opened(path) /\ pc' = "append"
    BY <1>0, <1>6, Zenon DEF LogTick
  <2>2. log' = log
    BY <2>1 DEF HeaderInv, Opened, Here
  <2>3. CountersInv' /\ entry' < Wrap /\ Counted' = Counted
    BY <1>c, <2>1, CountGoesOn
  <2>4. pc' \in {"idle", "append"}
    BY <2>1
  <2>5. path' # Unset => log'[path'].n <= Counted'
    BY <2>1, <2>2, <2>3 DEF SizeInv
  <2> QED
    BY <1>s, <2>2, <2>3, <2>4, <2>5 DEF SizeInv, Filling
<1>7. CASE AppendRecord
  <2>1. /\ path \in Names /\ path' = path /\ iter' = iter /\ entry' = entry + 1
        /\ log' = WithNext(path) /\ pc' = "idle" /\ pc = "append"
    BY <1>0, <1>00, <1>7 DEF AppendRecord, Return, Writing
  <2>2. log[path].n <= Counted /\ entry < Wrap
    BY <2>1, <1>00, ConstantsAssumption DEF SizeInv, Unset, Names
  <2>3. log'[path].n = log[path].n + 1 /\ \A f \in Names : f # path => log'[f] = log[f]
    BY <1>00, <2>1, CallsCount
  <2>4. CountersInv' /\ Counted' = Counted + 1
    BY <1>c, <2>1, <2>2, CountNext
  <2>5. Counted + 1 <= Capacity
    BY <1>c, <2>2, RoomLeft
  <2>6. log[path].n \in Nat
    BY <1>00, <2>1 DEF File
  <2>7. log'[path].n <= Capacity
    BY <1>c, <2>2, <2>3, <2>5, <2>6
  <2>8. \A f \in Names : log'[f].n <= Capacity
    BY <2>3, <2>7 DEF SizeInv
  <2>9. log'[path'].n <= Counted'
    BY <1>c, <2>1, <2>2, <2>3, <2>4, <2>6
  <2> QED
    BY <2>1, <2>4, <2>8, <2>9 DEF SizeInv, Filling
<1>8. CASE Rotate
  <2>1. log' = log /\ iter' = 0 /\ entry' = 0 /\ pc' = "writeRotate"
    BY <1>0, <1>8, Zenon DEF Rotate, RestartCount
  <2> QED
    BY <1>q, <2>1 DEF Filling
<1>9. CASE WriteRotate \/ WriteZero
  <2>1. log' = log /\ iter' = iter /\ entry' = 0 /\ pc' \in {"removeOld", "purge"}
    BY <1>9 DEF WriteRotate, WriteZero, SetWodnum, Goto
  <2> QED
    BY <1>q, <2>1 DEF Filling
<1>10. CASE Purge
  <2>1. /\ log' = Removed(arg) /\ arg \in Names
        /\ iter' = iter /\ entry' = entry /\ pc' \in {"readNum", "purge"}
    BY <1>0, <1>10 DEF Purge, Goto, TypeOK
  <2>2. \A f \in Names : log'[f].n <= log[f].n
    BY <1>00, <2>1, CallsCount
  <2>3. \A f \in Names : log'[f].n <= Capacity
    BY <1>00, <2>2, NoRecordAdded
  <2>4. CountersInv'
    BY <1>c, <2>1 DEF CountersInv
  <2> QED
    BY <2>1, <2>3, <2>4 DEF SizeInv, Filling
<1>11. CASE OpenCmd
  <2>1. log' = log /\ iter' = iter /\ entry' = entry /\ pc' = "writeCmd"
    BY <1>0, <1>11 DEF OpenCmd, Goto
  <2> QED
    BY <1>q, <2>1 DEF Filling
<1>12. CASE WriteCmd
  <2>1. log' = log /\ iter' = iter /\ entry' = 0 /\ pc' = "removeOld"
    BY <1>0, <1>12 DEF WriteCmd, SetWodnum, Goto, HeaderInv
  <2> QED
    BY <1>q, <2>1 DEF Filling
<1>13. CASE CmdOn \/ CmdOff
  <2>1. UNCHANGED <<log, path, pc, iter, entry>>
    BY <1>13, Zenon DEF CmdOn, CmdOff, card
  <2>2. CountersInv' /\ Counted' = Counted
    BY <1>c, <2>1 DEF CountersInv, Counted
  <2> QED
    BY <1>s, <2>1, <2>2 DEF SizeInv, Filling
<1>14. CASE CmdRmall
  <2>1. log' = log /\ iter' = iter /\ entry' = 0 /\ pc' \in {"purge", "writeZero"}
    BY <1>14 DEF CmdRmall
  <2> QED
    BY <1>q, <2>1 DEF Filling
<1>15. CASE CmdReset \/ CmdSet
  <2>1. log' = log /\ iter' = iter /\ entry' = entry /\ pc' = "openCmd"
    BY <1>15 DEF CmdReset, CmdSet, card
  <2> QED
    BY <1>q, <2>1 DEF Filling
<1>16. CASE Crash
  <2>1. log' = log /\ iter' = 0 /\ entry' = 0 /\ pc' = "readNum"
    BY <1>16 DEF Crash, card
  <2> QED
    BY <1>q, <2>1 DEF Filling
<1>17. CASE Tick \/ UNCHANGED vars
  <2>1. UNCHANGED <<log, path, pc, iter, entry>>
    BY <1>17 DEF Tick, card, vars
  <2>2. CountersInv' /\ Counted' = Counted
    BY <1>c, <2>1 DEF CountersInv, Counted
  <2> QED
    BY <1>s, <2>1, <2>2 DEF SizeInv, Filling
<1> QED
  BY <1>1, <1>2, <1>3, <1>4, <1>5, <1>6, <1>7, <1>8, <1>9, <1>10, <1>11, <1>12,
     <1>13, <1>14, <1>15, <1>16, <1>17
  DEF Next, System, WodInit, InitWodlog, WodLogging, Handling, Shell

LEMMA SizeInit == Init => SizeInv
<1> SUFFICES ASSUME Init
             PROVE  SizeInv
  OBVIOUS
<1>1. CountersInv
  BY ConstantsAssumption DEF Init, CountersInv
<1>2. 1 <= Capacity
  <2>1. Passes * Wrap \in Nat
    BY ConstantsAssumption
  <2> QED
    BY <2>1 DEF Capacity
<1>3. \A f \in Names : log[f].n \in {0, 1}
  BY DEF Init, NoFile, FirstLog
<1>4. \A f \in Names : log[f].n <= Capacity
  BY <1>1, <1>2, <1>3, CountedType
<1> QED
  BY <1>1, <1>4 DEF Init, SizeInv, Filling

(* No log ever holds more records than the passes of the minute counter    *)
(* give it, wherever resets of the computer and the operator's commands    *)
(* fall, although none of them restarts iteration.  "reset" goes on in a   *)
(* log that may be full (path stays as it was) and is left out.            *)
THEOREM LogsBounded ==
  ASSUME MaxFaults = 0, "reset" \notin Commands
  PROVE  Spec => []SizeBound
<1>1. Init => NoFaults /\ AgreeInv /\ HeaderInv
  BY DEF Init, NoFaults, AgreeInv, CounterAgrees, Idle, Writing, Absent, Unset, HeaderInv
<1>2. Init => SizeInv
  BY SizeInit
<1>3. NoFaults /\ [Next]_vars => NoFaults'
  BY NoFaultsStep
<1>4. NoFaults /\ TypeOK /\ AgreeInv /\ [Next]_vars => AgreeInv'
  BY AgreeStep
<1>5. NoFaults /\ TypeOK /\ AgreeInv /\ HeaderInv /\ [Next]_vars => HeaderInv'
  BY HeaderStep
<1>6. NoFaults /\ TypeOK /\ TypeOK' /\ AgreeInv /\ HeaderInv /\ SizeInv /\ [Next]_vars => SizeInv'
  BY SizeStep
<1>7. SizeInv => SizeBound
  BY DEF SizeInv, SizeBound, Capacity
<1> QED
  BY TypeCorrect, <1>1, <1>2, <1>3, <1>4, <1>5, <1>6, <1>7, PTL DEF Spec

-----------------------------------------------------------------------------
(* With no command but "on" and "off" the count is exact: a log is only    *)
(* created while the logger is on, so that its first record is written,    *)
(* and only by a boot or by the rotation, which restart iteration.         *)
MatchInv ==
  /\ pc # "idle" => enable
  /\ job \in {"none", "boot", "log"}
  /\ pc \notin {"writeZero", "purge", "openCmd", "writeCmd"}
  /\ pc \notin {"idle", "append"} => iter = 0 /\ entry = 0
  /\ pc \in {"idle", "append"} /\ path # Unset => log[path].n = Counted

LEMMA CountOfFirst ==
  ASSUME iter' = 0, entry' = 0
  PROVE  Counted' = 1
<1>1. 0 * Wrap = 0
  BY ConstantsAssumption
<1>2. Counted' = 1 + 0 * Wrap + 0
  BY DEF Counted
<1> QED
  BY <1>1, <1>2

LEMMA MatchStep ==
  ASSUME MaxFaults = 0, Commands \subseteq {"on", "off"}
  PROVE  NoFaults /\ TypeOK /\ AgreeInv /\ HeaderInv /\ SizeInv /\ MatchInv /\ [Next]_vars
         => MatchInv'
<1> SUFFICES ASSUME NoFaults, TypeOK, AgreeInv, HeaderInv, SizeInv, MatchInv, [Next]_vars
             PROVE  MatchInv'
  OBVIOUS
<1>0. ~Fault
  BY NoFaultsStep
<1>00. /\ path \in {Unset} \cup Names
       /\ pc \in Writing \cup {"append"} => path \in Names
  BY PathIs
<1>l. log \in [Names -> File]
  BY DEF TypeOK
<1>1. CASE ReadNum
  <2>1. log' = log /\ entry' = entry /\ iter' = iter /\ path' = path /\ pc = "readNum"
    BY <1>1 DEF ReadNum
  <2>2. pc' \in {"idle", "createNum", "reopenNum"} /\ job' \in {job, "none"} /\ (enable' = enable)
    BY <1>0, <1>1 DEF ReadNum, Return, Goto, MatchInv
  <2>3. pc' = "idle" => path' = Unset
    BY <1>0, <1>1, <2>1 DEF ReadNum, Return, AgreeInv, Goto, Blank
  <2> QED
    BY <2>1, <2>2, <2>3 DEF MatchInv
<1>2. CASE CreateNum \/ WriteFresh \/ ReopenNum \/ WriteNum
  <2>1. entry' \in {entry, 0} /\ iter' = iter /\ pc \notin {"idle", "append"}
    BY <1>0, <1>2 DEF CreateNum, WriteFresh, ReopenNum, WriteNum, SetWodnum
  <2>2. pc' \in {"writeFresh", "removeOld", "writeNum"} /\ UNCHANGED <<job, enable>>
    BY <1>0, <1>2 DEF CreateNum, WriteFresh, ReopenNum, WriteNum, SetWodnum, Goto
  <2> QED
    BY <2>1, <2>2 DEF MatchInv
<1>3. CASE RemoveOld \/ CreateLog \/ WriteMagic
  <2>1. entry' = entry /\ iter' = iter /\ pc \notin {"idle", "append"}
    BY <1>0, <1>3 DEF RemoveOld, CreateLog, WriteMagic
  <2>2. pc' \in Filling /\ UNCHANGED <<job, enable>>
    BY <1>0, <1>3 DEF RemoveOld, CreateLog, WriteMagic, Goto, Filling
  <2> QED
    BY <2>1, <2>2 DEF MatchInv, Filling
<1>4. CASE WriteTime
  <2>1. pc = "writeTime" /\ iter' = iter
    BY <1>0, <1>4 DEF WriteTime
  <2>2. entry' = entry /\ pc' = "writeFirst" /\ UNCHANGED <<job, enable>>
    BY <1>0, <1>4, <2>1 DEF WriteTime, Goto, MatchInv
  <2> QED
    BY <2>1, <2>2 DEF MatchInv
<1>5. CASE WriteFirst
  <2>1. /\ pc = "writeFirst" /\ path' = path /\ iter' = iter /\ entry' = 0
        /\ log' = WithFirst(path) /\ pc' = "idle" /\ job' = "none"
    BY <1>0, <1>5 DEF WriteFirst, Return
  <2>2. log'[path].n = 1
    BY <1>00, <1>l, <2>1, CallsCount DEF SizeInv, Filling, Writing
  <2>3. Counted' = 1
    BY <2>1, CountOfFirst DEF MatchInv
  <2> QED
    BY <2>1, <2>2, <2>3 DEF MatchInv
<1>6. CASE LogTick
  <2>1. /\ pc = "idle" /\ Passed < Passes /\ iter' = Passed /\ entry' = entry % Wrap
        /\ path' = path /\ enable /\ enable' = enable
        /\ \/ log' = log /\ pc' = pc /\ job' = job
           \/ path # Unset /\ log' = Opened(path) /\ pc' = "append" /\ job' = "log"
    BY <1>0, <1>6, Zenon DEF LogTick
  <2>2. log' = log
    BY <2>1 DEF HeaderInv, Opened, Here
  <2>3. Counted' = Counted
    BY <2>1, CountGoesOn DEF SizeInv
  <2>4. pc' \in {"idle", "append"} /\ job' \in {"none", "boot", "log"}
    BY <2>1 DEF MatchInv
  <2>5. path' # Unset => log'[path'].n = Counted'
    BY <2>1, <2>2, <2>3 DEF MatchInv
  <2> QED
    BY <2>1, <2>4, <2>5 DEF MatchInv
<1>7. CASE AppendRecord
  <2>1. /\ pc = "append" /\ path' = path /\ iter' = iter /\ entry' = entry + 1
        /\ log' = WithNext(path) /\ pc' = "idle" /\ job' = "none"
    BY <1>0, <1>7 DEF AppendRecord, Return
  <2>2. path \in Names /\ path # Unset /\ entry < Wrap
    BY <1>00, <2>1, ConstantsAssumption DEF SizeInv, Unset, Names
  <2>3. log'[path].n = log[path].n + 1
    BY <1>l, <2>1, <2>2, CallsCount
  <2>4. Counted' = Counted + 1
    BY <2>1, <2>2, CountNext DEF SizeInv
  <2>5. log'[path'].n = Counted'
    BY <2>1, <2>2, <2>3, <2>4 DEF MatchInv
  <2> QED
    BY <2>1, <2>5 DEF MatchInv
<1>8. CASE Rotate
  <2>1. /\ iter' = 0 /\ entry' = 0 /\ pc' = "writeRotate" /\ job' = "log"
        /\ enable /\ enable' = enable
    BY <1>0, <1>8, Zenon DEF Rotate, RestartCount
  <2> QED
    BY <2>1 DEF MatchInv
<1>9. CASE WriteRotate
  <2>1. /\ pc = "writeRotate" /\ iter' = iter /\ entry' = 0 /\ pc' = "removeOld"
        /\ UNCHANGED <<job, enable>>
    BY <1>9 DEF WriteRotate, SetWodnum, Goto
  <2> QED
    BY <2>1 DEF MatchInv
<1>10. CASE WriteZero \/ Purge \/ OpenCmd \/ WriteCmd
  BY <1>10 DEF WriteZero, Purge, OpenCmd, WriteCmd, MatchInv
<1>11. CASE CmdOn \/ CmdOff
  <2>1. UNCHANGED <<log, path, pc, job, iter, entry>> /\ pc = "idle"
    BY <1>11, Zenon DEF CmdOn, CmdOff, card, Arrives
  <2>2. Counted' = Counted
    BY <2>1 DEF Counted
  <2> QED
    BY <2>1, <2>2 DEF MatchInv
<1>12. CASE CmdRmall \/ CmdReset \/ CmdSet
  BY <1>12 DEF CmdRmall, CmdReset, CmdSet, Arrives
<1>13. CASE Crash
  <2>1. iter' = 0 /\ entry' = 0 /\ pc' = "readNum" /\ job' = "boot" /\ enable' = TRUE
    BY <1>13 DEF Crash
  <2> QED
    BY <2>1 DEF MatchInv
<1>14. CASE Tick \/ UNCHANGED vars
  <2>1. UNCHANGED <<log, path, pc, job, enable, iter, entry>>
    BY <1>14 DEF Tick, card, vars
  <2>2. Counted' = Counted
    BY <2>1 DEF Counted
  <2> QED
    BY <2>1, <2>2 DEF MatchInv
<1> QED
  BY <1>1, <1>2, <1>3, <1>4, <1>5, <1>6, <1>7, <1>8, <1>9, <1>10, <1>11, <1>12,
     <1>13, <1>14
  DEF Next, System, WodInit, InitWodlog, WodLogging, Handling, Shell

(* While the daemon alone writes the logs, the current one holds exactly   *)
(* the first record and one for each cycle counted since, across the wraps *)
(* of the minute counter, resets of the computer wherever they strike, and *)
(* pauses of the logger.                                                   *)
THEOREM EveryCycleRecorded ==
  ASSUME MaxFaults = 0, Commands \subseteq {"on", "off"}
  PROVE  Spec => []RecordsMatch
<1>0. "reset" \notin Commands
  OBVIOUS
<1>1. Init => NoFaults /\ AgreeInv /\ HeaderInv
  BY DEF Init, NoFaults, AgreeInv, CounterAgrees, Idle, Writing, Absent, Unset, HeaderInv
<1>2. Init => SizeInv
  BY SizeInit
<1>3. Init => MatchInv
  BY DEF Init, MatchInv
<1>4. NoFaults /\ [Next]_vars => NoFaults'
  BY NoFaultsStep
<1>5. NoFaults /\ TypeOK /\ AgreeInv /\ [Next]_vars => AgreeInv'
  BY AgreeStep
<1>6. NoFaults /\ TypeOK /\ AgreeInv /\ HeaderInv /\ [Next]_vars => HeaderInv'
  BY <1>0, HeaderStep
<1>7. NoFaults /\ TypeOK /\ TypeOK' /\ AgreeInv /\ HeaderInv /\ SizeInv /\ [Next]_vars => SizeInv'
  BY SizeStep
<1>8. NoFaults /\ TypeOK /\ AgreeInv /\ HeaderInv /\ SizeInv /\ MatchInv /\ [Next]_vars => MatchInv'
  BY MatchStep
<1>9. MatchInv => RecordsMatch
  BY DEF MatchInv, RecordsMatch, Counted, Idle
<1> QED
  BY TypeCorrect, <1>1, <1>2, <1>3, <1>4, <1>5, <1>6, <1>7, <1>8, <1>9, PTL DEF Spec
=============================================================================
