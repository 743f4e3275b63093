-------------------------- MODULE WodTasks_proofs --------------------------
(***************************************************************************)
(* Theorems about the three tasks of WodTasks, for every size of the ring  *)
(* and every number of commands.                                           *)
(***************************************************************************)
EXTENDS WodTasks, TLAPS

USE TasksAssumption

-----------------------------------------------------------------------------
(* Where a task can be in each of its operations. *)

Setting == {"write", "assign", "named"}
Purging == {"purge", "read", "age", "renumber", "reassign", "rename"}
Making  == {"probe", "remove", "create", "magic", "time", "first", "last"}
Calls   == Setting \cup Purging \cup Making \cup {"sleep", "hk", "append", "idle"}

(* Task t may be in call p of its operation j.                             *)
Place(t, p, j) ==
  \/ p \in {"sleep", "hk"} /\ t = "daemon" /\ j = "none"
  \/ p = "append" /\ t = "daemon" /\ j = "append"
  \/ p = "idle" /\ t # "daemon" /\ j = "none"
  \/ /\ j \in {"rotate", "rmall", "reset", "set"} /\ (t = "daemon" <=> j = "rotate")
     /\ \/ p \in Setting
        \/ p \in Purging /\ j = "rmall"
        \/ p \in Making /\ j # "reset"

PlaceInv == pc \in [Tasks -> Calls] /\ \A t \in Tasks : Place(t, pc[t], job[t])

(* No record is late while wod_enable is set, nor while the daemon has yet *)
(* to write the one it has decided on.                                     *)
LateInv ==
  /\ enable \/ pc["daemon"] \in {"hk", "append"} => late = 0
  /\ late <= 1

(* Unless one command has fallen into another: at most one is under way,   *)
(* and then the operator's wish is in previous.                            *)
WishInv ==
  ~crossed =>
    \/ (\A t \in Executors : At(t, "idle")) /\ enable = wanted
    \/ \E t \in Executors :
         /\ ~At(t, "idle") /\ \A u \in Executors \ {t} : At(u, "idle")
         /\ previous = wanted

(* What a numbering operation that has met no other knows in each call.    *)
Ordered(t) ==
  alone[t] /\ Numbering(t) =>
    /\ \A u \in Tasks \ {t} : ~Numbering(u)
    /\ pc[t] \in {"assign", "reassign"} => wodnum = arg[t]
    /\ pc[t] \in Making \cup {"named", "rename"} => Agree
    /\ pc[t] \in Making \cup {"named"} /\ job[t] = "set" => arg[t] = path
    /\ pc[t] \in {"magic", "time"} => file[t] = path
    /\ pc[t] \in {"first", "last"} => hdr[path] = 2

OrderInv == (\A t \in Tasks : Ordered(t)) /\ InOrderUnlessMet

-----------------------------------------------------------------------------
(* Types. *)

(* The daemon's modulo brings any number back into the ring.               *)
LEMMA ModuloInNames == \A n \in Nat : (n + 1) % (MaxNum + 1) \in Names
  BY DEF Names

(* The names that reach the card's calls are those of the ring.            *)
LEMMA TargetType ==
  ASSUME TypeOK, NEW t \in Tasks
  PROVE  Target(t) \in Names /\ Argument(t) \in Names
  BY DEF TypeOK, Target, Argument

(* Opening a log, and removing one.                                        *)
LEMMA ExceptHdr ==
  ASSUME TypeOK, NEW f
  PROVE  /\ [hdr EXCEPT ![f] = IF @ = -1 THEN 0 ELSE @] \in [Names -> -1 .. 2]
         /\ [hdr EXCEPT ![f] = -1] \in [Names -> -1 .. 2]
<1>1. hdr \in [Names -> -1 .. 2]
  BY DEF TypeOK
<1> DEFINE v == IF hdr[f] = -1 THEN 0 ELSE hdr[f]
<1>2. f \in Names => v \in -1 .. 2
  BY <1>1
<1>3. [hdr EXCEPT ![f] = v] \in [Names -> -1 .. 2]
  <2> HIDE DEF v
  <2> QED BY <1>1, <1>2
<1>4. [hdr EXCEPT ![f] = -1] \in [Names -> -1 .. 2]
  <2>1. -1 \in -1 .. 2
    OBVIOUS
  <2> QED BY <1>1, <2>1
<1> QED
  BY <1>3, <1>4

LEMMA RemoveType ==
  ASSUME TypeOK, NEW f, Remove(f)
  PROVE  hdr' \in [Names -> -1 .. 2] /\ file' \in [Tasks -> Names \cup {Nowhere}]
  BY ExceptHdr DEF Remove, TypeOK

(* Each way to set wod_enable, and each record.                            *)
LEMMA CountType ==
  ASSUME TypeOK
  PROVE  /\ Record => late' \in Nat
         /\ \A v \in BOOLEAN : SetEnable(v) => enable' \in BOOLEAN /\ late' \in Nat
  BY DEF TypeOK, Record, SetEnable

LEMMA WakeType == TypeOK /\ Wake => TypeOK'
  BY DEF TypeOK, Wake, card, statics, marks, switch

LEMMA BeginType ==
  ASSUME TypeOK, NEW t \in Tasks, NEW j \in {"append", "rotate"}, Begin(t, j)
  PROVE  /\ job' \in [Tasks -> {"none", "append", "rotate", "rmall", "reset", "set"}]
         /\ alone' \in [Tasks -> BOOLEAN]
         /\ crossed' \in BOOLEAN /\ mixed' \in BOOLEAN /\ bare' \in BOOLEAN
  BY DEF TypeOK, Begin

LEMMA EndType ==
  ASSUME TypeOK, NEW t \in Tasks, NEW next, NEW fresh \in BOOLEAN, End(t, next, fresh)
  PROVE  /\ job' \in [Tasks -> {"none", "append", "rotate", "rmall", "reset", "set"}]
         /\ arg' \in [Tasks -> Names] /\ file' \in [Tasks -> Names \cup {Nowhere}]
         /\ alone' \in [Tasks -> BOOLEAN]
         /\ crossed' \in BOOLEAN /\ mixed' \in BOOLEAN /\ bare' \in BOOLEAN
  BY DEF TypeOK, End, Names

LEMMA DaemonType == TypeOK /\ (Wake \/ OpenLog \/ AppendRecord \/ Rotate) => TypeOK'
<1> SUFFICES ASSUME TypeOK, Wake \/ OpenLog \/ AppendRecord \/ Rotate PROVE TypeOK'
  OBVIOUS
<1>1. CASE Wake
  BY <1>1, WakeType
<1>2. CASE OpenLog
  <2>1. Passed \in Nat /\ iter' \in 0 .. Passes
    BY <1>2 DEF OpenLog, Passed, TypeOK
  <2>2. entry' \in Nat
    BY <1>2 DEF OpenLog, TypeOK
  <2>3. hdr' \in [Names -> -1 .. 2]
    BY <1>2, ExceptHdr DEF OpenLog
  <2>5. file' \in [Tasks -> Names \cup {Nowhere}]
    BY <1>2 DEF OpenLog, TypeOK
  <2>4. "daemon" \in Tasks
    BY DEF Tasks
  <2> QED
    BY <1>2, <2>1, <2>2, <2>3, <2>4, <2>5, BeginType DEF OpenLog, TypeOK, switch
<1>3. CASE AppendRecord
  <2>1. entry' \in Nat
    BY <1>3 DEF AppendRecord, TypeOK
  <2>2. late' \in Nat
    BY <1>3, CountType DEF AppendRecord
  <2>3. /\ job' \in [Tasks -> {"none", "append", "rotate", "rmall", "reset", "set"}]
        /\ file' \in [Tasks -> Names \cup {Nowhere}]
    BY <1>3 DEF AppendRecord, TypeOK
  <2> QED
    BY <1>3, <2>1, <2>2, <2>3 DEF AppendRecord, TypeOK, card, switch, marks
<1>4. CASE Rotate
  <2>1. number' \in Names /\ path' \in Names
    BY <1>4, ModuloInNames DEF Rotate, TypeOK, Names
  <2>2. "daemon" \in Tasks
    BY DEF Tasks
  <2>3. iter' \in 0 .. Passes /\ entry' \in Nat
    BY <1>4 DEF Rotate
  <2> QED
    BY <1>4, <2>1, <2>2, <2>3, BeginType DEF Rotate, TypeOK, card, switch
<1> QED
  BY <1>1, <1>2, <1>3, <1>4

LEMMA LongType ==
  ASSUME TypeOK, NEW t \in Executors, NEW c \in {"rmall", "reset", "set"}, Long(t, c)
  PROVE  /\ job' \in [Tasks -> {"none", "append", "rotate", "rmall", "reset", "set"}]
         /\ alone' \in [Tasks -> BOOLEAN] /\ cmds' \in 0 .. MaxCmds /\ late' \in Nat
         /\ crossed' \in BOOLEAN /\ mixed' \in BOOLEAN /\ bare' \in BOOLEAN
         /\ enable' \in BOOLEAN /\ previous' \in BOOLEAN /\ wanted' \in BOOLEAN
         /\ hdr' = hdr /\ wodnum' = wodnum /\ file' = file /\ iter' = iter
<1>1. late' \in Nat /\ enable' \in BOOLEAN /\ previous' \in BOOLEAN
  BY CountType DEF TypeOK, Long, SaveAndClear
<1>2. cmds' \in 0 .. MaxCmds
  BY DEF TypeOK, Long, Command
<1>3. job' \in [Tasks -> {"none", "append", "rotate", "rmall", "reset", "set"}]
  BY DEF TypeOK, Long
<1>4. alone' \in [Tasks -> BOOLEAN]
  BY DEF TypeOK, Long
<1>5. crossed' \in BOOLEAN
  BY DEF TypeOK, Long, Crosses
<1> QED
  BY <1>1, <1>2, <1>3, <1>4, <1>5 DEF TypeOK, Long

LEMMA ShellType ==
  ASSUME TypeOK, NEW t \in Executors, Shell(t)
  PROVE  TypeOK'
<1>1. CASE CmdOn(t)
  <2>1. enable' \in BOOLEAN /\ late' \in Nat /\ wanted' \in BOOLEAN
    BY <1>1, CountType DEF CmdOn
  <2>2. crossed' \in BOOLEAN
    BY <1>1 DEF CmdOn, Crosses
  <2>3. cmds' \in 0 .. MaxCmds
    BY <1>1 DEF CmdOn, Command, TypeOK
  <2> QED
    BY <1>1, <2>1, <2>2, <2>3 DEF TypeOK, CmdOn, card, statics
<1>2. CASE CmdOff(t)
  <2>1. enable' \in BOOLEAN /\ late' \in Nat /\ wanted' \in BOOLEAN
    BY <1>2, CountType DEF CmdOff
  <2>2. crossed' \in BOOLEAN
    BY <1>2 DEF CmdOff, Crosses
  <2>3. cmds' \in 0 .. MaxCmds
    BY <1>2 DEF CmdOff, Command, TypeOK
  <2> QED
    BY <1>2, <2>1, <2>2, <2>3 DEF TypeOK, CmdOff, card, statics
<1>3. CASE CmdRmall(t)
  BY <1>3, LongType DEF TypeOK, CmdRmall, Names
<1>4. CASE CmdReset(t)
  BY <1>4, LongType DEF TypeOK, CmdReset
<1>5. CASE CmdSet(t)
  <2>1. arg' \in [Tasks -> Names]
    <3>1. PICK n \in 0 .. MaxNum : arg' = [arg EXCEPT ![t] = n]
      BY <1>5 DEF CmdSet
    <3>2. n \in Names
      BY DEF Names
    <3> QED
      BY <3>1, <3>2 DEF TypeOK
  <2> QED
    BY <1>5, <2>1, LongType DEF TypeOK, CmdSet
<1> QED
  BY <1>1, <1>2, <1>3, <1>4, <1>5 DEF Shell

LEMMA NumbersType ==
  ASSUME TypeOK, NEW t \in Tasks, Numbers(t)
  PROVE  TypeOK'
<1>1. CASE WriteNum(t)
  BY <1>1, TargetType DEF TypeOK, WriteNum, statics, switch, marks
<1>2. CASE Assign(t)
  BY <1>2 DEF TypeOK, Assign, card, switch, marks
<1>3. CASE Proceed(t)
  BY <1>3 DEF TypeOK, Proceed, Names, card, statics, switch, marks
<1>4. CASE EndReset(t)
  BY <1>4, EndType, CountType DEF TypeOK, EndReset, card, statics
<1>5. CASE Purge(t)
  <2>1. hdr' \in [Names -> -1 .. 2] /\ file' \in [Tasks -> Names \cup {Nowhere}]
    BY <1>5, RemoveType DEF Purge
  <2>2. arg' \in [Tasks -> Names]
    <3>1. arg \in [Tasks -> Names] /\ 0 \in Names
      BY DEF TypeOK, Names
    <3>2. arg[t] < MaxNum => arg[t] + 1 \in Names
      BY <3>1 DEF Names
    <3> QED
      BY <1>5, <3>1, <3>2 DEF Purge
  <2> QED
    BY <1>5, <2>1, <2>2 DEF TypeOK, Purge, statics, switch, marks
<1>6. CASE ReadNum(t)
  BY <1>6 DEF TypeOK, ReadNum, card, statics, switch, marks
<1>7. CASE ReadAge(t)
  <2>1. arg' \in [Tasks -> Names] /\ path' \in Names
    BY <1>7 DEF TypeOK, ReadAge, Names
  <2> QED
    BY <1>7, <2>1 DEF TypeOK, ReadAge, card, switch, marks
<1>8. CASE Renumber(t)
  BY <1>8 DEF TypeOK, Renumber, switch, marks
<1>9. CASE Reassign(t)
  BY <1>9 DEF TypeOK, Reassign, card, switch, marks
<1> QED
  BY <1>1, <1>2, <1>3, <1>4, <1>5, <1>6, <1>7, <1>8, <1>9 DEF Numbers

LEMMA InitWodlogType ==
  ASSUME TypeOK, NEW t \in Tasks, InitWodlog(t)
  PROVE  TypeOK'
<1>1. CASE Probe(t)
  BY <1>1 DEF TypeOK, Probe, card, switch, marks
<1>2. CASE RemoveOld(t)
  BY <1>2, RemoveType DEF TypeOK, RemoveOld, statics, switch, marks
<1>3. CASE CreateLog(t)
  BY <1>3, TargetType DEF TypeOK, CreateLog, statics, switch, marks
<1>4. CASE WriteHeader(t)
  BY <1>4 DEF TypeOK, WriteHeader, statics, switch, marks
<1>5. CASE WriteFirst(t)
  BY <1>5 DEF TypeOK, WriteFirst, Record, card, switch, marks
<1>6. CASE Finish(t)
  BY <1>6, EndType, CountType DEF TypeOK, Finish, card
<1> QED
  BY <1>1, <1>2, <1>3, <1>4, <1>5, <1>6 DEF InitWodlog

(* However the tasks meet, every variable keeps its type: no task leaves   *)
(* the ring by more than the one number wod_init may go past it.           *)
THEOREM TypeCorrect == Spec => []TypeOK
<1>1. Init => TypeOK
  <2>1. Init => hdr \in [Names -> -1 .. 2]
    BY DEF Init, Names
  <2>2. Init => /\ wodnum \in Names /\ number \in Names /\ path \in Names
                /\ entry \in Nat /\ iter \in 0 .. Passes /\ late \in Nat /\ cmds \in 0 .. MaxCmds
    BY DEF Init, Names
  <2>3. Init => arg \in [Tasks -> Names] /\ file \in [Tasks -> Names \cup {Nowhere}]
    BY DEF Init, Names
  <2> QED
    BY <2>1, <2>2, <2>3 DEF Init, TypeOK
<1>2. TypeOK /\ [Next]_vars => TypeOK'
  <2> SUFFICES ASSUME TypeOK, [Next]_vars PROVE TypeOK'
    OBVIOUS
  <2>1. CASE Daemon
    BY <2>1, DaemonType, NumbersType, InitWodlogType DEF Daemon, Tasks
  <2>2. ASSUME NEW t \in Executors, Executor(t) PROVE TypeOK'
    BY <2>2, NumbersType, InitWodlogType DEF Executor, Tasks
  <2>3. ASSUME NEW t \in Executors, Shell(t) PROVE TypeOK'
    BY <2>3, ShellType
  <2>4. CASE UNCHANGED vars
    BY <2>4 DEF TypeOK, vars, card, statics, switch, marks
  <2> QED
    BY <2>1, <2>2, <2>3, <2>4 DEF Next
<1> QED
  BY <1>1, <1>2, PTL DEF Spec

-----------------------------------------------------------------------------
(* Places. *)

(* A step moves one task, which stays in its operation,                    *)
LEMMA Moves ==
  ASSUME TypeOK, PlaceInv, NEW t \in Tasks, NEW p \in Calls,
         Goto(t, p), job' = job, Place(t, p, job[t])
  PROVE  PlaceInv'
<1>1. pc' = [pc EXCEPT ![t] = p] /\ pc' \in [Tasks -> Calls]
  BY DEF Goto, PlaceInv
<1>2. \A u \in Tasks : Place(u, pc[u], job[u])
  BY DEF PlaceInv
<1> QED
  BY <1>1, <1>2 DEF PlaceInv

(* or begins or ends one.                                                  *)
LEMMA Changes ==
  ASSUME TypeOK, PlaceInv, NEW t \in Tasks, NEW p \in Calls, NEW j,
         Goto(t, p), job' = [job EXCEPT ![t] = j], Place(t, p, j)
  PROVE  PlaceInv'
<1>1. pc' = [pc EXCEPT ![t] = p] /\ pc' \in [Tasks -> Calls]
  BY DEF Goto, PlaceInv
<1>2. \A u \in Tasks : Place(u, pc[u], job[u])
  BY DEF PlaceInv
<1>3. job \in [Tasks -> {"none", "append", "rotate", "rmall", "reset", "set"}]
  BY DEF TypeOK
<1>4. \A u \in Tasks : Place(u, pc'[u], job'[u])
  BY <1>1, <1>2, <1>3
<1> QED
  BY <1>1, <1>4 DEF PlaceInv

LEMMA DaemonPlace ==
  ASSUME TypeOK, PlaceInv, Wake \/ OpenLog \/ AppendRecord \/ Rotate
  PROVE  PlaceInv'
<1>1. "daemon" \in Tasks
  BY DEF Tasks
<1>2. CASE Wake
  <2>1. Place("daemon", "hk", job["daemon"])
    BY <1>1, <1>2 DEF Wake, At, PlaceInv, Place, Setting, Purging, Making
  <2> QED
    BY <1>1, <1>2, <2>1, Moves DEF Wake, Calls
<1>3. CASE OpenLog
  BY <1>1, <1>3, Changes DEF OpenLog, Begin, Calls, Place
<1>4. CASE AppendRecord
  BY <1>1, <1>4, Changes DEF AppendRecord, Calls, Place
<1>5. CASE Rotate
  BY <1>1, <1>5, Changes DEF Rotate, Begin, Calls, Place, Setting
<1> QED
  BY <1>2, <1>3, <1>4, <1>5

LEMMA ShellPlace ==
  ASSUME TypeOK, PlaceInv, NEW t \in Executors, Shell(t)
  PROVE  PlaceInv'
<1>1. t \in Tasks /\ t # "daemon"
  BY DEF Tasks, Executors
<1>2. CASE CmdOn(t) \/ CmdOff(t)
  BY <1>2 DEF CmdOn, CmdOff, PlaceInv
<1>3. CASE CmdRmall(t)
  BY <1>1, <1>3, Changes DEF CmdRmall, Long, Calls, Place, Setting
<1>4. CASE CmdReset(t)
  BY <1>1, <1>4, Changes DEF CmdReset, Long, Calls, Place, Setting
<1>5. CASE CmdSet(t)
  BY <1>1, <1>5, Changes DEF CmdSet, Long, Calls, Place, Setting
<1> QED
  BY <1>2, <1>3, <1>4, <1>5 DEF Shell

LEMMA NumbersPlace ==
  ASSUME TypeOK, PlaceInv, NEW t \in Tasks, Numbers(t)
  PROVE  PlaceInv'
<1> USE DEF Calls, Place, Setting, Purging, Making, At
<1>1. Place(t, pc[t], job[t]) /\ pc[t] \in Calls
  BY DEF PlaceInv
<1>2. CASE WriteNum(t)
  BY <1>1, <1>2, Moves DEF WriteNum
<1>3. CASE Assign(t)
  BY <1>1, <1>3, Moves DEF Assign
<1>4. CASE Proceed(t)
  BY <1>1, <1>4, Moves DEF Proceed
<1>5. CASE EndReset(t)
  BY <1>1, <1>5, Changes DEF EndReset, End, Goto
<1>6. CASE Purge(t)
  <2>1. CASE arg[t] < MaxNum
    BY <1>6, <2>1 DEF Purge, PlaceInv
  <2>2. CASE ~(arg[t] < MaxNum)
    BY <1>1, <1>6, <2>2, Moves DEF Purge
  <2> QED
    BY <2>1, <2>2
<1>7. CASE ReadNum(t)
  BY <1>1, <1>7, Moves DEF ReadNum
<1>8. CASE ReadAge(t)
  BY <1>1, <1>8, Moves DEF ReadAge
<1>9. CASE Renumber(t)
  BY <1>1, <1>9, Moves DEF Renumber
<1>10. CASE Reassign(t)
  BY <1>1, <1>10, Moves DEF Reassign
<1> QED
  BY <1>2, <1>3, <1>4, <1>5, <1>6, <1>7, <1>8, <1>9, <1>10 DEF Numbers

LEMMA InitWodlogPlace ==
  ASSUME TypeOK, PlaceInv, NEW t \in Tasks, InitWodlog(t)
  PROVE  PlaceInv'
<1> USE DEF Calls, Place, Setting, Purging, Making, At
<1>1. Place(t, pc[t], job[t]) /\ pc[t] \in Calls
  BY DEF PlaceInv
<1>2. CASE Probe(t)
  <2>1. PICK p \in {"create", "remove"} : Goto(t, p)
    BY <1>2 DEF Probe
  <2> QED
    BY <1>1, <1>2, <2>1, Moves DEF Probe
<1>3. CASE RemoveOld(t)
  BY <1>1, <1>3, Moves DEF RemoveOld
<1>4. CASE CreateLog(t)
  BY <1>1, <1>4, Moves DEF CreateLog
<1>5. CASE WriteHeader(t)
  BY <1>1, <1>5, Moves DEF WriteHeader
<1>6. CASE WriteFirst(t)
  BY <1>1, <1>6, Moves DEF WriteFirst
<1>7. CASE Finish(t)
  BY <1>1, <1>7, Changes DEF Finish, End, Goto
<1> QED
  BY <1>2, <1>3, <1>4, <1>5, <1>6, <1>7 DEF InitWodlog

LEMMA InitPlace == Init => PlaceInv
  BY DEF Init, PlaceInv, Place, Calls, Tasks, Executors

LEMMA NextPlace == TypeOK /\ PlaceInv /\ [Next]_vars => PlaceInv'
<1> SUFFICES ASSUME TypeOK, PlaceInv, [Next]_vars PROVE PlaceInv'
  OBVIOUS
<1>1. CASE Daemon
  BY <1>1, DaemonPlace, NumbersPlace, InitWodlogPlace DEF Daemon, Tasks
<1>2. ASSUME NEW t \in Executors, Executor(t) PROVE PlaceInv'
  BY <1>2, NumbersPlace, InitWodlogPlace DEF Executor, Tasks
<1>3. ASSUME NEW t \in Executors, Shell(t) PROVE PlaceInv'
  BY <1>3, ShellPlace
<1>4. CASE UNCHANGED vars
  BY <1>4 DEF PlaceInv, vars
<1> QED
  BY <1>1, <1>2, <1>3, <1>4 DEF Next

-----------------------------------------------------------------------------
(* The record that comes late. *)

(* A step that does not touch the daemon's place but to take it away from  *)
(* a record, and counts as it should, keeps LateInv.                       *)
LEMMA SetsEnable ==
  ASSUME TypeOK, LateInv, NEW v \in BOOLEAN, SetEnable(v),
         pc'["daemon"] \in {"hk", "append"} => pc["daemon"] \in {"hk", "append"}
  PROVE  LateInv'
  BY DEF TypeOK, LateInv, SetEnable

LEMMA KeepsCount ==
  ASSUME LateInv, late' = late, enable' = enable,
         pc'["daemon"] \in {"hk", "append"} => pc["daemon"] \in {"hk", "append"}
  PROVE  LateInv'
  BY DEF LateInv

(* A call of another kind leads the daemon to no record,                   *)
LEMMA NeverToRecord ==
  ASSUME TypeOK, PlaceInv, NEW t \in Tasks, NEW p, Goto(t, p),
         p \notin {"hk", "append"}
  PROVE  pc'["daemon"] \in {"hk", "append"} => pc["daemon"] \in {"hk", "append"}
  BY DEF PlaceInv, Goto, Tasks

LEMMA NumbersLate ==
  ASSUME TypeOK, PlaceInv, LateInv, NEW t \in Tasks, Numbers(t)
  PROVE  LateInv'
<1>1. CASE WriteNum(t)
  BY <1>1, NeverToRecord, KeepsCount DEF WriteNum, switch
<1>2. CASE Assign(t)
  BY <1>2, NeverToRecord, KeepsCount DEF Assign, switch
<1>3. CASE Proceed(t)
  BY <1>3, NeverToRecord, KeepsCount DEF Proceed, switch
<1>4. CASE EndReset(t)
  <2>1. Goto(t, "idle") /\ SetEnable(previous) /\ previous \in BOOLEAN
    BY <1>4 DEF EndReset, End, Goto, TypeOK
  <2> QED
    BY <2>1, NeverToRecord, SetsEnable
<1>5. CASE Purge(t)
  <2>1. Goto(t, "read") \/ pc' = pc
    BY <1>5 DEF Purge
  <2> QED
    BY <1>5, <2>1, NeverToRecord, KeepsCount DEF Purge, switch
<1>6. CASE ReadNum(t)
  BY <1>6, NeverToRecord, KeepsCount DEF ReadNum, switch
<1>7. CASE ReadAge(t)
  BY <1>7, NeverToRecord, KeepsCount DEF ReadAge, switch
<1>8. CASE Renumber(t)
  BY <1>8, NeverToRecord, KeepsCount DEF Renumber, switch
<1>9. CASE Reassign(t)
  BY <1>9, NeverToRecord, KeepsCount DEF Reassign, switch
<1> QED
  BY <1>1, <1>2, <1>3, <1>4, <1>5, <1>6, <1>7, <1>8, <1>9 DEF Numbers

(* not even that of the first record of a log, which looks at wod_enable.  *)
LEMMA InitWodlogLate ==
  ASSUME TypeOK, PlaceInv, LateInv, NEW t \in Tasks, InitWodlog(t)
  PROVE  LateInv'
<1>1. CASE Probe(t)
  BY <1>1, NeverToRecord, KeepsCount DEF Probe, switch
<1>2. CASE RemoveOld(t)
  BY <1>2, NeverToRecord, KeepsCount DEF RemoveOld, switch
<1>3. CASE CreateLog(t)
  BY <1>3, NeverToRecord, KeepsCount DEF CreateLog, switch
<1>4. CASE WriteHeader(t)
  BY <1>4, NeverToRecord, KeepsCount DEF WriteHeader, switch
<1>5. CASE WriteFirst(t)
  <2>1. late' = late
    BY <1>5 DEF WriteFirst, Record, LateInv
  <2> QED
    BY <1>5, <2>1, NeverToRecord, KeepsCount DEF WriteFirst, switch
<1>6. CASE Finish(t)
  <2>1. CASE t = "daemon"
    <3>1. Goto(t, "sleep") /\ enable' = enable /\ late' = late
      BY <1>6, <2>1 DEF Finish, End, Goto
    <3> QED
      BY <3>1, NeverToRecord, KeepsCount
  <2>2. CASE t # "daemon"
    <3>1. Goto(t, "idle") /\ SetEnable(previous) /\ previous \in BOOLEAN
      BY <1>6, <2>2 DEF Finish, End, Goto, TypeOK
    <3> QED
      BY <3>1, NeverToRecord, SetsEnable
  <2> QED
    BY <2>1, <2>2
<1> QED
  BY <1>1, <1>2, <1>3, <1>4, <1>5, <1>6 DEF InitWodlog

LEMMA DaemonLate ==
  ASSUME TypeOK, PlaceInv, LateInv, Wake \/ OpenLog \/ AppendRecord \/ Rotate
  PROVE  LateInv'
<1>1. "daemon" \in Tasks
  BY DEF Tasks
<1>2. CASE Wake
  BY <1>2 DEF Wake, LateInv, switch
<1>3. CASE OpenLog
  BY <1>3, KeepsCount DEF OpenLog, At, switch
<1>4. CASE AppendRecord
  <2>1. late = 0 /\ enable' = enable
    BY <1>4 DEF AppendRecord, At, LateInv, switch
  <2>2. late' <= 1 /\ (enable => late' = 0)
    BY <1>4, <2>1 DEF AppendRecord, Record
  <2>3. pc'["daemon"] = "sleep"
    BY <1>1, <1>4 DEF AppendRecord, Goto, PlaceInv
  <2> QED
    BY <2>1, <2>2, <2>3 DEF LateInv
<1>5. CASE Rotate
  BY <1>5, KeepsCount DEF Rotate, At, switch
<1> QED
  BY <1>2, <1>3, <1>4, <1>5

LEMMA ShellLate ==
  ASSUME TypeOK, PlaceInv, LateInv, NEW t \in Executors, Shell(t)
  PROVE  LateInv'
<1>1. t \in Tasks
  BY DEF Tasks
<1>2. CASE CmdOn(t)
  BY <1>2, SetsEnable DEF CmdOn
<1>3. CASE CmdOff(t)
  BY <1>3, SetsEnable DEF CmdOff
<1>4. ASSUME NEW c, Long(t, c) PROVE LateInv'
  BY <1>1, <1>4, NeverToRecord, SetsEnable DEF Long, SaveAndClear
<1> QED
  BY <1>2, <1>3, <1>4 DEF Shell, CmdRmall, CmdReset, CmdSet

(* Once wod_enable has been cleared, by whatever task, at most the one     *)
(* record follows that the daemon had decided on before: no order of the   *)
(* calls of three tasks lets a second one through.                         *)
THEOREM OneLate == Spec => []OneLateRecord
<1>1. Init => LateInv
  BY DEF Init, LateInv
<1>2. TypeOK /\ PlaceInv /\ LateInv /\ [Next]_vars => LateInv'
  <2> SUFFICES ASSUME TypeOK, PlaceInv, LateInv, [Next]_vars PROVE LateInv'
    OBVIOUS
  <2>1. CASE Daemon
    BY <2>1, DaemonLate, NumbersLate, InitWodlogLate DEF Daemon, Tasks
  <2>2. ASSUME NEW t \in Executors, Executor(t) PROVE LateInv'
    BY <2>2, NumbersLate, InitWodlogLate DEF Executor, Tasks
  <2>3. ASSUME NEW t \in Executors, Shell(t) PROVE LateInv'
    BY <2>3, ShellLate
  <2>4. CASE UNCHANGED vars
    BY <2>4 DEF LateInv, vars, switch
  <2> QED
    BY <2>1, <2>2, <2>3, <2>4 DEF Next
<1>3. LateInv => OneLateRecord
  BY DEF LateInv, OneLateRecord
<1> QED
  BY <1>1, <1>2, <1>3, InitPlace, NextPlace, TypeCorrect, PTL DEF Spec

-----------------------------------------------------------------------------
(* The operator's wish. *)

(* A call inside an operation, of the daemon or of a command.              *)
LEMMA KeepsWish ==
  ASSUME PlaceInv, WishInv, NEW t \in Tasks, NEW p, Goto(t, p),
         pc[t] # "idle", p # "idle",
         enable' = enable, previous' = previous, wanted' = wanted, crossed' = crossed
  PROVE  WishInv'
<1>1. \A u \in Executors : pc'[u] = "idle" <=> pc[u] = "idle"
  BY DEF Goto, PlaceInv, Tasks
<1> QED
  BY <1>1 DEF WishInv, At

(* A command's last call.                                                  *)
LEMMA PutsBack ==
  ASSUME PlaceInv, WishInv, NEW t \in Executors, pc[t] # "idle", Goto(t, "idle"),
         enable' = previous, previous' = previous, wanted' = wanted, crossed' = crossed
  PROVE  WishInv'
<1> SUFFICES ASSUME ~crossed PROVE WishInv'
  BY DEF WishInv
<1>1. /\ \A u \in Executors \ {t} : At(u, "idle")
      /\ previous = wanted
  BY DEF WishInv, At
<1>2. \A u \in Executors : pc'[u] = "idle"
  BY <1>1 DEF Goto, PlaceInv, Tasks, At
<1> QED
  BY <1>1, <1>2 DEF WishInv, At

LEMMA NumbersWish ==
  ASSUME TypeOK, PlaceInv, WishInv, NEW t \in Tasks, Numbers(t)
  PROVE  WishInv'
<1> USE DEF At
<1>1. CASE WriteNum(t)
  BY <1>1, KeepsWish DEF WriteNum, switch, marks
<1>2. CASE Assign(t)
  BY <1>2, KeepsWish DEF Assign, switch, marks
<1>3. CASE Proceed(t)
  BY <1>3, KeepsWish DEF Proceed, switch, marks
<1>4. CASE EndReset(t)
  <2>1. t \in Executors
    BY <1>4 DEF EndReset, PlaceInv, Place, Tasks
  <2>2. Goto(t, "idle") /\ pc[t] # "idle" /\ enable' = previous
        /\ previous' = previous /\ wanted' = wanted /\ crossed' = crossed
    BY <1>4 DEF EndReset, End, Goto, SetEnable
  <2> QED
    BY <2>1, <2>2, PutsBack
<1>5. CASE Purge(t)
  <2>1. Goto(t, "read") \/ pc' = pc
    BY <1>5 DEF Purge
  <2>2. CASE pc' = pc
    BY <1>5, <2>2 DEF Purge, switch, marks, WishInv
  <2> QED
    BY <1>5, <2>1, <2>2, KeepsWish DEF Purge, switch, marks
<1>6. CASE ReadNum(t)
  BY <1>6, KeepsWish DEF ReadNum, switch, marks
<1>7. CASE ReadAge(t)
  BY <1>7, KeepsWish DEF ReadAge, switch, marks
<1>8. CASE Renumber(t)
  BY <1>8, KeepsWish DEF Renumber, switch, marks
<1>9. CASE Reassign(t)
  BY <1>9, KeepsWish DEF Reassign, switch, marks
<1> QED
  BY <1>1, <1>2, <1>3, <1>4, <1>5, <1>6, <1>7, <1>8, <1>9 DEF Numbers

LEMMA InitWodlogWish ==
  ASSUME TypeOK, PlaceInv, WishInv, NEW t \in Tasks, InitWodlog(t)
  PROVE  WishInv'
<1> USE DEF At
<1>1. CASE Probe(t)
  <2>1. PICK p \in {"create", "remove"} : Goto(t, p)
    BY <1>1 DEF Probe
  <2> QED
    BY <1>1, <2>1, KeepsWish DEF Probe, switch, marks
<1>2. CASE RemoveOld(t)
  BY <1>2, KeepsWish DEF RemoveOld, switch, marks
<1>3. CASE CreateLog(t)
  BY <1>3, KeepsWish DEF CreateLog, switch, marks
<1>4. CASE WriteHeader(t)
  BY <1>4, KeepsWish DEF WriteHeader, switch, marks
<1>5. CASE WriteFirst(t)
  BY <1>5, KeepsWish DEF WriteFirst, switch, marks
<1>6. CASE Finish(t)
  <2>1. CASE t = "daemon"
    BY <1>6, <2>1, KeepsWish DEF Finish, End, Goto
  <2>2. CASE t # "daemon"
    <3>1. t \in Executors
      BY <2>2 DEF Tasks
    <3>2. Goto(t, "idle") /\ pc[t] # "idle" /\ enable' = previous
          /\ previous' = previous /\ wanted' = wanted /\ crossed' = crossed
      BY <1>6, <2>2 DEF Finish, End, Goto, SetEnable
    <3> QED
      BY <3>1, <3>2, PutsBack
  <2> QED
    BY <2>1, <2>2
<1> QED
  BY <1>1, <1>2, <1>3, <1>4, <1>5, <1>6 DEF InitWodlog

LEMMA DaemonWish ==
  ASSUME TypeOK, PlaceInv, WishInv, Wake \/ OpenLog \/ AppendRecord \/ Rotate
  PROVE  WishInv'
<1> USE DEF At
<1>1. "daemon" \in Tasks
  BY DEF Tasks
<1>2. CASE Wake
  BY <1>1, <1>2, KeepsWish DEF Wake, switch, marks
<1>3. CASE OpenLog
  BY <1>1, <1>3, KeepsWish DEF OpenLog, Begin, switch
<1>4. CASE AppendRecord
  BY <1>1, <1>4, KeepsWish DEF AppendRecord, switch, marks
<1>5. CASE Rotate
  BY <1>1, <1>5, KeepsWish DEF Rotate, Begin, switch
<1> QED
  BY <1>2, <1>3, <1>4, <1>5

(* "on" and "off" make the wish; a long command that begins alone saves    *)
(* it, since nobody else has cleared the flag.                             *)
LEMMA ShellWish ==
  ASSUME TypeOK, PlaceInv, WishInv, NEW t \in Executors, Shell(t)
  PROVE  WishInv'
<1>1. ASSUME CmdOn(t) \/ CmdOff(t) PROVE WishInv'
  <2>1. crossed' = Crosses(t) /\ enable' = wanted' /\ pc' = pc /\ pc[t] = "idle"
    BY <1>1 DEF CmdOn, CmdOff, Command, SetEnable, At
  <2> QED
    BY <2>1 DEF Crosses, WishInv, At
<1>2. ASSUME NEW c, Long(t, c) PROVE WishInv'
  <2> SUFFICES ASSUME ~crossed' PROVE WishInv'
    BY DEF WishInv
  <2>1. ~crossed /\ \A u \in Executors : pc[u] = "idle"
    BY <1>2 DEF Long, Crosses, Command, At
  <2>2. enable = wanted
    BY <2>1 DEF WishInv, At
  <2>3. previous' = wanted'
    BY <1>2, <2>2 DEF Long, SaveAndClear
  <2>4. pc'[t] = "write" /\ \A u \in Executors \ {t} : pc'[u] = "idle"
    BY <1>2, <2>1 DEF Long, Goto, PlaceInv, Tasks
  <2> QED
    BY <2>3, <2>4 DEF WishInv, At
<1> QED
  BY <1>1, <1>2 DEF Shell, CmdRmall, CmdReset, CmdSet

(* Between commands the logger is on or off as the operator last said,     *)
(* unless one command fell into another, whose previous is the same.       *)
THEOREM WishHeld == Spec => []WishKept
<1>1. Init => WishInv
  BY DEF Init, WishInv, At, Tasks, Executors
<1>2. TypeOK /\ PlaceInv /\ WishInv /\ [Next]_vars => WishInv'
  <2> SUFFICES ASSUME TypeOK, PlaceInv, WishInv, [Next]_vars PROVE WishInv'
    OBVIOUS
  <2>1. CASE Daemon
    BY <2>1, DaemonWish, NumbersWish, InitWodlogWish DEF Daemon, Tasks
  <2>2. ASSUME NEW t \in Executors, Executor(t) PROVE WishInv'
    BY <2>2, NumbersWish, InitWodlogWish DEF Executor, Tasks
  <2>3. ASSUME NEW t \in Executors, Shell(t) PROVE WishInv'
    BY <2>3, ShellWish
  <2>4. CASE UNCHANGED vars
    BY <2>4 DEF WishInv, vars, switch, marks, At
  <2> QED
    BY <2>1, <2>2, <2>3, <2>4 DEF Next
<1>3. WishInv => WishKept
  BY DEF WishInv, WishKept
<1> QED
  BY <1>1, <1>2, <1>3, InitPlace, NextPlace, TypeCorrect, PTL DEF Spec

-----------------------------------------------------------------------------
(* Operations that meet no other. *)

(* Who is in a call of the numbering is in a numbering operation.          *)
LEMMA InNumbering ==
  ASSUME PlaceInv, NEW t \in Tasks, Numbers(t) \/ InitWodlog(t)
  PROVE  Numbering(t)
<1>1. Place(t, pc[t], job[t])
  BY DEF PlaceInv
<1>2. pc[t] \notin {"sleep", "hk", "append", "idle"}
  BY DEF Numbers, InitWodlog, WriteNum, Assign, Proceed, EndReset, Purge, ReadNum,
         ReadAge, Renumber, Reassign, Probe, RemoveOld, CreateLog, WriteHeader,
         WriteFirst, Finish, At
<1> QED
  BY <1>1, <1>2 DEF Place, Numbering

(* Then, if it has met no other, no other has anything to keep to; and as  *)
(* long as it goes on, nothing need be in order between operations.        *)
LEMMA OnlyMine ==
  ASSUME TypeOK, OrderInv, NEW t \in Tasks, Numbering(t),
         alone' = alone, job' = job, Ordered(t)'
  PROVE  OrderInv'
<1>1. Numbering(t)'
  BY DEF Numbering
<1>2. ASSUME NEW u \in Tasks \ {t} PROVE Ordered(u)'
  <2>1. alone[u] /\ Numbering(u) => ~Numbering(t)
    BY DEF OrderInv, Ordered
  <2> QED
    BY <2>1 DEF Ordered, Numbering
<1> QED
  BY <1>1, <1>2 DEF OrderInv, InOrderUnlessMet

(* When it ends, what it knew is what holds between operations.            *)
LEMMA EndsInOrder ==
  ASSUME TypeOK, PlaceInv, OrderInv, NEW t \in Tasks, Numbering(t),
         NEW next, NEW fresh \in BOOLEAN, End(t, next, fresh),
         wodnum' = wodnum, number' = number, path' = path, hdr' = hdr,
         alone[t] => Agree /\ (fresh => hdr[path] = 2)
  PROVE  OrderInv'
<1>1. job' = [job EXCEPT ![t] = "none"] /\ alone' = alone
      /\ mixed' = ~alone[t] /\ bare' = ~(alone[t] /\ fresh)
  BY DEF End
<1>2. ~Numbering(t)'
  BY <1>1 DEF Numbering, TypeOK
<1>3. ASSUME NEW u \in Tasks PROVE Ordered(u)'
  <2>1. CASE u = t
    BY <1>2, <2>1 DEF Ordered
  <2>2. CASE u # t
    <3>1. alone[u] /\ Numbering(u) => ~Numbering(t)
      BY <2>2 DEF OrderInv, Ordered
    <3>2. Numbering(u)' <=> Numbering(u)
      BY <1>1, <2>2 DEF Numbering, TypeOK
    <3> QED
      BY <1>1, <3>1, <3>2 DEF Ordered
  <2> QED
    BY <2>1, <2>2
<1>4. InOrderUnlessMet'
  BY <1>1 DEF InOrderUnlessMet, Agree
<1> QED
  BY <1>3, <1>4 DEF OrderInv

LEMMA NumbersOrder ==
  ASSUME TypeOK, PlaceInv, OrderInv, NEW t \in Tasks, Numbers(t)
  PROVE  OrderInv'
<1> USE DEF At, Goto, Making
<1>1. Numbering(t) /\ Ordered(t) /\ Place(t, pc[t], job[t])
  BY InNumbering DEF OrderInv, PlaceInv
<1>2. pc \in [Tasks -> Calls] /\ arg \in [Tasks -> Names]
  BY DEF PlaceInv, TypeOK
<1>3. CASE WriteNum(t)
  <2>1. Ordered(t)'
    BY <1>1, <1>2, <1>3 DEF WriteNum, Ordered, Numbering, marks
  <2> QED
    BY <1>1, <1>3, <2>1, OnlyMine DEF WriteNum, marks
<1>4. CASE Assign(t)
  <2>1. Ordered(t)'
    BY <1>1, <1>2, <1>4 DEF Assign, Ordered, Numbering, marks, Agree, card
  <2> QED
    BY <1>1, <1>4, <2>1, OnlyMine DEF Assign, marks
<1>5. CASE Proceed(t)
  <2>1. Ordered(t)'
    BY <1>1, <1>2, <1>5 DEF Proceed, Ordered, Numbering, marks, Agree, card, statics
  <2> QED
    BY <1>1, <1>5, <2>1, OnlyMine DEF Proceed, marks
<1>6. CASE EndReset(t)
  <2>1. alone[t] => Agree
    BY <1>1, <1>6 DEF EndReset, Ordered
  <2> QED
    BY <1>1, <1>6, <2>1, EndsInOrder DEF EndReset, card, statics
<1>7. CASE Purge(t)
  <2>1. job[t] = "rmall" /\ job' = job
    BY <1>1, <1>7 DEF Purge, Place, Setting
  <2>2. Ordered(t)'
    BY <1>1, <1>2, <1>7, <2>1 DEF Purge, Ordered, Numbering, marks
  <2> QED
    BY <1>1, <1>7, <2>2, OnlyMine DEF Purge, marks
<1>8. CASE ReadNum(t)
  <2>1. Ordered(t)'
    BY <1>1, <1>2, <1>8 DEF ReadNum, Ordered, Numbering, marks
  <2> QED
    BY <1>1, <1>8, <2>1, OnlyMine DEF ReadNum, marks
<1>9. CASE ReadAge(t)
  <2>1. Ordered(t)'
    BY <1>1, <1>2, <1>9 DEF ReadAge, Ordered, Numbering, marks
  <2> QED
    BY <1>1, <1>9, <2>1, OnlyMine DEF ReadAge, marks
<1>10. CASE Renumber(t)
  <2>1. Ordered(t)'
    BY <1>1, <1>2, <1>10 DEF Renumber, Ordered, Numbering, marks
  <2> QED
    BY <1>1, <1>10, <2>1, OnlyMine DEF Renumber, marks
<1>11. CASE Reassign(t)
  <2>1. Ordered(t)'
    BY <1>1, <1>2, <1>11 DEF Reassign, Ordered, Numbering, marks, Agree, card
  <2> QED
    BY <1>1, <1>11, <2>1, OnlyMine DEF Reassign, marks
<1> QED
  BY <1>3, <1>4, <1>5, <1>6, <1>7, <1>8, <1>9, <1>10, <1>11 DEF Numbers

(* What init_wodlog works on is then the log both agree on.                *)
LEMMA TargetIsPath ==
  ASSUME OrderInv, NEW t \in Tasks, Numbering(t), alone[t], pc[t] \in Making
  PROVE  Target(t) = path /\ Agree
  BY DEF OrderInv, Ordered, Target

LEMMA InitWodlogOrder ==
  ASSUME TypeOK, PlaceInv, OrderInv, NEW t \in Tasks, InitWodlog(t)
  PROVE  OrderInv'
<1> USE DEF At, Goto
<1>1. Numbering(t) /\ Ordered(t) /\ Place(t, pc[t], job[t])
  BY InNumbering DEF OrderInv, PlaceInv
<1>2. pc \in [Tasks -> Calls] /\ path \in Names
      /\ file \in [Tasks -> Names \cup {Nowhere}] /\ hdr \in [Names -> -1 .. 2]
  BY DEF PlaceInv, TypeOK
<1>3. CASE Probe(t)
  <2>1. PICK p \in {"create", "remove"} : Goto(t, p)
    BY <1>3 DEF Probe
  <2>2. job[t] = "set" => pc[t] = "probe"
    BY <1>1, <1>3 DEF Probe, Place, Setting, Purging, Making
  <2>3. ASSUME alone[t] PROVE path' = path /\ Agree /\ (job[t] = "set" => arg[t] = path)
    BY <1>1, <1>3, <2>2, <2>3 DEF Probe, Ordered, Agree, Making
  <2>4. Ordered(t)'
    BY <1>1, <1>2, <1>3, <2>1, <2>3 DEF Probe, Ordered, Numbering, marks, Agree, card
  <2> QED
    BY <1>1, <1>3, <2>4, OnlyMine DEF Probe, marks
<1>4. CASE RemoveOld(t)
  <2>1. Ordered(t)'
    BY <1>1, <1>2, <1>4 DEF RemoveOld, Ordered, Numbering, marks, Agree, statics, Making
  <2> QED
    BY <1>1, <1>4, <2>1, OnlyMine DEF RemoveOld, marks
<1>5. CASE CreateLog(t)
  <2>1. alone[t] => Target(t) = path
    BY <1>1, <1>5, TargetIsPath DEF CreateLog, Making
  <2>2. Ordered(t)'
    BY <1>1, <1>2, <1>5, <2>1 DEF CreateLog, Ordered, Numbering, marks, Agree, statics, Making
  <2> QED
    BY <1>1, <1>5, <2>2, OnlyMine DEF CreateLog, marks
<1>6. CASE WriteHeader(t)
  <2>1. Ordered(t)'
    <3>1. CASE At(t, "magic")
      BY <1>1, <1>2, <1>6, <3>1 DEF WriteHeader, Ordered, Numbering, marks, Agree, statics, Making
    <3>2. CASE At(t, "time")
      <4>1. hdr' = [f \in Names |-> IF f = file[t] THEN 2 ELSE hdr[f]]
        BY <1>6, <3>2 DEF WriteHeader
      <4>2. alone[t] => hdr'[path] = 2
        BY <1>1, <1>2, <3>2, <4>1 DEF Ordered
      <4> QED
        BY <1>1, <1>2, <1>6, <3>2, <4>2
           DEF WriteHeader, Ordered, Numbering, marks, Agree, statics, Making
    <3> QED
      BY <1>6, <3>1, <3>2 DEF WriteHeader
  <2> QED
    BY <1>1, <1>6, <2>1, OnlyMine DEF WriteHeader, marks
<1>7. CASE WriteFirst(t)
  <2>1. Ordered(t)'
    BY <1>1, <1>2, <1>7 DEF WriteFirst, Ordered, Numbering, marks, Agree, card, Making
  <2> QED
    BY <1>1, <1>7, <2>1, OnlyMine DEF WriteFirst, marks
<1>8. CASE Finish(t)
  <2>1. alone[t] => Agree /\ hdr[path] = 2
    BY <1>1, <1>8 DEF Finish, Ordered, Making
  <2>2. PICK next : End(t, next, TRUE)
    BY <1>8 DEF Finish
  <2> QED
    BY <1>1, <1>8, <2>1, <2>2, EndsInOrder DEF Finish, card
<1> QED
  BY <1>3, <1>4, <1>5, <1>6, <1>7, <1>8 DEF InitWodlog

(* A step that is of no numbering operation: what it may disturb is the    *)
(* header of the current log.                                              *)
LEMMA Aside ==
  ASSUME TypeOK, OrderInv, NEW t \in Tasks, ~Numbering(t), ~Numbering(t)',
         \A u \in Tasks \ {t} :
           /\ job'[u] = job[u] /\ alone'[u] = alone[u]
           /\ pc'[u] = pc[u] /\ file'[u] = file[u],
         arg' = arg, wodnum' = wodnum, number' = number, path' = path,
         mixed' = mixed, bare' = bare, hdr[path] = 2 => hdr'[path] = 2
  PROVE  OrderInv'
<1>1. \A u \in Tasks : Numbering(u)' <=> Numbering(u)
  BY DEF Numbering
<1>2. ASSUME NEW u \in Tasks PROVE Ordered(u)'
  <2>1. CASE u = t
    BY <2>1 DEF Ordered
  <2>2. CASE u # t
    BY <1>1, <2>2 DEF OrderInv, Ordered, Agree
  <2> QED
    BY <2>1, <2>2
<1>3. InOrderUnlessMet'
  BY <1>1 DEF OrderInv, InOrderUnlessMet, Agree
<1> QED
  BY <1>2, <1>3 DEF OrderInv

(* A numbering operation begins: it is not alone if another is under way,  *)
(* and the others are not from now on.                                     *)
LEMMA BeginsInOrder ==
  ASSUME TypeOK, PlaceInv, OrderInv, NEW t \in Tasks, NEW j \in {"rotate", "rmall", "reset", "set"},
         job' = [job EXCEPT ![t] = j], Goto(t, "write"),
         alone' = [u \in Tasks |-> IF u = t THEN ~OthersNumber(t) ELSE alone[u] /\ job[u] = "none"]
  PROVE  OrderInv'
<1>1. Numbering(t)' /\ pc'[t] = "write"
  BY DEF Numbering, TypeOK, Goto, PlaceInv
<1>2. ASSUME NEW u \in Tasks \ {t}, alone'[u] PROVE ~Numbering(u)'
  <2>1. job[u] = "none"
    BY <1>2
  <2> QED
    BY <2>1 DEF Numbering, TypeOK
<1>3. ASSUME alone'[t] PROVE \A u \in Tasks \ {t} : ~Numbering(u)'
  BY <1>3 DEF OthersNumber, Numbering, TypeOK
<1>4. \A u \in Tasks : Ordered(u)'
  BY <1>1, <1>2, <1>3 DEF Ordered, Making
<1> QED
  BY <1>1, <1>4 DEF OrderInv, InOrderUnlessMet

LEMMA DaemonOrder ==
  ASSUME TypeOK, PlaceInv, OrderInv, Wake \/ OpenLog \/ AppendRecord \/ Rotate
  PROVE  OrderInv'
<1>1. "daemon" \in Tasks /\ Place("daemon", pc["daemon"], job["daemon"])
  BY DEF Tasks, PlaceInv
<1>2. CASE Wake
  BY <1>1, <1>2, Aside DEF Wake, At, Goto, Place, Setting, Purging, Making, Numbering,
                           card, statics, marks
<1>3. CASE OpenLog
  <2>1. ~Numbering("daemon")
    BY <1>1, <1>3 DEF OpenLog, At, Place, Setting, Purging, Making, Numbering
  <2>2. job' = [job EXCEPT !["daemon"] = "append"] /\ mixed' = mixed /\ bare' = bare
        /\ \A u \in Tasks \ {"daemon"} : alone'[u] = alone[u]
    BY <1>3 DEF OpenLog, Begin, TypeOK
  <2>3. ~Numbering("daemon")'
    BY <1>1, <2>2 DEF Numbering, TypeOK
  <2>4. hdr[path] = 2 => hdr'[path] = 2
    BY <1>3 DEF OpenLog, TypeOK
  <2>5. \A u \in Tasks \ {"daemon"} : pc'[u] = pc[u] /\ file'[u] = file[u] /\ job'[u] = job[u]
    BY <1>3, <2>2 DEF OpenLog, Goto
  <2> QED
    BY <1>1, <1>3, <2>1, <2>2, <2>3, <2>4, <2>5, Aside DEF OpenLog
<1>4. CASE AppendRecord
  <2>1. ~Numbering("daemon") /\ ~Numbering("daemon")'
    BY <1>1, <1>4 DEF AppendRecord, At, Place, Setting, Purging, Making, Numbering, TypeOK
  <2>2. \A u \in Tasks \ {"daemon"} : pc'[u] = pc[u] /\ file'[u] = file[u] /\ job'[u] = job[u]
    BY <1>4 DEF AppendRecord, Goto
  <2> QED
    BY <1>1, <1>4, <2>1, <2>2, Aside DEF AppendRecord, card, marks
<1>5. CASE Rotate
  BY <1>1, <1>5, BeginsInOrder DEF Rotate, Begin
<1> QED
  BY <1>2, <1>3, <1>4, <1>5

LEMMA ShellOrder ==
  ASSUME TypeOK, PlaceInv, OrderInv, NEW t \in Executors, Shell(t)
  PROVE  OrderInv'
<1>1. t \in Tasks
  BY DEF Tasks
<1>2. CASE CmdOn(t) \/ CmdOff(t)
  BY <1>2 DEF CmdOn, CmdOff, OrderInv, Ordered, InOrderUnlessMet, Numbering, Agree, card, statics
<1>3. ASSUME NEW c \in {"rmall", "reset", "set"}, Long(t, c) PROVE OrderInv'
  BY <1>1, <1>3, BeginsInOrder DEF Long
<1> QED
  BY <1>2, <1>3 DEF Shell, CmdRmall, CmdReset, CmdSet

(* Once nobody numbers logs, card and memory name the same log and it has  *)
(* its whole header, unless the last operation met another or was a reset  *)
(* of the counter: without such a meeting no order of the calls of the     *)
(* other tasks comes between an operation and what it means to leave.      *)
THEOREM OrderKept == Spec => []InOrderUnlessMet
<1>1. Init => OrderInv
  BY DEF Init, OrderInv, Ordered, InOrderUnlessMet, Numbering, Agree, Names
<1>2. TypeOK /\ PlaceInv /\ OrderInv /\ [Next]_vars => OrderInv'
  <2> SUFFICES ASSUME TypeOK, PlaceInv, OrderInv, [Next]_vars PROVE OrderInv'
    OBVIOUS
  <2>1. CASE Daemon
    BY <2>1, DaemonOrder, NumbersOrder, InitWodlogOrder DEF Daemon, Tasks
  <2>2. ASSUME NEW t \in Executors, Executor(t) PROVE OrderInv'
    BY <2>2, NumbersOrder, InitWodlogOrder DEF Executor, Tasks
  <2>3. ASSUME NEW t \in Executors, Shell(t) PROVE OrderInv'
    BY <2>3, ShellOrder
  <2>4. CASE UNCHANGED vars
    BY <2>4 DEF OrderInv, Ordered, InOrderUnlessMet, Numbering, Agree,
                vars, card, statics, marks
  <2> QED
    BY <2>1, <2>2, <2>3, <2>4 DEF Next
<1>3. OrderInv => InOrderUnlessMet
  BY DEF OrderInv
<1> QED
  BY <1>1, <1>2, <1>3, InitPlace, NextPlace, TypeCorrect, PTL DEF Spec
=============================================================================
