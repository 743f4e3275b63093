------------------------------ MODULE WodTasks ------------------------------
(***************************************************************************)
(* The WOD logger as three tasks run it at the same time: the daemon       *)
(* (satellite/task_wod_daemon.c), and the console and the server, either   *)
(* of which may execute a "wod" command (satellite/cmd_wod.c).  They share *)
(* the card and the statics of wod_sat.c and cmd_wod.c without a lock.     *)
(*                                                                         *)
(* WodLog has the resets and the failing calls, one operation at a time;   *)
(* here no call fails and operations interleave.  A task is switched       *)
(* inside a call, on the card or to a board: a step is the accesses to     *)
(* memory since the last call together with the effect of the next one.    *)
(***************************************************************************)
EXTENDS Integers

CONSTANTS
  MaxNum,   \* the last number of the ring of logs (0xFF in the code)
  Wrap,     \* entries in one pass of the minute counter (256)
  Passes,   \* passes that fill one log (4)
  MaxCmds   \* bound: commands

ASSUME TasksAssumption ==
  MaxNum \in Nat /\ Wrap \in Nat \ {0} /\ Passes \in Nat \ {0} /\ MaxCmds \in Nat

VARIABLES
  wodnum,    \* card: the number in /sd/wodnum
  hdr,       \* card: words of the header of each log, -1 without a file
  number, entry, iter, path,  \* current_number, current_entry, iteration, path
  enable,    \* wod_enable
  previous,  \* previous, one for all commands
  pc,        \* for each task the call it is in
  job,       \* and its operation
  arg,       \* the argument of set_wodnum, the read of wod_init, lognumber
  file,      \* the log it has open, Nowhere once that has been removed
  cmds,      \* commands so far
  wanted,    \* history: the last "on" or "off"
  late,      \* history: records logged since wod_enable was last cleared, by
             \* a command or by one that puts back what it had saved
  crossed,   \* history: a command fell into another since then
  alone,     \* history: no numbering operation met that of the task
  mixed,     \* history: the last numbering operation met another
  bare       \* history: the last one did not leave a new log, or met another

card    == <<wodnum, hdr>>
statics == <<number, entry, iter, path>>
switch  == <<enable, previous>>
marks   == <<crossed, alone, mixed, bare>>
vars    == <<card, statics, switch, pc, job, arg, file, cmds, wanted, late, marks>>

Executors == {"console", "server"}
Tasks     == {"daemon"} \cup Executors
Names     == 0 .. MaxNum + 1   \* wod_init may go one past the ring
Nowhere   == -1

Numbering(t) == job[t] \in {"rotate", "rmall", "reset", "set"}
OthersNumber(t) == \E u \in Tasks \ {t} : Numbering(u)

(* Task t begins operation j; others whose operation it meets are not      *)
(* alone any more, unless it only appends.                                 *)
Begin(t, j) ==
  /\ job' = [job EXCEPT ![t] = j]
  /\ alone' = [u \in Tasks |->
       IF u = t THEN ~OthersNumber(t) ELSE alone[u] /\ (j = "append" \/ job[u] = "none")]
  /\ UNCHANGED <<crossed, mixed, bare>>

(* It ends, with or without a new log. *)
End(t, next, fresh) ==
  /\ pc' = [pc EXCEPT ![t] = next] /\ job' = [job EXCEPT ![t] = "none"]
  /\ arg' = [arg EXCEPT ![t] = 0] /\ file' = [file EXCEPT ![t] = Nowhere]
  /\ mixed' = ~alone[t] /\ bare' = ~(alone[t] /\ fresh)
  /\ UNCHANGED <<crossed, alone>>

At(t, p) == pc[t] = p
Goto(t, p) == pc' = [pc EXCEPT ![t] = p]

(* A record is late if wod_enable is clear; each time it is cleared, or    *)
(* set, the count starts anew.                                             *)
Record       == late' = (IF enable THEN 0 ELSE late + 1)
SetEnable(v) == enable' = v /\ late' = (IF v \/ enable THEN 0 ELSE late)

-----------------------------------------------------------------------------
(* The daemon. *)

(* It looks at wod_enable, then asks the power supply for its readings. *)
Wake ==
  /\ At("daemon", "sleep") /\ enable /\ Goto("daemon", "hk")
  /\ UNCHANGED <<card, statics, switch, job, arg, file, cmds, wanted, late, marks>>

Passed == IF entry >= Wrap THEN iter + 1 ELSE iter

(* wod_log opens the current log. *)
OpenLog ==
  /\ At("daemon", "hk") /\ Passed < Passes
  /\ iter' = Passed /\ entry' = entry % Wrap
  /\ hdr' = [hdr EXCEPT ![path] = IF @ = -1 THEN 0 ELSE @]
  /\ file' = [file EXCEPT !["daemon"] = path]
  /\ Begin("daemon", "append") /\ Goto("daemon", "append")
  /\ UNCHANGED <<wodnum, number, path, switch, arg, cmds, wanted, late>>

(* Mutant: the daemon goes on without a look at wod_enable. *)
AppendAgain ==
  /\ At("daemon", "append") /\ entry' = entry + 1 /\ Record
  /\ Goto("daemon", "hk") /\ job' = [job EXCEPT !["daemon"] = "none"]
  /\ file' = [file EXCEPT !["daemon"] = Nowhere]
  /\ UNCHANGED <<card, number, iter, path, switch, arg, cmds, wanted, marks>>

(* wod_log_now, and the daemon sleeps. *)
AppendRecord ==
  /\ At("daemon", "append") /\ entry' = entry + 1 /\ Record
  /\ Goto("daemon", "sleep") /\ job' = [job EXCEPT !["daemon"] = "none"]
  /\ file' = [file EXCEPT !["daemon"] = Nowhere]
  /\ UNCHANGED <<card, number, iter, path, switch, arg, cmds, wanted, marks>>

(* Mutant: the ring has no end. *)
RotatePast ==
  /\ At("daemon", "hk") /\ Passed >= Passes
  /\ iter' = 0 /\ entry' = 0 /\ number' = number + 1 /\ path' = number + 1
  /\ Begin("daemon", "rotate") /\ Goto("daemon", "write")
  /\ UNCHANGED <<card, switch, arg, file, cmds, wanted, late>>

(* wod_number_increment up to its fopen. *)
Rotate ==
  /\ At("daemon", "hk") /\ Passed >= Passes
  /\ iter' = 0 /\ entry' = 0
  /\ number' = (number + 1) % (MaxNum + 1) /\ path' = (number + 1) % (MaxNum + 1)
  /\ Begin("daemon", "rotate") /\ Goto("daemon", "write")
  /\ UNCHANGED <<card, switch, arg, file, cmds, wanted, late>>

-----------------------------------------------------------------------------
(* The commands. *)

Command(t) == At(t, "idle") /\ cmds < MaxCmds /\ cmds' = cmds + 1

(* The other executor is inside a command. *)
Crosses(t) == \E u \in Executors \ {t} : ~At(u, "idle")

CmdOn(t) ==
  /\ Command(t) /\ SetEnable(TRUE) /\ wanted' = TRUE /\ crossed' = Crosses(t)
  /\ UNCHANGED <<card, statics, previous, pc, job, arg, file, alone, mixed, bare>>

CmdOff(t) ==
  /\ Command(t) /\ SetEnable(FALSE) /\ wanted' = FALSE /\ crossed' = Crosses(t)
  /\ UNCHANGED <<card, statics, previous, pc, job, arg, file, alone, mixed, bare>>

(* Mutant: the commands do not save wod_enable. *)
OffWithoutSaving == enable' = FALSE /\ late' = 0 /\ UNCHANGED previous

(* previous = wod_enable; wod_enable = 0 *)
SaveAndClear == previous' = enable /\ SetEnable(FALSE)

Long(t, c) ==
  /\ Command(t) /\ SaveAndClear
  /\ job' = [job EXCEPT ![t] = c]
  /\ alone' = [u \in Tasks |-> IF u = t THEN ~OthersNumber(t) ELSE alone[u] /\ job[u] = "none"]
  /\ crossed' = (crossed \/ Crosses(t))
  /\ Goto(t, "write") /\ UNCHANGED <<mixed, bare, hdr, wodnum, file, wanted, iter>>

(* rmall up to the fopen of wodnum_reset. *)
CmdRmall(t) ==
  /\ Long(t, "rmall") /\ number' = 0 /\ entry' = 0
  /\ UNCHANGED <<path, arg>>

(* reset and set up to the fopen of set_wodnum_cmd. *)
CmdReset(t) == Long(t, "reset") /\ UNCHANGED <<number, entry, path, arg>>

CmdSet(t) ==
  /\ Long(t, "set") /\ \E n \in 0 .. MaxNum : arg' = [arg EXCEPT ![t] = n]
  /\ UNCHANGED <<number, entry, path>>

-----------------------------------------------------------------------------
(* Numbering. *)

(* What the callers of set_wodnum pass. *)
Argument(t) == IF job[t] \in {"rotate", "rmall"} THEN number ELSE arg[t]

(* Mutant: the number stays in the buffer of the file. *)
WriteNowhere(t) ==
  /\ At(t, "write") /\ arg' = [arg EXCEPT ![t] = Argument(t)] /\ Goto(t, "assign")
  /\ UNCHANGED <<card, statics, switch, job, file, cmds, wanted, late, marks>>

(* set_wodnum up to its fflush: the argument is evaluated, and written. *)
WriteNum(t) ==
  /\ At(t, "write")
  /\ arg' = [arg EXCEPT ![t] = Argument(t)] /\ wodnum' = Argument(t)
  /\ Goto(t, "assign")
  /\ UNCHANGED <<hdr, statics, switch, job, file, cmds, wanted, late, marks>>

(* Mutant: set_wodnum leaves current_number alone. *)
AssignPath(t) ==
  /\ At(t, "assign") /\ entry' = 0 /\ path' = arg[t] /\ Goto(t, "named")
  /\ UNCHANGED <<card, number, iter, switch, job, arg, file, cmds, wanted, late, marks>>

(* The rest of it: the statics, and the file is closed. *)
Assign(t) ==
  /\ At(t, "assign") /\ number' = arg[t] /\ entry' = 0 /\ path' = arg[t]
  /\ Goto(t, "named")
  /\ UNCHANGED <<card, iter, switch, job, arg, file, cmds, wanted, late, marks>>

(* What follows in each operation: reset is done, rmall goes through the   *)
(* logs, the others create one.                                            *)
Proceed(t) ==
  /\ At(t, "named") /\ job[t] # "reset"
  /\ Goto(t, IF job[t] = "rmall" THEN "purge" ELSE "probe")
  /\ arg' = [arg EXCEPT ![t] = IF job[t] = "set" THEN @ ELSE 0]
  /\ UNCHANGED <<card, statics, switch, job, file, cmds, wanted, late, marks>>

EndReset(t) ==
  /\ At(t, "named") /\ job[t] = "reset"
  /\ SetEnable(previous) /\ End(t, "idle", FALSE)
  /\ UNCHANGED <<card, statics, previous, cmds, wanted>>

(* remove: who has the file open has no file any more. *)
Remove(f) ==
  /\ hdr' = [hdr EXCEPT ![f] = -1]
  /\ file' = [u \in Tasks |-> IF file[u] = f THEN Nowhere ELSE file[u]]

(* A turn of the loop of wod_reset. *)
Purge(t) ==
  /\ At(t, "purge") /\ Remove(arg[t])
  /\ IF arg[t] < MaxNum
     THEN arg' = [arg EXCEPT ![t] = @ + 1] /\ UNCHANGED pc
     ELSE arg' = [arg EXCEPT ![t] = 0] /\ Goto(t, "read")
  /\ UNCHANGED <<wodnum, statics, switch, job, cmds, wanted, late, marks>>

(* wod_init after it: get_wodnum. *)
ReadNum(t) ==
  /\ At(t, "read") /\ arg' = [arg EXCEPT ![t] = wodnum] /\ Goto(t, "age")
  /\ UNCHANGED <<card, statics, switch, job, file, cmds, wanted, late, marks>>

(* read_log_time: only a log that another task has made since is there,    *)
(* and its age is that of a new log or, after a step of the clock, any.    *)
ReadAge(t) ==
  /\ At(t, "age")
  /\ \/ arg[t] > MaxNum /\ arg' = [arg EXCEPT ![t] = 0] /\ UNCHANGED path
     \/ arg[t] <= MaxNum /\ path' = arg[t] /\ UNCHANGED arg
     \/ /\ arg[t] <= MaxNum /\ hdr[arg[t]] > 0 /\ path' = arg[t]
        /\ arg' = [arg EXCEPT ![t] = @ + 1]
  /\ Goto(t, "renumber")
  /\ UNCHANGED <<card, number, entry, iter, switch, job, file, cmds, wanted, late, marks>>

(* current_number = read; then set_wodnum as above, and the file's name    *)
(* once more from current_number.                                          *)
Renumber(t) ==
  /\ At(t, "renumber") /\ number' = arg[t] /\ entry' = 0 /\ wodnum' = arg[t]
  /\ Goto(t, "reassign")
  /\ UNCHANGED <<hdr, iter, path, switch, job, arg, file, cmds, wanted, late, marks>>

Reassign(t) ==
  /\ At(t, "reassign") /\ number' = arg[t] /\ entry' = 0 /\ path' = arg[t]
  /\ Goto(t, "rename")
  /\ UNCHANGED <<card, iter, switch, job, arg, file, cmds, wanted, late, marks>>

-----------------------------------------------------------------------------
(* init_wodlog.  Its argument is the static path, which other tasks may    *)
(* change between any two of its calls, but for set, whose name is local.  *)

Target(t) == IF job[t] = "set" THEN arg[t] ELSE path

(* fopen(path, "r") *)
Probe(t) ==
  /\ At(t, "rename") \/ At(t, "probe")
  /\ path' = (IF At(t, "rename") THEN number ELSE path)
  /\ Goto(t, IF hdr[IF job[t] = "set" THEN arg[t] ELSE path'] = -1 THEN "create" ELSE "remove")
  /\ UNCHANGED <<card, number, entry, iter, switch, job, arg, file, cmds, wanted, late, marks>>

RemoveOld(t) ==
  /\ At(t, "remove") /\ Remove(Target(t)) /\ Goto(t, "create")
  /\ UNCHANGED <<wodnum, statics, switch, job, arg, cmds, wanted, late, marks>>

CreateLog(t) ==
  /\ At(t, "create")
  /\ hdr' = [hdr EXCEPT ![Target(t)] = IF @ = -1 THEN 0 ELSE @]
  /\ file' = [file EXCEPT ![t] = Target(t)] /\ Goto(t, "magic")
  /\ UNCHANGED <<wodnum, statics, switch, job, arg, cmds, wanted, late, marks>>

(* The magic and the time. *)
WriteHeader(t) ==
  /\ \/ /\ At(t, "magic") /\ Goto(t, "time")
        /\ hdr' = [f \in Names |-> IF f = file[t] /\ hdr[f] < 1 THEN 1 ELSE hdr[f]]
     \/ /\ At(t, "time") /\ Goto(t, "first")
        /\ hdr' = [f \in Names |-> IF f = file[t] THEN 2 ELSE hdr[f]]
  /\ UNCHANGED <<wodnum, statics, switch, job, arg, file, cmds, wanted, late, marks>>

(* A first record if the logger is on. *)
WriteFirst(t) ==
  /\ At(t, "first") /\ Goto(t, "last")
  /\ \/ enable /\ entry' = entry + 1 /\ Record
     \/ ~enable /\ UNCHANGED <<entry, late>>
  /\ UNCHANGED <<card, number, iter, path, switch, job, arg, file, cmds, wanted, marks>>

(* The operation ends; a command puts back what is in previous. *)
Finish(t) ==
  /\ At(t, "last") /\ entry' = 0
  /\ \/ t = "daemon" /\ End(t, "sleep", TRUE) /\ UNCHANGED <<enable, late>>
     \/ t # "daemon" /\ End(t, "idle", TRUE) /\ SetEnable(previous)
  /\ UNCHANGED <<card, number, iter, path, previous, cmds, wanted>>

-----------------------------------------------------------------------------

Init ==
  /\ wodnum = 0 /\ hdr = [f \in Names |-> IF f = 0 THEN 2 ELSE -1]
  /\ number = 0 /\ entry = 0 /\ iter = 0 /\ path = 0
  /\ enable = TRUE /\ previous = FALSE
  /\ pc = [t \in Tasks |-> IF t = "daemon" THEN "sleep" ELSE "idle"]
  /\ job = [t \in Tasks |-> "none"] /\ arg = [t \in Tasks |-> 0]
  /\ file = [t \in Tasks |-> Nowhere]
  /\ cmds = 0 /\ wanted = TRUE /\ late = 0
  /\ crossed = FALSE /\ alone = [t \in Tasks |-> TRUE] /\ mixed = FALSE /\ bare = FALSE

Numbers(t) ==
  \/ WriteNum(t) \/ Assign(t) \/ Proceed(t) \/ EndReset(t) \/ Purge(t)
  \/ ReadNum(t) \/ ReadAge(t) \/ Renumber(t) \/ Reassign(t)
InitWodlog(t) ==
  Probe(t) \/ RemoveOld(t) \/ CreateLog(t) \/ WriteHeader(t) \/ WriteFirst(t) \/ Finish(t)

Daemon == Wake \/ OpenLog \/ AppendRecord \/ Rotate \/ Numbers("daemon") \/ InitWodlog("daemon")
Executor(t) == Numbers(t) \/ InitWodlog(t)

Shell(t) == CmdOn(t) \/ CmdOff(t) \/ CmdRmall(t) \/ CmdReset(t) \/ CmdSet(t)

Next == Daemon \/ \E t \in Executors : Executor(t) \/ Shell(t)

Spec == Init /\ [][Next]_vars

(* The scheduler runs each task that has something to do. *)
FairSpec == Spec /\ WF_vars(Daemon) /\ \A t \in Executors : WF_vars(Executor(t))
-----------------------------------------------------------------------------
(* Properties. *)

(* Every variable has its type; however the tasks meet, no number leaves   *)
(* the ring by more than the one that wod_init may go past it.             *)
TypeOK ==
  /\ wodnum \in Names /\ number \in Names /\ path \in Names
  /\ hdr \in [Names -> -1 .. 2]
  /\ entry \in Nat /\ iter \in 0 .. Passes
  /\ enable \in BOOLEAN /\ previous \in BOOLEAN /\ wanted \in BOOLEAN
  /\ job \in [Tasks -> {"none", "append", "rotate", "rmall", "reset", "set"}]
  /\ arg \in [Tasks -> Names] /\ file \in [Tasks -> Names \cup {Nowhere}]
  /\ late \in Nat /\ cmds \in 0 .. MaxCmds
  /\ crossed \in BOOLEAN /\ mixed \in BOOLEAN /\ bare \in BOOLEAN
  /\ alone \in [Tasks -> BOOLEAN]

Agree == wodnum = number /\ path = number

(* After wod_enable has been cleared - by "off", by a command that needs   *)
(* the logger quiet or by one that puts back what it had saved - at most   *)
(* the one record follows that the daemon had decided on before.           *)
OneLateRecord == late <= 1

(* Between commands the logger is on or off as the operator last said, or  *)
(* a command has fallen into another since: previous is one for all.       *)
WishKept == (\A t \in Executors : At(t, "idle")) /\ ~crossed => enable = wanted

(* Once nobody numbers logs any more, card and memory name the same log    *)
(* and that log has its whole header - or the last operation met another,  *)
(* or was a reset of the counter, which makes no log.                      *)
InOrderUnlessMet ==
  (\A t \in Tasks : ~Numbering(t)) =>
    (~mixed => Agree) /\ (~bare => hdr[path] = 2)

(* However the tasks have met, if the logger stays on then from some time  *)
(* on the sleeping daemon leaves card and memory in agreement, on a log    *)
(* with a whole header: the rotation heals.                                *)
Heals == <>[]enable => <>[](At("daemon", "sleep") => Agree /\ hdr[path] = 2)
=============================================================================
