------------------------------- MODULE WodLog -------------------------------
(***************************************************************************)
(* The whole-orbit-data (WOD) logger of the satellite, satellite/wod_sat.c *)
(* and the "wod" commands of satellite/cmd_wod.c, on an SD card that       *)
(* outlives a reset of the computer.                                       *)
(*                                                                         *)
(* The logger keeps a ring of log files /sd/00.wod .. /sd/FF.wod and the   *)
(* file /sd/wodnum that names the current one.  Each action below is one   *)
(* call that changes the card, with the memory accesses up to the next     *)
(* such call: a reset of the computer can fall between any two of them,    *)
(* and each of them can fail.  A call that only reads the card belongs to  *)
(* the step that follows it.  One operation runs at a time: the daemon     *)
(* sleeps ten seconds or more between two cycles and an operator's command *)
(* falls into such a pause.                                                *)
(***************************************************************************)
EXTENDS Integers

CONSTANTS
  MaxNum,      \* the last number of the ring of logs (0xFF in the code)
  Wrap,        \* entries in one pass of the minute counter (256)
  Passes,      \* passes of the counter that fill one log (4)
  Limit,       \* a log older than this is kept by a reboot (900 seconds)
  Tries,       \* attempts of wod_init to create a log (5)
  Truncates,   \* does fopen(.., "w") empty an existing file?  FALSE for fat.c
  Formatted,   \* does the card hold a counter and log 0 at the start?
  Commands,    \* the operator's commands that may arrive
  MaxClock,    \* bound: the readings of getRealTime()
  MaxCrashes,  \* bound: resets of the computer
  MaxFaults,   \* bound: card calls that fail
  MaxCmds      \* bound: commands

ASSUME ConstantsAssumption ==
  /\ MaxNum \in Nat /\ Limit \in Nat /\ MaxClock \in Nat
  /\ Wrap \in Nat \ {0} /\ Passes \in Nat \ {0} /\ Tries \in Nat \ {0}
  /\ Truncates \in BOOLEAN /\ Formatted \in BOOLEAN
  /\ Commands \subseteq {"rmall", "reset", "set", "on", "off"}
  /\ MaxCrashes \in Nat /\ MaxFaults \in Nat /\ MaxCmds \in Nat

VARIABLES
  wodnum,    \* card: the number in /sd/wodnum, Blank or Absent
  log,       \* card: the log files by number
  number,    \* current_number
  entry,     \* current_entry
  iter,      \* iteration
  path,      \* path: the number of the log it names, Unset for "/sd/"
  enable,    \* wod_enable
  previous,  \* the static previous of cmd_wod.c
  pc,        \* the next call on the card, "idle" between operations
  job,       \* the operation under way
  arg,       \* its local: read of wod_init, lognumber of wod_reset, wodnum
  tries,     \* attempts left in the loop of wod_init, 0 outside the loop
  clock,     \* getRealTime()
  crashes, faults, cmds,  \* resets, failed calls and commands so far
  wanted     \* history: the operator's last "on" or "off" since power-up

card  == <<wodnum, log>>
env   == <<clock, crashes, cmds, wanted>>
vars  == <<wodnum, log, number, entry, iter, path, enable, previous,
           pc, job, arg, tries, clock, crashes, faults, cmds, wanted>>

Absent == -2    \* there is no file /sd/wodnum
Blank  == -1    \* the file is there and holds no number
Unset  == -1    \* path is the directory itself, which fopen refuses

(* The numbers a log file can get: wod_init reaches one past the ring, and *)
(* each failed attempt of its loop moves one further.                      *)
LastName == MaxNum + 1 + Tries
Names == 0 .. LastName

(* A log file: the words of its header (magic, then time) that are on the  *)
(* card, -1 without a file, the time they hold, and the number of records. *)
File == [hdr: -1 .. 2, time: Nat, n: Nat]
NoFile   == [hdr |-> -1, time |-> 0, n |-> 0]
NewFile  == [hdr |-> 0, time |-> 0, n |-> 0]
FirstLog == [hdr |-> 2, time |-> 0, n |-> 1]

Here(f) == log[f].hdr # -1

(* The log files after one call on file f: remove, fopen, a write of the   *)
(* header or a record.  "w" keeps what an existing file holds unless the   *)
(* driver truncates, and the writes then go over it from its start.        *)
Removed(f)  == [log EXCEPT ![f] = NoFile]
Opened(f)   == IF Here(f) THEN log ELSE [log EXCEPT ![f] = NewFile]
Created(f)  == IF Truncates THEN [log EXCEPT ![f] = NewFile] ELSE Opened(f)
WithMagic(f) == [log EXCEPT ![f].hdr = IF @ = 2 THEN 2 ELSE 1]
WithTime(f)  == [log EXCEPT ![f].hdr = 2, ![f].time = clock]
WithFirst(f) == [log EXCEPT ![f].n = IF @ = 0 THEN 1 ELSE @]
WithNext(f)  == [log EXCEPT ![f].n = @ + 1]

-----------------------------------------------------------------------------
(* How a step continues. *)

Ok == UNCHANGED faults
Fault == faults < MaxFaults /\ faults' = faults + 1

Goto(p) == pc' = p /\ UNCHANGED <<job, enable>>

(* Mutant: setwodnum forgets to put wod_enable back. *)
ReturnSwitchedOff ==
  /\ pc' = "idle" /\ job' = "none"
  /\ arg' = 0 /\ tries' = 0
  /\ enable' = (IF job \in {"rmall", "reset"} THEN previous ELSE enable)

(* The end of an operation: its locals die, and a command that had         *)
(* switched the logger off puts back what it had saved.                    *)
Return ==
  /\ pc' = "idle" /\ job' = "none"
  /\ arg' = 0 /\ tries' = 0
  /\ enable' = (IF job \in {"rmall", "reset", "set"} THEN previous ELSE enable)

(* Mutant: the file is emptied, as the standard library would. *)
EmptiedNum == Blank

(* fopen("/sd/wodnum", "w"): creates the file, keeps a number it holds     *)
(* unless the driver truncates.                                            *)
OpenedNum == IF wodnum = Absent \/ Truncates THEN Blank ELSE wodnum

(* Mutant: set_wodnum leaves current_number alone. *)
SetWodnumOnCard(n, ok) ==
  /\ IF ok THEN wodnum' = n /\ Ok ELSE wodnum' = wodnum /\ Fault
  /\ number' = number /\ entry' = 0 /\ path' = n

(* set_wodnum(n): the write may fail, the statics change all the same. *)
SetWodnum(n, ok) ==
  /\ IF ok THEN wodnum' = n /\ Ok ELSE wodnum' = wodnum /\ Fault
  /\ number' = n /\ entry' = 0 /\ path' = n

-----------------------------------------------------------------------------
(* wod_init: at power-up and at the end of wod_reset. *)

(* fopen(wodnum, "r") and get_wodnum. *)
ReadNum ==
  /\ pc = "readNum"
  /\ \/ /\ wodnum = Absent /\ Ok
        /\ Goto("createNum") /\ UNCHANGED <<arg, tries>>
     \/ /\ wodnum # Absent /\ Fault       \* the open fails: taken for absent
        /\ Goto("createNum") /\ UNCHANGED <<arg, tries>>
     \/ /\ wodnum = Blank /\ Ok           \* nothing to read
        /\ Return
     \/ /\ wodnum >= 0 /\ Fault           \* the read fails
        /\ Return
     \/ /\ wodnum >= 0 /\ Ok
        /\ arg' = wodnum
        /\ Goto("reopenNum") /\ UNCHANGED tries
  /\ UNCHANGED <<wodnum, log, number, entry, iter, path, previous, env>>

CreateNum ==
  /\ pc = "createNum"
  /\ \/ /\ Fault /\ Return
        /\ UNCHANGED <<wodnum, number, entry>>
     \/ /\ Ok
        /\ wodnum' = OpenedNum
        /\ number' = 0 /\ entry' = 0
        /\ Goto("writeFresh") /\ UNCHANGED <<arg, tries>>
  /\ UNCHANGED <<log, iter, path, previous, env>>

WriteFresh ==
  /\ pc = "writeFresh"
  /\ \/ SetWodnum(number, TRUE) /\ Goto("removeOld") /\ UNCHANGED <<arg, tries>>
     \/ SetWodnum(number, FALSE) /\ Return
  /\ UNCHANGED <<log, iter, previous, env>>

(* read_log_time(f): what it may leave in time_diff.  A missing file or    *)
(* magic leaves the 0 of its caller; a missing time is read as 0, or, when *)
(* records follow the magic, as whatever they hold.                        *)
TimeDiffs(f) ==
  IF log[f].hdr < 1 THEN {0}
  ELSE IF log[f].hdr = 1 /\ log[f].n > 0 THEN {clock - t : t \in 0 .. MaxClock}
  ELSE {clock - log[f].time}

(* A failed open leaves 0, a failed read of the time is a time of 0. *)
BadTimeDiffs(f) == IF log[f].hdr < 1 THEN {0} ELSE {0, clock}

(* Mutants: current_number = read++, and an increment too many. *)
SameNumber(f, diff) == f
NumberAfterNext(f, diff) == IF diff > Limit THEN f + 2 ELSE f

NextNumber(f, diff) == IF diff > Limit THEN f + 1 ELSE f

ReopenNum ==
  /\ pc = "reopenNum"
  /\ \/ /\ Fault /\ Return
        /\ UNCHANGED <<wodnum, number, entry, path>>
     \/ /\ wodnum' = OpenedNum
        /\ \/ /\ arg > MaxNum /\ Ok
              /\ number' = 0 /\ UNCHANGED path
           \/ /\ arg <= MaxNum
              /\ path' = arg
              /\ \/ Ok /\ \E d \in TimeDiffs(arg) : number' = NextNumber(arg, d)
                 \/ Fault /\ \E d \in BadTimeDiffs(arg) : number' = NextNumber(arg, d)
        /\ entry' = 0
        /\ tries' = Tries
        /\ Goto("writeNum") /\ UNCHANGED arg
  /\ UNCHANGED <<log, iter, previous, env>>

(* Mutant: a boot that reuses the current log does not create it again. *)
WriteNumAndReuse ==
  /\ pc = "writeNum"
  /\ \E ok \in BOOLEAN : SetWodnum(number, ok)
  /\ IF number = arg THEN Return ELSE Goto("removeOld") /\ UNCHANGED <<arg, tries>>
  /\ UNCHANGED <<log, iter, previous, env>>

(* A failed write is only logged. *)
WriteNum ==
  /\ pc = "writeNum"
  /\ \E ok \in BOOLEAN : SetWodnum(number, ok)
  /\ Goto("removeOld")
  /\ UNCHANGED <<log, iter, previous, arg, tries, env>>

-----------------------------------------------------------------------------
(* init_wodlog(path): remove the old file, then create it with its header  *)
(* and a first record.                                                     *)

(* The loop of wod_init goes on with the next number, after the last       *)
(* failure too; every other caller ignores the failure.                    *)
InitFailed ==
  IF tries = 0
  THEN Return /\ UNCHANGED <<number, path>>
  ELSE /\ number' = number + 1 /\ path' = number + 1
       /\ IF tries = 1
          THEN Return
          ELSE Goto("removeOld") /\ tries' = tries - 1 /\ UNCHANGED arg

(* A failure here (the file is taken for absent, or is not removed) goes   *)
(* unnoticed.                                                              *)
RemoveOld ==
  /\ pc = "removeOld"
  /\ \/ Ok /\ log' = Removed(path)
     \/ Here(path) /\ Fault /\ UNCHANGED log
  /\ Goto("createLog")
  /\ UNCHANGED <<wodnum, number, entry, iter, path, previous, arg, tries, env>>

CreateLog ==
  /\ pc = "createLog"
  /\ \/ /\ Ok
        /\ log' = Created(path)
        /\ Goto("writeMagic") /\ UNCHANGED <<number, path, arg, tries>>
     \/ Fault /\ InitFailed /\ UNCHANGED log
  /\ UNCHANGED <<wodnum, entry, iter, previous, env>>

(* The header goes over what an unremoved file holds at its start. *)
WriteMagic ==
  /\ pc = "writeMagic"
  /\ \/ /\ Ok
        /\ log' = WithMagic(path)
        /\ Goto("writeTime") /\ UNCHANGED <<number, path, arg, tries>>
     \/ Fault /\ InitFailed /\ UNCHANGED log
  /\ UNCHANGED <<wodnum, entry, iter, previous, env>>

WriteTime ==
  /\ pc = "writeTime"
  /\ \/ /\ Ok
        /\ log' = WithTime(path)
        /\ \/ /\ enable
              /\ Goto("writeFirst") /\ UNCHANGED <<entry, number, path, arg, tries>>
           \/ /\ ~enable
              /\ entry' = 0
              /\ Return /\ UNCHANGED <<number, path>>
     \/ Fault /\ InitFailed /\ UNCHANGED <<entry, log>>
  /\ UNCHANGED <<wodnum, iter, previous, env>>

(* wod_log_now counts the entry before it writes the record, and           *)
(* init_wodlog sets the count back to 0 after it.                          *)
WriteFirst ==
  /\ pc = "writeFirst"
  /\ \/ /\ Ok
        /\ log' = WithFirst(path)
        /\ entry' = 0
        /\ Return /\ UNCHANGED <<number, path>>
     \/ /\ Fault /\ UNCHANGED log
        /\ entry' = entry + 1
        /\ InitFailed
  /\ UNCHANGED <<wodnum, iter, previous, env>>

-----------------------------------------------------------------------------
(* wod_log, called by the daemon once in each cycle while wod_enable is    *)
(* set, and wod_number_increment.                                          *)

(* Mutant: one entry more in each pass. *)
PassedLate == IF entry > Wrap THEN iter + 1 ELSE iter

Passed == IF entry >= Wrap THEN iter + 1 ELSE iter

(* Another entry for the current log: fopen(path, "a") creates a missing   *)
(* file, and fails on "/sd/".                                              *)
LogTick ==
  /\ pc = "idle" /\ enable
  /\ Passed < Passes
  /\ iter' = Passed /\ entry' = entry % Wrap
  /\ \/ /\ path = Unset /\ Ok
        /\ UNCHANGED <<log, pc, job, enable>>
     \/ /\ path # Unset /\ Fault
        /\ UNCHANGED <<log, pc, job, enable>>
     \/ /\ path # Unset /\ Ok
        /\ log' = Opened(path)
        /\ pc' = "append" /\ job' = "log" /\ UNCHANGED enable
  /\ UNCHANGED <<wodnum, number, path, previous, arg, tries, env>>

AppendRecord ==
  /\ pc = "append"
  /\ \/ /\ Ok
        /\ log' = WithNext(path)
     \/ Fault /\ UNCHANGED log
  /\ entry' = entry + 1
  /\ Return
  /\ UNCHANGED <<wodnum, number, iter, path, previous, env>>

(* Mutants: the modulo is one too small, or missing; iteration is kept. *)
NextInShortRing(n) == (n + 1) % MaxNum
NextNumberOnly(n) == n + 1
RestartPass == entry' = 0 /\ iter' = Passed

NextInRing(n) == (n + 1) % (MaxNum + 1)
RestartCount == iter' = 0 /\ entry' = 0

(* The log is full: wod_number_increment up to its fopen. *)
Rotate ==
  /\ pc = "idle" /\ enable
  /\ Passed >= Passes
  /\ RestartCount
  /\ number' = NextInRing(number) /\ path' = NextInRing(number)
  /\ \/ /\ Fault /\ UNCHANGED <<wodnum, pc, job, enable>>
     \/ /\ Ok
        /\ wodnum' = OpenedNum
        /\ pc' = "writeRotate" /\ job' = "log" /\ UNCHANGED enable
  /\ UNCHANGED <<log, previous, arg, tries, env>>

WriteRotate ==
  /\ pc = "writeRotate"
  /\ \E ok \in BOOLEAN : SetWodnum(number, ok)
  /\ Goto("removeOld")
  /\ UNCHANGED <<log, iter, previous, arg, tries, env>>

-----------------------------------------------------------------------------
(* The commands.  Each of the long ones saves wod_enable, clears it, and   *)
(* puts it back when it ends.                                              *)

Arrives(c) ==
  /\ pc = "idle" /\ c \in Commands
  /\ cmds < MaxCmds /\ cmds' = cmds + 1
  /\ UNCHANGED <<clock, crashes>>

SwitchOff(c) ==
  /\ previous' = enable /\ enable' = FALSE
  /\ job' = c /\ UNCHANGED wanted

CmdOn ==
  /\ Arrives("on")
  /\ enable' = TRUE /\ wanted' = TRUE
  /\ UNCHANGED <<card, number, entry, iter, path, previous, pc, job, arg, tries, faults>>

CmdOff ==
  /\ Arrives("off")
  /\ enable' = FALSE /\ wanted' = FALSE
  /\ UNCHANGED <<card, number, entry, iter, path, previous, pc, job, arg, tries, faults>>

(* cmd_wod_log_rmall, then wodnum_reset up to its fopen. *)
CmdRmall ==
  /\ Arrives("rmall") /\ SwitchOff("rmall")
  /\ number' = 0 /\ entry' = 0
  /\ \/ /\ Fault /\ UNCHANGED wodnum
        /\ pc' = "purge"
     \/ /\ Ok /\ wodnum' = OpenedNum
        /\ pc' = "writeZero"
  /\ UNCHANGED <<log, iter, path, arg, tries>>

(* Mutant: wodnum_reset opens the file and writes nothing. *)
WriteNothing ==
  /\ pc = "writeZero" /\ Goto("purge") /\ Ok
  /\ UNCHANGED <<card, number, entry, path, iter, previous, arg, tries, env>>

WriteZero ==
  /\ pc = "writeZero"
  /\ \E ok \in BOOLEAN : SetWodnum(0, ok)
  /\ Goto("purge")
  /\ UNCHANGED <<log, iter, previous, arg, tries, env>>

(* One turn of the loop of wod_reset over the ring, wod_init after it. *)
Purge ==
  /\ pc = "purge"
  /\ \/ Ok /\ log' = Removed(arg)
     \/ Here(arg) /\ Fault /\ UNCHANGED log
  /\ \/ /\ arg < MaxNum
        /\ arg' = arg + 1 /\ Goto("purge")
     \/ /\ arg = MaxNum
        /\ arg' = 0 /\ Goto("readNum")
  /\ UNCHANGED <<wodnum, number, entry, iter, path, previous, tries, env>>

(* Mutant: a failed setwodnum returns without putting wod_enable back. *)
CmdFailedSwitchedOff ==
  /\ pc' = "idle" /\ job' = "none"
  /\ arg' = 0 /\ UNCHANGED tries
  /\ enable' = (job = "reset")

(* A failed set_wodnum_cmd: "reset" switches the logger on, "set" puts     *)
(* back what it had saved.                                                 *)
CmdFailed ==
  /\ pc' = "idle" /\ job' = "none"
  /\ arg' = 0 /\ UNCHANGED tries
  /\ enable' = (job = "reset" \/ previous)

CmdReset ==
  /\ Arrives("reset") /\ SwitchOff("reset")
  /\ arg' = 0 /\ pc' = "openCmd"
  /\ UNCHANGED <<card, number, entry, iter, path, tries, faults>>

CmdSet ==
  /\ Arrives("set") /\ SwitchOff("set")
  /\ arg' \in 0 .. MaxNum /\ pc' = "openCmd"
  /\ UNCHANGED <<card, number, entry, iter, path, tries, faults>>

(* set_wodnum_cmd(arg): open, then write. *)
OpenCmd ==
  /\ pc = "openCmd"
  /\ \/ Fault /\ CmdFailed /\ UNCHANGED wodnum
     \/ /\ Ok /\ wodnum' = OpenedNum
        /\ Goto("writeCmd") /\ UNCHANGED <<arg, tries>>
  /\ UNCHANGED <<log, number, entry, iter, path, previous, env>>

(* Mutant: setwodnum does not create the log. *)
WriteCmdOnly ==
  /\ pc = "writeCmd"
  /\ \/ SetWodnum(arg, FALSE) /\ CmdFailed
     \/ SetWodnum(arg, TRUE) /\ Return
  /\ UNCHANGED <<log, iter, previous, env>>

WriteCmd ==
  /\ pc = "writeCmd"
  /\ \/ SetWodnum(arg, FALSE) /\ CmdFailed
     \/ /\ SetWodnum(arg, TRUE)
        /\ \/ job = "reset" /\ Return
           \/ job = "set" /\ Goto("removeOld") /\ UNCHANGED <<arg, tries>>
  /\ UNCHANGED <<log, iter, previous, env>>

-----------------------------------------------------------------------------
(* The surroundings. *)

(* Time passes, and the ground steps the clock (obcsync).  An operation    *)
(* takes no time at the scale of Limit.                                    *)
Quiet == pc = "idle" \/ (pc = "readNum" /\ job = "boot")

Tick ==
  /\ Quiet
  /\ clock' \in 0 .. MaxClock
  /\ UNCHANGED <<card, number, entry, iter, path, enable, previous,
                 pc, job, arg, tries, crashes, faults, cmds, wanted>>

(* A reset of the computer: the card stays, the statics start over.  The   *)
(* boot code calls wod_init.                                               *)
Crash ==
  /\ crashes < MaxCrashes /\ crashes' = crashes + 1
  /\ number' = 0 /\ entry' = 0 /\ iter' = 0 /\ path' = Unset
  /\ enable' = TRUE /\ previous' = FALSE /\ wanted' = TRUE
  /\ pc' = "readNum" /\ job' = "boot" /\ arg' = 0 /\ tries' = 0
  /\ UNCHANGED <<card, clock, faults, cmds>>

Init ==
  /\ wodnum = (IF Formatted THEN 0 ELSE Absent)
  /\ log = [f \in Names |-> IF Formatted /\ f = 0 THEN FirstLog ELSE NoFile]
  /\ number = 0 /\ entry = 0 /\ iter = 0 /\ path = Unset
  /\ enable = TRUE /\ previous = FALSE /\ wanted = TRUE
  /\ pc = "readNum" /\ job = "boot" /\ arg = 0 /\ tries = 0
  /\ clock = 0 /\ crashes = 0 /\ faults = 0 /\ cmds = 0

WodInit == ReadNum \/ CreateNum \/ WriteFresh \/ ReopenNum \/ WriteNum
InitWodlog == RemoveOld \/ CreateLog \/ WriteMagic \/ WriteTime \/ WriteFirst
WodLogging == LogTick \/ AppendRecord \/ Rotate \/ WriteRotate
Shell == CmdOn \/ CmdOff \/ CmdRmall \/ CmdReset \/ CmdSet
Handling == WriteZero \/ Purge \/ OpenCmd \/ WriteCmd

(* The steps of the satellite's own tasks, as against those of operators,  *)
(* time and resets.                                                        *)
System == WodInit \/ InitWodlog \/ WodLogging \/ Handling

Next == System \/ Shell \/ Tick \/ Crash

Spec == Init /\ [][Next]_vars

(* The scheduler keeps running the tasks: an operation goes on to its end  *)
(* and the daemon wakes up again after each delay.                         *)
FairSpec == Spec /\ WF_vars(System)
-----------------------------------------------------------------------------
(* Properties. *)

Idle == pc = "idle"

(* Every variable has its type; the counter on the card and the number in  *)
(* memory stay among the numbers a log can get, also while wod_init tries  *)
(* one number after another.                                               *)
TypeOK ==
  /\ wodnum \in {Absent, Blank} \cup Names
  /\ log \in [Names -> File]
  /\ tries \in 0 .. Tries
  /\ number \in 0 .. (LastName - tries)
  /\ entry \in Nat /\ iter \in Nat
  /\ path \in {Unset} \cup Names
  /\ enable \in BOOLEAN /\ previous \in BOOLEAN /\ wanted \in BOOLEAN
  /\ pc \in {"idle", "readNum", "createNum", "writeFresh", "reopenNum",
             "writeNum", "removeOld", "createLog", "writeMagic", "writeTime",
             "writeFirst", "append", "writeRotate", "writeZero", "purge",
             "openCmd", "writeCmd"}
  /\ job \in {"none", "boot", "log", "rmall", "reset", "set"}
  /\ arg \in Names
  /\ clock \in Nat /\ crashes \in Nat /\ faults \in Nat /\ cmds \in Nat

(* The card never holds a number further than one past the ring, however   *)
(* many attempts wod_init makes and whatever fails: the next boot accepts  *)
(* it (or starts over at 0) and the daemon's modulo brings it back.        *)
CounterBound == wodnum <= MaxNum + 1

(* On a card that holds a counter, no reset of the computer and no failed  *)
(* call leaves /sd/wodnum without one, because fopen with "w" keeps what   *)
(* the file holds; a boot that finds no number gives up logging.           *)
CounterReadable == wodnum >= 0

(* Without failing calls, between operations the card, current_number and  *)
(* path name the same log; or a reset struck between the creation of       *)
(* /sd/wodnum and its first write, and no log is named.                    *)
CounterAgrees ==
  Idle => \/ wodnum = number /\ path = number
          \/ wodnum = Blank /\ path = Unset

(* wod_log only adds a record to a file whose header is complete, so that  *)
(* the decoder finds the magic and the start time before the records.      *)
HeaderFirst == pc = "append" => log[path].hdr = 2

(* Between operations the current log holds the first record of            *)
(* init_wodlog and one for each cycle counted since, across the wraps of   *)
(* the eight-bit minute counter, resets of the computer and pauses of the  *)
(* logger.                                                                 *)
RecordsMatch ==
  Idle /\ path # Unset => log[path].n = 1 + iter * Wrap + entry

(* A log never holds more records than four passes of the minute counter   *)
(* and the first one, although no command resets iteration.                *)
SizeBound == \A f \in Names : log[f].n <= 1 + Passes * Wrap

(* Without failing calls every long command leaves wod_enable as the       *)
(* operator last asked for it.                                             *)
EnableRestored == Idle => enable = wanted

(* Whatever fails, an operator who left the logger on finds it on.         *)
OnStaysOn == Idle /\ wanted => enable

(* A boot that finds the current log complete and older than Limit leaves  *)
(* it as it is and takes another number, wherever a reset interrupts it.   *)
RebootKeepsOldLog ==
  [][job = "boot" /\ pc # "readNum" /\ arg <= MaxNum
       /\ log[arg].hdr = 2 /\ clock - log[arg].time > Limit
     => log'[arg] = log[arg]]_vars

(* While the logger is on, each number of the ring becomes the current log *)
(* again and again, also when a boot had moved one past the ring.          *)
RingCycles == <>[]enable => \A f \in 0 .. MaxNum : []<>(path = f)

(* Once the operators and the failures let the logger be, it keeps adding  *)
(* records whenever it has a log to add them to.                           *)
LoggingResumes == <>[](enable /\ path # Unset) => []<>(pc = "append")

(* Each of the commands that write the counter brings the logger back from *)
(* a counter that a reset had left without a number, unless the computer   *)
(* is reset again before it ends.                                          *)
CommandsRevive ==
  job \in {"rmall", "reset", "set"} ~> (Idle /\ path # Unset) \/ job = "boot"
=============================================================================
