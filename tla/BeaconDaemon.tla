---------------------------- MODULE BeaconDaemon ----------------------------
(***************************************************************************)
(* The daemon of the satellite (satellite/task_wod_daemon.c) and what it   *)
(* does about beacons: it logs a record, decides whether to transmit the   *)
(* record as a beacon (wod_beacon_out in satellite/beacon_io.c), and       *)
(* sleeps.  Meanwhile commands from the console and the radio change the   *)
(* configuration and note contacts of the ground (satellite/cmd_wod.c,     *)
(* set_beacon_config).                                                     *)
(*                                                                         *)
(* Time is counted in units of which Min make up the shortest interval;    *)
(* only differences of times matter, so each variable of time holds one.   *)
(***************************************************************************)
EXTENDS Integers

CONSTANTS
  Width,     \* the numbers an interval or postpone can hold (2^16)
  Min,       \* the least interval and postpone (10 seconds)
  Numbers,   \* the numbers an operator types (uint32)
  FirstInterval, FirstPostpone,  \* of init_beacon_config (30 and 900)
  MaxWork,   \* bound: time one cycle takes before it sleeps
  MaxIdle,   \* bound: time since the last contact, in either direction
  MaxCmds,   \* bound: commands
  MaxSteps,  \* bound: steps of the real-time clock
  MaxFaults  \* bound: calls of the logger that fail

ASSUME BeaconAssumption ==
  /\ Width \in Nat /\ Min \in Nat \ {0} /\ Min < Width
  /\ Numbers \subseteq Nat
  /\ FirstInterval \in Min .. (Width - 1) /\ FirstPostpone \in Min .. (Width - 1)
  /\ MaxWork \in Nat /\ MaxIdle \in Nat /\ MaxIdle >= Width
  /\ MaxCmds \in Nat /\ MaxSteps \in Nat /\ MaxFaults \in Nat

VARIABLES
  on,        \* current_config.beacon_enable
  interval,  \* current_config.interval
  postpone,  \* current_config.postpone
  idle,      \* getRealTime() - last_gnd_contact
  pc,        \* where the daemon is
  spent,     \* time since xLastBeacon
  delay,     \* the argument of vTaskDelayUntil, 0 for ten ticks
  logging,   \* wod_enable
  eps, com,  \* age of wod_eps_hk, wod_com_hk in cycles of the daemon
  recEps, recCom,  \* age of those in current_wod_data
  rotated,   \* the last cycle rotated the log
  since,     \* history: time since the last beacon
  late,      \* history: beacons since one was last due
  steady,    \* history: cycles in a row that logged a record
  cmds, steps, faults  \* commands, clock steps and failures so far

config  == <<on, interval, postpone>>
data    == <<logging, eps, com, recEps, recCom, rotated>>
history == <<since, late, steady>>
counts  == <<cmds, steps, faults>>
vars    == <<config, idle, pc, spent, delay, data, history, counts>>

(* Bounds on what the history tells apart: an age of the housekeeping, in  *)
(* cycles, and a time since the last beacon.                               *)
Old  == 3
Long == 2 * Width

Aged(n)  == IF n < Old THEN n + 1 ELSE Old
Later(t, max) == IF t < max THEN t + 1 ELSE max

(* A beacon is due: the ground has been silent for longer than postpone.   *)
Due == on = 1 /\ idle > postpone

(* What counts the beacons since one was last due, after a step that may   *)
(* make one due.                                                           *)
CountLate == late' = IF Due' THEN 0 ELSE late

-----------------------------------------------------------------------------
(* The daemon. *)

(* log_last_gnd_contact and init_beacon_config, whatever a command may     *)
(* have set before.                                                        *)
DaemonStart ==
  /\ pc = "start" /\ pc' = "log"
  /\ on' = 0 /\ interval' = FirstInterval /\ postpone' = FirstPostpone
  /\ idle' = 0 /\ spent' = 0
  /\ CountLate /\ UNCHANGED <<delay, data, since, steady, counts>>

(* Mutant: the housekeeping of the radio is fetched in a rotation only. *)
LogPlainStale ==
  /\ eps' = 0 /\ recEps' = 0
  /\ recCom' = Aged(com) /\ com' = Aged(com) /\ rotated' = FALSE

(* wod_log adds a record: wod_get makes it of the housekeeping of the      *)
(* power supply just read and of that of the radio that an earlier cycle   *)
(* fetched, which is fetched again afterwards.                             *)
LogPlain ==
  /\ eps' = 0 /\ recEps' = 0
  /\ recCom' = Aged(com) /\ com' = 0 /\ rotated' = FALSE

(* wod_log rotates the log, whose first record comes about the same way,   *)
(* and returns before it fetches anything.  Records lie between two        *)
(* rotations.                                                              *)
LogRotate ==
  /\ ~rotated
  /\ eps' = 0 /\ recEps' = 0
  /\ recCom' = Aged(com) /\ com' = Aged(com) /\ rotated' = TRUE

(* The card or one of the two boards does not answer: any of the data may  *)
(* stay what they were.                                                    *)
LogFails ==
  /\ eps' \in {0, Aged(eps)} /\ recEps' \in {eps', Aged(recEps)}
  /\ com' \in {0, Aged(com)} /\ recCom' \in {Aged(com), Aged(recCom)}
  /\ rotated' = FALSE

LogNothing ==
  /\ eps' = Aged(eps) /\ recEps' = Aged(recEps)
  /\ com' = Aged(com) /\ recCom' = Aged(recCom) /\ rotated' = FALSE

Log ==
  /\ pc = "log" /\ pc' = "check"
  /\ \/ /\ logging = 1 /\ (LogPlain \/ LogRotate)
        /\ steady' = Aged(steady) /\ UNCHANGED faults
     \/ /\ logging = 1 /\ LogFails
        /\ faults < MaxFaults /\ faults' = faults + 1 /\ steady' = 0
     \/ /\ logging = 0 /\ LogNothing
        /\ steady' = 0 /\ UNCHANGED faults
  /\ UNCHANGED <<config, idle, spent, delay, logging, since, late, cmds, steps>>

(* Mutant: the decision belongs to the branch that logs. *)
CheckLogged ==
  /\ pc = "check"
  /\ \/ logging = 1 /\ Due /\ pc' = "out" /\ UNCHANGED delay
     \/ ~(logging = 1 /\ Due) /\ pc' = "sleep" /\ delay' = Min
  /\ UNCHANGED <<config, idle, spent, data, history, counts>>

(* Without a beacon to send the daemon sleeps for Min. *)
Check ==
  /\ pc = "check"
  /\ \/ Due /\ pc' = "out" /\ UNCHANGED delay
     \/ ~Due /\ pc' = "sleep" /\ delay' = Min
  /\ UNCHANGED <<config, idle, spent, data, history, counts>>

(* wod_beacon_out looks at beacon_enable once more and copies the record. *)
BeaconOut ==
  /\ pc = "out"
  /\ \/ on = 1 /\ pc' = "send"
     \/ on = 0 /\ pc' = "rest"
  /\ UNCHANGED <<config, idle, spent, delay, data, history, counts>>

(* csp_transaction, which does not wait for an answer. *)
Send ==
  /\ pc = "send" /\ pc' = "rest"
  /\ since' = 0
  /\ late' = IF Due THEN 0 ELSE late + 1
  /\ UNCHANGED <<config, idle, spent, delay, data, steady, counts>>

(* An interval below the least one means ten ticks, next to no time. *)
DelayOf(n) == IF n < Min THEN 0 ELSE n

Rest ==
  /\ pc = "rest" /\ pc' = "sleep"
  /\ delay' = DelayOf(interval)
  /\ UNCHANGED <<config, idle, spent, data, history, counts>>

(* Mutant: the next cycle goes straight to the beacon. *)
WakeToBeacon ==
  /\ pc = "sleep" /\ spent >= delay
  /\ pc' = "out" /\ spent' = 0
  /\ UNCHANGED <<config, idle, delay, data, history, counts>>

(* vTaskDelayUntil counts from xLastBeacon, the end of the last sleep, and *)
(* returns at once when that time has passed.                              *)
Wake ==
  /\ pc = "sleep" /\ spent >= delay
  /\ pc' = "log" /\ spent' = 0
  /\ UNCHANGED <<config, idle, delay, data, history, counts>>

-----------------------------------------------------------------------------
(* The commands, between any two steps of the daemon. *)

(* Mutants: the check against the least value is forgotten; the number is  *)
(* not narrowed.                                                           *)
StoredAsIs(n) == n % Width
StoredWide(n) == IF n < Min THEN Min ELSE n

(* What an interval or postpone becomes: the check is made on the number   *)
(* the operator typed, which is then narrowed.                             *)
Stored(n) == (IF n < Min THEN Min ELSE n) % Width

Command ==
  /\ cmds < MaxCmds /\ cmds' = cmds + 1
  /\ UNCHANGED <<pc, spent, delay, eps, com, recEps, recCom, rotated,
                 since, steady, steps, faults>>

SwitchBeacon ==
  /\ Command /\ on' \in {0, 1}
  /\ UNCHANGED <<interval, postpone, idle, logging>> /\ CountLate

SetInterval ==
  /\ Command /\ \E n \in Numbers : interval' = Stored(n)
  /\ UNCHANGED <<on, postpone, idle, logging>> /\ CountLate

SetPostpone ==
  /\ Command /\ \E n \in Numbers : postpone' = Stored(n)
  /\ UNCHANGED <<on, interval, idle, logging>> /\ CountLate

(* set_beacon_config: all of it from a packet of the ground. *)
SetConfig ==
  /\ Command
  /\ on' \in {0, 1}
  /\ \E n, p \in Numbers \cap 0 .. (Width - 1) :
       interval' = Stored(n) /\ postpone' = Stored(p)
  /\ UNCHANGED <<idle, logging>> /\ CountLate

(* log_last_gnd_contact. *)
Refresh ==
  /\ Command /\ idle' = 0
  /\ UNCHANGED <<config, logging>> /\ CountLate

SwitchLogger ==
  /\ Command /\ logging' \in {0, 1}
  /\ UNCHANGED <<config, idle>> /\ CountLate

-----------------------------------------------------------------------------
(* Time. *)

Pass ==
  /\ IF pc = "sleep" THEN spent < delay ELSE spent < MaxWork
  /\ spent' = spent + 1
  /\ idle' = Later(idle, MaxIdle) /\ since' = Later(since, Long)
  /\ UNCHANGED <<config, pc, delay, data, steady, counts>> /\ CountLate

(* The ground sets the clock, which leaves last_gnd_contact as it is. *)
StepClock ==
  /\ steps < MaxSteps /\ steps' = steps + 1
  /\ idle' \in -MaxIdle .. MaxIdle
  /\ UNCHANGED <<config, pc, spent, delay, data, since, steady, cmds, faults>>
  /\ CountLate

(* Before its first step the configuration is all zeros. *)
Init ==
  /\ on = 0 /\ interval = 0 /\ postpone = 0
  /\ idle = MaxIdle /\ pc = "start" /\ spent = 0 /\ delay = 0
  /\ logging = 1 /\ eps = Old /\ com = Old /\ recEps = Old /\ recCom = Old
  /\ rotated = FALSE
  /\ since = Long /\ late = 0 /\ steady = 0
  /\ cmds = 0 /\ steps = 0 /\ faults = 0

Daemon == DaemonStart \/ Log \/ Check \/ BeaconOut \/ Send \/ Rest \/ Wake
Commands == SwitchBeacon \/ SetInterval \/ SetPostpone \/ SetConfig \/ Refresh \/ SwitchLogger

Next == Daemon \/ Commands \/ Pass \/ StepClock

Spec == Init /\ [][Next]_vars

(* The scheduler runs the daemon, and time passes. *)
FairSpec == Spec /\ WF_vars(Daemon) /\ WF_vars(Pass)
-----------------------------------------------------------------------------
(* Properties. *)

(* Every variable has its type; the numbers fit their width. *)
TypeOK ==
  /\ on \in {0, 1} /\ interval \in 0 .. (Width - 1) /\ postpone \in 0 .. (Width - 1)
  /\ idle \in -MaxIdle .. MaxIdle
  /\ pc \in {"start", "log", "check", "out", "send", "rest", "sleep"}
  /\ spent \in Nat /\ delay \in 0 .. (Width - 1)
  /\ logging \in {0, 1} /\ rotated \in BOOLEAN
  /\ eps \in 0 .. Old /\ com \in 0 .. Old /\ recEps \in 0 .. Old /\ recCom \in 0 .. Old
  /\ since \in 0 .. Long /\ late \in Nat /\ steady \in 0 .. Old
  /\ cmds \in Nat /\ steps \in Nat /\ faults \in Nat

(* A command, a contact or a step of the clock that ends the time for      *)
(* beacons may find the daemon past its check: until a beacon is due       *)
(* again, one more leaves, and no second.                                  *)
OneLateBeacon == late <= 1

(* Two beacons are Min apart, but for the time that the cycle of the first *)
(* had taken before it: the sleep is counted from the start of the cycle,  *)
(* the second cycle may be faster, and commands change the interval while  *)
(* the daemon sleeps.  It takes Numbers that are not narrowed below Min.   *)
Apart == pc = "send" => since >= Min - MaxWork

(* A beacon sent while the logger is on and nothing fails carries power    *)
(* readings of its own cycle and radio readings at most two cycles old,    *)
(* although a rotation fetches none.                                       *)
FreshBeacon == pc = "send" /\ steady = Old => recEps = 0 /\ recCom <= 2

(* While the beacon stays on and the ground stays silent for longer than   *)
(* postpone, beacons keep coming.                                          *)
KeepsSending == <>[]Due => []<>(pc = "send")
=============================================================================
