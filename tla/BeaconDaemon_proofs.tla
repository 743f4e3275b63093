------------------------ MODULE BeaconDaemon_proofs ------------------------
(***************************************************************************)
(* Proofs about the daemon's beacons, for all intervals, bounds and times. *)
(***************************************************************************)
EXTENDS BeaconDaemon, TLAPS

USE BeaconAssumption

(* What a command stores fits its width. *)
LEMMA StoredFits ==
  ASSUME NEW n \in Numbers
  PROVE  Stored(n) \in 0 .. (Width - 1)
<1>1. (IF n < Min THEN Min ELSE n) \in Nat
  OBVIOUS
<1>2. \A k \in Nat : k % Width \in 0 .. (Width - 1)
  OBVIOUS
<1> QED BY <1>1, <1>2 DEF Stored

(* So does each part of a configuration, whatever step is taken. *)
LEMMA ConfigFits ==
  ASSUME TypeOK, [Next]_vars
  PROVE  /\ on' \in {0, 1}
         /\ interval' \in 0 .. (Width - 1) /\ postpone' \in 0 .. (Width - 1)
<1> USE DEF TypeOK, Command, config
<1>1. CASE Daemon
  BY <1>1 DEF Daemon, DaemonStart, Log, Check, BeaconOut, Send, Rest, Wake
<1>2. CASE SwitchBeacon
  BY <1>2 DEF SwitchBeacon
<1>3. CASE SetInterval
  BY <1>3, StoredFits DEF SetInterval
<1>4. CASE SetPostpone
  BY <1>4, StoredFits DEF SetPostpone
<1>5. CASE SetConfig
  BY <1>5, StoredFits DEF SetConfig
<1>6. CASE Refresh \/ SwitchLogger \/ Pass \/ StepClock \/ UNCHANGED vars
  BY <1>6 DEF Refresh, SwitchLogger, Pass, StepClock, vars
<1> QED BY <1>1, <1>2, <1>3, <1>4, <1>5, <1>6 DEF Next, Commands

(* The ages of the housekeeping stay within their bound. *)
LEMMA AgesFit ==
  ASSUME TypeOK, [Next]_vars
  PROVE  /\ eps' \in 0 .. Old /\ com' \in 0 .. Old
         /\ recEps' \in 0 .. Old /\ recCom' \in 0 .. Old
         /\ steady' \in 0 .. Old
         /\ rotated' \in BOOLEAN /\ logging' \in {0, 1}
<1> USE DEF TypeOK, data, history
<1>a. \A n \in 0 .. Old : Aged(n) \in 0 .. Old
  BY DEF Aged, Old
<1>z. 0 \in 0 .. Old
  BY DEF Old
<1>1. CASE Log
  <2>1. CASE LogPlain
    BY <1>1, <2>1, <1>a, <1>z DEF Log, LogPlain
  <2>2. CASE LogRotate
    BY <1>1, <2>2, <1>a, <1>z DEF Log, LogRotate
  <2>3. CASE LogFails
    BY <1>1, <2>3, <1>a, <1>z DEF Log, LogFails
  <2>4. CASE LogNothing
    BY <1>1, <2>4, <1>a, <1>z DEF Log, LogNothing
  <2> QED BY <1>1, <2>1, <2>2, <2>3, <2>4 DEF Log
<1>2. CASE DaemonStart \/ Check \/ BeaconOut \/ Send \/ Rest \/ Wake
  BY <1>2 DEF DaemonStart, Check, BeaconOut, Send, Rest, Wake
<1>3. CASE Commands
  BY <1>3 DEF Commands, Command, SwitchBeacon, SetInterval, SetPostpone,
              SetConfig, Refresh, SwitchLogger
<1>4. CASE Pass \/ StepClock \/ UNCHANGED vars
  BY <1>4 DEF Pass, StepClock, vars
<1> QED BY <1>1, <1>2, <1>3, <1>4 DEF Next, Daemon

(* The times stay within their bounds and the counters count. *)
LEMMA TimesFit ==
  ASSUME TypeOK, [Next]_vars
  PROVE  /\ idle' \in -MaxIdle .. MaxIdle
         /\ spent' \in Nat /\ delay' \in 0 .. (Width - 1)
         /\ since' \in 0 .. Long /\ late' \in Nat
         /\ cmds' \in Nat /\ steps' \in Nat /\ faults' \in Nat
         /\ pc' \in {"start", "log", "check", "out", "send", "rest", "sleep"}
<1> USE DEF TypeOK, config, history, counts
<1>1. CASE DaemonStart
  BY <1>1 DEF DaemonStart, CountLate
<1>2. CASE Log
  BY <1>2 DEF Log
<1>3. CASE Check
  BY <1>3 DEF Check
<1>4. CASE BeaconOut
  BY <1>4 DEF BeaconOut
<1>5. CASE Send
  BY <1>5 DEF Send, Long
<1>6. CASE Rest
  BY <1>6 DEF Rest, DelayOf
<1>7. CASE Wake
  BY <1>7 DEF Wake
<1>8. CASE Commands
  BY <1>8 DEF Commands, Command, CountLate, SwitchBeacon, SetInterval,
              SetPostpone, SetConfig, Refresh, SwitchLogger
<1>9. CASE Pass
  BY <1>9 DEF Pass, Later, Long, CountLate
<1>10. CASE StepClock
  BY <1>10 DEF StepClock, CountLate
<1>11. CASE UNCHANGED vars
  BY <1>11 DEF vars
<1> QED BY <1>1, <1>2, <1>3, <1>4, <1>5, <1>6, <1>7, <1>8, <1>9, <1>10, <1>11
        DEF Next, Daemon

(* Every variable of the daemon and of the configuration keeps its type;   *)
(* what is narrowed fits, and no sleep is longer than a width.             *)
THEOREM BeaconTyped == Spec => []TypeOK
<1>1. Init => TypeOK
  <2> SUFFICES ASSUME Init
               PROVE  TypeOK
    OBVIOUS
  <2>1. 0 \in 0 .. (Width - 1) /\ MaxIdle \in -MaxIdle .. MaxIdle
    OBVIOUS
  <2>2. Old \in 0 .. Old /\ Long \in 0 .. Long /\ 0 \in 0 .. Old
    BY DEF Old, Long
  <2> QED BY <2>1, <2>2 DEF Init, TypeOK
<1>2. TypeOK /\ [Next]_vars => TypeOK'
  BY ConfigFits, AgesFit, TimesFit DEF TypeOK
<1> QED BY <1>1, <1>2, PTL DEF Spec

-----------------------------------------------------------------------------
(* While a beacon is due none is late, and past its check the daemon has   *)
(* not sent the late one yet.                                              *)
LateInv ==
  /\ late <= 1
  /\ Due => late = 0
  /\ pc \in {"out", "send"} => late = 0

(* A step that leaves the daemon where it is keeps the count right,        *)
(* whatever it makes of Due.                                               *)
LEMMA CountLateKeeps ==
  ASSUME TypeOK, LateInv, CountLate, pc' = pc \/ pc' = "log"
  PROVE  LateInv'
BY DEF TypeOK, LateInv, CountLate

(* A command or a step of the clock that ends the time for beacons lets    *)
(* at most one more leave (Check before wod_beacon_out in                  *)
(* task_wod_daemon.c:30-31).                                               *)
THEOREM OneLateBeaconOnly == Spec => []OneLateBeacon
<1>1. Init => LateInv
  BY DEF Init, LateInv, Due
<1>2. TypeOK /\ LateInv /\ [Next]_vars => LateInv'
  <2> SUFFICES ASSUME TypeOK, LateInv, [Next]_vars
               PROVE  LateInv'
    OBVIOUS
  <2>d. on' = on /\ idle' = idle /\ postpone' = postpone => (Due <=> Due')
    BY DEF Due
  <2>1. CASE DaemonStart
    BY <2>1, CountLateKeeps DEF DaemonStart
  <2>2. CASE Log
    BY <2>2, <2>d DEF Log, LateInv, config
  <2>3. CASE Check
    BY <2>3, <2>d DEF Check, LateInv, config, history
  <2>4. CASE BeaconOut
    BY <2>4, <2>d DEF BeaconOut, LateInv, config, history
  <2>5. CASE Send
    BY <2>5, <2>d DEF Send, LateInv, config
  <2>6. CASE Rest
    BY <2>6, <2>d DEF Rest, LateInv, config, history
  <2>7. CASE Wake
    BY <2>7, <2>d DEF Wake, LateInv, config, history
  <2>8. CASE Commands
    <3>1. CountLate /\ pc' = pc
      BY <2>8 DEF Commands, Command, SwitchBeacon, SetInterval, SetPostpone,
                  SetConfig, Refresh, SwitchLogger
    <3> QED BY <3>1, CountLateKeeps
  <2>9. CASE Pass \/ StepClock
    BY <2>9, CountLateKeeps DEF Pass, StepClock
  <2>10. CASE UNCHANGED vars
    BY <2>10, <2>d DEF vars, LateInv, config, history
  <2> QED BY <2>1, <2>2, <2>3, <2>4, <2>5, <2>6, <2>7, <2>8, <2>9, <2>10
          DEF Next, Daemon
<1>3. LateInv => OneLateBeacon
  BY DEF LateInv, OneLateBeacon
<1> QED BY <1>1, <1>2, <1>3, BeaconTyped, PTL DEF Spec

-----------------------------------------------------------------------------
(* No number of Numbers is narrowed below the least interval. *)
NumbersFit == \A n \in Numbers : Stored(n) >= Min

(* The time since the last beacon keeps up with the time since the start   *)
(* of the cycle, and the sleep ends no sooner than Min after that start.   *)
ApartInv ==
  /\ pc # "start" => interval >= Min
  /\ pc = "start" => since = Long
  /\ pc = "sleep" => delay >= Min
  /\ pc # "sleep" => spent <= MaxWork
  /\ pc = "sleep" => spent <= MaxWork \/ spent <= delay
  /\ pc \in {"rest", "sleep"} => since >= spent - MaxWork
  /\ pc \in {"log", "check", "out", "send"} => since >= Min - MaxWork

(* A command stores no interval below Min. *)
LEMMA IntervalKeeps ==
  ASSUME NumbersFit, TypeOK, ApartInv, Commands
  PROVE  pc' # "start" => interval' >= Min
<1> USE DEF TypeOK, ApartInv, Command
<1>1. CASE SetInterval
  BY <1>1 DEF SetInterval, NumbersFit
<1>2. CASE SetConfig
  BY <1>2 DEF SetConfig, NumbersFit
<1>3. CASE SwitchBeacon \/ SetPostpone \/ Refresh \/ SwitchLogger
  BY <1>3 DEF SwitchBeacon, SetPostpone, Refresh, SwitchLogger, config
<1> QED BY <1>1, <1>2, <1>3 DEF Commands

(* Beacons are Min apart but for the work of one cycle, if no number is    *)
(* narrowed below Min (vTaskDelayUntil in task_wod_daemon.c:32-36).        *)
THEOREM BeaconsApart == NumbersFit => (Spec => []Apart)
<1> SUFFICES ASSUME NumbersFit
             PROVE  Spec => []Apart
  OBVIOUS
<1>1. Init => ApartInv
  BY DEF Init, ApartInv
<1>2. TypeOK /\ ApartInv /\ [Next]_vars => ApartInv'
  <2> SUFFICES ASSUME TypeOK, ApartInv, [Next]_vars
               PROVE  ApartInv'
    OBVIOUS
  <2> USE DEF TypeOK, ApartInv, Long
  <2>1. CASE DaemonStart
    BY <2>1 DEF DaemonStart
  <2>2. CASE Log
    BY <2>2 DEF Log, config
  <2>3. CASE Check
    BY <2>3 DEF Check, config, history
  <2>4. CASE BeaconOut
    BY <2>4 DEF BeaconOut, config, history
  <2>5. CASE Send
    BY <2>5 DEF Send, config
  <2>6. CASE Rest
    BY <2>6 DEF Rest, DelayOf, config, history
  <2>7. CASE Wake
    BY <2>7 DEF Wake, config, history
  <2>8. CASE Commands
    <3>1. <<pc, spent, delay, since>>' = <<pc, spent, delay, since>>
      BY <2>8 DEF Commands, Command, SwitchBeacon, SetInterval, SetPostpone,
                  SetConfig, Refresh, SwitchLogger
    <3> QED BY <2>8, <3>1, IntervalKeeps
  <2>9. CASE Pass
    BY <2>9 DEF Pass, Later, config
  <2>10. CASE StepClock \/ UNCHANGED vars
    BY <2>10 DEF StepClock, vars, config, history
  <2> QED BY <2>1, <2>2, <2>3, <2>4, <2>5, <2>6, <2>7, <2>8, <2>9, <2>10
          DEF Next, Daemon
<1>3. ApartInv => Apart
  BY DEF ApartInv, Apart
<1> QED BY <1>1, <1>2, <1>3, BeaconTyped, PTL DEF Spec

-----------------------------------------------------------------------------
(* What a run of cycles that logged without a failure says of the ages.    *)
FreshInv ==
  /\ steady >= 1 => recEps = 0
  /\ steady >= 1 /\ ~rotated => com = 0
  /\ steady >= 2 /\ rotated => com = 1
  /\ steady = Old => recCom <= 2

(* A beacon carries the power readings of its cycle and radio readings of  *)
(* at most two cycles ago, although wod_log returns before com_get_hk when *)
(* it rotates (wod_sat.c:281-291).                                         *)
THEOREM BeaconsFresh == Spec => []FreshBeacon
<1>1. Init => FreshInv
  BY DEF Init, FreshInv, Old
<1>2. TypeOK /\ FreshInv /\ [Next]_vars => FreshInv'
  <2> SUFFICES ASSUME TypeOK, FreshInv, [Next]_vars
               PROVE  FreshInv'
    OBVIOUS
  <2> USE DEF TypeOK, FreshInv, Aged, Old
  <2>1. CASE Log
    <3>1. CASE logging = 1 /\ LogPlain /\ steady' = Aged(steady)
      BY <3>1 DEF LogPlain
    <3>2. CASE logging = 1 /\ LogRotate /\ steady' = Aged(steady)
      BY <3>2 DEF LogRotate
    <3>3. CASE steady' = 0
      BY <3>3
    <3> QED BY <2>1, <3>1, <3>2, <3>3 DEF Log
  <2>2. CASE Next /\ ~Log
    <3>1. <<steady, recEps, rotated, com, recCom>>' = <<steady, recEps, rotated, com, recCom>>
      BY <2>2 DEF Next, Daemon, DaemonStart, Check, BeaconOut, Send, Rest, Wake,
                  Commands, Command, SwitchBeacon, SetInterval, SetPostpone,
                  SetConfig, Refresh, SwitchLogger, Pass, StepClock, data, history
    <3> QED BY <3>1
  <2>3. CASE UNCHANGED vars
    BY <2>3 DEF vars, data, history
  <2> QED BY <2>1, <2>2, <2>3
<1>3. FreshInv => FreshBeacon
  BY DEF FreshInv, FreshBeacon, Old
<1> QED BY <1>1, <1>2, <1>3, BeaconTyped, PTL DEF Spec
=============================================================================
