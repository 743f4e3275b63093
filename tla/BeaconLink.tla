----------------------------- MODULE BeaconLink -----------------------------
(***************************************************************************)
(* The beacon configuration on the ground and on the satellite: the        *)
(* operator edits a copy (csp-term/cmd_wod.c) and exchanges it with the    *)
(* satellite by a transaction that may be lost or given up                 *)
(* (csp-term/beacon_io.c; OBC_PORT_BEACON in satellite/task_server.c and   *)
(* satellite/beacon_io.c).  Consoles edit the satellite's copy meanwhile   *)
(* and a restart resets it.                                                *)
(***************************************************************************)
EXTENDS Integers, Sequences

CONSTANTS
  Width,     \* the numbers an interval or postpone can hold (2^16)
  Min,       \* the least interval and postpone (10 seconds)
  Swap,      \* csp_hton16 and csp_ntoh16
  Numbers,   \* the numbers an operator types (uint32)
  Signs, First, Zeros,  \* the callsigns, that of init_beacon_config and that of a restart
  FirstInterval, FirstPostpone,  \* of init_beacon_config (30 and 900)
  MaxEdits,  \* bound: edits on the ground, and as many on the satellite
  MaxFaults, \* bound: packets lost and transactions given up
  MaxLink    \* bound: requests on their way

ASSUME LinkAssumption ==
  /\ Width \in Nat /\ Min \in Nat \ {0} /\ Min < Width
  /\ Swap \in [0 .. (Width - 1) -> 0 .. (Width - 1)]
  /\ \A n \in 0 .. (Width - 1) : Swap[Swap[n]] = n
  /\ Numbers \subseteq Nat /\ First \in Signs /\ Zeros \in Signs
  /\ FirstInterval \in Min .. (Width - 1) /\ FirstPostpone \in Min .. (Width - 1)
  /\ MaxEdits \in Nat /\ MaxFaults \in Nat /\ MaxLink \in Nat

VARIABLES
  ground,    \* current_config on the ground
  sat,       \* current_config on the satellite
  started,   \* the daemon has initialised that
  requests,  \* on their way to the satellite, in order
  op,        \* the ground's command: "idle", "set" or "get"
  waiting,   \* the last of requests belongs to op
  answer,    \* the answer to op on its way back, or None
  touched,   \* history: the satellite's copy changed since it answered
  vouched,   \* history: an answer came, and no copy was changed since
  edits, satEdits, faults  \* edits and faults so far

None == [task |-> 0]

history == <<touched, vouched>>
counts  == <<edits, satEdits, faults>>
vars    == <<ground, sat, started, requests, op, waiting, answer, history, counts>>

(* beacon_config_t without tasks. *)
Config == [on : {0, 1}, interval : 0 .. (Width - 1), postpone : 0 .. (Width - 1), sign : Signs]

(* beacon_config_t as a packet. *)
Packet == [task : {1, 2}, config : Config]

(* The two fields of more than a byte change their byte order. *)
Wire(c) == [c EXCEPT !.interval = Swap[c.interval], !.postpone = Swap[c.postpone]]

AtLeastMin(n) == IF n < Min THEN Min ELSE n

(* The check both sides make of a configuration they set. *)
Floored(c) == [c EXCEPT !.interval = AtLeastMin(c.interval), !.postpone = AtLeastMin(c.postpone)]

(* Mutant: the number is not narrowed. *)
StoredWide(n) == AtLeastMin(n)

(* A console checks the number typed and narrows it afterwards. *)
Stored(n) == AtLeastMin(n) % Width

(* What one command of a console makes of a configuration. *)
EditsOf(c) ==
  {[c EXCEPT !.on = b] : b \in {0, 1}}
    \cup {[c EXCEPT !.interval = Stored(n)] : n \in Numbers}
    \cup {[c EXCEPT !.postpone = Stored(n)] : n \in Numbers}
    \cup {[c EXCEPT !.sign = s] : s \in Signs}

Initial  == [on |-> 0, interval |-> FirstInterval, postpone |-> FirstPostpone, sign |-> First]
AllZeros == [on |-> 0, interval |-> 0, postpone |-> 0, sign |-> Zeros]

-----------------------------------------------------------------------------
(* The ground, one command at a time. *)

Edit ==
  /\ op = "idle"
  /\ edits < MaxEdits /\ edits' = edits + 1
  /\ ground' \in EditsOf(ground)
  /\ vouched' = FALSE
  /\ UNCHANGED <<sat, started, requests, op, waiting, answer, touched, satEdits, faults>>

Request(command, packet) ==
  /\ op = "idle" /\ Len(requests) < MaxLink
  /\ op' = command
  /\ requests' = Append(requests, packet)
  /\ waiting' = TRUE
  /\ UNCHANGED <<ground, sat, started, answer, touched, counts>>

(* Mutant: the ground leaves the check to the satellite. *)
SetUnchecked ==
  /\ Request("set", [task |-> 1, config |-> Wire(ground)])
  /\ vouched' = FALSE

(* set_beacon_config. *)
Set ==
  /\ Request("set", [task |-> 1, config |-> Wire(Floored(ground))])
  /\ vouched' = FALSE

(* get_beacon_config; what else its packet holds is not looked at. *)
Get ==
  /\ Request("get", [task |-> 2, config |-> ground])
  /\ UNCHANGED vouched

(* csp_transaction returns the answer. *)
Receive ==
  /\ answer # None
  /\ ground' = Wire(answer.config)
  /\ op' = "idle" /\ answer' = None
  /\ vouched' = ~touched
  /\ UNCHANGED <<sat, started, requests, waiting, touched, counts>>

(* It gives up, because nothing comes or the link is slow, and closes its  *)
(* connection: nobody takes an answer that comes later.                    *)
GiveUp ==
  /\ op # "idle"
  /\ \/ ~waiting /\ answer = None /\ UNCHANGED faults
     \/ /\ waiting \/ answer # None
        /\ faults < MaxFaults /\ faults' = faults + 1
  /\ op' = "idle" /\ waiting' = FALSE /\ answer' = None
  /\ UNCHANGED <<ground, sat, started, requests, history, edits, satEdits>>

-----------------------------------------------------------------------------
(* The satellite. *)

(* OBC_PORT_BEACON: set or else get.  The answer to a set is its packet. *)
Serve ==
  /\ requests # <<>>
  /\ LET p        == Head(requests)
         expected == waiting /\ Len(requests) = 1
     IN /\ sat' = IF p.task = 1 THEN Floored(Wire(p.config)) ELSE sat
        /\ answer' = IF ~expected THEN answer
                     ELSE IF p.task = 1 THEN p
                     ELSE [p EXCEPT !.config = Wire(sat)]
        /\ touched' = IF expected THEN FALSE ELSE touched
        /\ waiting' = IF expected THEN FALSE ELSE waiting
  /\ requests' = Tail(requests)
  /\ UNCHANGED <<ground, started, op, vouched, counts>>

Change ==
  /\ touched' = TRUE /\ vouched' = FALSE
  /\ UNCHANGED <<ground, requests, op, waiting, answer, edits, faults>>

(* A command of the satellite's console or of the remote shell. *)
SatEdit ==
  /\ satEdits < MaxEdits /\ satEdits' = satEdits + 1
  /\ sat' \in EditsOf(sat)
  /\ UNCHANGED started /\ Change

(* The satellite restarts; the server may answer before the daemon starts. *)
Restart ==
  /\ satEdits < MaxEdits /\ satEdits' = satEdits + 1
  /\ sat' = AllZeros /\ started' = FALSE
  /\ Change

(* init_beacon_config. *)
DaemonStart ==
  /\ ~started /\ started' = TRUE
  /\ sat' = Initial
  /\ UNCHANGED satEdits /\ Change

-----------------------------------------------------------------------------
(* A packet is lost on the link. *)
Lose ==
  /\ faults < MaxFaults /\ faults' = faults + 1
  /\ \/ /\ requests # <<>> /\ requests' = Tail(requests)
        /\ waiting' = (waiting /\ Len(requests) > 1)
        /\ UNCHANGED answer
     \/ /\ answer # None /\ answer' = None
        /\ UNCHANGED <<requests, waiting>>
  /\ UNCHANGED <<ground, sat, started, op, history, edits, satEdits>>

(* The ground's statics are zero until something is set or got. *)
Init ==
  /\ ground = AllZeros /\ sat = AllZeros /\ started = FALSE
  /\ requests = <<>> /\ op = "idle" /\ waiting = FALSE /\ answer = None
  /\ touched = TRUE /\ vouched = FALSE
  /\ edits = 0 /\ satEdits = 0 /\ faults = 0

Next ==
  \/ Edit \/ Set \/ Get \/ Receive \/ GiveUp
  \/ Serve \/ SatEdit \/ Restart \/ DaemonStart
  \/ Lose

Spec == Init /\ [][Next]_vars
-----------------------------------------------------------------------------
(* Properties. *)

(* Types; only a command that waits has an answer, and one that waits has  *)
(* its request or its answer on the way unless it is lost.                 *)
TypeOK ==
  /\ ground \in Config /\ sat \in Config /\ started \in BOOLEAN
  /\ requests \in Seq(Packet)
  /\ op \in {"idle", "set", "get"}
  /\ waiting \in BOOLEAN /\ answer \in Packet \cup {None}
  /\ touched \in BOOLEAN /\ vouched \in BOOLEAN
  /\ edits \in Nat /\ satEdits \in Nat /\ faults \in Nat
  /\ waiting => op # "idle" /\ answer = None /\ requests # <<>>
  /\ answer # None => op # "idle" /\ requests = <<>>

(* An answer that reaches the ground vouches for the satellite's copy:     *)
(* from then on the two agree until one is edited, set or reset on         *)
(* purpose.  No request that the ground had given up on, and no check or   *)
(* byte order of one side alone, makes them differ.                        *)
Vouched == vouched => ground = sat
=============================================================================
