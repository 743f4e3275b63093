------------------------------- MODULE Listing -------------------------------
(***************************************************************************)
(* The listing of the card over the radio: the ground command ls2sd        *)
(* (cmd_testtools_ls2sd, csp-term/testtools.c), the satellite's service    *)
(* for it (OBC_PORT_FTP_LIST in satellite/task_server.c and fs_ls_to_sd in *)
(* satellite/cmd_fs.c), and the remote "rm" that removes each page.        *)
(*                                                                         *)
(* The ground asks for pages: the entries of the directory from a number   *)
(* on, as many as fit a buffer.  The satellite writes a page to a file of  *)
(* the same directory, the ground downloads that file, has it removed, and *)
(* asks for the page that starts at the last number it got, until that     *)
(* number reaches the count in the reply.  Between two pages the directory *)
(* changes: the page itself comes and goes, and so do other files.         *)
(***************************************************************************)
EXTENDS Integers, FiniteSets, Sequences

CONSTANTS
  N,            \* places of a directory entry on the card
  Pages,        \* names a page may get: ls0000 .. ls9999, from the clock
  Leftover,     \* pages of earlier listings that are on the card
  Kinds,        \* what the other entries are: "file", "dot"
  MinLines,     \* lines that always fit the buffer of a page
  MaxListings,  \* bound: uses of ls2sd
  MaxFaults,    \* bound: packets lost, late replies and calls that fail
  MaxOthers     \* bound: files that others create or remove

ASSUME ListingAssumption ==
  /\ N \in Nat /\ MinLines \in Nat \ {0, 1}
  /\ Pages # {} /\ Leftover \subseteq Pages
  /\ Pages \cap {"free", "dot", "file"} = {}
  /\ Kinds \subseteq {"dot", "file"}
  /\ MaxListings \in Nat /\ MaxFaults \in Nat /\ MaxOthers \in Nat

VARIABLES
  dir,      \* the directory /sd/: what each place holds
  up,       \* packets on their way to the satellite, in order
  phase,    \* the ground command
  start,    \* its start, always equal to its lastfilecount
  page,     \* the page the last reply announces
  seen,     \* the entries it has printed
  stable,   \* history: entries that were there when it began, and still are
  base,     \* history: entries the satellite saw when it made the last page
  gone,     \* history: those of them removed since
  spared,   \* history: never more than one was, from one page to the next
  listings, faults, others  \* uses, faults and foreign changes so far

ground  == <<phase, start, page, seen>>
history == <<stable, base, gone, spared>>
counts  == <<listings, faults, others>>
vars    == <<dir, up, ground, history, counts>>

Slots == 1 .. N

Packet == [kind: {"list", "late", "rm"}, from: Nat, name: Pages]
Page   == [lines: SUBSET Slots, count: Nat, last: Nat, name: Pages]

Occupied == {j \in Slots : dir[j] # "free"}
Visible  == {j \in Slots : dir[j] \notin {"free", "dot"}}
Present(p) == \E j \in Slots : dir[j] = p

Ok == UNCHANGED faults
Fault == faults < MaxFaults /\ faults' = faults + 1

-----------------------------------------------------------------------------
(* The satellite. *)

(* The number readdir gives an entry: it counts every entry, the names     *)
(* that begin with a dot too.                                              *)
Pos(j) == Cardinality({i \in Occupied : i <= j})

(* Mutant: a page starts after the number asked for. *)
ShownAfter(from) == {j \in Visible : Pos(j) > from}

Shown(from) == {j \in Visible : Pos(j) >= from}

(* A page: its lines, the number in its last line, and the count in the    *)
(* reply.                                                                  *)
PageOf(lines, count, p) ==
  [lines |-> lines, count |-> count, name |-> p,
   last |-> Cardinality({i \in Occupied : \E j \in lines : i <= j})]

(* Mutant: the count is one too large in every page. *)
CountedOn(from, p) == PageOf(Shown(from), Cardinality(Occupied) + 1, p)

(* The page that reaches the end of the directory. *)
WholePage(from, p) == PageOf(Shown(from), Cardinality(Occupied), p)

(* The pages that end because the line of entry t does not fit any more.   *)
CutPages(from, p) ==
  {PageOf({j \in Shown(from) : j < t}, Pos(t) + 1, p) :
     t \in {t \in Shown(from) : Cardinality({j \in Shown(from) : j < t}) >= MinLines}}

(* fopen(outPath, "w+"): a new entry takes any free place. *)
Created(p) ==
  IF Present(p) THEN {dir}
  ELSE {[dir EXCEPT ![j] = p] : j \in Slots \ Occupied}

Asked(k) == up # <<>> /\ Head(up).kind = k /\ up' = Tail(up)

(* fs_ls_to_sd with its reply, which may be lost.  A page that holds no    *)
(* line has only its heading.                                              *)
ServeList ==
  /\ Asked("list")
  /\ \E p \in Pages :
       /\ dir' \in Created(p)
       /\ page' \in {WholePage(Head(up).from, p)} \cup CutPages(Head(up).from, p)
  /\ \/ Ok /\ phase' = "download"
     \/ Fault /\ UNCHANGED phase
  /\ base' = Occupied /\ gone' = {}
  /\ spared' = (spared /\ Cardinality(gone) <= 1)
  /\ UNCHANGED <<start, seen, stable, listings, others>>

(* Its error paths: no memory, no directory, or a file that cannot be      *)
(* created (which a full directory causes) or written.                     *)
FailList ==
  /\ Asked("list")
  /\ \E p \in Pages :
       \/ Fault /\ dir' \in {dir} \cup Created(p)
       \/ Ok /\ Created(p) = {} /\ UNCHANGED dir
  /\ phase' = "failed"
  /\ UNCHANGED <<start, page, seen, history, listings, others>>

(* A request whose connection the ground has closed: a page for nobody.    *)
ServeLate ==
  /\ Asked("late")
  /\ \E p \in Pages : dir' \in {dir} \cup Created(p)
  /\ UNCHANGED <<ground, history, counts>>

(* The place of an entry becomes free. *)
Free(j) ==
  /\ dir' = [dir EXCEPT ![j] = "free"]
  /\ stable' = stable \ {j} /\ gone' = gone \cup ({j} \cap base)
  /\ UNCHANGED <<base, spared>>

(* The remote shell runs "rm". *)
ServeRm ==
  /\ Asked("rm")
  /\ \/ \E j \in Slots : dir[j] = Head(up).name /\ Free(j)
     \/ ~Present(Head(up).name) /\ UNCHANGED <<dir, history>>
  /\ UNCHANGED <<ground, counts>>

(* The daemon, or an operator, creates or removes another file. *)
OthersAct ==
  /\ others < MaxOthers /\ others' = others + 1
  /\ \/ /\ \E j \in Slots \ Occupied : dir' = [dir EXCEPT ![j] = "file"]
        /\ UNCHANGED history
     \/ \E j \in Slots : dir[j] = "file" /\ Free(j)
  /\ UNCHANGED <<up, ground, listings, faults>>

-----------------------------------------------------------------------------
(* The ground. *)

List(n) == [kind |-> "list", from |-> n, name |-> page.name]
Rm      == [kind |-> "rm", from |-> 0, name |-> page.name]

Busy == phase \in {"wait", "download"}

Ls2sd ==
  /\ ~Busy
  /\ listings < MaxListings /\ listings' = listings + 1
  /\ up' = Append(up, List(0))
  /\ phase' = "wait" /\ start' = 0 /\ seen' = {}
  /\ stable' = Visible /\ base' = {} /\ gone' = {} /\ spared' = TRUE
  /\ UNCHANGED <<dir, page, faults, others>>

(* The number in the last line.  Without a line there is no second newline *)
(* to search for before the last one: the search reads in front of its     *)
(* buffer, and gives up, or finds a byte that reads as a newline and       *)
(* leaves the number as it was.                                            *)
LastNumber == IF page.lines = {} THEN start ELSE page.last

(* Mutant: the page is left on the card. *)
TakeOnly ==
  /\ phase = "download" /\ seen' = seen \cup page.lines /\ start' = LastNumber
  /\ \/ LastNumber < page.count /\ phase' = "wait" /\ up' = Append(up, List(LastNumber))
     \/ LastNumber >= page.count /\ phase' = "done" /\ UNCHANGED up
  /\ UNCHANGED <<dir, page, history, counts>>

(* The page is downloaded, its removal sent without waiting for an answer, *)
(* and its lines are printed.                                              *)
TakePage ==
  /\ phase = "download"
  /\ seen' = seen \cup page.lines /\ start' = LastNumber
  /\ \/ /\ LastNumber < page.count
        /\ phase' = "wait" /\ up' = Append(Append(up, Rm), List(LastNumber))
     \/ /\ LastNumber >= page.count
        /\ phase' = "done" /\ up' = Append(up, Rm)
  /\ UNCHANGED <<dir, page, history, counts>>

(* The command gives up: the download fails, or the page does not          *)
(* decompress, or it has no line.                                          *)
GiveUp ==
  /\ phase = "download" /\ phase' = "failed"
  /\ \/ Fault /\ UNCHANGED <<up, seen>>
     \/ Fault /\ up' = Append(up, Rm) /\ UNCHANGED seen
     \/ Ok /\ page.lines = {} /\ up' = Append(up, Rm) /\ UNCHANGED seen
  /\ UNCHANGED <<dir, start, page, history, listings, others>>

(* Mutant: a reply is awaited by any connection. *)
LateAsLive(q) == q

(* The connection of a request is closed. *)
Late(q) == [i \in 1 .. Len(q) |->
  IF q[i].kind = "list" THEN [q[i] EXCEPT !.kind = "late"] ELSE q[i]]

Awaited == \E i \in 1 .. Len(up) : up[i].kind = "list"

(* csp_transaction gives up after its timeout: because the request or the  *)
(* reply was lost, or too early.                                           *)
Timeout ==
  /\ phase = "wait" /\ phase' = "failed"
  /\ \/ ~Awaited /\ Ok
     \/ Awaited /\ Fault
  /\ up' = Late(up)
  /\ UNCHANGED <<dir, start, page, seen, history, listings, others>>

Lose ==
  /\ up # <<>> /\ up' = Tail(up) /\ Fault
  /\ UNCHANGED <<dir, ground, history, listings, others>>

-----------------------------------------------------------------------------

Init ==
  /\ dir \in {d \in [Slots -> {"free"} \cup Kinds \cup Leftover] :
                \A p \in Leftover : \E j \in Slots : d[j] = p
                                      /\ \A i \in Slots \ {j} : d[i] # p}
  /\ up = <<>> /\ phase = "idle" /\ start = 0 /\ seen = {}
  /\ page = [lines |-> {}, count |-> 0, last |-> 0, name |-> CHOOSE p \in Pages : TRUE]
  /\ stable = {} /\ base = {} /\ gone = {} /\ spared = TRUE
  /\ listings = 0 /\ faults = 0 /\ others = 0

Satellite == ServeList \/ FailList \/ ServeLate \/ ServeRm
Ground    == TakePage \/ GiveUp \/ Timeout

Next == Satellite \/ Ground \/ Ls2sd \/ OthersAct \/ Lose

Spec == Init /\ [][Next]_vars

(* The server task answers whatever arrives, the ground command goes on,   *)
(* and the timeout of a transaction that gets no answer expires.           *)
FairSpec == Spec /\ WF_vars(Satellite) /\ WF_vars(Ground)
-----------------------------------------------------------------------------
(* Properties. *)

(* Every variable has its type, a request the satellite would answer is    *)
(* the one the ground waits for, and no file is in the directory twice.    *)
TypeOK ==
  /\ dir \in [Slots -> {"free", "dot", "file"} \cup Pages]
  /\ up \in Seq(Packet)
  /\ phase \in {"idle", "wait", "download", "done", "failed"}
  /\ start \in Nat /\ page \in Page
  /\ seen \subseteq Slots /\ stable \subseteq Visible
  /\ base \subseteq Slots /\ gone \subseteq base /\ spared \in BOOLEAN
  /\ listings \in Nat /\ faults \in Nat /\ others \in Nat
  /\ \A i \in 1 .. Len(up) :
       up[i].kind = "list" => phase = "wait" /\ up[i].from = start /\ i = Len(up)
  /\ \A i, j \in Slots : dir[i] = dir[j] /\ dir[i] \in Pages => i = j

(* A listing that finishes has shown every file that was on the card all   *)
(* the time, although numbers shift while it runs: the one line a page     *)
(* repeats makes up for one file removed since the page before.            *)
Complete == phase = "done" /\ spared => stable \subseteq seen

(* Every page file that a listing leaves on the card is the work of a lost *)
(* packet, a late reply or a failed call of its own.                       *)
FewLeftovers ==
  ~Busy /\ up = <<>>
    => Cardinality({j \in Slots : dir[j] \in Pages \ Leftover}) <= faults

(* The names that readdir returns end in one that begins with a dot. *)
EndsInDot == \E j \in Slots : dir[j] = "dot" /\ \A i \in Slots : i > j => dir[i] = "free"

(* The loop of ls2sd ends, or the directory comes to end in a name that is *)
(* counted and not listed.                                                 *)
ListingEnds == Busy ~> ~Busy \/ EndsInDot
=============================================================================
