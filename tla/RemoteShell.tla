----------------------------- MODULE RemoteShell -----------------------------
(***************************************************************************)
(* Commands sent to the satellite as text: typed at the prompt of "remote" *)
(* (cmd_testtools_packet), read from a batch file (parse_file, parse_line),*)
(* or made by a program (send_remote_shell_command without a response),    *)
(* all in csp-term/testtools.c; and the satellite that runs them           *)
(* (OBC_PORT_CUSTOM_REMOTE_SHELL in satellite/task_server.c, remoteShell   *)
(* in satellite/remoteshell.c).                                            *)
(*                                                                         *)
(* Texts are sequences of characters, because delimiters in them are what  *)
(* goes wrong.  The link is a queue in each direction.  A transaction that *)
(* has been given up is served all the same, and its reply finds no        *)
(* connection.                                                             *)
(***************************************************************************)
EXTENDS Integers, FiniteSets, Sequences

CONSTANTS
  Chars,      \* the characters there are
  Files,      \* what may be in a batch file: sequences of characters
  Keys,       \* the characters an operator types
  Removals,   \* commands that ls2sd sends without waiting
  Tails,      \* what may follow a command whose end is cut off
  Room,       \* bytes of a command in a packet, and of the prompt's buffer
  Results,    \* what command_run returns
  Waiting, Unknown,  \* what a caller knows before, and without a result
  MaxOps,     \* bound: files, prompts and removals
  MaxFaults   \* bound: packets lost and transactions given up too early

Refused == -1     \* what remoteShell returns without running anything
Cleared == 0      \* returned in the reply that send_remote_shell_command clears
Preset  == -43    \* returned in the reply that cmd_testtools_packet prepares
Nothing == <<"nothing">>  \* the text that is run when none is

ASSUME RemoteShellAssumption ==
  /\ Room \in Nat \ {0, 1} /\ MaxOps \in Nat /\ MaxFaults \in Nat
  /\ Results # {} /\ Results \subseteq Int
  /\ Tails # {} /\ Files \cup Removals \cup Tails \subseteq Seq(Chars)
  /\ Keys \cup {"<", ">", "|", " "} \subseteq Chars
  /\ Waiting # Unknown /\ {Waiting, Unknown} \cap (Results \cup {Refused}) = {}

VARIABLES
  pc,      \* the ground's console: "idle", "batch", "prompt", "confirm", "await"
  back,    \* where it goes on after a transaction: "batch" or "idle"
  file,    \* the batch file in pc_batch_buf
  pos,     \* characters of it handled
  current, \* the text in current_line, one buffer for all its lines
  done,    \* history: what became of each of its lines
  typed,   \* the characters of command in front of the prompt's cursor
  up,      \* commands on their way to the satellite
  down,    \* replies on their way back
  asked,   \* history: the text of every call
  ran,     \* history: what the satellite has done
  shown,   \* status and returned as printed on the ground, for every call
  ops, faults

batch   == <<file, pos, current, done>>
link    == <<up, down>>
history == <<asked, ran, shown>>
vars    == <<pc, back, batch, typed, link, history, ops, faults>>

Fault == faults < MaxFaults /\ faults' = faults + 1

-----------------------------------------------------------------------------
(* Texts. *)

(* strchr and strcspn: the first place of one of the characters, or 0. *)
Find(s, chars) ==
  IF \E i \in DOMAIN s : s[i] \in chars
    THEN CHOOSE i \in DOMAIN s : s[i] \in chars /\ \A j \in 1 .. i - 1 : s[j] \notin chars
    ELSE 0

From(s, i) == SubSeq(s, i, Len(s))

Replaced(s, old, new) == [i \in DOMAIN s |-> IF s[i] = old THEN new ELSE s[i]]

(* A text as both senders frame it. *)
Wire(text) == <<"<">> \o Replaced(text, " ", "|") \o <<">">>

(* Mutant: the whole text is copied. *)
Whole(wire) == wire

(* command_text holds Room bytes. *)
InPacket(wire) == IF Len(wire) <= Room THEN wire ELSE SubSeq(wire, 1, Room)

(* What remoteShell runs.  When the end has been cut off, strchr searches  *)
(* what lies behind command_text.                                          *)
Readings(wire) ==
  LET rest == From(wire, Find(wire, {"<"}) + 1)
      end  == Find(rest, {">"})
  IN  IF Find(wire, {"<"}) = 0 THEN {Nothing}
      ELSE IF end # 0 THEN {Replaced(SubSeq(rest, 1, end - 1), "|", " ")}
      ELSE {Nothing} \cup {Replaced(rest \o t, "|", " ") : t \in Tails}

(* parse_line looks for the first of these.  What is in front of the first *)
(* character of the buffer is no letter (command[-1] is part of the size   *)
(* that the heap keeps there).                                             *)
Key(line) == Find(line, {"#", "["})

Receiver(line) ==
  IF Key(line) < 2 \/ line[Key(line)] # "[" THEN "nobody"
  ELSE CASE line[Key(line) - 1] = "S" -> "satellite"
         [] line[Key(line) - 1] = "G" -> "ground"
         [] OTHER -> "nobody"

(* parse_remote_command and parse_local_command: the text ends at the      *)
(* first closing bracket, and without one the line is an error.            *)
Closing(line) == Find(From(line, Key(line)), {"]"})
Bracketed(line) == SubSeq(From(line, Key(line)), 2, Closing(line) - 1)

Outcome(line) ==
  IF Receiver(line) = "nobody" \/ Closing(line) = 0
    THEN [to |-> "nobody", text |-> Nothing]
    ELSE [to |-> Receiver(line), text |-> Bracketed(line)]

(* They work in place: what is left of the line in its buffer.             *)
Leavings(line) ==
  LET end == IF Closing(line) = 0 THEN From(line, Key(line) + 1) ELSE Bracketed(line)
  IN  CASE Receiver(line) = "ground" -> end
        [] Receiver(line) = "satellite" /\ Closing(line) = 0 -> <<"<">> \o end
        [] Receiver(line) = "satellite" /\ Closing(line) # 0 -> Wire(end)
        [] OTHER -> line

(* Mutant: the buffer is not cleared for the next line. *)
NotZeroed(buffer) == buffer

(* memset. *)
Zeroed(buffer) == <<>>

(* memcpy: behind the line stands what stood there. *)
Copied(buffer, line) == line \o SubSeq(buffer, Len(line) + 1, Len(buffer))

-----------------------------------------------------------------------------
(* The ground. *)

Open(i) == i \in DOMAIN shown /\ shown[i].status = "open"

(* csp_transaction with a command; default is what the reply holds before. *)
Send(text, default, then) ==
  /\ asked' = Append(asked, text)
  /\ up' = Append(up, [call |-> Len(asked) + 1, text |-> InPacket(Wire(text))])
  /\ shown' = Append(shown, [status |-> "open", returned |-> default])
  /\ pc' = "await" /\ back' = then
  /\ UNCHANGED <<down, ran>>

Start == pc = "idle" /\ ops < MaxOps /\ ops' = ops + 1

(* parse_file reads the whole file. *)
StartBatch ==
  /\ Start /\ pc' = "batch"
  /\ file' \in Files /\ pos' = 0 /\ current' = <<>> /\ done' = <<>>
  /\ UNCHANGED <<back, typed, link, history, faults>>

(* The condition of its loop: pc_end is the newline before pos, and at     *)
(* first the beginning of the buffer.                                      *)
MoreLines == \E k \in 2 .. Len(file) : k > pos /\ file[k] = "\n"

LineEnd == pos + Find(From(file, pos + 1), {"\n"})
Line    == SubSeq(file, pos + 1, LineEnd - 1)

(* One turn of the loop: the line is copied to the one buffer there is; if *)
(* it is for the satellite it is sent and waited for, any other has been   *)
(* dealt with at once.                                                     *)
DoLine ==
  /\ pc = "batch" /\ MoreLines /\ pos' = LineEnd
  /\ \E line \in {Copied(Zeroed(current), Line)} : \E o \in {Outcome(line)} :
       /\ current' = Leavings(line) /\ done' = Append(done, o)
       /\ \/ o.to = "satellite" /\ Send(o.text, Cleared, "batch")
          \/ o.to # "satellite" /\ UNCHANGED <<pc, back, link, history>>
  /\ UNCHANGED <<file, typed, ops, faults>>

(* The buffers are freed. *)
EndBatch ==
  /\ pc = "batch" /\ ~MoreLines /\ pc' = "idle"
  /\ file' = <<>> /\ pos' = 0 /\ current' = <<>> /\ done' = <<>>
  /\ UNCHANGED <<back, typed, link, history, ops, faults>>

StartPrompt ==
  /\ Start /\ pc' = "prompt"
  /\ UNCHANGED <<back, batch, typed, link, history, faults>>

TypeKey(c) ==
  /\ pc = "prompt" /\ Len(typed) < Room /\ typed' = Append(typed, c)
  /\ UNCHANGED <<pc, back, batch, link, history, ops, faults>>

Backspace ==
  /\ pc = "prompt" /\ typed # <<>> /\ typed' = SubSeq(typed, 1, Len(typed) - 1)
  /\ UNCHANGED <<pc, back, batch, link, history, ops, faults>>

Enter ==
  /\ pc = "prompt" /\ pc' = "confirm"
  /\ UNCHANGED <<back, batch, typed, link, history, ops, faults>>

(* The buffer is freed after the transaction, which has copied it. *)
SendTyped == Send(typed, Preset, "idle") /\ typed' = <<>>

(* Return once more sends the command; any other key does not. *)
Confirm ==
  /\ pc = "confirm" /\ SendTyped
  /\ UNCHANGED <<batch, ops, faults>>

Refuse ==
  /\ pc = "confirm" /\ pc' = "idle" /\ typed' = <<>>
  /\ UNCHANGED <<back, batch, link, history, ops, faults>>

(* Control-X leaves the loop, passes over the question, and sends. *)
ControlX ==
  /\ pc = "prompt" /\ SendTyped
  /\ UNCHANGED <<batch, ops, faults>>

(* Without a response csp_transaction returns once it has sent. *)
Remove(text) ==
  /\ Start
  /\ asked' = Append(asked, text)
  /\ up' = Append(up, [call |-> Len(asked) + 1, text |-> InPacket(Wire(text))])
  /\ shown' = Append(shown, [status |-> "sent", returned |-> Cleared])
  /\ UNCHANGED <<pc, back, batch, typed, down, ran, faults>>

(* Mutant: the reply that is there belongs to the call that waits. *)
TakeAny ==
  /\ down # <<>> /\ down' = Tail(down)
  /\ \/ /\ Open(Len(shown))
        /\ shown' = [shown EXCEPT ![Len(shown)] = [status |-> "size", returned |-> Head(down).result]]
        /\ pc' = back
     \/ ~Open(Len(shown)) /\ UNCHANGED <<pc, shown>>
  /\ UNCHANGED <<back, batch, typed, up, asked, ran, ops, faults>>

(* A reply arrives: at the connection that waits for it, or nowhere. *)
Receive ==
  /\ down # <<>> /\ down' = Tail(down)
  /\ \/ /\ Open(Head(down).call)
        /\ shown' = [shown EXCEPT ![Head(down).call] =
                       [status |-> "size", returned |-> Head(down).result]]
        /\ pc' = back
     \/ ~Open(Head(down).call) /\ UNCHANGED <<pc, shown>>
  /\ UNCHANGED <<back, batch, typed, up, asked, ran, ops, faults>>

InFlight(i) ==
  \/ \E k \in DOMAIN up : up[k].call = i
  \/ \E k \in DOMAIN down : down[k].call = i

(* Mutant: a transaction without an answer waits on. *)
TimeoutInFlight ==
  /\ pc = "await" /\ InFlight(Len(asked)) /\ Fault
  /\ shown' = [shown EXCEPT ![Len(asked)].status = "none"] /\ pc' = back
  /\ UNCHANGED <<back, batch, typed, link, asked, ran, ops>>

(* The transaction is given up: command or reply were lost, or are late.   *)
(* What the reply held before is printed as what it returned.              *)
Timeout ==
  /\ pc = "await"
  /\ \/ InFlight(Len(asked)) /\ Fault
     \/ ~InFlight(Len(asked)) /\ UNCHANGED faults
  /\ shown' = [shown EXCEPT ![Len(asked)].status = "none"] /\ pc' = back
  /\ UNCHANGED <<back, batch, typed, link, asked, ran, ops>>

-----------------------------------------------------------------------------
(* The satellite and the link. *)

(* The server's case for the port: run the text, return the result in the  *)
(* same packet.                                                            *)
Serve ==
  /\ up # <<>> /\ up' = Tail(up)
  /\ \E text \in Readings(Head(up).text) :
     \E result \in IF text = Nothing THEN {Refused} ELSE Results :
       /\ ran' = Append(ran, [call |-> Head(up).call, text |-> text, result |-> result])
       /\ down' = Append(down, [call |-> Head(up).call, result |-> result])
  /\ UNCHANGED <<pc, back, batch, typed, asked, shown, ops, faults>>

Lose ==
  /\ Fault
  /\ \/ up # <<>> /\ up' = Tail(up) /\ UNCHANGED down
     \/ down # <<>> /\ down' = Tail(down) /\ UNCHANGED up
  /\ UNCHANGED <<pc, back, batch, typed, history, ops>>

-----------------------------------------------------------------------------

Init ==
  /\ pc = "idle" /\ back = "idle"
  /\ file = <<>> /\ pos = 0 /\ current = <<>> /\ done = <<>>
  /\ typed = <<>>
  /\ up = <<>> /\ down = <<>>
  /\ asked = <<>> /\ ran = <<>> /\ shown = <<>>
  /\ ops = 0 /\ faults = 0

Operator ==
  \/ StartBatch \/ StartPrompt \/ (\E c \in Keys : TypeKey(c)) \/ Backspace
  \/ Enter \/ Confirm \/ Refuse \/ ControlX \/ (\E t \in Removals : Remove(t))

Ground == DoLine \/ EndBatch \/ Receive \/ Timeout

Next == Operator \/ Ground \/ Serve \/ Lose

Spec == Init /\ [][Next]_vars

(* The server task answers whatever arrives; the ground's loop goes on and *)
(* the timeout of a transaction expires.                                   *)
FairSpec == Spec /\ WF_vars(Serve) /\ WF_vars(Ground)
-----------------------------------------------------------------------------
(* Properties. *)

(* Every variable has its type, and the console waits exactly while its    *)
(* last call is open.                                                      *)
TypeOK ==
  /\ pc \in {"idle", "batch", "prompt", "confirm", "await"}
  /\ back \in {"idle", "batch"}
  /\ pos \in 0 .. Len(file)
  /\ Len(typed) <= Room
  /\ \A k \in DOMAIN up : up[k].call \in DOMAIN asked /\ Len(up[k].text) <= Room
  /\ \A k \in DOMAIN down : down[k].call \in DOMAIN asked
  /\ \A k \in DOMAIN ran : ran[k].call \in DOMAIN asked
  /\ DOMAIN shown = DOMAIN asked
  /\ \A i \in DOMAIN shown : shown[i].status \in {"open", "size", "none", "sent"}
  /\ \A i \in DOMAIN shown : Open(i) <=> pc = "await" /\ i = Len(shown)
  /\ ops \in 0 .. MaxOps /\ faults \in 0 .. MaxFaults

(* The texts that keep their meaning: the whole frame fits a packet, and   *)
(* they use neither the character that ends it nor the one that stands for *)
(* a space.                                                                *)
Plain(text) == Len(text) + 2 <= Room /\ \A i \in DOMAIN text : text[i] \notin {">", "|"}

(* What the ground knows of each call: a returned value counts only with   *)
(* the status that a reply gives.                                          *)
Told == [i \in DOMAIN shown |->
  CASE shown[i].status = "open" -> Waiting
    [] shown[i].status = "size" -> shown[i].returned
    [] OTHER -> Unknown]

Calls == INSTANCE RemoteCalls WITH told <- Told

(* The prompt, the batch runner and the programs keep the promise of       *)
(* RemoteCalls: one call at a time, each run at most once, in order, with  *)
(* the text meant if that is plain, and a result told belongs to its call. *)
KeepsPromise == Calls!Spec

(* How a line of a batch file is meant to be read: a letter, a text in     *)
(* brackets, and no comment sign or other bracket in front of it.          *)
Names(line, letter, k, e) ==
  /\ 1 < k /\ k < e
  /\ line[k] = "[" /\ line[e] = "]" /\ line[k - 1] = letter
  /\ \A i \in 1 .. k - 1 : line[i] \notin {"#", "["}
  /\ \A i \in k .. e - 1 : line[i] # "]"

Says(line, letter, text) ==
  \E k, e \in DOMAIN line : Names(line, letter, k, e) /\ text = SubSeq(line, k + 1, e - 1)

Ends == {k \in DOMAIN file : file[k] = "\n"}

(* The line that ends at k. *)
LineTo(k) ==
  SubSeq(file, 1 + (CHOOSE j \in Ends \cup {0} : j < k /\ \A i \in Ends : i <= j \/ i >= k), k - 1)

(* The j-th newline. *)
Newline(j) == CHOOSE k \in Ends : Cardinality({i \in Ends : i <= k}) = j

(* A batch file is followed line by line, whatever calls fail on the way   *)
(* and whatever the line before left in the buffer: each line that a       *)
(* newline has ended, in order, has gone to the receiver it names with the *)
(* text in its brackets, and one that names none has done nothing.  When   *)
(* the runner stops it has handled every such line, unless the file's only *)
(* newline is its first character.  What stands behind the last newline is *)
(* no line to it, and is not run (testtools.c:669).                        *)
FileFollowed ==
  /\ Len(done) <= Cardinality(Ends)
  /\ \A j \in DOMAIN done :
       LET line == LineTo(Newline(j)) IN
         /\ done[j].to = "satellite" <=> Says(line, "S", done[j].text)
         /\ done[j].to = "ground" <=> Says(line, "G", done[j].text)
         /\ done[j].to = "nobody" =>
              ~ \E letter \in {"S", "G"}, k, e \in DOMAIN line : Names(line, letter, k, e)
  /\ pc = "batch" /\ ~MoreLines =>
       Ends = {1} \/ Len(done) = Cardinality(Ends)

(* A batch file comes to its end, whatever the satellite does. *)
BatchEnds == pc = "batch" ~> pc = "idle"
=============================================================================
