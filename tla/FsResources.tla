----------------------------- MODULE FsResources -----------------------------
(***************************************************************************)
(* What the commands on files take and give back: files, directories and   *)
(* memory, on each of their error paths.  The "fs" commands of the         *)
(* satellite (satellite/cmd_fs.c) run in the console's task or, through    *)
(* the remote shell, in the server's; the commands of the ground that hold *)
(* something (csp-term/testtools.c) in that of its terminal.               *)
(*                                                                         *)
(* A command is a table of steps, its labels those of the code where it    *)
(* has any: what is called, what the call needs, and where it goes on when *)
(* the call works out and when it does not.  Any call may fail, each       *)
(* allocation included, whether the code looks at its result or not.       *)
(* Contents of files are left out, and so is how often a loop turns.       *)
(***************************************************************************)
EXTENDS Naturals, FiniteSets

CONSTANTS
  MaxCommands  \* bound: commands started

ASSUME FsAssumption == MaxCommands \in Nat

VARIABLES
  running,  \* the command of each task, or "none"
  at,       \* the label of its next step
  ptrs,     \* its pointers that are not NULL
  held,     \* what it has taken and not given back
  lost,     \* history: a command, the label it ended at, what it held there
  commands

vars == <<running, at, ptrs, held, lost, commands>>

Tasks == {"console", "server", "ground"}

-----------------------------------------------------------------------------
(* Steps.  "ok" and "no" are the labels to go on at. *)

Call(do, on, uses, ok, no) == [do |-> do, on |-> on, uses |-> uses, ok |-> ok, no |-> no]

Open(x, ok, no)    == Call("take", x, {}, ok, no)     \* fopen, opendir, malloc, calloc
Try(uses, ok, no)  == Call("try", "", uses, ok, no)
Loop(uses, ok, no) == Try(uses, ok, no)               \* one more turn, or the end
Key(uses, ok, no)  == Try(uses, ok, no)               \* waits for a character
Show(x, next)      == Call("show", x, {x}, next, next)  \* printf("%s"), NULL or not
Close(x, next)     == Call("give", x, {x}, next, next)
IfSet(x, yes, no)  == Call("test", x, {}, yes, no)

(* Mutant: the pointer stays as it was. *)
NotNull(x, next) == Call("test", x, {}, next, next)

Null(x, next) == Call("null", x, {}, next, next)

-----------------------------------------------------------------------------
(* Commands of the satellite. *)

Test == [
  start     |-> Open("fd", "data_w", "failed"),
  data_w    |-> Open("data_w", "write", "err_open"),
  write     |-> Try({"fd", "data_w"}, "data_r", "err_write"),
  data_r    |-> Open("data_r", "read", "err_write"),
  read      |-> Try({"fd", "data_r"}, "compare", "err_read"),
  compare   |-> Try({"data_w", "data_r"}, "err_read", "err_read"),
  err_read  |-> Close("data_r", "err_write"),
  err_write |-> Close("data_w", "err_open"),
  err_open  |-> Close("fd", "ok")]

(* For a directory among the entries objects_under opens that one too. *)
Ls == [
  start |-> Open("dirp", "next", "failed"),
  next  |-> Loop({"dirp"}, "entry", "close"),
  entry |-> Try({"dirp"}, "under", "next"),
  under |-> Open("sub", "count", "next"),
  count |-> Try({"sub"}, "leave", "leave"),
  leave |-> Close("sub", "next"),
  close |-> Close("dirp", "ok")]

Mkdir == [start |-> Try({}, "ok", "ok")]

Rm == [
  start  |-> Try({}, "remove", "failed"),
  remove |-> Try({}, "ok", "ok")]

Mv == [start |-> Try({}, "ok", "ok")]

Touch == [
  start |-> Open("fd", "close", "ok"),
  close |-> Close("fd", "ok")]

Cat == [
  start |-> Open("fd", "read", "failed"),
  read  |-> Loop({"fd"}, "read", "close"),
  close |-> Close("fd", "ok")]

(* A character is written, or ends the command, as a failed write does. *)
Append == [
  start |-> Open("fd", "key", "ok"),
  key   |-> Key({"fd"}, "put", "close"),
  put   |-> Try({"fd"}, "key", "close"),
  close |-> Close("fd", "ok")]

Chksum == [
  start |-> Open("fp", "read", "failed"),
  read  |-> Loop({"fp"}, "read", "close"),
  close |-> Close("fp", "ok")]

(* Mutant: a file without a size is left open. *)
HexdumpLeft == [
  start    |-> Open("fp", "stat", "ok"),
  stat     |-> Try({"fp"}, "buf", "ok"),
  buf      |-> Open("buf", "read", "err_stat"),
  read     |-> Try({"fp", "buf"}, "err", "err"),
  err      |-> Close("buf", "err_stat"),
  err_stat |-> Close("fp", "ok")]

Hexdump == [
  start    |-> Open("fp", "stat", "ok"),
  stat     |-> Try({"fp"}, "buf", "err_stat"),
  buf      |-> Open("buf", "read", "err_stat"),
  read     |-> Try({"fp", "buf"}, "dump", "err"),
  dump     |-> Try({"buf"}, "err", "err"),
  err      |-> Close("buf", "err_stat"),
  err_stat |-> Close("fp", "ok")]

(* lzo_compress. *)
Compress == [
  start        |-> Open("fd", "create", "failed"),
  create       |-> Open("comp", "stat", "close_fd"),
  close_fd     |-> Close("fd", "failed"),
  stat         |-> Try({"fd"}, "inbuf", "err_stat"),
  inbuf        |-> Open("inbuf", "read", "err_stat"),
  read         |-> Try({"fd", "inbuf"}, "outbuf", "err_read"),
  outbuf       |-> Open("outbuf", "pack", "err_read"),
  pack         |-> Try({"inbuf", "outbuf"}, "write", "err_compress"),
  write        |-> Try({"outbuf", "comp"}, "free_in", "err_compress"),
  free_in      |-> Close("inbuf", "free_out"),
  free_out     |-> Close("outbuf", "close_in"),
  close_in     |-> Close("fd", "close_out"),
  close_out    |-> Close("comp", "ok"),
  err_compress |-> Close("outbuf", "err_read"),
  err_read     |-> Close("inbuf", "err_stat"),
  err_stat     |-> Close("fd", "err_comp"),
  err_comp     |-> Close("comp", "failed")]

(* fs_ls_to_sd, for the command ls2sd and for the listing service.  Its    *)
(* error path gives back what the pointers say is taken.                   *)
LsToSd == [
  start      |-> Open("dirp", "inbuf", "failed"),
  inbuf      |-> Open("inbuf", "head", "err"),
  head       |-> Try({"inbuf"}, "next", "err"),
  next       |-> Loop({"dirp", "inbuf"}, "entry", "closedir"),
  entry      |-> Try({"dirp"}, "under", "line"),
  under      |-> Open("sub", "leave", "line"),
  leave      |-> Close("sub", "line"),
  line       |-> Try({"inbuf"}, "next", "err"),
  closedir   |-> Close("dirp", "no_dirp"),
  no_dirp    |-> Null("dirp", "outbuf"),
  outbuf     |-> Open("outbuf", "pack", "err"),
  pack       |-> Try({"inbuf", "outbuf"}, "create", "err"),
  create     |-> Open("comp", "write", "err"),
  write      |-> Try({"outbuf", "comp"}, "fclose", "err"),
  fclose     |-> Close("comp", "no_comp"),
  no_comp    |-> Null("comp", "free_out"),
  free_out   |-> Close("outbuf", "free_in"),
  free_in    |-> Close("inbuf", "ok"),
  err        |-> IfSet("dirp", "err_dirp", "err2"),
  err_dirp   |-> Close("dirp", "err2"),
  err2       |-> IfSet("comp", "err_comp", "err3"),
  err_comp   |-> Close("comp", "err3"),
  err3       |-> IfSet("inbuf", "err_inbuf", "err4"),
  err_inbuf  |-> Close("inbuf", "err4"),
  err4       |-> IfSet("outbuf", "err_outbuf", "failed"),
  err_outbuf |-> Close("outbuf", "failed")]

-----------------------------------------------------------------------------
(* Commands of the ground. *)

(* The labels a command ends at: with an error of its own where one path   *)
(* is to be told from the others.                                          *)
Ends == {"ok", "failed", "refused", "no_message", "not_opened"}

(* The prompt.  Without a buffer it is asked for with each character that  *)
(* is kept; only then is the cursor past 0, and the command copied.  The   *)
(* command is shown, there or not, before the question.  Who answers that  *)
(* with another key than return leaves without giving the buffer back, and *)
(* so does a failure to allocate the message.                              *)
Packet == [
  start        |-> Open("command", "type", "type"),
  type         |-> Key({}, "char", "leave"),
  char         |-> Try({}, "keep", "type"),
  keep         |-> IfSet("command", "put", "again"),
  again        |-> Open("command", "put", "type"),
  put          |-> Try({"command"}, "type", "type"),
  leave        |-> Try({}, "question", "message"),
  question     |-> Show("command", "answer"),
  answer       |-> Key({}, "message", "refused"),
  message      |-> Open("message", "copy", "no_message"),
  copy         |-> IfSet("command", "chars", "send"),
  chars        |-> Loop({"command", "message"}, "chars", "send"),
  send         |-> Try({"message"}, "free_message", "free_message"),
  free_message |-> Close("message", "free_command"),
  free_command |-> IfSet("command", "free", "ok"),
  free         |-> Close("command", "ok")]

(* parse_file.  The buffers are allocated before the file is opened, and   *)
(* are forgotten if it cannot be; only buf is looked at before its use.    *)
(* The lines are those of the file; each is cleared and copied, and may    *)
(* need a reply buffer (send_remote_shell_command).                        *)
ParseFile == [
  start      |-> Open("buf", "line", "line"),
  line       |-> Open("line", "response", "response"),
  response   |-> Open("response", "open", "open"),
  open       |-> Open("fp", "size", "not_opened"),
  size       |-> Try({"fp"}, "got_buf", "err"),
  got_buf    |-> IfSet("buf", "read", "err"),
  read       |-> Try({"fp", "buf"}, "close", "err"),
  close      |-> Close("fp", "no_fp"),
  no_fp      |-> Null("fp", "next"),
  next       |-> Loop({"buf"}, "clear", "err"),
  clear      |-> Try({"buf", "line", "response"}, "reply", "next"),
  reply      |-> Open("reply", "transact", "transact"),
  transact   |-> Try({"line", "reply"}, "free_reply", "free_reply"),
  free_reply |-> Close("reply", "next"),
  err        |-> IfSet("line", "err_line", "err2"),
  err_line   |-> Close("line", "err2"),
  err2       |-> IfSet("response", "err_resp", "err3"),
  err_resp   |-> Close("response", "err3"),
  err3       |-> IfSet("buf", "err_buf", "err4"),
  err_buf    |-> Close("buf", "err4"),
  err4       |-> IfSet("fp", "err_fp", "ok"),
  err_fp     |-> Close("fp", "ok")]

(* cmd_testtools_ls2sd with decompress_file_to_buffer: its labels err_read *)
(* and err_open are reached with a result and without one.                 *)
Ls2sd == [
  start      |-> Open("send", "reply", "reply"),
  reply      |-> Open("reply", "out", "out"),
  out        |-> Open("out", "got_send", "got_send"),
  got_send   |-> IfSet("send", "got_reply", "err"),
  got_reply  |-> IfSet("reply", "got_out", "err"),
  got_out    |-> IfSet("out", "ask", "err"),
  ask        |-> Try({"send", "reply"}, "download", "err"),
  download   |-> Try({"reply"}, "temp", "err"),
  temp       |-> Open("dst_temp", "header", "err"),
  header     |-> Try({"dst_temp"}, "open", "no_open"),
  open       |-> Open("fp", "read", "no_open"),
  read       |-> Try({"fp", "dst_temp"}, "unpack", "no_read"),
  unpack     |-> Try({"dst_temp", "out"}, "err_read", "no_read"),
  err_read   |-> Close("fp", "err_open"),
  err_open   |-> Close("dst_temp", "show"),
  no_read    |-> Close("fp", "no_open"),
  no_open    |-> Close("dst_temp", "err"),
  show       |-> Try({"out"}, "more", "err"),
  more       |-> Loop({"out"}, "ask", "err"),
  err        |-> IfSet("out", "err_out", "err2"),
  err_out    |-> Close("out", "err2"),
  err2       |-> IfSet("send", "err_send", "err3"),
  err_send   |-> Close("send", "err3"),
  err3       |-> IfSet("reply", "err_reply", "ok"),
  err_reply  |-> Close("reply", "ok")]

OfSatellite == {"testfs", "ls", "mkdir", "rm", "mv", "touch", "cat", "append",
                "chksum", "hexdump", "compress", "ls2sd"}
OfGround == {"remote", "batch_file", "gnd_ls2sd"}

Program == [
  testfs |-> Test, ls |-> Ls, mkdir |-> Mkdir, rm |-> Rm, mv |-> Mv,
  touch |-> Touch, cat |-> Cat, append |-> Append, chksum |-> Chksum,
  hexdump |-> Hexdump, compress |-> Compress, ls2sd |-> LsToSd,
  remote |-> Packet, batch_file |-> ParseFile, gnd_ls2sd |-> Ls2sd]

CommandsOf(t) == IF t = "ground" THEN OfGround ELSE OfSatellite

-----------------------------------------------------------------------------
(* Running a command. *)

Idle(t)   == running[t] = "none"
AtEnd(t)  == ~Idle(t) /\ at[t] \in Ends
AtStep(t) == ~Idle(t) /\ at[t] \notin Ends
Step(t)   == Program[running[t]][at[t]]
Ready(t)  == Step(t).do = "show" \/ Step(t).uses \subseteq held[t]
Doing(t, do) == AtStep(t) /\ Step(t).do = do /\ Ready(t)
Go(t, label) == at' = [at EXCEPT ![t] = label]

Start(t, c) ==
  /\ Idle(t) /\ commands < MaxCommands /\ commands' = commands + 1
  /\ running' = [running EXCEPT ![t] = c] /\ Go(t, "start")
  /\ UNCHANGED <<ptrs, held, lost>>

(* Mutant: the result is not kept. *)
TakeOnly(t) ==
  /\ Doing(t, "take")
  /\ held' = [held EXCEPT ![t] = @ \cup {Step(t).on}]
  /\ Go(t, Step(t).ok)
  /\ UNCHANGED <<running, ptrs, lost, commands>>

(* A pointer that is overwritten forgets what it held. *)
Take(t) ==
  /\ Doing(t, "take")
  /\ lost' = lost \cup {<<running[t], at[t], x>> : x \in held[t] \cap {Step(t).on}}
  /\ \/ /\ held' = [held EXCEPT ![t] = @ \cup {Step(t).on}]
        /\ ptrs' = [ptrs EXCEPT ![t] = @ \cup {Step(t).on}]
        /\ Go(t, Step(t).ok)
     \/ /\ held' = [held EXCEPT ![t] = @ \ {Step(t).on}]
        /\ ptrs' = [ptrs EXCEPT ![t] = @ \ {Step(t).on}]
        /\ Go(t, Step(t).no)
  /\ UNCHANGED <<running, commands>>

TryCall(t) ==
  /\ Doing(t, "try") \/ Doing(t, "show")
  /\ Go(t, Step(t).ok) \/ Go(t, Step(t).no)
  /\ UNCHANGED <<running, ptrs, held, lost, commands>>

Give(t) ==
  /\ Doing(t, "give") /\ held' = [held EXCEPT ![t] = @ \ {Step(t).on}]
  /\ Go(t, Step(t).ok)
  /\ UNCHANGED <<running, ptrs, lost, commands>>

SetNull(t) ==
  /\ Doing(t, "null") /\ ptrs' = [ptrs EXCEPT ![t] = @ \ {Step(t).on}]
  /\ Go(t, Step(t).ok)
  /\ UNCHANGED <<running, held, lost, commands>>

TestSet(t) ==
  /\ Doing(t, "test")
  /\ Go(t, IF Step(t).on \in ptrs[t] THEN Step(t).ok ELSE Step(t).no)
  /\ UNCHANGED <<running, ptrs, held, lost, commands>>

(* The command's variables go; what it still holds stays taken. *)
Return(t) ==
  /\ AtEnd(t) /\ running' = [running EXCEPT ![t] = "none"]
  /\ lost' = lost \cup {<<running[t], at[t], x>> : x \in held[t]}
  /\ held' = [held EXCEPT ![t] = {}] /\ ptrs' = [ptrs EXCEPT ![t] = {}]
  /\ Go(t, "ok") /\ UNCHANGED commands

(* A step on what is not there ends the process, and with it goes all it   *)
(* holds.                                                                  *)
Crash(t) ==
  /\ AtStep(t) /\ ~Ready(t) /\ running' = [running EXCEPT ![t] = "none"]
  /\ held' = [held EXCEPT ![t] = {}] /\ ptrs' = [ptrs EXCEPT ![t] = {}]
  /\ Go(t, "ok") /\ UNCHANGED <<lost, commands>>

-----------------------------------------------------------------------------

Init ==
  /\ running = [t \in Tasks |-> "none"] /\ at = [t \in Tasks |-> "ok"]
  /\ ptrs = [t \in Tasks |-> {}] /\ held = [t \in Tasks |-> {}]
  /\ lost = {} /\ commands = 0

Proceed(t) == Take(t) \/ TryCall(t) \/ Give(t) \/ SetNull(t) \/ TestSet(t) \/ Return(t) \/ Crash(t)

Next == \E t \in Tasks : Proceed(t) \/ \E c \in CommandsOf(t) : Start(t, c)

Spec == Init /\ [][Next]_vars
-----------------------------------------------------------------------------
(* Properties. *)

(* Every variable has its type, a label belongs to the command, and what   *)
(* is held has a pointer to it.                                            *)
TypeOK ==
  /\ \A t \in Tasks :
       /\ running[t] \in CommandsOf(t) \cup {"none"}
       /\ AtStep(t) => at[t] \in DOMAIN Program[running[t]]
       /\ held[t] \subseteq ptrs[t]
  /\ commands \in 0 .. MaxCommands

(* The steps that use the result of an allocation nobody looked at: the    *)
(* command shown at the prompt (testtools.c:185), the line and the reply   *)
(* buffer of a batch file cleared for its first line (:674), and the       *)
(* answer's buffer read after a transaction (:515).                        *)
Unchecked == {<<"remote", "question">>, <<"batch_file", "clear">>, <<"batch_file", "transact">>}

(* Whatever calls fail, no step uses or gives back what is gone already:   *)
(* nothing is read after it is closed or freed, or closed or freed twice,  *)
(* on any error path.  And none uses what it never got, but the known      *)
(* steps of the ground that do not look: on the satellite there is none.   *)
HeldWhenUsed == \A t \in Tasks : AtStep(t) =>
  /\ Step(t).uses \cap ptrs[t] \subseteq held[t]
  /\ <<running[t], at[t]>> \in Unchecked \/ Step(t).uses \subseteq ptrs[t]

(* The three paths that forget what they hold: the prompt answered with    *)
(* another key (testtools.c:188), the prompt without memory for its        *)
(* message (:198), and a batch file that cannot be opened (:641).          *)
Forgotten ==
  {<<"remote", "refused", "command">>, <<"remote", "no_message", "command">>}
    \cup {"batch_file"} \X {"not_opened"} \X {"buf", "line", "response"}

(* On the satellite every path of every command gives back all it took,    *)
(* and so does every path of the ground's but the three known ones, which  *)
(* lose no more than is said of them.                                      *)
NothingLeaks == lost \subseteq Forgotten
=============================================================================
