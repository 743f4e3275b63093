# Verification of the WOD, beacon and file-listing software

TLA+ models, TLC checks and TLAPS proofs of the code in `src/`: the flight
software of a QB50 satellite (`src/satellite`), the terminal on the ground that
talks to it (`src/csp-term`) and a decoder of log files (`src/wod_decoder`).
Everything else the programs use (FreeRTOS, the CubeSat space protocol `csp`,
the FAT driver, the drivers of the power supply and the radio, the console) is
outside the repository and is modelled from how this code uses it.

## The system

| Component | State | Operations |
|---|---|---|
| WOD logger (`wod_sat.c`, `wod` commands of `satellite/cmd_wod.c`) | on the SD card: `/sd/wodnum`, the logs `/sd/00.wod`..`/sd/FF.wod`; in memory: `current_number`, `current_entry`, `iteration`, `path`, `wod_enable`, `previous` | `wod_init` at boot, `wod_log` each cycle, `wod_number_increment`, `wod_reset`, `set_wodnum_cmd`, `init_wodlog`, commands `rmall`, `reset`, `set`, `on`, `off`, `hk` |
| Listing of the card (`fs_ls_to_sd`, `ls2sd` of `testtools.c`, `OBC_PORT_FTP_LIST`) | the directory and its page files; on the ground the position and the last number seen | request a page, write it, download it, remove it |
| Beacon and its configuration (`beacon_io.c` and `cmd_wod.c` on both sides, `task_wod_daemon.c`) | `current_config` on both sides, `last_gnd_contact`, the housekeeping and the record made of it | the daemon's cycle; `on`, `off`, `interval`, `postpone`, `callsign`, `refresh`; set and get over the link |
| Records (`wod_get`, `decode.c`) | the housekeeping, a record, a row of the table | fetch, encode and log, decode |
| Remote shell and batch files (`remoteshell.c`, `testtools.c`) | packets, buffers | frame, send, run, parse a file |
| File commands (`cmd_fs.c`) | open files, buffers | the `fs` commands |

The daemon, the console and the server are FreeRTOS tasks of one computer.
They share the statics above without a lock. The ground reaches the server by
`csp_transaction`: one request, one answer, a timeout, no retry. Commands reach
the satellite through its console or through the remote shell: both executors
can be inside a command at the same time.

### What is hard

* A reset of the computer falls between any two calls on the card, so every
  boot may find a half-made counter or log (`WodLog`).
* Any card call may fail and most paths carry on (`WodLog`).
* The clock is set from the ground; ages are differences of it (`WodLog`,
  `BeaconDaemon`).
* Counters wrap: 256 minutes, four passes, 256 logs, 16-bit intervals
  (`WodLog`, `BeaconDaemon`).
* Readings are subtracted, summed, scaled and narrowed between types with and
  without a sign (`WodRecord`).
* The directory is listed by position, in pages, while the listing itself and
  others add and remove files (`Listing`).
* Requests, answers and removals are lost or late (`Listing`, `BeaconLink`).
* Commands fall between any two steps of the daemon (`BeaconDaemon`), and
  between the card calls of the daemon or of another command (`WodTasks`).
* A command the ground has given up on runs all the same, and delimiters in a
  text or a cut at the end of a packet change what runs (`RemoteShell`).
* A file command has up to ten calls that may fail, each with another set of
  things to give back (`FsResources`).

`PROJECT.json` lists each of these at its line, with the property that covers
it or the reason why none does.

### What makes each component correct

* Logger: the counter on the card and the one in memory name the same log; a
  log has its header before its first record and stays within one ring and one
  length; a reboot keeps a log older than 15 minutes; a command restores
  `wod_enable`; logging resumes after faults, and the ring comes round.
* Listing: a finished listing has shown every file that was there all along;
  the satellite is not filled with page files; the loop ends.
* Beacon: no beacons after the ground was heard or switched them off, but for
  the one under way; beacons are apart, fresh, and keep coming; what the ground
  shows after an answer is what the satellite has.
* Records: a row shows what was measured to one step of its scale; readings out
  of range show as the end of the range and never as normal ones.
* Remote shell: calls run at most once, in order, with the text meant; a result
  belongs to its call; the lines of a batch file that a newline ends are followed
  one by one, and the file ends.
* File commands: each path releases what it took, once, and uses nothing else;
  the steps and paths of the ground that do not are named.

## Modules

| Module | Models |
|---|---|
| `WodLog` | the logger and its commands; each action is one call that changes the card |
| `MCWodLog` | claims of comments and help texts about the logger |
| `WodLog_proofs` | theorems about `WodLog` |
| `WodTasks` | the daemon and two commands as tasks whose operations interleave |
| `WodTasks_proofs` | theorems about `WodTasks` |
| `Listing` | `ls2sd`, the listing service and the remote `rm`, over a lossy link |
| `MCListing` | directories for TLC, and a claim |
| `Listing_proofs` | theorems about `Listing` |
| `BeaconDaemon` | the daemon's cycle, its beacons, and commands between its steps |
| `MCBeaconDaemon` | the claim about the least interval |
| `BeaconDaemon_proofs` | theorems about `BeaconDaemon` |
| `BeaconLink` | the configuration on both sides and its exchange |
| `MCBeaconLink` | the byte order for TLC |
| `BeaconLink_proofs` | theorems about `BeaconLink` |
| `WodRecord` | the encoding of readings into a record, and its decoding |
| `MCWodRecord` | readings for TLC |
| `WodRecord_proofs` | theorems about `WodRecord` |
| `RemoteCalls` | what the remote shell promises, without packets or texts in frames |
| `RemoteShell` | prompt, batch runner, removals, packets and satellite; implements `RemoteCalls` |
| `MCRemoteShell` | lines and files for TLC, and what the prompt says of itself |
| `RemoteShell_proofs` | theorems about `RemoteShell`, the refinement among them |
| `FsResources` | what the file commands of both sides take and give back |
| `FsResources_proofs` | theorems about `FsResources` |

Each definition that stands for code is in `PROJECT.json` under `map` with its
lines.

### WodLog

`wodnum` and `log` are the card; `number`, `entry`, `iter`, `path`, `enable`
and `previous` are the statics of `wod_sat.c` and `cmd_wod.c`; `pc`, `job`,
`arg` and `tries` say which call of which operation comes next. A reset keeps
the card and sets the rest to its initial values. Each call on the card is one
action together with the memory accesses up to the next such call, and has a
second disjunct in which it fails and the code's error path follows. A log file
is reduced to the words of its header, its time and its number of records.

Assumptions. One operation runs at a time: the daemon sleeps ten seconds
between two cycles and a command falls into a pause (`WodTasks` lifts this).
Boot calls `wod_init`, from outside the repository. `fopen(.., "w")`
does not empty an existing file, as the comment at `wod_sat.c:181` says of
`fat.c`; the constant `Truncates` names this. A write is on the card when the
call returns. The clock does not move within an operation; between two it
moves, forwards and backwards. `fread` of a short header leaves 0.

### WodTasks

The same operations without failures and resets, run by three tasks: the daemon
and two executors of commands. `pc`, `job`, `arg` and `file` are kept for each
task; the card, the statics of `wod_sat.c`, `wod_enable` and `previous` are
shared. Of the card only `/sd/wodnum` and the words of each log's header are
kept. A step is one call on the card or to a board together with the accesses
to memory since the last one, so an operation is cut wherever its task may be
switched. `init_wodlog` is given the static `path` itself, which another task may
change between two of its calls (`Target`); only `set` hands over a name of its
own. `wanted`, `late`, `crossed`, `alone`, `mixed` and `bare` are history. `late`
counts the records written since `wod_enable` was last cleared, by whatever task
that was (`SetEnable`).

What it shows: clearing `wod_enable` keeps the daemon to one more record; two
commands that overlap may leave the logger off, because `previous` is one for
all; a rotation and a command that meet may leave card and memory with
different numbers, or a log without a header, but the next rotation puts that
right. `wod reset` makes no log, so the next records may follow no header
(`bare`).

Assumptions. A task is switched inside a call only; with a switch between two
accesses to memory, two commands meet in ways that `previous` already allows. A
file that is removed is gone for the task that has it open. No call fails. The
commands come after a boot that has left a whole log.

### Listing

The directory is a sequence of places, each free or holding a name; `readdir`
goes through it in order, and a new file takes any free place. `fs_ls_to_sd` is
one action with its error paths; the ground's loop has one action per page. The
link is a queue in each direction that loses packets and delivers in order;
`csp_transaction` closes its connection on a timeout, so a late answer reaches
nobody. `stable`, `base`, `gone` and `spared` are history: what has been there all
along, and whether ever more than one file was removed from one page to the next.

Assumptions. The satellite reads the directory in one step. Lines are shorter
than the ground's buffer, as 8.3 names are. A page is not rewritten between the
reply and its download. A page without a line makes the ground search in front
of its buffer (`testtools.c:437`): the model lets it fail or keep its number.

### BeaconDaemon

`pc` walks through the body of `vTaskWodDaemon`; `idle` is
`getRealTime() - last_gnd_contact`, `spent` the ticks since `xLastBeacon`,
`delay` the argument of `vTaskDelayUntil`. Time is counted in units of which
`Min` make up ten seconds. Of the housekeeping and the record only the age is
kept, in cycles. Commands of the console and the radio come between any two
steps. A number typed has 32 bits and is narrowed after its check: `Stored`.

Assumptions. One cycle works for at most `MaxWork`. A rotation does not follow
another in the next cycle, since `iteration` is 0 after it and four passes of
256 records lie between. A command writes the whole configuration in one step.

### BeaconLink

`ground` and `sat` are the two `current_config`; `requests` the packets on
their way to the satellite, `answer` the one on its way back. Only the last of
`requests` can belong to a command that waits: the rest have been given up but
are served all the same. `Wire` changes the byte order of both 16-bit fields,
`Floored` is the check both sides make. `Swap` stands for `csp_hton16`, of
which nothing is assumed but that it undoes itself.

Assumptions. The link keeps the order of packets. The ground's terminal runs
one command at a time.

### WodRecord

`hk` is what the two boards reported, with the number of the entry; `Encoded`
is `wod_get`, `Decoded` the decoder's loop. The fields have their C types: sums
of currents keep 16 bits, the level keeps the two bits that its shift leaves in
a byte (both set when `battmode` is still 0). A scaled current is
`floor(n * (255.0 / max))` in the code and a quotient of integers here; the two
agree for each of the 65536 values of `n` and each of the four scales. The
decoder multiplies by `max / 255.0`; the model counts in 255ths of a
milliampere instead.

Assumptions. The housekeeping structures are those of the boards' libraries:
voltages and currents in 16 bits without a sign, temperatures in 16 bits with
one, `battmode` at most 4.

### RemoteCalls and RemoteShell

`RemoteCalls` has the calls `asked`, what was run (`ran`) and what each caller was
`told`: one call at a time, each run at most once and in order, with the text
meant, and no result of another call. `RemoteShell` implements it:
`KeepsPromise` is `RemoteCalls!Spec` under the refinement `told <- Told`, which
takes the value printed for a result only if the transaction reported a reply.

`file`, `pos` and `done` are the batch buffer, the place in it and what became of
each line. `current` is the one buffer all its lines are copied to: `Zeroed` and
`Copied` are the code's `memset` and `memcpy`, the line is parsed out of the
buffer, and `Leavings` is what the parsing, which works in place, leaves there.
What stands behind the last newline of a file is no line to `MoreLines`, as in
the code. `typed` is the prompt's buffer up to its cursor; `up` and `down` are
the link. Texts are sequences of characters because their delimiters matter:
`Wire` frames a text, `InPacket` cuts the frame to the packet, `Readings` is what
the satellite takes out of it, with any of `Tails` behind a frame whose end was
cut off. `Chars` are the characters of all texts, the delimiters among them.
`Plain` names the texts that survive all this: those that fit, without
`>` and without `|`. One turn of the batch loop is one action, since the line for
the ground is run there and then. That the line's buffer is there is
`FsResources`' question.

Assumptions. The link keeps the order of packets. The terminal runs one command
at a time. A line of a batch file is at most two bytes longer than
`command_text`. The heap holds no letter in front of the line's buffer
(`command[-1]` in `parse_line`). What `command_run` does is outside the
repository; its result is any of `Results`.

### FsResources

Each handler of `cmd_fs.c`, and each of `testtools.c` that holds something, is a
table of steps under the labels the code has. `Open` takes a file, directory or
buffer; one that the code does not look at goes on at the same label with a
result and without. `Try` is another call that may fail, `Loop` a turn of a loop,
`Key` the wait for a character, `Show` a `printf` of a string that may be
`NULL`, `Close` a release, `Null` and `IfSet` the assignments and tests on which
the shared error paths rely. `held` is what a command has, `ptrs` its pointers
that are not `NULL`, and `lost` what was forgotten, with the command and the
label where that happened: the labels of `Ends` tell the returns of a command
apart where that matters. The interpreter (`Take`, `TryCall`, `Give`, `SetNull`,
`TestSet`, `Return`) lets every call that may fail do so, every allocation
among them. A step that reads or writes what is not there ends the process
(`Crash`). Tables of the satellite run in the console's or the server's task.

`Unchecked` names the three steps that use the result of an allocation nobody
looked at, and `Forgotten` the three paths that return without a release, each
with what it loses; on the satellite there is neither.

Assumptions. `printf("%s")` survives `NULL`; were it to end the process, fewer
paths would be left. A loop turns as often as it likes, and a character may
never come: the module does not ask whether a command ends (that the listing loop
does is `Listing`'s question). The contents of files and the tree of directories
are left out.

## Runs

| Run | Question and bounds |
|---|---|
| `wod_reboot` | The daemon in a ring of three logs, with two resets between any two calls, a clock stepped both ways and one pause of the logger: records and counters agree, no record comes before its header, a boot keeps a log older than the limit, and every number of the ring comes round again. |
| `wod_commands` | Two commands on a card that starts empty, with a reset anywhere: card and memory name the same log between operations, `wod_enable` is put back, logs stay bounded, and a command revives a logger that a reset had left without a number. |
| `wod_faults` | Two failing card calls, a reset and a command anywhere: types, the counter stays readable and bounded, the logger is not switched off behind the operator's back, and logging goes on. |
| `wod_tasks` | The daemon and two commands on two executors, switched at every call, in a ring of two logs: at most one record is late, the switch is put back unless commands overlap, card, memory and header disagree only after two operations met, and a rotation heals that. |
| `wod_rmall_claim` | A claim of a comment that the code does not meet (see Findings). |
| `ls_pages` | Two listings of every directory with four places, one page left over, a lost packet, late answer or failed call anywhere, and a foreign change anywhere: nothing that lasts is skipped if the shift between two pages is at most one place, pages do not pile up, the loop ends unless the directory ends in a dot name. |
| `beacon_daemon` | The daemon with two commands, a clock step and a failure anywhere: at most one beacon is late, beacons stay apart, carry fresh readings and keep coming. |
| `beacon_link` | Two edits on each side, restarts among them, two lost packets or early timeouts: after an answer the two copies agree until one is changed. |
| `wod_record` | Readings at, next to and far beyond every boundary, one field at a time or the few that are summed, and all settings of the outputs: rows are faithful within the ranges and saturate beyond. |
| `remote_shell` | Two uses of the shell - one of 37 batch files, the prompt, a removal - with a packet lost or a transaction given up early at any step: `RemoteCalls` is implemented, the lines of a file that a newline ends are followed, whatever the one before left in the buffer, and files end. |
| `remote_cancel_claim` | Control-X at the prompt (see Findings). |
| `fs_resources` | Two commands, of one task or two, with every call failing and not, every allocation among them: nothing is used or given back that is gone already, nothing is used that was never got but at the three steps of `Unchecked`, and nothing is forgotten but on the three paths of `Forgotten`. |

Each property of a passing run has a mutant of the code under `mutants` that
violates it: a forgotten restore, a wrong order, a dropped check.

### Why the bounds are enough

* `WodLog`: a ring of two or three logs has a first, a last and a wrap; the
  minute counter wraps at 1, 2 or 4 and a log has 2 or 4 passes, so that wrap,
  pass and rotation fall together and apart; `Tries` = 2 and two faults exhaust
  the loop of `wod_init`; a clock with readings 0 and 1 and `Limit` = 0 has a
  younger and an older log and steps back; two resets reach a boot that finds
  the remains of a boot.
* `Listing`: four places with two lines to a page give three pages, the last
  of them empty; a page left over from before can collide with a name; one fault
  at every step and one foreign change anywhere. The operator stops after two
  listings, and `CHECK_DEADLOCK FALSE` says so.
* `BeaconDaemon`: `Width` = 4 and `Min` = 2 have a number too small, one in
  between, and one that is narrowed; two commands reach a change and its
  reversal within one cycle.
* `WodTasks`: two logs have a rotation that leaves a log and one that comes back
  to it, and a third name for the number that boot may go to past the ring; two
  commands are enough for two that overlap and for one that meets the daemon;
  the daemon goes on without a bound.
* `RemoteShell`: `Room` = 5 has texts that fit, that lose their end and that
  fill the prompt; the lines have each delimiter in each place that matters, and
  a longer line stands in front of one that would be closed by what it left; two
  uses have a late reply to one while the other waits.
* `FsResources`: the tasks share nothing, and a command leaves nothing behind for
  the next of its task; two commands have two at the same time and two in a row.
  Loops have no bound, since a turn leads back to a state that was there.
* `BeaconLink`: two requests on the link have one that was given up before one
  that is waited for; the base 2 has numbers that the byte order exchanges and
  numbers it leaves.

* `WodRecord`: the conversions are monotone between the boundaries listed in
  `MCWodRecord`; the proofs cover every reading.

### Fairness

* `WodLog`: weak fairness of the system's own steps, because FreeRTOS keeps
  scheduling a task that can run. The clock, commands, resets
  and faults are never forced and are bounded, so that a liveness property
  speaks of what happens once they stop.
* `Listing`: weak fairness of the server's task, and of the ground's command,
  whose transaction either has an answer or times out.
* `BeaconDaemon`: weak fairness of the daemon and of time.
* `WodTasks`: weak fairness of the daemon and of each executor inside a command.
  `Heals` supposes in its formula that the logger stays on from some time.
* `RemoteShell`: weak fairness of the server's task and of the ground's loop,
  whose transactions end by a reply or a timeout. Nobody has to type.
* `BeaconLink`, `WodRecord` and `FsResources` have no liveness property and no fairness.

## Proofs

TLAPS proves for every value of the constants that satisfies their assumptions
every safety property that a passing run checks, and the refinement of
`RemoteCalls`. A hypothesis a theorem has besides is named below.

* `WodLog_proofs`. The inductive invariant has named parts. `TriesInv` relates
  the attempts left to the numbers used: it bounds the numbers of `wod_init`,
  which steps past the ring. `BoundInv` keeps the number on the card within the
  ring and one past it. `OnInv` and `JobInv` say what `previous` holds while a command has
  switched the logger off. Under the hypothesis that no call fails, `AgreeInv`
  relates counter, `path` and the log under construction call by call,
  `HeaderInv` says where a log may still lack its header, and `WishInv` and
  `KeepInv` carry what a boot has decided to keep up to the call that would
  remove it. `LogsBounded` rests on `SizeInv`: the current log never holds more
  records than were counted since it was created, so that there is room for the
  one about to be added. `EveryCycleRecorded` rests on `MatchInv`, which makes
  that count exact; it supposes the commands `on` and `off` alone, because `set`
  and `rmall` begin a log without restarting `iteration`. `LogsBounded` and
  `HeadersComeFirst` leave out `reset`, after which the daemon goes on in the log
  `path` still names: with it both are false.
* `WodTasks_proofs`: `TypeCorrect`, `OneLate`, `WishHeld`, `OrderKept`. `PlaceInv`
  says which call a task can be at in which operation, and with which file. `LateInv`:
  no record is late while the logger is on or while the daemon has one to
  write; this is why clearing the switch lets one record pass and no second.
  `WishInv`: while commands have not overlapped at most one is under way, and the
  operator's wish is in `previous`. `OrderInv` says for each task what the
  calls it has made alone have left behind, so that its last call finds card,
  memory and header in agreement.
* `Listing_proofs`: `ListingTyped`, `ListingComplete` and `LeftoversPaid`. `TypeOK`
  itself is inductive, with its conjuncts on the one request that is waited for.
  `ListInv` says of each stage (nothing asked, asked, answered, page shown) that
  every lasting file is shown already or lies ahead of the position asked for; a
  file that is removed moves the others by at most one place, which the page
  file put into the directory and taken out again does as well. `DebtInv`: the
  pages nobody will remove and the requests that have come too late and may yet
  make one are together no more than the faults; every other new page is
  claimed, by the ground's download or by a removal on its way.
* `BeaconDaemon_proofs`: `BeaconTyped`, `OneLateBeaconOnly`, `BeaconsApart` and
  `BeaconsFresh`. `LateInv`: past its check the daemon has sent no late beacon
  yet. `ApartInv`: after a beacon, the time since it falls behind the time since
  its cycle began by no more than the work of a cycle, and the sleep lasts until
  at least `Min` from that beginning. `FreshInv`: how old the radio readings are after one, two and
  three good cycles, with a rotation in either place. `BeaconsApart` supposes
  `NumbersFit`, that no number typed is narrowed below the least; without it an
  interval of 0 is possible (see Findings).
* `BeaconLink_proofs`: `LinkTyped` and `AnswerVouches`. `LinkInv`: a set on its
  way holds numbers that need no check; an answer shows the satellite's copy
  unless that was changed; once vouched for, no set is on its way.
* `WodRecord_proofs`: `RecordTyped`, `RowsFaithful` and `RowsSaturate`, for every
  set of 16-bit readings. `RecInv` says that a record and a row are made of the
  current readings; the rest are lemmas about one field each: `VoltByte`,
  `CurrentByte` and `MeanByte` bound the quotient and then the clamped value,
  and `FlagsBack` takes the bits of `flags` apart. `Saturates` supposes that a
  sum of currents fits 16 bits, and `Faithful` that `battmode` has been read once.
* `RemoteShell_proofs`: `TypeCorrect`, `PromiseKept` and `Followed`. `PromiseKept` is
  the refinement: every step is a step of `RemoteCalls` or a stutter. It rests on
  `UpInv` (the frames on their way are calls made, in the order in which they
  were made and behind all that have been performed; each is the frame of the
  text meant), `DownInv` (a result on its way is that of a call performed) and
  `ShownInv` (the console waits for its last call and no other, and what it
  tells with the status of a reply is a result). `Followed`
  rests on `FileInv`: the position is behind a line that has ended, and there is
  one entry for each line that has; and on the lemma that a line copied to a
  cleared buffer is what the buffer then holds, whatever it held before.
* `FsResources_proofs`: `TypeCorrect`, `UsesHeld` and `OnlyKnownLeaks`. Beside each
  command stands a table (`AtTest` to `AtLs2sd`) of what it surely holds at each label, what it
  may hold, and which pointers tell the two apart; the lemmas `TestSound` to
  `Ls2sdSound` follow every exit of every step to a label whose entry fits, and
  `ResourcesInv` says that a task is always at a label with what is written
  there. For `remote` and `parse_file` two more tables name the steps that do not
  look (`PacketBlind`, `FileBlind`) and what each end leaves behind
  (`PacketLeft`, `FileLeft`); every other step has what it uses, and every other
  end holds nothing. The pointers that tell are why `fs_ls_to_sd` sets `comp` and `dirp` to
  `NULL` after closing them, and `parse_file` its `fp`: without that the shared
  error path would close them twice.

TLC has checked each of these inductive invariants on its run's instance.

Only model-checked: the liveness properties `RingCycles`, `CommandsRevive`,
`LoggingResumes`, `Heals`, `ListingEnds`, `KeepsSending` and `BatchEnds`, because fairness and `ENABLED` are out of the prover's reach. The
violations are single behaviours found by TLC.

## Findings

Two runs named `_claim` each show a behaviour that a comment or a prompt of the
repository denies; `PROJECT.json` quotes the lines.

* `wod_rmall_claim`: `wod rmall` leaves logs that a boot created past `FF.wod`.
* `remote_cancel_claim`: control-X, "to cancel", sends the text.

Four more are kept as definitions with a configuration each, to be run by hand
(`tlc -config X.cfg M`); TLC finds each violated:

| Configuration, module | Definition | What the code does |
|---|---|---|
| `wod_off_claim.cfg`, `MCWodLog` | `OffStaysOff` | A `wod reset` that cannot write the counter sets `wod_enable` to 1 (`cmd_wod.c:49`) although the operator had switched the logger off. |
| `wod_minute_claim.cfg`, `MCWodLog` | `MinuteIsOffset` | The second record of every log repeats minute 0 (`wod_sat.c:206`); `wod.h:15` says "+1 = offset by one miniute". |
| `ls_dot_claim.cfg`, `MCListing` | `EveryListingEnds` | A directory whose last name begins with a dot is listed without end: it is counted, not shown (`cmd_fs.c:584`, `testtools.c:461`). |
| `beacon_interval_claim.cfg`, `MCBeaconDaemon` | `IntervalFloor` | 65536 passes the check and is stored as an interval of 0 (`cmd_wod.c:119`); `beacon_io.c:72` says "has a minimum interval of 10 seconds". |

Met while modelling, without a configuration:

* Two of the three commands that save `wod_enable` in the one `previous`
  (`cmd_wod.c:38`, `:46`, `:91`) at the same time can leave the logger off;
  `WishKept` holds only because it excepts commands that overlap.
* `append` over the radio waits for the satellite's console, and the server
  with it (`cmd_fs.c:299`). No property asks whether it ends.
* `remote` forgets its buffer when the question is answered with another key
  (`testtools.c:188`) and when its message cannot be allocated (`:198`), and
  `parse_file` its three buffers when the file cannot be opened (`:641`);
  `NothingLeaks` excepts these three paths, which `Forgotten` names.
* Four allocations are used unseen. Without memory, and with no character typed,
  `remote` shows a `NULL` as text (`:141`, `:185`); a batch file writes its first
  line to `NULL` (`:630`, `:631`, used at `:674` and `:675`); and an answer is
  read through `NULL` (`:508`, `:515`). `HeldWhenUsed` excepts these steps, which
  `Unchecked` names.
* A batch file's last line is not run unless a newline ends it (`testtools.c:669`),
  and "Parsed %d lines" does not tell. `FileFollowed` speaks of the lines that a
  newline has ended. (Of a file whose only newline is its first character even
  that one, empty, line is not counted: the search starts behind it.)
* A batch line whose transaction timed out prints "replyed: 0", as a success
  would (`testtools.c:516`), and `response` is never filled: line 517 changes the
  local pointer. "Parsed %d lines" counts one too many (`:635`, `:702`).
* The question at the prompt shows the buffer with characters that were erased
  behind the cursor (`testtools.c:164`, `:185`); they are not sent.
* `lzo_compress` returns `CMD_ERROR_NONE` when it fails and leaves an unfinished
  `.z` file (`cmd_fs.c:520`).
* `wod_get` sums `curout[0..2]` into the field for the 3.3 V rails, and the comment
  above it labels these as 5 V. Which of the two is right is not to be seen in
  the repository; the model follows the code.

## What is not modelled

* What `command_run` does with a text, and the contents of files under the `fs`
  commands.
* A reset of the computer, or a failing call, while operations interleave: both
  are in `WodLog`, one operation at a time.
* The order in which a page of a listing reads the directory while the daemon
  rotates: it depends on the FAT driver.
* The decoder's reading of a file header and its printing.
* `wod_gnd.c`: a copy of the logger on the ground that nothing calls; the
  commands that would are inside a comment.
* `tncsync`, `obcsync`, test packets: one message each and no state. What
  `obcsync` does to the satellite is the clock step of two modules.
* Command tables, headers, printing, the licence.

## Plan

1. Proofs: what a failing call can leave behind in `WodLog`, so that `CounterAgrees`
   and `HeaderFirst` can be stated for it too; and the safety half of the
   liveness properties, each the decrease of a measure: a turn of the batch loop
   shortens what is left of the file, a page moves the listing on unless the
   directory ends in a dot name.
2. `BeaconDaemon` with the configuration of `BeaconLink` in place of its
   commands.
