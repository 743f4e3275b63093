----------------------------- MODULE RemoteCalls -----------------------------
(***************************************************************************)
(* What the remote shell promises to somebody on the ground, without the   *)
(* packets: calls are made one at a time, each is performed at most once   *)
(* and in the order they were made, with the text the caller meant, and a  *)
(* caller who is told a result is told that of the own call.  A caller may *)
(* be told nothing: then the call has been performed, or will be, or not.  *)
(* RemoteShell implements this.                                            *)
(***************************************************************************)
EXTENDS Naturals, Sequences

CONSTANTS
  Plain(_),   \* the texts that reach the satellite as they were meant
  Waiting,    \* what a caller knows before the call returns
  Unknown     \* what a caller knows who was told no result

VARIABLES
  asked,  \* the texts of the calls so far, in order
  ran,    \* what the satellite has performed: records of call, text, result
  told    \* what the caller of each call knows

LastRun == IF ran = <<>> THEN 0 ELSE ran[Len(ran)].call

Init == asked = <<>> /\ ran = <<>> /\ told = <<>>

(* A new call: nobody waits for an earlier one.  The caller waits, or does *)
(* not care for a result.                                                  *)
Ask ==
  /\ \A i \in DOMAIN told : told[i] # Waiting
  /\ Len(asked') = Len(asked) + 1 /\ SubSeq(asked', 1, Len(asked)) = asked
  /\ told' \in {Append(told, Waiting), Append(told, Unknown)}
  /\ UNCHANGED ran

(* The satellite performs call i, after which it performs no earlier one.  *)
Perform(i) ==
  /\ i > LastRun /\ Len(ran') = Len(ran) + 1
  /\ SubSeq(ran', 1, Len(ran)) = ran
  /\ ran'[Len(ran')].call = i
  /\ Plain(asked[i]) => ran'[Len(ran')].text = asked[i]
  /\ UNCHANGED <<asked, told>>

(* The call returns: its caller is told its result, or nothing. *)
Tell(i) ==
  /\ told[i] = Waiting
  /\ \/ told' = [told EXCEPT ![i] = Unknown]
     \/ \E k \in DOMAIN ran : ran[k].call = i /\ told' = [told EXCEPT ![i] = ran[k].result]
  /\ UNCHANGED <<asked, ran>>

Next == Ask \/ \E i \in DOMAIN asked : Perform(i) \/ Tell(i)

Spec == Init /\ [][Next]_<<asked, ran, told>>
=============================================================================
