-------------------------- MODULE FsResources_proofs --------------------------
(***************************************************************************)
(* Proofs about FsResources, for any number of commands, loops of any      *)
(* number of turns, and whatever calls fail.                               *)
(*                                                                         *)
(* They follow the commands the way a reader of the code does: what a      *)
(* command holds at a label is written down beside the label, each step is *)
(* shown to lead from what stands at its label to what stands at the next, *)
(* and what stands at every label then holds whenever a task is there.     *)
(***************************************************************************)
EXTENDS FsResources, TLAPS

(* What is known at a label: what the command surely holds there, what it  *)
(* may hold, and the pointers that tell, that is, those that are not NULL  *)
(* only if what they point to is held.                                     *)
Between(must, may, tells) == [must |-> must, may |-> may, tells |-> tells]
Exactly(S) == Between(S, S, {})

(* What a step leaves behind is what is known at the label it goes on at.  *)
(* Where the command ends no more is left than is written down in left,    *)
(* pairs of a label and a resource.                                        *)
Fits(P, K, left, l, must, may, tells) ==
  \/ /\ l \in DOMAIN P
     /\ K[l].must \subseteq must /\ may \subseteq K[l].may
     /\ K[l].tells \subseteq tells
  \/ l \in Ends /\ \A x \in may : <<l, x>> \in left

(* The step at label l of command P, with K known at its labels, takes     *)
(* nothing it has already, uses only what it surely holds or, at a label   *)
(* of blind, what its pointer tells of, tests only a pointer that tells,   *)
(* and leads to labels that fit.                                           *)
StepSound(P, K, blind, left, l) ==
  LET s == P[l]
      k == K[l]
  IN  /\ s.uses \subseteq k.must \cup k.tells
      /\ l \in blind \/ s.uses \subseteq k.must
      /\ s.do = "take" =>
           /\ s.on \notin k.may
           /\ Fits(P, K, left, s.ok, k.must \cup {s.on}, k.may \cup {s.on},
                   k.tells \cup {s.on})
           /\ Fits(P, K, left, s.no, k.must, k.may, k.tells \cup {s.on})
      /\ s.do = "try" =>
           /\ Fits(P, K, left, s.ok, k.must \cup s.uses, k.may, k.tells)
           /\ Fits(P, K, left, s.no, k.must \cup s.uses, k.may, k.tells)
      /\ s.do = "show" =>
           /\ Fits(P, K, left, s.ok, k.must, k.may, k.tells)
           /\ Fits(P, K, left, s.no, k.must, k.may, k.tells)
      /\ s.do = "give" =>
           Fits(P, K, left, s.ok, k.must \ {s.on}, k.may \ {s.on}, k.tells \ {s.on})
      /\ s.do = "null" =>
           /\ s.on \notin k.may
           /\ Fits(P, K, left, s.ok, k.must, k.may, k.tells \cup {s.on})
      /\ s.do = "test" =>
           /\ s.on \in k.tells
           /\ Fits(P, K, left, s.ok, k.must \cup {s.on}, k.may, k.tells)
           /\ s.on \notin k.must =>
                Fits(P, K, left, s.no, k.must, k.may \ {s.on}, k.tells)

Sound(P, K, blind, left) ==
  /\ "start" \in DOMAIN P /\ K["start"].must = {} /\ DOMAIN P \cap Ends = {}
  /\ \A l \in DOMAIN P : StepSound(P, K, blind, left, l)

-----------------------------------------------------------------------------
(* When each kind of step is sound. *)

LEMMA OpenSound ==
  ASSUME NEW P, NEW K, NEW blind, NEW left, NEW l \in DOMAIN P,
         NEW x, NEW a, NEW b, P[l] = Open(x, a, b), x \notin K[l].may,
         Fits(P, K, left, a, K[l].must \cup {x}, K[l].may \cup {x},
              K[l].tells \cup {x}),
         Fits(P, K, left, b, K[l].must, K[l].may, K[l].tells \cup {x})
  PROVE  StepSound(P, K, blind, left, l)
  BY DEF StepSound, Call, Open

LEMMA BlindSound ==
  ASSUME NEW P, NEW K, NEW blind, NEW left, NEW l \in DOMAIN P,
         NEW u, NEW a, NEW b, P[l] = Try(u, a, b),
         u \subseteq K[l].must \cup K[l].tells, l \in blind \/ u \subseteq K[l].must,
         Fits(P, K, left, a, K[l].must \cup u, K[l].may, K[l].tells),
         Fits(P, K, left, b, K[l].must \cup u, K[l].may, K[l].tells)
  PROVE  StepSound(P, K, blind, left, l)
<1>1. ASSUME NEW x, P[l] = Call("try", x, u, a, b)
      PROVE  StepSound(P, K, blind, left, l)
  BY <1>1 DEF StepSound, Call
<1> QED
  BY <1>1 DEF Try

LEMMA TrySound ==
  ASSUME NEW P, NEW K, NEW blind, NEW left, NEW l \in DOMAIN P,
         NEW u, NEW a, NEW b,
         P[l] = Try(u, a, b) \/ P[l] = Loop(u, a, b) \/ P[l] = Key(u, a, b),
         u \subseteq K[l].must,
         Fits(P, K, left, a, K[l].must, K[l].may, K[l].tells),
         Fits(P, K, left, b, K[l].must, K[l].may, K[l].tells)
  PROVE  StepSound(P, K, blind, left, l)
<1>1. P[l] = Try(u, a, b)
  BY DEF Loop, Key
<1>2. K[l].must \cup u = K[l].must
  OBVIOUS
<1> QED
  BY <1>1, <1>2, BlindSound

LEMMA ShowSound ==
  ASSUME NEW P, NEW K, NEW blind, NEW left, NEW l \in DOMAIN P, NEW x, NEW a,
         P[l] = Show(x, a), x \in K[l].tells, l \in blind,
         Fits(P, K, left, a, K[l].must, K[l].may, K[l].tells)
  PROVE  StepSound(P, K, blind, left, l)
  BY DEF StepSound, Call, Show

LEMMA CloseSound ==
  ASSUME NEW P, NEW K, NEW blind, NEW left, NEW l \in DOMAIN P, NEW x, NEW a,
         P[l] = Close(x, a), x \in K[l].must,
         Fits(P, K, left, a, K[l].must \ {x}, K[l].may \ {x}, K[l].tells \ {x})
  PROVE  StepSound(P, K, blind, left, l)
  BY DEF StepSound, Call, Close

LEMMA NullSound ==
  ASSUME NEW P, NEW K, NEW blind, NEW left, NEW l \in DOMAIN P, NEW x, NEW a,
         P[l] = Null(x, a), x \notin K[l].may,
         Fits(P, K, left, a, K[l].must, K[l].may, K[l].tells \cup {x})
  PROVE  StepSound(P, K, blind, left, l)
  BY DEF StepSound, Call, Null

LEMMA IfSetSound ==
  ASSUME NEW P, NEW K, NEW blind, NEW left, NEW l \in DOMAIN P,
         NEW x, NEW a, NEW b, P[l] = IfSet(x, a, b), x \in K[l].tells,
         Fits(P, K, left, a, K[l].must \cup {x}, K[l].may, K[l].tells),
         x \notin K[l].must =>
           Fits(P, K, left, b, K[l].must, K[l].may \ {x}, K[l].tells)
  PROVE  StepSound(P, K, blind, left, l)
  BY DEF StepSound, Call, IfSet

-----------------------------------------------------------------------------
(* What the commands of the satellite hold at each of their labels. *)

AtTest == [
  start     |-> Exactly({}),
  data_w    |-> Exactly({"fd"}),
  write     |-> Exactly({"data_w", "fd"}),
  data_r    |-> Exactly({"data_w", "fd"}),
  read      |-> Exactly({"data_r", "data_w", "fd"}),
  compare   |-> Exactly({"data_r", "data_w", "fd"}),
  err_read  |-> Exactly({"data_r", "data_w", "fd"}),
  err_write |-> Exactly({"data_w", "fd"}),
  err_open  |-> Exactly({"fd"})]

LEMMA TestSound == Sound(Test, AtTest, {}, {})
<1>a. SUFFICES ASSUME NEW P, NEW K, P = Test, K = AtTest
               PROVE  Sound(P, K, {}, {})
  OBVIOUS
<1>d. DOMAIN P = {"start", "data_w", "write", "data_r", "read", "compare",
                  "err_read", "err_write", "err_open"}
  BY <1>a DEF Test
<1>e. Ends = {"ok", "failed", "refused", "no_message", "not_opened"}
  BY DEF Ends
<1>1. /\ "start" \in DOMAIN P /\ P["start"] = Open("fd", "data_w", "failed")
      /\ K["start"] = Exactly({})
  BY <1>a DEF Test, AtTest
<1>2. /\ "data_w" \in DOMAIN P
      /\ P["data_w"] = Open("data_w", "write", "err_open")
      /\ K["data_w"] = Exactly({"fd"})
  BY <1>a DEF Test, AtTest
<1>3. /\ "write" \in DOMAIN P
      /\ P["write"] = Try({"fd", "data_w"}, "data_r", "err_write")
      /\ K["write"] = Exactly({"data_w", "fd"})
  BY <1>a DEF Test, AtTest
<1>4. /\ "data_r" \in DOMAIN P
      /\ P["data_r"] = Open("data_r", "read", "err_write")
      /\ K["data_r"] = Exactly({"data_w", "fd"})
  BY <1>a DEF Test, AtTest
<1>5. /\ "read" \in DOMAIN P
      /\ P["read"] = Try({"fd", "data_r"}, "compare", "err_read")
      /\ K["read"] = Exactly({"data_r", "data_w", "fd"})
  BY <1>a DEF Test, AtTest
<1>6. /\ "compare" \in DOMAIN P
      /\ P["compare"] = Try({"data_w", "data_r"}, "err_read", "err_read")
      /\ K["compare"] = Exactly({"data_r", "data_w", "fd"})
  BY <1>a DEF Test, AtTest
<1>7. /\ "err_read" \in DOMAIN P
      /\ P["err_read"] = Close("data_r", "err_write")
      /\ K["err_read"] = Exactly({"data_r", "data_w", "fd"})
  BY <1>a DEF Test, AtTest
<1>8. /\ "err_write" \in DOMAIN P
      /\ P["err_write"] = Close("data_w", "err_open")
      /\ K["err_write"] = Exactly({"data_w", "fd"})
  BY <1>a DEF Test, AtTest
<1>9. /\ "err_open" \in DOMAIN P /\ P["err_open"] = Close("fd", "ok")
      /\ K["err_open"] = Exactly({"fd"})
  BY <1>a DEF Test, AtTest
<1>s1. StepSound(P, K, {}, {}, "start")
  BY <1>1, <1>2, <1>e, OpenSound DEF Fits, Exactly, Between
<1>s2. StepSound(P, K, {}, {}, "data_w")
  BY <1>2, <1>3, <1>9, OpenSound DEF Fits, Exactly, Between
<1>s3. StepSound(P, K, {}, {}, "write")
  BY <1>3, <1>4, <1>8, TrySound DEF Fits, Exactly, Between
<1>s4. StepSound(P, K, {}, {}, "data_r")
  BY <1>4, <1>5, <1>8, OpenSound DEF Fits, Exactly, Between
<1>s5. StepSound(P, K, {}, {}, "read")
  BY <1>5, <1>6, <1>7, TrySound DEF Fits, Exactly, Between
<1>s6. StepSound(P, K, {}, {}, "compare")
  BY <1>6, <1>7, TrySound DEF Fits, Exactly, Between
<1>s7. StepSound(P, K, {}, {}, "err_read")
  BY <1>7, <1>8, CloseSound DEF Fits, Exactly, Between
<1>s8. StepSound(P, K, {}, {}, "err_write")
  BY <1>8, <1>9, CloseSound DEF Fits, Exactly, Between
<1>s9. StepSound(P, K, {}, {}, "err_open")
  BY <1>9, <1>e, CloseSound DEF Fits, Exactly, Between
<1> QED
  BY <1>d, <1>e, <1>1, <1>s1, <1>s2, <1>s3, <1>s4, <1>s5, <1>s6, <1>s7, <1>s8,
     <1>s9 DEF Sound, Exactly, Between

AtLs == [
  start |-> Exactly({}),
  next  |-> Exactly({"dirp"}),
  entry |-> Exactly({"dirp"}),
  under |-> Exactly({"dirp"}),
  count |-> Exactly({"dirp", "sub"}),
  leave |-> Exactly({"dirp", "sub"}),
  close |-> Exactly({"dirp"})]

LEMMA LsSound == Sound(Ls, AtLs, {}, {})
<1>a. SUFFICES ASSUME NEW P, NEW K, P = Ls, K = AtLs
               PROVE  Sound(P, K, {}, {})
  OBVIOUS
<1>d. DOMAIN P = {"start", "next", "entry", "under", "count", "leave",
                  "close"}
  BY <1>a DEF Ls
<1>e. Ends = {"ok", "failed", "refused", "no_message", "not_opened"}
  BY DEF Ends
<1>1. /\ "start" \in DOMAIN P /\ P["start"] = Open("dirp", "next", "failed")
      /\ K["start"] = Exactly({})
  BY <1>a DEF Ls, AtLs
<1>2. /\ "next" \in DOMAIN P /\ P["next"] = Loop({"dirp"}, "entry", "close")
      /\ K["next"] = Exactly({"dirp"})
  BY <1>a DEF Ls, AtLs
<1>3. /\ "entry" \in DOMAIN P /\ P["entry"] = Try({"dirp"}, "under", "next")
      /\ K["entry"] = Exactly({"dirp"})
  BY <1>a DEF Ls, AtLs
<1>4. /\ "under" \in DOMAIN P /\ P["under"] = Open("sub", "count", "next")
      /\ K["under"] = Exactly({"dirp"})
  BY <1>a DEF Ls, AtLs
<1>5. /\ "count" \in DOMAIN P /\ P["count"] = Try({"sub"}, "leave", "leave")
      /\ K["count"] = Exactly({"dirp", "sub"})
  BY <1>a DEF Ls, AtLs
<1>6. /\ "leave" \in DOMAIN P /\ P["leave"] = Close("sub", "next")
      /\ K["leave"] = Exactly({"dirp", "sub"})
  BY <1>a DEF Ls, AtLs
<1>7. /\ "close" \in DOMAIN P /\ P["close"] = Close("dirp", "ok")
      /\ K["close"] = Exactly({"dirp"})
  BY <1>a DEF Ls, AtLs
<1>s1. StepSound(P, K, {}, {}, "start")
  BY <1>1, <1>2, <1>e, OpenSound DEF Fits, Exactly, Between
<1>s2. StepSound(P, K, {}, {}, "next")
  BY <1>2, <1>3, <1>7, TrySound DEF Fits, Exactly, Between
<1>s3. StepSound(P, K, {}, {}, "entry")
  BY <1>3, <1>4, <1>2, TrySound DEF Fits, Exactly, Between
<1>s4. StepSound(P, K, {}, {}, "under")
  BY <1>4, <1>5, <1>2, OpenSound DEF Fits, Exactly, Between
<1>s5. StepSound(P, K, {}, {}, "count")
  BY <1>5, <1>6, TrySound DEF Fits, Exactly, Between
<1>s6. StepSound(P, K, {}, {}, "leave")
  BY <1>6, <1>2, CloseSound DEF Fits, Exactly, Between
<1>s7. StepSound(P, K, {}, {}, "close")
  BY <1>7, <1>e, CloseSound DEF Fits, Exactly, Between
<1> QED
  BY <1>d, <1>e, <1>1, <1>s1, <1>s2, <1>s3, <1>s4, <1>s5, <1>s6, <1>s7
     DEF Sound, Exactly, Between

AtMkdir == [
  start |-> Exactly({})]

LEMMA MkdirSound == Sound(Mkdir, AtMkdir, {}, {})
<1>a. SUFFICES ASSUME NEW P, NEW K, P = Mkdir, K = AtMkdir
               PROVE  Sound(P, K, {}, {})
  OBVIOUS
<1>d. DOMAIN P = {"start"}
  BY <1>a DEF Mkdir
<1>e. Ends = {"ok", "failed", "refused", "no_message", "not_opened"}
  BY DEF Ends
<1>1. /\ "start" \in DOMAIN P /\ P["start"] = Try({}, "ok", "ok")
      /\ K["start"] = Exactly({})
  BY <1>a DEF Mkdir, AtMkdir
<1>s1. StepSound(P, K, {}, {}, "start")
  BY <1>1, <1>e, TrySound DEF Fits, Exactly, Between
<1> QED
  BY <1>d, <1>e, <1>1, <1>s1 DEF Sound, Exactly, Between

AtRm == [
  start  |-> Exactly({}),
  remove |-> Exactly({})]

LEMMA RmSound == Sound(Rm, AtRm, {}, {})
<1>a. SUFFICES ASSUME NEW P, NEW K, P = Rm, K = AtRm
               PROVE  Sound(P, K, {}, {})
  OBVIOUS
<1>d. DOMAIN P = {"start", "remove"}
  BY <1>a DEF Rm
<1>e. Ends = {"ok", "failed", "refused", "no_message", "not_opened"}
  BY DEF Ends
<1>1. /\ "start" \in DOMAIN P /\ P["start"] = Try({}, "remove", "failed")
      /\ K["start"] = Exactly({})
  BY <1>a DEF Rm, AtRm
<1>2. /\ "remove" \in DOMAIN P /\ P["remove"] = Try({}, "ok", "ok")
      /\ K["remove"] = Exactly({})
  BY <1>a DEF Rm, AtRm
<1>s1. StepSound(P, K, {}, {}, "start")
  BY <1>1, <1>2, <1>e, TrySound DEF Fits, Exactly, Between
<1>s2. StepSound(P, K, {}, {}, "remove")
  BY <1>2, <1>e, TrySound DEF Fits, Exactly, Between
<1> QED
  BY <1>d, <1>e, <1>1, <1>s1, <1>s2 DEF Sound, Exactly, Between

AtMv == [
  start |-> Exactly({})]

LEMMA MvSound == Sound(Mv, AtMv, {}, {})
<1>a. SUFFICES ASSUME NEW P, NEW K, P = Mv, K = AtMv
               PROVE  Sound(P, K, {}, {})
  OBVIOUS
<1>d. DOMAIN P = {"start"}
  BY <1>a DEF Mv
<1>e. Ends = {"ok", "failed", "refused", "no_message", "not_opened"}
  BY DEF Ends
<1>1. /\ "start" \in DOMAIN P /\ P["start"] = Try({}, "ok", "ok")
      /\ K["start"] = Exactly({})
  BY <1>a DEF Mv, AtMv
<1>s1. StepSound(P, K, {}, {}, "start")
  BY <1>1, <1>e, TrySound DEF Fits, Exactly, Between
<1> QED
  BY <1>d, <1>e, <1>1, <1>s1 DEF Sound, Exactly, Between

AtTouch == [
  start |-> Exactly({}),
  close |-> Exactly({"fd"})]

LEMMA TouchSound == Sound(Touch, AtTouch, {}, {})
<1>a. SUFFICES ASSUME NEW P, NEW K, P = Touch, K = AtTouch
               PROVE  Sound(P, K, {}, {})
  OBVIOUS
<1>d. DOMAIN P = {"start", "close"}
  BY <1>a DEF Touch
<1>e. Ends = {"ok", "failed", "refused", "no_message", "not_opened"}
  BY DEF Ends
<1>1. /\ "start" \in DOMAIN P /\ P["start"] = Open("fd", "close", "ok")
      /\ K["start"] = Exactly({})
  BY <1>a DEF Touch, AtTouch
<1>2. /\ "close" \in DOMAIN P /\ P["close"] = Close("fd", "ok")
      /\ K["close"] = Exactly({"fd"})
  BY <1>a DEF Touch, AtTouch
<1>s1. StepSound(P, K, {}, {}, "start")
  BY <1>1, <1>2, <1>e, OpenSound DEF Fits, Exactly, Between
<1>s2. StepSound(P, K, {}, {}, "close")
  BY <1>2, <1>e, CloseSound DEF Fits, Exactly, Between
<1> QED
  BY <1>d, <1>e, <1>1, <1>s1, <1>s2 DEF Sound, Exactly, Between

AtCat == [
  start |-> Exactly({}),
  read  |-> Exactly({"fd"}),
  close |-> Exactly({"fd"})]

LEMMA CatSound == Sound(Cat, AtCat, {}, {})
<1>a. SUFFICES ASSUME NEW P, NEW K, P = Cat, K = AtCat
               PROVE  Sound(P, K, {}, {})
  OBVIOUS
<1>d. DOMAIN P = {"start", "read", "close"}
  BY <1>a DEF Cat
<1>e. Ends = {"ok", "failed", "refused", "no_message", "not_opened"}
  BY DEF Ends
<1>1. /\ "start" \in DOMAIN P /\ P["start"] = Open("fd", "read", "failed")
      /\ K["start"] = Exactly({})
  BY <1>a DEF Cat, AtCat
<1>2. /\ "read" \in DOMAIN P /\ P["read"] = Loop({"fd"}, "read", "close")
      /\ K["read"] = Exactly({"fd"})
  BY <1>a DEF Cat, AtCat
<1>3. /\ "close" \in DOMAIN P /\ P["close"] = Close("fd", "ok")
      /\ K["close"] = Exactly({"fd"})
  BY <1>a DEF Cat, AtCat
<1>s1. StepSound(P, K, {}, {}, "start")
  BY <1>1, <1>2, <1>e, OpenSound DEF Fits, Exactly, Between
<1>s2. StepSound(P, K, {}, {}, "read")
  BY <1>2, <1>3, TrySound DEF Fits, Exactly, Between
<1>s3. StepSound(P, K, {}, {}, "close")
  BY <1>3, <1>e, CloseSound DEF Fits, Exactly, Between
<1> QED
  BY <1>d, <1>e, <1>1, <1>s1, <1>s2, <1>s3 DEF Sound, Exactly, Between

AtAppend == [
  start |-> Exactly({}),
  key   |-> Exactly({"fd"}),
  put   |-> Exactly({"fd"}),
  close |-> Exactly({"fd"})]

LEMMA AppendSound == Sound(Append, AtAppend, {}, {})
<1>a. SUFFICES ASSUME NEW P, NEW K, P = Append, K = AtAppend
               PROVE  Sound(P, K, {}, {})
  OBVIOUS
<1>d. DOMAIN P = {"start", "key", "put", "close"}
  BY <1>a DEF Append
<1>e. Ends = {"ok", "failed", "refused", "no_message", "not_opened"}
  BY DEF Ends
<1>1. /\ "start" \in DOMAIN P /\ P["start"] = Open("fd", "key", "ok")
      /\ K["start"] = Exactly({})
  BY <1>a DEF Append, AtAppend
<1>2. /\ "key" \in DOMAIN P /\ P["key"] = Key({"fd"}, "put", "close")
      /\ K["key"] = Exactly({"fd"})
  BY <1>a DEF Append, AtAppend
<1>3. /\ "put" \in DOMAIN P /\ P["put"] = Try({"fd"}, "key", "close")
      /\ K["put"] = Exactly({"fd"})
  BY <1>a DEF Append, AtAppend
<1>4. /\ "close" \in DOMAIN P /\ P["close"] = Close("fd", "ok")
      /\ K["close"] = Exactly({"fd"})
  BY <1>a DEF Append, AtAppend
<1>s1. StepSound(P, K, {}, {}, "start")
  BY <1>1, <1>2, <1>e, OpenSound DEF Fits, Exactly, Between
<1>s2. StepSound(P, K, {}, {}, "key")
  BY <1>2, <1>3, <1>4, TrySound DEF Fits, Exactly, Between
<1>s3. StepSound(P, K, {}, {}, "put")
  BY <1>3, <1>2, <1>4, TrySound DEF Fits, Exactly, Between
<1>s4. StepSound(P, K, {}, {}, "close")
  BY <1>4, <1>e, CloseSound DEF Fits, Exactly, Between
<1> QED
  BY <1>d, <1>e, <1>1, <1>s1, <1>s2, <1>s3, <1>s4 DEF Sound, Exactly, Between

AtChksum == [
  start |-> Exactly({}),
  read  |-> Exactly({"fp"}),
  close |-> Exactly({"fp"})]

LEMMA ChksumSound == Sound(Chksum, AtChksum, {}, {})
<1>a. SUFFICES ASSUME NEW P, NEW K, P = Chksum, K = AtChksum
               PROVE  Sound(P, K, {}, {})
  OBVIOUS
<1>d. DOMAIN P = {"start", "read", "close"}
  BY <1>a DEF Chksum
<1>e. Ends = {"ok", "failed", "refused", "no_message", "not_opened"}
  BY DEF Ends
<1>1. /\ "start" \in DOMAIN P /\ P["start"] = Open("fp", "read", "failed")
      /\ K["start"] = Exactly({})
  BY <1>a DEF Chksum, AtChksum
<1>2. /\ "read" \in DOMAIN P /\ P["read"] = Loop({"fp"}, "read", "close")
      /\ K["read"] = Exactly({"fp"})
  BY <1>a DEF Chksum, AtChksum
<1>3. /\ "close" \in DOMAIN P /\ P["close"] = Close("fp", "ok")
      /\ K["close"] = Exactly({"fp"})
  BY <1>a DEF Chksum, AtChksum
<1>s1. StepSound(P, K, {}, {}, "start")
  BY <1>1, <1>2, <1>e, OpenSound DEF Fits, Exactly, Between
<1>s2. StepSound(P, K, {}, {}, "read")
  BY <1>2, <1>3, TrySound DEF Fits, Exactly, Between
<1>s3. StepSound(P, K, {}, {}, "close")
  BY <1>3, <1>e, CloseSound DEF Fits, Exactly, Between
<1> QED
  BY <1>d, <1>e, <1>1, <1>s1, <1>s2, <1>s3 DEF Sound, Exactly, Between

AtHexdump == [
  start    |-> Exactly({}),
  stat     |-> Exactly({"fp"}),
  buf      |-> Exactly({"fp"}),
  read     |-> Exactly({"buf", "fp"}),
  dump     |-> Exactly({"buf", "fp"}),
  err      |-> Exactly({"buf", "fp"}),
  err_stat |-> Exactly({"fp"})]

LEMMA HexdumpSound == Sound(Hexdump, AtHexdump, {}, {})
<1>a. SUFFICES ASSUME NEW P, NEW K, P = Hexdump, K = AtHexdump
               PROVE  Sound(P, K, {}, {})
  OBVIOUS
<1>d. DOMAIN P = {"start", "stat", "buf", "read", "dump", "err", "err_stat"}
  BY <1>a DEF Hexdump
<1>e. Ends = {"ok", "failed", "refused", "no_message", "not_opened"}
  BY DEF Ends
<1>1. /\ "start" \in DOMAIN P /\ P["start"] = Open("fp", "stat", "ok")
      /\ K["start"] = Exactly({})
  BY <1>a DEF Hexdump, AtHexdump
<1>2. /\ "stat" \in DOMAIN P /\ P["stat"] = Try({"fp"}, "buf", "err_stat")
      /\ K["stat"] = Exactly({"fp"})
  BY <1>a DEF Hexdump, AtHexdump
<1>3. /\ "buf" \in DOMAIN P /\ P["buf"] = Open("buf", "read", "err_stat")
      /\ K["buf"] = Exactly({"fp"})
  BY <1>a DEF Hexdump, AtHexdump
<1>4. /\ "read" \in DOMAIN P /\ P["read"] = Try({"fp", "buf"}, "dump", "err")
      /\ K["read"] = Exactly({"buf", "fp"})
  BY <1>a DEF Hexdump, AtHexdump
<1>5. /\ "dump" \in DOMAIN P /\ P["dump"] = Try({"buf"}, "err", "err")
      /\ K["dump"] = Exactly({"buf", "fp"})
  BY <1>a DEF Hexdump, AtHexdump
<1>6. /\ "err" \in DOMAIN P /\ P["err"] = Close("buf", "err_stat")
      /\ K["err"] = Exactly({"buf", "fp"})
  BY <1>a DEF Hexdump, AtHexdump
<1>7. /\ "err_stat" \in DOMAIN P /\ P["err_stat"] = Close("fp", "ok")
      /\ K["err_stat"] = Exactly({"fp"})
  BY <1>a DEF Hexdump, AtHexdump
<1>s1. StepSound(P, K, {}, {}, "start")
  BY <1>1, <1>2, <1>e, OpenSound DEF Fits, Exactly, Between
<1>s2. StepSound(P, K, {}, {}, "stat")
  BY <1>2, <1>3, <1>7, TrySound DEF Fits, Exactly, Between
<1>s3. StepSound(P, K, {}, {}, "buf")
  BY <1>3, <1>4, <1>7, OpenSound DEF Fits, Exactly, Between
<1>s4. StepSound(P, K, {}, {}, "read")
  BY <1>4, <1>5, <1>6, TrySound DEF Fits, Exactly, Between
<1>s5. StepSound(P, K, {}, {}, "dump")
  BY <1>5, <1>6, TrySound DEF Fits, Exactly, Between
<1>s6. StepSound(P, K, {}, {}, "err")
  BY <1>6, <1>7, CloseSound DEF Fits, Exactly, Between
<1>s7. StepSound(P, K, {}, {}, "err_stat")
  BY <1>7, <1>e, CloseSound DEF Fits, Exactly, Between
<1> QED
  BY <1>d, <1>e, <1>1, <1>s1, <1>s2, <1>s3, <1>s4, <1>s5, <1>s6, <1>s7
     DEF Sound, Exactly, Between

AtCompress == [
  start        |-> Exactly({}),
  create       |-> Exactly({"fd"}),
  close_fd     |-> Exactly({"fd"}),
  stat         |-> Exactly({"comp", "fd"}),
  inbuf        |-> Exactly({"comp", "fd"}),
  read         |-> Exactly({"comp", "fd", "inbuf"}),
  outbuf       |-> Exactly({"comp", "fd", "inbuf"}),
  pack         |-> Exactly({"comp", "fd", "inbuf", "outbuf"}),
  write        |-> Exactly({"comp", "fd", "inbuf", "outbuf"}),
  free_in      |-> Exactly({"comp", "fd", "inbuf", "outbuf"}),
  free_out     |-> Exactly({"comp", "fd", "outbuf"}),
  close_in     |-> Exactly({"comp", "fd"}),
  close_out    |-> Exactly({"comp"}),
  err_compress |-> Exactly({"comp", "fd", "inbuf", "outbuf"}),
  err_read     |-> Exactly({"comp", "fd", "inbuf"}),
  err_stat     |-> Exactly({"comp", "fd"}),
  err_comp     |-> Exactly({"comp"})]

LEMMA CompressSound == Sound(Compress, AtCompress, {}, {})
<1>a. SUFFICES ASSUME NEW P, NEW K, P = Compress, K = AtCompress
               PROVE  Sound(P, K, {}, {})
  OBVIOUS
<1>d. DOMAIN P = {"start", "create", "close_fd", "stat", "inbuf", "read",
                  "outbuf", "pack", "write", "free_in", "free_out",
                  "close_in", "close_out", "err_compress", "err_read",
                  "err_stat", "err_comp"}
  BY <1>a DEF Compress
<1>e. Ends = {"ok", "failed", "refused", "no_message", "not_opened"}
  BY DEF Ends
<1>1. /\ "start" \in DOMAIN P /\ P["start"] = Open("fd", "create", "failed")
      /\ K["start"] = Exactly({})
  BY <1>a DEF Compress, AtCompress
<1>2. /\ "create" \in DOMAIN P
      /\ P["create"] = Open("comp", "stat", "close_fd")
      /\ K["create"] = Exactly({"fd"})
  BY <1>a DEF Compress, AtCompress
<1>3. /\ "close_fd" \in DOMAIN P /\ P["close_fd"] = Close("fd", "failed")
      /\ K["close_fd"] = Exactly({"fd"})
  BY <1>a DEF Compress, AtCompress
<1>4. /\ "stat" \in DOMAIN P /\ P["stat"] = Try({"fd"}, "inbuf", "err_stat")
      /\ K["stat"] = Exactly({"comp", "fd"})
  BY <1>a DEF Compress, AtCompress
<1>5. /\ "inbuf" \in DOMAIN P /\ P["inbuf"] = Open("inbuf", "read", "err_stat")
      /\ K["inbuf"] = Exactly({"comp", "fd"})
  BY <1>a DEF Compress, AtCompress
<1>6. /\ "read" \in DOMAIN P
      /\ P["read"] = Try({"fd", "inbuf"}, "outbuf", "err_read")
      /\ K["read"] = Exactly({"comp", "fd", "inbuf"})
  BY <1>a DEF Compress, AtCompress
<1>7. /\ "outbuf" \in DOMAIN P
      /\ P["outbuf"] = Open("outbuf", "pack", "err_read")
      /\ K["outbuf"] = Exactly({"comp", "fd", "inbuf"})
  BY <1>a DEF Compress, AtCompress
<1>8. /\ "pack" \in DOMAIN P
      /\ P["pack"] = Try({"inbuf", "outbuf"}, "write", "err_compress")
      /\ K["pack"] = Exactly({"comp", "fd", "inbuf", "outbuf"})
  BY <1>a DEF Compress, AtCompress
<1>9. /\ "write" \in DOMAIN P
      /\ P["write"] = Try({"outbuf", "comp"}, "free_in", "err_compress")
      /\ K["write"] = Exactly({"comp", "fd", "inbuf", "outbuf"})
  BY <1>a DEF Compress, AtCompress
<1>10. /\ "free_in" \in DOMAIN P /\ P["free_in"] = Close("inbuf", "free_out")
       /\ K["free_in"] = Exactly({"comp", "fd", "inbuf", "outbuf"})
  BY <1>a DEF Compress, AtCompress
<1>11. /\ "free_out" \in DOMAIN P
       /\ P["free_out"] = Close("outbuf", "close_in")
       /\ K["free_out"] = Exactly({"comp", "fd", "outbuf"})
  BY <1>a DEF Compress, AtCompress
<1>12. /\ "close_in" \in DOMAIN P /\ P["close_in"] = Close("fd", "close_out")
       /\ K["close_in"] = Exactly({"comp", "fd"})
  BY <1>a DEF Compress, AtCompress
<1>13. /\ "close_out" \in DOMAIN P /\ P["close_out"] = Close("comp", "ok")
       /\ K["close_out"] = Exactly({"comp"})
  BY <1>a DEF Compress, AtCompress
<1>14. /\ "err_compress" \in DOMAIN P
       /\ P["err_compress"] = Close("outbuf", "err_read")
       /\ K["err_compress"] = Exactly({"comp", "fd", "inbuf", "outbuf"})
  BY <1>a DEF Compress, AtCompress
<1>15. /\ "err_read" \in DOMAIN P /\ P["err_read"] = Close("inbuf", "err_stat")
       /\ K["err_read"] = Exactly({"comp", "fd", "inbuf"})
  BY <1>a DEF Compress, AtCompress
<1>16. /\ "err_stat" \in DOMAIN P /\ P["err_stat"] = Close("fd", "err_comp")
       /\ K["err_stat"] = Exactly({"comp", "fd"})
  BY <1>a DEF Compress, AtCompress
<1>17. /\ "err_comp" \in DOMAIN P /\ P["err_comp"] = Close("comp", "failed")
       /\ K["err_comp"] = Exactly({"comp"})
  BY <1>a DEF Compress, AtCompress
<1>s1. StepSound(P, K, {}, {}, "start")
  BY <1>1, <1>2, <1>e, OpenSound DEF Fits, Exactly, Between
<1>s2. StepSound(P, K, {}, {}, "create")
  BY <1>2, <1>4, <1>3, OpenSound DEF Fits, Exactly, Between
<1>s3. StepSound(P, K, {}, {}, "close_fd")
  BY <1>3, <1>e, CloseSound DEF Fits, Exactly, Between
<1>s4. StepSound(P, K, {}, {}, "stat")
  BY <1>4, <1>5, <1>16, TrySound DEF Fits, Exactly, Between
<1>s5. StepSound(P, K, {}, {}, "inbuf")
  BY <1>5, <1>6, <1>16, OpenSound DEF Fits, Exactly, Between
<1>s6. StepSound(P, K, {}, {}, "read")
  BY <1>6, <1>7, <1>15, TrySound DEF Fits, Exactly, Between
<1>s7. StepSound(P, K, {}, {}, "outbuf")
  BY <1>7, <1>8, <1>15, OpenSound DEF Fits, Exactly, Between
<1>s8. StepSound(P, K, {}, {}, "pack")
  BY <1>8, <1>9, <1>14, TrySound DEF Fits, Exactly, Between
<1>s9. StepSound(P, K, {}, {}, "write")
  BY <1>9, <1>10, <1>14, TrySound DEF Fits, Exactly, Between
<1>s10. StepSound(P, K, {}, {}, "free_in")
  BY <1>10, <1>11, CloseSound DEF Fits, Exactly, Between
<1>s11. StepSound(P, K, {}, {}, "free_out")
  BY <1>11, <1>12, CloseSound DEF Fits, Exactly, Between
<1>s12. StepSound(P, K, {}, {}, "close_in")
  BY <1>12, <1>13, CloseSound DEF Fits, Exactly, Between
<1>s13. StepSound(P, K, {}, {}, "close_out")
  BY <1>13, <1>e, CloseSound DEF Fits, Exactly, Between
<1>s14. StepSound(P, K, {}, {}, "err_compress")
  BY <1>14, <1>15, CloseSound DEF Fits, Exactly, Between
<1>s15. StepSound(P, K, {}, {}, "err_read")
  BY <1>15, <1>16, CloseSound DEF Fits, Exactly, Between
<1>s16. StepSound(P, K, {}, {}, "err_stat")
  BY <1>16, <1>17, CloseSound DEF Fits, Exactly, Between
<1>s17. StepSound(P, K, {}, {}, "err_comp")
  BY <1>17, <1>e, CloseSound DEF Fits, Exactly, Between
<1> QED
  BY <1>d, <1>e, <1>1, <1>s1, <1>s2, <1>s3, <1>s4, <1>s5, <1>s6, <1>s7, <1>s8,
     <1>s9, <1>s10, <1>s11, <1>s12, <1>s13, <1>s14, <1>s15, <1>s16, <1>s17
     DEF Sound, Exactly, Between

AtLsToSd == [
  start      |-> Between({}, {}, {"comp", "dirp", "inbuf", "outbuf"}),
  inbuf      |-> Between({"dirp"}, {"dirp"},
                         {"comp", "dirp", "inbuf", "outbuf"}),
  head       |-> Between({"dirp", "inbuf"}, {"dirp", "inbuf"},
                         {"comp", "dirp", "inbuf", "outbuf"}),
  next       |-> Between({"dirp", "inbuf"}, {"dirp", "inbuf"},
                         {"comp", "dirp", "inbuf", "outbuf"}),
  entry      |-> Between({"dirp", "inbuf"}, {"dirp", "inbuf"},
                         {"comp", "dirp", "inbuf", "outbuf"}),
  under      |-> Between({"dirp", "inbuf"}, {"dirp", "inbuf"},
                         {"comp", "dirp", "inbuf", "outbuf"}),
  leave      |-> Between({"dirp", "inbuf", "sub"}, {"dirp", "inbuf", "sub"},
                         {"comp", "dirp", "inbuf", "outbuf"}),
  line       |-> Between({"dirp", "inbuf"}, {"dirp", "inbuf"},
                         {"comp", "dirp", "inbuf", "outbuf"}),
  closedir   |-> Between({"dirp", "inbuf"}, {"dirp", "inbuf"},
                         {"comp", "dirp", "inbuf", "outbuf"}),
  no_dirp    |-> Between({"inbuf"}, {"inbuf"}, {"comp", "inbuf", "outbuf"}),
  outbuf     |-> Between({"inbuf"}, {"inbuf"},
                         {"comp", "dirp", "inbuf", "outbuf"}),
  pack       |-> Between({"inbuf", "outbuf"}, {"inbuf", "outbuf"},
                         {"comp", "dirp", "inbuf", "outbuf"}),
  create     |-> Between({"inbuf", "outbuf"}, {"inbuf", "outbuf"},
                         {"comp", "dirp", "inbuf", "outbuf"}),
  write      |-> Between({"comp", "inbuf", "outbuf"},
                         {"comp", "inbuf", "outbuf"},
                         {"comp", "dirp", "inbuf", "outbuf"}),
  fclose     |-> Between({"comp", "inbuf", "outbuf"},
                         {"comp", "inbuf", "outbuf"},
                         {"comp", "dirp", "inbuf", "outbuf"}),
  no_comp    |-> Between({"inbuf", "outbuf"}, {"inbuf", "outbuf"},
                         {"dirp", "inbuf", "outbuf"}),
  free_out   |-> Between({"inbuf", "outbuf"}, {"inbuf", "outbuf"},
                         {"comp", "dirp", "inbuf", "outbuf"}),
  free_in    |-> Between({"inbuf"}, {"inbuf"}, {"comp", "dirp", "inbuf"}),
  err        |-> Between({}, {"comp", "dirp", "inbuf", "outbuf"},
                         {"comp", "dirp", "inbuf", "outbuf"}),
  err_dirp   |-> Between({"dirp"}, {"comp", "dirp", "inbuf", "outbuf"},
                         {"comp", "dirp", "inbuf", "outbuf"}),
  err2       |-> Between({}, {"comp", "inbuf", "outbuf"},
                         {"comp", "inbuf", "outbuf"}),
  err_comp   |-> Between({"comp"}, {"comp", "inbuf", "outbuf"},
                         {"comp", "inbuf", "outbuf"}),
  err3       |-> Between({}, {"inbuf", "outbuf"}, {"inbuf", "outbuf"}),
  err_inbuf  |-> Between({"inbuf"}, {"inbuf", "outbuf"}, {"inbuf", "outbuf"}),
  err4       |-> Between({}, {"outbuf"}, {"outbuf"}),
  err_outbuf |-> Between({"outbuf"}, {"outbuf"}, {"outbuf"})]

LEMMA LsToSdSound == Sound(LsToSd, AtLsToSd, {}, {})
<1>a. SUFFICES ASSUME NEW P, NEW K, P = LsToSd, K = AtLsToSd
               PROVE  Sound(P, K, {}, {})
  OBVIOUS
<1>d. DOMAIN P = {"start", "inbuf", "head", "next", "entry", "under",
                  "leave", "line", "closedir", "no_dirp", "outbuf", "pack",
                  "create", "write", "fclose", "no_comp", "free_out",
                  "free_in", "err", "err_dirp", "err2", "err_comp", "err3",
                  "err_inbuf", "err4", "err_outbuf"}
  BY <1>a DEF LsToSd
<1>e. Ends = {"ok", "failed", "refused", "no_message", "not_opened"}
  BY DEF Ends
<1>1. /\ "start" \in DOMAIN P /\ P["start"] = Open("dirp", "inbuf", "failed")
      /\ K["start"] = Between({}, {}, {"comp", "dirp", "inbuf", "outbuf"})
  BY <1>a DEF LsToSd, AtLsToSd
<1>2. /\ "inbuf" \in DOMAIN P /\ P["inbuf"] = Open("inbuf", "head", "err")
      /\ K["inbuf"] = Between({"dirp"}, {"dirp"},
                              {"comp", "dirp", "inbuf", "outbuf"})
  BY <1>a DEF LsToSd, AtLsToSd
<1>3. /\ "head" \in DOMAIN P /\ P["head"] = Try({"inbuf"}, "next", "err")
      /\ K["head"] = Between({"dirp", "inbuf"}, {"dirp", "inbuf"},
                             {"comp", "dirp", "inbuf", "outbuf"})
  BY <1>a DEF LsToSd, AtLsToSd
<1>4. /\ "next" \in DOMAIN P
      /\ P["next"] = Loop({"dirp", "inbuf"}, "entry", "closedir")
      /\ K["next"] = Between({"dirp", "inbuf"}, {"dirp", "inbuf"},
                             {"comp", "dirp", "inbuf", "outbuf"})
  BY <1>a DEF LsToSd, AtLsToSd
<1>5. /\ "entry" \in DOMAIN P /\ P["entry"] = Try({"dirp"}, "under", "line")
      /\ K["entry"] = Between({"dirp", "inbuf"}, {"dirp", "inbuf"},
                              {"comp", "dirp", "inbuf", "outbuf"})
  BY <1>a DEF LsToSd, AtLsToSd
<1>6. /\ "under" \in DOMAIN P /\ P["under"] = Open("sub", "leave", "line")
      /\ K["under"] = Between({"dirp", "inbuf"}, {"dirp", "inbuf"},
                              {"comp", "dirp", "inbuf", "outbuf"})
  BY <1>a DEF LsToSd, AtLsToSd
<1>7. /\ "leave" \in DOMAIN P /\ P["leave"] = Close("sub", "line")
      /\ K["leave"] = Between({"dirp", "inbuf", "sub"},
                              {"dirp", "inbuf", "sub"},
                              {"comp", "dirp", "inbuf", "outbuf"})
  BY <1>a DEF LsToSd, AtLsToSd
<1>8. /\ "line" \in DOMAIN P /\ P["line"] = Try({"inbuf"}, "next", "err")
      /\ K["line"] = Between({"dirp", "inbuf"}, {"dirp", "inbuf"},
                             {"comp", "dirp", "inbuf", "outbuf"})
  BY <1>a DEF LsToSd, AtLsToSd
<1>9. /\ "closedir" \in DOMAIN P /\ P["closedir"] = Close("dirp", "no_dirp")
      /\ K["closedir"] = Between({"dirp", "inbuf"}, {"dirp", "inbuf"},
                                 {"comp", "dirp", "inbuf", "outbuf"})
  BY <1>a DEF LsToSd, AtLsToSd
<1>10. /\ "no_dirp" \in DOMAIN P /\ P["no_dirp"] = Null("dirp", "outbuf")
       /\ K["no_dirp"] = Between({"inbuf"}, {"inbuf"},
                                 {"comp", "inbuf", "outbuf"})
  BY <1>a DEF LsToSd, AtLsToSd
<1>11. /\ "outbuf" \in DOMAIN P /\ P["outbuf"] = Open("outbuf", "pack", "err")
       /\ K["outbuf"] = Between({"inbuf"}, {"inbuf"},
                                {"comp", "dirp", "inbuf", "outbuf"})
  BY <1>a DEF LsToSd, AtLsToSd
<1>12. /\ "pack" \in DOMAIN P
       /\ P["pack"] = Try({"inbuf", "outbuf"}, "create", "err")
       /\ K["pack"] = Between({"inbuf", "outbuf"}, {"inbuf", "outbuf"},
                              {"comp", "dirp", "inbuf", "outbuf"})
  BY <1>a DEF LsToSd, AtLsToSd
<1>13. /\ "create" \in DOMAIN P /\ P["create"] = Open("comp", "write", "err")
       /\ K["create"] = Between({"inbuf", "outbuf"}, {"inbuf", "outbuf"},
                                {"comp", "dirp", "inbuf", "outbuf"})
  BY <1>a DEF LsToSd, AtLsToSd
<1>14. /\ "write" \in DOMAIN P
       /\ P["write"] = Try({"outbuf", "comp"}, "fclose", "err")
       /\ K["write"] = Between({"comp", "inbuf", "outbuf"},
                               {"comp", "inbuf", "outbuf"},
                               {"comp", "dirp", "inbuf", "outbuf"})
  BY <1>a DEF LsToSd, AtLsToSd
<1>15. /\ "fclose" \in DOMAIN P /\ P["fclose"] = Close("comp", "no_comp")
       /\ K["fclose"] = Between({"comp", "inbuf", "outbuf"},
                                {"comp", "inbuf", "outbuf"},
                                {"comp", "dirp", "inbuf", "outbuf"})
  BY <1>a DEF LsToSd, AtLsToSd
<1>16. /\ "no_comp" \in DOMAIN P /\ P["no_comp"] = Null("comp", "free_out")
       /\ K["no_comp"] = Between({"inbuf", "outbuf"}, {"inbuf", "outbuf"},
                                 {"dirp", "inbuf", "outbuf"})
  BY <1>a DEF LsToSd, AtLsToSd
<1>17. /\ "free_out" \in DOMAIN P /\ P["free_out"] = Close("outbuf", "free_in")
       /\ K["free_out"] = Between({"inbuf", "outbuf"}, {"inbuf", "outbuf"},
                                  {"comp", "dirp", "inbuf", "outbuf"})
  BY <1>a DEF LsToSd, AtLsToSd
<1>18. /\ "free_in" \in DOMAIN P /\ P["free_in"] = Close("inbuf", "ok")
       /\ K["free_in"] = Between({"inbuf"}, {"inbuf"},
                                 {"comp", "dirp", "inbuf"})
  BY <1>a DEF LsToSd, AtLsToSd
<1>19. /\ "err" \in DOMAIN P /\ P["err"] = IfSet("dirp", "err_dirp", "err2")
       /\ K["err"] = Between({}, {"comp", "dirp", "inbuf", "outbuf"},
                             {"comp", "dirp", "inbuf", "outbuf"})
  BY <1>a DEF LsToSd, AtLsToSd
<1>20. /\ "err_dirp" \in DOMAIN P /\ P["err_dirp"] = Close("dirp", "err2")
       /\ K["err_dirp"] = Between({"dirp"},
                                  {"comp", "dirp", "inbuf", "outbuf"},
                                  {"comp", "dirp", "inbuf", "outbuf"})
  BY <1>a DEF LsToSd, AtLsToSd
<1>21. /\ "err2" \in DOMAIN P /\ P["err2"] = IfSet("comp", "err_comp", "err3")
       /\ K["err2"] = Between({}, {"comp", "inbuf", "outbuf"},
                              {"comp", "inbuf", "outbuf"})
  BY <1>a DEF LsToSd, AtLsToSd
<1>22. /\ "err_comp" \in DOMAIN P /\ P["err_comp"] = Close("comp", "err3")
       /\ K["err_comp"] = Between({"comp"}, {"comp", "inbuf", "outbuf"},
                                  {"comp", "inbuf", "outbuf"})
  BY <1>a DEF LsToSd, AtLsToSd
<1>23. /\ "err3" \in DOMAIN P
       /\ P["err3"] = IfSet("inbuf", "err_inbuf", "err4")
       /\ K["err3"] = Between({}, {"inbuf", "outbuf"}, {"inbuf", "outbuf"})
  BY <1>a DEF LsToSd, AtLsToSd
<1>24. /\ "err_inbuf" \in DOMAIN P /\ P["err_inbuf"] = Close("inbuf", "err4")
       /\ K["err_inbuf"] = Between({"inbuf"}, {"inbuf", "outbuf"},
                                   {"inbuf", "outbuf"})
  BY <1>a DEF LsToSd, AtLsToSd
<1>25. /\ "err4" \in DOMAIN P
       /\ P["err4"] = IfSet("outbuf", "err_outbuf", "failed")
       /\ K["err4"] = Between({}, {"outbuf"}, {"outbuf"})
  BY <1>a DEF LsToSd, AtLsToSd
<1>26. /\ "err_outbuf" \in DOMAIN P
       /\ P["err_outbuf"] = Close("outbuf", "failed")
       /\ K["err_outbuf"] = Between({"outbuf"}, {"outbuf"}, {"outbuf"})
  BY <1>a DEF LsToSd, AtLsToSd
<1>s1. StepSound(P, K, {}, {}, "start")
  BY <1>1, <1>2, <1>e, OpenSound DEF Fits, Exactly, Between
<1>s2. StepSound(P, K, {}, {}, "inbuf")
  BY <1>2, <1>3, <1>19, OpenSound DEF Fits, Exactly, Between
<1>s3. StepSound(P, K, {}, {}, "head")
  BY <1>3, <1>4, <1>19, TrySound DEF Fits, Exactly, Between
<1>s4. StepSound(P, K, {}, {}, "next")
  BY <1>4, <1>5, <1>9, TrySound DEF Fits, Exactly, Between
<1>s5. StepSound(P, K, {}, {}, "entry")
  BY <1>5, <1>6, <1>8, TrySound DEF Fits, Exactly, Between
<1>s6. StepSound(P, K, {}, {}, "under")
  BY <1>6, <1>7, <1>8, OpenSound DEF Fits, Exactly, Between
<1>s7. StepSound(P, K, {}, {}, "leave")
  BY <1>7, <1>8, CloseSound DEF Fits, Exactly, Between
<1>s8. StepSound(P, K, {}, {}, "line")
  BY <1>8, <1>4, <1>19, TrySound DEF Fits, Exactly, Between
<1>s9. StepSound(P, K, {}, {}, "closedir")
  BY <1>9, <1>10, CloseSound DEF Fits, Exactly, Between
<1>s10. StepSound(P, K, {}, {}, "no_dirp")
  BY <1>10, <1>11, NullSound DEF Fits, Exactly, Between
<1>s11. StepSound(P, K, {}, {}, "outbuf")
  BY <1>11, <1>12, <1>19, OpenSound DEF Fits, Exactly, Between
<1>s12. StepSound(P, K, {}, {}, "pack")
  BY <1>12, <1>13, <1>19, TrySound DEF Fits, Exactly, Between
<1>s13. StepSound(P, K, {}, {}, "create")
  BY <1>13, <1>14, <1>19, OpenSound DEF Fits, Exactly, Between
<1>s14. StepSound(P, K, {}, {}, "write")
  BY <1>14, <1>15, <1>19, TrySound DEF Fits, Exactly, Between
<1>s15. StepSound(P, K, {}, {}, "fclose")
  BY <1>15, <1>16, CloseSound DEF Fits, Exactly, Between
<1>s16. StepSound(P, K, {}, {}, "no_comp")
  BY <1>16, <1>17, NullSound DEF Fits, Exactly, Between
<1>s17. StepSound(P, K, {}, {}, "free_out")
  BY <1>17, <1>18, CloseSound DEF Fits, Exactly, Between
<1>s18. StepSound(P, K, {}, {}, "free_in")
  BY <1>18, <1>e, CloseSound DEF Fits, Exactly, Between
<1>s19. StepSound(P, K, {}, {}, "err")
  BY <1>19, <1>20, <1>21, IfSetSound DEF Fits, Exactly, Between
<1>s20. StepSound(P, K, {}, {}, "err_dirp")
  BY <1>20, <1>21, CloseSound DEF Fits, Exactly, Between
<1>s21. StepSound(P, K, {}, {}, "err2")
  BY <1>21, <1>22, <1>23, IfSetSound DEF Fits, Exactly, Between
<1>s22. StepSound(P, K, {}, {}, "err_comp")
  BY <1>22, <1>23, CloseSound DEF Fits, Exactly, Between
<1>s23. StepSound(P, K, {}, {}, "err3")
  BY <1>23, <1>24, <1>25, IfSetSound DEF Fits, Exactly, Between
<1>s24. StepSound(P, K, {}, {}, "err_inbuf")
  BY <1>24, <1>25, CloseSound DEF Fits, Exactly, Between
<1>s25. StepSound(P, K, {}, {}, "err4")
  BY <1>25, <1>26, <1>e, IfSetSound DEF Fits, Exactly, Between
<1>s26. StepSound(P, K, {}, {}, "err_outbuf")
  BY <1>26, <1>e, CloseSound DEF Fits, Exactly, Between
<1> QED
  BY <1>d, <1>e, <1>1, <1>s1, <1>s2, <1>s3, <1>s4, <1>s5, <1>s6, <1>s7, <1>s8,
     <1>s9, <1>s10, <1>s11, <1>s12, <1>s13, <1>s14, <1>s15, <1>s16, <1>s17,
     <1>s18, <1>s19, <1>s20, <1>s21, <1>s22, <1>s23, <1>s24, <1>s25, <1>s26
     DEF Sound, Exactly, Between

-----------------------------------------------------------------------------
(* What the commands of the ground hold.  Two of them have labels that use *)
(* what was never looked at, and ends that leave something.                *)

PacketBlind == {"question"}
PacketLeft == {<<"refused", "command">>, <<"no_message", "command">>}
FileBlind == {"clear", "transact"}
FileLeft == {<<"not_opened", "buf">>, <<"not_opened", "line">>,
             <<"not_opened", "response">>}

AtPacket == [
  start        |-> Between({}, {}, {"command"}),
  type         |-> Between({}, {"command"}, {"command"}),
  char         |-> Between({}, {"command"}, {"command"}),
  keep         |-> Between({}, {"command"}, {"command"}),
  again        |-> Between({}, {}, {"command"}),
  put          |-> Between({"command"}, {"command"}, {"command"}),
  leave        |-> Between({}, {"command"}, {"command"}),
  question     |-> Between({}, {"command"}, {"command"}),
  answer       |-> Between({}, {"command"}, {"command"}),
  message      |-> Between({}, {"command"}, {"command"}),
  copy         |-> Between({"message"}, {"command", "message"}, {"command"}),
  chars        |-> Between({"command", "message"}, {"command", "message"},
                           {"command"}),
  send         |-> Between({"message"}, {"command", "message"}, {"command"}),
  free_message |-> Between({"message"}, {"command", "message"}, {"command"}),
  free_command |-> Between({}, {"command"}, {"command"}),
  free         |-> Between({"command"}, {"command"}, {"command"})]

LEMMA PacketSound == Sound(Packet, AtPacket, PacketBlind, PacketLeft)
<1>a. SUFFICES ASSUME NEW P, NEW K, P = Packet, K = AtPacket
               PROVE  Sound(P, K, PacketBlind, PacketLeft)
  OBVIOUS
<1>d. DOMAIN P = {"start", "type", "char", "keep", "again", "put", "leave",
                  "question", "answer", "message", "copy", "chars", "send",
                  "free_message", "free_command", "free"}
  BY <1>a DEF Packet
<1>e. Ends = {"ok", "failed", "refused", "no_message", "not_opened"}
  BY DEF Ends
<1>1. /\ "start" \in DOMAIN P /\ P["start"] = Open("command", "type", "type")
      /\ K["start"] = Between({}, {}, {"command"})
  BY <1>a DEF Packet, AtPacket
<1>2. /\ "type" \in DOMAIN P /\ P["type"] = Key({}, "char", "leave")
      /\ K["type"] = Between({}, {"command"}, {"command"})
  BY <1>a DEF Packet, AtPacket
<1>3. /\ "char" \in DOMAIN P /\ P["char"] = Try({}, "keep", "type")
      /\ K["char"] = Between({}, {"command"}, {"command"})
  BY <1>a DEF Packet, AtPacket
<1>4. /\ "keep" \in DOMAIN P /\ P["keep"] = IfSet("command", "put", "again")
      /\ K["keep"] = Between({}, {"command"}, {"command"})
  BY <1>a DEF Packet, AtPacket
<1>5. /\ "again" \in DOMAIN P /\ P["again"] = Open("command", "put", "type")
      /\ K["again"] = Between({}, {}, {"command"})
  BY <1>a DEF Packet, AtPacket
<1>6. /\ "put" \in DOMAIN P /\ P["put"] = Try({"command"}, "type", "type")
      /\ K["put"] = Between({"command"}, {"command"}, {"command"})
  BY <1>a DEF Packet, AtPacket
<1>7. /\ "leave" \in DOMAIN P /\ P["leave"] = Try({}, "question", "message")
      /\ K["leave"] = Between({}, {"command"}, {"command"})
  BY <1>a DEF Packet, AtPacket
<1>8. /\ "question" \in DOMAIN P /\ P["question"] = Show("command", "answer")
      /\ K["question"] = Between({}, {"command"}, {"command"})
  BY <1>a DEF Packet, AtPacket
<1>9. /\ "answer" \in DOMAIN P /\ P["answer"] = Key({}, "message", "refused")
      /\ K["answer"] = Between({}, {"command"}, {"command"})
  BY <1>a DEF Packet, AtPacket
<1>10. /\ "message" \in DOMAIN P
       /\ P["message"] = Open("message", "copy", "no_message")
       /\ K["message"] = Between({}, {"command"}, {"command"})
  BY <1>a DEF Packet, AtPacket
<1>11. /\ "copy" \in DOMAIN P /\ P["copy"] = IfSet("command", "chars", "send")
       /\ K["copy"] = Between({"message"}, {"command", "message"}, {"command"})
  BY <1>a DEF Packet, AtPacket
<1>12. /\ "chars" \in DOMAIN P
       /\ P["chars"] = Loop({"command", "message"}, "chars", "send")
       /\ K["chars"] = Between({"command", "message"}, {"command", "message"},
                               {"command"})
  BY <1>a DEF Packet, AtPacket
<1>13. /\ "send" \in DOMAIN P
       /\ P["send"] = Try({"message"}, "free_message", "free_message")
       /\ K["send"] = Between({"message"}, {"command", "message"}, {"command"})
  BY <1>a DEF Packet, AtPacket
<1>14. /\ "free_message" \in DOMAIN P
       /\ P["free_message"] = Close("message", "free_command")
       /\ K["free_message"] = Between({"message"}, {"command", "message"},
                                      {"command"})
  BY <1>a DEF Packet, AtPacket
<1>15. /\ "free_command" \in DOMAIN P
       /\ P["free_command"] = IfSet("command", "free", "ok")
       /\ K["free_command"] = Between({}, {"command"}, {"command"})
  BY <1>a DEF Packet, AtPacket
<1>16. /\ "free" \in DOMAIN P /\ P["free"] = Close("command", "ok")
       /\ K["free"] = Between({"command"}, {"command"}, {"command"})
  BY <1>a DEF Packet, AtPacket
<1>s1. StepSound(P, K, PacketBlind, PacketLeft, "start")
  BY <1>1, <1>2, OpenSound DEF Fits, Exactly, Between
<1>s2. StepSound(P, K, PacketBlind, PacketLeft, "type")
  BY <1>2, <1>3, <1>7, TrySound DEF Fits, Exactly, Between
<1>s3. StepSound(P, K, PacketBlind, PacketLeft, "char")
  BY <1>3, <1>4, <1>2, TrySound DEF Fits, Exactly, Between
<1>s4. StepSound(P, K, PacketBlind, PacketLeft, "keep")
  BY <1>4, <1>6, <1>5, IfSetSound DEF Fits, Exactly, Between
<1>s5. StepSound(P, K, PacketBlind, PacketLeft, "again")
  BY <1>5, <1>6, <1>2, OpenSound DEF Fits, Exactly, Between
<1>s6. StepSound(P, K, PacketBlind, PacketLeft, "put")
  BY <1>6, <1>2, TrySound DEF Fits, Exactly, Between
<1>s7. StepSound(P, K, PacketBlind, PacketLeft, "leave")
  BY <1>7, <1>8, <1>10, TrySound DEF Fits, Exactly, Between
<1>s8. StepSound(P, K, PacketBlind, PacketLeft, "question")
  BY <1>8, <1>9, ShowSound DEF Fits, Exactly, Between, PacketBlind
<1>s9. StepSound(P, K, PacketBlind, PacketLeft, "answer")
  BY <1>9, <1>10, <1>e, TrySound DEF Fits, Exactly, Between, PacketLeft
<1>s10. StepSound(P, K, PacketBlind, PacketLeft, "message")
  BY <1>10, <1>11, <1>e, OpenSound DEF Fits, Exactly, Between, PacketLeft
<1>s11. StepSound(P, K, PacketBlind, PacketLeft, "copy")
  BY <1>11, <1>12, <1>13, IfSetSound DEF Fits, Exactly, Between
<1>s12. StepSound(P, K, PacketBlind, PacketLeft, "chars")
  BY <1>12, <1>13, TrySound DEF Fits, Exactly, Between
<1>s13. StepSound(P, K, PacketBlind, PacketLeft, "send")
  BY <1>13, <1>14, TrySound DEF Fits, Exactly, Between
<1>s14. StepSound(P, K, PacketBlind, PacketLeft, "free_message")
  BY <1>14, <1>15, CloseSound DEF Fits, Exactly, Between
<1>s15. StepSound(P, K, PacketBlind, PacketLeft, "free_command")
  BY <1>15, <1>16, <1>e, IfSetSound DEF Fits, Exactly, Between
<1>s16. StepSound(P, K, PacketBlind, PacketLeft, "free")
  BY <1>16, <1>e, CloseSound DEF Fits, Exactly, Between
<1> QED
  BY <1>d, <1>e, <1>1, <1>s1, <1>s2, <1>s3, <1>s4, <1>s5, <1>s6, <1>s7, <1>s8,
     <1>s9, <1>s10, <1>s11, <1>s12, <1>s13, <1>s14, <1>s15, <1>s16
     DEF Sound, Exactly, Between

AtParseFile == [
  start      |-> Between({}, {}, {"buf", "fp", "line", "reply", "response"}),
  line       |-> Between({}, {"buf"},
                         {"buf", "fp", "line", "reply", "response"}),
  response   |-> Between({}, {"buf", "line"},
                         {"buf", "fp", "line", "reply", "response"}),
  open       |-> Between({}, {"buf", "line", "response"},
                         {"buf", "fp", "line", "reply", "response"}),
  size       |-> Between({"fp"}, {"buf", "fp", "line", "response"},
                         {"buf", "fp", "line", "reply", "response"}),
  got_buf    |-> Between({"fp"}, {"buf", "fp", "line", "response"},
                         {"buf", "fp", "line", "reply", "response"}),
  read       |-> Between({"buf", "fp"}, {"buf", "fp", "line", "response"},
                         {"buf", "fp", "line", "reply", "response"}),
  close      |-> Between({"buf", "fp"}, {"buf", "fp", "line", "response"},
                         {"buf", "fp", "line", "reply", "response"}),
  no_fp      |-> Between({"buf"}, {"buf", "line", "response"},
                         {"buf", "line", "reply", "response"}),
  next       |-> Between({"buf"}, {"buf", "line", "response"},
                         {"buf", "fp", "line", "response"}),
  clear      |-> Between({"buf"}, {"buf", "line", "response"},
                         {"buf", "fp", "line", "response"}),
  reply      |-> Between({"buf", "line", "response"},
                         {"buf", "line", "response"},
                         {"buf", "fp", "line", "response"}),
  transact   |-> Between({"buf", "line", "response"},
                         {"buf", "line", "reply", "response"},
                         {"buf", "fp", "line", "reply", "response"}),
  free_reply |-> Between({"buf", "line", "reply", "response"},
                         {"buf", "line", "reply", "response"},
                         {"buf", "fp", "line", "reply", "response"}),
  err        |-> Between({}, {"buf", "fp", "line", "response"},
                         {"buf", "fp", "line", "response"}),
  err_line   |-> Between({"line"}, {"buf", "fp", "line", "response"},
                         {"buf", "fp", "line", "response"}),
  err2       |-> Between({}, {"buf", "fp", "response"},
                         {"buf", "fp", "response"}),
  err_resp   |-> Between({"response"}, {"buf", "fp", "response"},
                         {"buf", "fp", "response"}),
  err3       |-> Between({}, {"buf", "fp"}, {"buf", "fp"}),
  err_buf    |-> Between({"buf"}, {"buf", "fp"}, {"buf", "fp"}),
  err4       |-> Between({}, {"fp"}, {"fp"}),
  err_fp     |-> Between({"fp"}, {"fp"}, {"fp"})]

LEMMA ParseFileSound == Sound(ParseFile, AtParseFile, FileBlind, FileLeft)
<1>a. SUFFICES ASSUME NEW P, NEW K, P = ParseFile, K = AtParseFile
               PROVE  Sound(P, K, FileBlind, FileLeft)
  OBVIOUS
<1>d. DOMAIN P = {"start", "line", "response", "open", "size", "got_buf",
                  "read", "close", "no_fp", "next", "clear", "reply",
                  "transact", "free_reply", "err", "err_line", "err2",
                  "err_resp", "err3", "err_buf", "err4", "err_fp"}
  BY <1>a DEF ParseFile
<1>e. Ends = {"ok", "failed", "refused", "no_message", "not_opened"}
  BY DEF Ends
<1>1. /\ "start" \in DOMAIN P /\ P["start"] = Open("buf", "line", "line")
      /\ K["start"] = Between({}, {},
                              {"buf", "fp", "line", "reply", "response"})
  BY <1>a DEF ParseFile, AtParseFile
<1>2. /\ "line" \in DOMAIN P
      /\ P["line"] = Open("line", "response", "response")
      /\ K["line"] = Between({}, {"buf"},
                             {"buf", "fp", "line", "reply", "response"})
  BY <1>a DEF ParseFile, AtParseFile
<1>3. /\ "response" \in DOMAIN P
      /\ P["response"] = Open("response", "open", "open")
      /\ K["response"] = Between({}, {"buf", "line"},
                                 {"buf", "fp", "line", "reply", "response"})
  BY <1>a DEF ParseFile, AtParseFile
<1>4. /\ "open" \in DOMAIN P /\ P["open"] = Open("fp", "size", "not_opened")
      /\ K["open"] = Between({}, {"buf", "line", "response"},
                             {"buf", "fp", "line", "reply", "response"})
  BY <1>a DEF ParseFile, AtParseFile
<1>5. /\ "size" \in DOMAIN P /\ P["size"] = Try({"fp"}, "got_buf", "err")
      /\ K["size"] = Between({"fp"}, {"buf", "fp", "line", "response"},
                             {"buf", "fp", "line", "reply", "response"})
  BY <1>a DEF ParseFile, AtParseFile
<1>6. /\ "got_buf" \in DOMAIN P /\ P["got_buf"] = IfSet("buf", "read", "err")
      /\ K["got_buf"] = Between({"fp"}, {"buf", "fp", "line", "response"},
                                {"buf", "fp", "line", "reply", "response"})
  BY <1>a DEF ParseFile, AtParseFile
<1>7. /\ "read" \in DOMAIN P /\ P["read"] = Try({"fp", "buf"}, "close", "err")
      /\ K["read"] = Between({"buf", "fp"}, {"buf", "fp", "line", "response"},
                             {"buf", "fp", "line", "reply", "response"})
  BY <1>a DEF ParseFile, AtParseFile
<1>8. /\ "close" \in DOMAIN P /\ P["close"] = Close("fp", "no_fp")
      /\ K["close"] = Between({"buf", "fp"}, {"buf", "fp", "line", "response"},
                              {"buf", "fp", "line", "reply", "response"})
  BY <1>a DEF ParseFile, AtParseFile
<1>9. /\ "no_fp" \in DOMAIN P /\ P["no_fp"] = Null("fp", "next")
      /\ K["no_fp"] = Between({"buf"}, {"buf", "line", "response"},
                              {"buf", "line", "reply", "response"})
  BY <1>a DEF ParseFile, AtParseFile
<1>10. /\ "next" \in DOMAIN P /\ P["next"] = Loop({"buf"}, "clear", "err")
       /\ K["next"] = Between({"buf"}, {"buf", "line", "response"},
                              {"buf", "fp", "line", "response"})
  BY <1>a DEF ParseFile, AtParseFile
<1>11. /\ "clear" \in DOMAIN P
       /\ P["clear"] = Try({"buf", "line", "response"}, "reply", "next")
       /\ K["clear"] = Between({"buf"}, {"buf", "line", "response"},
                               {"buf", "fp", "line", "response"})
  BY <1>a DEF ParseFile, AtParseFile
<1>12. /\ "reply" \in DOMAIN P
       /\ P["reply"] = Open("reply", "transact", "transact")
       /\ K["reply"] = Between({"buf", "line", "response"},
                               {"buf", "line", "response"},
                               {"buf", "fp", "line", "response"})
  BY <1>a DEF ParseFile, AtParseFile
<1>13. /\ "transact" \in DOMAIN P
       /\ P["transact"] = Try({"line", "reply"}, "free_reply", "free_reply")
       /\ K["transact"] = Between({"buf", "line", "response"},
                                  {"buf", "line", "reply", "response"},
                                  {"buf", "fp", "line", "reply", "response"})
  BY <1>a DEF ParseFile, AtParseFile
<1>14. /\ "free_reply" \in DOMAIN P /\ P["free_reply"] = Close("reply", "next")
       /\ K["free_reply"] = Between({"buf", "line", "reply", "response"},
                                    {"buf", "line", "reply", "response"},
                                    {"buf", "fp", "line", "reply", "response"})
  BY <1>a DEF ParseFile, AtParseFile
<1>15. /\ "err" \in DOMAIN P /\ P["err"] = IfSet("line", "err_line", "err2")
       /\ K["err"] = Between({}, {"buf", "fp", "line", "response"},
                             {"buf", "fp", "line", "response"})
  BY <1>a DEF ParseFile, AtParseFile
<1>16. /\ "err_line" \in DOMAIN P /\ P["err_line"] = Close("line", "err2")
       /\ K["err_line"] = Between({"line"}, {"buf", "fp", "line", "response"},
                                  {"buf", "fp", "line", "response"})
  BY <1>a DEF ParseFile, AtParseFile
<1>17. /\ "err2" \in DOMAIN P
       /\ P["err2"] = IfSet("response", "err_resp", "err3")
       /\ K["err2"] = Between({}, {"buf", "fp", "response"},
                              {"buf", "fp", "response"})
  BY <1>a DEF ParseFile, AtParseFile
<1>18. /\ "err_resp" \in DOMAIN P /\ P["err_resp"] = Close("response", "err3")
       /\ K["err_resp"] = Between({"response"}, {"buf", "fp", "response"},
                                  {"buf", "fp", "response"})
  BY <1>a DEF ParseFile, AtParseFile
<1>19. /\ "err3" \in DOMAIN P /\ P["err3"] = IfSet("buf", "err_buf", "err4")
       /\ K["err3"] = Between({}, {"buf", "fp"}, {"buf", "fp"})
  BY <1>a DEF ParseFile, AtParseFile
<1>20. /\ "err_buf" \in DOMAIN P /\ P["err_buf"] = Close("buf", "err4")
       /\ K["err_buf"] = Between({"buf"}, {"buf", "fp"}, {"buf", "fp"})
  BY <1>a DEF ParseFile, AtParseFile
<1>21. /\ "err4" \in DOMAIN P /\ P["err4"] = IfSet("fp", "err_fp", "ok")
       /\ K["err4"] = Between({}, {"fp"}, {"fp"})
  BY <1>a DEF ParseFile, AtParseFile
<1>22. /\ "err_fp" \in DOMAIN P /\ P["err_fp"] = Close("fp", "ok")
       /\ K["err_fp"] = Between({"fp"}, {"fp"}, {"fp"})
  BY <1>a DEF ParseFile, AtParseFile
<1>s1. StepSound(P, K, FileBlind, FileLeft, "start")
  BY <1>1, <1>2, OpenSound DEF Fits, Exactly, Between
<1>s2. StepSound(P, K, FileBlind, FileLeft, "line")
  BY <1>2, <1>3, OpenSound DEF Fits, Exactly, Between
<1>s3. StepSound(P, K, FileBlind, FileLeft, "response")
  BY <1>3, <1>4, OpenSound DEF Fits, Exactly, Between
<1>s4. StepSound(P, K, FileBlind, FileLeft, "open")
  BY <1>4, <1>5, <1>e, OpenSound DEF Fits, Exactly, Between, FileLeft
<1>s5. StepSound(P, K, FileBlind, FileLeft, "size")
  BY <1>5, <1>6, <1>15, TrySound DEF Fits, Exactly, Between
<1>s6. StepSound(P, K, FileBlind, FileLeft, "got_buf")
  BY <1>6, <1>7, <1>15, IfSetSound DEF Fits, Exactly, Between
<1>s7. StepSound(P, K, FileBlind, FileLeft, "read")
  BY <1>7, <1>8, <1>15, TrySound DEF Fits, Exactly, Between
<1>s8. StepSound(P, K, FileBlind, FileLeft, "close")
  BY <1>8, <1>9, CloseSound DEF Fits, Exactly, Between
<1>s9. StepSound(P, K, FileBlind, FileLeft, "no_fp")
  BY <1>9, <1>10, NullSound DEF Fits, Exactly, Between
<1>s10. StepSound(P, K, FileBlind, FileLeft, "next")
  BY <1>10, <1>11, <1>15, TrySound DEF Fits, Exactly, Between
<1>s11. StepSound(P, K, FileBlind, FileLeft, "clear")
  BY <1>11, <1>12, <1>10, BlindSound DEF Fits, Exactly, Between, FileBlind
<1>s12. StepSound(P, K, FileBlind, FileLeft, "reply")
  BY <1>12, <1>13, OpenSound DEF Fits, Exactly, Between
<1>s13. StepSound(P, K, FileBlind, FileLeft, "transact")
  BY <1>13, <1>14, BlindSound DEF Fits, Exactly, Between, FileBlind
<1>s14. StepSound(P, K, FileBlind, FileLeft, "free_reply")
  BY <1>14, <1>10, CloseSound DEF Fits, Exactly, Between
<1>s15. StepSound(P, K, FileBlind, FileLeft, "err")
  BY <1>15, <1>16, <1>17, IfSetSound DEF Fits, Exactly, Between
<1>s16. StepSound(P, K, FileBlind, FileLeft, "err_line")
  BY <1>16, <1>17, CloseSound DEF Fits, Exactly, Between
<1>s17. StepSound(P, K, FileBlind, FileLeft, "err2")
  BY <1>17, <1>18, <1>19, IfSetSound DEF Fits, Exactly, Between
<1>s18. StepSound(P, K, FileBlind, FileLeft, "err_resp")
  BY <1>18, <1>19, CloseSound DEF Fits, Exactly, Between
<1>s19. StepSound(P, K, FileBlind, FileLeft, "err3")
  BY <1>19, <1>20, <1>21, IfSetSound DEF Fits, Exactly, Between
<1>s20. StepSound(P, K, FileBlind, FileLeft, "err_buf")
  BY <1>20, <1>21, CloseSound DEF Fits, Exactly, Between
<1>s21. StepSound(P, K, FileBlind, FileLeft, "err4")
  BY <1>21, <1>22, <1>e, IfSetSound DEF Fits, Exactly, Between
<1>s22. StepSound(P, K, FileBlind, FileLeft, "err_fp")
  BY <1>22, <1>e, CloseSound DEF Fits, Exactly, Between
<1> QED
  BY <1>d, <1>e, <1>1, <1>s1, <1>s2, <1>s3, <1>s4, <1>s5, <1>s6, <1>s7, <1>s8,
     <1>s9, <1>s10, <1>s11, <1>s12, <1>s13, <1>s14, <1>s15, <1>s16, <1>s17,
     <1>s18, <1>s19, <1>s20, <1>s21, <1>s22 DEF Sound, Exactly, Between

AtLs2sd == [
  start     |-> Between({}, {}, {"out", "reply", "send"}),
  reply     |-> Between({}, {"send"}, {"out", "reply", "send"}),
  out       |-> Between({}, {"reply", "send"}, {"out", "reply", "send"}),
  got_send  |-> Between({}, {"out", "reply", "send"},
                        {"out", "reply", "send"}),
  got_reply |-> Between({"send"}, {"out", "reply", "send"},
                        {"out", "reply", "send"}),
  got_out   |-> Between({"reply", "send"}, {"out", "reply", "send"},
                        {"out", "reply", "send"}),
  ask       |-> Between({"out", "reply", "send"}, {"out", "reply", "send"},
                        {"out", "reply", "send"}),
  download  |-> Between({"out", "reply", "send"}, {"out", "reply", "send"},
                        {"out", "reply", "send"}),
  temp      |-> Between({"out", "reply", "send"}, {"out", "reply", "send"},
                        {"out", "reply", "send"}),
  header    |-> Between({"dst_temp", "out", "reply", "send"},
                        {"dst_temp", "out", "reply", "send"},
                        {"out", "reply", "send"}),
  open      |-> Between({"dst_temp", "out", "reply", "send"},
                        {"dst_temp", "out", "reply", "send"},
                        {"out", "reply", "send"}),
  read      |-> Between({"dst_temp", "fp", "out", "reply", "send"},
                        {"dst_temp", "fp", "out", "reply", "send"},
                        {"out", "reply", "send"}),
  unpack    |-> Between({"dst_temp", "fp", "out", "reply", "send"},
                        {"dst_temp", "fp", "out", "reply", "send"},
                        {"out", "reply", "send"}),
  err_read  |-> Between({"dst_temp", "fp", "out", "reply", "send"},
                        {"dst_temp", "fp", "out", "reply", "send"},
                        {"out", "reply", "send"}),
  err_open  |-> Between({"dst_temp", "out", "reply", "send"},
                        {"dst_temp", "out", "reply", "send"},
                        {"out", "reply", "send"}),
  no_read   |-> Between({"dst_temp", "fp", "out", "reply", "send"},
                        {"dst_temp", "fp", "out", "reply", "send"},
                        {"out", "reply", "send"}),
  no_open   |-> Between({"dst_temp", "out", "reply", "send"},
                        {"dst_temp", "out", "reply", "send"},
                        {"out", "reply", "send"}),
  show      |-> Between({"out", "reply", "send"}, {"out", "reply", "send"},
                        {"out", "reply", "send"}),
  more      |-> Between({"out", "reply", "send"}, {"out", "reply", "send"},
                        {"out", "reply", "send"}),
  err       |-> Between({}, {"out", "reply", "send"},
                        {"out", "reply", "send"}),
  err_out   |-> Between({"out"}, {"out", "reply", "send"},
                        {"out", "reply", "send"}),
  err2      |-> Between({}, {"reply", "send"}, {"reply", "send"}),
  err_send  |-> Between({"send"}, {"reply", "send"}, {"reply", "send"}),
  err3      |-> Between({}, {"reply"}, {"reply"}),
  err_reply |-> Between({"reply"}, {"reply"}, {"reply"})]

LEMMA Ls2sdSound == Sound(Ls2sd, AtLs2sd, {}, {})
<1>a. SUFFICES ASSUME NEW P, NEW K, P = Ls2sd, K = AtLs2sd
               PROVE  Sound(P, K, {}, {})
  OBVIOUS
<1>d. DOMAIN P = {"start", "reply", "out", "got_send", "got_reply",
                  "got_out", "ask", "download", "temp", "header", "open",
                  "read", "unpack", "err_read", "err_open", "no_read",
                  "no_open", "show", "more", "err", "err_out", "err2",
                  "err_send", "err3", "err_reply"}
  BY <1>a DEF Ls2sd
<1>e. Ends = {"ok", "failed", "refused", "no_message", "not_opened"}
  BY DEF Ends
<1>1. /\ "start" \in DOMAIN P /\ P["start"] = Open("send", "reply", "reply")
      /\ K["start"] = Between({}, {}, {"out", "reply", "send"})
  BY <1>a DEF Ls2sd, AtLs2sd
<1>2. /\ "reply" \in DOMAIN P /\ P["reply"] = Open("reply", "out", "out")
      /\ K["reply"] = Between({}, {"send"}, {"out", "reply", "send"})
  BY <1>a DEF Ls2sd, AtLs2sd
<1>3. /\ "out" \in DOMAIN P /\ P["out"] = Open("out", "got_send", "got_send")
      /\ K["out"] = Between({}, {"reply", "send"}, {"out", "reply", "send"})
  BY <1>a DEF Ls2sd, AtLs2sd
<1>4. /\ "got_send" \in DOMAIN P
      /\ P["got_send"] = IfSet("send", "got_reply", "err")
      /\ K["got_send"] = Between({}, {"out", "reply", "send"},
                                 {"out", "reply", "send"})
  BY <1>a DEF Ls2sd, AtLs2sd
<1>5. /\ "got_reply" \in DOMAIN P
      /\ P["got_reply"] = IfSet("reply", "got_out", "err")
      /\ K["got_reply"] = Between({"send"}, {"out", "reply", "send"},
                                  {"out", "reply", "send"})
  BY <1>a DEF Ls2sd, AtLs2sd
<1>6. /\ "got_out" \in DOMAIN P /\ P["got_out"] = IfSet("out", "ask", "err")
      /\ K["got_out"] = Between({"reply", "send"}, {"out", "reply", "send"},
                                {"out", "reply", "send"})
  BY <1>a DEF Ls2sd, AtLs2sd
<1>7. /\ "ask" \in DOMAIN P
      /\ P["ask"] = Try({"send", "reply"}, "download", "err")
      /\ K["ask"] = Between({"out", "reply", "send"}, {"out", "reply", "send"},
                            {"out", "reply", "send"})
  BY <1>a DEF Ls2sd, AtLs2sd
<1>8. /\ "download" \in DOMAIN P
      /\ P["download"] = Try({"reply"}, "temp", "err")
      /\ K["download"] = Between({"out", "reply", "send"},
                                 {"out", "reply", "send"},
                                 {"out", "reply", "send"})
  BY <1>a DEF Ls2sd, AtLs2sd
<1>9. /\ "temp" \in DOMAIN P /\ P["temp"] = Open("dst_temp", "header", "err")
      /\ K["temp"] = Between({"out", "reply", "send"},
                             {"out", "reply", "send"},
                             {"out", "reply", "send"})
  BY <1>a DEF Ls2sd, AtLs2sd
<1>10. /\ "header" \in DOMAIN P
       /\ P["header"] = Try({"dst_temp"}, "open", "no_open")
       /\ K["header"] = Between({"dst_temp", "out", "reply", "send"},
                                {"dst_temp", "out", "reply", "send"},
                                {"out", "reply", "send"})
  BY <1>a DEF Ls2sd, AtLs2sd
<1>11. /\ "open" \in DOMAIN P /\ P["open"] = Open("fp", "read", "no_open")
       /\ K["open"] = Between({"dst_temp", "out", "reply", "send"},
                              {"dst_temp", "out", "reply", "send"},
                              {"out", "reply", "send"})
  BY <1>a DEF Ls2sd, AtLs2sd
<1>12. /\ "read" \in DOMAIN P
       /\ P["read"] = Try({"fp", "dst_temp"}, "unpack", "no_read")
       /\ K["read"] = Between({"dst_temp", "fp", "out", "reply", "send"},
                              {"dst_temp", "fp", "out", "reply", "send"},
                              {"out", "reply", "send"})
  BY <1>a DEF Ls2sd, AtLs2sd
<1>13. /\ "unpack" \in DOMAIN P
       /\ P["unpack"] = Try({"dst_temp", "out"}, "err_read", "no_read")
       /\ K["unpack"] = Between({"dst_temp", "fp", "out", "reply", "send"},
                                {"dst_temp", "fp", "out", "reply", "send"},
                                {"out", "reply", "send"})
  BY <1>a DEF Ls2sd, AtLs2sd
<1>14. /\ "err_read" \in DOMAIN P /\ P["err_read"] = Close("fp", "err_open")
       /\ K["err_read"] = Between({"dst_temp", "fp", "out", "reply", "send"},
                                  {"dst_temp", "fp", "out", "reply", "send"},
                                  {"out", "reply", "send"})
  BY <1>a DEF Ls2sd, AtLs2sd
<1>15. /\ "err_open" \in DOMAIN P /\ P["err_open"] = Close("dst_temp", "show")
       /\ K["err_open"] = Between({"dst_temp", "out", "reply", "send"},
                                  {"dst_temp", "out", "reply", "send"},
                                  {"out", "reply", "send"})
  BY <1>a DEF Ls2sd, AtLs2sd
<1>16. /\ "no_read" \in DOMAIN P /\ P["no_read"] = Close("fp", "no_open")
       /\ K["no_read"] = Between({"dst_temp", "fp", "out", "reply", "send"},
                                 {"dst_temp", "fp", "out", "reply", "send"},
                                 {"out", "reply", "send"})
  BY <1>a DEF Ls2sd, AtLs2sd
<1>17. /\ "no_open" \in DOMAIN P /\ P["no_open"] = Close("dst_temp", "err")
       /\ K["no_open"] = Between({"dst_temp", "out", "reply", "send"},
                                 {"dst_temp", "out", "reply", "send"},
                                 {"out", "reply", "send"})
  BY <1>a DEF Ls2sd, AtLs2sd
<1>18. /\ "show" \in DOMAIN P /\ P["show"] = Try({"out"}, "more", "err")
       /\ K["show"] = Between({"out", "reply", "send"},
                              {"out", "reply", "send"},
                              {"out", "reply", "send"})
  BY <1>a DEF Ls2sd, AtLs2sd
<1>19. /\ "more" \in DOMAIN P /\ P["more"] = Loop({"out"}, "ask", "err")
       /\ K["more"] = Between({"out", "reply", "send"},
                              {"out", "reply", "send"},
                              {"out", "reply", "send"})
  BY <1>a DEF Ls2sd, AtLs2sd
<1>20. /\ "err" \in DOMAIN P /\ P["err"] = IfSet("out", "err_out", "err2")
       /\ K["err"] = Between({}, {"out", "reply", "send"},
                             {"out", "reply", "send"})
  BY <1>a DEF Ls2sd, AtLs2sd
<1>21. /\ "err_out" \in DOMAIN P /\ P["err_out"] = Close("out", "err2")
       /\ K["err_out"] = Between({"out"}, {"out", "reply", "send"},
                                 {"out", "reply", "send"})
  BY <1>a DEF Ls2sd, AtLs2sd
<1>22. /\ "err2" \in DOMAIN P /\ P["err2"] = IfSet("send", "err_send", "err3")
       /\ K["err2"] = Between({}, {"reply", "send"}, {"reply", "send"})
  BY <1>a DEF Ls2sd, AtLs2sd
<1>23. /\ "err_send" \in DOMAIN P /\ P["err_send"] = Close("send", "err3")
       /\ K["err_send"] = Between({"send"}, {"reply", "send"},
                                  {"reply", "send"})
  BY <1>a DEF Ls2sd, AtLs2sd
<1>24. /\ "err3" \in DOMAIN P /\ P["err3"] = IfSet("reply", "err_reply", "ok")
       /\ K["err3"] = Between({}, {"reply"}, {"reply"})
  BY <1>a DEF Ls2sd, AtLs2sd
<1>25. /\ "err_reply" \in DOMAIN P /\ P["err_reply"] = Close("reply", "ok")
       /\ K["err_reply"] = Between({"reply"}, {"reply"}, {"reply"})
  BY <1>a DEF Ls2sd, AtLs2sd
<1>s1. StepSound(P, K, {}, {}, "start")
  BY <1>1, <1>2, OpenSound DEF Fits, Exactly, Between
<1>s2. StepSound(P, K, {}, {}, "reply")
  BY <1>2, <1>3, OpenSound DEF Fits, Exactly, Between
<1>s3. StepSound(P, K, {}, {}, "out")
  BY <1>3, <1>4, OpenSound DEF Fits, Exactly, Between
<1>s4. StepSound(P, K, {}, {}, "got_send")
  BY <1>4, <1>5, <1>20, IfSetSound DEF Fits, Exactly, Between
<1>s5. StepSound(P, K, {}, {}, "got_reply")
  BY <1>5, <1>6, <1>20, IfSetSound DEF Fits, Exactly, Between
<1>s6. StepSound(P, K, {}, {}, "got_out")
  BY <1>6, <1>7, <1>20, IfSetSound DEF Fits, Exactly, Between
<1>s7. StepSound(P, K, {}, {}, "ask")
  BY <1>7, <1>8, <1>20, TrySound DEF Fits, Exactly, Between
<1>s8. StepSound(P, K, {}, {}, "download")
  BY <1>8, <1>9, <1>20, TrySound DEF Fits, Exactly, Between
<1>s9. StepSound(P, K, {}, {}, "temp")
  BY <1>9, <1>10, <1>20, OpenSound DEF Fits, Exactly, Between
<1>s10. StepSound(P, K, {}, {}, "header")
  BY <1>10, <1>11, <1>17, TrySound DEF Fits, Exactly, Between
<1>s11. StepSound(P, K, {}, {}, "open")
  BY <1>11, <1>12, <1>17, OpenSound DEF Fits, Exactly, Between
<1>s12. StepSound(P, K, {}, {}, "read")
  BY <1>12, <1>13, <1>16, TrySound DEF Fits, Exactly, Between
<1>s13. StepSound(P, K, {}, {}, "unpack")
  BY <1>13, <1>14, <1>16, TrySound DEF Fits, Exactly, Between
<1>s14. StepSound(P, K, {}, {}, "err_read")
  BY <1>14, <1>15, CloseSound DEF Fits, Exactly, Between
<1>s15. StepSound(P, K, {}, {}, "err_open")
  BY <1>15, <1>18, CloseSound DEF Fits, Exactly, Between
<1>s16. StepSound(P, K, {}, {}, "no_read")
  BY <1>16, <1>17, CloseSound DEF Fits, Exactly, Between
<1>s17. StepSound(P, K, {}, {}, "no_open")
  BY <1>17, <1>20, CloseSound DEF Fits, Exactly, Between
<1>s18. StepSound(P, K, {}, {}, "show")
  BY <1>18, <1>19, <1>20, TrySound DEF Fits, Exactly, Between
<1>s19. StepSound(P, K, {}, {}, "more")
  BY <1>19, <1>7, <1>20, TrySound DEF Fits, Exactly, Between
<1>s20. StepSound(P, K, {}, {}, "err")
  BY <1>20, <1>21, <1>22, IfSetSound DEF Fits, Exactly, Between
<1>s21. StepSound(P, K, {}, {}, "err_out")
  BY <1>21, <1>22, CloseSound DEF Fits, Exactly, Between
<1>s22. StepSound(P, K, {}, {}, "err2")
  BY <1>22, <1>23, <1>24, IfSetSound DEF Fits, Exactly, Between
<1>s23. StepSound(P, K, {}, {}, "err_send")
  BY <1>23, <1>24, CloseSound DEF Fits, Exactly, Between
<1>s24. StepSound(P, K, {}, {}, "err3")
  BY <1>24, <1>25, <1>e, IfSetSound DEF Fits, Exactly, Between
<1>s25. StepSound(P, K, {}, {}, "err_reply")
  BY <1>25, <1>e, CloseSound DEF Fits, Exactly, Between
<1> QED
  BY <1>d, <1>e, <1>1, <1>s1, <1>s2, <1>s3, <1>s4, <1>s5, <1>s6, <1>s7, <1>s8,
     <1>s9, <1>s10, <1>s11, <1>s12, <1>s13, <1>s14, <1>s15, <1>s16, <1>s17,
     <1>s18, <1>s19, <1>s20, <1>s21, <1>s22, <1>s23, <1>s24, <1>s25
     DEF Sound, Exactly, Between

-----------------------------------------------------------------------------
(* All of them. *)

Known == [
  testfs |-> AtTest, ls |-> AtLs, mkdir |-> AtMkdir, rm |-> AtRm, mv |-> AtMv,
  touch |-> AtTouch, cat |-> AtCat, append |-> AtAppend, chksum |-> AtChksum,
  hexdump |-> AtHexdump, compress |-> AtCompress, ls2sd |-> AtLsToSd,
  remote |-> AtPacket, batch_file |-> AtParseFile, gnd_ls2sd |-> AtLs2sd]

AllCommands == OfSatellite \cup OfGround

LEMMA KnownOnSatellite ==
  /\ Known["testfs"] = AtTest /\ Known["ls"] = AtLs /\ Known["mkdir"] = AtMkdir
  /\ Known["rm"] = AtRm /\ Known["mv"] = AtMv /\ Known["touch"] = AtTouch
  /\ Known["cat"] = AtCat /\ Known["append"] = AtAppend
  /\ Known["chksum"] = AtChksum /\ Known["hexdump"] = AtHexdump
  /\ Known["compress"] = AtCompress /\ Known["ls2sd"] = AtLsToSd
  BY DEF Known

LEMMA KnownOnGround ==
  /\ Known["remote"] = AtPacket /\ Known["batch_file"] = AtParseFile
  /\ Known["gnd_ls2sd"] = AtLs2sd
  BY DEF Known

(* What is excepted of a command in Unchecked and in Forgotten.            *)
Blind(c) ==
  CASE c = "remote" -> PacketBlind
    [] c = "batch_file" -> FileBlind
    [] OTHER -> {}
Left(c) ==
  CASE c = "remote" -> PacketLeft
    [] c = "batch_file" -> FileLeft
    [] OTHER -> {}

SoundCommand(c) == Sound(Program[c], Known[c], Blind(c), Left(c))

LEMMA SatelliteSound == \A c \in OfSatellite : SoundCommand(c)
<1>1. /\ Program["testfs"] = Test /\ Program["ls"] = Ls
      /\ Program["mkdir"] = Mkdir /\ Program["rm"] = Rm
      /\ Program["mv"] = Mv /\ Program["touch"] = Touch
      /\ Program["cat"] = Cat /\ Program["append"] = Append
      /\ Program["chksum"] = Chksum /\ Program["hexdump"] = Hexdump
      /\ Program["compress"] = Compress /\ Program["ls2sd"] = LsToSd
  BY DEF Program
<1>2. \A c \in OfSatellite : Blind(c) = {} /\ Left(c) = {}
  BY DEF Blind, Left, OfSatellite
<1>3. \A c \in OfSatellite : Sound(Program[c], Known[c], {}, {})
  BY <1>1, KnownOnSatellite, TestSound, LsSound, MkdirSound, RmSound, MvSound,
     TouchSound, CatSound, AppendSound, ChksumSound, HexdumpSound, CompressSound,
     LsToSdSound DEF OfSatellite
<1> QED
  BY <1>2, <1>3 DEF SoundCommand

LEMMA GroundSound == \A c \in OfGround : SoundCommand(c)
<1>1. /\ Program["remote"] = Packet /\ Program["batch_file"] = ParseFile
      /\ Program["gnd_ls2sd"] = Ls2sd
  BY DEF Program
<1>2. /\ Blind("remote") = PacketBlind /\ Left("remote") = PacketLeft
      /\ Blind("batch_file") = FileBlind /\ Left("batch_file") = FileLeft
      /\ Blind("gnd_ls2sd") = {} /\ Left("gnd_ls2sd") = {}
  BY DEF Blind, Left
<1>3. /\ SoundCommand("remote") /\ SoundCommand("batch_file")
      /\ SoundCommand("gnd_ls2sd")
  BY <1>1, <1>2, KnownOnGround, PacketSound, ParseFileSound, Ls2sdSound
     DEF SoundCommand
<1> QED
  BY <1>3 DEF OfGround

LEMMA CommandsSound == \A c \in AllCommands : SoundCommand(c)
  BY SatelliteSound, GroundSound DEF AllCommands

(* What is excepted is what the properties except.                         *)
LEMMA LeftIsForgotten ==
  ASSUME NEW c \in AllCommands, NEW l, NEW x, <<l, x>> \in Left(c)
  PROVE  <<c, l, x>> \in Forgotten
<1>1. CASE c = "remote"
  <2>1. <<l, x>> \in PacketLeft
    BY <1>1 DEF Left
  <2>2. x = "command" /\ (l = "refused" \/ l = "no_message")
    BY <2>1 DEF PacketLeft
  <2> QED
    BY <1>1, <2>2 DEF Forgotten
<1>2. CASE c = "batch_file"
  <2>1. <<l, x>> \in FileLeft
    BY <1>2 DEF Left
  <2>2. l = "not_opened" /\ x \in {"buf", "line", "response"}
    BY <2>1 DEF FileLeft
  <2> QED
    BY <1>2, <2>2 DEF Forgotten
<1> QED
  BY <1>1, <1>2 DEF Left

LEMMA BlindIsUnchecked ==
  ASSUME NEW c \in AllCommands, NEW l, <<c, l>> \notin Unchecked
  PROVE  l \notin Blind(c)
<1>1. CASE c = "remote"
  BY <1>1 DEF Blind, PacketBlind, Unchecked
<1>2. CASE c = "batch_file"
  BY <1>2 DEF Blind, FileBlind, Unchecked
<1> QED
  BY <1>1, <1>2 DEF Blind

-----------------------------------------------------------------------------
(* A task is where its command can be, with what is known there.           *)
Holds(k, h, p) ==
  /\ k.must \subseteq h /\ h \subseteq k.may
  /\ h \subseteq p /\ k.tells \cap p \subseteq h

There(c, l, h, p) ==
  \/ l \in DOMAIN Program[c] /\ Holds(Known[c][l], h, p)
  \/ l \in Ends /\ h \subseteq p /\ \A x \in h : <<l, x>> \in Left(c)

TaskInv(t) ==
  /\ running[t] \in CommandsOf(t) \cup {"none"}
  /\ Idle(t) => held[t] = {} /\ ptrs[t] = {}
  /\ ~Idle(t) => There(running[t], at[t], held[t], ptrs[t])
  /\ held[t] \subseteq ptrs[t]

Shapes ==
  /\ DOMAIN running = Tasks /\ DOMAIN at = Tasks /\ DOMAIN ptrs = Tasks
  /\ DOMAIN held = Tasks /\ commands \in 0 .. MaxCommands

ResourcesInv == Shapes /\ NothingLeaks /\ \A t \in Tasks : TaskInv(t)

LEMMA CommandsOfTasks ==
  ASSUME NEW t \in Tasks
  PROVE  CommandsOf(t) \subseteq AllCommands /\ "none" \notin AllCommands
  BY DEF CommandsOf, AllCommands, OfSatellite, OfGround

(* A task that is at a step is at a label of its command. *)
LEMMA AtLabel ==
  ASSUME ResourcesInv, NEW t \in Tasks, AtStep(t)
  PROVE  /\ running[t] \in AllCommands /\ at[t] \in DOMAIN Program[running[t]]
         /\ Holds(Known[running[t]][at[t]], held[t], ptrs[t])
<1>1. TaskInv(t)
  BY DEF ResourcesInv
<1> QED
  BY <1>1, CommandsOfTasks DEF TaskInv, AtStep, Idle, There

(* A step of one task leaves the others where they are. *)
OthersStay(t) ==
  /\ DOMAIN running' = Tasks /\ DOMAIN at' = Tasks /\ DOMAIN ptrs' = Tasks
  /\ DOMAIN held' = Tasks
  /\ \A u \in Tasks \ {t} :
       /\ running'[u] = running[u] /\ at'[u] = at[u] /\ ptrs'[u] = ptrs[u]
       /\ held'[u] = held[u]

LEMMA OneMoves ==
  ASSUME ResourcesInv, NEW t \in Tasks, OthersStay(t), TaskInv(t)', NothingLeaks',
         commands' \in 0 .. MaxCommands
  PROVE  ResourcesInv'
<1>1. ASSUME NEW u \in Tasks \ {t} PROVE TaskInv(u)'
  <2>1. TaskInv(u)
    BY DEF ResourcesInv
  <2>2. /\ running'[u] = running[u] /\ at'[u] = at[u] /\ ptrs'[u] = ptrs[u]
        /\ held'[u] = held[u]
    BY DEF OthersStay
  <2> QED
    BY <2>1, <2>2 DEF TaskInv, Idle
<1>2. Shapes'
  BY DEF Shapes, OthersStay
<1> QED
  BY <1>1, <1>2 DEF ResourcesInv

(* A step within a command forgets nothing. *)
LEMMA StepWithin ==
  ASSUME ResourcesInv, NEW t \in Tasks, AtStep(t), OthersStay(t),
         running' = running, lost' = lost, commands' = commands,
         There(running[t], at'[t], held'[t], ptrs'[t])
  PROVE  ResourcesInv'
<1>1. TaskInv(t) /\ NothingLeaks /\ commands \in 0 .. MaxCommands
  BY DEF ResourcesInv, Shapes
<1>2. held'[t] \subseteq ptrs'[t]
  BY DEF There, Holds
<1>3. TaskInv(t)'
  BY <1>1, <1>2 DEF TaskInv, Idle, AtStep
<1>4. NothingLeaks'
  BY <1>1 DEF NothingLeaks
<1> QED
  BY <1>1, <1>3, <1>4, OneMoves

(* What the step of a task leads to: from what is known at a label to what *)
(* is known at the next, for each kind of step.                            *)
LEMMA StepMoves ==
  ASSUME ResourcesInv, NEW t \in Tasks, AtStep(t)
  PROVE  /\ Step(t).uses \cap ptrs[t] \subseteq held[t]
         /\ at[t] \in Blind(running[t]) \/ Step(t).uses \subseteq held[t]
         /\ Step(t).do = "take" =>
              /\ Step(t).on \notin held[t]
              /\ There(running[t], Step(t).ok, held[t] \cup {Step(t).on},
                       ptrs[t] \cup {Step(t).on})
              /\ There(running[t], Step(t).no, held[t] \ {Step(t).on},
                       ptrs[t] \ {Step(t).on})
         /\ Step(t).do = "try" /\ Step(t).uses \subseteq held[t] =>
              /\ There(running[t], Step(t).ok, held[t], ptrs[t])
              /\ There(running[t], Step(t).no, held[t], ptrs[t])
         /\ Step(t).do = "show" =>
              /\ There(running[t], Step(t).ok, held[t], ptrs[t])
              /\ There(running[t], Step(t).no, held[t], ptrs[t])
         /\ Step(t).do = "give" =>
              There(running[t], Step(t).ok, held[t] \ {Step(t).on}, ptrs[t])
         /\ Step(t).do = "null" =>
              There(running[t], Step(t).ok, held[t], ptrs[t] \ {Step(t).on})
         /\ Step(t).do = "test" =>
              There(running[t],
                    IF Step(t).on \in ptrs[t] THEN Step(t).ok ELSE Step(t).no,
                    held[t], ptrs[t])
<1> DEFINE c == running[t]
           l == at[t]
           P == Program[c]
           K == Known[c]
           B == Blind(c)
           L == Left(c)
           k == K[l]
           s == Step(t)
           h == held[t]
           p == ptrs[t]
<1>1. StepSound(P, K, B, L, l)
  BY AtLabel, CommandsSound DEF SoundCommand, Sound
<1>2. Holds(k, h, p)
  BY AtLabel
<1>3. ASSUME NEW m, NEW must, NEW may, NEW tells, NEW h1, NEW p1,
             Fits(P, K, L, m, must, may, tells),
             must \subseteq h1, h1 \subseteq may,
             h1 \subseteq p1, tells \cap p1 \subseteq h1
      PROVE  There(c, m, h1, p1)
  BY <1>3 DEF Fits, There, Holds
<1>4. s = P[l] /\ k = K[l]
  BY DEF Step
<1> HIDE DEF c, l, P, K, B, L, k, s, h, p
<1> USE <1>1, <1>2 DEF StepSound, Holds
<1>5. s.uses \cap p \subseteq h /\ (l \in B \/ s.uses \subseteq h)
  BY <1>4
<1>6. s.do = "take" =>
        /\ s.on \notin h /\ There(c, s.ok, h \cup {s.on}, p \cup {s.on})
        /\ There(c, s.no, h \ {s.on}, p \ {s.on})
  <2> SUFFICES ASSUME s.do = "take"
               PROVE  /\ s.on \notin h
                      /\ There(c, s.ok, h \cup {s.on}, p \cup {s.on})
                      /\ There(c, s.no, h \ {s.on}, p \ {s.on})
    OBVIOUS
  <2>1. Fits(P, K, L, s.no, k.must, k.may, k.tells \cup {s.on}) /\ s.on \notin k.may
    BY <1>4
  <2>2. h \ {s.on} = h /\ s.on \notin h
    BY <2>1
  <2>3. There(c, s.no, h \ {s.on}, p \ {s.on})
    BY <1>3, <2>1, <2>2
  <2>4. There(c, s.ok, h \cup {s.on}, p \cup {s.on})
    BY <1>3, <1>4
  <2> QED
    BY <2>2, <2>3, <2>4
<1>7. s.do = "try" /\ s.uses \subseteq h => There(c, s.ok, h, p) /\ There(c, s.no, h, p)
  BY <1>3, <1>4
<1>8. s.do = "show" => There(c, s.ok, h, p) /\ There(c, s.no, h, p)
  BY <1>3, <1>4
<1>9. s.do = "give" => There(c, s.ok, h \ {s.on}, p)
  BY <1>3, <1>4
<1>10. s.do = "null" => There(c, s.ok, h, p \ {s.on})
  BY <1>3, <1>4
<1>11. s.do = "test" => There(c, IF s.on \in p THEN s.ok ELSE s.no, h, p)
  <2> SUFFICES ASSUME s.do = "test"
               PROVE  There(c, IF s.on \in p THEN s.ok ELSE s.no, h, p)
    OBVIOUS
  <2>1. CASE s.on \in p
    <3>1. Fits(P, K, L, s.ok, k.must \cup {s.on}, k.may, k.tells) /\ s.on \in h
      BY <1>4, <2>1
    <3>2. There(c, s.ok, h, p)
      BY <1>3, <3>1
    <3> QED
      BY <2>1, <3>2
  <2>2. CASE s.on \notin p
    <3>1. Fits(P, K, L, s.no, k.must, k.may \ {s.on}, k.tells) /\ s.on \notin h
      BY <1>4, <2>2
    <3>2. There(c, s.no, h, p)
      BY <1>3, <3>1
    <3> QED
      BY <2>2, <3>2
  <2> QED
    BY <2>1, <2>2
<1> QED
  BY <1>5, <1>6, <1>7, <1>8, <1>9, <1>10, <1>11 DEF c, l, B, s, h, p

LEMMA ResourcesStep == ResourcesInv /\ [Next]_vars => ResourcesInv'
<1> SUFFICES ASSUME ResourcesInv, [Next]_vars
             PROVE  ResourcesInv'
  OBVIOUS
<1>1. /\ DOMAIN running = Tasks /\ DOMAIN at = Tasks /\ DOMAIN ptrs = Tasks
      /\ DOMAIN held = Tasks /\ commands \in 0 .. MaxCommands
  BY DEF ResourcesInv, Shapes
<1>2. ASSUME NEW t \in Tasks PROVE TaskInv(t)
  BY DEF ResourcesInv
<1>3. lost \subseteq Forgotten
  BY DEF ResourcesInv, NothingLeaks
<1>4. ASSUME NEW t \in Tasks, Take(t) PROVE ResourcesInv'
  <2>1. AtStep(t) /\ Step(t).do = "take"
    BY <1>4 DEF Take, Doing
  <2>2. lost' = lost
    <3>1. held[t] \cap {Step(t).on} = {}
      BY StepMoves, <2>1
    <3>2. {<<running[t], at[t], x>> : x \in {}} = {}
      OBVIOUS
    <3> QED
      BY <1>4, <3>1, <3>2 DEF Take
  <2>3. OthersStay(t) /\ running' = running /\ commands' = commands
    BY <1>1, <1>4 DEF Take, Go, OthersStay
  <2>4. CASE /\ held' = [held EXCEPT ![t] = @ \cup {Step(t).on}]
             /\ ptrs' = [ptrs EXCEPT ![t] = @ \cup {Step(t).on}]
             /\ Go(t, Step(t).ok)
    <3>1. /\ held'[t] = held[t] \cup {Step(t).on}
          /\ ptrs'[t] = ptrs[t] \cup {Step(t).on} /\ at'[t] = Step(t).ok
      BY <1>1, <2>4 DEF Go
    <3>2. There(running[t], at'[t], held'[t], ptrs'[t])
      BY <2>1, <3>1, StepMoves
    <3> QED
      BY <2>1, <2>2, <2>3, <3>2, StepWithin
  <2>5. CASE /\ held' = [held EXCEPT ![t] = @ \ {Step(t).on}]
             /\ ptrs' = [ptrs EXCEPT ![t] = @ \ {Step(t).on}]
             /\ Go(t, Step(t).no)
    <3>1. /\ held'[t] = held[t] \ {Step(t).on}
          /\ ptrs'[t] = ptrs[t] \ {Step(t).on} /\ at'[t] = Step(t).no
      BY <1>1, <2>5 DEF Go
    <3>2. There(running[t], at'[t], held'[t], ptrs'[t])
      BY StepMoves, <2>1, <3>1
    <3> QED
      BY <2>1, <2>2, <2>3, <3>2, StepWithin
  <2> QED
    BY <1>4, <2>4, <2>5 DEF Take
<1>5. ASSUME NEW t \in Tasks, TryCall(t) PROVE ResourcesInv'
  <2>1. AtStep(t)
    BY <1>5 DEF TryCall, Doing
  <2>2. /\ OthersStay(t) /\ running' = running /\ commands' = commands
        /\ lost' = lost /\ held' = held /\ ptrs' = ptrs
    BY <1>1, <1>5 DEF TryCall, Go, OthersStay
  <2>3. at'[t] = Step(t).ok \/ at'[t] = Step(t).no
    BY <1>1, <1>5 DEF TryCall, Go
  <2>4. CASE Step(t).do = "try"
    <3>1. Step(t).uses \subseteq held[t]
      BY <1>5, <2>4 DEF TryCall, Doing, Ready
    <3>2. There(running[t], at'[t], held'[t], ptrs'[t])
      BY StepMoves, <2>1, <2>2, <2>3, <2>4, <3>1
    <3> QED
      BY <2>1, <2>2, <3>2, StepWithin
  <2>5. CASE Step(t).do = "show"
    <3>1. There(running[t], at'[t], held'[t], ptrs'[t])
      BY StepMoves, <2>1, <2>2, <2>3, <2>5
    <3> QED
      BY <2>1, <2>2, <3>1, StepWithin
  <2> QED
    BY <1>5, <2>4, <2>5 DEF TryCall, Doing
<1>6. ASSUME NEW t \in Tasks, Give(t) \/ SetNull(t) \/ TestSet(t)
      PROVE  ResourcesInv'
  <2>1. AtStep(t)
    BY <1>6 DEF Give, SetNull, TestSet, Doing
  <2>2. /\ OthersStay(t) /\ running' = running /\ commands' = commands
        /\ lost' = lost
    BY <1>1, <1>6 DEF Give, SetNull, TestSet, Go, OthersStay
  <2>3. CASE Give(t)
    <3>1. /\ Step(t).do = "give" /\ held'[t] = held[t] \ {Step(t).on}
          /\ ptrs'[t] = ptrs[t] /\ at'[t] = Step(t).ok
      BY <1>1, <2>3 DEF Give, Doing, Go
    <3>2. There(running[t], at'[t], held'[t], ptrs'[t])
      BY <2>1, <3>1, StepMoves
    <3> QED
      BY <2>1, <2>2, <3>2, StepWithin
  <2>4. CASE SetNull(t)
    <3>1. /\ Step(t).do = "null" /\ ptrs'[t] = ptrs[t] \ {Step(t).on}
          /\ held'[t] = held[t] /\ at'[t] = Step(t).ok
      BY <1>1, <2>4 DEF SetNull, Doing, Go
    <3>2. There(running[t], at'[t], held'[t], ptrs'[t])
      BY <2>1, <3>1, StepMoves
    <3> QED
      BY <2>1, <2>2, <3>2, StepWithin
  <2>5. CASE TestSet(t)
    <3>1. /\ Step(t).do = "test" /\ ptrs'[t] = ptrs[t] /\ held'[t] = held[t]
          /\ at'[t] = IF Step(t).on \in ptrs[t] THEN Step(t).ok ELSE Step(t).no
      BY <1>1, <2>5 DEF TestSet, Doing, Go
    <3>2. There(running[t], at'[t], held'[t], ptrs'[t])
      BY <2>1, <3>1, StepMoves
    <3> QED
      BY <2>1, <2>2, <3>2, StepWithin
  <2> QED
    BY <1>6, <2>3, <2>4, <2>5
(* What is still held at the end of a path is what Forgotten names. *)
<1>7. ASSUME NEW t \in Tasks, Return(t) PROVE ResourcesInv'
  <2>1. /\ running[t] \in AllCommands /\ at[t] \in Ends
        /\ There(running[t], at[t], held[t], ptrs[t])
    BY <1>2, <1>7, CommandsOfTasks DEF Return, AtEnd, Idle, TaskInv
  <2>2. \A x \in held[t] : <<at[t], x>> \in Left(running[t])
    BY <2>1, CommandsSound DEF There, SoundCommand, Sound
  <2>3. \A x \in held[t] : <<running[t], at[t], x>> \in Forgotten
    BY <2>1, <2>2, LeftIsForgotten
  <2>4. NothingLeaks'
    <3>1. lost' = lost \cup {<<running[t], at[t], x>> : x \in held[t]}
      BY <1>7 DEF Return
    <3> QED
      BY <1>3, <2>3, <3>1 DEF NothingLeaks
  <2>5. OthersStay(t) /\ commands' = commands
    BY <1>1, <1>7 DEF Return, Go, OthersStay
  <2>6. running'[t] = "none" /\ held'[t] = {} /\ ptrs'[t] = {}
    BY <1>1, <1>7 DEF Return
  <2>7. TaskInv(t)'
    BY <2>6 DEF TaskInv, Idle
  <2> QED
    BY <1>1, <2>4, <2>5, <2>7, OneMoves
<1>8. ASSUME NEW t \in Tasks, Crash(t) PROVE ResourcesInv'
  <2>1. OthersStay(t) /\ commands' = commands /\ lost' = lost
    BY <1>1, <1>8 DEF Crash, Go, OthersStay
  <2>2. running'[t] = "none" /\ held'[t] = {} /\ ptrs'[t] = {}
    BY <1>1, <1>8 DEF Crash
  <2>3. TaskInv(t)' /\ NothingLeaks'
    BY <1>3, <2>1, <2>2 DEF TaskInv, Idle, NothingLeaks
  <2> QED
    BY <1>1, <2>1, <2>3, OneMoves
<1>9. ASSUME NEW t \in Tasks, NEW c \in CommandsOf(t), Start(t, c)
       PROVE  ResourcesInv'
  <2>1. OthersStay(t) /\ lost' = lost
    BY <1>1, <1>9 DEF Start, Go, OthersStay
  <2>2. commands' \in 0 .. MaxCommands
    BY <1>1, <1>9, FsAssumption DEF Start
  <2>3. /\ running'[t] = c /\ at'[t] = "start" /\ held'[t] = held[t]
        /\ ptrs'[t] = ptrs[t]
    BY <1>1, <1>9 DEF Start, Go
  <2>4. held[t] = {} /\ ptrs[t] = {}
    BY <1>2, <1>9 DEF Start, TaskInv
  <2>5. There(c, "start", {}, {})
    BY CommandsOfTasks, CommandsSound DEF SoundCommand, Sound, There, Holds
  <2>6. c # "none"
    BY CommandsOfTasks
  <2>7. TaskInv(t)'
    BY <2>3, <2>4, <2>5, <2>6 DEF TaskInv, Idle
  <2>8. NothingLeaks'
    BY <1>3, <2>1 DEF NothingLeaks
  <2> QED
    BY <1>1, <2>1, <2>2, <2>7, <2>8, OneMoves
<1>10. CASE UNCHANGED vars
  BY <1>10 DEF ResourcesInv, Shapes, NothingLeaks, TaskInv, Idle, vars
<1> QED
  BY <1>4, <1>5, <1>6, <1>7, <1>8, <1>9, <1>10 DEF Next, Proceed

LEMMA ResourcesInit == Init => ResourcesInv
  BY FsAssumption DEF Init, ResourcesInv, Shapes, NothingLeaks, TaskInv, Idle

LEMMA ResourcesHold == Spec => []ResourcesInv
  BY ResourcesInit, ResourcesStep, PTL DEF Spec

-----------------------------------------------------------------------------
(* Theorems. *)

(* Every variable has its type: in particular a command never goes on at a *)
(* label it does not have, and never holds what it has no pointer to, that *)
(* is, what an error path that goes by the pointers would pass over        *)
(* (fs_ls_to_sd, parse_file).                                              *)
THEOREM TypeCorrect == Spec => []TypeOK
<1>1. ResourcesInv => TypeOK
  <2> SUFFICES ASSUME ResourcesInv PROVE TypeOK
    OBVIOUS
  <2>1. \A t \in Tasks : AtStep(t) => at[t] \in DOMAIN Program[running[t]]
    BY AtLabel
  <2> QED
    BY <2>1 DEF ResourcesInv, Shapes, TaskInv, TypeOK
<1> QED
  BY <1>1, ResourcesHold, PTL

(* Whatever calls fail, every allocation among them, and however the       *)
(* commands of the three tasks interleave, no command uses, closes or      *)
(* frees a file, a directory or a buffer that is gone already, and none    *)
(* goes by a pointer it never got but at the three steps of the ground     *)
(* that do not look (satellite/cmd_fs.c, csp-term/testtools.c:185, :515    *)
(* and :674).                                                              *)
THEOREM UsesHeld == Spec => []HeldWhenUsed
<1>1. ResourcesInv => HeldWhenUsed
  <2> SUFFICES ASSUME ResourcesInv, NEW t \in Tasks, AtStep(t)
               PROVE  /\ Step(t).uses \cap ptrs[t] \subseteq held[t]
                      /\ \/ <<running[t], at[t]>> \in Unchecked
                         \/ Step(t).uses \subseteq ptrs[t]
    BY DEF HeldWhenUsed
  <2>1. Step(t).uses \cap ptrs[t] \subseteq held[t]
    BY StepMoves
  <2>2. ASSUME <<running[t], at[t]>> \notin Unchecked
        PROVE  Step(t).uses \subseteq ptrs[t]
    <3>1. at[t] \notin Blind(running[t])
      BY <2>2, AtLabel, BlindIsUnchecked
    <3>2. Step(t).uses \subseteq held[t] /\ held[t] \subseteq ptrs[t]
      BY <3>1, StepMoves DEF ResourcesInv, TaskInv
    <3> QED
      BY <3>2
  <2> QED
    BY <2>1, <2>2
<1> QED
  BY <1>1, ResourcesHold, PTL

(* What no path of a command gives back is what the three known paths      *)
(* forget: the prompt's buffer when its question is answered with another  *)
(* key or its message cannot be allocated, and the three of a batch file   *)
(* that cannot be opened.  Every other path of every command, each of the  *)
(* satellite's among them, gives back all it took.                         *)
THEOREM OnlyKnownLeaks == Spec => []NothingLeaks
<1>1. ResourcesInv => NothingLeaks
  BY DEF ResourcesInv
<1> QED
  BY <1>1, ResourcesHold, PTL
=============================================================================
