------------------------- MODULE RemoteShell_proofs -------------------------
(***************************************************************************)
(* Theorems about the remote shell of RemoteShell, for all files, keys and *)
(* sizes of a packet.                                                      *)
(***************************************************************************)
EXTENDS RemoteShell, SequenceTheorems, FiniteSetTheorems, TLAPS

Text == Seq(Chars)

(* The characters that frames add.                                         *)
LEMMA FrameChars == "<" \in Chars /\ ">" \in Chars /\ "|" \in Chars /\ " " \in Chars
  BY RemoteShellAssumption

AnyText == Text \cup {Nothing}   \* what remoteShell may run
Returns == Results \cup {Refused}
Status  == {"open", "size", "none", "sent"}
Places  == {"satellite", "ground", "nobody"}

Types ==
  /\ pc \in {"idle", "batch", "prompt", "confirm", "await"} /\ back \in {"idle", "batch"}
  /\ file \in Text /\ pos \in 0 .. Len(file) /\ done \in Seq([to : Places, text : AnyText])
  /\ current \in Text
  /\ typed \in Text /\ Len(typed) <= Room
  /\ up \in Seq([call : Nat, text : Text]) /\ down \in Seq([call : Nat, result : Returns])
  /\ asked \in Seq(Text) /\ ran \in Seq([call : Nat, text : AnyText, result : Returns])
  /\ shown \in Seq([status : Status, returned : Int])
  /\ ops \in 0 .. MaxOps /\ faults \in 0 .. MaxFaults

(* What is on its way up are the frames of calls made, in the order in     *)
(* which they were made and after all that have been performed.            *)
UpInv ==
  /\ \A k \in DOMAIN up :
       up[k].call \in DOMAIN asked /\ up[k].text = InPacket(Wire(asked[up[k].call]))
  /\ \A j, k \in DOMAIN up : j < k => up[j].call < up[k].call
  /\ \A k \in DOMAIN up, r \in DOMAIN ran : ran[r].call < up[k].call

(* What is on its way down is the result of a call that was performed.     *)
DownInv ==
  /\ \A r \in DOMAIN ran : ran[r].call \in DOMAIN asked
  /\ \A k \in DOMAIN down :
       \E r \in DOMAIN ran : ran[r].call = down[k].call /\ ran[r].result = down[k].result

(* The console waits for its last call and no other; what it shows with    *)
(* the status of a reply is a result.                                      *)
ShownInv ==
  /\ Len(shown) = Len(asked)
  /\ pc = "await" => shown # <<>>
  /\ \A i \in DOMAIN shown : shown[i].status = "open" <=> pc = "await" /\ i = Len(shown)
  /\ \A i \in DOMAIN shown : shown[i].status = "size" => shown[i].returned \in Returns

-----------------------------------------------------------------------------
(* Texts. *)

(* A set of numbers has a least one.                                       *)
LEMMA Least ==
  ASSUME NEW S \in SUBSET Nat, S # {}
  PROVE  \E m \in S : \A k \in S : m <= k
<1>1. PICK m \in S : \A k \in S : ~(<<k, m>> \in OpToRel(<, Nat))
  BY NatLessThanWellFounded, WFMin
<1>2. \A k \in S : ~(k < m)
  BY <1>1 DEF OpToRel
<1> QED
  BY <1>2

(* Find is the first place of one of the characters, or 0 if it has none.  *)
LEMMA FindProperties ==
  ASSUME NEW s \in Text, NEW chars
  PROVE  /\ Find(s, chars) \in 0 .. Len(s)
         /\ Find(s, chars) # 0 =>
              /\ s[Find(s, chars)] \in chars
              /\ \A j \in 1 .. Find(s, chars) - 1 : s[j] \notin chars
         /\ Find(s, chars) = 0 => \A j \in 1 .. Len(s) : s[j] \notin chars
<1>1. Len(s) \in Nat /\ DOMAIN s = 1 .. Len(s)
  BY DEF Text
<1> DEFINE P(i) == s[i] \in chars /\ \A j \in 1 .. i - 1 : s[j] \notin chars
<1>2. CASE \E i \in DOMAIN s : s[i] \in chars
  <2> DEFINE S == {i \in DOMAIN s : s[i] \in chars}
  <2>1. S \in SUBSET Nat /\ S # {}
    BY <1>1, <1>2
  <2>2. PICK m \in S : \A k \in S : m <= k
    BY <2>1, Least
  <2>3. m \in DOMAIN s /\ P(m)
    BY <1>1, <2>2
  <2>4. Find(s, chars) = CHOOSE i \in DOMAIN s : P(i)
    BY <1>2 DEF Find
  <2> HIDE DEF P
  <2>5. Find(s, chars) \in DOMAIN s /\ P(Find(s, chars))
    BY <2>3, <2>4
  <2> QED
    BY <1>1, <2>5 DEF P
<1>3. CASE ~ \E i \in DOMAIN s : s[i] \in chars
  BY <1>1, <1>3 DEF Find
<1> QED
  BY <1>2, <1>3

(* Whoever satisfies the description is what Find returns.                 *)
LEMMA FindIs ==
  ASSUME NEW s \in Text, NEW chars, NEW i \in 1 .. Len(s),
         s[i] \in chars, \A j \in 1 .. i - 1 : s[j] \notin chars
  PROVE  Find(s, chars) = i
<1> DEFINE f == Find(s, chars)
<1>1. /\ f \in 0 .. Len(s) /\ Len(s) \in Nat
      /\ f # 0 => s[f] \in chars /\ \A j \in 1 .. f - 1 : s[j] \notin chars
      /\ f = 0 => \A j \in 1 .. Len(s) : s[j] \notin chars
  BY FindProperties DEF Text
<1> HIDE DEF f
<1>2. f # 0
  BY <1>1
<1>3. ~(f < i)
  <2> SUFFICES ASSUME f < i PROVE FALSE
    OBVIOUS
  <2>1. f \in 1 .. i - 1
    BY <1>1, <1>2
  <2> QED
    BY <1>1, <1>2, <2>1
<1>4. ~(i < f)
  <2> SUFFICES ASSUME i < f PROVE FALSE
    OBVIOUS
  <2>1. i \in 1 .. f - 1
    BY <1>1
  <2> QED
    BY <1>1, <1>2, <2>1
<1>5. f = i
  BY <1>1, <1>3, <1>4
<1> QED
  BY <1>5 DEF f

(* A sequence is as long as its domain says.                               *)
LEMMA LengthIs ==
  ASSUME NEW s \in Text, NEW n \in Nat, DOMAIN s = 1 .. n
  PROVE  Len(s) = n
<1>1. Len(s) \in Nat /\ 1 .. Len(s) = 1 .. n
  BY LenProperties DEF Text
<1>2. ASSUME Len(s) < n PROVE FALSE
  <2>1. n \in 1 .. Len(s)
    BY <1>1, <1>2
  <2> QED
    BY <1>1, <1>2, <2>1
<1>3. ASSUME n < Len(s) PROVE FALSE
  <2>1. Len(s) \in 1 .. n
    BY <1>1, <1>3
  <2> QED
    BY <1>1, <1>3, <2>1
<1> QED
  BY <1>1, <1>2, <1>3

LEMMA ReplacedProperties ==
  ASSUME NEW s \in Text, NEW old, NEW new \in Chars
  PROVE  /\ Replaced(s, old, new) \in Text
         /\ Len(Replaced(s, old, new)) = Len(s)
<1>1. Len(s) \in Nat /\ DOMAIN s = 1 .. Len(s) /\ \A i \in 1 .. Len(s) : s[i] \in Chars
  BY DEF Text
<1>2. Replaced(s, old, new) \in [1 .. Len(s) -> Chars]
  BY <1>1 DEF Replaced
<1>3. Replaced(s, old, new) \in Text
  BY <1>1, <1>2, SeqDef DEF Text
<1>4. Len(Replaced(s, old, new)) = Len(s)
  BY <1>1, <1>2, <1>3, LengthIs
<1> QED
  BY <1>3, <1>4

LEMMA WireProperties ==
  ASSUME NEW text \in Text
  PROVE  /\ Wire(text) \in Text /\ Len(Wire(text)) = Len(text) + 2
         /\ Wire(text)[1] = "<" /\ Wire(text)[Len(text) + 2] = ">"
         /\ \A i \in 1 .. Len(text) :
              Wire(text)[i + 1] = IF text[i] = " " THEN "|" ELSE text[i]
<1> DEFINE body == Replaced(text, " ", "|")
           tail == body \o <<">">>
<1>0. Len(text) \in Nat
  BY LenProperties DEF Text
<1>1. /\ body \in Text /\ Len(body) = Len(text)
      /\ \A i \in 1 .. Len(text) : body[i] = IF text[i] = " " THEN "|" ELSE text[i]
  <2>1. "|" \in Chars
    BY FrameChars
  <2>2. body \in Text /\ Len(body) = Len(text)
    BY <2>1, ReplacedProperties, Zenon
  <2>3. DOMAIN text = 1 .. Len(text)
    BY LenProperties DEF Text
  <2>4. \A i \in 1 .. Len(text) : body[i] = IF text[i] = " " THEN "|" ELSE text[i]
    BY <2>3 DEF Replaced
  <2> QED
    BY <2>2, <2>4
<1>2. \A c \in Chars : <<c>> \in Text /\ Len(<<c>>) = 1 /\ <<c>>[1] = c
  BY DEF Text
<1> HIDE DEF body
<1>3. <<"<">> \o body \in Text /\ Len(<<"<">> \o body) = Len(text) + 1
      /\ \A i \in 1 .. Len(text) + 1 :
           (<<"<">> \o body)[i] = IF i <= 1 THEN <<"<">>[i] ELSE body[i - 1]
  <2>1. <<"<">> \in Seq(Chars) /\ body \in Seq(Chars)
    BY <1>1, <1>2, FrameChars DEF Text
  <2>2. 1 + Len(text) = Len(text) + 1
    BY <1>0
  <2>3. Len(<<"<">>) = 1
    BY <1>2, FrameChars
  <2>4. /\ <<"<">> \o body \in Seq(Chars)
        /\ Len(<<"<">> \o body) = Len(<<"<">>) + Len(body)
        /\ \A i \in 1 .. Len(<<"<">>) + Len(body) : (<<"<">> \o body)[i] =
              IF i <= Len(<<"<">>) THEN <<"<">>[i] ELSE body[i - Len(<<"<">>)]
    BY <2>1, ConcatProperties
  <2>5. Len(<<"<">>) + Len(body) = Len(text) + 1
    BY <1>1, <2>2, <2>3
  <2> QED
    BY <2>3, <2>4, <2>5 DEF Text
<1>4. Wire(text) = (<<"<">> \o body) \o <<">">>
  BY DEF Wire, body
<1> DEFINE front == <<"<">> \o body
<1>5. front \in Text /\ Len(front) = Len(text) + 1 /\ Wire(text) = front \o <<">">>
      /\ \A i \in 1 .. Len(text) + 1 : front[i] = IF i <= 1 THEN <<"<">>[i] ELSE body[i - 1]
  BY <1>3, <1>4
<1> HIDE DEF front
<1>6. Wire(text) \in Text /\ Len(Wire(text)) = Len(text) + 2
      /\ \A i \in 1 .. Len(text) + 2 :
           Wire(text)[i] = IF i <= Len(text) + 1 THEN front[i] ELSE <<">">>[i - (Len(text) + 1)]
  <2>1. front \in Seq(Chars) /\ <<">">> \in Seq(Chars)
    BY <1>2, <1>5, FrameChars DEF Text
  <2>2. (Len(text) + 1) + 1 = Len(text) + 2
    BY <1>0
  <2>3. Len(<<">">>) = 1
    BY <1>2, FrameChars
  <2>4. /\ front \o <<">">> \in Seq(Chars)
        /\ Len(front \o <<">">>) = Len(front) + Len(<<">">>)
        /\ \A i \in 1 .. Len(front) + Len(<<">">>) : (front \o <<">">>)[i] =
              IF i <= Len(front) THEN front[i] ELSE <<">">>[i - Len(front)]
    BY <2>1, ConcatProperties
  <2> QED
    BY <1>5, <2>2, <2>3, <2>4 DEF Text
<1>7. Wire(text)[1] = "<"
  <2>1. 1 \in 1 .. Len(text) + 2 /\ 1 <= Len(text) + 1 /\ 1 \in 1 .. Len(text) + 1
    BY <1>0
  <2>2. front[1] = "<"
    <3>1. front[1] = IF 1 <= 1 THEN <<"<">>[1] ELSE body[1 - 1]
      BY <1>5, <2>1
    <3>2. <<"<">>[1] = "<"
      BY <1>2, FrameChars
    <3> QED
      BY <3>1, <3>2
  <2> QED
    BY <1>6, <2>1, <2>2
<1>8. Wire(text)[Len(text) + 2] = ">"
  <2>1. /\ Len(text) + 2 \in 1 .. Len(text) + 2 /\ ~(Len(text) + 2 <= Len(text) + 1)
        /\ (Len(text) + 2) - (Len(text) + 1) = 1
    BY <1>0
  <2> QED
    BY <1>2, <1>6, <2>1, FrameChars
<1>9. ASSUME NEW i \in 1 .. Len(text)
      PROVE  Wire(text)[i + 1] = IF text[i] = " " THEN "|" ELSE text[i]
  <2>1. i + 1 \in 1 .. Len(text) + 2 /\ i + 1 <= Len(text) + 1 /\ ~(i + 1 <= 1) /\ (i + 1) - 1 = i
        /\ i + 1 \in 1 .. Len(text) + 1
    BY <1>0
  <2>2. Wire(text)[i + 1] = body[i]
    BY <1>5, <1>6, <2>1
  <2> QED
    BY <1>1, <2>2
<1> QED
  BY <1>6, <1>7, <1>8, <1>9

(* A packet holds the beginning of a frame.                                *)
LEMMA PacketProperties ==
  ASSUME NEW w \in Text
  PROVE  InPacket(w) \in Text /\ Len(InPacket(w)) <= Room
<1>1. Len(w) \in Nat /\ \A i \in 1 .. Len(w) : w[i] \in Chars
  BY DEF Text
<1>2. CASE Len(w) <= Room
  BY <1>2 DEF InPacket
<1>3. CASE ~(Len(w) <= Room)
  <2>0. Room \in Nat /\ 1 <= Room
    <3>1. Room \in Nat \ {0, 1}
      BY RemoteShellAssumption
    <3> QED
      BY <3>1
  <2>1. Room \in Int /\ 1 \in Int /\ 1 <= Room /\ Room - 1 + 1 = Room
        /\ \A i \in 1 .. Room : w[i] \in Chars
    BY <1>1, <1>3, <2>0
  <2>2. SubSeq(w, 1, Room) \in Seq(Chars) /\ Len(SubSeq(w, 1, Room)) = Room
    BY <2>1, SubSeqProperties
  <2> QED
    BY <1>3, <2>1, <2>2 DEF InPacket, Text
<1> QED
  BY <1>2, <1>3

(* What follows place i.                                                   *)
LEMMA FromProperties ==
  ASSUME NEW s \in Text, NEW i \in 1 .. Len(s) + 1
  PROVE  /\ From(s, i) \in Text /\ Len(From(s, i)) = Len(s) - i + 1
         /\ \A k \in 1 .. Len(s) - i + 1 : From(s, i)[k] = s[i + k - 1]
<1>1. Len(s) \in Nat /\ i \in Int /\ Len(s) \in Int
      /\ \A k \in i .. Len(s) : s[k] \in Chars
  BY DEF Text
<1>2. /\ From(s, i) \in Text
      /\ Len(From(s, i)) = IF i <= Len(s) THEN Len(s) - i + 1 ELSE 0
      /\ \A k \in 1 .. Len(s) - i + 1 : From(s, i)[k] = s[i + k - 1]
  BY <1>1, SubSeqProperties DEF From, Text
<1>3. i <= Len(s) \/ Len(s) - i + 1 = 0
  BY <1>1
<1> QED
  BY <1>2, <1>3

(* The frame of a plain text gives that text, and nothing else, back.      *)
LEMMA PlainIsRead ==
  ASSUME NEW text \in Text, Plain(text)
  PROVE  Readings(InPacket(Wire(text))) = {text}
<1> DEFINE w == Wire(text)
           n == Len(text)
           rest == From(w, 2)
<1>0. n \in Nat
  BY LenProperties DEF Text
<1>1. n + 2 <= Room /\ \A i \in 1 .. n : text[i] \in Chars /\ text[i] \notin {">", "|"}
  BY DEF Text, Plain
<1>2. /\ w \in Text /\ Len(w) = n + 2 /\ w[1] = "<" /\ w[n + 2] = ">"
      /\ \A i \in 1 .. n : w[i + 1] = IF text[i] = " " THEN "|" ELSE text[i]
  BY WireProperties
<1> HIDE DEF w, n
<1>3. InPacket(w) = w
  BY <1>1, <1>2 DEF InPacket
<1>4. Find(w, {"<"}) = 1
  <2>1. 1 \in 1 .. n + 2 /\ 1 .. 1 - 1 = {}
    BY <1>0
  <2>2. w \in Text /\ 1 \in 1 .. Len(w) /\ w[1] \in {"<"} /\ \A j \in 1 .. 1 - 1 : w[j] \notin {"<"}
    BY <1>2, <2>1
  <2> QED
    BY <2>2, FindIs
<1>5. /\ rest \in Text /\ Len(rest) = n + 1
      /\ \A k \in 1 .. n + 1 : rest[k] = w[2 + k - 1]
  <2>1. Len(w) = n + 2 /\ w \in Text
    BY <1>2
  <2>2. 2 \in 1 .. Len(w) + 1 /\ Len(w) - 2 + 1 = n + 1
    BY <1>0, <2>1
  <2>3. /\ From(w, 2) \in Text /\ Len(From(w, 2)) = Len(w) - 2 + 1
        /\ \A k \in 1 .. Len(w) - 2 + 1 : From(w, 2)[k] = w[2 + k - 1]
    BY <2>1, <2>2, FromProperties
  <2> QED
    BY <2>2, <2>3
<1>6. \A k \in 1 .. n : rest[k] = IF text[k] = " " THEN "|" ELSE text[k]
  <2> TAKE k \in 1 .. n
  <2>1. k \in 1 .. n + 1 /\ 2 + k - 1 = k + 1
    BY <1>0
  <2>2. rest[k] = w[k + 1]
    BY <1>5, <2>1
  <2> QED
    BY <1>2, <2>2
<1>7. rest[n + 1] = ">"
  <2>1. n + 1 \in 1 .. n + 1 /\ 2 + (n + 1) - 1 = n + 2
    BY <1>0
  <2> QED
    BY <1>2, <1>5, <2>1
<1>8. Find(rest, {">"}) = n + 1
  <2> HIDE DEF rest
  <2>1. Len(rest) = n + 1 /\ rest \in Text
    BY <1>5
  <2>2. n + 1 \in 1 .. Len(rest) /\ (n + 1) - 1 = n
    BY <1>0, <2>1
  <2>3. \A k \in 1 .. n : rest[k] \notin {">"}
    BY <1>1, <1>6
  <2>4. \A k \in 1 .. (n + 1) - 1 : rest[k] \notin {">"}
    BY <2>2, <2>3
  <2>5. rest[n + 1] \in {">"}
    BY <1>7
  <2> QED
    BY <2>1, <2>2, <2>4, <2>5, FindIs
<1> DEFINE body == SubSeq(rest, 1, n)
           again == Replaced(body, "|", " ")
<1>9. body \in Text /\ Len(body) = n /\ \A k \in 1 .. n : body[k] = rest[k]
  <2>0. 1 \in Int /\ n \in Int
    BY <1>0
  <2>1. \A k \in 1 .. n : rest[k] \in Chars
    BY <1>1, <1>6, FrameChars
  <2>2. /\ SubSeq(rest, 1, n) \in Seq(Chars)
        /\ Len(SubSeq(rest, 1, n)) = IF 1 <= n THEN n - 1 + 1 ELSE 0
        /\ \A k \in 1 .. n - 1 + 1 : SubSeq(rest, 1, n)[k] = rest[1 + k - 1]
    BY <2>0, <2>1, SubSeqProperties
  <2>3. (IF 1 <= n THEN n - 1 + 1 ELSE 0) = n /\ n - 1 + 1 = n /\ \A k \in 1 .. n : 1 + k - 1 = k
    BY <1>0
  <2> QED
    BY <2>2, <2>3 DEF Text
<1> HIDE DEF body
<1>10. again \in Text /\ Len(again) = n
       /\ \A k \in 1 .. n : again[k] = IF body[k] = "|" THEN " " ELSE body[k]
  <2>1. /\ again \in Text /\ Len(again) = Len(body)
        /\ \A k \in 1 .. Len(body) : again[k] = IF body[k] = "|" THEN " " ELSE body[k]
    <3>1. " " \in Chars
      BY FrameChars
    <3>2. again \in Text /\ Len(again) = Len(body)
      BY <1>9, <3>1, ReplacedProperties, Zenon
    <3>3. DOMAIN body = 1 .. Len(body)
      BY <1>9, LenProperties DEF Text
    <3>4. \A k \in 1 .. Len(body) : again[k] = IF body[k] = "|" THEN " " ELSE body[k]
      BY <3>3 DEF Replaced
    <3> QED
      BY <3>2, <3>4
  <2> HIDE DEF again
  <2> QED
    BY <1>9, <2>1
<1>11. \A k \in 1 .. n : again[k] = text[k]
  <2> HIDE DEF again
  <2> QED
    BY <1>1, <1>6, <1>9, <1>10
<1>12. again = text
  <2> HIDE DEF again
  <2> QED
    BY <1>10, <1>11, SeqEqual DEF Text, n
<1>13. Readings(w) = {Replaced(SubSeq(rest, 1, (n + 1) - 1), "|", " ")}
  <2>1. Find(w, {"<"}) + 1 = 2 /\ Find(w, {"<"}) # 0
    BY <1>4
  <2>2. Find(From(w, Find(w, {"<"}) + 1), {">"}) = n + 1 /\ n + 1 # 0
    BY <1>0, <1>8, <2>1
  <2> QED
    BY <2>1, <2>2 DEF Readings
<1>14. (n + 1) - 1 = n
  BY <1>0
<1> QED
  BY <1>3, <1>12, <1>13, <1>14 DEF body, w

LEMMA SubSeqText ==
  ASSUME NEW s \in Text, NEW m \in Nat \ {0}, NEW n \in Int, n <= Len(s)
  PROVE  SubSeq(s, m, n) \in Text
<1>1. Len(s) \in Nat /\ \A i \in 1 .. Len(s) : s[i] \in Chars
  BY DEF Text
<1>2. m \in Int /\ \A i \in m .. n : i \in 1 .. Len(s)
  BY <1>1
<1>3. \A i \in m .. n : s[i] \in Chars
  BY <1>1, <1>2
<1> QED
  BY <1>2, <1>3, SubSeqProperties DEF Text

(* Whatever arrives, what is run is a text or nothing.                     *)
LEMMA ReadingsType ==
  ASSUME NEW w \in Text
  PROVE  Readings(w) \subseteq AnyText
<1> DEFINE f == Find(w, {"<"})
           rest == From(w, f + 1)
           end == Find(rest, {">"})
<1>1. CASE f = 0
  BY <1>1 DEF Readings, AnyText
<1>2. CASE f # 0
  <2>1. f \in 0 .. Len(w) /\ Len(w) \in Nat
    BY FindProperties, LenProperties DEF Text
  <2> HIDE DEF f
  <2>2. f + 1 \in 1 .. Len(w) + 1
    BY <1>2, <2>1
  <2>3. rest \in Text /\ Len(rest) \in Nat
    BY <2>2, FromProperties, LenProperties DEF Text
  <2> HIDE DEF rest
  <2>4. end \in 0 .. Len(rest)
    BY <2>3, FindProperties
  <2>5. ASSUME end # 0 PROVE Replaced(SubSeq(rest, 1, end - 1), "|", " ") \in Text
    <3> HIDE DEF end
    <3>1. end - 1 \in Int /\ end - 1 <= Len(rest) /\ 1 \in Nat \ {0}
      BY <2>3, <2>4
    <3>2. SubSeq(rest, 1, end - 1) \in Text
      BY <2>3, <3>1, SubSeqText
    <3>3. " " \in Chars
      BY FrameChars
    <3> QED
      BY <3>2, <3>3, ReplacedProperties, Zenon
  <2>6. ASSUME NEW t \in Tails PROVE Replaced(rest \o t, "|", " ") \in Text
    <3>1. t \in Text
      BY RemoteShellAssumption DEF Text
    <3>2. rest \o t \in Text
      BY <2>3, <3>1, ConcatProperties DEF Text
    <3>3. " " \in Chars
      BY FrameChars
    <3> QED
      BY <3>2, <3>3, ReplacedProperties, Zenon
  <2>7. Readings(w) =
          IF end # 0 THEN {Replaced(SubSeq(rest, 1, end - 1), "|", " ")}
          ELSE {Nothing} \cup {Replaced(rest \o t, "|", " ") : t \in Tails}
    BY <1>2 DEF Readings, rest, f
  <2> DEFINE inside == Replaced(SubSeq(rest, 1, end - 1), "|", " ")
             beyond(t) == Replaced(rest \o t, "|", " ")
  <2>8. CASE end # 0
    <3>1. Readings(w) = {inside}
      BY <2>7, <2>8
    <3>2. inside \in Text
      BY <2>5, <2>8
    <3> HIDE DEF inside
    <3> QED
      BY <3>1, <3>2 DEF AnyText
  <2>9. CASE end = 0
    <3>1. Readings(w) = {Nothing} \cup {beyond(t) : t \in Tails}
      BY <2>7, <2>9
    <3>2. \A t \in Tails : beyond(t) \in Text
      BY <2>6
    <3> HIDE DEF beyond
    <3> QED
      BY <3>1, <3>2 DEF AnyText
  <2> QED
    BY <2>8, <2>9
<1> QED
  BY <1>1, <1>2

(* What a line of a file asks for.                                         *)
LEMMA OutcomeType ==
  ASSUME NEW line \in Text
  PROVE  /\ Outcome(line) \in [to : Places, text : AnyText]
         /\ Outcome(line).to # "nobody" =>
              /\ Key(line) \in 2 .. Len(line) /\ line[Key(line)] = "["
              /\ Closing(line) \in 1 .. Len(line) - Key(line) + 1
              /\ Outcome(line).to = Receiver(line)
              /\ Outcome(line).text = Bracketed(line) /\ Bracketed(line) \in Text
<1>1. CASE Receiver(line) = "nobody" \/ Closing(line) = 0
  <2>1. Outcome(line) = [to |-> "nobody", text |-> Nothing]
    BY <1>1 DEF Outcome
  <2> QED
    BY <2>1 DEF Places, AnyText
<1>2. CASE ~(Receiver(line) = "nobody" \/ Closing(line) = 0)
  <2>1. Outcome(line) = [to |-> Receiver(line), text |-> Bracketed(line)]
    BY <1>2 DEF Outcome
  <2>2. Receiver(line) \in {"satellite", "ground"}
    BY <1>2 DEF Receiver
  <2>3. Key(line) \in 0 .. Len(line) /\ Len(line) \in Nat
    BY FindProperties, LenProperties DEF Key, Text
  <2>4. ~(Key(line) < 2) /\ line[Key(line)] = "["
    BY <1>2 DEF Receiver
  <2>5. Key(line) \in 2 .. Len(line) /\ Key(line) \in 1 .. Len(line) + 1
    BY <2>3, <2>4
  <2>6. /\ From(line, Key(line)) \in Text
        /\ Len(From(line, Key(line))) = Len(line) - Key(line) + 1
    BY <2>5, FromProperties
  <2>7. Closing(line) \in 0 .. Len(line) - Key(line) + 1 /\ Closing(line) # 0
    BY <1>2, <2>6, FindProperties DEF Closing
  <2>8. Bracketed(line) \in Text
    <3>1. /\ 2 \in Nat \ {0} /\ Closing(line) - 1 \in Int
          /\ Closing(line) - 1 <= Len(line) - Key(line) + 1
          /\ Closing(line) \in 1 .. Len(line) - Key(line) + 1
      BY <2>3, <2>5, <2>7
    <3> QED
      BY <2>6, <3>1, SubSeqText DEF Bracketed
  <2>9. Closing(line) \in 1 .. Len(line) - Key(line) + 1
    BY <2>3, <2>5, <2>7
  <2> QED
    BY <2>1, <2>2, <2>4, <2>5, <2>8, <2>9 DEF Places, AnyText
<1> QED
  BY <1>1, <1>2

(* The next line of the file in the buffer.                                *)
LEMMA LineProperties ==
  ASSUME file \in Text, pos \in 0 .. Len(file), MoreLines
  PROVE  /\ LineEnd \in pos + 1 .. Len(file) /\ file[LineEnd] = "\n"
         /\ \A k \in pos + 1 .. LineEnd - 1 : file[k] # "\n"
         /\ Line \in Text
<1> DEFINE rest == From(file, pos + 1)
           f == Find(rest, {"\n"})
<1>1. Len(file) \in Nat /\ pos \in Nat /\ pos <= Len(file)
  BY LenProperties DEF Text
<1>2. pos + 1 \in 1 .. Len(file) + 1
  BY <1>1
<1>3. /\ rest \in Text /\ Len(rest) = Len(file) - (pos + 1) + 1
      /\ \A k \in 1 .. Len(file) - (pos + 1) + 1 : rest[k] = file[pos + 1 + k - 1]
  BY <1>2, FromProperties
<1> HIDE DEF rest
<1>4. Len(rest) = Len(file) - pos /\ \A k \in 1 .. Len(file) - pos : rest[k] = file[pos + k]
  <2>1. Len(file) - (pos + 1) + 1 = Len(file) - pos
    BY <1>1
  <2>2. \A k \in 1 .. Len(file) - pos : pos + 1 + k - 1 = pos + k
    BY <1>1
  <2> QED
    BY <1>3, <2>1, <2>2
<1>5. /\ f \in 0 .. Len(rest)
      /\ f # 0 => rest[f] \in {"\n"} /\ \A j \in 1 .. f - 1 : rest[j] \notin {"\n"}
      /\ f = 0 => \A j \in 1 .. Len(rest) : rest[j] \notin {"\n"}
  BY <1>3, FindProperties
<1> HIDE DEF f
<1>6. f # 0
  <2>1. PICK k \in 2 .. Len(file) : k > pos /\ file[k] = "\n"
    BY DEF MoreLines
  <2>2. k - pos \in 1 .. Len(file) - pos /\ pos + (k - pos) = k
    BY <1>1, <2>1
  <2>3. rest[k - pos] = "\n"
    BY <1>4, <2>1, <2>2
  <2> QED
    BY <1>4, <1>5, <2>2, <2>3
<1>7. LineEnd = pos + f
  BY DEF LineEnd, f, rest
<1>8. f \in 1 .. Len(file) - pos
  BY <1>1, <1>4, <1>5, <1>6
<1>9. LineEnd \in pos + 1 .. Len(file)
  BY <1>1, <1>7, <1>8
<1>10. file[LineEnd] = "\n"
  BY <1>4, <1>5, <1>6, <1>7, <1>8
<1>11. ASSUME NEW k \in pos + 1 .. LineEnd - 1 PROVE file[k] # "\n"
  <2>1. k - pos \in 1 .. f - 1 /\ k - pos \in 1 .. Len(file) - pos /\ pos + (k - pos) = k
    BY <1>1, <1>7, <1>8
  <2>2. rest[k - pos] = file[k]
    BY <1>4, <2>1
  <2> QED
    BY <1>5, <1>6, <2>1, <2>2
<1>12. Line \in Text
  <2>1. pos + 1 \in Nat \ {0} /\ LineEnd - 1 \in Int /\ LineEnd - 1 <= Len(file)
    BY <1>1, <1>9
  <2> QED
    BY <2>1, SubSeqText DEF Line
<1> QED
  BY <1>9, <1>10, <1>11, <1>12

(* What parse_line leaves of a line in its buffer is a text.               *)
LEMMA LeavingsType ==
  ASSUME NEW line \in Text
  PROVE  Leavings(line) \in Text
<1> DEFINE end == IF Closing(line) = 0 THEN From(line, Key(line) + 1) ELSE Bracketed(line)
<1>1. CASE Receiver(line) \notin {"ground", "satellite"}
  BY <1>1 DEF Leavings
<1>2. CASE Receiver(line) \in {"ground", "satellite"}
  <2>1. end \in Text
    <3>1. CASE Closing(line) = 0
      <4>1. Key(line) \in 0 .. Len(line) /\ Len(line) \in Nat
        BY FindProperties, LenProperties DEF Key, Text
      <4>2. Key(line) + 1 \in 1 .. Len(line) + 1
        BY <4>1
      <4>3. From(line, Key(line) + 1) \in Text
        BY <4>2, FromProperties
      <4> QED
        BY <3>1, <4>3
    <3>2. CASE Closing(line) # 0
      <4>1. Outcome(line).to = Receiver(line)
        BY <1>2, <3>2 DEF Outcome
      <4>2. Bracketed(line) \in Text
        BY <1>2, <4>1, OutcomeType
      <4> QED
        BY <3>2, <4>2
    <3> QED
      BY <3>1, <3>2
  <2>2. <<"<">> \o end \in Text
    <3>1. \A c \in Chars : <<c>> \in Seq(Chars)
      OBVIOUS
    <3>2. <<"<">> \in Seq(Chars) /\ end \in Seq(Chars)
      BY <2>1, <3>1, FrameChars DEF Text
    <3> HIDE DEF end
    <3>3. <<"<">> \o end \in Seq(Chars)
      BY <3>2, ConcatProperties, Zenon
    <3> QED
      BY <3>3 DEF Text
  <2>3. Wire(end) \in Text
    BY <2>1, WireProperties
  <2>4. Leavings(line) \in {end, <<"<">> \o end, Wire(end), line}
    BY DEF Leavings
  <2> HIDE DEF end
  <2> QED
    BY <2>1, <2>2, <2>3, <2>4
<1> QED
  BY <1>1, <1>2

(* A line in the buffer is the line of the file: nothing of the line       *)
(* before stands behind it.                                                *)
LEMMA CopiedIs ==
  ASSUME NEW line \in Text
  PROVE  Copied(Zeroed(current), line) = line
<1>1. Len(line) \in Nat
  BY LenProperties DEF Text
<1>2. SubSeq(<<>>, Len(line) + 1, 0) = <<>>
  BY <1>1, SubSeqEmpty
<1>3. Len(<<>>) = 0
  OBVIOUS
<1> QED
  BY <1>2, <1>3, ConcatEmptySeq DEF Copied, Zeroed, Text

(* What a turn of the batch runner does.                                   *)
LEMMA TurnProperties ==
  ASSUME file \in Text, pos \in 0 .. Len(file), DoLine
  PROVE  /\ Line \in Text /\ pos' = LineEnd /\ file' = file
         /\ current' = Leavings(Line) /\ done' = Append(done, Outcome(Line))
         /\ \/ /\ Outcome(Line).to = "satellite"
               /\ Send(Outcome(Line).text, Cleared, "batch")
            \/ /\ Outcome(Line).to # "satellite"
               /\ UNCHANGED <<pc, back, link, history>>
<1>1. Line \in Text
  BY LineProperties DEF DoLine
<1>2. Copied(Zeroed(current), Line) = Line
  BY <1>1, CopiedIs
<1> QED
  BY <1>1, <1>2 DEF DoLine

-----------------------------------------------------------------------------
(* Types. *)

(* The first of a queue, and the rest of it.                               *)
LEMMA QueueType ==
  ASSUME NEW S, NEW q \in Seq(S), q # <<>>
  PROVE  /\ Head(q) \in S /\ Head(q) = q[1] /\ 1 \in DOMAIN q
         /\ Tail(q) \in Seq(S)
         /\ \A k \in DOMAIN Tail(q) : k + 1 \in DOMAIN q /\ Tail(q)[k] = q[k + 1]
<1>1. Len(q) \in Nat \ {0} /\ DOMAIN q = 1 .. Len(q) /\ Head(q) = q[1]
  BY EmptySeq, LenProperties
<1>2. /\ Head(q) \in S /\ Tail(q) \in Seq(S) /\ Len(Tail(q)) = Len(q) - 1
      /\ \A i \in 1 .. Len(Tail(q)) : Tail(q)[i] = q[i + 1]
  BY HeadTailProperties
<1>3. DOMAIN Tail(q) = 1 .. Len(q) - 1
  BY <1>2, LenProperties
<1>4. \A k \in 1 .. Len(q) - 1 : k + 1 \in 1 .. Len(q)
  BY <1>1
<1>5. 1 \in 1 .. Len(q)
  BY <1>1
<1> QED
  BY <1>1, <1>2, <1>3, <1>4, <1>5

LEMMA AppendType ==
  ASSUME NEW S, NEW q \in Seq(S), NEW e \in S
  PROVE  /\ Append(q, e) \in Seq(S) /\ Len(Append(q, e)) = Len(q) + 1
         /\ DOMAIN Append(q, e) = DOMAIN q \cup {Len(q) + 1}
         /\ Len(q) + 1 \notin DOMAIN q /\ Append(q, e)[Len(q) + 1] = e
         /\ \A k \in DOMAIN q : Append(q, e)[k] = q[k]
<1>1. Len(q) \in Nat /\ DOMAIN q = 1 .. Len(q)
  BY LenProperties
<1>2. /\ Append(q, e) \in Seq(S) /\ Len(Append(q, e)) = Len(q) + 1
      /\ \A i \in 1 .. Len(q) : Append(q, e)[i] = q[i]
      /\ Append(q, e)[Len(q) + 1] = e
  BY AppendProperties
<1>3. DOMAIN Append(q, e) = 1 .. Len(q) + 1
  BY <1>2, LenProperties
<1>4. 1 .. Len(q) + 1 = 1 .. Len(q) \cup {Len(q) + 1} /\ Len(q) + 1 \notin 1 .. Len(q)
  BY <1>1
<1> QED
  BY <1>1, <1>2, <1>3, <1>4

(* A call made: its frame on the way, its entry on the ground.             *)
Made(text, status, default) ==
  /\ asked' = Append(asked, text)
  /\ up' = Append(up, [call |-> Len(asked) + 1, text |-> InPacket(Wire(text))])
  /\ shown' = Append(shown, [status |-> status, returned |-> default])

LEMMA MadeType ==
  ASSUME Types, NEW text \in Text, NEW status \in Status, NEW default \in Int,
         Made(text, status, default)
  PROVE  /\ asked' \in Seq(Text) /\ up' \in Seq([call : Nat, text : Text])
         /\ shown' \in Seq([status : Status, returned : Int])
<1>1. asked \in Seq(Text) /\ up \in Seq([call : Nat, text : Text])
      /\ shown \in Seq([status : Status, returned : Int])
  BY DEF Types
<1>2. Len(asked) + 1 \in Nat
  BY <1>1, LenProperties
<1>3. InPacket(Wire(text)) \in Text
  BY WireProperties, PacketProperties
<1> DEFINE packet == [call |-> Len(asked) + 1, text |-> InPacket(Wire(text))]
           entry == [status |-> status, returned |-> default]
<1>4. packet \in [call : Nat, text : Text]
  BY <1>2, <1>3
<1>5. entry \in [status : Status, returned : Int]
  OBVIOUS
<1>6. asked' = Append(asked, text) /\ up' = Append(up, packet) /\ shown' = Append(shown, entry)
  BY DEF Made
<1> HIDE DEF packet, entry
<1> QED
  BY <1>1, <1>4, <1>5, <1>6, AppendProperties

LEMMA SendType ==
  ASSUME Types, NEW text \in Text, NEW default \in Int, NEW then \in {"idle", "batch"},
         Send(text, default, then)
  PROVE  /\ asked' \in Seq(Text) /\ up' \in Seq([call : Nat, text : Text])
         /\ shown' \in Seq([status : Status, returned : Int])
         /\ pc' = "await" /\ back' \in {"idle", "batch"} /\ down' = down /\ ran' = ran
<1>1. Made(text, "open", default)
  BY DEF Send, Made
<1>2. "open" \in Status
  BY DEF Status
<1> QED
  BY <1>1, <1>2, MadeType DEF Send

LEMMA CountersType ==
  ASSUME Types
  PROVE  (Start => ops' \in 0 .. MaxOps) /\ (Fault => faults' \in 0 .. MaxFaults)
<1>1. MaxOps \in Nat /\ MaxFaults \in Nat
  BY RemoteShellAssumption
<1>2. ops \in 0 .. MaxOps /\ faults \in 0 .. MaxFaults
  BY DEF Types
<1> QED
  BY <1>1, <1>2 DEF Start, Fault

LEMMA BatchType ==
  ASSUME Types, StartBatch \/ DoLine \/ EndBatch
  PROVE  Types'
<1>1. CASE StartBatch
  <2>1. file' \in Text
    BY <1>1, RemoteShellAssumption DEF StartBatch, Text
  <2>2. pos' \in 0 .. Len(file') /\ done' \in Seq([to : Places, text : AnyText])
    BY <1>1, <2>1, LenProperties DEF StartBatch, Text
  <2>3. ops' \in 0 .. MaxOps
    BY <1>1, CountersType DEF StartBatch
  <2>4. current' \in Text
    BY <1>1 DEF StartBatch, Text
  <2> QED
    BY <1>1, <2>1, <2>2, <2>3, <2>4 DEF Types, StartBatch, link, history
<1>2. CASE DoLine
  <2>0. file \in Text /\ pos \in 0 .. Len(file) /\ done \in Seq([to : Places, text : AnyText])
    BY DEF Types
  <2>1. LineEnd \in pos + 1 .. Len(file) /\ Line \in Text
    BY <1>2, <2>0, LineProperties DEF DoLine
  <2>2. pos' \in 0 .. Len(file) /\ file' = file
    BY <1>2, <2>0, <2>1, LenProperties DEF DoLine, Text
  <2>3. PICK o : /\ o = Outcome(Line) /\ done' = Append(done, o)
                 /\ \/ o.to = "satellite" /\ Send(o.text, Cleared, "batch")
                    \/ o.to # "satellite" /\ UNCHANGED <<pc, back, link, history>>
    BY <1>2, <2>0, TurnProperties
  <2>8. current' \in Text
    BY <1>2, <2>0, TurnProperties, LeavingsType
  <2>4. o \in [to : Places, text : AnyText] /\ (o.to = "satellite" => o.text \in Text)
    BY <2>1, <2>3, OutcomeType
  <2>5. done' \in Seq([to : Places, text : AnyText])
    BY <2>0, <2>3, <2>4, AppendProperties
  <2>6. CASE o.to = "satellite"
    <3>1. Cleared \in Int
      BY DEF Cleared
    <3>2. /\ asked' \in Seq(Text) /\ up' \in Seq([call : Nat, text : Text])
          /\ shown' \in Seq([status : Status, returned : Int])
          /\ pc' = "await" /\ back' \in {"idle", "batch"} /\ down' = down /\ ran' = ran
      BY <2>3, <2>4, <2>6, <3>1, SendType
    <3> QED
      BY <1>2, <2>2, <2>5, <2>8, <3>2 DEF DoLine, Types
  <2>7. CASE o.to # "satellite"
    BY <1>2, <2>2, <2>3, <2>5, <2>7, <2>8 DEF DoLine, Types, link, history
  <2> QED
    BY <2>6, <2>7
<1>3. CASE EndBatch
  <2>1. /\ file' \in Text /\ pos' \in 0 .. Len(file') /\ current' \in Text
        /\ done' \in Seq([to : Places, text : AnyText])
    BY <1>3 DEF EndBatch, Text
  <2> QED
    BY <1>3, <2>1 DEF EndBatch, Types, link, history
<1> QED
  BY <1>1, <1>2, <1>3

LEMMA PromptType ==
  ASSUME Types,
         \/ StartPrompt \/ (\E c \in Keys : TypeKey(c)) \/ Backspace
         \/ Enter \/ Confirm \/ Refuse \/ ControlX
  PROVE  Types'
<1>0. typed \in Seq(Chars) /\ Len(typed) \in Nat /\ Len(typed) <= Room
  BY LenProperties DEF Types, Text
<1>1. CASE StartPrompt
  BY <1>1, CountersType DEF StartPrompt, Types, batch, link, history
<1>2. ASSUME NEW c \in Keys, TypeKey(c) PROVE Types'
  <2>1. c \in Chars
    BY RemoteShellAssumption
  <2>2. typed' = Append(typed, c) /\ Len(typed) < Room
    BY <1>2 DEF TypeKey
  <2>3. typed' \in Seq(Chars) /\ Len(typed') = Len(typed) + 1
    BY <1>0, <2>1, <2>2, AppendProperties
  <2>4. Room \in Nat
    BY RemoteShellAssumption
  <2>5. typed' \in Text /\ Len(typed') <= Room
    BY <1>0, <2>2, <2>3, <2>4 DEF Text
  <2> QED
    BY <1>2, <2>5 DEF TypeKey, Types, batch, link, history
<1>3. CASE Backspace
  <2>1. typed' = SubSeq(typed, 1, Len(typed) - 1)
    BY <1>3 DEF Backspace
  <2>2. Len(typed) - 1 \in Int /\ Len(typed) - 1 <= Len(typed) /\ 1 \in Nat \ {0} /\ 1 \in Int
    BY <1>0
  <2>3. typed' \in Text
    BY <1>0, <2>1, <2>2, SubSeqText DEF Text
  <2>4. Len(typed') = IF 1 <= Len(typed) - 1 THEN Len(typed) - 1 - 1 + 1 ELSE 0
    <3>1. \A i \in 1 .. Len(typed) - 1 : i \in 1 .. Len(typed)
      BY <1>0
    <3>2. \A i \in 1 .. Len(typed) - 1 : typed[i] \in Chars
      BY <1>0, <3>1, ElementOfSeq
    <3> QED
      BY <2>1, <2>2, <3>2, SubSeqProperties
  <2>5. Room \in Nat
    BY RemoteShellAssumption
  <2>6. Len(typed') <= Room
    BY <1>0, <2>4, <2>5
  <2> QED
    BY <1>3, <2>3, <2>6 DEF Backspace, Types, batch, link, history
<1>4. CASE Enter
  BY <1>4 DEF Enter, Types, batch, link, history
<1>5. CASE Confirm \/ ControlX
  <2>1. Send(typed, Preset, "idle") /\ typed' = <<>>
        /\ file' = file /\ pos' = pos /\ current' = current /\ done' = done
        /\ ops' = ops /\ faults' = faults
    BY <1>5 DEF Confirm, ControlX, SendTyped, batch
  <2>2. typed \in Text /\ Preset \in Int
    BY DEF Types, Preset
  <2>3. /\ asked' \in Seq(Text) /\ up' \in Seq([call : Nat, text : Text])
        /\ shown' \in Seq([status : Status, returned : Int])
        /\ pc' = "await" /\ back' \in {"idle", "batch"} /\ down' = down /\ ran' = ran
    BY <2>1, <2>2, SendType
  <2>4. typed' \in Text /\ Len(typed') <= Room
    <3>1. Room \in Nat
      BY RemoteShellAssumption
    <3> QED
      BY <2>1, <3>1 DEF Text
  <2> QED
    BY <2>1, <2>3, <2>4 DEF Types
<1>6. CASE Refuse
  <2>1. typed' \in Text /\ Len(typed') <= Room
    <3>1. Room \in Nat
      BY RemoteShellAssumption
    <3> QED
      BY <1>6, <3>1 DEF Refuse, Text
  <2> QED
    BY <1>6, <2>1 DEF Refuse, Types, batch, link, history
<1> QED
  BY <1>1, <1>2, <1>3, <1>4, <1>5, <1>6

LEMMA RemoveType ==
  ASSUME Types, NEW t \in Removals, Remove(t)
  PROVE  Types'
<1>1. t \in Text
  BY RemoteShellAssumption DEF Text
<1>2. "sent" \in Status /\ Cleared \in Int /\ Made(t, "sent", Cleared)
  BY DEF Status, Cleared, Remove, Made
<1>3. /\ asked' \in Seq(Text) /\ up' \in Seq([call : Nat, text : Text])
      /\ shown' \in Seq([status : Status, returned : Int])
  BY <1>1, <1>2, MadeType
<1> QED
  BY <1>3, CountersType DEF Remove, Types, batch

(* One entry of shown changes.                                             *)
LEMMA ShownType ==
  ASSUME Types, NEW i \in DOMAIN shown, NEW status \in Status, NEW n \in Int
  PROVE  /\ [shown EXCEPT ![i] = [status |-> status, returned |-> n]]
              \in Seq([status : Status, returned : Int])
         /\ [shown EXCEPT ![i].status = status] \in Seq([status : Status, returned : Int])
<1>1. shown \in Seq([status : Status, returned : Int]) /\ i \in 1 .. Len(shown)
  BY LenProperties DEF Types
<1>2. shown[i] \in [status : Status, returned : Int]
  BY <1>1, ElementOfSeq
<1> DEFINE e == [status |-> status, returned |-> n]
           f == [shown[i] EXCEPT !.status = status]
<1>3. e \in [status : Status, returned : Int] /\ f \in [status : Status, returned : Int]
  BY <1>2
<1>4. [shown EXCEPT ![i].status = status] = [shown EXCEPT ![i] = f]
  OBVIOUS
<1> HIDE DEF e, f
<1>5. /\ [shown EXCEPT ![i] = e] \in Seq([status : Status, returned : Int])
      /\ [shown EXCEPT ![i] = f] \in Seq([status : Status, returned : Int])
  BY <1>1, <1>3, ExceptSeq
<1> QED
  BY <1>4, <1>5 DEF e

LEMMA ReturnsType == Returns \subseteq Int
<1>1. Results \subseteq Int
  BY RemoteShellAssumption
<1>2. Refused \in Int
  BY DEF Refused
<1> QED
  BY <1>1, <1>2 DEF Returns

LEMMA ReceiveType == Types /\ Receive => Types'
<1> SUFFICES ASSUME Types, Receive PROVE Types'
  OBVIOUS
<1>1. down \in Seq([call : Nat, result : Returns]) /\ down # <<>> /\ down' = Tail(down)
  BY DEF Types, Receive
<1>2. Head(down) \in [call : Nat, result : Returns] /\ down' \in Seq([call : Nat, result : Returns])
  BY <1>1, QueueType
<1>3. pc' \in {"idle", "batch", "prompt", "confirm", "await"}
  BY DEF Receive, Types
<1>4. shown' \in Seq([status : Status, returned : Int])
  <2>1. CASE ~Open(Head(down).call)
    BY <2>1 DEF Receive, Types
  <2>2. CASE Open(Head(down).call)
    <3>1. Head(down).call \in DOMAIN shown /\ "size" \in Status /\ Head(down).result \in Int
      BY <1>2, <2>2, ReturnsType DEF Open, Status
    <3>2. shown' = [shown EXCEPT ![Head(down).call] =
                      [status |-> "size", returned |-> Head(down).result]]
      BY <2>2 DEF Receive
    <3> QED
      BY <3>1, <3>2, ShownType
  <2> QED
    BY <2>1, <2>2
<1> QED
  BY <1>2, <1>3, <1>4 DEF Receive, Types, batch

LEMMA TimeoutType == Types /\ ShownInv /\ Timeout => Types'
<1> SUFFICES ASSUME Types, ShownInv, Timeout PROVE Types'
  OBVIOUS
<1>1. Len(asked) \in DOMAIN shown
  <2>1. shown \in Seq([status : Status, returned : Int]) /\ shown # <<>> /\ Len(asked) = Len(shown)
    BY DEF Types, ShownInv, Timeout
  <2> QED
    BY <2>1, EmptySeq, LenProperties
<1>2. shown' \in Seq([status : Status, returned : Int])
  <2>1. "none" \in Status /\ 0 \in Int
    BY DEF Status
  <2> QED
    BY <1>1, <2>1, ShownType DEF Timeout
<1>3. faults' \in 0 .. MaxFaults
  BY CountersType DEF Timeout, Types
<1> QED
  BY <1>2, <1>3 DEF Timeout, Types, batch, link

LEMMA ServeType == Types /\ Serve => Types'
<1> SUFFICES ASSUME Types, Serve PROVE Types'
  OBVIOUS
<1>1. up \in Seq([call : Nat, text : Text]) /\ up # <<>> /\ up' = Tail(up)
  BY DEF Types, Serve
<1>2. Head(up) \in [call : Nat, text : Text] /\ up' \in Seq([call : Nat, text : Text])
  BY <1>1, QueueType
<1>3. PICK text \in Readings(Head(up).text), result \in Returns :
        /\ ran' = Append(ran, [call |-> Head(up).call, text |-> text, result |-> result])
        /\ down' = Append(down, [call |-> Head(up).call, result |-> result])
  BY DEF Serve, Returns
<1>4. Head(up).call \in Nat /\ text \in AnyText
  BY <1>2, ReadingsType
<1>5. ran' \in Seq([call : Nat, text : AnyText, result : Returns])
  BY <1>3, <1>4, AppendProperties DEF Types
<1>6. down' \in Seq([call : Nat, result : Returns])
  BY <1>3, <1>4, AppendProperties DEF Types
<1> QED
  BY <1>2, <1>5, <1>6 DEF Serve, Types, batch

LEMMA LoseType == Types /\ Lose => Types'
<1> SUFFICES ASSUME Types, Lose PROVE Types'
  OBVIOUS
<1>1. faults' \in 0 .. MaxFaults
  BY CountersType DEF Lose
<1>2. up' \in Seq([call : Nat, text : Text]) /\ down' \in Seq([call : Nat, result : Returns])
  <2>1. up \in Seq([call : Nat, text : Text]) /\ down \in Seq([call : Nat, result : Returns])
    BY DEF Types
  <2>2. up # <<>> => Tail(up) \in Seq([call : Nat, text : Text])
    BY <2>1, QueueType
  <2>3. down # <<>> => Tail(down) \in Seq([call : Nat, result : Returns])
    BY <2>1, QueueType
  <2> QED
    BY <2>1, <2>2, <2>3 DEF Lose
<1> QED
  BY <1>1, <1>2 DEF Lose, Types, batch, history

-----------------------------------------------------------------------------
(* What is under way, and what has been shown. *)

(* The typed state, in the terms of the lemmas on sequences.               *)
LEMMA Sequences ==
  ASSUME Types
  PROVE  /\ up \in Seq([call : Nat, text : Text]) /\ down \in Seq([call : Nat, result : Returns])
         /\ asked \in Seq(Text) /\ ran \in Seq([call : Nat, text : AnyText, result : Returns])
         /\ shown \in Seq([status : Status, returned : Int])
         /\ Len(asked) \in Nat /\ DOMAIN asked = 1 .. Len(asked)
         /\ Len(shown) \in Nat /\ DOMAIN shown = 1 .. Len(shown)
         /\ Len(ran) \in Nat /\ DOMAIN ran = 1 .. Len(ran)
         /\ Len(up) \in Nat /\ DOMAIN up = 1 .. Len(up)
         /\ Len(down) \in Nat /\ DOMAIN down = 1 .. Len(down)
  BY LenProperties DEF Types

(* A call is made while nobody waits: its frame is behind all others.      *)
LEMMA MadeUp ==
  ASSUME Types, UpInv, DownInv, NEW text \in Text, NEW status, NEW default,
         Made(text, status, default), ran' = ran
  PROVE  UpInv'
<1> DEFINE n == Len(asked) + 1
           packet == [call |-> n, text |-> InPacket(Wire(text))]
<1>1. /\ Len(asked) \in Nat /\ DOMAIN asked = 1 .. Len(asked) /\ asked \in Seq(Text)
      /\ up \in Seq([call : Nat, text : Text]) /\ Len(up) \in Nat /\ DOMAIN up = 1 .. Len(up)
  BY Sequences
<1>2. n \in Nat /\ n \notin DOMAIN asked /\ \A i \in DOMAIN asked : i < n
  BY <1>1
<1>3. packet \in [call : Nat, text : Text]
  BY <1>2, WireProperties, PacketProperties
<1>4. asked' = Append(asked, text) /\ up' = Append(up, packet)
  BY DEF Made
<1>5. /\ DOMAIN asked' = DOMAIN asked \cup {n} /\ asked'[n] = text
      /\ \A i \in DOMAIN asked : asked'[i] = asked[i]
  BY <1>1, <1>4, AppendType
<1> DEFINE m == Len(up) + 1
<1>6. packet.call = n /\ packet.text = InPacket(Wire(text))
  OBVIOUS
<1> HIDE DEF n, packet
<1>7. /\ DOMAIN up' = DOMAIN up \cup {m} /\ up'[m] = packet
      /\ \A k \in DOMAIN up : up'[k] = up[k]
  BY <1>1, <1>3, <1>4, AppendType
<1>8. ~(m < m) /\ \A k \in DOMAIN up : k < m /\ ~(m < k)
  BY <1>1
<1>9. \A k \in DOMAIN up : up[k].call \in DOMAIN asked
  BY DEF UpInv
<1>10. \A k \in DOMAIN up : up[k].call < n
  BY <1>2, <1>9
<1>11. \A r \in DOMAIN ran : ran[r].call < n
  BY <1>2 DEF DownInv
<1> HIDE DEF m
<1>12. \A k \in DOMAIN up' :
         up'[k].call \in DOMAIN asked' /\ up'[k].text = InPacket(Wire(asked'[up'[k].call]))
  <2> SUFFICES ASSUME NEW k \in DOMAIN up'
               PROVE  up'[k].call \in DOMAIN asked' /\ up'[k].text = InPacket(Wire(asked'[up'[k].call]))
    OBVIOUS
  <2>1. CASE k = m
    BY <1>5, <1>6, <1>7, <2>1
  <2>2. CASE k \in DOMAIN up
    <3>1. up[k].call \in DOMAIN asked /\ up[k].text = InPacket(Wire(asked[up[k].call]))
      BY <2>2 DEF UpInv
    <3> QED
      BY <1>5, <1>7, <2>2, <3>1
  <2> QED
    BY <1>7, <2>1, <2>2
<1>13. \A j, k \in DOMAIN up' : j < k => up'[j].call < up'[k].call
  <2> SUFFICES ASSUME NEW j \in DOMAIN up', NEW k \in DOMAIN up', j < k
               PROVE  up'[j].call < up'[k].call
    OBVIOUS
  <2>1. j \in DOMAIN up
    <3> SUFFICES ASSUME j = m PROVE FALSE
      BY <1>7
    <3>1. k = m \/ k \in DOMAIN up
      BY <1>7
    <3>2. ~(m < k)
      BY <1>8, <3>1
    <3> QED
      BY <3>2
  <2>2. CASE k = m
    BY <1>6, <1>7, <1>10, <2>1, <2>2
  <2>3. CASE k \in DOMAIN up
    <3>1. up[j].call < up[k].call
      BY <2>1, <2>3 DEF UpInv
    <3> QED
      BY <1>7, <2>1, <2>3, <3>1
  <2> QED
    BY <1>7, <2>2, <2>3
<1>14. \A k \in DOMAIN up', r \in DOMAIN ran' : ran'[r].call < up'[k].call
  <2> SUFFICES ASSUME NEW k \in DOMAIN up', NEW r \in DOMAIN ran
               PROVE  ran[r].call < up'[k].call
    OBVIOUS
  <2>1. CASE k = m
    BY <1>6, <1>7, <1>11, <2>1
  <2>2. CASE k \in DOMAIN up
    BY <1>7, <2>2 DEF UpInv
  <2> QED
    BY <1>7, <2>1, <2>2
<1> QED
  BY <1>12, <1>13, <1>14 DEF UpInv

LEMMA MadeDown ==
  ASSUME Types, DownInv, NEW text \in Text, NEW status, NEW default,
         Made(text, status, default), ran' = ran, down' = down
  PROVE  DownInv'
<1>1. DOMAIN asked \subseteq DOMAIN asked'
  BY Sequences, AppendType DEF Made
<1> QED
  BY <1>1 DEF DownInv

LEMMA MadeShown ==
  ASSUME Types, ShownInv, pc # "await", NEW text \in Text,
         NEW status \in {"open", "sent"}, NEW default \in Int,
         Made(text, status, default), pc' = "await" <=> status = "open"
  PROVE  ShownInv'
<1> DEFINE n == Len(shown) + 1
           entry == [status |-> status, returned |-> default]
<1>1. /\ shown \in Seq([status : Status, returned : Int]) /\ asked \in Seq(Text)
      /\ Len(shown) \in Nat /\ DOMAIN shown = 1 .. Len(shown)
  BY Sequences
<1>2. entry \in [status : Status, returned : Int] /\ entry.status = status
  BY DEF Status
<1>3. shown' = Append(shown, entry) /\ asked' = Append(asked, text)
  BY DEF Made
<1>4. \A i \in DOMAIN shown : i # n
  BY <1>1
<1> HIDE DEF entry
<1>5. /\ Len(shown') = n /\ DOMAIN shown' = DOMAIN shown \cup {n} /\ shown'[n] = entry
      /\ \A k \in DOMAIN shown : shown'[k] = shown[k]
      /\ shown' # <<>>
  BY <1>1, <1>2, <1>3, AppendType, AppendProperties
<1>6. Len(asked') = n
  BY <1>1, <1>3, AppendType DEF ShownInv
<1> HIDE DEF n
<1>7. \A i \in DOMAIN shown : shown[i].status # "open"
  BY DEF ShownInv
<1>8. \A i \in DOMAIN shown' : shown'[i].status = "open" <=> pc' = "await" /\ i = Len(shown')
  BY <1>2, <1>4, <1>5, <1>7
<1>9. \A i \in DOMAIN shown' : shown'[i].status = "size" => shown'[i].returned \in Returns
  BY <1>2, <1>5 DEF ShownInv
<1> QED
  BY <1>5, <1>6, <1>8, <1>9 DEF ShownInv

(* The queues lose their first elements.                                   *)
LEMMA TailUp ==
  ASSUME Types, UpInv, up # <<>>, up' = Tail(up), asked' = asked
  PROVE  /\ \A k \in DOMAIN up' :
              up'[k].call \in DOMAIN asked' /\ up'[k].text = InPacket(Wire(asked'[up'[k].call]))
         /\ \A j, k \in DOMAIN up' : j < k => up'[j].call < up'[k].call
         /\ \A k \in DOMAIN up' : Head(up).call < up'[k].call
         /\ \A k \in DOMAIN up', r \in DOMAIN ran : ran[r].call < up'[k].call
<1>1. /\ \A k \in DOMAIN up' : k + 1 \in DOMAIN up /\ up'[k] = up[k + 1]
      /\ 1 \in DOMAIN up /\ Head(up) = up[1]
  BY Sequences, QueueType
<1>2. DOMAIN up \subseteq Nat /\ DOMAIN up' \subseteq Nat \ {0}
  <2>1. up' \in Seq([call : Nat, text : Text])
    BY Sequences, QueueType
  <2> QED
    BY <2>1, Sequences, LenProperties
<1>3. \A j, k \in DOMAIN up' : j < k => j + 1 < k + 1
  BY <1>2
<1>4. \A k \in DOMAIN up' : 1 < k + 1
  BY <1>2
<1>5. \A k \in DOMAIN up : up[k].call \in DOMAIN asked /\ up[k].text = InPacket(Wire(asked[up[k].call]))
  BY DEF UpInv
<1>6. \A j, k \in DOMAIN up : j < k => up[j].call < up[k].call
  BY DEF UpInv
<1>7. \A k \in DOMAIN up, r \in DOMAIN ran : ran[r].call < up[k].call
  BY DEF UpInv
<1>8. \A k \in DOMAIN up' :
        up'[k].call \in DOMAIN asked' /\ up'[k].text = InPacket(Wire(asked'[up'[k].call]))
  BY <1>1, <1>5
<1>9. \A j, k \in DOMAIN up' : j < k => up'[j].call < up'[k].call
  BY <1>1, <1>3, <1>6
<1>10. \A k \in DOMAIN up' : Head(up).call < up'[k].call
  BY <1>1, <1>4, <1>6
<1>11. \A k \in DOMAIN up', r \in DOMAIN ran : ran[r].call < up'[k].call
  BY <1>1, <1>7
<1> QED
  BY <1>8, <1>9, <1>10, <1>11

(* A reply taken from the queue.                                           *)
LEMMA TailDown ==
  ASSUME Types, DownInv, down # <<>>, down' = Tail(down), asked' = asked, ran' = ran
  PROVE  DownInv'
<1>1. \A k \in DOMAIN down' : k + 1 \in DOMAIN down /\ down'[k] = down[k + 1]
  BY Sequences, QueueType
<1> QED
  BY <1>1 DEF DownInv

LEMMA ServeLinks ==
  ASSUME Types, UpInv, DownInv, Serve
  PROVE  UpInv' /\ DownInv'
<1>1. PICK text \in Readings(Head(up).text), result \in Returns :
        /\ ran' = Append(ran, [call |-> Head(up).call, text |-> text, result |-> result])
        /\ down' = Append(down, [call |-> Head(up).call, result |-> result])
  BY DEF Serve, Returns
<1>2. up # <<>> /\ up' = Tail(up) /\ asked' = asked
  BY DEF Serve
<1>3. Head(up) \in [call : Nat, text : Text] /\ Head(up) = up[1] /\ 1 \in DOMAIN up
  BY <1>2, Sequences, QueueType
<1> DEFINE c == Head(up).call
           run == [call |-> c, text |-> text, result |-> result]
           reply == [call |-> c, result |-> result]
<1>4. /\ run \in [call : Nat, text : AnyText, result : Returns] /\ run.call = c /\ run.result = result
      /\ reply \in [call : Nat, result : Returns] /\ reply.call = c /\ reply.result = result
  BY <1>3, ReadingsType
<1>5. c \in DOMAIN asked
  BY <1>3 DEF UpInv
<1>6. ran' = Append(ran, run) /\ down' = Append(down, reply)
  BY <1>1
<1> HIDE DEF run, reply, c
<1> DEFINE m == Len(ran) + 1
           n == Len(down) + 1
<1>7. DOMAIN ran' = DOMAIN ran \cup {m} /\ ran'[m] = run /\ \A k \in DOMAIN ran : ran'[k] = ran[k]
  BY <1>4, <1>6, Sequences, AppendType
<1>8. DOMAIN down' = DOMAIN down \cup {n} /\ down'[n] = reply /\ \A k \in DOMAIN down : down'[k] = down[k]
  BY <1>4, <1>6, Sequences, AppendType
<1> HIDE DEF m, n
<1>9. \A k \in DOMAIN up' : c < up'[k].call /\ \A r \in DOMAIN ran : ran[r].call < up'[k].call
  BY <1>2, TailUp DEF c
<1>10. \A k \in DOMAIN up', r \in DOMAIN ran' : ran'[r].call < up'[k].call
  BY <1>4, <1>7, <1>9
<1>11. UpInv'
  <2>1. /\ \A k \in DOMAIN up' :
             up'[k].call \in DOMAIN asked' /\ up'[k].text = InPacket(Wire(asked'[up'[k].call]))
        /\ \A j, k \in DOMAIN up' : j < k => up'[j].call < up'[k].call
    BY <1>2, TailUp
  <2> QED
    BY <1>10, <2>1 DEF UpInv
<1>12. \A r \in DOMAIN ran' : ran'[r].call \in DOMAIN asked'
  BY <1>2, <1>4, <1>5, <1>7 DEF DownInv
<1>13. \A k \in DOMAIN down' :
         \E r \in DOMAIN ran' : ran'[r].call = down'[k].call /\ ran'[r].result = down'[k].result
  <2> SUFFICES ASSUME NEW k \in DOMAIN down'
               PROVE  \E r \in DOMAIN ran' :
                        ran'[r].call = down'[k].call /\ ran'[r].result = down'[k].result
    OBVIOUS
  <2>1. CASE k = n
    BY <1>4, <1>7, <1>8, <2>1
  <2>2. CASE k \in DOMAIN down
    <3>1. PICK r \in DOMAIN ran : ran[r].call = down[k].call /\ ran[r].result = down[k].result
      BY <2>2 DEF DownInv
    <3> QED
      BY <1>7, <1>8, <2>2, <3>1
  <2> QED
    BY <1>8, <2>1, <2>2
<1>14. DownInv'
  BY <1>12, <1>13 DEF DownInv
<1> QED
  BY <1>11, <1>14

(* A call's end on the ground, with a reply or without.                    *)
LEMMA EndShown ==
  ASSUME Types, ShownInv, NEW i \in DOMAIN shown, shown[i].status = "open",
         NEW e \in [status : {"size", "none"}, returned : Int],
         e.status = "size" => e.returned \in Returns,
         shown' = [shown EXCEPT ![i] = e], asked' = asked, pc' = back
  PROVE  ShownInv'
<1>1. /\ shown \in Seq([status : Status, returned : Int])
      /\ Len(shown) \in Nat /\ DOMAIN shown = 1 .. Len(shown)
  BY Sequences
<1>2. e \in [status : Status, returned : Int] /\ e.status # "open"
  BY DEF Status
<1>3. /\ shown' \in Seq([status : Status, returned : Int]) /\ Len(shown') = Len(shown)
      /\ \A j \in 1 .. Len(shown) : shown'[j] = IF j = i THEN e ELSE shown[j]
  BY <1>1, <1>2, ExceptSeq
<1>4. DOMAIN shown' = DOMAIN shown
  BY <1>1, <1>3, LenProperties
<1>5. pc' # "await" /\ i = Len(shown)
  BY DEF Types, ShownInv
<1>6. \A j \in DOMAIN shown' : shown'[j].status # "open"
  BY <1>1, <1>2, <1>3, <1>4, <1>5 DEF ShownInv
<1>7. \A j \in DOMAIN shown' : shown'[j].status = "size" => shown'[j].returned \in Returns
  BY <1>1, <1>3, <1>4 DEF ShownInv
<1>8. Len(shown') = Len(asked')
  BY <1>3 DEF ShownInv
<1> QED
  BY <1>5, <1>6, <1>7, <1>8 DEF ShownInv

(* What Receive and Timeout do to what is shown.                           *)
LEMMA ReceiveShown ==
  ASSUME Types, Receive, Open(Head(down).call)
  PROVE  \E e \in [status : {"size", "none"}, returned : Int] :
           /\ e.status = "size" /\ e.returned = Head(down).result /\ e.returned \in Returns
           /\ shown' = [shown EXCEPT ![Head(down).call] = e]
<1> DEFINE e == [status |-> "size", returned |-> Head(down).result]
<1>1. Head(down) \in [call : Nat, result : Returns]
  BY Sequences, QueueType DEF Receive
<1>2. e \in [status : {"size", "none"}, returned : Int] /\ e.status = "size"
      /\ e.returned = Head(down).result /\ e.returned \in Returns
  BY <1>1, ReturnsType
<1>3. shown' = [shown EXCEPT ![Head(down).call] = e]
  BY DEF Receive
<1> QED
  BY <1>2, <1>3

LEMMA TimeoutShown ==
  ASSUME Types, ShownInv, Timeout
  PROVE  /\ Len(asked) \in DOMAIN shown /\ Open(Len(asked))
         /\ \E e \in [status : {"size", "none"}, returned : Int] :
              e.status = "none" /\ shown' = [shown EXCEPT ![Len(asked)] = e]
<1>1. /\ shown \in Seq([status : Status, returned : Int]) /\ shown # <<>>
      /\ Len(asked) = Len(shown) /\ DOMAIN shown = 1 .. Len(shown)
  BY Sequences DEF ShownInv, Timeout
<1>2. Len(asked) \in DOMAIN shown
  BY <1>1, EmptySeq
<1>3. Open(Len(asked))
  BY <1>1, <1>2 DEF Open, ShownInv, Timeout
<1> DEFINE e == [shown[Len(asked)] EXCEPT !.status = "none"]
<1>4. shown[Len(asked)] \in [status : Status, returned : Int]
  BY <1>1, <1>2, ElementOfSeq
<1>5. e \in [status : {"size", "none"}, returned : Int] /\ e.status = "none"
  BY <1>4
<1>6. shown' = [shown EXCEPT ![Len(asked)] = e]
  BY DEF Timeout
<1> QED
  BY <1>2, <1>3, <1>5, <1>6

-----------------------------------------------------------------------------
(* The invariant. *)

ShellInv == Types /\ UpInv /\ DownInv /\ ShownInv

LEMMA InitShell == Init => ShellInv
<1> SUFFICES ASSUME Init PROVE ShellInv
  OBVIOUS
<1>1. Room \in Nat /\ MaxOps \in Nat /\ MaxFaults \in Nat
  BY RemoteShellAssumption
<1>2. Types
  BY <1>1 DEF Init, Types, Text
<1>3. DOMAIN up = {} /\ DOMAIN down = {} /\ DOMAIN ran = {} /\ DOMAIN shown = {}
      /\ Len(shown) = Len(asked) /\ pc # "await"
  BY DEF Init
<1> QED
  BY <1>2, <1>3 DEF ShellInv, UpInv, DownInv, ShownInv

(* The steps that make no call and touch no packet.                        *)
LEMMA QuietShell ==
  ASSUME ShellInv, Types', pc # "await", pc' # "await", up' = up, down' = down,
         asked' = asked, ran' = ran, shown' = shown
  PROVE  ShellInv'
  BY DEF ShellInv, UpInv, DownInv, ShownInv

LEMMA MadeShell ==
  ASSUME ShellInv, Types', pc # "await", NEW text \in Text,
         NEW status \in {"open", "sent"}, NEW default \in Int,
         Made(text, status, default), pc' = "await" <=> status = "open",
         down' = down, ran' = ran
  PROVE  ShellInv'
  BY MadeUp, MadeDown, MadeShown DEF ShellInv

LEMMA BatchShell ==
  ASSUME ShellInv, StartBatch \/ DoLine \/ EndBatch
  PROVE  ShellInv'
<1>1. Types /\ Types'
  BY BatchType DEF ShellInv
<1>2. CASE StartBatch \/ EndBatch
  BY <1>1, <1>2, QuietShell DEF StartBatch, EndBatch, Start, link, history
<1>3. CASE DoLine
  <2>1. Line \in Text
    BY <1>1, <1>3, LineProperties DEF DoLine, Types
  <2>2. \/ Outcome(Line).to = "satellite" /\ Send(Outcome(Line).text, Cleared, "batch")
        \/ UNCHANGED <<pc, back, link, history>>
    BY <1>1, <1>3, TurnProperties DEF Types
  <2>3. pc = "batch"
    BY <1>3 DEF DoLine
  <2>4. CASE UNCHANGED <<pc, back, link, history>>
    BY <1>1, <2>3, <2>4, QuietShell DEF link, history
  <2>5. CASE Outcome(Line).to = "satellite" /\ Send(Outcome(Line).text, Cleared, "batch")
    <3>1. Outcome(Line).text \in Text
      BY <2>1, <2>5, OutcomeType
    <3>2. Made(Outcome(Line).text, "open", Cleared) /\ pc' = "await" /\ down' = down /\ ran' = ran
      BY <2>5 DEF Send, Made
    <3>3. Cleared \in Int
      BY DEF Cleared
    <3> QED
      BY <1>1, <2>3, <3>1, <3>2, <3>3, MadeShell
  <2> QED
    BY <2>2, <2>4, <2>5
<1> QED
  BY <1>2, <1>3

LEMMA PromptShell ==
  ASSUME ShellInv,
         \/ StartPrompt \/ (\E c \in Keys : TypeKey(c)) \/ Backspace
         \/ Enter \/ Confirm \/ Refuse \/ ControlX
  PROVE  ShellInv'
<1>1. Types /\ Types'
  BY PromptType DEF ShellInv
<1>2. CASE StartPrompt \/ (\E c \in Keys : TypeKey(c)) \/ Backspace \/ Enter \/ Refuse
  BY <1>1, <1>2, QuietShell DEF StartPrompt, TypeKey, Backspace, Enter, Refuse, Start, link, history
<1>3. CASE Confirm \/ ControlX
  <2>1. Made(typed, "open", Preset) /\ pc # "await" /\ pc' = "await" /\ down' = down /\ ran' = ran
    BY <1>3 DEF Confirm, ControlX, SendTyped, Send, Made
  <2>2. typed \in Text /\ Preset \in Int
    BY <1>1 DEF Types, Preset
  <2> QED
    BY <1>1, <2>1, <2>2, MadeShell
<1> QED
  BY <1>2, <1>3

LEMMA RemoveShell ==
  ASSUME ShellInv, NEW t \in Removals, Remove(t)
  PROVE  ShellInv'
<1>1. Types'
  BY RemoveType DEF ShellInv
<1>2. t \in Text
  BY RemoteShellAssumption DEF Text
<1>3. Cleared \in Int
  BY DEF Cleared
<1>4. Made(t, "sent", Cleared) /\ pc # "await" /\ pc' # "await" /\ down' = down /\ ran' = ran
  BY DEF Remove, Start, Made
<1> QED
  BY <1>1, <1>2, <1>3, <1>4, MadeShell

LEMMA ReceiveShell == ShellInv /\ Receive => ShellInv'
<1> SUFFICES ASSUME ShellInv, Receive PROVE ShellInv'
  OBVIOUS
<1>1. Types /\ UpInv /\ DownInv /\ ShownInv /\ Types'
  BY ReceiveType DEF ShellInv
<1>2. /\ down # <<>> /\ down' = Tail(down) /\ asked' = asked /\ ran' = ran /\ up' = up
  BY DEF Receive
<1>3. DownInv'
  BY <1>1, <1>2, TailDown
<1>4. UpInv'
  BY <1>1, <1>2 DEF UpInv
<1>5. ShownInv'
  <2>1. CASE Open(Head(down).call)
    BY <1>1, <1>2, <2>1, ReceiveShown, EndShown DEF Receive, Open
  <2>2. CASE ~Open(Head(down).call)
    BY <1>1, <1>2, <2>2 DEF Receive, ShownInv
  <2> QED
    BY <2>1, <2>2
<1> QED
  BY <1>1, <1>3, <1>4, <1>5 DEF ShellInv

LEMMA TimeoutShell == ShellInv /\ Timeout => ShellInv'
<1> SUFFICES ASSUME ShellInv, Timeout PROVE ShellInv'
  OBVIOUS
<1>1. Types /\ UpInv /\ DownInv /\ ShownInv /\ Types'
  BY TimeoutType DEF ShellInv
<1>2. down' = down /\ asked' = asked /\ ran' = ran /\ up' = up /\ pc' = back
  BY DEF Timeout, link
<1>3. UpInv' /\ DownInv'
  BY <1>1, <1>2 DEF UpInv, DownInv
<1>4. ShownInv'
  BY <1>1, <1>2, TimeoutShown, EndShown DEF Open
<1> QED
  BY <1>1, <1>3, <1>4 DEF ShellInv

LEMMA ServeShell == ShellInv /\ Serve => ShellInv'
<1> SUFFICES ASSUME ShellInv, Serve PROVE ShellInv'
  OBVIOUS
<1>1. Types' /\ UpInv' /\ DownInv'
  BY ServeType, ServeLinks DEF ShellInv
<1>2. ShownInv'
  BY DEF ShellInv, ShownInv, Serve
<1> QED
  BY <1>1, <1>2 DEF ShellInv

LEMMA LoseShell == ShellInv /\ Lose => ShellInv'
<1> SUFFICES ASSUME ShellInv, Lose PROVE ShellInv'
  OBVIOUS
<1>1. Types /\ UpInv /\ DownInv /\ ShownInv /\ Types'
  BY LoseType DEF ShellInv
<1>2. /\ asked' = asked /\ ran' = ran /\ shown' = shown /\ pc' = pc
      /\ \/ up # <<>> /\ up' = Tail(up) /\ down' = down
         \/ down # <<>> /\ down' = Tail(down) /\ up' = up
  BY DEF Lose, history
<1>3. ShownInv'
  BY <1>1, <1>2 DEF ShownInv
<1>4. CASE up # <<>> /\ up' = Tail(up) /\ down' = down
  <2>1. UpInv'
    BY <1>1, <1>2, <1>4, TailUp DEF UpInv
  <2>2. DownInv'
    BY <1>1, <1>2, <1>4 DEF DownInv
  <2> QED
    BY <1>1, <1>3, <2>1, <2>2 DEF ShellInv
<1>5. CASE down # <<>> /\ down' = Tail(down) /\ up' = up
  <2>1. UpInv'
    BY <1>1, <1>2, <1>5 DEF UpInv
  <2>2. DownInv'
    BY <1>1, <1>2, <1>5, TailDown
  <2> QED
    BY <1>1, <1>3, <2>1, <2>2 DEF ShellInv
<1> QED
  BY <1>2, <1>4, <1>5

LEMMA NextShell == ShellInv /\ [Next]_vars => ShellInv'
<1> SUFFICES ASSUME ShellInv, [Next]_vars PROVE ShellInv'
  OBVIOUS
<1>1. CASE Operator
  BY <1>1, BatchShell, PromptShell, RemoveShell DEF Operator
<1>2. CASE Ground
  BY <1>2, BatchShell, ReceiveShell, TimeoutShell DEF Ground
<1>3. CASE UNCHANGED vars
  BY <1>3 DEF ShellInv, Types, UpInv, DownInv, ShownInv, vars, batch, link, history
<1> QED
  BY <1>1, <1>2, <1>3, ServeShell, LoseShell DEF Next

LEMMA AlwaysShell == Spec => []ShellInv
  BY InitShell, NextShell, PTL DEF Spec

(* Every variable has its type, no packet holds more than Room bytes, and  *)
(* the console waits exactly while its last call is open.                  *)
THEOREM TypeCorrect == Spec => []TypeOK
<1>1. ShellInv => TypeOK
  <2> SUFFICES ASSUME ShellInv PROVE TypeOK
    OBVIOUS
  <2>1. Types /\ UpInv /\ DownInv /\ ShownInv
    BY DEF ShellInv
  <2>2. \A k \in DOMAIN up : up[k].call \in DOMAIN asked /\ Len(up[k].text) <= Room
    <3> SUFFICES ASSUME NEW k \in DOMAIN up
                 PROVE  up[k].call \in DOMAIN asked /\ Len(up[k].text) <= Room
      OBVIOUS
    <3>1. up[k].call \in DOMAIN asked /\ up[k].text = InPacket(Wire(asked[up[k].call]))
      BY <2>1 DEF UpInv
    <3>2. asked[up[k].call] \in Text
      BY <2>1, <3>1, Sequences, ElementOfSeq
    <3> QED
      BY <3>1, <3>2, WireProperties, PacketProperties
  <2>3. \A k \in DOMAIN down : down[k].call \in DOMAIN asked
    BY <2>1 DEF DownInv
  <2>4. DOMAIN shown = DOMAIN asked
    BY <2>1, Sequences DEF ShownInv
  <2>5. \A i \in DOMAIN shown : shown[i].status \in Status
    <3> SUFFICES ASSUME NEW i \in DOMAIN shown PROVE shown[i].status \in Status
      OBVIOUS
    <3>1. shown[i] \in [status : Status, returned : Int]
      BY <2>1, Sequences, ElementOfSeq
    <3> QED
      BY <3>1
  <2>6. \A i \in DOMAIN shown : Open(i) <=> pc = "await" /\ i = Len(shown)
    BY <2>1 DEF ShownInv, Open
  <2>7. \A k \in DOMAIN ran : ran[k].call \in DOMAIN asked
    BY <2>1 DEF DownInv
  <2> QED
    BY <2>1, <2>2, <2>3, <2>4, <2>5, <2>6, <2>7 DEF TypeOK, Types, Status
<1> QED
  BY <1>1, AlwaysShell, PTL
-----------------------------------------------------------------------------
(* The promise of RemoteCalls. *)

Knows == Returns \cup {Waiting, Unknown}

LEMMA Apart == Waiting # Unknown /\ Waiting \notin Returns /\ Unknown \notin Returns
<1>1. Waiting # Unknown /\ {Waiting, Unknown} \cap (Results \cup {Refused}) = {}
  BY RemoteShellAssumption
<1> QED
  BY <1>1 DEF Returns

(* What the callers know, by the status that is shown.                     *)
ToldRight ==
  /\ Told \in Seq(Knows) /\ Len(Told) = Len(shown) /\ DOMAIN Told = DOMAIN shown
  /\ \A i \in DOMAIN shown :
       /\ shown[i].status = "open" => Told[i] = Waiting
       /\ shown[i].status = "size" => Told[i] = shown[i].returned
       /\ shown[i].status \notin {"open", "size"} => Told[i] = Unknown
       /\ Told[i] = Waiting <=> shown[i].status = "open"

LEMMA ToldIs == Types /\ ShownInv => ToldRight
<1> SUFFICES ASSUME Types, ShownInv PROVE ToldRight
  OBVIOUS
<1>1. Len(shown) \in Nat /\ DOMAIN shown = 1 .. Len(shown)
  BY Sequences
<1>2. \A i \in DOMAIN shown : shown[i].status = "size" => shown[i].returned \in Returns
  BY DEF ShownInv
<1>3. DOMAIN Told = DOMAIN shown
  BY DEF Told
<1>4. \A i \in DOMAIN shown :
        Told[i] = CASE shown[i].status = "open" -> Waiting
                    [] shown[i].status = "size" -> shown[i].returned
                    [] OTHER -> Unknown
  BY DEF Told
<1>5. \A i \in DOMAIN shown :
              /\ shown[i].status = "open" => Told[i] = Waiting
              /\ shown[i].status = "size" => Told[i] = shown[i].returned
              /\ shown[i].status \notin {"open", "size"} => Told[i] = Unknown
  BY <1>4
<1>6. \A i \in DOMAIN shown : Told[i] \in Knows /\ (Told[i] = Waiting <=> shown[i].status = "open")
  BY <1>2, <1>5, Apart DEF Knows
<1>7. Told \in [1 .. Len(shown) -> Knows]
  <2>1. Told = [i \in 1 .. Len(shown) |-> Told[i]]
    BY <1>1 DEF Told
  <2> QED
    BY <1>1, <1>6, <2>1
<1>8. Told \in Seq(Knows)
  BY <1>1, <1>7, SeqDef
<1>9. Len(Told) = Len(shown)
  BY <1>1, <1>3, <1>8, LenProperties
<1> QED
  BY <1>3, <1>5, <1>6, <1>8, <1>9 DEF ToldRight

LEMMA ToldIsNext == (Types /\ ShownInv)' => ToldRight'
  BY ToldIs, PTL

(* A call made is a call asked.                                            *)
LEMMA MadeAsks ==
  ASSUME ShellInv, ShellInv', pc # "await", NEW text \in Text,
         NEW status \in {"open", "sent"}, NEW default \in Int,
         Made(text, status, default), ran' = ran
  PROVE  Calls!Ask
<1>1. Types /\ ShownInv /\ Types' /\ ShownInv'
  BY DEF ShellInv
<1> DEFINE entry == [status |-> status, returned |-> default]
           n == Len(shown) + 1
           x == IF status = "open" THEN Waiting ELSE Unknown
<1>2. entry \in [status : Status, returned : Int] /\ entry.status = status
  BY DEF Status
<1>3. shown' = Append(shown, entry) /\ asked' = Append(asked, text)
  BY DEF Made
<1> HIDE DEF entry
<1>4. /\ DOMAIN shown' = DOMAIN shown \cup {n} /\ n \notin DOMAIN shown /\ shown'[n] = entry
      /\ \A k \in DOMAIN shown : shown'[k] = shown[k]
      /\ Len(shown') = n
  BY <1>1, <1>2, <1>3, Sequences, AppendType
<1>5. /\ Told \in Seq(Knows) /\ Len(Told) = Len(shown)
      /\ DOMAIN Told = DOMAIN shown
      /\ \A i \in DOMAIN shown :
           /\ shown[i].status = "open" => Told[i] = Waiting
           /\ shown[i].status = "size" => Told[i] = shown[i].returned
           /\ shown[i].status \notin {"open", "size"} => Told[i] = Unknown
           /\ Told[i] = Waiting <=> shown[i].status = "open"
  BY <1>1, ToldIs, ToldIsNext DEF ToldRight
<1>6. /\ Told' \in Seq(Knows) /\ Len(Told') = Len(shown')
      /\ \A i \in DOMAIN shown' :
           /\ shown'[i].status = "open" => Told'[i] = Waiting
           /\ shown'[i].status = "size" => Told'[i] = shown'[i].returned
           /\ shown'[i].status \notin {"open", "size"} => Told'[i] = Unknown
  BY <1>1, ToldIs, ToldIsNext DEF ToldRight
<1>7. x \in Knows
  BY DEF Knows
<1>8. Told'[n] = x
  BY <1>2, <1>4, <1>6
<1>9. \A k \in DOMAIN shown : Told'[k] = Told[k]
  <2> SUFFICES ASSUME NEW k \in DOMAIN shown PROVE Told'[k] = Told[k]
    OBVIOUS
  <2>1. shown'[k] = shown[k] /\ k \in DOMAIN shown'
    BY <1>4
  <2>2. CASE shown[k].status = "open"
    BY <1>5, <1>6, <2>1, <2>2
  <2>3. CASE shown[k].status = "size"
    BY <1>5, <1>6, <2>1, <2>3
  <2>4. CASE shown[k].status \notin {"open", "size"}
    BY <1>5, <1>6, <2>1, <2>4
  <2> QED
    BY <2>2, <2>3, <2>4
<1> HIDE DEF x
<1>10. Told' = Append(Told, x)
  <2>1. /\ Append(Told, x) \in Seq(Knows) /\ Len(Append(Told, x)) = n
        /\ \A k \in DOMAIN shown : Append(Told, x)[k] = Told[k]
        /\ Append(Told, x)[n] = x
    BY <1>5, <1>7, AppendType
  <2>2. \A k \in DOMAIN shown' : Told'[k] = Append(Told, x)[k]
    BY <1>4, <1>8, <1>9, <2>1
  <2>3. DOMAIN shown' = 1 .. Len(Told') /\ Len(Told') = n
    BY <1>1, <1>4, <1>6, Sequences
  <2> QED
    BY <1>6, <2>1, <2>2, <2>3, SeqEqual
<1>11. Told' \in {Append(Told, Waiting), Append(Told, Unknown)}
  BY <1>10 DEF x
<1>12. \A i \in DOMAIN Told : Told[i] # Waiting
  BY <1>1, <1>5 DEF ShownInv
<1>13. Len(asked') = Len(asked) + 1 /\ SubSeq(asked', 1, Len(asked)) = asked
  BY <1>1, <1>3, Sequences, AppendProperties
<1> QED
  BY <1>11, <1>12, <1>13 DEF Calls!Ask

(* What the satellite runs is a call, later than all it has run.           *)
LEMMA ServePerforms ==
  ASSUME ShellInv, Serve
  PROVE  \E i \in DOMAIN asked : Calls!Perform(i)
<1>1. Types /\ UpInv
  BY DEF ShellInv
<1>2. PICK text \in Readings(Head(up).text), result \in Returns :
        ran' = Append(ran, [call |-> Head(up).call, text |-> text, result |-> result])
  BY DEF Serve, Returns
<1>3. up # <<>> /\ asked' = asked /\ shown' = shown
  BY DEF Serve
<1>4. Head(up) \in [call : Nat, text : Text] /\ Head(up) = up[1] /\ 1 \in DOMAIN up
  BY <1>1, <1>3, Sequences, QueueType
<1> DEFINE i == Head(up).call
           run == [call |-> i, text |-> text, result |-> result]
<1>5. i \in DOMAIN asked /\ Head(up).text = InPacket(Wire(asked[i]))
      /\ \A r \in DOMAIN ran : ran[r].call < i
  BY <1>1, <1>4 DEF UpInv
<1>6. run \in [call : Nat, text : AnyText, result : Returns] /\ run.call = i /\ run.text = text
  BY <1>4, ReadingsType
<1>7. asked[i] \in Text
  BY <1>1, <1>5, Sequences, ElementOfSeq
<1>8. Plain(asked[i]) => text = asked[i]
  <2> SUFFICES ASSUME Plain(asked[i]) PROVE text = asked[i]
    OBVIOUS
  <2>1. Readings(Head(up).text) = {asked[i]}
    BY <1>5, <1>7, PlainIsRead
  <2> QED
    BY <2>1
<1>9. ran' = Append(ran, run)
  BY <1>2
<1> HIDE DEF run, i
<1>10. /\ Len(ran') = Len(ran) + 1 /\ SubSeq(ran', 1, Len(ran)) = ran
       /\ ran'[Len(ran')] = run
  BY <1>1, <1>6, <1>9, Sequences, AppendProperties
<1>11. i > Calls!LastRun
  <2>1. CASE ran = <<>>
    <3>1. Calls!LastRun = 0
      BY <2>1 DEF Calls!LastRun
    <3>2. i \in 1 .. Len(asked)
      BY <1>1, <1>5, Sequences
    <3> QED
      BY <3>1, <3>2
  <2>2. CASE ran # <<>>
    <3>1. Calls!LastRun = ran[Len(ran)].call
      BY <2>2 DEF Calls!LastRun
    <3>2. Len(ran) \in DOMAIN ran
      <4>1. Len(ran) \in Nat /\ Len(ran) # 0 /\ DOMAIN ran = 1 .. Len(ran)
        BY <1>1, <2>2, Sequences, EmptySeq
      <4> QED
        BY <4>1
    <3>3. ran[Len(ran)] \in [call : Nat, text : AnyText, result : Returns]
      BY <1>1, <3>2, Sequences, ElementOfSeq
    <3>4. i \in Nat
      BY <1>4 DEF i
    <3> QED
      BY <1>5, <3>1, <3>2, <3>3, <3>4
  <2> QED
    BY <2>1, <2>2
<1>12. Told' = Told
  BY <1>3 DEF Told
<1>13. Calls!Perform(i)
  BY <1>3, <1>6, <1>8, <1>10, <1>11, <1>12 DEF Calls!Perform
<1> QED
  BY <1>5, <1>13

(* A call that ends tells its caller what it shows.                        *)
LEMMA EndTells ==
  ASSUME ShellInv, ShellInv', NEW i \in DOMAIN shown, shown[i].status = "open",
         NEW e \in [status : {"size", "none"}, returned : Int],
         shown' = [shown EXCEPT ![i] = e]
  PROVE  /\ Told[i] = Waiting
         /\ Told' = [Told EXCEPT ![i] = IF e.status = "size" THEN e.returned ELSE Unknown]
<1>1. Types /\ ShownInv /\ Types' /\ ShownInv'
  BY DEF ShellInv
<1> DEFINE x == IF e.status = "size" THEN e.returned ELSE Unknown
<1>2. /\ DOMAIN Told = DOMAIN shown /\ Told[i] = Waiting
      /\ \A k \in DOMAIN shown :
           /\ shown[k].status = "open" => Told[k] = Waiting
           /\ shown[k].status = "size" => Told[k] = shown[k].returned
           /\ shown[k].status \notin {"open", "size"} => Told[k] = Unknown
  BY <1>1, ToldIs, ToldIsNext DEF ToldRight
<1>3. /\ DOMAIN Told' = DOMAIN shown'
      /\ \A k \in DOMAIN shown' :
           /\ shown'[k].status = "open" => Told'[k] = Waiting
           /\ shown'[k].status = "size" => Told'[k] = shown'[k].returned
           /\ shown'[k].status \notin {"open", "size"} => Told'[k] = Unknown
  BY <1>1, ToldIs, ToldIsNext DEF ToldRight
<1>4. DOMAIN shown' = DOMAIN shown /\ shown'[i] = e
      /\ \A k \in DOMAIN shown : k # i => shown'[k] = shown[k]
  OBVIOUS
<1>5. Told'[i] = x
  BY <1>3, <1>4
<1>6. \A k \in DOMAIN shown : k # i => Told'[k] = Told[k]
  <2> SUFFICES ASSUME NEW k \in DOMAIN shown, k # i PROVE Told'[k] = Told[k]
    OBVIOUS
  <2>1. shown'[k] = shown[k] /\ k \in DOMAIN shown'
    BY <1>4
  <2>2. CASE shown[k].status = "open"
    BY <1>2, <1>3, <2>1, <2>2
  <2>3. CASE shown[k].status = "size"
    BY <1>2, <1>3, <2>1, <2>3
  <2>4. CASE shown[k].status \notin {"open", "size"}
    BY <1>2, <1>3, <2>1, <2>4
  <2> QED
    BY <2>2, <2>3, <2>4
<1>7. Told = [k \in DOMAIN shown |-> Told[k]] /\ Told' = [k \in DOMAIN shown' |-> Told'[k]]
  BY DEF Told
<1> HIDE DEF x
<1>8. Told' = [Told EXCEPT ![i] = x]
  BY <1>2, <1>3, <1>4, <1>5, <1>6, <1>7
<1> QED
  BY <1>2, <1>8 DEF x

LEMMA ReceiveTells ==
  ASSUME ShellInv, ShellInv', Receive
  PROVE  (\E i \in DOMAIN asked : Calls!Tell(i)) \/ UNCHANGED <<asked, ran, Told>>
<1>1. Types /\ DownInv /\ ShownInv /\ asked' = asked /\ ran' = ran
  BY DEF ShellInv, Receive
<1>2. CASE ~Open(Head(down).call)
  <2>1. shown' = shown
    BY <1>2 DEF Receive
  <2> QED
    BY <1>1, <2>1 DEF Told
<1>3. CASE Open(Head(down).call)
  <2> DEFINE i == Head(down).call
  <2>1. i \in DOMAIN shown /\ shown[i].status = "open" /\ i \in DOMAIN asked
    BY <1>1, <1>3, Sequences DEF Open, ShownInv
  <2>2. PICK e \in [status : {"size", "none"}, returned : Int] :
          /\ e.status = "size" /\ e.returned = Head(down).result
          /\ shown' = [shown EXCEPT ![i] = e]
    BY <1>1, <1>3, ReceiveShown
  <2>3. Told[i] = Waiting /\ Told' = [Told EXCEPT ![i] = Head(down).result]
    BY <2>1, <2>2, EndTells
  <2>4. 1 \in DOMAIN down /\ Head(down) = down[1]
    BY <1>1, Sequences, QueueType DEF Receive
  <2>5. PICK r \in DOMAIN ran : ran[r].call = i /\ ran[r].result = Head(down).result
    BY <1>1, <2>4 DEF DownInv
  <2> QED
    BY <1>1, <2>1, <2>3, <2>5 DEF Calls!Tell
<1> QED
  BY <1>2, <1>3

LEMMA TimeoutTells ==
  ASSUME ShellInv, ShellInv', Timeout
  PROVE  \E i \in DOMAIN asked : Calls!Tell(i)
<1>1. Types /\ ShownInv /\ asked' = asked /\ ran' = ran
  BY DEF ShellInv, Timeout
<1> DEFINE i == Len(asked)
<1>2. i \in DOMAIN shown /\ shown[i].status = "open" /\ i \in DOMAIN asked
  BY <1>1, TimeoutShown, Sequences DEF Open, ShownInv
<1>3. PICK e \in [status : {"size", "none"}, returned : Int] :
        e.status = "none" /\ shown' = [shown EXCEPT ![i] = e]
  BY <1>1, TimeoutShown
<1>4. Told[i] = Waiting /\ Told' = [Told EXCEPT ![i] = Unknown]
  BY <1>2, <1>3, EndTells
<1> QED
  BY <1>1, <1>2, <1>4 DEF Calls!Tell

LEMMA NextPromise ==
  ASSUME ShellInv, ShellInv', [Next]_vars
  PROVE  [Calls!Next]_<<asked, ran, Told>>
<1>1. Types /\ Types'
  BY DEF ShellInv
<1>2. CASE StartBatch \/ EndBatch
  BY <1>2 DEF StartBatch, EndBatch, history, Told
<1>3. CASE DoLine
  <2>1. Line \in Text /\ pc # "await"
    BY <1>1, <1>3, LineProperties DEF DoLine, Types
  <2>2. \/ Outcome(Line).to = "satellite" /\ Send(Outcome(Line).text, Cleared, "batch")
        \/ UNCHANGED history
    BY <1>1, <1>3, TurnProperties DEF Types
  <2>3. CASE UNCHANGED history
    BY <2>3 DEF history, Told
  <2>4. CASE Outcome(Line).to = "satellite" /\ Send(Outcome(Line).text, Cleared, "batch")
    <3>1. Outcome(Line).text \in Text /\ Cleared \in Int
      BY <2>1, <2>4, OutcomeType DEF Cleared
    <3>2. Made(Outcome(Line).text, "open", Cleared) /\ ran' = ran
      BY <2>4 DEF Send, Made
    <3> QED
      BY <2>1, <3>1, <3>2, MadeAsks DEF Calls!Next
  <2> QED
    BY <2>2, <2>3, <2>4
<1>4. CASE StartPrompt \/ (\E c \in Keys : TypeKey(c)) \/ Backspace \/ Enter \/ Refuse
  BY <1>4 DEF StartPrompt, TypeKey, Backspace, Enter, Refuse, history, Told
<1>5. CASE Confirm \/ ControlX
  <2>1. Made(typed, "open", Preset) /\ pc # "await" /\ ran' = ran
    BY <1>5 DEF Confirm, ControlX, SendTyped, Send, Made
  <2>2. typed \in Text /\ Preset \in Int
    BY <1>1 DEF Types, Preset
  <2> QED
    BY <2>1, <2>2, MadeAsks DEF Calls!Next
<1>6. ASSUME NEW t \in Removals, Remove(t) PROVE Calls!Ask
  <2>1. t \in Text
    BY RemoteShellAssumption DEF Text
  <2>2. Made(t, "sent", Cleared) /\ pc # "await" /\ ran' = ran /\ Cleared \in Int
    BY <1>6 DEF Remove, Start, Made, Cleared
  <2> QED
    BY <2>1, <2>2, MadeAsks
<1>7. CASE Receive
  BY <1>7, ReceiveTells DEF Calls!Next
<1>8. CASE Timeout
  BY <1>8, TimeoutTells DEF Calls!Next
<1>9. CASE Serve
  BY <1>9, ServePerforms DEF Calls!Next
<1>10. CASE Lose
  BY <1>10 DEF Lose, history, Told
<1>11. CASE UNCHANGED vars
  BY <1>11 DEF vars, history, Told
<1> QED
  BY <1>2, <1>3, <1>4, <1>5, <1>6, <1>7, <1>8, <1>9, <1>10, <1>11
  DEF Next, Operator, Ground, Calls!Next

(* Whatever is lost, late or given up, and whatever the texts: the console *)
(* and the programs call the satellite as RemoteCalls says - one at a time,*)
(* each call run at most once and in order, a plain text as it was meant,  *)
(* and a caller who is told a result is told that of the own call.         *)
THEOREM PromiseKept == Spec => KeepsPromise
<1>1. Init => Calls!Init
  BY DEF Init, Calls!Init, Told
<1>2. ShellInv /\ ShellInv' /\ [Next]_vars => [Calls!Next]_<<asked, ran, Told>>
  BY NextPromise
<1> QED
  BY <1>1, <1>2, AlwaysShell, PTL DEF Spec, KeepsPromise, Calls!Spec

-----------------------------------------------------------------------------
(* The batch file. *)

NewlinesOf(f) == {i \in DOMAIN f : f[i] = "\n"}

NewlinesTo(f, p) == {i \in NewlinesOf(f) : i <= p}

(* A line of f lies between p and k.                                       *)
LineBetween(f, p, k) ==
  /\ p \in NewlinesOf(f) \cup {0} /\ k \in NewlinesOf(f) /\ p < k
  /\ \A i \in NewlinesOf(f) : i <= p \/ i >= k

(* A line has become what it says.                                         *)
Right(o, line) ==
  /\ o.to = "satellite" <=> Says(line, "S", o.text)
  /\ o.to = "ground" <=> Says(line, "G", o.text)
  /\ o.to = "nobody" =>
       ~ \E letter \in {"S", "G"}, k, e \in DOMAIN line : Names(line, letter, k, e)

(* The place in the file is behind a line that ended, there are as many    *)
(* entries as lines have ended, and each tells of its own line.            *)
FileInv ==
  /\ pos \in NewlinesOf(file) \cup {0}
  /\ Cardinality(NewlinesTo(file, pos)) = Len(done)
  /\ \A j \in DOMAIN done : \E p, k \in NewlinesOf(file) \cup {0} :
       /\ LineBetween(file, p, k) /\ Cardinality(NewlinesTo(file, k)) = j
       /\ Right(done[j], SubSeq(file, p + 1, k - 1))

LEMMA NewlinesFinite ==
  ASSUME NEW f \in Text
  PROVE  /\ NewlinesOf(f) \subseteq Nat \ {0} /\ IsFiniteSet(NewlinesOf(f))
         /\ \A p : /\ NewlinesTo(f, p) \subseteq NewlinesOf(f) /\ IsFiniteSet(NewlinesTo(f, p))
                   /\ Cardinality(NewlinesTo(f, p)) \in Nat
<1>1. DOMAIN f = 1 .. Len(f) /\ Len(f) \in Nat
  BY LenProperties DEF Text
<1>2. NewlinesOf(f) \in SUBSET (1 .. Len(f))
  BY <1>1 DEF NewlinesOf
<1>3. IsFiniteSet(1 .. Len(f))
  BY <1>1, FS_Interval
<1>4. IsFiniteSet(NewlinesOf(f))
  BY <1>2, <1>3, FS_Subset
<1>5. ASSUME NEW p
      PROVE  /\ NewlinesTo(f, p) \subseteq NewlinesOf(f) /\ IsFiniteSet(NewlinesTo(f, p))
             /\ Cardinality(NewlinesTo(f, p)) \in Nat
  <2>1. NewlinesTo(f, p) \in SUBSET NewlinesOf(f)
    BY DEF NewlinesTo
  <2>2. IsFiniteSet(NewlinesTo(f, p))
    BY <1>4, <2>1, FS_Subset
  <2> QED
    BY <2>1, <2>2, FS_CardinalityType
<1>6. NewlinesOf(f) \subseteq Nat \ {0}
  BY <1>1, <1>2
<1> QED
  BY <1>4, <1>5, <1>6

(* A later newline has more of them in front.                              *)
LEMMA MoreNewlines ==
  ASSUME NEW f \in Text, NEW k \in NewlinesOf(f), NEW m \in NewlinesOf(f), k < m
  PROVE  Cardinality(NewlinesTo(f, k)) # Cardinality(NewlinesTo(f, m))
<1>1. NewlinesOf(f) \subseteq Nat \ {0} /\ IsFiniteSet(NewlinesTo(f, m))
  BY NewlinesFinite
<1>2. k \in Nat /\ m \in Nat
  BY <1>1
<1>3. NewlinesTo(f, k) \in SUBSET NewlinesTo(f, m)
  BY <1>1, <1>2 DEF NewlinesTo
<1>4. m \in NewlinesTo(f, m) /\ m \notin NewlinesTo(f, k)
  BY <1>2 DEF NewlinesTo
<1> QED
  BY <1>1, <1>3, <1>4, FS_Subset

(* The newline with j of them up to itself is the j-th.                    *)
LEMMA NewlineIs ==
  ASSUME file \in Text, NEW k \in NewlinesOf(file), NEW j,
         Cardinality(NewlinesTo(file, k)) = j
  PROVE  Newline(j) = k
<1>1. Ends = NewlinesOf(file) /\ \A m : NewlinesTo(file, m) = {i \in Ends : i <= m}
  BY DEF Ends, NewlinesOf, NewlinesTo
<1>2. Newline(j) = CHOOSE m \in NewlinesOf(file) : Cardinality(NewlinesTo(file, m)) = j
  BY <1>1 DEF Newline
<1>3. Newline(j) \in NewlinesOf(file) /\ Cardinality(NewlinesTo(file, Newline(j))) = j
  BY <1>2
<1> DEFINE n == Newline(j)
<1> HIDE DEF n
<1>4. n \in NewlinesOf(file) /\ Cardinality(NewlinesTo(file, n)) = j
  BY <1>3 DEF n
<1>5. ~(n < k) /\ ~(k < n)
  BY <1>4, MoreNewlines
<1>6. n \in Nat /\ k \in Nat
  BY <1>4, NewlinesFinite
<1>7. n = k
  BY <1>5, <1>6
<1> QED
  BY <1>7 DEF n

(* LineTo is the line that lies in front of a newline.                     *)
LEMMA LineToIs ==
  ASSUME file \in Text, NEW p, NEW k, LineBetween(file, p, k)
  PROVE  LineTo(k) = SubSeq(file, p + 1, k - 1)
<1>1. Ends = NewlinesOf(file)
  BY DEF Ends, NewlinesOf
<1> DEFINE Before(j) == j < k /\ \A i \in NewlinesOf(file) : i <= j \/ i >= k
           b == CHOOSE j \in NewlinesOf(file) \cup {0} : Before(j)
<1>2. LineTo(k) = SubSeq(file, 1 + b, k - 1)
  BY <1>1 DEF LineTo
<1>3. p \in NewlinesOf(file) \cup {0} /\ Before(p)
  BY DEF LineBetween
<1>4. b \in NewlinesOf(file) \cup {0} /\ Before(b)
  <2> HIDE DEF Before
  <2> QED
    BY <1>3
<1> HIDE DEF b
<1>5. NewlinesOf(file) \subseteq Nat \ {0} /\ k \in NewlinesOf(file)
  BY NewlinesFinite DEF LineBetween
<1>6. b \in Nat /\ p \in Nat /\ k \in Nat
  BY <1>3, <1>4, <1>5
<1>7. b = p
  <2>1. b \in NewlinesOf(file) => b <= p
    BY <1>3, <1>4, <1>6
  <2>2. p \in NewlinesOf(file) => p <= b
    BY <1>3, <1>4, <1>6
  <2> QED
    BY <1>3, <1>4, <1>6, <2>1, <2>2
<1>8. 1 + b = p + 1
  BY <1>6, <1>7
<1> QED
  BY <1>2, <1>8

(* What a line names, parse_line finds.                                    *)
LEMMA NamesIs ==
  ASSUME NEW line \in Text, NEW letter \in {"S", "G"},
         NEW k \in DOMAIN line, NEW e \in DOMAIN line, Names(line, letter, k, e)
  PROVE  /\ Key(line) = k /\ line[k - 1] = letter
         /\ Closing(line) = e - k + 1 /\ Closing(line) # 0
         /\ Receiver(line) = IF letter = "S" THEN "satellite" ELSE "ground"
<1>1. Len(line) \in Nat /\ DOMAIN line = 1 .. Len(line)
  BY LenProperties DEF Text
<1>2. /\ 1 < k /\ k < e /\ k \in 1 .. Len(line) /\ e \in 1 .. Len(line)
      /\ line[k] = "[" /\ line[e] = "]" /\ line[k - 1] = letter
      /\ \A i \in 1 .. k - 1 : line[i] \notin {"#", "["}
      /\ \A i \in k .. e - 1 : line[i] # "]"
  BY <1>1 DEF Names
<1>3. Key(line) = k
  BY <1>2, FindIs DEF Key
<1> DEFINE rest == From(line, k)
           n == e - k + 1
<1>4. k \in 1 .. Len(line) + 1 /\ n \in 1 .. Len(line) - k + 1 /\ n # 0 /\ k + n - 1 = e
      /\ \A j \in 1 .. n - 1 : j \in 1 .. Len(line) - k + 1 /\ k + j - 1 \in k .. e - 1
  BY <1>1, <1>2
<1>5. /\ rest \in Text /\ Len(rest) = Len(line) - k + 1
      /\ \A j \in 1 .. Len(line) - k + 1 : rest[j] = line[k + j - 1]
  BY <1>4, FromProperties
<1> HIDE DEF rest, n
<1>6. n \in 1 .. Len(rest) /\ rest[n] = "]"
  BY <1>2, <1>4, <1>5
<1>7. \A j \in 1 .. n - 1 : rest[j] # "]"
  BY <1>2, <1>4, <1>5
<1>8. Find(rest, {"]"}) = n
  <2>1. rest[n] \in {"]"} /\ \A j \in 1 .. n - 1 : rest[j] \notin {"]"}
    BY <1>6, <1>7
  <2> QED
    BY <1>5, <1>6, <2>1, FindIs
<1>9. Closing(line) = n
  BY <1>3, <1>8 DEF Closing, rest
<1>10. ~(Key(line) < 2)
  BY <1>1, <1>2, <1>3
<1>11. line[Key(line)] = "[" /\ line[Key(line) - 1] = letter
  BY <1>2, <1>3
<1>12. Receiver(line) = IF letter = "S" THEN "satellite" ELSE "ground"
  BY <1>10, <1>11 DEF Receiver
<1> QED
  BY <1>2, <1>3, <1>4, <1>9, <1>12 DEF n

(* A part of what follows k is a part of the text.                         *)
LEMMA PartOfRest ==
  ASSUME NEW s \in Text, NEW k \in 1 .. Len(s), NEW n \in 2 .. Len(s) - k + 1
  PROVE  SubSeq(From(s, k), 2, n - 1) = SubSeq(s, k + 1, k + n - 2)
<1>1. Len(s) \in Nat /\ k \in 1 .. Len(s) + 1
  BY LenProperties DEF Text
<1> DEFINE r == From(s, k)
           a == SubSeq(r, 2, n - 1)
           b == SubSeq(s, k + 1, k + n - 2)
<1>2. /\ r \in Text /\ Len(r) = Len(s) - k + 1
      /\ \A j \in 1 .. Len(s) - k + 1 : r[j] = s[k + j - 1]
  BY <1>1, FromProperties
<1> HIDE DEF r
<1>3. \A j \in 1 .. Len(s) : s[j] \in Chars
  BY DEF Text
<1>4. \A j \in 1 .. Len(s) - k + 1 : r[j] \in Chars
  BY <1>2 DEF Text
<1>5. /\ 2 \in Int /\ n - 1 \in Int /\ k + 1 \in Int /\ k + n - 2 \in Int
      /\ \A j \in 2 .. n - 1 : j \in 1 .. Len(s) - k + 1
      /\ \A j \in k + 1 .. k + n - 2 : j \in 1 .. Len(s)
  BY <1>1
<1>6. /\ a \in Seq(Chars) /\ Len(a) = IF 2 <= n - 1 THEN n - 1 - 2 + 1 ELSE 0
      /\ \A i \in 1 .. n - 1 - 2 + 1 : a[i] = r[2 + i - 1]
  <2>1. \A j \in 2 .. n - 1 : r[j] \in Chars
    BY <1>4, <1>5
  <2> QED
    BY <1>5, <2>1, SubSeqProperties
<1>7. /\ b \in Seq(Chars)
      /\ Len(b) = IF k + 1 <= k + n - 2 THEN k + n - 2 - (k + 1) + 1 ELSE 0
      /\ \A i \in 1 .. k + n - 2 - (k + 1) + 1 : b[i] = s[k + 1 + i - 1]
  <2>1. \A j \in k + 1 .. k + n - 2 : s[j] \in Chars
    BY <1>3, <1>5
  <2> QED
    BY <1>5, <2>1, SubSeqProperties
<1> HIDE DEF a, b
<1>8. Len(a) = n - 2
  <2>1. n \in Int /\ n >= 2
    BY <1>1
  <2> QED
    BY <1>6, <2>1
<1>9. Len(b) = n - 2
  <2>1. n \in Int /\ n >= 2 /\ k \in Int
    BY <1>1
  <2> QED
    BY <1>7, <2>1
<1>10. ASSUME NEW i \in 1 .. n - 2 PROVE a[i] = b[i]
  <2>1. /\ i \in 1 .. n - 1 - 2 + 1 /\ 2 + i - 1 = i + 1 /\ i + 1 \in 1 .. Len(s) - k + 1
        /\ i \in 1 .. k + n - 2 - (k + 1) + 1 /\ k + 1 + i - 1 = k + i /\ k + (i + 1) - 1 = k + i
    BY <1>1
  <2>2. a[i] = s[k + i]
    BY <1>2, <1>6, <2>1
  <2>3. b[i] = s[k + i]
    BY <1>7, <2>1
  <2> QED
    BY <2>2, <2>3
<1>11. a = b
  BY <1>6, <1>7, <1>8, <1>9, <1>10, SeqEqual
<1> QED
  BY <1>11 DEF a, b, r

(* A line that parse_line follows names its receiver.                      *)
LEMMA FollowedNames ==
  ASSUME NEW line \in Text, Outcome(line).to # "nobody"
  PROVE  \E k, e \in DOMAIN line :
           /\ Names(line, IF Outcome(line).to = "satellite" THEN "S" ELSE "G", k, e)
           /\ k = Key(line) /\ e = k + Closing(line) - 1
<1> DEFINE k == Key(line)
           rest == From(line, k)
           n == Closing(line)
           e == k + n - 1
           letter == IF Outcome(line).to = "satellite" THEN "S" ELSE "G"
<1>1. Len(line) \in Nat /\ DOMAIN line = 1 .. Len(line)
  BY LenProperties DEF Text
<1>2. /\ k \in 2 .. Len(line) /\ line[k] = "[" /\ n \in 1 .. Len(line) - k + 1
      /\ Outcome(line).to = Receiver(line)
  BY OutcomeType
<1>3. \A i \in 1 .. k - 1 : line[i] \notin {"#", "["}
  <2>1. k # 0
    BY <1>1, <1>2
  <2> QED
    BY <2>1, FindProperties DEF Key
<1>4. k \in 1 .. Len(line) + 1
  BY <1>1, <1>2
<1>5. /\ rest \in Text /\ Len(rest) = Len(line) - k + 1
      /\ \A j \in 1 .. Len(line) - k + 1 : rest[j] = line[k + j - 1]
  BY <1>4, FromProperties
<1>6. n = Find(rest, {"]"})
  BY DEF Closing
<1>7. line[k - 1] = letter
  BY <1>2 DEF Receiver
<1> HIDE DEF k, rest, n, letter
<1>8. rest[n] = "]" /\ \A j \in 1 .. n - 1 : rest[j] # "]"
  <2>1. n # 0
    BY <1>1, <1>2
  <2>2. rest[n] \in {"]"} /\ \A j \in 1 .. n - 1 : rest[j] \notin {"]"}
    BY <1>5, <1>6, <2>1, FindProperties
  <2> QED
    BY <2>2
<1>9. line[e] = "]"
  BY <1>2, <1>5, <1>8
<1>10. \A i \in k .. e - 1 : line[i] # "]"
  <2> SUFFICES ASSUME NEW i \in k .. e - 1 PROVE line[i] # "]"
    OBVIOUS
  <2>1. i - k + 1 \in 1 .. n - 1 /\ i - k + 1 \in 1 .. Len(line) - k + 1 /\ k + (i - k + 1) - 1 = i
    BY <1>1, <1>2
  <2> QED
    BY <1>5, <1>8, <2>1
<1>11. n # 1
  <2> SUFFICES ASSUME n = 1 PROVE FALSE
    OBVIOUS
  <2>1. e = k
    BY <1>1, <1>2
  <2> QED
    BY <1>2, <1>9, <2>1
<1>12. 1 < k /\ k < e /\ k \in 1 .. Len(line) /\ e \in 1 .. Len(line)
  BY <1>1, <1>2, <1>11
<1> HIDE DEF e
<1>13. Names(line, letter, k, e)
  BY <1>2, <1>3, <1>7, <1>9, <1>10, <1>12 DEF Names
<1>14. k \in DOMAIN line /\ e \in DOMAIN line
  BY <1>1, <1>12
<1> QED
  BY <1>13, <1>14 DEF k, e, n, letter

(* What parse_line makes of a line is what the line says.                  *)
LEMMA OutcomeRight ==
  ASSUME NEW line \in Text
  PROVE  Right(Outcome(line), line)
<1> DEFINE o == Outcome(line)
<1>1. CASE o.to = "nobody"
  <2>1. Receiver(line) = "nobody" \/ Closing(line) = 0
    <3>1. CASE ~(Receiver(line) = "nobody" \/ Closing(line) = 0)
      <4>1. o.to = Receiver(line)
        BY <3>1 DEF Outcome
      <4> QED
        BY <1>1, <3>1, <4>1
    <3> QED
      BY <3>1
  <2>2. ASSUME NEW letter \in {"S", "G"}, NEW k \in DOMAIN line, NEW e \in DOMAIN line,
               Names(line, letter, k, e)
        PROVE  FALSE
    <3>1. Closing(line) # 0 /\ Receiver(line) = IF letter = "S" THEN "satellite" ELSE "ground"
      BY <2>2, NamesIs
    <3> QED
      BY <2>1, <3>1
  <2>3. ~Says(line, "S", o.text) /\ ~Says(line, "G", o.text)
    BY <2>2 DEF Says
  <2> QED
    BY <1>1, <2>2, <2>3 DEF Right
<1>2. CASE o.to # "nobody"
  <2> DEFINE letter == IF o.to = "satellite" THEN "S" ELSE "G"
  <2>1. PICK k, e \in DOMAIN line :
          Names(line, letter, k, e) /\ k = Key(line) /\ e = k + Closing(line) - 1
    BY <1>2, FollowedNames
  <2>2. /\ k \in 2 .. Len(line) /\ Closing(line) \in 1 .. Len(line) - k + 1
        /\ o.text = Bracketed(line) /\ o.to = Receiver(line)
    BY <1>2, <2>1, OutcomeType
  <2>3. o.text = SubSeq(line, k + 1, e - 1)
    <3> DEFINE n == Closing(line)
    <3>1. n \in 1 .. Len(line) - k + 1 /\ e = k + n - 1 /\ k \in 2 .. Len(line) /\ Len(line) \in Nat
      BY <2>1, <2>2, LenProperties DEF Text
    <3> HIDE DEF n
    <3>2. k < e
      BY <2>1 DEF Names
    <3>3. n \in 2 .. Len(line) - k + 1 /\ k \in 1 .. Len(line) /\ e - 1 = k + n - 2
      BY <3>1, <3>2
    <3>4. SubSeq(From(line, k), 2, n - 1) = SubSeq(line, k + 1, k + n - 2)
      BY <3>3, PartOfRest
    <3> QED
      BY <2>1, <2>2, <3>3, <3>4 DEF Bracketed, n
  <2>4. Says(line, letter, o.text)
    BY <2>1, <2>3 DEF Says
  <2>5. ASSUME NEW other \in {"S", "G"}, NEW t, Says(line, other, t) PROVE other = letter
    <3>1. PICK i, j \in DOMAIN line : Names(line, other, i, j)
      BY <2>5 DEF Says
    <3>2. Receiver(line) = IF other = "S" THEN "satellite" ELSE "ground"
      BY <3>1, NamesIs
    <3> QED
      BY <2>2, <3>2
  <2>6. o.to \in {"satellite", "ground"}
    BY <1>2, OutcomeType DEF Places
  <2> HIDE DEF o
  <2>7. o.to = "satellite" <=> Says(line, "S", o.text)
    BY <2>4, <2>5, <2>6
  <2>8. o.to = "ground" <=> Says(line, "G", o.text)
    BY <2>4, <2>5, <2>6
  <2>9. Right(o, line)
    BY <1>2, <2>7, <2>8 DEF Right
  <2> QED
    BY <2>9 DEF o
<1> QED
  BY <1>1, <1>2

LEMMA FreshFile == file \in Text /\ pos = 0 /\ done = <<>> => FileInv
<1> SUFFICES ASSUME file \in Text, pos = 0, done = <<>> PROVE FileInv
  OBVIOUS
<1>1. NewlinesOf(file) \subseteq Nat \ {0}
  BY NewlinesFinite
<1>2. NewlinesTo(file, 0) = {}
  BY <1>1 DEF NewlinesTo
<1>3. Cardinality({}) = 0
  BY FS_EmptySet
<1> QED
  BY <1>2, <1>3 DEF FileInv

LEMMA FreshFileNext == (file \in Text /\ pos = 0 /\ done = <<>>)' => FileInv'
  BY FreshFile, PTL

(* One more line.                                                          *)
LEMMA DoLineFile ==
  ASSUME Types, FileInv, DoLine
  PROVE  FileInv'
<1>0. file \in Text /\ pos \in 0 .. Len(file) /\ done \in Seq([to : Places, text : AnyText])
      /\ MoreLines
  BY DEF Types, DoLine
<1>1. /\ LineEnd \in pos + 1 .. Len(file) /\ file[LineEnd] = "\n"
      /\ \A k \in pos + 1 .. LineEnd - 1 : file[k] # "\n"
      /\ Line \in Text
  BY <1>0, LineProperties
<1> DEFINE o == Outcome(Line)
           n == Len(done) + 1
           q == LineEnd
<1>2. file' = file /\ pos' = q /\ done' = Append(done, o)
  BY <1>0, TurnProperties
<1>3. o \in [to : Places, text : AnyText] /\ Right(o, Line)
  BY <1>1, OutcomeType, OutcomeRight
<1>4. Line = SubSeq(file, pos + 1, q - 1)
  BY DEF Line
<1> HIDE DEF o, q
<1>5. /\ DOMAIN done' = DOMAIN done \cup {n} /\ done'[n] = o /\ Len(done') = n
      /\ \A j \in DOMAIN done : done'[j] = done[j]
  BY <1>0, <1>2, <1>3, AppendType
<1>6. Len(file) \in Nat /\ DOMAIN file = 1 .. Len(file)
  BY <1>0, LenProperties DEF Text
<1>7. q \in pos + 1 .. Len(file) /\ file[q] = "\n" /\ \A k \in pos + 1 .. q - 1 : file[k] # "\n"
  BY <1>1 DEF q
<1>8. q \in NewlinesOf(file)
  BY <1>0, <1>6, <1>7 DEF NewlinesOf
<1>9. NewlinesOf(file) \subseteq Nat \ {0} /\ NewlinesOf(file) \subseteq 1 .. Len(file)
  BY <1>0, <1>6, NewlinesFinite DEF NewlinesOf
<1>10. \A i \in NewlinesOf(file) : i <= pos \/ i >= q
  <2> SUFFICES ASSUME NEW i \in NewlinesOf(file), ~(i <= pos), ~(i >= q) PROVE FALSE
    OBVIOUS
  <2>1. i \in pos + 1 .. q - 1
    BY <1>0, <1>6, <1>7, <1>9
  <2> QED
    BY <1>7, <2>1 DEF NewlinesOf
<1>11. pos < q
  BY <1>0, <1>6, <1>7
<1>12. LineBetween(file, pos, q)
  BY <1>8, <1>10, <1>11 DEF LineBetween, FileInv
<1>13. Cardinality(NewlinesTo(file, q)) = n
  <2>1. NewlinesTo(file, q) = NewlinesTo(file, pos) \cup {q}
    <3>1. q <= q /\ \A i \in NewlinesOf(file) : (i <= q <=> i <= pos \/ i = q)
      BY <1>0, <1>6, <1>7, <1>9, <1>10
    <3> QED
      BY <1>8, <3>1 DEF NewlinesTo
  <2>2. q \notin NewlinesTo(file, pos)
    <3>1. ~(q <= pos)
      BY <1>0, <1>6, <1>7
    <3> QED
      BY <3>1 DEF NewlinesTo
  <2>3. IsFiniteSet(NewlinesTo(file, pos))
    BY <1>0, NewlinesFinite
  <2>4. Cardinality(NewlinesTo(file, pos)) = Len(done)
    BY DEF FileInv
  <2> QED
    BY <2>1, <2>2, <2>3, <2>4, FS_AddElement
<1> HIDE DEF n
<1>14. ASSUME NEW j \in DOMAIN done'
       PROVE  \E p, k \in NewlinesOf(file) \cup {0} :
                /\ LineBetween(file, p, k) /\ Cardinality(NewlinesTo(file, k)) = j
                /\ Right(done'[j], SubSeq(file, p + 1, k - 1))
  <2>1. CASE j = n
    <3>1. pos \in NewlinesOf(file) \cup {0} /\ q \in NewlinesOf(file) \cup {0}
      BY <1>8 DEF FileInv
    <3>2. Right(done'[j], SubSeq(file, pos + 1, q - 1))
      BY <1>3, <1>4, <1>5, <2>1
    <3> QED
      BY <1>12, <1>13, <2>1, <3>1, <3>2
  <2>2. CASE j \in DOMAIN done
    BY <1>5, <2>2 DEF FileInv
  <2> QED
    BY <1>5, <2>1, <2>2
<1>15. pos' \in NewlinesOf(file') \cup {0} /\ Cardinality(NewlinesTo(file', pos')) = Len(done')
  BY <1>2, <1>5, <1>8, <1>13
<1> QED
  BY <1>2, <1>14, <1>15 DEF FileInv

LEMMA NextFile == Types /\ Types' /\ FileInv /\ [Next]_vars => FileInv'
<1> SUFFICES ASSUME Types, Types', FileInv, [Next]_vars PROVE FileInv'
  OBVIOUS
<1>1. CASE StartBatch \/ EndBatch
  <2>1. file' \in Text /\ pos' = 0 /\ done' = <<>>
    BY <1>1 DEF StartBatch, EndBatch, Types
  <2> QED
    BY <2>1, FreshFileNext
<1>2. CASE DoLine
  BY <1>2, DoLineFile
<1>3. CASE UNCHANGED batch
  <2>1. file' = file /\ pos' = pos /\ done' = done
    BY <1>3 DEF batch
  <2> QED
    BY <2>1 DEF FileInv
<1>4. StartBatch \/ EndBatch \/ DoLine \/ UNCHANGED batch
  BY DEF Next, Operator, Ground, StartPrompt, TypeKey, Backspace, Enter, Confirm, Refuse, ControlX,
         SendTyped, Remove, Receive, Timeout, Serve, Lose, vars
<1> QED
  BY <1>1, <1>2, <1>3, <1>4

LEMMA FileIsFollowed == Types /\ FileInv => FileFollowed
<1> SUFFICES ASSUME Types, FileInv PROVE FileFollowed
  OBVIOUS
<1>1. file \in Text /\ pos \in 0 .. Len(file) /\ done \in Seq([to : Places, text : AnyText])
  BY DEF Types
<1>2. Ends = NewlinesOf(file)
  BY DEF Ends, NewlinesOf
<1>3. NewlinesOf(file) \subseteq Nat \ {0} /\ IsFiniteSet(NewlinesOf(file))
  BY <1>1, NewlinesFinite
<1>4. Len(done) <= Cardinality(Ends)
  <2>1. NewlinesTo(file, pos) \in SUBSET NewlinesOf(file)
    BY DEF NewlinesTo
  <2> QED
    BY <1>2, <1>3, <2>1, FS_Subset DEF FileInv
<1>5. ASSUME NEW j \in DOMAIN done PROVE Right(done[j], LineTo(Newline(j)))
  <2>1. PICK p, k \in NewlinesOf(file) \cup {0} :
          /\ LineBetween(file, p, k) /\ Cardinality(NewlinesTo(file, k)) = j
          /\ Right(done[j], SubSeq(file, p + 1, k - 1))
    BY DEF FileInv
  <2>2. k \in NewlinesOf(file)
    BY <2>1 DEF LineBetween
  <2>3. Newline(j) = k
    BY <1>1, <2>1, <2>2, NewlineIs
  <2>4. LineTo(k) = SubSeq(file, p + 1, k - 1)
    BY <1>1, <2>1, LineToIs
  <2> QED
    BY <2>1, <2>3, <2>4
<1>6. ASSUME ~MoreLines PROVE Ends = {1} \/ Len(done) = Cardinality(Ends)
  <2>1. Len(file) \in Nat /\ DOMAIN file = 1 .. Len(file)
    BY <1>1, LenProperties DEF Text
  <2>2. \A i \in NewlinesOf(file) : i > pos => i = 1
    <3> SUFFICES ASSUME NEW i \in NewlinesOf(file), i > pos, i # 1 PROVE FALSE
      OBVIOUS
    <3>1. i \in 2 .. Len(file) /\ file[i] = "\n"
      BY <2>1 DEF NewlinesOf
    <3> QED
      BY <1>6, <3>1 DEF MoreLines
  <2>3. CASE NewlinesOf(file) = NewlinesTo(file, pos)
    BY <1>2, <2>3 DEF FileInv
  <2>4. CASE NewlinesOf(file) # NewlinesTo(file, pos)
    <3>1. PICK i \in NewlinesOf(file) : ~(i <= pos)
      BY <2>4 DEF NewlinesTo
    <3>2. i = 1 /\ pos = 0
      BY <1>1, <1>3, <2>1, <2>2, <3>1
    <3>3. \A m \in NewlinesOf(file) : m = 1
      BY <1>3, <2>2, <3>2
    <3> QED
      BY <1>2, <3>1, <3>2, <3>3
  <2> QED
    BY <2>3, <2>4
<1> QED
  BY <1>4, <1>5, <1>6 DEF FileFollowed, Right

(* Every line of every batch file that a newline has ended went to the     *)
(* receiver it names with the text in its brackets, in order, or did       *)
(* nothing if it names none, whatever became of the calls and whatever the *)
(* line before it left in their one buffer; and when the runner stops, no  *)
(* such line is left, unless the only newline is the first character.      *)
THEOREM Followed == Spec => []FileFollowed
<1>1. Init => FileInv
  BY FreshFile DEF Init, Text
<1>2. ShellInv => Types
  BY DEF ShellInv
<1> QED
  BY <1>1, <1>2, NextFile, FileIsFollowed, AlwaysShell, PTL DEF Spec

=============================================================================
