------------------------- MODULE BeaconLink_proofs -------------------------
(***************************************************************************)
(* Proofs about the exchange of the beacon configuration, for all numbers, *)
(* bounds and lengths of the link.                                         *)
(***************************************************************************)
EXTENDS BeaconLink, TLAPS

USE LinkAssumption

(* What a console stores fits, and the check of a configuration leaves one *)
(* that needs no check.                                                    *)
LEMMA StoredFits ==
  ASSUME NEW n \in Numbers
  PROVE  Stored(n) \in 0 .. (Width - 1)
<1>1. AtLeastMin(n) \in Nat
  BY DEF AtLeastMin
<1>2. \A k \in Nat : k % Width \in 0 .. (Width - 1)
  OBVIOUS
<1> QED BY <1>1, <1>2 DEF Stored

LEMMA AtLeastMinFits ==
  ASSUME NEW n \in 0 .. (Width - 1)
  PROVE  AtLeastMin(n) \in 0 .. (Width - 1) /\ AtLeastMin(AtLeastMin(n)) = AtLeastMin(n)
BY DEF AtLeastMin

LEMMA FlooredFits ==
  ASSUME NEW c \in Config
  PROVE  Floored(c) \in Config /\ Floored(Floored(c)) = Floored(c)
BY AtLeastMinFits DEF Floored, Config

(* Wire yields a configuration and undoes itself. *)
LEMMA WireTwice ==
  ASSUME NEW c \in Config
  PROVE  Wire(c) \in Config /\ Wire(Wire(c)) = c
BY DEF Wire, Config

LEMMA EditsFit ==
  ASSUME NEW c \in Config, NEW d \in EditsOf(c)
  PROVE  d \in Config
BY StoredFits DEF EditsOf, Config

LEMMA AllZerosFit == AllZeros \in Config
<1>1. 0 \in 0 .. (Width - 1)
  OBVIOUS
<1> QED BY <1>1 DEF AllZeros, Config

(* What a queue says of an element of what Tail or Append leave of it. *)
LEMMA TailElement ==
  ASSUME NEW S, NEW s \in Seq(S), s # <<>>
  PROVE  /\ Head(s) \in S /\ Head(s) = s[1] /\ 1 \in DOMAIN s
         /\ Tail(s) \in Seq(S)
         /\ \A i \in DOMAIN Tail(s) : i + 1 \in DOMAIN s /\ Tail(s)[i] = s[i + 1]
         /\ Len(Tail(s)) = Len(s) - 1
OBVIOUS

LEMMA ZeroLength ==
  ASSUME NEW S, NEW s \in Seq(S), Len(s) = 0
  PROVE  s = <<>>
OBVIOUS

LEMMA AppendElement ==
  ASSUME NEW S, NEW s \in Seq(S), NEW e \in S
  PROVE  /\ Append(s, e) \in Seq(S) /\ Append(s, e) # <<>>
         /\ \A i \in DOMAIN Append(s, e) :
              \/ i \in DOMAIN s /\ Append(s, e)[i] = s[i]
              \/ Append(s, e)[i] = e
OBVIOUS

LEMMA PacketsDiffer == None \notin Packet
BY DEF None, Packet

-----------------------------------------------------------------------------
(* Every variable keeps its type, and the answer to a command is behind    *)
(* every request before it.                                                *)
THEOREM LinkTyped == Spec => []TypeOK
<1>1. Init => TypeOK
  <2> SUFFICES ASSUME Init
               PROVE  TypeOK
    OBVIOUS
  <2>1. ground \in Config /\ sat \in Config
    BY AllZerosFit DEF Init
  <2>2. requests \in Seq(Packet) /\ answer \in Packet \cup {None}
    BY DEF Init
  <2> QED BY <2>1, <2>2 DEF Init, TypeOK
<1>2. TypeOK /\ [Next]_vars => TypeOK'
  <2> SUFFICES ASSUME TypeOK, [Next]_vars
               PROVE  TypeOK'
    OBVIOUS
  <2> USE DEF TypeOK, history, counts
  <2>1. CASE Edit
    BY <2>1, EditsFit DEF Edit
  <2>2. CASE Set
    <3>1. [task |-> 1, config |-> Wire(Floored(ground))] \in Packet
      BY FlooredFits, WireTwice DEF Packet
    <3>2. waiting = FALSE /\ answer = None
      BY <2>2 DEF Set, Request
    <3>3. requests' \in Seq(Packet) /\ requests' # <<>>
      BY <2>2, <3>1, AppendElement DEF Set, Request
    <3> QED BY <2>2, <3>2, <3>3 DEF Set, Request
  <2>3. CASE Get
    <3>1. [task |-> 2, config |-> ground] \in Packet
      BY DEF Packet
    <3>2. waiting = FALSE /\ answer = None
      BY <2>3 DEF Get, Request
    <3> QED BY <2>3, <3>1, <3>2, AppendElement DEF Get, Request
  <2>4. CASE Receive
    <3>1. Wire(answer.config) \in Config
      BY <2>4, WireTwice DEF Receive, Packet
    <3>2. waiting = FALSE
      BY <2>4 DEF Receive
    <3> QED BY <2>4, <3>1, <3>2 DEF Receive
  <2>5. CASE GiveUp
    BY <2>5 DEF GiveUp
  <2>6. CASE Serve
    <3> DEFINE p == Head(requests)
               expected == waiting /\ Len(requests) = 1
    <3>1. p \in Packet /\ Tail(requests) \in Seq(Packet)
      BY <2>6, TailElement DEF Serve
    <3>2. p.config \in Config
      BY <3>1 DEF Packet
    <3>3. sat' \in Config
      BY <2>6, <3>2, WireTwice, FlooredFits DEF Serve
    <3>4. answer = None
      BY <2>6 DEF Serve
    <3>5. CASE expected
      <4>1. answer' \in Packet /\ waiting' = FALSE /\ touched' = FALSE
        BY <2>6, <3>1, <3>5, WireTwice DEF Serve, Packet
      <4>2. Tail(requests) = <<>>
        <5>1. requests # <<>> /\ Len(requests) = 1
          BY <2>6, <3>5 DEF Serve
        <5>2. Len(Tail(requests)) = 0
          BY <5>1, TailElement
        <5> QED BY <3>1, <5>2, ZeroLength
      <4> QED BY <2>6, <3>1, <3>3, <3>5, <4>1, <4>2 DEF Serve
    <3>6. CASE ~expected
      <4>1. answer' = None /\ waiting' = waiting /\ touched' = touched
        BY <2>6, <3>4, <3>6 DEF Serve
      <4>2. waiting => Tail(requests) # <<>>
        <5>1. requests # <<>> /\ (waiting => Len(requests) # 1)
          BY <2>6, <3>6 DEF Serve
        <5>2. requests \in Seq(Packet) /\ Len(requests) \in Nat
          OBVIOUS
        <5>3. Len(Tail(requests)) = Len(requests) - 1
          BY <5>1, <5>2, TailElement
        <5>4. Len(<<>>) = 0
          OBVIOUS
        <5> QED BY <5>1, <5>2, <5>3, <5>4
      <4>3. <<requests, op, ground, started, vouched, counts>>'
              = <<Tail(requests), op, ground, started, vouched, counts>>
        BY <2>6 DEF Serve
      <4> QED BY <3>1, <3>3, <3>4, <4>1, <4>2, <4>3
    <3> QED BY <3>5, <3>6
  <2>7. CASE SatEdit
    BY <2>7, EditsFit DEF SatEdit, Change
  <2>8. CASE Restart
    <3>1. sat' \in Config
      BY <2>8, AllZerosFit DEF Restart
    <3>2. satEdits' \in Nat /\ started' = FALSE /\ touched' = TRUE /\ vouched' = FALSE
      BY <2>8 DEF Restart, Change
    <3>3. UNCHANGED <<ground, requests, op, waiting, answer, edits, faults>>
      BY <2>8 DEF Restart, Change
    <3> QED BY <3>1, <3>2, <3>3
  <2>9. CASE DaemonStart
    <3>1. Initial \in Config
      BY DEF Initial, Config
    <3> QED BY <2>9, <3>1 DEF DaemonStart, Change
  <2>10. CASE Lose
    <3>1. CASE requests # <<>> /\ requests' = Tail(requests)
               /\ waiting' = (waiting /\ Len(requests) > 1) /\ UNCHANGED answer
      <4>1. Tail(requests) \in Seq(Packet)
        BY <3>1, TailElement
      <4>2. waiting' \in BOOLEAN
        BY <3>1
      <4>3. \A s \in Seq(Packet) : Len(s) > 1 => Tail(s) # <<>>
        OBVIOUS
      <4>4. waiting' => waiting /\ Tail(requests) # <<>>
        BY <3>1, <4>3
      <4>5. answer = None
        BY <3>1
      <4> QED BY <2>10, <3>1, <4>1, <4>2, <4>4, <4>5 DEF Lose
    <3>2. CASE answer # None /\ answer' = None /\ UNCHANGED <<requests, waiting>>
      BY <2>10, <3>2 DEF Lose
    <3> QED BY <2>10, <3>1, <3>2 DEF Lose
  <2>11. CASE UNCHANGED vars
    BY <2>11 DEF vars
  <2> QED BY <2>1, <2>2, <2>3, <2>4, <2>5, <2>6, <2>7, <2>8, <2>9, <2>10, <2>11
          DEF Next
<1> QED BY <1>1, <1>2, PTL DEF Spec

-----------------------------------------------------------------------------
(* No check is left for the satellite, an answer shows the satellite's     *)
(* copy, and once it has come no set is on its way.                        *)
LinkInv ==
  /\ \A i \in DOMAIN requests : requests[i].task = 1 =>
       Floored(Wire(requests[i].config)) = Wire(requests[i].config)
  /\ answer # None /\ ~touched => Wire(answer.config) = sat
  /\ vouched => \A i \in DOMAIN requests : requests[i].task = 2
  /\ Vouched

(* An answer vouches for the satellite's copy, whatever was lost or given  *)
(* up before (set_beacon_config and get_beacon_config on both sides).      *)
THEOREM AnswerVouches == Spec => []Vouched
<1>1. Init => LinkInv
  BY DEF Init, LinkInv, Vouched
<1>2. TypeOK /\ LinkInv /\ [Next]_vars => LinkInv'
  <2> SUFFICES ASSUME TypeOK, LinkInv, [Next]_vars
               PROVE  LinkInv'
    OBVIOUS
  <2> USE DEF TypeOK, LinkInv, Vouched, history
  <2>1. CASE Edit
    BY <2>1 DEF Edit
  <2>2. CASE Set
    <3> DEFINE p == [task |-> 1, config |-> Wire(Floored(ground))]
    <3>1. p \in Packet /\ Floored(Wire(p.config)) = Wire(p.config)
      BY FlooredFits, WireTwice DEF Packet
    <3>2. requests' = Append(requests, p)
      BY <2>2 DEF Set, Request
    <3>3. \A i \in DOMAIN requests' :
            (i \in DOMAIN requests /\ requests'[i] = requests[i]) \/ requests'[i] = p
      BY <3>1, <3>2, AppendElement
    <3>4. \A i \in DOMAIN requests' : requests'[i].task = 1 =>
            Floored(Wire(requests'[i].config)) = Wire(requests'[i].config)
      BY <3>1, <3>3
    <3> QED BY <2>2, <3>4 DEF Set, Request
  <2>3. CASE Get
    <3> DEFINE p == [task |-> 2, config |-> ground]
    <3>1. p \in Packet
      BY DEF Packet
    <3>2. requests' = Append(requests, p)
      BY <2>3 DEF Get, Request
    <3>3. \A i \in DOMAIN requests' :
            (i \in DOMAIN requests /\ requests'[i] = requests[i]) \/ requests'[i] = p
      BY <3>1, <3>2, AppendElement
    <3>4. \A i \in DOMAIN requests' : requests'[i].task = 1 =>
            Floored(Wire(requests'[i].config)) = Wire(requests'[i].config)
      <4>1. p.task # 1
        OBVIOUS
      <4> QED BY <3>3, <4>1, Zenon
    <3>5. vouched => \A i \in DOMAIN requests' : requests'[i].task = 2
      BY <3>3
    <3> QED BY <2>3, <3>4, <3>5 DEF Get, Request
  <2>4. CASE Receive
    BY <2>4 DEF Receive
  <2>5. CASE GiveUp
    BY <2>5 DEF GiveUp
  <2>6. CASE Serve
    <3> DEFINE p == Head(requests)
               expected == waiting /\ Len(requests) = 1
    <3>1. p \in Packet /\ p = requests[1] /\ 1 \in DOMAIN requests
      BY <2>6, TailElement DEF Serve
    <3>2. p.config \in Config /\ p.task \in {1, 2}
      BY <3>1 DEF Packet
    <3>3. \A i \in DOMAIN requests' :
            i + 1 \in DOMAIN requests /\ requests'[i] = requests[i + 1]
      BY <2>6, TailElement DEF Serve
    <3>4. answer = None
      BY <2>6 DEF Serve
    <3>5. p.task = 1 => sat' = Wire(p.config)
      BY <2>6, <3>1, <3>2 DEF Serve
    <3>6. p.task = 2 => sat' = sat
      BY <2>6, <3>2 DEF Serve
    <3>7. answer' # None /\ ~touched' => Wire(answer'.config) = sat'
      <4>1. CASE ~expected
        BY <2>6, <3>4, <4>1 DEF Serve
      <4>2. CASE expected /\ p.task = 1
        BY <2>6, <3>5, <4>2 DEF Serve
      <4>3. CASE expected /\ p.task = 2
        <5>1. answer' = [p EXCEPT !.config = Wire(sat)]
          BY <2>6, <4>3 DEF Serve
        <5>2. answer'.config = Wire(sat)
          BY <3>1, <5>1 DEF Packet
        <5> QED BY <3>6, <4>3, <5>2, WireTwice
      <4> QED BY <3>2, <4>1, <4>2, <4>3
    <3>8. vouched => p.task = 2
      BY <3>1
    <3>9. vouched' = vouched /\ ground' = ground
      BY <2>6 DEF Serve
    <3>10. vouched' => ground' = sat'
      BY <3>6, <3>8, <3>9
    <3>11. \A i \in DOMAIN requests' : requests'[i].task = 1 =>
             Floored(Wire(requests'[i].config)) = Wire(requests'[i].config)
      BY <3>3
    <3>12. vouched' => \A i \in DOMAIN requests' : requests'[i].task = 2
      BY <3>3, <3>9
    <3> QED BY <3>7, <3>10, <3>11, <3>12
  <2>7. CASE SatEdit \/ Restart \/ DaemonStart
    BY <2>7 DEF SatEdit, Restart, DaemonStart, Change
  <2>8. CASE Lose
    <3>1. CASE requests # <<>> /\ requests' = Tail(requests) /\ UNCHANGED answer
      <4>1. \A i \in DOMAIN requests' :
              i + 1 \in DOMAIN requests /\ requests'[i] = requests[i + 1]
        BY <3>1, TailElement
      <4> QED BY <2>8, <3>1, <4>1 DEF Lose
    <3>2. CASE answer' = None /\ UNCHANGED requests
      BY <2>8, <3>2 DEF Lose
    <3> QED BY <2>8, <3>1, <3>2 DEF Lose
  <2>9. CASE UNCHANGED vars
    BY <2>9 DEF vars
  <2> QED BY <2>1, <2>2, <2>3, <2>4, <2>5, <2>6, <2>7, <2>8, <2>9 DEF Next
<1>3. LinkInv => Vouched
  BY DEF LinkInv
<1> QED BY <1>1, <1>2, <1>3, LinkTyped, PTL DEF Spec
=============================================================================
