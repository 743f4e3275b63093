--------------------------- MODULE Listing_proofs ---------------------------
(***************************************************************************)
(* Proofs about Listing, for directories of any size: the types, with the  *)
(* bookkeeping of requests, that a finished listing is complete, and that  *)
(* every page left on the card has cost a fault of its own.                *)
(***************************************************************************)
EXTENDS Listing, FiniteSetTheorems, TLAPS

USE DEF Slots

(* The members of S up to n: Pos(j) counts those of Occupied up to j. *)
UpTo(S, n) == {i \in S : i <= n}

(* Sets of places are finite, and so are their parts. *)
LEMMA SlotsFinite ==
  ASSUME NEW S \in SUBSET Slots
  PROVE  IsFiniteSet(S) /\ Cardinality(S) \in Nat
<1>1. IsFiniteSet(Slots)
  BY FS_Interval, ListingAssumption
<1> QED
  BY <1>1, FS_Subset, FS_CardinalityType

(* A set of places has no more members than one it is part of. *)
LEMMA FewerPlaces ==
  ASSUME NEW S \in SUBSET Slots, NEW T \in SUBSET S
  PROVE  Cardinality(T) <= Cardinality(S)
BY SlotsFinite, FS_Subset

(* Later places have greater numbers: an occupied place after n is         *)
(* numbered past all the occupied places up to n.                          *)
LEMMA NumbersGrow ==
  ASSUME NEW S \in SUBSET Slots, NEW n \in 0 .. N, NEW j \in S, n < j
  PROVE  Cardinality(UpTo(S, n)) + 1 <= Cardinality(UpTo(S, j))
<1>1. /\ UpTo(S, n) \in SUBSET Slots /\ UpTo(S, j) \in SUBSET Slots
      /\ UpTo(S, n) \cup {j} \in SUBSET UpTo(S, j) /\ j \notin UpTo(S, n)
  <2>1. S \in SUBSET Int /\ n \in Int /\ j \in Int
    BY ListingAssumption
  <2>2. (\A i \in S : i <= n => i <= j) /\ j <= j /\ ~(j <= n)
    BY <2>1
  <2> QED
    BY <2>2, Zenon DEF UpTo
<1>2. Cardinality(UpTo(S, n) \cup {j}) = Cardinality(UpTo(S, n)) + 1
  BY <1>1, SlotsFinite, FS_AddElement
<1> QED
  BY <1>1, <1>2, FewerPlaces

(* The places up to n lose at most as many members as the whole set. *)
LEMMA LossBounded ==
  ASSUME NEW S \in SUBSET Slots, NEW G \in SUBSET S, Cardinality(G) <= 1,
         NEW T \in SUBSET Slots, S \ G \subseteq T, NEW n \in 0 .. N
  PROVE  Cardinality(UpTo(S, n)) <= Cardinality(UpTo(T, n)) + 1
<1> DEFINE A == UpTo(S, n)
           B == UpTo(T, n)
<1>1. /\ A \in SUBSET Slots /\ B \in SUBSET Slots /\ A \cap G \in SUBSET G
      /\ A \ G \in SUBSET B /\ G \in SUBSET Slots /\ A \cap G \in SUBSET Slots
  BY DEF UpTo
<1>2. Cardinality(A \ G) = Cardinality(A) - Cardinality(A \cap G)
  BY <1>1, SlotsFinite, FS_Difference
<1>3. Cardinality(A \ G) <= Cardinality(B) /\ Cardinality(A \cap G) <= Cardinality(G)
  BY <1>1, FewerPlaces
<1>4. /\ Cardinality(A) \in Nat /\ Cardinality(B) \in Nat
      /\ Cardinality(G) \in Nat /\ Cardinality(A \cap G) \in Nat
  BY <1>1, SlotsFinite
<1>5. Cardinality(A) <= Cardinality(B) + 1
  BY <1>2, <1>3, <1>4
<1> QED
  BY <1>5
-----------------------------------------------------------------------------
(* Types. *)

(* The parts of TypeOK, so that a step can be followed part by part. *)
DirOK == /\ dir \in [Slots -> {"free", "dot", "file"} \cup Pages]
         /\ \A i, j \in Slots : dir[i] = dir[j] /\ dir[i] \in Pages => i = j
UpOK == /\ up \in Seq(Packet)
        /\ \A i \in 1 .. Len(up) :
             up[i].kind = "list" => phase = "wait" /\ up[i].from = start /\ i = Len(up)
GroundOK == /\ phase \in {"idle", "wait", "download", "done", "failed"}
            /\ start \in Nat /\ page \in Page /\ seen \subseteq Slots
HistoryOK == /\ stable \subseteq Visible
             /\ base \subseteq Slots /\ gone \subseteq base /\ spared \in BOOLEAN
CountsOK == listings \in Nat /\ faults \in Nat /\ others \in Nat

LEMMA TypeParts == TypeOK <=> DirOK /\ UpOK /\ GroundOK /\ HistoryOK /\ CountsOK
BY DEF TypeOK, DirOK, UpOK, GroundOK, HistoryOK, CountsOK

(* A page that the satellite makes has its type. *)
LEMMA PagesTyped ==
  ASSUME NEW f \in Nat, NEW p \in Pages
  PROVE  {WholePage(f, p)} \cup CutPages(f, p) \subseteq Page
<1>1. ASSUME NEW S \in SUBSET Slots, NEW n \in Nat PROVE PageOf(S, n, p) \in Page
  <2>1. Cardinality({i \in Occupied : \E j \in S : i <= j}) \in Nat
    BY SlotsFinite DEF Occupied
  <2> QED
    BY <2>1, <1>1 DEF PageOf, Page
<1>2. Cardinality(Occupied) \in Nat /\ \A t \in Slots : Pos(t) + 1 \in Nat
  BY SlotsFinite DEF Occupied, Pos
<1>3. Shown(f) \in SUBSET Slots
  BY DEF Shown, Visible
<1>4. WholePage(f, p) \in Page
  BY <1>1, <1>2, <1>3 DEF WholePage
<1>5. CutPages(f, p) \subseteq Page
  <2> SUFFICES ASSUME NEW t \in Shown(f)
               PROVE  PageOf({j \in Shown(f) : j < t}, Pos(t) + 1, p) \in Page
    BY DEF CutPages
  <2>1. {j \in Shown(f) : j < t} \in SUBSET Slots /\ t \in Slots
    BY <1>3
  <2> QED
    BY <1>1, <1>2, <2>1
<1> QED
  BY <1>4, <1>5

(* A page file that is created gets a place of its own, and nothing else   *)
(* in the directory changes.                                               *)
LEMMA CreatedKeeps ==
  ASSUME DirOK, NEW p \in Pages, dir' \in Created(p)
  PROVE  /\ DirOK'
         /\ \A j \in Slots : dir[j] # "free" => dir'[j] = dir[j]
<1>1. CASE Present(p)
  BY <1>1 DEF Created, DirOK
<1>2. CASE ~Present(p)
  <2>1. PICK k \in Slots \ Occupied : dir' = [dir EXCEPT ![k] = p]
    BY <1>2 DEF Created
  <2>2. dir[k] = "free"
    BY <2>1 DEF Occupied
  <2> QED
    BY <1>2, <2>1, <2>2 DEF DirOK, Present
<1> QED
  BY <1>1, <1>2

(* The same for the place of an entry that is removed. *)
LEMMA FreeKeeps ==
  ASSUME DirOK, HistoryOK, NEW k \in Slots, Free(k)
  PROVE  DirOK' /\ HistoryOK'
<1>1. "free" \notin Pages
  BY ListingAssumption
<1>2. DirOK'
  BY <1>1 DEF DirOK, Free
<1>3. Visible' = Visible \ {k}
  BY DEF DirOK, Free, Visible
<1> QED
  BY <1>2, <1>3 DEF HistoryOK, Free

(* What a packet leaves in the channel when it is taken out: at most one   *)
(* request waits, and it is the last packet.                               *)
LEMMA TakenKeeps ==
  ASSUME UpOK, up # <<>>, up' = Tail(up), start' = start, phase' = phase
  PROVE  UpOK'
<1>1. /\ up' \in Seq(Packet) /\ Len(up') = Len(up) - 1
      /\ \A i \in 1 .. Len(up') : up'[i] = up[i + 1] /\ i + 1 \in 1 .. Len(up)
  BY DEF UpOK
<1>2. Len(up) \in Nat
  BY DEF UpOK
<1>3. ASSUME NEW i \in 1 .. Len(up'), up'[i].kind = "list"
      PROVE  phase = "wait" /\ up'[i].from = start /\ i = Len(up')
  <2>1. up[i + 1].kind = "list" /\ i + 1 \in 1 .. Len(up)
    BY <1>1, <1>3
  <2>2. phase = "wait" /\ up[i + 1].from = start /\ i + 1 = Len(up)
    BY <2>1 DEF UpOK
  <2>3. up'[i].from = start
    BY <1>1, <2>2
  <2>4. i = Len(up')
    <3>1. i \in Int /\ Len(up) \in Int /\ Len(up') \in Int
      BY <1>1, <1>2
    <3>2. \A a, b, c \in Int : c = b - 1 /\ a + 1 = b => a = c
      OBVIOUS
    <3>3. Len(up') = Len(up) - 1 /\ i + 1 = Len(up)
      BY <1>1, <2>2, Zenon
    <3> QED
      BY <3>1, <3>2, <3>3, Zenon
  <2> QED
    BY <2>2, <2>3, <2>4
<1> QED
  BY <1>1, <1>3 DEF UpOK

(* A request that is taken out leaves none. *)
LEMMA TakenRequest ==
  ASSUME UpOK, Asked("list")
  PROVE  /\ phase = "wait" /\ Head(up).from = start
         /\ up' = <<>>
<1>1. /\ up # <<>> /\ 1 \in 1 .. Len(up) /\ up[1].kind = "list" /\ Head(up) = up[1]
      /\ up' = Tail(up) /\ up \in Seq(Packet)
  BY DEF Asked, UpOK
<1>2. phase = "wait" /\ up[1].from = start /\ Len(up) = 1
  BY <1>1 DEF UpOK
<1> QED
  BY <1>1, <1>2

(* Closing a connection leaves no request that awaits an answer. *)
LEMMA LateKeeps ==
  ASSUME up \in Seq(Packet), up' = Late(up)
  PROVE  /\ up' \in Seq(Packet) /\ ~Awaited'
<1>1. \A i \in 1 .. Len(up) : up[i] \in Packet
  OBVIOUS
<1>2. ASSUME NEW q \in Packet
      PROVE  LET r == IF q.kind = "list" THEN [q EXCEPT !.kind = "late"] ELSE q
             IN  r \in Packet /\ r.kind # "list"
  BY DEF Packet
<1>3. \A i \in 1 .. Len(up) : Late(up)[i] \in Packet /\ Late(up)[i].kind # "list"
  BY <1>1, <1>2 DEF Late
<1>4. Late(up) = [i \in 1 .. Len(up) |-> Late(up)[i]]
  BY DEF Late
<1>5. Late(up) \in Seq(Packet) /\ Len(Late(up)) = Len(up)
  BY <1>3, <1>4, Len(up) \in Nat
<1> QED
  BY <1>3, <1>5 DEF Awaited

(* The packets of the ground command. *)
LEMMA PacketsTyped ==
  ASSUME page \in Page
  PROVE  Rm \in Packet /\ \A n \in Nat : List(n) \in Packet
BY DEF Page, Packet, Rm, List

(* A ground command that does not wait may send any packet but a request,  *)
(* and then at most one request, with which it begins to wait.             *)
LEMMA NoneAwaited == ASSUME UpOK, phase # "wait" PROVE ~Awaited
BY DEF UpOK, Awaited

LEMMA RmAppended ==
  ASSUME up \in Seq(Packet), ~Awaited, page \in Page
  PROVE  /\ Append(up, Rm) \in Seq(Packet)
         /\ \A i \in 1 .. Len(Append(up, Rm)) : Append(up, Rm)[i].kind # "list"
<1>1. Rm \in Packet /\ Rm.kind # "list"
  BY PacketsTyped DEF Rm
<1> DEFINE q == Append(up, Rm)
<1>2. /\ q \in Seq(Packet) /\ Len(q) = Len(up) + 1
      /\ \A i \in 1 .. Len(q) : q[i] = IF i = Len(up) + 1 THEN Rm ELSE up[i]
  BY <1>1
<1> QED
  BY <1>1, <1>2 DEF Awaited

LEMMA ListSent ==
  ASSUME page \in Page,
         NEW q \in Seq(Packet), \A i \in 1 .. Len(q) : q[i].kind # "list",
         NEW n \in Nat, up' = Append(q, List(n)), phase' = "wait", start' = n
  PROVE  UpOK'
<1>1. List(n) \in Packet /\ List(n).from = n
  BY PacketsTyped DEF List
<1>2. /\ up' \in Seq(Packet) /\ Len(up') = Len(q) + 1
      /\ \A i \in 1 .. Len(up') : up'[i] = IF i = Len(q) + 1 THEN List(n) ELSE q[i]
  BY <1>1
<1> QED
  BY <1>1, <1>2 DEF UpOK

LEMMA TypeInit == Init => TypeOK
<1> SUFFICES ASSUME Init PROVE TypeOK
  OBVIOUS
<1>1. (CHOOSE p \in Pages : TRUE) \in Pages
  BY ListingAssumption
<1>2. page \in Page
  BY <1>1 DEF Init, Page
<1>3. DirOK
  <2>1. dir \in [Slots -> {"free"} \cup Kinds \cup Leftover]
    BY DEF Init
  <2>2. {"free"} \cup Kinds \cup Leftover \subseteq {"free", "dot", "file"} \cup Pages
    BY ListingAssumption
  <2>3. dir \in [Slots -> {"free", "dot", "file"} \cup Pages]
    BY <2>1, <2>2
  <2>4. ASSUME NEW i \in Slots, NEW j \in Slots, dir[i] = dir[j], dir[i] \in Pages
        PROVE  i = j
    <3>1. dir[i] \in Leftover
      BY <2>1, <2>4, ListingAssumption
    <3>2. PICK k \in Slots : dir[k] = dir[i] /\ \A l \in Slots \ {k} : dir[l] # dir[i]
      BY <3>1 DEF Init
    <3> QED
      BY <2>4, <3>2
  <2> QED
    BY <2>3, <2>4 DEF DirOK
<1> QED
  BY <1>2, <1>3, TypeParts DEF Init, UpOK, GroundOK, HistoryOK, CountsOK, Visible

(* Every step keeps the types. *)
LEMMA TypeStep == TypeOK /\ [Next]_vars => TypeOK'
<1> SUFFICES ASSUME DirOK, UpOK, GroundOK, HistoryOK, CountsOK, [Next]_vars
             PROVE  DirOK' /\ UpOK' /\ GroundOK' /\ HistoryOK' /\ CountsOK'
  BY DEF TypeOK, DirOK, UpOK, GroundOK, HistoryOK, CountsOK
<1>1. CASE ServeList
  <2>1. PICK p \in Pages :
          /\ dir' \in Created(p)
          /\ page' \in {WholePage(start, p)} \cup CutPages(start, p)
    BY <1>1, TakenRequest DEF ServeList
  <2>2. DirOK' /\ \A j \in Slots : dir[j] # "free" => dir'[j] = dir[j]
    BY <2>1, CreatedKeeps
  <2>3. up' = <<>> /\ phase' \in {phase, "download"}
    BY <1>1, TakenRequest DEF ServeList
  <2>4. UpOK'
    BY <2>3 DEF UpOK
  <2>5. GroundOK'
    BY <1>1, <2>1, <2>3, PagesTyped DEF ServeList, GroundOK
  <2>6. HistoryOK'
    <3>1. stable' = stable /\ base' = Occupied /\ gone' = {}
      BY <1>1 DEF ServeList
    <3>2. spared' \in BOOLEAN
      BY <1>1 DEF ServeList, HistoryOK
    <3>3. Visible \subseteq Visible'
      BY <2>2 DEF Visible
    <3> QED
      BY <3>1, <3>2, <3>3 DEF HistoryOK, Occupied
  <2>7. CountsOK'
    BY <1>1 DEF ServeList, CountsOK, Ok, Fault
  <2> QED
    BY <2>2, <2>4, <2>5, <2>6, <2>7
<1>2. CASE FailList
  <2>1. DirOK' /\ \A j \in Slots : dir[j] # "free" => dir'[j] = dir[j]
    BY <1>2, CreatedKeeps DEF FailList, DirOK
  <2>2. UpOK'
    <3>1. up' = <<>>
      BY <1>2, TakenRequest DEF FailList
    <3> QED
      BY <3>1 DEF UpOK
  <2>3. GroundOK' /\ CountsOK'
    BY <1>2 DEF FailList, GroundOK, CountsOK, Ok, Fault
  <2>4. HistoryOK'
    BY <1>2, <2>1 DEF FailList, HistoryOK, history, Visible
  <2> QED
    BY <2>1, <2>2, <2>3, <2>4
<1>3. CASE ServeLate
  <2>1. DirOK' /\ \A j \in Slots : dir[j] # "free" => dir'[j] = dir[j]
    BY <1>3, CreatedKeeps DEF ServeLate, DirOK
  <2>2. UpOK'
    BY <1>3, TakenKeeps DEF ServeLate, Asked, ground
  <2>3. GroundOK' /\ CountsOK'
    BY <1>3 DEF ServeLate, GroundOK, CountsOK, ground, counts
  <2>4. HistoryOK'
    BY <1>3, <2>1 DEF ServeLate, HistoryOK, history, Visible
  <2> QED
    BY <2>1, <2>2, <2>3, <2>4
<1>4. CASE ServeRm
  <2>1. DirOK' /\ HistoryOK'
    <3>1. CASE \E j \in Slots : Free(j)
      BY <3>1, FreeKeeps
    <3>2. CASE UNCHANGED <<dir, history>>
      BY <3>2 DEF DirOK, HistoryOK, history, Visible
    <3> QED
      BY <1>4, <3>1, <3>2 DEF ServeRm
  <2>2. UpOK'
    BY <1>4, TakenKeeps DEF ServeRm, Asked, ground
  <2>3. GroundOK' /\ CountsOK'
    BY <1>4 DEF ServeRm, GroundOK, CountsOK, ground, counts
  <2> QED
    BY <2>1, <2>2, <2>3
<1>5. CASE OthersAct
  <2>1. DirOK' /\ HistoryOK'
    <3>1. CASE \E j \in Slots : Free(j)
      BY <3>1, FreeKeeps
    <3>2. CASE /\ \E j \in Slots \ Occupied : dir' = [dir EXCEPT ![j] = "file"]
               /\ UNCHANGED history
      <4>1. PICK k \in Slots \ Occupied : dir' = [dir EXCEPT ![k] = "file"]
        BY <3>2
      <4>2. dir[k] = "free" /\ "file" \notin Pages
        BY ListingAssumption DEF Occupied
      <4>3. DirOK'
        BY <4>1, <4>2 DEF DirOK
      <4>4. Visible \subseteq Visible'
        BY <4>1, <4>2 DEF Visible, DirOK
      <4> QED
        BY <3>2, <4>3, <4>4 DEF HistoryOK, history
    <3> QED
      BY <1>5, <3>1, <3>2 DEF OthersAct
  <2>2. UpOK' /\ GroundOK' /\ CountsOK'
    BY <1>5 DEF OthersAct, UpOK, GroundOK, CountsOK, ground
  <2> QED
    BY <2>1, <2>2
<1>6. CASE Ls2sd
  <2>1. ~Awaited /\ phase # "wait"
    BY <1>6, NoneAwaited DEF Ls2sd, Busy
  <2>2. UpOK'
    BY <1>6, <2>1, ListSent DEF Ls2sd, UpOK, GroundOK, Awaited
  <2>3. DirOK' /\ GroundOK' /\ CountsOK'
    BY <1>6 DEF Ls2sd, DirOK, GroundOK, CountsOK
  <2>4. HistoryOK'
    BY <1>6 DEF Ls2sd, HistoryOK, Visible
  <2> QED
    BY <2>2, <2>3, <2>4
<1>7. CASE TakePage
  <2>1. ~Awaited
    BY <1>7, NoneAwaited DEF TakePage
  <2>2. LastNumber \in Nat
    BY DEF LastNumber, GroundOK, Page
  <2>3. /\ Append(up, Rm) \in Seq(Packet)
        /\ \A i \in 1 .. Len(Append(up, Rm)) : Append(up, Rm)[i].kind # "list"
    BY <2>1, RmAppended DEF UpOK, GroundOK
  <2>4. UpOK'
    <3>1. CASE up' = Append(Append(up, Rm), List(LastNumber)) /\ phase' = "wait"
      BY <1>7, <2>2, <2>3, <3>1, ListSent DEF TakePage, GroundOK
    <3>2. CASE up' = Append(up, Rm)
      BY <2>3, <3>2 DEF UpOK
    <3> QED
      BY <1>7, <3>1, <3>2 DEF TakePage
  <2>5. GroundOK'
    <3>1. seen' \subseteq Slots
      BY <1>7 DEF TakePage, GroundOK, Page
    <3> QED
      BY <1>7, <2>2, <3>1 DEF TakePage, GroundOK
  <2>6. DirOK' /\ HistoryOK' /\ CountsOK'
    BY <1>7 DEF TakePage, DirOK, HistoryOK, CountsOK, history, counts, Visible
  <2> QED
    BY <2>4, <2>5, <2>6
<1>8. CASE GiveUp
  <2>1. ~Awaited
    BY <1>8, NoneAwaited DEF GiveUp
  <2>2. UpOK'
    <3>1. CASE up' = up
      BY <2>1, <3>1 DEF UpOK, Awaited
    <3>2. CASE up' = Append(up, Rm)
      <4>1. /\ Append(up, Rm) \in Seq(Packet)
            /\ \A i \in 1 .. Len(Append(up, Rm)) : Append(up, Rm)[i].kind # "list"
        BY <2>1, RmAppended DEF UpOK, GroundOK
      <4> QED
        BY <3>2, <4>1 DEF UpOK
    <3> QED
      BY <1>8, <3>1, <3>2 DEF GiveUp
  <2>3. DirOK' /\ GroundOK' /\ HistoryOK' /\ CountsOK'
    <3>1. /\ UNCHANGED <<dir, start, page, seen, history, listings, others>>
          /\ phase' = "failed" /\ (faults' = faults \/ faults' = faults + 1)
      BY <1>8, Zenon DEF GiveUp, Ok, Fault
    <3> QED
      BY <3>1 DEF DirOK, GroundOK, HistoryOK, CountsOK, history, Visible
  <2> QED
    BY <2>2, <2>3
<1>9. CASE Timeout
  <2>1. UpOK'
    BY <1>9, LateKeeps DEF Timeout, UpOK, Awaited
  <2>2. DirOK' /\ GroundOK' /\ HistoryOK' /\ CountsOK'
    BY <1>9 DEF Timeout, DirOK, GroundOK, HistoryOK, CountsOK, history, Visible, Ok, Fault
  <2> QED
    BY <2>1, <2>2
<1>10. CASE Lose
  <2>1. UpOK'
    BY <1>10, TakenKeeps DEF Lose, ground
  <2>2. DirOK' /\ GroundOK' /\ HistoryOK' /\ CountsOK'
    BY <1>10 DEF Lose, DirOK, GroundOK, HistoryOK, CountsOK, ground, history, Visible, Fault
  <2> QED
    BY <2>1, <2>2
<1>11. CASE UNCHANGED vars
  BY <1>11 DEF vars, ground, history, counts, DirOK, UpOK, GroundOK, HistoryOK, CountsOK,
               Visible
<1> QED
  BY <1>1, <1>2, <1>3, <1>4, <1>5, <1>6, <1>7, <1>8, <1>9, <1>10, <1>11
  DEF Next, Satellite, Ground

(* Whatever is lost, late or fails, the variables keep their types, no     *)
(* reply reaches a command that does not wait for it, and no file is in    *)
(* the directory twice.                                                    *)
THEOREM ListingTyped == Spec => []TypeOK
<1> QED
  BY TypeInit, TypeStep, PTL DEF Spec
-----------------------------------------------------------------------------
(* Completeness.  While a request is under way there is a place up to      *)
(* which everything lasting has been printed, and the satellite, when it   *)
(* made the last page, numbered the entries up to there at least as far as *)
(* the number the request carries.                                         *)

Ahead(S, n) ==
  \E s \in 0 .. N : /\ \A j \in stable : j <= s => j \in S
                    /\ n <= Cardinality(UpTo(base, s))

(* What the satellite saw is still there, unless it counts as gone. *)
Kept == \A j \in base \ gone : dir[j] # "free"

Requested == phase = "wait" /\ Awaited /\ spared => Ahead(seen, start)

Announced ==
  phase = "download" /\ spared =>
    IF LastNumber < page.count THEN Ahead(seen \cup page.lines, LastNumber)
    ELSE stable \subseteq seen \cup page.lines

ListInv == Kept /\ Requested /\ Announced /\ Complete

LEMMA ListInvInit == Init => ListInv
BY DEF Init, ListInv, Kept, Requested, Announced, Complete

(* The page for a request shows, or follows, everything that lasts: with   *)
(* one entry removed the numbers move down by one at most, and the page    *)
(* begins with the number that was last printed.                           *)
LEMMA NothingSkipped ==
  ASSUME TypeOK, Kept, Ahead(seen, start), Cardinality(gone) <= 1
  PROVE  stable \subseteq seen \cup Shown(start)
<1> SUFFICES ASSUME NEW j \in stable, j \notin seen PROVE j \in Shown(start)
  OBVIOUS
<1>1. /\ stable \subseteq Visible /\ base \in SUBSET Slots /\ gone \in SUBSET base
      /\ start \in Nat /\ Occupied \in SUBSET Slots /\ base \ gone \subseteq Occupied
  BY DEF TypeOK, Kept, Occupied
<1>2. PICK s \in 0 .. N : /\ \A i \in stable : i <= s => i \in seen
                          /\ start <= Cardinality(UpTo(base, s))
  BY DEF Ahead
<1>3. j \in Occupied /\ j \in Visible /\ j \in Int
  BY <1>1, ListingAssumption DEF Visible, Occupied
<1>4. s < j
  BY <1>2, <1>3, ListingAssumption
<1>5. Cardinality(UpTo(base, s)) <= Cardinality(UpTo(Occupied, s)) + 1
  BY <1>1, LossBounded
<1>6. Cardinality(UpTo(Occupied, s)) + 1 <= Cardinality(UpTo(Occupied, j))
  BY <1>1, <1>3, <1>4, NumbersGrow
<1>7. /\ Cardinality(UpTo(base, s)) \in Nat /\ Cardinality(UpTo(Occupied, s)) \in Nat
      /\ Cardinality(UpTo(Occupied, j)) \in Nat
  <2>1. /\ UpTo(base, s) \in SUBSET Slots /\ UpTo(Occupied, s) \in SUBSET Slots
        /\ UpTo(Occupied, j) \in SUBSET Slots
    BY <1>1 DEF UpTo
  <2> QED
    BY <2>1, SlotsFinite
<1>8. start <= Cardinality(UpTo(Occupied, j))
  BY <1>1, <1>2, <1>5, <1>6, <1>7
<1> QED
  BY <1>3, <1>8 DEF Shown, Pos, UpTo

(* What the reply to a request announces, when at most one entry has gone. *)
LEMMA PageAnnounced ==
  ASSUME TypeOK, stable \subseteq seen \cup Shown(start),
         NEW p \in Pages, page' \in {WholePage(start, p)} \cup CutPages(start, p),
         start' = start, seen' = seen, stable' = stable, base' = Occupied
  PROVE  IF LastNumber' < page'.count THEN Ahead(seen \cup page.lines, LastNumber)'
         ELSE stable' \subseteq seen' \cup page'.lines
<1>1. Occupied \in SUBSET Slots /\ Shown(start) \subseteq Visible /\ Visible \subseteq Occupied
  BY DEF Occupied, Shown, Visible
<1>2. stable \subseteq Slots /\ \A j \in Slots : j \in Int /\ j <= N
  BY ListingAssumption DEF TypeOK, Visible
<1>3. CASE page' = WholePage(start, p)
  <2>1. page'.lines = Shown(start) /\ page'.count = Cardinality(Occupied)
    BY <1>3 DEF WholePage, PageOf
  <2>2. UpTo(Occupied, N) = Occupied
    BY <1>1, <1>2 DEF UpTo
  <2>3. CASE LastNumber' < page'.count
    <3>1. LastNumber' <= Cardinality(UpTo(base', N))
      <4>1. LastNumber' \in Nat /\ Cardinality(Occupied) \in Nat
        <5>1. Cardinality({i \in Occupied : \E j \in Shown(start) : i <= j}) \in Nat
          BY SlotsFinite DEF Occupied
        <5> QED
          BY <1>1, <1>3, <5>1, SlotsFinite DEF LastNumber, WholePage, PageOf, TypeOK
      <4> QED
        BY <2>1, <2>2, <2>3, <4>1
    <3>2. \A j \in stable' : j \in (seen \cup page.lines)'
      BY <2>1
    <3>3. N \in 0 .. N
      BY ListingAssumption
    <3>4. Ahead(seen \cup page.lines, LastNumber)'
      BY <3>1, <3>2, <3>3 DEF Ahead
    <3> QED
      BY <2>3, <3>4
  <2>4. CASE ~(LastNumber' < page'.count)
    BY <2>1, <2>4
  <2> QED
    BY <2>3, <2>4
<1>4. CASE page' \in CutPages(start, p)
  <2>1. PICK t \in Shown(start) :
          /\ Cardinality({j \in Shown(start) : j < t}) >= MinLines
          /\ page' = PageOf({j \in Shown(start) : j < t}, Pos(t) + 1, p)
    BY <1>4 DEF CutPages
  <2> DEFINE cut == {j \in Shown(start) : j < t}
             upto == {i \in Occupied : \E j \in cut : i <= j}
  <2>2. page'.lines = cut /\ page'.count = Pos(t) + 1 /\ page'.last = Cardinality(upto)
    BY <2>1 DEF PageOf
  <2>3. cut # {}
    BY <2>1, FS_EmptySet, ListingAssumption
  <2>4. LastNumber' = Cardinality(upto)
    BY <2>2, <2>3 DEF LastNumber
  <2>5. /\ t \in Slots /\ t - 1 \in 0 .. N
        /\ \A i \in Slots : (i < t <=> i <= t - 1) /\ (i <= t - 1 => i <= t)
    <3>1. t \in Slots
      BY <1>1
    <3> QED
      BY <3>1, ListingAssumption
  <2>6. upto \in SUBSET UpTo(Occupied, t - 1)
    <3>1. \A i \in upto : i < t
      BY <1>1, <1>2, <2>5
    <3> QED
      BY <1>1, <2>5, <3>1 DEF UpTo
  <2>7. UpTo(Occupied, t - 1) \in SUBSET UpTo(Occupied, t)
    BY <1>1, <2>5, Zenon DEF UpTo
  <2>8. UpTo(Occupied, t - 1) \in SUBSET Slots /\ UpTo(Occupied, t) \in SUBSET Slots
    BY <1>1 DEF UpTo
  <2>9. /\ Cardinality(upto) <= Cardinality(UpTo(Occupied, t - 1))
        /\ Cardinality(UpTo(Occupied, t - 1)) <= Cardinality(UpTo(Occupied, t))
    BY <2>6, <2>7, <2>8, FewerPlaces
  <2>10. Pos(t) = Cardinality(UpTo(Occupied, t))
    BY DEF Pos, UpTo
  <2>11. /\ Cardinality(upto) \in Nat /\ Cardinality(UpTo(Occupied, t - 1)) \in Nat
         /\ Cardinality(UpTo(Occupied, t)) \in Nat
    BY <2>6, <2>8, SlotsFinite
  <2>12. Cardinality(upto) < Pos(t) + 1
    BY <2>9, <2>10, <2>11
  <2>13. \A j \in stable : j <= t - 1 => j \in seen \cup cut
    BY <1>2, <2>5
  <2>14. Ahead(seen \cup page.lines, LastNumber)'
    <3>1. LastNumber' <= Cardinality(UpTo(base', t - 1))
      BY <2>4, <2>9
    <3>2. \A j \in stable' : j <= t - 1 => j \in (seen \cup page.lines)'
      BY <2>2, <2>13
    <3> QED
      BY <2>5, <3>1, <3>2 DEF Ahead
  <2>15. LastNumber' < page'.count
    BY <2>2, <2>4, <2>12
  <2> QED
    BY <2>14, <2>15
<1> QED
  BY <1>3, <1>4

(* A step of others that lets what lasts and what is gone only shrink and  *)
(* grow, and that sends no request, keeps the invariant.                   *)
LEMMA SurroundingsKeep ==
  ASSUME TypeOK, ListInv,
         stable' \subseteq stable, base' = base, spared' = spared, UNCHANGED ground,
         Awaited' => Awaited, Kept'
  PROVE  ListInv'
<1>1. ASSUME NEW S, NEW n, Ahead(S, n)
      PROVE  \E s \in 0 .. N : /\ \A j \in stable' : j <= s => j \in S
                               /\ n <= Cardinality(UpTo(base', s))
  BY <1>1 DEF Ahead
<1>2. Requested'
  BY <1>1 DEF ListInv, Requested, Ahead, ground
<1>3. LastNumber' = LastNumber
  BY DEF LastNumber, ground
<1>4. Announced'
  <2> SUFFICES ASSUME phase = "download", spared
      PROVE  IF LastNumber < page.count THEN Ahead(seen \cup page.lines, LastNumber)'
             ELSE stable' \subseteq seen \cup page.lines
    BY <1>3 DEF Announced, ground
  <2>1. CASE LastNumber < page.count
    <3>1. Ahead(seen \cup page.lines, LastNumber)
      BY <2>1 DEF ListInv, Announced
    <3> QED
      BY <1>1, <1>3, <2>1, <3>1 DEF Ahead, ground
  <2>2. CASE ~(LastNumber < page.count)
    BY <2>2 DEF ListInv, Announced
  <2> QED
    BY <2>1, <2>2
<1>5. Complete'
  BY DEF ListInv, Complete, ground
<1> QED
  BY <1>2, <1>4, <1>5 DEF ListInv

(* A packet that is taken out is not one that arrives. *)
LEMMA TakenAwaited ==
  ASSUME TypeOK, up # <<>>, up' = Tail(up) PROVE Awaited' => Awaited
<1>1. /\ Len(up') = Len(up) - 1
      /\ \A i \in 1 .. Len(up') : up'[i] = up[i + 1] /\ i + 1 \in 1 .. Len(up)
  BY DEF TypeOK
<1> QED
  BY <1>1 DEF Awaited

(* An entry that is removed counts as gone. *)
LEMMA FreeGone ==
  ASSUME TypeOK, Kept, \E j \in Slots : Free(j)
  PROVE  stable' \subseteq stable /\ base' = base /\ spared' = spared /\ Kept'
<1>1. PICK k \in Slots : Free(k)
  OBVIOUS
<1>2. stable' \subseteq stable /\ base' = base /\ spared' = spared
  BY <1>1 DEF Free
<1>3. ASSUME NEW j \in base' \ gone' PROVE dir'[j] # "free"
  <2>1. j \in base \ gone /\ j # k /\ j \in Slots
    BY <1>1, <1>3 DEF Free, TypeOK
  <2> QED
    BY <1>1, <2>1 DEF Free, Kept, TypeOK
<1> QED
  BY <1>2, <1>3 DEF Kept

LEMMA ListInvStep == TypeOK /\ ListInv /\ [Next]_vars => ListInv'
<1> SUFFICES ASSUME TypeOK, ListInv, [Next]_vars PROVE ListInv'
  OBVIOUS
<1>0. DirOK /\ UpOK /\ page \in Page
  BY TypeParts DEF TypeOK
<1>1. CASE ServeList
  <2>1. PICK p \in Pages :
          /\ dir' \in Created(p)
          /\ page' \in {WholePage(start, p)} \cup CutPages(start, p)
    BY <1>0, <1>1, TakenRequest DEF ServeList
  <2>2. \A j \in Slots : dir[j] # "free" => dir'[j] = dir[j]
    BY <1>0, <2>1, CreatedKeeps
  <2>3. /\ start' = start /\ seen' = seen /\ stable' = stable
        /\ base' = Occupied /\ gone' = {}
    BY <1>1 DEF ServeList
  <2>4. phase = "wait" /\ up' = <<>> /\ Awaited /\ ~Awaited'
    <3>1. phase = "wait" /\ up' = <<>>
      BY <1>0, <1>1, TakenRequest DEF ServeList
    <3>2. up[1].kind = "list" /\ 1 \in 1 .. Len(up)
      BY <1>0, <1>1 DEF ServeList, Asked, UpOK
    <3> QED
      BY <3>1, <3>2 DEF Awaited
  <2>5. Kept'
    BY <2>2, <2>3 DEF Kept, Occupied
  <2>6. phase' # "done" /\ (spared' => spared /\ Cardinality(gone) <= 1)
    BY <1>1, <2>4 DEF ServeList
  <2>7. spared' => stable \subseteq seen \cup Shown(start)
    BY <2>4, <2>6, NothingSkipped DEF ListInv, Requested
  <2>8. Announced'
    BY <2>1, <2>3, <2>7, PageAnnounced DEF Announced
  <2> QED
    BY <2>4, <2>5, <2>6, <2>8 DEF ListInv, Requested, Complete
<1>2. CASE FailList
  <2>1. \A j \in Slots : dir[j] # "free" => dir'[j] = dir[j]
    BY <1>0, <1>2, CreatedKeeps DEF FailList
  <2>2. Kept'
    BY <1>2, <2>1 DEF FailList, ListInv, Kept, history, TypeOK
  <2> QED
    BY <1>2, <2>2 DEF FailList, ListInv, Requested, Announced, Complete
<1>3. CASE ServeLate
  <2>1. \A j \in Slots : dir[j] # "free" => dir'[j] = dir[j]
    BY <1>0, <1>3, CreatedKeeps DEF ServeLate
  <2>2. Kept'
    BY <1>3, <2>1 DEF ServeLate, ListInv, Kept, history, TypeOK
  <2> QED
    BY <1>3, <2>2, TakenAwaited, SurroundingsKeep DEF ServeLate, Asked, history
<1>4. CASE ServeRm
  <2>1. /\ stable' \subseteq stable /\ base' = base /\ spared' = spared /\ Kept'
    <3>1. CASE \E j \in Slots : Free(j)
      BY <3>1, FreeGone DEF ListInv
    <3>2. CASE UNCHANGED <<dir, history>>
      BY <3>2 DEF history, ListInv, Kept
    <3> QED
      BY <1>4, <3>1, <3>2 DEF ServeRm
  <2> QED
    BY <1>4, <2>1, TakenAwaited, SurroundingsKeep DEF ServeRm, Asked
<1>5. CASE OthersAct
  <2>1. /\ stable' \subseteq stable /\ base' = base /\ spared' = spared /\ Kept'
    <3>1. CASE \E j \in Slots : Free(j)
      BY <3>1, FreeGone DEF ListInv
    <3>2. CASE /\ \E j \in Slots \ Occupied : dir' = [dir EXCEPT ![j] = "file"]
               /\ UNCHANGED history
      BY <3>2 DEF history, ListInv, Kept, TypeOK, Occupied
    <3> QED
      BY <1>5, <3>1, <3>2 DEF OthersAct
  <2> QED
    BY <1>5, <2>1, SurroundingsKeep DEF OthersAct, Awaited
<1>6. CASE Ls2sd
  <2>1. Kept'
    BY <1>6 DEF Ls2sd, Kept
  <2>2. Ahead(seen, start)'
    <3>1. UpTo(base', 0) \in SUBSET Slots /\ start' = 0 /\ 0 \in 0 .. N
      BY <1>6, ListingAssumption DEF Ls2sd, UpTo
    <3>2. 0 <= Cardinality(UpTo(base', 0))
      BY <3>1, SlotsFinite
    <3>3. \A j \in stable' : ~(j <= 0)
      BY <1>6, ListingAssumption DEF Ls2sd, Visible
    <3> QED
      BY <3>1, <3>2, <3>3 DEF Ahead
  <2> QED
    BY <1>6, <2>1, <2>2 DEF Ls2sd, ListInv, Requested, Announced, Complete
<1>7. CASE TakePage
  <2>1. Kept'
    BY <1>7 DEF TakePage, ListInv, Kept, history
  <2>2. /\ phase = "download" /\ start' = LastNumber /\ seen' = seen \cup page.lines
        /\ UNCHANGED <<stable, base, gone, spared>>
    BY <1>7 DEF TakePage, history
  <2>3. CASE LastNumber < page.count
    <3>1. phase' = "wait"
      BY <1>7, <1>0, <2>3 DEF TakePage, Page, LastNumber, TypeOK
    <3>2. spared => Ahead(seen \cup page.lines, LastNumber)
      BY <2>2, <2>3 DEF ListInv, Announced
    <3>3. spared' => Ahead(seen, start)'
      BY <2>2, <3>2 DEF Ahead
    <3> QED
      BY <2>1, <3>1, <3>3 DEF ListInv, Requested, Announced, Complete
  <2>4. CASE ~(LastNumber < page.count)
    <3>1. phase' = "done"
      BY <1>7, <2>4 DEF TakePage
    <3>2. spared => stable \subseteq seen \cup page.lines
      BY <2>2, <2>4 DEF ListInv, Announced
    <3> QED
      BY <2>1, <2>2, <3>1, <3>2 DEF ListInv, Requested, Announced, Complete
  <2> QED
    BY <2>3, <2>4
<1>8. CASE GiveUp \/ Timeout
  <2>1. phase' = "failed" /\ UNCHANGED <<dir, history>>
    BY <1>8 DEF GiveUp, Timeout
  <2> QED
    BY <2>1 DEF ListInv, Kept, Requested, Announced, Complete, history
<1>9. CASE Lose
  <2>1. Kept'
    BY <1>9 DEF Lose, ListInv, Kept, history
  <2> QED
    BY <1>9, <2>1, TakenAwaited, SurroundingsKeep DEF Lose, history
<1>10. CASE UNCHANGED vars
  <2>1. Kept'
    BY <1>10 DEF vars, ListInv, Kept, history
  <2> QED
    BY <1>10, <2>1, SurroundingsKeep DEF vars, history, Awaited
<1> QED
  BY <1>1, <1>2, <1>3, <1>4, <1>5, <1>6, <1>7, <1>8, <1>9, <1>10
  DEF Next, Satellite, Ground

(* A listing that finishes has shown every file that was on the card all   *)
(* the time, in a directory of any size and with pages of any length, if   *)
(* never more than one file was removed from one page to the next.         *)
THEOREM ListingComplete == Spec => []Complete
<1>1. ListInv => Complete
  BY DEF ListInv
<1> QED
  BY <1>1, ListingTyped, ListInvInit, ListInvStep, PTL DEF Spec
-----------------------------------------------------------------------------
(* What a listing leaves behind.  A new page on the card is claimed by the *)
(* ground command that is about to take it, or by a removal on its way.    *)
(* Every page that is forgotten, and every late request, which may still   *)
(* make one, has cost a fault of its own.                                  *)
RemovalIn(q, p) == \E i \in 1 .. Len(q) : q[i].kind = "rm" /\ q[i].name = p
LatesOf(q) == {i \in 1 .. Len(q) : q[i].kind = "late"}
Claimed(p) == (phase = "download" /\ page.name = p) \/ RemovalIn(up, p)
Fresh == Pages \ Leftover
Forgotten == {j \in Slots : dir[j] \in Fresh /\ ~Claimed(dir[j])}
DebtInv == Cardinality(Forgotten) + Cardinality(LatesOf(up)) <= faults

LEMMA LatesFinite ==
  ASSUME NEW q \in Seq(Packet)
  PROVE  IsFiniteSet(LatesOf(q)) /\ Cardinality(LatesOf(q)) \in Nat
<1>1. IsFiniteSet(1 .. Len(q))
  BY FS_Interval
<1>2. LatesOf(q) \in SUBSET (1 .. Len(q))
  BY DEF LatesOf
<1> QED
  BY <1>1, <1>2, FS_Subset, FS_CardinalityType

(* Taking the first packet out moves the late requests forward, and takes  *)
(* one away when it is one.                                                *)
LEMMA LatesOfTail ==
  ASSUME NEW q \in Seq(Packet), q # <<>>
  PROVE  /\ Cardinality(LatesOf(Tail(q))) <= Cardinality(LatesOf(q))
         /\ Head(q).kind = "late"
              => Cardinality(LatesOf(Tail(q))) + 1 <= Cardinality(LatesOf(q))
<1> DEFINE S == LatesOf(Tail(q))
           T == LatesOf(q) \ {1}
           f == [i \in S |-> i + 1]
<1>1. /\ Tail(q) \in Seq(Packet) /\ Len(Tail(q)) = Len(q) - 1 /\ Len(q) \in Nat
      /\ \A i \in 1 .. Len(Tail(q)) : Tail(q)[i] = q[i + 1] /\ i + 1 \in 1 .. Len(q)
  OBVIOUS
<1>2. \A i \in S : i \in Nat /\ i + 1 \in T
  BY <1>1 DEF LatesOf
<1>3. f \in Injection(S, T)
  <2>1. f \in [S -> T]
    BY <1>2
  <2>2. \A a, b \in S : f[a] = f[b] => a = b
    BY <1>2
  <2> QED
    BY <2>1, <2>2 DEF Injection, IsInjective
<1>4. IsFiniteSet(LatesOf(q)) /\ Cardinality(LatesOf(q)) \in Nat
  BY LatesFinite
<1>5. /\ IsFiniteSet(T)
      /\ Cardinality(T) = IF 1 \in LatesOf(q) THEN Cardinality(LatesOf(q)) - 1
                          ELSE Cardinality(LatesOf(q))
  BY <1>4, FS_RemoveElement
<1> HIDE DEF f, T
<1>6. Cardinality(S) <= Cardinality(T)
  BY <1>3, <1>5, FS_Injection
<1>7. Cardinality(S) \in Nat
  BY <1>1, LatesFinite
<1>8. Head(q).kind = "late" => 1 \in LatesOf(q)
  BY <1>1 DEF LatesOf
<1> QED
  BY <1>4, <1>5, <1>6, <1>7, <1>8

(* A packet that is not a late request leaves their number alone, and      *)
(* every removal is still on its way.                                      *)
LEMMA Sent ==
  ASSUME NEW q \in Seq(Packet), NEW x \in Packet, x.kind # "late"
  PROVE  /\ Append(q, x) \in Seq(Packet)
         /\ LatesOf(Append(q, x)) = LatesOf(q)
         /\ \A p : RemovalIn(q, p) => RemovalIn(Append(q, x), p)
         /\ x.kind = "rm" => RemovalIn(Append(q, x), x.name)
<1> DEFINE r == Append(q, x)
<1>1. /\ r \in Seq(Packet) /\ Len(r) = Len(q) + 1 /\ Len(q) \in Nat
      /\ \A i \in 1 .. Len(q) : r[i] = q[i]
      /\ r[Len(q) + 1] = x
  OBVIOUS
<1> HIDE DEF r
<1>2. \A i : i \in 1 .. Len(r) <=> i \in 1 .. Len(q) \/ i = Len(q) + 1
  BY <1>1
<1>3. LatesOf(r) = LatesOf(q)
  BY <1>1, <1>2 DEF LatesOf
<1>4. \A p : RemovalIn(q, p) => RemovalIn(r, p)
  BY <1>1, <1>2 DEF RemovalIn
<1>5. x.kind = "rm" => RemovalIn(r, x.name)
  BY <1>1, <1>2 DEF RemovalIn
<1> QED
  BY <1>1, <1>3, <1>4, <1>5 DEF r

(* Taking the first packet out loses the removal it is, and no other.      *)
LEMMA Removed ==
  ASSUME NEW q \in Seq(Packet), q # <<>>, NEW p, RemovalIn(q, p),
         ~(Head(q).kind = "rm" /\ Head(q).name = p)
  PROVE  RemovalIn(Tail(q), p)
<1>1. PICK i \in 1 .. Len(q) : q[i].kind = "rm" /\ q[i].name = p
  BY DEF RemovalIn
<1>2. i # 1 /\ i \in Nat /\ Len(q) \in Nat
  BY <1>1
<1>3. /\ Len(Tail(q)) = Len(q) - 1
      /\ \A k \in 1 .. Len(Tail(q)) : Tail(q)[k] = q[k + 1]
  OBVIOUS
<1>4. i - 1 \in 1 .. Len(Tail(q)) /\ (i - 1) + 1 = i
  BY <1>2, <1>3
<1>5. Tail(q)[i - 1] = q[i]
  BY <1>3, <1>4
<1> QED
  BY <1>1, <1>4, <1>5 DEF RemovalIn

(* A page is in one place at most, and a page that is created changes what *)
(* that place holds.                                                       *)
LEMMA OnePlace ==
  ASSUME DirOK, NEW p \in Pages
  PROVE  \E k : \A j \in Slots : dir[j] = p => j = k
<1>1. CASE \E k \in Slots : dir[k] = p
  BY <1>1 DEF DirOK
<1>2. CASE ~\E k \in Slots : dir[k] = p
  BY <1>2
<1> QED
  BY <1>1, <1>2

LEMMA CreatedPlace ==
  ASSUME DirOK, NEW p \in Pages, dir' \in {dir} \cup Created(p)
  PROVE  \E k : \A j \in Slots \ {k} : dir'[j] = dir[j] /\ dir'[j] # p
<1>1. PICK m : \A j \in Slots : dir[j] = p => j = m
  BY OnePlace
<1>2. CASE dir' = dir
  <2>1. \A j \in Slots \ {m} : dir'[j] = dir[j] /\ dir'[j] # p
    BY <1>1, <1>2
  <2> QED
    BY <2>1
<1>3. CASE ~Present(p) /\ dir' # dir
  <2>1. PICK k \in Slots \ Occupied : dir' = [dir EXCEPT ![k] = p]
    BY <1>3 DEF Created
  <2>2. \A j \in Slots \ {k} : dir'[j] = dir[j] /\ dir'[j] # p
    BY <1>3, <2>1 DEF DirOK, Present
  <2> QED
    BY <2>2
<1> QED
  BY <1>2, <1>3 DEF Created

(* The two ways the account is kept: nothing more is forgotten, or one     *)
(* page more.                                                              *)
LEMMA NoneForgotten ==
  ASSUME Forgotten' \subseteq Forgotten
  PROVE  Cardinality(Forgotten') <= Cardinality(Forgotten)
<1>1. Forgotten \in SUBSET Slots
  BY DEF Forgotten
<1> QED
  BY <1>1, FewerPlaces

LEMMA OneMore ==
  ASSUME NEW S, IsFiniteSet(S), NEW k
  PROVE  /\ IsFiniteSet(S \cup {k})
         /\ Cardinality(S \cup {k}) \in Nat
         /\ Cardinality(S \cup {k}) <= Cardinality(S) + 1
<1>1. /\ IsFiniteSet(S \cup {k})
      /\ Cardinality(S \cup {k}) =
           IF k \in S THEN Cardinality(S) ELSE Cardinality(S) + 1
  BY FS_AddElement
<1>2. Cardinality(S) \in Nat
  BY FS_CardinalityType
<1> QED
  BY <1>1, <1>2

LEMMA OneForgotten ==
  ASSUME NEW k, Forgotten' \subseteq Forgotten \cup {k}
  PROVE  Cardinality(Forgotten') <= Cardinality(Forgotten) + 1
<1>1. Forgotten \in SUBSET Slots /\ Forgotten' \in SUBSET Slots
  BY DEF Forgotten
<1>2. /\ IsFiniteSet(Forgotten) /\ Cardinality(Forgotten) \in Nat
      /\ IsFiniteSet(Forgotten') /\ Cardinality(Forgotten') \in Nat
  BY <1>1, SlotsFinite
<1>3. /\ IsFiniteSet(Forgotten \cup {k})
      /\ Cardinality(Forgotten \cup {k}) <= Cardinality(Forgotten) + 1
      /\ Cardinality(Forgotten \cup {k}) \in Nat
  BY <1>2, OneMore
<1>4. Cardinality(Forgotten') <= Cardinality(Forgotten \cup {k})
  BY <1>3, FS_Subset
<1> QED
  BY <1>2, <1>3, <1>4

(* An answered request was alone: no removal is on its way, and no late    *)
(* request.                                                                *)
LEMMA RequestAlone ==
  ASSUME UpOK, Asked("list")
  PROVE  /\ \A p : ~Claimed(p)
         /\ LatesOf(up') = {}
<1>1. /\ up # <<>> /\ 1 \in 1 .. Len(up) /\ up[1].kind = "list"
  BY DEF Asked, UpOK
<1>2. phase = "wait" /\ Len(up) = 1
  BY <1>1 DEF UpOK
<1>3. \A i \in 1 .. Len(up) : up[i].kind = "list"
  BY <1>1, <1>2
<1>4. \A p : ~RemovalIn(up, p)
  BY <1>3 DEF RemovalIn
<1>5. up' = <<>>
  BY TakenRequest
<1>6. LatesOf(up') = {}
  BY <1>5 DEF LatesOf
<1> QED
  BY <1>2, <1>4, <1>6 DEF Claimed

LEMMA DebtStep == TypeOK /\ TypeOK' /\ DebtInv /\ [Next]_vars => DebtInv'
<1> SUFFICES ASSUME TypeOK, TypeOK', DebtInv, [Next]_vars
             PROVE  DebtInv'
  OBVIOUS
<1>t. /\ DirOK /\ UpOK /\ page \in Page /\ up \in Seq(Packet) /\ up' \in Seq(Packet)
      /\ faults \in Nat
  BY TypeParts DEF TypeOK
<1>n. /\ Cardinality(Forgotten) \in Nat /\ Cardinality(LatesOf(up)) \in Nat
      /\ Cardinality(Forgotten') \in Nat /\ Cardinality(LatesOf(up')) \in Nat
  <2>1. Forgotten \in SUBSET Slots /\ Forgotten' \in SUBSET Slots
    BY DEF Forgotten
  <2> QED
    BY <1>t, <2>1, SlotsFinite, LatesFinite
<1>d. Cardinality(Forgotten) + Cardinality(LatesOf(up)) <= faults
  BY DEF DebtInv
<1>k. ASSUME Forgotten' \subseteq Forgotten,
             Cardinality(LatesOf(up')) <= Cardinality(LatesOf(up)),
             faults' = faults \/ faults' = faults + 1
      PROVE  DebtInv'
  <2>1. Cardinality(Forgotten') <= Cardinality(Forgotten)
    BY <1>k, NoneForgotten
  <2>2. Cardinality(Forgotten') + Cardinality(LatesOf(up')) <= faults'
    BY <1>t, <1>n, <1>d, <1>k, <2>1
  <2> QED
    BY <2>2 DEF DebtInv
<1>o. ASSUME NEW k, Forgotten' \subseteq Forgotten \cup {k},
             Cardinality(LatesOf(up')) <= Cardinality(LatesOf(up)),
             faults' = faults + 1
      PROVE  DebtInv'
  <2>1. Cardinality(Forgotten') <= Cardinality(Forgotten) + 1
    BY <1>o, OneForgotten
  <2>2. Cardinality(Forgotten') + Cardinality(LatesOf(up')) <= faults'
    BY <1>t, <1>n, <1>d, <1>o, <2>1
  <2> QED
    BY <2>2 DEF DebtInv
<1>1. CASE ServeList
  <2>1. PICK p \in Pages :
          /\ dir' \in Created(p)
          /\ page' \in {WholePage(Head(up).from, p)} \cup CutPages(Head(up).from, p)
    BY <1>1 DEF ServeList
  <2>2. page'.name = p
    <3>1. CASE page' = WholePage(Head(up).from, p)
      BY <3>1 DEF WholePage, PageOf
    <3>2. CASE page' \in CutPages(Head(up).from, p)
      <4>1. \E S, n : page' = PageOf(S, n, p)
        BY <3>2 DEF CutPages
      <4> QED
        BY <4>1 DEF PageOf
    <3> QED
      BY <2>1, <3>1, <3>2
  <2>3. (\A q : ~Claimed(q)) /\ LatesOf(up') = {}
    BY <1>1, <1>t, RequestAlone DEF ServeList
  <2>4. Cardinality(LatesOf(up')) <= Cardinality(LatesOf(up))
    BY <1>n, <2>3, FS_EmptySet
  <2>5. PICK k : \A j \in Slots \ {k} : dir'[j] = dir[j] /\ dir'[j] # p
    BY <1>t, <2>1, CreatedPlace
  <2>6. Forgotten' \subseteq Forgotten \cup {k}
    BY <2>3, <2>5 DEF Forgotten
  <2>7. CASE Fault
    BY <2>4, <2>6, <2>7, <1>o DEF Fault
  <2>8. CASE Ok /\ phase' = "download"
    <3>1. Claimed(p)'
      BY <2>2, <2>8 DEF Claimed
    <3>2. dir' = dir \/ (dir[k] = "free" /\ dir'[k] = p) \/ k \notin Slots
      <4>1. CASE Present(p)
        BY <2>1, <4>1 DEF Created
      <4>2. CASE ~Present(p)
        <5>1. PICK m \in Slots \ Occupied : dir' = [dir EXCEPT ![m] = p]
          BY <2>1, <4>2 DEF Created
        <5>2. dir'[m] = p /\ dir[m] = "free" /\ m \in Slots
          BY <1>t, <5>1 DEF DirOK, Occupied
        <5>3. m = k
          BY <2>5, <5>2
        <5> QED
          BY <5>2, <5>3
      <4> QED
        BY <4>1, <4>2
    <3>3. Forgotten' \subseteq Forgotten
      <4> SUFFICES ASSUME NEW j \in Forgotten' PROVE j \in Forgotten
        OBVIOUS
      <4>1. j \in Slots /\ dir'[j] \in Fresh /\ dir'[j] # p
        BY <3>1 DEF Forgotten
      <4>2. dir'[j] = dir[j]
        BY <2>5, <3>2, <4>1
      <4> QED
        BY <2>3, <4>1, <4>2 DEF Forgotten
    <3> QED
      BY <1>k, <2>4, <2>8, <3>3 DEF Ok
  <2> QED
    BY <1>1, <2>7, <2>8 DEF ServeList
<1>2. CASE FailList
  <2>1. (\A q : ~Claimed(q)) /\ LatesOf(up') = {}
    BY <1>2, <1>t, RequestAlone DEF FailList
  <2>2. Cardinality(LatesOf(up')) <= Cardinality(LatesOf(up))
    BY <1>n, <2>1, FS_EmptySet
  <2>3. PICK p \in Pages : \/ Fault /\ dir' \in {dir} \cup Created(p)
                           \/ Ok /\ UNCHANGED dir
    BY <1>2, Zenon DEF FailList
  <2>4. CASE Fault /\ dir' \in {dir} \cup Created(p)
    <3>1. PICK k : \A j \in Slots \ {k} : dir'[j] = dir[j] /\ dir'[j] # p
      BY <1>t, <2>4, CreatedPlace
    <3>2. Forgotten' \subseteq Forgotten \cup {k}
      BY <2>1, <3>1 DEF Forgotten
    <3> QED
      BY <2>2, <2>4, <3>2, <1>o DEF Fault
  <2>5. CASE Ok /\ UNCHANGED dir
    <3>1. Forgotten' \subseteq Forgotten
      BY <2>1, <2>5 DEF Forgotten
    <3> QED
      BY <2>2, <2>5, <3>1, <1>k DEF Ok
  <2> QED
    BY <2>3, <2>4, <2>5
<1>3. CASE ServeLate
  <2>1. /\ up # <<>> /\ Head(up).kind = "late" /\ up' = Tail(up)
        /\ UNCHANGED <<phase, page, faults>>
    BY <1>3 DEF ServeLate, Asked, ground, counts
  <2>2. Cardinality(LatesOf(up')) + 1 <= Cardinality(LatesOf(up))
    BY <1>t, <2>1, LatesOfTail
  <2>3. \A q : Claimed(q) => Claimed(q)'
    BY <1>t, <2>1, Removed DEF Claimed
  <2>4. PICK p \in Pages : dir' \in {dir} \cup Created(p)
    BY <1>3 DEF ServeLate
  <2>5. PICK k : \A j \in Slots \ {k} : dir'[j] = dir[j] /\ dir'[j] # p
    BY <1>t, <2>4, CreatedPlace
  <2>6. Forgotten' \subseteq Forgotten \cup {k}
    BY <2>3, <2>5 DEF Forgotten
  <2>7. Cardinality(Forgotten') <= Cardinality(Forgotten) + 1
    BY <2>6, OneForgotten
  <2>8. Cardinality(Forgotten') + Cardinality(LatesOf(up')) <= faults'
    BY <1>t, <1>n, <1>d, <2>1, <2>2, <2>7
  <2> QED
    BY <2>8 DEF DebtInv
<1>4. CASE ServeRm
  <2>1. /\ up # <<>> /\ Head(up).kind = "rm" /\ up' = Tail(up)
        /\ UNCHANGED <<phase, page, faults>>
    BY <1>4 DEF ServeRm, Asked, ground, counts
  <2>2. Cardinality(LatesOf(up')) <= Cardinality(LatesOf(up))
    BY <1>t, <2>1, LatesOfTail
  <2>3. \A q : Claimed(q) /\ q # Head(up).name => Claimed(q)'
    BY <1>t, <2>1, Removed DEF Claimed
  <2>4. \A j \in Slots : dir'[j] \in Fresh => dir'[j] = dir[j] /\ dir[j] # Head(up).name
    <3>1. CASE \E j \in Slots : dir[j] = Head(up).name /\ Free(j)
      <4>1. PICK k \in Slots : dir[k] = Head(up).name /\ Free(k)
        BY <3>1
      <4>2. "free" \notin Fresh
        BY ListingAssumption DEF Fresh
      <4>3. \A j \in Slots : dir'[j] = IF j = k THEN "free" ELSE dir[j]
        BY <1>t, <4>1 DEF Free, DirOK
      <4>4. ASSUME NEW j \in Slots, dir'[j] \in Fresh
            PROVE  dir'[j] = dir[j] /\ dir[j] # Head(up).name
        <5>1. j # k /\ dir'[j] = dir[j] /\ dir[j] \in Pages
          BY <4>2, <4>3, <4>4 DEF Fresh
        <5>2. dir[j] # dir[k]
          BY <1>t, <5>1 DEF DirOK
        <5> QED
          BY <4>1, <5>1, <5>2
      <4> QED
        BY <4>4
    <3>2. CASE ~Present(Head(up).name) /\ UNCHANGED <<dir, history>>
      BY <3>2 DEF Present
    <3> QED
      BY <1>4, <3>1, <3>2 DEF ServeRm
  <2>5. Forgotten' \subseteq Forgotten
    BY <2>3, <2>4 DEF Forgotten
  <2> QED
    BY <1>k, <2>1, <2>2, <2>5
<1>5. CASE OthersAct
  <2>1. UNCHANGED <<up, phase, page, faults>>
    BY <1>5 DEF OthersAct, ground
  <2>2. \A j \in Slots : dir'[j] \in Fresh => dir'[j] = dir[j]
    <3>1. "free" \notin Fresh /\ "file" \notin Fresh
      BY ListingAssumption DEF Fresh
    <3>2. PICK k \in Slots : dir' \in {[dir EXCEPT ![k] = "file"], [dir EXCEPT ![k] = "free"]}
      BY <1>5 DEF OthersAct, Free
    <3>3. \A j \in Slots : j # k => dir'[j] = dir[j]
      BY <1>t, <3>2 DEF DirOK
    <3>4. dir'[k] \in {"file", "free"}
      BY <1>t, <3>2 DEF DirOK
    <3> QED
      BY <3>1, <3>3, <3>4
  <2>3. \A q : Claimed(q)' <=> Claimed(q)
    BY <2>1 DEF Claimed
  <2>4. Forgotten' \subseteq Forgotten
    BY <2>2, <2>3 DEF Forgotten
  <2>5. Cardinality(LatesOf(up')) <= Cardinality(LatesOf(up))
    BY <1>n, <2>1
  <2> QED
    BY <1>k, <2>1, <2>4, <2>5
<1>6. CASE Ls2sd
  <2>1. /\ phase # "download" /\ up' = Append(up, List(0)) /\ UNCHANGED <<dir, page, faults>>
    BY <1>6 DEF Ls2sd, Busy
  <2>2. List(0) \in Packet /\ List(0).kind = "list"
    BY <1>t, PacketsTyped DEF List
  <2>3. LatesOf(up') = LatesOf(up) /\ \A q : RemovalIn(up, q) => RemovalIn(up', q)
    BY <1>t, <2>1, <2>2, Sent
  <2>4. \A q : Claimed(q) => Claimed(q)'
    BY <2>1, <2>3 DEF Claimed
  <2>5. Forgotten' \subseteq Forgotten
    BY <2>1, <2>4 DEF Forgotten
  <2> QED
    BY <1>k, <1>n, <2>1, <2>3, <2>5
<1>7. CASE TakePage
  <2>1. /\ phase = "download" /\ UNCHANGED <<dir, page, faults>>
        /\ up' = Append(up, Rm) \/ up' = Append(Append(up, Rm), List(LastNumber))
    BY <1>7 DEF TakePage, counts
  <2>2. Rm \in Packet /\ Rm.kind = "rm" /\ Rm.name = page.name
    BY <1>t, PacketsTyped DEF Rm
  <2>3. LastNumber \in Nat
    BY <1>t, TypeParts DEF LastNumber, GroundOK, Page, TypeOK
  <2>4. List(LastNumber) \in Packet /\ List(LastNumber).kind = "list"
    BY <1>t, <2>3, PacketsTyped DEF List
  <2>5. /\ Append(up, Rm) \in Seq(Packet) /\ LatesOf(Append(up, Rm)) = LatesOf(up)
        /\ \A q : RemovalIn(up, q) => RemovalIn(Append(up, Rm), q)
        /\ RemovalIn(Append(up, Rm), page.name)
    BY <1>t, <2>2, Sent
  <2>6. LatesOf(up') = LatesOf(up) /\ \A q : Claimed(q) => RemovalIn(up', q)
    <3>1. CASE up' = Append(up, Rm)
      BY <2>5, <3>1 DEF Claimed
    <3>2. CASE up' = Append(Append(up, Rm), List(LastNumber))
      <4>1. /\ LatesOf(up') = LatesOf(Append(up, Rm))
            /\ \A q : RemovalIn(Append(up, Rm), q) => RemovalIn(up', q)
        BY <2>4, <2>5, <3>2, Sent
      <4> QED
        BY <2>5, <4>1 DEF Claimed
    <3> QED
      BY <2>1, <3>1, <3>2
  <2>7. Forgotten' \subseteq Forgotten
    BY <2>1, <2>6 DEF Forgotten, Claimed
  <2> QED
    BY <1>k, <1>n, <2>1, <2>6, <2>7
<1>8. CASE GiveUp
  <2>1. phase = "download" /\ UNCHANGED <<dir, page>>
    BY <1>8 DEF GiveUp
  <2>2. CASE Fault /\ UNCHANGED up
    <3>1. page.name \in Pages
      BY <1>t DEF Page
    <3>2. PICK k : \A j \in Slots : dir[j] = page.name => j = k
      BY <1>t, <3>1, OnePlace
    <3>3. Forgotten' \subseteq Forgotten \cup {k}
      BY <2>1, <2>2, <3>2 DEF Forgotten, Claimed
    <3>4. Cardinality(LatesOf(up')) <= Cardinality(LatesOf(up))
      BY <1>n, <2>2
    <3> QED
      BY <1>o, <2>2, <3>3, <3>4 DEF Fault
  <2>3. CASE up' = Append(up, Rm)
    <3>1. Rm \in Packet /\ Rm.kind = "rm" /\ Rm.name = page.name
      BY <1>t, PacketsTyped DEF Rm
    <3>2. /\ LatesOf(up') = LatesOf(up)
          /\ \A q : RemovalIn(up, q) => RemovalIn(up', q)
          /\ RemovalIn(up', page.name)
      BY <1>t, <2>3, <3>1, Sent
    <3>3. Forgotten' \subseteq Forgotten
      BY <2>1, <3>2 DEF Forgotten, Claimed
    <3>4. faults' = faults \/ faults' = faults + 1
      BY <1>8, Zenon DEF GiveUp, Ok, Fault
    <3> QED
      BY <1>k, <1>n, <3>2, <3>3, <3>4
  <2> QED
    BY <1>8, <2>2, <2>3 DEF GiveUp
<1>9. CASE Timeout
  <2>1. phase = "wait" /\ UNCHANGED <<dir, page>> /\ up' = Late(up)
    BY <1>9 DEF Timeout
  <2>2. /\ Len(up') = Len(up)
        /\ \A i \in 1 .. Len(up) :
             /\ up[i].kind # "list" => up'[i] = up[i]
             /\ up[i].kind = "list" => up'[i].kind = "late"
    BY <1>t, <2>1 DEF Late, Packet
  <2>3. \A q : RemovalIn(up, q) => RemovalIn(up', q)
    BY <2>2 DEF RemovalIn
  <2>4. Forgotten' \subseteq Forgotten
    BY <2>1, <2>3 DEF Forgotten, Claimed
  <2>5. CASE ~Awaited /\ Ok
    <3>1. LatesOf(up') = LatesOf(up)
      BY <2>2, <2>5 DEF LatesOf, Awaited
    <3> QED
      BY <1>k, <1>n, <2>4, <2>5, <3>1 DEF Ok
  <2>6. CASE Fault
    <3>1. LatesOf(up') \subseteq LatesOf(up) \cup {Len(up)}
      BY <1>t, <2>2 DEF LatesOf, UpOK
    <3>2. /\ IsFiniteSet(LatesOf(up) \cup {Len(up)})
          /\ Cardinality(LatesOf(up) \cup {Len(up)}) <= Cardinality(LatesOf(up)) + 1
          /\ Cardinality(LatesOf(up) \cup {Len(up)}) \in Nat
      BY <1>t, LatesFinite, OneMore
    <3>3. Cardinality(LatesOf(up')) <= Cardinality(LatesOf(up) \cup {Len(up)})
      BY <3>1, <3>2, FS_Subset
    <3>4. Cardinality(LatesOf(up')) <= Cardinality(LatesOf(up)) + 1
      BY <1>n, <3>2, <3>3
    <3>5. Cardinality(Forgotten') <= Cardinality(Forgotten)
      BY <2>4, NoneForgotten
    <3>6. Cardinality(Forgotten') + Cardinality(LatesOf(up')) <= faults'
      BY <1>t, <1>n, <1>d, <2>6, <3>4, <3>5 DEF Fault
    <3> QED
      BY <3>6 DEF DebtInv
  <2> QED
    BY <1>9, <2>5, <2>6 DEF Timeout
<1>10. CASE Lose
  <2>1. up # <<>> /\ up' = Tail(up) /\ Fault /\ UNCHANGED <<dir, phase, page>>
    BY <1>10 DEF Lose, ground
  <2>2. Cardinality(LatesOf(up')) <= Cardinality(LatesOf(up))
    BY <1>t, <2>1, LatesOfTail
  <2>3. Head(up).name \in Pages
    <3>1. Head(up) \in Packet
      BY <1>t, <2>1
    <3> QED
      BY <3>1 DEF Packet
  <2>4. PICK k : \A j \in Slots : dir[j] = Head(up).name => j = k
    BY <1>t, <2>3, OnePlace
  <2>5. \A q : Claimed(q) /\ q # Head(up).name => Claimed(q)'
    BY <1>t, <2>1, Removed DEF Claimed
  <2>6. Forgotten' \subseteq Forgotten \cup {k}
    BY <2>1, <2>4, <2>5 DEF Forgotten
  <2> QED
    BY <1>o, <2>1, <2>2, <2>6 DEF Fault
<1>11. CASE UNCHANGED vars
  BY <1>11 DEF vars, ground, counts, DebtInv, Forgotten, Claimed
<1> QED
  BY <1>1, <1>2, <1>3, <1>4, <1>5, <1>6, <1>7, <1>8, <1>9, <1>10, <1>11
  DEF Next, Satellite, Ground

(* Whenever no listing is under way and no packet either, the new pages on *)
(* the card are no more than the packets that were lost, the replies that  *)
(* came late and the calls that failed: without those, every page has been *)
(* removed.                                                                *)
THEOREM LeftoversPaid == Spec => []FewLeftovers
<1>1. Init => DebtInv
  <2> SUFFICES ASSUME Init
               PROVE  DebtInv
    OBVIOUS
  <2>1. \A j \in Slots : dir[j] \notin Fresh
    BY ListingAssumption DEF Init, Fresh
  <2>2. Forgotten = {} /\ LatesOf(up) = {} /\ faults = 0
    BY <2>1 DEF Init, Forgotten, LatesOf
  <2> QED
    BY <2>2, FS_EmptySet DEF DebtInv
<1>2. TypeOK /\ TypeOK' /\ DebtInv /\ [Next]_vars => DebtInv'
  BY DebtStep
<1>3. TypeOK /\ DebtInv => FewLeftovers
  <2> SUFFICES ASSUME TypeOK, DebtInv, ~Busy, up = <<>>
               PROVE  Cardinality({j \in Slots : dir[j] \in Pages \ Leftover}) <= faults
    BY DEF FewLeftovers
  <2>1. Forgotten = {j \in Slots : dir[j] \in Pages \ Leftover}
    BY DEF Forgotten, Fresh, Claimed, RemovalIn, Busy
  <2>2. Cardinality(LatesOf(up)) = 0
    <3>1. LatesOf(up) = {}
      BY DEF LatesOf
    <3> QED
      BY <3>1, FS_EmptySet
  <2>3. Cardinality(Forgotten) \in Nat
    <3>1. Forgotten \in SUBSET Slots
      BY DEF Forgotten
    <3> QED
      BY <3>1, SlotsFinite
  <2> QED
    BY <2>1, <2>2, <2>3 DEF DebtInv
<1> QED
  BY ListingTyped, <1>1, <1>2, <1>3, PTL DEF Spec
=============================================================================
