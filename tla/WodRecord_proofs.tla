-------------------------- MODULE WodRecord_proofs --------------------------
(***************************************************************************)
(* Proofs about records, for every reading of 16 bits.                     *)
(***************************************************************************)
EXTENDS WodRecord, TLAPS

(* How large a word is, as far as it matters. *)
LEMMA WordSize == Word \in Nat /\ Word > 10000
BY DEF Word

(* What the conversions of a number return. *)
LEMMA ByteFits ==
  ASSUME NEW n \in Int
  PROVE  /\ Byte(n) \in 0 .. 255 /\ Signed(n) \in -127 .. 127
         /\ n \in 0 .. 255 => Byte(n) = n
         /\ n >= 255 => Byte(n) = 255
         /\ n <= 0 => Byte(n) = 0
         /\ n \in -127 .. 127 => Signed(n) = n
         /\ n >= 127 => Signed(n) = 127
         /\ n <= -127 => Signed(n) = -127
BY DEF Byte, Signed, Lesser, Greater

(* Of a voltage: the step below it, or the end of the range. *)
LEMMA VoltByte ==
  ASSUME NEW v \in U16
  PROVE  LET b == Byte(Div(v - 4420, 16)) IN
           /\ b \in 0 .. 255
           /\ v < 4420 => b = 0
           /\ v > 8515 => b = 255
           /\ v >= 4420 /\ v <= 8515 => b * 16 + 4420 <= v /\ v < b * 16 + 4420 + 16
<1> DEFINE q == Div(v - 4420, 16)
<1>1. q \in Int
  BY WordSize DEF Div, U16
<1>2. v < 4420 => q <= 0
  BY WordSize DEF Div, U16
<1>3. v > 8515 => q >= 255
  BY WordSize DEF Div, U16
<1>4. v >= 4420 /\ v <= 8515 => q \in 0 .. 255 /\ q * 16 <= v - 4420 /\ v - 4420 < q * 16 + 16
  BY WordSize DEF Div, U16
<1> HIDE DEF q
<1>5. v >= 4420 /\ v <= 8515 => Byte(q) = q
  BY <1>1, <1>4, ByteFits
<1>6. v < 4420 => Byte(q) = 0
  BY <1>1, <1>2, ByteFits
<1>7. v > 8515 => Byte(q) = 255
  BY <1>1, <1>3, ByteFits
<1>8. Byte(q) \in 0 .. 255
  BY <1>1, ByteFits
<1>9. v >= 4420 /\ v <= 8515 => Byte(q) * 16 + 4420 <= v /\ v < Byte(q) * 16 + 4420 + 16
  BY <1>4, <1>5 DEF U16
<1> QED BY <1>6, <1>7, <1>8, <1>9 DEF q

(* A sum in 16 bits. *)
LEMMA SumFits ==
  ASSUME NEW n \in Nat
  PROVE  n % Word \in Nat /\ (n < Word => n % Word = n)
BY WordSize

(* Of a current: one step of the scale below it, or the end of the scale.  *)
(* The scales are numbers, so that the arithmetic stays linear.            *)
LEMMA CurrentByte ==
  ASSUME NEW n \in Nat, NEW max \in {2700, 4000, 4500, 5500}
  PROVE  LET b == Byte(Scaled(n, max)) IN
           /\ b \in 0 .. 255
           /\ n <= max => Near(b * max, n, max)
           /\ n > max /\ n < Word => b = 255
<1> DEFINE q == Scaled(n, max)
<1>1. n % Word \in Nat /\ (n < Word => n % Word = n)
  BY SumFits
<1>2. q \in Nat /\ q * max <= 255 * (n % Word) /\ 255 * (n % Word) < q * max + max
  <2>1. \A k \in Nat : k \div 2700 \in Nat /\ (k \div 2700) * 2700 <= k /\ k < (k \div 2700) * 2700 + 2700
    OBVIOUS
  <2>2. \A k \in Nat : k \div 4000 \in Nat /\ (k \div 4000) * 4000 <= k /\ k < (k \div 4000) * 4000 + 4000
    OBVIOUS
  <2>3. \A k \in Nat : k \div 4500 \in Nat /\ (k \div 4500) * 4500 <= k /\ k < (k \div 4500) * 4500 + 4500
    OBVIOUS
  <2>4. \A k \in Nat : k \div 5500 \in Nat /\ (k \div 5500) * 5500 <= k /\ k < (k \div 5500) * 5500 + 5500
    OBVIOUS
  <2>5. 255 * (n % Word) \in Nat
    BY <1>1
  <2> QED BY <2>1, <2>2, <2>3, <2>4, <2>5 DEF Scaled
<1> HIDE DEF q
<1>3. n <= max => q \in 0 .. 255 /\ n % Word = n
  BY <1>1, <1>2, WordSize
<1>4. n > max /\ n < Word => q >= 255
  BY <1>1, <1>2
<1>5. n <= max => Near(Byte(q) * max, n, max)
  <2>1. n <= max => Byte(q) = q
    BY <1>3, ByteFits
  <2>2. n <= max => q * max <= 255 * n /\ 255 * n < q * max + max
    BY <1>2, <1>3
  <2> QED BY <2>1, <2>2 DEF Near
<1>6. n > max /\ n < Word => Byte(q) = 255
  BY <1>2, <1>4, ByteFits
<1>7. Byte(q) \in 0 .. 255
  BY <1>2, ByteFits
<1> QED BY <1>5, <1>6, <1>7 DEF q

(* Of the sum of k temperatures: their mean to one degree, or an end. *)
LEMMA MeanByte ==
  ASSUME NEW n \in Int, NEW k \in {2, 4}
  PROVE  LET t == Signed(Div(n, k)) IN
           /\ t \in -127 .. 127
           /\ n > 127 * k => t = 127
           /\ n < -127 * k => t = -127
           /\ n \in -127 * k .. 127 * k => Degrees(t, n, k)
<1> DEFINE q == Div(n, k)
<1>1. q \in Int /\ -k < k * q - n /\ k * q - n < k
  <2>1. \A i \in Nat : i \div 2 \in Nat /\ 2 * (i \div 2) <= i /\ i < 2 * (i \div 2) + 2
    OBVIOUS
  <2>2. \A i \in Nat : i \div 4 \in Nat /\ 4 * (i \div 4) <= i /\ i < 4 * (i \div 4) + 4
    OBVIOUS
  <2>3. CASE n >= 0
    BY <2>1, <2>2, <2>3 DEF Div
  <2>4. CASE n < 0
    <3>1. -n \in Nat
      BY <2>4
    <3> QED BY <2>1, <2>2, <2>4, <3>1 DEF Div
  <2> QED BY <2>3, <2>4
<1> HIDE DEF q
<1>2. n > 127 * k => q >= 127
  BY <1>1
<1>3. n < -127 * k => q <= -127
  BY <1>1
<1>4. n \in -127 * k .. 127 * k => q \in -127 .. 127
  BY <1>1
<1>5. n \in -127 * k .. 127 * k => Degrees(Signed(q), n, k)
  BY <1>1, <1>4, ByteFits DEF Degrees
<1>6. (n > 127 * k => Signed(q) = 127) /\ (n < -127 * k => Signed(q) = -127)
  BY <1>1, <1>2, <1>3, ByteFits
<1>7. Signed(q) \in -127 .. 127
  BY <1>1, ByteFits
<1> QED BY <1>5, <1>6, <1>7 DEF q

(* The two means that wod_get takes. *)
LEMMA Means ==
  ASSUME NEW n \in Int
  PROVE  /\ n \in -508 .. 508 => Degrees(Signed(Div(n, 4)), n, 4)
         /\ n > 508 => Signed(Div(n, 4)) = 127
         /\ n < -508 => Signed(Div(n, 4)) = -127
         /\ n \in -254 .. 254 => Degrees(Signed(Div(n, 2)), n, 2)
         /\ n > 254 => Signed(Div(n, 2)) = 127
         /\ n < -254 => Signed(Div(n, 2)) = -127
<1>1. /\ n > 127 * 4 => Signed(Div(n, 4)) = 127
      /\ n < -127 * 4 => Signed(Div(n, 4)) = -127
      /\ n \in -127 * 4 .. 127 * 4 => Degrees(Signed(Div(n, 4)), n, 4)
  BY MeanByte
<1>2. /\ n > 127 * 2 => Signed(Div(n, 2)) = 127
      /\ n < -127 * 2 => Signed(Div(n, 2)) = -127
      /\ n \in -127 * 2 .. 127 * 2 => Degrees(Signed(Div(n, 2)), n, 2)
  BY MeanByte
<1>3. 127 * 4 = 508 /\ -127 * 4 = -508 /\ 127 * 2 = 254 /\ -127 * 2 = -254
  OBVIOUS
<1> QED BY <1>1, <1>2, <1>3

(* Of the level and the outputs: the byte from which the decoder has them. *)
LEMMA FlagsBack ==
  ASSUME NEW m \in 0 .. 4, NEW o \in [1 .. 6 -> {0, 1}]
  PROVE  LET f == Flags(m, o) IN
           /\ f \in 0 .. 255
           /\ m # 0 => f \div 64 + 1 = m
           /\ <<(f \div 32) % 2, (f \div 16) % 2, (f \div 8) % 2,
                (f \div 4) % 2, (f \div 2) % 2, f % 2>> = o
<1> DEFINE l == (m + 3) % 4
<1>2. l \in 0 .. 3 /\ (m # 0 => l = m - 1)
  OBVIOUS
<1> DEFINE f == Flags(m, o)
<1>3. o[1] \in {0, 1} /\ o[2] \in {0, 1} /\ o[3] \in {0, 1}
        /\ o[4] \in {0, 1} /\ o[5] \in {0, 1} /\ o[6] \in {0, 1}
  OBVIOUS
<1>4. f = 64 * l + 32 * o[1] + 16 * o[2] + 8 * o[3] + 4 * o[4] + 2 * o[5] + o[6]
  BY DEF Flags
<1> HIDE DEF l
<1>a. f \in Int
  BY <1>2, <1>3, <1>4
<1> HIDE DEF f
<1>5. /\ f \in 0 .. 255 /\ f \div 64 = l
      /\ (f \div 32) % 2 = o[1] /\ (f \div 16) % 2 = o[2] /\ (f \div 8) % 2 = o[3]
      /\ (f \div 4) % 2 = o[4] /\ (f \div 2) % 2 = o[5] /\ f % 2 = o[6]
  <2>1. PICK a \in {0, 1} : a = o[1]
    BY <1>3
  <2>2. PICK b \in {0, 1} : b = o[2]
    BY <1>3
  <2>3. PICK c \in {0, 1} : c = o[3]
    BY <1>3
  <2>4. PICK d \in {0, 1} : d = o[4]
    BY <1>3
  <2>5. PICK e \in {0, 1} : e = o[5]
    BY <1>3
  <2>6. PICK g \in {0, 1} : g = o[6]
    BY <1>3
  <2>7. f = 64 * l + 32 * a + 16 * b + 8 * c + 4 * d + 2 * e + g
    BY <1>4, <2>1, <2>2, <2>3, <2>4, <2>5, <2>6
  <2>8. /\ f \in 0 .. 255 /\ f \div 64 = l
        /\ (f \div 32) % 2 = a /\ (f \div 16) % 2 = b /\ (f \div 8) % 2 = c
        /\ (f \div 4) % 2 = d /\ (f \div 2) % 2 = e /\ f % 2 = g
    BY <1>2, <1>a, <2>7
  <2> QED BY <2>1, <2>2, <2>3, <2>4, <2>5, <2>6, <2>8
<1>6. <<o[1], o[2], o[3], o[4], o[5], o[6]>> = o
  OBVIOUS
<1>7. m # 0 => f \div 64 + 1 = m
  BY <1>2, <1>5
<1> QED BY <1>5, <1>6, <1>7 DEF f

-----------------------------------------------------------------------------
(* The sums of readings are numbers. *)
LEMMA Sums ==
  ASSUME NEW h \in Housekeeping
  PROVE  /\ InSum(h) \in Nat /\ LowSum(h) \in Nat /\ HighSum(h) \in Nat
         /\ BoardSum(h) \in Int /\ BattSum(h) \in Int
         /\ h.cursys \in Nat /\ h.radio \in Int /\ h.vbatt \in U16
         /\ h.cursys < Word
<1>1. U16 \subseteq Nat /\ I16 \subseteq Int /\ \A n \in U16 : n < Word
  BY WordSize DEF U16, I16
<1>2. /\ h.vbatt \in U16 /\ h.cursys \in U16 /\ h.radio \in I16
      /\ h.curin \in [1 .. 3 -> U16] /\ h.curout \in [1 .. 6 -> U16]
      /\ h.temp \in [1 .. 4 -> I16]
  BY DEF Housekeeping
<1>3. h.curin[1] \in Nat /\ h.curin[2] \in Nat /\ h.curin[3] \in Nat
  <2>1. \A i \in 1 .. 3 : h.curin[i] \in U16
    BY <1>2
  <2>2. \A i \in 1 .. 3 : h.curin[i] \in Nat
    BY <1>1, <2>1, Zenon
  <2> QED BY <2>2
<1>4. /\ h.curout[1] \in Nat /\ h.curout[2] \in Nat /\ h.curout[3] \in Nat
      /\ h.curout[4] \in Nat /\ h.curout[5] \in Nat /\ h.curout[6] \in Nat
  <2>1. \A i \in 1 .. 6 : h.curout[i] \in U16
    BY <1>2
  <2>2. \A i \in 1 .. 6 : h.curout[i] \in Nat
    BY <1>1, <2>1, Zenon
  <2> QED BY <2>2
<1>5. /\ h.temp[1] \in Int /\ h.temp[2] \in Int
      /\ h.temp[3] \in Int /\ h.temp[4] \in Int
  <2>1. \A i \in 1 .. 4 : h.temp[i] \in I16
    BY <1>2
  <2>2. \A i \in 1 .. 4 : h.temp[i] \in Int
    BY <1>1, <2>1, Zenon
  <2> QED BY <2>2
<1>6. InSum(h) \in Nat
  BY <1>3 DEF InSum
<1>7. LowSum(h) \in Nat /\ HighSum(h) \in Nat
  BY <1>4 DEF LowSum, HighSum
<1>8. BoardSum(h) \in Int /\ BattSum(h) \in Int
  BY <1>5 DEF BoardSum, BattSum
<1> QED BY <1>1, <1>2, <1>6, <1>7, <1>8

(* Every field of a record fits its byte. *)
LEMMA EncodedFits ==
  ASSUME NEW h \in Housekeeping
  PROVE  Encoded(h) \in Record
<1> DEFINE m == h.entry % 256
           f == Flags(h.battmode, h.output)
           v == Byte(Div(h.vbatt - 4420, 16))
           i == Byte(Scaled(InSum(h), 2700))
           o == Byte(Scaled(h.cursys, 4000))
           l == Byte(Scaled(LowSum(h), 5500))
           u == Byte(Scaled(HighSum(h), 4500))
           c == Signed(h.radio)
           e == Signed(Div(BoardSum(h), 4))
           b == Signed(Div(BattSum(h), 2))
<1>1. m \in 0 .. 255
  <2>1. h.entry \in Nat
    BY DEF Housekeeping
  <2> QED BY <2>1
<1>2. f \in 0 .. 255
  BY FlagsBack DEF Housekeeping
<1>3. v \in 0 .. 255
  BY Sums, VoltByte
<1>4. i \in 0 .. 255 /\ o \in 0 .. 255 /\ l \in 0 .. 255 /\ u \in 0 .. 255
  <2>1. InSum(h) \in Nat /\ h.cursys \in Nat /\ LowSum(h) \in Nat /\ HighSum(h) \in Nat
    BY Sums
  <2> HIDE DEF InSum, LowSum, HighSum
  <2>2. \A n \in Nat, max \in {2700, 4000, 4500, 5500} : Byte(Scaled(n, max)) \in 0 .. 255
    BY CurrentByte
  <2> QED BY <2>1, <2>2
<1>5. c \in -128 .. 127
  BY Sums, ByteFits
<1>6. \A t \in -127 .. 127 : t \in -128 .. 127
  OBVIOUS
<1>7. e \in -128 .. 127 /\ b \in -128 .. 127
  BY <1>6, Sums, MeanByte
<1>8. Encoded(h) = [minute |-> m, flags |-> f, volt |-> v, in |-> i, out |-> o,
                    rail3 |-> l, rail5 |-> u, com |-> c, eps |-> e, bat |-> b]
  BY DEF Encoded
<1> HIDE DEF m, f, v, i, o, l, u, c, e, b
<1> QED BY <1>1, <1>2, <1>3, <1>4, <1>5, <1>7, <1>8 DEF Record

(* A row is what the decoder makes of a record of the current readings. *)
RecInv ==
  /\ record # None => record = Encoded(hk)
  /\ row # None => row = Decoded(Encoded(hk))

(* Every field of a record fits its byte, whatever the boards report       *)
(* (int16_to_uint8 and int16_to_int8 in wod_sat.c).                        *)
THEOREM RecordTyped == Spec => []TypeOK
<1>1. Init => TypeOK
  BY ReadingsAssumption DEF Init, TypeOK
<1>2. TypeOK /\ [Next]_vars => TypeOK'
  <2> SUFFICES ASSUME TypeOK, [Next]_vars
               PROVE  TypeOK'
    OBVIOUS
  <2>1. CASE Fetch
    BY <2>1, ReadingsAssumption DEF Fetch, TypeOK
  <2>2. CASE Log
    BY <2>2, EncodedFits DEF Log, TypeOK
  <2>3. CASE Decode
    BY <2>3 DEF Decode, TypeOK
  <2>4. CASE UNCHANGED vars
    BY <2>4 DEF vars, TypeOK
  <2> QED BY <2>1, <2>2, <2>3, <2>4 DEF Next
<1> QED BY <1>1, <1>2, PTL DEF Spec

LEMMA RecInvHolds == Spec => []RecInv
<1>1. Init => RecInv
  BY DEF Init, RecInv
<1>2. TypeOK /\ RecInv /\ [Next]_vars => RecInv'
  <2> SUFFICES ASSUME TypeOK, RecInv, [Next]_vars
               PROVE  RecInv'
    OBVIOUS
  <2>1. CASE Fetch
    BY <2>1 DEF Fetch, RecInv
  <2>2. CASE Log
    BY <2>2 DEF Log, RecInv
  <2>3. CASE Decode
    BY <2>3 DEF Decode, RecInv
  <2>4. CASE UNCHANGED vars
    BY <2>4 DEF vars, RecInv
  <2> QED BY <2>1, <2>2, <2>3, <2>4 DEF Next
<1> QED BY <1>1, <1>2, RecordTyped, PTL DEF Spec

(* The row shows every reading within its range to one step of its scale   *)
(* (wod_get and the loop of decode.c).                                     *)
THEOREM RowsFaithful == Spec => []Faithful
<1>1. TypeOK /\ RecInv => Faithful
  <2> SUFFICES ASSUME hk \in Housekeeping, row = Decoded(Encoded(hk))
               PROVE  Faithful
    BY DEF TypeOK, RecInv, Faithful
  <2>1. hk.vbatt >= 4420 /\ hk.vbatt <= 8515 => row.volt <= hk.vbatt /\ hk.vbatt < row.volt + 16
    BY Sums, VoltByte DEF Decoded, Encoded
  <2>2. InSum(hk) <= 2700 => Near(row.in, InSum(hk), 2700)
    BY Sums, CurrentByte DEF Decoded, Encoded
  <2>3. hk.cursys <= 4000 => Near(row.out, hk.cursys, 4000)
    BY Sums, CurrentByte DEF Decoded, Encoded
  <2>4. LowSum(hk) <= 5500 => Near(row.rail3, LowSum(hk), 5500)
    BY Sums, CurrentByte DEF Decoded, Encoded
  <2>5. HighSum(hk) <= 4500 => Near(row.rail5, HighSum(hk), 4500)
    BY Sums, CurrentByte DEF Decoded, Encoded
  <2>6. hk.radio \in -127 .. 127 => row.com = hk.radio
    <3>1. row.com = Signed(hk.radio) /\ hk.radio \in Int
      BY Sums DEF Decoded, Encoded
    <3> QED BY <3>1, ByteFits
  <2>7. BoardSum(hk) \in -508 .. 508 => Degrees(row.eps, BoardSum(hk), 4)
    <3>1. row.eps = Signed(Div(BoardSum(hk), 4)) /\ BoardSum(hk) \in Int
      BY Sums DEF Decoded, Encoded
    <3> QED BY <3>1, Means
  <2>8. BattSum(hk) \in -254 .. 254 => Degrees(row.bat, BattSum(hk), 2)
    <3>1. row.bat = Signed(Div(BattSum(hk), 2)) /\ BattSum(hk) \in Int
      BY Sums DEF Decoded, Encoded
    <3> QED BY <3>1, Means
  <2>9. hk.battmode \in 0 .. 4 /\ hk.output \in [1 .. 6 -> {0, 1}]
    BY DEF Housekeeping
  <2>10. (hk.battmode # 0 => row.level = hk.battmode) /\ row.rails = hk.output
    BY <2>9, FlagsBack DEF Decoded, Encoded
  <2> QED BY <2>1, <2>2, <2>3, <2>4, <2>5, <2>6, <2>7, <2>8, <2>10 DEF Faithful
<1> QED BY <1>1, RecordTyped, RecInvHolds, PTL

(* A reading out of its range never shows as a normal one, if the sum of   *)
(* three currents fits 16 bits (the comment at wod_sat.c:211).             *)
THEOREM RowsSaturate == Spec => []Saturates
<1>1. TypeOK /\ RecInv => Saturates
  <2> SUFFICES ASSUME hk \in Housekeeping, row = Decoded(Encoded(hk))
               PROVE  Saturates
    BY DEF TypeOK, RecInv, Saturates
  <2>1. (hk.vbatt < 4420 => row.volt = 4420) /\ (hk.vbatt > 8515 => row.volt = 8500)
    BY Sums, VoltByte DEF Decoded, Encoded
  <2>2. InSum(hk) > 2700 /\ InSum(hk) < Word => row.in = 255 * 2700
    BY Sums, CurrentByte DEF Decoded, Encoded
  <2>3. hk.cursys > 4000 => row.out = 255 * 4000
    BY Sums, CurrentByte DEF Decoded, Encoded
  <2>4. LowSum(hk) > 5500 /\ LowSum(hk) < Word => row.rail3 = 255 * 5500
    BY Sums, CurrentByte DEF Decoded, Encoded
  <2>5. HighSum(hk) > 4500 /\ HighSum(hk) < Word => row.rail5 = 255 * 4500
    BY Sums, CurrentByte DEF Decoded, Encoded
  <2>6. (hk.radio > 127 => row.com = 127) /\ (hk.radio < -127 => row.com = -127)
    <3>1. row.com = Signed(hk.radio) /\ hk.radio \in Int
      BY Sums DEF Decoded, Encoded
    <3> QED BY <3>1, ByteFits
  <2>7. (BoardSum(hk) > 508 => row.eps = 127) /\ (BoardSum(hk) < -508 => row.eps = -127)
    <3>1. row.eps = Signed(Div(BoardSum(hk), 4)) /\ BoardSum(hk) \in Int
      BY Sums DEF Decoded, Encoded
    <3> QED BY <3>1, Means
  <2>8. (BattSum(hk) > 254 => row.bat = 127) /\ (BattSum(hk) < -254 => row.bat = -127)
    <3>1. row.bat = Signed(Div(BattSum(hk), 2)) /\ BattSum(hk) \in Int
      BY Sums DEF Decoded, Encoded
    <3> QED BY <3>1, Means
  <2> QED BY <2>1, <2>2, <2>3, <2>4, <2>5, <2>6, <2>7, <2>8 DEF Saturates
<1> QED BY <1>1, RecordTyped, RecInvHolds, PTL
=============================================================================
