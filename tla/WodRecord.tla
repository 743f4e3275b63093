----------------------------- MODULE WodRecord -----------------------------
(***************************************************************************)
(* What a record of the log holds and what the decoder makes of it:        *)
(* wod_get of satellite/wod_sat.c turns the housekeeping of the power      *)
(* supply and of the radio into one-byte fields, and                       *)
(* wod_decoder/decode.c turns those into the row of a table.               *)
(*                                                                         *)
(* Currents are scaled by floating-point numbers.  For 16-bit readings the *)
(* floor of that product is the exact quotient, and a decoded current is   *)
(* counted here in 255ths of a milliampere, so that integers suffice.      *)
(***************************************************************************)
EXTENDS Integers

CONSTANTS
  Readings   \* the housekeeping that occurs, with the number of the entry

Word == 65536
U16 == 0 .. (Word - 1)
I16 == -(Word \div 2) .. (Word \div 2 - 1)

(* The fields of eps_hk_t and nanocom_hk_t that wod_get reads.             *)
Housekeeping == [
  entry: Nat, vbatt: U16, curin: [1 .. 3 -> U16], cursys: U16,
  curout: [1 .. 6 -> U16], output: [1 .. 6 -> {0, 1}], battmode: 0 .. 4,
  temp: [1 .. 4 -> I16], radio: I16]

ASSUME ReadingsAssumption == Readings \subseteq Housekeeping

VARIABLES
  hk,        \* wod_eps_hk, wod_com_hk and current_entry
  record,    \* a wod_data_t in the log file, or None
  row        \* the line of the table that the decoder wrote, or None

None == [none |-> TRUE]

vars == <<hk, record, row>>

Lesser(a, b)  == IF a < b THEN a ELSE b
Greater(a, b) == IF a > b THEN a ELSE b

(* Division in C rounds towards zero. *)
Div(a, b) == IF a >= 0 THEN a \div b ELSE -((-a) \div b)

(* Mutants: the number is narrowed without a look at its size; only its    *)
(* upper end is looked at.                                                 *)
ByteNarrowed(n) == n % 256
ByteOneSided(n) == Lesser(n, 255)

(* int16_to_uint8 and int16_to_int8. *)
Byte(n) == Greater(Lesser(n, 255), 0)
Signed(n) == Greater(Lesser(n, 127), -127)

(* The readings that go into one field.                                    *)
InSum(h)    == h.curin[1] + h.curin[2] + h.curin[3]
LowSum(h)   == h.curout[1] + h.curout[2] + h.curout[3]
HighSum(h)  == h.curout[4] + h.curout[5] + h.curout[6]
BoardSum(h) == h.temp[1] + h.temp[2] + h.temp[3] + h.temp[4]
BattSum(h)  == h.temp[1] + h.temp[2]

(* A current, summed in 16 bits, of which max makes 255. *)
Scaled(n, max) == (255 * (n % Word)) \div max

(* Mutant: two outputs change places. *)
FlagsSwapped(level, o) ==
  64 * ((level + 3) % 4) + 32 * o[1] + 16 * o[2] + 8 * o[3] + 4 * o[4] + 2 * o[6] + o[5]

(* The low two bits of level - 1, which are set when the level is 0, and a *)
(* bit for each output.                                                    *)
Flags(level, o) ==
  64 * ((level + 3) % 4) + 32 * o[1] + 16 * o[2] + 8 * o[3] + 4 * o[4] + 2 * o[5] + o[6]

-----------------------------------------------------------------------------
(* eps_hk_get and com_get_hk, at some entry of the log. *)
Fetch ==
  /\ hk' \in Readings
  /\ record' = None /\ row' = None

(* wod_get. *)
Encoded(h) ==
  [minute |-> h.entry % 256,
   flags  |-> Flags(h.battmode, h.output),
   volt   |-> Byte(Div(h.vbatt - 4420, 16)),
   in     |-> Byte(Scaled(InSum(h), 2700)),
   out    |-> Byte(Scaled(h.cursys, 4000)),
   rail3  |-> Byte(Scaled(LowSum(h), 5500)),
   rail5  |-> Byte(Scaled(HighSum(h), 4500)),
   com    |-> Signed(h.radio),
   eps    |-> Signed(Div(BoardSum(h), 4)),
   bat    |-> Signed(Div(BattSum(h), 2))]

(* The loop of the decoder. *)
Decoded(r) ==
  [minute |-> r.minute,
   level  |-> r.flags \div 64 + 1,
   rails  |-> <<(r.flags \div 32) % 2, (r.flags \div 16) % 2, (r.flags \div 8) % 2,
                (r.flags \div 4) % 2, (r.flags \div 2) % 2, r.flags % 2>>,
   volt   |-> r.volt * 16 + 4420,
   in     |-> r.in * 2700,
   out    |-> r.out * 4000,
   rail3  |-> r.rail3 * 5500,
   rail5  |-> r.rail5 * 4500,
   com    |-> r.com,
   eps    |-> r.eps,
   bat    |-> r.bat]

Log ==
  /\ record = None
  /\ record' = Encoded(hk)
  /\ UNCHANGED <<hk, row>>

Decode ==
  /\ record # None /\ row = None
  /\ row' = Decoded(record)
  /\ UNCHANGED <<hk, record>>

Init == hk \in Readings /\ record = None /\ row = None

Next == Fetch \/ Log \/ Decode

Spec == Init /\ [][Next]_vars
-----------------------------------------------------------------------------
(* Properties. *)

Record == [
  minute: 0 .. 255, flags: 0 .. 255, volt: 0 .. 255, in: 0 .. 255, out: 0 .. 255,
  rail3: 0 .. 255, rail5: 0 .. 255, com: -128 .. 127, eps: -128 .. 127, bat: -128 .. 127]

(* Whatever the boards report, every field of the record fits its byte.    *)
TypeOK ==
  /\ hk \in Housekeeping
  /\ record \in Record \cup {None}
  /\ record = None => row = None

(* The current n is decoded to c 255ths of a milliampere, at most one step *)
(* of the scale below.                                                     *)
Near(c, n, max) == c <= 255 * n /\ 255 * n < c + max

(* The same for a mean temperature, of which k sensors sum up to n. *)
Degrees(t, n, k) == -k < k * t - n /\ k * t - n < k

(* A row shows what was measured when that is within the range of wod.h:   *)
(* voltage and currents to one step of their scales, temperatures to one   *)
(* degree, the level and each output exactly.                              *)
Faithful ==
  row # None =>
    /\ hk.vbatt >= 4420 /\ hk.vbatt <= 8515 => row.volt <= hk.vbatt /\ hk.vbatt < row.volt + 16
    /\ InSum(hk) <= 2700 => Near(row.in, InSum(hk), 2700)
    /\ hk.cursys <= 4000 => Near(row.out, hk.cursys, 4000)
    /\ LowSum(hk) <= 5500 => Near(row.rail3, LowSum(hk), 5500)
    /\ HighSum(hk) <= 4500 => Near(row.rail5, HighSum(hk), 4500)
    /\ hk.radio \in -127 .. 127 => row.com = hk.radio
    /\ BoardSum(hk) \in -508 .. 508 => Degrees(row.eps, BoardSum(hk), 4)
    /\ BattSum(hk) \in -254 .. 254 => Degrees(row.bat, BattSum(hk), 2)
    /\ hk.battmode # 0 => row.level = hk.battmode
    /\ row.rails = hk.output

(* A reading out of the range shows as the end of the range it passed, and *)
(* never as a normal one (satellite/wod_sat.c:211), as long as the sum of  *)
(* three currents fits 16 bits.                                            *)
Saturates ==
  row # None =>
    /\ hk.vbatt < 4420 => row.volt = 4420
    /\ hk.vbatt > 8515 => row.volt = 8500
    /\ InSum(hk) > 2700 /\ InSum(hk) < Word => row.in = 255 * 2700
    /\ hk.cursys > 4000 => row.out = 255 * 4000
    /\ LowSum(hk) > 5500 /\ LowSum(hk) < Word => row.rail3 = 255 * 5500
    /\ HighSum(hk) > 4500 /\ HighSum(hk) < Word => row.rail5 = 255 * 4500
    /\ hk.radio > 127 => row.com = 127
    /\ hk.radio < -127 => row.com = -127
    /\ BoardSum(hk) > 508 => row.eps = 127
    /\ BoardSum(hk) < -508 => row.eps = -127
    /\ BattSum(hk) > 254 => row.bat = 127
    /\ BattSum(hk) < -254 => row.bat = -127
=============================================================================
