---------------------------- MODULE MCWodRecord ----------------------------
(***************************************************************************)
(* WodRecord with readings at, next to and beyond every boundary.          *)
(***************************************************************************)
EXTENDS WodRecord

(* Before the first reading all is zero; then a usual one. *)
Zeros == [entry |-> 0, vbatt |-> 0, curin |-> <<0, 0, 0>>, cursys |-> 0,
          curout |-> <<0, 0, 0, 0, 0, 0>>, output |-> <<0, 0, 0, 0, 0, 0>>,
          battmode |-> 0, temp |-> <<0, 0, 0, 0>>, radio |-> 0]

Usual == [Zeros EXCEPT !.vbatt = 7400, !.cursys = 300, !.battmode = 3,
                       !.curin = <<200, 150, 0>>, !.curout = <<90, 0, 0, 0, 210, 0>>]

Voltages     == {0, 4419, 4420, 4435, 4436, 8499, 8500, 8515, 8516, 65535}
Currents     == {0, 10, 11, 2700, 2701, 4000, 4001, 4500, 4501, 5500, 5501, 65535}
Temperatures == {-32768, -509, -255, -128, -127, -3, -1, 0, 1, 3, 127, 128, 32767}

(* One field at a time, or the two or three that are summed. *)
MCReadings ==
  {Zeros, Usual}
    \cup {[Usual EXCEPT !.entry = n] : n \in {1, 255, 256}}
    \cup {[Usual EXCEPT !.vbatt = v] : v \in Voltages}
    \cup {[Usual EXCEPT !.curin = <<a, b, 1>>] : a, b \in Currents}
    \cup {[Usual EXCEPT !.cursys = a] : a \in Currents}
    \cup {[Usual EXCEPT !.curout = <<a, b, 0, 0, 1, a>>] : a, b \in Currents}
    \cup {[Usual EXCEPT !.output = o] : o \in [1 .. 6 -> {0, 1}]}
    \cup {[Usual EXCEPT !.battmode = m] : m \in 0 .. 4}
    \cup {[Usual EXCEPT !.temp = <<a, b, -1, a>>] : a, b \in Temperatures}
    \cup {[Usual EXCEPT !.radio = a] : a \in Temperatures}
=============================================================================
