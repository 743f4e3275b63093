--------------------------- MODULE MCBeaconDaemon ---------------------------
(***************************************************************************)
(* BeaconDaemon with what a comment says of the interval.                  *)
(***************************************************************************)
EXTENDS BeaconDaemon

(* The claim of satellite/beacon_io.c:72 about the configuration: it "has  *)
(* a minimum interval of 10 seconds".  The daemon has set it to 30.        *)
IntervalFloor == pc # "start" => interval >= Min
=============================================================================
