------------------------------ MODULE MCWodLog ------------------------------
(***************************************************************************)
(* Small instances of WodLog, and what the comments and the help texts of  *)
(* the code say of the logger and TLC finds it does not do.                *)
(***************************************************************************)
EXTENDS WodLog

(* "Full reset of the wod logging system -- reset the wodnum and delete    *)
(* all the files then start it again." (wod_sat.c:422): when wod_reset has *)
(* gone through its loop and starts the logger again, no log is left.      *)
(* wod_init gives numbers past FF, "the largest number for the logs"       *)
(* (wod_sat.c:362), which the loop does not reach.                         *)
PurgeComplete == job = "rmall" /\ pc = "readNum" => \A f \in Names : ~Here(f)

(* "disable wod looger" (cmd_wod.c:178): once the operator has switched    *)
(* the logger off it stays off, whatever other command he gives and        *)
(* whatever fails, until he switches it on.                                *)
OffStaysOff == Idle /\ ~wanted => ~enable

(* "a file on SD card with a list of each file with started timestamp. +1  *)
(* = offset by one miniute." (wod.h:15): the minute a record carries is    *)
(* its place in the file.  wod_get takes it from current_entry.            *)
MinuteIsOffset == pc = "append" => entry = log[path].n % Wrap
=============================================================================
