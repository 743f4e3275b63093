----------------------------- MODULE MCListing -----------------------------
(***************************************************************************)
(* Small instances of Listing, and what a comment of the code says of the  *)
(* paging and TLC finds it does not do.                                    *)
(***************************************************************************)
EXTENDS Listing

(* "make sure that the file count larger than current file number, then GS *)
(* would ask for next batch." (satellite/cmd_fs.c:609): a larger count     *)
(* stands for a batch to come, so that ls2sd, which asks as long as the    *)
(* count is the larger one, ends.  fs_ls_to_sd also counts the names that  *)
(* begin with a dot, which it does not list.                               *)
EveryListingEnds == Busy /\ seen # {} ~> ~Busy
=============================================================================
