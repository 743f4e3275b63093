---------------------------- MODULE MCRemoteShell ----------------------------
(***************************************************************************)
(* Lines and files for TLC, and what the prompt says of itself.            *)
(***************************************************************************)
EXTENDS RemoteShell

(* Lines of every kind: for the satellite, for the ground, comments, empty,*)
(* without a letter, not closed, with delimiters inside, and too long.     *)
Lines == {
  <<>>, <<"a">>, <<"[", "a", "]">>, <<"X", "[", "a", "]">>,
  <<"S", "[", "a", "]">>, <<"a", "S", "[", "a", " ", "a", "]", "a">>,
  <<"G", "[", "a", " ", "a", "]">>, <<"G", "[", "a">>, <<"S", "[", "a">>,
  <<"#", "S", "[", "a", "]">>, <<"S", "[", "a", "#", "]">>,
  <<"S", "[", "a", ">", "a", "]">>, <<"S", "[", "a", "|", "a", "]">>,
  <<"S", "[", "<", "[", "a", "]", "]">>, <<"S", "[", "a", "a", "a", "a", "]">>,
  <<"S", "[", "]">>, <<"G", "]", "[">>}

Command == <<"S", "[", "a", "]">>

(* One line, a command and a line, a line without its end, and a command   *)
(* not closed behind a longer comment.                                     *)
MCFiles ==
  {Command, Command \o <<"\n">> \o Command}
  \cup {<<"#", "S", "[", "a", "]", "\n", "S", "[", "a", "\n">>}
  \cup {l \o <<"\n">> : l \in Lines}
  \cup {Command \o <<"\n">> \o l \o <<"\n">> : l \in Lines}

MCChars    == {"a", "S", "G", "X", "[", "]", "#", "<", ">", "|", " ", "?", "\n"}
MCRemovals == {<<"a", " ", "a">>}
MCTails    == {<<"?">>}

(* "Type the command here, hit enter to send, ctrl+x to cancel"            *)
(* (testtools.c:146): control-X sends nothing.                             *)
CancelSendsNothing == [][ControlX => UNCHANGED asked]_vars
=============================================================================
