---------------------------- MODULE MCFileTransfer ----------------------------
(* Two clients; a file that is missing, empty, shorter or longer than a     *)
(* buffer or exactly one, or read-only; directories without a regular file, *)
(* with one and with two.                                                   *)
EXTENDS FileTransfer

MCFiles ==
  {[size |-> n, writable |-> TRUE] : n \in {-1, 2, 3}} \cup
  {[size |-> 1, writable |-> FALSE]}
MCDirs == {<<"directory">>, <<"regular", "directory", "regular">>}
==============================================================================
