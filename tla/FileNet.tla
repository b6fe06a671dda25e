------------------------------- MODULE FileNet -------------------------------
(***************************************************************************)
(* What the file server and the clients of lab 7 share: the connections    *)
(* between them, and how TCP and the kernel treat them.  A connection      *)
(* carries a stream in each direction.  Requests and answers of up to 11   *)
(* bytes arrive whole; a listing is cut at its entries and a file at its   *)
(* units of 2048/Buf bytes.  How much of a stream has arrived is up to the *)
(* network: a recv returns any part of it from the front that fits.        *)
(***************************************************************************)
EXTENDS Integers, Sequences, SequencesExt, FiniteSets, FiniteSetsExt

CONSTANTS
  Clients,      \* client programs, each in a directory of its own
  Files,        \* what the file asked for may be on the server, see ServerFile
  Dirs,         \* what the server's directory may hold: sequences of entries
  Buf,          \* units in a buffer of 2048 bytes
  MaxCommands,  \* bound: commands typed by all users, leaving included
  MaxSize,      \* bound: units in a file
  NoFile        \* no file under that name

VARIABLES
  conns,    \* connections, in the order in which clients made them
  srv,      \* the server
  cl,       \* the clients
  disk,     \* the client's copy of the file, and its temporary file
  server_file, server_dir,  \* what the server finds on its disk
  asked,    \* commands typed so far
  clean     \* ghost: nobody left in a session, no recv left part of an answer

netvars == <<conns, srv, cl, disk, server_file, server_dir, asked, clean>>

(* A file the server may hold: its size in units, and whether it can be     *)
(* opened for writing too.  Size -1 is a file that is not there.  A         *)
(* directory has regular files and others.                                  *)
ServerFile == [size : -1 .. MaxSize, writable : BOOLEAN]
Kinds == {"regular", "directory"}

ASSUME BoundsAssumption ==
  /\ MaxCommands \in Nat /\ MaxSize \in Nat /\ Buf \in Nat \ {0}
  /\ Files \subseteq ServerFile /\ Dirs \subseteq Seq(Kinds)

------------------------------------------------------------------------------
(* Answers, and pieces of them.                                             *)

Hello(id) == <<"hello", id>>
Bye       == <<"bye", 0>>
Ok(n)     == <<"ok", n>>       \* "ok", n bytes of it: 3 with its NUL
Header(n) == <<"header", n>>   \* "ok %08d"
Entry     == <<"entry", 0>>    \* a name of a listing, with its newline
Unit(i)   == <<"unit", i>>     \* a unit of the file
Junk      == <<"junk", 0>>     \* what is left of one of these, torn; zeros

IsUnit(m)  == m[1] = "unit"
IsEntry(m) == m[1] = "entry"
SaysOk(m)  == m[1] \in {"ok", "header"}

(* recv into 2048 bytes: the lengths of what it may return.                 *)
Recv(s) ==
  {k \in 1 .. Len(s) :
     LET units == Cardinality({i \in 1 .. k : IsUnit(s[i])})
     IN units < Buf \/ (units = Buf /\ k = Buf)}
Rest(s, k) == SubSeq(s, k + 1, Len(s))

(* recv into n bytes, 3 or 11: what it may leave.  Names and what is torn   *)
(* have any length from the one given here.                                 *)
Bytes(m) ==
  CASE m[1] = "ok" -> m[2] [] m[1] = "bye" -> 3 [] m[1] = "header" -> 11
    [] m[1] = "entry" -> 2 [] m[1] = "junk" -> 1 [] OTHER -> 12
Length(s) == FoldLeft(LAMBDA n, m : n + Bytes(m), 0, s)
SmallRecv(s, n) ==
  {Rest(s, k) : k \in {k \in 1 .. Len(s) : Length(SubSeq(s, 1, k)) <= n}} \cup
  {<<Junk>> \o Rest(s, k) : k \in {k \in 1 .. Len(s) : Length(SubSeq(s, 1, k - 1)) < n}}

------------------------------------------------------------------------------
(* A connection: unread requests and answers, and how each end was left.    *)
(* Closing an end with unread input resets the connection, and so does      *)
(* sending to an end that was closed.                                       *)

Ends == {"open", "fin", "rst"}
NewConn == [req |-> <<"hello">>, rep |-> <<>>, cend |-> "open", send |-> "open"]

Left(unread) == IF unread = <<>> THEN "fin" ELSE "rst"
CloseClient(cn) == [cn EXCEPT !.cend = Left(cn.rep), !.rep = <<>>]
CloseServer(cn) ==
  IF cn.send # "open" THEN cn
  ELSE [cn EXCEPT !.send = Left(cn.req), !.req = <<>>]

Request(cn, m) ==
  IF cn.send = "open" THEN [cn EXCEPT !.req = Append(@, m)]
  ELSE [cn EXCEPT !.send = "rst"]
Answer(cn, ms) ==
  IF cn.cend = "open" THEN [cn EXCEPT !.rep = @ \o ms]
  ELSE [cn EXCEPT !.cend = "rst"]

(* recv returns 0 after an orderly end; after a reset -1, or 0 once the     *)
(* error has been reported to somebody.                                     *)
RecvZero(unread, end)  == unread = <<>> /\ end # "open"
RecvError(unread, end) == unread = <<>> /\ end = "rst"
==============================================================================
