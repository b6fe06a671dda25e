------------------------------ MODULE FileClient ------------------------------
(***************************************************************************)
(* The clients of lab 7 (client.c).  The user types commands; conn, bye,   *)
(* ls and get send a request and wait for one or more pieces of an answer. *)
(* A command refused in the state of the client changes nothing and is     *)
(* left out.  Leaving is typing quit, or anything that ends the program    *)
(* (an empty line, an interrupt, SIGPIPE); the user may start it again.    *)
(***************************************************************************)
EXTENDS FileNet

ClStates == {"IDLE", "CONNECTED", "DOWNLOADING"}
Client ==
  [pc : {"prompt", "conn", "bye", "ls_ok", "ls", "get_ok", "get_data", "get_done"},
   state : ClStates,
   id : {0, 1},        \* client_id: none, or the 1 that conn stores
   sock : Nat,         \* clientSocket, a connection
   size : -1 .. MaxSize,     \* fileSize
   left : Int,         \* bufSize
   buf : Seq({Unit(i) : i \in 1 .. MaxSize} \cup {Junk}),  \* written to the open tmp file
   old : Seq({Unit(i) : i \in 1 .. MaxSize} \cup {Junk}),  \* ghost: what it held when opened
   sync : BOOLEAN]     \* ghost: get was typed with nothing unread, the server CONNECTED

init ==
  [pc |-> "prompt", state |-> "IDLE", id |-> 0, sock |-> 0,
   size |-> 0, left |-> 0, buf |-> <<>>, old |-> <<>>, sync |-> TRUE]

ClientInit ==
  /\ cl = [c \in Clients |-> init]
  /\ disk = [c \in Clients |-> [tmp |-> NoFile, file |-> NoFile]]

Sock(c) == conns[cl[c].sock]
SetConn(c, cn) == conns' = [conns EXCEPT ![cl[c].sock] = cn]
SetClient(c, s) == cl' = [cl EXCEPT ![c] = s]
Prompt(c) == [cl[c] EXCEPT !.pc = "prompt"]

(* The command typed at the prompt, in a state in which it is accepted.     *)
Types(c, state) ==
  /\ cl[c].pc = "prompt" /\ cl[c].state = state
  /\ asked < MaxCommands
  /\ asked' = asked + 1

(* The connection after a recv of k pieces; a recv that returns 0, or -1.   *)
Drop(c, k) == [Sock(c) EXCEPT !.rep = Rest(@, k)]
Zero(c)  == RecvZero(Sock(c).rep, Sock(c).send)
Error(c) == RecvError(Sock(c).rep, Sock(c).send)

------------------------------------------------------------------------------
(* conn: refused by the kernel if the server has gone.                      *)

conn(c) ==
  /\ Types(c, "IDLE")
  /\ IF srv.pc = "dead"
     THEN UNCHANGED <<conns, cl>>
     ELSE /\ conns' = Append(conns, NewConn)
          /\ SetClient(c, [cl[c] EXCEPT !.pc = "conn", !.sock = Len(conns) + 1])
  /\ UNCHANGED <<disk, clean>>

conn_reply(c) ==
  /\ cl[c].pc = "conn"
  /\ \E k \in Recv(Sock(c).rep) : SetConn(c, Drop(c, k))
  /\ SetClient(c, IF Sock(c).rep[1][1] = "hello"
                  THEN [Prompt(c) EXCEPT !.state = "CONNECTED", !.id = 1]
                  ELSE Prompt(c))
  /\ UNCHANGED <<disk, asked, clean>>

conn_fails(c) ==
  /\ cl[c].pc = "conn" /\ Zero(c)
  /\ SetClient(c, Prompt(c))
  /\ UNCHANGED <<conns, disk, asked, clean>>

(* bye: whatever is received counts as the answer; finish and close.        *)
finish(c) == [Prompt(c) EXCEPT !.state = "IDLE", !.id = 0]

bye(c) ==
  /\ Types(c, "CONNECTED")
  /\ SetConn(c, Request(Sock(c), "bye"))
  /\ SetClient(c, [cl[c] EXCEPT !.pc = "bye"])
  /\ UNCHANGED <<disk, clean>>

bye_reply(c) ==
  /\ cl[c].pc = "bye"
  /\ \/ \E k \in Recv(Sock(c).rep) : SetConn(c, CloseClient(Drop(c, k)))
     \/ Zero(c) /\ SetConn(c, CloseClient(Sock(c)))
  /\ SetClient(c, finish(c))
  /\ UNCHANGED <<disk, asked, clean>>

(* A recv that fails in bye, ls or get returns to the prompt, the state as  *)
(* it was.                                                                  *)
recv_error(c) ==
  /\ cl[c].pc \in {"bye", "ls_ok", "ls", "get_ok", "get_data", "get_done"}
  /\ Error(c)
  /\ SetClient(c, Prompt(c))
  /\ UNCHANGED <<conns, disk, asked, clean>>

------------------------------------------------------------------------------
(* ls: three bytes for the "ok", then one recv for the listing.  The third  *)
(* byte may be the first of the listing, which is at least two bytes long.  *)

ls(c) ==
  /\ Types(c, "CONNECTED")
  /\ SetConn(c, Request(Sock(c), "ls"))
  /\ SetClient(c, [cl[c] EXCEPT !.pc = "ls_ok"])
  /\ UNCHANGED <<disk, clean>>

AfterOk(s) ==
  IF s[1][1] = "header" THEN {<<Junk>> \o Tail(s)}
  ELSE {Tail(s)} \cup
       IF s[1] = Ok(2) /\ Len(s) > 1 /\ ~IsEntry(s[2]) /\ ~IsUnit(s[2])
       THEN {<<Junk>> \o Rest(s, 2)} ELSE {}

ls_ok(c) ==
  /\ cl[c].pc = "ls_ok"
  /\ \/ /\ Sock(c).rep # <<>>
        /\ LET s == Sock(c).rep
           IN \E rest \in IF SaysOk(s[1]) THEN AfterOk(s) ELSE SmallRecv(s, 3) :
                SetConn(c, [Sock(c) EXCEPT !.rep = rest])
        /\ SetClient(c, [cl[c] EXCEPT !.pc = IF SaysOk(Sock(c).rep[1]) THEN "ls" ELSE "prompt"])
     \/ Zero(c) /\ SetClient(c, Prompt(c)) /\ UNCHANGED conns
  /\ UNCHANGED <<disk, asked, clean>>

ls_listing(c) ==
  /\ cl[c].pc = "ls"
  /\ \/ \E k \in Recv(Sock(c).rep) :
          /\ SetConn(c, Drop(c, k))
          /\ clean' = (clean /\ k = Len(Sock(c).rep))
     \/ Zero(c) /\ UNCHANGED <<conns, clean>>
  /\ SetClient(c, Prompt(c))
  /\ UNCHANGED <<disk, asked>>

------------------------------------------------------------------------------
(* get: eleven bytes for "ok" and the size; then the temporary file is      *)
(* opened for appending and filled until as many bytes as announced have    *)
(* been counted.  Each recv is counted as min(bufSize, 2048) bytes,         *)
(* whatever it returned: what is missing is written as zeros.               *)

get(c) ==
  /\ Types(c, "CONNECTED")
  /\ SetConn(c, Request(Sock(c), "get"))
  /\ SetClient(c, [cl[c] EXCEPT !.pc = "get_ok",
                     !.sync = (Sock(c).rep = <<>> /\ Sock(c).req = <<>> /\ srv.state = "CONNECTED")])
  /\ UNCHANGED <<disk, clean>>

Opened(tmp) == IF tmp = NoFile THEN <<>> ELSE tmp

(* The file of so many units is expected next, the connection as cn.        *)
Downloads(c, size, cn) ==
  LET tmp == Opened(disk[c].tmp)
  IN /\ SetConn(c, cn)
     /\ SetClient(c, [cl[c] EXCEPT !.pc = "get_data", !.state = "DOWNLOADING",
                        !.size = size, !.left = size, !.buf = <<>>, !.old = tmp])
     /\ disk' = [disk EXCEPT ![c].tmp = tmp]

get_ok(c) ==
  /\ cl[c].pc = "get_ok" /\ Sock(c).rep # <<>>
  /\ LET m == Sock(c).rep[1]
     IN m[1] = "header" /\ Downloads(c, m[2], Drop(c, 1))
  /\ UNCHANGED <<asked, clean>>

(* The "ok" of a listing that was not read, and what follows it in eleven   *)
(* bytes: the second word there is taken for the size, whatever it is.      *)
get_torn(c) ==
  /\ cl[c].pc = "get_ok" /\ Len(Sock(c).rep) > 1 /\ Sock(c).rep[1] = Ok(2)
  /\ \E size \in 0 .. MaxSize, rest \in SmallRecv(Tail(Sock(c).rep), 9) :
       Downloads(c, size, [Sock(c) EXCEPT !.rep = rest])
  /\ UNCHANGED <<asked, clean>>

get_not_ok(c) ==
  /\ cl[c].pc = "get_ok"
  /\ \/ /\ Sock(c).rep # <<>> /\ ~SaysOk(Sock(c).rep[1])
        /\ \E rest \in SmallRecv(Sock(c).rep, 11) : SetConn(c, [Sock(c) EXCEPT !.rep = rest])
     \/ Zero(c) /\ UNCHANGED conns
  /\ SetClient(c, Prompt(c))
  /\ UNCHANGED <<disk, asked, clean>>

Written(s, n) == [i \in 1 .. n |-> IF i <= Len(s) /\ IsUnit(s[i]) THEN s[i] ELSE Junk]

get_data(c) ==
  /\ cl[c].pc = "get_data" /\ Len(cl[c].buf) < cl[c].size
  /\ LET n == Min({cl[c].left, Buf})
         Writes(s) == SetClient(c, [cl[c] EXCEPT !.buf = @ \o Written(s, n), !.left = @ - Buf])
     IN \/ \E k \in Recv(Sock(c).rep) :
             /\ Writes(SubSeq(Sock(c).rep, 1, k))
             /\ SetConn(c, Drop(c, k))
             /\ clean' = (clean /\ k = n)
        \/ Zero(c) /\ Writes(<<>>) /\ UNCHANGED <<conns, clean>>
  /\ UNCHANGED <<disk, asked>>

get_close(c) ==
  /\ cl[c].pc = "get_data" /\ Len(cl[c].buf) >= cl[c].size
  /\ disk' = [disk EXCEPT ![c].tmp = @ \o cl[c].buf]
  /\ SetConn(c, Request(Sock(c), "done"))
  /\ SetClient(c, [cl[c] EXCEPT !.pc = "get_done", !.buf = <<>>])
  /\ UNCHANGED <<asked, clean>>

(* The answer to done: the file is renamed if it is exactly "ok".           *)
Renamed(c) ==
  [data |-> disk[c].tmp, old |-> cl[c].old, size |-> cl[c].size, sync |-> cl[c].sync]
ExactlyOk(s) == s[1] = Ok(3) \/ s = <<Ok(2)>>

(* Mutant: the file is renamed whatever the answer.                         *)
get_done_any_reply(c) ==
  /\ cl[c].pc = "get_done"
  /\ \E k \in Recv(Sock(c).rep) :
       /\ SetConn(c, Drop(c, k))
       /\ SetClient(c, [Prompt(c) EXCEPT !.state = "CONNECTED"])
       /\ disk' = [disk EXCEPT ![c] = [tmp |-> NoFile, file |-> Renamed(c)]]
  /\ UNCHANGED <<asked, clean>>

get_done(c) ==
  /\ cl[c].pc = "get_done"
  /\ \/ \E k \in Recv(Sock(c).rep) :
          LET ok == ExactlyOk(SubSeq(Sock(c).rep, 1, k))
          IN /\ SetConn(c, Drop(c, k))
             /\ SetClient(c, IF ok THEN [Prompt(c) EXCEPT !.state = "CONNECTED"] ELSE Prompt(c))
             /\ disk' = IF ok
                        THEN [disk EXCEPT ![c] = [tmp |-> NoFile,
                               file |-> Renamed(c)]]
                        ELSE disk
     \/ /\ Zero(c)
        /\ SetClient(c, Prompt(c))
        /\ UNCHANGED <<conns, disk>>
  /\ UNCHANGED <<asked, clean>>

------------------------------------------------------------------------------
(* The program ends; the kernel closes its socket.  What fwrite still holds *)
(* reaches the temporary file when the program exits, not when it is        *)
(* killed.  An "ok" with no second word makes get read a null pointer.      *)

Connected(c) ==
  cl[c].sock # 0 /\ (cl[c].pc = "conn" \/ cl[c].state # "IDLE")

Leave(c) ==
  /\ conns' = IF Connected(c)
              THEN [conns EXCEPT ![cl[c].sock] = CloseClient(@)] ELSE conns
  /\ clean' = (clean /\ ~Connected(c))
  /\ SetClient(c, init)

quit(c) ==
  /\ asked < MaxCommands /\ asked' = asked + 1
  /\ Leave(c)
  /\ \/ UNCHANGED disk
     \/ cl[c].buf # <<>> /\ disk' = [disk EXCEPT ![c].tmp = @ \o cl[c].buf]

get_crash(c) ==
  /\ cl[c].pc = "get_ok" /\ Sock(c).rep # <<>>
  /\ Sock(c).rep[1][1] = "ok"
  /\ Leave(c)
  /\ UNCHANGED <<disk, asked>>

Waits(c) ==
  \/ conn_reply(c) \/ conn_fails(c)
  \/ bye_reply(c)
  \/ ls_ok(c) \/ ls_listing(c)
  \/ get_ok(c) \/ get_torn(c) \/ get_not_ok(c) \/ get_data(c) \/ get_close(c) \/ get_done(c)
  \/ get_crash(c)
  \/ recv_error(c)

Typed(c) == conn(c) \/ bye(c) \/ ls(c) \/ get(c) \/ quit(c)

ClientStep(c) == (Waits(c) \/ Typed(c)) /\ UNCHANGED <<srv, server_file, server_dir>>
==============================================================================
