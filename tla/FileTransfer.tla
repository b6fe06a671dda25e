----------------------------- MODULE FileTransfer -----------------------------
(***************************************************************************)
(* The file transfer of lab 7: one server, its clients and the connections *)
(* between them.                                                           *)
(***************************************************************************)
EXTENDS FileServer, FileClient

Init ==
  /\ conns = <<>>
  /\ ServerInit /\ ClientInit
  /\ server_file \in Files /\ server_dir \in Dirs
  /\ asked = 0 /\ clean = TRUE

Next == ServerStep \/ Interrupt \/ \E c \in Clients : ClientStep(c)

Spec == Init /\ [][Next]_netvars

(* The server is scheduled, and so is a client whose user does nothing.     *)
FairSpec ==
  /\ Spec
  /\ WF_netvars(ServerStep)
  /\ \A c \in Clients :
       WF_netvars(Waits(c) /\ UNCHANGED <<srv, server_file, server_dir>>)

------------------------------------------------------------------------------
Pieces == {Bye, Entry, Junk} \cup {Ok(n) : n \in {2, 3}}
            \cup {Header(n) : n \in -1 .. MaxSize} \cup {Unit(i) : i \in 1 .. MaxSize}
            \cup {Hello(k) : k \in 1 .. Len(conns)}
Requests == {"hello", "bye", "ls", "get", "done"}
Contents == {NoFile} \cup Seq({Unit(i) : i \in 1 .. MaxSize} \cup {Junk})

(* Every variable has its type.                                             *)
TypeOK ==
  /\ \A k \in DOMAIN conns :
       conns[k] \in [req : Seq(Requests), rep : Seq(Pieces), cend : Ends, send : Ends]
  /\ srv \in Server /\ srv.id <= Len(conns)
  /\ \A c \in Clients : cl[c] \in Client /\ cl[c].sock <= Len(conns)
  /\ \A c \in Clients : disk[c].tmp \in Contents
  /\ asked \in 0 .. MaxCommands /\ clean \in BOOLEAN

InSession(c) ==
  /\ cl[c].state # "IDLE" /\ cl[c].pc # "bye"
  /\ srv.pc # "dead"

(* The global state of the server admits one client at a time: two clients  *)
(* are never both in a session, whoever left, and however.                  *)
OneSession == \A c, d \in Clients : InSession(c) /\ InSession(d) => c = d

Idle(c) == cl[c].pc = "prompt" /\ Sock(c).req = <<>> /\ Sock(c).rep = <<>>

(* Two programs, two copies of conn_state: while nothing is under way, a    *)
(* client that is CONNECTED is the one whose session the server holds, and  *)
(* the server is CONNECTED too, unless an answer was read in part: then it  *)
(* may be waiting for a "done" that the client will not send.               *)
Agreement ==
  \A c \in Clients :
    cl[c].state = "CONNECTED" /\ Idle(c) /\ srv.pc # "dead" =>
      /\ srv.state # "IDLE" /\ srv.holder = cl[c].sock /\ srv.id = cl[c].sock
      /\ clean => srv.state = "CONNECTED"

(* get counts every recv as a full buffer.  That does no harm to a file of  *)
(* at most one buffer or of whole buffers: what a short recv leaves behind  *)
(* spoils the answer to "done", and the file is not renamed.  What is       *)
(* renamed is the server's file, after what the temporary file held (unless *)
(* part of a listing was still unread when get was typed).                  *)
WholeBuffersIntact ==
  \A c \in Clients :
    LET f == disk[c].file
    IN f # NoFile /\ f.sync /\ (f.size <= Buf \/ f.size % Buf = 0) =>
         f.data = f.old \o Content(f.size)

(* No client makes the server die, or lose a session, as long as every      *)
(* answer is read whole and clients leave by bye: it neither takes the end  *)
(* of a connection for a message nor sends to a client that has gone.  What *)
(* still ends it is an interrupt, and an ls whose directory cannot be read, *)
(* which the server does to itself.                                         *)
CleanSessionsSurvive ==
  clean =>
    /\ ~srv.lost
    /\ srv.pc = "dead" => srv.cause \in {"interrupt", "listing"}

(* new_fd is never closed, but the bye of a connection closes descriptor 0, *)
(* which the next connection is given: sessions that end by bye leak one    *)
(* descriptor in all; get leaks one more for every file it opens.           *)
OneLeakedSession == srv.lost \/ Cardinality(srv.fds) <= 5 + srv.opened

(* The server keeps its promise about sessions.                             *)
FileSession ==
  INSTANCE FileSession WITH
    phase  <- IF srv.pc = "dead" THEN "down" ELSE IF srv.lost THEN "lost"
              ELSE CASE srv.state = "IDLE" -> "free"
                     [] srv.state = "CONNECTED" -> "held"
                     [] srv.state = "DOWNLOADING" -> "download",
    holder <- srv.holder
ImplementsFileSession == FileSession!Spec

(* The answer to a request may never come only if an answer was read in     *)
(* part or a client left in a session, if another client keeps its session, *)
(* if the listing is empty (ls waits for it), or if the file can be read    *)
(* but not opened for writing (both ends wait).                             *)
Excused(c) ==
  \/ ~clean
  \/ list_dir(server_dir) = <<>>
  \/ (server_file.size > 0 /\ ~server_file.writable)
  \/ (srv.state # "IDLE" /\ srv.holder # cl[c].sock)

CommandReturns ==
  \A c \in Clients : cl[c].pc # "prompt" ~> (cl[c].pc = "prompt" \/ Excused(c))
==============================================================================
