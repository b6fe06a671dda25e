------------------------------ MODULE FileServer ------------------------------
(***************************************************************************)
(* The server of lab 7 (sever/server.c, sever/common.c): one process that  *)
(* accepts connections one after another and answers the messages of each  *)
(* until it is no longer CONNECTED.  The state of the session is a global  *)
(* of the program, whichever connection is being served.                   *)
(***************************************************************************)
EXTENDS FileNet

SrvStates == {"IDLE", "CONNECTED", "DOWNLOADING"}
Causes == {"none", "message", "listing", "sigpipe", "interrupt"}
Server ==
  [pc : {"accept", "recv", "get", "dead"},
   state : SrvStates,
   id : Nat,       \* clientId, the number of the connection being served
   fd : Nat,       \* new_fd
   fds : SUBSET Nat,
   holder : Nat,   \* ghost: the connection whose hello was answered last
   opened : Nat,   \* ghost: files opened by get
   lost : BOOLEAN, \* ghost: a session was left without a bye
   cause : Causes] \* ghost: what the program ended by

ServerInit ==
  srv = [pc |-> "accept", state |-> "IDLE", id |-> 0, fd |-> 3, fds |-> 0 .. 3,
         holder |-> 0, opened |-> 0, lost |-> FALSE, cause |-> "none"]

LowestFree(fds) == Min((0 .. Max(fds) + 1) \ fds)
Served == conns[srv.id]

(* file_size: -1 if the file cannot be opened.                              *)
file_size(file) == file.size

(* list_dir: the names of the regular files, each with a newline.           *)
list_dir(dir) ==
  LET regular == {i \in DOMAIN dir : dir[i] = "regular"}
  IN [i \in 1 .. Cardinality(regular) |-> Entry]

(* The file itself, units 1 .. size.                                        *)
Content(size) == [i \in 1 .. size |-> Unit(i)]

(* Mutant: a failing accept is not noticed.                                 *)
accept_error_ignored ==
  /\ srv.pc = "accept"
  /\ LET fd == LowestFree(srv.fds)
     IN srv' = [srv EXCEPT !.pc = "recv", !.id = @ + 1, !.fd = fd, !.fds = @ \cup {fd}]
  /\ UNCHANGED conns

(* accept: connections are accepted in the order they were made, so the     *)
(* count of accepted connections, clientId, is the number of this one.      *)
accept ==
  /\ srv.pc = "accept"
  /\ srv.id < Len(conns)
  /\ LET fd == LowestFree(srv.fds)
     IN srv' = [srv EXCEPT !.pc = "recv", !.id = @ + 1, !.fd = fd, !.fds = @ \cup {fd}]
  /\ UNCHANGED conns

------------------------------------------------------------------------------
(* The handlers, given the message m and the connection without it.  The    *)
(* loop of main goes on receiving as long as the state is CONNECTED.        *)

Loop(s) == [s EXCEPT !.pc = IF s.state = "CONNECTED" THEN "recv" ELSE "accept"]
Becomes(cn, s) == conns' = [conns EXCEPT ![srv.id] = cn] /\ srv' = Loop(s)

server_hello(m, cn) ==
  /\ m = "hello"
  /\ IF srv.state = "IDLE"
     THEN Becomes(Answer(cn, <<Hello(srv.id)>>),
                  [srv EXCEPT !.state = "CONNECTED", !.holder = srv.id])
     ELSE Becomes(cn, srv)

(* Mutants: nothing is closed; the state is not reset.                      *)
server_bye_without_close(m, cn) ==
  /\ m = "bye" /\ srv.state = "CONNECTED"
  /\ Becomes(Answer(cn, <<Bye>>), [srv EXCEPT !.state = "IDLE"])

server_bye_stays_connected(m, cn) ==
  /\ m = "bye" /\ srv.state = "CONNECTED"
  /\ Becomes(Answer(cn, <<Bye>>), srv)

(* bye closes clientSocket, which was never set: descriptor 0, whatever     *)
(* that is.                                                                 *)
server_bye(m, cn) ==
  /\ m = "bye" /\ srv.state = "CONNECTED"
  /\ LET bye == Answer(cn, <<Bye>>)
     IN Becomes(IF srv.fd = 0 THEN CloseServer(bye) ELSE bye,
                [srv EXCEPT !.state = "IDLE", !.fds = @ \ {0}])

server_ls(m, cn) ==
  /\ m = "ls" /\ srv.state = "CONNECTED"
  /\ Becomes(Answer(cn, <<Ok(2)>> \o list_dir(server_dir)), srv)

(* The program ends by why, its connections as cs: the kernel closes them.  *)
ServerDies(cs, why) ==
  /\ srv' = [srv EXCEPT !.pc = "dead", !.cause = why]
  /\ conns' = [k \in DOMAIN cs |-> CloseServer(cs[k])]

(* An entry that is removed while the directory is read, or a directory     *)
(* that cannot be opened, makes list_dir return NULL, which ls does not     *)
(* notice: it tests the request.  The "ok" has been sent by then.           *)
server_ls_vanished ==
  /\ srv.pc = "recv" /\ srv.state = "CONNECTED"
  /\ Served.req # <<>> /\ Served.req[1] = "ls"
  /\ LET cn == [Served EXCEPT !.req = Rest(@, 1)]
     IN ServerDies([conns EXCEPT ![srv.id] = Answer(cn, <<Ok(2)>>)], "listing")

(* get up to its recv: the size is announced if the file can be read, the   *)
(* content is sent if it can be opened for writing as well.                 *)
server_get(m, cn) ==
  /\ m \in {"get", "get_other"} /\ srv.state = "CONNECTED"
  /\ LET size  == IF m = "get" THEN file_size(server_file) ELSE -1
         found == size >= 0 /\ server_file.writable
         fd    == LowestFree(srv.fds)
     IN /\ conns' = [conns EXCEPT ![srv.id] =
              Answer(cn, <<Header(size)>> \o IF found THEN Content(size) ELSE <<>>)]
        /\ srv' = [srv EXCEPT !.state = "DOWNLOADING", !.pc = "get",
                              !.opened = IF found THEN @ + 1 ELSE @,
                              !.fds = IF found THEN @ \cup {fd} ELSE @]

(* Mutants: the state stays DOWNLOADING, or becomes IDLE; the answer goes   *)
(* to the wrong messages.                                                   *)
server_get_done_stays(m, cn) ==
  Becomes(IF m = "done" THEN Answer(cn, <<Ok(3)>>) ELSE cn, srv)

server_get_done_ends(m, cn) ==
  Becomes(IF m = "done" THEN Answer(cn, <<Ok(3)>>) ELSE cn,
          [srv EXCEPT !.state = "IDLE"])

server_get_done_silent(m, cn) ==
  Becomes(IF m = "done" THEN cn ELSE Answer(cn, <<Ok(3)>>),
          [srv EXCEPT !.state = "CONNECTED"])

(* The rest of get: ok for a done, silence for anything else.               *)
server_get_done(m, cn) ==
  Becomes(IF m = "done" THEN Answer(cn, <<Ok(3)>>) ELSE cn,
          [srv EXCEPT !.state = "CONNECTED"])

Handled(m) ==
  m = "hello" \/ (m \in {"bye", "ls", "get", "get_other"} /\ srv.state = "CONNECTED")

(* A message no handler knows, or one that is refused in this state.        *)
server_refuse(m, cn) == ~Handled(m) /\ Becomes(cn, srv)

exec(m, cn) ==
  \/ server_hello(m, cn)
  \/ server_bye(m, cn)
  \/ server_ls(m, cn)
  \/ server_get(m, cn)
  \/ server_refuse(m, cn)

(* Requests read by one recv run together: nothing is left of a command     *)
(* but "get", which asks for a file of another name.                        *)
Message(ms) ==
  IF Len(ms) = 1 THEN ms[1] ELSE IF ms[1] = "get" THEN "get_other" ELSE "bad"

receive ==
  /\ srv.pc \in {"recv", "get"}
  /\ \E k \in 1 .. Len(Served.req) :
       LET m  == Message(SubSeq(Served.req, 1, k))
           cn == [Served EXCEPT !.req = Rest(Served.req, k)]
       IN IF srv.pc = "recv" THEN exec(m, cn) ELSE server_get_done(m, cn)

(* The other results of these two recv: 0 is an empty message, whose parse  *)
(* main dereferences; an error leaves the loop, the state as it was.        *)
receive_zero ==
  /\ srv.pc \in {"recv", "get"}
  /\ RecvZero(Served.req, Served.cend)
  /\ \/ (srv.pc = "recv" /\ ServerDies(conns, "message"))
     \/ (srv.pc = "get" /\ server_get_done("", Served))

(* Mutant: the state is reset when a connection is lost.                    *)
receive_error_frees ==
  /\ srv.pc \in {"recv", "get"}
  /\ RecvError(Served.req, Served.cend)
  /\ srv' = [srv EXCEPT !.pc = "accept", !.lost = TRUE, !.state = "IDLE"]
  /\ UNCHANGED conns

receive_error ==
  /\ srv.pc \in {"recv", "get"}
  /\ RecvError(Served.req, Served.cend)
  /\ srv' = [srv EXCEPT !.pc = "accept", !.lost = TRUE]
  /\ UNCHANGED conns

(* Nobody handles SIGPIPE: a second send to a client that has gone ends the *)
(* server.                                                                  *)
sigpipe ==
  /\ srv.pc \in {"recv", "get"}
  /\ Served.req # <<>>
  /\ LET m == Served.req[1]
         answers == IF srv.pc = "recv" THEN Handled(m) ELSE m = "done"
         again   == srv.pc = "recv" /\ m \in {"ls", "get"}
     IN answers /\ (Served.cend = "rst" \/ (again /\ Served.cend = "fin"))
  /\ ServerDies(conns, "sigpipe")

(* Whoever runs the server stops it.                                        *)
interrupt == srv.pc # "dead" /\ ServerDies(conns, "interrupt")

ServerStep ==
  /\ \/ accept \/ receive \/ receive_zero \/ receive_error
     \/ sigpipe \/ server_ls_vanished
  /\ UNCHANGED <<cl, disk, server_file, server_dir, asked, clean>>

Interrupt == interrupt /\ UNCHANGED <<cl, disk, server_file, server_dir, asked, clean>>
==============================================================================
