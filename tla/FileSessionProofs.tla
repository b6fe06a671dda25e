-------------------------- MODULE FileSessionProofs --------------------------
(***************************************************************************)
(* Theorems about what passes in a session of lab 7, for any number of     *)
(* clients, files, directories and commands: while every answer is read    *)
(* whole, client and server keep in step; and what get makes of a file.    *)
(***************************************************************************)
EXTENDS FileTransferProofs

------------------------------------------------------------------------------
(* The other fields of a client after these changes.                        *)
LEMMA ReadsFields ==
  ASSUME NEW s \in Client, NEW b \in Data, NEW l \in Int
  PROVE  LET t == Reads(s, b, l)
         IN t.buf = b /\ t.left = l /\ t.size = s.size /\ t.old = s.old /\ t.sync = s.sync
<1> DEFINE P == ClientPcs
           S == ClStates
           I == {0, 1}
           N == Nat
           Z == Sizes
           L == Int
           D == Data
           B == BOOLEAN
           K == ClientOf(P, S, I, N, Z, L, D, B)
           t == [s EXCEPT !.buf = b, !.left = l]
<1>1. s \in K /\ l \in L /\ b \in D
  BY ClientIs DEF AClient, Sizes
<1> HIDE DEF P, S, I, N, Z, L, D, B
<1>3. t.buf = b /\ t.left = l /\ t.size = s.size /\ t.old = s.old /\ t.sync = s.sync
  BY <1>1 DEF ClientOf
<1> QED
  BY <1>3 DEF Reads

LEMMA OpensFields ==
  ASSUME NEW s \in Client, NEW b \in Data, NEW o \in Data, NEW l \in Int
  PROVE  LET t == Opens(s, b, o, l)
         IN t.buf = b /\ t.left = l /\ t.size = s.size /\ t.old = o /\ t.sync = s.sync
<1> DEFINE P == ClientPcs
           S == ClStates
           I == {0, 1}
           N == Nat
           Z == Sizes
           L == Int
           D == Data
           B == BOOLEAN
           K == ClientOf(P, S, I, N, Z, L, D, B)
           t == [s EXCEPT !.left = l, !.buf = b, !.old = o]
<1>1. s \in K /\ l \in L /\ b \in D /\ o \in D
  BY ClientIs DEF AClient, Sizes
<1> HIDE DEF P, S, I, N, Z, L, D, B
<1>3. t.buf = b /\ t.left = l /\ t.size = s.size /\ t.old = o /\ t.sync = s.sync
  BY <1>1 DEF ClientOf
<1> QED
  BY <1>3 DEF Opens

LEMMA GoesOnFields ==
  ASSUME NEW s \in Client, NEW p \in ClientPcs, NEW st \in ClStates, NEW z \in Sizes
  PROVE  LET t == GoesOn(s, p, st, z)
         IN t.buf = s.buf /\ t.left = s.left /\ t.size = z /\ t.old = s.old /\ t.sync = s.sync
<1> DEFINE P == ClientPcs
           S == ClStates
           I == {0, 1}
           N == Nat
           Z == Sizes
           L == Int
           D == Data
           B == BOOLEAN
           K == ClientOf(P, S, I, N, Z, L, D, B)
           t == [s EXCEPT !.pc = p, !.state = st, !.size = z]
<1>1. s \in K /\ p \in P /\ st \in S /\ z \in Z
  BY ClientIs DEF AClient, Sizes
<1> HIDE DEF P, S, I, N, Z, L, D, B
<1>3. t.buf = s.buf /\ t.left = s.left /\ t.size = z /\ t.old = s.old /\ t.sync = s.sync
  BY <1>1 DEF ClientOf
<1> QED
  BY <1>3 DEF GoesOn

LEMMA FieldsKept ==
  ASSUME NEW s \in Client, NEW p \in ClientPcs, NEW st \in ClStates, NEW n, NEW y
  PROVE  /\ LET t == [s EXCEPT !.pc = p] IN
              /\ t.pc = p /\ t.state = s.state /\ t.sock = s.sock /\ t.size = s.size
              /\ t.left = s.left /\ t.buf = s.buf /\ t.old = s.old /\ t.sync = s.sync
         /\ LET t == [s EXCEPT !.pc = p, !.sync = y] IN
              /\ t.pc = p /\ t.state = s.state /\ t.sock = s.sock /\ t.sync = y
         /\ LET t == [s EXCEPT !.pc = p, !.buf = <<>>] IN
              /\ t.pc = p /\ t.state = s.state /\ t.sock = s.sock /\ t.size = s.size
              /\ t.old = s.old /\ t.sync = s.sync
<1> DEFINE P == ClientPcs
           S == ClStates
           I == {0, 1}
           N == Nat
           Z == Sizes
           L == Int
           D == Data
           B == BOOLEAN
           K == ClientOf(P, S, I, N, Z, L, D, B)
<1>1. s \in K 
  BY ClientIs DEF AClient, Sizes
<1> HIDE DEF P, S, I, N, Z, L, D, B
<1> QED
  BY <1>1 DEF ClientOf

------------------------------------------------------------------------------
(* The invariant of sessions in which every answer was read whole, and      *)
(* which no client left but by bye.                                         *)

(* A request is on its way; a request was answered; a file is being sent.   *)
Asked(m, cn, st) == cn.req = <<m>> /\ cn.rep = <<>> /\ st = "CONNECTED"
Told(cn, st) == cn.req = <<>> /\ cn.rep # <<>> /\ st = "CONNECTED"
Sending(cn, st) == cn.req = <<>> /\ st = "DOWNLOADING"

(* What the client s of the session, its connection cn and the state st of  *)
(* the server are together, command by command.                             *)
Greeted(s, cn, st) ==
  s.pc = "conn" /\ Told(cn, st) /\ Len(cn.rep) = 1 /\ cn.rep[1][1] = "hello"
Quiet(s, cn, st) ==
  /\ s.pc = "prompt" /\ s.state = "CONNECTED"
  /\ cn.req = <<>> /\ cn.rep = <<>> /\ st = "CONNECTED"
Parting(s, cn, st) == s.pc = "bye" /\ Asked("bye", cn, st)

EntriesOnly(ms) == \A i \in 1 .. Len(ms) : ms[i] = Entry
Listing(s, cn, st) ==
  /\ s.state = "CONNECTED"
  /\ \/ s.pc = "ls_ok" /\ Asked("ls", cn, st)
     \/ s.pc = "ls_ok" /\ Told(cn, st) /\ cn.rep[1] = Ok(2) /\ EntriesOnly(Tail(cn.rep))
     \/ s.pc = "ls" /\ cn.req = <<>> /\ st = "CONNECTED"

(* As many units are in the stream as the client still counts, or none: a   *)
(* file that was announced but cannot be opened.                            *)
Announced(s, cn, st) ==
  /\ s.pc = "get_ok" /\ s.state = "CONNECTED" /\ Sending(cn, st) /\ cn.rep # <<>>
  /\ \E n \in Sizes : cn.rep[1] = Header(n) /\ (Len(cn.rep) = 1 \/ Len(cn.rep) = n + 1)
Units(s, cn, st) ==
  /\ s.pc = "get_data" /\ Sending(cn, st)
  /\ Len(s.buf) < s.size => s.left = s.size - Len(s.buf)
  /\ cn.rep = <<>> \/ Len(cn.rep) = s.size - Len(s.buf)
Getting(s, cn, st) ==
  \/ s.pc = "get_ok" /\ s.state = "CONNECTED" /\ Asked("get", cn, st)
  \/ Announced(s, cn, st)
  \/ Units(s, cn, st)
  \/ s.pc = "get_done" /\ cn.req = <<"done">> /\ cn.rep = <<>> /\ st = "DOWNLOADING"
  \/ s.pc = "get_done" /\ Told(cn, st) /\ cn.rep = <<Ok(3)>>

Talk(s, cn, st) ==
  \/ Greeted(s, cn, st) \/ Quiet(s, cn, st) \/ Parting(s, cn, st)
  \/ Listing(s, cn, st) \/ Getting(s, cn, st)

(* The session has a client, which is in step with the server, and so has   *)
(* every connection that waits for one.                                     *)
Awaited(k) == \E c \in Clients : cl[c].pc = "conn" /\ cl[c].sock = k
Lockstep ==
  /\ srv.pc # "dead" /\ ~srv.lost
  /\ \A k \in DOMAIN conns : k > srv.holder => Awaited(k)
  /\ srv.state # "IDLE" =>
       \E c \in Clients : cl[c].sock = srv.holder /\ Talk(cl[c], Sock(c), srv.state)

(* A server that has ended was ended from outside, or by its own listing.   *)
NobodysFault == ~srv.lost /\ srv.cause \in {"interrupt", "listing"}
CleanInv == clean => IF srv.pc = "dead" THEN NobodysFault ELSE Lockstep

------------------------------------------------------------------------------
(* Reading the invariant.                                                   *)

LEMMA TalkIs ==
  ASSUME NEW s, NEW cn, NEW st, Talk(s, cn, st)
  PROVE  /\ s.pc = "conn" => Greeted(s, cn, st)
         /\ s.pc = "prompt" => Quiet(s, cn, st)
         /\ s.pc = "bye" => Parting(s, cn, st)
         /\ s.pc \in {"ls_ok", "ls"} => Listing(s, cn, st)
         /\ s.pc \in {"get_ok", "get_data", "get_done"} => Getting(s, cn, st)
         /\ s.pc \in {"conn", "prompt", "bye", "ls_ok", "ls", "get_ok", "get_data", "get_done"}
         /\ s.pc = "prompt" => s.state = "CONNECTED"
BY DEF Talk, Greeted, Quiet, Parting, Listing, Getting, Announced, Units

(* Whoever holds the session is the client in step with the server.         *)
LEMMA InStep ==
  ASSUME IInv, Lockstep, NEW c \in Clients
  PROVE  /\ cl[c].sock # 0 /\ cl[c].sock = srv.holder /\ srv.state # "IDLE" =>
              Talk(cl[c], Sock(c), srv.state)
         /\ Active(cl[c]) => Holds(c) /\ Sock(c).cend = "open"
         /\ cl[c].pc = "conn" =>
              /\ Sock(c).cend = "open"
              /\ cl[c].sock <= srv.holder => Holds(c)
              /\ cl[c].sock > srv.holder => Sock(c).rep = <<>> /\ Sock(c).send = "open"
         /\ cl[c].pc = "bye" =>
              Sock(c).cend = "open" /\ (Sock(c).rep = <<>> => Holds(c))
<1>1. TypeInv /\ OwnSockets /\ SessionOK
  BY DEF IInv, Lockstep
<1>2. ASSUME cl[c].sock # 0, cl[c].sock = srv.holder, srv.state # "IDLE"
      PROVE  Talk(cl[c], Sock(c), srv.state)
  <2>1. PICK d \in Clients : cl[d].sock = srv.holder /\ Talk(cl[d], Sock(d), srv.state)
    BY <1>2 DEF Lockstep
  <2>2. d = c
    BY <1>1, <1>2, <2>1 DEF OwnSockets
  <2> QED
    BY <2>1, <2>2
<1>3. ClientOK(c)
  BY <1>1 DEF SessionOK
<1>4. Active(cl[c]) => Holds(c) /\ Sock(c).cend = "open"
  BY <1>3 DEF ClientOK, InsideOK, Active
<1>5. ASSUME cl[c].pc = "conn"
      PROVE  /\ Sock(c).cend = "open"
             /\ cl[c].sock <= srv.holder => Holds(c)
             /\ cl[c].sock > srv.holder => Sock(c).rep = <<>> /\ Sock(c).send = "open"
  <2>1. ConnOK(c)
    BY <1>3, <1>5 DEF ClientOK
  <2>2. cl[c].sock \in DOMAIN conns
    BY <1>1, <1>5, SockIs DEF TypeInv, ClientsOK
  <2>3. cl[c].sock > srv.holder => Unanswered(cl[c].sock)
    BY <1>1, <2>2 DEF SessionOK, WaitingOK
  <2> QED
    BY <2>1, <2>3 DEF ConnOK, Unanswered, Sock
<1>6. cl[c].pc = "bye" => Sock(c).cend = "open" /\ (Sock(c).rep = <<>> => Holds(c))
  BY <1>3 DEF ClientOK, ByeOK
<1> QED
  BY <1>2, <1>4, <1>5, <1>6

(* So it is never told that the server has gone.                            *)
LEMMA StillOpen ==
  ASSUME IInv, Lockstep, NEW c \in Clients,
         Active(cl[c]) \/ cl[c].pc \in {"conn", "bye"}
  PROVE  ~Zero(c) /\ ~Error(c)
<1>1. cl[c].sock \in Nat /\ srv.holder \in Nat
  BY SrvIs DEF IInv, TypeInv, ClientsOK, Client
<1>2. Sock(c).rep = <<>> => Sock(c).send = "open"
  BY <1>1, InStep DEF Holds
<1> QED
  BY <1>2 DEF Zero, Error, RecvZero, RecvError

(* A session in which a client is at work is its own.                       *)
LEMMA AtWork ==
  ASSUME IInv, Lockstep, NEW c \in Clients, Active(cl[c])
  PROVE  /\ Talk(cl[c], Sock(c), srv.state) /\ cl[c].sock = srv.holder
         /\ srv.state # "IDLE" /\ cl[c].sock # 0 /\ Sock(c).send = "open"
BY InStep, ActiveIs DEF IInv, Holds

(* A step of a client on its connection.                                    *)
LEMMA MovesLockstep ==
  ASSUME IInv, Lockstep, UNCHANGED srv, NEW c \in Clients, NEW s, NEW x,
         Moves(c, s, x), s.sock = cl[c].sock,
         cl[c].pc = "conn" => cl[c].sock <= srv.holder,
         cl[c].sock = srv.holder /\ srv.state # "IDLE" => Talk(s, x, srv.state)
  PROVE  Lockstep'
<1>1. TypeInv /\ OwnSockets
  BY DEF IInv
<1>2. /\ DOMAIN conns' = DOMAIN conns
      /\ cl[c].sock \in DOMAIN conns /\ conns'[cl[c].sock] = x
      /\ \A k \in DOMAIN conns : k # cl[c].sock => conns'[k] = conns[k]
      /\ cl'[c] = s /\ \A d \in Clients \ {c} : cl'[d] = cl[d]
  BY <1>1, MovesIs
<1>3. cl[c].sock # 0
  BY DEF Moves
<1>4. ASSUME NEW k \in DOMAIN conns', k > srv'.holder PROVE Awaited(k)'
  <2>1. PICK d \in Clients : cl[d].pc = "conn" /\ cl[d].sock = k
    BY <1>2, <1>4 DEF Lockstep, Awaited
  <2>2. d # c
    <3>1. srv.holder \in Nat /\ k \in Nat
      BY <1>1, <1>2, SrvIs
    <3> QED
      BY <1>4, <2>1, <3>1
  <2> QED
    BY <1>2, <2>1, <2>2 DEF Awaited
<1>5. ASSUME srv'.state # "IDLE"
      PROVE  \E d \in Clients : cl'[d].sock = srv'.holder /\ Talk(cl'[d], Sock(d)', srv'.state)
  <2>1. PICK d \in Clients : cl[d].sock = srv.holder /\ Talk(cl[d], Sock(d), srv.state)
    BY <1>5 DEF Lockstep
  <2>2. CASE d = c
    <3>1. Sock(c)' = x
      BY <1>2 DEF Sock
    <3> QED
      BY <1>2, <1>5, <2>1, <2>2, <3>1
  <2>3. CASE d # c
    <3>1. cl'[d] = cl[d] /\ cl[d].sock # cl[c].sock
      BY <1>1, <1>2, <1>3, <2>3 DEF OwnSockets
    <3>2. cl[d].sock \in DOMAIN conns
      <4>1. cl[d].sock # 0
        BY <1>1, <2>1, TalkIs DEF TypeInv, ClientsOK
      <4> QED
        BY <1>1, <4>1, SockIs
    <3>3. Sock(d)' = Sock(d)
      BY <1>2, <3>1, <3>2 DEF Sock
    <3> QED
      BY <2>1, <3>1, <3>3
  <2> QED
    BY <2>2, <2>3
<1> QED
  BY <1>4, <1>5 DEF Lockstep

------------------------------------------------------------------------------
(* A step of a client keeps the two in step.                                *)

(* What is left when a stream of one piece, or all of one, was read.        *)
LEMMA RestEmpty ==
  ASSUME NEW S, NEW s \in Seq(S), NEW k \in 1 .. Len(s), k = Len(s)
  PROVE  Rest(s, k) = <<>>
BY RestIs, EmptySeq

(* A client's return to its prompt, quiet again.                            *)
LEMMA QuietAgain ==
  ASSUME IInv, Lockstep, UNCHANGED srv, NEW c \in Clients, Active(cl[c]) \/ cl[c].pc = "conn",
         cl[c].pc = "conn" => cl[c].sock <= srv.holder,
         srv.state = "CONNECTED", Sock(c).req = <<>>,
         NEW k \in Recv(Sock(c).rep), k = Len(Sock(c).rep), SetConn(c, Drop(c, k)),
         NEW s \in Client, s.pc = "prompt", s.state = "CONNECTED", s.sock = cl[c].sock,
         SetClient(c, s)
  PROVE  Lockstep'
<1>1. TypeInv /\ cl[c].sock # 0
  BY ActiveIs DEF IInv, TypeInv, ClientsOK
<1>2. /\ k \in 1 .. Len(Sock(c).rep) /\ Sock(c).rep \in Seq(Pieces)
      /\ Drop(c, k) \in Conn /\ Drop(c, k).req = Sock(c).req
      /\ Drop(c, k).rep = Rest(Sock(c).rep, k)
  BY <1>1, DropIs, SockIs
<1>3. Drop(c, k).rep = <<>>
  BY <1>2, RestEmpty
<1>4. Moves(c, s, Drop(c, k))
  BY <1>1, <1>2 DEF Moves, SetConn, SetClient
<1>5. Talk(s, Drop(c, k), srv.state)
  BY <1>2, <1>3 DEF Talk, Quiet
<1> QED
  BY <1>4, <1>5, MovesLockstep

LEMMA conn_replyClean ==
  ASSUME IInv, Lockstep, UNCHANGED srv, NEW c \in Clients, conn_reply(c)
  PROVE  Lockstep'
<1> DEFINE s == [Prompt(c) EXCEPT !.state = "CONNECTED", !.id = 1]
<1>1. TypeInv /\ cl[c].pc = "conn" /\ cl[c].sock # 0 /\ cl[c] \in Client
  BY DEF IInv, conn_reply, TypeInv, ClientsOK
<1>2. PICK k \in Recv(Sock(c).rep) : SetConn(c, Drop(c, k))
  BY DEF conn_reply
<1>3. /\ s \in Client /\ s.pc = "prompt" /\ s.state = "CONNECTED"
      /\ s.sock = cl[c].sock
  BY <1>1 DEF Client, Prompt, ClStates
<1>4. Sock(c).rep[1][1] = "hello" => SetClient(c, s)
  BY DEF conn_reply
<1> HIDE DEF s
<1>5. k \in 1 .. Len(Sock(c).rep) /\ Sock(c).rep # <<>> /\ Sock(c).rep \in Seq(Pieces)
  BY <1>1, DropIs, SockIs
<1>6. cl[c].sock \in Nat /\ srv.holder \in Nat
  BY <1>1, SrvIs DEF Client
<1>7. cl[c].sock <= srv.holder /\ Holds(c)
  BY <1>1, <1>5, <1>6, InStep
<1>8. Greeted(cl[c], Sock(c), srv.state)
  BY <1>1, <1>7, InStep, TalkIs DEF Holds
<1>9. k = Len(Sock(c).rep)
  BY <1>5, <1>8 DEF Greeted
<1>10. SetClient(c, s)
  BY <1>4, <1>8 DEF Greeted
<1> QED
  BY <1>1, <1>2, <1>3, <1>7, <1>8, <1>9, <1>10, QuietAgain DEF Greeted, Told

(* A request in a quiet session.                                            *)
LEMMA AsksClean ==
  ASSUME IInv, Lockstep, UNCHANGED srv, NEW c \in Clients, Active(cl[c]),
         NEW m \in Requests, SetConn(c, Request(Sock(c), m)),
         NEW s \in Client, s.sock = cl[c].sock, SetClient(c, s),
         Sock(c).req = <<>> /\ Sock(c).rep = <<>> =>
           \A x \in Conn : x.req = <<m>> /\ x.rep = <<>> => Talk(s, x, srv.state),
         Sock(c).req = <<>> /\ Sock(c).rep = <<>>
  PROVE  Lockstep'
<1>1. TypeInv /\ cl[c].sock # 0 /\ Sock(c).send = "open" /\ Sock(c) \in Conn
  BY AtWork, SockIs DEF IInv
<1> DEFINE x == Request(Sock(c), m)
<1>2. x \in Conn /\ x.rep = <<>> /\ x.req = Append(<<>>, m)
  BY <1>1, RequestIs DEF Conn
<1>3. Append(<<>>, m) = <<m>>
  OBVIOUS
<1>4. conns' = [conns EXCEPT ![cl[c].sock] = x]
  BY DEF SetConn
<1> HIDE DEF x
<1>5. Moves(c, s, x)
  BY <1>1, <1>2, <1>4 DEF Moves, SetClient
<1>6. cl[c].pc # "conn"
  BY DEF Active
<1> QED
  BY <1>2, <1>3, <1>5, <1>6, MovesLockstep

LEMMA QuietPrompt ==
  ASSUME IInv, Lockstep, NEW c \in Clients, cl[c].pc = "prompt", cl[c].state = "CONNECTED"
  PROVE  Active(cl[c]) /\ Quiet(cl[c], Sock(c), srv.state)
<1>1. Active(cl[c])
  BY DEF Active
<1> QED
  BY <1>1, AtWork, TalkIs

LEMMA byeClean ==
  ASSUME IInv, Lockstep, UNCHANGED srv, NEW c \in Clients, bye(c)
  PROVE  Lockstep'
<1> DEFINE s == [cl[c] EXCEPT !.pc = "bye"]
<1>1. TypeInv /\ cl[c].pc = "prompt" /\ cl[c].state = "CONNECTED"
  BY DEF IInv, bye, Types
<1>2. Active(cl[c]) /\ Quiet(cl[c], Sock(c), srv.state)
  BY <1>1, QuietPrompt
<1>3. s \in Client /\ s.pc = "bye" /\ s.sock = cl[c].sock
  BY <1>1, WaitIs
<1>4. SetClient(c, s) /\ SetConn(c, Request(Sock(c), "bye")) /\ "bye" \in Requests
  BY DEF bye, Requests
<1> HIDE DEF s
<1>5. \A x \in Conn : x.req = <<"bye">> /\ x.rep = <<>> => Talk(s, x, srv.state)
  BY <1>2, <1>3 DEF Talk, Parting, Asked, Quiet
<1> QED
  BY <1>2, <1>3, <1>4, <1>5, AsksClean DEF Quiet

LEMMA lsClean ==
  ASSUME IInv, Lockstep, UNCHANGED srv, NEW c \in Clients, ls(c)
  PROVE  Lockstep'
<1> DEFINE s == [cl[c] EXCEPT !.pc = "ls_ok"]
<1>1. TypeInv /\ cl[c].pc = "prompt" /\ cl[c].state = "CONNECTED"
  BY DEF IInv, ls, Types
<1>2. Active(cl[c]) /\ Quiet(cl[c], Sock(c), srv.state)
  BY <1>1, QuietPrompt
<1>3. s \in Client /\ s.pc = "ls_ok" /\ s.state = cl[c].state /\ s.sock = cl[c].sock
  BY <1>1, WaitIs
<1>4. SetClient(c, s) /\ SetConn(c, Request(Sock(c), "ls")) /\ "ls" \in Requests
  BY DEF ls, Requests
<1> HIDE DEF s
<1>5. \A x \in Conn : x.req = <<"ls">> /\ x.rep = <<>> => Talk(s, x, srv.state)
  BY <1>1, <1>2, <1>3 DEF Talk, Listing, Asked, Quiet
<1> QED
  BY <1>2, <1>3, <1>4, <1>5, AsksClean DEF Quiet

(* What get asks for, whatever is remembered of the state it is typed in.   *)
LEMMA GetIs ==
  ASSUME TypeInv, NEW c \in Clients, get(c)
  PROVE  \E s \in Client :
           /\ s.pc = "get_ok" /\ s.state = "CONNECTED" /\ s.sock = cl[c].sock
           /\ s.sync = (Sock(c).rep = <<>> /\ Sock(c).req = <<>> /\ srv.state = "CONNECTED")
           /\ SetClient(c, s)
<1> DEFINE sync == Sock(c).rep = <<>> /\ Sock(c).req = <<>> /\ srv.state = "CONNECTED"
           s == [cl[c] EXCEPT !.pc = "get_ok", !.sync = sync]
<1>1. cl[c].state = "CONNECTED" /\ cl[c] \in Client
  BY ActiveIs DEF get, Types
<1>2. sync \in BOOLEAN
  OBVIOUS
<1>3. SetClient(c, s)
  BY DEF get
<1> HIDE DEF sync
<1>4. s \in Client
  BY <1>1, <1>2 DEF Client
<1>5. s.pc = "get_ok" /\ s.state = cl[c].state /\ s.sock = cl[c].sock /\ s.sync = sync
  <2>1. PICK v \in Client, p \in ClientPcs : v = cl[c] /\ p = "get_ok"
    BY <1>1 DEF ClientPcs
  <2> QED
    BY <2>1, FieldsKept
<1> HIDE DEF s
<1> QED
  BY <1>1, <1>3, <1>4, <1>5 DEF sync

LEMMA getClean ==
  ASSUME IInv, Lockstep, UNCHANGED srv, NEW c \in Clients, get(c)
  PROVE  Lockstep'
<1>1. TypeInv /\ cl[c].pc = "prompt" /\ cl[c].state = "CONNECTED"
  BY DEF IInv, get, Types
<1>2. Active(cl[c]) /\ Quiet(cl[c], Sock(c), srv.state)
  BY <1>1, QuietPrompt
<1>3. PICK s \in Client : /\ s.pc = "get_ok" /\ s.state = "CONNECTED"
                          /\ s.sock = cl[c].sock /\ SetClient(c, s)
  BY <1>1, GetIs
<1>4. SetConn(c, Request(Sock(c), "get")) /\ "get" \in Requests
  BY DEF get, Requests
<1>5. \A x \in Conn : x.req = <<"get">> /\ x.rep = <<>> => Talk(s, x, srv.state)
  BY <1>2, <1>3 DEF Talk, Getting, Asked, Quiet
<1> QED
  BY <1>2, <1>3, <1>4, <1>5, AsksClean DEF Quiet

(* conn; there is no end of an answer that a session in step would meet.    *)
LEMMA connClean ==
  ASSUME IInv, Lockstep, UNCHANGED srv, NEW c \in Clients, conn(c)
  PROVE  Lockstep'
<1>1. TypeInv /\ Len(conns) \in Nat /\ DOMAIN conns = 1 .. Len(conns)
  BY SrvIs DEF IInv
<1>2. srv.pc # "dead" /\ cl[c].pc = "prompt" /\ cl[c].state = "IDLE"
  BY DEF Lockstep, conn, Types
<1>3. Begins(c)
  <2> DEFINE s == [cl[c] EXCEPT !.pc = "conn", !.sock = Len(conns) + 1]
  <2>1. s \in Client /\ s.pc = "conn" /\ s.state = "IDLE" /\ s.sock = Len(conns) + 1
    <3>1. Len(conns) + 1 \in Nat /\ cl[c] \in Client
      BY <1>1, ActiveIs
    <3>2. s \in Client
      BY <3>1 DEF Client
    <3>3. s.pc = "conn" /\ s.state = cl[c].state /\ s.sock = Len(conns) + 1
      BY <3>1 DEF Client
    <3> QED
      BY <1>2, <3>2, <3>3
  <2>2. conns' = Append(conns, NewConn) /\ cl' = [cl EXCEPT ![c] = s]
    BY <1>2 DEF conn, SetClient
  <2> HIDE DEF s
  <2> QED
    BY <1>2, <2>1, <2>2 DEF Begins
<1>4. /\ DOMAIN conns' = 1 .. Len(conns) + 1
      /\ \A k \in DOMAIN conns : conns'[k] = conns[k]
      /\ \A d \in Clients \ {c} : cl'[d] = cl[d]
      /\ cl'[c].pc = "conn" /\ cl'[c].sock = Len(conns) + 1
  BY <1>1, <1>3, BeginsIs
<1>5. ASSUME NEW k \in DOMAIN conns', k > srv'.holder PROVE Awaited(k)'
  <2>1. CASE k = Len(conns) + 1
    BY <1>4, <2>1 DEF Awaited
  <2>2. CASE k # Len(conns) + 1
    <3>1. k \in DOMAIN conns
      BY <1>1, <1>4, <2>2
    <3>2. PICK d \in Clients : cl[d].pc = "conn" /\ cl[d].sock = k
      BY <1>5, <3>1 DEF Lockstep, Awaited
    <3> QED
      BY <1>2, <1>4, <3>2 DEF Awaited
  <2> QED
    BY <2>1, <2>2
<1>6. ASSUME srv'.state # "IDLE"
      PROVE  \E d \in Clients : cl'[d].sock = srv'.holder /\ Talk(cl'[d], Sock(d)', srv'.state)
  <2>1. PICK d \in Clients : cl[d].sock = srv.holder /\ Talk(cl[d], Sock(d), srv.state)
    BY <1>6 DEF Lockstep
  <2>2. d # c /\ cl[d].sock # 0
    BY <1>1, <1>2, <2>1, TalkIs DEF TypeInv, ClientsOK
  <2>3. cl'[d] = cl[d] /\ cl[d].sock \in DOMAIN conns
    BY <1>1, <1>4, <2>2, SockIs
  <2>4. Sock(d)' = Sock(d)
    BY <1>4, <2>3 DEF Sock
  <2> QED
    BY <2>1, <2>3, <2>4
<1> QED
  BY <1>5, <1>6 DEF Lockstep

LEMMA conn_failsClean ==
  ASSUME IInv, Lockstep, NEW c \in Clients
  PROVE  ~conn_fails(c)
BY StillOpen DEF conn_fails

LEMMA recv_errorClean ==
  ASSUME IInv, Lockstep, NEW c \in Clients
  PROVE  ~recv_error(c)
BY StillOpen, ActiveIs DEF recv_error, IInv

LEMMA bye_replyClean ==
  ASSUME IInv, Lockstep, UNCHANGED srv, NEW c \in Clients, bye_reply(c)
  PROVE  Lockstep'
<1> DEFINE s == finish(c)
<1>1. /\ TypeInv /\ cl[c].pc = "bye" /\ cl[c].sock # 0 /\ Sock(c) \in Conn
      /\ cl[c].state # "IDLE"
  BY ActiveIs, SockIs DEF bye_reply, IInv
<1>2. s \in Client /\ s.sock = cl[c].sock
  BY <1>1, ActiveIs, ZenonT(40) DEF finish, Prompt, Client, ClStates
<1>3. PICK k \in Recv(Sock(c).rep) : SetConn(c, CloseClient(Drop(c, k)))
  BY <1>1, StillOpen DEF bye_reply
<1>4. CloseClient(Drop(c, k)) \in Conn /\ Sock(c).rep # <<>>
  BY <1>1, DropIs, CloseClientIs DEF Conn
<1>5. Moves(c, s, CloseClient(Drop(c, k)))
  BY <1>1, <1>2, <1>3, <1>4 DEF Moves, SetConn, SetClient, bye_reply
<1> HIDE DEF s
<1>6. ~(cl[c].sock = srv.holder /\ srv.state # "IDLE")
  <2> SUFFICES ASSUME cl[c].sock = srv.holder, srv.state # "IDLE" PROVE FALSE
    OBVIOUS
  <2>1. Parting(cl[c], Sock(c), srv.state)
    BY <1>1, InStep, TalkIs
  <2> QED
    BY <1>4, <2>1 DEF Parting, Asked
<1>7. cl[c].pc # "conn"
  BY <1>1
<1> QED
  BY <1>2, <1>5, <1>6, <1>7, MovesLockstep

(* ls.                                                                      *)
LEMMA ls_okClean ==
  ASSUME IInv, Lockstep, UNCHANGED srv, NEW c \in Clients, ls_ok(c)
  PROVE  Lockstep'
<1>1. TypeInv /\ cl[c].pc = "ls_ok" /\ Active(cl[c])
  BY ActiveIs DEF IInv, ls_ok
<1>2. Listing(cl[c], Sock(c), srv.state) /\ cl[c].sock # 0
  BY <1>1, AtWork, TalkIs
<1>3. Sock(c).rep # <<>> /\ Sock(c).rep \in Seq(Pieces)
  BY <1>1, <1>2, StillOpen, SockIs DEF ls_ok
<1>4. /\ Told(Sock(c), srv.state) /\ Sock(c).rep[1] = Ok(2) /\ EntriesOnly(Tail(Sock(c).rep))
      /\ cl[c].state = "CONNECTED"
  BY <1>1, <1>2, <1>3 DEF Listing, Asked
<1>5. SaysOk(Sock(c).rep[1]) /\ Ok(2)[1] = "ok"
  BY <1>4 DEF SaysOk, Ok
<1>6. Len(Sock(c).rep) > 1 => IsEntry(Sock(c).rep[2])
  <2> SUFFICES ASSUME Len(Sock(c).rep) > 1 PROVE IsEntry(Sock(c).rep[2])
    OBVIOUS
  <2>1. Len(Tail(Sock(c).rep)) >= 1 /\ Tail(Sock(c).rep)[1] = Sock(c).rep[2]
    BY <1>3
  <2>2. PICK ms : ms = Tail(Sock(c).rep) /\ EntriesOnly(ms)
    BY <1>4
  <2>3. 1 \in 1 .. Len(ms) /\ ms[1] = Sock(c).rep[2]
    <3>1. Len(ms) \in Nat
      BY <1>3, <2>2
    <3> QED
      BY <2>1, <2>2, <3>1
  <2>4. Sock(c).rep[2] = Entry
    BY <2>2, <2>3 DEF EntriesOnly
  <2> QED
    BY <2>4 DEF IsEntry, Entry
<1>7. AfterOk(Sock(c).rep) = {Tail(Sock(c).rep)}
  BY <1>4, <1>5, <1>6 DEF AfterOk
<1> DEFINE x == [Sock(c) EXCEPT !.rep = Tail(Sock(c).rep)]
           s == [cl[c] EXCEPT !.pc = "ls"]
<1>8. SetConn(c, x) /\ SetClient(c, s)
  BY <1>1, <1>5, <1>7, StillOpen DEF ls_ok
<1>9. x \in Conn /\ x.req = Sock(c).req
  <2>1. Tail(Sock(c).rep) \in Seq(Pieces)
    BY <1>3, HeadTailProperties
  <2> QED
    BY <1>1, <1>2, <2>1, LeftIs
<1>10. s \in Client /\ s.pc = "ls" /\ s.state = cl[c].state /\ s.sock = cl[c].sock
  BY <1>1, WaitIs
<1> HIDE DEF x, s
<1>11. Moves(c, s, x)
  BY <1>2, <1>8, <1>9, <1>10 DEF Moves, SetConn, SetClient
<1>12. Talk(s, x, srv.state)
  BY <1>4, <1>9, <1>10 DEF Talk, Listing, Told
<1> QED
  BY <1>1, <1>10, <1>11, <1>12, MovesLockstep

LEMMA ls_listingClean ==
  ASSUME IInv, Lockstep, UNCHANGED srv, NEW c \in Clients, ls_listing(c), clean'
  PROVE  Lockstep'
<1>1. TypeInv /\ cl[c].pc = "ls" /\ Active(cl[c])
  BY ActiveIs DEF IInv, ls_listing
<1>2. Listing(cl[c], Sock(c), srv.state)
  BY <1>1, AtWork, TalkIs
<1>3. PICK k \in Recv(Sock(c).rep) : SetConn(c, Drop(c, k)) /\ k = Len(Sock(c).rep)
  BY <1>1, StillOpen DEF ls_listing
<1>4. Prompt(c) \in Client /\ Prompt(c).pc = "prompt"
      /\ Prompt(c).state = cl[c].state /\ Prompt(c).sock = cl[c].sock
  BY <1>1, PromptIs
<1>5. SetClient(c, Prompt(c))
  BY DEF ls_listing
<1>6. /\ srv.state = "CONNECTED" /\ Sock(c).req = <<>> /\ cl[c].state = "CONNECTED"
  BY <1>1, <1>2 DEF Listing
<1> QED
  BY <1>1, <1>3, <1>4, <1>5, <1>6, QuietAgain

(* What get does when it has read a size, the announced one or another, and *)
(* at each recv of the file.                                                *)
LEMMA DownloadsIs ==
  ASSUME TypeInv, NEW c \in Clients, cl[c].pc = "get_ok", NEW n \in Sizes,
         NEW x, Downloads(c, n, x)
  PROVE  /\ SetConn(c, x) /\ disk' = [disk EXCEPT ![c].tmp = Opened(disk[c].tmp)]
         /\ \E s \in Client :
              /\ SetClient(c, s) /\ s.pc = "get_data" /\ s.state = "DOWNLOADING"
              /\ s.sock = cl[c].sock
              /\ s.size = n /\ s.left = n /\ s.buf = <<>> /\ s.old = Opened(disk[c].tmp)
              /\ s.sync = cl[c].sync
<1> DEFINE tmp == Opened(disk[c].tmp)
           s == [cl[c] EXCEPT !.pc = "get_data", !.state = "DOWNLOADING",
                              !.size = n, !.left = n, !.buf = <<>>, !.old = tmp]
<1>1. cl[c] \in Client
  BY ActiveIs
<1>2. tmp \in Data /\ <<>> \in Data
  BY EmptySeq DEF TypeInv, DiskOK, Opened, Contents, Data
<1>3. /\ SetConn(c, x) /\ SetClient(c, s) /\ disk' = [disk EXCEPT ![c].tmp = tmp]
  BY DEF Downloads
<1> HIDE DEF tmp
<1> DEFINE y == GoesOn(cl[c], "get_data", "DOWNLOADING", n)
           u == Opens(y, <<>>, tmp, n)
<1>4. /\ y \in Client
      /\ y.pc = "get_data" /\ y.state = "DOWNLOADING" /\ y.sock = cl[c].sock
      /\ y.size = n /\ y.sync = cl[c].sync
  <2>1. PICK p \in ClientPcs, st \in ClStates : p = "get_data" /\ st = "DOWNLOADING"
    BY DEF ClientPcs, ClStates
  <2>2. PICK v \in Client : v = cl[c]
    BY <1>1
  <2>3. LET t == GoesOn(v, p, st, n)
        IN t \in Client /\ t.pc = p /\ t.state = st /\ t.sock = v.sock
    BY ClientGoesOn
  <2>4. LET t == GoesOn(v, p, st, n) IN t.size = n /\ t.sync = v.sync
    BY GoesOnFields
  <2> QED
    BY <2>1, <2>2, <2>3, <2>4
<1>5. s = u
  BY DEF GoesOn, Opens
<1> HIDE DEF y
<1>6. /\ u \in Client /\ u.pc = y.pc /\ u.state = y.state /\ u.sock = y.sock
      /\ u.buf = <<>> /\ u.left = n /\ u.size = y.size /\ u.old = tmp /\ u.sync = y.sync
  <2>1. PICK v \in Client, b \in Data, l \in Int : v = y /\ b = <<>> /\ l = n
    BY <1>2, <1>4 DEF Sizes
  <2>2. LET t == Opens(v, b, tmp, l)
        IN t \in Client /\ t.pc = v.pc /\ t.state = v.state /\ t.sock = v.sock
    BY <1>2, ClientOpens
  <2>3. LET t == Opens(v, b, tmp, l)
        IN t.buf = b /\ t.left = l /\ t.size = v.size /\ t.old = tmp /\ t.sync = v.sync
    BY <1>2, OpensFields
  <2> QED
    BY <2>1, <2>2, <2>3
<1> HIDE DEF s, u
<1> QED
  BY <1>3, <1>4, <1>5, <1>6 DEF tmp

LEMMA GetOkIs ==
  ASSUME TypeInv, NEW c \in Clients, get_ok(c)
  PROVE  /\ cl[c].pc = "get_ok"
         /\ \E n \in Sizes :
              /\ Downloads(c, n, Drop(c, 1))
              /\ Sock(c).rep # <<>> /\ Sock(c).rep[1] = Header(n)
              /\ Drop(c, 1) \in Conn /\ Drop(c, 1).req = Sock(c).req
              /\ Drop(c, 1).rep = Rest(Sock(c).rep, 1)
<1> DEFINE m == Sock(c).rep[1]
<1>1. cl[c].pc = "get_ok" /\ cl[c].sock # 0 /\ Downloads(c, m[2], Drop(c, 1))
  BY ActiveIs DEF get_ok
<1>2. Sock(c).rep \in Seq(Pieces) /\ Sock(c).rep # <<>> /\ m[1] = "header"
  BY <1>1, SockIs DEF get_ok
<1>3. m \in Pieces
  BY <1>2
<1>4. PICK n \in Sizes : n = m[2] /\ m = Header(n)
  BY <1>2, <1>3 DEF Sizes, Pieces, Bye, Entry, Junk, Ok, Header, Unit, Hello
<1>5. Rest(Sock(c).rep, 1) \in Seq(Pieces)
  BY <1>2, RestIs
<1>6. /\ Drop(c, 1) \in Conn
      /\ Drop(c, 1).req = Sock(c).req /\ Drop(c, 1).rep = Rest(Sock(c).rep, 1)
  <2>1. Drop(c, 1) = [Sock(c) EXCEPT !.rep = Rest(Sock(c).rep, 1)]
    BY DEF Drop
  <2>2. /\ [Sock(c) EXCEPT !.rep = Rest(Sock(c).rep, 1)] \in Conn
        /\ [Sock(c) EXCEPT !.rep = Rest(Sock(c).rep, 1)].req = Sock(c).req
    BY <1>1, <1>5, LeftIs
  <2>3. [Sock(c) EXCEPT !.rep = Rest(Sock(c).rep, 1)].rep = Rest(Sock(c).rep, 1)
    BY <1>1, SockIs DEF Conn, ConnOf
  <2> QED
    BY <2>1, <2>2, <2>3
<1> HIDE DEF m
<1> QED
  BY <1>1, <1>2, <1>4, <1>6 DEF m

(* A recv counts as n bytes, whatever it brought.                           *)
Counted(c) == IF cl[c].left <= Buf THEN cl[c].left ELSE Buf
Receives(c, s, p) ==
  /\ SetClient(c, s) /\ s \in Client
  /\ s.pc = "get_data" /\ s.state = cl[c].state /\ s.sock = cl[c].sock
  /\ s.size = cl[c].size /\ s.old = cl[c].old /\ s.sync = cl[c].sync
  /\ s.left = cl[c].left - Buf /\ s.buf = cl[c].buf \o Written(p, Counted(c))
LEMMA GetDataIs ==
  ASSUME TypeInv, NEW c \in Clients, get_data(c)
  PROVE  /\ cl[c].pc = "get_data" /\ Len(cl[c].buf) < cl[c].size
         /\ \/ \E s \in Client, k \in Recv(Sock(c).rep) :
                 /\ Receives(c, s, SubSeq(Sock(c).rep, 1, k))
                 /\ SetConn(c, Drop(c, k)) /\ clean' = (clean /\ k = Counted(c))
            \/ \E s \in Client : Receives(c, s, <<>>) /\ Zero(c) /\ UNCHANGED <<conns, clean>>
<1> DEFINE n == Min({cl[c].left, Buf})
           S(p) == [cl[c] EXCEPT !.buf = @ \o Written(p, n), !.left = @ - Buf]
<1>1. cl[c].sock # 0 /\ cl[c] \in Client /\ cl[c].pc = "get_data"
  BY ActiveIs DEF get_data
<1>2. cl[c].left \in Int /\ Buf \in Int /\ cl[c].buf \in Data
  BY <1>1, Bounds DEF Client, Data
<1>3. n = Counted(c) /\ n \in Int
  <2>1. \E x \in {cl[c].left, Buf} : \A y \in {cl[c].left, Buf} : x <= y
    BY <1>2
  <2>2. n \in {cl[c].left, Buf} /\ \A y \in {cl[c].left, Buf} : n <= y
    BY <2>1 DEF Min
  <2> HIDE DEF n
  <2> QED
    BY <1>2, <2>2 DEF Counted
<1>4. Sock(c).rep \in Seq(Pieces)
  BY <1>1, SockIs
<1>5. \/ \E k \in Recv(Sock(c).rep) :
           /\ SetClient(c, S(SubSeq(Sock(c).rep, 1, k)))
           /\ SetConn(c, Drop(c, k)) /\ clean' = (clean /\ k = n)
      \/ SetClient(c, S(<<>>)) /\ Zero(c) /\ UNCHANGED <<conns, clean>>
  BY DEF get_data
<1> HIDE DEF n
<1>6. ASSUME NEW p \in Seq(Pieces), SetClient(c, S(p)) PROVE Receives(c, S(p), p)
  <2>1. Written(p, n) \in Data
    BY <1>3, WrittenIs
  <2>2. PICK b \in Data, l \in Int, v \in Client :
          b = cl[c].buf \o Written(p, n) /\ l = cl[c].left - Buf /\ v = cl[c]
    <3>1. cl[c].buf \o Written(p, n) \in Data
      BY <1>2, <2>1, ConcatProperties DEF Data
    <3>2. cl[c].left - Buf \in Int
      BY <1>2
    <3> HIDE DEF S
    <3> QED
      BY <1>1, <3>1, <3>2
  <2>3. S(p) = Reads(v, b, l)
    BY <2>2 DEF Reads
  <2>4. LET t == Reads(v, b, l)
        IN t \in Client /\ t.pc = v.pc /\ t.state = v.state /\ t.sock = v.sock
    BY ClientReads
  <2>5. LET t == Reads(v, b, l)
        IN t.buf = b /\ t.left = l /\ t.size = v.size /\ t.old = v.old /\ t.sync = v.sync
    BY ReadsFields
  <2> HIDE DEF S
  <2> QED
    BY <1>1, <1>3, <1>6, <2>2, <2>3, <2>4, <2>5 DEF Receives
<1>7. \A k \in Recv(Sock(c).rep) : SubSeq(Sock(c).rep, 1, k) \in Seq(Pieces)
  BY <1>4, RecvIs, RestIs
<1>8. <<>> \in Seq(Pieces)
  BY EmptySeq
<1> HIDE DEF S
<1>9. Len(cl[c].buf) < cl[c].size
  BY DEF get_data
<1>10. CASE \E k \in Recv(Sock(c).rep) :
             /\ SetClient(c, S(SubSeq(Sock(c).rep, 1, k)))
             /\ SetConn(c, Drop(c, k)) /\ clean' = (clean /\ k = n)
  <2>1. PICK k \in Recv(Sock(c).rep) :
          /\ SetClient(c, S(SubSeq(Sock(c).rep, 1, k)))
          /\ SetConn(c, Drop(c, k)) /\ clean' = (clean /\ k = n)
    BY <1>10
  <2>2. Receives(c, S(SubSeq(Sock(c).rep, 1, k)), SubSeq(Sock(c).rep, 1, k))
    BY <1>6, <1>7, <2>1
  <2> QED
    BY <1>1, <1>3, <1>9, <2>1, <2>2 DEF Receives
<1>11. CASE SetClient(c, S(<<>>)) /\ Zero(c) /\ UNCHANGED <<conns, clean>>
  BY <1>1, <1>6, <1>8, <1>9, <1>11 DEF Receives
<1> QED
  BY <1>5, <1>10, <1>11

LEMMA WrittenLength ==
  ASSUME NEW p, NEW n \in Nat
  PROVE  Len(Written(p, n)) = n /\ \A i \in 1 .. n :
           Written(p, n)[i] = IF i <= Len(p) /\ IsUnit(p[i]) THEN p[i] ELSE Junk
BY DEF Written

(* get.                                                                     *)
LEMMA get_okClean ==
  ASSUME IInv, Lockstep, UNCHANGED srv, NEW c \in Clients, get_ok(c)
  PROVE  Lockstep'
<1>1. TypeInv /\ cl[c].pc = "get_ok" /\ Active(cl[c])
  BY ActiveIs DEF IInv, get_ok
<1>2. Getting(cl[c], Sock(c), srv.state) /\ cl[c].sock # 0
  BY <1>1, AtWork, TalkIs
<1>0. PICK n \in Sizes :
        /\ Downloads(c, n, Drop(c, 1))
        /\ Sock(c).rep # <<>> /\ Sock(c).rep[1] = Header(n) /\ Drop(c, 1) \in Conn
        /\ Drop(c, 1).req = Sock(c).req /\ Drop(c, 1).rep = Rest(Sock(c).rep, 1)
  BY <1>1, GetOkIs
<1>3. PICK s \in Client :
        /\ SetClient(c, s) /\ s.pc = "get_data" /\ s.sock = cl[c].sock
        /\ s.size = n /\ s.left = n /\ s.buf = <<>>
        /\ Sock(c).rep # <<>> /\ Sock(c).rep[1] = Header(n)
        /\ SetConn(c, Drop(c, 1)) /\ Drop(c, 1) \in Conn
        /\ Drop(c, 1).req = Sock(c).req /\ Drop(c, 1).rep = Rest(Sock(c).rep, 1)
  BY <1>0, <1>1, DownloadsIs
<1>4. Announced(cl[c], Sock(c), srv.state)
  BY <1>1, <1>2, <1>3 DEF Getting, Asked, Units
<1>5. PICK j \in Sizes : /\ Sock(c).rep[1] = Header(j)
                         /\ Len(Sock(c).rep) = 1 \/ Len(Sock(c).rep) = j + 1
  BY <1>4 DEF Announced
<1>6. j = n
  BY <1>3, <1>5 DEF Header
<1>7. Sock(c).rep \in Seq(Pieces) /\ 1 \in 1 .. Len(Sock(c).rep)
  <2>1. Sock(c).rep \in Seq(Pieces)
    BY <1>1, <1>2, SockIs
  <2> QED
    BY <1>3, <2>1
<1>8. Len(Drop(c, 1).rep) = Len(Sock(c).rep) - 1 /\ Drop(c, 1).rep \in Seq(Pieces)
  BY <1>3, <1>7, RestIs
<1>9. Drop(c, 1).rep = <<>> \/ Len(Drop(c, 1).rep) = n - Len(s.buf)
  <2>1. Len(s.buf) = 0 /\ n \in Int
    BY <1>3, EmptySeq DEF Sizes
  <2> QED
    BY <1>5, <1>6, <1>7, <1>8, <2>1, EmptySeq
<1>10. Units(s, Drop(c, 1), srv.state)
  <2>1. Len(s.buf) = 0 /\ n \in Int
    BY <1>3, EmptySeq DEF Sizes
  <2> QED
    BY <1>3, <1>4, <1>9, <2>1 DEF Units, Announced, Sending
<1>11. Moves(c, s, Drop(c, 1))
  BY <1>2, <1>3 DEF Moves, SetConn, SetClient
<1> QED
  BY <1>1, <1>3, <1>10, <1>11, MovesLockstep DEF Talk, Getting

(* Nothing else is taken for the size.                                      *)
LEMMA get_tornClean ==
  ASSUME IInv, Lockstep, NEW c \in Clients
  PROVE  ~get_torn(c)
<1> SUFFICES ASSUME get_torn(c) PROVE FALSE
  OBVIOUS
<1>1. /\ TypeInv /\ cl[c].pc = "get_ok" /\ Active(cl[c])
      /\ Len(Sock(c).rep) > 1 /\ Sock(c).rep[1] = Ok(2)
  BY ActiveIs DEF IInv, get_torn
<1>2. Getting(cl[c], Sock(c), srv.state)
  BY <1>1, AtWork, TalkIs
<1>3. Sock(c).rep # <<>>
  BY <1>1, EmptySeq
<1>4. Announced(cl[c], Sock(c), srv.state)
  BY <1>1, <1>2, <1>3 DEF Getting, Asked, Units
<1> QED
  BY <1>1, <1>4 DEF Announced, Ok, Header

LEMMA get_not_okClean ==
  ASSUME IInv, Lockstep, NEW c \in Clients
  PROVE  ~get_not_ok(c)
<1> SUFFICES ASSUME get_not_ok(c) PROVE FALSE
  OBVIOUS
<1>1. TypeInv /\ cl[c].pc = "get_ok" /\ Active(cl[c])
  BY ActiveIs DEF IInv, get_not_ok
<1>2. Getting(cl[c], Sock(c), srv.state)
  BY <1>1, AtWork, TalkIs
<1>3. Sock(c).rep # <<>> /\ ~SaysOk(Sock(c).rep[1])
  BY <1>1, StillOpen DEF get_not_ok
<1>4. Announced(cl[c], Sock(c), srv.state)
  BY <1>1, <1>2, <1>3 DEF Getting, Asked, Units
<1> QED
  BY <1>3, <1>4 DEF Announced, SaysOk, Header

LEMMA get_dataClean ==
  ASSUME IInv, Lockstep, UNCHANGED srv, NEW c \in Clients, get_data(c), clean'
  PROVE  Lockstep'
<1>1. /\ TypeInv /\ cl[c].pc = "get_data" /\ Active(cl[c])
      /\ Len(cl[c].buf) < cl[c].size /\ cl[c] \in Client
  BY ActiveIs, GetDataIs DEF IInv, get_data
<1>2. Getting(cl[c], Sock(c), srv.state) /\ cl[c].sock # 0
  BY <1>1, AtWork, TalkIs
<1>3. PICK s \in Client, k \in Recv(Sock(c).rep) :
        /\ Receives(c, s, SubSeq(Sock(c).rep, 1, k))
        /\ SetConn(c, Drop(c, k)) /\ k = Counted(c)
  BY <1>1, GetDataIs, StillOpen
<1>4. Units(cl[c], Sock(c), srv.state)
  BY <1>1, <1>2 DEF Getting, Announced
<1> DEFINE r == Sock(c).rep
           b == cl[c].buf
           x == Drop(c, k)
           w == Written(SubSeq(r, 1, k), Counted(c))
<1>5. /\ r \in Seq(Pieces) /\ k \in 1 .. Len(r) /\ r # <<>>
      /\ x \in Conn /\ x.req = Sock(c).req /\ x.rep = Rest(r, k)
  BY <1>1, <1>2, DropIs, SockIs
<1>6. Len(x.rep) = Len(r) - k /\ x.rep \in Seq(Pieces) /\ Len(r) \in Nat
  BY <1>5, RestIs
<1>7. b \in Data /\ Len(b) \in Nat /\ cl[c].size \in Int /\ cl[c].left \in Int
      /\ Buf \in Nat /\ Buf # 0
  BY <1>1, Bounds DEF Client, Data
<1>8. cl[c].left = cl[c].size - Len(b) /\ Len(r) = cl[c].size - Len(b)
  BY <1>1, <1>4, <1>5 DEF Units
<1>9. Counted(c) \in Nat /\ Len(w) = Counted(c)
  <2>1. Counted(c) \in Nat
    BY <1>1, <1>7, <1>8 DEF Counted
  <2> QED
    BY <2>1, WrittenLength
<1>10. Len(s.buf) = Len(b) + k
  <2>1. w \in Data
    <3>1. SubSeq(r, 1, k) \in Seq(Pieces) /\ Counted(c) \in Int
      BY <1>5, <1>9, RestIs
    <3> HIDE DEF r, x, b
    <3> QED
      BY <1>1, <3>1, WrittenIs
  <2>2. s.buf = b \o w
    BY <1>3 DEF Receives
  <2> HIDE DEF w, b, r, x
  <2> QED
    BY <1>3, <1>7, <1>9, <2>1, <2>2, ConcatProperties DEF Data
<1>11. /\ s.pc = "get_data" /\ s.size = cl[c].size /\ s.left = cl[c].left - Buf
       /\ s.sock = cl[c].sock /\ SetClient(c, s)
  BY <1>3 DEF Receives
<1>12. Sending(x, srv.state)
  BY <1>4, <1>5 DEF Units, Sending
<1>13. Len(s.buf) < s.size => s.left = s.size - Len(s.buf)
  BY <1>3, <1>7, <1>8, <1>10, <1>11 DEF Counted
<1> HIDE DEF x, b, r, w
<1>14. Len(x.rep) = s.size - Len(s.buf)
  <2>1. k \in Int /\ Len(x.rep) = Len(r) - k
    BY <1>5, <1>6
  <2> QED
    BY <1>7, <1>8, <1>10, <1>11, <2>1
<1>15. Units(s, x, srv.state)
  BY <1>11, <1>12, <1>13, <1>14 DEF Units
<1>16. Moves(c, s, x)
  BY <1>2, <1>3, <1>5, <1>11 DEF Moves, SetConn, SetClient, x
<1> QED
  BY <1>1, <1>11, <1>15, <1>16, MovesLockstep DEF Talk, Getting

LEMMA GetCloseIs ==
  ASSUME TypeInv, NEW c \in Clients, get_close(c)
  PROVE  \E s \in Client :
           /\ SetClient(c, s) /\ s.pc = "get_done" /\ s.state = cl[c].state
           /\ s.sock = cl[c].sock /\ s.size = cl[c].size
           /\ s.old = cl[c].old /\ s.sync = cl[c].sync
<1> DEFINE s == [cl[c] EXCEPT !.pc = "get_done", !.buf = <<>>]
<1>1. cl[c] \in Client
  BY ActiveIs DEF get_close
<1>2. s \in Client
  BY <1>1, EmptySeq DEF Client
<1>3. SetClient(c, s)
  BY DEF get_close
<1>4. /\ s.pc = "get_done" /\ s.state = cl[c].state /\ s.sock = cl[c].sock
      /\ s.size = cl[c].size /\ s.old = cl[c].old /\ s.sync = cl[c].sync
  <2>1. PICK v \in Client, p \in ClientPcs : v = cl[c] /\ p = "get_done"
    BY <1>1 DEF ClientPcs
  <2> QED
    BY <2>1, FieldsKept
<1> HIDE DEF s
<1> QED
  BY <1>2, <1>3, <1>4

LEMMA get_closeClean ==
  ASSUME IInv, Lockstep, UNCHANGED srv, NEW c \in Clients, get_close(c)
  PROVE  Lockstep'
<1>1. /\ TypeInv /\ cl[c].pc = "get_data" /\ Active(cl[c]) /\ cl[c] \in Client
      /\ Len(cl[c].buf) >= cl[c].size
  BY ActiveIs DEF IInv, get_close
<1>2. Getting(cl[c], Sock(c), srv.state) /\ cl[c].sock # 0
  BY <1>1, AtWork, TalkIs
<1>3. Units(cl[c], Sock(c), srv.state)
  BY <1>1, <1>2 DEF Getting, Announced
<1>4. Sock(c).rep = <<>>
  <2>1. Sock(c).rep \in Seq(Pieces) /\ cl[c].size \in Int /\ Len(cl[c].buf) \in Nat
    BY <1>1, <1>2, SockIs DEF Client
  <2>2. ASSUME Len(Sock(c).rep) = cl[c].size - Len(cl[c].buf) PROVE Sock(c).rep = <<>>
    <3>1. Len(Sock(c).rep) = 0
      BY <1>1, <2>1, <2>2
    <3> QED
      BY <2>1, <3>1, EmptySeq
  <2> QED
    BY <1>3, <2>2 DEF Units
<1>5. PICK s \in Client : SetClient(c, s) /\ s.pc = "get_done" /\ s.sock = cl[c].sock
  BY <1>1, GetCloseIs
<1>6. SetConn(c, Request(Sock(c), "done")) /\ "done" \in Requests
  BY DEF get_close, Requests
<1>7. Sock(c).req = <<>> /\ srv.state = "DOWNLOADING"
  BY <1>3 DEF Units, Sending
<1>8. \A x \in Conn : x.req = <<"done">> /\ x.rep = <<>> => Talk(s, x, srv.state)
  BY <1>5, <1>7 DEF Talk, Getting
<1> QED
  BY <1>1, <1>4, <1>5, <1>6, <1>7, <1>8, AsksClean

(* The answer to done, in one piece.                                        *)
LEMMA get_doneClean ==
  ASSUME IInv, Lockstep, UNCHANGED srv, NEW c \in Clients, get_done(c)
  PROVE  Lockstep'
<1> DEFINE s == [Prompt(c) EXCEPT !.state = "CONNECTED"]
<1>1. TypeInv /\ cl[c].pc = "get_done" /\ Active(cl[c]) /\ cl[c].sock # 0
  BY ActiveIs DEF IInv, get_done
<1>2. Getting(cl[c], Sock(c), srv.state)
  BY <1>1, AtWork, TalkIs
<1>3. PICK k \in Recv(Sock(c).rep) :
        /\ SetConn(c, Drop(c, k))
        /\ ExactlyOk(SubSeq(Sock(c).rep, 1, k)) => SetClient(c, s)
  BY <1>1, StillOpen DEF get_done
<1>4. k \in 1 .. Len(Sock(c).rep) /\ Sock(c).rep # <<>>
  BY <1>1, DropIs
<1>5. Sock(c).rep = <<Ok(3)>> /\ Told(Sock(c), srv.state)
  BY <1>1, <1>2, <1>4 DEF Getting, Asked, Announced, Units
<1>6. k = 1 /\ k = Len(Sock(c).rep)
  BY <1>4, <1>5
<1>7. ExactlyOk(SubSeq(Sock(c).rep, 1, k))
  <2>1. SubSeq(Sock(c).rep, 1, k)[1] = Sock(c).rep[1]
    <3>1. Sock(c).rep \in Seq(Pieces)
      BY <1>1, SockIs
    <3> QED
      BY <1>4, <3>1
  <2>2. Sock(c).rep[1] = Ok(3)
    BY <1>5
  <2>3. PICK ms : ms = SubSeq(Sock(c).rep, 1, k)
    OBVIOUS
  <2> QED
    BY <2>1, <2>2, <2>3 DEF ExactlyOk
<1>8. SetClient(c, s)
  BY <1>3, <1>7
<1>9. s \in Client /\ s.pc = "prompt" /\ s.state = "CONNECTED" /\ s.sock = cl[c].sock
  BY <1>1, PromptIs, ZenonT(40) DEF Client, ClStates
<1> HIDE DEF s
<1> QED
  BY <1>1, <1>3, <1>5, <1>6, <1>8, <1>9, QuietAgain DEF Told

(* Leaving without a session, or before one.                                *)
LEMMA LeaveClean ==
  ASSUME IInv, Lockstep, UNCHANGED srv, NEW c \in Clients, Leave(c), clean'
  PROVE  Lockstep'
<1>1. TypeInv
  BY DEF IInv
<1>2. UNCHANGED conns /\ ~Connected(c) /\ cl' = [cl EXCEPT ![c] = init]
  BY DEF Leave, SetClient
<1>3. cl \in [Clients -> Client] /\ \A d \in Clients \ {c} : cl'[d] = cl[d]
  BY <1>1, <1>2 DEF TypeInv, ClientsOK
<1>4. cl[c].pc # "conn" /\ cl[c].state = "IDLE"
  BY <1>1, <1>2 DEF Connected, TypeInv, ClientsOK
<1>5. \A k \in DOMAIN conns : Awaited(k) => Awaited(k)'
  BY <1>3, <1>4 DEF Awaited
<1>6. ASSUME srv'.state # "IDLE"
      PROVE  \E d \in Clients : cl'[d].sock = srv'.holder /\ Talk(cl'[d], Sock(d)', srv'.state)
  <2>1. PICK d \in Clients : cl[d].sock = srv.holder /\ Talk(cl[d], Sock(d), srv.state)
    BY <1>6 DEF Lockstep
  <2>2. d # c
    BY <1>1, <1>4, <2>1, TalkIs DEF TypeInv, ClientsOK
  <2>3. cl'[d] = cl[d] /\ Sock(d)' = Sock(d)
    BY <1>2, <1>3, <2>2 DEF Sock
  <2> QED
    BY <2>1, <2>3
<1> QED
  BY <1>2, <1>5, <1>6 DEF Lockstep

LEMMA ClientClean ==
  ASSUME IInv, CleanInv, NEW c \in Clients, ClientStep(c)
  PROVE  CleanInv'
<1> SUFFICES ASSUME clean' PROVE IF srv'.pc = "dead" THEN NobodysFault' ELSE Lockstep'
  BY DEF CleanInv
<1>1. clean /\ UNCHANGED srv
  BY DEF ClientStep, Waits, Typed, conn, conn_reply, conn_fails, bye, bye_reply, recv_error,
     ls, ls_ok, ls_listing, get, get_ok, get_torn, get_not_ok, get_data, get_close, get_done,
     Leave, quit, get_crash
<1>0. CASE srv.pc = "dead"
  BY <1>0, <1>1 DEF CleanInv, NobodysFault
<1> SUFFICES ASSUME srv.pc # "dead" PROVE Lockstep'
  BY <1>0, <1>1
<1>2. Lockstep
  BY <1>1 DEF CleanInv
<1>3. CASE Typed(c)
  BY <1>1, <1>2, <1>3, connClean, byeClean, lsClean, getClean, LeaveClean DEF Typed, quit
<1>4. CASE Waits(c)
  BY <1>1, <1>2, <1>4, conn_replyClean, conn_failsClean, bye_replyClean, ls_okClean,
     ls_listingClean, get_okClean, get_tornClean, get_not_okClean, get_dataClean,
     get_closeClean, get_doneClean, LeaveClean, recv_errorClean DEF Waits, get_crash
<1> QED
  BY <1>3, <1>4 DEF ClientStep
------------------------------------------------------------------------------
(* A step of the server keeps the two in step.                              *)

(* A step of the server on the connection it serves.                        *)
LEMMA ServesLockstep ==
  ASSUME IInv, Lockstep, UNCHANGED cl, srv.pc \in {"recv", "get"}, NEW s, NEW x,
         srv' = s, conns' = [conns EXCEPT ![srv.id] = x],
         s.pc # "dead", ~ s.lost,
         s.holder = srv.holder \/ (s.holder = srv.id /\ srv.id = srv.holder + 1),
         s.state # "IDLE" =>
           /\ s.holder = srv.id
           /\ \E c \in Clients : cl[c].sock = srv.id /\ Talk(cl[c], x, s.state)
  PROVE  Lockstep'
<1>1. /\ srv.id \in DOMAIN conns /\ srv.holder \in Nat
      /\ DOMAIN conns = 1 .. Len(conns) /\ Len(conns) \in Nat
  BY SrvIs DEF IInv
<1>2. DOMAIN conns' = DOMAIN conns /\ conns'[srv.id] = x
  BY <1>1
<1>3. ASSUME NEW k \in DOMAIN conns', k > srv'.holder PROVE Awaited(k)'
  <2>1. k > srv.holder
    BY <1>1, <1>2, <1>3
  <2>2. Awaited(k)
    BY <1>2, <2>1 DEF Lockstep
  <2> QED
    BY <2>2 DEF Awaited
<1>4. ASSUME srv'.state # "IDLE"
      PROVE  \E c \in Clients : cl'[c].sock = srv'.holder /\ Talk(cl'[c], Sock(c)', srv'.state)
  <2>1. PICK c \in Clients : cl[c].sock = srv.id /\ Talk(cl[c], x, s.state)
    BY <1>4
  <2>2. Sock(c)' = x
    BY <1>2, <2>1 DEF Sock
  <2> QED
    BY <1>4, <2>1, <2>2
<1> QED
  BY <1>3, <1>4 DEF Lockstep

(* The client of the session that the server is serving.                    *)
LEMMA InHandClient ==
  ASSUME IInv, Lockstep, InHand
  PROVE  /\ Served.cend = "open"
         /\ \E c \in Clients : cl[c].sock = srv.id /\ Talk(cl[c], Served, srv.state)
<1>1. srv.state # "IDLE" /\ srv.id = srv.holder
  BY DEF InHand
<1>2. PICK c \in Clients : cl[c].sock = srv.id /\ Talk(cl[c], Sock(c), srv.state)
  BY <1>1 DEF Lockstep
<1>3. Sock(c) = Served
  BY <1>2 DEF Sock, Served
<1>4. Active(cl[c]) \/ cl[c].pc \in {"conn", "bye"}
  <2>1. cl[c].pc = "prompt" => cl[c].state = "CONNECTED"
    BY <1>2, TalkIs
  <2>2. cl[c].pc \notin {"prompt", "conn"} => cl[c].state # "IDLE"
    BY DEF IInv, TypeInv, ClientsOK
  <2> QED
    BY <2>1, <2>2 DEF Active
<1>5. Sock(c).cend = "open"
  BY <1>4, InStep
<1> QED
  BY <1>2, <1>3, <1>5

(* What it may find there: one request, and its client waiting.             *)
Requested(m, s, cn, st) ==
  /\ cn.req = <<m>> /\ cn.rep = <<>>
  /\ \/ m = "bye" /\ s.pc = "bye" /\ st = "CONNECTED"
     \/ m = "ls" /\ s.pc = "ls_ok" /\ s.state = "CONNECTED" /\ st = "CONNECTED"
     \/ m = "get" /\ s.pc = "get_ok" /\ s.state = "CONNECTED" /\ st = "CONNECTED"
     \/ m = "done" /\ s.pc = "get_done" /\ st = "DOWNLOADING"

LEMMA TalkRequested ==
  ASSUME NEW s, NEW cn, NEW st, Talk(s, cn, st), cn.req # <<>>
  PROVE  \E m : Requested(m, s, cn, st)
<1>1. CASE Parting(s, cn, st)
  BY <1>1 DEF Parting, Asked, Requested
<1>2. CASE Listing(s, cn, st)
  BY <1>2 DEF Listing, Asked, Told, Requested
<1>3. CASE Getting(s, cn, st)
  BY <1>3 DEF Getting, Announced, Units, Sending, Asked, Told, Requested
<1> QED
  BY <1>1, <1>2, <1>3 DEF Talk, Greeted, Quiet, Told

(* An answer to one who waits for it.                                       *)
LEMMA AnswerAll ==
  ASSUME NEW cn \in Conn, cn.cend = "open", cn.rep = <<>>, NEW ms \in Seq(Pieces)
  PROVE  Answer(cn, ms).rep = ms /\ Answer(cn, ms).req = cn.req
<1>1. Answer(cn, ms).rep = <<>> \o ms /\ Answer(cn, ms).req = cn.req
  BY AnswerIs DEF Conn
<1>2. <<>> \o ms = ms
  OBVIOUS
<1> QED
  BY <1>1, <1>2

(* hello: only a connection that a client still waits on is accepted.       *)
LEMMA HelloClean ==
  ASSUME IInv, Lockstep, UNCHANGED cl, AtHello, NEW k \in 1 .. Len(Served.req),
         exec(Message(SubSeq(Served.req, 1, k)), Got(k))
  PROVE  Lockstep'
<1> DEFINE m == Message(SubSeq(Served.req, 1, k))
           cn == Got(k)
           x == Answer(cn, <<Hello(srv.id)>>)
           h == Holding(srv, "CONNECTED", srv.id)
           s == Loop(h)
<1>1. /\ TypeInv /\ srv.pc = "recv" /\ srv.state = "IDLE" /\ ~ srv.lost
      /\ srv.id = srv.holder + 1 /\ Served.req = <<"hello">>
  BY DEF IInv, AtHello
<1>2. /\ srv \in Server /\ srv.id \in Nat /\ srv.holder \in Nat /\ srv.id \in DOMAIN conns
      /\ DOMAIN conns = 1 .. Len(conns)
  BY <1>1, SrvIs
<1>3. Len(Served.req) = 1 /\ Served.req[1] = "hello"
  BY <1>1
<1>4. /\ m = "hello" /\ cn \in Conn /\ cn.req = <<>>
      /\ cn.rep = Served.rep /\ cn.cend = Served.cend
  BY <1>1, <1>3, GotIs
<1>5. server_hello(m, cn)
  BY <1>1, <1>4 DEF exec, server_bye, server_ls, server_get, server_refuse, Handled
<1>6. Becomes(x, h)
  BY <1>1, <1>5 DEF server_hello, Holding
<1>7. PICK c \in Clients : cl[c].pc = "conn" /\ cl[c].sock = srv.id
  <2>1. Awaited(srv.id)
    BY <1>1, <1>2 DEF Lockstep
  <2> QED
    BY <2>1 DEF Awaited
<1>8. Served.cend = "open" /\ Served.rep = <<>>
  <2>1. Sock(c) = Served
    BY <1>7 DEF Sock, Served
  <2>2. cl[c].sock > srv.holder
    BY <1>1, <1>2, <1>7
  <2> QED
    BY <1>7, <2>1, <2>2, InStep
<1> HIDE DEF m, cn
<1>9. x.rep = <<Hello(srv.id)>> /\ x.req = <<>>
  <2>1. <<Hello(srv.id)>> \in Seq(Pieces)
    BY <1>2, PieceKinds
  <2> QED
    BY <1>4, <1>8, <2>1, AnswerAll
<1>10. /\ h \in Server /\ h.state = "CONNECTED" /\ h.holder = srv.id
       /\ h.lost = srv.lost
  <2>1. PICK v \in Server, n \in Nat, st \in SrvStates : v = srv /\ n = srv.id /\ st = "CONNECTED"
    BY <1>2 DEF SrvStates
  <2>2. LET t == Holding(v, st, n)
        IN t \in Server /\ t.state = st /\ t.holder = n /\ t.lost = v.lost
    BY HoldingIs
  <2> QED
    BY <2>1, <2>2
<1> HIDE DEF h, x
<1>11. s.pc = "recv" /\ s.state = "CONNECTED" /\ s.holder = srv.id /\ ~ s.lost
  BY <1>1, <1>10, LoopIs
<1>12. conns' = [conns EXCEPT ![srv.id] = x] /\ srv' = s
  BY <1>6 DEF Becomes
<1> HIDE DEF s
<1>13. Talk(cl[c], x, s.state)
  <2>1. x.rep # <<>> /\ Len(x.rep) = 1 /\ x.rep[1] = Hello(srv.id)
    BY <1>9
  <2>2. Hello(srv.id)[1] = "hello"
    BY DEF Hello
  <2> QED
    BY <1>7, <1>9, <1>11, <2>1, <2>2 DEF Talk, Greeted, Told
<1> QED
  BY <1>1, <1>7, <1>11, <1>12, <1>13, ServesLockstep

(* An answer in a session, after which it goes on.                          *)
LEMMA AnswersLockstep ==
  ASSUME IInv, Lockstep, UNCHANGED cl, InHand, NEW x, NEW s,
         srv' = s, conns' = [conns EXCEPT ![srv.id] = x],
         s.pc # "dead", s.lost = srv.lost, s.holder = srv.holder,
         s.state # "IDLE" =>
           \E c \in Clients : cl[c].sock = srv.id /\ Talk(cl[c], x, s.state)
  PROVE  Lockstep'
<1>1. srv.pc \in {"recv", "get"} /\ ~ srv.lost /\ srv.id = srv.holder
  BY DEF InHand
<1> QED
  BY <1>1, ServesLockstep

(* A message in a session is the request that its client waits on.          *)
LEMMA RequestIsWhole ==
  ASSUME IInv, Lockstep, InHand, NEW k \in 1 .. Len(Served.req)
  PROVE  \E c \in Clients :
           LET m == Message(SubSeq(Served.req, 1, k)) IN
           /\ cl[c].sock = srv.id /\ Requested(m, cl[c], Served, srv.state)
           /\ Got(k) \in Conn /\ Got(k).req = <<>> /\ Got(k).rep = <<>>
           /\ Got(k).cend = "open"
<1>1. TypeInv /\ srv.pc \in {"recv", "get"}
  BY DEF IInv, InHand
<1>2. Served.req # <<>>
  BY <1>1, GotIs
<1>3. PICK c \in Clients : cl[c].sock = srv.id /\ Talk(cl[c], Served, srv.state)
  BY InHandClient
<1>4. PICK r : Requested(r, cl[c], Served, srv.state)
  BY <1>2, <1>3, TalkRequested
<1>5. Served.req = <<r>> /\ Served.rep = <<>>
  BY <1>4 DEF Requested
<1>6. Len(Served.req) = 1 /\ Served.req[1] = r
  BY <1>5
<1> DEFINE m == Message(SubSeq(Served.req, 1, k))
<1>7. /\ m = r /\ Got(k) \in Conn /\ Got(k).req = <<>>
      /\ Got(k).rep = Served.rep /\ Got(k).cend = Served.cend
  BY <1>1, <1>6, GotIs
<1>8. Served.cend = "open"
  BY InHandClient
<1> HIDE DEF m
<1>9. Requested(m, cl[c], Served, srv.state)
  BY <1>4, <1>7
<1>10. Got(k).rep = <<>> /\ Got(k).cend = "open"
  BY <1>5, <1>7, <1>8
<1> QED
  BY <1>3, <1>7, <1>9, <1>10 DEF m

LEMMA ByeClean ==
  ASSUME IInv, Lockstep, UNCHANGED cl, InHand, NEW m, NEW cn, server_bye(m, cn)
  PROVE  Lockstep'
<1> DEFINE w == Answer(cn, <<Bye>>)
           x == IF srv.fd = 0 THEN CloseServer(w) ELSE w
           F == srv.fds \ {0}
           h == Freeing(srv, "IDLE", F)
           s == Loop(h)
<1>1. Becomes(x, h)
  BY DEF server_bye, Freeing
<1>2. h \in Server /\ h.state = "IDLE" /\ h.holder = srv.holder /\ h.lost = srv.lost
  <2>1. srv \in Server /\ F \in SUBSET Nat /\ "IDLE" \in SrvStates
    BY SrvIs DEF IInv, SrvStates
  <2> HIDE DEF F
  <2>2. PICK v \in Server, st \in SrvStates : v = srv /\ st = "IDLE"
    BY <2>1
  <2>3. LET t == Freeing(v, st, F)
        IN t \in Server /\ t.state = st /\ t.holder = v.holder /\ t.lost = v.lost
    BY <2>1, FreeingIs
  <2> QED
    BY <2>2, <2>3
<1> HIDE DEF x, h
<1>3. s.pc = "accept" /\ s.state = "IDLE" /\ s.holder = srv.holder /\ s.lost = srv.lost
  BY <1>2, LoopIs
<1>4. conns' = [conns EXCEPT ![srv.id] = x] /\ srv' = s
  BY <1>1 DEF Becomes
<1> HIDE DEF s
<1> QED
  BY <1>3, <1>4, AnswersLockstep

LEMMA OnePiece ==
  ASSUME NEW S, NEW p \in S
  PROVE  \E o \in Seq(S) : o = <<p>> /\ Len(o) = 1 /\ o[1] = p
<1> DEFINE o == <<p>>
<1>1. o \in Seq(S) /\ Len(o) = 1 /\ o[1] = p
  OBVIOUS
<1> HIDE DEF o
<1>2. \E q \in Seq(S) : q = o /\ Len(q) = 1 /\ q[1] = p
  BY <1>1
<1> QED
  BY <1>2 DEF o

(* The listing: what follows the ok is entries.                             *)
LEMMA ListingIs ==
  ASSUME TypeInv
  PROVE  LET ms == <<Ok(2)>> \o list_dir(server_dir) IN
         /\ ms \in Seq(Pieces) /\ ms # <<>> /\ ms[1] = Ok(2) /\ EntriesOnly(Tail(ms))
<1> DEFINE n == Cardinality({i \in DOMAIN server_dir : server_dir[i] = "regular"})
           l == [i \in 1 .. n |-> Entry]
           ms == <<Ok(2)>> \o l
<1>1. n \in Nat
  <2>1. DOMAIN server_dir = 1 .. Len(server_dir) /\ Len(server_dir) \in Nat
    BY DEF TypeInv
  <2>2. IsFiniteSet(DOMAIN server_dir)
    BY <2>1, FS_Interval
  <2>3. IsFiniteSet({i \in DOMAIN server_dir : server_dir[i] = "regular"})
    BY <2>2, FS_Subset
  <2> QED
    BY <2>3, FS_CardinalityType
<1>2. list_dir(server_dir) = l
  BY DEF list_dir
<1> HIDE DEF n
<1>3. l \in Seq(Pieces) /\ Len(l) = n /\ \A i \in 1 .. n : l[i] = Entry
  BY <1>1, PieceKinds
<1> HIDE DEF l
<1>4. PICK o \in Seq(Pieces) : o = <<Ok(2)>> /\ Len(o) = 1 /\ o[1] = Ok(2)
  <2>1. PICK p \in Pieces : p = Ok(2)
    BY PieceKinds
  <2>2. \E q \in Seq(Pieces) : q = <<p>> /\ Len(q) = 1 /\ q[1] = p
    BY OnePiece
  <2> QED
    BY <2>1, <2>2
<1>5. /\ o \o l \in Seq(Pieces) /\ Len(o \o l) = 1 + n
      /\ (o \o l)[1] = o[1] /\ \A i \in 1 .. n : (o \o l)[i + 1] = l[i]
  BY <1>1, <1>3, <1>4
<1>6. /\ Len(Tail(o \o l)) = n
      /\ \A i \in 1 .. n : Tail(o \o l)[i] = (o \o l)[i + 1]
  <2> DEFINE q == o \o l
  <2>1. q \in Seq(Pieces) /\ Len(q) = 1 + n
    BY <1>5
  <2> HIDE DEF q
  <2>2. q # <<>>
    BY <1>1, <2>1, EmptySeq
  <2>3. Tail(q) \in Seq(Pieces) /\ Len(Tail(q)) = n
    BY <1>1, <2>1, <2>2
  <2>4. \A i \in 1 .. n : Tail(q)[i] = q[i + 1]
    BY <1>1, <2>1, <2>2
  <2> QED
    BY <2>3, <2>4 DEF q
<1>7. \A i \in 1 .. n : Tail(o \o l)[i] = Entry
  BY <1>3, <1>5, <1>6
<1>8. EntriesOnly(Tail(o \o l))
  BY <1>6, <1>7 DEF EntriesOnly
<1>9. o \o l # <<>>
  BY <1>1, <1>5
<1> QED
  BY <1>2, <1>4, <1>5, <1>8, <1>9

LEMMA LsClean ==
  ASSUME IInv, Lockstep, UNCHANGED cl, InHand, NEW cn \in Conn,
         cn.cend = "open", cn.rep = <<>>, cn.req = <<>>,
         NEW c \in Clients, cl[c].sock = srv.id,
         NEW m, Requested(m, cl[c], Served, srv.state), server_ls(m, cn)
  PROVE  Lockstep'
<1> DEFINE ms == <<Ok(2)>> \o list_dir(server_dir)
           x == Answer(cn, ms)
           s == Loop(srv)
<1>1. m = "ls" /\ srv.state = "CONNECTED" /\ Becomes(x, srv)
  BY DEF server_ls
<1>2. TypeInv
  BY DEF IInv
<1>3. ms \in Seq(Pieces) /\ ms # <<>> /\ ms[1] = Ok(2) /\ EntriesOnly(Tail(ms))
  BY <1>2, ListingIs
<1> HIDE DEF ms
<1>4. x.rep = ms /\ x.req = <<>>
  BY <1>3, AnswerAll
<1> HIDE DEF x
<1>5. /\ s.pc = "recv" /\ s.state = "CONNECTED"
      /\ s.holder = srv.holder /\ s.lost = srv.lost
  BY <1>1, <1>2, LoopSame
<1>6. conns' = [conns EXCEPT ![srv.id] = x] /\ srv' = s
  BY <1>1 DEF Becomes
<1> HIDE DEF s
<1>7. Talk(cl[c], x, s.state)
  BY <1>1, <1>3, <1>4, <1>5 DEF Requested, Talk, Listing, Told
<1> QED
  BY <1>5, <1>6, <1>7, AnswersLockstep

(* The file: nothing after the header, or as many units as it announces.    *)
LEMMA FileIs ==
  ASSUME NEW z \in Sizes, NEW b \in BOOLEAN
  PROVE  LET ms == <<Header(z)>> \o IF z >= 0 /\ b THEN Content(z) ELSE <<>>
         IN /\ ms \in Seq(Pieces) /\ ms # <<>> /\ ms[1] = Header(z)
            /\ \/ ~ (z >= 0 /\ b) /\ Len(ms) = 1
               \/ z >= 0 /\ b /\ Len(ms) = z + 1 /\ \A i \in 1 .. z : ms[i + 1] = Unit(i)
<1> DEFINE l == IF z >= 0 /\ b THEN Content(z) ELSE <<>>
<1>1. PICK o \in Seq(Pieces) : o = <<Header(z)>> /\ Len(o) = 1 /\ o[1] = Header(z)
  <2>1. PICK p \in Pieces : p = Header(z)
    BY PieceKinds DEF Sizes
  <2>2. \E q \in Seq(Pieces) : q = <<p>> /\ Len(q) = 1 /\ q[1] = p
    BY OnePiece
  <2> QED
    BY <2>1, <2>2
<1>2. /\ l \in Seq(Pieces)
      /\ \/ ~ (z >= 0 /\ b) /\ Len(l) = 0
         \/ z >= 0 /\ b /\ Len(l) = z /\ \A i \in 1 .. z : l[i] = Unit(i)
  <2>1. CASE z >= 0 /\ b
    <3>1. z \in Nat /\ z <= MaxSize
      BY <2>1, Bounds DEF Sizes
    <3>2. \A i \in 1 .. z : Unit(i) \in Pieces
      BY <3>1, Bounds, PieceKinds
    <3>3. [i \in 1 .. z |-> Unit(i)] \in Seq(Pieces)
      BY <3>1, <3>2
    <3> QED
      BY <2>1, <3>1, <3>3 DEF Content
  <2>2. CASE ~ (z >= 0 /\ b)
    BY <2>2, EmptySeq
  <2> QED
    BY <2>1, <2>2
<1> HIDE DEF l
<1>3. /\ o \o l \in Seq(Pieces) /\ Len(o \o l) = 1 + Len(l) /\ Len(l) \in Nat
      /\ (o \o l)[1] = o[1]
  BY <1>1, <1>2
<1>4. \A i \in 1 .. Len(l) : (o \o l)[i + 1] = l[i]
  BY <1>1, <1>2
<1>5. o \o l # <<>>
  BY <1>3
<1>6. \/ ~ (z >= 0 /\ b) /\ Len(o \o l) = 1
      \/ z >= 0 /\ b /\ Len(o \o l) = z + 1 /\ \A i \in 1 .. z : (o \o l)[i + 1] = Unit(i)
  BY <1>2, <1>3, <1>4 DEF Sizes
<1> QED
  BY <1>1, <1>3, <1>5, <1>6 DEF l

(* The record a file being sent leaves: a download under way, the same      *)
(* client on the same thread.                                              *)
LEMMA SendsGet ==
  ASSUME NEW v \in Server, NEW n \in Nat, NEW f \in SUBSET Nat
  PROVE  LET t == Sends(v, "DOWNLOADING", "get", n, f)
         IN /\ t.state = "DOWNLOADING" /\ t.pc = "get"
            /\ t.holder = v.holder /\ t.lost = v.lost
<1>1. PICK st \in SrvStates, p \in ServerPcs : st = "DOWNLOADING" /\ p = "get"
  BY DEF SrvStates, ServerPcs
<1>2. LET t == Sends(v, st, p, n, f)
      IN t.state = st /\ t.pc = p /\ t.holder = v.holder /\ t.lost = v.lost
  BY SendsIs
<1> QED
  BY <1>1, <1>2

LEMMA GetClean ==
  ASSUME IInv, Lockstep, UNCHANGED cl, InHand, NEW cn \in Conn,
         cn.cend = "open", cn.rep = <<>>, cn.req = <<>>,
         NEW c \in Clients, cl[c].sock = srv.id,
         NEW m, Requested(m, cl[c], Served, srv.state), server_get(m, cn)
  PROVE  Lockstep'
<1> DEFINE size == file_size(server_file)
           found == size >= 0 /\ server_file.writable
           f == LowestFree(srv.fds)
           ms == <<Header(size)>> \o IF found THEN Content(size) ELSE <<>>
           x == Answer(cn, ms)
           O == IF found THEN srv.opened + 1 ELSE srv.opened
           F == IF found THEN srv.fds \cup {f} ELSE srv.fds
           s == Sends(srv, "DOWNLOADING", "get", O, F)
<1>1. m = "get" /\ srv.state = "CONNECTED"
  BY DEF server_get, Requested
<1>2. conns' = [conns EXCEPT ![srv.id] = x] /\ srv' = s
  BY <1>1 DEF server_get, Sends
<1>3. TypeInv /\ FdsOK
  BY DEF IInv
<1>4. size \in Sizes /\ server_file.writable \in BOOLEAN
  BY <1>3 DEF TypeInv, ServerFile, file_size, Sizes
<1>5. /\ ms \in Seq(Pieces) /\ ms # <<>> /\ ms[1] = Header(size)
      /\ Len(ms) = 1 \/ Len(ms) = size + 1
  <2> HIDE DEF size
  <2> QED
    BY <1>4, FileIs
<1> HIDE DEF ms
<1>6. x.rep = ms /\ x.req = <<>>
  BY <1>5, AnswerAll
<1>7. f \in Nat
  BY <1>3, LowestIs DEF FdsOK
<1>8. srv \in Server /\ srv.opened \in Nat /\ srv.fds \in SUBSET Nat
  BY <1>3, SrvIs
<1> HIDE DEF x, f, size
<1>9. O \in Nat /\ F \in SUBSET Nat
  BY <1>7, <1>8
<1> HIDE DEF O, F
<1>10. /\ s.state = "DOWNLOADING" /\ s.pc = "get"
       /\ s.holder = srv.holder /\ s.lost = srv.lost
  BY <1>8, <1>9, SendsGet
<1> HIDE DEF s
<1>11. cl[c].pc = "get_ok" /\ cl[c].state = "CONNECTED"
  BY <1>1 DEF Requested
<1>12. Announced(cl[c], x, s.state)
  BY <1>4, <1>5, <1>6, <1>10, <1>11 DEF Announced, Sending
<1>13. Talk(cl[c], x, s.state)
  BY <1>12 DEF Talk, Getting
<1> QED
  BY <1>2, <1>10, <1>13, AnswersLockstep

(* done, the only message while a file is being sent.                       *)
LEMMA DoneClean ==
  ASSUME IInv, Lockstep, UNCHANGED cl, InHand, srv.pc = "get", NEW cn \in Conn,
         cn.cend = "open", cn.rep = <<>>, cn.req = <<>>,
         NEW c \in Clients, cl[c].sock = srv.id,
         NEW m, Requested(m, cl[c], Served, srv.state), server_get_done(m, cn)
  PROVE  Lockstep'
<1> DEFINE x == Answer(cn, <<Ok(3)>>)
           h == Turns(srv, "CONNECTED")
           s == Loop(h)
<1>1. m = "done" /\ cl[c].pc = "get_done"
  BY DEF InHand, Requested
<1>2. Becomes(x, h)
  BY <1>1 DEF server_get_done, Turns
<1>3. h \in Server /\ h.state = "CONNECTED" /\ h.holder = srv.holder /\ h.lost = srv.lost
  <2>1. PICK v \in Server, st \in SrvStates : v = srv /\ st = "CONNECTED"
    BY SrvIs DEF IInv, SrvStates
  <2>2. LET t == Turns(v, st)
        IN t \in Server /\ t.state = st /\ t.holder = v.holder /\ t.lost = v.lost
    BY TurnsIs
  <2> QED
    BY <2>1, <2>2
<1>4. x.rep = <<Ok(3)>> /\ x.req = <<>>
  <2>1. <<Ok(3)>> \in Seq(Pieces)
    BY PieceKinds
  <2> QED
    BY <2>1, AnswerAll
<1> HIDE DEF x, h
<1>5. s.pc = "recv" /\ s.state = "CONNECTED" /\ s.holder = srv.holder /\ s.lost = srv.lost
  BY <1>3, LoopIs
<1>6. conns' = [conns EXCEPT ![srv.id] = x] /\ srv' = s
  BY <1>2 DEF Becomes
<1> HIDE DEF s
<1>7. Talk(cl[c], x, s.state)
  <2>1. <<Ok(3)>> # <<>>
    OBVIOUS
  <2> QED
    BY <1>1, <1>4, <1>5, <2>1 DEF Talk, Getting, Told
<1> QED
  BY <1>5, <1>6, <1>7, AnswersLockstep

LEMMA ReceiveClean ==
  ASSUME IInv, Lockstep, UNCHANGED cl, receive
  PROVE  Lockstep'
<1>1. srv.pc \in {"recv", "get"} /\ ~ srv.lost
  BY DEF receive, Lockstep
<1>2. PICK k \in 1 .. Len(Served.req) :
        IF srv.pc = "recv" THEN exec(Message(SubSeq(Served.req, 1, k)), Got(k))
        ELSE server_get_done(Message(SubSeq(Served.req, 1, k)), Got(k))
  BY DEF receive, Got
<1>3. CASE AtHello
  BY <1>2, <1>3, HelloClean DEF AtHello
<1>4. CASE InHand
  <2> DEFINE m == Message(SubSeq(Served.req, 1, k))
             cn == Got(k)
  <2>1. PICK c \in Clients :
          /\ cl[c].sock = srv.id /\ Requested(m, cl[c], Served, srv.state)
          /\ cn \in Conn /\ cn.req = <<>> /\ cn.rep = <<>> /\ cn.cend = "open"
    BY <1>4, RequestIsWhole
  <2>2. IF srv.pc = "recv" THEN exec(m, cn) ELSE server_get_done(m, cn)
    BY <1>2
  <2> HIDE DEF m, cn
  <2>3. CASE srv.pc = "recv"
    <3>1. srv.state = "CONNECTED"
      BY <1>4, <2>3 DEF InHand
    <3>2. m \in {"bye", "ls", "get"}
      BY <2>1, <3>1 DEF Requested
    <3>3. server_bye(m, cn) \/ server_ls(m, cn) \/ server_get(m, cn)
      BY <2>2, <2>3, <3>1, <3>2 DEF exec, server_hello, server_refuse, Handled
    <3>4. server_bye(m, cn) => Lockstep'
      BY <1>4, ByeClean
    <3>5. server_ls(m, cn) => Lockstep'
      BY <1>4, <2>1, LsClean
    <3>6. server_get(m, cn) => Lockstep'
      BY <1>4, <2>1, GetClean
    <3> QED
      BY <3>3, <3>4, <3>5, <3>6
  <2>4. CASE srv.pc = "get"
    BY <1>4, <2>1, <2>2, <2>4, DoneClean
  <2> QED
    BY <1>1, <2>3, <2>4
<1> QED
  BY <1>1, <1>3, <1>4, Situation DEF InVain

(* The client of the session is there, so no recv fails, and no send.       *)
LEMMA ClientIsThere ==
  ASSUME IInv, Lockstep, srv.pc \in {"recv", "get"}
  PROVE  /\ Served.cend = "open"
         /\ ~ receive_zero /\ ~ receive_error /\ ~ sigpipe
<1>1. Served.cend = "open"
  <2>1. CASE AtHello
    <3>1. srv.id = srv.holder + 1
      BY <2>1 DEF AtHello
    <3>2. srv.id \in DOMAIN conns /\ srv.holder \in Nat
      BY SrvIs DEF IInv
    <3>3. PICK c \in Clients : cl[c].pc = "conn" /\ cl[c].sock = srv.id
      BY <3>1, <3>2 DEF Lockstep, Awaited
    <3> QED
      BY <3>3, InStep DEF Sock, Served
  <2> QED
    BY <2>1, InHandClient, Situation DEF InVain, Lockstep
<1> QED
  BY <1>1 DEF receive_zero, receive_error, sigpipe, RecvZero, RecvError

LEMMA AcceptClean ==
  ASSUME IInv, Lockstep, UNCHANGED cl, accept
  PROVE  Lockstep'
<1>1. PICK s \in Server :
        /\ srv' = s /\ s.pc = "recv" /\ s.state = srv.state
        /\ s.holder = srv.holder /\ s.lost = srv.lost
  BY AcceptStep DEF Accepts
<1>2. UNCHANGED conns
  BY DEF accept
<1>3. /\ srv'.pc # "dead" /\ srv'.lost = srv.lost
      /\ srv'.holder = srv.holder /\ srv'.state = srv.state
  BY <1>1
<1> QED
  BY <1>2, <1>3 DEF Lockstep, Awaited, Sock

(* Whatever a step of the server does.  It ends the program only where it   *)
(* is interrupted, and where it lists a directory that cannot be read.      *)
LEMMA ServerClean ==
  ASSUME IInv, CleanInv, ServerStep \/ Interrupt
  PROVE  CleanInv'
<1> SUFFICES ASSUME clean' PROVE IF srv'.pc = "dead" THEN NobodysFault' ELSE Lockstep'
  BY DEF CleanInv
<1>1. /\ UNCHANGED <<cl, clean>>
      /\ \/ accept \/ receive \/ receive_zero \/ receive_error \/ sigpipe
         \/ server_ls_vanished \/ interrupt
  BY DEF ServerStep, Interrupt
<1>2. srv.pc # "dead"
  BY ServerStepIs
<1>3. Lockstep
  BY <1>1, <1>2 DEF CleanInv
<1>4. ~ receive_zero /\ ~ receive_error /\ ~ sigpipe
  <2>1. receive_zero \/ receive_error \/ sigpipe => srv.pc \in {"recv", "get"}
    BY DEF receive_zero, receive_error, sigpipe
  <2> QED
    BY <1>3, <2>1, ClientIsThere
<1>5. CASE accept \/ receive
  <2>1. Lockstep'
    BY <1>1, <1>3, <1>5, AcceptClean, ReceiveClean
  <2> QED
    BY <2>1 DEF Lockstep
<1>6. CASE server_ls_vanished \/ interrupt
  <2>1. PICK why \in {"interrupt", "listing"} :
          srv' = [srv EXCEPT !.pc = "dead", !.cause = why]
    BY <1>6 DEF server_ls_vanished, interrupt, ServerDies
  <2>2. srv'.pc = "dead" /\ srv'.lost = srv.lost /\ srv'.cause = why
    <3>1. PICK v \in Server, p \in ServerPcs, w \in Causes : v = srv /\ p = "dead" /\ w = why
      BY SrvIs DEF IInv, ServerPcs, Causes
    <3>2. LET t == Dying(v, p, w) IN t.pc = p /\ t.lost = v.lost /\ t.cause = w
      BY DyingIs
    <3>3. srv' = Dying(v, p, w)
      BY <2>1, <3>1 DEF Dying
    <3> QED
      BY <3>1, <3>2, <3>3
  <2> QED
    BY <1>3, <2>2 DEF Lockstep, NobodysFault
<1> QED
  BY <1>1, <1>4, <1>5, <1>6

------------------------------------------------------------------------------
(* A session whose answers were read whole, and which no client left but by *)
(* bye, keeps client and server in step, for as long as the server runs;    *)
(* and it lasts until it is interrupted, or cannot list its directory.      *)
THEOREM InStepWhileClean == Spec => []CleanInv
<1>1. Init => CleanInv
  <2> SUFFICES ASSUME Init PROVE srv.pc # "dead" /\ Lockstep
    BY DEF CleanInv
  <2>1. srv.pc = "accept" /\ srv.state = "IDLE" /\ ~ srv.lost /\ conns = <<>>
    BY DEF Init, ServerInit
  <2>2. DOMAIN conns = {}
    BY <2>1
  <2> QED
    BY <2>1, <2>2 DEF Lockstep
<1>2. IInv /\ CleanInv /\ [Next]_netvars => CleanInv'
  <2> SUFFICES ASSUME IInv, CleanInv, [Next]_netvars PROVE CleanInv'
    OBVIOUS
  <2>1. CASE ServerStep \/ Interrupt
    BY <2>1, ServerClean
  <2>2. CASE \E c \in Clients : ClientStep(c)
    BY <2>2, ClientClean
  <2>3. CASE UNCHANGED netvars
    BY <2>3 DEF netvars, CleanInv, NobodysFault, Lockstep, Awaited, Sock
  <2> QED
    BY <2>1, <2>2, <2>3 DEF Next
<1> QED
  BY <1>1, <1>2, TransferInvariant, PTL DEF Spec

(* As long as every answer is read whole and clients leave by bye, the      *)
(* server loses no session, and does not end on a message of no bytes or on *)
(* a send to a client that has gone: if it has ended, it was interrupted,   *)
(* or an ls met a directory that cannot be read, whose missing list it      *)
(* dereferences.                                                            *)
THEOREM CleanSessionsAreKept == Spec => []CleanSessionsSurvive
<1>1. CleanInv => CleanSessionsSurvive
  BY DEF CleanInv, NobodysFault, Lockstep, CleanSessionsSurvive
<1> QED
  BY <1>1, InStepWhileClean, PTL

(* The two copies of conn_state agree while nothing is under way: the       *)
(* session of a client that is CONNECTED is the one that the server holds,  *)
(* on the connection that it serves, and if every answer was read whole the *)
(* server is not waiting for a done.                                        *)
THEOREM CopiesAgree == Spec => []Agreement
<1>1. IInv /\ CleanInv => Agreement
  <2> SUFFICES ASSUME IInv, CleanInv, NEW c \in Clients,
                      cl[c].state = "CONNECTED", Idle(c), srv.pc # "dead"
               PROVE  /\ srv.state # "IDLE" /\ srv.holder = cl[c].sock /\ srv.id = cl[c].sock
                      /\ clean => srv.state = "CONNECTED"
    BY DEF Agreement
  <2>1. cl[c].pc = "prompt" /\ Active(cl[c])
    BY DEF Idle, Active
  <2>2. TypeInv /\ SessionOK /\ ClientOK(c)
    BY DEF IInv, SessionOK
  <2>3. InsideOK(c) /\ Holds(c)
    BY <2>1, <2>2 DEF ClientOK, InsideOK
  <2>4. srv.state # "IDLE" /\ srv.holder = cl[c].sock
    BY <2>3 DEF Holds
  <2>5. srv.id = srv.holder
    <3>1. Sock(c).cend = "open" /\ Sock(c) = conns[srv.holder]
      BY <2>3, <2>4 DEF InsideOK, Sock
    <3>2. HolderOK /\ ~ srv.lost
      BY <2>2, <3>1 DEF SessionOK, HolderOK
    <3>3. srv.pc \in {"accept", "recv", "get"}
      BY <2>2, SrvIs DEF Server
    <3> QED
      BY <2>4, <3>2, <3>3 DEF HolderOK
  <2>6. ASSUME clean PROVE srv.state = "CONNECTED"
    <3>1. Lockstep
      BY <2>6 DEF CleanInv
    <3> QED
      BY <2>1, <3>1, AtWork, TalkIs DEF Quiet
  <2> QED
    BY <2>4, <2>5, <2>6
<1> QED
  BY <1>1, InStepWhileClean, TransferInvariant, PTL

------------------------------------------------------------------------------
(* What get makes of a file that is at most one buffer, or whole buffers.   *)

Whole(n) == n <= Buf \/ n % Buf = 0
FirstUnits(b) == \A i \in 1 .. Len(b) : b[i] = Unit(i)
LastUnits(r, n) == \A i \in 1 .. Len(r) : r[i] = Unit(n - Len(r) + i)

(* Before the answer to get is read: all of it is there, or none.           *)
FileOf(ms, n) ==
  /\ ms # <<>> /\ ms[1] = Header(n)
  /\ Len(ms) = 1 \/ (Len(ms) = n + 1 /\ \A i \in 1 .. n : ms[i + 1] = Unit(i))
Offered(cn, st, alive) ==
  \/ alive /\ Asked("get", cn, st)
  \/ ~ alive /\ cn.rep = <<>>
  \/ (alive => Sending(cn, st)) /\ \E n \in Sizes : FileOf(cn.rep, n)

(* While it is read: what is unread ends the file, and as much was written  *)
(* as is missing from it, or more, if a recv was short.                     *)
Missing(size, left, n) ==
  n < size => left = size - n /\ (left % Buf = 0 \/ n = 0)
Filling(size, left, b, r) ==
  /\ Len(r) <= size /\ Len(b) <= size /\ Len(b) + Len(r) >= size
  /\ LastUnits(r, size)
  /\ Missing(size, left, Len(b))
  /\ Len(b) + Len(r) = size => FirstUnits(b)
Fills(s, cn, st, alive, tmp) ==
  /\ tmp = s.old
  /\ alive => Sending(cn, st)
  /\ \/ Filling(s.size, s.left, s.buf, cn.rep)
     \/ cn.rep = <<>> /\ (alive => s.buf = <<>>)

(* After it was written: a recv that was short left something to be read.   *)
Filled(s, cn, alive, tmp) ==
  \/ cn.rep # <<>> /\ IsUnit(cn.rep[1])
  \/ ~ alive /\ cn.rep = <<>>
  \/ tmp = s.old \o Content(s.size)

Fetches(s, cn, st, alive, tmp) ==
  s.sync =>
    /\ s.pc = "get_ok" => Offered(cn, st, alive)
    /\ s.pc = "get_data" /\ Whole(s.size) => Fills(s, cn, st, alive, tmp)
    /\ s.pc = "get_done" /\ Whole(s.size) => Filled(s, cn, alive, tmp)
Fetch(c) == Fetches(cl[c], Sock(c), srv.state, srv.pc # "dead", disk[c].tmp)
Intact(f) == f # NoFile /\ f.sync /\ Whole(f.size) => f.data = f.old \o Content(f.size)
FetchInv == \A c \in Clients : Fetch(c) /\ Intact(disk[c].file)

(* A recv of units brings a buffer of them at most.                         *)
LEMMA UnitsRead ==
  ASSUME NEW r \in Seq(Pieces), NEW n \in Int, LastUnits(r, n), NEW k \in Recv(r)
  PROVE  k \in 1 .. Len(r) /\ k <= Buf
<1>1. k \in 1 .. Len(r) /\ Len(r) \in Nat
  BY RecvIs
<1> DEFINE U == {i \in 1 .. k : IsUnit(r[i])}
<1>2. Cardinality(U) < Buf \/ (Cardinality(U) = Buf /\ k = Buf)
  BY DEF Recv
<1>3. \A i \in 1 .. Len(r) : IsUnit(r[i])
  BY DEF LastUnits, IsUnit, Unit
<1>4. U = 1 .. k
  BY <1>1, <1>3
<1>5. Cardinality(1 .. k) = k
  <2>1. 1 \in Int /\ k \in Int /\ k >= 1
    BY <1>1
  <2>2. Cardinality(1 .. k) = IF 1 > k THEN 0 ELSE k - 1 + 1
    BY <2>1, FS_Interval
  <2> QED
    BY <2>1, <2>2
<1> HIDE DEF U
<1> QED
  BY <1>1, <1>2, <1>4, <1>5, Bounds

(* The units of a file, all of them, are its content.                       *)
LEMMA AllUnits ==
  ASSUME NEW b \in Data, FirstUnits(b), NEW n, n = Len(b)
  PROVE  b = Content(n)
<1>1. DOMAIN b = 1 .. n /\ b = [i \in 1 .. n |-> b[i]]
  BY DEF Data
<1>2. \A i \in 1 .. n : b[i] = Unit(i)
  BY DEF FirstUnits
<1> QED
  BY <1>1, <1>2 DEF Content

(* What is left of a number of whole buffers.                               *)
LEMMA Quotient ==
  ASSUME NEW d \in Nat \ {0}, NEW l \in Nat
  PROVE  l = d * (l \div d) + (l % d)
  OBVIOUS

LEMMA Multiple ==
  ASSUME NEW d \in Nat \ {0}, NEW q \in Nat
  PROVE  (d * q) % d = 0
  OBVIOUS

LEMMA WholeBuffers ==
  ASSUME NEW l \in Nat, l > 0, l % Buf = 0
  PROVE  l >= Buf /\ (l - Buf) % Buf = 0
<1>1. Buf \in Nat \ {0}
  BY Bounds
<1>2. l >= Buf
  BY <1>1
<1>3. PICK q \in Nat : q = l \div Buf
  BY <1>1
<1>4. l = Buf * q /\ q # 0
  BY <1>1, <1>3, Quotient
<1>5. q - 1 \in Nat /\ l - Buf = Buf * (q - 1)
  BY <1>1, <1>4
<1>6. (Buf * (q - 1)) % Buf = 0
  BY <1>1, <1>5, Multiple
<1> QED
  BY <1>2, <1>5, <1>6

(* The numbers: b units written, r unread, of size, when k are received and *)
(* n written for them.                                                      *)
Portion(left) == IF left <= Buf THEN left ELSE Buf
LEMMA Numbers ==
  ASSUME NEW size \in Sizes, NEW left \in Int, NEW b \in Nat, NEW r \in Nat,
         r <= size, b < size, b + r >= size, Missing(size, left, b), Whole(size),
         NEW k \in 1 .. r, k <= Buf, NEW n, n = Portion(left)
  PROVE  /\ n \in Nat /\ k <= n /\ b + n <= size
         /\ Missing(size, left - Buf, b + n)
<1>1. /\ Buf \in Nat /\ Buf # 0 /\ size \in Nat /\ left = size - b
      /\ left \in Nat /\ left > 0 /\ (left % Buf = 0 \/ b = 0)
  BY Bounds DEF Sizes, Missing
<1>2. n \in Nat /\ b + n <= size
  BY <1>1 DEF Portion
<1>3. k <= n
  <2>1. CASE left % Buf = 0
    BY <1>1, <2>1, WholeBuffers DEF Portion
  <2>2. CASE b = 0
    BY <1>1, <2>2 DEF Portion
  <2> QED
    BY <1>1, <2>1, <2>2
<1>4. ASSUME b + n < size
      PROVE  left - Buf = size - (b + n) /\ (left - Buf) % Buf = 0
  <2>1. n = Buf /\ left > Buf
    BY <1>1, <1>4 DEF Portion
  <2>2. left % Buf = 0
    BY <1>1, <2>1 DEF Whole
  <2> QED
    BY <1>1, <2>1, <2>2, WholeBuffers
<1> QED
  BY <1>2, <1>3, <1>4 DEF Missing

LEMMA FillingMore ==
  ASSUME TypeInv, NEW size \in Sizes, NEW left \in Int, NEW b \in Data,
         NEW r \in Seq(Pieces), Filling(size, left, b, r), Whole(size), Len(b) < size,
         NEW k \in Recv(r), NEW n, n = Portion(left)
  PROVE  Filling(size, left - Buf, b \o Written(SubSeq(r, 1, k), n), Rest(r, k))
<1> DEFINE p == SubSeq(r, 1, k)
           w == Written(p, n)
           v == b \o w
           t == Rest(r, k)
<1>1. /\ Len(b) \in Nat /\ Len(r) \in Nat /\ size \in Int
      /\ Len(r) <= size /\ Len(b) + Len(r) >= size
      /\ Missing(size, left, Len(b)) /\ LastUnits(r, size)
  BY DEF Filling, Sizes, Data
<1>2. k \in 1 .. Len(r) /\ k <= Buf
  BY <1>1, UnitsRead
<1>3. /\ n \in Nat /\ k <= n /\ Len(b) + n <= size
      /\ Missing(size, left - Buf, Len(b) + n)
  <2>1. PICK x \in Nat, y \in Nat : x = Len(b) /\ y = Len(r)
    BY <1>1
  <2>2. /\ y <= size /\ x < size /\ x + y >= size
        /\ Missing(size, left, x) /\ k \in 1 .. y
    BY <1>1, <1>2, <2>1
  <2>3. n \in Nat /\ k <= n /\ x + n <= size /\ Missing(size, left - Buf, x + n)
    BY <1>2, <2>2, Numbers
  <2> QED
    BY <2>1, <2>3
<1>4. /\ p \in Seq(Pieces) /\ Len(p) = k /\ \A i \in 1 .. k : p[i] = r[i]
      /\ t \in Seq(Pieces) /\ Len(t) = Len(r) - k /\ \A i \in 1 .. Len(t) : t[i] = r[k + i]
  <2>1. \A i \in 1 .. k : p[i] = r[i]
    BY <1>2
  <2> QED
    BY <1>2, <2>1, RestIs
<1>5. /\ w \in Data /\ Len(w) = n
      /\ \A i \in 1 .. n : w[i] = IF i <= Len(p) /\ IsUnit(p[i]) THEN p[i] ELSE Junk
  <2>1. w \in Data
    <3> HIDE DEF p
    <3> QED
      BY <1>3, <1>4, WrittenIs
  <2> QED
    BY <1>3, <2>1, WrittenLength
<1> HIDE DEF p, t, w
<1>6. /\ v \in Data /\ Len(v) = Len(b) + n
      /\ \A i \in 1 .. Len(b) : v[i] = b[i]
      /\ \A i \in 1 .. n : v[Len(b) + i] = w[i]
  <2>1. PICK S : b \in Seq(S) /\ w \in Seq(S) /\ Data = Seq(S)
    BY <1>5 DEF Data
  <2>2. v \in Seq(S) /\ Len(v) = Len(b) + n
    BY <1>3, <1>5, <2>1, ConcatProperties
  <2>3. \A i \in 1 .. Len(b) : v[i] = b[i]
    BY <2>1, ConcatProperties
  <2>4. \A i \in 1 .. n : v[Len(b) + i] = w[i]
    BY <1>1, <1>3, <1>5, <2>1
  <2> QED
    BY <2>1, <2>2, <2>3, <2>4
<1> HIDE DEF v
<1>7. LastUnits(t, size)
  <2> SUFFICES ASSUME NEW i \in 1 .. Len(t) PROVE t[i] = Unit(size - Len(t) + i)
    BY DEF LastUnits
  <2>1. k + i \in 1 .. Len(r) /\ size - Len(r) + (k + i) = size - Len(t) + i
    BY <1>1, <1>2, <1>4
  <2>2. r[k + i] = Unit(size - Len(r) + (k + i))
    BY <1>1, <2>1 DEF LastUnits
  <2> QED
    BY <1>4, <2>1, <2>2
<1>8. ASSUME Len(v) + Len(t) = size PROVE FirstUnits(v)
  <2>1. n = k /\ Len(b) + Len(r) = size
    <3>1. Len(b) + n + (Len(r) - k) = size
      BY <1>4, <1>6, <1>8
    <3> QED
      BY <1>1, <1>2, <1>3, <3>1
  <2>2. FirstUnits(b)
    BY <2>1 DEF Filling
  <2> SUFFICES ASSUME NEW i \in 1 .. Len(v) PROVE v[i] = Unit(i)
    BY DEF FirstUnits
  <2>3. CASE i <= Len(b)
    <3>1. i \in 1 .. Len(b)
      BY <1>1, <1>3, <1>6, <2>3
    <3> QED
      BY <1>6, <2>2, <3>1 DEF FirstUnits
  <2>4. CASE i > Len(b)
    <3>1. PICK j \in 1 .. n : i = Len(b) + j
      <4>1. i - Len(b) \in 1 .. n /\ i = Len(b) + (i - Len(b))
        BY <1>1, <1>3, <1>6, <2>4
      <4> QED
        BY <4>1
    <3>2. j \in 1 .. k /\ j \in 1 .. Len(r) /\ j <= Len(p) /\ size - Len(r) + j = i
      <4>1. j \in 1 .. k /\ Len(p) = k /\ Len(r) \in Nat /\ k \in 1 .. Len(r)
        BY <1>1, <1>2, <1>4, <2>1
      <4>2. size - Len(r) = Len(b) /\ Len(b) \in Nat
        BY <1>1, <2>1
      <4> QED
        BY <3>1, <4>1, <4>2
    <3>3. r[j] = Unit(i)
      BY <1>1, <3>2 DEF LastUnits
    <3>4. p[j] = Unit(i) /\ IsUnit(p[j])
      BY <1>4, <3>2, <3>3 DEF IsUnit, Unit
    <3> QED
      BY <1>5, <1>6, <3>1, <3>2, <3>4
  <2> QED
    BY <1>1, <1>6, <2>3, <2>4
<1>9. /\ Len(t) <= size /\ Len(v) <= size /\ Len(v) + Len(t) >= size
      /\ Missing(size, left - Buf, Len(v))
  <2>1. Len(t) = Len(r) - k /\ Len(v) = Len(b) + n
    BY <1>4, <1>6
  <2>2. Missing(size, left - Buf, Len(v))
    BY <1>3, <2>1
  <2>3. /\ Len(r) - k <= size /\ Len(b) + n <= size
        /\ (Len(b) + n) + (Len(r) - k) >= size
    <3>1. PICK x \in Nat, y \in Nat : x = Len(b) /\ y = Len(r)
      BY <1>1
    <3>2. y <= size /\ x + y >= size /\ k \in 1 .. y /\ k <= n /\ x + n <= size
      BY <1>1, <1>2, <1>3, <3>1
    <3>3. y - k <= size /\ (x + n) + (y - k) >= size
      BY <1>1, <1>3, <3>2
    <3> QED
      BY <3>1, <3>2, <3>3
  <2> QED
    BY <2>1, <2>2, <2>3
<1>10. Filling(size, left - Buf, v, t)
  BY <1>7, <1>8, <1>9 DEF Filling
<1> QED
  BY <1>10 DEF v, w, p, t

------------------------------------------------------------------------------
(* A step of a client keeps what its copy of a file is made of.             *)

(* What is done to the disk of a client.                                    *)
LEMMA DiskSets ==
  ASSUME TypeInv, NEW c \in Clients, NEW t
  PROVE  /\ disk' = [disk EXCEPT ![c].tmp = t] =>
              /\ disk'[c].tmp = t /\ disk'[c].file = disk[c].file
              /\ \A d \in Clients \ {c} : disk'[d] = disk[d]
         /\ disk' = [disk EXCEPT ![c] = t] =>
              disk'[c] = t /\ \A d \in Clients \ {c} : disk'[d] = disk[d]
<1>1. PICK T, F : disk \in [Clients -> [tmp : T, file : F]]
  BY DEF TypeInv, DiskOK
<1>2. disk[c] \in [tmp : T, file : F]
  BY <1>1
<1>3. /\ [disk[c] EXCEPT !.tmp = t].tmp = t
      /\ [disk[c] EXCEPT !.tmp = t].file = disk[c].file
  BY <1>2
<1> QED
  BY <1>1, <1>3

(* The other clients are not concerned.                                     *)
LEMMA OthersSame ==
  ASSUME TypeInv, OwnSockets, NEW c \in Clients, ClientStep(c), NEW d \in Clients \ {c}
  PROVE  cl'[d] = cl[d] /\ disk'[d] = disk[d] /\ (cl[d].sock # 0 => Sock(d)' = Sock(d))
<1>1. disk'[d] = disk[d]
  <2>1. CASE UNCHANGED disk
    BY <2>1
  <2>2. CASE get_ok(c) \/ get_torn(c) \/ get_close(c) \/ get_done(c) \/ quit(c)
    <3>1. \/ UNCHANGED disk
          \/ \E t : disk' = [disk EXCEPT ![c].tmp = t]
          \/ \E t : disk' = [disk EXCEPT ![c] = t]
      BY <2>2 DEF get_ok, get_torn, Downloads, get_close, get_done, quit
    <3> QED
      BY <3>1, DiskSets
  <2> QED
    BY <2>1, <2>2 DEF ClientStep, Typed, Waits, conn, conn_reply, conn_fails, bye, bye_reply,
       recv_error, ls, ls_ok, ls_listing, get, get_not_ok, get_data, get_crash
<1>2. Begins(c) \/ MovesKeeps(c) \/ Rests(c)
  BY ClientStepIs, StepKeeps
<1>3. cl[d].sock # 0 => cl[d].sock \in DOMAIN conns
  BY SockIs
<1>4. CASE Begins(c)
  BY <1>1, <1>3, <1>4, BeginsIs DEF Sock
<1>5. CASE MovesKeeps(c)
  <2>1. PICK s, x : Moves(c, s, x)
    BY <1>5 DEF MovesKeeps
  <2>2. /\ \A k \in DOMAIN conns : k # cl[c].sock => conns'[k] = conns[k]
        /\ cl'[d] = cl[d]
    BY <2>1, MovesIs
  <2>3. cl[d].sock # 0 => cl[d].sock # cl[c].sock
    BY DEF OwnSockets
  <2> QED
    BY <1>1, <1>3, <2>2, <2>3 DEF Sock
<1>6. CASE Rests(c)
  <2>1. cl'[d] = cl[d]
    BY <1>6 DEF Rests, TypeInv, ClientsOK
  <2> QED
    BY <1>1, <1>6, <2>1 DEF Rests, Sock
<1> QED
  BY <1>2, <1>4, <1>5, <1>6

(* Only get is concerned with it.                                           *)
Fetching(s) == s.pc \in {"get_ok", "get_data", "get_done"}
LEMMA NotFetching ==
  ASSUME NEW s, ~ Fetching(s), NEW cn, NEW st, NEW alive, NEW tmp
  PROVE  Fetches(s, cn, st, alive, tmp)
BY DEF Fetches, Fetching

LEMMA FetchMoves ==
  ASSUME IInv, FetchInv, NEW c \in Clients, ClientStep(c),
         Fetch(c)', Intact(disk'[c].file)
  PROVE  FetchInv'
<1>1. TypeInv /\ OwnSockets
  BY DEF IInv
<1>2. ASSUME NEW d \in Clients \ {c} PROVE Fetch(d)' /\ Intact(disk'[d].file)
  <2>1. cl'[d] = cl[d] /\ disk'[d] = disk[d] /\ (cl[d].sock # 0 => Sock(d)' = Sock(d))
    BY <1>1, OthersSame
  <2>2. UNCHANGED srv
    BY DEF ClientStep
  <2>3. CASE cl[d].sock = 0
    <3>1. ~ Fetching(cl'[d])
      BY <1>1, <2>1, <2>3 DEF Fetching, TypeInv, ClientsOK
    <3> QED
      BY <2>1, <3>1, NotFetching DEF Fetch, FetchInv
  <2>4. CASE cl[d].sock # 0
    BY <2>1, <2>2, <2>4 DEF Fetch, FetchInv
  <2> QED
    BY <2>3, <2>4
<1>3. (Intact(disk[c].file))' = Intact(disk'[c].file)
  BY DEF Intact, Whole, Content, Unit
<1>4. \A d \in Clients : (Intact(disk[d].file))' = Intact(disk'[d].file)
  BY DEF Intact, Whole, Content, Unit
<1> QED
  BY <1>2, <1>4 DEF FetchInv

(* The client's own connection after a step on it.                          *)
LEMMA SockAfter ==
  ASSUME TypeInv, NEW c \in Clients, cl[c].sock # 0, NEW s, SetClient(c, s), s.sock = cl[c].sock
  PROVE  /\ cl'[c] = s
         /\ \A x : SetConn(c, x) => Sock(c)' = x
         /\ UNCHANGED conns => Sock(c)' = Sock(c)
<1>1. cl'[c] = s
  BY DEF SetClient, TypeInv, ClientsOK
<1>2. cl[c].sock \in DOMAIN conns
  BY SockIs
<1> QED
  BY <1>1, <1>2 DEF SetConn, Sock

(* A client in get whose server is alive has the session.                   *)
LEMMA FetchingHolds ==
  ASSUME IInv, NEW c \in Clients, Fetching(cl[c]) \/ Active(cl[c]), srv.pc # "dead"
  PROVE  /\ Holds(c) /\ Sock(c).cend = "open" /\ Sock(c).send = "open"
         /\ ~ Zero(c) /\ ~ Error(c)
<1>1. TypeInv /\ SessionOK
  BY DEF IInv
<1>2. Active(cl[c])
  BY <1>1, ActiveIs DEF Fetching
<1>3. ClientOK(c)
  BY <1>1 DEF SessionOK
<1>4. Holds(c) /\ Sock(c).cend = "open"
  BY <1>2, <1>3 DEF Active, ClientOK, InsideOK
<1> QED
  BY <1>4 DEF Holds, Zero, Error, RecvZero, RecvError

LEMMA FetchGet ==
  ASSUME IInv, FetchInv, NEW c \in Clients, ClientStep(c), get(c)
  PROVE  FetchInv'
<1>1. TypeInv /\ cl[c].pc = "prompt" /\ cl[c].state = "CONNECTED" /\ UNCHANGED srv
  BY DEF IInv, get, Types, ClientStep
<1>2. Active(cl[c]) /\ cl[c].sock # 0
  BY <1>1, ActiveIs DEF Active
<1>3. PICK s \in Client :
        /\ s.pc = "get_ok" /\ s.sock = cl[c].sock
        /\ s.sync = (Sock(c).rep = <<>> /\ Sock(c).req = <<>> /\ srv.state = "CONNECTED")
        /\ SetClient(c, s)
  BY <1>1, GetIs
<1> DEFINE x == Request(Sock(c), "get")
<1>4. SetConn(c, x) /\ UNCHANGED disk
  BY DEF get
<1>5. Sock(c) \in Conn
  BY <1>1, <1>2, SockIs
<1>6. x.rep = Sock(c).rep /\ (Sock(c).send = "open" => x.req = Append(Sock(c).req, "get"))
  BY <1>5, RequestIs DEF Conn, Requests
<1> HIDE DEF x
<1>7. cl'[c] = s /\ Sock(c)' = x
  BY <1>1, <1>2, <1>3, <1>4, SockAfter
<1>8. ASSUME s.sync PROVE Offered(x, srv.state, srv.pc # "dead")
  <2>1. x.rep = <<>>
    BY <1>3, <1>6, <1>8
  <2>2. CASE srv.pc = "dead"
    BY <2>1, <2>2 DEF Offered
  <2>3. CASE srv.pc # "dead"
    <3>1. Sock(c).send = "open" /\ Sock(c).req = <<>> /\ srv.state = "CONNECTED"
      BY <1>2, <1>3, <1>8, <2>3, FetchingHolds
    <3>2. x.req = <<"get">>
      <4>1. Append(<<>>, "get") = <<"get">>
        OBVIOUS
      <4> QED
        BY <1>6, <3>1, <4>1
    <3> QED
      BY <2>1, <2>3, <3>1, <3>2 DEF Offered, Asked
  <2> QED
    BY <2>2, <2>3
<1>9. Fetches(s, x, srv.state, srv.pc # "dead", disk'[c].tmp)
  BY <1>3, <1>8 DEF Fetches
<1>10. Fetch(c)'
  BY <1>1, <1>7, <1>9 DEF Fetch
<1> QED
  BY <1>4, <1>10, FetchMoves DEF FetchInv

(* The rest of a file after its header: all of it, or nothing.              *)
LEMMA AfterHeader ==
  ASSUME NEW r \in Seq(Pieces), NEW n \in Sizes, FileOf(r, n),
         NEW left, left = n, NEW b, b = <<>>
  PROVE  Rest(r, 1) = <<>> \/ Filling(n, left, b, Rest(r, 1))
<1> DEFINE t == Rest(r, 1)
<1>1. 1 \in 1 .. Len(r) /\ Len(r) \in Nat
  <2>1. Len(r) # 0
    BY EmptySeq DEF FileOf
  <2> QED
    BY <2>1
<1>2. t \in Seq(Pieces) /\ Len(t) = Len(r) - 1 /\ \A i \in 1 .. Len(t) : t[i] = r[1 + i]
  BY <1>1, RestIs
<1> HIDE DEF t
<1>3. Len(r) = 1 => t = <<>>
  BY <1>2, EmptySeq
<1>4. ASSUME Len(r) = n + 1, \A i \in 1 .. n : r[i + 1] = Unit(i)
      PROVE  Filling(n, left, b, t)
  <2>1. Len(t) = n /\ n \in Nat /\ Len(b) = 0
    BY <1>1, <1>2, <1>4, EmptySeq DEF Sizes
  <2>2. LastUnits(t, n)
    <3> SUFFICES ASSUME NEW i \in 1 .. Len(t) PROVE t[i] = Unit(n - Len(t) + i)
      BY DEF LastUnits
    <3>1. i \in 1 .. n /\ n - Len(t) + i = i /\ 1 + i = i + 1
      BY <2>1
    <3> QED
      BY <1>2, <1>4, <3>1
  <2>3. FirstUnits(b)
    BY <2>1 DEF FirstUnits
  <2>4. Missing(n, left, Len(b))
    BY <2>1 DEF Missing
  <2> QED
    BY <2>1, <2>2, <2>3, <2>4 DEF Filling
<1> QED
  BY <1>3, <1>4 DEF FileOf, t

LEMMA FetchGetOk ==
  ASSUME IInv, FetchInv, NEW c \in Clients, ClientStep(c), get_ok(c)
  PROVE  FetchInv'
<1>1. /\ TypeInv /\ cl[c].pc = "get_ok" /\ cl[c].sock # 0 /\ UNCHANGED srv
      /\ Sock(c).rep \in Seq(Pieces)
  BY ActiveIs, SockIs DEF IInv, get_ok, ClientStep
<1> DEFINE tmp == Opened(disk[c].tmp)
           x == Drop(c, 1)
<1>0. PICK n \in Sizes :
        /\ Downloads(c, n, x)
        /\ Sock(c).rep # <<>> /\ Sock(c).rep[1] = Header(n)
        /\ x.req = Sock(c).req /\ x.rep = Rest(Sock(c).rep, 1)
  BY <1>1, GetOkIs
<1> HIDE DEF x
<1>2. PICK s \in Client :
        /\ SetClient(c, s) /\ s.pc = "get_data" /\ s.sock = cl[c].sock
        /\ s.size = n /\ s.left = n /\ s.buf = <<>> /\ s.old = tmp
        /\ s.sync = cl[c].sync
        /\ Sock(c).rep # <<>> /\ Sock(c).rep[1] = Header(n)
        /\ SetConn(c, x)
        /\ x.req = Sock(c).req /\ x.rep = Rest(Sock(c).rep, 1)
  BY <1>0, <1>1, DownloadsIs
<1>3. disk' = [disk EXCEPT ![c].tmp = tmp]
  BY <1>0, <1>1, DownloadsIs
<1> HIDE DEF tmp
<1>4. disk'[c].tmp = tmp /\ disk'[c].file = disk[c].file
  BY <1>1, <1>3, DiskSets
<1>5. cl'[c] = s /\ Sock(c)' = x
  BY <1>1, <1>2, SockAfter
<1>6. ASSUME s.sync PROVE Fills(s, x, srv.state, srv.pc # "dead", tmp)
  <2>1. Offered(Sock(c), srv.state, srv.pc # "dead")
    BY <1>1, <1>2, <1>6 DEF FetchInv, Fetch, Fetches
  <2>2. PICK j \in Sizes : FileOf(Sock(c).rep, j)
    BY <1>2, <2>1 DEF Offered, Asked
  <2>3. srv.pc # "dead" => Sending(x, srv.state)
    BY <1>2, <2>1 DEF Offered, Asked, Sending
  <2>4. j = n
    BY <1>2, <2>2 DEF FileOf, Header
  <2>5. Rest(Sock(c).rep, 1) = <<>> \/ Filling(n, s.left, s.buf, Rest(Sock(c).rep, 1))
    BY <1>1, <1>2, <2>2, <2>4, AfterHeader
  <2> QED
    BY <1>2, <2>3, <2>5 DEF Fills
<1>7. Fetches(s, x, srv.state, srv.pc # "dead", disk'[c].tmp)
  BY <1>2, <1>4, <1>6 DEF Fetches
<1>8. Fetch(c)'
  BY <1>1, <1>5, <1>7 DEF Fetch
<1> QED
  BY <1>4, <1>8, FetchMoves DEF FetchInv

(* What is taken for a size is never the answer of a get that was typed     *)
(* with nothing unread.                                                     *)
LEMMA FetchGetTorn ==
  ASSUME IInv, FetchInv, NEW c \in Clients, ClientStep(c), get_torn(c)
  PROVE  FetchInv'
<1>1. /\ TypeInv /\ cl[c].pc = "get_ok" /\ cl[c].sock # 0 /\ UNCHANGED srv
      /\ Len(Sock(c).rep) > 1 /\ Sock(c).rep[1] = Ok(2)
  BY ActiveIs DEF IInv, get_torn, ClientStep
<1>2. PICK n \in Sizes : \E r \in Seq(Pieces) : Downloads(c, n, [Sock(c) EXCEPT !.rep = r])
  BY <1>1, TornIs DEF Sizes
<1>3. PICK x : Downloads(c, n, x)
  BY <1>2
<1>4. PICK s \in Client : SetClient(c, s) /\ s.sync = cl[c].sync
  BY <1>1, <1>3, DownloadsIs
<1>5. disk'[c].file = disk[c].file
  BY <1>1, <1>3, DownloadsIs, DiskSets
<1>6. ~cl[c].sync
  <2> SUFFICES ASSUME cl[c].sync PROVE FALSE
    OBVIOUS
  <2>1. Offered(Sock(c), srv.state, srv.pc # "dead")
    BY <1>1 DEF FetchInv, Fetch, Fetches
  <2>2. Sock(c).rep # <<>>
    BY <1>1, EmptySeq
  <2>3. PICK j \in Sizes : FileOf(Sock(c).rep, j)
    BY <2>1, <2>2 DEF Offered, Asked
  <2> QED
    BY <1>1, <2>3 DEF FileOf, Header, Ok
<1>7. cl'[c] = s
  BY <1>1, <1>4 DEF SetClient, TypeInv, ClientsOK
<1>8. Fetch(c)'
  BY <1>4, <1>6, <1>7 DEF Fetch, Fetches
<1> QED
  BY <1>5, <1>8, FetchMoves DEF FetchInv

LEMMA FetchGetData ==
  ASSUME IInv, FetchInv, NEW c \in Clients, ClientStep(c), get_data(c)
  PROVE  FetchInv'
<1>1. /\ TypeInv /\ cl[c].pc = "get_data" /\ cl[c].sock # 0 /\ UNCHANGED <<srv, disk>>
      /\ cl[c] \in Client /\ Sock(c).rep \in Seq(Pieces) /\ Fetching(cl[c])
  BY ActiveIs, SockIs DEF IInv, get_data, ClientStep, Fetching
<1>2. Len(cl[c].buf) < cl[c].size
  BY <1>1, GetDataIs
<1>3. cl[c].size \in Sizes /\ cl[c].left \in Int /\ cl[c].buf \in Data
  BY <1>1 DEF Client, Sizes, Data
<1> DEFINE Old == Fills(cl[c], Sock(c), srv.state, srv.pc # "dead", disk[c].tmp)
<1>4. Whole(cl[c].size) /\ cl[c].sync => Old
  BY <1>1 DEF FetchInv, Fetch, Fetches
<1>5. CASE \E s \in Client, k \in Recv(Sock(c).rep) :
             Receives(c, s, SubSeq(Sock(c).rep, 1, k)) /\ SetConn(c, Drop(c, k))
  <2>1. PICK s \in Client, k \in Recv(Sock(c).rep) :
          Receives(c, s, SubSeq(Sock(c).rep, 1, k)) /\ SetConn(c, Drop(c, k))
    BY <1>5
  <2> DEFINE x == Drop(c, k)
             p == SubSeq(Sock(c).rep, 1, k)
  <2>2. /\ s.pc = "get_data" /\ s.sock = cl[c].sock /\ SetClient(c, s)
        /\ s.size = cl[c].size /\ s.old = cl[c].old /\ s.sync = cl[c].sync
        /\ s.left = cl[c].left - Buf /\ s.buf = cl[c].buf \o Written(p, Counted(c))
    BY <2>1 DEF Receives
  <2>3. Sock(c).rep # <<>> /\ x.req = Sock(c).req /\ x.rep = Rest(Sock(c).rep, k)
    BY <1>1, DropIs
  <2> HIDE DEF x
  <2>4. cl'[c] = s /\ Sock(c)' = x
    BY <1>1, <2>1, <2>2, SockAfter DEF x
  <2>5. ASSUME Whole(s.size), s.sync
        PROVE  Fills(s, x, srv.state, srv.pc # "dead", disk[c].tmp)
    <3>1. Whole(cl[c].size) /\ Old
      BY <1>4, <2>2, <2>5
    <3>2. Filling(cl[c].size, cl[c].left, cl[c].buf, Sock(c).rep)
      BY <2>3, <3>1 DEF Fills
    <3>3. Counted(c) = Portion(cl[c].left)
      BY DEF Counted, Portion
    <3>4. PICK n : n = Counted(c)
      OBVIOUS
    <3>5. PICK sz \in Sizes, l \in Int, b \in Data, r \in Seq(Pieces) :
            sz = cl[c].size /\ l = cl[c].left /\ b = cl[c].buf /\ r = Sock(c).rep
      BY <1>1, <1>3
    <3>6. Filling(sz, l - Buf, b \o Written(SubSeq(r, 1, k), n), Rest(r, k))
      BY <1>1, <1>2, <3>1, <3>2, <3>3, <3>4, <3>5, FillingMore
    <3>7. Filling(s.size, s.left, s.buf, x.rep)
      BY <2>2, <2>3, <3>4, <3>5, <3>6
    <3>8. disk[c].tmp = s.old /\ (srv.pc # "dead" => Sending(x, srv.state))
      BY <2>2, <2>3, <3>1 DEF Fills, Sending
    <3> QED
      BY <3>7, <3>8 DEF Fills
  <2>6. Fetches(s, x, srv.state, srv.pc # "dead", disk[c].tmp)
    BY <2>2, <2>5 DEF Fetches
  <2>7. Fetch(c)'
    BY <1>1, <2>4, <2>6 DEF Fetch
  <2> QED
    BY <1>1, <2>7, FetchMoves DEF FetchInv
<1>6. CASE \E s \in Client : Receives(c, s, <<>>) /\ Zero(c) /\ UNCHANGED conns
  <2>1. PICK s \in Client : Receives(c, s, <<>>)
    BY <1>6
  <2>2. Zero(c) /\ UNCHANGED conns
    BY <1>6
  <2>3. /\ s.pc = "get_data" /\ s.sock = cl[c].sock /\ SetClient(c, s)
        /\ s.size = cl[c].size /\ s.old = cl[c].old /\ s.sync = cl[c].sync
    BY <2>1 DEF Receives
  <2>4. cl'[c] = s /\ Sock(c)' = Sock(c)
    BY <1>1, <2>2, <2>3, SockAfter
  <2>5. srv.pc = "dead" /\ Sock(c).rep = <<>>
    BY <1>1, <2>2, FetchingHolds DEF Zero, RecvZero
  <2>6. ASSUME Whole(s.size), s.sync
        PROVE  Fills(s, Sock(c), srv.state, srv.pc # "dead", disk[c].tmp)
    <3>1. Old
      BY <1>4, <2>3, <2>6
    <3> QED
      BY <2>3, <2>5, <3>1 DEF Fills
  <2>7. Fetches(s, Sock(c), srv.state, srv.pc # "dead", disk[c].tmp)
    BY <2>3, <2>6 DEF Fetches
  <2>8. Fetch(c)'
    BY <1>1, <2>4, <2>7 DEF Fetch
  <2> QED
    BY <1>1, <2>8, FetchMoves DEF FetchInv
<1> QED
  BY <1>1, <1>5, <1>6, GetDataIs

LEMMA FetchGetClose ==
  ASSUME IInv, FetchInv, NEW c \in Clients, ClientStep(c), get_close(c)
  PROVE  FetchInv'
<1>1. /\ TypeInv /\ cl[c].pc = "get_data" /\ cl[c].sock # 0 /\ UNCHANGED srv
      /\ cl[c] \in Client /\ Sock(c) \in Conn /\ Sock(c).rep \in Seq(Pieces)
      /\ Len(cl[c].buf) >= cl[c].size
  BY ActiveIs, SockIs DEF IInv, get_close, ClientStep
<1>2. /\ cl[c].size \in Sizes /\ cl[c].left \in Int
      /\ cl[c].buf \in Data /\ cl[c].old \in Data
  BY <1>1 DEF Client, Sizes, Data
<1>3. PICK s \in Client :
        /\ SetClient(c, s) /\ s.pc = "get_done"
        /\ s.sock = cl[c].sock /\ s.size = cl[c].size
        /\ s.old = cl[c].old /\ s.sync = cl[c].sync
  BY <1>1, GetCloseIs
<1> DEFINE x == Request(Sock(c), "done")
           tmp == disk[c].tmp \o cl[c].buf
<1>4. SetConn(c, x) /\ disk' = [disk EXCEPT ![c].tmp = tmp]
  BY DEF get_close
<1>5. x.rep = Sock(c).rep
  BY <1>1, RequestIs DEF Conn, Requests
<1> HIDE DEF x, tmp
<1>6. cl'[c] = s /\ Sock(c)' = x /\ disk'[c].tmp = tmp /\ disk'[c].file = disk[c].file
  BY <1>1, <1>3, <1>4, SockAfter, DiskSets
<1>7. ASSUME Whole(s.size), s.sync PROVE Filled(s, x, srv.pc # "dead", tmp)
  <2>1. Fills(cl[c], Sock(c), srv.state, srv.pc # "dead", disk[c].tmp)
    BY <1>1, <1>3, <1>7 DEF FetchInv, Fetch, Fetches
  <2>2. tmp = s.old \o cl[c].buf
    BY <1>3, <2>1 DEF Fills, tmp
  <2>3. ASSUME Filling(cl[c].size, cl[c].left, cl[c].buf, Sock(c).rep)
        PROVE  Filled(s, x, srv.pc # "dead", tmp)
    <3>1. /\ Len(cl[c].buf) = cl[c].size /\ cl[c].size \in Nat
          /\ Len(Sock(c).rep) = 0 => FirstUnits(cl[c].buf)
      <4>1. PICK z \in Sizes, l \in Int, b \in Data, r \in Seq(Pieces) :
              /\ z = cl[c].size /\ l = cl[c].left /\ b = cl[c].buf /\ r = Sock(c).rep
              /\ Filling(z, l, b, r)
        BY <1>1, <1>2, <2>3
      <4>2. Len(b) \in Nat /\ Len(r) \in Nat /\ z \in Int /\ Len(b) >= z
        BY <1>1, <4>1 DEF Data, Sizes
      <4>3. Len(b) <= z /\ (Len(b) + Len(r) = z => FirstUnits(b))
        BY <4>1 DEF Filling
      <4>4. Len(b) = z /\ z \in Nat /\ (Len(r) = 0 => FirstUnits(b))
        BY <4>2, <4>3
      <4> QED
        BY <4>1, <4>4
    <3>2. CASE Sock(c).rep = <<>>
      <4>1. FirstUnits(cl[c].buf)
        BY <3>1, <3>2
      <4>2. cl[c].buf = Content(cl[c].size)
        <5>1. PICK b \in Data, z \in Nat : b = cl[c].buf /\ z = cl[c].size
          BY <1>2, <3>1
        <5> QED
          BY <3>1, <4>1, <5>1, AllUnits
      <4> QED
        BY <1>3, <2>2, <4>2 DEF Filled
    <3>3. CASE Sock(c).rep # <<>>
      <4>1. 1 \in 1 .. Len(Sock(c).rep)
        BY <1>1, <3>3, EmptySeq
      <4>2. IsUnit(Sock(c).rep[1])
        BY <2>3, <4>1 DEF Filling, LastUnits, IsUnit, Unit
      <4> QED
        BY <1>5, <3>3, <4>2 DEF Filled
    <3> QED
      BY <3>2, <3>3
  <2>4. ASSUME Sock(c).rep = <<>>, srv.pc # "dead" => cl[c].buf = <<>>
        PROVE  Filled(s, x, srv.pc # "dead", tmp)
    <3>1. CASE srv.pc = "dead"
      BY <1>5, <2>4, <3>1 DEF Filled
    <3>2. CASE srv.pc # "dead"
      <4>1. cl[c].buf = <<>> /\ cl[c].size <= 0
        BY <1>1, <1>2, <2>4, <3>2 DEF Sizes
      <4>2. 1 .. cl[c].size = {}
        BY <1>2, <4>1 DEF Sizes
      <4>3. Content(cl[c].size) = <<>>
        BY <4>2 DEF Content
      <4> QED
        BY <1>3, <2>2, <4>1, <4>3 DEF Filled
    <3> QED
      BY <3>1, <3>2
  <2> QED
    BY <2>1, <2>3, <2>4 DEF Fills
<1>8. Fetches(s, x, srv.state, srv.pc # "dead", tmp)
  BY <1>3, <1>7 DEF Fetches
<1>9. Fetch(c)'
  BY <1>1, <1>6, <1>8 DEF Fetch
<1> QED
  BY <1>6, <1>9, FetchMoves DEF FetchInv

(* The file is renamed after an ok that nothing was unread before.          *)
LEMMA FetchGetDone ==
  ASSUME IInv, FetchInv, NEW c \in Clients, ClientStep(c), get_done(c)
  PROVE  FetchInv'
<1>1. /\ TypeInv /\ cl[c].pc = "get_done" /\ cl[c].sock # 0
      /\ cl[c] \in Client /\ Sock(c).rep \in Seq(Pieces)
  BY ActiveIs, SockIs DEF IInv, get_done
<1> DEFINE s == [Prompt(c) EXCEPT !.state = "CONNECTED"]
<1>2. ~ Fetching(s) /\ ~ Fetching(Prompt(c)) /\ s.sock = cl[c].sock
  BY <1>1, PromptIs, ZenonT(40) DEF Client, Fetching
<1>3. SetClient(c, s) \/ SetClient(c, Prompt(c))
  BY DEF get_done
<1> HIDE DEF s
<1>4. ~ Fetching(cl'[c])
  BY <1>1, <1>2, <1>3 DEF SetClient, TypeInv, ClientsOK
<1>5. Fetch(c)'
  BY <1>4, NotFetching DEF Fetch
<1>6. Intact(disk'[c].file)
  <2>1. CASE UNCHANGED disk
    BY <2>1 DEF FetchInv
  <2>2. CASE ~ UNCHANGED disk
    <3>1. PICK k \in Recv(Sock(c).rep) :
            /\ ExactlyOk(SubSeq(Sock(c).rep, 1, k))
            /\ disk' = [disk EXCEPT ![c] = [tmp |-> NoFile, file |-> Renamed(c)]]
      BY <2>2 DEF get_done
    <3>2. disk'[c].file = Renamed(c)
      <4>1. PICK t : t = [tmp |-> NoFile, file |-> Renamed(c)]
        OBVIOUS
      <4>2. disk'[c] = t
        BY <1>1, <3>1, <4>1, DiskSets
      <4> QED
        BY <4>1, <4>2
    <3>3. ASSUME cl[c].sync, Whole(cl[c].size)
          PROVE  disk[c].tmp = cl[c].old \o Content(cl[c].size)
      <4>1. Filled(cl[c], Sock(c), srv.pc # "dead", disk[c].tmp)
        BY <1>1, <3>3 DEF FetchInv, Fetch, Fetches
      <4>2. k \in 1 .. Len(Sock(c).rep) /\ Sock(c).rep # <<>>
        BY RecvIs
      <4>3. ~ IsUnit(Sock(c).rep[1])
        <5>1. PICK ms : ms = SubSeq(Sock(c).rep, 1, k)
          OBVIOUS
        <5>2. ms[1] = Sock(c).rep[1]
          BY <1>1, <4>2, <5>1
        <5>3. ms[1] = Ok(3) \/ ms = <<Ok(2)>>
          BY <3>1, <5>1 DEF ExactlyOk
        <5>4. ms[1] \in {Ok(3), Ok(2)}
          BY <5>3
        <5> QED
          BY <5>2, <5>4 DEF IsUnit, Ok
      <4> QED
        BY <4>1, <4>2, <4>3 DEF Filled
    <3>4. Renamed(c).sync = cl[c].sync /\ Renamed(c).size = cl[c].size
          /\ Renamed(c).data = disk[c].tmp /\ Renamed(c).old = cl[c].old
      BY DEF Renamed
    <3> QED
      BY <3>2, <3>3, <3>4 DEF Intact
  <2> QED
    BY <2>1, <2>2
<1> QED
  BY <1>5, <1>6, FetchMoves

(* No other step of a client leaves it in get.                              *)
LEMMA FetchClient ==
  ASSUME IInv, FetchInv, NEW c \in Clients, ClientStep(c)
  PROVE  FetchInv'
<1>1. TypeInv /\ cl[c] \in Client /\ cl \in [Clients -> Client]
  BY ActiveIs DEF IInv, TypeInv, ClientsOK
<1>2. CASE \E s : SetClient(c, s) /\ ~ Fetching(s) /\ disk'[c].file = disk[c].file
  <2>1. ~ Fetching(cl'[c])
    BY <1>1, <1>2 DEF SetClient
  <2>2. Fetch(c)'
    BY <2>1, NotFetching DEF Fetch
  <2> QED
    BY <1>2, <2>2, FetchMoves DEF FetchInv
<1>3. CASE UNCHANGED <<cl, conns, disk>>
  <2>1. UNCHANGED srv
    BY DEF ClientStep
  <2>2. Fetch(c)'
    BY <1>3, <2>1 DEF Fetch, Sock, FetchInv
  <2> QED
    BY <1>3, <2>2, FetchMoves DEF FetchInv
<1>4. CASE get(c)
  BY <1>4, FetchGet
<1>5. CASE get_ok(c) \/ get_torn(c)
  BY <1>5, FetchGetOk, FetchGetTorn
<1>6. CASE get_data(c)
  BY <1>6, FetchGetData
<1>7. CASE get_close(c)
  BY <1>7, FetchGetClose
<1>8. CASE get_done(c)
  BY <1>8, FetchGetDone
<1>9. CASE conn_reply(c) \/ bye_reply(c) \/ conn_fails(c) \/ recv_error(c)
           \/ ls_listing(c) \/ get_not_ok(c)
  <2> DEFINE r == [Prompt(c) EXCEPT !.state = "CONNECTED", !.id = 1]
  <2>1. Prompt(c).pc = "prompt" /\ Prompt(c) \in Client
    BY <1>1, PromptIs
  <2>2. r.pc = "prompt" /\ finish(c).pc = "prompt"
    BY <2>1 DEF Client, finish
  <2>3. SetClient(c, r) \/ SetClient(c, finish(c)) \/ SetClient(c, Prompt(c))
    BY <1>9 DEF conn_reply, bye_reply, conn_fails, recv_error, ls_listing, get_not_ok
  <2>4. UNCHANGED disk
    BY <1>9 DEF conn_reply, bye_reply, conn_fails, recv_error, ls_listing, get_not_ok
  <2> HIDE DEF r
  <2> QED
    BY <1>2, <2>1, <2>2, <2>3, <2>4 DEF Fetching
<1>10. CASE bye(c) \/ ls(c) \/ ls_ok(c)
  <2>1. PICK p \in {"bye", "ls_ok", "ls", "prompt"} : SetClient(c, [cl[c] EXCEPT !.pc = p])
    BY <1>10 DEF bye, ls, ls_ok, Prompt
  <2>2. UNCHANGED disk
    BY <1>10 DEF bye, ls, ls_ok
  <2> DEFINE s == [cl[c] EXCEPT !.pc = p]
  <2>3. s.pc = p
    BY <1>1 DEF Client
  <2>4. ~ Fetching(s) /\ SetClient(c, s)
    BY <2>1, <2>3 DEF Fetching
  <2> HIDE DEF s
  <2> QED
    BY <1>2, <2>2, <2>4
<1>11. CASE conn(c)
  <2>1. CASE srv.pc = "dead"
    BY <1>3, <1>11, <2>1 DEF conn
  <2>2. CASE srv.pc # "dead"
    <3> DEFINE s == [cl[c] EXCEPT !.pc = "conn", !.sock = Len(conns) + 1]
    <3>1. SetClient(c, s) /\ UNCHANGED disk
      BY <1>11, <2>2 DEF conn
    <3>2. s.pc = "conn"
      BY <1>1 DEF Client
    <3> HIDE DEF s
    <3> QED
      BY <1>2, <3>1, <3>2 DEF Fetching
  <2> QED
    BY <2>1, <2>2
<1>12. CASE quit(c) \/ get_crash(c)
  <2>1. SetClient(c, init) /\ init.pc = "prompt"
    BY <1>12 DEF quit, get_crash, Leave, init
  <2>2. UNCHANGED disk \/ \E t : disk' = [disk EXCEPT ![c].tmp = t]
    BY <1>12 DEF quit, get_crash
  <2>3. disk'[c].file = disk[c].file
    BY <1>1, <2>2, DiskSets
  <2> QED
    BY <1>2, <2>1, <2>3 DEF Fetching
<1> QED
  BY <1>4, <1>5, <1>6, <1>7, <1>8, <1>9, <1>10, <1>11, <1>12 DEF ClientStep, Typed, Waits

------------------------------------------------------------------------------
(* A step of the server keeps it, too.                                      *)

(* While a client is in get, whatever the server receives is from it.       *)
LEMMA FetchingInHand ==
  ASSUME IInv, NEW c \in Clients, Fetching(cl[c]), srv.pc \in {"recv", "get"}
  PROVE  /\ InHand /\ srv.id = cl[c].sock /\ Served = Sock(c) /\ Served.cend = "open"
         /\ ~ receive_zero /\ ~ receive_error
<1>1. Holds(c) /\ Sock(c).cend = "open"
  BY FetchingHolds
<1>2. cl[c].sock = srv.holder /\ srv.state # "IDLE"
  BY <1>1 DEF Holds
<1>3. HolderOK
  BY DEF IInv, SessionOK
<1>4. ~ srv.lost
  BY <1>1, <1>2, <1>3 DEF HolderOK, Sock
<1>5. InHand
  BY <1>2, <1>4, Situation DEF AtHello, InVain
<1>6. srv.id = cl[c].sock
  BY <1>2, <1>5 DEF InHand
<1>7. Served = Sock(c)
  BY <1>6 DEF Served, Sock
<1>8. Served.cend = "open"
  BY <1>1, <1>7
<1>9. ~ receive_zero /\ ~ receive_error
  BY <1>8 DEF receive_zero, receive_error, RecvZero, RecvError
<1> QED
  BY <1>5, <1>6, <1>7, <1>8, <1>9

(* When the server dies, what it sent is still there to be read.            *)
LEMMA FetchDead ==
  ASSUME NEW s, NEW cn, NEW x, NEW st, NEW st2, NEW tmp,
         Fetches(s, cn, st, TRUE, tmp), x.rep = cn.rep
  PROVE  Fetches(s, x, st2, FALSE, tmp)
<1>1. Offered(cn, st, TRUE) => Offered(x, st2, FALSE)
  BY DEF Offered, Asked
<1>2. Fills(s, cn, st, TRUE, tmp) => Fills(s, x, st2, FALSE, tmp)
  BY DEF Fills
<1>3. Filled(s, cn, TRUE, tmp) => Filled(s, x, FALSE, tmp)
  BY DEF Filled
<1> QED
  BY <1>1, <1>2, <1>3 DEF Fetches

LEMMA FetchDies ==
  ASSUME IInv, NEW c \in Clients, Fetching(cl[c]), Fetch(c),
         srv.pc # "dead", NEW why, ServerDies(conns, why), UNCHANGED <<cl, disk>>
  PROVE  Fetch(c)'
<1>1. TypeInv /\ cl[c].sock # 0
  BY ActiveIs DEF IInv, Fetching
<1>2. cl[c].sock \in DOMAIN conns /\ Sock(c) \in Conn
  BY <1>1, SockIs
<1>3. Sock(c)' = CloseServer(Sock(c))
  BY <1>2 DEF ServerDies, Sock
<1>4. Sock(c)'.rep = Sock(c).rep
  BY <1>2, <1>3, CloseServerIs DEF Conn
<1>5. (srv.pc # "dead") = TRUE
  OBVIOUS
<1>6. (srv'.pc # "dead") = FALSE
  BY <1>1, SrvIs DEF ServerDies, Server
<1>7. Fetches(cl[c], Sock(c), srv.state, TRUE, disk[c].tmp)
  BY <1>5 DEF Fetch
<1>8. Fetches(cl[c], Sock(c)', srv'.state, FALSE, disk[c].tmp)
  BY <1>4, <1>7, FetchDead
<1> QED
  BY <1>6, <1>8 DEF Fetch

(* An answer comes after what is unread.                                    *)
Keeps(x, cn) == cn.rep # <<>> => x.rep # <<>> /\ x.rep[1] = cn.rep[1]
LEMMA AnswerKeeps ==
  ASSUME NEW cn \in Conn, cn.cend = "open", NEW ms \in Seq(Pieces)
  PROVE  Keeps(Answer(cn, ms), cn)
<1>1. Answer(cn, ms).rep = cn.rep \o ms
  BY AnswerIs DEF Conn
<1>0. cn.rep \in Seq(Pieces)
  BY DEF Conn, ConnOf
<1> DEFINE r == cn.rep
<1>2. r \in Seq(Pieces)
  BY <1>0
<1> HIDE DEF r
<1>3. ASSUME r # <<>> PROVE r \o ms # <<>> /\ (r \o ms)[1] = r[1]
  <2>1. 1 \in 1 .. Len(r) /\ Len(ms) \in Nat
    BY <1>2, <1>3, EmptySeq
  <2>2. (r \o ms)[1] = r[1] /\ Len(r \o ms) = Len(r) + Len(ms)
    BY <1>2, <2>1
  <2> QED
    BY <2>1, <2>2
<1> QED
  BY <1>1, <1>3 DEF r, Keeps

(* The failing listing is never of a client that is in get, unless it left  *)
(* units of its file unread, which come first.                              *)
LEMMA FetchVanished ==
  ASSUME IInv, NEW c \in Clients, Fetching(cl[c]), Fetch(c),
         server_ls_vanished, UNCHANGED <<cl, disk>>
  PROVE  Fetch(c)'
<1> DEFINE ok == Answer(Got(1), <<Ok(2)>>)
           x == CloseServer(ok)
           s == cl[c]
           tmp == disk[c].tmp
<1>1. /\ TypeInv /\ srv.pc = "recv" /\ Served.req # <<>> /\ Served.req[1] = "ls"
      /\ ServerDies([conns EXCEPT ![srv.id] = ok], "listing")
  BY DEF IInv, server_ls_vanished, Got
<1>2. srv.id = cl[c].sock /\ Served = Sock(c) /\ Served.cend = "open"
  BY <1>1, FetchingInHand
<1>3. srv.id \in DOMAIN conns /\ 1 \in 1 .. Len(Served.req)
  BY <1>1, SrvIs
<1>4. Got(1) \in Conn /\ Got(1).rep = Served.rep /\ Got(1).cend = "open"
  BY <1>1, <1>2, <1>3, GotIs
<1>5. <<Ok(2)>> \in Seq(Pieces)
  BY PieceKinds
<1>6. ok \in Conn /\ Keeps(ok, Served)
  <2>1. PICK cn \in Conn, ms \in Seq(Pieces) :
          /\ cn = Got(1) /\ cn.cend = "open" /\ cn.rep = Served.rep
          /\ ok = Answer(cn, ms)
    BY <1>4, <1>5
  <2>2. ok \in Conn /\ Keeps(ok, cn)
    BY <2>1, AnswerKeeps, AnswerIs DEF Conn
  <2> QED
    BY <2>1, <2>2 DEF Keeps
<1> HIDE DEF ok
<1>7. Keeps(x, Served)
  BY <1>6, CloseServerIs DEF Conn, Keeps
<1>8. Sock(c)' = x
  <2>1. conns' = [k \in DOMAIN conns |-> CloseServer([conns EXCEPT ![srv.id] = ok][k])]
    BY <1>1 DEF ServerDies
  <2>2. conns'[srv.id] = x
    BY <1>3, <2>1
  <2> QED
    BY <1>2, <2>2 DEF Sock
<1> HIDE DEF x
<1>9. (srv.pc # "dead") = TRUE /\ (srv'.pc # "dead") = FALSE
  BY <1>1, SrvIs DEF ServerDies, Server
<1>10. Fetches(s, Served, srv.state, TRUE, tmp)
  BY <1>2, <1>9 DEF Fetch
<1>11. ~ Offered(Served, srv.state, TRUE) /\ ~ Fills(s, Served, srv.state, TRUE, tmp)
  BY <1>1 DEF Offered, Asked, Fills, Sending
<1>12. Filled(s, Served, TRUE, tmp) => Filled(s, x, FALSE, tmp)
  BY <1>7 DEF Filled, Keeps
<1>13. Fetches(s, x, srv'.state, FALSE, tmp)
  BY <1>10, <1>11, <1>12 DEF Fetches
<1> QED
  BY <1>8, <1>9, <1>13 DEF Fetch

LEMMA ReceiveKeeps ==
  ASSUME IInv, InHand, receive, Served.cend = "open"
  PROVE  /\ srv.id \in DOMAIN conns /\ Keeps(conns'[srv.id], Served)
         /\ srv'.pc # "dead"
<1>1. TypeInv /\ srv.pc \in {"recv", "get"} /\ srv.state # "IDLE"
  BY DEF IInv, InHand
<1>2. srv.id \in DOMAIN conns /\ Served \in Conn
  BY <1>1, SrvIs
<1>3. PICK k \in 1 .. Len(Served.req) :
        IF srv.pc = "recv" THEN exec(Message(SubSeq(Served.req, 1, k)), Got(k))
        ELSE server_get_done(Message(SubSeq(Served.req, 1, k)), Got(k))
  BY DEF receive, Got
<1> DEFINE m == Message(SubSeq(Served.req, 1, k))
           cn == Got(k)
<1>4. cn \in Conn /\ cn.rep = Served.rep /\ cn.cend = "open"
  BY <1>1, GotIs
<1>5. IF srv.pc = "recv" THEN exec(m, cn) ELSE server_get_done(m, cn)
  BY <1>3
<1> HIDE DEF m, cn
<1>6. \E ms \in Seq(Pieces) :
        conns'[srv.id] \in {cn, Answer(cn, ms), CloseServer(Answer(cn, ms))}
  <2>1. \A x : conns' = [conns EXCEPT ![srv.id] = x] => conns'[srv.id] = x
    BY <1>2
  <2>2. <<Bye>> \in Seq(Pieces) /\ <<Ok(3)>> \in Seq(Pieces)
    BY PieceKinds
  <2>3. CASE server_hello(m, cn) \/ server_refuse(m, cn)
    BY <1>1, <2>1, <2>2, <2>3 DEF server_hello, server_refuse, Becomes
  <2>4. CASE server_bye(m, cn)
    BY <2>1, <2>2, <2>4 DEF server_bye, Becomes
  <2>5. CASE server_ls(m, cn)
    <3>1. <<Ok(2)>> \o list_dir(server_dir) \in Seq(Pieces)
      BY <1>1, ListingIs
    <3> QED
      BY <2>1, <2>5, <3>1 DEF server_ls, Becomes
  <2>6. CASE server_get(m, cn)
    <3> DEFINE z == IF m = "get" THEN file_size(server_file) ELSE -1
               b == server_file.writable
               ms == <<Header(z)>> \o IF z >= 0 /\ b THEN Content(z) ELSE <<>>
    <3>1. z \in Sizes /\ b \in BOOLEAN
      BY <1>1, Bounds DEF TypeInv, ServerFile, file_size, Sizes
    <3>2. conns' = [conns EXCEPT ![srv.id] = Answer(cn, ms)]
      BY <2>6 DEF server_get
    <3>3. ms \in Seq(Pieces)
      <4> HIDE DEF z, b
      <4> QED
        BY <3>1, FileIs
    <3> HIDE DEF ms
    <3> QED
      BY <2>1, <3>2, <3>3
  <2>7. CASE server_get_done(m, cn)
    BY <2>1, <2>2, <2>7 DEF server_get_done, Becomes
  <2> QED
    BY <1>5, <2>3, <2>4, <2>5, <2>6, <2>7 DEF exec
<1>7. PICK ms \in Seq(Pieces) :
        conns'[srv.id] \in {cn, Answer(cn, ms), CloseServer(Answer(cn, ms))}
  BY <1>6
<1>8. Keeps(Answer(cn, ms), cn) /\ Answer(cn, ms) \in Conn
  BY <1>4, AnswerKeeps, AnswerIs DEF Conn
<1>9. CloseServer(Answer(cn, ms)).rep = Answer(cn, ms).rep
  BY <1>8, CloseServerIs DEF Conn
<1>10. Keeps(conns'[srv.id], cn)
  BY <1>7, <1>8, <1>9 DEF Keeps
<1>11. Keeps(conns'[srv.id], Served)
  BY <1>4, <1>10 DEF Keeps
<1>12. srv'.pc # "dead"
  <2>1. ASSUME NEW s, NEW x, Becomes(x, s), s \in Server PROVE srv'.pc # "dead"
    BY <2>1, LoopIs DEF Becomes
  <2> QED
    <3>1. srv \in Server
      BY <1>1, SrvIs
    <3>2. CASE server_get(m, cn)
      BY <3>1, <3>2 DEF server_get, Server
    <3>3. CASE server_hello(m, cn) \/ server_refuse(m, cn) \/ server_ls(m, cn)
      BY <1>1, <2>1, <3>1, <3>3 DEF server_hello, server_refuse, server_ls
    <3>4. CASE server_bye(m, cn)
      <4>1. [srv EXCEPT !.state = "IDLE", !.fds = @ \ {0}] \in Server
        BY <3>1 DEF Server, SrvStates
      <4> QED
        BY <2>1, <3>4, <4>1 DEF server_bye
    <3>5. CASE server_get_done(m, cn)
      <4>1. [srv EXCEPT !.state = "CONNECTED"] \in Server
        BY <3>1 DEF Server, SrvStates
      <4> QED
        BY <2>1, <3>5, <4>1 DEF server_get_done
    <3> QED
      BY <1>5, <3>2, <3>3, <3>4, <3>5 DEF exec
<1> QED
  BY <1>2, <1>11, <1>12

(* The answer to the get of a client: all of the file, or none.             *)
LEMMA FileSent ==
  ASSUME IInv, InHand, Served.cend = "open", Asked("get", Served, srv.state), receive
  PROVE  \E n \in Sizes : FileOf(conns'[srv.id].rep, n) /\ Sending(conns'[srv.id], srv'.state)
<1>1. TypeInv /\ FdsOK /\ srv.pc = "recv" /\ srv.state = "CONNECTED"
  BY DEF IInv, InHand, Asked
<1>2. srv.id \in DOMAIN conns /\ Served \in Conn /\ srv \in Server
  BY <1>1, SrvIs
<1>3. PICK k \in 1 .. Len(Served.req) : exec(Message(SubSeq(Served.req, 1, k)), Got(k))
  BY <1>1 DEF receive, Got
<1> DEFINE m == Message(SubSeq(Served.req, 1, k))
           cn == Got(k)
           z == file_size(server_file)
           b == server_file.writable
           found == z >= 0 /\ b
           f == LowestFree(srv.fds)
           ms == <<Header(z)>> \o IF z >= 0 /\ b THEN Content(z) ELSE <<>>
           x == Answer(cn, ms)
           O == IF found THEN srv.opened + 1 ELSE srv.opened
           F == IF found THEN srv.fds \cup {f} ELSE srv.fds
           s == Sends(srv, "DOWNLOADING", "get", O, F)
<1>4. Len(Served.req) = 1 /\ Served.req[1] = "get" /\ Served.rep = <<>>
  BY DEF Asked
<1>5. m = "get" /\ cn \in Conn /\ cn.rep = <<>> /\ cn.cend = "open" /\ cn.req = <<>>
  BY <1>1, <1>4, GotIs
<1>6. exec(m, cn)
  BY <1>3
<1> HIDE DEF m, cn
<1>7. server_get(m, cn)
  BY <1>1, <1>5, <1>6 DEF exec, server_hello, server_bye, server_ls, server_refuse, Handled
<1>8. conns' = [conns EXCEPT ![srv.id] = x] /\ srv' = s
  BY <1>5, <1>7 DEF server_get, Sends
<1>9. z \in Sizes /\ b \in BOOLEAN
  BY <1>1 DEF TypeInv, ServerFile, file_size, Sizes
<1>10. ms \in Seq(Pieces) /\ FileOf(ms, z)
  <2> HIDE DEF z, b
  <2> QED
    BY <1>9, FileIs DEF FileOf
<1> HIDE DEF ms
<1>11. x.rep = ms /\ x.req = <<>>
  BY <1>5, <1>10, AnswerAll
<1>12. f \in Nat
  BY <1>1, LowestIs DEF FdsOK
<1>13. srv.opened \in Nat /\ srv.fds \in SUBSET Nat
  BY <1>1, SrvIs
<1> HIDE DEF x, f, z
<1>14. O \in Nat /\ F \in SUBSET Nat
  BY <1>12, <1>13
<1> HIDE DEF O, F
<1>15. s.state = "DOWNLOADING"
  BY <1>2, <1>14, SendsGet
<1> HIDE DEF s
<1>16. conns'[srv.id] = x
  BY <1>2, <1>8
<1> QED
  BY <1>8, <1>9, <1>10, <1>11, <1>15, <1>16 DEF Sending

LEMMA FetchReceive ==
  ASSUME IInv, NEW c \in Clients, Fetching(cl[c]), Fetch(c), receive, UNCHANGED <<cl, disk>>
  PROVE  Fetch(c)'
<1>1. srv.pc \in {"recv", "get"} /\ Served.req # <<>>
  BY GotIs DEF receive, IInv
<1>2. /\ InHand /\ srv.id = cl[c].sock /\ Served = Sock(c) /\ Served.cend = "open"
  BY <1>1, FetchingInHand
<1>3. Keeps(conns'[srv.id], Served) /\ srv'.pc # "dead"
  BY <1>2, ReceiveKeeps
<1>4. Sock(c)' = conns'[srv.id]
  BY <1>2 DEF Sock
<1> DEFINE x == conns'[srv.id]
           s == cl[c]
           tmp == disk[c].tmp
<1>5. Fetches(s, Served, srv.state, TRUE, tmp)
  BY <1>1, <1>2 DEF Fetch
<1>6. Offered(Served, srv.state, TRUE) => Offered(x, srv'.state, TRUE)
  <2> SUFFICES ASSUME Offered(Served, srv.state, TRUE) PROVE Offered(x, srv'.state, TRUE)
    OBVIOUS
  <2>1. Asked("get", Served, srv.state)
    BY <1>1 DEF Offered, Sending
  <2> QED
    BY <1>2, <2>1, FileSent DEF Offered
<1>7. ~ Fills(s, Served, srv.state, TRUE, tmp)
  BY <1>1 DEF Fills, Sending
<1>8. Filled(s, Served, TRUE, tmp) => Filled(s, x, TRUE, tmp)
  BY <1>3 DEF Filled, Keeps
<1>9. Fetches(s, x, srv'.state, TRUE, tmp)
  BY <1>5, <1>6, <1>7, <1>8 DEF Fetches
<1>10. Fetches(s, x, srv'.state, srv'.pc # "dead", tmp)
  <2>1. (srv'.pc # "dead") = TRUE
    BY <1>3
  <2> QED
    BY <1>9, <2>1
<1> QED
  BY <1>4, <1>10 DEF Fetch

(* accept is nothing to a client that is in get.                            *)
LEMMA FetchAccept ==
  ASSUME IInv, NEW c \in Clients, Fetch(c), accept, UNCHANGED <<cl, disk>>
  PROVE  Fetch(c)'
<1>1. PICK s \in Server : srv' = s /\ s.pc = "recv" /\ s.state = srv.state
  BY AcceptStep DEF Accepts
<1>2. srv.pc # "dead" /\ UNCHANGED conns
  BY DEF accept
<1>3. Sock(c)' = Sock(c) /\ srv'.state = srv.state
  BY <1>1, <1>2 DEF Sock
<1>4. (srv'.pc # "dead") = (srv.pc # "dead")
  BY <1>1, <1>2
<1> QED
  BY <1>3, <1>4 DEF Fetch

LEMMA FetchServer ==
  ASSUME IInv, FetchInv, ServerStep \/ Interrupt
  PROVE  FetchInv'
<1>1. UNCHANGED <<cl, disk>>
  BY DEF ServerStep, Interrupt
<1>2. \/ accept \/ receive \/ receive_zero \/ receive_error
      \/ server_ls_vanished
      \/ srv.pc # "dead" /\ \E why : ServerDies(conns, why)
  BY DEF ServerStep, Interrupt, interrupt, sigpipe
<1>3. receive_zero \/ receive_error => srv.pc \in {"recv", "get"}
  BY DEF receive_zero, receive_error
<1>4. ASSUME NEW c \in Clients PROVE Fetch(c)'
  <2>1. CASE ~ Fetching(cl[c])
    BY <1>1, <2>1, NotFetching DEF Fetch
  <2>2. CASE Fetching(cl[c])
    <3>1. ~ receive_zero /\ ~ receive_error
      BY <1>3, <2>2, FetchingInHand
    <3>2. Fetch(c)
      BY DEF FetchInv
    <3> QED
      BY <1>1, <1>2, <2>2, <3>1, <3>2, FetchAccept, FetchReceive, FetchDies,
         FetchVanished
  <2> QED
    BY <2>1, <2>2
<1>5. \A c \in Clients : (Intact(disk[c].file))' = Intact(disk'[c].file)
  BY DEF Intact, Whole, Content, Unit
<1> QED
  BY <1>1, <1>4, <1>5 DEF FetchInv

------------------------------------------------------------------------------
(* While a file of at most one buffer, or of whole buffers, is on its way,  *)
(* the temporary file, the buffer and what is unread make up that file, or  *)
(* what is unread will be taken for the answer to done.                     *)
THEOREM FetchesAddUp == Spec => []FetchInv
<1>1. Init => FetchInv
  <2> SUFFICES ASSUME Init, NEW c \in Clients PROVE Fetch(c) /\ Intact(disk[c].file)
    BY DEF FetchInv
  <2>1. cl[c] = init /\ disk[c].file = NoFile
    BY DEF Init, ClientInit
  <2>2. ~ Fetching(cl[c])
    BY <2>1 DEF init, Fetching
  <2> QED
    BY <2>1, <2>2, NotFetching DEF Fetch, Intact
<1>2. IInv /\ FetchInv /\ [Next]_netvars => FetchInv'
  <2> SUFFICES ASSUME IInv, FetchInv, [Next]_netvars PROVE FetchInv'
    OBVIOUS
  <2>1. CASE ServerStep \/ Interrupt
    BY <2>1, FetchServer
  <2>2. CASE \E c \in Clients : ClientStep(c)
    BY <2>2, FetchClient
  <2>3. CASE UNCHANGED netvars
    <3>1. \A c \in Clients : Fetch(c)' = Fetch(c)
      BY <2>3 DEF netvars, Fetch, Sock
    <3>2. \A c \in Clients : (Intact(disk[c].file))' = Intact(disk'[c].file)
      BY DEF Intact, Whole, Content, Unit
    <3> QED
      BY <2>3, <3>1, <3>2 DEF netvars, FetchInv
  <2> QED
    BY <2>1, <2>2, <2>3 DEF Next
<1> QED
  BY <1>1, <1>2, TransferInvariant, PTL DEF Spec

(* get counts every recv as a full buffer, and still every file of at most  *)
(* one buffer, or of whole buffers, that is renamed is the server's file,   *)
(* after what the temporary file held before.                               *)
THEOREM WholeBuffersArrive == Spec => []WholeBuffersIntact
<1>1. FetchInv => WholeBuffersIntact
  BY DEF FetchInv, Intact, Whole, WholeBuffersIntact
<1> QED
  BY <1>1, FetchesAddUp, PTL
==============================================================================
