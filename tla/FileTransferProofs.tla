-------------------------- MODULE FileTransferProofs --------------------------
(***************************************************************************)
(* Theorems about the file transfer of lab 7, for any number of clients,   *)
(* files, directories and commands: who is in a session, what the server   *)
(* promises about sessions, and the descriptors they cost.                 *)
(***************************************************************************)
EXTENDS FileTransfer, NaturalLemmas, SequenceTheorems

------------------------------------------------------------------------------
(* Connections.                                                             *)

ConnOf(P) == [req : Seq(Requests), rep : Seq(P), cend : Ends, send : Ends]

LEMMA RequestIs ==
  ASSUME NEW P, NEW cn \in ConnOf(P), NEW m \in Requests
  PROVE  /\ Request(cn, m) \in ConnOf(P)
         /\ Request(cn, m).rep = cn.rep /\ Request(cn, m).cend = cn.cend
         /\ cn.send = "open" => /\ Request(cn, m).req = Append(cn.req, m)
                                /\ Request(cn, m).send = "open"
<1>1. Append(cn.req, m) \in Seq(Requests)
  BY AppendProperties DEF ConnOf
<1> QED
  BY <1>1 DEF Request, ConnOf, Ends

LEMMA AnswerIs ==
  ASSUME NEW P, NEW cn \in ConnOf(P), NEW ms \in Seq(P)
  PROVE  /\ Answer(cn, ms) \in ConnOf(P)
         /\ Answer(cn, ms).req = cn.req /\ Answer(cn, ms).send = cn.send
         /\ IF cn.cend = "open"
            THEN Answer(cn, ms).rep = cn.rep \o ms /\ Answer(cn, ms).cend = "open"
            ELSE Answer(cn, ms).rep = cn.rep /\ Answer(cn, ms).cend = "rst"
<1>1. cn.rep \o ms \in Seq(P)
  BY ConcatProperties DEF ConnOf
<1> QED
  BY <1>1 DEF Answer, ConnOf, Ends

LEMMA CloseClientIs ==
  ASSUME NEW P, NEW cn \in ConnOf(P)
  PROVE  /\ CloseClient(cn) \in ConnOf(P)
         /\ CloseClient(cn).req = cn.req /\ CloseClient(cn).send = cn.send
         /\ CloseClient(cn).rep = <<>>
         /\ CloseClient(cn).cend = IF cn.rep = <<>> THEN "fin" ELSE "rst"
BY EmptySeq DEF CloseClient, Left, ConnOf, Ends

LEMMA CloseServerIs ==
  ASSUME NEW P, NEW cn \in ConnOf(P)
  PROVE  /\ CloseServer(cn) \in ConnOf(P)
         /\ CloseServer(cn).rep = cn.rep /\ CloseServer(cn).cend = cn.cend
BY EmptySeq DEF CloseServer, Left, ConnOf, Ends

(* What is left of a stream, and the message read from it.                  *)
LEMMA RestIs ==
  ASSUME NEW S, NEW s \in Seq(S), NEW k \in 1 .. Len(s)
  PROVE  /\ Rest(s, k) \in Seq(S) /\ SubSeq(s, 1, k) \in Seq(S)
         /\ Len(SubSeq(s, 1, k)) = k /\ Len(Rest(s, k)) = Len(s) - k
         /\ \A i \in 1 .. Len(Rest(s, k)) : Rest(s, k)[i] = s[k + i]
BY DEF Rest

LEMMA MessageIs ==
  ASSUME NEW s \in Seq(Requests), NEW k \in 1 .. Len(s)
  PROVE  LET m == Message(SubSeq(s, 1, k)) IN
         /\ m \in {"bad", "get_other", s[1]}
         /\ m = "bye" => s[1] = "bye"
         /\ Len(s) = 1 => m = s[1] /\ Rest(s, k) = <<>>
<1> DEFINE ms == SubSeq(s, 1, k)
<1>1. /\ Len(ms) = k /\ ms[1] = s[1] /\ Len(s) \in Nat
      /\ Len(Rest(s, k)) = Len(s) - k /\ Rest(s, k) \in Seq(Requests)
  BY DEF Rest
<1> HIDE DEF ms
<1>2. Message(ms) \in {"bad", "get_other", s[1]} /\ (Message(ms) = "bye" => s[1] = "bye")
  BY <1>1 DEF Message
<1>3. ASSUME Len(s) = 1 PROVE Message(ms) = s[1] /\ Rest(s, k) = <<>>
  BY <1>1, <1>3, EmptySeq DEF Message
<1> QED
  BY <1>2, <1>3 DEF ms

LEMMA RecvIs ==
  ASSUME NEW s
  PROVE  /\ \A k \in Recv(s) : k \in 1 .. Len(s)
         /\ s = <<>> => Recv(s) = {}
BY DEF Recv

------------------------------------------------------------------------------
(* The inductive invariant.                                                 *)

(* Types.  A client that is not at its prompt, or not IDLE, has a socket,   *)
(* and the server serves a connection when it receives.                     *)
Data == Seq({Unit(i) : i \in 1 .. MaxSize} \cup {Junk})
Copies == {NoFile} \cup
  [data : Contents, old : Data, size : -1 .. MaxSize, sync : BOOLEAN]
Conn == ConnOf(Pieces)

ClientsOK ==
  /\ cl \in [Clients -> Client]
  /\ \A c \in Clients :
       /\ cl[c].sock <= Len(conns)
       /\ cl[c].pc # "prompt" \/ cl[c].state # "IDLE" => cl[c].sock # 0
       /\ cl[c].pc \notin {"prompt", "conn"} => cl[c].state # "IDLE"
ServerOK ==
  /\ srv \in Server /\ srv.id <= Len(conns)
  /\ srv.pc \in {"recv", "get"} => srv.id # 0
DiskOK == disk \in [Clients -> [tmp : Contents, file : Copies]]

(* What was received is for a temporary file that exists.                   *)
TempOK == \A c \in Clients :
  /\ cl[c].pc = "get_data" \/ cl[c].buf # <<>> => disk[c].tmp \in Data
  /\ cl[c].pc = "get_done" => cl[c].buf = <<>>
TypeInv ==
  /\ conns \in Seq(Conn)
  /\ ServerOK /\ ClientsOK /\ DiskOK /\ TempOK
  /\ server_file \in ServerFile /\ server_dir \in Seq(Kinds)
  /\ asked \in 0 .. MaxCommands /\ clean \in BOOLEAN

(* The server's descriptors: those below a bound, and descriptor 0 in use   *)
(* from accept to bye.                                                      *)
FdsOK ==
  /\ \E n \in Nat : srv.fds \subseteq 0 .. n
  /\ 1 \in srv.fds
  /\ \/ srv.lost
     \/ /\ Cardinality(srv.fds) <= 5 + srv.opened
        /\ srv.pc = "accept" => Cardinality(srv.fds) <= 4 + srv.opened
        /\ srv.pc \in {"recv", "get"} => 0 \in srv.fds

(* A connection whose hello was not answered: nothing but the hello was     *)
(* ever sent on it, and it was not closed with anything unread.             *)
Unanswered(k) ==
  /\ conns[k].rep = <<>> /\ conns[k].cend \in {"open", "fin"}
  /\ conns[k].send = "open"
  /\ conns[k].req = <<"hello">> \/ (conns[k].req = <<>> /\ k <= srv.id)

(* The session is that of the connection being served, until it is lost:    *)
(* then its client has gone, and connections are served in vain.            *)
HolderOK ==
  /\ srv.holder <= srv.id
  /\ srv.state = "IDLE" => ~srv.lost
  /\ srv.pc = "accept" /\ ~srv.lost => srv.state = "IDLE" /\ srv.id = srv.holder
  /\ srv.pc = "recv" /\ ~srv.lost =>
       \/ srv.state = "IDLE" /\ srv.id = srv.holder + 1 /\ Served.req = <<"hello">>
       \/ srv.state = "CONNECTED" /\ srv.id = srv.holder
  /\ srv.pc = "get" => ~srv.lost /\ srv.state = "DOWNLOADING" /\ srv.id = srv.holder
  /\ srv.lost =>
       /\ srv.holder # 0 /\ conns[srv.holder].cend # "open"
       /\ srv.pc = "recv" => srv.holder < srv.id

WaitingOK == \A k \in DOMAIN conns :
  /\ k > srv.holder => Unanswered(k)
  /\ k > srv.id => conns[k].req = <<"hello">>

(* A client that is not IDLE has the session, unless it is in bye and the   *)
(* answer is there for it; one in conn has it from the answer to its hello. *)
NoBye(s) == \A i \in 1 .. Len(s) : s[i] # "bye"
Holds(c) == cl[c].sock = srv.holder /\ srv.state # "IDLE" /\ Sock(c).send = "open"
ConnOK(c) ==
  /\ cl[c].state = "IDLE" /\ Sock(c).cend = "open"
  /\ cl[c].sock <= srv.holder => Holds(c) /\ Sock(c).rep # <<>> /\ Sock(c).req = <<>>
ByeOK(c) ==
  /\ Sock(c).cend = "open" /\ cl[c].sock <= srv.holder
  /\ Holds(c) \/ Sock(c).rep # <<>>
InsideOK(c) ==
  /\ Sock(c).cend = "open" /\ Holds(c) /\ NoBye(Sock(c).req)
ClientOK(c) ==
  /\ cl[c].pc = "conn" => ConnOK(c)
  /\ cl[c].pc = "bye" => ByeOK(c)
  /\ cl[c].pc \notin {"conn", "bye"} /\ cl[c].state # "IDLE" => InsideOK(c)

OwnSockets == \A c, d \in Clients : c # d /\ cl[c].sock # 0 => cl[c].sock # cl[d].sock

SessionOK ==
  /\ HolderOK /\ WaitingOK
  /\ \A c \in Clients : ClientOK(c)

IInv == TypeInv /\ FdsOK /\ OwnSockets /\ (srv.pc # "dead" => SessionOK)

------------------------------------------------------------------------------
(* Types of what the clients do.                                            *)

LEMMA Bounds ==
  /\ MaxCommands \in Nat /\ MaxSize \in Nat /\ Buf \in Nat /\ Buf # 0
  /\ Files \subseteq ServerFile /\ Dirs \subseteq Seq(Kinds)
BY BoundsAssumption DEF BoundsAssumption

(* Answers are told from each other by their kinds.                         *)
LEMMA PieceKinds ==
  /\ Bye \in Pieces /\ Entry \in Pieces /\ Junk \in Pieces
  /\ Ok(2) \in Pieces /\ Ok(3) \in Pieces
  /\ \A n \in -1 .. MaxSize : Header(n) \in Pieces
  /\ \A i \in 1 .. MaxSize : Unit(i) \in Pieces
  /\ \A k \in 1 .. Len(conns) : Hello(k) \in Pieces
  /\ \A m \in Pieces : m[1] = "header" => m[2] \in -1 .. MaxSize
  /\ \A m \in Pieces : IsUnit(m) => m \in {Unit(i) : i \in 1 .. MaxSize}
BY DEF Pieces, Bye, Entry, Junk, Ok, Header, Unit, Hello, IsUnit

(* Longer logs of connections have more pieces.                             *)
LEMMA MorePieces ==
  ASSUME Len(conns) \in Nat, Len(conns)' \in Nat, Len(conns) <= Len(conns)'
  PROVE  Pieces \subseteq Pieces' /\ Conn \subseteq Conn'
<1>1. Pieces \subseteq Pieces'
  BY DEF Pieces, Bye, Entry, Junk, Ok, Header, Unit, Hello
<1> QED
  BY <1>1 DEF Conn, ConnOf

(* A client, whatever sets its variables range over.                        *)
ClientOf(P, S, I, N, Z, L, D, B) ==
  [pc : P, state : S, id : I, sock : N, size : Z, left : L,
   buf : D, old : D, sync : B]
ClientPcs == {"prompt", "conn", "bye", "ls_ok", "ls", "get_ok", "get_data", "get_done"}

AClient == ClientOf(ClientPcs, ClStates, {0, 1}, Nat, -1 .. MaxSize, Int, Data, BOOLEAN)

LEMMA ClientIs == \A s : s \in Client <=> s \in AClient
BY DEF Client, ClientOf, Data, ClientPcs, AClient

(* What a recv of a file, and the answer to get, do to a client.            *)
Reads(s, b, l) == [s EXCEPT !.buf = b, !.left = l]
LEMMA ClientReads ==
  ASSUME NEW s \in Client, NEW b \in Data, NEW l \in Int
  PROVE  LET t == Reads(s, b, l)
         IN t \in Client /\ t.pc = s.pc /\ t.state = s.state /\ t.sock = s.sock
<1> DEFINE P == ClientPcs
           S == ClStates
           I == {0, 1}
           N == Nat
           Z == -1 .. MaxSize
           L == Int
           D == Data
           B == BOOLEAN
           K == ClientOf(P, S, I, N, Z, L, D, B)
           t == [s EXCEPT !.buf = b, !.left = l]
<1>1. s \in K /\ l \in L /\ b \in D
  BY ClientIs DEF AClient
<1>2. ClientOf(P, S, I, N, Z, L, D, B) = AClient
  BY DEF AClient
<1> HIDE DEF P, S, I, N, Z, L, D, B
<1>3. t \in K /\ t.pc = s.pc /\ t.state = s.state /\ t.sock = s.sock
  BY <1>1 DEF ClientOf
<1>4. t \in Client
  BY <1>2, <1>3, ClientIs
<1> QED
  BY <1>3, <1>4 DEF Reads

Opens(s, b, o, l) == [s EXCEPT !.left = l, !.buf = b, !.old = o]
LEMMA ClientOpens ==
  ASSUME NEW s \in Client, NEW b \in Data, NEW o \in Data, NEW l \in Int
  PROVE  LET t == Opens(s, b, o, l)
         IN t \in Client /\ t.pc = s.pc /\ t.state = s.state /\ t.sock = s.sock
<1> DEFINE P == ClientPcs
           S == ClStates
           I == {0, 1}
           N == Nat
           Z == -1 .. MaxSize
           L == Int
           D == Data
           B == BOOLEAN
           K == ClientOf(P, S, I, N, Z, L, D, B)
           t == [s EXCEPT !.left = l, !.buf = b, !.old = o]
<1>1. s \in K /\ l \in L /\ b \in D /\ o \in D
  BY ClientIs DEF AClient
<1>2. ClientOf(P, S, I, N, Z, L, D, B) = AClient
  BY DEF AClient
<1> HIDE DEF P, S, I, N, Z, L, D, B
<1>3. t \in K /\ t.pc = s.pc /\ t.state = s.state /\ t.sock = s.sock
  BY <1>1 DEF ClientOf
<1>4. t \in Client
  BY <1>2, <1>3, ClientIs
<1> QED
  BY <1>3, <1>4 DEF Opens

Sizes == -1 .. MaxSize
GoesOn(s, p, st, z) == [s EXCEPT !.pc = p, !.state = st, !.size = z]
LEMMA ClientGoesOn ==
  ASSUME NEW s \in Client, NEW p \in ClientPcs, NEW st \in ClStates, NEW z \in Sizes
  PROVE  LET t == GoesOn(s, p, st, z)
         IN t \in Client /\ t.pc = p /\ t.state = st /\ t.sock = s.sock
<1> DEFINE P == ClientPcs
           S == ClStates
           I == {0, 1}
           N == Nat
           Z == Sizes
           L == Int
           D == Data
           B == BOOLEAN
           K == ClientOf(P, S, I, N, Z, L, D, B)
           t == [s EXCEPT !.pc = p, !.state = st, !.size = z]
<1>1. s \in K /\ p \in P /\ st \in S /\ z \in Z
  BY ClientIs DEF AClient, Sizes
<1>2. ClientOf(P, S, I, N, Z, L, D, B) = AClient
  BY DEF AClient, Sizes
<1> HIDE DEF P, S, I, N, Z, L, D, B
<1>3. t \in K /\ t.pc = p /\ t.state = st /\ t.sock = s.sock
  BY <1>1 DEF ClientOf
<1>4. t \in Client
  BY <1>2, <1>3, ClientIs
<1> QED
  BY <1>3, <1>4 DEF GoesOn

(* The connection a client has is one of those made.                        *)
LEMMA SockIs ==
  ASSUME TypeInv, NEW c \in Clients, cl[c].sock # 0
  PROVE  /\ cl[c].sock \in DOMAIN conns /\ DOMAIN conns = 1 .. Len(conns)
         /\ Sock(c) \in Conn
         /\ Sock(c).req \in Seq(Requests) /\ Sock(c).rep \in Seq(Pieces)
<1>1. conns \in Seq(Conn) /\ cl[c] \in Client /\ cl[c].sock <= Len(conns)
  BY DEF TypeInv, ClientsOK
<1>2. cl[c].sock \in Nat
  BY <1>1 DEF Client
<1>3. cl[c].sock \in DOMAIN conns /\ DOMAIN conns = 1 .. Len(conns)
  BY <1>1, <1>2
<1>4. Sock(c) \in Conn
  BY <1>1, <1>3 DEF Sock
<1> QED
  BY <1>3, <1>4 DEF Conn, ConnOf

(* What a step of a client does to its connection, x after it, and to its   *)
(* own variables, s after it.                                               *)
Moves(c, s, x) ==
  /\ cl[c].sock # 0
  /\ s \in Client /\ cl' = [cl EXCEPT ![c] = s]
  /\ x \in Conn /\ conns' = [conns EXCEPT ![cl[c].sock] = x]

Active(s) == s.state # "IDLE" /\ s.pc \notin {"conn", "bye"}

(* conn; its answer; and no answer, or another one.                         *)
Begins(c) ==
  /\ srv.pc # "dead" /\ cl[c].state = "IDLE" /\ cl[c].pc = "prompt"
  /\ conns' = Append(conns, NewConn)
  /\ \E s \in Client :
       /\ s.pc = "conn" /\ s.state = "IDLE" /\ s.sock = Len(conns) + 1
       /\ cl' = [cl EXCEPT ![c] = s]
Enters(c) ==
  /\ cl[c].pc = "conn" /\ Sock(c).rep # <<>>
  /\ \E s, x :
       /\ Moves(c, s, x) /\ s.sock = cl[c].sock
       /\ s.pc = "prompt" /\ s.state = "CONNECTED"
       /\ x.req = Sock(c).req /\ x.send = Sock(c).send /\ x.cend = Sock(c).cend
GivesUp(c) ==
  /\ cl[c].pc = "conn"
  /\ \E s, x :
       /\ Moves(c, s, x) /\ s.sock = cl[c].sock
       /\ s.pc = "prompt" /\ s.state = cl[c].state
       /\ x.req = Sock(c).req /\ x.send = Sock(c).send /\ x.cend = Sock(c).cend
       /\ Sock(c).rep = <<>> => x.rep = <<>>

(* All steps of ls and get, and a recv of theirs that fails.                *)
Inside(c) ==
  /\ Active(cl[c])
  /\ \E s, x :
       /\ Moves(c, s, x) /\ s.sock = cl[c].sock /\ Active(s)
       /\ x.cend = Sock(c).cend
       /\ Sock(c).send = "open" =>
            /\ x.send = "open"
            /\ \/ x.req = Sock(c).req
               \/ \E m \in Requests \ {"bye"} : x.req = Append(Sock(c).req, m)

(* bye; a recv of its that fails.                                           *)
AsksBye(c) ==
  /\ Active(cl[c])
  /\ \E s, x :
       /\ Moves(c, s, x) /\ s.sock = cl[c].sock
       /\ s.pc = "bye" /\ s.state = cl[c].state
       /\ x.cend = Sock(c).cend /\ x.rep = Sock(c).rep
       /\ Sock(c).send = "open" => x.send = "open"
ByeFails(c) ==
  /\ cl[c].pc = "bye" /\ Sock(c).rep = <<>> /\ Sock(c).send = "rst"
  /\ \E s : /\ Moves(c, s, Sock(c)) /\ s.sock = cl[c].sock
            /\ s.pc = "prompt" /\ s.state = cl[c].state

(* The answer to bye, and leaving with a connection; leaving without.       *)
Leaves(c) ==
  /\ cl[c].pc = "conn" \/ cl[c].state # "IDLE"
  /\ \E s, x :
       /\ Moves(c, s, x) /\ s.sock \in {0, cl[c].sock}
       /\ s.pc = "prompt" /\ s.state = "IDLE"
       /\ x.rep = <<>> /\ x.req = Sock(c).req /\ x.send = Sock(c).send
       /\ x.cend # "open"
       /\ Sock(c).rep = <<>> => x.cend = "fin"
Rests(c) ==
  /\ UNCHANGED conns
  /\ \/ UNCHANGED cl
     \/ cl' = [cl EXCEPT ![c] = init] /\ cl[c].state = "IDLE" /\ cl[c].pc # "conn"

Step(c) ==
  \/ Begins(c) \/ Enters(c) \/ GivesUp(c) \/ Inside(c)
  \/ AsksBye(c) \/ ByeFails(c) \/ Leaves(c) \/ Rests(c)

(* What else a client's step may change keeps its type.                     *)
OthersOK == DiskOK /\ asked \in 0 .. MaxCommands /\ clean \in BOOLEAN

LEMMA AskedOnce ==
  ASSUME TypeInv, NEW c, NEW state, Types(c, state)
  PROVE  /\ asked' \in 0 .. MaxCommands
         /\ cl[c].pc = "prompt" /\ cl[c].state = state
BY Bounds DEF TypeInv, Types

LEMMA SameOthers ==
  ASSUME TypeInv
  PROVE  /\ UNCHANGED disk => DiskOK'
         /\ UNCHANGED asked => asked' \in 0 .. MaxCommands
         /\ UNCHANGED clean => clean' \in BOOLEAN
BY DEF TypeInv, DiskOK

(* Reading from the connection: what is left of the answer.                 *)
LEMMA DropIs ==
  ASSUME TypeInv, NEW c \in Clients, cl[c].sock # 0, NEW k \in Recv(Sock(c).rep)
  PROVE  /\ k \in 1 .. Len(Sock(c).rep) /\ Sock(c).rep # <<>>
         /\ Drop(c, k) \in Conn /\ Drop(c, k).req = Sock(c).req
         /\ Drop(c, k).send = Sock(c).send /\ Drop(c, k).cend = Sock(c).cend
         /\ Drop(c, k).rep = Rest(Sock(c).rep, k)
<1>1. Sock(c) \in Conn /\ Sock(c).rep \in Seq(Pieces)
  BY SockIs
<1>2. k \in 1 .. Len(Sock(c).rep) /\ Sock(c).rep # <<>>
  BY RecvIs
<1>3. Rest(Sock(c).rep, k) \in Seq(Pieces)
  BY <1>1, <1>2, RestIs
<1> QED
  BY <1>1, <1>2, <1>3 DEF Drop, Conn, ConnOf

(* Any other part of the answer left.                                       *)
LEMMA LeftIs ==
  ASSUME TypeInv, NEW c \in Clients, cl[c].sock # 0, NEW r \in Seq(Pieces)
  PROVE  LET x == [Sock(c) EXCEPT !.rep = r] IN
         /\ x \in Conn /\ x.req = Sock(c).req
         /\ x.send = Sock(c).send /\ x.cend = Sock(c).cend
<1>1. Sock(c) \in Conn
  BY SockIs
<1> QED
  BY <1>1 DEF Conn, ConnOf

LEMMA SameConn ==
  ASSUME TypeInv, NEW c \in Clients, cl[c].sock # 0, UNCHANGED conns
  PROVE  conns' = [conns EXCEPT ![cl[c].sock] = Sock(c)]
BY SockIs DEF Sock, TypeInv

LEMMA connStep ==
  ASSUME TypeInv, NEW c \in Clients, conn(c)
  PROVE  Step(c) /\ OthersOK'
<1>1. asked' \in 0 .. MaxCommands /\ cl[c].pc = "prompt" /\ cl[c].state = "IDLE"
  BY AskedOnce DEF conn
<1>2. OthersOK'
  BY <1>1, SameOthers DEF conn, OthersOK
<1>3. CASE srv.pc = "dead"
  BY <1>2, <1>3 DEF conn, Step, Rests
<1>4. CASE srv.pc # "dead"
  <2> DEFINE s == [cl[c] EXCEPT !.pc = "conn", !.sock = Len(conns) + 1]
  <2>1. s \in Client /\ s.pc = "conn" /\ s.state = "IDLE" /\ s.sock = Len(conns) + 1
    <3>1. Len(conns) + 1 \in Nat /\ cl[c] \in Client
      BY DEF TypeInv, ClientsOK
    <3>2. s \in Client
      BY <3>1 DEF Client
    <3>3. s.pc = "conn" /\ s.state = cl[c].state /\ s.sock = Len(conns) + 1
      BY <3>1 DEF Client
    <3> QED
      BY <1>1, <3>2, <3>3
  <2>2. conns' = Append(conns, NewConn) /\ cl' = [cl EXCEPT ![c] = s]
    BY <1>4 DEF conn, SetClient
  <2> HIDE DEF s
  <2> QED
    BY <1>1, <1>2, <1>4, <2>1, <2>2 DEF Step, Begins
<1> QED
  BY <1>2, <1>3, <1>4

(* A client at work in ls or get, or at its prompt in a session.            *)
LEMMA ActiveIs ==
  ASSUME TypeInv, NEW c \in Clients
  PROVE  /\ cl[c] \in Client
         /\ cl[c].pc \notin {"prompt", "conn", "bye"} => Active(cl[c])
         /\ Active(cl[c]) \/ cl[c].pc = "bye" => cl[c].sock # 0 /\ cl[c].state # "IDLE"
BY DEF TypeInv, ClientsOK, Active

(* Returning to the prompt as it is.                                        *)
LEMMA PromptIs ==
  ASSUME TypeInv, NEW c \in Clients
  PROVE  /\ Prompt(c) \in Client /\ Prompt(c).pc = "prompt"
         /\ Prompt(c).state = cl[c].state /\ Prompt(c).sock = cl[c].sock
         /\ cl[c].state # "IDLE" => Active(Prompt(c))
<1>1. cl[c] \in Client
  BY ActiveIs
<1>2. /\ Prompt(c) \in Client /\ Prompt(c).pc = "prompt"
      /\ Prompt(c).state = cl[c].state /\ Prompt(c).sock = cl[c].sock
  BY <1>1 DEF Client, Prompt
<1> QED
  BY <1>2 DEF Active

LEMMA conn_replyStep ==
  ASSUME TypeInv, NEW c \in Clients, conn_reply(c)
  PROVE  Step(c) /\ OthersOK'
<1> DEFINE s == [Prompt(c) EXCEPT !.state = "CONNECTED", !.id = 1]
           hello == Sock(c).rep[1][1] = "hello"
<1>1. cl[c].pc = "conn" /\ cl[c].sock # 0 /\ cl[c] \in Client
  BY DEF conn_reply, TypeInv, ClientsOK
<1>2. PICK k \in Recv(Sock(c).rep) : SetConn(c, Drop(c, k))
  BY DEF conn_reply
<1>3. /\ s \in Client /\ s.pc = "prompt" /\ s.state = "CONNECTED"
      /\ s.sock = cl[c].sock
  BY <1>1 DEF Client, Prompt, ClStates
<1>4. cl' = [cl EXCEPT ![c] = IF hello THEN s ELSE Prompt(c)]
  BY DEF conn_reply, SetClient
<1> HIDE DEF s, hello
<1>5. OthersOK'
  BY SameOthers DEF conn_reply, OthersOK
<1>6. CASE hello
  <2>1. Moves(c, s, Drop(c, k))
    BY <1>1, <1>2, <1>3, <1>4, <1>6, DropIs DEF Moves, SetConn
  <2> QED
    BY <1>1, <1>3, <1>5, <2>1, DropIs DEF Step, Enters
<1>7. CASE ~ hello
  <2>1. Moves(c, Prompt(c), Drop(c, k))
    BY <1>1, <1>2, <1>4, <1>7, DropIs, PromptIs DEF Moves, SetConn
  <2> QED
    BY <1>1, <1>5, <2>1, DropIs, PromptIs DEF Step, GivesUp
<1> QED
  BY <1>6, <1>7

LEMMA conn_failsStep ==
  ASSUME TypeInv, NEW c \in Clients, conn_fails(c)
  PROVE  Step(c) /\ OthersOK'
<1> DEFINE s == Prompt(c)
<1>1. cl[c].pc = "conn" /\ cl[c].sock # 0 /\ cl[c] \in Client
  BY DEF conn_fails, TypeInv, ClientsOK
<1>2. s \in Client /\ s.pc = "prompt" /\ s.state = cl[c].state /\ s.sock = cl[c].sock
  BY <1>1 DEF Client, Prompt
<1>3. cl' = [cl EXCEPT ![c] = s] /\ conns' = [conns EXCEPT ![cl[c].sock] = Sock(c)]
  BY <1>1, SameConn DEF conn_fails, SetClient
<1> HIDE DEF s
<1>4. Moves(c, s, Sock(c))
  BY <1>1, <1>2, <1>3, SockIs DEF Moves
<1>5. OthersOK'
  BY SameOthers DEF conn_fails, OthersOK
<1> QED
  BY <1>1, <1>2, <1>4, <1>5, SockIs DEF Step, GivesUp

(* Going on to another recv.                                                *)
LEMMA WaitIs ==
  ASSUME TypeInv, NEW c \in Clients,
         NEW pc \in {"bye", "ls_ok", "ls", "get_ok", "get_data", "get_done"}
  PROVE  LET s == [cl[c] EXCEPT !.pc = pc] IN
         /\ s \in Client /\ s.pc = pc
         /\ s.state = cl[c].state /\ s.sock = cl[c].sock
<1>1. cl[c] \in Client
  BY ActiveIs
<1> QED
  BY <1>1 DEF Client

(* Reading, or asking, in a session.                                        *)
LEMMA InsideReads ==
  ASSUME TypeInv, NEW c \in Clients, Active(cl[c]),
         NEW s \in Client, s.sock = cl[c].sock, Active(s), SetClient(c, s),
         \/ UNCHANGED conns
         \/ \E k \in Recv(Sock(c).rep) : SetConn(c, Drop(c, k))
         \/ \E r \in Seq(Pieces) : SetConn(c, [Sock(c) EXCEPT !.rep = r])
  PROVE  Step(c)
<1>1. cl[c].sock # 0 /\ cl' = [cl EXCEPT ![c] = s]
  BY ActiveIs DEF SetClient
<1>2. \E x \in Conn : /\ conns' = [conns EXCEPT ![cl[c].sock] = x]
                      /\ x.req = Sock(c).req /\ x.send = Sock(c).send
                      /\ x.cend = Sock(c).cend
  <2>1. CASE UNCHANGED conns
    BY <1>1, <2>1, SameConn, SockIs
  <2>2. CASE \E k \in Recv(Sock(c).rep) : SetConn(c, Drop(c, k))
    BY <1>1, <2>2, DropIs DEF SetConn
  <2>3. CASE \E r \in Seq(Pieces) : SetConn(c, [Sock(c) EXCEPT !.rep = r])
    <3>1. PICK r \in Seq(Pieces) : SetConn(c, [Sock(c) EXCEPT !.rep = r])
      BY <2>3
    <3> DEFINE x == [Sock(c) EXCEPT !.rep = r]
    <3>2. /\ x \in Conn /\ x.req = Sock(c).req
          /\ x.send = Sock(c).send /\ x.cend = Sock(c).cend
      BY <1>1, LeftIs
    <3>3. conns' = [conns EXCEPT ![cl[c].sock] = x]
      BY <3>1 DEF SetConn
    <3> HIDE DEF x
    <3> QED
      BY <3>2, <3>3
  <2> QED
    BY <2>1, <2>2, <2>3
<1> QED
  BY <1>1, <1>2 DEF Step, Inside, Moves

LEMMA InsideAsks ==
  ASSUME TypeInv, NEW c \in Clients, Active(cl[c]),
         NEW s \in Client, s.sock = cl[c].sock, Active(s), SetClient(c, s),
         NEW m \in Requests \ {"bye"}, SetConn(c, Request(Sock(c), m))
  PROVE  Step(c)
<1>1. cl[c].sock # 0 /\ cl' = [cl EXCEPT ![c] = s]
  BY ActiveIs DEF SetClient
<1> DEFINE x == Request(Sock(c), m)
<1>2. /\ x \in Conn /\ x.cend = Sock(c).cend
      /\ Sock(c).send = "open" => x.req = Append(Sock(c).req, m) /\ x.send = "open"
  BY <1>1, SockIs, RequestIs DEF Conn
<1>3. conns' = [conns EXCEPT ![cl[c].sock] = x]
  BY DEF SetConn
<1> HIDE DEF x
<1> QED
  BY <1>1, <1>2, <1>3 DEF Step, Inside, Moves

LEMMA byeStep ==
  ASSUME TypeInv, NEW c \in Clients, bye(c)
  PROVE  Step(c) /\ OthersOK'
<1> DEFINE s == [cl[c] EXCEPT !.pc = "bye"]
           x == Request(Sock(c), "bye")
<1>1. /\ asked' \in 0 .. MaxCommands
      /\ cl[c].pc = "prompt" /\ cl[c].state = "CONNECTED"
  BY AskedOnce DEF bye
<1>2. Active(cl[c]) /\ cl[c].sock # 0
  BY <1>1, ActiveIs DEF Active
<1>3. s \in Client /\ s.pc = "bye" /\ s.state = cl[c].state /\ s.sock = cl[c].sock
  BY WaitIs
<1>4. /\ x \in Conn /\ x.cend = Sock(c).cend /\ x.rep = Sock(c).rep
      /\ Sock(c).send = "open" => x.send = "open"
  BY <1>2, SockIs, RequestIs DEF Conn, Requests
<1>5. cl' = [cl EXCEPT ![c] = s] /\ conns' = [conns EXCEPT ![cl[c].sock] = x]
  BY DEF bye, SetClient, SetConn
<1> HIDE DEF s, x
<1>6. AsksBye(c)
  BY <1>2, <1>3, <1>4, <1>5 DEF AsksBye, Moves
<1>7. OthersOK'
  BY <1>1, SameOthers DEF bye, OthersOK
<1> QED
  BY <1>6, <1>7 DEF Step

LEMMA bye_replyStep ==
  ASSUME TypeInv, NEW c \in Clients, bye_reply(c)
  PROVE  Step(c) /\ OthersOK'
<1> DEFINE s == finish(c)
<1>1. cl[c].pc = "bye" /\ cl[c].sock # 0 /\ cl[c].state # "IDLE" /\ Sock(c) \in Conn
  BY ActiveIs, SockIs DEF bye_reply
<1>2. s \in Client /\ s.pc = "prompt" /\ s.state = "IDLE" /\ s.sock = cl[c].sock
  BY ActiveIs DEF finish, Prompt, Client, ClStates
<1>3. \E y \in Conn : /\ y.req = Sock(c).req /\ y.send = Sock(c).send
                      /\ Sock(c).rep = <<>> => y.rep = <<>>
                      /\ SetConn(c, CloseClient(y))
  <2>1. CASE \E k \in Recv(Sock(c).rep) : SetConn(c, CloseClient(Drop(c, k)))
    BY <1>1, <2>1, DropIs
  <2>2. CASE SetConn(c, CloseClient(Sock(c)))
    BY <1>1, <2>2
  <2> QED
    BY <2>1, <2>2 DEF bye_reply
<1>4. \E x \in Conn : /\ x.rep = <<>> /\ x.req = Sock(c).req /\ x.send = Sock(c).send
                      /\ x.cend # "open" /\ (Sock(c).rep = <<>> => x.cend = "fin")
                      /\ conns' = [conns EXCEPT ![cl[c].sock] = x]
  BY <1>3, CloseClientIs DEF Conn, SetConn
<1>5. cl' = [cl EXCEPT ![c] = s]
  BY DEF bye_reply, SetClient
<1> HIDE DEF s
<1>6. Leaves(c)
  BY <1>1, <1>2, <1>4, <1>5 DEF Leaves, Moves
<1>7. OthersOK'
  BY SameOthers DEF bye_reply, OthersOK
<1> QED
  BY <1>6, <1>7 DEF Step

LEMMA recv_errorStep ==
  ASSUME TypeInv, NEW c \in Clients, recv_error(c)
  PROVE  Step(c) /\ OthersOK'
<1>1. /\ cl[c].pc \in {"bye", "ls_ok", "ls", "get_ok", "get_data", "get_done"}
      /\ Sock(c).rep = <<>> /\ Sock(c).send = "rst"
      /\ SetClient(c, Prompt(c)) /\ UNCHANGED <<conns, disk, asked, clean>>
  BY DEF recv_error, Error, RecvError
<1>2. OthersOK'
  BY <1>1, SameOthers DEF OthersOK
<1>3. CASE cl[c].pc = "bye"
  <2>1. cl[c].sock # 0
    BY <1>3, ActiveIs
  <2>2. Moves(c, Prompt(c), Sock(c))
    BY <1>1, <2>1, PromptIs, SameConn, SockIs DEF Moves, SetClient
  <2> QED
    BY <1>1, <1>2, <1>3, <2>2, PromptIs DEF Step, ByeFails
<1>4. CASE cl[c].pc # "bye"
  <2>1. Active(cl[c]) /\ cl[c].state # "IDLE"
    BY <1>1, <1>4, ActiveIs
  <2> QED
    BY <1>1, <1>2, <2>1, PromptIs, InsideReads
<1> QED
  BY <1>3, <1>4

(* What ls and get may leave of an answer of which they want n bytes.       *)
LEMMA SmallRecvIs ==
  ASSUME TypeInv, NEW s \in Seq(Pieces), NEW n
  PROVE  SmallRecv(s, n) \subseteq Seq(Pieces)
<1>1. \A k \in 1 .. Len(s) : Rest(s, k) \in Seq(Pieces)
  BY RestIs
<1>2. \A k \in 1 .. Len(s) : <<Junk>> \o Rest(s, k) \in Seq(Pieces)
  BY <1>1, PieceKinds, ConcatProperties
<1> QED
  BY <1>1, <1>2 DEF SmallRecv

LEMMA AfterOkIs ==
  ASSUME TypeInv, NEW s \in Seq(Pieces), s # <<>>
  PROVE  AfterOk(s) \subseteq Seq(Pieces)
<1>1. Tail(s) \in Seq(Pieces)
  BY HeadTailProperties
<1>2. <<Junk>> \o Tail(s) \in Seq(Pieces)
  BY <1>1, PieceKinds, ConcatProperties
<1>3. Len(s) > 1 => <<Junk>> \o Rest(s, 2) \in Seq(Pieces)
  <2> SUFFICES ASSUME Len(s) > 1 PROVE <<Junk>> \o Rest(s, 2) \in Seq(Pieces)
    OBVIOUS
  <2>1. 2 \in 1 .. Len(s)
    OBVIOUS
  <2>2. Rest(s, 2) \in Seq(Pieces)
    BY <2>1, RestIs
  <2> QED
    BY <2>2, PieceKinds, ConcatProperties
<1> QED
  BY <1>1, <1>2, <1>3 DEF AfterOk

LEMMA lsStep ==
  ASSUME TypeInv, NEW c \in Clients, ls(c)
  PROVE  Step(c) /\ OthersOK'
<1> DEFINE s == [cl[c] EXCEPT !.pc = "ls_ok"]
<1>1. /\ asked' \in 0 .. MaxCommands
      /\ cl[c].pc = "prompt" /\ cl[c].state = "CONNECTED"
  BY AskedOnce DEF ls
<1>2. Active(cl[c])
  BY <1>1 DEF Active
<1>3. s \in Client /\ s.pc = "ls_ok" /\ s.state = cl[c].state /\ s.sock = cl[c].sock
  BY WaitIs
<1>4. SetClient(c, s) /\ SetConn(c, Request(Sock(c), "ls"))
  BY DEF ls
<1> HIDE DEF s
<1>5. Active(s)
  BY <1>1, <1>3 DEF Active
<1>6. Step(c)
  BY <1>2, <1>3, <1>4, <1>5, InsideAsks DEF Requests
<1>7. OthersOK'
  BY <1>1, SameOthers DEF ls, OthersOK
<1> QED
  BY <1>6, <1>7

LEMMA ls_okStep ==
  ASSUME TypeInv, NEW c \in Clients, ls_ok(c)
  PROVE  Step(c) /\ OthersOK'
<1>1. cl[c].pc = "ls_ok" /\ Active(cl[c]) /\ cl[c].sock # 0 /\ cl[c].state # "IDLE"
  BY ActiveIs DEF ls_ok
<1>2. OthersOK'
  BY SameOthers DEF ls_ok, OthersOK
<1>3. CASE SetClient(c, Prompt(c)) /\ UNCHANGED conns
  BY <1>1, <1>2, <1>3, PromptIs, InsideReads
<1>4. CASE /\ Sock(c).rep # <<>>
           /\ LET s == Sock(c).rep
              IN \E rest \in IF SaysOk(s[1]) THEN AfterOk(s) ELSE SmallRecv(s, 3) :
                   SetConn(c, [Sock(c) EXCEPT !.rep = rest])
           /\ SetClient(c, [cl[c] EXCEPT !.pc = IF SaysOk(Sock(c).rep[1])
                                               THEN "ls" ELSE "prompt"])
  <2>1. Sock(c).rep \in Seq(Pieces)
    BY <1>1, SockIs
  <2>2. \E r \in Seq(Pieces) : SetConn(c, [Sock(c) EXCEPT !.rep = r])
    BY <1>4, <2>1, AfterOkIs, SmallRecvIs
  <2>3. CASE SaysOk(Sock(c).rep[1])
    <3> DEFINE s == [cl[c] EXCEPT !.pc = "ls"]
    <3>1. s \in Client /\ s.pc = "ls" /\ s.state = cl[c].state /\ s.sock = cl[c].sock
      BY WaitIs
    <3>2. SetClient(c, s)
      BY <1>4, <2>3
    <3> HIDE DEF s
    <3>3. Active(s)
      BY <1>1, <3>1 DEF Active
    <3> QED
      BY <1>1, <1>2, <2>2, <3>1, <3>2, <3>3, InsideReads
  <2>4. CASE ~ SaysOk(Sock(c).rep[1])
    <3>1. SetClient(c, Prompt(c))
      BY <1>4, <2>4 DEF Prompt
    <3> QED
      BY <1>1, <1>2, <2>2, <3>1, PromptIs, InsideReads
  <2> QED
    BY <2>3, <2>4
<1> QED
  BY <1>3, <1>4 DEF ls_ok

LEMMA ls_listingStep ==
  ASSUME TypeInv, NEW c \in Clients, ls_listing(c)
  PROVE  Step(c) /\ OthersOK'
<1>1. Active(cl[c]) /\ cl[c].state # "IDLE"
  BY ActiveIs DEF ls_listing
<1>2. clean' \in BOOLEAN
  BY DEF ls_listing, TypeInv
<1>3. OthersOK'
  BY <1>2, SameOthers DEF ls_listing, OthersOK
<1>4. SetClient(c, Prompt(c))
  BY DEF ls_listing
<1>5. UNCHANGED conns \/ \E k \in Recv(Sock(c).rep) : SetConn(c, Drop(c, k))
  BY DEF ls_listing
<1> QED
  BY <1>1, <1>3, <1>4, <1>5, PromptIs, InsideReads

LEMMA getStep ==
  ASSUME TypeInv, NEW c \in Clients, get(c)
  PROVE  Step(c) /\ OthersOK'
<1> DEFINE sync == Sock(c).rep = <<>> /\ Sock(c).req = <<>> /\ srv.state = "CONNECTED"
           s == [cl[c] EXCEPT !.pc = "get_ok", !.sync = sync]
<1>1. /\ asked' \in 0 .. MaxCommands
      /\ cl[c].pc = "prompt" /\ cl[c].state = "CONNECTED" /\ cl[c] \in Client
  BY AskedOnce, ActiveIs DEF get
<1>2. Active(cl[c])
  BY <1>1 DEF Active
<1>3. sync \in BOOLEAN
  OBVIOUS
<1>4. SetClient(c, s) /\ SetConn(c, Request(Sock(c), "get"))
  BY DEF get
<1> HIDE DEF sync
<1>5. s \in Client /\ s.pc = "get_ok" /\ s.state = cl[c].state /\ s.sock = cl[c].sock
  BY <1>1, <1>3 DEF Client
<1> HIDE DEF s
<1>6. Active(s)
  BY <1>1, <1>5 DEF Active
<1>7. Step(c)
  BY <1>2, <1>4, <1>5, <1>6, InsideAsks DEF Requests
<1>8. OthersOK'
  BY <1>1, SameOthers DEF get, OthersOK
<1> QED
  BY <1>7, <1>8

(* A file is expected next, of as many units as were read in the answer.    *)
LEMMA DownloadsStep ==
  ASSUME TypeInv, NEW c \in Clients, cl[c].pc = "get_ok", NEW n \in -1 .. MaxSize,
         NEW r \in Seq(Pieces), Downloads(c, n, [Sock(c) EXCEPT !.rep = r]),
         UNCHANGED <<asked, clean>>
  PROVE  Step(c) /\ OthersOK'
<1> DEFINE tmp == Opened(disk[c].tmp)
           s == [cl[c] EXCEPT !.pc = "get_data", !.state = "DOWNLOADING",
                              !.size = n, !.left = n, !.buf = <<>>, !.old = tmp]
<1>1. Active(cl[c]) /\ cl[c].sock # 0 /\ cl[c] \in Client
  BY ActiveIs
<1>2. tmp \in Data /\ tmp \in Contents /\ <<>> \in Data
  BY EmptySeq DEF TypeInv, DiskOK, Opened, Contents, Data
<1>3. /\ SetConn(c, [Sock(c) EXCEPT !.rep = r])
      /\ SetClient(c, s) /\ disk' = [disk EXCEPT ![c].tmp = tmp]
  BY DEF Downloads
<1> HIDE DEF tmp
<1> DEFINE y == GoesOn(cl[c], "get_data", "DOWNLOADING", n)
           u == Opens(y, <<>>, tmp, n)
<1>4. /\ y \in Client
      /\ y.pc = "get_data" /\ y.state = "DOWNLOADING" /\ y.sock = cl[c].sock
  <2>1. PICK p \in ClientPcs, st \in ClStates : p = "get_data" /\ st = "DOWNLOADING"
    BY DEF ClientPcs, ClStates
  <2>2. PICK v \in Client : v = cl[c]
    BY <1>1
  <2>3. PICK z \in Sizes : z = n
    BY DEF Sizes
  <2>4. LET t == GoesOn(v, p, st, z)
        IN t \in Client /\ t.pc = p /\ t.state = st /\ t.sock = v.sock
    BY ClientGoesOn
  <2> QED
    BY <2>1, <2>2, <2>3, <2>4
<1>5. s = u
  BY DEF GoesOn, Opens
<1> HIDE DEF y
<1>6. u \in Client /\ u.pc = y.pc /\ u.state = y.state /\ u.sock = y.sock
  <2>1. n \in Int
    OBVIOUS
  <2> QED
    BY <1>2, <1>4, <2>1, ClientOpens
<1>7. s \in Client /\ s.pc = "get_data" /\ s.state = "DOWNLOADING" /\ s.sock = cl[c].sock
  BY <1>4, <1>5, <1>6
<1> HIDE DEF s
<1>8. Step(c)
  BY <1>1, <1>3, <1>7, InsideReads DEF Active
<1>9. DiskOK'
  BY <1>2, <1>3 DEF TypeInv, DiskOK
<1> QED
  BY <1>3, <1>8, <1>9, SameOthers DEF OthersOK

LEMMA get_okStep ==
  ASSUME TypeInv, NEW c \in Clients, get_ok(c)
  PROVE  Step(c) /\ OthersOK'
<1> DEFINE m == Sock(c).rep[1]
           r == Rest(Sock(c).rep, 1)
<1>1. /\ cl[c].pc = "get_ok" /\ cl[c].sock # 0
      /\ Downloads(c, m[2], [Sock(c) EXCEPT !.rep = r]) /\ UNCHANGED <<asked, clean>>
  BY ActiveIs DEF get_ok, Drop
<1>2. Sock(c).rep \in Seq(Pieces) /\ Sock(c).rep # <<>> /\ m[1] = "header"
  BY <1>1, SockIs DEF get_ok
<1>3. m \in Pieces
  BY <1>2
<1>4. PICK n \in -1 .. MaxSize : n = m[2]
  BY <1>2, <1>3, PieceKinds
<1>5. r \in Seq(Pieces)
  BY <1>2, RestIs
<1> HIDE DEF m, r
<1> QED
  BY <1>1, <1>4, <1>5, DownloadsStep

(* What get may take for a size, and what it leaves.                        *)
LEMMA TornIs ==
  ASSUME TypeInv, NEW c \in Clients, get_torn(c)
  PROVE  /\ cl[c].pc = "get_ok" /\ UNCHANGED <<asked, clean>>
         /\ \E n \in -1 .. MaxSize, r \in Seq(Pieces) :
              Downloads(c, n, [Sock(c) EXCEPT !.rep = r])
<1>1. /\ cl[c].pc = "get_ok" /\ UNCHANGED <<asked, clean>> /\ Len(Sock(c).rep) > 1
      /\ \E n \in 0 .. MaxSize, r \in SmallRecv(Tail(Sock(c).rep), 9) :
           Downloads(c, n, [Sock(c) EXCEPT !.rep = r])
  BY DEF get_torn
<1>2. Sock(c).rep \in Seq(Pieces)
  BY <1>1, ActiveIs, SockIs
<1>3. Tail(Sock(c).rep) \in Seq(Pieces)
  BY <1>1, <1>2
<1>4. SmallRecv(Tail(Sock(c).rep), 9) \subseteq Seq(Pieces)
  BY <1>3, SmallRecvIs
<1> HIDE DEF Downloads, SmallRecv
<1>5. 0 .. MaxSize \subseteq -1 .. MaxSize
  BY Bounds
<1> QED
  BY <1>1, <1>4, <1>5

LEMMA get_tornStep ==
  ASSUME TypeInv, NEW c \in Clients, get_torn(c)
  PROVE  Step(c) /\ OthersOK'
BY TornIs, DownloadsStep

LEMMA get_not_okStep ==
  ASSUME TypeInv, NEW c \in Clients, get_not_ok(c)
  PROVE  Step(c) /\ OthersOK'
<1>1. Active(cl[c]) /\ cl[c].state # "IDLE" /\ cl[c].sock # 0
  BY ActiveIs DEF get_not_ok
<1>2. OthersOK'
  BY SameOthers DEF get_not_ok, OthersOK
<1>3. Sock(c).rep \in Seq(Pieces)
  BY <1>1, SockIs
<1>4. UNCHANGED conns \/ \E r \in Seq(Pieces) : SetConn(c, [Sock(c) EXCEPT !.rep = r])
  BY <1>3, SmallRecvIs DEF get_not_ok
<1>5. SetClient(c, Prompt(c))
  BY DEF get_not_ok
<1> QED
  BY <1>1, <1>2, <1>4, <1>5, PromptIs, InsideReads

(* What is written for one recv: as many units as it is counted for.        *)
LEMMA WrittenIs ==
  ASSUME TypeInv, NEW s \in Seq(Pieces), NEW n \in Int
  PROVE  Written(s, n) \in Data
<1>1. \A i \in 1 .. n : (IF i <= Len(s) /\ IsUnit(s[i]) THEN s[i] ELSE Junk)
                          \in {Unit(j) : j \in 1 .. MaxSize} \cup {Junk}
  BY PieceKinds
<1>2. CASE n \in Nat
  BY <1>1, <1>2 DEF Written, Data
<1>3. CASE n \notin Nat
  <2>1. 1 .. n = 1 .. 0
    BY <1>3
  <2> QED
    BY <1>1, <2>1 DEF Written, Data
<1> QED
  BY <1>2, <1>3

LEMMA get_dataStep ==
  ASSUME TypeInv, NEW c \in Clients, get_data(c)
  PROVE  Step(c) /\ OthersOK'
<1> DEFINE n == Min({cl[c].left, Buf})
           S(p) == [cl[c] EXCEPT !.buf = @ \o Written(p, n), !.left = @ - Buf]
<1>1. Active(cl[c]) /\ cl[c].sock # 0 /\ cl[c] \in Client /\ cl[c].state # "IDLE"
      /\ cl[c].pc = "get_data"
  BY ActiveIs DEF get_data
<1>2. n \in Int
  <2>1. cl[c].left \in Int /\ Buf \in Int
    BY <1>1, Bounds DEF Client, Data
  <2>2. \E x \in {cl[c].left, Buf} : \A y \in {cl[c].left, Buf} : x <= y
    BY <2>1
  <2> QED
    BY <2>1, <2>2 DEF Min
<1>3. Sock(c).rep \in Seq(Pieces)
  BY <1>1, SockIs
<1>4. \E p \in Seq(Pieces) :
        /\ SetClient(c, S(p))
        /\ \/ UNCHANGED conns
           \/ \E k \in Recv(Sock(c).rep) : SetConn(c, Drop(c, k))
  <2>1. CASE \E k \in Recv(Sock(c).rep) :
               /\ SetClient(c, S(SubSeq(Sock(c).rep, 1, k)))
               /\ SetConn(c, Drop(c, k))
    BY <1>3, <2>1, RecvIs, RestIs
  <2>2. CASE SetClient(c, S(<<>>)) /\ UNCHANGED conns
    BY <2>2, EmptySeq
  <2> QED
    BY <2>1, <2>2 DEF get_data
<1>5. clean' \in BOOLEAN
  BY DEF get_data, TypeInv
<1> HIDE DEF n
<1>6. PICK p \in Seq(Pieces) :
        /\ SetClient(c, S(p))
        /\ \/ UNCHANGED conns
           \/ \E k \in Recv(Sock(c).rep) : SetConn(c, Drop(c, k))
  BY <1>4
<1>7. cl[c].buf \o Written(p, n) \in Data /\ cl[c].left - Buf \in Int
  <2>1. cl[c].buf \in Data /\ cl[c].left \in Int /\ Buf \in Int
    BY <1>1, Bounds DEF Client, Data
  <2>2. Written(p, n) \in Data
    BY <1>2, WrittenIs
  <2>3. cl[c].buf \o Written(p, n) \in Data
    BY <2>1, <2>2, ConcatProperties DEF Data
  <2> QED
    BY <2>1, <2>3
<1>8. S(p) = Reads(cl[c], cl[c].buf \o Written(p, n), cl[c].left - Buf)
  BY DEF Reads
<1>9. /\ S(p) \in Client
      /\ S(p).pc = "get_data" /\ S(p).state = cl[c].state /\ S(p).sock = cl[c].sock
  BY <1>1, <1>7, <1>8, ClientReads
<1> HIDE DEF S
<1>10. Step(c)
  BY <1>1, <1>6, <1>9, InsideReads DEF Active
<1> QED
  BY <1>5, <1>10, SameOthers DEF get_data, OthersOK

(* Writing to the temporary file what was received.                         *)
LEMMA TempIs ==
  ASSUME TypeInv, NEW c \in Clients, cl[c].pc = "get_data" \/ cl[c].buf # <<>>
  PROVE  disk' = [disk EXCEPT ![c].tmp = @ \o cl[c].buf] => DiskOK'
<1>1. disk[c].tmp \in Data
  BY DEF TypeInv, TempOK, DiskOK, Contents, Data
<1>2. cl[c].buf \in Data
  BY ActiveIs DEF Client, Data
<1>3. disk[c].tmp \o cl[c].buf \in Contents
  BY <1>1, <1>2, ConcatProperties DEF Contents, Data
<1> QED
  BY <1>3 DEF TypeInv, DiskOK

LEMMA get_closeStep ==
  ASSUME TypeInv, NEW c \in Clients, get_close(c)
  PROVE  Step(c) /\ OthersOK'
<1> DEFINE s == [cl[c] EXCEPT !.pc = "get_done", !.buf = <<>>]
<1>1. /\ cl[c].pc = "get_data" /\ Active(cl[c])
      /\ cl[c] \in Client /\ cl[c].state # "IDLE"
  BY ActiveIs DEF get_close
<1>2. s \in Client /\ s.pc = "get_done" /\ s.state = cl[c].state /\ s.sock = cl[c].sock
  BY <1>1, EmptySeq DEF Client
<1>3. SetClient(c, s) /\ SetConn(c, Request(Sock(c), "done"))
  BY DEF get_close
<1> HIDE DEF s
<1>4. Active(s)
  BY <1>1, <1>2 DEF Active
<1>5. Step(c)
  BY <1>1, <1>2, <1>3, <1>4, InsideAsks DEF Requests
<1>6. DiskOK'
  BY <1>1, TempIs DEF get_close
<1> QED
  BY <1>5, <1>6, SameOthers DEF get_close, OthersOK

LEMMA get_doneStep ==
  ASSUME TypeInv, NEW c \in Clients, get_done(c)
  PROVE  Step(c) /\ OthersOK'
<1> DEFINE s == [Prompt(c) EXCEPT !.state = "CONNECTED"]
<1>1. /\ Active(cl[c]) /\ cl[c] \in Client /\ cl[c].state # "IDLE"
  BY ActiveIs DEF get_done
<1>2. s \in Client /\ s.pc = "prompt" /\ s.state = "CONNECTED" /\ s.sock = cl[c].sock
  BY PromptIs DEF Client, ClStates
<1>3. Renamed(c) \in Copies
  <2>1. disk[c].tmp \in Contents
    BY DEF TypeInv, DiskOK
  <2>2. cl[c].old \in Data /\ cl[c].size \in -1 .. MaxSize /\ cl[c].sync \in BOOLEAN
    BY <1>1 DEF Client, Data
  <2> QED
    BY <2>1, <2>2 DEF Renamed, Copies
<1>4. NoFile \in Contents
  BY DEF Contents
<1>5. DiskOK'
  BY <1>3, <1>4 DEF get_done, TypeInv, DiskOK
<1>6. \/ UNCHANGED conns
      \/ \E k \in Recv(Sock(c).rep) : SetConn(c, Drop(c, k))
  BY DEF get_done
<1>7. SetClient(c, s) \/ SetClient(c, Prompt(c))
  BY DEF get_done
<1> HIDE DEF s
<1>8. Active(s)
  BY <1>2 DEF Active
<1>9. Step(c)
  BY <1>1, <1>2, <1>6, <1>7, <1>8, PromptIs, InsideReads
<1> QED
  BY <1>5, <1>9, SameOthers DEF get_done, OthersOK

(* Leaving, by a command or in a crash.                                     *)
LEMMA InitIs ==
  ASSUME TypeInv
  PROVE  init \in Client /\ init.pc = "prompt" /\ init.state = "IDLE" /\ init.sock = 0
BY EmptySeq, Bounds DEF init, Client, ClStates

LEMMA LeaveStep ==
  ASSUME TypeInv, NEW c \in Clients, Leave(c)
  PROVE  Step(c) /\ clean' \in BOOLEAN
<1>1. cl' = [cl EXCEPT ![c] = init] /\ clean' \in BOOLEAN
  BY DEF Leave, SetClient, TypeInv
<1>2. CASE Connected(c)
  <2> DEFINE x == CloseClient(Sock(c))
  <2>1. cl[c].sock # 0 /\ (cl[c].pc = "conn" \/ cl[c].state # "IDLE")
    BY <1>2 DEF Connected
  <2>2. conns' = [conns EXCEPT ![cl[c].sock] = x]
    BY <1>2 DEF Leave, Sock
  <2>3. /\ x \in Conn /\ x.rep = <<>> /\ x.req = Sock(c).req /\ x.send = Sock(c).send
        /\ x.cend # "open" /\ (Sock(c).rep = <<>> => x.cend = "fin")
    BY <2>1, SockIs, CloseClientIs DEF Conn
  <2> HIDE DEF x
  <2>4. Leaves(c)
    BY <1>1, <2>1, <2>2, <2>3, InitIs DEF Leaves, Moves
  <2> QED
    BY <1>1, <2>4 DEF Step
<1>3. CASE ~ Connected(c)
  <2>1. cl[c].state = "IDLE" /\ cl[c].pc # "conn"
    BY <1>3 DEF Connected, TypeInv, ClientsOK
  <2>2. UNCHANGED conns
    BY <1>3 DEF Leave
  <2> QED
    BY <1>1, <2>1, <2>2 DEF Step, Rests
<1> QED
  BY <1>2, <1>3

LEMMA quitStep ==
  ASSUME TypeInv, NEW c \in Clients, quit(c)
  PROVE  Step(c) /\ OthersOK'
<1>1. asked' \in 0 .. MaxCommands
  BY Bounds DEF quit, TypeInv
<1>2. Step(c) /\ clean' \in BOOLEAN
  BY LeaveStep DEF quit
<1>3. DiskOK'
  BY SameOthers, TempIs DEF quit
<1> QED
  BY <1>1, <1>2, <1>3 DEF OthersOK

LEMMA get_crashStep ==
  ASSUME TypeInv, NEW c \in Clients, get_crash(c)
  PROVE  Step(c) /\ OthersOK'
BY LeaveStep, SameOthers DEF get_crash, OthersOK

(* Every step of a client is one of these.                                  *)
LEMMA ClientStepIs ==
  ASSUME TypeInv, NEW c \in Clients, ClientStep(c)
  PROVE  Step(c) /\ OthersOK' /\ UNCHANGED <<srv, server_file, server_dir>>
<1>1. CASE Typed(c)
  BY <1>1, connStep, byeStep, lsStep, getStep, quitStep DEF ClientStep, Typed
<1>2. CASE Waits(c)
  BY <1>2, conn_replyStep, conn_failsStep, bye_replyStep, ls_okStep, ls_listingStep,
     get_okStep, get_tornStep, get_not_okStep, get_dataStep, get_closeStep, get_doneStep,
     get_crashStep, recv_errorStep
     DEF ClientStep, Waits
<1> QED
  BY <1>1, <1>2 DEF ClientStep

------------------------------------------------------------------------------
(* A step of a client keeps the types.                                      *)

(* Nothing is received without a temporary file to write it to.             *)
LEMMA TempMoves ==
  ASSUME TypeInv, NEW c \in Clients, NEW s, SetClient(c, s),
         \A d \in Clients \ {c} : disk'[d] = disk[d],
         s.pc = "get_data" \/ s.buf # <<>> => disk'[c].tmp \in Data,
         s.pc = "get_done" => s.buf = <<>>
  PROVE  TempOK'
<1>1. Data' = Data
  BY DEF Data, Unit, Junk
<1> SUFFICES ASSUME NEW d \in Clients
             PROVE  /\ cl'[d].pc = "get_data" \/ cl'[d].buf # <<>> => disk'[d].tmp \in Data
                    /\ cl'[d].pc = "get_done" => cl'[d].buf = <<>>
  BY <1>1 DEF TempOK
<1>2. CASE d = c
  BY <1>2 DEF SetClient, TypeInv, ClientsOK
<1>3. CASE d # c
  BY <1>3 DEF SetClient, TypeInv, ClientsOK, TempOK
<1> QED
  BY <1>2, <1>3

LEMMA TempKept ==
  ASSUME TypeInv, NEW c \in Clients, NEW s, SetClient(c, s),
         s.buf = cl[c].buf \/ s.buf = <<>>, s.pc \notin {"get_data", "get_done"},
         UNCHANGED disk
  PROVE  TempOK'
<1>1. s.buf # <<>> => disk'[c].tmp \in Data
  BY DEF TypeInv, TempOK
<1> QED
  BY <1>1, TempMoves

LEMMA TempStep ==
  ASSUME TypeInv, NEW c \in Clients, ClientStep(c)
  PROVE  TempOK'
<1> USE DEF ClientStep
<1>1. cl[c] \in Client
  BY ActiveIs
<1>2. \A p \in ClientPcs : [cl[c] EXCEPT !.pc = p].pc = p /\ [cl[c] EXCEPT !.pc = p].buf = cl[c].buf
  BY <1>1 DEF Client
<1>3. Prompt(c).pc = "prompt" /\ Prompt(c).buf = cl[c].buf
  BY <1>1 DEF Client, Prompt
<1>4. init.buf = <<>> /\ init.pc = "prompt"
  BY DEF init
<1>5. CASE conn(c)
  <2>1. CASE srv.pc = "dead"
    <3>1. UNCHANGED <<cl, disk>>
      BY <1>5, <2>1 DEF conn
    <3> QED
      BY <3>1 DEF TypeInv, TempOK, Data, Unit, Junk
  <2>2. CASE srv.pc # "dead"
    <3> DEFINE s == [cl[c] EXCEPT !.pc = "conn", !.sock = Len(conns) + 1]
    <3>1. s.pc = "conn" /\ s.buf = cl[c].buf
      BY <1>1 DEF Client
    <3>2. SetClient(c, s) /\ UNCHANGED disk
      BY <1>5, <2>2 DEF conn
    <3> HIDE DEF s
    <3> QED
      BY <3>1, <3>2, TempKept
  <2> QED
    BY <2>1, <2>2
<1>6. CASE conn_reply(c) \/ bye_reply(c)
  <2>1. PICK s : /\ SetClient(c, s) /\ s.pc = "prompt" /\ s.buf = cl[c].buf
                 /\ UNCHANGED disk
    <3>1. CASE conn_reply(c)
      <4> DEFINE s == [Prompt(c) EXCEPT !.state = "CONNECTED", !.id = 1]
      <4>1. s.pc = "prompt" /\ s.buf = cl[c].buf
        BY <1>1, PromptIs, <1>3 DEF Client
      <4>2. (SetClient(c, s) \/ SetClient(c, Prompt(c))) /\ UNCHANGED disk
        BY <3>1 DEF conn_reply
      <4> HIDE DEF s
      <4> QED
        BY <1>3, <4>1, <4>2
    <3>2. CASE bye_reply(c)
      <4>1. finish(c).pc = "prompt" /\ finish(c).buf = cl[c].buf
        BY <1>1, PromptIs, <1>3 DEF Client, finish
      <4> QED
        BY <3>2, <4>1 DEF bye_reply
    <3> QED
      BY <1>6, <3>1, <3>2
  <2> QED
    BY <2>1, TempKept
<1>7. CASE conn_fails(c) \/ recv_error(c) \/ ls_listing(c) \/ get_not_ok(c)
  <2>1. SetClient(c, Prompt(c)) /\ UNCHANGED disk
    BY <1>7 DEF conn_fails, recv_error, ls_listing, get_not_ok
  <2> QED
    BY <1>3, <2>1, TempKept
<1>8. CASE bye(c) \/ ls(c) \/ ls_ok(c)
  <2>1. /\ UNCHANGED disk
        /\ \E p \in {"bye", "ls_ok", "ls", "prompt"} : SetClient(c, [cl[c] EXCEPT !.pc = p])
    BY <1>8 DEF bye, ls, ls_ok, Prompt
  <2>2. PICK p \in {"bye", "ls_ok", "ls", "prompt"} : SetClient(c, [cl[c] EXCEPT !.pc = p])
    BY <2>1
  <2> DEFINE s == [cl[c] EXCEPT !.pc = p]
  <2>3. s.pc = p /\ s.buf = cl[c].buf
    BY <1>2 DEF ClientPcs
  <2> HIDE DEF s
  <2> QED
    BY <2>1, <2>2, <2>3, TempKept DEF s
<1>9. CASE get(c)
  <2> DEFINE sync == Sock(c).rep = <<>> /\ Sock(c).req = <<>> /\ srv.state = "CONNECTED"
             s == [cl[c] EXCEPT !.pc = "get_ok", !.sync = sync]
  <2>1. SetClient(c, s) /\ UNCHANGED disk
    BY <1>9 DEF get
  <2>2. s.pc = "get_ok" /\ s.buf = cl[c].buf
    BY <1>1 DEF Client
  <2> HIDE DEF s
  <2> QED
    BY <2>1, <2>2, TempKept
<1>10. CASE get_ok(c) \/ get_torn(c)
  <2>0. \E m, x : Downloads(c, m, x)
    BY <1>10 DEF get_ok, get_torn
  <2>. PICK m, x : Downloads(c, m, x)
    BY <2>0
  <2> DEFINE tmp == Opened(disk[c].tmp)
             s == [cl[c] EXCEPT !.pc = "get_data", !.state = "DOWNLOADING",
                              !.size = m, !.left = m, !.buf = <<>>, !.old = tmp]
  <2>1. SetClient(c, s) /\ disk' = [disk EXCEPT ![c].tmp = tmp]
    BY DEF Downloads
  <2>2. tmp \in Data
    BY EmptySeq DEF TypeInv, DiskOK, Opened, Contents, Data
  <2> HIDE DEF tmp
  <2>3. s.pc = "get_data"
    BY <1>1 DEF Client
  <2> HIDE DEF s
  <2>4. disk'[c].tmp \in Data /\ \A d \in Clients \ {c} : disk'[d] = disk[d]
    BY <2>1, <2>2 DEF TypeInv, DiskOK
  <2> QED
    BY <2>1, <2>3, <2>4, TempMoves
<1>11. CASE get_data(c)
  <2>1. /\ cl[c].pc = "get_data" /\ UNCHANGED disk
        /\ \E b, l : SetClient(c, Reads(cl[c], b, l))
    BY <1>11 DEF get_data, Reads
  <2>2. PICK b, l : SetClient(c, Reads(cl[c], b, l))
    BY <2>1
  <2>3. Reads(cl[c], b, l).pc = "get_data"
    BY <1>1, <2>1 DEF Client, Reads
  <2>4. disk'[c].tmp \in Data /\ \A d \in Clients \ {c} : disk'[d] = disk[d]
    BY <2>1 DEF TypeInv, TempOK
  <2> QED
    BY <2>2, <2>3, <2>4, TempMoves
<1>12. CASE get_close(c)
  <2> DEFINE s == [cl[c] EXCEPT !.pc = "get_done", !.buf = <<>>]
  <2>1. s.pc = "get_done" /\ s.buf = <<>>
    BY <1>1 DEF Client
  <2>2. SetClient(c, s) /\ disk' = [disk EXCEPT ![c].tmp = @ \o cl[c].buf]
    BY <1>12 DEF get_close
  <2>3. \A d \in Clients \ {c} : disk'[d] = disk[d]
    BY <2>2 DEF TypeInv, DiskOK
  <2> HIDE DEF s
  <2> QED
    BY <2>1, <2>2, <2>3, TempMoves
<1>13. CASE get_done(c)
  <2> DEFINE s == [Prompt(c) EXCEPT !.state = "CONNECTED"]
  <2>1. /\ s.pc = "prompt" /\ s.buf = cl[c].buf
        /\ cl[c].buf = <<>>
    BY <1>1, <1>3, <1>13, PromptIs DEF Client, TypeInv, TempOK, get_done
  <2>2. SetClient(c, s) \/ SetClient(c, Prompt(c))
    BY <1>13 DEF get_done
  <2>3. \A d \in Clients \ {c} : disk'[d] = disk[d]
    BY <1>13 DEF TypeInv, DiskOK, get_done
  <2> HIDE DEF s
  <2> QED
    BY <1>3, <2>1, <2>2, <2>3, TempMoves
<1>14. CASE quit(c) \/ get_crash(c)
  <2>1. SetClient(c, init)
    BY <1>14 DEF quit, get_crash, Leave
  <2>2. \A d \in Clients \ {c} : disk'[d] = disk[d]
    BY <1>14 DEF TypeInv, DiskOK, quit, get_crash
  <2> QED
    BY <1>4, <2>1, <2>2, TempMoves
<1> QED
  BY <1>5, <1>6, <1>7, <1>8, <1>9, <1>10, <1>11, <1>12, <1>13, <1>14 DEF Typed, Waits

------------------------------------------------------------------------------
(* A step of a client keeps the sessions.                                   *)

LEMMA MovesIs ==
  ASSUME TypeInv, NEW c \in Clients, NEW s, NEW x, Moves(c, s, x)
  PROVE  /\ conns' \in Seq(Conn) /\ Len(conns') = Len(conns)
         /\ DOMAIN conns' = DOMAIN conns
         /\ cl[c].sock \in DOMAIN conns /\ conns'[cl[c].sock] = x
         /\ \A k \in DOMAIN conns : k # cl[c].sock => conns'[k] = conns[k]
         /\ cl' \in [Clients -> Client] /\ cl'[c] = s
         /\ \A d \in Clients \ {c} : cl'[d] = cl[d]
<1>1. cl[c].sock \in DOMAIN conns
  BY SockIs DEF Moves
<1>2. conns \in Seq(Conn) /\ x \in Conn /\ conns' = [conns EXCEPT ![cl[c].sock] = x]
  BY DEF TypeInv, Moves
<1>3. cl \in [Clients -> Client] /\ s \in Client /\ cl' = [cl EXCEPT ![c] = s]
  BY DEF TypeInv, ClientsOK, Moves
<1>4. /\ conns' \in Seq(Conn) /\ Len(conns') = Len(conns) /\ DOMAIN conns' = DOMAIN conns
  BY <1>1, <1>2
<1> QED
  BY <1>1, <1>2, <1>3, <1>4

LEMMA BeginsIs ==
  ASSUME TypeInv, NEW c \in Clients, Begins(c)
  PROVE  /\ conns' \in Seq(Conn) /\ Len(conns') = Len(conns) + 1
         /\ DOMAIN conns' = 1 .. Len(conns) + 1
         /\ conns'[Len(conns) + 1] = NewConn
         /\ \A k \in DOMAIN conns : conns'[k] = conns[k]
         /\ cl' \in [Clients -> Client]
         /\ \A d \in Clients \ {c} : cl'[d] = cl[d]
         /\ cl'[c].pc = "conn" /\ cl'[c].state = "IDLE" /\ cl'[c].sock = Len(conns) + 1
<1>1. NewConn \in Conn
  <2>1. <<"hello">> \in Seq(Requests) /\ <<>> \in Seq(Pieces)
    BY EmptySeq DEF Requests
  <2> QED
    BY <2>1 DEF NewConn, Conn, ConnOf, Ends
<1>2. conns \in Seq(Conn) /\ conns' = Append(conns, NewConn)
  BY DEF TypeInv, Begins
<1>3. cl \in [Clients -> Client] /\ \E s \in Client :
        /\ s.pc = "conn" /\ s.state = "IDLE" /\ s.sock = Len(conns) + 1
        /\ cl' = [cl EXCEPT ![c] = s]
  BY DEF TypeInv, ClientsOK, Begins
<1> QED
  BY <1>1, <1>2, <1>3, AppendProperties

(* The other clients' connections are not touched.                          *)
LEMMA OthersKeep ==
  ASSUME TypeInv, OwnSockets, SessionOK, UNCHANGED srv, NEW c \in Clients,
         \A d \in Clients \ {c} : cl'[d] = cl[d],
         \A k \in DOMAIN conns : k # cl[c].sock => conns'[k] = conns[k]
  PROVE  \A d \in Clients \ {c} : ClientOK(d)'
<1> SUFFICES ASSUME NEW d \in Clients \ {c} PROVE ClientOK(d)'
  OBVIOUS
<1>1. ClientOK(d)
  BY DEF SessionOK
<1>2. CASE cl[d].sock = 0
  BY <1>2 DEF TypeInv, ClientsOK, ClientOK
<1>3. CASE cl[d].sock # 0
  <2>1. cl[d].sock # cl[c].sock
    BY <1>3 DEF OwnSockets
  <2>2. Sock(d)' = Sock(d)
    BY <1>3, <2>1, SockIs DEF Sock
  <2>3. cl'[d] = cl[d] /\ srv' = srv
    OBVIOUS
  <2> QED
    BY <1>1, <2>2, <2>3 DEF ClientOK, ConnOK, ByeOK, InsideOK, Holds
<1> QED
  BY <1>2, <1>3

LEMMA MovesSession ==
  ASSUME TypeInv, OwnSockets, SessionOK, UNCHANGED srv,
         NEW c \in Clients, NEW s, NEW x, Moves(c, s, x),
         s.sock \in {0, cl[c].sock},
         srv.state = "IDLE" => x.req = Sock(c).req,
         x.cend = "open" => Sock(c).cend = "open",
         cl[c].sock > srv.holder =>
           /\ x.rep = <<>> /\ x.cend \in {"open", "fin"}
           /\ x.send = Sock(c).send /\ x.req = Sock(c).req,
         ClientOK(c)'
  PROVE  SessionOK' /\ OwnSockets'
<1> DEFINE k == cl[c].sock
<1>1. /\ DOMAIN conns' = DOMAIN conns /\ k \in DOMAIN conns
      /\ conns'[k] = x /\ Sock(c) = conns[k] /\ cl'[c] = s
      /\ \A j \in DOMAIN conns : j # k => conns'[j] = conns[j]
      /\ \A d \in Clients \ {c} : cl'[d] = cl[d]
  BY MovesIs DEF Sock
<1>2. /\ srv.id \in Nat /\ srv.holder \in Nat /\ srv.id <= Len(conns)
      /\ DOMAIN conns = 1 .. Len(conns) /\ Len(conns) \in Nat
      /\ srv.pc \in {"recv", "get"} => srv.id # 0
  BY DEF TypeInv, ServerOK, Server
<1>3. srv.holder <= srv.id
  BY DEF SessionOK, HolderOK
<1> HIDE DEF k
<1>4. HolderOK'
  <2>1. HolderOK
    BY DEF SessionOK
  <2>2. srv.pc = "recv" /\ srv.state = "IDLE" => conns'[srv.id].req = conns[srv.id].req
    BY <1>1, <1>2
  <2>3. srv.holder # 0 /\ conns[srv.holder].cend # "open" => conns'[srv.holder].cend # "open"
    BY <1>1, <1>2, <1>3
  <2> QED
    BY <2>1, <2>2, <2>3 DEF HolderOK, Served
<1>5. WaitingOK'
  <2> SUFFICES ASSUME NEW j \in DOMAIN conns
               PROVE  /\ j > srv.holder => Unanswered(j)'
                      /\ j > srv.id => conns'[j].req = <<"hello">>
    BY <1>1 DEF WaitingOK
  <2>1. /\ j > srv.holder => Unanswered(j)
        /\ j > srv.id => conns[j].req = <<"hello">>
    BY DEF SessionOK, WaitingOK
  <2>2. CASE j # k
    BY <1>1, <2>1, <2>2 DEF Unanswered
  <2>3. CASE j = k
    <3>1. j > srv.holder => Unanswered(j)'
      BY <1>1, <2>1, <2>3 DEF Unanswered, k
    <3>2. j > srv.id => j > srv.holder
      BY <1>2, <1>3
    <3> QED
      BY <1>1, <2>1, <2>3, <3>1, <3>2 DEF k
  <2> QED
    BY <2>2, <2>3
<1>6. \A d \in Clients : ClientOK(d)'
  BY <1>1, OthersKeep DEF k
<1>7. OwnSockets'
  BY <1>1 DEF OwnSockets, k
<1> QED
  BY <1>4, <1>5, <1>6, <1>7 DEF SessionOK

LEMMA StepSession ==
  ASSUME TypeInv, OwnSockets, SessionOK, UNCHANGED srv, NEW c \in Clients, Step(c)
  PROVE  SessionOK' /\ OwnSockets'
<1> DEFINE k == cl[c].sock
<1>1. /\ srv.id \in Nat /\ srv.holder \in Nat /\ srv.id <= Len(conns)
      /\ DOMAIN conns = 1 .. Len(conns) /\ Len(conns) \in Nat
      /\ srv.pc \in {"recv", "get"} => srv.id # 0
      /\ cl[c].sock \in Nat
  <2>1. cl[c].sock \in Nat
    BY ActiveIs DEF Client
  <2> QED
    BY <2>1 DEF TypeInv, ServerOK, Server
<1>2. HolderOK /\ WaitingOK /\ ClientOK(c) /\ srv.holder <= srv.id
  BY DEF SessionOK, HolderOK
<1>3. CASE Begins(c)
  <2>1. /\ DOMAIN conns' = 1 .. Len(conns) + 1
        /\ conns'[Len(conns) + 1] = NewConn
        /\ \A j \in DOMAIN conns : conns'[j] = conns[j]
        /\ \A d \in Clients \ {c} : cl'[d] = cl[d]
        /\ cl'[c].pc = "conn" /\ cl'[c].state = "IDLE" /\ cl'[c].sock = Len(conns) + 1
    BY <1>3, BeginsIs
  <2>2. /\ NewConn.req = <<"hello">> /\ NewConn.rep = <<>>
        /\ NewConn.cend = "open" /\ NewConn.send = "open"
    BY DEF NewConn
  <2>3. HolderOK'
    <3>1. srv.pc = "recv" => conns'[srv.id] = conns[srv.id]
      BY <1>1, <2>1
    <3>2. srv.holder # 0 => conns'[srv.holder] = conns[srv.holder]
      BY <1>1, <1>2, <2>1
    <3> QED
      BY <1>2, <3>1, <3>2 DEF HolderOK, Served
  <2>4. WaitingOK'
    <3> SUFFICES ASSUME NEW j \in 1 .. Len(conns) + 1
                 PROVE  /\ j > srv.holder => Unanswered(j)'
                        /\ j > srv.id => conns'[j].req = <<"hello">>
      BY <2>1 DEF WaitingOK
    <3>1. CASE j \in DOMAIN conns
      BY <1>2, <2>1, <3>1 DEF WaitingOK, Unanswered
    <3>2. CASE j = Len(conns) + 1
      BY <2>1, <2>2, <3>2 DEF Unanswered
    <3> QED
      BY <1>1, <3>1, <3>2
  <2>5. ClientOK(c)'
    BY <1>1, <1>2, <2>1, <2>2 DEF ClientOK, ConnOK, Sock
  <2>6. \A d \in Clients \ {c} : ClientOK(d)'
    BY <2>1, OthersKeep
  <2>7. OwnSockets'
    <3>1. \A d \in Clients : cl[d].sock \in Nat /\ cl[d].sock <= Len(conns)
      BY DEF TypeInv, ClientsOK, Client
    <3> QED
      BY <1>1, <2>1, <3>1 DEF OwnSockets
  <2> QED
    BY <2>3, <2>4, <2>5, <2>6, <2>7 DEF SessionOK
<1>4. CASE Enters(c)
  <2>1. PICK s, x :
          /\ Moves(c, s, x) /\ s.sock = cl[c].sock
          /\ s.pc = "prompt" /\ s.state = "CONNECTED"
          /\ x.req = Sock(c).req /\ x.send = Sock(c).send /\ x.cend = Sock(c).cend
    BY <1>4 DEF Enters
  <2>2. cl[c].pc = "conn" /\ Sock(c).rep # <<>> /\ ConnOK(c)
    BY <1>2, <1>4 DEF Enters, ClientOK
  <2>3. conns'[k] = x /\ cl'[c] = s /\ k \in DOMAIN conns
    BY <2>1, MovesIs
  <2>4. ~ (k > srv.holder)
    BY <1>2, <2>2, <2>3 DEF WaitingOK, Unanswered, Sock
  <2>5. /\ k = srv.holder /\ srv.state # "IDLE" /\ Sock(c).send = "open"
        /\ Sock(c).req = <<>> /\ Sock(c).cend = "open"
    BY <1>1, <2>2, <2>4 DEF ConnOK, Holds
  <2>6. NoBye(<<>>)
    BY EmptySeq DEF NoBye
  <2>7. ClientOK(c)'
    BY <2>1, <2>3, <2>5, <2>6 DEF ClientOK, InsideOK, Holds, Sock
  <2> QED
    BY <2>1, <2>4, <2>7, MovesSession
<1>5. CASE GivesUp(c)
  <2>1. PICK s, x :
          /\ Moves(c, s, x) /\ s.sock = cl[c].sock
          /\ s.pc = "prompt" /\ s.state = cl[c].state
          /\ x.req = Sock(c).req /\ x.send = Sock(c).send /\ x.cend = Sock(c).cend
          /\ Sock(c).rep = <<>> => x.rep = <<>>
    BY <1>5 DEF GivesUp
  <2>2. cl[c].state = "IDLE"
    BY <1>2, <1>5 DEF GivesUp, ClientOK, ConnOK
  <2>3. cl'[c] = s /\ k \in DOMAIN conns
    BY <2>1, MovesIs
  <2>4. ClientOK(c)'
    BY <2>1, <2>2, <2>3 DEF ClientOK
  <2>5. k > srv.holder => x.rep = <<>> /\ x.cend \in {"open", "fin"}
    BY <1>2, <2>1, <2>3 DEF WaitingOK, Unanswered, Sock
  <2> QED
    BY <2>1, <2>4, <2>5, MovesSession
<1>6. CASE Inside(c)
  <2>1. PICK s, x :
          /\ Moves(c, s, x) /\ s.sock = cl[c].sock /\ Active(s)
          /\ x.cend = Sock(c).cend
          /\ Sock(c).send = "open" =>
               /\ x.send = "open"
               /\ \/ x.req = Sock(c).req
                  \/ \E m \in Requests \ {"bye"} : x.req = Append(Sock(c).req, m)
    BY <1>6 DEF Inside
  <2>2. /\ Sock(c).cend = "open" /\ k = srv.holder /\ srv.state # "IDLE"
        /\ Sock(c).send = "open" /\ NoBye(Sock(c).req)
    BY <1>2, <1>6 DEF Inside, Active, ClientOK, InsideOK, Holds
  <2>3. conns'[k] = x /\ cl'[c] = s
    BY <2>1, MovesIs
  <2>4. NoBye(x.req)
    <3>1. Sock(c).req \in Seq(Requests)
      BY <2>1, SockIs DEF Moves
    <3> QED
      BY <2>1, <2>2, <3>1, AppendProperties DEF NoBye
  <2>5. ClientOK(c)'
    BY <2>1, <2>2, <2>3, <2>4 DEF ClientOK, InsideOK, Holds, Sock, Active
  <2> QED
    BY <1>1, <2>1, <2>2, <2>5, MovesSession
<1>7. CASE AsksBye(c)
  <2>1. PICK s, x :
          /\ Moves(c, s, x) /\ s.sock = cl[c].sock
          /\ s.pc = "bye" /\ s.state = cl[c].state
          /\ x.cend = Sock(c).cend /\ x.rep = Sock(c).rep
          /\ Sock(c).send = "open" => x.send = "open"
    BY <1>7 DEF AsksBye
  <2>2. /\ Sock(c).cend = "open" /\ k = srv.holder /\ srv.state # "IDLE"
        /\ Sock(c).send = "open"
    BY <1>2, <1>7 DEF AsksBye, Active, ClientOK, InsideOK, Holds
  <2>3. conns'[k] = x /\ cl'[c] = s
    BY <2>1, MovesIs
  <2>4. ClientOK(c)'
    BY <1>1, <2>1, <2>2, <2>3 DEF ClientOK, ByeOK, Holds, Sock
  <2> QED
    BY <1>1, <2>1, <2>2, <2>4, MovesSession
<1>8. CASE ByeFails(c)
  BY <1>2, <1>8 DEF ByeFails, ClientOK, ByeOK, Holds
<1>9. CASE Leaves(c)
  <2>1. PICK s, x :
          /\ Moves(c, s, x) /\ s.sock \in {0, cl[c].sock}
          /\ s.pc = "prompt" /\ s.state = "IDLE"
          /\ x.rep = <<>> /\ x.req = Sock(c).req /\ x.send = Sock(c).send
          /\ x.cend # "open"
          /\ Sock(c).rep = <<>> => x.cend = "fin"
    BY <1>9 DEF Leaves
  <2>2. conns'[k] = x /\ cl'[c] = s /\ k \in DOMAIN conns
    BY <2>1, MovesIs
  <2>3. k > srv.holder => Sock(c).rep = <<>>
    BY <1>2, <2>2 DEF WaitingOK, Unanswered, Sock
  <2>4. ClientOK(c)'
    BY <2>1, <2>2 DEF ClientOK
  <2> QED
    BY <2>1, <2>3, <2>4, MovesSession
<1>10. CASE Rests(c)
  <2>1. HolderOK' /\ WaitingOK'
    BY <1>2, <1>10 DEF Rests, HolderOK, WaitingOK, Served, Unanswered
  <2>2. /\ \A d \in Clients \ {c} : cl'[d] = cl[d]
        /\ cl'[c] = cl[c] \/ cl'[c] = init
    BY <1>10 DEF Rests, TypeInv, ClientsOK
  <2>3. \A d \in Clients \ {c} : ClientOK(d)'
    BY <1>10, <2>2, OthersKeep DEF Rests
  <2>4. ClientOK(c)'
    BY <1>2, <1>10, <2>2, InitIs DEF Rests, ClientOK, ConnOK, ByeOK, InsideOK, Holds, Sock
  <2>5. OwnSockets'
    BY <2>2, InitIs DEF OwnSockets
  <2> QED
    BY <2>1, <2>3, <2>4, <2>5 DEF SessionOK
<1> QED
  BY <1>3, <1>4, <1>5, <1>6, <1>7, <1>8, <1>9, <1>10 DEF Step

(* Whatever has become of the server, clients have sockets of their own,    *)
(* and the types are kept.                                                  *)
MovesKeeps(c) ==
  \E s, x :
    /\ Moves(c, s, x) /\ s.sock \in {0, cl[c].sock}
    /\ s.pc # "prompt" \/ s.state # "IDLE" => s.sock # 0
    /\ s.pc \notin {"prompt", "conn"} => s.state # "IDLE"

LEMMA StepKeeps ==
  ASSUME TypeInv, NEW c \in Clients, Step(c)
  PROVE  Begins(c) \/ MovesKeeps(c) \/ Rests(c)
<1>1. /\ Active(cl[c]) => cl[c].state # "IDLE"
      /\ cl[c].pc = "bye" => cl[c].state # "IDLE"
  BY ActiveIs
<1>2. Enters(c) => MovesKeeps(c)
  BY DEF Enters, MovesKeeps, Moves
<1>3. GivesUp(c) => MovesKeeps(c)
  BY DEF GivesUp, MovesKeeps, Moves
<1>4. Inside(c) => MovesKeeps(c)
  BY DEF Inside, MovesKeeps, Moves, Active
<1>5. ASSUME AsksBye(c) PROVE MovesKeeps(c)
  <2>1. cl[c].state # "IDLE"
    BY <1>1, <1>5 DEF AsksBye
  <2>2. PICK s, x : /\ Moves(c, s, x) /\ s.sock = cl[c].sock
                    /\ s.pc = "bye" /\ s.state = cl[c].state
    BY <1>5 DEF AsksBye
  <2>3. cl[c].sock # 0
    BY <2>2 DEF Moves
  <2> QED
    BY <2>1, <2>2, <2>3 DEF MovesKeeps
<1>6. ByeFails(c) => MovesKeeps(c)
  BY <1>1 DEF ByeFails, MovesKeeps, Moves
<1>7. ASSUME Leaves(c) PROVE MovesKeeps(c)
  <2>1. PICK s, x : /\ Moves(c, s, x) /\ s.sock \in {0, cl[c].sock}
                    /\ s.pc = "prompt" /\ s.state = "IDLE"
    BY <1>7 DEF Leaves
  <2> QED
    BY <2>1 DEF MovesKeeps
<1> QED
  BY <1>2, <1>3, <1>4, <1>5, <1>6, <1>7 DEF Step

LEMMA StepTypes ==
  ASSUME TypeInv, OwnSockets, NEW c \in Clients, Step(c)
  PROVE  /\ OwnSockets' /\ ClientsOK'
         /\ conns' \in Seq(Conn) /\ Len(conns') \in Nat /\ Len(conns) <= Len(conns')
<1>1. /\ conns \in Seq(Conn) /\ Len(conns) \in Nat /\ cl \in [Clients -> Client]
  BY DEF TypeInv, ClientsOK
<1>2. Client' = Client
  BY DEF Client, Unit, Junk
<1>3. \A d \in Clients :
        /\ cl[d].sock \in Nat /\ cl[d].sock <= Len(conns)
        /\ cl[d].pc # "prompt" \/ cl[d].state # "IDLE" => cl[d].sock # 0
        /\ cl[d].pc \notin {"prompt", "conn"} => cl[d].state # "IDLE"
  <2>1. \A d \in Clients : cl[d].sock \in Nat
    BY <1>1 DEF Client
  <2> QED
    BY <2>1 DEF TypeInv, ClientsOK
<1>4. CASE Begins(c)
  <2>1. /\ conns' \in Seq(Conn) /\ Len(conns') = Len(conns) + 1
        /\ cl' \in [Clients -> Client]
        /\ \A d \in Clients \ {c} : cl'[d] = cl[d]
        /\ cl'[c].pc = "conn" /\ cl'[c].state = "IDLE" /\ cl'[c].sock = Len(conns) + 1
    BY <1>4, BeginsIs
  <2>2. OwnSockets'
    BY <1>1, <1>3, <2>1 DEF OwnSockets
  <2>3. ClientsOK'
    <3> SUFFICES ASSUME NEW d \in Clients
                 PROVE  /\ cl'[d].sock <= Len(conns')
                        /\ cl'[d].pc # "prompt" \/ cl'[d].state # "IDLE" => cl'[d].sock # 0
                        /\ cl'[d].pc \notin {"prompt", "conn"} => cl'[d].state # "IDLE"
      BY <1>2, <2>1 DEF ClientsOK
    <3>1. CASE d = c
      BY <1>1, <2>1, <3>1
    <3>2. CASE d # c
      BY <1>1, <1>3, <2>1, <3>2
    <3> QED
      BY <3>1, <3>2
  <2> QED
    BY <1>1, <2>1, <2>2, <2>3
<1>5. CASE MovesKeeps(c)
  <2>1. PICK s, x :
          /\ Moves(c, s, x) /\ s.sock \in {0, cl[c].sock}
          /\ s.pc # "prompt" \/ s.state # "IDLE" => s.sock # 0
          /\ s.pc \notin {"prompt", "conn"} => s.state # "IDLE"
    BY <1>5 DEF MovesKeeps
  <2>2. /\ conns' \in Seq(Conn) /\ Len(conns') = Len(conns)
        /\ cl' \in [Clients -> Client] /\ cl'[c] = s
        /\ \A d \in Clients \ {c} : cl'[d] = cl[d]
    BY <2>1, MovesIs
  <2>3. OwnSockets'
    BY <2>1, <2>2 DEF OwnSockets, Moves
  <2>4. ClientsOK'
    <3> SUFFICES ASSUME NEW d \in Clients
                 PROVE  /\ cl'[d].sock <= Len(conns')
                        /\ cl'[d].pc # "prompt" \/ cl'[d].state # "IDLE" => cl'[d].sock # 0
                        /\ cl'[d].pc \notin {"prompt", "conn"} => cl'[d].state # "IDLE"
      BY <1>2, <2>2 DEF ClientsOK
    <3>1. CASE d = c
      BY <1>1, <1>3, <2>1, <2>2, <3>1
    <3>2. CASE d # c
      BY <1>3, <2>2, <3>2
    <3> QED
      BY <3>1, <3>2
  <2> QED
    BY <1>1, <2>2, <2>3, <2>4
<1>6. CASE Rests(c)
  <2>1. /\ cl' \in [Clients -> Client] /\ cl'[c] \in {cl[c], init}
        /\ \A d \in Clients \ {c} : cl'[d] = cl[d]
    BY <1>1, <1>6, InitIs DEF Rests
  <2>2. OwnSockets'
    BY <2>1, InitIs DEF OwnSockets
  <2>3. ClientsOK'
    <3> SUFFICES ASSUME NEW d \in Clients
                 PROVE  /\ cl'[d].sock <= Len(conns)
                        /\ cl'[d].pc # "prompt" \/ cl'[d].state # "IDLE" => cl'[d].sock # 0
                        /\ cl'[d].pc \notin {"prompt", "conn"} => cl'[d].state # "IDLE"
      BY <1>2, <1>6, <2>1 DEF ClientsOK, Rests
    <3>1. CASE d = c
      BY <1>1, <1>3, <2>1, <3>1, InitIs
    <3>2. CASE d # c
      BY <1>3, <2>1, <3>2
    <3> QED
      BY <3>1, <3>2
  <2> QED
    BY <1>1, <1>6, <2>2, <2>3 DEF Rests
<1> QED
  BY <1>4, <1>5, <1>6, StepKeeps

(* Connections keep their type as more of them are made.                    *)
LEMMA ConnsType ==
  ASSUME Len(conns) \in Nat, conns' \in Seq(Conn), Len(conns) <= Len(conns')
  PROVE  (conns \in Seq(Conn))'
<1>1. Len(conns') \in Nat
  OBVIOUS
<1>2. Conn \subseteq Conn'
  BY <1>1, MorePieces
<1> QED
  BY <1>2

LEMMA ClientInvariant ==
  ASSUME IInv, NEW c \in Clients, ClientStep(c)
  PROVE  IInv'
<1>1. TypeInv /\ OwnSockets /\ FdsOK
  BY DEF IInv
<1>2. Step(c) /\ OthersOK' /\ UNCHANGED <<srv, server_file, server_dir>>
  BY <1>1, ClientStepIs
<1>3. /\ OwnSockets' /\ ClientsOK'
      /\ conns' \in Seq(Conn) /\ Len(conns') \in Nat /\ Len(conns) <= Len(conns')
  BY <1>1, <1>2, StepTypes
<1>4. (conns \in Seq(Conn))'
  BY <1>1, <1>3, ConnsType DEF TypeInv
<1>5. ServerOK'
  <2>1. srv.id \in Nat /\ Len(conns) \in Nat
    BY <1>1 DEF TypeInv, ServerOK, Server
  <2> QED
    BY <1>1, <1>2, <1>3, <2>1 DEF TypeInv, ServerOK
<1>6. TypeInv'
  <2>1. TempOK'
    BY <1>1, TempStep
  <2>2. (server_file \in ServerFile)' /\ (server_dir \in Seq(Kinds))'
    BY <1>1, <1>2 DEF TypeInv, ServerFile, Kinds
  <2> QED
    BY <1>2, <1>3, <1>4, <1>5, <2>1, <2>2 DEF TypeInv, OthersOK
<1>7. FdsOK'
  BY <1>1, <1>2 DEF FdsOK
<1>8. ASSUME srv'.pc # "dead" PROVE SessionOK'
  <2>1. SessionOK
    BY <1>2, <1>8 DEF IInv
  <2> QED
    BY <1>1, <1>2, <2>1, StepSession
<1> QED
  BY <1>3, <1>6, <1>7, <1>8 DEF IInv

------------------------------------------------------------------------------
(* Types of what the server does.                                           *)

ServerOf(P, S, N, F, B, C) ==
  [pc : P, state : S, id : N, fd : N, fds : F, holder : N, opened : N, lost : B,
   cause : C]
ServerPcs == {"accept", "recv", "get", "dead"}
LEMMA ServerIs ==
  \A s : s \in Server <=>
         s \in ServerOf(ServerPcs, SrvStates, Nat, SUBSET Nat, BOOLEAN, Causes)
BY DEF Server, ServerOf, ServerPcs

LEMMA LoopIs ==
  ASSUME NEW s \in Server
  PROVE  /\ Loop(s) \in Server
         /\ Loop(s).pc = IF s.state = "CONNECTED" THEN "recv" ELSE "accept"
         /\ Loop(s).state = s.state /\ Loop(s).id = s.id /\ Loop(s).fds = s.fds
         /\ Loop(s).holder = s.holder /\ Loop(s).opened = s.opened
         /\ Loop(s).lost = s.lost
<1> DEFINE P == ServerPcs
           S == SrvStates
           N == Nat
           F == SUBSET Nat
           B == BOOLEAN
           C == Causes
           p == IF s.state = "CONNECTED" THEN "recv" ELSE "accept"
           t == [s EXCEPT !.pc = p]
<1>1. s \in ServerOf(P, S, N, F, B, C) /\ p \in P
  BY ServerIs DEF ServerPcs
<1>2. \A r : r \in Server <=> r \in ServerOf(P, S, N, F, B, C)
  BY ServerIs
<1> HIDE DEF P, S, N, F, B, C, p
<1>3. /\ t \in ServerOf(P, S, N, F, B, C)
      /\ t.pc = p /\ t.state = s.state /\ t.id = s.id /\ t.fds = s.fds
      /\ t.holder = s.holder /\ t.opened = s.opened /\ t.lost = s.lost
  BY <1>1 DEF ServerOf
<1>4. t \in Server
  BY <1>2, <1>3
<1>5. t = Loop(s)
  BY DEF Loop, p
<1> QED
  BY <1>3, <1>4, <1>5 DEF p

(* What its steps store in the server's variables.                          *)
Turns(s, st) == [s EXCEPT !.state = st]
Holding(s, st, n) == [s EXCEPT !.state = st, !.holder = n]
Freeing(s, st, f) == [s EXCEPT !.state = st, !.fds = f]
Sends(s, st, p, n, f) == [s EXCEPT !.state = st, !.pc = p, !.opened = n, !.fds = f]
Takes(s, p, n, d, f) == [s EXCEPT !.pc = p, !.id = n, !.fd = d, !.fds = f]
Stops(s, p, l) == [s EXCEPT !.pc = p, !.lost = l]
Dying(s, p, w) == [s EXCEPT !.pc = p, !.cause = w]

LEMMA TurnsIs ==
  ASSUME NEW s \in Server, NEW st \in SrvStates
  PROVE  LET t == Turns(s, st)
         IN /\ t \in Server /\ t.state = st /\ t.fds = s.fds /\ t.pc = s.pc /\ t.id = s.id
            /\ t.holder = s.holder /\ t.opened = s.opened /\ t.lost = s.lost
<1> DEFINE P == ServerPcs
           S == SrvStates
           N == Nat
           F == SUBSET Nat
           B == BOOLEAN
           C == Causes
           K == ServerOf(P, S, N, F, B, C)
<1>1. s \in K /\ st \in S
  BY ServerIs
<1>2. \A r : r \in Server <=> r \in K
  BY ServerIs
<1> HIDE DEF P, S, N, F, B, C
<1>3. LET t == Turns(s, st)
      IN /\ t \in K /\ t.state = st /\ t.fds = s.fds /\ t.pc = s.pc /\ t.id = s.id
         /\ t.holder = s.holder /\ t.opened = s.opened /\ t.lost = s.lost
  BY <1>1 DEF ServerOf, Turns
<1> QED
  BY <1>2, <1>3

LEMMA HoldingIs ==
  ASSUME NEW s \in Server, NEW st \in SrvStates, NEW n \in Nat
  PROVE  LET t == Holding(s, st, n)
         IN /\ t \in Server /\ t.state = st /\ t.fds = s.fds /\ t.pc = s.pc /\ t.id = s.id
            /\ t.holder = n /\ t.opened = s.opened /\ t.lost = s.lost
<1> DEFINE P == ServerPcs
           S == SrvStates
           N == Nat
           F == SUBSET Nat
           B == BOOLEAN
           C == Causes
           K == ServerOf(P, S, N, F, B, C)
<1>1. s \in K /\ st \in S /\ n \in N
  BY ServerIs
<1>2. \A r : r \in Server <=> r \in K
  BY ServerIs
<1> HIDE DEF P, S, N, F, B, C
<1>3. LET t == Holding(s, st, n)
      IN /\ t \in K /\ t.state = st /\ t.fds = s.fds /\ t.pc = s.pc /\ t.id = s.id
         /\ t.holder = n /\ t.opened = s.opened /\ t.lost = s.lost
  BY <1>1 DEF ServerOf, Holding
<1> QED
  BY <1>2, <1>3

LEMMA FreeingIs ==
  ASSUME NEW s \in Server, NEW st \in SrvStates, NEW f \in SUBSET Nat
  PROVE  LET t == Freeing(s, st, f)
         IN /\ t \in Server /\ t.state = st /\ t.fds = f /\ t.pc = s.pc /\ t.id = s.id
            /\ t.holder = s.holder /\ t.opened = s.opened /\ t.lost = s.lost
<1> DEFINE P == ServerPcs
           S == SrvStates
           N == Nat
           F == SUBSET Nat
           B == BOOLEAN
           C == Causes
           K == ServerOf(P, S, N, F, B, C)
<1>1. s \in K /\ st \in S /\ f \in F
  BY ServerIs
<1>2. \A r : r \in Server <=> r \in K
  BY ServerIs
<1> HIDE DEF P, S, N, F, B, C
<1>3. LET t == Freeing(s, st, f)
      IN /\ t \in K /\ t.state = st /\ t.fds = f /\ t.pc = s.pc /\ t.id = s.id
         /\ t.holder = s.holder /\ t.opened = s.opened /\ t.lost = s.lost
  BY <1>1 DEF ServerOf, Freeing
<1> QED
  BY <1>2, <1>3

LEMMA SendsIs ==
  ASSUME NEW s \in Server, NEW st \in SrvStates, NEW p \in ServerPcs, NEW n \in Nat, NEW f \in SUBSET Nat
  PROVE  LET t == Sends(s, st, p, n, f)
         IN /\ t \in Server /\ t.state = st /\ t.fds = f /\ t.pc = p /\ t.id = s.id
            /\ t.holder = s.holder /\ t.opened = n /\ t.lost = s.lost
<1> DEFINE P == ServerPcs
           S == SrvStates
           N == Nat
           F == SUBSET Nat
           B == BOOLEAN
           C == Causes
           K == ServerOf(P, S, N, F, B, C)
<1>1. s \in K /\ st \in S /\ p \in P /\ n \in N /\ f \in F
  BY ServerIs
<1>2. \A r : r \in Server <=> r \in K
  BY ServerIs
<1> HIDE DEF P, S, N, F, B, C
<1>3. LET t == Sends(s, st, p, n, f)
      IN /\ t \in K /\ t.state = st /\ t.fds = f /\ t.pc = p /\ t.id = s.id
         /\ t.holder = s.holder /\ t.opened = n /\ t.lost = s.lost
  BY <1>1 DEF ServerOf, Sends
<1> QED
  BY <1>2, <1>3

LEMMA TakesIs ==
  ASSUME NEW s \in Server, NEW p \in ServerPcs, NEW n \in Nat, NEW d \in Nat, NEW f \in SUBSET Nat
  PROVE  LET t == Takes(s, p, n, d, f)
         IN /\ t \in Server /\ t.state = s.state /\ t.fds = f /\ t.pc = p /\ t.id = n
            /\ t.holder = s.holder /\ t.opened = s.opened /\ t.lost = s.lost
<1> DEFINE P == ServerPcs
           S == SrvStates
           N == Nat
           F == SUBSET Nat
           B == BOOLEAN
           C == Causes
           K == ServerOf(P, S, N, F, B, C)
<1>1. s \in K /\ p \in P /\ n \in N /\ d \in N /\ f \in F
  BY ServerIs
<1>2. \A r : r \in Server <=> r \in K
  BY ServerIs
<1> HIDE DEF P, S, N, F, B, C
<1>3. LET t == Takes(s, p, n, d, f)
      IN /\ t \in K /\ t.state = s.state /\ t.fds = f /\ t.pc = p /\ t.id = n
         /\ t.holder = s.holder /\ t.opened = s.opened /\ t.lost = s.lost
  BY <1>1 DEF ServerOf, Takes
<1> QED
  BY <1>2, <1>3

LEMMA StopsIs ==
  ASSUME NEW s \in Server, NEW p \in ServerPcs, NEW l \in BOOLEAN
  PROVE  LET t == Stops(s, p, l)
         IN /\ t \in Server /\ t.state = s.state /\ t.fds = s.fds /\ t.pc = p /\ t.id = s.id
            /\ t.holder = s.holder /\ t.opened = s.opened /\ t.lost = l
<1> DEFINE P == ServerPcs
           S == SrvStates
           N == Nat
           F == SUBSET Nat
           B == BOOLEAN
           C == Causes
           K == ServerOf(P, S, N, F, B, C)
<1>1. s \in K /\ p \in P /\ l \in B
  BY ServerIs
<1>2. \A r : r \in Server <=> r \in K
  BY ServerIs
<1> HIDE DEF P, S, N, F, B, C
<1>3. LET t == Stops(s, p, l)
      IN /\ t \in K /\ t.state = s.state /\ t.fds = s.fds /\ t.pc = p /\ t.id = s.id
         /\ t.holder = s.holder /\ t.opened = s.opened /\ t.lost = l
  BY <1>1 DEF ServerOf, Stops
<1> QED
  BY <1>2, <1>3

LEMMA DyingIs ==
  ASSUME NEW s \in Server, NEW p \in ServerPcs, NEW w \in Causes
  PROVE  LET t == Dying(s, p, w)
         IN /\ t \in Server /\ t.state = s.state /\ t.fds = s.fds /\ t.pc = p /\ t.id = s.id
            /\ t.holder = s.holder /\ t.opened = s.opened /\ t.lost = s.lost /\ t.cause = w
<1> DEFINE P == ServerPcs
           S == SrvStates
           N == Nat
           F == SUBSET Nat
           B == BOOLEAN
           C == Causes
           K == ServerOf(P, S, N, F, B, C)
<1>1. s \in K /\ p \in P /\ w \in C
  BY ServerIs
<1>2. \A r : r \in Server <=> r \in K
  BY ServerIs
<1> HIDE DEF P, S, N, F, B, C
<1>3. LET t == Dying(s, p, w)
      IN /\ t \in K /\ t.state = s.state /\ t.fds = s.fds /\ t.pc = p /\ t.id = s.id
         /\ t.holder = s.holder /\ t.opened = s.opened /\ t.lost = s.lost /\ t.cause = w
  BY <1>1 DEF ServerOf, Dying
<1> QED
  BY <1>2, <1>3

------------------------------------------------------------------------------
(* The steps of the server.                                                 *)

(* What a step does to the connection served, x after it, and to the        *)
(* server's own variables, s after it.                                      *)
Serves(s, x) ==
  /\ srv' = s /\ s \in Server
  /\ x \in Conn /\ conns' = [conns EXCEPT ![srv.id] = x]
  /\ s.id = srv.id /\ s.lost = srv.lost

(* accept; hello from an IDLE server; bye.                                  *)
Accepts ==
  /\ srv.pc = "accept" /\ srv.id < Len(conns) /\ UNCHANGED conns
  /\ \E s \in Server :
       /\ srv' = s /\ s.pc = "recv" /\ s.id = srv.id + 1
       /\ s.fds = srv.fds \cup {LowestFree(srv.fds)}
       /\ s.state = srv.state /\ s.holder = srv.holder
       /\ s.opened = srv.opened /\ s.lost = srv.lost

(* A connection accepted by an IDLE server, whose hello is to come.         *)
AtHello ==
  /\ srv.pc = "recv" /\ ~srv.lost /\ srv.state = "IDLE" /\ srv.id = srv.holder + 1
  /\ Served.req = <<"hello">> /\ Unanswered(srv.id)
Greets ==
  /\ AtHello
  /\ \E s, x :
       /\ Serves(s, x) /\ s.holder = srv.id
       /\ s.pc = "recv" /\ s.state = "CONNECTED"
       /\ s.fds = srv.fds /\ s.opened = srv.opened
       /\ x.send = "open" /\ x.req = <<>>
       /\ Served.cend = "open" => x.cend = "open" /\ x.rep # <<>>

(* A session that is served: bye; and all other messages.                   *)
InHand ==
  /\ ~srv.lost /\ srv.id = srv.holder
  /\ \/ srv.pc = "recv" /\ srv.state = "CONNECTED"
     \/ srv.pc = "get" /\ srv.state = "DOWNLOADING"
Frees ==
  /\ InHand /\ srv.pc = "recv" /\ Served.req # <<>> /\ Served.req[1] = "bye"
  /\ \E s, x :
       /\ Serves(s, x) /\ s.holder = srv.holder
       /\ s.pc = "accept" /\ s.state = "IDLE"
       /\ s.fds = srv.fds \ {0} /\ s.opened = srv.opened
       /\ Served.cend = "open" => x.cend = "open" /\ x.rep # <<>>
Answers ==
  /\ InHand
  /\ \E s, x :
       /\ Serves(s, x) /\ s.holder = srv.holder
       /\ \/ s.pc = "recv" /\ s.state = "CONNECTED"
          \/ s.pc = "get" /\ s.state = "DOWNLOADING" /\ srv.state = "CONNECTED"
       /\ \/ s.fds = srv.fds /\ s.opened = srv.opened
          \/ s.fds = srv.fds \cup {LowestFree(srv.fds)} /\ s.opened = srv.opened + 1
       /\ x.send = Served.send
       /\ x.cend = Served.cend \/ x.cend = "rst"
       /\ Served.cend = "open" => x.cend = "open" /\ (Served.rep # <<>> => x.rep # <<>>)
       /\ Served.req = <<>> => x.req = <<>>
       /\ NoBye(Served.req) => NoBye(x.req)
Loses ==
  /\ InHand /\ Served.cend = "rst" /\ UNCHANGED conns
  /\ \E s \in Server :
       /\ srv' = s /\ s.pc = "accept" /\ s.lost = TRUE /\ s.id = srv.id
       /\ s.fds = srv.fds /\ s.state = srv.state /\ s.holder = srv.holder
       /\ s.opened = srv.opened

(* The hello of a connection accepted after a session was lost.             *)
InVain ==
  /\ srv.pc = "recv" /\ srv.lost /\ srv.state # "IDLE" /\ srv.holder < srv.id
  /\ Unanswered(srv.id)
Ignores ==
  /\ InVain
  /\ \E s, x :
       /\ Serves(s, x) /\ s.holder = srv.holder
       /\ s.pc \in {"recv", "accept"} /\ s.state = srv.state
       /\ s.fds = srv.fds /\ s.opened = srv.opened
       /\ x.req = <<>> /\ x.rep = Served.rep
       /\ x.cend = Served.cend /\ x.send = Served.send

(* The end of the program.                                                  *)
Dies ==
  /\ srv.pc # "dead"
  /\ conns' \in Seq(Conn) /\ Len(conns') = Len(conns)
  /\ \E s \in Server :
       /\ srv' = s /\ s.pc = "dead" /\ s.lost = srv.lost /\ s.id = srv.id
       /\ s.fds = srv.fds /\ s.state = srv.state /\ s.holder = srv.holder
       /\ s.opened = srv.opened

ServedStep == Accepts \/ Greets \/ Frees \/ Answers \/ Loses \/ Ignores \/ Dies

LEMMA SrvIs ==
  ASSUME TypeInv
  PROVE  /\ srv \in Server /\ srv.id \in Nat /\ srv.holder \in Nat /\ srv.opened \in Nat
         /\ srv.fds \in SUBSET Nat /\ srv.lost \in BOOLEAN /\ srv.state \in SrvStates
         /\ Len(conns) \in Nat /\ DOMAIN conns = 1 .. Len(conns)
         /\ srv.id <= Len(conns)
         /\ srv.pc \in {"recv", "get"} => srv.id \in DOMAIN conns /\ Served \in Conn
<1>1. /\ srv \in Server /\ srv.id <= Len(conns) /\ conns \in Seq(Conn)
      /\ srv.pc \in {"recv", "get"} => srv.id # 0
  BY DEF TypeInv, ServerOK
<1>2. /\ srv.id \in Nat /\ srv.holder \in Nat /\ srv.opened \in Nat
      /\ srv.fds \in SUBSET Nat /\ srv.lost \in BOOLEAN /\ srv.state \in SrvStates
  BY <1>1 DEF Server
<1>3. Len(conns) \in Nat /\ DOMAIN conns = 1 .. Len(conns)
  BY <1>1
<1>4. srv.pc \in {"recv", "get"} => srv.id \in DOMAIN conns
  BY <1>1, <1>2, <1>3
<1> QED
  BY <1>1, <1>2, <1>3, <1>4 DEF Served

LEMMA Situation ==
  ASSUME IInv, srv.pc \in {"recv", "get"}
  PROVE  AtHello \/ InHand \/ InVain
<1>1. TypeInv /\ HolderOK /\ WaitingOK
  BY DEF IInv, SessionOK
<1>2. /\ srv.id \in Nat /\ srv.holder \in Nat /\ srv.lost \in BOOLEAN
      /\ srv.id \in DOMAIN conns
  BY <1>1, SrvIs
<1>3. srv.id > srv.holder => Unanswered(srv.id)
  BY <1>1, <1>2 DEF WaitingOK
<1> QED
  BY <1>1, <1>2, <1>3 DEF HolderOK, AtHello, InHand, InVain

(* The message received, and the connection without it.                     *)
Got(k) == [Served EXCEPT !.req = Rest(Served.req, k)]
LEMMA GotIs ==
  ASSUME TypeInv, srv.pc \in {"recv", "get"}, NEW k \in 1 .. Len(Served.req)
  PROVE  LET m == Message(SubSeq(Served.req, 1, k)) IN
         /\ Got(k) \in Conn /\ Got(k).rep = Served.rep
         /\ Got(k).cend = Served.cend /\ Got(k).send = Served.send
         /\ Served.req # <<>>
         /\ m \in {"bad", "get_other", Served.req[1]}
         /\ m = "bye" => Served.req[1] = "bye"
         /\ Len(Served.req) = 1 => m = Served.req[1] /\ Got(k).req = <<>>
         /\ NoBye(Served.req) => NoBye(Got(k).req)
<1>1. Served \in Conn
  BY SrvIs
<1>2. Served.req \in Seq(Requests)
  BY <1>1 DEF Conn, ConnOf
<1>3. /\ Rest(Served.req, k) \in Seq(Requests)
      /\ Len(Rest(Served.req, k)) = Len(Served.req) - k
      /\ \A i \in 1 .. Len(Rest(Served.req, k)) : Rest(Served.req, k)[i] = Served.req[k + i]
  BY <1>2, RestIs
<1>4. /\ Got(k) \in Conn /\ Got(k).rep = Served.rep /\ Got(k).req = Rest(Served.req, k)
      /\ Got(k).cend = Served.cend /\ Got(k).send = Served.send
  BY <1>1, <1>3 DEF Got, Conn, ConnOf
<1>5. LET m == Message(SubSeq(Served.req, 1, k)) IN
         /\ m \in {"bad", "get_other", Served.req[1]}
         /\ m = "bye" => Served.req[1] = "bye"
         /\ Len(Served.req) = 1 => m = Served.req[1] /\ Rest(Served.req, k) = <<>>
  BY <1>2, MessageIs
<1>6. Served.req # <<>>
  BY <1>2
<1>7. NoBye(Served.req) => NoBye(Rest(Served.req, k))
  <2> SUFFICES ASSUME NoBye(Served.req), NEW i \in 1 .. Len(Rest(Served.req, k))
               PROVE  Rest(Served.req, k)[i] # "bye"
    BY DEF NoBye
  <2>1. k + i \in 1 .. Len(Served.req)
    BY <1>2, <1>3
  <2> QED
    BY <1>3, <2>1 DEF NoBye
<1> QED
  BY <1>4, <1>5, <1>6, <1>7

(* The lowest free descriptor, and a table it was added to.                 *)
LEMMA LowestIs ==
  ASSUME NEW F, NEW n \in Nat, F \subseteq 0 .. n, 1 \in F
  PROVE  LET f == LowestFree(F) IN
         /\ f \in Nat /\ f \notin F /\ (0 \notin F => f = 0)
         /\ \E m \in Nat : F \cup {f} \subseteq 0 .. m
         /\ IsFiniteSet(F) /\ Cardinality(F) \in Nat
         /\ Cardinality(F \cup {f}) = Cardinality(F) + 1
<1> DEFINE G == (0 .. Max(F) + 1) \ F
<1>0. F \subseteq Nat /\ \A y \in F : y <= n
  OBVIOUS
<1>1. /\ Max(F) \in F /\ \A y \in F : Max(F) >= y
      /\ Max(F) \in Nat /\ Max(F) <= n
  BY <1>0, MaxIsLargest
<1>2. Max(F) + 1 \in G /\ G \subseteq Nat
  BY <1>0, <1>1
<1>3. Min(G) \in G /\ \A y \in G : Min(G) <= y
  <2> HIDE DEF G
  <2> QED
    BY <1>2, MinIsSmallest
<1>4. LowestFree(F) = Min(G)
  BY DEF LowestFree
<1>5. LowestFree(F) \in Nat /\ LowestFree(F) \notin F /\ LowestFree(F) <= Max(F) + 1
  BY <1>2, <1>3, <1>4
<1>6. 0 \notin F => LowestFree(F) = 0
  BY <1>2, <1>3, <1>4, <1>5
<1>7. F \cup {LowestFree(F)} \subseteq 0 .. n + 1
  <2>1. LowestFree(F) \in 0 .. n + 1
    BY <1>1, <1>5
  <2>2. F \subseteq 0 .. n + 1
    OBVIOUS
  <2> QED
    BY <2>1, <2>2
<1>8. IsFiniteSet(F) /\ Cardinality(F) \in Nat
  <2>1. IsFiniteSet(0 .. n)
    BY FS_Interval
  <2> QED
    BY <2>1, FS_Subset, FS_CardinalityType
<1>9. Cardinality(F \cup {LowestFree(F)}) = Cardinality(F) + 1
  BY <1>5, <1>8, FS_AddElement
<1> QED
  BY <1>5, <1>6, <1>7, <1>8, <1>9

LEMMA AcceptStep ==
  ASSUME IInv, accept
  PROVE  Accepts
<1> DEFINE f == LowestFree(srv.fds)
           F == srv.fds \cup {f}
<1>1. TypeInv /\ FdsOK
  BY DEF IInv
<1>2. srv \in Server /\ srv.id \in Nat /\ srv.fds \in SUBSET Nat
  BY <1>1, SrvIs
<1>3. f \in Nat
  BY <1>1, LowestIs DEF FdsOK
<1>4. /\ srv.pc = "accept" /\ srv.id < Len(conns) /\ UNCHANGED conns
      /\ srv' = Takes(srv, "recv", srv.id + 1, f, F)
  BY DEF accept, Takes
<1>5. F \in SUBSET Nat /\ srv.id + 1 \in Nat /\ "recv" \in ServerPcs
  BY <1>2, <1>3 DEF ServerPcs
<1> HIDE DEF f
<1>6. LET t == Takes(srv, "recv", srv.id + 1, f, F)
      IN /\ t \in Server /\ t.state = srv.state /\ t.fds = F /\ t.pc = "recv"
         /\ t.id = srv.id + 1 /\ t.holder = srv.holder
         /\ t.opened = srv.opened /\ t.lost = srv.lost
  <2> HIDE DEF F
  <2>1. PICK s \in Server : s = srv
    BY <1>2
  <2>2. PICK p \in ServerPcs : p = "recv"
    BY <1>5
  <2>3. PICK n \in Nat : n = srv.id + 1
    BY <1>5
  <2>4. PICK d \in Nat, G \in SUBSET Nat : d = f /\ G = F
    BY <1>3, <1>5
  <2>5. LET t == Takes(s, p, n, d, G)
        IN /\ t \in Server /\ t.state = s.state /\ t.fds = G /\ t.pc = p
           /\ t.id = n /\ t.holder = s.holder
           /\ t.opened = s.opened /\ t.lost = s.lost
    BY TakesIs
  <2> QED
    BY <2>1, <2>2, <2>3, <2>4, <2>5
<1> QED
  BY <1>4, <1>6 DEF Accepts, f

LEMMA SaysIs ==
  ASSUME NEW cn \in Conn, NEW ms \in Seq(Pieces), ms # <<>>
  PROVE  LET x == Answer(cn, ms) IN
         /\ x \in Conn /\ x.req = cn.req /\ x.send = cn.send
         /\ x.cend = cn.cend \/ x.cend = "rst"
         /\ cn.cend = "open" => x.cend = "open" /\ x.rep # <<>>
<1>1. /\ Answer(cn, ms) \in ConnOf(Pieces)
      /\ Answer(cn, ms).req = cn.req /\ Answer(cn, ms).send = cn.send
      /\ IF cn.cend = "open"
         THEN Answer(cn, ms).rep = cn.rep \o ms /\ Answer(cn, ms).cend = "open"
         ELSE Answer(cn, ms).rep = cn.rep /\ Answer(cn, ms).cend = "rst"
  BY AnswerIs DEF Conn
<1>2. cn.rep \o ms # <<>>
  <2>1. cn.rep \in Seq(Pieces) /\ Len(cn.rep) \in Nat /\ Len(ms) \in Nat /\ Len(ms) # 0
    BY EmptySeq DEF Conn, ConnOf
  <2>2. Len(cn.rep \o ms) = Len(cn.rep) + Len(ms)
    BY <2>1, ConcatProperties
  <2> QED
    BY <2>1, <2>2
<1> QED
  BY <1>1, <1>2 DEF Conn

(* A message that leaves the server's state as it is.                       *)
LEMMA LoopSame ==
  ASSUME TypeInv
  PROVE  /\ Loop(srv) \in Server
         /\ Loop(srv).pc = IF srv.state = "CONNECTED" THEN "recv" ELSE "accept"
         /\ Loop(srv).state = srv.state /\ Loop(srv).id = srv.id /\ Loop(srv).fds = srv.fds
         /\ Loop(srv).holder = srv.holder /\ Loop(srv).opened = srv.opened
         /\ Loop(srv).lost = srv.lost
BY SrvIs, LoopIs

(* hello.                                                                   *)
LEMMA HelloStep ==
  ASSUME IInv, srv.pc = "recv", NEW k \in 1 .. Len(Served.req),
         server_hello(Message(SubSeq(Served.req, 1, k)), Got(k))
  PROVE  ServedStep
<1>1. TypeInv /\ srv.pc \in {"recv", "get"}
  BY DEF IInv
<1>2. /\ srv \in Server /\ srv.id \in Nat /\ srv.id \in DOMAIN conns
      /\ DOMAIN conns = 1 .. Len(conns) /\ Served \in Conn
  BY <1>1, SrvIs
<1> DEFINE m == Message(SubSeq(Served.req, 1, k))
           cn == Got(k)
<1>3. /\ cn \in Conn /\ cn.rep = Served.rep
      /\ cn.cend = Served.cend /\ cn.send = Served.send
      /\ Served.req # <<>>
      /\ Len(Served.req) = 1 => cn.req = <<>>
      /\ NoBye(Served.req) => NoBye(cn.req)
  BY <1>1, GotIs
<1>4. IF srv.state = "IDLE"
      THEN Becomes(Answer(cn, <<Hello(srv.id)>>),
                   [srv EXCEPT !.state = "CONNECTED", !.holder = srv.id])
      ELSE Becomes(cn, srv)
  BY DEF server_hello
<1> HIDE DEF cn, m
<1>5. CASE AtHello
  <2> DEFINE x == Answer(cn, <<Hello(srv.id)>>)
             h == Holding(srv, "CONNECTED", srv.id)
             s == Loop(h)
  <2>1. Becomes(x, h) /\ srv.state = "IDLE"
    BY <1>4, <1>5 DEF AtHello, Holding
  <2>2. <<Hello(srv.id)>> \in Seq(Pieces) /\ <<Hello(srv.id)>> # <<>>
    BY <1>2, PieceKinds
  <2>3. /\ x \in Conn /\ x.req = cn.req /\ x.send = cn.send
        /\ cn.cend = "open" => x.cend = "open" /\ x.rep # <<>>
    BY <1>3, <2>2, SaysIs
  <2>4. "CONNECTED" \in SrvStates
    BY DEF SrvStates
  <2>5. PICK v \in Server, n \in Nat, st \in SrvStates : v = srv /\ n = srv.id /\ st = "CONNECTED"
    BY <1>2, <2>4
  <2>6. /\ h \in Server /\ h.state = "CONNECTED" /\ h.holder = srv.id /\ h.pc = srv.pc
        /\ h.id = srv.id /\ h.fds = srv.fds /\ h.opened = srv.opened /\ h.lost = srv.lost
    <3>1. LET t == Holding(v, st, n)
          IN /\ t \in Server /\ t.state = st /\ t.holder = n /\ t.pc = v.pc
             /\ t.id = v.id /\ t.fds = v.fds /\ t.opened = v.opened /\ t.lost = v.lost
      BY HoldingIs
    <3> QED
      BY <2>5, <3>1
  <2> HIDE DEF h, x
  <2>7. /\ s \in Server /\ s.pc = "recv" /\ s.state = "CONNECTED" /\ s.id = srv.id
        /\ s.fds = srv.fds /\ s.holder = srv.id /\ s.opened = srv.opened /\ s.lost = srv.lost
    BY <2>6, LoopIs
  <2>8. conns' = [conns EXCEPT ![srv.id] = x] /\ srv' = s
    BY <2>1 DEF Becomes
  <2> HIDE DEF s
  <2>9. Serves(s, x)
    BY <2>3, <2>7, <2>8 DEF Serves
  <2>10. Len(Served.req) = 1 /\ Served.send = "open"
    BY <1>5 DEF AtHello, Unanswered, Served
  <2> QED
    BY <1>3, <1>5, <2>3, <2>7, <2>9, <2>10 DEF ServedStep, Greets
<1>6. CASE InHand \/ InVain
  <2> DEFINE s == Loop(srv)
  <2>1. conns' = [conns EXCEPT ![srv.id] = cn] /\ srv' = s
    BY <1>4, <1>6 DEF InHand, InVain, Becomes
  <2>2. /\ s \in Server /\ s.pc = IF srv.state = "CONNECTED" THEN "recv" ELSE "accept"
        /\ s.state = srv.state /\ s.id = srv.id /\ s.fds = srv.fds
        /\ s.holder = srv.holder /\ s.opened = srv.opened /\ s.lost = srv.lost
    BY <1>1, LoopSame
  <2> HIDE DEF s
  <2>3. Serves(s, cn)
    BY <1>3, <2>1, <2>2 DEF Serves
  <2>4. CASE InHand
    BY <1>3, <2>2, <2>3, <2>4 DEF ServedStep, Answers, InHand
  <2>5. CASE InVain
    <3>1. Unanswered(srv.id) /\ Served.req # <<>>
      BY <1>3, <2>5 DEF InVain
    <3>2. Served.req = <<"hello">>
      BY <3>1 DEF Unanswered, Served
    <3>3. Len(Served.req) = 1
      BY <3>2
    <3> QED
      BY <1>3, <2>2, <2>3, <2>5, <3>3 DEF ServedStep, Ignores
  <2> QED
    BY <1>6, <2>4, <2>5
<1> QED
  BY <1>1, <1>5, <1>6, Situation

(* Of what is done to a connection in one step, what a session depends on.  *)
Replied(x) ==
  /\ x \in Conn /\ x.send = Served.send
  /\ x.cend = Served.cend \/ x.cend = "rst"
  /\ Served.cend = "open" => x.cend = "open" /\ (Served.rep # <<>> => x.rep # <<>>)
  /\ Served.req = <<>> => x.req = <<>>
  /\ NoBye(Served.req) => NoBye(x.req)

LEMMA RepliedIs ==
  ASSUME TypeInv, srv.pc \in {"recv", "get"}, NEW k \in 1 .. Len(Served.req),
         NEW ms \in Seq(Pieces), ms # <<>>
  PROVE  Replied(Got(k)) /\ Replied(Answer(Got(k), ms))
<1> DEFINE cn == Got(k)
           x == Answer(cn, ms)
<1>1. /\ cn \in Conn /\ cn.rep = Served.rep
      /\ cn.cend = Served.cend /\ cn.send = Served.send
      /\ Served.req # <<>>
      /\ NoBye(Served.req) => NoBye(cn.req)
  BY GotIs
<1> HIDE DEF cn
<1>2. /\ x \in Conn /\ x.req = cn.req /\ x.send = cn.send
      /\ x.cend = cn.cend \/ x.cend = "rst"
      /\ cn.cend = "open" => x.cend = "open" /\ x.rep # <<>>
  BY <1>1, SaysIs
<1> HIDE DEF x
<1>3. Replied(cn)
  BY <1>1 DEF Replied
<1>4. Replied(x)
  BY <1>1, <1>2 DEF Replied
<1> QED
  BY <1>3, <1>4 DEF cn, x

(* Answering a message and going on in the session.                         *)
LEMMA AnswersIs ==
  ASSUME IInv, InHand, NEW x, Replied(x), NEW s \in Server,
         conns' = [conns EXCEPT ![srv.id] = x], srv' = s,
         s.id = srv.id, s.lost = srv.lost, s.holder = srv.holder,
         \/ s.pc = "recv" /\ s.state = "CONNECTED"
         \/ s.pc = "get" /\ s.state = "DOWNLOADING" /\ srv.state = "CONNECTED",
         \/ s.fds = srv.fds /\ s.opened = srv.opened
         \/ s.fds = srv.fds \cup {LowestFree(srv.fds)} /\ s.opened = srv.opened + 1
  PROVE  ServedStep
<1>1. Serves(s, x)
  BY DEF Serves, Replied
<1> QED
  BY <1>1 DEF ServedStep, Answers, Replied

(* A state other than IDLE is that of a session.                            *)
LEMMA ConnectedIs ==
  ASSUME IInv, srv.pc = "recv", srv.state = "CONNECTED",
         Served.req # <<>>, Served.req[1] # "hello"
  PROVE  InHand
<1>1. AtHello \/ InHand \/ InVain
  BY Situation
<1>2. ~ AtHello
  BY DEF AtHello
<1>3. InVain => Served.req = <<"hello">>
  BY DEF InVain, Unanswered, Served
<1> QED
  BY <1>1, <1>2, <1>3

LEMMA ByeStep ==
  ASSUME IInv, srv.pc = "recv", NEW k \in 1 .. Len(Served.req),
         server_bye(Message(SubSeq(Served.req, 1, k)), Got(k))
  PROVE  ServedStep
<1>1. TypeInv /\ srv.pc \in {"recv", "get"}
  BY DEF IInv
<1>2. srv \in Server /\ Served \in Conn
  BY <1>1, SrvIs
<1> DEFINE cn == Got(k)
           w == Answer(cn, <<Bye>>)
           x == IF srv.fd = 0 THEN CloseServer(w) ELSE w
           F == srv.fds \ {0}
           h == Freeing(srv, "IDLE", F)
           s == Loop(h)
<1>3. /\ Served.req # <<>> /\ Served.req[1] = "bye"
      /\ cn \in Conn /\ cn.cend = Served.cend
  BY <1>1, GotIs DEF server_bye
<1>4. srv.state = "CONNECTED" /\ Becomes(x, h)
  BY DEF server_bye, Freeing
<1>5. InHand
  BY <1>3, <1>4, ConnectedIs
<1> HIDE DEF cn
<1>6. /\ w \in Conn
      /\ cn.cend = "open" => w.cend = "open" /\ w.rep # <<>>
  <2>1. <<Bye>> \in Seq(Pieces) /\ <<Bye>> # <<>>
    BY PieceKinds
  <2> QED
    BY <1>3, <2>1, SaysIs
<1>7. /\ x \in Conn
      /\ Served.cend = "open" => x.cend = "open" /\ x.rep # <<>>
  <2> HIDE DEF w
  <2> QED
    BY <1>3, <1>6, CloseServerIs DEF Conn
<1>8. /\ h \in Server /\ h.state = "IDLE" /\ h.fds = F
      /\ h.id = srv.id /\ h.holder = srv.holder /\ h.opened = srv.opened /\ h.lost = srv.lost
  <2>1. F \in SUBSET Nat /\ "IDLE" \in SrvStates
    BY <1>1, SrvIs DEF SrvStates
  <2> HIDE DEF F
  <2>2. PICK v \in Server, st \in SrvStates : v = srv /\ st = "IDLE"
    BY <1>2, <2>1
  <2>3. LET t == Freeing(v, st, F)
        IN /\ t \in Server /\ t.state = st /\ t.fds = F
           /\ t.id = v.id /\ t.holder = v.holder /\ t.opened = v.opened /\ t.lost = v.lost
    BY <2>1, FreeingIs
  <2> QED
    BY <2>2, <2>3
<1> HIDE DEF x, h
<1>9. /\ s \in Server /\ s.pc = "accept" /\ s.state = "IDLE" /\ s.id = srv.id
      /\ s.fds = F /\ s.holder = srv.holder /\ s.opened = srv.opened /\ s.lost = srv.lost
  BY <1>8, LoopIs
<1>10. conns' = [conns EXCEPT ![srv.id] = x] /\ srv' = s
  BY <1>4 DEF Becomes
<1> HIDE DEF s
<1>11. Serves(s, x)
  BY <1>7, <1>9, <1>10 DEF Serves
<1> QED
  BY <1>3, <1>5, <1>7, <1>9, <1>11 DEF ServedStep, Frees

LEMMA ListIs == \A dir : list_dir(dir) \in Seq(Pieces) \/ ~ IsFiniteSet({i \in DOMAIN dir : dir[i] = "regular"})
<1> SUFFICES ASSUME NEW dir, IsFiniteSet({i \in DOMAIN dir : dir[i] = "regular"})
             PROVE  list_dir(dir) \in Seq(Pieces)
  OBVIOUS
<1> DEFINE n == Cardinality({i \in DOMAIN dir : dir[i] = "regular"})
<1>1. n \in Nat
  BY FS_CardinalityType
<1>2. list_dir(dir) = [i \in 1 .. n |-> Entry]
  BY DEF list_dir
<1> HIDE DEF n
<1>3. [i \in 1 .. n |-> Entry] \in Seq(Pieces)
  BY <1>1, PieceKinds
<1> QED
  BY <1>2, <1>3

LEMMA LsStep ==
  ASSUME IInv, srv.pc = "recv", NEW k \in 1 .. Len(Served.req),
         server_ls(Message(SubSeq(Served.req, 1, k)), Got(k))
  PROVE  ServedStep
<1>1. TypeInv /\ srv.pc \in {"recv", "get"}
  BY DEF IInv
<1>2. /\ Served.req # <<>> /\ Served.req[1] = "ls"
  BY <1>1, GotIs DEF server_ls
<1> DEFINE ms == <<Ok(2)>> \o list_dir(server_dir)
           x == Answer(Got(k), ms)
<1>3. srv.state = "CONNECTED" /\ Becomes(x, srv)
  BY DEF server_ls
<1>4. InHand
  BY <1>2, <1>3, ConnectedIs
<1>5. list_dir(server_dir) \in Seq(Pieces)
  <2>1. server_dir \in Seq(Kinds)
    BY <1>1 DEF TypeInv
  <2>2. DOMAIN server_dir = 1 .. Len(server_dir) /\ Len(server_dir) \in Nat
    BY <2>1
  <2>3. IsFiniteSet(DOMAIN server_dir)
    BY <2>2, FS_Interval
  <2>4. IsFiniteSet({i \in DOMAIN server_dir : server_dir[i] = "regular"})
    BY <2>3, FS_Subset
  <2> QED
    BY <2>4, ListIs
<1>6. ms \in Seq(Pieces) /\ ms # <<>>
  <2> DEFINE l == list_dir(server_dir)
             o == <<Ok(2)>>
  <2>1. l \in Seq(Pieces) /\ o \in Seq(Pieces) /\ Len(o) = 1
    BY <1>5, PieceKinds
  <2> HIDE DEF l, o
  <2>2. /\ o \o l \in Seq(Pieces)
        /\ Len(o \o l) = Len(o) + Len(l) /\ Len(l) \in Nat
    <3>1. o \o l \in Seq(Pieces)
      BY <2>1, ConcatProperties
    <3>2. Len(o \o l) = Len(o) + Len(l)
      BY <2>1, ConcatProperties
    <3> QED
      BY <2>1, <3>1, <3>2
  <2>3. o \o l # <<>>
    BY <2>1, <2>2
  <2> QED
    BY <2>2, <2>3 DEF o, l
<1>7. Replied(x)
  <2> HIDE DEF ms
  <2> QED
    BY <1>1, <1>6, RepliedIs
<1> HIDE DEF x
<1> DEFINE s == Loop(srv)
<1>8. /\ s \in Server /\ s.pc = "recv" /\ s.state = "CONNECTED"
      /\ s.id = srv.id /\ s.fds = srv.fds
      /\ s.holder = srv.holder /\ s.opened = srv.opened /\ s.lost = srv.lost
  BY <1>1, <1>3, LoopSame
<1>9. conns' = [conns EXCEPT ![srv.id] = x] /\ srv' = s
  BY <1>3 DEF Becomes
<1> HIDE DEF s
<1> QED
  BY <1>4, <1>7, <1>8, <1>9, AnswersIs

(* The size that get announces, and the content.                            *)
LEMMA ContentIs ==
  ASSUME NEW z \in -1 .. MaxSize, NEW b \in BOOLEAN
  PROVE  LET ms == <<Header(z)>> \o IF z >= 0 /\ b THEN Content(z) ELSE <<>>
         IN ms \in Seq(Pieces) /\ ms # <<>>
<1> DEFINE l == IF z >= 0 /\ b THEN Content(z) ELSE <<>>
           o == <<Header(z)>>
<1>1. o \in Seq(Pieces) /\ Len(o) = 1
  BY PieceKinds
<1>2. l \in Seq(Pieces)
  <2>1. CASE z >= 0
    <3>1. [i \in 1 .. z |-> Unit(i)] \in Seq(Pieces)
      <4>1. \A i \in 1 .. z : Unit(i) \in Pieces
        BY Bounds, PieceKinds
      <4> QED
        BY <2>1, <4>1
    <3> QED
      BY <3>1, EmptySeq DEF Content
  <2>2. CASE ~ (z >= 0)
    BY <2>2, EmptySeq
  <2> QED
    BY <2>1, <2>2
<1> HIDE DEF l, o
<1>3. o \o l \in Seq(Pieces)
  BY <1>1, <1>2, ConcatProperties
<1>4. Len(o \o l) = Len(o) + Len(l)
  BY <1>1, <1>2, ConcatProperties
<1>5. o \o l # <<>>
  <2>1. Len(l) \in Nat
    BY <1>2
  <2> QED
    BY <1>1, <1>4, <2>1
<1> QED
  BY <1>3, <1>5 DEF o, l

LEMMA GetStep ==
  ASSUME IInv, srv.pc = "recv", NEW k \in 1 .. Len(Served.req),
         server_get(Message(SubSeq(Served.req, 1, k)), Got(k))
  PROVE  ServedStep
<1>1. TypeInv /\ FdsOK /\ srv.pc \in {"recv", "get"}
  BY DEF IInv
<1> DEFINE m == Message(SubSeq(Served.req, 1, k))
           size == IF m = "get" THEN file_size(server_file) ELSE -1
           found == size >= 0 /\ server_file.writable
           f == LowestFree(srv.fds)
           ms == <<Header(size)>> \o IF found THEN Content(size) ELSE <<>>
           x == Answer(Got(k), ms)
           O == IF found THEN srv.opened + 1 ELSE srv.opened
           F == IF found THEN srv.fds \cup {f} ELSE srv.fds
           s == Sends(srv, "DOWNLOADING", "get", O, F)
<1>2. /\ m \in {"get", "get_other"} /\ srv.state = "CONNECTED"
      /\ conns' = [conns EXCEPT ![srv.id] = x]
      /\ srv' = s
  BY DEF server_get, Sends
<1>3. /\ Served.req # <<>> /\ m \in {"bad", "get_other", Served.req[1]}
      /\ Len(Served.req) = 1 => m = Served.req[1]
  BY <1>1, GotIs
<1>4. InHand
  <2>1. AtHello \/ InHand \/ InVain
    BY <1>1, Situation
  <2>2. ~ AtHello
    BY <1>2 DEF AtHello
  <2>3. ASSUME InVain PROVE FALSE
    <3>1. Unanswered(srv.id) /\ Served.req # <<>>
      BY <1>3, <2>3 DEF InVain
    <3>2. Served.req = <<"hello">>
      BY <3>1 DEF Unanswered, Served
    <3>3. Len(Served.req) = 1 /\ Served.req[1] = "hello"
      BY <3>2
    <3> HIDE DEF m
    <3> QED
      BY <1>2, <1>3, <3>3
  <2> QED
    BY <2>1, <2>2, <2>3
<1>5. size \in -1 .. MaxSize /\ server_file.writable \in BOOLEAN
  BY <1>1, Bounds DEF TypeInv, ServerFile, file_size
<1> HIDE DEF m
<1>6. ms \in Seq(Pieces) /\ ms # <<>>
  <2> HIDE DEF size
  <2> QED
    BY <1>5, ContentIs
<1>7. Replied(x)
  <2> HIDE DEF ms
  <2> QED
    BY <1>1, <1>6, RepliedIs
<1>8. f \in Nat
  BY <1>1, LowestIs DEF FdsOK
<1>9. /\ srv \in Server /\ srv.opened \in Nat /\ srv.fds \in SUBSET Nat
  BY <1>1, SrvIs
<1> HIDE DEF x, f
<1>10. O \in Nat /\ F \in SUBSET Nat
  BY <1>8, <1>9
<1>11. \/ F = srv.fds /\ O = srv.opened
       \/ F = srv.fds \cup {f} /\ O = srv.opened + 1
  OBVIOUS
<1> HIDE DEF O, F
<1>12. /\ s \in Server /\ s.state = "DOWNLOADING" /\ s.pc = "get"
       /\ s.fds = F /\ s.opened = O
       /\ s.id = srv.id /\ s.holder = srv.holder /\ s.lost = srv.lost
  <2>1. PICK v \in Server, st \in SrvStates, p \in ServerPcs :
          v = srv /\ st = "DOWNLOADING" /\ p = "get"
    BY <1>9 DEF SrvStates, ServerPcs
  <2>2. LET t == Sends(v, st, p, O, F)
        IN /\ t \in Server /\ t.state = st /\ t.pc = p /\ t.fds = F /\ t.opened = O
           /\ t.id = v.id /\ t.holder = v.holder /\ t.lost = v.lost
    BY <1>10, SendsIs
  <2> QED
    BY <2>1, <2>2
<1> HIDE DEF s
<1>13. \/ s.fds = srv.fds /\ s.opened = srv.opened
       \/ s.fds = srv.fds \cup {LowestFree(srv.fds)} /\ s.opened = srv.opened + 1
  BY <1>11, <1>12 DEF f
<1> QED
  BY <1>2, <1>4, <1>7, <1>12, <1>13, AnswersIs

LEMMA RefuseStep ==
  ASSUME IInv, srv.pc = "recv", NEW k \in 1 .. Len(Served.req),
         server_refuse(Message(SubSeq(Served.req, 1, k)), Got(k))
  PROVE  ServedStep
<1>1. TypeInv /\ srv.pc \in {"recv", "get"}
  BY DEF IInv
<1> DEFINE m == Message(SubSeq(Served.req, 1, k))
           s == Loop(srv)
<1>2. m # "hello" /\ Becomes(Got(k), srv)
  BY DEF server_refuse, Handled
<1>3. /\ Served.req # <<>>
      /\ Len(Served.req) = 1 => m = Served.req[1]
  BY <1>1, GotIs
<1> HIDE DEF m
<1>4. InHand
  <2>1. AtHello \/ InHand \/ InVain
    BY <1>1, Situation
  <2>2. ASSUME Served.req = <<"hello">> PROVE FALSE
    <3>1. Len(Served.req) = 1 /\ Served.req[1] = "hello"
      BY <2>2
    <3> QED
      BY <1>2, <1>3, <3>1
  <2>3. ~ AtHello
    BY <2>2 DEF AtHello
  <2>4. ASSUME InVain PROVE FALSE
    <3>1. Unanswered(srv.id) /\ Served.req # <<>>
      BY <1>3, <2>4 DEF InVain
    <3>2. Served.req = <<"hello">>
      BY <3>1 DEF Unanswered, Served
    <3> QED
      BY <2>2, <3>2
  <2> QED
    BY <2>1, <2>3, <2>4
<1>5. Replied(Got(k))
  <2>1. <<Bye>> \in Seq(Pieces) /\ <<Bye>> # <<>>
    BY PieceKinds
  <2> QED
    BY <1>1, <2>1, RepliedIs
<1>6. /\ s \in Server /\ s.pc = "recv" /\ s.state = "CONNECTED"
      /\ s.id = srv.id /\ s.fds = srv.fds
      /\ s.holder = srv.holder /\ s.opened = srv.opened /\ s.lost = srv.lost
  BY <1>1, <1>4, LoopSame DEF InHand
<1>7. conns' = [conns EXCEPT ![srv.id] = Got(k)] /\ srv' = s
  BY <1>2 DEF Becomes
<1> HIDE DEF s
<1> QED
  BY <1>4, <1>5, <1>6, <1>7, AnswersIs

(* The message after the file: done, any other, or none.                    *)
LEMMA DoneStep ==
  ASSUME IInv, srv.pc = "get", NEW m, NEW cn,
         Replied(cn), Replied(Answer(cn, <<Ok(3)>>)), server_get_done(m, cn)
  PROVE  ServedStep
<1>1. TypeInv /\ srv.pc \in {"recv", "get"}
  BY DEF IInv
<1>2. InHand
  BY <1>1, Situation DEF AtHello, InVain
<1> DEFINE x == IF m = "done" THEN Answer(cn, <<Ok(3)>>) ELSE cn
           h == Turns(srv, "CONNECTED")
           s == Loop(h)
<1>3. Becomes(x, h)
  BY DEF server_get_done, Turns
<1>4. Replied(x)
  OBVIOUS
<1>5. /\ h \in Server /\ h.state = "CONNECTED" /\ h.fds = srv.fds
      /\ h.id = srv.id /\ h.holder = srv.holder /\ h.opened = srv.opened /\ h.lost = srv.lost
  <2>1. PICK v \in Server, st \in SrvStates : v = srv /\ st = "CONNECTED"
    BY <1>1, SrvIs DEF SrvStates
  <2>2. LET t == Turns(v, st)
        IN /\ t \in Server /\ t.state = st /\ t.fds = v.fds
           /\ t.id = v.id /\ t.holder = v.holder /\ t.opened = v.opened /\ t.lost = v.lost
    BY TurnsIs
  <2> QED
    BY <2>1, <2>2
<1> HIDE DEF x, h
<1>6. /\ s \in Server /\ s.pc = "recv" /\ s.state = "CONNECTED" /\ s.id = srv.id
      /\ s.fds = srv.fds /\ s.holder = srv.holder
      /\ s.opened = srv.opened /\ s.lost = srv.lost
  BY <1>5, LoopIs
<1>7. conns' = [conns EXCEPT ![srv.id] = x] /\ srv' = s
  BY <1>3 DEF Becomes
<1> HIDE DEF s
<1> QED
  BY <1>2, <1>4, <1>6, <1>7, AnswersIs

LEMMA ReceiveStep ==
  ASSUME IInv, receive
  PROVE  ServedStep
<1>1. TypeInv /\ srv.pc \in {"recv", "get"}
  BY DEF IInv, receive
<1>2. PICK k \in 1 .. Len(Served.req) :
        IF srv.pc = "recv" THEN exec(Message(SubSeq(Served.req, 1, k)), Got(k))
        ELSE server_get_done(Message(SubSeq(Served.req, 1, k)), Got(k))
  BY DEF receive, Got
<1>3. CASE srv.pc = "recv"
  BY <1>2, <1>3, HelloStep, ByeStep, LsStep, GetStep, RefuseStep DEF exec
<1>4. CASE srv.pc = "get"
  <2>1. <<Ok(3)>> \in Seq(Pieces) /\ <<Ok(3)>> # <<>>
    BY PieceKinds
  <2>2. Replied(Got(k)) /\ Replied(Answer(Got(k), <<Ok(3)>>))
    BY <1>1, <2>1, RepliedIs
  <2> QED
    BY <1>2, <1>4, <2>2, DoneStep
<1> QED
  BY <1>1, <1>3, <1>4

(* An empty message, an error, and what ends the program.                   *)
LEMMA DiesStep ==
  ASSUME TypeInv, srv.pc # "dead", NEW cs \in Seq(Conn), Len(cs) = Len(conns),
         NEW why \in Causes, ServerDies(cs, why)
  PROVE  ServedStep
<1> DEFINE s == Dying(srv, "dead", why)
<1>1. srv \in Server /\ conns \in Seq(Conn)
  BY SrvIs DEF TypeInv
<1>2. /\ s \in Server /\ s.state = srv.state /\ s.fds = srv.fds /\ s.pc = "dead"
      /\ s.id = srv.id /\ s.holder = srv.holder /\ s.opened = srv.opened /\ s.lost = srv.lost
  <2>1. PICK v \in Server, p \in ServerPcs, w \in Causes :
          v = srv /\ p = "dead" /\ w = why
    BY <1>1, SrvIs DEF ServerPcs
  <2>2. LET t == Dying(v, p, w)
        IN /\ t \in Server /\ t.state = v.state /\ t.fds = v.fds /\ t.pc = p
           /\ t.id = v.id /\ t.holder = v.holder /\ t.opened = v.opened /\ t.lost = v.lost
    BY DyingIs
  <2> QED
    BY <2>1, <2>2
<1>3. srv' = s
  BY DEF ServerDies, Dying
<1>4. conns' \in Seq(Conn) /\ Len(conns') = Len(conns)
  <2>1. \A k \in DOMAIN cs : CloseServer(cs[k]) \in Conn
    BY CloseServerIs DEF Conn
  <2>2. conns' = [k \in 1 .. Len(cs) |-> CloseServer(cs[k])]
    BY DEF ServerDies
  <2> HIDE DEF CloseServer
  <2> QED
    BY <1>1, <2>1, <2>2
<1> HIDE DEF s
<1> QED
  BY <1>2, <1>3, <1>4 DEF ServedStep, Dies

LEMMA ZeroStep ==
  ASSUME IInv, receive_zero
  PROVE  ServedStep
<1>1. TypeInv /\ srv.pc \in {"recv", "get"}
  BY DEF IInv, receive_zero
<1>2. CASE srv.pc = "recv" /\ ServerDies(conns, "message")
  BY <1>1, <1>2, DiesStep DEF TypeInv, Causes
<1>3. CASE srv.pc = "get" /\ server_get_done("", Served)
  <2>1. Replied(Served)
    BY <1>1, SrvIs DEF Replied
  <2> DEFINE h == Turns(srv, "CONNECTED")
             s == Loop(h)
  <2>2. Becomes(Served, h)
    BY <1>3 DEF server_get_done, Turns
  <2>3. InHand
    BY <1>1, <1>3, Situation DEF AtHello, InVain
  <2>4. /\ h \in Server /\ h.state = "CONNECTED" /\ h.fds = srv.fds
        /\ h.id = srv.id /\ h.holder = srv.holder /\ h.opened = srv.opened /\ h.lost = srv.lost
    <3>1. PICK v \in Server, st \in SrvStates : v = srv /\ st = "CONNECTED"
      BY <1>1, SrvIs DEF SrvStates
    <3>2. LET t == Turns(v, st)
          IN /\ t \in Server /\ t.state = st /\ t.fds = v.fds
             /\ t.id = v.id /\ t.holder = v.holder /\ t.opened = v.opened /\ t.lost = v.lost
      BY TurnsIs
    <3> QED
      BY <3>1, <3>2
  <2> HIDE DEF h
  <2>5. /\ s \in Server /\ s.pc = "recv" /\ s.state = "CONNECTED" /\ s.id = srv.id
        /\ s.fds = srv.fds /\ s.holder = srv.holder
        /\ s.opened = srv.opened /\ s.lost = srv.lost
    BY <2>4, LoopIs
  <2>6. conns' = [conns EXCEPT ![srv.id] = Served] /\ srv' = s
    BY <2>2 DEF Becomes
  <2> HIDE DEF s
  <2> QED
    BY <2>1, <2>3, <2>5, <2>6, AnswersIs
<1> QED
  BY <1>2, <1>3 DEF receive_zero

LEMMA ErrorStep ==
  ASSUME IInv, receive_error
  PROVE  ServedStep
<1>1. TypeInv /\ srv.pc \in {"recv", "get"} /\ Served.cend = "rst" /\ UNCHANGED conns
  BY DEF IInv, receive_error, RecvError
<1>2. InHand
  <2>1. ~ Unanswered(srv.id)
    BY <1>1 DEF Unanswered, Served
  <2> QED
    BY <1>1, <2>1, Situation DEF AtHello, InVain
<1> DEFINE s == Stops(srv, "accept", TRUE)
<1>3. srv' = s
  BY DEF receive_error, Stops
<1>4. /\ s \in Server /\ s.state = srv.state /\ s.fds = srv.fds /\ s.pc = "accept"
      /\ s.id = srv.id /\ s.holder = srv.holder /\ s.opened = srv.opened /\ s.lost = TRUE
  <2>1. PICK v \in Server, p \in ServerPcs, l \in BOOLEAN :
          v = srv /\ p = "accept" /\ l = TRUE
    BY <1>1, SrvIs DEF ServerPcs
  <2>2. LET t == Stops(v, p, l)
        IN /\ t \in Server /\ t.state = v.state /\ t.fds = v.fds /\ t.pc = p
           /\ t.id = v.id /\ t.holder = v.holder /\ t.opened = v.opened /\ t.lost = l
    BY StopsIs
  <2> QED
    BY <2>1, <2>2
<1> HIDE DEF s
<1> QED
  BY <1>1, <1>2, <1>3, <1>4 DEF ServedStep, Loses

(* A failing listing: the "ok" is the last answer.                          *)
LEMMA VanishedStep ==
  ASSUME TypeInv, server_ls_vanished
  PROVE  ServedStep
<1> DEFINE ok == Answer(Got(1), <<Ok(2)>>)
           cs == [conns EXCEPT ![srv.id] = ok]
<1>1. srv.pc = "recv" /\ Served.req # <<>>
  BY DEF server_ls_vanished
<1>2. 1 \in 1 .. Len(Served.req)
  BY <1>1, SrvIs
<1>3. <<Ok(2)>> \in Seq(Pieces) /\ <<Ok(2)>> # <<>>
  BY PieceKinds
<1>4. ok \in Conn
  BY <1>1, <1>2, <1>3, RepliedIs DEF Replied
<1>5. ServerDies(cs, "listing")
  BY DEF server_ls_vanished, Got
<1> HIDE DEF ok
<1>6. cs \in Seq(Conn) /\ Len(cs) = Len(conns)
  <2>1. conns \in Seq(Conn) /\ srv.id \in 1 .. Len(conns)
    BY <1>1, SrvIs DEF TypeInv
  <2> QED
    BY <1>4, <2>1, ExceptSeq
<1> HIDE DEF cs
<1> QED
  BY <1>1, <1>5, <1>6, DiesStep DEF Causes

LEMMA ServerStepIs ==
  ASSUME IInv, ServerStep \/ Interrupt
  PROVE  /\ ServedStep /\ srv.pc # "dead" /\ UNCHANGED clean
         /\ UNCHANGED <<cl, disk, server_file, server_dir, asked>>
<1>1. TypeInv
  BY DEF IInv
<1>2. /\ \/ accept \/ receive \/ receive_zero \/ receive_error
         \/ sigpipe \/ server_ls_vanished \/ interrupt
      /\ UNCHANGED <<cl, disk, server_file, server_dir, asked, clean>>
  BY DEF ServerStep, Interrupt
<1>3. srv.pc # "dead"
  BY <1>2 DEF accept, receive, receive_zero, receive_error, sigpipe,
     server_ls_vanished, interrupt
<1>4. sigpipe \/ interrupt => ServedStep
  BY <1>1, <1>3, DiesStep DEF sigpipe, interrupt, TypeInv, Causes
<1>5. accept => ServedStep
  BY AcceptStep DEF ServedStep
<1> QED
  BY <1>1, <1>2, <1>3, <1>4, <1>5, ReceiveStep, ZeroStep, ErrorStep, VanishedStep

------------------------------------------------------------------------------
(* A step of the server keeps the invariant.                                *)

LEMMA ServesIs ==
  ASSUME TypeInv, srv.id \in DOMAIN conns, NEW s, NEW x, Serves(s, x)
  PROVE  /\ conns' \in Seq(Conn) /\ Len(conns') = Len(conns)
         /\ DOMAIN conns' = DOMAIN conns /\ conns'[srv.id] = x
         /\ \A k \in DOMAIN conns : k # srv.id => conns'[k] = conns[k]
<1>1. conns \in Seq(Conn) /\ x \in Conn /\ conns' = [conns EXCEPT ![srv.id] = x]
  BY DEF TypeInv, Serves
<1> QED
  BY <1>1

LEMMA ServedTypes ==
  ASSUME IInv, ServedStep
  PROVE  conns' \in Seq(Conn) /\ Len(conns') = Len(conns) /\ ServerOK'
<1>1. TypeInv
  BY DEF IInv
<1>2. /\ srv.id \in Nat /\ Len(conns) \in Nat /\ srv.id <= Len(conns)
      /\ srv.pc \in {"recv", "get"} => srv.id \in DOMAIN conns /\ srv.id # 0
      /\ conns \in Seq(Conn) /\ Server' = Server
  BY <1>1, SrvIs DEF Server, SrvStates, TypeInv, ServerOK
<1>3. CASE Accepts
  BY <1>2, <1>3 DEF Accepts, ServerOK
<1>4. CASE Greets \/ Frees \/ Answers \/ Ignores
  <2>1. srv.pc \in {"recv", "get"} /\ \E s, x : Serves(s, x)
    BY <1>4 DEF Greets, Frees, Answers, Ignores, AtHello, InHand, InVain
  <2>2. PICK s, x : Serves(s, x)
    BY <2>1
  <2>3. conns' \in Seq(Conn) /\ Len(conns') = Len(conns)
    BY <1>1, <1>2, <2>1, <2>2, ServesIs
  <2>4. ServerOK'
    BY <1>2, <2>1, <2>2, <2>3 DEF Serves, ServerOK
  <2> QED
    BY <2>3, <2>4
<1>5. CASE Loses \/ Dies
  BY <1>2, <1>5 DEF Loses, Dies, ServerOK
<1> QED
  BY <1>3, <1>4, <1>5 DEF ServedStep

LEMMA ServedFds ==
  ASSUME IInv, ServedStep
  PROVE  FdsOK'
<1>1. TypeInv /\ FdsOK
  BY DEF IInv
<1>2. PICK n \in Nat : srv.fds \subseteq 0 .. n
  BY <1>1 DEF FdsOK
<1> DEFINE f == LowestFree(srv.fds)
<1>3. /\ f \in Nat /\ f \notin srv.fds /\ (0 \notin srv.fds => f = 0)
      /\ \E m \in Nat : srv.fds \cup {f} \subseteq 0 .. m
      /\ IsFiniteSet(srv.fds) /\ Cardinality(srv.fds) \in Nat
      /\ Cardinality(srv.fds \cup {f}) = Cardinality(srv.fds) + 1
      /\ 1 \in srv.fds
  BY <1>1, <1>2, LowestIs DEF FdsOK
<1>4. srv.opened \in Nat /\ srv.lost \in BOOLEAN
  BY <1>1, SrvIs
<1> HIDE DEF f
<1>5. CASE Accepts
  <2>1. /\ srv.pc = "accept" /\ srv'.pc = "recv" /\ srv'.fds = srv.fds \cup {f}
        /\ srv'.opened = srv.opened /\ srv'.lost = srv.lost
    BY <1>5 DEF Accepts, f
  <2>2. 0 \in srv'.fds /\ 1 \in srv'.fds
    BY <1>3, <2>1
  <2>3. srv.lost \/ Cardinality(srv.fds) <= 4 + srv.opened
    BY <1>1, <2>1 DEF FdsOK
  <2> QED
    BY <1>3, <1>4, <2>1, <2>2, <2>3 DEF FdsOK
<1>6. CASE Frees
  <2>1. /\ srv.pc = "recv" /\ srv'.pc = "accept" /\ srv'.fds = srv.fds \ {0}
        /\ srv'.opened = srv.opened /\ srv'.lost = srv.lost /\ ~srv.lost
    BY <1>6 DEF Frees, Serves, InHand
  <2>2. Cardinality(srv.fds) <= 5 + srv.opened /\ 0 \in srv.fds
    BY <1>1, <2>1 DEF FdsOK
  <2>3. Cardinality(srv.fds \ {0}) = Cardinality(srv.fds) - 1
    BY <1>3, <2>2, FS_RemoveElement
  <2> QED
    BY <1>2, <1>3, <1>4, <2>1, <2>2, <2>3 DEF FdsOK
<1>7. CASE Answers
  <2>1. /\ srv.pc \in {"recv", "get"} /\ srv'.pc \in {"recv", "get"}
        /\ srv'.lost = srv.lost /\ ~srv.lost
        /\ \/ srv'.fds = srv.fds /\ srv'.opened = srv.opened
           \/ srv'.fds = srv.fds \cup {f} /\ srv'.opened = srv.opened + 1
    BY <1>7 DEF Answers, Serves, InHand, f
  <2>2. Cardinality(srv.fds) <= 5 + srv.opened /\ 0 \in srv.fds
    BY <1>1, <2>1 DEF FdsOK
  <2> QED
    BY <1>2, <1>3, <1>4, <2>1, <2>2 DEF FdsOK
<1>8. CASE Greets \/ Dies
  <2>1. /\ srv'.fds = srv.fds /\ srv'.opened = srv.opened /\ srv'.lost = srv.lost
        /\ srv'.pc = "dead" \/ (srv.pc = "recv" /\ srv'.pc = "recv")
    BY <1>8 DEF Greets, Dies, Serves, AtHello
  <2> QED
    BY <1>1, <2>1 DEF FdsOK
<1>9. CASE Loses \/ Ignores
  <2>1. srv'.fds = srv.fds /\ srv'.lost
    BY <1>9 DEF Loses, Ignores, Serves, InVain
  <2> QED
    BY <1>1, <2>1 DEF FdsOK
<1> QED
  BY <1>5, <1>6, <1>7, <1>8, <1>9 DEF ServedStep

(* The sessions, after a step on the connection served.                     *)
LEMMA GreetsSession ==
  ASSUME IInv, SessionOK, UNCHANGED cl, Greets
  PROVE  SessionOK'
<1>1. TypeInv
  BY DEF IInv
<1>2. /\ srv.id \in Nat /\ srv.holder \in Nat /\ srv.lost \in BOOLEAN
      /\ DOMAIN conns = 1 .. Len(conns) /\ Len(conns) \in Nat
      /\ srv.id \in DOMAIN conns
  BY <1>1, SrvIs DEF Greets, AtHello
<1>3. PICK s, x :
        /\ Serves(s, x) /\ s.holder = srv.id
        /\ s.pc = "recv" /\ s.state = "CONNECTED"
        /\ x.send = "open" /\ x.req = <<>>
        /\ Served.cend = "open" => x.cend = "open" /\ x.rep # <<>>
  BY DEF Greets
<1>4. /\ conns'[srv.id] = x /\ DOMAIN conns' = DOMAIN conns
      /\ \A k \in DOMAIN conns : k # srv.id => conns'[k] = conns[k]
  BY <1>1, <1>2, <1>3, ServesIs
<1>5. /\ srv'.id = srv.id /\ srv'.holder = srv.id /\ srv'.pc = "recv"
      /\ srv'.state = "CONNECTED" /\ srv'.lost = FALSE
      /\ srv.id = srv.holder + 1 /\ srv.state = "IDLE"
  BY <1>2, <1>3 DEF Serves, Greets, AtHello
<1>6. HolderOK'
  BY <1>2, <1>5 DEF HolderOK
<1>7. WaitingOK'
  BY <1>2, <1>4, <1>5 DEF SessionOK, WaitingOK, Unanswered
<1>8. ASSUME NEW c \in Clients PROVE ClientOK(c)'
  <2>1. ClientOK(c) /\ cl'[c] = cl[c] /\ cl[c].sock \in Nat /\ cl[c].sock <= Len(conns)
    <3>1. cl[c].sock \in Nat
      BY <1>1, ActiveIs DEF Client
    <3> QED
      BY <1>1, <3>1 DEF SessionOK, TypeInv, ClientsOK
  <2>2. CASE cl[c].sock = srv.id
    <3>1. Sock(c)' = x /\ Sock(c) = Served
      BY <1>4, <2>1, <2>2 DEF Sock, Served
    <3> QED
      BY <1>2, <1>3, <1>5, <2>1, <2>2, <3>1
         DEF ClientOK, ConnOK, ByeOK, InsideOK, Holds
  <2>3. CASE cl[c].sock # srv.id /\ cl[c].sock # 0
    <3>1. Sock(c)' = Sock(c)
      BY <1>2, <1>4, <2>1, <2>3 DEF Sock
    <3> QED
      BY <1>2, <1>5, <2>1, <2>3, <3>1 DEF ClientOK, ConnOK, ByeOK, InsideOK, Holds
  <2>4. CASE cl[c].sock = 0
    <3>1. cl[c].pc = "prompt" /\ cl[c].state = "IDLE"
      BY <1>1, <2>4 DEF TypeInv, ClientsOK
    <3> QED
      BY <2>1, <3>1 DEF ClientOK
  <2> QED
    BY <2>2, <2>3, <2>4
<1> QED
  BY <1>6, <1>7, <1>8 DEF SessionOK

LEMMA FreesSession ==
  ASSUME IInv, SessionOK, UNCHANGED cl, Frees
  PROVE  SessionOK'
<1>1. TypeInv
  BY DEF IInv
<1>2. /\ srv.id \in Nat /\ srv.holder \in Nat
      /\ DOMAIN conns = 1 .. Len(conns) /\ Len(conns) \in Nat
      /\ srv.id \in DOMAIN conns /\ Served \in Conn
  BY <1>1, SrvIs DEF Frees
<1>3. PICK s, x :
        /\ Serves(s, x) /\ s.holder = srv.holder
        /\ s.pc = "accept" /\ s.state = "IDLE"
        /\ Served.cend = "open" => x.cend = "open" /\ x.rep # <<>>
  BY DEF Frees
<1>4. /\ conns'[srv.id] = x /\ DOMAIN conns' = DOMAIN conns
      /\ \A k \in DOMAIN conns : k # srv.id => conns'[k] = conns[k]
  BY <1>1, <1>2, <1>3, ServesIs
<1>5. /\ srv'.id = srv.id /\ srv'.holder = srv.id /\ srv'.pc = "accept"
      /\ srv'.state = "IDLE" /\ srv'.lost = FALSE
      /\ srv.id = srv.holder /\ srv.state = "CONNECTED"
  BY <1>2, <1>3 DEF Serves, Frees, InHand
<1>6. HolderOK'
  BY <1>2, <1>5 DEF HolderOK
<1>7. WaitingOK'
  BY <1>2, <1>4, <1>5 DEF SessionOK, WaitingOK, Unanswered
<1>8. ~ NoBye(Served.req) /\ Served.req # <<>>
  <2>1. Served.req # <<>> /\ Served.req[1] = "bye"
    BY DEF Frees
  <2>2. Served.req \in Seq(Requests)
    BY <1>2 DEF Conn, ConnOf
  <2>3. 1 \in 1 .. Len(Served.req)
    BY <2>1, <2>2
  <2> QED
    BY <2>1, <2>3 DEF NoBye
<1>9. ASSUME NEW c \in Clients PROVE ClientOK(c)'
  <2>1. ClientOK(c) /\ cl'[c] = cl[c] /\ cl[c].sock \in Nat /\ cl[c].sock <= Len(conns)
    <3>1. cl[c].sock \in Nat
      BY <1>1, ActiveIs DEF Client
    <3> QED
      BY <1>1, <3>1 DEF SessionOK, TypeInv, ClientsOK
  <2>2. CASE cl[c].sock = srv.id
    <3>1. Sock(c)' = x /\ Sock(c) = Served
      BY <1>4, <2>1, <2>2 DEF Sock, Served
    <3> QED
      BY <1>2, <1>3, <1>5, <1>8, <2>1, <2>2, <3>1
         DEF ClientOK, ConnOK, ByeOK, InsideOK, Holds
  <2>3. CASE cl[c].sock # srv.id /\ cl[c].sock # 0
    <3>1. Sock(c)' = Sock(c)
      BY <1>2, <1>4, <2>1, <2>3 DEF Sock
    <3> QED
      BY <1>2, <1>5, <2>1, <2>3, <3>1 DEF ClientOK, ConnOK, ByeOK, InsideOK, Holds
  <2>4. CASE cl[c].sock = 0
    <3>1. cl[c].pc = "prompt" /\ cl[c].state = "IDLE"
      BY <1>1, <2>4 DEF TypeInv, ClientsOK
    <3> QED
      BY <2>1, <3>1 DEF ClientOK
  <2> QED
    BY <2>2, <2>3, <2>4
<1> QED
  BY <1>6, <1>7, <1>9 DEF SessionOK

LEMMA AnswersSession ==
  ASSUME IInv, SessionOK, UNCHANGED cl, Answers
  PROVE  SessionOK'
<1>1. TypeInv
  BY DEF IInv
<1>2. /\ srv.id \in Nat /\ srv.holder \in Nat
      /\ DOMAIN conns = 1 .. Len(conns) /\ Len(conns) \in Nat
      /\ srv.id \in DOMAIN conns
  BY <1>1, SrvIs DEF Answers, InHand
<1>3. PICK s, x :
        /\ Serves(s, x) /\ s.holder = srv.holder
        /\ \/ s.pc = "recv" /\ s.state = "CONNECTED"
           \/ s.pc = "get" /\ s.state = "DOWNLOADING" /\ srv.state = "CONNECTED"
        /\ x.send = Served.send
        /\ Served.cend = "open" => x.cend = "open" /\ (Served.rep # <<>> => x.rep # <<>>)
        /\ Served.req = <<>> => x.req = <<>>
        /\ NoBye(Served.req) => NoBye(x.req)
  BY DEF Answers
<1>4. /\ conns'[srv.id] = x /\ DOMAIN conns' = DOMAIN conns
      /\ \A k \in DOMAIN conns : k # srv.id => conns'[k] = conns[k]
  BY <1>1, <1>2, <1>3, ServesIs
<1>5. /\ srv'.id = srv.id /\ srv'.holder = srv.id /\ srv'.lost = FALSE
      /\ srv.id = srv.holder /\ srv.state # "IDLE" /\ srv'.state # "IDLE"
      /\ \/ srv'.pc = "recv" /\ srv'.state = "CONNECTED"
         \/ srv'.pc = "get" /\ srv'.state = "DOWNLOADING"
  BY <1>2, <1>3 DEF Serves, Answers, InHand
<1>6. HolderOK'
  BY <1>2, <1>5 DEF HolderOK
<1>7. WaitingOK'
  BY <1>2, <1>4, <1>5 DEF SessionOK, WaitingOK, Unanswered
<1>8. ASSUME NEW c \in Clients PROVE ClientOK(c)'
  <2>1. ClientOK(c) /\ cl'[c] = cl[c] /\ cl[c].sock \in Nat /\ cl[c].sock <= Len(conns)
    <3>1. cl[c].sock \in Nat
      BY <1>1, ActiveIs DEF Client
    <3> QED
      BY <1>1, <3>1 DEF SessionOK, TypeInv, ClientsOK
  <2>2. CASE cl[c].sock = srv.id
    <3>1. Sock(c)' = x /\ Sock(c) = Served
      BY <1>4, <2>1, <2>2 DEF Sock, Served
    <3> QED
      BY <1>2, <1>3, <1>5, <2>1, <2>2, <3>1
         DEF ClientOK, ConnOK, ByeOK, InsideOK, Holds
  <2>3. CASE cl[c].sock # srv.id /\ cl[c].sock # 0
    <3>1. Sock(c)' = Sock(c)
      BY <1>2, <1>4, <2>1, <2>3 DEF Sock
    <3> QED
      BY <1>2, <1>5, <2>1, <2>3, <3>1 DEF ClientOK, ConnOK, ByeOK, InsideOK, Holds
  <2>4. CASE cl[c].sock = 0
    <3>1. cl[c].pc = "prompt" /\ cl[c].state = "IDLE"
      BY <1>1, <2>4 DEF TypeInv, ClientsOK
    <3> QED
      BY <2>1, <3>1 DEF ClientOK
  <2> QED
    BY <2>2, <2>3, <2>4
<1> QED
  BY <1>6, <1>7, <1>8 DEF SessionOK

LEMMA IgnoresSession ==
  ASSUME IInv, SessionOK, UNCHANGED cl, Ignores
  PROVE  SessionOK'
<1>1. TypeInv
  BY DEF IInv
<1>2. /\ srv.id \in Nat /\ srv.holder \in Nat
      /\ DOMAIN conns = 1 .. Len(conns) /\ Len(conns) \in Nat
      /\ srv.id \in DOMAIN conns
  BY <1>1, SrvIs DEF Ignores, InVain
<1>3. PICK s, x :
        /\ Serves(s, x) /\ s.holder = srv.holder
        /\ s.pc \in {"recv", "accept"} /\ s.state = srv.state
        /\ x.req = <<>> /\ x.rep = Served.rep
        /\ x.cend = Served.cend /\ x.send = Served.send
  BY DEF Ignores
<1>4. /\ conns'[srv.id] = x /\ DOMAIN conns' = DOMAIN conns
      /\ \A k \in DOMAIN conns : k # srv.id => conns'[k] = conns[k]
  BY <1>1, <1>2, <1>3, ServesIs
<1>5. /\ srv'.id = srv.id /\ srv'.holder = srv.holder /\ srv'.lost = srv.lost /\ srv.lost
      /\ srv.holder < srv.id /\ srv.state # "IDLE" /\ srv'.state = srv.state
      /\ srv'.pc \in {"recv", "accept"} /\ Unanswered(srv.id)
  BY <1>3 DEF Serves, Ignores, InVain
<1>6. HolderOK'
  <2>1. srv.holder # 0 /\ conns[srv.holder].cend # "open" /\ srv.holder \in DOMAIN conns
    BY <1>2, <1>5 DEF SessionOK, HolderOK
  <2> QED
    BY <1>2, <1>4, <1>5, <2>1 DEF HolderOK
<1>7. WaitingOK'
  <2>1. Unanswered(srv.id)'
    BY <1>2, <1>3, <1>4, <1>5 DEF Unanswered, Served
  <2>2. ASSUME NEW k \in DOMAIN conns, k # srv.id
        PROVE  /\ k > srv.holder => Unanswered(k)'
               /\ k > srv.id => conns'[k].req = <<"hello">>
    BY <1>2, <1>4, <1>5, <2>2 DEF SessionOK, WaitingOK, Unanswered
  <2> QED
    BY <1>2, <1>4, <1>5, <2>1, <2>2 DEF WaitingOK
<1>8. ASSUME NEW c \in Clients PROVE ClientOK(c)'
  <2>1. ClientOK(c) /\ cl'[c] = cl[c] /\ cl[c].sock \in Nat /\ cl[c].sock <= Len(conns)
    <3>1. cl[c].sock \in Nat
      BY <1>1, ActiveIs DEF Client
    <3> QED
      BY <1>1, <3>1 DEF SessionOK, TypeInv, ClientsOK
  <2>2. CASE cl[c].sock = srv.id
    <3>1. Sock(c)' = x /\ Sock(c) = Served
      BY <1>4, <2>1, <2>2 DEF Sock, Served
    <3> QED
      BY <1>2, <1>3, <1>5, <2>1, <2>2, <3>1
         DEF ClientOK, ConnOK, ByeOK, InsideOK, Holds
  <2>3. CASE cl[c].sock # srv.id /\ cl[c].sock # 0
    <3>1. Sock(c)' = Sock(c)
      BY <1>2, <1>4, <2>1, <2>3 DEF Sock
    <3> QED
      BY <1>2, <1>5, <2>1, <2>3, <3>1 DEF ClientOK, ConnOK, ByeOK, InsideOK, Holds
  <2>4. CASE cl[c].sock = 0
    <3>1. cl[c].pc = "prompt" /\ cl[c].state = "IDLE"
      BY <1>1, <2>4 DEF TypeInv, ClientsOK
    <3> QED
      BY <2>1, <3>1 DEF ClientOK
  <2> QED
    BY <2>2, <2>3, <2>4
<1> QED
  BY <1>6, <1>7, <1>8 DEF SessionOK

(* The connections are those before: accept, and the loss of a session.     *)
LEMMA AcceptsSession ==
  ASSUME IInv, SessionOK, UNCHANGED cl, Accepts \/ Loses
  PROVE  SessionOK'
<1>1. TypeInv
  BY DEF IInv
<1>2. /\ srv.id \in Nat /\ srv.holder \in Nat /\ srv.lost \in BOOLEAN
      /\ DOMAIN conns = 1 .. Len(conns) /\ Len(conns) \in Nat
      /\ srv.pc \in {"recv", "get"} => srv.id \in DOMAIN conns
  BY <1>1, SrvIs
<1>3. conns' = conns /\ srv'.holder = srv.holder /\ srv'.state = srv.state
      /\ srv'.id \in Nat /\ srv'.id >= srv.id
  BY <1>2 DEF Accepts, Loses
<1>4. HolderOK'
  <2>1. CASE Accepts
    <3>1. /\ srv'.id = srv.id + 1 /\ srv'.pc = "recv" /\ srv'.lost = srv.lost
          /\ srv.pc = "accept" /\ srv.id + 1 \in DOMAIN conns
      BY <1>2, <2>1 DEF Accepts
    <3>2. conns[srv.id + 1].req = <<"hello">>
      BY <1>2, <3>1 DEF SessionOK, WaitingOK
    <3> QED
      BY <1>2, <1>3, <3>1, <3>2 DEF SessionOK, HolderOK, Served
  <2>2. CASE Loses
    <3>1. /\ srv'.id = srv.id /\ srv'.pc = "accept" /\ srv'.lost = TRUE
          /\ srv.id = srv.holder /\ srv.state # "IDLE"
          /\ srv.holder # 0 /\ conns[srv.holder].cend # "open"
      BY <1>2, <2>2 DEF Loses, InHand, Served
    <3> QED
      BY <1>2, <1>3, <3>1 DEF HolderOK
  <2> QED
    BY <2>1, <2>2
<1>5. WaitingOK'
  BY <1>2, <1>3 DEF SessionOK, WaitingOK, Unanswered
<1>6. \A c \in Clients : ClientOK(c)'
  BY <1>3 DEF SessionOK, ClientOK, ConnOK, ByeOK, InsideOK, Holds, Sock
<1> QED
  BY <1>4, <1>5, <1>6 DEF SessionOK

LEMMA ServerInvariant ==
  ASSUME IInv, ServerStep \/ Interrupt
  PROVE  IInv'
<1>1. TypeInv /\ OwnSockets /\ SessionOK
  BY ServerStepIs DEF IInv
<1>2. /\ ServedStep /\ clean' \in BOOLEAN
      /\ UNCHANGED <<cl, disk, server_file, server_dir, asked>>
  BY <1>1, ServerStepIs DEF TypeInv
<1>3. /\ conns' \in Seq(Conn) /\ Len(conns') = Len(conns) /\ ServerOK'
      /\ Len(conns) \in Nat
  BY <1>1, <1>2, ServedTypes, SrvIs
<1>4. (conns \in Seq(Conn))'
  BY <1>3, ConnsType
<1>5. ClientsOK' /\ DiskOK' /\ TempOK' /\ OwnSockets'
  <2>1. Client' = Client /\ Data' = Data
    BY DEF Client, Data, Unit, Junk
  <2>2. DiskOK'
    BY <1>1, <1>2, SameOthers
  <2> QED
    BY <1>1, <1>2, <1>3, <2>1, <2>2 DEF TypeInv, ClientsOK, TempOK, OwnSockets
<1>6. TypeInv'
  <2>1. (server_file \in ServerFile)' /\ (server_dir \in Seq(Kinds))'
    BY <1>1, <1>2 DEF TypeInv, ServerFile, Kinds
  <2> QED
    BY <1>1, <1>2, <1>3, <1>4, <1>5, <2>1 DEF TypeInv
<1>7. FdsOK'
  BY <1>2, ServedFds
<1>8. ASSUME srv'.pc # "dead" PROVE SessionOK'
  <2>1. ~ Dies
    BY <1>8 DEF Dies
  <2> QED
    BY <1>1, <1>2, <2>1, GreetsSession, FreesSession, AnswersSession,
       IgnoresSession, AcceptsSession DEF ServedStep
<1> QED
  BY <1>5, <1>6, <1>7, <1>8 DEF IInv

------------------------------------------------------------------------------
(* The theorems.                                                            *)

LEMMA FourNumbers == Cardinality(0 .. 3) = 4
<1>1. 0 \in Int /\ 3 \in Int
  OBVIOUS
<1>2. Cardinality(0 .. 3) = IF 0 > 3 THEN 0 ELSE 3 - 0 + 1
  BY <1>1, FS_Interval, Zenon
<1> QED
  BY ONLY <1>2, SMT

LEMMA InitInvariant == Init => IInv
<1> SUFFICES ASSUME Init PROVE IInv
  OBVIOUS
<1> USE DEF Init, ServerInit, ClientInit
<1>1. Len(conns) = 0 /\ DOMAIN conns = {} /\ conns \in Seq(Conn)
  BY EmptySeq
<1>2. \A c \in Clients : cl[c] = init /\ disk[c] = [tmp |-> NoFile, file |-> NoFile]
  OBVIOUS
<1>3. init \in Client /\ init.pc = "prompt" /\ init.state = "IDLE" /\ init.sock = 0
      /\ init.buf = <<>>
  BY EmptySeq, Bounds DEF init, Client, ClStates
<1>4. /\ srv.pc = "accept" /\ srv.state = "IDLE" /\ srv.id = 0 /\ srv.holder = 0
      /\ srv.fds = 0 .. 3 /\ srv.opened = 0 /\ srv.lost = FALSE /\ srv \in Server
  BY DEF Server, SrvStates, Causes
<1>5. TypeInv
  <2>1. ServerOK
    BY <1>1, <1>4 DEF ServerOK
  <2>2. ClientsOK
    <3>1. cl \in [Clients -> Client]
      BY <1>3
    <3> QED
      BY <1>1, <1>2, <1>3, <3>1 DEF ClientsOK
  <2>3. DiskOK
    BY DEF DiskOK, Contents, Copies
  <2>4. TempOK
    BY <1>2, <1>3 DEF TempOK
  <2>5. server_file \in ServerFile /\ server_dir \in Seq(Kinds)
    BY Bounds
  <2> QED
    BY <1>1, <2>1, <2>2, <2>3, <2>4, <2>5, Bounds DEF TypeInv
<1>6. FdsOK
  <2>1. Cardinality(0 .. 3) = 4
    BY FourNumbers
  <2> QED
    BY <1>4, <2>1 DEF FdsOK
<1>7. OwnSockets
  BY <1>2, <1>3 DEF OwnSockets
<1>8. SessionOK
  <2>1. HolderOK
    BY <1>4 DEF HolderOK
  <2>2. WaitingOK
    BY <1>1 DEF WaitingOK
  <2>3. \A c \in Clients : ClientOK(c)
    BY <1>2, <1>3 DEF ClientOK
  <2> QED
    BY <2>1, <2>2, <2>3 DEF SessionOK
<1> QED
  BY <1>5, <1>6, <1>7, <1>8 DEF IInv

LEMMA SameInvariant == IInv /\ UNCHANGED netvars => IInv'
<1> SUFFICES ASSUME IInv, UNCHANGED netvars PROVE IInv'
  OBVIOUS
<1> USE DEF netvars
<1>1. /\ conns' = conns /\ srv' = srv /\ cl' = cl /\ disk' = disk
      /\ server_file' = server_file /\ server_dir' = server_dir
      /\ asked' = asked /\ clean' = clean
  OBVIOUS
<1>2. TypeInv'
  <2>1. Pieces' = Pieces /\ Client' = Client /\ Server' = Server /\ Data' = Data
        /\ Contents' = Contents
    BY <1>1 DEF Pieces, Client, Server, Data, Contents
  <2> QED
    BY <1>1, <2>1 DEF IInv, TypeInv, ServerOK, ClientsOK, DiskOK, TempOK, Conn, Copies,
       ServerFile, Kinds
<1>3. FdsOK' /\ OwnSockets'
  BY <1>1 DEF IInv, FdsOK, OwnSockets
<1>4. SessionOK => SessionOK'
  BY <1>1 DEF SessionOK, HolderOK, WaitingOK, ClientOK, Unanswered, ConnOK, ByeOK,
     InsideOK, Holds, Sock, Served
<1> QED
  BY <1>1, <1>2, <1>3, <1>4 DEF IInv

(* What is known in every state: types; descriptors; whose session it is;   *)
(* and who waits for one.                                                   *)
THEOREM TransferInvariant == Spec => []IInv
<1>1. IInv /\ [Next]_netvars => IInv'
  <2> SUFFICES ASSUME IInv, [Next]_netvars PROVE IInv'
    OBVIOUS
  <2>1. CASE ServerStep \/ Interrupt
    BY <2>1, ServerInvariant
  <2>2. CASE \E c \in Clients : ClientStep(c)
    BY <2>2, ClientInvariant
  <2>3. CASE UNCHANGED netvars
    BY <2>3, SameInvariant
  <2> QED
    BY <2>1, <2>2, <2>3 DEF Next
<1> QED
  BY <1>1, InitInvariant, PTL DEF Spec

(* Every variable has its type.                                             *)
THEOREM TransferTypeOK == Spec => []TypeOK
<1>1. IInv => TypeOK
  <2> SUFFICES ASSUME IInv PROVE TypeOK
    OBVIOUS
  <2>1. TypeInv
    BY DEF IInv
  <2>2. \A k \in DOMAIN conns : conns[k] \in Conn
    BY <2>1 DEF TypeInv
  <2>3. \A c \in Clients : cl[c] \in Client /\ cl[c].sock <= Len(conns)
    BY <2>1 DEF TypeInv, ClientsOK
  <2>4. \A c \in Clients : disk[c].tmp \in Contents
    BY <2>1 DEF TypeInv, DiskOK
  <2> QED
    BY <2>1, <2>2, <2>3, <2>4 DEF TypeOK, TypeInv, ServerOK, Conn, ConnOf
<1> QED
  BY <1>1, TransferInvariant, PTL

(* The global state of the server admits one client at a time, however      *)
(* clients come and leave.                                                  *)
THEOREM AtMostOneSession == Spec => []OneSession
<1>1. IInv => OneSession
  <2> SUFFICES ASSUME IInv, NEW c \in Clients, NEW d \in Clients,
                      InSession(c), InSession(d)
               PROVE  c = d
    BY DEF OneSession
  <2>1. SessionOK /\ OwnSockets /\ TypeInv
    BY DEF IInv, InSession
  <2>2. cl[c].pc # "conn" /\ cl[d].pc # "conn"
    BY <2>1 DEF SessionOK, ClientOK, ConnOK, InSession
  <2>3. cl[c].sock = srv.holder /\ cl[d].sock = srv.holder
    BY <2>1, <2>2 DEF SessionOK, ClientOK, InsideOK, Holds, InSession
  <2>4. cl[c].sock # 0
    BY <2>1 DEF TypeInv, ClientsOK, InSession
  <2> QED
    BY <2>1, <2>3, <2>4 DEF OwnSockets
<1> QED
  BY <1>1, TransferInvariant, PTL

(* Sessions that end by bye cost one descriptor in all, files one each.     *)
THEOREM SessionsLeakOne == Spec => []OneLeakedSession
<1>1. IInv => OneLeakedSession
  BY DEF IInv, FdsOK, OneLeakedSession
<1> QED
  BY <1>1, TransferInvariant, PTL

(* The server keeps its promise about sessions: it hands the session on     *)
(* only after a bye, in the order of the connections, downloads only inside *)
(* one, and never gives away one that was lost.                             *)
THEOREM ServerKeepsSessions == Spec => ImplementsFileSession
<1>1. Init => FileSession!Init
  BY DEF Init, ServerInit, FileSession!Init
<1>2. IInv /\ [Next]_netvars
        => [FileSession!Next]_<<IF srv.pc = "dead" THEN "down" ELSE IF srv.lost THEN "lost"
              ELSE CASE srv.state = "IDLE" -> "free"
                     [] srv.state = "CONNECTED" -> "held"
                     [] srv.state = "DOWNLOADING" -> "download", srv.holder>>
  <2> DEFINE phase == IF srv.pc = "dead" THEN "down" ELSE IF srv.lost THEN "lost"
              ELSE CASE srv.state = "IDLE" -> "free"
                     [] srv.state = "CONNECTED" -> "held"
                     [] srv.state = "DOWNLOADING" -> "download"
  <2> SUFFICES ASSUME IInv, [Next]_netvars
               PROVE  FileSession!Next \/ (phase' = phase /\ srv'.holder = srv.holder)
    OBVIOUS
  <2> USE DEF FileSession!Next, FileSession!Begin, FileSession!Download,
              FileSession!Finish, FileSession!End, FileSession!Lose, FileSession!Fail
  <2>1. CASE UNCHANGED srv
    BY <2>1
  <2>2. CASE ServerStep \/ Interrupt
    <3>1. ServedStep /\ srv.pc # "dead"
      BY <2>2, ServerStepIs
    <3>2. /\ srv.state \in {"IDLE", "CONNECTED", "DOWNLOADING"} /\ srv.lost \in BOOLEAN
          /\ srv.id \in Nat /\ srv.holder \in Nat
      BY SrvIs DEF IInv, SrvStates
    <3>3. CASE Accepts
      BY <3>2, <3>3 DEF Accepts
    <3>4. CASE Greets
      BY <3>2, <3>4 DEF Greets, Serves, AtHello
    <3>5. CASE Frees
      BY <3>2, <3>5 DEF Frees, Serves, InHand
    <3>6. CASE Answers
      BY <3>2, <3>6 DEF Answers, Serves, InHand
    <3>7. CASE Loses
      BY <3>2, <3>7 DEF Loses, InHand
    <3>8. CASE Ignores
      BY <3>2, <3>8 DEF Ignores, Serves, InVain
    <3>9. CASE Dies
      BY <3>1, <3>2, <3>9 DEF Dies
    <3> QED
      BY <3>1, <3>3, <3>4, <3>5, <3>6, <3>7, <3>8, <3>9 DEF ServedStep
  <2>3. CASE \E c \in Clients : ClientStep(c)
    BY <2>1, <2>3 DEF ClientStep
  <2>4. CASE UNCHANGED netvars
    BY <2>1, <2>4 DEF netvars
  <2> QED
    BY <2>2, <2>3, <2>4 DEF Next
<1> QED
  BY <1>1, <1>2, TransferInvariant, PTL DEF Spec, ImplementsFileSession, FileSession!Spec
==============================================================================
