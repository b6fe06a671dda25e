-------------------------- MODULE EarlyShellsProofs ---------------------------
(* Proofs about the shells of lab3 and lab4: what they hold between lines,    *)
(* whom they have waited for, and how lab4 numbers its jobs, for any lines,   *)
(* pipes and commands.                                                         *)
EXTENDS EarlyShells, NaturalLemmas, SequenceTheorems, TLAPS

-----------------------------------------------------------------------------
(* The types.  What a command was given, it keeps.                            *)

States == {"forked", "grouped", "running", "stopped", "ended", "reaped"}
Pcs == {"prompt", "fork", "parent", "wait", "first", "second", "wait_first",
        "wait_second", "ended", "crashed", "undefined"}
Made == {R(p) : p \in 1..pipes} \cup {W(p) : p \in 1..pipes}
AnyEnd == {R(p) : p \in Nat} \cup {W(p) : p \in Nat}

KidOf(T, N, E, S) ==
    [name : T, in : N, out : N, ends : E, group : N, state : S, left : N]
Words == STRING \cup {"none"}
Kids == KidOf(Words, Nat, SUBSET AnyEnd, States)

KidOK(k) == /\ k.in \in 0..pipes /\ k.out \in 0..pipes
            /\ k.ends \subseteq Made /\ k.left \in 0..Amount
Jobs == [cmd : STRING, idx : Nat, status : {"Running", "Done"}]

TypeInv ==
    /\ lab \in {"lab3", "lab4"} /\ pc \in Pcs
    /\ buffer \in Seq(STRING) /\ stages \in Seq(STRING) /\ stage \in Nat /\ pipes \in Nat
    /\ level \in Seq(0..Capacity) /\ Len(level) = pipes
    /\ ends \subseteq Made
    /\ kids \in Seq(Kids) /\ \A i \in DOMAIN kids : KidOK(kids[i])
    /\ child \in Seq(Nat) /\ \A n \in DOMAIN child : child[n] <= Len(kids)
    /\ group \in 0..Len(kids)
    /\ list \in Seq(Jobs)

(* The line lab4 is working on: the command at hand has a pipe before it if   *)
(* it is not the first, and one of its own if there are several.              *)
Launching == pc \in {"fork", "parent", "wait"}
LaunchOK ==
    lab = "lab4" /\ Launching =>
        /\ stage \in 1..Len(stages)
        /\ stage > 1 => Len(stages) > 1
        /\ Len(stages) > 1 => stage <= pipes

(* The ends a shell holds.                                                    *)
Unused(p) == \A i \in DOMAIN kids : p # kids[i].in /\ p # kids[i].out
EndsOK ==
    /\ lab = "lab3" =>
           /\ ends = IF pc = "first" THEN {R(pipes), W(pipes)}
                     ELSE IF pc = "second" THEN {R(pipes)} ELSE {}
           /\ pc \in {"first", "second"} => pipes >= 1
    /\ lab = "lab4" =>
           \A p \in 1..pipes :
               /\ W(p) \in ends => Launching /\ p = Out
               /\ R(p) \in ends =>
                      \/ Unused(p)
                      \/ Launching /\ p = In
                      \/ pc \in {"parent", "wait"} /\ HasNext /\ p = Out

(* Whom a shell has not waited for yet.                                       *)
Unreaped == {i \in DOMAIN kids : kids[i].state # "reaped"}
WaitOK ==
    /\ lab = "lab3" =>
           /\ pc \notin {"second", "wait_first", "wait_second"} => Unreaped = {}
           /\ pc = "second" => Len(child) = 1 /\ Unreaped \subseteq {child[1]}
           /\ pc = "wait_first" => Len(child) = 2 /\ Unreaped \subseteq {child[1], child[2]}
           /\ pc = "wait_second" => Len(child) = 2 /\ Unreaped \subseteq {child[2]}
    /\ lab = "lab4" =>
           /\ pc \in {"parent", "wait"} => Len(child) = 1
           /\ pc = "prompt" /\ blocking /\ child # <<>> /\ child[1] # 0
                  => kids[child[1]].state = "reaped"

IInv == TypeInv /\ LaunchOK /\ EndsOK /\ WaitOK /\ FoundByNumber

-----------------------------------------------------------------------------
(* A command, before and after a step of whoever it is.                       *)

Keeps(k, old) ==
    /\ k \in Kids /\ k.in = old.in /\ k.out = old.out /\ k.ends = old.ends
    /\ k.left \in 0..Amount /\ (old.state = "reaped" => k.state = "reaped")

SameKids ==
    /\ kids' \in Seq(Kids) /\ Len(kids') = Len(kids)
    /\ \A j \in DOMAIN kids : Keeps(kids'[j], kids[j])

LEMMA KidIs ==
    ASSUME TypeInv, NEW i \in DOMAIN kids
    PROVE  /\ kids[i] \in Kids /\ KidOK(kids[i])
           /\ kids[i].state \in States /\ kids[i].in \in Nat /\ kids[i].out \in Nat
           /\ Len(kids) \in Nat /\ DOMAIN kids = 1..Len(kids)
<1>1. kids[i] \in Kids /\ KidOK(kids[i]) /\ Len(kids) \in Nat /\ DOMAIN kids = 1..Len(kids)
  BY DEF TypeInv
<1> QED
  BY <1>1 DEF Kids, KidOf

(* One command moves.                                                         *)
LEMMA OneMoves ==
    ASSUME TypeInv, NEW i \in DOMAIN kids, NEW k, Keeps(k, kids[i]),
           kids' = [kids EXCEPT ![i] = k]
    PROVE  SameKids /\ kids'[i] = k
<1>1. k \in Kids /\ kids \in Seq(Kids)
  BY DEF Keeps, TypeInv
<1>2. kids' \in Seq(Kids) /\ Len(kids') = Len(kids) /\ kids'[i] = k
  <2> HIDE DEF Kids
  <2> QED
    BY <1>1
<1>3. ASSUME NEW j \in DOMAIN kids PROVE Keeps(kids'[j], kids[j])
  <2>1. CASE j = i
    BY <1>2, <2>1
  <2>2. CASE j # i
    <3>1. kids'[j] = kids[j]
      BY <2>2
    <3> QED
      BY <3>1, KidIs DEF Keeps, KidOK
  <2> QED
    BY <2>1, <2>2
<1> QED
  BY <1>2, <1>3 DEF SameKids

(* A command in another state is the same command.                            *)
LEMMA NewState ==
    ASSUME TypeInv, NEW i \in DOMAIN kids, NEW s \in States,
           kids[i].state = "reaped" => s = "reaped"
    PROVE  /\ Keeps([kids[i] EXCEPT !.state = s], kids[i])
           /\ [kids[i] EXCEPT !.state = s].state = s
<1>1. kids[i] \in Kids /\ KidOK(kids[i])
  BY KidIs
<1> DEFINE k == kids[i]
<1>2. PICK T, N, E, S : Kids = KidOf(T, N, E, S) /\ s \in S /\ k \in KidOf(T, N, E, S)
          /\ N = Nat
  BY <1>1 DEF Kids
<1>3. /\ [k EXCEPT !.state = s] \in KidOf(T, N, E, S)
      /\ [k EXCEPT !.state = s].in = k.in /\ [k EXCEPT !.state = s].out = k.out
      /\ [k EXCEPT !.state = s].ends = k.ends /\ [k EXCEPT !.state = s].left = k.left
      /\ [k EXCEPT !.state = s].state = s
  BY <1>2 DEF KidOf
<1> QED
  BY <1>1, <1>2, <1>3 DEF Keeps, KidOK

LEMMA LessLeft ==
    ASSUME TypeInv, NEW i \in DOMAIN kids, kids[i].left > 0
    PROVE  Keeps([kids[i] EXCEPT !.left = @ - 1], kids[i])
<1> DEFINE k == kids[i]
           l == k.left - 1
<1>1. k \in Kids /\ KidOK(k) /\ Amount \in Nat
  BY KidIs, PipeCommandsAssumption
<1>2. k.left \in 0..Amount /\ l \in 0..Amount /\ l \in Nat
  BY <1>1 DEF KidOK
<1>3. PICK T, N, E, S : Kids = KidOf(T, N, E, S) /\ k \in KidOf(T, N, E, S) /\ l \in N
  BY <1>1, <1>2 DEF Kids
<1> HIDE DEF l
<1>4. /\ [k EXCEPT !.left = l] \in KidOf(T, N, E, S)
      /\ [k EXCEPT !.left = l].in = k.in /\ [k EXCEPT !.left = l].out = k.out
      /\ [k EXCEPT !.left = l].ends = k.ends /\ [k EXCEPT !.left = l].left = l
      /\ [k EXCEPT !.left = l].state = k.state
  BY <1>3 DEF KidOf
<1>5. Keeps([k EXCEPT !.left = l], k)
  BY <1>2, <1>3, <1>4 DEF Keeps
<1> QED
  BY <1>5 DEF l

LEMMA Grouped ==
    ASSUME TypeInv, NEW i \in DOMAIN kids, kids[i].state = "forked"
    PROVE  Keeps([kids[i] EXCEPT !.state = "grouped", !.group = i], kids[i])
<1> DEFINE k == kids[i]
           x == [k EXCEPT !.state = "grouped", !.group = i]
<1>1. k \in Kids /\ KidOK(k) /\ i \in Nat
  BY KidIs
<1>2. PICK T, N, E, S, s : /\ Kids = KidOf(T, N, E, S) /\ k \in KidOf(T, N, E, S)
                           /\ i \in N /\ s \in S /\ s = "grouped"
  BY <1>1 DEF Kids, States
<1>3. LET y == [k EXCEPT !.state = s, !.group = i] IN
      /\ y \in KidOf(T, N, E, S)
      /\ y.in = k.in /\ y.out = k.out /\ y.ends = k.ends /\ y.left = k.left
  BY <1>2 DEF KidOf
<1> QED
  BY <1>1, <1>2, <1>3 DEF Keeps, KidOK

(* Whatever a command does, it does to itself and to the level of one pipe.   *)
LEMMA CommandStays ==
    ASSUME TypeInv, NEW i \in DOMAIN kids, CommandsOf(i)
    PROVE  /\ SameKids /\ UNCHANGED shellVars
           /\ level' \in Seq(0..Capacity) /\ Len(level') = Len(level)
<1>1. /\ kids[i] \in Kids /\ KidOK(kids[i])
      /\ level \in Seq(0..Capacity) /\ Len(level) = pipes /\ Capacity \in Nat
  BY KidIs, PipeCommandsAssumption DEF TypeInv
<1>2. ASSUME NEW s \in States \ {"reaped"}, Becomes(i, s), kids[i].state # "reaped"
      PROVE  SameKids
  <2> DEFINE k == [kids[i] EXCEPT !.state = s]
  <2>1. Keeps(k, kids[i])
    BY <1>2, NewState
  <2>2. kids' = [kids EXCEPT ![i] = k]
    BY <1>2 DEF Becomes
  <2> HIDE DEF k
  <2> QED
    BY <2>1, <2>2, OneMoves
<1>3. UNCHANGED kids => SameKids
  <2> SUFFICES ASSUME UNCHANGED kids PROVE SameKids
    OBVIOUS
  <2>1. \A j \in DOMAIN kids : Keeps(kids[j], kids[j])
    BY KidIs DEF Keeps, KidOK
  <2> QED
    BY <2>1 DEF SameKids, TypeInv
<1>4. ASSUME NEW p \in 1..pipes, NEW n \in 0..Capacity, level' = [level EXCEPT ![p] = n]
      PROVE  level' \in Seq(0..Capacity) /\ Len(level') = Len(level)
  BY <1>1, <1>4
<1>5. CASE finish(i)
  <2>1. Becomes(i, "ended") /\ kids[i].state # "reaped" /\ UNCHANGED <<shellVars, level>>
    BY <1>5 DEF finish
  <2> QED
    BY <1>1, <1>2, <2>1 DEF States
<1>6. CASE exec(i)
  <2>1. PICK s \in {"running", "ended"} : Becomes(i, s)
    BY <1>6 DEF exec
  <2>2. kids[i].state # "reaped" /\ UNCHANGED <<shellVars, level>>
    BY <1>6 DEF exec
  <2> QED
    BY <1>1, <1>2, <2>1, <2>2 DEF States
<1>7. CASE write(i)
  <2> DEFINE k == [kids[i] EXCEPT !.left = @ - 1]
             p == kids[i].out
  <2>1. kids[i].left > 0 /\ UNCHANGED shellVars
    BY <1>7 DEF write
  <2>2. Keeps(k, kids[i])
    BY <2>1, LessLeft
  <2>3. kids' = [kids EXCEPT ![i] = k]
    BY <1>7 DEF write
  <2> HIDE DEF k
  <2>4. SameKids
    BY <2>2, <2>3, OneMoves
  <2>5. CASE UNCHANGED level
    BY <1>1, <2>1, <2>4, <2>5
  <2>6. CASE p # Tty /\ level[p] < Capacity /\ level' = [level EXCEPT ![p] = level[p] + 1]
    <3>1. p \in 1..pipes /\ level[p] \in 0..Capacity
      BY <1>1, <2>6 DEF KidOK, Tty
    <3>2. level[p] + 1 \in 0..Capacity
      BY <1>1, <2>6, <3>1
    <3> QED
      BY <1>4, <2>1, <2>4, <2>6, <3>1, <3>2
  <2> QED
    BY <1>7, <2>5, <2>6 DEF write
<1>8. CASE read(i)
  <2> DEFINE p == kids[i].in
  <2>1. kids[i].state # "reaped" /\ UNCHANGED shellVars
    BY <1>8 DEF read
  <2>2. UNCHANGED kids \/ \E s \in {"ended", "stopped"} : Becomes(i, s)
    BY <1>8 DEF read
  <2>3. SameKids
    BY <1>2, <1>3, <2>1, <2>2 DEF States
  <2>4. CASE UNCHANGED level
    BY <1>1, <2>1, <2>3, <2>4
  <2>5. CASE p # Tty /\ level[p] > 0 /\ level' = [level EXCEPT ![p] = level[p] - 1]
    <3>1. p \in 1..pipes /\ level[p] \in 0..Capacity
      BY <1>1, <2>5 DEF KidOK, Tty
    <3>2. level[p] - 1 \in 0..Capacity
      BY <1>1, <2>5, <3>1
    <3> QED
      BY <1>4, <2>1, <2>3, <2>5, <3>1, <3>2
  <2> QED
    BY <1>8, <2>4, <2>5 DEF read
<1>9. CASE executeHelper_child(i)
  <2> DEFINE k == [kids[i] EXCEPT !.state = "grouped", !.group = i]
  <2>1. kids[i].state = "forked" /\ UNCHANGED <<shellVars, level>>
    BY <1>9 DEF executeHelper_child
  <2>2. Keeps(k, kids[i])
    BY <2>1, Grouped
  <2>3. kids' = [kids EXCEPT ![i] = k]
    BY <1>9 DEF executeHelper_child
  <2> HIDE DEF k
  <2>4. SameKids
    BY <2>2, <2>3, OneMoves
  <2> QED
    BY <1>1, <2>1, <2>4
<1> QED
  BY <1>5, <1>6, <1>7, <1>8, <1>9 DEF CommandsOf, CommandStep

(* What follows for the commands taken together.                              *)
LEMMA MadeMore ==
    ASSUME pipes \in Nat, pipes' \in Nat, pipes <= pipes'
    PROVE  Made \subseteq Made'
<1>1. 1..pipes \subseteq 1..pipes'
  OBVIOUS
<1> QED
  BY <1>1 DEF Made

LEMMA SameIs ==
    ASSUME TypeInv, SameKids, pipes' \in Nat, pipes <= pipes'
    PROVE  /\ kids' \in Seq(Kids) /\ Len(kids') = Len(kids) /\ DOMAIN kids' = DOMAIN kids
           /\ \A i \in DOMAIN kids' : KidOK(kids[i])'
           /\ Unreaped' \subseteq Unreaped /\ \A p : Unused(p)' <=> Unused(p)
<1>1. kids' \in Seq(Kids) /\ Len(kids') = Len(kids) /\ DOMAIN kids' = DOMAIN kids
  BY DEF SameKids, TypeInv
<1>2. \A i \in DOMAIN kids : Keeps(kids'[i], kids[i]) /\ KidOK(kids[i])
  BY DEF SameKids, TypeInv
<1>3. pipes \in Nat /\ Made \subseteq Made'
  BY MadeMore DEF TypeInv
<1>4. ASSUME NEW i \in DOMAIN kids' PROVE KidOK(kids[i])'
  <2>1. Keeps(kids'[i], kids[i]) /\ KidOK(kids[i])
    BY <1>1, <1>2
  <2> QED
    BY <1>3, <2>1 DEF Keeps, KidOK
<1>5. Unreaped' \subseteq Unreaped
  BY <1>1, <1>2 DEF Unreaped, Keeps
<1>6. ASSUME NEW p PROVE Unused(p)' <=> Unused(p)
  BY <1>1, <1>2 DEF Unused, Keeps
<1> QED
  BY <1>1, <1>4, <1>5, <1>6

LEMMA NewKid ==
    ASSUME TypeInv, NEW k \in Kids, KidOK(k), kids' = Append(kids, k), UNCHANGED pipes
    PROVE  /\ kids' \in Seq(Kids) /\ Len(kids') = Len(kids) + 1
           /\ \A i \in DOMAIN kids' : KidOK(kids[i])'
           /\ \A i \in DOMAIN kids : i \in DOMAIN kids' /\ kids'[i] = kids[i]
           /\ Unreaped' \subseteq Unreaped \cup {Len(kids) + 1}
           /\ \A p : Unused(p) /\ p # k.in /\ p # k.out => Unused(p)'
<1>1. kids \in Seq(Kids) /\ Len(kids) \in Nat /\ DOMAIN kids = 1..Len(kids)
  BY DEF TypeInv
<1>2. /\ kids' \in Seq(Kids) /\ Len(kids') = Len(kids) + 1 /\ DOMAIN kids' = 1..(Len(kids) + 1)
      /\ kids'[Len(kids) + 1] = k /\ \A i \in DOMAIN kids : kids'[i] = kids[i]
  <2> HIDE DEF Kids
  <2> QED
    BY <1>1
<1>3. \A i \in DOMAIN kids' : i \in DOMAIN kids \/ i = Len(kids) + 1
  BY <1>1, <1>2
<1>4. ASSUME NEW i \in DOMAIN kids' PROVE KidOK(kids[i])'
  <2>1. KidOK(kids'[i])
    BY <1>2, <1>3 DEF TypeInv
  <2> QED
    BY <2>1 DEF KidOK, Made
<1>5. Unreaped' \subseteq Unreaped \cup {Len(kids) + 1}
  BY <1>2, <1>3 DEF Unreaped
<1>6. ASSUME NEW p, Unused(p), p # k.in, p # k.out PROVE Unused(p)'
  BY <1>2, <1>3, <1>6 DEF Unused
<1> QED
  BY <1>1, <1>2, <1>3, <1>4, <1>5, <1>6

(* A child, as fork makes it.                                                 *)
LEMMA KidMade ==
    ASSUME TypeInv, NEW name \in Words, NEW in \in 0..pipes, NEW out \in 0..pipes,
           NEW state \in States
    PROVE  /\ Kid(name, in, out, state) \in Kids /\ KidOK(Kid(name, in, out, state))
           /\ Kid(name, in, out, state).in = in /\ Kid(name, in, out, state).out = out
<1> DEFINE l == IF name = "writer" THEN Amount ELSE 0
           k == Kid(name, in, out, state)
<1>1. /\ l \in 0..Amount /\ l \in Nat /\ group \in Nat /\ in \in Nat /\ out \in Nat
      /\ ends \subseteq Made /\ pipes \in Nat
  BY PipeCommandsAssumption DEF TypeInv
<1>2. ends \subseteq AnyEnd
  BY <1>1 DEF Made, AnyEnd
<1>3. k = [name |-> name, in |-> in, out |-> out, ends |-> ends, group |-> group,
           state |-> state, left |-> l]
  BY DEF Kid
<1> HIDE DEF l, k
<1>4. k \in Kids
  BY <1>1, <1>2, <1>3 DEF Kids, KidOf
<1>5. k.in = in /\ k.out = out /\ k.ends = ends /\ k.left = l
  BY <1>3
<1>6. KidOK(k)
  BY <1>1, <1>5 DEF KidOK
<1> QED
  BY <1>4, <1>5, <1>6 DEF k

(* waitpid: the child asked for is collected, or any that has ended.          *)
LEMMA WaitedIs ==
    ASSUME TypeInv, NEW c \in 0..Len(kids), Waited(c)
    PROVE  /\ SameKids
           /\ c # 0 => kids'[c].state = "reaped"
           /\ c = 0 => \/ Unreaped = {}
                       \/ \E i \in Unreaped : kids'[i].state = "reaped"
<1>1. Len(kids) \in Nat /\ DOMAIN kids = 1..Len(kids)
  BY DEF TypeInv
<1>2. ASSUME NEW i \in DOMAIN kids, Becomes(i, "reaped")
      PROVE  SameKids /\ kids'[i].state = "reaped"
  <2>1. PICK s \in States : s = "reaped"
    BY DEF States
  <2> DEFINE k == [kids[i] EXCEPT !.state = s]
  <2>2. Keeps(k, kids[i]) /\ k.state = s
    BY <2>1, NewState
  <2>3. kids' = [kids EXCEPT ![i] = k]
    BY <1>2, <2>1 DEF Becomes
  <2> HIDE DEF k
  <2> QED
    BY <2>1, <2>2, <2>3, OneMoves
<1>3. CASE c # 0
  <2>1. c \in DOMAIN kids /\ Becomes(c, "reaped")
    BY <1>1, <1>3 DEF Waited
  <2> QED
    BY <1>2, <1>3, <2>1
<1>4. CASE c = 0
  <2>1. CASE \E i \in DOMAIN kids : kids[i].state = "ended" /\ Becomes(i, "reaped")
    BY <1>2, <1>4, <2>1 DEF Unreaped
  <2>2. CASE (\A i \in DOMAIN kids : kids[i].state = "reaped") /\ UNCHANGED kids
    <3>1. \A j \in DOMAIN kids : Keeps(kids[j], kids[j])
      BY KidIs DEF Keeps, KidOK
    <3> QED
      BY <1>4, <2>2, <3>1 DEF SameKids, TypeInv, Unreaped
  <2> QED
    BY <1>4, <2>1, <2>2 DEF Waited
<1> QED
  BY <1>3, <1>4

-----------------------------------------------------------------------------
(* What is read: tokens, and the commands among them.                         *)

LEMMA FirstPlace ==
    ASSUME NEW S, NEW s \in Seq(S), NEW I, I \subseteq 1..Len(s)
    PROVE  (IF I # {} THEN Min(I) ELSE 0) \in 0..Len(s)
<1>1. Len(s) \in Nat /\ I \subseteq Nat
  OBVIOUS
<1>2. I # {} => Min(I) \in I
  BY <1>1, MinIsSmallest
<1>3. CASE I # {}
  <2> DEFINE m == Min(I)
  <2>1. m \in I
    BY <1>2, <1>3
  <2> HIDE DEF m
  <2>2. m \in 0..Len(s)
    BY <1>1, <2>1
  <2> QED
    BY <1>3, <2>2 DEF m
<1>4. CASE I = {}
  BY <1>1, <1>4
<1> QED
  BY <1>3, <1>4

LEMMA TakenIs ==
    ASSUME TypeInv, NEW n \in Nat
    PROVE  /\ Taken(n) \in 0..Len(buffer)
           /\ SubSeq(buffer, 1, Taken(n)) \in Seq(STRING)
           /\ SubSeq(buffer, Taken(n) + 1, Len(buffer)) \in Seq(STRING)
<1> DEFINE I == {i \in 1..Len(buffer) : buffer[i] = "nl"}
           z == IF I # {} THEN Min(I) ELSE 0
<1>1. buffer \in Seq(STRING) /\ Len(buffer) \in Nat
  BY DEF TypeInv
<1>2. z \in 0..Len(buffer)
  BY <1>1, FirstPlace
<1>3. Taken(n) = IF z <= n THEN z ELSE n
  BY DEF Taken, SelectInSeq
<1> HIDE DEF z
<1>4. Taken(n) \in 0..Len(buffer)
  BY <1>1, <1>2, <1>3
<1> HIDE DEF Taken
<1> QED
  BY <1>1, <1>4

LEMMA OneMore ==
    ASSUME NEW S, NEW s \in Seq(S), NEW e \in S
    PROVE  s \o <<e>> \in Seq(S) /\ Len(s \o <<e>>) = Len(s) + 1
<1>1. s \o <<e>> = Append(s, e)
  OBVIOUS
<1> QED
  BY <1>1

LEMMA CommandsAre ==
    ASSUME NEW s \in Seq(STRING)
    PROVE  Commands(s) \in Seq(STRING)
<1> DEFINE t == s \o <<"nl">>
           I == {i \in 1..Len(t) : t[i] \in {"&", "nl"}}
           cut == Cut(s)
           parsed == {n \in 0..(cut \div 2) : \A i \in 1..n : s[2 * i - 1] # "|"}
           m == Max(parsed)
<1>1. t \in Seq(STRING \cup {"nl"}) /\ Len(t) = Len(s) + 1 /\ Len(s) \in Nat
  <2> DEFINE S == STRING \cup {"nl"}
  <2>1. s \in Seq(S) /\ "nl" \in S
    OBVIOUS
  <2> HIDE DEF S
  <2>2. t \in Seq(S) /\ Len(t) = Len(s) + 1
    BY <2>1, OneMore
  <2> QED
    BY <2>2 DEF S
<1>2. cut = IF I # {} THEN Min(I) ELSE 0
  BY DEF Cut, SelectInSeq
<1>3. cut \in 0..(Len(s) + 1)
  <2>1. I \subseteq 1..Len(t)
    OBVIOUS
  <2> HIDE DEF I, t, cut
  <2>2. cut \in 0..Len(t)
    BY <1>1, <1>2, <2>1, FirstPlace
  <2> QED
    BY <1>1, <2>2
<1> HIDE DEF cut
<1>4. /\ cut \div 2 \in Nat /\ 2 * (cut \div 2) <= Len(s) + 1
  BY <1>1, <1>3
<1>5. 0 \in parsed /\ parsed \subseteq Nat /\ \A n \in parsed : n <= cut \div 2
  BY <1>4
<1>6. m \in parsed
  <2> HIDE DEF parsed
  <2> QED
    BY <1>4, <1>5, MaxIsLargest
<1> HIDE DEF m
<1>7. m \in Nat /\ m <= cut \div 2
  <2> HIDE DEF parsed
  <2> QED
    BY <1>5, <1>6
<1>8. Commands(s) = [i \in 1..m |-> s[2 * i - 1]]
  BY DEF Commands, cut, m
<1>9. ASSUME NEW i \in 1..m PROVE s[2 * i - 1] \in STRING
  <2>1. 2 * i - 1 \in 1..Len(s)
    BY <1>1, <1>4, <1>7
  <2> QED
    BY <2>1
<1> QED
  BY <1>7, <1>8, <1>9

-----------------------------------------------------------------------------
(* The jobs of lab4.                                                          *)

Numbered(jobs) == \A j \in DOMAIN jobs : jobs[j].idx = j /\ jobs[j].status = "Running"

LEMMA AddJobIs ==
    ASSUME TypeInv, FoundByNumber, NEW c \in STRING
    PROVE  add_job(c) \in Seq(Jobs) /\ Numbered(add_job(c))
<1> DEFINE n == Len(list) + 1
           x == Job(c, n)
<1>1. list \in Seq(Jobs) /\ n \in Nat /\ DOMAIN list = 1..Len(list)
  BY DEF TypeInv
<1> HIDE DEF n
<1>2. x \in Jobs /\ x.idx = n /\ x.status = "Running"
  <2>1. PICK s \in {"Running", "Done"} : s = "Running"
    OBVIOUS
  <2>2. x = [cmd |-> c, idx |-> n, status |-> s]
    BY <2>1 DEF Job
  <2> QED
    BY <1>1, <2>1, <2>2 DEF Jobs
<1> HIDE DEF x
<1>3. add_job(c) = Append(list, x)
  BY DEF add_job, x, n
<1>4. add_job(c) \in Seq(Jobs) /\ Len(add_job(c)) = n /\ add_job(c)[n] = x
      /\ DOMAIN add_job(c) = 1..n
      /\ \A j \in 1..Len(list) : add_job(c)[j] = list[j]
  <2> HIDE DEF Jobs
  <2> QED
    BY <1>1, <1>2, <1>3 DEF n
<1> QED
  BY <1>1, <1>2, <1>4 DEF n, FoundByNumber, Numbered

(* jobs empties the list.                                                     *)
LEMMA PrintJobsIs ==
    ASSUME NEW jobs \in Seq(Jobs)
    PROVE  print_jobs(jobs) = <<>>
<1> DEFINE u == update_job_list(jobs)
           kept == {j \in DOMAIN u : u[j].status # "Done"}
<1>1. ASSUME NEW j \in DOMAIN u PROVE u[j].status = "Done"
  <2>1. j \in DOMAIN jobs /\ u[j] = [jobs[j] EXCEPT !.status = "Done"]
    BY DEF update_job_list
  <2>2. jobs[j] \in Jobs
    <3> HIDE DEF Jobs
    <3> QED
      BY <2>1
  <2> QED
    BY <2>1, <2>2 DEF Jobs
<1> HIDE DEF u
<1>2. kept = {} /\ Cardinality(kept) = 0
  BY <1>1, FS_EmptySet
<1> DEFINE n == Cardinality(kept)
<1>3. n = 0
  BY <1>2
<1> DEFINE place(j) == Cardinality({i \in kept : i <= j})
           f == [k \in 1..n |-> u[CHOOSE j \in kept : place(j) = k]]
<1>4. print_jobs(jobs) = f
  BY DEF print_jobs, u
<1>5. DOMAIN f = {} /\ f = [i \in {} |-> f[i]]
  <2> HIDE DEF kept, n
  <2> QED
    BY <1>3
<1> QED
  BY <1>4, <1>5

-----------------------------------------------------------------------------
(* Steps that leave the shell where it is, or end it at the prompt.           *)

LEMMA UnusedIs ==
    ASSUME UNCHANGED kids
    PROVE  Unreaped' = Unreaped /\ \A p : Unused(p)' <=> Unused(p)
  BY DEF Unreaped, Unused

LEMMA SameKidsIfUnchanged ==
    ASSUME TypeInv, UNCHANGED kids
    PROVE  SameKids
<1>1. \A j \in DOMAIN kids : Keeps(kids[j], kids[j])
  BY KidIs DEF Keeps, KidOK
<1> QED
  BY <1>1 DEF SameKids, TypeInv

(* The last child waited for is still collected.                              *)
LEMMA LastChild ==
    ASSUME TypeInv, SameKids, UNCHANGED child, child # <<>>, child[1] # 0,
           kids[child[1]].state = "reaped"
    PROVE  kids'[child'[1]].state = "reaped"
<1>1. 1 \in DOMAIN child /\ child[1] \in Nat /\ Len(kids) \in Nat
      /\ DOMAIN kids = 1..Len(kids)
  BY EmptySeq DEF TypeInv
<1>2. child[1] \in DOMAIN kids
  BY <1>1 DEF TypeInv
<1> QED
  BY <1>2 DEF SameKids, Keeps

(* The shell does nothing, or reads and launches nothing.                     *)
Rests ==
    /\ UNCHANGED <<lab, stages, stage, child, ends, pipes, group, blocking>>
    /\ \/ UNCHANGED pc
       \/ pc = "prompt" /\ pc' \in {"ended", "crashed", "undefined"}
    /\ SameKids /\ level' \in Seq(0..Capacity) /\ Len(level') = Len(level)
    /\ buffer' \in Seq(STRING) /\ list' \in Seq(Jobs) /\ Numbered(list')

LEMMA RestsKeeps ==
    ASSUME IInv, Rests
    PROVE  IInv'
<1>1. TypeInv /\ pipes \in Nat
  BY DEF IInv, TypeInv
<1>2. /\ kids' \in Seq(Kids) /\ Len(kids') = Len(kids) /\ DOMAIN kids' = DOMAIN kids
      /\ \A i \in DOMAIN kids' : KidOK(kids[i])'
      /\ Unreaped' \subseteq Unreaped /\ \A p : Unused(p)' <=> Unused(p)
  <2>1. SameKids /\ pipes' \in Nat /\ pipes <= pipes'
    BY <1>1 DEF Rests
  <2> QED
    BY <1>1, <2>1, SameIs
<1>3. TypeInv'
  <2>1. pc' \in Pcs
    BY <1>1 DEF Rests, TypeInv, Pcs
  <2>2. Made' = Made
    BY DEF Made, Rests
  <2> QED
    BY <1>1, <1>2, <2>1, <2>2 DEF TypeInv, Rests
<1>4. LaunchOK'
  BY DEF IInv, LaunchOK, Rests, Launching
<1>5. EndsOK'
  <2>1. In' = In /\ Out' = Out /\ HasNext' = HasNext
    BY DEF In, Out, HasNext, Rests
  <2>2. Launching' = Launching
    BY DEF Launching, Rests
  <2>3. pc' \in {"parent", "wait"} <=> pc \in {"parent", "wait"}
    BY DEF Rests
  <2> QED
    BY <1>2, <2>1, <2>2, <2>3 DEF IInv, EndsOK, Rests
<1>6. WaitOK'
  <2>1. CASE lab = "lab3"
    BY <1>2, <2>1 DEF IInv, WaitOK, Rests
  <2>2. CASE lab # "lab3"
    <3>1. ASSUME pc' = "prompt", blocking', child' # <<>>, child'[1] # 0, lab = "lab4"
          PROVE  kids'[child'[1]].state = "reaped"
      <4>1. kids[child[1]].state = "reaped"
        BY <3>1 DEF IInv, WaitOK, Rests
      <4> QED
        BY <1>1, <3>1, <4>1, LastChild DEF Rests
    <3> QED
      BY <2>2, <3>1 DEF IInv, WaitOK, Rests
  <2> QED
    BY <2>1, <2>2
<1>7. FoundByNumber'
  BY DEF Rests, Numbered, FoundByNumber
<1> QED
  BY <1>3, <1>4, <1>5, <1>6, <1>7 DEF IInv

LEMMA CommandsKeep ==
    ASSUME IInv, NEW i \in DOMAIN kids, CommandsOf(i)
    PROVE  IInv'
<1>1. TypeInv /\ Numbered(list)
  BY DEF IInv, Numbered, FoundByNumber
<1>2. /\ SameKids /\ UNCHANGED shellVars
      /\ level' \in Seq(0..Capacity) /\ Len(level') = Len(level)
  BY <1>1, CommandStays
<1>3. Rests
  BY <1>1, <1>2 DEF Rests, shellVars, TypeInv, Numbered
<1> QED
  BY <1>3, RestsKeeps

LEMMA TypeKeeps ==
    ASSUME IInv, Type
    PROVE  IInv'
<1>1. TypeInv /\ Numbered(list)
  BY DEF IInv, Numbered, FoundByNumber
<1>2. buffer' \in Seq(STRING)
  BY PipeCommandsAssumption DEF Type
<1>3. SameKids
  BY <1>1, SameKidsIfUnchanged DEF Type
<1>4. Rests
  BY <1>1, <1>2, <1>3 DEF Rests, Type, TypeInv, Numbered
<1> QED
  BY <1>4, RestsKeeps

LEMMA CollectedIs ==
    ASSUME TypeInv, kids' = Collected
    PROVE  SameKids
<1>1. kids \in Seq(Kids) /\ DOMAIN kids = 1..Len(kids) /\ Len(kids) \in Nat
  BY DEF TypeInv
<1>2. ASSUME NEW i \in DOMAIN kids PROVE Keeps(kids'[i], kids[i])
  <2>1. kids'[i] = IF i \in Own THEN [kids[i] EXCEPT !.state = "reaped"] ELSE kids[i]
    BY <1>2 DEF Collected
  <2>2. Keeps(kids[i], kids[i])
    BY <1>2, KidIs DEF Keeps, KidOK
  <2>3. Keeps([kids[i] EXCEPT !.state = "reaped"], kids[i])
    BY <1>2, NewState DEF States
  <2> QED
    BY <2>1, <2>2, <2>3
<1>3. kids' = [i \in 1..Len(kids) |-> kids'[i]]
  BY <1>1 DEF Collected
<1>4. \A i \in 1..Len(kids) : kids'[i] \in Kids
  BY <1>1, <1>2 DEF Keeps
<1>5. kids' \in Seq(Kids) /\ Len(kids') = Len(kids)
  <2> HIDE DEF Kids
  <2> QED
    BY <1>1, <1>3, <1>4
<1> QED
  BY <1>2, <1>5 DEF SameKids

-----------------------------------------------------------------------------
(* The shell of lab4.                                                         *)

(* It starts on a line of commands.                                           *)
Launches ==
    /\ lab = "lab4" /\ pc = "prompt" /\ pc' = "fork"
    /\ stages' \in Seq(STRING) /\ stages' # <<>> /\ stage' = 1
    /\ buffer' \in Seq(STRING) /\ list' \in Seq(Jobs) /\ Numbered(list')
    /\ IF Len(stages') > 1
       THEN /\ pipes' = pipes + 1 /\ level' = Append(level, 0)
            /\ ends' = ends \cup {R(pipes + 1), W(pipes + 1)}
       ELSE UNCHANGED <<pipes, level, ends>>
    /\ UNCHANGED <<lab, child, group, kids>>

(* A pipe more.                                                               *)
MakesPipe(kept) ==
    /\ pipes' = pipes + 1 /\ level' = Append(level, 0)
    /\ ends' = kept \cup {R(pipes + 1), W(pipes + 1)}

LEMMA PipeMore ==
    ASSUME TypeInv, NEW kept \in SUBSET ends, MakesPipe(kept)
    PROVE  /\ pipes' \in Nat /\ pipes <= pipes'
           /\ level' \in Seq(0..Capacity) /\ Len(level') = pipes' /\ ends' \subseteq Made'
           /\ \A p \in 1..pipes' :
                 /\ W(p) \in ends' => p = pipes + 1 \/ (p \in 1..pipes /\ W(p) \in kept)
                 /\ R(p) \in ends' => p = pipes + 1 \/ (p \in 1..pipes /\ R(p) \in kept)
<1>1. /\ pipes \in Nat /\ level \in Seq(0..Capacity) /\ Len(level) = pipes
      /\ ends \subseteq Made /\ 0 \in 0..Capacity
  BY PipeCommandsAssumption DEF TypeInv
<1>2. pipes' \in Nat /\ pipes <= pipes' /\ pipes' = pipes + 1
  BY <1>1 DEF MakesPipe
<1>3. level' \in Seq(0..Capacity) /\ Len(level') = pipes'
  BY <1>1, <1>2 DEF MakesPipe
<1>4. kept \subseteq Made'
  BY <1>1, <1>2, MadeMore
<1>5. R(pipes + 1) \in Made' /\ W(pipes + 1) \in Made'
  <2>1. pipes + 1 \in 1..pipes'
    BY <1>1, <1>2
  <2> QED
    BY <2>1 DEF Made
<1>6. ends' \subseteq Made'
  BY <1>4, <1>5 DEF MakesPipe
<1>7. ASSUME NEW p \in 1..pipes'
      PROVE  /\ W(p) \in ends' => p = pipes + 1 \/ (p \in 1..pipes /\ W(p) \in kept)
             /\ R(p) \in ends' => p = pipes + 1 \/ (p \in 1..pipes /\ R(p) \in kept)
  <2>1. p = pipes + 1 \/ p \in 1..pipes
    BY <1>1, <1>2
  <2>2. /\ R(p) = R(pipes + 1) => p = pipes + 1
        /\ W(p) = W(pipes + 1) => p = pipes + 1
        /\ R(p) # W(pipes + 1) /\ W(p) # R(pipes + 1)
    BY DEF R, W
  <2> QED
    BY <2>1, <2>2 DEF MakesPipe
<1> QED
  BY <1>2, <1>3, <1>6, <1>7

(* No command has a pipe that is made only now.                               *)
LEMMA NewUnused ==
    ASSUME TypeInv
    PROVE  Unused(pipes + 1)
<1>1. pipes \in Nat
  BY DEF TypeInv
<1>2. \A i \in DOMAIN kids : kids[i].in \in 0..pipes /\ kids[i].out \in 0..pipes
  BY DEF TypeInv, KidOK
<1> QED
  BY <1>1, <1>2 DEF Unused

LEMMA LaunchesKeeps ==
    ASSUME IInv, Launches
    PROVE  IInv'
<1>1. TypeInv /\ pipes \in Nat
  BY DEF IInv, TypeInv
<1>2. SameKids
  BY <1>1, SameKidsIfUnchanged DEF Launches
<1>3. stage' = 1 /\ stage' \in 1..Len(stages')
  BY DEF Launches
<1>4. CASE Len(stages') > 1
  <2>1. MakesPipe(ends)
    BY <1>4 DEF Launches, MakesPipe
  <2>2. /\ pipes' \in Nat /\ pipes <= pipes' /\ pipes' = pipes + 1
        /\ level' \in Seq(0..Capacity) /\ Len(level') = pipes' /\ ends' \subseteq Made'
        /\ \A p \in 1..pipes' :
              /\ W(p) \in ends' => p = pipes + 1 \/ (p \in 1..pipes /\ W(p) \in ends)
              /\ R(p) \in ends' => p = pipes + 1 \/ (p \in 1..pipes /\ R(p) \in ends)
    BY <1>1, <2>1, PipeMore DEF MakesPipe
  <2>3. /\ kids' \in Seq(Kids) /\ Len(kids') = Len(kids)
        /\ \A i \in DOMAIN kids' : KidOK(kids[i])'
        /\ \A p : Unused(p)' <=> Unused(p)
    BY <1>1, <1>2, <2>2, SameIs
  <2>4. TypeInv'
    BY <1>1, <2>2, <2>3 DEF Launches, TypeInv, Pcs
  <2>5. Out' = pipes + 1
    BY <1>4, <2>2 DEF Out
  <2>6. EndsOK'
    <3> SUFFICES ASSUME NEW p \in 1..pipes'
                 PROVE  /\ W(p) \in ends' => p = Out'
                        /\ R(p) \in ends' => Unused(p)'
      BY DEF EndsOK, Launches, Launching
    <3>1. W(p) \in ends' => p = pipes + 1
      BY <2>2 DEF IInv, EndsOK, Launches, Launching
    <3>2. R(p) \in ends' => Unused(p)
      BY <1>1, <2>2, NewUnused DEF IInv, EndsOK, Launches, Launching
    <3> QED
      BY <2>3, <2>5, <3>1, <3>2
  <2>7. LaunchOK'
    BY <1>1, <1>4, <1>3, <2>2 DEF LaunchOK, Launches
  <2> QED
    BY <2>4, <2>6, <2>7 DEF IInv, WaitOK, FoundByNumber, Numbered, Launches
<1>5. CASE ~ (Len(stages') > 1)
  <2>1. UNCHANGED <<pipes, level, ends>>
    BY <1>5 DEF Launches
  <2>2. /\ kids' \in Seq(Kids) /\ Len(kids') = Len(kids)
        /\ \A i \in DOMAIN kids' : KidOK(kids[i])'
        /\ \A p : Unused(p)' <=> Unused(p)
    BY <1>1, <1>2, <2>1, SameIs
  <2>3. TypeInv'
    <3>1. Made' = Made
      BY <2>1 DEF Made
    <3> QED
      BY <1>1, <2>1, <2>2, <3>1 DEF Launches, TypeInv, Pcs
  <2>4. EndsOK'
    BY <2>1, <2>2 DEF IInv, EndsOK, Launches, Launching
  <2>5. LaunchOK'
    BY <1>1, <1>5, <1>3, <2>1 DEF LaunchOK, Launches
  <2> QED
    BY <2>3, <2>4, <2>5 DEF IInv, WaitOK, FoundByNumber, Numbered, Launches
<1> QED
  BY <1>4, <1>5

(* One turn of the loop of main.                                              *)
LEMMA Lab4ReadKeeps ==
    ASSUME IInv, lab4_read
    PROVE  IInv'
<1> DEFINE n == Taken(Chunk)
           tokens == SubSeq(buffer, 1, n)
           commands == Commands(tokens)
           jobs == add_job(Head(buffer))
<1>1. TypeInv /\ FoundByNumber /\ Chunk \in Nat
  BY PipeShellAssumption DEF IInv
<1>2. tokens \in Seq(STRING) /\ SubSeq(buffer, n + 1, Len(buffer)) \in Seq(STRING)
  BY <1>1, TakenIs
<1>3. commands \in Seq(STRING)
  BY <1>2, CommandsAre
<1>4. Head(buffer) \in STRING
  <2>1. buffer \in Seq(STRING) /\ buffer # <<>>
    BY <1>1 DEF TypeInv, lab4_read
  <2> QED
    BY <2>1
<1>5. jobs \in Seq(Jobs) /\ Numbered(jobs)
  BY <1>1, <1>4, AddJobIs
<1>6. /\ lab = "lab4" /\ pc = "prompt" /\ buffer' \in Seq(STRING)
      /\ UNCHANGED <<lab, typed, child, group>>
  BY <1>2 DEF lab4_read
<1>7. level \in Seq(0..Capacity) /\ Len(level) = pipes
  BY <1>1 DEF TypeInv
<1>8. ASSUME UNCHANGED <<stages, stage, blocking, ends, pipes, level>>, SameKids,
             pc' \in {"prompt", "ended", "crashed", "undefined"},
             list' \in Seq(Jobs), Numbered(list')
      PROVE  IInv'
  <2>1. Rests
    BY <1>6, <1>7, <1>8 DEF Rests
  <2> QED
    BY <2>1, RestsKeeps
<1>9. UNCHANGED kids => SameKids
  BY <1>1, SameKidsIfUnchanged
<1>10. <<>> \in Seq(Jobs) /\ Numbered(<<>>)
  BY DEF Numbered
<1>11. CASE tokens = <<"quit", "nl">> /\ pc' = "ended" /\ list' = <<>>
            /\ UNCHANGED <<stages, stage, blocking, ends, pipes, level, kids>>
  BY <1>8, <1>9, <1>10, <1>11
<1>12. CASE list' = print_jobs(jobs) /\ kids' = Collected
            /\ UNCHANGED <<pc, stages, stage, blocking, ends, pipes, level>>
  <2>1. list' = <<>>
    BY <1>5, <1>12, PrintJobsIs
  <2>2. SameKids
    BY <1>1, <1>12, CollectedIs
  <2> QED
    BY <1>6, <1>8, <1>10, <1>12, <2>1, <2>2
<1>13. CASE /\ pc' \in {"prompt", "crashed", "undefined"} /\ list' = jobs
            /\ UNCHANGED <<stages, stage, blocking, ends, pipes, level, kids>>
  BY <1>5, <1>8, <1>9, <1>13
<1>14. CASE /\ list' = jobs /\ pc' = "fork" /\ stages' = commands /\ stage' = 1
            /\ commands # <<>> /\ UNCHANGED kids
            /\ IF Len(commands) > 1
               THEN /\ pipes' = pipes + 1 /\ level' = Append(level, 0)
                    /\ ends' = ends \cup {R(pipes + 1), W(pipes + 1)}
               ELSE UNCHANGED <<pipes, level, ends>>
  <2> HIDE DEF commands, jobs
  <2>1. Launches
    BY <1>3, <1>5, <1>6, <1>14 DEF Launches
  <2> QED
    BY <2>1, LaunchesKeeps
<1>15. \/ /\ tokens = <<"quit", "nl">> /\ pc' = "ended" /\ list' = <<>>
          /\ UNCHANGED <<stages, stage, blocking, ends, pipes, level, kids>>
       \/ /\ list' = print_jobs(jobs) /\ kids' = Collected
          /\ UNCHANGED <<pc, stages, stage, blocking, ends, pipes, level>>
       \/ /\ pc' \in {"prompt", "crashed", "undefined"} /\ list' = jobs
          /\ UNCHANGED <<stages, stage, blocking, ends, pipes, level, kids>>
       \/ /\ list' = jobs /\ pc' = "fork" /\ stages' = commands /\ stage' = 1
          /\ commands # <<>> /\ UNCHANGED kids
          /\ IF Len(commands) > 1
             THEN /\ pipes' = pipes + 1 /\ level' = Append(level, 0)
                  /\ ends' = ends \cup {R(pipes + 1), W(pipes + 1)}
             ELSE UNCHANGED <<pipes, level, ends>>
  <2> HIDE DEF n
  <2> QED
    BY DEF lab4_read, n
<1> QED
  BY <1>11, <1>12, <1>13, <1>14, <1>15

(* The command at hand, and where it reads and writes.                        *)
LEMMA LaunchIs ==
    ASSUME IInv, lab = "lab4", Launching
    PROVE  /\ In \in 0..pipes /\ Out \in 0..pipes /\ (HasNext => Out = pipes /\ pipes >= 1)
           /\ In # pipes \/ In = Tty
<1>1. /\ stage \in Nat /\ pipes \in Nat /\ Len(stages) \in Nat
      /\ stage \in 1..Len(stages)
      /\ stage > 1 => Len(stages) > 1
      /\ Len(stages) > 1 => stage <= pipes
  BY DEF IInv, LaunchOK, TypeInv
<1> QED
  BY <1>1 DEF In, Out, HasNext, Tty

LEMMA ForkKeeps ==
    ASSUME IInv, executeHelper_fork
    PROVE  IInv'
<1>1. /\ TypeInv /\ lab = "lab4" /\ pc = "fork" /\ pc' = "parent" /\ Launching
      /\ UNCHANGED <<lab, typed, buffer, stages, stage, blocking, ends, pipes, level, group, list>>
  BY DEF IInv, executeHelper_fork, Launching
<1>2. In \in 0..pipes /\ Out \in 0..pipes
  BY <1>1, LaunchIs
<1>3. In' = In /\ Out' = Out /\ HasNext' = HasNext /\ Made' = Made
  BY <1>1 DEF In, Out, HasNext, Made
<1>4. LaunchOK'
  BY <1>1 DEF IInv, LaunchOK, Launching
<1>5. /\ FoundByNumber' /\ Launching'
  BY <1>1 DEF IInv, FoundByNumber, Launching
<1>6. ASSUME NEW c \in Nat, child' = <<c>>, c <= Len(kids'),
             kids' \in Seq(Kids), \A i \in DOMAIN kids' : KidOK(kids[i])',
             Len(kids) <= Len(kids'),
             \A p \in 1..pipes : Unused(p) => Unused(p)' \/ p = In \/ (HasNext /\ p = Out)
      PROVE  IInv'
  <2>1. child' \in Seq(Nat) /\ Len(child') = 1 /\ \A n \in DOMAIN child' : child'[n] <= Len(kids')
    BY <1>6
  <2>2. TypeInv'
    <3>1. Len(kids) \in Nat /\ Len(kids') \in Nat
      BY <1>1, <1>6 DEF TypeInv
    <3>2. group' \in 0..Len(kids')
      BY <1>1, <1>6, <3>1 DEF TypeInv
    <3> QED
      BY <1>1, <1>3, <1>6, <2>1, <3>2 DEF TypeInv, Pcs
  <2>3. EndsOK'
    <3> SUFFICES ASSUME NEW p \in 1..pipes
                 PROVE  /\ W(p) \in ends' => p = Out'
                        /\ R(p) \in ends' => Unused(p)' \/ p = In' \/ (HasNext' /\ p = Out')
      BY <1>1, <1>5 DEF EndsOK
    <3>1. W(p) \in ends => p = Out
      BY <1>1 DEF IInv, EndsOK
    <3>2. R(p) \in ends => Unused(p) \/ p = In
      BY <1>1 DEF IInv, EndsOK
    <3> QED
      BY <1>1, <1>3, <1>6, <3>1, <3>2
  <2>4. WaitOK'
    BY <1>1, <2>1 DEF WaitOK
  <2> QED
    BY <1>4, <1>5, <2>2, <2>3, <2>4 DEF IInv
<1>7. Len(kids) \in Nat
  BY <1>1 DEF TypeInv
<1>8. CASE child' = <<0>> /\ UNCHANGED kids
  <2>1. SameKids
    BY <1>1, <1>8, SameKidsIfUnchanged
  <2>2. pipes \in Nat /\ pipes' = pipes
    BY <1>1 DEF TypeInv
  <2>3. kids' \in Seq(Kids) /\ \A i \in DOMAIN kids' : KidOK(kids[i])'
    BY <1>1, <2>1, <2>2, SameIs
  <2>4. \A p : Unused(p)' <=> Unused(p)
    BY <1>8, UnusedIs
  <2> QED
    BY <1>6, <1>7, <1>8, <2>3, <2>4
<1>9. CASE /\ kids' = Append(kids, Kid(stages[stage], In, IF HasNext THEN Out ELSE Tty, "forked"))
           /\ child' = <<Len(kids) + 1>>
  <2> DEFINE out == IF HasNext THEN Out ELSE Tty
             name == stages[stage]
             k == Kid(name, In, out, "forked")
  <2>1. out \in 0..pipes
    BY <1>1, <1>2 DEF TypeInv, Tty
  <2>2. name \in Words
    <3>1. stage \in 1..Len(stages)
      BY <1>1 DEF IInv, LaunchOK
    <3> QED
      BY <1>1, <3>1 DEF TypeInv, Words
  <2>3. k \in Kids /\ KidOK(k) /\ k.in = In /\ k.out = out
    <3> HIDE DEF out, name
    <3> QED
      BY <1>1, <1>2, <2>1, <2>2, KidMade DEF States
  <2>4. kids' = Append(kids, k) /\ UNCHANGED pipes
    BY <1>1, <1>9
  <2> HIDE DEF k
  <2>5. /\ kids' \in Seq(Kids) /\ Len(kids') = Len(kids) + 1
        /\ \A i \in DOMAIN kids' : KidOK(kids[i])'
        /\ \A p : Unused(p) /\ p # k.in /\ p # k.out => Unused(p)'
    BY <1>1, <2>3, <2>4, NewKid
  <2>6. \A p \in 1..pipes : Unused(p) => Unused(p)' \/ p = In \/ (HasNext /\ p = Out)
    BY <2>3, <2>5 DEF Tty
  <2> QED
    BY <1>6, <1>7, <1>9, <2>5, <2>6
<1> QED
  BY <1>8, <1>9 DEF executeHelper_fork

(* The parent slips into the group of the child, if that exists by now.       *)
LEMMA SetpgidKeeps ==
    ASSUME IInv, executeHelper_setpgid
    PROVE  IInv'
<1>1. /\ TypeInv /\ lab = "lab4" /\ pc = "parent" /\ pc' = "wait" /\ Launching
      /\ UNCHANGED <<lab, typed, buffer, stages, stage, blocking, child, ends, pipes, level, kids, list>>
      /\ group' = Head(child) \/ group' = group
  BY DEF IInv, executeHelper_setpgid, Launching
<1>2. In' = In /\ Out' = Out /\ HasNext' = HasNext /\ Made' = Made /\ Launching'
  BY <1>1 DEF In, Out, HasNext, Made, Launching
<1>3. /\ Len(child) = 1 /\ child \in Seq(Nat)
      /\ \A n \in DOMAIN child : child[n] <= Len(kids)
  BY <1>1 DEF IInv, WaitOK, TypeInv
<1>4. group' \in 0..Len(kids)
  <2>1. Head(child) = child[1] /\ 1 \in DOMAIN child /\ child[1] \in Nat
    BY <1>3
  <2>2. Len(kids) \in Nat /\ group \in 0..Len(kids)
    BY <1>1 DEF TypeInv
  <2> QED
    BY <1>1, <1>3, <2>1, <2>2
<1>5. TypeInv'
  <2>1. \A i \in DOMAIN kids' : KidOK(kids[i])'
    BY <1>1, <1>2 DEF TypeInv, KidOK
  <2> QED
    BY <1>1, <1>2, <1>4, <2>1 DEF TypeInv, Pcs
<1>6. \A p : Unused(p)' <=> Unused(p)
  BY <1>1, UnusedIs
<1>7. EndsOK'
  BY <1>1, <1>2, <1>6 DEF IInv, EndsOK
<1> QED
  BY <1>1, <1>2, <1>5, <1>7 DEF IInv, LaunchOK, WaitOK, FoundByNumber

(* The shell waits if it has to, closes what it gave the command at hand, and *)
(* turns to the next one.                                                     *)
LEMMA WaitKeeps ==
    ASSUME IInv, executeHelper_wait
    PROVE  IInv'
<1> DEFINE kept == ends \ {W(Out), R(In)}
<1>1. /\ TypeInv /\ lab = "lab4" /\ pc = "wait" /\ Launching
      /\ UNCHANGED <<lab, typed, buffer, stages, blocking, child, group, list>>
      /\ stage \in 1..Len(stages) /\ Len(stages) \in Nat /\ pipes \in Nat
      /\ Len(stages) > 1 => stage <= pipes
  BY DEF IInv, LaunchOK, TypeInv, executeHelper_wait, Launching
<1>2. /\ Len(child) = 1 /\ child \in Seq(Nat)
      /\ \A n \in DOMAIN child : child[n] <= Len(kids)
  BY <1>1 DEF IInv, WaitOK, TypeInv
<1>3. Head(child) = child[1] /\ child[1] \in 0..Len(kids)
  <2>1. Head(child) = child[1] /\ 1 \in DOMAIN child /\ child[1] \in Nat
    BY <1>2
  <2>2. Len(kids) \in Nat
    BY <1>1 DEF TypeInv
  <2> QED
    BY <1>2, <2>1, <2>2
<1>4. SameKids /\ (blocking /\ ~ HasNext /\ child[1] # 0 => kids'[child[1]].state = "reaped")
  <2>1. CASE blocking /\ ~ HasNext
    <3>1. Waited(child[1])
      BY <1>3, <2>1 DEF executeHelper_wait
    <3> QED
      BY <1>1, <1>3, <3>1, WaitedIs
  <2>2. CASE ~ (blocking /\ ~ HasNext)
    <3>1. UNCHANGED kids
      BY <2>2 DEF executeHelper_wait
    <3> QED
      BY <1>1, <2>2, <3>1, SameKidsIfUnchanged
  <2> QED
    BY <2>1, <2>2
<1>5. FoundByNumber'
  BY <1>1 DEF IInv, FoundByNumber
<1>6. \A p \in 1..pipes :
          /\ W(p) \notin kept
          /\ R(p) \in kept => Unused(p) \/ (HasNext /\ p = Out)
  <2>1. \A p \in 1..pipes :
          /\ W(p) \in ends => p = Out
          /\ R(p) \in ends => Unused(p) \/ p = In \/ (HasNext /\ p = Out)
    BY <1>1 DEF IInv, EndsOK
  <2> QED
    BY <2>1
<1>7. kept \in SUBSET ends
  OBVIOUS
<1>8. CASE HasNext
  <2>1. /\ stage' = stage + 1 /\ pc' = "fork" /\ MakesPipe(kept)
    BY <1>8 DEF executeHelper_wait, MakesPipe
  <2> HIDE DEF kept
  <2>2. /\ pipes' \in Nat /\ pipes <= pipes' /\ pipes' = pipes + 1
        /\ level' \in Seq(0..Capacity) /\ Len(level') = pipes' /\ ends' \subseteq Made'
        /\ \A p \in 1..pipes' :
              /\ W(p) \in ends' => p = pipes + 1 \/ (p \in 1..pipes /\ W(p) \in kept)
              /\ R(p) \in ends' => p = pipes + 1 \/ (p \in 1..pipes /\ R(p) \in kept)
    BY <1>1, <1>7, <2>1, PipeMore DEF MakesPipe
  <2>3. /\ kids' \in Seq(Kids) /\ Len(kids') = Len(kids)
        /\ \A i \in DOMAIN kids' : KidOK(kids[i])'
        /\ \A p : Unused(p)' <=> Unused(p)
    BY <1>1, <1>4, <2>2, SameIs
  <2>4. TypeInv'
    BY <1>1, <2>1, <2>2, <2>3 DEF TypeInv, Pcs
  <2>5. Len(stages) > 1 /\ Launching'
    BY <1>1, <1>8, <2>1 DEF HasNext, Launching
  <2>6. Out = pipes /\ Out' = pipes + 1 /\ In' = pipes
    BY <1>1, <2>1, <2>2, <2>5 DEF Out, In
  <2>7. LaunchOK'
    BY <1>1, <1>8, <2>1, <2>2 DEF LaunchOK, HasNext
  <2>8. EndsOK'
    <3> SUFFICES ASSUME NEW p \in 1..pipes'
                 PROVE  /\ W(p) \in ends' => p = Out'
                        /\ R(p) \in ends' => Unused(p)' \/ p = In'
      BY <1>1, <2>5 DEF EndsOK
    <3>1. Unused(pipes + 1)
      BY <1>1, NewUnused
    <3> QED
      BY <1>6, <2>2, <2>3, <2>6, <3>1
  <2>9. WaitOK'
    BY <1>1, <2>1 DEF WaitOK
  <2> QED
    BY <1>5, <2>4, <2>7, <2>8, <2>9 DEF IInv
<1>9. CASE ~ HasNext
  <2>1. pc' = "prompt" /\ ends' = kept /\ UNCHANGED <<stage, pipes, level>>
    BY <1>9 DEF executeHelper_wait
  <2>2. /\ kids' \in Seq(Kids) /\ Len(kids') = Len(kids)
        /\ \A i \in DOMAIN kids' : KidOK(kids[i])'
        /\ \A p : Unused(p)' <=> Unused(p)
    BY <1>1, <1>4, <2>1, SameIs
  <2>3. TypeInv'
    <3>1. Made' = Made
      BY <2>1 DEF Made
    <3> QED
      BY <1>1, <2>1, <2>2, <3>1 DEF TypeInv, Pcs
  <2>4. EndsOK'
    BY <1>1, <1>6, <1>9, <2>1, <2>2 DEF EndsOK
  <2>5. LaunchOK' /\ WaitOK'
    BY <1>1, <1>4, <1>9, <2>1 DEF LaunchOK, WaitOK, Launching
  <2> QED
    BY <1>5, <2>3, <2>4, <2>5 DEF IInv
<1> QED
  BY <1>8, <1>9

-----------------------------------------------------------------------------
(* The shell of lab3.                                                         *)

LEMMA Lab3ReadKeeps ==
    ASSUME IInv, lab3_read
    PROVE  IInv'
<1>1. /\ TypeInv /\ FoundByNumber /\ lab = "lab3" /\ pc = "prompt" /\ ends = {}
      /\ buffer \in Seq(STRING)
      /\ buffer' = <<>> /\ UNCHANGED <<lab, typed, stage, blocking, child, kids, group, list>>
  BY DEF IInv, EndsOK, TypeInv, lab3_read
<1>2. SameKids
  BY <1>1, SameKidsIfUnchanged
<1>3. /\ buffer' \in Seq(STRING) /\ list' \in Seq(Jobs) /\ Numbered(list')
      /\ level \in Seq(0..Capacity) /\ pipes \in Nat
  BY <1>1 DEF TypeInv, FoundByNumber, Numbered
<1>4. CASE pc' = "ended" /\ UNCHANGED <<stages, ends, pipes, level>>
  <2>1. Rests
    BY <1>1, <1>2, <1>3, <1>4 DEF Rests
  <2> QED
    BY <2>1, RestsKeeps
<1>5. CASE /\ pc' = "first" /\ stages' = Commands(buffer)
           /\ pipes' = pipes + 1 /\ level' = Append(level, 0)
           /\ ends' = {R(pipes + 1), W(pipes + 1)}
  <2>1. MakesPipe({}) /\ {} \in SUBSET ends
    BY <1>5 DEF MakesPipe
  <2>2. /\ pipes' \in Nat /\ pipes <= pipes'
        /\ level' \in Seq(0..Capacity) /\ Len(level') = pipes' /\ ends' \subseteq Made'
    BY <1>1, <2>1, PipeMore
  <2>3. /\ kids' \in Seq(Kids) /\ Len(kids') = Len(kids)
        /\ \A i \in DOMAIN kids' : KidOK(kids[i])'
    BY <1>1, <1>2, <2>2, SameIs
  <2>4. stages' \in Seq(STRING)
    BY <1>1, <1>5, CommandsAre
  <2>5. TypeInv'
    BY <1>1, <1>3, <1>5, <2>2, <2>3, <2>4 DEF TypeInv, Pcs
  <2>6. EndsOK'
    BY <1>1, <1>3, <1>5 DEF EndsOK
  <2>7. WaitOK'
    <3>1. Unreaped = {}
      BY <1>1 DEF IInv, WaitOK
    <3>2. Unreaped' = {}
      BY <1>1, <3>1, UnusedIs
    <3> QED
      BY <1>1, <1>5, <3>2 DEF WaitOK
  <2> QED
    BY <1>1, <2>5, <2>6, <2>7 DEF IInv, LaunchOK, FoundByNumber
<1> QED
  BY <1>4, <1>5 DEF lab3_read

LEMMA StageIs ==
    ASSUME TypeInv, NEW n \in Nat \ {0}
    PROVE  Stage(n) \in Words
<1>1. stages \in Seq(STRING)
  BY DEF TypeInv
<1>2. CASE n <= Len(stages)
  BY <1>1, <1>2 DEF Stage, Words
<1>3. CASE ~ (n <= Len(stages))
  BY <1>3 DEF Stage, Words
<1> QED
  BY <1>2, <1>3

(* A fork of lab3: the child is there, or there is none.                      *)
LEMMA Lab3Forks ==
    ASSUME TypeInv, NEW n \in Nat \ {0}, NEW in \in 0..pipes, NEW out \in 0..pipes,
           NEW c, UNCHANGED pipes,
           \/ kids' = Append(kids, Kid(Stage(n), in, out, "grouped")) /\ c = Len(kids) + 1
           \/ kids' = kids /\ c = 0
    PROVE  /\ kids' \in Seq(Kids) /\ \A i \in DOMAIN kids' : KidOK(kids[i])'
           /\ Len(kids) \in Nat /\ Len(kids') \in Nat /\ Len(kids) <= Len(kids')
           /\ c \in 0..Len(kids') /\ Unreaped' \subseteq Unreaped \cup {c}
<1>1. Len(kids) \in Nat /\ pipes \in Nat
  BY DEF TypeInv
<1>2. CASE kids' = Append(kids, Kid(Stage(n), in, out, "grouped")) /\ c = Len(kids) + 1
  <2> DEFINE k == Kid(Stage(n), in, out, "grouped")
  <2>1. k \in Kids /\ KidOK(k)
    <3>1. Stage(n) \in Words /\ "grouped" \in States
      BY StageIs DEF States
    <3> QED
      BY <3>1, KidMade
  <2>2. kids' = Append(kids, k)
    BY <1>2
  <2> HIDE DEF k
  <2>3. /\ kids' \in Seq(Kids) /\ Len(kids') = Len(kids) + 1
        /\ \A i \in DOMAIN kids' : KidOK(kids[i])'
        /\ Unreaped' \subseteq Unreaped \cup {Len(kids) + 1}
    BY <2>1, <2>2, NewKid
  <2> QED
    BY <1>1, <1>2, <2>3
<1>3. CASE kids' = kids /\ c = 0
  <2>1. SameKids
    BY <1>3, SameKidsIfUnchanged
  <2>2. pipes' \in Nat /\ pipes <= pipes'
    BY <1>1
  <2>3. /\ kids' \in Seq(Kids) /\ Len(kids') = Len(kids)
        /\ \A i \in DOMAIN kids' : KidOK(kids[i])'
        /\ Unreaped' \subseteq Unreaped
    BY <2>1, <2>2, SameIs
  <2> QED
    BY <1>1, <1>3, <2>3
<1> QED
  BY <1>2, <1>3

LEMMA FirstKeeps ==
    ASSUME IInv, execute_first
    PROVE  IInv'
<1>1. /\ TypeInv /\ FoundByNumber /\ lab = "lab3" /\ pc = "first" /\ pc' = "second"
      /\ ends = {R(pipes), W(pipes)} /\ pipes >= 1 /\ pipes \in Nat /\ Unreaped = {}
      /\ ends' = ends \ {W(pipes)}
      /\ UNCHANGED <<lab, typed, buffer, stages, stage, blocking, pipes, level, group, list>>
  BY DEF IInv, EndsOK, WaitOK, TypeInv, execute_first
<1> DEFINE out == IF Len(stages) > 1 THEN pipes ELSE Tty
<1>2. out \in 0..pipes /\ Tty \in 0..pipes
  BY <1>1 DEF Tty
<1>3. PICK c : /\ child' = <<c>>
               /\ \/ kids' = Append(kids, Kid(Stage(1), Tty, out, "grouped")) /\ c = Len(kids) + 1
                  \/ kids' = kids /\ c = 0
  BY DEF execute_first
<1>4. PICK one \in Nat \ {0} : one = 1
  OBVIOUS
<1> HIDE DEF out
<1>5. /\ kids' \in Seq(Kids) /\ \A i \in DOMAIN kids' : KidOK(kids[i])'
      /\ Len(kids) \in Nat /\ Len(kids') \in Nat /\ Len(kids) <= Len(kids')
      /\ c \in 0..Len(kids') /\ Unreaped' \subseteq Unreaped \cup {c}
  <2>1. \/ kids' = Append(kids, Kid(Stage(one), Tty, out, "grouped")) /\ c = Len(kids) + 1
        \/ kids' = kids /\ c = 0
    BY <1>3, <1>4
  <2> QED
    BY <1>1, <1>2, <2>1, Lab3Forks
<1>6. child' \in Seq(Nat) /\ Len(child') = 1 /\ child'[1] = c /\ \A n \in DOMAIN child' : child'[n] <= Len(kids')
  BY <1>3, <1>5
<1>7. ends' = {R(pipes)} /\ Made' = Made
  BY <1>1 DEF R, W, Made
<1>8. TypeInv'
  <2>1. group' \in 0..Len(kids') /\ ends' \subseteq Made'
    BY <1>1, <1>5, <1>7 DEF TypeInv
  <2> QED
    BY <1>1, <1>5, <1>6, <2>1 DEF TypeInv, Pcs
<1>9. EndsOK' /\ WaitOK'
  BY <1>1, <1>5, <1>6, <1>7 DEF EndsOK, WaitOK
<1> QED
  BY <1>1, <1>8, <1>9 DEF IInv, LaunchOK, FoundByNumber

LEMMA ElementIs ==
    ASSUME NEW S, NEW s \in Seq(S), NEW i \in 1..Len(s)
    PROVE  s[i] \in S
  OBVIOUS

LEMMA Second ==
    ASSUME NEW S, NEW s \in Seq(S), Len(s) = 1, NEW e \in S
    PROVE  /\ Append(s, e) \in Seq(S) /\ Len(Append(s, e)) = 2
           /\ Append(s, e)[1] = s[1] /\ Append(s, e)[2] = e
<1>1. Append(s, e) \in Seq(S) /\ Len(Append(s, e)) = Len(s) + 1
  OBVIOUS
<1>2. Append(s, e)[Len(s) + 1] = e /\ \A i \in 1..Len(s) : Append(s, e)[i] = s[i]
  OBVIOUS
<1> DEFINE t == Append(s, e)
<1> HIDE DEF t
<1>3. Len(t) = 2 /\ t[1] = s[1] /\ t[2] = e
  BY <1>1, <1>2 DEF t
<1> QED
  BY <1>1, <1>3 DEF t

LEMMA SecondKeeps ==
    ASSUME IInv, execute_second
    PROVE  IInv'
<1>1. /\ TypeInv /\ FoundByNumber /\ lab = "lab3" /\ pc = "second" /\ pc' = "wait_first"
      /\ ends = {R(pipes)} /\ pipes >= 1 /\ pipes \in Nat
      /\ Len(child) = 1 /\ Unreaped \subseteq {child[1]}
      /\ child \in Seq(Nat) /\ \A n \in DOMAIN child : child[n] <= Len(kids)
      /\ ends' = ends \ {R(pipes)}
      /\ UNCHANGED <<lab, typed, buffer, stages, stage, blocking, pipes, level, group, list>>
  BY DEF IInv, EndsOK, WaitOK, TypeInv, execute_second
<1>2. PICK in \in 0..pipes, out \in 0..pipes : in = pipes /\ out = Tty
  BY <1>1 DEF Tty
<1>3. PICK c : /\ child' = Append(child, c)
               /\ \/ kids' = Append(kids, Kid(Stage(2), pipes, Tty, "grouped")) /\ c = Len(kids) + 1
                  \/ kids' = kids /\ c = 0
  BY DEF execute_second
<1>4. PICK two \in Nat \ {0} : two = 2
  OBVIOUS
<1>5. /\ kids' \in Seq(Kids) /\ \A i \in DOMAIN kids' : KidOK(kids[i])'
      /\ Len(kids) \in Nat /\ Len(kids') \in Nat /\ Len(kids) <= Len(kids')
      /\ c \in 0..Len(kids') /\ Unreaped' \subseteq Unreaped \cup {c}
  <2>1. \/ kids' = Append(kids, Kid(Stage(two), in, out, "grouped")) /\ c = Len(kids) + 1
        \/ kids' = kids /\ c = 0
    BY <1>2, <1>3, <1>4
  <2> QED
    BY <1>1, <2>1, Lab3Forks
<1>6. /\ child' \in Seq(Nat) /\ Len(child') = 2 /\ child'[1] = child[1] /\ child'[2] = c
      /\ \A n \in DOMAIN child' : child'[n] <= Len(kids')
  <2>1. child \in Seq(Nat) /\ Len(child) = 1 /\ child' = Append(child, c) /\ c \in Nat
    BY <1>1, <1>3, <1>5
  <2>2. child' \in Seq(Nat) /\ Len(child') = 2 /\ child'[1] = child[1] /\ child'[2] = c
    BY <2>1, Second
  <2>3. child[1] \in Nat /\ 1 \in DOMAIN child
    BY <2>1
  <2>4. child[1] <= Len(kids)
    BY <1>1, <2>3
  <2>5. child'[1] <= Len(kids') /\ child'[2] <= Len(kids')
    BY <1>5, <2>2, <2>3, <2>4
  <2>6. \A n \in DOMAIN child' : n = 1 \/ n = 2
    BY <2>2
  <2> QED
    BY <2>2, <2>5, <2>6
<1>7. ends' = {}
  BY <1>1
<1>8. TypeInv'
  <2>1. group' \in 0..Len(kids')
    BY <1>1, <1>5 DEF TypeInv
  <2> QED
    BY <1>1, <1>5, <1>6, <1>7, <2>1 DEF TypeInv, Pcs
<1>9. EndsOK' /\ WaitOK'
  BY <1>1, <1>5, <1>6, <1>7 DEF EndsOK, WaitOK
<1> QED
  BY <1>1, <1>8, <1>9 DEF IInv, LaunchOK, FoundByNumber

(* Whoever was asked for is no longer among those not yet waited for.         *)
LEMMA WaitedLeaves ==
    ASSUME TypeInv, NEW c \in 0..Len(kids), Waited(c), UNCHANGED pipes,
           NEW S, Unreaped \subseteq {c} \cup S
    PROVE  SameKids /\ Unreaped' \subseteq S
<1>1. SameKids /\ (c # 0 => kids'[c].state = "reaped")
  BY WaitedIs
<1>2. pipes' \in Nat /\ pipes <= pipes'
  BY DEF TypeInv
<1>3. Unreaped' \subseteq Unreaped /\ DOMAIN kids' = DOMAIN kids
  BY <1>1, <1>2, SameIs
<1>4. 0 \notin Unreaped
  BY DEF Unreaped, TypeInv
<1>5. c \notin Unreaped'
  BY <1>1, <1>3, <1>4 DEF Unreaped
<1> QED
  BY <1>1, <1>3, <1>5

LEMMA Lab3WaitKeeps ==
    ASSUME IInv, execute_wait
    PROVE  IInv'
<1>1. /\ TypeInv /\ FoundByNumber /\ lab = "lab3" /\ pc \in {"wait_first", "wait_second"}
      /\ pc' \in {"wait_second", "prompt"} /\ ends = {} /\ pipes \in Nat
      /\ Len(child) = 2 /\ child \in Seq(Nat) /\ \A n \in DOMAIN child : child[n] <= Len(kids)
      /\ UNCHANGED <<lab, typed, buffer, stages, stage, blocking, child, ends, pipes, level,
                     group, list>>
  BY DEF IInv, EndsOK, WaitOK, TypeInv, execute_wait
<1>2. child[1] \in 0..Len(kids) /\ child[2] \in 0..Len(kids)
  <2>1. 1 \in DOMAIN child /\ 2 \in DOMAIN child /\ child[1] \in Nat /\ child[2] \in Nat
    BY <1>1
  <2>2. Len(kids) \in Nat
    BY <1>1 DEF TypeInv
  <2> QED
    BY <1>1, <2>1, <2>2
<1>3. SameKids /\ \/ pc' = "wait_second" /\ Unreaped' \subseteq {child[2]}
                  \/ pc' = "prompt" /\ Unreaped' = {}
  <2>1. CASE pc = "wait_first" /\ Waited(child[1]) /\ pc' = "wait_second"
    <3>1. PICK S : S = {child[2]} /\ Unreaped \subseteq {child[1]} \cup S
      BY <1>1, <2>1 DEF IInv, WaitOK
    <3>2. SameKids /\ Unreaped' \subseteq S
      BY <1>1, <1>2, <2>1, <3>1, WaitedLeaves
    <3> QED
      BY <2>1, <3>1, <3>2
  <2>2. CASE pc = "wait_second" /\ Waited(child[2]) /\ pc' = "prompt"
    <3>1. PICK S : S = {} /\ Unreaped \subseteq {child[2]} \cup S
      BY <1>1, <2>2 DEF IInv, WaitOK
    <3>2. SameKids /\ Unreaped' \subseteq S
      BY <1>1, <1>2, <2>2, <3>1, WaitedLeaves
    <3> QED
      BY <2>2, <3>1, <3>2
  <2> QED
    BY <2>1, <2>2 DEF execute_wait
<1>4. /\ kids' \in Seq(Kids) /\ Len(kids') = Len(kids)
      /\ \A i \in DOMAIN kids' : KidOK(kids[i])'
  <2>1. pipes' \in Nat /\ pipes <= pipes'
    BY <1>1
  <2> QED
    BY <1>1, <1>3, <2>1, SameIs
<1>5. TypeInv'
  BY <1>1, <1>3, <1>4 DEF TypeInv, Pcs
<1>6. EndsOK' /\ WaitOK'
  BY <1>1, <1>3 DEF EndsOK, WaitOK
<1> QED
  BY <1>1, <1>5, <1>6 DEF IInv, LaunchOK, FoundByNumber

-----------------------------------------------------------------------------
(* Every run.                                                                 *)

LEMMA InvariantAtStart ==
    ASSUME Init
    PROVE  IInv
<1>1. /\ lab \in {"lab3", "lab4"} /\ pc = "prompt" /\ buffer = <<>> /\ stages = <<>>
      /\ stage = 0 /\ child = <<>> /\ ends = {} /\ pipes = 0 /\ level = <<>>
      /\ kids = <<>> /\ group = 0 /\ list = <<>>
  BY DEF Init, Shell
<1>2. /\ <<>> \in Seq(STRING) /\ <<>> \in Seq(0..Capacity) /\ <<>> \in Seq(Kids)
      /\ <<>> \in Seq(Nat) /\ <<>> \in Seq(Jobs) /\ Len(<<>>) = 0
      /\ \A i \in DOMAIN <<>> : FALSE
  OBVIOUS
<1>3. TypeInv
  BY <1>1, <1>2 DEF TypeInv, Pcs
<1>4. Unreaped = {}
  BY <1>1, <1>2 DEF Unreaped
<1>5. LaunchOK /\ EndsOK /\ WaitOK /\ FoundByNumber
  BY <1>1, <1>2, <1>4 DEF LaunchOK, Launching, EndsOK, WaitOK, FoundByNumber
<1> QED
  BY <1>3, <1>5 DEF IInv

LEMMA StepsKeep ==
    ASSUME IInv, [Next]_vars
    PROVE  IInv'
<1>1. CASE Type
  BY <1>1, TypeKeeps
<1>2. CASE AnyCommand
  BY <1>2, CommandsKeep DEF AnyCommand
<1>3. CASE lab4_shell
  BY <1>3, Lab4ReadKeeps, ForkKeeps, SetpgidKeeps, WaitKeeps DEF lab4_shell
<1>4. CASE lab3_shell
  BY <1>4, Lab3ReadKeeps, FirstKeeps, SecondKeeps, Lab3WaitKeeps DEF lab3_shell
<1>5. CASE UNCHANGED vars
  <2>1. TypeInv /\ level \in Seq(0..Capacity) /\ buffer \in Seq(STRING) /\ list \in Seq(Jobs)
        /\ Numbered(list)
    BY DEF IInv, TypeInv, FoundByNumber, Numbered
  <2>2. SameKids
    BY <1>5, <2>1, SameKidsIfUnchanged DEF vars
  <2>3. Rests
    BY <1>5, <2>1, <2>2 DEF Rests, vars, Numbered
  <2> QED
    BY <2>3, RestsKeeps
<1> QED
  BY <1>1, <1>2, <1>3, <1>4, <1>5 DEF Next, ShellStep

(* What the shells hold, whom they wait for and how lab4 numbers its jobs     *)
(* stay as IInv says through every step of shell, commands and user.          *)
THEOREM ShellsInvariant == Spec => []IInv
<1>1. Init => IInv
  BY InvariantAtStart
<1>2. IInv /\ [Next]_vars => IInv'
  BY StepsKeep
<1> QED
  BY <1>1, <1>2, PTL DEF Spec

(* Every variable of the two shells, of their pipes and of their commands     *)
(* keeps its type: no command is given a pipe that was never made, no pipe    *)
(* holds more than it can, and the shell is in its own group or a command's.  *)
THEOREM ShellsTypeOK == Spec => []TypeOK
<1>1. IInv => TypeOK
  <2> SUFFICES ASSUME IInv PROVE TypeOK
    OBVIOUS
  <2>1. TypeInv
    BY DEF IInv
  <2>2. Len(level) = pipes /\ \A p \in 1..pipes : level[p] \in 0..Capacity
    <3>1. level \in Seq(0..Capacity) /\ Len(level) = pipes
      BY <2>1 DEF TypeInv
    <3>2. ASSUME NEW p \in 1..pipes PROVE level[p] \in 0..Capacity
      BY <3>1, ElementIs
    <3> QED
      BY <3>1, <3>2
  <2>3. ASSUME NEW i \in DOMAIN kids
        PROVE  /\ kids[i].in \in 0..pipes /\ kids[i].out \in 0..pipes
               /\ kids[i].left \in 0..Amount /\ kids[i].state \in States
               /\ kids[i].ends \subseteq Made
    BY <2>1, KidIs DEF KidOK
  <2>4. ends \subseteq Made /\ group \in 0..Len(kids) /\ pc \in Pcs
    BY <2>1 DEF TypeInv
  <2> QED
    BY <2>2, <2>3, <2>4 DEF TypeOK, Made, States, Pcs
<1> QED
  BY <1>1, ShellsInvariant, PTL

(* At the prompt lab3 holds no end of a pipe (task3.c), and lab4 no write end *)
(* and no read end of a pipe some command reads or writes (executeHelper of   *)
(* lab4/main.c): whoever reads a pipe sees its end when its writers are gone. *)
THEOREM NoEndStays == Spec => []NoEndKept
<1>1. IInv => NoEndKept
  <2> SUFFICES ASSUME IInv, pc = "prompt"
               PROVE  /\ lab = "lab3" => ends = {}
                      /\ \A p \in 1..pipes :
                             /\ W(p) \notin ends
                             /\ R(p) \in ends => \A i \in DOMAIN kids : p \notin {kids[i].in, kids[i].out}
    BY DEF NoEndKept
  <2>1. lab \in {"lab3", "lab4"} /\ EndsOK /\ ~ Launching
    BY DEF IInv, TypeInv, Launching
  <2>2. CASE lab = "lab3"
    BY <2>1, <2>2 DEF EndsOK
  <2>3. CASE lab = "lab4"
    BY <2>1, <2>3 DEF EndsOK, Unused
  <2> QED
    BY <2>1, <2>2, <2>3
<1> QED
  BY <1>1, ShellsInvariant, PTL

(* At the prompt lab3 has waited for every command it started, and lab4 for   *)
(* the last command of a line without '&', whichever of them ended first and  *)
(* whether or not the forks succeeded.                                        *)
THEOREM AllAwaited == Spec => []NoneLeftBehind
<1>1. IInv => NoneLeftBehind
  <2> SUFFICES ASSUME IInv, pc = "prompt" PROVE NoneLeftBehind
    BY DEF NoneLeftBehind
  <2>1. WaitOK /\ child \in Seq(Nat)
    BY DEF IInv, TypeInv
  <2>2. lab = "lab3" => Unreaped = {}
    BY <2>1 DEF WaitOK
  <2>3. lab = "lab3" => \A i \in DOMAIN kids : kids[i].state = "reaped"
    BY <2>2 DEF Unreaped
  <2>4. child # <<>> => Head(child) = child[1]
    BY <2>1
  <2> QED
    BY <2>1, <2>3, <2>4 DEF WaitOK, NoneLeftBehind
<1> QED
  BY <1>1, ShellsInvariant, PTL

(* A job of lab4 is found at the place its number names: add_job numbers by   *)
(* the length of the list, and a list is only ever emptied as a whole.        *)
THEOREM JobsByNumber == Spec => []FoundByNumber
<1>1. IInv => FoundByNumber
  BY DEF IInv
<1> QED
  BY <1>1, ShellsInvariant, PTL
===============================================================================
