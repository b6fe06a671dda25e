---------------------------- MODULE PipelineProofs ----------------------------
(***************************************************************************)
(* Theorems about the descriptors of the lab 5 shell and its children, for *)
(* any number of lines of any length: what a command reads and writes, who *)
(* else holds its pipes, and what a line leaves open.                      *)
(***************************************************************************)
EXTENDS Pipeline, NaturalLemmas, SequenceTheorems

------------------------------------------------------------------------------
(* Numbers, ends and tables.                                                *)

(* What a descriptor is open on is one thing only.                          *)
LEMMA EndsDiffer ==
  /\ \A k, j : R(k) = R(j) => k = j
  /\ \A k, j : W(k) = W(j) => k = j
  /\ \A k, j : R(k) # W(j)
  /\ \A k : R(k) \notin {Tty, File, Closed} /\ W(k) \notin {Tty, File, Closed}
  /\ Tty # File /\ Tty # Closed /\ File # Closed
BY DEF R, W, Tty, File, Closed

(* Numbers above the standard streams: all that executeHelper opens in the  *)
(* shell.                                                                   *)
High == 3 .. MaxFd

LEMMA Numbers ==
  /\ MaxFd \in Nat /\ MaxCommands \in Nat /\ MaxFd >= MaxCommands + 5
  /\ \A f : f \in Fds <=> f \in {0, 1, 2} \/ f \in High
  /\ \A f \in High : f \in Nat /\ f \in Fds /\ f \notin {0, 1, 2}
  /\ 0 \in Fds /\ 1 \in Fds /\ 2 \in Fds
BY BoundsAssumption DEF BoundsAssumption, Fds, High

LEMMA PairIsPipe == \A p \in High \X High : p # NoPipe /\ p[1] \in High /\ p[2] \in High
BY DEF NoPipe

(* The kernel gives out the lowest number that is free.                     *)
LEMMA LowestIsFree ==
  ASSUME NEW t, \E f \in Fds : t[f] = Closed
  PROVE  /\ LowestFree(t) \in Fds /\ t[LowestFree(t)] = Closed
         /\ \A f \in Fds : t[f] = Closed => LowestFree(t) <= f
<1> DEFINE S == {f \in Fds : t[f] = Closed}
<1>1. S \subseteq Nat /\ S # {}
  BY Numbers DEF Fds
<1>2. Min(S) \in S /\ \A f \in S : Min(S) <= f
  BY <1>1, MinIsSmallest
<1>3. LowestFree(t) = Min(S)
  BY DEF LowestFree
<1> QED
  BY <1>2, <1>3

(* The number itself, when all lower ones are known to be in use.           *)
LEMMA LowestIs ==
  ASSUME NEW t, NEW n \in Fds, t[n] = Closed,
         \A f \in Fds : f < n => t[f] # Closed
  PROVE  LowestFree(t) = n
<1>1. /\ LowestFree(t) \in Fds /\ t[LowestFree(t)] = Closed
      /\ LowestFree(t) <= n
  BY LowestIsFree
<1> QED
  BY <1>1, Numbers DEF Fds

(* newPipe in a table with its standard streams and two free numbers.       *)
LEMMA NewPipe ==
  ASSUME NEW V, NEW t \in [Fds -> V], NEW k, R(k) \in V, W(k) \in V,
         t[0] # Closed, t[1] # Closed, t[2] # Closed,
         \E f, g \in High : f # g /\ t[f] = Closed /\ t[g] = Closed
  PROVE  \E r, w \in High :
           /\ r # w /\ t[r] = Closed /\ t[w] = Closed
           /\ PipeFds(t) = <<r, w>>
           /\ WithPipe(t, k) \in [Fds -> V]
           /\ \A f \in Fds :
                WithPipe(t, k)[f] =
                  IF f = r THEN R(k) ELSE IF f = w THEN W(k) ELSE t[f]
<1> DEFINE r == LowestFree(t)
           t1 == [t EXCEPT ![r] = Tty]
           t2 == [t EXCEPT ![r] = R(k)]
           w == LowestFree(t1)
<1>1. PICK f \in High, g \in High : f # g /\ t[f] = Closed /\ t[g] = Closed
  OBVIOUS
<1>2. r \in Fds /\ t[r] = Closed
  BY <1>1, Numbers, LowestIsFree
<1>3. r \in High
  BY <1>2, Numbers
<1> HIDE DEF r
<1>4. \A n \in Fds : t1[n] = Closed <=> n # r /\ t[n] = Closed
  BY <1>2, EndsDiffer
<1>5. \A n \in Fds : t2[n] = Closed <=> n # r /\ t[n] = Closed
  BY <1>2, EndsDiffer
<1>6. {n \in Fds : t1[n] = Closed} = {n \in Fds : t2[n] = Closed}
  BY <1>4, <1>5
<1>7. w = LowestFree(t2)
  BY <1>6 DEF LowestFree
<1>8. w \in Fds /\ t1[w] = Closed
  BY <1>1, <1>4, Numbers, LowestIsFree
<1>9. w \in High /\ w # r /\ t[w] = Closed
  BY <1>4, <1>8, Numbers
<1>10. PipeFds(t) = <<r, w>>
  BY DEF PipeFds, r
<1>11. WithPipe(t, k) = [t2 EXCEPT ![w] = W(k)]
  BY <1>7 DEF WithPipe, Open, r
<1> HIDE DEF w
<1>12. /\ [t2 EXCEPT ![w] = W(k)] \in [Fds -> V]
       /\ \A n \in Fds : [t2 EXCEPT ![w] = W(k)][n] =
            IF n = r THEN R(k) ELSE IF n = w THEN W(k) ELSE t[n]
  BY <1>2, <1>8, <1>9
<1> QED
  BY <1>3, <1>2, <1>9, <1>10, <1>11, <1>12

(* Closing a number that no longer means anything, or a standard stream.    *)
LEMMA CloseTable ==
  ASSUME NEW V, NEW t \in [Fds -> V], Closed \in V, NEW n \in Fds
  PROVE  /\ close(t, n) \in [Fds -> V]
         /\ \A f \in Fds : close(t, n)[f] = IF f = n THEN Closed ELSE t[f]
BY DEF close

(* Redirect opens exactly the number asked for on exactly the end asked for, *)
(* whatever is open elsewhere, as long as the lower numbers are in use.     *)
LEMMA RedirectTable ==
  ASSUME NEW V, NEW t \in [Fds -> V], Closed \in V,
         NEW n \in {0, 1}, \A f \in Fds : f < n => t[f] # Closed,
         NEW mine \in High, NEW other \in High, mine # other,
         t[mine] # Closed
  PROVE  /\ Redirect(t, n, mine, other) \in [Fds -> V]
         /\ \A f \in Fds : Redirect(t, n, mine, other)[f] =
              IF f = n THEN t[mine]
              ELSE IF f \in {mine, other} THEN Closed ELSE t[f]
<1> DEFINE a == close(t, other)
           b == close(a, n)
           c == dup(b, mine)
<1>1. n \in Fds /\ mine \in Fds /\ other \in Fds /\ n \notin High
  BY Numbers
<1>2. /\ a \in [Fds -> V]
      /\ \A f \in Fds : a[f] = IF f = other THEN Closed ELSE t[f]
  BY <1>1, CloseTable
<1> HIDE DEF a
<1>3. /\ b \in [Fds -> V]
      /\ \A f \in Fds : b[f] = IF f = n THEN Closed ELSE a[f]
  BY <1>1, <1>2, CloseTable
<1> HIDE DEF b
<1>4. b[mine] = t[mine] /\ b[n] = Closed
  BY <1>1, <1>2, <1>3
<1>5. LowestFree(b) = n
  <2>1. \A f \in Fds : f < n => b[f] # Closed
    BY <1>1, <1>2, <1>3, Numbers
  <2> QED
    BY <1>1, <1>4, <2>1, LowestIs
<1>6. c = [b EXCEPT ![n] = t[mine]]
  BY <1>4, <1>5 DEF dup, Open
<1>7. /\ c \in [Fds -> V]
      /\ \A f \in Fds : c[f] = IF f = n THEN t[mine] ELSE b[f]
  BY <1>1, <1>3, <1>6
<1> HIDE DEF c
<1>8. /\ close(c, mine) \in [Fds -> V]
      /\ \A f \in Fds : close(c, mine)[f] = IF f = mine THEN Closed ELSE c[f]
  BY <1>1, <1>7, CloseTable
<1>9. Redirect(t, n, mine, other) = close(c, mine)
  BY DEF Redirect, a, b, c
<1> QED
  BY <1>1, <1>2, <1>3, <1>7, <1>8, <1>9

(* A redirection to a file opens the stream that was closed for it.         *)
LEMMA FileTable ==
  ASSUME NEW V, NEW t \in [Fds -> V], Closed \in V, File \in V,
         NEW n \in {0, 1}, \A f \in Fds : f < n => t[f] # Closed
  PROVE  /\ Open(close(t, n), File) \in [Fds -> V]
         /\ \A f \in Fds : Open(close(t, n), File)[f] =
              IF f = n THEN File ELSE t[f]
<1> DEFINE b == close(t, n)
<1>1. n \in Fds
  BY Numbers
<1>2. /\ b \in [Fds -> V]
      /\ \A f \in Fds : b[f] = IF f = n THEN Closed ELSE t[f]
  BY <1>1, CloseTable
<1> HIDE DEF b
<1>3. LowestFree(b) = n
  <2>1. \A f \in Fds : f < n => b[f] # Closed
    BY <1>1, <1>2, Numbers DEF Fds
  <2> QED
    BY <1>1, <1>2, <2>1, LowestIs
<1>4. Open(b, File) = [b EXCEPT ![n] = File]
  BY <1>3 DEF Open
<1> QED
  BY <1>1, <1>2, <1>4 DEF b

------------------------------------------------------------------------------
(* The inductive invariant.                                                 *)

Launching == pc \in {"fork", "parent"}

(* Pipes of the line being launched that a command still has to be given:  *)
(* the one the next command will read, and the one before.                 *)
Pending ==
  {k \in 1 .. pipes :
     /\ Launching /\ stages > 1
     /\ \/ k = pipes /\ HasNext
        \/ k = pipes - 1 /\ stage > 1}

(* Pipes that connect two commands, and pipes that connect none: those      *)
(* executeHelper made for the last command of a line, or whose commands     *)
(* have exited.                                                             *)
Used == {k \in 1 .. pipes : \E i \in DOMAIN kids : kids[i].before = k \/ kids[i].after = k}
Spare == {k \in 1 .. pipes : k \notin Pending /\ k \notin Used}

(* The standard streams of a table, the pipes its other numbers belong to,  *)
(* and that no two numbers are open on the same end.                        *)
Std(t) == t[0] = Tty /\ t[1] = Tty /\ t[2] = Tty
EndsIn(t, S) == \A f \in High : t[f] = Closed \/ \E k \in S : t[f] \in {R(k), W(k)}
Once(t) == \A f, g \in High : t[f] = t[g] /\ t[f] # Closed => f = g
Lacks(t, end) == \A f \in High : t[f] # end

(* The shell's table holds its standard streams, the pipes at hand and      *)
(* ends of spare pipes.                                                     *)
ShellOK ==
  /\ shell \in Tables
  /\ Std(shell) /\ Once(shell) /\ EndsIn(shell, Spare \cup Pending)

(* pipe1 and pipe2 name the ends they were made for, except that the write  *)
(* end of pipe1 has been closed and its number may be in use again.         *)
LineOK ==
  /\ pc \in {"prompt", "fork", "parent"}
  /\ pc = "prompt" => stage = 0 /\ stages = 0 /\ in = NoPipe /\ out = NoPipe
  /\ Launching =>
       /\ stages \in 1 .. MaxStages /\ stage \in 1 .. stages
       /\ IF stage = 1 THEN in = NoPipe
          ELSE /\ in \in High \X High /\ in[1] # in[2]
               /\ pipes > 1
               /\ shell[in[1]] = R(pipes - 1) /\ Lacks(shell, W(pipes - 1))
       /\ IF stages = 1 THEN out = NoPipe
          ELSE /\ out \in High \X High
               /\ pipes > 0
               /\ shell[out[1]] = R(pipes) /\ shell[out[2]] = W(pipes)

(* A pipe that is still to be read has no reader, and one that is still to  *)
(* be written no writer; while the parent's part of a command runs, the     *)
(* command may have been given both.                                        *)
PendingOK ==
  \A i \in DOMAIN kids :
    /\ kids[i].before \in 0 .. pipes /\ kids[i].after \in 0 .. pipes
    /\ kids[i].before # 0 => kids[i].before # kids[i].after
    /\ pipes \in Pending => kids[i].before # pipes
    /\ pc = "fork" /\ pipes \in Pending => kids[i].after # pipes
    /\ pc = "fork" /\ pipes - 1 \in Pending => kids[i].before # pipes - 1

(* A child between fork and exec: the ends it was given are in its table    *)
(* under the numbers it knows, once each; S are the spare pipes.            *)
ForkedOK(k, S) ==
  /\ Std(k.fds) /\ Once(k.fds)
  /\ EndsIn(k.fds, S \cup ({k.before, k.after} \ {0}))
  /\ k.redir = {}
  /\ IF k.before = 0 THEN k.in = NoPipe
     ELSE /\ k.in \in High \X High /\ k.in[1] # k.in[2]
          /\ k.fds[k.in[1]] = R(k.before) /\ Lacks(k.fds, W(k.before))
  /\ k.next <=> k.after # 0
  /\ k.after # 0 =>
       /\ k.out \in High \X High
       /\ k.fds[k.out[1]] = R(k.after) /\ k.fds[k.out[2]] = W(k.after)

(* A running command is wired, and all else it holds are ends of spare      *)
(* pipes.                                                                   *)
RunningOK(k, S) ==
  /\ k.fds[0] = (IF "in" \in k.redir
                 THEN IF "in" \in k.missing THEN Closed ELSE File
                 ELSE IF k.before = 0 THEN Tty ELSE R(k.before))
  /\ k.fds[1] = (IF "out" \in k.redir
                 THEN IF "out" \in k.missing THEN Closed ELSE File
                 ELSE IF k.after = 0 THEN Tty ELSE W(k.after))
  /\ k.fds[2] = Tty
  /\ "in" \in k.redir => k.before = 0
  /\ "out" \in k.redir => k.after = 0
  /\ EndsIn(k.fds, S)

KidsOK ==
  /\ kids \in Seq(Kids)
  /\ \A i \in DOMAIN kids :
       /\ kids[i].state = "forked" => ForkedOK(kids[i], Spare)
       /\ kids[i].state = "running" => RunningOK(kids[i], Spare)
       /\ kids[i].state = "exited" => kids[i].before = 0 /\ kids[i].after = 0

(* A pipe has one reader and one writer.                                    *)
OneEach ==
  \A i, j \in DOMAIN kids : i # j =>
    /\ kids[i].before # 0 => kids[i].before # kids[j].before
    /\ kids[i].after # 0 => kids[i].after # kids[j].after

(* What is open in the shell: one descriptor for every pipeline launched,   *)
(* and the pipes at hand.                                                   *)
OpenIn(t) == {f \in High : t[f] # Closed}
AtHand == IF Launching /\ stages > 1 THEN IF stage > 1 THEN 3 ELSE 2 ELSE 0
CountOK ==
  /\ pipes \in Nat /\ asked \in 0 .. MaxCommands /\ piped \in Nat
  /\ Launching /\ stages > 1 => piped + 1 <= asked
  /\ piped <= asked
  /\ Cardinality(OpenIn(shell)) = piped + AtHand

IInv == CountOK /\ LineOK /\ ShellOK /\ PendingOK /\ KidsOK /\ OneEach

------------------------------------------------------------------------------
(* What the parts of the invariant say of tables and children.              *)

LEMMA OpensHas ==
  /\ Tty \in Opens /\ File \in Opens /\ Closed \in Opens
  /\ \A k \in 1 .. pipes : R(k) \in Opens /\ W(k) \in Opens
BY DEF Opens

LEMMA EndsInMore ==
  ASSUME NEW t, NEW S, NEW T, EndsIn(t, S),
         \A k \in S : k \in T \/ (Lacks(t, R(k)) /\ Lacks(t, W(k)))
  PROVE  EndsIn(t, T)
BY DEF EndsIn, Lacks

(* All the child does between fork and the new program, whichever of its    *)
(* sides has a pipe and whichever a file: its streams are what they should  *)
(* be and the ends it was given are open nowhere else in its table.         *)
LEMMA ExecTable ==
  ASSUME NEW k, k.fds \in Tables, NEW S, ForkedOK(k, S),
         k.before # 0 => k.before # k.after,
         NEW redir \in Redirections(k), NEW missing \in SUBSET redir
  PROVE  LET t == WithFiles(ChildTable(k), redir, missing) IN
         /\ t \in Tables
         /\ RunningOK([state |-> "running", fds |-> t, in |-> NoPipe,
                       out |-> NoPipe, next |-> k.next, redir |-> redir,
                       missing |-> missing,
                       before |-> k.before, after |-> k.after], S)
<1> DEFINE a == IF k.out # NoPipe /\ k.next
                THEN Redirect(k.fds, 1, k.out[2], k.out[1]) ELSE k.fds
           b == IF k.in # NoPipe THEN Redirect(a, 0, k.in[1], k.in[2]) ELSE a
           c == IF "out" \notin redir THEN b
                ELSE IF "out" \in missing THEN close(b, 1)
                ELSE Open(close(b, 1), File)
           d == IF "in" \notin redir THEN c
                ELSE IF "in" \in missing THEN close(c, 0)
                ELSE Open(close(c, 0), File)
<1>1. /\ k.out # NoPipe /\ k.next <=> k.after # 0
      /\ k.in # NoPipe <=> k.before # 0
      /\ k.in # NoPipe => k.in[1] \in High /\ k.in[2] \in High
      /\ k.after # 0 => k.out[1] \in High /\ k.out[2] \in High /\ k.out[1] # k.out[2]
  BY PairIsPipe, EndsDiffer DEF ForkedOK
<1>2. k.fds \in [Fds -> Opens]
  BY DEF Tables
<1>3. /\ a \in [Fds -> Opens]
      /\ a[0] = Tty /\ a[2] = Tty
      /\ a[1] = IF k.after = 0 THEN Tty ELSE W(k.after)
      /\ \A f \in High : a[f] = IF k.after # 0 /\ f \in {k.out[1], k.out[2]}
                               THEN Closed ELSE k.fds[f]
  <2>1. CASE k.after = 0
    BY <1>1, <1>2, <2>1 DEF ForkedOK, Std
  <2>2. CASE k.after # 0
    <3>1. /\ k.fds[0] = Tty /\ k.fds[2] = Tty
          /\ k.fds[k.out[2]] = W(k.after)
      BY <2>2 DEF ForkedOK, Std
    <3>2. \A f \in Fds : f < 1 => k.fds[f] # Closed
      BY <3>1, EndsDiffer, Numbers DEF High
    <3>3. k.fds[k.out[2]] # Closed
      BY <3>1, EndsDiffer
    <3>4. a = Redirect(k.fds, 1, k.out[2], k.out[1])
      BY <1>1, <2>2
    <3>5. /\ a \in [Fds -> Opens]
          /\ \A f \in Fds : a[f] =
               IF f = 1 THEN k.fds[k.out[2]]
               ELSE IF f \in {k.out[2], k.out[1]} THEN Closed ELSE k.fds[f]
      BY <1>1, <1>2, <2>2, <3>2, <3>3, <3>4, OpensHas, RedirectTable
    <3> HIDE DEF a
    <3> QED
      BY <1>1, <2>2, <3>1, <3>5, Numbers
  <2> QED
    BY <2>1, <2>2
<1> HIDE DEF a
<1>4. /\ k.before # 0 => a[k.in[1]] = R(k.before)
      /\ \A f, g \in High : a[f] = a[g] /\ a[f] # Closed => f = g
      /\ k.before # 0 => \A f \in High : a[f] # W(k.before)
      /\ k.after # 0 => \A f \in High : a[f] \notin {R(k.after), W(k.after)}
  <2>1. k.before # 0 =>
          /\ k.fds[k.in[1]] = R(k.before) /\ k.in[1] \in High
          /\ \A f \in High : k.fds[f] # W(k.before)
    BY <1>1 DEF ForkedOK, Lacks
  <2>2. \A f, g \in High : k.fds[f] = k.fds[g] /\ k.fds[f] # Closed => f = g
    BY DEF ForkedOK, Once
  <2>3. k.after # 0 => k.fds[k.out[1]] = R(k.after) /\ k.fds[k.out[2]] = W(k.after)
    BY DEF ForkedOK
  <2>4. k.before # 0 /\ k.after # 0 => k.in[1] \notin {k.out[1], k.out[2]}
    BY <2>1, <2>3, EndsDiffer
  <2>5. k.before # 0 => a[k.in[1]] = R(k.before)
    BY <1>3, <2>1, <2>4
  <2>6. k.after # 0 => \A f \in High : a[f] \notin {R(k.after), W(k.after)}
    BY <1>1, <1>3, <2>2, <2>3, EndsDiffer
  <2>7. k.before # 0 => \A f \in High : a[f] # W(k.before)
    BY <1>3, <2>1, EndsDiffer
  <2>8. \A f, g \in High : a[f] = a[g] /\ a[f] # Closed => f = g
    BY <1>3, <2>2
  <2> QED
    BY <2>5, <2>6, <2>7, <2>8
<1>5. /\ b \in [Fds -> Opens]
      /\ b[0] = IF k.before = 0 THEN Tty ELSE R(k.before)
      /\ b[1] = a[1] /\ b[2] = Tty
      /\ \A f \in High : b[f] = IF k.before # 0 /\ f \in {k.in[1], k.in[2]}
                               THEN Closed ELSE a[f]
  <2>1. CASE k.before = 0
    BY <1>1, <1>3, <2>1
  <2>2. CASE k.before # 0
    <3>1. \A f \in Fds : f < 0 => a[f] # Closed
      BY Numbers DEF High
    <3>2. a[k.in[1]] # Closed /\ k.in[1] # k.in[2]
      BY <1>4, <2>2, EndsDiffer DEF ForkedOK
    <3>3. b = Redirect(a, 0, k.in[1], k.in[2])
      BY <1>1, <2>2
    <3>4. /\ b \in [Fds -> Opens]
          /\ \A f \in Fds : b[f] =
               IF f = 0 THEN a[k.in[1]]
               ELSE IF f \in {k.in[1], k.in[2]} THEN Closed ELSE a[f]
      BY <1>1, <1>3, <2>2, <3>1, <3>2, <3>3, OpensHas, RedirectTable
    <3> HIDE DEF b
    <3> QED
      BY <1>1, <1>3, <1>4, <2>2, <3>4, Numbers
  <2> QED
    BY <2>1, <2>2
<1> HIDE DEF b
<1>6. EndsIn(b, S)
  <2> SUFFICES ASSUME NEW f \in High, b[f] # Closed
               PROVE  \E n \in S : b[f] \in {R(n), W(n)}
    BY DEF EndsIn
  <2>1. b[f] = k.fds[f]
    BY <1>3, <1>5
  <2>2. PICK n \in S \cup ({k.before, k.after} \ {0}) : b[f] \in {R(n), W(n)}
    BY <2>1 DEF ForkedOK, EndsIn
  <2>3. n \in S \/ (n = k.before /\ k.before # 0) \/ (n = k.after /\ k.after # 0)
    BY <2>2
  <2>4. k.before # 0 => b[f] \notin {R(k.before), W(k.before)}
    <3>1. k.before # 0 => b[f] # W(k.before)
      BY <1>4, <1>5
    <3>2. k.before # 0 => b[f] # R(k.before)
      BY <1>1, <1>4, <1>5
    <3> QED
      BY <3>1, <3>2
  <2>5. k.after # 0 => b[f] \notin {R(k.after), W(k.after)}
    BY <1>4, <1>5
  <2> QED
    BY <2>2, <2>3, <2>4, <2>5
<1>7. /\ "out" \in redir => k.after = 0
      /\ "in" \in redir => k.before = 0
      /\ redir \subseteq {"in", "out"}
  BY <1>1 DEF Redirections, ForkedOK
<1>8. b[0] # Closed
  BY <1>5, EndsDiffer
<1>9. /\ c \in [Fds -> Opens]
      /\ \A f \in Fds : c[f] = IF "out" \in redir /\ f = 1
                              THEN IF "out" \in missing THEN Closed ELSE File
                              ELSE b[f]
  <2>1. CASE "out" \in redir /\ "out" \notin missing
    <3>1. \A f \in Fds : f < 1 => b[f] # Closed
      BY <1>8, Numbers DEF High
    <3>2. c = Open(close(b, 1), File)
      BY <2>1
    <3> QED
      BY <1>5, <2>1, <3>1, <3>2, OpensHas, FileTable
  <2>2. CASE "out" \in redir /\ "out" \in missing
    <3>1. c = close(b, 1)
      BY <2>2
    <3> QED
      BY <1>5, <2>2, <3>1, Numbers, OpensHas, CloseTable
  <2>3. CASE "out" \notin redir
    BY <1>5, <2>3
  <2> QED
    BY <2>1, <2>2, <2>3
<1> HIDE DEF c
<1>10. /\ d \in [Fds -> Opens]
       /\ \A f \in Fds : d[f] = IF "in" \in redir /\ f = 0
                               THEN IF "in" \in missing THEN Closed ELSE File
                               ELSE c[f]
  <2>1. CASE "in" \in redir /\ "in" \notin missing
    <3>1. \A f \in Fds : f < 0 => c[f] # Closed
      BY Numbers DEF High
    <3>2. d = Open(close(c, 0), File)
      BY <2>1
    <3> QED
      BY <1>9, <2>1, <3>1, <3>2, OpensHas, FileTable
  <2>2. CASE "in" \in redir /\ "in" \in missing
    <3>1. d = close(c, 0)
      BY <2>2
    <3> QED
      BY <1>9, <2>2, <3>1, Numbers, OpensHas, CloseTable
  <2>3. CASE "in" \notin redir
    BY <1>9, <2>3
  <2> QED
    BY <2>1, <2>2, <2>3
<1>11. WithFiles(ChildTable(k), redir, missing) = d
  BY DEF WithFiles, ChildTable, a, b, c
<1> HIDE DEF d
<1>12. /\ d[0] = IF "in" \in redir
                 THEN IF "in" \in missing THEN Closed ELSE File ELSE b[0]
       /\ d[1] = IF "out" \in redir
                 THEN IF "out" \in missing THEN Closed ELSE File ELSE b[1]
       /\ d[2] = b[2]
       /\ \A f \in High : d[f] = b[f]
  BY <1>9, <1>10, Numbers
<1>13. EndsIn(d, S)
  BY <1>6, <1>12 DEF EndsIn
<1> QED
  BY <1>3, <1>5, <1>7, <1>10, <1>11, <1>12, <1>13 DEF RunningOK, Tables

(* What is open in a table, counted.                                        *)
LEMMA OpenCount ==
  ASSUME NEW t
  PROVE  IsFiniteSet(OpenIn(t)) /\ Cardinality(OpenIn(t)) \in Nat
<1>1. OpenIn(t) \subseteq High /\ IsFiniteSet(High)
  BY Numbers, FS_Interval DEF OpenIn, High
<1> QED
  BY <1>1, FS_Subset, FS_CardinalityType

LEMMA OneLess ==
  ASSUME NEW V, NEW t \in [Fds -> V], Closed \in V, NEW n \in High, t[n] # Closed
  PROVE  /\ close(t, n) \in [Fds -> V]
         /\ \A f \in Fds : close(t, n)[f] = IF f = n THEN Closed ELSE t[f]
         /\ Cardinality(OpenIn(close(t, n))) = Cardinality(OpenIn(t)) - 1
<1>1. /\ close(t, n) \in [Fds -> V]
      /\ \A f \in Fds : close(t, n)[f] = IF f = n THEN Closed ELSE t[f]
  BY Numbers, CloseTable
<1>2. OpenIn(close(t, n)) = OpenIn(t) \ {n} /\ n \in OpenIn(t)
  BY <1>1, Numbers DEF OpenIn
<1> QED
  BY <1>1, <1>2, OpenCount, FS_RemoveElement

LEMMA TwoMore ==
  ASSUME NEW t, NEW u, NEW r \in High, NEW w \in High, r # w,
         t[r] = Closed, t[w] = Closed, u[r] # Closed, u[w] # Closed,
         \A f \in High : f \notin {r, w} => u[f] = t[f]
  PROVE  Cardinality(OpenIn(u)) = Cardinality(OpenIn(t)) + 2
<1>1. OpenIn(u) = (OpenIn(t) \cup {r}) \cup {w} /\ r \notin OpenIn(t)
      /\ w \notin OpenIn(t) \cup {r}
  BY DEF OpenIn
<1>2. /\ IsFiniteSet(OpenIn(t) \cup {r})
      /\ Cardinality(OpenIn(t) \cup {r}) = Cardinality(OpenIn(t)) + 1
  BY <1>1, OpenCount, FS_AddElement
<1>3. Cardinality((OpenIn(t) \cup {r}) \cup {w}) = Cardinality(OpenIn(t) \cup {r}) + 1
  BY <1>1, <1>2, FS_AddElement
<1> QED
  BY <1>1, <1>2, <1>3, OpenCount

(* A pipe can be made whenever the descriptors in use leave two.            *)
LEMMA RoomForPipe ==
  ASSUME NEW V, NEW t \in [Fds -> V], NEW k, R(k) \in V, W(k) \in V, Std(t),
         Cardinality(OpenIn(t)) + 1 <= MaxFd - 3
  PROVE  \E r, w \in High :
           /\ r # w /\ t[r] = Closed /\ t[w] = Closed
           /\ PipeFds(t) = <<r, w>>
           /\ WithPipe(t, k) \in [Fds -> V]
           /\ \A f \in Fds :
                WithPipe(t, k)[f] =
                  IF f = r THEN R(k) ELSE IF f = w THEN W(k) ELSE t[f]
           /\ Cardinality(OpenIn(WithPipe(t, k))) = Cardinality(OpenIn(t)) + 2
<1>1. \E f, g \in High : f # g /\ f \notin OpenIn(t) /\ g \notin OpenIn(t)
  <2>1. OpenIn(t) \subseteq 3 .. MaxFd /\ 3 <= MaxFd /\ MaxFd \in Nat
    BY Numbers DEF OpenIn, High
  <2> QED
    BY <2>1, TwoLeftOut DEF High
<1>2. \E f, g \in High : f # g /\ t[f] = Closed /\ t[g] = Closed
  BY <1>1 DEF OpenIn
<1>3. t[0] # Closed /\ t[1] # Closed /\ t[2] # Closed
  BY EndsDiffer DEF Std
<1>4. PICK r \in High, w \in High :
           /\ r # w /\ t[r] = Closed /\ t[w] = Closed
           /\ PipeFds(t) = <<r, w>>
           /\ WithPipe(t, k) \in [Fds -> V]
           /\ \A f \in Fds :
                WithPipe(t, k)[f] =
                  IF f = r THEN R(k) ELSE IF f = w THEN W(k) ELSE t[f]
  BY <1>2, <1>3, NewPipe, SMTT(30)
<1>5. Cardinality(OpenIn(WithPipe(t, k))) = Cardinality(OpenIn(t)) + 2
  <2> DEFINE u == WithPipe(t, k)
  <2>1. u[r] # Closed /\ u[w] # Closed
    BY <1>4, EndsDiffer, Numbers
  <2>2. \A f \in High : f \notin {r, w} => u[f] = t[f]
    BY <1>4, Numbers
  <2> HIDE DEF u
  <2>3. Cardinality(OpenIn(u)) = Cardinality(OpenIn(t)) + 2
    BY <1>4, <2>1, <2>2, TwoMore
  <2> QED
    BY <2>3 DEF u
<1> QED
  BY <1>4, <1>5

------------------------------------------------------------------------------
(* Every action preserves the invariant.                                    *)

(* Nothing a table or a child can be is lost when a pipe is made.           *)
LEMMA Grow ==
  ASSUME pipes \in Nat, pipes' \in Nat, pipes <= pipes'
  PROVE  Tables \subseteq Tables' /\ Kids \subseteq Kids'
<1>1. Opens \subseteq Opens'
  BY DEF Opens, R, W, Tty, File, Closed
<1>2. Fds' = Fds /\ Pairs' = Pairs
  BY DEF Fds, Pairs, NoPipe
<1>3. Tables \subseteq Tables'
  BY <1>1, <1>2 DEF Tables
<1> QED
  BY <1>2, <1>3 DEF Kids

LEMMA MoreSpare ==
  ASSUME NEW S, NEW T, S \subseteq T, NEW k
  PROVE  /\ ForkedOK(k, S) => ForkedOK(k, T)
         /\ RunningOK(k, S) => RunningOK(k, T)
BY DEF ForkedOK, RunningOK, EndsIn

(* A step of the shell that makes no child leaves the children as they are. *)
LEMMA SameKids ==
  ASSUME KidsOK, OneEach, UNCHANGED kids, pipes \in Nat, pipes' \in Nat,
         pipes <= pipes', Spare \subseteq Spare'
  PROVE  KidsOK' /\ OneEach'
<1>1. kids' \in Seq(Kids')
  <2>1. Kids \subseteq Kids'
    BY Grow
  <2> HIDE DEF Kids
  <2> QED
    BY <2>1 DEF KidsOK
<1> QED
  BY <1>1, MoreSpare DEF KidsOK, OneEach

LEMMA InitIInv == Init => IInv
<1> SUFFICES ASSUME Init PROVE IInv
  OBVIOUS
<1> USE DEF Init
<1>1. shell \in Tables /\ Std(shell)
  BY Numbers DEF Tables, Opens, Std
<1>2. \A f \in High : shell[f] = Closed
  BY Numbers DEF High
<1>3. OpenIn(shell) = {}
  BY <1>2 DEF OpenIn
<1>4. CountOK
  BY <1>3, FS_EmptySet, BoundsAssumption DEF CountOK, AtHand, Launching, BoundsAssumption
<1>5. LineOK
  BY DEF LineOK, Launching
<1>6. ShellOK
  BY <1>1, <1>2 DEF ShellOK, Once, EndsIn
<1>7. PendingOK /\ OneEach /\ KidsOK
  BY DEF PendingOK, OneEach, KidsOK
<1> QED
  BY <1>4, <1>5, <1>6, <1>7 DEF IInv

(* execute: the spare pipes stay spare, and a line of several commands      *)
(* starts with a pipe that is nobody's yet.                                 *)
LEMMA executeIInv ==
  ASSUME IInv, NEW n \in 1 .. MaxStages, execute(n)
  PROVE  IInv'
<1>1. /\ pc = "prompt" /\ pc' = "fork" /\ stage' = 1 /\ stages' = n /\ in' = NoPipe
      /\ UNCHANGED <<kids, piped>>
  BY DEF execute
<1>2. /\ n \in Nat /\ n >= 1 /\ pipes \in Nat /\ asked \in Nat /\ piped \in Nat
      /\ asked' = asked + n /\ asked' <= MaxCommands /\ piped <= asked
      /\ Cardinality(OpenIn(shell)) = piped
      /\ MaxStages \in Nat /\ MaxCommands \in Nat /\ n <= MaxStages
  BY <1>1, BoundsAssumption
     DEF execute, IInv, CountOK, AtHand, Launching, BoundsAssumption
<1>3. shell \in [Fds -> Opens] /\ Std(shell) /\ Once(shell) /\ EndsIn(shell, Spare)
  BY <1>1 DEF IInv, ShellOK, Tables, Pending, Launching, EndsIn
<1>4. KidsOK /\ OneEach
  BY DEF IInv
<1>5. \A i \in DOMAIN kids : kids[i].before \in 0 .. pipes /\ kids[i].after \in 0 .. pipes
                             /\ (kids[i].before # 0 => kids[i].before # kids[i].after)
  BY DEF IInv, PendingOK
<1>6. \A k \in Spare : k \in 1 .. pipes /\ k \notin Used
  BY DEF Spare
<1>7. CASE n = 1
  <2>1. UNCHANGED <<shell, pipes>> /\ out' = NoPipe
    BY <1>7 DEF execute
  <2>2. Pending' = {} /\ Launching' /\ Used' = Used
    BY <1>1, <1>7, <2>1 DEF Pending, Launching, Used
  <2>3. Spare \subseteq Spare'
    BY <1>6, <2>1, <2>2 DEF Spare
  <2>4. CountOK'
    BY <1>1, <1>2, <1>7, <2>1 DEF CountOK, AtHand
  <2>5. LineOK'
    BY <1>1, <1>2, <1>7, <2>1 DEF LineOK
  <2>6. ShellOK'
    BY <1>2, <1>3, <2>1, <2>3, Grow DEF ShellOK, EndsIn, Once, Std, Tables
  <2>7. PendingOK'
    BY <1>1, <1>5, <2>1, <2>2 DEF PendingOK
  <2>8. KidsOK' /\ OneEach'
    BY <1>1, <1>2, <1>4, <2>1, <2>3, SameKids
  <2> QED
    BY <2>4, <2>5, <2>6, <2>7, <2>8 DEF IInv
<1>8. CASE n > 1
  <2> DEFINE p == pipes + 1
             V == Opens \cup {R(p), W(p)}
  <2>1. out' = PipeFds(shell) /\ pipes' = p /\ shell' = WithPipe(shell, p)
    BY <1>8 DEF execute
  <2>2. V = Opens'
    BY <1>2, <2>1 DEF Opens, R, W, Tty, File, Closed
  <2>3. Cardinality(OpenIn(shell)) + 1 <= MaxFd - 3
    BY <1>2, <1>8, Numbers
  <2>4. shell \in [Fds -> V] /\ R(p) \in V /\ W(p) \in V
    BY <1>3
  <2> HIDE DEF V
  <2>5. PICK r \in High, w \in High :
           /\ r # w /\ shell[r] = Closed /\ shell[w] = Closed
           /\ PipeFds(shell) = <<r, w>>
           /\ WithPipe(shell, p) \in [Fds -> V]
           /\ \A f \in Fds :
                WithPipe(shell, p)[f] =
                  IF f = r THEN R(p) ELSE IF f = w THEN W(p) ELSE shell[f]
           /\ Cardinality(OpenIn(WithPipe(shell, p))) = Cardinality(OpenIn(shell)) + 2
    BY <1>3, <2>3, <2>4, RoomForPipe
  <2>6. /\ out' = <<r, w>> /\ shell' \in Tables'
        /\ shell'[r] = R(p) /\ shell'[w] = W(p) /\ Std(shell')
        /\ \A f \in High : f \notin {r, w} => shell'[f] = shell[f]
        /\ Cardinality(OpenIn(shell')) = piped + 2
    BY <1>2, <1>3, <2>1, <2>2, <2>5, Numbers DEF Tables, Std, Fds
  <2>7. Pending' = {p} /\ Launching' /\ Used' = Used
    BY <1>1, <1>2, <1>5, <1>8, <2>1 DEF Pending, Launching, Used, HasNext
  <2>8. Spare \subseteq Spare'
    BY <1>2, <1>6, <2>1, <2>7 DEF Spare
  <2>9. \A f \in High : shell[f] \notin {R(p), W(p)}
    BY <1>2, <1>3, <1>6, EndsDiffer DEF EndsIn
  <2>10. CountOK'
    BY <1>1, <1>2, <1>8, <2>1, <2>6, <2>7 DEF CountOK, AtHand
  <2>11. LineOK'
    BY <1>1, <1>2, <1>8, <2>1, <2>5, <2>6 DEF LineOK
  <2>12. Once(shell')
    BY <1>3, <2>6, <2>9, EndsDiffer DEF Once
  <2>13. EndsIn(shell', Spare' \cup Pending')
    BY <1>3, <2>6, <2>7, <2>8 DEF EndsIn
  <2>14. ShellOK'
    BY <2>6, <2>12, <2>13 DEF ShellOK, Once, EndsIn, Std
  <2>15. PendingOK'
    BY <1>1, <1>2, <1>5, <2>1, <2>7 DEF PendingOK
  <2>16. KidsOK' /\ OneEach'
    BY <1>1, <1>2, <1>4, <2>1, <2>8, SameKids
  <2> QED
    BY <2>10, <2>11, <2>14, <2>15, <2>16 DEF IInv
<1> QED
  BY <1>2, <1>7, <1>8

(* fork: the child knows the pipes at hand, which no child has been given.  *)
LEMMA forkIInv ==
  ASSUME IInv, fork
  PROVE  IInv'
<1> DEFINE kid ==
     [state |-> "forked", fds |-> shell, in |-> in, out |-> out,
      next |-> HasNext, redir |-> {}, missing |-> {},
      before |-> IF stage = 1 THEN 0 ELSE pipes - 1,
      after |-> IF HasNext THEN pipes ELSE 0]
<1>1. /\ pc = "fork" /\ pc' = "parent" /\ Launching /\ Launching'
      /\ UNCHANGED <<shell, stage, stages, in, out, pipes, asked, piped>>
  BY DEF fork, Launching
<1>2. /\ pipes \in Nat /\ stages \in 1 .. MaxStages /\ stage \in 1 .. stages
      /\ MaxStages \in Nat
      /\ stage > 1 => pipes > 1
      /\ stages > 1 => pipes > 0
      /\ stage > 1 => stages > 1
      /\ HasNext <=> stage < stages
  BY <1>1, BoundsAssumption
     DEF IInv, CountOK, LineOK, BoundsAssumption, HasNext
<1>3. Pending' = Pending /\ HasNext' = HasNext
  BY <1>1 DEF Pending, HasNext
<1>4. Pending = {kid.before, kid.after} \ {0}
  BY <1>1, <1>2 DEF Pending
<1>5. CountOK'
  BY <1>1 DEF IInv, CountOK, AtHand
<1>6. LineOK'
  BY <1>1 DEF IInv, LineOK, Lacks
<1>7. Opens' = Opens /\ Tables' = Tables /\ Kids' = Kids
  BY <1>1 DEF Opens, Tables, Kids, Fds, Pairs
<1>8. CASE UNCHANGED kids
  <2>1. Spare' = Spare
    BY <1>1, <1>3, <1>8 DEF Spare, Used
  <2>2. ShellOK'
    BY <1>1, <1>3, <1>7, <2>1 DEF IInv, ShellOK, Std, Once, EndsIn
  <2>3. PendingOK'
    BY <1>1, <1>3, <1>8 DEF IInv, PendingOK
  <2>4. KidsOK' /\ OneEach'
    BY <1>1, <1>2, <1>8, <2>1, SameKids DEF IInv
  <2> QED
    BY <1>5, <1>6, <2>2, <2>3, <2>4 DEF IInv
<1>9. CASE kids' = Append(kids, kid)
  <2>1. /\ kids \in Seq(Kids)
        /\ shell \in Tables /\ in \in Pairs /\ out \in Pairs
    BY <1>1, <1>2, Numbers DEF IInv, KidsOK, ShellOK, LineOK, Pairs
  <2>2. kid \in Kids
    <3>1. kid.next \in BOOLEAN
      BY DEF HasNext
    <3>2. kid.before \in Nat /\ kid.after \in Nat /\ kid.fds \in Tables
      BY <1>2, <2>1
    <3> QED
      BY <2>1, <3>1, <3>2 DEF Kids
  <2>3. /\ kids' \in Seq(Kids)
        /\ DOMAIN kids = 1 .. Len(kids) /\ Len(kids) \in Nat
        /\ DOMAIN kids' = 1 .. Len(kids) + 1
        /\ \A i \in DOMAIN kids : i \in DOMAIN kids' /\ kids'[i] = kids[i]
        /\ kids'[Len(kids) + 1] = kid
    BY <1>9, <2>1, <2>2
  <2> HIDE DEF kid
  <2>4. \A i \in DOMAIN kids' : i \in DOMAIN kids \/ kids'[i] = kid
    BY <2>3
  <2>5. Used' = Used \cup ({kid.before, kid.after} \ {0})
    BY <1>1, <1>2, <2>3, <2>4 DEF Used, kid
  <2>6. Spare' = Spare
    BY <1>1, <1>3, <1>4, <2>5 DEF Spare
  <2>7. ShellOK'
    BY <1>1, <1>3, <1>7, <2>6 DEF IInv, ShellOK, Std, Once, EndsIn
  <2>8. ForkedOK(kid, Spare)
    BY <1>1, <1>2, <1>4 DEF IInv, ForkedOK, ShellOK, LineOK, kid
  <2>9. KidsOK'
    BY <1>7, <2>3, <2>4, <2>6, <2>8 DEF IInv, KidsOK, kid
  <2>10. /\ kid.before \in 0 .. pipes /\ kid.after \in 0 .. pipes
         /\ kid.before # 0 => kid.before # kid.after
         /\ pipes \in Pending => kid.before # pipes
         /\ kid.before # 0 => kid.before = pipes - 1 /\ pipes - 1 \in Pending
         /\ kid.after # 0 => kid.after = pipes /\ pipes \in Pending
    BY <1>1, <1>2 DEF kid, Pending
  <2>11. \A i \in DOMAIN kids :
           /\ kids[i].before \in 0 .. pipes /\ kids[i].after \in 0 .. pipes
           /\ kids[i].before # 0 => kids[i].before # kids[i].after
           /\ pipes \in Pending => kids[i].before # pipes /\ kids[i].after # pipes
           /\ pipes - 1 \in Pending => kids[i].before # pipes - 1
    BY <1>1 DEF IInv, PendingOK
  <2>12. PendingOK'
    BY <1>1, <1>3, <2>3, <2>4, <2>10, <2>11 DEF PendingOK
  <2>13. OneEach'
    <3> SUFFICES ASSUME NEW i \in DOMAIN kids', NEW j \in DOMAIN kids', i # j
                 PROVE  /\ kids'[i].before # 0 => kids'[i].before # kids'[j].before
                        /\ kids'[i].after # 0 => kids'[i].after # kids'[j].after
      BY DEF OneEach
    <3>1. CASE i \in DOMAIN kids /\ j \in DOMAIN kids
      BY <2>3, <3>1 DEF IInv, OneEach
    <3>2. CASE i \in DOMAIN kids /\ kids'[j] = kid
      BY <2>3, <2>10, <2>11, <3>2
    <3>3. CASE kids'[i] = kid /\ j \in DOMAIN kids
      BY <2>3, <2>10, <2>11, <3>3
    <3> QED
      BY <2>3, <3>1, <3>2, <3>3
  <2> QED
    BY <1>5, <1>6, <2>7, <2>9, <2>12, <2>13 DEF IInv
<1> QED
  BY <1>8, <1>9 DEF fork

(* The parent's part of a command closes the write end of the pipe to the   *)
(* next command and the read end of the pipe from the one before.           *)
LEMMA AfterFork ==
  ASSUME IInv, pc = "parent"
  PROVE  /\ ShellAfterFork \in [Fds -> Opens] /\ Std(ShellAfterFork)
         /\ \A f \in High :
              ShellAfterFork[f] =
                IF (stages > 1 /\ f = out[2]) \/ (stage > 1 /\ f = in[1])
                THEN Closed ELSE shell[f]
         /\ Cardinality(OpenIn(ShellAfterFork)) =
              piped + (IF stages > 1 THEN 1 ELSE 0)
<1> DEFINE t == IF out # NoPipe THEN close(shell, out[2]) ELSE shell
<1>1. /\ shell \in [Fds -> Opens] /\ Std(shell) /\ Closed \in Opens
      /\ stages \in Nat /\ stage \in Nat /\ stage >= 1 /\ stage <= stages
      /\ stage > 1 => shell[in[1]] = R(pipes - 1)
      /\ stages > 1 => shell[out[2]] = W(pipes)
      /\ piped \in Nat /\ Launching
      /\ Cardinality(OpenIn(shell)) =
           piped + (IF stages > 1 THEN IF stage > 1 THEN 3 ELSE 2 ELSE 0)
  BY OpensHas, BoundsAssumption
     DEF IInv, ShellOK, LineOK, Launching, CountOK, AtHand, Tables, BoundsAssumption
<1>2. /\ out # NoPipe <=> stages > 1
      /\ stages > 1 => out[2] \in High
      /\ in # NoPipe <=> stage > 1
      /\ stage > 1 => in[1] \in High
  BY <1>1, PairIsPipe DEF IInv, LineOK, Launching
<1>3. /\ t \in [Fds -> Opens]
      /\ \A f \in Fds : t[f] = IF stages > 1 /\ f = out[2] THEN Closed ELSE shell[f]
      /\ Cardinality(OpenIn(t)) =
           Cardinality(OpenIn(shell)) - (IF stages > 1 THEN 1 ELSE 0)
  <2>1. CASE stages > 1
    BY <1>1, <1>2, <2>1, EndsDiffer, OneLess
  <2>2. CASE ~ (stages > 1)
    BY <1>1, <1>2, <2>2
  <2> QED
    BY <2>1, <2>2
<1>4. ShellAfterFork = IF in # NoPipe THEN close(t, in[1]) ELSE t
  BY DEF ShellAfterFork
<1> HIDE DEF t
<1>5. /\ ShellAfterFork \in [Fds -> Opens]
      /\ \A f \in Fds : ShellAfterFork[f] =
           IF stage > 1 /\ f = in[1] THEN Closed ELSE t[f]
      /\ Cardinality(OpenIn(ShellAfterFork)) =
           Cardinality(OpenIn(t)) - (IF stage > 1 THEN 1 ELSE 0)
  <2>1. CASE stage > 1
    <3>1. t[in[1]] # Closed
      BY <1>1, <1>2, <1>3, <2>1, EndsDiffer, Numbers
    <3> QED
      BY <1>1, <1>2, <1>3, <1>4, <2>1, <3>1, OneLess
  <2>2. CASE ~ (stage > 1)
    BY <1>2, <1>3, <1>4, <2>2, OpenCount
  <2> QED
    BY <2>1, <2>2
<1>6. Std(ShellAfterFork)
  BY <1>1, <1>2, <1>3, <1>5, Numbers DEF Std
<1>7. \A f \in High :
        ShellAfterFork[f] =
          IF (stages > 1 /\ f = out[2]) \/ (stage > 1 /\ f = in[1])
          THEN Closed ELSE shell[f]
  BY <1>3, <1>5, Numbers
<1>8. Cardinality(OpenIn(ShellAfterFork)) = piped + (IF stages > 1 THEN 1 ELSE 0)
  BY <1>1, <1>3, <1>5
<1> QED
  BY <1>5, <1>6, <1>7, <1>8

(* What is left open: ends of pipes no command will be given any more, and  *)
(* the read end for the next command.                                       *)
LEMMA AfterForkEnds ==
  ASSUME IInv, pc = "parent"
  PROVE  /\ Once(ShellAfterFork)
         /\ EndsIn(ShellAfterFork,
                   Spare \cup (IF HasNext THEN {pipes} ELSE {}))
         /\ stages > 1 => /\ ShellAfterFork[out[1]] = R(pipes)
                          /\ Lacks(ShellAfterFork, W(pipes))
<1> DEFINE u == ShellAfterFork
<1>1. \A f \in High :
        u[f] = IF (stages > 1 /\ f = out[2]) \/ (stage > 1 /\ f = in[1])
               THEN Closed ELSE shell[f]
  BY AfterFork
<1> HIDE DEF u
<1>2. /\ Once(shell) /\ EndsIn(shell, Spare \cup Pending)
      /\ pipes \in Nat
      /\ stages > 1 => /\ shell[out[1]] = R(pipes) /\ shell[out[2]] = W(pipes)
                       /\ out[1] \in High /\ out[2] \in High
      /\ stage > 1 => /\ shell[in[1]] = R(pipes - 1) /\ in[1] \in High
                      /\ Lacks(shell, W(pipes - 1))
      /\ stages \in Nat /\ stage \in 1 .. stages
  BY PairIsPipe, BoundsAssumption
     DEF IInv, ShellOK, LineOK, Launching, CountOK, BoundsAssumption
<1>3. Once(u)
  BY <1>1, <1>2 DEF Once
<1>4. stages > 1 => u[out[1]] = R(pipes) /\ Lacks(u, W(pipes))
  <2> SUFFICES ASSUME stages > 1
               PROVE  u[out[1]] = R(pipes) /\ Lacks(u, W(pipes))
    OBVIOUS
  <2>1. out[1] # out[2] /\ (stage > 1 => out[1] # in[1])
    <3>1. stage > 1 => R(pipes) # R(pipes - 1)
      BY <1>2, EndsDiffer
    <3> QED
      BY <1>2, <3>1, EndsDiffer
  <2>2. u[out[1]] = R(pipes)
    BY <1>1, <1>2, <2>1
  <2>3. Lacks(u, W(pipes))
    BY <1>1, <1>2, EndsDiffer DEF Lacks, Once
  <2> QED
    BY <2>2, <2>3
<1>5. EndsIn(u, Spare \cup (IF HasNext THEN {pipes} ELSE {}))
  <2> SUFFICES ASSUME NEW f \in High, u[f] # Closed
               PROVE  \E k \in Spare \cup (IF HasNext THEN {pipes} ELSE {}) :
                        u[f] \in {R(k), W(k)}
    BY DEF EndsIn
  <2>1. u[f] = shell[f] /\ (stage > 1 => f # in[1])
    BY <1>1
  <2>2. PICK k \in Spare \cup Pending : u[f] \in {R(k), W(k)}
    BY <1>2, <2>1 DEF EndsIn
  <2>3. CASE k = pipes - 1 /\ stage > 1
    BY <1>2, <2>1, <2>2, <2>3, EndsDiffer DEF Lacks, Once
  <2>4. k \in Spare \/ (k = pipes /\ HasNext) \/ (k = pipes - 1 /\ stage > 1)
    BY DEF Pending
  <2> QED
    BY <2>2, <2>3, <2>4
<1> QED
  BY <1>3, <1>4, <1>5 DEF u

(* parent: when another command follows, the pipe just written becomes the  *)
(* one it reads; when none does, the read end of the last pipe stays.       *)
LEMMA parentIInv ==
  ASSUME IInv, parent
  PROVE  IInv'
<1> DEFINE u == ShellAfterFork
<1>1. /\ pc = "parent" /\ Launching
      /\ UNCHANGED <<kids, asked>>
  BY DEF parent, Launching
<1>2. /\ u \in [Fds -> Opens] /\ Std(u) /\ Once(u)
      /\ EndsIn(u, Spare \cup (IF HasNext THEN {pipes} ELSE {}))
      /\ stages > 1 => u[out[1]] = R(pipes) /\ Lacks(u, W(pipes))
      /\ Cardinality(OpenIn(u)) = piped + (IF stages > 1 THEN 1 ELSE 0)
  BY <1>1, AfterFork, AfterForkEnds
<1>3. /\ pipes \in Nat /\ piped \in Nat /\ asked \in 0 .. MaxCommands
      /\ piped <= asked /\ (stages > 1 => piped + 1 <= asked)
      /\ stages \in 1 .. MaxStages /\ stage \in 1 .. stages
      /\ MaxStages \in Nat /\ MaxCommands \in Nat
      /\ HasNext <=> stage < stages
      /\ stages > 1 => /\ pipes > 0 /\ out \in High \X High
                       /\ shell[out[1]] = R(pipes) /\ shell[out[2]] = W(pipes)
  BY <1>1, BoundsAssumption DEF IInv, CountOK, LineOK, BoundsAssumption, HasNext
<1>4. KidsOK /\ OneEach
  BY DEF IInv
<1>5. \A i \in DOMAIN kids :
        /\ kids[i].before \in 0 .. pipes /\ kids[i].after \in 0 .. pipes
        /\ kids[i].before # 0 => kids[i].before # kids[i].after
        /\ HasNext => kids[i].before # pipes
  <2>1. HasNext => pipes \in Pending
    BY <1>1, <1>3 DEF Pending
  <2> QED
    BY <2>1 DEF IInv, PendingOK
<1>6. \A k \in Spare : k \in 1 .. pipes /\ k \notin Used /\ k \notin Pending
  BY DEF Spare
<1>7. HasNext => pipes \notin Spare
  BY <1>1, <1>3 DEF Spare, Pending
<1> HIDE DEF u
<1>8. CASE HasNext
  <2> DEFINE p == pipes + 1
             V == Opens \cup {R(p), W(p)}
  <2>1. /\ stage' = stage + 1 /\ in' = out /\ pipes' = p /\ pc' = "fork"
        /\ out' = PipeFds(u) /\ shell' = WithPipe(u, p)
        /\ UNCHANGED <<stages, piped>>
    BY <1>8 DEF parent, u
  <2>2. V = Opens'
    BY <1>3, <2>1 DEF Opens, R, W, Tty, File, Closed
  <2>3. Cardinality(OpenIn(u)) + 1 <= MaxFd - 3
    BY <1>2, <1>3, <1>8, Numbers
  <2>4. u \in [Fds -> V] /\ R(p) \in V /\ W(p) \in V
    BY <1>2
  <2> HIDE DEF V
  <2>5. PICK r \in High, w \in High :
           /\ r # w /\ u[r] = Closed /\ u[w] = Closed
           /\ PipeFds(u) = <<r, w>>
           /\ WithPipe(u, p) \in [Fds -> V]
           /\ \A f \in Fds :
                WithPipe(u, p)[f] =
                  IF f = r THEN R(p) ELSE IF f = w THEN W(p) ELSE u[f]
           /\ Cardinality(OpenIn(WithPipe(u, p))) = Cardinality(OpenIn(u)) + 2
    BY <1>2, <2>3, <2>4, RoomForPipe
  <2>6. /\ out' = <<r, w>> /\ shell' \in Tables'
        /\ shell'[r] = R(p) /\ shell'[w] = W(p) /\ Std(shell')
        /\ \A f \in High : f \notin {r, w} => shell'[f] = u[f]
        /\ Cardinality(OpenIn(shell')) = piped + 3
    BY <1>2, <1>3, <1>8, <2>1, <2>2, <2>5, Numbers DEF Tables, Std, Fds
  <2>7. /\ Launching' /\ Used' = Used /\ pipes \in Pending'
        /\ \A k \in Pending' : k = pipes \/ k = p
    BY <1>1, <1>3, <1>5, <1>8, <2>1 DEF Pending, Launching, Used, HasNext
  <2>8. Spare \subseteq Spare'
    BY <1>3, <1>6, <1>7, <1>8, <2>1, <2>7 DEF Spare
  <2>9. p \in Spare' \cup Pending'
    BY <1>3, <1>5, <2>1, <2>7 DEF Spare, Used
  <2>10. \A f \in High : u[f] \notin {R(p), W(p)}
    BY <1>2, <1>3, <1>6, <1>8, EndsDiffer DEF EndsIn
  <2>11. CountOK'
    BY <1>1, <1>3, <1>8, <2>1, <2>6, <2>7 DEF CountOK, AtHand
  <2>12. /\ out[1] \in High /\ out[2] \in High /\ out[1] # out[2]
         /\ u[out[1]] = R(pipes) /\ out[1] \notin {r, w}
    BY <1>2, <1>3, <1>8, <2>5, PairIsPipe, EndsDiffer
  <2>13. shell'[in'[1]] = R(pipes' - 1) /\ Lacks(shell', W(pipes' - 1))
    <3>1. pipes' - 1 = pipes /\ W(p) # W(pipes)
      BY <1>3, <2>1, EndsDiffer
    <3>2. Lacks(shell', W(pipes))
      BY <1>2, <1>3, <1>8, <2>6, <3>1, EndsDiffer DEF Lacks
    <3> QED
      BY <2>1, <2>6, <2>12, <3>1, <3>2
  <2>14. LineOK'
    BY <1>3, <1>8, <2>1, <2>5, <2>6, <2>12, <2>13 DEF LineOK
  <2>15. Once(shell')
    BY <1>2, <2>6, <2>10, EndsDiffer DEF Once
  <2>16. EndsIn(shell', Spare' \cup Pending')
    BY <1>2, <1>8, <2>6, <2>7, <2>8, <2>9 DEF EndsIn
  <2>17. ShellOK'
    BY <2>6, <2>15, <2>16 DEF ShellOK, Once, EndsIn, Std
  <2>18. PendingOK'
    BY <1>1, <1>3, <1>5, <1>8, <2>1 DEF PendingOK
  <2>19. KidsOK' /\ OneEach'
    BY <1>1, <1>3, <1>4, <2>1, <2>8, SameKids
  <2> QED
    BY <2>11, <2>14, <2>17, <2>18, <2>19 DEF IInv
<1>9. CASE ~ HasNext
  <2>1. /\ shell' = u /\ pc' = "prompt" /\ stage' = 0 /\ stages' = 0
        /\ in' = NoPipe /\ out' = NoPipe /\ UNCHANGED pipes
        /\ piped' = IF stages > 1 THEN piped + 1 ELSE piped
    BY <1>9 DEF parent, u
  <2>2. Pending' = {} /\ Used' = Used /\ ~ Launching'
    BY <1>1, <2>1 DEF Pending, Launching, Used
  <2>3. Spare \subseteq Spare'
    BY <1>6, <2>1, <2>2 DEF Spare
  <2>4. CountOK'
    BY <1>1, <1>2, <1>3, <2>1, <2>2 DEF CountOK, AtHand
  <2>5. LineOK'
    BY <2>1, <2>2 DEF LineOK
  <2>6. Opens' = Opens
    BY <2>1 DEF Opens
  <2>7. ShellOK'
    BY <1>2, <1>9, <2>1, <2>3, <2>6 DEF ShellOK, EndsIn, Once, Std, Tables, Fds
  <2>8. PendingOK'
    BY <1>1, <1>5, <2>1, <2>2 DEF PendingOK
  <2>9. KidsOK' /\ OneEach'
    BY <1>1, <1>3, <1>4, <2>1, <2>3, SameKids
  <2> QED
    BY <2>4, <2>5, <2>7, <2>8, <2>9 DEF IInv
<1> QED
  BY <1>8, <1>9

(* exec: the child's table is set up and nothing else changes.              *)
LEMMA execIInv ==
  ASSUME IInv, NEW i \in DOMAIN kids, exec(i)
  PROVE  IInv'
<1>1. /\ kids[i].state = "forked"
      /\ UNCHANGED <<pc, shell, stage, stages, in, out, pipes, asked, piped>>
  BY DEF exec
<1> DEFINE Exec(redir, missing) ==
       kids' = [kids EXCEPT
         ![i].state = "running", ![i].redir = redir, ![i].missing = missing,
         ![i].fds = WithFiles(ChildTable(kids[i]), redir, missing),
         ![i].in = NoPipe, ![i].out = NoPipe]
<1>0. PICK redir \in Redirections(kids[i]) :
        \E missing \in SUBSET redir : Exec(redir, missing)
  BY DEF exec
<1>2. PICK missing \in SUBSET redir : Exec(redir, missing)
  BY <1>0
<1> DEFINE k == kids[i]
           t == WithFiles(ChildTable(k), redir, missing)
           r == [state |-> "running", fds |-> t, in |-> NoPipe,
                 out |-> NoPipe, next |-> k.next, redir |-> redir,
                 missing |-> missing,
                 before |-> k.before, after |-> k.after]
<1>3. /\ kids \in Seq(Kids) /\ k \in Kids /\ ForkedOK(k, Spare)
      /\ k.before # 0 => k.before # k.after
  BY <1>1 DEF IInv, KidsOK, PendingOK
<1>4. t \in Tables /\ RunningOK(r, Spare)
  BY <1>3, ExecTable DEF Kids
<1>5. kids' = [kids EXCEPT ![i] = r]
  <2> DEFINE q == [k EXCEPT !.state = "running", !.redir = redir,
                            !.missing = missing, !.fds = t, !.in = NoPipe, !.out = NoPipe]
  <2>1. /\ NoPipe \in Pairs /\ redir \in SUBSET {"in", "out"}
        /\ missing \in SUBSET {"in", "out"}
    BY DEF Pairs, Redirections
  <2>2. /\ q \in Kids
        /\ q.state = "running" /\ q.redir = redir /\ q.missing = missing
        /\ q.fds = t
        /\ q.in = NoPipe /\ q.out = NoPipe
        /\ q.next = k.next /\ q.before = k.before /\ q.after = k.after
    BY <1>3, <1>4, <2>1 DEF Kids
  <2>3. kids' = [kids EXCEPT ![i] = q]
    BY <1>2
  <2> HIDE DEF q
  <2>4. q = r
    BY <2>2 DEF Kids
  <2> QED
    BY <2>3, <2>4
<1>6. r \in Kids
  BY <1>3, <1>4 DEF Kids, Redirections, Pairs
<1>7. r.before = k.before /\ r.after = k.after /\ r.state = "running"
  OBVIOUS
<1> HIDE DEF k, r
<1>8. /\ kids' \in Seq(Kids) /\ DOMAIN kids' = DOMAIN kids
      /\ kids'[i] = r
      /\ \A j \in DOMAIN kids : j # i => kids'[j] = kids[j]
  BY <1>3, <1>5, <1>6
<1>9. \A j \in DOMAIN kids :
        kids'[j].before = kids[j].before /\ kids'[j].after = kids[j].after
  BY <1>7, <1>8 DEF k
<1>10. /\ Pending' = Pending /\ Used' = Used /\ Launching' = Launching
       /\ Opens' = Opens /\ Tables' = Tables /\ Kids' = Kids
  BY <1>1, <1>8, <1>9
     DEF Pending, Used, Launching, HasNext, Opens, Tables, Kids, Fds, Pairs
<1>11. Spare' = Spare
  BY <1>1, <1>10 DEF Spare
<1>12. CountOK' /\ LineOK' /\ ShellOK'
  BY <1>1, <1>10, <1>11
     DEF IInv, CountOK, LineOK, ShellOK, AtHand, Lacks, Std, Once, EndsIn
<1>13. PendingOK' /\ OneEach'
  <2>1. PendingOK'
    BY <1>1, <1>8, <1>9, <1>10 DEF IInv, PendingOK
  <2>2. OneEach'
    BY <1>1, <1>8, <1>9, <1>10 DEF IInv, OneEach
  <2> QED
    BY <2>1, <2>2
<1>14. KidsOK'
  BY <1>4, <1>7, <1>8, <1>10, <1>11 DEF IInv, KidsOK
<1> QED
  BY <1>12, <1>13, <1>14 DEF IInv

(* exit: the pipes of a command that has exited are spare from then on.     *)
LEMMA exitIInv ==
  ASSUME IInv, NEW i \in DOMAIN kids, exit(i)
  PROVE  IInv'
<1> DEFINE r == [state |-> "exited", fds |-> [fd \in Fds |-> Closed],
                 in |-> NoPipe, out |-> NoPipe, next |-> FALSE, redir |-> {},
                 missing |-> {}, before |-> 0, after |-> 0]
<1>1. /\ kids' = [kids EXCEPT ![i] = r]
      /\ UNCHANGED <<pc, shell, stage, stages, in, out, pipes, asked, piped>>
  BY DEF exit
<1>2. r \in Kids
  BY OpensHas DEF Kids, Pairs, Tables
<1>3. r.before = 0 /\ r.after = 0 /\ r.state = "exited"
  OBVIOUS
<1> HIDE DEF r
<1>4. /\ kids' \in Seq(Kids) /\ DOMAIN kids' = DOMAIN kids
      /\ kids'[i] = r
      /\ \A j \in DOMAIN kids : j # i => kids'[j] = kids[j]
  BY <1>1, <1>2 DEF IInv, KidsOK
<1>5. /\ Pending' = Pending /\ Launching' = Launching
      /\ Opens' = Opens /\ Tables' = Tables /\ Kids' = Kids
  BY <1>1 DEF Pending, Launching, HasNext, Opens, Tables, Kids, Fds, Pairs
<1>6. Used' \subseteq Used
  BY <1>1, <1>3, <1>4 DEF Used
<1>7. Spare \subseteq Spare'
  BY <1>1, <1>5, <1>6 DEF Spare
<1>8. CountOK' /\ LineOK' /\ ShellOK'
  BY <1>1, <1>5, <1>7
     DEF IInv, CountOK, LineOK, ShellOK, AtHand, Lacks, Std, Once, EndsIn
<1>9. PendingOK'
  <2>1. pipes \in Nat /\ 0 \notin Pending
    BY DEF IInv, CountOK, Pending
  <2>2. /\ 0 \in 0 .. pipes
        /\ pipes \in Pending => 0 # pipes
        /\ pipes - 1 \in Pending => 0 # pipes - 1
    BY <2>1
  <2>3. \A j \in DOMAIN kids' : j = i \/ (j \in DOMAIN kids /\ kids'[j] = kids[j])
    BY <1>4
  <2> QED
    BY <1>1, <1>3, <1>4, <1>5, <2>2, <2>3 DEF IInv, PendingOK
<1>10. OneEach'
  BY <1>3, <1>4 DEF IInv, OneEach
<1>11. KidsOK'
  BY <1>3, <1>4, <1>5, <1>7, MoreSpare DEF IInv, KidsOK
<1> QED
  BY <1>8, <1>9, <1>10, <1>11 DEF IInv

(* Whatever the shell and its children do, the invariant is preserved.      *)
LEMMA NextIInv == IInv /\ [Next]_vars => IInv'
<1> SUFFICES ASSUME IInv, [Next]_vars PROVE IInv'
  OBVIOUS
<1>1. CASE \E n \in 1 .. MaxStages : execute(n)
  BY <1>1, executeIInv
<1>2. CASE fork
  BY <1>2, forkIInv
<1>3. CASE parent
  BY <1>3, parentIInv
<1>4. CASE \E i \in DOMAIN kids : exec(i)
  BY <1>4, execIInv
<1>5. CASE \E i \in DOMAIN kids : exit(i)
  BY <1>5, exitIInv
<1>6. CASE UNCHANGED vars
  <2>1. UNCHANGED <<pc, shell, kids, stage, stages, in, out, pipes, asked, piped>>
    BY <1>6 DEF vars
  <2>2. /\ Pending' = Pending /\ Used' = Used /\ Launching' = Launching
        /\ Opens' = Opens /\ Tables' = Tables
    BY <2>1 DEF Pending, Used, Launching, HasNext, Opens, Tables, Fds
  <2>3. Spare' = Spare
    BY <2>1, <2>2 DEF Spare
  <2>4. CountOK' /\ LineOK' /\ ShellOK' /\ PendingOK'
    BY <2>1, <2>2, <2>3
       DEF IInv, CountOK, LineOK, ShellOK, PendingOK, AtHand, Lacks, Std, Once, EndsIn
  <2>5. KidsOK' /\ OneEach'
    BY <2>1, <2>3, SameKids DEF IInv, CountOK
  <2> QED
    BY <2>4, <2>5 DEF IInv
<1> QED
  BY <1>1, <1>2, <1>3, <1>4, <1>5, <1>6 DEF Next, Shell

------------------------------------------------------------------------------
(* What the invariant is for.                                               *)

LEMMA IInvTypeOK == IInv => TypeOK
<1> SUFFICES ASSUME IInv PROVE TypeOK
  OBVIOUS
<1>1. \A p \in High \X High : p \in Pairs
  BY Numbers DEF Pairs
<1>2. in \in Pairs /\ out \in Pairs /\ stage \in 0 .. MaxStages
      /\ stages \in 0 .. MaxStages /\ pc \in {"prompt", "fork", "parent"}
  BY <1>1, BoundsAssumption
     DEF IInv, LineOK, Launching, Pairs, BoundsAssumption
<1>3. \A i \in DOMAIN kids : kids[i] \in Kids
  BY DEF IInv, KidsOK
<1>4. pipes \in Nat /\ asked \in 0 .. MaxCommands /\ piped \in 0 .. asked
  BY BoundsAssumption DEF IInv, CountOK, BoundsAssumption
<1> QED
  BY <1>2, <1>3, <1>4 DEF TypeOK, IInv, ShellOK

LEMMA IInvWired == IInv => Wired
BY DEF IInv, KidsOK, RunningOK, Wired

(* Two commands that run do not hold each other's ends: what one holds      *)
(* above its standard streams belongs to no command, and its standard       *)
(* streams are ends of its own pipes.                                       *)
LEMMA OwnEnds ==
  ASSUME IInv, NEW i \in DOMAIN kids, NEW j \in DOMAIN kids,
         kids[j].state = "running", NEW f \in Fds
  PROVE  /\ kids[i].before # 0 /\ kids[j].fds[f] = R(kids[i].before) => i = j
         /\ kids[i].after # 0 /\ kids[j].fds[f] = W(kids[i].after) => i = j
<1>1. RunningOK(kids[j], Spare)
  BY DEF IInv, KidsOK
<1>2. \A k \in Spare : k # kids[i].before /\ k # kids[i].after
  BY DEF Spare, Used
<1>3. CASE f \in High
  BY <1>1, <1>2, <1>3, EndsDiffer DEF RunningOK, EndsIn
<1>4. CASE f = 0
  BY <1>1, <1>4, EndsDiffer DEF RunningOK, IInv, OneEach
<1>5. CASE f = 1
  BY <1>1, <1>5, EndsDiffer DEF RunningOK, IInv, OneEach
<1>6. CASE f = 2
  BY <1>1, <1>6, EndsDiffer DEF RunningOK
<1> QED
  BY <1>3, <1>4, <1>5, <1>6, Numbers

(* Between two lines the shell holds no end of a command's pipe.            *)
LEMMA ShellLetsGo ==
  ASSUME IInv, pc = "prompt", NEW i \in DOMAIN kids, NEW f \in Fds
  PROVE  /\ kids[i].before # 0 => shell[f] # R(kids[i].before)
         /\ kids[i].after # 0 => shell[f] # W(kids[i].after)
<1>1. Std(shell) /\ EndsIn(shell, Spare)
  BY DEF IInv, ShellOK, Pending, Launching, EndsIn
<1>2. \A k \in Spare : k # kids[i].before /\ k # kids[i].after
  BY DEF Spare, Used
<1> QED
  BY <1>1, <1>2, Numbers, EndsDiffer DEF Std, EndsIn

LEMMA IInvSoleEnds == IInv => SoleEnds
<1> SUFFICES ASSUME IInv, pc = "prompt",
                    \A j \in Alive : kids[j].state = "running",
                    NEW i \in Alive
             PROVE  /\ kids[i].before > 0 => Holders(R(kids[i].before)) = {i}
                    /\ kids[i].after > 0  => Holders(W(kids[i].after)) = {i}
  BY DEF SoleEnds
<1>1. \A j \in Alive : j \in DOMAIN kids /\ kids[j].state = "running"
  BY DEF Alive
<1>2. RunningOK(kids[i], Spare) /\ kids[i].before \in Nat /\ kids[i].after \in Nat
  BY <1>1 DEF IInv, KidsOK, PendingOK, CountOK
<1>3. ASSUME kids[i].before > 0 PROVE Holders(R(kids[i].before)) = {i}
  <2>1. kids[i].before # 0 /\ kids[i].fds[0] = R(kids[i].before)
    BY <1>2, <1>3 DEF RunningOK
  <2>2. \A j \in Alive : (\E f \in Fds : kids[j].fds[f] = R(kids[i].before)) <=> j = i
    BY <1>1, <2>1, OwnEnds, Numbers
  <2>3. ~ \E f \in Fds : shell[f] = R(kids[i].before)
    BY <1>1, <2>1, ShellLetsGo
  <2> QED
    BY <2>2, <2>3 DEF Holders
<1>4. ASSUME kids[i].after > 0 PROVE Holders(W(kids[i].after)) = {i}
  <2>1. kids[i].after # 0 /\ kids[i].fds[1] = W(kids[i].after)
    BY <1>2, <1>4 DEF RunningOK
  <2>2. \A j \in Alive : (\E f \in Fds : kids[j].fds[f] = W(kids[i].after)) <=> j = i
    BY <1>1, <2>1, OwnEnds, Numbers
  <2>3. ~ \E f \in Fds : shell[f] = W(kids[i].after)
    BY <1>1, <2>1, ShellLetsGo
  <2> QED
    BY <2>2, <2>3 DEF Holders
<1> QED
  BY <1>3, <1>4

LEMMA IInvOneDescriptor == IInv => OneDescriptorPerPipeline
<1> SUFFICES ASSUME IInv, pc = "prompt"
             PROVE  Cardinality({fd \in Fds \ 0 .. 2 : shell[fd] # Closed}) = piped
  BY DEF OneDescriptorPerPipeline
<1>1. Fds \ 0 .. 2 = High
  BY Numbers DEF High, Fds
<1>2. Cardinality(OpenIn(shell)) = piped
  BY DEF IInv, CountOK, AtHand, Launching
<1> QED
  BY <1>1, <1>2 DEF OpenIn

(* The inductive invariant holds in every state of every run of the shell,  *)
(* for lines of any length and any number of them.                          *)
THEOREM LaunchInvariant == Spec => []IInv
<1>1. Init => IInv
  BY InitIInv
<1>2. IInv /\ [Next]_vars => IInv'
  BY NextIInv
<1> QED
  BY <1>1, <1>2, PTL DEF Spec

(* Every variable keeps the values the code can give it; in particular the  *)
(* numbers executeHelper keeps are always two numbers of the table or none. *)
THEOREM LaunchTypeOK == Spec => []TypeOK
BY LaunchInvariant, IInvTypeOK, PTL

(* A command of a pipeline starts with its standard input and output on the *)
(* pipes of its neighbours, or on the terminal or its files.                *)
THEOREM CommandsAreWired == Spec => []Wired
BY LaunchInvariant, IInvWired, PTL

(* Once a line is launched and its commands run, each end of a pipe is open *)
(* in the one command that uses it and nowhere else.                        *)
THEOREM EndsHaveOneHolder == Spec => []SoleEnds
BY LaunchInvariant, IInvSoleEnds, PTL

(* A line of several commands costs the shell one descriptor for good.      *)
THEOREM PipelinesLeakOne == Spec => []OneDescriptorPerPipeline
BY LaunchInvariant, IInvOneDescriptor, PTL
==============================================================================
