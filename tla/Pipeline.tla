------------------------------- MODULE Pipeline -------------------------------
(***************************************************************************)
(* The descriptors of the lab 5 shell and of its children while a command  *)
(* line with pipes is launched (execute, executeHelper and newPipe of      *)
(* main.c).  A descriptor table maps numbers to what they are open on; the *)
(* kernel hands out the lowest free number, so a number the shell has      *)
(* closed is soon the number of another pipe, and a child that still knows *)
(* it by its old name closes the wrong end unless it has stopped using it. *)
(***************************************************************************)
EXTENDS Integers, Sequences, FiniteSets, FiniteSetsExt

CONSTANTS
  MaxCommands,  \* bound: commands in all lines run
  MaxStages,    \* bound: commands in a line
  MaxFd         \* bound: largest descriptor number, more than the lines use

ASSUME BoundsAssumption ==
  /\ MaxCommands \in Nat /\ MaxStages \in Nat \ {0}
  /\ MaxFd \in Nat /\ MaxFd >= MaxCommands + 5

VARIABLES
  pc,      \* what the shell does next: "prompt", "fork" or "parent"
  shell,   \* descriptor table of the shell
  kids,    \* children, in the order of their forks
  stage,   \* position in the line of the command at hand
  stages,  \* commands in the line
  in,      \* pipe1 of executeHelper: the pipe the command reads from
  out,     \* pipe2 of executeHelper: the pipe it writes to
  pipes,   \* pipes created
  asked,   \* commands in the lines run
  piped    \* ghost: lines of several commands launched to the end

vars == <<pc, shell, kids, stage, stages, in, out, pipes, asked, piped>>

(* What a number is open on: a pipe end, the terminal, a file or nothing.   *)
R(k)   == <<k, "read">>
W(k)   == <<k, "write">>
Tty    == <<0, "tty">>
File   == <<0, "file">>
Closed == <<0, "closed">>
Opens  == {R(k) : k \in 1 .. pipes} \cup {W(k) : k \in 1 .. pipes} \cup
            {Tty, File, Closed}

Fds   == 0 .. MaxFd
NoPipe == <<>>
Pairs == {NoPipe} \cup (Fds \X Fds)

------------------------------------------------------------------------------
(* Kernel calls on a table.                                                 *)

close(t, fd) == [t EXCEPT ![fd] = Closed]
LowestFree(t) == Min({fd \in Fds : t[fd] = Closed})
Open(t, what) == [t EXCEPT ![LowestFree(t)] = what]
dup(t, fd) == IF t[fd] = Closed THEN t ELSE Open(t, t[fd])

(* newPipe: the numbers of the two ends, and the table with them open.      *)
PipeFds(t) ==
  LET r == LowestFree(t) IN <<r, LowestFree([t EXCEPT ![r] = Tty])>>
WithPipe(t, k) == Open(Open(t, R(k)), W(k))

Init ==
  /\ pc = "prompt"
  /\ shell = [fd \in Fds |-> IF fd \in 0 .. 2 THEN Tty ELSE Closed]
  /\ kids = <<>>
  /\ stage = 0 /\ stages = 0
  /\ in = NoPipe /\ out = NoPipe
  /\ pipes = 0
  /\ asked = 0 /\ piped = 0

(* execute: a pipe for a line of several commands, none for a single one.   *)
execute(n) ==
  /\ pc = "prompt"
  /\ asked + n <= MaxCommands
  /\ asked' = asked + n
  /\ stage' = 1 /\ stages' = n
  /\ in' = NoPipe
  /\ IF n > 1
     THEN /\ out' = PipeFds(shell)
          /\ pipes' = pipes + 1
          /\ shell' = WithPipe(shell, pipes + 1)
     ELSE out' = NoPipe /\ UNCHANGED <<pipes, shell>>
  /\ pc' = "fork"
  /\ UNCHANGED <<kids, piped>>

(* Mutant: the chain is followed one command too far.                       *)
HasNext_past_end == stage <= stages

(* parsed->next: another command follows.                                   *)
HasNext == stage < stages

(* fork copies the shell's table; it may also fail, which the code does not *)
(* notice.  before and after are ghosts: the pipes the command should read  *)
(* and write, 0 for the terminal.                                           *)
fork ==
  /\ pc = "fork"
  /\ \/ kids' = Append(kids,
          [state |-> "forked", fds |-> shell, in |-> in, out |-> out,
           next |-> HasNext, redir |-> {}, missing |-> {},
           before |-> IF stage = 1 THEN 0 ELSE pipes - 1,
           after |-> IF HasNext THEN pipes ELSE 0])
     \/ UNCHANGED kids
  /\ pc' = "parent"
  /\ UNCHANGED <<shell, stage, stages, in, out, pipes, asked, piped>>

(* Mutants of the parent's part: the write end stays open; the read end     *)
(* stays open.                                                              *)
ShellAfterFork_keeps_write ==
  LET t == shell IN IF in # NoPipe THEN close(t, in[1]) ELSE t
ShellAfterFork_keeps_read ==
  IF out # NoPipe THEN close(shell, out[2]) ELSE shell

(* The parent closes the write end of the pipe to the next command and the  *)
(* read end of the pipe from the one before.                                *)
ShellAfterFork ==
  LET t == IF out # NoPipe THEN close(shell, out[2]) ELSE shell
  IN IF in # NoPipe THEN close(t, in[1]) ELSE t

(* It then makes a pipe for the next command, even for the last one, which  *)
(* does not use it, and descends.                                           *)
parent ==
  /\ pc = "parent"
  /\ IF HasNext
     THEN /\ stage' = stage + 1
          /\ in' = out
          /\ out' = PipeFds(ShellAfterFork)
          /\ pipes' = pipes + 1
          /\ shell' = WithPipe(ShellAfterFork, pipes + 1)
          /\ pc' = "fork"
          /\ UNCHANGED <<kids, stages, asked, piped>>
     ELSE /\ shell' = ShellAfterFork
          /\ pc' = "prompt"
          /\ stage' = 0 /\ stages' = 0 /\ in' = NoPipe /\ out' = NoPipe
          /\ piped' = IF stages > 1 THEN piped + 1 ELSE piped
          /\ UNCHANGED <<kids, pipes, asked>>

------------------------------------------------------------------------------
(* The child between fork and execvp.                                       *)

(* Mutant: the other end of the pipe stays open in the child.               *)
Redirect_keeps_other(t, number, mine, other) ==
  close(dup(close(t, number), mine), mine)

(* Make number 0 or 1 of a child the given end of a pipe; other is the end  *)
(* of that pipe the child has no use for.                                   *)
Redirect(t, number, mine, other) ==
  close(dup(close(close(t, other), number), mine), mine)

(* Mutant: standard input is set up before standard output.                 *)
ChildTable_input_first(k) ==
  LET t == IF k.in # NoPipe THEN Redirect(k.fds, 0, k.in[1], k.in[2]) ELSE k.fds
  IN IF k.out # NoPipe /\ k.next THEN Redirect(t, 1, k.out[2], k.out[1]) ELSE t

ChildTable(k) ==
  LET t == IF k.out # NoPipe /\ k.next
           THEN Redirect(k.fds, 1, k.out[2], k.out[1]) ELSE k.fds
  IN IF k.in # NoPipe THEN Redirect(t, 0, k.in[1], k.in[2]) ELSE t

(* Mutant: the file for the input is opened before the one for the output,  *)
(* which lands on number 0 when the input file is missing.                  *)
WithFiles_input_first(t, redir, missing) ==
  LET Redirected(u, fd, side) ==
        IF side \notin redir THEN u
        ELSE IF side \in missing THEN close(u, fd) ELSE Open(close(u, fd), File)
  IN Redirected(Redirected(t, 0, "in"), 1, "out")

(* Redirections to files come last: number 1 and then number 0 is closed,   *)
(* and is the lowest free number for the file.  Whether fopen succeeds is   *)
(* not looked at: for a file that is missing, or may not be opened, the     *)
(* number stays closed and the program is started all the same.             *)
WithFiles(t, redir, missing) ==
  LET Redirected(u, fd, side) ==
        IF side \notin redir THEN u
        ELSE IF side \in missing THEN close(u, fd) ELSE Open(close(u, fd), File)
  IN Redirected(Redirected(t, 1, "out"), 0, "in")

(* Redirections on a side that has no pipe; on the other side the code      *)
(* closes a stream twice, which C leaves undefined.                         *)
Redirections(k) ==
  SUBSET ((IF k.in = NoPipe THEN {"in"} ELSE {}) \cup
          (IF k.next THEN {} ELSE {"out"}))

exec(i) ==
  /\ kids[i].state = "forked"
  /\ \E redir \in Redirections(kids[i]) : \E missing \in SUBSET redir :
       kids' = [kids EXCEPT
         ![i].state = "running", ![i].redir = redir, ![i].missing = missing,
         ![i].fds = WithFiles(ChildTable(kids[i]), redir, missing),
         ![i].in = NoPipe, ![i].out = NoPipe]
  /\ UNCHANGED <<pc, shell, stage, stages, in, out, pipes, asked, piped>>

(* Who has an end open: exited children have nothing open.                  *)
Alive == {i \in DOMAIN kids : kids[i].state # "exited"}
Holders(end) ==
  {i \in Alive : \E fd \in Fds : kids[i].fds[fd] = end} \cup
  (IF \E fd \in Fds : shell[fd] = end THEN {0} ELSE {})

(* A pipe ends when no process has its write end open; the terminal and     *)
(* files end by themselves, and a read of a closed number fails at once.    *)
AtEof(i) ==
  LET what == kids[i].fds[0]
  IN what[2] = "read" => Holders(W(what[1])) = {}

(* A program may exit at any time.                                          *)
exit(i) ==
  /\ kids[i].state = "running"
  /\ kids' = [kids EXCEPT ![i] =
       [state |-> "exited", fds |-> [fd \in Fds |-> Closed],
        in |-> NoPipe, out |-> NoPipe, next |-> FALSE, redir |-> {},
        missing |-> {}, before |-> 0, after |-> 0]]
  /\ UNCHANGED <<pc, shell, stage, stages, in, out, pipes, asked, piped>>

Shell == (\E n \in 1 .. MaxStages : execute(n)) \/ fork \/ parent

Next == Shell \/ \E i \in DOMAIN kids : exec(i) \/ exit(i)

Spec == Init /\ [][Next]_vars

(* The shell finishes a line it has begun; as long as some child can start  *)
(* its program, or exit at the end of its input, one of them does.          *)
Fairness ==
  /\ WF_vars(fork \/ parent)
  /\ WF_vars(\E i \in DOMAIN kids : exec(i) \/ (AtEof(i) /\ exit(i)))

FairSpec == Spec /\ Fairness

------------------------------------------------------------------------------
(* Properties.                                                              *)

Tables == [Fds -> Opens]
Kids == [state : {"forked", "running", "exited"}, fds : Tables,
         in : Pairs, out : Pairs, next : BOOLEAN,
         redir : SUBSET {"in", "out"}, missing : SUBSET {"in", "out"},
         before : Nat, after : Nat]

TypeOK ==
  /\ pc \in {"prompt", "fork", "parent"}
  /\ shell \in Tables
  /\ \A i \in DOMAIN kids : kids[i] \in Kids
  /\ stage \in 0 .. MaxStages /\ stages \in 0 .. MaxStages
  /\ in \in Pairs /\ out \in Pairs
  /\ pipes \in Nat /\ asked \in 0 .. MaxCommands /\ piped \in 0 .. asked

(* A command starts with its standard input and output on the pipes of its  *)
(* neighbours, whatever numbers earlier lines have left in use, or on the   *)
(* files it is redirected to.  A file that cannot be opened costs the       *)
(* command that side, which is closed when it starts, and never moves what  *)
(* the other side is open on.                                               *)
Wired ==
  \A i \in DOMAIN kids : kids[i].state = "running" =>
    LET k == kids[i]
        Redirected(side) == IF side \in k.missing THEN Closed ELSE File
    IN /\ k.fds[0] = (IF "in" \in k.redir THEN Redirected("in")
                      ELSE IF k.before = 0 THEN Tty ELSE R(k.before))
       /\ k.fds[1] = (IF "out" \in k.redir THEN Redirected("out")
                      ELSE IF k.after = 0 THEN Tty ELSE W(k.after))

(* Once a line is launched and its commands run, the read end of a pipe is  *)
(* open in the command that reads it and nowhere else, so that the command  *)
(* before is told when its reader is gone; likewise the write end.          *)
SoleEnds ==
  pc = "prompt" /\ (\A i \in Alive : kids[i].state = "running") =>
    \A i \in Alive :
      /\ kids[i].before > 0 => Holders(R(kids[i].before)) = {i}
      /\ kids[i].after > 0  => Holders(W(kids[i].after)) = {i}

(* Every line of several commands leaves one descriptor open in the shell,  *)
(* the read end of the pipe made for the last command, and no other.        *)
OneDescriptorPerPipeline ==
  pc = "prompt" =>
    Cardinality({fd \in Fds \ 0 .. 2 : shell[fd] # Closed}) = piped

(* The commands of all lines come to an end: each sees the end of its input *)
(* when the one before it has exited, whichever order they exit in.         *)
CommandsEnd == []<>(Alive = {})

==============================================================================
