----------------------------- MODULE PipeCommands -----------------------------
(* The commands the shells of lab3 and lab4 start, with the pipes between     *)
(* them and the terminal.  A command is one of                                *)
(*   "short"    ends at once,            "writer"  writes Amount units,        *)
(*   "reader"   reads until the end,     "head"    reads one unit,             *)
(* anything else is a name execvp does not find.  A pipe holds Capacity units; *)
(* who can still read or write it is decided by the descriptors each process  *)
(* has kept, the shell among them.                                             *)
EXTENDS Integers, Sequences, FiniteSets, SequencesExt

CONSTANTS Lines,                     \* the lines typed, as sequences of tokens
          MaxLines,                  \* bound: lines typed
          Capacity,                  \* units a pipe holds
          Amount                     \* units a writer writes

ASSUME PipeCommandsAssumption ==
    /\ {MaxLines, Capacity, Amount} \subseteq Nat
    /\ \A line \in Lines :
           /\ line \in Seq(STRING) /\ Len(line) > 0
           /\ \A i \in DOMAIN line : line[i] = "nl" <=> i = Len(line)

VARIABLES lab,                       \* the shell: "lab3" or "lab4"
          pc,
          typed,                     \* lines typed
          buffer,                    \* what the shell has not taken of the last one
          stages, stage,             \* the parsed line, the command at hand
          blocking,                  \* the parsed line has no '&'
          child,                     \* what the forks returned: a command, 0 for a failure
          ends,                      \* the pipe ends the shell holds
          pipes,                     \* pipes made
          level,                     \* units in each pipe
          kids,                      \* the commands started, in order
          group,                     \* the process group of the shell
          list                       \* lab4: the jobs

vars == <<lab, pc, typed, buffer, stages, stage, blocking, child, ends, pipes,
          level, kids, group, list>>

shellVars == <<lab, pc, typed, buffer, stages, stage, blocking, child, ends, pipes, group, list>>

Names == {"short", "writer", "reader", "head"}
Shell == 0                           \* the group the shell was started in, with the terminal
Tty == 0                             \* in place of a pipe

R(p) == <<p, "read">>
W(p) == <<p, "write">>

Alive(i) == i \in DOMAIN kids /\ kids[i].state \in {"forked", "grouped", "running", "stopped"}

Held(end) == end \in ends \/ \E i \in DOMAIN kids : Alive(i) /\ end \in kids[i].ends

Becomes(i, state) == kids' = [kids EXCEPT ![i].state = state]

-----------------------------------------------------------------------------
(* Commands at work.                                                          *)

finish(i) ==
    /\ kids[i].state = "running"
    /\ kids[i].name = "short" \/ (kids[i].name = "writer" /\ kids[i].left = 0)
    /\ Becomes(i, "ended")
    /\ UNCHANGED <<shellVars, level>>

(* A writer has kept the read end of the pipe it writes to: its writes are    *)
(* never refused, they wait while the pipe is full.                            *)
write(i) ==
    LET p == kids[i].out IN
    /\ kids[i].state = "running" /\ kids[i].name = "writer" /\ kids[i].left > 0
    /\ \/ /\ p = Tty
          /\ kids' = [kids EXCEPT ![i].left = @ - 1]
          /\ UNCHANGED level
       \/ /\ p # Tty /\ level[p] < Capacity
          /\ kids' = [kids EXCEPT ![i].left = @ - 1]
          /\ level' = [level EXCEPT ![p] = @ + 1]
    /\ UNCHANGED shellVars

(* Reading the terminal from the background stops the command; in the         *)
(* foreground the user ends the input.                                         *)
read(i) ==
    LET p == kids[i].in IN
    /\ kids[i].state = "running" /\ kids[i].name \in {"reader", "head"}
    /\ \/ /\ p = Tty
          /\ Becomes(i, IF kids[i].group = Shell THEN "ended" ELSE "stopped")
          /\ UNCHANGED level
       \/ /\ p # Tty /\ level[p] > 0
          /\ level' = [level EXCEPT ![p] = @ - 1]
          /\ IF kids[i].name = "head" THEN Becomes(i, "ended") ELSE UNCHANGED kids
       \/ /\ p # Tty /\ level[p] = 0 /\ ~ Held(W(p))
          /\ Becomes(i, "ended")
          /\ UNCHANGED level
    /\ UNCHANGED shellVars

(* execvp: the command runs, or it is not found and the child ends. *)
exec(i) ==
    /\ kids[i].state = "grouped"
    /\ Becomes(i, IF kids[i].name \in Names THEN "running" ELSE "ended")
    /\ UNCHANGED <<shellVars, level>>

CommandStep(i) == finish(i) \/ write(i) \/ read(i) \/ exec(i)

-----------------------------------------------------------------------------
(* The lines.                                                                 *)

(* The user types the next line; a shell that is not in the group that owns   *)
(* the terminal is sent SIGTTIN instead, and asks again for ever.             *)
Type ==
    /\ pc = "prompt" /\ buffer = <<>> /\ typed < MaxLines /\ group = Shell
    /\ buffer' \in Lines
    /\ typed' = typed + 1
    /\ UNCHANGED <<lab, pc, stages, stage, blocking, child, ends, pipes, level, kids, group, list>>

(* The end of what one fgets of n tokens takes from the buffer. *)
Taken(n) ==
    LET newline == SelectInSeq(buffer, LAMBDA t : t = "nl")
    IN  IF newline <= n THEN newline ELSE n

(* The parser cuts a line at the first '&', or at its end. *)
Cut(tokens) == SelectInSeq(tokens \o <<"nl">>, LAMBDA t : t \in {"&", "nl"})

(* parse_cmd_lines: the commands between the bars (one token each), up to the *)
(* cut and up to the first place where a bar follows no command.  Only the    *)
(* last command of a line is marked blocking.                                 *)
Commands(tokens) ==
    LET parsed == {n \in 0..(Cut(tokens) \div 2) : \A i \in 1..n : tokens[2 * i - 1] # "|"}
    IN  [i \in 1..Max(parsed) |-> tokens[2 * i - 1]]

(* A child has a copy of every end the shell holds. *)
Kid(name, in, out, state) ==
    [name |-> name, in |-> in, out |-> out, ends |-> ends, group |-> group, state |-> state,
     left |-> IF name = "writer" THEN Amount ELSE 0]

(* waitpid(childPro, 0, 0) on the child just forked; after a failed fork it   *)
(* waits for any child, and returns at once when there is none.               *)
Waited(c) ==
    IF c # 0
    THEN kids[c].state \in {"ended", "reaped"} /\ Becomes(c, "reaped")
    ELSE \/ \E i \in DOMAIN kids : kids[i].state = "ended" /\ Becomes(i, "reaped")
         \/ (\A i \in DOMAIN kids : kids[i].state = "reaped") /\ UNCHANGED kids

Init ==
    /\ lab \in {"lab3", "lab4"}
    /\ pc = "prompt" /\ typed = 0 /\ buffer = <<>>
    /\ stages = <<>> /\ stage = 0 /\ blocking = TRUE /\ child = <<>>
    /\ ends = {} /\ pipes = 0 /\ level = <<>> /\ kids = <<>> /\ group = Shell /\ list = <<>>
===============================================================================
