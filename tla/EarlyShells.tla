----------------------------- MODULE EarlyShells ------------------------------
(* The shells of lab3 and lab4 with their commands, and what they owe.        *)
EXTENDS PipeShell, TwoStage

CONSTANT MaxKids                     \* bound: commands of which EveryCommandEnds speaks

CommandsOf(i) == CommandStep(i) \/ executeHelper_child(i)

ShellStep == lab4_shell \/ lab3_shell

AnyCommand == \E i \in DOMAIN kids : CommandsOf(i)

Next == Type \/ ShellStep \/ AnyCommand

Spec == Init /\ [][Next]_vars

(* The scheduler runs the shell, and some command when one can go on: as      *)
(* every command takes finitely many steps, none is passed over for ever.     *)
(* Nobody has to type a line; who types one for a command ends it.             *)
FairSpec ==
    /\ Spec
    /\ WF_vars(ShellStep)
    /\ WF_vars(AnyCommand)

-----------------------------------------------------------------------------
TypeOK ==
    /\ Len(level) = pipes
    /\ \A p \in 1..pipes : level[p] \in 0..Capacity
    /\ \A i \in DOMAIN kids :
           /\ kids[i].in \in 0..pipes /\ kids[i].out \in 0..pipes /\ kids[i].left \in 0..Amount
           /\ kids[i].state \in {"forked", "grouped", "running", "stopped", "ended", "reaped"}
           /\ kids[i].ends \subseteq {R(p) : p \in 1..pipes} \cup {W(p) : p \in 1..pipes}
    /\ ends \subseteq {R(p) : p \in 1..pipes} \cup {W(p) : p \in 1..pipes}
    /\ group \in 0..Len(kids)
    /\ pc \in {"prompt", "fork", "parent", "wait", "first", "second", "wait_first",
               "wait_second", "ended", "crashed", "undefined"}

(* Commands that can never go on: stopped by the terminal, or writing into a  *)
(* full pipe whose reader is gone (the writer still holds the read end, so    *)
(* that it waits instead of failing), and those that read from such a one.    *)
Stopped == {i \in DOMAIN kids : kids[i].state = "stopped"}
Unread == {i \in DOMAIN kids :
             /\ kids[i].state = "running" /\ kids[i].left > 0 /\ kids[i].out # Tty
             /\ level[kids[i].out] = Capacity
             /\ \A j \in DOMAIN kids : kids[j].in = kids[i].out =>
                    ~ (Alive(j) /\ kids[j].name \in {"reader", "head"})}

Stuck ==
    LET waits(S, i) ==                   \* for the end of a pipe one of S can still write
            /\ kids[i].state = "running" /\ kids[i].name \in {"reader", "head"}
            /\ kids[i].in # Tty
            /\ \E j \in S : W(kids[i].in) \in kids[j].ends
    IN  FoldLeftDomain(LAMBDA S, i : IF waits(S, i) THEN S \cup {i} ELSE S,
                       Stopped \cup Unread, kids)

Awaited == {i \in DOMAIN kids : kids[i].state # "reaped"}

(* The shell waits for a command that is stuck; after a failed fork it waits  *)
(* for any child, when all it has are stuck.                                   *)
ShellStuck ==
    \/ pc = "wait" /\ Head(child) \in Stuck
    \/ pc = "wait_first" /\ child[1] \in Stuck
    \/ pc = "wait_second" /\ child[2] \in Stuck
    \/ /\ \/ pc = "wait" /\ Head(child) = 0
          \/ pc = "wait_first" /\ child[1] = 0
          \/ pc = "wait_second" /\ child[2] = 0
       /\ Awaited # {} /\ Awaited \subseteq Stuck

(* Every line gives the prompt back, ready for another line (main of          *)
(* lab3/task3.c and lab4/main.c), unless the shell waits for a command that   *)
(* is stuck for a named reason, or has put itself into the group of a command *)
(* that had already made it (lab4), and no longer owns the terminal.           *)
PromptReturns ==
    (pc # "prompt" \/ buffer # <<>>) ~>
        \/ pc = "prompt" /\ buffer = <<>> /\ group = Shell
        \/ pc \in {"ended", "crashed", "undefined"}
        \/ ShellStuck
        \/ lab = "lab4" /\ group # Shell

(* Every command ends, or is stuck for a named reason: in particular a reader *)
(* sees the end of its pipe, since nobody keeps a write end he does not use.  *)
EveryCommandEnds ==
    /\ [](Len(kids) <= MaxKids)
    /\ \A i \in 1..MaxKids :
           Alive(i) ~> (~ Alive(i) \/ i \in Stuck)

(* Between lines the shell holds no end of a pipe a command was given, and no *)
(* write end at all: lab4 keeps the read end of the pipe it makes for the     *)
(* last command of a line, lab3 keeps nothing.                                 *)
NoEndKept ==
    pc = "prompt" =>
        /\ lab = "lab3" => ends = {}
        /\ \A p \in 1..pipes :
               /\ W(p) \notin ends
               /\ R(p) \in ends => \A i \in DOMAIN kids : p \notin {kids[i].in, kids[i].out}

(* At the prompt lab3 has collected every command, and lab4 the last command  *)
(* of a line without '&', however the others ended.                            *)
NoneLeftBehind ==
    pc = "prompt" =>
        /\ lab = "lab3" => \A i \in DOMAIN kids : kids[i].state = "reaped"
        /\ lab = "lab4" /\ blocking /\ child # <<>> /\ Head(child) # 0
             => kids[Head(child)].state = "reaped"

(* A job of lab4 is found by its number, which is its place in the list:      *)
(* find_job_by_index counts nodes, add_job numbers by the length, and jobs    *)
(* empties the list as it finds every job done.                                *)
FoundByNumber ==
    \A j \in DOMAIN list : list[j].idx = j /\ list[j].status = "Running"
===============================================================================
