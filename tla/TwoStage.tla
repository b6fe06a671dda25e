------------------------------- MODULE TwoStage -------------------------------
(* The shell of src/lab3 (task3.c): every line is two commands with a pipe,   *)
(* whatever was typed, and the shell waits for both.                           *)
EXTENDS PipeCommands

(* The first two commands of a line; none where there is none.  A child that  *)
(* looks for its command where there is none ends on a null pointer.           *)
Stage(n) == IF n <= Len(stages) THEN stages[n] ELSE "none"

lab3_read ==
    /\ lab = "lab3" /\ pc = "prompt" /\ buffer # <<>>
    /\ buffer' = <<>>
    /\ IF buffer = <<"quit", "nl">>
       THEN pc' = "ended" /\ UNCHANGED <<stages, ends, pipes, level>>
       ELSE /\ pc' = "first" /\ stages' = Commands(buffer)
            /\ pipes' = pipes + 1 /\ level' = Append(level, 0)
            /\ ends' = {R(pipes + 1), W(pipes + 1)}
    /\ UNCHANGED <<lab, typed, stage, blocking, child, kids, group, list>>

(* Mutant: the shell does not close the write end before the second fork. *)
execute_first_open ==
    /\ lab = "lab3" /\ pc = "first"
    /\ \/ /\ kids' = Append(kids, Kid(Stage(1), Tty, IF Len(stages) > 1 THEN pipes ELSE Tty, "grouped"))
          /\ child' = <<Len(kids) + 1>>
       \/ child' = <<0>> /\ UNCHANGED kids
    /\ pc' = "second"
    /\ UNCHANGED <<lab, typed, buffer, stages, stage, blocking, ends, pipes, level, group, list>>

(* The first command writes the pipe if a second one follows; otherwise it    *)
(* writes the terminal and holds the pipe all the same.                        *)
execute_first ==
    /\ lab = "lab3" /\ pc = "first"
    /\ \/ /\ kids' = Append(kids, Kid(Stage(1), Tty, IF Len(stages) > 1 THEN pipes ELSE Tty, "grouped"))
          /\ child' = <<Len(kids) + 1>>
       \/ child' = <<0>> /\ UNCHANGED kids
    /\ ends' = ends \ {W(pipes)}
    /\ pc' = "second"
    /\ UNCHANGED <<lab, typed, buffer, stages, stage, blocking, pipes, level, group, list>>

execute_second ==
    /\ lab = "lab3" /\ pc = "second"
    /\ \/ kids' = Append(kids, Kid(Stage(2), pipes, Tty, "grouped")) /\ child' = Append(child, Len(kids) + 1)
       \/ child' = Append(child, 0) /\ UNCHANGED kids
    /\ ends' = ends \ {R(pipes)}
    /\ pc' = "wait_first"
    /\ UNCHANGED <<lab, typed, buffer, stages, stage, blocking, pipes, level, group, list>>

(* Mutant: only the second command is waited for. *)
execute_wait_once ==
    /\ lab = "lab3"
    /\ pc = "wait_first" /\ Waited(child[2]) /\ pc' = "prompt"
    /\ UNCHANGED <<lab, typed, buffer, stages, stage, blocking, child, ends, pipes, level, group, list>>

execute_wait ==
    /\ lab = "lab3"
    /\ \/ pc = "wait_first" /\ Waited(child[1]) /\ pc' = "wait_second"
       \/ pc = "wait_second" /\ Waited(child[2]) /\ pc' = "prompt"
    /\ UNCHANGED <<lab, typed, buffer, stages, stage, blocking, child, ends, pipes, level, group, list>>

lab3_shell == lab3_read \/ execute_first \/ execute_second \/ execute_wait
===============================================================================
