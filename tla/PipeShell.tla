------------------------------- MODULE PipeShell ------------------------------
(* The shell of src/lab4 (main.c and job_control.c): lines of any number of    *)
(* commands, every command in a process group of its own, and a job list.     *)
(* fgets is given the size of a pointer, so that a line is run in pieces of   *)
(* Chunk tokens; every piece is a job.                                         *)
EXTENDS PipeCommands

CONSTANT Chunk                       \* tokens of a line one fgets takes

ASSUME PipeShellAssumption == Chunk \in Nat \ {0}

Job(command, number) == [cmd |-> command, idx |-> number, status |-> "Running"]

add_job(command) == Append(list, Job(command, Len(list) + 1))

(* waitpid(0, ...) of a job without a group: a command of the shell's own     *)
(* group, which is one only after the shell has slipped into it.               *)
Own == {i \in DOMAIN kids : kids[i].state = "ended" /\ kids[i].group = group /\ group # Shell}
Collected == [i \in DOMAIN kids |-> IF i \in Own THEN [kids[i] EXCEPT !.state = "reaped"] ELSE kids[i]]

(* Mutant: the last job, of the line "jobs" itself, is not asked for. *)
update_job_list_but_last(jobs) == [j \in DOMAIN jobs |->
    IF j = Len(jobs) /\ j > 1 THEN jobs[j] ELSE [jobs[j] EXCEPT !.status = "Done"]]

(* update_job_list asks for every job, and marks it done whatever the answer *)
(* is (a stray semicolon ends the if).                                         *)
update_job_list(jobs) == [j \in DOMAIN jobs |-> [jobs[j] EXCEPT !.status = "Done"]]

(* print_jobs removes the jobs it has printed as done, and keeps the others   *)
(* in their order.                                                             *)
print_jobs(jobs) ==
    LET updated == update_job_list(jobs)
        kept == {j \in DOMAIN updated : updated[j].status # "Done"}
        place(j) == Cardinality({i \in kept : i <= j})
    IN  [n \in 1..Cardinality(kept) |-> updated[CHOOSE j \in kept : place(j) = n]]

(* One turn of the loop of main, up to the first fork. *)
lab4_read ==
    LET n == Taken(Chunk)
        tokens == SubSeq(buffer, 1, n)
        commands == Commands(tokens)
        jobs == add_job(Head(buffer))
    IN
    /\ lab = "lab4" /\ pc = "prompt" /\ buffer # <<>>
    /\ buffer' = SubSeq(buffer, n + 1, Len(buffer))
    /\ \/ /\ tokens = <<"quit", "nl">>
          /\ pc' = "ended" /\ list' = <<>>
          /\ UNCHANGED <<stages, stage, blocking, ends, pipes, level, kids>>
       \/ /\ tokens = <<"jobs", "nl">>
          /\ list' = print_jobs(jobs) /\ kids' = Collected
          /\ UNCHANGED <<pc, stages, stage, blocking, ends, pipes, level>>
       \/ /\ commands = <<>>
          /\ pc' = "crashed" /\ list' = jobs
          /\ UNCHANGED <<stages, stage, blocking, ends, pipes, level, kids>>
       \/ /\ commands # <<>> /\ Head(commands) = "fg"
          /\ list' = jobs
          /\ \/ pc' = "crashed"                   \* no job has the number
             \/ pc' = "prompt"
             \/ pc' = "undefined" /\ Own # {}     \* the job is freed, and used
          /\ UNCHANGED <<stages, stage, blocking, ends, pipes, level, kids>>
       \/ /\ commands # <<>> /\ Head(commands) # "fg"
          /\ tokens \notin {<<"quit", "nl">>, <<"jobs", "nl">>}
          /\ list' = jobs /\ pc' = "fork"
          /\ stages' = commands /\ stage' = 1
          /\ blocking' = ~ Contains(tokens, "&")
          /\ IF Len(commands) > 1
             THEN /\ pipes' = pipes + 1 /\ level' = Append(level, 0)
                  /\ ends' = ends \cup {R(pipes + 1), W(pipes + 1)}
             ELSE UNCHANGED <<pipes, level, ends>>
          /\ UNCHANGED kids
    /\ UNCHANGED <<lab, typed, child, group>>

HasNext == stage < Len(stages)

(* A line of several commands has a pipe for every command, the last one too; *)
(* the command at hand reads the pipe before its own.                          *)
Out == IF Len(stages) > 1 THEN pipes ELSE Tty
In_always == pipes - 1               \* mutant: of the first command too
In == IF stage > 1 THEN pipes - 1 ELSE Tty

executeHelper_fork ==
    /\ lab = "lab4" /\ pc = "fork"
    /\ \/ /\ kids' = Append(kids, Kid(stages[stage], In, IF HasNext THEN Out ELSE Tty, "forked"))
          /\ child' = <<Len(kids) + 1>>
       \/ child' = <<0>> /\ UNCHANGED kids
    /\ pc' = "parent"
    /\ UNCHANGED <<lab, typed, buffer, stages, stage, blocking, ends, pipes, level, group, list>>

(* The child makes a group of its own. *)
executeHelper_child(i) ==
    /\ lab = "lab4" /\ kids[i].state = "forked"
    /\ kids' = [kids EXCEPT ![i].state = "grouped", ![i].group = i]
    /\ UNCHANGED <<shellVars, level>>

(* The parent puts itself into the group of the child, if that exists by now: *)
(* it calls setpgid with its own pid.  The job gets the pid of the shell.     *)
executeHelper_setpgid ==
    /\ lab = "lab4" /\ pc = "parent"
    /\ group' = IF Head(child) # 0 /\ kids[Head(child)].group = Head(child)
              THEN Head(child) ELSE group
    /\ pc' = "wait"
    /\ UNCHANGED <<lab, typed, buffer, stages, stage, blocking, child, ends, pipes, level, kids, list>>

(* Mutant: the shell does not close the write end. *)
executeHelper_wait_open ==
    LET kept == ends \ {R(In)} IN
    /\ lab = "lab4" /\ pc = "wait"
    /\ IF blocking /\ ~ HasNext THEN Waited(Head(child)) ELSE UNCHANGED kids
    /\ IF HasNext
       THEN /\ stage' = stage + 1 /\ pc' = "fork"
            /\ pipes' = pipes + 1 /\ level' = Append(level, 0)
            /\ ends' = kept \cup {R(pipes + 1), W(pipes + 1)}
       ELSE /\ pc' = "prompt" /\ ends' = kept
            /\ UNCHANGED <<stage, pipes, level>>
    /\ UNCHANGED <<lab, typed, buffer, stages, blocking, child, group, list>>

(* Only the last command can be marked blocking.  Then the shell closes the   *)
(* write end of the pipe it gave the command and the read end of the one      *)
(* before, and makes the pipe of the next command.                             *)
executeHelper_wait ==
    LET kept == ends \ {W(Out), R(In)} IN
    /\ lab = "lab4" /\ pc = "wait"
    /\ IF blocking /\ ~ HasNext THEN Waited(Head(child)) ELSE UNCHANGED kids
    /\ IF HasNext
       THEN /\ stage' = stage + 1 /\ pc' = "fork"
            /\ pipes' = pipes + 1 /\ level' = Append(level, 0)
            /\ ends' = kept \cup {R(pipes + 1), W(pipes + 1)}
       ELSE /\ pc' = "prompt" /\ ends' = kept
            /\ UNCHANGED <<stage, pipes, level>>
    /\ UNCHANGED <<lab, typed, buffer, stages, blocking, child, group, list>>

lab4_shell ==
    \/ lab4_read \/ executeHelper_fork \/ executeHelper_setpgid \/ executeHelper_wait
===============================================================================
