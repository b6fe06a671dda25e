------------------------------ MODULE JobControl ------------------------------
(***************************************************************************)
(* The job-control shell of lab 5: the read loop of main.c, the launching  *)
(* of a pipeline (execute, executeHelper) and the operations of            *)
(* job_control.c, interleaved with the life of the children.  One action   *)
(* per system call whose outcome depends on the children; the shell is     *)
(* sequential, so pc says which call it makes next.                        *)
(*                                                                         *)
(* The names of the calls are the code's.  waitpid, setpgid and kill are   *)
(* the kernel's and are modelled by what the code relies on.               *)
(***************************************************************************)
EXTENDS JobList, FiniteSets

CONSTANTS
  MaxCommands,   \* bound: command lines read in a session
  MaxForks,      \* bound: successful forks in a session
  MaxStages      \* bound: commands of one pipeline

ASSUME BoundsAssumption ==
  /\ MaxCommands \in Nat
  /\ MaxForks \in Nat
  /\ MaxStages \in Nat \ {0}

VARIABLES
  pc,        \* what the shell does next
  jobs,      \* *jobs, the job list
  procs,     \* the children forked so far, by process id
  at,        \* the job a pointer of the running function holds, 0 if none
  left,      \* commands of the pipeline still to fork
  blocking,  \* blocking flag of the last command of the pipeline
  ncmd       \* command lines read

vars == <<pc, jobs, procs, at, left, blocking, ncmd>>

ShellPid == MaxForks + 1

ProcStates == {"running", "stopping", "stopped", "zombie", "reaped"}

(* A child: "stopping" is stopped with the stop not yet reported to the    *)
(* shell, "stopped" is stopped and reported.  job and stage are ghosts: the *)
(* job it was forked for, and how many stages followed it in the pipeline. *)
Procs == [state : ProcStates, job : Nat, after : Nat, grp : Nat]

PcValues == {"prompt", "launch", "poll", "resume", "wait", "update",
             "refresh", "print", "crashed", "exited"}

TypeOK ==
  /\ pc \in PcValues
  /\ jobs \in Seq(Jobs)
  /\ procs \in Seq(Procs)
  /\ at \in Nat
  /\ left \in Nat
  /\ blocking \in BOOLEAN
  /\ ncmd \in Nat

Init ==
  /\ pc = "prompt"
  /\ jobs = <<>>
  /\ procs = <<>>
  /\ at = 0
  /\ left = 0
  /\ blocking = FALSE
  /\ ncmd = 0

------------------------------------------------------------------------------
(* The kernel.                                                              *)

GroupOf(ps, pid) == IF pid = ShellPid THEN ShellPid ELSE ps[pid].grp

(* setpgid(pid, pgid) by caller: a process may move itself or its own      *)
(* child; anything else is an error that changes nothing.  The shell leads *)
(* its own group, which setpgid leaves as it is.                           *)
setpgid(ps, caller, pid, pgid) ==
  LET target == IF pid = 0 THEN caller ELSE pid
      group  == IF pgid = 0 THEN target ELSE pgid
  IN IF target \in DOMAIN ps /\ caller \in {target, ShellPid}
     THEN [ps EXCEPT ![target].grp = group]
     ELSE ps

Unreaped(ps) == {p \in DOMAIN ps : ps[p].state # "reaped"}

(* The children waitpid(arg, ...) waits for: those of the caller's group   *)
(* for 0, of a group for a negative, the one child for a positive argument. *)
Awaited(arg) ==
  {p \in Unreaped(procs) :
     \/ arg > 0 /\ p = arg
     \/ arg = 0 /\ procs[p].grp = ShellPid
     \/ arg < 0 /\ procs[p].grp = -arg}

Zombies(arg) == {p \in Awaited(arg) : procs[p].state = "zombie"}

Reap(p) == procs' = [procs EXCEPT ![p].state = "reaped"]

(* kill(-pgid, SIGCONT), -0 being the caller's own group.                   *)
Continued(ps, pgid) ==
  [p \in DOMAIN ps |->
     IF /\ ps[p].state \in {"stopping", "stopped"}
        /\ ps[p].grp = (IF pgid = 0 THEN ShellPid ELSE pgid)
     THEN [ps[p] EXCEPT !.state = "running"]
     ELSE ps[p]]

------------------------------------------------------------------------------
(* main: reading a line adds a job for it, whatever the line is, and marks *)
(* the job Running.                                                        *)

NewJobList(status) ==
  SetStatus(add_job(jobs, ncmd + 1), Len(jobs) + 1, status)

ReadLine(status) ==
  /\ pc = "prompt"
  /\ ncmd < MaxCommands
  /\ ncmd' = ncmd + 1
  /\ jobs' = NewJobList(status)

(* A pipeline of n commands, the last of them blocking or not.             *)
ReadRun(n, b) ==
  /\ ReadLine(Running)
  /\ pc' = "launch"
  /\ at' = Len(jobs')
  /\ left' = n
  /\ blocking' = b
  /\ UNCHANGED procs

(* fg k: the null pointer of a failed search is dereferenced.              *)
ReadFg(k) ==
  /\ ReadLine(Running)
  /\ LET found == find_job_by_index(jobs', k) IN
       IF found = 0 THEN pc' = "crashed" /\ at' = 0
       ELSE IF jobs'[found].status = Done THEN pc' = "prompt" /\ at' = 0
       ELSE pc' = "poll" /\ at' = found
  /\ UNCHANGED <<procs, left, blocking>>

(* bg k: a Suspended job is sent SIGCONT, any job becomes Running.         *)
run_job_in_background(k) ==
  /\ pc = "prompt"
  /\ ncmd < MaxCommands
  /\ ncmd' = ncmd + 1
  /\ LET list  == NewJobList(Running)
         found == find_job_by_index(list, k)
     IN /\ found # 0
        /\ jobs' = SetStatus(list, found, Running)
        /\ procs' = IF list[found].status = Suspended
                    THEN Continued(procs, list[found].pgid) ELSE procs
  /\ UNCHANGED <<pc, at, left, blocking>>

(* Lines whose parse or search yields a null pointer that is dereferenced:  *)
(* blanks, bg of a position past the end.                                   *)
ReadCrash ==
  /\ ReadLine(Running)
  /\ pc' = "crashed"
  /\ UNCHANGED <<procs, at, left, blocking>>

ReadJobs ==
  /\ ReadLine(Done)
  /\ pc' = "refresh"
  /\ at' = 1
  /\ UNCHANGED <<procs, left, blocking>>

ReadEmpty ==
  /\ ReadLine(Running)
  /\ UNCHANGED <<pc, procs, at, left, blocking>>

(* quit frees the list and ends the shell.                                  *)
Quit ==
  /\ pc = "prompt"
  /\ pc' = "exited"
  /\ jobs' = <<>>
  /\ UNCHANGED <<procs, at, left, blocking, ncmd>>

------------------------------------------------------------------------------
(* executeHelper: one fork per command.  The child asks for its parent's   *)
(* group to be moved and the parent for its own, because the arguments of  *)
(* setpgid are swapped; the parent records the group it was passed, 0.     *)

Forked(ps, id, stages) ==
  LET pid    == Len(ps) + 1
      child  == Append(ps, [state |-> "running", job |-> id,
                            after |-> stages - 1, grp |-> ShellPid])
      inner  == setpgid(child, pid, GroupOf(child, pid), pid)
  IN setpgid(inner, ShellPid, GroupOf(inner, pid), 0)

(* Mutant: the chain of commands is followed one node too far.              *)
executeHelper_past_end ==
  /\ pc = "launch"
  /\ procs' = IF Len(procs) < MaxForks
              THEN Forked(procs, jobs[at].id, left) ELSE procs
  /\ jobs' = [jobs EXCEPT ![at].pgid = 0]
  /\ left' = left - 1
  /\ IF left >= 0 THEN UNCHANGED <<pc, at, blocking>>
     ELSE pc' = "prompt" /\ at' = 0 /\ blocking' = FALSE
  /\ UNCHANGED ncmd

(* A failed fork returns -1, which the code takes for a child.             *)
executeHelper ==
  /\ pc = "launch"
  /\ \/ /\ Len(procs) < MaxForks
        /\ procs' = Forked(procs, jobs[at].id, left)
     \/ UNCHANGED procs
  /\ jobs' = [jobs EXCEPT ![at].pgid = 0]
  /\ left' = left - 1
  /\ IF left > 1 THEN UNCHANGED <<pc, at, blocking>>
     ELSE /\ blocking' = FALSE
          /\ IF blocking THEN pc' = "poll" /\ at' = at
                         ELSE pc' = "prompt" /\ at' = 0
  /\ UNCHANGED ncmd

------------------------------------------------------------------------------
(* run_job_in_foreground.                                                   *)

(* waitpid(-pgid, WNOHANG) < 0: no child left.                              *)
FgPollNoChild ==
  /\ pc = "poll"
  /\ Awaited(-jobs[at].pgid) = {}
  /\ jobs' = SetStatus(jobs, at, Done)
  /\ pc' = "prompt"
  /\ at' = 0
  /\ UNCHANGED <<procs, left, blocking, ncmd>>

(* waitpid(-pgid, WNOHANG) > 0: without WUNTRACED this is a child that has  *)
(* exited or was killed; the function ends without updating the list.       *)
FgPollReap(p) ==
  /\ pc = "poll"
  /\ p \in Zombies(-jobs[at].pgid)
  /\ Reap(p)
  /\ jobs' = SetStatus(jobs, at, Done)
  /\ pc' = "prompt"
  /\ at' = 0
  /\ UNCHANGED <<left, blocking, ncmd>>

(* Mutant: the test for an error of waitpid is missing.                     *)
FgPollNone_error_ignored ==
  /\ pc = "poll"
  /\ Zombies(-jobs[at].pgid) = {}
  /\ pc' = "resume"
  /\ UNCHANGED <<jobs, procs, at, left, blocking, ncmd>>

FgPollNone ==
  /\ pc = "poll"
  /\ Awaited(-jobs[at].pgid) # {}
  /\ Zombies(-jobs[at].pgid) = {}
  /\ pc' = "resume"
  /\ UNCHANGED <<jobs, procs, at, left, blocking, ncmd>>

(* Only a Suspended job gets its terminal modes and SIGCONT.                *)
FgResume ==
  /\ pc = "resume"
  /\ IF jobs[at].status = Suspended
     THEN /\ jobs' = SetStatus(jobs, at, Running)
          /\ procs' = Continued(procs, jobs[at].pgid)
     ELSE UNCHANGED <<jobs, procs>>
  /\ pc' = "wait"
  /\ UNCHANGED <<at, left, blocking, ncmd>>

(* Mutant: tcgetattr is missing.                                            *)
FgReturn_modes_not_saved(p, state, status) ==
  /\ procs' = [procs EXCEPT ![p].state = state]
  /\ jobs' = SetStatus(jobs, at, status)
  /\ pc' = "update" /\ at' = 1
  /\ UNCHANGED <<left, blocking, ncmd>>

(* The blocking waitpid(-pgid, WUNTRACED) returns the child p, ended or     *)
(* stopped; tcgetattr saves the terminal modes before the sweep of          *)
(* update_job_list starts at the head of the list.                          *)
FgReturn(p, state, status) ==
  /\ procs' = [procs EXCEPT ![p].state = state]
  /\ jobs' = [jobs EXCEPT ![at].status = status, ![at].modes = "saved"]
  /\ pc' = "update"
  /\ at' = 1
  /\ UNCHANGED <<left, blocking, ncmd>>

FgWaitEnd(p) ==
  /\ pc = "wait"
  /\ p \in Zombies(-jobs[at].pgid)
  /\ FgReturn(p, "reaped", Done)

(* Mutants: a stop is taken for an end; WUNTRACED is forgotten.             *)
FgWaitStop_is_end(p) ==
  /\ pc = "wait"
  /\ p \in Awaited(-jobs[at].pgid)
  /\ procs[p].state = "stopping"
  /\ FgReturn(p, "stopped", Done)

FgWaitStop_without_WUNTRACED(p) == FgWaitEnd(p)

FgWaitStop(p) ==
  /\ pc = "wait"
  /\ p \in Awaited(-jobs[at].pgid)
  /\ procs[p].state = "stopping"
  /\ FgReturn(p, "stopped", Suspended)

------------------------------------------------------------------------------
(* update_job_list: one waitpid(pgid, WNOHANG) per Running job, after a     *)
(* foreground job (remove_done_jobs TRUE, pc "update") and before the list  *)
(* is printed (FALSE, pc "refresh").  at is the job under the cursor.       *)

Updating == pc \in {"update", "refresh"} /\ at \in DOMAIN jobs

UpdateReap(p) ==
  /\ Updating
  /\ jobs[at].status = Running
  /\ p \in Zombies(jobs[at].pgid)
  /\ Reap(p)
  /\ IF pc = "update"
     THEN jobs' = remove_job(jobs, at) /\ at' = at
     ELSE jobs' = SetStatus(jobs, at, Done) /\ at' = at + 1
  /\ UNCHANGED <<pc, left, blocking, ncmd>>

UpdateSkip ==
  /\ Updating
  /\ jobs[at].status = Running => Zombies(jobs[at].pgid) = {}
  /\ at' = at + 1
  /\ UNCHANGED <<pc, jobs, procs, left, blocking, ncmd>>

UpdateEnd ==
  /\ pc \in {"update", "refresh"}
  /\ at \notin DOMAIN jobs
  /\ IF pc = "update" THEN pc' = "prompt" /\ at' = 0
                      ELSE pc' = "print" /\ at' = 1
  /\ UNCHANGED <<jobs, procs, left, blocking, ncmd>>

(* Mutant: printing drops every job that is not Running.                    *)
print_jobs_drops_suspended ==
  /\ pc = "print"
  /\ IF at \notin DOMAIN jobs THEN pc' = "prompt" /\ at' = 0 /\ UNCHANGED jobs
     ELSE /\ pc' = pc
          /\ IF jobs[at].status # Running
             THEN jobs' = remove_job(jobs, at) /\ at' = at
             ELSE at' = at + 1 /\ UNCHANGED jobs
  /\ UNCHANGED <<procs, left, blocking, ncmd>>

(* print_jobs: every job is printed, the Done ones are removed.             *)
print_jobs ==
  /\ pc = "print"
  /\ IF at \notin DOMAIN jobs THEN pc' = "prompt" /\ at' = 0 /\ UNCHANGED jobs
     ELSE /\ pc' = pc
          /\ IF jobs[at].status = Done
             THEN jobs' = remove_job(jobs, at) /\ at' = at
             ELSE at' = at + 1 /\ UNCHANGED jobs
  /\ UNCHANGED <<procs, left, blocking, ncmd>>

------------------------------------------------------------------------------
(* The children, as long as there is a shell to wait for them.              *)

Move(p, from, to) ==
  /\ pc \notin {"crashed", "exited"}
  /\ p \in DOMAIN procs
  /\ procs[p].state \in from
  /\ procs' = [procs EXCEPT ![p].state = to]
  /\ UNCHANGED <<pc, jobs, at, left, blocking, ncmd>>

(* A child exits, by itself or because its program cannot be executed.      *)
Finish(p) == Move(p, {"running"}, "zombie")

(* Ctrl-Z or SIGSTOP.  Ctrl-Z reaches every child, one after another.       *)
Stop(p) == Move(p, {"running"}, "stopping")

(* SIGKILL ends a stopped child.                                            *)
Killed(p) == Move(p, {"stopping", "stopped"}, "zombie")

------------------------------------------------------------------------------
Read ==
  \/ \E n \in 1 .. MaxStages, b \in BOOLEAN : ReadRun(n, b)
  \/ \E k \in 0 .. MaxCommands : ReadFg(k)
  \/ \E k \in 1 .. MaxCommands : run_job_in_background(k)
  \/ ReadCrash
  \/ ReadJobs
  \/ ReadEmpty
  \/ Quit

Foreground ==
  \/ FgPollNoChild
  \/ \E p \in DOMAIN procs : FgPollReap(p)
  \/ FgPollNone
  \/ FgResume
  \/ \E p \in DOMAIN procs : FgWaitEnd(p) \/ FgWaitStop(p)

Update ==
  \/ \E p \in DOMAIN procs : UpdateReap(p)
  \/ UpdateSkip
  \/ UpdateEnd
  \/ print_jobs

(* What the shell does by itself once a line has been read.                 *)
Shell == executeHelper \/ Foreground \/ Update

Child(p) == Finish(p) \/ Stop(p) \/ Killed(p)

Next == Read \/ Shell \/ \E p \in DOMAIN procs : Child(p)

Spec == Init /\ [][Next]_vars

(* The kernel schedules the shell, and a child that is left running ends.   *)
Fairness ==
  /\ WF_vars(Shell)
  /\ \A p \in 1 .. MaxForks : WF_vars(Finish(p))

FairSpec == Spec /\ Fairness

------------------------------------------------------------------------------
(* Properties.                                                              *)

(* fg and bg look a job up by its position, the list shows idx.  Removals  *)
(* only move jobs forward, so the number shown is never smaller than the    *)
(* position (add_job, remove_job, find_job_by_index).                       *)
PositionBelowIdx == \A i \in DOMAIN jobs : i <= jobs[i].idx

(* The blocking waitpid of run_job_in_foreground always has a child to wait *)
(* for, whatever happened since the poll: it never returns -1 and leaves    *)
(* the uninitialized "status" to be read (job_control.c:282-297).           *)
WaitHasChild == pc \in {"resume", "wait"} => Awaited(-jobs[at].pgid) # {}

(* tcsetattr(j->tmodes) never installs modes nobody saved: initialize_job   *)
(* makes every job Suspended with unwritten modes, and only because no      *)
(* command sees it in that state is a Suspended job one that was stopped.   *)
SuspendedHasModes ==
  \A i \in DOMAIN jobs : jobs[i].status = Suspended => jobs[i].modes = "saved"

(* Children of earlier pipeline stages, which no job stands for.            *)
ExtraChildren(ps) == {p \in DOMAIN ps : ps[p].after > 0}

(* However jobs and children are mixed up by waiting for any child of the   *)
(* group, the list never has fewer unfinished jobs than there are children  *)
(* left to collect, counting one child per pipeline: a child is given up    *)
(* only when its pipeline had several.                                      *)
ChildrenAccountedFor ==
  pc # "exited" =>
    Cardinality(Unreaped(procs))
      <= Cardinality(Unfinished(jobs)) + Cardinality(ExtraChildren(procs))

(* The implementation of the abstract job table.                            *)
TableOf(id) ==
  LET at_id == {i \in DOMAIN jobs : jobs[i].id = id}
  IN IF at_id # {} THEN jobs[CHOOSE i \in at_id : TRUE].status
     ELSE IF id <= ncmd THEN "gone" ELSE "none"

Table == INSTANCE JobTable WITH
  Ids   <- 1 .. MaxCommands,
  table <- [id \in 1 .. MaxCommands |-> TableOf(id)],
  owed  <- Cardinality(Unreaped(procs))

(* Every step of the shell is a step of the job table or none of its        *)
(* business: a job becomes Done only by collecting exactly one child or     *)
(* when none is left, and only Done jobs disappear.                         *)
ImplementsJobTable == Table!TableSpec

(* Blocked in waitpid with nothing but stopped children whose stop has been *)
(* reported before: run_job_in_foreground did not send SIGCONT because the  *)
(* job was not the one marked Suspended.                                    *)
OnlyStoppedChildren ==
  pc = "wait" /\ \A p \in Unreaped(procs) : procs[p].state = "stopped"

(* A line that has been read is carried through to the next prompt, whatever *)
(* the children do, unless the shell waits for stopped children only.       *)
LineReturns ==
  pc \in {"launch", "poll", "resume", "wait", "update", "refresh", "print"}
    ~> (pc = "prompt" \/ OnlyStoppedChildren)

(* What the comment on print_jobs says of Done: the job has completed.      *)
DoneMeansCompleted ==
  \A i \in DOMAIN jobs, p \in DOMAIN procs :
    procs[p].job = jobs[i].id /\ jobs[i].status = Done
      => procs[p].state \in {"zombie", "reaped"}

(* What the comment on run_job_in_foreground says of cont, which is always  *)
(* 1: the process group has been woken up before the shell blocks.          *)
WokenBeforeBlocking ==
  [][FgResume => \A p \in DOMAIN procs : procs'[p].state # "stopped"]_vars

(* What the comment on find_job_by_index says: the job found is the one     *)
(* with the given idx.                                                      *)
FoundByIdx ==
  [][\A k \in 1 .. MaxCommands :
       ReadFg(k) /\ pc' = "poll" => jobs'[at'].idx = k]_vars

==============================================================================
