--------------------------- MODULE JobControlProofs ---------------------------
(***************************************************************************)
(* Theorems about the shell of lab 5 for sessions of any length, any       *)
(* number of children and pipelines of any length.                         *)
(***************************************************************************)
EXTENDS JobControl, FiniteSetTheorems, SequenceTheorems, TLAPS

------------------------------------------------------------------------------
(* The operations of the job list.                                          *)

(* remove_job cuts one node out and keeps the order of the others.          *)
LEMMA RemoveJob ==
  ASSUME NEW S, NEW s \in Seq(S), NEW i \in 1 .. Len(s)
  PROVE  /\ remove_job(s, i) \in Seq(S)
         /\ Len(remove_job(s, i)) = Len(s) - 1
         /\ \A k \in 1 .. Len(s) - 1 :
              remove_job(s, i)[k] = IF k < i THEN s[k] ELSE s[k + 1]
<1> DEFINE before == SubSeq(s, 1, i - 1)
           after  == SubSeq(s, i + 1, Len(s))
<1>1. Len(s) \in Nat /\ \A k \in 1 .. Len(s) : s[k] \in S
  BY ElementOfSeq, LenProperties
<1>2. /\ before \in Seq(S) /\ Len(before) = i - 1
      /\ \A k \in 1 .. i - 1 : before[k] = s[k]
  <2>1. \A k \in 1 .. i - 1 : s[k] \in S
    BY <1>1
  <2>2. /\ before \in Seq(S)
        /\ Len(before) = IF 1 <= i - 1 THEN i - 1 - 1 + 1 ELSE 0
        /\ \A k \in 1 .. i - 1 - 1 + 1 : before[k] = s[1 + k - 1]
    BY <1>1, <2>1, SubSeqProperties
  <2> QED
    BY <1>1, <2>2
<1>3. /\ after \in Seq(S) /\ Len(after) = Len(s) - i
      /\ \A k \in 1 .. Len(s) - i : after[k] = s[i + k]
  <2>1. \A k \in i + 1 .. Len(s) : s[k] \in S
    BY <1>1
  <2>2. /\ after \in Seq(S)
        /\ Len(after) = IF i + 1 <= Len(s) THEN Len(s) - (i + 1) + 1 ELSE 0
        /\ \A k \in 1 .. Len(s) - (i + 1) + 1 : after[k] = s[i + 1 + k - 1]
    BY <1>1, <2>1, SubSeqProperties
  <2> QED
    BY <1>1, <2>2
<1>4. remove_job(s, i) = before \o after
  BY DEF remove_job, RemoveAt
<1>5. /\ before \o after \in Seq(S)
      /\ Len(before \o after) = Len(before) + Len(after)
      /\ \A k \in 1 .. Len(before) + Len(after) :
           (before \o after)[k] = IF k <= Len(before) THEN before[k]
                                  ELSE after[k - Len(before)]
  BY <1>2, <1>3, ConcatProperties
<1> HIDE DEF before, after
<1> QED
  BY <1>1, <1>2, <1>3, <1>4, <1>5

(* add_job appends one node, numbered by its position.                      *)
LEMMA AddJob ==
  ASSUME NEW list \in Seq(Jobs), NEW id \in Nat
  PROVE  /\ add_job(list, id) \in Seq(Jobs)
         /\ Len(add_job(list, id)) = Len(list) + 1
         /\ \A k \in 1 .. Len(list) : add_job(list, id)[k] = list[k]
         /\ add_job(list, id)[Len(list) + 1] =
              [id |-> id, idx |-> Len(list) + 1, pgid |-> 0,
               status |-> Suspended, modes |-> "unset"]
<1> DEFINE new == [id |-> id, idx |-> Len(list) + 1, pgid |-> 0,
                   status |-> Suspended, modes |-> "unset"]
<1>1. Len(list) \in Nat
  BY LenProperties
<1>2. new = [initialize_job(id) EXCEPT !.idx = Len(list) + 1]
  BY DEF initialize_job
<1>3. new \in Jobs
  BY <1>1 DEF Jobs, Statuses
<1>4. add_job(list, id) = Append(list, new)
  BY <1>2 DEF add_job
<1> QED
  BY <1>1, <1>3, <1>4

(* SetStatus changes the status of one job and nothing else.                *)
LEMMA SetStatusJob ==
  ASSUME NEW list \in Seq(Jobs), NEW i \in 1 .. Len(list),
         NEW s \in Statuses
  PROVE  /\ SetStatus(list, i, s) \in Seq(Jobs)
         /\ Len(SetStatus(list, i, s)) = Len(list)
         /\ \A k \in 1 .. Len(list) :
              SetStatus(list, i, s)[k] =
                IF k = i THEN [list[k] EXCEPT !.status = s] ELSE list[k]
<1> DEFINE new == [list[i] EXCEPT !.status = s]
<1>1. list[i] \in Jobs
  BY ElementOfSeq
<1>2. new \in Jobs
  BY <1>1 DEF Jobs
<1>3. SetStatus(list, i, s) = [list EXCEPT ![i] = new]
  BY DEF SetStatus
<1> HIDE DEF new
<1>4. /\ [list EXCEPT ![i] = new] \in Seq(Jobs)
      /\ Len([list EXCEPT ![i] = new]) = Len(list)
      /\ \A k \in 1 .. Len(list) :
           [list EXCEPT ![i] = new][k] = IF k = i THEN new ELSE list[k]
  BY <1>2, ExceptSeq
<1> QED
  BY <1>3, <1>4 DEF new

------------------------------------------------------------------------------
(* The children.                                                            *)

(* Neither of the two calls of setpgid with swapped arguments moves a child *)
(* out of the shell's group, so a fork adds one running child to it.        *)
LEMMA ForkedChild ==
  ASSUME BoundsAssumption,
         NEW ps \in Seq(Procs), Len(ps) < MaxForks,
         NEW id \in Nat, NEW stages \in Nat \ {0}
  PROVE  /\ Forked(ps, id, stages) \in Seq(Procs)
         /\ Len(Forked(ps, id, stages)) = Len(ps) + 1
         /\ \A k \in 1 .. Len(ps) : Forked(ps, id, stages)[k] = ps[k]
         /\ Forked(ps, id, stages)[Len(ps) + 1] =
              [state |-> "running", job |-> id, after |-> stages - 1,
               grp |-> ShellPid]
<1> DEFINE pid == Len(ps) + 1
           new == [state |-> "running", job |-> id, after |-> stages - 1,
                   grp |-> ShellPid]
           child == Append(ps, new)
<1>1. /\ Len(ps) \in Nat /\ MaxForks \in Nat
      /\ ShellPid \in Nat /\ ShellPid # 0 /\ ShellPid > pid
  BY LenProperties DEF BoundsAssumption, ShellPid
<1>2. new \in Procs
  BY <1>1 DEF Procs, ProcStates
<1>3. /\ child \in Seq(Procs) /\ Len(child) = pid
      /\ \A k \in 1 .. Len(ps) : child[k] = ps[k]
      /\ child[pid] = new
  BY <1>1, <1>2
<1>4. GroupOf(child, pid) = ShellPid
  BY <1>1, <1>3 DEF GroupOf
<1>5. ShellPid \notin DOMAIN child
  BY <1>1, <1>3, LenProperties
<1> HIDE DEF child
<1>6. setpgid(child, pid, ShellPid, pid) = child
  BY <1>1, <1>5 DEF setpgid
<1>7. setpgid(child, ShellPid, ShellPid, 0) = child
  BY <1>1, <1>5 DEF setpgid
<1>8. Forked(ps, id, stages) = child
  BY <1>4, <1>6, <1>7 DEF Forked, child
<1> QED
  BY <1>3, <1>8

(* One child changes state, nothing else about the children does.           *)
LEMMA ChildStep ==
  ASSUME NEW ps \in Seq(Procs), NEW p \in 1 .. Len(ps), NEW st \in ProcStates
  PROVE  /\ [ps EXCEPT ![p].state = st] \in Seq(Procs)
         /\ Len([ps EXCEPT ![p].state = st]) = Len(ps)
         /\ \A k \in 1 .. Len(ps) :
              [ps EXCEPT ![p].state = st][k] =
                IF k = p THEN [ps[k] EXCEPT !.state = st] ELSE ps[k]
<1> DEFINE new == [ps[p] EXCEPT !.state = st]
<1>1. ps[p] \in Procs
  BY ElementOfSeq
<1>2. new \in Procs
  BY <1>1 DEF Procs
<1>3. [ps EXCEPT ![p].state = st] = [ps EXCEPT ![p] = new]
  OBVIOUS
<1> HIDE DEF new
<1>4. /\ [ps EXCEPT ![p] = new] \in Seq(Procs)
      /\ Len([ps EXCEPT ![p] = new]) = Len(ps)
      /\ \A k \in 1 .. Len(ps) :
           [ps EXCEPT ![p] = new][k] = IF k = p THEN new ELSE ps[k]
  BY <1>2, ExceptSeq
<1> QED
  BY <1>3, <1>4 DEF new

(* SIGCONT sets stopped children running and collects none.                 *)
LEMMA ContinuedChildren ==
  ASSUME NEW ps \in Seq(Procs), NEW pgid
  PROVE  /\ Continued(ps, pgid) \in Seq(Procs)
         /\ Len(Continued(ps, pgid)) = Len(ps)
         /\ \A k \in 1 .. Len(ps) :
              \/ Continued(ps, pgid)[k] = ps[k]
              \/ /\ ps[k].state \in {"stopping", "stopped"}
                 /\ Continued(ps, pgid)[k] = [ps[k] EXCEPT !.state = "running"]
<1> DEFINE c == Continued(ps, pgid)
<1>1. Len(ps) \in Nat /\ DOMAIN ps = 1 .. Len(ps)
  BY LenProperties
<1>2. \A k \in 1 .. Len(ps) : ps[k] \in Procs
  BY ElementOfSeq
<1>3. DOMAIN c = 1 .. Len(ps)
  BY <1>1 DEF Continued
<1>4. \A k \in 1 .. Len(ps) :
        \/ c[k] = ps[k]
        \/ /\ ps[k].state \in {"stopping", "stopped"}
           /\ c[k] = [ps[k] EXCEPT !.state = "running"]
  BY <1>1 DEF Continued
<1>5. \A k \in 1 .. Len(ps) : [ps[k] EXCEPT !.state = "running"] \in Procs
  BY <1>2 DEF Procs, ProcStates
<1>6. \A k \in 1 .. Len(ps) : c[k] \in Procs
  BY <1>2, <1>4, <1>5
<1>7. c = [k \in 1 .. Len(ps) |-> c[k]]
  BY <1>1 DEF Continued
<1> HIDE DEF c
<1>8. c \in [1 .. Len(ps) -> Procs]
  BY <1>6, <1>7
<1>9. c \in Seq(Procs) /\ Len(c) = Len(ps)
  BY <1>1, <1>8
<1> QED
  BY <1>4, <1>9 DEF c

------------------------------------------------------------------------------
(* The inductive invariant.                                                 *)

(* A list whose numbers are never below the positions, whose group ids are  *)
(* all 0 and whose Suspended jobs have saved modes.                         *)
JobsOK(list) ==
  /\ list \in Seq(Jobs)
  /\ \A i \in 1 .. Len(list) :
       /\ i <= list[i].idx
       /\ list[i].pgid = 0
       /\ list[i].status = Suspended => list[i].modes = "saved"

(* Children that never left the shell's group.                              *)
ProcsOK(ps) ==
  /\ ps \in Seq(Procs)
  /\ Len(ps) <= MaxForks
  /\ \A p \in 1 .. Len(ps) : ps[p].grp = ShellPid

(* The pointer of the running function is a node of the list.               *)
PointerOK ==
  /\ pc \in {"launch", "poll", "resume", "wait"} => at \in 1 .. Len(jobs)
  /\ pc \in {"update", "refresh", "print"} => at \in Nat \ {0}
  /\ pc = "launch" => left \in Nat \ {0}

(* Once the poll has found a child that has not ended, one is left for the  *)
(* blocking wait.                                                           *)
ChildLeft == pc \in {"resume", "wait"} => Unreaped(procs) # {}

IInv ==
  /\ pc \in PcValues
  /\ JobsOK(jobs)
  /\ ProcsOK(procs)
  /\ at \in Nat
  /\ left \in Nat
  /\ blocking \in BOOLEAN
  /\ ncmd \in Nat
  /\ PointerOK
  /\ ChildLeft

------------------------------------------------------------------------------
(* What the operations do to the parts of the invariant.                    *)

LEMMA JobsOKRemove ==
  ASSUME NEW list, JobsOK(list), NEW i \in 1 .. Len(list)
  PROVE  JobsOK(remove_job(list, i))
<1> DEFINE r == remove_job(list, i)
<1>1. /\ list \in Seq(Jobs) /\ Len(list) \in Nat
      /\ \A k \in 1 .. Len(list) : list[k] \in Jobs
  BY LenProperties, ElementOfSeq DEF JobsOK
<1>2. /\ r \in Seq(Jobs) /\ Len(r) = Len(list) - 1
      /\ \A k \in 1 .. Len(list) - 1 :
           r[k] = IF k < i THEN list[k] ELSE list[k + 1]
  BY <1>1, RemoveJob
<1> HIDE DEF r
<1>3. ASSUME NEW k \in 1 .. Len(r)
      PROVE  /\ k <= r[k].idx /\ r[k].pgid = 0
             /\ r[k].status = Suspended => r[k].modes = "saved"
  <2>1. CASE k < i
    BY <1>1, <1>2, <2>1 DEF JobsOK
  <2>2. CASE ~ (k < i)
    <3>1. k + 1 \in 1 .. Len(list) /\ r[k] = list[k + 1]
      BY <1>1, <1>2, <2>2
    <3>2. k + 1 <= list[k + 1].idx /\ list[k + 1].idx \in Nat
      BY <1>1, <3>1 DEF JobsOK, Jobs
    <3> QED
      BY <3>1, <3>2 DEF JobsOK
  <2> QED
    BY <2>1, <2>2
<1> QED
  BY <1>2, <1>3 DEF JobsOK, r

LEMMA JobsOKSetStatus ==
  ASSUME NEW list, JobsOK(list), NEW i \in 1 .. Len(list),
         NEW s \in {Done, Running}
  PROVE  /\ JobsOK(SetStatus(list, i, s))
         /\ Len(SetStatus(list, i, s)) = Len(list)
<1> DEFINE r == SetStatus(list, i, s)
<1>1. s \in Statuses /\ s # Suspended
  BY DEF Statuses, Done, Running, Suspended
<1>2. /\ list \in Seq(Jobs)
      /\ \A k \in 1 .. Len(list) : list[k] \in Jobs
  BY ElementOfSeq DEF JobsOK
<1>3. /\ r \in Seq(Jobs) /\ Len(r) = Len(list)
      /\ \A k \in 1 .. Len(list) :
           r[k] = IF k = i THEN [list[k] EXCEPT !.status = s] ELSE list[k]
  BY <1>1, <1>2, SetStatusJob
<1> HIDE DEF r
<1>4. ASSUME NEW k \in 1 .. Len(r)
      PROVE  /\ k <= r[k].idx /\ r[k].pgid = 0
             /\ r[k].status = Suspended => r[k].modes = "saved"
  BY <1>1, <1>2, <1>3 DEF JobsOK, Jobs
<1> QED
  BY <1>3, <1>4 DEF JobsOK, r

(* The status main gives to a new job hides the unwritten modes.            *)
LEMMA JobsOKNew ==
  ASSUME NEW s \in {Done, Running}, JobsOK(jobs), ncmd \in Nat
  PROVE  /\ JobsOK(NewJobList(s))
         /\ Len(NewJobList(s)) = Len(jobs) + 1
<1> DEFINE a == add_job(jobs, ncmd + 1)
           r == NewJobList(s)
<1>1. s \in Statuses /\ s # Suspended
  BY DEF Statuses, Done, Running, Suspended
<1>2. jobs \in Seq(Jobs) /\ Len(jobs) \in Nat /\ ncmd + 1 \in Nat
  BY LenProperties DEF JobsOK
<1>3. /\ a \in Seq(Jobs) /\ Len(a) = Len(jobs) + 1
      /\ \A k \in 1 .. Len(jobs) : a[k] = jobs[k]
      /\ a[Len(jobs) + 1] =
           [id |-> ncmd + 1, idx |-> Len(jobs) + 1, pgid |-> 0,
            status |-> Suspended, modes |-> "unset"]
  BY <1>2, AddJob
<1>4. r = SetStatus(a, Len(jobs) + 1, s) /\ Len(jobs) + 1 \in 1 .. Len(a)
  BY <1>2, <1>3 DEF NewJobList
<1> HIDE DEF a, r
<1>5. /\ r \in Seq(Jobs) /\ Len(r) = Len(a)
      /\ \A k \in 1 .. Len(a) :
           r[k] = IF k = Len(jobs) + 1 THEN [a[k] EXCEPT !.status = s]
                  ELSE a[k]
  <2>1. /\ SetStatus(a, Len(jobs) + 1, s) \in Seq(Jobs)
        /\ Len(SetStatus(a, Len(jobs) + 1, s)) = Len(a)
        /\ \A k \in 1 .. Len(a) :
             SetStatus(a, Len(jobs) + 1, s)[k] =
               IF k = Len(jobs) + 1 THEN [a[k] EXCEPT !.status = s] ELSE a[k]
    BY <1>1, <1>3, <1>4, SetStatusJob, ZenonT(40)
  <2> QED
    BY <1>4, <2>1
<1>6. ASSUME NEW k \in 1 .. Len(r)
      PROVE  /\ k <= r[k].idx /\ r[k].pgid = 0
             /\ r[k].status = Suspended => r[k].modes = "saved"
  <2>1. CASE k = Len(jobs) + 1
    BY <1>1, <1>2, <1>3, <1>5, <2>1
  <2>2. CASE k # Len(jobs) + 1
    <3>1. k \in 1 .. Len(jobs) /\ r[k] = jobs[k]
      BY <1>2, <1>3, <1>5, <2>2
    <3> QED
      BY <3>1 DEF JobsOK
  <2> QED
    BY <2>1, <2>2
<1> QED
  BY <1>3, <1>5, <1>6 DEF JobsOK, r

LEMMA ProcsOKChildStep ==
  ASSUME NEW ps, ProcsOK(ps), NEW p \in 1 .. Len(ps), NEW st \in ProcStates
  PROVE  ProcsOK([ps EXCEPT ![p].state = st])
<1> DEFINE r == [ps EXCEPT ![p].state = st]
<1>1. ps \in Seq(Procs) /\ \A k \in 1 .. Len(ps) : ps[k] \in Procs
  BY ElementOfSeq DEF ProcsOK
<1>2. /\ r \in Seq(Procs) /\ Len(r) = Len(ps)
      /\ \A k \in 1 .. Len(ps) :
           r[k] = IF k = p THEN [ps[k] EXCEPT !.state = st] ELSE ps[k]
  BY <1>1, ChildStep
<1> HIDE DEF r
<1>3. \A k \in 1 .. Len(r) : r[k].grp = ShellPid
  BY <1>1, <1>2 DEF ProcsOK, Procs
<1> QED
  BY <1>2, <1>3 DEF ProcsOK, r

LEMMA ProcsOKContinued ==
  ASSUME NEW ps, ProcsOK(ps), NEW pgid
  PROVE  ProcsOK(Continued(ps, pgid))
<1> DEFINE r == Continued(ps, pgid)
<1>1. ps \in Seq(Procs) /\ \A k \in 1 .. Len(ps) : ps[k] \in Procs
  BY ElementOfSeq DEF ProcsOK
<1>2. /\ r \in Seq(Procs) /\ Len(r) = Len(ps)
      /\ \A k \in 1 .. Len(ps) :
           r[k] = ps[k] \/ r[k] = [ps[k] EXCEPT !.state = "running"]
  BY <1>1, ContinuedChildren
<1> HIDE DEF r
<1>3. ASSUME NEW k \in 1 .. Len(r)
      PROVE  r[k].grp = ShellPid
  <2>1. ps[k] \in Procs /\ ps[k].grp = ShellPid
    BY <1>1, <1>2 DEF ProcsOK
  <2>2. [ps[k] EXCEPT !.state = "running"].grp = ps[k].grp
    BY <2>1 DEF Procs
  <2> QED
    BY <1>2, <2>1, <2>2
<1> QED
  BY <1>2, <1>3 DEF ProcsOK, r

LEMMA ProcsOKForked ==
  ASSUME BoundsAssumption, NEW ps, ProcsOK(ps), Len(ps) < MaxForks,
         NEW id \in Nat, NEW stages \in Nat \ {0}
  PROVE  ProcsOK(Forked(ps, id, stages))
<1> DEFINE r == Forked(ps, id, stages)
<1>1. ps \in Seq(Procs) /\ Len(ps) \in Nat /\ MaxForks \in Nat
  BY LenProperties DEF ProcsOK, BoundsAssumption
<1>2. /\ r \in Seq(Procs) /\ Len(r) = Len(ps) + 1
      /\ \A k \in 1 .. Len(ps) : r[k] = ps[k]
      /\ r[Len(ps) + 1] = [state |-> "running", job |-> id,
                           after |-> stages - 1, grp |-> ShellPid]
  BY <1>1, ForkedChild
<1> HIDE DEF r
<1>3. ASSUME NEW k \in 1 .. Len(r)
      PROVE  r[k].grp = ShellPid
  <2>1. CASE k = Len(ps) + 1
    BY <1>2, <2>1
  <2>2. CASE k # Len(ps) + 1
    BY <1>1, <1>2, <2>2 DEF ProcsOK
  <2> QED
    BY <2>1, <2>2
<1> QED
  BY <1>1, <1>2, <1>3 DEF ProcsOK, r

(* With every child in the shell's group and every pgid 0, waitpid waits    *)
(* for any child at all.                                                    *)
LEMMA AwaitsAnyChild ==
  ASSUME ProcsOK(procs), NEW g \in Nat, g = 0
  PROVE  Awaited(-g) = Unreaped(procs) /\ Awaited(g) = Unreaped(procs)
<1>1. DOMAIN procs = 1 .. Len(procs)
  BY LenProperties DEF ProcsOK
<1>2. \A p \in Unreaped(procs) : procs[p].grp = ShellPid
  BY <1>1 DEF ProcsOK, Unreaped
<1>3. \A x \in Int : -x = 0 - x
  OBVIOUS
<1>4. -g = g
  <2>1. \A x \in Int : x = 0 => 0 - x = x
    OBVIOUS
  <2>2. \A x \in Int : x = 0 => -x = x
    BY <1>3, <2>1
  <2>3. g \in Int
    OBVIOUS
  <2> QED
    BY <2>2, <2>3, Zenon
<1>5. Awaited(g) = Unreaped(procs)
  BY <1>2 DEF Awaited
<1> QED
  BY <1>4, <1>5

------------------------------------------------------------------------------
(* The invariant holds initially and every action keeps it.                 *)

LEMMA InitIInv == Init => IInv
<1> SUFFICES ASSUME Init PROVE IInv
  OBVIOUS
<1>1. JobsOK(jobs)
  BY EmptySeq DEF Init, JobsOK
<1>2. ProcsOK(procs)
  BY BoundsAssumption, EmptySeq DEF Init, ProcsOK, BoundsAssumption
<1> QED
  BY <1>1, <1>2 DEF Init, IInv, PcValues, PointerOK, ChildLeft

(* A line that has been read leaves the children alone or wakes them up and *)
(* puts a well-formed job at the end of the list.                           *)
LEMMA ReadIInv == IInv /\ Read => IInv'
<1> SUFFICES ASSUME IInv, Read PROVE IInv'
  OBVIOUS
<1> USE DEF IInv, PointerOK, ChildLeft, PcValues
<1>1. jobs \in Seq(Jobs) /\ Len(jobs) \in Nat /\ DOMAIN procs = 1 .. Len(procs)
  BY LenProperties DEF JobsOK, ProcsOK
<1>2. \A s \in {Done, Running} :
        JobsOK(NewJobList(s)) /\ Len(NewJobList(s)) = Len(jobs) + 1
  BY JobsOKNew
<1>3. \A n \in 1 .. MaxStages, b \in BOOLEAN : ReadRun(n, b) => IInv'
  BY <1>1, <1>2 DEF ReadRun, ReadLine
<1>4. \A k \in 0 .. MaxCommands : ReadFg(k) => IInv'
  <2> SUFFICES ASSUME NEW k \in 0 .. MaxCommands, ReadFg(k) PROVE IInv'
    OBVIOUS
  <2>1. JobsOK(jobs') /\ Len(jobs') \in Nat /\ pc = "prompt" /\ ncmd' \in Nat
    BY <1>1, <1>2 DEF ReadFg, ReadLine
  <2>2. /\ pc' \in {"crashed", "prompt", "poll"} /\ at' \in Nat
        /\ pc' = "poll" => at' \in 1 .. Len(jobs')
    BY <1>1, <2>1 DEF ReadFg, find_job_by_index
  <2> QED
    BY <2>1, <2>2 DEF ReadFg
<1>5. \A k \in 1 .. MaxCommands : run_job_in_background(k) => IInv'
  <2> SUFFICES ASSUME NEW k \in 1 .. MaxCommands, run_job_in_background(k)
               PROVE  IInv'
    OBVIOUS
  <2> DEFINE list == NewJobList(Running)
             found == find_job_by_index(list, k)
  <2>1. JobsOK(list) /\ found \in 1 .. Len(list)
    BY <1>1, <1>2 DEF run_job_in_background, find_job_by_index
  <2>2. /\ jobs' = SetStatus(list, found, Running)
        /\ \/ procs' = Continued(procs, list[found].pgid)
           \/ procs' = procs
        /\ pc = "prompt" /\ pc' = pc /\ at' = at /\ ncmd' \in Nat
        /\ left' = left /\ blocking' = blocking
    BY DEF run_job_in_background
  <2> HIDE DEF list, found
  <2>3. JobsOK(jobs')
    BY <2>1, <2>2, JobsOKSetStatus
  <2>4. ProcsOK(procs')
    BY <2>2, ProcsOKContinued
  <2> QED
    BY <2>2, <2>3, <2>4
<1>6. ReadCrash => IInv'
  BY <1>2 DEF ReadCrash, ReadLine
<1>7. ReadJobs => IInv'
  BY <1>2 DEF ReadJobs, ReadLine
<1>8. ReadEmpty => IInv'
  BY <1>2 DEF ReadEmpty, ReadLine
<1>9. Quit => IInv'
  <2>1. JobsOK(<<>>)
    BY EmptySeq DEF JobsOK
  <2> QED
    BY <2>1 DEF Quit
<1> QED
  BY <1>3, <1>4, <1>5, <1>6, <1>7, <1>8, <1>9 DEF Read

(* A stage of the pipeline is forked into the shell's group, or not at all. *)
LEMMA LaunchIInv == IInv /\ executeHelper => IInv'
<1> SUFFICES ASSUME IInv, executeHelper PROVE IInv'
  OBVIOUS
<1> USE DEF IInv, PointerOK, ChildLeft, PcValues
<1>1. /\ pc = "launch" /\ at \in 1 .. Len(jobs) /\ left \in Nat \ {0}
      /\ jobs \in Seq(Jobs) /\ \A k \in 1 .. Len(jobs) : jobs[k] \in Jobs
  BY ElementOfSeq DEF executeHelper, JobsOK
<1>2. jobs' = jobs
  <2>1. jobs[at].pgid = 0
    BY <1>1 DEF JobsOK
  <2>2. [jobs[at] EXCEPT !.pgid = 0] = jobs[at]
    BY <1>1, <2>1 DEF Jobs
  <2>3. [jobs EXCEPT ![at].pgid = 0] = [jobs EXCEPT ![at] = jobs[at]]
    BY <2>2
  <2>4. [jobs EXCEPT ![at] = jobs[at]] = jobs
    BY <1>1, LenProperties
  <2> QED
    BY <2>3, <2>4 DEF executeHelper
<1>3. ProcsOK(procs')
  <2>1. jobs[at].id \in Nat
    BY <1>1 DEF Jobs
  <2>2. CASE procs' = procs
    BY <2>2
  <2>3. CASE Len(procs) < MaxForks /\ procs' = Forked(procs, jobs[at].id, left)
    BY <1>1, <2>1, <2>3, BoundsAssumption, ProcsOKForked
  <2> QED
    BY <2>2, <2>3 DEF executeHelper
<1>4. left' \in Nat /\ (left > 1 => left' \in Nat \ {0})
  BY <1>1 DEF executeHelper
<1>5. \/ left > 1 /\ pc' = "launch" /\ at' = at /\ blocking' = blocking
      \/ pc' = "poll" /\ at' = at /\ blocking' = FALSE
      \/ pc' = "prompt" /\ at' = 0 /\ blocking' = FALSE
  BY <1>1, Zenon DEF executeHelper
<1>6. pc' \in PcValues /\ at' \in Nat /\ blocking' \in BOOLEAN /\ ncmd' \in Nat
  <2>1. blocking' \in BOOLEAN
    BY <1>5, Zenon
  <2>2. ncmd' = ncmd
    BY Zenon DEF executeHelper
  <2>3. /\ pc' \in {"launch", "poll", "prompt"}
        /\ at' = at \/ at' = 0
    BY <1>5, Zenon
  <2> QED
    BY <2>1, <2>2, <2>3
<1>7. PointerOK' /\ ChildLeft'
  BY <1>1, <1>2, <1>4, <1>5
<1> QED
  BY <1>2, <1>3, <1>4, <1>6, <1>7

(* run_job_in_foreground.                                                   *)
LEMMA ForegroundIInv == IInv /\ Foreground => IInv'
<1> SUFFICES ASSUME IInv, Foreground PROVE IInv'
  OBVIOUS
<1> USE DEF IInv, PointerOK, ChildLeft, PcValues
<1>1. /\ jobs \in Seq(Jobs) /\ procs \in Seq(Procs)
      /\ DOMAIN procs = 1 .. Len(procs)
      /\ \A k \in 1 .. Len(jobs) : jobs[k] \in Jobs
  BY ElementOfSeq, LenProperties DEF JobsOK, ProcsOK
<1>2. CASE FgPollNoChild
  BY <1>2, JobsOKSetStatus DEF FgPollNoChild
<1>3. CASE \E p \in DOMAIN procs : FgPollReap(p)
  <2> PICK p \in DOMAIN procs : FgPollReap(p)
    BY <1>3
  <2>1. ProcsOK(procs')
    BY <1>1, ProcsOKChildStep DEF FgPollReap, Reap, ProcStates
  <2>2. JobsOK(jobs')
    BY JobsOKSetStatus DEF FgPollReap
  <2> QED
    BY <2>1, <2>2 DEF FgPollReap
<1>4. CASE FgPollNone
  <2>1. jobs[at].pgid = 0 /\ jobs[at].pgid \in Nat
    BY <1>1, <1>4 DEF FgPollNone, JobsOK
  <2>2. Awaited(-jobs[at].pgid) = Unreaped(procs)
    BY <2>1, AwaitsAnyChild
  <2>3. Unreaped(procs') # {}
    BY <1>4, <2>2 DEF FgPollNone
  <2> QED
    BY <1>4, <2>3 DEF FgPollNone
<1>5. CASE FgResume
  <2>1. pc = "resume" /\ pc' = "wait" /\ at' = at /\ at \in 1 .. Len(jobs)
    BY <1>5 DEF FgResume
  <2>2. CASE jobs' = jobs /\ procs' = procs
    BY <1>5, <2>1, <2>2 DEF FgResume
  <2>3. CASE /\ jobs' = SetStatus(jobs, at, Running)
             /\ procs' = Continued(procs, jobs[at].pgid)
    <3>1. JobsOK(jobs') /\ Len(jobs') = Len(jobs)
      BY <2>1, <2>3, JobsOKSetStatus
    <3>2. ProcsOK(procs')
      BY <2>3, ProcsOKContinued
    <3>3. Unreaped(procs') # {}
      <4>1. PICK p \in 1 .. Len(procs) : procs[p].state # "reaped"
        BY <1>1, <2>1 DEF Unreaped
      <4>2. procs[p] \in Procs
        BY <1>1, ElementOfSeq
      <4>3. /\ Len(procs') = Len(procs) /\ procs' \in Seq(Procs)
            /\ procs'[p] \in {procs[p], [procs[p] EXCEPT !.state = "running"]}
        BY <1>1, <2>3, ContinuedChildren
      <4>4. procs'[p].state # "reaped"
        BY <4>1, <4>2, <4>3 DEF Procs
      <4>5. DOMAIN procs' = 1 .. Len(procs)
        BY <4>3, LenProperties
      <4> QED
        BY <4>4, <4>5 DEF Unreaped
    <3> QED
      BY <1>5, <2>1, <3>1, <3>2, <3>3 DEF FgResume
  <2> QED
    BY <1>5, <2>2, <2>3 DEF FgResume
<1>6. ASSUME NEW p \in DOMAIN procs, NEW st \in ProcStates,
             NEW s \in {Done, Suspended}, pc = "wait", FgReturn(p, st, s)
      PROVE  IInv'
  <2>1. ProcsOK(procs')
    BY <1>1, <1>6, ProcsOKChildStep DEF FgReturn
  <2>2. JobsOK(jobs')
    <3> DEFINE new == [jobs[at] EXCEPT !.status = s, !.modes = "saved"]
    <3>1. at \in 1 .. Len(jobs) /\ jobs[at] \in Jobs
      BY <1>1, <1>6
    <3>2. new \in Jobs
      BY <3>1 DEF Jobs, Statuses
    <3>3. jobs' = [jobs EXCEPT ![at] = new]
      BY <1>1, <1>6, <3>1 DEF FgReturn
    <3>4. at <= new.idx /\ new.pgid = 0 /\ new.modes = "saved"
      BY <3>1 DEF JobsOK, Jobs
    <3> HIDE DEF new
    <3>5. /\ jobs' \in Seq(Jobs) /\ Len(jobs') = Len(jobs)
          /\ \A k \in 1 .. Len(jobs) :
               jobs'[k] = IF k = at THEN new ELSE jobs[k]
      BY <1>1, <3>1, <3>2, <3>3, ExceptSeq
    <3> QED
      BY <3>4, <3>5 DEF JobsOK
  <2> QED
    BY <1>6, <2>1, <2>2 DEF FgReturn
<1>7. CASE \E p \in DOMAIN procs : FgWaitEnd(p) \/ FgWaitStop(p)
  BY <1>6, <1>7 DEF FgWaitEnd, FgWaitStop, ProcStates
<1> QED
  BY <1>2, <1>3, <1>4, <1>5, <1>7 DEF Foreground

(* update_job_list and print_jobs.                                          *)
LEMMA UpdateIInv == IInv /\ Update => IInv'
<1> SUFFICES ASSUME IInv, Update PROVE IInv'
  OBVIOUS
<1> USE DEF IInv, PointerOK, ChildLeft, PcValues
<1>1. DOMAIN procs = 1 .. Len(procs) /\ DOMAIN jobs = 1 .. Len(jobs)
  BY LenProperties DEF JobsOK, ProcsOK
<1>2. CASE \E p \in DOMAIN procs : UpdateReap(p)
  <2> PICK p \in DOMAIN procs : UpdateReap(p)
    BY <1>2
  <2>1. ProcsOK(procs')
    BY <1>1, ProcsOKChildStep DEF UpdateReap, Reap, ProcStates
  <2>2. JobsOK(jobs') /\ at' \in Nat \ {0}
    BY <1>1, JobsOKRemove, JobsOKSetStatus DEF UpdateReap, Updating
  <2> QED
    BY <2>1, <2>2 DEF UpdateReap, Updating
<1>3. CASE UpdateSkip
  BY <1>3 DEF UpdateSkip, Updating
<1>4. CASE UpdateEnd
  BY <1>4 DEF UpdateEnd
<1>5. CASE print_jobs
  <2>1. JobsOK(jobs')
    BY <1>1, <1>5, JobsOKRemove DEF print_jobs
  <2> QED
    BY <1>5, <2>1 DEF print_jobs
<1> QED
  BY <1>2, <1>3, <1>4, <1>5 DEF Update

(* The children change their own state only and none is collected.          *)
LEMMA ChildIInv == IInv /\ (\E p \in DOMAIN procs : Child(p)) => IInv'
<1> SUFFICES ASSUME IInv, NEW p \in DOMAIN procs, Child(p) PROVE IInv'
  OBVIOUS
<1> USE DEF IInv, PointerOK, ChildLeft
<1>1. /\ DOMAIN procs = 1 .. Len(procs) /\ procs \in Seq(Procs)
      /\ procs[p] \in Procs
  BY LenProperties, ElementOfSeq DEF ProcsOK
<1>2. PICK st \in {"zombie", "stopping"} : procs' = [procs EXCEPT ![p].state = st]
  BY DEF Child, Finish, Stop, Killed, Move
<1>3. /\ UNCHANGED <<pc, jobs, at, left, blocking, ncmd>>
      /\ procs[p].state # "reaped"
  BY DEF Child, Finish, Stop, Killed, Move
<1>4. ProcsOK(procs')
  BY <1>1, <1>2, ProcsOKChildStep DEF ProcStates
<1>5. p \in Unreaped(procs')
  <2>1. /\ procs' \in Seq(Procs) /\ Len(procs') = Len(procs)
        /\ procs'[p] = [procs[p] EXCEPT !.state = st]
    <3>1. st \in ProcStates /\ p \in 1 .. Len(procs)
      BY <1>1 DEF ProcStates
    <3>2. /\ [procs EXCEPT ![p].state = st] \in Seq(Procs)
          /\ Len([procs EXCEPT ![p].state = st]) = Len(procs)
          /\ [procs EXCEPT ![p].state = st][p] = [procs[p] EXCEPT !.state = st]
      BY <1>1, <3>1, ChildStep, Zenon
    <3> QED
      BY <1>2, <3>2, Zenon
  <2>2. p \in DOMAIN procs'
    BY <1>1, <2>1, LenProperties
  <2> QED
    BY <1>1, <2>1, <2>2 DEF Unreaped, Procs
<1> QED
  BY <1>3, <1>4, <1>5

(* No step leaves the invariant.                                            *)
LEMMA NextIInv == IInv /\ [Next]_vars => IInv'
<1>1. IInv /\ UNCHANGED vars => IInv'
  BY DEF IInv, vars, PointerOK, ChildLeft
<1> QED
  BY <1>1, ReadIInv, LaunchIInv, ForegroundIInv, UpdateIInv, ChildIInv
     DEF Next, Shell

------------------------------------------------------------------------------
(* The theorems.                                                            *)

(* IInv is an invariant of the shell, for every bound.                      *)
THEOREM Invariance == Spec => []IInv
<1>1. Init => IInv
  BY InitIInv
<1>2. IInv /\ [Next]_vars => IInv'
  BY NextIInv
<1> QED
  BY <1>1, <1>2, PTL DEF Spec

(* The list, the children and the cursor keep their types.                  *)
THEOREM TypeCorrect == Spec => []TypeOK
<1>1. IInv => TypeOK
  BY DEF IInv, JobsOK, ProcsOK, TypeOK
<1> QED
  BY <1>1, Invariance, PTL

(* However jobs are added and removed, the number a job is shown with is     *)
(* never below the position fg and bg find it at.                           *)
THEOREM NumbersNeverLag == Spec => []PositionBelowIdx
<1>1. IInv => PositionBelowIdx
  <2> SUFFICES ASSUME IInv PROVE PositionBelowIdx
    OBVIOUS
  <2>1. DOMAIN jobs = 1 .. Len(jobs)
    BY LenProperties DEF IInv, JobsOK
  <2> QED
    BY <2>1 DEF IInv, JobsOK, PositionBelowIdx
<1> QED
  BY <1>1, Invariance, PTL

(* The blocking waitpid of run_job_in_foreground never fails, so the status  *)
(* it fills in is never read uninitialized.                                 *)
THEOREM WaitNeverFails == Spec => []WaitHasChild
<1>1. IInv => WaitHasChild
  <2> SUFFICES ASSUME IInv, pc \in {"resume", "wait"}
               PROVE  Awaited(-jobs[at].pgid) # {}
    BY DEF WaitHasChild
  <2>1. at \in 1 .. Len(jobs) /\ Unreaped(procs) # {}
    BY DEF IInv, PointerOK, ChildLeft
  <2>2. jobs[at].pgid \in Nat /\ jobs[at].pgid = 0
    BY <2>1 DEF IInv, JobsOK
  <2>3. Awaited(-jobs[at].pgid) = Unreaped(procs)
    BY <2>2, AwaitsAnyChild DEF IInv
  <2> QED
    BY <2>1, <2>3
<1> QED
  BY <1>1, Invariance, PTL

(* The terminal modes of a Suspended job are always ones that were saved.   *)
THEOREM ModesSaved == Spec => []SuspendedHasModes
<1>1. IInv => SuspendedHasModes
  <2> SUFFICES ASSUME IInv PROVE SuspendedHasModes
    OBVIOUS
  <2>1. DOMAIN jobs = 1 .. Len(jobs)
    BY LenProperties DEF IInv, JobsOK
  <2> QED
    BY <2>1 DEF IInv, JobsOK, SuspendedHasModes
<1> QED
  BY <1>1, Invariance, PTL

------------------------------------------------------------------------------
(***************************************************************************)
(* No child is forgotten: ChildrenAccountedFor for sessions of any length. *)
(* The count is kept by every step because a child is collected whenever a *)
(* job becomes Done, except when no child is left, and because a line that *)
(* is being launched has one job more than its last child needs.           *)
(***************************************************************************)
(* The last command of the line being launched, still to be forked.         *)
Pending == IF pc = "launch" THEN 1 ELSE 0

Accounts ==
  pc # "exited" =>
    Cardinality(Unreaped(procs)) + Pending
      <= Cardinality(Unfinished(jobs)) + Cardinality(ExtraChildren(procs))

------------------------------------------------------------------------------
(* What the operations do to the sets that are counted.                     *)

LEMMA JobCount ==
  ASSUME NEW list \in Seq(Jobs)
  PROVE  IsFiniteSet(Unfinished(list)) /\ Cardinality(Unfinished(list)) \in Nat
<1>1. Unfinished(list) \in SUBSET (1 .. Len(list)) /\ Len(list) \in Nat
  BY LenProperties DEF Unfinished
<1>2. IsFiniteSet(1 .. Len(list))
  BY <1>1, FS_Interval
<1>3. IsFiniteSet(Unfinished(list))
  BY <1>1, <1>2, FS_Subset
<1> QED
  BY <1>3, FS_CardinalityType

LEMMA ProcCount ==
  ASSUME NEW ps \in Seq(Procs)
  PROVE  /\ IsFiniteSet(Unreaped(ps)) /\ Cardinality(Unreaped(ps)) \in Nat
         /\ IsFiniteSet(ExtraChildren(ps))
         /\ Cardinality(ExtraChildren(ps)) \in Nat
<1>1. /\ Unreaped(ps) \in SUBSET (1 .. Len(ps))
      /\ ExtraChildren(ps) \in SUBSET (1 .. Len(ps))
      /\ Len(ps) \in Nat
  BY LenProperties DEF Unreaped, ExtraChildren
<1>2. IsFiniteSet(1 .. Len(ps))
  BY <1>1, FS_Interval
<1>3. IsFiniteSet(Unreaped(ps)) /\ IsFiniteSet(ExtraChildren(ps))
  BY <1>1, <1>2, FS_Subset
<1> QED
  BY <1>3, FS_CardinalityType

(* Marking a job Done takes it out of the unfinished ones, marking it       *)
(* otherwise puts it in.                                                    *)
LEMMA StatusSets ==
  ASSUME NEW list \in Seq(Jobs), NEW i \in 1 .. Len(list), NEW s \in Statuses
  PROVE  /\ s = Done =>
              Unfinished(SetStatus(list, i, s)) = Unfinished(list) \ {i}
         /\ s # Done =>
              Unfinished(SetStatus(list, i, s)) = Unfinished(list) \cup {i}
<1> DEFINE r == SetStatus(list, i, s)
<1>1. /\ r \in Seq(Jobs) /\ Len(r) = Len(list)
      /\ \A k \in 1 .. Len(list) :
           r[k] = IF k = i THEN [list[k] EXCEPT !.status = s] ELSE list[k]
  BY SetStatusJob
<1> HIDE DEF r
<1>2. DOMAIN r = 1 .. Len(list) /\ DOMAIN list = 1 .. Len(list)
  BY <1>1, LenProperties
<1>3. \A k \in 1 .. Len(list) : list[k] \in Jobs
  BY ElementOfSeq
<1>4. \A k \in 1 .. Len(list) :
        r[k].status = IF k = i THEN s ELSE list[k].status
  BY <1>1, <1>3 DEF Jobs
<1>5. Unfinished(r) = {k \in 1 .. Len(list) : (IF k = i THEN s ELSE list[k].status) # Done}
  BY <1>2, <1>4 DEF Unfinished
<1>6. Unfinished(list) = {k \in 1 .. Len(list) : list[k].status # Done}
  BY <1>2 DEF Unfinished
<1>7. CASE s = Done
  BY <1>5, <1>6, <1>7 DEF r
<1>8. CASE s # Done
  BY <1>5, <1>6, <1>8 DEF r
<1> QED
  BY <1>7, <1>8

LEMMA StatusCounts ==
  ASSUME NEW list \in Seq(Jobs), NEW i \in 1 .. Len(list), NEW s \in Statuses
  PROVE  /\ Cardinality(Unfinished(SetStatus(list, i, s)))
              >= Cardinality(Unfinished(list)) - 1
         /\ s # Done => Cardinality(Unfinished(SetStatus(list, i, s)))
                          >= Cardinality(Unfinished(list))
<1> DEFINE U == Unfinished(list)
           r == Unfinished(SetStatus(list, i, s))
<1>1. IsFiniteSet(U) /\ Cardinality(U) \in Nat
  BY JobCount
<1>2. (s = Done => r = U \ {i}) /\ (s # Done => r = U \cup {i})
  BY StatusSets, Zenon
<1> HIDE DEF U, r
<1>3. Cardinality(U \ {i}) = IF i \in U THEN Cardinality(U) - 1 ELSE Cardinality(U)
  BY <1>1, FS_RemoveElement
<1>4. Cardinality(U \cup {i}) = IF i \in U THEN Cardinality(U) ELSE Cardinality(U) + 1
  BY <1>1, FS_AddElement
<1>5. /\ Cardinality(U \ {i}) >= Cardinality(U) - 1
      /\ Cardinality(U \cup {i}) >= Cardinality(U)
      /\ Cardinality(U) >= Cardinality(U) - 1
      /\ Cardinality(U \cup {i}) >= Cardinality(U) - 1
  BY <1>1, <1>3, <1>4
<1>6. CASE s = Done
  BY <1>2, <1>5, <1>6 DEF U, r
<1>7. CASE s # Done
  BY <1>2, <1>5, <1>7 DEF U, r
<1> QED
  BY <1>6, <1>7

(* Removing a job loses at most that one: the others move up without        *)
(* merging.                                                                 *)
LEMMA RemoveSets ==
  ASSUME NEW list \in Seq(Jobs), NEW i \in 1 .. Len(list)
  PROVE  Cardinality(Unfinished(list) \ {i})
           <= Cardinality(Unfinished(remove_job(list, i)))
<1> DEFINE r == remove_job(list, i)
           S == Unfinished(list) \ {i}
           T == Unfinished(r)
           f == [k \in S |-> IF k < i THEN k ELSE k - 1]
<1>1. /\ r \in Seq(Jobs) /\ Len(r) = Len(list) - 1 /\ Len(list) \in Nat
      /\ \A k \in 1 .. Len(list) - 1 :
           r[k] = IF k < i THEN list[k] ELSE list[k + 1]
  BY RemoveJob, LenProperties
<1> HIDE DEF r
<1>2. DOMAIN r = 1 .. Len(list) - 1 /\ DOMAIN list = 1 .. Len(list)
  BY <1>1, LenProperties
<1>3. IsFiniteSet(T)
  BY <1>1, JobCount DEF T
<1>4. \A k \in S : k \in 1 .. Len(list) /\ k # i /\ list[k].status # Done
  BY <1>2 DEF Unfinished
<1>5. ASSUME NEW k \in S
      PROVE  f[k] \in T
  <2>1. k \in 1 .. Len(list) /\ k # i /\ list[k].status # Done
    BY <1>4
  <2>2. CASE k < i
    <3>1. f[k] = k /\ k \in 1 .. Len(list) - 1 /\ r[k] = list[k]
      BY <1>1, <2>1, <2>2
    <3> QED
      BY <1>2, <2>1, <3>1 DEF Unfinished
  <2>3. CASE ~ (k < i)
    <3>1. f[k] = k - 1 /\ k - 1 \in 1 .. Len(list) - 1
      BY <1>1, <2>1, <2>3
    <3>2. r[k - 1] = list[k]
      BY <1>1, <2>1, <2>3, <3>1
    <3> QED
      BY <1>2, <2>1, <3>1, <3>2 DEF Unfinished
  <2> QED
    BY <2>2, <2>3
<1>6. \A a, b \in S : f[a] = f[b] => a = b
  BY <1>4
<1> HIDE DEF S, T
<1>7. f \in Injection(S, T)
  BY <1>5, <1>6 DEF Injection, IsInjective
<1> HIDE DEF f
<1>8. Cardinality(S) <= Cardinality(T)
  BY <1>3, <1>7, FS_Injection
<1> QED
  BY <1>8 DEF S, T, r

LEMMA RemoveCounts ==
  ASSUME NEW list \in Seq(Jobs), NEW i \in 1 .. Len(list)
  PROVE  /\ Cardinality(Unfinished(remove_job(list, i)))
              >= Cardinality(Unfinished(list)) - 1
         /\ list[i].status = Done =>
              Cardinality(Unfinished(remove_job(list, i)))
                >= Cardinality(Unfinished(list))
<1> DEFINE U == Unfinished(list)
           n == Cardinality(Unfinished(remove_job(list, i)))
<1>1. IsFiniteSet(U) /\ Cardinality(U) \in Nat
  BY JobCount
<1>2. /\ n \in Nat
      /\ Cardinality(U \ {i}) <= n
  BY RemoveJob, JobCount, RemoveSets
<1>3. list[i].status = Done => U \ {i} = U
  BY DEF Unfinished
<1> HIDE DEF U, n
<1>4. Cardinality(U \ {i}) = IF i \in U THEN Cardinality(U) - 1 ELSE Cardinality(U)
  BY <1>1, FS_RemoveElement
<1>5. n >= Cardinality(U) - 1 /\ (list[i].status = Done => n >= Cardinality(U))
  BY <1>1, <1>2, <1>3, <1>4
<1> QED
  BY <1>5 DEF U, n

(* A child that is collected is the only one that leaves the count.         *)
LEMMA ChildSets ==
  ASSUME NEW ps \in Seq(Procs), NEW p \in 1 .. Len(ps), NEW st \in ProcStates
  PROVE  /\ ExtraChildren([ps EXCEPT ![p].state = st]) = ExtraChildren(ps)
         /\ Unreaped([ps EXCEPT ![p].state = st]) =
              IF st = "reaped" THEN Unreaped(ps) \ {p} ELSE Unreaped(ps) \cup {p}
<1> DEFINE r == [ps EXCEPT ![p].state = st]
<1>1. /\ r \in Seq(Procs) /\ Len(r) = Len(ps)
      /\ \A k \in 1 .. Len(ps) :
           r[k] = IF k = p THEN [ps[k] EXCEPT !.state = st] ELSE ps[k]
  BY ChildStep
<1> HIDE DEF r
<1>2. DOMAIN r = 1 .. Len(ps) /\ DOMAIN ps = 1 .. Len(ps)
  BY <1>1, LenProperties
<1>3. \A k \in 1 .. Len(ps) : ps[k] \in Procs
  BY ElementOfSeq
<1>4. \A k \in 1 .. Len(ps) :
        /\ r[k].after = ps[k].after
        /\ r[k].state = IF k = p THEN st ELSE ps[k].state
  BY <1>1, <1>3 DEF Procs
<1> QED
  BY <1>2, <1>4 DEF ExtraChildren, Unreaped, r

LEMMA ContinuedSets ==
  ASSUME NEW ps \in Seq(Procs), NEW pgid
  PROVE  /\ ExtraChildren(Continued(ps, pgid)) = ExtraChildren(ps)
         /\ Unreaped(Continued(ps, pgid)) = Unreaped(ps)
<1> DEFINE r == Continued(ps, pgid)
<1>1. /\ r \in Seq(Procs) /\ Len(r) = Len(ps)
      /\ \A k \in 1 .. Len(ps) :
           \/ r[k] = ps[k]
           \/ /\ ps[k].state \in {"stopping", "stopped"}
              /\ r[k] = [ps[k] EXCEPT !.state = "running"]
  BY ContinuedChildren
<1> HIDE DEF r
<1>2. DOMAIN r = 1 .. Len(ps) /\ DOMAIN ps = 1 .. Len(ps)
  BY <1>1, LenProperties
<1>3. \A k \in 1 .. Len(ps) : ps[k] \in Procs
  BY ElementOfSeq
<1>4. ASSUME NEW k \in 1 .. Len(ps)
      PROVE  /\ r[k].after = ps[k].after
             /\ r[k].state = "reaped" <=> ps[k].state = "reaped"
  BY <1>1, <1>3 DEF Procs
<1> QED
  BY <1>2, <1>4 DEF ExtraChildren, Unreaped, r

(* Collecting a child that has ended takes one from the count.              *)
LEMMA CollectCounts ==
  ASSUME NEW ps \in Seq(Procs), NEW p \in Unreaped(ps), NEW r,
         r = [ps EXCEPT ![p].state = "reaped"]
  PROVE  /\ Cardinality(Unreaped(r)) = Cardinality(Unreaped(ps)) - 1
         /\ ExtraChildren(r) = ExtraChildren(ps)
<1>1. p \in 1 .. Len(ps) /\ "reaped" \in ProcStates
  BY LenProperties DEF Unreaped, ProcStates
<1>2. Unreaped(r) = Unreaped(ps) \ {p} /\ ExtraChildren(r) = ExtraChildren(ps)
  BY <1>1, ChildSets
<1>3. Cardinality(Unreaped(ps) \ {p}) = Cardinality(Unreaped(ps)) - 1
  BY ProcCount, FS_RemoveElement
<1> QED
  BY <1>2, <1>3

(* A new job is one more unfinished job unless it is Done from the start.   *)
LEMMA NewJobCounts ==
  ASSUME NEW s \in {Done, Running}, IInv
  PROVE  /\ Cardinality(Unfinished(NewJobList(s))) \in Nat
         /\ Cardinality(Unfinished(NewJobList(s)))
              >= Cardinality(Unfinished(jobs))
         /\ s = Running => Cardinality(Unfinished(NewJobList(s)))
                             = Cardinality(Unfinished(jobs)) + 1
<1> DEFINE n == Len(jobs) + 1
           a == add_job(jobs, ncmd + 1)
           U == Unfinished(jobs)
           r == Unfinished(NewJobList(s))
<1>1. /\ jobs \in Seq(Jobs) /\ Len(jobs) \in Nat /\ ncmd + 1 \in Nat
      /\ DOMAIN jobs = 1 .. Len(jobs)
  BY LenProperties DEF IInv, JobsOK
<1>2. /\ a \in Seq(Jobs) /\ Len(a) = n
      /\ \A k \in 1 .. Len(jobs) : a[k] = jobs[k]
      /\ a[n].status = Suspended
  <2>1. /\ a \in Seq(Jobs) /\ Len(a) = Len(jobs) + 1
        /\ \A k \in 1 .. Len(jobs) : a[k] = jobs[k]
        /\ a[Len(jobs) + 1] =
             [id |-> ncmd + 1, idx |-> Len(jobs) + 1, pgid |-> 0,
              status |-> Suspended, modes |-> "unset"]
    BY <1>1, AddJob
  <2> QED
    BY <2>1
<1>3. /\ DOMAIN a = 1 .. n /\ NewJobList(s) = SetStatus(a, n, s)
      /\ n \in 1 .. Len(a) /\ s \in Statuses
  BY <1>1, <1>2, LenProperties DEF NewJobList, Statuses
<1> HIDE DEF a
<1>4. Unfinished(a) = U \cup {n} /\ n \notin U
  BY <1>1, <1>2, <1>3 DEF Unfinished, Done, Suspended
<1>5. /\ s = Done => r = Unfinished(a) \ {n}
      /\ s # Done => r = Unfinished(a) \cup {n}
  <2>1. /\ s = Done => Unfinished(SetStatus(a, n, s)) = Unfinished(a) \ {n}
        /\ s # Done => Unfinished(SetStatus(a, n, s)) = Unfinished(a) \cup {n}
    BY <1>2, <1>3, StatusSets
  <2> QED
    BY <1>3, <2>1
<1>6. (s = Done => r = U) /\ (s # Done => r = U \cup {n})
  BY <1>4, <1>5
<1>7. IsFiniteSet(U) /\ Cardinality(U) \in Nat
  BY <1>1, JobCount
<1> HIDE DEF U, r, n
<1>8. Cardinality(U \cup {n}) = Cardinality(U) + 1
  BY <1>4, <1>7, FS_AddElement
<1>9. /\ Cardinality(r) \in Nat
      /\ Cardinality(r) >= Cardinality(U)
      /\ s = Running => Cardinality(r) = Cardinality(U) + 1
  BY <1>6, <1>7, <1>8 DEF Done, Running
<1> QED
  BY <1>9 DEF U, r

------------------------------------------------------------------------------
(* Every operation keeps the accounts.                                      *)

LEMMA ReadAccounts == IInv /\ Accounts /\ Read => Accounts'
<1> SUFFICES ASSUME IInv, Accounts, Read PROVE Accounts'
  OBVIOUS
<1> DEFINE u == Cardinality(Unreaped(procs))
           x == Cardinality(ExtraChildren(procs))
           j == Cardinality(Unfinished(jobs))
           J(s) == Cardinality(Unfinished(NewJobList(s)))
<1>1. /\ jobs \in Seq(Jobs) /\ procs \in Seq(Procs) /\ pc = "prompt"
      /\ u \in Nat /\ x \in Nat /\ j \in Nat /\ u <= j + x
  <2>1. jobs \in Seq(Jobs) /\ procs \in Seq(Procs)
    BY DEF IInv, JobsOK, ProcsOK
  <2>2. pc = "prompt"
    BY DEF Read, ReadRun, ReadFg, run_job_in_background, ReadCrash, ReadJobs,
           ReadEmpty, Quit, ReadLine
  <2> QED
    BY <2>1, <2>2, JobCount, ProcCount DEF Accounts, Pending
<1>2. J(Done) \in Nat /\ J(Done) >= j /\ J(Running) = j + 1
  <2>1. Done # Running
    BY DEF Done, Running
  <2> QED
    BY <1>1, <2>1, NewJobCounts
<1> HIDE DEF u, x, j, J
<1>3. ASSUME jobs' \in {NewJobList(Running), NewJobList(Done)}, procs' = procs,
             jobs' = NewJobList(Done) => pc' # "launch"
      PROVE  Accounts'
  BY <1>1, <1>2, <1>3 DEF Accounts, Pending, u, x, j, J
<1>4. \A n \in 1 .. MaxStages, b \in BOOLEAN : ReadRun(n, b) => Accounts'
  BY <1>1, <1>2 DEF ReadRun, ReadLine, Accounts, Pending, u, x, j, J
<1>5. \A k \in 0 .. MaxCommands : ReadFg(k) => Accounts'
  <2> SUFFICES ASSUME NEW k \in 0 .. MaxCommands, ReadFg(k) PROVE Accounts'
    OBVIOUS
  <2>1. /\ jobs' = NewJobList(Running) /\ procs' = procs
        /\ pc' \in {"crashed", "prompt", "poll"}
    BY DEF ReadFg, ReadLine
  <2> QED
    BY <1>1, <1>2, <2>1 DEF Accounts, Pending, u, x, j, J
<1>6. \A k \in 1 .. MaxCommands : run_job_in_background(k) => Accounts'
  <2> SUFFICES ASSUME NEW k \in 1 .. MaxCommands, run_job_in_background(k)
               PROVE  Accounts'
    OBVIOUS
  <2> DEFINE list == NewJobList(Running)
             found == find_job_by_index(list, k)
  <2>1. /\ list \in Seq(Jobs) /\ found \in 1 .. Len(list)
    BY <1>1, JobsOKNew
       DEF run_job_in_background, find_job_by_index, IInv, JobsOK
  <2>2. /\ jobs' = SetStatus(list, found, Running)
        /\ \/ procs' = Continued(procs, list[found].pgid)
           \/ procs' = procs
        /\ pc' = pc
    BY DEF run_job_in_background
  <2>3. /\ Cardinality(Unfinished(jobs')) >= J(Running)
        /\ Cardinality(Unfinished(jobs')) \in Nat
    <3> HIDE DEF list, found
    <3>1. Running \in Statuses /\ Running # Done
      BY DEF Statuses, Running, Done
    <3>2. jobs' \in Seq(Jobs)
      BY <2>1, <2>2, <3>1, SetStatusJob
    <3>3. Cardinality(Unfinished(jobs')) >= Cardinality(Unfinished(list))
      BY <2>1, <2>2, <3>1, StatusCounts
    <3> QED
      BY <3>2, <3>3, JobCount DEF J, list
  <2>4. /\ Cardinality(Unreaped(procs')) = u
        /\ Cardinality(ExtraChildren(procs')) = x
    <3> HIDE DEF list, found
    <3> QED
      BY <1>1, <2>2, ContinuedSets DEF u, x
  <2>5. Cardinality(Unreaped(procs'))
          <= Cardinality(Unfinished(jobs')) + Cardinality(ExtraChildren(procs'))
    BY <1>1, <1>2, <2>3, <2>4
  <2> QED
    BY <1>1, <2>2, <2>3, <2>4, <2>5 DEF Accounts, Pending, u, x
<1>7. ReadCrash => Accounts'
  BY <1>1, <1>2 DEF ReadCrash, ReadLine, Accounts, Pending, u, x, j, J
<1>8. ReadJobs => Accounts'
  BY <1>1, <1>2 DEF ReadJobs, ReadLine, Accounts, Pending, u, x, j, J
<1>9. ReadEmpty => Accounts'
  BY <1>1, <1>2 DEF ReadEmpty, ReadLine, Accounts, Pending, u, x, j, J
<1>10. Quit => Accounts'
  BY DEF Quit, Accounts
<1> QED
  BY <1>4, <1>5, <1>6, <1>7, <1>8, <1>9, <1>10 DEF Read

(* A fork adds a child, which the line's job pays for if it is the last and *)
(* which is an extra one otherwise.                                         *)
LEMMA LaunchAccounts == IInv /\ Accounts /\ executeHelper => Accounts'
<1> SUFFICES ASSUME IInv, Accounts, executeHelper PROVE Accounts'
  OBVIOUS
<1> DEFINE u == Cardinality(Unreaped(procs))
           x == Cardinality(ExtraChildren(procs))
           j == Cardinality(Unfinished(jobs))
<1>1. /\ pc = "launch" /\ left \in Nat \ {0} /\ at \in 1 .. Len(jobs)
      /\ jobs \in Seq(Jobs) /\ procs \in Seq(Procs) /\ jobs[at] \in Jobs
  BY ElementOfSeq DEF executeHelper, IInv, PointerOK, JobsOK, ProcsOK
<1>2. u \in Nat /\ x \in Nat /\ j \in Nat /\ u + 1 <= j + x
  BY <1>1, JobCount, ProcCount DEF Accounts, Pending
<1>3. Unfinished(jobs') = Unfinished(jobs)
  <2>1. /\ jobs' \in Seq(Jobs) /\ Len(jobs') = Len(jobs)
        /\ \A k \in 1 .. Len(jobs) : jobs'[k].status = jobs[k].status
    <3> DEFINE new == [jobs[at] EXCEPT !.pgid = 0]
    <3>1. new \in Jobs /\ new.status = jobs[at].status
      BY <1>1 DEF Jobs
    <3>2. jobs' = [jobs EXCEPT ![at] = new]
      BY <1>1 DEF executeHelper
    <3> HIDE DEF new
    <3>3. /\ jobs' \in Seq(Jobs) /\ Len(jobs') = Len(jobs)
          /\ \A k \in 1 .. Len(jobs) :
               jobs'[k] = IF k = at THEN new ELSE jobs[k]
      BY <1>1, <3>1, <3>2, ExceptSeq
    <3> QED
      BY <3>1, <3>3
  <2> QED
    BY <1>1, <2>1, LenProperties DEF Unfinished
<1>4. \/ procs' = procs
      \/ /\ Cardinality(Unreaped(procs')) = u + 1
         /\ Cardinality(ExtraChildren(procs')) = IF left > 1 THEN x + 1 ELSE x
  <2>1. CASE Len(procs) < MaxForks /\ procs' = Forked(procs, jobs[at].id, left)
    <3> DEFINE n == Len(procs) + 1
    <3>1. /\ procs' \in Seq(Procs) /\ Len(procs') = Len(procs) + 1
          /\ \A k \in 1 .. Len(procs) : procs'[k] = procs[k]
          /\ procs'[Len(procs) + 1].state = "running"
          /\ procs'[Len(procs) + 1].after = left - 1
      <4>1. jobs[at].id \in Nat
        BY <1>1 DEF Jobs
      <4>2. /\ procs' \in Seq(Procs) /\ Len(procs') = Len(procs) + 1
            /\ \A k \in 1 .. Len(procs) : procs'[k] = procs[k]
            /\ procs'[Len(procs) + 1] =
                 [state |-> "running", job |-> jobs[at].id,
                  after |-> left - 1, grp |-> ShellPid]
        BY <1>1, <2>1, <4>1, BoundsAssumption, ForkedChild
      <4> QED
        BY <4>2
    <3>2. /\ DOMAIN procs = 1 .. Len(procs) /\ DOMAIN procs' = 1 .. n
          /\ Len(procs) \in Nat
      BY <1>1, <3>1, LenProperties
    <3>3. Unreaped(procs') = Unreaped(procs) \cup {n} /\ n \notin Unreaped(procs)
      BY <3>1, <3>2 DEF Unreaped
    <3>4. /\ left > 1 => ExtraChildren(procs') = ExtraChildren(procs) \cup {n}
          /\ ~ (left > 1) => ExtraChildren(procs') = ExtraChildren(procs)
          /\ n \notin ExtraChildren(procs)
      BY <1>1, <3>1, <3>2 DEF ExtraChildren
    <3>5. IsFiniteSet(Unreaped(procs)) /\ IsFiniteSet(ExtraChildren(procs))
      BY <1>1, ProcCount
    <3>6. /\ Cardinality(Unreaped(procs) \cup {n}) = u + 1
          /\ Cardinality(ExtraChildren(procs) \cup {n}) = x + 1
      <4> HIDE DEF n
      <4> QED
        BY <3>3, <3>4, <3>5, FS_AddElement
    <3> QED
      BY <3>3, <3>4, <3>6
  <2> QED
    BY <2>1 DEF executeHelper
<1>5. /\ pc' \in {"launch", "poll", "prompt"}
      /\ ~ (left > 1) => pc' # "launch"
  BY <1>1, Zenon DEF executeHelper
<1>6. CASE procs' = procs
  BY <1>2, <1>3, <1>5, <1>6 DEF Accounts, Pending
<1>7. CASE procs' # procs
  <2>1. CASE left > 1
    BY <1>2, <1>3, <1>4, <1>5, <1>7, <2>1 DEF Accounts, Pending
  <2>2. CASE ~ (left > 1)
    BY <1>2, <1>3, <1>4, <1>5, <1>7, <2>2 DEF Accounts, Pending
  <2> QED
    BY <2>1, <2>2
<1> QED
  BY <1>6, <1>7

LEMMA ForegroundAccounts == IInv /\ Accounts /\ Foreground => Accounts'
<1> SUFFICES ASSUME IInv, Accounts, Foreground PROVE Accounts'
  OBVIOUS
<1> DEFINE u == Cardinality(Unreaped(procs))
           x == Cardinality(ExtraChildren(procs))
           j == Cardinality(Unfinished(jobs))
<1>1. /\ pc \in {"poll", "resume", "wait"} /\ at \in 1 .. Len(jobs)
      /\ jobs \in Seq(Jobs) /\ procs \in Seq(Procs) /\ jobs[at] \in Jobs
      /\ jobs[at].pgid = 0 /\ jobs[at].pgid \in Nat
      /\ DOMAIN procs = 1 .. Len(procs)
  <2>1. pc \in {"poll", "resume", "wait"}
    BY DEF Foreground, FgPollNoChild, FgPollReap, FgPollNone, FgResume,
           FgWaitEnd, FgWaitStop
  <2>2. /\ jobs \in Seq(Jobs) /\ procs \in Seq(Procs) /\ at \in 1 .. Len(jobs)
        /\ DOMAIN procs = 1 .. Len(procs)
    BY <2>1, LenProperties DEF IInv, PointerOK, JobsOK, ProcsOK
  <2>3. jobs[at] \in Jobs /\ jobs[at].pgid = 0
    BY <2>2, ElementOfSeq DEF IInv, JobsOK
  <2> QED
    BY <2>1, <2>2, <2>3
<1>2. u \in Nat /\ x \in Nat /\ j \in Nat /\ u <= j + x
  BY <1>1, JobCount, ProcCount DEF Accounts, Pending
<1>3. Awaited(-jobs[at].pgid) = Unreaped(procs)
  BY <1>1, AwaitsAnyChild DEF IInv
<1>4. \A s \in Statuses :
        /\ SetStatus(jobs, at, s) \in Seq(Jobs)
        /\ Cardinality(Unfinished(SetStatus(jobs, at, s))) \in Nat
        /\ Cardinality(Unfinished(SetStatus(jobs, at, s))) >= j - 1
        /\ s # Done => Cardinality(Unfinished(SetStatus(jobs, at, s))) >= j
  BY <1>1, SetStatusJob, JobCount, StatusCounts
<1>5. {Done, Running, Suspended} \subseteq Statuses /\ Running # Done
      /\ Suspended # Done
  BY DEF Statuses, Done, Running, Suspended
(* A job becomes Done with one child less to collect.                       *)
<1>6. ASSUME NEW p \in Unreaped(procs),
             procs' = [procs EXCEPT ![p].state = "reaped"],
             Cardinality(Unfinished(jobs')) \in Nat,
             Cardinality(Unfinished(jobs')) >= j - 1,
             pc' # "launch"
      PROVE  Accounts'
  <2>1. Cardinality(Unreaped(procs')) = u - 1 /\ ExtraChildren(procs') = ExtraChildren(procs)
    BY <1>1, <1>6, CollectCounts
  <2> QED
    BY <1>2, <1>6, <2>1 DEF Accounts, Pending
(* No child is collected.                                                   *)
<1>7. ASSUME Unreaped(procs') = Unreaped(procs),
             ExtraChildren(procs') = ExtraChildren(procs),
             Cardinality(Unfinished(jobs')) \in Nat,
             Cardinality(Unfinished(jobs')) >= j,
             pc' # "launch"
      PROVE  Accounts'
  BY <1>2, <1>7 DEF Accounts, Pending
<1>8. CASE FgPollNoChild
  <2>1. /\ Unreaped(procs) = {} /\ procs' = procs /\ pc' = "prompt"
        /\ Cardinality(Unfinished(jobs')) \in Nat
    BY <1>3, <1>4, <1>5, <1>8 DEF FgPollNoChild
  <2>2. u = 0
    BY <2>1, FS_EmptySet
  <2> QED
    BY <1>2, <2>1, <2>2 DEF Accounts, Pending
<1>9. CASE \E p \in DOMAIN procs : FgPollReap(p)
  BY <1>3, <1>4, <1>5, <1>6, <1>9 DEF FgPollReap, Zombies, Reap
<1>10. CASE FgPollNone
  BY <1>2, <1>7, <1>10 DEF FgPollNone
<1>11. CASE FgResume
  <2>1. pc' = "wait"
    BY <1>11 DEF FgResume
  <2>2. CASE jobs' = jobs /\ procs' = procs
    BY <1>2, <1>7, <2>1, <2>2
  <2>3. CASE /\ jobs' = SetStatus(jobs, at, Running)
             /\ procs' = Continued(procs, jobs[at].pgid)
    <3>1. /\ ExtraChildren(procs') = ExtraChildren(procs)
          /\ Unreaped(procs') = Unreaped(procs)
      BY <1>1, <2>3, ContinuedSets
    <3> QED
      BY <1>4, <1>5, <1>7, <2>1, <2>3, <3>1
  <2> QED
    BY <1>11, <2>2, <2>3 DEF FgResume
<1>12. ASSUME NEW p \in Unreaped(procs), NEW st \in {"reaped", "stopped"},
              NEW s \in {Done, Suspended}, FgReturn(p, st, s)
       PROVE  Unfinished(jobs') = Unfinished(SetStatus(jobs, at, s))
  <2> DEFINE new == [jobs[at] EXCEPT !.status = s, !.modes = "saved"]
             r == SetStatus(jobs, at, s)
  <2>1. new \in Jobs /\ new.status = s
    BY <1>1, <1>5 DEF Jobs
  <2>2. jobs' = [jobs EXCEPT ![at] = new]
    BY <1>1, <1>12 DEF FgReturn
  <2>3. [jobs[at] EXCEPT !.status = s].status = s
    BY <1>1 DEF Jobs
  <2> HIDE DEF new
  <2>4. /\ jobs' \in Seq(Jobs) /\ Len(jobs') = Len(jobs)
        /\ \A k \in 1 .. Len(jobs) :
             jobs'[k] = IF k = at THEN new ELSE jobs[k]
    BY <1>1, <2>1, <2>2, ExceptSeq
  <2>5. /\ r \in Seq(Jobs) /\ Len(r) = Len(jobs)
        /\ \A k \in 1 .. Len(jobs) :
             r[k] = IF k = at THEN [jobs[k] EXCEPT !.status = s] ELSE jobs[k]
    <3>1. s \in Statuses
      BY <1>5
    <3> QED
      BY <1>1, <3>1, SetStatusJob, SMTT(30)
  <2> HIDE DEF r
  <2>6. \A k \in 1 .. Len(jobs) : jobs'[k].status = r[k].status
    BY <2>1, <2>3, <2>4, <2>5
  <2>7. DOMAIN jobs' = 1 .. Len(jobs) /\ DOMAIN r = 1 .. Len(jobs)
    BY <2>4, <2>5, LenProperties
  <2> QED
    BY <2>6, <2>7 DEF Unfinished, r
<1>13. CASE \E p \in DOMAIN procs : FgWaitEnd(p)
  <2> PICK p \in Unreaped(procs) : FgReturn(p, "reaped", Done)
    BY <1>3, <1>13 DEF FgWaitEnd, Zombies
  <2>1. /\ Unfinished(jobs') = Unfinished(SetStatus(jobs, at, Done))
    BY <1>12
  <2> QED
    BY <1>4, <1>5, <1>6, <2>1 DEF FgReturn
<1>14. CASE \E p \in DOMAIN procs : FgWaitStop(p)
  <2> PICK p \in Unreaped(procs) :
        FgReturn(p, "stopped", Suspended) /\ procs[p].state = "stopping"
    BY <1>3, <1>14 DEF FgWaitStop
  <2>1. /\ Unfinished(jobs') = Unfinished(SetStatus(jobs, at, Suspended))
    BY <1>12
  <2>2. /\ ExtraChildren(procs') = ExtraChildren(procs)
        /\ Unreaped(procs') = Unreaped(procs)
    <3>1. /\ p \in 1 .. Len(procs) /\ "stopped" \in ProcStates
          /\ procs' = [procs EXCEPT ![p].state = "stopped"]
      BY <1>1 DEF Unreaped, ProcStates, FgReturn
    <3>2. /\ ExtraChildren(procs') = ExtraChildren(procs)
          /\ Unreaped(procs') = Unreaped(procs) \cup {p}
      BY <1>1, <3>1, ChildSets, ZenonT(40)
    <3> QED
      BY <3>2
  <2> QED
    BY <1>4, <1>5, <1>7, <2>1, <2>2 DEF FgReturn
<1> QED
  BY <1>8, <1>9, <1>10, <1>11, <1>13, <1>14 DEF Foreground

LEMMA UpdateAccounts == IInv /\ Accounts /\ Update => Accounts'
<1> SUFFICES ASSUME IInv, Accounts, Update PROVE Accounts'
  OBVIOUS
<1> DEFINE u == Cardinality(Unreaped(procs))
           x == Cardinality(ExtraChildren(procs))
           j == Cardinality(Unfinished(jobs))
<1>1. /\ pc \in {"update", "refresh", "print"}
      /\ pc' \in {"update", "refresh", "print", "prompt"}
      /\ jobs \in Seq(Jobs) /\ procs \in Seq(Procs)
      /\ DOMAIN jobs = 1 .. Len(jobs)
  <2>1. /\ pc \in {"update", "refresh", "print"}
        /\ pc' \in {"update", "refresh", "print", "prompt"}
    BY DEF Update, UpdateReap, UpdateSkip, UpdateEnd, print_jobs, Updating
  <2> QED
    BY <2>1, LenProperties DEF IInv, JobsOK, ProcsOK
<1>2. u \in Nat /\ x \in Nat /\ j \in Nat /\ u <= j + x
  BY <1>1, JobCount, ProcCount DEF Accounts, Pending
<1>3. CASE \E p \in DOMAIN procs : UpdateReap(p)
  <2> PICK p \in DOMAIN procs : UpdateReap(p)
    BY <1>3
  <2>1. /\ p \in Unreaped(procs) /\ at \in 1 .. Len(jobs) /\ Done \in Statuses
        /\ procs' = [procs EXCEPT ![p].state = "reaped"]
    BY <1>1 DEF UpdateReap, Updating, Zombies, Awaited, Reap, Statuses
  <2>2. /\ Cardinality(Unreaped(procs')) = u - 1
        /\ ExtraChildren(procs') = ExtraChildren(procs)
    BY <1>1, <2>1, CollectCounts
  <2>3. /\ Cardinality(Unfinished(jobs')) \in Nat
        /\ Cardinality(Unfinished(jobs')) >= j - 1
    <3>1. CASE jobs' = remove_job(jobs, at)
      BY <1>1, <2>1, <3>1, RemoveJob, JobCount, RemoveCounts
    <3>2. CASE jobs' = SetStatus(jobs, at, Done)
      BY <1>1, <2>1, <3>2, SetStatusJob, JobCount, StatusCounts
    <3> QED
      BY <3>1, <3>2 DEF UpdateReap
  <2> QED
    BY <1>1, <1>2, <2>2, <2>3 DEF Accounts, Pending
<1>4. CASE UpdateSkip \/ UpdateEnd
  BY <1>1, <1>2, <1>4 DEF UpdateSkip, UpdateEnd, Accounts, Pending
<1>5. CASE print_jobs
  <2>1. procs' = procs
    BY <1>5 DEF print_jobs
  <2>2. /\ Cardinality(Unfinished(jobs')) \in Nat
        /\ Cardinality(Unfinished(jobs')) >= j
    <3>1. CASE jobs' = jobs
      BY <1>2, <3>1
    <3>2. CASE /\ at \in 1 .. Len(jobs) /\ jobs[at].status = Done
               /\ jobs' = remove_job(jobs, at)
      BY <1>1, <3>2, RemoveJob, JobCount, RemoveCounts
    <3> QED
      BY <1>1, <1>5, <3>1, <3>2 DEF print_jobs
  <2> QED
    BY <1>1, <1>2, <2>1, <2>2 DEF Accounts, Pending
<1> QED
  BY <1>3, <1>4, <1>5 DEF Update

LEMMA ChildAccounts ==
  IInv /\ Accounts /\ (\E p \in DOMAIN procs : Child(p)) => Accounts'
<1> SUFFICES ASSUME IInv, Accounts, NEW p \in DOMAIN procs, Child(p)
             PROVE  Accounts'
  OBVIOUS
<1>1. procs \in Seq(Procs) /\ p \in 1 .. Len(procs)
  BY LenProperties DEF IInv, ProcsOK
<1>2. PICK st \in {"zombie", "stopping"} : procs' = [procs EXCEPT ![p].state = st]
  BY DEF Child, Finish, Stop, Killed, Move
<1>3. pc' = pc /\ jobs' = jobs /\ p \in Unreaped(procs)
  BY DEF Child, Finish, Stop, Killed, Move, Unreaped
<1>4. /\ ExtraChildren(procs') = ExtraChildren(procs)
      /\ Unreaped(procs') = Unreaped(procs) \cup {p}
  <2>1. st \in ProcStates /\ st # "reaped"
    BY DEF ProcStates
  <2> QED
    BY <1>1, <1>2, <2>1, ChildSets
<1>5. Unreaped(procs') = Unreaped(procs)
  BY <1>3, <1>4
<1> QED
  BY <1>3, <1>4, <1>5 DEF Accounts, Pending

LEMMA NextAccounts == IInv /\ Accounts /\ [Next]_vars => Accounts'
<1>1. Accounts /\ UNCHANGED vars => Accounts'
  BY DEF Accounts, Pending, vars
<1> QED
  BY <1>1, ReadAccounts, LaunchAccounts, ForegroundAccounts, UpdateAccounts,
     ChildAccounts DEF Next, Shell

LEMMA InitAccounts == Init => Accounts
<1> SUFFICES ASSUME Init PROVE Accounts
  OBVIOUS
<1>1. Unreaped(procs) = {} /\ ExtraChildren(procs) = {} /\ Unfinished(jobs) = {}
  BY DEF Init, Unreaped, ExtraChildren, Unfinished
<1>2. /\ Cardinality(Unreaped(procs)) = 0
      /\ Cardinality(ExtraChildren(procs)) = 0
      /\ Cardinality(Unfinished(jobs)) = 0
  BY <1>1, FS_EmptySet, Zenon
<1> QED
  BY <1>2 DEF Accounts, Pending, Init

------------------------------------------------------------------------------
(* The list never has fewer unfinished jobs than there are children left to  *)
(* collect, counting one child per pipeline, in sessions of any length and   *)
(* with any number of forks, failed or not.                                 *)
THEOREM NoChildForgotten == Spec => []ChildrenAccountedFor
<1>1. Init => Accounts
  BY InitAccounts
<1>2. IInv /\ Accounts /\ [Next]_vars => Accounts'
  BY NextAccounts
<1>3. IInv /\ Accounts => ChildrenAccountedFor
  <2> SUFFICES ASSUME IInv, Accounts, pc # "exited"
               PROVE  Cardinality(Unreaped(procs))
                        <= Cardinality(Unfinished(jobs))
                             + Cardinality(ExtraChildren(procs))
    BY DEF ChildrenAccountedFor
  <2>1. jobs \in Seq(Jobs) /\ procs \in Seq(Procs)
    BY DEF IInv, JobsOK, ProcsOK
  <2> QED
    BY <2>1, JobCount, ProcCount DEF Accounts, Pending
<1> QED
  BY <1>1, <1>2, <1>3, Invariance, PTL DEF Spec

------------------------------------------------------------------------------
(* The shell of lab 5 implements the job table, step by step and for        *)
(* sessions of any length: TableOfList is what the table is in a list of jobs. *)

(* The job table a list stands for once n lines have been read.             *)
TableOfList(list, n) ==
  [id \in 1 .. MaxCommands |->
     LET at_id == {i \in DOMAIN list : list[i].id = id}
     IN IF at_id # {} THEN list[CHOOSE i \in at_id : TRUE].status
        ELSE IF id <= n THEN "gone" ELSE "none"]

(* No two jobs were made for the same line, and every line has been read.   *)
IdsOK(list, n) ==
  /\ n \in 0 .. MaxCommands
  /\ \A i \in 1 .. Len(list) : list[i].id \in 1 .. n
  /\ \A i, k \in 1 .. Len(list) : list[i].id = list[k].id => i = k

(* The job the running function points to is not Done: it is Running while  *)
(* its pipeline is launched and when the shell blocks for it.               *)
PointedOK ==
  /\ pc \in {"launch", "wait"} => jobs[at].status = Running
  /\ pc \in {"poll", "resume"} => jobs[at].status # Done

TInv == IdsOK(jobs, ncmd) /\ PointedOK
------------------------------------------------------------------------------
(* Reading the table of a list.                                             *)

LEMMA TableValue ==
  ASSUME NEW list \in Seq(Jobs), NEW n, IdsOK(list, n),
         NEW id \in 1 .. MaxCommands
  PROVE  /\ \A i \in 1 .. Len(list) :
              list[i].id = id => TableOfList(list, n)[id] = list[i].status
         /\ (\A i \in 1 .. Len(list) : list[i].id # id) =>
              TableOfList(list, n)[id] = IF id <= n THEN "gone" ELSE "none"
<1> DEFINE at_id == {i \in DOMAIN list : list[i].id = id}
<1>1. DOMAIN list = 1 .. Len(list)
  BY LenProperties
<1>2. TableOfList(list, n)[id] =
        IF at_id # {} THEN list[CHOOSE i \in at_id : TRUE].status
        ELSE IF id <= n THEN "gone" ELSE "none"
  BY DEF TableOfList
<1>3. ASSUME NEW i \in 1 .. Len(list), list[i].id = id
      PROVE  TableOfList(list, n)[id] = list[i].status
  <2>1. \A k \in at_id : k = i
    BY <1>1, <1>3 DEF IdsOK
  <2>2. i \in at_id
    BY <1>1, <1>3
  <2>3. (CHOOSE k \in at_id : TRUE) \in at_id
    BY <2>2
  <2>4. (CHOOSE k \in at_id : TRUE) = i
    BY <2>1, <2>3
  <2> HIDE DEF at_id
  <2> QED
    BY <1>2, <2>2, <2>4
<1>4. (\A i \in 1 .. Len(list) : list[i].id # id) => at_id = {}
  BY <1>1
<1> HIDE DEF at_id
<1> QED
  BY <1>2, <1>3, <1>4

Entries == {"none", "gone", "Running", "Suspended", "Done"}

(* A table is known by its entries.                                         *)
Agree(f, g) == \A id \in 1 .. MaxCommands : f[id] = g[id]

LEMMA SameTable ==
  ASSUME NEW f \in [1 .. MaxCommands -> Entries],
         NEW g \in [1 .. MaxCommands -> Entries], Agree(f, g)
  PROVE  f = g
<1>1. /\ f = [id \in 1 .. MaxCommands |-> f[id]]
      /\ g = [id \in 1 .. MaxCommands |-> g[id]]
  OBVIOUS
<1>2. [id \in 1 .. MaxCommands |-> f[id]] = [id \in 1 .. MaxCommands |-> g[id]]
  BY DEF Agree
<1> QED
  BY <1>1, <1>2, Zenon

LEMMA TableType ==
  ASSUME NEW list \in Seq(Jobs), NEW n, IdsOK(list, n)
  PROVE  TableOfList(list, n) \in [1 .. MaxCommands -> Entries]
<1>1. ASSUME NEW id \in 1 .. MaxCommands
      PROVE  TableOfList(list, n)[id] \in Entries
  <2>1. CASE \E k \in 1 .. Len(list) : list[k].id = id
    <3> PICK k \in 1 .. Len(list) : list[k].id = id
      BY <2>1
    <3>1. TableOfList(list, n)[id] = list[k].status
      BY TableValue
    <3>2. list[k] \in Jobs
      BY ElementOfSeq
    <3>3. list[k].status \in Entries
      BY <3>2 DEF Jobs, Statuses, Done, Running, Suspended, Entries
    <3> QED
      BY <3>1, <3>3
  <2>2. CASE \A k \in 1 .. Len(list) : list[k].id # id
    <3>1. TableOfList(list, n)[id] = IF id <= n THEN "gone" ELSE "none"
      BY <2>2, TableValue
    <3> QED
      BY <3>1 DEF Entries
  <2> QED
    BY <2>1, <2>2
<1>2. DOMAIN TableOfList(list, n) = 1 .. MaxCommands
  BY DEF TableOfList
<1>3. TableOfList(list, n) = [id \in 1 .. MaxCommands |-> TableOfList(list, n)[id]]
  BY DEF TableOfList
<1> QED
  BY <1>1, <1>2, <1>3

(* r has the nodes of list, and only node i has another status, s.          *)
SameNodes(list, r, i, s) ==
  /\ r \in Seq(Jobs) /\ Len(r) = Len(list)
  /\ \A k \in 1 .. Len(list) :
       /\ r[k].id = list[k].id
       /\ r[k].status = IF k = i THEN s ELSE list[k].status

(* A list with the same nodes, one of them with status s, is the table with *)
(* that entry changed.                                                      *)
LEMMA OneStatus ==
  ASSUME NEW list \in Seq(Jobs), NEW n, IdsOK(list, n),
         NEW i \in 1 .. Len(list), NEW s \in Statuses, NEW r,
         SameNodes(list, r, i, s)
  PROVE  /\ IdsOK(r, n)
         /\ TableOfList(r, n) = [TableOfList(list, n) EXCEPT ![list[i].id] = s]
<1> DEFINE T == TableOfList(list, n)
           t == [T EXCEPT ![list[i].id] = s]
<1>1. IdsOK(r, n) /\ r \in Seq(Jobs)
  BY DEF IdsOK, SameNodes
<1>2. DOMAIN T = 1 .. MaxCommands /\ DOMAIN t = 1 .. MaxCommands
  <2>1. DOMAIN T = 1 .. MaxCommands
    BY DEF TableOfList
  <2> HIDE DEF T
  <2> QED
    BY <2>1
<1>3. n \in Nat /\ MaxCommands \in Nat /\ n <= MaxCommands
  BY BoundsAssumption DEF IdsOK, BoundsAssumption
<1>4. \A k \in 1 .. Len(list) : list[k].id \in 1 .. MaxCommands
  BY <1>3 DEF IdsOK
<1>5. ASSUME NEW id \in 1 .. MaxCommands
      PROVE  TableOfList(r, n)[id] = t[id]
  <2>1. CASE \E k \in 1 .. Len(list) : list[k].id = id
    <3> PICK k \in 1 .. Len(list) : list[k].id = id
      BY <2>1
    <3>0. /\ k \in 1 .. Len(r) /\ r[k].id = id
          /\ r[k].status = IF k = i THEN s ELSE list[k].status
      BY DEF SameNodes
    <3>1. TableOfList(r, n)[id] = r[k].status /\ T[id] = list[k].status
      BY <1>1, <3>0, TableValue
    <3>2. CASE k = i
      <4>1. t[id] = s
        BY <1>2, <3>2
      <4> QED
        BY <3>0, <3>1, <3>2, <4>1
    <3>3. CASE k # i
      <4>1. list[i].id # id
        BY <3>3 DEF IdsOK
      <4>2. t[id] = T[id]
        BY <1>2, <4>1
      <4> QED
        BY <3>0, <3>1, <3>3, <4>2
    <3> QED
      BY <3>2, <3>3
  <2>2. CASE \A k \in 1 .. Len(list) : list[k].id # id
    <3>1. T[id] = IF id <= n THEN "gone" ELSE "none"
      BY <2>2, TableValue
    <3>2. TableOfList(r, n)[id] = IF id <= n THEN "gone" ELSE "none"
      <4>1. \A k \in 1 .. Len(r) : r[k].id # id
        BY <2>2 DEF SameNodes
      <4> QED
        BY <1>1, <4>1, TableValue
    <3>3. t[id] = T[id]
      BY <1>2, <2>2
    <3> QED
      BY <3>1, <3>2, <3>3
  <2> QED
    BY <2>1, <2>2
<1>6. t \in [1 .. MaxCommands -> Entries]
  <2>1. T \in [1 .. MaxCommands -> Entries] /\ s \in Entries
    BY TableType DEF Statuses, Done, Running, Suspended, Entries
  <2> HIDE DEF T
  <2> QED
    BY <2>1
<1>7. TableOfList(r, n) \in [1 .. MaxCommands -> Entries]
  BY <1>1, TableType
<1> HIDE DEF t
<1>8. TableOfList(r, n) = t
  BY <1>5, <1>6, <1>7, SameTable DEF Agree
<1> QED
  BY <1>1, <1>8 DEF t

(* The job that is removed is gone, the others keep their entries.          *)
LEMMA RemovedEntry ==
  ASSUME NEW list \in Seq(Jobs), NEW n, IdsOK(list, n),
         NEW i \in 1 .. Len(list)
  PROVE  /\ IdsOK(remove_job(list, i), n)
         /\ TableOfList(remove_job(list, i), n) =
              [TableOfList(list, n) EXCEPT ![list[i].id] = "gone"]
<1> DEFINE r == remove_job(list, i)
           T == TableOfList(list, n)
           t == [T EXCEPT ![list[i].id] = "gone"]
<1>1. /\ r \in Seq(Jobs) /\ Len(r) = Len(list) - 1 /\ Len(list) \in Nat
      /\ \A k \in 1 .. Len(list) - 1 :
           r[k] = IF k < i THEN list[k] ELSE list[k + 1]
  BY RemoveJob, LenProperties
<1> HIDE DEF r
<1>2. n \in Nat /\ MaxCommands \in Nat /\ n <= MaxCommands
  BY BoundsAssumption DEF IdsOK, BoundsAssumption
(* Where a node of the shorter list was, and where a node of the list goes. *)
<1>3. \A k \in 1 .. Len(r) :
        \E m \in 1 .. Len(list) :
          m # i /\ r[k] = list[m] /\ m = IF k < i THEN k ELSE k + 1
  BY <1>1
<1>4. \A m \in 1 .. Len(list) : m # i => \E k \in 1 .. Len(r) : r[k] = list[m]
  <2> SUFFICES ASSUME NEW m \in 1 .. Len(list), m # i
               PROVE  \E k \in 1 .. Len(r) : r[k] = list[m]
    OBVIOUS
  <2>1. CASE m < i
    <3>1. m \in 1 .. Len(list) - 1 /\ r[m] = list[m]
      BY <1>1, <2>1
    <3> QED
      BY <1>1, <3>1
  <2>2. CASE ~ (m < i)
    <3>1. m - 1 \in 1 .. Len(list) - 1 /\ ~ (m - 1 < i) /\ m - 1 + 1 = m
      BY <1>1, <2>2
    <3>2. r[m - 1] = list[m]
      BY <1>1, <3>1
    <3> QED
      BY <1>1, <3>1, <3>2
  <2> QED
    BY <2>1, <2>2
<1>5. IdsOK(r, n)
  <2>1. \A k \in 1 .. Len(r) : r[k].id \in 1 .. n
    BY <1>3 DEF IdsOK
  <2>2. ASSUME NEW a \in 1 .. Len(r), NEW b \in 1 .. Len(r), r[a].id = r[b].id
        PROVE  a = b
    <3>1. PICK m \in 1 .. Len(list) :
            r[a] = list[m] /\ m = IF a < i THEN a ELSE a + 1
      BY <1>3
    <3>2. PICK q \in 1 .. Len(list) :
            r[b] = list[q] /\ q = IF b < i THEN b ELSE b + 1
      BY <1>3
    <3>3. m = q
      BY <2>2, <3>1, <3>2 DEF IdsOK
    <3> QED
      BY <1>1, <3>1, <3>2, <3>3
  <2> QED
    BY <2>1, <2>2 DEF IdsOK
<1>6. DOMAIN T = 1 .. MaxCommands /\ DOMAIN t = 1 .. MaxCommands
  <2>1. DOMAIN T = 1 .. MaxCommands
    BY DEF TableOfList
  <2> HIDE DEF T
  <2> QED
    BY <2>1
<1>7. ASSUME NEW id \in 1 .. MaxCommands
      PROVE  TableOfList(r, n)[id] = t[id]
  <2>1. CASE id = list[i].id
    <3>1. \A k \in 1 .. Len(r) : r[k].id # id
      BY <1>3, <2>1 DEF IdsOK
    <3>2. id <= n
      BY <1>2, <2>1 DEF IdsOK
    <3>3. TableOfList(r, n)[id] = "gone"
      BY <1>1, <1>5, <3>1, <3>2, TableValue
    <3> QED
      BY <1>6, <2>1, <3>3
  <2>2. CASE id # list[i].id
    <3>1. t[id] = T[id]
      BY <1>6, <2>2
    <3>2. CASE \E m \in 1 .. Len(list) : list[m].id = id
      <4> PICK m \in 1 .. Len(list) : list[m].id = id
        BY <3>2
      <4> PICK k \in 1 .. Len(r) : r[k] = list[m]
        BY <1>4, <2>2
      <4>1. TableOfList(r, n)[id] = r[k].status
        BY <1>1, <1>5, TableValue
      <4>2. T[id] = list[m].status
        BY TableValue
      <4> QED
        BY <3>1, <4>1, <4>2
    <3>3. CASE \A m \in 1 .. Len(list) : list[m].id # id
      <4>1. \A k \in 1 .. Len(r) : r[k].id # id
        BY <1>3, <3>3
      <4>2. TableOfList(r, n)[id] = IF id <= n THEN "gone" ELSE "none"
        BY <1>1, <1>5, <4>1, TableValue
      <4>3. T[id] = IF id <= n THEN "gone" ELSE "none"
        BY <3>3, TableValue
      <4> QED
        BY <3>1, <4>2, <4>3
    <3> QED
      BY <3>2, <3>3
  <2> QED
    BY <2>1, <2>2
<1>8. t \in [1 .. MaxCommands -> Entries]
  <2>1. T \in [1 .. MaxCommands -> Entries] /\ "gone" \in Entries
    BY TableType DEF Statuses, Done, Running, Suspended, Entries
  <2> HIDE DEF T
  <2> QED
    BY <2>1
<1>9. TableOfList(r, n) \in [1 .. MaxCommands -> Entries]
  BY <1>1, <1>5, TableType
<1> HIDE DEF t
<1>10. TableOfList(r, n) = t
  BY <1>7, <1>8, <1>9, SameTable DEF Agree
<1> QED
  BY <1>5, <1>10 DEF t, r

(* A line that is read enters its job under the line's own number.          *)
LEMMA NewEntry ==
  ASSUME IInv, IdsOK(jobs, ncmd), ncmd < MaxCommands,
         NEW s \in {Done, Running}
  PROVE  /\ NewJobList(s) \in Seq(Jobs)
         /\ Len(NewJobList(s)) = Len(jobs) + 1
         /\ \A k \in 1 .. Len(jobs) : NewJobList(s)[k] = jobs[k]
         /\ NewJobList(s)[Len(jobs) + 1].id = ncmd + 1
         /\ NewJobList(s)[Len(jobs) + 1].status = s
         /\ IdsOK(NewJobList(s), ncmd + 1)
         /\ TableOfList(jobs, ncmd)[ncmd + 1] = "none"
         /\ TableOfList(NewJobList(s), ncmd + 1) =
              [TableOfList(jobs, ncmd) EXCEPT ![ncmd + 1] = s]
<1> DEFINE n == Len(jobs) + 1
           a == add_job(jobs, ncmd + 1)
           r == NewJobList(s)
           T == TableOfList(jobs, ncmd)
           t == [T EXCEPT ![ncmd + 1] = s]
<1>1. /\ jobs \in Seq(Jobs) /\ Len(jobs) \in Nat /\ ncmd \in Nat
      /\ ncmd + 1 \in 1 .. MaxCommands /\ MaxCommands \in Nat
  BY BoundsAssumption, LenProperties DEF IInv, JobsOK, BoundsAssumption
<1>2. /\ a \in Seq(Jobs) /\ Len(a) = n
      /\ \A k \in 1 .. Len(jobs) : a[k] = jobs[k]
      /\ a[n] \in Jobs /\ a[n].id = ncmd + 1
  <2>1. /\ a \in Seq(Jobs) /\ Len(a) = Len(jobs) + 1
        /\ \A k \in 1 .. Len(jobs) : a[k] = jobs[k]
        /\ a[Len(jobs) + 1] =
             [id |-> ncmd + 1, idx |-> Len(jobs) + 1, pgid |-> 0,
              status |-> Suspended, modes |-> "unset"]
    BY <1>1, AddJob
  <2>2. a[n].id = ncmd + 1
    BY <2>1
  <2> HIDE DEF a
  <2> QED
    BY <1>1, <2>1, <2>2, ElementOfSeq
<1> HIDE DEF a
<1>3. s \in Statuses /\ n \in 1 .. Len(a)
  BY <1>1, <1>2 DEF Statuses
<1>4. /\ r \in Seq(Jobs) /\ Len(r) = n
      /\ \A k \in 1 .. Len(jobs) : r[k] = jobs[k]
      /\ r[n].id = ncmd + 1 /\ r[n].status = s
  <2>1. /\ SetStatus(a, n, s) \in Seq(Jobs)
        /\ Len(SetStatus(a, n, s)) = Len(a)
        /\ \A k \in 1 .. Len(a) :
             SetStatus(a, n, s)[k] =
               IF k = n THEN [a[k] EXCEPT !.status = s] ELSE a[k]
    BY <1>2, <1>3, SetStatusJob, Zenon
  <2>2. r = SetStatus(a, n, s)
    BY DEF NewJobList, a
  <2> HIDE DEF r
  <2>3. r[n] = [a[n] EXCEPT !.status = s]
    BY <1>3, <2>1, <2>2
  <2>4. ASSUME NEW k \in 1 .. Len(jobs) PROVE r[k] = jobs[k]
    <3>1. k \in 1 .. Len(a) /\ k # n
      BY <1>1, <1>2
    <3>2. r[k] = a[k]
      BY <2>1, <2>2, <3>1
    <3> QED
      BY <1>2, <3>2
  <2> QED
    BY <1>2, <2>1, <2>2, <2>3, <2>4 DEF Jobs
<1> HIDE DEF r
<1>5. IdsOK(r, ncmd + 1)
  <2>1. \A k \in 1 .. Len(jobs) : r[k].id \in 1 .. ncmd
    BY <1>4 DEF IdsOK
  <2>2. \A k \in 1 .. Len(r) : k \in 1 .. Len(jobs) \/ k = n
    BY <1>1, <1>4
  <2>3. \A k \in 1 .. Len(r) : r[k].id \in 1 .. ncmd + 1
    BY <1>1, <1>4, <2>1, <2>2
  <2>4. ASSUME NEW i \in 1 .. Len(r), NEW k \in 1 .. Len(r), r[i].id = r[k].id
        PROVE  i = k
    <3>1. CASE i \in 1 .. Len(jobs) /\ k \in 1 .. Len(jobs)
      BY <1>4, <2>4, <3>1 DEF IdsOK
    <3>2. CASE i = n /\ k = n
      BY <3>2
    <3>3. CASE i \in 1 .. Len(jobs) /\ k = n
      BY <1>1, <1>4, <2>1, <2>4, <3>3
    <3>4. CASE i = n /\ k \in 1 .. Len(jobs)
      BY <1>1, <1>4, <2>1, <2>4, <3>4
    <3> QED
      BY <2>2, <3>1, <3>2, <3>3, <3>4
  <2> QED
    BY <1>1, <2>3, <2>4 DEF IdsOK
<1>6. DOMAIN T = 1 .. MaxCommands /\ DOMAIN t = 1 .. MaxCommands
  <2>1. DOMAIN T = 1 .. MaxCommands
    BY DEF TableOfList
  <2> HIDE DEF T
  <2> QED
    BY <2>1
<1>7. T[ncmd + 1] = "none"
  <2>1. \A k \in 1 .. Len(jobs) : jobs[k].id # ncmd + 1
    BY <1>1 DEF IdsOK
  <2>2. ~ (ncmd + 1 <= ncmd)
    BY <1>1
  <2>3. T[ncmd + 1] = IF ncmd + 1 <= ncmd THEN "gone" ELSE "none"
    BY <1>1, <2>1, TableValue
  <2> QED
    BY <2>2, <2>3
<1>8. ASSUME NEW id \in 1 .. MaxCommands
      PROVE  TableOfList(r, ncmd + 1)[id] = t[id]
  <2>1. n \in 1 .. Len(r) /\ \A k \in 1 .. Len(jobs) : k \in 1 .. Len(r)
    BY <1>1, <1>4
  <2>2. CASE id = ncmd + 1
    <3>1. TableOfList(r, ncmd + 1)[id] = r[n].status
      BY <1>4, <1>5, <2>1, <2>2, TableValue
    <3> QED
      BY <1>4, <1>6, <2>2, <3>1
  <2>3. CASE id # ncmd + 1
    <3>1. t[id] = T[id]
      BY <1>6, <2>3
    <3>2. CASE \E k \in 1 .. Len(jobs) : jobs[k].id = id
      <4> PICK k \in 1 .. Len(jobs) : jobs[k].id = id
        BY <3>2
      <4>1. TableOfList(r, ncmd + 1)[id] = r[k].status
        BY <1>4, <1>5, <2>1, TableValue
      <4>2. T[id] = jobs[k].status
        BY <1>1, TableValue
      <4> QED
        BY <1>4, <3>1, <4>1, <4>2
    <3>3. CASE \A k \in 1 .. Len(jobs) : jobs[k].id # id
      <4>1. \A k \in 1 .. Len(r) : r[k].id # id
        BY <1>1, <1>4, <2>3, <3>3
      <4>2. TableOfList(r, ncmd + 1)[id] = IF id <= ncmd + 1 THEN "gone" ELSE "none"
        BY <1>4, <1>5, <4>1, TableValue
      <4>3. T[id] = IF id <= ncmd THEN "gone" ELSE "none"
        BY <1>1, <3>3, TableValue
      <4>4. id <= ncmd + 1 <=> id <= ncmd
        BY <1>1, <2>3
      <4> QED
        BY <3>1, <4>2, <4>3, <4>4
    <3> QED
      BY <3>2, <3>3
  <2> QED
    BY <2>2, <2>3
<1>9. t \in [1 .. MaxCommands -> Entries]
  <2>1. T \in [1 .. MaxCommands -> Entries] /\ s \in Entries
    BY <1>1, TableType DEF Statuses, Done, Running, Suspended, Entries
  <2> HIDE DEF T
  <2> QED
    BY <2>1
<1>10. TableOfList(r, ncmd + 1) \in [1 .. MaxCommands -> Entries]
  BY <1>4, <1>5, TableType
<1> HIDE DEF t
<1>11. TableOfList(r, ncmd + 1) = t
  BY <1>8, <1>9, <1>10, SameTable DEF Agree
<1> QED
  BY <1>4, <1>5, <1>7, <1>11 DEF t, r

------------------------------------------------------------------------------
(* The steps of the job table, told by the table and the debt of a state.   *)

Tab  == TableOfList(jobs, ncmd)
Owed == Cardinality(Unreaped(procs))

Next_or_stutter == Table!TNext \/ UNCHANGED Table!tvars

LEMMA TheTable ==
  /\ [id \in 1 .. MaxCommands |-> TableOf(id)] = Tab
  /\ DOMAIN Tab = 1 .. MaxCommands
BY DEF TableOf, Tab, TableOfList

LEMMA TheTableNext ==
  [id \in 1 .. MaxCommands |-> TableOf(id)]' = Tab'
BY DEF TableOf, Tab, TableOfList

LEMMA IsStutter ==
  ASSUME Tab' = Tab, Owed' = Owed
  PROVE  Next_or_stutter
<1> QED
  BY TheTable, TheTableNext DEF Next_or_stutter, Table!tvars, Owed

LEMMA IsSubmit ==
  ASSUME NEW id \in 1 .. MaxCommands, Tab[id] = "none", Owed' = Owed,
         \/ \E s \in {"Running", "Done"} : Tab' = [Tab EXCEPT ![id] = s]
         \/ \E other \in 1 .. MaxCommands :
              /\ Tab[other] \in {"Running", "Suspended", "Done"}
              /\ Tab' = [Tab EXCEPT ![id] = "Running", ![other] = "Running"]
  PROVE  Next_or_stutter
<1>1. Table!Submit(id)
  BY TheTable, TheTableNext DEF Table!Submit, Table!Set, Table!Listed, Owed
<1> QED
  BY <1>1 DEF Next_or_stutter, Table!TNext

LEMMA IsSpawn ==
  ASSUME Tab' = Tab, Owed' = Owed + 1
  PROVE  Next_or_stutter
<1> QED
  BY TheTable, TheTableNext DEF Next_or_stutter, Table!TNext, Table!Spawn, Owed

LEMMA IsSuspend ==
  ASSUME NEW id \in 1 .. MaxCommands, Tab[id] = "Running", Owed > 0,
         Tab' = [Tab EXCEPT ![id] = "Suspended"], Owed' = Owed
  PROVE  Next_or_stutter
<1>1. Table!Suspend(id)
  BY TheTable, TheTableNext DEF Table!Suspend, Table!Set, Owed
<1> QED
  BY <1>1 DEF Next_or_stutter, Table!TNext

LEMMA IsResume ==
  ASSUME NEW id \in 1 .. MaxCommands, Tab[id] = "Suspended",
         Tab' = [Tab EXCEPT ![id] = "Running"], Owed' = Owed
  PROVE  Next_or_stutter
<1>1. Table!Resume(id)
  BY TheTable, TheTableNext DEF Table!Resume, Table!Set, Owed
<1> QED
  BY <1>1 DEF Next_or_stutter, Table!TNext

LEMMA IsCollect ==
  ASSUME NEW id \in 1 .. MaxCommands, Owed > 0, Owed' = Owed - 1,
         \/ /\ Tab[id] \in {"Running", "Suspended"}
            /\ Tab' = [Tab EXCEPT ![id] = "Done"]
         \/ /\ Tab[id] = "Running"
            /\ Tab' = [Tab EXCEPT ![id] = "gone"]
  PROVE  Next_or_stutter
<1>1. Table!Collect(id)
  BY TheTable, TheTableNext DEF Table!Collect, Table!Set, Owed
<1> QED
  BY <1>1 DEF Next_or_stutter, Table!TNext

LEMMA IsGiveUp ==
  ASSUME NEW id \in 1 .. MaxCommands, Owed = 0, Owed' = Owed,
         Tab[id] \in {"Running", "Suspended"},
         Tab' = [Tab EXCEPT ![id] = "Done"]
  PROVE  Next_or_stutter
<1>1. Table!GiveUp(id)
  BY TheTable, TheTableNext DEF Table!GiveUp, Table!Set, Owed
<1> QED
  BY <1>1 DEF Next_or_stutter, Table!TNext

LEMMA IsDrop ==
  ASSUME NEW id \in 1 .. MaxCommands, Owed' = Owed,
         Tab[id] = "Done", Tab' = [Tab EXCEPT ![id] = "gone"]
  PROVE  Next_or_stutter
<1>1. Table!Drop(id)
  BY TheTable, TheTableNext DEF Table!Drop, Table!Set, Owed
<1> QED
  BY <1>1 DEF Next_or_stutter, Table!TNext

LEMMA IsClose ==
  ASSUME Owed' = Owed,
         Tab' = [id \in 1 .. MaxCommands |->
                   IF Tab[id] \in {"Running", "Suspended", "Done"}
                   THEN "gone" ELSE Tab[id]]
  PROVE  Next_or_stutter
<1>1. Table!Close
  BY TheTable, TheTableNext DEF Table!Close, Table!Listed, Owed
<1> QED
  BY <1>1 DEF Next_or_stutter, Table!TNext
------------------------------------------------------------------------------
(* Every step of the shell is one of these.                                 *)

LEMMA Known ==
  ASSUME IInv, TInv
  PROVE  /\ jobs \in Seq(Jobs) /\ Len(jobs) \in Nat /\ DOMAIN jobs = 1 .. Len(jobs)
         /\ procs \in Seq(Procs) /\ DOMAIN procs = 1 .. Len(procs)
         /\ ncmd \in Nat /\ MaxCommands \in Nat
         /\ \A k \in 1 .. Len(jobs) :
              /\ jobs[k] \in Jobs /\ jobs[k].id \in 1 .. MaxCommands
              /\ jobs[k].pgid \in Nat /\ jobs[k].pgid = 0
              /\ Tab[jobs[k].id] = jobs[k].status
         /\ IsFiniteSet(Unreaped(procs)) /\ Owed \in Nat
<1>1. /\ jobs \in Seq(Jobs) /\ Len(jobs) \in Nat /\ DOMAIN jobs = 1 .. Len(jobs)
      /\ procs \in Seq(Procs) /\ DOMAIN procs = 1 .. Len(procs)
      /\ ncmd \in Nat /\ MaxCommands \in Nat
  BY BoundsAssumption, LenProperties DEF IInv, JobsOK, ProcsOK, BoundsAssumption
<1>2. IsFiniteSet(Unreaped(procs)) /\ Owed \in Nat
  BY <1>1, ProcCount DEF Owed
<1>3. ASSUME NEW k \in 1 .. Len(jobs)
      PROVE  /\ jobs[k] \in Jobs /\ jobs[k].id \in 1 .. MaxCommands
             /\ jobs[k].pgid \in Nat /\ jobs[k].pgid = 0
             /\ Tab[jobs[k].id] = jobs[k].status
  <2>1. jobs[k] \in Jobs /\ jobs[k].id \in 1 .. MaxCommands
    BY <1>1, ElementOfSeq DEF TInv, IdsOK
  <2>2. Tab[jobs[k].id] = jobs[k].status
    <3>1. jobs \in Seq(Jobs) /\ IdsOK(jobs, ncmd)
      BY <1>1 DEF TInv
    <3> QED
      BY <2>1, <3>1, TableValue DEF Tab
  <2> QED
    BY <2>1, <2>2 DEF IInv, JobsOK
<1> QED
  BY <1>1, <1>2, <1>3

(* Setting the status of a job sets its entry.                              *)
LEMMA SetEntry ==
  ASSUME NEW list \in Seq(Jobs), NEW n, IdsOK(list, n),
         NEW i \in 1 .. Len(list), NEW s \in Statuses
  PROVE  /\ SetStatus(list, i, s) \in Seq(Jobs)
         /\ Len(SetStatus(list, i, s)) = Len(list)
         /\ SetStatus(list, i, s)[i].status = s
         /\ IdsOK(SetStatus(list, i, s), n)
         /\ TableOfList(SetStatus(list, i, s), n) =
              [TableOfList(list, n) EXCEPT ![list[i].id] = s]
<1> DEFINE r == SetStatus(list, i, s)
<1>1. /\ r \in Seq(Jobs) /\ Len(r) = Len(list)
      /\ \A k \in 1 .. Len(list) :
           r[k] = IF k = i THEN [list[k] EXCEPT !.status = s] ELSE list[k]
  BY SetStatusJob
<1> HIDE DEF r
<1>2. \A k \in 1 .. Len(list) : list[k] \in Jobs
  BY ElementOfSeq
<1>3. SameNodes(list, r, i, s)
  BY <1>1, <1>2 DEF Jobs, SameNodes
<1>4. IdsOK(r, n) /\ TableOfList(r, n) = [TableOfList(list, n) EXCEPT ![list[i].id] = s]
  BY <1>3, OneStatus
<1> QED
  BY <1>1, <1>3, <1>4 DEF r, SameNodes

LEMMA ReadTable == IInv /\ TInv /\ Read => TInv' /\ Next_or_stutter
<1> SUFFICES ASSUME IInv, TInv, Read PROVE TInv' /\ Next_or_stutter
  OBVIOUS
<1> DEFINE L(s) == NewJobList(s)
<1>1. /\ jobs \in Seq(Jobs) /\ Len(jobs) \in Nat /\ ncmd \in Nat
      /\ MaxCommands \in Nat /\ IdsOK(jobs, ncmd)
  BY Known DEF TInv
<1>2. ASSUME ncmd < MaxCommands, NEW s \in {Done, Running}
      PROVE  /\ L(s) \in Seq(Jobs) /\ Len(L(s)) = Len(jobs) + 1
             /\ \A k \in 1 .. Len(jobs) : L(s)[k] = jobs[k]
             /\ L(s)[Len(jobs) + 1].id = ncmd + 1
             /\ L(s)[Len(jobs) + 1].status = s
             /\ IdsOK(L(s), ncmd + 1)
             /\ ncmd + 1 \in 1 .. MaxCommands
             /\ Tab[ncmd + 1] = "none"
             /\ TableOfList(L(s), ncmd + 1) = [Tab EXCEPT ![ncmd + 1] = s]
  <2>1. IdsOK(jobs, ncmd) /\ ncmd + 1 \in 1 .. MaxCommands
    BY <1>1, <1>2
  <2>2. /\ L(s) \in Seq(Jobs) /\ Len(L(s)) = Len(jobs) + 1
        /\ \A k \in 1 .. Len(jobs) : L(s)[k] = jobs[k]
        /\ L(s)[Len(jobs) + 1].id = ncmd + 1
        /\ L(s)[Len(jobs) + 1].status = s
    BY <1>2, <2>1, NewEntry
  <2>3. /\ IdsOK(L(s), ncmd + 1)
        /\ Tab[ncmd + 1] = "none"
        /\ TableOfList(L(s), ncmd + 1) = [Tab EXCEPT ![ncmd + 1] = s]
    BY <1>2, <2>1, NewEntry DEF Tab
  <2> QED
    BY <2>1, <2>2, <2>3
<1> HIDE DEF L
(* A line that only adds its job.                                           *)
<1>3. ASSUME NEW s \in {Done, Running}, ReadLine(s), procs' = procs
      PROVE  IdsOK(jobs', ncmd') /\ Next_or_stutter
  <2>1. /\ jobs' = L(s) /\ ncmd' = ncmd + 1 /\ ncmd < MaxCommands
        /\ Owed' = Owed
    BY <1>3 DEF ReadLine, L, Owed
  <2>2. Tab' = [Tab EXCEPT ![ncmd + 1] = s]
    BY <1>2, <2>1 DEF Tab
  <2>3. s \in {"Done", "Running"}
    BY DEF Done, Running
  <2> QED
    BY <1>2, <2>1, <2>2, <2>3, IsSubmit
<1>4. Running \in {Done, Running} /\ Done \in {Done, Running}
  OBVIOUS
<1>5. ASSUME NEW n \in 1 .. MaxStages, NEW b \in BOOLEAN, ReadRun(n, b)
      PROVE  TInv' /\ Next_or_stutter
  <2>1. /\ ReadLine(Running) /\ procs' = procs /\ pc' = "launch"
        /\ at' = Len(jobs')
    BY <1>5 DEF ReadRun
  <2>2. jobs' = L(Running) /\ ncmd < MaxCommands
    BY <2>1 DEF ReadLine, L
  <2>3. jobs'[at'].status = Running
    BY <1>2, <1>4, <2>1, <2>2
  <2> QED
    BY <1>3, <1>4, <2>1, <2>3 DEF TInv, PointedOK
<1>6. ASSUME NEW k \in 0 .. MaxCommands, ReadFg(k)
      PROVE  TInv' /\ Next_or_stutter
  <2>1. ReadLine(Running) /\ procs' = procs
    BY <1>6 DEF ReadFg
  <2>2. /\ pc' \in {"crashed", "prompt", "poll"}
        /\ pc' = "poll" => jobs'[at'].status # Done
    BY <1>6 DEF ReadFg
  <2> QED
    BY <1>3, <1>4, <2>1, <2>2 DEF TInv, PointedOK
<1>7. ASSUME NEW k \in 1 .. MaxCommands, run_job_in_background(k)
      PROVE  TInv' /\ Next_or_stutter
  <2> DEFINE list == L(Running)
             found == find_job_by_index(list, k)
  <2>1. /\ ncmd < MaxCommands /\ ncmd' = ncmd + 1 /\ pc = "prompt" /\ pc' = pc
        /\ found # 0
        /\ jobs' = SetStatus(list, found, Running)
        /\ \/ procs' = Continued(procs, list[found].pgid)
           \/ procs' = procs
    BY <1>7 DEF run_job_in_background, L
  <2>2. found \in 1 .. Len(jobs) + 1
    BY <1>2, <1>4, <2>1 DEF find_job_by_index
  <2> HIDE DEF found
  <2>3. Owed' = Owed
    BY <1>1, <2>1, Known, ContinuedSets DEF Owed
  <2>4. Running \in Statuses /\ Running = "Running"
    BY DEF Statuses, Running
  <2>5. /\ IdsOK(jobs', ncmd')
        /\ Tab' = [TableOfList(list, ncmd + 1) EXCEPT ![list[found].id] = Running]
    <3>1. /\ list \in Seq(Jobs) /\ IdsOK(list, ncmd + 1)
          /\ found \in 1 .. Len(list)
      BY <1>2, <1>4, <2>1, <2>2
    <3> HIDE DEF list
    <3>2. /\ IdsOK(SetStatus(list, found, Running), ncmd + 1)
          /\ TableOfList(SetStatus(list, found, Running), ncmd + 1) =
               [TableOfList(list, ncmd + 1) EXCEPT ![list[found].id] = Running]
      BY <2>4, <3>1, SetEntry
    <3> QED
      BY <2>1, <3>2 DEF Tab
  <2>6. Tab' = [Tab EXCEPT ![ncmd + 1] = Running, ![list[found].id] = Running]
    BY <1>2, <1>4, <2>1, <2>5
  <2>7. TInv'
    BY <2>1, <2>5 DEF TInv, PointedOK
  <2>8. CASE found = Len(jobs) + 1
    <3>1. Tab' = [Tab EXCEPT ![ncmd + 1] = "Running"]
      <4>1. list[found].id = ncmd + 1
        BY <1>2, <1>4, <2>1, <2>8
      <4> QED
        BY <2>4, <2>6, <4>1
    <3> QED
      BY <1>2, <1>4, <2>1, <2>3, <2>7, <3>1, IsSubmit
  <2>9. CASE found \in 1 .. Len(jobs)
    <3>1. list[found] = jobs[found]
      BY <1>2, <1>4, <2>1, <2>9
    <3>2. /\ jobs[found].id \in 1 .. MaxCommands
          /\ Tab[jobs[found].id] \in {"Running", "Suspended", "Done"}
      BY <2>9, Known DEF Jobs, Statuses, Done, Running, Suspended
    <3>3. Tab' = [Tab EXCEPT ![ncmd + 1] = "Running", ![jobs[found].id] = "Running"]
      BY <2>4, <2>6, <3>1
    <3> QED
      BY <1>2, <1>4, <2>1, <2>3, <2>7, <3>2, <3>3, IsSubmit
  <2> QED
    BY <1>1, <2>2, <2>8, <2>9
<1>8. ReadCrash => TInv' /\ Next_or_stutter
  BY <1>3, <1>4 DEF ReadCrash, TInv, PointedOK
<1>9. ReadJobs => TInv' /\ Next_or_stutter
  BY <1>3, <1>4 DEF ReadJobs, TInv, PointedOK
<1>10. ReadEmpty => TInv' /\ Next_or_stutter
  <2> SUFFICES ASSUME ReadEmpty PROVE TInv' /\ Next_or_stutter
    OBVIOUS
  <2>1. ReadLine(Running) /\ procs' = procs /\ pc' = "prompt"
    BY DEF ReadEmpty, ReadLine
  <2> QED
    BY <1>3, <1>4, <2>1 DEF TInv, PointedOK
<1>11. Quit => TInv' /\ Next_or_stutter
  <2> SUFFICES ASSUME Quit PROVE TInv' /\ Next_or_stutter
    OBVIOUS
  <2>1. jobs' = <<>> /\ ncmd' = ncmd /\ pc' = "exited" /\ Owed' = Owed
    BY DEF Quit, Owed
  <2>2. <<>> \in Seq(Jobs) /\ Len(<<>>) = 0
    BY EmptySeq
  <2>3. IdsOK(<<>>, ncmd)
    BY <1>1, <2>2 DEF IdsOK
  <2>4. TInv'
    BY <2>1, <2>3 DEF TInv, PointedOK
  <2> DEFINE t == [id \in 1 .. MaxCommands |->
                     IF Tab[id] \in {"Running", "Suspended", "Done"}
                     THEN "gone" ELSE Tab[id]]
  <2>5. ASSUME NEW id \in 1 .. MaxCommands
        PROVE  TableOfList(<<>>, ncmd)[id] = t[id]
    <3>1. TableOfList(<<>>, ncmd)[id] = IF id <= ncmd THEN "gone" ELSE "none"
      <4>1. \A k \in 1 .. Len(<<>>) : <<>>[k].id # id
        BY <2>2
      <4> QED
        BY <2>2, <2>3, <4>1, TableValue
    <3>2. CASE \E k \in 1 .. Len(jobs) : jobs[k].id = id
      <4> PICK k \in 1 .. Len(jobs) : jobs[k].id = id
        BY <3>2
      <4>1. /\ Tab[id] \in {"Running", "Suspended", "Done"}
            /\ id <= ncmd
        BY <1>1, Known DEF Jobs, Statuses, Done, Running, Suspended, IdsOK
      <4> QED
        BY <3>1, <4>1
    <3>3. CASE \A k \in 1 .. Len(jobs) : jobs[k].id # id
      <4>1. Tab[id] = IF id <= ncmd THEN "gone" ELSE "none"
        BY <1>1, <3>3, TableValue DEF Tab
      <4> QED
        BY <3>1, <4>1
    <3> QED
      BY <3>2, <3>3
  <2>6. t \in [1 .. MaxCommands -> Entries]
    <3>1. Tab \in [1 .. MaxCommands -> Entries]
      BY <1>1, TableType DEF Tab
    <3> QED
      BY <3>1 DEF Entries
  <2>7. TableOfList(<<>>, ncmd) \in [1 .. MaxCommands -> Entries]
    BY <2>2, <2>3, TableType
  <2> HIDE DEF t
  <2>8. TableOfList(<<>>, ncmd) = t
    BY <2>5, <2>6, <2>7, SameTable DEF Agree
  <2>9. Tab' = t
    BY <2>1, <2>8 DEF Tab
  <2> QED
    BY <2>1, <2>4, <2>9, IsClose DEF t
<1> QED
  BY <1>5, <1>6, <1>7, <1>8, <1>9, <1>10, <1>11 DEF Read
LEMMA LaunchTable == IInv /\ TInv /\ executeHelper => TInv' /\ Next_or_stutter
<1> SUFFICES ASSUME IInv, TInv, executeHelper PROVE TInv' /\ Next_or_stutter
  OBVIOUS
<1>1. /\ pc = "launch" /\ left \in Nat \ {0} /\ at \in 1 .. Len(jobs)
      /\ jobs[at].status = Running
  BY DEF executeHelper, IInv, PointerOK, TInv, PointedOK
<1>2. jobs' = jobs /\ ncmd' = ncmd
  <2>1. jobs[at] \in Jobs /\ jobs[at].pgid = 0
    BY <1>1, Known
  <2>2. [jobs[at] EXCEPT !.pgid = 0] = jobs[at]
    BY <2>1 DEF Jobs
  <2>3. [jobs EXCEPT ![at].pgid = 0] = [jobs EXCEPT ![at] = jobs[at]]
    BY <2>2
  <2>4. [jobs EXCEPT ![at] = jobs[at]] = jobs
    BY <1>1, Known
  <2> QED
    BY <2>3, <2>4 DEF executeHelper
<1>3. Tab' = Tab
  BY <1>2 DEF Tab
<1>4. \/ pc' = "launch" /\ at' = at
      \/ pc' = "poll" /\ at' = at
      \/ pc' = "prompt"
  BY <1>1, Zenon DEF executeHelper
<1>5. TInv'
  BY <1>1, <1>2, <1>4 DEF TInv, PointedOK, Running, Done
<1>6. CASE procs' = procs
  BY <1>3, <1>5, <1>6, IsStutter DEF Owed
<1>7. CASE Len(procs) < MaxForks /\ procs' = Forked(procs, jobs[at].id, left)
  <2> DEFINE n == Len(procs) + 1
  <2>1. /\ procs \in Seq(Procs) /\ Len(procs) \in Nat
        /\ DOMAIN procs = 1 .. Len(procs)
    BY Known, LenProperties
  <2>2. /\ procs' \in Seq(Procs) /\ Len(procs') = n
        /\ \A k \in 1 .. Len(procs) : procs'[k] = procs[k]
        /\ procs'[n].state = "running"
    <3>1. jobs[at].id \in Nat
      BY <1>1, Known
    <3>2. /\ procs' \in Seq(Procs) /\ Len(procs') = n
          /\ \A k \in 1 .. Len(procs) : procs'[k] = procs[k]
          /\ procs'[n] = [state |-> "running", job |-> jobs[at].id,
                          after |-> left - 1, grp |-> ShellPid]
      BY <1>1, <1>7, <2>1, <3>1, BoundsAssumption, ForkedChild
    <3> QED
      BY <3>2
  <2>3. DOMAIN procs' = 1 .. n
    BY <2>2, LenProperties
  <2>4. Unreaped(procs') = Unreaped(procs) \cup {n} /\ n \notin Unreaped(procs)
    BY <2>1, <2>2, <2>3 DEF Unreaped
  <2> HIDE DEF n
  <2>5. Owed' = Owed + 1
    BY <2>4, Known, FS_AddElement DEF Owed
  <2> QED
    BY <1>3, <1>5, <2>5, IsSpawn
<1> QED
  BY <1>6, <1>7 DEF executeHelper

(* What the job under a pointer becomes when its status is set.             *)
LEMMA StatusStep ==
  ASSUME IInv, TInv, ncmd' = ncmd, NEW i \in 1 .. Len(jobs), NEW s \in Statuses,
         SameNodes(jobs, jobs', i, s)
  PROVE  /\ IdsOK(jobs', ncmd')
         /\ jobs'[i].status = s
         /\ jobs[i].id \in 1 .. MaxCommands
         /\ Tab[jobs[i].id] = jobs[i].status
         /\ Tab' = [Tab EXCEPT ![jobs[i].id] = s]
<1>1. jobs \in Seq(Jobs) /\ IdsOK(jobs, ncmd)
  BY Known DEF TInv
<1>2. /\ IdsOK(jobs', ncmd)
      /\ TableOfList(jobs', ncmd) = [TableOfList(jobs, ncmd) EXCEPT ![jobs[i].id] = s]
  BY <1>1, OneStatus
<1>3. jobs[i].id \in 1 .. MaxCommands /\ Tab[jobs[i].id] = jobs[i].status
  BY Known
<1> QED
  BY <1>2, <1>3 DEF SameNodes, Tab

LEMMA SetStatusNodes ==
  ASSUME IInv, TInv, NEW i \in 1 .. Len(jobs), NEW s \in Statuses,
         jobs' = SetStatus(jobs, i, s)
  PROVE  SameNodes(jobs, jobs', i, s)
<1> DEFINE r == SetStatus(jobs, i, s)
<1>1. jobs \in Seq(Jobs) /\ \A k \in 1 .. Len(jobs) : jobs[k] \in Jobs
  BY Known
<1>2. /\ r \in Seq(Jobs) /\ Len(r) = Len(jobs)
      /\ \A k \in 1 .. Len(jobs) :
           r[k] = IF k = i THEN [jobs[k] EXCEPT !.status = s] ELSE jobs[k]
  BY <1>1, SetStatusJob
<1> HIDE DEF r
<1>3. SameNodes(jobs, r, i, s)
  BY <1>1, <1>2 DEF Jobs, SameNodes
<1> QED
  BY <1>3 DEF r

LEMMA ForegroundTable == IInv /\ TInv /\ Foreground => TInv' /\ Next_or_stutter
<1> SUFFICES ASSUME IInv, TInv, Foreground PROVE TInv' /\ Next_or_stutter
  OBVIOUS
<1>1. /\ pc \in {"poll", "resume", "wait"} /\ at \in 1 .. Len(jobs)
      /\ pc = "wait" => jobs[at].status = Running
      /\ pc \in {"poll", "resume"} => jobs[at].status \in {Running, Suspended}
      /\ jobs[at] \in Jobs /\ jobs[at].pgid = 0 /\ jobs[at].pgid \in Nat
      /\ DOMAIN procs = 1 .. Len(procs)
  <2>1. pc \in {"poll", "resume", "wait"}
    BY DEF Foreground, FgPollNoChild, FgPollReap, FgPollNone, FgResume,
           FgWaitEnd, FgWaitStop
  <2>2. at \in 1 .. Len(jobs)
    BY <2>1 DEF IInv, PointerOK
  <2>3. jobs[at] \in Jobs /\ jobs[at].pgid = 0 /\ jobs[at].pgid \in Nat
        /\ DOMAIN procs = 1 .. Len(procs)
    BY <2>2, Known
  <2> QED
    BY <2>1, <2>2, <2>3 DEF TInv, PointedOK, Jobs, Statuses
<1>2. Awaited(-jobs[at].pgid) = Unreaped(procs)
  BY <1>1, AwaitsAnyChild DEF IInv
<1>3. {Done, Running, Suspended} \subseteq Statuses
  BY DEF Statuses
(* A child is collected for the job, which is Done.                         *)
<1>4. ASSUME NEW p \in Unreaped(procs), procs' = [procs EXCEPT ![p].state = "reaped"],
             SameNodes(jobs, jobs', at, Done), ncmd' = ncmd,
             pc' \in {"prompt", "update"}
      PROVE  TInv' /\ Next_or_stutter
  <2>1. Owed' = Owed - 1 /\ Owed > 0
    <3>1. Owed' = Owed - 1
      BY <1>4, Known, CollectCounts DEF Owed
    <3>2. Owed # 0
      BY Known, FS_EmptySet DEF Owed
    <3> QED
      BY <3>1, <3>2, Known
  <2>2. /\ IdsOK(jobs', ncmd') /\ jobs[at].id \in 1 .. MaxCommands
        /\ Tab[jobs[at].id] = jobs[at].status
        /\ Tab' = [Tab EXCEPT ![jobs[at].id] = Done]
    BY <1>1, <1>3, <1>4, StatusStep
  <2>3. TInv'
    BY <1>4, <2>2 DEF TInv, PointedOK
  <2>4. Tab[jobs[at].id] \in {"Running", "Suspended"}
    BY <1>1, <2>2 DEF Running, Suspended
  <2>5. Tab' = [Tab EXCEPT ![jobs[at].id] = "Done"]
    BY <2>2 DEF Done
  <2> QED
    BY <2>1, <2>2, <2>3, <2>4, <2>5, IsCollect
<1>5. CASE FgPollNoChild
  <2>1. /\ Unreaped(procs) = {} /\ Owed' = Owed /\ pc' = "prompt" /\ ncmd' = ncmd
        /\ jobs' = SetStatus(jobs, at, Done)
    BY <1>2, <1>5 DEF FgPollNoChild, Owed
  <2>2. Owed = 0
    BY <2>1, FS_EmptySet DEF Owed
  <2>3. SameNodes(jobs, jobs', at, Done)
    BY <1>1, <1>3, <2>1, SetStatusNodes
  <2>4. /\ IdsOK(jobs', ncmd') /\ jobs[at].id \in 1 .. MaxCommands
        /\ Tab[jobs[at].id] = jobs[at].status
        /\ Tab' = [Tab EXCEPT ![jobs[at].id] = Done]
    BY <1>1, <1>3, <2>1, <2>3, StatusStep
  <2>5. TInv'
    BY <2>1, <2>4 DEF TInv, PointedOK
  <2>6. Tab[jobs[at].id] \in {"Running", "Suspended"}
    BY <1>1, <1>5, <2>4 DEF FgPollNoChild, Running, Suspended
  <2>7. Tab' = [Tab EXCEPT ![jobs[at].id] = "Done"]
    BY <2>4 DEF Done
  <2> QED
    BY <2>1, <2>2, <2>4, <2>5, <2>6, <2>7, IsGiveUp
<1>6. CASE \E p \in DOMAIN procs : FgPollReap(p)
  <2> PICK p \in Unreaped(procs) : FgPollReap(p)
    BY <1>2, <1>6 DEF FgPollReap, Zombies
  <2>1. /\ procs' = [procs EXCEPT ![p].state = "reaped"]
        /\ jobs' = SetStatus(jobs, at, Done) /\ ncmd' = ncmd /\ pc' = "prompt"
    BY DEF FgPollReap, Reap
  <2>2. SameNodes(jobs, jobs', at, Done)
    BY <1>1, <1>3, <2>1, SetStatusNodes
  <2> QED
    BY <1>4, <2>1, <2>2
<1>7. CASE FgPollNone
  <2>1. /\ jobs' = jobs /\ procs' = procs /\ ncmd' = ncmd /\ at' = at
        /\ pc = "poll" /\ pc' = "resume"
    BY <1>7 DEF FgPollNone
  <2>2. TInv'
    BY <2>1 DEF TInv, PointedOK
  <2> QED
    BY <2>1, <2>2, IsStutter DEF Tab, Owed
<1>8. CASE FgResume
  <2>1. pc = "resume" /\ pc' = "wait" /\ at' = at /\ ncmd' = ncmd
    BY <1>8 DEF FgResume
  <2>2. CASE jobs[at].status = Suspended
    <3>1. /\ jobs' = SetStatus(jobs, at, Running)
          /\ procs' = Continued(procs, jobs[at].pgid)
      BY <1>8, <2>2 DEF FgResume
    <3>2. Owed' = Owed
      BY <3>1, Known, ContinuedSets DEF Owed
    <3>3. SameNodes(jobs, jobs', at, Running)
      BY <1>1, <1>3, <3>1, SetStatusNodes
    <3>4. /\ IdsOK(jobs', ncmd') /\ jobs[at].id \in 1 .. MaxCommands
          /\ jobs'[at].status = Running
          /\ Tab[jobs[at].id] = jobs[at].status
          /\ Tab' = [Tab EXCEPT ![jobs[at].id] = Running]
      BY <1>1, <1>3, <2>1, <3>3, StatusStep
    <3>5. TInv'
      BY <2>1, <3>4 DEF TInv, PointedOK
    <3>6. Tab[jobs[at].id] = "Suspended" /\ Tab' = [Tab EXCEPT ![jobs[at].id] = "Running"]
      BY <2>2, <3>4 DEF Suspended, Running
    <3> QED
      BY <3>2, <3>4, <3>5, <3>6, IsResume
  <2>3. CASE jobs[at].status # Suspended
    <3>1. jobs' = jobs /\ procs' = procs
      BY <1>8, <2>3 DEF FgResume
    <3>2. jobs[at].status = Running
      BY <1>1, <2>1, <2>3
    <3>3. TInv'
      BY <2>1, <3>1, <3>2 DEF TInv, PointedOK
    <3> QED
      BY <2>1, <3>1, <3>3, IsStutter DEF Tab, Owed
  <2> QED
    BY <2>2, <2>3
<1>9. ASSUME NEW p \in Unreaped(procs), NEW st, NEW s \in {Done, Suspended},
             FgReturn(p, st, s)
      PROVE  /\ SameNodes(jobs, jobs', at, s)
             /\ procs' = [procs EXCEPT ![p].state = st]
             /\ pc' = "update" /\ ncmd' = ncmd
  <2> DEFINE new == [jobs[at] EXCEPT !.status = s, !.modes = "saved"]
  <2>1. new \in Jobs /\ new.status = s /\ new.id = jobs[at].id
    BY <1>1, <1>3 DEF Jobs
  <2>2. jobs \in Seq(Jobs)
    BY Known
  <2>3. jobs' = [jobs EXCEPT ![at] = new]
    BY <1>1, <1>9 DEF FgReturn
  <2> HIDE DEF new
  <2>4. /\ jobs' \in Seq(Jobs) /\ Len(jobs') = Len(jobs)
        /\ \A k \in 1 .. Len(jobs) :
             jobs'[k] = IF k = at THEN new ELSE jobs[k]
    BY <1>1, <2>1, <2>2, <2>3, ExceptSeq
  <2>5. SameNodes(jobs, jobs', at, s)
    BY <2>1, <2>4 DEF SameNodes
  <2> QED
    BY <1>9, <2>5 DEF FgReturn
<1>10. CASE \E p \in DOMAIN procs : FgWaitEnd(p)
  <2> PICK p \in Unreaped(procs) : FgReturn(p, "reaped", Done)
    BY <1>2, <1>10 DEF FgWaitEnd, Zombies
  <2> QED
    BY <1>4, <1>9
<1>11. CASE \E p \in DOMAIN procs : FgWaitStop(p)
  <2> PICK p \in Unreaped(procs) :
        FgReturn(p, "stopped", Suspended) /\ pc = "wait"
    BY <1>2, <1>11 DEF FgWaitStop
  <2>1. /\ SameNodes(jobs, jobs', at, Suspended)
        /\ procs' = [procs EXCEPT ![p].state = "stopped"]
        /\ pc' = "update" /\ ncmd' = ncmd
    BY <1>9
  <2>2. /\ IdsOK(jobs', ncmd') /\ jobs[at].id \in 1 .. MaxCommands
        /\ Tab[jobs[at].id] = jobs[at].status
        /\ Tab' = [Tab EXCEPT ![jobs[at].id] = Suspended]
    BY <1>1, <1>3, <2>1, StatusStep
  <2>3. Owed' = Owed /\ Owed > 0
    <3>1. procs \in Seq(Procs) /\ p \in 1 .. Len(procs) /\ "stopped" \in ProcStates
      BY <1>1, Known DEF Unreaped, ProcStates
    <3>2. Unreaped(procs') = Unreaped(procs) \cup {p}
      BY <2>1, <3>1, ChildSets
    <3>3. Owed # 0
      BY Known, FS_EmptySet DEF Owed
    <3>4. Unreaped(procs') = Unreaped(procs)
      BY <3>2
    <3> QED
      BY <3>3, <3>4, Known DEF Owed
  <2>4. TInv'
    BY <2>1, <2>2 DEF TInv, PointedOK
  <2>5. Tab[jobs[at].id] = "Running" /\ Tab' = [Tab EXCEPT ![jobs[at].id] = "Suspended"]
    BY <1>1, <2>2 DEF Running, Suspended
  <2> QED
    BY <2>2, <2>3, <2>4, <2>5, IsSuspend
<1> QED
  BY <1>5, <1>6, <1>7, <1>8, <1>10, <1>11 DEF Foreground
LEMMA UpdateTable == IInv /\ TInv /\ Update => TInv' /\ Next_or_stutter
<1> SUFFICES ASSUME IInv, TInv, Update PROVE TInv' /\ Next_or_stutter
  OBVIOUS
<1>1. /\ pc' \in {"update", "refresh", "print", "prompt"}
      /\ ncmd' = ncmd
      /\ jobs \in Seq(Jobs) /\ DOMAIN jobs = 1 .. Len(jobs)
      /\ IdsOK(jobs, ncmd)
  <2>1. /\ pc' \in {"update", "refresh", "print", "prompt"}
        /\ ncmd' = ncmd
    BY DEF Update, UpdateReap, UpdateSkip, UpdateEnd, print_jobs, Updating
  <2> QED
    BY <2>1, Known DEF TInv
<1>2. PointedOK'
  BY <1>1 DEF PointedOK
(* A job leaves the list.                                                   *)
<1>3. ASSUME NEW i \in 1 .. Len(jobs), jobs' = remove_job(jobs, i)
      PROVE  /\ TInv' /\ jobs[i].id \in 1 .. MaxCommands
             /\ Tab[jobs[i].id] = jobs[i].status
             /\ Tab' = [Tab EXCEPT ![jobs[i].id] = "gone"]
  <2>1. /\ IdsOK(remove_job(jobs, i), ncmd)
        /\ TableOfList(remove_job(jobs, i), ncmd) =
             [TableOfList(jobs, ncmd) EXCEPT ![jobs[i].id] = "gone"]
    BY <1>1, RemovedEntry
  <2>2. jobs[i].id \in 1 .. MaxCommands /\ Tab[jobs[i].id] = jobs[i].status
    BY Known
  <2> QED
    BY <1>1, <1>2, <1>3, <2>1, <2>2 DEF TInv, Tab
<1>4. CASE \E p \in DOMAIN procs : UpdateReap(p)
  <2> PICK p \in DOMAIN procs : UpdateReap(p)
    BY <1>4
  <2>1. /\ p \in Unreaped(procs) /\ at \in 1 .. Len(jobs)
        /\ jobs[at].status = Running
        /\ procs' = [procs EXCEPT ![p].state = "reaped"]
    BY <1>1 DEF UpdateReap, Updating, Zombies, Awaited, Reap
  <2>2. Owed' = Owed - 1 /\ Owed > 0
    <3>1. Owed' = Owed - 1
      BY <2>1, Known, CollectCounts DEF Owed
    <3>2. Owed # 0
      BY <2>1, Known, FS_EmptySet DEF Owed
    <3> QED
      BY <3>1, <3>2, Known
  <2>3. CASE jobs' = remove_job(jobs, at)
    <3>1. Tab[jobs[at].id] = "Running"
      BY <1>3, <2>1, <2>3 DEF Running
    <3> QED
      BY <1>3, <2>1, <2>2, <2>3, <3>1, IsCollect
  <2>4. CASE jobs' = SetStatus(jobs, at, Done)
    <3>1. Done \in Statuses
      BY DEF Statuses
    <3>2. SameNodes(jobs, jobs', at, Done)
      BY <2>1, <2>4, <3>1, SetStatusNodes
    <3>3. /\ IdsOK(jobs', ncmd') /\ jobs[at].id \in 1 .. MaxCommands
          /\ Tab[jobs[at].id] = jobs[at].status
          /\ Tab' = [Tab EXCEPT ![jobs[at].id] = Done]
      BY <1>1, <2>1, <3>1, <3>2, StatusStep
    <3>4. Tab[jobs[at].id] = "Running" /\ Tab' = [Tab EXCEPT ![jobs[at].id] = "Done"]
      BY <2>1, <3>3 DEF Running, Done
    <3>5. TInv'
      BY <1>2, <3>3 DEF TInv
    <3> QED
      BY <2>2, <3>3, <3>4, <3>5, IsCollect
  <2> QED
    BY <2>3, <2>4 DEF UpdateReap
<1>5. ASSUME jobs' = jobs, procs' = procs
      PROVE  TInv' /\ Next_or_stutter
  BY <1>1, <1>2, <1>5, IsStutter DEF TInv, Tab, Owed
<1>6. CASE UpdateSkip \/ UpdateEnd
  BY <1>5, <1>6 DEF UpdateSkip, UpdateEnd
<1>7. CASE print_jobs
  <2>1. procs' = procs /\ Owed' = Owed
    BY <1>7 DEF print_jobs, Owed
  <2>2. \/ jobs' = jobs
        \/ /\ at \in 1 .. Len(jobs) /\ jobs[at].status = Done
           /\ jobs' = remove_job(jobs, at)
    BY <1>1, <1>7 DEF print_jobs
  <2>3. CASE at \in 1 .. Len(jobs) /\ jobs[at].status = Done
             /\ jobs' = remove_job(jobs, at)
    <3>1. /\ TInv' /\ jobs[at].id \in 1 .. MaxCommands
          /\ Tab[jobs[at].id] = "Done"
          /\ Tab' = [Tab EXCEPT ![jobs[at].id] = "gone"]
      BY <1>3, <2>3 DEF Done
    <3> QED
      BY <2>1, <3>1, IsDrop
  <2> QED
    BY <1>5, <2>1, <2>2, <2>3
<1> QED
  BY <1>4, <1>6, <1>7 DEF Update

LEMMA ChildTable ==
  IInv /\ TInv /\ (\E p \in DOMAIN procs : Child(p)) => TInv' /\ Next_or_stutter
<1> SUFFICES ASSUME IInv, TInv, NEW p \in DOMAIN procs, Child(p)
             PROVE  TInv' /\ Next_or_stutter
  OBVIOUS
<1>1. PICK st \in {"zombie", "stopping"} : procs' = [procs EXCEPT ![p].state = st]
  BY DEF Child, Finish, Stop, Killed, Move
<1>2. UNCHANGED <<pc, jobs, at, ncmd>> /\ p \in Unreaped(procs)
  BY DEF Child, Finish, Stop, Killed, Move, Unreaped
<1>3. Owed' = Owed
  <2>1. /\ procs \in Seq(Procs) /\ p \in 1 .. Len(procs)
        /\ st \in ProcStates /\ st # "reaped"
    BY Known DEF ProcStates
  <2>2. Unreaped(procs') = Unreaped(procs) \cup {p}
    BY <1>1, <2>1, ChildSets
  <2>3. Unreaped(procs') = Unreaped(procs)
    BY <1>2, <2>2
  <2> QED
    BY <2>3 DEF Owed
<1> QED
  BY <1>2, <1>3, IsStutter DEF TInv, PointedOK, Tab

LEMMA NextTable == IInv /\ TInv /\ [Next]_vars => TInv' /\ Next_or_stutter
<1>1. TInv /\ UNCHANGED vars => TInv' /\ Next_or_stutter
  BY IsStutter DEF TInv, PointedOK, vars, Tab, Owed
<1> QED
  BY <1>1, ReadTable, LaunchTable, ForegroundTable, UpdateTable, ChildTable
     DEF Next, Shell

(* An empty list is the empty table.                                        *)
LEMMA InitTable == Init => TInv /\ Table!TInit
<1> SUFFICES ASSUME Init PROVE TInv /\ Table!TInit
  OBVIOUS
<1>1. jobs = <<>> /\ procs = <<>> /\ ncmd = 0 /\ pc = "prompt"
  BY DEF Init
<1>2. <<>> \in Seq(Jobs) /\ Len(<<>>) = 0 /\ DOMAIN <<>> = {}
  BY EmptySeq
<1>3. IdsOK(<<>>, 0)
  BY <1>2, BoundsAssumption DEF IdsOK, BoundsAssumption
<1>4. TInv
  BY <1>1, <1>3 DEF TInv, PointedOK
<1>5. \A id \in 1 .. MaxCommands : TableOfList(<<>>, 0)[id] = "none"
  <2> SUFFICES ASSUME NEW id \in 1 .. MaxCommands
               PROVE  TableOfList(<<>>, 0)[id] = "none"
    OBVIOUS
  <2>1. \A k \in 1 .. Len(<<>>) : <<>>[k].id # id
    BY <1>2
  <2>2. PICK n \in Nat : n = 0
    OBVIOUS
  <2>3. IdsOK(<<>>, n)
    BY <1>3, <2>2
  <2>4. TableOfList(<<>>, n)[id] = IF id <= n THEN "gone" ELSE "none"
    BY <1>2, <2>1, <2>3, TableValue, ZenonT(40)
  <2> QED
    BY <2>2, <2>4
<1>6. Tab = [id \in 1 .. MaxCommands |-> "none"]
  <2> DEFINE t == [id \in 1 .. MaxCommands |-> "none"]
  <2>1. t \in [1 .. MaxCommands -> Entries]
    BY DEF Entries
  <2>2. TableOfList(<<>>, 0) \in [1 .. MaxCommands -> Entries]
    BY <1>2, <1>3, TableType
  <2>3. \A id \in 1 .. MaxCommands : TableOfList(<<>>, 0)[id] = t[id]
    BY <1>5
  <2> HIDE DEF t
  <2>4. TableOfList(<<>>, 0) = t
    BY <2>1, <2>2, <2>3, SameTable DEF Agree
  <2> QED
    BY <1>1, <2>4 DEF Tab, t
<1>7. Owed = 0
  <2>1. Unreaped(procs) = {}
    BY <1>1, <1>2 DEF Unreaped
  <2> QED
    BY <2>1, FS_EmptySet DEF Owed
<1>8. Table!TInit
  BY <1>6, <1>7, TheTable DEF Table!TInit, Owed
<1> QED
  BY <1>4, <1>8

------------------------------------------------------------------------------
(* The shell of lab 5 implements the job table in sessions of any length:   *)
(* however jobs, stops and collected children are interleaved, a job is Done *)
(* only by collecting exactly one child or when none is left, and only Done *)
(* jobs leave the list.                                                     *)
THEOREM ShellKeepsTable == Spec => ImplementsJobTable
<1>1. Init => TInv /\ Table!TInit
  BY InitTable
<1>2. IInv /\ TInv /\ [Next]_vars => TInv' /\ [Table!TNext]_(Table!tvars)
  BY NextTable DEF Next_or_stutter
<1> QED
  BY <1>1, <1>2, Invariance, PTL DEF Spec, ImplementsJobTable, Table!TableSpec

==============================================================================
