------------------------------- MODULE JobTable -------------------------------
(***************************************************************************)
(* What the job control of the lab 5 shell promises, without its list,     *)
(* cursors and system calls: a table of jobs and the number of children    *)
(* whose end has not been collected.  A job becomes Done by collecting one *)
(* child, or when no child is left to collect; only Done jobs leave the    *)
(* table, except that the job of a child collected by the sweep after a    *)
(* foreground job is Done and dropped at once.                             *)
(***************************************************************************)
EXTENDS Naturals

CONSTANT Ids  \* the jobs that can ever be submitted

VARIABLES
  table,   \* the state of each job
  owed     \* children not collected yet

tvars == <<table, owed>>

Listed == {id \in Ids : table[id] \in {"Running", "Suspended", "Done"}}

Set(id, s) == table' = [table EXCEPT ![id] = s]

TInit == table = [id \in Ids |-> "none"] /\ owed = 0

(* A new job is Running, or Done at once; the same line may set one listed  *)
(* job (bg), possibly itself, Running again.                                *)
Submit(id) ==
  /\ table[id] = "none"
  /\ \/ \E s \in {"Running", "Done"} : Set(id, s)
     \/ \E other \in Listed :
          table' = [table EXCEPT ![id] = "Running", ![other] = "Running"]
  /\ UNCHANGED owed

Spawn == owed' = owed + 1 /\ UNCHANGED table

(* A job is suspended on behalf of a child that is still owed.              *)
Suspend(id) ==
  /\ table[id] = "Running" /\ owed > 0
  /\ Set(id, "Suspended")
  /\ UNCHANGED owed

Resume(id) ==
  /\ table[id] = "Suspended"
  /\ Set(id, "Running")
  /\ UNCHANGED owed

Collect(id) ==
  /\ owed > 0
  /\ \/ table[id] \in {"Running", "Suspended"} /\ Set(id, "Done")
     \/ table[id] = "Running" /\ Set(id, "gone")
  /\ owed' = owed - 1

GiveUp(id) ==
  /\ table[id] \in {"Running", "Suspended"} /\ owed = 0
  /\ Set(id, "Done")
  /\ UNCHANGED owed

Drop(id) ==
  /\ table[id] = "Done"
  /\ Set(id, "gone")
  /\ UNCHANGED owed

Close ==
  /\ table' = [id \in Ids |-> IF id \in Listed THEN "gone" ELSE table[id]]
  /\ UNCHANGED owed

TNext ==
  \/ \E id \in Ids :
       \/ Submit(id) \/ Suspend(id) \/ Resume(id)
       \/ Collect(id) \/ GiveUp(id) \/ Drop(id)
  \/ Spawn
  \/ Close

TableSpec == TInit /\ [][TNext]_tvars

==============================================================================
