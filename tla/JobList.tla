------------------------------- MODULE JobList -------------------------------
(***************************************************************************)
(* The job list of the shell of lab 5 (job_control.c): a linked list of    *)
(* job records that add_job extends at its tail, remove_job cuts at any    *)
(* node and find_job_by_index walks.  The list is a sequence; a job* is a  *)
(* position in it, and the ghost field "id" is the identity of the node    *)
(* (the number of the command line the job was made for), which survives   *)
(* the removals that shift positions.                                      *)
(***************************************************************************)
EXTENDS Integers, Sequences, SequencesExt

Done      == "Done"
Suspended == "Suspended"
Running   == "Running"
Statuses  == {Done, Suspended, Running}

Jobs == [id : Nat, idx : Nat, pgid : Nat, status : Statuses,
         modes : {"unset", "saved"}]

(* initialize_job leaves idx for add_job to fill; status 0 is Suspended and *)
(* tmodes points to memory nobody has written ("unset").                    *)
initialize_job(id) ==
  [id |-> id, idx |-> 0, pgid |-> 0, status |-> Suspended, modes |-> "unset"]

(* Mutant: the list is numbered from 0.                                     *)
add_job_from_zero(list, id) ==
  Append(list, [initialize_job(id) EXCEPT !.idx = Len(list)])

(* add_job numbers a job by the length of the list it is appended to.       *)
add_job(list, id) ==
  Append(list, [initialize_job(id) EXCEPT !.idx = Len(list) + 1])

(* remove_job unlinks the node at position i.                               *)
remove_job(list, i) == RemoveAt(list, i)

(* find_job_by_index counts nodes; 0 stands for the null pointer.           *)
find_job_by_index(list, k) == IF k \in 1 .. Len(list) THEN k ELSE 0

SetStatus(list, i, s) == [list EXCEPT ![i].status = s]

Unfinished(list) == {i \in DOMAIN list : list[i].status # Done}

==============================================================================
