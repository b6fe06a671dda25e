------------------------------ MODULE FileSession ------------------------------
(***************************************************************************)
(* What the file server of lab 7 promises about its sessions: one at a     *)
(* time, in the order of the connections; a download only inside one; a    *)
(* session passes on only after its bye.  A session that is lost (its      *)
(* connection was reset) is never given to anybody again.                  *)
(***************************************************************************)
EXTENDS Naturals

VARIABLES
  phase,   \* "free", "held", "download", "lost" or "down"
  holder   \* the connection of the last session

Init == phase = "free" /\ holder = 0

Begin    == phase = "free" /\ phase' = "held" /\ holder' > holder
Download == phase = "held" /\ phase' = "download" /\ UNCHANGED holder
Finish   == phase = "download" /\ phase' = "held" /\ UNCHANGED holder
End      == phase = "held" /\ phase' = "free" /\ UNCHANGED holder
Lose     == phase \in {"held", "download"} /\ phase' = "lost" /\ UNCHANGED holder
Fail     == phase # "down" /\ phase' = "down" /\ UNCHANGED holder

Next == Begin \/ Download \/ Finish \/ End \/ Lose \/ Fail

Spec == Init /\ [][Next]_<<phase, holder>>
==============================================================================
