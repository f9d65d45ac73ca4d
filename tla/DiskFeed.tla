------------------------------ MODULE DiskFeed ------------------------------
(***************************************************************************)
(* What the disk_added / disk_removed messages promise a subscriber,       *)
(* abstractly.  `known` is the set of disks the daemon currently believes  *)
(* attached, `announced` the set the subscriber reconstructs from the      *)
(* messages.  A new belief is formed only once every difference with the   *)
(* previous one has been announced; each announcement moves one disk       *)
(* toward the belief, never away from it; and the announcements do catch   *)
(* up.                                                                     *)
(***************************************************************************)
CONSTANT Disks

VARIABLES known, announced

feedVars == <<known, announced>>

Init == known = {} /\ announced = {}

\* A new snapshot of the attached disks, taken when the feed has caught up.
Sample ==
    /\ announced = known
    /\ known' \in SUBSET Disks
    /\ UNCHANGED announced

\* A disk believed attached is announced as added.
Announce(d) ==
    /\ d \in known \ announced
    /\ announced' = announced \cup {d}
    /\ UNCHANGED known

\* A disk no longer believed attached is announced as removed.
Retract(d) ==
    /\ d \in announced \ known
    /\ announced' = announced \ {d}
    /\ UNCHANGED known

Catch == \E d \in Disks : Announce(d) \/ Retract(d)

Next == Sample \/ Catch

Spec == Init /\ [][Next]_feedVars /\ WF_feedVars(Catch)

=============================================================================
