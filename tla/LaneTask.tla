------------------------------ MODULE LaneTask ------------------------------
(***************************************************************************)
(* What an API process and its transport lanes assume about each other:    *)
(* the task of a lane is spawned once while the process starts, may end by *)
(* itself, is not spawned again while the process lives, and is gone when  *)
(* the process is.  Lifecycle (the process) and CommandLane (a lane, in    *)
(* several processes) both implement it.                                   *)
(***************************************************************************)
CONSTANT Tasks

VARIABLE task    \* task[l]: "off", "running" or "ended"

(* A lane may be looked at from when its task has been spawned. *)
Init == task \in [Tasks -> {"off", "running"}]

Spawn(l) == task[l] = "off" /\ task' = [task EXCEPT ![l] = "running"]

End(l) == task[l] = "running" /\ task' = [task EXCEPT ![l] = "ended"]

(* The tasks of a process end together. *)
ProcessExit(gone) ==
    task' = [l \in Tasks |-> IF l \in gone THEN "off" ELSE task[l]]

Next ==
    \/ \E l \in Tasks : Spawn(l) \/ End(l)
    \/ \E gone \in SUBSET Tasks : ProcessExit(gone)

Spec == Init /\ [][Next]_task
=============================================================================
