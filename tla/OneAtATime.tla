----------------------------- MODULE OneAtATime -----------------------------
(***************************************************************************)
(* What ProjectLocks promises (routes/app.py): "One lifecycle operation    *)
(* per project at a time", never waited for, gone when the API process is. *)
(* The state is who operates on each project; a thread works on one        *)
(* project at a time.                                                      *)
(***************************************************************************)
CONSTANTS Projects, Threads, NoOne

VARIABLE owner

Init == owner = [p \in Projects |-> NoOne]

\* A thread becomes the only one operating on an idle project.
Begin(p, t) ==
    /\ owner[p] = NoOne
    /\ \A q \in Projects : owner[q] # t
    /\ owner' = [owner EXCEPT ![p] = t]

\* The operation ends, however it ends.
End(p) ==
    /\ owner[p] # NoOne
    /\ owner' = [owner EXCEPT ![p] = NoOne]

\* The process stops and takes every operation with it.
ProcessDies == owner' = [p \in Projects |-> NoOne]

Next ==
    \/ \E p \in Projects, t \in Threads : Begin(p, t)
    \/ \E p \in Projects : End(p)
    \/ ProcessDies

Spec == Init /\ [][Next]_owner
=============================================================================
