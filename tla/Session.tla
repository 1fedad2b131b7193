------------------------------ MODULE Session -------------------------------
(***************************************************************************)
(* What the run functions of the vision server promise to a dashboard that *)
(* reads the published "Status" entry: sessions follow one another, each   *)
(* announced by its status and closed by "Offline"; processing threads     *)
(* exist only inside a multithreaded session and are gone when it closes;  *)
(* the pipelines do not change under a session.                            *)
(***************************************************************************)
EXTENDS Naturals

CONSTANT MaxPipes

VARIABLES
    status,    \* "offline", or the kind of the session that is open
    workers,   \* a processing thread exists
    npipes     \* number of registered pipelines

vars == <<status, workers, npipes>>

Kinds == {"multi", "single", "raw"}

Init ==
    /\ status = "offline"
    /\ workers = FALSE
    /\ npipes \in 0 .. MaxPipes

\* A session of kind k opens; only raw streaming does without pipelines.
Open(k) ==
    /\ status = "offline"
    /\ k = "raw" \/ npipes > 0
    /\ status' = k
    /\ UNCHANGED <<workers, npipes>>

\* The first processing thread appears, or the last one goes.
Work ==
    /\ status = "multi"
    /\ workers' = ~workers
    /\ UNCHANGED <<status, npipes>>

Close ==
    /\ status # "offline"
    /\ ~workers
    /\ status' = "offline"
    /\ UNCHANGED <<workers, npipes>>

Reconfigure ==
    /\ status = "offline"
    /\ npipes' \in 0 .. MaxPipes
    /\ UNCHANGED <<status, workers>>

Next ==
    \/ \E k \in Kinds : Open(k)
    \/ Work
    \/ Close
    \/ Reconfigure

Spec == Init /\ [][Next]_vars
=============================================================================
