---------------------------- MODULE MCRunControl ----------------------------
(***************************************************************************)
(* The usage disciplines under which RunControl is model-checked.          *)
(***************************************************************************)
EXTENDS RunControl

CONSTANTS Main, Other

TwoCallers == {Main, Other}
OneCaller  == {Main}

\* Both threads call everything.
FreeCalls == [c \in Callers |-> Ops]

\* "blocks until stop() is called [in another thread]": Main configures the
\* server and runs it, Other only stops it.
BlockingCalls ==
    [c \in Callers |-> IF c = Main THEN {"configure", "run"} ELSE {"stop"}]

\* One thread registers, starts in the background and stops.
SoleCalls == [c \in Callers |-> {"configure", "runThread", "stop"}]
=============================================================================
