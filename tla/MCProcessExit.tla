---------------------------- MODULE MCProcessExit ----------------------------
(***************************************************************************)
(* One thread registers, starts in the background, stops and leaves main().*)
(***************************************************************************)
EXTENDS ProcessExit

OneCaller == {Main}
SoleCalls == [c \in Callers |-> {"configure", "runThread", "stop"}]
=============================================================================
