------------------------------ MODULE MCRouting ------------------------------
(***************************************************************************)
(* Instances of Routing.                                                   *)
(***************************************************************************)
EXTENDS Routing

CONSTANTS camA, camB, pipeA

TwoCams == <<camA, camB>>
OnePipe == <<pipeA>>
Nothing == <<>>

\* The last camera, the pipeline, one beyond each end.
StreamIndices == {-3, -2, 1, 2}
FewIndices == {0, 1, -1}
\* The last camera and one beyond it, the pipeline itself and one beyond it.
PipeIndices == {2, 3, -1, -2}
FarPipeIndices == {-2}
=============================================================================
