----------------------------- MODULE MCRunSingle -----------------------------
(***************************************************************************)
(* Instances of RunSingle.                                                 *)
(***************************************************************************)
EXTENDS RunSingle

\* Both pipelines, zero and one beyond the end.
PipeIndices == {0, 1, 2, 3}
\* The last camera: line 467 uses the memory behind it.
LastCam == {2}
\* A camera, none, a pipeline.
StreamIndices == {-1, 0, 2}
=============================================================================
