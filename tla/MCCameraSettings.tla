--------------------------- MODULE MCCameraSettings ---------------------------
(***************************************************************************)
(* Instances of CameraSettings.                                            *)
(***************************************************************************)
EXTENDS CameraSettings

CONSTANTS camA, camB

\* The range is 0 to 100; -1 is auto.
RemoteValues == {20, 150, -1}
\* The application may pass what the dashboard writes.
LocalValues == {20, 60}
=============================================================================
