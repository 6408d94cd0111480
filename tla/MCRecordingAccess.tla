--------------------------- MODULE MCRecordingAccess ---------------------------
(***************************************************************************)
(* RecordingAccess for TLC.  Passwords and the slots of handlers are       *)
(* interchangeable; no liveness is checked with this symmetry.             *)
(***************************************************************************)
EXTENDS RecordingAccess, TLC

Symmetry == Permutations(Passwords) \cup Permutations(Setters)
===============================================================================
