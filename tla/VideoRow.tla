------------------------------ MODULE VideoRow ------------------------------
(***************************************************************************)
(* The row of a recording as the tables that hang on it see it             *)
(* (src/migrations/0006_collaboration.sql): while it is there rows may     *)
(* refer to it, and when it is deleted they go with it.                    *)
(***************************************************************************)
VARIABLE videoRow   \* the row of videos is there

VideoRowInit == videoRow = TRUE

\* DELETE FROM videos; what cascades is said by the tables.
VideoRowGone == videoRow /\ videoRow' = FALSE

\* The desktop creates a recording of the same id again.
VideoRowAgain == ~videoRow /\ videoRow' = TRUE
=============================================================================
