----------------------------- MODULE MCLiveness -----------------------------
(***************************************************************************)
(* What must eventually happen in the components whose handlers wait for   *)
(* one another: sign-ins for a permit, caption edits for a row, an owner   *)
(* for a deletion.  As in MCSideBySide the components share no variable,   *)
(* and one of them moves.                                                  *)
(***************************************************************************)
EXTENDS VideoLifecycle, Accounts, Captions

VARIABLE part   \* which component moves

LivenessInit ==
    /\ part \in {"video", "accounts", "captions"}
    /\ Init /\ AccountsInit /\ CaptionsInit

LivenessNext ==
    /\ UNCHANGED part
    /\ \/ part = "video" /\ Next /\ UNCHANGED <<accountsVars, captionVars>>
       \/ part = "accounts" /\ AccountsNext /\ UNCHANGED <<vars, captionVars>>
       \/ part = "captions" /\ CaptionsNext /\ UNCHANGED <<vars, accountsVars>>

\* The fairness of each component.  The fair steps of one that stands still are
\* not enabled: it has no handler under way, and a video that has no row has
\* no owner who asks for its deletion.
LivenessSpec ==
    /\ LivenessInit /\ [][LivenessNext]_<<part, vars, accountsVars, captionVars>>
    /\ \A d \in Deletes : WF_vars(DeleteGoesOn(d))
    /\ \E d \in Deletes : WF_vars(DeleteCheck(d))
    /\ AccountsFairness
    /\ CaptionsFairness
=============================================================================
