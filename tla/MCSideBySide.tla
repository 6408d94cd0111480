---------------------------- MODULE MCSideBySide ----------------------------
(***************************************************************************)
(* Components that share no variable, in one run for their safety.  Each   *)
(* moves only its own variables and no guard of one reads a variable of    *)
(* another, so what one of them does is the same whatever the others do:   *)
(* it is enough that one moves while the others stand still.  The initial  *)
(* state says which one.  Comments and reactions both hang on videoRow,    *)
(* and see it come and go alike.  The video's own handlers and the workers *)
(* of WorkDuringDeletion do share variables, and are two parts.            *)
(***************************************************************************)
EXTENDS WorkDuringDeletion, Accounts, Captions, Comments, Reactions, Playback

VARIABLE part   \* which component moves

ownVideo == <<vars, workVars>>
ownComments == <<comment, post, deleted>>
ownReactions == <<reactionVars, viewVars>>
allVars == <<part, ownVideo, accountsVars, captionVars, videoRow, ownComments, ownReactions, playbackVars>>

\* What a worker writes, and the segments, are no PUTs of result.mp4.
WorkerSlots == Workers \cup {SegmentsDir}

SideBySideInit ==
    /\ part \in {"video", "work", "accounts", "captions", "comments", "reactions", "playback"}
    /\ WorkInit /\ AccountsInit /\ CaptionsInit /\ CommentsInit /\ ReactionsInit /\ PlaybackInit

SideBySideNext ==
    /\ UNCHANGED part
    /\ \/ /\ part = "video" /\ Next
          /\ \A p \in WorkerSlots : put'[p] = "idle"
          /\ UNCHANGED <<workVars, accountsVars, captionVars, videoRow, ownComments, ownReactions, playbackVars>>
       \/ /\ part = "work" /\ WorkNext
          /\ UNCHANGED <<accountsVars, captionVars, videoRow, ownComments, ownReactions, playbackVars>>
       \/ /\ part = "accounts" /\ AccountsNext
          /\ UNCHANGED <<ownVideo, captionVars, videoRow, ownComments, ownReactions, playbackVars>>
       \/ /\ part = "captions" /\ CaptionsNext
          /\ UNCHANGED <<ownVideo, accountsVars, videoRow, ownComments, ownReactions, playbackVars>>
       \/ /\ part = "comments" /\ CommentsNext
          /\ UNCHANGED <<ownVideo, accountsVars, captionVars, ownReactions, playbackVars>>
       \/ /\ part = "reactions" /\ ReactionsNext
          /\ UNCHANGED <<ownVideo, accountsVars, captionVars, ownComments, playbackVars>>
       \/ /\ part = "playback" /\ PlaybackNext
          /\ UNCHANGED <<ownVideo, accountsVars, captionVars, videoRow, ownComments, ownReactions>>

SideBySideSpec == SideBySideInit /\ [][SideBySideNext]_allVars
-----------------------------------------------------------------------------
\* Every variable of every component stays within its type; among the rest, no
\* report writes more than its total into the progress row.
PartsTypeOK ==
    /\ TypeOK /\ AccountsTypeOK /\ CaptionsTypeOK
    /\ CommentsTypeOK /\ ReactionsTypeOK /\ PlaybackTypeOK
=============================================================================
