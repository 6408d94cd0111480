--------------------------- MODULE SideBySideProofs ---------------------------
(***************************************************************************)
(* MCSideBySide lets components that share no variable move one at a time. *)
(* Here it is proved that this is no loss: as part of the whole each       *)
(* component is a behaviour of its own specification, so what the other    *)
(* modules prove of the components holds of the whole.                     *)
(***************************************************************************)
EXTENDS MCSideBySide, VideoLifecycleProofs, AccountsProofs, CollaborationProofs, PlaybackProofs

Parts == {"video", "work", "accounts", "captions", "comments", "reactions", "playback"}

\* Comments and reactions see the recording go and come again, which the one
\* that stands still has to have a step for: nothing hangs on the recording.
AtRest ==
    /\ part \in Parts
    /\ part # "comments" =>
           /\ comment = [c \in CommentIds |-> NoComment]
           /\ post = [h \in Posters |-> IdlePost]
           /\ deleted = {}
    /\ part # "reactions" =>
           /\ active = {} /\ view = {}
           /\ toggle = [t \in Togglers |-> IdleToggle]
           /\ counted = [k \in Visitors \X (0..LastDay) |-> 0]

LEMMA AtRestInit == SideBySideInit => AtRest
  BY DEF SideBySideInit, AtRest, Parts, CommentsInit, ReactionsInit

LEMMA AtRestStep ==
    ASSUME AtRest, [SideBySideNext]_allVars
    PROVE  AtRest'
<1>1. CASE UNCHANGED allVars
  BY <1>1 DEF AtRest, allVars, ownComments, ownReactions, reactionVars, viewVars
<1>2. CASE SideBySideNext
  <2>1. part' = part
    BY <1>2 DEF SideBySideNext
  <2>2. part = "comments" \/ UNCHANGED <<comment, post, deleted>>
    BY <1>2 DEF SideBySideNext, ownComments
  <2>3. part = "reactions" \/ UNCHANGED <<active, view, toggle, counted>>
    BY <1>2 DEF SideBySideNext, ownReactions, reactionVars, viewVars
  <2> QED
    BY <2>1, <2>2, <2>3 DEF AtRest
<1> QED
  BY <1>1, <1>2

LEMMA AtRestAlways == SideBySideSpec => []AtRest
  BY AtRestInit, AtRestStep, PTL DEF SideBySideSpec

LEMMA PartIsChosen ==
    ASSUME [SideBySideNext]_allVars
    PROVE  part' = part
  BY DEF SideBySideNext, allVars
-----------------------------------------------------------------------------
(* Those who share nothing.                                                *)

LEMMA AccountsAlone == SideBySideSpec => AccountsSpec
<1>1. SideBySideInit => AccountsInit
  BY DEF SideBySideInit
<1>2. [SideBySideNext]_allVars => [AccountsNext]_accountsVars
  BY DEF SideBySideNext, allVars
<1> QED
  BY <1>1, <1>2, PTL DEF SideBySideSpec, AccountsSpec

LEMMA CaptionsAlone == SideBySideSpec => CaptionsSpec
<1>1. SideBySideInit => CaptionsInit
  BY DEF SideBySideInit
<1>2. [SideBySideNext]_allVars => [CaptionsNext]_captionVars
  BY DEF SideBySideNext, allVars
<1> QED
  BY <1>1, <1>2, PTL DEF SideBySideSpec, CaptionsSpec

LEMMA PlaybackAlone == SideBySideSpec => PlaybackSpec
<1>1. SideBySideInit => PlaybackInit
  BY DEF SideBySideInit
<1>2. [SideBySideNext]_allVars => [PlaybackNext]_playbackVars
  BY DEF SideBySideNext, allVars
<1> QED
  BY <1>1, <1>2, PTL DEF SideBySideSpec, PlaybackSpec
-----------------------------------------------------------------------------
(* Those who share the row of the recording.                               *)

LEMMA ReactionsRow ==
    ASSUME ReactionsNext
    PROVE  \/ UNCHANGED videoRow
           \/ VideoRowGone
           \/ VideoRowAgain
  BY DEF ReactionsNext, ToggleBegin, ToggleApply, WatchBegin, WatchInsert, WatchDropped, Midnight,
         ReactionsCascade

LEMMA CommentsRow ==
    ASSUME CommentsNext
    PROVE  \/ UNCHANGED videoRow
           \/ VideoRowGone
           \/ VideoRowAgain
  BY DEF CommentsNext, CheckParent, PatchReads, Insert, PatchWrites, PostDropped, DeleteComment,
         CommentsCascade

\* Without comments the deletion of the recording takes none with it.
LEMMA CommentsStep ==
    ASSUME AtRest, [SideBySideNext]_allVars
    PROVE  [CommentsNext]_commentsVars
<1>1. CASE part = "reactions" /\ ReactionsNext /\ UNCHANGED <<comment, post, deleted>>
  <2>1. comment = [c \in CommentIds |-> NoComment] /\ deleted = {}
    BY <1>1 DEF AtRest
  <2>2. Posted = {}
    BY <2>1 DEF Posted
  <2>3. Without(Posted) = comment
    BY <2>1, <2>2 DEF Without
  <2>4. CASE VideoRowGone
    BY <1>1, <2>2, <2>3, <2>4 DEF CommentsNext, CommentsCascade
  <2>5. CASE VideoRowAgain
    BY <1>1, <2>5 DEF CommentsNext
  <2>6. CASE UNCHANGED videoRow
    BY <1>1, <2>6 DEF commentsVars
  <2> QED
    BY <1>1, <2>4, <2>5, <2>6, ReactionsRow
<1>2. CASE part = "comments" /\ CommentsNext
  BY <1>2
<1>3. CASE UNCHANGED <<videoRow, ownComments>>
  BY <1>3 DEF commentsVars, ownComments
<1> QED
  BY <1>1, <1>2, <1>3 DEF SideBySideNext, allVars, ownComments

LEMMA ReactionsStep ==
    ASSUME AtRest, [SideBySideNext]_allVars
    PROVE  [ReactionsNext]_reactionsVars
<1>1. CASE part = "comments" /\ CommentsNext /\ UNCHANGED ownReactions
  <2>1. /\ active = {} /\ view = {}
        /\ toggle = [t \in Togglers |-> IdleToggle]
        /\ counted = [k \in Visitors \X (0..LastDay) |-> 0]
    BY <1>1 DEF AtRest
  <2>2. UNCHANGED <<active, toggle, view, cookie, watch, day, counted>>
    BY <1>1 DEF ownReactions, reactionVars, viewVars
  <2>3. counted = [k \in DOMAIN counted |-> 0]
    BY <2>1
  <2>4. toggle = [t \in Togglers |-> IF toggle[t].pc = "idle" THEN IdleToggle
                                     ELSE [toggle[t] EXCEPT !.same = FALSE]]
    BY <2>1 DEF IdleToggle
  <2>5. CASE VideoRowGone
    BY <2>1, <2>2, <2>3, <2>4, <2>5 DEF ReactionsNext, ReactionsCascade
  <2>6. CASE VideoRowAgain
    BY <2>2, <2>6 DEF ReactionsNext, reactionVars, viewVars
  <2>7. CASE UNCHANGED videoRow
    BY <1>1, <2>7 DEF reactionsVars, ownReactions
  <2> QED
    BY <1>1, <2>5, <2>6, <2>7, CommentsRow
<1>2. CASE part = "reactions" /\ ReactionsNext
  BY <1>2
<1>3. CASE UNCHANGED <<videoRow, ownReactions>>
  BY <1>3 DEF reactionsVars, ownReactions
<1> QED
  BY <1>1, <1>2, <1>3 DEF SideBySideNext, allVars

LEMMA CommentsAlone == SideBySideSpec => CommentsSpec
<1>1. SideBySideInit => CommentsInit
  BY DEF SideBySideInit
<1> QED
  BY <1>1, CommentsStep, AtRestAlways, PTL DEF SideBySideSpec, CommentsSpec

LEMMA ReactionsAlone == SideBySideSpec => ReactionsSpec
<1>1. SideBySideInit => ReactionsInit
  BY DEF SideBySideInit
<1> QED
  BY <1>1, ReactionsStep, AtRestAlways, PTL DEF SideBySideSpec, ReactionsSpec
-----------------------------------------------------------------------------
(* The video is moved by its own handlers or by the workers.               *)

ByHandlers == part = "video"
ByWorkers == part = "work"

LEMMA VideoAlone == SideBySideSpec => ByWorkers \/ Spec
<1>1. SideBySideInit => Init
  BY DEF SideBySideInit, WorkInit
<1>2. [SideBySideNext]_allVars /\ ~ByWorkers => [Next]_vars
  BY DEF SideBySideNext, allVars, ownVideo, ByWorkers
<1>3. [SideBySideNext]_allVars /\ ~ByWorkers => ~ByWorkers'
  BY PartIsChosen DEF ByWorkers
<1> QED
  BY <1>1, <1>2, <1>3, PTL DEF SideBySideSpec, Spec

LEMMA WorkAlone == SideBySideSpec => ByHandlers \/ WorkSpec
<1>1. SideBySideInit => WorkInit
  BY DEF SideBySideInit
<1>2. [SideBySideNext]_allVars /\ ~ByHandlers => [WorkNext]_bothVars
  BY DEF SideBySideNext, allVars, ownVideo, bothVars, ByHandlers
<1>3. [SideBySideNext]_allVars /\ ~ByHandlers => ~ByHandlers'
  BY PartIsChosen DEF ByHandlers
<1> QED
  BY <1>1, <1>2, <1>3, PTL DEF SideBySideSpec, WorkSpec

\* What holds of the video whoever moves it holds in the whole.
LEMMA EitherMoves == ~(ByWorkers /\ ByHandlers)
  BY DEF ByWorkers, ByHandlers
-----------------------------------------------------------------------------
(* What only one of the two does: the other leaves the columns that it     *)
(* writes as they were, or shows a report that has not begun.              *)

NewUpload == [uploaded |-> 0, total |-> 0]

OtherHalf ==
    /\ ByWorkers => upload \in {NoUpload, NewUpload}
    /\ ~ByWorkers => mux = "null" /\ multi = "none"

LEMMA WorkUploads ==
    ASSUME WorkNext, upload \in {NoUpload, NewUpload}
    PROVE  upload' \in {NoUpload, NewUpload}
<1>1. CASE LifeGoesOn
  BY <1>1 DEF LifeGoesOn, Create, CreateRow, CreateUpload, CreateDropped, Sign, Tick, DeleteCheck,
              DeleteRename, DeleteRestore, DeletePurge, DeleteDropped, rows, NewUpload
<1>2. CASE CrashAll
  BY <1>2 DEF CrashAll, Crash, rows
<1>3. ASSUME NEW d \in Deletes, DeleteRowAndUpload(d)
      PROVE  upload' \in {NoUpload, NewUpload}
  BY <1>3 DEF DeleteRowAndUpload, DeleteRow, rows
<1>4. CASE PutSegments \/ Initiate
  BY <1>4 DEF PutSegments, Initiate, NewUpload
<1>5. ASSUME NEW w \in Workers, MuxClaim(w) \/ AssembleClaim(w) \/ WorkGoesOn(w)
      PROVE  upload' \in {NoUpload, NewUpload}
  BY <1>5 DEF MuxClaim, AssembleClaim, Claims, WorkGoesOn, ReadSegments, EnsureParent, CreateTemp,
              PublishResult, WriteFails, Commit, CommitFails, Release, AssemblyDropped, vars
<1> QED
  BY <1>1, <1>2, <1>3, <1>4, <1>5 DEF WorkNext

LEMMA OtherHalfInit == SideBySideInit => OtherHalf
  BY DEF SideBySideInit, WorkInit, Init, OtherHalf

LEMMA OtherHalfStep ==
    ASSUME OtherHalf, [SideBySideNext]_allVars
    PROVE  OtherHalf'
<1>1. part' = part
  BY PartIsChosen
<1>2. CASE ByWorkers
  <2>1. WorkNext \/ UNCHANGED upload
    BY <1>2 DEF ByWorkers, SideBySideNext, allVars, ownVideo, vars
  <2>2. upload' \in {NoUpload, NewUpload}
    BY <1>2, <2>1, WorkUploads DEF OtherHalf
  <2> QED
    BY <1>1, <1>2, <2>2 DEF OtherHalf, ByWorkers
<1>3. CASE ~ByWorkers
  <2>1. UNCHANGED <<mux, multi>>
    BY <1>3 DEF ByWorkers, SideBySideNext, allVars, ownVideo, workVars
  <2> QED
    BY <1>1, <1>3, <2>1 DEF OtherHalf, ByWorkers
<1> QED
  BY <1>2, <1>3

LEMMA OtherHalfAlways == SideBySideSpec => []OtherHalf
  BY OtherHalfInit, OtherHalfStep, PTL DEF SideBySideSpec

\* With no report under way the size that is shown is 0 of 0.
LEMMA WorkersReportNothing ==
    ASSUME OtherHalf, OtherHalf', ByWorkers, [SideBySideNext]_allVars
    PROVE  /\ [upload # NoUpload /\ upload' # NoUpload => upload'.uploaded >= upload.uploaded]_vars
           /\ [upload # NoUpload /\ upload' = NoUpload /\ row' => upload.uploaded >= upload.total]_vars
<1>1. upload \in {NoUpload, NewUpload} /\ upload' \in {NoUpload, NewUpload}
  BY PartIsChosen DEF OtherHalf, ByWorkers
<1> QED
  BY <1>1 DEF NewUpload
-----------------------------------------------------------------------------
\* In the whole, every variable of every component stays within its type.
THEOREM PartsTypeCorrect == SideBySideSpec => []PartsTypeOK
<1>1. CaptionsInv => CaptionsTypeOK
  BY DEF CaptionsInv
<1>2. CommentsInv => CommentsTypeOK
  BY DEF CommentsInv
<1>3. ReactionsInv => ReactionsTypeOK
  BY DEF ReactionsInv
<1>4. WorkInv => TypeOK
  BY DEF WorkInv
<1>5. SideBySideSpec => []TypeOK
  BY <1>4, EitherMoves, VideoAlone, WorkAlone, VideoTypeCorrect, WorkCorrect, PTL
<1>6. ASSUME TypeOK, AccountsTypeOK, CaptionsTypeOK, CommentsTypeOK, ReactionsTypeOK, PlaybackTypeOK
      PROVE  PartsTypeOK
  BY <1>6 DEF PartsTypeOK
<1> QED
  BY <1>1, <1>2, <1>3, <1>5, <1>6, AccountsAlone, CaptionsAlone, CommentsAlone, ReactionsAlone,
     PlaybackAlone, AccountsTypeCorrect, CaptionsCorrect, CommentsCorrect, ReactionsCorrect,
     PlaybackTypeCorrect, PTL

\* In the whole, what each component promises holds in every state.
WholeIsSafe ==
    /\ PartsTypeOK
    /\ CompletedHasFile
    /\ SuccessIsProven
    /\ OneDefault /\ RowKeepsVtt /\ DeletedLeavesNothing
    /\ RepliesHaveThread /\ DeletedStaysDeleted
    /\ CountedOnce
    /\ BodyIsTheRange /\ UrlLeadsToFile

\* Every invariant of the components holds when they are put side by side, for
\* any number of requests of each: the run that checks them together checks
\* what the components do on their own.
THEOREM InvariantsOfTheWhole == SideBySideSpec => []WholeIsSafe
<1>1. SideBySideSpec => []CompletedHasFile
  <2>1. OtherHalf /\ ~ByWorkers => CompletedHasFile
    BY DEF OtherHalf, CompletedHasFile
  <2>2. [SideBySideNext]_allVars /\ ~ByWorkers => ~ByWorkers'
    BY PartIsChosen DEF ByWorkers
  <2> QED
    BY <2>1, <2>2, EitherMoves, WorkAlone, CompletedKeepsFile, OtherHalfAlways, PTL DEF SideBySideSpec
<1>2. ASSUME PartsTypeOK, CompletedHasFile, SuccessIsProven, OneDefault, RowKeepsVtt, DeletedLeavesNothing,
             RepliesHaveThread, DeletedStaysDeleted, CountedOnce, BodyIsTheRange, UrlLeadsToFile
      PROVE  WholeIsSafe
  BY <1>2 DEF WholeIsSafe
<1> QED
  BY <1>1, <1>2, PartsTypeCorrect, AccountsAlone, SignInsProven,
     CaptionsAlone, DefaultIsUnique, RowsKeepFiles, DeletionTakesFile,
     CommentsAlone, ThreadsCorrect, DeletionIsFinal, ReactionsAlone, ViewsCountedOnce,
     PlaybackAlone, BodiesExact, UrlsLead, PTL

\* What no step of a component may do, no step of the whole does; and the
\* captions of the whole implement CaptionList.
THEOREM StepsOfTheWhole ==
    SideBySideSpec =>
        ProgressNeverFalls /\ OnlyFinishedEnds /\ DefaultNotLost /\ LoneToggleFlips /\ ImplementsList
<1>1. SideBySideSpec => ProgressNeverFalls /\ OnlyFinishedEnds
  <2>1. OtherHalf /\ OtherHalf' /\ ByWorkers /\ [SideBySideNext]_allVars =>
          /\ [upload # NoUpload /\ upload' # NoUpload => upload'.uploaded >= upload.uploaded]_vars
          /\ [upload # NoUpload /\ upload' = NoUpload /\ row' => upload.uploaded >= upload.total]_vars
    BY WorkersReportNothing
  <2>2. [SideBySideNext]_allVars /\ ByWorkers => ByWorkers'
    BY PartIsChosen DEF ByWorkers
  <2> QED
    BY <2>1, <2>2, VideoAlone, ProgressMonotonic, EndsFinished, OtherHalfAlways, PTL
       DEF SideBySideSpec, ProgressNeverFalls, OnlyFinishedEnds
<1> QED
  BY <1>1, CaptionsAlone, DefaultKept, ListImplemented, ReactionsAlone, LoneTogglesFlip, PTL
=============================================================================
