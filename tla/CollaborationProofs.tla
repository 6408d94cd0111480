------------------------ MODULE CollaborationProofs ------------------------
(***************************************************************************)
(* Theorems about what hangs on a recording (src/routes/collaboration.rs): *)
(* comments, reactions and views, and captions, for any number of          *)
(* concurrent requests.                                                    *)
(***************************************************************************)
EXTENDS Captions, Comments, Reactions, FiniteSetTheorems, TLAPS

-----------------------------------------------------------------------------
(* Comments.  The insert of a reply has its own id and a parent that is    *)
(* top-level as long as it is there: nobody can write either of them.      *)

InsertIsFresh ==
    \A h \in Posters : post[h].pc = "insert" => post[h].comment \notin Posted \cup deleted

ParentStillTopLevel ==
    \A h \in Posters : post[h].pc = "insert" =>
        post[h].row.parent \in TopLevel \cup deleted \cup {NoComment}

InsertsDiffer ==
    \A h, g \in Posters :
        h # g /\ post[h].pc = "insert" /\ post[g].pc = "insert" => post[h].comment # post[g].comment

CommentsInv ==
    /\ CommentsTypeOK
    /\ InsertIsFresh /\ ParentStillTopLevel /\ InsertsDiffer
    /\ RepliesHaveThread /\ DeletedStaysDeleted

PostSlots == [pc : {"insert", "update"}, comment : CommentIds, row : Comment]

LEMMA CommentsTypeInit == CommentsInit => CommentsTypeOK
  BY DEF CommentsInit, CommentsTypeOK, VideoRowInit

LEMMA CommentsTypeStep ==
    ASSUME CommentsTypeOK, [CommentsNext]_commentsVars
    PROVE  CommentsTypeOK'
<1> USE DEF CommentsTypeOK, PostEnds, Without
<1>1. ASSUME NEW h \in Posters, NEW c \in CommentIds, NEW r \in Comment, CheckParent(h, c, r)
      PROVE  CommentsTypeOK'
  BY <1>1 DEF CheckParent
<1>2. ASSUME NEW h \in Posters, NEW c \in CommentIds, NEW a \in Authors, NEW text \in Texts,
             PatchReads(h, c, a, text)
      PROVE  CommentsTypeOK'
  <2>1. comment[c] \in Comment
    BY <1>2 DEF PatchReads, Posted
  <2>2. [comment[c] EXCEPT !.text = text] \in Comment
    BY <2>1 DEF Comment
  <2> QED
    BY <1>2, <2>2 DEF PatchReads
<1>3. ASSUME NEW h \in Posters, Insert(h)
      PROVE  CommentsTypeOK'
  <2>1. post[h] \in PostSlots
    BY <1>3 DEF Insert, PostSlots, IdlePost
  <2>2. comment' \in [CommentIds -> Comment \cup {NoComment}]
    BY <1>3, <2>1 DEF Insert, PostSlots
  <2> QED
    BY <1>3, <2>2 DEF Insert
<1>4. ASSUME NEW h \in Posters, PatchWrites(h)
      PROVE  CommentsTypeOK'
  <2>1. post[h] \in PostSlots
    BY <1>4 DEF PatchWrites, PostSlots, IdlePost
  <2>2. comment' \in [CommentIds -> Comment \cup {NoComment}]
    <3> DEFINE c == post[h].comment
    <3>1. CASE c \in Posted
      <4>1. comment[c] \in Comment /\ post[h].row.text \in Texts
        BY <2>1, <3>1 DEF Posted, PostSlots, Comment
      <4>2. [comment[c] EXCEPT !.text = post[h].row.text] \in Comment
        BY <4>1 DEF Comment
      <4> QED
        BY <1>4, <3>1, <4>2 DEF PatchWrites
    <3>2. CASE c \notin Posted
      BY <1>4, <3>2 DEF PatchWrites
    <3> QED
      BY <3>1, <3>2
  <2> QED
    BY <1>4, <2>2 DEF PatchWrites
<1>5. ASSUME NEW h \in Posters, PostDropped(h)
      PROVE  CommentsTypeOK'
  BY <1>5 DEF PostDropped
<1>6. ASSUME NEW c \in CommentIds, NEW u \in Authors \cup {Owner}, DeleteComment(c, u)
      PROVE  CommentsTypeOK'
  BY <1>6 DEF DeleteComment, Replies, Posted
<1>7. CASE CommentsCascade
  BY <1>7 DEF CommentsCascade, VideoRowGone, Posted
<1>8. CASE VideoRowAgain /\ UNCHANGED <<comment, post, deleted>>
  BY <1>8 DEF VideoRowAgain
<1>9. CASE UNCHANGED commentsVars
  BY <1>9 DEF commentsVars
<1> QED
  BY <1>1, <1>2, <1>3, <1>4, <1>5, <1>6, <1>7, <1>8, <1>9 DEF CommentsNext

\* A row of a comment is not NoComment, whatever its text.
LEMMA RowIsPosted ==
    ASSUME NEW r \in Comment
    PROVE  r # NoComment
  BY CommentsAssumption DEF Comment

LEMMA CommentsInvInit == CommentsInit => CommentsInv
<1> SUFFICES ASSUME CommentsInit PROVE CommentsInv
  OBVIOUS
<1>1. Posted = {} /\ deleted = {}
  BY DEF CommentsInit, Posted
<1>2. \A h \in Posters : post[h].pc = "idle"
  BY DEF CommentsInit, IdlePost
<1> QED
  BY <1>1, <1>2, CommentsTypeInit
     DEF CommentsInv, InsertIsFresh, ParentStillTopLevel, InsertsDiffer, RepliesHaveThread,
         DeletedStaysDeleted, CommentsInit, VideoRowInit

\* Creating: the check, and the insert that may come late.
LEMMA CheckKeepsInv ==
    ASSUME CommentsInv, NEW h \in Posters, NEW c \in CommentIds, NEW r \in Comment, CheckParent(h, c, r)
    PROVE  CommentsInv'
<1>1. CommentsTypeOK'
  BY CommentsTypeStep DEF CommentsInv, CommentsNext
<1>2. UNCHANGED <<videoRow, comment, deleted>>
  BY DEF CheckParent
<1>3. Posted' = Posted /\ TopLevel' = TopLevel
  BY <1>2 DEF Posted, TopLevel
<1>4. /\ post'[h] = [pc |-> "insert", comment |-> c, row |-> r]
      /\ \A g \in Posters \ {h} : post'[g] = post[g]
  BY DEF CheckParent, CommentsInv, CommentsTypeOK
<1>5. /\ c \notin Posted \cup deleted
      /\ \A g \in Posters : post[g].pc # "idle" => post[g].comment # c
      /\ r.parent \in TopLevel \cup {NoComment}
  BY DEF CheckParent, Fresh
<1>6. InsertIsFresh' /\ ParentStillTopLevel' /\ InsertsDiffer'
  BY <1>2, <1>3, <1>4, <1>5 DEF CommentsInv, InsertIsFresh, ParentStillTopLevel, InsertsDiffer
<1>7. RepliesHaveThread' /\ DeletedStaysDeleted'
  BY <1>2, <1>3 DEF CommentsInv, RepliesHaveThread, DeletedStaysDeleted
<1> QED
  BY <1>1, <1>6, <1>7 DEF CommentsInv

LEMMA InsertKeepsInv ==
    ASSUME CommentsInv, NEW h \in Posters, Insert(h)
    PROVE  CommentsInv'
<1> DEFINE c == post[h].comment
           r == post[h].row
<1>1. CommentsTypeOK'
  BY CommentsTypeStep DEF CommentsInv, CommentsNext
<1>2. post[h] \in PostSlots /\ post[h].pc = "insert"
  BY DEF Insert, CommentsInv, CommentsTypeOK, PostSlots, IdlePost
<1>3. UNCHANGED <<videoRow, deleted>>
  BY DEF Insert
<1>4. /\ post'[h].pc = "idle"
      /\ \A g \in Posters \ {h} : post'[g] = post[g]
  BY DEF Insert, PostEnds, IdlePost, CommentsInv, CommentsTypeOK
<1>5. InsertsDiffer'
  BY <1>4 DEF CommentsInv, InsertsDiffer
<1>6. CASE videoRow /\ r.parent \in Posted \cup {NoComment}
  <2>1. comment' = [comment EXCEPT ![c] = r]
    BY <1>6 DEF Insert
  <2>2. c \in CommentIds /\ r \in Comment
    BY <1>2 DEF PostSlots
  <2>3. Posted' = Posted \cup {c}
    BY <2>1, <2>2, RowIsPosted DEF Posted, CommentsInv, CommentsTypeOK
  <2>4. c \notin Posted \cup deleted
    BY <1>2 DEF CommentsInv, InsertIsFresh
  <2>5. comment'[c] = r /\ \A d \in Posted : comment'[d] = comment[d]
    BY <2>1, <2>2, <2>4 DEF Posted, CommentsInv, CommentsTypeOK
  <2>6. TopLevel \subseteq TopLevel'
    BY <2>3, <2>5 DEF TopLevel
  <2>7. r.parent \in TopLevel \cup {NoComment}
    BY <1>2, <1>6 DEF CommentsInv, ParentStillTopLevel, DeletedStaysDeleted
  <2>8. RepliesHaveThread'
    BY <2>3, <2>5, <2>6, <2>7 DEF CommentsInv, RepliesHaveThread
  <2>9. DeletedStaysDeleted'
    BY <1>3, <1>6, <2>3, <2>4 DEF CommentsInv, DeletedStaysDeleted
  <2>10. InsertIsFresh'
    BY <1>2, <1>3, <1>4, <2>3 DEF CommentsInv, InsertIsFresh, InsertsDiffer
  <2>11. ParentStillTopLevel'
    BY <1>3, <1>4, <2>6 DEF CommentsInv, ParentStillTopLevel
  <2> QED
    BY <1>1, <1>5, <2>8, <2>9, <2>10, <2>11 DEF CommentsInv
<1>7. CASE ~(videoRow /\ r.parent \in Posted \cup {NoComment})
  <2>1. comment' = comment
    BY <1>7 DEF Insert
  <2>2. Posted' = Posted /\ TopLevel' = TopLevel
    BY <2>1 DEF Posted, TopLevel
  <2>3. InsertIsFresh' /\ ParentStillTopLevel'
    BY <1>3, <1>4, <2>2 DEF CommentsInv, InsertIsFresh, ParentStillTopLevel
  <2>4. RepliesHaveThread' /\ DeletedStaysDeleted'
    BY <1>3, <2>1, <2>2 DEF CommentsInv, RepliesHaveThread, DeletedStaysDeleted
  <2> QED
    BY <1>1, <1>5, <2>3, <2>4 DEF CommentsInv
<1> QED
  BY <1>6, <1>7

\* Editing writes a text and nothing else.
LEMMA EditKeepsInv ==
    ASSUME CommentsInv, NEW h \in Posters,
           \/ PatchWrites(h)
           \/ PostDropped(h)
           \/ \E c \in CommentIds, a \in Authors, text \in Texts : PatchReads(h, c, a, text)
    PROVE  CommentsInv'
<1>1. CommentsTypeOK'
  BY CommentsTypeStep DEF CommentsInv, CommentsNext
<1>2. UNCHANGED <<videoRow, deleted>>
  BY DEF PatchWrites, PostDropped, PatchReads
<1>3. /\ post'[h].pc # "insert"
      /\ \A g \in Posters \ {h} : post'[g] = post[g]
  BY DEF PatchWrites, PostDropped, PatchReads, PostEnds, IdlePost, CommentsInv, CommentsTypeOK
<1>4. Posted' = Posted /\ \A c \in Posted : comment'[c].parent = comment[c].parent
  <2>1. CASE PatchWrites(h)
    <3> DEFINE c == post[h].comment
    <3>1. CASE c \in Posted
      <4>1. comment' = [comment EXCEPT ![c].text = post[h].row.text]
        BY <2>1, <3>1 DEF PatchWrites
      <4>2. c \in CommentIds /\ comment[c] \in Comment /\ comment \in [CommentIds -> Comment \cup {NoComment}]
        BY <3>1 DEF Posted, CommentsInv, CommentsTypeOK
      <4>3. comment'[c].parent = comment[c].parent
        BY <4>1, <4>2 DEF Comment
      <4>4. comment'[c] # NoComment
        <5>1. post[h] \in PostSlots
          BY <2>1 DEF PatchWrites, CommentsInv, CommentsTypeOK, PostSlots, IdlePost
        <5>2. comment'[c] \in Comment
          BY <4>1, <4>2, <5>1 DEF PostSlots, Comment
        <5> QED
          BY <5>2, RowIsPosted
      <4>5. \A d \in CommentIds \ {c} : comment'[d] = comment[d]
        BY <4>1, <4>2
      <4> QED
        BY <3>1, <4>2, <4>3, <4>4, <4>5 DEF Posted
    <3>2. CASE c \notin Posted
      BY <2>1, <3>2 DEF PatchWrites, Posted
    <3> QED
      BY <3>1, <3>2
  <2>2. CASE ~PatchWrites(h)
    <3>1. comment' = comment
      BY <2>2 DEF PostDropped, PatchReads
    <3> QED
      BY <3>1 DEF Posted
  <2> QED
    BY <2>1, <2>2
<1>5. TopLevel' = TopLevel
  BY <1>4 DEF TopLevel
<1>6. InsertIsFresh' /\ ParentStillTopLevel' /\ InsertsDiffer'
  BY <1>2, <1>3, <1>4, <1>5 DEF CommentsInv, InsertIsFresh, ParentStillTopLevel, InsertsDiffer
<1>7. RepliesHaveThread' /\ DeletedStaysDeleted'
  BY <1>2, <1>4, <1>5 DEF CommentsInv, RepliesHaveThread, DeletedStaysDeleted
<1> QED
  BY <1>1, <1>6, <1>7 DEF CommentsInv

\* Deleting takes a set of comments away that has the replies of each of them.
LEMMA DeletionKeepsInv ==
    ASSUME CommentsInv, NEW gone \in SUBSET Posted,
           \A c \in gone : Replies(c) \subseteq gone,
           comment' = Without(gone), deleted' = deleted \cup gone, UNCHANGED post,
           videoRow' = videoRow \/ gone = Posted,
           CommentsTypeOK'
    PROVE  CommentsInv'
<1>1. Posted' = Posted \ gone /\ \A c \in Posted' : comment'[c] = comment[c]
  BY DEF Posted, Without
<1>2. TopLevel' = TopLevel \ gone
  BY <1>1 DEF TopLevel
<1>3. InsertIsFresh' /\ InsertsDiffer'
  BY <1>1 DEF CommentsInv, InsertIsFresh, InsertsDiffer
<1>4. ParentStillTopLevel'
  BY <1>2 DEF CommentsInv, ParentStillTopLevel
<1>5. RepliesHaveThread'
  <2> SUFFICES ASSUME NEW c \in Posted' PROVE comment[c].parent \in TopLevel' \cup {NoComment}
    BY <1>1 DEF RepliesHaveThread
  <2>1. c \in Posted \ gone
    BY <1>1
  <2>2. comment[c].parent \in TopLevel \cup {NoComment}
    BY <2>1 DEF CommentsInv, RepliesHaveThread
  <2>3. comment[c].parent \notin gone
    BY <2>1 DEF Replies
  <2> QED
    BY <1>2, <2>2, <2>3
<1>6. DeletedStaysDeleted'
  BY <1>1 DEF CommentsInv, DeletedStaysDeleted
<1> QED
  BY <1>3, <1>4, <1>5, <1>6 DEF CommentsInv

LEMMA CommentsInvStep ==
    ASSUME CommentsInv, [CommentsNext]_commentsVars
    PROVE  CommentsInv'
<1>0. CommentsTypeOK'
  BY CommentsTypeStep DEF CommentsInv
<1>1. ASSUME NEW h \in Posters, NEW c \in CommentIds, NEW r \in Comment, CheckParent(h, c, r)
      PROVE  CommentsInv'
  BY <1>1, CheckKeepsInv
<1>2. ASSUME NEW h \in Posters, Insert(h)
      PROVE  CommentsInv'
  BY <1>2, InsertKeepsInv
<1>3. ASSUME NEW h \in Posters,
             \/ PatchWrites(h)
             \/ PostDropped(h)
             \/ \E c \in CommentIds, a \in Authors, text \in Texts : PatchReads(h, c, a, text)
      PROVE  CommentsInv'
  BY <1>3, EditKeepsInv
<1>4. ASSUME NEW c \in CommentIds, NEW u \in Authors \cup {Owner}, DeleteComment(c, u)
      PROVE  CommentsInv'
  <2> DEFINE gone == {c} \cup Replies(c)
  <2>1. gone \in SUBSET Posted
    BY <1>4 DEF DeleteComment, Replies
  <2>2. \A d \in gone : Replies(d) \subseteq gone
    <3> SUFFICES ASSUME NEW d \in Replies(c) PROVE Replies(d) = {}
      OBVIOUS
    <3>1. d \in Posted /\ comment[d].parent = c /\ c # NoComment
      BY <2>1, CommentsAssumption DEF Replies
    <3>2. d \notin TopLevel
      BY <3>1 DEF TopLevel
    <3>3. d # NoComment
      BY <3>1, CommentsAssumption DEF Posted
    <3> QED
      BY <3>2, <3>3 DEF CommentsInv, RepliesHaveThread, Replies
  <2>3. comment' = Without(gone) /\ deleted' = deleted \cup gone /\ UNCHANGED <<videoRow, post>>
    BY <1>4 DEF DeleteComment
  <2> QED
    BY <1>0, <2>1, <2>2, <2>3, DeletionKeepsInv
<1>5. CASE CommentsCascade
  BY <1>0, <1>5, DeletionKeepsInv DEF CommentsCascade, Replies
<1>6. CASE VideoRowAgain /\ UNCHANGED <<comment, post, deleted>>
  BY <1>0, <1>6
     DEF VideoRowAgain, CommentsInv, InsertIsFresh, ParentStillTopLevel, InsertsDiffer,
         RepliesHaveThread, DeletedStaysDeleted, Posted, TopLevel
<1>7. CASE UNCHANGED commentsVars
  BY <1>0, <1>7
     DEF commentsVars, CommentsInv, InsertIsFresh, ParentStillTopLevel, InsertsDiffer,
         RepliesHaveThread, DeletedStaysDeleted, Posted, TopLevel
<1> QED
  BY <1>1, <1>2, <1>3, <1>4, <1>5, <1>6, <1>7 DEF CommentsNext

\* The inductive invariant of the comments (create, edit, delete and the
\* cascades of collaboration.rs) holds in every reachable state.
THEOREM CommentsCorrect == CommentsSpec => []CommentsInv
  BY CommentsInvInit, CommentsInvStep, PTL DEF CommentsSpec

\* Every reply has its thread, and threads are one level deep, although the
\* parent is looked up in a statement of its own: for any number of comments and
\* of concurrent requests.
THEOREM ThreadsCorrect == CommentsSpec => []RepliesHaveThread
<1>1. CommentsInv => RepliesHaveThread
  BY DEF CommentsInv
<1> QED
  BY <1>1, CommentsCorrect, PTL

\* No edit or reply that was under way brings a deleted comment back, and none
\* outlives the recording.
THEOREM DeletionIsFinal == CommentsSpec => []DeletedStaysDeleted
<1>1. CommentsInv => DeletedStaysDeleted
  BY DEF CommentsInv
<1> QED
  BY <1>1, CommentsCorrect, PTL
-----------------------------------------------------------------------------
(* Reactions and views.  What an unchanged toggle has seen is what there is *)
(* and a recording that went away has changed every toggle under way.      *)

SnapshotHolds ==
    \A t \in Togglers : toggle[t].pc # "idle" /\ toggle[t].same =>
        videoRow /\ (toggle[t].seen <=> toggle[t].mark \in active)

ReactionsInv ==
    ReactionsTypeOK /\ SnapshotHolds /\ CountedOnce /\ NothingOutlivesVideo

ToggleSlots == [pc : {"apply"}, mark : Marks, seen : BOOLEAN, same : BOOLEAN]
WatchSlots == [pc : {"insert"}, browser : Browsers, visitor : Visitors, first : BOOLEAN]
ToggleTypes == active \subseteq Marks /\ toggle \in [Togglers -> {IdleToggle} \cup ToggleSlots]
ViewTypes ==
    /\ view \subseteq Visitors \X (0..day)
    /\ cookie \in [Browsers -> Visitors \cup {NoVisitor}]
    /\ watch \in [Watchers -> {IdleWatch} \cup WatchSlots]
    /\ day \in 0..LastDay
    /\ counted \in [Visitors \X (0..LastDay) -> Nat]

LEMMA ReactionsTypeParts == ReactionsTypeOK <=> videoRow \in BOOLEAN /\ ToggleTypes /\ ViewTypes
  BY DEF ReactionsTypeOK, ToggleTypes, ViewTypes, ToggleSlots, WatchSlots

LEMMA ReactionsInvInit == ReactionsInit => ReactionsInv
<1> SUFFICES ASSUME ReactionsInit PROVE ReactionsInv
  OBVIOUS
<1>1. ToggleTypes /\ SnapshotHolds
  BY DEF ReactionsInit, ToggleTypes, SnapshotHolds, IdleToggle
<1>2. ViewTypes /\ CountedOnce /\ NothingOutlivesVideo
  BY ReactionsAssumption DEF ReactionsInit, ViewTypes, CountedOnce, NothingOutlivesVideo
<1> QED
  BY <1>1, <1>2, ReactionsTypeParts DEF ReactionsInv, ReactionsInit, VideoRowInit

\* A snapshot that is out of date is a toggle as before.
LEMMA OutOfDate ==
    ASSUME NEW s \in ToggleSlots
    PROVE  /\ [s EXCEPT !.same = FALSE] \in ToggleSlots
           /\ ~[s EXCEPT !.same = FALSE].same
           /\ [s EXCEPT !.same = FALSE].pc # "idle"
  BY DEF ToggleSlots

\* A toggle that is applied, and what the others know after it.
LEMMA ApplyFacts ==
    ASSUME ReactionsInv, NEW t \in Togglers, ToggleApply(t)
    PROVE  /\ toggle[t] \in ToggleSlots
           /\ toggle'[t] = IdleToggle
           /\ UNCHANGED <<videoRow, viewVars>>
           /\ \/ active' = active
              \/ /\ active' \in {active \cup {toggle[t].mark}, active \ {toggle[t].mark}}
                 /\ (toggle[t].seen /\ toggle[t].same) \/ videoRow
           /\ toggle[t].same => toggle[t].mark \in active' <=> ~(toggle[t].mark \in active)
           /\ \A x \in Togglers \ {t} :
                \/ toggle'[x] = toggle[x] /\ (toggle[x].pc # "idle" /\ toggle[x].mark = toggle[t].mark => active' = active)
                \/ toggle[x].pc # "idle" /\ toggle'[x] = [toggle[x] EXCEPT !.same = FALSE]
<1> DEFINE m == toggle[t].mark
<1>1. toggle \in [Togglers -> {IdleToggle} \cup ToggleSlots]
  BY ReactionsTypeParts DEF ReactionsInv, ToggleTypes
<1>2. toggle[t] \in ToggleSlots
  BY <1>1 DEF ToggleApply, IdleToggle
<1>3. UNCHANGED <<videoRow, viewVars>>
  BY DEF ToggleApply
<1>4. CASE Removes(t) \/ Inserts(t)
  <2>1. active' = (IF Removes(t) THEN active \ {m} ELSE active \cup {m}) /\ ToggleChanges(t, m)
    BY <1>4 DEF ToggleApply
  <2>2. toggle[t].same => m \in active' <=> ~(m \in active)
    BY <1>2, <1>4, <2>1 DEF Removes, Inserts, ReactionsInv, SnapshotHolds, ToggleSlots
  <2> QED
    BY <1>2, <1>3, <1>4, <2>1, <2>2 DEF ToggleChanges, Removes, Inserts
<1>5. CASE ~(Removes(t) \/ Inserts(t))
  <2>1. active' = active /\ toggle' = [toggle EXCEPT ![t] = IdleToggle]
    BY <1>5 DEF ToggleApply
  <2>2. ~toggle[t].same
    BY <1>2, <1>5 DEF Removes, Inserts, ReactionsInv, SnapshotHolds, ToggleSlots
  <2> QED
    BY <1>1, <1>2, <1>3, <2>1, <2>2
<1> QED
  BY <1>4, <1>5

LEMMA ToggleKeepsInv ==
    ASSUME ReactionsInv, NEW t \in Togglers,
           ToggleApply(t) \/ \E m \in Marks : ToggleBegin(t, m)
    PROVE  ReactionsInv'
<1>0. /\ ToggleTypes /\ ViewTypes /\ videoRow \in BOOLEAN
      /\ SnapshotHolds /\ CountedOnce /\ NothingOutlivesVideo
  BY ReactionsTypeParts DEF ReactionsInv
<1>1. UNCHANGED <<videoRow, viewVars>>
  BY DEF ToggleApply, ToggleBegin
<1>2. ViewTypes' /\ CountedOnce'
  BY <1>0, <1>1 DEF viewVars, ViewTypes, CountedOnce
<1>3. CASE ToggleApply(t)
  <2>1. /\ toggle[t] \in ToggleSlots
        /\ toggle'[t] = IdleToggle
        /\ \/ active' = active
           \/ /\ active' \in {active \cup {toggle[t].mark}, active \ {toggle[t].mark}}
              /\ (toggle[t].seen /\ toggle[t].same) \/ videoRow
        /\ \A x \in Togglers \ {t} :
             \/ toggle'[x] = toggle[x] /\ (toggle[x].pc # "idle" /\ toggle[x].mark = toggle[t].mark => active' = active)
             \/ toggle[x].pc # "idle" /\ toggle'[x] = [toggle[x] EXCEPT !.same = FALSE]
    BY <1>3, ApplyFacts
  <2>2. \A x \in Togglers \ {t} :
            toggle[x].pc # "idle" => [toggle[x] EXCEPT !.same = FALSE] \in ToggleSlots
    <3> SUFFICES ASSUME NEW x \in Togglers, toggle[x].pc # "idle"
                 PROVE  [toggle[x] EXCEPT !.same = FALSE] \in ToggleSlots
      OBVIOUS
    <3>1. toggle[x] \in ToggleSlots
      BY <1>0 DEF ToggleTypes, IdleToggle
    <3> QED
      BY <3>1, OutOfDate
  <2>3. toggle' \in [Togglers -> {IdleToggle} \cup ToggleSlots]
    <3>1. toggle' = [x \in Togglers |-> toggle'[x]]
      <4>1. CASE ToggleChanges(t, toggle[t].mark)
        BY <4>1 DEF ToggleChanges
      <4>2. CASE toggle' = [toggle EXCEPT ![t] = IdleToggle]
        BY <1>0, <4>2 DEF ToggleTypes
      <4> QED
        BY <1>3, <4>1, <4>2 DEF ToggleApply
    <3>2. \A x \in Togglers : toggle'[x] \in {IdleToggle} \cup ToggleSlots
      BY <1>0, <2>1, <2>2 DEF ToggleTypes
    <3> QED
      BY <3>1, <3>2
  <2>4. ToggleTypes'
    BY <1>0, <2>1, <2>3 DEF ToggleTypes, ToggleSlots
  <2>5. SnapshotHolds'
    <3> SUFFICES ASSUME NEW x \in Togglers, toggle'[x].pc # "idle", toggle'[x].same
                 PROVE  videoRow' /\ (toggle'[x].seen <=> toggle'[x].mark \in active')
      BY DEF SnapshotHolds
    <3>1. x # t
      BY <2>1 DEF IdleToggle
    <3>2. toggle'[x] = toggle[x]
      <4>1. toggle[x].pc # "idle" => ~[toggle[x] EXCEPT !.same = FALSE].same
        BY <1>0, <3>1 DEF ToggleTypes, ToggleSlots, IdleToggle
      <4> QED
        BY <2>1, <3>1, <4>1
    <3>3. CASE toggle[x].mark = toggle[t].mark
      <4>1. active' = active
        <5>1. toggle[x].pc # "idle" /\ toggle[x].same
          BY <3>2
        <5>2. toggle[x] # [toggle[x] EXCEPT !.same = FALSE]
          BY <1>0, <3>1, <5>1 DEF ToggleTypes, ToggleSlots, IdleToggle
        <5> QED
          BY <2>1, <3>1, <3>2, <3>3, <5>2
      <4> QED
        BY <1>0, <1>1, <3>2, <4>1 DEF SnapshotHolds
    <3>4. CASE toggle[x].mark # toggle[t].mark
      <4>1. toggle[x].mark \in active' <=> toggle[x].mark \in active
        BY <2>1, <3>4
      <4> QED
        BY <1>0, <1>1, <3>2, <4>1 DEF SnapshotHolds
    <3> QED
      BY <3>3, <3>4
  <2>6. NothingOutlivesVideo'
    <3>1. ~videoRow => active' = active
      BY <1>0, <2>1 DEF SnapshotHolds, ToggleSlots, NothingOutlivesVideo
    <3> QED
      BY <1>0, <1>1, <3>1 DEF viewVars, NothingOutlivesVideo
  <2> QED
    BY <1>0, <1>1, <1>2, <2>4, <2>5, <2>6, ReactionsTypeParts DEF ReactionsInv, ReactionsTypeOK, ToggleTypes, ViewTypes, ToggleSlots, WatchSlots
<1>4. ASSUME NEW m \in Marks, ToggleBegin(t, m)
      PROVE  ReactionsInv'
  <2>1. [pc |-> "apply", mark |-> m, seen |-> m \in active, same |-> TRUE] \in ToggleSlots
    BY DEF ToggleSlots
  <2>2. ToggleTypes'
    BY <1>0, <1>4, <2>1 DEF ToggleBegin, ToggleTypes
  <2>3. SnapshotHolds'
    <3>1. /\ toggle'[t] = [pc |-> "apply", mark |-> m, seen |-> m \in active, same |-> TRUE]
          /\ \A x \in Togglers \ {t} : toggle'[x] = toggle[x]
          /\ active' = active /\ videoRow /\ videoRow' = videoRow
      BY <1>0, <1>4 DEF ToggleBegin, ToggleTypes
    <3>2. videoRow' /\ (toggle'[t].seen <=> toggle'[t].mark \in active')
      <4>1. toggle'[t].mark = m
        BY <3>1
      <4>2. toggle'[t].seen = (m \in active)
        BY <3>1
      <4> QED
        BY <3>1, <4>1, <4>2, Zenon
    <3> QED
      BY <1>0, <3>1, <3>2 DEF SnapshotHolds
  <2>4. NothingOutlivesVideo'
    BY <1>0, <1>1, <1>4 DEF ToggleBegin, viewVars, NothingOutlivesVideo
  <2> QED
    BY <1>0, <1>1, <1>2, <2>2, <2>3, <2>4 DEF ReactionsInv, ReactionsTypeOK, ToggleTypes, ViewTypes, ToggleSlots, WatchSlots
<1> QED
  BY <1>3, <1>4

LEMMA ViewKeepsInv ==
    ASSUME ReactionsInv,
           \/ \E w \in Watchers :
                \/ \E b \in Browsers, v \in Visitors : WatchBegin(w, b, v)
                \/ WatchInsert(w) \/ WatchDropped(w)
           \/ Midnight
    PROVE  ReactionsInv'
<1>0. /\ ToggleTypes /\ ViewTypes /\ videoRow \in BOOLEAN
      /\ SnapshotHolds /\ CountedOnce /\ NothingOutlivesVideo
  BY ReactionsTypeParts DEF ReactionsInv
<1>1. UNCHANGED <<videoRow, reactionVars>>
  BY DEF WatchBegin, WatchInsert, WatchDropped, Midnight
<1>2. ToggleTypes' /\ SnapshotHolds'
  BY <1>0, <1>1 DEF reactionVars, ToggleTypes, SnapshotHolds
<1>3. ASSUME NEW w \in Watchers, NEW b \in Browsers, NEW v \in Visitors, WatchBegin(w, b, v)
      PROVE  ViewTypes' /\ CountedOnce' /\ NothingOutlivesVideo'
  <2>1. [pc |-> "insert", browser |-> b, visitor |-> v, first |-> cookie[b] = NoVisitor] \in WatchSlots
    BY DEF WatchSlots
  <2> QED
    BY <1>0, <1>1, <1>3, <2>1 DEF WatchBegin, reactionVars, ViewTypes, CountedOnce, NothingOutlivesVideo
<1>4. ASSUME NEW w \in Watchers, WatchInsert(w)
      PROVE  ViewTypes' /\ CountedOnce' /\ NothingOutlivesVideo'
  <2> DEFINE key == <<watch[w].visitor, day>>
  <2>1. watch[w] \in WatchSlots
    BY <1>0, <1>4 DEF WatchInsert, ViewTypes, IdleWatch
  <2>2. key \in Visitors \X (0..day) /\ key \in Visitors \X (0..LastDay) /\ day \in 0..LastDay /\ day' = day
    BY <1>0, <1>4, <2>1, ReactionsAssumption DEF WatchInsert, ViewTypes, WatchSlots
  <2>3. cookie' \in [Browsers -> Visitors \cup {NoVisitor}] /\ watch' \in [Watchers -> {IdleWatch} \cup WatchSlots]
    BY <1>0, <1>4, <2>1 DEF WatchInsert, WatchEnds, ViewTypes, WatchSlots
  <2>4. CASE videoRow /\ key \notin view
    <3>1. view' = view \cup {key} /\ counted' = [counted EXCEPT ![key] = @ + 1]
      BY <1>4, <2>4 DEF WatchInsert, Counted
    <3>2. counted[key] = 0
      BY <1>0, <2>2, <2>4 DEF CountedOnce, ViewTypes
    <3>3. CountedOnce'
      BY <1>0, <2>2, <3>1, <3>2 DEF CountedOnce, ViewTypes
    <3>4. ViewTypes'
      BY <1>0, <2>2, <2>3, <3>1, <3>2 DEF ViewTypes
    <3> QED
      BY <1>0, <1>1, <2>4, <3>3, <3>4 DEF NothingOutlivesVideo
  <2>5. CASE ~(videoRow /\ key \notin view)
    <3>1. UNCHANGED <<view, counted>>
      BY <1>4, <2>5 DEF WatchInsert
    <3> QED
      BY <1>0, <1>1, <2>2, <2>3, <3>1 DEF reactionVars, ViewTypes, CountedOnce, NothingOutlivesVideo
  <2> QED
    BY <2>4, <2>5
<1>5. ASSUME NEW w \in Watchers, WatchDropped(w)
      PROVE  ViewTypes' /\ CountedOnce' /\ NothingOutlivesVideo'
  BY <1>0, <1>1, <1>5 DEF WatchDropped, WatchEnds, reactionVars, ViewTypes, CountedOnce, NothingOutlivesVideo
<1>6. ASSUME Midnight
      PROVE  ViewTypes' /\ CountedOnce' /\ NothingOutlivesVideo'
  <2>1. day' \in 0..LastDay /\ 0..day \subseteq 0..day'
    BY <1>0, <1>6, ReactionsAssumption DEF Midnight, ViewTypes
  <2>2. view' \subseteq Visitors \X (0..day')
    BY <1>0, <1>6, <2>1 DEF Midnight, ViewTypes
  <2> QED
    BY <1>0, <1>1, <1>6, <2>1, <2>2 DEF Midnight, reactionVars, ViewTypes, CountedOnce, NothingOutlivesVideo
<1> QED
  BY <1>0, <1>1, <1>2, <1>3, <1>4, <1>5, <1>6
     DEF ReactionsInv, ReactionsTypeOK, ToggleTypes, ViewTypes, ToggleSlots, WatchSlots

LEMMA CascadeKeepsInv ==
    ASSUME ReactionsInv, ReactionsCascade
    PROVE  ReactionsInv'
<1>0. ToggleTypes /\ ViewTypes /\ SnapshotHolds
  BY ReactionsTypeParts DEF ReactionsInv
<1>1. /\ ~videoRow' /\ active' = {} /\ view' = {} /\ UNCHANGED <<cookie, watch, day>>
      /\ counted' = [k \in Visitors \X (0..LastDay) |-> 0]
  BY <1>0 DEF ReactionsCascade, VideoRowGone, ViewTypes
<1>2. ViewTypes' /\ CountedOnce' /\ NothingOutlivesVideo'
  BY <1>0, <1>1 DEF ViewTypes, CountedOnce, NothingOutlivesVideo
<1>3. \A t \in Togglers : /\ toggle'[t] \in {IdleToggle} \cup ToggleSlots
                          /\ toggle'[t].pc # "idle" => ~toggle'[t].same
  <2> SUFFICES ASSUME NEW t \in Togglers
               PROVE  /\ toggle'[t] \in {IdleToggle} \cup ToggleSlots
                      /\ toggle'[t].pc # "idle" => ~toggle'[t].same
    OBVIOUS
  <2>1. CASE toggle[t].pc = "idle"
    BY <2>1 DEF ReactionsCascade, IdleToggle
  <2>2. CASE toggle[t].pc # "idle"
    <3>1. toggle[t] \in ToggleSlots
      BY <1>0, <2>2 DEF ToggleTypes, IdleToggle
    <3>2. toggle'[t] = [toggle[t] EXCEPT !.same = FALSE]
      BY <2>2 DEF ReactionsCascade
    <3> QED
      BY <3>1, <3>2, OutOfDate
  <2> QED
    BY <2>1, <2>2
<1>4. toggle' \in [Togglers -> {IdleToggle} \cup ToggleSlots]
  BY <1>3 DEF ReactionsCascade
<1>5. ToggleTypes' /\ SnapshotHolds'
  BY <1>1, <1>3, <1>4 DEF ToggleTypes, SnapshotHolds
<1> QED
  BY <1>1, <1>2, <1>5 DEF ReactionsInv, ReactionsTypeOK, ToggleTypes, ViewTypes, ToggleSlots, WatchSlots,
                          ReactionsCascade, VideoRowGone

LEMMA ReactionsInvStep ==
    ASSUME ReactionsInv, [ReactionsNext]_reactionsVars
    PROVE  ReactionsInv'
<1>1. CASE VideoRowAgain /\ UNCHANGED <<reactionVars, viewVars>>
  BY <1>1 DEF VideoRowAgain, reactionVars, viewVars, ReactionsInv, ReactionsTypeOK, SnapshotHolds,
              CountedOnce, NothingOutlivesVideo
<1>2. CASE UNCHANGED reactionsVars
  BY <1>2 DEF reactionsVars, reactionVars, viewVars, ReactionsInv, ReactionsTypeOK, SnapshotHolds,
              CountedOnce, NothingOutlivesVideo
<1> QED
  BY <1>1, <1>2, ToggleKeepsInv, ViewKeepsInv, CascadeKeepsInv DEF ReactionsNext

\* The inductive invariant of the reactions and views (toggle_reaction and
\* record_view) holds in every reachable state.
THEOREM ReactionsCorrect == ReactionsSpec => []ReactionsInv
  BY ReactionsInvInit, ReactionsInvStep, PTL DEF ReactionsSpec

\* A visitor's view of a day is counted once, and the total is what the answers
\* said, for any number of browsers, reports and days.
THEOREM ViewsCountedOnce == ReactionsSpec => []CountedOnce
<1>1. ReactionsInv => CountedOnce
  BY DEF ReactionsInv
<1> QED
  BY <1>1, ReactionsCorrect, PTL

\* Neither a toggle nor a view leaves a row of a recording that is gone.
THEOREM RowsGoWithVideo == ReactionsSpec => []NothingOutlivesVideo
<1>1. ReactionsInv => NothingOutlivesVideo
  BY DEF ReactionsInv
<1> QED
  BY <1>1, ReactionsCorrect, PTL

LEMMA FlipStep ==
    ASSUME ReactionsInv, [ReactionsNext]_reactionsVars, NEW t \in Togglers,
           toggle[t].pc # "idle", toggle[t].same, toggle'[t].pc = "idle"
    PROVE  (toggle[t].mark \in active') = ~(toggle[t].mark \in active)
<1>0. ToggleTypes
  BY ReactionsTypeParts DEF ReactionsInv
<1>1. CASE ToggleApply(t)
  BY <1>1, ApplyFacts
<1>2. ASSUME NEW x \in Togglers \ {t}, ToggleApply(x)
      PROVE  FALSE
  <2>1. toggle[t] \in ToggleSlots
    BY <1>0 DEF ToggleTypes, IdleToggle
  <2>2. toggle'[t] \in {toggle[t], [toggle[t] EXCEPT !.same = FALSE]}
    BY <1>2, ApplyFacts
  <2> QED
    BY <2>1, <2>2, OutOfDate
<1>3. ASSUME NEW x \in Togglers, NEW m \in Marks, ToggleBegin(x, m)
      PROVE  FALSE
  BY <1>3, ReactionsTypeParts DEF ReactionsInv, ToggleTypes, ToggleBegin
<1>4. CASE ReactionsCascade
  <2>1. toggle[t] \in ToggleSlots
    BY <1>0 DEF ToggleTypes, IdleToggle
  <2>2. toggle'[t] = [toggle[t] EXCEPT !.same = FALSE]
    BY <1>4 DEF ReactionsCascade
  <2> QED
    BY <2>1, <2>2, OutOfDate
<1>5. CASE UNCHANGED toggle
  BY <1>5
<1> QED
  BY <1>1, <1>2, <1>3, <1>4, <1>5
     DEF ReactionsNext, WatchBegin, WatchInsert, WatchDropped, Midnight, reactionVars, reactionsVars

\* A toggle that no other one overlaps turns the reaction on or off.
THEOREM LoneTogglesFlip == ReactionsSpec => LoneToggleFlips
<1>1. ReactionsInv /\ [ReactionsNext]_reactionsVars =>
        [\A t \in Togglers : toggle[t].pc # "idle" /\ toggle[t].same /\ toggle'[t].pc = "idle"
           => (toggle[t].mark \in active') = ~(toggle[t].mark \in active)]_reactionsVars
  BY FlipStep
<1> QED
  BY <1>1, ReactionsCorrect, PTL DEF ReactionsSpec, LoneToggleFlips
-----------------------------------------------------------------------------
(* Captions.  What a transaction has locked nobody else has; a caption that *)
(* is being created nobody else knows; and who is about to commit a default *)
(* has cleared every other one and is alone in it.                          *)

BeginSlots == [pc : {"begin"}, caption : CaptionIds, new : {FALSE}, row : Row]
TxSlots == [pc : {"clear", "commit"}, caption : CaptionIds, new : BOOLEAN, row : Row,
            todo : SUBSET CaptionIds, cleared : SUBSET CaptionIds]
EditSlots == {IdleEdit} \cup BeginSlots \cup TxSlots

\* What a transaction in state x holds, and whether it commits a default.
HeldBy(x) ==
    IF x.pc \notin {"clear", "commit"} THEN {}
    ELSE x.cleared \cup (IF x.pc = "commit" THEN {x.caption} ELSE {})
CommitsDefault(x) == x.pc = "commit" /\ x.row.default
Creates(x) == x.pc # "idle" /\ x.new
Removing(d) == remove[d].pc \in {"rename", "commit", "moved"}

\* What a transaction in state x of slot e may rely on.
EditFits(e, x) ==
    /\ Creates(x) => x.caption \notin known
    /\ x.pc # "idle" => \A f \in Editors \ {e} :
           edit[f].pc # "idle" /\ (x.new \/ edit[f].new) => edit[f].caption # x.caption
    /\ x.pc \in {"clear", "commit"} =>
           /\ x.cleared \subseteq Rows
           /\ x.pc = "commit" /\ ~x.new => x.caption \in Rows
           /\ ~x.row.default => x.todo = {} /\ x.cleared = {}
    /\ \A c \in HeldBy(x) : FreeFor(e, c)
    /\ CommitsDefault(x) =>
           /\ Defaults \subseteq x.cleared \cup {x.caption}
           /\ \A f \in Editors \ {e} : ~CommitsDefault(edit[f])

EditsFit == \A e \in Editors : EditFits(e, edit[e])

RemovesFit ==
    \A d \in Removers :
        /\ remove[d].pc = "idle" => remove[d].caption = NoCaption
        /\ Removing(d) =>
             /\ remove[d].caption \in Rows
             /\ \A f \in Removers \ {d} : Removing(f) => remove[f].caption # remove[d].caption
        /\ remove[d].pc \in {"commit", "moved"} => remove[d].caption \notin vtt \ late
        /\ CutOff(d) => remove[d].caption \in uploaded

OneAtMost == \A c, d \in Defaults : c = d

CaptionsInv ==
    /\ CaptionsTypeOK
    /\ Rows \subseteq known
    /\ EditsFit /\ RemovesFit /\ OneAtMost
    /\ RowKeepsVtt /\ DeletedLeavesNothing

LEMMA HoldsIsHeldBy ==
    ASSUME NEW e \in Editors
    PROVE  Holds(e) = HeldBy(edit[e])
  BY DEF Holds, HeldBy, InTx

\* A remover that holds a caption is one that is removing it.
LEMMA HolderIsRemoving ==
    ASSUME CaptionsTypeOK, RemovesFit, NEW c \in CaptionIds
    PROVE  RemoverHolds(c) <=> \E d \in Removers : Removing(d) /\ remove[d].caption = c
<1>1. ASSUME NEW d \in Removers, remove[d].caption = c
      PROVE  remove[d].pc \notin {"orphan", "restore", "purge"} <=> Removing(d)
  <2>1. remove[d].pc \in {"idle", "rename", "commit", "moved", "orphan", "restore", "purge"}
    BY DEF CaptionsTypeOK
  <2>2. remove[d].pc # "idle"
    BY <1>1, CaptionsAssumption DEF RemovesFit
  <2> QED
    BY <2>1, <2>2 DEF Removing
<1> QED
  BY <1>1 DEF RemoverHolds, Removing

LEMMA CaptionsInvInit == CaptionsInit => CaptionsInv
<1> SUFFICES ASSUME CaptionsInit PROVE CaptionsInv
  OBVIOUS
<1>1. Rows = {} /\ Defaults = {}
  BY DEF CaptionsInit, Rows, Defaults
<1>2. CaptionsTypeOK
  BY CaptionsAssumption DEF CaptionsInit, CaptionsTypeOK, NoRemove
<1>3. EditsFit
  BY DEF CaptionsInit, EditsFit, EditFits, Creates, CommitsDefault, HeldBy, IdleEdit
<1>4. RemovesFit
  BY DEF CaptionsInit, RemovesFit, Removing, CutOff, NoRemove
<1> QED
  BY <1>1, <1>2, <1>3, <1>4
     DEF CaptionsInv, OneAtMost, RowKeepsVtt, DeletedLeavesNothing, CaptionsInit

\* A transaction goes on, and nothing is committed.
LEMMA EditChangesKeepsInv ==
    ASSUME CaptionsInv, NEW e \in Editors, NEW x \in EditSlots,
           edit' = [edit EXCEPT ![e] = x], EditFits(e, x),
           UNCHANGED <<caption, remove, vtt, known, uploaded, torn, late>>,
           captionFaults' \in 0..CaptionFaults
    PROVE  CaptionsInv'
<1>1. edit'[e] = x /\ \A f \in Editors \ {e} : edit'[f] = edit[f]
  BY DEF CaptionsInv, CaptionsTypeOK
<1>2. CaptionsTypeOK'
  BY DEF CaptionsInv, CaptionsTypeOK, EditSlots, BeginSlots, TxSlots, CutOff
<1>3. Rows' = Rows /\ Defaults' = Defaults
  BY DEF Rows, Defaults
<1>4. \A c : RemoverHolds(c)' = RemoverHolds(c)
  BY DEF RemoverHolds
<1>5. \A f \in Editors : Holds(f)' = HeldBy(edit'[f])
  BY DEF Holds, HeldBy, InTx
<1>6. \A f \in Editors : Holds(f) = HeldBy(edit[f])
  BY HoldsIsHeldBy
<1>7. ASSUME NEW f \in Editors
      PROVE  EditFits(f, edit[f])' 
  <2>0. EditFits(f, edit[f])
    BY DEF CaptionsInv, EditsFit
  <2>1. CASE f = e
    <3>1. \A c \in HeldBy(x) : FreeFor(e, c)'
      BY <1>1, <1>4, <1>5, <1>6 DEF FreeFor, EditFits
    <3> QED
      BY <2>1, <1>1, <1>3, <3>1 DEF EditFits, HeldBy, Creates, CommitsDefault
  <2>2. CASE f # e
    <3>1. \A c \in HeldBy(edit[f]) : FreeFor(f, c)'
      <4> SUFFICES ASSUME NEW c \in HeldBy(edit[f]) PROVE FreeFor(f, c)'
        OBVIOUS
      <4>1. FreeFor(f, c)
        BY <2>0 DEF EditFits
      <4>2. c \notin HeldBy(x)
        BY <1>6, <2>2 DEF EditFits, FreeFor
      <4> QED
        BY <1>1, <1>4, <1>5, <1>6, <4>1, <4>2 DEF FreeFor
    <3>2. \A g \in Editors \ {f} :
             edit'[g].pc # "idle" /\ (edit[f].new \/ edit'[g].new) /\ edit[f].pc # "idle"
                 => edit'[g].caption # edit[f].caption
      BY <1>1, <2>0, <2>2 DEF EditFits
    <3>3. CommitsDefault(edit[f]) => \A g \in Editors \ {f} : ~CommitsDefault(edit'[g])
      BY <1>1, <2>0, <2>2 DEF EditFits
    <3> QED
      BY <1>1, <1>3, <2>0, <2>2, <3>1, <3>2, <3>3 DEF EditFits, HeldBy, Creates, CommitsDefault
  <2> QED
    BY <2>1, <2>2
<1>8. RemovesFit'
  BY <1>3 DEF CaptionsInv, RemovesFit, Removing, CutOff
<1>9. OneAtMost' /\ RowKeepsVtt' /\ DeletedLeavesNothing'
  BY <1>3 DEF CaptionsInv, OneAtMost, RowKeepsVtt, DeletedLeavesNothing, CutOff
<1> QED
  BY <1>2, <1>3, <1>7, <1>8, <1>9 DEF CaptionsInv, EditsFit

LEMMA EditTypes ==
    ASSUME CaptionsInv, NEW e \in Editors
    PROVE  /\ edit[e] \in EditSlots
           /\ edit[e].pc = "begin" => edit[e] \in BeginSlots
           /\ InTx(e) => edit[e] \in TxSlots
           /\ edit[e].pc # "idle" => edit[e].caption \in CaptionIds /\ edit[e].row \in Row
           /\ EditFits(e, edit[e])
<1>1. edit[e] \in EditSlots
  BY DEF CaptionsInv, CaptionsTypeOK, EditSlots, BeginSlots, TxSlots
<1>2. EditFits(e, edit[e])
  BY DEF CaptionsInv, EditsFit
<1>3. IdleEdit.pc = "idle"
  BY DEF IdleEdit
<1>4. \A x \in BeginSlots : x.pc = "begin" /\ x.caption \in CaptionIds /\ x.row \in Row
  BY DEF BeginSlots
<1>5. \A x \in TxSlots : x.pc \in {"clear", "commit"} /\ x.caption \in CaptionIds /\ x.row \in Row
  BY DEF TxSlots
<1> QED
  BY <1>1, <1>2, <1>3, <1>4, <1>5 DEF EditSlots, InTx

LEMMA ClearedRecord ==
    ASSUME NEW x \in TxSlots, NEW todo, NEW done
    PROVE  [x EXCEPT !.todo = todo, !.cleared = done]
             = [pc |-> x.pc, caption |-> x.caption, new |-> x.new, row |-> x.row,
                todo |-> todo, cleared |-> done]
<1>1. [x EXCEPT !.todo = todo]
        = [pc |-> x.pc, caption |-> x.caption, new |-> x.new, row |-> x.row,
           todo |-> todo, cleared |-> x.cleared]
  BY DEF TxSlots
<1>2. [x EXCEPT !.todo = todo, !.cleared = done] = [[x EXCEPT !.todo = todo] EXCEPT !.cleared = done]
  BY DEF TxSlots
<1>3. [[pc |-> x.pc, caption |-> x.caption, new |-> x.new, row |-> x.row,
        todo |-> todo, cleared |-> x.cleared] EXCEPT !.cleared = done]
        = [pc |-> x.pc, caption |-> x.caption, new |-> x.new, row |-> x.row,
           todo |-> todo, cleared |-> done]
  OBVIOUS
<1> QED
  BY <1>1, <1>2, <1>3, Zenon

LEMMA BeginKeepsInv ==
    ASSUME CaptionsInv, NEW e \in Editors, NEW c \in CaptionIds, NEW row \in Row,
           CreateBegin(e, c, row) \/ PatchRead(e, c, row)
    PROVE  CaptionsInv'
<1>0. captionFaults' \in 0..CaptionFaults /\ UNCHANGED <<caption, remove, vtt, known, uploaded, torn, late>>
  BY DEF CaptionsInv, CaptionsTypeOK, CreateBegin, PatchRead
<1>1. CASE CreateBegin(e, c, row)
  <2> DEFINE x == [pc |-> "clear", caption |-> c, new |-> TRUE, row |-> row,
                   todo |-> IF row.default THEN Rows ELSE {}, cleared |-> {}]
  <2>1. x \in EditSlots
    BY DEF EditSlots, TxSlots, Rows
  <2>2. EditFits(e, x)
    <3>1. c \notin known /\ \A f \in Editors : edit[f].pc # "idle" => edit[f].caption # c
      BY <1>1 DEF CreateBegin
    <3> QED
      BY <3>1 DEF EditFits, Creates, HeldBy, CommitsDefault
  <2>3. edit' = [edit EXCEPT ![e] = x]
    BY <1>1 DEF CreateBegin
  <2> QED
    BY <1>0, <2>1, <2>2, <2>3, EditChangesKeepsInv
<1>2. CASE PatchRead(e, c, row)
  <2> DEFINE x == [pc |-> "begin", caption |-> c, new |-> FALSE, row |-> row]
  <2>1. x \in EditSlots
    BY DEF EditSlots, BeginSlots
  <2>2. EditFits(e, x)
    <3>1. c \in known
      BY <1>2 DEF PatchRead, CaptionsInv
    <3>2. \A f \in Editors : Creates(edit[f]) => edit[f].caption # c
      BY <3>1 DEF CaptionsInv, EditsFit, EditFits
    <3> QED
      BY <3>2 DEF EditFits, Creates, HeldBy, CommitsDefault
  <2>3. edit' = [edit EXCEPT ![e] = x]
    BY <1>2 DEF PatchRead
  <2> QED
    BY <1>0, <2>1, <2>2, <2>3, EditChangesKeepsInv
<1> QED
  BY <1>1, <1>2

LEMMA TxKeepsInv ==
    ASSUME CaptionsInv, NEW e \in Editors,
           \/ PatchBegin(e) \/ EditWrite(e) \/ EditDropped(e) \/ DeadlockAbort(e)
           \/ \E c \in CaptionIds : ClearRow(e, c)
    PROVE  CaptionsInv'
<1>0. captionFaults' \in 0..CaptionFaults /\ UNCHANGED <<caption, remove, vtt, known, uploaded, torn, late>>
  <2>1. captionFaults \in 0..CaptionFaults /\ (CaptionFault => captionFaults' \in 0..CaptionFaults)
    BY CaptionsAssumption DEF CaptionsInv, CaptionsTypeOK, CaptionFault
  <2> QED
    BY <2>1 DEF PatchBegin, EditWrite, EditDropped, DeadlockAbort, ClearRow
<1> DEFINE r == edit[e]
<1>1. /\ r.pc = "begin" => r \in BeginSlots
      /\ InTx(e) => r \in TxSlots
      /\ EditFits(e, r)
  BY EditTypes
<1>2. CASE EditEnds(e)
  <2>1. IdleEdit \in EditSlots /\ EditFits(e, IdleEdit)
    BY DEF EditSlots, EditFits, Creates, HeldBy, CommitsDefault, IdleEdit
  <2> QED
    BY <1>0, <1>2, <2>1, EditChangesKeepsInv DEF EditEnds
<1>3. CASE PatchBegin(e)
  <2> DEFINE x == [pc |-> "clear", caption |-> r.caption, new |-> FALSE, row |-> r.row,
                   todo |-> IF r.row.default THEN Rows \ {r.caption} ELSE {}, cleared |-> {}]
  <2>0. r \in BeginSlots /\ r.pc = "begin"
    BY <1>1, <1>3 DEF PatchBegin
  <2>1. x \in EditSlots
    BY <2>0 DEF EditSlots, BeginSlots, TxSlots, Rows
  <2>2. EditFits(e, x)
    <3>1. \A f \in Editors \ {e} : edit[f].pc # "idle" /\ edit[f].new => edit[f].caption # r.caption
      BY <1>1, <2>0 DEF EditFits
    <3> QED
      BY <3>1 DEF EditFits, Creates, HeldBy, CommitsDefault
  <2>3. edit' = [edit EXCEPT ![e] = x]
    BY <1>3 DEF PatchBegin
  <2> QED
    BY <1>0, <2>1, <2>2, <2>3, EditChangesKeepsInv
<1>4. ASSUME NEW c \in CaptionIds, ClearRow(e, c)
      PROVE  CaptionsInv'
  <2> DEFINE done == IF c \in Rows THEN r.cleared \cup {c} ELSE r.cleared
             x == [pc |-> "clear", caption |-> r.caption, new |-> r.new, row |-> r.row,
                   todo |-> r.todo \ {c}, cleared |-> done]
  <2>0. r \in TxSlots /\ r.pc = "clear"
    BY <1>1, <1>4 DEF ClearRow, InTx
  <2>1. x \in EditSlots
    BY <2>0 DEF EditSlots, TxSlots
  <2>2. EditFits(e, x)
    <3>1. c \in r.todo /\ FreeFor(e, c)
      BY <1>4 DEF ClearRow
    <3>2. HeldBy(r) = r.cleared /\ HeldBy(x) \subseteq r.cleared \cup {c}
      BY <2>0 DEF HeldBy
    <3>3. \A d \in HeldBy(x) : FreeFor(e, d)
      BY <1>1, <3>1, <3>2 DEF EditFits
    <3> QED
      BY <1>1, <2>0, <3>1, <3>3 DEF EditFits, Creates, CommitsDefault
  <2>3. edit' = [edit EXCEPT ![e] = x]
    <3>1. edit' = [edit EXCEPT ![e] = [r EXCEPT !.todo = r.todo \ {c}, !.cleared = done]]
      BY <1>4 DEF ClearRow
    <3>2. [r EXCEPT !.todo = r.todo \ {c}, !.cleared = done]
            = [pc |-> r.pc, caption |-> r.caption, new |-> r.new, row |-> r.row,
               todo |-> r.todo \ {c}, cleared |-> done]
      BY <2>0, ClearedRecord
    <3> QED
      BY <2>0, <3>1, <3>2
  <2> QED
    BY <1>0, <2>1, <2>2, <2>3, EditChangesKeepsInv
<1>5. CASE EditWrite(e) /\ ~EditEnds(e)
  <2> DEFINE x == [pc |-> "commit", caption |-> r.caption, new |-> r.new, row |-> r.row,
                   todo |-> r.todo, cleared |-> r.cleared]
  <2>0. r \in TxSlots /\ r.pc = "clear"
    BY <1>1, <1>5 DEF EditWrite, Writes, InTx
  <2>1. x \in EditSlots
    BY <2>0 DEF EditSlots, TxSlots
  <2>2. /\ r.new \/ (FreeFor(e, r.caption) /\ r.caption \in Rows)
        /\ r.row.default => ~Unsettled(e) /\ Rivals(e) = {}
        /\ edit' = [edit EXCEPT ![e].pc = "commit"]
    BY <1>5 DEF EditWrite
  <2>3. edit' = [edit EXCEPT ![e] = x]
    <3>1. [r EXCEPT !.pc = "commit"] = x
      BY <2>0 DEF TxSlots
    <3> QED
      BY <2>2, <3>1
  <2>4. EditFits(e, x)
    <3>1. FreeFor(e, r.caption)
      <4>1. CASE r.new
        <5>1. r.caption \notin Rows
          BY <1>1, <2>0, <4>1 DEF EditFits, Creates, CaptionsInv
        <5>2. ~RemoverHolds(r.caption)
          <6>1. r.caption \in CaptionIds
            BY <2>0 DEF TxSlots
          <6>2. CaptionsTypeOK /\ RemovesFit
            BY DEF CaptionsInv
          <6> QED
            BY <5>1, <6>1, <6>2, HolderIsRemoving DEF RemovesFit
        <5>3. ASSUME NEW f \in Editors \ {e}, r.caption \in Holds(f)
              PROVE  FALSE
          <6>1. EditFits(f, edit[f]) /\ r.caption \in HeldBy(edit[f])
            BY <5>3, HoldsIsHeldBy DEF CaptionsInv, EditsFit
          <6>2. edit[f].pc = "commit" /\ edit[f].caption = r.caption
            BY <5>1, <6>1 DEF EditFits, HeldBy
          <6> QED
            BY <1>1, <2>0, <4>1, <6>2 DEF EditFits
        <5> QED
          BY <5>2, <5>3 DEF FreeFor
      <4>2. CASE ~r.new
        BY <2>2, <4>2
      <4> QED
        BY <4>1, <4>2
    <3>2. HeldBy(x) = r.cleared \cup {r.caption} /\ HeldBy(r) = r.cleared
      BY <2>0 DEF HeldBy
    <3>3. \A d \in HeldBy(x) : FreeFor(e, d)
      BY <1>1, <3>1, <3>2 DEF EditFits
    <3>4. CommitsDefault(x) =>
            /\ Defaults \subseteq x.cleared \cup {x.caption}
            /\ \A f \in Editors \ {e} : ~CommitsDefault(edit[f])
      BY <2>2 DEF CommitsDefault, Unsettled, Rivals
    <3> QED
      BY <1>1, <2>0, <2>2, <3>3, <3>4 DEF EditFits, Creates
  <2> QED
    BY <1>0, <2>1, <2>3, <2>4, EditChangesKeepsInv
<1> QED
  BY <1>2, <1>3, <1>4, <1>5 DEF EditDropped, DeadlockAbort

\* What a commit makes of the rows and of the default.
LEMMA CommitFacts ==
    ASSUME CaptionsInv, NEW e \in Editors, EditCommit(e)
    PROVE  /\ edit[e] \in TxSlots /\ edit[e].pc = "commit"
           /\ caption' \in [CaptionIds -> Row \cup {NoCaption}]
           /\ Rows' = Rows \cup {edit[e].caption}
           /\ Defaults' = IF edit[e].row.default THEN {edit[e].caption}
                          ELSE Defaults \ ({edit[e].caption} \cup edit[e].cleared)
<1> DEFINE r == edit[e]
<1>1. r \in TxSlots /\ r.pc = "commit" /\ EditFits(e, r)
  BY EditTypes DEF EditCommit, InTx
<1>2. r.caption \in CaptionIds /\ r.row \in Row /\ r.cleared \subseteq Rows
  BY <1>1, EditTypes DEF EditFits
<1>3. \A c \in CaptionIds : caption'[c] =
          IF c = r.caption THEN r.row
          ELSE IF c \in r.cleared THEN [caption[c] EXCEPT !.default = FALSE]
          ELSE caption[c]
  BY DEF EditCommit
<1>4. \A c \in Rows : caption[c] \in Row
  BY DEF CaptionsInv, CaptionsTypeOK, Rows
<1>5. \A x \in Row : [x EXCEPT !.default = FALSE] \in Row /\ ~[x EXCEPT !.default = FALSE].default
  BY DEF Row
<1>6. \A x \in Row : x # NoCaption
  BY CaptionsAssumption DEF Row
<1>7. caption' \in [CaptionIds -> Row \cup {NoCaption}]
  <2>1. \A c \in CaptionIds : caption'[c] \in Row \cup {NoCaption}
    BY <1>2, <1>3, <1>4, <1>5 DEF Rows
  <2> QED
    BY <2>1 DEF EditCommit
<1>8. Rows' = Rows \cup {r.caption}
  <2>1. \A c \in CaptionIds : c \in Rows' <=> c \in Rows \cup {r.caption}
    BY <1>2, <1>3, <1>4, <1>5, <1>6 DEF Rows
  <2> QED
    BY <1>2, <2>1 DEF Rows
<1>9. \A c \in Rows' : caption'[c].default <=>
          \/ c = r.caption /\ r.row.default
          \/ c # r.caption /\ c \notin r.cleared /\ c \in Defaults
  <2> SUFFICES ASSUME NEW c \in Rows'
               PROVE  caption'[c].default <=>
                          \/ c = r.caption /\ r.row.default
                          \/ c # r.caption /\ c \notin r.cleared /\ c \in Defaults
    OBVIOUS
  <2>1. c \in CaptionIds
    BY DEF Rows
  <2>2. CASE c = r.caption
    BY <1>3, <2>1, <2>2
  <2>3. CASE c # r.caption /\ c \in r.cleared
    BY <1>2, <1>3, <1>4, <1>5, <2>1, <2>3
  <2>4. CASE c # r.caption /\ c \notin r.cleared
    BY <1>3, <1>8, <2>1, <2>4 DEF Defaults
  <2> QED
    BY <2>2, <2>3, <2>4
<1>10. CASE r.row.default
  <2>1. Defaults \subseteq r.cleared \cup {r.caption}
    BY <1>1, <1>10 DEF EditFits, CommitsDefault
  <2> QED
    BY <1>1, <1>7, <1>8, <1>9, <1>10, <2>1 DEF Defaults
<1>11. CASE ~r.row.default
  <2>1. Defaults \subseteq Rows
    BY DEF Defaults
  <2>2. \A c : c \in Defaults' <=> c \in Defaults \ ({r.caption} \cup r.cleared)
    BY <1>8, <1>9, <1>11, <2>1 DEF Defaults
  <2> QED
    BY <1>1, <1>7, <1>8, <1>11, <2>2
<1> QED
  BY <1>10, <1>11

LEMMA CommitKeepsInv ==
    ASSUME CaptionsInv, NEW e \in Editors, EditCommit(e)
    PROVE  CaptionsInv'
<1> DEFINE r == edit[e]
<1>1. /\ r \in TxSlots /\ r.pc = "commit" /\ EditFits(e, r)
      /\ r.caption \in CaptionIds
  BY CommitFacts, EditTypes
<1>2. /\ caption' \in [CaptionIds -> Row \cup {NoCaption}]
      /\ Rows' = Rows \cup {r.caption}
      /\ Defaults' = IF r.row.default THEN {r.caption} ELSE Defaults \ ({r.caption} \cup r.cleared)
  BY CommitFacts
<1>3. /\ edit'[e] = IdleEdit
      /\ \A f \in Editors \ {e} : edit'[f] = edit[f]
      /\ known' = known \cup {r.caption}
      /\ UNCHANGED <<remove, vtt, uploaded, torn, late, captionFaults>>
  BY DEF EditCommit, EditEnds, CaptionsInv, CaptionsTypeOK
<1>4. CaptionsTypeOK'
  <2>1. edit' \in [Editors -> EditSlots]
    <3>1. edit \in [Editors -> EditSlots]
      BY DEF CaptionsInv, CaptionsTypeOK, EditSlots, BeginSlots, TxSlots
    <3> QED
      BY <3>1 DEF EditCommit, EditEnds, EditSlots
  <2> QED
    BY <1>1, <1>2, <1>3, <2>1 DEF CaptionsInv, CaptionsTypeOK, EditSlots, BeginSlots, TxSlots
<1>5. Rows' \subseteq known'
  BY <1>2, <1>3 DEF CaptionsInv
<1>6. ASSUME NEW f \in Editors
      PROVE  EditFits(f, edit[f])'
  <2>1. CASE f = e
    BY <1>3, <2>1 DEF EditFits, Creates, HeldBy, CommitsDefault, IdleEdit
  <2>2. CASE f # e
    <3>1. EditFits(f, edit[f]) /\ edit'[f] = edit[f]
      BY <1>3, <2>2 DEF CaptionsInv, EditsFit
    <3>2. Creates(edit[f]) => edit[f].caption \notin known'
      <4>1. Creates(edit[f]) => edit[f].caption # r.caption
        BY <1>1, <2>2, <3>1 DEF EditFits, Creates
      <4> QED
        BY <1>3, <3>1, <4>1 DEF EditFits
    <3>3. \A g \in Editors \ {f} :
             edit'[g].pc # "idle" /\ (edit[f].new \/ edit'[g].new) /\ edit[f].pc # "idle"
                 => edit'[g].caption # edit[f].caption
      BY <1>3, <3>1 DEF EditFits, IdleEdit
    <3>4. \A c \in HeldBy(edit[f]) : FreeFor(f, c)'
      <4> SUFFICES ASSUME NEW c \in HeldBy(edit[f]) PROVE FreeFor(f, c)'
        OBVIOUS
      <4>1. FreeFor(f, c)
        BY <3>1 DEF EditFits
      <4>2. RemoverHolds(c)' = RemoverHolds(c)
        BY <1>3 DEF RemoverHolds
      <4>3. \A g \in Editors \ {f} : Holds(g)' \subseteq Holds(g)
        <5>1. \A g \in Editors : Holds(g)' = HeldBy(edit'[g]) /\ Holds(g) = HeldBy(edit[g])
          BY DEF Holds, HeldBy, InTx
        <5> QED
          BY <1>3, <5>1 DEF HeldBy, IdleEdit
      <4> QED
        BY <4>1, <4>2, <4>3 DEF FreeFor
    <3>5. CommitsDefault(edit[f]) =>
            /\ Defaults' \subseteq edit[f].cleared \cup {edit[f].caption}
            /\ \A g \in Editors \ {f} : ~CommitsDefault(edit'[g])
      <4>1. CommitsDefault(edit[f]) => ~r.row.default
        BY <1>1, <2>2, <3>1 DEF EditFits, CommitsDefault
      <4>2. ~CommitsDefault(IdleEdit)
        BY DEF CommitsDefault, IdleEdit
      <4> QED
        BY <1>2, <1>3, <3>1, <4>1, <4>2 DEF EditFits
    <3> QED
      BY <1>2, <3>1, <3>2, <3>3, <3>4, <3>5 DEF EditFits
  <2> QED
    BY <2>1, <2>2
<1>7. RemovesFit'
  BY <1>2, <1>3 DEF CaptionsInv, RemovesFit, Removing, CutOff
<1>8. OneAtMost'
  BY <1>2 DEF CaptionsInv, OneAtMost
<1>9. RowKeepsVtt'
  <2>1. r.caption \in Rows \/ r.caption \notin uploaded
    BY <1>1 DEF EditFits, Creates, CaptionsInv, CaptionsTypeOK
  <2>2. (uploaded \cap Rows)' \subseteq uploaded \cap Rows
    BY <1>2, <1>3, <2>1
  <2> QED
    BY <1>3, <2>2 DEF CaptionsInv, RowKeepsVtt, CutOff
<1>10. DeletedLeavesNothing'
  BY <1>2, <1>3 DEF CaptionsInv, DeletedLeavesNothing
<1> QED
  BY <1>4, <1>5, <1>6, <1>7, <1>8, <1>9, <1>10 DEF CaptionsInv, EditsFit

\* A step that locks nothing an edit holds and takes no row that it holds.
LEMMA EditsStayFit ==
    ASSUME CaptionsInv, UNCHANGED <<edit, known>>, Rows' \subseteq Rows, Defaults' \subseteq Defaults,
           \A e \in Editors : \A c \in HeldBy(edit[e]) :
               (c \in Rows => c \in Rows') /\ (RemoverHolds(c)' => RemoverHolds(c))
    PROVE  EditsFit'
<1> SUFFICES ASSUME NEW e \in Editors PROVE EditFits(e, edit[e])'
  BY DEF EditsFit
<1>1. EditFits(e, edit[e]) /\ edit[e] \in EditSlots
  BY EditTypes
<1>2. \A c \in HeldBy(edit[e]) : FreeFor(e, c)'
  <2>1. \A f \in Editors : Holds(f)' = Holds(f)
    BY DEF Holds, InTx
  <2> QED
    BY <1>1, <2>1 DEF FreeFor, EditFits
<1>3. edit[e].pc \in {"clear", "commit"} =>
          /\ edit[e].cleared \subseteq Rows'
          /\ edit[e].pc = "commit" /\ ~edit[e].new => edit[e].caption \in Rows'
  BY <1>1 DEF EditFits, HeldBy
<1>4. CommitsDefault(edit[e]) => Defaults' \subseteq edit[e].cleared \cup {edit[e].caption}
  BY <1>1 DEF EditFits
<1> QED
  BY <1>1, <1>2, <1>3, <1>4 DEF EditFits, HeldBy, Creates, CommitsDefault

RemoveSlots == [pc : {"idle", "rename", "commit", "moved", "orphan", "restore", "purge"},
                caption : CaptionIds \cup {NoCaption}]

LEMMA RemoveGoesFacts ==
    ASSUME CaptionsTypeOK, NEW d \in Removers,
           NEW pc \in {"rename", "commit", "moved", "orphan", "restore", "purge"}, RemoveGoes(d, pc)
    PROVE  /\ remove' \in [Removers -> RemoveSlots]
           /\ remove'[d].pc = pc /\ remove'[d].caption = remove[d].caption
           /\ \A f \in Removers \ {d} : remove'[f] = remove[f]
<1>1. remove \in [Removers -> RemoveSlots]
  BY DEF CaptionsTypeOK, RemoveSlots
<1> QED
  BY <1>1 DEF RemoveGoes, RemoveSlots

LEMMA RemoveEndsFacts ==
    ASSUME CaptionsTypeOK, NEW d \in Removers, RemoveEnds(d)
    PROVE  /\ remove' \in [Removers -> RemoveSlots]
           /\ remove'[d].pc = "idle" /\ remove'[d].caption = NoCaption
           /\ \A f \in Removers \ {d} : remove'[f] = remove[f]
<1>1. remove \in [Removers -> RemoveSlots]
  BY DEF CaptionsTypeOK, RemoveSlots
<1> QED
  BY <1>1 DEF RemoveEnds, RemoveSlots, NoRemove

\* A deletion that goes on locks nothing more, and takes no row but its own.
LEMMA RemoverKeepsEdits ==
    ASSUME CaptionsInv, NEW d \in Removers, UNCHANGED <<edit, known>>,
           \/ caption' = caption
           \/ Removing(d) /\ caption' = [caption EXCEPT ![remove[d].caption] = NoCaption],
           \A f \in Removers \ {d} : remove'[f] = remove[f],
           \/ remove'[d].pc \in {"orphan", "restore", "purge"}
           \/ remove'[d].caption = NoCaption
           \/ Removing(d) /\ remove'[d].caption = remove[d].caption
    PROVE  /\ EditsFit' /\ OneAtMost' /\ Rows' \subseteq known'
           /\ caption' \in [CaptionIds -> Row \cup {NoCaption}]
           /\ Rows \ {remove[d].caption} \subseteq Rows' /\ Rows' \subseteq Rows
           /\ caption' # caption => Rows' = Rows \ {remove[d].caption}
           /\ \A c \in CaptionIds : RemoverHolds(c)' => RemoverHolds(c)
<1>0. CaptionsTypeOK /\ RemovesFit
  BY DEF CaptionsInv
<1>1. /\ caption' \in [CaptionIds -> Row \cup {NoCaption}]
      /\ Rows' \subseteq Rows /\ Rows \ {remove[d].caption} \subseteq Rows'
      /\ caption' # caption => Rows' = Rows \ {remove[d].caption}
      /\ \A c \in Rows' : caption'[c] = caption[c]
  BY <1>0 DEF Rows, CaptionsTypeOK
<1>2. Defaults' \subseteq Defaults
  BY <1>1 DEF Defaults
<1>3. \A c \in CaptionIds : RemoverHolds(c)' => RemoverHolds(c)
  <2> SUFFICES ASSUME NEW c \in CaptionIds, NEW f \in Removers,
                      remove'[f].caption = c,
                      remove'[f].pc \notin {"orphan", "restore", "purge"}
               PROVE  RemoverHolds(c)
    BY DEF RemoverHolds
  <2>1. CASE f = d
    <3>1. Removing(d) /\ remove[d].caption = c
      BY <2>1, CaptionsAssumption
    <3> QED
      BY <3>1 DEF RemoverHolds, Removing
  <2>2. CASE f # d
    BY <2>2 DEF RemoverHolds
  <2> QED
    BY <2>1, <2>2
<1>4. ASSUME NEW e \in Editors, NEW c \in HeldBy(edit[e])
      PROVE  (c \in Rows => c \in Rows') /\ (RemoverHolds(c)' => RemoverHolds(c))
  <2>1. c \in CaptionIds
    <3>1. edit[e] \in EditSlots /\ (InTx(e) => edit[e] \in TxSlots)
      BY EditTypes
    <3> QED
      BY <3>1 DEF HeldBy, InTx, TxSlots
  <2>2. ~RemoverHolds(c)
    BY EditTypes DEF EditFits, FreeFor
  <2>3. Removing(d) => c # remove[d].caption
    BY <1>0, <2>1, <2>2, HolderIsRemoving
  <2>4. ~Removing(d) => Rows' = Rows
    BY DEF Rows
  <2>5. c \in Rows => c \in Rows'
    BY <1>1, <2>3, <2>4
  <2> QED
    BY <1>3, <2>1, <2>5
<1>5. EditsFit'
  BY <1>1, <1>2, <1>4, EditsStayFit
<1>6. OneAtMost' /\ Rows' \subseteq known'
  BY <1>1, <1>2 DEF CaptionsInv, OneAtMost
<1> QED
  BY <1>1, <1>3, <1>5, <1>6

LEMMA RemoveLockKeepsInv ==
    ASSUME CaptionsInv, NEW d \in Removers, NEW c \in CaptionIds, RemoveLock(d, c)
    PROVE  CaptionsInv'
<1>0. CaptionsTypeOK /\ RemovesFit /\ c \in Rows
  BY DEF CaptionsInv, RemoveLock
<1>1. /\ UNCHANGED <<caption, edit, vtt, known, uploaded, torn, late, captionFaults>>
      /\ remove'[d].pc = "rename" /\ remove'[d].caption = c
      /\ \A f \in Removers \ {d} : remove'[f] = remove[f]
      /\ remove' \in [Removers -> RemoveSlots]
  BY <1>0 DEF RemoveLock, CaptionsTypeOK, RemoveSlots
<1>2. Rows' = Rows /\ Defaults' = Defaults
  BY <1>1 DEF Rows, Defaults
<1>3. CaptionsTypeOK'
  BY <1>0, <1>1 DEF CaptionsTypeOK, RemoveSlots
<1>4. EditsFit'
  <2>1. ASSUME NEW e \in Editors, NEW x \in HeldBy(edit[e])
        PROVE  RemoverHolds(x)' => RemoverHolds(x)
    <3>1. x # c
      BY HoldsIsHeldBy DEF RemoveLock, Free
    <3> QED
      BY <1>1, <3>1 DEF RemoverHolds
  <2> QED
    BY <1>1, <1>2, <2>1, EditsStayFit
<1>5. RemovesFit'
  <2>1. \A f \in Removers : Removing(f) => remove[f].caption # c
    BY <1>0, HolderIsRemoving DEF RemoveLock, Free
  <2> QED
    BY <1>0, <1>1, <1>2, <2>1 DEF RemovesFit, Removing, CutOff
<1>6. OneAtMost' /\ DeletedLeavesNothing' /\ Rows' \subseteq known'
  BY <1>1, <1>2 DEF CaptionsInv, OneAtMost, DeletedLeavesNothing
<1>7. RowKeepsVtt'
  BY <1>1, <1>2 DEF CaptionsInv, RowKeepsVtt, CutOff, RemoveLock
<1> QED
  BY <1>3, <1>4, <1>5, <1>6, <1>7 DEF CaptionsInv

LEMMA RemoveRenameKeepsInv ==
    ASSUME CaptionsInv, NEW d \in Removers, RemoveRename(d)
    PROVE  CaptionsInv'
<1> DEFINE c == remove[d].caption
<1>0. CaptionsTypeOK /\ RemovesFit /\ RowKeepsVtt /\ DeletedLeavesNothing
  BY DEF CaptionsInv
<1>1. /\ UNCHANGED <<caption, edit, known, uploaded, torn, captionFaults>>
      /\ vtt' = vtt \ {c} /\ late' = late \ {c}
      /\ remove[d].pc = "rename"
      /\ RemoveGoes(d, IF c \in vtt THEN "moved" ELSE "commit")
  BY DEF RemoveRename
<1>2. /\ remove' \in [Removers -> RemoveSlots]
      /\ remove'[d].pc = (IF c \in vtt THEN "moved" ELSE "commit") /\ remove'[d].caption = c
      /\ \A f \in Removers \ {d} : remove'[f] = remove[f]
  BY <1>0, <1>1, RemoveGoesFacts
<1>3. Removing(d)
  BY <1>1 DEF Removing
<1>4. EditsFit' /\ OneAtMost' /\ Rows' \subseteq known' /\ Rows' = Rows
  <2>1. Rows' = Rows
    BY <1>1 DEF Rows
  <2> QED
    BY <1>1, <1>2, <1>3, <2>1, RemoverKeepsEdits
<1>5. CaptionsTypeOK'
  BY <1>0, <1>1, <1>2 DEF CaptionsTypeOK, RemoveSlots
<1>6. RemovesFit'
  BY <1>0, <1>1, <1>2, <1>3, <1>4 DEF RemovesFit, Removing, CutOff, CaptionsTypeOK
<1>7. RowKeepsVtt'
  <2> SUFFICES ASSUME NEW x \in (uploaded \cap Rows) \ torn
               PROVE  x \in vtt' \/ \E f \in Removers : CutOff(f)' /\ remove'[f].caption = x
    BY <1>1, <1>4 DEF RowKeepsVtt
  <2>1. CASE x \in vtt
    BY <1>1, <1>2, <2>1 DEF CutOff
  <2>2. CASE x \notin vtt
    <3>1. PICK f \in Removers : CutOff(f) /\ remove[f].caption = x
      BY <1>0, <2>2 DEF RowKeepsVtt
    <3>2. f # d
      BY <1>1, <3>1 DEF CutOff
    <3> QED
      BY <1>2, <3>1, <3>2 DEF CutOff
  <2> QED
    BY <2>1, <2>2
<1>8. DeletedLeavesNothing'
  BY <1>0, <1>1, <1>4 DEF DeletedLeavesNothing
<1> QED
  BY <1>4, <1>5, <1>6, <1>7, <1>8 DEF CaptionsInv

\* The ways in which the transaction of a deletion ends.
LEMMA RemoveTxEndsKeepsInv ==
    ASSUME CaptionsInv, NEW d \in Removers, RemoveCommit(d) \/ RemoveUndone(d)
    PROVE  CaptionsInv'
<1> DEFINE c == remove[d].caption
<1>0. CaptionsTypeOK /\ RemovesFit /\ RowKeepsVtt /\ DeletedLeavesNothing
  BY DEF CaptionsInv
<1>1. /\ UNCHANGED <<edit, vtt, known, uploaded, torn, late>>
      /\ caption' \in {caption, [caption EXCEPT ![c] = NoCaption]}
      /\ remove[d].pc \in {"commit", "moved"}
  BY DEF RemoveCommit, RemoveUndone
<1>2. captionFaults' \in 0..CaptionFaults
  BY <1>0, CaptionsAssumption DEF RemoveCommit, RemoveUndone, CaptionFault, CaptionsTypeOK
<1>3. \/ RemoveEnds(d) /\ (remove[d].pc = "commit" \/ c \notin Rows')
      \/ RemoveGoes(d, "purge") /\ c \notin Rows'
      \/ RemoveGoes(d, "restore") /\ remove[d].pc = "moved"
  <2>1. CASE RemoveCommit(d)
    <3>1. c \notin Rows'
      <4>1. caption' = [caption EXCEPT ![c] = NoCaption]
        BY <2>1 DEF RemoveCommit
      <4> QED
        BY <1>0, <4>1 DEF Rows, CaptionsTypeOK
    <3> QED
      BY <2>1, <3>1 DEF RemoveCommit
  <2>2. CASE RemoveUndone(d)
    BY <1>1, <2>2 DEF RemoveUndone
  <2> QED
    BY <2>1, <2>2
<1>4. /\ remove' \in [Removers -> RemoveSlots]
      /\ \A f \in Removers \ {d} : remove'[f] = remove[f]
      /\ \/ remove'[d].pc = "idle" /\ remove'[d].caption = NoCaption /\ (remove[d].pc = "commit" \/ c \notin Rows')
         \/ remove'[d].pc = "purge" /\ c \notin Rows'
         \/ remove'[d].pc = "restore" /\ remove'[d].caption = c /\ remove[d].pc = "moved"
  BY <1>0, <1>3, RemoveGoesFacts, RemoveEndsFacts
<1>5. Removing(d)
  BY <1>1 DEF Removing
<1>6. /\ EditsFit' /\ OneAtMost' /\ Rows' \subseteq known'
      /\ caption' \in [CaptionIds -> Row \cup {NoCaption}]
      /\ Rows \ {c} \subseteq Rows' /\ Rows' \subseteq Rows
  BY <1>1, <1>4, <1>5, RemoverKeepsEdits
<1>7. CaptionsTypeOK'
  BY <1>0, <1>1, <1>2, <1>4, <1>6 DEF CaptionsTypeOK, RemoveSlots
<1>8. RemovesFit'
  <2>1. \A f \in Removers \ {d} : Removing(f) => remove[f].caption \in Rows'
    BY <1>0, <1>5, <1>6 DEF RemovesFit
  <2>2. remove'[d].pc = "restore" => remove'[d].caption \in uploaded
    BY <1>0, <1>4 DEF RemovesFit, CutOff
  <2> QED
    BY <1>0, <1>1, <1>4, <2>1, <2>2 DEF RemovesFit, Removing, CutOff
<1>9. RowKeepsVtt'
  <2> SUFFICES ASSUME NEW x \in (uploaded \cap Rows') \ torn, x \notin vtt
               PROVE  \E f \in Removers : CutOff(f)' /\ remove'[f].caption = x
    BY <1>1 DEF RowKeepsVtt
  <2>1. PICK f \in Removers : CutOff(f) /\ remove[f].caption = x
    BY <1>0, <1>6 DEF RowKeepsVtt
  <2>2. CASE f # d
    BY <1>4, <2>1, <2>2 DEF CutOff
  <2>3. CASE f = d
    BY <1>4, <2>1, <2>3 DEF CutOff
  <2> QED
    BY <2>2, <2>3
<1>10. DeletedLeavesNothing'
  BY <1>0, <1>1, <1>6 DEF RemovesFit, DeletedLeavesNothing
<1> QED
  BY <1>6, <1>7, <1>8, <1>9, <1>10 DEF CaptionsInv

\* A file that is put back, and what is left aside.
LEMMA RemoveLeavesKeepsInv ==
    ASSUME CaptionsInv, NEW d \in Removers,
           RemoveRestore(d) \/ RemovePurge(d) \/ RemoveDropped(d) \/ OrphanRename(d)
    PROVE  CaptionsInv'
<1> DEFINE c == remove[d].caption
<1>0. CaptionsTypeOK /\ RemovesFit /\ RowKeepsVtt /\ DeletedLeavesNothing
  BY DEF CaptionsInv
<1>1. /\ UNCHANGED <<caption, edit, known, uploaded>>
      /\ RemoveEnds(d) \/ RemoveGoes(d, "orphan")
      /\ captionFaults' \in 0..CaptionFaults
  BY <1>0, CaptionsAssumption
     DEF RemoveRestore, RemovePurge, RemoveDropped, OrphanRename, CaptionFault, CaptionsTypeOK
<1>2. /\ remove' \in [Removers -> RemoveSlots]
      /\ \/ remove'[d].pc = "idle" /\ remove'[d].caption = NoCaption
         \/ remove'[d].pc = "orphan"
      /\ \A f \in Removers \ {d} : remove'[f] = remove[f]
  BY <1>0, <1>1, RemoveEndsFacts, RemoveGoesFacts
<1>3. EditsFit' /\ OneAtMost' /\ Rows' \subseteq known' /\ Rows' = Rows
  <2>1. Rows' = Rows
    BY <1>1 DEF Rows
  <2> QED
    BY <1>1, <1>2, <2>1, RemoverKeepsEdits
<1>4. \/ /\ remove[d].pc = "restore" /\ c \in uploaded
         /\ vtt' = vtt \cup {c} /\ ComesBack(c) /\ torn' = torn
      \/ /\ ~CutOff(d)
         /\ UNCHANGED <<vtt, late, torn>>
      \/ /\ c \in uploaded
         /\ torn' = torn \cup {c} /\ UNCHANGED <<vtt, late>>
      \/ /\ ~CutOff(d)
         /\ vtt' = vtt \ {c} /\ torn' = torn \cup (vtt \cap {c}) /\ late' = late \ {c}
  <2>1. CASE RemoveRestore(d)
    BY <1>0, <2>1 DEF RemoveRestore, RemovesFit, CutOff
  <2>2. CASE RemovePurge(d)
    BY <2>2 DEF RemovePurge, CutOff
  <2>3. CASE RemoveDropped(d)
    BY <1>0, <2>3 DEF RemoveDropped, RemovesFit
  <2>4. CASE OrphanRename(d)
    BY <2>4 DEF OrphanRename, CutOff
  <2> QED
    BY <2>1, <2>2, <2>3, <2>4
<1>5. CaptionsTypeOK'
  BY <1>0, <1>1, <1>2, <1>4 DEF CaptionsTypeOK, RemoveSlots, ComesBack
<1>6. RemovesFit'
  <2>1. \A f \in Removers \ {d} :
           remove[f].pc \in {"commit", "moved"} => remove[f].caption \notin vtt' \ late'
    <3> SUFFICES ASSUME NEW f \in Removers \ {d}, remove[f].pc \in {"commit", "moved"}
                 PROVE  remove[f].caption \notin vtt' \ late'
      OBVIOUS
    <3>1. remove[f].caption \notin vtt \ late
      BY <1>0 DEF RemovesFit
    <3>2. remove[f].caption = c => RemoverHolds(c)
      BY DEF RemoverHolds
    <3> QED
      BY <1>4, <3>1, <3>2 DEF ComesBack
  <2> QED
    BY <1>0, <1>1, <1>2, <1>3, <2>1 DEF RemovesFit, Removing, CutOff
<1>7. RowKeepsVtt'
  <2> SUFFICES ASSUME NEW x \in (uploaded \cap Rows) \ torn', x \notin vtt'
               PROVE  \E f \in Removers : CutOff(f)' /\ remove'[f].caption = x
    BY <1>1, <1>3 DEF RowKeepsVtt
  <2>1. PICK f \in Removers : CutOff(f) /\ remove[f].caption = x
    BY <1>0, <1>4 DEF RowKeepsVtt
  <2>2. f # d
    BY <1>4, <2>1
  <2> QED
    BY <1>2, <2>1, <2>2 DEF CutOff
<1>8. DeletedLeavesNothing'
  BY <1>0, <1>3, <1>4 DEF DeletedLeavesNothing, ComesBack
<1> QED
  BY <1>3, <1>5, <1>6, <1>7, <1>8 DEF CaptionsInv

LEMMA PutKeepsInv ==
    ASSUME CaptionsInv, NEW c \in WithFile, PutFile(c)
    PROVE  CaptionsInv'
<1>0. CaptionsTypeOK /\ RemovesFit /\ RowKeepsVtt /\ DeletedLeavesNothing /\ OneAtMost
  BY DEF CaptionsInv
<1>1. /\ UNCHANGED <<caption, edit, remove, known, captionFaults>>
      /\ vtt' = vtt \cup {c} /\ uploaded' = uploaded \cup {c} /\ torn' = torn \ {c}
      /\ ComesBack(c) /\ c \in known
  BY DEF PutFile
<1>2. Rows' = Rows /\ Defaults' = Defaults /\ \A x : RemoverHolds(x)' = RemoverHolds(x)
  BY <1>1 DEF Rows, Defaults, RemoverHolds
<1>3. CaptionsTypeOK'
  BY <1>0, <1>1 DEF CaptionsTypeOK, ComesBack
<1>4. EditsFit'
  BY <1>1, <1>2, EditsStayFit
<1>5. RemovesFit'
  <2>1. \A d \in Removers :
           remove[d].pc \in {"commit", "moved"} => remove[d].caption \notin vtt' \ late'
    BY <1>0, <1>1 DEF RemovesFit, ComesBack, RemoverHolds
  <2> QED
    BY <1>0, <1>1, <1>2, <2>1 DEF RemovesFit, Removing, CutOff
<1>6. RowKeepsVtt'
  BY <1>0, <1>1, <1>2 DEF RowKeepsVtt, CutOff
<1>7. DeletedLeavesNothing'
  BY <1>0, <1>1, <1>2 DEF DeletedLeavesNothing, ComesBack
<1> QED
  BY <1>0, <1>1, <1>2, <1>3, <1>4, <1>5, <1>6, <1>7 DEF CaptionsInv, OneAtMost

LEMMA RestartKeepsInv ==
    ASSUME CaptionsInv, CaptionsRestart
    PROVE  CaptionsInv'
<1>0. CaptionsTypeOK /\ RemovesFit /\ RowKeepsVtt /\ DeletedLeavesNothing /\ OneAtMost
  BY DEF CaptionsInv
<1>1. /\ UNCHANGED <<caption, vtt, known, uploaded, late>>
      /\ edit' = [e \in Editors |-> IdleEdit] /\ remove' = [d \in Removers |-> NoRemove]
      /\ torn' = torn \cup {remove[d].caption : d \in {x \in Removers : CutOff(x)}}
      /\ captionFaults' \in 0..CaptionFaults
  BY <1>0, CaptionsAssumption DEF CaptionsRestart, CaptionFault, CaptionsTypeOK
<1>2. Rows' = Rows /\ Defaults' = Defaults
  BY <1>1 DEF Rows, Defaults
<1>3. CaptionsTypeOK'
  BY <1>0, <1>1 DEF CaptionsTypeOK, NoRemove, RemovesFit
<1>4. EditsFit'
  BY <1>1 DEF EditsFit, EditFits, Creates, CommitsDefault, HeldBy, IdleEdit
<1>5. RemovesFit'
  BY <1>1 DEF RemovesFit, Removing, CutOff, NoRemove
<1>6. RowKeepsVtt'
  BY <1>0, <1>1, <1>2 DEF RowKeepsVtt
<1> QED
  BY <1>0, <1>1, <1>2, <1>3, <1>4, <1>5, <1>6 DEF CaptionsInv, OneAtMost, DeletedLeavesNothing

LEMMA CaptionsInvStep ==
    ASSUME CaptionsInv, [CaptionsNext]_captionVars
    PROVE  CaptionsInv'
<1>1. ASSUME NEW e \in Editors, NEW c \in CaptionIds, NEW row \in Row,
             CreateBegin(e, c, row) \/ PatchRead(e, c, row)
      PROVE  CaptionsInv'
  BY <1>1, BeginKeepsInv
<1>2. ASSUME NEW e \in Editors,
             \/ PatchBegin(e) \/ EditWrite(e) \/ EditDropped(e) \/ DeadlockAbort(e)
             \/ \E c \in CaptionIds : ClearRow(e, c)
      PROVE  CaptionsInv'
  BY <1>2, TxKeepsInv
<1>3. ASSUME NEW e \in Editors, EditCommit(e)
      PROVE  CaptionsInv'
  BY <1>3, CommitKeepsInv
<1>4. ASSUME NEW d \in Removers, NEW c \in CaptionIds, RemoveLock(d, c)
      PROVE  CaptionsInv'
  BY <1>4, RemoveLockKeepsInv
<1>5. ASSUME NEW d \in Removers, RemoveGoesOn(d) \/ RemoveUndone(d) \/ RemoveDropped(d)
      PROVE  CaptionsInv'
  BY <1>5, RemoveRenameKeepsInv, RemoveTxEndsKeepsInv, RemoveLeavesKeepsInv DEF RemoveGoesOn
<1>6. ASSUME NEW c \in WithFile, PutFile(c)
      PROVE  CaptionsInv'
  BY <1>6, PutKeepsInv
<1>7. CASE CaptionsRestart
  BY <1>7, RestartKeepsInv
<1>8. CASE UNCHANGED captionVars
  <2>1. Rows' = Rows /\ Defaults' = Defaults /\ \A x : RemoverHolds(x)' = RemoverHolds(x)
    BY <1>8 DEF captionVars, Rows, Defaults, RemoverHolds
  <2>2. EditsFit'
    BY <1>8, <2>1, EditsStayFit DEF captionVars
  <2> QED
    BY <1>8, <2>1, <2>2 DEF captionVars, CaptionsInv, CaptionsTypeOK, RemovesFit, Removing, CutOff,
                            OneAtMost, RowKeepsVtt, DeletedLeavesNothing
<1> QED
  BY <1>1, <1>2, <1>3, <1>4, <1>5, <1>6, <1>7, <1>8 DEF CaptionsNext

\* The inductive invariant of the captions (create, edit and delete with their
\* row locks, and the file) holds in every reachable state.
THEOREM CaptionsCorrect == CaptionsSpec => []CaptionsInv
  BY CaptionsInvInit, CaptionsInvStep, PTL DEF CaptionsSpec

\* A recording has one default caption at most, whatever transactions
\* interleave, fail or are ended by a deadlock: for any number of them.
THEOREM DefaultIsUnique == CaptionsSpec => []OneDefault
<1>1. CaptionsInv => OneDefault
  <2> SUFFICES ASSUME OneAtMost PROVE OneDefault
    BY DEF CaptionsInv
  <2>1. CASE Defaults = {}
    BY <2>1, FS_EmptySet DEF OneDefault
  <2>2. CASE Defaults # {}
    <3>1. PICK c \in Defaults : Defaults = {c}
      BY <2>2 DEF OneAtMost
    <3>2. Cardinality({c}) = 1
      BY FS_Singleton
    <3> QED
      BY <3>1, <3>2 DEF OneDefault
  <2> QED
    BY <2>1, <2>2
<1> QED
  BY <1>1, CaptionsCorrect, PTL

\* A caption keeps its file as long as it keeps its row, whatever becomes of the
\* COMMIT of its deletion.
THEOREM RowsKeepFiles == CaptionsSpec => []RowKeepsVtt
<1>1. CaptionsInv => RowKeepsVtt
  BY DEF CaptionsInv
<1> QED
  BY <1>1, CaptionsCorrect, PTL

\* A deleted caption leaves no file behind, but for one that comes late.
THEOREM DeletionTakesFile == CaptionsSpec => []DeletedLeavesNothing
<1>1. CaptionsInv => DeletedLeavesNothing
  BY DEF CaptionsInv
<1> QED
  BY <1>1, CaptionsCorrect, PTL

\* Only two steps write the list of captions: the COMMIT of an edit, and that of
\* a deletion, whose handler may see it fail.
LEMMA CaptionWriters ==
    ASSUME [CaptionsNext]_captionVars
    PROVE  \/ caption' = caption /\ known' = known
           \/ \E e \in Editors : EditCommit(e)
           \/ \E d \in Removers :
                /\ Removing(d)
                /\ caption' = [caption EXCEPT ![remove[d].caption] = NoCaption]
                /\ known' = known
<1>1. ASSUME NEW e \in Editors,
             \/ \E x \in CaptionIds :
                 \/ \E r \in Row : CreateBegin(e, x, r) \/ PatchRead(e, x, r)
                 \/ ClearRow(e, x)
             \/ PatchBegin(e) \/ EditWrite(e) \/ EditDropped(e) \/ DeadlockAbort(e)
      PROVE  caption' = caption /\ known' = known
  BY <1>1 DEF CreateBegin, PatchRead, ClearRow, PatchBegin, EditWrite, EditDropped, DeadlockAbort
<1>2. ASSUME NEW d \in Removers, RemoveCommit(d) \/ RemoveUndone(d)
      PROVE  /\ Removing(d) /\ known' = known
             /\ caption' = caption \/ caption' = [caption EXCEPT ![remove[d].caption] = NoCaption]
  BY <1>2 DEF RemoveCommit, RemoveUndone, Removing
<1>3. ASSUME NEW d \in Removers,
             \/ \E x \in CaptionIds : RemoveLock(d, x)
             \/ RemoveRename(d) \/ RemoveRestore(d) \/ RemovePurge(d) \/ RemoveDropped(d)
             \/ OrphanRename(d)
      PROVE  caption' = caption /\ known' = known
  BY <1>3 DEF RemoveLock, RemoveRename, RemoveRestore, RemovePurge, RemoveDropped, OrphanRename
<1>4. ASSUME (\E x \in WithFile : PutFile(x)) \/ CaptionsRestart \/ UNCHANGED captionVars
      PROVE  caption' = caption /\ known' = known
  BY <1>4 DEF PutFile, CaptionsRestart, captionVars
<1> QED
  BY <1>1, <1>2, <1>3, <1>4 DEF CaptionsNext, RemoveGoesOn

LEMMA DefaultStep ==
    ASSUME CaptionsInv, [CaptionsNext]_captionVars, NEW c \in Defaults, Defaults' = {}
    PROVE  caption'[c] = NoCaption \/ \E e \in Editors : edit[e].pc = "commit" /\ edit[e].caption = c
<1>1. ASSUME NEW e \in Editors, EditCommit(e)
      PROVE  edit[e].pc = "commit" /\ edit[e].caption = c
  <2>1. edit[e].pc = "commit" /\ EditFits(e, edit[e])
    BY <1>1, EditTypes DEF EditCommit
  <2>2. ~edit[e].row.default /\ c \in {edit[e].caption} \cup edit[e].cleared
    BY <1>1, CommitFacts
  <2> QED
    BY <2>1, <2>2 DEF EditFits
<1>2. ASSUME NEW d \in Removers, caption' = [caption EXCEPT ![remove[d].caption] = NoCaption]
      PROVE  caption'[c] = NoCaption
  <2>1. c # remove[d].caption => c \in Defaults'
    BY <1>2 DEF Defaults, Rows, CaptionsInv, CaptionsTypeOK
  <2> QED
    BY <1>2, <2>1 DEF Defaults, Rows, CaptionsInv, CaptionsTypeOK
<1>3. CASE caption' = caption
  BY <1>3 DEF Defaults, Rows
<1> QED
  BY <1>1, <1>2, <1>3, CaptionWriters

\* Only the deletion or an edit of the default caption itself leaves the
\* recording without a default.
THEOREM DefaultKept == CaptionsSpec => DefaultNotLost
<1>1. CaptionsInv /\ [CaptionsNext]_captionVars =>
        [\A c \in Defaults : Defaults' = {} =>
           \/ caption'[c] = NoCaption
           \/ \E e \in Editors : edit[e].pc = "commit" /\ edit[e].caption = c]_captionVars
  BY DefaultStep
<1> QED
  BY <1>1, CaptionsCorrect, PTL DEF CaptionsSpec, DefaultNotLost

\* A COMMIT makes its caption what was written, and takes the default from all
\* others when it is the default: those that it has cleared are all there are.
LEMMA CommitSaves ==
    ASSUME CaptionsInv, NEW e \in Editors, EditCommit(e)
    PROVE  /\ edit[e].caption \in CaptionIds /\ edit[e].row.default \in BOOLEAN
           /\ List!Save(edit[e].caption, edit[e].row.default)
<1> DEFINE r == edit[e]
<1>1. r \in TxSlots /\ r.pc = "commit" /\ EditFits(e, r)
  BY EditTypes DEF EditCommit, InTx
<1>2. r.caption \in CaptionIds /\ r.row \in Row /\ r.cleared \subseteq Rows
  BY <1>1, EditTypes DEF EditFits
<1>3. r.row.default \in BOOLEAN /\ r.row = [default |-> r.row.default]
  BY <1>2 DEF Row
<1>4. r.caption \in known => caption[r.caption] # NoCaption
  BY <1>1, <1>2 DEF EditFits, Creates, Rows
<1>5. ASSUME NEW x \in CaptionIds, x # r.caption
      PROVE  caption'[x] = IF r.row.default /\ caption[x] # NoCaption THEN [default |-> FALSE]
                           ELSE caption[x]
  <2>1. caption'[x] = IF x \in r.cleared THEN [caption[x] EXCEPT !.default = FALSE] ELSE caption[x]
    BY <1>5 DEF EditCommit
  <2>2. x \in Rows => caption[x] \in Row
    BY DEF Rows, CaptionsInv, CaptionsTypeOK
  <2>3. CASE x \in r.cleared
    <3>1. r.row.default
      BY <1>1, <2>3 DEF EditFits
    <3>2. x \in Rows /\ caption[x] # NoCaption
      BY <1>2, <2>3 DEF Rows
    <3>3. caption'[x] = [default |-> FALSE]
      <4> DEFINE y == caption[x]
      <4>1. caption'[x] = [y EXCEPT !.default = FALSE]
        BY <2>1, <2>3
      <4>2. y \in Row
        BY <2>2, <3>2
      <4> HIDE DEF y
      <4> QED
        BY <4>1, <4>2 DEF Row
    <3> QED
      BY <3>1, <3>2, <3>3
  <2>4. CASE x \notin r.cleared /\ r.row.default /\ x \in Rows
    <3>1. x \notin Defaults
      BY <1>1, <1>5, <2>4 DEF EditFits, CommitsDefault
    <3>2. caption[x] \in Row /\ ~caption[x].default
      BY <2>2, <2>4, <3>1 DEF Defaults
    <3>3. caption[x] = [default |-> FALSE]
      BY <3>2 DEF Row
    <3> QED
      BY <2>1, <2>4, <3>3 DEF Rows
  <2>5. CASE x \notin r.cleared /\ ~(r.row.default /\ x \in Rows)
    BY <2>1, <2>5 DEF Rows
  <2> QED
    BY <2>3, <2>4, <2>5
<1>6. caption'[r.caption] = [default |-> r.row.default]
  BY <1>2, <1>3 DEF EditCommit
<1>7. caption' = [x \in CaptionIds |->
          IF x = r.caption THEN [default |-> r.row.default]
          ELSE IF r.row.default /\ caption[x] # NoCaption THEN [default |-> FALSE]
          ELSE caption[x]]
  <2>1. caption' \in [CaptionIds -> Row \cup {NoCaption}]
    BY CommitFacts
  <2> QED
    BY <1>5, <1>6, <2>1
<1> QED
  BY <1>2, <1>3, <1>4, <1>7 DEF EditCommit, List!Save

LEMMA ListStep ==
    ASSUME CaptionsInv, [CaptionsNext]_captionVars
    PROVE  [List!ListNext]_<<caption, known>>
<1>1. ASSUME NEW e \in Editors, EditCommit(e)
      PROVE  List!ListNext
  BY <1>1, CommitSaves DEF List!ListNext
<1>2. ASSUME NEW d \in Removers, Removing(d),
             caption' = [caption EXCEPT ![remove[d].caption] = NoCaption], known' = known
      PROVE  List!ListNext
  <2>1. remove[d].caption \in Rows
    BY <1>2 DEF CaptionsInv, RemovesFit
  <2> QED
    BY <1>2, <2>1 DEF List!ListNext, List!Remove, Rows
<1> QED
  BY <1>1, <1>2, CaptionWriters

\* Whatever transactions overlap, wait for each other's rows, are refused,
\* dropped or cut off, the captions implement the list of CaptionList.
THEOREM ListImplemented == CaptionsSpec => ImplementsList
<1>1. CaptionsInit => List!ListInit
  BY DEF CaptionsInit, List!ListInit
<1>2. CaptionsInv /\ [CaptionsNext]_captionVars => [List!ListNext]_List!listVars
  BY ListStep DEF List!listVars
<1> QED
  BY <1>1, <1>2, CaptionsCorrect, PTL DEF CaptionsSpec, ImplementsList, List!ListSpec
=============================================================================
