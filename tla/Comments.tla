------------------------------ MODULE Comments ------------------------------
(***************************************************************************)
(* The comments on one recording (src/routes/collaboration.rs, table       *)
(* video_comments): a comment is top-level or replies to a top-level one,  *)
(* its author may edit it, its author and the recording's owner may delete *)
(* it, replies included.  Creating and editing read before they write, and *)
(* everything else may happen in between.                                  *)
(*                                                                         *)
(* PostgreSQL is external: a statement is atomic, and keeps the foreign    *)
(* keys of the tables.                                                     *)
(***************************************************************************)
EXTENDS VideoRow

CONSTANTS
    CommentIds, \* bound on the comments that are ever written
    NoComment,  \* stands for no row and for no parent
    Authors,    \* who writes comments
    Owner,      \* the owner of the recording, perhaps one of them
    Texts,      \* what a comment may say
    Posters     \* slots for concurrent POST and PATCH

ASSUME CommentsAssumption ==
    /\ NoComment \notin CommentIds
    /\ NoComment \notin [author : Authors, parent : CommentIds \cup {NoComment}, text : Texts]

VARIABLES
    comment,  \* comment[c]: its row
    post,     \* the handlers of POST and PATCH
    deleted   \* history: the comments that were deleted

commentsVars == <<videoRow, comment, post, deleted>>
-----------------------------------------------------------------------------
Comment == [author : Authors, parent : CommentIds \cup {NoComment}, text : Texts]
Posted == {c \in CommentIds : comment[c] # NoComment}
TopLevel == {c \in Posted : comment[c].parent = NoComment}
Replies(c) == {r \in Posted : comment[r].parent = c}
Fresh == {c \in CommentIds \ (Posted \cup deleted) :
            \A h \in Posters : post[h].pc # "idle" => post[h].comment # c}

IdlePost == [pc |-> "idle"]

CommentsInit ==
    /\ VideoRowInit
    /\ comment = [c \in CommentIds |-> NoComment]
    /\ post = [h \in Posters |-> IdlePost]
    /\ deleted = {}

PostEnds(h) == post' = [post EXCEPT ![h] = IdlePost]
-----------------------------------------------------------------------------
\* create_comment: the parent has to be a top-level comment of the recording.
CheckParent(h, c, row) ==
    /\ post[h].pc = "idle"
    /\ videoRow
    /\ c \in Fresh
    /\ row.parent \in TopLevel \cup {NoComment}
    /\ post' = [post EXCEPT ![h] = [pc |-> "insert", comment |-> c, row |-> row]]
    /\ UNCHANGED <<videoRow, comment, deleted>>

\* Slip: no foreign keys, the check is trusted.
InsertUnchecked(h) ==
    /\ post[h].pc = "insert"
    /\ comment' = [comment EXCEPT ![post[h].comment] = post[h].row]
    /\ PostEnds(h)
    /\ UNCHANGED <<videoRow, deleted>>

\* The INSERT; the foreign keys refuse it when the parent or the recording has
\* gone since.
Insert(h) ==
    LET row == post[h].row
    IN  /\ post[h].pc = "insert"
        /\ IF videoRow /\ row.parent \in Posted \cup {NoComment}
           THEN comment' = [comment EXCEPT ![post[h].comment] = row]
           ELSE UNCHANGED comment
        /\ PostEnds(h)
        /\ UNCHANGED <<videoRow, deleted>>

\* patch_comment reads the comment of its author and fills in what the body
\* leaves out.
PatchReads(h, c, a, text) ==
    /\ post[h].pc = "idle"
    /\ c \in Posted /\ comment[c].author = a
    /\ post' = [post EXCEPT ![h] =
           [pc |-> "update", comment |-> c, row |-> [comment[c] EXCEPT !.text = text]]]
    /\ UNCHANGED <<videoRow, comment, deleted>>

\* Slip: what was read is written back, whether or not the row is still there.
PatchUpserts(h) ==
    /\ post[h].pc = "update"
    /\ comment' = [comment EXCEPT ![post[h].comment] = post[h].row]
    /\ PostEnds(h)
    /\ UNCHANGED <<videoRow, deleted>>

\* UPDATE ... WHERE id and author: nothing when the comment has gone since.
PatchWrites(h) ==
    LET c == post[h].comment
    IN  /\ post[h].pc = "update"
        /\ comment' = IF c \in Posted THEN [comment EXCEPT ![c].text = post[h].row.text] ELSE comment
        /\ PostEnds(h)
        /\ UNCHANGED <<videoRow, deleted>>

\* The client goes away.
PostDropped(h) ==
    /\ post[h].pc # "idle"
    /\ PostEnds(h)
    /\ UNCHANGED <<videoRow, comment, deleted>>
-----------------------------------------------------------------------------
Without(gone) == [c \in CommentIds |-> IF c \in gone THEN NoComment ELSE comment[c]]

\* delete_comment, by its author or by the owner; the replies go with it.
DeleteComment(c, u) ==
    /\ c \in Posted /\ u \in {comment[c].author, Owner}
    /\ comment' = Without({c} \cup Replies(c))
    /\ deleted' = deleted \cup {c} \cup Replies(c)
    /\ UNCHANGED <<videoRow, post>>

\* The recording is deleted, and all comments with it.
CommentsCascade ==
    /\ VideoRowGone
    /\ comment' = Without(Posted)
    /\ deleted' = deleted \cup Posted
    /\ UNCHANGED post

CommentsNext ==
    \/ \E h \in Posters :
        \/ \E c \in CommentIds, row \in Comment : CheckParent(h, c, row)
        \/ \E c \in CommentIds, a \in Authors, text \in Texts : PatchReads(h, c, a, text)
        \/ Insert(h) \/ PatchWrites(h) \/ PostDropped(h)
    \/ \E c \in CommentIds, u \in Authors \cup {Owner} : DeleteComment(c, u)
    \/ CommentsCascade
    \/ VideoRowAgain /\ UNCHANGED <<comment, post, deleted>>

CommentsSpec == CommentsInit /\ [][CommentsNext]_commentsVars
-----------------------------------------------------------------------------
(* Properties.                                                             *)

\* Every variable stays within its type.
CommentsTypeOK ==
    /\ videoRow \in BOOLEAN
    /\ comment \in [CommentIds -> Comment \cup {NoComment}]
    /\ post \in [Posters -> {IdlePost} \cup
           [pc : {"insert", "update"}, comment : CommentIds, row : Comment]]
    /\ deleted \subseteq CommentIds

\* The parent is looked up in a statement of its own, and may be deleted before
\* the reply is written: still every reply has its thread, and threads are one
\* level deep.
RepliesHaveThread ==
    \A c \in Posted : comment[c].parent \in TopLevel \cup {NoComment}

\* A moderator's deletion is final: an edit or a reply that was under way does
\* not bring a comment back, and none outlives its recording.
DeletedStaysDeleted ==
    /\ Posted \cap deleted = {}
    /\ ~videoRow => Posted = {}
=============================================================================
