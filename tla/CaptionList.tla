----------------------------- MODULE CaptionList -----------------------------
(***************************************************************************)
(* What the owner of a recording is promised about its captions, without   *)
(* transactions, locks or files: a list that changes by one caption at a   *)
(* time, in which whoever makes a caption the default takes that from all  *)
(* others in the same step, and in which nothing that was deleted comes    *)
(* back.  Captions is shown to implement this specification.               *)
(***************************************************************************)
CONSTANTS
    CaptionIds,
    NoCaption

VARIABLES
    caption,   \* caption[c]: what the list says of c, NoCaption when c is not in it
    known      \* the ids that were given out

listVars == <<caption, known>>

ListInit ==
    /\ caption = [c \in CaptionIds |-> NoCaption]
    /\ known = {}

\* A caption is added under a new id, or one that is there is rewritten; the
\* others change only when it becomes the default.
Save(c, default) ==
    /\ c \in known => caption[c] # NoCaption
    /\ caption' = [x \in CaptionIds |->
           IF x = c THEN [default |-> default]
           ELSE IF default /\ caption[x] # NoCaption THEN [default |-> FALSE]
           ELSE caption[x]]
    /\ known' = known \cup {c}

Remove(c) ==
    /\ caption[c] # NoCaption
    /\ caption' = [caption EXCEPT ![c] = NoCaption]
    /\ UNCHANGED known

ListNext == \E c \in CaptionIds : Remove(c) \/ \E default \in BOOLEAN : Save(c, default)

ListSpec == ListInit /\ [][ListNext]_listVars
=============================================================================
