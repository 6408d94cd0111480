------------------------------- MODULE Captions -------------------------------
(***************************************************************************)
(* The captions of one recording on local storage: rows of video_captions, *)
(* of which at most one is the default, and their .vtt files.  Creating,   *)
(* editing and deleting (src/routes/collaboration.rs) are transactions of  *)
(* several statements; the file is PUT by whoever has the signed URL.      *)
(*                                                                         *)
(* PostgreSQL is external: a statement waits for the rows that another     *)
(* transaction has locked, a unique index waits for what is not committed, *)
(* a deadlock ends one of those in it, and what was not committed is       *)
(* undone.                                                                 *)
(***************************************************************************)
EXTENDS FiniteSets, Integers

CONSTANTS
    CaptionIds,   \* bound on the captions that are ever created
    WithFile,     \* those of them whose client goes on to PUT the file
    NoCaption,    \* stands for no row and for no caption
    Editors,      \* slots for concurrent POST and PATCH
    Removers,     \* slots for concurrent DELETE
    CaptionFaults \* bound on dropped handlers, failing commits and restarts

ASSUME CaptionsAssumption ==
    /\ WithFile \subseteq CaptionIds
    /\ NoCaption \notin CaptionIds /\ NoCaption \notin [default : BOOLEAN]
    /\ CaptionFaults \in Nat

VARIABLES
    caption,   \* caption[c]: its committed row
    edit,      \* the transactions of POST and PATCH
    remove,    \* the transactions of DELETE
    vtt,       \* the captions whose file is in its place
    known,     \* history: the ids that were given out, with a PUT URL
    uploaded,    \* history: captions whose file was in its place once
    torn,      \* history: captions whose deletion was cut off between the two
    late,      \* history: captions whose file came back after their deletion
    captionFaults

captionVars == <<caption, edit, remove, vtt, known, uploaded, torn, late, captionFaults>>
-----------------------------------------------------------------------------
\* What the model keeps of a row; its other fields are data that no step looks
\* at, except that a default caption has to be enabled.
Row == [default : BOOLEAN]
Rows == {c \in CaptionIds : caption[c] # NoCaption}
Defaults == {c \in Rows : caption[c].default}

IdleEdit == [pc |-> "idle"]
NoRemove == [pc |-> "idle", caption |-> NoCaption]

CaptionsInit ==
    /\ caption = [c \in CaptionIds |-> NoCaption]
    /\ edit = [e \in Editors |-> IdleEdit]
    /\ remove = [d \in Removers |-> NoRemove]
    /\ vtt = {}
    /\ known = {}
    /\ uploaded = {}
    /\ torn = {}
    /\ late = {}
    /\ captionFaults = CaptionFaults

CaptionFault == captionFaults > 0 /\ captionFaults' = captionFaults - 1

EditEnds(e) == edit' = [edit EXCEPT ![e] = IdleEdit]
Writes(e) == edit[e].pc = "clear" /\ edit[e].todo = {}
InTx(e) == edit[e].pc \in {"clear", "commit"}
-----------------------------------------------------------------------------
(* Locks.  A transaction holds the rows that it has updated.               *)

Holds(e) ==
    IF ~InTx(e) THEN {}
    ELSE edit[e].cleared \cup (IF edit[e].pc = "commit" THEN {edit[e].caption} ELSE {})

RemoverHolds(c) ==
    \E d \in Removers :
        remove[d].caption = c /\ remove[d].pc \notin {"orphan", "restore", "purge"}
FreeFor(e, c) == ~RemoverHolds(c) /\ \A f \in Editors \ {e} : c \notin Holds(f)
Free(c) == ~RemoverHolds(c) /\ \A f \in Editors : c \notin Holds(f)

\* A committed default row that this transaction has not cleared.
Rivals(e) == Defaults \ (edit[e].cleared \cup {edit[e].caption})

\* Another transaction is about to add or to take away a default row.
Unsettled(e) ==
    \/ \E c \in Rivals(e) : ~FreeFor(e, c)
    \/ \E f \in Editors \ {e} : edit[f].pc = "commit" /\ edit[f].row.default
-----------------------------------------------------------------------------
(* POST and PATCH.                                                         *)

\* create_caption: a fresh id; the rows that will be cleared are those that
\* the first statement sees.
CreateBegin(e, c, row) ==
    /\ edit[e].pc = "idle"
    /\ c \notin known /\ \A f \in Editors : edit[f].pc # "idle" => edit[f].caption # c
    /\ edit' = [edit EXCEPT ![e] =
           [pc |-> "clear", caption |-> c, new |-> TRUE, row |-> row,
            todo |-> IF row.default THEN Rows ELSE {}, cleared |-> {}]]
    /\ UNCHANGED <<caption, remove, vtt, known, uploaded, torn, late, captionFaults>>

\* patch_caption reads the caption before its transaction begins, and keeps
\* what it has read of the fields that the body leaves out.
PatchRead(e, c, row) ==
    /\ edit[e].pc = "idle"
    /\ c \in Rows
    /\ edit' = [edit EXCEPT ![e] = [pc |-> "begin", caption |-> c, new |-> FALSE, row |-> row]]
    /\ UNCHANGED <<caption, remove, vtt, known, uploaded, torn, late, captionFaults>>

PatchBegin(e) ==
    LET r == edit[e]
    IN  /\ r.pc = "begin"
        /\ edit' = [edit EXCEPT ![e] =
               [pc |-> "clear", caption |-> r.caption, new |-> FALSE, row |-> r.row,
                todo |-> IF r.row.default THEN Rows \ {r.caption} ELSE {}, cleared |-> {}]]
        /\ UNCHANGED <<caption, remove, vtt, known, uploaded, torn, late, captionFaults>>

\* Slip: the other rows are cleared by statements outside the transaction.
ClearAtOnce(e, c) ==
    /\ edit[e].pc = "clear"
    /\ c \in edit[e].todo /\ FreeFor(e, c)
    /\ edit' = [edit EXCEPT ![e].todo = @ \ {c}]
    /\ caption' = IF c \in Rows THEN [caption EXCEPT ![c].default = FALSE] ELSE caption
    /\ UNCHANGED <<remove, vtt, known, uploaded, torn, late, captionFaults>>

\* SET is_default = false, one row after the other; a row that was deleted
\* meanwhile is passed over.
ClearRow(e, c) ==
    /\ edit[e].pc = "clear"
    /\ c \in edit[e].todo /\ FreeFor(e, c)
    /\ edit' = [edit EXCEPT ![e].todo = @ \ {c},
                            ![e].cleared = IF c \in Rows THEN @ \cup {c} ELSE @]
    /\ UNCHANGED <<caption, remove, vtt, known, uploaded, torn, late, captionFaults>>

\* Slip: no unique index, the statement that clears is trusted.
WriteUnchecked(e) ==
    /\ Writes(e)
    /\ edit[e].new \/ FreeFor(e, edit[e].caption)
    /\ IF ~edit[e].new /\ edit[e].caption \notin Rows THEN EditEnds(e)
       ELSE edit' = [edit EXCEPT ![e].pc = "commit"]
    /\ UNCHANGED <<caption, remove, vtt, known, uploaded, torn, late, captionFaults>>

\* The INSERT or the UPDATE of the caption itself.  It is refused when the
\* caption is gone, and by the unique index when another default was committed
\* after the rows to clear were looked up; either ends the transaction.
EditWrite(e) ==
    LET r == edit[e]
    IN  /\ Writes(e)
        /\ r.new \/ FreeFor(e, r.caption)
        /\ r.row.default => ~Unsettled(e)
        /\ IF ~r.new /\ r.caption \notin Rows THEN EditEnds(e)
           ELSE IF r.row.default /\ Rivals(e) # {} THEN EditEnds(e)
           ELSE edit' = [edit EXCEPT ![e].pc = "commit"]
        /\ UNCHANGED <<caption, remove, vtt, known, uploaded, torn, late, captionFaults>>

EditCommit(e) ==
    LET r == edit[e]
    IN  /\ r.pc = "commit"
        /\ caption' = [c \in CaptionIds |->
               IF c = r.caption THEN r.row
               ELSE IF c \in r.cleared THEN [caption[c] EXCEPT !.default = FALSE]
               ELSE caption[c]]
        /\ known' = known \cup {r.caption}
        /\ EditEnds(e)
        /\ UNCHANGED <<remove, vtt, uploaded, torn, late, captionFaults>>

\* The client goes away, or a statement or the COMMIT fails: all is undone.
EditDropped(e) ==
    /\ edit[e].pc # "idle"
    /\ CaptionFault
    /\ EditEnds(e)
    /\ UNCHANGED <<caption, remove, vtt, known, uploaded, torn, late>>

\* e waits for a row that f holds, or for what f does to the default.
WaitsFor(e, f) ==
    /\ e # f
    /\ \/ edit[e].pc = "clear" /\ edit[e].todo \cap Holds(f) # {}
       \/ Writes(e) /\ ~edit[e].new /\ edit[e].caption \in Holds(f)
       \/ Writes(e) /\ edit[e].row.default
          /\ (Rivals(e) \cap Holds(f) # {} \/ (edit[f].pc = "commit" /\ edit[f].row.default))

\* PostgreSQL ends one of the transactions that wait for each other.
DeadlockAbort(e) ==
    /\ \E ring \in SUBSET Editors :
           e \in ring /\ \A f \in ring : \E g \in ring : WaitsFor(f, g)
    /\ EditEnds(e)
    /\ UNCHANGED <<caption, remove, vtt, known, uploaded, torn, late, captionFaults>>
-----------------------------------------------------------------------------
(* DELETE: the file is moved aside inside the transaction.                 *)

\* SELECT ... FOR UPDATE, and the DELETE.
RemoveLock(d, c) ==
    /\ remove[d].pc = "idle"
    /\ c \in Rows /\ Free(c)
    /\ remove' = [remove EXCEPT ![d] = [pc |-> "rename", caption |-> c]]
    /\ UNCHANGED <<caption, edit, vtt, known, uploaded, torn, late, captionFaults>>

RemoveGoes(d, pc) == remove' = [remove EXCEPT ![d].pc = pc]
RemoveEnds(d) == remove' = [remove EXCEPT ![d] = NoRemove]

\* Slip: the row goes without its file.
RenameForgotten(d) ==
    /\ remove[d].pc = "rename"
    /\ RemoveGoes(d, "commit")
    /\ UNCHANGED <<caption, edit, vtt, known, uploaded, torn, late, captionFaults>>

\* A file that is not there is no error.
RemoveRename(d) ==
    LET c == remove[d].caption
    IN  /\ remove[d].pc = "rename"
        /\ RemoveGoes(d, IF c \in vtt THEN "moved" ELSE "commit")
        /\ vtt' = vtt \ {c}
        /\ late' = late \ {c}
        /\ UNCHANGED <<caption, edit, known, uploaded, torn, captionFaults>>

RemoveCommit(d) ==
    LET c == remove[d].caption
    IN  /\ remove[d].pc \in {"commit", "moved"}
        /\ caption' = [caption EXCEPT ![c] = NoCaption]
        /\ IF remove[d].pc = "commit" THEN RemoveEnds(d) ELSE RemoveGoes(d, "purge")
        /\ UNCHANGED <<edit, vtt, known, uploaded, torn, late, captionFaults>>

\* Slip: the moved file is left where it is when the COMMIT fails.
CommitFailsOnly(d) ==
    /\ remove[d].pc \in {"commit", "moved"}
    /\ CaptionFault
    /\ RemoveEnds(d)
    /\ UNCHANGED <<caption, edit, vtt, known, uploaded, torn, late>>

\* COMMIT fails, and the file is put back; when only its answer was lost the
\* row is gone all the same.
RemoveUndone(d) ==
    /\ remove[d].pc \in {"commit", "moved"}
    /\ CaptionFault
    /\ IF remove[d].pc = "moved" THEN RemoveGoes(d, "restore") ELSE RemoveEnds(d)
    /\ caption' \in {caption, [caption EXCEPT ![remove[d].caption] = NoCaption]}
    /\ UNCHANGED <<edit, vtt, known, uploaded, torn, late>>

\* A file that comes back while the row goes, or after that, stays for good.
ComesBack(c) == late' = IF c \in Rows /\ ~RemoverHolds(c) THEN late ELSE late \cup {c}

RemoveRestore(d) ==
    LET c == remove[d].caption
    IN  /\ remove[d].pc = "restore"
        /\ vtt' = vtt \cup {c}
        /\ ComesBack(c)
        /\ RemoveEnds(d)
        /\ UNCHANGED <<caption, edit, known, uploaded, torn, captionFaults>>

\* remove_file of what was moved aside
RemovePurge(d) ==
    /\ remove[d].pc = "purge"
    /\ RemoveEnds(d)
    /\ UNCHANGED <<caption, edit, vtt, known, uploaded, torn, late, captionFaults>>

\* Slip: a dropped handler leaves its transaction open on the connection.
DropKeepsLock(d) ==
    /\ remove[d].pc # "idle"
    /\ CaptionFault
    /\ remove' = [remove EXCEPT ![d].pc = "open"]
    /\ UNCHANGED <<caption, edit, vtt, known, uploaded, torn, late>>

CutOff(d) == remove[d].pc \in {"moved", "restore"}

\* The client goes away, or a step fails: the transaction is undone and its
\* lock is free, a file that was moved stays aside.  A rename that the runtime
\* has already handed to a thread is done all the same, some time later.
RemoveDropped(d) ==
    /\ remove[d].pc \notin {"idle", "orphan"}
    /\ CaptionFault
    /\ RemoveEnds(d) \/ (remove[d].pc = "rename" /\ RemoveGoes(d, "orphan"))
    /\ torn' = torn \cup (IF CutOff(d) THEN {remove[d].caption} ELSE {})
    /\ UNCHANGED <<caption, edit, vtt, known, uploaded, late>>

\* What the row and other transactions have become meanwhile does not matter.
OrphanRename(d) ==
    LET c == remove[d].caption
    IN  /\ remove[d].pc = "orphan"
        /\ RemoveEnds(d)
        /\ vtt' = vtt \ {c}
        /\ torn' = torn \cup (vtt \cap {c})
        /\ late' = late \ {c}
        /\ UNCHANGED <<caption, edit, known, uploaded, captionFaults>>
-----------------------------------------------------------------------------
(* The file, through the signed URL, which outlives the row.               *)

\* The rename that makes a PUT's file whole, whatever has become of the row;
\* a PUT that fails before it leaves nothing.
PutFile(c) ==
    /\ c \in known
    /\ vtt' = vtt \cup {c}
    /\ uploaded' = uploaded \cup {c}
    /\ torn' = torn \ {c}
    /\ ComesBack(c)
    /\ UNCHANGED <<caption, edit, remove, known, captionFaults>>
-----------------------------------------------------------------------------
\* Every transaction is undone; rows and files stay.
CaptionsRestart ==
    /\ CaptionFault
    /\ edit' = [e \in Editors |-> IdleEdit]
    /\ remove' = [d \in Removers |-> NoRemove]
    /\ torn' = torn \cup {remove[d].caption : d \in {x \in Removers : CutOff(x)}}
    /\ UNCHANGED <<caption, vtt, known, uploaded, late>>

RemoveGoesOn(d) ==
    RemoveRename(d) \/ RemoveCommit(d) \/ RemoveRestore(d) \/ RemovePurge(d) \/ OrphanRename(d)

CaptionsNext ==
    \/ \E e \in Editors :
        \/ \E c \in CaptionIds :
            \/ \E row \in Row : CreateBegin(e, c, row) \/ PatchRead(e, c, row)
            \/ ClearRow(e, c)
        \/ PatchBegin(e) \/ EditWrite(e) \/ EditCommit(e)
        \/ EditDropped(e) \/ DeadlockAbort(e)
    \/ \E d \in Removers :
        \/ \E c \in CaptionIds : RemoveLock(d, c)
        \/ RemoveGoesOn(d) \/ RemoveUndone(d) \/ RemoveDropped(d)
    \/ \E c \in WithFile : PutFile(c)
    \/ CaptionsRestart

CaptionsSpec == CaptionsInit /\ [][CaptionsNext]_captionVars

\* The runtime polls the handlers; PostgreSQL finds every deadlock, and lets
\* those that wait for a row have it in turn.
EditGoesOn(e) == PatchBegin(e) \/ EditCommit(e) \/ DeadlockAbort(e)
EditWaits(e) == EditWrite(e) \/ \E c \in CaptionIds : ClearRow(e, c)
CaptionsFairness ==
    /\ \A e \in Editors : WF_captionVars(EditGoesOn(e)) /\ SF_captionVars(EditWaits(e))
    /\ \A d \in Removers : WF_captionVars(RemoveGoesOn(d))
-----------------------------------------------------------------------------
(* Properties.                                                             *)

\* Every variable stays within its type.
CaptionsTypeOK ==
    /\ caption \in [CaptionIds -> Row \cup {NoCaption}]
    /\ edit \in [Editors -> {IdleEdit} \cup
           [pc : {"begin"}, caption : CaptionIds, new : {FALSE}, row : Row] \cup
           [pc : {"clear", "commit"}, caption : CaptionIds, new : BOOLEAN, row : Row,
            todo : SUBSET CaptionIds, cleared : SUBSET CaptionIds]]
    /\ remove \in [Removers -> [pc : {"idle", "rename", "commit", "moved", "orphan",
                                       "restore", "purge"},
                                caption : CaptionIds \cup {NoCaption}]]
    /\ vtt \cup torn \cup late \subseteq uploaded /\ uploaded \subseteq known
    /\ known \subseteq CaptionIds
    /\ captionFaults \in 0..CaptionFaults

\* idx_video_captions_default, and the statement that clears the other rows:
\* whatever transactions interleave, a recording has one default caption at
\* most.
OneDefault == Cardinality(Defaults) <= 1

\* The other rows are cleared in the transaction that writes the new default:
\* a refused, failed or dropped edit of another caption never leaves the
\* recording without the default it had.
DefaultNotLost ==
    [][\A c \in Defaults : Defaults' = {} =>
          \/ caption'[c] = NoCaption
          \/ \E e \in Editors : edit[e].pc = "commit" /\ edit[e].caption = c]_captionVars

\* delete_caption puts the file back when the COMMIT fails: a caption that
\* keeps its row keeps its file, unless a deletion was cut off after it had
\* moved the file aside.
RowKeepsVtt ==
    \A c \in (uploaded \cap Rows) \ torn :
        c \in vtt \/ \E d \in Removers : CutOff(d) /\ remove[d].caption = c

\* A caption that was deleted leaves no file that a signed URL still reads,
\* unless a late PUT, or a restore that a second deletion overtook, made one.
DeletedLeavesNothing == vtt \subseteq Rows \cup late

\* Whatever transactions overlap, wait, are refused, dropped or cut off, the
\* captions change as CaptionList says: a COMMIT makes one caption what its
\* author wrote and takes the default from all others at once, an edit of a
\* caption that was deleted meanwhile does nothing, and no id is used again.
List == INSTANCE CaptionList
ImplementsList == List!ListSpec

\* Two edits that lock each other's captions end, one of them refused, and no
\* dropped handler leaves a row locked.
EditsEnd == \A e \in Editors : edit[e].pc # "idle" ~> edit[e].pc = "idle"
=============================================================================
