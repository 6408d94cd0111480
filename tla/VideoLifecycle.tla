--------------------------- MODULE VideoLifecycle ----------------------------
(***************************************************************************)
(* One video on local storage, from POST /api/desktop/video/create to its  *)
(* deletion: the rows of videos and video_uploads, the directory           *)
(* <owner>/<video>, and the handlers that meet there: create, progress     *)
(* (src/routes/desktop.rs), sign (src/routes/upload.rs), PUT of the file   *)
(* (src/routes/media.rs) and delete (src/routes/videos.rs).                *)
(*                                                                         *)
(* Rows and files are in two stores.  Delete moves the directory aside,    *)
(* deletes the row, and puts the directory back if that fails.             *)
(***************************************************************************)
EXTENDS Integers

CONSTANTS
    Puts,       \* slots for concurrent PUTs of result.mp4
    Reports,    \* slots for concurrent progress reports
    Deletes,    \* slots for concurrent deletions
    MaxSize,    \* bound on the sizes that reports name
    UrlAge,     \* PUT_TTL, one hour
    MaxFaults   \* bound on crashes, dropped handlers and failing DELETEs

ASSUME ConstantsAssumption ==
    MaxSize \in Nat \ {0} /\ UrlAge \in Nat /\ MaxFaults \in Nat

VARIABLES
    row,       \* TRUE: the video has its row in videos
    upload,    \* its row in video_uploads, mode 'singlepart'
    creating,  \* TRUE: a create handler is between its two statements
    url,       \* age of the newest signed PUT URL; one above UrlAge: none is valid
    dir,       \* the directory of the video
    trash,     \* trash[d]: the directory that deletion d has moved aside
    put, report, del,   \* the handlers
    stored,    \* history: since it has a row, the video has had its file
    cut,       \* history: a deletion stopped between moving and its end, or
               \* found the place taken when putting the directory back
    faults     \* how many faults are left

vars == <<row, upload, creating, url, dir, trash, put, report, del, stored, cut, faults>>
rows == <<row, upload>>
files == <<dir, trash>>
-----------------------------------------------------------------------------
\* A directory holds result.mp4 or not, and temporary files of PUTs.
NoDir == [there |-> FALSE, result |-> FALSE, temps |-> {}]
IsEmpty(f) == ~f.result /\ f.temps = {}

NoUpload == [uploaded |-> -1, total |-> -1]
NoReport == [pc |-> "idle", uploaded |-> 0, total |-> 1]

Larger(m, n) == IF m > n THEN m ELSE n
Smaller(m, n) == IF m < n THEN m ELSE n

Fault == faults > 0 /\ faults' = faults - 1

Init ==
    /\ row = FALSE
    /\ upload = NoUpload
    /\ creating = FALSE
    /\ url = UrlAge + 1
    /\ dir = NoDir
    /\ trash = [d \in Deletes |-> NoDir]
    /\ put = [p \in Puts |-> "idle"]
    /\ report = [r \in Reports |-> NoReport]
    /\ del = [d \in Deletes |-> "idle"]
    /\ stored = FALSE
    /\ cut = FALSE
    /\ faults = MaxFaults
-----------------------------------------------------------------------------
(* video_create, which clients repeat with the same id.                    *)

\* The upsert writes nothing that is modelled when the row is there.
CreateRow ==
    /\ ~creating
    /\ creating' = TRUE
    /\ row' = TRUE
    /\ stored' = (IF row THEN stored ELSE dir.result)
    /\ UNCHANGED <<upload, url, files, put, report, del, cut, faults>>

\* ON CONFLICT DO NOTHING; without the video the foreign key refuses it.
CreateUpload ==
    /\ creating
    /\ creating' = FALSE
    /\ upload' = IF row /\ upload = NoUpload THEN [uploaded |-> 0, total |-> 0] ELSE upload
    /\ UNCHANGED <<row, url, files, put, report, del, stored, cut, faults>>

\* The client goes away before the second statement, or that one fails.
CreateDropped ==
    /\ creating
    /\ Fault
    /\ creating' = FALSE
    /\ UNCHANGED <<rows, url, files, put, report, del, stored, cut>>
-----------------------------------------------------------------------------
(* video_progress.                                                         *)

\* Slip: the reported size is not limited to the total.
ProgressCheckUnclamped(r, uploaded, total) ==
    /\ row
    /\ report[r].pc = "idle"
    /\ report' = [report EXCEPT ![r] = [pc |-> "upsert", uploaded |-> uploaded, total |-> total]]
    /\ UNCHANGED <<rows, creating, url, files, put, del, stored, cut, faults>>

ProgressCheck(r, uploaded, total) ==
    /\ row
    /\ report[r].pc = "idle"
    /\ report' = [report EXCEPT ![r] =
           [pc |-> "upsert", uploaded |-> Smaller(uploaded, total), total |-> total]]
    /\ UNCHANGED <<rows, creating, url, files, put, del, stored, cut, faults>>

\* Slip: the last report to arrive counts, not the largest.
LastReport(m, n) == n

\* GREATEST(video_uploads.uploaded, EXCLUDED.uploaded)
Greatest(m, n) == Larger(m, n)

\* The foreign key refuses the INSERT when the video is gone.
ProgressUpsert(r) ==
    LET new == [uploaded |-> report[r].uploaded, total |-> report[r].total]
    IN  /\ report[r].pc = "upsert"
        /\ upload' = IF ~row THEN upload
                     ELSE IF upload = NoUpload THEN new
                     ELSE IF new.uploaded > upload.uploaded \/ new.total # upload.total
                     THEN [uploaded |-> Greatest(upload.uploaded, new.uploaded), total |-> new.total]
                     ELSE upload
        /\ report' = [report EXCEPT ![r] = IF row /\ new.uploaded >= new.total
                                           THEN [@ EXCEPT !.pc = "finish"] ELSE NoReport]
        /\ UNCHANGED <<row, creating, url, files, put, del, stored, cut, faults>>

\* Slip: the DELETE does not look at the row again.
FinishUnchecked(r) ==
    /\ report[r].pc = "finish"
    /\ report' = [report EXCEPT ![r] = NoReport]
    /\ upload' = NoUpload
    /\ UNCHANGED <<row, creating, url, files, put, del, stored, cut, faults>>

\* DELETE ... WHERE uploaded >= total
ProgressFinish(r) ==
    /\ report[r].pc = "finish"
    /\ report' = [report EXCEPT ![r] = NoReport]
    /\ upload' = IF upload.uploaded >= upload.total THEN NoUpload ELSE upload
    /\ UNCHANGED <<row, creating, url, files, put, del, stored, cut, faults>>

\* The client goes away, or a statement fails.
ProgressDropped(r) ==
    /\ report[r].pc # "idle"
    /\ Fault
    /\ report' = [report EXCEPT ![r] = NoReport]
    /\ UNCHANGED <<rows, creating, url, files, put, del, stored, cut>>
-----------------------------------------------------------------------------
(* The file: signed, then PUT.                                             *)

Sign ==
    /\ row
    /\ url' = 0
    /\ UNCHANGED <<rows, creating, files, put, report, del, stored, cut, faults>>

\* ensure_parent and the temporary file.  Only the signature is looked at, not
\* the row.  The file is named after the slot, so a slot whose file was left
\* behind waits until the directory is moved; the code's names are fresh.
PutBegin(p) ==
    /\ put[p] = "idle" /\ p \notin dir.temps
    /\ url <= UrlAge
    /\ put' = [put EXCEPT ![p] = "stream"]
    /\ dir' = [dir EXCEPT !.there = TRUE, !.temps = @ \cup {p}]
    /\ UNCHANGED <<rows, creating, url, trash, report, del, stored, cut, faults>>

\* The rename fails when the temporary file is no longer where it was.
PutRename(p) ==
    /\ put[p] = "stream"
    /\ put' = [put EXCEPT ![p] = "idle"]
    /\ IF p \in dir.temps
       THEN /\ dir' = [dir EXCEPT !.result = TRUE, !.temps = @ \ {p}]
            /\ stored' = (stored \/ row)
       ELSE UNCHANGED <<dir, stored>>
    /\ UNCHANGED <<rows, creating, url, trash, report, del, cut, faults>>

\* The body ends early or is too long; the temporary file is removed.
PutFails(p) ==
    /\ put[p] = "stream"
    /\ put' = [put EXCEPT ![p] = "idle"]
    /\ dir' = [dir EXCEPT !.temps = @ \ {p}]
    /\ UNCHANGED <<rows, creating, url, trash, report, del, stored, cut, faults>>

\* The client goes away: the temporary file stays.
PutDropped(p) ==
    /\ put[p] = "stream"
    /\ Fault
    /\ put' = [put EXCEPT ![p] = "idle"]
    /\ UNCHANGED <<rows, creating, url, files, report, del, stored, cut>>
-----------------------------------------------------------------------------
(* delete_owned_video.                                                     *)

DeleteCheck(d) ==
    /\ del[d] = "idle"
    /\ row
    /\ del' = [del EXCEPT ![d] = "rename"]
    /\ UNCHANGED <<rows, creating, url, files, put, report, stored, cut, faults>>

\* Slip: a missing directory is an error like any other.
RenameOrFail(d) ==
    /\ del[d] = "rename"
    /\ del' = [del EXCEPT ![d] = IF dir.there THEN "delete" ELSE "idle"]
    /\ trash' = [trash EXCEPT ![d] = dir]
    /\ dir' = NoDir
    /\ UNCHANGED <<rows, creating, url, put, report, stored, cut, faults>>

\* Into .<video>.trash-<uuid>; NotFound is no error.
DeleteRename(d) ==
    /\ del[d] = "rename"
    /\ del' = [del EXCEPT ![d] = "delete"]
    /\ trash' = [trash EXCEPT ![d] = dir]
    /\ dir' = NoDir
    /\ UNCHANGED <<rows, creating, url, put, report, stored, cut, faults>>

\* Slip: when the DELETE fails the directory is not put back.
RestoreForgotten(d) ==
    LET moved == trash[d].there
    IN  /\ del[d] = "delete"
        /\ \/ /\ row' = FALSE /\ upload' = NoUpload /\ stored' = FALSE
              /\ del' = [del EXCEPT ![d] = IF moved THEN "purge" ELSE "idle"]
              /\ UNCHANGED faults
           \/ /\ Fault
              /\ del' = [del EXCEPT ![d] = "idle"]
              /\ UNCHANGED <<rows, stored>>
        /\ UNCHANGED <<creating, url, files, put, report, cut>>

\* DELETE FROM videos, which takes the row of video_uploads with it.
DeleteRow(d) ==
    LET moved == trash[d].there
    IN  /\ del[d] = "delete"
        /\ \/ /\ row' = FALSE /\ upload' = NoUpload /\ stored' = FALSE
              /\ del' = [del EXCEPT ![d] = IF moved THEN "purge" ELSE "idle"]
              /\ UNCHANGED faults
           \/ /\ Fault
              /\ del' = [del EXCEPT ![d] = IF moved THEN "restore" ELSE "idle"]
              /\ UNCHANGED <<rows, stored>>
        /\ UNCHANGED <<creating, url, files, put, report, cut>>

\* A directory is renamed onto nothing or onto an empty one.  If a PUT has
\* made the directory again meanwhile, the moved one stays where it is.
DeleteRestore(d) ==
    /\ del[d] = "restore"
    /\ del' = [del EXCEPT ![d] = "idle"]
    /\ trash' = [trash EXCEPT ![d] = NoDir]
    /\ IF IsEmpty(dir) THEN dir' = trash[d] /\ UNCHANGED cut
       ELSE UNCHANGED dir /\ cut' = TRUE
    /\ UNCHANGED <<rows, creating, url, put, report, stored, faults>>

\* remove_dir_all of the trash
DeletePurge(d) ==
    /\ del[d] = "purge"
    /\ del' = [del EXCEPT ![d] = "idle"]
    /\ trash' = [trash EXCEPT ![d] = NoDir]
    /\ UNCHANGED <<rows, creating, url, dir, put, report, stored, cut, faults>>

\* The client goes away, or a rename or the removal fails otherwise.  What was
\* moved aside stays aside; the slot's trash is forgotten because no later
\* step of the program names it.
DeleteDropped(d) ==
    /\ del[d] # "idle"
    /\ Fault
    /\ del' = [del EXCEPT ![d] = "idle"]
    /\ trash' = [trash EXCEPT ![d] = NoDir]
    /\ cut' = (cut \/ (del[d] \in {"delete", "restore"} /\ trash[d].there))
    /\ UNCHANGED <<rows, creating, url, dir, put, report, stored>>
-----------------------------------------------------------------------------
\* Every handler ends; rows and files stay.
Crash ==
    /\ Fault
    /\ creating' = FALSE
    /\ put' = [p \in Puts |-> "idle"]
    /\ report' = [r \in Reports |-> NoReport]
    /\ del' = [d \in Deletes |-> "idle"]
    /\ trash' = [d \in Deletes |-> NoDir]
    /\ cut' = (cut \/ \E d \in Deletes : del[d] \in {"delete", "restore"} /\ trash[d].there)
    /\ UNCHANGED <<rows, url, dir, stored>>

Tick ==
    /\ url' = Smaller(url + 1, UrlAge + 1)
    /\ UNCHANGED <<rows, creating, files, put, report, del, stored, cut, faults>>

Create == CreateRow \/ CreateUpload \/ CreateDropped
Progress(r) ==
    \/ \E uploaded \in 0..MaxSize + 1, total \in 1..MaxSize : ProgressCheck(r, uploaded, total)
    \/ ProgressUpsert(r) \/ ProgressFinish(r) \/ ProgressDropped(r)
PutStep(p) == PutBegin(p) \/ PutRename(p) \/ PutFails(p) \/ PutDropped(p)
DeleteGoesOn(d) == DeleteRename(d) \/ DeleteRow(d) \/ DeleteRestore(d) \/ DeletePurge(d)

Next ==
    \/ Create \/ Sign
    \/ \E r \in Reports : Progress(r)
    \/ \E p \in Puts : PutStep(p)
    \/ \E d \in Deletes : DeleteCheck(d) \/ DeleteGoesOn(d) \/ DeleteDropped(d)
    \/ Crash \/ Tick

Spec == Init /\ [][Next]_vars

\* The runtime polls the delete handlers; an owner who means it asks again.
FairSpec ==
    /\ Spec
    /\ \A d \in Deletes : WF_vars(DeleteGoesOn(d))
    /\ \E d \in Deletes : WF_vars(DeleteCheck(d))
-----------------------------------------------------------------------------
(* Properties.                                                             *)

\* Every variable stays within its type, and no report leaves a size behind
\* that is larger than any total.
Dirs == [there : BOOLEAN, result : BOOLEAN, temps : SUBSET Puts]
TypeOK ==
    /\ row \in BOOLEAN /\ creating \in BOOLEAN /\ stored \in BOOLEAN /\ cut \in BOOLEAN
    /\ upload \in [uploaded : 0..MaxSize, total : 0..MaxSize] \cup {NoUpload}
    /\ url \in 0..UrlAge + 1
    /\ dir \in Dirs
    /\ trash \in [Deletes -> Dirs]
    /\ put \in [Puts -> {"idle", "stream"}]
    /\ report \in [Reports -> [pc : {"idle", "upsert", "finish"},
                               uploaded : 0..MaxSize, total : 1..MaxSize]]
    /\ del \in [Deletes -> {"idle", "rename", "delete", "restore", "purge"}]
    /\ faults \in 0..MaxFaults

\* delete_owned_video puts the directory back when the DELETE fails: whatever
\* deletions and PUTs do to each other, a video that keeps its row keeps its
\* file, unless a deletion was cut off or could not put it back.
RowKeepsFile ==
    row /\ stored /\ ~cut /\ (\A d \in Deletes : del[d] \notin {"delete", "restore"})
        => dir.result

\* Reports overtake each other; the size that is shown never falls.
ProgressNeverFalls ==
    [][upload # NoUpload /\ upload' # NoUpload => upload'.uploaded >= upload.uploaded]_vars

\* A report that reached its total removes the row in a second statement.  A
\* report with a larger total that came in between keeps it.
OnlyFinishedEnds ==
    [][upload # NoUpload /\ upload' = NoUpload /\ row' => upload.uploaded >= upload.total]_vars

\* A deletion that was cut off can be repeated, also when the directory is gone
\* already: an owner who goes on asking gets rid of the row.
DeletionRepeatable == row ~> ~row
=============================================================================
