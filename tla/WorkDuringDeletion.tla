-------------------------- MODULE WorkDuringDeletion --------------------------
(***************************************************************************)
(* VideoLifecycle composed with the two tasks that make result.mp4 on the  *)
(* server: the assembly of a multipart upload and the muxing of segments   *)
(* (src/routes/upload.rs).  A deletion moves the directory away under      *)
(* them; they make it again, publish into it, fail, or mark a row that is  *)
(* gone or that is another recording's by now.                             *)
(*                                                                         *)
(* How claims exclude each other is in MultipartUpload and MuxJobs; here   *)
(* there is no clock, and a claim can be taken over at any time, so two    *)
(* workers can be at one recording.  The temps of VideoLifecycle are the   *)
(* directory's entries other than result.mp4: a worker's temporary file,   *)
(* and the segments.                                                       *)
(***************************************************************************)
EXTENDS VideoLifecycle

CONSTANTS
    Workers,   \* slots for mux jobs and assemblies, and their temporary files
    SegmentsDir   \* stands for the entry "segments" of the directory

ASSUME WorkAssumption ==
    Workers \cup {SegmentsDir} \subseteq Puts /\ SegmentsDir \notin Workers

VARIABLES
    mux,    \* mux_status of the row
    multi,  \* status of the recording's multipart upload
    work,   \* the workers; current: the row that a worker claimed is there
    stale   \* history: the row was marked by a job of an earlier recording

workVars == <<mux, multi, work, stale>>
bothVars == <<vars, workVars>>
\* What no worker touches.
apart == <<row, creating, url, trash, put, report, del, cut>>
-----------------------------------------------------------------------------
IdleWork == [pc |-> "idle", kind |-> "none", current |-> FALSE]

WorkInit ==
    /\ Init
    /\ mux = "null"
    /\ multi = "none"
    /\ work = [w \in Workers |-> IdleWork]
    /\ stale = FALSE

WorkGoes(w, pc) == work' = [work EXCEPT ![w].pc = pc]
WorkEnds(w) == work' = [work EXCEPT ![w] = IdleWork]

\* Temporary files have fresh names; here a slot's name is free again when its
\* last file is gone.
Unused(w) == w \notin dir.temps /\ \A d \in Deletes : w \notin trash[d].temps

Claims(w, kind, pc) ==
    /\ row
    /\ work[w] = IdleWork /\ Unused(w)
    /\ work' = [work EXCEPT ![w] = [pc |-> pc, kind |-> kind, current |-> TRUE]]
    /\ UNCHANGED <<apart, upload, dir, stored, faults, stale>>

\* The segments are PUT through signed URLs, which look at no row.
PutSegments ==
    /\ url <= UrlAge
    /\ SegmentsDir \notin dir.temps
    /\ dir' = [dir EXCEPT !.there = TRUE, !.temps = @ \cup {SegmentsDir}]
    /\ UNCHANGED <<apart, upload, stored, faults, workVars>>

\* multipart_initiate, for the destination result.mp4.
Initiate ==
    /\ row /\ multi = "none"
    /\ multi' = "uploading"
    /\ upload' = IF upload = NoUpload THEN [uploaded |-> 0, total |-> 0] ELSE upload
    /\ UNCHANGED <<apart, dir, stored, faults, mux, work, stale>>

\* The claims of recording_complete and of the recovery of stale jobs.
MuxClaim(w) ==
    /\ mux \in {"null", "error", "processing"}
    /\ mux' = "processing"
    /\ Claims(w, "mux", "read")
    /\ UNCHANGED multi

\* The claim of multipart_complete.
AssembleClaim(w) ==
    /\ multi \in {"uploading", "finalizing"}
    /\ multi' = "finalizing"
    /\ Claims(w, "assembly", "parent")
    /\ UNCHANGED mux

\* The manifest and the list of segments.
ReadSegments(w) ==
    /\ work[w].pc = "read"
    /\ WorkGoes(w, IF SegmentsDir \in dir.temps THEN "parent" ELSE "fail")
    /\ UNCHANGED <<vars, mux, multi, stale>>

\* ensure_parent makes a directory that was moved away again.
EnsureParent(w) ==
    /\ work[w].pc = "parent"
    /\ dir' = [dir EXCEPT !.there = TRUE]
    /\ WorkGoes(w, "create")
    /\ UNCHANGED <<apart, upload, stored, faults, mux, multi, stale>>

CreateTemp(w) ==
    /\ work[w].pc = "create"
    /\ IF dir.there THEN dir' = [dir EXCEPT !.temps = @ \cup {w}] /\ WorkGoes(w, "write")
       ELSE UNCHANGED dir /\ WorkGoes(w, "fail")
    /\ UNCHANGED <<apart, upload, stored, faults, mux, multi, stale>>

\* Slip: what the rename answers is not looked at.
PublishUnchecked(w) ==
    /\ work[w].pc = "write"
    /\ IF w \in dir.temps
       THEN /\ dir' = [dir EXCEPT !.result = TRUE, !.temps = @ \ {w}]
            /\ stored' = (stored \/ row)
       ELSE UNCHANGED <<dir, stored>>
    /\ WorkGoes(w, "mark")
    /\ UNCHANGED <<apart, upload, faults, mux, multi, stale>>

\* The rename onto result.mp4, which fails when the temporary file was moved.
PublishResult(w) ==
    /\ work[w].pc = "write"
    /\ IF w \in dir.temps
       THEN /\ dir' = [dir EXCEPT !.result = TRUE, !.temps = @ \ {w}]
            /\ stored' = (stored \/ row)
            /\ WorkGoes(w, "mark")
       ELSE UNCHANGED <<dir, stored>> /\ WorkGoes(w, "fail")
    /\ UNCHANGED <<apart, upload, faults, mux, multi, stale>>

\* ffmpeg fails or a part does not fit; the temporary file is removed if it is
\* still where it was.
WriteFails(w) ==
    /\ work[w].pc = "write"
    /\ dir' = [dir EXCEPT !.temps = @ \ {w}]
    /\ WorkGoes(w, "fail")
    /\ UNCHANGED <<apart, upload, stored, faults, mux, multi, stale>>

\* The UPDATE of videos names the recording, and meets whichever row has this
\* id now; that of multipart_uploads names the upload, whose row has gone with
\* its recording.  The row of video_uploads goes in the same transaction.
Commit(w) ==
    /\ work[w].pc = "mark"
    /\ IF work[w].kind = "mux"
       THEN /\ mux' = IF row THEN "complete" ELSE mux
            /\ stale' = (stale \/ (row /\ ~work[w].current))
            /\ UNCHANGED <<multi, upload>>
       ELSE /\ multi' = IF work[w].current THEN "completed" ELSE multi
            /\ upload' = NoUpload
            /\ UNCHANGED <<mux, stale>>
    /\ WorkEnds(w)
    /\ UNCHANGED <<apart, dir, stored, faults>>

CommitFails(w) ==
    /\ work[w].pc = "mark"
    /\ Fault
    /\ IF work[w].kind = "mux" THEN WorkGoes(w, "fail") ELSE WorkEnds(w)
    /\ UNCHANGED <<apart, upload, dir, stored, mux, multi, stale>>

\* set_mux_error, or from 'finalizing' back to 'uploading'; a failure of either
\* is ignored.
Release(w) ==
    /\ work[w].pc = "fail"
    /\ \/ /\ IF work[w].kind = "mux"
             THEN mux' = (IF row THEN "error" ELSE mux) /\ UNCHANGED multi
             ELSE /\ multi' = IF work[w].current /\ multi = "finalizing" THEN "uploading" ELSE multi
                  /\ UNCHANGED mux
          /\ UNCHANGED faults
       \/ Fault /\ UNCHANGED <<mux, multi>>
    /\ WorkEnds(w)
    /\ UNCHANGED <<apart, upload, dir, stored, stale>>

\* The client of multipart_complete goes away; TempFileGuard is dropped.
AssemblyDropped(w) ==
    /\ work[w].kind = "assembly"
    /\ Fault
    /\ dir' = [dir EXCEPT !.temps = @ \ {w}]
    /\ WorkEnds(w)
    /\ UNCHANGED <<apart, upload, stored, mux, multi, stale>>
-----------------------------------------------------------------------------
\* The DELETE takes the upload with it, and what a worker claimed.
DeleteRowAndUpload(d) ==
    /\ DeleteRow(d)
    /\ IF row' = row THEN UNCHANGED workVars
       ELSE /\ mux' = "null" /\ multi' = "none" /\ stale' = FALSE
            /\ work' = [w \in Workers |-> [work[w] EXCEPT !.current = FALSE]]

\* What else VideoLifecycle does, which knows nothing of the workers.
LifeGoesOn ==
    /\ \/ Create \/ Sign \/ Tick
       \/ \E d \in Deletes :
           DeleteCheck(d) \/ DeleteRename(d) \/ DeleteRestore(d) \/ DeletePurge(d) \/ DeleteDropped(d)
    /\ UNCHANGED workVars

CrashAll ==
    /\ Crash
    /\ work' = [w \in Workers |-> IdleWork]
    /\ UNCHANGED <<mux, multi, stale>>

WorkGoesOn(w) ==
    \/ ReadSegments(w) \/ EnsureParent(w) \/ CreateTemp(w) \/ PublishResult(w) \/ WriteFails(w)
    \/ Commit(w) \/ CommitFails(w) \/ Release(w) \/ AssemblyDropped(w)

WorkNext ==
    \/ LifeGoesOn \/ CrashAll
    \/ \E d \in Deletes : DeleteRowAndUpload(d)
    \/ PutSegments \/ Initiate
    \/ \E w \in Workers : MuxClaim(w) \/ AssembleClaim(w) \/ WorkGoesOn(w)

WorkSpec == WorkInit /\ [][WorkNext]_bothVars
-----------------------------------------------------------------------------
(* Properties.                                                             *)

\* What is said to be complete has its file, also if a deletion that failed
\* had the directory moved aside while the file was written: unless that
\* deletion could not put it back, or the job was an earlier recording's.
CompletedHasFile ==
    row /\ (mux = "complete" \/ multi = "completed") /\ ~cut /\ ~stale
        /\ (\A d \in Deletes : del[d] \notin {"delete", "restore"})
        => dir.result
=============================================================================
