--------------------------- MODULE MultipartUpload ---------------------------
(***************************************************************************)
(* The local multipart upload of cap-rust: the routes initiate,            *)
(* presign-part, complete and abort (src/routes/upload.rs), the signed PUT *)
(* of a part (src/routes/media.rs), the staging directory with its         *)
(* `.active` heartbeat and the hourly sweep (src/storage.rs, src/main.rs). *)
(*                                                                         *)
(* Every upload here is for one video and one destination key, the case in *)
(* which uploads disturb each other: they share the destination file and   *)
(* the video's video_uploads row.  Requests with another owner, video or   *)
(* destination are refused without a state change and are left out.        *)
(*                                                                         *)
(* A handler runs in steps, one between two awaits that another actor can  *)
(* tell apart.  Time is kept as ages in a coarse unit, each capped one     *)
(* above the threshold the code compares it with.                          *)
(***************************************************************************)
EXTENDS Integers, Sequences, FiniteSets

CONSTANTS
    Uploads,       \* upload ids (uuid v4: never chosen twice)
    NoUpload,      \* not an upload id
    Reqs,          \* slots for concurrently running request handlers
    MaxParts,      \* MAX_PARTS
    Sizes,         \* sizes a part can have
    UrlTTL,        \* PUT_TTL, 1 hour
    LeaseAge,      \* age a 'finalizing' claim must exceed to be taken over, 6 hours
    StagingAge,    \* age a heartbeat must exceed to be swept, 24 hours
    AssemblyBound, \* assumption on time: no handler keeps a claim for longer
    MaxFaults      \* bound on crashes, dropped handlers and failed calls

ASSUME ConstantsAssumption ==
    /\ NoUpload \notin Uploads
    /\ MaxParts \in Nat \ {0}
    /\ Sizes \subseteq Nat \ {0}
    /\ UrlTTL \in Nat /\ LeaseAge \in Nat /\ StagingAge \in Nat
    /\ UrlTTL < LeaseAge /\ LeaseAge < StagingAge
    /\ AssemblyBound \in Nat
    /\ MaxFaults \in Nat

VARIABLES
    status,     \* multipart_uploads.status, "none" before the INSERT
    claimAge,   \* age of updated_at while 'finalizing' (the lease)
    known,      \* upload ids that were returned to the client
    heartbeat,  \* age of staging/<id>/.active, or NoDir
    staged,     \* staged[u][p]: size of staging/<u>/<p>, or Missing
    urlAge,     \* age of the newest PUT url of a part
    object,     \* the file at the destination key
    progress,   \* TRUE: the video has a video_uploads row of mode 'multipart'
    published,  \* history: uploads whose file was renamed into place
    req,        \* the request handlers
    sweep,      \* the staging sweep
    faults      \* faults so far

vars == <<status, claimAge, known, heartbeat, staged, urlAge, object, progress,
          published, req, sweep, faults>>

rowVars == <<status, claimAge, known>>
diskVars == <<heartbeat, staged>>
outcomeVars == <<object, published>>
-----------------------------------------------------------------------------
(* Values.                                                                 *)

NoDir == -1
Missing == 0
\* Slip: presign-part lets one part number too many through.
OnePartTooMany == 1..MaxParts + 1

PartNumbers == 1..MaxParts

\* A request that names no part number has 0 here.
NoPart == 0

\* What validate_parts accepts, sorted: parts 1..n, none missing, none twice,
\* none empty.
Manifests == UNION {[1..n -> Sizes] : n \in 1..MaxParts}

NoObject == [upload |-> NoUpload, manifest |-> <<>>, content |-> <<>>]

Idle == [pc |-> "idle", up |-> NoUpload, part |-> NoPart, size |-> Missing,
         temp |-> FALSE, manifest |-> <<>>, content |-> <<>>]

NoSweep == [todo |-> {}, target |-> NoUpload]

\* The handlers that hold the claim of an upload: a `complete` between the
\* UPDATE that set 'finalizing' and the one that ends it.
HoldingPCs == {"completeTouch", "assemble", "release", "commit"}
Holding(r) == req[r].pc \in HoldingPCs

Older(age, threshold) == IF age > threshold THEN age ELSE age + 1
-----------------------------------------------------------------------------
Init ==
    /\ status = [u \in Uploads |-> "none"]
    /\ claimAge = [u \in Uploads |-> 0]
    /\ known = {}
    /\ heartbeat = [u \in Uploads |-> NoDir]
    /\ staged = [u \in Uploads |-> [p \in PartNumbers |-> Missing]]
    /\ urlAge = [u \in Uploads |-> [p \in PartNumbers |-> UrlTTL + 1]]
    /\ object = NoObject
    /\ progress = FALSE
    /\ published = {}
    /\ req = [r \in Reqs |-> Idle]
    /\ sweep = NoSweep
    /\ faults = 0
-----------------------------------------------------------------------------
(* Helpers shared by the handlers.                                         *)

\* A request arrives and its handler takes its first step.
Begin(r, newReq) ==
    /\ req[r] = Idle
    /\ req' = [req EXCEPT ![r] = newReq]

At(r, pc) == req[r].pc = pc
Goto(r, pc) == req' = [req EXCEPT ![r].pc = pc]
Done(r) == req' = [req EXCEPT ![r] = Idle]

\* touch_staging_activity: creates the directory if need be, rewrites .active.
Touch(u) ==
    /\ heartbeat' = [heartbeat EXCEPT ![u] = 0]
    /\ UNCHANGED staged

\* remove_dir_all on staging/<u>: parts, heartbeat and the temporary files of
\* PUTs still streaming go; `handlers` is what req would be without that.
RemoveDir(u, handlers) ==
    /\ heartbeat' = [heartbeat EXCEPT ![u] = NoDir]
    /\ staged' = [staged EXCEPT ![u] = [p \in PartNumbers |-> Missing]]
    /\ req' = [x \in Reqs |-> IF handlers[x].up = u
                              THEN [handlers[x] EXCEPT !.temp = FALSE]
                              ELSE handlers[x]]

\* A crash, a lost connection or a failed call, as long as the bound allows.
Fault == faults < MaxFaults /\ faults' = faults + 1
-----------------------------------------------------------------------------
(* POST /api/upload/multipart/initiate                                     *)

\* Slip: the client learns the id before the video_uploads row is written.
InsertAndAnswer(r, u) ==
    /\ status[u] = "none"
    /\ Begin(r, [Idle EXCEPT !.pc = "initiateTouch", !.up = u])
    /\ status' = [status EXCEPT ![u] = "uploading"]
    /\ known' = known \cup {u}
    /\ UNCHANGED <<claimAge, diskVars, urlAge, outcomeVars, progress, sweep, faults>>

InitiateInsert(r, u) ==
    /\ status[u] = "none"
    /\ Begin(r, [Idle EXCEPT !.pc = "initiateTouch", !.up = u])
    /\ status' = [status EXCEPT ![u] = "uploading"]
    /\ UNCHANGED <<claimAge, known, diskVars, urlAge, outcomeVars, progress, sweep, faults>>

InitiateTouch(r) ==
    /\ At(r, "initiateTouch")
    /\ Goto(r, "initiateProgress")
    /\ Touch(req[r].up)
    /\ UNCHANGED <<rowVars, urlAge, outcomeVars, progress, sweep, faults>>

\* The upsert's error is ignored (`.ok()`); then the client gets its uploadId.
InitiateProgress(r) ==
    /\ At(r, "initiateProgress")
    /\ Done(r)
    /\ \/ progress' = TRUE /\ UNCHANGED faults
       \/ Fault /\ UNCHANGED progress
    /\ known' = known \cup {req[r].up}
    /\ UNCHANGED <<status, claimAge, diskVars, urlAge, outcomeVars, sweep>>
-----------------------------------------------------------------------------
(* POST /api/upload/multipart/presign-part                                 *)

PresignCheck(r, u, p) ==
    /\ u \in known
    /\ status[u] = "uploading"
    /\ Begin(r, [Idle EXCEPT !.pc = "presignTouch", !.up = u, !.part = p])
    /\ UNCHANGED <<rowVars, diskVars, urlAge, outcomeVars, progress, sweep, faults>>

PresignTouch(r) ==
    /\ At(r, "presignTouch")
    /\ Done(r)
    /\ Touch(req[r].up)
    /\ urlAge' = [urlAge EXCEPT ![req[r].up][req[r].part] = 0]
    /\ UNCHANGED <<rowVars, outcomeVars, progress, sweep, faults>>
-----------------------------------------------------------------------------
(* POST /up/staging/<upload>/<part>: the signed PUT of a part.  It looks   *)
(* at the signature only, never at the upload's row.                       *)

\* Slip: the expiry is signed but not compared with the clock.
UrlNeverExpires(u, p) == TRUE

UrlValid(u, p) == urlAge[u][p] <= UrlTTL

\* ensure_parent, the first touch and the creation of the temporary file.
\* A removal of the directory between these calls makes the creation fail;
\* one right after them makes the rename fail, with the same outcome.
PutBegin(r, u, p, s) ==
    /\ UrlValid(u, p)
    /\ Begin(r, [Idle EXCEPT !.pc = "putStream", !.up = u, !.part = p,
                             !.size = s, !.temp = TRUE])
    /\ Touch(u)
    /\ UNCHANGED <<rowVars, urlAge, outcomeVars, progress, sweep, faults>>

\* The body is complete: rename the temporary file onto the part.  It fails
\* if the directory was removed meanwhile.
PutRename(r) ==
    /\ At(r, "putStream")
    /\ IF req[r].temp
       THEN /\ staged' = [staged EXCEPT ![req[r].up][req[r].part] = req[r].size]
            /\ req' = [req EXCEPT ![r].pc = "putTouch", ![r].temp = FALSE]
       ELSE Done(r) /\ UNCHANGED staged
    /\ UNCHANGED <<rowVars, heartbeat, urlAge, outcomeVars, progress, sweep, faults>>

PutTouch(r) ==
    /\ At(r, "putTouch")
    /\ Done(r)
    /\ Touch(req[r].up)
    /\ UNCHANGED <<rowVars, urlAge, outcomeVars, progress, sweep, faults>>
-----------------------------------------------------------------------------
(* POST /api/upload/multipart/complete                                     *)

\* Slips in the claim: any 'finalizing' row may be taken over; none may; every
\* row of the client may be claimed.
ClaimableAnyTime(u) == status[u] \in {"uploading", "finalizing"}
ClaimableOnce(u) == status[u] = "uploading"

\* The WHERE clause of the claiming UPDATE.  A request that does not match it
\* is answered from the row and changes nothing.
Claimable(u) ==
    \/ status[u] = "uploading"
    \/ status[u] = "finalizing" /\ claimAge[u] > LeaseAge

CompleteClaim(r, u, m) ==
    /\ u \in known
    /\ Claimable(u)
    /\ Begin(r, [Idle EXCEPT !.pc = "completeTouch", !.up = u, !.manifest = m])
    /\ status' = [status EXCEPT ![u] = "finalizing"]
    /\ claimAge' = [claimAge EXCEPT ![u] = 0]
    /\ UNCHANGED <<known, diskVars, urlAge, outcomeVars, progress, sweep, faults>>

CompleteTouch(r) ==
    /\ At(r, "completeTouch")
    /\ Goto(r, "assemble")
    /\ Touch(req[r].up)
    /\ UNCHANGED <<rowVars, urlAge, outcomeVars, progress, sweep, faults>>

\* Slip: whatever is staged is copied, the size is not compared.
AssembleUnmeasured(r) ==
    LET n == Len(req[r].content) + 1
    IN  /\ At(r, "assemble")
        /\ n <= Len(req[r].manifest)
        /\ IF staged[req[r].up][n] # Missing
           THEN req' = [req EXCEPT ![r].content = Append(@, staged[req[r].up][n])]
           ELSE Goto(r, "release")
        /\ UNCHANGED <<rowVars, diskVars, urlAge, outcomeVars, progress, sweep, faults>>

\* assemble_multipart opens, measures and copies one part.  The open file
\* keeps its content whatever is renamed or removed during the copy.
AssemblePart(r) ==
    LET n == Len(req[r].content) + 1
    IN  /\ At(r, "assemble")
        /\ n <= Len(req[r].manifest)
        /\ IF staged[req[r].up][n] = req[r].manifest[n]
           THEN req' = [req EXCEPT ![r].content = Append(@, req[r].manifest[n])]
           ELSE Goto(r, "release")
        /\ UNCHANGED <<rowVars, diskVars, urlAge, outcomeVars, progress, sweep, faults>>

\* Creating, reading, writing or renaming the temporary file fails.
AssembleFails(r) ==
    /\ At(r, "assemble")
    /\ Fault
    /\ Goto(r, "release")
    /\ UNCHANGED <<rowVars, diskVars, urlAge, outcomeVars, progress, sweep>>

Publish(r) ==
    /\ At(r, "assemble")
    /\ Len(req[r].content) = Len(req[r].manifest)
    /\ Goto(r, "commit")
    /\ object' = [upload |-> req[r].up, manifest |-> req[r].manifest,
                  content |-> req[r].content]
    /\ published' = published \cup {req[r].up}
    /\ UNCHANGED <<rowVars, diskVars, urlAge, progress, sweep, faults>>

\* Assembly failed: give the claim back, WHERE status = 'finalizing'.
Release(r) ==
    /\ At(r, "release")
    /\ Done(r)
    /\ IF status[req[r].up] = "finalizing"
       THEN /\ status' = [status EXCEPT ![req[r].up] = "uploading"]
            /\ claimAge' = [claimAge EXCEPT ![req[r].up] = 0]
       ELSE UNCHANGED <<status, claimAge>>
    /\ UNCHANGED <<known, diskVars, urlAge, outcomeVars, progress, sweep, faults>>

\* The last transaction.  Its UPDATE has no condition on the status.
Commit(r) ==
    /\ At(r, "commit")
    /\ Goto(r, "cleanup")
    /\ status' = [status EXCEPT ![req[r].up] = "completed"]
    /\ claimAge' = [claimAge EXCEPT ![req[r].up] = 0]
    /\ progress' = FALSE
    /\ UNCHANGED <<known, diskVars, urlAge, outcomeVars, sweep, faults>>

\* Last step of complete and of abort: remove the staging directory.
Cleanup(r) ==
    /\ At(r, "cleanup")
    /\ RemoveDir(req[r].up, [req EXCEPT ![r] = Idle])
    /\ UNCHANGED <<rowVars, urlAge, outcomeVars, progress, sweep, faults>>
-----------------------------------------------------------------------------
(* POST /api/upload/multipart/abort                                        *)

\* Slip: only completed uploads are protected from an abort.
AbortableFinalizing(u) == status[u] \notin {"none", "completed"}

Abortable(u) == status[u] \notin {"none", "completed", "finalizing"}

AbortRow(r, u) ==
    /\ u \in known
    /\ Abortable(u)
    /\ Begin(r, [Idle EXCEPT !.pc = "cleanup", !.up = u])
    /\ status' = [status EXCEPT ![u] = "aborted"]
    /\ progress' = FALSE
    /\ UNCHANGED <<claimAge, known, diskVars, urlAge, outcomeVars, sweep, faults>>
-----------------------------------------------------------------------------
(* cleanup_staging, run every hour.  `now` and the set of 'finalizing'     *)
(* uploads are read once; each heartbeat is read when its entry is reached *)
(* and the directory is removed after that.                                *)

Stale(u) == heartbeat[u] > StagingAge

\* If the query fails no upload counts as finalizing and the sweep goes on.
SweepStart ==
    /\ sweep = NoSweep
    /\ \/ /\ sweep' = [NoSweep EXCEPT !.todo = {u \in Uploads : Stale(u) /\ status[u] # "finalizing"}]
          /\ UNCHANGED faults
       \/ /\ Fault
          /\ sweep' = [NoSweep EXCEPT !.todo = {u \in Uploads : Stale(u)}]
    /\ UNCHANGED <<rowVars, diskVars, urlAge, outcomeVars, progress, req>>

SweepExamine(u) ==
    /\ sweep.target = NoUpload
    /\ u \in sweep.todo
    /\ sweep' = [todo |-> sweep.todo \ {u}, target |-> IF Stale(u) THEN u ELSE NoUpload]
    /\ UNCHANGED <<rowVars, diskVars, urlAge, outcomeVars, progress, req, faults>>

SweepRemove ==
    /\ sweep.target # NoUpload
    /\ RemoveDir(sweep.target, req)
    /\ sweep' = [sweep EXCEPT !.target = NoUpload]
    /\ UNCHANGED <<rowVars, urlAge, outcomeVars, progress, faults>>
-----------------------------------------------------------------------------
(* Faults and time.                                                        *)

\* The handler's future is dropped (the client went away) or a call of it
\* fails and it returns the error: nothing done so far is undone.
Drop(r) ==
    /\ req[r] # Idle
    /\ Fault
    /\ Done(r)
    /\ UNCHANGED <<rowVars, diskVars, urlAge, outcomeVars, progress, sweep>>

\* The process dies and is started again: rows and files stay.
Crash ==
    /\ \/ \E r \in Reqs : req[r] # Idle
       \/ sweep # NoSweep
    /\ Fault
    /\ req' = [r \in Reqs |-> Idle]
    /\ sweep' = NoSweep
    /\ UNCHANGED <<rowVars, diskVars, urlAge, outcomeVars, progress>>

\* One unit of time passes; AssemblyBound is the assumption on how long a
\* claim can be held.
Tick ==
    /\ \A r \in Reqs : Holding(r) => claimAge[req[r].up] < AssemblyBound
    /\ claimAge' = [u \in Uploads |-> IF status[u] = "finalizing"
                                      THEN Older(claimAge[u], LeaseAge)
                                      ELSE claimAge[u]]
    /\ heartbeat' = [u \in Uploads |-> IF heartbeat[u] = NoDir
                                       THEN NoDir ELSE Older(heartbeat[u], StagingAge)]
    /\ urlAge' = [u \in Uploads |-> [p \in PartNumbers |-> Older(urlAge[u][p], UrlTTL)]]
    /\ UNCHANGED <<status, known, staged, outcomeVars, progress, req, sweep, faults>>
-----------------------------------------------------------------------------
\* The client, who may send any request whenever it likes.
Arrival(r) ==
    \E u \in Uploads :
        \/ InitiateInsert(r, u)
        \/ \E p \in PartNumbers : PresignCheck(r, u, p)
        \/ \E p \in PartNumbers, s \in Sizes : PutBegin(r, u, p, s)
        \/ \E m \in Manifests : CompleteClaim(r, u, m)
        \/ AbortRow(r, u)

\* The rest of a handler, which runs by itself.
Continue(r) ==
    \/ InitiateTouch(r) \/ InitiateProgress(r)
    \/ PresignTouch(r)
    \/ PutRename(r) \/ PutTouch(r)
    \/ CompleteTouch(r) \/ AssemblePart(r) \/ Publish(r) \/ Release(r) \/ Commit(r)
    \/ Cleanup(r)

SweepStep == SweepStart \/ (\E u \in Uploads : SweepExamine(u)) \/ SweepRemove

Next ==
    \/ \E r \in Reqs : Arrival(r) \/ Continue(r) \/ AssembleFails(r) \/ Drop(r)
    \/ SweepStep
    \/ Crash
    \/ Tick

Spec == Init /\ [][Next]_vars
-----------------------------------------------------------------------------
(* Fairness.  The runtime polls every handler and the sweep task until     *)
(* they are done, and time passes.  No client is obliged to do anything.   *)
Fairness ==
    /\ \A r \in Reqs : WF_vars(Continue(r))
    /\ WF_vars(SweepStep)
    /\ WF_vars(Tick)

FairSpec == Spec /\ Fairness

\* A client that keeps retrying complete on an upload whenever it may be claimed.
Retries(u) == SF_vars(\E r \in Reqs, m \in Manifests : CompleteClaim(r, u, m))
-----------------------------------------------------------------------------
(* Properties.                                                             *)

Request ==
    [pc : {"idle", "initiateTouch", "initiateProgress", "presignTouch", "putStream",
           "putTouch", "cleanup"} \cup HoldingPCs,
     up : Uploads \cup {NoUpload},
     part : {NoPart} \cup 1..MaxParts,
     size : {Missing} \cup Sizes,
     temp : BOOLEAN,
     manifest : {<<>>} \cup Manifests,
     content : Seq(Sizes)]

RowTypeOK ==
    /\ status \in [Uploads -> {"none", "uploading", "finalizing", "completed", "aborted"}]
    /\ claimAge \in [Uploads -> 0..LeaseAge + 1]
    /\ known \subseteq Uploads

DiskTypeOK ==
    /\ heartbeat \in [Uploads -> {NoDir} \cup 0..StagingAge + 1]
    /\ staged \in [Uploads -> [1..MaxParts -> {Missing} \cup Sizes]]

OutcomeTypeOK ==
    /\ object \in [upload : Uploads \cup {NoUpload}, manifest : {<<>>} \cup Manifests,
                   content : Seq(Sizes)]
    /\ published \subseteq Uploads

UrlTypeOK == urlAge \in [Uploads -> [1..MaxParts -> 0..UrlTTL + 1]]
RequestTypeOK == req \in [Reqs -> Request]
SweepTypeOK == sweep \in [todo : SUBSET Uploads, target : Uploads \cup {NoUpload}]

\* Every variable stays within its type.
TypeOK ==
    /\ RowTypeOK
    /\ DiskTypeOK
    /\ OutcomeTypeOK
    /\ UrlTypeOK
    /\ progress \in BOOLEAN
    /\ RequestTypeOK
    /\ SweepTypeOK
    /\ faults \in 0..MaxFaults

\* The lease works: two handlers never assemble the same upload at once, and a
\* handler between claim and commit works on an upload whose row still says
\* 'finalizing', so its unconditional final UPDATE ends the claim it took.
\* True because a claim is taken over only after LeaseAge, and only if no
\* handler keeps one longer (AssemblyBound <= LeaseAge).
ExclusiveFinalizer ==
    /\ \A r \in Reqs : Holding(r) => status[req[r].up] = "finalizing"
    /\ \A r1, r2 \in Reqs :
          Holding(r1) /\ Holding(r2) /\ req[r1].up = req[r2].up => r1 = r2

\* The row that tells players and dashboards "a multipart upload is in
\* progress" is there only while some upload of the video is open: initiate
\* writes it after the INSERT, and everything that ends an upload deletes it.
ProgressHasOpenUpload ==
    progress => \E u \in Uploads : status[u] \in {"uploading", "finalizing"}

\* A completed upload is never aborted, reopened or claimed again, and an
\* aborted one never completed, although complete's last UPDATE has no
\* condition on the status.
Ended == {"completed", "aborted"}
TerminalIsFinal ==
    [][\A u \in Uploads : status[u] \in Ended => status'[u] = status[u]]_vars

\* The routes keep the promises of UploadContract: the destination changes
\* only to a whole manifest and only for an upload that is open, and completed
\* implies published, through crashes, dropped requests and taken-over claims.
Phase == [u \in Uploads |->
    CASE status[u] = "none" -> "absent"
      [] status[u] \in {"uploading", "finalizing"} -> "open"
      [] OTHER -> status[u]]

Contract == INSTANCE UploadContract WITH phase <- Phase
ImplementsContract == Contract!Spec

\* Once an upload has ended, its staging directory is gone for good in the
\* end: a PUT whose URL outlives the upload may bring it back, but URLs expire
\* and the sweep removes what such a PUT left.
StagingReclaimed ==
    \A u \in Uploads : status[u] \in Ended ~> [](heartbeat[u] = NoDir)

\* A claim left behind by a crash or a dropped request does not wedge the
\* upload as long as the client retries: the lease runs out and a retry gets it.
FinalizingResolves ==
    \A u \in Uploads :
        Retries(u) => (status[u] = "finalizing" ~> status[u] # "finalizing")

\* storage.rs, doc of cleanup_staging: "Uploads currently marked `finalizing`
\* in the DB are also preserved."  As a step property: the sweep never removes
\* the directory of an upload that is finalizing at that moment.
FinalizingPreserved ==
    [][\A u \in Uploads : SweepRemove /\ sweep.target = u => status[u] # "finalizing"]_vars
=============================================================================
