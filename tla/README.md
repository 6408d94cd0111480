# cap-rust in TLA+

cap-rust is a self-hosted server for the Cap screen recorder: an axum
application in one process, a PostgreSQL database, and a directory of files.
This directory holds a formal model of the parts of it that change state while
other parts run: TLA+ modules, TLC configurations that check them on small
instances, and theorems checked by TLAPS for every value of the constants.
Paths below are relative to the repository.

## The system

| Component | Code | State it keeps | Operations |
|---|---|---|---|
| Local multipart upload | `src/routes/upload.rs` 435-706 | rows of `multipart_uploads` (status, `updated_at`), the video's `video_uploads` row, the destination file | initiate, presign-part, complete, abort |
| Signed upload target | `src/routes/media.rs` 39-143, `src/sign.rs`, `src/routes/upload.rs` 362-433 | the video's files, part files, temporary files | sign; PUT of a file or a part |
| Staging and its sweep | `src/storage.rs`, `src/main.rs` 64-75 | `staging/<upload>/`, its `.active` heartbeat | touch, remove, hourly sweep |
| Segment muxing | `src/routes/upload.rs` 708-1118, `src/state.rs` | `videos.mux_status`, `source`, `updated_at`; `result.mp4`; the list of tasks and the one-permit semaphore | recording-complete, recovery, the job, shutdown |
| Video deletion | `src/routes/videos.rs` 209-260 | the video's directory, its trash directory, the row | delete |
| Recording lifecycle, progress | `src/routes/desktop.rs` | `videos`, `video_uploads` | create, progress, status |
| Access control | `src/routes/access.rs`, `share.rs`, `embed.rs`, `playlist.rs`, the trigger of `migrations/0009` | access mode, visibility, password hash, cookie epoch; cookies and URLs that visitors hold | set access, change visibility, unlock, ask the policy, sign, serve |
| Captions | `src/routes/collaboration.rs` | `video_captions`, `.vtt` files | create, edit, delete, PUT |
| Comments | `src/routes/collaboration.rs` | `video_comments` | create, edit, delete |
| Reactions, views | `src/routes/collaboration.rs` | `video_reactions`, `video_views`, the visitor's cookie | toggle, report |
| Playback and ranges | `src/routes/media.rs` 145-294, `playlist.rs` | none | playlist, GET with or without Range |
| Users, sessions, API keys | `src/auth.rs`, `src/routes/auth.rs`, `session.rs`, `videos.rs` | users, keys, tokens | register, log in, mint, revoke |
| Argon2 permits | `src/auth.rs` 100-160 | four permits | acquire, release at the end of the job |
| S3 backend | `src/s3.rs` | none of its own | presigned PUT, HEAD |
| Pages, configuration, glue | the rest | none that changes | |

They interact through rows of the database, files, the clock, and, for the
handlers that hash passwords, four permits. There are no locks around a row and
the files that belong to it. Each handler is a future that yields at every
`await`; the HTTP server drops it when its client goes away; the process can be
killed anywhere. So the hard behaviour of this code is a handler or background task that acts on what it
read before an await: leases measured in hours, heartbeats, snapshots and
unconditional UPDATEs. `PROJECT.json` lists each such place under "hazards".

What makes each part correct, in a sentence each:

* multipart: an upload ends once; the destination changes only to all the
  parts some client named; claims exclude each other; no dead claim is for ever;
* staging: what ended goes away, what is in use stays;
* muxing: one worker per recording; "complete" is true and final; no recording
  is stuck; a graceful stop leaves nothing running;
* deletion: a video that keeps its row keeps its file; a deletion that was cut
  off can be repeated;
* progress: never backwards; only a finished upload's row is removed;
* deletion during other work: what is said to be complete has its file, however
  the directory was moved while it was written;
* access: nothing unlocked under an old password opens under a new one, and a
  URL outlives a change of access by its own lifetime at most;
* captions: at most one default, none lost, row and file agree;
* comments: every reply has its thread, what was deleted stays deleted;
* reactions, views: a toggle that nobody overlaps turns the reaction over, a
  view is counted once a day, nothing outlives the recording;
* playback: the bytes sent are the bytes asked for, a URL leads to a file;
* accounts: whoever is signed in had the password, however registrations race;
* permits: never more than four jobs, no permit lost, no sign-in starved.

## Modules

| Module | What it is |
|---|---|
| `UploadContract` | What the upload routes promise, abstractly: Open, Publish, Complete, Abort |
| `MultipartUpload` | The multipart routes, the PUT, the heartbeat and the sweep, step by step |
| `MCMultipartUpload` | `MultipartUpload` with the symmetry sets TLC uses |
| `MultipartUploadProofs` | Theorems about `MultipartUpload` |
| `MuxContract` | What the desktop app is promised about a recording being muxed, abstractly: Claim, Publish, Complete, Fail, Lose |
| `MuxJobs` | recording-complete, jobs, recovery, graceful shutdown |
| `MuxJobsProofs` | Theorems about `MuxJobs`: types, results, shutdown, lost claims; one worker per recording, by the place of each claim in the queue |
| `VideoLifecycle` | One video: create, progress, sign, PUT of its file, delete |
| `WorkDuringDeletion` | `VideoLifecycle` composed with the assembly of an upload and with mux jobs of the same video |
| `VideoLifecycleProofs` | Theorems about `VideoLifecycle` and `WorkDuringDeletion` |
| `HashPool` | The permits for Argon2 and the jobs that hold them, used by the next two |
| `Accounts` | Registration, login, the desktop's sign-in page, API keys |
| `AccountsProofs` | Theorems about `Accounts` |
| `AccessLock` | What a recording's password promises, abstractly: a lock and keys |
| `RecordingAccess` | The row, the trigger, set access, unlock, cookies, policy, signed URLs |
| `MCRecordingAccess` | it with its symmetry sets |
| `RecordingAccessProofs` | Theorems about `RecordingAccess` |
| `VideoRow` | The row of a recording as the next two see it, which hang on it by foreign keys |
| `Comments`, `Reactions` | Comments; reactions and views |
| `CaptionList` | What the owner is promised about captions, abstractly: Save, Remove |
| `Captions` | Captions: transactions, row locks, and the file |
| `CollaborationProofs` | Theorems about `Captions`, `Comments` and `Reactions` |
| `Playback` | Playlists and range requests |
| `PlaybackProofs` | Theorems about `Playback` |
| `MCSideBySide`, `MCLiveness` | Components without a common variable put into one run |
| `SideBySideProofs` | Theorems about `MCSideBySide`: what holds of a component holds of the whole |

Operators whose comment begins with "Slip:" are not part of the model. Each is
a plausible mistake in the definition after it and is put in its place to see
that a property notices ("mutants" in `PROJECT.json`).

### MultipartUpload

A step of the model is what a handler does between two awaits that another
actor could tell apart, so a handler is a small program counter in `req`:

| Code | Actions |
|---|---|
| `multipart_initiate` | `InitiateInsert`, `InitiateTouch`, `InitiateProgress` (its error ignored, as `.ok()` does) |
| `multipart_presign_part` | `PresignCheck`, `PresignTouch` |
| `media::put`, `write_upload_atomic` | `PutBegin`, `PutRename`, `PutTouch` |
| `multipart_complete`, `assemble_multipart` | `CompleteClaim`, `CompleteTouch`, `AssemblePart` once per part, `AssembleFails`, `Publish`, `Release`, `Commit`, `Cleanup` |
| `multipart_abort` | `AbortRow`, `Cleanup` |
| `cleanup_staging` | `SweepStart`, `SweepExamine`, `SweepRemove` |
| dropped or failing handler; killed process | `Drop`; `Crash` |
| clocks | `Tick` |

| Variable | Code |
|---|---|
| `status`, `claimAge` | `multipart_uploads.status`, and the age of `updated_at` while finalizing |
| `known` | upload ids that were returned to a client; only those can be in a request |
| `heartbeat`, `staged` | age of `staging/<u>/.active`; sizes of the part files |
| `urlAge` | age of the newest signed URL of each part |
| `object`, `published` | the destination file (which upload wrote it, the list asked for, what was copied); history of who published |
| `progress` | the video's `video_uploads` row of mode multipart |
| `sweep` | the entries left and the directory about to be removed |

All uploads in an instance have the same destination, the case in which they
meet. A part is its size, which is all the server compares. Parts are sorted
and contiguous, as `validate_parts` makes them. Requests refused without a
change of state have no action. Removing a directory is one step: while the
code's removal runs, a temporary file in it may survive for a moment, but it
cannot be renamed into a directory that is gone, which is what the model keeps.

### MuxJobs

A claim is `mux = "processing"` together with `age`, the age of `updated_at`.

| Code | Actions |
|---|---|
| `recording_complete` | `CompleteCheck`, `CompleteClaim`, `CompleteSpawn`, and `CompleteDropped` when its client goes |
| `recover_stale_mux_jobs`, at start and hourly | `RecoverClaim`, then `RecoverSpawn` per recording; `due` says that this hour's pass is still to come |
| `MuxJobs::try_spawn`, the semaphore | `Spawn`, `JobQueue`, `JobStart`; `ahead` is the semaphore's line |
| `mux_segments`, `concat_mp4`, `set_mux_error` | `JobPublish` or `JobMuxFails`, `JobMark`, `JobFail`; `SetMuxError` wherever it is called, its own failure included |
| `shutdown_signal`, `main`, `MuxJobs::shutdown` | `StopSignal`, `StopFlag`, `StopTake`, `StopDeadline`, `StopAbort` and `StopMark` per leftover, `StopExit` |
| kill and start | `Crash`, `Boot` |
| `video_create` again, `videos::patch` | `RetryCreate`, `OwnerEdit` |

`server` stands for the phases of the process. Nothing writes the status
'queued', which the claim and the recovery query mention, so it does not occur.
The deadline of thirty seconds is far below the unit of time and may pass at
any moment. Leftovers are stopped one by one: between the abort of one and its
UPDATE the others go on, and the next gets its permit. The aborted task keeps
its slot until it is marked, as it is in the shutdown's hands. An UPDATE that it
had already sent may in fact still arrive, which the model leaves out.

`MuxContract` knows a status per recording, whether its file was published, and
the set `held` of recordings that somebody works on. The mapping takes for
`held` the recordings with a worker (`Worked`): a request or recovery pass that
has claimed and not yet spawned, or a live task. A recording is claimed only
while nobody holds it; only a holder publishes and then completes; a claim may
be lost at any time, and `NoClaimLost` says by what. That 'complete' is final
(`CompleteIsFinal`) is a consequence.

### VideoLifecycle

One local video, its rows in `videos` and `video_uploads` and its directory.
The rows and the directory are in two stores without a common transaction, so
delete moves the directory aside, deletes the row, and puts the directory back
if the row stays.

| Code | Actions |
|---|---|
| `video_create` | `CreateRow`, `CreateUpload`, or `CreateDropped` between them |
| `video_progress` | `ProgressCheck`, `ProgressUpsert`, `ProgressFinish`, `ProgressDropped` |
| `upload::signed`; `media::put`, `write_upload_atomic` | `Sign`; `PutBegin`, `PutRename`, `PutFails`, `PutDropped` |
| `delete_owned_video` | `DeleteCheck`, `DeleteRename`, `DeleteRow`, then `DeletePurge` or `DeleteRestore`; `DeleteDropped` |
| killed process; clock | `Crash`; `Tick` |

A directory is whether it is there, whether it holds `result.mp4`, and the
temporary files in it. `stored` and `cut` are history: since it has a row the
recording has had its file; a deletion stopped after it had moved the directory
or found its place taken when putting it back.

### WorkDuringDeletion

Adds to `VideoLifecycle` what makes `result.mp4` on the server. A slot of
`work` is one mux job or one assembly, with its place in the code and whether
the row that it claimed is still there.

| Code | Actions |
|---|---|
| PUT of segments; `multipart_initiate` | `PutSegments`; `Initiate` |
| claim of `recording_complete` or of recovery; of `multipart_complete` | `MuxClaim`; `AssembleClaim` |
| manifest and list of segments | `ReadSegments` |
| `ensure_parent`; the temporary file; the rename | `EnsureParent`; `CreateTemp`; `PublishResult` |
| ffmpeg, a part or the disk fails | `WriteFails` |
| the final UPDATEs; one of them fails | `Commit`; `CommitFails` |
| `set_mux_error`, or back to 'uploading' | `Release` |
| the client of complete goes | `AssemblyDropped` |
| DELETE with its cascade; kill | `DeleteRowAndUpload`; `CrashAll` |

How claims exclude each other is the subject of `MultipartUpload` and
`MuxJobs`. Here a claim may be taken over at any time, which allows more than
the clocks do, so that no time has to be modelled. `mux`, `multi` are the two
status columns. `stale` is history: a job of an earlier recording marked the
row of a later one with the same id, which the code, whose UPDATE names the id
only, allows. `CompletedHasFile` leaves that case out.

### HashPool and Accounts

| Code | Actions |
|---|---|
| `ARGON2_JOBS`, `spawn_blocking` | `Acquire`, `JobEnds`, `JobOrphaned`, `OrphanEnds`, `PoolRestart` |
| `register_user`, `login_user` | `SignBegin`, `SignAcquire`, `SignJobEnds`, `Register` |
| `register`, `login` of the API | `AnswerToken` |
| sign-in page of the desktop | `Mint`, `AnswerKey` |
| `revoke_api_key` | `Revoke` |
| client gone or statement failing; restart; JWT clock | `SignDropped`; `AccountsRestart`; `AccountsTick` |

The permit is owned by the blocking job. When a handler is dropped the job runs
on as an orphan and keeps its permit. A password's hash is the password here
(in `RecordingAccess` with a salt, since there the hash is a row's value that
comes again). Argon2 itself is not modelled. `welcomed` and the password in a
key are history. `JwtTTL` includes the leeway of the check; the read of the
user's names between token and answer changes nothing and fails as `SignDropped`.

### RecordingAccess

| Code | Actions |
|---|---|
| `sync_video_access_compat` (migration 0009) | `Synced`, in every UPDATE |
| `videos::patch`; `set_access` | `PatchVisibility`; `SetBegin`, `SetAcquire`, `SetJobEnds`, `SetUpdate`, `SetDropped` |
| `unlock`, `issue_access_cookie` | `UnlockRead`, `UnlockAcquire`, `UnlockJobEnds`, `UnlockDropped` |
| `policy_allows`, `verify_cookie_value` | `Allows`, `Verified` |
| share, embed, playlist, captions for a visitor | `ViewRead`, `ViewSign`, `ViewDropped` |
| `GET /media` | `Serves` |
| clocks; restart | `AccessTick`; `AccessRestart` |

`row` is the four columns; `cookies` are all cookies ever issued, with the hash
they were given for as history; `urls` the URLs that visitors have; `private`
how long a recording has been private, as history. `AccessTick` assumes that a
request to look takes less than one unit of the clock, and lets hashing and
setting take any number. `AccessLock` knows none of this: a lock, and keys
which a change of the lock takes back. The mapping takes the cookies that open
a recording now for its keys.

### Captions, Comments, Reactions

PostgreSQL is external. `Comments` and `Reactions` use of it that a statement
is atomic, sees the table as it was when it began, and keeps foreign keys;
`Captions` also uses row locks, the wait of a unique index for uncommitted
rows, and the detection of deadlocks.

| Code | Actions |
|---|---|
| `create_caption` | `CreateBegin`, `ClearRow` per row, `EditWrite`, `EditCommit` |
| `patch_caption` | `PatchRead` before its transaction, `PatchBegin`, then as above |
| `delete_caption` | `RemoveLock`, `RemoveRename`, `RemoveCommit` or `RemoveUndone`, `RemoveRestore`, `RemovePurge` |
| PUT of the file | `PutFile` |
| dropped, deadlocked, restarted | `EditDropped`, `RemoveDropped` and `OrphanRename`; `DeadlockAbort`; `CaptionsRestart` |
| `create_comment` | `CheckParent`, `Insert` |
| `patch_comment`, `delete_comment`, cascade | `PatchReads`, `PatchWrites`; `DeleteComment`; `CommentsCascade` |
| `toggle_reaction` | `ToggleBegin` (the snapshot), `ToggleApply` |
| `record_view`, midnight, cascade | `WatchBegin`, `WatchInsert`; `Midnight`; `ReactionsCascade` |

A file operation that tokio has handed to a thread is not taken back with its
handler. So a deletion dropped at its rename either moves nothing or, with
`OrphanRename`, moves the file when its lock on the row is long gone; both are
among the deletions that are cut off, whose file `torn` records. In
`VideoLifecycle` nothing is locked at that point, and a rename that lands later
is `DeleteRename` followed by `DeleteDropped`.

`CaptionList` knows no transaction, lock or file: it is a list in which one
caption at a time is saved or removed, whoever becomes the default takes that
from all others in the same step, and no id is used again. Its variables are
the committed rows and the ids ever given out, so the mapping is the identity;
a COMMIT is a Save, the COMMIT of a deletion a Remove, all else stutters.

History: `torn`, `late` and `uploaded` of a caption's file, `deleted` of
comments, `counted` of views, and `same` of a toggle, which says that no other
toggle has changed what it saw.

### Playback

| Code | Actions |
|---|---|
| `playlist::get` | `AskPlaylist`, then `AnswerPlaylist` with `Lists` |
| `serve_file_with_range`, `parse_range` | `Stat` (the size, the range, the status), `OpenFile` |
| a PUT or a mux job publishes; deletion | `Publish`; `FilesGo` |

A playlist request looks more than once, at the muxed file before the raw one
and at a directory's entries one by one, so what comes or goes between its
first and its last look may be listed or not. `Segments` are those of one kind,
as video and audio have a directory and a request each.

The size is looked at before the file is opened by name again, so `Stat` and
`OpenFile` are two steps. The numbers of a header are bounded by `MaxNumber`,
2^64 - 1 in the code; what is no number or does not fit stands for itself.
`same` and `kept` are history: the file was not replaced between the two looks,
the recording was not deleted since the playlist. Where the file was replaced,
the body of a range is still a prefix of what was announced. A whole file is
sent without a limit, and may then differ in length from its announced one; what
the HTTP server makes of that is not modelled, nor is anything promised of the
500 after a deletion between the looks.

### Components side by side

`VideoLifecycle`, `Accounts`, `Captions`, `Comments`, `Reactions` and
`Playback` have no variable in common, except that comments and reactions hang
on `videoRow`. `WorkDuringDeletion` extends the variables of `VideoLifecycle`
and is a part of its own. `MCSideBySide` puts them into one
run for safety, and `MCLiveness` three of them into one for liveness. The variable `part`, chosen in the initial state, says which one moves
while the others stand still. Since no guard of one reads a variable of
another, this loses no behaviour of any component: the states found are the
sum, and not the product, of what each reaches alone.

## Runs

Everything is checked by `tlc -config X.cfg M`, with M the module named in
`PROJECT.json`; every run ends within minutes.

| Run | Instance | Properties |
|---|---|---|
| `upload_pair` | 2 uploads to one destination, 1 part, 2 handlers, 1 fault | `TypeOK`, `ExclusiveFinalizer`, `ProgressHasOpenUpload` |
| `upload_parts` | 1 upload, parts 1..2 of sizes 1..2, 2 handlers, 1 fault | `TerminalIsFinal`, `ImplementsContract` |
| `upload_live` | 1 upload, 1 part, 2 handlers, 2 faults, fair | `StagingReclaimed`, `FinalizingResolves` |
| `upload_sweep` | 1 upload, no fault | refutes `FinalizingPreserved` |
| `mux_safe` | 2 recordings, 2 clients, 1 crash or dropped request, 1 failing UPDATE, 1 edit, 1 stop | `TypeOK`, `NoDuplicateWork`, `CompleteHasResult`, `ImplementsMuxContract`, `SettledAtExit`, `NoClaimLost` |
| `mux_live` | 2 recordings, 1 client, 1 crash, 1 failing statement, 1 edit, fair | `ProcessingResolves` |
| `mux_long_queue` | 4 recordings, 5 job slots, no fault | refutes `NoDuplicateWork` |
| `access` | 1 recording, 2 passwords, 2 requests of the owner, 1 unlock, 1 visitor, 1 permit, 1 fault, 3 changes | `AccessTypeOK`, `HashJobsBounded`, `CompatInStep`, `CookieFitsPassword`, `UrlsRunOut`, `ImplementsLock` |
| `side_by_side` | seven parts, two handlers at once in each that has several (a deletion meets one worker at a time), 1 fault where the part counts faults | `PartsTypeOK`; video: `ProgressNeverFalls`, `OnlyFinishedEnds`; work: `CompletedHasFile`; accounts: `SuccessIsProven`; captions: `OneDefault`, `DefaultNotLost`, `RowKeepsVtt`, `DeletedLeavesNothing`, `ImplementsList`; comments: `RepliesHaveThread`, `DeletedStaysDeleted`; reactions: `LoneToggleFlips`, `CountedOnce`; playback: `BodyIsTheRange`, `UrlLeadsToFile` |
| `live` | video with 2 deletions, accounts with 2 sign-ins and 1 permit, captions with 2 edits; 1 fault each, fair | `RowKeepsFile`, `DeletionRepeatable`, `SignInServed`, `EditsEnd` |
| `range_refused` | 1 player, files up to 2 bytes | refutes `RefusedIsUnsatisfiable` |
| `toggle_overlap` | 2 toggles of 1 reaction | refutes `EveryToggleFlips` |

Four refuted statements are comments of the code:

* `src/storage.rs:98` says that uploads marked finalizing are preserved by the
  sweep. The set is read once before the walk. In `upload_sweep` an upload idle
  for a day is completed after that query; the sweep, which read the heartbeat
  before complete refreshed it, removes the parts being assembled. The
  assembly then fails and the client has to send the parts again;
  nothing incomplete is published (`ImplementsContract`, `OnlyWholeFiles`).
* `src/routes/upload.rs:785` says that six hours keep this process's own jobs
  out of recovery, counting ten serial jobs. Ten is the size of a recovery
  batch; the queue also takes a job per recording-complete, without limit, and
  `updated_at` stays what it was at the claim. `mux_long_queue` has more jobs
  than the time allows, and recovery claims a recording whose job is alive.
* `src/routes/media.rs:209` promises "416 for malformed or unsatisfiable ranges
  (RFC 9110)". A range that begins inside the file and ends beyond it is
  satisfiable there, and ends at the file's end; the guard refuses it with 416.
  What is sent otherwise is right: `BodyIsTheRange`.
* `src/routes/collaboration.rs:511` says "Atomic toggle: delete if present,
  otherwise insert." Both parts of the statement see the same snapshot, and of
  two that overlap and saw no reaction the second does nothing and answers
  that the reaction is not active, while it is. `LoneToggleFlips` is what
  remains true.

### Bounds

Time is counted in units and compared with thresholds only, so their order
matters and not their size: a URL lives shorter than a lease, a lease shorter
than staging (0 < 1 < 2 units), and every age stops one above its threshold.
Two handlers are enough for two of any kind to meet; the sweep is one more
actor. Two uploads are the smallest number that share a destination and a
progress row, two parts the smallest for an incomplete or mixed assembly. The
fault bound counts crashes, drops and failed calls together. The two liveness
instances allow a second kind of fault because what matters there is to recover
from one while another follows.

`AssemblyBound` is an assumption and not a limit of the code: nothing stops an
assembly that takes longer than its six hour lease. `ExclusiveFinalizer`,
`TerminalIsFinal` and `ImplementsContract` need it to be at most the lease;
`ProgressHasOpenUpload` does not, and what it cannot cost is in
`OnlyWholeFiles`, which needs no such bound. `ImplementsContract` is checked
with one upload of two parts (`upload_parts`) and proved for any number. In `MuxJobs` the limit is in the code
(`FFMPEG_TIMEOUT`), and `StaleAge` is at least `JobTimeout` times the
recordings of `mux_safe`, as six hours are for up to twelve jobs.

In `VideoLifecycle` two deletions are needed for one to find the directory
gone that the other puts back (`live`), two reports to overtake each other
(`side_by_side`). A PUT whose directory was moved can begin again and make the
place taken, so one is enough. Sizes to two
give a report below, at and above another's total. The signed URL's lifetime is
no bound on the run: signing again is always possible.

In the part "work" of `side_by_side` there is one deletion and one worker at a
time, and either may begin again when it has ended. What several of each do at
once is proved (`CompletedKeepsFile`); the instance with two workers passes as
well, but takes several minutes next to the others.

In `access` three changes are the fewest for an epoch to be read, overtaken and
overtaken again; one permit makes a setter and an unlock wait for each other;
a cookie lives one unit less than a URL, so that either can run out while the
other is good. Comments have three ids for a thread, its reply and a late
reply; captions two, each of which may be the default; days 0..1 hold one
midnight; files of 0..2 bytes and numbers up to 4 hold an empty file, a first,
last and only byte, and numbers at and beyond the largest that parses.

### Fairness

No property of `access` and `side_by_side` needs any.

`MultipartUpload`: weak fairness of each handler's next step and of the sweep,
since tokio polls what is ready and the sweep loops for ever, and of `Tick`. No
client has to do anything, except in `FinalizingResolves`, whose premise is a
client that retries. `Drop` and `Crash` have no fairness and are bounded.

`MuxJobs`: weak fairness of handlers, jobs, recovery, shutdown steps and
`Boot` (a supervisor restarts the server). The semaphore needs no strong
fairness since tokio's is first come, first served, which the model follows.
`Tick` has strong fairness: a client could repeat a failing request without end
in one instant and keep the server from ever being at rest, and time passes all
the same.

`VideoLifecycle`: weak fairness of every deletion's next step, which the
runtime polls, and of one slot's `DeleteCheck`: an owner who goes on asking.
Nothing else has to happen, so creates, reports and PUTs may stop anywhere.
Faults are bounded; without an end to failing DELETEs no deletion succeeds.

`Accounts`: weak fairness of handlers and of jobs, orphans included, since
Argon2 ends; strong fairness of `SignAcquire`, since tokio's semaphore serves
its waiters in order: one that waits is served if permits come free again and
again, though others may take them in between.

`Captions`: weak fairness of handlers and of `DeadlockAbort`, since PostgreSQL
looks for deadlocks; strong fairness of the statements that wait for a row,
since its lock queues are served in order. Nobody has to begin anything.

## Proofs

`MultipartUploadProofs` holds for every set of uploads and handlers, part
limit, sizes, time limits and fault bound that satisfy `ConstantsAssumption`.

* `TypeCorrect`: `TypeOK` is always true, from an inductive type invariant that
  adds that a handler which has begun works on an upload.
* `ProgressCorrect`: `ProgressHasOpenUpload`. By itself it is not inductive:
  `InitiateProgress` writes the row long after the INSERT. The strengthening
  `InitiateInv` says that an upload still being initiated is open and not yet
  known, so that no request can have ended it.
* `LeaseCorrect`: `ExclusiveFinalizer` if `AssemblyBound <= LeaseAge`. The
  strengthening `LeaseInv` adds that the age of a held claim is within the
  bound, hence the claim cannot be taken over.
* `OutcomeIsFinal` and `ContractImplemented` follow from these and `CopyInv`,
  which says that what has been copied is a prefix of the manifest and that a
  handler about to commit has published.
* `OnlyWholeFiles` assumes nothing about how long an assembly takes. Handlers
  may then outlast their lease, two of them assemble one upload, and an outcome
  may change. The destination is whole nevertheless: it holds all the parts of
  one list that a client named, and what is completed was published.

`MuxJobsProofs` holds for every number of recordings, clients, job slots and
every time limit and bound.

* `MuxTypeCorrect`: `TypeOK`.
* `ResultCorrect`: `CompleteHasResult`, from the invariant that a job about to
  write 'complete' has published. It holds with duplicated jobs as well.
* `ExitCorrect`: `SettledAtExit`, and `ClaimsAccounted`: `NoClaimLost`. Both
  rest on `StopInv`: once the flag is set no handler is left, every task alive
  after the list was taken is on it under its own recording, and a recovery
  pass that is due has claimed nothing yet.

That a recording has one worker rests on time: the comment at `upload.rs:785`
counts jobs against six hours. Two formulas say what it takes. `QueueFits(d)`:
the jobs of `d` recordings, one after the other, fit into `StaleAge`, as twelve
jobs of at most half an hour do. `QueueShort(d)`: tasks for at most `d`
recordings are queued or running at once. `mux_long_queue` shows that without
them the conclusion is false.

* `ShortQueueNoDuplicates`: with `QueueFits(d)`, as long as `QueueShort(d)`,
  `NoDuplicateWork`; however many recordings there are in the database. The
  inductive invariant `QueueInv` says that workers are distinct (`Unique`),
  that what is worked on is claimed (`Claimed`), that the waiting tasks form a
  line behind one runner (`Line`), that a claim enters the line in the instant
  it is made (`Fresh`), and, the heart of it, that the age of a claim plus the
  time for everything before it in line stays within the limit (`Timely`). Time
  passes only while the runner runs, so what a waiting claim ages the runner
  has used of its own time; a claim that recovery finds stale is older than any
  that is worked on. Of an aborted task it is enough that its claim is not stale:
  no time passes until it is marked.
* `ShortQueueCompleteFinal`: likewise `CompleteIsFinal`. `set_mux_error` has no
  condition, and needs none as long as the recording has one worker.
* `ShortQueueImplements`: likewise `ImplementsMuxContract`. Its strengthening
  `HoldInv` adds what matters while a shutdown fails recordings: a live task's
  recording is 'processing', what recovery took was claimed, and no recording is
  twice on the list that the shutdown goes through, so the task it aborts
  is the only one of the recording it marks failed, in between as well.
* `NoDuplicates`, `CompleteFinal`, `MuxContractImplemented`: the same with `QueueFits` of all recordings
  in place of a short queue, since no queue holds more than those once each.

`VideoLifecycleProofs` holds for any number of PUTs, reports and deletions and
for every bound.

* `VideoTypeCorrect`: `TypeOK`, inductive as it stands.
* `FileKeptWithRow`: `RowKeepsFile`. The invariant `FileInv` follows the file:
  it is in its place or in the trash of a deletion that may still put it back;
  and a directory with anything in it is there, so that the deletion that moves
  it knows that it did.
* `CompletedKeepsFile`: `CompletedHasFile`, for any number of workers and
  deletions at once. With `FileInv`, which every step of a worker keeps as
  well, it is enough to know that the recording has had its file (`ClaimInv`):
  a worker's claim lives as long as the row, whoever marks a row that it
  claimed published while that row was there, and a mux job without such a
  claim leaves its note in `stale`.
* `FileKeptDuringWork`: `RowKeepsFile` again, next to assemblies and mux jobs
  that make the moved directory anew and publish into it (`WorkSpec`).
* `ProgressMonotonic` and `EndsFinished`: `ProgressNeverFalls` and
  `OnlyFinishedEnds`, from types and `UploadWriters`, which lists the
  statements that write the row.

`AccountsProofs` holds for any names, passwords, sign-ins, permits and faults.

* `SignInsProven`: `SuccessIsProven`. The invariant `SignersRely` says that what
  a login has read is the row that is there, as no account's password ever
  changes, and that whoever has got past the check has proved the password
  of the account.
* `SignInPermitsKept`: `HashJobsBounded`, and `PermitsAccounted`, which no run
  repeats: the permits in use are exactly those of the handlers in a job and of
  the orphans (`JobsCounted`). So no permit is lost or returned twice, however
  clients go away and the server restarts; it is what keeps the counters from
  falling below zero.
* `AccountsTypeCorrect`: `AccountsTypeOK`, which needs that count and that a key
  in a redirect is stored (`KeysMinted`).

`RecordingAccessProofs` holds for any number of recordings, requests, changes,
permits and lifetimes.

* `AccessTypeCorrect`: `AccessTypeOK`.
* `ColumnsInStep`: `CompatInStep`, which needs that a setter with mode
  'password' has hashed one (`SettersHavePassword`).
* `PermitsKept`: `HashJobsBounded`, from `PoolCounts`, the sum of permits and
  jobs; `AccessPermitsAccounted` is `PermitsAccounted` for owners who set a
  password and visitors who unlock.
* `CookiesFit`: `CookieFitsPassword`. It is not inductive: a cookie yet to be
  issued counts too. `EpochsFit` says of cookies and of unlocks under way that
  their epoch is not beyond the row's, and that where it is the row's, the hash
  is the row's. An UPDATE adds one to the epoch or changes nothing that counts.
* `UrlsExpire`: `UrlsRunOut`, from `PrivateSince`: a recording has been private
  no longer than any URL of it is old.
* `LockImplemented`: every step of `RecordingAccess` is a step of `AccessLock`
  or none of its variables changes.

`CollaborationProofs` holds for any number of handlers and rows.

* `ThreadsCorrect`, `DeletionIsFinal`: `RepliesHaveThread`,
  `DeletedStaysDeleted`. An insert under way has an id of its own
  (`InsertIsFresh`, `InsertsDiffer`) and a parent that is top-level or deleted
  (`ParentStillTopLevel`), so the foreign key's look at the parent is enough.
* `ViewsCountedOnce`, `LoneTogglesFlip`, and `RowsGoWithVideo`, that nothing
  outlives the recording (proved only, no run repeats it): a toggle that no
  other has disturbed has seen the table as it is (`SnapshotHolds`).
* `DefaultIsUnique`, `DefaultKept`: `OneDefault`, `DefaultNotLost`. `EditsFit`
  says for each transaction what it holds, that no other holds the same, and
  that one about to commit a default has cleared all others and is alone.
* `RowsKeepFiles`, `DeletionTakesFile`: `RowKeepsVtt`, `DeletedLeavesNothing`,
  from `RemovesFit`: one deletion holds a row until it commits.
* `ListImplemented`: `ImplementsList`. An uncommitted change is no step of
  `CaptionList`, so all rests on the COMMIT: what it replaces is still what the
  transaction locked, and the flags it clears are those of all other captions
  (`EditsFit`).

`PlaybackProofs` holds for every size of file and every largest number.

* `RangesExact`: the answer to a header is the range that it names and lies
  within the file. This is the arithmetic of `parse_range` and of the guard
  after it, for all numbers.
* `BodiesExact`, `UrlsLead`: `BodyIsTheRange`, `UrlLeadsToFile`, from
  `SlotFits`, which says of a player in each state what its history claims:
  of one whose playlist request is under way, that what it saw first is there
  until the recording is deleted.

`SideBySideProofs` shows that putting components into one run loses nothing and
adds nothing. Projected on its own variables a behaviour of `SideBySideSpec` is
one of each component's specification (`AccountsAlone`, `CaptionsAlone` and so
on; `OtherHalf` for `VideoLifecycle` and `WorkDuringDeletion`, of which a
behaviour is one or the other). The recording that comments and reactions hang
on goes and comes for the one that stands still as well; it has nothing that
the cascade could take (`AtRest`). Hence the components' theorems hold of the
whole:

* `PartsTypeCorrect`: `PartsTypeOK`.
* `InvariantsOfTheWhole`: every safety invariant that `side_by_side` checks.
* `StepsOfTheWhole`: its action properties and `ImplementsList`.

The assumptions are the constants' named ones: bounds are natural numbers, at
least one permit, and markers such as `NoKey` or `Absent` are none of the values
beside which they stand. Nothing else is assumed, save `AssemblyBound`,
`QueueFits` and `QueueShort` where named above.

Every safety invariant and every action property that a passing run checks is
also the statement of a theorem. Only model-checked: liveness (`StagingReclaimed`, `FinalizingResolves`,
`ProcessingResolves`, `DeletionRepeatable`, `SignInServed`, `EditsEnd`), which
rests on fairness and is out of the prover's reach.

## Not modelled

* The S3 backend keeps no state: presigned URLs and HEADs to a service. Deletion,
  multipart uploads and muxing refuse it.
* Pages, JSON shapes, listings, totals and status answers are queries over the
  rows above. The order of playlists and of segment names is the client's
  choice of names; with more than 999 segments the order of names is not that
  of numbers, which sets of segments do not show.
* HMAC, Argon2 and tokens are not modelled as computations: a URL is its age, a
  cookie its epoch, a key its id. Paths are not strings.
* Single columns written by single statements (name, metadata, language, label,
  downloads_enabled) are left out.
* A recording that is deleted and created again with the same id starts at
  epoch 0; `RecordingAccess` does not delete recordings. A mux job that is
  older than such a recording marks it complete; `WorkDuringDeletion` has this
  step, and its property leaves the case out.
* What a deletion of the recording leaves of captions in the trash of a
  deletion that was cut off; legacy plaintext keys; the owner's own URLs.
* Recovery takes ten recordings an hour by id. Sixty that always fail would
  keep later ones waiting for ever; an instance of that size is out of reach.
* Configuration, errors, health and changelog have no state that changes.

Left to do: the liveness of recovery with a full batch, on an abstraction of
`MuxJobs` that keeps only ages; access across a deletion.
