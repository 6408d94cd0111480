------------------------------- MODULE MuxJobs -------------------------------
(***************************************************************************)
(* Muxing of segmented recordings in cap-rust: the recording-complete      *)
(* route, the background job it spawns, the recovery of stale jobs         *)
(* (src/routes/upload.rs), the serial job runner and its shutdown          *)
(* (src/state.rs), start and graceful stop of the process (src/main.rs).   *)
(*                                                                         *)
(* A job's claim is the row itself: mux_status = 'processing' and the age  *)
(* of updated_at.  A process may stop at any point and leave a claim with  *)
(* no job; recovery decides by age alone which claims those are.           *)
(***************************************************************************)
EXTENDS Integers, FiniteSets

CONSTANTS
    Videos,      \* ids of segmented recordings on local storage, comparable
    Reqs,        \* slots for concurrent recording-complete requests
    JobIds,      \* slots for spawned tasks, numbers
    Batch,       \* MUX_RECOVERY_BATCH
    JobTimeout,  \* FFMPEG_TIMEOUT, 30 minutes
    StaleAge,    \* age updated_at must exceed for recovery, 6 hours
    MaxCrashes,  \* bound on crashes of the process and dropped requests
    MaxDbErrors, \* bound on failing status updates
    MaxEdits,    \* bound on edits of a video by its owner
    MaxStops     \* bound on graceful shutdowns

ASSUME ConstantsAssumption ==
    /\ Videos \subseteq Nat
    /\ IsFiniteSet(Videos)
    /\ JobIds \subseteq Nat
    /\ Batch \in Nat \ {0}
    /\ JobTimeout \in Nat \ {0}
    /\ StaleAge \in Nat
    /\ MaxCrashes \in Nat /\ MaxDbErrors \in Nat /\ MaxEdits \in Nat /\ MaxStops \in Nat

VARIABLES
    source,   \* videos.source ->> 'type'
    mux,      \* videos.mux_status; "null" is SQL NULL
    age,      \* age of videos.updated_at
    result,   \* TRUE: <owner>/<video>/result.mp4 exists
    req,      \* the recording-complete handlers
    recov,    \* videos a recovery pass has claimed and not yet spawned
    due,      \* TRUE: the recovery pass of this hour has not run yet
    job,      \* the spawned tasks
    ahead,    \* ahead[j]: the tasks before j in line for the semaphore's permit
    server,   \* the process: serving, the phases of its shutdown, down
    taken,    \* job slots and videos on the list that shutdown took
    spent     \* how much of the bounds is used up

vars == <<source, mux, age, result, req, recov, due, job, ahead, server, taken, spent>>
rowVars == <<source, mux, age>>
recovVars == <<recov, due>>
jobVars == <<job, ahead>>
taskVars == <<req, recovVars, jobVars>>
-----------------------------------------------------------------------------
NoVideo == -1

\* A "new" task asks for the permit and may have to "wait"; "mux" is mux_segments
\* up to ffmpeg's end, "mark" its last UPDATE, "fail" set_mux_error.  An
\* "aborted" task has lost its permit or its place in line, and shutdown has not
\* marked its recording failed yet.
NoJob == [pc |-> "none", video |-> NoVideo, ran |-> 0]
RunningPCs == {"mux", "mark", "fail"}
Alive(j) == job[j].pc # "none"
Waiting(j) == job[j].pc = "wait"
Running(j) == job[j].pc \in RunningPCs
PermitFree == \A j \in JobIds : ~Running(j)

LeaveLine(j) ==
    ahead' = [i \in JobIds |-> IF i = j THEN {} ELSE ahead[i] \ {j}]

NoReq == [pc |-> "idle", video |-> NoVideo]

\* AtomicBool shutting_down, set first thing in MuxJobs::shutdown.
ShuttingDown == server \in {"flagged", "waiting", "aborting"}

Spend(what) ==
    /\ spent[what] > 0
    /\ spent' = [spent EXCEPT ![what] = @ - 1]

\* UPDATE videos SET mux_status = s, updated_at = now() for the videos in V.
SetMux(V, s) ==
    /\ mux' = [v \in Videos |-> IF v \in V THEN s ELSE mux[v]]
    /\ age' = [v \in Videos |-> IF v \in V THEN 0 ELSE age[v]]

\* set_mux_error, whose own failure is ignored.
SetMuxError(v) ==
    \/ SetMux({v}, "error") /\ UNCHANGED spent
    \/ Spend("db") /\ UNCHANGED <<mux, age>>

\* MuxJobs::try_spawn under its mutex, when shutdown has not begun.
Spawn(v) ==
    \E j \in JobIds :
        /\ ~Alive(j)
        /\ \A i \in JobIds : ~Alive(i) => j <= i
        /\ job' = [job EXCEPT ![j] = [pc |-> "new", video |-> v, ran |-> 0]]
        /\ UNCHANGED ahead

Init ==
    /\ source = [v \in Videos |-> "desktopSegments"]
    /\ mux = [v \in Videos |-> "null"]
    /\ age = [v \in Videos |-> 0]
    /\ result = [v \in Videos |-> FALSE]
    /\ req = [r \in Reqs |-> NoReq]
    /\ recov = {}
    /\ due = TRUE
    /\ job = [j \in JobIds |-> NoJob]
    /\ ahead = [j \in JobIds |-> {}]
    /\ server = "serving"
    /\ taken = {}
    /\ spent = [crash |-> MaxCrashes, db |-> MaxDbErrors, edit |-> MaxEdits, stop |-> MaxStops]
-----------------------------------------------------------------------------
(* POST /api/upload/recording-complete                                     *)

\* Reads of the row and the first look at the flag.
CompleteCheck(r, v) ==
    /\ server = "serving"
    /\ req[r] = NoReq
    /\ source[v] = "desktopSegments"
    /\ req' = [req EXCEPT ![r] = [pc |-> "claim", video |-> v]]
    /\ UNCHANGED <<rowVars, result, recovVars, jobVars, server, taken, spent>>

\* Slip: a recording that is being processed may be claimed again.
ClaimableTwice(v) ==
    source[v] = "desktopSegments" /\ mux[v] \in {"null", "error", "processing"}

\* The WHERE clause of the claim.
Claimable(v) ==
    source[v] = "desktopSegments" /\ mux[v] \in {"null", "queued", "error"}

CompleteClaim(r) ==
    LET v == req[r].video
    IN  /\ req[r].pc = "claim"
        /\ IF Claimable(v)
           THEN SetMux({v}, "processing") /\ req' = [req EXCEPT ![r].pc = "spawn"]
           ELSE UNCHANGED <<mux, age>> /\ req' = [req EXCEPT ![r] = NoReq]
        /\ UNCHANGED <<source, result, recovVars, jobVars, server, taken, spent>>

\* try_spawn, or set_mux_error if it refuses.
CompleteSpawn(r) ==
    LET v == req[r].video
    IN  /\ req[r].pc = "spawn"
        /\ IF ShuttingDown
           THEN SetMuxError(v) /\ UNCHANGED jobVars
           ELSE Spawn(v) /\ UNCHANGED <<mux, age, spent>>
        /\ req' = [req EXCEPT ![r] = NoReq]
        /\ UNCHANGED <<source, result, recovVars, server, taken>>

\* The client goes away and the handler's future is dropped.
CompleteDropped(r) ==
    /\ req[r] # NoReq
    /\ Spend("crash")
    /\ req' = [req EXCEPT ![r] = NoReq]
    /\ UNCHANGED <<rowVars, result, recovVars, jobVars, server, taken>>
-----------------------------------------------------------------------------
(* recover_stale_mux_jobs, at start and then every hour, one pass at a     *)
(* time: the pass at start ends before the task of the others begins.      *)

Candidates ==
    {v \in Videos : /\ source[v] = "desktopSegments"
                    /\ mux[v] \in {"processing", "error", "queued"}
                    /\ age[v] > StaleAge}

\* ORDER BY id LIMIT Batch
FirstBatch(S) == {v \in S : Cardinality({w \in S : w < v}) < Batch}

RecoverClaim ==
    /\ server # "down"
    /\ due
    /\ due' = FALSE
    /\ recov' = FirstBatch(Candidates)
    /\ SetMux(FirstBatch(Candidates), "processing")
    /\ UNCHANGED <<source, result, req, jobVars, server, taken, spent>>

\* Slip: try_spawn does not look at the flag again under the mutex.
SpawnUnchecked(v) ==
    /\ v \in recov
    /\ recov' = recov \ {v}
    /\ Spawn(v)
    /\ UNCHANGED <<rowVars, result, req, due, server, taken, spent>>

RecoverSpawn(v) ==
    /\ v \in recov
    /\ recov' = recov \ {v}
    /\ IF ShuttingDown
       THEN SetMuxError(v) /\ UNCHANGED jobVars
       ELSE Spawn(v) /\ UNCHANGED <<mux, age, spent>>
    /\ UNCHANGED <<source, result, req, due, server, taken>>
-----------------------------------------------------------------------------
(* The job: mux_segments behind the semaphore.                             *)

\* acquire_owned is first polled: the semaphore is fair, its waiters line up.
JobQueue(j) ==
    /\ job[j].pc = "new"
    /\ job' = [job EXCEPT ![j].pc = "wait"]
    /\ ahead' = [ahead EXCEPT ![j] = {i \in JobIds : Waiting(i)}]
    /\ UNCHANGED <<rowVars, result, req, recovVars, server, taken, spent>>

\* The first in line gets the permit.
JobStart(j) ==
    /\ Waiting(j) /\ ahead[j] = {}
    /\ PermitFree
    /\ LeaveLine(j)
    /\ job' = [job EXCEPT ![j].pc = "mux"]
    /\ UNCHANGED <<rowVars, result, req, recovVars, server, taken, spent>>

\* Slip: the job goes on to its last UPDATE although muxing failed.
FailureIgnored(j) ==
    /\ job[j].pc = "mux"
    /\ job' = [job EXCEPT ![j].pc = "mark"]
    /\ UNCHANGED <<rowVars, ahead, result, req, recovVars, server, taken, spent>>

\* No manifest, no segments, ffmpeg fails or is stopped at its timeout.
JobMuxFails(j) ==
    /\ job[j].pc = "mux"
    /\ job' = [job EXCEPT ![j].pc = "fail"]
    /\ UNCHANGED <<rowVars, ahead, result, req, recovVars, server, taken, spent>>

\* ffmpeg succeeds and its output is renamed onto result.mp4.
JobPublish(j) ==
    /\ job[j].pc = "mux"
    /\ job' = [job EXCEPT ![j].pc = "mark"]
    /\ result' = [result EXCEPT ![job[j].video] = TRUE]
    /\ UNCHANGED <<rowVars, ahead, req, recovVars, server, taken, spent>>

\* UPDATE ... SET source, mux_status = 'complete' WHERE id = ..., no other condition.
JobMark(j) ==
    /\ job[j].pc = "mark"
    /\ \/ /\ SetMux({job[j].video}, "complete")
          /\ source' = [source EXCEPT ![job[j].video] = "desktopMP4"]
          /\ job' = [job EXCEPT ![j] = NoJob]
          /\ UNCHANGED spent
       \/ /\ Spend("db")
          /\ job' = [job EXCEPT ![j].pc = "fail"]
          /\ UNCHANGED rowVars
    /\ UNCHANGED <<ahead, result, req, recovVars, server, taken>>

\* Slip: set_mux_error is forgotten when muxing fails.
FailSilently(j) ==
    /\ job[j].pc = "fail"
    /\ job' = [job EXCEPT ![j] = NoJob]
    /\ UNCHANGED <<rowVars, ahead, result, req, recovVars, server, taken, spent>>

JobFail(j) ==
    /\ job[j].pc = "fail"
    /\ job' = [job EXCEPT ![j] = NoJob]
    /\ SetMuxError(job[j].video)
    /\ UNCHANGED <<source, ahead, result, req, recovVars, server, taken>>
-----------------------------------------------------------------------------
(* Start and stop of the process.                                          *)

\* A signal: no new connections, requests in flight are served to the end.
StopSignal ==
    /\ server = "serving"
    /\ Spend("stop")
    /\ server' = "draining"
    /\ UNCHANGED <<rowVars, result, taskVars, taken>>

\* axum::serve has returned; shutdown sets its flag.
StopFlag ==
    /\ server = "draining"
    /\ \A r \in Reqs : req[r] = NoReq
    /\ server' = "flagged"
    /\ UNCHANGED <<rowVars, result, taskVars, taken, spent>>

\* Under the mutex: take the list of jobs.
StopTake ==
    /\ server = "flagged"
    /\ server' = "waiting"
    /\ taken' = {<<j, job[j].video>> : j \in {i \in JobIds : Alive(i)}}
    /\ UNCHANGED <<rowVars, result, taskVars, spent>>

\* The deadline passes with jobs left over.
StopDeadline ==
    /\ server = "waiting"
    /\ \E t \in taken : Alive(t[1])
    /\ server' = "aborting"
    /\ taken' = {t \in taken : Alive(t[1])}
    /\ UNCHANGED <<rowVars, result, taskVars, spent>>

\* The next leftover that has not ended by itself is stopped where it is.
NoneAborted == \A j \in JobIds : job[j].pc # "aborted"

StopAbort(t) ==
    LET j == t[1]
    IN  /\ server = "aborting"
        /\ t \in taken
        /\ Alive(j) /\ NoneAborted
        /\ job' = [job EXCEPT ![j].pc = "aborted"]
        /\ LeaveLine(j)
        /\ UNCHANGED <<rowVars, result, req, recovVars, server, taken, spent>>

\* The leftover that is next: stopped just now, or it had ended before.
Leftover(t) ==
    /\ server = "aborting"
    /\ t \in taken
    /\ job[t[1]].pc = "aborted" \/ (~Alive(t[1]) /\ NoneAborted)

\* Slip: a leftover is marked failed whatever its status has become.
MarkUnchecked(t) ==
    /\ Leftover(t)
    /\ taken' = taken \ {t}
    /\ job' = [job EXCEPT ![t[1]] = NoJob]
    /\ mux' = [mux EXCEPT ![t[2]] = "error"]
    /\ UNCHANGED <<source, age, ahead, result, req, recovVars, server, spent>>

\* Mark it failed WHERE mux_status = 'processing'.  This UPDATE leaves
\* updated_at alone, and its failure is ignored.
StopMark(t) ==
    /\ Leftover(t)
    /\ taken' = taken \ {t}
    /\ job' = [job EXCEPT ![t[1]] = NoJob]
    /\ \/ /\ mux' = [mux EXCEPT ![t[2]] = IF @ = "processing" THEN "error" ELSE @]
          /\ UNCHANGED spent
       \/ Spend("db") /\ UNCHANGED mux
    /\ UNCHANGED <<source, age, ahead, result, req, recovVars, server>>

Down ==
    /\ server' = "down"
    /\ req' = [r \in Reqs |-> NoReq]
    /\ recov' = {}
    /\ due' = FALSE
    /\ job' = [j \in JobIds |-> NoJob]
    /\ ahead' = [j \in JobIds |-> {}]
    /\ taken' = {}

\* shutdown and main return; tasks that are left are dropped.
StopExit ==
    /\ \/ server = "waiting" /\ \A t \in taken : ~Alive(t[1])
       \/ server = "aborting" /\ taken = {}
    /\ Down
    /\ UNCHANGED <<rowVars, result, spent>>

Crash ==
    /\ server # "down"
    /\ Spend("crash")
    /\ Down
    /\ UNCHANGED <<rowVars, result>>

Boot ==
    /\ server = "down"
    /\ server' = "serving"
    /\ due' = TRUE
    /\ UNCHANGED <<rowVars, result, req, recov, jobVars, taken, spent>>
-----------------------------------------------------------------------------
(* The rest of the world.                                                  *)

\* The client repeats POST /api/desktop/video/create for its recording: the
\* upsert writes source again and leaves mux_status alone.
RetryCreate(v) ==
    /\ server = "serving"
    /\ source[v] # "desktopSegments"
    /\ source' = [source EXCEPT ![v] = "desktopSegments"]
    /\ Spend("edit")
    /\ UNCHANGED <<mux, age, result, taskVars, server, taken>>

\* The owner edits title, access or settings: updated_at = now().
OwnerEdit(v) ==
    /\ server = "serving"
    /\ age[v] > 0
    /\ age' = [age EXCEPT ![v] = 0]
    /\ Spend("edit")
    /\ UNCHANGED <<source, mux, result, taskVars, server, taken>>

\* Time passes only when no task can go on: the runtime polls what is ready
\* long before a unit of time is over.
Settled ==
    /\ \A r \in Reqs : req[r].pc # "spawn"
    /\ recov = {} /\ ~due
    /\ \A j \in JobIds : job[j].pc \notin {"new", "mark", "fail", "aborted"}
    /\ (\E j \in JobIds : Waiting(j)) => ~PermitFree

Older ==
    /\ age' = [v \in Videos |-> IF age[v] > StaleAge THEN age[v] ELSE age[v] + 1]
    /\ job' = [j \in JobIds |-> IF job[j].pc = "mux"
                                THEN [job[j] EXCEPT !.ran = @ + 1] ELSE job[j]]
    /\ due' = (server # "down")
    /\ UNCHANGED <<source, mux, ahead, result, req, recov, server, taken, spent>>

\* Slip: ffmpeg is waited for without a timeout.
TickNoTimeout == Settled /\ Older

\* One unit of time, the period of the recovery passes.
Tick ==
    /\ Settled
    /\ \A j \in JobIds : job[j].pc = "mux" => job[j].ran < JobTimeout
    /\ Older
-----------------------------------------------------------------------------
Handler(r) == CompleteClaim(r) \/ CompleteSpawn(r)
JobStep(j) ==
    JobQueue(j) \/ JobStart(j) \/ JobMuxFails(j) \/ JobPublish(j) \/ JobMark(j) \/ JobFail(j)
Recovery == RecoverClaim \/ \E v \in Videos : RecoverSpawn(v)
StopStep ==
    \/ StopFlag \/ StopTake \/ StopDeadline \/ StopExit
    \/ \E t \in JobIds \X Videos : StopAbort(t) \/ StopMark(t)

Next ==
    \/ \E r \in Reqs : (\E v \in Videos : CompleteCheck(r, v)) \/ Handler(r) \/ CompleteDropped(r)
    \/ \E j \in JobIds : JobStep(j)
    \/ Recovery
    \/ StopSignal \/ StopStep \/ Crash \/ Boot
    \/ \E v \in Videos : RetryCreate(v) \/ OwnerEdit(v)
    \/ Tick

Spec == Init /\ [][Next]_vars

\* The runtime polls every task, the semaphore's line is first come first
\* served, the recovery task loops for ever and a supervisor starts the
\* process again.  Time passes whatever clients do: requests without end that
\* all fall into one instant are no behaviour, hence SF for Tick.
Fairness ==
    /\ \A r \in Reqs : WF_vars(Handler(r))
    /\ \A j \in JobIds : WF_vars(JobStep(j))
    /\ WF_vars(RecoverClaim)
    /\ \A v \in Videos : WF_vars(RecoverSpawn(v))
    /\ WF_vars(StopStep) /\ WF_vars(Boot)
    /\ SF_vars(Tick)

FairSpec == Spec /\ Fairness
-----------------------------------------------------------------------------
(* Properties.                                                             *)

\* Every variable stays within its type.
TypeOK ==
    /\ source \in [Videos -> {"desktopSegments", "desktopMP4"}]
    /\ mux \in [Videos -> {"null", "processing", "error", "complete"}]
    /\ age \in [Videos -> 0..StaleAge + 1]
    /\ result \in [Videos -> BOOLEAN]
    /\ req \in [Reqs -> [pc : {"idle", "claim", "spawn"}, video : Videos \cup {NoVideo}]]
    /\ recov \subseteq Videos
    /\ due \in BOOLEAN
    /\ job \in [JobIds -> [pc : {"none", "new", "wait", "aborted"} \cup RunningPCs,
                           video : Videos \cup {NoVideo}, ran : 0..JobTimeout]]
    /\ ahead \in [JobIds -> SUBSET JobIds]
    /\ server \in {"serving", "draining", "flagged", "waiting", "aborting", "down"}
    /\ taken \subseteq JobIds \X Videos
    /\ spent \in [crash : 0..MaxCrashes, db : 0..MaxDbErrors, edit : 0..MaxEdits, stop : 0..MaxStops]

\* upload.rs: "Atomically claim the video for muxing so concurrent complete
\* calls cannot start duplicate work", and of recovery: "Six hours keeps this
\* process's queued and running jobs outside recovery."  So no video is in the
\* hands of two workers: a request or recovery pass about to spawn, or a job.
Workers(v) ==
    {<<"req", r>> : r \in {x \in Reqs : req[x].pc = "spawn" /\ req[x].video = v}}
    \cup {<<"job", j>> : j \in {x \in JobIds : Alive(x) /\ job[x].video = v}}
    \cup {<<"recovery", w>> : w \in recov \cap {v}}

Worked(v) == Workers(v) # {}

NoDuplicateWork == \A v \in Videos : Cardinality(Workers(v)) <= 1

\* 'complete' is only said of a recording whose result.mp4 was published.
CompleteHasResult == \A v \in Videos : mux[v] = "complete" => result[v]

\* Whatever requests, recovery, the queue and a shutdown do to each other, a
\* recording goes through claims as MuxContract says: one holder at a time,
\* who alone publishes the file and then calls it complete.  That is final:
\* neither a failing duplicate, nor recovery, nor shutdown takes it back.
Held == {v \in Videos : Worked(v)}
Contract == INSTANCE MuxContract WITH held <- Held
ImplementsMuxContract == Contract!ContractSpec

\* state.rs, of shutdown: "Stop accepting new jobs, wait for in-flight work up
\* to `timeout`, then abort leftovers and mark them failed in the database."
\* When main returns, nobody works on a recording any more, except for a
\* recovery pass that has claimed and not spawned: no job was missed.
SettledAtExit ==
    [][StopExit => \A v \in Videos : Worked(v) => v \in recov]_vars

\* Whoever stops working on a recording in 'processing' says how it ended: a
\* claim is orphaned only by a crash or a dropped request, by a failing status
\* update, or in a recovery pass that the end of main cuts off.
NoClaimLost ==
    [][\A v \in Videos : mux[v] = "processing" /\ Worked(v) /\ ~Worked(v)' =>
          \/ mux'[v] # "processing"
          \/ spent'["crash"] < spent["crash"]
          \/ spent'["db"] < spent["db"]
          \/ StopExit /\ v \in recov]_vars

\* No recording is stuck in 'processing': a job decides it, or a stopped
\* process's claim grows old and recovery takes it over.
ProcessingResolves ==
    \A v \in Videos : mux[v] = "processing" ~> mux[v] \in {"complete", "error"}
=============================================================================
