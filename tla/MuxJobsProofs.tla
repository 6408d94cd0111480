---------------------------- MODULE MuxJobsProofs ----------------------------
(***************************************************************************)
(* Theorems about MuxJobs, for any number of recordings, clients and job   *)
(* slots and for every limit of time.                                      *)
(***************************************************************************)
EXTENDS MuxJobs, FiniteSetTheorems, TLAPS

-----------------------------------------------------------------------------
(* Type correctness.                                                       *)

Slot == [pc : {"none", "new", "wait", "aborted"} \cup RunningPCs,
         video : Videos \cup {NoVideo}, ran : 0..JobTimeout]
Handlers == [pc : {"idle", "claim", "spawn"}, video : Videos \cup {NoVideo}]

\* A live task has a recording, a running handler too.
Engaged ==
    /\ \A j \in JobIds : Alive(j) => job[j].video \in Videos
    /\ \A r \in Reqs : req[r].pc # "idle" => req[r].video \in Videos

TypeInv == TypeOK /\ Engaged

\* The conjuncts of TypeInv that several actions disturb in the same way.
RowTypes ==
    /\ source \in [Videos -> {"desktopSegments", "desktopMP4"}]
    /\ mux \in [Videos -> {"null", "processing", "error", "complete"}]
    /\ age \in [Videos -> 0..StaleAge + 1]
ReqTypes ==
    /\ req \in [Reqs -> Handlers]
    /\ \A r \in Reqs : req[r].pc # "idle" => req[r].video \in Videos
JobTypes ==
    /\ job \in [JobIds -> Slot]
    /\ \A j \in JobIds : Alive(j) => job[j].video \in Videos
LineTypes == ahead \in [JobIds -> SUBSET JobIds]
RecovTypes == recov \subseteq Videos /\ due \in BOOLEAN
StopTypes ==
    /\ server \in {"serving", "draining", "flagged", "waiting", "aborting", "down"}
    /\ taken \subseteq JobIds \X Videos
SpentTypes ==
    spent \in [crash : 0..MaxCrashes, db : 0..MaxDbErrors, edit : 0..MaxEdits, stop : 0..MaxStops]

LEMMA TypeParts ==
    TypeInv <=> /\ RowTypes /\ ReqTypes /\ JobTypes /\ LineTypes /\ RecovTypes
                /\ StopTypes /\ SpentTypes /\ result \in [Videos -> BOOLEAN]
  BY DEF TypeInv, TypeOK, Engaged, RowTypes, ReqTypes, JobTypes, LineTypes, RecovTypes,
         StopTypes, SpentTypes, Slot, Handlers

LEMMA TypePartsNext ==
    ASSUME RowTypes', ReqTypes', JobTypes', LineTypes', RecovTypes', StopTypes', SpentTypes',
           (result \in [Videos -> BOOLEAN])'
    PROVE  TypeInv'
  BY DEF TypeInv, TypeOK, Engaged, RowTypes, ReqTypes, JobTypes, LineTypes, RecovTypes,
         StopTypes, SpentTypes, Slot, Handlers

\* What a step leaves alone keeps its type.
LEMMA KeptTypes ==
    ASSUME TypeInv
    PROVE  /\ UNCHANGED rowVars => RowTypes'
           /\ UNCHANGED req => ReqTypes'
           /\ UNCHANGED job => JobTypes'
           /\ UNCHANGED ahead => LineTypes'
           /\ UNCHANGED recovVars => RecovTypes'
           /\ UNCHANGED <<server, taken>> => StopTypes'
           /\ UNCHANGED spent => SpentTypes'
           /\ UNCHANGED result => (result \in [Videos -> BOOLEAN])'
  BY TypeParts DEF rowVars, recovVars, RowTypes, ReqTypes, JobTypes, LineTypes, RecovTypes,
         StopTypes, SpentTypes, Alive

LEMMA SpendType ==
    ASSUME TypeInv, NEW what \in {"crash", "db", "edit", "stop"}, Spend(what)
    PROVE  SpentTypes' /\ spent'[what] < spent[what]
  BY ConstantsAssumption DEF TypeInv, TypeOK, SpentTypes, Spend

LEMMA SetMuxType ==
    ASSUME TypeInv, NEW V, NEW s \in {"null", "processing", "error", "complete"},
           SetMux(V, s), UNCHANGED source
    PROVE  RowTypes'
  BY ConstantsAssumption DEF TypeInv, TypeOK, RowTypes, SetMux

LEMMA SetMuxErrorType ==
    ASSUME TypeInv, NEW v, SetMuxError(v), UNCHANGED source
    PROVE  RowTypes' /\ SpentTypes'
  <1>1. CASE SetMux({v}, "error") /\ UNCHANGED spent
    BY <1>1, SetMuxType, KeptTypes
  <1>2. CASE Spend("db") /\ UNCHANGED <<mux, age>>
    BY <1>2, SpendType, KeptTypes DEF rowVars
  <1> QED
    BY <1>1, <1>2 DEF SetMuxError

LEMMA EmptySlots == NoJob \in Slot /\ NoJob.pc = "none" /\ NoReq \in Handlers /\ NoReq.pc = "idle"
  BY ConstantsAssumption DEF NoJob, Slot, NoReq, Handlers

\* Rewriting one slot, or one handler.
LEMMA SlotType ==
    ASSUME TypeInv, NEW j \in JobIds, NEW x \in Slot, x.pc # "none" => x.video \in Videos,
           job' = [job EXCEPT ![j] = x]
    PROVE  JobTypes'
  BY TypeParts DEF JobTypes, Alive

LEMMA SlotPcType ==
    ASSUME TypeInv, NEW j \in JobIds, Alive(j), NEW pc \in {"wait", "aborted"} \cup RunningPCs,
           job' = [job EXCEPT ![j].pc = pc]
    PROVE  JobTypes'
  <1> DEFINE x == [job[j] EXCEPT !.pc = pc]
  <1>1. job[j] \in Slot /\ job[j].video \in Videos
    BY TypeParts DEF JobTypes
  <1>2. x \in Slot /\ x.video \in Videos
    BY <1>1 DEF Slot
  <1>3. job' = [job EXCEPT ![j] = x]
    OBVIOUS
  <1> QED
    BY <1>2, <1>3, SlotType

LEMMA SlotFreed ==
    ASSUME TypeInv, NEW j \in JobIds, job' = [job EXCEPT ![j] = NoJob]
    PROVE  JobTypes'
  BY EmptySlots, SlotType

LEMMA HandlerType ==
    ASSUME TypeInv, NEW r \in Reqs, NEW x \in Handlers, x.pc # "idle" => x.video \in Videos,
           req' = [req EXCEPT ![r] = x]
    PROVE  ReqTypes'
  BY TypeParts DEF ReqTypes

LEMMA SpawnType ==
    ASSUME TypeInv, NEW v \in Videos, Spawn(v)
    PROVE  JobTypes' /\ LineTypes'
  <1>1. PICK j \in JobIds : /\ job' = [job EXCEPT ![j] = [pc |-> "new", video |-> v, ran |-> 0]]
                            /\ UNCHANGED ahead
    BY DEF Spawn
  <1>2. [pc |-> "new", video |-> v, ran |-> 0] \in Slot
    BY ConstantsAssumption DEF Slot
  <1>3. JobTypes'
    BY <1>1, <1>2, SlotType
  <1>4. LineTypes'
    BY <1>1, KeptTypes
  <1> QED
    BY <1>3, <1>4

LEMMA LeaveLineType ==
    ASSUME TypeInv, NEW j, LeaveLine(j)
    PROVE  LineTypes'
  BY TypeParts DEF LineTypes, LeaveLine

LEMMA DownType ==
    ASSUME Down
    PROVE  ReqTypes' /\ JobTypes' /\ LineTypes' /\ RecovTypes' /\ StopTypes'
  BY EmptySlots DEF Down, ReqTypes, JobTypes, LineTypes, RecovTypes, StopTypes, Alive

LEMMA TypeInit == Init => TypeInv
  <1> SUFFICES ASSUME Init PROVE TypeInv
    OBVIOUS
  <1>1. RowTypes
    BY ConstantsAssumption DEF Init, RowTypes
  <1>2. ReqTypes
    BY EmptySlots DEF Init, ReqTypes
  <1>3. JobTypes /\ LineTypes
    BY EmptySlots DEF Init, JobTypes, LineTypes, Alive
  <1>4. RecovTypes /\ StopTypes /\ result \in [Videos -> BOOLEAN]
    BY DEF Init, RecovTypes, StopTypes
  <1>5. SpentTypes
    BY ConstantsAssumption DEF Init, SpentTypes
  <1> QED
    BY <1>1, <1>2, <1>3, <1>4, <1>5, TypeParts

LEMMA TypeStep == TypeInv /\ [Next]_vars => TypeInv'
  <1> SUFFICES ASSUME TypeInv, [Next]_vars
               PROVE  /\ RowTypes' /\ ReqTypes' /\ JobTypes' /\ LineTypes' /\ RecovTypes'
                      /\ StopTypes' /\ SpentTypes' /\ (result \in [Videos -> BOOLEAN])'
    BY TypePartsNext
  <1> USE DEF jobVars, taskVars
  <1>1. ASSUME NEW r \in Reqs, NEW v \in Videos, CompleteCheck(r, v) PROVE ReqTypes'
    <2>1. [pc |-> "claim", video |-> v] \in Handlers
      BY DEF Handlers
    <2> QED
      BY <1>1, <2>1, HandlerType DEF CompleteCheck
  <1>2. ASSUME NEW r \in Reqs, CompleteClaim(r) PROVE RowTypes' /\ ReqTypes'
    <2>1. req[r] \in Handlers /\ req[r].video \in Videos
      BY <1>2, TypeParts DEF CompleteClaim, ReqTypes
    <2>2. CASE Claimable(req[r].video)
      <3>1. req' = [req EXCEPT ![r] = [@ EXCEPT !.pc = "spawn"]]
        BY <1>2, <2>2 DEF CompleteClaim
      <3>2. [req[r] EXCEPT !.pc = "spawn"] \in Handlers
        BY <2>1 DEF Handlers
      <3>3. ReqTypes'
        BY <2>1, <3>1, <3>2, HandlerType DEF Handlers
      <3>4. RowTypes'
        BY <1>2, <2>2, SetMuxType DEF CompleteClaim
      <3> QED
        BY <3>3, <3>4
    <2>3. CASE ~Claimable(req[r].video)
      <3>1. req' = [req EXCEPT ![r] = NoReq] /\ UNCHANGED rowVars
        BY <1>2, <2>3 DEF CompleteClaim, rowVars
      <3> QED
        BY <3>1, HandlerType, EmptySlots, KeptTypes
    <2> QED
      BY <2>2, <2>3
  <1>3. ASSUME NEW r \in Reqs, CompleteSpawn(r)
        PROVE  RowTypes' /\ ReqTypes' /\ JobTypes' /\ LineTypes' /\ SpentTypes'
    <2>1. req[r].video \in Videos
      BY <1>3, TypeParts DEF CompleteSpawn, ReqTypes
    <2>2. ReqTypes'
      BY <1>3, HandlerType, EmptySlots DEF CompleteSpawn
    <2>3. CASE ShuttingDown
      BY <1>3, <2>2, <2>3, SetMuxErrorType, KeptTypes DEF CompleteSpawn
    <2>4. CASE ~ShuttingDown
      <3>1. Spawn(req[r].video) /\ UNCHANGED <<rowVars, spent>>
        BY <1>3, <2>4 DEF CompleteSpawn, rowVars
      <3> QED
        BY <2>1, <2>2, <3>1, SpawnType, KeptTypes
    <2> QED
      BY <2>3, <2>4
  <1>4. ASSUME NEW r \in Reqs, CompleteDropped(r) PROVE ReqTypes' /\ SpentTypes'
    BY <1>4, HandlerType, EmptySlots, SpendType DEF CompleteDropped
  <1>5. ASSUME RecoverClaim PROVE RowTypes' /\ RecovTypes'
    BY <1>5, SetMuxType DEF RecoverClaim, RecovTypes, FirstBatch, Candidates
  <1>6. ASSUME NEW v \in Videos, RecoverSpawn(v)
        PROVE  RowTypes' /\ JobTypes' /\ LineTypes' /\ RecovTypes' /\ SpentTypes'
    <2>1. RecovTypes'
      BY <1>6, TypeParts DEF RecoverSpawn, RecovTypes
    <2>2. CASE ShuttingDown
      BY <1>6, <2>1, <2>2, SetMuxErrorType, KeptTypes DEF RecoverSpawn
    <2>3. CASE ~ShuttingDown
      <3>1. Spawn(v) /\ UNCHANGED <<rowVars, spent>>
        BY <1>6, <2>3 DEF RecoverSpawn, rowVars
      <3> QED
        BY <2>1, <3>1, SpawnType, KeptTypes
    <2> QED
      BY <2>2, <2>3
  <1>7. ASSUME NEW j \in JobIds, JobQueue(j) PROVE JobTypes' /\ LineTypes'
    <2>1. JobTypes'
      BY <1>7, SlotPcType DEF JobQueue, Alive
    <2>2. LineTypes'
      BY <1>7, TypeParts DEF JobQueue, LineTypes
    <2> QED
      BY <2>1, <2>2
  <1>8. ASSUME NEW j \in JobIds, JobStart(j) PROVE JobTypes' /\ LineTypes'
    BY <1>8, SlotPcType, LeaveLineType DEF JobStart, Alive, Waiting, RunningPCs
  <1>9. ASSUME NEW j \in JobIds, JobMuxFails(j) PROVE JobTypes'
    BY <1>9, SlotPcType DEF JobMuxFails, Alive, RunningPCs
  <1>10. ASSUME NEW j \in JobIds, JobPublish(j)
         PROVE  JobTypes' /\ (result \in [Videos -> BOOLEAN])'
    <2>1. JobTypes'
      BY <1>10, SlotPcType DEF JobPublish, Alive, RunningPCs
    <2>2. result' \in [Videos -> BOOLEAN]
      BY <1>10, TypeParts DEF JobPublish
    <2> QED
      BY <2>1, <2>2
  <1>11. ASSUME NEW j \in JobIds, JobMark(j) PROVE RowTypes' /\ JobTypes' /\ SpentTypes'
    <2>1. CASE /\ SetMux({job[j].video}, "complete")
               /\ source' = [source EXCEPT ![job[j].video] = "desktopMP4"]
               /\ job' = [job EXCEPT ![j] = NoJob]
               /\ UNCHANGED spent
      <3>1. source' \in [Videos -> {"desktopSegments", "desktopMP4"}]
        BY <2>1, TypeParts DEF RowTypes
      <3>2. /\ mux' \in [Videos -> {"null", "processing", "error", "complete"}]
            /\ age' \in [Videos -> 0..StaleAge + 1]
        BY <2>1, ConstantsAssumption, TypeParts DEF RowTypes, SetMux
      <3> QED
        BY <2>1, <3>1, <3>2, SlotFreed, KeptTypes DEF RowTypes
    <2>2. CASE Spend("db") /\ job' = [job EXCEPT ![j].pc = "fail"] /\ UNCHANGED rowVars
      BY <1>11, <2>2, SpendType, SlotPcType, KeptTypes DEF JobMark, Alive, RunningPCs
    <2> QED
      BY <1>11, <2>1, <2>2 DEF JobMark
  <1>12. ASSUME NEW j \in JobIds, JobFail(j) PROVE RowTypes' /\ JobTypes' /\ SpentTypes'
    BY <1>12, SlotFreed, SetMuxErrorType DEF JobFail
  <1>13. ASSUME StopSignal PROVE StopTypes' /\ SpentTypes'
    BY <1>13, SpendType, TypeParts DEF StopSignal, StopTypes
  <1>14. ASSUME StopFlag \/ StopTake \/ StopDeadline PROVE StopTypes'
    BY <1>14, TypeParts DEF StopFlag, StopTake, StopDeadline, StopTypes, JobTypes
  <1>14a. ASSUME NEW t \in JobIds \X Videos, StopAbort(t) PROVE JobTypes' /\ LineTypes'
    BY <1>14a, SlotPcType, LeaveLineType DEF StopAbort
  <1>15. ASSUME NEW t \in JobIds \X Videos, StopMark(t)
         PROVE  RowTypes' /\ JobTypes' /\ StopTypes' /\ SpentTypes'
    <2>1. t[1] \in JobIds /\ t[2] \in Videos
      OBVIOUS
    <2>2. JobTypes'
      BY <1>15, <2>1, SlotFreed DEF StopMark
    <2>3. StopTypes'
      BY <1>15, TypeParts DEF StopMark, StopTypes
    <2>4. RowTypes'
      BY <1>15, TypeParts DEF StopMark, RowTypes
    <2>5. SpentTypes'
      BY <1>15, SpendType, KeptTypes DEF StopMark
    <2> QED
      BY <2>2, <2>3, <2>4, <2>5
  <1>16. ASSUME Crash PROVE SpentTypes'
    BY <1>16, SpendType DEF Crash
  <1>17. ASSUME Boot PROVE StopTypes' /\ RecovTypes'
    BY <1>17, TypeParts DEF Boot, StopTypes, RecovTypes
  <1>18. ASSUME NEW v \in Videos, RetryCreate(v) \/ OwnerEdit(v) PROVE RowTypes' /\ SpentTypes'
    <2>1. RowTypes'
      BY <1>18, ConstantsAssumption, TypeParts DEF RetryCreate, OwnerEdit, RowTypes
    <2>2. SpentTypes'
      BY <1>18, SpendType DEF RetryCreate, OwnerEdit
    <2> QED
      BY <2>1, <2>2
  <1>19. ASSUME Tick PROVE RowTypes' /\ JobTypes' /\ RecovTypes'
    <2>1. RowTypes'
      BY <1>19, ConstantsAssumption, TypeParts DEF Tick, Older, RowTypes
    <2>2. \A j \in JobIds : /\ job'[j] \in Slot
                            /\ job'[j].video = job[j].video /\ job'[j].pc = job[j].pc
      BY <1>19, ConstantsAssumption, TypeParts DEF Tick, Older, JobTypes, Slot
    <2>3. JobTypes'
      BY <1>19, <2>2, TypeParts DEF Tick, Older, JobTypes, Alive
    <2>4. RecovTypes'
      BY <1>19, TypeParts DEF Tick, Older, RecovTypes
    <2> QED
      BY <2>1, <2>3, <2>4
  <1>20. CASE UNCHANGED vars
    BY <1>20, KeptTypes DEF vars, rowVars, recovVars
  <1>21. CASE \E r \in Reqs : (\E v \in Videos : CompleteCheck(r, v)) \/ Handler(r) \/ CompleteDropped(r)
    <2>1. PICK r \in Reqs : (\E v \in Videos : CompleteCheck(r, v)) \/ CompleteClaim(r)
                            \/ CompleteSpawn(r) \/ CompleteDropped(r)
      BY <1>21 DEF Handler
    <2>2. CASE \E v \in Videos : CompleteCheck(r, v)
      BY <2>2, <1>1, KeptTypes DEF CompleteCheck
    <2>3. CASE CompleteClaim(r)
      BY <2>3, <1>2, KeptTypes DEF CompleteClaim
    <2>4. CASE CompleteSpawn(r)
      BY <2>4, <1>3, KeptTypes DEF CompleteSpawn
    <2>5. CASE CompleteDropped(r)
      BY <2>5, <1>4, KeptTypes DEF CompleteDropped
    <2> QED
      BY <2>1, <2>2, <2>3, <2>4, <2>5
  <1>22. CASE \E j \in JobIds : JobStep(j)
    <2>1. PICK j \in JobIds : JobStep(j)
      BY <1>22
    <2>2. CASE JobQueue(j)
      BY <2>2, <1>7, KeptTypes DEF JobQueue
    <2>3. CASE JobStart(j)
      BY <2>3, <1>8, KeptTypes DEF JobStart
    <2>4. CASE JobMuxFails(j)
      BY <2>4, <1>9, KeptTypes DEF JobMuxFails
    <2>5. CASE JobPublish(j)
      BY <2>5, <1>10, KeptTypes DEF JobPublish
    <2>6. CASE JobMark(j)
      BY <2>6, <1>11, KeptTypes DEF JobMark
    <2>7. CASE JobFail(j)
      BY <2>7, <1>12, KeptTypes DEF JobFail
    <2> QED
      BY <2>1, <2>2, <2>3, <2>4, <2>5, <2>6, <2>7 DEF JobStep
  <1>23. CASE Recovery
    <2>1. CASE RecoverClaim
      BY <2>1, <1>5, KeptTypes DEF RecoverClaim
    <2>2. CASE \E v \in Videos : RecoverSpawn(v)
      BY <2>2, <1>6, KeptTypes DEF RecoverSpawn
    <2> QED
      BY <1>23, <2>1, <2>2 DEF Recovery
  <1>24. CASE StopStep
    <2>1. CASE StopFlag \/ StopTake \/ StopDeadline
      BY <2>1, <1>14, KeptTypes DEF StopFlag, StopTake, StopDeadline
    <2>2. CASE StopExit
      BY <2>2, DownType, KeptTypes DEF StopExit
    <2>3. CASE \E t \in JobIds \X Videos : StopAbort(t)
      BY <2>3, <1>14a, KeptTypes DEF StopAbort
    <2>4. CASE \E t \in JobIds \X Videos : StopMark(t)
      BY <2>4, <1>15, KeptTypes DEF StopMark
    <2> QED
      BY <1>24, <2>1, <2>2, <2>3, <2>4 DEF StopStep
  <1>25. CASE StopSignal
    BY <1>25, <1>13, KeptTypes DEF StopSignal
  <1>26. CASE Crash
    BY <1>26, <1>16, DownType, KeptTypes DEF Crash
  <1>27. CASE Boot
    BY <1>27, <1>17, KeptTypes DEF Boot
  <1>28. CASE \E v \in Videos : RetryCreate(v) \/ OwnerEdit(v)
    BY <1>28, <1>18, KeptTypes DEF RetryCreate, OwnerEdit
  <1>29. CASE Tick
    BY <1>29, <1>19, KeptTypes DEF Tick, Older
  <1> QED
    BY <1>20, <1>21, <1>22, <1>23, <1>24, <1>25, <1>26, <1>27, <1>28, <1>29 DEF Next

LEMMA TypeAlways == Spec => []TypeInv
  BY TypeInit, TypeStep, PTL DEF Spec

\* The statuses, ages, tasks, line, phases and bounds stay within their types.
THEOREM MuxTypeCorrect == Spec => []TypeOK
  <1>1. TypeInv => TypeOK
    BY DEF TypeInv
  <1> QED
    BY <1>1, TypeAlways, PTL
-----------------------------------------------------------------------------
(* 'complete' implies result.mp4.                                          *)

\* A job that is about to write 'complete' has published.  Without this
\* CompleteHasResult is not inductive.
Published == \A j \in JobIds : job[j].pc = "mark" => result[job[j].video]

ResultInv == CompleteHasResult /\ Published

LEMMA ResultInit == Init => ResultInv
  BY DEF Init, ResultInv, CompleteHasResult, Published, NoJob

\* Steps that neither make a recording complete, nor take a job to its last
\* UPDATE, nor touch result.
LEMMA ResultKept ==
    ASSUME ResultInv, UNCHANGED result,
           \A v \in Videos : mux'[v] = "complete" => mux[v] = "complete",
           \A j \in JobIds : job'[j].pc = "mark" =>
               job[j].pc = "mark" /\ job'[j].video = job[j].video
    PROVE  ResultInv'
  BY DEF ResultInv, CompleteHasResult, Published

LEMMA SetMuxKeeps ==
    ASSUME NEW V, NEW s \in {"processing", "error"}, SetMux(V, s)
    PROVE  \A v \in Videos : mux'[v] = "complete" => mux[v] = "complete"
  BY DEF SetMux

LEMMA SetMuxErrorKeeps ==
    ASSUME NEW v, SetMuxError(v)
    PROVE  \A w \in Videos : mux'[w] = "complete" => mux[w] = "complete"
  BY SetMuxKeeps DEF SetMuxError

LEMMA SpawnKeeps ==
    ASSUME TypeInv, NEW v, Spawn(v)
    PROVE  \A j \in JobIds : job'[j].pc = "mark" =>
               job[j].pc = "mark" /\ job'[j].video = job[j].video
  BY TypeParts DEF Spawn, JobTypes

LEMMA ResultStep == TypeInv /\ ResultInv /\ [Next]_vars => ResultInv'
  <1> SUFFICES ASSUME TypeInv, ResultInv, [Next]_vars PROVE ResultInv'
    OBVIOUS
  <1> USE DEF rowVars, recovVars, jobVars, taskVars
  <1>1. CASE UNCHANGED vars
    BY <1>1, ResultKept DEF vars
  <1>2. ASSUME NEW r \in Reqs, NEW v \in Videos, CompleteCheck(r, v) PROVE ResultInv'
    BY <1>2, ResultKept DEF CompleteCheck
  <1>3. ASSUME NEW r \in Reqs, CompleteClaim(r) PROVE ResultInv'
    BY <1>3, ResultKept, SetMuxKeeps DEF CompleteClaim
  <1>4. ASSUME NEW r \in Reqs, CompleteSpawn(r) PROVE ResultInv'
    BY <1>4, ResultKept, SetMuxErrorKeeps, SpawnKeeps DEF CompleteSpawn
  <1>5. ASSUME NEW r \in Reqs, CompleteDropped(r) PROVE ResultInv'
    BY <1>5, ResultKept DEF CompleteDropped
  <1>6. ASSUME NEW j \in JobIds, JobStep(j) PROVE ResultInv'
    <2> USE TypeParts DEF JobTypes, Slot
    <2>1. CASE JobQueue(j) \/ JobStart(j) \/ JobMuxFails(j)
      <3>1. PICK pc \in {"wait", "mux", "fail"} : job' = [job EXCEPT ![j].pc = pc]
        BY <2>1 DEF JobQueue, JobStart, JobMuxFails
      <3>2. UNCHANGED <<result, mux>>
        BY <2>1 DEF JobQueue, JobStart, JobMuxFails
      <3> QED
        BY <3>1, <3>2, ResultKept
    <2>2. CASE JobPublish(j)
      <3>1. job[j].video \in Videos
        BY <2>2 DEF JobPublish, Alive
      <3>2. \A v \in Videos : result'[v] = (v = job[j].video \/ result[v])
        BY <2>2 DEF JobPublish
      <3>3. /\ \A i \in JobIds : job'[i].video = job[i].video
            /\ \A i \in JobIds \ {j} : job'[i] = job[i]
            /\ UNCHANGED mux
        BY <2>2 DEF JobPublish
      <3>4. \A i \in JobIds : job[i].pc = "mark" => job[i].video \in Videos
        BY DEF Alive
      <3> QED
        BY <3>1, <3>2, <3>3, <3>4 DEF ResultInv, CompleteHasResult, Published
    <2>3. CASE JobMark(j)
      <3>1. UNCHANGED result /\ result[job[j].video]
        BY <2>3 DEF JobMark, ResultInv, Published
      <3>2. \A i \in JobIds : job'[i].pc = "mark" =>
               job[i].pc = "mark" /\ job'[i].video = job[i].video
        BY <2>3, EmptySlots DEF JobMark
      <3>3. \A v \in Videos : mux'[v] = "complete" => mux[v] = "complete" \/ v = job[j].video
        BY <2>3 DEF JobMark, SetMux
      <3> QED
        BY <3>1, <3>2, <3>3 DEF ResultInv, CompleteHasResult, Published
    <2>4. CASE JobFail(j)
      <3>1. \A i \in JobIds : job'[i].pc = "mark" =>
               job[i].pc = "mark" /\ job'[i].video = job[i].video
        BY <2>4, EmptySlots DEF JobFail
      <3> QED
        BY <2>4, <3>1, ResultKept, SetMuxErrorKeeps DEF JobFail
    <2> QED
      BY <1>6, <2>1, <2>2, <2>3, <2>4 DEF JobStep
  <1>7. CASE RecoverClaim
    BY <1>7, ResultKept, SetMuxKeeps DEF RecoverClaim
  <1>8. ASSUME NEW v \in Videos, RecoverSpawn(v) PROVE ResultInv'
    BY <1>8, ResultKept, SetMuxErrorKeeps, SpawnKeeps DEF RecoverSpawn
  <1>9. CASE StopSignal \/ StopFlag \/ StopTake \/ StopDeadline \/ Boot
    BY <1>9, ResultKept DEF StopSignal, StopFlag, StopTake, StopDeadline, Boot
  <1>10. ASSUME NEW t \in JobIds \X Videos, StopAbort(t) \/ StopMark(t) PROVE ResultInv'
    <2>1. \A j \in JobIds : job'[j].pc = "mark" =>
               job[j].pc = "mark" /\ job'[j].video = job[j].video
      BY <1>10, EmptySlots, TypeParts DEF StopAbort, StopMark, JobTypes, Slot
    <2>2. \A v \in Videos : mux'[v] = "complete" => mux[v] = "complete"
      BY <1>10, TypeParts DEF StopAbort, StopMark, RowTypes
    <2> QED
      BY <1>10, <2>1, <2>2, ResultKept DEF StopAbort, StopMark
  <1>11. CASE StopExit \/ Crash
    BY <1>11, ResultKept, EmptySlots DEF StopExit, Crash, Down
  <1>12. ASSUME NEW v \in Videos, RetryCreate(v) \/ OwnerEdit(v) PROVE ResultInv'
    BY <1>12, ResultKept DEF RetryCreate, OwnerEdit
  <1>13. CASE Tick
    <2>1. \A j \in JobIds : job'[j].pc = job[j].pc /\ job'[j].video = job[j].video
      BY <1>13, TypeParts DEF Tick, Older, JobTypes, Slot
    <2> QED
      BY <1>13, <2>1, ResultKept DEF Tick, Older
  <1> QED
    BY <1>1, <1>2, <1>3, <1>4, <1>5, <1>6, <1>7, <1>8, <1>9, <1>10, <1>11, <1>12, <1>13
       DEF Next, Handler, Recovery, StopStep

LEMMA ResultAlways == Spec => []ResultInv
  BY ResultInit, ResultStep, TypeAlways, PTL DEF Spec

\* No recording is called complete without its file, not even when two jobs
\* work on it at once or the update after the rename fails.
THEOREM ResultCorrect == Spec => []CompleteHasResult
  <1>1. ResultInv => CompleteHasResult
    BY DEF ResultInv
  <1> QED
    BY <1>1, ResultAlways, PTL
-----------------------------------------------------------------------------
(* Shutdown, and claims that are not lost.                                 *)

\* Once the flag is set no handler is left; every task that is alive after the
\* list was taken is on it, under its recording; a recovery pass that is due
\* has not begun, and a process that is down runs none.
Drained == ShuttingDown => \A r \in Reqs : req[r] = NoReq
Listed ==
    server \in {"waiting", "aborting"} =>
        /\ \A j \in JobIds : Alive(j) => <<j, job[j].video>> \in taken
        /\ \A t \in taken : Alive(t[1]) => job[t[1]].video = t[2]
Rested == due \/ server = "down" => recov = {}

StopInv == Drained /\ Listed /\ Rested

\* A step after which the tasks alive are ones that were alive before.
NoNewTask == \A j \in JobIds : Alive(j)' => Alive(j) /\ job'[j].video = job[j].video

LEMMA StopInit == Init => StopInv
  BY DEF Init, StopInv, Drained, Listed, Rested, ShuttingDown

LEMMA ListedKept ==
    ASSUME TypeInv, Listed, NoNewTask, UNCHANGED <<server, taken>>
    PROVE  Listed'
  BY TypeParts DEF Listed, NoNewTask, StopTypes

\* A job's own step makes no task, and keeps its recording.
LEMMA JobStepTasks ==
    ASSUME TypeInv, NEW j \in JobIds, JobStep(j)
    PROVE  /\ NoNewTask
           /\ \A i \in JobIds \ {j} : job'[i] = job[i]
           /\ UNCHANGED <<server, taken, req, recov, due>>
  <1> USE TypeParts, EmptySlots DEF JobTypes, Slot, NoNewTask, Alive, recovVars
  <1>1. CASE JobQueue(j)
    BY <1>1 DEF JobQueue
  <1>2. CASE JobStart(j)
    BY <1>2 DEF JobStart, Waiting
  <1>3. CASE JobMuxFails(j)
    BY <1>3 DEF JobMuxFails
  <1>4. CASE JobPublish(j)
    BY <1>4 DEF JobPublish
  <1>5. CASE JobMark(j)
    BY <1>5 DEF JobMark
  <1>6. CASE JobFail(j)
    BY <1>6 DEF JobFail
  <1> QED
    BY <1>1, <1>2, <1>3, <1>4, <1>5, <1>6 DEF JobStep

\* An aborted task keeps its slot until shutdown has marked its recording.
LEMMA AbortTasks ==
    ASSUME TypeInv, NEW t \in JobIds \X Videos, StopAbort(t)
    PROVE  /\ NoNewTask
           /\ \A j \in JobIds : Alive(j) => Alive(j)' /\ job'[j].video = job[j].video
  BY TypeParts DEF StopAbort, JobTypes, Slot, NoNewTask, Alive

LEMMA TickTasks ==
    ASSUME TypeInv, Tick
    PROVE  \A j \in JobIds : job'[j].pc = job[j].pc /\ job'[j].video = job[j].video
  BY TypeParts DEF Tick, Older, JobTypes, Slot

LEMMA StopStepInv == TypeInv /\ StopInv /\ [Next]_vars => StopInv'
  <1> SUFFICES ASSUME TypeInv, StopInv, [Next]_vars PROVE StopInv'
    OBVIOUS
  <1> USE DEF rowVars, recovVars, jobVars, taskVars
  <1>1. Drained /\ Listed /\ Rested
    BY DEF StopInv
  <1>2. ASSUME UNCHANGED <<server, taken, recov, due>>, NoNewTask,
               UNCHANGED req \/ ~ShuttingDown
        PROVE  StopInv'
    BY <1>1, <1>2, ListedKept DEF StopInv, Drained, Rested, ShuttingDown
  <1>3. UNCHANGED job => NoNewTask
    BY DEF NoNewTask, Alive
  <1>4. CASE UNCHANGED vars
    BY <1>2, <1>3, <1>4 DEF vars
  <1>5. ASSUME NEW r \in Reqs, NEW v \in Videos, CompleteCheck(r, v) PROVE StopInv'
    BY <1>2, <1>3, <1>5 DEF CompleteCheck, ShuttingDown
  <1>6. ASSUME NEW r \in Reqs, CompleteClaim(r) PROVE StopInv'
    <2>1. ~ShuttingDown
      BY <1>1, <1>6 DEF Drained, CompleteClaim, NoReq
    <2> QED
      BY <1>2, <1>3, <1>6, <2>1 DEF CompleteClaim
  <1>7. ASSUME NEW r \in Reqs, CompleteSpawn(r) PROVE StopInv'
    <2>1. ~ShuttingDown
      BY <1>1, <1>7 DEF Drained, CompleteSpawn, NoReq
    <2> QED
      BY <1>1, <1>7, <2>1 DEF CompleteSpawn, StopInv, Drained, Listed, Rested, ShuttingDown
  <1>8. ASSUME NEW r \in Reqs, CompleteDropped(r) PROVE StopInv'
    <2>1. ~ShuttingDown
      BY <1>1, <1>8 DEF Drained, CompleteDropped
    <2> QED
      BY <1>2, <1>3, <1>8, <2>1 DEF CompleteDropped
  <1>9. ASSUME NEW j \in JobIds, JobStep(j) PROVE StopInv'
    BY <1>2, <1>9, JobStepTasks
  <1>10. CASE RecoverClaim
    BY <1>1, <1>3, <1>10, ListedKept DEF RecoverClaim, StopInv, Drained, Rested, ShuttingDown
  <1>11. ASSUME NEW v \in Videos, RecoverSpawn(v) PROVE StopInv'
    <2>1. Rested' /\ Drained'
      BY <1>1, <1>11 DEF RecoverSpawn, Rested, Drained, ShuttingDown
    <2>2. CASE ShuttingDown
      BY <1>1, <1>3, <1>11, <2>1, <2>2, ListedKept DEF RecoverSpawn, StopInv
    <2>3. CASE ~ShuttingDown
      BY <1>11, <2>1, <2>3 DEF RecoverSpawn, StopInv, Listed, ShuttingDown
    <2> QED
      BY <2>2, <2>3
  <1>12. CASE StopSignal \/ StopFlag
    BY <1>1, <1>12 DEF StopSignal, StopFlag, StopInv, Drained, Listed, Rested, ShuttingDown
  <1>13. CASE StopTake
    <2>1. taken' = {<<j, job[j].video>> : j \in {i \in JobIds : Alive(i)}} /\ UNCHANGED job
      BY <1>13 DEF StopTake
    <2>2. Listed'
      BY <2>1 DEF Listed, Alive
    <2> QED
      BY <1>1, <1>13, <2>2 DEF StopTake, StopInv, Drained, Rested, ShuttingDown
  <1>14. CASE StopDeadline
    <2>1. Listed'
      BY <1>1, <1>14 DEF StopDeadline, Listed, Alive
    <2> QED
      BY <1>1, <1>14, <2>1 DEF StopDeadline, StopInv, Drained, Rested, ShuttingDown
  <1>14a. ASSUME NEW t \in JobIds \X Videos, StopAbort(t) PROVE StopInv'
    BY <1>2, <1>14a, AbortTasks DEF StopAbort
  <1>15. ASSUME NEW t \in JobIds \X Videos, StopMark(t) PROVE StopInv'
    <2>1. /\ \A i \in JobIds \ {t[1]} : job'[i] = job[i]
          /\ ~Alive(t[1])'
      BY <1>15, EmptySlots, TypeParts DEF StopMark, JobTypes, Alive
    <2>2. Listed'
      BY <1>1, <1>15, <2>1, TypeParts DEF StopMark, Leftover, Listed, Alive, StopTypes
    <2> QED
      BY <1>1, <1>15, <2>2 DEF StopMark, StopInv, Drained, Rested, ShuttingDown
  <1>16. CASE StopExit \/ Crash
    BY <1>16 DEF StopExit, Crash, Down, StopInv, Drained, Listed, Rested, ShuttingDown
  <1>17. CASE Boot
    <2>1. recov = {}
      BY <1>1, <1>17 DEF Rested, Boot
    <2> QED
      BY <1>1, <1>17, <2>1 DEF Boot, StopInv, Drained, Listed, Rested, ShuttingDown
  <1>18. ASSUME NEW v \in Videos, RetryCreate(v) \/ OwnerEdit(v) PROVE StopInv'
    BY <1>2, <1>3, <1>18 DEF RetryCreate, OwnerEdit
  <1>19. CASE Tick
    <2>1. NoNewTask
      BY <1>19, TickTasks DEF NoNewTask, Alive
    <2> QED
      BY <1>1, <1>19, <2>1, ListedKept
         DEF Tick, Settled, Older, StopInv, Drained, Rested, ShuttingDown
  <1> QED
    BY <1>4, <1>5, <1>6, <1>7, <1>8, <1>9, <1>10, <1>11, <1>12, <1>13, <1>14, <1>14a, <1>15,
       <1>16, <1>17, <1>18, <1>19 DEF Next, Handler, Recovery, StopStep

LEMMA StopAlways == Spec => []StopInv
  BY StopInit, StopStepInv, TypeAlways, PTL DEF Spec

\* Who works on a recording, without the bookkeeping of Workers.
LEMMA WorkedDef ==
    ASSUME NEW v \in Videos
    PROVE  Worked(v) <=> \/ \E r \in Reqs : req[r].pc = "spawn" /\ req[r].video = v
                         \/ \E j \in JobIds : Alive(j) /\ job[j].video = v
                         \/ v \in recov
  BY DEF Worked, Workers

LEMMA WorkedDefNext ==
    ASSUME NEW v \in Videos
    PROVE  Worked(v)' <=> \/ \E r \in Reqs : req'[r].pc = "spawn" /\ req'[r].video = v
                          \/ \E j \in JobIds : Alive(j)' /\ job'[j].video = v
                          \/ v \in recov'
  BY DEF Worked, Workers, Alive

\* When main returns, no task is left, and no handler.
LEMMA ExitSettled ==
    ASSUME TypeInv, StopInv, StopExit, NEW v \in Videos, Worked(v)
    PROVE  v \in recov
  <1>1. \A r \in Reqs : req[r].pc # "spawn"
    BY DEF StopInv, Drained, ShuttingDown, StopExit, NoReq
  <1>2. \A j \in JobIds : ~Alive(j)
    BY DEF StopInv, Listed, StopExit
  <1> QED
    BY <1>1, <1>2, WorkedDef

\* main returns only when nothing works on a recording, except a recovery pass
\* between its claim and its spawn: shutdown misses no task.
THEOREM ExitCorrect == Spec => SettledAtExit
  <1> DEFINE A == StopExit => \A v \in Videos : Worked(v) => v \in recov
  <1>1. TypeInv /\ StopInv => [A]_vars
    BY ExitSettled
  <1> QED
    BY <1>1, TypeAlways, StopAlways, PTL DEF SettledAtExit

\* What a step may do to a recording somebody works on.
Accounted(v) ==
    \/ mux'[v] # "processing"
    \/ spent'["crash"] < spent["crash"]
    \/ spent'["db"] < spent["db"]
    \/ StopExit /\ v \in recov

LEMMA ClaimStep ==
    ASSUME TypeInv, StopInv, [Next]_vars, NEW v \in Videos, Worked(v), ~Worked(v)'
    PROVE  Accounted(v)
  <1> USE DEF rowVars, recovVars, jobVars, taskVars
  <1>1. ASSUME UNCHANGED recov,
               \A r \in Reqs : req[r].pc = "spawn" => req'[r] = req[r],
               \A j \in JobIds : Alive(j) => Alive(j)' /\ job'[j].video = job[j].video
        PROVE  FALSE
    BY <1>1, WorkedDef, WorkedDefNext
  <1>2. UNCHANGED job => \A j \in JobIds : Alive(j) => Alive(j)' /\ job'[j].video = job[j].video
    BY DEF Alive
  <1>3. CASE UNCHANGED vars
    BY <1>1, <1>2, <1>3 DEF vars
  <1>4. ASSUME NEW r \in Reqs, NEW w \in Videos, CompleteCheck(r, w) PROVE FALSE
    BY <1>1, <1>2, <1>4, TypeParts DEF CompleteCheck, ReqTypes, NoReq
  <1>5. ASSUME NEW r \in Reqs, CompleteClaim(r) PROVE FALSE
    BY <1>1, <1>2, <1>5, TypeParts DEF CompleteClaim, ReqTypes
  <1>6. ASSUME NEW w \in Videos, Spawn(w)
        PROVE  /\ \A j \in JobIds : Alive(j) => Alive(j)' /\ job'[j].video = job[j].video
               /\ \E j \in JobIds : Alive(j)' /\ job'[j].video = w
    <2>1. PICK j \in JobIds : /\ ~Alive(j)
                              /\ job' = [job EXCEPT ![j] = [pc |-> "new", video |-> w, ran |-> 0]]
      BY <1>6 DEF Spawn
    <2> QED
      BY <2>1, TypeParts DEF JobTypes, Alive
  <1>7. ASSUME NEW r \in Reqs, CompleteSpawn(r) PROVE Accounted(v)
    <2>1. req[r].video \in Videos /\ UNCHANGED recov
      BY <1>7, TypeParts DEF CompleteSpawn, ReqTypes
    <2>2. \A x \in Reqs \ {r} : req'[x] = req[x]
      BY <1>7, TypeParts DEF CompleteSpawn, ReqTypes
    <2>3. CASE ShuttingDown
      BY <1>7, <2>3 DEF CompleteSpawn, StopInv, Drained, NoReq
    <2>4. CASE ~ShuttingDown
      <3>1. Spawn(req[r].video)
        BY <1>7, <2>4 DEF CompleteSpawn
      <3> QED
        BY <1>6, <2>1, <2>2, <3>1, WorkedDef, WorkedDefNext
    <2> QED
      BY <2>3, <2>4
  <1>8. ASSUME NEW r \in Reqs, CompleteDropped(r) PROVE Accounted(v)
    BY <1>8, SpendType DEF CompleteDropped, Accounted
  <1>9. ASSUME NEW j \in JobIds, JobStep(j) PROVE Accounted(v)
    <2>1. /\ \A i \in JobIds \ {j} : job'[i] = job[i]
          /\ UNCHANGED <<req, recov>>
      BY <1>9, JobStepTasks
    <2>2. ASSUME Alive(j)' , job'[j].video = job[j].video PROVE FALSE
      BY <1>1, <2>1, <2>2 DEF Alive
    <2>3. ASSUME ~Alive(j)' PROVE Alive(j) /\ job[j].video = v
      BY <2>1, <2>3, WorkedDef, WorkedDefNext DEF Alive
    <2> USE TypeParts, EmptySlots DEF JobTypes, Slot, Alive
    <2>4. CASE JobQueue(j)
      BY <2>2, <2>4 DEF JobQueue
    <2>5. CASE JobStart(j)
      BY <2>2, <2>5 DEF JobStart
    <2>6. CASE JobMuxFails(j)
      BY <2>2, <2>6 DEF JobMuxFails
    <2>7. CASE JobPublish(j)
      BY <2>2, <2>7 DEF JobPublish
    <2>8. CASE JobMark(j)
      <3>1. CASE SetMux({job[j].video}, "complete") /\ job' = [job EXCEPT ![j] = NoJob]
        BY <2>3, <3>1 DEF SetMux, Accounted
      <3>2. CASE Spend("db")
        BY <3>2, SpendType DEF Accounted
      <3> QED
        BY <2>8, <3>1, <3>2 DEF JobMark
    <2>9. CASE JobFail(j)
      <3>1. job' = [job EXCEPT ![j] = NoJob]
        BY <2>9 DEF JobFail
      <3>2. CASE SetMux({job[j].video}, "error")
        BY <2>3, <3>1, <3>2 DEF SetMux, Accounted
      <3>3. CASE Spend("db")
        BY <3>3, SpendType DEF Accounted
      <3> QED
        BY <2>9, <3>2, <3>3 DEF JobFail, SetMuxError
    <2> QED
      BY <1>9, <2>4, <2>5, <2>6, <2>7, <2>8, <2>9 DEF JobStep
  <1>10. CASE RecoverClaim
    <2>1. recov = {}
      BY <1>10 DEF RecoverClaim, StopInv, Rested
    <2> QED
      BY <1>2, <1>10, <2>1, WorkedDef, WorkedDefNext DEF RecoverClaim
  <1>11. ASSUME NEW w \in Videos, RecoverSpawn(w) PROVE Accounted(v)
    <2>1. /\ recov' = recov \ {w}
          /\ UNCHANGED req
      BY <1>11 DEF RecoverSpawn
    <2>2. CASE ShuttingDown
      <3>1. SetMuxError(w) /\ UNCHANGED job
        BY <1>11, <2>2 DEF RecoverSpawn
      <3>2. v = w
        BY <1>2, <2>1, <3>1, WorkedDef, WorkedDefNext
      <3>3. CASE SetMux({w}, "error")
        BY <3>2, <3>3 DEF SetMux, Accounted
      <3>4. CASE Spend("db")
        BY <3>4, SpendType DEF Accounted
      <3> QED
        BY <3>1, <3>3, <3>4 DEF SetMuxError
    <2>3. CASE ~ShuttingDown
      <3>1. Spawn(w)
        BY <1>11, <2>3 DEF RecoverSpawn
      <3> QED
        BY <1>6, <2>1, <3>1, WorkedDef, WorkedDefNext
    <2> QED
      BY <2>2, <2>3
  <1>12. CASE StopSignal \/ StopFlag \/ StopTake \/ StopDeadline \/ Boot
    BY <1>1, <1>2, <1>12 DEF StopSignal, StopFlag, StopTake, StopDeadline, Boot
  <1>12a. ASSUME NEW t \in JobIds \X Videos, StopAbort(t) PROVE FALSE
    BY <1>1, <1>12a, AbortTasks DEF StopAbort
  <1>13. ASSUME NEW t \in JobIds \X Videos, StopMark(t) PROVE Accounted(v)
    <2>1. /\ t[1] \in JobIds /\ t[2] \in Videos
          /\ \A i \in JobIds \ {t[1]} : job'[i] = job[i]
          /\ UNCHANGED <<req, recov>>
      BY <1>13, TypeParts DEF StopMark, JobTypes
    <2>2. Alive(t[1]) /\ job[t[1]].video = v
      BY <2>1, WorkedDef, WorkedDefNext DEF Alive
    <2>3. t[2] = v
      BY <1>13, <2>2 DEF StopMark, Leftover, StopInv, Listed
    <2>4. CASE mux' = [mux EXCEPT ![t[2]] = IF @ = "processing" THEN "error" ELSE @]
      BY <2>3, <2>4, TypeParts DEF RowTypes, Accounted
    <2>5. CASE Spend("db")
      BY <2>5, SpendType DEF Accounted
    <2> QED
      BY <1>13, <2>4, <2>5 DEF StopMark
  <1>14. CASE StopExit
    BY <1>14, ExitSettled DEF Accounted
  <1>15. CASE Crash
    BY <1>15, SpendType DEF Crash, Accounted
  <1>16. ASSUME NEW w \in Videos, RetryCreate(w) \/ OwnerEdit(w) PROVE FALSE
    BY <1>1, <1>2, <1>16 DEF RetryCreate, OwnerEdit
  <1>17. CASE Tick
    BY <1>1, <1>17, TickTasks DEF Tick, Older, Alive
  <1> QED
    BY <1>3, <1>4, <1>5, <1>7, <1>8, <1>9, <1>10, <1>11, <1>12, <1>12a, <1>13, <1>14, <1>15,
       <1>16, <1>17 DEF Next, Handler, Recovery, StopStep

\* Nobody stops working on a recording in 'processing' without saying how it
\* ended, unless it was cut off, or the status update failed.
THEOREM ClaimsAccounted == Spec => NoClaimLost
  <1> DEFINE A == \A v \in Videos : mux[v] = "processing" /\ Worked(v) /\ ~Worked(v)' =>
                      \/ mux'[v] # "processing"
                      \/ spent'["crash"] < spent["crash"]
                      \/ spent'["db"] < spent["db"]
                      \/ StopExit /\ v \in recov
  <1>1. TypeInv /\ StopInv /\ [Next]_vars => [A]_vars
    BY ClaimStep DEF Accounted
  <1> QED
    BY <1>1, TypeAlways, StopAlways, PTL DEF NoClaimLost, Spec
-----------------------------------------------------------------------------
(* One worker per recording: what "six hours keeps this process's queued   *)
(* and running jobs outside recovery" takes to be true.  The proof accounts *)
(* for the age of each claim by the claim's place in the semaphore's line. *)

\* The time that jobs for n recordings, one after the other, may take.
Cost(n) == n * JobTimeout
Limit(d) == Cost(d)

\* The assumption behind the six hours, for a queue of d recordings.
QueueFits(d) == Limit(d) <= StaleAge

\* Tasks for at most d recordings are queued or running.
Queued == {v \in Videos : \E j \in JobIds : Alive(j) /\ job[j].video = v}
QueueShort(d) == Cardinality(Queued) <= d

LEMMA CostNext ==
    ASSUME NEW n \in Nat
    PROVE  Cost(n) \in Nat /\ Cost(n + 1) \in Nat /\ Cost(n + 1) = Cost(n) + JobTimeout
  BY ConstantsAssumption DEF Cost

LEMMA CostMonotone ==
    ASSUME NEW m \in Nat, NEW n \in Nat, m <= n
    PROVE  Cost(m) <= Cost(n)
  BY ConstantsAssumption DEF Cost

LEMMA LimitType ==
    ASSUME NEW d \in Nat
    PROVE  Limit(d) \in Nat
  BY CostNext DEF Limit

\* A set of recordings without one of them.
LEMMA SetWithout ==
    ASSUME NEW S \in SUBSET Videos, NEW v \in S
    PROVE  /\ Cardinality(S) \in Nat /\ Cardinality(S \ {v}) \in Nat
           /\ Cardinality(S) = Cardinality(S \ {v}) + 1
  <1>1. IsFiniteSet(S)
    BY ConstantsAssumption, FS_Subset
  <1>2. IsFiniteSet(S \ {v}) /\ Cardinality(S \ {v}) = Cardinality(S) - 1
    BY <1>1, FS_RemoveElement
  <1>3. Cardinality(S) \in Nat /\ Cardinality(S \ {v}) \in Nat
    BY <1>1, <1>2, FS_CardinalityType
  <1> QED
    BY <1>2, <1>3

LEMMA SubsetSmaller ==
    ASSUME NEW S \in SUBSET Videos, NEW T \in SUBSET S
    PROVE  /\ Cardinality(S) \in Nat /\ Cardinality(T) \in Nat
           /\ Cardinality(T) <= Cardinality(S)
  <1>1. IsFiniteSet(S)
    BY ConstantsAssumption, FS_Subset
  <1>2. IsFiniteSet(T) /\ Cardinality(T) <= Cardinality(S)
    BY <1>1, FS_Subset
  <1> QED
    BY <1>1, <1>2, FS_CardinalityType
-----------------------------------------------------------------------------
(* The inductive invariant.                                                *)

Spawning(r) == req[r].pc = "spawn"

\* No two workers on one recording.
Unique ==
    /\ \A i, j \in JobIds : Alive(i) /\ Alive(j) /\ job[i].video = job[j].video => i = j
    /\ \A r, s \in Reqs : Spawning(r) /\ Spawning(s) /\ req[r].video = req[s].video => r = s
    /\ \A j \in JobIds, r \in Reqs : Alive(j) /\ Spawning(r) => job[j].video # req[r].video
    /\ \A j \in JobIds : Alive(j) => job[j].video \notin recov
    /\ \A r \in Reqs : Spawning(r) => req[r].video \notin recov

\* A recording somebody works on is claimed; a shutdown may have failed it.
Claimed ==
    \A v \in Videos : Worked(v) => /\ mux[v] # "complete"
                                   /\ ~ShuttingDown => mux[v] = "processing"

\* One task runs; the waiting ones form a line.
Line ==
    /\ \A i, j \in JobIds : Running(i) /\ Running(j) => i = j
    /\ \A j \in JobIds : Waiting(j) => \A i \in ahead[j] : Waiting(i)
    /\ \A i, j \in JobIds : Waiting(i) /\ Waiting(j) /\ i # j => i \in ahead[j] \/ j \in ahead[i]
    /\ \A j \in JobIds : job[j].pc \in {"new", "wait"} => job[j].ran = 0

\* A claim is handed to the semaphore's line in the instant it is made.
Fresh ==
    /\ \A r \in Reqs : Spawning(r) => age[req[r].video] = 0
    /\ \A v \in recov : age[v] = 0
    /\ \A j \in JobIds : job[j].pc = "new" => age[job[j].video] = 0

\* The recordings before j in line.
Before(j) == {job[i].video : i \in ahead[j]}
TimeLeft(j) == Cost(Cardinality(Before(j)) + 1)

\* What is left to wait and to run still fits into the limit.
Timely(d) ==
    /\ \A j \in JobIds : job[j].pc = "mux" => age[job[j].video] + JobTimeout <= Limit(d) + job[j].ran
    /\ \A j \in JobIds : job[j].pc \in {"mark", "fail", "aborted"} => age[job[j].video] <= Limit(d)
    /\ \A j \in JobIds : Waiting(j) => age[job[j].video] + TimeLeft(j) <= Limit(d)
    /\ \A i, j \in JobIds : Waiting(j) /\ job[i].pc = "mux" =>
          age[job[j].video] + TimeLeft(j) + JobTimeout <= Limit(d) + job[i].ran

QueueInv(d) == Unique /\ Claimed /\ Line /\ Fresh /\ Timely(d)

\* The recordings in line are recordings, and what is left is a number.
LEMMA BeforeType ==
    ASSUME TypeInv, Line, NEW j \in JobIds, Waiting(j)
    PROVE  Before(j) \subseteq Videos /\ Cardinality(Before(j)) \in Nat /\ TimeLeft(j) \in Nat
  <1>1. \A i \in ahead[j] : i \in JobIds /\ Alive(i)
    BY TypeParts DEF LineTypes, Line, Waiting, Alive
  <1>2. Before(j) \subseteq Videos
    BY <1>1, TypeParts DEF Before, JobTypes
  <1>3. Cardinality(Before(j)) \in Nat
    BY <1>2, SubsetSmaller
  <1> QED
    BY <1>2, <1>3, CostNext DEF TimeLeft

LEMMA JobParts ==
    ASSUME TypeInv, NEW j \in JobIds
    PROVE  job[j].ran \in 0..JobTimeout /\ job[j].ran \in Nat
  BY ConstantsAssumption, TypeParts DEF JobTypes, Slot

LEMMA AgeType ==
    ASSUME TypeInv, NEW v \in Videos
    PROVE  age[v] \in Nat
  BY ConstantsAssumption, TypeParts DEF RowTypes

\* No task holds a claim that is older than the limit.
LEMMA TaskIsYoung ==
    ASSUME NEW d \in Nat, TypeInv, QueueInv(d), NEW j \in JobIds, Alive(j)
    PROVE  age[job[j].video] <= Limit(d)
  <1> DEFINE v == job[j].video
  <1>0. v \in Videos
    BY TypeParts DEF JobTypes
  <1>1. CASE job[j].pc = "new"
    BY <1>1, LimitType DEF QueueInv, Fresh
  <1>2. CASE Waiting(j)
    <2>1. age[v] + TimeLeft(j) <= Limit(d)
      BY <1>2 DEF QueueInv, Timely
    <2> QED
      BY <1>0, <1>2, <2>1, BeforeType, AgeType, LimitType DEF QueueInv
  <1>3. CASE job[j].pc = "mux"
    <2>1. age[v] + JobTimeout <= Limit(d) + job[j].ran
      BY <1>3 DEF QueueInv, Timely
    <2>2. age[v] \in Nat /\ job[j].ran \in Nat /\ job[j].ran <= JobTimeout
      BY <1>0, AgeType, JobParts
    <2> QED
      BY <2>1, <2>2, LimitType, ConstantsAssumption
  <1>4. CASE job[j].pc \in {"mark", "fail", "aborted"}
    BY <1>4 DEF QueueInv, Timely
  <1> QED
    BY <1>1, <1>2, <1>3, <1>4, TypeParts DEF JobTypes, Slot, Alive, Waiting, RunningPCs

\* Nobody works on a recording whose claim is older than the limit, once the
\* recovery pass before this one has ended.
LEMMA WorkedIsYoung ==
    ASSUME NEW d \in Nat, TypeInv, QueueInv(d), recov = {}, NEW v \in Videos, Worked(v)
    PROVE  age[v] <= Limit(d)
  <1>1. CASE \E r \in Reqs : Spawning(r) /\ req[r].video = v
    BY <1>1, LimitType DEF QueueInv, Fresh
  <1>2. CASE \E j \in JobIds : Alive(j) /\ job[j].video = v
    BY <1>2, TaskIsYoung
  <1> QED
    BY <1>1, <1>2, WorkedDef DEF Spawning

LEMMA QueueInit ==
    ASSUME NEW d \in Nat
    PROVE  Init => QueueInv(d)
  <1> SUFFICES ASSUME Init PROVE QueueInv(d)
    OBVIOUS
  <1>1. /\ \A j \in JobIds : job[j] = NoJob /\ job[j].pc = "none" /\ job[j].video = NoVideo
        /\ \A r \in Reqs : req[r].pc = "idle"
        /\ recov = {}
    BY DEF Init, NoJob, NoReq
  <1>2. \A v \in Videos : ~Worked(v)
    BY <1>1, WorkedDef DEF Alive
  <1> QED
    BY <1>1, <1>2 DEF QueueInv, Unique, Claimed, Line, Fresh, Timely, Spawning, Alive, Waiting,
                      Running, RunningPCs
-----------------------------------------------------------------------------
(* The shapes that steps have for this invariant.                          *)

\* No one starts to work on a recording.
Calm ==
    /\ \A r \in Reqs : Spawning(r)' => Spawning(r) /\ req'[r] = req[r]
    /\ \A j \in JobIds : Alive(j)' => Alive(j) /\ job'[j].video = job[j].video
    /\ \A j \in JobIds : job'[j].pc = "new" => job[j].pc = "new" /\ job'[j] = job[j]
    /\ recov' \subseteq recov

\* Statuses of recordings in work stay, but for shutdown.
MuxKept ==
    /\ ShuttingDown /\ ~ShuttingDown' => \A v \in Videos : ~Worked(v)'
    /\ \A v \in Videos : Worked(v)' =>
           mux'[v] = mux[v] \/ (ShuttingDown' /\ mux'[v] = "error")

\* Claims are only renewed.
Young == \A v \in Videos : age'[v] <= age[v]

\* The line moves up or stays; who runs goes on.
Thins ==
    /\ \A j \in JobIds : Waiting(j)' =>
           /\ job'[j] = job[j]
           /\ ahead'[j] \subseteq ahead[j]
           /\ \A i \in ahead'[j] : Waiting(i)'
    /\ \A i, j \in JobIds : Waiting(i)' /\ Waiting(j)' /\ i \in ahead[j] => i \in ahead'[j]
    /\ \A j \in JobIds : Running(j)' =>
           /\ Running(j)
           /\ job'[j].video = job[j].video /\ job'[j].ran = job[j].ran
           /\ job'[j].pc = "mux" => job[j].pc = "mux"
    /\ \A j \in JobIds : job'[j].pc = "new" => job'[j].ran = 0
    /\ \A j \in JobIds : job'[j].pc = "aborted" => Alive(j) /\ job'[j].video = job[j].video

Passes == Calm /\ MuxKept /\ Young /\ Thins

LEMMA SetMuxYoung ==
    ASSUME TypeInv, NEW V, NEW s, SetMux(V, s)
    PROVE  /\ Young
           /\ \A v \in Videos : /\ v \in V => mux'[v] = s /\ age'[v] = 0
                                /\ v \notin V => mux'[v] = mux[v] /\ age'[v] = age[v]
  BY AgeType DEF SetMux, Young

LEMMA SameAgeYoung ==
    ASSUME TypeInv, UNCHANGED age
    PROVE  Young
  BY AgeType DEF Young

LEMMA LineKeptThins ==
    ASSUME TypeInv, Line, UNCHANGED jobVars
    PROVE  Thins
  BY DEF Thins, Line, jobVars, Waiting, Running, Alive

LEMMA CalmWorked ==
    ASSUME Calm, NEW v \in Videos, Worked(v)'
    PROVE  Worked(v)
  BY WorkedDef, WorkedDefNext DEF Calm, Spawning

\* A step that changes no task, handler or pass about to spawn, and no status.
LEMMA IdlePasses ==
    ASSUME NEW d \in Nat, TypeInv, QueueInv(d), UNCHANGED <<job, ahead, mux, recov>>, Young,
           \A r \in Reqs : Spawning(r)' => Spawning(r) /\ req'[r] = req[r],
           ShuttingDown => ShuttingDown'
    PROVE  Passes
  <1>1. Calm
    BY DEF Calm, Alive
  <1>2. MuxKept
    BY DEF MuxKept
  <1>3. Thins
    BY LineKeptThins DEF QueueInv, jobVars
  <1> QED
    BY <1>1, <1>2, <1>3 DEF Passes

\* A running job that goes on, or ends and says so.
LEMMA RunnerPasses ==
    ASSUME NEW d \in Nat, TypeInv, QueueInv(d), NEW j \in JobIds, Running(j), Young,
           UNCHANGED <<ahead, req, recov, server>>,
           job'[j].pc = "none" \/
               ( /\ job'[j].pc \in {"mark", "fail"}
                 /\ job'[j].video = job[j].video /\ job'[j].ran = job[j].ran ),
           \A i \in JobIds \ {j} : job'[i] = job[i],
           \A v \in Videos : mux'[v] = mux[v] \/ (v = job[j].video /\ job'[j].pc = "none")
    PROVE  Passes
  <1>1. Calm
    BY DEF Calm, Spawning, Running, RunningPCs, Alive
  <1>2. ASSUME NEW v \in Videos, Worked(v)', job'[j].pc = "none", v = job[j].video PROVE FALSE
    <2>1. Alive(j) /\ ~Alive(j)'
      BY <1>2 DEF Running, RunningPCs, Alive
    <2>2. \/ \E r \in Reqs : Spawning(r) /\ req[r].video = v
          \/ \E i \in JobIds \ {j} : Alive(i) /\ job[i].video = v
          \/ v \in recov
      BY <1>2, <2>1, WorkedDefNext DEF Spawning, Alive
    <2> QED
      BY <1>2, <2>1, <2>2 DEF QueueInv, Unique
  <1>3. MuxKept
    BY <1>2 DEF MuxKept, ShuttingDown
  <1>4. ASSUME NEW i \in JobIds PROVE Waiting(i)' <=> Waiting(i) /\ job'[i] = job[i]
    BY DEF Waiting, Running, RunningPCs
  <1>5. Thins
    <2>1. \A i \in JobIds : job'[i].pc = "new" => job'[i].ran = 0
      BY DEF QueueInv, Line
    <2>2. \A i \in JobIds : Running(i)' =>
              /\ Running(i)
              /\ job'[i].video = job[i].video /\ job'[i].ran = job[i].ran
              /\ job'[i].pc = "mux" => job[i].pc = "mux"
      BY DEF Running, RunningPCs
    <2>3. \A i \in JobIds : Waiting(i) => \A k \in ahead[i] : k \in JobIds /\ Waiting(k)
      BY TypeParts DEF QueueInv, Line, LineTypes
    <2>4. \A i \in JobIds : Waiting(i)  => Waiting(i)'
      BY DEF Waiting, Running, RunningPCs
    <2>5. \A i \in JobIds : job'[i].pc = "aborted" => Alive(i) /\ job'[i].video = job[i].video
      BY DEF Alive
    <2> QED
      BY <1>4, <2>1, <2>2, <2>3, <2>4, <2>5 DEF Thins
  <1> QED
    BY <1>1, <1>3, <1>5 DEF Passes

LEMMA JobPasses ==
    ASSUME NEW d \in Nat, TypeInv, QueueInv(d), NEW j \in JobIds,
           JobMuxFails(j) \/ JobPublish(j) \/ JobMark(j) \/ JobFail(j)
    PROVE  Passes
  <1> USE DEF rowVars, recovVars
  <1>1. Running(j) /\ UNCHANGED <<ahead, req, recov, server>>
    BY DEF JobMuxFails, JobPublish, JobMark, JobFail, Running, RunningPCs
  <1>2. job \in [JobIds -> Slot] /\ job[j] \in Slot
    BY TypeParts DEF JobTypes
  <1>3. ASSUME NEW pc \in {"mark", "fail"}, job' = [job EXCEPT ![j].pc = pc], UNCHANGED <<mux, age>>
        PROVE  Passes
    <2>1. /\ job'[j].pc = pc /\ job'[j].video = job[j].video /\ job'[j].ran = job[j].ran
          /\ \A i \in JobIds \ {j} : job'[i] = job[i]
      BY <1>2, <1>3 DEF Slot
    <2> QED
      BY <1>1, <1>3, <2>1, RunnerPasses, SameAgeYoung
  <1>4. ASSUME job' = [job EXCEPT ![j] = NoJob], Young,
               \A v \in Videos : mux'[v] = mux[v] \/ v = job[j].video
        PROVE  Passes
    <2>1. /\ job'[j].pc = "none"
          /\ \A i \in JobIds \ {j} : job'[i] = job[i]
      BY <1>2, <1>4, EmptySlots
    <2> QED
      BY <1>1, <1>4, <2>1, RunnerPasses
  <1>5. CASE JobMuxFails(j) \/ JobPublish(j)
    BY <1>3, <1>5 DEF JobMuxFails, JobPublish
  <1>6. CASE JobMark(j)
    BY <1>3, <1>4, <1>6, SetMuxYoung DEF JobMark
  <1>7. CASE JobFail(j)
    BY <1>4, <1>7, SetMuxYoung, SameAgeYoung DEF JobFail, SetMuxError
  <1> QED
    BY <1>5, <1>6, <1>7

\* The process stops: nobody works on anything.
LEMMA DownPasses ==
    ASSUME TypeInv, Down, UNCHANGED rowVars
    PROVE  Passes
  <1>1. /\ \A j \in JobIds : job'[j].pc = "none"
        /\ \A r \in Reqs : req'[r].pc = "idle"
        /\ recov' = {}
    BY EmptySlots DEF Down
  <1>2. \A v \in Videos : ~Worked(v)'
    BY <1>1, WorkedDefNext DEF Alive
  <1>3. Young
    BY SameAgeYoung DEF rowVars
  <1> QED
    BY <1>1, <1>2, <1>3
       DEF Passes, Calm, MuxKept, Thins, Spawning, Alive, Waiting, Running, RunningPCs

\* A task is stopped: the line closes up behind it.
LEMMA AbortPasses ==
    ASSUME NEW d \in Nat, TypeInv, QueueInv(d), NEW t \in JobIds \X Videos, StopAbort(t)
    PROVE  Passes
  <1> DEFINE j == t[1]
  <1>1. /\ j \in JobIds
        /\ Alive(j) /\ job'[j].pc = "aborted" /\ job'[j].video = job[j].video
        /\ \A i \in JobIds \ {j} : job'[i] = job[i]
        /\ \A i \in JobIds \ {j} : ahead'[i] = ahead[i] \ {j}
        /\ UNCHANGED <<mux, age, req, recov, server>>
    BY TypeParts DEF StopAbort, JobTypes, Slot, LeaveLine, rowVars, recovVars
  <1>2. Calm
    BY <1>1 DEF Calm, Spawning, Alive
  <1>3. MuxKept
    BY <1>1 DEF MuxKept, ShuttingDown
  <1>4. Thins
    <2>1. \A i \in JobIds : Waiting(i)' => i # j /\ Waiting(i) /\ job'[i] = job[i]
      BY <1>1 DEF Waiting
    <2>2. \A i \in JobIds : Waiting(i) => \A k \in ahead[i] : k \in JobIds /\ Waiting(k)
      BY TypeParts DEF QueueInv, Line, LineTypes
    <2>3. \A i \in JobIds \ {j} : Waiting(i) => Waiting(i)'
      BY <1>1 DEF Waiting
    <2>4. \A i \in JobIds : Running(i)' => i # j /\ Running(i) /\ job'[i] = job[i]
      BY <1>1 DEF Running, RunningPCs
    <2>5. \A i \in JobIds : job'[i].pc = "new" => job'[i].ran = 0
      BY <1>1 DEF QueueInv, Line
    <2>6. \A i \in JobIds : job'[i].pc = "aborted" => Alive(i) /\ job'[i].video = job[i].video
      BY <1>1 DEF Alive
    <2> QED
      BY <1>1, <2>1, <2>2, <2>3, <2>4, <2>5, <2>6 DEF Thins
  <1> QED
    BY <1>1, <1>2, <1>3, <1>4, SameAgeYoung DEF Passes

\* Its recording is marked failed: it was in no line any more.
LEMMA MarkPasses ==
    ASSUME NEW d \in Nat, TypeInv, QueueInv(d), NEW t \in JobIds \X Videos, StopMark(t)
    PROVE  Passes
  <1> DEFINE j == t[1]
  <1>1. /\ j \in JobIds
        /\ job'[j].pc = "none" /\ job[j].pc \in {"none", "aborted"}
        /\ \A i \in JobIds \ {j} : job'[i] = job[i]
        /\ UNCHANGED <<ahead, req, recov, server, age>>
        /\ ShuttingDown /\ ShuttingDown'
    BY EmptySlots, TypeParts
       DEF StopMark, Leftover, JobTypes, Alive, ShuttingDown, recovVars
  <1>2. Calm
    BY <1>1 DEF Calm, Spawning, Alive
  <1>3. MuxKept
    BY <1>1, TypeParts DEF StopMark, MuxKept, RowTypes
  <1>4. Thins
    <2>1. \A i \in JobIds : Waiting(i)' <=> Waiting(i) /\ job'[i] = job[i]
      BY <1>1 DEF Waiting
    <2>2. \A i \in JobIds : Waiting(i) => Waiting(i)'
      BY <1>1 DEF Waiting
    <2>3. \A i \in JobIds : Waiting(i) => \A k \in ahead[i] : k \in JobIds /\ Waiting(k)
      BY TypeParts DEF QueueInv, Line, LineTypes
    <2>4. \A i \in JobIds : Running(i)' => Running(i) /\ job'[i] = job[i]
      BY <1>1 DEF Running, RunningPCs
    <2>5. \A i \in JobIds : job'[i].pc = "new" => job'[i].ran = 0
      BY <1>1 DEF QueueInv, Line
    <2>6. \A i \in JobIds : job'[i].pc = "aborted" => Alive(i) /\ job'[i].video = job[i].video
      BY <1>1 DEF Alive
    <2> QED
      BY <1>1, <2>1, <2>2, <2>3, <2>4, <2>5, <2>6 DEF Thins
  <1> QED
    BY <1>1, <1>2, <1>3, <1>4, SameAgeYoung DEF Passes

\* What is not such a step.
Engages ==
    \/ \E r \in Reqs : CompleteClaim(r) /\ Claimable(req[r].video)
    \/ \E r \in Reqs : CompleteSpawn(r) /\ ~ShuttingDown
    \/ RecoverClaim
    \/ \E v \in Videos : RecoverSpawn(v) /\ ~ShuttingDown

LEMMA Shapes ==
    ASSUME NEW d \in Nat, TypeInv, StopInv, QueueInv(d), [Next]_vars
    PROVE  Passes \/ Engages \/ Tick \/ \E j \in JobIds : JobQueue(j) \/ JobStart(j)
  <1> USE DEF rowVars, recovVars, jobVars, taskVars
  <1>0. UNCHANGED age => Young
    BY SameAgeYoung
  <1>1. CASE UNCHANGED vars
    BY <1>0, <1>1, IdlePasses DEF vars, Spawning, ShuttingDown
  <1>2. ASSUME NEW r \in Reqs, NEW v \in Videos, CompleteCheck(r, v) PROVE Passes
    <2>1. \A s \in Reqs : Spawning(s)' => Spawning(s) /\ req'[s] = req[s]
      BY <1>2, TypeParts DEF CompleteCheck, ReqTypes, Spawning
    <2> QED
      BY <1>0, <1>2, <2>1, IdlePasses DEF CompleteCheck, ShuttingDown
  <1>3. ASSUME NEW r \in Reqs, CompleteClaim(r), ~Claimable(req[r].video) PROVE Passes
    <2>1. \A s \in Reqs : Spawning(s)' => Spawning(s) /\ req'[s] = req[s]
      BY <1>3, EmptySlots, TypeParts DEF CompleteClaim, ReqTypes, Spawning
    <2> QED
      BY <1>0, <1>3, <2>1, IdlePasses DEF CompleteClaim, ShuttingDown
  <1>4. ASSUME NEW r \in Reqs, CompleteSpawn(r), ShuttingDown PROVE FALSE
    BY <1>4 DEF CompleteSpawn, StopInv, Drained, NoReq
  <1>5. ASSUME NEW r \in Reqs, CompleteDropped(r) PROVE Passes
    <2>1. \A s \in Reqs : Spawning(s)' => Spawning(s) /\ req'[s] = req[s]
      BY <1>5, EmptySlots, TypeParts DEF CompleteDropped, ReqTypes, Spawning
    <2> QED
      BY <1>0, <1>5, <2>1, IdlePasses DEF CompleteDropped, ShuttingDown
  <1>6. ASSUME NEW v \in Videos, RecoverSpawn(v), ShuttingDown PROVE Passes
    <2>1. /\ recov' = recov \ {v} /\ UNCHANGED <<job, ahead, req, server>>
          /\ SetMux({v}, "error") \/ UNCHANGED <<mux, age>>
      BY <1>6 DEF RecoverSpawn, SetMuxError
    <2>2. Calm
      BY <2>1 DEF Calm, Spawning, Alive
    <2>3. MuxKept
      BY <1>6, <2>1, SetMuxYoung DEF MuxKept, ShuttingDown
    <2>4. Thins
      BY <2>1, LineKeptThins DEF QueueInv
    <2> QED
      BY <2>1, <2>2, <2>3, <2>4, SetMuxYoung, SameAgeYoung DEF Passes
  <1>7. CASE StopSignal \/ StopFlag \/ StopTake \/ StopDeadline \/ Boot
    BY <1>0, <1>7, IdlePasses
       DEF StopSignal, StopFlag, StopTake, StopDeadline, Boot, Spawning, ShuttingDown
  <1>8. CASE StopExit \/ Crash
    BY <1>8, DownPasses DEF StopExit, Crash
  <1>9. ASSUME NEW v \in Videos, RetryCreate(v) PROVE Passes
    BY <1>0, <1>9, IdlePasses DEF RetryCreate, Spawning, ShuttingDown
  <1>10. ASSUME NEW v \in Videos, OwnerEdit(v) PROVE Passes
    <2>1. Young
      BY <1>10, AgeType, TypeParts DEF OwnerEdit, Young, RowTypes
    <2> QED
      BY <1>10, <2>1, IdlePasses DEF OwnerEdit, Spawning, ShuttingDown
  <1> QED
    BY <1>1, <1>2, <1>3, <1>4, <1>5, <1>6, <1>7, <1>8, <1>9, <1>10, JobPasses,
       AbortPasses, MarkPasses
       DEF Next, Handler, JobStep, Recovery, StopStep, Engages
-----------------------------------------------------------------------------
(* What each shape preserves.                                              *)

LEMMA AgeTypeNext ==
    ASSUME TypeInv', NEW v \in Videos
    PROVE  age'[v] \in Nat
  BY ConstantsAssumption DEF TypeInv, TypeOK

LEMMA VideoTypeNext ==
    ASSUME TypeInv'
    PROVE  /\ \A j \in JobIds : Alive(j)' => job'[j].video \in Videos
           /\ \A r \in Reqs : Spawning(r)' => req'[r].video \in Videos
           /\ recov' \subseteq Videos
  BY DEF TypeInv, TypeOK, Engaged, Spawning, Alive

LEMMA CalmUnique ==
    ASSUME Unique, Calm
    PROVE  Unique'
  BY DEF Unique, Calm, Alive, Spawning

LEMMA CalmClaimed ==
    ASSUME Claimed, Calm, MuxKept
    PROVE  Claimed'
  <1> SUFFICES ASSUME NEW v \in Videos, Worked(v)'
               PROVE  mux'[v] # "complete" /\ (~ShuttingDown' => mux'[v] = "processing")
    BY DEF Claimed
  <1>1. Worked(v)
    BY CalmWorked
  <1> QED
    BY <1>1 DEF Claimed, MuxKept

LEMMA CalmFresh ==
    ASSUME TypeInv, TypeInv', Fresh, Calm, Young
    PROVE  Fresh'
  <1>1. ASSUME NEW v \in Videos, age[v] = 0 PROVE age'[v] = 0
    BY <1>1, AgeTypeNext DEF Young
  <1>2. \A r \in Reqs : Spawning(r)' => req'[r].video \in Videos /\ age[req'[r].video] = 0
    BY VideoTypeNext DEF Fresh, Calm
  <1>3. \A v \in recov' : v \in Videos /\ age[v] = 0
    BY VideoTypeNext DEF Fresh, Calm
  <1>4. \A j \in JobIds : job'[j].pc = "new" => job'[j].video \in Videos /\ age[job'[j].video] = 0
    BY VideoTypeNext DEF Fresh, Calm, Alive
  <1> QED
    BY <1>1, <1>2, <1>3, <1>4 DEF Fresh

LEMMA ThinsLine ==
    ASSUME TypeInv, Line, Thins
    PROVE  Line'
  <1>1. \A j \in JobIds : Running(j)' => Running(j)
    BY DEF Thins
  <1>2. \A j \in JobIds : Waiting(j)' => Waiting(j) /\ job'[j] = job[j]
    BY DEF Thins, Waiting
  <1>3. \A i, j \in JobIds : Running(i)' /\ Running(j)' => i = j
    BY <1>1 DEF Line
  <1>4. \A j \in JobIds : Waiting(j)' => \A i \in ahead'[j] : Waiting(i)'
    BY DEF Thins
  <1>5. \A i, j \in JobIds : Waiting(i)' /\ Waiting(j)' /\ i # j => i \in ahead'[j] \/ j \in ahead'[i]
    BY <1>2 DEF Line, Thins
  <1>6. \A j \in JobIds : job'[j].pc \in {"new", "wait"} => job'[j].ran = 0
    BY <1>2 DEF Line, Thins, Waiting
  <1> QED
    BY <1>3, <1>4, <1>5, <1>6 DEF Line

\* The line before a waiting task gets no longer.
LEMMA TimeLeftFalls ==
    ASSUME TypeInv, Line, NEW j \in JobIds, Waiting(j),
           \A i \in ahead'[j] : i \in ahead[j] /\ job'[i].video = job[i].video
    PROVE  TimeLeft(j) \in Nat /\ TimeLeft(j)' \in Nat /\ TimeLeft(j)' <= TimeLeft(j)
  <1>1. Before(j)' \subseteq Before(j)
    BY DEF Before
  <1>2. /\ Cardinality(Before(j)) \in Nat
        /\ Cardinality(Before(j)') \in Nat
        /\ Cardinality(Before(j)') <= Cardinality(Before(j))
    BY <1>1, BeforeType, SubsetSmaller
  <1>3. Cost(Cardinality(Before(j)') + 1) <= Cost(Cardinality(Before(j)) + 1)
    BY <1>2, CostMonotone
  <1>4. TimeLeft(j)' = Cost(Cardinality(Before(j)') + 1)
    BY DEF TimeLeft, Cost
  <1> QED
    BY <1>2, <1>3, <1>4, CostNext DEF TimeLeft

LEMMA ThinsTimely ==
    ASSUME NEW d \in Nat, TypeInv, TypeInv', QueueInv(d), Young, Thins
    PROVE  Timely(d)'
  <1>0. Line /\ Timely(d)
    BY DEF QueueInv
  <1>1. \A j \in JobIds : Running(j)' =>
            /\ Running(j) /\ job'[j].video \in Videos
            /\ job'[j].video = job[j].video /\ job'[j].ran = job[j].ran
            /\ job'[j].pc = "mux" => job[j].pc = "mux"
    BY VideoTypeNext DEF Thins, Running, RunningPCs, Alive
  <1>3. ASSUME NEW j \in JobIds, job'[j].pc = "mux"
        PROVE  age'[job'[j].video] + JobTimeout <= Limit(d) + job'[j].ran
    <2>1. /\ job[j].pc = "mux" /\ job[j].video \in Videos
          /\ job'[j].video = job[j].video /\ job'[j].ran = job[j].ran
      BY <1>1, <1>3 DEF Running, RunningPCs
    <2>2. /\ age'[job[j].video] <= age[job[j].video]
          /\ age[job[j].video] + JobTimeout <= Limit(d) + job[j].ran
      BY <1>0, <2>1 DEF Young, Timely
    <2>3. age[job[j].video] \in Nat /\ age'[job[j].video] \in Nat /\ job[j].ran \in Nat
      BY <2>1, AgeType, AgeTypeNext, JobParts
    <2> QED
      BY <2>1, <2>2, <2>3, LimitType, ConstantsAssumption
  <1>4. ASSUME NEW j \in JobIds, job'[j].pc \in {"mark", "fail", "aborted"}
        PROVE  age'[job'[j].video] <= Limit(d)
    <2>1. Alive(j) /\ job[j].video \in Videos /\ job'[j].video = job[j].video
      BY <1>1, <1>4, TypeParts DEF Thins, JobTypes, Running, RunningPCs, Alive
    <2>2. age'[job[j].video] <= age[job[j].video] /\ age[job[j].video] <= Limit(d)
      BY <2>1, TaskIsYoung DEF Young
    <2> QED
      BY <2>1, <2>2, AgeType, AgeTypeNext, LimitType
  <1>5. ASSUME NEW j \in JobIds, Waiting(j)'
        PROVE  /\ Waiting(j) /\ job[j].video \in Videos /\ job'[j].video = job[j].video
               /\ age'[job[j].video] \in Nat /\ age[job[j].video] \in Nat
               /\ age'[job[j].video] <= age[job[j].video]
               /\ TimeLeft(j) \in Nat /\ TimeLeft(j)' \in Nat /\ TimeLeft(j)' <= TimeLeft(j)
    <2>1. Waiting(j) /\ job'[j] = job[j] /\ ahead'[j] \subseteq ahead[j]
      BY <1>5 DEF Thins, Waiting
    <2>2. \A i \in ahead'[j] : i \in ahead[j] /\ job'[i].video = job[i].video
      BY <1>5, <2>1, TypeParts DEF Thins, LineTypes
    <2>3. job[j].video \in Videos
      BY <2>1, TypeParts DEF JobTypes, Alive, Waiting
    <2> QED
      BY <1>0, <2>1, <2>2, <2>3, TimeLeftFalls, AgeType, AgeTypeNext DEF Young
  <1>6. ASSUME NEW j \in JobIds, Waiting(j)' PROVE age'[job'[j].video] + TimeLeft(j)' <= Limit(d)
    <2>1. age[job[j].video] + TimeLeft(j) <= Limit(d)
      BY <1>0, <1>5, <1>6 DEF Timely
    <2> QED
      BY <1>5, <1>6, <2>1, LimitType
  <1>7. ASSUME NEW i \in JobIds, NEW j \in JobIds, Waiting(j)', job'[i].pc = "mux"
        PROVE  age'[job'[j].video] + TimeLeft(j)' + JobTimeout <= Limit(d) + job'[i].ran
    <2>1. job[i].pc = "mux" /\ job'[i].ran = job[i].ran
      BY <1>1, <1>7 DEF Running, RunningPCs
    <2>2. age[job[j].video] + TimeLeft(j) + JobTimeout <= Limit(d) + job[i].ran
      BY <1>0, <1>5, <1>7, <2>1 DEF Timely
    <2> QED
      BY <1>5, <1>7, <2>1, <2>2, JobParts, LimitType, ConstantsAssumption
  <1>8. Limit(d)' = Limit(d)
    BY DEF Limit, Cost
  <1> QED
    BY <1>3, <1>4, <1>6, <1>7, <1>8 DEF Timely

\* A task joins the line behind all that wait.
LEMMA JoinKeepsLine ==
    ASSUME NEW d \in Nat, TypeInv, QueueInv(d), QueueShort(d), NEW j \in JobIds, JobQueue(j)
    PROVE  Calm /\ MuxKept /\ Young /\ Line' /\ Timely(d)'
  <1> USE DEF rowVars, recovVars
  <1>1. /\ job[j].pc = "new" /\ job[j].video \in Videos /\ job[j].ran = 0
        /\ job'[j].pc = "wait" /\ job'[j].video = job[j].video /\ job'[j].ran = 0
        /\ \A i \in JobIds \ {j} : job'[i] = job[i]
    BY TypeParts DEF JobQueue, JobTypes, Slot, Alive, QueueInv, Line
  <1>2. /\ ahead'[j] = {i \in JobIds : Waiting(i)}
        /\ \A i \in JobIds \ {j} : ahead'[i] = ahead[i]
        /\ UNCHANGED <<mux, age, req, recov, server>>
    BY TypeParts DEF JobQueue, LineTypes
  <1>3. Calm
    BY <1>1, <1>2 DEF Calm, Spawning, Alive
  <1>4. MuxKept
    BY <1>2 DEF MuxKept, ShuttingDown
  <1>5. Young
    BY <1>2, SameAgeYoung
  <1>6. /\ \A i \in JobIds : Waiting(i)' <=> Waiting(i) \/ i = j
        /\ \A i \in JobIds : Running(i)' <=> Running(i)
        /\ ~Waiting(j) /\ ~Running(j)
    BY <1>1 DEF Waiting, Running, RunningPCs
  <1>7. \A i \in JobIds : Waiting(i) => \A k \in ahead[i] : k \in JobIds /\ Waiting(k)
    BY TypeParts DEF QueueInv, Line, LineTypes
  <1>8. Line'
    <2>1. \A i \in JobIds : Waiting(i)' => \A k \in ahead'[i] : Waiting(k)'
      BY <1>2, <1>6, <1>7
    <2>2. \A i, k \in JobIds :
              Waiting(i)' /\ Waiting(k)' /\ i # k => i \in ahead'[k] \/ k \in ahead'[i]
      BY <1>2, <1>6 DEF QueueInv, Line
    <2>3. \A i \in JobIds : job'[i].pc \in {"new", "wait"} => job'[i].ran = 0
      BY <1>1 DEF QueueInv, Line
    <2>4. \A i, k \in JobIds : Running(i)' /\ Running(k)' => i = k
      BY <1>6 DEF QueueInv, Line
    <2> QED
      BY <2>1, <2>2, <2>3, <2>4 DEF Line
  <1>9. /\ Queued \in SUBSET Videos /\ job[j].video \in Queued
        /\ Before(j)' \subseteq Queued \ {job[j].video}
    <2>1. \A i \in ahead'[j] : /\ i \in JobIds /\ i # j /\ Alive(i) /\ Alive(j)
                               /\ job'[i].video = job[i].video
      BY <1>1, <1>2, <1>6 DEF Waiting, Alive
    <2>2. \A i \in ahead'[j] : job[i].video # job[j].video /\ job[i].video \in Queued
      BY <2>1, TypeParts DEF QueueInv, Unique, JobTypes, Queued
    <2>3. job[j].video \in Queued
      BY <1>1 DEF Queued, Alive
    <2> QED
      BY <2>1, <2>2, <2>3 DEF Before, Queued
  <1>10. Cardinality(Before(j)') \in Nat /\ Cardinality(Before(j)') + 1 <= d
    <2> DEFINE others == Queued \ {job[j].video}
    <2>1. Cardinality(others) \in Nat /\ Cardinality(others) + 1 <= d
      BY <1>9, SetWithout DEF QueueShort
    <2>2. Cardinality(Before(j)') \in Nat /\ Cardinality(Before(j)') <= Cardinality(others)
      BY <1>9, SubsetSmaller
    <2> QED
      BY <2>1, <2>2
  <1>11. TimeLeft(j)' = Cost(Cardinality(Before(j)') + 1)
    BY DEF TimeLeft, Cost
  <1>12. TimeLeft(j)' \in Nat /\ TimeLeft(j)' <= Limit(d)
    BY <1>10, <1>11, CostNext, CostMonotone, LimitType DEF Limit
  <1>13. ASSUME NEW i \in JobIds, job[i].pc = "mux" PROVE TimeLeft(j)' + JobTimeout <= Limit(d)
    <2>1. /\ Alive(i) /\ i # j /\ job[i].video \in Videos /\ job[i].video # job[j].video
          /\ ~Waiting(i)
      BY <1>1, <1>13, TypeParts DEF Alive, QueueInv, Unique, JobTypes, Waiting
    <2>2. job[i].video \notin Before(j)'
      <3>1. \A k \in ahead'[j] : /\ k \in JobIds /\ k # i /\ Alive(k)
                                 /\ job'[k].video = job[k].video
        BY <1>1, <1>2, <1>6, <2>1 DEF Waiting, Alive
      <3> QED
        BY <2>1, <3>1 DEF Before, QueueInv, Unique
    <2> DEFINE others == Queued \ {job[j].video}
               rest == others \ {job[i].video}
    <2>3. Before(j)' \subseteq rest /\ others \in SUBSET Videos /\ job[i].video \in others
      BY <1>9, <2>1, <2>2 DEF Queued
    <2>4. Cardinality(others) \in Nat /\ Cardinality(others) + 1 <= d
      BY <1>9, SetWithout DEF QueueShort
    <2> HIDE DEF others
    <2>5. /\ Cardinality(rest) \in Nat /\ Cardinality(rest) + 1 = Cardinality(others)
          /\ Cardinality(Before(j)') <= Cardinality(rest)
      BY <2>3, SetWithout, SubsetSmaller
    <2> DEFINE n == Cardinality(Before(j)') + 1
    <2>6. n \in Nat /\ n + 1 \in Nat /\ n + 1 <= d
      BY <1>10, <2>4, <2>5
    <2>7. Cost(n) + JobTimeout = Cost(n + 1) /\ Cost(n + 1) <= Limit(d)
      BY <2>6, CostNext, CostMonotone, LimitType DEF Limit
    <2> QED
      BY <1>11, <2>7
  <1>14. ASSUME NEW i \in JobIds, Waiting(i)
         PROVE  /\ job'[i].video = job[i].video /\ job[i].video \in Videos
                /\ age[job[i].video] \in Nat
                /\ TimeLeft(i) \in Nat /\ TimeLeft(i)' \in Nat /\ TimeLeft(i)' <= TimeLeft(i)
    <2>1. /\ i # j /\ ahead'[i] = ahead[i] /\ job[i].video \in Videos
          /\ job'[i].video = job[i].video
      BY <1>1, <1>2, <1>6, <1>14, TypeParts DEF JobTypes, Alive, Waiting
    <2>2. \A k \in ahead'[i] : k \in ahead[i] /\ job'[k].video = job[k].video
      BY <1>1, <1>7, <1>14, <2>1
    <2> QED
      BY <1>14, <2>1, <2>2, TimeLeftFalls, AgeType DEF QueueInv
  <1>15. age'[job[j].video] = 0
    BY <1>1, <1>2 DEF QueueInv, Fresh
  <1>16. Timely(d)'
    <2>1. ASSUME NEW i \in JobIds, job'[i].pc = "mux"
          PROVE  /\ job[i].pc = "mux" /\ job'[i] = job[i] /\ job[i].ran \in Nat
                 /\ age'[job'[i].video] + JobTimeout <= Limit(d) + job'[i].ran
      BY <1>1, <1>2, <2>1, JobParts DEF QueueInv, Timely
    <2>2. ASSUME NEW i \in JobIds, job'[i].pc \in {"mark", "fail", "aborted"}
          PROVE  age'[job'[i].video] <= Limit(d)
      BY <1>1, <1>2, <2>2 DEF QueueInv, Timely
    <2>3. ASSUME NEW i \in JobIds, Waiting(i)' PROVE age'[job'[i].video] + TimeLeft(i)' <= Limit(d)
      <3>1. CASE i = j
        BY <1>1, <1>12, <1>15, <3>1, LimitType
      <3>2. CASE Waiting(i)
        <4>1. age[job[i].video] + TimeLeft(i) <= Limit(d)
          BY <3>2 DEF QueueInv, Timely
        <4> QED
          BY <1>2, <1>14, <3>2, <4>1, LimitType
      <3> QED
        BY <1>6, <2>3, <3>1, <3>2
    <2>4. ASSUME NEW k \in JobIds, NEW i \in JobIds, Waiting(i)', job'[k].pc = "mux"
          PROVE  age'[job'[i].video] + TimeLeft(i)' + JobTimeout <= Limit(d) + job'[k].ran
      <3>1. CASE i = j
        BY <1>1, <1>12, <1>13, <1>15, <2>1, <2>4, <3>1, LimitType, ConstantsAssumption
      <3>2. CASE Waiting(i)
        <4>1. age[job[i].video] + TimeLeft(i) + JobTimeout <= Limit(d) + job[k].ran
          BY <2>1, <2>4, <3>2 DEF QueueInv, Timely
        <4> QED
          BY <1>2, <1>14, <2>1, <2>4, <3>2, <4>1, LimitType, ConstantsAssumption
      <3> QED
        BY <1>6, <2>4, <3>1, <3>2
    <2>5. Limit(d)' = Limit(d)
      BY DEF Limit, Cost
    <2> QED
      BY <2>1, <2>2, <2>3, <2>4, <2>5 DEF Timely
  <1> QED
    BY <1>3, <1>4, <1>5, <1>8, <1>16

\* The first in line begins: the line before each other waiting task loses one.
LEMMA StartKeepsLine ==
    ASSUME NEW d \in Nat, TypeInv, QueueInv(d), NEW j \in JobIds, JobStart(j)
    PROVE  Calm /\ MuxKept /\ Young /\ Line' /\ Timely(d)'
  <1> USE DEF rowVars, recovVars
  <1>1. /\ job[j].pc = "wait" /\ job[j].video \in Videos /\ job[j].ran = 0
        /\ job'[j].pc = "mux" /\ job'[j].video = job[j].video /\ job'[j].ran = 0
        /\ \A i \in JobIds \ {j} : job'[i] = job[i]
    BY TypeParts DEF JobStart, JobTypes, Slot, Alive, Waiting, QueueInv, Line
  <1>2. /\ ahead[j] = {}
        /\ \A i \in JobIds \ {j} : ahead'[i] = ahead[i] \ {j}
        /\ UNCHANGED <<mux, age, req, recov, server>>
        /\ \A i \in JobIds : ~Running(i)
    BY DEF JobStart, LeaveLine, PermitFree
  <1>3. Calm
    BY <1>1, <1>2 DEF Calm, Spawning, Alive
  <1>4. MuxKept
    BY <1>2 DEF MuxKept, ShuttingDown
  <1>5. Young
    BY <1>2, SameAgeYoung
  <1>6. /\ \A i \in JobIds : Waiting(i)' <=> Waiting(i) /\ i # j
        /\ \A i \in JobIds : Running(i)' <=> i = j
        /\ Waiting(j)
    BY <1>1, <1>2 DEF Waiting, Running, RunningPCs
  <1>7. \A i \in JobIds : Waiting(i) => \A k \in ahead[i] : k \in JobIds /\ Waiting(k)
    BY TypeParts DEF QueueInv, Line, LineTypes
  <1>8. Line'
    <2>1. \A i \in JobIds : Waiting(i)' => \A k \in ahead'[i] : Waiting(k)'
      BY <1>2, <1>6, <1>7
    <2>2. \A i, k \in JobIds :
              Waiting(i)' /\ Waiting(k)' /\ i # k => i \in ahead'[k] \/ k \in ahead'[i]
      BY <1>2, <1>6 DEF QueueInv, Line
    <2>3. \A i \in JobIds : job'[i].pc \in {"new", "wait"} => job'[i].ran = 0
      BY <1>1 DEF QueueInv, Line
    <2>4. \A i, k \in JobIds : Running(i)' /\ Running(k)' => i = k
      BY <1>6
    <2> QED
      BY <2>1, <2>2, <2>3, <2>4 DEF Line
  <1>9. ASSUME NEW i \in JobIds, Waiting(i)'
        PROVE  /\ Waiting(i) /\ i # j /\ age[job[i].video] \in Nat
               /\ job'[i].video = job[i].video
               /\ TimeLeft(i) \in Nat /\ TimeLeft(i)' \in Nat
               /\ TimeLeft(i)' + JobTimeout = TimeLeft(i)
    <2>1. Waiting(i) /\ i # j /\ job[i].video \in Videos
      BY <1>6, <1>9, TypeParts DEF JobTypes, Alive, Waiting
    <2>2. j \in ahead[i]
      BY <1>2, <1>6, <2>1 DEF QueueInv, Line
    <2>3. Before(i)' = Before(i) \ {job[j].video}
      <3>1. \A k \in ahead[i] : k \in JobIds /\ Alive(k) /\ job'[k].video = job[k].video
        BY <1>1, <1>7, <2>1 DEF Waiting, Alive
      <3>2. \A k \in ahead[i] : job[k].video = job[j].video => k = j
        BY <1>6, <3>1 DEF QueueInv, Unique, Waiting, Alive
      <3>3. ahead'[i] = ahead[i] \ {j}
        BY <1>2, <2>1
      <3> QED
        BY <3>1, <3>2, <3>3 DEF Before
    <2>4. job[j].video \in Before(i)
      BY <2>2 DEF Before
    <2>5. Before(i) \in SUBSET Videos
      BY <2>1, BeforeType DEF QueueInv
    <2>6. /\ Cardinality(Before(i)) \in Nat /\ Cardinality(Before(i)') \in Nat
          /\ Cardinality(Before(i)) = Cardinality(Before(i)') + 1
      BY <2>3, <2>4, <2>5, SetWithout
    <2> DEFINE n == Cardinality(Before(i)') + 1
    <2>7. n \in Nat /\ Cost(n + 1) = Cost(n) + JobTimeout /\ Cost(n) \in Nat /\ Cost(n + 1) \in Nat
      BY <2>6, CostNext
    <2>8. TimeLeft(i)' = Cost(n) /\ TimeLeft(i) = Cost(n + 1)
      BY <2>6 DEF TimeLeft, Cost
    <2> QED
      BY <1>1, <2>1, <2>7, <2>8, AgeType
  <1>10. Timely(d)'
    <2>1. age[job[j].video] + JobTimeout <= Limit(d)
      <3>1. age[job[j].video] + TimeLeft(j) <= Limit(d)
        BY <1>6 DEF QueueInv, Timely
      <3>2. Cardinality(Before(j)) \in Nat
        BY <1>6, BeforeType DEF QueueInv
      <3>3. /\ Cost(Cardinality(Before(j))) \in Nat
            /\ TimeLeft(j) = Cost(Cardinality(Before(j))) + JobTimeout
        BY <3>2, CostNext DEF TimeLeft
      <3>4. age[job[j].video] \in Nat
        BY <1>1, AgeType
      <3> QED
        BY <3>1, <3>3, <3>4, LimitType, ConstantsAssumption
    <2>2. ASSUME NEW i \in JobIds, job'[i].pc = "mux"
          PROVE  i = j /\ age'[job'[i].video] + JobTimeout <= Limit(d) + job'[i].ran
      BY <1>1, <1>2, <1>6, <2>1, <2>2, LimitType DEF Running, RunningPCs
    <2>3. ASSUME NEW i \in JobIds, job'[i].pc \in {"mark", "fail", "aborted"}
          PROVE  age'[job'[i].video] <= Limit(d)
      BY <1>1, <1>2, <2>3 DEF QueueInv, Timely
    <2>4. ASSUME NEW i \in JobIds, Waiting(i)'
          PROVE  /\ age'[job'[i].video] + TimeLeft(i)' <= Limit(d)
                 /\ age'[job'[i].video] + TimeLeft(i)' + JobTimeout <= Limit(d)
      <3>1. age[job[i].video] + TimeLeft(i) <= Limit(d)
        BY <1>9, <2>4 DEF QueueInv, Timely
      <3> QED
        BY <1>2, <1>9, <2>4, <3>1, LimitType, ConstantsAssumption
    <2>5. ASSUME NEW k \in JobIds, NEW i \in JobIds, Waiting(i)', job'[k].pc = "mux"
          PROVE  age'[job'[i].video] + TimeLeft(i)' + JobTimeout <= Limit(d) + job'[k].ran
      BY <1>1, <2>2, <2>4, <2>5, LimitType
    <2>6. Limit(d)' = Limit(d)
      BY DEF Limit, Cost
    <2> QED
      BY <2>2, <2>3, <2>4, <2>5, <2>6 DEF Timely
  <1> QED
    BY <1>3, <1>4, <1>5, <1>8, <1>10

\* Time passes: the running job's own time pays for every claim in line.
LEMMA TickKeepsLine ==
    ASSUME NEW d \in Nat, TypeInv, QueueInv(d), Tick
    PROVE  Calm /\ MuxKept /\ Fresh' /\ Line' /\ Timely(d)'
  <1>1. /\ \A j \in JobIds : job'[j].pc = job[j].pc /\ job'[j].video = job[j].video
        /\ \A j \in JobIds : job[j].pc # "mux" => job'[j] = job[j]
        /\ \A j \in JobIds : job[j].pc = "mux" =>
               job'[j].ran = job[j].ran + 1 /\ job[j].ran < JobTimeout
        /\ UNCHANGED <<mux, ahead, req, recov, server>>
    BY TypeParts DEF Tick, Older, JobTypes, Slot
  <1>2. /\ \A r \in Reqs : ~Spawning(r)
        /\ recov = {}
        /\ \A j \in JobIds : job[j].pc \notin {"new", "mark", "fail", "aborted"}
        /\ \A j \in JobIds : Waiting(j) => \E i \in JobIds : job[i].pc = "mux"
    BY DEF Tick, Settled, Spawning, PermitFree, Running, RunningPCs
  <1>3. \A v \in Videos : age[v] \in Nat /\ age'[v] \in Nat /\ age'[v] <= age[v] + 1
    BY ConstantsAssumption, TypeParts DEF RowTypes, Tick, Older
  <1>4. Calm
    BY <1>1, <1>2 DEF Calm, Spawning, Alive
  <1>5. MuxKept
    BY <1>1 DEF MuxKept, ShuttingDown
  <1>6. Fresh'
    BY <1>1, <1>2 DEF Fresh, Spawning
  <1>7. /\ \A j \in JobIds : Waiting(j)' <=> Waiting(j)
        /\ \A j \in JobIds : Running(j)' <=> Running(j)
    BY <1>1 DEF Waiting, Running
  <1>8. Line'
    <2>1. \A j \in JobIds : Waiting(j) => \A i \in ahead[j] : i \in JobIds /\ Waiting(i)
      BY TypeParts DEF QueueInv, Line, LineTypes
    <2>2. \A j \in JobIds : Waiting(j)' => \A i \in ahead'[j] : Waiting(i)'
      BY <1>1, <1>7, <2>1
    <2>3. \A j \in JobIds : job'[j].pc \in {"new", "wait"} => job'[j].ran = 0
      BY <1>1 DEF QueueInv, Line
    <2>4. \A i, j \in JobIds : Running(i)' /\ Running(j)' => i = j
      BY <1>7 DEF QueueInv, Line
    <2>5. \A i, j \in JobIds :
              Waiting(i)' /\ Waiting(j)' /\ i # j => i \in ahead'[j] \/ j \in ahead'[i]
      BY <1>1, <1>7 DEF QueueInv, Line
    <2> QED
      BY <2>2, <2>3, <2>4, <2>5 DEF Line
  <1>9. ASSUME NEW j \in JobIds, Waiting(j)
        PROVE  job[j].video \in Videos /\ TimeLeft(j) \in Nat /\ TimeLeft(j)' = TimeLeft(j)
    <2>1. job[j].video \in Videos
      BY <1>9, TypeParts DEF JobTypes, Alive, Waiting
    <2>2. \A i \in ahead[j] : job'[i].video = job[i].video
      BY <1>1, <1>9, TypeParts DEF LineTypes
    <2>3. Before(j)' = Before(j)
      BY <1>1, <2>2 DEF Before
    <2> QED
      BY <1>9, <2>1, <2>3, BeforeType DEF QueueInv, TimeLeft, Cost
  <1>10. Timely(d)'
    <2>1. ASSUME NEW j \in JobIds, job'[j].pc = "mux"
          PROVE  age'[job'[j].video] + JobTimeout <= Limit(d) + job'[j].ran
      <3>1. /\ job[j].pc = "mux" /\ job'[j].ran = job[j].ran + 1 /\ job[j].video \in Videos
            /\ job'[j].video = job[j].video /\ job[j].ran \in Nat
        BY <1>1, <2>1, JobParts, TypeParts DEF JobTypes, Alive
      <3>2. age[job[j].video] + JobTimeout <= Limit(d) + job[j].ran
        BY <3>1 DEF QueueInv, Timely
      <3>3. /\ age[job[j].video] \in Nat /\ age'[job[j].video] \in Nat
            /\ age'[job[j].video] <= age[job[j].video] + 1
        BY <1>3, <3>1
      <3> QED
        BY <3>1, <3>2, <3>3, LimitType, ConstantsAssumption
    <2>2. ASSUME NEW j \in JobIds, job'[j].pc \in {"mark", "fail", "aborted"} PROVE FALSE
      BY <1>1, <1>2, <2>2
    <2>3. ASSUME NEW i \in JobIds, NEW j \in JobIds, Waiting(j)', job[i].pc = "mux"
          PROVE  /\ age'[job'[j].video] + TimeLeft(j)' <= Limit(d)
                 /\ age'[job'[j].video] + TimeLeft(j)' + JobTimeout <= Limit(d) + job'[i].ran
      <3>1. Waiting(j) /\ job'[j].video = job[j].video
        BY <1>1, <1>7, <2>3
      <3>2. age[job[j].video] + TimeLeft(j) + JobTimeout <= Limit(d) + job[i].ran
        BY <2>3, <3>1 DEF QueueInv, Timely
      <3>3. job[i].ran \in Nat /\ job[i].ran < JobTimeout /\ job'[i].ran = job[i].ran + 1
        BY <1>1, <2>3, JobParts
      <3>4. /\ age[job[j].video] \in Nat /\ age'[job[j].video] \in Nat
            /\ age'[job[j].video] <= age[job[j].video] + 1
            /\ TimeLeft(j) \in Nat /\ TimeLeft(j)' = TimeLeft(j)
        BY <1>3, <1>9, <3>1
      <3> QED
        BY <3>1, <3>2, <3>3, <3>4, LimitType, ConstantsAssumption
    <2>4. ASSUME NEW j \in JobIds, Waiting(j)' PROVE age'[job'[j].video] + TimeLeft(j)' <= Limit(d)
      BY <1>2, <1>7, <2>3, <2>4
    <2>5. ASSUME NEW i \in JobIds, NEW j \in JobIds, Waiting(j)', job'[i].pc = "mux"
          PROVE  age'[job'[j].video] + TimeLeft(j)' + JobTimeout <= Limit(d) + job'[i].ran
      BY <1>1, <2>3, <2>5
    <2>6. Limit(d)' = Limit(d)
      BY DEF Limit, Cost
    <2> QED
      BY <2>1, <2>2, <2>4, <2>5, <2>6 DEF Timely
  <1> QED
    BY <1>4, <1>5, <1>6, <1>8, <1>10
-----------------------------------------------------------------------------
(* Steps in which someone starts to work on a recording.                   *)

\* A client claims a recording: nobody works on it, or it would be processing.
LEMMA ClaimKeeps ==
    ASSUME NEW d \in Nat, TypeInv, StopInv, QueueInv(d), NEW r \in Reqs, CompleteClaim(r),
           Claimable(req[r].video)
    PROVE  Unique' /\ Claimed' /\ Fresh' /\ Young /\ Thins
  <1> DEFINE v == req[r].video
  <1>1. /\ v \in Videos
        /\ req'[r].pc = "spawn" /\ req'[r].video = v
        /\ \A s \in Reqs \ {r} : req'[s] = req[s]
        /\ SetMux({v}, "processing")
        /\ UNCHANGED <<job, ahead, recov, server>>
    BY TypeParts DEF CompleteClaim, ReqTypes, Handlers, recovVars, jobVars
  <1>2. ~Worked(v)
    <2>1. ~ShuttingDown
      BY DEF StopInv, Drained, CompleteClaim, NoReq
    <2>2. mux[v] # "processing"
      BY DEF Claimable
    <2> QED
      BY <1>1, <2>1, <2>2 DEF QueueInv, Claimed
  <1>3. /\ \A s \in Reqs : Spawning(s) => req[s].video # v
        /\ \A j \in JobIds : Alive(j) => job[j].video # v
        /\ v \notin recov
    BY <1>1, <1>2, WorkedDef DEF Spawning
  <1>4. /\ \A s \in Reqs : Spawning(s)' => s = r \/ (Spawning(s) /\ req'[s] = req[s])
        /\ \A j \in JobIds : Alive(j)' <=> Alive(j)
    BY <1>1 DEF Spawning, Alive
  <1>5. Unique'
    BY <1>1, <1>3, <1>4 DEF QueueInv, Unique
  <1>6. Claimed'
    <2>1. \A w \in Videos : Worked(w)' => Worked(w) \/ w = v
      BY <1>1, <1>4, WorkedDef, WorkedDefNext DEF Spawning
    <2> QED
      BY <1>1, <2>1, SetMuxYoung DEF QueueInv, Claimed, ShuttingDown
  <1>7. \A w \in Videos : age[w] = 0 => age'[w] = 0
    BY <1>1, SetMuxYoung
  <1>8. Fresh'
    <2>1. age'[v] = 0
      BY <1>1, SetMuxYoung
    <2>2. \A s \in Reqs : Spawning(s) => req[s].video \in Videos
      BY TypeParts DEF ReqTypes, Spawning
    <2>3. \A j \in JobIds : job[j].pc = "new" => job[j].video \in Videos
      BY TypeParts DEF JobTypes, Alive
    <2>4. \A w \in recov : w \in Videos
      BY TypeParts DEF RecovTypes
    <2> QED
      BY <1>1, <1>4, <1>7, <2>1, <2>2, <2>3, <2>4 DEF QueueInv, Fresh
  <1>9. Young /\ Thins
    BY <1>1, SetMuxYoung, LineKeptThins DEF QueueInv, jobVars
  <1> QED
    BY <1>5, <1>6, <1>8, <1>9

\* A recovery pass claims what is older than the limit, hence in nobody's hands.
LEMMA RecoverKeeps ==
    ASSUME NEW d \in Nat, QueueFits(d), TypeInv, StopInv, QueueInv(d), RecoverClaim
    PROVE  Unique' /\ Claimed' /\ Fresh' /\ Young /\ Thins
  <1>1. /\ recov = {}
        /\ recov' \subseteq Candidates
        /\ SetMux(recov', "processing")
        /\ UNCHANGED <<job, ahead, req, server>>
    BY DEF RecoverClaim, StopInv, Rested, FirstBatch, jobVars
  <1>2. ASSUME NEW v \in recov' PROVE v \in Videos /\ ~Worked(v)
    <2>1. v \in Videos /\ age[v] > StaleAge
      BY <1>1, <1>2 DEF Candidates
    <2>2. ~(age[v] <= Limit(d))
      BY <2>1, AgeType, LimitType, ConstantsAssumption DEF QueueFits
    <2> QED
      BY <1>1, <2>1, <2>2, WorkedIsYoung
  <1>3. \A v \in recov' : /\ \A s \in Reqs : Spawning(s) => req[s].video # v
                          /\ \A j \in JobIds : Alive(j) => job[j].video # v
    BY <1>2, WorkedDef DEF Spawning
  <1>4. /\ \A s \in Reqs : Spawning(s)' <=> Spawning(s)
        /\ \A j \in JobIds : Alive(j)' <=> Alive(j)
    BY <1>1 DEF Spawning, Alive
  <1>5. Unique'
    BY <1>1, <1>3, <1>4 DEF QueueInv, Unique
  <1>6. \A w \in Videos : /\ w \in recov' => mux'[w] = "processing" /\ age'[w] = 0
                          /\ w \notin recov' => mux'[w] = mux[w] /\ age'[w] = age[w]
    BY <1>1, SetMuxYoung
  <1>7. Claimed'
    <2>1. \A w \in Videos : Worked(w)' => Worked(w) \/ w \in recov'
      BY <1>1, <1>4, WorkedDef, WorkedDefNext DEF Spawning
    <2> QED
      BY <1>1, <1>6, <2>1 DEF QueueInv, Claimed, ShuttingDown
  <1>8. Fresh'
    <2>1. \A s \in Reqs : Spawning(s) => req[s].video \in Videos
      BY TypeParts DEF ReqTypes, Spawning
    <2>2. \A j \in JobIds : job[j].pc = "new" => job[j].video \in Videos
      BY TypeParts DEF JobTypes, Alive
    <2> QED
      BY <1>1, <1>2, <1>4, <1>6, <2>1, <2>2 DEF QueueInv, Fresh
  <1>9. Young /\ Thins
    BY <1>1, SetMuxYoung, LineKeptThins DEF QueueInv, jobVars
  <1> QED
    BY <1>5, <1>7, <1>8, <1>9

\* Whoever held the claim hands it to a new task.
LEMMA HandoverKeeps ==
    ASSUME NEW d \in Nat, TypeInv, QueueInv(d), NEW v \in Videos, Spawn(v), age[v] = 0,
           \A i \in JobIds : Alive(i) => job[i].video # v,
           Worked(v), v \notin recov', recov' \subseteq recov,
           \A s \in Reqs : Spawning(s)' => /\ Spawning(s) /\ req'[s] = req[s]
                                           /\ req[s].video # v,
           UNCHANGED <<mux, age, server>>
    PROVE  Unique' /\ Claimed' /\ Fresh' /\ Young /\ Thins
  <1>1. PICK j \in JobIds : /\ ~Alive(j)
                            /\ job' = [job EXCEPT ![j] = [pc |-> "new", video |-> v, ran |-> 0]]
                            /\ UNCHANGED ahead
    BY DEF Spawn
  <1>2. /\ job'[j].pc = "new" /\ job'[j].video = v /\ job'[j].ran = 0
        /\ \A i \in JobIds \ {j} : job'[i] = job[i]
    BY <1>1, TypeParts DEF JobTypes
  <1>3. \A i \in JobIds : Alive(i)' => i = j \/ (Alive(i) /\ job'[i] = job[i])
    BY <1>2 DEF Alive
  <1>4. Unique'
    BY <1>2, <1>3 DEF QueueInv, Unique
  <1>5. Claimed'
    <2>1. \A w \in Videos : Worked(w)' => Worked(w)
      BY <1>2, <1>3, WorkedDef, WorkedDefNext DEF Spawning
    <2> QED
      BY <2>1 DEF QueueInv, Claimed, ShuttingDown
  <1>6. Fresh'
    <2>1. \A i \in JobIds : job'[i].pc = "new" => i = j \/ job'[i] = job[i]
      BY <1>2
    <2> QED
      BY <1>2, <2>1 DEF QueueInv, Fresh
  <1>7. Thins
    <2>1. \A i \in JobIds : Waiting(i)' <=> Waiting(i) /\ i # j
      BY <1>2 DEF Waiting
    <2>2. \A i \in JobIds : Running(i)' => i # j /\ Running(i)
      BY <1>2 DEF Running, RunningPCs
    <2>3. \A i \in JobIds : Waiting(i) => \A k \in ahead[i] : k \in JobIds /\ Waiting(k) /\ k # j
      BY <1>1, TypeParts DEF QueueInv, Line, LineTypes, Waiting, Alive
    <2>4. \A i \in JobIds : job'[i].pc = "new" => job'[i].ran = 0
      BY <1>2 DEF QueueInv, Line
    <2>5. \A i \in JobIds : Waiting(i)' =>
              /\ job'[i] = job[i]
              /\ ahead'[i] \subseteq ahead[i]
              /\ \A k \in ahead'[i] : Waiting(k)'
      BY <1>1, <1>2, <2>1, <2>3
    <2>6. \A i \in JobIds : job'[i].pc = "aborted" => Alive(i) /\ job'[i].video = job[i].video
      BY <1>2 DEF Alive
    <2> QED
      BY <1>1, <1>2, <2>2, <2>4, <2>5, <2>6 DEF Thins
  <1> QED
    BY <1>4, <1>5, <1>6, <1>7, SameAgeYoung

LEMMA EngagesKeeps ==
    ASSUME NEW d \in Nat, QueueFits(d), TypeInv, StopInv, QueueInv(d), Engages
    PROVE  Unique' /\ Claimed' /\ Fresh' /\ Young /\ Thins
  <1>1. ASSUME NEW r \in Reqs, CompleteSpawn(r), ~ShuttingDown
        PROVE  Unique' /\ Claimed' /\ Fresh' /\ Young /\ Thins
    <2> DEFINE v == req[r].video
    <2>1. /\ v \in Videos /\ Spawning(r) /\ Spawn(v)
          /\ req'[r].pc = "idle"
          /\ \A s \in Reqs \ {r} : req'[s] = req[s]
          /\ UNCHANGED <<mux, age, server, recov>>
      BY <1>1, EmptySlots, TypeParts DEF CompleteSpawn, ReqTypes, Spawning, recovVars
    <2>2. /\ age[v] = 0 /\ v \notin recov
          /\ \A i \in JobIds : Alive(i) => job[i].video # v
          /\ \A s \in Reqs \ {r} : Spawning(s) => req[s].video # v
      BY <2>1 DEF QueueInv, Fresh, Unique
    <2>3. Worked(v)
      BY <2>1, WorkedDef DEF Spawning
    <2>4. \A s \in Reqs : Spawning(s)' => /\ Spawning(s) /\ req'[s] = req[s]
                                          /\ req[s].video # v
      BY <2>1, <2>2 DEF Spawning
    <2> QED
      BY <2>1, <2>2, <2>3, <2>4, HandoverKeeps
  <1>2. ASSUME NEW v \in Videos, RecoverSpawn(v), ~ShuttingDown
        PROVE  Unique' /\ Claimed' /\ Fresh' /\ Young /\ Thins
    <2>1. /\ v \in recov /\ recov' = recov \ {v} /\ Spawn(v)
          /\ UNCHANGED <<mux, age, server, req>>
      BY <1>2 DEF RecoverSpawn
    <2>2. /\ age[v] = 0
          /\ \A i \in JobIds : Alive(i) => job[i].video # v
          /\ \A s \in Reqs : Spawning(s) => req[s].video # v
      BY <2>1 DEF QueueInv, Fresh, Unique
    <2>3. Worked(v)
      BY <2>1, WorkedDef
    <2>4. \A s \in Reqs : Spawning(s)' => /\ Spawning(s) /\ req'[s] = req[s]
                                          /\ req[s].video # v
      BY <2>1, <2>2 DEF Spawning
    <2> QED
      BY <2>1, <2>2, <2>3, <2>4, HandoverKeeps
  <1> QED
    BY <1>1, <1>2, ClaimKeeps, RecoverKeeps DEF Engages

LEMMA QueueStep ==
    ASSUME NEW d \in Nat, QueueFits(d), TypeInv, TypeInv', StopInv, QueueInv(d), QueueShort(d),
           [Next]_vars
    PROVE  QueueInv(d)'
  <1>1. ASSUME Calm, MuxKept PROVE Unique' /\ Claimed' /\ (Young => Fresh')
    BY <1>1, CalmUnique, CalmClaimed, CalmFresh DEF QueueInv
  <1>2. ASSUME Young, Thins PROVE Line' /\ Timely(d)'
    BY <1>2, ThinsLine, ThinsTimely DEF QueueInv
  <1>3. CASE Passes
    BY <1>1, <1>2, <1>3 DEF Passes, QueueInv
  <1>4. CASE Engages
    BY <1>2, <1>4, EngagesKeeps DEF QueueInv
  <1>5. CASE Tick
    BY <1>1, <1>5, TickKeepsLine DEF QueueInv
  <1>6. CASE \E j \in JobIds : JobQueue(j) \/ JobStart(j)
    BY <1>1, <1>6, JoinKeepsLine, StartKeepsLine DEF QueueInv
  <1> QED
    BY <1>3, <1>4, <1>5, <1>6, Shapes

LEMMA QueueAlways ==
    ASSUME NEW d \in Nat, QueueFits(d)
    PROVE  Spec /\ []QueueShort(d) => []QueueInv(d)
  <1>1. TypeInv /\ TypeInv' /\ StopInv /\ QueueInv(d) /\ QueueShort(d) /\ [Next]_vars => QueueInv(d)'
    BY QueueStep
  <1> QED
    BY <1>1, QueueInit, TypeAlways, StopAlways, PTL DEF Spec
-----------------------------------------------------------------------------
(* The theorems.                                                           *)

LEMMA OneWorker ==
    ASSUME NEW d \in Nat, QueueInv(d), NEW v \in Videos
    PROVE  Cardinality(Workers(v)) <= 1
  <1>1. ASSUME NEW x \in Workers(v), NEW y \in Workers(v) PROVE x = y
    <2>1. ASSUME NEW z \in Workers(v)
          PROVE  \/ \E r \in Reqs : Spawning(r) /\ req[r].video = v /\ z = <<"req", r>>
                 \/ \E j \in JobIds : Alive(j) /\ job[j].video = v /\ z = <<"job", j>>
                 \/ v \in recov /\ z = <<"recovery", v>>
      BY <2>1 DEF Workers, Spawning
    <2>2. CASE \E r \in Reqs : Spawning(r) /\ req[r].video = v /\ x = <<"req", r>>
      BY <2>1, <2>2 DEF QueueInv, Unique
    <2>3. CASE \E j \in JobIds : Alive(j) /\ job[j].video = v /\ x = <<"job", j>>
      BY <2>1, <2>3 DEF QueueInv, Unique
    <2>4. CASE v \in recov /\ x = <<"recovery", v>>
      BY <2>1, <2>4 DEF QueueInv, Unique
    <2> QED
      BY <2>1, <2>2, <2>3, <2>4
  <1>2. CASE Workers(v) = {}
    BY <1>2, FS_EmptySet
  <1>3. ASSUME NEW x \in Workers(v) PROVE Cardinality(Workers(v)) <= 1
    <2>1. Workers(v) = {x}
      BY <1>1, <1>3
    <2>2. Cardinality({x}) = 1
      BY FS_Singleton
    <2> QED
      BY <2>1, <2>2
  <1> QED
    BY <1>2, <1>3

\* As long as the jobs of the recordings queued or running at once, one after
\* the other, fit into the six hours, no recording is ever in the hands of two
\* workers: not of two requests, nor of a request and recovery, nor of recovery
\* and this process's own queue.  Half an hour a job makes that twelve.
THEOREM ShortQueueNoDuplicates ==
    ASSUME NEW d \in Nat, QueueFits(d)
    PROVE  Spec /\ []QueueShort(d) => []NoDuplicateWork
  <1>1. QueueInv(d) => NoDuplicateWork
    BY OneWorker DEF NoDuplicateWork
  <1> QED
    BY <1>1, QueueAlways, PTL

\* A queue is never longer than all recordings.
LEMMA QueueBounded ==
    Cardinality(Videos) \in Nat /\ QueueShort(Cardinality(Videos))
  <1>1. Queued \in SUBSET Videos
    BY DEF Queued
  <1> QED
    BY <1>1, SubsetSmaller DEF QueueShort

LEMMA QueueOfAll ==
    ASSUME QueueFits(Cardinality(Videos))
    PROVE  Spec => []QueueInv(Cardinality(Videos))
  <1>1. Init => QueueInv(Cardinality(Videos))
    BY QueueBounded, QueueInit
  <1>2. TypeInv /\ TypeInv' /\ StopInv /\ QueueInv(Cardinality(Videos)) /\ [Next]_vars =>
            QueueInv(Cardinality(Videos))'
    BY QueueBounded, QueueStep
  <1> QED
    BY <1>1, <1>2, TypeAlways, StopAlways, PTL DEF Spec

\* So where the jobs of all recordings fit, nothing else is needed.
THEOREM NoDuplicates ==
    ASSUME QueueFits(Cardinality(Videos))
    PROVE  Spec => []NoDuplicateWork
  <1>1. QueueInv(Cardinality(Videos)) => NoDuplicateWork
    BY QueueBounded, OneWorker DEF NoDuplicateWork
  <1> QED
    BY <1>1, QueueOfAll, PTL

LEMMA CompleteStays ==
    ASSUME NEW d \in Nat, TypeInv, QueueInv(d), [Next]_vars, NEW v \in Videos, mux[v] = "complete"
    PROVE  mux'[v] = "complete"
  <1> USE DEF rowVars
  <1>1. ~Worked(v)
    BY DEF QueueInv, Claimed
  <1>2. /\ \A r \in Reqs : Spawning(r) => req[r].video # v
        /\ \A j \in JobIds : Alive(j) => job[j].video # v
        /\ v \notin recov
    BY <1>1, WorkedDef DEF Spawning
  <1>3. ASSUME NEW r \in Reqs, CompleteClaim(r) PROVE mux'[v] = mux[v]
    BY <1>3, SetMuxYoung DEF CompleteClaim, Claimable
  <1>4. ASSUME NEW r \in Reqs, CompleteSpawn(r) PROVE mux'[v] = mux[v]
    BY <1>2, <1>4, SetMuxYoung DEF CompleteSpawn, SetMuxError, Spawning
  <1>5. CASE RecoverClaim
    <2>1. v \notin FirstBatch(Candidates)
      BY DEF FirstBatch, Candidates
    <2>2. SetMux(FirstBatch(Candidates), "processing")
      BY <1>5 DEF RecoverClaim
    <2> QED
      BY <2>1, <2>2, SetMuxYoung
  <1>6. ASSUME NEW w \in Videos, RecoverSpawn(w) PROVE mux'[v] = mux[v]
    BY <1>2, <1>6, SetMuxYoung DEF RecoverSpawn, SetMuxError
  <1>7. ASSUME NEW j \in JobIds, JobStep(j) PROVE mux'[v] = mux[v]
    <2>1. CASE JobMark(j) \/ JobFail(j)
      BY <1>2, <2>1, SetMuxYoung DEF JobMark, JobFail, SetMuxError, Alive
    <2>2. CASE JobQueue(j) \/ JobStart(j) \/ JobMuxFails(j) \/ JobPublish(j)
      BY <2>2 DEF JobQueue, JobStart, JobMuxFails, JobPublish
    <2> QED
      BY <1>7, <2>1, <2>2 DEF JobStep
  <1>8. ASSUME NEW t \in JobIds \X Videos, StopAbort(t) \/ StopMark(t) PROVE mux'[v] = mux[v]
    BY <1>8, TypeParts DEF StopAbort, StopMark, RowTypes
  <1>9. CASE UNCHANGED vars
    BY <1>9 DEF vars
  <1> QED
    BY <1>3, <1>4, <1>5, <1>6, <1>7, <1>8, <1>9
       DEF Next, Handler, Recovery, StopStep, CompleteCheck, CompleteDropped, StopSignal,
           StopFlag, StopTake, StopDeadline, StopExit, Crash, Boot, RetryCreate, OwnerEdit,
           Tick, Older

\* 'complete' is never taken back: neither a failing duplicate, nor recovery,
\* nor shutdown turns a finished recording into a failed one.
CompleteIsFinal ==
    [][\A v \in Videos : mux[v] = "complete" => mux'[v] = "complete"]_vars

\* As long as the queue is that short, set_mux_error, which has no condition,
\* never meets a complete recording, and neither do recovery and shutdown.
THEOREM ShortQueueCompleteFinal ==
    ASSUME NEW d \in Nat, QueueFits(d)
    PROVE  Spec /\ []QueueShort(d) => CompleteIsFinal
  <1>1. TypeInv /\ QueueInv(d) /\ [Next]_vars =>
            [\A v \in Videos : mux[v] = "complete" => mux'[v] = "complete"]_vars
    BY CompleteStays
  <1> QED
    BY <1>1, TypeAlways, QueueAlways, PTL DEF Spec, CompleteIsFinal

THEOREM CompleteFinal ==
    ASSUME QueueFits(Cardinality(Videos))
    PROVE  Spec => CompleteIsFinal
  <1>1. TypeInv /\ QueueInv(Cardinality(Videos)) /\ [Next]_vars =>
            [\A v \in Videos : mux[v] = "complete" => mux'[v] = "complete"]_vars
    BY QueueBounded, CompleteStays
  <1> QED
    BY <1>1, TypeAlways, QueueOfAll, PTL DEF Spec, CompleteIsFinal
-----------------------------------------------------------------------------
(* Refinement: MuxJobs implements MuxContract.                             *)

\* A task's recording is claimed even while a shutdown fails the others, what
\* a recovery pass took was claimed, and no recording is twice on the list
\* that a shutdown goes through.
TasksClaimed == \A j \in JobIds : Alive(j) => mux[job[j].video] = "processing"
PassClaimed == \A v \in recov : mux[v] # "null"
ListedOnce == \A s, t \in taken : s[2] = t[2] => s = t

HoldInv == TasksClaimed /\ PassClaimed /\ ListedOnce

LEMMA HoldInit == Init => HoldInv
  BY DEF Init, HoldInv, TasksClaimed, PassClaimed, ListedOnce, Alive, NoJob

\* Steps that make no task, and fail no recording that has one.
LEMMA HoldKept ==
    ASSUME TypeInv, HoldInv, NoNewTask, recov' \subseteq recov, taken' \subseteq taken,
           \A v \in Videos : mux'[v] = "null" => mux[v] = "null",
           \A j \in JobIds : Alive(j)' => mux'[job[j].video] = mux[job[j].video]
    PROVE  HoldInv'
  <1>1. \A j \in JobIds : Alive(j) => mux[job[j].video] = "processing"
    BY DEF HoldInv, TasksClaimed
  <1>2. TasksClaimed'
    BY <1>1 DEF TasksClaimed, NoNewTask
  <1>3. recov \subseteq Videos
    BY TypeParts DEF RecovTypes
  <1> QED
    BY <1>2, <1>3 DEF HoldInv, PassClaimed, ListedOnce

\* A claim becomes a task.
LEMMA HoldSpawn ==
    ASSUME TypeInv, HoldInv, NEW v \in Videos, Spawn(v), mux[v] = "processing",
           recov' \subseteq recov, UNCHANGED <<mux, taken>>
    PROVE  HoldInv'
  <1>1. PICK j \in JobIds : job' = [job EXCEPT ![j] = [pc |-> "new", video |-> v, ran |-> 0]]
    BY DEF Spawn
  <1>2. /\ job'[j].video = v
        /\ \A i \in JobIds \ {j} : job'[i] = job[i]
    BY <1>1, TypeParts DEF JobTypes
  <1> QED
    BY <1>2 DEF HoldInv, TasksClaimed, PassClaimed, ListedOnce, Alive

\* A job's last UPDATEs do not touch the recordings of other tasks.
LEMMA HoldJob ==
    ASSUME NEW d \in Nat, TypeInv, QueueInv(d), HoldInv, NEW j \in JobIds, JobStep(j)
    PROVE  HoldInv'
  <1>1. NoNewTask /\ UNCHANGED <<taken, recov>>
    BY JobStepTasks
  <1>2. CASE UNCHANGED mux
    BY <1>1, <1>2, HoldKept
  <1>3. ASSUME NEW s \in {"complete", "error"}, SetMux({job[j].video}, s), ~Alive(j)', Alive(j)
        PROVE  HoldInv'
    <2>1. \A v \in Videos : v # job[j].video => mux'[v] = mux[v]
      BY <1>3, SetMuxYoung
    <2>2. \A v \in Videos : mux'[v] = "null" => mux[v] = "null"
      BY <1>3, SetMuxYoung
    <2>3. ASSUME NEW i \in JobIds, Alive(i)'
          PROVE  mux'[job[i].video] = mux[job[i].video]
      <3>1. Alive(i) /\ i # j /\ job[i].video \in Videos
        BY <1>1, <1>3, <2>3, TypeParts DEF NoNewTask, JobTypes
      <3>2. job[i].video # job[j].video
        BY <1>3, <3>1 DEF QueueInv, Unique
      <3> QED
        BY <2>1, <3>1, <3>2
    <2> QED
      BY <1>1, <2>2, <2>3, HoldKept
  <1>4. job' = [job EXCEPT ![j] = NoJob] => ~Alive(j)'
    BY EmptySlots, TypeParts DEF JobTypes, Alive
  <1>5. CASE JobMark(j)
    <2>1. Alive(j)
      BY <1>5 DEF JobMark, Alive
    <2> QED
      BY <1>2, <1>3, <1>4, <1>5, <2>1 DEF JobMark, rowVars
  <1>6. CASE JobFail(j)
    <2>1. Alive(j)
      BY <1>6 DEF JobFail, Alive
    <2> QED
      BY <1>2, <1>3, <1>4, <1>6, <2>1 DEF JobFail, SetMuxError
  <1> QED
    BY <1>2, <1>5, <1>6 DEF JobStep, JobQueue, JobStart, JobMuxFails, JobPublish, rowVars

\* Whom a shutdown has aborted is the only task of the recording it marks failed.
LEMMA MarkFacts ==
    ASSUME TypeInv, StopInv, HoldInv, NEW t \in JobIds \X Videos, StopMark(t)
    PROVE  /\ t[1] \in JobIds /\ t[2] \in Videos
           /\ ~Alive(t[1])' /\ \A i \in JobIds \ {t[1]} : job'[i] = job[i]
           /\ \A i \in JobIds : Alive(i) => (job[i].video = t[2] <=> i = t[1])
           /\ UNCHANGED <<req, recov, result, server>> /\ taken' \subseteq taken
  <1>1. /\ server = "aborting" /\ t \in taken
        /\ job' = [job EXCEPT ![t[1]] = NoJob]
        /\ UNCHANGED <<req, recov, result, server>> /\ taken' \subseteq taken
    BY DEF StopMark, Leftover, recovVars
  <1>2. ~Alive(t[1])' /\ \A i \in JobIds \ {t[1]} : job'[i] = job[i]
    BY <1>1, EmptySlots, TypeParts DEF JobTypes, Alive
  <1>3. ASSUME NEW i \in JobIds, Alive(i)
        PROVE  job[i].video = t[2] <=> i = t[1]
    <2>1. <<i, job[i].video>> \in taken
      BY <1>1, <1>3 DEF StopInv, Listed
    <2>2. job[i].video = t[2] => <<i, job[i].video>> = t
      BY <1>1, <2>1 DEF HoldInv, ListedOnce
    <2>3. i = t[1] => job[i].video = t[2]
      BY <1>1, <1>3 DEF StopInv, Listed
    <2> QED
      BY <2>2, <2>3
  <1> QED
    BY <1>1, <1>2, <1>3

\* UPDATE ... WHERE mux_status = 'processing' of one recording.
LEMMA MarkMux ==
    ASSUME TypeInv, NEW t \in JobIds \X Videos, StopMark(t)
    PROVE  \/ /\ mux[t[2]] = "processing"
              /\ mux' = [mux EXCEPT ![t[2]] = "error"]
           \/ UNCHANGED mux
  BY TypeParts DEF StopMark, RowTypes

LEMMA HoldMark ==
    ASSUME TypeInv, StopInv, HoldInv, NEW t \in JobIds \X Videos, StopMark(t)
    PROVE  HoldInv'
  <1>1. NoNewTask
    BY MarkFacts DEF NoNewTask, Alive
  <1>2. \A v \in Videos : mux'[v] = "null" => mux[v] = "null"
    BY MarkMux, TypeParts DEF RowTypes
  <1>3. ASSUME NEW i \in JobIds, Alive(i)'
        PROVE  mux'[job[i].video] = mux[job[i].video]
    <2>1. Alive(i) /\ i # t[1] /\ job[i].video \in Videos
      BY <1>1, <1>3, MarkFacts, TypeParts DEF NoNewTask, JobTypes
    <2>2. job[i].video # t[2]
      BY <2>1, MarkFacts
    <2> QED
      BY <2>1, <2>2, MarkMux, TypeParts DEF RowTypes
  <1> QED
    BY <1>1, <1>2, <1>3, MarkFacts, HoldKept

LEMMA HoldStep ==
    ASSUME NEW d \in Nat, TypeInv, StopInv, QueueInv(d), HoldInv, [Next]_vars
    PROVE  HoldInv'
  <1> USE DEF rowVars, recovVars, jobVars, taskVars
  <1>1. UNCHANGED job => NoNewTask
    BY DEF NoNewTask, Alive
  <1>2. ASSUME UNCHANGED mux, NoNewTask, recov' \subseteq recov, taken' \subseteq taken
        PROVE  HoldInv'
    BY <1>2, HoldKept
  <1>3. ASSUME NEW r \in Reqs, (\E v \in Videos : CompleteCheck(r, v)) \/ CompleteDropped(r)
        PROVE  HoldInv'
    BY <1>1, <1>2, <1>3 DEF CompleteCheck, CompleteDropped
  <1>4. ASSUME NEW V \in SUBSET Videos, SetMux(V, "processing"), UNCHANGED <<job, taken>>,
               recov' \subseteq recov \cup V
        PROVE  HoldInv'
    <2>1. \A v \in Videos : /\ mux'[v] = mux[v] \/ mux'[v] = "processing"
                            /\ v \in V => mux'[v] = "processing"
      BY <1>4, SetMuxYoung
    <2>2. \A j \in JobIds : Alive(j) => job[j].video \in Videos
      BY TypeParts DEF JobTypes
    <2>3. TasksClaimed'
      BY <1>4, <2>1, <2>2 DEF HoldInv, TasksClaimed, Alive
    <2>4. recov \subseteq Videos
      BY TypeParts DEF RecovTypes
    <2> QED
      BY <1>4, <2>1, <2>3, <2>4 DEF HoldInv, PassClaimed, ListedOnce
  <1>5. ASSUME NEW r \in Reqs, CompleteClaim(r)
        PROVE  HoldInv'
    <2>1. CASE Claimable(req[r].video)
      <3>1. {req[r].video} \in SUBSET Videos
        BY <1>5, TypeParts DEF CompleteClaim, ReqTypes
      <3> QED
        BY <1>4, <1>5, <2>1, <3>1 DEF CompleteClaim
    <2>2. CASE ~Claimable(req[r].video)
      BY <1>1, <1>2, <1>5, <2>2 DEF CompleteClaim
    <2> QED
      BY <2>1, <2>2
  <1>6. ASSUME NEW r \in Reqs, CompleteSpawn(r)
        PROVE  HoldInv'
    <2>1. ~ShuttingDown
      BY <1>6 DEF CompleteSpawn, StopInv, Drained, NoReq
    <2>2. req[r].video \in Videos /\ Worked(req[r].video)
      BY <1>6, TypeParts, WorkedDef DEF CompleteSpawn, ReqTypes
    <2>3. mux[req[r].video] = "processing"
      BY <2>1, <2>2 DEF QueueInv, Claimed
    <2> QED
      BY <1>6, <2>1, <2>2, <2>3, HoldSpawn DEF CompleteSpawn
  <1>7. ASSUME NEW j \in JobIds, JobStep(j)
        PROVE  HoldInv'
    BY <1>7, HoldJob
  <1>8. CASE RecoverClaim
    <2>1. FirstBatch(Candidates) \in SUBSET Videos
      BY DEF FirstBatch, Candidates
    <2> QED
      BY <1>4, <1>8, <2>1 DEF RecoverClaim
  <1>9. ASSUME NEW v \in Videos, RecoverSpawn(v)
        PROVE  HoldInv'
    <2>1. CASE ShuttingDown
      <3>0. /\ SetMux({v}, "error") \/ UNCHANGED mux
            /\ UNCHANGED <<job, taken>> /\ recov' \subseteq recov
        BY <1>9, <2>1 DEF RecoverSpawn, SetMuxError
      <3>1. \A w \in Videos : mux'[w] = mux[w] \/ (w = v /\ mux'[w] = "error")
        BY <3>0, SetMuxYoung
      <3>2. \A j \in JobIds : Alive(j) => job[j].video \in Videos /\ job[j].video # v
        BY <1>9, TypeParts DEF RecoverSpawn, QueueInv, Unique, JobTypes
      <3>3. \A w \in Videos : /\ w # v => mux'[w] = mux[w]
                              /\ mux'[w] = "null" => mux[w] = "null"
        BY <3>1
      <3>4. \A j \in JobIds : Alive(j)' => mux'[job[j].video] = mux[job[j].video]
        BY <3>0, <3>2, <3>3 DEF Alive
      <3> QED
        BY <1>1, <3>0, <3>3, <3>4, HoldKept
    <2>2. CASE ~ShuttingDown
      <3>1. Worked(v)
        BY <1>9, WorkedDef DEF RecoverSpawn
      <3>2. mux[v] = "processing"
        BY <2>2, <3>1 DEF QueueInv, Claimed
      <3> QED
        BY <1>9, <2>2, <3>2, HoldSpawn DEF RecoverSpawn
    <2> QED
      BY <2>1, <2>2
  <1>10. CASE StopSignal \/ StopFlag \/ StopDeadline \/ Boot
    BY <1>1, <1>2, <1>10 DEF StopSignal, StopFlag, StopDeadline, Boot
  <1>11. CASE StopTake
    <2>1. taken' = {<<j, job[j].video>> : j \in {i \in JobIds : Alive(i)}} /\ UNCHANGED <<job, recov, mux>>
      BY <1>11 DEF StopTake
    <2>2. ListedOnce'
      BY <2>1 DEF ListedOnce, QueueInv, Unique
    <2> QED
      BY <2>1, <2>2 DEF HoldInv, TasksClaimed, PassClaimed, Alive
  <1>12. ASSUME NEW t \in JobIds \X Videos, StopAbort(t) \/ StopMark(t)
         PROVE  HoldInv'
    BY <1>2, <1>12, AbortTasks, HoldMark DEF StopAbort
  <1>13. CASE StopExit \/ Crash
    <2>1. NoNewTask
      BY <1>13, EmptySlots DEF StopExit, Crash, Down, NoNewTask, Alive
    <2> QED
      BY <1>2, <1>13, <2>1 DEF StopExit, Crash, Down
  <1>14. ASSUME NEW v \in Videos, RetryCreate(v) \/ OwnerEdit(v)
         PROVE  HoldInv'
    BY <1>1, <1>2, <1>14 DEF RetryCreate, OwnerEdit
  <1>15. CASE Tick
    <2>1. NoNewTask
      BY <1>15, TickTasks DEF NoNewTask, Alive
    <2> QED
      BY <1>2, <1>15, <2>1 DEF Tick, Older
  <1>16. CASE UNCHANGED vars
    BY <1>1, <1>2, <1>16 DEF vars
  <1> QED
    BY <1>3, <1>5, <1>6, <1>7, <1>8, <1>9, <1>10, <1>11, <1>12, <1>13, <1>14, <1>15, <1>16
       DEF Next, Handler, Recovery, StopStep

\* The mapping.
LEMMA ContractInitial == Init => Contract!ContractInit
  <1> SUFFICES ASSUME Init PROVE Contract!ContractInit
    OBVIOUS
  <1>1. \A v \in Videos : ~Worked(v)
    BY WorkedDef DEF Init, NoReq, NoJob, Alive
  <1> QED
    BY <1>1 DEF Init, Contract!ContractInit, Held

\* A step that says nothing of any recording and begins no work loses claims,
\* or is a stutter.
LEMMA Quiet ==
    ASSUME UNCHANGED <<mux, result>>, \A v \in Videos : Worked(v)' => Worked(v)
    PROVE  Contract!ContractNext
  <1> DEFINE V == Held \ Held'
  <1>1. Held' = Held \ V /\ V \in SUBSET Videos
    BY DEF Held
  <1>2. Contract!Lose(V)
    BY <1>1 DEF Contract!Lose
  <1> QED
    BY <1>1, <1>2 DEF Contract!ContractNext

\* Steps after which the workers are ones that worked before.
LEMMA NoNewWorker ==
    ASSUME NoNewTask, recov' \subseteq recov,
           \A r \in Reqs : req'[r].pc = "spawn" => req'[r] = req[r]
    PROVE  \A v \in Videos : Worked(v)' => Worked(v)
  BY WorkedDef, WorkedDefNext DEF NoNewTask

\* One recording is marked failed.
LEMMA Fails ==
    ASSUME NEW v \in Videos, mux[v] = "processing", mux' = [mux EXCEPT ![v] = "error"],
           UNCHANGED result, \A w \in Videos : Worked(w)' => Worked(w),
           \A w \in Videos \ {v} : Worked(w) => Worked(w)'
    PROVE  Contract!ContractNext
  <1>1. Held' \in {Held, Held \ {v}}
    BY DEF Held
  <1>2. Contract!Fail(v)
    BY <1>1 DEF Contract!Fail
  <1> QED
    BY <1>2 DEF Contract!ContractNext

\* UPDATE of one recording's status, as a step of the status function.
LEMMA SetMuxOne ==
    ASSUME TypeInv, NEW v \in Videos, NEW s, SetMux({v}, s)
    PROVE  mux' = [mux EXCEPT ![v] = s]
  BY TypeParts DEF RowTypes, SetMux

LEMMA ClaimImplements ==
    ASSUME NEW d \in Nat, TypeInv, StopInv, QueueInv(d), NEW r \in Reqs, CompleteClaim(r)
    PROVE  Contract!ContractNext
  <1> DEFINE v == req[r].video
  <1> USE DEF recovVars, jobVars
  <1>1. /\ v \in Videos /\ UNCHANGED <<job, recov, result>>
        /\ \A s \in Reqs \ {r} : req'[s] = req[s]
    BY TypeParts DEF CompleteClaim, ReqTypes
  <1>2. CASE Claimable(v)
    <2>1. /\ req'[r].pc = "spawn" /\ req'[r].video = v
          /\ SetMux({v}, "processing")
          /\ req[r].pc = "claim"
      BY <1>2, TypeParts DEF CompleteClaim, ReqTypes, Handlers
    <2>2. ~Worked(v)
      <3>1. ~ShuttingDown
        BY <2>1 DEF StopInv, Drained, NoReq
      <3>2. mux[v] # "processing"
        BY <1>2 DEF Claimable
      <3> QED
        BY <1>1, <3>1, <3>2 DEF QueueInv, Claimed
    <2>3. \A w \in Videos : Worked(w)' <=> Worked(w) \/ w = v
      BY <1>1, <2>1, WorkedDef, WorkedDefNext DEF Alive
    <2>4. /\ Held' = Held \cup {v} /\ v \notin Held
          /\ mux[v] # "complete"
      BY <1>1, <1>2, <2>2, <2>3 DEF Held, Claimable
    <2>5. Contract!Claim({v})
      BY <1>1, <2>1, <2>4 DEF Contract!Claim, SetMux
    <2> QED
      BY <1>1, <2>5 DEF Contract!ContractNext
  <1>3. CASE ~Claimable(v)
    <2>1. UNCHANGED mux /\ req'[r].pc = "idle"
      BY <1>3, EmptySlots, TypeParts DEF CompleteClaim, ReqTypes
    <2>2. NoNewTask
      BY <1>1 DEF NoNewTask, Alive
    <2> QED
      BY <1>1, <2>1, <2>2, NoNewWorker, Quiet
  <1> QED
    BY <1>2, <1>3

LEMMA RecoverImplements ==
    ASSUME NEW d \in Nat, QueueFits(d), TypeInv, StopInv, QueueInv(d), RecoverClaim
    PROVE  Contract!ContractNext
  <1>1. /\ recov = {}
        /\ recov' \subseteq Candidates
        /\ SetMux(recov', "processing")
        /\ UNCHANGED <<job, req, result>>
    BY DEF RecoverClaim, StopInv, Rested, FirstBatch, jobVars
  <1>2. ASSUME NEW v \in recov' PROVE v \in Videos /\ ~Worked(v) /\ mux[v] # "complete"
    <2>1. v \in Videos /\ age[v] > StaleAge /\ mux[v] # "complete"
      BY <1>1, <1>2 DEF Candidates
    <2>2. ~(age[v] <= Limit(d))
      BY <2>1, AgeType, LimitType, ConstantsAssumption DEF QueueFits
    <2> QED
      BY <1>1, <2>1, <2>2, WorkedIsYoung
  <1>3. \A w \in Videos : Worked(w)' <=> Worked(w) \/ w \in recov'
    BY <1>1, WorkedDef, WorkedDefNext DEF Alive
  <1>4. Held' = Held \cup recov' /\ recov' \in SUBSET Videos
    BY <1>2, <1>3 DEF Held
  <1>5. Contract!Claim(recov')
    BY <1>1, <1>2, <1>4 DEF Contract!Claim, SetMux, Held
  <1> QED
    BY <1>4, <1>5 DEF Contract!ContractNext

LEMMA JobImplements ==
    ASSUME NEW d \in Nat, TypeInv, QueueInv(d), ResultInv, HoldInv, NEW j \in JobIds, JobStep(j)
    PROVE  Contract!ContractNext
  <1> USE DEF rowVars
  <1>0. Alive(j)
    BY DEF JobStep, JobQueue, JobStart, JobMuxFails, JobPublish, JobMark, JobFail, Waiting, Alive
  <1>v. PICK v \in Videos : job[j].video = v
    BY <1>0, TypeParts DEF JobTypes
  <1>1. /\ NoNewTask /\ UNCHANGED <<req, recov>>
        /\ \A i \in JobIds \ {j} : job'[i] = job[i]
    BY JobStepTasks
  <1>2. \A w \in Videos : Worked(w)' => Worked(w)
    BY <1>1, NoNewWorker
  <1>3. CASE UNCHANGED <<mux, result>>
    BY <1>2, <1>3, Quiet
  <1>4. /\ Worked(v) /\ mux[v] = "processing"
        /\ \A i \in JobIds \ {j} : Alive(i) => job[i].video # v
        /\ v \notin recov
        /\ \A r \in Reqs : req[r].pc = "spawn" => req[r].video # v
    BY <1>0, <1>v, WorkedDef DEF HoldInv, TasksClaimed, QueueInv, Unique, Spawning
  <1>5. job' = [job EXCEPT ![j] = NoJob] => ~Alive(j)'
    BY EmptySlots, TypeParts DEF JobTypes, Alive
  <1>6. ASSUME ~Alive(j)'
        PROVE  /\ ~Worked(v)'
               /\ \A w \in Videos \ {v} : Worked(w) => Worked(w)'
    BY <1>1, <1>4, <1>6, WorkedDef, WorkedDefNext DEF NoNewTask, Alive
  <1>7. CASE JobPublish(j)
    <2>1. /\ UNCHANGED mux
          /\ result' = [result EXCEPT ![v] = TRUE]
          /\ job' = [job EXCEPT ![j].pc = "mark"]
      BY <1>7, <1>v DEF JobPublish
    <2>2. Alive(j)' /\ job'[j].video = v
      BY <2>1, <1>v, TypeParts DEF JobTypes, Slot, Alive
    <2>3. \A w \in Videos : Worked(w) => Worked(w)'
      BY <1>1, <1>v, <2>2, WorkedDef, WorkedDefNext DEF Alive
    <2>4. Held' = Held
      BY <1>2, <2>3 DEF Held
    <2>5. Contract!Publish(v)
      BY <1>4, <2>1, <2>4 DEF Contract!Publish, Held
    <2> QED
      BY <1>4, <2>1, <2>5 DEF Contract!ContractNext
  <1>8. ASSUME JobMark(j), SetMux({v}, "complete"), job' = [job EXCEPT ![j] = NoJob]
        PROVE  Contract!ContractNext
    <2>1. result[v] /\ UNCHANGED result
      BY <1>8, <1>v DEF JobMark, ResultInv, Published
    <2>2. Held' = Held \ {v}
      BY <1>2, <1>5, <1>6, <1>8, <2>1 DEF Held
    <2>3. mux' = [mux EXCEPT ![v] = "complete"]
      BY <1>4, <1>8, <2>1, SetMuxOne
    <2>4. Contract!Complete(v)
      BY <1>4, <2>1, <2>2, <2>3 DEF Contract!Complete, Held
    <2> QED
      BY <1>4, <2>1, <2>4 DEF Contract!ContractNext
  <1>9. ASSUME JobFail(j), SetMux({v}, "error")
        PROVE  Contract!ContractNext
    <2>1. UNCHANGED result /\ ~Alive(j)'
      BY <1>5, <1>9 DEF JobFail
    <2>2. mux' = [mux EXCEPT ![v] = "error"]
      BY <1>4, <1>9, <2>1, SetMuxOne
    <2> QED
      BY <1>2, <1>4, <1>6, <2>1, <2>2, Fails
  <1> QED
    BY <1>3, <1>7, <1>8, <1>9, <1>v
       DEF JobStep, JobQueue, JobStart, JobMuxFails, JobMark, JobFail, SetMuxError

\* Handing a claim over to a task, or failing it when shutdown refuses that.
LEMMA SpawnImplements ==
    ASSUME TypeInv, NEW v \in Videos, Worked(v), Spawn(v), UNCHANGED <<mux, result>>,
           recov' \subseteq recov, \A r \in Reqs : req'[r].pc = "spawn" => req'[r] = req[r]
    PROVE  Contract!ContractNext
  <1>1. PICK j \in JobIds : job' = [job EXCEPT ![j] = [pc |-> "new", video |-> v, ran |-> 0]]
    BY DEF Spawn
  <1>2. /\ job'[j].video = v
        /\ \A i \in JobIds \ {j} : job'[i] = job[i]
    BY <1>1, TypeParts DEF JobTypes
  <1>3. \A w \in Videos : Worked(w)' => Worked(w)
    BY <1>2, WorkedDef, WorkedDefNext DEF Alive
  <1> QED
    BY <1>3, Quiet

LEMMA RefusalImplements ==
    ASSUME NEW d \in Nat, TypeInv, QueueInv(d), HoldInv,
           NEW v \in Videos, RecoverSpawn(v), ShuttingDown
    PROVE  Contract!ContractNext
  <1>1. /\ v \in recov /\ recov' = recov \ {v}
        /\ SetMux({v}, "error") \/ UNCHANGED mux
        /\ UNCHANGED <<job, req, result>>
    BY DEF RecoverSpawn, SetMuxError, jobVars
  <1>2. \A w \in Videos : Worked(w)' => Worked(w)
    BY <1>1, NoNewWorker DEF NoNewTask, Alive
  <1>3. mux' = [mux EXCEPT ![v] = "error"] \/ UNCHANGED mux
    BY <1>1, SetMuxOne
  <1>4. CASE mux[v] = "processing" /\ mux' = [mux EXCEPT ![v] = "error"]
    <2>1. \A w \in Videos \ {v} : Worked(w) => Worked(w)'
      BY <1>1, WorkedDef, WorkedDefNext DEF Alive
    <2> QED
      BY <1>1, <1>2, <1>4, <2>1, Fails
  <1>5. CASE mux[v] # "processing"
    <2>1. Worked(v)
      BY <1>1, WorkedDef
    <2>2. mux[v] # "complete" /\ mux[v] # "null"
      BY <1>1, <2>1 DEF QueueInv, Claimed, HoldInv, PassClaimed
    <2>3. UNCHANGED mux
      BY <1>3, <1>5, <2>2, TypeParts DEF RowTypes
    <2> QED
      BY <1>1, <1>2, <2>3, Quiet
  <1>6. CASE UNCHANGED mux
    BY <1>1, <1>2, <1>6, Quiet
  <1> QED
    BY <1>3, <1>4, <1>5, <1>6

LEMMA MarkImplements ==
    ASSUME TypeInv, StopInv, HoldInv, NEW t \in JobIds \X Videos, StopMark(t)
    PROVE  Contract!ContractNext
  <1>1. \A w \in Videos : Worked(w)' => Worked(w)
    BY MarkFacts, NoNewWorker DEF NoNewTask, Alive
  <1>2. CASE UNCHANGED mux
    BY <1>1, <1>2, MarkFacts, Quiet
  <1>3. CASE mux[t[2]] = "processing" /\ mux' = [mux EXCEPT ![t[2]] = "error"]
    <2>1. \A w \in Videos \ {t[2]} : Worked(w) => Worked(w)'
      BY MarkFacts, WorkedDef, WorkedDefNext DEF Alive
    <2> QED
      BY <1>1, <1>3, <2>1, MarkFacts, Fails
  <1> QED
    BY <1>2, <1>3, MarkMux

LEMMA MuxContractStep ==
    ASSUME NEW d \in Nat, QueueFits(d), TypeInv, StopInv, ResultInv, QueueInv(d), HoldInv, [Next]_vars
    PROVE  [Contract!ContractNext]_(Contract!contractVars)
  <1> USE DEF rowVars, recovVars, jobVars, taskVars
  <1>1. ASSUME UNCHANGED <<mux, result>>, NoNewTask, recov' \subseteq recov,
               \A r \in Reqs : req'[r].pc = "spawn" => req'[r] = req[r]
        PROVE  Contract!ContractNext
    BY <1>1, NoNewWorker, Quiet
  <1>2. UNCHANGED job => NoNewTask
    BY DEF NoNewTask, Alive
  <1>3. ASSUME NEW r \in Reqs, (\E v \in Videos : CompleteCheck(r, v)) \/ CompleteDropped(r)
        PROVE  Contract!ContractNext
    <2>1. \A s \in Reqs : req'[s].pc = "spawn" => req'[s] = req[s]
      BY <1>3, EmptySlots, TypeParts DEF CompleteCheck, CompleteDropped, ReqTypes
    <2> QED
      BY <1>1, <1>2, <1>3, <2>1 DEF CompleteCheck, CompleteDropped
  <1>4. ASSUME NEW r \in Reqs, CompleteClaim(r)
        PROVE  Contract!ContractNext
    BY <1>4, ClaimImplements
  <1>5. ASSUME NEW r \in Reqs, CompleteSpawn(r)
        PROVE  Contract!ContractNext
    <2>1. ~ShuttingDown
      BY <1>5 DEF CompleteSpawn, StopInv, Drained, NoReq
    <2>2. req[r].video \in Videos /\ Worked(req[r].video)
      BY <1>5, TypeParts, WorkedDef DEF CompleteSpawn, ReqTypes
    <2>3. \A s \in Reqs : req'[s].pc = "spawn" => req'[s] = req[s]
      BY <1>5, EmptySlots, TypeParts DEF CompleteSpawn, ReqTypes
    <2> QED
      BY <1>5, <2>1, <2>2, <2>3, SpawnImplements DEF CompleteSpawn
  <1>6. ASSUME NEW j \in JobIds, JobStep(j)
        PROVE  Contract!ContractNext
    BY <1>6, JobImplements
  <1>7. CASE RecoverClaim
    BY <1>7, RecoverImplements
  <1>8. ASSUME NEW v \in Videos, RecoverSpawn(v)
        PROVE  Contract!ContractNext
    <2>1. CASE ShuttingDown
      BY <1>8, <2>1, RefusalImplements
    <2>2. CASE ~ShuttingDown
      <3>1. Worked(v)
        BY <1>8, WorkedDef DEF RecoverSpawn
      <3> QED
        BY <1>8, <2>2, <3>1, SpawnImplements DEF RecoverSpawn
    <2> QED
      BY <2>1, <2>2
  <1>9. CASE StopSignal \/ StopFlag \/ StopTake \/ StopDeadline \/ Boot
    BY <1>1, <1>2, <1>9 DEF StopSignal, StopFlag, StopTake, StopDeadline, Boot
  <1>10. ASSUME NEW t \in JobIds \X Videos, StopAbort(t) \/ StopMark(t)
         PROVE  Contract!ContractNext
    BY <1>1, <1>10, AbortTasks, MarkImplements DEF StopAbort
  <1>11. CASE StopExit \/ Crash
    <2>1. NoNewTask /\ \A r \in Reqs : req'[r].pc # "spawn"
      BY <1>11, EmptySlots DEF StopExit, Crash, Down, NoNewTask, Alive
    <2> QED
      BY <1>1, <1>11, <2>1 DEF StopExit, Crash, Down
  <1>12. ASSUME NEW v \in Videos, RetryCreate(v) \/ OwnerEdit(v)
         PROVE  Contract!ContractNext
    BY <1>1, <1>2, <1>12 DEF RetryCreate, OwnerEdit
  <1>13. CASE Tick
    <2>1. NoNewTask
      BY <1>13, TickTasks DEF NoNewTask, Alive
    <2> QED
      BY <1>1, <1>13, <2>1 DEF Tick, Older
  <1>14. CASE UNCHANGED vars
    BY <1>1, <1>2, <1>14 DEF vars
  <1> QED
    BY <1>3, <1>4, <1>5, <1>6, <1>7, <1>8, <1>9, <1>10, <1>11, <1>12, <1>13, <1>14
       DEF Next, Handler, Recovery, StopStep

\* As long as the queue is short enough for the six hours, recordings go
\* through their claims as MuxContract says, whatever requests, recovery,
\* crashes and shutdowns do.
THEOREM ShortQueueImplements ==
    ASSUME NEW d \in Nat, QueueFits(d)
    PROVE  Spec /\ []QueueShort(d) => ImplementsMuxContract
  <1>1. TypeInv /\ StopInv /\ QueueInv(d) /\ HoldInv /\ [Next]_vars => HoldInv'
    BY HoldStep
  <1>2. /\ TypeInv /\ StopInv /\ ResultInv /\ QueueInv(d) /\ HoldInv /\ [Next]_vars
        => [Contract!ContractNext]_(Contract!contractVars)
    BY MuxContractStep
  <1> QED
    BY <1>1, <1>2, HoldInit, ContractInitial, TypeAlways, StopAlways, ResultAlways, QueueAlways, PTL
       DEF Spec, ImplementsMuxContract, Contract!ContractSpec

THEOREM MuxContractImplemented ==
    ASSUME QueueFits(Cardinality(Videos))
    PROVE  Spec => ImplementsMuxContract
  <1>1. TypeInv /\ StopInv /\ QueueInv(Cardinality(Videos)) /\ HoldInv /\ [Next]_vars => HoldInv'
    BY QueueBounded, HoldStep
  <1>2. /\ TypeInv /\ StopInv /\ ResultInv /\ QueueInv(Cardinality(Videos)) /\ HoldInv /\ [Next]_vars
        => [Contract!ContractNext]_(Contract!contractVars)
    BY QueueBounded, MuxContractStep
  <1> QED
    BY <1>1, <1>2, HoldInit, ContractInitial, TypeAlways, StopAlways, ResultAlways, QueueOfAll, PTL
       DEF Spec, ImplementsMuxContract, Contract!ContractSpec
=============================================================================
