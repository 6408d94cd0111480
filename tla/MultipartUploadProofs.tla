------------------------ MODULE MultipartUploadProofs ------------------------
(***************************************************************************)
(* Theorems about MultipartUpload, for any number of uploads, handlers,    *)
(* parts, sizes and faults.                                                *)
(***************************************************************************)
EXTENDS MultipartUpload, TLAPS

-----------------------------------------------------------------------------
(* Type correctness.                                                       *)

\* A handler that is running works for an upload.
Working == \A r \in Reqs : req[r].pc # "idle" => req[r].up \in Uploads

TypeInv == TypeOK /\ Working

LEMMA IdleRequest == Idle \in Request /\ Idle.pc = "idle" /\ Idle.up = NoUpload
  BY ConstantsAssumption DEF Idle, Request, NoPart, Missing, HoldingPCs

\* Rewriting one slot keeps the handlers' types if the new request is well typed.
LEMMA SlotType ==
    ASSUME TypeInv, NEW r \in Reqs, NEW x \in Request,
           x.pc # "idle" => x.up \in Uploads,
           req' = [req EXCEPT ![r] = x]
    PROVE  RequestTypeOK' /\ Working'
  BY DEF TypeInv, TypeOK, RequestTypeOK, Working

LEMMA DoneType ==
    ASSUME TypeInv, NEW r \in Reqs, Done(r)
    PROVE  RequestTypeOK' /\ Working'
  BY IdleRequest, SlotType DEF Done

LEMMA GotoType ==
    ASSUME TypeInv, NEW r \in Reqs, req[r].pc # "idle",
           NEW pc \in HoldingPCs \cup {"initiateProgress", "cleanup"}, Goto(r, pc)
    PROVE  RequestTypeOK' /\ Working'
  <1> DEFINE x == [req[r] EXCEPT !.pc = pc]
  <1>1. x \in Request /\ x.up \in Uploads
    BY DEF TypeInv, TypeOK, RequestTypeOK, Working, Request
  <1>2. req' = [req EXCEPT ![r] = x]
    BY DEF Goto
  <1> QED
    BY <1>1, <1>2, SlotType

\* Touching a staging directory, and ageing, stay within the types.
LEMMA TouchType ==
    ASSUME TypeOK, NEW u \in Uploads, Touch(u)
    PROVE  DiskTypeOK'
  BY ConstantsAssumption DEF TypeOK, DiskTypeOK, Touch

LEMMA RemoveDirType ==
    ASSUME TypeOK, NEW u \in Uploads, NEW handlers \in [Reqs -> Request],
           \A x \in Reqs : handlers[x].pc # "idle" => handlers[x].up \in Uploads,
           RemoveDir(u, handlers)
    PROVE  /\ DiskTypeOK'
           /\ RequestTypeOK' /\ Working'
           /\ \A x \in Reqs : /\ req'[x].pc = handlers[x].pc
                              /\ req'[x].up = handlers[x].up
                              /\ req'[x].manifest = handlers[x].manifest
                              /\ req'[x].content = handlers[x].content
  <1>1. DiskTypeOK'
    BY DEF TypeOK, DiskTypeOK, RemoveDir, PartNumbers
  <1>2. \A x \in Reqs : /\ req'[x] \in Request
                        /\ req'[x].pc = handlers[x].pc
                        /\ req'[x].up = handlers[x].up
                        /\ req'[x].manifest = handlers[x].manifest
                        /\ req'[x].content = handlers[x].content
    BY DEF RemoveDir, Request
  <1>3. RequestTypeOK'
    BY <1>2 DEF RemoveDir, RequestTypeOK
  <1> QED
    BY <1>1, <1>2, <1>3 DEF Working

LEMMA OlderType ==
    ASSUME NEW t \in Nat, NEW a \in 0..t + 1
    PROVE  Older(a, t) \in 0..t + 1 /\ Older(a, t) <= a + 1
  BY DEF Older

LEMMA TypeInit == Init => TypeInv
  <1> SUFFICES ASSUME Init PROVE TypeInv
    OBVIOUS
  <1> USE ConstantsAssumption DEF Init
  <1>1. RequestTypeOK /\ Working
    BY IdleRequest DEF RequestTypeOK, Working
  <1>2. RowTypeOK
    BY DEF RowTypeOK
  <1>3. DiskTypeOK
    BY DEF DiskTypeOK, PartNumbers
  <1>4. UrlTypeOK
    BY DEF UrlTypeOK, PartNumbers
  <1>5. OutcomeTypeOK
    BY DEF OutcomeTypeOK, NoObject
  <1>6. SweepTypeOK
    BY DEF SweepTypeOK, NoSweep
  <1>7. faults \in 0..MaxFaults
    OBVIOUS
  <1>8. progress \in BOOLEAN
    OBVIOUS
  <1> HIDE DEF Init
  <1> QED
    BY <1>1, <1>2, <1>3, <1>4, <1>5, <1>6, <1>7, <1>8 DEF TypeInv, TypeOK

\* What a step leaves alone keeps its type.
LEMMA KeptTypes ==
    ASSUME TypeInv
    PROVE  /\ UNCHANGED rowVars => RowTypeOK'
           /\ UNCHANGED diskVars => DiskTypeOK'
           /\ UNCHANGED urlAge => UrlTypeOK'
           /\ UNCHANGED outcomeVars => OutcomeTypeOK'
           /\ UNCHANGED req => RequestTypeOK' /\ Working'
           /\ UNCHANGED sweep => SweepTypeOK'
  BY DEF TypeInv, TypeOK, rowVars, diskVars, outcomeVars, RowTypeOK, DiskTypeOK,
         UrlTypeOK, OutcomeTypeOK, RequestTypeOK, Working, SweepTypeOK

LEMMA FaultType ==
    ASSUME TypeOK
    PROVE  /\ Fault => faults' \in 0..MaxFaults
           /\ UNCHANGED faults => faults' \in 0..MaxFaults
  BY ConstantsAssumption DEF TypeOK, Fault

LEMMA ProgressType ==
    ASSUME TypeOK
    PROVE  UNCHANGED progress => progress' \in BOOLEAN
  BY DEF TypeOK

\* Overwriting one entry of a table of tables.
LEMMA NestedUpdate ==
    ASSUME NEW A, NEW B, NEW C, NEW f \in [A -> [B -> C]], NEW a, NEW b, NEW c \in C
    PROVE  [f EXCEPT ![a][b] = c] \in [A -> [B -> C]]
  OBVIOUS

\* Writing a row: a new status, the age kept or reset.
LEMMA RowUpdateType ==
    ASSUME TypeOK, NEW u \in Uploads,
           NEW new \in {"uploading", "finalizing", "completed", "aborted"},
           status' = [status EXCEPT ![u] = new],
           claimAge' = claimAge \/ claimAge' = [claimAge EXCEPT ![u] = 0],
           UNCHANGED known
    PROVE  RowTypeOK'
  <1> USE ConstantsAssumption
  <1>1. status' \in [Uploads -> {"none", "uploading", "finalizing", "completed", "aborted"}]
    BY DEF TypeOK, RowTypeOK
  <1>2. 0 \in 0..LeaseAge + 1
    OBVIOUS
  <1>3. claimAge' \in [Uploads -> 0..LeaseAge + 1]
    BY <1>2 DEF TypeOK, RowTypeOK
  <1> QED
    BY <1>1, <1>3 DEF TypeOK, RowTypeOK

LEMMA TypeArrival ==
    ASSUME TypeInv, NEW r \in Reqs, Arrival(r)
    PROVE  TypeInv'
  <1> USE ConstantsAssumption
  <1> PICK u \in Uploads :
        \/ InitiateInsert(r, u)
        \/ \E p \in PartNumbers : PresignCheck(r, u, p)
        \/ \E p \in PartNumbers, s \in Sizes : PutBegin(r, u, p, s)
        \/ \E m \in Manifests : CompleteClaim(r, u, m)
        \/ AbortRow(r, u)
    BY DEF Arrival
  <1>1. CASE InitiateInsert(r, u)
    <2> DEFINE x == [Idle EXCEPT !.pc = "initiateTouch", !.up = u]
    <2>1. x \in Request /\ x.up \in Uploads
      BY IdleRequest DEF Request, Idle
    <2>2. RequestTypeOK' /\ Working'
      BY <1>1, <2>1, SlotType DEF InitiateInsert, Begin
    <2>3. RowTypeOK'
      BY <1>1, RowUpdateType DEF InitiateInsert, TypeInv
    <2> QED
      BY <1>1, <2>2, <2>3, KeptTypes, FaultType, ProgressType
      DEF InitiateInsert, TypeInv, TypeOK
  <1>2. ASSUME NEW p \in PartNumbers, PresignCheck(r, u, p)
        PROVE  TypeInv'
    <2> DEFINE x == [Idle EXCEPT !.pc = "presignTouch", !.up = u, !.part = p]
    <2>1. x \in Request /\ x.up \in Uploads
      BY IdleRequest DEF Request, Idle, PartNumbers
    <2>2. RequestTypeOK' /\ Working'
      BY <1>2, <2>1, SlotType DEF PresignCheck, Begin
    <2> QED
      BY <1>2, <2>2, KeptTypes, FaultType, ProgressType DEF PresignCheck, TypeInv, TypeOK
  <1>3. ASSUME NEW p \in PartNumbers, NEW s \in Sizes, PutBegin(r, u, p, s)
        PROVE  TypeInv'
    <2> DEFINE x == [Idle EXCEPT !.pc = "putStream", !.up = u, !.part = p,
                                 !.size = s, !.temp = TRUE]
    <2>1. x \in Request /\ x.up \in Uploads
      BY IdleRequest DEF Request, Idle, PartNumbers
    <2>2. RequestTypeOK' /\ Working'
      BY <1>3, <2>1, SlotType DEF PutBegin, Begin
    <2>3. DiskTypeOK'
      BY <1>3, TouchType DEF PutBegin, TypeInv
    <2> QED
      BY <1>3, <2>2, <2>3, KeptTypes, FaultType, ProgressType DEF PutBegin, TypeInv, TypeOK
  <1>4. ASSUME NEW m \in Manifests, CompleteClaim(r, u, m)
        PROVE  TypeInv'
    <2> DEFINE x == [Idle EXCEPT !.pc = "completeTouch", !.up = u, !.manifest = m]
    <2>1. x \in Request /\ x.up \in Uploads
      BY IdleRequest DEF Request, Idle, HoldingPCs
    <2>2. RequestTypeOK' /\ Working'
      BY <1>4, <2>1, SlotType DEF CompleteClaim, Begin
    <2>3. RowTypeOK'
      BY <1>4, RowUpdateType DEF CompleteClaim, TypeInv
    <2> QED
      BY <1>4, <2>2, <2>3, KeptTypes, FaultType, ProgressType
      DEF CompleteClaim, TypeInv, TypeOK
  <1>5. CASE AbortRow(r, u)
    <2> DEFINE x == [Idle EXCEPT !.pc = "cleanup", !.up = u]
    <2>1. x \in Request /\ x.up \in Uploads
      BY IdleRequest DEF Request, Idle
    <2>2. RequestTypeOK' /\ Working'
      BY <1>5, <2>1, SlotType DEF AbortRow, Begin
    <2>3. RowTypeOK'
      BY <1>5, RowUpdateType DEF AbortRow, TypeInv
    <2>4. progress' \in BOOLEAN
      BY <1>5 DEF AbortRow
    <2> QED
      BY <1>5, <2>2, <2>3, <2>4, KeptTypes, FaultType DEF AbortRow, TypeInv, TypeOK
  <1> QED
    BY <1>1, <1>2, <1>3, <1>4, <1>5

LEMMA TypeContinue ==
    ASSUME TypeInv, NEW r \in Reqs, Continue(r)
    PROVE  TypeInv'
  <1> USE ConstantsAssumption
  <1> DEFINE u == req[r].up
  <1>a. req[r].pc # "idle" => u \in Uploads
    BY DEF TypeInv, Working
  <1>b. req[r] \in Request
    BY DEF TypeInv, TypeOK, RequestTypeOK
  <1>1. CASE InitiateTouch(r)
    <2>1. RequestTypeOK' /\ Working'
      BY <1>1, GotoType DEF InitiateTouch, At
    <2>2. DiskTypeOK'
      BY <1>1, <1>a, TouchType DEF InitiateTouch, At, TypeInv
    <2> QED
      BY <1>1, <2>1, <2>2, KeptTypes, FaultType, ProgressType DEF InitiateTouch, TypeInv, TypeOK
  <1>2. CASE InitiateProgress(r)
    <2>1. RequestTypeOK' /\ Working'
      BY <1>2, DoneType DEF InitiateProgress
    <2>2. RowTypeOK'
      BY <1>2, <1>a DEF InitiateProgress, At, TypeInv, TypeOK, RowTypeOK
    <2>3. progress' \in BOOLEAN
      BY <1>2, ProgressType DEF InitiateProgress, TypeInv
    <2> QED
      BY <1>2, <2>1, <2>2, <2>3, KeptTypes, FaultType DEF InitiateProgress, TypeInv, TypeOK
  <1>3. CASE PresignTouch(r)
    <2>1. RequestTypeOK' /\ Working'
      BY <1>3, DoneType DEF PresignTouch
    <2>2. DiskTypeOK'
      BY <1>3, <1>a, TouchType DEF PresignTouch, At, TypeInv
    <2>3. UrlTypeOK'
      <3>1. 0 \in 0..UrlTTL + 1
        OBVIOUS
      <3>2. urlAge \in [Uploads -> [1..MaxParts -> 0..UrlTTL + 1]]
        BY DEF TypeInv, TypeOK, UrlTypeOK
      <3>3. [urlAge EXCEPT ![u][req[r].part] = 0] \in [Uploads -> [1..MaxParts -> 0..UrlTTL + 1]]
        BY <3>1, <3>2, NestedUpdate
      <3> QED
        BY <1>3, <3>3 DEF PresignTouch, UrlTypeOK
    <2> QED
      BY <1>3, <2>1, <2>2, <2>3, KeptTypes, FaultType, ProgressType
      DEF PresignTouch, TypeInv, TypeOK
  <1>4. CASE PutRename(r)
    <2>1. RequestTypeOK' /\ Working'
      <3>1. CASE req[r].temp
        <4> DEFINE x == [req[r] EXCEPT !.pc = "putTouch", !.temp = FALSE]
        <4>1. x \in Request /\ x.up \in Uploads
          BY <1>4, <1>a, <1>b DEF Request, PutRename, At
        <4>2. req' = [req EXCEPT ![r] = x]
          BY <1>4, <3>1 DEF PutRename
        <4> QED
          BY <4>1, <4>2, SlotType
      <3>2. CASE ~req[r].temp
        BY <1>4, <3>2, DoneType DEF PutRename
      <3> QED
        BY <3>1, <3>2
    <2>2. DiskTypeOK'
      <3>1. req[r].size \in {Missing} \cup Sizes
        BY <1>b DEF Request
      <3>2. staged \in [Uploads -> [1..MaxParts -> {Missing} \cup Sizes]]
        BY DEF TypeInv, TypeOK, DiskTypeOK
      <3>3. [staged EXCEPT ![u][req[r].part] = req[r].size]
                \in [Uploads -> [1..MaxParts -> {Missing} \cup Sizes]]
        BY <3>1, <3>2, NestedUpdate
      <3> QED
        BY <1>4, <3>2, <3>3 DEF PutRename, TypeInv, TypeOK, DiskTypeOK
    <2> QED
      BY <1>4, <2>1, <2>2, KeptTypes, FaultType, ProgressType DEF PutRename, TypeInv, TypeOK
  <1>5. CASE PutTouch(r)
    <2>1. RequestTypeOK' /\ Working'
      BY <1>5, DoneType DEF PutTouch
    <2>2. DiskTypeOK'
      BY <1>5, <1>a, TouchType DEF PutTouch, At, TypeInv
    <2> QED
      BY <1>5, <2>1, <2>2, KeptTypes, FaultType, ProgressType DEF PutTouch, TypeInv, TypeOK
  <1>6. CASE CompleteTouch(r)
    <2>1. RequestTypeOK' /\ Working'
      BY <1>6, GotoType DEF CompleteTouch, At, HoldingPCs
    <2>2. DiskTypeOK'
      BY <1>6, <1>a, TouchType DEF CompleteTouch, At, TypeInv
    <2> QED
      BY <1>6, <2>1, <2>2, KeptTypes, FaultType, ProgressType DEF CompleteTouch, TypeInv, TypeOK
  <1>7. CASE AssemblePart(r)
    <2> DEFINE n == Len(req[r].content) + 1
    <2>1. RequestTypeOK' /\ Working'
      <3>1. CASE staged[u][n] = req[r].manifest[n]
        <4> DEFINE x == [req[r] EXCEPT !.content = Append(req[r].content, req[r].manifest[n])]
        <4>1. req[r].content \in Seq(Sizes) /\ n \in Nat /\ n > 0
          BY <1>b DEF Request
        <4>2. req[r].manifest[n] \in Sizes
          <5>1. n <= Len(req[r].manifest) /\ n \in Nat /\ n > 0
            BY <1>7, <4>1 DEF AssemblePart
          <5>2. req[r].manifest # <<>>
            BY <5>1
          <5>3. PICK k \in 1..MaxParts : req[r].manifest \in [1..k -> Sizes]
            BY <1>b, <5>2 DEF Request, Manifests
          <5>4. n \in 1..k
            BY <5>1, <5>3
          <5> QED
            BY <5>3, <5>4
        <4>3. Append(req[r].content, req[r].manifest[n]) \in Seq(Sizes)
          BY <4>1, <4>2
        <4>4. x \in Request /\ x.up \in Uploads
          BY <1>7, <1>a, <1>b, <4>3 DEF Request, AssemblePart, At
        <4>5. req' = [req EXCEPT ![r] = x]
          BY <1>7, <3>1 DEF AssemblePart
        <4> QED
          BY <4>4, <4>5, SlotType
      <3>2. CASE staged[u][n] # req[r].manifest[n]
        BY <1>7, <3>2, GotoType DEF AssemblePart, At, HoldingPCs
      <3> QED
        BY <3>1, <3>2
    <2> QED
      BY <1>7, <2>1, KeptTypes, FaultType, ProgressType DEF AssemblePart, TypeInv, TypeOK
  <1>8. CASE Publish(r)
    <2>1. RequestTypeOK' /\ Working'
      BY <1>8, GotoType DEF Publish, At, HoldingPCs
    <2>2. OutcomeTypeOK'
      BY <1>8, <1>a, <1>b DEF Publish, At, TypeInv, TypeOK, OutcomeTypeOK, Request
    <2> QED
      BY <1>8, <2>1, <2>2, KeptTypes, FaultType, ProgressType DEF Publish, TypeInv, TypeOK
  <1>9. CASE Release(r)
    <2>1. RequestTypeOK' /\ Working'
      BY <1>9, DoneType DEF Release
    <2>2. RowTypeOK'
      BY <1>9 DEF Release, TypeInv, TypeOK, RowTypeOK
    <2> QED
      BY <1>9, <2>1, <2>2, KeptTypes, FaultType, ProgressType DEF Release, TypeInv, TypeOK
  <1>10. CASE Commit(r)
    <2>1. RequestTypeOK' /\ Working'
      BY <1>10, GotoType DEF Commit, At
    <2>2. RowTypeOK'
      BY <1>10, <1>a, RowUpdateType DEF Commit, At, TypeInv
    <2>3. progress' \in BOOLEAN
      BY <1>10 DEF Commit
    <2> QED
      BY <1>10, <2>1, <2>2, <2>3, KeptTypes, FaultType DEF Commit, TypeInv, TypeOK
  <1>11. CASE Cleanup(r)
    <2> DEFINE h == [req EXCEPT ![r] = Idle]
    <2>1. h \in [Reqs -> Request] /\ \A x \in Reqs : h[x].pc # "idle" => h[x].up \in Uploads
      BY IdleRequest DEF TypeInv, TypeOK, RequestTypeOK, Working
    <2>2. u \in Uploads /\ RemoveDir(u, h)
      BY <1>11, <1>a DEF Cleanup, At
    <2>3. DiskTypeOK' /\ RequestTypeOK' /\ Working'
      BY <2>1, <2>2, RemoveDirType DEF TypeInv
    <2> QED
      BY <1>11, <2>3, KeptTypes, FaultType, ProgressType DEF Cleanup, TypeInv, TypeOK
  <1> QED
    BY <1>1, <1>2, <1>3, <1>4, <1>5, <1>6, <1>7, <1>8, <1>9, <1>10, <1>11 DEF Continue

LEMMA TypeSweep ==
    ASSUME TypeInv, SweepStep
    PROVE  TypeInv'
  <1> USE ConstantsAssumption
  <1>1. CASE SweepStart
    <2>1. SweepTypeOK'
      BY <1>1 DEF SweepStart, SweepTypeOK, NoSweep
    <2> QED
      BY <1>1, <2>1, KeptTypes, FaultType, ProgressType DEF SweepStart, TypeInv, TypeOK
  <1>2. ASSUME NEW u \in Uploads, SweepExamine(u)
        PROVE  TypeInv'
    <2>1. SweepTypeOK'
      BY <1>2 DEF SweepExamine, TypeInv, TypeOK, SweepTypeOK
    <2> QED
      BY <1>2, <2>1, KeptTypes, FaultType, ProgressType DEF SweepExamine, TypeInv, TypeOK
  <1>3. CASE SweepRemove
    <2>1. sweep.target \in Uploads
      BY <1>3 DEF SweepRemove, TypeInv, TypeOK, SweepTypeOK
    <2>2. req \in [Reqs -> Request] /\ \A x \in Reqs : req[x].pc # "idle" => req[x].up \in Uploads
      BY DEF TypeInv, TypeOK, RequestTypeOK, Working
    <2>3. RemoveDir(sweep.target, req)
      BY <1>3 DEF SweepRemove
    <2>4. DiskTypeOK' /\ RequestTypeOK' /\ Working'
      BY <2>1, <2>2, <2>3, RemoveDirType DEF TypeInv
    <2>5. SweepTypeOK'
      BY <1>3 DEF SweepRemove, TypeInv, TypeOK, SweepTypeOK
    <2> QED
      BY <1>3, <2>4, <2>5, KeptTypes, FaultType, ProgressType DEF SweepRemove, TypeInv, TypeOK
  <1> QED
    BY <1>1, <1>2, <1>3 DEF SweepStep

LEMMA TypeFault ==
    ASSUME TypeInv, NEW r \in Reqs, AssembleFails(r) \/ Drop(r)
    PROVE  TypeInv'
  <1>1. CASE AssembleFails(r)
    <2>1. RequestTypeOK' /\ Working'
      BY <1>1, GotoType DEF AssembleFails, At, HoldingPCs
    <2> QED
      BY <1>1, <2>1, KeptTypes, FaultType, ProgressType DEF AssembleFails, TypeInv, TypeOK
  <1>2. CASE Drop(r)
    <2>1. RequestTypeOK' /\ Working'
      BY <1>2, DoneType DEF Drop
    <2> QED
      BY <1>2, <2>1, KeptTypes, FaultType, ProgressType DEF Drop, TypeInv, TypeOK
  <1> QED
    BY <1>1, <1>2

LEMMA TypeCrash ==
    ASSUME TypeInv, Crash
    PROVE  TypeInv'
  <1>1. RequestTypeOK' /\ Working'
    BY IdleRequest DEF Crash, RequestTypeOK, Working
  <1>2. SweepTypeOK'
    BY DEF Crash, SweepTypeOK, NoSweep
  <1> QED
    BY <1>1, <1>2, KeptTypes, FaultType, ProgressType DEF Crash, TypeInv, TypeOK

LEMMA TypeTick ==
    ASSUME TypeInv, Tick
    PROVE  TypeInv'
  <1> USE ConstantsAssumption
  <1>1. RowTypeOK'
    <2>1. \A u \in Uploads : claimAge[u] \in 0..LeaseAge + 1
      BY DEF TypeInv, TypeOK, RowTypeOK
    <2>2. \A u \in Uploads : Older(claimAge[u], LeaseAge) \in 0..LeaseAge + 1
      BY <2>1, OlderType
    <2> QED
      BY <2>1, <2>2 DEF Tick, TypeInv, TypeOK, RowTypeOK
  <1>2. DiskTypeOK'
    <2>1. \A u \in Uploads : heartbeat[u] \in {NoDir} \cup 0..StagingAge + 1
      BY DEF TypeInv, TypeOK, DiskTypeOK
    <2>2. \A u \in Uploads : heartbeat[u] # NoDir =>
              Older(heartbeat[u], StagingAge) \in 0..StagingAge + 1
      BY <2>1, OlderType
    <2> QED
      BY <2>2 DEF Tick, TypeInv, TypeOK, DiskTypeOK
  <1>3. UrlTypeOK'
    <2>1. \A u \in Uploads, p \in 1..MaxParts : urlAge[u][p] \in 0..UrlTTL + 1
      BY DEF TypeInv, TypeOK, UrlTypeOK
    <2>2. \A u \in Uploads, p \in 1..MaxParts : Older(urlAge[u][p], UrlTTL) \in 0..UrlTTL + 1
      BY <2>1, OlderType
    <2> QED
      BY <2>2 DEF Tick, UrlTypeOK, PartNumbers
  <1> QED
    BY <1>1, <1>2, <1>3, KeptTypes, FaultType, ProgressType DEF Tick, TypeInv, TypeOK

LEMMA TypeStep == TypeInv /\ [Next]_vars => TypeInv'
  <1> SUFFICES ASSUME TypeInv, [Next]_vars PROVE TypeInv'
    OBVIOUS
  <1>1. CASE Next
    BY <1>1, TypeArrival, TypeContinue, TypeSweep, TypeFault, TypeCrash, TypeTick DEF Next
  <1>2. CASE UNCHANGED vars
    BY <1>2, KeptTypes, FaultType, ProgressType
    DEF vars, rowVars, diskVars, outcomeVars, TypeInv, TypeOK
  <1> QED
    BY <1>1, <1>2

\* Every variable stays within its type, and a running handler always works
\* for a real upload.
THEOREM TypeCorrect == Spec => []TypeOK
  <1>1. TypeInv => TypeOK
    BY DEF TypeInv
  <1> QED
    BY <1>1, TypeInit, TypeStep, PTL DEF Spec
-----------------------------------------------------------------------------
(* The inductive invariant.                                                *)

InitiatingPCs == {"initiateTouch", "initiateProgress"}

\* An id the client has not been told yet belongs to one `initiate`, whose row
\* is untouched; the routes that end an upload only ever see known ids.
InitiateInv ==
    /\ \A r \in Reqs : req[r].pc \in InitiatingPCs =>
          status[req[r].up] = "uploading" /\ req[r].up \notin known
    /\ \A r1, r2 \in Reqs :
          /\ req[r1].pc \in InitiatingPCs
          /\ req[r2].pc \in InitiatingPCs
          /\ req[r1].up = req[r2].up
          => r1 = r2
    /\ \A u \in known : status[u] # "none"
    /\ \A r \in Reqs : Holding(r) => req[r].up \in known

\* What has been copied so far is the beginning of the manifest, and a handler
\* about to commit has published.
CopyInv ==
    \A r \in Reqs :
        /\ req[r].pc \in {"completeTouch", "assemble"} =>
              /\ req[r].manifest \in Manifests
              /\ Len(req[r].content) <= Len(req[r].manifest)
              /\ \A i \in 1..Len(req[r].content) : req[r].content[i] = req[r].manifest[i]
        /\ req[r].pc = "commit" => req[r].up \in published

\* The lease: a claim in use is young, its row is 'finalizing', and no other
\* handler holds one for the same upload.
LeaseInv ==
    /\ ExclusiveFinalizer
    /\ \A r \in Reqs : Holding(r) => claimAge[req[r].up] <= AssemblyBound

IInv == TypeInv /\ InitiateInv /\ CopyInv /\ ProgressHasOpenUpload

\* The handlers the invariant speaks about.
Tracked(pc) == pc \in InitiatingPCs \cup HoldingPCs

SameWork(x) ==
    /\ req'[x].pc = req[x].pc
    /\ req'[x].up = req[x].up
    /\ req'[x].manifest = req[x].manifest
    /\ req'[x].content = req[x].content

\* A step after which every tracked handler stands where it stood.
Quiet ==
    /\ UNCHANGED <<status, known, published, progress>>
    /\ \A x \in Reqs : SameWork(x) \/ ~Tracked(req'[x].pc)

LEMMA QuietStep ==
    ASSUME IInv, Quiet, TypeInv'
    PROVE  /\ IInv'
           /\ LeaseInv /\ UNCHANGED claimAge => LeaseInv'
  <1> USE DEF Quiet, SameWork, Tracked, IInv
  <1>1. InitiateInv'
    BY DEF InitiateInv, InitiatingPCs, HoldingPCs, Holding
  <1>2. CopyInv'
    BY DEF CopyInv, InitiatingPCs, HoldingPCs, Holding
  <1>3. ProgressHasOpenUpload'
    BY DEF ProgressHasOpenUpload
  <1>4. LeaseInv /\ UNCHANGED claimAge => LeaseInv'
    BY DEF LeaseInv, ExclusiveFinalizer, HoldingPCs, Holding
  <1> QED
    BY <1>1, <1>2, <1>3, <1>4

\* One slot rewritten: what it holds then, and that the others are as before.
LEMMA OneSlot ==
    ASSUME TypeInv, NEW r \in Reqs, NEW x, req' = [req EXCEPT ![r] = x]
    PROVE  req'[r] = x /\ \A y \in Reqs : y # r => req'[y] = req[y]
  BY DEF TypeInv, TypeOK, RequestTypeOK

LEMMA GotoSlot ==
    ASSUME TypeInv, NEW r \in Reqs, NEW pc, Goto(r, pc)
    PROVE  /\ req'[r].pc = pc
           /\ req'[r].up = req[r].up
           /\ req'[r].manifest = req[r].manifest
           /\ req'[r].content = req[r].content
           /\ \A y \in Reqs : y # r => req'[y] = req[y]
  BY DEF TypeInv, TypeOK, RequestTypeOK, Request, Goto

LEMMA DoneSlot ==
    ASSUME TypeInv, NEW r \in Reqs, Done(r)
    PROVE  req'[r] = Idle /\ \A y \in Reqs : y # r => req'[y] = req[y]
  BY OneSlot DEF Done

LEMMA IdleUntracked == ~Tracked(Idle.pc)
  BY IdleRequest DEF Tracked, InitiatingPCs, HoldingPCs

\* The steps that move no tracked handler and write no row.
LEMMA QuietSteps ==
    ASSUME IInv, NEW r \in Reqs, TypeInv',
           \/ \E u \in Uploads, p \in PartNumbers : PresignCheck(r, u, p)
           \/ \E u \in Uploads, p \in PartNumbers, s \in Sizes : PutBegin(r, u, p, s)
           \/ PresignTouch(r) \/ PutRename(r) \/ PutTouch(r) \/ Cleanup(r)
           \/ Drop(r) \/ Crash \/ SweepStep
    PROVE  Quiet /\ UNCHANGED claimAge
  <1> USE DEF rowVars, outcomeVars
  <1>0. TypeInv
    BY DEF IInv
  <1>1. ASSUME NEW u \in Uploads, NEW p \in PartNumbers, PresignCheck(r, u, p)
        PROVE  Quiet /\ UNCHANGED claimAge
    <2>1. req'[r] = [Idle EXCEPT !.pc = "presignTouch", !.up = u, !.part = p]
          /\ \A y \in Reqs : y # r => req'[y] = req[y]
      BY <1>0, <1>1, OneSlot DEF PresignCheck, Begin
    <2>2. ~Tracked(req'[r].pc)
      BY <2>1 DEF Idle, Tracked, InitiatingPCs, HoldingPCs
    <2> QED
      BY <1>1, <2>1, <2>2 DEF PresignCheck, Quiet, SameWork
  <1>2. ASSUME NEW u \in Uploads, NEW p \in PartNumbers, NEW s \in Sizes, PutBegin(r, u, p, s)
        PROVE  Quiet /\ UNCHANGED claimAge
    <2>1. req'[r] = [Idle EXCEPT !.pc = "putStream", !.up = u, !.part = p,
                                 !.size = s, !.temp = TRUE]
          /\ \A y \in Reqs : y # r => req'[y] = req[y]
      BY <1>0, <1>2, OneSlot DEF PutBegin, Begin
    <2>2. ~Tracked(req'[r].pc)
      BY <2>1 DEF Idle, Tracked, InitiatingPCs, HoldingPCs
    <2> QED
      BY <1>2, <2>1, <2>2 DEF PutBegin, Quiet, SameWork
  <1>3. CASE PresignTouch(r) \/ PutTouch(r) \/ Drop(r)
    <2>1. req'[r] = Idle /\ \A y \in Reqs : y # r => req'[y] = req[y]
      BY <1>0, <1>3, DoneSlot DEF PresignTouch, PutTouch, Drop
    <2> QED
      BY <1>3, <2>1, IdleUntracked DEF PresignTouch, PutTouch, Drop, Quiet, SameWork
  <1>4. CASE PutRename(r)
    <2>1. ~Tracked(req'[r].pc) /\ \A y \in Reqs : y # r => req'[y] = req[y]
      <3>1. CASE req[r].temp
        <4>1. req'[r] = [req[r] EXCEPT !.pc = "putTouch", !.temp = FALSE]
              /\ \A y \in Reqs : y # r => req'[y] = req[y]
          BY <1>0, <1>4, <3>1 DEF PutRename, TypeInv, TypeOK, RequestTypeOK
        <4>2. req'[r].pc = "putTouch"
          BY <1>0, <4>1 DEF TypeInv, TypeOK, RequestTypeOK, Request
        <4> QED
          BY <4>1, <4>2 DEF Tracked, InitiatingPCs, HoldingPCs
      <3>2. CASE ~req[r].temp
        BY <1>0, <1>4, <3>2, DoneSlot, IdleUntracked DEF PutRename
      <3> QED
        BY <3>1, <3>2
    <2> QED
      BY <1>4, <2>1 DEF PutRename, Quiet, SameWork
  <1>5. CASE Cleanup(r)
    <2> DEFINE h == [req EXCEPT ![r] = Idle]
    <2>1. h \in [Reqs -> Request] /\ \A x \in Reqs : h[x].pc # "idle" => h[x].up \in Uploads
      BY <1>0, IdleRequest DEF TypeInv, TypeOK, RequestTypeOK, Working
    <2>2. req[r].up \in Uploads /\ RemoveDir(req[r].up, h)
      BY <1>0, <1>5 DEF Cleanup, At, TypeInv, Working
    <2>3. \A x \in Reqs : /\ req'[x].pc = h[x].pc /\ req'[x].up = h[x].up
                          /\ req'[x].manifest = h[x].manifest
                          /\ req'[x].content = h[x].content
      BY <1>0, <2>1, <2>2, RemoveDirType DEF TypeInv
    <2>4. h[r] = Idle /\ \A x \in Reqs : x # r => h[x] = req[x]
      BY <1>0 DEF TypeInv, TypeOK, RequestTypeOK
    <2> QED
      BY <1>5, <2>3, <2>4, IdleUntracked DEF Cleanup, Quiet, SameWork
  <1>6. CASE Crash
    BY <1>6, IdleUntracked DEF Crash, Quiet
  <1>7. CASE SweepStep
    <2>1. CASE SweepStart \/ \E u \in Uploads : SweepExamine(u)
      BY <2>1 DEF SweepStart, SweepExamine, Quiet, SameWork
    <2>2. CASE SweepRemove
      <3>1. sweep.target \in Uploads /\ RemoveDir(sweep.target, req)
        BY <1>0, <2>2 DEF SweepRemove, TypeInv, TypeOK, SweepTypeOK
      <3>2. req \in [Reqs -> Request] /\ \A x \in Reqs : req[x].pc # "idle" => req[x].up \in Uploads
        BY <1>0 DEF TypeInv, TypeOK, RequestTypeOK, Working
      <3>3. \A x \in Reqs : SameWork(x)
        BY <1>0, <3>1, <3>2, RemoveDirType DEF TypeInv, SameWork
      <3> QED
        BY <2>2, <3>3 DEF SweepRemove, Quiet
    <2> QED
      BY <1>7, <2>1, <2>2 DEF SweepStep
  <1> QED
    BY <1>1, <1>2, <1>3, <1>4, <1>5, <1>6, <1>7

-----------------------------------------------------------------------------
(* The steps that write a row or move a tracked handler.                   *)

LEMMA InitiateSteps ==
    ASSUME IInv, NEW r \in Reqs, TypeInv',
           (\E u \in Uploads : InitiateInsert(r, u)) \/ InitiateTouch(r) \/ InitiateProgress(r)
    PROVE  IInv' /\ (LeaseInv => LeaseInv')
  <1> USE DEF rowVars, outcomeVars
  <1>0. TypeInv /\ InitiateInv /\ CopyInv /\ ProgressHasOpenUpload
    BY DEF IInv
  <1>a. status \in [Uploads -> {"none", "uploading", "finalizing", "completed", "aborted"}]
    BY <1>0 DEF TypeInv, TypeOK, RowTypeOK
  <1>b. \A x \in Reqs : req[x].pc # "idle" => req[x].up \in Uploads
    BY <1>0 DEF TypeInv, Working
  <1>1. ASSUME NEW u \in Uploads, InitiateInsert(r, u)
        PROVE  IInv' /\ (LeaseInv => LeaseInv')
    <2>1. req'[r] = [Idle EXCEPT !.pc = "initiateTouch", !.up = u]
          /\ \A y \in Reqs : y # r => req'[y] = req[y]
      BY <1>0, <1>1, OneSlot DEF InitiateInsert, Begin
    <2>2. req'[r].pc = "initiateTouch" /\ req'[r].up = u
      BY <2>1 DEF Idle
    <2>3. \A y \in Reqs : y # r => req'[y] = req[y]
      BY <2>1
    <2>4. /\ status[u] = "none"
          /\ status'[u] = "uploading"
          /\ \A v \in Uploads : v # u => status'[v] = status[v]
          /\ UNCHANGED <<claimAge, known, published, progress>>
      BY <1>1, <1>a DEF InitiateInsert
    <2>5. u \notin known /\ known \subseteq Uploads
      BY <1>0, <2>4 DEF InitiateInv, TypeInv, TypeOK, RowTypeOK
    <2>6. \A x \in Reqs : req[x].pc \in InitiatingPCs => req[x].up # u
      BY <1>0, <2>4 DEF InitiateInv
    <2>7. InitiateInv'
      <3>1. \A x \in Reqs : req'[x].pc \in InitiatingPCs =>
                status'[req'[x].up] = "uploading" /\ req'[x].up \notin known'
        BY <1>0, <1>b, <2>2, <2>3, <2>4, <2>5, <2>6 DEF InitiateInv, InitiatingPCs
      <3>2. \A x1, x2 \in Reqs :
                /\ req'[x1].pc \in InitiatingPCs
                /\ req'[x2].pc \in InitiatingPCs
                /\ req'[x1].up = req'[x2].up
                => x1 = x2
        BY <1>0, <2>2, <2>3, <2>6 DEF InitiateInv
      <3>3. \A v \in known' : status'[v] # "none"
        BY <1>0, <2>4, <2>5 DEF InitiateInv
      <3>4. \A x \in Reqs : Holding(x)' => req'[x].up \in known'
        BY <1>0, <2>2, <2>3, <2>4 DEF InitiateInv, Holding, HoldingPCs
      <3> QED
        BY <3>1, <3>2, <3>3, <3>4 DEF InitiateInv, Holding
    <2>8. CopyInv'
      BY <1>0, <2>2, <2>3, <2>4 DEF CopyInv
    <2>9. ProgressHasOpenUpload'
      BY <1>0, <2>4 DEF ProgressHasOpenUpload
    <2>10. LeaseInv => LeaseInv'
      <3> SUFFICES ASSUME LeaseInv PROVE LeaseInv'
        OBVIOUS
      <3>1. \A x \in Reqs : Holding(x)' => x # r /\ Holding(x) /\ req'[x] = req[x]
        BY <2>2, <2>3 DEF Holding, HoldingPCs
      <3>2. \A x \in Reqs : Holding(x) => req[x].up \in Uploads /\ req[x].up # u
        BY <1>b, <2>4 DEF LeaseInv, ExclusiveFinalizer, Holding, HoldingPCs
      <3> QED
        BY <2>4, <3>1, <3>2 DEF LeaseInv, ExclusiveFinalizer
    <2> QED
      BY <2>7, <2>8, <2>9, <2>10 DEF IInv
  <1>2. CASE InitiateTouch(r)
    <2>1. /\ req[r].pc = "initiateTouch"
          /\ req'[r].pc = "initiateProgress"
          /\ req'[r].up = req[r].up
          /\ \A y \in Reqs : y # r => req'[y] = req[y]
      BY <1>0, <1>2, GotoSlot DEF InitiateTouch, At
    <2>2. UNCHANGED <<status, claimAge, known, published, progress>>
      BY <1>2 DEF InitiateTouch
    <2>3. InitiateInv'
      BY <1>0, <2>1, <2>2 DEF InitiateInv, InitiatingPCs, Holding, HoldingPCs
    <2>4. CopyInv'
      BY <1>0, <2>1, <2>2 DEF CopyInv
    <2>5. ProgressHasOpenUpload'
      BY <1>0, <2>2 DEF ProgressHasOpenUpload
    <2>6. LeaseInv => LeaseInv'
      BY <2>1, <2>2 DEF LeaseInv, ExclusiveFinalizer, Holding, HoldingPCs
    <2> QED
      BY <2>3, <2>4, <2>5, <2>6 DEF IInv
  <1>3. CASE InitiateProgress(r)
    <2>1. /\ req[r].pc = "initiateProgress"
          /\ req'[r] = Idle
          /\ \A y \in Reqs : y # r => req'[y] = req[y]
      BY <1>0, <1>3, DoneSlot DEF InitiateProgress, At
    <2>2. UNCHANGED <<status, claimAge, published>> /\ known' = known \cup {req[r].up}
      BY <1>3 DEF InitiateProgress
    <2>3. InitiateInv'
      BY <1>0, <2>1, <2>2, IdleUntracked DEF InitiateInv, InitiatingPCs, Holding, Tracked
    <2>4. CopyInv'
      BY <1>0, <2>1, <2>2, IdleRequest DEF CopyInv
    <2>5. req[r].up \in Uploads /\ status[req[r].up] = "uploading"
      BY <1>0, <1>b, <2>1 DEF InitiateInv, InitiatingPCs
    <2>6. ProgressHasOpenUpload'
      BY <2>2, <2>5 DEF ProgressHasOpenUpload
    <2>7. LeaseInv => LeaseInv'
      BY <2>1, <2>2, IdleUntracked DEF LeaseInv, ExclusiveFinalizer, Holding, Tracked
    <2> QED
      BY <2>3, <2>4, <2>6, <2>7 DEF IInv
  <1> QED
    BY <1>1, <1>2, <1>3

\* What a claim needs of the lease: when it is granted, nobody holds one.
LEMMA ClaimIsFree ==
    ASSUME IInv, LeaseInv, AssemblyBound <= LeaseAge, NEW u \in Uploads, Claimable(u)
    PROVE  \A r \in Reqs : Holding(r) => req[r].up # u
  <1>1. claimAge[u] \in Nat
    BY ConstantsAssumption DEF IInv, TypeInv, TypeOK, RowTypeOK
  <1> QED
    BY <1>1, ConstantsAssumption DEF LeaseInv, ExclusiveFinalizer, Claimable

LEMMA ClaimStep ==
    ASSUME IInv, NEW r \in Reqs, NEW u \in Uploads, NEW m \in Manifests, TypeInv',
           CompleteClaim(r, u, m)
    PROVE  IInv' /\ (LeaseInv /\ AssemblyBound <= LeaseAge => LeaseInv')
  <1>0. TypeInv /\ InitiateInv /\ CopyInv /\ ProgressHasOpenUpload
    BY DEF IInv
  <1>a. /\ status \in [Uploads -> {"none", "uploading", "finalizing", "completed", "aborted"}]
        /\ claimAge \in [Uploads -> 0..LeaseAge + 1]
    BY <1>0 DEF TypeInv, TypeOK, RowTypeOK
  <1>b. \A x \in Reqs : req[x].pc # "idle" => req[x].up \in Uploads
    BY <1>0 DEF TypeInv, Working
  <1>1. req'[r] = [Idle EXCEPT !.pc = "completeTouch", !.up = u, !.manifest = m]
        /\ \A y \in Reqs : y # r => req'[y] = req[y]
    BY <1>0, OneSlot DEF CompleteClaim, Begin
  <1>2. /\ req'[r].pc = "completeTouch"
        /\ req'[r].up = u
        /\ req'[r].manifest = m
        /\ req'[r].content = <<>>
    BY <1>1 DEF Idle
  <1>3. \A y \in Reqs : y # r => req'[y] = req[y]
    BY <1>1
  <1>4. /\ u \in known
        /\ Claimable(u)
        /\ status'[u] = "finalizing"
        /\ claimAge'[u] = 0
        /\ \A v \in Uploads : v # u => status'[v] = status[v] /\ claimAge'[v] = claimAge[v]
        /\ UNCHANGED <<known, published, progress>>
    BY <1>a DEF CompleteClaim, outcomeVars
  <1>5. known \subseteq Uploads
    BY <1>0 DEF TypeInv, TypeOK, RowTypeOK
  <1>6. \A x \in Reqs : req'[x].pc \in InitiatingPCs => x # r
    BY <1>2 DEF InitiatingPCs
  <1>7. InitiateInv'
    <2>1. \A x \in Reqs : req'[x].pc \in InitiatingPCs =>
              status'[req'[x].up] = "uploading" /\ req'[x].up \notin known'
      BY <1>0, <1>b, <1>3, <1>4, <1>6 DEF InitiateInv, InitiatingPCs
    <2>2. \A x1, x2 \in Reqs :
              /\ req'[x1].pc \in InitiatingPCs
              /\ req'[x2].pc \in InitiatingPCs
              /\ req'[x1].up = req'[x2].up
              => x1 = x2
      BY <1>0, <1>3, <1>6 DEF InitiateInv
    <2>3. \A v \in known' : status'[v] # "none"
      BY <1>0, <1>4, <1>5 DEF InitiateInv
    <2>4. \A x \in Reqs : Holding(x)' => req'[x].up \in known'
      BY <1>0, <1>2, <1>3, <1>4 DEF InitiateInv, Holding
    <2> QED
      BY <2>1, <2>2, <2>3, <2>4 DEF InitiateInv, Holding
  <1>8. CopyInv'
    <2>1. m \in Seq(Sizes) /\ Len(m) \in Nat
      BY DEF Manifests
    <2>2. Len(req'[r].content) = 0 /\ Len(req'[r].content) <= Len(req'[r].manifest)
      BY <1>2, <2>1
    <2>3. \A i \in 1..Len(req'[r].content) : req'[r].content[i] = req'[r].manifest[i]
      BY <2>2
    <2>4. \A x \in Reqs : x # r =>
            /\ req'[x].pc \in {"completeTouch", "assemble"} =>
                  /\ req'[x].manifest \in Manifests
                  /\ Len(req'[x].content) <= Len(req'[x].manifest)
                  /\ \A i \in 1..Len(req'[x].content) : req'[x].content[i] = req'[x].manifest[i]
            /\ req'[x].pc = "commit" => req'[x].up \in published'
      BY <1>0, <1>3, <1>4 DEF CopyInv
    <2> QED
      BY <1>2, <2>2, <2>3, <2>4 DEF CopyInv
  <1>9. ProgressHasOpenUpload'
    BY <1>0, <1>4, <1>5 DEF ProgressHasOpenUpload
  <1>10. ASSUME LeaseInv, AssemblyBound <= LeaseAge
         PROVE  LeaseInv'
    <2>1. \A x \in Reqs : Holding(x) => req[x].up # u /\ req[x].up \in Uploads
      BY <1>b, <1>4, <1>10, ClaimIsFree DEF Holding, HoldingPCs
    <2>2. 0 <= AssemblyBound
      BY ConstantsAssumption
    <2>3. \A x \in Reqs : x # r /\ Holding(x)' => Holding(x)
      BY <1>3 DEF Holding
    <2>4. \A x \in Reqs : Holding(x)' => status'[req'[x].up] = "finalizing"
      BY <1>2, <1>3, <1>4, <1>10, <2>1, <2>3 DEF LeaseInv, ExclusiveFinalizer
    <2>5. \A x \in Reqs : Holding(x)' => claimAge'[req'[x].up] <= AssemblyBound
      BY <1>2, <1>3, <1>4, <1>10, <2>1, <2>2, <2>3 DEF LeaseInv
    <2>6. \A x1, x2 \in Reqs :
             Holding(x1)' /\ Holding(x2)' /\ req'[x1].up = req'[x2].up => x1 = x2
      BY <1>2, <1>3, <1>10, <2>1, <2>3 DEF LeaseInv, ExclusiveFinalizer
    <2> QED
      BY <2>4, <2>5, <2>6 DEF LeaseInv, ExclusiveFinalizer, Holding
  <1> QED
    BY <1>7, <1>8, <1>9, <1>10 DEF IInv

\* The steps of a claim's holder that leave the rows alone.
LEMMA HolderSteps ==
    ASSUME IInv, NEW r \in Reqs, TypeInv',
           CompleteTouch(r) \/ AssemblePart(r) \/ AssembleFails(r) \/ Publish(r)
    PROVE  IInv' /\ (LeaseInv => LeaseInv')
  <1> USE DEF rowVars, outcomeVars
  <1>0. TypeInv /\ InitiateInv /\ CopyInv /\ ProgressHasOpenUpload
    BY DEF IInv
  <1>a. req[r] \in Request
    BY <1>0 DEF TypeInv, TypeOK, RequestTypeOK
  <1>1. /\ req[r].pc \in {"completeTouch", "assemble"}
        /\ req'[r].pc \in HoldingPCs
        /\ req'[r].up = req[r].up
        /\ \A y \in Reqs : y # r => req'[y] = req[y]
    <2>1. CASE CompleteTouch(r) \/ AssembleFails(r) \/ Publish(r)
      BY <1>0, <2>1, GotoSlot DEF CompleteTouch, AssembleFails, Publish, At, HoldingPCs
    <2>2. CASE AssemblePart(r)
      <3> DEFINE n == Len(req[r].content) + 1
      <3>1. CASE staged[req[r].up][n] = req[r].manifest[n]
        <4> DEFINE x == [req[r] EXCEPT !.content = Append(req[r].content, req[r].manifest[n])]
        <4>1. req' = [req EXCEPT ![r] = x]
          BY <2>2, <3>1 DEF AssemblePart
        <4>2. x.pc = req[r].pc /\ x.up = req[r].up
          BY <1>a DEF Request
        <4> HIDE DEF x
        <4>3. req'[r] = x /\ \A y \in Reqs : y # r => req'[y] = req[y]
          BY <1>0, <4>1, OneSlot
        <4> QED
          BY <2>2, <4>2, <4>3 DEF AssemblePart, At, HoldingPCs
      <3>2. CASE staged[req[r].up][n] # req[r].manifest[n]
        BY <1>0, <2>2, <3>2, GotoSlot DEF AssemblePart, At, HoldingPCs
      <3> QED
        BY <3>1, <3>2
    <2> QED
      BY <2>1, <2>2
  <1>2. UNCHANGED <<status, claimAge, known, progress>> /\ published \subseteq published'
    BY DEF CompleteTouch, AssemblePart, AssembleFails, Publish
  <1>3. InitiateInv'
    <2>1. req[r].pc \in HoldingPCs /\ req'[r].pc \notin InitiatingPCs
      BY <1>1 DEF HoldingPCs, InitiatingPCs
    <2> QED
      BY <1>0, <1>1, <1>2, <2>1 DEF InitiateInv, Holding
  <1>4. CopyInv'
    <2>1. \A y \in Reqs : y # r =>
            /\ req'[y].pc \in {"completeTouch", "assemble"} =>
                  /\ req'[y].manifest \in Manifests
                  /\ Len(req'[y].content) <= Len(req'[y].manifest)
                  /\ \A i \in 1..Len(req'[y].content) : req'[y].content[i] = req'[y].manifest[i]
            /\ req'[y].pc = "commit" => req'[y].up \in published'
      BY <1>0, <1>1, <1>2 DEF CopyInv
    <2>2. /\ req'[r].pc \in {"completeTouch", "assemble"} =>
                /\ req'[r].manifest \in Manifests
                /\ Len(req'[r].content) <= Len(req'[r].manifest)
                /\ \A i \in 1..Len(req'[r].content) : req'[r].content[i] = req'[r].manifest[i]
          /\ req'[r].pc = "commit" => req'[r].up \in published'
      <3>1. CASE CompleteTouch(r)
        BY <1>0, <1>1, <3>1, GotoSlot DEF CompleteTouch, CopyInv
      <3>2. CASE AssembleFails(r)
        BY <1>0, <3>2, GotoSlot DEF AssembleFails
      <3>3. CASE Publish(r)
        BY <1>0, <3>3, GotoSlot DEF Publish
      <3>4. CASE AssemblePart(r)
        <4> DEFINE n == Len(req[r].content) + 1
                   c == Append(req[r].content, req[r].manifest[n])
                   x == [req[r] EXCEPT !.content = c]
        <4>1. /\ req[r].pc = "assemble"
              /\ req[r].manifest \in Manifests
              /\ Len(req[r].content) <= Len(req[r].manifest)
              /\ \A i \in 1..Len(req[r].content) : req[r].content[i] = req[r].manifest[i]
              /\ n <= Len(req[r].manifest)
          BY <1>0, <3>4 DEF AssemblePart, At, CopyInv
        <4>2. CASE staged[req[r].up][n] = req[r].manifest[n]
          <5>1. req' = [req EXCEPT ![r] = x]
            BY <3>4, <4>2 DEF AssemblePart
          <5>2. x.pc = "assemble" /\ x.manifest = req[r].manifest /\ x.content = c
            BY <1>a, <4>1 DEF Request
          <5>3. req[r].content \in Seq(Sizes)
            BY <1>a DEF Request
          <5>4. Len(c) = n /\ c[n] = req[r].manifest[n]
                /\ \A i \in 1..Len(req[r].content) : c[i] = req[r].content[i]
            BY <5>3
          <5>5. \A i \in 1..Len(c) : c[i] = req[r].manifest[i]
            <6>1. Len(req[r].content) \in Nat
              BY <5>3
            <6>2. \A i \in 1..n : i = n \/ i \in 1..Len(req[r].content)
              BY <6>1
            <6> HIDE DEF c
            <6> QED
              BY <4>1, <5>4, <6>2
          <5> HIDE DEF x, c
          <5>6. req'[r] = x
            BY <1>0, <5>1, OneSlot
          <5> QED
            BY <4>1, <5>2, <5>4, <5>5, <5>6
        <4>3. CASE staged[req[r].up][n] # req[r].manifest[n]
          BY <1>0, <3>4, <4>3, GotoSlot DEF AssemblePart
        <4> QED
          BY <4>2, <4>3
      <3> QED
        BY <3>1, <3>2, <3>3, <3>4
    <2> QED
      BY <2>1, <2>2 DEF CopyInv
  <1>5. ProgressHasOpenUpload'
    BY <1>0, <1>2 DEF ProgressHasOpenUpload
  <1>6. LeaseInv => LeaseInv'
    <2>1. \A x \in Reqs : (Holding(x)' => Holding(x)) /\ req'[x].up = req[x].up
      BY <1>1 DEF Holding, HoldingPCs
    <2> QED
      BY <1>2, <2>1 DEF LeaseInv, ExclusiveFinalizer, Holding
  <1> QED
    BY <1>3, <1>4, <1>5, <1>6 DEF IInv

\* The steps that write a row and end a claim, or need none: the handler
\* leaves the tracked ones.
LEMMA EndingSteps ==
    ASSUME IInv, NEW r \in Reqs, TypeInv',
           Release(r) \/ Commit(r) \/ (\E u \in Uploads : AbortRow(r, u))
    PROVE  IInv' /\ (LeaseInv => LeaseInv')
  <1>0. TypeInv /\ InitiateInv /\ CopyInv /\ ProgressHasOpenUpload
    BY DEF IInv
  <1>a. /\ status \in [Uploads -> {"none", "uploading", "finalizing", "completed", "aborted"}]
        /\ claimAge \in [Uploads -> 0..LeaseAge + 1]
        /\ known \subseteq Uploads
    BY <1>0 DEF TypeInv, TypeOK, RowTypeOK
  <1>b. \A x \in Reqs : req[x].pc # "idle" => req[x].up \in Uploads
    BY <1>0 DEF TypeInv, Working
  <1>1. PICK u \in Uploads :
          /\ u \in known
          /\ status'[u] # "none"
          /\ \A v \in Uploads : v # u => status'[v] = status[v] /\ claimAge'[v] = claimAge[v]
          /\ \/ Holding(r) /\ req[r].up = u
             \/ status[u] # "finalizing"
          /\ \/ progress' = FALSE
             \/ progress' = progress /\ (status'[u] = status[u] \/ status'[u] = "uploading")
          /\ UNCHANGED <<known, published>>
    <2>1. CASE Release(r)
      <3>1. Holding(r) /\ req[r].up \in known /\ req[r].up \in Uploads
        BY <1>0, <1>b, <2>1 DEF Release, At, Holding, HoldingPCs, InitiateInv
      <3> QED
        BY <1>0, <1>a, <2>1, <3>1 DEF Release, InitiateInv, outcomeVars
    <2>2. CASE Commit(r)
      <3>1. Holding(r) /\ req[r].up \in known /\ req[r].up \in Uploads
        BY <1>0, <1>b, <2>2 DEF Commit, At, Holding, HoldingPCs, InitiateInv
      <3> QED
        BY <1>a, <2>2, <3>1 DEF Commit, outcomeVars
    <2>3. ASSUME NEW u \in Uploads, AbortRow(r, u)
          PROVE  /\ u \in known
                 /\ status'[u] # "none"
                 /\ \A v \in Uploads : v # u => status'[v] = status[v] /\ claimAge'[v] = claimAge[v]
                 /\ status[u] # "finalizing"
                 /\ progress' = FALSE
                 /\ UNCHANGED <<known, published>>
      BY <1>a, <2>3 DEF AbortRow, Abortable, outcomeVars
    <2> QED
      BY <2>1, <2>2, <2>3
  <1>2. /\ ~Tracked(req'[r].pc)
        /\ \A y \in Reqs : y # r => req'[y] = req[y]
    <2>1. CASE Release(r)
      BY <1>0, <2>1, DoneSlot, IdleUntracked DEF Release
    <2>2. CASE Commit(r)
      BY <1>0, <2>2, GotoSlot DEF Commit, Tracked, InitiatingPCs, HoldingPCs
    <2>3. ASSUME NEW v \in Uploads, AbortRow(r, v)
          PROVE  /\ ~Tracked(req'[r].pc)
                 /\ \A y \in Reqs : y # r => req'[y] = req[y]
      <3>1. req'[r] = [Idle EXCEPT !.pc = "cleanup", !.up = v]
            /\ \A y \in Reqs : y # r => req'[y] = req[y]
        BY <1>0, <2>3, OneSlot DEF AbortRow, Begin
      <3>2. req'[r].pc = "cleanup"
        BY <3>1 DEF Idle
      <3> QED
        BY <3>1, <3>2 DEF Tracked, InitiatingPCs, HoldingPCs
    <2> QED
      BY <2>1, <2>2, <2>3
  <1>3. \A x \in Reqs : Tracked(req'[x].pc) => x # r /\ req'[x] = req[x]
    BY <1>2
  <1>4. InitiateInv'
    <2>1. \A x \in Reqs : req'[x].pc \in InitiatingPCs =>
            x # r /\ req'[x] = req[x] /\ req[x].up # u /\ req[x].up \in Uploads
      BY <1>0, <1>b, <1>1, <1>3 DEF InitiateInv, Tracked, InitiatingPCs
    <2>2. \A x \in Reqs : Holding(x)' => req'[x] = req[x]
      BY <1>3 DEF Tracked, Holding
    <2>3. \A v \in known' : status'[v] # "none"
      BY <1>0, <1>a, <1>1 DEF InitiateInv
    <2>4. \A x \in Reqs : req'[x].pc \in InitiatingPCs =>
              status'[req'[x].up] = "uploading" /\ req'[x].up \notin known'
      BY <1>0, <1>1, <2>1 DEF InitiateInv
    <2>5. \A x1, x2 \in Reqs :
              /\ req'[x1].pc \in InitiatingPCs
              /\ req'[x2].pc \in InitiatingPCs
              /\ req'[x1].up = req'[x2].up
              => x1 = x2
      BY <1>0, <2>1 DEF InitiateInv
    <2>6. \A x \in Reqs : Holding(x)' => req'[x].up \in known'
      BY <1>0, <1>1, <2>2 DEF InitiateInv, Holding
    <2> QED
      BY <2>3, <2>4, <2>5, <2>6 DEF InitiateInv, Holding
  <1>5. CopyInv'
    <2>1. \A x \in Reqs : req'[x].pc \in {"completeTouch", "assemble", "commit"} => req'[x] = req[x]
      BY <1>3 DEF Tracked, HoldingPCs
    <2> QED
      BY <1>0, <1>1, <2>1 DEF CopyInv
  <1>6. ProgressHasOpenUpload'
    <2>1. CASE progress' = FALSE
      BY <2>1 DEF ProgressHasOpenUpload
    <2>2. CASE progress' = progress /\ (status'[u] = status[u] \/ status'[u] = "uploading")
      BY <1>0, <1>1, <2>2 DEF ProgressHasOpenUpload
    <2> QED
      BY <1>1, <2>1, <2>2
  <1>7. LeaseInv => LeaseInv'
    <2> SUFFICES ASSUME LeaseInv PROVE LeaseInv'
      OBVIOUS
    <2>1. \A x \in Reqs : Holding(x)' => x # r /\ Holding(x) /\ req'[x] = req[x]
      BY <1>3 DEF Tracked, Holding
    <2>2. \A x \in Reqs : x # r /\ Holding(x) => req[x].up # u /\ req[x].up \in Uploads
      BY <1>b, <1>1 DEF LeaseInv, ExclusiveFinalizer, Holding, HoldingPCs
    <2> QED
      BY <1>1, <2>1, <2>2 DEF LeaseInv, ExclusiveFinalizer
  <1> QED
    BY <1>4, <1>5, <1>6, <1>7 DEF IInv

LEMMA TickStep ==
    ASSUME IInv, Tick, TypeInv'
    PROVE  IInv' /\ (LeaseInv => LeaseInv')
  <1>1. /\ UNCHANGED <<status, known, published, progress, req>>
        /\ \A r \in Reqs : Holding(r) => claimAge[req[r].up] < AssemblyBound
    BY DEF Tick, outcomeVars
  <1>2. Quiet
    BY <1>1 DEF Quiet, SameWork
  <1>3. LeaseInv => LeaseInv'
    <2> SUFFICES ASSUME LeaseInv PROVE LeaseInv'
      OBVIOUS
    <2>1. ASSUME NEW r \in Reqs, Holding(r)
          PROVE  claimAge'[req[r].up] <= AssemblyBound
      <3>1. req[r].up \in Uploads /\ status[req[r].up] = "finalizing"
        BY <2>1 DEF LeaseInv, ExclusiveFinalizer, IInv, TypeInv, Working, Holding, HoldingPCs
      <3>2. claimAge[req[r].up] \in 0..LeaseAge + 1 /\ claimAge[req[r].up] < AssemblyBound
        BY <1>1, <2>1, <3>1 DEF IInv, TypeInv, TypeOK, RowTypeOK
      <3>3. claimAge'[req[r].up] = Older(claimAge[req[r].up], LeaseAge)
        BY <3>1 DEF Tick
      <3>4. Older(claimAge[req[r].up], LeaseAge) <= claimAge[req[r].up] + 1
        BY <3>2, OlderType, ConstantsAssumption
      <3>5. Older(claimAge[req[r].up], LeaseAge) \in Nat
        BY <3>2, ConstantsAssumption DEF Older
      <3> QED
        BY <3>2, <3>3, <3>4, <3>5, ConstantsAssumption
    <2> QED
      BY <1>1, <2>1 DEF LeaseInv, ExclusiveFinalizer, Holding
  <1> QED
    BY <1>2, <1>3, QuietStep

LEMMA InvInit == Init => IInv /\ LeaseInv
  <1> SUFFICES ASSUME Init PROVE IInv /\ LeaseInv
    OBVIOUS
  <1>1. \A r \in Reqs : req[r].pc = "idle" /\ ~Tracked(req[r].pc)
    BY IdleRequest, IdleUntracked DEF Init
  <1>2. InitiateInv /\ LeaseInv
    BY <1>1 DEF Init, InitiateInv, LeaseInv, ExclusiveFinalizer, Tracked, Holding
  <1>3. CopyInv
    BY <1>1 DEF CopyInv
  <1>4. ProgressHasOpenUpload
    BY DEF Init, ProgressHasOpenUpload
  <1> QED
    BY <1>2, <1>3, <1>4, TypeInit DEF IInv

\* Every step keeps the invariant, and the lease too if claims are held for no
\* longer than it lasts.
LEMMA InvStep ==
    ASSUME IInv, [Next]_vars
    PROVE  IInv' /\ (LeaseInv /\ AssemblyBound <= LeaseAge => LeaseInv')
  <1>1. TypeInv'
    BY TypeStep DEF IInv
  <1>2. CASE UNCHANGED vars
    BY <1>1, <1>2, QuietStep DEF vars, Quiet, SameWork
  <1>3. ASSUME NEW r \in Reqs, Arrival(r)
        PROVE  IInv' /\ (LeaseInv /\ AssemblyBound <= LeaseAge => LeaseInv')
    <2>1. PICK u \in Uploads :
            \/ InitiateInsert(r, u)
            \/ \E p \in PartNumbers : PresignCheck(r, u, p)
            \/ \E p \in PartNumbers, s \in Sizes : PutBegin(r, u, p, s)
            \/ \E m \in Manifests : CompleteClaim(r, u, m)
            \/ AbortRow(r, u)
      BY <1>3 DEF Arrival
    <2>2. CASE InitiateInsert(r, u)
      BY <1>1, <2>2, InitiateSteps
    <2>3. CASE \/ \E p \in PartNumbers : PresignCheck(r, u, p)
               \/ \E p \in PartNumbers, s \in Sizes : PutBegin(r, u, p, s)
      BY <1>1, <2>3, QuietSteps, QuietStep
    <2>4. CASE \E m \in Manifests : CompleteClaim(r, u, m)
      BY <1>1, <2>4, ClaimStep
    <2>5. CASE AbortRow(r, u)
      BY <1>1, <2>5, EndingSteps
    <2> QED
      BY <2>1, <2>2, <2>3, <2>4, <2>5
  <1>4. ASSUME NEW r \in Reqs, Continue(r)
        PROVE  IInv' /\ (LeaseInv /\ AssemblyBound <= LeaseAge => LeaseInv')
    <2>1. CASE InitiateTouch(r) \/ InitiateProgress(r)
      BY <1>1, <2>1, InitiateSteps
    <2>2. CASE PresignTouch(r) \/ PutRename(r) \/ PutTouch(r) \/ Cleanup(r)
      BY <1>1, <2>2, QuietSteps, QuietStep
    <2>3. CASE CompleteTouch(r) \/ AssemblePart(r) \/ Publish(r)
      BY <1>1, <2>3, HolderSteps
    <2>4. CASE Release(r) \/ Commit(r)
      BY <1>1, <2>4, EndingSteps
    <2> QED
      BY <1>4, <2>1, <2>2, <2>3, <2>4 DEF Continue
  <1>5. ASSUME NEW r \in Reqs, AssembleFails(r) \/ Drop(r)
        PROVE  IInv' /\ (LeaseInv /\ AssemblyBound <= LeaseAge => LeaseInv')
    BY <1>1, <1>5, HolderSteps, QuietSteps, QuietStep
  <1>6. CASE SweepStep \/ Crash
    <2>1. CASE Reqs = {}
      <3>1. UNCHANGED rowVars /\ UNCHANGED outcomeVars /\ UNCHANGED progress
        <4>1. CASE SweepStart
          BY <4>1 DEF SweepStart
        <4>2. CASE \E u \in Uploads : SweepExamine(u)
          BY <4>2 DEF SweepExamine
        <4>3. CASE SweepRemove
          BY <4>3 DEF SweepRemove
        <4>4. CASE Crash
          BY <4>4 DEF Crash
        <4> QED
          BY <1>6, <4>1, <4>2, <4>3, <4>4 DEF SweepStep
      <3>2. Quiet /\ UNCHANGED claimAge
        BY <2>1, <3>1 DEF Quiet, rowVars, outcomeVars
      <3> QED
        BY <1>1, <3>2, QuietStep
    <2>2. CASE \E r \in Reqs : TRUE
      BY <1>1, <1>6, <2>2, QuietSteps, QuietStep
    <2> QED
      BY <2>1, <2>2
  <1>7. CASE Tick
    BY <1>1, <1>7, TickStep
  <1> QED
    BY <1>2, <1>3, <1>4, <1>5, <1>6, <1>7 DEF Next
-----------------------------------------------------------------------------
(* The theorems.                                                           *)

LEMMA InvAlways == Spec => []IInv
  <1>1. IInv /\ [Next]_vars => IInv'
    BY InvStep
  <1> QED
    BY <1>1, InvInit, PTL DEF Spec

LEMMA LeaseAlways ==
    ASSUME AssemblyBound <= LeaseAge
    PROVE  Spec => [](IInv /\ LeaseInv)
  <1>1. IInv /\ LeaseInv /\ [Next]_vars => (IInv /\ LeaseInv)'
    BY InvStep
  <1> QED
    BY <1>1, InvInit, PTL DEF Spec

\* Whatever happens to handlers, clients and the process, and however long an
\* assembly takes, the row that announces a multipart upload in progress never
\* outlives the last open upload of the video.
THEOREM ProgressCorrect == Spec => []ProgressHasOpenUpload
  <1>1. IInv => ProgressHasOpenUpload
    BY DEF IInv
  <1> QED
    BY <1>1, InvAlways, PTL

\* If no handler keeps a claim longer than the lease, a claim is exclusive and
\* its row stays 'finalizing' until the handler that took it ends it.
THEOREM LeaseCorrect ==
    ASSUME AssemblyBound <= LeaseAge
    PROVE  Spec => []ExclusiveFinalizer
  <1>1. LeaseInv => ExclusiveFinalizer
    BY DEF LeaseInv
  <1> QED
    BY <1>1, LeaseAlways, PTL

\* An ended upload keeps its outcome: the final UPDATE of complete has no
\* condition on the status, and needs none while claims are exclusive.
LEMMA EndedStep ==
    ASSUME IInv, LeaseInv, [Next]_vars, NEW u \in Uploads, status[u] \in Ended
    PROVE  status'[u] = status[u]
  <1>a. status \in [Uploads -> {"none", "uploading", "finalizing", "completed", "aborted"}]
    BY DEF IInv, TypeInv, TypeOK, RowTypeOK
  <1>b. status[u] \notin {"none", "uploading", "finalizing"}
    BY DEF Ended
  <1> USE DEF rowVars
  <1>1. CASE UNCHANGED vars
    BY <1>1 DEF vars
  <1>2. ASSUME NEW r \in Reqs, Arrival(r)
        PROVE  status'[u] = status[u]
    <2>1. PICK v \in Uploads :
            \/ InitiateInsert(r, v)
            \/ \E p \in PartNumbers : PresignCheck(r, v, p)
            \/ \E p \in PartNumbers, s \in Sizes : PutBegin(r, v, p, s)
            \/ \E m \in Manifests : CompleteClaim(r, v, m)
            \/ AbortRow(r, v)
      BY <1>2 DEF Arrival
    <2>2. CASE InitiateInsert(r, v)
      BY <1>a, <1>b, <2>2 DEF InitiateInsert
    <2>3. CASE \E p \in PartNumbers : PresignCheck(r, v, p)
      BY <2>3 DEF PresignCheck
    <2>4. CASE \E p \in PartNumbers, s \in Sizes : PutBegin(r, v, p, s)
      BY <2>4 DEF PutBegin
    <2>5. CASE \E m \in Manifests : CompleteClaim(r, v, m)
      BY <1>a, <1>b, <2>5 DEF CompleteClaim, Claimable
    <2>6. CASE AbortRow(r, v)
      BY <1>a, <1>b, <2>6 DEF AbortRow, Abortable, Ended
    <2> QED
      BY <2>1, <2>2, <2>3, <2>4, <2>5, <2>6
  <1>3. ASSUME NEW r \in Reqs, Continue(r)
        PROVE  status'[u] = status[u]
    <2>1. CASE Release(r)
      BY <1>a, <1>b, <2>1 DEF Release
    <2>2. CASE Commit(r)
      <3>1. Holding(r) /\ status[req[r].up] = "finalizing"
        BY <2>2 DEF Commit, At, Holding, HoldingPCs, LeaseInv, ExclusiveFinalizer
      <3> QED
        BY <1>a, <1>b, <2>2, <3>1 DEF Commit
    <2>3. CASE ~Release(r) /\ ~Commit(r)
      BY <1>3, <2>3 DEF Continue, InitiateTouch, InitiateProgress, PresignTouch, PutRename,
         PutTouch, CompleteTouch, AssemblePart, Publish, Cleanup
    <2> QED
      BY <2>1, <2>2, <2>3
  <1>4. ASSUME NEW r \in Reqs, AssembleFails(r) \/ Drop(r)
        PROVE  status'[u] = status[u]
    BY <1>4 DEF AssembleFails, Drop
  <1>5. CASE SweepStep
    BY <1>5 DEF SweepStep, SweepStart, SweepExamine, SweepRemove
  <1>6. CASE Crash \/ Tick
    BY <1>6 DEF Crash, Tick
  <1> QED
    BY <1>1, <1>2, <1>3, <1>4, <1>5, <1>6 DEF Next

\* A completed upload stays completed and an aborted one aborted, if no
\* handler keeps a claim longer than the lease.
THEOREM OutcomeIsFinal ==
    ASSUME AssemblyBound <= LeaseAge
    PROVE  Spec => TerminalIsFinal
  <1>1. IInv /\ LeaseInv /\ [Next]_vars =>
            [\A u \in Uploads : status[u] \in Ended => status'[u] = status[u]]_vars
    BY EndedStep
  <1> QED
    BY <1>1, LeaseAlways, PTL DEF Spec, TerminalIsFinal
-----------------------------------------------------------------------------
(* What needs no assumption on time.                                       *)

\* The destination holds nothing, or every part of a list some client asked
\* for, in order; and who is called completed was published.
WholeInv ==
    /\ object = NoObject
       \/ (/\ object.upload \in published
           /\ object.manifest \in Manifests
           /\ object.content = object.manifest)
    /\ \A u \in Uploads : status[u] = "completed" => u \in published

LEMMA WholeCopy ==
    ASSUME IInv, NEW r \in Reqs, Publish(r)
    PROVE  req[r].manifest \in Manifests /\ req[r].content = req[r].manifest
  <1> DEFINE c == req[r].content
             m == req[r].manifest
  <1>1. /\ m \in Manifests
        /\ Len(c) = Len(m)
        /\ \A i \in 1..Len(c) : c[i] = m[i]
    BY DEF Publish, At, IInv, CopyInv
  <1>2. c \in Seq(Sizes)
    BY DEF IInv, TypeInv, TypeOK, RequestTypeOK, Request
  <1>3. m \in Seq(Sizes)
    BY <1>1 DEF Manifests
  <1> HIDE DEF c, m
  <1>4. c = m
    BY <1>1, <1>2, <1>3
  <1> QED
    BY <1>1, <1>4 DEF c, m

\* Only these steps write the destination or call an upload completed.
LEMMA OutcomeWriters ==
    ASSUME IInv, [Next]_vars
    PROVE  \/ \E r \in Reqs : Publish(r) \/ Commit(r)
           \/ /\ UNCHANGED outcomeVars
              /\ \A u \in Uploads : status'[u] = "completed" => status[u] = "completed"
  <1> DEFINE Kept == /\ UNCHANGED outcomeVars
                     /\ \A u \in Uploads : status'[u] = "completed" => status[u] = "completed"
  <1> USE DEF rowVars, outcomeVars
  <1>0. status \in [Uploads -> {"none", "uploading", "finalizing", "completed", "aborted"}]
    BY DEF IInv, TypeInv, TypeOK, RowTypeOK
  <1>1. ASSUME NEW r \in Reqs, NEW u \in Uploads,
               InitiateInsert(r, u) \/ (\E m \in Manifests : CompleteClaim(r, u, m)) \/ AbortRow(r, u)
        PROVE  Kept
    BY <1>0, <1>1 DEF InitiateInsert, CompleteClaim, AbortRow
  <1>2. ASSUME NEW r \in Reqs, NEW u \in Uploads,
               \/ \E p \in PartNumbers : PresignCheck(r, u, p)
               \/ \E p \in PartNumbers, s \in Sizes : PutBegin(r, u, p, s)
        PROVE  Kept
    BY <1>2 DEF PresignCheck, PutBegin
  <1>3. ASSUME NEW r \in Reqs, Arrival(r)
        PROVE  Kept
    BY <1>1, <1>2, <1>3 DEF Arrival
  <1>4. ASSUME NEW r \in Reqs, Release(r)
        PROVE  Kept
    BY <1>0, <1>4 DEF Release
  <1>5. ASSUME NEW r \in Reqs, Continue(r), ~Publish(r), ~Commit(r), ~Release(r)
        PROVE  Kept
    BY <1>5 DEF Continue, InitiateTouch, InitiateProgress, PresignTouch, PutRename, PutTouch,
       CompleteTouch, AssemblePart, Cleanup
  <1>6. ASSUME NEW r \in Reqs, AssembleFails(r) \/ Drop(r)
        PROVE  Kept
    BY <1>6 DEF AssembleFails, Drop
  <1>7. CASE SweepStep
    BY <1>7 DEF SweepStep, SweepStart, SweepExamine, SweepRemove
  <1>8. CASE Crash \/ Tick \/ UNCHANGED vars
    BY <1>8 DEF Crash, Tick, vars
  <1> QED
    BY <1>3, <1>4, <1>5, <1>6, <1>7, <1>8 DEF Next

LEMMA WholeStep ==
    ASSUME IInv, WholeInv, [Next]_vars
    PROVE  WholeInv'
  <1>1. ASSUME NEW r \in Reqs, Publish(r)
        PROVE  WholeInv'
    <2>1. /\ object'.upload = req[r].up /\ req[r].up \in published'
          /\ object'.manifest = req[r].manifest /\ object'.content = req[r].content
          /\ published \subseteq published' /\ UNCHANGED status
      BY <1>1 DEF Publish, rowVars
    <2> QED
      BY <1>1, <2>1, WholeCopy DEF WholeInv
  <1>2. ASSUME NEW r \in Reqs, Commit(r)
        PROVE  WholeInv'
    <2>1. UNCHANGED <<object, published>> /\ req[r].up \in published
      BY <1>2 DEF Commit, outcomeVars, At, IInv, CopyInv
    <2>2. \A u \in Uploads : status'[u] = "completed" => status[u] = "completed" \/ u = req[r].up
      BY <1>2 DEF Commit, IInv, TypeInv, TypeOK, RowTypeOK
    <2> QED
      BY <2>1, <2>2 DEF WholeInv
  <1>3. CASE /\ UNCHANGED outcomeVars
             /\ \A u \in Uploads : status'[u] = "completed" => status[u] = "completed"
    BY <1>3 DEF WholeInv, outcomeVars
  <1> QED
    BY <1>1, <1>2, <1>3, OutcomeWriters

\* Even if handlers outlast their lease, so that two assemble one upload and
\* outcomes change: a player never meets half a file or a mixture of two, and
\* nothing is called completed that was not published.
THEOREM OnlyWholeFiles == Spec => []WholeInv
  <1>1. Init => WholeInv
    BY DEF Init, WholeInv
  <1>2. IInv /\ WholeInv /\ [Next]_vars => WholeInv'
    BY WholeStep
  <1> QED
    BY <1>1, <1>2, InvAlways, PTL DEF Spec
-----------------------------------------------------------------------------
(* Refinement: MultipartUpload implements UploadContract.                  *)

LEMMA ContractInit == Init => Contract!Init
  BY DEF Init, Contract!Init, Phase, NoObject, Contract!NoObject

\* A step that changes no status and publishes nothing is a stutter.
LEMMA ContractStutter ==
    ASSUME UNCHANGED <<status, object, published>>
    PROVE  UNCHANGED Contract!vars
  BY DEF Contract!vars, Phase

\* What a status change does to the phases.
LEMMA PhaseChange ==
    ASSUME TypeOK, NEW u \in Uploads, TypeOK',
           \A v \in Uploads : v # u => status'[v] = status[v]
    PROVE  Phase' = [Phase EXCEPT ![u] = Phase'[u]]
  BY DEF Phase

LEMMA ContractStep ==
    ASSUME IInv, LeaseInv, [Next]_vars
    PROVE  [Contract!Next]_(Contract!vars)
  <1>a. TypeOK /\ TypeOK'
    BY TypeStep DEF IInv, TypeInv
  <1>b. /\ status \in [Uploads -> {"none", "uploading", "finalizing", "completed", "aborted"}]
        /\ \A x \in Reqs : req[x].pc # "idle" => req[x].up \in Uploads
    BY DEF IInv, TypeInv, TypeOK, RowTypeOK, Working
  <1> USE DEF rowVars, outcomeVars
  <1>1. ASSUME NEW r \in Reqs, NEW u \in Uploads, InitiateInsert(r, u)
        PROVE  Contract!Open(u)
    <2>1. Phase[u] = "absent" /\ Phase'[u] = "open"
      BY <1>b, <1>1 DEF InitiateInsert, Phase
    <2>2. Phase' = [Phase EXCEPT ![u] = "open"]
      BY <1>a, <1>b, <1>1, <2>1, PhaseChange DEF InitiateInsert
    <2> QED
      BY <1>1, <2>1, <2>2 DEF InitiateInsert, Contract!Open
  <1>2. ASSUME NEW r \in Reqs, NEW u \in Uploads, NEW m \in Manifests, CompleteClaim(r, u, m)
        PROVE  UNCHANGED Contract!vars
    <2>1. Phase[u] = "open" /\ Phase'[u] = "open"
      BY <1>b, <1>2 DEF CompleteClaim, Claimable, Phase
    <2>2. Phase' = [Phase EXCEPT ![u] = "open"]
      BY <1>a, <1>b, <1>2, <2>1, PhaseChange DEF CompleteClaim
    <2> QED
      BY <1>2, <2>1, <2>2 DEF CompleteClaim, Contract!vars, Phase
  <1>3. ASSUME NEW r \in Reqs, NEW u \in Uploads, AbortRow(r, u)
        PROVE  Contract!Abort(u) \/ UNCHANGED Contract!vars
    <2>1. CASE status[u] = "uploading"
      <3>1. Phase[u] = "open" /\ Phase'[u] = "aborted"
        BY <1>b, <1>3, <2>1 DEF AbortRow, Phase
      <3>2. Phase' = [Phase EXCEPT ![u] = "aborted"]
        BY <1>a, <1>b, <1>3, <3>1, PhaseChange DEF AbortRow
      <3> QED
        BY <1>3, <3>1, <3>2 DEF AbortRow, Contract!Abort
    <2>2. CASE status[u] = "aborted"
      BY <1>b, <1>3, <2>2, ContractStutter DEF AbortRow
    <2> QED
      BY <1>b, <1>3, <2>1, <2>2 DEF AbortRow, Abortable
  <1>4. ASSUME NEW r \in Reqs, Publish(r)
        PROVE  Contract!Publish(req[r].up)
    <2>1. req[r].up \in Uploads /\ status[req[r].up] = "finalizing"
      BY <1>b, <1>4 DEF Publish, At, Holding, HoldingPCs, LeaseInv, ExclusiveFinalizer
    <2>2. object' = Contract!WholeObject(req[r].up, req[r].manifest)
      BY <1>4, WholeCopy DEF Publish, Contract!WholeObject
    <2>3. Phase[req[r].up] = "open" /\ Phase' = Phase
      BY <1>4, <2>1 DEF Publish, Phase
    <2> QED
      BY <1>4, <2>2, <2>3, WholeCopy DEF Publish, Contract!Publish
  <1>5. ASSUME NEW r \in Reqs, Release(r)
        PROVE  UNCHANGED Contract!vars
    <2>1. req[r].up \in Uploads /\ status[req[r].up] = "finalizing"
      BY <1>b, <1>5 DEF Release, At, Holding, HoldingPCs, LeaseInv, ExclusiveFinalizer
    <2>2. Phase[req[r].up] = "open" /\ Phase'[req[r].up] = "open"
      BY <1>b, <1>5, <2>1 DEF Release, Phase
    <2>3. Phase' = [Phase EXCEPT ![req[r].up] = "open"]
      BY <1>a, <1>b, <1>5, <2>1, <2>2, PhaseChange DEF Release
    <2> QED
      BY <1>5, <2>1, <2>2, <2>3 DEF Release, Contract!vars, Phase
  <1>6. ASSUME NEW r \in Reqs, Commit(r)
        PROVE  Contract!Complete(req[r].up)
    <2>1. req[r].up \in Uploads /\ status[req[r].up] = "finalizing"
      BY <1>b, <1>6 DEF Commit, At, Holding, HoldingPCs, LeaseInv, ExclusiveFinalizer
    <2>2. req[r].up \in published
      BY <1>6 DEF Commit, At, IInv, CopyInv
    <2>3. Phase[req[r].up] = "open" /\ Phase'[req[r].up] = "completed"
      BY <1>b, <1>6, <2>1 DEF Commit, Phase
    <2>4. Phase' = [Phase EXCEPT ![req[r].up] = "completed"]
      BY <1>a, <1>b, <1>6, <2>1, <2>3, PhaseChange DEF Commit
    <2> QED
      BY <1>6, <2>2, <2>3, <2>4 DEF Commit, Contract!Complete
  <1>7. ASSUME NEW r \in Reqs, Arrival(r)
        PROVE  [Contract!Next]_(Contract!vars)
    <2>1. PICK u \in Uploads :
            \/ InitiateInsert(r, u)
            \/ \E p \in PartNumbers : PresignCheck(r, u, p)
            \/ \E p \in PartNumbers, s \in Sizes : PutBegin(r, u, p, s)
            \/ \E m \in Manifests : CompleteClaim(r, u, m)
            \/ AbortRow(r, u)
      BY <1>7 DEF Arrival
    <2>2. CASE InitiateInsert(r, u)
      BY <1>1, <2>2 DEF Contract!Next
    <2>3. CASE \E p \in PartNumbers : PresignCheck(r, u, p)
      BY <2>3, ContractStutter DEF PresignCheck
    <2>4. CASE \E p \in PartNumbers, s \in Sizes : PutBegin(r, u, p, s)
      BY <2>4, ContractStutter DEF PutBegin
    <2>5. CASE \E m \in Manifests : CompleteClaim(r, u, m)
      BY <1>2, <2>5
    <2>6. CASE AbortRow(r, u)
      BY <1>3, <2>6 DEF Contract!Next
    <2> QED
      BY <2>1, <2>2, <2>3, <2>4, <2>5, <2>6
  <1>8. ASSUME NEW r \in Reqs, Continue(r)
        PROVE  [Contract!Next]_(Contract!vars)
    <2>1. CASE Publish(r) \/ Commit(r)
      <3>1. req[r].up \in Uploads
        BY <1>b, <2>1 DEF Publish, Commit, At
      <3> QED
        BY <1>4, <1>6, <2>1, <3>1 DEF Contract!Next
    <2>2. CASE Release(r)
      BY <1>5, <2>2
    <2>3. CASE ~Publish(r) /\ ~Commit(r) /\ ~Release(r)
      <3>1. UNCHANGED <<status, object, published>>
        BY <1>8, <2>3 DEF Continue, InitiateTouch, InitiateProgress, PresignTouch, PutRename,
           PutTouch, CompleteTouch, AssemblePart, Cleanup
      <3> QED
        BY <3>1, ContractStutter
    <2> QED
      BY <2>1, <2>2, <2>3
  <1>9. ASSUME \/ \E r \in Reqs : AssembleFails(r) \/ Drop(r)
               \/ SweepStep \/ Crash \/ Tick \/ UNCHANGED vars
        PROVE  UNCHANGED Contract!vars
    <2>1. CASE \E r \in Reqs : AssembleFails(r) \/ Drop(r)
      BY <2>1, ContractStutter DEF AssembleFails, Drop
    <2>2. CASE SweepStep
      BY <2>2, ContractStutter DEF SweepStep, SweepStart, SweepExamine, SweepRemove
    <2>3. CASE Crash \/ Tick
      BY <2>3, ContractStutter DEF Crash, Tick
    <2>4. CASE UNCHANGED vars
      BY <2>4, ContractStutter DEF vars
    <2> QED
      BY <1>9, <2>1, <2>2, <2>3, <2>4
  <1> QED
    BY <1>7, <1>8, <1>9 DEF Next

\* The routes keep the promises of UploadContract, if no handler keeps a claim
\* longer than the lease.
THEOREM ContractImplemented ==
    ASSUME AssemblyBound <= LeaseAge
    PROVE  Spec => ImplementsContract
  <1>1. IInv /\ LeaseInv /\ [Next]_vars => [Contract!Next]_(Contract!vars)
    BY ContractStep
  <1> QED
    BY <1>1, ContractInit, LeaseAlways, PTL DEF Spec, ImplementsContract, Contract!Spec
=============================================================================
