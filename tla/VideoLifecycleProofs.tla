------------------------ MODULE VideoLifecycleProofs -------------------------
(***************************************************************************)
(* Theorems about VideoLifecycle and WorkDuringDeletion, for any number of *)
(* concurrent PUTs, reports, deletions and workers and for every bound.    *)
(***************************************************************************)
EXTENDS WorkDuringDeletion, TLAPS

-----------------------------------------------------------------------------
(* Type correctness.                                                       *)

Uploads == [uploaded : 0..MaxSize, total : 0..MaxSize]
ReportSlots == [pc : {"idle", "upsert", "finish"}, uploaded : 0..MaxSize, total : 1..MaxSize]
DeletePCs == {"idle", "rename", "delete", "restore", "purge"}

\* The parts of TypeOK that several actions disturb in the same way.
FlagTypes == row \in BOOLEAN /\ creating \in BOOLEAN /\ stored \in BOOLEAN /\ cut \in BOOLEAN
UploadType == upload \in Uploads \cup {NoUpload}
DirTypes == dir \in Dirs /\ trash \in [Deletes -> Dirs]
ReportType == report \in [Reports -> ReportSlots]
HandlerTypes == put \in [Puts -> {"idle", "stream"}] /\ del \in [Deletes -> DeletePCs]
UrlType == url \in 0..UrlAge + 1
FaultType == faults \in 0..MaxFaults

LEMMA TypeParts ==
    TypeOK <=> /\ FlagTypes /\ UploadType /\ DirTypes /\ ReportType
               /\ HandlerTypes /\ UrlType /\ FaultType
  BY DEF TypeOK, FlagTypes, UploadType, DirTypes, ReportType, HandlerTypes, UrlType, FaultType,
         Uploads, ReportSlots, DeletePCs

LEMMA TypePartsNext ==
    ASSUME FlagTypes', UploadType', DirTypes', ReportType', HandlerTypes', UrlType', FaultType'
    PROVE  TypeOK'
  BY DEF TypeOK, FlagTypes, UploadType, DirTypes, ReportType, HandlerTypes, UrlType, FaultType,
         Uploads, ReportSlots, DeletePCs

\* What a step leaves alone keeps its type.
LEMMA KeptTypes ==
    ASSUME TypeOK
    PROVE  /\ UNCHANGED <<row, creating, stored, cut>> => FlagTypes'
           /\ UNCHANGED upload => UploadType'
           /\ UNCHANGED files => DirTypes'
           /\ UNCHANGED report => ReportType'
           /\ UNCHANGED <<put, del>> => HandlerTypes'
           /\ UNCHANGED url => UrlType'
           /\ UNCHANGED faults => FaultType'
  BY TypeParts DEF FlagTypes, UploadType, DirTypes, ReportType, HandlerTypes, UrlType, FaultType, files

LEMMA FaultKeepsType ==
    ASSUME TypeOK, Fault
    PROVE  FaultType'
  BY ConstantsAssumption DEF TypeOK, Fault, FaultType

LEMMA NoDirType == NoDir \in Dirs
  BY DEF NoDir, Dirs

LEMMA NoReportType == NoReport \in ReportSlots
  BY ConstantsAssumption DEF NoReport, ReportSlots

LEMMA TypeInit == Init => TypeOK
<1> SUFFICES ASSUME Init PROVE TypeOK
  OBVIOUS
<1>1. FlagTypes /\ UploadType /\ HandlerTypes
  BY DEF Init, FlagTypes, UploadType, HandlerTypes, DeletePCs
<1>2. DirTypes
  BY NoDirType DEF Init, DirTypes
<1>3. ReportType
  BY NoReportType DEF Init, ReportType
<1>4. UrlType /\ FaultType
  BY ConstantsAssumption DEF Init, UrlType, FaultType
<1> QED
  BY <1>1, <1>2, <1>3, <1>4, TypeParts

LEMMA CreateTypes ==
    ASSUME TypeOK, Create
    PROVE  TypeOK'
<1>1. CASE CreateRow
  <2>1. FlagTypes'
    BY <1>1 DEF CreateRow, TypeOK, FlagTypes, Dirs
  <2> QED
    BY <1>1, <2>1, KeptTypes, TypePartsNext DEF CreateRow, files
<1>2. CASE CreateUpload
  <2>1. FlagTypes'
    BY <1>2 DEF CreateUpload, TypeOK, FlagTypes
  <2>2. UploadType'
    BY <1>2, ConstantsAssumption DEF CreateUpload, TypeOK, UploadType, Uploads
  <2> QED
    BY <1>2, <2>1, <2>2, KeptTypes, TypePartsNext DEF CreateUpload, files
<1>3. CASE CreateDropped
  <2>1. FlagTypes'
    BY <1>3 DEF CreateDropped, TypeOK, FlagTypes, rows
  <2> QED
    BY <1>3, <2>1, KeptTypes, FaultKeepsType, TypePartsNext DEF CreateDropped, files, rows
<1> QED
  BY <1>1, <1>2, <1>3 DEF Create

\* What is compared and written by a report, as the types of its parts.
LEMMA ReportParts ==
    ASSUME TypeOK, NEW r \in Reports
    PROVE  /\ report[r] \in ReportSlots
           /\ report[r].uploaded \in 0..MaxSize /\ report[r].total \in 1..MaxSize
  BY DEF TypeOK, ReportSlots

LEMMA UpsertType ==
    ASSUME TypeOK, NEW r \in Reports, ProgressUpsert(r)
    PROVE  UploadType'
<1> DEFINE new == [uploaded |-> report[r].uploaded, total |-> report[r].total]
<1>1. new \in Uploads
  BY ReportParts, ConstantsAssumption DEF Uploads
<1>2. CASE ~row \/ upload = NoUpload
  BY <1>1, <1>2 DEF ProgressUpsert, UploadType, TypeOK, Uploads
<1>3. CASE row /\ upload # NoUpload
  <2>1. upload \in Uploads
    BY <1>3 DEF TypeOK, Uploads
  <2>2. Greatest(upload.uploaded, new.uploaded) \in 0..MaxSize /\ new.total \in 0..MaxSize
    BY <1>1, <2>1 DEF Greatest, Larger, Uploads
  <2>3. [uploaded |-> Greatest(upload.uploaded, new.uploaded), total |-> new.total] \in Uploads
    BY <2>2 DEF Uploads
  <2> QED
    BY <1>3, <2>1, <2>3 DEF ProgressUpsert, UploadType
<1> QED
  BY <1>2, <1>3

LEMMA ProgressTypes ==
    ASSUME TypeOK, NEW r \in Reports, Progress(r)
    PROVE  TypeOK'
<1>1. ASSUME NEW uploaded \in 0..MaxSize + 1, NEW total \in 1..MaxSize,
             ProgressCheck(r, uploaded, total)
      PROVE  TypeOK'
  <2>1. Smaller(uploaded, total) \in 0..MaxSize
    BY ConstantsAssumption DEF Smaller
  <2>2. [pc |-> "upsert", uploaded |-> Smaller(uploaded, total), total |-> total] \in ReportSlots
    BY <2>1 DEF ReportSlots
  <2>3. ReportType'
    BY <1>1, <2>2, TypeParts DEF ProgressCheck, ReportType
  <2> QED
    BY <1>1, <2>3, KeptTypes, TypePartsNext DEF ProgressCheck, rows, files
<1>2. CASE ProgressUpsert(r)
  <2>1. [report[r] EXCEPT !.pc = "finish"] \in ReportSlots
    BY ReportParts DEF ReportSlots
  <2>2. ReportType'
    BY <1>2, <2>1, NoReportType, TypeParts DEF ProgressUpsert, ReportType
  <2> QED
    BY <1>2, <2>2, UpsertType, KeptTypes, TypePartsNext DEF ProgressUpsert, files
<1>3. CASE ProgressFinish(r)
  <2>1. ReportType'
    BY <1>3, NoReportType, TypeParts DEF ProgressFinish, ReportType
  <2>2. UploadType'
    BY <1>3, TypeParts DEF ProgressFinish, UploadType
  <2> QED
    BY <1>3, <2>1, <2>2, KeptTypes, TypePartsNext DEF ProgressFinish, files
<1>4. CASE ProgressDropped(r)
  <2>1. ReportType'
    BY <1>4, NoReportType, TypeParts DEF ProgressDropped, ReportType
  <2> QED
    BY <1>4, <2>1, KeptTypes, FaultKeepsType, TypePartsNext DEF ProgressDropped, files, rows
<1> QED
  BY <1>1, <1>2, <1>3, <1>4 DEF Progress

LEMMA PutTypes ==
    ASSUME TypeOK, NEW p \in Puts, PutStep(p)
    PROVE  TypeOK'
<1> USE DEF files, rows
<1>1. CASE PutBegin(p)
  <2>1. HandlerTypes' /\ DirTypes'
    BY <1>1, TypeParts DEF PutBegin, HandlerTypes, DirTypes, Dirs
  <2> QED
    BY <1>1, <2>1, KeptTypes, TypePartsNext DEF PutBegin
<1>2. CASE PutRename(p)
  <2>1. HandlerTypes'
    BY <1>2, TypeParts DEF PutRename, HandlerTypes
  <2>2. dir' = dir \/ dir' = [dir EXCEPT !.result = TRUE, !.temps = @ \ {p}]
    BY <1>2 DEF PutRename
  <2>3. DirTypes'
    BY <1>2, <2>2, TypeParts DEF PutRename, DirTypes, Dirs
  <2>4. FlagTypes'
    BY <1>2, TypeParts DEF PutRename, FlagTypes
  <2> QED
    BY <1>2, <2>1, <2>3, <2>4, KeptTypes, TypePartsNext DEF PutRename
<1>3. CASE PutFails(p)
  <2>1. HandlerTypes' /\ DirTypes'
    BY <1>3, TypeParts DEF PutFails, HandlerTypes, DirTypes, Dirs
  <2> QED
    BY <1>3, <2>1, KeptTypes, TypePartsNext DEF PutFails
<1>4. CASE PutDropped(p)
  <2>1. HandlerTypes'
    BY <1>4, TypeParts DEF PutDropped, HandlerTypes
  <2> QED
    BY <1>4, <2>1, KeptTypes, FaultKeepsType, TypePartsNext DEF PutDropped
<1> QED
  BY <1>1, <1>2, <1>3, <1>4 DEF PutStep

LEMMA DeleteTypes ==
    ASSUME TypeOK, NEW d \in Deletes, DeleteCheck(d) \/ DeleteGoesOn(d) \/ DeleteDropped(d)
    PROVE  TypeOK'
<1> USE DEF files, rows
<1>1. HandlerTypes'
  BY TypeParts DEF DeleteCheck, DeleteGoesOn, DeleteRename, DeleteRow, DeleteRestore,
                   DeletePurge, DeleteDropped, HandlerTypes, DeletePCs
<1>2. DirTypes'
  BY TypeParts, NoDirType
     DEF DeleteCheck, DeleteGoesOn, DeleteRename, DeleteRow, DeleteRestore, DeletePurge,
         DeleteDropped, DirTypes
<1>3. FlagTypes'
  BY TypeParts
     DEF DeleteCheck, DeleteGoesOn, DeleteRename, DeleteRow, DeleteRestore, DeletePurge,
         DeleteDropped, FlagTypes
<1>4. UploadType' /\ FaultType'
  BY TypeParts, FaultKeepsType
     DEF DeleteCheck, DeleteGoesOn, DeleteRename, DeleteRow, DeleteRestore, DeletePurge,
         DeleteDropped, UploadType, FaultType
<1>5. UNCHANGED <<report, url>>
  BY DEF DeleteCheck, DeleteGoesOn, DeleteRename, DeleteRow, DeleteRestore, DeletePurge,
         DeleteDropped
<1> QED
  BY <1>1, <1>2, <1>3, <1>4, <1>5, KeptTypes, TypePartsNext

LEMMA OtherTypes ==
    ASSUME TypeOK, Sign \/ Crash \/ Tick
    PROVE  TypeOK'
<1> USE DEF files, rows
<1>1. CASE Sign
  <2>1. UrlType'
    BY <1>1, ConstantsAssumption DEF Sign, UrlType
  <2> QED
    BY <1>1, <2>1, KeptTypes, TypePartsNext DEF Sign
<1>2. CASE Crash
  <2>1. HandlerTypes' /\ FlagTypes'
    BY <1>2, TypeParts DEF Crash, HandlerTypes, DeletePCs, FlagTypes
  <2>2. DirTypes'
    BY <1>2, TypeParts, NoDirType DEF Crash, DirTypes
  <2>3. ReportType'
    BY <1>2, NoReportType DEF Crash, ReportType
  <2> QED
    BY <1>2, <2>1, <2>2, <2>3, KeptTypes, FaultKeepsType, TypePartsNext DEF Crash
<1>3. CASE Tick
  <2>1. UrlType'
    BY <1>3, ConstantsAssumption, TypeParts DEF Tick, UrlType, Smaller
  <2> QED
    BY <1>3, <2>1, KeptTypes, TypePartsNext DEF Tick
<1> QED
  BY <1>1, <1>2, <1>3

LEMMA TypeStep ==
    ASSUME TypeOK, [Next]_vars
    PROVE  TypeOK'
<1>1. CASE UNCHANGED vars
  BY <1>1 DEF vars, TypeOK
<1>2. CASE Next
  BY <1>2, CreateTypes, ProgressTypes, PutTypes, DeleteTypes, OtherTypes DEF Next
<1> QED
  BY <1>1, <1>2

\* Every reachable state is well typed, however many handlers there are; what a
\* report writes never exceeds its total.
THEOREM VideoTypeCorrect == Spec => []TypeOK
<1>1. Init => TypeOK
  BY TypeInit
<1>2. TypeOK /\ [Next]_vars => TypeOK'
  BY TypeStep
<1> QED
  BY <1>1, <1>2, PTL DEF Spec
-----------------------------------------------------------------------------
(* Row and file.                                                           *)

\* The moved directories that a deletion may still put back.
Returning(d) == del[d] \in {"delete", "restore"}

\* The file is in its place, or a deletion that may put it back has it.  A
\* directory with anything in it is there, so that whoever moves it knows.
FileInv ==
    /\ row /\ stored /\ ~cut =>
           dir.result \/ \E d \in Deletes : Returning(d) /\ trash[d].result
    /\ dir.result \/ dir.temps # {} => dir.there
    /\ \A d \in Deletes : trash[d].result \/ trash[d].temps # {} => trash[d].there

LEMMA FileInit == Init => FileInv
  BY DEF Init, FileInv, NoDir

\* A step that takes no file away and makes no new claim keeps FileInv.
LEMMA FileKept ==
    ASSUME FileInv, UNCHANGED <<trash, del>>,
           dir'.result = dir.result, dir'.temps # {} => dir.temps # {} \/ dir'.there,
           dir.there => dir'.there,
           cut => cut', row' /\ stored' => (row /\ stored) \/ dir.result
    PROVE  FileInv'
  BY DEF FileInv, Returning

LEMMA PutKeepsFile ==
    ASSUME TypeOK, FileInv, NEW p \in Puts, PutStep(p)
    PROVE  FileInv'
<1> USE DEF files, rows
<1>0. dir \in Dirs
  BY DEF TypeOK
<1>1. CASE PutBegin(p)
  <2>1. dir'.result = dir.result /\ dir'.there
    BY <1>0, <1>1 DEF PutBegin, Dirs
  <2> QED
    BY <1>1, <2>1, FileKept DEF PutBegin
<1>2. CASE PutRename(p) /\ p \in dir.temps
  <2>1. dir'.result /\ dir'.there
    BY <1>0, <1>2 DEF PutRename, Dirs, FileInv
  <2> QED
    BY <1>2, <2>1 DEF PutRename, FileInv
<1>3. CASE PutRename(p) /\ p \notin dir.temps
  BY <1>3, FileKept DEF PutRename
<1>4. CASE PutFails(p)
  <2>1. dir'.result = dir.result /\ dir'.there = dir.there
    BY <1>0, <1>4 DEF PutFails, Dirs
  <2> QED
    BY <1>4, <2>1, FileKept DEF PutFails
<1>5. CASE PutDropped(p)
  BY <1>5, FileKept DEF PutDropped
<1> QED
  BY <1>1, <1>2, <1>3, <1>4, <1>5 DEF PutStep

LEMMA DeleteKeepsFile ==
    ASSUME TypeOK, FileInv,
           NEW d \in Deletes, DeleteCheck(d) \/ DeleteGoesOn(d) \/ DeleteDropped(d)
    PROVE  FileInv'
<1> USE DEF files, rows
<1>0. del \in [Deletes -> DeletePCs] /\ trash \in [Deletes -> Dirs]
  BY DEF TypeOK, DeletePCs
<1>1. CASE DeleteCheck(d)
  BY <1>0, <1>1 DEF DeleteCheck, FileInv, Returning
<1>2. CASE DeleteRename(d)
  \* The place is empty now; what was in it, deletion d may put back.
  <2>1. del'[d] = "delete" /\ trash'[d] = dir /\ ~Returning(d)
    BY <1>0, <1>2 DEF DeleteRename, Returning
  <2>2. ASSUME NEW e \in Deletes, Returning(e)
        PROVE  Returning(e)' /\ trash'[e] = trash[e]
    BY <1>0, <1>2, <2>1, <2>2 DEF DeleteRename, Returning
  <2>3. UNCHANGED <<row, stored, cut>> /\ ~dir'.result /\ dir'.temps = {}
    BY <1>2 DEF DeleteRename, NoDir
  <2>4. \A e \in Deletes : trash'[e] = trash[e] \/ trash'[e] = dir
    BY <1>0, <1>2 DEF DeleteRename
  <2> QED
    BY <2>1, <2>2, <2>3, <2>4 DEF FileInv, Returning
<1>3. CASE DeleteRow(d)
  <2>1. \A e \in Deletes : Returning(e) /\ trash[e].there /\ row' => Returning(e)'
    BY <1>0, <1>3 DEF DeleteRow, Returning
  <2>2. UNCHANGED <<dir, trash, cut>> /\ (row' => row /\ stored' = stored)
    BY <1>3 DEF DeleteRow
  <2> QED
    BY <2>1, <2>2 DEF FileInv
<1>4. CASE DeleteRestore(d)
  <2>1. ASSUME NEW e \in Deletes, e # d
        PROVE  trash'[e] = trash[e] /\ del'[e] = del[e]
    BY <1>0, <1>4, <2>1 DEF DeleteRestore
  <2>2. trash'[d] = NoDir /\ UNCHANGED <<row, stored>>
    BY <1>0, <1>4 DEF DeleteRestore
  <2>3. CASE IsEmpty(dir)
    BY <1>4, <2>1, <2>2, <2>3 DEF DeleteRestore, IsEmpty, FileInv, Returning, NoDir
  <2>4. CASE ~IsEmpty(dir)
    BY <1>4, <2>1, <2>2, <2>4 DEF DeleteRestore, FileInv, NoDir
  <2> QED
    BY <2>3, <2>4
<1>5. CASE DeletePurge(d)
  <2>1. ASSUME NEW e \in Deletes, e # d
        PROVE  trash'[e] = trash[e] /\ del'[e] = del[e]
    BY <1>0, <1>5, <2>1 DEF DeletePurge
  <2>2. trash'[d] = NoDir /\ ~Returning(d) /\ UNCHANGED <<row, dir, stored, cut>>
    BY <1>0, <1>5 DEF DeletePurge, Returning
  <2> QED
    BY <2>1, <2>2 DEF FileInv, Returning, NoDir
<1>6. CASE DeleteDropped(d)
  <2>1. ASSUME NEW e \in Deletes, e # d
        PROVE  trash'[e] = trash[e] /\ del'[e] = del[e]
    BY <1>0, <1>6, <2>1 DEF DeleteDropped
  <2>2. trash'[d] = NoDir /\ UNCHANGED <<row, dir, stored>>
    BY <1>0, <1>6 DEF DeleteDropped
  <2>3. (cut => cut') /\ (Returning(d) /\ trash[d].there => cut')
    BY <1>6 DEF DeleteDropped, Returning
  <2> QED
    BY <2>1, <2>2, <2>3 DEF FileInv, Returning, NoDir
<1> QED
  BY <1>1, <1>2, <1>3, <1>4, <1>5, <1>6 DEF DeleteGoesOn

LEMMA CrashKeepsFile ==
    ASSUME TypeOK, FileInv, Crash
    PROVE  FileInv'
<1>1. \A d \in Deletes : trash'[d] = NoDir
  BY DEF Crash
<1>2. UNCHANGED <<row, dir, stored>> /\ (cut => cut')
  BY DEF Crash, rows
<1>3. (\E d \in Deletes : Returning(d) /\ trash[d].there) => cut'
  BY DEF Crash, Returning
<1> QED
  BY <1>1, <1>2, <1>3 DEF FileInv, NoDir

LEMMA FileStep ==
    ASSUME TypeOK, FileInv, [Next]_vars
    PROVE  FileInv'
<1> USE DEF files, rows
<1>1. CASE UNCHANGED vars
  BY <1>1, FileKept DEF vars
<1>2. CASE Create
  BY <1>2, FileKept DEF Create, CreateRow, CreateUpload, CreateDropped, TypeOK
<1>3. CASE Sign \/ Tick
  BY <1>3, FileKept DEF Sign, Tick
<1>4. ASSUME NEW r \in Reports, Progress(r)
      PROVE  FileInv'
  BY <1>4, FileKept DEF Progress, ProgressCheck, ProgressUpsert, ProgressFinish, ProgressDropped
<1> QED
  BY <1>1, <1>2, <1>3, <1>4, PutKeepsFile, DeleteKeepsFile, CrashKeepsFile DEF Next

\* Whatever deletions, PUTs, crashes and failing statements do to each other, a
\* video that keeps its row keeps its file, unless a deletion was cut off
\* between the two stores or found the place taken.
THEOREM FileKeptWithRow == Spec => []RowKeepsFile
<1>1. Init => TypeOK /\ FileInv
  BY TypeInit, FileInit
<1>2. TypeOK /\ FileInv /\ [Next]_vars => (TypeOK /\ FileInv)'
  BY TypeStep, FileStep
<1>3. FileInv => RowKeepsFile
  BY DEF FileInv, RowKeepsFile, Returning
<1> QED
  BY <1>1, <1>2, <1>3, PTL DEF Spec
-----------------------------------------------------------------------------
(* Progress.                                                               *)

\* Only these statements write the row of video_uploads.
LEMMA UploadWriters ==
    ASSUME Next, upload' # upload
    PROVE  \/ CreateUpload
           \/ \E r \in Reports : ProgressUpsert(r) \/ ProgressFinish(r)
           \/ upload' = NoUpload /\ ~row'
  BY DEF Next, Create, CreateRow, CreateDropped, Progress, ProgressCheck, ProgressDropped,
         Sign, PutStep, PutBegin, PutRename, PutFails, PutDropped, DeleteCheck, DeleteGoesOn,
         DeleteRename, DeleteRow, DeleteRestore, DeletePurge, DeleteDropped, Crash, Tick, rows

LEMMA UpsertNeverFalls ==
    ASSUME TypeOK, NEW r \in Reports, ProgressUpsert(r), upload # NoUpload
    PROVE  upload' # NoUpload /\ upload'.uploaded >= upload.uploaded
<1>1. upload \in Uploads /\ report[r].uploaded \in 0..MaxSize
  BY ReportParts DEF TypeOK, Uploads
<1>2. upload' = upload \/ upload'.uploaded = Greatest(upload.uploaded, report[r].uploaded)
  BY DEF ProgressUpsert
<1>3. upload'.uploaded >= upload.uploaded
  BY <1>1, <1>2 DEF Greatest, Larger, Uploads
<1> QED
  BY <1>1, <1>3 DEF NoUpload, Uploads

\* Reports may overtake each other, be repeated and race a finishing one or a
\* deletion; as long as the row lives, the size in it never falls.
THEOREM ProgressMonotonic == Spec => ProgressNeverFalls
<1> DEFINE Step == upload # NoUpload /\ upload' # NoUpload
                       => upload'.uploaded >= upload.uploaded
<1>1. TypeOK /\ [Next]_vars => [Step]_vars
  <2> SUFFICES ASSUME TypeOK, Next, upload # NoUpload, upload' # NoUpload
               PROVE  upload'.uploaded >= upload.uploaded
    BY DEF vars
  <2>1. CASE upload' = upload
    BY <2>1 DEF TypeOK
  <2>2. CASE CreateUpload
    BY <2>2 DEF CreateUpload, TypeOK
  <2>3. ASSUME NEW r \in Reports, ProgressFinish(r)
        PROVE  upload' = upload
    BY <2>3 DEF ProgressFinish
  <2> QED
    BY <2>1, <2>2, <2>3, UpsertNeverFalls, UploadWriters
<1> QED
  BY <1>1, VideoTypeCorrect, PTL DEF Spec, ProgressNeverFalls

\* The second statement of a report looks at the row again: while the video is
\* there, the row goes only when its upload is finished.
THEOREM EndsFinished == Spec => OnlyFinishedEnds
<1> DEFINE Step == upload # NoUpload /\ upload' = NoUpload /\ row'
                       => upload.uploaded >= upload.total
<1>1. TypeOK /\ [Next]_vars => [Step]_vars
  <2> SUFFICES ASSUME TypeOK, Next, upload # NoUpload, upload' = NoUpload, row'
               PROVE  upload.uploaded >= upload.total
    BY DEF vars
  <2>1. ~CreateUpload
    BY DEF CreateUpload
  <2>2. \A r \in Reports : ~ProgressUpsert(r)
    BY UpsertNeverFalls
  <2>3. PICK r \in Reports : ProgressFinish(r)
    BY <2>1, <2>2, UploadWriters
  <2> QED
    BY <2>3 DEF ProgressFinish
<1> QED
  BY <1>1, VideoTypeCorrect, PTL DEF Spec, OnlyFinishedEnds
-----------------------------------------------------------------------------
(* WorkDuringDeletion: deletion against assemblies and mux jobs.           *)

WorkSlots == [pc : {"idle", "read", "parent", "create", "write", "mark", "fail"},
              kind : {"none", "mux", "assembly"}, current : BOOLEAN]

\* A claim lives as long as its row; who is about to mark it has published
\* while it was there, and so has who marked it.
ClaimInv ==
    /\ work \in [Workers -> WorkSlots]
    /\ \A w \in Workers : work[w].current => row /\ (work[w].pc = "mark" => stored)
    /\ mux = "complete" => row /\ (stored \/ stale)
    /\ multi = "completed" => row /\ stored

WorkInv == TypeOK /\ FileInv /\ ClaimInv

LEMMA WorkInvInit == WorkInit => WorkInv
<1> SUFFICES ASSUME WorkInit PROVE WorkInv
  OBVIOUS
<1>1. IdleWork \in WorkSlots
  BY DEF IdleWork, WorkSlots
<1>2. ClaimInv
  BY <1>1 DEF WorkInit, ClaimInv, IdleWork
<1> QED
  BY <1>2, TypeInit, FileInit DEF WorkInit, WorkInv

\* A worker's step leaves most of a video alone; it may add and remove
\* temporary files in a directory that is there.
LEMMA WorkerStepKeeps ==
    ASSUME WorkInv, UNCHANGED <<apart, stored>>,
           UploadType', dir' \in Dirs, UNCHANGED faults \/ Fault,
           dir'.result = dir.result, dir.there => dir'.there,
           dir'.temps # {} => dir.temps # {} \/ dir'.there
    PROVE  TypeOK' /\ FileInv'
<1>1. TypeOK /\ FileInv
  BY DEF WorkInv
<1>2. FaultType'
  BY <1>1, KeptTypes, FaultKeepsType
<1>3. DirTypes'
  BY <1>1, TypeParts DEF DirTypes, apart
<1>4. TypeOK'
  BY <1>1, <1>2, <1>3, KeptTypes, TypePartsNext DEF apart
<1>5. FileInv'
  BY <1>1, FileKept DEF apart
<1> QED
  BY <1>4, <1>5

\* A worker goes on; what it claimed stays claimed.
LEMMA GoesKeepsSlots ==
    ASSUME ClaimInv, NEW w \in Workers,
           NEW pc \in {"read", "parent", "create", "write", "mark", "fail"}, WorkGoes(w, pc)
    PROVE  /\ work' \in [Workers -> WorkSlots]
           /\ \A v \in Workers : /\ work'[v].current = work[v].current
                                 /\ v # w => work'[v] = work[v]
           /\ work'[w].pc = pc
<1>1. work \in [Workers -> WorkSlots] /\ work' = [work EXCEPT ![w].pc = pc]
  BY DEF ClaimInv, WorkGoes
<1>2. work[w] \in WorkSlots /\ [work[w] EXCEPT !.pc = pc] \in WorkSlots
  BY <1>1 DEF WorkSlots
<1> QED
  BY <1>1, <1>2 DEF WorkSlots

LEMMA EndsKeepsSlots ==
    ASSUME ClaimInv, NEW w \in Workers, WorkEnds(w)
    PROVE  /\ work' \in [Workers -> WorkSlots]
           /\ ~work'[w].current
           /\ \A v \in Workers : v # w => work'[v] = work[v]
<1>1. work \in [Workers -> WorkSlots] /\ IdleWork \in WorkSlots
  BY DEF ClaimInv, IdleWork, WorkSlots
<1> QED
  BY <1>1 DEF WorkEnds, IdleWork

LEMMA ClaimsKeep ==
    ASSUME WorkInv, NEW w \in Workers, MuxClaim(w) \/ AssembleClaim(w)
    PROVE  WorkInv'
<1>1. PICK kind \in {"mux", "assembly"}, pc \in {"read", "parent"} :
          /\ Claims(w, kind, pc)
          /\ mux' = mux \/ mux' = "processing"
          /\ multi' = multi \/ multi' = "finalizing"
  BY DEF MuxClaim, AssembleClaim
<1>2. row /\ UNCHANGED <<row, stored, stale, dir, upload>>
  BY <1>1 DEF Claims, apart
<1>3. [pc |-> pc, kind |-> kind, current |-> TRUE] \in WorkSlots
  BY DEF WorkSlots
<1>4. /\ work' \in [Workers -> WorkSlots]
      /\ work'[w].pc # "mark"
      /\ \A v \in Workers : v # w => work'[v] = work[v]
  BY <1>1, <1>3 DEF Claims, WorkInv, ClaimInv
<1>5. ClaimInv'
  BY <1>1, <1>2, <1>4 DEF WorkInv, ClaimInv
<1>6. UploadType' /\ dir' \in Dirs
  BY <1>2, KeptTypes DEF WorkInv, TypeOK
<1>7. TypeOK' /\ FileInv'
  BY <1>1, <1>2, <1>6, WorkerStepKeeps DEF Claims
<1> QED
  BY <1>5, <1>7 DEF WorkInv

\* PutSegments and Initiate, which are no worker's.
LEMMA RequestsKeep ==
    ASSUME WorkInv, PutSegments \/ Initiate
    PROVE  WorkInv'
<1>1. UNCHANGED <<apart, stored, faults>>
  BY DEF PutSegments, Initiate
<1>2. dir \in Dirs
  BY DEF WorkInv, TypeOK
<1>3. dir' \in Dirs /\ dir'.result = dir.result
      /\ (dir.there => dir'.there) /\ (dir'.temps # {} => dir.temps # {} \/ dir'.there)
  BY <1>2, WorkAssumption DEF PutSegments, Initiate, Dirs
<1>4. UploadType'
  BY ConstantsAssumption, KeptTypes DEF WorkInv, TypeOK, PutSegments, Initiate, UploadType, Uploads
<1>5. ClaimInv'
  BY <1>1 DEF WorkInv, ClaimInv, PutSegments, Initiate, apart, workVars
<1> QED
  BY <1>1, <1>3, <1>4, <1>5, WorkerStepKeeps DEF WorkInv

LEMMA FileWorkKeeps ==
    ASSUME WorkInv, NEW w \in Workers,
           ReadSegments(w) \/ EnsureParent(w) \/ CreateTemp(w) \/ WriteFails(w)
    PROVE  WorkInv'
<1> USE DEF vars
<1>1. UNCHANGED <<apart, upload, stored, faults, mux, multi, stale>>
  BY DEF ReadSegments, EnsureParent, CreateTemp, WriteFails, apart
<1>2. PICK pc \in {"parent", "create", "write", "fail"} : WorkGoes(w, pc)
  BY DEF ReadSegments, EnsureParent, CreateTemp, WriteFails
<1>3. dir \in Dirs /\ w \in Puts
  BY WorkAssumption DEF WorkInv, TypeOK
<1>4. dir' \in Dirs /\ dir'.result = dir.result
      /\ (dir.there => dir'.there) /\ (dir'.temps # {} => dir.temps # {} \/ dir'.there)
  <2>1. \/ dir' = dir \/ dir' = [dir EXCEPT !.there = TRUE]
        \/ dir.there /\ dir' = [dir EXCEPT !.temps = @ \cup {w}]
        \/ dir' = [dir EXCEPT !.temps = @ \ {w}]
    BY DEF ReadSegments, EnsureParent, CreateTemp, WriteFails
  <2> QED
    BY <1>3, <2>1 DEF Dirs
<1>5. UploadType'
  BY <1>1, KeptTypes DEF WorkInv
<1>6. ClaimInv'
  BY <1>1, <1>2, GoesKeepsSlots DEF WorkInv, ClaimInv, apart
<1> QED
  BY <1>1, <1>4, <1>5, <1>6, WorkerStepKeeps DEF WorkInv

\* The one step of a worker that makes result.mp4.
LEMMA PublishKeeps ==
    ASSUME WorkInv, NEW w \in Workers, PublishResult(w)
    PROVE  WorkInv'
<1>1. UNCHANGED <<apart, upload, faults, mux, multi, stale>>
  BY DEF PublishResult
<1>2. dir \in Dirs
  BY DEF WorkInv, TypeOK
<1>3. CASE w \notin dir.temps
  <2>1. UNCHANGED <<dir, stored>> /\ WorkGoes(w, "fail")
    BY <1>3 DEF PublishResult
  <2>2. ClaimInv'
    BY <1>1, <2>1, GoesKeepsSlots DEF WorkInv, ClaimInv, apart
  <2>3. UploadType'
    BY <1>1, KeptTypes DEF WorkInv
  <2> QED
    BY <1>1, <1>2, <2>1, <2>2, <2>3, WorkerStepKeeps DEF WorkInv
<1>4. CASE w \in dir.temps
  <2>1. dir' = [dir EXCEPT !.result = TRUE, !.temps = @ \ {w}] /\ stored' = (stored \/ row)
        /\ WorkGoes(w, "mark")
    BY <1>4 DEF PublishResult
  <2>2. dir' \in Dirs /\ dir'.result /\ dir'.there
    BY <1>2, <1>4, <2>1 DEF Dirs, WorkInv, FileInv
  <2>3. ClaimInv'
    BY <1>1, <2>1, GoesKeepsSlots DEF WorkInv, ClaimInv, apart
  <2>4. FileInv'
    BY <1>1, <2>2 DEF WorkInv, FileInv, Returning, apart
  <2>5. FlagTypes' /\ DirTypes'
    BY <1>1, <2>1, <2>2, TypeParts DEF WorkInv, FlagTypes, DirTypes, apart
  <2>6. TypeOK'
    BY <1>1, <2>5, KeptTypes, TypePartsNext DEF WorkInv, apart
  <2> QED
    BY <2>3, <2>4, <2>6 DEF WorkInv
<1> QED
  BY <1>3, <1>4

\* Commit, when it marks a row, has the claim's word that the file was there.
LEMMA CommitKeeps ==
    ASSUME WorkInv, NEW w \in Workers, Commit(w)
    PROVE  WorkInv'
<1>1. UNCHANGED <<apart, dir, stored, faults>> /\ WorkEnds(w) /\ work[w].pc = "mark"
  BY DEF Commit
<1>2. mux' = "complete" => row /\ (stored \/ stale')
  BY DEF Commit, WorkInv, ClaimInv
<1>3. multi' = "completed" => row /\ stored
  BY DEF Commit, WorkInv, ClaimInv
<1>4. ClaimInv'
  BY <1>1, <1>2, <1>3, EndsKeepsSlots DEF WorkInv, ClaimInv, apart
<1>5. UploadType'
  BY DEF Commit, WorkInv, TypeOK, UploadType, Uploads
<1>6. dir \in Dirs
  BY DEF WorkInv, TypeOK
<1> QED
  BY <1>1, <1>4, <1>5, <1>6, WorkerStepKeeps DEF WorkInv

LEMMA GivesUpKeeps ==
    ASSUME WorkInv, NEW w \in Workers, CommitFails(w) \/ Release(w) \/ AssemblyDropped(w)
    PROVE  WorkInv'
<1>1. UNCHANGED <<apart, upload, stored, stale>> /\ (UNCHANGED faults \/ Fault)
  BY DEF CommitFails, Release, AssemblyDropped
<1>2. WorkGoes(w, "fail") \/ WorkEnds(w)
  BY DEF CommitFails, Release, AssemblyDropped
<1>3. mux' \in {mux, "error"} /\ multi' \in {multi, "uploading"}
  BY DEF CommitFails, Release, AssemblyDropped
<1>4. dir \in Dirs
  BY DEF WorkInv, TypeOK
<1>5. dir' \in Dirs /\ dir'.result = dir.result /\ dir'.there = dir.there
      /\ (dir'.temps # {} => dir.temps # {})
  BY <1>4 DEF CommitFails, Release, AssemblyDropped, Dirs
<1>6. ClaimInv'
  <2>1. CASE WorkEnds(w)
    BY <1>1, <1>3, <2>1, EndsKeepsSlots DEF WorkInv, ClaimInv, apart
  <2>2. CASE WorkGoes(w, "fail")
    BY <1>1, <1>3, <2>2, GoesKeepsSlots DEF WorkInv, ClaimInv, apart
  <2> QED
    BY <1>2, <2>1, <2>2
<1>7. UploadType'
  BY <1>1, KeptTypes DEF WorkInv
<1> QED
  BY <1>1, <1>5, <1>6, <1>7, WorkerStepKeeps DEF WorkInv

LEMMA DeletionKeeps ==
    ASSUME WorkInv, NEW d \in Deletes, DeleteRowAndUpload(d)
    PROVE  WorkInv'
<1>1. DeleteRow(d) /\ TypeOK /\ FileInv
  BY DEF DeleteRowAndUpload, WorkInv
<1>2. TypeOK' /\ FileInv'
  BY <1>1, DeleteTypes, DeleteKeepsFile DEF DeleteGoesOn
<1>3. CASE row' = row
  <2>1. UNCHANGED workVars
    BY <1>3 DEF DeleteRowAndUpload
  <2>2. row => stored' = stored
    BY <1>1, <1>3 DEF DeleteRow
  <2> QED
    BY <1>2, <1>3, <2>1, <2>2 DEF WorkInv, ClaimInv, workVars
<1>4. CASE row' # row
  <2>1. mux' = "null" /\ multi' = "none"
        /\ work' = [w \in Workers |-> [work[w] EXCEPT !.current = FALSE]]
    BY <1>4 DEF DeleteRowAndUpload
  <2>2. \A w \in Workers : [work[w] EXCEPT !.current = FALSE] \in WorkSlots
    BY DEF WorkInv, ClaimInv, WorkSlots
  <2>3. \A w \in Workers : ~work'[w].current
    BY <2>1 DEF WorkInv, ClaimInv, WorkSlots
  <2> QED
    BY <1>2, <2>1, <2>2, <2>3 DEF WorkInv, ClaimInv
<1> QED
  BY <1>3, <1>4

LEMMA LifeKeeps ==
    ASSUME WorkInv, LifeGoesOn \/ CrashAll
    PROVE  WorkInv'
<1>1. Next
  BY DEF LifeGoesOn, CrashAll, Next, DeleteGoesOn
<1>2. TypeOK' /\ FileInv'
  BY <1>1, TypeStep, FileStep DEF WorkInv
<1>3. row => row' /\ stored' = stored
  BY DEF LifeGoesOn, CrashAll, Create, CreateRow, CreateUpload, CreateDropped, Sign, Tick, Crash,
         DeleteCheck, DeleteRename, DeleteRestore, DeletePurge, DeleteDropped, rows
<1>4. UNCHANGED <<mux, multi, stale>>
  BY DEF LifeGoesOn, CrashAll, workVars
<1>5. work' = work \/ work' = [w \in Workers |-> IdleWork]
  BY DEF LifeGoesOn, CrashAll, workVars
<1>6. IdleWork \in WorkSlots /\ ~IdleWork.current
  BY DEF IdleWork, WorkSlots
<1>7. ClaimInv'
  BY <1>3, <1>4, <1>5, <1>6 DEF WorkInv, ClaimInv
<1> QED
  BY <1>2, <1>7 DEF WorkInv

LEMMA WorkStep ==
    ASSUME WorkInv, [WorkNext]_bothVars
    PROVE  WorkInv'
<1>1. CASE UNCHANGED bothVars
  BY <1>1, TypeStep, FileStep DEF bothVars, WorkInv, ClaimInv, workVars, vars
<1>2. CASE WorkNext
  BY <1>2, LifeKeeps, DeletionKeeps, RequestsKeep, ClaimsKeep, FileWorkKeeps, PublishKeeps,
     CommitKeeps, GivesUpKeeps DEF WorkNext, WorkGoesOn
<1> QED
  BY <1>1, <1>2

LEMMA WorkCorrect == WorkSpec => []WorkInv
  BY WorkInvInit, WorkStep, PTL DEF WorkSpec

\* However often assemblies, mux jobs and deletions of a recording overlap and
\* fail, what its row calls complete has its file: what was moved away came
\* back with the row, and who marks the row published while it was there.
THEOREM CompletedKeepsFile == WorkSpec => []CompletedHasFile
<1>1. WorkInv => CompletedHasFile
  BY DEF WorkInv, FileInv, ClaimInv, CompletedHasFile, Returning
<1> QED
  BY <1>1, WorkCorrect, PTL

\* Assemblies and mux jobs, which make the moved directory again and publish
\* into it, cost no video with a row its file either.
THEOREM FileKeptDuringWork == WorkSpec => []RowKeepsFile
<1>1. WorkInv => RowKeepsFile
  BY DEF WorkInv, FileInv, RowKeepsFile, Returning
<1> QED
  BY <1>1, WorkCorrect, PTL
=============================================================================
