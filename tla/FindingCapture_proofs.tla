------------------------ MODULE FindingCapture_proofs ------------------------
(***************************************************************************)
(* The safety of the capture queue for any number of jobs, findings,       *)
(* handlers and faults.  The properties are not inductive by themselves:   *)
(* that evidence is stored at most once per job, and that the worker never *)
(* undoes somebody else's file, rests on a job being claimed only once, so *)
(* the invariant also says what the worker's control point implies.        *)
(***************************************************************************)
EXTENDS FindingCapture, TLAPS

\* What the worker's control point says about the job in its hands.
WorkerInv ==
    /\ wpc \in Holding => wjob \in Jobs /\ status[wjob] \notin {"none", "queued"}
    /\ wpc \notin Holding => wjob = None
    /\ wpc \in {"capturing", "checked", "written"} => wjob \notin rows
    /\ wpc = "written" => wjob \in files

\* A job that was never claimed has no evidence.
UnclaimedInv ==
    \A j \in Jobs : status[j] \in {"none", "queued"} => j \notin rows

\* A handler only ever writes to a job that exists.
HandlerInv ==
    \A h \in Handlers : cancelling[h] # None => status[cancelling[h]] # "none"

IInv ==
    /\ TypeOK
    /\ AtMostOneActive
    /\ EvidenceBacked
    /\ RunningIsHeldOrAbandoned
    /\ WorkerInv
    /\ UnclaimedInv
    /\ HandlerInv

\* The initial state satisfies the invariant: an empty table, an idle worker.
LEMMA InitIInv == Init => IInv
  BY CaptureAssumption
     DEF Init, IInv, TypeOK, AtMostOneActive, ActiveJobs, Active, Status,
         WorkerPoint, Holding, EvidenceBacked, RunningIsHeldOrAbandoned,
         WorkerInv, UnclaimedInv, HandlerInv

\* Every step of the web processes keeps the invariant.
LEMMA WebKeepsIInv == ASSUME IInv, WebStep PROVE IInv'
  <1> USE CaptureAssumption
      DEF IInv, TypeOK, AtMostOneActive, ActiveJobs, Active, Status,
          WorkerPoint, Holding, EvidenceBacked, RunningIsHeldOrAbandoned,
          WorkerInv, UnclaimedInv, HandlerInv, dbVars, workerVars, faultVars, Mutable
  <1>1. ASSUME NEW j \in Jobs, NEW f \in Findings, RequestFindingCapture(j, f)
        PROVE  IInv'
    BY <1>1 DEF RequestFindingCapture
  <1>2. ASSUME NEW h \in Handlers, NEW j \in Jobs, CancelRead(h, j)
        PROVE  IInv'
    BY <1>2 DEF CancelRead
  <1>3. ASSUME NEW h \in Handlers, CancelCommit(h)
        PROVE  IInv'
    BY <1>3 DEF CancelCommit
  <1>4. ASSUME NEW f \in Findings,
               ArchiveFinding(f) \/ RestoreFinding(f) \/ DeleteFinding(f)
        PROVE  IInv'
    BY <1>4 DEF ArchiveFinding, RestoreFinding, DeleteFinding, SetFinding
  <1>5. QED
    BY WebStep, <1>1, <1>2, <1>3, <1>4 DEF WebStep

\* Every step of the worker, and every fault, keeps the invariant.
LEMMA WorkerKeepsIInv == ASSUME IInv, WorkerStep \/ Fault PROVE IInv'
  <1> USE CaptureAssumption
      DEF IInv, TypeOK, AtMostOneActive, ActiveJobs, Active, Status,
          WorkerPoint, Holding, EvidenceBacked, RunningIsHeldOrAbandoned,
          WorkerInv, UnclaimedInv, HandlerInv, dbVars, workerVars, faultVars,
          MoveTo, Release
  <1>1. ASSUME Poll \/ ClaimNothing PROVE IInv'
    BY <1>1 DEF Poll, ClaimNothing
  <1>2. ASSUME NEW j \in Jobs, ClaimNextCaptureJob(j) PROVE IInv'
    BY <1>2 DEF ClaimNextCaptureJob
  <1>3. ASSUME ReloadRunning \/ CaptureOrPersistFails PROVE IInv'
    BY <1>3 DEF ReloadRunning, CaptureOrPersistFails
  <1>4. ASSUME WritePng PROVE IInv'
    BY <1>4 DEF WritePng
  <1>5. ASSUME CompleteCaptureJob PROVE IInv'
    BY <1>5 DEF CompleteCaptureJob, CompletingCommit
  <1>6. ASSUME CompletionRolledBack PROVE IInv'
    BY <1>6 DEF CompletionRolledBack
  <1>7. ASSUME CompletionAckLost PROVE IInv'
    BY <1>7 DEF CompletionAckLost, CompletingCommit
  <1>8. ASSUME FailReload PROVE IInv'
    BY <1>8 DEF FailReload
  <1>9. ASSUME FailCaptureJob PROVE IInv'
    BY <1>9 DEF FailCaptureJob
  <1>10. ASSUME FailureNotRecorded \/ WorkerKilled PROVE IInv'
    BY <1>10 DEF FailureNotRecorded, WorkerKilled, DropJob
  <1>11. QED
    BY <1>1, <1>2, <1>3, <1>4, <1>5, <1>6, <1>7, <1>8, <1>9, <1>10
       DEF WorkerStep, Fault

\* A step that changes nothing keeps the invariant.
LEMMA StutterKeepsIInv == ASSUME IInv, UNCHANGED vars PROVE IInv'
  BY DEF IInv, TypeOK, AtMostOneActive, ActiveJobs, EvidenceBacked,
         RunningIsHeldOrAbandoned, WorkerInv, UnclaimedInv, HandlerInv,
         vars, dbVars, workerVars, faultVars

\* The inductive invariant holds in every reachable state.
THEOREM Invariance == Spec => []IInv
  <1>1. IInv /\ [Next]_vars => IInv'
    BY WebKeepsIInv, WorkerKeepsIInv, StutterKeepsIInv DEF Next
  <1>2. QED
    BY InitIInv, <1>1, PTL DEF Spec

\* Every variable keeps its type.
THEOREM TypeCorrect == Spec => []TypeOK
  <1>1. IInv => TypeOK
    BY DEF IInv
  <1>2. QED
    BY Invariance, <1>1, PTL

\* The two unique indexes, the locked claim and the fact that no unguarded
\* UPDATE writes an active status keep one capture in the slot, for every
\* number of jobs and handlers and through any pattern of faults.
THEOREM OneActive == Spec => []AtMostOneActive
  <1>1. IInv => AtMostOneActive
    BY DEF IInv
  <1>2. QED
    BY Invariance, <1>1, PTL

\* A completed job always has its screenshot row, and every acknowledged row
\* its file, although file and row are written in different steps and a kill,
\* a rollback or a cancellation may come between them.
THEOREM Evidence == Spec => []EvidenceBacked
  <1>1. IInv => EvidenceBacked
    BY DEF IInv
  <1>2. QED
    BY Invariance, <1>1, PTL

\* A running job nobody works on is the trace of a fault, never of an
\* interleaving of the worker with the web processes.
THEOREM Held == Spec => []RunningIsHeldOrAbandoned
  <1>1. IInv => RunningIsHeldOrAbandoned
    BY DEF IInv
  <1>2. QED
    BY Invariance, <1>1, PTL

\* Only the worker that reloaded the job as running before the cancellation
\* was committed can write another status over it.
THEOREM CancelIsSeen == Spec => CancelOverwrittenOnlyInFlight
  <1> DEFINE Kept == \A j \in Jobs :
                       status[j] = "cancelled" /\ status'[j] # "cancelled"
                         => wjob = j /\ wpc \in {"checked", "written", "recording"}
  <1>1. ASSUME IInv, [Next]_vars PROVE [Kept]_vars
    <2> USE <1>1 DEF IInv, TypeOK, Status, dbVars, workerVars, faultVars
    <2>1. ASSUME WebStep PROVE Kept
      BY <2>1 DEF WebStep, RequestFindingCapture, CancelRead, CancelCommit,
                  ArchiveFinding, RestoreFinding, DeleteFinding, SetFinding
    <2>2. ASSUME WorkerStep \/ Fault PROVE Kept
      BY <2>2 DEF WorkerStep, Fault, Poll, ClaimNothing, ClaimNextCaptureJob,
                  ReloadRunning, CaptureOrPersistFails, WritePng,
                  CompleteCaptureJob, CompletionRolledBack, CompletionAckLost,
                  CompletingCommit, FailReload, FailCaptureJob,
                  FailureNotRecorded, WorkerKilled, DropJob
    <2>3. QED
      BY <2>1, <2>2 DEF Next
  <1>2. QED
    BY Invariance, <1>1, PTL DEF Spec, CancelOverwrittenOnlyInFlight

-----------------------------------------------------------------------------
(* The queue implements CaptureSlot: the slot is the set of active jobs,   *)
(* a job is admitted when it is inserted and stored when its row is.       *)

\* A web step admits a job, vacates the slot, or is invisible to the slot.
LEMMA WebRefines == ASSUME IInv, WebStep PROVE [Slot!Next]_(Slot!vars)
  <1> USE DEF IInv, TypeOK, AtMostOneActive, ActiveJobs, Active, Status,
              HandlerInv, dbVars, workerVars, faultVars, Slot!vars
  <1>1. ASSUME NEW j \in Jobs, NEW f \in Findings, RequestFindingCapture(j, f)
        PROVE  Slot!Admit(j)
    BY <1>1 DEF RequestFindingCapture, Slot!Admit
  <1>2. ASSUME NEW h \in Handlers, CancelCommit(h)
        PROVE  Slot!Vacate \/ UNCHANGED Slot!vars
    <2>1. cancelling[h] \in Jobs /\ status[cancelling[h]] # "none"
      BY <1>2 DEF CancelCommit
    <2>2. CASE status[cancelling[h]] \in Active
      BY <1>2, <2>1, <2>2 DEF CancelCommit, Slot!Vacate
    <2>3. CASE status[cancelling[h]] \notin Active
      BY <1>2, <2>1, <2>3 DEF CancelCommit
    <2>4. QED
      BY <2>2, <2>3
  <1>3. ASSUME NEW h \in Handlers, NEW j \in Jobs, CancelRead(h, j)
        PROVE  UNCHANGED Slot!vars
    BY <1>3 DEF CancelRead
  <1>4. ASSUME NEW f \in Findings,
               ArchiveFinding(f) \/ RestoreFinding(f) \/ DeleteFinding(f)
        PROVE  UNCHANGED Slot!vars
    BY <1>4 DEF ArchiveFinding, RestoreFinding, DeleteFinding, SetFinding
  <1>5. QED
    BY WebStep, <1>1, <1>2, <1>3, <1>4 DEF WebStep, Slot!Next

\* The completing transaction stores evidence once and vacates the slot if
\* the job still holds it.
LEMMA CompletionRefines == ASSUME IInv, wpc = "written", CompletingCommit
                           PROVE  Slot!Store(wjob)
  BY DEF IInv, TypeOK, WorkerInv, Holding, CompletingCommit, ActiveJobs,
         Active, Slot!Store

\* A completion, acknowledged or not, is a step of the abstract slot.
LEMMA CompletionIsNext == ASSUME IInv, CompleteCaptureJob \/ CompletionAckLost
                          PROVE  Slot!Next
  <1>1. wpc = "written" /\ CompletingCommit
    BY DEF CompleteCaptureJob, CompletionAckLost
  <1>2. wjob \in Jobs
    BY <1>1 DEF IInv, WorkerInv, Holding
  <1>3. Slot!Store(wjob)
    BY <1>1, CompletionRefines
  <1>4. QED
    BY <1>2, <1>3 DEF Slot!Next

\* A step of the worker vacates the slot, stores evidence, or is invisible.
LEMMA WorkerRefines == ASSUME IInv, WorkerStep \/ Fault
                       PROVE  [Slot!Next]_(Slot!vars)
  <1> USE DEF IInv, TypeOK, AtMostOneActive, WorkerInv, Holding, ActiveJobs, Active,
              Status, dbVars, workerVars, faultVars, Slot!vars
  <1>1. ASSUME NEW j \in Jobs, ClaimNextCaptureJob(j) PROVE UNCHANGED Slot!vars
    BY <1>1 DEF ClaimNextCaptureJob
  <1>2. ASSUME CompleteCaptureJob \/ CompletionAckLost PROVE Slot!Next
    BY <1>2, CompletionIsNext
  <1>3. ASSUME FailCaptureJob PROVE Slot!Vacate \/ UNCHANGED Slot!vars
    <2>1. wjob \in Jobs /\ status[wjob] # "none"
      BY <1>3 DEF FailCaptureJob
    <2>2. CASE status[wjob] \in Active
      BY <1>3, <2>1, <2>2 DEF FailCaptureJob, Slot!Vacate
    <2>3. CASE status[wjob] \notin Active
      BY <1>3, <2>1, <2>3 DEF FailCaptureJob
    <2>4. QED
      BY <2>2, <2>3
  <1>4. ASSUME \/ Poll \/ ClaimNothing \/ ReloadRunning \/ CaptureOrPersistFails
               \/ WritePng \/ CompletionRolledBack \/ FailReload
               \/ FailureNotRecorded \/ WorkerKilled
        PROVE  UNCHANGED Slot!vars
    BY <1>4 DEF Poll, ClaimNothing, ReloadRunning, CaptureOrPersistFails,
                WritePng, CompletionRolledBack, FailReload,
                FailureNotRecorded, WorkerKilled, DropJob
  <1>5. QED
    BY <1>1, <1>2, <1>3, <1>4 DEF WorkerStep, Fault, Slot!Next

\* Every behaviour of the queue is a behaviour of the abstract slot: one job
\* at a time, each at most once, evidence only added and only for admitted
\* jobs.
THEOREM Refinement == Spec => ImplementsSlot
  <1>1. Init => Slot!Init
    BY DEF Init, Slot!Init, ActiveJobs, Active
  <1>2. IInv /\ UNCHANGED vars => UNCHANGED Slot!vars
    BY DEF vars, dbVars, Slot!vars, ActiveJobs
  <1>3. IInv /\ [Next]_vars => [Slot!Next]_(Slot!vars)
    BY <1>2, WebRefines, WorkerRefines DEF Next
  <1>4. QED
    BY Invariance, <1>1, <1>3, PTL DEF Spec, ImplementsSlot, Slot!Spec
=============================================================================
