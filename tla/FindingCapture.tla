--------------------------- MODULE FindingCapture ---------------------------
(***************************************************************************)
(* The finding-capture queue (FEAT-1): web requests put screenshot jobs in *)
(* a table guarded by two partial unique indexes, one dedicated worker     *)
(* claims a job, drives Chromium without holding a transaction, and then   *)
(* stores a PNG file and a database row.  Web requests may cancel a job at *)
(* any moment, users archive and delete findings meanwhile, the worker may *)
(* be killed between any two steps and is restarted by systemd, and the    *)
(* acknowledgement of a commit may be lost.                                *)
(*                                                                         *)
(* A read and the blind UPDATE that follows it are two actions whenever no *)
(* row lock spans them (PostgreSQL READ COMMITTED).                        *)
(***************************************************************************)
EXTENDS Naturals, FiniteSets

CONSTANTS
    Jobs,       \* rows that can ever appear in finding_capture_jobs
    Findings,   \* findings a capture can be requested for
    Handlers,   \* web request handlers that can be cancelling concurrently
    None,       \* no job, no finding
    MaxFaults   \* bound: process kills and database failures in a behaviour

ASSUME CaptureAssumption ==
    /\ None \notin Jobs
    /\ None \notin Findings
    /\ MaxFaults \in Nat

VARIABLES
    status,     \* FindingCaptureJob.status, "none" before the INSERT
    target,     \* FindingCaptureJob.finding_id
    shot,       \* jobs whose screenshot_id is set
    rows,       \* jobs with a committed FindingScreenshot row
    files,      \* jobs whose PNG lies in the evidence directory
    finding,    \* life of each finding: live, archived or (soft-)deleted
    wpc, wjob,  \* the worker's control point and the job in its hands
    cancelling, \* handler -> job it has read as active but not yet written
    faults,     \* faults so far
    abandoned,  \* history: jobs the worker dropped while they were running
    ackLost     \* history: jobs whose completing commit was not acknowledged

dbVars     == <<status, target, shot, rows>>
workerVars == <<wpc, wjob>>
faultVars  == <<faults, abandoned, ackLost>>
vars == <<dbVars, files, finding, workerVars, cancelling, faultVars>>

Status == {"none", "queued", "running", "completed", "failed", "cancelled"}
Active == {"queued", "running"}

ActiveJobs == {j \in Jobs : status[j] \in Active}

WorkerPoint ==
    {"poll", "claim", "capturing", "checked", "written", "failing", "recording"}

\* Control points at which the worker still has a claimed job in its hands.
Holding == {"capturing", "checked", "written", "failing", "recording"}

TypeOK ==
    /\ status \in [Jobs -> Status]
    /\ target \in [Jobs -> Findings \cup {None}]
    /\ shot \in SUBSET Jobs
    /\ rows \in SUBSET Jobs
    /\ files \in SUBSET Jobs
    /\ finding \in [Findings -> {"live", "archived", "deleted"}]
    /\ wpc \in WorkerPoint
    /\ wjob \in Jobs \cup {None}
    /\ cancelling \in [Handlers -> Jobs \cup {None}]
    /\ faults \in 0 .. MaxFaults
    /\ abandoned \in SUBSET Jobs
    /\ ackLost \in SUBSET Jobs

Init ==
    /\ status = [j \in Jobs |-> "none"]
    /\ target = [j \in Jobs |-> None]
    /\ shot = {}
    /\ rows = {}
    /\ files = {}
    /\ finding = [f \in Findings |-> "live"]
    /\ wpc = "poll"
    /\ wjob = None
    /\ cancelling = [h \in Handlers |-> None]
    /\ faults = 0
    /\ abandoned = {}
    /\ ackLost = {}

-----------------------------------------------------------------------------
(* The web process *)

\* _resolve_mutable_finding: neither soft-deleted nor archived.
Mutable(f) == finding[f] = "live"

\* INSERT and audit commit together; either unique index turns a second
\* active job into CaptureAlreadyActive (409) and leaves nothing behind.
RequestFindingCapture(j, f) ==
    /\ status[j] = "none"
    /\ Mutable(f)
    /\ ActiveJobs = {}
    /\ status' = [status EXCEPT ![j] = "queued"]
    /\ target' = [target EXCEPT ![j] = f]
    /\ UNCHANGED <<shot, rows, files, finding, workerVars, cancelling, faultVars>>

\* The handler reads the job without a lock and sees it active ...
CancelRead(h, j) ==
    /\ cancelling[h] = None
    /\ status[j] \in Active
    /\ Mutable(target[j])
    /\ cancelling' = [cancelling EXCEPT ![h] = j]
    /\ UNCHANGED <<dbVars, files, finding, workerVars, faultVars>>

\* ... and later commits the new status whatever the row holds by then.
CancelCommit(h) ==
    /\ cancelling[h] # None
    /\ status' = [status EXCEPT ![cancelling[h]] = "cancelled"]
    /\ cancelling' = [cancelling EXCEPT ![h] = None]
    /\ UNCHANGED <<target, shot, rows, files, finding, workerVars, faultVars>>

SetFinding(f, from, to) ==
    /\ finding[f] = from
    /\ finding' = [finding EXCEPT ![f] = to]
    /\ UNCHANGED <<dbVars, files, workerVars, cancelling, faultVars>>

ArchiveFinding(f) == SetFinding(f, "live", "archived")
RestoreFinding(f) == SetFinding(f, "archived", "live")
DeleteFinding(f)  == SetFinding(f, "live", "deleted")

-----------------------------------------------------------------------------
(* The dedicated worker *)

MoveTo(point) == wpc' = point /\ wjob' = wjob

Release == wpc' = "poll" /\ wjob' = None

\* has_queued_capture_job is a read-only look, then the sandbox probe passes.
Poll ==
    /\ wpc = "poll"
    /\ \E j \in Jobs : status[j] = "queued"
    /\ MoveTo("claim")
    /\ UNCHANGED <<dbVars, files, finding, cancelling, faultVars>>

\* Wrong variant: the claim trusts an earlier read instead of locking the row.
ClaimWithoutLock(j) ==
    /\ wpc = "claim"
    /\ status[j] \in {"queued", "cancelled"}
    /\ status' = [status EXCEPT ![j] = "running"]
    /\ wpc' = "capturing"
    /\ wjob' = j
    /\ UNCHANGED <<target, shot, rows, files, finding, cancelling, faultVars>>

\* SELECT ... FOR UPDATE SKIP LOCKED and the UPDATE are one transaction.
ClaimNextCaptureJob(j) ==
    /\ wpc = "claim"
    /\ status[j] = "queued"
    /\ status' = [status EXCEPT ![j] = "running"]
    /\ wpc' = "capturing"
    /\ wjob' = j
    /\ UNCHANGED <<target, shot, rows, files, finding, cancelling, faultVars>>

\* The job seen by the look was cancelled before the claim.
ClaimNothing ==
    /\ wpc = "claim"
    /\ \A j \in Jobs : status[j] # "queued"
    /\ Release
    /\ UNCHANGED <<dbVars, files, finding, cancelling, faultVars>>

\* The page was captured and the reloaded job is still running.
ReloadRunning ==
    /\ wpc = "capturing"
    /\ status[wjob] = "running"
    /\ MoveTo("checked")
    /\ UNCHANGED <<dbVars, files, finding, cancelling, faultVars>>

\* Chromium gave no usable page, or the job is no longer running, or (after
\* the reload) the output is no PNG or could not be written.
CaptureOrPersistFails ==
    /\ wpc \in {"capturing", "checked"}
    /\ MoveTo("failing")
    /\ UNCHANGED <<dbVars, files, finding, cancelling, faultVars>>

\* Wrong variant: the row is committed before the file is written.
WritePngLater ==
    /\ wpc = "checked"
    /\ MoveTo("written")
    /\ UNCHANGED <<dbVars, files, finding, cancelling, faultVars>>

\* _write_png_atomically: the file appears whole, before the row does.
WritePng ==
    /\ wpc = "checked"
    /\ files' = files \cup {wjob}
    /\ MoveTo("written")
    /\ UNCHANGED <<dbVars, finding, cancelling, faultVars>>

\* Wrong variant: the row is stored but the job is left running.
CompletingCommitKeepsRunning ==
    /\ shot' = shot \cup {wjob}
    /\ rows' = rows \cup {wjob}
    /\ UNCHANGED <<status, target>>

\* One transaction: the screenshot row, complete_capture_job and the audit
\* row.  complete_capture_job tests the status loaded by the reload, so the
\* UPDATE is unguarded in the database.
CompletingCommit ==
    /\ status' = [status EXCEPT ![wjob] = "completed"]
    /\ shot' = shot \cup {wjob}
    /\ rows' = rows \cup {wjob}
    /\ UNCHANGED target

CompleteCaptureJob ==
    /\ wpc = "written"
    /\ CompletingCommit
    /\ Release
    /\ UNCHANGED <<files, finding, cancelling, faultVars>>

\* The transaction failed: rollback and unlink.
CompletionRolledBack ==
    /\ wpc = "written"
    /\ files' = files \ {wjob}
    /\ MoveTo("failing")
    /\ UNCHANGED <<dbVars, finding, cancelling, faultVars>>

\* The server committed, the client saw a broken connection: same handler.
CompletionAckLost ==
    /\ wpc = "written"
    /\ faults < MaxFaults
    /\ faults' = faults + 1
    /\ CompletingCommit
    /\ files' = files \ {wjob}
    /\ ackLost' = ackLost \cup {wjob}
    /\ MoveTo("failing")
    /\ UNCHANGED <<finding, cancelling, abandoned>>

\* Wrong variant: the outer except only logs.
FailReloadForgets ==
    /\ wpc = "failing"
    /\ Release
    /\ UNCHANGED <<dbVars, files, finding, cancelling, faultVars>>

\* The outer except reloads the job; only a running one is marked failed.
FailReload ==
    /\ wpc = "failing"
    /\ IF status[wjob] = "running" THEN MoveTo("recording") ELSE Release
    /\ UNCHANGED <<dbVars, files, finding, cancelling, faultVars>>

FailCaptureJob ==
    /\ wpc = "recording"
    /\ status' = [status EXCEPT ![wjob] = "failed"]
    /\ Release
    /\ UNCHANGED <<target, shot, rows, files, finding, cancelling, faultVars>>

\* The failure itself could not be recorded (logged, loop goes on), or the
\* process was killed: systemd restarts the worker at the top of its loop.
\* Either way a job that was running stays so.
DropJob ==
    /\ faults < MaxFaults
    /\ faults' = faults + 1
    /\ abandoned' = abandoned \cup {j \in {wjob} \cap Jobs : status[j] = "running"}
    /\ Release
    /\ UNCHANGED <<dbVars, files, finding, cancelling, ackLost>>

FailureNotRecorded == wpc \in {"failing", "recording"} /\ DropJob

WorkerKilled == wpc # "poll" /\ DropJob

-----------------------------------------------------------------------------
WorkerStep ==
    \/ Poll
    \/ \E j \in Jobs : ClaimNextCaptureJob(j)
    \/ ClaimNothing
    \/ ReloadRunning
    \/ CaptureOrPersistFails
    \/ WritePng
    \/ CompleteCaptureJob
    \/ CompletionRolledBack
    \/ FailReload
    \/ FailCaptureJob

Fault == CompletionAckLost \/ FailureNotRecorded \/ WorkerKilled

WebStep ==
    \/ \E j \in Jobs, f \in Findings : RequestFindingCapture(j, f)
    \/ \E h \in Handlers, j \in Jobs : CancelRead(h, j)
    \/ \E h \in Handlers : CancelCommit(h)
    \/ \E f \in Findings : ArchiveFinding(f) \/ RestoreFinding(f) \/ DeleteFinding(f)

Next == WorkerStep \/ Fault \/ WebStep

Spec == Init /\ [][Next]_vars

\* The worker polls in an endless loop and every wait in it is bounded
\* (Chromium timeouts), so a step it can always take is taken.
FairSpec == Spec /\ WF_vars(WorkerStep)

-----------------------------------------------------------------------------
(* Properties *)

\* The partial unique indexes promise one active capture at a time; no
\* unguarded UPDATE may ever bring a finished job back into the slot.
AtMostOneActive ==
    \A j, k \in ActiveJobs : j = k

\* Evidence stands behind every completion: a completed job has its row and
\* its screenshot_id, and the file of every acknowledged row is on disk.
EvidenceBacked ==
    /\ \A j \in Jobs : status[j] = "completed" => j \in rows
    /\ shot = rows
    /\ rows \ ackLost \subseteq files

\* A running job is in the worker's hands unless a fault made it drop it:
\* nothing else can block the slot for every tenant.
RunningIsHeldOrAbandoned ==
    \A j \in Jobs :
        status[j] = "running" => (wpc \in Holding /\ wjob = j) \/ j \in abandoned

\* A cancellation can only be overwritten by the worker that had already
\* reloaded the same job as running; a later reload always sees it.
CancelOverwrittenOnlyInFlight ==
    [][\A j \in Jobs :
         status[j] = "cancelled" /\ status'[j] # "cancelled"
           => wjob = j /\ wpc \in {"checked", "written", "recording"}]_vars

\* Every queued job reaches a terminal status unless a fault abandoned it.
QueuedIsSettled ==
    \A j \in Jobs :
        status[j] = "queued"
          ~> status[j] \in {"completed", "failed", "cancelled"} \/ j \in abandoned

\* The queue implements the abstract slot.
Slot == INSTANCE CaptureSlot WITH
    slot     <- ActiveJobs,
    admitted <- {j \in Jobs : status[j] # "none"},
    evidence <- rows

ImplementsSlot == Slot!Spec
=============================================================================
