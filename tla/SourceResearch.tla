--------------------------- MODULE SourceResearch ---------------------------
(***************************************************************************)
(* Deep source research: a web request stores a pending scan with the      *)
(* research action that owns it, one dedicated worker starts the scan at   *)
(* an external SpiderFoot server, polls it, and turns its results into     *)
(* candidate findings; users import proposals by hand, cancel the action,  *)
(* and the legacy SpiderFoot pages view, refresh, stop and delete the same *)
(* scan rows.                                                              *)
(*                                                                         *)
(* A read and the blind UPDATE based on it are two actions whenever no row *)
(* lock spans them (PostgreSQL READ COMMITTED); the ORM writes a column    *)
(* only if the new value differs from the one it loaded.                   *)
(***************************************************************************)
EXTENDS Naturals, FiniteSets

CONSTANTS
    NumScans,       \* scans, numbered in the order of their creation
    NumHistorical,  \* scans completed by a release without a ledger
    NumProposals,   \* results of each scan
    Payloads,       \* what the identity of a finding's payload can be
    NoData,         \* a result that carries no data
    Payload,        \* the payload of each result of each scan
    MaxConcurrent,  \* the tenant's limit on concurrent scans
    Window,         \* completed scans looked at by one reconciliation
    Requesters,     \* web handlers that may be requesting research
    Pages,          \* web handlers that may be cancelling or on a legacy page
    Deletable,      \* bound: scans that a user may delete on a legacy page
    None,           \* no scan
    MaxFaults       \* bound: kills, failed commits and failed external calls

Scans == 1 .. NumScans
Historical == 1 .. NumHistorical
Indexes == 1 .. NumProposals
Proposals == Scans \X Indexes

ASSUME ResearchAssumption ==
    /\ NumScans \in Nat
    /\ NumHistorical \in 0 .. NumScans
    /\ NumProposals \in Nat
    /\ Payload \in [Proposals -> Payloads \cup {NoData}]
    /\ NoData \notin Payloads
    /\ MaxConcurrent \in Nat
    /\ Window \in Nat
    /\ None \notin Scans
    /\ Deletable \subseteq Scans
    /\ MaxFaults \in Nat
    /\ IsFiniteSet(Requesters)

VARIABLES
    scan,       \* SpiderFootScan.status, "none" before the INSERT
    action,     \* ResearchAction.status of the action that owns the scan
    real,       \* scans whose scan_id is no longer the local placeholder
    removed,    \* scans with is_deleted
    proposals,  \* result_summary["proposals"]: indexes of the stored results
    ledger,     \* result_summary["imported_indexes"]
    finding,    \* the finding made from a proposal: none, live or gone
    links,      \* ActionFinding rows of the scan's action
    ext,        \* the scan at the SpiderFoot server
    wpc, wscan, \* the worker's control point and the scan in its hands
    saw,        \* the external state its last poll returned
    fetched,    \* the results it fetched
    asking,     \* requesters past the limit check, not yet inserted
    page,       \* each page handler: what it does and what it has read
    faults,     \* faults so far
    stranded,   \* history: claimed scans whose worker died without an id
    reopened,   \* history: settled scans a stale page write made active again
    twice       \* history: proposals a finding was created for again

rowVars    == <<scan, action, real, removed>>
resultVars == <<proposals, ledger, finding, links>>
workerVars == <<wpc, wscan, saw, fetched>>
webVars    == <<asking, page>>
vars == <<rowVars, resultVars, ext, workerVars, webVars, faults, stranded,
          reopened, twice>>

\* "raw" stands for a status word of the server stored unmapped.
ScanStatus ==
    {"none", "pending", "running", "completed", "failed", "cancelled", "raw"}
Settled == {"completed", "failed", "cancelled"}
ActionStatus == {"none", "pending", "running", "completed", "error", "cancelled"}
External == {"none", "running", "finished", "error", "aborted"}

WorkerPoint ==
    {"poll", "claimed", "launching", "launched", "failing", "polling", "polled",
     "finishing"}

\* Control points before the scan has its real id.
Starting == {"claimed", "launching", "launched", "failing"}

PageState ==
    [op : {"idle", "view", "summary", "refresh", "stop", "cancel"},
     scan : Scans \cup {None}, seen : External, loaded : ScanStatus]

IdlePage == [op |-> "idle", scan |-> None, seen |-> "none", loaded |-> "none"]

TypeOK ==
    /\ scan \in [Scans -> ScanStatus]
    /\ action \in [Scans -> ActionStatus]
    /\ real \subseteq Scans
    /\ removed \subseteq Scans
    /\ proposals \in [Scans -> SUBSET Indexes]
    /\ ledger \in [Scans -> SUBSET Indexes]
    /\ finding \in [Proposals -> {"none", "live", "gone"}]
    /\ links \in [Scans -> SUBSET Proposals]
    /\ ext \in [Scans -> External]
    /\ wpc \in WorkerPoint
    /\ wscan \in Scans \cup {None}
    /\ saw \in External
    /\ fetched \subseteq Indexes
    /\ asking \subseteq Requesters
    /\ page \in [Pages -> PageState]
    /\ faults \in 0 .. MaxFaults
    /\ stranded \subseteq Scans
    /\ reopened \subseteq Scans
    /\ twice \subseteq Proposals

Init ==
    /\ scan = [s \in Scans |-> IF s \in Historical THEN "completed" ELSE "none"]
    /\ action = [s \in Scans |-> IF s \in Historical THEN "completed" ELSE "none"]
    /\ real = Historical
    /\ removed = {}
    /\ proposals = [s \in Scans |-> IF s \in Historical THEN Indexes ELSE {}]
    /\ ledger = [s \in Scans |-> {}]
    /\ finding = [p \in Proposals |-> "none"]
    /\ links = [s \in Scans |-> {}]
    /\ ext = [s \in Scans |-> IF s \in Historical THEN "finished" ELSE "none"]
    /\ wpc = "poll"
    /\ wscan = None
    /\ saw = "none"
    /\ fetched = {}
    /\ asking = {}
    /\ page = [h \in Pages |-> IdlePage]
    /\ faults = 0
    /\ stranded = {}
    /\ reopened = {}
    /\ twice = {}

-----------------------------------------------------------------------------
(* Findings *)

\* Result i of scan s carries data that becomes a finding.
HasData(s, i) == Payload[<<s, i>>] # NoData

\* Creating findings: history remembers those that existed before.
Create(new) ==
    /\ finding' = [p \in Proposals |-> IF p \in new THEN "live" ELSE finding[p]]
    /\ twice' = twice \cup {p \in new : finding[p] # "none"}

\* A live finding in the case with the payload of proposal p.
LiveTwins(p) ==
    {q \in Proposals : finding[q] = "live" /\ Payload[q] = Payload[p]}

\* Wrong variant: a known payload is marked imported but not linked.
MaterializeUnlinked(s, stored, done) ==
    LET todo == {i \in stored \ done : HasData(s, i)}
        new  == {<<s, i>> : i \in {k \in todo :
                   /\ LiveTwins(<<s, k>>) = {}
                   /\ \A j \in todo : j < k => Payload[<<s, j>>] # Payload[<<s, k>>]}}
    IN  /\ Create(new)
        /\ links' = [links EXCEPT ![s] = @ \cup new]
        /\ proposals' = [proposals EXCEPT ![s] = stored]
        /\ ledger' = [ledger EXCEPT ![s] = stored \cup done]

\* _materialize_completed_proposals: each stored result not in the ledger is
\* linked to a live finding with its payload, or to a new one made from the
\* first such result; results without data are only ticked off.
Materialize(s, stored, done) ==
    LET todo == {i \in stored \ done : HasData(s, i)}
        new  == {<<s, i>> : i \in {k \in todo :
                   /\ LiveTwins(<<s, k>>) = {}
                   /\ \A j \in todo : j < k => Payload[<<s, j>>] # Payload[<<s, k>>]}}
        Known(i) == LiveTwins(<<s, i>>) \cup
                      {q \in new : Payload[q] = Payload[<<s, i>>]}
    IN  /\ Create(new)
        /\ \E twin \in [todo -> Proposals] :
              /\ \A i \in todo : twin[i] \in Known(i)
              /\ links' = [links EXCEPT ![s] = @ \cup {twin[i] : i \in todo}]
        /\ proposals' = [proposals EXCEPT ![s] = stored]
        /\ ledger' = [ledger EXCEPT ![s] = stored \cup done]

\* A user archives or deletes a finding; the deduplication ignores it then.
DiscardFinding(p) ==
    /\ finding[p] = "live"
    /\ finding' = [finding EXCEPT ![p] = "gone"]
    /\ UNCHANGED <<rowVars, proposals, ledger, links, ext, workerVars, webVars,
                   faults, stranded, reopened, twice>>

-----------------------------------------------------------------------------
(* Requesting research *)

Counted == {s \in Scans \ removed : scan[s] \in {"pending", "running"}}

\* Wrong variant: off by one.
CheckLimitInclusive(r) ==
    /\ r \notin asking
    /\ MaxConcurrent > 0 => Cardinality(Counted) <= MaxConcurrent
    /\ asking' = asking \cup {r}
    /\ UNCHANGED <<rowVars, resultVars, ext, workerVars, page, faults, stranded,
                   reopened, twice>>

\* check_concurrent_spiderfoot_scans: a plain count; no limit means zero.
CheckLimit(r) ==
    /\ r \notin asking
    /\ MaxConcurrent > 0 => Cardinality(Counted) < MaxConcurrent
    /\ asking' = asking \cup {r}
    /\ UNCHANGED <<rowVars, resultVars, ext, workerVars, page, faults, stranded,
                   reopened, twice>>

\* queue_passive_source_research and the audit rows commit together; action
\* and scan start pending with a placeholder instead of an external id.
QueueResearch(r, s) ==
    /\ r \in asking
    /\ scan[s] = "none"
    /\ \A t \in Scans : t < s => scan[t] # "none"
    /\ scan' = [scan EXCEPT ![s] = "pending"]
    /\ action' = [action EXCEPT ![s] = "pending"]
    /\ asking' = asking \ {r}
    /\ UNCHANGED <<real, removed, resultVars, ext, workerVars, page, faults,
                   stranded, reopened, twice>>

\* The transaction failed and left nothing behind.
QueueRejected(r) ==
    /\ r \in asking
    /\ asking' = asking \ {r}
    /\ UNCHANGED <<rowVars, resultVars, ext, workerVars, page, faults, stranded,
                   reopened, twice>>

-----------------------------------------------------------------------------
(* The dedicated worker *)

WorkerAt(point, s) == wpc' = point /\ wscan' = s

Release == WorkerAt("poll", None) /\ saw' = "none" /\ fetched' = {}

Keep == UNCHANGED <<saw, fetched>>

Oldest(s, S) == s \in S /\ \A t \in S : s <= t

Startable == {s \in Scans \ (removed \cup real) : scan[s] = "pending"}

\* Wrong variant: a claimed placeholder is picked for polling too.
PollableWithPlaceholder == {s \in Scans \ removed : scan[s] = "running"}

\* A claimed placeholder is not pollable and must not starve a real scan.
Pollable == {s \in real \ removed : scan[s] = "running"}

\* The claim: SELECT ... FOR UPDATE SKIP LOCKED, both rows, one commit.
ClaimScan(s) ==
    /\ wpc = "poll"
    /\ Oldest(s, Startable)
    /\ scan' = [scan EXCEPT ![s] = "running"]
    /\ action' = [action EXCEPT ![s] = "running"]
    /\ WorkerAt("claimed", s)
    /\ Keep
    /\ UNCHANGED <<real, removed, resultVars, ext, webVars, faults, stranded,
                   reopened, twice>>

\* A feature was switched off meanwhile, or the server is not available.
RefuseStart ==
    /\ wpc = "claimed"
    /\ WorkerAt("failing", wscan)
    /\ Keep
    /\ UNCHANGED <<rowVars, resultVars, ext, webVars, faults, stranded, reopened, twice>>

\* Wrong variant: the row is not looked at again before the external start.
StartUnchecked ==
    /\ wpc = "claimed"
    /\ WorkerAt("launching", wscan)
    /\ Keep
    /\ UNCHANGED <<rowVars, resultVars, ext, webVars, faults, stranded, reopened, twice>>

\* The row is read again; if it is no longer running the claim is dropped.
ReloadForStart ==
    /\ wpc = "claimed"
    /\ IF scan[wscan] = "running"
         THEN WorkerAt("launching", wscan) /\ Keep
         ELSE Release
    /\ UNCHANGED <<rowVars, resultVars, ext, webVars, faults, stranded, reopened, twice>>

\* The server accepted the scan and returned its id.
StartAccepted ==
    /\ wpc = "launching"
    /\ ext' = [ext EXCEPT ![wscan] = "running"]
    /\ WorkerAt("launched", wscan)
    /\ Keep
    /\ UNCHANGED <<rowVars, resultVars, webVars, faults, stranded, reopened, twice>>

\* The client returned None: refused, or started and the answer lost.
StartUnanswered ==
    /\ wpc = "launching"
    /\ \/ faults' = faults /\ ext' = ext
       \/ /\ faults < MaxFaults
          /\ faults' = faults + 1
          /\ ext' = [ext EXCEPT ![wscan] = "running"]
    /\ WorkerAt("failing", wscan)
    /\ Keep
    /\ UNCHANGED <<rowVars, resultVars, webVars, stranded, reopened, twice>>

\* The external id is stored.  The status was loaded as running and set to
\* running, so the UPDATE leaves that column alone.
RecordRealId ==
    /\ wpc = "launched"
    /\ real' = real \cup {wscan}
    /\ Release
    /\ UNCHANGED <<scan, action, removed, resultVars, ext, webVars, faults,
                   stranded, reopened, twice>>

RecordRealIdFails ==
    /\ wpc = "launched"
    /\ faults < MaxFaults
    /\ faults' = faults + 1
    /\ WorkerAt("failing", wscan)
    /\ Keep
    /\ UNCHANGED <<rowVars, resultVars, ext, webVars, stranded, reopened, twice>>

\* _set_failed writes both rows whatever they hold.
SetFailed ==
    /\ wpc = "failing"
    /\ scan' = [scan EXCEPT ![wscan] = "failed"]
    /\ action' = [action EXCEPT ![wscan] = "error"]
    /\ Release
    /\ UNCHANGED <<real, removed, resultVars, ext, webVars, faults, stranded,
                   reopened, twice>>

\* Nothing to start: the oldest running scan is taken up, its lock dropped.
BeginRefresh(s) ==
    /\ wpc = "poll"
    /\ Startable = {}
    /\ Oldest(s, Pollable)
    /\ WorkerAt("polling", s)
    /\ Keep
    /\ UNCHANGED <<rowVars, resultVars, ext, webVars, faults, stranded, reopened, twice>>

\* Every word of the server but the terminal ones counts as running.
PollStillRunning ==
    /\ wpc = "polling"
    /\ ext[wscan] \in {"none", "running"}
    /\ Release
    /\ UNCHANGED <<rowVars, resultVars, ext, webVars, faults, stranded, reopened, twice>>

\* A failed status call reads as running.
PollFails ==
    /\ wpc = "polling"
    /\ faults < MaxFaults
    /\ faults' = faults + 1
    /\ Release
    /\ UNCHANGED <<rowVars, resultVars, ext, webVars, stranded, reopened, twice>>

\* The scan ended and its results were fetched; the client turns a failed
\* fetch into an empty list.
PollEnded ==
    /\ wpc = "polling"
    /\ ext[wscan] \in {"finished", "error", "aborted"}
    /\ saw' = ext[wscan]
    /\ \/ fetched' = (IF saw' = "finished" THEN Indexes ELSE {}) /\ faults' = faults
       \/ /\ saw' = "finished"
          /\ faults < MaxFaults
          /\ fetched' = {}
          /\ faults' = faults + 1
    /\ WorkerAt("polled", wscan)
    /\ UNCHANGED <<rowVars, resultVars, ext, webVars, stranded, reopened, twice>>

\* The row is read again; only a running one is finished.
ReloadForFinish ==
    /\ wpc = "polled"
    /\ IF scan[wscan] = "running"
         THEN WorkerAt("finishing", wscan) /\ Keep
         ELSE Release
    /\ UNCHANGED <<rowVars, resultVars, ext, webVars, faults, stranded, reopened, twice>>

\* _scan_status: the server's word for an end, and the row's.
Mapped ==
    [finished |-> "completed", error |-> "failed", aborted |-> "cancelled"]

\* Scan, proposals, findings, links and action in one commit, unguarded.  The
\* fresh result_summary has no ledger.
FinishScan ==
    /\ wpc = "finishing"
    /\ scan' = [scan EXCEPT ![wscan] = Mapped[saw]]
    /\ action' = [action EXCEPT ![wscan] =
                    IF saw = "finished" THEN "completed" ELSE "error"]
    /\ Materialize(wscan, fetched, {})
    /\ Release
    /\ UNCHANGED <<real, removed, ext, webVars, faults, stranded, reopened>>

\* Rollback: the scan stays running and is polled again ("retry").
FinishRolledBack ==
    /\ wpc = "finishing"
    /\ faults < MaxFaults
    /\ faults' = faults + 1
    /\ Release
    /\ UNCHANGED <<rowVars, resultVars, ext, webVars, stranded, reopened, twice>>

Completed == {s \in Scans \ removed : scan[s] = "completed"}

\* The rows a reconciliation locks: the oldest completed scans, LIMIT Window.
InWindow(s) ==
    /\ s \in Completed
    /\ Cardinality({t \in Completed : t < s}) < Window

\* Wrong variant: any index in the ledger will do.
Untouched(s) == proposals[s] # {} /\ ledger[s] = {}

Unimported(s) == proposals[s] \ ledger[s] # {}

\* An idle tick: the oldest scan of the window with proposals not yet imported
\* is materialised under its row lock.
Reconcile(s) ==
    /\ wpc = "poll"
    /\ Startable = {} /\ Pollable = {}
    /\ Oldest(s, {t \in Scans : InWindow(t) /\ Unimported(t)})
    /\ Materialize(s, proposals[s], ledger[s])
    /\ UNCHANGED <<rowVars, ext, workerVars, webVars, faults, stranded, reopened>>

\* The process is killed or an exception leaves its loop; systemd restarts it.
WorkerKilled ==
    /\ wpc # "poll"
    /\ faults < MaxFaults
    /\ faults' = faults + 1
    /\ stranded' = IF wpc \in Starting THEN stranded \cup {wscan} ELSE stranded
    /\ Release
    /\ UNCHANGED <<rowVars, resultVars, ext, webVars, reopened, twice>>

-----------------------------------------------------------------------------
(* The SpiderFoot server *)

ExternalEnds(s) ==
    /\ ext[s] = "running"
    /\ \E end \in {"finished", "error"} : ext' = [ext EXCEPT ![s] = end]
    /\ UNCHANGED <<rowVars, resultVars, workerVars, webVars, faults, stranded,
                   reopened, twice>>

-----------------------------------------------------------------------------
(* Importing by hand, cancelling, and the legacy pages *)

\* Wrong variant: the ledger is written but not consulted.
ImportIgnoringLedger(s, chosen) ==
    /\ s \in Completed
    /\ chosen # {} /\ chosen \subseteq proposals[s]
    /\ \A i \in chosen : HasData(s, i)
    /\ Create({<<s, i>> : i \in chosen})
    /\ links' = [links EXCEPT ![s] = @ \cup {<<s, i>> : i \in chosen}]
    /\ ledger' = [ledger EXCEPT ![s] = @ \cup chosen]
    /\ UNCHANGED <<rowVars, proposals, ext, workerVars, webVars, faults,
                   stranded, reopened>>

\* The scan row is locked from the query to the commit; a chosen proposal
\* without data, or none left to import, changes nothing.
ImportProposals(s, chosen) ==
    LET fresh == chosen \ ledger[s] IN
    /\ s \in Completed
    /\ chosen \subseteq proposals[s]
    /\ fresh # {} /\ \A i \in fresh : HasData(s, i)
    /\ Create({<<s, i>> : i \in fresh})
    /\ links' = [links EXCEPT ![s] = @ \cup {<<s, i>> : i \in fresh}]
    /\ ledger' = [ledger EXCEPT ![s] = @ \cup fresh]
    /\ UNCHANGED <<rowVars, proposals, ext, workerVars, webVars, faults,
                   stranded, reopened>>

\* A page handler loads the row and talks to the server ...
OpenPage(h, op, s) ==
    /\ page[h] = IdlePage
    /\ page' = [page EXCEPT ![h] =
                  [op |-> op, scan |-> s, seen |-> ext[s], loaded |-> scan[s]]]

ClosePage(h) == page' = [page EXCEPT ![h] = IdlePage]

\* The server knows no placeholder and no scan deleted there.
FetchStatus(h, s) ==
    /\ s \in real /\ ext[s] # "none"
    /\ \E op \in {"view", "refresh"} : OpenPage(h, op, s)
    /\ UNCHANGED <<rowVars, resultVars, ext, workerVars, asking, faults,
                   stranded, reopened, twice>>

\* ... and later commits a status, if it differs from the one it loaded.
PageWrites(h, status) ==
    LET s == page[h].scan IN
    /\ scan' = [scan EXCEPT ![s] = IF status = page[h].loaded THEN @ ELSE status]
    /\ reopened' = IF scan[s] \in Settled /\ scan'[s] \notin Settled
                     THEN reopened \cup {s} ELSE reopened

\* Counts of event types replace the proposals and the ledger.
OverwriteSummary(s) ==
    /\ proposals' = [proposals EXCEPT ![s] = {}]
    /\ ledger' = [ledger EXCEPT ![s] = {}]

\* The status view (GET) maps the words it knows ...
ViewCommit(h) ==
    /\ page[h].op = "view"
    /\ PageWrites(h, IF page[h].seen = "running" THEN "running" ELSE Mapped[page[h].seen])
    /\ page' = [page EXCEPT ![h].op = "summary"]
    /\ UNCHANGED <<action, real, removed, resultVars, ext, workerVars, asking,
                   faults, stranded, twice>>

\* ... then, for a row it finds completed, stores the counts.
ViewSummary(h) ==
    LET s == page[h].scan IN
    /\ page[h].op = "summary"
    /\ IF scan[s] = "completed" THEN OverwriteSummary(s) ELSE UNCHANGED <<proposals, ledger>>
    /\ ClosePage(h)
    /\ UNCHANGED <<rowVars, finding, links, ext, workerVars, asking, faults,
                   stranded, reopened, twice>>

\* The refresh button (POST) stores "RUNNING" as it came.
RefreshCommit(h) ==
    /\ page[h].op = "refresh"
    /\ PageWrites(h, IF page[h].seen = "running" THEN "raw" ELSE Mapped[page[h].seen])
    /\ IF page[h].seen = "finished"
         THEN OverwriteSummary(page[h].scan) ELSE UNCHANGED <<proposals, ledger>>
    /\ ClosePage(h)
    /\ UNCHANGED <<action, real, removed, finding, links, ext, workerVars,
                   asking, faults, stranded, twice>>

\* Stopping: first at the server ...
StopExternal(h, s) ==
    /\ scan[s] # "none"
    /\ OpenPage(h, "stop", s)
    /\ ext' = [ext EXCEPT ![s] = IF s \in real /\ @ = "running" THEN "aborted" ELSE @]
    /\ UNCHANGED <<rowVars, resultVars, workerVars, asking, faults, stranded,
                   reopened, twice>>

\* ... then the row; the action is left alone.
StopCommit(h) ==
    /\ page[h].op = "stop"
    /\ PageWrites(h, "cancelled")
    /\ ClosePage(h)
    /\ UNCHANGED <<action, real, removed, resultVars, ext, workerVars, asking,
                   faults, stranded, twice>>

\* Soft delete, one request; the server's copy goes too unless the row says
\* running.
DeleteScan(s) ==
    /\ s \in Deletable
    /\ scan[s] # "none"
    /\ s \notin removed
    /\ removed' = removed \cup {s}
    /\ ext' = [ext EXCEPT ![s] = IF s \in real /\ scan[s] # "running" THEN "none" ELSE @]
    /\ UNCHANGED <<scan, action, real, resultVars, workerVars, webVars, faults,
                   stranded, reopened, twice>>

\* cancel_action: the action is read as running ...
CancelRead(h, s) ==
    /\ action[s] = "running"
    /\ OpenPage(h, "cancel", s)
    /\ UNCHANGED <<rowVars, resultVars, ext, workerVars, asking, faults,
                   stranded, reopened, twice>>

\* ... and written later; the findings linked by then are soft-deleted.
CancelCommit(h) ==
    LET s == page[h].scan IN
    /\ page[h].op = "cancel"
    /\ action' = [action EXCEPT ![s] = "cancelled"]
    /\ finding' = [p \in Proposals |->
                     IF p \in links[s] /\ finding[p] # "none" THEN "gone" ELSE finding[p]]
    /\ ClosePage(h)
    /\ UNCHANGED <<scan, real, removed, proposals, ledger, links, ext,
                   workerVars, asking, faults, stranded, reopened, twice>>

-----------------------------------------------------------------------------
WorkerStep ==
    \/ \E s \in Scans : ClaimScan(s) \/ BeginRefresh(s) \/ Reconcile(s)
    \/ RefuseStart \/ ReloadForStart \/ StartAccepted \/ StartUnanswered
    \/ RecordRealId \/ SetFailed
    \/ PollStillRunning \/ PollEnded \/ ReloadForFinish \/ FinishScan

Fault == RecordRealIdFails \/ PollFails \/ FinishRolledBack \/ WorkerKilled

RequestStep ==
    \E r \in Requesters :
        CheckLimit(r) \/ QueueRejected(r) \/ \E s \in Scans : QueueResearch(r, s)

PageStep ==
    \E h \in Pages :
        \/ \E s \in Scans : FetchStatus(h, s) \/ StopExternal(h, s) \/ CancelRead(h, s)
        \/ ViewCommit(h) \/ ViewSummary(h) \/ RefreshCommit(h)
        \/ StopCommit(h) \/ CancelCommit(h)

UserStep ==
    \/ \E s \in Scans, chosen \in SUBSET Indexes : ImportProposals(s, chosen)
    \/ \E s \in Scans : DeleteScan(s)
    \/ \E p \in Proposals : DiscardFinding(p)

Next ==
    \/ WorkerStep
    \/ Fault
    \/ RequestStep
    \/ PageStep
    \/ UserStep
    \/ \E s \in Scans : ExternalEnds(s)

Spec == Init /\ [][Next]_vars

\* The worker's loop sleeps and ticks for ever and every scan at the server
\* ends; nothing else is assumed to happen.
FairSpec ==
    /\ Spec
    /\ WF_vars(WorkerStep)
    /\ \A s \in Scans : WF_vars(ExternalEnds(s))

-----------------------------------------------------------------------------
(* Properties *)

\* What the ledger says was imported is there: the scan's action is linked to
\* a finding with the payload of every result that carried data.
LedgerBacked ==
    \A s \in Scans : \A i \in ledger[s] :
        HasData(s, i) =>
            \E p \in links[s] :
                Payload[p] = Payload[<<s, i>>] /\ finding[p] # "none"

\* However completion, reconciliation, imports and retries interleave, a
\* proposal gets a second finding only after a stale legacy page made its
\* settled scan active again.
ImportedOnce == \A p \in twice : p[1] \in reopened

\* A scan that was stopped or failed before the worker reads it again is never
\* sent to the server.
SettledNeverLaunched ==
    \A s \in Scans :
        [](wpc = "claimed" /\ wscan = s /\ scan[s] \in Settled
             => [](ext[s] = "none"))

\* The limit check and the insert are not serialised; still, without legacy
\* pages the tenant exceeds the limit by at most the number of requests that
\* can be between the two at one time, less the one that is allowed.
LimitOverrun ==
    MaxConcurrent > 0 =>
        Cardinality(Counted) < MaxConcurrent + Cardinality(Requesters)

\* Without cancellations and legacy pages the scan row and its action tell the
\* same story at every moment.
ScanAndActionAgree ==
    \A s \in Scans :
        action[s] = IF scan[s] \in {"failed", "cancelled"} THEN "error" ELSE scan[s]

\* Every queued request is settled unless its worker died before the external
\* id was stored, or its scan was deleted on a legacy page: again and again
\* (requests are finitely many) nobody waits.
RequestSettles ==
    []<>(\A s \in Scans : \/ action[s] \in {"none", "completed", "error"}
                          \/ s \in stranded \cup removed)

\* "One completed scan per tick is reconciled for releases that stored
\* proposals before automatic candidate findings existed": every one that the
\* window reaches for good, whether it was among the oldest completed scans
\* from the start or moved up when older ones were deleted.
HistoryIsReconciled ==
    <>[](\A s \in Historical : InWindow(s) => ledger[s] = Indexes)
=============================================================================
