------------------------ MODULE SourceResearch_proofs ------------------------
(***************************************************************************)
(* What holds with any number of scans, handlers, requests and faults:     *)
(* types; what the ledger says was imported is there, and nothing is       *)
(* imported twice unless a stale page reopened a settled scan; the scan    *)
(* row and its action agree where nobody cancels; the limit is overrun by  *)
(* the requests that race and no further; a scan settled before the worker *)
(* looks again is never sent.                                              *)
(***************************************************************************)
EXTENDS SourceResearch, FiniteSetTheorems, TLAPS

\* A worker past the claim has a scan, and a terminal answer when it finishes.
WorkerInv ==
    /\ wpc # "poll" => wscan \in Scans
    /\ wpc = "finishing" \/ wpc = "polled" => saw \in {"finished", "error", "aborted"}

\* A page handler that does something has a scan to do it with, and one that
\* will store a status has been told one.
PageInv ==
    \A h \in Pages :
        /\ page[h].op # "idle" => page[h].scan \in Scans
        /\ page[h].op \in {"view", "refresh"} => page[h].seen # "none"

\* No finding and no stored proposal exists for s.
Fresh(s) == proposals[s] = {} /\ \A i \in Indexes : finding[<<s, i>>] = "none"

\* A scan with findings or proposals is settled and not about to be finished,
\* and what was made from stored proposals is in the ledger: unless a stale
\* page reopened the scan.
OnceInv ==
    \A s \in Scans \ reopened :
        /\ Fresh(s) \/ (scan[s] \in Settled /\ ~(wpc = "finishing" /\ wscan = s))
        /\ \A i \in proposals[s] : finding[<<s, i>>] # "none" => i \in ledger[s]

Typed == TypeOK /\ WorkerInv /\ PageInv

IInv == Typed /\ OnceInv /\ LedgerBacked /\ ImportedOnce

\* The inductive invariant holds initially.
LEMMA InitIInv == Init => IInv
  <1> SUFFICES ASSUME Init PROVE IInv
    OBVIOUS
  <1> USE ResearchAssumption DEF Init
  <1>1. TypeOK
    BY DEF TypeOK, ScanStatus, ActionStatus, External, WorkerPoint, PageState,
           IdlePage, Historical, Scans, Proposals
  <1>2. WorkerInv /\ PageInv
    BY DEF WorkerInv, PageInv, IdlePage
  <1>3. OnceInv
    <2>1. ASSUME NEW s \in Scans, NEW i \in Indexes
          PROVE  finding[<<s, i>>] = "none"
      BY DEF Proposals
    <2>2. QED
      BY <2>1 DEF OnceInv, Fresh, Settled
  <1>4. LedgerBacked /\ ImportedOnce
    BY DEF LedgerBacked, ImportedOnce
  <1>5. QED
    BY <1>1, <1>2, <1>3, <1>4 DEF IInv, Typed

-----------------------------------------------------------------------------
(* Lemmas about the operators that write findings *)

\* Creating findings for fresh proposals of s: the type stays, no finding
\* disappears, and only a scan that had one already gets one again.
LEMMA CreateFacts ==
    ASSUME TypeOK, NEW new \in SUBSET Proposals, Create(new)
    PROVE  /\ finding' \in [Proposals -> {"none", "live", "gone"}]
           /\ twice' \subseteq Proposals
           /\ \A p \in Proposals : finding'[p] # "none" <=> finding[p] # "none" \/ p \in new
           /\ twice' = twice \cup {p \in new : finding[p] # "none"}
  BY DEF TypeOK, Create

\* What materializing does: the stored results are in the ledger afterwards, new
\* findings are made only from those that were not, and every result with
\* data that was not in it gets a link to a finding with its payload.
Materialized(s, stored, done) ==
    /\ \E new \in SUBSET ({s} \X (stored \ done)) : Create(new)
    /\ links' \in [Scans -> SUBSET Proposals]
    /\ \A t \in Scans : links[t] \subseteq links'[t]
    /\ proposals' = [proposals EXCEPT ![s] = stored]
    /\ ledger' = [ledger EXCEPT ![s] = stored \cup done]
    /\ \A i \in stored \ done : HasData(s, i) =>
         \E p \in links'[s] :
             Payload[p] = Payload[<<s, i>>] /\ finding'[p] # "none"

\* Materialize does what Materialized says.
LEMMA MaterializeFacts ==
    ASSUME TypeOK, NEW s \in Scans, NEW stored \in SUBSET Indexes,
           NEW done \in SUBSET Indexes, Materialize(s, stored, done)
    PROVE  Materialized(s, stored, done)
  <1> DEFINE todo == {i \in stored \ done : HasData(s, i)}
             new  == {<<s, i>> : i \in {k \in todo :
                        /\ LiveTwins(<<s, k>>) = {}
                        /\ \A j \in todo : j < k => Payload[<<s, j>>] # Payload[<<s, k>>]}}
             Known(i) == LiveTwins(<<s, i>>) \cup
                           {q \in new : Payload[q] = Payload[<<s, i>>]}
  <1>1. /\ Create(new)
        /\ \E twin \in [todo -> Proposals] :
              /\ \A i \in todo : twin[i] \in Known(i)
              /\ links' = [links EXCEPT ![s] = @ \cup {twin[i] : i \in todo}]
        /\ proposals' = [proposals EXCEPT ![s] = stored]
        /\ ledger' = [ledger EXCEPT ![s] = stored \cup done]
    BY Zenon DEF Materialize
  <1>2. new \in SUBSET ({s} \X (stored \ done)) /\ new \in SUBSET Proposals
    <2>1. \A q \in new : \E i \in stored \ done : q = <<s, i>>
      BY Zenon
    <2> HIDE DEF new
    <2>2. QED
      BY <2>1 DEF Proposals
  <1>3. PICK twin \in [todo -> Proposals] :
              /\ \A i \in todo : twin[i] \in Known(i)
              /\ links' = [links EXCEPT ![s] = @ \cup {twin[i] : i \in todo}]
    BY <1>1
  <1> HIDE DEF new
  <1>4. \A p \in Proposals : finding'[p] # "none" <=> finding[p] # "none" \/ p \in new
    BY <1>1, <1>2, CreateFacts
  <1>5. links' \in [Scans -> SUBSET Proposals] /\ \A t \in Scans : links[t] \subseteq links'[t]
    BY <1>3 DEF TypeOK
  <1>6. ASSUME NEW i \in stored \ done, HasData(s, i)
        PROVE  \E p \in links'[s] :
                  Payload[p] = Payload[<<s, i>>] /\ finding'[p] # "none"
    <2>1. i \in todo /\ twin[i] \in Known(i) /\ twin[i] \in Proposals
      BY <1>3, <1>6
    <2>2. twin[i] \in links'[s]
      BY <1>3, <2>1 DEF TypeOK
    <2>3. Payload[twin[i]] = Payload[<<s, i>>] /\ finding'[twin[i]] # "none"
      BY <2>1, <1>4 DEF LiveTwins
    <2>4. QED
      BY <2>2, <2>3
  <1>7. QED
    BY <1>1, <1>2, <1>5, <1>6 DEF Materialized

\* Materialize keeps the types of what it writes.
LEMMA MaterializeTyped ==
    ASSUME TypeOK, NEW s \in Scans, NEW stored \in SUBSET Indexes,
           NEW done \in SUBSET Indexes, Materialize(s, stored, done)
    PROVE  /\ finding' \in [Proposals -> {"none", "live", "gone"}]
           /\ twice' \subseteq Proposals
           /\ links' \in [Scans -> SUBSET Proposals]
           /\ proposals' \in [Scans -> SUBSET Indexes]
           /\ ledger' \in [Scans -> SUBSET Indexes]
  <1>1. /\ links' \in [Scans -> SUBSET Proposals]
        /\ proposals' = [proposals EXCEPT ![s] = stored]
        /\ ledger' = [ledger EXCEPT ![s] = stored \cup done]
        /\ \E new \in SUBSET ({s} \X (stored \ done)) : Create(new)
    <2>1. Materialized(s, stored, done)
      BY MaterializeFacts
    <2>2. QED
      BY Zenon, <2>1 DEF Materialized
  <1>2. PICK new \in SUBSET ({s} \X (stored \ done)) : Create(new)
    BY <1>1
  <1>3. new \in SUBSET Proposals
    BY <1>2 DEF Proposals
  <1>4. finding' \in [Proposals -> {"none", "live", "gone"}] /\ twice' \subseteq Proposals
    BY <1>2, <1>3, CreateFacts
  <1>5. QED
    BY <1>1, <1>4 DEF TypeOK

-----------------------------------------------------------------------------
(* Types, and what the worker and the pages hold *)

\* The worker's steps keep the types and what the worker holds.
LEMMA WorkerTyped == ASSUME Typed, WorkerStep PROVE Typed'
  <1> USE DEF Typed, WorkerInv, PageInv, rowVars, resultVars, workerVars, webVars,
              WorkerAt, Keep, Release
  <1>1. ASSUME NEW s \in Scans, ClaimScan(s) PROVE Typed'
    BY <1>1 DEF ClaimScan, TypeOK, ScanStatus, ActionStatus, WorkerPoint
  <1>2. ASSUME NEW s \in Scans, BeginRefresh(s) PROVE Typed'
    BY <1>2 DEF BeginRefresh, TypeOK, WorkerPoint
  <1>3. ASSUME NEW s \in Scans, Reconcile(s) PROVE Typed'
    <2>1. /\ proposals[s] \in SUBSET Indexes /\ ledger[s] \in SUBSET Indexes
          /\ Materialize(s, proposals[s], ledger[s])
      BY <1>3 DEF Reconcile, TypeOK
    <2>2. /\ finding' \in [Proposals -> {"none", "live", "gone"}]
          /\ twice' \subseteq Proposals
          /\ links' \in [Scans -> SUBSET Proposals]
          /\ proposals' \in [Scans -> SUBSET Indexes]
          /\ ledger' \in [Scans -> SUBSET Indexes]
      BY <2>1, MaterializeTyped
    <2>3. QED
      BY <1>3, <2>2 DEF Reconcile, TypeOK
  <1>4. ASSUME RefuseStart \/ ReloadForStart \/ RecordRealId \/ PollStillRunning \/ ReloadForFinish
        PROVE  Typed'
    BY <1>4 DEF RefuseStart, ReloadForStart, RecordRealId, PollStillRunning,
                ReloadForFinish, TypeOK, WorkerPoint, External
  <1>5. ASSUME StartAccepted \/ StartUnanswered PROVE Typed'
    BY <1>5, ResearchAssumption DEF StartAccepted, StartUnanswered, TypeOK, WorkerPoint, External
  <1>6. ASSUME SetFailed PROVE Typed'
    BY <1>6 DEF SetFailed, TypeOK, WorkerPoint, External, ScanStatus, ActionStatus
  <1>7. ASSUME PollEnded PROVE Typed'
    BY <1>7, ResearchAssumption DEF PollEnded, TypeOK, WorkerPoint, External
  <1>8. ASSUME FinishScan PROVE Typed'
    <2>1. /\ wscan \in Scans /\ fetched \in SUBSET Indexes
          /\ Materialize(wscan, fetched, {}) /\ saw \in {"finished", "error", "aborted"}
      BY <1>8 DEF FinishScan, TypeOK
    <2>2. /\ finding' \in [Proposals -> {"none", "live", "gone"}]
          /\ twice' \subseteq Proposals
          /\ links' \in [Scans -> SUBSET Proposals]
          /\ proposals' \in [Scans -> SUBSET Indexes]
          /\ ledger' \in [Scans -> SUBSET Indexes]
      BY <2>1, MaterializeTyped
    <2>3. Mapped[saw] \in ScanStatus
      BY <2>1 DEF Mapped, ScanStatus
    <2>4. QED
      BY <1>8, <2>1, <2>2, <2>3
      DEF FinishScan, TypeOK, WorkerPoint, External, ActionStatus
  <1>9. QED
    BY <1>1, <1>2, <1>3, <1>4, <1>5, <1>6, <1>7, <1>8 DEF WorkerStep

\* So do the faults.
LEMMA FaultTyped == ASSUME Typed, Fault PROVE Typed'
  BY ResearchAssumption
  DEF Typed, TypeOK, WorkerInv, PageInv, Fault, RecordRealIdFails, PollFails,
      FinishRolledBack, WorkerKilled, rowVars, resultVars, workerVars, webVars,
      WorkerAt, Keep, Release, WorkerPoint, External

\* So do cancellations and the legacy pages.
LEMMA PageTyped == ASSUME Typed, PageStep PROVE Typed'
  <1> USE DEF Typed, WorkerInv, PageInv, rowVars, resultVars, workerVars, webVars
  <1> DEFINE Opened(h, op, s) ==
               [op |-> op, scan |-> s, seen |-> ext[s], loaded |-> scan[s]]
  <1>1. ASSUME NEW h \in Pages, NEW s \in Scans, NEW op \in {"view", "refresh", "stop", "cancel"}
        PROVE  /\ Opened(h, op, s) \in PageState
               /\ IdlePage \in PageState
    BY DEF TypeOK, PageState, IdlePage, External, ScanStatus
  <1>2. ASSUME NEW h \in Pages, NEW s \in Scans, FetchStatus(h, s) PROVE Typed'
    <2>1. PICK op \in {"view", "refresh"} : page' = [page EXCEPT ![h] = Opened(h, op, s)]
      BY <1>2 DEF FetchStatus, OpenPage
    <2>2. page' \in [Pages -> PageState]
      BY <2>1, <1>1 DEF TypeOK
    <2>3. PageInv'
      BY <2>1, <1>2 DEF TypeOK, FetchStatus
    <2>4. QED
      BY <1>2, <2>2, <2>3 DEF FetchStatus, TypeOK
  <1>3. ASSUME NEW h \in Pages, NEW s \in Scans, StopExternal(h, s) \/ CancelRead(h, s)
        PROVE  Typed'
    <2>1. PICK op \in {"stop", "cancel"} : page' = [page EXCEPT ![h] = Opened(h, op, s)]
      BY <1>3 DEF StopExternal, CancelRead, OpenPage
    <2>2. page' \in [Pages -> PageState]
      BY <2>1, <1>1 DEF TypeOK
    <2>3. PageInv'
      BY <2>1 DEF TypeOK
    <2>4. ext' \in [Scans -> External]
      BY <1>3 DEF StopExternal, CancelRead, TypeOK, External
    <2>5. QED
      BY <1>3, <2>2, <2>3, <2>4 DEF StopExternal, CancelRead, TypeOK
  <1>4. ASSUME NEW h \in Pages, ViewCommit(h) \/ RefreshCommit(h) \/ StopCommit(h)
        PROVE  Typed'
    <2>1. page[h].scan \in Scans /\ page[h] \in PageState
      BY <1>4 DEF TypeOK, ViewCommit, RefreshCommit, StopCommit
    <2>2. PICK status \in ScanStatus : PageWrites(h, status)
      <3>1. page[h].op # "stop" => page[h].seen \in {"running", "finished", "error", "aborted"}
        BY <1>4, <2>1 DEF PageState, External, ViewCommit, RefreshCommit, StopCommit
      <3>2. QED
        BY <1>4, <3>1 DEF ViewCommit, RefreshCommit, StopCommit, Mapped, ScanStatus
    <2>3. scan' \in [Scans -> ScanStatus] /\ reopened' \subseteq Scans
      BY <2>1, <2>2 DEF PageWrites, TypeOK
    <2>4. /\ page' \in [Pages -> PageState]
          /\ PageInv'
      <3>1. page' = [page EXCEPT ![h] = IdlePage] \/ page' = [page EXCEPT ![h].op = "summary"]
        BY <1>4 DEF ViewCommit, RefreshCommit, StopCommit, ClosePage
      <3>2. IdlePage \in PageState /\ [page[h] EXCEPT !.op = "summary"] \in PageState
        BY <2>1 DEF PageState, IdlePage, External, ScanStatus
      <3>3. \A g \in Pages : g # h => page'[g] = page[g]
        BY <3>1 DEF TypeOK
      <3>4. page'[h] = IdlePage \/ page'[h] = [page[h] EXCEPT !.op = "summary"]
        BY <3>1 DEF TypeOK
      <3>5. PageInv'
        BY <2>1, <3>3, <3>4 DEF IdlePage, PageState
      <3>6. QED
        BY <3>1, <3>2, <3>5 DEF TypeOK
    <2>5. proposals' \in [Scans -> SUBSET Indexes] /\ ledger' \in [Scans -> SUBSET Indexes]
      BY <1>4, <2>1 DEF ViewCommit, RefreshCommit, StopCommit, OverwriteSummary, TypeOK
    <2>6. QED
      BY <1>4, <2>3, <2>4, <2>5 DEF ViewCommit, RefreshCommit, StopCommit, TypeOK
  <1>5. ASSUME NEW h \in Pages, ViewSummary(h) \/ CancelCommit(h) PROVE Typed'
    BY <1>5 DEF ViewSummary, CancelCommit, ClosePage, OverwriteSummary, TypeOK,
                IdlePage, PageState, External, ScanStatus, ActionStatus
  <1>6. QED
    BY <1>2, <1>3, <1>4, <1>5 DEF PageStep

\* So do requests, users and the external server.
LEMMA OtherTyped ==
    ASSUME Typed, RequestStep \/ UserStep \/ \E s \in Scans : ExternalEnds(s)
    PROVE  Typed'
  <1> USE DEF Typed, WorkerInv, PageInv, rowVars, resultVars, workerVars, webVars
  <1>1. ASSUME RequestStep PROVE Typed'
    BY <1>1 DEF RequestStep, CheckLimit, QueueRejected, QueueResearch, TypeOK,
                ScanStatus, ActionStatus
  <1>2. ASSUME NEW s \in Scans, NEW chosen \in SUBSET Indexes, ImportProposals(s, chosen)
        PROVE  Typed'
    <2> DEFINE fresh == chosen \ ledger[s]
               new   == {<<s, i>> : i \in fresh}
    <2>1. new \in SUBSET Proposals
      BY DEF Proposals
    <2>2. Create(new)
      BY <1>2 DEF ImportProposals
    <2> HIDE DEF new
    <2>3. finding' \in [Proposals -> {"none", "live", "gone"}] /\ twice' \subseteq Proposals
      BY <2>1, <2>2, CreateFacts
    <2>4. links' \in [Scans -> SUBSET Proposals]
      BY <1>2, <2>1 DEF ImportProposals, TypeOK, new
    <2>5. QED
      BY <1>2, <2>3, <2>4 DEF ImportProposals, TypeOK
  <1>3. ASSUME NEW p \in Proposals, DiscardFinding(p) PROVE Typed'
    BY <1>3 DEF DiscardFinding, TypeOK
  <1>4. ASSUME NEW s \in Scans, ExternalEnds(s) PROVE Typed'
    BY <1>4 DEF ExternalEnds, TypeOK, External
  <1>5. ASSUME NEW s \in Scans, DeleteScan(s) PROVE Typed'
    BY <1>5 DEF DeleteScan, TypeOK, External
  <1>6. QED
    BY <1>1, <1>2, <1>3, <1>4, <1>5 DEF UserStep

\* Every step keeps the types and what worker and pages hold.
LEMMA TypedStep == Typed /\ [Next]_vars => Typed'
  <1>1. Typed /\ UNCHANGED vars => Typed'
    BY DEF Typed, TypeOK, WorkerInv, PageInv, vars, rowVars, resultVars, workerVars, webVars
  <1>2. QED
    BY <1>1, WorkerTyped, FaultTyped, PageTyped, OtherTyped DEF Next

\* They hold initially.
LEMMA InitTyped == Init => Typed
  BY InitIInv DEF IInv

\* Every variable keeps its type, with any number of scans and handlers.
THEOREM TypeCorrect == Spec => []TypeOK
  <1>1. Typed => TypeOK
    BY DEF Typed
  <1>2. QED
    BY InitTyped, TypedStep, <1>1, PTL DEF Spec

-----------------------------------------------------------------------------
(* The ledger is backed by findings, and nothing is imported twice *)

\* Links and findings only grow, so a ledger that does not grow stays backed.
LEMMA StillBacked ==
    ASSUME TypeOK, LedgerBacked,
           \A s \in Scans : links[s] \subseteq links'[s] /\ ledger'[s] \subseteq ledger[s],
           \A p \in Proposals : finding[p] # "none" => finding'[p] # "none"
    PROVE  LedgerBacked'
  BY DEF TypeOK, LedgerBacked, HasData

\* Materializing what the ledger does not hold yet keeps it backed.
LEMMA MaterializeBacked ==
    ASSUME TypeOK, LedgerBacked, NEW s \in Scans, NEW stored \in SUBSET Indexes,
           NEW done \in SUBSET Indexes, done \subseteq ledger[s],
           Materialize(s, stored, done)
    PROVE  LedgerBacked'
  <1>1. Materialized(s, stored, done)
    BY MaterializeFacts
  <1>2. /\ \A t \in Scans : links[t] \subseteq links'[t]
        /\ ledger' = [ledger EXCEPT ![s] = stored \cup done]
        /\ \A i \in stored \ done : HasData(s, i) =>
             \E p \in links'[s] :
                 Payload[p] = Payload[<<s, i>>] /\ finding'[p] # "none"
    BY Zenon, <1>1 DEF Materialized
  <1>3. PICK new \in SUBSET ({s} \X (stored \ done)) : Create(new)
    BY <1>1 DEF Materialized
  <1>4. new \in SUBSET Proposals
    BY <1>3 DEF Proposals
  <1>5. \A p \in Proposals : finding'[p] # "none" <=> finding[p] # "none" \/ p \in new
    BY <1>3, <1>4, CreateFacts
  <1>6. ASSUME NEW t \in Scans, NEW i \in ledger'[t], HasData(t, i)
        PROVE  \E p \in links'[t] :
                   Payload[p] = Payload[<<t, i>>] /\ finding'[p] # "none"
    <2>1. CASE t = s /\ i \notin done
      BY <1>2, <1>6, <2>1 DEF TypeOK
    <2>2. CASE t # s \/ i \in done
      <3>1. i \in ledger[t]
        BY <1>2, <1>6, <2>2 DEF TypeOK
      <3>2. PICK p \in links[t] : Payload[p] = Payload[<<t, i>>] /\ finding[p] # "none"
        BY <1>6, <3>1 DEF LedgerBacked
      <3>3. p \in Proposals /\ p \in links'[t]
        BY <1>2, <3>2 DEF TypeOK
      <3>4. QED
        BY <1>5, <3>2, <3>3
    <2>3. QED
      BY <2>1, <2>2
  <1>7. QED
    BY <1>6 DEF LedgerBacked, HasData

\* Every step keeps the ledger backed.
LEMMA BackedStep == ASSUME Typed, LedgerBacked, [Next]_vars PROVE LedgerBacked'
  <1>1. TypeOK /\ WorkerInv /\ PageInv
    BY DEF Typed
  <1>2. ASSUME NEW s \in Scans, Reconcile(s) PROVE LedgerBacked'
    BY <1>1, <1>2, MaterializeBacked DEF Reconcile, TypeOK
  <1>3. ASSUME FinishScan PROVE LedgerBacked'
    <2>1. wscan \in Scans /\ fetched \in SUBSET Indexes /\ Materialize(wscan, fetched, {})
      BY <1>1, <1>3 DEF FinishScan, TypeOK, WorkerInv
    <2>2. QED
      BY <1>1, <2>1, MaterializeBacked
  <1>4. ASSUME NEW s \in Scans, NEW chosen \in SUBSET Indexes, ImportProposals(s, chosen)
        PROVE  LedgerBacked'
    <2> DEFINE fresh == chosen \ ledger[s]
               new   == {<<s, i>> : i \in fresh}
    <2>1. /\ Create(new) /\ new \in SUBSET Proposals
          /\ links' = [links EXCEPT ![s] = @ \cup new]
          /\ ledger' = [ledger EXCEPT ![s] = @ \cup fresh]
      BY <1>4 DEF ImportProposals, Proposals
    <2>2. \A i \in fresh : <<s, i>> \in new
      OBVIOUS
    <2> HIDE DEF new
    <2>3. \A p \in Proposals : finding'[p] # "none" <=> finding[p] # "none" \/ p \in new
      BY <1>1, <2>1, CreateFacts
    <2>4. ASSUME NEW t \in Scans, NEW i \in ledger'[t], HasData(t, i)
          PROVE  \E p \in links'[t] :
                     Payload[p] = Payload[<<t, i>>] /\ finding'[p] # "none"
      <3>1. CASE t = s /\ i \in fresh
        <4>1. <<t, i>> \in links'[t] /\ <<t, i>> \in new /\ <<t, i>> \in Proposals
          BY <1>1, <2>1, <2>2, <3>1 DEF TypeOK
        <4>2. QED
          BY <2>3, <4>1
      <3>2. CASE ~(t = s /\ i \in fresh)
        <4>1. i \in ledger[t]
          BY <1>1, <2>1, <2>4, <3>2 DEF TypeOK
        <4>2. PICK p \in links[t] : Payload[p] = Payload[<<t, i>>] /\ finding[p] # "none"
          BY <2>4, <4>1 DEF LedgerBacked
        <4>3. p \in Proposals /\ p \in links'[t]
          BY <1>1, <2>1, <4>2 DEF TypeOK
        <4>4. QED
          BY <2>3, <4>2, <4>3
      <3>3. QED
        BY <3>1, <3>2
    <2>5. QED
      BY <2>4 DEF LedgerBacked, HasData
  <1>5. ASSUME NEW h \in Pages, CancelCommit(h) PROVE LedgerBacked'
    <2>1. \A p \in Proposals : finding[p] # "none" => finding'[p] # "none"
      BY <1>5 DEF CancelCommit
    <2>2. QED
      BY <1>1, <1>5, <2>1, StillBacked DEF CancelCommit
  <1>6. ASSUME NEW p \in Proposals, DiscardFinding(p) PROVE LedgerBacked'
    <2>1. \A q \in Proposals : finding[q] # "none" => finding'[q] # "none"
      BY <1>1, <1>6 DEF DiscardFinding, TypeOK
    <2>2. QED
      BY <1>1, <1>6, <2>1, StillBacked DEF DiscardFinding
  <1>7. ASSUME NEW h \in Pages, ViewSummary(h) \/ RefreshCommit(h) PROVE LedgerBacked'
    <2>1. page[h].scan \in Scans
      BY <1>1, <1>7 DEF PageInv, ViewSummary, RefreshCommit
    <2>2. \A s \in Scans : ledger'[s] \subseteq ledger[s]
      BY <1>1, <1>7, <2>1 DEF ViewSummary, RefreshCommit, OverwriteSummary, TypeOK
    <2>3. UNCHANGED <<links, finding>>
      BY <1>7 DEF ViewSummary, RefreshCommit
    <2>4. QED
      BY <1>1, <2>2, <2>3, StillBacked
  <1>8. ASSUME UNCHANGED <<ledger, links, finding>> PROVE LedgerBacked'
    BY <1>1, <1>8, StillBacked
  <1>9. \/ UNCHANGED <<ledger, links, finding>>
        \/ FinishScan \/ \E s \in Scans : Reconcile(s)
        \/ \E s \in Scans, chosen \in SUBSET Indexes : ImportProposals(s, chosen)
        \/ \E p \in Proposals : DiscardFinding(p)
        \/ \E h \in Pages : CancelCommit(h) \/ ViewSummary(h) \/ RefreshCommit(h)
    <2> USE DEF resultVars
    <2>1. CASE WorkerStep
      BY <2>1 DEF WorkerStep, ClaimScan, BeginRefresh, RefuseStart, ReloadForStart,
                  StartAccepted, StartUnanswered, RecordRealId, SetFailed,
                  PollStillRunning, PollEnded, ReloadForFinish
    <2>2. CASE Fault
      BY <2>2 DEF Fault, RecordRealIdFails, PollFails, FinishRolledBack, WorkerKilled
    <2>3. CASE RequestStep
      BY <2>3 DEF RequestStep, CheckLimit, QueueRejected, QueueResearch
    <2>4. CASE PageStep
      BY <2>4 DEF PageStep, FetchStatus, StopExternal, CancelRead, ViewCommit,
                  StopCommit
    <2>5. CASE UserStep \/ \E s \in Scans : ExternalEnds(s)
      BY <2>5 DEF UserStep, DeleteScan, ExternalEnds
    <2>6. CASE UNCHANGED vars
      BY <2>6 DEF vars
    <2>7. QED
      BY <2>1, <2>2, <2>3, <2>4, <2>5, <2>6 DEF Next
  <1>10. QED
    BY <1>2, <1>3, <1>4, <1>5, <1>6, <1>7, <1>8, <1>9

\* Whatever the interleaving and the faults, a result with data that the
\* ledger counts as imported has its finding linked to the scan's action.
THEOREM LedgerIsBacked == Spec => []LedgerBacked
  <1>1. Init => Typed /\ LedgerBacked
    BY InitIInv DEF IInv
  <1>2. Typed /\ LedgerBacked /\ [Next]_vars => Typed' /\ LedgerBacked'
    BY TypedStep, BackedStep
  <1>3. QED
    BY <1>1, <1>2, PTL DEF Spec

-----------------------------------------------------------------------------
(* A proposal becomes a finding twice only in a reopened scan *)

Once == OnceInv /\ ImportedOnce

\* Steps that create no finding and leave settled scans settled.
LEMMA StillOnce ==
    ASSUME Typed, Once, twice' = twice, reopened \subseteq reopened',
           \A s \in Scans :
             \/ ledger'[s] = ledger[s] /\ proposals'[s] = proposals[s]
             \/ proposals'[s] = {},
           \A p \in Proposals : finding'[p] = "none" <=> finding[p] = "none",
           \A s \in Scans \ reopened' :
               /\ scan[s] \in Settled => scan'[s] \in Settled
               /\ wpc' = "finishing" /\ wscan' = s =>
                    scan[s] \notin Settled \/ (wpc = "finishing" /\ wscan = s)
    PROVE  Once'
  <1>1. TypeOK
    BY DEF Typed
  <1>2. ImportedOnce'
    BY <1>1 DEF Once, ImportedOnce, TypeOK
  <1>3. ASSUME NEW s \in Scans \ reopened'
        PROVE  /\ Fresh(s)' \/ (scan'[s] \in Settled /\ ~(wpc' = "finishing" /\ wscan' = s))
               /\ \A i \in proposals'[s] : finding'[<<s, i>>] # "none" => i \in ledger'[s]
    <2>1. /\ Fresh(s) \/ (scan[s] \in Settled /\ ~(wpc = "finishing" /\ wscan = s))
          /\ \A i \in proposals[s] : finding[<<s, i>>] # "none" => i \in ledger[s]
      BY DEF Once, OnceInv
    <2>2. \A i \in Indexes : finding'[<<s, i>>] = "none" <=> finding[<<s, i>>] = "none"
      BY DEF Proposals
    <2>3. proposals[s] \subseteq Indexes
      BY <1>1 DEF TypeOK
    <2>4. Fresh(s) => Fresh(s)'
      BY <2>2 DEF Fresh
    <2>5. QED
      BY <2>1, <2>2, <2>3, <2>4
  <1>4. QED
    BY <1>2, <1>3 DEF Once, OnceInv

\* Findings made from results of s that had none, while s becomes or stays
\* settled and they enter the ledger.
LEMMA NewOnce ==
    ASSUME Typed, Once, NEW s \in Scans, NEW new \in SUBSET ({s} \X Indexes), Create(new),
           s \notin reopened => \A q \in new : finding[q] = "none",
           reopened' = reopened, wpc' # "finishing" \/ UNCHANGED <<wpc, wscan>>,
           \A t \in Scans \ {s} : scan'[t] = scan[t] /\ ledger'[t] = ledger[t]
                                /\ proposals'[t] = proposals[t],
           s \notin reopened => scan'[s] \in Settled /\ ~(wpc' = "finishing" /\ wscan' = s),
           s \notin reopened =>
             \A i \in proposals'[s] :
               finding[<<s, i>>] # "none" \/ <<s, i>> \in new => i \in ledger'[s],
           proposals'[s] \subseteq Indexes
    PROVE  Once'
  <1>1. TypeOK /\ new \in SUBSET Proposals
    BY DEF Typed, Proposals
  <1>2. /\ \A p \in Proposals : finding'[p] # "none" <=> finding[p] # "none" \/ p \in new
        /\ twice' = twice \cup {p \in new : finding[p] # "none"}
    BY <1>1, CreateFacts
  <1>3. ImportedOnce'
    <2>1. ASSUME NEW p \in twice' PROVE p[1] \in reopened'
      BY <1>2, <2>1 DEF Once, ImportedOnce
    <2>2. QED
      BY <2>1 DEF ImportedOnce
  <1>4. ASSUME NEW t \in Scans \ reopened'
        PROVE  /\ Fresh(t)' \/ (scan'[t] \in Settled /\ ~(wpc' = "finishing" /\ wscan' = t))
               /\ \A i \in proposals'[t] : finding'[<<t, i>>] # "none" => i \in ledger'[t]
    <2>1. CASE t = s
      BY <1>2, <2>1, <1>4 DEF Proposals
    <2>2. CASE t # s
      <3>1. /\ Fresh(t) \/ (scan[t] \in Settled /\ ~(wpc = "finishing" /\ wscan = t))
            /\ \A i \in proposals[t] : finding[<<t, i>>] # "none" => i \in ledger[t]
        BY DEF Once, OnceInv
      <3>2. \A i \in Indexes : finding'[<<t, i>>] # "none" <=> finding[<<t, i>>] # "none"
        BY <1>2, <2>2 DEF Proposals
      <3>3. proposals[t] \subseteq Indexes
        BY <1>1 DEF TypeOK
      <3>4. Fresh(t) => Fresh(t)'
        BY <2>2, <3>2 DEF Fresh
      <3>5. QED
        BY <2>2, <3>1, <3>2, <3>3, <3>4
    <2>3. QED
      BY <2>1, <2>2
  <1>5. QED
    BY <1>3, <1>4 DEF Once, OnceInv

\* Finishing a scan that was not reopened meets no earlier finding of it.
LEMMA FinishOnce == ASSUME Typed, Once, FinishScan PROVE Once'
  <1>1. /\ TypeOK /\ wscan \in Scans /\ fetched \in SUBSET Indexes /\ wpc = "finishing"
        /\ saw \in {"finished", "error", "aborted"} /\ Materialize(wscan, fetched, {})
    BY DEF Typed, TypeOK, WorkerInv, FinishScan
  <1>2. Materialized(wscan, fetched, {})
    BY <1>1, MaterializeFacts
  <1>3. /\ proposals' = [proposals EXCEPT ![wscan] = fetched]
        /\ ledger' = [ledger EXCEPT ![wscan] = fetched \cup {}]
    BY Zenon, <1>2 DEF Materialized
  <1>4. PICK new \in SUBSET ({wscan} \X (fetched \ {})) : Create(new)
    BY <1>2 DEF Materialized
  <1>5. new \in SUBSET ({wscan} \X Indexes)
    BY <1>1, <1>4
  <1>6. wscan \notin reopened => \A q \in new : finding[q] = "none"
    BY <1>1, <1>5 DEF Once, OnceInv, Fresh
  <1>7. Mapped[saw] \in Settled
    BY <1>1 DEF Mapped, Settled
  <1>8. /\ scan' = [scan EXCEPT ![wscan] = Mapped[saw]]
        /\ reopened' = reopened /\ wpc' = "poll"
    BY DEF FinishScan, Release, WorkerAt
  <1>9. QED
    BY <1>1, <1>3, <1>4, <1>5, <1>6, <1>7, <1>8, NewOnce DEF TypeOK

\* Reconciling makes findings only of results the ledger does not hold.
LEMMA ReconcileOnce == ASSUME Typed, Once, NEW s \in Scans, Reconcile(s) PROVE Once'
  <1>1. /\ TypeOK /\ wpc = "poll" /\ wpc' = "poll" /\ scan[s] = "completed"
        /\ proposals[s] \in SUBSET Indexes /\ ledger[s] \in SUBSET Indexes
        /\ UNCHANGED <<scan, reopened>>
        /\ Materialize(s, proposals[s], ledger[s])
    BY DEF Typed, TypeOK, Reconcile, Oldest, InWindow, Completed, rowVars, workerVars
  <1>2. Materialized(s, proposals[s], ledger[s])
    BY <1>1, MaterializeFacts
  <1>3. /\ proposals' = [proposals EXCEPT ![s] = proposals[s]]
        /\ ledger' = [ledger EXCEPT ![s] = proposals[s] \cup ledger[s]]
    BY Zenon, <1>2 DEF Materialized
  <1>4. PICK new \in SUBSET ({s} \X (proposals[s] \ ledger[s])) : Create(new)
    BY <1>2 DEF Materialized
  <1>5. new \in SUBSET ({s} \X Indexes)
    BY <1>1, <1>4
  <1>6. s \notin reopened => \A q \in new : finding[q] = "none"
    BY <1>1, <1>4 DEF Once, OnceInv
  <1>7. QED
    BY <1>1, <1>3, <1>4, <1>5, <1>6, NewOnce DEF TypeOK, Settled

\* So does an import by hand.
LEMMA ImportOnce ==
    ASSUME Typed, Once, NEW s \in Scans, NEW chosen \in SUBSET Indexes,
           ImportProposals(s, chosen)
    PROVE  Once'
  <1> DEFINE fresh == chosen \ ledger[s]
             new   == {<<s, i>> : i \in fresh}
  <1>1. /\ TypeOK /\ scan[s] = "completed" /\ chosen \subseteq proposals[s] /\ fresh # {}
        /\ UNCHANGED <<scan, reopened, proposals, wpc, wscan>>
        /\ ledger' = [ledger EXCEPT ![s] = @ \cup fresh]
        /\ Create(new)
    BY DEF Typed, ImportProposals, Completed, rowVars, workerVars
  <1>2. new \in SUBSET ({s} \X Indexes)
    BY <1>1
  <1>3. \A i \in Indexes : <<s, i>> \in new => i \in fresh
    BY <1>1
  <1>4. \A q \in new : \E i \in fresh : q = <<s, i>>
    BY Zenon
  <1> HIDE DEF new
  <1>5. s \notin reopened => ~Fresh(s)
    BY <1>1 DEF Fresh
  <1>6. s \notin reopened => \A q \in new : finding[q] = "none"
    BY <1>1, <1>4 DEF Once, OnceInv
  <1>7. s \notin reopened => scan'[s] \in Settled /\ ~(wpc' = "finishing" /\ wscan' = s)
    BY <1>1, <1>5 DEF Once, OnceInv
  <1>8. s \notin reopened =>
          \A i \in proposals'[s] :
            finding[<<s, i>>] # "none" \/ <<s, i>> \in new => i \in ledger'[s]
    BY <1>1, <1>3 DEF Once, OnceInv, TypeOK
  <1>9. QED
    BY <1>1, <1>2, <1>6, <1>7, <1>8, NewOnce DEF TypeOK

\* Pages and cancellations make no finding and unsettle a scan only by reopening it.
LEMMA PageOnce == ASSUME Typed, Once, PageStep PROVE Once'
  <1> USE DEF rowVars, resultVars, workerVars
  <1>1. TypeOK /\ PageInv
    BY DEF Typed
  <1>2. ASSUME NEW h \in Pages, ViewCommit(h) \/ RefreshCommit(h) \/ StopCommit(h)
        PROVE  Once'
    <2>1. PICK status : PageWrites(h, status)
      BY <1>2 DEF ViewCommit, RefreshCommit, StopCommit
    <2>2. page[h].scan \in Scans
      BY <1>1, <1>2 DEF PageInv, ViewCommit, RefreshCommit, StopCommit
    <2>3. /\ reopened \subseteq reopened'
          /\ \A s \in Scans \ reopened' : scan[s] \in Settled => scan'[s] \in Settled
      BY <1>1, <2>1, <2>2 DEF PageWrites, TypeOK
    <2>4. UNCHANGED <<twice, finding, wpc, wscan>>
      BY <1>2 DEF ViewCommit, RefreshCommit, StopCommit
    <2>5. \A s \in Scans :
             \/ ledger'[s] = ledger[s] /\ proposals'[s] = proposals[s]
             \/ proposals'[s] = {}
      BY <1>1, <1>2, <2>2 DEF ViewCommit, RefreshCommit, StopCommit, OverwriteSummary, TypeOK
    <2>6. QED
      BY <2>3, <2>4, <2>5, StillOnce
  <1>3. ASSUME NEW h \in Pages, ViewSummary(h) PROVE Once'
    <2>1. page[h].scan \in Scans
      BY <1>1, <1>3 DEF PageInv, ViewSummary
    <2>2. \A s \in Scans :
             \/ ledger'[s] = ledger[s] /\ proposals'[s] = proposals[s]
             \/ proposals'[s] = {}
      BY <1>1, <1>3, <2>1 DEF ViewSummary, OverwriteSummary, TypeOK
    <2>3. UNCHANGED <<scan, twice, finding, wpc, wscan, reopened>>
      BY <1>3 DEF ViewSummary
    <2>4. QED
      BY <2>2, <2>3, StillOnce
  <1>4. ASSUME NEW h \in Pages, CancelCommit(h) PROVE Once'
    <2>1. \A p \in Proposals : finding'[p] = "none" <=> finding[p] = "none"
      BY <1>1, <1>4 DEF CancelCommit, TypeOK
    <2>2. UNCHANGED <<scan, twice, proposals, ledger, wpc, wscan, reopened>>
      BY <1>4 DEF CancelCommit
    <2>3. QED
      BY <2>1, <2>2, StillOnce
  <1>5. ASSUME NEW h \in Pages, NEW s \in Scans,
               FetchStatus(h, s) \/ StopExternal(h, s) \/ CancelRead(h, s)
        PROVE  Once'
    <2>1. UNCHANGED <<scan, twice, finding, proposals, ledger, wpc, wscan, reopened>>
      BY <1>5 DEF FetchStatus, StopExternal, CancelRead
    <2>2. QED
      BY <2>1, StillOnce
  <1>6. QED
    BY <1>2, <1>3, <1>4, <1>5 DEF PageStep

\* The worker's remaining steps leave findings alone.
LEMMA WorkerOnce == ASSUME Typed, Once, WorkerStep \/ Fault PROVE Once'
  <1> USE DEF rowVars, resultVars, workerVars, WorkerAt, Release, Keep
  <1>1. TypeOK /\ WorkerInv
    BY DEF Typed
  <1>2. ASSUME UNCHANGED <<proposals, ledger, finding, twice, reopened>>,
               \A s \in Scans : scan[s] \in Settled => scan'[s] \in Settled,
               wpc' = "finishing" => scan[wscan'] \notin Settled
        PROVE  Once'
    <2>1. \A s \in Scans : ledger[s] = ledger'[s] /\ proposals'[s] = proposals[s]
      BY <1>2
    <2>2. twice' = twice /\ reopened \subseteq reopened'
      BY <1>2
    <2>3. \A p \in Proposals : finding'[p] = "none" <=> finding[p] = "none"
      BY <1>2
    <2>4. \A s \in Scans \ reopened' :
            /\ scan[s] \in Settled => scan'[s] \in Settled
            /\ wpc' = "finishing" /\ wscan' = s =>
                 scan[s] \notin Settled \/ (wpc = "finishing" /\ wscan = s)
      BY <1>2
    <2> HIDE <1>2
    <2>5. QED
      BY <2>1, <2>2, <2>3, <2>4, StillOnce
  <1>3. ASSUME NEW s \in Scans, ClaimScan(s) \/ BeginRefresh(s) PROVE Once'
    BY <1>1, <1>2, <1>3 DEF ClaimScan, BeginRefresh, Oldest, Startable, Settled, TypeOK
  <1>4. ASSUME SetFailed PROVE Once'
    BY <1>1, <1>2, <1>4 DEF SetFailed, Settled, TypeOK, WorkerInv
  <1>5. ASSUME ReloadForFinish PROVE Once'
    BY <1>2, <1>5 DEF ReloadForFinish, Settled
  <1>6. ASSUME \/ RefuseStart \/ ReloadForStart \/ StartAccepted \/ StartUnanswered
               \/ RecordRealId \/ PollStillRunning \/ PollEnded \/ Fault
        PROVE  Once'
    BY <1>2, <1>6 DEF RefuseStart, ReloadForStart, StartAccepted, StartUnanswered,
         RecordRealId, PollStillRunning, PollEnded, Fault, RecordRealIdFails, PollFails,
         FinishRolledBack, WorkerKilled
  <1>7. QED
    BY <1>3, <1>4, <1>5, <1>6, FinishOnce, ReconcileOnce DEF WorkerStep

\* Every step keeps the second part of the invariant.
LEMMA OnceStep == ASSUME Typed, Once, [Next]_vars PROVE Once'
  <1> USE DEF rowVars, resultVars, workerVars
  <1>1. TypeOK
    BY DEF Typed
  <1>2. ASSUME UNCHANGED <<proposals, ledger, finding, twice, reopened, wpc, wscan>>,
               \A s \in Scans : scan[s] \in Settled => scan'[s] \in Settled
        PROVE  Once'
    BY <1>2, StillOnce
  <1>3. CASE RequestStep
    BY <1>1, <1>2, <1>3
    DEF RequestStep, CheckLimit, QueueRejected, QueueResearch, Settled, TypeOK
  <1>4. CASE UNCHANGED vars \/ \E s \in Scans : ExternalEnds(s)
    BY <1>2, <1>4 DEF vars, ExternalEnds
  <1>5. ASSUME NEW p \in Proposals, DiscardFinding(p) PROVE Once'
    <2>1. \A q \in Proposals : finding'[q] = "none" <=> finding[q] = "none"
      BY <1>1, <1>5 DEF DiscardFinding, TypeOK
    <2>2. UNCHANGED <<scan, twice, proposals, ledger, wpc, wscan, reopened>>
      BY <1>5 DEF DiscardFinding
    <2>3. QED
      BY <2>1, <2>2, StillOnce
  <1>6. ASSUME NEW s \in Scans, DeleteScan(s) PROVE Once'
    BY <1>2, <1>6 DEF DeleteScan
  <1>7. QED
    BY <1>3, <1>4, <1>5, <1>6, WorkerOnce, PageOnce, ImportOnce DEF Next, UserStep

\* Completion, reconciliation, hand imports, cancellations, kills and retries
\* never make a second finding of a proposal, with any number of scans and
\* handlers, as long as no stale legacy page reopens its settled scan.
THEOREM OnlyReopenedTwice == Spec => []ImportedOnce
  <1>1. Init => Typed /\ Once
    BY InitIInv DEF IInv, Once
  <1>2. Typed /\ Once /\ [Next]_vars => Typed' /\ Once'
    BY TypedStep, OnceStep
  <1>3. Once => ImportedOnce
    BY DEF Once
  <1>4. QED
    BY <1>1, <1>2, <1>3, PTL DEF Spec

-----------------------------------------------------------------------------
(* The scan and its action *)

\* Between the claim and the end of a start or a poll nobody but the worker
\* changes the scan in its hands.
AgreeInv == ScanAndActionAgree /\ (wpc # "poll" => scan[wscan] = "running")

\* Without page handlers every step keeps scan and action in agreement.
LEMMA AgreeStep == ASSUME Pages = {}, Typed, AgreeInv, [Next]_vars PROVE AgreeInv'
  <1> USE DEF AgreeInv, ScanAndActionAgree, rowVars, workerVars, WorkerAt, Release, Keep
  <1>1. TypeOK /\ WorkerInv
    BY DEF Typed
  <1>2. ASSUME NEW s \in Scans, ClaimScan(s) \/ BeginRefresh(s) \/ Reconcile(s)
        PROVE  AgreeInv'
    <2>1. CASE ClaimScan(s)
      BY <1>1, <2>1 DEF ClaimScan, TypeOK
    <2>2. CASE BeginRefresh(s)
      BY <2>2 DEF BeginRefresh, Oldest, Pollable
    <2>3. CASE Reconcile(s)
      BY <2>3 DEF Reconcile
    <2>4. QED
      BY <1>2, <2>1, <2>2, <2>3
  <1>3. ASSUME SetFailed \/ FinishScan PROVE AgreeInv'
    <2>1. CASE SetFailed
      BY <1>1, <2>1 DEF SetFailed, TypeOK, WorkerInv
    <2>2. CASE FinishScan
      <3>1. /\ scan' = [scan EXCEPT ![wscan] = Mapped[saw]]
            /\ action' = [action EXCEPT ![wscan] =
                            IF saw = "finished" THEN "completed" ELSE "error"]
            /\ wpc' = "poll"
        BY <2>2 DEF FinishScan
      <3>2. /\ wscan \in Scans
            /\ (IF saw = "finished" THEN "completed" ELSE "error") =
                 IF Mapped[saw] \in {"failed", "cancelled"} THEN "error" ELSE Mapped[saw]
        BY <1>1, <2>2 DEF FinishScan, WorkerInv, Mapped
      <3>3. QED
        BY <1>1, <3>1, <3>2 DEF TypeOK
    <2>3. QED
      BY <1>3, <2>1, <2>2
  <1>4. ASSUME RequestStep PROVE AgreeInv'
    <2>1. CASE UNCHANGED <<scan, action, wpc, wscan>>
      BY <2>1
    <2>2. ASSUME NEW r \in Requesters, NEW s \in Scans, QueueResearch(r, s)
          PROVE  AgreeInv'
      <3>1. /\ scan[s] = "none" /\ UNCHANGED <<wpc, wscan>>
            /\ scan' = [scan EXCEPT ![s] = "pending"]
            /\ action' = [action EXCEPT ![s] = "pending"]
        BY <2>2 DEF QueueResearch
      <3>2. wpc # "poll" => wscan \in Scans /\ wscan # s
        BY <1>1, <3>1 DEF WorkerInv
      <3>3. QED
        BY <1>1, <3>1, <3>2 DEF TypeOK
    <2>3. QED
      BY <1>4, <2>1, <2>2 DEF RequestStep, CheckLimit, QueueRejected
  <1>5. ASSUME UNCHANGED <<scan, action>>,
               wpc' = "poll" \/ (wpc # "poll" /\ wscan' = wscan)
        PROVE  AgreeInv'
    BY <1>5
  <1>6. ASSUME \/ RefuseStart \/ ReloadForStart \/ StartAccepted \/ StartUnanswered
               \/ RecordRealId \/ PollStillRunning \/ PollEnded \/ ReloadForFinish \/ Fault
        PROVE  AgreeInv'
    BY <1>5, <1>6 DEF RefuseStart, ReloadForStart, StartAccepted, StartUnanswered,
         RecordRealId, PollStillRunning, PollEnded, ReloadForFinish, Fault,
         RecordRealIdFails, PollFails, FinishRolledBack, WorkerKilled
  <1>7. ASSUME \/ UserStep \/ (\E s \in Scans : ExternalEnds(s)) \/ UNCHANGED vars
        PROVE  AgreeInv'
    BY <1>7 DEF UserStep, ImportProposals, DiscardFinding, DeleteScan, ExternalEnds, vars
  <1>8. QED
    BY <1>2, <1>3, <1>4, <1>6, <1>7 DEF Next, WorkerStep, PageStep

\* While nobody uses a legacy page or cancels, scan and action agree in every
\* state, whatever fails.
THEOREM RowsAgree == ASSUME Pages = {} PROVE Spec => []ScanAndActionAgree
  <1>1. Init => Typed /\ AgreeInv
    <2>1. Init => Typed
      BY InitTyped
    <2>2. Init => AgreeInv
      BY DEF Init, AgreeInv, ScanAndActionAgree
    <2>3. QED
      BY <2>1, <2>2
  <1>2. Typed /\ AgreeInv /\ [Next]_vars => Typed' /\ AgreeInv'
    BY TypedStep, AgreeStep
  <1>3. AgreeInv => ScanAndActionAgree
    BY DEF AgreeInv
  <1>4. QED
    BY <1>1, <1>2, <1>3, PTL DEF Spec

-----------------------------------------------------------------------------
(* The limit on concurrent scans *)

\* No legacy page commits the status it was told: the other handlers, the
\* cancellations and deletions among them, may do what they like.
NextWithoutStatusPages == Next /\ \A h \in Pages : ~ViewCommit(h) /\ ~RefreshCommit(h)

\* A request past the check has a place below the limit or an excess of its own.
PlacesInv ==
    MaxConcurrent > 0 =>
        Cardinality(Counted) + Cardinality(asking) < MaxConcurrent + Cardinality(Requesters)

\* The scans counted and the requests past the check are finitely many.
LEMMA Finitely ==
    ASSUME TypeOK
    PROVE  /\ IsFiniteSet(Counted) /\ Cardinality(Counted) \in Nat
           /\ IsFiniteSet(asking) /\ Cardinality(asking) \in Nat
           /\ Cardinality(asking) <= Cardinality(Requesters)
           /\ IsFiniteSet(Requesters) /\ Cardinality(Requesters) \in Nat
  <1>1. IsFiniteSet(Scans)
    BY ResearchAssumption, FS_Interval DEF Scans
  <1>2. Counted \subseteq Scans /\ asking \subseteq Requesters
    BY DEF Counted, TypeOK
  <1>3. IsFiniteSet(Requesters)
    BY ResearchAssumption
  <1>4. QED
    BY <1>1, <1>2, <1>3, FS_Subset, FS_CardinalityType

\* Fewer scans and requests need fewer places.
LEMMA FewerPlaces ==
    ASSUME TypeOK, TypeOK', PlacesInv, Counted' \subseteq Counted, asking' \subseteq asking
    PROVE  PlacesInv'
  <1>1. IsFiniteSet(Counted) /\ IsFiniteSet(asking)
    BY Finitely
  <1>2. Cardinality(Counted') <= Cardinality(Counted) /\ Cardinality(asking') <= Cardinality(asking)
        /\ Cardinality(Counted') \in Nat /\ Cardinality(asking') \in Nat
    BY <1>1, FS_Subset, FS_CardinalityType
  <1>3. QED
    BY <1>2, Finitely, ResearchAssumption DEF PlacesInv

\* A check takes a place, an insert turns it into a scan.
LEMMA PlacesStep == ASSUME Typed, Typed', PlacesInv, [NextWithoutStatusPages]_vars PROVE PlacesInv'
  <1> USE DEF rowVars, webVars
  <1>1. TypeOK /\ TypeOK'
    BY DEF Typed
  <1>2. ASSUME NEW r \in Requesters, CheckLimit(r) PROVE PlacesInv'
    <2>1. /\ asking' = asking \cup {r} /\ r \notin asking /\ Counted' = Counted
          /\ MaxConcurrent > 0 => Cardinality(Counted) < MaxConcurrent
      BY <1>2 DEF CheckLimit, Counted
    <2>2. Cardinality(asking') \in Nat /\ Cardinality(asking') <= Cardinality(Requesters)
      <3>1. asking' \subseteq Requesters /\ IsFiniteSet(Requesters)
        BY <1>1, Finitely DEF TypeOK
      <3>2. QED
        BY <3>1, FS_Subset, FS_CardinalityType
    <2>3. QED
      BY <1>1, <2>1, <2>2, Finitely, ResearchAssumption DEF PlacesInv
  <1>3. ASSUME NEW r \in Requesters, NEW s \in Scans, QueueResearch(r, s) PROVE PlacesInv'
    <2>1. /\ asking' = asking \ {r} /\ r \in asking
          /\ Counted' \subseteq Counted \cup {s} /\ s \notin Counted
      BY <1>1, <1>3 DEF QueueResearch, Counted, TypeOK
    <2>2. Cardinality(asking') = Cardinality(asking) - 1
      BY <1>1, <2>1, Finitely, FS_RemoveElement
    <2>3. /\ IsFiniteSet(Counted \cup {s})
          /\ Cardinality(Counted \cup {s}) = Cardinality(Counted) + 1
      BY <1>1, <2>1, Finitely, FS_AddElement
    <2>4. Cardinality(Counted') <= Cardinality(Counted) + 1 /\ Cardinality(Counted') \in Nat
      BY <2>1, <2>3, FS_Subset, FS_CardinalityType
    <2>5. QED
      BY <1>1, <2>2, <2>4, Finitely, ResearchAssumption DEF PlacesInv
  <1>4. ASSUME asking' \subseteq asking, removed \subseteq removed',
               \A s \in Scans : scan'[s] \in {"pending", "running"} => scan[s] \in {"pending", "running"}
        PROVE  PlacesInv'
    <2>1. Counted' \subseteq Counted
      BY <1>4 DEF Counted
    <2>2. QED
      BY <1>1, <1>4, <2>1, FewerPlaces
  <1>5. CASE UNCHANGED <<scan, removed>> /\ asking' \subseteq asking
    BY <1>4, <1>5
  <1>6. CASE UNCHANGED asking /\ UNCHANGED removed /\
             ((\E s \in Scans : ClaimScan(s)) \/ SetFailed \/ FinishScan)
    <2>1. \A s \in Scans : scan'[s] \in {"pending", "running"} => scan[s] \in {"pending", "running"}
      <3>1. ASSUME NEW s \in Scans, ClaimScan(s) PROVE scan[s] = "pending" /\ scan' = [scan EXCEPT ![s] = "running"]
        BY <3>1 DEF ClaimScan, Oldest, Startable
      <3>2. ASSUME SetFailed PROVE scan' = [scan EXCEPT ![wscan] = "failed"]
        BY <3>2 DEF SetFailed
      <3>3. ASSUME FinishScan PROVE \E end \in Settled : scan' = [scan EXCEPT ![wscan] = end]
        <4>1. saw \in {"finished", "error", "aborted"}
          BY <3>3 DEF Typed, WorkerInv, FinishScan
        <4>2. Mapped[saw] \in Settled
          BY <4>1 DEF Mapped, Settled
        <4>3. QED
          BY <3>3, <4>2 DEF FinishScan
      <3>4. QED
        BY <1>1, <1>6, <3>1, <3>2, <3>3 DEF TypeOK, Settled
    <2>2. QED
      BY <1>4, <1>6, <2>1
  <1>7. ASSUME NEW h \in Pages, StopCommit(h) PROVE PlacesInv'
    <2>1. /\ UNCHANGED <<asking, removed>>
          /\ \E t \in {"cancelled", scan[page[h].scan]} : scan' = [scan EXCEPT ![page[h].scan] = t]
      BY <1>7 DEF StopCommit, PageWrites
    <2>2. QED
      BY <1>1, <1>4, <2>1 DEF TypeOK
  <1>8. ASSUME NEW s \in Scans, DeleteScan(s) PROVE PlacesInv'
    BY <1>4, <1>8 DEF DeleteScan
  <1>9. \/ UNCHANGED <<scan, removed>> /\ asking' \subseteq asking
        \/ UNCHANGED asking /\ UNCHANGED removed /\
             ((\E s \in Scans : ClaimScan(s)) \/ SetFailed \/ FinishScan)
        \/ \E r \in Requesters : CheckLimit(r) \/ \E s \in Scans : QueueResearch(r, s)
        \/ \E h \in Pages : StopCommit(h)
        \/ \E s \in Scans : DeleteScan(s)
    <2>1. CASE WorkerStep
      BY <2>1 DEF WorkerStep, ClaimScan, BeginRefresh, Reconcile, RefuseStart, ReloadForStart,
                  StartAccepted, StartUnanswered, RecordRealId, SetFailed,
                  PollStillRunning, PollEnded, ReloadForFinish, FinishScan
    <2>2. CASE Fault
      BY <2>2 DEF Fault, RecordRealIdFails, PollFails, FinishRolledBack, WorkerKilled
    <2>3. CASE RequestStep
      BY <2>3 DEF RequestStep, QueueRejected
    <2>4. CASE PageStep /\ \A h \in Pages : ~ViewCommit(h) /\ ~RefreshCommit(h)
      BY <2>4 DEF PageStep, FetchStatus, StopExternal, CancelRead, ViewSummary, CancelCommit
    <2>5. CASE UserStep \/ \E s \in Scans : ExternalEnds(s)
      BY <2>5 DEF UserStep, ImportProposals, DiscardFinding, ExternalEnds
    <2>6. CASE UNCHANGED vars
      BY <2>6 DEF vars
    <2>7. QED
      BY <2>1, <2>2, <2>3, <2>4, <2>5, <2>6 DEF NextWithoutStatusPages, Next
  <1>10. QED
    BY <1>2, <1>3, <1>5, <1>6, <1>7, <1>8, <1>9

\* There is a place for everybody at first.
LEMMA PlacesInit == Init => PlacesInv
  <1> SUFFICES ASSUME Init PROVE PlacesInv
    OBVIOUS
  <1>1. Counted = {} /\ asking = {}
    BY DEF Init, Counted
  <1>2. Cardinality(Requesters) \in Nat
    BY ResearchAssumption, FS_CardinalityType
  <1>3. Cardinality({}) = 0
    BY FS_EmptySet
  <1>4. QED
    BY <1>1, <1>2, <1>3, ResearchAssumption DEF PlacesInv

\* Places suffice for the limit to be overrun by less than the requests.
LEMMA PlacesBound == ASSUME TypeOK, PlacesInv PROVE LimitOverrun
  BY Finitely, ResearchAssumption DEF PlacesInv, LimitOverrun

\* The limit check and the insert are not serialised (tier_limits.py 188-225,
\* routes.py 2098-2164): as long as no legacy page stores a status it was told
\* earlier, the tenant exceeds the limit by less than the requests that can be
\* between the two, whatever is cancelled, stopped or deleted meanwhile.
THEOREM OverrunWithoutStatusPages ==
    Init /\ [][NextWithoutStatusPages]_vars => []LimitOverrun
  <1>1. Init => Typed /\ PlacesInv
    BY InitTyped, PlacesInit
  <1>2. Typed /\ PlacesInv /\ [NextWithoutStatusPages]_vars => Typed' /\ PlacesInv'
    <2>1. [NextWithoutStatusPages]_vars => [Next]_vars
      BY DEF NextWithoutStatusPages
    <2>2. QED
      BY <2>1, TypedStep, PlacesStep
  <1>3. Typed /\ PlacesInv => LimitOverrun
    BY PlacesBound DEF Typed
  <1>4. QED
    BY <1>1, <1>2, <1>3, PTL

\* In particular where nobody uses the legacy pages.
THEOREM OverrunWithoutPages ==
    ASSUME Pages = {} PROVE Spec => []LimitOverrun
  <1>1. [Next]_vars => [NextWithoutStatusPages]_vars
    BY DEF NextWithoutStatusPages
  <1>2. QED
    BY <1>1, OverrunWithoutStatusPages, PTL DEF Spec

-----------------------------------------------------------------------------
(* A settled scan is never sent *)

\* The server knows a scan only after its start was accepted: one that is not
\* claimed yet or is about to be started is unknown to it, and a page that
\* stores a status works on a scan whose real id is known.
UnsentInv ==
    /\ \A s \in Scans : scan[s] \in {"none", "pending"} =>
          s \notin real /\ ext[s] = "none" /\ (wpc # "poll" => wscan # s)
    /\ wpc = "claimed" => wscan \notin real /\ ext[wscan] = "none"
    /\ \A h \in Pages :
          page[h].op \in {"view", "summary", "refresh"} => page[h].scan \in real

\* Scan s ended before it was sent, and the worker is not on its way to send,
\* poll or finish it.
NeverSent(s) ==
    /\ s \notin real /\ ext[s] = "none"
    /\ scan[s] \in Settled
    /\ wscan = s => wpc \in {"poll", "claimed", "failing"}

\* No page is open and nothing is claimed at first.
LEMMA UnsentInit == Init => UnsentInv
  BY DEF Init, UnsentInv, IdlePage, Historical, Scans

\* The worker changes the scan it holds, and no other.
LEMMA WorkerUnsent == ASSUME Typed, UnsentInv, WorkerStep \/ Fault PROVE UnsentInv'
  <1> USE DEF UnsentInv, rowVars, resultVars, workerVars, webVars, WorkerAt, Keep, Release
  <1>1. TypeOK /\ WorkerInv
    BY DEF Typed
  <1>2. ASSUME NEW s \in Scans, ClaimScan(s) PROVE UnsentInv'
    BY <1>1, <1>2 DEF ClaimScan, Oldest, Startable, TypeOK
  <1>3. ASSUME NEW s \in Scans, BeginRefresh(s) PROVE UnsentInv'
    BY <1>1, <1>3 DEF BeginRefresh, Oldest, Pollable, TypeOK
  <1>4. ASSUME NEW s \in Scans, Reconcile(s) PROVE UnsentInv'
    BY <1>4 DEF Reconcile
  <1>5. ASSUME StartAccepted \/ StartUnanswered PROVE UnsentInv'
    <2>1. /\ UNCHANGED <<scan, real, page>>
          /\ wscan' = wscan /\ wpc # "poll" /\ wpc' \in {"launched", "failing"}
          /\ \A t \in Scans : t # wscan => ext'[t] = ext[t]
      BY <1>1, <1>5 DEF StartAccepted, StartUnanswered, TypeOK
    <2>2. QED
      BY <1>1, <2>1
  <1>6. ASSUME RecordRealId PROVE UnsentInv'
    BY <1>1, <1>6 DEF RecordRealId
  <1>7. ASSUME SetFailed \/ FinishScan PROVE UnsentInv'
    <2>1. /\ UNCHANGED <<ext, real, page>> /\ wpc' = "poll" /\ wpc # "poll"
          /\ \E end \in Settled : scan' = [scan EXCEPT ![wscan] = end]
      <3>1. FinishScan => Mapped[saw] \in Settled
        BY <1>1 DEF WorkerInv, FinishScan, Mapped, Settled
      <3>2. QED
        BY <1>7, <3>1 DEF SetFailed, FinishScan, Settled
    <2>2. QED
      BY <1>1, <2>1 DEF TypeOK, Settled
  <1>8. ASSUME \/ RefuseStart \/ ReloadForStart \/ PollStillRunning \/ PollEnded
               \/ ReloadForFinish \/ Fault
        PROVE  UnsentInv'
    <2>1. /\ UNCHANGED <<scan, real, ext, page>>
          /\ wpc' # "claimed" /\ wpc # "poll"
          /\ wpc' # "poll" => wscan' = wscan
      BY <1>8 DEF RefuseStart, ReloadForStart, PollStillRunning, PollEnded, ReloadForFinish,
                  Fault, RecordRealIdFails, PollFails, FinishRolledBack, WorkerKilled
    <2>2. QED
      BY <2>1
  <1>9. QED
    BY <1>2, <1>3, <1>4, <1>5, <1>6, <1>7, <1>8 DEF WorkerStep

\* A page stores what it was told of a scan the server knows.
LEMMA PageUnsent == ASSUME Typed, UnsentInv, PageStep PROVE UnsentInv'
  <1> USE DEF UnsentInv, rowVars, resultVars, workerVars, webVars
  <1>1. TypeOK /\ WorkerInv /\ PageInv
    BY DEF Typed
  <1>2. ASSUME NEW h \in Pages, NEW s \in Scans,
               FetchStatus(h, s) \/ StopExternal(h, s) \/ CancelRead(h, s)
        PROVE  UnsentInv'
    <2>1. /\ UNCHANGED <<scan, real, wpc, wscan>>
          /\ \A t \in Scans : ext'[t] = ext[t] \/ t \in real
          /\ \E op \in {"view", "refresh", "stop", "cancel"} :
                /\ page' = [page EXCEPT ![h] =
                        [op |-> op, scan |-> s, seen |-> ext[s], loaded |-> scan[s]]]
                /\ op \in {"view", "refresh"} => s \in real
      BY <1>1, <1>2 DEF FetchStatus, StopExternal, CancelRead, OpenPage, TypeOK
    <2>2. \A g \in Pages : page'[g].op \in {"view", "summary", "refresh"} => page'[g].scan \in real
      BY <1>1, <2>1 DEF TypeOK
    <2>3. QED
      BY <1>1, <2>1, <2>2 DEF WorkerInv
  <1>3. ASSUME NEW h \in Pages,
               ViewCommit(h) \/ RefreshCommit(h) \/ StopCommit(h) \/ ViewSummary(h) \/ CancelCommit(h)
        PROVE  UnsentInv'
    <2>1. UNCHANGED <<real, ext, wpc, wscan>>
      BY <1>3 DEF ViewCommit, RefreshCommit, StopCommit, ViewSummary, CancelCommit
    <2>2. \A g \in Pages : page'[g].op \in {"view", "summary", "refresh"} => page'[g].scan \in real
      <3>1. \/ page' = [page EXCEPT ![h] = IdlePage]
            \/ page[h].op = "view" /\ page' = [page EXCEPT ![h].op = "summary"]
        BY <1>3 DEF ViewCommit, RefreshCommit, StopCommit, ViewSummary, CancelCommit, ClosePage
      <3>2. page[h] \in PageState /\ \A g \in Pages : g # h => page'[g] = page[g]
        BY <1>1, <3>1 DEF TypeOK
      <3>3. page'[h] = IdlePage \/ (page[h].op = "view" /\ page'[h] = [page[h] EXCEPT !.op = "summary"])
        BY <1>1, <3>1 DEF TypeOK
      <3>4. IdlePage.op = "idle"
        BY DEF IdlePage
      <3>5. QED
        BY <3>2, <3>3, <3>4 DEF PageState
    <2>3. \A s \in Scans : scan'[s] \in {"none", "pending"} => scan[s] \in {"none", "pending"}
      <3>1. scan' = scan \/ \E status \in {"running", "raw"} \cup Settled :
                scan' = [scan EXCEPT ![page[h].scan] =
                           IF status = page[h].loaded THEN @ ELSE status]
        <4>1. ASSUME ViewCommit(h) \/ RefreshCommit(h)
              PROVE  page[h].seen \in {"running", "finished", "error", "aborted"}
          BY <1>1, <4>1 DEF ViewCommit, RefreshCommit, PageInv, TypeOK, PageState, External
        <4>2. QED
          BY <1>3, <4>1 DEF ViewCommit, RefreshCommit, StopCommit, ViewSummary, CancelCommit,
                            PageWrites, Mapped, Settled
      <3>2. QED
        BY <1>1, <3>1 DEF TypeOK, Settled
    <2>4. QED
      BY <1>1, <2>1, <2>2, <2>3
  <1>4. QED
    BY <1>2, <1>3 DEF PageStep

\* Every step keeps the invariant.
LEMMA UnsentStep == ASSUME Typed, UnsentInv, [Next]_vars PROVE UnsentInv'
  <1> USE DEF UnsentInv, rowVars, resultVars, workerVars, webVars
  <1>1. TypeOK /\ WorkerInv
    BY DEF Typed
  <1>2. ASSUME RequestStep PROVE UnsentInv'
    BY <1>1, <1>2 DEF RequestStep, CheckLimit, QueueRejected, QueueResearch, TypeOK
  <1>3. ASSUME UserStep PROVE UnsentInv'
    <2>1. ASSUME NEW s \in Scans, DeleteScan(s) PROVE UnsentInv'
      BY <1>1, <2>1 DEF DeleteScan, TypeOK, WorkerInv
    <2>2. QED
      BY <1>3, <2>1 DEF UserStep, ImportProposals, DiscardFinding
  <1>4. ASSUME NEW s \in Scans, ExternalEnds(s) PROVE UnsentInv'
    BY <1>1, <1>4 DEF ExternalEnds, TypeOK, WorkerInv
  <1>5. CASE UNCHANGED vars
    BY <1>5 DEF vars
  <1>6. QED
    BY <1>2, <1>3, <1>4, <1>5, WorkerUnsent, PageUnsent DEF Next

\* A scan that ended before it was sent stays so.
LEMMA NeverSentStep ==
    ASSUME NEW s \in Scans, Typed, UnsentInv, NeverSent(s), [Next]_vars
    PROVE  NeverSent(s)'
  <1> USE DEF NeverSent, rowVars, resultVars, workerVars, webVars, WorkerAt, Keep, Release
  <1>1. TypeOK /\ WorkerInv /\ PageInv
    BY DEF Typed
  <1>2. ASSUME NEW t \in Scans, ClaimScan(t) \/ BeginRefresh(t) \/ Reconcile(t)
        PROVE  NeverSent(s)'
    BY <1>1, <1>2 DEF ClaimScan, BeginRefresh, Reconcile, Oldest, Startable, Pollable,
                      Settled, TypeOK
  <1>3. ASSUME StartAccepted \/ StartUnanswered \/ RecordRealId PROVE NeverSent(s)'
    BY <1>1, <1>3 DEF StartAccepted, StartUnanswered, RecordRealId, TypeOK
  <1>4. ASSUME SetFailed \/ FinishScan PROVE NeverSent(s)'
    BY <1>1, <1>4 DEF SetFailed, FinishScan, TypeOK, WorkerInv, Settled
  <1>5. ASSUME \/ RefuseStart \/ ReloadForStart \/ PollStillRunning \/ PollEnded
               \/ ReloadForFinish \/ Fault
        PROVE  NeverSent(s)'
    BY <1>5 DEF RefuseStart, ReloadForStart, PollStillRunning, PollEnded, ReloadForFinish,
                Fault, RecordRealIdFails, PollFails, FinishRolledBack, WorkerKilled, Settled
  <1>6. ASSUME PageStep PROVE NeverSent(s)'
    <2>1. UNCHANGED <<real, wpc, wscan>>
      BY <1>6 DEF PageStep, FetchStatus, StopExternal, CancelRead, ViewCommit, ViewSummary,
                  RefreshCommit, StopCommit, CancelCommit
    <2>2. ext'[s] = "none"
      BY <1>1, <1>6 DEF PageStep, FetchStatus, StopExternal, CancelRead, ViewCommit, ViewSummary,
                  RefreshCommit, StopCommit, CancelCommit, TypeOK
    <2>3. scan'[s] \in Settled
      <3>1. ASSUME NEW h \in Pages, ViewCommit(h) \/ RefreshCommit(h)
            PROVE  scan'[s] = scan[s]
        BY <1>1, <3>1 DEF UnsentInv, ViewCommit, RefreshCommit, PageWrites, TypeOK
      <3>2. ASSUME NEW h \in Pages, StopCommit(h) PROVE scan'[s] \in Settled
        BY <1>1, <3>2 DEF StopCommit, PageWrites, TypeOK, Settled
      <3>3. QED
        BY <1>6, <3>1, <3>2 DEF PageStep, FetchStatus, StopExternal, CancelRead, ViewSummary,
                                CancelCommit
    <2>4. QED
      BY <2>1, <2>2, <2>3
  <1>7. ASSUME \/ RequestStep \/ UserStep \/ (\E t \in Scans : ExternalEnds(t)) \/ UNCHANGED vars
        PROVE  NeverSent(s)'
    BY <1>1, <1>7 DEF RequestStep, CheckLimit, QueueRejected, QueueResearch, UserStep,
         ImportProposals, DiscardFinding, DeleteScan, ExternalEnds, vars, Settled, TypeOK
  <1>8. QED
    BY <1>2, <1>3, <1>4, <1>5, <1>6, <1>7 DEF Next, WorkerStep

\* The reload before the start (source_research.py, start_scan) is enough: a
\* scan that was stopped, failed or refused before it is never sent to the
\* server, with any number of scans, pages and faults.
THEOREM NeverLaunched == Spec => SettledNeverLaunched
  <1>1. SUFFICES ASSUME NEW s \in Scans
                 PROVE  Spec => [](wpc = "claimed" /\ wscan = s /\ scan[s] \in Settled
                                     => [](ext[s] = "none"))
    BY DEF SettledNeverLaunched
  <1>2. Init => Typed /\ UnsentInv
    BY InitTyped, UnsentInit
  <1>3. Typed /\ UnsentInv /\ [Next]_vars => Typed' /\ UnsentInv'
    BY TypedStep, UnsentStep
  <1>4. UnsentInv /\ wpc = "claimed" /\ wscan = s /\ scan[s] \in Settled => NeverSent(s)
    BY DEF UnsentInv, NeverSent
  <1>5. Typed /\ UnsentInv /\ NeverSent(s) /\ [Next]_vars => NeverSent(s)'
    BY NeverSentStep
  <1>6. NeverSent(s) => ext[s] = "none"
    BY DEF NeverSent
  <1>7. QED
    BY <1>2, <1>3, <1>4, <1>5, <1>6, PTL DEF Spec
=============================================================================
