-------------------------- MODULE TenantRows_proofs --------------------------
(***************************************************************************)
(* The properties of TenantRows, for any number of requests,               *)
(* investigations, users, intakes and tenants.  Each part is proved about  *)
(* the module it comes from: the report first, then the status of a case,  *)
(* the hierarchy and the subscriptions, and the customers' requests in     *)
(* PortalIntake_proofs.  Every step of RowsSpec is a step of one part or   *)
(* leaves the variables of that part alone, so RowsSpec has what each of   *)
(* them has.                                                               *)
(***************************************************************************)
EXTENDS TenantRows, Sequences, TLAPS

----------------------------------------------------------------------------
(***************************************************************************)
(* The report of a case.                                                   *)
(***************************************************************************)
Withdrawals == {"save", "clear", "revoke"}

Lost(r) == \E w \in Done(Ops) :
              /\ req[w].at > req[r].at
              /\ \/ req[w].op = "clear"
                 \/ req[w].op \in Forms /\ req[w].opened < req[r].at
                 \/ req[w].op \in Generators /\ (Overwrote(w, r) \/ r \in Block(w))

FilledFirst == billed # {} \/ \E g \in Done(Generators) : req[g].body = {}

\* The times of a request, and what the row may refer to.
Times ==
    /\ \A r \in Requests :
          /\ req[r].loaded <= clock /\ req[r].opened <= clock
          /\ req[r].stage = "committed" => /\ req[r].loaded < req[r].at
                                           /\ req[r].at <= clock
          /\ r \in billed => req[r].stage = "committed"
          /\ req[r].stage = "page" => req[r].op \in Forms
          /\ req[r].stage = "loaded" /\ req[r].op = "narrate"
               => req[r].inv \in Investigations
    /\ stamp # None => stamp \in Done({"release"})

\* A loaded row is the current one but for what was committed since.
SeenStatus ==
    \A r \in Requests : req[r].stage = "loaded" =>
        /\ req[r].status = "released" => req[r].stamp # None
        /\ req[r].status = "draft" /\ status = "released"
             => stamp # None /\ req[r].loaded < req[stamp].at
        /\ req[r].status = "released" /\ status = "draft"
             => \E w \in Done(Withdrawals) : req[r].loaded < req[w].at

\* Of what was committed before a page was opened or a row was loaded, the
\* text in hand lacks nothing that was not lost before.
SeenText ==
    \A x \in Requests, r \in Done(Ops \ {"clear", "revoke"}) :
        /\ req[x].stage \in {"page", "loaded"} /\ req[x].op \in Forms
           /\ req[r].at <= req[x].opened => r \in req[x].page \/ Lost(r)
        /\ req[x].stage = "loaded" /\ req[r].at <= req[x].loaded
             => r \in req[x].body \/ Lost(r)

\* An empty text is one that was cleared after it was billed.
ClearedAfter(r, t) == \E w \in Done({"clear"}) : req[r].at < req[w].at /\ req[w].at <= t

SeenBill ==
    /\ body = {} => \A r \in billed : ClearedAfter(r, clock)
    /\ \A x \in Requests : req[x].stage = "loaded" =>
          /\ req[x].body = {} => \A r \in billed : req[r].at <= req[x].loaded
                                                   => ClearedAfter(r, req[x].loaded)
          /\ req[x].body # {} => FilledFirst

ReportInv == /\ TypeOK /\ Times /\ SeenStatus /\ SeenText /\ SeenBill
       /\ OnlyReleasedText /\ StampedDraft /\ LostOnlyToStaleText /\ BilledOnce
       /\ FilledIsBilled

USE ReportAssumption

\* An empty draft, which nobody has opened.
LEMMA ReportInit == Init => ReportInv
  <1> SUFFICES ASSUME Init PROVE ReportInv
    OBVIOUS
  <1> USE DEF Init, Idle
  <1>1. TypeOK
    BY DEF TypeOK, Transactions, Stages, Ops, Forms
  <1>2. Times /\ SeenStatus /\ SeenText /\ SeenBill
    BY DEF Times, SeenStatus, SeenText, SeenBill, Done
  <1>3. OnlyReleasedText /\ StampedDraft /\ LostOnlyToStaleText /\ BilledOnce
        /\ FilledIsBilled
    BY DEF OnlyReleasedText, StampedDraft, LostOnlyToStaleText, BilledOnce,
           FilledIsBilled, Done
  <1>4. QED BY <1>1, <1>2, <1>3 DEF ReportInv

----------------------------------------------------------------------------
\* A step of r leaves the committed requests and what was said of them alone.
Steps(r) == /\ req[r].stage # "committed"
            /\ \A s \in Requests : s # r => req'[s] = req[s]
            /\ clock <= clock'

\* What was committed stays committed, and what was lost or cleared stays so.
LEMMA Kept ==
    ASSUME TypeOK, TypeOK', NEW r \in Requests, Steps(r)
    PROVE  /\ \A op \in SUBSET Ops : \A w \in Done(op) :
                  w # r /\ req'[w] = req[w] /\ w \in Done(op)'
           /\ \A s \in Done(Ops) : Lost(s) => Lost(s)'
           /\ \A s \in Done(Ops), t \in Nat :
                  ClearedAfter(s, t) => ClearedAfter(s, t)'
  <1>1. \A op \in SUBSET Ops : \A w \in Done(op) :
           w # r /\ req'[w] = req[w] /\ w \in Done(op)'
    BY DEF Done, Steps
  <1>2. ASSUME NEW s \in Done(Ops), Lost(s) PROVE Lost(s)'
    <2>1. PICK w \in Done(Ops) :
             /\ req[w].at > req[s].at
             /\ \/ req[w].op = "clear"
                \/ req[w].op \in Forms /\ req[w].opened < req[s].at
                \/ req[w].op \in Generators /\ (Overwrote(w, s) \/ s \in Block(w))
      BY <1>2 DEF Lost
    <2>2. req'[w] = req[w] /\ req'[s] = req[s] /\ w \in Done(Ops)'
      BY <1>1
    <2>3. (Overwrote(w, s) => Overwrote(w, s)') /\ (s \in Block(w) => s \in Block(w)')
      BY <2>2 DEF Overwrote, Block
    <2>4. QED BY <2>1, <2>2, <2>3 DEF Lost
  <1>3. ASSUME NEW s \in Done(Ops), NEW t \in Nat, ClearedAfter(s, t)
        PROVE  ClearedAfter(s, t)'
    <2>1. PICK w \in Done({"clear"}) : req[s].at < req[w].at /\ req[w].at <= t
      BY <1>3 DEF ClearedAfter
    <2>2. req'[w] = req[w] /\ req'[s] = req[s] /\ w \in Done({"clear"})'
      BY <1>1 DEF Ops, Forms
    <2>3. QED BY <2>1, <2>2 DEF ClearedAfter
  <1>4. QED BY <1>1, <1>2, <1>3

\* What a request that is not committing becomes.
Moved(r) ==
    \/ req'[r].stage = "ended" /\ req'[r].loaded = req[r].loaded
                              /\ req'[r].opened = req[r].opened
    \/ /\ req'[r].stage = "page" /\ req'[r].page = body /\ req'[r].op \in Forms
       /\ req'[r].opened = clock /\ req'[r].loaded = 0
    \/ /\ req'[r].stage = "loaded" /\ req'[r].body = body /\ req'[r].status = status
       /\ req'[r].stamp = stamp /\ req'[r].loaded = clock
       /\ \/ /\ req[r].stage = "page" /\ req'[r].op = req[r].op
             /\ req'[r].page = req[r].page /\ req'[r].opened = req[r].opened
             /\ req[r].op \in Forms
          \/ req'[r].op \notin Forms /\ req'[r].opened = 0
       /\ req'[r].op = "narrate" => req'[r].inv \in Investigations

\* A step that leaves the row alone and takes a copy of it, or drops its own,
\* keeps the invariant.
LEMMA MoveInv ==
    ASSUME ReportInv, NEW r \in Requests, TypeOK', Steps(r), Moved(r), UNCHANGED <<row, clock>>
    PROVE  ReportInv'
  <1>0. UNCHANGED <<body, status, stamp, narrative, billed, clock>>
    BY DEF row
  <1>1. TypeOK /\ Times /\ SeenStatus /\ SeenText /\ SeenBill /\ OnlyReleasedText
        /\ StampedDraft /\ LostOnlyToStaleText /\ BilledOnce /\ FilledIsBilled
    BY DEF ReportInv
  <1>2. /\ \A op \in SUBSET Ops : \A w \in Done(op) :
              w # r /\ req'[w] = req[w] /\ w \in Done(op)'
        /\ \A s \in Done(Ops) : Lost(s) => Lost(s)'
        /\ \A s \in Done(Ops), t \in Nat : ClearedAfter(s, t) => ClearedAfter(s, t)'
    BY <1>1, Kept
  <1>3. \A op \in SUBSET Ops : Done(op)' = Done(op)
    BY <1>2 DEF Done, Moved, Steps
  <1>4. Times'
    <2>1. (\A s \in Requests :
             /\ req[s].loaded <= clock /\ req[s].opened <= clock
             /\ req[s].stage = "committed" => /\ req[s].loaded < req[s].at
                                              /\ req[s].at <= clock
             /\ s \in billed => req[s].stage = "committed"
             /\ req[s].stage = "page" => req[s].op \in Forms
             /\ req[s].stage = "loaded" /\ req[s].op = "narrate"
                  => req[s].inv \in Investigations)'
      BY <1>0, <1>1, <1>2 DEF Times, Moved, Steps, TypeOK
    <2>2. stamp # None => stamp \in Done({"release"})'
      BY <1>1, <1>3 DEF Times, Ops, Forms
    <2>3. QED BY <1>0, <2>1, <2>2 DEF Times
  <1>5. SeenStatus'
    <2> SUFFICES ASSUME NEW s \in Requests, req'[s].stage = "loaded"
                 PROVE  /\ req'[s].status = "released" => req'[s].stamp # None
                        /\ req'[s].status = "draft" /\ status = "released"
                             => stamp # None /\ req'[s].loaded < req'[stamp].at
                        /\ req'[s].status = "released" /\ status = "draft"
                             => \E w \in Done(Withdrawals)' : req'[s].loaded < req'[w].at
      BY <1>0 DEF SeenStatus
    <2>1. CASE s = r
      BY <1>1, <2>1 DEF Moved, OnlyReleasedText, TypeOK
    <2>2. CASE s # r
      <3>1. req'[s] = req[s]
        BY <2>2 DEF Steps
      <3>2. /\ req[s].status = "released" => req[s].stamp # None
            /\ req[s].status = "draft" /\ status = "released"
                 => stamp # None /\ req[s].loaded < req[stamp].at
            /\ req[s].status = "released" /\ status = "draft"
                 => \E w \in Done(Withdrawals) : req[s].loaded < req[w].at
        BY <1>1, <3>1 DEF SeenStatus
      <3>3. Withdrawals \in SUBSET Ops /\ {"release"} \in SUBSET Ops
        BY DEF Withdrawals, Ops, Forms
      <3>4. stamp # None => req'[stamp] = req[stamp]
        BY <1>1, <1>2, <3>3 DEF Times
      <3>5. QED BY <1>2, <3>1, <3>2, <3>3, <3>4
    <2>3. QED BY <2>1, <2>2
  <1>6. SeenText'
    <2> SUFFICES ASSUME NEW x \in Requests, NEW s \in Done(Ops \ {"clear", "revoke"})
                 PROVE  /\ req'[x].stage \in {"page", "loaded"} /\ req'[x].op \in Forms
                           /\ req[s].at <= req'[x].opened => s \in req'[x].page \/ Lost(s)'
                        /\ req'[x].stage = "loaded" /\ req[s].at <= req'[x].loaded
                             => s \in req'[x].body \/ Lost(s)'
      BY <1>2, <1>3 DEF SeenText
    <2>1. s \in Done(Ops) /\ (s \in body \/ Lost(s)) /\ (Lost(s) => Lost(s)')
      BY <1>1, <1>2 DEF Done, LostOnlyToStaleText, Lost
    <2>2. /\ req[x].stage \in {"page", "loaded"} /\ req[x].op \in Forms
             /\ req[s].at <= req[x].opened => s \in req[x].page \/ Lost(s)
          /\ req[x].stage = "loaded" /\ req[s].at <= req[x].loaded
             => s \in req[x].body \/ Lost(s)
      BY <1>1 DEF SeenText
    <2>3. CASE x = r
      BY <2>1, <2>2, <2>3 DEF Moved
    <2>4. CASE x # r
      BY <2>1, <2>2, <2>4 DEF Steps
    <2>5. QED BY <2>3, <2>4
  <1>7. SeenBill'
    <2>1. \A s \in billed : s \in Done(Ops) /\ req'[s] = req[s]
      BY <1>1, <1>2 DEF Times, Done, TypeOK, Transactions
    <2>2. FilledFirst => FilledFirst'
      BY <1>0, <1>2 DEF FilledFirst, Ops
    <2>3. body = {} => \A s \in billed : ClearedAfter(s, clock)'
      BY <1>0, <1>1, <1>2, <2>1 DEF SeenBill, TypeOK, ClearedAfter
    <2>4. ASSUME NEW x \in Requests, req'[x].stage = "loaded"
          PROVE  /\ req'[x].body = {} => \A s \in billed : req[s].at <= req'[x].loaded
                                                 => ClearedAfter(s, req[x].loaded)'
                 /\ req'[x].body # {} => FilledFirst'
      <3>1. CASE x = r
        BY <1>0, <1>1, <2>1, <2>2, <2>3, <2>4, <3>1 DEF Moved, ClearedAfter, FilledIsBilled,
             FilledFirst
      <3>2. CASE x # r
        <4>1. req'[x] = req[x] /\ req[x].loaded \in Nat
          BY <1>1, <3>2 DEF Steps, TypeOK, Transactions
        <4>2. \A s \in billed : ClearedAfter(s, req[x].loaded) => ClearedAfter(s, req[x].loaded)'
          BY <1>2, <2>1, <4>1 DEF ClearedAfter
        <4>3. QED BY <1>1, <2>2, <2>4, <4>1, <4>2 DEF SeenBill
      <3>3. QED BY <3>1, <3>2
    <2>5. QED BY <1>0, <2>1, <2>3, <2>4 DEF SeenBill
  <1>8. OnlyReleasedText'
    <2>1. Generators \in SUBSET Ops /\ Forms \in SUBSET Ops /\ {"release"} \in SUBSET Ops
      BY DEF Ops, Forms
    <2>2. stamp # None => req'[stamp] = req[stamp] /\ Text(stamp)' = Text(stamp)
      <3> SUFFICES ASSUME stamp # None
                   PROVE  req'[stamp] = req[stamp] /\ Text(stamp)' = Text(stamp)
        OBVIOUS
      <3>1. stamp \in Done({"release"})
        BY <1>1 DEF Times
      <3>2. req'[stamp] = req[stamp]
        BY <1>2, <2>1, <3>1
      <3>3. req[stamp].op = "release"
        BY <3>1 DEF Done
      <3>4. QED BY <1>0, <3>2, <3>3 DEF Text, Generators
    <2>3. QED BY <1>0, <1>1, <1>2, <1>3, <2>1, <2>2 DEF OnlyReleasedText, Overwrote
  <1>9. StampedDraft'
    <2>1. {"save", "clear", "revoke"} \in SUBSET Ops /\ {"release"} \in SUBSET Ops
      BY DEF Ops, Forms
    <2>2. stamp # None => req'[stamp] = req[stamp]
      BY <1>1, <1>2, <2>1 DEF Times
    <2>3. QED BY <1>0, <1>1, <1>2, <2>1, <2>2 DEF StampedDraft, Overwrote
  <1>10. LostOnlyToStaleText'
    <2>1. \A s \in Done(Ops \ {"clear", "revoke"}) : s \in body \/ Lost(s)
      BY <1>1 DEF LostOnlyToStaleText, Lost
    <2>2. \A s \in Done(Ops \ {"clear", "revoke"}) : s \in Done(Ops)
      BY DEF Done
    <2>3. \A s \in Done(Ops \ {"clear", "revoke"})' : s \in body' \/ Lost(s)'
      BY <1>0, <1>2, <1>3, <2>1, <2>2
    <2>4. QED BY <2>3 DEF LostOnlyToStaleText, Lost
  <1>11. BilledOnce'
    <2>1. \A s \in billed : req'[s] = req[s]
      BY <1>1, <1>2 DEF Times, Done, TypeOK, Transactions
    <2>2. QED BY <1>0, <1>1, <1>2, <2>1 DEF BilledOnce, Overwrote
  <1>12. FilledIsBilled'
    BY <1>0, <1>1, <1>2 DEF FilledIsBilled, Ops
  <1>13. QED BY <1>4, <1>5, <1>6, <1>7, <1>8, <1>9, <1>10, <1>11, <1>12 DEF ReportInv

----------------------------------------------------------------------------
\* Opening a page, loading the row and giving up are such steps.
LEMMA OpenPageInv ==
    ASSUME ReportInv, NEW r \in Requests, NEW op \in Forms, OpenPage(r, op)
    PROVE  ReportInv'
  <1> DEFINE q == [Idle EXCEPT !.stage = "page", !.op = op, !.page = body, !.opened = clock]
  <1>1. TypeOK
    BY DEF ReportInv
  <1>2. q \in Transactions
    BY <1>1 DEF Transactions, Idle, Stages, Ops, TypeOK
  <1>3. req' = [req EXCEPT ![r] = q] /\ UNCHANGED <<row, clock>> /\ req[r].stage = "idle"
    BY DEF OpenPage
  <1>4. q.op = op /\ q.stage = "page" /\ q.page = body /\ q.opened = clock /\ q.loaded = 0
    BY DEF Idle
  <1> HIDE DEF q
  <1>5. TypeOK'
    BY <1>1, <1>2, <1>3 DEF TypeOK, row
  <1>6. req'[r] = q /\ \A s \in Requests : s # r => req'[s] = req[s]
    BY <1>1, <1>3 DEF TypeOK
  <1>7. Steps(r) /\ Moved(r)
    BY <1>1, <1>3, <1>4, <1>6 DEF Steps, Moved, TypeOK
  <1>8. QED BY <1>3, <1>5, <1>7, MoveInv

\* A request that loads the row: a form from its page, or another from nothing.
LEMMA LoadInv ==
    ASSUME ReportInv, NEW r \in Requests, NEW q \in Transactions,
           req' = [req EXCEPT ![r] = Seen(q)], UNCHANGED <<row, clock>>,
           \/ req[r].stage = "page" /\ q = req[r]
           \/ /\ req[r].stage = "idle" /\ q.op \notin Forms /\ q.opened = 0
              /\ q.op = "narrate" => q.inv \in Investigations
    PROVE  ReportInv'
  <1>1. TypeOK
    BY DEF ReportInv
  <1>2. /\ Seen(q) \in Transactions
        /\ Seen(q).stage = "loaded" /\ Seen(q).body = body /\ Seen(q).status = status
        /\ Seen(q).stamp = stamp /\ Seen(q).loaded = clock /\ Seen(q).op = q.op
        /\ Seen(q).page = q.page /\ Seen(q).opened = q.opened /\ Seen(q).inv = q.inv
    BY <1>1 DEF Transactions, Seen, Stages, TypeOK
  <1>3. req'[r] = Seen(q) /\ \A s \in Requests : s # r => req'[s] = req[s]
    BY <1>1 DEF TypeOK
  <1>4. TypeOK'
    BY <1>1, <1>2 DEF TypeOK, row
  <1>5. Steps(r)
    BY <1>1, <1>3 DEF Steps, TypeOK
  <1>6. Moved(r)
    BY <1>2, <1>3 DEF Moved, Forms, ReportInv, Times
  <1>7. QED BY <1>4, <1>5, <1>6, MoveInv

LEMMA LoadsInv ==
    ASSUME ReportInv, NEW r \in Requests, NEW op \in Generators,
           NEW v \in Investigations \cup {None},
           LoadForm(r) \/ LoadRevoke(r) \/ LoadGenerator(r, op, v)
    PROVE  ReportInv'
  <1>1. TypeOK
    BY DEF ReportInv
  <1>2. req[r] \in Transactions
    BY <1>1 DEF TypeOK
  <1>3. CASE LoadForm(r)
    BY <1>2, <1>3, LoadInv DEF LoadForm, ReportInv, Times
  <1>4. CASE LoadRevoke(r)
    <2> DEFINE q == [Idle EXCEPT !.op = "revoke"]
    <2>1. q \in Transactions /\ q.op = "revoke" /\ q.opened = 0
      BY DEF Transactions, Idle, Stages, Ops
    <2>2. req' = [req EXCEPT ![r] = Seen(q)] /\ UNCHANGED <<row, clock>> /\ req[r].stage = "idle"
      BY <1>4 DEF LoadRevoke
    <2> HIDE DEF q
    <2>3. QED BY <2>1, <2>2, LoadInv DEF Forms
  <1>5. CASE LoadGenerator(r, op, v)
    <2> DEFINE q == [Idle EXCEPT !.op = op, !.inv = v]
    <2>1. q \in Transactions /\ q.op = op /\ q.opened = 0 /\ q.inv = v
      BY DEF Transactions, Idle, Stages, Ops
    <2>2. req' = [req EXCEPT ![r] = Seen(q)] /\ UNCHANGED <<row, clock>> /\ req[r].stage = "idle"
          /\ (op = "narrate" <=> v # None)
      BY <1>5 DEF LoadGenerator
    <2> HIDE DEF q
    <2>3. QED BY <2>1, <2>2, LoadInv DEF Forms, Generators
  <1>6. QED BY <1>3, <1>4, <1>5

LEMMA AbandonInv == ASSUME ReportInv, NEW r \in Requests, Abandon(r) PROVE ReportInv'
  <1>1. TypeOK
    BY DEF ReportInv
  <1>2. req \in [Requests -> Transactions] /\ req[r] \in Transactions
    BY <1>1 DEF TypeOK
  <1>3. [req[r] EXCEPT !.stage = "ended"] \in Transactions
    BY <1>2 DEF Transactions, Stages
  <1>4. req' = [req EXCEPT ![r] = [req[r] EXCEPT !.stage = "ended"]]
        /\ UNCHANGED <<row, clock>> /\ req[r].stage \in {"page", "loaded"}
    BY <1>2 DEF Abandon
  <1>5. TypeOK'
    BY <1>1, <1>2, <1>3, <1>4 DEF TypeOK, row
  <1>6. /\ req'[r].stage = "ended" /\ req'[r].loaded = req[r].loaded
        /\ req'[r].opened = req[r].opened
        /\ \A s \in Requests : s # r => req'[s] = req[s]
    BY <1>2, <1>4 DEF Transactions
  <1>7. Steps(r) /\ Moved(r)
    BY <1>1, <1>4, <1>6 DEF Steps, Moved, TypeOK
  <1>8. QED BY <1>4, <1>5, <1>7, MoveInv

----------------------------------------------------------------------------
Same(r) == /\ req'[r].op = req[r].op /\ req'[r].inv = req[r].inv
           /\ req'[r].page = req[r].page /\ req'[r].opened = req[r].opened
           /\ req'[r].body = req[r].body /\ req'[r].status = req[r].status
           /\ req'[r].stamp = req[r].stamp /\ req'[r].loaded = req[r].loaded

\* A request keeps its type when it is committed.
LEMMA TypedCommit ==
    ASSUME NEW q \in Transactions, NEW st \in Stages, NEW n \in Nat
    PROVE  [q EXCEPT !.stage = st, !.at = n] \in Transactions
  BY DEF Transactions

\* A commit is later than everything before, and the request keeps what it had
\* in hand.
LEMMA CommitSteps ==
    ASSUME ReportInv, NEW r \in Requests, req[r].stage = "loaded", Commit(r)
    PROVE  /\ Steps(r) /\ Same(r) /\ clock' = clock + 1 /\ clock \in Nat
           /\ req' \in [Requests -> Transactions] /\ req \in [Requests -> Transactions]
           /\ req'[r].stage = "committed" /\ req'[r].at = clock + 1
           /\ req[r].loaded <= clock /\ req[r].opened <= clock
  <1>1. TypeOK /\ Times
    BY DEF ReportInv
  <1>2. /\ req \in [Requests -> Transactions] /\ req[r] \in Transactions
        /\ clock \in Nat /\ clock' = clock + 1
    BY <1>1 DEF TypeOK, Commit
  <1>3. [req[r] EXCEPT !.stage = "committed", !.at = clock + 1] \in Transactions
    <2>1. clock + 1 \in Nat /\ "committed" \in Stages
      BY <1>2 DEF Stages
    <2>2. QED BY <1>2, <2>1, TypedCommit
  <1>4. req' = [req EXCEPT ![r] = [req[r] EXCEPT !.stage = "committed", !.at = clock + 1]]
    BY <1>2 DEF Commit
  <1>5. req' \in [Requests -> Transactions]
    BY <1>2, <1>3, <1>4
  <1>6. /\ Same(r) /\ req'[r].stage = "committed" /\ req'[r].at = clock + 1
        /\ \A s \in Requests : s # r => req'[s] = req[s]
    BY <1>2, <1>4 DEF Same, Transactions
  <1>7. Steps(r)
    BY <1>2, <1>6 DEF Steps
  <1>8. QED BY <1>1, <1>2, <1>5, <1>6, <1>7 DEF Times

\* A commit keeps what was said of the committed requests and adds its own.
LEMMA CommitTimes ==
    ASSUME ReportInv, NEW r \in Requests, req[r].stage = "loaded", Commit(r),
           billed' \in SUBSET (billed \cup {r}),
           \/ stamp' \in {stamp, None}
           \/ stamp' = r /\ req[r].op = "release"
    PROVE  Times'
  <1>1. Times
    BY DEF ReportInv
  <1>2. /\ Steps(r) /\ Same(r) /\ clock' = clock + 1 /\ clock \in Nat
        /\ req' \in [Requests -> Transactions] /\ req \in [Requests -> Transactions]
        /\ req'[r].stage = "committed" /\ req'[r].at = clock + 1
        /\ req[r].loaded <= clock /\ req[r].opened <= clock
    BY CommitSteps
  <1>3. ASSUME NEW s \in Requests
        PROVE  (/\ req[s].loaded <= clock /\ req[s].opened <= clock
                /\ req[s].stage = "committed" => /\ req[s].loaded < req[s].at
                                                 /\ req[s].at <= clock
                /\ s \in billed => req[s].stage = "committed"
                /\ req[s].stage = "page" => req[s].op \in Forms
                /\ req[s].stage = "loaded" /\ req[s].op = "narrate"
                     => req[s].inv \in Investigations)'
    <2>1. req[s] \in Transactions /\ req[s].loaded \in Nat /\ req[s].opened \in Nat
          /\ req[s].at \in Nat
      BY <1>2 DEF Transactions
    <2>2. CASE s = r
      BY <1>2, <2>1, <2>2 DEF Same
    <2>3. CASE s # r
      BY <1>1, <1>2, <2>1, <2>3 DEF Steps, Times
    <2>4. QED BY <2>2, <2>3
  <1>4. (stamp # None => stamp \in Done({"release"}))'
    BY <1>1, <1>2 DEF Times, Done, Steps, Same
  <1>5. QED BY <1>3, <1>4 DEF Times

\* What a commit adds or overwrites is not older than the copies in hand, or
\* is lost.
LEMMA CommitSeenText ==
    ASSUME ReportInv, NEW r \in Requests, req[r].stage = "loaded", Commit(r), TypeOK'
    PROVE  SeenText'
  <1>1. TypeOK /\ SeenText /\ Times
    BY DEF ReportInv
  <1>2. /\ Steps(r) /\ clock' = clock + 1 /\ clock \in Nat
        /\ req' \in [Requests -> Transactions] /\ req \in [Requests -> Transactions]
        /\ req'[r].stage = "committed" /\ req'[r].at = clock + 1
    BY CommitSteps
  <1>3. \A s \in Done(Ops) : Lost(s) => Lost(s)'
    BY <1>1, <1>2, Kept
  <1> SUFFICES ASSUME NEW x \in Requests, NEW s \in Done(Ops \ {"clear", "revoke"})'
               PROVE  (/\ req[x].stage \in {"page", "loaded"} /\ req[x].op \in Forms
                          /\ req[s].at <= req[x].opened => s \in req[x].page \/ Lost(s)
                       /\ req[x].stage = "loaded" /\ req[s].at <= req[x].loaded
                            => s \in req[x].body \/ Lost(s))'
    BY DEF SeenText
  <1>4. /\ req[x].opened \in Nat /\ req[x].loaded \in Nat
        /\ req[x].opened <= clock /\ req[x].loaded <= clock
    BY <1>1, <1>2 DEF Transactions, Times
  <1>5. CASE x = r
    BY <1>2, <1>5
  <1>6. CASE x # r /\ s = r
    BY <1>2, <1>4, <1>6 DEF Steps
  <1>7. CASE x # r /\ s # r
    <2>1. s \in Done(Ops \ {"clear", "revoke"}) /\ s \in Done(Ops)
          /\ req'[s] = req[s] /\ req'[x] = req[x]
      BY <1>2, <1>7 DEF Done, Steps
    <2>2. QED BY <1>1, <1>3, <2>1 DEF SeenText
  <1>8. QED BY <1>5, <1>6, <1>7

\* The status: a release, a withdrawal, or neither.
Releases(r) == /\ req[r].op = "release" /\ stamp' = r /\ body' = Text(r)
               /\ status' = IF req[r].status = "draft" THEN "released" ELSE status

Withdraws(r) == req[r].op \in Withdrawals /\ Withdraw(r)

Ignores(r) == req[r].op \in Generators /\ UNCHANGED <<status, stamp>>

\* A commit releases, withdraws or leaves the status it loaded.
LEMMA CommitStatus ==
    ASSUME ReportInv, NEW r \in Requests, req[r].stage = "loaded", Commit(r), TypeOK',
           Releases(r) \/ Withdraws(r) \/ Ignores(r),
           req[r].op = "revoke" => req[r].status = "released"
    PROVE  SeenStatus' /\ OnlyReleasedText' /\ StampedDraft'
  <1>1. TypeOK /\ SeenStatus /\ Times /\ OnlyReleasedText /\ StampedDraft
    BY DEF ReportInv
  <1>2. /\ Steps(r) /\ Same(r) /\ clock' = clock + 1 /\ clock \in Nat
        /\ req' \in [Requests -> Transactions] /\ req \in [Requests -> Transactions]
        /\ req'[r].stage = "committed" /\ req'[r].at = clock + 1
        /\ req[r].loaded <= clock
    BY CommitSteps
  <1>3. /\ Withdrawals \in SUBSET Ops /\ Generators \in SUBSET Ops
        /\ Forms \in SUBSET Ops /\ {"release"} \in SUBSET Ops
    BY DEF Withdrawals, Ops, Forms
  <1>4. \A op \in SUBSET Ops : \A w \in Done(op) :
           w # r /\ req'[w] = req[w] /\ w \in Done(op)'
    BY <1>1, <1>2, Kept
  <1>5. \A op \in SUBSET Ops : req[r].op \in op => r \in Done(op)'
    BY <1>2 DEF Done, Same
  <1>6. /\ status \in {"draft", "released"} /\ status' \in {"draft", "released"}
        /\ req[r].status \in {"draft", "released"}
        /\ \A s \in Requests : req[s].loaded \in Nat /\ req[s].at \in Nat
    BY <1>1, <1>2 DEF TypeOK, Transactions
  <1>7. /\ req[r].status = "released" => req[r].stamp # None
        /\ req[r].status = "draft" /\ status = "released"
             => stamp # None /\ req[r].loaded < req[stamp].at
        /\ req[r].status = "released" /\ status = "draft"
             => \E w \in Done(Withdrawals) : req[r].loaded < req[w].at
    BY <1>1 DEF SeenStatus
  <1>8. stamp # None => /\ stamp \in Requests /\ stamp # r /\ req'[stamp] = req[stamp]
                        /\ req[stamp].op = "release" /\ req[stamp].at <= clock
                        /\ Text(stamp)' = Text(stamp) \/ stamp' # stamp
    <2> SUFFICES ASSUME stamp # None
                 PROVE  /\ stamp \in Requests /\ stamp # r /\ req'[stamp] = req[stamp]
                        /\ req[stamp].op = "release" /\ req[stamp].at <= clock
                        /\ Text(stamp)' = Text(stamp) \/ stamp' # stamp
      OBVIOUS
    <2>1. stamp \in Done({"release"})
      BY <1>1 DEF Times
    <2>2. stamp # r /\ req'[stamp] = req[stamp]
      BY <1>3, <1>4, <2>1
    <2>3. stamp \in Requests /\ req[stamp].op = "release" /\ req[stamp].at <= clock
      BY <1>1, <2>1 DEF Done, Times
    <2>4. QED BY <2>2, <2>3 DEF Text, Generators
  <1>9. CASE Releases(r)
    <2>1. stamp' = r /\ req'[stamp'] = req'[r] /\ stamp' # None
      BY <1>9 DEF Releases
    <2>2. SeenStatus'
      <3> SUFFICES ASSUME NEW s \in Requests, (req[s].stage = "loaded")'
                   PROVE  (/\ req[s].status = "released" => req[s].stamp # None
                           /\ req[s].status = "draft" /\ status = "released"
                                => stamp # None /\ req[s].loaded < req[stamp].at
                           /\ req[s].status = "released" /\ status = "draft"
                                => \E w \in Done(Withdrawals) : req[s].loaded < req[w].at)'
        BY DEF SeenStatus
      <3>1. s # r /\ req'[s] = req[s] /\ req[s].loaded <= clock
        BY <1>1, <1>2 DEF Steps, Times
      <3>2. req[s].loaded < req'[stamp'].at
        BY <1>2, <1>6, <2>1, <3>1
      <3>3. status' = "draft" => status = "draft"
        BY <1>6, <1>9 DEF Releases
      <3>4. req[s].status = "released" /\ status = "draft"
               => \E w \in Done(Withdrawals)' : req'[s].loaded < req'[w].at
        BY <1>1, <1>3, <1>4, <3>1 DEF SeenStatus
      <3>5. req[s].status = "released" => req[s].stamp # None
        BY <1>1, <3>1 DEF SeenStatus
      <3>6. QED BY <2>1, <3>1, <3>2, <3>3, <3>4, <3>5
    <2>3. OnlyReleasedText'
      <3>1. Text(r)' = Text(r)
        BY <1>2, <1>9 DEF Releases, Text, Same, Generators
      <3>2. (body = Text(stamp))'
        <4>1. \A y : y = r => Text(y)' = Text(r)'
          OBVIOUS
        <4>2. QED BY <1>9, <2>1, <3>1, <4>1 DEF Releases, Text
      <3>3. QED BY <2>1, <3>2 DEF OnlyReleasedText
    <2>4. StampedDraft'
      <3> SUFFICES ASSUME status' = "draft"
                   PROVE  \E w \in Done(Withdrawals)' : Overwrote(r, w)'
        BY <2>1 DEF StampedDraft, Withdrawals, Overwrote
      <3>1. req[r].status = "released" /\ status = "draft"
        BY <1>6, <1>9 DEF Releases
      <3>2. PICK w \in Done(Withdrawals) : req[r].loaded < req[w].at
        BY <1>7, <3>1
      <3>3. req[w].at <= clock /\ req[w].at \in Nat
        BY <1>1, <1>6 DEF Times, Done
      <3>4. w \in Done(Withdrawals)' /\ req'[w] = req[w]
        BY <1>3, <1>4
      <3>5. QED BY <1>2, <3>2, <3>3, <3>4 DEF Overwrote, Same
    <2>5. QED BY <2>2, <2>3, <2>4
  <1>10. CASE Withdraws(r)
    <2>1. /\ status' = IF req[r].status = "released" THEN "draft" ELSE status
          /\ req[r].status = "released" => stamp' = None
          /\ req[r].status = "draft" => stamp' = stamp
      BY <1>7, <1>10 DEF Withdraws, Withdraw
    <2>2. r \in Done(Withdrawals)'
      BY <1>3, <1>5, <1>10 DEF Withdraws
    <2>3. SeenStatus'
      <3> SUFFICES ASSUME NEW s \in Requests, (req[s].stage = "loaded")'
                   PROVE  (/\ req[s].status = "released" => req[s].stamp # None
                           /\ req[s].status = "draft" /\ status = "released"
                                => stamp # None /\ req[s].loaded < req[stamp].at
                           /\ req[s].status = "released" /\ status = "draft"
                                => \E w \in Done(Withdrawals) : req[s].loaded < req[w].at)'
        BY DEF SeenStatus
      <3>1. s # r /\ req'[s] = req[s] /\ req[s].loaded <= clock
        BY <1>1, <1>2 DEF Steps, Times
      <3>2. req'[s].loaded < req'[r].at
        BY <1>2, <1>6, <3>1
      <3>3. req[s].status = "released" => req[s].stamp # None
        BY <1>1, <3>1 DEF SeenStatus
      <3>4. status' = "released" => status = "released" /\ stamp' = stamp
        BY <1>6, <2>1
      <3>5. req[s].status = "draft" /\ status = "released"
               => stamp # None /\ req[s].loaded < req[stamp].at
        BY <1>1, <3>1 DEF SeenStatus
      <3>6. QED BY <1>8, <2>2, <3>1, <3>2, <3>3, <3>4, <3>5
    <2>4. OnlyReleasedText'
      <3> SUFFICES ASSUME status' = "released"
                   PROVE  /\ stamp' # None
                          /\ \E w \in Done(Forms)' : Overwrote(w, stamp)'
        BY DEF OnlyReleasedText
      <3>1. status = "released" /\ stamp' = stamp /\ req[r].status = "draft"
        BY <1>6, <2>1
      <3>2. stamp # None /\ req[r].loaded < req[stamp].at
        BY <1>7, <3>1
      <3>3. req[r].op \in Forms
        BY <1>10, <3>1 DEF Withdraws, Withdrawals, Forms
      <3>4. r \in Done(Forms)'
        BY <1>3, <1>5, <3>3
      <3>5. req'[r].loaded < req'[stamp].at /\ req'[stamp].at < req'[r].at
        BY <1>2, <1>6, <1>8, <3>2 DEF Same
      <3>6. QED BY <3>1, <3>2, <3>4, <3>5 DEF Overwrote
    <2>5. StampedDraft'
      <3> SUFFICES ASSUME status' = "draft", stamp' # None
                   PROVE  \E w \in Done(Withdrawals)' : Overwrote(stamp, w)'
        BY DEF StampedDraft, Withdrawals
      <3>1. req[r].status = "draft" /\ status = "draft" /\ stamp' = stamp
        BY <1>6, <2>1
      <3>2. PICK w \in Done(Withdrawals) : Overwrote(stamp, w)
        BY <1>1, <3>1 DEF StampedDraft, Withdrawals
      <3>3. w \in Done(Withdrawals)' /\ req'[w] = req[w] /\ req'[stamp] = req[stamp]
        BY <1>3, <1>4, <1>8, <3>1
      <3>4. QED BY <3>1, <3>2, <3>3 DEF Overwrote
    <2>6. QED BY <2>3, <2>4, <2>5
  <1>11. CASE Ignores(r)
    <2>1. status' = status /\ stamp' = stamp
      BY <1>11 DEF Ignores
    <2>2. SeenStatus'
      <3> SUFFICES ASSUME NEW s \in Requests, (req[s].stage = "loaded")'
                   PROVE  (/\ req[s].status = "released" => req[s].stamp # None
                           /\ req[s].status = "draft" /\ status = "released"
                                => stamp # None /\ req[s].loaded < req[stamp].at
                           /\ req[s].status = "released" /\ status = "draft"
                                => \E w \in Done(Withdrawals) : req[s].loaded < req[w].at)'
        BY DEF SeenStatus
      <3>1. s # r /\ req'[s] = req[s]
        BY <1>2 DEF Steps
      <3>2. /\ req[s].status = "released" => req[s].stamp # None
            /\ req[s].status = "draft" /\ status = "released"
                 => stamp # None /\ req[s].loaded < req[stamp].at
            /\ req[s].status = "released" /\ status = "draft"
                 => \E w \in Done(Withdrawals) : req[s].loaded < req[w].at
        BY <1>1, <3>1 DEF SeenStatus
      <3>3. QED BY <1>3, <1>4, <1>8, <2>1, <3>1, <3>2
    <2>3. OnlyReleasedText'
      <3> SUFFICES ASSUME status' = "released"
                   PROVE  /\ stamp' # None
                          /\ \E w \in Done(Generators)' : (req[w].at > req[stamp].at)'
        BY DEF OnlyReleasedText
      <3>1. stamp # None
        BY <1>1, <2>1 DEF OnlyReleasedText
      <3>2. r \in Done(Generators)'
        BY <1>3, <1>5, <1>11 DEF Ignores
      <3>3. req'[r].at > req'[stamp].at
        BY <1>2, <1>6, <1>8, <3>1
      <3>4. QED BY <2>1, <3>1, <3>2, <3>3
    <2>4. StampedDraft'
      <3> SUFFICES ASSUME status' = "draft", stamp' # None
                   PROVE  \E w \in Done(Withdrawals)' : Overwrote(stamp, w)'
        BY DEF StampedDraft, Withdrawals
      <3>1. PICK w \in Done(Withdrawals) : Overwrote(stamp, w)
        BY <1>1, <2>1 DEF StampedDraft, Withdrawals
      <3>2. w \in Done(Withdrawals)' /\ req'[w] = req[w] /\ req'[stamp] = req[stamp]
        BY <1>3, <1>4, <1>8, <2>1
      <3>3. QED BY <2>1, <3>1, <3>2 DEF Overwrote
    <2>5. QED BY <2>2, <2>3, <2>4
  <1>12. QED BY <1>9, <1>10, <1>11

\* The commit of a text loses only what its request had not seen.
LEMMA CommitText ==
    ASSUME ReportInv, NEW r \in Requests, req[r].stage = "loaded", Commit(r), TypeOK',
           \/ req[r].op # "revoke" /\ WriteBody(r)
           \/ req[r].op = "revoke" /\ body' = body
    PROVE  LostOnlyToStaleText'
  <1>1. TypeOK /\ SeenText /\ Times /\ LostOnlyToStaleText
    BY DEF ReportInv
  <1>2. /\ Steps(r) /\ Same(r) /\ clock' = clock + 1 /\ clock \in Nat
        /\ req' \in [Requests -> Transactions] /\ req \in [Requests -> Transactions]
        /\ req'[r].stage = "committed" /\ req'[r].at = clock + 1
    BY CommitSteps
  <1>3. \A s \in Done(Ops) : Lost(s) => Lost(s)'
    BY <1>1, <1>2, Kept
  <1>4. req[r].op \in Ops /\ req[r].opened \in Nat /\ req[r].loaded \in Nat
        /\ r \in Done(Ops)'
    BY <1>2 DEF Transactions, Done, Same
  <1> SUFFICES ASSUME NEW s \in Done(Ops \ {"clear", "revoke"})'
               PROVE  s \in body' \/ Lost(s)'
    BY DEF LostOnlyToStaleText, Lost
  <1>5. CASE s = r
    BY <1>2, <1>5 DEF WriteBody, Text, Done, Same
  <1>6. CASE s # r
    <2>1. /\ s \in Done(Ops \ {"clear", "revoke"}) /\ s \in Done(Ops) /\ s \in Requests
          /\ req'[s] = req[s] /\ req[s].at \in Nat /\ req[s].at <= clock
      BY <1>1, <1>2, <1>6 DEF Done, Steps, Transactions, Times
    <2>2. s \in body \/ Lost(s)
      BY <1>1, <2>1 DEF LostOnlyToStaleText, Lost
    <2>3. req'[r].at > req'[s].at
      BY <1>2, <2>1
    <2>4. CASE body' = body
      BY <1>3, <2>1, <2>2, <2>4
    <2>5. CASE req[r].op = "clear"
      BY <1>2, <1>4, <2>3, <2>5 DEF Lost, Same
    <2>6. CASE body' = Text(r) /\ req[r].op \in Generators
      <3>1. body' = (req[r].body \ Block(r)) \cup {r}
        BY <2>6 DEF Text, Generators
      <3>2. CASE s \in Block(r)
        <4>1. s \in Block(r)'
          BY <1>2, <2>1, <3>2 DEF Block, Same
        <4>2. QED BY <1>2, <1>4, <2>3, <2>6, <4>1 DEF Lost, Same
      <3>3. CASE req[s].at > req[r].loaded
        <4>1. Overwrote(r, s)'
          BY <1>2, <2>1, <2>3, <3>3 DEF Overwrote, Same
        <4>2. QED BY <1>2, <1>4, <2>3, <2>6, <4>1 DEF Lost, Same
      <3>4. CASE s \notin Block(r) /\ req[s].at <= req[r].loaded
        <4>1. s \in req[r].body \/ Lost(s)
          BY <1>1, <2>1, <3>4 DEF SeenText
        <4>2. QED BY <1>3, <2>1, <3>1, <3>4, <4>1
      <3>5. QED BY <1>4, <2>1, <3>2, <3>3, <3>4
    <2>7. CASE body' = Text(r) /\ req[r].op \in {"save", "release"}
      <3>1. body' = req[r].page \cup {r} /\ req[r].op \in Forms
        BY <2>7 DEF Text, Generators, Forms
      <3>2. CASE req[r].opened < req[s].at
        BY <1>2, <1>4, <2>1, <2>3, <3>1, <3>2 DEF Lost, Same
      <3>3. CASE req[s].at <= req[r].opened
        <4>1. s \in req[r].page \/ Lost(s)
          BY <1>1, <2>1, <3>1, <3>3 DEF SeenText
        <4>2. QED BY <1>3, <2>1, <3>1, <4>1
      <3>4. QED BY <1>4, <2>1, <3>2, <3>3
    <2>8. CASE req[r].op = "revoke"
      BY <2>4, <2>8
    <2>9. QED
      BY <1>4, <2>4, <2>5, <2>6, <2>7, <2>8 DEF WriteBody, Ops, Forms
  <1>7. QED BY <1>5, <1>6

\* The bill: a form that may bill, or a request that bills nothing.
LEMMA CommitBill ==
    ASSUME ReportInv, NEW r \in Requests, req[r].stage = "loaded", Commit(r), TypeOK',
           \/ req[r].op \in Forms /\ WriteBody(r) /\ Bill(r)
           \/ req[r].op \in Generators /\ WriteBody(r) /\ billed' = billed
           \/ req[r].op = "revoke" /\ body' = body /\ billed' = billed
    PROVE  SeenBill' /\ BilledOnce' /\ FilledIsBilled'
  <1>1. TypeOK /\ SeenBill /\ Times /\ BilledOnce /\ FilledIsBilled
    BY DEF ReportInv
  <1>2. /\ Steps(r) /\ Same(r) /\ clock' = clock + 1 /\ clock \in Nat
        /\ req' \in [Requests -> Transactions] /\ req \in [Requests -> Transactions]
        /\ req'[r].stage = "committed" /\ req'[r].at = clock + 1
        /\ req[r].loaded <= clock
    BY CommitSteps
  <1>3. /\ \A s \in Done(Ops), t \in Nat : ClearedAfter(s, t) => ClearedAfter(s, t)'
        /\ \A op \in SUBSET Ops : \A w \in Done(op) :
              w # r /\ req'[w] = req[w] /\ w \in Done(op)'
    BY <1>1, <1>2, Kept
  <1>4. \A s \in billed : /\ s \in Done(Ops) /\ s # r /\ req'[s] = req[s]
                          /\ req[s].at \in Nat /\ req[s].at <= clock
    BY <1>1, <1>2 DEF Times, Done, Steps, TypeOK, Transactions
  <1>5. /\ Generators \in SUBSET Ops /\ {"clear"} \in SUBSET Ops
        /\ \A x \in Requests : req[x].loaded \in Nat /\ req[x].loaded <= clock
        /\ body \in SUBSET Requests /\ body' \in SUBSET Requests
    BY <1>1, <1>2 DEF Ops, Forms, Times, Transactions, TypeOK
  <1>6. FilledFirst => FilledFirst'
    BY <1>3, <1>4, <1>5 DEF FilledFirst, Bill
  <1>7. billed' = billed \/ (billed' = billed \cup {r} /\ req[r].body = {} /\ body' # {})
    BY DEF Bill, WriteBody
  <1>8. body' = {} => (body = {} /\ billed' = billed) \/ req[r].op = "clear"
    BY <1>7 DEF WriteBody, Text
  <1>9. ASSUME body' = {}, NEW s \in billed
        PROVE  (\E w \in Done({"clear"}) : req[s].at < req[w].at /\ req[w].at <= clock)'
    <2>1. CASE body = {}
      <3>1. PICK w \in Done({"clear"}) : req[s].at < req[w].at /\ req[w].at <= clock
        BY <1>1, <2>1 DEF SeenBill, ClearedAfter
      <3>2. w \in Done({"clear"})' /\ req'[w] = req[w] /\ req[w].at \in Nat
        BY <1>2, <1>3, <1>5, <3>1 DEF Done, Transactions
      <3>3. QED BY <1>2, <1>4, <3>1, <3>2
    <2>2. CASE req[r].op = "clear"
      BY <1>2, <1>4, <2>2 DEF Done, Same
    <2>3. QED BY <1>8, <1>9, <2>1, <2>2
  <1>10. SeenBill'
    <2>1. (body = {} => \A s \in billed : ClearedAfter(s, clock))'
      <3> SUFFICES ASSUME body' = {}, NEW s \in billed'
                   PROVE  (\E w \in Done({"clear"}) : req[s].at < req[w].at
                                                    /\ req[w].at <= clock)'
        BY DEF ClearedAfter
      <3>1. s \in billed
        BY <1>7
      <3>2. QED BY <1>9, <3>1
    <2>2. ASSUME NEW x \in Requests, (req[x].stage = "loaded")'
          PROVE  (/\ req[x].body = {} => \A s \in billed : req[s].at <= req[x].loaded
                                                 => ClearedAfter(s, req[x].loaded)
                  /\ req[x].body # {} => FilledFirst)'
      <3>1. x # r /\ req'[x] = req[x]
        BY <1>2, <2>2 DEF Steps
      <3>2. ASSUME NEW s \in billed', req[x].body = {}, req'[s].at <= req[x].loaded
            PROVE  ClearedAfter(s, req[x].loaded)'
        <4>1. s # r
          BY <1>2, <1>5, <3>2
        <4>2. s \in billed /\ req'[s] = req[s]
          BY <1>4, <1>7, <4>1
        <4>3. PICK w \in Done({"clear"}) : req[s].at < req[w].at /\ req[w].at <= req[x].loaded
          BY <1>1, <2>2, <3>1, <3>2, <4>2 DEF SeenBill, ClearedAfter
        <4>4. w \in Done({"clear"})' /\ req'[w] = req[w]
          BY <1>3, <1>5
        <4>5. QED BY <3>1, <4>2, <4>3, <4>4 DEF ClearedAfter
      <3>3. req[x].body # {} => FilledFirst
        BY <1>1, <2>2, <3>1 DEF SeenBill
      <3>4. QED BY <1>6, <3>1, <3>2, <3>3 DEF ClearedAfter
    <2>3. QED BY <2>1, <2>2 DEF SeenBill
  <1>11. BilledOnce'
    <2> SUFFICES ASSUME NEW s \in billed', NEW t \in billed', req'[s].at < req'[t].at
                 PROVE  \/ Overwrote(t, s)'
                        \/ \E w \in Done(Ops)' : /\ req'[s].at < req'[w].at
                                                 /\ req'[w].at < req'[t].at
                                                 /\ req'[w].op = "clear"
      BY DEF BilledOnce
    <2>1. s # r
      BY <1>2, <1>4, <1>7
    <2>2. s \in billed /\ req'[s] = req[s]
      BY <1>4, <1>7, <2>1
    <2>3. CASE t # r
      <3>1. t \in billed /\ req'[t] = req[t]
        BY <1>4, <1>7, <2>3
      <3>2. \/ Overwrote(t, s)
            \/ \E w \in Done(Ops) : /\ req[s].at < req[w].at /\ req[w].at < req[t].at
                                    /\ req[w].op = "clear"
        BY <1>1, <2>2, <3>1 DEF BilledOnce
      <3>3. \A w \in Done(Ops) : req'[w] = req[w] /\ w \in Done(Ops)'
        BY <1>3
      <3>4. QED BY <2>2, <3>1, <3>2, <3>3 DEF Overwrote
    <2>4. CASE t = r
      <3>1. req[r].body = {}
        BY <1>4, <1>7, <2>4
      <3>2. CASE req[s].at <= req[r].loaded
        <4>1. PICK w \in Done({"clear"}) : req[s].at < req[w].at /\ req[w].at <= req[r].loaded
          BY <1>1, <2>2, <3>1, <3>2 DEF SeenBill, ClearedAfter
        <4>2. w \in Done(Ops) /\ req[w].op = "clear" /\ req[w].at \in Nat
          BY <1>2 DEF Done, Ops, Forms, Transactions
        <4>3. req'[w] = req[w] /\ w \in Done(Ops)'
          BY <1>3, <4>2
        <4>4. QED BY <1>2, <1>5, <2>2, <2>4, <4>1, <4>2, <4>3
      <3>3. CASE req[r].loaded < req[s].at
        BY <1>2, <1>4, <2>2, <2>4, <3>3 DEF Overwrote, Same
      <3>4. QED BY <1>4, <1>5, <2>2, <3>2, <3>3
    <2>5. QED BY <2>3, <2>4
  <1>12. FilledIsBilled'
    <2> SUFFICES ASSUME body' # {} PROVE FilledFirst'
      BY DEF FilledIsBilled, FilledFirst
    <2>1. CASE req[r].body # {}
      BY <1>1, <1>6, <2>1 DEF SeenBill
    <2>2. CASE body' = body
      BY <1>1, <1>6, <2>2 DEF FilledIsBilled, FilledFirst
    <2>3. CASE req[r].body = {} /\ req[r].op \in Forms /\ body' = Text(r)
      <3>1. billed' = billed \cup {r}
        BY <2>3 DEF Bill, Forms, Generators
      <3>2. QED BY <3>1 DEF FilledFirst
    <2>4. CASE req[r].body = {} /\ req[r].op \in Generators
      BY <1>2, <2>4 DEF FilledFirst, Done, Same
    <2>5. QED BY <2>1, <2>2, <2>3, <2>4 DEF WriteBody
  <1>13. QED BY <1>10, <1>11, <1>12

----------------------------------------------------------------------------
\* The row keeps its type.
LEMMA TypedCommitRow ==
    ASSUME TypeOK, NEW r \in Requests, req' \in [Requests -> Transactions],
           clock' \in Nat, body' \in {body, Text(r)}, status' \in {"draft", "released"},
           stamp' \in {stamp, None, r}, billed' \in SUBSET (billed \cup {r}),
           narrative' \in [Investigations -> Requests \cup {None}]
    PROVE  TypeOK'
  <1>1. req[r].page \in SUBSET Requests /\ req[r].body \in SUBSET Requests
    BY DEF TypeOK, Transactions
  <1>2. Text(r) \in SUBSET Requests
    BY <1>1 DEF Text
  <1>3. QED BY <1>2 DEF TypeOK

\* Each of the five commits keeps the invariant.
LEMMA CommitInv ==
    ASSUME ReportInv, NEW r \in Requests,
           Save(r) \/ Release(r) \/ Revoke(r) \/ Regenerate(r) \/ Narrate(r)
    PROVE  ReportInv'
  <1>1. TypeOK /\ Times
    BY DEF ReportInv
  <1>2. req[r].stage = "loaded" /\ Commit(r)
    BY DEF Save, Release, Revoke, Regenerate, Narrate
  <1>3. /\ clock' \in Nat /\ req' \in [Requests -> Transactions]
        /\ req[r].status \in {"draft", "released"}
    BY <1>2, CommitSteps DEF Transactions
  <1>4. body' \in {body, Text(r)}
    BY DEF Save, Release, Revoke, Regenerate, Narrate, WriteBody
  <1>5. /\ billed' \in SUBSET (billed \cup {r})
        /\ narrative' \in [Investigations -> Requests \cup {None}]
    BY <1>1 DEF Save, Release, Revoke, Regenerate, Narrate, Bill, TypeOK, Times
  <1>6. /\ status' \in {"draft", "released"} /\ stamp' \in {stamp, None, r}
        /\ stamp' \in {stamp, None} \/ (stamp' = r /\ req[r].op = "release")
    BY <1>1 DEF Save, Release, Revoke, Regenerate, Narrate, Withdraw, TypeOK
  <1>7. TypeOK'
    BY <1>1, <1>3, <1>4, <1>5, <1>6, TypedCommitRow
  <1>8. /\ Releases(r) \/ Withdraws(r) \/ Ignores(r)
        /\ req[r].op = "revoke" => req[r].status = "released"
    BY DEF Save, Release, Revoke, Regenerate, Narrate, Releases, Withdraws, Ignores,
           Withdrawals, Generators, WriteBody, Text
  <1>9. \/ req[r].op \in Forms /\ WriteBody(r) /\ Bill(r)
        \/ req[r].op \in Generators /\ WriteBody(r) /\ billed' = billed
        \/ req[r].op = "revoke" /\ body' = body /\ billed' = billed
    BY DEF Save, Release, Revoke, Regenerate, Narrate, Forms, Generators
  <1>10. \/ req[r].op # "revoke" /\ WriteBody(r)
         \/ req[r].op = "revoke" /\ body' = body
    BY <1>9 DEF Forms, Generators
  <1>11. Times'
    BY <1>2, <1>5, <1>6, CommitTimes
  <1>12. SeenText'
    BY <1>2, <1>7, CommitSeenText
  <1>13. SeenStatus' /\ OnlyReleasedText' /\ StampedDraft'
    BY <1>2, <1>7, <1>8, CommitStatus
  <1>14. LostOnlyToStaleText'
    BY <1>2, <1>7, <1>10, CommitText
  <1>15. SeenBill' /\ BilledOnce' /\ FilledIsBilled'
    BY <1>2, <1>7, <1>9, CommitBill
  <1>16. QED BY <1>7, <1>11, <1>12, <1>13, <1>14, <1>15 DEF ReportInv

\* The invariant of the report says nothing of other variables.
LEMMA ReportStutter == ASSUME ReportInv, UNCHANGED vars PROVE ReportInv'
  <1>1. UNCHANGED <<body, status, stamp, narrative, billed, req, clock>>
    BY DEF vars
  <1>2. TypeOK' /\ Times'
    BY <1>1 DEF ReportInv, TypeOK, Times, Done
  <1>3. /\ \A op : Done(op)' = Done(op)
        /\ \A s : Lost(s)' = Lost(s) /\ \A t : ClearedAfter(s, t)' = ClearedAfter(s, t)
    BY <1>1 DEF Done, Lost, ClearedAfter, Overwrote, Block
  <1>4. SeenStatus' /\ SeenText'
    BY <1>1, <1>3 DEF ReportInv, SeenStatus, SeenText
  <1>5. SeenBill'
    BY <1>1 DEF ReportInv, SeenBill, ClearedAfter, FilledFirst, Done
  <1>6. OnlyReleasedText' /\ StampedDraft' /\ FilledIsBilled'
    BY <1>1 DEF ReportInv, OnlyReleasedText, StampedDraft, FilledIsBilled, Done, Overwrote,
         Text,
                Block
  <1>7. LostOnlyToStaleText' /\ BilledOnce'
    BY <1>1 DEF ReportInv, LostOnlyToStaleText, BilledOnce, Done, Overwrote, Block
  <1>8. QED BY <1>2, <1>4, <1>5, <1>6, <1>7 DEF ReportInv

\* Every step on the report keeps its invariant.
LEMMA ReportStep == ReportInv /\ [Next]_vars => ReportInv'
  <1> SUFFICES ASSUME ReportInv, [Next]_vars PROVE ReportInv'
    OBVIOUS
  <1>1. CASE UNCHANGED vars
    BY <1>1, ReportStutter
  <1>2. ASSUME NEW r \in Requests, NEW op \in Forms, OpenPage(r, op) PROVE ReportInv'
    BY <1>2, OpenPageInv
  <1>3. ASSUME NEW r \in Requests, LoadForm(r) \/ LoadRevoke(r) PROVE ReportInv'
    BY <1>3, LoadsInv DEF Generators
  <1>4. ASSUME NEW r \in Requests, NEW op \in Generators,
               NEW v \in Investigations \cup {None}, LoadGenerator(r, op, v)
        PROVE  ReportInv'
    BY <1>4, LoadsInv
  <1>5. ASSUME NEW r \in Requests,
               Save(r) \/ Release(r) \/ Revoke(r) \/ Regenerate(r) \/ Narrate(r)
        PROVE  ReportInv'
    BY <1>5, CommitInv
  <1>6. ASSUME NEW r \in Requests, Abandon(r) PROVE ReportInv'
    BY <1>6, AbandonInv
  <1>7. QED BY <1>1, <1>2, <1>3, <1>4, <1>5, <1>6 DEF Next

\* The invariant of the report holds in every state.
LEMMA ReportInvariance == Spec => []ReportInv
  <1>1. ReportInv /\ [Next]_vars => ReportInv'
    BY ReportStep
  <1>2. QED BY ReportInit, <1>1, PTL DEF Spec

----------------------------------------------------------------------------
(***************************************************************************)
(* The status of a case.  The inductive invariant adds to the properties   *)
(* that the copy a request holds is the row unless it is marked old, and   *)
(* that a transition or an edit goes from the copied status to a next one  *)
(* of the table.                                                           *)
(***************************************************************************)
\* What a request that loaded the case holds.
LifeCopies ==
    \A u \in Users : lifeReq[u].stage = "loaded" =>
        /\ ~lifeReq[u].old => /\ lifeReq[u].status = caseStatus
                              /\ lifeReq[u].ended = ended
                              /\ lifeReq[u].reason = reason
        /\ lifeReq[u].op # "form" => <<lifeReq[u].status, lifeReq[u].to>> \in Life!Table

LifePages == \A u \in Users : lifeReq[u].stage = "page" => lifeReq[u].op = "form"

LifeInv == Life!TypeOK /\ LifeCopies /\ LifePages /\ Life!EndFollowsStatus /\ Life!ReasonFollowsStatus

LifeLoads == \E u \in Users :
            \/ \E to \in Life!Statuses \cup Life!Options :
                  Life!LoadTransition(u, to) \/ Life!LoadEdit(u, to) \/ Life!OpenForm(u, to)
            \/ Life!LoadForm(u) \/ Life!Abandon(u)

LifeWrites(u) == Life!Transition(u) \/ Life!Edit(u) \/ Life!SaveForm(u)

\* Requests keep their shape when they are asked for, copied and aged.
LEMMA LifeAsked ==
    ASSUME NEW op \in Life!Ops, NEW to \in Life!Statuses \cup Life!Options
    PROVE  Life!Asked(op, to) \in Life!Pending
  BY DEF Life!Asked, Life!Idle, Life!Pending, Life!Statuses, Life!Options, Life!Ops

\* A request that loads the case holds a copy of the row, and is what it was
\* otherwise.
LEMMA LifeSeen ==
    ASSUME Life!TypeOK, NEW q \in Life!Pending
    PROVE  /\ Life!Seen(q) \in Life!Pending
           /\ Life!Seen(q).stage = "loaded" /\ Life!Seen(q).op = q.op /\ Life!Seen(q).to = q.to
           /\ Life!Seen(q).status = caseStatus /\ Life!Seen(q).ended = ended /\ Life!Seen(q).reason = reason
           /\ Life!Seen(q).old = q.old
  BY DEF Life!Seen, Life!Pending, Life!TypeOK, Life!Ops

\* A request keeps its type when its copy gets old, when its page is opened
\* and when it ends.
LEMMA LifeAged ==
    ASSUME NEW q \in Life!Pending, NEW b \in BOOLEAN
    PROVE  [q EXCEPT !.old = b] \in Life!Pending
  BY DEF Life!Pending

LEMMA LifePaged ==
    ASSUME NEW q \in Life!Pending
    PROVE  [q EXCEPT !.stage = "page"] \in Life!Pending
  BY DEF Life!Pending

LEMMA LifeIdle == Life!Idle \in Life!Pending /\ Life!Idle.stage = "idle"
  BY DEF Life!Idle, Life!Pending, Life!Statuses, Life!Options, Life!Ops

\* The initial state.
LEMMA LifeInit == Life!Init => LifeInv
<1> SUFFICES ASSUME Life!Init PROVE LifeInv
  OBVIOUS
<1>1. Life!TypeOK
  BY LifeIdle DEF Life!Init, Life!TypeOK, Life!Statuses
<1>2. LifeCopies /\ LifePages
  BY LifeIdle DEF Life!Init, LifeCopies, LifePages
<1>3. Life!EndFollowsStatus /\ Life!ReasonFollowsStatus
  BY DEF Life!Init, Life!EndFollowsStatus, Life!ReasonFollowsStatus, Life!Finished
<1> QED
  BY <1>1, <1>2, <1>3 DEF LifeInv

\* Loading and leaving write nothing, and a fresh copy is the row.
LEMMA LifeLoadsKeep == ASSUME LifeInv, LifeLoads PROVE LifeInv'
<1> USE DEF LifeInv
<1>1. Life!row' = Life!row /\ broken' = broken
  BY DEF LifeLoads, Life!LoadTransition, Life!LoadEdit, Life!OpenForm, Life!LoadForm,
       Life!Abandon, Life!row
<1>0. \E u \in Users, q \in Life!Pending :
         /\ lifeReq' = [lifeReq EXCEPT ![u] = q]
         /\ q.stage = "page" => q.op = "form"
         /\ q.stage = "loaded" =>
               /\ q.status = caseStatus /\ q.ended = ended /\ q.reason = reason
               /\ q.op # "form" => <<q.status, q.to>> \in Life!Table
  <2>1. PICK u \in Users :
            \/ \E to \in Life!Statuses \cup Life!Options :
                  Life!LoadTransition(u, to) \/ Life!LoadEdit(u, to) \/ Life!OpenForm(u, to)
            \/ Life!LoadForm(u) \/ Life!Abandon(u)
    BY DEF LifeLoads
  <2>2. ASSUME NEW to \in Life!Statuses \cup Life!Options, Life!LoadTransition(u, to)
        PROVE  \E q \in Life!Pending : /\ lifeReq' = [lifeReq EXCEPT ![u] = q]
                                       /\ q.stage = "loaded" /\ q.status = caseStatus
                                       /\ q.ended = ended /\ q.reason = reason
                                       /\ <<q.status, q.to>> \in Life!Table
    <3>1. Life!Asked("transition", to) \in Life!Pending /\ Life!Asked("transition", to).to = to
      BY LifeAsked DEF Life!Ops, Life!Asked, Life!Idle
    <3> QED
      BY <2>2, <3>1, LifeSeen DEF Life!LoadTransition
  <2>3. ASSUME NEW to \in Life!Statuses \cup Life!Options, Life!LoadEdit(u, to)
        PROVE  \E q \in Life!Pending : /\ lifeReq' = [lifeReq EXCEPT ![u] = q]
                                       /\ q.stage = "loaded" /\ q.status = caseStatus
                                       /\ q.ended = ended /\ q.reason = reason
                                       /\ <<q.status, q.to>> \in Life!Table
    <3>1. Life!Asked("edit", to) \in Life!Pending /\ Life!Asked("edit", to).to = to
      BY LifeAsked DEF Life!Ops, Life!Asked, Life!Idle
    <3> QED
      BY <2>3, <3>1, LifeSeen DEF Life!LoadEdit
  <2>4. ASSUME NEW to \in Life!Statuses \cup Life!Options, Life!OpenForm(u, to)
        PROVE  \E q \in Life!Pending : /\ lifeReq' = [lifeReq EXCEPT ![u] = q]
                                       /\ q.stage = "page" /\ q.op = "form"
    <3>1. Life!Asked("form", to) \in Life!Pending
      BY LifeAsked DEF Life!Ops
    <3>2. LET q == [Life!Asked("form", to) EXCEPT !.stage = "page"]
          IN  q \in Life!Pending /\ q.stage = "page" /\ q.op = "form"
      BY <3>1, LifePaged DEF Life!Asked, Life!Idle
    <3> QED
      BY <2>4, <3>2 DEF Life!OpenForm
  <2>5. ASSUME Life!LoadForm(u)
        PROVE  \E q \in Life!Pending : /\ lifeReq' = [lifeReq EXCEPT ![u] = q]
                                       /\ q.stage = "loaded" /\ q.status = caseStatus
                                       /\ q.ended = ended /\ q.reason = reason
                                       /\ q.op = "form"
    <3>1. lifeReq[u] \in Life!Pending /\ lifeReq[u].op = "form"
      BY <2>5 DEF Life!LoadForm, Life!TypeOK, LifePages
    <3>2. lifeReq' = [lifeReq EXCEPT ![u] = Life!Seen(lifeReq[u])]
      BY <2>5 DEF Life!LoadForm
    <3> DEFINE q == Life!Seen(lifeReq[u])
    <3>3. /\ q \in Life!Pending /\ q.stage = "loaded" /\ q.status = caseStatus
          /\ q.ended = ended /\ q.reason = reason /\ q.op = "form"
      BY <3>1, LifeSeen
    <3> HIDE DEF q
    <3> QED
      BY <3>2, <3>3 DEF q
  <2>6. ASSUME Life!Abandon(u)
        PROVE  \E q \in Life!Pending : lifeReq' = [lifeReq EXCEPT ![u] = q] /\ q.stage = "idle"
    BY <2>6, LifeIdle DEF Life!Abandon
  <2>7. CASE \E to \in Life!Statuses \cup Life!Options :
                Life!LoadTransition(u, to) \/ Life!LoadEdit(u, to) \/ Life!OpenForm(u, to)
    <3>1. PICK to \in Life!Statuses \cup Life!Options :
              Life!LoadTransition(u, to) \/ Life!LoadEdit(u, to) \/ Life!OpenForm(u, to)
      BY <2>7
    <3>2. \E q \in Life!Pending : /\ lifeReq' = [lifeReq EXCEPT ![u] = q]
                                  /\ \/ /\ q.stage = "loaded" /\ q.status = caseStatus
                                       /\ q.ended = ended /\ q.reason = reason
                                       /\ <<q.status, q.to>> \in Life!Table
                                     \/ q.stage = "page" /\ q.op = "form"
      BY <3>1, <2>2, <2>3, <2>4
    <3> QED
      BY <3>2
  <2>8. CASE Life!LoadForm(u) \/ Life!Abandon(u)
    BY <2>8, <2>5, <2>6
  <2> QED
    BY <2>1, <2>7, <2>8
<1>9. PICK u \in Users, q \in Life!Pending :
         /\ lifeReq' = [lifeReq EXCEPT ![u] = q]
         /\ q.stage = "page" => q.op = "form"
         /\ q.stage = "loaded" =>
               /\ q.status = caseStatus /\ q.ended = ended /\ q.reason = reason
               /\ q.op # "form" => <<q.status, q.to>> \in Life!Table
  BY <1>0
<1>2. Life!TypeOK'
  BY <1>1, <1>9 DEF Life!TypeOK, Life!row
<1>3. LifeCopies'
  BY <1>1, <1>9 DEF LifeCopies, Life!TypeOK, Life!row
<1>4. LifePages'
  BY <1>9 DEF LifePages, Life!TypeOK
<1>5. Life!EndFollowsStatus' /\ Life!ReasonFollowsStatus'
  BY <1>1 DEF Life!EndFollowsStatus, Life!ReasonFollowsStatus, Life!row
<1> QED
  BY <1>2, <1>3, <1>4, <1>5

\* A commit leaves no copy that is taken for the row.
LEMMA LifeLeft ==
    ASSUME LifeInv, NEW u \in Users, Life!Leave(u)
    PROVE  lifeReq' \in [Users -> Life!Pending] /\ LifeCopies' /\ LifePages'
<1> USE DEF LifeInv
<1>1. ASSUME NEW v \in Users
      PROVE  /\ lifeReq'[v] \in Life!Pending
             /\ lifeReq'[v].stage = "loaded" => /\ lifeReq'[v].old
                                                /\ lifeReq'[v].op = lifeReq[v].op
                                                /\ lifeReq'[v].status = lifeReq[v].status
                                                /\ lifeReq'[v].to = lifeReq[v].to
                                                /\ lifeReq[v].stage = "loaded"
             /\ lifeReq'[v].stage = "page" => lifeReq[v].stage = "page" /\ lifeReq'[v].op = lifeReq[v].op
  <2>1. lifeReq[v] \in Life!Pending
    BY DEF Life!TypeOK
  <2>2. CASE v = u
    BY <2>2, LifeIdle DEF Life!Leave
  <2>3. CASE v # u
    <3> DEFINE b == lifeReq[v].old \/ lifeReq[v].stage = "loaded"
    <3>1. lifeReq'[v] = [lifeReq[v] EXCEPT !.old = b]
      BY <2>3 DEF Life!Leave
    <3>2. b \in BOOLEAN
      BY <2>1 DEF Life!Pending
    <3>3. lifeReq'[v] \in Life!Pending
      BY <2>1, <3>1, <3>2, LifeAged
    <3> QED
      BY <2>1, <3>1, <3>3 DEF Life!Pending
  <2> QED
    BY <2>2, <2>3
<1>2. lifeReq' \in [Users -> Life!Pending]
  BY <1>1 DEF Life!Leave
<1>3. LifeCopies'
  BY <1>1 DEF LifeCopies
<1>4. LifePages'
  BY <1>1 DEF LifePages
<1> QED
  BY <1>2, <1>3, <1>4

\* What the table says of the end date and the reason.
LEMMA LifeWritten ==
    ASSUME LifeInv, NEW u \in Users, LifeWrites(u)
    PROVE  /\ caseStatus' \in Life!Statuses \cup Life!Options
           /\ ended' \in BOOLEAN /\ reason' \in BOOLEAN
           /\ broken' \in SUBSET {"form", "edit", "race"}
           /\ Life!EndFollowsStatus' /\ Life!ReasonFollowsStatus' /\ Life!StatusStep
<1> USE DEF LifeInv
<1>1. /\ lifeReq[u] \in Life!Pending /\ lifeReq[u].stage = "loaded"
      /\ lifeReq[u].to \in Life!Statuses \cup Life!Options /\ lifeReq[u].ended \in BOOLEAN
      /\ lifeReq[u].reason \in BOOLEAN /\ lifeReq[u].old \in BOOLEAN /\ lifeReq[u].op \in Life!Ops
  BY DEF LifeWrites, Life!Transition, Life!Edit, Life!SaveForm, Life!TypeOK, Life!Pending
<1>2. /\ ~lifeReq[u].old => /\ lifeReq[u].status = caseStatus /\ lifeReq[u].ended = ended
                            /\ lifeReq[u].reason = reason
      /\ lifeReq[u].op # "form" => <<lifeReq[u].status, lifeReq[u].to>> \in Life!Table
  BY <1>1 DEF LifeCopies
<1>3. /\ ended \in BOOLEAN /\ reason \in BOOLEAN
      /\ broken \in SUBSET {"form", "edit", "race"}
  BY DEF Life!TypeOK
<1>4. CASE Life!Transition(u)
  <2>1. lifeReq[u].op = "transition" /\ caseStatus' = lifeReq[u].to /\ Life!End(u) /\ Life!Explain(u)
    BY <1>4 DEF Life!Transition
  <2>2. broken' = IF Life!Settles(u) THEN {} ELSE broken \cup Life!Late(u)
    BY <1>4 DEF Life!Transition
  <2>3. ended' \in BOOLEAN /\ reason' \in BOOLEAN
    BY <1>1, <1>3, <2>1 DEF Life!End, Life!Explain
  <2>4. broken' \in SUBSET {"form", "edit", "race"}
    BY <1>3, <2>2 DEF Life!Late
  <2>5. CASE lifeReq[u].old
    <3>1. "race" \in broken'
      BY <2>2, <2>5 DEF Life!Settles, Life!Late
    <3> QED
      BY <1>1, <2>1, <2>3, <2>4, <3>1 DEF Life!EndFollowsStatus, Life!ReasonFollowsStatus,
           Life!StatusStep
  <2>6. CASE ~lifeReq[u].old
    <3>1. <<caseStatus, caseStatus'>> \in Life!Table
      BY <1>2, <2>1, <2>6
    <3>2. Life!EndFollowsStatus'
      BY <1>2, <1>3, <2>1, <2>2, <2>6, <3>1
         DEF Life!EndFollowsStatus, Life!End, Life!Settles, Life!Late, Life!Table, Life!Finished
    <3>3. Life!ReasonFollowsStatus'
      BY <1>2, <1>3, <2>1, <2>2, <2>6, <3>1
         DEF Life!ReasonFollowsStatus, Life!Explain, Life!Settles, Life!Late, Life!Table,
             Life!Finished
    <3> QED
      BY <1>1, <2>1, <2>3, <2>4, <3>1, <3>2, <3>3 DEF Life!StatusStep
  <2> QED
    BY <1>1, <2>5, <2>6
<1>5. CASE Life!Edit(u)
  <2>1. /\ lifeReq[u].op = "edit" /\ caseStatus' = lifeReq[u].to /\ Life!End(u) /\ reason' = reason
        /\ broken' = broken \cup {"edit"} \cup Life!Late(u)
    BY <1>5 DEF Life!Edit
  <2>2. /\ ended' \in BOOLEAN /\ broken' \in SUBSET {"form", "edit", "race"}
        /\ "edit" \in broken'
    BY <1>1, <1>3, <2>1 DEF Life!End, Life!Late
  <2>3. CASE lifeReq[u].old
    <3>1. "race" \in broken'
      BY <2>1, <2>3 DEF Life!Late
    <3> QED
      BY <1>1, <1>3, <2>1, <2>2, <3>1 DEF Life!EndFollowsStatus, Life!ReasonFollowsStatus,
           Life!StatusStep
  <2>4. CASE ~lifeReq[u].old
    <3>1. <<caseStatus, caseStatus'>> \in Life!Table
      BY <1>2, <2>1, <2>4
    <3>2. Life!EndFollowsStatus'
      BY <1>2, <1>3, <2>1, <2>4, <3>1 DEF Life!EndFollowsStatus, Life!End, Life!Late,
           Life!Table, Life!Finished
    <3> QED
      BY <1>1, <1>3, <2>1, <2>2, <3>1, <3>2 DEF Life!ReasonFollowsStatus, Life!StatusStep
  <2> QED
    BY <1>1, <2>3, <2>4
<1>6. CASE Life!SaveForm(u)
  <2>1. /\ caseStatus' = lifeReq[u].to /\ ended' = ended /\ reason' = reason
        /\ broken' = broken \cup {"form"} \cup Life!Late(u)
    BY <1>6 DEF Life!SaveForm
  <2>2. broken' \in SUBSET {"form", "edit", "race"} /\ "form" \in broken'
    BY <1>3, <2>1 DEF Life!Late
  <2> QED
    BY <1>1, <1>3, <2>1, <2>2 DEF Life!EndFollowsStatus, Life!ReasonFollowsStatus,
         Life!StatusStep
<1> QED
  BY <1>4, <1>5, <1>6 DEF LifeWrites

\* Every step keeps the invariant and follows the table.
LEMMA LifeStep == ASSUME LifeInv, [Life!Next]_Life!vars PROVE LifeInv' /\ Life!StatusStep
<1>1. CASE UNCHANGED Life!vars
  BY <1>1 DEF Life!vars, LifeInv, Life!TypeOK, LifeCopies, LifePages, Life!EndFollowsStatus,
       Life!ReasonFollowsStatus, Life!StatusStep
<1>2. CASE LifeLoads
  <2>1. caseStatus' = caseStatus
    BY <1>2 DEF LifeLoads, Life!LoadTransition, Life!LoadEdit, Life!OpenForm, Life!LoadForm,
         Life!Abandon, Life!row
  <2> QED
    BY <1>2, <2>1, LifeLoadsKeep DEF Life!StatusStep
<1>3. ASSUME NEW u \in Users, LifeWrites(u) PROVE LifeInv' /\ Life!StatusStep
  <2>1. Life!Leave(u)
    BY <1>3 DEF LifeWrites, Life!Transition, Life!Edit, Life!SaveForm
  <2> QED
    BY <1>3, <2>1, LifeLeft, LifeWritten DEF LifeInv, Life!TypeOK
<1>4. CASE Life!Next
  <2>1. LifeLoads \/ \E u \in Users : LifeWrites(u)
    BY <1>4 DEF Life!Next, LifeLoads, LifeWrites
  <2> QED
    BY <2>1, <1>2, <1>3
<1> QED
  BY <1>1, <1>4

\* The invariant of the status holds in every state.
LEMMA LifeInvariance == Life!Spec => []LifeInv
  BY LifeInit, LifeStep, PTL DEF Life!Spec

----------------------------------------------------------------------------
(***************************************************************************)
(* The hierarchy of cases.  A walk nobody disturbed has seen cases whose   *)
(* parents it has seen as well, or is about to see, and it never sees its  *)
(* own case: a circle that it closes has another link, among the cases     *)
(* that were seen, and is one without the link it stores.                  *)
(***************************************************************************)
\* What a walk holds.
WalkInv ==
    \A u \in Users :
        /\ walk[u].stage # "idle" => walk[u].case \in Cases /\ walk[u].to # walk[u].case
        /\ walk[u].stage # "walking" => walk[u].seen = {}
        /\ walk[u].stage = "walking" => /\ walk[u].to \in walk[u].seen
                                        /\ walk[u].case \notin walk[u].seen

\* What an undisturbed walk has seen leads to the case it sees next.
TrueWalks ==
    \A u \in Users : walk[u].stage = "walking" /\ ~walk[u].old =>
        \A s \in walk[u].seen :
            /\ parent[s] \in walk[u].seen \cup {walk[u].up}
            /\ \A C \in Tree!Closed : s \in C => walk[u].up \in C \cup {None}

TreeInv == Tree!TypeOK /\ WalkInv /\ TrueWalks /\ NoCircle

\* The session forgets a request that ended.
LEMMA TreeIdle == /\ Tree!Idle \in Tree!Walks
                  /\ Tree!Idle.stage = "idle" /\ Tree!Idle.seen = {}
  BY DEF Tree!Idle, Tree!Walks

\* No case has a parent at first.
LEMMA TreeInit == Tree!Init => TreeInv
  <1> SUFFICES ASSUME Tree!Init PROVE TreeInv
    OBVIOUS
  <1>1. /\ parent = [c \in Cases |-> None] /\ late = {}
        /\ walk = [u \in Users |-> Tree!Idle]
    BY DEF Tree!Init
  <1>2. Tree!TypeOK
    BY <1>1, TreeIdle DEF Tree!TypeOK
  <1>3. WalkInv /\ TrueWalks
    BY <1>1, TreeIdle DEF WalkInv, TrueWalks
  <1>4. NoCircle
    BY <1>1, RowsAssumption DEF NoCircle, Tree!NoCircle
  <1> QED BY <1>2, <1>3, <1>4 DEF TreeInv

\* A request that loads a case, reads one or ends touches its own walk.
LEMMA TreeRests ==
    ASSUME TreeInv, NEW u \in Users, NEW q \in Tree!Walks,
           walk' = [walk EXCEPT ![u] = q], UNCHANGED <<parent, late>>,
           q.stage # "idle" => q.case \in Cases /\ q.to # q.case,
           q.stage # "walking" => q.seen = {},
           q.stage = "walking" => /\ q.to \in q.seen
                                  /\ q.case \notin q.seen,
           q.stage = "walking" /\ ~q.old =>
               \A s \in q.seen :
                   /\ parent[s] \in q.seen \cup {q.up}
                   /\ \A C \in Tree!Closed : s \in C => q.up \in C \cup {None}
    PROVE  TreeInv'
  <1>1. parent' = parent /\ late' = late /\ Tree!Closed' = Tree!Closed
    BY DEF Tree!Closed
  <1>2. /\ walk' \in [Users -> Tree!Walks] /\ walk'[u] = q
        /\ \A v \in Users \ {u} : walk'[v] = walk[v]
    BY DEF TreeInv, Tree!TypeOK
  <1>3. Tree!TypeOK'
    BY <1>1, <1>2 DEF TreeInv, Tree!TypeOK
  <1>4. WalkInv'
    BY <1>2 DEF TreeInv, WalkInv
  <1>5. TrueWalks'
    <2> SUFFICES ASSUME NEW v \in Users, walk'[v].stage = "walking", ~walk'[v].old,
                        NEW s \in walk'[v].seen
                 PROVE  /\ parent[s] \in walk'[v].seen \cup {walk'[v].up}
                        /\ \A C \in Tree!Closed : s \in C => walk'[v].up \in C \cup {None}
      BY <1>1 DEF TrueWalks
    <2>1. CASE v = u
      BY <2>1, <1>2
    <2>2. CASE v # u
      BY <2>2, <1>2 DEF TreeInv, TrueWalks
    <2> QED BY <2>1, <2>2
  <1>6. NoCircle'
    BY <1>1 DEF TreeInv, NoCircle, Tree!NoCircle
  <1> QED BY <1>3, <1>4, <1>5, <1>6 DEF TreeInv

\* Reading the row of s.
LEMMA TreeReads ==
    ASSUME TreeInv, NEW u \in Users, NEW s \in Cases, Tree!Read(u, s), UNCHANGED <<parent, late>>,
           walk[u].stage \in {"loaded", "walking"},
           s # walk[u].case,
           walk[u].stage = "loaded" => s = walk[u].to,
           walk[u].stage = "walking" => s = walk[u].up
    PROVE  TreeInv'
  <1> DEFINE q == [walk[u] EXCEPT !.stage = "walking", !.seen = @ \cup {s}, !.up = parent[s]]
  <1>1. walk[u] \in Tree!Walks /\ parent[s] \in Cases \cup {None}
    BY DEF TreeInv, Tree!TypeOK
  <1>2. /\ q \in Tree!Walks /\ q.stage = "walking" /\ q.case = walk[u].case /\ q.to = walk[u].to
        /\ q.seen = walk[u].seen \cup {s} /\ q.up = parent[s] /\ q.old = walk[u].old
    BY <1>1 DEF Tree!Walks
  <1>3. walk' = [walk EXCEPT ![u] = q]
    BY DEF Tree!Read, TreeInv, Tree!TypeOK
  <1>4. /\ q.case \in Cases /\ q.to # q.case
        /\ q.to \in q.seen /\ q.case \notin q.seen
    BY <1>2 DEF TreeInv, WalkInv
  <1>5. ASSUME ~q.old, NEW x \in q.seen
        PROVE  /\ parent[x] \in q.seen \cup {q.up}
               /\ \A C \in Tree!Closed : x \in C => q.up \in C \cup {None}
    <2>1. CASE x = s
      BY <2>1, <1>2 DEF Tree!Closed
    <2>2. CASE x # s
      <3>1. x \in walk[u].seen /\ walk[u].stage = "walking" /\ s = walk[u].up
        BY <2>2, <1>2 DEF TreeInv, WalkInv
      <3>2. /\ parent[x] \in walk[u].seen \cup {s}
            /\ \A C \in Tree!Closed : x \in C => s \in C \cup {None}
        BY <3>1, <1>2, <1>5 DEF TreeInv, TrueWalks
      <3>3. s # None
        BY RowsAssumption
      <3> QED BY <3>2, <3>3, <1>2 DEF Tree!Closed
    <2> QED BY <2>1, <2>2
  <1> HIDE DEF q
  <1> QED BY <1>2, <1>3, <1>4, <1>5, TreeRests

\* Cases that each have their parent among them, after the link from c to p
\* was stored on a walk W that leads from p to the top without meeting c.
LEMMA WalkedFirst ==
    ASSUME TreeInv, NEW c \in Cases, NEW p \in Cases \cup {None}, NEW W \in SUBSET Cases,
           parent' = [parent EXCEPT ![c] = p],
           p # None => p \in W /\ c \notin W /\ \A s \in W : parent[s] \in W \cup {None},
           NEW C \in (SUBSET Cases) \ {{}}, \A d \in C : parent'[d] \in C
    PROVE  C \cap (late \ {c}) # {}
  <1>1. /\ parent \in [Cases -> Cases \cup {None}] /\ parent'[c] = p
        /\ \A d \in Cases \ {c} : parent'[d] = parent[d]
    BY DEF TreeInv, Tree!TypeOK
  <1>2. CASE c \notin C
    <2>1. \A d \in C : parent[d] \in C
      BY <1>1, <1>2
    <2> QED BY <1>2, <2>1 DEF TreeInv, NoCircle, Tree!NoCircle
  <1>3. CASE c \in C
    <2>1. p \in C /\ p # None
      BY <1>1, <1>3, RowsAssumption
    <2> DEFINE D == C \cap W
    <2>2. D \in (SUBSET Cases) \ {{}} /\ c \notin D
      BY <2>1
    <2>3. \A d \in D : parent[d] \in D
      <3> SUFFICES ASSUME NEW d \in D PROVE parent[d] \in D
        OBVIOUS
      <3>1. parent[d] \in C
        BY <1>1, <2>2
      <3>2. parent[d] \in W
        BY <3>1, <2>1, RowsAssumption
      <3> QED BY <3>1, <3>2
    <2>4. D \cap late # {}
      BY <2>2, <2>3 DEF TreeInv, NoCircle, Tree!NoCircle
    <2> QED BY <2>2, <2>4
  <1> QED BY <1>2, <1>3

\* A link is stored: other walks are old from then on.
LEMMA TreeLinks ==
    ASSUME TreeInv, NEW u \in Users, Tree!Walked(u), walk[u].to # walk[u].own, Tree!SetParent(u)
    PROVE  TreeInv'
  <1> DEFINE c == walk[u].case
             p == walk[u].to
  <1>1. /\ parent' = [parent EXCEPT ![c] = p]
        /\ late' = IF walk[u].old THEN late \cup {c} ELSE late \ {c}
        /\ walk' = [v \in Users |-> IF v = u THEN Tree!Idle
                                    ELSE [walk[v] EXCEPT !.old = walk[v].stage # "idle"]]
    BY DEF Tree!SetParent
  <1>2. /\ walk[u] \in Tree!Walks /\ c \in Cases /\ p \in Cases \cup {None}
        /\ parent \in [Cases -> Cases \cup {None}] /\ late \in SUBSET Cases
    BY DEF TreeInv, Tree!TypeOK, Tree!Walked, WalkInv, Tree!Walks
  <1>3. \A v \in Users \ {u} :
           /\ walk'[v] \in Tree!Walks /\ walk'[v].stage = walk[v].stage
           /\ walk'[v].case = walk[v].case /\ walk'[v].to = walk[v].to
           /\ walk'[v].seen = walk[v].seen
           /\ walk'[v].stage # "idle" => walk'[v].old
    <2> SUFFICES ASSUME NEW v \in Users \ {u}
                 PROVE  /\ walk'[v] \in Tree!Walks /\ walk'[v].stage = walk[v].stage
                        /\ walk'[v].case = walk[v].case /\ walk'[v].to = walk[v].to
                        /\ walk'[v].seen = walk[v].seen
                        /\ walk'[v].stage # "idle" => walk'[v].old
      OBVIOUS
    <2>1. walk[v] \in Tree!Walks /\ walk'[v] = [walk[v] EXCEPT !.old = walk[v].stage # "idle"]
      BY <1>1 DEF TreeInv, Tree!TypeOK
    <2> QED BY <2>1 DEF Tree!Walks
  <1>4. walk'[u] = Tree!Idle /\ walk'[u] \in Tree!Walks /\ walk'[u].stage = "idle"
        /\ walk'[u].seen = {}
    BY <1>1, TreeIdle
  <1>5. Tree!TypeOK'
    <2>1. walk' \in [Users -> Tree!Walks]
      BY <1>1, <1>3, <1>4
    <2> QED BY <1>1, <1>2, <2>1 DEF Tree!TypeOK
  <1>6. WalkInv'
    BY <1>3, <1>4 DEF TreeInv, WalkInv
  <1>7. TrueWalks'
    BY <1>3, <1>4 DEF TrueWalks
  <1>8. NoCircle'
    <2> SUFFICES ASSUME NEW C \in (SUBSET Cases) \ {{}}, \A d \in C : parent'[d] \in C
                 PROVE  C \cap late' # {}
      BY DEF NoCircle, Tree!NoCircle
    <2>1. CASE ~walk[u].old
      <3>1. p # None => /\ p \in walk[u].seen /\ c \notin walk[u].seen
                        /\ \A s \in walk[u].seen : parent[s] \in walk[u].seen \cup {None}
        BY <2>1 DEF Tree!Walked, TreeInv, WalkInv, TrueWalks
      <3>2. walk[u].seen \in SUBSET Cases
        BY <1>2 DEF Tree!Walks
      <3>3. C \cap (late \ {c}) # {}
        BY <1>1, <1>2, <3>1, <3>2, WalkedFirst
      <3> QED BY <1>1, <2>1, <3>3
    <2>2. CASE walk[u].old /\ c \in C
      BY <1>1, <2>2
    <2>3. CASE walk[u].old /\ c \notin C
      <3>1. \A d \in C : parent[d] \in C
        BY <1>1, <1>2, <2>3
      <3> QED BY <1>1, <2>3, <3>1 DEF TreeInv, NoCircle, Tree!NoCircle
    <2> QED BY <2>1, <2>2, <2>3
  <1> QED BY <1>5, <1>6, <1>7, <1>8 DEF TreeInv

\* A request that ends without storing anything.
LEMMA TreeEnds ==
    ASSUME TreeInv, NEW u \in Users, walk' = [walk EXCEPT ![u] = Tree!Idle],
           UNCHANGED <<parent, late>>
    PROVE  TreeInv'
  BY TreeIdle, TreeRests

\* A request that loads its case has seen none above it.
LEMMA TreeLoads ==
    ASSUME TreeInv, NEW u \in Users, NEW c \in Cases, NEW p \in Cases \cup {None},
           Tree!Load(u, c, p)
    PROVE  TreeInv'
  <1> DEFINE q == [Tree!Idle EXCEPT !.stage = "loaded", !.case = c, !.to = p, !.own = parent[c]]
  <1>1. walk' = [walk EXCEPT ![u] = q] /\ p # c /\ UNCHANGED <<parent, late>>
    BY DEF Tree!Load
  <1>2. /\ q \in Tree!Walks /\ q.stage = "loaded" /\ q.case = c /\ q.to = p /\ q.seen = {}
    BY DEF Tree!Idle, Tree!Walks, TreeInv, Tree!TypeOK
  <1> HIDE DEF q
  <1> QED BY <1>1, <1>2, TreeRests

\* Every step on the hierarchy keeps it.
LEMMA TreeStep == TreeInv /\ [Tree!Next]_treeVars => TreeInv'
  <1> SUFFICES ASSUME TreeInv, [Tree!Next]_treeVars PROVE TreeInv'
    OBVIOUS
  <1>1. CASE UNCHANGED treeVars
    BY <1>1 DEF treeVars, TreeInv, Tree!TypeOK, WalkInv, TrueWalks, NoCircle, Tree!NoCircle,
                Tree!Closed
  <1>2. ASSUME NEW u \in Users, NEW c \in Cases, NEW p \in Cases \cup {None}, Tree!Load(u, c, p)
        PROVE  TreeInv'
    BY <1>2, TreeLoads
  <1>3. ASSUME NEW u \in Users, Tree!WalkFrom(u) PROVE TreeInv'
    <2>1. walk[u].to \in Cases /\ walk[u].to # walk[u].case /\ walk[u].stage = "loaded"
      BY <1>3 DEF Tree!WalkFrom, TreeInv, WalkInv, Tree!TypeOK, Tree!Walks
    <2> QED BY <1>3, <2>1, TreeReads DEF Tree!WalkFrom
  <1>4. ASSUME NEW u \in Users, Tree!WalkUp(u) PROVE TreeInv'
    <2>1. walk[u].up \in Cases /\ walk[u].up # walk[u].case /\ walk[u].stage = "walking"
      BY <1>4 DEF Tree!WalkUp, TreeInv, Tree!TypeOK, Tree!Walks
    <2> QED BY <1>4, <2>1, TreeReads DEF Tree!WalkUp
  <1>5. ASSUME NEW u \in Users, Tree!SetParent(u) PROVE TreeInv'
    <2>1. Tree!Walked(u)
      BY <1>5 DEF Tree!SetParent
    <2>2. CASE walk[u].to # walk[u].own
      BY <1>5, <2>1, <2>2, TreeLinks
    <2>3. CASE walk[u].to = walk[u].own
      BY <1>5, <2>3, TreeEnds DEF Tree!SetParent
    <2> QED BY <2>2, <2>3
  <1>6. ASSUME NEW u \in Users, Tree!Abandon(u) PROVE TreeInv'
    BY <1>6, TreeEnds DEF Tree!Abandon
  <1> QED BY <1>1, <1>2, <1>3, <1>4, <1>5, <1>6 DEF Tree!Next

\* A walk that comes back to a case has seen all that is above it.
LEMMA TreeEndless == TreeInv => EndlessOnlyOnCircle
  <1> SUFFICES ASSUME TreeInv, NEW u \in Users, walk[u].up \in walk[u].seen, ~walk[u].old
               PROVE  Tree!OnCircle(walk[u].up)
    BY DEF EndlessOnlyOnCircle, Tree!EndlessOnlyOnCircle
  <1>1. walk[u].stage = "walking" /\ walk[u].seen \in SUBSET Cases
    BY DEF TreeInv, WalkInv, Tree!TypeOK, Tree!Walks
  <1>2. parent[walk[u].up] \in walk[u].seen
    BY <1>1 DEF TreeInv, TrueWalks
  <1>3. ASSUME NEW C \in Tree!Closed, parent[walk[u].up] \in C PROVE walk[u].up \in C
    BY <1>1, <1>2, <1>3, RowsAssumption DEF TreeInv, TrueWalks
  <1> QED BY <1>1, <1>2, <1>3, RowsAssumption DEF Tree!OnCircle

\* The invariant of the hierarchy holds in every state.
LEMMA TreeInvariance == Tree!Spec => []TreeInv
  <1>1. treeVars = Tree!vars
    BY DEF treeVars, Tree!vars
  <1>2. TreeInv /\ [Tree!Next]_Tree!vars => TreeInv'
    BY <1>1, TreeStep DEF treeVars, Tree!vars
  <1> QED BY <1>2, TreeInit, PTL DEF Tree!Spec

----------------------------------------------------------------------------
(***************************************************************************)
(* Subscriptions and the purge.  The inductive invariant says which        *)
(* subscription a tenant has, what a scheduled deletion tells of its other *)
(* ones, and what the purge has gone past.                                 *)
(***************************************************************************)
LEMMA NoSub == None \notin Billing!Subs
  BY RowsAssumption DEF Billing!Subs

Excused(t) == odd[t] \cap {"rejoined", "swapped"} # {}

\* Live subscriptions of the tenant whose checkout was answered.
Bought(t) == {s \in Billing!LiveSubs(t) : Billing!Event("checkout", s) \in handled}

\* A tenant has a subscription that is its own and whose end has not been
\* answered, unless it came after that, and a paid plan only with one.
Owned ==
    \A t \in alive :
        /\ tenantRow[t].sub # None =>
              /\ tenantRow[t].sub \in Billing!Subs
              /\ stripe[tenantRow[t].sub].tenant = t /\ stripe[tenantRow[t].sub].state # "none"
              /\ "revived" \in odd[t] \/ Billing!Ends(tenantRow[t].sub) \notin handled
        /\ tenantRow[t].tier = "paid" /\ odd[t] \cap {"admin", "revived"} = {} => tenantRow[t].sub # None

\* What was bought and runs is the tenant's subscription, and no deletion of
\* the tenant is scheduled.
Counted ==
    \A t \in alive :
        /\ "swapped" \in odd[t] \/ \A s \in Bought(t) : tenantRow[t].sub = s
        /\ tenantRow[t].deletion = "none" \/ Excused(t) \/ Bought(t) = {}

Sent == \A e \in handled : stripe[e.sub].state # "none"

\* What the purge has picked and done.
PurgeFailed(t) == \E i \in DOMAIN job.walk : job.walk[i] = t
                /\ \E j \in i..Len(job.walk) : job.walk[j] \in job.failed

Purging ==
    /\ job.stage # "running" => job.todo = {} /\ job.done = {}
    /\ \A t \in job.done : \E i \in DOMAIN job.walk : job.walk[i] = t
    /\ job.stage \in {"running", "committed"} =>
          \A t \in (job.picked \cap alive) \ job.todo : t \in job.done \/ PurgeFailed(t)
    /\ \A t \in (job.todo \cup job.done) \cap alive :
          tenantRow[t].deletion # "none" \/ "overtaken" \in odd[t]

BillingInv == Billing!TypeOK /\ Sent /\ Owned /\ Counted /\ Purging

\* At first no tenant has a subscription, and the purge has picked nobody.
LEMMA BillingInit == Billing!Init => BillingInv
<1> SUFFICES ASSUME Billing!Init PROVE BillingInv
  OBVIOUS
<1>1. Billing!TypeOK
  BY DEF Billing!Init, Billing!TypeOK, Billing!NewTenant, Billing!Columns, Billing!NoJob,
       Billing!Subs
<1>2. Sent
  BY DEF Billing!Init, Sent
<1>3. Owned
  BY DEF Billing!Init, Owned, Billing!NewTenant
<1>4. Counted
  BY DEF Billing!Init, Counted, Billing!NewTenant, Bought
<1>5. Purging
  BY DEF Billing!Init, Purging, Billing!NoJob
<1> QED
  BY <1>1, <1>2, <1>3, <1>4, <1>5 DEF BillingInv

\* Stripe's own steps: a new subscription has had no event, and one that ends
\* is no longer live.
LEMMA StripeInv ==
    ASSUME BillingInv, \/ \E t \in Tenants, s \in Billing!Subs : Billing!Checkout(t, s)
                       \/ \E s \in Billing!Subs : Billing!CancelSubscription(s)
    PROVE  BillingInv'
<1> USE DEF BillingInv
<1>1. UNCHANGED <<alive, tenantRow, handled, job, odd>>
  BY DEF Billing!Checkout, Billing!CancelSubscription
<1>2. PICK s \in Billing!Subs, new \in [state : {"live", "canceled"}, tenant : Tenants \cup {None}] :
         /\ stripe' = [stripe EXCEPT ![s] = new]
         /\ stripe[s].state = "none" \/ (new.state = "canceled" /\ new.tenant = stripe[s].tenant)
  <2> DEFINE News == [state : {"live", "canceled"}, tenant : Tenants \cup {None}]
  <2>1. ASSUME NEW t \in Tenants, NEW s \in Billing!Subs, Billing!Checkout(t, s)
        PROVE  \E new \in News : stripe' = [stripe EXCEPT ![s] = new] /\ stripe[s].state = "none"
    <3>1. [state |-> "live", tenant |-> t] \in News
      OBVIOUS
    <3> QED
      BY <2>1, <3>1 DEF Billing!Checkout
  <2>2. ASSUME NEW s \in Billing!Subs, Billing!CancelSubscription(s)
        PROVE  \E new \in News : /\ stripe' = [stripe EXCEPT ![s] = new]
                                 /\ new.state = "canceled" /\ new.tenant = stripe[s].tenant
    <3>1. [stripe[s] EXCEPT !.state = "canceled"] \in News
      BY DEF Billing!TypeOK
    <3>2. [stripe[s] EXCEPT !.state = "canceled"].tenant = stripe[s].tenant
      BY DEF Billing!TypeOK
    <3>3. stripe' = [stripe EXCEPT ![s] = [stripe[s] EXCEPT !.state = "canceled"]]
      BY <2>2 DEF Billing!CancelSubscription
    <3>4. [stripe[s] EXCEPT !.state = "canceled"].state = "canceled"
      BY DEF Billing!TypeOK
    <3> QED
      BY <3>1, <3>2, <3>3, <3>4
  <2> QED
    BY <2>1, <2>2
<1>3. Billing!TypeOK' /\ Sent'
  BY <1>1, <1>2 DEF Billing!TypeOK, Sent
<1>4. Owned'
  BY <1>1, <1>2 DEF Owned, Billing!TypeOK, Billing!Ends, Billing!Event
<1>5. \A t \in alive : Bought(t)' \subseteq Bought(t)
  BY <1>1, <1>2 DEF Bought, Billing!LiveSubs, Billing!Live, Billing!Event, Billing!TypeOK, Sent
<1>6. Counted'
  BY <1>1, <1>5 DEF Counted, Excused
<1>7. Purging'
  BY <1>1 DEF Purging, PurgeFailed
<1> QED
  BY <1>3, <1>4, <1>6, <1>7

\* An event that finds no tenant, or one that shows nothing.
LEMMA DropInv ==
    ASSUME BillingInv, NEW k \in Billing!Kinds, NEW s \in Billing!Subs,
           Billing!DropEvent(Billing!Event(k, s))
    PROVE  BillingInv'
<1> USE DEF BillingInv
<1> DEFINE e == Billing!Event(k, s)
<1>1. /\ UNCHANGED <<alive, tenantRow, stripe, job, odd>> /\ Billing!FindTenant(e) = {}
      /\ e \in [kind : Billing!Kinds, sub : Billing!Subs] /\ e.kind = k /\ e.sub = s
      /\ handled' \in SUBSET (handled \cup {e}) /\ stripe[s].state # "none"
  BY DEF Billing!DropEvent, Billing!Event, Billing!Answered, Billing!MayArrive
<1>2. Billing!TypeOK' /\ Sent'
  BY <1>1 DEF Billing!TypeOK, Sent
<1>3. ASSUME NEW t \in alive, tenantRow[t].sub \in Billing!Subs, Billing!Ends(tenantRow[t].sub) = e PROVE FALSE
  BY <1>1, <1>3 DEF Billing!Ends, Billing!Event, Billing!FindTenant, Billing!Subscriber,
       Billing!Kinds
<1>4. Owned'
  BY <1>1, <1>3 DEF Owned
<1>5. \A t \in alive : Bought(t)' \subseteq Bought(t)
  BY <1>1 DEF Bought, Billing!LiveSubs, Billing!Live, Billing!Event, Billing!FindTenant
<1>6. Counted'
  BY <1>1, <1>5 DEF Counted, Excused
<1>7. Purging'
  BY <1>1 DEF Purging, PurgeFailed
<1> QED
  BY <1>2, <1>4, <1>6, <1>7

\* What a handler leaves in the row of the tenant t.
LEMMA Outcomes ==
    ASSUME BillingInv, NEW k \in Billing!Kinds, NEW s \in Billing!Subs, NEW t \in alive
    PROVE  LET new == Billing!Outcome(Billing!Event(k, s), tenantRow[t])
           IN  /\ new \in Billing!Columns
               /\ k = "checkout" => /\ new.sub = s /\ new.tier = "paid"
                                    /\ new.deletion = tenantRow[t].deletion
               /\ k = "active" => /\ new.sub = tenantRow[t].sub /\ new.deletion = "none"
               /\ k = "past_due" => /\ new.sub = tenantRow[t].sub
                                    /\ new.deletion = tenantRow[t].deletion
               /\ k = "failed" => /\ new.sub = tenantRow[t].sub /\ new.tier = "free"
                                  /\ new.deletion = tenantRow[t].deletion
               /\ k = "deleted" => /\ new.sub = None /\ new.tier = "free"
                                  /\ new.deletion = "set"
<1>1. tenantRow[t] \in Billing!Columns /\ Billing!Event(k, s).kind = k /\ Billing!Event(k, s).sub = s
  BY DEF BillingInv, Billing!TypeOK, Billing!Event
<1>2. k = "checkout" \/ k = "active" \/ k = "past_due" \/ k = "failed" \/ k = "deleted"
  BY DEF Billing!Kinds
<1> QED
  BY <1>1, <1>2 DEF Billing!Outcome, Billing!Columns

\* A delivery to a tenant; one the purge has picked is noted as overtaken.
LEMMA HandleInv ==
    ASSUME BillingInv, NEW k \in Billing!Kinds, NEW s \in Billing!Subs,
           Billing!HandleEvent(Billing!Event(k, s))
    PROVE  BillingInv'
<1> USE DEF BillingInv
<1> DEFINE e == Billing!Event(k, s)
<1>1. /\ UNCHANGED <<alive, stripe, job>> /\ stripe[s].state # "none"
      /\ k = "deleted" => stripe[s].state = "canceled"
      /\ e \in [kind : Billing!Kinds, sub : Billing!Subs] /\ e.kind = k /\ e.sub = s
      /\ handled' \in SUBSET (handled \cup {e})
      /\ k = "deleted" => handled' = handled \cup {e}
  BY DEF Billing!HandleEvent, Billing!Event, Billing!Answered, Billing!MayArrive
<1> DEFINE new(t) == Billing!Outcome(e, tenantRow[t])
           noted(t) == odd[t] \cup Billing!Noted(t, e)
<1>2. PICK t \in Billing!FindTenant(e) :
         /\ tenantRow' = [tenantRow EXCEPT ![t] = new(t)]
         /\ odd' = [odd EXCEPT ![t] =
                       IF new(t).deletion = "none" THEN noted(t) \ {"rejoined"} ELSE noted(t)]
  BY DEF Billing!HandleEvent
<1>3. /\ t \in alive /\ t \in Tenants
      /\ k = "checkout" => stripe[s].tenant = t
      /\ k \in {"active", "past_due", "deleted"} => tenantRow[t].sub = s
  BY <1>1, <1>2 DEF Billing!FindTenant, Billing!Subscriber, Billing!Customer, Billing!Kinds,
       Billing!TypeOK
<1>4. /\ new(t) \in Billing!Columns
      /\ k = "checkout" => /\ new(t).sub = s /\ new(t).tier = "paid"
                           /\ new(t).deletion = tenantRow[t].deletion
      /\ k = "active" => /\ new(t).sub = tenantRow[t].sub /\ new(t).deletion = "none"
      /\ k = "past_due" => new(t).sub = tenantRow[t].sub /\ new(t).deletion = tenantRow[t].deletion
      /\ k = "failed" => /\ new(t).sub = tenantRow[t].sub /\ new(t).tier = "free"
                         /\ new(t).deletion = tenantRow[t].deletion
      /\ k = "deleted" => new(t).sub = None /\ new(t).tier = "free" /\ new(t).deletion = "set"
  BY <1>3, Outcomes
<1>5. /\ Billing!Noted(t, e) \subseteq Billing!Oddities
      /\ "overtaken" \in Billing!Noted(t, e) <=> t \in job.todo \cup job.done
      /\ "rejoined" \in Billing!Noted(t, e) <=> k = "checkout" /\ tenantRow[t].deletion # "none"
      /\ "revived" \in Billing!Noted(t, e) <=> k = "checkout" /\ Billing!Ends(s) \in handled
      /\ "swapped" \in Billing!Noted(t, e) <=> k = "checkout" /\ tenantRow[t].sub \in Billing!LiveSubs(t) \ {s}
      /\ "admin" \notin Billing!Noted(t, e)
  BY <1>1 DEF Billing!Noted, Billing!Oddities, Billing!Ends
<1> HIDE DEF e, new, noted
<1>6. /\ tenantRow'[t] = new(t)
      /\ odd'[t] = IF new(t).deletion = "none" THEN noted(t) \ {"rejoined"} ELSE noted(t)
      /\ \A u \in Tenants : u # t => tenantRow'[u] = tenantRow[u] /\ odd'[u] = odd[u]
  BY <1>2, <1>3 DEF Billing!TypeOK
<1>7. Billing!TypeOK' /\ Sent'
  <2>1. odd[t] \subseteq Billing!Oddities
    BY <1>3 DEF Billing!TypeOK
  <2>2. odd'[t] \subseteq Billing!Oddities
    BY <1>5, <1>6, <2>1 DEF noted
  <2>3. odd' \in [Tenants -> SUBSET Billing!Oddities]
    BY <1>2, <1>3, <1>6, <2>2 DEF Billing!TypeOK
  <2>4. tenantRow' \in [Tenants -> Billing!Columns]
    BY <1>2, <1>3, <1>4 DEF Billing!TypeOK
  <2>5. handled' \in SUBSET [kind : Billing!Kinds, sub : Billing!Subs]
    BY <1>1 DEF Billing!TypeOK
  <2> QED
    BY <1>1, <2>3, <2>4, <2>5 DEF Billing!TypeOK, Sent
<1>8. /\ "admin" \in odd'[t] <=> "admin" \in odd[t]
      /\ "revived" \in odd'[t] <=> "revived" \in odd[t] \/ "revived" \in Billing!Noted(t, e)
      /\ "swapped" \in odd'[t] <=> "swapped" \in odd[t] \/ "swapped" \in Billing!Noted(t, e)
      /\ "overtaken" \in odd'[t] <=> "overtaken" \in odd[t] \/ "overtaken" \in Billing!Noted(t, e)
      /\ new(t).deletion # "none" =>
            ("rejoined" \in odd'[t] <=> "rejoined" \in odd[t] \/ "rejoined" \in Billing!Noted(t, e))
  BY <1>5, <1>6 DEF noted
<1>9. k = "checkout" \/ k = "active" \/ k = "past_due" \/ k = "failed" \/ k = "deleted"
  BY DEF Billing!Kinds
<1>10. Owned'
  <2>1. ASSUME NEW u \in alive, u # t, tenantRow[u].sub \in Billing!Subs,
               stripe[tenantRow[u].sub].tenant = u, Billing!Ends(tenantRow[u].sub) \notin handled
        PROVE  Billing!Ends(tenantRow[u].sub) \notin handled'
    <3>1. CASE Billing!Ends(tenantRow[u].sub) = e
      <4>1. k = "deleted" /\ tenantRow[u].sub = s
        BY <3>1 DEF Billing!Ends, Billing!Event, e
      <4> QED
        BY <1>3, <2>1, <4>1, NoSub DEF Owned
    <3> QED
      BY <1>1, <2>1, <3>1
  <2>2. ASSUME NEW u \in alive, u # t
        PROVE  /\ tenantRow'[u].sub # None =>
                     /\ tenantRow'[u].sub \in Billing!Subs /\ stripe[tenantRow'[u].sub].tenant = u
                     /\ stripe[tenantRow'[u].sub].state # "none"
                     /\ "revived" \in odd'[u] \/ Billing!Ends(tenantRow'[u].sub) \notin handled'
               /\ tenantRow'[u].tier = "paid" /\ odd'[u] \cap {"admin", "revived"} = {}
                     => tenantRow'[u].sub # None
    <3>1. tenantRow'[u] = tenantRow[u] /\ odd'[u] = odd[u]
      BY <1>6, <2>2 DEF Billing!TypeOK
    <3> QED
      BY <2>1, <2>2, <3>1 DEF Owned
  <2>3. k # "deleted" => \A r \in Billing!Subs : Billing!Ends(r) \in handled' <=> Billing!Ends(r) \in handled
    BY <1>1 DEF Billing!Ends, Billing!Event, e, Billing!Answered, Billing!HandleEvent
  <2>4. tenantRow'[t].sub # None =>
             /\ tenantRow'[t].sub \in Billing!Subs /\ stripe[tenantRow'[t].sub].tenant = t
             /\ stripe[tenantRow'[t].sub].state # "none"
             /\ "revived" \in odd'[t] \/ Billing!Ends(tenantRow'[t].sub) \notin handled'
    <3>1. CASE k = "checkout"
      BY <1>1, <1>3, <1>4, <1>5, <1>6, <1>8, <2>3, <3>1
    <3>2. CASE k = "active" \/ k = "past_due" \/ k = "failed"
      BY <1>3, <1>4, <1>6, <1>8, <2>3, <3>2 DEF Owned
    <3>3. CASE k = "deleted"
      BY <1>4, <1>6, <3>3
    <3> QED
      BY <1>9, <3>1, <3>2, <3>3
  <2>5. tenantRow'[t].tier = "paid" /\ odd'[t] \cap {"admin", "revived"} = {} => tenantRow'[t].sub # None
    <3>1. CASE k = "checkout"
      BY <1>4, <1>6, <3>1, NoSub
    <3>2. CASE k = "active" \/ k = "past_due"
      BY <1>3, <1>4, <1>6, <3>2, NoSub
    <3>3. CASE k = "failed" \/ k = "deleted"
      BY <1>4, <1>6, <3>3
    <3> QED
      BY <1>9, <3>1, <3>2, <3>3
  <2>6. alive' = alive /\ stripe' = stripe
    BY <1>1
  <2> QED
    BY <2>2, <2>4, <2>5, <2>6 DEF Owned, Billing!Ends
<1>11. Counted'
  <2>1. \A u \in alive : u # t => Bought(u)' \subseteq Bought(u)
    BY <1>1, <1>3 DEF Bought, Billing!LiveSubs, Billing!Live, Billing!Event, e
  <2>2. Bought(t)' \subseteq Bought(t) \cup (IF k = "checkout" THEN {s} ELSE {})
    BY <1>1 DEF Bought, Billing!LiveSubs, Billing!Live, Billing!Event, e
  <2>3. \A r \in Bought(t) \cup Bought(t)' : r \in Billing!LiveSubs(t)
    BY <1>1 DEF Bought, Billing!LiveSubs, Billing!Live
  <2>4. "swapped" \in odd'[t] \/ \A r \in Bought(t)' : tenantRow'[t].sub = r
    <3>1. CASE k = "checkout"
      <4>1. ASSUME NEW r \in Bought(t)', r # s PROVE "swapped" \in odd'[t]
        <5>1. r \in Bought(t) /\ r \in Billing!LiveSubs(t)
          BY <2>2, <2>3, <4>1
        <5>2. "swapped" \in odd[t] \/ tenantRow[t].sub = r
          BY <1>3, <5>1 DEF Counted
        <5> QED
          BY <1>5, <1>8, <3>1, <4>1, <5>1, <5>2
      <4> QED
        BY <1>4, <1>6, <3>1, <4>1
    <3>2. CASE k = "active" \/ k = "past_due" \/ k = "failed"
      BY <1>3, <1>4, <1>6, <1>8, <2>2, <3>2 DEF Counted
    <3>3. CASE k = "deleted"
      BY <1>1, <1>3, <1>8, <2>2, <2>3, <3>3 DEF Counted, Billing!LiveSubs, Billing!Live
    <3> QED
      BY <1>9, <3>1, <3>2, <3>3
  <2>5. tenantRow'[t].deletion = "none" \/ Excused(t)' \/ Bought(t)' = {}
    <3>1. CASE k = "checkout"
      BY <1>3, <1>4, <1>5, <1>6, <1>8, <3>1 DEF Excused
    <3>2. CASE k = "active"
      BY <1>4, <1>6, <3>2
    <3>3. CASE k = "past_due" \/ k = "failed"
      BY <1>3, <1>4, <1>6, <1>8, <2>2, <3>3 DEF Counted, Excused
    <3>4. CASE k = "deleted"
      <4>1. "swapped" \in odd[t] \/ Bought(t) = {}
        BY <1>1, <1>3, <2>3, <3>4 DEF Counted, Billing!LiveSubs, Billing!Live
      <4> QED
        BY <1>8, <2>2, <3>4, <4>1 DEF Excused
    <3> QED
      BY <1>9, <3>1, <3>2, <3>3, <3>4
  <2>6. ASSUME NEW u \in alive, u # t
        PROVE  /\ "swapped" \in odd'[u] \/ \A r \in Bought(u)' : tenantRow'[u].sub = r
               /\ tenantRow'[u].deletion = "none" \/ Excused(u)' \/ Bought(u)' = {}
    <3>1. tenantRow'[u] = tenantRow[u] /\ odd'[u] = odd[u]
      BY <1>6, <2>6 DEF Billing!TypeOK
    <3> QED
      BY <2>1, <2>6, <3>1 DEF Counted, Excused
  <2> QED
    BY <1>1, <2>4, <2>5, <2>6 DEF Counted
<1>12. Purging'
  <2>1. ASSUME NEW u \in (job.todo \cup job.done) \cap alive
        PROVE  tenantRow'[u].deletion # "none" \/ "overtaken" \in odd'[u]
    <3>1. CASE u = t
      BY <1>5, <1>8, <2>1, <3>1
    <3>2. CASE u # t
      BY <1>6, <2>1, <3>2 DEF Purging, Billing!TypeOK
    <3> QED
      BY <3>1, <3>2
  <2> QED
    BY <1>1, <2>1 DEF Purging, PurgeFailed
<1> QED
  BY <1>7, <1>10, <1>11, <1>12

\* Plans set by hand, and dates that pass.
LEMMA ColumnInv ==
    ASSUME BillingInv, NEW t \in Tenants, Billing!ChangeTier(t) \/ Billing!DatePasses(t)
    PROVE  BillingInv'
<1> USE DEF BillingInv
<1>1. /\ UNCHANGED <<alive, stripe, handled, job>> /\ t \in alive
      /\ tenantRow'[t].sub = tenantRow[t].sub /\ tenantRow' \in [Tenants -> Billing!Columns]
      /\ odd' \in [Tenants -> SUBSET Billing!Oddities]
      /\ tenantRow'[t].deletion # "none" <=> tenantRow[t].deletion # "none"
      /\ tenantRow'[t].tier = tenantRow[t].tier \/ "admin" \in odd'[t]
      /\ odd'[t] = odd[t] \/ odd'[t] = odd[t] \cup {"admin"}
      /\ \A u \in Tenants : u # t => tenantRow'[u] = tenantRow[u] /\ odd'[u] = odd[u]
  <2>1. ASSUME Billing!ChangeTier(t)
        PROVE  /\ UNCHANGED <<alive, stripe, handled, job>> /\ t \in alive
               /\ tenantRow' = [tenantRow EXCEPT ![t].tier = IF @ = "paid" THEN "free" ELSE "paid"]
               /\ odd' = [odd EXCEPT ![t] = @ \cup {"admin"}]
    BY <2>1 DEF Billing!ChangeTier
  <2>2. ASSUME Billing!DatePasses(t)
        PROVE  /\ UNCHANGED <<alive, stripe, handled, job, odd>> /\ t \in alive
               /\ tenantRow[t].deletion = "set" /\ tenantRow' = [tenantRow EXCEPT ![t].deletion = "due"]
    BY <2>2 DEF Billing!DatePasses
  <2>5. tenantRow[t] \in Billing!Columns /\ odd[t] \in SUBSET Billing!Oddities
    BY DEF Billing!TypeOK
  <2>3. CASE Billing!ChangeTier(t)
    <3>1. tenantRow'[t] = [tenantRow[t] EXCEPT !.tier = IF @ = "paid" THEN "free" ELSE "paid"]
      BY <2>1, <2>3 DEF Billing!TypeOK
    <3>2. /\ tenantRow'[t] \in Billing!Columns /\ tenantRow'[t].sub = tenantRow[t].sub
          /\ tenantRow'[t].deletion = tenantRow[t].deletion
      BY <2>5, <3>1 DEF Billing!Columns
    <3>3. odd'[t] = odd[t] \cup {"admin"} /\ odd'[t] \in SUBSET Billing!Oddities
      BY <2>1, <2>3, <2>5 DEF Billing!TypeOK, Billing!Oddities
    <3> QED
      BY <2>1, <2>3, <3>2, <3>3 DEF Billing!TypeOK
  <2>4. CASE Billing!DatePasses(t)
    <3>1. tenantRow'[t] = [tenantRow[t] EXCEPT !.deletion = "due"]
      BY <2>2, <2>4 DEF Billing!TypeOK
    <3>2. /\ tenantRow'[t] \in Billing!Columns /\ tenantRow'[t].sub = tenantRow[t].sub /\ tenantRow'[t].tier = tenantRow[t].tier
          /\ tenantRow'[t].deletion = "due"
      BY <2>5, <3>1 DEF Billing!Columns
    <3>3. tenantRow' \in [Tenants -> Billing!Columns] /\ \A u \in Tenants : u # t => tenantRow'[u] = tenantRow[u]
      BY <2>2, <2>4, <3>2 DEF Billing!TypeOK
    <3>4. /\ UNCHANGED <<alive, stripe, handled, job, odd>> /\ t \in alive
          /\ tenantRow[t].deletion = "set" /\ odd \in [Tenants -> SUBSET Billing!Oddities]
      BY <2>2, <2>4 DEF Billing!TypeOK
    <3> QED
      BY <3>2, <3>3, <3>4
  <2> QED
    BY <2>3, <2>4
<1>2. Billing!TypeOK' /\ Sent'
  BY <1>1 DEF Billing!TypeOK, Sent
<1>3. \A u \in alive : /\ tenantRow'[u].sub = tenantRow[u].sub
                       /\ tenantRow'[u].deletion # "none" <=> tenantRow[u].deletion # "none"
                       /\ odd[u] \subseteq odd'[u] /\ odd'[u] \subseteq odd[u] \cup {"admin"}
                       /\ tenantRow'[u].tier = tenantRow[u].tier \/ "admin" \in odd'[u]
  BY <1>1 DEF Billing!TypeOK
<1>4. Owned'
  BY <1>1, <1>3 DEF Owned, Billing!Ends, Billing!Event
<1>5. \A u \in alive : Bought(u)' = Bought(u)
  BY <1>1 DEF Bought, Billing!LiveSubs, Billing!Live, Billing!Event
<1>6. Counted'
  BY <1>1, <1>3, <1>5 DEF Counted, Excused
<1>7. Purging'
  BY <1>1, <1>3 DEF Purging, PurgeFailed
<1> QED
  BY <1>2, <1>4, <1>6, <1>7

\* The purge: what it goes past stays past, and a failure is one for all the
\* tenants it has gone past.
LEMMA PurgeInv ==
    ASSUME BillingInv, \/ \E t \in Tenants : Billing!PurgeOne(t) \/ Billing!PurgeFails(t)
                       \/ Billing!PurgeSelect \/ Billing!PurgeCommit \/ Billing!PurgeKilled
    PROVE  BillingInv'
<1> USE DEF BillingInv
<1>1. /\ UNCHANGED <<tenantRow, stripe, handled>> /\ alive' \subseteq alive
      /\ ~Billing!PurgeSelect => odd' = odd
      /\ Billing!PurgeSelect => odd' = [t \in Tenants |-> odd[t] \ {"overtaken"}]
  BY DEF Billing!PurgeOne, Billing!PurgeFails, Billing!PurgeSelect, Billing!PurgeCommit,
       Billing!PurgeKilled
<1>13. \A t \in Tenants : /\ odd'[t] \subseteq odd[t]
                          /\ \A o \in odd[t] : o = "overtaken" \/ o \in odd'[t]
  BY <1>1
<1>14. odd' \in [Tenants -> SUBSET Billing!Oddities]
  <2>1. odd \in [Tenants -> SUBSET Billing!Oddities]
    BY DEF Billing!TypeOK
  <2> QED
    BY <1>1, <2>1
<1>15. alive \subseteq Tenants
  BY DEF Billing!TypeOK
<1>2. Owned'
  BY <1>1, <1>13, <1>15 DEF Owned, Billing!Ends, Billing!Event
<1>3. \A t \in alive : Bought(t)' = Bought(t)
  BY <1>1 DEF Bought, Billing!LiveSubs, Billing!Live, Billing!Event
<1>4. Counted' /\ Sent'
  BY <1>1, <1>3, <1>13, <1>15 DEF Counted, Excused, Sent
<1> DEFINE Jobs == [stage : {"idle", "running", "committed", "killed"}, todo : SUBSET Tenants,
                    done : SUBSET Tenants, walk : Seq(Tenants),
                    picked : SUBSET Tenants, failed : SUBSET Tenants]
<1>5. job \in Jobs
  BY DEF Billing!TypeOK
<1>6. ASSUME NEW t \in Tenants, Billing!PurgeOne(t) PROVE job' \in Jobs /\ Purging'
  <2>1. /\ t \in job.todo /\ alive' = alive /\ job.stage = "running"
        /\ job' = [job EXCEPT !.todo = @ \ {t}, !.done = @ \cup {t}, !.walk = Append(@, t)]
    BY <1>6 DEF Billing!PurgeOne, Purging
  <2>6. job.walk \in Seq(Tenants) /\ Append(job.walk, t) \in Seq(Tenants)
    BY <1>5
  <2>2. /\ job' \in Jobs /\ job'.stage = "running" /\ job'.todo = job.todo \ {t}
        /\ job'.done = job.done \cup {t} /\ job'.walk = Append(job.walk, t)
        /\ job'.picked = job.picked /\ job'.failed = job.failed
    BY <1>5, <2>1, <2>6
  <2>3. /\ DOMAIN job.walk = 1..Len(job.walk) /\ Len(job.walk) \in Nat
        /\ DOMAIN job'.walk = 1..(Len(job.walk) + 1) /\ Len(job'.walk) = Len(job.walk) + 1
        /\ \A i \in DOMAIN job.walk : job'.walk[i] = job.walk[i]
        /\ job'.walk[Len(job.walk) + 1] = t
    BY <1>5, <2>2
  <2>4. \A u \in Tenants : PurgeFailed(u) => PurgeFailed(u)'
    BY <2>2, <2>3 DEF PurgeFailed
  <2>5. \A u \in job'.done : \E i \in DOMAIN job'.walk : job'.walk[i] = u
    BY <2>2, <2>3 DEF Purging
  <2>7. odd' = odd
    BY <1>1, <2>1 DEF Billing!PurgeSelect
  <2> QED
    BY <1>1, <1>5, <2>1, <2>2, <2>4, <2>5, <2>7 DEF Purging
<1>7. ASSUME NEW t \in Tenants, Billing!PurgeFails(t) PROVE job' \in Jobs /\ Purging'
  <2>1. /\ t \in job.todo /\ alive' = alive /\ job.stage = "running"
        /\ job' = [job EXCEPT !.todo = @ \ {t}, !.done = {}, !.walk = Append(@, t),
                              !.failed = @ \cup {t}]
    BY <1>7 DEF Billing!PurgeFails, Purging
  <2>6. job.walk \in Seq(Tenants) /\ Append(job.walk, t) \in Seq(Tenants)
    BY <1>5
  <2>2. /\ job' \in Jobs /\ job'.stage = "running" /\ job'.todo = job.todo \ {t}
        /\ job'.done = {} /\ job'.walk = Append(job.walk, t)
        /\ job'.picked = job.picked /\ job'.failed = job.failed \cup {t}
    BY <1>5, <2>1, <2>6
  <2>3. /\ DOMAIN job.walk = 1..Len(job.walk) /\ Len(job.walk) \in Nat
        /\ DOMAIN job'.walk = 1..(Len(job.walk) + 1) /\ Len(job'.walk) = Len(job.walk) + 1
        /\ \A i \in DOMAIN job.walk : job'.walk[i] = job.walk[i]
        /\ job'.walk[Len(job.walk) + 1] = t
    BY <1>5, <2>2
  <2>4. \A u \in Tenants : PurgeFailed(u) => PurgeFailed(u)'
    BY <2>2, <2>3 DEF PurgeFailed
  <2>5. \A u \in job.done \cup {t} : PurgeFailed(u)'
    <3>1. \A u \in job.done \cup {t} : \E i \in DOMAIN job'.walk : job'.walk[i] = u
      BY <2>2, <2>3 DEF Purging
    <3>2. Len(job'.walk) \in Nat /\ DOMAIN job'.walk = 1..Len(job'.walk)
          /\ job'.walk[Len(job'.walk)] \in job'.failed
      BY <2>2, <2>3
    <3>3. ASSUME NEW u \in job.done \cup {t} PROVE PurgeFailed(u)'
      <4>1. PICK i \in DOMAIN job'.walk : job'.walk[i] = u
        BY <3>1
      <4>2. Len(job'.walk) \in i..Len(job'.walk)
        BY <3>2
      <4> QED
        BY <3>2, <4>1, <4>2 DEF PurgeFailed
    <3> QED
      BY <3>3
  <2>7. odd' = odd
    BY <1>1, <2>1 DEF Billing!PurgeSelect
  <2> QED
    BY <1>1, <1>5, <2>1, <2>2, <2>4, <2>5, <2>7 DEF Purging
<1>8. ASSUME Billing!PurgeSelect PROVE job' \in Jobs /\ Purging'
  <2>1. /\ alive' = alive /\ Billing!Expired \subseteq Tenants
        /\ job' = [Billing!NoJob EXCEPT !.stage = "running", !.todo = Billing!Expired, !.picked = Billing!Expired]
    BY <1>8 DEF Billing!PurgeSelect, Billing!Expired, Billing!TypeOK
  <2>2. /\ job' \in Jobs /\ job'.stage = "running" /\ job'.todo = Billing!Expired
        /\ job'.picked = Billing!Expired /\ job'.done = {}
    <3>1. <<>> \in Seq(Tenants)
      OBVIOUS
    <3> QED
      BY <2>1, <3>1 DEF Billing!NoJob
  <2>3. \A t \in Billing!Expired : tenantRow[t].deletion # "none"
    BY DEF Billing!Expired
  <2> QED
    BY <1>1, <2>1, <2>2, <2>3 DEF Purging
<1>9. ASSUME Billing!PurgeCommit PROVE job' \in Jobs /\ Purging'
  <2>1. /\ job.stage = "running" /\ job.todo = {} /\ alive' = alive \ job.done
        /\ job' = [job EXCEPT !.stage = "committed", !.done = {}]
    BY <1>9 DEF Billing!PurgeCommit
  <2>2. /\ job' \in Jobs /\ job'.stage = "committed" /\ job'.todo = {} /\ job'.done = {}
        /\ job'.walk = job.walk /\ job'.picked = job.picked /\ job'.failed = job.failed
    BY <1>5, <2>1
  <2> QED
    BY <2>1, <2>2 DEF Purging, PurgeFailed
<1>10. ASSUME Billing!PurgeKilled PROVE job' \in Jobs /\ Purging'
  <2>1. job' \in Jobs /\ job'.stage = "killed" /\ job'.todo = {} /\ job'.done = {}
    BY <1>5, <1>10 DEF Billing!PurgeKilled
  <2> QED
    BY <2>1 DEF Purging
<1>11. job' \in Jobs /\ Purging'
  BY <1>6, <1>7, <1>8, <1>9, <1>10
<1>12. Billing!TypeOK'
  BY <1>1, <1>11, <1>14 DEF Billing!TypeOK
<1> QED
  BY <1>2, <1>4, <1>11, <1>12

\* Every step of Stripe, of the webhook, of an administrator and of the purge
\* keeps the invariant.
LEMMA BillingStep == BillingInv /\ [Billing!Next]_Billing!vars => BillingInv'
<1>1. ASSUME BillingInv, UNCHANGED Billing!vars PROVE BillingInv'
  BY <1>1 DEF Billing!vars, BillingInv, Billing!TypeOK, Sent, Owned, Counted, Purging,
       Billing!Ends, Billing!Event, Bought,
              Billing!LiveSubs, Billing!Live, Excused, PurgeFailed
<1> QED
  BY <1>1, StripeInv, HandleInv, DropInv, ColumnInv, PurgeInv DEF Billing!Next

\* The invariant of the subscriptions holds in every state.
LEMMA BillingInvariance == Billing!Spec => []BillingInv
  BY BillingInit, BillingStep, PTL DEF Billing!Spec

\* A paid plan has the subscription that Owned speaks of.
LEMMA Subscribed == BillingInv => Billing!PaidHasSubscription
  BY NoSub DEF BillingInv, Owned, Billing!PaidHasSubscription

\* After the commit nothing that was picked is undone but by a failure.
LEMMA PurgedKept == BillingInv => Billing!KeptByFailure
  BY DEF BillingInv, Purging, Billing!KeptByFailure, PurgeFailed

\* Only the commit of the purge removes tenants, those it has done.
LEMMA Paying ==
    ASSUME BillingInv, [Billing!Next]_Billing!vars, NEW t \in alive \ alive'
    PROVE  odd[t] \ {"admin", "revived"} # {} \/
              \A s \in Billing!LiveSubs(t) : Billing!Event("checkout", s) \notin handled
<1>1. t \in job.done
  BY DEF Billing!Next, Billing!vars, Billing!Checkout, Billing!CancelSubscription,
       Billing!HandleEvent, Billing!DropEvent, Billing!ChangeTier,
         Billing!DatePasses, Billing!PurgeOne, Billing!PurgeFails, Billing!PurgeSelect,
         Billing!PurgeCommit, Billing!PurgeKilled
<1>2. tenantRow[t].deletion # "none" \/ "overtaken" \in odd[t]
  BY <1>1 DEF BillingInv, Purging
<1>3. tenantRow[t].deletion = "none" \/ Excused(t) \/ Bought(t) = {}
  BY DEF BillingInv, Counted
<1> QED
  BY <1>2, <1>3 DEF Excused, Bought

----------------------------------------------------------------------------
(***************************************************************************)
(* The customers' requests.  PortalIntake_proofs has the proofs; its       *)
(* definitions over the variables of TenantRows are those of Portal.       *)
(***************************************************************************)
PortalProof == INSTANCE PortalIntake_proofs WITH req <- portalReq, late <- portalLate

\* The two instances of PortalIntake have the same behaviours.
LEMMA SameIntake == PortalProof!Spec <=> Portal!Spec
<1>1. PortalProof!Init <=> Portal!Init
  BY DEF PortalProof!Init, Portal!Init, PortalProof!Idle, Portal!Idle
<1>2. PortalProof!vars = Portal!vars
  BY DEF PortalProof!vars, Portal!vars
<1>3. ASSUME NEW i \in Intakes PROVE PortalProof!Submit(i) <=> Portal!Submit(i)
  BY DEF PortalProof!Submit, Portal!Submit
<1>4. ASSUME NEW r \in Requests, NEW op \in Portal!Buttons \cup {"message"}, NEW i \in Intakes
      PROVE  PortalProof!OpenPage(r, op, i) <=> Portal!OpenPage(r, op, i)
  BY DEF PortalProof!OpenPage, Portal!OpenPage, PortalProof!Offered, Portal!Offered,
       PortalProof!Closed,
         Portal!Closed, PortalProof!Idle, Portal!Idle, PortalProof!rows, Portal!rows
<1>5. ASSUME NEW r \in Requests PROVE PortalProof!Load(r) <=> Portal!Load(r)
  BY DEF PortalProof!Load, Portal!Load, PortalProof!Admits, Portal!Admits, PortalProof!Closed,
         Portal!Closed, PortalProof!rows, Portal!rows
<1>6. ASSUME NEW r \in Requests PROVE PortalProof!Gather(r) <=> Portal!Gather(r)
  BY DEF PortalProof!Gather, Portal!Gather, PortalProof!rows, Portal!rows
<1>7. ASSUME NEW r \in Requests PROVE PortalProof!Commits(r) <=> Portal!Commits(r)
  BY DEF PortalProof!Commits, Portal!Commits, PortalProof!Overtaken, Portal!Overtaken
<1>8. ASSUME NEW r \in Requests PROVE PortalProof!Convert(r) <=> Portal!Convert(r)
  BY <1>7 DEF PortalProof!Convert, Portal!Convert
<1>9. ASSUME NEW r \in Requests, NEW i
      PROVE  /\ PortalProof!Written(r, i) <=> Portal!Written(r, i)
             /\ PortalProof!Unwritten(r) <=> Portal!Unwritten(r)
  BY DEF PortalProof!Written, Portal!Written, PortalProof!Unwritten, Portal!Unwritten,
         PortalProof!Target, Portal!Target, PortalProof!Holds, Portal!Holds
<1>10. ASSUME NEW r \in Requests PROVE PortalProof!Decide(r) <=> Portal!Decide(r)
  BY <1>7, <1>9 DEF PortalProof!Decide, Portal!Decide
<1>11. ASSUME NEW r \in Requests, NEW f \in BOOLEAN
       PROVE  PortalProof!AddMessage(r, f) <=> Portal!AddMessage(r, f)
  BY <1>7, <1>9 DEF PortalProof!AddMessage, Portal!AddMessage
<1>12. ASSUME NEW r \in Requests PROVE PortalProof!Abandon(r) <=> Portal!Abandon(r)
  BY DEF PortalProof!Abandon, Portal!Abandon, PortalProof!rows, Portal!rows
<1>13. ASSUME NEW r \in Requests PROVE PortalProof!Continue(r) <=> Portal!Continue(r)
  BY <1>6, <1>8, <1>10, <1>11 DEF PortalProof!Continue, Portal!Continue
<1>14. PortalProof!Next <=> Portal!Next
  BY <1>3, <1>4, <1>5, <1>12, <1>13 DEF PortalProof!Next, Portal!Next, PortalProof!Buttons,
       Portal!Buttons
<1>15. [PortalProof!Next]_PortalProof!vars <=> [Portal!Next]_Portal!vars
  BY <1>2, <1>14 DEF PortalProof!vars, Portal!vars
<1> QED
  BY <1>1, <1>15, PTL DEF PortalProof!Spec, Portal!Spec

----------------------------------------------------------------------------
(***************************************************************************)
(* From the parts to TenantRows.                                           *)
(***************************************************************************)
LEMMA Parts ==
    /\ RowsSpec => Spec
    /\ RowsSpec => Life!Spec
    /\ RowsSpec => Tree!Spec
    /\ RowsSpec => Portal!Spec
    /\ RowsSpec => Billing!Spec
<1>1. RowsInit => Init /\ Life!Init /\ Tree!Init /\ Portal!Init /\ Billing!Init
  BY DEF RowsInit
<1>2. [RowsNext]_allVars => [Next]_vars
  BY DEF RowsNext, allVars, vars
<1>3. [RowsNext]_allVars => [Life!Next]_Life!vars
  BY DEF RowsNext, allVars, lifeVars, Life!vars
<1>4. [RowsNext]_allVars => [Portal!Next]_Portal!vars
  BY DEF RowsNext, allVars, portalVars, Portal!vars
<1>5. [RowsNext]_allVars => [Billing!Next]_Billing!vars
  BY DEF RowsNext, allVars, billingVars, Billing!vars
<1>6. [RowsNext]_allVars => [Tree!Next]_Tree!vars
  BY DEF RowsNext, allVars, treeVars, Tree!vars
<1> QED
  BY <1>1, <1>2, <1>3, <1>4, <1>5, <1>6, PTL
     DEF RowsSpec, Spec, Life!Spec, Tree!Spec, Portal!Spec, Billing!Spec

\* The rows and the requests of every part keep their types.
THEOREM RowsTyped ==
    RowsSpec => [](TypeOK /\ Life!TypeOK /\ Tree!TypeOK /\ Portal!TypeOK /\ Billing!TypeOK)
<1>1. PortalProof!TypeOK <=> Portal!TypeOK
  BY DEF PortalProof!TypeOK, Portal!TypeOK, PortalProof!Statuses, Portal!Statuses,
         PortalProof!Transactions, Portal!Transactions, PortalProof!Stages, Portal!Stages,
         PortalProof!Buttons, Portal!Buttons
<1>2. PortalProof!Absent
  BY ReportAssumption, RowsAssumption DEF PortalProof!Absent
<1>3. PortalProof!Spec => []PortalProof!TypeOK
  BY <1>2, PortalProof!Typing
<1>4. Portal!Spec => []Portal!TypeOK
  BY <1>1, <1>3, SameIntake, PTL
<1> QED
  BY <1>4, Parts, ReportInvariance, LifeInvariance, TreeInvariance, BillingInvariance, PTL
     DEF ReportInv, LifeInv, TreeInv, BillingInv

\* A released text is the released one, up to generators and an overlapping
\* form (pv_edit).
THEOREM Releasing == RowsSpec => []OnlyReleasedText
  BY Parts, ReportInvariance, PTL DEF ReportInv

\* A draft carries a release only if it was withdrawn while that release was
\* being saved (pv_edit).
THEOREM Stamping == RowsSpec => []StampedDraft
  BY Parts, ReportInvariance, PTL DEF ReportInv

\* No contribution is lost but to a stale form or generator, or a clearing
\* (pv_edit, the generated blocks).
THEOREM Losing == RowsSpec => []LostOnlyToStaleText
  BY Parts, ReportInvariance, PTL DEF ReportInv

\* One bill per report, unless first texts overlapped or it was emptied
\* (auto_invoice_pv_created).
THEOREM BillingOnce == RowsSpec => []BilledOnce
  BY Parts, ReportInvariance, PTL DEF ReportInv

\* A report with a text was billed, or a generator wrote the first one
\* (auto_invoice_pv_created).
THEOREM BillingAll == RowsSpec => []FilledIsBilled
  BY Parts, ReportInvariance, PTL DEF ReportInv

\* A case has an end date exactly while it is closed or archived, unless the
\* form set its status or requests overlapped (transition_status).
THEOREM EndDates == RowsSpec => []EndFollowsStatus
  BY Parts, LifeInvariance, PTL DEF LifeInv, EndFollowsStatus

\* The same for the closure reason, which the edit route does not ask for.
THEOREM Reasons == RowsSpec => []Life!ReasonFollowsStatus
  BY Parts, LifeInvariance, PTL DEF LifeInv

\* Statuses change along the table of transition_status, unless the form set
\* them or requests overlapped.
THEOREM TableFollowed == RowsSpec => Life!FollowsTable
<1>1. LifeInv /\ [Life!Next]_Life!vars => [Life!StatusStep]_Life!vars
  BY LifeStep
<1> QED
  BY <1>1, Parts, LifeInvariance, PTL DEF Life!Spec, Life!FollowsTable

\* Every circle of cases has a link that was stored on a walk that was not true
\* any more (set_case_parent).
THEOREM Circles == RowsSpec => []NoCircle
  BY Parts, TreeInvariance, PTL DEF TreeInv

\* A walk that was not disturbed goes round for ever only over a circle that is
\* there (set_case_parent).
THEOREM EndlessWalks == RowsSpec => []EndlessOnlyOnCircle
  BY Parts, TreeInvariance, TreeEndless, PTL

\* A tenant left alone by administrators has a paid plan only with a
\* subscription that runs or whose end was not answered yet, whatever the
\* order and the number of deliveries (the webhook's handlers).
THEOREM PaidPlans == RowsSpec => []PaidHasSubscription
  BY Parts, BillingInvariance, Subscribed, PTL DEF PaidHasSubscription

\* A tenant the purge has picked is there after its commit only if its own
\* purge or a later one failed (purge_expired_tenants).
THEOREM PurgeTakesAll == RowsSpec => []KeptByFailure
  BY Parts, BillingInvariance, PurgedKept, PTL DEF KeptByFailure

\* The purge takes a paying tenant only in the three cases of PayingIsKept.
THEOREM PurgeSparesPayers == RowsSpec => PayingIsKept
<1> DEFINE Spared == \A t \in alive \ alive' :
                        odd[t] \ {"admin", "revived"} # {} \/
                          \A s \in Billing!LiveSubs(t) : Billing!Event("checkout", s) \notin handled
<1>1. BillingInv /\ [Billing!Next]_Billing!vars => [Spared]_Billing!vars
  BY Paying
<1>2. Billing!Spec => [][Spared]_Billing!vars
  BY <1>1, BillingInvariance, PTL DEF Billing!Spec
<1> QED
  BY <1>2, Parts, PTL DEF PayingIsKept, Billing!PayingIsKept

\* An intake becomes one case, unless two conversions overlapped or a stale
\* request reopened it (convert_request).
THEOREM OneCaseEach == RowsSpec => []OneCase
<1>1. PortalProof!OneCase <=> OneCase
  BY DEF PortalProof!OneCase, OneCase, Portal!OneCase, PortalProof!Converts,
         Portal!Converts, PortalProof!Reopened, Portal!Reopened
<1>2. PortalProof!Absent
  BY ReportAssumption, RowsAssumption DEF PortalProof!Absent
<1>3. PortalProof!Spec => []PortalProof!OneCase
  BY <1>2, PortalProof!OneCaseEach
<1> QED
  BY <1>1, <1>3, SameIntake, Parts, PTL

\* Every attachment of an intake that became a case is in one of its cases,
\* with the same exceptions (convert_request, add_message).
THEOREM Attachments == RowsSpec => []AttachmentsFollow
<1>1. PortalProof!AttachmentsFollow <=> AttachmentsFollow
  BY DEF PortalProof!AttachmentsFollow, AttachmentsFollow, Portal!AttachmentsFollow,
         PortalProof!Converts, Portal!Converts, PortalProof!Reopened, Portal!Reopened
<1>2. PortalProof!Absent
  BY ReportAssumption, RowsAssumption DEF PortalProof!Absent
<1>3. PortalProof!Spec => []PortalProof!AttachmentsFollow
  BY <1>2, PortalProof!Attachments
<1> QED
  BY <1>1, <1>3, SameIntake, Parts, PTL

\* A closed intake opens again only by a request older than its closing.
THEOREM Reopening == RowsSpec => ClosedReopensOnlyStale
<1>1. PortalProof!Absent
  BY ReportAssumption, RowsAssumption DEF PortalProof!Absent
<1>2. PortalProof!Spec => PortalProof!ClosedReopensOnlyStale
  BY <1>1, PortalProof!Reopening
<1> DEFINE Stale == \A i \in Intakes :
                       intake[i] \in Portal!Closed /\ intake'[i] \notin Portal!Closed =>
                         \E r \in Requests :
                            /\ portalReq'[r].stage = "committed" /\ portalReq[r].stage = "loaded"
                            /\ portalReq[r].intake = i
                            /\ portalReq[r].page \notin Portal!Closed
                            /\ (portalReq[r].op = "review" \/ portalReq[r].seen \notin Portal!Closed)
<1>3. PortalProof!Closed = Portal!Closed /\ PortalProof!vars = Portal!vars
  BY DEF PortalProof!Closed, Portal!Closed, PortalProof!vars, Portal!vars
<1>4. PortalProof!ClosedReopensOnlyStale <=> ClosedReopensOnlyStale
  BY <1>3, PTL DEF PortalProof!ClosedReopensOnlyStale, ClosedReopensOnlyStale,
                   Portal!ClosedReopensOnlyStale, PortalProof!vars, Portal!vars,
                   PortalProof!Closed, Portal!Closed
<1> QED
  BY <1>2, <1>4, SameIntake, Parts, PTL
=============================================================================
