----------------------------- MODULE Invoicing -----------------------------
(***************************************************************************)
(* Invoices, their lines and totals, and credit notes, as concurrent       *)
(* requests write them.  A request is one database transaction under READ  *)
(* COMMITTED: it reads when it starts, works on what it read, and becomes  *)
(* visible as a whole when it commits; an UPDATE takes the row until the   *)
(* end of the transaction, so another UPDATE of that row waits.            *)
(*                                                                         *)
(* Requests run once.  The invoice, the line and the credit note a request *)
(* creates carry the request's name.  Every line costs one unit, so what a *)
(* total should be is the number of the invoice's lines.  One tenant, one  *)
(* year: both are parts of the counter's key.                              *)
(***************************************************************************)
EXTENDS Naturals, FiniteSets, Sequences

CONSTANTS Requests, Clients, None

ASSUME NoneIsNoClient == None \notin Requests \cup Clients

\* The number of lines is a number only of a finite set of requests.
ASSUME FiniteRequests == IsFiniteSet(Requests)

VARIABLES
    counter,    \* invoice_number_counters.next_seq: highest number issued
    invoice,    \* [Requests -> row]: the invoice the request created
    lineOn,     \* [Requests -> Requests \cup {None}]: invoice of its line
    note,       \* [Requests -> status]: the credit note it created
    inserted,   \* order of the credit notes' created_at stamps
    report,     \* [Clients -> BOOLEAN]: the case has a report body
    req         \* [Requests -> its transaction]

vars == <<counter, invoice, lineOn, note, inserted, report, req>>

Statuses == {"draft", "sent", "paid", "overdue", "cancelled"}
NoteStatuses == {"none", "draft", "issued"}
Writers == {"work", "report", "create", "edit"}
Moves == {"send", "pay", "cancel", "overdue", "delete"}
Stages == {"idle", "finding", "allocating", "heading", "replacing", "adding",
           "noting", "ready", "committed", "failed"}

NoInvoice == [client |-> None, number |-> 0, status |-> "draft",
              deleted |-> FALSE, total |-> 0]
Idle == [stage |-> "idle", op |-> "none", client |-> None, inv |-> None,
         total |-> 0, number |-> 0, lines |-> 0, gone |-> {}, sum |-> 0,
         locked |-> FALSE]

Rows == [client : Clients \cup {None}, number : Nat, status : Statuses,
         deleted : BOOLEAN, total : Nat]
Transactions ==
    [stage : Stages,
     op : Writers \cup Moves \cup {"credit", "issue", "drop", "none"},
     client : Clients \cup {None}, inv : Requests \cup {None},
     total : Nat, number : Nat, lines : {0, 1},
     gone : SUBSET Requests, sum : Nat, locked : BOOLEAN]

TypeOK ==
    /\ counter \in Nat
    /\ invoice \in [Requests -> Rows]
    /\ lineOn \in [Requests -> Requests \cup {None}]
    /\ note \in [Requests -> NoteStatuses]
    /\ inserted \in Seq(Requests)
    /\ report \in [Clients -> BOOLEAN]
    /\ req \in [Requests -> Transactions]

Init ==
    /\ counter = 0
    /\ invoice = [r \in Requests |-> NoInvoice]
    /\ lineOn = [r \in Requests |-> None]
    /\ note = [r \in Requests |-> "none"]
    /\ inserted = << >>
    /\ report = [c \in Clients |-> FALSE]
    /\ req = [r \in Requests |-> Idle]

(***************************************************************************)
(* What the database shows and holds.                                      *)
(***************************************************************************)
Exists(i) == invoice[i].number > 0
LinesOf(i) == {r \in Requests : lineOn[r] = i}
Open(r) == req[r].stage \notin {"idle", "committed", "failed"}

\* The counter's row stays locked from the UPSERT to the end.
CounterHolders == {r \in Requests : /\ req[r].stage \in {"adding", "ready"}
                                    /\ req[r].op \in Writers
                                    /\ req[r].number > 0}

\* Wrong variant: the session goes back to the pool with its transaction open.
RowFreeNever(r, i) == \A s \in Requests \ {r} : ~(req[s].locked /\ req[s].inv = i)

\* Nobody else has written the invoice's row and not ended yet.
RowFree(r, i) == \A s \in Requests \ {r} : ~(Open(s) /\ req[s].locked
                                              /\ req[s].inv = i)
Drafts(c) == {i \in Requests : /\ Exists(i) /\ invoice[i].client = c
                               /\ invoice[i].status = "draft"}

Start(r, q) ==
    /\ req[r].stage = "idle"
    /\ req' = [req EXCEPT ![r] = q]
    /\ UNCHANGED <<counter, invoice, lineOn, note, inserted, report>>

Advance(r, q) ==
    /\ req' = [req EXCEPT ![r] = q]
    /\ UNCHANGED <<counter, invoice, lineOn, note, inserted, report>>

(***************************************************************************)
(* Requests that write lines.                                              *)
(***************************************************************************)
\* A case is created or an action completes for the client's case.
BillWork(r, c) == Start(r, [Idle EXCEPT !.stage = "finding", !.op = "work",
                            !.client = c, !.lines = 1])

\* pv_edit bills a report whose body was empty when the case was read.
BillReport(r, c) ==
    /\ ~report[c]
    /\ Start(r, [Idle EXCEPT !.stage = "finding", !.op = "report",
                 !.client = c, !.lines = 1])

CreateInvoice(r, c, n) ==
    Start(r, [Idle EXCEPT !.stage = "allocating", !.op = "create", !.client = c,
              !.inv = r, !.lines = n])

\* The edit form is rendered without the invoice's items, so what it sends
\* back is only what was typed into it.  A changed date, note or term is
\* written before the items are replaced.
EditInvoice(r, i, n, first) ==
    /\ Exists(i)
    /\ invoice[i].status \notin {"paid", "cancelled"}
    /\ Start(r, [Idle EXCEPT !.stage = first, !.op = "edit", !.inv = i,
                 !.client = invoice[i].client, !.lines = n,
                 !.total = invoice[i].total])

\* The query flushes the new report body, which takes the case's row.
CaseHeld(r) ==
    /\ req[r].op = "report"
    /\ \E s \in Requests \ {r} : /\ req[s].op = "report"
                                 /\ req[s].client = req[r].client
                                 /\ req[s].stage \in {"allocating", "adding", "ready"}

\* Wrong variant: the draft may be any client's.
FindAnyDraft(r) ==
    /\ req[r].stage = "finding"
    /\ \/ \E d \in {i \in Requests : Exists(i) /\ invoice[i].status = "draft"} :
             Advance(r, [req[r] EXCEPT !.stage = "adding", !.inv = d,
                         !.total = invoice[d].total])
       \/ Advance(r, [req[r] EXCEPT !.stage = "allocating", !.inv = r])

FindDraft(r) ==
    /\ req[r].stage = "finding"
    /\ ~CaseHeld(r)
    /\ \/ \E d \in Drafts(req[r].client) :
             Advance(r, [req[r] EXCEPT !.stage = "adding", !.inv = d,
                         !.total = invoice[d].total])
       \/ /\ Drafts(req[r].client) = {}
          /\ Advance(r, [req[r] EXCEPT !.stage = "allocating", !.inv = r])

\* Wrong variant: the counter is read, not updated in place.
AllocateByReading(r) ==
    /\ req[r].stage = "allocating"
    /\ Advance(r, [req[r] EXCEPT !.stage = "adding", !.number = counter + 1])

AllocateInvoiceNumber(r) ==
    /\ req[r].stage = "allocating"
    /\ CounterHolders = {}
    /\ Advance(r, [req[r] EXCEPT !.stage = "adding", !.number = counter + 1])

\* The bulk delete first flushes the header's changes, which takes the row.
FlushHeader(r) ==
    /\ req[r].stage = "heading"
    /\ RowFree(r, req[r].inv)
    /\ Advance(r, [req[r] EXCEPT !.stage = "replacing", !.locked = TRUE])

\* Deleting rows another open request deletes waits for that request.
DeleteItems(r) ==
    /\ req[r].stage = "replacing"
    /\ \A s \in Requests \ {r} :
          Open(s) => req[s].gone \cap LinesOf(req[r].inv) = {}
    /\ Advance(r, [req[r] EXCEPT !.stage = "adding", !.gone = LinesOf(req[r].inv)])

\* Wrong variant: the recompute leaves the row alone until the commit.
RecalculateUnlocked(r) ==
    /\ req[r].stage = "adding"
    /\ Advance(r, [req[r] EXCEPT !.stage = "ready", !.locked = FALSE,
                   !.sum = Cardinality(LinesOf(req[r].inv) \ req[r].gone)
                           + req[r].lines])

\* recalculate() sets the subtotal to 0 before it reads the items.  The read
\* flushes that assignment, and so takes the row, only if it is a change.
Recalculate(r) ==
    LET q == req[r]
        changes == q.inv # r /\ q.total > 0
    IN /\ q.stage = "adding"
       /\ changes => RowFree(r, q.inv)
       /\ Advance(r, [req[r] EXCEPT !.stage = "ready", !.locked = q.locked \/ changes,
                      !.sum = Cardinality(LinesOf(q.inv) \ q.gone) + q.lines])

\* The commit writes the total if it differs from the one last flushed.
CommitLines(r) ==
    LET q == req[r]
        fresh == q.inv = r
        total == IF fresh \/ q.total > 0 \/ q.sum > 0
                 THEN q.sum ELSE invoice[q.inv].total
    IN /\ q.stage = "ready" /\ q.op \in Writers
       /\ (q.sum > 0) => RowFree(r, q.inv)
       /\ counter' = IF fresh THEN q.number ELSE counter
       /\ invoice' = [invoice EXCEPT ![q.inv] =
             IF fresh THEN [client |-> q.client, number |-> q.number,
                            status |-> "draft", deleted |-> FALSE,
                            total |-> total]
                      ELSE [@ EXCEPT !.total = total]]
       /\ lineOn' = [s \in Requests |->
             IF s = r /\ q.lines = 1 THEN q.inv
             ELSE IF s \in q.gone THEN None ELSE lineOn[s]]
       /\ report' = IF q.op = "report" THEN [report EXCEPT ![q.client] = TRUE]
                                       ELSE report
       /\ req' = [req EXCEPT ![r].stage = "committed"]
       /\ UNCHANGED <<note, inserted>>

(***************************************************************************)
(* Requests that move the status: read, check, then an unguarded UPDATE.   *)
(***************************************************************************)
Movable(op, i) ==
    CASE op = "send"    -> invoice[i].status = "draft"
      [] op = "overdue" -> invoice[i].status = "sent" /\ ~invoice[i].deleted
      [] op = "delete"  -> TRUE
      [] OTHER          -> invoice[i].status \notin {"paid", "cancelled"}

\* Wrong variant: a word InvoiceStatus does not have.
TargetWord(op) == IF op = "cancel" THEN "void" ELSE "sent"

Target(op) == CASE op = "send" -> "sent" [] op = "pay" -> "paid"
                [] op = "cancel" -> "cancelled" [] OTHER -> "overdue"

MoveInvoice(r, op, i) ==
    /\ Exists(i)
    /\ Movable(op, i)
    /\ Start(r, [Idle EXCEPT !.stage = "ready", !.op = op, !.inv = i,
                 !.client = invoice[i].client, !.total = invoice[i].total])

CommitMove(r) ==
    LET q == req[r]
    IN /\ q.stage = "ready" /\ q.op \in Moves
       /\ RowFree(r, q.inv)
       /\ invoice' = IF q.op = "delete"
                     THEN [invoice EXCEPT ![q.inv].deleted = TRUE]
                     ELSE [invoice EXCEPT ![q.inv].status = Target(q.op)]
       /\ req' = [req EXCEPT ![r].stage = "committed"]
       /\ UNCHANGED <<counter, lineOn, note, inserted, report>>

(***************************************************************************)
(* Credit notes: the number follows the note created last.                 *)
(***************************************************************************)
Notes == {r \in Requests : note[r] # "none"}
Latest(n) ==
    \E k \in DOMAIN inserted :
        /\ inserted[k] = n /\ n \in Notes
        /\ \A j \in DOMAIN inserted : j > k => inserted[j] \notin Notes

\* CreditNote.generate_number: one more than the note with the last stamp.
CreateNote(r, i) ==
    /\ Exists(i)
    /\ invoice[i].status # "cancelled"
    /\ \E m \in {0} \cup {req[n].number : n \in {s \in Notes : Latest(s)}} :
          /\ m = 0 => Notes = {}
          /\ Start(r, [Idle EXCEPT !.stage = "noting", !.op = "credit", !.inv = i,
                       !.client = invoice[i].client, !.number = m + 1])

\* Wrong variant: no unique index on the credit number.
InsertNoteUnchecked(r) ==
    /\ req[r].stage = "noting"
    /\ req' = [req EXCEPT ![r].stage = "ready"]
    /\ inserted' = Append(inserted, r)
    /\ UNCHANGED <<counter, invoice, lineOn, note, report>>

\* The unique index: a committed duplicate fails the insert, an open one
\* makes it wait.
InsertNote(r) ==
    LET same == {s \in Requests \ {r} : /\ req[s].op = "credit"
                                        /\ req[s].number = req[r].number}
    IN /\ req[r].stage = "noting"
       /\ \A s \in same : req[s].stage # "ready"
       /\ req' = [req EXCEPT ![r].stage =
                     IF same \cap Notes # {} THEN "failed" ELSE "ready"]
       /\ inserted' = IF same \cap Notes # {} THEN inserted
                                              ELSE Append(inserted, r)
       /\ UNCHANGED <<counter, invoice, lineOn, note, report>>

IssueNote(r, n) == /\ note[n] = "draft"
                   /\ Start(r, [Idle EXCEPT !.stage = "ready", !.op = "issue",
                                !.inv = n])
DropNote(r, n) == /\ note[n] # "none"
                  /\ Start(r, [Idle EXCEPT !.stage = "ready", !.op = "drop",
                               !.inv = n])

\* An UPDATE or DELETE of a note that is gone matches no row and fails.
CommitNote(r) ==
    LET q == req[r]
        gone == q.op # "credit" /\ q.inv \notin Notes
    IN /\ q.stage = "ready" /\ q.op \in {"credit", "issue", "drop"}
       /\ note' = IF gone THEN note
                  ELSE CASE q.op = "credit" -> [note EXCEPT ![r] = "draft"]
                         [] q.op = "issue" -> [note EXCEPT ![q.inv] = "issued"]
                         [] OTHER -> [note EXCEPT ![q.inv] = "none"]
       /\ req' = [req EXCEPT ![r].stage = IF gone THEN "failed" ELSE "committed"]
       /\ UNCHANGED <<counter, invoice, lineOn, inserted, report>>

\* A database error at any point undoes all of the request.
Rollback(r) == /\ Open(r)
               /\ Advance(r, [req[r] EXCEPT !.stage = "failed"])

Continue(r) == \/ FindDraft(r) \/ AllocateInvoiceNumber(r) \/ FlushHeader(r)
               \/ DeleteItems(r) \/ Recalculate(r) \/ CommitLines(r)
               \/ CommitMove(r) \/ InsertNote(r) \/ CommitNote(r)

Request(r) ==
    \/ \E c \in Clients : \/ BillWork(r, c) \/ BillReport(r, c)
                          \/ \E n \in {0, 1} : CreateInvoice(r, c, n)
    \/ \E i \in Requests : \/ \E n \in {0, 1}, first \in {"heading", "replacing"} :
                                EditInvoice(r, i, n, first)
                           \/ \E op \in Moves : MoveInvoice(r, op, i)
                           \/ CreateNote(r, i)
                           \/ IssueNote(r, i) \/ DropNote(r, i)

Next == \E r \in Requests : Request(r) \/ Continue(r) \/ Rollback(r)

Spec == Init /\ [][Next]_vars

\* Two edits of one invoice: s has written the header and waits for the lines
\* that r deletes, while r waits for the row that s has written.
EditsDeadlocked(r, s) ==
    /\ req[r].inv = req[s].inv
    /\ req[s].stage = "replacing" /\ req[s].locked
    /\ req[r].gone \cap LinesOf(req[s].inv) # {}
    /\ \/ req[r].stage = "adding" /\ req[r].total > 0
       \/ req[r].stage = "ready" /\ req[r].sum > 0

\* The database's deadlock detector rolls one of the two back.
AbortDeadlocked(r) ==
    /\ \E s \in Requests \ {r} : EditsDeadlocked(r, s) \/ EditsDeadlocked(s, r)
    /\ Rollback(r)

\* The database lets an open request run on when the row it waits for is free
\* and breaks that deadlock; of any other wait it is assumed to do nothing.
FairSpec == /\ Spec
            /\ \A r \in Requests : WF_vars(Continue(r)) /\ WF_vars(AbortDeadlocked(r))
----------------------------------------------------------------------------
(***************************************************************************)
(* Properties.                                                             *)
(***************************************************************************)
\* Invoice numbers are unique and without gaps, through any interleaving of
\* creations and rollbacks: "unique and gapless-by-issuance" (_atomic_next).
GaplessNumbers ==
    /\ {invoice[i].number : i \in {j \in Requests : Exists(j)}} = 1 .. counter
    /\ \A i, j \in Requests :
          Exists(i) /\ invoice[i].number = invoice[j].number => i = j

\* The stored total is the sum of the lines (Invoice.recalculate), unless
\* some writer of the invoice found it at zero: only then did its recompute
\* not take the row first.
TotalIsSum ==
    \A i \in Requests :
        Exists(i) =>
        \/ invoice[i].total = Cardinality(LinesOf(i))
        \/ \E r \in Requests \ {i} : /\ req[r].stage = "committed"
                                     /\ req[r].op \in Writers
                                     /\ req[r].inv = i /\ req[r].total = 0

\* Work that was committed is billed on an invoice of its client, until an
\* edit replaces that invoice's lines (the P1 contract of invoice_service).
CommittedWorkIsBilled ==
    \A r \in Requests :
        req[r].op \in {"work", "report"} /\ req[r].stage = "committed" =>
        \/ /\ lineOn[r] # None
           /\ Exists(lineOn[r]) /\ invoice[lineOn[r]].client = req[r].client
        \/ \E e \in Requests : /\ req[e].op = "edit"
                               /\ req[e].stage = "committed"
                               /\ r \in req[e].gone

\* As long as no note was deleted, notes carry the numbers 1 to n in the
\* order they were created (CreditNote.generate_number): a note's number is
\* its place among the notes inserted so far.
NotesInOrder ==
    (~\E r \in Requests : req[r].op = "drop" /\ req[r].stage = "committed") =>
    \A k \in DOMAIN inserted :
        inserted[k] \in Notes =>
        req[inserted[k]].number = Cardinality({j \in 1 .. k : inserted[j] \in Notes})

\* Each request started ends.  Two edits of an invoice can wait for each
\* other, one with a changed header and one without, and the database rolls
\* one back; no other requests wait for each other, in any order of their locks.
EveryRequestEnds ==
    \A r \in Requests : Open(r) ~> req[r].stage \in {"committed", "failed"}

\* An edit that types no line leaves the invoice's lines alone: the edit page
\* says it preloads the items from existing data.
EditKeepsLines ==
    [][\A e, r \in Requests :
          /\ req[e].op = "edit" /\ req[e].lines = 0
          /\ req[e].stage = "ready" /\ req'[e].stage = "committed"
          => lineOn'[r] = lineOn[r]]_vars
=============================================================================
