-------------------------- MODULE Invoicing_proofs --------------------------
(***************************************************************************)
(* For any number of requests and clients: type correctness of Invoicing,  *)
(* invoice numbers are unique and without gaps, committed work stays       *)
(* billed, a total is the sum of its lines unless a writer found it at     *)
(* zero, and credit notes are numbered in the order of their stamps.       *)
(***************************************************************************)
EXTENDS Invoicing, FiniteSetTheorems, FunctionTheorems, SequenceTheorems, TLAPS

Running(r) == req[r].stage \in {"adding", "ready"} /\ req[r].op \in Writers

\* An invoice exists once the request it is named after committed it.
RowInv ==
    \A r \in Requests :
        Exists(r) => /\ req[r].stage = "committed" /\ req[r].op \in Writers
                     /\ invoice[r].client \in Clients

\* What a running request has in hand.
HandInv ==
    \A r \in Requests :
        /\ req[r].op \in Writers => req[r].client \in Clients
        /\ req[r].stage \in {"finding", "allocating", "heading", "replacing", "adding"}
             => req[r].op \in Writers
        /\ req[r].stage = "noting" => req[r].op = "credit"
        /\ req[r].stage \in {"finding", "heading", "replacing"} => req[r].number = 0
        /\ req[r].stage = "finding" => req[r].op \in {"work", "report"}
        /\ req[r].stage \in {"heading", "replacing"} =>
             /\ req[r].op = "edit" /\ req[r].inv \in Requests
             /\ Exists(req[r].inv)
        /\ req[r].stage = "allocating" => req[r].inv = r /\ req[r].number = 0
        /\ Running(r) => /\ req[r].inv \in Requests
                         /\ req[r].inv = r <=> req[r].number > 0
                         /\ req[r].number > 0 => req[r].number = counter + 1
                         /\ req[r].inv # r => Exists(req[r].inv)
        /\ req[r].stage = "ready" /\ req[r].op \in Moves
             => req[r].inv \in Requests /\ Exists(req[r].inv)
        /\ req[r].stage = "ready" /\ req[r].op \in {"issue", "drop"}
             => req[r].inv \in Requests
        /\ req[r].op \in {"work", "report"} =>
             /\ req[r].lines = 1
             /\ Running(r) /\ req[r].inv # r
                  => invoice[req[r].inv].client = req[r].client
        /\ req[r].gone # {} => req[r].op = "edit"
        /\ lineOn[r] # None => req[r].stage = "committed"

\* The counter's row is held by one request at a time.
OneHolder == \A r, s \in CounterHolders : r = s

Inv == TypeOK /\ RowInv /\ HandInv /\ OneHolder /\ GaplessNumbers
       /\ CommittedWorkIsBilled

USE NoneIsNoClient

\* Lines of an invoice can be counted, since there are finitely many requests.
LEMMA LineCount ==
    ASSUME NEW i, NEW G PROVE Cardinality(LinesOf(i) \ G) \in Nat
  <1>1. IsFiniteSet(LinesOf(i) \ G)
    BY FiniteRequests, FS_Subset DEF LinesOf
  <1>2. QED BY <1>1, FS_CardinalityType

\* At first there is no invoice, no note and no request.
LEMMA InitInv == Init => Inv
  <1> SUFFICES ASSUME Init PROVE Inv
    OBVIOUS
  <1> USE DEF Init, Statuses, NoteStatuses, Stages, Writers, Moves, NoInvoice, Idle
  <1>1. TypeOK
    BY SMTT(30) DEF TypeOK, Rows, Transactions
  <1>2. RowInv
    BY SMTT(30) DEF TypeOK, Rows, Transactions, RowInv, Exists
  <1>3. HandInv
    BY SMTT(30) DEF TypeOK, Rows, Transactions, HandInv, RowInv, Running, Exists
  <1>4. OneHolder
    BY SMTT(30) DEF TypeOK, Rows, Transactions, OneHolder, CounterHolders, HandInv, Running
  <1>5. GaplessNumbers
    BY SMTT(30) DEF TypeOK, Rows, Transactions, GaplessNumbers, Exists, RowInv, HandInv, Running, OneHolder, CounterHolders
  <1>6. CommittedWorkIsBilled
    BY SMTT(30) DEF TypeOK, Rows, Transactions, CommittedWorkIsBilled, RowInv, HandInv, Running, Exists
  <1>7. QED BY <1>1, <1>2, <1>3, <1>4, <1>5, <1>6 DEF Inv

\* The invariant says nothing of other variables.
LEMMA StutterInv == ASSUME Inv, UNCHANGED vars PROVE Inv'
  BY DEF vars, Inv, TypeOK, Rows, Transactions, RowInv, HandInv, OneHolder, GaplessNumbers,
         CommittedWorkIsBilled, Exists, CounterHolders, Running

\* A request that starts, goes on or ends, and the row of an invoice it
\* writes, keep their types.
LEMMA TypedStart ==
    ASSUME TypeOK, NEW r \in Requests, NEW q \in Transactions, Start(r, q)
    PROVE  TypeOK'
  BY DEF TypeOK, Start

LEMMA TypedAdvance ==
    ASSUME TypeOK, NEW r \in Requests, NEW q \in Transactions, Advance(r, q)
    PROVE  TypeOK'
  BY DEF TypeOK, Advance

LEMMA TypedFields ==
    ASSUME NEW q \in Transactions, NEW st \in Stages, NEW i \in Requests,
           NEW k \in Nat, NEW b \in BOOLEAN, NEW G \in SUBSET Requests
    PROVE  /\ [q EXCEPT !.stage = st] \in Transactions
           /\ [q EXCEPT !.stage = st, !.inv = i] \in Transactions
           /\ [q EXCEPT !.stage = st, !.inv = i, !.total = k] \in Transactions
           /\ [q EXCEPT !.stage = st, !.number = k] \in Transactions
           /\ [q EXCEPT !.stage = st, !.gone = G] \in Transactions
           /\ [q EXCEPT !.stage = st, !.locked = b] \in Transactions
           /\ [q EXCEPT !.stage = st, !.locked = b, !.sum = k] \in Transactions
  BY DEF Transactions

LEMMA TypedStage ==
    ASSUME TypeOK, NEW r \in Requests, NEW st \in Stages
    PROVE  [req EXCEPT ![r].stage = st] \in [Requests -> Transactions]
  <1>1. req \in [Requests -> Transactions] /\ req[r] \in Transactions
    BY DEF TypeOK
  <1>2. [req[r] EXCEPT !.stage = st] \in Transactions
    BY <1>1 DEF Transactions
  <1>3. QED BY <1>1, <1>2

LEMMA TypedRow ==
    ASSUME NEW f \in [Requests -> Rows], NEW i \in Requests
    PROVE  /\ \A k \in Nat : [f EXCEPT ![i].total = k] \in [Requests -> Rows]
           /\ \A st \in Statuses : [f EXCEPT ![i].status = st] \in [Requests -> Rows]
           /\ [f EXCEPT ![i].deleted = TRUE] \in [Requests -> Rows]
           /\ \A k, n \in Nat, c \in Clients :
                 [f EXCEPT ![i] = [client |-> c, number |-> n, status |-> "draft",
                                   deleted |-> FALSE, total |-> k]]
                 \in [Requests -> Rows]
  <1>1. f[i] \in Rows
    OBVIOUS
  <1>2. ASSUME NEW k \in Nat PROVE [f[i] EXCEPT !.total = k] \in Rows
    BY <1>1, <1>2 DEF Rows
  <1>3. ASSUME NEW st \in Statuses PROVE [f[i] EXCEPT !.status = st] \in Rows
    BY <1>1, <1>3 DEF Rows
  <1>4. [f[i] EXCEPT !.deleted = TRUE] \in Rows
    BY <1>1 DEF Rows
  <1>5. ASSUME NEW k \in Nat, NEW n \in Nat, NEW c \in Clients
        PROVE  [client |-> c, number |-> n, status |-> "draft",
                deleted |-> FALSE, total |-> k] \in Rows
    BY <1>5 DEF Rows, Statuses
  <1>6. QED BY <1>2, <1>3, <1>4, <1>5

\* A request starts with nothing but the client, the invoice or the note it
\* asks for.
LEMMA BillWorkStep ==
    ASSUME Inv, NEW r \in Requests, NEW c \in Clients, BillWork(r, c) PROVE Inv'
  <1> USE DEF Inv, Statuses, NoteStatuses, Stages, Writers, Moves, NoInvoice, Idle
  <1> USE DEF BillWork, Start
  <1>1. TypeOK'
    <2>1. [Idle EXCEPT !.stage = "finding", !.op = "work", !.client = c,
               !.lines = 1] \in Transactions
      BY DEF TypeOK, Rows, Transactions
    <2>2. QED BY <2>1, TypedStart
  <1>2. RowInv'
    BY SMTT(20) DEF TypeOK, Rows, Transactions, RowInv, Exists
  <1>3. HandInv'
    BY SMTT(20) DEF TypeOK, Rows, Transactions, HandInv, RowInv, Running, Exists
  <1>4. OneHolder'
    BY SMTT(20) DEF TypeOK, Rows, Transactions, OneHolder, CounterHolders, HandInv, Running
  <1>5. GaplessNumbers'
    BY SMTT(20) DEF TypeOK, Rows, Transactions, GaplessNumbers, Exists, RowInv, HandInv, Running, OneHolder, CounterHolders
  <1>6. CommittedWorkIsBilled'
    BY SMTT(20) DEF TypeOK, Rows, Transactions, CommittedWorkIsBilled, RowInv, HandInv, Running, Exists
  <1>7. QED BY <1>1, <1>2, <1>3, <1>4, <1>5, <1>6 DEF Inv

LEMMA BillReportStep ==
    ASSUME Inv, NEW r \in Requests, NEW c \in Clients, BillReport(r, c) PROVE Inv'
  <1> USE DEF Inv, Statuses, NoteStatuses, Stages, Writers, Moves, NoInvoice, Idle
  <1> USE DEF BillReport, Start
  <1>1. TypeOK'
    <2>1. [Idle EXCEPT !.stage = "finding", !.op = "report", !.client = c,
               !.lines = 1] \in Transactions
      BY DEF TypeOK, Rows, Transactions
    <2>2. QED BY <2>1, TypedStart
  <1>2. RowInv'
    BY SMTT(20) DEF TypeOK, Rows, Transactions, RowInv, Exists
  <1>3. HandInv'
    BY SMTT(20) DEF TypeOK, Rows, Transactions, HandInv, RowInv, Running, Exists
  <1>4. OneHolder'
    BY SMTT(20) DEF TypeOK, Rows, Transactions, OneHolder, CounterHolders, HandInv, Running
  <1>5. GaplessNumbers'
    BY SMTT(20) DEF TypeOK, Rows, Transactions, GaplessNumbers, Exists, RowInv, HandInv, Running, OneHolder, CounterHolders
  <1>6. CommittedWorkIsBilled'
    BY SMTT(20) DEF TypeOK, Rows, Transactions, CommittedWorkIsBilled, RowInv, HandInv, Running, Exists
  <1>7. QED BY <1>1, <1>2, <1>3, <1>4, <1>5, <1>6 DEF Inv

LEMMA CreateInvoiceStep ==
    ASSUME Inv, NEW r \in Requests, NEW c \in Clients, NEW n \in {0, 1}, CreateInvoice(r, c, n) PROVE Inv'
  <1> USE DEF Inv, Statuses, NoteStatuses, Stages, Writers, Moves, NoInvoice, Idle
  <1> USE DEF CreateInvoice, Start
  <1>1. TypeOK'
    <2>1. [Idle EXCEPT !.stage = "allocating", !.op = "create",
               !.client = c, !.inv = r, !.lines = n] \in Transactions
      BY DEF TypeOK, Rows, Transactions
    <2>2. QED BY <2>1, TypedStart
  <1>2. RowInv'
    BY SMTT(20) DEF TypeOK, Rows, Transactions, RowInv, Exists
  <1>3. HandInv'
    BY SMTT(20) DEF TypeOK, Rows, Transactions, HandInv, RowInv, Running, Exists
  <1>4. OneHolder'
    BY SMTT(20) DEF TypeOK, Rows, Transactions, OneHolder, CounterHolders, HandInv, Running
  <1>5. GaplessNumbers'
    BY SMTT(20) DEF TypeOK, Rows, Transactions, GaplessNumbers, Exists, RowInv, HandInv, Running, OneHolder, CounterHolders
  <1>6. CommittedWorkIsBilled'
    BY SMTT(20) DEF TypeOK, Rows, Transactions, CommittedWorkIsBilled, RowInv, HandInv, Running, Exists
  <1>7. QED BY <1>1, <1>2, <1>3, <1>4, <1>5, <1>6 DEF Inv

LEMMA EditInvoiceStep ==
    ASSUME Inv, NEW r \in Requests, NEW i \in Requests, NEW n \in {0, 1},
           NEW first \in {"heading", "replacing"}, EditInvoice(r, i, n, first)
    PROVE  Inv'
  <1> USE DEF Inv, Statuses, NoteStatuses, Stages, Writers, Moves, NoInvoice, Idle
  <1> USE DEF EditInvoice, Start
  <1>1. TypeOK'
    <2>1. [Idle EXCEPT !.stage = first, !.op = "edit", !.inv = i,
               !.client = invoice[i].client, !.lines = n,
               !.total = invoice[i].total] \in Transactions
      BY DEF TypeOK, Rows, Transactions
    <2>2. QED BY <2>1, TypedStart
  <1>2. RowInv'
    BY SMTT(20) DEF TypeOK, Rows, Transactions, RowInv, Exists
  <1>3. HandInv'
    BY SMTT(20) DEF TypeOK, Rows, Transactions, HandInv, RowInv, Running, Exists
  <1>4. OneHolder'
    BY SMTT(20) DEF TypeOK, Rows, Transactions, OneHolder, CounterHolders, HandInv, Running
  <1>5. GaplessNumbers'
    BY SMTT(20) DEF TypeOK, Rows, Transactions, GaplessNumbers, Exists, RowInv, HandInv, Running, OneHolder, CounterHolders
  <1>6. CommittedWorkIsBilled'
    BY SMTT(20) DEF TypeOK, Rows, Transactions, CommittedWorkIsBilled, RowInv, HandInv, Running, Exists
  <1>7. QED BY <1>1, <1>2, <1>3, <1>4, <1>5, <1>6 DEF Inv

LEMMA MoveInvoiceStep ==
    ASSUME Inv, NEW r \in Requests, NEW i \in Requests, NEW op \in Moves, MoveInvoice(r, op, i) PROVE Inv'
  <1> USE DEF Inv, Statuses, NoteStatuses, Stages, Writers, Moves, NoInvoice, Idle
  <1> USE DEF MoveInvoice, Start
  <1>1. TypeOK'
    <2>1. [Idle EXCEPT !.stage = "ready", !.op = op, !.inv = i,
               !.client = invoice[i].client, !.total = invoice[i].total] \in Transactions
      BY DEF TypeOK, Rows, Transactions
    <2>2. QED BY <2>1, TypedStart
  <1>2. RowInv'
    BY SMTT(20) DEF TypeOK, Rows, Transactions, RowInv, Exists
  <1>3. HandInv'
    BY SMTT(20) DEF TypeOK, Rows, Transactions, HandInv, RowInv, Running, Exists
  <1>4. OneHolder'
    BY SMTT(20) DEF TypeOK, Rows, Transactions, OneHolder, CounterHolders, HandInv, Running
  <1>5. GaplessNumbers'
    BY SMTT(20) DEF TypeOK, Rows, Transactions, GaplessNumbers, Exists, RowInv, HandInv, Running, OneHolder, CounterHolders
  <1>6. CommittedWorkIsBilled'
    BY SMTT(20) DEF TypeOK, Rows, Transactions, CommittedWorkIsBilled, RowInv, HandInv, Running, Exists
  <1>7. QED BY <1>1, <1>2, <1>3, <1>4, <1>5, <1>6 DEF Inv

LEMMA IssueNoteStep ==
    ASSUME Inv, NEW r \in Requests, NEW i \in Requests, IssueNote(r, i) PROVE Inv'
  <1> USE DEF Inv, Statuses, NoteStatuses, Stages, Writers, Moves, NoInvoice, Idle
  <1> USE DEF IssueNote, Start
  <1>1. TypeOK'
    <2>1. [Idle EXCEPT !.stage = "ready", !.op = "issue", !.inv = i] \in Transactions
      BY DEF TypeOK, Rows, Transactions
    <2>2. QED BY <2>1, TypedStart
  <1>2. RowInv'
    BY SMTT(20) DEF TypeOK, Rows, Transactions, RowInv, Exists
  <1>3. HandInv'
    BY SMTT(20) DEF TypeOK, Rows, Transactions, HandInv, RowInv, Running, Exists
  <1>4. OneHolder'
    BY SMTT(20) DEF TypeOK, Rows, Transactions, OneHolder, CounterHolders, HandInv, Running
  <1>5. GaplessNumbers'
    BY SMTT(20) DEF TypeOK, Rows, Transactions, GaplessNumbers, Exists, RowInv, HandInv, Running, OneHolder, CounterHolders
  <1>6. CommittedWorkIsBilled'
    BY SMTT(20) DEF TypeOK, Rows, Transactions, CommittedWorkIsBilled, RowInv, HandInv, Running, Exists
  <1>7. QED BY <1>1, <1>2, <1>3, <1>4, <1>5, <1>6 DEF Inv

LEMMA DropNoteStep ==
    ASSUME Inv, NEW r \in Requests, NEW i \in Requests, DropNote(r, i) PROVE Inv'
  <1> USE DEF Inv, Statuses, NoteStatuses, Stages, Writers, Moves, NoInvoice, Idle
  <1> USE DEF DropNote, Start
  <1>1. TypeOK'
    <2>1. [Idle EXCEPT !.stage = "ready", !.op = "drop", !.inv = i] \in Transactions
      BY DEF TypeOK, Rows, Transactions
    <2>2. QED BY <2>1, TypedStart
  <1>2. RowInv'
    BY SMTT(20) DEF TypeOK, Rows, Transactions, RowInv, Exists
  <1>3. HandInv'
    BY SMTT(20) DEF TypeOK, Rows, Transactions, HandInv, RowInv, Running, Exists
  <1>4. OneHolder'
    BY SMTT(20) DEF TypeOK, Rows, Transactions, OneHolder, CounterHolders, HandInv, Running
  <1>5. GaplessNumbers'
    BY SMTT(20) DEF TypeOK, Rows, Transactions, GaplessNumbers, Exists, RowInv, HandInv, Running, OneHolder, CounterHolders
  <1>6. CommittedWorkIsBilled'
    BY SMTT(20) DEF TypeOK, Rows, Transactions, CommittedWorkIsBilled, RowInv, HandInv, Running, Exists
  <1>7. QED BY <1>1, <1>2, <1>3, <1>4, <1>5, <1>6 DEF Inv

\* The next number is given to a request that waited for the counter's row,
\* and holds it from then on.
LEMMA AllocateInvoiceNumberStep ==
    ASSUME Inv, NEW r \in Requests, AllocateInvoiceNumber(r) PROVE Inv'
  <1> USE DEF Inv, Statuses, NoteStatuses, Stages, Writers, Moves, NoInvoice, Idle
  <1> USE DEF AllocateInvoiceNumber, Advance
  <1>1. TypeOK'
    <2>1. req[r] \in Transactions /\ counter \in Nat
      BY DEF TypeOK
    <2>2. [req[r] EXCEPT !.stage = "adding", !.number = counter + 1] \in Transactions
      <3>1. counter + 1 \in Nat /\ "adding" \in Stages
        BY <2>1
      <3>2. QED BY <2>1, <3>1, TypedFields
    <2>3. QED BY <2>2, TypedAdvance
  <1>2. RowInv'
    BY SMTT(20) DEF TypeOK, Rows, Transactions, RowInv, Exists
  <1>3. HandInv'
    BY SMTT(20) DEF TypeOK, Rows, Transactions, HandInv, RowInv, Running, Exists
  <1>4. OneHolder'
    BY SMTT(20) DEF TypeOK, Rows, Transactions, OneHolder, CounterHolders, HandInv, Running
  <1>5. GaplessNumbers'
    BY SMTT(20) DEF TypeOK, Rows, Transactions, GaplessNumbers, Exists, RowInv, HandInv, Running, OneHolder, CounterHolders
  <1>6. CommittedWorkIsBilled'
    BY SMTT(20) DEF TypeOK, Rows, Transactions, CommittedWorkIsBilled, RowInv, HandInv, Running, Exists
  <1>7. QED BY <1>1, <1>2, <1>3, <1>4, <1>5, <1>6 DEF Inv

\* An edit writes a changed header first.
LEMMA FlushHeaderStep ==
    ASSUME Inv, NEW r \in Requests, FlushHeader(r) PROVE Inv'
  <1> USE DEF Inv, Statuses, NoteStatuses, Stages, Writers, Moves, NoInvoice, Idle
  <1> USE DEF FlushHeader, Advance
  <1>1. TypeOK'
    <2>1. req[r] \in Transactions /\ counter \in Nat
      BY DEF TypeOK
    <2>2. [req[r] EXCEPT !.stage = "replacing", !.locked = TRUE] \in Transactions
      BY <2>1, TypedFields DEF Stages
    <2>3. QED BY <2>2, TypedAdvance
  <1>2. RowInv'
    BY SMTT(20) DEF TypeOK, Rows, Transactions, RowInv, Exists
  <1>3. HandInv'
    BY SMTT(20) DEF TypeOK, Rows, Transactions, HandInv, RowInv, Running, Exists
  <1>4. OneHolder'
    BY SMTT(20) DEF TypeOK, Rows, Transactions, OneHolder, CounterHolders, HandInv, Running
  <1>5. GaplessNumbers'
    BY SMTT(20) DEF TypeOK, Rows, Transactions, GaplessNumbers, Exists, RowInv, HandInv, Running, OneHolder, CounterHolders
  <1>6. CommittedWorkIsBilled'
    BY SMTT(20) DEF TypeOK, Rows, Transactions, CommittedWorkIsBilled, RowInv, HandInv, Running, Exists
  <1>7. QED BY <1>1, <1>2, <1>3, <1>4, <1>5, <1>6 DEF Inv

\* An edit takes the lines of its invoice out before it adds its own.
LEMMA DeleteItemsStep ==
    ASSUME Inv, NEW r \in Requests, DeleteItems(r) PROVE Inv'
  <1> USE DEF Inv, Statuses, NoteStatuses, Stages, Writers, Moves, NoInvoice, Idle
  <1> USE DEF DeleteItems, Advance, LinesOf
  <1>1. TypeOK'
    <2>1. req[r] \in Transactions /\ counter \in Nat
      BY DEF TypeOK
    <2>2. [req[r] EXCEPT !.stage = "adding", !.gone = {s \in Requests : lineOn[s] = req[r].inv}] \in Transactions
      BY <2>1, TypedFields DEF Stages
    <2>3. QED BY <2>2, TypedAdvance
  <1>2. RowInv'
    BY SMTT(20) DEF TypeOK, Rows, Transactions, RowInv, Exists
  <1>3. HandInv'
    BY SMTT(20) DEF TypeOK, Rows, Transactions, HandInv, RowInv, Running, Exists
  <1>4. OneHolder'
    BY SMTT(20) DEF TypeOK, Rows, Transactions, OneHolder, CounterHolders, HandInv, Running
  <1>5. GaplessNumbers'
    BY SMTT(20) DEF TypeOK, Rows, Transactions, GaplessNumbers, Exists, RowInv, HandInv, Running, OneHolder, CounterHolders
  <1>6. CommittedWorkIsBilled'
    BY SMTT(20) DEF TypeOK, Rows, Transactions, CommittedWorkIsBilled, RowInv, HandInv, Running, Exists
  <1>7. QED BY <1>1, <1>2, <1>3, <1>4, <1>5, <1>6 DEF Inv

\* A change of a note touches no invoice; a rollback leaves the rows as they
\* were.
LEMMA CommitNoteStep ==
    ASSUME Inv, NEW r \in Requests, CommitNote(r) PROVE Inv'
  <1> USE DEF Inv, Statuses, NoteStatuses, Stages, Writers, Moves, NoInvoice, Idle
  <1> USE DEF CommitNote
  <1>1. TypeOK'
    <2>1. \/ req' = [req EXCEPT ![r].stage = "failed"]
          \/ req' = [req EXCEPT ![r].stage = "committed"]
      OBVIOUS
    <2>2. req' \in [Requests -> Transactions]
      <3> HIDE DEF CommitNote, Stages
      <3>1. "failed" \in Stages /\ "committed" \in Stages
        BY DEF Stages
      <3>2. TypeOK
        OBVIOUS
      <3>3. /\ [req EXCEPT ![r].stage = "failed"] \in [Requests -> Transactions]
            /\ [req EXCEPT ![r].stage = "committed"] \in [Requests -> Transactions]
        BY <3>1, <3>2, TypedStage
      <3>4. QED BY <2>1, <3>3, Zenon
    <2>3. QED BY <2>2 DEF TypeOK, Rows, Transactions
  <1>2. RowInv'
    BY SMTT(20) DEF TypeOK, Rows, Transactions, RowInv, Exists
  <1>3. HandInv'
    BY SMTT(20) DEF TypeOK, Rows, Transactions, HandInv, RowInv, Running, Exists
  <1>4. OneHolder'
    BY SMTT(20) DEF TypeOK, Rows, Transactions, OneHolder, CounterHolders, HandInv, Running
  <1>5. GaplessNumbers'
    BY SMTT(20) DEF TypeOK, Rows, Transactions, GaplessNumbers, Exists, RowInv, HandInv, Running, OneHolder, CounterHolders
  <1>6. CommittedWorkIsBilled'
    BY SMTT(20) DEF TypeOK, Rows, Transactions, CommittedWorkIsBilled, RowInv, HandInv, Running, Exists
  <1>7. QED BY <1>1, <1>2, <1>3, <1>4, <1>5, <1>6 DEF Inv

LEMMA RollbackStep ==
    ASSUME Inv, NEW r \in Requests, Rollback(r) PROVE Inv'
  <1> USE DEF Inv, Statuses, NoteStatuses, Stages, Writers, Moves, NoInvoice, Idle
  <1> USE DEF Rollback, Advance, Open
  <1>1. TypeOK'
    <2>1. req[r] \in Transactions /\ counter \in Nat
      BY DEF TypeOK
    <2>2. [req[r] EXCEPT !.stage = "failed"] \in Transactions
      BY <2>1, TypedFields DEF Stages
    <2>3. QED BY <2>2, TypedAdvance
  <1>2. RowInv'
    BY SMTT(20) DEF TypeOK, Rows, Transactions, RowInv, Exists
  <1>3. HandInv'
    BY SMTT(20) DEF TypeOK, Rows, Transactions, HandInv, RowInv, Running, Exists
  <1>4. OneHolder'
    BY SMTT(20) DEF TypeOK, Rows, Transactions, OneHolder, CounterHolders, HandInv, Running
  <1>5. GaplessNumbers'
    BY SMTT(20) DEF TypeOK, Rows, Transactions, GaplessNumbers, Exists, RowInv, HandInv, Running, OneHolder, CounterHolders
  <1>6. CommittedWorkIsBilled'
    BY SMTT(20) DEF TypeOK, Rows, Transactions, CommittedWorkIsBilled, RowInv, HandInv, Running, Exists
  <1>7. QED BY <1>1, <1>2, <1>3, <1>4, <1>5, <1>6 DEF Inv

\* A note, or a sum, in hand is not in the books yet.
LEMMA CreateNoteStep ==
    ASSUME Inv, NEW r \in Requests, NEW i \in Requests, CreateNote(r, i) PROVE Inv'
  <1> USE DEF Inv, Statuses, NoteStatuses, Stages, Writers, Moves, NoInvoice, Idle
  <1>a. PICK m \in Nat : Start(r, [Idle EXCEPT !.stage = "noting", !.op = "credit",
                        !.inv = i, !.client = invoice[i].client, !.number = m + 1])
    BY DEF CreateNote, Notes, TypeOK, Rows, Transactions
  <1> USE DEF Start
  <1>1. TypeOK'
    <2>1. [Idle EXCEPT !.stage = "noting", !.op = "credit", !.inv = i,
               !.client = invoice[i].client, !.number = m + 1] \in Transactions
      <3>1. invoice[i].client \in Clients \cup {None}
        BY DEF TypeOK, Rows
      <3>2. m + 1 \in Nat
        OBVIOUS
      <3>3. QED BY <3>1, <3>2 DEF Transactions
    <2>2. QED BY <1>a, <2>1, TypedStart
  <1>2. RowInv'
    BY <1>a, SMTT(20) DEF TypeOK, Rows, Transactions, RowInv, Exists
  <1>3. HandInv'
    BY <1>a, SMTT(20) DEF TypeOK, Rows, Transactions, HandInv, RowInv, Running, Exists
  <1>4. OneHolder'
    BY <1>a, SMTT(20) DEF TypeOK, Rows, Transactions, OneHolder, CounterHolders, HandInv, Running
  <1>5. GaplessNumbers'
    BY <1>a, SMTT(20) DEF TypeOK, Rows, Transactions, GaplessNumbers, Exists, RowInv, HandInv, Running, OneHolder, CounterHolders
  <1>6. CommittedWorkIsBilled'
    BY <1>a, SMTT(20) DEF TypeOK, Rows, Transactions, CommittedWorkIsBilled, RowInv, HandInv, Running, Exists
  <1>7. QED BY <1>1, <1>2, <1>3, <1>4, <1>5, <1>6 DEF Inv

LEMMA RecalculateStep ==
    ASSUME Inv, NEW r \in Requests, Recalculate(r) PROVE Inv'
  <1>t. req[r].lines \in Nat /\ req[r].locked \in BOOLEAN
    <2>1. req[r] \in Transactions
      BY DEF Inv, TypeOK
    <2>2. QED
      BY <2>1 DEF Transactions
  <1> USE DEF Inv, Statuses, NoteStatuses, Stages, Writers, Moves, NoInvoice, Idle
  <1>a. Cardinality(LinesOf(req[r].inv) \ req[r].gone) \in Nat
    BY LineCount
  <1> DEFINE locks == req[r].locked \/ (req[r].inv # r /\ req[r].total > 0)
             lines == Cardinality(LinesOf(req[r].inv) \ req[r].gone) + req[r].lines
  <1>k. lines \in Nat /\ locks \in BOOLEAN
    <2>1. lines \in Nat
      BY <1>a, <1>t
    <2>2. locks \in BOOLEAN
      BY <1>t, Zenon
    <2>3. QED BY <2>1, <2>2
  <1>m. Advance(r, [req[r] EXCEPT !.stage = "ready", !.locked = locks, !.sum = lines])
    BY Zenon DEF Recalculate
  <1> HIDE DEF locks, lines
  <1>b. PICK k \in Nat, b \in BOOLEAN :
           Advance(r, [req[r] EXCEPT !.stage = "ready", !.locked = b, !.sum = k])
    BY <1>k, <1>m, Zenon
  <1>c. req[r].stage = "adding"
    BY DEF Recalculate
  <1> USE DEF Advance
  <1>1. TypeOK'
    <2>1. req[r] \in Transactions /\ counter \in Nat
      BY DEF TypeOK
    <2>2. [req[r] EXCEPT !.stage = "ready", !.locked = b, !.sum = k] \in Transactions
      BY <1>b, <2>1, TypedFields DEF Stages
    <2>3. QED BY <1>b, <2>2, TypedAdvance
  <1>2. RowInv'
    BY <1>b, <1>c, SMTT(20) DEF TypeOK, Rows, Transactions, RowInv, Exists
  <1>3. HandInv'
    BY <1>b, <1>c, SMTT(20) DEF TypeOK, Rows, Transactions, HandInv, RowInv, Running, Exists
  <1>4. OneHolder'
    BY <1>b, <1>c, SMTT(20) DEF TypeOK, Rows, Transactions, OneHolder, CounterHolders, HandInv, Running
  <1>5. GaplessNumbers'
    BY <1>b, <1>c, SMTT(20) DEF TypeOK, Rows, Transactions, GaplessNumbers, Exists, RowInv, HandInv, Running, OneHolder, CounterHolders
  <1>6. CommittedWorkIsBilled'
    BY <1>b, <1>c, SMTT(20) DEF TypeOK, Rows, Transactions, CommittedWorkIsBilled, RowInv, HandInv, Running, Exists
  <1>7. QED BY <1>1, <1>2, <1>3, <1>4, <1>5, <1>6 DEF Inv

LEMMA InsertNoteStep ==
    ASSUME Inv, NEW r \in Requests, InsertNote(r) PROVE Inv'
  <1> USE DEF Inv, Statuses, NoteStatuses, Stages, Writers, Moves, NoInvoice, Idle
  <1>a. PICK st \in {"failed", "ready"} : req' = [req EXCEPT ![r].stage = st]
    BY DEF InsertNote
  <1>b. /\ req[r].stage = "noting" /\ inserted' \in Seq(Requests)
        /\ UNCHANGED <<counter, invoice, lineOn, note, report>>
    BY DEF InsertNote, TypeOK
  <1>1. TypeOK'
    <2>1. req' \in [Requests -> Transactions]
      BY <1>a, TypedStage
    <2>2. QED BY <1>b, <2>1 DEF TypeOK
  <1>2. RowInv'
    BY <1>a, <1>b, SMTT(20) DEF TypeOK, Rows, Transactions, RowInv, Exists
  <1>3. HandInv'
    BY <1>a, <1>b, SMTT(20) DEF TypeOK, Rows, Transactions, HandInv, RowInv, Running, Exists
  <1>4. OneHolder'
    BY <1>a, <1>b, SMTT(20) DEF TypeOK, Rows, Transactions, OneHolder, CounterHolders, HandInv, Running
  <1>5. GaplessNumbers'
    BY <1>a, <1>b, SMTT(20) DEF TypeOK, Rows, Transactions, GaplessNumbers, Exists, RowInv, HandInv, Running, OneHolder, CounterHolders
  <1>6. CommittedWorkIsBilled'
    BY <1>a, <1>b, SMTT(20) DEF TypeOK, Rows, Transactions, CommittedWorkIsBilled, RowInv, HandInv, Running, Exists
  <1>7. QED BY <1>1, <1>2, <1>3, <1>4, <1>5, <1>6 DEF Inv

\* The draft that is found is the client's, or there is none and a number is
\* needed.
LEMMA FindDraftStep ==
    ASSUME Inv, NEW r \in Requests, FindDraft(r) PROVE Inv'
  <1> USE DEF Inv, Statuses, NoteStatuses, Stages, Writers, Moves, NoInvoice, Idle, Advance
  <1>a. req[r].stage = "finding"
    BY DEF FindDraft
  <1>b. ASSUME NEW d \in Drafts(req[r].client),
               Advance(r, [req[r] EXCEPT !.stage = "adding", !.inv = d,
                                         !.total = invoice[d].total])
        PROVE  Inv'
    <2>a. /\ d \in Requests /\ Exists(d) /\ invoice[d].client = req[r].client
          /\ d # r
      BY <1>a, <1>b DEF Drafts, RowInv, TypeOK
    <2>1. TypeOK'
      <3>1. req[r] \in Transactions /\ counter \in Nat
        BY DEF TypeOK
      <3>2. [req[r] EXCEPT !.stage = "adding", !.inv = d,!.total = invoice[d].total] \in Transactions
        <4>1. invoice[d].total \in Nat /\ "adding" \in Stages
          BY <2>a DEF TypeOK, Rows
        <4>2. QED BY <2>a, <3>1, <4>1, TypedFields
      <3>3. QED BY <1>b, <2>a, <3>2, TypedAdvance
    <2>2. RowInv'
      BY <1>a, <1>b, <2>a, SMTT(20) DEF TypeOK, Rows, Transactions, RowInv, Exists
    <2>3. HandInv'
      BY <1>a, <1>b, <2>a, SMTT(20) DEF TypeOK, Rows, Transactions, HandInv, RowInv, Running, Exists
    <2>4. OneHolder'
      BY <1>a, <1>b, <2>a, SMTT(20) DEF TypeOK, Rows, Transactions, OneHolder, CounterHolders, HandInv, Running
    <2>5. GaplessNumbers'
      BY <1>a, <1>b, <2>a, SMTT(20) DEF TypeOK, Rows, Transactions, GaplessNumbers, Exists, RowInv, HandInv, Running, OneHolder, CounterHolders
    <2>6. CommittedWorkIsBilled'
      BY <1>a, <1>b, <2>a, SMTT(20) DEF TypeOK, Rows, Transactions, CommittedWorkIsBilled, RowInv, HandInv, Running, Exists
    <2>7. QED BY <2>1, <2>2, <2>3, <2>4, <2>5, <2>6 DEF Inv
  <1>c. ASSUME Advance(r, [req[r] EXCEPT !.stage = "allocating", !.inv = r])
        PROVE  Inv'
    <2>1. TypeOK'
      <3>1. req[r] \in Transactions /\ counter \in Nat
        BY DEF TypeOK
      <3>2. [req[r] EXCEPT !.stage = "allocating", !.inv = r] \in Transactions
        BY <1>c, <3>1, TypedFields DEF Stages
      <3>3. QED BY <1>c, <3>2, TypedAdvance
    <2>2. RowInv'
      BY <1>a, <1>c, SMTT(20) DEF TypeOK, Rows, Transactions, RowInv, Exists
    <2>3. HandInv'
      BY <1>a, <1>c, SMTT(20) DEF TypeOK, Rows, Transactions, HandInv, RowInv, Running, Exists
    <2>4. OneHolder'
      BY <1>a, <1>c, SMTT(20) DEF TypeOK, Rows, Transactions, OneHolder, CounterHolders, HandInv, Running
    <2>5. GaplessNumbers'
      BY <1>a, <1>c, SMTT(20) DEF TypeOK, Rows, Transactions, GaplessNumbers, Exists, RowInv, HandInv, Running, OneHolder, CounterHolders
    <2>6. CommittedWorkIsBilled'
      BY <1>a, <1>c, SMTT(20) DEF TypeOK, Rows, Transactions, CommittedWorkIsBilled, RowInv, HandInv, Running, Exists
    <2>7. QED BY <2>1, <2>2, <2>3, <2>4, <2>5, <2>6 DEF Inv
  <1>d. QED BY <1>b, <1>c DEF FindDraft

\* The commit of lines: a new invoice uses the next number, a line is on an
\* invoice of its client, and only an edit removes lines.
LEMMA CommitLinesStep ==
    ASSUME Inv, NEW r \in Requests, CommitLines(r) PROVE Inv'
  <1> USE DEF Inv, Statuses, NoteStatuses, Stages, Writers, Moves, NoInvoice, Idle
  <1>a. /\ req[r].stage = "ready" /\ req[r].op \in Writers
        /\ req' = [req EXCEPT ![r].stage = "committed"]
        /\ lineOn' = [s \in Requests |->
              IF s = r /\ req[r].lines = 1 THEN req[r].inv
              ELSE IF s \in req[r].gone THEN None ELSE lineOn[s]]
        /\ report' \in [Clients -> BOOLEAN]
        /\ UNCHANGED <<note, inserted>>
    BY SMTT(20) DEF CommitLines, HandInv, TypeOK, Rows, Transactions
  <1>b. req[r].inv \in Requests /\ req[r].client \in Clients
    BY <1>a DEF HandInv, Running, TypeOK, Rows, Transactions
  <1>c. CASE req[r].inv = r
    <2>a. invoice' = [invoice EXCEPT ![r] =
                [client |-> req[r].client, number |-> req[r].number,
                 status |-> "draft", deleted |-> FALSE, total |-> req[r].sum]]
      BY <1>c, Zenon DEF CommitLines
    <2>b. counter' = counter + 1 /\ req[r].number = counter + 1 /\ ~Exists(r)
      BY <1>a, <1>c, SMTT(20) DEF CommitLines, HandInv, RowInv, Running, TypeOK
    <2>d. r \in CounterHolders
      BY <1>a, <2>b DEF CounterHolders, TypeOK
    <2>e. \A s \in Requests : Running(s) /\ req[s].number > 0 => s \in CounterHolders
      BY DEF CounterHolders, Running
    <2>c. \A s \in Requests \ {r} : ~(Running(s) /\ req[s].number > 0)
      BY <2>d, <2>e, Zenon DEF OneHolder
    <2>1. TypeOK'
      <3>1. req' \in [Requests -> Transactions]
        BY <1>a, TypedStage
      <3>2. lineOn' \in [Requests -> Requests \cup {None}]
        BY <1>a, <1>b DEF TypeOK
      <3>3. invoice' \in [Requests -> Rows]
        <4>1. req[r].sum \in Nat /\ req[r].number \in Nat
          BY DEF TypeOK, Transactions
        <4>2. invoice \in [Requests -> Rows]
          BY DEF TypeOK
        <4> HIDE DEF Statuses
        <4>3. [invoice EXCEPT ![r] =
                 [client |-> req[r].client, number |-> req[r].number,
                  status |-> "draft", deleted |-> FALSE, total |-> req[r].sum]]
                 \in [Requests -> Rows]
          BY <1>b, <4>1, <4>2, TypedRow
        <4>4. QED BY <2>a, <4>3, Zenon
      <3>4. counter' \in Nat /\ note' \in [Requests -> NoteStatuses]
                /\ inserted' \in Seq(Requests) /\ report' \in [Clients -> BOOLEAN]
        BY <1>a, <2>b DEF TypeOK
      <3> HIDE DEF Statuses, NoteStatuses, Stages, Writers, Moves
      <3>5. QED BY <3>1, <3>2, <3>3, <3>4, Zenon DEF TypeOK
    <2>2. RowInv'
      BY <1>a, <1>b, <1>c, <2>a, <2>b, <2>c, SMTT(20) DEF TypeOK, Rows, Transactions, RowInv, Exists
    <2>3. HandInv'
      BY <1>a, <1>b, <1>c, <2>a, <2>b, <2>c, SMTT(20) DEF TypeOK, Rows, Transactions, HandInv, RowInv, Running, Exists
    <2>4. OneHolder'
      BY <1>a, <1>b, <1>c, <2>a, <2>b, <2>c, SMTT(20) DEF TypeOK, Rows, Transactions, OneHolder, CounterHolders, HandInv, Running
    <2>5. GaplessNumbers'
      <3> DEFINE Old == {j \in Requests : Exists(j)}
      <3>1. /\ \A j \in Requests \ {r} : invoice'[j] = invoice[j]
            /\ invoice'[r].number = counter + 1
        BY <2>a, <2>b DEF TypeOK
      <3>2. counter \in Nat /\ \A j \in Requests : invoice[j].number \in Nat
        BY DEF TypeOK, Rows
      <3>3. \A j \in Requests : (invoice[j].number > 0) => invoice[j].number \in 1 .. counter
        BY DEF GaplessNumbers, Exists
      <3>4. {j \in Requests : Exists(j)'} = Old \cup {r}
        BY <3>1, <3>2 DEF Exists
      <3>5. {invoice'[j].number : j \in Old \cup {r}}
              = {invoice[j].number : j \in Old} \cup {counter + 1}
        BY <2>b, <3>1, Zenon
      <3>6. 1 .. (counter + 1) = (1 .. counter) \cup {counter + 1}
        BY <3>2
      <3>7. {invoice'[j].number : j \in {k \in Requests : Exists(k)'}} = 1 .. counter'
        BY <2>b, <3>4, <3>5, <3>6 DEF GaplessNumbers
      <3>8. ASSUME NEW i \in Requests, NEW j \in Requests,
                   invoice'[i].number > 0, invoice'[i].number = invoice'[j].number
            PROVE  i = j
        BY <3>1, <3>2, <3>3, <3>8 DEF GaplessNumbers, Exists
      <3>9. QED BY <3>7, <3>8 DEF GaplessNumbers, Exists
    <2>6. CommittedWorkIsBilled'
      BY <1>a, <1>b, <1>c, <2>a, <2>b, <2>c, SMTT(20) DEF TypeOK, Rows, Transactions, CommittedWorkIsBilled, RowInv, HandInv, Running, Exists
    <2>7. QED BY <2>1, <2>2, <2>3, <2>4, <2>5, <2>6 DEF Inv
  <1>d. CASE req[r].inv # r
    <2>a. /\ Exists(req[r].inv) /\ counter' = counter
          /\ req[r].number = 0
      BY <1>a, <1>d, SMTT(20) DEF CommitLines, HandInv, Running, TypeOK, Rows, Transactions
    <2> DEFINE k == IF req[r].inv = r \/ req[r].total > 0 \/ req[r].sum > 0
                    THEN req[r].sum ELSE invoice[req[r].inv].total
    <2>k. k \in Nat
      BY <1>b DEF TypeOK, Rows, Transactions
    <2>m. invoice' = [invoice EXCEPT ![req[r].inv] = [@ EXCEPT !.total = k]]
      BY <1>d, Zenon DEF CommitLines
    <2> HIDE DEF k
    <2>b. invoice' = [invoice EXCEPT ![req[r].inv].total = k]
      BY <1>b, <2>m DEF TypeOK
    <2>1. TypeOK'
      <3>1. req' \in [Requests -> Transactions]
        BY <1>a, TypedStage
      <3>2. lineOn' \in [Requests -> Requests \cup {None}]
        BY <1>a, <1>b DEF TypeOK
      <3>3. invoice' \in [Requests -> Rows]
        BY <1>b, <2>b, <2>k, TypedRow DEF TypeOK
      <3>4. counter' \in Nat /\ note' \in [Requests -> NoteStatuses]
                /\ inserted' \in Seq(Requests) /\ report' \in [Clients -> BOOLEAN]
        BY <1>a, <2>a DEF TypeOK
      <3> HIDE DEF Statuses, NoteStatuses, Stages, Writers, Moves
      <3>5. QED BY <3>1, <3>2, <3>3, <3>4, Zenon DEF TypeOK
    <2>2. RowInv'
      BY <1>a, <1>b, <1>d, <2>a, <2>b, <2>k, SMTT(20) DEF TypeOK, Rows, Transactions, RowInv, Exists
    <2>3. HandInv'
      BY <1>a, <1>b, <1>d, <2>a, <2>b, <2>k, SMTT(20) DEF TypeOK, Rows, Transactions, HandInv, RowInv, Running, Exists
    <2>4. OneHolder'
      BY <1>a, <1>b, <1>d, <2>a, <2>b, <2>k, SMTT(20) DEF TypeOK, Rows, Transactions, OneHolder, CounterHolders, HandInv, Running
    <2>5. GaplessNumbers'
      BY <1>a, <1>b, <1>d, <2>a, <2>b, <2>k, SMTT(20) DEF TypeOK, Rows, Transactions, GaplessNumbers, Exists, RowInv, HandInv, Running, OneHolder, CounterHolders
    <2>6. CommittedWorkIsBilled'
      BY <1>a, <1>b, <1>d, <2>a, <2>b, <2>k, SMTT(20) DEF TypeOK, Rows, Transactions, CommittedWorkIsBilled, RowInv, HandInv, Running, Exists
    <2>7. QED BY <2>1, <2>2, <2>3, <2>4, <2>5, <2>6 DEF Inv
  <1>e. QED BY <1>c, <1>d

\* A change of status leaves number, client and lines.
LEMMA CommitMoveStep ==
    ASSUME Inv, NEW r \in Requests, CommitMove(r) PROVE Inv'
  <1> USE DEF Inv, Statuses, NoteStatuses, Stages, Writers, Moves, NoInvoice, Idle
  <1>a. /\ req[r].stage = "ready" /\ req[r].op \in Moves
        /\ req' = [req EXCEPT ![r].stage = "committed"]
        /\ UNCHANGED <<counter, lineOn, note, inserted, report>>
    BY DEF CommitMove
  <1>b. req[r].inv \in Requests /\ Exists(req[r].inv)
    BY <1>a DEF HandInv
  <1> DEFINE Kept == /\ invoice' \in [Requests -> Rows]
                     /\ \A i \in Requests : /\ invoice'[i].number = invoice[i].number
                                            /\ invoice'[i].client = invoice[i].client
  <1>d. ASSUME req[r].op = "delete" PROVE Kept
    <2>1. invoice' = [invoice EXCEPT ![req[r].inv].deleted = TRUE]
      BY <1>d, Zenon DEF CommitMove
    <2>2. invoice' \in [Requests -> Rows]
      BY <1>b, <2>1, TypedRow DEF TypeOK
    <2>3. QED BY <1>b, <2>1, <2>2 DEF TypeOK, Rows
  <1>e. ASSUME req[r].op # "delete" PROVE Kept
    <2>1. invoice' = [invoice EXCEPT ![req[r].inv].status = Target(req[r].op)]
      BY <1>e, Zenon DEF CommitMove
    <2>2. Target(req[r].op) \in Statuses
      BY DEF Target
    <2> HIDE DEF Statuses
    <2>3. invoice' \in [Requests -> Rows]
      BY <1>b, <2>1, <2>2, TypedRow DEF TypeOK
    <2>4. QED BY <1>b, <2>1, <2>3 DEF TypeOK, Rows
  <1>c. /\ invoice' \in [Requests -> Rows]
        /\ \A i \in Requests : /\ invoice'[i].number = invoice[i].number
                               /\ invoice'[i].client = invoice[i].client
    BY <1>d, <1>e
  <1> HIDE DEF Kept
  <1>1. TypeOK'
    <2>1. req' \in [Requests -> Transactions]
      BY <1>a, TypedStage
    <2>2. QED BY <1>a, <1>c, <2>1 DEF TypeOK
  <1>2. RowInv'
    BY <1>a, <1>b, <1>c, SMTT(20) DEF TypeOK, Rows, Transactions, RowInv, Exists
  <1>f. \A i \in Requests : Exists(i)' <=> Exists(i)
    BY <1>c DEF Exists
  <1>3. HandInv'
    <2> SUFFICES ASSUME NEW s \in Requests PROVE HandInv!(s)'
      BY DEF HandInv
    <2> QED BY <1>a, <1>c, <1>f, SMTT(30) DEF TypeOK, Transactions, HandInv, Running
  <1>4. OneHolder'
    <2>1. \A s \in Requests \ {r} : req'[s] = req[s]
      BY <1>a DEF TypeOK
    <2>2. req'[r].stage = "committed"
      BY <1>a, TypedStage DEF TypeOK, Transactions
    <2>3. CounterHolders' \subseteq CounterHolders
      BY <2>1, <2>2, Zenon DEF CounterHolders
    <2>4. QED BY <2>3, Zenon DEF OneHolder
  <1>5. GaplessNumbers'
    <2>1. {invoice'[i].number : i \in {j \in Requests : Exists(j)'}}
            = {invoice[i].number : i \in {j \in Requests : Exists(j)}}
      BY <1>c, <1>f, Zenon
    <2>2. QED BY <1>a, <1>c, <1>f, <2>1 DEF GaplessNumbers
  <1>6. CommittedWorkIsBilled'
    BY <1>a, <1>c, <1>f, SMTT(30) DEF TypeOK, Transactions, CommittedWorkIsBilled
  <1>7. QED BY <1>1, <1>2, <1>3, <1>4, <1>5, <1>6 DEF Inv

\* Every step keeps the invariant.
LEMMA NextInv == ASSUME Inv, [Next]_vars PROVE Inv'
  <1>1. CASE UNCHANGED vars
    BY <1>1, StutterInv
  <1>2. ASSUME NEW r \in Requests, Request(r) PROVE Inv'
    BY <1>2, BillWorkStep, BillReportStep, CreateInvoiceStep, EditInvoiceStep,
       MoveInvoiceStep, CreateNoteStep, IssueNoteStep, DropNoteStep DEF Request
  <1>3. ASSUME NEW r \in Requests, Continue(r) PROVE Inv'
    BY <1>3, FindDraftStep, AllocateInvoiceNumberStep, FlushHeaderStep,
       DeleteItemsStep, RecalculateStep, CommitLinesStep, CommitMoveStep, InsertNoteStep,
       CommitNoteStep DEF Continue
  <1>4. QED BY <1>1, <1>2, <1>3, RollbackStep DEF Next

\* The inductive invariant holds in every state.
LEMMA SpecInv == Spec => []Inv
  BY InitInv, NextInv, PTL DEF Spec

\* Every variable of the books keeps its type.
THEOREM Typing == Spec => []TypeOK
  BY SpecInv, PTL DEF Inv

\* Issued invoice numbers are exactly 1 to the counter, each on one invoice.
THEOREM Numbering == Spec => []GaplessNumbers
  BY SpecInv, PTL DEF Inv

\* Committed work is on an invoice of its client until an edit replaces it.
THEOREM Billing == Spec => []CommittedWorkIsBilled
  BY SpecInv, PTL DEF Inv

-----------------------------------------------------------------------------
(* The total is the sum of the lines *)

\* A committed writer of invoice i found its total at zero.
FoundZero(i) ==
    \E r \in Requests \ {i} : /\ req[r].stage = "committed"
                              /\ req[r].op \in Writers
                              /\ req[r].inv = i /\ req[r].total = 0

\* The request has computed a total and not committed it yet.
Summed(r) == req[r].stage = "ready" /\ req[r].op \in Writers

\* The lines the invoice will have when the request commits.
LinesAfter(r) == Cardinality(LinesOf(req[r].inv) \ req[r].gone) + req[r].lines

\* The total is written whatever it is: the invoice is new, or the recompute
\* has flushed a zero in place of the total it found.
Rewrites(r) == req[r].inv = r \/ req[r].total > 0

\* What an open request holds: the invoice's row, if it has written a changed
\* header or its recompute changed a total that was not zero, and the lines it
\* deletes; nobody else holds the same row or deletes the same lines.
LockInv ==
    \A r \in Requests :
        /\ Open(r) /\ req[r].locked => req[r].stage \in {"replacing", "adding", "ready"}
        /\ Summed(r) => (req[r].inv # r /\ req[r].total > 0 => req[r].locked)
        /\ req[r].op = "edit" => req[r].inv # r
        /\ lineOn[r] # None => Exists(lineOn[r])
        /\ Open(r) => \A x \in req[r].gone : lineOn[x] = req[r].inv
        /\ \A s \in Requests \ {r} : Open(r) /\ Open(s) =>
              /\ req[r].gone \cap req[s].gone = {}
              /\ req[r].locked /\ req[s].locked => req[r].inv # req[s].inv

\* A total computed under the lock, or for a new invoice, is still right when
\* it is committed, unless a writer that held no lock came between.
SumInv ==
    \A r \in Requests :
        Summed(r) /\ Rewrites(r) =>
            req[r].sum = LinesAfter(r) \/ FoundZero(req[r].inv)

\* What a request has in hand after a step of its own that writes no lines.
After(r) ==
    /\ req'[r].op = "edit" => req'[r].inv # r
    /\ Open(r)' =>
          /\ \A x \in req'[r].gone : lineOn[x] = req'[r].inv
          /\ \A s \in Requests \ {r} : Open(s) => req'[r].gone \cap req[s].gone = {}
          /\ req'[r].locked => /\ req'[r].stage \in {"replacing", "adding", "ready"}
                               /\ RowFree(r, req'[r].inv)
    /\ Summed(r)' =>
          /\ req'[r].inv # r /\ req'[r].total > 0 => req'[r].locked
          /\ Rewrites(r)' =>
                req'[r].sum = Cardinality(LinesOf(req'[r].inv) \ req'[r].gone) + req'[r].lines

\* Nothing but r's transaction moves, and what the database shows of lines
\* and totals stays.
Quiet(r) ==
    /\ UNCHANGED lineOn
    /\ \A i \in Requests : /\ Exists(i)' <=> Exists(i)
                           /\ invoice'[i].total = invoice[i].total
    /\ \A s \in Requests \ {r} : req'[s] = req[s]
    /\ req[r].stage # "committed"

\* A quiet step that leaves r with what it should have keeps the invariants.
LEMMA QuietKeeps ==
    ASSUME Inv, Inv', LockInv, SumInv, TotalIsSum, NEW r \in Requests, Quiet(r), After(r)
    PROVE  LockInv' /\ SumInv' /\ TotalIsSum'
  <1>1. /\ lineOn' = lineOn
        /\ \A i \in Requests : (Exists(i)' <=> Exists(i)) /\ invoice'[i].total = invoice[i].total
        /\ \A s \in Requests \ {r} : req'[s] = req[s]
        /\ req[r].stage # "committed"
    BY DEF Quiet
  <1>2. \A s \in Requests \ {r} : (Open(s)' <=> Open(s)) /\ (Summed(s)' <=> Summed(s))
    BY <1>1 DEF Open, Summed
  <1>3. \A i \in Requests \cup {None} : FoundZero(i) => FoundZero(i)'
    BY <1>1 DEF FoundZero
  <1>4. \A i : LinesOf(i)' = LinesOf(i)
    BY <1>1 DEF LinesOf
  <1>5. LockInv'
    <2> SUFFICES ASSUME NEW s \in Requests PROVE LockInv!(s)'
      BY DEF LockInv
    <2>1. (lineOn[s] # None => Exists(lineOn[s]))'
      BY <1>1 DEF LockInv, Inv, TypeOK
    <2>2. ASSUME NEW u \in Requests \ {r}, Open(r)', Open(u)', req'[r].locked, req'[u].locked
          PROVE  req'[r].inv # req'[u].inv
      <3>1. RowFree(r, req'[r].inv) /\ Open(u) /\ req[u].locked /\ req'[u].inv = req[u].inv
        BY <1>1, <1>2, <2>2 DEF After
      <3>2. QED
        BY <3>1 DEF RowFree
    <2>3. ASSUME NEW u \in Requests \ {r}, Open(r)', Open(u)'
          PROVE  req'[r].gone \cap req'[u].gone = {}
      BY <1>1, <1>2, <2>3 DEF After
    <2>4. CASE s = r
      BY <1>1, <2>1, <2>2, <2>3, <2>4 DEF After
    <2>5. CASE s # r
      <3>1. ASSUME NEW u \in Requests \ {s}, Open(s)', Open(u)'
            PROVE  /\ req'[s].gone \cap req'[u].gone = {}
                   /\ req'[s].locked /\ req'[u].locked => req'[s].inv # req'[u].inv
        <4>1. CASE u = r
          BY <2>2, <2>3, <2>5, <3>1, <4>1
        <4>2. CASE u # r
          BY <1>1, <1>2, <2>5, <3>1, <4>2 DEF LockInv
        <4>3. QED
          BY <4>1, <4>2
      <3>2. /\ req'[s] = req[s] /\ (Open(s)' <=> Open(s)) /\ (Summed(s)' <=> Summed(s))
        BY <1>1, <1>2, <2>5
      <3>3. /\ Open(s)' /\ req'[s].locked => req'[s].stage \in {"replacing", "adding", "ready"}
            /\ Summed(s)' => (req'[s].inv # s /\ req'[s].total > 0 => req'[s].locked)
            /\ req'[s].op = "edit" => req'[s].inv # s
            /\ Open(s)' => \A x \in req'[s].gone : lineOn'[x] = req'[s].inv
        <4>1. /\ Open(s) /\ req[s].locked => req[s].stage \in {"replacing", "adding", "ready"}
              /\ Summed(s) => (req[s].inv # s /\ req[s].total > 0 => req[s].locked)
              /\ req[s].op = "edit" => req[s].inv # s
              /\ Open(s) => \A x \in req[s].gone : lineOn[x] = req[s].inv
          BY DEF LockInv
        <4>2. QED
          BY <1>1, <3>2, <4>1
      <3>4. QED
        BY <2>1, <3>1, <3>3
    <2>6. QED
      BY <2>4, <2>5
  <1>6. SumInv'
    <2> SUFFICES ASSUME NEW s \in Requests, Summed(s)', Rewrites(s)'
                 PROVE  (req[s].sum = LinesAfter(s) \/ FoundZero(req[s].inv))'
      BY DEF SumInv
    <2>1. CASE s = r
      BY <1>4, <2>1 DEF After, LinesAfter
    <2>2. CASE s # r
      <3>1. req'[s] = req[s] /\ Summed(s) /\ Rewrites(s)
        BY <1>1, <1>2, <2>2 DEF Rewrites
      <3>2. req[s].inv \in Requests \cup {None}
        BY DEF Inv, TypeOK, Transactions
      <3>3. LinesAfter(s)' = LinesAfter(s)
        BY <1>4, <3>1 DEF LinesAfter
      <3>4. QED
        BY <1>3, <3>1, <3>2, <3>3 DEF SumInv
    <2>3. QED
      BY <2>1, <2>2
  <1>7. TotalIsSum'
    BY <1>1, <1>3, <1>4, Zenon DEF TotalIsSum, FoundZero
  <1>8. QED
    BY <1>5, <1>6, <1>7

\* A request that starts holds nothing.
LEMMA StartQuiet ==
    ASSUME Inv, LockInv, NEW r \in Requests, NEW q, Start(r, q),
           q.gone = {}, q.locked = FALSE, q.op = "edit" => q.inv # r,
           ~(q.stage = "ready" /\ q.op \in Writers)
    PROVE  Quiet(r) /\ After(r)
  <1>1. /\ req[r].stage = "idle" /\ req'[r] = q
        /\ \A s \in Requests \ {r} : req'[s] = req[s]
        /\ UNCHANGED <<invoice, lineOn>>
    BY DEF Start, Inv, TypeOK
  <1>2. Quiet(r)
    BY <1>1 DEF Quiet, Exists
  <1>3. After(r)
    BY <1>1 DEF After, Summed
  <1>4. QED
    BY <1>2, <1>3

\* A request that moves on keeps its row lock and the lines it deletes ...
LEMMA AdvanceQuiet ==
    ASSUME Inv, LockInv, NEW r \in Requests, NEW q,
           UNCHANGED <<invoice, lineOn>>, req' = [req EXCEPT ![r] = q],
           req[r].stage \in {"finding", "allocating", "noting"},
           q.gone = req[r].gone, q.locked = req[r].locked,
           q.op = "edit" => q.inv = req[r].inv /\ req[r].op = "edit",
           q.gone # {} => q.inv = req[r].inv,
           ~(q.stage = "ready" /\ q.op \in Writers)
    PROVE  Quiet(r) /\ After(r)
  <1>1. /\ req'[r] = q
        /\ \A s \in Requests \ {r} : req'[s] = req[s]
    BY DEF Inv, TypeOK
  <1>2. Quiet(r)
    BY <1>1 DEF Quiet, Exists
  <1>3. Open(r) /\ ~q.locked
    BY DEF LockInv, Open
  <1>4. After(r)
    BY <1>1, <1>3 DEF After, Summed, LockInv
  <1>5. QED
    BY <1>2, <1>4

\* ... and one that ends holds nothing any more.
LEMMA EndQuiet ==
    ASSUME Inv, LockInv, NEW r \in Requests, NEW stage \in {"committed", "failed"},
           UNCHANGED lineOn, req' = [req EXCEPT ![r].stage = stage], Open(r),
           \A i \in Requests : /\ invoice'[i].number = invoice[i].number
                               /\ invoice'[i].total = invoice[i].total
    PROVE  Quiet(r) /\ After(r)
  <1>1. /\ req'[r].stage = stage /\ req'[r].op = req[r].op /\ req'[r].inv = req[r].inv
        /\ \A s \in Requests \ {r} : req'[s] = req[s]
    BY DEF Inv, TypeOK, Transactions
  <1>2. Quiet(r)
    BY <1>1 DEF Quiet, Exists, Open
  <1>3. After(r)
    BY <1>1 DEF After, Summed, LockInv, Open
  <1>4. QED
    BY <1>2, <1>3

\* Starting a request is quiet.
LEMMA QuietRequest ==
    ASSUME Inv, LockInv, NEW r \in Requests, Request(r)
    PROVE  Quiet(r) /\ After(r)
  <1> USE DEF Idle, Writers, Moves
  <1>1. ASSUME NEW c \in Clients, BillWork(r, c) \/ BillReport(r, c)
        PROVE  Quiet(r) /\ After(r)
    <2>1. PICK op \in {"work", "report"} :
             Start(r, [Idle EXCEPT !.stage = "finding", !.op = op, !.client = c, !.lines = 1])
      BY <1>1 DEF BillWork, BillReport
    <2>2. QED
      BY <2>1, StartQuiet
  <1>2. ASSUME NEW c \in Clients, NEW n \in {0, 1}, CreateInvoice(r, c, n)
        PROVE  Quiet(r) /\ After(r)
    BY <1>2, StartQuiet DEF CreateInvoice
  <1>3. ASSUME NEW i \in Requests, NEW n \in {0, 1}, NEW first \in {"heading", "replacing"},
               EditInvoice(r, i, n, first)
        PROVE  Quiet(r) /\ After(r)
    <2>1. i # r
      BY <1>3 DEF EditInvoice, Start, Inv, RowInv
    <2>2. QED
      BY <1>3, <2>1, StartQuiet DEF EditInvoice
  <1>4. ASSUME NEW i \in Requests, NEW op \in Moves, MoveInvoice(r, op, i)
        PROVE  Quiet(r) /\ After(r)
    BY <1>4, StartQuiet DEF MoveInvoice
  <1>5. ASSUME NEW i \in Requests, CreateNote(r, i) PROVE Quiet(r) /\ After(r)
    <2>1. PICK m : Start(r, [Idle EXCEPT !.stage = "noting", !.op = "credit", !.inv = i,
                                         !.client = invoice[i].client, !.number = m + 1])
      BY <1>5 DEF CreateNote
    <2>2. QED
      BY <2>1, StartQuiet
  <1>6. ASSUME NEW i \in Requests, IssueNote(r, i) \/ DropNote(r, i)
        PROVE  Quiet(r) /\ After(r)
    <2>1. PICK op \in {"issue", "drop"} :
             Start(r, [Idle EXCEPT !.stage = "ready", !.op = op, !.inv = i])
      BY <1>6 DEF IssueNote, DropNote
    <2>2. QED
      BY <2>1, StartQuiet
  <1>7. QED
    BY <1>1, <1>2, <1>3, <1>4, <1>5, <1>6 DEF Request

\* So is going on, and the end of a request that wrote no lines.
LEMMA QuietContinue ==
    ASSUME Inv, LockInv, NEW r \in Requests, Continue(r) \/ Rollback(r), ~CommitLines(r)
    PROVE  Quiet(r) /\ After(r)
  <1>a. /\ req \in [Requests -> Transactions] /\ req[r] \in Transactions
        /\ invoice \in [Requests -> Rows]
    BY DEF Inv, TypeOK
  <1>1. ASSUME FindDraft(r) PROVE Quiet(r) /\ After(r)
    <2>1. /\ req[r].stage = "finding" /\ req[r].op \in {"work", "report"} /\ req[r].gone = {}
          /\ UNCHANGED <<invoice, lineOn>>
      BY <1>1 DEF FindDraft, Advance, Inv, HandInv
    <2>2. PICK st \in {"adding", "allocating"}, i \in Requests, k \in Nat :
             req' = [req EXCEPT ![r] = [req[r] EXCEPT !.stage = st, !.inv = i, !.total = k]]
      <3>1. CASE Advance(r, [req[r] EXCEPT !.stage = "allocating", !.inv = r])
        <4>1. [req[r] EXCEPT !.stage = "allocating", !.inv = r]
                = [req[r] EXCEPT !.stage = "allocating", !.inv = r, !.total = req[r].total]
          BY <1>a DEF Transactions
        <4>2. req[r].total \in Nat
          BY <1>a DEF Transactions
        <4>3. QED
          BY <3>1, <4>1, <4>2 DEF Advance
      <3>2. ASSUME NEW d \in Drafts(req[r].client),
                   Advance(r, [req[r] EXCEPT !.stage = "adding", !.inv = d, !.total = invoice[d].total])
            PROVE  \E st \in {"adding", "allocating"}, i \in Requests, k \in Nat :
                     req' = [req EXCEPT ![r] = [req[r] EXCEPT !.stage = st, !.inv = i, !.total = k]]
        <4>1. d \in Requests /\ invoice[d].total \in Nat
          BY <1>a DEF Drafts, Rows
        <4>2. QED
          BY <3>2, <4>1 DEF Advance
      <3>3. QED
        BY <1>1, <3>1, <3>2 DEF FindDraft
    <2> DEFINE q == [req[r] EXCEPT !.stage = st, !.inv = i, !.total = k]
    <2>3. /\ q.stage = st /\ q.inv = i /\ q.total = k /\ q.op = req[r].op
          /\ q.gone = req[r].gone /\ q.locked = req[r].locked
      BY <1>a DEF Transactions
    <2>4. req' = [req EXCEPT ![r] = q]
      BY <2>2
    <2> HIDE DEF q
    <2>5. QED
      BY <2>1, <2>2, <2>3, <2>4, AdvanceQuiet
  <1>2. ASSUME AllocateInvoiceNumber(r) PROVE Quiet(r) /\ After(r)
    <2> DEFINE q == [req[r] EXCEPT !.stage = "adding", !.number = counter + 1]
    <2>1. /\ req[r].stage = "allocating" /\ req' = [req EXCEPT ![r] = q]
          /\ UNCHANGED <<invoice, lineOn>>
      BY <1>2 DEF AllocateInvoiceNumber, Advance
    <2>2. /\ q.stage = "adding" /\ q.inv = req[r].inv /\ q.total = req[r].total /\ q.op = req[r].op
          /\ q.gone = req[r].gone /\ q.locked = req[r].locked
      BY <1>a DEF Transactions
    <2> HIDE DEF q
    <2>3. QED
      BY <2>1, <2>2, AdvanceQuiet
  <1>3. ASSUME DeleteItems(r) PROVE Quiet(r) /\ After(r)
    <2> DEFINE q == [req[r] EXCEPT !.stage = "adding", !.gone = LinesOf(req[r].inv)]
    <2>1. /\ req[r].stage = "replacing" /\ req' = [req EXCEPT ![r] = q]
          /\ UNCHANGED <<invoice, lineOn>>
          /\ \A s \in Requests \ {r} : Open(s) => req[s].gone \cap LinesOf(req[r].inv) = {}
      BY <1>3 DEF DeleteItems, Advance
    <2>2. /\ q.stage = "adding" /\ q.inv = req[r].inv /\ q.total = req[r].total /\ q.op = req[r].op
          /\ q.gone = LinesOf(req[r].inv) /\ q.locked = req[r].locked
      BY <1>a DEF Transactions
    <2> HIDE DEF q
    <2>3. Open(r) /\ (req[r].locked => RowFree(r, req[r].inv))
      BY <2>1 DEF LockInv, Open, RowFree
    <2>4. req'[r] = q /\ \A s \in Requests \ {r} : req'[s] = req[s]
      BY <1>a, <2>1
    <2>5. Quiet(r)
      BY <2>1, <2>4 DEF Quiet, Exists
    <2>6. After(r)
      BY <2>1, <2>2, <2>3, <2>4 DEF After, Summed, LockInv, LinesOf
    <2>7. QED
      BY <2>5, <2>6
  <1>4. ASSUME Recalculate(r) PROVE Quiet(r) /\ After(r)
    <2> DEFINE changes == req[r].inv # r /\ req[r].total > 0
               holds == req[r].locked \/ changes
               sum == Cardinality(LinesOf(req[r].inv) \ req[r].gone) + req[r].lines
               q == [req[r] EXCEPT !.stage = "ready", !.locked = holds, !.sum = sum]
    <2>1. /\ req[r].stage = "adding" /\ req' = [req EXCEPT ![r] = q]
          /\ UNCHANGED <<invoice, lineOn>>
          /\ changes => RowFree(r, req[r].inv)
      BY <1>4, Zenon DEF Recalculate, Advance
    <2>2. /\ q.stage = "ready" /\ q.inv = req[r].inv /\ q.total = req[r].total /\ q.op = req[r].op
          /\ q.gone = req[r].gone /\ q.lines = req[r].lines
      BY <1>a DEF Transactions
    <2>3. (q.locked <=> holds) /\ q.sum = sum
      <3> HIDE DEF holds, sum
      <3>1. QED
        BY <1>a DEF Transactions
    <2>4. req'[r] = q /\ \A s \in Requests \ {r} : req'[s] = req[s]
      <3> HIDE DEF q
      <3>1. QED
        BY <1>a, <2>1
    <2>5. req[r].op \in Writers
      BY <2>1 DEF Inv, HandInv
    <2> HIDE DEF q
    <2>6. Quiet(r)
      BY <2>1, <2>4 DEF Quiet, Exists
    <2>7. Open(r)
      BY <2>1 DEF Open
    <2>8. After(r)
      <3>1. /\ req'[r].op = "edit" => req'[r].inv # r
            /\ \A x \in req'[r].gone : lineOn[x] = req'[r].inv
            /\ \A s \in Requests \ {r} : Open(s) => req'[r].gone \cap req[s].gone = {}
        BY <2>2, <2>4, <2>7 DEF LockInv
      <3>2. req'[r].locked => /\ req'[r].stage \in {"replacing", "adding", "ready"}
                             /\ RowFree(r, req'[r].inv)
        <4>1. req[r].locked => RowFree(r, req[r].inv)
          BY <2>7 DEF LockInv, RowFree
        <4>2. QED
          BY <2>1, <2>2, <2>3, <2>4, <4>1
      <3>3. /\ req'[r].inv # r /\ req'[r].total > 0 => req'[r].locked
            /\ req'[r].sum = Cardinality(LinesOf(req'[r].inv) \ req'[r].gone) + req'[r].lines
        BY <2>2, <2>3, <2>4
      <3> HIDE DEF changes, holds, sum
      <3>4. QED
        BY <3>1, <3>2, <3>3, Zenon DEF After
    <2>9. QED
      BY <2>6, <2>8
  <1>5. ASSUME CommitMove(r) PROVE Quiet(r) /\ After(r)
    <2>1. /\ req[r].stage = "ready" /\ req[r].op \in Moves /\ UNCHANGED lineOn
          /\ req' = [req EXCEPT ![r].stage = "committed"]
          /\ \/ invoice' = [invoice EXCEPT ![req[r].inv].deleted = TRUE]
             \/ invoice' = [invoice EXCEPT ![req[r].inv].status = Target(req[r].op)]
      BY <1>5, Zenon DEF CommitMove
    <2>2. \A i \in Requests : invoice'[i].number = invoice[i].number /\ invoice'[i].total = invoice[i].total
      BY <1>a, <2>1 DEF Rows
    <2>3. QED
      BY <2>1, <2>2, EndQuiet DEF Open
  <1>6. ASSUME CommitNote(r) PROVE Quiet(r) /\ After(r)
    <2>1. PICK stage \in {"committed", "failed"} :
             /\ req[r].stage = "ready" /\ UNCHANGED <<invoice, lineOn>>
             /\ req' = [req EXCEPT ![r].stage = stage]
      BY <1>6 DEF CommitNote
    <2>2. QED
      BY <2>1, EndQuiet DEF Open
  <1>7. ASSUME Rollback(r) PROVE Quiet(r) /\ After(r)
    <2>1. req' = [req EXCEPT ![r].stage = "failed"] /\ UNCHANGED <<invoice, lineOn>> /\ Open(r)
      BY <1>7 DEF Rollback, Advance
    <2>2. QED
      BY <2>1, EndQuiet
  <1>8. ASSUME InsertNote(r) PROVE Quiet(r) /\ After(r)
    <2>1. PICK stage \in {"ready", "failed"} :
             /\ req[r].stage = "noting" /\ UNCHANGED <<invoice, lineOn>>
             /\ req' = [req EXCEPT ![r].stage = stage]
      BY <1>8 DEF InsertNote
    <2> DEFINE q == [req[r] EXCEPT !.stage = stage]
    <2>2. /\ q.stage = stage /\ q.inv = req[r].inv /\ q.op = req[r].op
          /\ q.gone = req[r].gone /\ q.locked = req[r].locked
      BY <1>a DEF Transactions
    <2>3. req' = [req EXCEPT ![r] = q]
      BY <2>1
    <2> HIDE DEF q
    <2>4. req[r].op = "credit"
      BY <2>1 DEF Inv, HandInv
    <2>5. QED
      BY <2>1, <2>2, <2>3, <2>4, AdvanceQuiet DEF Writers
  <1>9. ASSUME FlushHeader(r) PROVE Quiet(r) /\ After(r)
    <2> DEFINE q == [req[r] EXCEPT !.stage = "replacing", !.locked = TRUE]
    <2>1. /\ req[r].stage = "heading" /\ req' = [req EXCEPT ![r] = q]
          /\ UNCHANGED <<invoice, lineOn>> /\ RowFree(r, req[r].inv)
      BY <1>9 DEF FlushHeader, Advance
    <2>2. /\ q.stage = "replacing" /\ q.inv = req[r].inv /\ q.op = req[r].op
          /\ q.gone = req[r].gone
      BY <1>a DEF Transactions
    <2> HIDE DEF q
    <2>3. req'[r] = q /\ (\A s \in Requests \ {r} : req'[s] = req[s]) /\ Open(r)
      BY <1>a, <2>1 DEF Open
    <2>4. Quiet(r)
      BY <2>1, <2>3 DEF Quiet, Exists
    <2>5. After(r)
      BY <2>1, <2>2, <2>3 DEF After, Summed, LockInv
    <2>6. QED
      BY <2>4, <2>5
  <1>10. QED
    BY <1>1, <1>2, <1>3, <1>4, <1>5, <1>6, <1>7, <1>8, <1>9 DEF Continue

\* What a commit of lines does: the invoice's lines are those kept and the
\* request's own; no other invoice's lines change.
Billed(r) ==
    /\ req[r].stage = "ready" /\ req[r].op \in Writers
    /\ req[r].inv \in Requests
    /\ req'[r] = [req[r] EXCEPT !.stage = "committed"]
    /\ \A s \in Requests \ {r} : req'[s] = req[s]
    /\ \A x \in Requests :
          lineOn'[x] = IF x = r /\ req[r].lines = 1 THEN req[r].inv
                       ELSE IF x \in req[r].gone THEN None ELSE lineOn[x]
    /\ \A i \in Requests \ {req[r].inv} : invoice'[i] = invoice[i]
    /\ Exists(req[r].inv)'
    /\ Rewrites(r) => invoice'[req[r].inv].total = req[r].sum
    /\ lineOn[r] = None

\* It does that.
LEMMA CommitBilled == ASSUME Inv, LockInv, NEW r \in Requests, CommitLines(r) PROVE Billed(r)
  <1>a. /\ req \in [Requests -> Transactions] /\ req[r] \in Transactions
        /\ invoice \in [Requests -> Rows] /\ counter \in Nat
    BY DEF Inv, TypeOK
  <1>1. /\ req[r].stage = "ready" /\ req[r].op \in Writers
        /\ req' = [req EXCEPT ![r].stage = "committed"]
        /\ lineOn' = [s \in Requests |->
              IF s = r /\ req[r].lines = 1 THEN req[r].inv
              ELSE IF s \in req[r].gone THEN None ELSE lineOn[s]]
    BY Zenon DEF CommitLines
  <1>2. /\ req[r].inv \in Requests /\ (req[r].inv = r <=> req[r].number > 0)
        /\ req[r].inv # r => Exists(req[r].inv)
    BY <1>1 DEF Inv, HandInv, Running
  <1>3. lineOn[r] = None
    BY <1>1 DEF Inv, HandInv
  <1> DEFINE total == IF req[r].inv = r \/ req[r].total > 0 \/ req[r].sum > 0
                      THEN req[r].sum ELSE invoice[req[r].inv].total
  <1>4. invoice' = [invoice EXCEPT ![req[r].inv] =
             IF req[r].inv = r THEN [client |-> req[r].client, number |-> req[r].number,
                            status |-> "draft", deleted |-> FALSE, total |-> total]
                      ELSE [@ EXCEPT !.total = total]]
    BY Zenon DEF CommitLines
  <1>5. Rewrites(r) => total = req[r].sum
    BY DEF Rewrites
  <1> HIDE DEF total
  <1>6. \A i \in Requests \ {req[r].inv} : invoice'[i] = invoice[i]
    BY <1>a, <1>2, <1>4
  <1>7. /\ invoice'[req[r].inv].total = total
        /\ invoice'[req[r].inv].number = IF req[r].inv = r THEN req[r].number
                                         ELSE invoice[req[r].inv].number
    BY <1>a, <1>2, <1>4 DEF Rows
  <1>8. Exists(req[r].inv)'
    BY <1>1, <1>2, <1>7, <1>a DEF Exists, Transactions
  <1>9. /\ req'[r] = [req[r] EXCEPT !.stage = "committed"]
        /\ \A s \in Requests \ {r} : req'[s] = req[s]
    BY <1>a, <1>1
  <1>10. QED
    BY <1>1, <1>2, <1>3, <1>5, <1>6, <1>7, <1>8, <1>9 DEF Billed

\* The lines of the invoice and their number after the commit.
LEMMA LinesBilled ==
    ASSUME Inv, LockInv, NEW r \in Requests, Billed(r)
    PROVE  \A i \in Requests :
              /\ i = req[r].inv => Cardinality(LinesOf(i)') = LinesAfter(r)
              /\ i # req[r].inv => LinesOf(i)' = LinesOf(i)
  <1> DEFINE own == IF req[r].lines = 1 THEN {r} ELSE {}
             kept == LinesOf(req[r].inv) \ req[r].gone
  <1>1. req[r].lines \in {0, 1} /\ req[r].inv \in Requests /\ None \notin Requests /\ lineOn[r] = None
    BY DEF Inv, TypeOK, Transactions, Billed
  <1>2. \A x \in Requests :
          lineOn'[x] = IF x = r /\ req[r].lines = 1 THEN req[r].inv
                       ELSE IF x \in req[r].gone THEN None ELSE lineOn[x]
    BY DEF Billed
  <1>3. ASSUME NEW i \in Requests, i = req[r].inv PROVE LinesOf(i)' = kept \cup own
    BY <1>1, <1>2, <1>3 DEF LinesOf
  <1>4. r \notin kept
    BY <1>1 DEF LinesOf
  <1>5. IsFiniteSet(kept) /\ Cardinality(kept) \in Nat
    <2>1. kept \subseteq Requests
      BY DEF LinesOf
    <2>2. QED
      BY <2>1, FiniteRequests, FS_Subset, FS_CardinalityType
  <1>6. Cardinality(kept \cup own) = Cardinality(kept) + req[r].lines
    <2> HIDE DEF kept
    <2>1. CASE req[r].lines = 1
      BY <1>4, <1>5, <2>1, FS_AddElement
    <2>2. CASE req[r].lines = 0
      <3>1. kept \cup own = kept
        BY <2>2
      <3>2. QED
        BY <1>5, <2>2, <3>1
    <2>3. QED
      BY <1>1, <2>1, <2>2
  <1>7. ASSUME NEW i \in Requests \ {req[r].inv} PROVE LinesOf(i)' = LinesOf(i)
    <2>1. \A x \in req[r].gone : lineOn[x] = req[r].inv
      BY DEF LockInv, Billed, Open
    <2>2. QED
      BY <1>1, <1>2, <2>1 DEF LinesOf
  <1>8. QED
    BY <1>3, <1>6, <1>7 DEF LinesAfter

\* Committing the lines keeps what open requests hold ...
LEMMA BilledLocks ==
    ASSUME Inv, Inv', LockInv, NEW r \in Requests, Billed(r)
    PROVE  LockInv'
  <1>1. /\ req'[r] = [req[r] EXCEPT !.stage = "committed"] /\ req[r] \in Transactions
        /\ \A s \in Requests \ {r} : req'[s] = req[s]
        /\ \A x \in Requests :
             lineOn'[x] = IF x = r /\ req[r].lines = 1 THEN req[r].inv
                          ELSE IF x \in req[r].gone THEN None ELSE lineOn[x]
        /\ req[r].inv \in Requests /\ lineOn[r] = None
        /\ Exists(req[r].inv)'
    BY DEF Billed, Inv, TypeOK
  <1>2. /\ ~Open(r)' /\ ~Summed(r)' /\ req'[r].op = req[r].op /\ req'[r].inv = req[r].inv
        /\ Open(r)
    <2>1. req'[r].stage = "committed" /\ req'[r].op = req[r].op /\ req'[r].inv = req[r].inv
      BY <1>1 DEF Transactions
    <2>2. QED
      BY <2>1 DEF Open, Summed, Billed
  <1>3. \A s \in Requests \ {r} : (Open(s)' <=> Open(s)) /\ (Summed(s)' <=> Summed(s))
    BY <1>1 DEF Open, Summed
  <1>4. \A i \in Requests : Exists(i) => Exists(i)'
    BY <1>1 DEF Exists, Billed
  <1> SUFFICES ASSUME NEW s \in Requests PROVE LockInv!(s)'
    BY DEF LockInv
  <1>5. (lineOn[s] # None => Exists(lineOn[s]))'
    <2>1. lineOn[s] \in Requests \cup {None}
      BY DEF Inv, TypeOK
    <2>2. lineOn[s] # None => invoice'[lineOn[s]].number > 0
      <3>1. lineOn[s] # None => Exists(lineOn[s])
        BY DEF LockInv
      <3>2. QED
        BY <1>4, <2>1, <3>1 DEF Exists
    <2>3. lineOn'[s] = req[r].inv \/ lineOn'[s] = None \/ lineOn'[s] = lineOn[s]
      BY <1>1
    <2>4. QED
      BY <1>1, <2>2, <2>3 DEF Exists
  <1>6. CASE s = r
    BY <1>2, <1>5, <1>6 DEF LockInv
  <1>7. CASE s # r
    <2>1. /\ req'[s] = req[s] /\ (Open(s)' <=> Open(s)) /\ (Summed(s)' <=> Summed(s))
      BY <1>1, <1>3, <1>7
    <2>2. /\ Open(s) /\ req[s].locked => req[s].stage \in {"replacing", "adding", "ready"}
          /\ Summed(s) => (req[s].inv # s /\ req[s].total > 0 => req[s].locked)
          /\ req[s].op = "edit" => req[s].inv # s
      BY DEF LockInv
    <2>3. ASSUME Open(s), NEW x \in req[s].gone PROVE lineOn'[x] = req[s].inv
      <3>1. x \in Requests /\ lineOn[x] = req[s].inv /\ x \notin req[r].gone
        BY <1>2, <1>7, <2>3 DEF LockInv, Inv, TypeOK, Transactions
      <3>2. req[s].inv # None
        <4>1. req[s].op = "edit" /\ req[s].inv # s
          BY <2>3 DEF Inv, HandInv, LockInv
        <4>2. req[s].stage \in {"heading", "replacing", "adding", "ready"}
          BY <2>3, <4>1 DEF Open, Inv, HandInv, TypeOK, Transactions, Stages
        <4>3. req[s].inv \in Requests
          BY <4>1, <4>2 DEF Inv, HandInv, Running, Writers
        <4>4. QED
          BY <4>3, NoneIsNoClient
      <3>3. QED
        BY <1>1, <3>1, <3>2
    <2>4. ASSUME NEW u \in Requests \ {s}, Open(s)', Open(u)'
          PROVE  /\ req'[s].gone \cap req'[u].gone = {}
                 /\ req'[s].locked /\ req'[u].locked => req'[s].inv # req'[u].inv
      <3>1. u # r /\ req'[u] = req[u] /\ Open(u) /\ Open(s)
        BY <1>1, <1>2, <1>3, <1>7, <2>4
      <3>2. QED
        BY <2>1, <3>1 DEF LockInv
    <2>5. QED
      BY <1>5, <2>1, <2>2, <2>3, <2>4
  <1>8. QED
    BY <1>6, <1>7

\* ... and what they have computed, or leaves a writer that found zero.
LEMMA BilledSums ==
    ASSUME Inv, Inv', LockInv, SumInv, TotalIsSum, NEW r \in Requests, Billed(r)
    PROVE  SumInv' /\ TotalIsSum'
  <1>1. /\ req'[r] = [req[r] EXCEPT !.stage = "committed"] /\ req[r] \in Transactions
        /\ \A s \in Requests \ {r} : req'[s] = req[s]
        /\ req[r].stage = "ready" /\ req[r].op \in Writers
        /\ req[r].inv \in Requests
        /\ \A i \in Requests \ {req[r].inv} : invoice'[i] = invoice[i]
        /\ Rewrites(r) => invoice'[req[r].inv].total = req[r].sum
    BY DEF Billed, Inv, TypeOK
  <1>2. /\ req'[r].stage = "committed" /\ req'[r].op = req[r].op /\ req'[r].inv = req[r].inv
        /\ req'[r].total = req[r].total
    BY <1>1 DEF Transactions
  <1>3. \A i \in Requests : FoundZero(i) => FoundZero(i)'
    BY <1>1 DEF FoundZero
  <1>4. ~Rewrites(r) => FoundZero(req[r].inv)'
    <2> SUFFICES ASSUME ~Rewrites(r) PROVE FoundZero(req[r].inv)'
      OBVIOUS
    <2>1. req[r].inv # r /\ ~(req[r].total > 0) /\ req[r].total \in Nat
      BY <1>1 DEF Rewrites, Transactions
    <2>2. req'[r].total = 0
      BY <1>2, <2>1
    <2>3. QED
      BY <1>1, <1>2, <2>1, <2>2 DEF FoundZero
  <1>5. \A i \in Requests :
           /\ i = req[r].inv => Cardinality(LinesOf(i)') = LinesAfter(r)
           /\ i # req[r].inv => LinesOf(i)' = LinesOf(i)
    BY LinesBilled
  <1>6. TotalIsSum'
    <2> SUFFICES ASSUME NEW i \in Requests, Exists(i)'
                 PROVE  invoice'[i].total = Cardinality(LinesOf(i)') \/ FoundZero(i)'
      BY DEF TotalIsSum, FoundZero
    <2>1. CASE i = req[r].inv
      <3>1. CASE Rewrites(r)
        <4>1. req[r].sum = LinesAfter(r) \/ FoundZero(req[r].inv)
          BY <1>1, <3>1 DEF SumInv, Summed
        <4>2. invoice'[i].total = req[r].sum /\ Cardinality(LinesOf(i)') = LinesAfter(r)
          BY <1>1, <1>5, <2>1, <3>1
        <4>3. FoundZero(req[r].inv) => FoundZero(i)'
          BY <1>3, <2>1
        <4>4. QED
          BY <4>1, <4>2, <4>3
      <3>2. CASE ~Rewrites(r)
        BY <1>2, <1>4, <2>1, <3>2 DEF FoundZero
      <3>3. QED
        BY <3>1, <3>2
    <2>2. CASE i # req[r].inv
      <3>1. Exists(i) /\ invoice'[i].total = invoice[i].total /\ LinesOf(i)' = LinesOf(i)
        BY <1>1, <1>5, <2>2 DEF Exists
      <3>2. invoice[i].total = Cardinality(LinesOf(i)) \/ FoundZero(i)
        BY <3>1 DEF TotalIsSum, FoundZero
      <3>3. QED
        BY <1>3, <3>1, <3>2
    <2>3. QED
      BY <2>1, <2>2
  <1>7. SumInv'
    <2> SUFFICES ASSUME NEW s \in Requests, Summed(s)', Rewrites(s)'
                 PROVE  (req[s].sum = LinesAfter(s) \/ FoundZero(req[s].inv))'
      BY DEF SumInv
    <2>1. s # r /\ req'[s] = req[s] /\ Summed(s) /\ Rewrites(s)
      BY <1>1, <1>2 DEF Summed, Rewrites
    <2>2. req[s].inv \in Requests /\ (req[s].inv # s => Exists(req[s].inv))
      BY <2>1 DEF Summed, Inv, HandInv, Running
    <2>3. req[s].sum = LinesAfter(s) \/ FoundZero(req[s].inv)
      BY <2>1 DEF SumInv
    <2>4. CASE req[s].inv # req[r].inv
      <3>1. LinesAfter(s)' = LinesAfter(s)
        <4>1. {x \in Requests : lineOn'[x] = req[s].inv} = {x \in Requests : lineOn[x] = req[s].inv}
          BY <1>5, <2>2, <2>4 DEF LinesOf
        <4>2. QED
          BY <2>1, <4>1 DEF LinesAfter, LinesOf
      <3>2. QED
        BY <1>3, <2>1, <2>2, <2>3, <3>1 DEF FoundZero
    <2>5. CASE req[s].inv = req[r].inv
      <3>1. ~Rewrites(r)
        <4>1. req[r].inv # r
          BY <1>1, <2>1, <2>2, <2>5 DEF Inv, RowInv
        <4>2. req[s].inv # s
          BY <1>1, <2>1, <2>5, <4>1 DEF Summed, Inv, HandInv, Running, RowInv
        <4>3. ~(req[r].locked /\ req[s].locked)
          BY <1>1, <2>1, <2>5 DEF LockInv, Open, Summed
        <4>4. req[s].locked /\ (Rewrites(r) => req[r].locked)
          BY <1>1, <2>1, <4>1, <4>2 DEF LockInv, Summed, Rewrites
        <4>5. QED
          BY <4>3, <4>4
      <3>2. FoundZero(req[r].inv)'
        BY <1>4, <3>1
      <3>3. QED
        BY <1>2, <2>1, <2>5, <3>2 DEF FoundZero
    <2>6. QED
      BY <2>4, <2>5
  <1>8. QED
    BY <1>6, <1>7

\* The books' invariants hold initially.
LEMMA InitSums == Init => LockInv /\ SumInv /\ TotalIsSum
  <1> SUFFICES ASSUME Init PROVE LockInv /\ SumInv /\ TotalIsSum
    OBVIOUS
  <1> USE DEF Init, NoInvoice, Idle
  <1>1. LockInv
    BY DEF LockInv, Open, Summed
  <1>2. SumInv
    BY DEF SumInv, Summed
  <1>3. TotalIsSum
    BY DEF TotalIsSum, Exists
  <1>4. QED
    BY <1>1, <1>2, <1>3

\* Every step keeps them.
LEMMA NextSums ==
    ASSUME Inv, Inv', LockInv, SumInv, TotalIsSum, [Next]_vars
    PROVE  LockInv' /\ SumInv' /\ TotalIsSum'
  <1>1. CASE UNCHANGED vars
    BY <1>1 DEF vars, LockInv, SumInv, TotalIsSum, Summed, Open, Exists, LinesAfter, LinesOf, FoundZero, Rewrites
  <1>2. ASSUME NEW r \in Requests, Request(r) \/ ((Continue(r) \/ Rollback(r)) /\ ~CommitLines(r))
        PROVE  LockInv' /\ SumInv' /\ TotalIsSum'
    BY <1>2, QuietRequest, QuietContinue, QuietKeeps
  <1>3. ASSUME NEW r \in Requests, CommitLines(r) PROVE LockInv' /\ SumInv' /\ TotalIsSum'
    BY <1>3, CommitBilled, BilledLocks, BilledSums
  <1>4. QED
    BY <1>1, <1>2, <1>3 DEF Next

\* A stored total is the sum of its lines, whatever requests interleave and
\* fail, unless some writer found the total at zero (billing.py 89-101).
THEOREM Totals == Spec => []TotalIsSum
  <1>1. Inv /\ [Next]_vars => Inv'
    BY NextInv
  <1>2. Inv /\ Inv' /\ LockInv /\ SumInv /\ TotalIsSum /\ [Next]_vars
           => LockInv' /\ SumInv' /\ TotalIsSum'
    BY NextSums
  <1>3. QED
    BY InitInv, InitSums, <1>1, <1>2, PTL DEF Spec

-----------------------------------------------------------------------------
(* Credit notes carry the numbers 1 to n in the order they were created *)

Credit(r) == req[r].op = "credit"
Dropped == \E r \in Requests : req[r].op = "drop" /\ req[r].stage = "committed"

\* Some note carries the number n.
Taken(n) == \E s \in Requests : note[s] # "none" /\ req[s].number = n

\* The notes are committed; each insert has one stamp, and only inserts have;
\* of the inserts not yet committed no two carry one number.
StampInv ==
    /\ \A r \in Requests :
          /\ req[r].stage = "idle" => req[r].op = "none"
          /\ note[r] # "none" => Credit(r) /\ req[r].stage = "committed"
          /\ Credit(r) /\ req[r].stage \in {"ready", "committed"} =>
                \E k \in DOMAIN inserted : inserted[k] = r
    /\ \A j, k \in DOMAIN inserted : inserted[j] = inserted[k] => j = k
    /\ \A k \in DOMAIN inserted :
          /\ Credit(inserted[k])
          /\ req[inserted[k]].stage \in {"ready", "committed", "failed"}
    /\ \A r, s \in Requests :
          /\ Credit(r) /\ req[r].stage = "ready"
          /\ Credit(s) /\ req[s].stage = "ready"
          /\ req[r].number = req[s].number
          => r = s

\* The numbers below that of a note, or of a request for one, are taken.
TakenInv ==
    \A r \in Requests : Credit(r) =>
        /\ req[r].number > 0
        /\ req[r].stage \in {"noting", "ready"} \/ note[r] # "none" =>
              \A n \in 1 .. (req[r].number - 1) : Taken(n)

\* Notes are numbered in the order of their stamps, and one that is inserted
\* but not committed follows them all.
OrderInv ==
    \A j, k \in DOMAIN inserted :
        note[inserted[j]] # "none" =>
        /\ note[inserted[k]] # "none" /\ j < k =>
              req[inserted[j]].number < req[inserted[k]].number
        /\ req[inserted[k]].stage = "ready" =>
              j < k /\ req[inserted[j]].number < req[inserted[k]].number

NoteInv == StampInv /\ (~Dropped => TakenInv /\ OrderInv)

\* The database holds no notes at first.
LEMMA InitNotes == Init => NoteInv
  <1> SUFFICES ASSUME Init PROVE NoteInv
    OBVIOUS
  <1> USE DEF Init, Idle
  <1>1. StampInv
    BY DEF StampInv, Credit
  <1>2. TakenInv /\ OrderInv
    BY DEF TakenInv, OrderInv, Credit
  <1>3. QED
    BY <1>1, <1>2 DEF NoteInv

\* Only r's transaction moves, and it had not been committed.
Alone(r) ==
    /\ req[r].stage \notin {"committed", "failed"}
    /\ \A s \in Requests \ {r} : req'[s] = req[s]

\* What is committed stays.
LEMMA AloneKeeps ==
    ASSUME NEW r \in Requests, Alone(r)
    PROVE  Dropped => Dropped'
  BY DEF Alone, Dropped

\* A step of a request that writes no notes keeps the invariant.
LEMMA AsideKeeps ==
    ASSUME TypeOK, NoteInv, NEW r \in Requests, Alone(r), UNCHANGED <<note, inserted>>,
           req'[r].op \notin {"none", "credit"}, ~Credit(r), req'[r].stage # "idle"
    PROVE  NoteInv'
  <1>1. /\ \A s \in Requests \ {r} : req'[s] = req[s]
        /\ note' = note /\ inserted' = inserted /\ inserted \in Seq(Requests)
    BY DEF Alone, TypeOK
  <1>2. /\ \A k \in DOMAIN inserted : inserted[k] \in Requests \ {r}
        /\ note[r] = "none"
    BY <1>1 DEF NoteInv, StampInv
  <1>3. StampInv'
    BY <1>1, <1>2 DEF NoteInv, StampInv, Credit
  <1>4. ~Dropped' => TakenInv' /\ OrderInv'
    <2> SUFFICES ASSUME ~Dropped' PROVE TakenInv' /\ OrderInv'
      OBVIOUS
    <2>1. TakenInv /\ OrderInv
      BY AloneKeeps DEF NoteInv
    <2>2. \A n : Taken(n) => Taken(n)'
      BY <1>1, <1>2 DEF Taken
    <2>3. TakenInv'
      BY <1>1, <2>1, <2>2 DEF TakenInv, Credit
    <2>4. OrderInv'
      BY <1>1, <1>2, <2>1 DEF OrderInv
    <2>5. QED
      BY <2>3, <2>4
  <1>5. QED
    BY <1>3, <1>4 DEF NoteInv

\* A new request for a note takes the number after one that is taken.
LEMMA CreateNoteKeeps ==
    ASSUME TypeOK, NoteInv, NEW r \in Requests, NEW i \in Requests, CreateNote(r, i)
    PROVE  NoteInv'
  <1>1. PICK m \in {0} \cup {req[n].number : n \in {s \in Notes : Latest(s)}} :
            Start(r, [Idle EXCEPT !.stage = "noting", !.op = "credit", !.inv = i,
                                  !.client = invoice[i].client, !.number = m + 1])
    BY DEF CreateNote
  <1>2. /\ req[r].stage = "idle" /\ note' = note /\ inserted' = inserted
        /\ \A s \in Requests \ {r} : req'[s] = req[s]
        /\ req'[r].stage = "noting" /\ req'[r].op = "credit" /\ req'[r].number = m + 1
    BY <1>1 DEF Start, TypeOK, Idle
  <1>3. m \in Nat /\ (m = 0 \/ \E n \in Requests : note[n] # "none" /\ req[n].number = m)
    BY DEF Notes, TypeOK, Transactions
  <1>4. inserted \in Seq(Requests) /\ \A s \in Requests : req[s].number \in Nat
    BY DEF TypeOK, Transactions
  <1>5. /\ \A k \in DOMAIN inserted : inserted[k] \in Requests \ {r}
        /\ note[r] = "none"
    BY <1>2, <1>4 DEF NoteInv, StampInv
  <1>6. StampInv'
    BY <1>2, <1>5 DEF NoteInv, StampInv, Credit
  <1>7. ~Dropped' => TakenInv' /\ OrderInv'
    <2> SUFFICES ASSUME ~Dropped' PROVE TakenInv' /\ OrderInv'
      OBVIOUS
    <2>1. TakenInv /\ OrderInv
      BY <1>2, AloneKeeps DEF NoteInv, Alone
    <2>2. \A n : Taken(n) => Taken(n)'
      BY <1>2, <1>5 DEF Taken
    <2>3. \A n \in 1 .. m : Taken(n)
      <3>1. CASE m = 0
        BY <3>1
      <3>2. ASSUME NEW u \in Requests, note[u] # "none", req[u].number = m
            PROVE  \A n \in 1 .. m : Taken(n)
        <4>1. \A n \in 1 .. (m - 1) : Taken(n)
          BY <2>1, <3>2 DEF TakenInv, NoteInv, StampInv
        <4>2. Taken(m)
          BY <3>2 DEF Taken
        <4>3. QED
          BY <1>3, <4>1, <4>2
      <3>3. QED
        BY <1>3, <3>1, <3>2
    <2>4. TakenInv'
      <3> SUFFICES ASSUME NEW s \in Requests, Credit(s)'
                   PROVE  /\ req'[s].number > 0
                          /\ req'[s].stage \in {"noting", "ready"} \/ note'[s] # "none" =>
                                \A n \in 1 .. (req'[s].number - 1) : Taken(n)'
        BY DEF TakenInv, Taken
      <3>1. CASE s = r
        BY <1>2, <1>3, <2>2, <2>3, <3>1
      <3>2. CASE s # r
        BY <1>2, <2>1, <2>2, <3>2 DEF TakenInv, Credit
      <3>3. QED
        BY <3>1, <3>2
    <2>5. OrderInv'
      BY <1>2, <1>5, <2>1 DEF OrderInv
    <2>6. QED
      BY <2>4, <2>5
  <1>8. QED
    BY <1>6, <1>7 DEF NoteInv

\* A request for a note that fails leaves its number to others.
LEMMA FailKeeps ==
    ASSUME TypeOK, NoteInv, NEW r \in Requests, Alone(r), UNCHANGED <<note, inserted>>,
           req[r].stage # "idle", req'[r].stage = "failed", req'[r].op = req[r].op,
           req'[r].number = req[r].number
    PROVE  NoteInv'
  <1>1. /\ \A s \in Requests \ {r} : req'[s] = req[s]
        /\ note' = note /\ inserted' = inserted /\ inserted \in Seq(Requests)
        /\ req[r].stage \notin {"committed", "failed"}
    BY DEF Alone, TypeOK
  <1>2. note[r] = "none" /\ \A k \in DOMAIN inserted : inserted[k] \in Requests
    BY <1>1 DEF NoteInv, StampInv
  <1>3. \A s \in Requests : /\ Credit(s)' <=> Credit(s)
                             /\ req'[s].number = req[s].number
                             /\ req'[s].stage = IF s = r THEN "failed" ELSE req[s].stage
    BY <1>1 DEF Credit
  <1>4. StampInv'
    <2>1. StampInv
      BY DEF NoteInv
    <2>2. \A s \in Requests :
             /\ req'[s].stage = "idle" => req'[s].op = "none"
             /\ note'[s] # "none" => Credit(s)' /\ req'[s].stage = "committed"
      BY <1>1, <1>2, <1>3, <2>1 DEF StampInv
    <2>3. QED
      BY <1>1, <1>2, <1>3, <2>1, <2>2 DEF StampInv
  <1>5. ~Dropped' => TakenInv' /\ OrderInv'
    <2> SUFFICES ASSUME ~Dropped' PROVE TakenInv' /\ OrderInv'
      OBVIOUS
    <2>1. TakenInv /\ OrderInv
      BY AloneKeeps DEF NoteInv
    <2>2. \A n : Taken(n) => Taken(n)'
      BY <1>1, <1>2 DEF Taken
    <2>3. TakenInv'
      <3> SUFFICES ASSUME NEW s \in Requests, Credit(s)'
                   PROVE  /\ req'[s].number > 0
                          /\ req'[s].stage \in {"noting", "ready"} \/ note'[s] # "none" =>
                                \A n \in 1 .. (req'[s].number - 1) : Taken(n)'
        BY DEF TakenInv, Taken
      <3>1. CASE s = r
        BY <1>1, <1>2, <1>3, <2>1, <3>1 DEF TakenInv
      <3>2. CASE s # r
        BY <1>1, <2>1, <2>2, <3>2 DEF TakenInv, Credit
      <3>3. QED
        BY <3>1, <3>2
    <2>4. OrderInv'
      BY <1>1, <1>2, <2>1 DEF OrderInv
    <2>5. QED
      BY <2>3, <2>4
  <1>6. QED
    BY <1>4, <1>5 DEF NoteInv

\* The insert takes the next created_at stamp.
Stamped(r) == inserted' = Append(inserted, r)

\* An insert gets the last stamp, and its number is above that of every note:
\* the unique index has refused a number that is taken.
LEMMA InsertKeeps ==
    ASSUME TypeOK, NoteInv, NEW r \in Requests, Alone(r), note' = note,
           Stamped(r), req[r].stage = "noting", Credit(r),
           req'[r].stage = "ready", req'[r].op = req[r].op, req'[r].number = req[r].number,
           \A s \in Requests \ {r} : Credit(s) /\ req[s].number = req[r].number =>
              req[s].stage # "ready" /\ note[s] = "none"
    PROVE  NoteInv'
  <1> DEFINE last == Len(inserted) + 1
  <1>1. /\ \A s \in Requests \ {r} : req'[s] = req[s]
        /\ note' = note
        /\ inserted \in Seq(Requests)
        /\ \A s \in Requests : req[s].number \in Nat
    BY DEF Alone, TypeOK, Transactions
  <1>2. /\ Len(inserted) \in Nat /\ DOMAIN inserted = 1 .. Len(inserted)
        /\ \A k \in DOMAIN inserted : inserted[k] \in Requests
        /\ inserted' \in Seq(Requests) /\ DOMAIN inserted' = 1 .. last
        /\ \A k \in DOMAIN inserted : inserted'[k] = inserted[k]
        /\ inserted'[last] = r
    BY <1>1, AppendProperties DEF Stamped
  <1>3. /\ note[r] = "none" /\ \A k \in DOMAIN inserted : inserted[k] # r
    BY <1>2 DEF NoteInv, StampInv
  <1>4. \A s \in Requests : /\ Credit(s)' <=> Credit(s)
                             /\ req'[s].number = req[s].number
                             /\ req'[s].stage = IF s = r THEN "ready" ELSE req[s].stage
    BY <1>1 DEF Credit
  <1>5. \A k \in DOMAIN inserted' : k = last \/ (k \in DOMAIN inserted /\ k < last)
    BY <1>2
  <1>a. last \in DOMAIN inserted' /\ \A k \in DOMAIN inserted : k \in DOMAIN inserted'
    BY <1>2
  <1> HIDE DEF last
  <1>6. StampInv'
    <2>1. StampInv
      BY DEF NoteInv
    <2>2. ASSUME NEW s \in Requests
          PROVE  /\ req'[s].stage = "idle" => req'[s].op = "none"
                 /\ note'[s] # "none" => Credit(s)' /\ req'[s].stage = "committed"
                 /\ Credit(s)' /\ req'[s].stage \in {"ready", "committed"} =>
                      \E k \in DOMAIN inserted' : inserted'[k] = s
      BY <1>1, <1>2, <1>3, <1>4, <1>a, <2>1 DEF StampInv
    <2>3. \A j, k \in DOMAIN inserted' : inserted'[j] = inserted'[k] => j = k
      BY <1>2, <1>3, <1>5, <2>1 DEF StampInv
    <2>4. ASSUME NEW k \in DOMAIN inserted'
          PROVE  Credit(inserted[k])' /\ req'[inserted'[k]].stage \in {"ready", "committed", "failed"}
      <3>1. CASE k = last
        BY <1>2, <1>4, <3>1 DEF Credit
      <3>2. CASE k # last
        <4>1. k \in DOMAIN inserted /\ inserted'[k] = inserted[k] /\ inserted[k] \in Requests
          BY <1>2, <1>5, <3>2
        <4>2. req'[inserted[k]] = req[inserted[k]]
          BY <1>1, <1>3, <4>1
        <4>3. QED
          BY <2>1, <4>1, <4>2 DEF StampInv, Credit
      <3>3. QED
        BY <3>1, <3>2
    <2>5. \A s, u \in Requests :
            /\ Credit(s)' /\ req'[s].stage = "ready"
            /\ Credit(u)' /\ req'[u].stage = "ready"
            /\ req'[s].number = req'[u].number
            => s = u
      BY <1>4, <2>1 DEF StampInv
    <2>6. QED
      BY <2>2, <2>3, <2>4, <2>5 DEF StampInv
  <1>7. ~Dropped' => TakenInv' /\ OrderInv'
    <2> SUFFICES ASSUME ~Dropped' PROVE TakenInv' /\ OrderInv'
      OBVIOUS
    <2>1. TakenInv /\ OrderInv
      BY AloneKeeps DEF NoteInv
    <2>2. ASSUME NEW n, Taken(n) PROVE Taken(n)'
      <3>1. PICK s \in Requests : note[s] # "none" /\ req[s].number = n
        BY <2>2 DEF Taken
      <3>2. note'[s] # "none" /\ req'[s].number = n
        BY <1>1, <1>4, <3>1
      <3>3. QED
        BY <3>2 DEF Taken
    <2>3. TakenInv'
      <3> SUFFICES ASSUME NEW s \in Requests, Credit(s)'
                   PROVE  /\ req'[s].number > 0
                          /\ req'[s].stage \in {"noting", "ready"} \/ note'[s] # "none" =>
                                \A n \in 1 .. (req'[s].number - 1) : Taken(n)'
        BY DEF TakenInv, Taken
      <3>1. /\ req[s].number > 0
            /\ req[s].stage \in {"noting", "ready"} \/ note[s] # "none" =>
                 \A n \in 1 .. (req[s].number - 1) : Taken(n)
        BY <1>4, <2>1 DEF TakenInv
      <3>2. QED
        BY <1>4, <2>2, <3>1
    <2>4. ASSUME NEW s \in Requests, note[s] # "none"
          PROVE  req[s].number < req[r].number
      <3>1. Credit(s) /\ s # r
        BY <1>3, <2>4 DEF NoteInv, StampInv
      <3>2. req[s].number # req[r].number
        BY <2>4, <3>1
      <3>3. ASSUME req[r].number < req[s].number PROVE FALSE
        <4>1. req[r].number > 0 /\ req[r].number \in 1 .. (req[s].number - 1)
          BY <1>1, <2>1, <3>3 DEF TakenInv
        <4>2. Taken(req[r].number)
          BY <2>1, <2>4, <3>1, <4>1 DEF TakenInv
        <4>3. PICK u \in Requests : note[u] # "none" /\ req[u].number = req[r].number
          BY <4>2 DEF Taken
        <4>4. u # r /\ Credit(u)
          BY <1>3, <4>3 DEF NoteInv, StampInv
        <4>5. QED
          BY <4>3, <4>4
      <3>4. QED
        BY <1>1, <3>2, <3>3
    <2>5. OrderInv'
      <3> SUFFICES ASSUME NEW j \in DOMAIN inserted', NEW k \in DOMAIN inserted',
                          note'[inserted'[j]] # "none"
                   PROVE  /\ note'[inserted'[k]] # "none" /\ j < k =>
                               req'[inserted'[j]].number < req'[inserted'[k]].number
                          /\ req'[inserted'[k]].stage = "ready" =>
                               j < k /\ req'[inserted'[j]].number < req'[inserted'[k]].number
        BY DEF OrderInv
      <3>1. /\ j \in DOMAIN inserted /\ inserted'[j] = inserted[j] /\ j < last
            /\ inserted[j] \in Requests /\ note[inserted[j]] # "none" /\ inserted[j] # r
        BY <1>2, <1>3, <1>5
      <3>2. CASE k = last
        <4>1. inserted'[k] = r /\ note'[r] = "none" /\ req'[inserted[j]].number < req'[r].number
          BY <1>1, <1>2, <1>3, <1>4, <2>4, <3>1, <3>2
        <4>2. QED
          BY <3>1, <3>2, <4>1
      <3>3. CASE k # last
        <4>1. k \in DOMAIN inserted /\ inserted'[k] = inserted[k] /\ inserted[k] \in Requests \ {r}
          BY <1>2, <1>3, <1>5, <3>3
        <4>2. QED
          <5>1. /\ note[inserted[k]] # "none" /\ j < k =>
                     req[inserted[j]].number < req[inserted[k]].number
                /\ req[inserted[k]].stage = "ready" =>
                     j < k /\ req[inserted[j]].number < req[inserted[k]].number
            BY <2>1, <3>1, <4>1 DEF OrderInv
          <5>2. /\ req'[inserted'[j]] = req[inserted[j]]
                /\ req'[inserted'[k]] = req[inserted[k]]
                /\ note'[inserted'[k]] = note[inserted[k]]
            BY <1>1, <3>1, <4>1
          <5>3. QED
            BY <5>1, <5>2
      <3>4. QED
        BY <3>2, <3>3
    <2>6. QED
      BY <2>3, <2>5
  <1>8. QED
    BY <1>6, <1>7 DEF NoteInv

\* A request for a note commits: no other is inserted and open, so its stamp
\* and its number are the highest.
LEMMA NoteKeeps ==
    ASSUME TypeOK, NoteInv, NEW r \in Requests, Alone(r), inserted' = inserted,
           note' = [note EXCEPT ![r] = "draft"], req[r].stage = "ready", Credit(r),
           req'[r].stage = "committed", req'[r].op = req[r].op, req'[r].number = req[r].number
    PROVE  NoteInv'
  <1>1. /\ \A s \in Requests \ {r} : req'[s] = req[s] /\ note'[s] = note[s]
        /\ note'[r] = "draft"
        /\ \A s \in Requests : req[s].number \in Nat
        /\ \A k \in DOMAIN inserted : inserted[k] \in Requests /\ k \in Nat
    BY DEF Alone, TypeOK, Transactions
  <1>2. \A s \in Requests : /\ Credit(s)' <=> Credit(s)
                             /\ req'[s].number = req[s].number
                             /\ req'[s].stage = IF s = r THEN "committed" ELSE req[s].stage
    BY <1>1 DEF Credit
  <1>3. StampInv
    BY DEF NoteInv
  <1>4. PICK place \in DOMAIN inserted : inserted[place] = r
    BY <1>3 DEF StampInv
  <1>5. note[r] = "none"
    BY <1>3 DEF StampInv
  <1>6. StampInv'
    <2>1. ASSUME NEW s \in Requests
          PROVE  /\ req'[s].stage = "idle" => req'[s].op = "none"
                 /\ note'[s] # "none" => Credit(s)' /\ req'[s].stage = "committed"
                 /\ Credit(s)' /\ req'[s].stage \in {"ready", "committed"} =>
                      \E k \in DOMAIN inserted' : inserted'[k] = s
      <3> USE <1>3 DEF StampInv
      <3>1. CASE s = r
        BY <1>1, <1>2, <1>4, <3>1
      <3>2. CASE s # r
        BY <1>1, <1>2, <3>2
      <3>3. QED
        BY <3>1, <3>2
    <2>2. ASSUME NEW k \in DOMAIN inserted'
          PROVE  Credit(inserted[k])' /\ req'[inserted'[k]].stage \in {"ready", "committed", "failed"}
      BY <1>1, <1>2, <1>3 DEF StampInv, Credit
    <2>3. QED
      BY <1>2, <1>3, <2>1, <2>2 DEF StampInv
  <1>7. ~Dropped' => TakenInv' /\ OrderInv'
    <2> SUFFICES ASSUME ~Dropped' PROVE TakenInv' /\ OrderInv'
      OBVIOUS
    <2>1. TakenInv /\ OrderInv
      BY AloneKeeps DEF NoteInv
    <2>2. \A n : Taken(n) => Taken(n)'
      BY <1>1, <1>2 DEF Taken
    <2>3. TakenInv'
      <3> SUFFICES ASSUME NEW s \in Requests, Credit(s)'
                   PROVE  /\ req'[s].number > 0
                          /\ req'[s].stage \in {"noting", "ready"} \/ note'[s] # "none" =>
                                \A n \in 1 .. (req'[s].number - 1) : Taken(n)'
        BY DEF TakenInv, Taken
      <3>1. /\ req[s].number > 0
            /\ req[s].stage \in {"noting", "ready"} \/ note[s] # "none" =>
                 \A n \in 1 .. (req[s].number - 1) : Taken(n)
        BY <1>2, <2>1 DEF TakenInv
      <3>2. QED
        BY <1>1, <1>2, <2>2, <3>1
    <2>4. ASSUME NEW low \in Requests, NEW high \in Requests, Credit(low), Credit(high),
                 req[low].stage = "ready", req[high].stage = "ready"
          PROVE  ~(req[low].number < req[high].number)
      <3> SUFFICES ASSUME req[low].number < req[high].number PROVE FALSE
        OBVIOUS
      <3>1. req[low].number \in 1 .. (req[high].number - 1)
        BY <1>1, <2>1, <2>4 DEF TakenInv
      <3>2. PICK u \in Requests : note[u] # "none" /\ req[u].number = req[low].number
        BY <2>1, <2>4, <3>1 DEF TakenInv, Taken
      <3>3. PICK j \in DOMAIN inserted : inserted[j] = u
        BY <1>3, <3>2 DEF StampInv
      <3>4. PICK k \in DOMAIN inserted : inserted[k] = low
        BY <1>3, <2>4 DEF StampInv
      <3>5. req[u].number < req[low].number
        BY <2>1, <2>4, <3>2, <3>3, <3>4 DEF OrderInv
      <3>6. QED
        BY <1>1, <3>2, <3>5
    <2>5. \A s \in Requests \ {r} : ~(Credit(s) /\ req[s].stage = "ready")
      <3> SUFFICES ASSUME NEW s \in Requests \ {r}, Credit(s), req[s].stage = "ready" PROVE FALSE
        OBVIOUS
      <3>1. req[s].number # req[r].number
        BY <1>3 DEF StampInv
      <3>2. QED
        BY <1>1, <2>4, <3>1
    <2>6. OrderInv'
      <3> SUFFICES ASSUME NEW j \in DOMAIN inserted, NEW k \in DOMAIN inserted,
                          note'[inserted[j]] # "none"
                   PROVE  /\ note'[inserted[k]] # "none" /\ j < k =>
                               req'[inserted[j]].number < req'[inserted[k]].number
                          /\ req'[inserted[k]].stage = "ready" =>
                               j < k /\ req'[inserted[j]].number < req'[inserted[k]].number
        BY DEF OrderInv
      <3>1. req'[inserted[k]].stage # "ready"
        BY <1>1, <1>2, <1>3, <2>5 DEF StampInv
      <3>2. /\ req'[inserted[j]].number = req[inserted[j]].number
            /\ req'[inserted[k]].number = req[inserted[k]].number
        BY <1>1, <1>2
      <3>3. ASSUME note'[inserted[k]] # "none", j < k
            PROVE  req[inserted[j]].number < req[inserted[k]].number
        <4>1. CASE j = place
          <5>1. k # place /\ inserted[k] # r /\ note[inserted[k]] # "none"
            BY <1>1, <1>3, <1>4, <3>3, <4>1 DEF StampInv
          <5>2. k < place
            BY <1>4, <2>1, <5>1 DEF OrderInv
          <5>3. QED
            BY <1>1, <3>3, <4>1, <5>2
        <4>2. CASE k = place
          <5>1. j # place /\ inserted[j] # r /\ note[inserted[j]] # "none"
            BY <1>1, <1>3, <1>4, <3>3, <4>2 DEF StampInv
          <5>2. QED
            BY <1>4, <2>1, <4>2, <5>1 DEF OrderInv
        <4>3. CASE j # place /\ k # place
          <5>1. note[inserted[j]] # "none" /\ note[inserted[k]] # "none"
            BY <1>1, <1>3, <1>4, <3>3, <4>3 DEF StampInv
          <5>2. QED
            BY <2>1, <3>3, <5>1 DEF OrderInv
        <4>4. QED
          BY <4>1, <4>2, <4>3
      <3>4. QED
        BY <3>1, <3>2, <3>3
    <2>7. QED
      BY <2>3, <2>6
  <1>8. QED
    BY <1>6, <1>7 DEF NoteInv

\* Issuing a note leaves the notes' order alone; deleting one ends the promise.
LEMMA ChangeKeeps ==
    ASSUME TypeOK, NoteInv, NEW r \in Requests, CommitNote(r), ~Credit(r)
    PROVE  NoteInv'
  <1>1. /\ req[r].stage = "ready" /\ req[r].op \in {"issue", "drop"}
        /\ inserted' = inserted
    BY DEF CommitNote, Credit
  <1>2. PICK stage \in {"committed", "failed"} :
           /\ req' = [req EXCEPT ![r].stage = stage]
           /\ req[r].op = "drop" /\ stage = "failed" => note' = note
    BY DEF CommitNote
  <1>3. /\ \A s \in Requests \ {r} : req'[s] = req[s]
        /\ req'[r].stage = stage /\ req'[r].op = req[r].op
        /\ \A k \in DOMAIN inserted : inserted[k] \in Requests
    BY <1>2 DEF TypeOK, Transactions
  <1>4. \A s \in Requests : note'[s] # "none" => note[s] # "none"
    BY <1>1 DEF CommitNote, Notes, TypeOK
  <1>5. \A k \in DOMAIN inserted : inserted[k] \in Requests \ {r}
    BY <1>1, <1>3 DEF NoteInv, StampInv, Credit
  <1>6. StampInv'
    BY <1>1, <1>3, <1>4, <1>5 DEF NoteInv, StampInv, Credit
  <1>7. ~Dropped' => TakenInv' /\ OrderInv'
    <2> SUFFICES ASSUME ~Dropped' PROVE TakenInv' /\ OrderInv'
      OBVIOUS
    <2>1. TakenInv /\ OrderInv
      BY <1>1, <1>3, AloneKeeps DEF NoteInv, Alone
    <2>2. \A s \in Requests : note[s] # "none" => note'[s] # "none"
      <3>1. ~(req[r].op = "drop" /\ stage = "committed")
        BY <1>3 DEF Dropped
      <3>2. CASE req[r].op = "issue"
        BY <1>1, <3>2 DEF CommitNote, TypeOK
      <3>3. CASE note' = note
        BY <3>3
      <3>4. QED
        BY <1>1, <1>2, <3>1, <3>2, <3>3
    <2>3. \A n : Taken(n) => Taken(n)'
      BY <1>1, <1>3, <2>2 DEF Taken, NoteInv, StampInv, Credit
    <2>4. TakenInv'
      BY <1>1, <1>3, <1>4, <2>1, <2>3 DEF TakenInv, Credit
    <2>5. OrderInv'
      BY <1>1, <1>3, <1>4, <1>5, <2>1 DEF OrderInv
    <2>6. QED
      BY <2>4, <2>5
  <1>8. QED
    BY <1>6, <1>7 DEF NoteInv

\* Every step keeps the invariant.
LEMMA NextNotes == ASSUME Inv, NoteInv, [Next]_vars PROVE NoteInv'
  <1>a. TypeOK /\ HandInv
    BY DEF Inv
  <1> USE DEF Idle, Writers, Moves
  <1>1. CASE UNCHANGED vars
    BY <1>1 DEF vars, NoteInv, StampInv, TakenInv, OrderInv, Dropped, Taken, Credit
  <1>2. ASSUME NEW r \in Requests, NEW i \in Requests, CreateNote(r, i) PROVE NoteInv'
    BY <1>a, <1>2, CreateNoteKeeps
  <1>3. ASSUME NEW r \in Requests, CommitNote(r) PROVE NoteInv'
    <2>1. CASE Credit(r)
      <3>1. /\ req[r].stage = "ready" /\ inserted' = inserted
            /\ note' = [note EXCEPT ![r] = "draft"]
            /\ req' = [req EXCEPT ![r].stage = "committed"]
        BY <1>3, <2>1 DEF CommitNote, Credit
      <3>2. /\ \A s \in Requests \ {r} : req'[s] = req[s]
            /\ req'[r].stage = "committed" /\ req'[r].op = req[r].op
            /\ req'[r].number = req[r].number
        BY <1>a, <3>1 DEF TypeOK, Transactions
      <3>3. QED
        BY <1>a, <2>1, <3>1, <3>2, NoteKeeps DEF Alone
    <2>2. QED
      BY <1>3, <1>a, <2>1, ChangeKeeps
  <1>4. ASSUME NEW r \in Requests, InsertNote(r) PROVE NoteInv'
    <2>1. /\ req[r].stage = "noting" /\ note' = note /\ Credit(r)
      BY <1>4, <1>a DEF InsertNote, HandInv, Credit
    <2>2. PICK stage \in {"ready", "failed"} :
             /\ req' = [req EXCEPT ![r].stage = stage]
             /\ stage = "failed" => inserted' = inserted
             /\ stage = "ready" => Stamped(r)
                  /\ \A s \in Requests \ {r} : Credit(s) /\ req[s].number = req[r].number =>
                        req[s].stage # "ready" /\ note[s] = "none"
      BY <1>4 DEF InsertNote, Notes, Stamped, Credit
    <2>3. /\ \A s \in Requests \ {r} : req'[s] = req[s]
          /\ req'[r].stage = stage /\ req'[r].op = req[r].op
          /\ req'[r].number = req[r].number
      BY <1>a, <2>2 DEF TypeOK, Transactions
    <2>4. Alone(r)
      BY <2>1, <2>3 DEF Alone
    <2>5. CASE stage = "ready"
      BY <1>a, <2>1, <2>2, <2>3, <2>4, <2>5, InsertKeeps
    <2>6. CASE stage = "failed"
      BY <1>a, <2>1, <2>2, <2>3, <2>4, <2>6, FailKeeps
    <2>7. QED
      BY <2>5, <2>6
  <1>5. ASSUME NEW r \in Requests, Rollback(r) PROVE NoteInv'
    <2>1. Open(r) /\ req' = [req EXCEPT ![r].stage = "failed"] /\ UNCHANGED <<note, inserted>>
      BY <1>5 DEF Rollback, Advance
    <2>2. /\ \A s \in Requests \ {r} : req'[s] = req[s]
          /\ req'[r].stage = "failed" /\ req'[r].op = req[r].op
          /\ req'[r].number = req[r].number
      BY <1>a, <2>1 DEF TypeOK, Transactions
    <2>3. QED
      BY <1>a, <2>1, <2>2, FailKeeps DEF Alone, Open
  <1>6. ASSUME NEW r \in Requests, Alone(r), UNCHANGED <<note, inserted>>,
               req'[r].op \in {"work", "report", "create", "edit", "send", "pay", "cancel",
                               "overdue", "delete", "issue", "drop"},
               req'[r].stage # "idle", ~Credit(r)
        PROVE  NoteInv'
    BY <1>a, <1>6, AsideKeeps
  <1>7. ASSUME NEW r \in Requests, NEW q, Start(r, q),
               q.op \in {"work", "report", "create", "edit", "send", "pay", "cancel",
                         "overdue", "delete", "issue", "drop"}, q.stage # "idle"
        PROVE  NoteInv'
    <2>1. /\ req[r].stage = "idle" /\ UNCHANGED <<note, inserted>> /\ req'[r] = q
          /\ \A s \in Requests \ {r} : req'[s] = req[s]
      BY <1>7, <1>a DEF Start, TypeOK
    <2>2. ~Credit(r)
      BY <2>1 DEF NoteInv, StampInv, Credit
    <2>3. QED
      BY <1>6, <1>7, <2>1, <2>2 DEF Alone
  <1>8. ASSUME NEW r \in Requests, Request(r) PROVE NoteInv'
    <2>1. ASSUME NEW c \in Clients, NEW n \in {0, 1},
                 BillWork(r, c) \/ BillReport(r, c) \/ CreateInvoice(r, c, n)
          PROVE  NoteInv'
      <3>1. CASE BillWork(r, c)
        BY <1>7, <3>1 DEF BillWork
      <3>2. CASE BillReport(r, c)
        BY <1>7, <3>2 DEF BillReport
      <3>3. CASE CreateInvoice(r, c, n)
        BY <1>7, <3>3 DEF CreateInvoice
      <3>4. QED
        BY <2>1, <3>1, <3>2, <3>3
    <2>2. ASSUME NEW i \in Requests, NEW n \in {0, 1}, NEW op \in Moves,
                 NEW first \in {"heading", "replacing"},
                 EditInvoice(r, i, n, first) \/ MoveInvoice(r, op, i)
          PROVE  NoteInv'
      <3>1. CASE EditInvoice(r, i, n, first)
        BY <1>7, <3>1 DEF EditInvoice
      <3>2. CASE MoveInvoice(r, op, i)
        BY <1>7, <3>2 DEF MoveInvoice
      <3>3. QED
        BY <2>2, <3>1, <3>2
    <2>3. ASSUME NEW i \in Requests, IssueNote(r, i) \/ DropNote(r, i) PROVE NoteInv'
      <3>1. CASE IssueNote(r, i)
        BY <1>7, <3>1 DEF IssueNote
      <3>2. CASE DropNote(r, i)
        BY <1>7, <3>2 DEF DropNote
      <3>3. QED
        BY <2>3, <3>1, <3>2
    <2>4. QED
      BY <1>2, <1>8, <2>1, <2>2, <2>3 DEF Request
  <1>9. ASSUME NEW r \in Requests, req[r].op \in Writers \cup Moves,
               req[r].stage \notin {"committed", "failed"}, UNCHANGED <<note, inserted>>,
               \A s \in Requests \ {r} : req'[s] = req[s],
               req'[r].op = req[r].op, req'[r].stage # "idle"
        PROVE  NoteInv'
    BY <1>6, <1>9 DEF Alone, Credit
  <1>10. ASSUME NEW r \in Requests,
                \/ FindDraft(r) \/ AllocateInvoiceNumber(r) \/ FlushHeader(r)
                \/ DeleteItems(r) \/ Recalculate(r)
         PROVE  NoteInv'
    <2>1. /\ req[r].stage \in {"finding", "allocating", "heading", "replacing", "adding"}
          /\ UNCHANGED <<note, inserted>>
      BY <1>10 DEF FindDraft, AllocateInvoiceNumber, FlushHeader, DeleteItems, Recalculate, Advance
    <2>2. ASSUME NEW q, Advance(r, q), q.op = req[r].op, q.stage # "idle"
          PROVE  /\ \A s \in Requests \ {r} : req'[s] = req[s]
                 /\ req'[r].op = req[r].op /\ req'[r].stage # "idle"
      BY <1>a, <2>2 DEF Advance, TypeOK
    <2>3. /\ \A s \in Requests \ {r} : req'[s] = req[s]
          /\ req'[r].op = req[r].op /\ req'[r].stage # "idle"
      <3>a. req[r] \in Transactions
        BY <1>a DEF TypeOK
      <3>1. CASE FindDraft(r)
        BY <2>2, <3>a, <3>1 DEF FindDraft, Transactions
      <3>2. CASE AllocateInvoiceNumber(r)
        BY <2>2, <3>a, <3>2 DEF AllocateInvoiceNumber, Transactions
      <3>3. CASE DeleteItems(r)
        BY <2>2, <3>a, <3>3 DEF DeleteItems, Transactions
      <3>4. CASE Recalculate(r)
        <4> DEFINE locks == req[r].locked \/ (req[r].inv # r /\ req[r].total > 0)
                   sum == Cardinality(LinesOf(req[r].inv) \ req[r].gone) + req[r].lines
                   q == [req[r] EXCEPT !.stage = "ready", !.locked = locks, !.sum = sum]
        <4>1. Advance(r, q)
          BY <3>4, Zenon DEF Recalculate
        <4>2. q.op = req[r].op /\ q.stage # "idle"
          <5> HIDE DEF locks, sum
          <5>1. QED
            BY <3>a DEF Transactions
        <4> HIDE DEF q
        <4>3. QED
          BY <2>2, <4>1, <4>2
      <3>5. CASE FlushHeader(r)
        BY <2>2, <3>a, <3>5 DEF FlushHeader, Transactions
      <3>6. QED
        BY <1>10, <3>1, <3>2, <3>3, <3>4, <3>5
    <2>4. req[r].op \in Writers
      BY <1>a, <2>1 DEF HandInv
    <2>5. QED
      BY <1>9, <2>1, <2>3, <2>4
  <1>11. ASSUME NEW r \in Requests, CommitLines(r) \/ CommitMove(r) PROVE NoteInv'
    <2>1. /\ req[r].stage = "ready" /\ req[r].op \in Writers \cup Moves
          /\ UNCHANGED <<note, inserted>> /\ req' = [req EXCEPT ![r].stage = "committed"]
      BY <1>11, Zenon DEF CommitLines, CommitMove
    <2>2. /\ \A s \in Requests \ {r} : req'[s] = req[s]
          /\ req'[r].op = req[r].op /\ req'[r].stage # "idle"
      BY <1>a, <2>1 DEF TypeOK, Transactions
    <2>3. QED
      BY <1>9, <2>1, <2>2
  <1>12. QED
    BY <1>1, <1>3, <1>4, <1>5, <1>8, <1>10, <1>11 DEF Next, Continue

\* The place of a note among the notes is its number: the notes up to it
\* carry the numbers 1 to its own, each once.
LEMMA PlaceIsNumber ==
    ASSUME TypeOK, NoteInv
    PROVE  NotesInOrder
  <1> SUFFICES ASSUME ~Dropped, NEW k \in DOMAIN inserted, inserted[k] \in Notes
               PROVE  req[inserted[k]].number = Cardinality({j \in 1 .. k : inserted[j] \in Notes})
    BY DEF NotesInOrder, Dropped
  <1> DEFINE Before == {j \in 1 .. k : inserted[j] \in Notes}
             N == req[inserted[k]].number
             number == [j \in Before |-> req[inserted[j]].number]
  <1>1. StampInv /\ TakenInv /\ OrderInv
    BY DEF NoteInv
  <1>2. /\ k \in Nat /\ DOMAIN inserted = 1 .. Len(inserted) /\ Len(inserted) \in Nat
        /\ \A j \in DOMAIN inserted : inserted[j] \in Requests
        /\ \A s \in Requests : req[s].number \in Nat
        /\ \A s \in Requests : s \in Notes <=> note[s] # "none"
    BY DEF TypeOK, Transactions, Notes
  <1>3. \A j \in Before : j \in DOMAIN inserted /\ note[inserted[j]] # "none" /\ j <= k /\ j \in Nat
    BY <1>2
  <1>4. N \in Nat /\ k \in Before /\ note[inserted[k]] # "none"
    BY <1>2
  <1>5. \A i, j \in Before : i < j => number[i] < number[j]
    BY <1>1, <1>3 DEF OrderInv
  <1>6. number \in [Before -> 1 .. N]
    <2>1. ASSUME NEW j \in Before PROVE req[inserted[j]].number \in 1 .. N
      <3>1. req[inserted[j]].number > 0 /\ req[inserted[j]].number \in Nat
        BY <1>1, <1>2, <1>3 DEF TakenInv, StampInv
      <3>2. req[inserted[j]].number <= N
        <4>1. CASE j = k
          BY <1>4, <4>1
        <4>2. CASE j < k
          BY <1>1, <1>2, <1>3, <1>4, <4>2 DEF OrderInv
        <4>3. QED
          BY <1>2, <1>3, <4>1, <4>2
      <3>3. QED
        BY <1>4, <3>1, <3>2
    <2>2. QED
      BY <2>1
  <1>7. \A i, j \in Before : number[i] = number[j] => i = j
    <2> SUFFICES ASSUME NEW i \in Before, NEW j \in Before, number[i] = number[j], i # j PROVE FALSE
      OBVIOUS
    <2>1. number[i] \in 1 .. N /\ number[j] \in 1 .. N
      BY <1>6
    <2>2. i \in Nat /\ j \in Nat
      BY <1>3
    <2> HIDE DEF Before, N, number
    <2>3. QED
      BY <1>4, <1>5, <2>1, <2>2
  <1>8. \A n \in 1 .. N : \E j \in Before : number[j] = n
    <2> SUFFICES ASSUME NEW n \in 1 .. N PROVE \E j \in Before : number[j] = n
      OBVIOUS
    <2>1. CASE n = N
      BY <1>4, <2>1
    <2>2. CASE n # N
      <3>1. n \in 1 .. (N - 1)
        BY <1>4, <2>2
      <3>2. PICK s \in Requests : note[s] # "none" /\ req[s].number = n
        BY <1>1, <1>2, <1>4, <3>1 DEF TakenInv, StampInv, Taken
      <3>3. PICK j \in DOMAIN inserted : inserted[j] = s
        BY <1>1, <3>2 DEF StampInv
      <3>4. ~(k < j)
        BY <1>1, <1>2, <1>4, <3>1, <3>2, <3>3 DEF OrderInv
      <3>5. j \in Before
        BY <1>2, <3>2, <3>3, <3>4
      <3>6. QED
        BY <3>2, <3>3, <3>5
    <2>3. QED
      BY <2>1, <2>2
  <1>9. IsFiniteSet(Before)
    <2>1. IsFiniteSet(1 .. k)
      BY <1>2, FS_Interval
    <2>2. Before \subseteq 1 .. k
      OBVIOUS
    <2> HIDE DEF Before
    <2>3. QED
      BY <2>1, <2>2, FS_Subset
  <1> HIDE DEF Before, N, number
  <1>10. ExistsBijection(Before, 1 .. N)
    BY <1>6, <1>7, <1>8, Fun_IsBij DEF ExistsBijection
  <1>11. Cardinality(1 .. N) = N
    BY <1>4, FS_Interval
  <1>12. Cardinality(Before) = N
    BY <1>9, <1>10, <1>11, FS_Bijection
  <1>13. QED
    BY <1>12 DEF Before, N

\* As long as no note is deleted, credit notes carry the numbers 1 to n in
\* the order they were created (billing.py 270-285), through any number of
\* concurrent requests, failed inserts and rollbacks.
THEOREM NoteNumbering == Spec => []NotesInOrder
  <1>1. Inv /\ [Next]_vars => Inv'
    BY NextInv
  <1>2. Inv /\ NoteInv /\ [Next]_vars => NoteInv'
    BY NextNotes
  <1>3. Inv /\ NoteInv => NotesInOrder
    BY PlaceIsNumber DEF Inv
  <1>4. QED
    BY InitInv, InitNotes, <1>1, <1>2, <1>3, PTL DEF Spec
=============================================================================
