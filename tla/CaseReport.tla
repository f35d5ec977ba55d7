----------------------------- MODULE CaseReport -----------------------------
(***************************************************************************)
(* The report of one case.  Investigators write it on an edit page, two    *)
(* generators (the summary of the findings and the AI narrative of an      *)
(* investigation) insert or replace their own block, and the customer sees *)
(* the text in the portal while the report is released.                    *)
(*                                                                         *)
(* Everybody works on a copy: the form holds the text of the page that was *)
(* opened, the handler the columns of the row it loaded - for the AI       *)
(* narrative, a minute before it writes.  An UPDATE contains the columns   *)
(* that differ from what was loaded, and nothing checks that the row is    *)
(* still the one that was loaded.                                          *)
(*                                                                         *)
(* A text is the set of requests whose contribution it contains.  clock    *)
(* counts the commits; the times are history, no code reads them.  The     *)
(* case has a client and a rate for reports; a request whose transaction   *)
(* fails or whose AI call gives nothing is abandoned.                      *)
(***************************************************************************)
EXTENDS Naturals, FiniteSets

CONSTANTS Requests, Investigations, None

ASSUME ReportAssumption == None \notin Requests \cup Investigations

VARIABLES
    body,       \* case.pv_body
    status,     \* case.report_status
    stamp,      \* case.report_released_at and _by: the releasing request
    narrative,  \* [Investigations -> Requests \cup {None}]: stored narrative
    billed,     \* the requests that put a report line on an invoice
    req,        \* [Requests -> the web request]
    clock       \* history: number of commits so far

vars == <<body, status, stamp, narrative, billed, req, clock>>
row == <<body, status, stamp, narrative, billed>>

Forms == {"save", "clear", "release"}
Generators == {"regenerate", "narrate"}
Ops == Forms \cup Generators \cup {"revoke"}
Stages == {"idle", "page", "loaded", "committed", "ended"}

Idle == [stage |-> "idle", op |-> "save", inv |-> None,
         page |-> {}, opened |-> 0,
         body |-> {}, status |-> "draft", stamp |-> None, loaded |-> 0, at |-> 0]

Transactions ==
    [stage : Stages, op : Ops, inv : Investigations \cup {None},
     page : SUBSET Requests, opened : Nat,
     body : SUBSET Requests, status : {"draft", "released"},
     stamp : Requests \cup {None}, loaded : Nat, at : Nat]

TypeOK ==
    /\ body \in SUBSET Requests
    /\ status \in {"draft", "released"}
    /\ stamp \in Requests \cup {None}
    /\ narrative \in [Investigations -> Requests \cup {None}]
    /\ billed \in SUBSET Requests
    /\ req \in [Requests -> Transactions]
    /\ clock \in Nat

Init ==
    /\ body = {} /\ status = "draft" /\ stamp = None
    /\ narrative = [v \in Investigations |-> None]
    /\ billed = {}
    /\ req = [r \in Requests |-> Idle]
    /\ clock = 0

(***************************************************************************)
(* Opening the edit page, and loading the case when a request arrives.     *)
(***************************************************************************)
OpenPage(r, op) ==
    /\ req[r].stage = "idle"
    /\ req' = [req EXCEPT ![r] = [Idle EXCEPT !.stage = "page", !.op = op,
                                  !.page = body, !.opened = clock]]
    /\ UNCHANGED <<row, clock>>

Seen(q) == [q EXCEPT !.stage = "loaded", !.body = body, !.status = status,
                     !.stamp = stamp, !.loaded = clock]

LoadForm(r) ==
    /\ req[r].stage = "page"
    /\ req' = [req EXCEPT ![r] = Seen(req[r])]
    /\ UNCHANGED <<row, clock>>

\* The button is there while the report is released; the handler looks again.
LoadRevoke(r) ==
    /\ req[r].stage = "idle" /\ status = "released"
    /\ req' = [req EXCEPT ![r] = Seen([Idle EXCEPT !.op = "revoke"])]
    /\ UNCHANGED <<row, clock>>

LoadGenerator(r, op, v) ==
    /\ req[r].stage = "idle"
    /\ op = "narrate" <=> v # None
    /\ req' = [req EXCEPT ![r] = Seen([Idle EXCEPT !.op = op, !.inv = v])]
    /\ UNCHANGED <<row, clock>>

(***************************************************************************)
(* What a request writes.                                                  *)
(***************************************************************************)
\* The blocks that carry the same marker.
Block(r) == {s \in Requests : req[s].op = req[r].op /\ req[s].inv = req[r].inv}

\* Wrong variant: a generator writes the report from scratch.
TextFresh(r) == IF req[r].op = "clear" THEN {}
                ELSE IF req[r].op \in Generators THEN {r}
                ELSE req[r].page \cup {r}

Text(r) == IF req[r].op = "clear" THEN {}
           ELSE IF req[r].op \in Generators THEN (req[r].body \ Block(r)) \cup {r}
           ELSE req[r].page \cup {r}

Commit(r) == /\ req' = [req EXCEPT ![r].stage = "committed", ![r].at = clock + 1]
             /\ clock' = clock + 1

\* The form is cleared over an empty text: NULL becomes "", "" stays as it is.
WriteBody(r) == \/ body' = Text(r)
                \/ Text(r) = {} /\ req[r].body = {} /\ body' = body

\* Back to a draft, if the report was released when the row was loaded.
Withdraw(r) ==
    /\ status' = IF req[r].status = "released" THEN "draft" ELSE status
    /\ stamp' = IF req[r].status = "released" /\ req[r].stamp # None THEN None ELSE stamp

\* Wrong variant: whether the report was empty is asked after it was filled.
BillNever(r) == billed' = billed

\* The first text of a report is billed.
Bill(r) == billed' = IF req[r].body = {} /\ Text(r) # {} THEN billed \cup {r} ELSE billed

\* Wrong variant: saving leaves a released report released.
SaveReleased(r) ==
    /\ req[r].stage = "loaded" /\ req[r].op \in {"save", "clear"}
    /\ WriteBody(r) /\ Bill(r) /\ Commit(r)
    /\ UNCHANGED <<status, stamp, narrative>>

Save(r) ==
    /\ req[r].stage = "loaded" /\ req[r].op \in {"save", "clear"}
    /\ WriteBody(r) /\ Withdraw(r) /\ Bill(r) /\ Commit(r)
    /\ UNCHANGED narrative

\* The status is in the UPDATE only if the loaded one was another.
Release(r) ==
    /\ req[r].stage = "loaded" /\ req[r].op = "release"
    /\ WriteBody(r) /\ Bill(r) /\ Commit(r)
    /\ status' = IF req[r].status = "draft" THEN "released" ELSE status
    /\ stamp' = r
    /\ UNCHANGED narrative

Revoke(r) ==
    /\ req[r].stage = "loaded" /\ req[r].op = "revoke" /\ req[r].status = "released"
    /\ Withdraw(r) /\ Commit(r)
    /\ UNCHANGED <<body, narrative, billed>>

Regenerate(r) ==
    /\ req[r].stage = "loaded" /\ req[r].op = "regenerate"
    /\ WriteBody(r) /\ Commit(r)
    /\ UNCHANGED <<status, stamp, narrative, billed>>

Narrate(r) ==
    /\ req[r].stage = "loaded" /\ req[r].op = "narrate"
    /\ WriteBody(r) /\ Commit(r)
    /\ narrative' = [narrative EXCEPT ![req[r].inv] = r]
    /\ UNCHANGED <<status, stamp, billed>>

\* The form is never sent, the AI gives nothing, or the transaction fails.
Abandon(r) == /\ req[r].stage \in {"page", "loaded"}
              /\ req' = [req EXCEPT ![r].stage = "ended"]
              /\ UNCHANGED <<row, clock>>

Next ==
    \E r \in Requests :
        \/ \E op \in Forms : OpenPage(r, op)
        \/ LoadForm(r) \/ LoadRevoke(r)
        \/ \E op \in Generators, v \in Investigations \cup {None} : LoadGenerator(r, op, v)
        \/ Save(r) \/ Release(r) \/ Revoke(r) \/ Regenerate(r) \/ Narrate(r) \/ Abandon(r)

Spec == Init /\ [][Next]_vars
----------------------------------------------------------------------------
(***************************************************************************)
(* Properties.                                                             *)
(***************************************************************************)
Done(op) == {r \in Requests : req[r].stage = "committed" /\ req[r].op \in op}

\* w wrote over the commit of s without having seen it.
Overwrote(w, s) == req[w].loaded < req[s].at /\ req[s].at < req[w].at

\* While a report is released its text is what the release saved, except for
\* what a generator inserted since and for a form that was being saved when
\* the release was committed ("preventing half-finished edits from reaching a
\* customer").
OnlyReleasedText ==
    status = "released" =>
    /\ stamp # None
    /\ \/ body = Text(stamp)
       \/ \E w \in Done(Generators) : req[w].at > req[stamp].at
       \/ \E w \in Done(Forms) : Overwrote(w, stamp)

\* A draft that carries a release, and whose customer was told that it is
\* there, was withdrawn while the release was being saved.
StampedDraft ==
    status = "draft" /\ stamp # None =>
        \E w \in Done({"save", "clear", "revoke"}) : Overwrote(stamp, w)

\* A contribution leaves the report only through a form opened, or a generator
\* started, before it was committed, a newer block of the same kind, or a form
\* in which everything was erased.
LostOnlyToStaleText ==
    \A r \in Done(Ops \ {"clear", "revoke"}) :
        \/ r \in body
        \/ \E w \in Done(Ops) :
              /\ req[w].at > req[r].at
              /\ \/ req[w].op = "clear"
                 \/ req[w].op \in Forms /\ req[w].opened < req[r].at
                 \/ req[w].op \in Generators /\ (Overwrote(w, r) \/ r \in Block(w))

\* A report is billed once, unless two first texts were saved at the same time
\* or it was emptied in between.
BilledOnce ==
    \A r, s \in billed :
        req[r].at < req[s].at =>
            \/ Overwrote(s, r)
            \/ \E w \in Done(Ops) : /\ req[r].at < req[w].at /\ req[w].at < req[s].at
                                    /\ req[w].op = "clear"

\* A report with a text was billed, unless a generator wrote its first text.
FilledIsBilled ==
    body # {} => billed # {} \/ \E g \in Done(Generators) : req[g].body = {}
=============================================================================
