---------------------------- MODULE PortalIntake ----------------------------
(***************************************************************************)
(* Customer requests on their way to a case.  A customer submits an intake *)
(* and adds messages and attachments to it; the staff reviews, accepts,    *)
(* declines or converts it on one page.  That page offers its buttons by   *)
(* the status it was rendered with; the handler loads the row again when   *)
(* the button is pressed, and its UPDATE contains the columns that differ  *)
(* from what it loaded, whatever the row holds by then.                    *)
(*                                                                         *)
(* Requests run once: page, load, (gather,) commit.  A case and an         *)
(* attachment carry the name of the request that makes them.  One tenant;  *)
(* who handles an intake is data no property looks at.                     *)
(***************************************************************************)
EXTENDS Naturals, FiniteSets

CONSTANTS Intakes, Requests, None

VARIABLES
    intake,     \* [Intakes -> status]
    caseOf,     \* [Intakes -> Requests \cup {None}]: intake.case_id
    caseFrom,   \* [Requests -> Intakes \cup {None}]: intake a case was made of
    docOf,      \* [Requests -> Intakes \cup {None}]: intake of an attachment
    docCase,    \* [Requests -> Requests \cup {None}]: document.case_id
    req,        \* [Requests -> the web request]
    late        \* history: {<<r, s>>}: s committed between r's load and commit

vars == <<intake, caseOf, caseFrom, docOf, docCase, req, late>>

Statuses == {"none", "submitted", "in_review", "additional_info", "accepted",
             "converted", "declined"}
Closed == {"converted", "declined"}
Buttons == {"review", "accept", "reject", "convert"}
Stages == {"idle", "page", "loaded", "gathered", "committed", "ended"}

Idle == [stage |-> "idle", op |-> "none", intake |-> None, page |-> "none",
         seen |-> "none", docs |-> {}]

Transactions == [stage : Stages, op : Buttons \cup {"message", "none"},
                 intake : Intakes \cup {None}, page : Statuses,
                 seen : Statuses, docs : SUBSET Requests]

TypeOK ==
    /\ intake \in [Intakes -> Statuses]
    /\ caseOf \in [Intakes -> Requests \cup {None}]
    /\ caseFrom \in [Requests -> Intakes \cup {None}]
    /\ docOf \in [Requests -> Intakes \cup {None}]
    /\ docCase \in [Requests -> Requests \cup {None}]
    /\ req \in [Requests -> Transactions]
    /\ late \in SUBSET (Requests \X Requests)

Init ==
    /\ intake = [i \in Intakes |-> "none"]
    /\ caseOf = [i \in Intakes |-> None]
    /\ caseFrom = [r \in Requests |-> None]
    /\ docOf = [r \in Requests |-> None]
    /\ docCase = [r \in Requests |-> None]
    /\ req = [r \in Requests |-> Idle]
    /\ late = {}

rows == <<intake, caseOf, caseFrom, docOf, docCase>>

Submit(i) ==
    /\ intake[i] = "none"
    /\ intake' = [intake EXCEPT ![i] = "submitted"]
    /\ UNCHANGED <<caseOf, caseFrom, docOf, docCase, req, late>>

(***************************************************************************)
(* A page is rendered; its form is sent later, or never.                   *)
(***************************************************************************)
\* Wrong variant: the buttons are always there.
OfferedAlways(i) == intake[i] # "none"

\* Both the staff page and the customer's form are closed with the intake.
Offered(i) == intake[i] \notin Closed \cup {"none"}

OpenPage(r, op, i) ==
    /\ req[r].stage = "idle"
    /\ Offered(i)
    /\ req' = [req EXCEPT ![r] = [Idle EXCEPT !.stage = "page", !.op = op,
                                  !.intake = i, !.page = intake[i]]]
    /\ UNCHANGED <<rows, late>>

\* Wrong variant: a conversion does not look at the status.
AdmitsConversion(op, status) == op \in {"review", "reject", "convert"}

\* What the handler still admits when the form arrives.
Admits(op, status) == op \in {"review", "reject"} \/ status \notin Closed

Load(r) ==
    LET now == intake[req[r].intake]
    IN /\ req[r].stage = "page"
       /\ req' = [req EXCEPT ![r].seen = now,
                     ![r].stage = IF Admits(req[r].op, now) THEN "loaded"
                                                            ELSE "ended"]
       /\ UNCHANGED <<rows, late>>

(***************************************************************************)
(* Conversion: the case number, then the flush that takes the intake's     *)
(* row, then the attachments known by now, then the commit.                *)
(***************************************************************************)
Holds(r, i) == req[r].stage = "gathered" /\ req[r].intake = i

\* The counter of case numbers is held from the number to the commit.
Gather(r) ==
    /\ req[r].stage = "loaded" /\ req[r].op = "convert"
    /\ \A s \in Requests : req[s].stage # "gathered"
    /\ req' = [req EXCEPT ![r].stage = "gathered",
                          ![r].docs = {d \in Requests : docOf[d] = req[r].intake}]
    /\ UNCHANGED <<rows, late>>

\* Requests that were loaded but not committed when r commits.
Overtaken(r) == {s \in Requests \ {r} : req[s].stage \in {"loaded", "gathered"}
                                       /\ req[s].intake = req[r].intake}
Commits(r) == /\ req' = [req EXCEPT ![r].stage = "committed"]
              /\ late' = late \cup {<<s, r>> : s \in Overtaken(r)}

\* Wrong variant: the attachments stay where they are.
ConvertBare(r) ==
    LET i == req[r].intake
    IN /\ req[r].stage = "gathered"
       /\ intake' = [intake EXCEPT ![i] = "converted"]
       /\ caseOf' = [caseOf EXCEPT ![i] = r]
       /\ caseFrom' = [caseFrom EXCEPT ![r] = i]
       /\ Commits(r)
       /\ UNCHANGED <<docOf, docCase>>

Convert(r) ==
    LET i == req[r].intake
    IN /\ req[r].stage = "gathered"
       /\ intake' = [intake EXCEPT ![i] = "converted"]
       /\ caseOf' = [caseOf EXCEPT ![i] = r]
       /\ caseFrom' = [caseFrom EXCEPT ![r] = i]
       /\ docCase' = [d \in Requests |-> IF d \in req[r].docs THEN r ELSE docCase[d]]
       /\ Commits(r)
       /\ UNCHANGED docOf

(***************************************************************************)
(* The other buttons, and the customer's message.                          *)
(***************************************************************************)
\* Wrong variant: the word of another status list.
TargetWord(op) == IF op = "reject" THEN "rejected" ELSE "in_review"

Target(op) == CASE op = "review"  -> "in_review"       [] op = "accept" -> "accepted"
                [] op = "message" -> "additional_info" [] OTHER         -> "declined"

\* The UPDATE is left out when the loaded status was the target already.
Written(r, i) == /\ Target(req[r].op) # req[r].seen
                 /\ \A s \in Requests : ~Holds(s, i)
                 /\ intake' = [intake EXCEPT ![i] = Target(req[r].op)]

Unwritten(r) == Target(req[r].op) = req[r].seen /\ UNCHANGED intake

Decide(r) ==
    /\ req[r].stage = "loaded" /\ req[r].op \in {"review", "accept", "reject"}
    /\ Written(r, req[r].intake) \/ Unwritten(r)
    /\ Commits(r)
    /\ UNCHANGED <<caseOf, caseFrom, docOf, docCase>>

AddMessage(r, withFile) ==
    LET i == req[r].intake
    IN /\ req[r].stage = "loaded" /\ req[r].op = "message"
       /\ Written(r, i) \/ Unwritten(r)
       /\ docOf' = IF withFile THEN [docOf EXCEPT ![r] = i] ELSE docOf
       /\ Commits(r)
       /\ UNCHANGED <<caseOf, caseFrom, docCase>>

\* The form is never sent, the request is refused or its transaction fails.
Abandon(r) == /\ req[r].stage \in {"page", "loaded", "gathered"}
              /\ req' = [req EXCEPT ![r].stage = "ended"]
              /\ UNCHANGED <<rows, late>>

Continue(r) == \/ Gather(r) \/ Convert(r) \/ Decide(r)
               \/ \E f \in BOOLEAN : AddMessage(r, f)

Next ==
    \/ \E i \in Intakes : Submit(i)
    \/ \E r \in Requests :
          \/ \E op \in Buttons \cup {"message"}, i \in Intakes : OpenPage(r, op, i)
          \/ Load(r) \/ Continue(r) \/ Abandon(r)

Spec == Init /\ [][Next]_vars
----------------------------------------------------------------------------
(***************************************************************************)
(* Properties.                                                             *)
(***************************************************************************)
Converts(i) == {r \in Requests : caseFrom[r] = i}

\* A request that put an open status over "converted": it had loaded the row
\* before the conversion, or was sent from a page older than it.
Reopened(i) == \E s \in Requests :
                  /\ req[s].stage = "committed" /\ req[s].intake = i
                  /\ req[s].op # "convert"
                  /\ \E r \in Converts(i) : \/ <<s, r>> \in late
                                            \/ req[s].seen = "converted"

\* An intake becomes one case ("Deze aanvraag is al omgezet naar een zaak"),
\* unless two conversions overlapped or a stale request reopened it.
OneCase ==
    \A i \in Intakes :
        \A r, s \in Converts(i) :
            r # s => <<r, s>> \in late \/ <<s, r>> \in late \/ Reopened(i)

\* Every attachment the customer sent with an intake that became a case is in
\* one of its cases, unless it was uploaded while the conversion ran or to an
\* intake that was reopened (portal_requests, "keep uploaded intake evidence").
AttachmentsFollow ==
    \A d \in Requests :
        docOf[d] # None =>
        LET i == docOf[d]
        IN \/ Converts(i) = {}
           \/ docCase[d] \in Converts(i)
           \/ \E r \in Converts(i) : <<d, r>> \in late \/ <<r, d>> \in late
           \/ Reopened(i)

\* The customer is told of the case made last; it exists and is the intake's.
CaseIsKnown ==
    \A i \in Intakes :
        /\ intake[i] = "converted" => caseOf[i] # None
        /\ caseOf[i] # None => caseFrom[caseOf[i]] = i

\* A closed intake opens again only by a request that was sent from a page
\* rendered, or had loaded the row, before it was closed.
ClosedReopensOnlyStale ==
    [][\A i \in Intakes :
          intake[i] \in Closed /\ intake'[i] \notin Closed =>
          \E r \in Requests : /\ req'[r].stage = "committed" /\ req[r].stage = "loaded"
                              /\ req[r].intake = i
                              /\ req[r].page \notin Closed
                              /\ (req[r].op = "review" \/ req[r].seen \notin Closed)]_vars
=============================================================================
