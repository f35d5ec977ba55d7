------------------------------ MODULE CaseLife ------------------------------
(***************************************************************************)
(* The status of a case, with the end date and the closing reason that     *)
(* belong to it.  Three requests write it: a transition, which follows a   *)
(* table and asks for reasons, the edit route, which follows the table,    *)
(* and the workflow's edit form, which stores the word of its select.      *)
(*                                                                         *)
(* A request works on the row it loaded: it decides on the loaded status   *)
(* and its UPDATE holds the columns that differ from the loaded ones.      *)
(* Administrators may edit every case, the other users here - seniors with *)
(* access to the case - no closed one.  The fields that tell who reopened  *)
(* a case and why follow the transitions and are left out.                 *)
(***************************************************************************)
EXTENDS Naturals, FiniteSets

CONSTANTS Users, Admins

VARIABLES
    status,     \* case.status
    ended,      \* has the case an actual end date
    reason,     \* has the case a closure reason
    req,        \* [Users -> the user's request]
    broken      \* history: the kinds of writes, other than clean transitions,
                \* since the last clean closing or reopening

vars == <<status, ended, reason, req, broken>>
row == <<status, ended, reason>>

Statuses == {"open", "active", "suspended", "closed", "archived"}
Finished == {"closed", "archived"}

\* The words of the form's select.
Options == {"open", "in_progress", "closed"}

Table == {<<"open", "active">>, <<"open", "closed">>,
          <<"active", "suspended">>, <<"active", "closed">>,
          <<"suspended", "active">>, <<"suspended", "closed">>,
          <<"closed", "archived">>, <<"closed", "active">>, <<"archived", "active">>}

Ops == {"transition", "edit", "form"}

Idle == [stage |-> "idle", op |-> "edit", to |-> "open", status |-> "open",
         ended |-> FALSE, reason |-> FALSE, old |-> FALSE]

Pending == [stage : {"idle", "page", "loaded"}, op : Ops,
            to : Statuses \cup Options, status : Statuses \cup Options,
            ended : BOOLEAN, reason : BOOLEAN, old : BOOLEAN]

TypeOK == /\ status \in Statuses \cup Options
          /\ ended \in BOOLEAN /\ reason \in BOOLEAN
          /\ req \in [Users -> Pending]
          /\ broken \in SUBSET {"form", "edit", "race"}

Init == /\ status = "open" /\ ended = FALSE /\ reason = FALSE
        /\ req = [u \in Users |-> Idle]
        /\ broken = {}

(***************************************************************************)
(* Loading.                                                                *)
(***************************************************************************)
Seen(q) == [q EXCEPT !.stage = "loaded", !.status = status, !.ended = ended,
                     !.reason = reason]

Asked(op, to) == [Idle EXCEPT !.op = op, !.to = to]

\* A transition is refused unless the table has it.
LoadTransition(u, to) ==
    /\ req[u].stage = "idle" /\ <<status, to>> \in Table
    /\ req' = [req EXCEPT ![u] = Seen(Asked("transition", to))]
    /\ UNCHANGED <<row, broken>>

LoadEdit(u, to) ==
    /\ req[u].stage = "idle" /\ <<status, to>> \in Table
    /\ u \in Admins \/ status \notin Finished
    /\ req' = [req EXCEPT ![u] = Seen(Asked("edit", to))]
    /\ UNCHANGED <<row, broken>>

\* The user opens the form, for anything on it.  Its select knows three words;
\* left alone it sends the stored one or, when it does not know that, "open".
OpenForm(u, to) ==
    /\ req[u].stage = "idle" /\ to \in Options
    /\ req' = [req EXCEPT ![u] = [Asked("form", to) EXCEPT !.stage = "page"]]
    /\ UNCHANGED <<row, broken>>

LoadForm(u) ==
    /\ req[u].stage = "page"
    /\ req' = [req EXCEPT ![u] = Seen(req[u])]
    /\ UNCHANGED <<row, broken>>

(***************************************************************************)
(* Committing.                                                             *)
(***************************************************************************)
\* The copies that others hold are no longer the row.
Leave(u) ==
    req' = [v \in Users |->
        IF v = u THEN Idle
        ELSE [req[v] EXCEPT !.old = @ \/ req[v].stage = "loaded"]]

\* Wrong variant: reopening a case does not clear its end date.
EndSticky(u) == ended' = (ended \/ req[u].to = "closed")

\* The date of the closing, which is in the UPDATE unless it is the loaded one.
End(u) ==
    IF req[u].to = "closed" THEN ended' = TRUE \/ (req[u].ended /\ ended' = ended)
    ELSE IF req[u].to = "active" /\ req[u].ended THEN ended' = FALSE
    ELSE ended' = ended

\* A closing has a reason, and reopening a closed case forgets it.
Explain(u) ==
    IF req[u].to = "closed" THEN reason' = TRUE \/ (req[u].reason /\ reason' = reason)
    ELSE IF req[u].to = "active" /\ req[u].status \in Finished /\ req[u].reason
         THEN reason' = FALSE
    ELSE reason' = reason

\* A transition that sets the date and the reason right, whatever was before.
Settles(u) == /\ ~req[u].old
              /\ \/ req[u].to = "closed"
                 \/ req[u].to = "active" /\ req[u].status \in Finished

Late(u) == IF req[u].old THEN {"race"} ELSE {}

Transition(u) ==
    /\ req[u].stage = "loaded" /\ req[u].op = "transition"
    /\ status' = req[u].to
    /\ End(u) /\ Explain(u) /\ Leave(u)
    /\ broken' = IF Settles(u) THEN {} ELSE broken \cup Late(u)

Edit(u) ==
    /\ req[u].stage = "loaded" /\ req[u].op = "edit"
    /\ status' = req[u].to
    /\ End(u) /\ Leave(u)
    /\ broken' = broken \cup {"edit"} \cup Late(u)
    /\ UNCHANGED reason

\* The form asks no table.
SaveForm(u) ==
    /\ req[u].stage = "loaded" /\ req[u].op = "form" /\ req[u].to # req[u].status
    /\ status' = req[u].to
    /\ Leave(u)
    /\ broken' = broken \cup {"form"} \cup Late(u)
    /\ UNCHANGED <<ended, reason>>

\* The request fails, the page is left, or the form holds the stored status.
Abandon(u) == /\ req[u].stage \in {"page", "loaded"}
              /\ req' = [req EXCEPT ![u] = Idle]
              /\ UNCHANGED <<row, broken>>

Next ==
    \E u \in Users :
        \/ \E to \in Statuses \cup Options :
              LoadTransition(u, to) \/ LoadEdit(u, to) \/ OpenForm(u, to)
        \/ LoadForm(u) \/ Transition(u) \/ Edit(u) \/ SaveForm(u) \/ Abandon(u)

Spec == Init /\ [][Next]_vars
----------------------------------------------------------------------------
(***************************************************************************)
(* Properties.                                                             *)
(***************************************************************************)
\* A case has an end date exactly while it is closed or archived, unless the
\* form set its status or two requests worked on it at the same time.
EndFollowsStatus ==
    (ended <=> status \in Finished) \/ broken \cap {"form", "race"} # {}

\* A case has a closure reason exactly while it is closed or archived
\* ("Closure reason is required"), with the same exceptions and unless the
\* edit route, which asks for none, closed or reopened it.
ReasonFollowsStatus == (reason <=> status \in Finished) \/ broken # {}

\* A case goes from one status to another only as the table says, unless the
\* form set it or the request decided on a status that was not the case's any
\* more: an archived case that a late request suspends, for example.
StatusStep == \/ status' = status
              \/ <<status, status'>> \in Table
              \/ broken' \cap {"form", "race"} # {}

FollowsTable == [][StatusStep]_vars

\* Beside administrators, who may edit everything, and requests that loaded
\* the case before it was closed, only a transition changes the status of a
\* closed or archived case ("always read-only for case modifications").
ClosedIsReadOnly ==
    [][(status \in Finished /\ status' # status) =>
          \E u \in Users : /\ req[u].stage = "loaded" /\ req'[u].stage = "idle"
                           /\ req[u].op = "transition" \/ u \in Admins \/ req[u].old]_vars
=============================================================================
