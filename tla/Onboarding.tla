----------------------------- MODULE Onboarding -----------------------------
(***************************************************************************)
(* From a registration on the public form to an account.  The form stores  *)
(* a registration; the staff reviews it on a page with a button for each   *)
(* decision, and an approval makes the customer's environment: a client    *)
(* with portal access and an invitation and, for an organization, a tenant *)
(* of its own.  Colleagues and further contacts are invited directly.  The *)
(* invited person makes an account from the link.                          *)
(*                                                                         *)
(* Nothing is locked between a check and the commit that relies on it, and *)
(* an UPDATE contains only the columns that differ from the loaded row.    *)
(* The staff's requests run once; an environment, its client, its access   *)
(* and its invitation carry the name of the request that makes them.  The  *)
(* investigating tenant is Home: the staff belongs to it, and its platform *)
(* administrators reach the clients of every tenant.  Accounts that were   *)
(* there before are subtracted from MaxUsers; accounts made in other ways  *)
(* are not modelled.                                                       *)
(***************************************************************************)
EXTENDS Naturals, FiniteSets

CONSTANTS Regs, Requests, Visitors, Emails, Names, Home, None,
          MailOf,    \* [Regs -> Emails]: the address on the form
          NameOf,    \* [Emails -> Names]: the part before the @
          MaxUsers   \* seats a tenant has left

ASSUME OnboardingAssumption ==
    /\ None \notin Regs \cup Requests \cup Emails \cup {Home}
    /\ Home \notin Requests
    /\ MailOf \in [Regs -> Emails]
    /\ NameOf \in [Emails -> Names]
    /\ MaxUsers \in Nat
    /\ IsFiniteSet(Emails)

VARIABLES
    form,       \* [Regs -> stage of the public form]
    status,     \* [Regs -> registration.status]
    kind,       \* [Regs -> registration_type]
    archived,   \* registrations with archived_at
    req,        \* [Requests -> the staff's request]
    invite,     \* [Requests -> the invitation it made]
    linked,     \* accesses (of those invitations) with a user_id
    before,     \* {<<r, s>>}: r's invitation is older than s's (created_at)
    account,    \* [Emails -> tenant of the account or None]
    plain,      \* accounts whose username is the name itself
    visit,      \* [Visitors -> a request to accept an invitation]
    late,       \* history: {<<a, b>>}: b committed between a's check and commit
    overrun     \* history: accounts made by a visitor another one overtook

vars == <<form, status, kind, archived, req, invite, linked, before, account,
          plain, visit, late, overrun>>

Tenants == Requests \cup {Home}
Kinds == {"one_off", "organization", "other"}
Statuses == {"none", "submitted", "in_review", "contacted", "contact_pending",
             "handled", "approved", "rejected", "spam"}
Blocking == {"submitted", "in_review", "approved"}
Decided == {"approved", "rejected"}
Buttons == {"review", "reject", "approve", "spam", "assign", "respond",
            "follow_up", "to_one_off", "to_organization", "resend"}

Idle == [stage |-> "idle", op |-> "none", reg |-> None, seen |-> "none",
         type |-> "other", first |-> FALSE, chosen |-> None, client |-> None,
         mail |-> None]

StaffRequests ==
    [stage : {"idle", "loaded", "named", "committed", "failed"},
     op : Buttons \cup {"invite_user", "portal_invite", "none"},
     reg : Regs \cup {None}, seen : Statuses, type : Kinds, first : BOOLEAN,
     chosen : Requests \cup {None}, client : Requests \cup {None},
     mail : Emails \cup {None}]

NoInvite == [state |-> "none", tenant |-> Home, client |-> None, mail |-> None]

Invitations == [state : {"none", "open", "expired", "accepted"},
                tenant : Tenants, client : Requests \cup {None},
                mail : Emails \cup {None}]

Away == [inv |-> None, known |-> None, room |-> FALSE, plain |-> FALSE,
         raced |-> FALSE]

Visits == [inv : Requests \cup {None}, known : Tenants \cup {None},
           room : BOOLEAN, plain : BOOLEAN, raced : BOOLEAN]

TypeOK ==
    /\ form \in [Regs -> {"unsent", "checked", "stored"}]
    /\ status \in [Regs -> Statuses]
    /\ kind \in [Regs -> Kinds]
    /\ archived \in SUBSET Regs
    /\ req \in [Requests -> StaffRequests]
    /\ invite \in [Requests -> Invitations]
    /\ linked \in SUBSET Requests
    /\ before \in SUBSET (Requests \X Requests)
    /\ account \in [Emails -> Tenants \cup {None}]
    /\ plain \in SUBSET Emails
    /\ visit \in [Visitors -> Visits]
    /\ late \in SUBSET ((Regs \cup Requests) \X (Regs \cup Requests))
    /\ overrun \in SUBSET Emails

Init ==
    /\ form = [g \in Regs |-> "unsent"]
    /\ status = [g \in Regs |-> "none"]
    /\ kind \in [Regs -> Kinds]
    /\ archived = {}
    /\ req = [r \in Requests |-> Idle]
    /\ invite = [r \in Requests |-> NoInvite]
    /\ linked = {}
    /\ before = {}
    /\ account = [e \in Emails |-> None]
    /\ plain = {}
    /\ visit = [v \in Visitors |-> Away]
    /\ late = {}
    /\ overrun = {}

registrations == <<form, status, kind, archived>>
people == <<linked, account, plain, visit, overrun>>

(***************************************************************************)
(* The public form: the address is looked up, then the row is inserted.    *)
(***************************************************************************)
Check(g) ==
    /\ form[g] = "unsent"
    /\ \A h \in Regs : MailOf[h] = MailOf[g] => status[h] \notin Blocking
    /\ form' = [form EXCEPT ![g] = "checked"]
    /\ UNCHANGED <<status, kind, archived, req, invite, before, people, late>>

Store(g) ==
    /\ form[g] = "checked"
    /\ form' = [form EXCEPT ![g] = "stored"]
    /\ status' = [status EXCEPT ![g] = "submitted"]
    /\ late' = late \cup {<<h, g>> : h \in {h \in Regs \ {g} : form[h] = "checked"}}
    /\ UNCHANGED <<kind, archived, req, invite, before, people>>

(***************************************************************************)
(* The staff's page.                                                       *)
(***************************************************************************)
\* Wrong variant: an approved registration can be approved again.
AdmitsAgain(op, g) ==
    /\ g \notin archived /\ status[g] # "spam"
    /\ op \in {"approve", "spam"} \/ (op = "review" /\ status[g] = "submitted")

\* What the handler still does with a button; the page that offered it may be old.
Admits(op, g) ==
    /\ g \notin archived /\ status[g] # "spam"
    /\ \/ op = "spam"
       \/ op = "review" /\ status[g] = "submitted"
       \/ op \in {"reject", "approve"} /\ status[g] \notin Decided
       \/ op = "assign" /\ status[g] \notin Decided /\ kind[g] # "organization"
       \/ op \in {"respond", "follow_up", "to_one_off", "to_organization"}
             /\ kind[g] = "other"
       \/ op = "resend" /\ status[g] = "approved"

Load(r, op, g) ==
    /\ req[r].stage = "idle" /\ form[g] = "stored"
    /\ Admits(op, g)
    /\ req' = [req EXCEPT ![r] = [Idle EXCEPT !.stage = "loaded", !.op = op,
                                  !.reg = g, !.seen = status[g], !.type = kind[g]]]
    /\ UNCHANGED <<registrations, invite, before, people, late>>

Made(r) == invite[r].state # "none"

Accesses(t, c, e) == {s \in Requests : /\ invite[s].tenant = t
                                      /\ invite[s].client = c /\ invite[s].mail = e}

Overtaken(r) == {s \in Requests \ {r} :
                    /\ req[s].stage \in {"loaded", "named"}
                    /\ \/ /\ req[s].reg # None /\ req[s].reg = req[r].reg
                       \/ /\ req[s].client # None /\ req[s].client = req[r].client
                          /\ req[s].mail = req[r].mail}

Commits(r) == /\ req' = [req EXCEPT ![r].stage = "committed"]
              /\ late' = late \cup {<<s, r>> : s \in Overtaken(r)}

\* Wrong variant: a word the other lists do not know.
TargetWord(r) == IF req[r].op = "spam" THEN "archived" ELSE "in_review"

Target(r) ==
    CASE req[r].op = "reject"    -> "rejected"  [] req[r].op = "spam"      -> "spam"
      [] req[r].op = "respond"   -> "contacted" [] req[r].op = "follow_up" -> "contact_pending"
      [] req[r].op = "assign"    -> "submitted" [] req[r].op = "approve"   -> "handled"
      [] OTHER -> "in_review"

\* The status is written when it differs from the loaded one.
Writes(r, target) ==
    status' = IF target = req[r].seen THEN status
                                      ELSE [status EXCEPT ![req[r].reg] = target]

\* Every decision that makes nothing: approving a question handles it.
Decide(r) ==
    LET g == req[r].reg
        op == req[r].op
    IN /\ req[r].stage = "loaded" /\ g # None /\ op # "resend"
       /\ op = "approve" => req[r].type = "other"
       /\ Writes(r, Target(r))
       /\ kind' = CASE op = "to_one_off" -> [kind EXCEPT ![g] = "one_off"]
                    [] op = "to_organization" -> [kind EXCEPT ![g] = "organization"]
                    [] OTHER -> kind
       /\ archived' = IF op = "spam" THEN archived \cup {g} ELSE archived
       /\ Commits(r)
       /\ UNCHANGED <<form, invite, before, people>>

\* The tenant's slug: the name itself, or the name and a random part.
NameTenant(r) ==
    /\ req[r].stage = "loaded" /\ req[r].op = "approve"
    /\ req[r].type = "organization"
    /\ req' = [req EXCEPT ![r].stage = "named",
                  ![r].first = \A s \in Requests : Made(s) => ~req[s].first]
    /\ UNCHANGED <<registrations, invite, before, people, late>>

Invites(r, tenant, client, mail) ==
    /\ invite' = [invite EXCEPT ![r] = [state |-> "open", tenant |-> tenant,
                                        client |-> client, mail |-> mail]]
    /\ before' = before \cup {<<s, r>> : s \in {s \in Requests : Made(s)}}

\* Wrong variant: the environment is made, the registration stays open.
ApproveSilently(r) ==
    LET g == req[r].reg
    IN /\ req[r].op = "approve"
       /\ req[r].stage = "loaded" /\ req[r].type = "one_off"
       /\ Invites(r, Home, r, MailOf[g])
       /\ Commits(r)
       /\ UNCHANGED <<registrations, people>>

\* The slug is unique: an approval that chose a name taken since then fails.
Approve(r) ==
    LET g == req[r].reg
    IN /\ req[r].op = "approve"
       /\ \/ req[r].stage = "loaded" /\ req[r].type = "one_off"
          \/ /\ req[r].stage = "named"
             /\ req[r].first => \A s \in Requests : Made(s) => ~req[s].first
       /\ Writes(r, "approved")
       /\ Invites(r, IF req[r].type = "one_off" THEN Home ELSE r, r, MailOf[g])
       /\ Commits(r)
       /\ UNCHANGED <<form, kind, archived, people>>

\* The newest portal invitation that was not accepted is mailed, as it is.
Resend(r, i) ==
    LET unaccepted == {s \in Requests : /\ invite[s].state \in {"open", "expired"}
                                        /\ invite[s].client # None
                                        /\ invite[s].mail = MailOf[req[r].reg]}
    IN /\ req[r].stage = "loaded" /\ req[r].op = "resend"
       /\ i \in unaccepted
       /\ \A s \in unaccepted \ {i} : <<s, i>> \in before
       /\ req' = [req EXCEPT ![r].stage = "committed", ![r].chosen = i]
       /\ UNCHANGED <<registrations, invite, before, people, late>>

\* A refused, failed or abandoned request.
Fail(r) == /\ req[r].stage \in {"loaded", "named"}
           /\ req' = [req EXCEPT ![r] = [Idle EXCEPT !.stage = "failed"]]
           /\ UNCHANGED <<registrations, invite, before, people, late>>

(***************************************************************************)
(* Invitations the staff sends directly.                                   *)
(***************************************************************************)
Seats(t) == Cardinality({e \in Emails : account[e] = t})

\* Wrong variant: one too many.
HasRoomWide(t) == Seats(t) <= MaxUsers

HasRoom(t) == Seats(t) < MaxUsers

InviteUser(r, e) ==
    /\ req[r].stage = "idle"
    /\ account[e] # Home /\ HasRoom(Home)
    /\ req' = [req EXCEPT ![r] = [Idle EXCEPT !.stage = "loaded", !.mail = e,
                                              !.op = "invite_user"]]
    /\ UNCHANGED <<registrations, invite, before, people, late>>

\* Wrong variant: the access is not looked up.
PortalInviteUnchecked(r, c, e) ==
    /\ req[r].stage = "idle" /\ invite[c].client = c
    /\ req' = [req EXCEPT ![r] = [Idle EXCEPT !.stage = "loaded", !.mail = e,
                                    !.op = "portal_invite", !.client = c]]
    /\ UNCHANGED <<registrations, invite, before, people, late>>

\* The access is looked up, and made, in the inviter's tenant.
PortalInvite(r, c, e) ==
    /\ req[r].stage = "idle" /\ invite[c].client = c
    /\ Accesses(Home, c, e) = {}
    /\ req' = [req EXCEPT ![r] = [Idle EXCEPT !.stage = "loaded", !.mail = e,
                                    !.op = "portal_invite", !.client = c]]
    /\ UNCHANGED <<registrations, invite, before, people, late>>

SendInvite(r) ==
    /\ req[r].stage = "loaded" /\ req[r].op \in {"invite_user", "portal_invite"}
    /\ Invites(r, Home, req[r].client, req[r].mail)
    /\ Commits(r)
    /\ UNCHANGED <<registrations, people>>

\* After 48 hours.
Expire(r) ==
    /\ invite[r].state = "open"
    /\ invite' = [invite EXCEPT ![r].state = "expired"]
    /\ UNCHANGED <<registrations, req, before, people, late>>

(***************************************************************************)
(* Accepting.  The token is looked up, then the name, the seats and the    *)
(* address, in one request; the commit comes after the password is hashed. *)
(***************************************************************************)
Open(v, i) ==
    LET t == invite[i].tenant
        e == invite[i].mail
    IN /\ visit[v].inv = None /\ invite[i].state = "open"
       /\ account[e] = t \/ (account[e] = None /\ HasRoom(t))
       /\ visit' = [visit EXCEPT ![v] =
             [inv |-> i, known |-> account[e], room |-> HasRoom(t), raced |-> FALSE,
              plain |-> \A f \in plain : ~(account[f] = t /\ NameOf[f] = NameOf[e])]]
       /\ UNCHANGED <<registrations, req, invite, before, linked, account, plain,
                      late, overrun>>

Newest(a, accesses) == /\ a \in accesses
                       /\ \A s \in accesses \ {a} : <<s, a>> \in before

\* The accesses an invitation is for.
AccessesOf(i) == Accesses(invite[i].tenant, invite[i].client, invite[i].mail)

\* A portal account is tied to the newest of them.
Linked(i) == IF invite[i].client = None
             THEN linked' = linked
             ELSE \E a \in Requests : Newest(a, AccessesOf(i)) /\ linked' = linked \cup {a}

\* The address has an account in the tenant already.  A user has one access to
\* a client, so the commit fails when an older one is tied to the account.
Join(v) ==
    LET i == visit[v].inv
    IN /\ i # None /\ visit[v].known # None
       /\ Linked(i)
       /\ invite[i].client # None =>
             \A a, b \in AccessesOf(i) : a \in linked' /\ b \in linked' => a = b
       /\ invite' = [invite EXCEPT ![i].state = "accepted"]
       /\ visit' = [visit EXCEPT ![v] = Away]
       /\ UNCHANGED <<registrations, req, before, account, plain, late, overrun>>

\* Addresses and usernames are unique across tenants; the name was only
\* compared within the tenant.
Enroll(v) ==
    LET i == visit[v].inv
        e == invite[i].mail
        t == invite[i].tenant
    IN /\ i # None /\ visit[v].known = None
       /\ account[e] = None
       /\ visit[v].plain => \A f \in plain : NameOf[f] # NameOf[e]
       /\ account' = [account EXCEPT ![e] = t]
       /\ plain' = IF visit[v].plain THEN plain \cup {e} ELSE plain
       /\ Linked(i)
       /\ invite' = [invite EXCEPT ![i].state = "accepted"]
       /\ overrun' = IF visit[v].raced THEN overrun \cup {e} ELSE overrun
       /\ visit' = [w \in Visitors |->
             IF w = v THEN Away
             ELSE [visit[w] EXCEPT !.raced = @ \/ (visit[w].inv # None /\
                                          invite[visit[w].inv].tenant = t)]]
       /\ UNCHANGED <<registrations, req, before, late>>

\* The form is not sent, or the commit fails on a unique column.
Leave(v) ==
    /\ visit[v].inv # None
    /\ visit' = [visit EXCEPT ![v] = Away]
    /\ UNCHANGED <<registrations, req, invite, before, linked, account, plain,
                   late, overrun>>

Next ==
    \/ \E g \in Regs : Check(g) \/ Store(g)
    \/ \E r \in Requests :
          \/ \E op \in Buttons, g \in Regs : Load(r, op, g)
          \/ Decide(r) \/ NameTenant(r) \/ Approve(r) \/ Fail(r)
          \/ \E i \in Requests : Resend(r, i)
          \/ \E e \in Emails : InviteUser(r, e)
          \/ \E c \in Requests, e \in Emails : PortalInvite(r, c, e)
          \/ SendInvite(r) \/ Expire(r)
    \/ \E v \in Visitors :
          \/ \E i \in Requests : Open(v, i)
          \/ Join(v) \/ Enroll(v) \/ Leave(v)

Spec == Init /\ [][Next]_vars
----------------------------------------------------------------------------
(***************************************************************************)
(* Properties.                                                             *)
(***************************************************************************)
Environments(g) == {r \in Requests : invite[r].client = r /\ req[r].reg = g}

\* Somebody had the registration in hand when r was committed.
Overtook(r) == \E s \in Requests : <<s, r>> \in late

\* A registration is given one environment, unless another decision on it was
\* in progress when the first was made (customer_registrations, "approve").
OneEnvironment ==
    \A g \in Regs : \A r, s \in Environments(g) :
        r # s => Overtook(r) \/ Overtook(s)

\* A registration that has an environment is approved, or was archived as spam
\* afterwards: it is not refused, and not open for a second approval, unless a
\* decision was in progress when the environment was made.
EnvironmentIsApproved ==
    \A g \in Regs : \A r \in Environments(g) :
        status[g] \in {"approved", "spam"} \/ Overtook(r)

\* Registrations that came back among the open ones: a question that was
\* answered can be turned into an assignment, a stale decision reopens any.
Revived(g) == \/ kind[g] = "other"
              \/ \E r \in Requests :
                    /\ req[r].stage = "committed" /\ req[r].reg = g
                    /\ req[r].type = "other" \/ Overtook(r)

\* An address has one open registration ("Voor dit e-mailadres staat al een
\* aanvraag open"), unless two forms were checked before either was stored.
OneOpenRegistration ==
    \A g, h \in Regs :
        /\ g # h /\ MailOf[g] = MailOf[h]
        /\ status[g] \in Blocking /\ status[h] \in Blocking
        => <<g, h>> \in late \/ <<h, g>> \in late \/ Revived(g) \/ Revived(h)

\* An address is invited once to a client by a tenant, unless two invitations
\* overlapped: one that expired is not replaced, its access is in the way.
OneAccess ==
    \A r, s \in Requests :
        r # s /\ invite[r].client # None /\ s \in AccessesOf(r)
        => <<r, s>> \in late \/ <<s, r>> \in late

\* A tenant has more accounts than its plan allows only by as many as were
\* made while somebody else was joining it (check_resource_limit).
SeatsOverrun ==
    \A t \in Tenants :
        Cardinality({e \in Emails : account[e] = t /\ e \notin overrun}) <= MaxUsers

\* Whoever accepted an invitation has an account in that tenant, tied to an
\* access to that client: nothing more is asked of the link, it works once.
AcceptedIsLinked ==
    \A i \in Requests :
        invite[i].state = "accepted" =>
        /\ account[invite[i].mail] = invite[i].tenant
        /\ invite[i].client # None => AccessesOf(i) \cap linked # {}

=============================================================================
