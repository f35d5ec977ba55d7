------------------------ MODULE Onboarding_proofs -------------------------
(***************************************************************************)
(* Type correctness of Onboarding and its safety properties, for any       *)
(* number of registrations, requests, visitors and addresses.              *)
(***************************************************************************)
EXTENDS Onboarding, FiniteSetTheorems, TLAPS

Serving(r) == req[r].stage \in {"loaded", "named"}

\* What a request in progress was admitted for.
HandInv ==
    \A r \in Requests :
        /\ req[r].stage \notin {"idle", "failed"} /\ req[r].op \in Buttons => req[r].reg \in Regs
        /\ req[r].reg # None => form[req[r].reg] = "stored" /\ req[r].op \in Buttons
        /\ Serving(r) /\ req[r].reg # None =>
              /\ req[r].seen \notin {"none", "spam"}
              /\ req[r].op = "review" => req[r].seen = "submitted"
              /\ req[r].op \in {"reject", "approve", "assign"} => req[r].seen \notin Decided
              /\ req[r].op \in {"respond", "follow_up", "to_one_off", "to_organization"}
                    => req[r].type = "other"
              /\ req[r].type # "other" => kind[req[r].reg] # "other"
        /\ req[r].stage = "named" => req[r].op = "approve" /\ req[r].type # "other"

\* Invitations come from committed requests, accesses from approvals.
InviteInv ==
    \A r \in Requests :
        /\ Made(r) => /\ req[r].stage = "committed"
                      /\ invite[r].mail \in Emails
        /\ ~Made(r) => invite[r].client = None /\ invite[r].mail = None
        /\ invite[r].client # None =>
              invite[r].client \in Requests /\ invite[invite[r].client].client = invite[r].client
        /\ req[r].client # None =>
              req[r].client \in Requests /\ invite[req[r].client].client = req[r].client
        /\ Serving(r) /\ req[r].op \in {"invite_user", "portal_invite"} => req[r].mail \in Emails
        /\ Serving(r) /\ req[r].client # None =>
              \A s \in Accesses(Home, req[r].client, req[r].mail) : <<r, s>> \in late
        /\ invite[r].client = r => req[r].reg \in Regs

\* A decision in progress on a registration that has an environment was loaded
\* after it was made, and saw it, or overtook it.
SawEnvironment ==
    \A r, w \in Requests :
        /\ invite[r].client = r
        /\ Serving(w) /\ req[w].reg = req[r].reg
        => Overtook(r) \/ (req[w].seen = "approved" /\ req[w].type # "other")

\* What is no longer a question had been answered as one.
EnvironmentKind ==
    \A r \in Requests : invite[r].client = r => kind[req[r].reg] # "other"

\* A decision knows the status, or somebody decided since.
KnowsStatus ==
    \A r \in Requests :
        Serving(r) /\ req[r].reg # None => \/ req[r].seen = status[req[r].reg]
                                           \/ Revived(req[r].reg)

\* A stored registration has a status, an answered question is revived, and a
\* checked form met no open registration of its address but those stored since
\* or revived.
StatusInv ==
    \A g \in Regs :
        /\ form[g] = "stored" <=> status[g] # "none"
        /\ status[g] \in {"contacted", "contact_pending", "handled"} => Revived(g)
        /\ form[g] = "checked" =>
              \A h \in Regs : /\ h # g /\ MailOf[h] = MailOf[g] /\ status[h] \in Blocking
                              => <<g, h>> \in late \/ Revived(h)

\* What a visitor was shown is still so, unless another visitor overtook him.
VisitInv ==
    \A v \in Visitors :
        /\ visit[v].inv # None => visit[v].inv \in Requests /\ Made(visit[v].inv)
        /\ \A i \in Requests, t \in Tenants :
              visit[v].inv = i /\ invite[i].tenant = t =>
              /\ visit[v].known # None => account[invite[i].mail] = t
              /\ visit[v].known = None /\ ~visit[v].raced => HasRoom(t)

Inv == /\ TypeOK /\ HandInv /\ InviteInv /\ SawEnvironment /\ EnvironmentKind
       /\ KnowsStatus /\ StatusInv /\ VisitInv
       /\ OneEnvironment /\ EnvironmentIsApproved /\ OneOpenRegistration
       /\ OneAccess /\ SeatsOverrun /\ AcceptedIsLinked

USE OnboardingAssumption

\* Nothing is stored, asked or invited at first.
LEMMA InitInv == Init => Inv
<1> SUFFICES ASSUME Init PROVE Inv
  OBVIOUS
<1>1. TypeOK
  BY DEF Init, TypeOK, Idle, StaffRequests, NoInvite, Invitations, Away, Visits,
         Statuses, Kinds, Tenants, Buttons
<1>2. HandInv /\ InviteInv /\ SawEnvironment /\ EnvironmentKind /\ KnowsStatus
  BY DEF Init, HandInv, InviteInv, SawEnvironment, EnvironmentKind, KnowsStatus,
         Idle, NoInvite, Serving, Made, Accesses, Buttons
<1>3. StatusInv /\ VisitInv
  BY DEF Init, StatusInv, VisitInv, Away, Blocking
<1>4. OneEnvironment /\ EnvironmentIsApproved /\ OneOpenRegistration /\ OneAccess
  BY DEF Init, OneEnvironment, EnvironmentIsApproved, OneOpenRegistration, OneAccess,
         Environments, Blocking, NoInvite
<1>5. AcceptedIsLinked
  BY DEF Init, AcceptedIsLinked, NoInvite
<1>6. ASSUME NEW t \in Tenants
      PROVE  {e \in Emails : account[e] = t /\ e \notin overrun} = {}
  BY DEF Init, Tenants
<1>7. SeatsOverrun
  BY <1>6, FS_EmptySet DEF SeatsOverrun
<1>8. QED
  BY <1>1, <1>2, <1>3, <1>4, <1>5, <1>7 DEF Inv

----------------------------------------------------------------------------
(***************************************************************************)
(* Types.                                                                  *)
(***************************************************************************)
LEMMA LoadTypes ==
    ASSUME TypeOK, NEW r \in Requests, NEW op \in Buttons, NEW g \in Regs, Load(r, op, g)
    PROVE  TypeOK'
  BY DEF TypeOK, Load, Idle, StaffRequests, registrations, people

\* A request for an invitation has a client and an address.
LEMMA InviteTypes ==
    ASSUME TypeOK, NEW r \in Requests, NEW c \in Requests, NEW e \in Emails,
           InviteUser(r, e) \/ PortalInvite(r, c, e)
    PROVE  TypeOK'
<1>1. [Idle EXCEPT !.stage = "loaded", !.mail = e, !.op = "invite_user"] \in StaffRequests
  BY DEF Idle, StaffRequests, Statuses, Kinds
<1>2. [Idle EXCEPT !.stage = "loaded", !.mail = e, !.op = "portal_invite", !.client = c]
         \in StaffRequests
  BY DEF Idle, StaffRequests, Statuses, Kinds
<1>3. req' \in [Requests -> StaffRequests]
  BY <1>1, <1>2 DEF TypeOK, InviteUser, PortalInvite
<1>4. UNCHANGED <<registrations, invite, before, people, late>>
  BY DEF InviteUser, PortalInvite
<1> QED BY <1>3, <1>4 DEF TypeOK, registrations, people

\* A request keeps its type when its tenant is named, when it commits on an
\* invitation, and a visit when another visitor overtakes it.
LEMMA Named ==
    ASSUME NEW q \in StaffRequests, NEW b \in BOOLEAN
    PROVE  [q EXCEPT !.stage = "named", !.first = b] \in StaffRequests
  BY DEF StaffRequests

LEMMA Chosen ==
    ASSUME NEW q \in StaffRequests, NEW i \in Requests
    PROVE  [q EXCEPT !.stage = "committed", !.chosen = i] \in StaffRequests
  BY DEF StaffRequests

LEMMA Met ==
    ASSUME NEW x \in Visits, NEW b \in BOOLEAN
    PROVE  [x EXCEPT !.raced = b] \in Visits
  BY DEF Visits

\* A commit marks the request and those it overtakes.
LEMMA CommitTypes ==
    ASSUME TypeOK, NEW r \in Requests, Commits(r)
    PROVE  /\ req' \in [Requests -> StaffRequests]
           /\ late' \in SUBSET ((Regs \cup Requests) \X (Regs \cup Requests))
  BY DEF TypeOK, Commits, Overtaken, StaffRequests

\* An invitation is stored with its place in the order.
LEMMA InvitesTypes ==
    ASSUME TypeOK, NEW r \in Requests, NEW t \in Tenants, NEW c \in Requests \cup {None},
           NEW e \in Emails \cup {None}, Invites(r, t, c, e)
    PROVE  /\ invite' \in [Requests -> Invitations]
           /\ before' \in SUBSET (Requests \X Requests)
  BY DEF TypeOK, Invites, Invitations

\* Every step keeps the types.
LEMMA TypeStep == Inv /\ [Next]_vars => TypeOK'
<1> SUFFICES ASSUME Inv, [Next]_vars PROVE TypeOK'
  OBVIOUS
<1> USE DEF Inv
<1>1. ASSUME NEW g \in Regs, Check(g) \/ Store(g) PROVE TypeOK'
  <2>1. CASE Check(g)
    BY <2>1 DEF TypeOK, Check, people
  <2>2. CASE Store(g)
    BY <2>2 DEF TypeOK, Store, people, Statuses
  <2> QED BY <1>1, <2>1, <2>2
<1>2. ASSUME NEW r \in Requests, Decide(r) PROVE TypeOK'
  <2>1. req[r].reg \in Regs
    BY <1>2 DEF Decide, TypeOK, StaffRequests
  <2>2. status' \in [Regs -> Statuses]
    BY <1>2, <2>1 DEF Decide, Writes, Target, TypeOK, Statuses
  <2>3. kind' \in [Regs -> Kinds] /\ archived' \in SUBSET Regs
    BY <1>2, <2>1 DEF Decide, TypeOK, Kinds
  <2> QED BY <1>2, <2>2, <2>3, CommitTypes DEF Decide, TypeOK, people
<1>3. ASSUME NEW r \in Requests, NameTenant(r) \/ Fail(r) PROVE TypeOK'
  <2>1. CASE NameTenant(r)
    <3> DEFINE free == \A s \in Requests : Made(s) => ~req[s].first
    <3>1. req' = [req EXCEPT ![r].stage = "named", ![r].first = free]
      BY <2>1 DEF NameTenant
    <3>2. free \in BOOLEAN
      OBVIOUS
    <3> HIDE DEF free
    <3>4. req' = [req EXCEPT ![r] = [req[r] EXCEPT !.stage = "named", !.first = free]]
      BY <3>1 DEF TypeOK
    <3>5. req[r] \in StaffRequests /\ req \in [Requests -> StaffRequests]
      BY DEF TypeOK
    <3>6. [req[r] EXCEPT !.stage = "named", !.first = free] \in StaffRequests
      BY <3>2, <3>5, Named
    <3>3. req' \in [Requests -> StaffRequests]
      BY <3>4, <3>5, <3>6
    <3> QED BY <2>1, <3>3 DEF TypeOK, NameTenant, registrations, people
  <2>2. CASE Fail(r)
    BY <2>2 DEF TypeOK, Fail, StaffRequests, Idle, Statuses, Kinds, registrations, people
  <2> QED BY <1>3, <2>1, <2>2
<1>4. ASSUME NEW r \in Requests, Approve(r) PROVE TypeOK'
  <2>1. req[r].reg \in Regs
    BY <1>4 DEF Approve, HandInv, Buttons
  <2>2. status' \in [Regs -> Statuses]
    BY <1>4, <2>1 DEF Approve, Writes, TypeOK, Statuses
  <2>3. MailOf[req[r].reg] \in Emails
    BY <2>1
  <2>4. (IF req[r].type = "one_off" THEN Home ELSE r) \in Tenants
    BY DEF Tenants
  <2>5. invite' \in [Requests -> Invitations] /\ before' \in SUBSET (Requests \X Requests)
    BY <1>4, <2>3, <2>4, InvitesTypes DEF Approve
  <2> QED BY <1>4, <2>2, <2>5, CommitTypes DEF Approve, TypeOK, people
<1>5. ASSUME NEW r \in Requests, NEW i \in Requests, Resend(r, i) PROVE TypeOK'
  <2>1. req' = [req EXCEPT ![r].stage = "committed", ![r].chosen = i]
    BY <1>5 DEF Resend
  <2>3. req' = [req EXCEPT ![r] = [req[r] EXCEPT !.stage = "committed", !.chosen = i]]
    BY <2>1 DEF TypeOK
  <2>4. req[r] \in StaffRequests /\ req \in [Requests -> StaffRequests]
    BY DEF TypeOK
  <2>5. [req[r] EXCEPT !.stage = "committed", !.chosen = i] \in StaffRequests
    BY <2>4, Chosen
  <2>2. req' \in [Requests -> StaffRequests]
    BY <2>3, <2>4, <2>5
  <2> QED BY <1>5, <2>2 DEF TypeOK, Resend, registrations, people
<1>6. ASSUME NEW r \in Requests, SendInvite(r) PROVE TypeOK'
  <2>1. req[r].client \in Requests \cup {None} /\ req[r].mail \in Emails \cup {None}
    BY DEF TypeOK, StaffRequests
  <2>2. Home \in Tenants
    BY DEF Tenants
  <2>3. invite' \in [Requests -> Invitations] /\ before' \in SUBSET (Requests \X Requests)
    BY <1>6, <2>1, <2>2, InvitesTypes DEF SendInvite
  <2> QED BY <1>6, <2>3, CommitTypes DEF SendInvite, TypeOK, registrations, people
<1>7. ASSUME NEW r \in Requests, Expire(r) PROVE TypeOK'
  BY <1>7 DEF TypeOK, Expire, Invitations, registrations, people
<1>8. ASSUME NEW v \in Visitors, NEW i \in Requests, Open(v, i) PROVE TypeOK'
  <2>1. [inv |-> i, known |-> account[invite[i].mail],
         room |-> HasRoom(invite[i].tenant), raced |-> FALSE,
         plain |-> \A f \in plain : ~(account[f] = invite[i].tenant
                                      /\ NameOf[f] = NameOf[invite[i].mail])] \in Visits
    <3>1. invite[i].mail \in Emails
      BY <1>8 DEF Open, InviteInv, Made
    <3>2. account[invite[i].mail] \in Tenants \cup {None}
      BY <3>1 DEF TypeOK
    <3>3. HasRoom(invite[i].tenant) \in BOOLEAN
      BY DEF HasRoom
    <3> QED BY <3>2, <3>3 DEF Visits
  <2> QED BY <1>8, <2>1 DEF TypeOK, Open, registrations
<1>9. ASSUME NEW v \in Visitors, Join(v) \/ Enroll(v) \/ Leave(v) PROVE TypeOK'
  <2>0. ASSUME visit[v].inv # None
        PROVE  /\ visit[v].inv \in Requests /\ invite[visit[v].inv].mail \in Emails
               /\ invite[visit[v].inv].tenant \in Tenants
    BY <2>0 DEF VisitInv, InviteInv, TypeOK, Invitations
  <2>1. CASE Join(v)
    <3>1. invite' \in [Requests -> Invitations]
      BY <2>0, <2>1 DEF TypeOK, Join, Invitations
    <3>2. linked' \in SUBSET Requests
      BY <2>1 DEF TypeOK, Join, Linked
    <3>3. visit' \in [Visitors -> Visits]
      BY <2>1 DEF TypeOK, Join, Away, Visits
    <3> QED BY <2>1, <3>1, <3>2, <3>3 DEF TypeOK, Join, registrations
  <2>2. CASE Enroll(v)
    <3>1. invite' \in [Requests -> Invitations]
      BY <2>0, <2>2 DEF TypeOK, Enroll, Invitations
    <3>2. linked' \in SUBSET Requests
      BY <2>2 DEF TypeOK, Enroll, Linked
    <3>3. visit' \in [Visitors -> Visits]
      <4> DEFINE met(w) == visit[w].raced \/ (visit[w].inv # None /\
                              invite[visit[w].inv].tenant = invite[visit[v].inv].tenant)
      <4>1. visit' = [w \in Visitors |-> IF w = v THEN Away
                                        ELSE [visit[w] EXCEPT !.raced = met(w)]]
        BY <2>2 DEF Enroll
      <4>2. \A w \in Visitors : met(w) \in BOOLEAN
        BY DEF TypeOK, Visits
      <4> HIDE DEF met
      <4>3. Away \in Visits
        BY DEF Away, Visits
      <4>4. \A w \in Visitors : [visit[w] EXCEPT !.raced = met(w)] \in Visits
        BY <4>2, Met DEF TypeOK
      <4> QED BY <4>1, <4>3, <4>4
    <3>4. account' \in [Emails -> Tenants \cup {None}] /\ plain' \in SUBSET Emails
          /\ overrun' \in SUBSET Emails
      BY <2>0, <2>2 DEF TypeOK, Enroll
    <3> QED BY <2>2, <3>1, <3>2, <3>3, <3>4 DEF TypeOK, Enroll, registrations
  <2>3. CASE Leave(v)
    BY <2>3 DEF TypeOK, Leave, Away, Visits, registrations
  <2> QED BY <1>9, <2>1, <2>2, <2>3
<1>10. CASE UNCHANGED vars
  BY <1>10 DEF TypeOK, vars
<1> QED
  BY <1>1, <1>2, <1>3, <1>4, <1>5, <1>6, <1>7, <1>8, <1>9, <1>10, LoadTypes, InviteTypes
     DEF Next

----------------------------------------------------------------------------
(***************************************************************************)
(* What no step takes back.                                                *)
(***************************************************************************)
\* Of the steps on a registration: r decided, the others are where they were.
Closed(r) == /\ Serving(r)
             /\ req'[r] = [req[r] EXCEPT !.stage = "committed"]
             /\ \A s \in Requests \ {r} : req'[s] = req[s]
             /\ \A s \in Requests \ {r} : Serving(s) /\ req[s].reg # None
                                          /\ req[s].reg = req[r].reg => <<s, r>> \in late'
             /\ late \subseteq late'

\* A commit closes its request and leaves the others, but marks those on the
\* same registration.
LEMMA CommitsClose ==
    ASSUME TypeOK, NEW r \in Requests, Serving(r), Commits(r) PROVE Closed(r)
  BY DEF TypeOK, Commits, Closed, Overtaken, Serving

\* Of the steps that only touch one request in progress.
Alone(r) == /\ \A s \in Requests \ {r} : req'[s] = req[s]
            /\ req[r].stage # "committed"
            /\ UNCHANGED <<registrations, invite, before, people, late>>

AloneStep(r) == \/ \E op \in Buttons, g \in Regs : Load(r, op, g)
                \/ NameTenant(r) \/ Fail(r)
                \/ \E i \in Requests : Resend(r, i)
                \/ \E e \in Emails : InviteUser(r, e)
                \/ \E c \in Requests, e \in Emails : PortalInvite(r, c, e)

\* Loading, naming, failing and asking for an invitation touch one request
\* alone.
LEMMA AloneSteps ==
    ASSUME TypeOK, NEW r \in Requests, AloneStep(r) PROVE Alone(r)
<1>1. UNCHANGED <<registrations, invite, before, people, late>>
  BY DEF AloneStep, Load, NameTenant, Resend, Fail, InviteUser, PortalInvite
<1>2. req[r].stage # "committed"
  BY DEF AloneStep, Load, NameTenant, Resend, Fail, InviteUser, PortalInvite
<1>3. \A s \in Requests \ {r} : req'[s] = req[s]
  BY DEF AloneStep, TypeOK, Load, NameTenant, Resend, Fail, InviteUser, PortalInvite
<1> QED BY <1>1, <1>2, <1>3 DEF Alone

\* Of the steps that have nothing to do with registrations.
Elsewhere == UNCHANGED <<registrations, req, late>>

ElsewhereStep == \/ \E r \in Requests : Expire(r)
                 \/ \E v \in Visitors, i \in Requests : Open(v, i)
                 \/ \E v \in Visitors : Join(v) \/ Enroll(v) \/ Leave(v)
                 \/ UNCHANGED vars

\* Visitors and the expiry of an invitation leave registrations and requests
\* alone.
LEMMA ElsewhereSteps == ASSUME ElsewhereStep PROVE Elsewhere
  BY DEF ElsewhereStep, Elsewhere, Expire, Open, Join, Enroll, Leave, vars, registrations

\* The effect of a decision on its registration.
Effect(r) ==
    LET g == req[r].reg
    IN /\ g \in Regs
       /\ \A h \in Regs : h # g => status'[h] = status[h] /\ kind'[h] = kind[h]
       /\ form' = form
       /\ kind'[g] # kind[g] => req[r].type = "other"
       /\ kind[g] # "other" => kind'[g] # "other"

\* A decision writes its registration's status if that is not the loaded one,
\* and invites nobody.
LEMMA DecideEffect ==
    ASSUME Inv, NEW r \in Requests, Decide(r)
    PROVE  /\ Effect(r) /\ Closed(r) /\ UNCHANGED <<invite, before, people>>
           /\ status'[req[r].reg] = IF Target(r) = req[r].seen THEN status[req[r].reg]
                                                               ELSE Target(r)
<1> USE DEF Inv
<1>1. req[r].reg \in Regs /\ Serving(r)
  BY DEF Decide, TypeOK, StaffRequests, Serving
<1>2. Closed(r)
  BY <1>1, CommitsClose DEF Decide
<1>3. kind' = CASE req[r].op = "to_one_off" -> [kind EXCEPT ![req[r].reg] = "one_off"]
                [] req[r].op = "to_organization" -> [kind EXCEPT ![req[r].reg] = "organization"]
                [] OTHER -> kind
  BY DEF Decide
<1>4. req[r].op \in {"to_one_off", "to_organization"} => req[r].type = "other"
  BY <1>1 DEF HandInv
<1>5. Effect(r)
  <2>1. form' = form
    BY DEF Decide
  <2>2. \A h \in Regs : h # req[r].reg => status'[h] = status[h] /\ kind'[h] = kind[h]
    BY <1>1, <1>3 DEF Decide, Writes, TypeOK
  <2>3. kind'[req[r].reg] # kind[req[r].reg] => req[r].type = "other"
    BY <1>1, <1>3, <1>4 DEF TypeOK
  <2>4. kind[req[r].reg] # "other" => kind'[req[r].reg] # "other"
    BY <1>1, <1>3 DEF TypeOK
  <2> QED BY <1>1, <2>1, <2>2, <2>3, <2>4 DEF Effect
<1>6. status'[req[r].reg] = IF Target(r) = req[r].seen THEN status[req[r].reg] ELSE Target(r)
  BY <1>1 DEF Decide, Writes, TypeOK
<1> QED BY <1>2, <1>5, <1>6 DEF Decide

\* An approval makes one invitation, to the registration's address, with a
\* client of its own.
LEMMA ApproveEffect ==
    ASSUME Inv, NEW r \in Requests, Approve(r)
    PROVE  /\ Effect(r) /\ Closed(r) /\ UNCHANGED <<kind, people>>
           /\ req[r].op = "approve" /\ req[r].type # "other"
           /\ status'[req[r].reg] = "approved"
           /\ ~Made(r) /\ Made(r)'
           /\ invite'[r].client = r /\ invite'[r].mail = MailOf[req[r].reg]
           /\ invite'[r].mail \in Emails
           /\ \A s \in Requests : s # r => invite'[s] = invite[s]
<1> USE DEF Inv
<1>1. Serving(r) /\ req[r].op = "approve" /\ req[r].type # "other"
  BY DEF Approve, Serving, HandInv
<1>2. req[r].reg \in Regs
  BY <1>1 DEF HandInv, Serving, Buttons
<1>3. Closed(r)
  BY <1>1, CommitsClose DEF Approve
<1>4. req[r].seen # "approved"
  BY <1>1, <1>2 DEF HandInv, Decided
<1>5. status' = [status EXCEPT ![req[r].reg] = "approved"]
  BY <1>4 DEF Approve, Writes
<1>6. Effect(r) /\ status'[req[r].reg] = "approved"
  BY <1>2, <1>5 DEF Approve, Effect, TypeOK
<1>7. ~Made(r)
  BY <1>1 DEF InviteInv, Serving
<1>8. \E t \in {Home, r} : invite' = [invite EXCEPT ![r] =
          [state |-> "open", tenant |-> t, client |-> r, mail |-> MailOf[req[r].reg]]]
  BY DEF Approve, Invites
<1>9. /\ Made(r)' /\ invite'[r].client = r /\ invite'[r].mail = MailOf[req[r].reg]
      /\ \A s \in Requests : s # r => invite'[s] = invite[s]
  BY <1>8 DEF TypeOK, Made
<1> QED BY <1>1, <1>2, <1>3, <1>6, <1>7, <1>9 DEF Approve

\* An invitation by the staff is one more, of the home tenant, and no
\* registration's.
LEMMA SendEffect ==
    ASSUME Inv, NEW r \in Requests, SendInvite(r)
    PROVE  /\ Closed(r) /\ UNCHANGED <<registrations, people>>
           /\ ~Made(r) /\ Made(r)' /\ req[r].reg = None
           /\ invite'[r].client = req[r].client /\ invite'[r].mail = req[r].mail
           /\ invite'[r].tenant = Home
           /\ req[r].client # r
           /\ \A s \in Requests : s # r => invite'[s] = invite[s]
<1> USE DEF Inv
<1>1. Serving(r) /\ req[r].op \in {"invite_user", "portal_invite"}
  BY DEF SendInvite, Serving
<1>2. req[r].reg = None
  BY <1>1 DEF HandInv, Buttons
<1>3. Closed(r)
  BY <1>1, CommitsClose DEF SendInvite
<1>4. ~Made(r)
  BY <1>1 DEF InviteInv, Serving
<1>5. req[r].client # r
  BY <1>4 DEF InviteInv
<1>6. invite' = [invite EXCEPT ![r] = [state |-> "open", tenant |-> Home,
                                       client |-> req[r].client, mail |-> req[r].mail]]
  BY DEF SendInvite, Invites
<1>7. /\ Made(r)' /\ invite'[r].client = req[r].client /\ invite'[r].mail = req[r].mail
      /\ invite'[r].tenant = Home
      /\ \A s \in Requests : s # r => invite'[s] = invite[s]
  BY <1>6 DEF TypeOK, Made
<1> QED BY <1>2, <1>3, <1>4, <1>5, <1>7 DEF SendInvite

----------------------------------------------------------------------------
(***************************************************************************)
(* Registrations: HandInv, KnowsStatus, StatusInv, OneOpenRegistration.    *)
(***************************************************************************)
RegInv == HandInv /\ KnowsStatus /\ StatusInv /\ OneOpenRegistration

\* Registrations, step by step: what visitors do, what a request does alone,
\* the public form, an invitation by the staff.
LEMMA ElsewhereReg == ASSUME Inv, Elsewhere PROVE RegInv'
<1>1. /\ form' = form /\ status' = status /\ kind' = kind /\ req' = req /\ late' = late
  BY DEF Elsewhere, registrations
<1>2. \A g \in Regs : Revived(g)' <=> Revived(g)
  BY <1>1 DEF Revived, Overtook
<1>3. HandInv'
  BY <1>1 DEF Inv, HandInv, Serving
<1>4. KnowsStatus'
  BY <1>1, <1>2 DEF Inv, KnowsStatus, Serving, TypeOK, StaffRequests
<1>5. StatusInv' /\ OneOpenRegistration'
  BY <1>1, <1>2 DEF Inv, StatusInv, OneOpenRegistration
<1> QED BY <1>3, <1>4, <1>5 DEF RegInv

\* Nothing changes for the registrations but the request r itself.
LEMMA AloneReg ==
    ASSUME Inv, NEW r \in Requests, Alone(r), HandInv',
           Serving(r)' /\ req'[r].reg # None =>
              req'[r].seen = status[req'[r].reg] \/ Revived(req'[r].reg),
           req'[r].reg \in Regs \cup {None}
    PROVE  RegInv'
<1>1. /\ form' = form /\ status' = status /\ kind' = kind /\ late' = late
      /\ \A s \in Requests \ {r} : req'[s] = req[s]
      /\ req[r].stage # "committed"
  BY DEF Alone, registrations
<1>2. \A g \in Regs : Revived(g) => Revived(g)'
  BY <1>1 DEF Revived, Overtook
<1>3. KnowsStatus'
  <2>1. ASSUME NEW s \in Requests, Serving(s)', NEW g \in Regs, req'[s].reg = g
        PROVE  req'[s].seen = status[g] \/ Revived(g)
    <3>1. CASE s = r
      BY <2>1, <3>1
    <3>2. CASE s # r
      <4>1. req'[s] = req[s] /\ Serving(s)
        BY <1>1, <2>1, <3>2 DEF Serving
      <4> QED BY <2>1, <4>1 DEF Inv, KnowsStatus
    <3> QED BY <3>1, <3>2
  <2>2. \A s \in Requests : req'[s].reg \in Regs \cup {None}
    BY <1>1 DEF Inv, TypeOK, StaffRequests
  <2> QED BY <1>1, <1>2, <2>1, <2>2 DEF KnowsStatus
<1>4. StatusInv' /\ OneOpenRegistration'
  BY <1>1, <1>2 DEF Inv, StatusInv, OneOpenRegistration
<1> QED BY <1>3, <1>4 DEF RegInv

LEMMA LoadReg ==
    ASSUME Inv, NEW r \in Requests, NEW op \in Buttons, NEW g \in Regs, Load(r, op, g)
    PROVE  RegInv'
<1>1. Alone(r)
  BY AloneSteps DEF Inv, AloneStep
<1>2. /\ req'[r].stage = "loaded" /\ req'[r].op = op /\ req'[r].reg = g
      /\ req'[r].seen = status[g] /\ req'[r].type = kind[g]
  BY DEF Inv, Load, TypeOK, Idle
<1>3. HandInv'
  <2>1. \A s \in Requests \ {r} : req'[s] = req[s]
    BY <1>1 DEF Alone
  <2>2. form' = form /\ kind' = kind
    BY <1>1 DEF Alone, registrations
  <2>3. form[g] = "stored" /\ status[g] \notin {"none", "spam"}
    BY DEF Load, Admits, Inv, StatusInv
  <2>4. /\ op = "review" => status[g] = "submitted"
        /\ op \in {"reject", "approve", "assign"} => status[g] \notin Decided
        /\ op \in {"respond", "follow_up", "to_one_off", "to_organization"} => kind[g] = "other"
    BY DEF Load, Admits
  <2> QED BY <1>2, <2>1, <2>2, <2>3, <2>4 DEF Inv, HandInv, Serving
<1> QED BY <1>1, <1>2, <1>3, AloneReg

LEMMA AnyAloneReg ==
    ASSUME Inv, NEW r \in Requests, AloneStep(r) PROVE RegInv'
<1>1. Alone(r)
  BY AloneSteps DEF Inv
<1>2. \A s \in Requests \ {r} : req'[s] = req[s]
  BY <1>1 DEF Alone
<1>3. form' = form /\ kind' = kind /\ status' = status
  BY <1>1 DEF Alone, registrations
<1>4. CASE NameTenant(r)
  <2>1. /\ req'[r].stage = "named" /\ req[r].stage = "loaded" /\ req'[r].op = req[r].op
        /\ req'[r].reg = req[r].reg /\ req'[r].seen = req[r].seen
        /\ req'[r].type = req[r].type /\ req[r].op = "approve" /\ req[r].type = "organization"
    BY <1>4 DEF NameTenant, Inv, TypeOK
  <2>2. HandInv'
    BY <1>2, <1>3, <2>1 DEF Inv, HandInv, Serving
  <2>3. Serving(r)
    BY <2>1 DEF Serving
  <2>4. req[r].reg \in Regs \cup {None}
    BY DEF Inv, TypeOK, StaffRequests
  <2> QED BY <1>1, <2>1, <2>2, <2>3, <2>4, AloneReg DEF Inv, KnowsStatus
<1>5. ASSUME NEW i \in Requests, Resend(r, i) PROVE RegInv'
  <2>1. /\ req'[r].stage = "committed" /\ req[r].stage = "loaded" /\ req'[r].op = req[r].op
        /\ req'[r].reg = req[r].reg
    BY <1>5 DEF Resend, Inv, TypeOK
  <2>2. HandInv'
    BY <1>2, <1>3, <2>1 DEF Inv, HandInv, Serving
  <2>3. ~Serving(r)'
    BY <2>1 DEF Serving
  <2>4. req[r].reg \in Regs \cup {None}
    BY DEF Inv, TypeOK, StaffRequests
  <2> QED BY <1>1, <2>1, <2>2, <2>3, <2>4, AloneReg
<1>6. CASE Fail(r)
  <2>1. req'[r].stage = "failed" /\ req'[r].reg = None
    BY <1>6 DEF Fail, Inv, TypeOK, Idle
  <2>2. HandInv'
    BY <1>2, <1>3, <2>1 DEF Inv, HandInv, Serving
  <2> QED BY <1>1, <2>1, <2>2, AloneReg
<1>7. ASSUME NEW c \in Requests, NEW e \in Emails,
             InviteUser(r, e) \/ PortalInvite(r, c, e)
      PROVE  RegInv'
  <2>1. req'[r].stage = "loaded" /\ req'[r].reg = None
        /\ req'[r].op \in {"invite_user", "portal_invite"}
    <3>1. CASE InviteUser(r, e)
      BY <3>1 DEF InviteUser, Inv, TypeOK, Idle
    <3>2. CASE PortalInvite(r, c, e)
      BY <3>2 DEF PortalInvite, Inv, TypeOK, Idle
    <3> QED BY <1>7, <3>1, <3>2
  <2>2. HandInv'
    BY <1>2, <1>3, <2>1 DEF Inv, HandInv, Serving, Buttons
  <2> QED BY <1>1, <2>1, <2>2, AloneReg
<1> QED BY <1>4, <1>5, <1>6, <1>7, LoadReg DEF AloneStep

LEMMA FormReg ==
    ASSUME Inv, NEW g \in Regs, Check(g) \/ Store(g) PROVE RegInv'
<1>1. /\ req' = req /\ kind' = kind /\ late \subseteq late'
      /\ \A h \in Regs : h # g => form'[h] = form[h] /\ status'[h] = status[h]
      /\ form[g] # "stored"
  BY DEF Inv, TypeOK, Check, Store
<1>2. \A h \in Regs : Revived(h) => Revived(h)'
  BY <1>1 DEF Revived, Overtook
<1>3. HandInv'
  BY <1>1 DEF Inv, HandInv, Serving, TypeOK, StaffRequests
<1>4. KnowsStatus'
  <2> SUFFICES ASSUME NEW s \in Requests, Serving(s), req[s].reg # None
               PROVE  req[s].seen = status'[req[s].reg] \/ Revived(req[s].reg)'
    BY <1>1 DEF KnowsStatus, Serving
  <2>1. req[s].reg \in Regs /\ req[s].reg # g
    BY <1>1 DEF Inv, HandInv, TypeOK, StaffRequests
  <2> QED BY <1>1, <1>2, <2>1 DEF Inv, KnowsStatus
<1>5. CASE Check(g)
  <2>1. status' = status /\ late' = late /\ form'[g] = "checked" /\ form[g] = "unsent"
    BY <1>5 DEF Check, Inv, TypeOK
  <2>2. \A h \in Regs : MailOf[h] = MailOf[g] => status[h] \notin Blocking
    BY <1>5 DEF Check
  <2>3. StatusInv' /\ OneOpenRegistration'
    BY <1>1, <1>2, <2>1, <2>2 DEF Inv, StatusInv, OneOpenRegistration
  <2> QED BY <1>3, <1>4, <2>3 DEF RegInv
<1>6. CASE Store(g)
  <2>1. form[g] = "checked" /\ form'[g] = "stored" /\ status'[g] = "submitted"
    BY <1>6 DEF Store, Inv, TypeOK
  <2>2. \A h \in Regs : h # g /\ form[h] = "checked" => <<h, g>> \in late'
    BY <1>6 DEF Store
  <2>3. StatusInv'
    BY <1>1, <1>2, <2>1, <2>2 DEF Inv, StatusInv
  <2>4. ASSUME NEW h \in Regs, h # g, MailOf[h] = MailOf[g], status[h] \in Blocking
        PROVE  <<g, h>> \in late' \/ Revived(h)'
    BY <1>1, <1>2, <2>1, <2>4 DEF Inv, StatusInv
  <2>5. OneOpenRegistration'
    BY <1>1, <1>2, <2>4 DEF Inv, OneOpenRegistration
  <2> QED BY <1>3, <1>4, <2>3, <2>5 DEF RegInv
<1> QED BY <1>5, <1>6

LEMMA SendReg == ASSUME Inv, NEW r \in Requests, SendInvite(r) PROVE RegInv'
<1>1. /\ form' = form /\ status' = status /\ kind' = kind /\ late \subseteq late'
      /\ \A s \in Requests \ {r} : req'[s] = req[s]
      /\ req'[r] = [req[r] EXCEPT !.stage = "committed"] /\ req[r].reg = None /\ Serving(r)
  BY SendEffect DEF registrations, Closed
<1>2. \A h \in Regs : Revived(h) => Revived(h)'
  BY <1>1 DEF Revived, Overtook, Serving
<1>3. req'[r].stage = "committed" /\ req'[r].reg = None /\ req'[r].op = req[r].op
  BY <1>1 DEF Inv, TypeOK, StaffRequests
<1>7. req[r].op \notin Buttons
  BY <1>1 DEF Inv, HandInv, Serving
<1>8. req'[r].op \notin Buttons /\ ~Serving(r)' /\ req'[r].stage # "named"
  BY <1>3, <1>7 DEF Serving
<1>9. \A s \in Requests \ {r} : Serving(s)' <=> Serving(s)
  BY <1>1 DEF Serving
<1>4. HandInv'
  <2> DEFINE Hand(s) ==
        /\ req[s].stage \notin {"idle", "failed"} /\ req[s].op \in Buttons => req[s].reg \in Regs
        /\ req[s].reg # None => form[req[s].reg] = "stored" /\ req[s].op \in Buttons
        /\ Serving(s) /\ req[s].reg # None =>
              /\ req[s].seen \notin {"none", "spam"}
              /\ req[s].op = "review" => req[s].seen = "submitted"
              /\ req[s].op \in {"reject", "approve", "assign"} => req[s].seen \notin Decided
              /\ req[s].op \in {"respond", "follow_up", "to_one_off", "to_organization"}
                    => req[s].type = "other"
              /\ req[s].type # "other" => kind[req[s].reg] # "other"
        /\ req[s].stage = "named" => req[s].op = "approve" /\ req[s].type # "other"
  <2>1. HandInv <=> \A s \in Requests : Hand(s)
    BY DEF HandInv
  <2>2. HandInv' <=> \A s \in Requests : Hand(s)'
    BY DEF HandInv
  <2>3. Hand(r)'
    BY <1>3, <1>8
  <2>4. ASSUME NEW s \in Requests \ {r}, Hand(s) PROVE Hand(s)'
    BY <1>1, <1>9, <2>4
  <2> HIDE DEF Hand
  <2> QED BY <2>1, <2>2, <2>3, <2>4 DEF Inv
<1>5. KnowsStatus'
  BY <1>1, <1>2, <1>3 DEF Inv, KnowsStatus, Serving, TypeOK, StaffRequests
<1>6. StatusInv' /\ OneOpenRegistration'
  BY <1>1, <1>2 DEF Inv, StatusInv, OneOpenRegistration
<1> QED BY <1>4, <1>5, <1>6 DEF RegInv

\* A decision that puts a registration among the open ones found it there, or
\* revives it.
LEMMA DecisionReg ==
    ASSUME Inv, NEW r \in Requests, Effect(r), Closed(r),
           status'[req[r].reg] # status[req[r].reg] =>
              /\ status'[req[r].reg] # "none" /\ req[r].op # "resend"
              /\ \/ req[r].op = "approve" /\ req[r].type # "other"
                    /\ status'[req[r].reg] = "approved"
                 \/ /\ req[r].op # "approve" \/ req[r].type = "other"
                    /\ status'[req[r].reg] = Target(r)
    PROVE  RegInv'
<1> USE DEF Inv
<1>0. PICK g \in Regs : g = req[r].reg
  BY DEF Effect
<1>1. /\ req[r].reg = g /\ form' = form /\ late \subseteq late'
      /\ \A h \in Regs : h # g => status'[h] = status[h] /\ kind'[h] = kind[h]
      /\ kind'[g] # kind[g] => req[r].type = "other"
      /\ kind[g] # "other" => kind'[g] # "other"
      /\ \A s \in Requests \ {r} : req'[s] = req[s]
      /\ Serving(r)
      /\ \A s \in Requests \ {r} : Serving(s) /\ req[s].reg = g => <<s, r>> \in late'
  BY <1>0 DEF Effect, Closed, TypeOK, StaffRequests
<1>2. /\ req'[r].stage = "committed" /\ req'[r].reg = g /\ req'[r].op = req[r].op
      /\ req'[r].type = req[r].type
  BY <1>0 DEF Closed, TypeOK, StaffRequests
<1>3. req[r].type = "other" => Revived(g)'
  BY <1>1, <1>2 DEF Revived
<1>4. \A h \in Regs : Revived(h) => Revived(h)'
  <2> SUFFICES ASSUME NEW h \in Regs, Revived(h) PROVE Revived(h)'
    OBVIOUS
  <2>1. CASE kind[h] = "other" /\ kind'[h] # "other"
    BY <1>1, <1>3, <2>1
  <2>2. CASE ~(kind[h] = "other" /\ kind'[h] # "other")
    BY <1>1, <2>2 DEF Revived, Overtook, Serving
  <2> QED BY <2>1, <2>2
<1>5. \A s \in Requests \ {r} : Serving(s) /\ req[s].reg = g => Revived(g)'
  <2> SUFFICES ASSUME NEW s \in Requests \ {r}, Serving(s), req[s].reg = g PROVE Revived(g)'
    OBVIOUS
  <2>1. Overtook(r)'
    BY <1>1 DEF Overtook
  <2> QED BY <1>2, <2>1 DEF Revived
<1>6. HandInv'
  BY <1>1, <1>2 DEF HandInv, Serving, TypeOK, StaffRequests
<1>7. KnowsStatus'
  <2>1. ASSUME NEW s \in Requests, Serving(s)', NEW h \in Regs, req'[s].reg = h
        PROVE  req'[s].seen = status'[h] \/ Revived(h)'
    <3>1. s # r
      BY <1>2, <2>1 DEF Serving
    <3>2. req'[s] = req[s] /\ Serving(s) /\ req[s].reg = h
      BY <1>1, <2>1, <3>1 DEF Serving
    <3>3. req[s].seen = status[h] \/ Revived(h)
      BY <3>2 DEF KnowsStatus
    <3> QED BY <1>1, <1>4, <1>5, <3>1, <3>2, <3>3
  <2>2. \A s \in Requests : req'[s].reg \in Regs \cup {None}
    BY <1>1, <1>2 DEF TypeOK, StaffRequests
  <2> QED BY <2>1, <2>2 DEF KnowsStatus
<1>12. status'[g] # status[g] => req[r].op # "resend"
  BY <1>1
<1>8. status'[g] \in Blocking => status[g] \in Blocking \/ Revived(g)'
  <2> SUFFICES ASSUME status'[g] \in Blocking, status[g] \notin Blocking PROVE Revived(g)'
    OBVIOUS
  <2>1. req[r].seen = status[g] \/ Revived(g)
    BY <1>1 DEF KnowsStatus
  <2>2. CASE Revived(g)
    BY <1>1, <1>4, <2>2
  <2>3. CASE req[r].seen = status[g] /\ ~Revived(g)
    <3>1. status[g] \notin {"contacted", "contact_pending", "handled"}
      BY <1>1, <2>3 DEF StatusInv
    <3>2. status[g] \in {"none", "rejected", "spam"}
      BY <1>1, <3>1 DEF TypeOK, Statuses, Blocking
    <3>3. status[g] = "rejected"
      BY <1>1, <2>3, <3>2 DEF HandInv, TypeOK, StaffRequests
    <3>4. req[r].op \notin {"review", "reject", "approve", "assign"}
      BY <1>1, <2>3, <3>3 DEF HandInv, Decided
    <3>5. CASE req[r].type = "other"
      BY <1>3, <3>5
    <3>6. CASE req[r].type # "other"
      <4>1. req[r].op \notin {"respond", "follow_up", "to_one_off", "to_organization"}
        BY <1>1, <3>6 DEF HandInv
      <4>2. req[r].op \in {"spam", "resend"}
        BY <1>1, <3>4, <4>1 DEF HandInv, Buttons
      <4>3. status'[g] # status[g]
        OBVIOUS
      <4>4. req[r].op = "spam"
        BY <1>12, <4>2, <4>3
      <4>5. status'[g] = "spam"
        BY <1>1, <4>3, <4>4 DEF Target
      <4> QED BY <4>5 DEF Blocking
    <3> QED BY <3>5, <3>6
  <2> QED BY <2>1, <2>2, <2>3
<1>9. status'[g] \in {"contacted", "contact_pending", "handled"} => Revived(g)'
  <2>1. CASE status'[g] = status[g]
    BY <1>4, <2>1 DEF StatusInv
  <2>2. CASE status'[g] # status[g] /\ status'[g] \in {"contacted", "contact_pending", "handled"}
    <3>1. status'[g] = Target(r) /\ (req[r].op # "approve" \/ req[r].type = "other")
      BY <1>1, <2>2
    <3>2. req[r].op \in {"respond", "follow_up"} \/ req[r].type = "other"
      BY <2>2, <3>1 DEF Target
    <3>3. req[r].type = "other"
      BY <1>1, <3>2 DEF HandInv
    <3> QED BY <1>3, <3>3
  <2> QED BY <2>1, <2>2
<1>10. status'[g] # "none"
  BY <1>1 DEF StatusInv, HandInv, TypeOK, StaffRequests
<1>11. form[g] = "stored"
  BY <1>1 DEF HandInv, TypeOK
<1>14. StatusInv'
  BY <1>1, <1>4, <1>8, <1>9, <1>10, <1>11 DEF StatusInv
<1>13. OneOpenRegistration'
  BY <1>1, <1>4, <1>8 DEF OneOpenRegistration
<1> QED BY <1>6, <1>7, <1>14, <1>13 DEF RegInv

----------------------------------------------------------------------------
(***************************************************************************)
(* Environments: SawEnvironment, EnvironmentKind, OneEnvironment,          *)
(* EnvironmentIsApproved.                                                  *)
(***************************************************************************)
EnvInv == SawEnvironment /\ EnvironmentKind /\ OneEnvironment /\ EnvironmentIsApproved

\* An environment's request is committed, on a stored registration.
LEMMA EnvironmentReg ==
    ASSUME Inv, NEW r \in Requests, invite[r].client = r
    PROVE  req[r].stage = "committed" /\ req[r].reg \in Regs /\ form[req[r].reg] = "stored"
<1>1. Made(r)
  BY DEF Inv, InviteInv
<1> QED BY <1>1 DEF Inv, InviteInv, HandInv

\* A step that makes no environment and leaves every status alone keeps the
\* group, if the requests it starts on a registration were admitted by it.
LEMMA NoEnvironment ==
    ASSUME Inv, TypeOK',
           \A r \in Requests : invite'[r].client = r => invite[r].client = r,
           \A r \in Requests : req[r].stage = "committed" => req'[r] = req[r],
           late \subseteq late',
           \A g \in Regs : form[g] = "stored" => status'[g] = status[g] /\ kind'[g] = kind[g],
           \A w \in Requests : Serving(w)' /\ req'[w].reg # None =>
               \/ /\ Serving(w) /\ req'[w].reg = req[w].reg
                  /\ req'[w].seen = req[w].seen /\ req'[w].type = req[w].type
               \/ /\ req'[w].seen = status[req'[w].reg] /\ req'[w].seen # "spam"
                  /\ req'[w].type = kind[req'[w].reg]
    PROVE  EnvInv'
<1>1. \A r \in Requests : invite'[r].client = r =>
         /\ invite[r].client = r /\ req'[r] = req[r] /\ req[r].reg \in Regs
         /\ status'[req[r].reg] = status[req[r].reg] /\ kind'[req[r].reg] = kind[req[r].reg]
  BY EnvironmentReg
<1>2. \A r : Overtook(r) => Overtook(r)'
  BY DEF Overtook
<1>3. SawEnvironment'
  <2> SUFFICES ASSUME NEW r \in Requests, NEW w \in Requests, invite'[r].client = r,
                      Serving(w)', req'[w].reg = req'[r].reg
               PROVE  Overtook(r)' \/ (req'[w].seen = "approved" /\ req'[w].type # "other")
    BY DEF SawEnvironment
  <2>1. req'[w].reg = req[r].reg /\ req'[w].reg # None /\ req[r].reg \in Regs
    BY <1>1
  <2>2. CASE Serving(w) /\ req'[w].reg = req[w].reg
             /\ req'[w].seen = req[w].seen /\ req'[w].type = req[w].type
    <3>1. invite[r].client = r /\ Serving(w) /\ req[w].reg = req[r].reg
      BY <1>1, <2>1, <2>2
    <3>2. Overtook(r) \/ (req[w].seen = "approved" /\ req[w].type # "other")
      BY <3>1 DEF Inv, SawEnvironment
    <3> QED BY <1>2, <2>2, <3>2
  <2>3. CASE /\ req'[w].seen = status[req'[w].reg] /\ req'[w].seen # "spam"
             /\ req'[w].type = kind[req'[w].reg]
    <3>1. r \in Environments(req[r].reg)
      BY <1>1 DEF Environments
    <3>2. status[req[r].reg] \in {"approved", "spam"} \/ Overtook(r)
      BY <2>1, <3>1 DEF Inv, EnvironmentIsApproved
    <3>3. kind[req[r].reg] # "other"
      BY <1>1 DEF Inv, EnvironmentKind
    <3> QED BY <1>2, <2>1, <2>3, <3>2, <3>3
  <2> QED BY <2>1, <2>2, <2>3
<1>4. EnvironmentKind'
  BY <1>1 DEF Inv, EnvironmentKind
<1>5. \A g \in Regs : \A r \in Environments(g)' :
         r \in Requests /\ r \in Environments(g) /\ status'[g] = status[g]
  BY <1>1 DEF Environments
<1>6. OneEnvironment' /\ EnvironmentIsApproved'
  BY <1>2, <1>5 DEF Inv, OneEnvironment, EnvironmentIsApproved
<1> QED BY <1>3, <1>4, <1>6 DEF EnvInv

\* What visitors and expiry do leaves the addressee of every invitation.
LEMMA SameInvitations ==
    ASSUME Inv, ElsewhereStep
    PROVE  /\ \A s \in Requests : /\ invite'[s].client = invite[s].client
                                  /\ invite'[s].mail = invite[s].mail
                                  /\ invite'[s].tenant = invite[s].tenant
                                  /\ Made(s)' <=> Made(s)
           /\ before' = before
<1>1. before' = before
  BY DEF ElsewhereStep, Expire, Open, Join, Enroll, Leave, vars
<1>2. \/ invite' = invite
      \/ \E i \in Requests, x \in {"expired", "accepted"} :
            Made(i) /\ invite' = [invite EXCEPT ![i].state = x]
  <2>1. ASSUME NEW r \in Requests, Expire(r)
        PROVE  Made(r) /\ invite' = [invite EXCEPT ![r].state = "expired"]
    BY <2>1 DEF Expire, Made
  <2>2. ASSUME NEW v \in Visitors, Join(v) \/ Enroll(v)
        PROVE  \E i \in Requests : Made(i) /\ invite' = [invite EXCEPT ![i].state = "accepted"]
    <3>1. visit[v].inv \in Requests /\ Made(visit[v].inv)
      BY <2>2 DEF Inv, VisitInv, Join, Enroll
    <3> QED BY <2>2, <3>1 DEF Join, Enroll
  <2>3. ASSUME NEW v \in Visitors, NEW i \in Requests, Open(v, i)
        PROVE  invite' = invite
    BY <2>3 DEF Open
  <2>4. ASSUME NEW v \in Visitors, Leave(v) PROVE invite' = invite
    BY <2>4 DEF Leave
  <2>5. CASE UNCHANGED vars
    BY <2>5 DEF vars
  <2> QED BY <2>1, <2>2, <2>3, <2>4, <2>5 DEF ElsewhereStep
<1>3. CASE invite' = invite
  BY <1>1, <1>3 DEF Made
<1>4. ASSUME NEW i \in Requests, NEW x \in {"expired", "accepted"}, Made(i),
             invite' = [invite EXCEPT ![i].state = x], NEW s \in Requests
      PROVE  /\ invite'[s].client = invite[s].client /\ invite'[s].mail = invite[s].mail
             /\ invite'[s].tenant = invite[s].tenant
             /\ Made(s)' <=> Made(s)
  BY <1>4 DEF Inv, TypeOK, Made
<1> QED BY <1>1, <1>2, <1>3, <1>4

\* Environments, in the same order, and then decisions and approvals.
LEMMA ElsewhereEnv ==
    ASSUME Inv, TypeOK', ElsewhereStep PROVE EnvInv'
<1>1. req' = req /\ late' = late /\ status' = status /\ kind' = kind
  BY ElsewhereSteps DEF Elsewhere, registrations
<1> QED BY <1>1, SameInvitations, NoEnvironment DEF Serving

LEMMA AloneEnv ==
    ASSUME Inv, TypeOK', NEW r \in Requests, AloneStep(r) PROVE EnvInv'
<1>1. Alone(r)
  BY AloneSteps DEF Inv
<1>2. /\ \A s \in Requests \ {r} : req'[s] = req[s]
      /\ req[r].stage # "committed"
      /\ invite' = invite /\ late' = late /\ status' = status /\ kind' = kind
  BY <1>1 DEF Alone, registrations
<1>3. Serving(r)' /\ req'[r].reg # None =>
               \/ /\ Serving(r) /\ req'[r].reg = req[r].reg
                  /\ req'[r].seen = req[r].seen /\ req'[r].type = req[r].type
               \/ /\ req'[r].seen = status[req'[r].reg] /\ req'[r].seen # "spam"
                  /\ req'[r].type = kind[req'[r].reg]
  <2>1. ASSUME NEW op \in Buttons, NEW g \in Regs, Load(r, op, g)
        PROVE  req'[r].reg = g /\ req'[r].seen = status[g] /\ req'[r].type = kind[g]
               /\ status[g] # "spam"
    BY <2>1 DEF Inv, TypeOK, Load, Admits, Idle
  <2>2. CASE NameTenant(r)
    BY <2>2 DEF Inv, TypeOK, NameTenant, Serving
  <2>3. ASSUME NEW i \in Requests, Resend(r, i) PROVE ~Serving(r)'
    BY <2>3 DEF Inv, TypeOK, Resend, Serving
  <2>4. CASE Fail(r)
    BY <2>4 DEF Inv, TypeOK, Fail, Idle
  <2>5. ASSUME NEW e \in Emails, InviteUser(r, e) PROVE req'[r].reg = None
    BY <2>5 DEF Inv, TypeOK, InviteUser, Idle
  <2>6. ASSUME NEW c \in Requests, NEW e \in Emails, PortalInvite(r, c, e)
        PROVE  req'[r].reg = None
    BY <2>6 DEF Inv, TypeOK, PortalInvite, Idle
  <2> QED BY <2>1, <2>2, <2>3, <2>4, <2>5, <2>6 DEF AloneStep
<1>4. \A w \in Requests : Serving(w)' /\ req'[w].reg # None =>
               \/ /\ Serving(w) /\ req'[w].reg = req[w].reg
                  /\ req'[w].seen = req[w].seen /\ req'[w].type = req[w].type
               \/ /\ req'[w].seen = status[req'[w].reg] /\ req'[w].seen # "spam"
                  /\ req'[w].type = kind[req'[w].reg]
  BY <1>2, <1>3 DEF Serving
<1> QED BY <1>2, <1>4, NoEnvironment

LEMMA FormEnv ==
    ASSUME Inv, TypeOK', NEW g \in Regs, Check(g) \/ Store(g) PROVE EnvInv'
<1>1. /\ req' = req /\ kind' = kind /\ late \subseteq late' /\ invite' = invite
      /\ \A h \in Regs : h # g => status'[h] = status[h]
      /\ form[g] # "stored"
  BY DEF Inv, TypeOK, Check, Store
<1> QED BY <1>1, NoEnvironment DEF Serving

LEMMA SendEnv ==
    ASSUME Inv, TypeOK', NEW r \in Requests, SendInvite(r) PROVE EnvInv'
<1>1. /\ status' = status /\ kind' = kind /\ late \subseteq late'
      /\ \A s \in Requests \ {r} : req'[s] = req[s] /\ invite'[s] = invite[s]
      /\ invite'[r].client # r
      /\ req'[r] = [req[r] EXCEPT !.stage = "committed"] /\ Serving(r)
  BY SendEffect DEF registrations, Closed
<1>2. ~Serving(r)' /\ req[r].stage # "committed"
  BY <1>1 DEF Serving, Inv, TypeOK, StaffRequests
<1> QED BY <1>1, <1>2, NoEnvironment DEF Serving

LEMMA DecideEnv ==
    ASSUME Inv, NEW r \in Requests, Decide(r) PROVE EnvInv'
<1> USE DEF Inv
<1>0. PICK g \in Regs : g = req[r].reg
  BY DecideEffect DEF Effect
<1>1. /\ invite' = invite /\ late \subseteq late' /\ Serving(r)
      /\ \A h \in Regs : h # g => status'[h] = status[h] /\ kind'[h] = kind[h]
      /\ kind[g] # "other" => kind'[g] # "other"
      /\ status'[g] = IF Target(r) = req[r].seen THEN status[g] ELSE Target(r)
      /\ \A s \in Requests \ {r} : req'[s] = req[s]
  BY <1>0, DecideEffect DEF Effect, Closed
<1>11. Closed(r)
  BY DecideEffect
<1>2. ~Serving(r)' /\ req[r].stage # "committed"
  BY <1>11 DEF Closed, Serving, TypeOK, StaffRequests
<1>3. \A s \in Requests : invite[s].client = s => s # r /\ req'[s] = req[s] /\ req[s].reg \in Regs
  BY <1>1, <1>2, EnvironmentReg
<1>4. \A s : Overtook(s) => Overtook(s)'
  BY <1>1 DEF Overtook
<1>5. SawEnvironment'
  <2> SUFFICES ASSUME NEW s \in Requests, NEW w \in Requests, invite'[s].client = s,
                      Serving(w)', req'[w].reg = req'[s].reg
               PROVE  Overtook(s)' \/ (req'[w].seen = "approved" /\ req'[w].type # "other")
    BY DEF SawEnvironment
  <2>1. w # r
    BY <1>2
  <2>2. req'[w] = req[w] /\ Serving(w) /\ req'[s] = req[s] /\ invite[s].client = s
    BY <1>1, <1>3, <2>1 DEF Serving
  <2> QED BY <1>4, <2>2 DEF SawEnvironment
<1>6. EnvironmentKind'
  BY <1>1, <1>3 DEF EnvironmentKind
<1>7. ASSUME NEW s \in Requests, invite[s].client = s, req[s].reg = g
      PROVE  status'[g] \in {"approved", "spam"} \/ Overtook(s)'
  <2>1. Overtook(s) \/ (req[r].seen = "approved" /\ req[r].type # "other")
    BY <1>0, <1>1, <1>7 DEF SawEnvironment
  <2>2. s \in Environments(g)
    BY <1>7 DEF Environments
  <2>3. status[g] \in {"approved", "spam"} \/ Overtook(s)
    BY <2>2 DEF EnvironmentIsApproved
  <2>4. CASE req[r].seen = "approved" /\ req[r].type # "other"
    <3>1. req[r].op \notin {"review", "reject", "approve", "assign", "respond",
                            "follow_up", "to_one_off", "to_organization"}
      BY <1>0, <1>1, <2>4 DEF HandInv, Decided
    <3>2. req[r].op # "resend" /\ req[r].op \in Buttons
      BY <1>0 DEF Decide, HandInv
    <3>3. req[r].op = "spam"
      BY <3>1, <3>2 DEF Buttons
    <3>4. Target(r) = "spam"
      BY <3>3 DEF Target
    <3> QED BY <1>1, <2>4, <3>4
  <2> QED BY <1>4, <2>1, <2>4
<1>8. EnvironmentIsApproved'
  <2> SUFFICES ASSUME NEW h \in Regs, NEW s \in Requests, invite'[s].client = s, req'[s].reg = h
               PROVE  status'[h] \in {"approved", "spam"} \/ Overtook(s)'
    BY DEF EnvironmentIsApproved, Environments
  <2>1. invite[s].client = s /\ req[s].reg = h
    BY <1>1, <1>3
  <2>2. CASE h = g
    BY <1>7, <2>1, <2>2
  <2>3. CASE h # g
    <3>1. s \in Environments(h)
      BY <2>1 DEF Environments
    <3> QED BY <1>1, <1>4, <2>3, <3>1 DEF EnvironmentIsApproved
  <2> QED BY <2>2, <2>3
<1>9. \A h \in Regs : Environments(h)' \subseteq Environments(h)
  BY <1>1, <1>3 DEF Environments
<1>10. OneEnvironment'
  BY <1>4, <1>9 DEF OneEnvironment
<1> QED BY <1>5, <1>6, <1>8, <1>10 DEF EnvInv

LEMMA ApproveEnv ==
    ASSUME Inv, NEW r \in Requests, Approve(r) PROVE EnvInv'
<1> USE DEF Inv
<1>0. PICK g \in Regs : g = req[r].reg
  BY ApproveEffect DEF Effect
<1>1. /\ late \subseteq late' /\ Serving(r) /\ kind' = kind
      /\ \A h \in Regs : h # g => status'[h] = status[h]
      /\ status'[g] = "approved" /\ req[r].type # "other" /\ req[r].op = "approve"
      /\ \A s \in Requests \ {r} : req'[s] = req[s] /\ invite'[s] = invite[s]
      /\ \A s \in Requests \ {r} : Serving(s) /\ req[s].reg = g => <<s, r>> \in late'
  <2>1. Effect(r) /\ Closed(r) /\ kind' = kind
    BY ApproveEffect
  <2>2. \A s \in Requests \ {r} : invite'[s] = invite[s]
    BY ApproveEffect
  <2>3. status'[g] = "approved" /\ req[r].type # "other" /\ req[r].op = "approve"
    BY <1>0, ApproveEffect
  <2> QED BY <1>0, <2>1, <2>2, <2>3 DEF Effect, Closed
<1>2. /\ ~Serving(r)' /\ req[r].stage # "committed" /\ req'[r].reg = g
      /\ invite'[r].client = r
  <2>1. Closed(r) /\ invite'[r].client = r
    BY ApproveEffect
  <2> QED BY <1>0, <2>1 DEF Closed, Serving, TypeOK, StaffRequests
<1>3. \A s \in Requests : invite[s].client = s => s # r /\ req'[s] = req[s] /\ req[s].reg \in Regs
  BY <1>1, <1>2, EnvironmentReg
<1>4. \A s : Overtook(s) => Overtook(s)'
  BY <1>1 DEF Overtook
<1>5. SawEnvironment'
  <2> SUFFICES ASSUME NEW s \in Requests, NEW w \in Requests, invite'[s].client = s,
                      Serving(w)', req'[w].reg = req'[s].reg
               PROVE  Overtook(s)' \/ (req'[w].seen = "approved" /\ req'[w].type # "other")
    BY DEF SawEnvironment
  <2>1. w # r
    BY <1>2
  <2>2. req'[w] = req[w] /\ Serving(w)
    BY <1>1, <2>1 DEF Serving
  <2>3. CASE s = r
    <3>1. <<w, r>> \in late'
      BY <1>1, <1>2, <2>1, <2>2, <2>3
    <3> QED BY <2>3, <3>1 DEF Overtook
  <2>4. CASE s # r
    BY <1>1, <1>3, <1>4, <2>2, <2>4 DEF SawEnvironment
  <2> QED BY <2>3, <2>4
<1>6. EnvironmentKind'
  <2>1. kind[g] # "other"
    BY <1>0, <1>1 DEF HandInv
  <2> QED BY <1>1, <1>2, <2>1 DEF EnvironmentKind
<1>7. EnvironmentIsApproved'
  <2> SUFFICES ASSUME NEW h \in Regs, NEW s \in Requests, invite'[s].client = s, req'[s].reg = h,
                      h # g
               PROVE  status'[h] \in {"approved", "spam"} \/ Overtook(s)'
    BY <1>1 DEF EnvironmentIsApproved, Environments
  <2>1. s \in Environments(h)
    BY <1>1, <1>2 DEF Environments
  <2> QED BY <1>1, <1>4, <2>1 DEF EnvironmentIsApproved
<1>8. ASSUME NEW s \in Requests, invite[s].client = s, req[s].reg = g
      PROVE  Overtook(s)
  <2>1. Overtook(s) \/ (req[r].seen = "approved" /\ req[r].type # "other")
    BY <1>0, <1>1, <1>8 DEF SawEnvironment
  <2>2. req[r].seen # "approved"
    BY <1>0, <1>1 DEF HandInv, Decided
  <2> QED BY <2>1, <2>2
<1>9. OneEnvironment'
  <2> SUFFICES ASSUME NEW h \in Regs, NEW s \in Environments(h)', NEW u \in Environments(h)', s # u
               PROVE  Overtook(s)' \/ Overtook(u)'
    BY DEF OneEnvironment
  <2>1. s \in Requests /\ u \in Requests
    BY DEF Environments
  <2>2. CASE s # r /\ u # r
    <3>1. s \in Environments(h) /\ u \in Environments(h)
      BY <1>1, <2>1, <2>2 DEF Environments
    <3> QED BY <1>4, <3>1 DEF OneEnvironment
  <2>3. CASE s = r
    <3>1. h = g /\ invite[u].client = u /\ req[u].reg = g
      BY <1>1, <1>2, <2>1, <2>3 DEF Environments
    <3> QED BY <1>4, <1>8, <2>1, <3>1
  <2>4. CASE u = r
    <3>1. h = g /\ invite[s].client = s /\ req[s].reg = g
      BY <1>1, <1>2, <2>1, <2>4 DEF Environments
    <3> QED BY <1>4, <1>8, <2>1, <3>1
  <2> QED BY <2>2, <2>3, <2>4
<1> QED BY <1>5, <1>6, <1>7, <1>9 DEF EnvInv

----------------------------------------------------------------------------
(***************************************************************************)
(* Invitations: InviteInv and OneAccess.                                   *)
(***************************************************************************)
\* What InviteInv says of a request w with record q.
Invited(w, q) ==
    /\ q.client # None => /\ q.client \in Requests
                          /\ invite[q.client].client = q.client
    /\ q.stage \in {"loaded", "named"} /\ q.op \in {"invite_user", "portal_invite"}
          => q.mail \in Emails
    /\ q.stage \in {"loaded", "named"} /\ q.client # None =>
          \A s \in Requests : invite[s].tenant = Home /\ invite[s].client = q.client
                              /\ invite[s].mail = q.mail => <<w, s>> \in late

\* Invited is what InviteInv says of a request as it is.
LEMMA InvitedNow == ASSUME Inv, NEW w \in Requests PROVE Invited(w, req[w])
  BY DEF Inv, InviteInv, Invited, Serving, Accesses

\* A step that makes no invitation keeps InviteInv if it keeps Invited.
LEMMA NoInvitation ==
    ASSUME Inv,
           \A s \in Requests : /\ invite'[s].client = invite[s].client
                               /\ invite'[s].mail = invite[s].mail
                               /\ invite'[s].tenant = invite[s].tenant
                               /\ Made(s)' <=> Made(s),
           \A s \in Requests : req[s].stage = "committed" => req'[s] = req[s],
           late \subseteq late',
           \A w \in Requests : Invited(w, req'[w])
    PROVE  InviteInv' /\ OneAccess'
<1>1. OneAccess'
  BY DEF Inv, OneAccess, AccessesOf, Accesses
<1>2. ASSUME NEW r \in Requests
      PROVE  /\ Made(r)' => /\ req'[r].stage = "committed"
                            /\ invite'[r].mail \in Emails
             /\ ~Made(r)' => invite'[r].client = None /\ invite'[r].mail = None
             /\ invite'[r].client # None =>
                   invite'[r].client \in Requests
                   /\ invite'[invite'[r].client].client = invite'[r].client
             /\ invite'[r].client = r => req'[r].reg \in Regs
  BY DEF Inv, InviteInv
<1>3. ASSUME NEW r \in Requests
      PROVE  /\ req'[r].client # None =>
                   req'[r].client \in Requests
                   /\ invite'[req'[r].client].client = req'[r].client
             /\ Serving(r)' /\ req'[r].op \in {"invite_user", "portal_invite"}
                   => req'[r].mail \in Emails
             /\ Serving(r)' /\ req'[r].client # None =>
                   \A s \in Requests : invite'[s].tenant = Home
                        /\ invite'[s].client = req'[r].client /\ invite'[s].mail = req'[r].mail => <<r, s>> \in late'
  BY DEF Invited, Serving
<1>4. InviteInv'
  BY <1>2, <1>3 DEF InviteInv, Accesses
<1> QED BY <1>1, <1>4

\* Invitations and accesses, in the same order.
LEMMA ElsewhereInvite ==
    ASSUME Inv, ElsewhereStep PROVE InviteInv' /\ OneAccess'
<1>1. req' = req /\ late' = late
  BY ElsewhereSteps DEF Elsewhere
<1>2. \A w \in Requests : Invited(w, req'[w])
  BY <1>1, InvitedNow
<1>3. \A s \in Requests : /\ invite'[s].client = invite[s].client
                          /\ invite'[s].mail = invite[s].mail
                          /\ invite'[s].tenant = invite[s].tenant
                          /\ Made(s)' <=> Made(s)
  BY SameInvitations
<1> QED BY <1>1, <1>2, <1>3, NoInvitation

LEMMA FormInvite ==
    ASSUME Inv, NEW g \in Regs, Check(g) \/ Store(g) PROVE InviteInv' /\ OneAccess'
<1>1. req' = req /\ invite' = invite /\ late \subseteq late'
  BY DEF Check, Store
<1>2. \A w \in Requests : Invited(w, req'[w])
  BY <1>1, InvitedNow
<1> QED BY <1>1, <1>2, NoInvitation DEF Made

LEMMA AloneInvite ==
    ASSUME Inv, NEW r \in Requests, AloneStep(r) PROVE InviteInv' /\ OneAccess'
<1>1. Alone(r)
  BY AloneSteps DEF Inv
<1>2. /\ \A s \in Requests \ {r} : req'[s] = req[s]
      /\ req[r].stage # "committed"
      /\ invite' = invite /\ late' = late
  BY <1>1 DEF Alone
<1>3. Invited(r, req'[r])
  <2>1. ASSUME NEW op \in Buttons, NEW g \in Regs, Load(r, op, g) PROVE Invited(r, req'[r])
    <3>1. req'[r].client = None /\ req'[r].op = op
      BY <2>1 DEF Inv, TypeOK, Load, Idle
    <3> QED BY <3>1 DEF Invited, Buttons
  <2>2. CASE NameTenant(r)
    <3>1. /\ req'[r].client = req[r].client /\ req'[r].mail = req[r].mail
          /\ req'[r].op = req[r].op /\ req[r].stage = "loaded"
      BY <2>2 DEF Inv, TypeOK, NameTenant
    <3> QED BY <3>1, InvitedNow DEF Invited
  <2>3. ASSUME NEW i \in Requests, Resend(r, i) PROVE Invited(r, req'[r])
    <3>1. req'[r].client = req[r].client /\ req'[r].stage = "committed"
      BY <2>3 DEF Inv, TypeOK, Resend
    <3> QED BY <3>1, InvitedNow DEF Invited
  <2>4. CASE Fail(r)
    BY <2>4 DEF Inv, TypeOK, Fail, Idle, Invited
  <2>5. ASSUME NEW e \in Emails, InviteUser(r, e) PROVE Invited(r, req'[r])
    <3>1. req'[r].client = None /\ req'[r].mail = e
      BY <2>5 DEF Inv, TypeOK, InviteUser, Idle
    <3> QED BY <3>1 DEF Invited
  <2>6. ASSUME NEW c \in Requests, NEW e \in Emails, PortalInvite(r, c, e)
        PROVE  Invited(r, req'[r])
    <3>1. req'[r].client = c /\ req'[r].mail = e
      BY <2>6 DEF Inv, TypeOK, PortalInvite, Idle
    <3>2. invite[c].client = c /\ Accesses(Home, c, e) = {}
      BY <2>6 DEF PortalInvite
    <3> QED BY <3>1, <3>2 DEF Invited, Accesses
  <2> QED BY <2>1, <2>2, <2>3, <2>4, <2>5, <2>6 DEF AloneStep
<1>4. \A w \in Requests : Invited(w, req'[w])
  BY <1>2, <1>3, InvitedNow
<1> QED BY <1>2, <1>4, NoInvitation DEF Made

LEMMA DecideInvite ==
    ASSUME Inv, NEW r \in Requests, Decide(r) PROVE InviteInv' /\ OneAccess'
<1>1. Closed(r) /\ invite' = invite
  BY DecideEffect
<1>2. /\ req'[r].client = req[r].client /\ req'[r].stage = "committed"
      /\ req[r].stage # "committed"
      /\ \A s \in Requests \ {r} : req'[s] = req[s]
      /\ late \subseteq late'
  BY <1>1 DEF Closed, Serving, Inv, TypeOK, StaffRequests
<1>3. Invited(r, req'[r])
  BY <1>2, InvitedNow DEF Invited
<1>4. \A w \in Requests : Invited(w, req'[w])
  BY <1>2, <1>3, InvitedNow
<1> QED BY <1>1, <1>2, <1>4, NoInvitation DEF Made

\* A request that commits an invitation to e for the client c.
LEMMA NewInvitation ==
    ASSUME Inv, NEW r \in Requests, Closed(r), ~Made(r), Made(r)',
           NEW c \in Requests \cup {None}, NEW e \in Emails,
           invite'[r].client = c, invite'[r].mail = e,
           \A s \in Requests : s # r => invite'[s] = invite[s],
           \/ c = r /\ req[r].reg \in Regs
           \/ /\ c # r /\ c = req[r].client /\ e = req[r].mail /\ invite'[r].tenant = Home
              /\ \A s \in Requests \ {r} : Serving(s) /\ req[s].client = c /\ c # None
                                           /\ req[s].mail = e => <<s, r>> \in late'
    PROVE  InviteInv' /\ OneAccess'
<1> USE DEF Inv
<1>1. /\ req'[r].client = req[r].client /\ req'[r].stage = "committed"
      /\ req'[r].reg = req[r].reg
      /\ req[r].stage # "committed" /\ Serving(r)
      /\ \A s \in Requests \ {r} : req'[s] = req[s]
      /\ late \subseteq late'
  BY DEF Closed, Serving, TypeOK, StaffRequests
<1>2. invite[r].client = None
  BY DEF InviteInv
<1>3. \A s \in Requests : /\ invite[s].client # r
                          /\ req[s].client # r
  BY <1>2 DEF InviteInv
<1>4. \A s \in Requests : s # r => (Made(s)' <=> Made(s))
  BY DEF Made
<1>5. c # None => invite'[c].client = c
  <2>1. CASE c = r
    BY <2>1
  <2>2. CASE c # r /\ c = req[r].client
    BY <2>2 DEF InviteInv
  <2> QED BY <2>1, <2>2
<1>6. ASSUME NEW s \in Requests
      PROVE  /\ Made(s)' => req'[s].stage = "committed" /\ invite'[s].mail \in Emails
             /\ ~Made(s)' => invite'[s].client = None /\ invite'[s].mail = None
             /\ invite'[s].client # None =>
                   invite'[s].client \in Requests
                   /\ invite'[invite'[s].client].client = invite'[s].client
             /\ invite'[s].client = s => req'[s].reg \in Regs
  <2>1. CASE s = r
    BY <1>1, <1>5, <2>1
  <2>2. CASE s # r
    BY <1>1, <1>3, <1>4, <2>2 DEF InviteInv
  <2> QED BY <2>1, <2>2
<1>7. ASSUME NEW s \in Requests
      PROVE  /\ req'[s].client # None =>
                   req'[s].client \in Requests
                   /\ invite'[req'[s].client].client = req'[s].client
             /\ Serving(s)' /\ req'[s].op \in {"invite_user", "portal_invite"}
                   => req'[s].mail \in Emails
             /\ Serving(s)' /\ req'[s].client # None =>
                   \A u \in Requests : invite'[u].tenant = Home
                        /\ invite'[u].client = req'[s].client /\ invite'[u].mail = req'[s].mail => <<s, u>> \in late'
  <2>0. Invited(s, req[s])
    BY InvitedNow
  <2>1. CASE s = r
    <3>1. ~Serving(s)'
      BY <1>1, <2>1 DEF Serving
    <3> QED BY <1>1, <1>3, <2>0, <2>1, <3>1 DEF Invited
  <2>2. CASE s # r
    <3>1. req'[s] = req[s] /\ req[s].client # r
      BY <1>1, <1>3, <2>2
    <3>2. ASSUME Serving(s), req[s].client # None, NEW u \in Requests,
                 invite'[u].tenant = Home, invite'[u].client = req[s].client,
                 invite'[u].mail = req[s].mail
          PROVE  <<s, u>> \in late'
      <4>1. CASE u = r
        BY <2>2, <3>1, <3>2, <4>1
      <4>2. CASE u # r
        BY <1>1, <2>0, <3>2, <4>2 DEF Invited, Serving
      <4> QED BY <4>1, <4>2
    <3> QED BY <2>0, <3>1, <3>2 DEF Invited, Serving
  <2> QED BY <2>1, <2>2
<1>8. InviteInv'
  BY <1>6, <1>7 DEF InviteInv, Accesses
<1>9. ASSUME NEW s \in Requests, s # r, c # None, invite[s].client = c, invite[s].mail = e,
             invite[s].tenant = invite'[r].tenant
      PROVE  <<r, s>> \in late'
  <2>1. c # r
    BY <1>3, <1>9
  <2> QED BY <1>1, <1>9, <2>1, InvitedNow DEF Invited, Serving
<1>10. OneAccess'
  BY <1>1, <1>9 DEF OneAccess, AccessesOf, Accesses
<1> QED BY <1>8, <1>10

LEMMA ApproveInvite ==
    ASSUME Inv, NEW r \in Requests, Approve(r) PROVE InviteInv' /\ OneAccess'
<1>1. Closed(r) /\ ~Made(r) /\ Made(r)' /\ invite'[r].client = r /\ invite'[r].mail \in Emails
  BY ApproveEffect
<1>2. \A s \in Requests : s # r => invite'[s] = invite[s]
  BY ApproveEffect
<1>3. req[r].reg \in Regs
  BY ApproveEffect DEF Effect
<1> QED BY <1>1, <1>2, <1>3, NewInvitation

LEMMA SendInvites ==
    ASSUME Inv, NEW r \in Requests, SendInvite(r) PROVE InviteInv' /\ OneAccess'
<1>1. /\ Closed(r) /\ ~Made(r) /\ Made(r)' /\ req[r].client # r
      /\ invite'[r].client = req[r].client /\ invite'[r].mail = req[r].mail
      /\ invite'[r].tenant = Home
  BY SendEffect
<1>2. \A s \in Requests : s # r => invite'[s] = invite[s]
  BY SendEffect
<1>3. req[r].mail \in Emails /\ req[r].client \in Requests \cup {None}
  BY DEF SendInvite, Inv, InviteInv, Serving, TypeOK, StaffRequests
<1>4. \A s \in Requests \ {r} : Serving(s) /\ req[s].client = req[r].client
             /\ req[r].client # None /\ req[s].mail = req[r].mail => <<s, r>> \in late'
  BY DEF SendInvite, Commits, Overtaken, Serving
<1> QED BY <1>1, <1>2, <1>3, <1>4, NewInvitation

----------------------------------------------------------------------------
(***************************************************************************)
(* Accounts: VisitInv, SeatsOverrun, AcceptedIsLinked.                     *)
(***************************************************************************)
PeopleInv == VisitInv /\ SeatsOverrun /\ AcceptedIsLinked

\* A step that leaves visitors and accounts alone and accepts nothing keeps
\* what is said of them.
LEMMA SamePeople ==
    ASSUME Inv, UNCHANGED people,
           \A s \in Requests : Made(s) => /\ invite'[s].client = invite[s].client
                                          /\ invite'[s].mail = invite[s].mail
                                          /\ invite'[s].tenant = invite[s].tenant
                                          /\ Made(s)',
           \A s \in Requests : invite'[s].state = "accepted" => invite[s].state = "accepted"
    PROVE  PeopleInv'
<1>1. linked' = linked /\ account' = account /\ visit' = visit /\ overrun' = overrun
  BY DEF people
<1>2. VisitInv'
  <2>1. \A t : HasRoom(t)' <=> HasRoom(t)
    BY <1>1 DEF HasRoom, Seats
  <2>2. ASSUME NEW v \in Visitors, NEW i \in Requests, NEW t \in Tenants,
               visit[v].inv = i, invite'[i].tenant = t
        PROVE  /\ visit[v].known # None => account[invite'[i].mail] = t
               /\ visit[v].known = None /\ ~visit[v].raced => HasRoom(t)
    BY <2>2 DEF Inv, VisitInv
  <2>3. ASSUME NEW v \in Visitors, visit[v].inv # None
        PROVE  visit[v].inv \in Requests /\ Made(visit[v].inv)'
    BY <1>1, <2>3 DEF Inv, VisitInv, Made
  <2> QED BY <1>1, <2>1, <2>2, <2>3 DEF VisitInv, Made
<1>3. SeatsOverrun'
  BY <1>1 DEF Inv, SeatsOverrun
<1>4. \A s \in Requests : invite'[s].state = "accepted" => Made(s)
  BY DEF Made
<1>5. \A t, c, e : c # None => Accesses(t, c, e) \subseteq Accesses(t, c, e)'
  BY DEF Accesses, Inv, InviteInv
<1>6. AcceptedIsLinked'
  <2> SUFFICES ASSUME NEW i \in Requests, invite'[i].state = "accepted"
               PROVE  /\ account[invite'[i].mail] = invite'[i].tenant
                      /\ invite'[i].client # None => AccessesOf(i)' \cap linked # {}
    BY <1>1 DEF AcceptedIsLinked
  <2>1. PICK t, c, e : t = invite[i].tenant /\ c = invite[i].client /\ e = invite[i].mail
    OBVIOUS
  <2>2. t = invite'[i].tenant /\ c = invite'[i].client /\ e = invite'[i].mail
    BY <1>4, <2>1
  <2>3. AccessesOf(i) = Accesses(t, c, e) /\ AccessesOf(i)' = Accesses(t, c, e)'
    BY <2>1, <2>2 DEF AccessesOf, Accesses
  <2> QED BY <1>4, <1>5, <2>1, <2>2, <2>3 DEF Inv, AcceptedIsLinked
<1> QED BY <1>2, <1>3, <1>6 DEF PeopleInv

\* A new invitation is nobody's yet, and an expired one is not accepted.
LEMMA NewPeople ==
    ASSUME Inv, NEW r \in Requests, Approve(r) \/ SendInvite(r) PROVE PeopleInv'
<1>1. /\ UNCHANGED people /\ ~Made(r)
      /\ \A s \in Requests : s # r => invite'[s] = invite[s]
  <2>1. CASE Approve(r)
    BY <2>1, ApproveEffect
  <2>2. CASE SendInvite(r)
    BY <2>2, SendEffect
  <2> QED BY <2>1, <2>2
<1>2. invite'[r].state = "open"
  BY DEF Approve, SendInvite, Invites, Inv, TypeOK
<1> QED BY <1>1, <1>2, SamePeople DEF Made

LEMMA ExpirePeople ==
    ASSUME Inv, NEW r \in Requests, Expire(r) PROVE PeopleInv'
<1>1. /\ UNCHANGED people
      /\ \A s \in Requests : s # r => invite'[s] = invite[s]
      /\ invite'[r].state = "expired" /\ invite'[r].client = invite[r].client
      /\ invite'[r].mail = invite[r].mail /\ invite'[r].tenant = invite[r].tenant
  BY DEF Expire, Inv, TypeOK
<1> QED BY <1>1, SamePeople DEF Made

\* A visitor who opens the link sees whether there is an account and room; one
\* who leaves changes nothing.
LEMMA OpenPeople ==
    ASSUME Inv, NEW v \in Visitors, NEW i, (i \in Requests /\ Open(v, i)) \/ Leave(v)
    PROVE  PeopleInv'
<1> USE DEF Inv
<1>1. /\ invite' = invite /\ linked' = linked /\ account' = account /\ overrun' = overrun
      /\ \A w \in Visitors \ {v} : visit'[w] = visit[w]
  BY DEF Open, Leave, TypeOK
<1>2. visit'[v].inv # None =>
         /\ i \in Requests /\ visit'[v].inv = i /\ Made(i)
         /\ visit'[v].known # None => account[invite[i].mail] = invite[i].tenant
         /\ \A t \in Tenants : visit'[v].known = None /\ invite[i].tenant = t => HasRoom(t)
  <2>1. CASE Leave(v)
    BY <2>1 DEF Leave, TypeOK, Away
  <2>2. CASE i \in Requests /\ Open(v, i)
    <3>1. visit'[v].inv = i /\ visit'[v].known = account[invite[i].mail]
      BY <2>2 DEF Open, TypeOK
    <3>2. invite[i].state = "open" /\ (\/ account[invite[i].mail] = invite[i].tenant
                                       \/ /\ account[invite[i].mail] = None
                                          /\ \A t \in Tenants : invite[i].tenant = t => HasRoom(t))
      BY <2>2 DEF Open
    <3>3. invite[i].tenant # None
      BY <2>2 DEF TypeOK, Invitations, Tenants
    <3> QED BY <2>2, <3>1, <3>2, <3>3 DEF Made
  <2> QED BY <2>1, <2>2
<1>3. \A t : HasRoom(t)' <=> HasRoom(t)
  BY <1>1 DEF HasRoom, Seats
<1>4. VisitInv'
  <2>1. ASSUME NEW w \in Visitors, visit'[w].inv # None
        PROVE  visit'[w].inv \in Requests /\ Made(visit'[w].inv)
    BY <1>1, <1>2, <2>1 DEF VisitInv
  <2>2. ASSUME NEW w \in Visitors, NEW j \in Requests, NEW t \in Tenants,
               visit'[w].inv = j, invite[j].tenant = t
        PROVE  /\ visit'[w].known # None => account[invite[j].mail] = t
               /\ visit'[w].known = None /\ ~visit'[w].raced => HasRoom(t)
    <3>1. CASE w = v
      BY <1>2, <2>2, <3>1
    <3>2. CASE w # v
      BY <1>1, <2>2, <3>2 DEF VisitInv
    <3> QED BY <3>1, <3>2
  <2> QED BY <1>1, <1>3, <2>1, <2>2 DEF VisitInv, Made
<1>5. SeatsOverrun' /\ AcceptedIsLinked'
  BY <1>1 DEF SeatsOverrun, AcceptedIsLinked, AccessesOf, Accesses
<1> QED BY <1>4, <1>5 DEF PeopleInv

\* The visitor v accepts the invitation i.
LEMMA AcceptPeople ==
    ASSUME Inv, NEW v \in Visitors, Join(v) \/ Enroll(v)
    PROVE  AcceptedIsLinked'
<1> USE DEF Inv
<1>1. PICK i \in Requests : i = visit[v].inv /\ Made(i)
  BY DEF Join, Enroll, VisitInv
<1>2. invite' = [invite EXCEPT ![i].state = "accepted"]
  BY <1>1 DEF Join, Enroll
<1>3. \A s \in Requests : /\ invite'[s].client = invite[s].client
                          /\ invite'[s].mail = invite[s].mail
                          /\ invite'[s].tenant = invite[s].tenant
                          /\ s # i => invite'[s].state = invite[s].state
  BY <1>2 DEF TypeOK
<1>4. Linked(i)
  BY <1>1 DEF Join, Enroll
<1>5. linked \subseteq linked'
        /\ (invite[i].client # None => AccessesOf(i) \cap linked' # {})
  BY <1>4 DEF Linked, Newest
<1>6. \A s \in Requests : AccessesOf(s)' = AccessesOf(s)
  BY <1>3 DEF AccessesOf, Accesses
<1>7. /\ \A e \in Emails : account[e] # None => account'[e] = account[e]
      /\ account'[invite[i].mail] = invite[i].tenant
  <2>0. invite[i].mail \in Emails
    BY <1>1 DEF InviteInv
  <2>1. CASE Join(v)
    <3>1. account' = account /\ visit[v].known # None
      BY <2>1 DEF Join
    <3> QED BY <1>1, <3>1 DEF VisitInv, TypeOK, Invitations
  <2>2. CASE Enroll(v)
    <3>1. account' = [account EXCEPT ![invite[i].mail] = invite[i].tenant]
          /\ account[invite[i].mail] = None
      BY <1>1, <2>2 DEF Enroll
    <3> QED BY <2>0, <3>1 DEF TypeOK
  <2> QED BY <2>1, <2>2
<1>8. ASSUME NEW s \in Requests, invite'[s].state = "accepted"
      PROVE  /\ account'[invite[s].mail] = invite[s].tenant
             /\ invite[s].client # None => AccessesOf(s) \cap linked' # {}
  <2>1. CASE s = i
    BY <1>5, <1>7, <2>1
  <2>2. CASE s # i
    <3>1. invite[s].state = "accepted" /\ Made(s)
      BY <1>3, <1>8, <2>2 DEF Made
    <3>2. invite[s].mail \in Emails /\ invite[s].tenant # None
      BY <3>1 DEF InviteInv, TypeOK, Invitations, Tenants
    <3>3. account[invite[s].mail] = invite[s].tenant
      BY <3>1 DEF AcceptedIsLinked
    <3>4. invite[s].client # None => AccessesOf(s) \cap linked # {}
      BY <3>1 DEF AcceptedIsLinked
    <3> QED BY <1>5, <1>7, <3>2, <3>3, <3>4
  <2> QED BY <2>1, <2>2
<1> QED BY <1>3, <1>6, <1>8 DEF AcceptedIsLinked

\* Joining makes no account; enrolling makes one, and overtakes the visitors
\* shown the same room.
LEMMA JoinPeople == ASSUME Inv, NEW v \in Visitors, Join(v) PROVE PeopleInv'
<1> USE DEF Inv
<1>1. PICK i \in Requests : i = visit[v].inv /\ Made(i)
  BY DEF Join, VisitInv
<1>2. \A s \in Requests : /\ invite'[s].mail = invite[s].mail
                          /\ invite'[s].tenant = invite[s].tenant
                          /\ Made(s) => Made(s)'
  BY <1>1 DEF Join, TypeOK, Made
<1>3. /\ account' = account /\ overrun' = overrun /\ visit'[v].inv = None
      /\ \A w \in Visitors \ {v} : visit'[w] = visit[w]
  BY DEF Join, TypeOK, Away
<1>4. VisitInv'
  <2>1. \A t : HasRoom(t)' <=> HasRoom(t)
    BY <1>3 DEF HasRoom, Seats
  <2>2. ASSUME NEW w \in Visitors, NEW j \in Requests, NEW t \in Tenants,
               visit'[w].inv = j, invite'[j].tenant = t
        PROVE  /\ visit'[w].known # None => account[invite'[j].mail] = t
               /\ visit'[w].known = None /\ ~visit'[w].raced => HasRoom(t)
    BY <1>2, <1>3, <2>2 DEF VisitInv
  <2>3. ASSUME NEW w \in Visitors, visit'[w].inv # None
        PROVE  \E j \in Requests : visit'[w].inv = j /\ Made(j)'
    <3>1. visit[w].inv \in Requests /\ Made(visit[w].inv) /\ visit'[w].inv = visit[w].inv
      BY <1>3, <2>3 DEF VisitInv
    <3>2. PICK j \in Requests : visit'[w].inv = j /\ Made(j)
      BY <3>1
    <3> QED BY <1>2, <3>2
  <2> QED BY <1>3, <2>1, <2>2, <2>3 DEF VisitInv, Made
<1>5. SeatsOverrun'
  BY <1>3 DEF SeatsOverrun
<1> QED BY <1>4, <1>5, AcceptPeople DEF PeopleInv

LEMMA EnrollPeople == ASSUME Inv, NEW v \in Visitors, Enroll(v) PROVE PeopleInv'
<1> USE DEF Inv
<1>1. PICK i \in Requests : i = visit[v].inv /\ Made(i)
  BY DEF Enroll, VisitInv
<1>2. PICK e \in Emails : e = invite[i].mail
  BY <1>1 DEF InviteInv
<1>3. PICK t \in Tenants : t = invite[i].tenant
  BY DEF TypeOK, Invitations
<1>4. /\ account' = [account EXCEPT ![e] = t] /\ account[e] = None /\ visit[v].known = None
      /\ overrun' = IF visit[v].raced THEN overrun \cup {e} ELSE overrun
  BY <1>1, <1>2, <1>3 DEF Enroll
<1>5. \A s \in Requests : /\ invite'[s].mail = invite[s].mail
                          /\ invite'[s].tenant = invite[s].tenant
                          /\ Made(s) => Made(s)'
  BY <1>1 DEF Enroll, TypeOK, Made
<1>6. visit'[v].inv = None
  BY DEF Enroll, Away
<1>7. ASSUME NEW w \in Visitors \ {v}
      PROVE  /\ visit'[w].inv = visit[w].inv /\ visit'[w].known = visit[w].known
             /\ visit[w].raced => visit'[w].raced
             /\ visit[w].inv # None /\ invite[visit[w].inv].tenant = t => visit'[w].raced
  <2> DEFINE met == visit[w].raced \/ (visit[w].inv # None /\ invite[visit[w].inv].tenant = t)
  <2>1. visit'[w] = [visit[w] EXCEPT !.raced = met]
    BY <1>1, <1>3 DEF Enroll
  <2>2. visit'[w].raced = met /\ visit'[w].inv = visit[w].inv
        /\ visit'[w].known = visit[w].known
    <3> HIDE DEF met
    <3> QED BY <2>1 DEF TypeOK, Visits
  <2> QED BY <2>2
<1>8. ASSUME NEW u \in Tenants, u # t PROVE HasRoom(u)' <=> HasRoom(u)
  <2>1. {f \in Emails : account'[f] = u} = {f \in Emails : account[f] = u}
    BY <1>4, <1>8 DEF TypeOK, Tenants
  <2> QED BY <2>1 DEF HasRoom, Seats
<1>9. VisitInv'
  <2>1. ASSUME NEW w \in Visitors, visit'[w].inv # None
        PROVE  /\ \E j \in Requests : visit'[w].inv = j /\ Made(j)'
               /\ w # v /\ visit'[w].inv = visit[w].inv /\ Made(visit[w].inv)
    <3>1. w # v /\ visit'[w].inv = visit[w].inv
      BY <1>6, <1>7, <2>1
    <3>2. visit[w].inv \in Requests /\ Made(visit[w].inv)
      BY <2>1, <3>1 DEF VisitInv
    <3>3. PICK j \in Requests : visit'[w].inv = j /\ Made(j)
      BY <3>1, <3>2
    <3> QED BY <1>5, <3>1, <3>2, <3>3
  <2>2. ASSUME NEW w \in Visitors, NEW j \in Requests, NEW u \in Tenants,
               visit'[w].inv = j, invite'[j].tenant = u
        PROVE  /\ visit'[w].known # None => account'[invite'[j].mail] = u
               /\ visit'[w].known = None /\ ~visit'[w].raced => HasRoom(u)'
    <3>1. w # v /\ visit[w].inv = j /\ Made(j)
      BY <2>1, <2>2
    <3>2. invite[j].tenant = u /\ invite'[j].mail = invite[j].mail /\ invite[j].mail \in Emails
      BY <1>5, <2>2, <3>1 DEF InviteInv
    <3>3. visit'[w].known # None => account'[invite[j].mail] = u
      <4>1. visit'[w].known # None => account[invite[j].mail] = u
        BY <1>7, <3>1, <3>2 DEF VisitInv
      <4> QED BY <1>4, <3>2, <4>1 DEF TypeOK, Tenants
    <3>4. visit'[w].known = None /\ ~visit'[w].raced => u # t /\ HasRoom(u)
      BY <1>7, <3>1, <3>2 DEF VisitInv
    <3> QED BY <1>8, <3>2, <3>3, <3>4
  <2>3. ASSUME NEW w \in Visitors
        PROVE  visit'[w].inv # None =>
                  visit'[w].inv \in Requests /\ invite'[visit'[w].inv].state # "none"
    BY <2>1 DEF Made
  <2> QED BY <2>2, <2>3 DEF VisitInv, Made
<1>10. SeatsOverrun'
  <2> SUFFICES ASSUME NEW u \in Tenants
               PROVE  Cardinality({f \in Emails : account'[f] = u /\ f \notin overrun'})
                        <= MaxUsers
    BY DEF SeatsOverrun
  <2> DEFINE T == {f \in Emails : account[f] = u /\ f \notin overrun}
             N == {f \in Emails : account'[f] = u /\ f \notin overrun'}
             S == {f \in Emails : account[f] = t}
  <2>1. IsFiniteSet(T) /\ IsFiniteSet(N) /\ IsFiniteSet(S)
    BY FS_Subset
  <2>2. Cardinality(T) \in Nat /\ Cardinality(N) \in Nat /\ Cardinality(S) \in Nat
    BY <2>1, FS_CardinalityType
  <2>3. CASE u # t \/ visit[v].raced
    <3>1. N \subseteq T
      BY <1>4, <2>3 DEF TypeOK
    <3>2. Cardinality(N) <= Cardinality(T)
      BY <2>1, <3>1, FS_Subset
    <3>3. Cardinality(T) <= MaxUsers
      BY DEF SeatsOverrun
    <3> QED BY <2>2, <3>2, <3>3
  <2>4. CASE u = t /\ ~visit[v].raced
    <3>1. HasRoom(t)
      BY <1>1, <1>3, <1>4, <2>4 DEF VisitInv
    <3>2. Cardinality(S) < MaxUsers
      BY <3>1 DEF HasRoom, Seats
    <3>3. N \subseteq S \cup {e}
      BY <1>4, <2>4 DEF TypeOK
    <3>4. e \notin S
      BY <1>4 DEF Tenants
    <3>5. IsFiniteSet(S \cup {e}) /\ Cardinality(S \cup {e}) = Cardinality(S) + 1
      BY <2>1, <3>4, FS_AddElement
    <3>6. Cardinality(N) <= Cardinality(S \cup {e})
      BY <3>3, <3>5, FS_Subset
    <3> QED BY <2>2, <3>2, <3>5, <3>6
  <2> QED BY <2>3, <2>4
<1> QED BY <1>9, <1>10, AcceptPeople DEF PeopleInv

----------------------------------------------------------------------------
\* Every step keeps the invariant, each group of properties by its own lemmas.
LEMMA InvStep == Inv /\ [Next]_vars => Inv'
<1> SUFFICES ASSUME Inv, [Next]_vars PROVE Inv'
  OBVIOUS
<1>0. TypeOK'
  BY TypeStep
<1> DEFINE Rest == RegInv /\ EnvInv /\ InviteInv /\ OneAccess /\ PeopleInv
<1>1. SUFFICES Rest'
  BY <1>0 DEF Inv, RegInv, EnvInv, PeopleInv
<1>2. ASSUME NEW g \in Regs, Check(g) \/ Store(g) PROVE Rest'
  <2>1. PeopleInv'
    <3>1. UNCHANGED people /\ invite' = invite
      BY <1>2 DEF Check, Store, people
    <3> QED BY <3>1, SamePeople DEF Made
  <2> QED BY <1>0, <1>2, <2>1, FormReg, FormEnv, FormInvite
<1>3. ASSUME NEW r \in Requests, AloneStep(r) PROVE Rest'
  <2>1. PeopleInv'
    <3>1. UNCHANGED people /\ invite' = invite
      BY <1>3, AloneSteps DEF Alone, Inv
    <3> QED BY <3>1, SamePeople DEF Made
  <2>2. RegInv'
    BY <1>3, AnyAloneReg
  <2>3. EnvInv'
    BY <1>0, <1>3, AloneEnv
  <2>4. InviteInv' /\ OneAccess'
    BY <1>3, AloneInvite
  <2> QED BY <2>1, <2>2, <2>3, <2>4
<1>4. ASSUME NEW r \in Requests, Decide(r) PROVE Rest'
  <2>1. Effect(r) /\ Closed(r) /\ UNCHANGED <<invite, people>>
    BY <1>4, DecideEffect
  <2>2. RegInv'
    <3>1. status'[req[r].reg] = IF Target(r) = req[r].seen THEN status[req[r].reg] ELSE Target(r)
      BY <1>4, DecideEffect
    <3>2. req[r].op # "resend" /\ (req[r].op = "approve" => req[r].type = "other")
      BY <1>4 DEF Decide
    <3>3. Target(r) # "none"
      BY DEF Target
    <3> QED BY <2>1, <3>1, <3>2, <3>3, DecisionReg
  <2>3. PeopleInv'
    BY <2>1, SamePeople DEF Made
  <2> QED BY <1>4, <2>2, <2>3, DecideEnv, DecideInvite
<1>5. ASSUME NEW r \in Requests, Approve(r) PROVE Rest'
  <2>1. Effect(r) /\ Closed(r) /\ req[r].op = "approve" /\ req[r].type # "other"
    BY <1>5, ApproveEffect
  <2>2. status'[req[r].reg] = "approved"
    BY <1>5, ApproveEffect
  <2>3. RegInv'
    BY <2>1, <2>2, DecisionReg
  <2> QED BY <1>5, <2>3, ApproveEnv, ApproveInvite, NewPeople
<1>6. ASSUME NEW r \in Requests, SendInvite(r) PROVE Rest'
  BY <1>0, <1>6, SendReg, SendEnv, SendInvites, NewPeople
<1>7. CASE ElsewhereStep
  <2>1. PeopleInv'
    <3>1. CASE UNCHANGED vars
      <4>1. UNCHANGED people /\ invite' = invite
        BY <3>1 DEF vars, people
      <4> QED BY <4>1, SamePeople DEF Made
    <3> QED BY <1>7, <3>1, ExpirePeople, OpenPeople, JoinPeople, EnrollPeople DEF ElsewhereStep
  <2> QED BY <1>0, <1>7, <2>1, ElsewhereSteps, ElsewhereReg, ElsewhereEnv, ElsewhereInvite
<1> HIDE DEF Rest
<1> QED BY <1>2, <1>3, <1>4, <1>5, <1>6, <1>7 DEF Next, AloneStep, ElsewhereStep

----------------------------------------------------------------------------
(***************************************************************************)
(* The theorems.                                                           *)
(***************************************************************************)
\* Registrations, requests, invitations and accounts keep their types.
THEOREM Typing == Spec => []TypeOK
<1>1. Inv => TypeOK
  BY DEF Inv
<1> QED BY <1>1, InitInv, InvStep, PTL DEF Spec

\* However many of the staff decide on a registration at once, it gets a second
\* environment only if a decision on it was in progress when one was made.
THEOREM OneEnvironmentAlways == Spec => []OneEnvironment
<1>1. Inv => OneEnvironment
  BY DEF Inv
<1> QED BY <1>1, InitInv, InvStep, PTL DEF Spec

\* A registration with an environment is approved or was archived as spam, unless
\* a decision was in progress when the environment was made.
THEOREM EnvironmentIsApprovedAlways == Spec => []EnvironmentIsApproved
<1>1. Inv => EnvironmentIsApproved
  BY DEF Inv
<1> QED BY <1>1, InitInv, InvStep, PTL DEF Spec

\* An address has one open registration, unless two forms were checked before
\* either was stored or the staff reopened one.
THEOREM OneOpenRegistrationAlways == Spec => []OneOpenRegistration
<1>1. Inv => OneOpenRegistration
  BY DEF Inv
<1> QED BY <1>1, InitInv, InvStep, PTL DEF Spec

\* An address has one access to a client, unless two invitations overlapped.
THEOREM OneAccessAlways == Spec => []OneAccess
<1>1. Inv => OneAccess
  BY DEF Inv
<1> QED BY <1>1, InitInv, InvStep, PTL DEF Spec

\* A tenant exceeds its plan by no more accounts than were made by visitors whom
\* another one overtook.
THEOREM SeatsOverrunAlways == Spec => []SeatsOverrun
<1>1. Inv => SeatsOverrun
  BY DEF Inv
<1> QED BY <1>1, InitInv, InvStep, PTL DEF Spec

\* An accepted invitation has an account, tied to the client it was for.
THEOREM AcceptedIsLinkedAlways == Spec => []AcceptedIsLinked
<1>1. Inv => AcceptedIsLinked
  BY DEF Inv
<1> QED BY <1>1, InitInv, InvStep, PTL DEF Spec
=============================================================================
