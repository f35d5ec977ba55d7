---------------------------- MODULE Subscription ----------------------------
(***************************************************************************)
(* What Stripe's events do to a tenant, and the purge of tenants that left *)
(* (cms/routes/stripe_billing.py, cms/data_retention.py).  An event may    *)
(* arrive late, twice or after a younger one, and while the purge runs.    *)
(* Handlers load the tenant and commit it: that two of them overlap on one *)
(* tenant is left out, each is one step.                                   *)
(*                                                                         *)
(* A checkout makes a new customer, so a customer is named by its          *)
(* subscription.  All paid plans are one.  Failed payments before the last *)
(* attempt, paid invoices and trial warnings write only counts and dates   *)
(* that are shown, and so does the column subscription_status.             *)
(***************************************************************************)
EXTENDS Naturals, Sequences, FiniteSets

CONSTANTS Tenants, MaxSubs, None

VARIABLES
    alive,    \* tenants that have not been purged
    row,      \* [Tenants -> the columns of the tenant]
    stripe,   \* [Subs -> the subscription at Stripe]
    handled,  \* history: events that were answered with success
    job,      \* the purge
    odd       \* history: [Tenants -> SUBSET Oddities]

vars == <<alive, row, stripe, handled, job, odd>>

\* Subscriptions are numbered as they are made.
Subs == 1..MaxSubs

Kinds == {"checkout", "active", "past_due", "failed", "deleted"}

Oddities ==
    {"rejoined",  \* a checkout while the tenant's deletion was scheduled
     "revived",   \* a checkout handled after its subscription's end
     "swapped",   \* a checkout handled over another, live subscription
     "overtaken", \* an event handled since the last purge picked the tenant
     "admin"}     \* a plan set by hand

Columns == [customer : Subs \cup {None}, sub : Subs \cup {None},
            tier : {"free", "paid"}, deletion : {"none", "set", "due"}]

NewTenant == [customer |-> None, sub |-> None, tier |-> "free", deletion |-> "none"]

Event(k, s) == [kind |-> k, sub |-> s]

NoJob == [stage |-> "idle", todo |-> {}, done |-> {}, walk |-> <<>>,
          picked |-> {}, failed |-> {}]

TypeOK ==
    /\ alive \in SUBSET Tenants
    /\ row \in [Tenants -> Columns]
    /\ stripe \in [Subs -> [state : {"none", "live", "canceled"}, tenant : Tenants \cup {None}]]
    /\ handled \in SUBSET [kind : Kinds, sub : Subs]
    /\ job \in [stage : {"idle", "running", "committed", "killed"}, todo : SUBSET Tenants,
                done : SUBSET Tenants, walk : Seq(Tenants),
                picked : SUBSET Tenants, failed : SUBSET Tenants]
    /\ odd \in [Tenants -> SUBSET Oddities]

Init ==
    /\ alive = Tenants
    /\ row = [t \in Tenants |-> NewTenant]
    /\ stripe = [s \in Subs |-> [state |-> "none", tenant |-> None]]
    /\ handled = {}
    /\ job = NoJob
    /\ odd = [t \in Tenants |-> {}]

Live(s) == stripe[s].state = "live"
LiveSubs(t) == {s \in Subs : Live(s) /\ stripe[s].tenant = t}

(***************************************************************************)
(* Stripe.  Nothing keeps a tenant from subscribing a second time.  Stripe *)
(* may have sent any billing event while the subscription was live, and    *)
(* any event it has sent may arrive (again) at any later time.             *)
(***************************************************************************)
Checkout(t, s) ==
    /\ t \in alive
    /\ stripe[s].state = "none" /\ \A r \in 1..s-1 : stripe[r].state # "none"
    /\ stripe' = [stripe EXCEPT ![s] = [state |-> "live", tenant |-> t]]
    /\ UNCHANGED <<alive, row, handled, job, odd>>

CancelSubscription(s) ==
    /\ Live(s)
    /\ stripe' = [stripe EXCEPT ![s].state = "canceled"]
    /\ UNCHANGED <<alive, row, handled, job, odd>>

MayArrive(e) == IF e.kind = "deleted" THEN stripe[e.sub].state = "canceled"
                                      ELSE stripe[e.sub].state # "none"

(***************************************************************************)
(* A delivery.  No checkout of this program gives the subscription the     *)
(* metadata by which an update could find a tenant it does not know.       *)
(***************************************************************************)
Subscriber(s) == {t \in alive : row[t].sub = s}

Customer(s) == {t \in alive : row[t].customer = s}

\* Wrong variant: every event falls back on the customer.
FindByCustomer(e) ==
    CASE e.kind = "checkout" -> {stripe[e.sub].tenant} \cap alive
      [] OTHER -> IF Subscriber(e.sub) # {} THEN Subscriber(e.sub) ELSE Customer(e.sub)

\* Wrong variant: the end of a subscription finds the tenant by its metadata.
FindByMetadata(e) ==
    IF e.kind \in {"checkout", "deleted"} THEN {stripe[e.sub].tenant} \cap alive
                                         ELSE Subscriber(e.sub)

FindTenant(e) ==
    CASE e.kind = "checkout" -> {stripe[e.sub].tenant} \cap alive
      [] e.kind = "failed" -> IF Subscriber(e.sub) # {} THEN Subscriber(e.sub)
                                                       ELSE Customer(e.sub)
      [] OTHER -> Subscriber(e.sub)

\* Only answers to a checkout and to an end tell the properties anything.
Answered(e) == IF e.kind \in {"checkout", "deleted"} THEN handled \cup {e} ELSE handled

\* No tenant is found: the event is logged and answered all the same.
DropEvent(e) ==
    /\ MayArrive(e) /\ FindTenant(e) = {}
    /\ handled' = Answered(e)
    /\ UNCHANGED <<alive, row, stripe, job, odd>>

\* The columns a handler leaves in the tenant it loaded.
Outcome(e, seen) ==
    CASE e.kind = "checkout" -> [seen EXCEPT !.customer = e.sub, !.sub = e.sub, !.tier = "paid"]
      [] e.kind = "active" -> [seen EXCEPT !.tier = "paid", !.deletion = "none"]
      [] e.kind = "past_due" -> [seen EXCEPT !.tier = "paid"]
      [] e.kind = "failed" -> [seen EXCEPT !.tier = "free"]
      [] e.kind = "deleted" -> [seen EXCEPT !.sub = None, !.tier = "free", !.deletion = "set"]

Noted(t, e) ==
    {o \in Oddities :
        \/ o = "overtaken" /\ t \in job.todo \cup job.done
        \/ /\ e.kind = "checkout"
           /\ \/ o = "rejoined" /\ row[t].deletion # "none"
              \/ o = "revived" /\ Event("deleted", e.sub) \in handled
              \/ o = "swapped" /\ row[t].sub \in LiveSubs(t) \ {e.sub}}

\* A tenant the purge has walked is only marked in its session: the row is
\* free until the commit sends the delete.  (A failure makes the purge reload
\* the tenants left, which may send the deletes marked so far earlier: that
\* an event then waits for the commit is left out.)  A handler that fails (a
\* database error) changes nothing and its event comes again.
HandleEvent(e) ==
    /\ MayArrive(e)
    /\ \E t \in FindTenant(e) :
          LET new == Outcome(e, row[t])
              noted == odd[t] \cup Noted(t, e)
          IN  /\ row' = [row EXCEPT ![t] = new]
              /\ odd' = [odd EXCEPT ![t] =
                            IF new.deletion = "none" THEN noted \ {"rejoined"} ELSE noted]
    /\ handled' = Answered(e)
    /\ UNCHANGED <<alive, stripe, job>>

\* A platform administrator sets another plan, at Stripe too if there is a
\* subscription.
ChangeTier(t) ==
    /\ t \in alive
    /\ row' = [row EXCEPT ![t].tier = IF @ = "paid" THEN "free" ELSE "paid"]
    /\ odd' = [odd EXCEPT ![t] = @ \cup {"admin"}]
    /\ UNCHANGED <<alive, stripe, handled, job>>

(***************************************************************************)
(* The purge, a command of its own process.  The dates are read once.  A   *)
(* tenant that fails rolls back the one transaction of the job and takes   *)
(* the marks off the tenants before it.                                    *)
(***************************************************************************)
DatePasses(t) ==
    /\ t \in alive /\ row[t].deletion = "set"
    /\ row' = [row EXCEPT ![t].deletion = "due"]
    /\ UNCHANGED <<alive, stripe, handled, job, odd>>

Expired == {t \in alive : row[t].deletion = "due"}

PurgeSelect ==
    /\ job.stage # "running" /\ Expired # {}
    /\ job' = [NoJob EXCEPT !.stage = "running", !.todo = Expired, !.picked = Expired]
    /\ odd' = [t \in Tenants |-> odd[t] \ {"overtaken"}]
    /\ UNCHANGED <<alive, row, stripe, handled>>

PurgeOne(t) ==
    /\ t \in job.todo
    /\ job' = [job EXCEPT !.todo = @ \ {t}, !.done = @ \cup {t}, !.walk = Append(@, t)]
    /\ UNCHANGED <<alive, row, stripe, handled, odd>>

\* Wrong variant: the first failure ends the loop.
PurgeStops(t) ==
    /\ t \in job.todo
    /\ job' = [job EXCEPT !.todo = {}, !.done = {}, !.walk = Append(@, t),
                          !.failed = @ \cup {t}]
    /\ UNCHANGED <<alive, row, stripe, handled, odd>>

PurgeFails(t) ==
    /\ t \in job.todo
    /\ job' = [job EXCEPT !.todo = @ \ {t}, !.done = {}, !.walk = Append(@, t),
                          !.failed = @ \cup {t}]
    /\ UNCHANGED <<alive, row, stripe, handled, odd>>

PurgeCommit ==
    /\ job.stage = "running" /\ job.todo = {}
    /\ alive' = alive \ job.done
    /\ job' = [job EXCEPT !.stage = "committed", !.done = {}]
    /\ UNCHANGED <<row, stripe, handled, odd>>

PurgeKilled ==
    /\ job.stage = "running"
    /\ job' = [job EXCEPT !.stage = "killed", !.todo = {}, !.done = {}]
    /\ UNCHANGED <<alive, row, stripe, handled, odd>>

Next ==
    \/ \E t \in Tenants, s \in Subs : Checkout(t, s)
    \/ \E s \in Subs : CancelSubscription(s)
    \/ \E k \in Kinds, s \in Subs : HandleEvent(Event(k, s)) \/ DropEvent(Event(k, s))
    \/ \E t \in Tenants : ChangeTier(t) \/ DatePasses(t) \/ PurgeOne(t) \/ PurgeFails(t)
    \/ PurgeSelect \/ PurgeCommit \/ PurgeKilled

Spec == Init /\ [][Next]_vars
-----------------------------------------------------------------------------
(***************************************************************************)
(* Properties.                                                             *)
(***************************************************************************)
Ends(s) == Event("deleted", s)

\* Whatever the order and the number of deliveries, a tenant that was left
\* alone by administrators has a paid plan only while one of its
\* subscriptions runs or the end of one has not been answered
\* (stripe_billing.py 295-398), except after a checkout that arrived after
\* the end of what was bought.
PaidHasSubscription ==
    \A t \in alive : row[t].tier = "paid" /\ odd[t] \cap {"admin", "revived"} = {} =>
        \E s \in Subs : stripe[s].tenant = t /\ (Live(s) \/ Ends(s) \notin handled)

\* The purge takes a tenant with a running subscription whose checkout was
\* answered only in three cases: the checkout came while the deletion was
\* scheduled, the checkout of another subscription was answered after it, or
\* an event was handled between this purge's reading of the dates and its
\* commit (stripe_billing.py 295-398, data_retention.py 60-90, 215).
PayingIsKept ==
    [][\A t \in alive \ alive' : odd[t] \ {"admin", "revived"} # {} \/
          \A s \in LiveSubs(t) : Event("checkout", s) \notin handled]_vars

\* A tenant outlives a purge that picked it only if the purge of that tenant
\* or of one after it failed (data_retention.py 74-88).
KeptByFailure ==
    job.stage = "committed" =>
        \A t \in job.picked \cap alive :
            \E i \in DOMAIN job.walk : job.walk[i] = t
                /\ \E j \in i..Len(job.walk) : job.walk[j] \in job.failed

\* What the comment at stripe_billing.py 376 expects: a tenant that comes
\* back after cancellation is not deleted.
ResubscribedIsKept ==
    [][\A t \in alive \ alive' : odd[t] \ {"rejoined"} = {} =>
          \A s \in LiveSubs(t) : Event("checkout", s) \notin handled]_vars
=============================================================================
