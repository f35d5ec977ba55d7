---------------------------- MODULE TenantRows ------------------------------
(***************************************************************************)
(* The rows of a tenant that web requests load, change and commit without  *)
(* a lock: the report of a case (CaseReport), its status (CaseLife), its   *)
(* place in the hierarchy (CaseTree), the customer's request it was made   *)
(* of (PortalIntake) and the tenant's own row (Subscription).  They are    *)
(* different columns, the modules share no variable, and every property is *)
(* about one of them: a behaviour is about one of them, the others rest.    *)
(***************************************************************************)
EXTENDS CaseReport

CONSTANTS Cases, Users, Admins, Intakes, Tenants, MaxSubs

ASSUME RowsAssumption == None \notin Intakes /\ None \notin Cases /\ None \notin 1..MaxSubs

VARIABLES part,  \* which rows the requests of this behaviour are about
          caseStatus, ended, reason, lifeReq, broken,
          parent, walk, late,
          intake, caseOf, caseFrom, docOf, docCase, portalReq, portalLate,
          alive, tenantRow, stripe, handled, job, odd

Life == INSTANCE CaseLife WITH status <- caseStatus, req <- lifeReq

Tree == INSTANCE CaseTree

Portal == INSTANCE PortalIntake WITH req <- portalReq, late <- portalLate

Billing == INSTANCE Subscription WITH row <- tenantRow

lifeVars == <<caseStatus, ended, reason, lifeReq, broken>>
treeVars == <<parent, walk, late>>
portalVars == <<intake, caseOf, caseFrom, docOf, docCase, portalReq, portalLate>>
billingVars == <<alive, tenantRow, stripe, handled, job, odd>>
allVars == <<part, vars, lifeVars, treeVars, portalVars, billingVars>>

RowsInit == /\ part \in {"report", "life", "tree", "portal", "billing"}
            /\ Init /\ Life!Init /\ Tree!Init /\ Portal!Init /\ Billing!Init

RowsNext ==
    /\ \/ /\ part = "report" /\ Next
          /\ UNCHANGED <<lifeVars, treeVars, portalVars, billingVars>>
       \/ /\ part = "life" /\ Life!Next
          /\ UNCHANGED <<vars, treeVars, portalVars, billingVars>>
       \/ /\ part = "tree" /\ Tree!Next
          /\ UNCHANGED <<vars, lifeVars, portalVars, billingVars>>
       \/ /\ part = "portal" /\ Portal!Next
          /\ UNCHANGED <<vars, lifeVars, treeVars, billingVars>>
       \/ /\ part = "billing" /\ Billing!Next
          /\ UNCHANGED <<vars, lifeVars, treeVars, portalVars>>
    /\ UNCHANGED part

RowsSpec == RowsInit /\ [][RowsNext]_allVars

EndFollowsStatus == Life!EndFollowsStatus

NoCircle == Tree!NoCircle

EndlessOnlyOnCircle == Tree!EndlessOnlyOnCircle

OneCase == Portal!OneCase

AttachmentsFollow == Portal!AttachmentsFollow

ClosedReopensOnlyStale == Portal!ClosedReopensOnlyStale

PaidHasSubscription == Billing!PaidHasSubscription

KeptByFailure == Billing!KeptByFailure

PayingIsKept == Billing!PayingIsKept
=============================================================================
