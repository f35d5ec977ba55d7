---------------------------- MODULE Installation ----------------------------
(***************************************************************************)
(* The license of an installation (License) and the identity it registers  *)
(* with (InstallIdentity).  Starts come before check-ins, and a check-in   *)
(* uses whatever identity there is: each is explored while the other is at *)
(* rest.                                                                   *)
(***************************************************************************)
EXTENDS License

CONSTANTS Starters, Site

ASSUME IdentityAssumption == None \notin Starters /\ None # Site

VARIABLES hasFile, env, setting, known, starter, raced

Identity == INSTANCE InstallIdentity WITH Workers <- Starters, worker <- starter

identityVars == <<hasFile, env, setting, known, starter, raced>>
allVars == <<vars, identityVars>>

NoIdentity == Identity!Init /\ ~hasFile /\ env = Identity!Nothing

Alone(A) == NoIdentity /\ A /\ UNCHANGED identityVars

AllInit == Init /\ Identity!Init

AllNext == \/ Alone(Next)
           \/ Init /\ Identity!Next /\ UNCHANGED vars

AllSpec == AllInit /\ [][AllNext]_allVars

FairAllSpec == AllSpec /\ WF_allVars(Alone(DayPasses))
                       /\ \A w \in Workers : WF_allVars(Alone(Work(w)))

OneIdentity == Identity!OneIdentity
=============================================================================
