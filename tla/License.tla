------------------------------ MODULE License ------------------------------
(***************************************************************************)
(* The license server and the check-in of an installation                  *)
(* (license-server/app.py, cms/services/telemetry.py and license.py).      *)
(* Every Gunicorn worker runs a telemetry thread, and all of them share    *)
(* the settings: the license as it was signed, its signature and its       *)
(* status, each committed on its own.  Requests and answers may be lost, a *)
(* worker may die between two commits and a commit may fail.               *)
(*                                                                         *)
(* A license is named by its number; it is whole when the stored payload   *)
(* and signature are of the same license.                                  *)
(***************************************************************************)
EXTENDS Naturals

CONSTANTS Workers, MaxLicenses, MaxFaults, None

ASSUME LicenseAssumption == MaxLicenses \in Nat \ {0} /\ MaxFaults \in Nat /\ None \notin Nat

VARIABLES
    installed,   \* server: the row of the installation
    license,     \* server: the license row, or NoLicense
    issued,      \* licenses signed so far
    trials,      \* history: trials issued at registration
    forgotten,   \* history: how often an administrator deleted the install or its license
    lapsed,      \* the date of the license has passed
    registered,  \* setting telemetry_registered_id
    due,         \* telemetry_last_check is a day old, or not set
    payload, signature, status,   \* settings license_*
    worker,      \* [Workers -> the check-in of its thread]
    heard,       \* history: licenses that were stored as revoked
    mixed,       \* history: a check-in stored while another held its answer,
                 \* or stored a status and nothing else
    faults       \* failures so far

server == <<installed, license, issued, trials, forgotten, lapsed>>
stored == <<payload, signature, status>>
settings == <<registered, due, stored>>
vars == <<server, settings, worker, heard, mixed, faults>>

Numbers == 1..MaxLicenses

NoLicense == [number |-> None, status |-> "unset"]

Licenses == [number : Numbers, status : {"active", "revoked"}]

\* An answer without a license leaves the stored one.  kept: is the payload or
\* the signature of the answer stored.
Sleeping == [stage |-> "sleeping", answer |-> NoLicense, kept |-> FALSE]

Stages == {"sleeping", "register", "telemetry", "unknown", "acknowledged", "answered",
           "payload", "signature", "status"}

TypeOK ==
    /\ installed \in BOOLEAN
    /\ license \in Licenses \cup {NoLicense}
    /\ issued \in 0..MaxLicenses /\ trials \in 0..MaxLicenses /\ forgotten \in Nat
    /\ lapsed \in BOOLEAN
    /\ registered \in BOOLEAN /\ due \in BOOLEAN
    /\ payload \in Numbers \cup {None} /\ signature \in Numbers \cup {None}
    /\ status \in {"unset", "active", "revoked"}
    /\ worker \in [Workers -> [stage : Stages, answer : Licenses \cup {NoLicense},
                               kept : BOOLEAN]]
    /\ heard \in SUBSET Numbers /\ mixed \in BOOLEAN
    /\ faults \in 0..MaxFaults

Init ==
    /\ installed = FALSE /\ license = NoLicense
    /\ issued = 0 /\ trials = 0 /\ forgotten = 0 /\ lapsed = FALSE
    /\ registered = FALSE /\ due = TRUE
    /\ payload = None /\ signature = None /\ status = "unset"
    /\ worker = [w \in Workers |-> Sleeping]
    /\ heard = {} /\ mixed = FALSE /\ faults = 0

(***************************************************************************)
(* The server's administrator, and its privacy maintenance: an install     *)
(* that was silent for long loses its row unless its license is good.      *)
(* The bound on licenses also bounds the deletions.                        *)
(***************************************************************************)
Issue ==
    /\ installed /\ issued < MaxLicenses
    /\ issued' = issued + 1
    /\ license' = [number |-> issued + 1, status |-> "active"]
    /\ lapsed' = FALSE
    /\ UNCHANGED <<installed, trials, forgotten, settings, worker, heard, mixed, faults>>

Revoke ==
    /\ license.status = "active"
    /\ license' = [license EXCEPT !.status = "revoked"]
    /\ UNCHANGED <<installed, issued, trials, forgotten, lapsed, settings, worker, heard, mixed, faults>>

\* The license row of an install that is gone can be deleted too.
Delete ==
    /\ installed \/ license # NoLicense
    /\ issued < MaxLicenses
    /\ installed' = FALSE /\ license' = NoLicense
    /\ forgotten' = forgotten + 1
    /\ lapsed' = FALSE
    /\ UNCHANGED <<issued, trials, settings, worker, heard, mixed, faults>>

Good == license.status = "active" /\ ~lapsed

\* Wrong variant: the licenses go with the install.
RetireAll ==
    /\ installed /\ ~Good
    /\ \A w \in Workers : worker[w] = Sleeping
    /\ installed' = FALSE /\ license' = NoLicense /\ lapsed' = FALSE
    /\ UNCHANGED <<issued, trials, forgotten, settings, worker, heard, mixed, faults>>

Retire ==
    /\ installed /\ ~Good
    /\ \A w \in Workers : worker[w] = Sleeping
    /\ installed' = FALSE
    /\ UNCHANGED <<license, issued, trials, forgotten, lapsed, settings, worker, heard, mixed, faults>>

Lapse ==
    /\ license # NoLicense /\ ~lapsed
    /\ lapsed' = TRUE
    /\ UNCHANGED <<installed, license, issued, trials, forgotten, settings, worker, heard, mixed, faults>>

(***************************************************************************)
(* The check-in: the request, what the server does with it, the answer.    *)
(***************************************************************************)
Become(w, stage) == worker' = [worker EXCEPT ![w].stage = stage]

Sleep(w) == worker' = [worker EXCEPT ![w] = Sleeping]

CheckIn(w) ==
    /\ worker[w] = Sleeping
    /\ \/ ~registered /\ Become(w, "register")
       \/ registered /\ due /\ Become(w, "telemetry")
    /\ UNCHANGED <<server, settings, heard, mixed, faults>>

\* The command that reports at once.
ReportNow(w) ==
    /\ worker[w] = Sleeping /\ registered /\ ~due
    /\ Become(w, "telemetry")
    /\ UNCHANGED <<server, settings, heard, mixed, faults>>

\* The row of a new install gets a trial unless there is a license row; a
\* row that was there is only brought up to date, and no license is sent.
Register(w) ==
    /\ worker[w].stage = "register"
    /\ installed' = TRUE
    /\ IF ~installed /\ license = NoLicense
          THEN /\ license' = [number |-> issued + 1, status |-> "active"]
               /\ issued' = issued + 1 /\ trials' = trials + 1
          ELSE UNCHANGED <<license, issued, trials>>
    /\ worker' = [worker EXCEPT ![w].stage = "acknowledged",
                     ![w].answer = IF installed THEN NoLicense ELSE license']
    /\ UNCHANGED <<forgotten, lapsed, settings, heard, mixed, faults>>

Telemetry(w) ==
    /\ worker[w].stage = "telemetry"
    /\ worker' = [worker EXCEPT ![w].stage = IF installed THEN "answered" ELSE "unknown",
                                ![w].answer = IF installed THEN license ELSE NoLicense]
    /\ UNCHANGED <<server, settings, heard, mixed, faults>>

\* The request or the answer is lost, or the worker dies and is replaced.
Lose(w) ==
    /\ worker[w] # Sleeping /\ faults < MaxFaults
    /\ Sleep(w)
    /\ faults' = faults + 1
    /\ UNCHANGED <<server, settings, heard, mixed>>

ClearRegistered(w) ==
    /\ worker[w].stage = "unknown"
    /\ registered' = FALSE
    /\ Sleep(w)
    /\ UNCHANGED <<server, due, stored, heard, mixed, faults>>

MarkRegistered(w) ==
    /\ worker[w].stage = "acknowledged"
    /\ registered' = TRUE
    /\ Become(w, "answered")
    /\ UNCHANGED <<server, due, stored, heard, mixed, faults>>

\* Wrong variant: a license that is stored already is not stored again.
SkipKnown(w) ==
    /\ worker[w].stage = "answered"
    /\ due' = FALSE
    /\ IF worker[w].answer = NoLicense \/ worker[w].answer.number = payload
          THEN Sleep(w) ELSE Become(w, "payload")
    /\ UNCHANGED <<server, registered, stored, heard, mixed, faults>>

\* The day is over for all workers before the license is stored.
SetLastCheck(w) ==
    /\ worker[w].stage = "answered"
    /\ due' = FALSE
    /\ IF worker[w].answer = NoLicense THEN Sleep(w) ELSE Become(w, "payload")
    /\ UNCHANGED <<server, registered, stored, heard, mixed, faults>>

Holds(w) == worker[w].answer # NoLicense

Mixes(w) ==
    mixed' = \/ mixed
             \/ \E v \in Workers \ {w} : Holds(v)
             \/ worker[w].stage = "status" /\ ~worker[w].kept

Keep(w, stage) == worker' = [worker EXCEPT ![w].stage = stage, ![w].kept = TRUE]

StorePayload(w) ==
    /\ worker[w].stage = "payload"
    /\ payload' = worker[w].answer.number
    /\ Keep(w, "signature") /\ Mixes(w)
    /\ UNCHANGED <<server, registered, due, signature, status, heard, faults>>

StoreSignature(w) ==
    /\ worker[w].stage = "signature"
    /\ signature' = worker[w].answer.number
    /\ Keep(w, "status") /\ Mixes(w)
    /\ UNCHANGED <<server, registered, due, payload, status, heard, faults>>

Hears(w) == heard' = IF worker[w].answer.status = "revoked"
                       THEN heard \cup {worker[w].answer.number} ELSE heard

\* Wrong variant: the status is stored only with a license that is new.
StoreStatusOnce(w) ==
    /\ worker[w].stage = "status"
    /\ status' = IF status = "unset" THEN worker[w].answer.status ELSE status
    /\ Sleep(w) /\ Mixes(w) /\ Hears(w)
    /\ UNCHANGED <<server, registered, due, payload, signature, faults>>

StoreStatus(w) ==
    /\ worker[w].stage = "status"
    /\ status' = worker[w].answer.status
    /\ Sleep(w) /\ Mixes(w) /\ Hears(w)
    /\ UNCHANGED <<server, registered, due, payload, signature, faults>>

\* A commit fails; that is logged and the next setting is stored.
FailStore(w) ==
    /\ faults < MaxFaults
    /\ \/ worker[w].stage = "acknowledged" /\ Become(w, "answered")
       \/ worker[w].stage = "answered" /\ Holds(w) /\ Become(w, "payload")
       \/ worker[w].stage = "payload" /\ Become(w, "signature")
       \/ worker[w].stage = "signature" /\ Become(w, "status")
       \/ worker[w].stage = "answered" /\ ~Holds(w) /\ Sleep(w)
       \/ worker[w].stage = "status" /\ Sleep(w)
    /\ faults' = faults + 1
    /\ UNCHANGED <<server, settings, heard, mixed>>

DayPasses ==
    /\ ~due
    /\ due' = TRUE
    /\ UNCHANGED <<server, registered, stored, worker, heard, mixed, faults>>

Work(w) ==
    \/ CheckIn(w) \/ Register(w) \/ Telemetry(w) \/ ClearRegistered(w) \/ MarkRegistered(w)
    \/ SetLastCheck(w) \/ StorePayload(w) \/ StoreSignature(w) \/ StoreStatus(w)

Next ==
    \/ Issue \/ Revoke \/ Delete \/ Retire \/ Lapse
    \/ \E w \in Workers : Work(w) \/ ReportNow(w) \/ Lose(w) \/ FailStore(w)
    \/ DayPasses

Spec == Init /\ [][Next]_vars

\* The threads run as long as the application, days pass, and from some day
\* on the network and the database answer.
FairSpec == Spec /\ WF_vars(DayPasses) /\ \A w \in Workers : WF_vars(Work(w))
-----------------------------------------------------------------------------
(***************************************************************************)
(* Properties.                                                             *)
(***************************************************************************)
\* get_license_state: what the feature gates ask, apart from the date.
Licensed == payload # None /\ signature = payload /\ status # "revoked"

\* A license that was once stored as revoked does not count again, whatever
\* is lost, replaced or deleted later, unless two check-ins overlapped or one
\* stored the status of another license alone, both other commits having
\* failed (telemetry.py 293-330, license.py 83-118).
HeardRevocation == payload \in heard /\ ~mixed => ~Licensed

\* An install gets one trial, and one more for each time an administrator
\* deleted it or the license left of it: neither a lost answer, nor its silence, nor the purge of its
\* row starts the trial again (license-server/app.py 205-222, 306-352).
OneTrial == trials <= forgotten + 1

\* The settings follow the server in the end: torn, mixed or missed answers
\* are made good by a later check-in (telemetry.py 293-351).
InStep == installed /\ license # NoLicense =>
             payload = license.number /\ signature = payload /\ status = license.status

FollowsServer == <>[]InStep
=============================================================================
