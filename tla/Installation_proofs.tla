------------------------- MODULE Installation_proofs -------------------------
(***************************************************************************)
(* The properties of an installation, for any number of workers, licenses  *)
(* and failures: first its license, then its identity, then both.          *)
(***************************************************************************)
EXTENDS Installation, TLAPS

USE LicenseAssumption

----------------------------------------------------------------------------
(***************************************************************************)
(* The license.  Numbers only grow, and a license that was revoked stays   *)
(* so; what a check-in holds is at least as new as what is stored, unless  *)
(* two overlapped.                                                         *)
(***************************************************************************)
\* The server has a license once an install was made, the one issued last.
Issued ==
    /\ license # NoLicense => license.number = issued
    /\ license = NoLicense => issued < MaxLicenses
    /\ installed => license # NoLicense

Trials ==
    /\ trials <= issued
    /\ trials <= forgotten + (IF license = NoLicense THEN 0 ELSE 1)

\* Nothing is known of a license before it is issued, and of the present one
\* nobody knows that it is revoked before it is.
Known ==
    /\ payload # None => payload <= issued
    /\ signature # None => signature <= issued
    /\ \A n \in heard : n <= issued /\ (license.number = n => license.status = "revoked")
    /\ \A w \in Workers : Holds(w) =>
          /\ worker[w].answer.number <= issued
          /\ worker[w].answer.status = "revoked" /\ license.number = worker[w].answer.number
                => license.status = "revoked"

\* What a check-in holds is no older than what is stored or was heard.
Newer ==
    \A w \in Workers : Holds(w) =>
        LET n == worker[w].answer.number
        IN  /\ payload # None => payload <= n
            /\ signature # None => signature <= n
            /\ \A k \in heard : k <= n
            /\ n \in heard => worker[w].answer.status = "revoked"
            /\ worker[w].kept => payload = n \/ signature = n

\* Only a check-in with an answer stores one.
Storing == \A w \in Workers :
    /\ worker[w].stage \in {"payload", "signature", "status"} => Holds(w)
    /\ worker[w].kept => worker[w].stage \in {"signature", "status"}

\* A status that counts was stored with a license newer than those revoked.
Superseded == status # "revoked" => \A n \in heard : \/ payload # None /\ payload > n
                                                     \/ signature # None /\ signature > n

Inv == /\ TypeOK /\ Issued /\ Trials /\ Known /\ Storing
       /\ ~mixed => Newer /\ Superseded

----------------------------------------------------------------------------
CheckIns == [stage : Stages, answer : Licenses \cup {NoLicense}, kept : BOOLEAN]

\* Nothing is issued, stored or asked at first.
LEMMA InitInv == Init => Inv
<1> SUFFICES ASSUME Init PROVE Inv
  OBVIOUS
<1>1. Sleeping \in CheckIns
  BY DEF Sleeping, CheckIns, Stages
<1>2. worker \in [Workers -> CheckIns]
  BY <1>1 DEF Init
<1>3. TypeOK
  <2>1. worker \in [Workers -> [stage : Stages, answer : Licenses \cup {NoLicense}, kept : BOOLEAN]]
    BY <1>2 DEF CheckIns
  <2>2. 0 \in 0..MaxLicenses /\ 0 \in 0..MaxFaults
    OBVIOUS
  <2>3. installed \in BOOLEAN /\ lapsed \in BOOLEAN /\ registered \in BOOLEAN /\ due \in BOOLEAN
        /\ heard \in SUBSET Numbers /\ mixed \in BOOLEAN /\ forgotten \in Nat
        /\ status \in {"unset", "active", "revoked"}
    BY DEF Init
  <2>4. license \in Licenses \cup {NoLicense} /\ payload \in Numbers \cup {None}
        /\ signature \in Numbers \cup {None}
    BY DEF Init
  <2>5. issued \in 0..MaxLicenses /\ trials \in 0..MaxLicenses /\ faults \in 0..MaxFaults
    BY <2>2 DEF Init
  <2> QED BY <2>1, <2>3, <2>4, <2>5 DEF TypeOK
<1>4. Issued /\ Trials
  BY DEF Init, Issued, Trials
<1>5. Known /\ Storing /\ Newer /\ Superseded
  BY DEF Init, Known, Storing, Newer, Superseded, Holds, Sleeping
<1> QED BY <1>3, <1>4, <1>5 DEF Inv

\* An administrator's step changes the server alone.
LEMMA ServerStep ==
  ASSUME Inv, Issue \/ Revoke \/ Delete \/ Retire \/ Lapse
  PROVE  Inv'
<1>1. TypeOK /\ Issued /\ Trials
  BY DEF Inv
<1>2. license' \in Licenses \cup {NoLicense} /\ issued' \in 0..MaxLicenses
      /\ forgotten' \in Nat
  <2>1. CASE Issue
    BY <1>1, <2>1 DEF Issue, TypeOK, Licenses, Numbers
  <2>2. CASE Revoke
    BY <1>1, <2>2 DEF Revoke, TypeOK, Licenses, NoLicense
  <2>3. CASE Delete
    BY <1>1, <2>3 DEF Delete, TypeOK
  <2>4. CASE Retire \/ Lapse
    BY <1>1, <2>4 DEF Retire, Lapse, TypeOK
  <2> QED BY <2>1, <2>2, <2>3, <2>4
<1>3. installed' \in BOOLEAN /\ lapsed' \in BOOLEAN /\ UNCHANGED <<trials, settings, worker, heard, mixed, faults>>
  BY <1>1 DEF Issue, Revoke, Delete, Retire, Lapse, TypeOK
<1>4. TypeOK'
  BY <1>1, <1>2, <1>3 DEF TypeOK, settings, stored
<1>5. Issued' /\ Trials' /\ Known' /\ Storing'
  <2> USE DEF Inv, TypeOK, Issued, Trials, Known, Storing, Holds, NoLicense, Licenses,
             Numbers, settings, stored
  <2>1. CASE Issue
    BY <1>1, <2>1 DEF Issue
  <2>2. CASE Revoke
    BY <1>1, <2>2 DEF Revoke
  <2>3. CASE Delete
    BY <1>1, <2>3 DEF Delete
  <2>4. CASE Retire \/ Lapse
    <3>1. UNCHANGED <<license, issued, trials, forgotten, worker, heard, payload, signature>>
          /\ (installed' => installed)
      BY <2>4, <1>3 DEF Retire, Lapse
    <3> QED BY <3>1
  <2> QED BY <2>1, <2>2, <2>3, <2>4
<1>6. (~mixed => Newer /\ Superseded)'
  BY <1>3 DEF Inv, Newer, Superseded, Holds, settings, stored
<1> QED BY <1>4, <1>5, <1>6 DEF Inv

\* A check-in at another stage holds the same answer.
LEMMA Fields ==
  ASSUME NEW q \in CheckIns, NEW s \in Stages
  PROVE  /\ [q EXCEPT !.stage = s] \in CheckIns
         /\ [q EXCEPT !.stage = s].stage = s
         /\ [q EXCEPT !.stage = s].answer = q.answer
         /\ [q EXCEPT !.stage = s].kept = q.kept
  BY DEF CheckIns

\* A step of one worker that neither brings an answer nor stores any of it.
Goes(w, r) ==
    /\ worker' = [worker EXCEPT ![w] = r]
    /\ r.answer # NoLicense => r.answer = worker[w].answer
    /\ r.kept => worker[w].kept /\ r.stage \in {"signature", "status"}
    /\ r.stage \in {"payload", "signature", "status"} => r.answer # NoLicense
    /\ UNCHANGED <<server, stored, heard, mixed>>

\* Such a step keeps the invariant.
LEMMA GoesStep ==
  ASSUME Inv, NEW w \in Workers, NEW r \in CheckIns, Goes(w, r),
         registered' \in BOOLEAN, due' \in BOOLEAN, faults' \in 0..MaxFaults
  PROVE  Inv'
<1> USE DEF Goes, server, stored
<1>1. worker \in [Workers -> CheckIns]
  BY DEF Inv, TypeOK, CheckIns
<1>2. worker'[w] = r /\ \A v \in Workers \ {w} : worker'[v] = worker[v]
  BY <1>1
<1>3. worker' \in [Workers -> CheckIns]
  BY <1>1
<1>4. TypeOK'
  BY <1>3 DEF Inv, TypeOK, CheckIns
<1>5. Issued' /\ Trials'
  BY DEF Inv, Issued, Trials
<1>6. \A v \in Workers : /\ Holds(v)' => Holds(v) /\ worker'[v].answer = worker[v].answer
                         /\ worker'[v].kept => worker[v].kept
  BY <1>2 DEF Holds
<1>7. Known'
  BY <1>6 DEF Inv, Known
<1>8. Storing'
  BY <1>2 DEF Inv, Storing, Holds
<1>9. (~mixed => Newer /\ Superseded)'
  BY <1>6 DEF Inv, Newer, Superseded
<1> QED BY <1>4, <1>5, <1>7, <1>8, <1>9 DEF Inv

\* Asking, being lost, marking the registration and the day, and a failed
\* commit are such steps.
LEMMA QuietStep ==
  ASSUME Inv, NEW w \in Workers,
         \/ CheckIn(w) \/ ReportNow(w) \/ Lose(w) \/ ClearRegistered(w) \/ MarkRegistered(w)
         \/ SetLastCheck(w) \/ FailStore(w)
  PROVE  Inv'
<1>1. worker[w] \in CheckIns /\ faults \in 0..MaxFaults /\ registered \in BOOLEAN /\ due \in BOOLEAN
  BY DEF Inv, TypeOK, CheckIns
<1>2. Sleeping \in CheckIns /\ Sleeping.stage = "sleeping" /\ Sleeping.answer = NoLicense
      /\ ~Sleeping.kept
  BY DEF Sleeping, CheckIns, Stages
<1>3. /\ worker[w].stage \in {"payload", "signature", "status"} => Holds(w)
      /\ worker[w].kept => worker[w].stage \in {"signature", "status"}
  BY DEF Inv, Storing
<1>4. registered' \in BOOLEAN /\ due' \in BOOLEAN
  BY <1>1 DEF CheckIn, ReportNow, Lose, ClearRegistered, MarkRegistered, SetLastCheck, FailStore, settings
<1>5. faults' \in 0..MaxFaults
  BY <1>1 DEF CheckIn, ReportNow, Lose, ClearRegistered, MarkRegistered, SetLastCheck, FailStore
<1>6. UNCHANGED <<server, stored, heard, mixed>>
  BY DEF CheckIn, ReportNow, Lose, ClearRegistered, MarkRegistered, SetLastCheck, FailStore, settings
<1>7. CASE Sleep(w)
  <2>1. Goes(w, Sleeping)
    BY <1>2, <1>6, <1>7 DEF Goes, Sleep
  <2> QED BY <1>2, <1>4, <1>5, <2>1, GoesStep
<1>8. ASSUME NEW s \in Stages, Become(w, s),
             s \in {"payload", "signature", "status"} => Holds(w),
             worker[w].kept => s \in {"signature", "status"}
      PROVE  Inv'
  <2> DEFINE r == [worker[w] EXCEPT !.stage = s]
  <2>1. r \in CheckIns /\ r.stage = s /\ r.answer = worker[w].answer /\ r.kept = worker[w].kept
    BY <1>1, Fields
  <2>2. worker' = [worker EXCEPT ![w] = r]
    BY <1>8 DEF Become
  <2> HIDE DEF r
  <2>3. Goes(w, r)
    BY <1>6, <1>8, <2>1, <2>2 DEF Goes, Holds
  <2> QED BY <1>4, <1>5, <2>1, <2>3, GoesStep
<1>9. Sleep(w) \/ \E s \in Stages : /\ Become(w, s)
                                    /\ s \in {"payload", "signature", "status"} => Holds(w)
                                    /\ worker[w].kept => s \in {"signature", "status"}
  <2> USE <1>2, <1>3 DEF Stages
  <2>1. CASE CheckIn(w)
    BY <2>1 DEF CheckIn
  <2>2. CASE ReportNow(w)
    BY <2>2 DEF ReportNow
  <2>3. CASE Lose(w) \/ ClearRegistered(w)
    BY <2>3 DEF Lose, ClearRegistered
  <2>4. CASE MarkRegistered(w)
    BY <2>4 DEF MarkRegistered
  <2>5. CASE SetLastCheck(w)
    BY <2>5 DEF SetLastCheck, Holds
  <2>6. CASE FailStore(w)
    BY <2>6 DEF FailStore
  <2> QED BY <2>1, <2>2, <2>3, <2>4, <2>5, <2>6
<1> QED BY <1>7, <1>8, <1>9

\* The server's answer is the license it has, newer than all the worker knows.
LEMMA AnswerStep ==
  ASSUME Inv, NEW w \in Workers, Register(w) \/ Telemetry(w)
  PROVE  Inv'
<1>1. /\ worker \in [Workers -> CheckIns] /\ worker[w] \in CheckIns
      /\ license \in Licenses \cup {NoLicense}
      /\ issued \in 0..MaxLicenses /\ trials \in 0..MaxLicenses /\ forgotten \in Nat
      /\ installed \in BOOLEAN
  BY DEF Inv, TypeOK, CheckIns
<1>2. worker[w].kept = FALSE
  BY <1>1 DEF Inv, Storing, Register, Telemetry, CheckIns
<1>3. UNCHANGED <<forgotten, lapsed, settings, heard, mixed, faults>>
  BY DEF Register, Telemetry, server
<1>4. /\ license' \in Licenses \cup {NoLicense} /\ installed' \in BOOLEAN
      /\ issued' \in 0..MaxLicenses /\ issued <= issued'
      /\ trials' \in 0..MaxLicenses
      /\ \/ license' = license
         \/ license'.number = issued + 1 /\ issued' = issued + 1 /\ license'.status = "active"
  <2>1. CASE Register(w) /\ ~installed /\ license = NoLicense
    <3>1. license' = [number |-> issued + 1, status |-> "active"] /\ issued' = issued + 1
          /\ trials' = trials + 1 /\ installed' = TRUE
      BY <2>1 DEF Register
    <3>2. issued < MaxLicenses /\ trials <= issued
      BY <2>1 DEF Inv, Issued, Trials
    <3>3. issued + 1 \in Numbers
      BY <1>1, <3>2 DEF Numbers
    <3>4. license' \in Licenses
      BY <3>1, <3>3 DEF Licenses
    <3> QED BY <1>1, <3>1, <3>2, <3>4
  <2>2. CASE Register(w) /\ ~(~installed /\ license = NoLicense)
    <3>1. UNCHANGED <<license, issued, trials>> /\ installed' = TRUE
      BY <2>2 DEF Register
    <3> QED BY <1>1, <3>1
  <2>3. CASE Telemetry(w)
    BY <1>1, <2>3 DEF Telemetry, server
  <2> QED BY <2>1, <2>2, <2>3
<1>5. PICK r \in CheckIns :
        /\ worker' = [worker EXCEPT ![w] = r]
        /\ r.answer \in {license', NoLicense} /\ ~r.kept
        /\ r.stage \in {"acknowledged", "answered", "unknown"}
  <2>1. CASE Register(w)
    <3> DEFINE l == IF installed THEN NoLicense ELSE license'
               r == [worker[w] EXCEPT !.stage = "acknowledged", !.answer = l]
    <3>1. worker' = [worker EXCEPT ![w] = r]
      BY <2>1 DEF Register
    <3>2. l \in Licenses \cup {NoLicense} /\ l \in {license', NoLicense}
      BY <1>4
    <3>3. "acknowledged" \in Stages
      BY DEF Stages
    <3> HIDE DEF l
    <3>4. r \in CheckIns /\ r.stage = "acknowledged" /\ r.answer = l /\ r.kept = worker[w].kept
      BY <1>1, <3>2, <3>3 DEF CheckIns
    <3> HIDE DEF r
    <3> QED BY <1>2, <3>1, <3>2, <3>4
  <2>2. CASE Telemetry(w)
    <3> DEFINE s == IF installed THEN "answered" ELSE "unknown"
               l == IF installed THEN license ELSE NoLicense
               r == [worker[w] EXCEPT !.stage = s, !.answer = l]
    <3>1. worker' = [worker EXCEPT ![w] = r] /\ license' = license
      BY <2>2 DEF Telemetry, server
    <3>2. l \in Licenses \cup {NoLicense} /\ l \in {license', NoLicense}
          /\ s \in {"answered", "unknown"}
      BY <1>1, <3>1
    <3>3. s \in Stages
      BY DEF Stages
    <3> HIDE DEF l, s
    <3>4. r \in CheckIns /\ r.stage = s /\ r.answer = l /\ r.kept = worker[w].kept
      BY <1>1, <3>2, <3>3 DEF CheckIns
    <3> HIDE DEF r
    <3> QED BY <1>2, <3>1, <3>2, <3>4
  <2> QED BY <2>1, <2>2
<1>6. Issued' /\ Trials'
  <2>1. CASE Register(w)
    BY <1>1, <1>3, <2>1 DEF Inv, Issued, Trials, Register, NoLicense
  <2>2. CASE Telemetry(w)
    BY <1>1, <1>3, <2>2 DEF Inv, Issued, Trials, Telemetry, server
  <2> QED BY <2>1, <2>2
<1>7. /\ worker'[w] = r /\ \A v \in Workers \ {w} : worker'[v] = worker[v]
      /\ worker' \in [Workers -> CheckIns]
  BY <1>1, <1>5
<1>8. TypeOK'
  BY <1>3, <1>4, <1>7 DEF Inv, TypeOK, CheckIns, settings, stored
<1>9. Storing'
  BY <1>5, <1>7 DEF Inv, Storing, Holds
<1>10. Known'
  <2> USE DEF Inv, Known, settings, stored
  <2>1. payload' # None => payload' <= issued'
    BY <1>1, <1>3, <1>4 DEF TypeOK, Numbers
  <2>2. signature' # None => signature' <= issued'
    BY <1>1, <1>3, <1>4 DEF TypeOK, Numbers
  <2>3. \A n \in heard' : n <= issued' /\ (license'.number = n => license'.status = "revoked")
    BY <1>1, <1>3, <1>4 DEF TypeOK, Numbers
  <2>4. ASSUME NEW v \in Workers, Holds(v)'
        PROVE  /\ worker'[v].answer.number <= issued'
               /\ worker'[v].answer.status = "revoked"
                  /\ license'.number = worker'[v].answer.number => license'.status = "revoked"
    <3>1. CASE v = w
      BY <1>4, <1>5, <1>6, <1>7, <2>4, <3>1 DEF Holds, Issued, Licenses
    <3>2. CASE v # w
      <4>1. Holds(v) /\ worker'[v] = worker[v]
        BY <1>7, <2>4, <3>2 DEF Holds
      <4>2. worker[v].answer \in Licenses /\ worker[v].answer.number <= issued
        BY <1>1, <4>1 DEF CheckIns, Holds
      <4> QED BY <1>1, <1>4, <4>1, <4>2 DEF Licenses, Numbers
    <3> QED BY <3>1, <3>2
  <2> QED BY <2>1, <2>2, <2>3, <2>4
<1>11. (~mixed => Newer /\ Superseded)'
  <2> SUFFICES ASSUME ~mixed PROVE (Newer /\ Superseded)'
    BY <1>3
  <2>1. Superseded'
    BY <1>3 DEF Inv, Superseded, settings, stored
  <2>2. ASSUME NEW v \in Workers, Holds(v)'
        PROVE  LET n == worker'[v].answer.number
               IN  /\ payload' # None => payload' <= n
                   /\ signature' # None => signature' <= n
                   /\ \A k \in heard' : k <= n
                   /\ n \in heard' => worker'[v].answer.status = "revoked"
                   /\ worker'[v].kept => payload' = n \/ signature' = n
    <3>1. CASE v = w
      <4>1. worker'[v].answer = license' /\ license' # NoLicense /\ ~worker'[v].kept
        BY <1>5, <1>7, <2>2, <3>1 DEF Holds
      <4>2. license'.number = issued'
        BY <1>6, <4>1 DEF Issued
      <4> QED BY <1>3, <1>10, <4>1, <4>2 DEF Known
    <3>2. CASE v # w
      <4>1. Holds(v) /\ worker'[v] = worker[v]
        BY <1>7, <2>2, <3>2 DEF Holds
      <4> QED BY <1>3, <4>1 DEF Inv, Newer, settings, stored
    <3> QED BY <3>1, <3>2
  <2>3. Newer'
    BY <2>2 DEF Newer
  <2> QED BY <2>1, <2>3
<1> QED BY <1>6, <1>8, <1>9, <1>10, <1>11 DEF Inv

\* Unless another holds an answer, the one stored is no older than the rest.
LEMMA StoreStep ==
  ASSUME Inv, NEW w \in Workers, StorePayload(w) \/ StoreSignature(w) \/ StoreStatus(w)
  PROVE  Inv'
<1> DEFINE n == worker[w].answer.number
<1>1. worker \in [Workers -> CheckIns] /\ worker[w] \in CheckIns /\ mixed \in BOOLEAN
      /\ payload \in Numbers \cup {None} /\ signature \in Numbers \cup {None}
      /\ heard \in SUBSET Numbers
  BY DEF Inv, TypeOK, CheckIns
<1>2. worker[w].answer \in Licenses /\ n \in Numbers /\ worker[w].answer.status \in {"active", "revoked"}
      /\ Holds(w)
  BY <1>1 DEF Inv, Storing, CheckIns, Holds, StorePayload, StoreSignature, StoreStatus, Licenses
<1>3. UNCHANGED <<server, registered, due, faults>>
  BY DEF StorePayload, StoreSignature, StoreStatus
<1>4. mixed' \in BOOLEAN
      /\ (~mixed' => ~mixed /\ \A v \in Workers \ {w} : ~Holds(v))
  BY <1>1 DEF StorePayload, StoreSignature, StoreStatus, Mixes
<1>5. PICK r \in CheckIns :
        /\ worker' = [worker EXCEPT ![w] = r]
        /\ \/ r.stage \in {"signature", "status"} /\ r.answer = worker[w].answer
           \/ r = Sleeping
        /\ r.kept => r # Sleeping
  <2>1. ASSUME NEW s \in {"signature", "status"}, Keep(w, s)
        PROVE  \E r \in CheckIns : /\ worker' = [worker EXCEPT ![w] = r]
                                   /\ r.stage = s /\ r.answer = worker[w].answer /\ r # Sleeping
    <3> DEFINE r == [worker[w] EXCEPT !.stage = s, !.kept = TRUE]
    <3>1. worker' = [worker EXCEPT ![w] = r]
      BY <2>1 DEF Keep
    <3>2. s \in Stages
      BY DEF Stages
    <3>3. r \in CheckIns /\ r.stage = s /\ r.answer = worker[w].answer
      BY <1>1, <3>2 DEF CheckIns
    <3>4. Sleeping.stage = "sleeping"
      BY DEF Sleeping
    <3>5. r # Sleeping
      BY <3>3, <3>4
    <3> HIDE DEF r
    <3> QED BY <3>1, <3>3, <3>5
  <2>2. CASE Sleep(w)
    <3>1. Sleeping \in CheckIns /\ ~Sleeping.kept
      BY DEF Sleeping, CheckIns, Stages
    <3> QED BY <2>2, <3>1 DEF Sleep
  <2> QED BY <2>1, <2>2 DEF StorePayload, StoreSignature, StoreStatus
<1>6. /\ worker'[w] = r /\ \A v \in Workers \ {w} : worker'[v] = worker[v]
      /\ worker' \in [Workers -> CheckIns]
  BY <1>1, <1>5
<1>7. /\ payload' \in {payload, n} /\ signature' \in {signature, n}
      /\ heard' = heard \/ (heard' = heard \cup {n} /\ worker[w].answer.status = "revoked")
      /\ status' = status \/ status' = worker[w].answer.status
  <2>1. CASE StorePayload(w)
    <3>1. payload' = n /\ UNCHANGED <<signature, heard, status>>
      BY <2>1 DEF StorePayload
    <3> QED BY <3>1
  <2>2. CASE StoreSignature(w)
    <3>1. signature' = n /\ UNCHANGED <<payload, heard, status>>
      BY <2>2 DEF StoreSignature
    <3> QED BY <3>1
  <2>3. CASE StoreStatus(w)
    <3>1. /\ status' = worker[w].answer.status /\ UNCHANGED <<payload, signature>>
          /\ heard' = IF worker[w].answer.status = "revoked" THEN heard \cup {n} ELSE heard
      BY <2>3 DEF StoreStatus, Hears
    <3> QED BY <3>1
  <2> QED BY <2>1, <2>2, <2>3
<1>8. TypeOK'
  <2>1. /\ payload' \in Numbers \cup {None} /\ signature' \in Numbers \cup {None}
        /\ heard' \in SUBSET Numbers
    BY <1>1, <1>2, <1>7
  <2>2. status' \in {"unset", "active", "revoked"}
    BY <1>2, <1>7 DEF Inv, TypeOK
  <2> QED BY <1>3, <1>4, <1>6, <2>1, <2>2 DEF Inv, TypeOK, CheckIns, server
<1>9. Issued' /\ Trials'
  BY <1>3 DEF Inv, Issued, Trials, server
<1>10. Storing'
  BY <1>2, <1>5, <1>6 DEF Inv, Storing, Holds, Sleeping
<1>11. \A v \in Workers : Holds(v)' => Holds(v) /\ worker'[v].answer = worker[v].answer
  BY <1>2, <1>5, <1>6 DEF Holds, Sleeping
<1>12. Known'
  <2>1. n <= issued /\ (worker[w].answer.status = "revoked" /\ license.number = n
                          => license.status = "revoked")
    BY <1>2 DEF Inv, Known
  <2>2. (payload' # None => payload' <= issued) /\ (signature' # None => signature' <= issued)
    BY <1>7, <2>1 DEF Inv, Known
  <2>3. \A k \in heard' : k <= issued /\ (license.number = k => license.status = "revoked")
    BY <1>7, <2>1 DEF Inv, Known
  <2>4. \A v \in Workers : Holds(v)' =>
          /\ worker'[v].answer.number <= issued
          /\ worker'[v].answer.status = "revoked" /\ license.number = worker'[v].answer.number
                => license.status = "revoked"
    BY <1>11 DEF Inv, Known
  <2> QED BY <1>3, <2>2, <2>3, <2>4 DEF Known, server
<1>13. ASSUME ~mixed' PROVE (Newer /\ Superseded)'
  <2>1. Newer /\ Superseded /\ \A v \in Workers \ {w} : ~Holds(v)'
    BY <1>4, <1>11, <1>13 DEF Inv
  <2>2. /\ payload # None => payload <= n
        /\ signature # None => signature <= n
        /\ \A k \in heard : k <= n
        /\ n \in heard => worker[w].answer.status = "revoked"
        /\ worker[w].kept => payload = n \/ signature = n
    BY <1>2, <2>1 DEF Newer
  <2>3. n # None /\ n \in Nat
    BY <1>2 DEF Numbers
  <2>4. /\ payload' # None => payload' <= n
        /\ signature' # None => signature' <= n
        /\ \A k \in heard' : k <= n
        /\ n \in heard' => worker[w].answer.status = "revoked"
    BY <1>7, <2>2, <2>3
  <2>5. Holds(w)' => payload' = n \/ signature' = n
    BY <1>5, <1>6, <2>1 DEF Holds, Sleeping, StorePayload, StoreSignature, StoreStatus, Sleep
  <2>6. Newer'
    BY <1>11, <2>1, <2>4, <2>5 DEF Newer
  <2>7. Superseded'
    <3>1. CASE StorePayload(w) \/ StoreSignature(w)
      <4>1. /\ heard' = heard /\ status' = status
            /\ \/ payload' = n /\ signature' = signature
               \/ signature' = n /\ payload' = payload
        BY <3>1 DEF StorePayload, StoreSignature
      <4>2. ASSUME status # "revoked", NEW k \in heard PROVE k < n
        <5>1. \/ payload # None /\ payload > k
              \/ signature # None /\ signature > k
          BY <2>1, <4>2 DEF Superseded
        <5> QED BY <1>1, <2>2, <2>3, <5>1 DEF Numbers
      <4> QED BY <1>1, <2>3, <4>1, <4>2 DEF Superseded, Numbers
    <3>2. CASE StoreStatus(w)
      <4>1. status' = worker[w].answer.status /\ payload' = payload /\ signature' = signature
            /\ (status' # "revoked" => heard' = heard) /\ worker[w].kept
        BY <1>13, <3>2 DEF StoreStatus, Hears, Mixes
      <4>2. ASSUME status' # "revoked", NEW k \in heard PROVE k < n
        BY <1>1, <2>2, <2>3, <4>1, <4>2 DEF Numbers
      <4> QED BY <1>1, <2>2, <2>3, <4>1, <4>2 DEF Superseded, Numbers
    <3> QED BY <3>1, <3>2
  <2> QED BY <2>6, <2>7
<1> QED BY <1>8, <1>9, <1>10, <1>12, <1>13 DEF Inv

\* Every step keeps the invariant.
LEMMA NextInv == Inv /\ [Next]_vars => Inv'
<1> SUFFICES ASSUME Inv, [Next]_vars PROVE Inv'
  OBVIOUS
<1>1. CASE Issue \/ Revoke \/ Delete \/ Retire \/ Lapse
  BY <1>1, ServerStep
<1>2. ASSUME NEW w \in Workers, Work(w) \/ ReportNow(w) \/ Lose(w) \/ FailStore(w)
      PROVE  Inv'
  BY <1>2, QuietStep, AnswerStep, StoreStep DEF Work
<1>3. CASE DayPasses \/ UNCHANGED vars
  <2>1. due' \in BOOLEAN
    BY <1>3 DEF DayPasses, vars, settings, Inv, TypeOK
  <2>2. UNCHANGED <<server, registered, stored, worker, heard, mixed, faults>>
    BY <1>3 DEF DayPasses, vars, settings
  <2>3. TypeOK'
    BY <2>1, <2>2 DEF Inv, TypeOK, server, stored
  <2> QED
    BY <2>2, <2>3 DEF Inv, Issued, Trials, Known, Storing, Newer, Superseded, Holds, server, stored
<1> QED BY <1>1, <1>2, <1>3 DEF Next

----------------------------------------------------------------------------
(***************************************************************************)
(* The identity.  Unless two made one at once, the settings and .env do    *)
(* not contradict each other where both have a value, and what a worker    *)
(* found is what it will present.                                          *)
(***************************************************************************)
Starts == [stage : {"down", "looking", "id", "token", "append", "up"},
           own : Identity!Identities, has : Identity!Identities]

\* A worker's environment is the one it was started with, which only grows.
Copied ==
    \A w \in Starters : /\ starter[w].own.id # None => starter[w].own.id = env.id
                        /\ starter[w].own.token # None => starter[w].own.token = env.token

\* The settings hold what the environment says, or nothing yet: then every
\* worker that is up was started with it.
Agree ==
    /\ env.id # None => \/ setting.id = env.id
                        \/ /\ setting.id = None
                           /\ \A w \in Starters : starter[w].stage # "down"
                                                     => starter[w].own.id = env.id
    /\ env.token # None => \/ setting.token = env.token
                           \/ /\ setting.token = None
                              /\ \A w \in Starters : starter[w].stage # "down"
                                                        => starter[w].own.token = env.token

ShownId(w) == IF starter[w].own.id # None THEN starter[w].own.id ELSE setting.id

ShownToken(w) == IF starter[w].own.token # None THEN starter[w].own.token ELSE setting.token

\* A worker has found, or made, what it will present.
Found ==
    \A w \in Starters :
        /\ starter[w].stage \in {"id", "token", "append", "up"}
             => starter[w].has.id = ShownId(w) /\ starter[w].has.token = ShownToken(w)
        /\ starter[w].stage = "id" => starter[w].has.id = None
        /\ starter[w].stage = "token" => starter[w].has.id # None /\ starter[w].has.token = None
        /\ starter[w].stage \in {"append", "up"}
             => starter[w].has.id # None /\ starter[w].has.token # None

\* What the server knows is in the settings, or else in .env.
Recorded ==
    \A k \in known :
        /\ k.id # None /\ k.token # None
        /\ k.id = IF setting.id # None THEN setting.id ELSE env.id
        /\ k.token = IF setting.token # None THEN setting.token ELSE env.token

IdInv == Identity!TypeOK /\ Copied /\ (~raced => Agree /\ Found /\ Recorded)

USE IdentityAssumption

\* What the first does not say is taken from the second, field by field.
LEMMA OrFields ==
  ASSUME NEW a \in Identity!Identities, NEW b \in Identity!Identities
  PROVE  /\ Identity!Or(a, b) \in Identity!Identities
         /\ Identity!Or(a, b).id = IF a.id # None THEN a.id ELSE b.id
         /\ Identity!Or(a, b).token = IF a.token # None THEN a.token ELSE b.token
  BY DEF Identity!Or, Identity!Identities

\* At first nobody has made or registered an identity.
LEMMA IdInit == Identity!Init => IdInv
<1> SUFFICES ASSUME Identity!Init PROVE IdInv
  OBVIOUS
<1> USE DEF Identity!Init, Identity!Down, Identity!Nothing
<1>1. Identity!Nothing \in Identity!Identities /\ env \in Identity!Identities
      /\ setting \in Identity!Identities
  BY DEF Identity!Identities, Identity!Makers
<1>2. Identity!TypeOK
  BY <1>1 DEF Identity!TypeOK
<1>3. Copied /\ Agree /\ Found /\ Recorded
  BY DEF Copied, Agree, Found, Recorded
<1> QED BY <1>2, <1>3 DEF IdInv

\* What a worker presents is from its environment, or else from the settings.
LEMMA Presented ==
  ASSUME Identity!TypeOK, NEW w \in Starters
  PROVE  /\ starter[w] \in Starts
         /\ Identity!Presents(w) \in Identity!Identities
         /\ Identity!Presents(w).id = ShownId(w) /\ Identity!Presents(w).token = ShownToken(w)
<1>1. starter[w] \in Starts /\ setting \in Identity!Identities
  BY DEF Identity!TypeOK, Starts
<1>2. starter[w].own \in Identity!Identities
  BY <1>1 DEF Starts
<1>3. Identity!Presents(w) = Identity!Or(starter[w].own, setting)
  BY DEF Identity!Presents
<1> HIDE DEF Starts
<1> QED BY <1>1, <1>2, <1>3, OrFields DEF ShownId, ShownToken

\* A step that stores nothing: a worker starts, looks or stops.
LEMMA IdQuiet ==
  ASSUME IdInv, NEW w \in Starters, Identity!Boot(w) \/ Identity!Look(w) \/ Identity!Stop(w)
  PROVE  IdInv'
<1>1. UNCHANGED <<hasFile, env, setting, known, raced>>
  BY DEF Identity!Boot, Identity!Look, Identity!Stop
<1>2. /\ starter \in [Starters -> Starts] /\ starter[w] \in Starts /\ raced \in BOOLEAN
      /\ env \in Identity!Identities /\ setting \in Identity!Identities
      /\ Identity!Nothing \in Identity!Identities
  BY DEF IdInv, Identity!TypeOK, Starts, Identity!Nothing, Identity!Identities, Identity!Makers
<1>3. PICK r \in Starts :
        /\ starter' = [starter EXCEPT ![w] = r]
        /\ \/ r.stage = "down" /\ r.own = Identity!Nothing
           \/ r.stage = "looking" /\ r.own = env
           \/ /\ starter[w].stage = "looking" /\ r.own = starter[w].own
              /\ r.has.id = ShownId(w) /\ r.has.token = ShownToken(w)
              /\ r.stage = IF r.has.id = None THEN "id"
                           ELSE IF r.has.token = None THEN "token" ELSE "up"
  <2>1. CASE Identity!Boot(w)
    <3> DEFINE r == [stage |-> "looking", own |-> env, has |-> Identity!Nothing]
    <3>1. starter' = [starter EXCEPT ![w] = r]
      BY <2>1 DEF Identity!Boot, Identity!Put
    <3>2. r \in Starts /\ r.stage = "looking" /\ r.own = env
      BY <1>2 DEF Starts
    <3> HIDE DEF r
    <3> QED BY <3>1, <3>2
  <2>2. CASE Identity!Stop(w)
    <3> DEFINE r == Identity!Down
    <3>1. starter' = [starter EXCEPT ![w] = r]
      BY <2>2 DEF Identity!Stop, Identity!Put
    <3>2. r \in Starts /\ r.stage = "down" /\ r.own = Identity!Nothing
      BY <1>2 DEF Identity!Down, Starts
    <3> HIDE DEF r
    <3> QED BY <3>1, <3>2
  <2>3. CASE Identity!Look(w)
    <3> DEFINE found == Identity!Presents(w)
               s == IF found.id = None THEN "id"
                    ELSE IF found.token = None THEN "token" ELSE "up"
               r == [starter[w] EXCEPT !.has = found, !.stage = s]
    <3>1. starter' = [starter EXCEPT ![w] = r] /\ starter[w].stage = "looking"
      BY <2>3 DEF Identity!Look, Identity!Put, Identity!Presents
    <3>2. found \in Identity!Identities /\ found.id = ShownId(w) /\ found.token = ShownToken(w)
      BY Presented DEF IdInv
    <3>3. s \in {"id", "token", "up"}
      OBVIOUS
    <3>4. s = IF found.id = None THEN "id" ELSE IF found.token = None THEN "token" ELSE "up"
      OBVIOUS
    <3> HIDE DEF found, s
    <3>5. r \in Starts /\ r.own = starter[w].own /\ r.has = found /\ r.stage = s
      BY <1>2, <3>2, <3>3 DEF Starts
    <3> HIDE DEF r
    <3> QED BY <3>1, <3>2, <3>4, <3>5
  <2> QED BY <2>1, <2>2, <2>3
<1>4. /\ starter'[w] = r /\ \A v \in Starters \ {w} : starter'[v] = starter[v]
      /\ starter' \in [Starters -> Starts]
  BY <1>2, <1>3
<1>5. Identity!TypeOK'
  BY <1>1, <1>4 DEF IdInv, Identity!TypeOK, Starts
<1>6. Copied'
  BY <1>1, <1>3, <1>4 DEF IdInv, Copied, Identity!Nothing
<1>7. ASSUME ~raced' PROVE (Agree /\ Found /\ Recorded)'
  <2>1. Agree /\ Found /\ Recorded
    BY <1>1, <1>7 DEF IdInv
  <2>2. Recorded'
    BY <1>1, <2>1 DEF Recorded
  <2>3. Agree'
    BY <1>1, <1>3, <1>4, <2>1 DEF Agree, Identity!Nothing
  <2>4. \A v \in Starters : starter'[v].own = starter[v].own
           => ShownId(v)' = ShownId(v) /\ ShownToken(v)' = ShownToken(v)
    BY <1>1 DEF ShownId, ShownToken
  <2>5. Found'
    BY <1>3, <1>4, <2>1, <2>4 DEF Found
  <2> QED BY <2>2, <2>3, <2>5
<1> QED BY <1>5, <1>6, <1>7 DEF IdInv

\* What a worker makes is what it will present: nothing was there before, and
\* nobody else is making one.
LEMMA SaveStep ==
  ASSUME IdInv, NEW w \in Starters, Identity!SaveId(w) \/ Identity!SaveToken(w)
  PROVE  IdInv'
<1>1. UNCHANGED <<hasFile, env, known>>
  BY DEF Identity!SaveId, Identity!SaveToken
<1>2. /\ starter \in [Starters -> Starts] /\ starter[w] \in Starts /\ raced \in BOOLEAN
      /\ env \in Identity!Identities /\ setting \in Identity!Identities
      /\ w # None /\ w \in Identity!Makers
  BY DEF IdInv, Identity!TypeOK, Starts, Identity!Identities, Identity!Makers
<1>3. /\ raced' \in BOOLEAN
      /\ ~raced' => /\ ~raced
                    /\ \A v \in Starters \ {w} : starter[v].stage \notin {"id", "token", "append"}
  BY <1>2 DEF Identity!SaveId, Identity!SaveToken, Identity!Races
<1>4. PICK r \in Starts :
        /\ starter' = [starter EXCEPT ![w] = r]
        /\ r.own = starter[w].own
        /\ \/ /\ starter[w].stage = "id" /\ r.has.id = w /\ r.has.token = starter[w].has.token
              /\ r.stage = IF r.has.token = None THEN "token" ELSE "append"
           \/ /\ starter[w].stage = "token" /\ r.has.token = w /\ r.has.id = starter[w].has.id
              /\ r.stage = "append"
  <2>1. CASE Identity!SaveId(w)
    <3> DEFINE s == IF starter[w].has.token = None THEN "token" ELSE "append"
               r == [starter[w] EXCEPT !.has.id = w, !.stage = s]
    <3>1. starter' = [starter EXCEPT ![w] = r] /\ starter[w].stage = "id"
      BY <2>1 DEF Identity!SaveId, Identity!Put
    <3>2. s \in {"token", "append"} /\ (s = IF starter[w].has.token = None THEN "token" ELSE "append")
      OBVIOUS
    <3> HIDE DEF s
    <3>3. r \in Starts /\ r.own = starter[w].own /\ r.stage = s
          /\ r.has.id = w /\ r.has.token = starter[w].has.token
      BY <1>2, <3>2 DEF Starts, Identity!Identities
    <3> HIDE DEF r
    <3> QED BY <3>1, <3>2, <3>3
  <2>2. CASE Identity!SaveToken(w)
    <3> DEFINE r == [starter[w] EXCEPT !.has.token = w, !.stage = "append"]
    <3>1. starter' = [starter EXCEPT ![w] = r] /\ starter[w].stage = "token"
      BY <2>2 DEF Identity!SaveToken, Identity!Put
    <3>2. r \in Starts /\ r.own = starter[w].own /\ r.stage = "append"
          /\ r.has.token = w /\ r.has.id = starter[w].has.id
      BY <1>2 DEF Starts, Identity!Identities
    <3> HIDE DEF r
    <3> QED BY <3>1, <3>2
  <2> QED BY <2>1, <2>2
<1>5. /\ starter'[w] = r /\ \A v \in Starters \ {w} : starter'[v] = starter[v]
      /\ starter' \in [Starters -> Starts]
  BY <1>2, <1>4
<1>6. setting' \in Identity!Identities
      /\ (~raced' => \/ /\ starter[w].stage = "id" /\ setting'.id = w
                        /\ setting'.token = setting.token
                     \/ /\ starter[w].stage = "token" /\ setting'.token = w
                        /\ setting'.id = setting.id)
  <2>1. CASE Identity!SaveId(w)
    <3>1. setting' = [setting EXCEPT !.id = w] \/ (raced' /\ setting' = setting)
      BY <2>1 DEF Identity!SaveId, Identity!Stores
    <3>2. starter[w].stage = "id"
      BY <2>1 DEF Identity!SaveId
    <3>3. /\ [setting EXCEPT !.id = w] \in Identity!Identities
          /\ [setting EXCEPT !.id = w].id = w
          /\ [setting EXCEPT !.id = w].token = setting.token
      BY <1>2 DEF Identity!Identities
    <3> QED BY <1>2, <1>3, <3>1, <3>2, <3>3
  <2>2. CASE Identity!SaveToken(w)
    <3>1. setting' = [setting EXCEPT !.token = w] \/ (raced' /\ setting' = setting)
      BY <2>2 DEF Identity!SaveToken, Identity!Stores
    <3>2. starter[w].stage = "token"
      BY <2>2 DEF Identity!SaveToken
    <3>3. /\ [setting EXCEPT !.token = w] \in Identity!Identities
          /\ [setting EXCEPT !.token = w].token = w
          /\ [setting EXCEPT !.token = w].id = setting.id
      BY <1>2 DEF Identity!Identities
    <3> QED BY <1>2, <1>3, <3>1, <3>2, <3>3
  <2> QED BY <2>1, <2>2
<1>7. Identity!TypeOK'
  BY <1>1, <1>3, <1>5, <1>6 DEF IdInv, Identity!TypeOK, Starts
<1>8. Copied'
  BY <1>1, <1>4, <1>5 DEF IdInv, Copied
<1>9. ASSUME ~raced' PROVE (Agree /\ Found /\ Recorded)'
  <2>1. Agree /\ Found /\ Recorded /\ Copied
    BY <1>3, <1>9 DEF IdInv
  <2>2. CASE starter[w].stage = "id"
    <3>1. starter[w].own.id = None /\ setting.id = None /\ env.id = None
      BY <2>1, <2>2 DEF Found, ShownId, Agree
    <3>2. /\ setting'.id = w /\ setting'.token = setting.token
          /\ r.has.id = w /\ r.has.token = starter[w].has.token
          /\ r.stage = IF r.has.token = None THEN "token" ELSE "append"
      BY <1>4, <1>6, <1>9, <2>2
    <3>3. known = {}
      BY <2>1, <3>1 DEF Recorded
    <3>4. Agree'
      BY <1>1, <1>4, <1>5, <2>1, <3>1, <3>2 DEF Agree
    <3>5. ASSUME NEW v \in Starters, v # w
          PROVE  starter[v].stage = "up" => starter[v].own.id # None
      BY <2>1, <3>1, <3>5 DEF Found, ShownId
    <3>6. Found'
      BY <1>2, <1>3, <1>4, <1>5, <1>9, <2>1, <2>2, <3>1, <3>2, <3>5 DEF Found, ShownId, ShownToken
    <3> QED BY <1>1, <3>3, <3>4, <3>6 DEF Recorded
  <2>3. CASE starter[w].stage = "token"
    <3>1. starter[w].own.token = None /\ setting.token = None /\ env.token = None
      BY <2>1, <2>3 DEF Found, ShownToken, Agree
    <3>2. /\ setting'.token = w /\ setting'.id = setting.id
          /\ r.has.token = w /\ r.has.id = starter[w].has.id /\ r.stage = "append"
      BY <1>4, <1>6, <1>9, <2>3
    <3>3. known = {}
      BY <2>1, <3>1 DEF Recorded
    <3>4. Agree'
      BY <1>1, <1>4, <1>5, <2>1, <3>1, <3>2 DEF Agree
    <3>5. ASSUME NEW v \in Starters, v # w
          PROVE  starter[v].stage = "up" => starter[v].own.token # None
      BY <2>1, <3>1, <3>5 DEF Found, ShownToken
    <3>6. Found'
      BY <1>2, <1>3, <1>4, <1>5, <1>9, <2>1, <2>3, <3>1, <3>2, <3>5 DEF Found, ShownId, ShownToken
    <3> QED BY <1>1, <3>3, <3>4, <3>6 DEF Recorded
  <2> QED BY <1>4, <2>2, <2>3
<1> QED BY <1>7, <1>8, <1>9 DEF IdInv

\* The server learns the identity that .env and the settings agree on.
LEMMA UpStep ==
  ASSUME IdInv, NEW w \in Starters, Identity!AppendToEnv(w) \/ Identity!Register(w)
  PROVE  IdInv'
<1>1. /\ starter \in [Starters -> Starts] /\ starter[w] \in Starts /\ hasFile \in BOOLEAN
      /\ env \in Identity!Identities /\ setting \in Identity!Identities
  BY DEF IdInv, Identity!TypeOK, Starts
<1>2. CASE Identity!AppendToEnv(w)
  <2>1. UNCHANGED <<hasFile, setting, known, raced>> /\ starter[w].stage = "append"
    BY <1>2 DEF Identity!AppendToEnv
  <2>2. /\ env' \in Identity!Identities
        /\ env'.id = env.id \/ (env.id = None /\ env'.id = starter[w].has.id)
        /\ env'.token = env.token \/ (env.token = None /\ env'.token = starter[w].has.token)
    <3>1. env' = env \/ env' = Identity!Or(env, starter[w].has)
      BY <1>2 DEF Identity!AppendToEnv
    <3>2. starter[w].has \in Identity!Identities
      BY <1>1 DEF Starts
    <3> QED BY <1>1, <3>1, <3>2, OrFields
  <2>3. /\ starter' \in [Starters -> Starts]
        /\ \A v \in Starters : /\ starter'[v].own = starter[v].own
                                /\ starter'[v].has = starter[v].has
                                /\ \/ starter'[v].stage = starter[v].stage
                                   \/ v = w /\ starter'[v].stage = "up"
    <3> DEFINE r == [starter[w] EXCEPT !.stage = "up"]
    <3>1. starter' = [starter EXCEPT ![w] = r]
      BY <1>2 DEF Identity!AppendToEnv, Identity!Put
    <3>2. r \in Starts /\ r.own = starter[w].own /\ r.has = starter[w].has /\ r.stage = "up"
      BY <1>1 DEF Starts
    <3> HIDE DEF r
    <3> QED BY <1>1, <3>1, <3>2
  <2>4. Identity!TypeOK'
    BY <2>1, <2>2, <2>3 DEF IdInv, Identity!TypeOK, Starts
  <2>5. Copied'
    BY <2>2, <2>3 DEF IdInv, Copied
  <2>6. ASSUME ~raced' PROVE (Agree /\ Found /\ Recorded)'
    <3>1. Agree /\ Found /\ Recorded /\ Copied
      BY <2>1, <2>6 DEF IdInv
    <3>2. starter[w].has.id = ShownId(w) /\ starter[w].has.token = ShownToken(w)
          /\ starter[w].has.id # None /\ starter[w].has.token # None
      BY <2>1, <3>1 DEF Found
    <3>3. /\ env'.id = env.id \/ (env.id = None /\ env'.id = setting.id)
          /\ env'.token = env.token \/ (env.token = None /\ env'.token = setting.token)
      BY <2>2, <3>1, <3>2 DEF Copied, ShownId, ShownToken
    <3>4. Agree'
      BY <2>1, <2>3, <3>1, <3>3 DEF Agree
    <3>5. Found'
      BY <2>1, <2>3, <3>1, <3>2 DEF Found, ShownId, ShownToken
    <3>6. Recorded'
      BY <2>1, <3>1, <3>3 DEF Recorded
    <3> QED BY <3>4, <3>5, <3>6
  <2> QED BY <2>4, <2>5, <2>6 DEF IdInv
<1>3. CASE Identity!Register(w)
  <2>1. UNCHANGED <<hasFile, env, setting, starter, raced>> /\ starter[w].stage = "up"
        /\ known' = known \cup {Identity!Presents(w)}
    BY <1>3 DEF Identity!Register
  <2>2. Identity!Presents(w) \in Identity!Identities
        /\ Identity!Presents(w).id = ShownId(w) /\ Identity!Presents(w).token = ShownToken(w)
    BY Presented DEF IdInv
  <2>3. Identity!TypeOK'
    BY <2>1, <2>2 DEF IdInv, Identity!TypeOK
  <2>4. Copied'
    BY <2>1 DEF IdInv, Copied
  <2>5. ASSUME ~raced' PROVE (Agree /\ Found /\ Recorded)'
    <3>1. Agree /\ Found /\ Recorded /\ Copied
      BY <2>1, <2>5 DEF IdInv
    <3>2. Agree' /\ Found'
      BY <2>1, <3>1 DEF Agree, Found, ShownId, ShownToken
    <3>3. ShownId(w) # None /\ ShownToken(w) # None
      BY <2>1, <3>1 DEF Found
    <3>4. /\ ShownId(w) = IF setting.id # None THEN setting.id ELSE env.id
          /\ ShownToken(w) = IF setting.token # None THEN setting.token ELSE env.token
      BY <3>1, <3>3 DEF Agree, Copied, ShownId, ShownToken
    <3>5. Recorded'
      BY <2>1, <2>2, <3>1, <3>3, <3>4 DEF Recorded
    <3> QED BY <3>2, <3>5
  <2> QED BY <2>3, <2>4, <2>5 DEF IdInv
<1> QED BY <1>2, <1>3

\* Every step keeps what is said of the identity.
LEMMA IdNextInv == IdInv /\ [Identity!Next]_identityVars => IdInv'
<1> SUFFICES ASSUME IdInv, [Identity!Next]_identityVars PROVE IdInv'
  OBVIOUS
<1>1. CASE Identity!Next
  BY <1>1, IdQuiet, SaveStep, UpStep DEF Identity!Next
<1>2. CASE UNCHANGED identityVars
  BY <1>2 DEF identityVars, IdInv, Identity!TypeOK, Copied, Agree, Found, Recorded, ShownId,
              ShownToken
<1> QED BY <1>1, <1>2

----------------------------------------------------------------------------
(***************************************************************************)
(* Both together.                                                          *)
(***************************************************************************)
\* Each step of the installation is one of the license or of the identity and
\* leaves the other alone: it behaves as License and InstallIdentity say.
THEOREM Parts == AllSpec => Spec /\ Identity!Spec
<1>1. AllInit => Init /\ Identity!Init
  BY DEF AllInit
<1>2. [AllNext]_allVars => [Next]_vars /\ [Identity!Next]_Identity!vars
  BY DEF AllNext, Alone, allVars, identityVars, Identity!vars
<1> QED BY <1>1, <1>2, PTL DEF AllSpec, Spec, Identity!Spec

\* Both invariants hold in every state of an installation.
LEMMA Invariants == AllSpec => []Inv /\ []IdInv
<1>1. Spec => []Inv
  BY InitInv, NextInv, PTL DEF Spec
<1>2. IdInv /\ [Identity!Next]_Identity!vars => IdInv'
  BY IdNextInv DEF Identity!vars, identityVars
<1>3. Identity!Spec => []IdInv
  BY IdInit, <1>2, PTL DEF Identity!Spec
<1> QED BY Parts, <1>1, <1>3, PTL

\* The variables of the server, the settings, the check-ins and the starts have
\* their types (telemetry.py, license.py, license-server/app.py).
THEOREM Typed == AllSpec => [](TypeOK /\ Identity!TypeOK)
<1>1. Inv /\ IdInv => TypeOK /\ Identity!TypeOK
  BY DEF Inv, IdInv
<1> QED BY <1>1, Invariants, PTL

\* A license stored as revoked does not count again (telemetry.py 293-330,
\* license.py 83-118): a status that counts came with a newer license.
THEOREM Revocation == AllSpec => []HeardRevocation
<1>1. Inv => HeardRevocation
  BY DEF Inv, TypeOK, Superseded, HeardRevocation, Licensed, Numbers
<1> QED BY <1>1, Invariants, PTL

\* One trial for an install, and one for each time it was deleted
\* (license-server/app.py 205-222): while the row of its license is there, no
\* other trial is issued.
THEOREM Trial == AllSpec => []OneTrial
<1>1. Inv => OneTrial
  BY DEF Inv, TypeOK, Trials, OneTrial
<1> QED BY <1>1, Invariants, PTL

\* Every worker that runs presents the one identity the server knows, unless
\* two made one at once (telemetry.py 56-108).
THEOREM Identified == AllSpec => []OneIdentity
<1>1. IdInv => OneIdentity
  <2> SUFFICES ASSUME IdInv, ~raced, NEW w \in Starters, starter[w].stage = "up", NEW k \in known
               PROVE  k = Identity!Presents(w)
    BY DEF OneIdentity, Identity!OneIdentity
  <2>1. Agree /\ Found /\ Recorded /\ Copied
    BY DEF IdInv
  <2>2. /\ Identity!Presents(w) \in Identity!Identities
        /\ Identity!Presents(w).id = ShownId(w) /\ Identity!Presents(w).token = ShownToken(w)
    BY Presented DEF IdInv
  <2>3. k \in Identity!Identities
    BY DEF IdInv, Identity!TypeOK
  <2>4. ShownId(w) # None /\ ShownToken(w) # None
    BY <2>1 DEF Found
  <2>5. k.id = ShownId(w) /\ k.token = ShownToken(w)
    BY <2>1, <2>4 DEF Agree, Copied, Recorded, ShownId, ShownToken
  <2> QED BY <2>2, <2>3, <2>5 DEF Identity!Identities
<1> QED BY <1>1, Invariants, PTL
=============================================================================
