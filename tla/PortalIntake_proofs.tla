------------------------- MODULE PortalIntake_proofs -------------------------
(***************************************************************************)
(* Type correctness of PortalIntake, and its safety properties: for any    *)
(* number of intakes and overlapping requests.                             *)
(***************************************************************************)
EXTENDS PortalIntake, TLAPS

\* The only premise of the theorems: the sign for "no value" is no value.
Absent == None \notin Requests \cup Intakes

Serving(r) == req[r].stage \in {"loaded", "gathered"}

\* What a request has in hand, and what it leaves behind.
HandInv ==
    \A r \in Requests :
        /\ req[r].stage # "idle" => req[r].intake \in Intakes
        /\ caseFrom[r] # None => /\ req[r].stage = "committed"
                                 /\ req[r].op = "convert"
                                 /\ req[r].intake = caseFrom[r]
        /\ docOf[r] # None => /\ req[r].stage = "committed"
                              /\ req[r].op = "message"
                              /\ req[r].intake = docOf[r]
        /\ req[r].stage = "gathered" => req[r].op = "convert"
        /\ Serving(r) /\ req[r].op \in {"convert", "message", "accept"}
             => req[r].seen \notin Closed
        /\ req[r].stage # "idle" => req[r].page \notin Closed

\* An intake that became a case stays converted unless it was reopened.
StaysConverted ==
    \A r \in Requests :
        caseFrom[r] # None => \/ intake[caseFrom[r]] = "converted"
                              \/ Reopened(caseFrom[r])

\* A request on an intake that became a case knows, or was overtaken.
Noticed ==
    \A r, s \in Requests :
        /\ Serving(s)
        /\ caseFrom[r] # None
        /\ caseFrom[r] = req[s].intake
        => \/ req[s].seen = "converted"
           \/ <<s, r>> \in late
           \/ Reopened(req[s].intake)

\* A conversion takes the attachments there were, the later ones overtake it.
Takes ==
    \A r, d \in Requests :
        req[r].stage = "gathered" =>
        /\ d \in req[r].docs => docOf[d] = req[r].intake
        /\ docOf[d] = req[r].intake => d \in req[r].docs \/ <<r, d>> \in late

Inv == /\ TypeOK /\ HandInv /\ StaysConverted /\ Noticed /\ Takes
       /\ OneCase /\ AttachmentsFollow /\ CaseIsKnown

USE DEF Absent

\* At first there is no intake and no request.
LEMMA InitInv == ASSUME Absent PROVE Init => Inv
  BY DEF Init, Inv, TypeOK, Transactions, Idle, Statuses, Stages, Buttons, HandInv,
         StaysConverted, Noticed, Takes, Serving, OneCase, AttachmentsFollow,
         CaseIsKnown, Converts

\* The invariant says nothing of other variables.
LEMMA StutterInv == ASSUME Absent, Inv, UNCHANGED vars PROVE Inv'
  <1> USE DEF vars
  <1>1. UNCHANGED <<intake, caseOf, caseFrom, docOf, docCase, req, late>>
    BY DEF vars
  <1>2. \A i \in Intakes : Converts(i)' = Converts(i) /\ Reopened(i)' = Reopened(i)
    BY <1>1 DEF Converts, Reopened
  <1>3. TypeOK' /\ HandInv' /\ Takes' /\ CaseIsKnown'
    BY <1>1 DEF Inv, TypeOK, HandInv, Takes, Serving, CaseIsKnown
  <1>4. StaysConverted' /\ Noticed'
    BY <1>1 DEF Inv, StaysConverted, Noticed, Serving, Reopened, Converts
  <1>5. OneCase'
    BY <1>1, <1>2 DEF Inv, OneCase
  <1>6. AttachmentsFollow'
    BY <1>1, <1>2 DEF Inv, AttachmentsFollow, TypeOK
  <1>7. QED BY <1>3, <1>4, <1>5, <1>6 DEF Inv

----------------------------------------------------------------------------
\* A reopened intake was reopened for good: commits are never taken back.
Steps(r) == /\ req[r].stage # "committed"
            /\ \A s \in Requests : s # r => req'[s] = req[s]
            /\ late \subseteq late'
            /\ \A s \in Requests : caseFrom[s] # None => caseFrom'[s] = caseFrom[s]

\* An intake that was reopened remains so.
LEMMA ReopenedKept ==
    ASSUME Absent, NEW r \in Requests, Steps(r), HandInv, NEW i \in Intakes, Reopened(i)
    PROVE  Reopened(i)'
  <1>1. PICK s \in Requests :
           /\ req[s].stage = "committed" /\ req[s].intake = i
           /\ req[s].op # "convert"
           /\ \E c \in Converts(i) : <<s, c>> \in late \/ req[s].seen = "converted"
    BY DEF Reopened
  <1>2. PICK c \in Converts(i) : <<s, c>> \in late \/ req[s].seen = "converted"
    BY <1>1
  <1>3. req'[s] = req[s] /\ late \subseteq late'
    BY <1>1 DEF Steps
  <1>4. c \in Converts(i)'
    BY <1>2 DEF Converts, Steps
  <1>5. QED BY <1>1, <1>2, <1>3, <1>4 DEF Reopened

\* A request keeps its type when it moves on.
LEMMA TypedStage ==
    ASSUME TypeOK, NEW r \in Requests, NEW st \in Stages
    PROVE  [req EXCEPT ![r].stage = st] \in [Requests -> Transactions]
  <1>1. req \in [Requests -> Transactions] /\ req[r] \in Transactions
    BY DEF TypeOK
  <1>2. [req[r] EXCEPT !.stage = st] \in Transactions
    BY <1>1 DEF Transactions
  <1>3. QED BY <1>1, <1>2

\* Steps that only move a request leave the rows to the other invariants.
LEMMA MoveInv ==
    ASSUME Absent, Inv, NEW r \in Requests, Steps(r), TypeOK', HandInv', Noticed', Takes',
           UNCHANGED <<rows, late>>
    PROVE  Inv'
  <1>1. \A i \in Intakes : Reopened(i) => Reopened(i)'
    BY ReopenedKept DEF Inv
  <1>2. \A i \in Intakes : Converts(i)' = Converts(i)
    BY DEF Converts, rows
  <1>3. StaysConverted'
    BY <1>1 DEF Inv, StaysConverted, TypeOK, rows
  <1>4. OneCase'
    BY <1>1, <1>2 DEF Inv, OneCase
  <1>5. AttachmentsFollow'
    BY <1>1, <1>2 DEF Inv, AttachmentsFollow, TypeOK, rows
  <1>6. CaseIsKnown'
    BY DEF Inv, CaseIsKnown, rows
  <1>7. QED BY <1>3, <1>4, <1>5, <1>6 DEF Inv

\* A page shows the status as it is, and the row that is loaded later tells it
\* again.
LEMMA OpenPageInv ==
    ASSUME Absent, Inv, NEW r \in Requests, NEW op \in Buttons \cup {"message"},
           NEW i \in Intakes, OpenPage(r, op, i)
    PROVE  Inv'
  <1> USE DEF OpenPage
  <1>1. TypeOK /\ HandInv /\ Noticed /\ Takes
    BY DEF Inv
  <1>2. [Idle EXCEPT !.stage = "page", !.op = op, !.intake = i, !.page = intake[i]]
           \in Transactions
    BY <1>1 DEF TypeOK, Transactions, Idle, Statuses, Stages, Buttons
  <1>3. /\ req' = [req EXCEPT ![r] = [Idle EXCEPT !.stage = "page", !.op = op,
                                     !.intake = i, !.page = intake[i]]]
        /\ req \in [Requests -> Transactions]
    BY <1>1 DEF TypeOK
  <1>4. TypeOK'
    BY <1>1, <1>2, <1>3 DEF TypeOK, rows
  <1>5. Steps(r)
    BY <1>3 DEF Steps, rows
  <1>6. req'[r].stage = "page" /\ req'[r].intake = i /\ req'[r].page = intake[i]
    BY <1>3 DEF Idle
  <1>7. HandInv'
    BY <1>1, <1>3, <1>5, <1>6 DEF HandInv, Serving, Offered, Steps, rows
  <1>8. Noticed'
    BY <1>1, <1>5, <1>6, ReopenedKept DEF Noticed, Serving, Steps, rows, TypeOK
  <1>9. Takes'
    BY <1>1, <1>5, <1>6 DEF Takes, Steps, rows
  <1>10. QED BY <1>4, <1>5, <1>7, <1>8, <1>9, MoveInv

LEMMA LoadInv == ASSUME Absent, Inv, NEW r \in Requests, Load(r) PROVE Inv'
  <1> DEFINE st == IF Admits(req[r].op, intake[req[r].intake]) THEN "loaded" ELSE "ended"
  <1>0. /\ UNCHANGED <<intake, caseOf, caseFrom, docOf, docCase, late>>
        /\ st \in {"loaded", "ended"} /\ req[r].stage = "page"
        /\ st = "loaded" => Admits(req[r].op, intake[req[r].intake])
    BY DEF Load, rows
  <1>1. TypeOK /\ HandInv /\ Noticed /\ Takes /\ StaysConverted
    BY DEF Inv
  <1>2. req[r].stage = "page" /\ req[r].intake \in Intakes /\ st \in Stages
    BY <1>0, <1>1 DEF HandInv, Stages
  <1>3. req \in [Requests -> Transactions] /\ req[r] \in Transactions
        /\ intake[req[r].intake] \in Statuses
    BY <1>1, <1>2 DEF TypeOK
  <1>4. [req[r] EXCEPT !.seen = intake[req[r].intake], !.stage = st] \in Transactions
    BY <1>2, <1>3 DEF Transactions
  <1>5. req' = [req EXCEPT ![r] = [req[r] EXCEPT !.seen = intake[req[r].intake],
                                                 !.stage = st]]
    BY <1>3 DEF Load
  <1>6. TypeOK'
    BY <1>0, <1>1, <1>3, <1>4, <1>5 DEF TypeOK
  <1>7. Steps(r)
    BY <1>0, <1>2, <1>3, <1>5 DEF Steps
  <1>8. /\ req'[r].stage = st /\ req'[r].intake = req[r].intake
        /\ req'[r].op = req[r].op /\ req'[r].seen = intake[req[r].intake]
        /\ req'[r].page = req[r].page
    BY <1>3, <1>5 DEF Transactions
  <1> HIDE DEF st
  <1>9. HandInv'
    BY <1>0, <1>1, <1>2, <1>7, <1>8, SMTT(30) DEF HandInv, Serving, Steps, Admits, Closed
  <1>10. Noticed'
    BY <1>0, <1>1, <1>2, <1>7, <1>8, ReopenedKept
       DEF Noticed, StaysConverted, Serving, Steps, TypeOK
  <1>11. Takes'
    BY <1>0, <1>1, <1>7, <1>8 DEF Takes, Steps
  <1>12. QED BY <1>0, <1>6, <1>7, <1>9, <1>10, <1>11, MoveInv DEF rows

\* A request that is given up is never committed.
LEMMA AbandonInv == ASSUME Absent, Inv, NEW r \in Requests, Abandon(r) PROVE Inv'
  <1>1. TypeOK /\ HandInv /\ Noticed /\ Takes
    BY DEF Inv
  <1>2. TypeOK'
    BY <1>1, TypedStage DEF Abandon, TypeOK, rows, Stages
  <1>3. /\ Steps(r)
        /\ req'[r].stage = "ended" /\ req'[r].intake = req[r].intake
        /\ req'[r].page = req[r].page /\ req[r].intake \in Intakes
        /\ req[r].stage \in {"page", "loaded", "gathered"}
    BY <1>1 DEF Abandon, Steps, rows, TypeOK, Transactions, HandInv
  <1>4. HandInv'
    BY <1>1, <1>3 DEF Abandon, HandInv, Serving, Steps, rows
  <1>5. Noticed'
    BY <1>1, <1>3, ReopenedKept DEF Abandon, Noticed, Serving, Steps, rows, TypeOK
  <1>6. Takes'
    BY <1>1, <1>3 DEF Abandon, Takes, Steps, rows
  <1>7. QED BY <1>2, <1>3, <1>4, <1>5, <1>6, MoveInv DEF Abandon

\* The attachments gathered are all there are.
LEMMA GatherInv == ASSUME Absent, Inv, NEW r \in Requests, Gather(r) PROVE Inv'
  <1> DEFINE D == {d \in Requests : docOf[d] = req[r].intake}
  <1>0. /\ UNCHANGED <<intake, caseOf, caseFrom, docOf, docCase, late>>
        /\ req[r].stage = "loaded" /\ req[r].op = "convert"
    BY DEF Gather, rows
  <1>1. TypeOK /\ HandInv /\ Noticed /\ Takes
    BY DEF Inv
  <1>2. req \in [Requests -> Transactions] /\ req[r] \in Transactions
        /\ D \in SUBSET Requests /\ "gathered" \in Stages
    BY <1>1 DEF TypeOK, Stages
  <1>3. [req[r] EXCEPT !.stage = "gathered", !.docs = D] \in Transactions
    BY <1>2 DEF Transactions
  <1>4. req' = [req EXCEPT ![r] = [req[r] EXCEPT !.stage = "gathered", !.docs = D]]
    BY <1>2 DEF Gather
  <1>5. TypeOK'
    BY <1>0, <1>1, <1>2, <1>3, <1>4 DEF TypeOK
  <1>6. /\ Steps(r)
        /\ req'[r].stage = "gathered" /\ req'[r].intake = req[r].intake
        /\ req'[r].op = req[r].op /\ req'[r].seen = req[r].seen
        /\ req'[r].page = req[r].page /\ req'[r].docs = D
        /\ req[r].intake \in Intakes
    <2>1. Steps(r)
      BY <1>0, <1>2, <1>4 DEF Steps
    <2>2. req[r].intake \in Intakes
      BY <1>0, <1>1 DEF HandInv
    <2>3. QED BY <1>2, <1>4, <2>1, <2>2 DEF Transactions
  <1>7. HandInv'
    BY <1>0, <1>1, <1>6 DEF HandInv, Serving, Steps
  <1>8. Noticed'
    BY <1>0, <1>1, <1>6, ReopenedKept DEF Noticed, Serving, Steps, TypeOK
  <1>9. Takes'
    BY <1>0, <1>1, <1>6 DEF Takes, Steps
  <1>10. QED BY <1>5, <1>6, <1>7, <1>8, <1>9, MoveInv, <1>0 DEF rows

----------------------------------------------------------------------------
\* What every commit does to the requests it overtakes and leaves alone.
LEMMA CommitSteps ==
    ASSUME Absent, Inv, NEW r \in Requests, Serving(r), Commits(r)
    PROVE  /\ \A s \in Requests : s # r => req'[s] = req[s]
           /\ late \subseteq late' /\ req[r].stage # "committed"
           /\ late' \in SUBSET (Requests \X Requests)
           /\ req' \in [Requests -> Transactions]
           /\ req'[r].stage = "committed" /\ req'[r].intake = req[r].intake
           /\ req'[r].op = req[r].op /\ req'[r].seen = req[r].seen
           /\ req'[r].page = req[r].page /\ req[r].intake \in Intakes
           /\ caseFrom[r] = None /\ docOf[r] = None
           /\ \A s \in Requests : Serving(s) /\ req[s].intake = req[r].intake /\ s # r
                                  => <<s, r>> \in late'
  <1>1. TypeOK /\ HandInv
    BY DEF Inv
  <1>2. req' \in [Requests -> Transactions]
    BY <1>1, TypedStage DEF Commits, Stages
  <1>3. req \in [Requests -> Transactions] /\ req[r] \in Transactions
    BY <1>1 DEF TypeOK
  <1>4. /\ req'[r].stage = "committed" /\ req'[r].intake = req[r].intake
        /\ req'[r].op = req[r].op /\ req'[r].seen = req[r].seen
        /\ req'[r].page = req[r].page
        /\ \A s \in Requests : s # r => req'[s] = req[s]
    BY <1>3 DEF Commits, Transactions
  <1>5. /\ req[r].intake \in Intakes /\ req[r].stage # "committed"
        /\ caseFrom[r] = None /\ docOf[r] = None
    BY <1>1 DEF HandInv, Serving
  <1>6. \A s \in Overtaken(r) : <<s, r>> \in late' /\ s \in Requests
    BY DEF Commits, Overtaken
  <1>7. late' \in SUBSET (Requests \X Requests) /\ late \subseteq late'
    BY <1>1, <1>6 DEF Commits, TypeOK
  <1>8. ASSUME NEW s \in Requests, Serving(s), req[s].intake = req[r].intake, s # r
        PROVE  <<s, r>> \in late'
    BY <1>6, <1>8 DEF Overtaken, Serving
  <1>9. QED BY <1>2, <1>4, <1>5, <1>7, <1>8

\* A conversion marks whom it overtakes; a second case needs a request that
\* was overtaken or an intake that was reopened.
LEMMA ConvertInv == ASSUME Absent, Inv, NEW r \in Requests, Convert(r) PROVE Inv'
  <1> DEFINE i == req[r].intake
  <1>1. TypeOK /\ HandInv /\ StaysConverted /\ Noticed /\ Takes /\ OneCase
        /\ AttachmentsFollow /\ CaseIsKnown
    BY DEF Inv
  <1>2. Serving(r) /\ Commits(r) /\ req[r].stage = "gathered" /\ req[r].op = "convert"
        /\ req[r].seen \notin Closed
    BY <1>1 DEF Serving, Convert, HandInv
  <1>3. /\ intake' = [intake EXCEPT ![i] = "converted"]
        /\ caseOf' = [caseOf EXCEPT ![i] = r]
        /\ caseFrom' = [caseFrom EXCEPT ![r] = i]
        /\ docCase' = [d \in Requests |-> IF d \in req[r].docs THEN r ELSE docCase[d]]
        /\ docOf' = docOf
    BY DEF Convert
  <1>4. /\ \A s \in Requests : s # r => req'[s] = req[s]
        /\ late \subseteq late' /\ req[r].stage # "committed"
        /\ late' \in SUBSET (Requests \X Requests)
        /\ req' \in [Requests -> Transactions]
        /\ req'[r].stage = "committed" /\ req'[r].intake = i
        /\ req'[r].op = req[r].op /\ req'[r].seen = req[r].seen
        /\ req'[r].page = req[r].page /\ i \in Intakes
        /\ caseFrom[r] = None /\ docOf[r] = None
        /\ \A s \in Requests : Serving(s) /\ req[s].intake = i /\ s # r
                               => <<s, r>> \in late'
    BY <1>2, CommitSteps
  <1> HIDE DEF i
  <1>5. caseFrom'[r] = i /\ \A s \in Requests : s # r => caseFrom'[s] = caseFrom[s]
    BY <1>1, <1>3 DEF TypeOK
  <1>6. Steps(r)
    BY <1>4, <1>5 DEF Steps
  <1>7. \A j \in Intakes : Reopened(j) => Reopened(j)'
    BY <1>1, <1>6, ReopenedKept
  <1>8. \A j \in Intakes : /\ Converts(j) \subseteq Converts(j)'
                           /\ \A s \in Converts(j)' : s \in Converts(j) \/ (s = r /\ j = i)
    BY <1>4, <1>5, Absent DEF Converts
  <1>9. TypeOK'
    BY <1>1, <1>3, <1>4 DEF TypeOK, Statuses
  <1>10. HandInv'
    BY <1>1, <1>2, <1>3, <1>4, <1>5 DEF HandInv, Serving
  <1>11. StaysConverted'
    <2> SUFFICES ASSUME NEW s \in Requests, (caseFrom[s] # None)'
                 PROVE  \/ (intake[caseFrom[s]] = "converted")'
                        \/ Reopened(caseFrom[s])'
      BY DEF StaysConverted
    <2>1. caseFrom'[s] \in Intakes
      BY <1>9 DEF TypeOK
    <2>2. CASE caseFrom'[s] = i
      BY <1>1, <1>3, <1>4, <2>2 DEF TypeOK
    <2>3. CASE caseFrom'[s] # i
      <3>1. s # r /\ caseFrom'[s] = caseFrom[s]
        BY <1>5, <2>3
      <3>2. intake[caseFrom[s]] = "converted" \/ Reopened(caseFrom[s])
        BY <1>1, <2>1, <3>1 DEF StaysConverted
      <3>3. CASE intake[caseFrom[s]] = "converted"
        BY <1>1, <1>3, <2>1, <2>3, <3>1, <3>3 DEF TypeOK
      <3>4. CASE Reopened(caseFrom[s])
        BY <1>7, <2>1, <3>1, <3>4
      <3>5. QED BY <3>2, <3>3, <3>4
    <2>4. QED BY <2>2, <2>3
  <1>12. Noticed'
    <2> SUFFICES ASSUME NEW c \in Requests, NEW s \in Requests, Serving(s)',
                        (caseFrom[c] # None)', (caseFrom[c] = req[s].intake)'
                 PROVE  \/ (req[s].seen = "converted")' \/ <<s, c>> \in late'
                        \/ Reopened(req[s].intake)'
      BY DEF Noticed
    <2>1. s # r /\ req'[s] = req[s] /\ Serving(s)
      BY <1>4 DEF Serving
    <2>2. CASE c = r
      BY <1>4, <1>5, <2>1, <2>2
    <2>3. CASE c # r
      <3>1. caseFrom[c] # None /\ caseFrom[c] = req[s].intake /\ req[s].intake \in Intakes
        BY <1>1, <1>5, <2>1, <2>3 DEF TypeOK
      <3>2. QED BY <1>1, <1>4, <1>7, <2>1, <3>1 DEF Noticed
    <2>4. QED BY <2>2, <2>3
  <1>13. Takes'
    BY <1>1, <1>3, <1>4 DEF Takes
  <1>14. OneCase'
    <2> SUFFICES ASSUME NEW j \in Intakes, NEW x \in Converts(j)', NEW y \in Converts(j)',
                        x # y
                 PROVE  <<x, y>> \in late' \/ <<y, x>> \in late' \/ Reopened(j)'
      BY DEF OneCase
    <2>1. CASE x \in Converts(j) /\ y \in Converts(j)
      BY <1>1, <1>4, <1>7, <2>1 DEF OneCase
    <2>2. ASSUME NEW z \in Converts(i)
          PROVE  <<r, z>> \in late \/ Reopened(i)
      BY <1>1, <1>2, <1>4, <2>2 DEF Noticed, Converts, Closed, i
    <2>3. CASE x = r /\ j = i /\ y \in Converts(j)
      BY <1>4, <1>7, <2>2, <2>3
    <2>4. CASE y = r /\ j = i /\ x \in Converts(j)
      BY <1>4, <1>7, <2>2, <2>4
    <2>5. QED BY <1>8, <2>1, <2>3, <2>4
  <1>15. AttachmentsFollow'
    <2> SUFFICES ASSUME NEW d \in Requests, (docOf[d] # None)', NEW j \in Intakes,
                        docOf[d] = j
                 PROVE  \/ docCase'[d] \in Converts(j)'
                        \/ Converts(j)' = {}
                        \/ \E c \in Converts(j)' : <<d, c>> \in late' \/ <<c, d>> \in late'
                        \/ Reopened(j)'
      BY <1>1, <1>3 DEF AttachmentsFollow, TypeOK
    <2>1. CASE j = i
      <3>1. r \in Converts(j)'
        BY <1>5, <2>1 DEF Converts
      <3>2. d \in req[r].docs \/ <<r, d>> \in late
        BY <1>1, <1>2, <2>1 DEF Takes, i
      <3>3. CASE d \in req[r].docs
        BY <1>3, <3>1, <3>3
      <3>4. CASE <<r, d>> \in late
        BY <1>4, <3>1, <3>4
      <3>5. QED BY <3>2, <3>3, <3>4
    <2>2. CASE j # i
      <3>1. d \notin req[r].docs
        BY <1>1, <1>2, <2>2 DEF Takes, i
      <3>2. docCase'[d] = docCase[d]
        BY <1>3, <3>1
      <3>3. Converts(j)' = Converts(j)
        BY <1>8, <2>2
      <3>4. \/ docCase[d] \in Converts(j) \/ Converts(j) = {}
            \/ \E c \in Converts(j) : <<d, c>> \in late \/ <<c, d>> \in late
            \/ Reopened(j)
        BY <1>1, <1>3 DEF AttachmentsFollow
      <3>5. QED BY <1>4, <1>7, <3>2, <3>3, <3>4
    <2>3. QED BY <2>1, <2>2
  <1>16. CaseIsKnown'
    <2> SUFFICES ASSUME NEW j \in Intakes
                 PROVE  /\ intake'[j] = "converted" => caseOf'[j] # None
                        /\ caseOf'[j] # None => caseFrom'[caseOf'[j]] = j
      BY DEF CaseIsKnown
    <2>1. CASE j = i
      BY <1>1, <1>3, <1>4, <1>5, <2>1, Absent DEF TypeOK
    <2>2. CASE j # i
      <3>1. intake'[j] = intake[j] /\ caseOf'[j] = caseOf[j]
        BY <1>1, <1>3, <2>2 DEF TypeOK
      <3>2. ASSUME caseOf[j] # None PROVE caseFrom'[caseOf[j]] = j
        BY <1>1, <1>4, <1>5, <3>2, Absent DEF CaseIsKnown, TypeOK
      <3>3. QED BY <1>1, <3>1, <3>2 DEF CaseIsKnown
    <2>3. QED BY <2>1, <2>2
  <1>17. QED BY <1>1, <1>9, <1>10, <1>11, <1>12, <1>13, <1>14, <1>15, <1>16 DEF Inv

\* A decision or a message leaves the cases as they are; when it writes the
\* status of an intake that became a case, it reopens that intake.
LEMMA WriteReopens ==
    ASSUME Absent, Inv, NEW r \in Requests, Serving(r), Commits(r), req[r].op # "convert",
           \/ Written(r, req[r].intake) \/ Unwritten(r),
           UNCHANGED <<caseOf, caseFrom>>, req[r].op \in Buttons \cup {"message"}
    PROVE  /\ Steps(r) /\ intake' \in [Intakes -> Statuses]
           /\ \A j \in Intakes : /\ Converts(j)' = Converts(j)
                                 /\ intake'[j] = intake[j] \/ j = req[r].intake
                                 /\ Reopened(j) => Reopened(j)'
           /\ \A c \in Requests :
                 caseFrom[c] = req[r].intake =>
                    \/ intake'[req[r].intake] = intake[req[r].intake]
                    \/ Reopened(req[r].intake)
                    \/ \A j \in Intakes : j = req[r].intake => Reopened(j)'
           /\ StaysConverted' /\ Noticed' /\ OneCase' /\ CaseIsKnown'
  <1> DEFINE i == req[r].intake
  <1>1. TypeOK /\ HandInv /\ StaysConverted /\ Noticed /\ OneCase /\ CaseIsKnown
    BY DEF Inv
  <1>2. /\ \A s \in Requests : s # r => req'[s] = req[s]
        /\ late \subseteq late' /\ req[r].stage # "committed"
        /\ req'[r].stage = "committed" /\ req'[r].intake = i
        /\ req'[r].op = req[r].op /\ req'[r].seen = req[r].seen
        /\ i \in Intakes
    BY CommitSteps
  <1> HIDE DEF i
  <1>3. Steps(r)
    BY <1>2 DEF Steps
  <1>4. \A j \in Intakes : Converts(j)' = Converts(j) /\ (Reopened(j) => Reopened(j)')
    BY <1>1, <1>3, ReopenedKept DEF Converts
  <1>5. Target(req[r].op) \in Statuses
    BY DEF Target, Statuses, Buttons
  <1>6. intake' \in [Intakes -> Statuses]
        /\ \A j \in Intakes : intake'[j] = intake[j] \/ j = i
    BY <1>1, <1>5 DEF Written, Unwritten, TypeOK, i
  <1>7. ASSUME NEW c \in Requests, caseFrom[c] = i, NEW j \in Intakes, j = i
        PROVE  Reopened(j)'
    <2>1. c \in Converts(j)'
      BY <1>4, <1>7 DEF Converts
    <2>2. req[r].seen = "converted" \/ <<r, c>> \in late \/ Reopened(j)
      BY <1>1, <1>2, <1>7, Absent DEF Noticed, i
    <2>3. CASE Reopened(j)
      BY <1>4, <2>3
    <2>4. CASE req[r].seen = "converted" \/ <<r, c>> \in late
      BY <1>2, <1>7, <2>1, <2>4 DEF Reopened
    <2>5. QED BY <2>2, <2>3, <2>4
  <1>8. StaysConverted'
    <2> SUFFICES ASSUME NEW c \in Requests, NEW j \in Intakes, caseFrom[c] = j
                 PROVE  intake'[j] = "converted" \/ Reopened(j)'
      BY <1>1 DEF StaysConverted, TypeOK
    <2>1. CASE j = i
      BY <1>7, <2>1
    <2>2. CASE j # i
      BY <1>1, <1>4, <1>6, <2>2, Absent DEF StaysConverted
    <2>3. QED BY <2>1, <2>2
  <1>9. Noticed'
    <2> SUFFICES ASSUME NEW c \in Requests, NEW s \in Requests, Serving(s)',
                        (caseFrom[c] # None)', (caseFrom[c] = req[s].intake)'
                 PROVE  \/ (req[s].seen = "converted")' \/ <<s, c>> \in late'
                        \/ Reopened(req[s].intake)'
      BY DEF Noticed
    <2>1. s # r /\ req'[s] = req[s] /\ Serving(s)
      BY <1>2 DEF Serving
    <2>2. caseFrom[c] # None /\ caseFrom[c] = req[s].intake /\ req[s].intake \in Intakes
      BY <1>1, <2>1 DEF TypeOK
    <2>3. QED BY <1>1, <1>2, <1>4, <2>1, <2>2 DEF Noticed
  <1>10. OneCase'
    BY <1>1, <1>2, <1>4 DEF OneCase
  <1>11. CaseIsKnown'
    <2>1. \A j \in Intakes : intake'[j] = "converted" => intake[j] = "converted"
      BY <1>1, <1>2 DEF Written, Unwritten, Target, TypeOK
    <2>2. QED BY <1>1, <2>1 DEF CaseIsKnown
  <1>12. QED BY <1>2, <1>3, <1>4, <1>6, <1>7, <1>8, <1>9, <1>10, <1>11 DEF i

\* A decision on an older page may reopen; otherwise a converted intake stays
\* converted.
LEMMA DecideInv == ASSUME Absent, Inv, NEW r \in Requests, Decide(r) PROVE Inv'
  <1>1. TypeOK /\ HandInv /\ Takes /\ AttachmentsFollow
    BY DEF Inv
  <1>2. /\ Serving(r) /\ Commits(r) /\ req[r].op \in {"review", "accept", "reject"}
        /\ \/ Written(r, req[r].intake) \/ Unwritten(r)
        /\ UNCHANGED <<caseOf, caseFrom, docOf, docCase>>
    BY DEF Decide, Serving
  <1>3. /\ Steps(r) /\ intake' \in [Intakes -> Statuses]
        /\ \A j \in Intakes : Converts(j)' = Converts(j) /\ (Reopened(j) => Reopened(j)')
        /\ StaysConverted' /\ Noticed' /\ OneCase' /\ CaseIsKnown'
    BY <1>2, WriteReopens DEF Buttons
  <1>4. /\ \A s \in Requests : s # r => req'[s] = req[s]
        /\ late \subseteq late' /\ late' \in SUBSET (Requests \X Requests)
        /\ req' \in [Requests -> Transactions] /\ req'[r].stage = "committed"
        /\ req'[r].intake = req[r].intake /\ req[r].intake \in Intakes
        /\ req'[r].op = req[r].op /\ req'[r].page = req[r].page
        /\ caseFrom[r] = None /\ docOf[r] = None
    BY <1>2, CommitSteps
  <1>5. TypeOK'
    BY <1>1, <1>2, <1>3, <1>4 DEF TypeOK
  <1>6. HandInv'
    BY <1>1, <1>2, <1>4 DEF HandInv, Serving
  <1>7. Takes'
    BY <1>1, <1>2, <1>4 DEF Takes
  <1>8. AttachmentsFollow'
    BY <1>1, <1>2, <1>3, <1>4 DEF AttachmentsFollow, TypeOK
  <1>9. QED BY <1>3, <1>5, <1>6, <1>7, <1>8 DEF Inv

\* A message sent after the attachments were gathered marks the conversion.
LEMMA AddMessageInv ==
    ASSUME Absent, Inv, NEW r \in Requests, NEW f \in BOOLEAN, AddMessage(r, f)
    PROVE  Inv'
  <1> DEFINE i == req[r].intake
  <1>1. TypeOK /\ HandInv /\ Takes /\ AttachmentsFollow /\ Noticed
    BY DEF Inv
  <1>2. /\ Serving(r) /\ Commits(r) /\ req[r].op = "message"
        /\ \/ Written(r, i) \/ Unwritten(r)
        /\ UNCHANGED <<caseOf, caseFrom, docCase>>
        /\ docOf' = IF f THEN [docOf EXCEPT ![r] = i] ELSE docOf
        /\ req[r].seen # "converted"
    BY <1>1 DEF AddMessage, Serving, HandInv, Closed
  <1>3. /\ Steps(r) /\ intake' \in [Intakes -> Statuses]
        /\ \A j \in Intakes : Converts(j)' = Converts(j) /\ (Reopened(j) => Reopened(j)')
        /\ StaysConverted' /\ Noticed' /\ OneCase' /\ CaseIsKnown'
    BY <1>2, WriteReopens
  <1>4. /\ \A s \in Requests : s # r => req'[s] = req[s]
        /\ late \subseteq late' /\ late' \in SUBSET (Requests \X Requests)
        /\ req' \in [Requests -> Transactions] /\ req'[r].stage = "committed"
        /\ req'[r].intake = i /\ i \in Intakes
        /\ req'[r].op = req[r].op /\ req'[r].page = req[r].page
        /\ caseFrom[r] = None /\ docOf[r] = None
        /\ \A s \in Requests : Serving(s) /\ req[s].intake = i /\ s # r
                               => <<s, r>> \in late'
    BY <1>2, CommitSteps
  <1> HIDE DEF i
  <1>5. /\ docOf' \in [Requests -> Intakes \cup {None}]
        /\ \A d \in Requests : docOf'[d] = docOf[d] \/ (d = r /\ docOf'[d] = i)
    BY <1>1, <1>2, <1>4 DEF TypeOK
  <1>6. TypeOK'
    BY <1>1, <1>2, <1>3, <1>4, <1>5 DEF TypeOK
  <1>7. HandInv'
    BY <1>1, <1>2, <1>4, <1>5 DEF HandInv, Serving
  <1>8. Takes'
    BY <1>1, <1>4, <1>5, Absent DEF Takes, Serving, HandInv
  <1>9. AttachmentsFollow'
    <2> SUFFICES ASSUME NEW d \in Requests, NEW j \in Intakes, docOf'[d] = j
                 PROVE  \/ docCase[d] \in Converts(j) \/ Converts(j) = {}
                        \/ \E c \in Converts(j) : <<d, c>> \in late' \/ <<c, d>> \in late'
                        \/ Reopened(j)'
      BY <1>2, <1>3, <1>5 DEF AttachmentsFollow
    <2>1. CASE docOf[d] = j
      <3>1. \/ docCase[d] \in Converts(j) \/ Converts(j) = {}
            \/ \E c \in Converts(j) : <<d, c>> \in late \/ <<c, d>> \in late
            \/ Reopened(j)
        BY <1>1, <2>1, Absent DEF AttachmentsFollow
      <3>2. QED BY <1>3, <1>4, <3>1
    <2>2. CASE d = r /\ j = i
      <3>1. ASSUME NEW c \in Converts(j)
            PROVE  <<r, c>> \in late \/ Reopened(j)
        BY <1>1, <1>2, <1>4, <2>2, <3>1, Absent DEF Noticed, Converts, i
      <3>2. QED BY <1>3, <1>4, <2>2, <3>1
    <2>3. QED BY <1>5, <2>1, <2>2
  <1>10. QED BY <1>3, <1>6, <1>7, <1>8, <1>9 DEF Inv

\* A new intake is open and has no case.
LEMMA SubmitInv == ASSUME Absent, Inv, NEW i \in Intakes, Submit(i) PROVE Inv'
  <1>1. /\ intake[i] = "none" /\ intake' = [intake EXCEPT ![i] = "submitted"]
        /\ UNCHANGED <<caseOf, caseFrom, docOf, docCase, req, late>>
    BY DEF Submit
  <1>2. \A j \in Intakes : Converts(j)' = Converts(j) /\ Reopened(j)' = Reopened(j)
    BY <1>1 DEF Converts, Reopened
  <1>3. TypeOK' /\ HandInv' /\ Takes' /\ CaseIsKnown'
    BY <1>1 DEF Inv, TypeOK, HandInv, Takes, Serving, CaseIsKnown, Statuses
  <1>4. StaysConverted'
    BY <1>1, <1>2 DEF Inv, TypeOK, StaysConverted
  <1>5. Noticed'
    BY <1>1 DEF Inv, Noticed, Serving, Reopened, Converts
  <1>6. OneCase' /\ AttachmentsFollow'
    BY <1>1, <1>2 DEF Inv, OneCase, AttachmentsFollow, TypeOK
  <1>7. QED BY <1>3, <1>4, <1>5, <1>6 DEF Inv

\* Every step keeps the invariant.
LEMMA NextInv == ASSUME Absent PROVE Inv /\ [Next]_vars => Inv'
  <1> SUFFICES ASSUME Inv, [Next]_vars PROVE Inv'
    OBVIOUS
  <1>1. CASE UNCHANGED vars
    BY <1>1, StutterInv
  <1>2. ASSUME NEW i \in Intakes, Submit(i) PROVE Inv'
    BY <1>2, SubmitInv
  <1>3. ASSUME NEW r \in Requests, NEW op \in Buttons \cup {"message"},
               NEW i \in Intakes, OpenPage(r, op, i)
        PROVE  Inv'
    BY <1>3, OpenPageInv
  <1>4. ASSUME NEW r \in Requests, Load(r) \/ Abandon(r) PROVE Inv'
    BY <1>4, LoadInv, AbandonInv
  <1>5. ASSUME NEW r \in Requests, Continue(r) PROVE Inv'
    BY <1>5, GatherInv, ConvertInv, DecideInv, AddMessageInv DEF Continue
  <1>6. QED BY <1>1, <1>2, <1>3, <1>4, <1>5 DEF Next

\* The inductive invariant holds in every state.
LEMMA Invariance == ASSUME Absent PROVE Spec => []Inv
  <1>1. Inv /\ [Next]_vars => Inv'
    BY NextInv
  <1>2. QED BY InitInv, <1>1, PTL DEF Spec

\* Every intake, case, attachment and request keeps its type.
THEOREM Typing == ASSUME Absent PROVE Spec => []TypeOK
  BY Invariance, PTL DEF Inv

\* An intake becomes one case unless conversions overlap or it is reopened.
THEOREM OneCaseEach == ASSUME Absent PROVE Spec => []OneCase
  BY Invariance, PTL DEF Inv

\* Attachments go to a case of their intake, with the same exceptions.
THEOREM Attachments == ASSUME Absent PROVE Spec => []AttachmentsFollow
  BY Invariance, PTL DEF Inv

\* The case the customer is told of exists and was made of the intake.
THEOREM KnownCase == ASSUME Absent PROVE Spec => []CaseIsKnown
  BY Invariance, PTL DEF Inv

\* A closed intake opens again only by a request older than its closing.
THEOREM Reopening == ASSUME Absent PROVE Spec => ClosedReopensOnlyStale
  <1> DEFINE A == \A i \in Intakes :
                     intake[i] \in Closed /\ intake'[i] \notin Closed =>
                     \E r \in Requests :
                        /\ req'[r].stage = "committed" /\ req[r].stage = "loaded"
                        /\ req[r].intake = i
                        /\ req[r].page \notin Closed
                        /\ (req[r].op = "review" \/ req[r].seen \notin Closed)
  <1>1. Inv /\ [Next]_vars => [A]_vars
    <2> SUFFICES ASSUME Inv, Next, NEW i \in Intakes, intake[i] \in Closed,
                        intake'[i] \notin Closed
                 PROVE  \E r \in Requests :
                           /\ req'[r].stage = "committed" /\ req[r].stage = "loaded"
                           /\ req[r].intake = i
                           /\ req[r].page \notin Closed
                           /\ (req[r].op = "review" \/ req[r].seen \notin Closed)
      OBVIOUS
    <2>1. TypeOK /\ HandInv
      BY DEF Inv
    <2>2. ASSUME NEW j \in Intakes, Submit(j) PROVE FALSE
      BY <2>1, <2>2 DEF Submit, TypeOK, Closed
    <2>3. ASSUME NEW r \in Requests, Convert(r) PROVE FALSE
      BY <2>1, <2>3 DEF Convert, TypeOK, Closed
    <2>4. PICK r \in Requests : Decide(r) \/ AddMessage(r, TRUE) \/ AddMessage(r, FALSE)
      BY <2>2, <2>3 DEF Next, Continue, OpenPage, Load, Abandon, Gather, rows
    <2>5. /\ Commits(r) /\ req[r].stage = "loaded"
          /\ req[r].op \in {"review", "accept", "reject", "message"}
          /\ Written(r, req[r].intake) \/ Unwritten(r)
      BY <2>4 DEF Decide, AddMessage
    <2>6. Written(r, req[r].intake) /\ req[r].intake = i /\ req[r].op # "reject"
      BY <2>1, <2>5 DEF Written, Unwritten, TypeOK, Target, Closed
    <2>7. req'[r].stage = "committed" /\ req[r].page \notin Closed
      BY <2>1, <2>5 DEF Commits, TypeOK, HandInv
    <2>8. req[r].op = "review" \/ req[r].seen \notin Closed
      BY <2>1, <2>5, <2>6 DEF HandInv, Serving
    <2>9. QED BY <2>5, <2>6, <2>7, <2>8
  <1>2. QED BY Invariance, <1>1, PTL DEF Spec, ClosedReopensOnlyStale
=============================================================================
