----------------------- MODULE ResearchActions_proofs -----------------------
(***************************************************************************)
(* Type correctness of ResearchActions, and what holds for any number of   *)
(* actions, processes, threads and faults: an action is invoiced once, an  *)
(* ended one is not put back to work, and a cancellation that reached the  *)
(* thread sticks - each unless two requests started the action.            *)
(***************************************************************************)
EXTENDS ResearchActions, TLAPS

\* The actions a request still has to start.
Queue(p) == IF web[p].op \in {"launch", "register"} THEN web[p].acts ELSE {}

\* A thread that is neither unused nor done has an action and a process; so
\* has a request, where its step names one.
ThreadInv ==
    \A t \in Threads :
        IF pc[t] \in {"unused", "done"}
          THEN act[t] = None /\ proc[t] = None
          ELSE act[t] \in Actions /\ proc[t] \in Procs

WebInv ==
    \A p \in Procs :
        /\ web[p].op \in {"reset", "register", "delete", "cancel", "cancelling"}
             => web[p].act \in Actions

\* No request has read action a as running, and none is about to register it.
Unread(a) == \A p \in Procs : web[p].act = a => web[p].op \notin {"reset", "cancel", "cancelling"}
Unregistered(a) == \A p \in Procs : web[p].act = a => web[p].op # "register"

NoResult(a) == invoiced[a] = 0 /\ links[a] = {}

NoThread(a) == \A t \in Threads : act[t] # a

\* What holds of an action that was not started twice.
StartedOnce(a) ==
    /\ \A t, u \in Threads : act[t] = a /\ act[u] = a => t = u
    /\ \A p, q \in Procs : a \in Queue(p) /\ a \in Queue(q) => p = q
    /\ \A p \in Procs : a \in Queue(p) =>
         /\ status[a] \in {"pending", "deleted"}
         /\ NoThread(a) /\ NoResult(a) /\ Unread(a) /\ Unregistered(a) /\ a \notin heard
    /\ \A t \in Threads : act[t] = a /\ pc[t] = "born" =>
         /\ status[a] \in {"pending", "deleted"}
         /\ NoResult(a) /\ Unread(a) /\ a \notin heard
    /\ \A t \in Threads : act[t] = a /\ pc[t] \in {"handler", "merging"} =>
         /\ status[a] \in {"running", "cancelled", "error", "deleted"}
         /\ NoResult(a)
    /\ status[a] \in {"none", "proposal"} =>
         /\ NoThread(a) /\ NoResult(a) /\ Unread(a) /\ Unregistered(a) /\ a \notin heard
         /\ \A p \in Procs : a \notin Queue(p)
    /\ \A p \in Procs : web[p].act = a /\ web[p].op = "register" =>
         /\ a \notin heard
         /\ \A t \in Threads : act[t] = a => proc[t] = p
    /\ \A p \in Procs : web[p].act = a /\ web[p].op \in {"reset", "cancel", "cancelling"} =>
         status[a] # "pending"
    /\ invoiced[a] <= 1

\* What holds of it once a cancellation has reached its thread.
Heard(a) ==
    /\ status[a] \in {"running", "cancelled", "error", "deleted"}
    /\ NoResult(a)
    /\ \A t \in Threads :
         act[t] = a /\ pc[t] \in Working
           => pc[t] = "handler" /\ flag[proc[t]][a] = "cancel"

OnceInv ==
    /\ \A a \in Actions \ raced : StartedOnce(a)
    /\ \A a \in heard \ raced : Heard(a)

Typed == TypeOK /\ ThreadInv /\ WebInv

IInv == Typed /\ OnceInv

\* The inductive invariant holds initially.
LEMMA InitIInv == Init => IInv
  <1> SUFFICES ASSUME Init PROVE IInv
    OBVIOUS
  <1> USE ActionsAssumption DEF Init
  <1>1. TypeOK
    BY DEF TypeOK, Status, ThreadPoint, Request, Idle, FindingIds
  <1>2. ThreadInv /\ WebInv
    BY DEF ThreadInv, WebInv, Idle
  <1>3. OnceInv
    BY DEF OnceInv, StartedOnce, Queue, Idle, NoThread, NoResult, Unread, Unregistered
  <1>4. QED
    BY <1>1, <1>2, <1>3 DEF IInv, Typed

\* Every step keeps the types and the shape of threads and requests.
LEMMA NextTyped == Typed /\ [Next]_vars => Typed'
  <1> SUFFICES ASSUME Typed, [Next]_vars PROVE Typed'
    OBVIOUS
  <1> USE ActionsAssumption DEF Typed, TypeOK, ThreadInv, WebInv, Status, ThreadPoint,
        Request, FindingIds, Active,
        rowVars, findingVars, threadVars, history, Serve, Finish, Idle, SetStatus, Step, Forget, Write
  <1>1. ASSUME NEW t \in Threads, Begin(t) PROVE Typed'
    <2>1. act[t] \in Actions
      BY <1>1 DEF Begin
    <2>2. CASE status' = [status EXCEPT ![act[t]] = "running"] /\ Step(t, "handler")
      BY <1>1, <2>1, <2>2, Zenon DEF Begin
    <2>3. CASE Write(act[t], "error") /\ Step(t, "ending")
      BY <1>1, <2>1, <2>3, Zenon DEF Begin
    <2>4. QED
      BY <1>1, <2>2, <2>3, Zenon DEF Begin
  <1>2. ASSUME NEW t \in Threads, PaidRefused(t) PROVE Typed'
    BY <1>2 DEF PaidRefused
  <1>3. ASSUME NEW t \in Threads, CheckFlag(t) PROVE Typed'
    <2>1. act[t] \in Actions
      BY <1>3 DEF CheckFlag
    <2>2. CASE Write(act[t], "cancelled") /\ Step(t, "ending") /\ known' = known
      BY <1>3, <2>1, <2>2 DEF CheckFlag
    <2>3. CASE /\ known' = [known EXCEPT ![t] = {f \in FindingIds : finding[f] = "live"}]
               /\ Step(t, "merging")
               /\ status' = status
      BY <1>3, <2>1, <2>3 DEF CheckFlag
    <2>4. QED
      BY <1>3, <2>2, <2>3, Zenon DEF CheckFlag
  <1>4. ASSUME NEW t \in Threads, Complete(t) PROVE Typed'
    <2>1. act[t] \in Actions
      BY <1>4 DEF Complete
    <2>2. PICK R \in SUBSET Results, seen \in SUBSET known[t] :
            /\ links' = [links EXCEPT ![act[t]] = @ \cup seen \cup Made(t, R)]
            /\ finding' = [f \in FindingIds |-> IF f \in Made(t, R) THEN "live" ELSE finding[f]]
      BY <1>4 DEF Complete
    <2>3. Made(t, R) \subseteq FindingIds
      BY DEF Made
    <2>4. links' \in [Actions -> SUBSET FindingIds]
      BY <2>1, <2>2, <2>3
    <2>5. finding' \in [FindingIds -> {"none", "live", "archived", "deleted"}]
      BY <2>2
    <2>6. invoiced' \in [Actions -> Nat]
      BY <1>4, <2>1 DEF Complete
    <2>7. QED
      BY <1>4, <2>1, <2>4, <2>5, <2>6 DEF Complete
  <1>5. ASSUME NEW t \in Threads, RunFails(t) PROVE Typed'
    BY <1>5 DEF RunFails
  <1>6. ASSUME NEW t \in Threads, End(t) PROVE Typed'
    BY <1>6 DEF End
  <1>7. ASSUME NEW p \in Procs, ResetStale(p) PROVE Typed'
    <2>1. CASE Finish(p) /\ status' = status
      BY <1>7, <2>1 DEF ResetStale
    <2>2. CASE Serve(p, "insert", web[p].kind, {}, None) /\ SetStatus(web[p].act, "error")
      BY <1>7, <2>2 DEF ResetStale
    <2>3. QED
      BY <1>7, <2>1, <2>2, Zenon DEF ResetStale
  <1>8. ASSUME NEW p \in Procs, InsertFails(p) PROVE Typed'
    BY <1>8 DEF InsertFails
  <1>9. ASSUME NEW p \in Procs, StartCommit(p) PROVE Typed'
    <2>1. CASE /\ status' = [a \in Actions |-> IF a \in web[p].acts THEN "pending" ELSE status[a]]
               /\ raced' = raced \cup {a \in web[p].acts : status[a] # "proposal"}
               /\ Serve(p, "launch", None, web[p].acts, None)
      BY <1>9, <2>1 DEF StartCommit
    <2>2. CASE Finish(p) /\ UNCHANGED <<status, raced>>
      BY <1>9, <2>2 DEF StartCommit
    <2>3. QED
      BY <1>9, <2>1, <2>2, Zenon DEF StartCommit
  <1>10. ASSUME NEW p \in Procs, Register(p) PROVE Typed'
    <2>1. flag' \in [Procs -> [Actions -> {"absent", "clear", "cancel"}]]
      BY <1>10 DEF Register
    <2>2. CASE Finish(p)
      BY <1>10, <2>1, <2>2 DEF Register
    <2>3. CASE Serve(p, "launch", web[p].kind, web[p].acts, None)
      BY <1>10, <2>1, <2>3 DEF Register
    <2>4. QED
      BY <1>10, <2>2, <2>3, Zenon DEF Register
  <1>11. ASSUME NEW p \in Procs, DeleteCommit(p) PROVE Typed'
    BY <1>11 DEF DeleteCommit
  <1>12. ASSUME NEW p \in Procs, CancelFlag(p) PROVE Typed'
    <2>1. web' = [web EXCEPT ![p] = [op |-> "cancelling", kind |-> None, acts |-> {}, act |-> web[p].act]]
          /\ web[p].act \in Actions
      BY <1>12 DEF CancelFlag
    <2>2. CASE UNCHANGED <<flag, heard>>
      BY <1>12, <2>1, <2>2 DEF CancelFlag
    <2>3. CASE /\ flag' = [flag EXCEPT ![p][web[p].act] = "cancel"]
               /\ heard' = heard \cup {b \in {web[p].act} : \E t \in Threads :
                              act[t] = b /\ proc[t] = p /\ pc[t] = "handler"}
      BY <1>12, <2>1, <2>3 DEF CancelFlag
    <2>4. QED
      BY <1>12, <2>2, <2>3, Zenon DEF CancelFlag
  <1>13. ASSUME NEW p \in Procs, CancelCommit(p) PROVE Typed'
    BY <1>13 DEF CancelCommit
  <1>14. ASSUME NEW p \in Procs, LaunchFails(p) PROVE Typed'
    BY <1>14 DEF LaunchFails
  <1>15. ASSUME NEW p \in Procs, ProcessKilled(p) PROVE Typed'
    BY <1>15 DEF ProcessKilled
  <1>16. ASSUME NEW p \in Procs, NEW a \in Actions, InsertPending(p, a) PROVE Typed'
    BY <1>16 DEF InsertPending
  <1>17. ASSUME NEW p \in Procs, NEW a \in Actions, Propose(p, a) PROVE Typed'
    BY <1>17 DEF Propose
  <1>18. ASSUME NEW p \in Procs, NEW a \in Actions, DeleteRead(p, a) PROVE Typed'
    BY <1>18 DEF DeleteRead
  <1>19. ASSUME NEW p \in Procs, NEW a \in Actions, CancelRead(p, a) PROVE Typed'
    BY <1>19 DEF CancelRead
  <1>20. ASSUME NEW p \in Procs, NEW a \in Actions, Archive(p, a) PROVE Typed'
    BY <1>20 DEF Archive
  <1>21. ASSUME NEW p \in Procs, NEW a \in Actions, Restore(p, a) PROVE Typed'
    BY <1>21 DEF Restore
  <1>22. ASSUME NEW p \in Procs, NEW k \in Kinds, AskRun(p, k) PROVE Typed'
    BY <1>22 DEF AskRun
  <1>23. ASSUME NEW p \in Procs, NEW k \in Kinds, NEW b \in Actions, AskRunOverStale(p, k, b) PROVE Typed'
    BY <1>23 DEF AskRunOverStale
  <1>24. ASSUME NEW p \in Procs, NEW S \in SUBSET Actions, StartRead(p, S) PROVE Typed'
    BY <1>24 DEF StartRead
  <1>25. ASSUME NEW p \in Procs, NEW a \in Actions, NEW t \in Threads, Launch(p, a, t) PROVE Typed'
    BY <1>25 DEF Launch
  <1>26. ASSUME NEW f \in FindingIds, DiscardFinding(f) PROVE Typed'
    BY <1>26 DEF DiscardFinding
  <1>27. CASE UNCHANGED vars
    BY <1>27 DEF vars, rowVars, findingVars, threadVars, history
  <1>28. ASSUME NEW t \in Threads, RunBreaks(t) PROVE Typed'
    BY <1>28 DEF RunBreaks, Working
  <1>29. QED
    BY <1>1, <1>2, <1>3, <1>4, <1>5, <1>6, <1>7, <1>8, <1>9, <1>10, <1>11, <1>12,
       <1>13, <1>14, <1>15, <1>16, <1>17, <1>18, <1>19, <1>20, <1>21, <1>22, <1>23,
       <1>24, <1>25, <1>26, <1>27, <1>28
       DEF Next, ThreadStep, ServeStep, Arrival, Fault

-----------------------------------------------------------------------------
\* Every step keeps what holds of an action that was not started twice: the
\* thread, the request and the row that belong to it agree, and a raised flag
\* is met only by the thread that will read it.
LEMMA NextOnce == Typed /\ OnceInv /\ [Next]_vars => OnceInv'
  <1> SUFFICES ASSUME Typed, OnceInv, [Next]_vars PROVE OnceInv'
    OBVIOUS
  <1> USE ActionsAssumption DEF Typed, TypeOK, ThreadInv, WebInv, Status, ThreadPoint,
        Request, FindingIds, Active,
        rowVars, findingVars, threadVars, history, Serve, Finish, Idle, SetStatus, Step, Forget, Write,
        OnceInv, StartedOnce, Heard, NoResult, NoThread, Unread, Unregistered, Queue, Working
  <1>1. ASSUME NEW t \in Threads, Begin(t) PROVE OnceInv'
    BY <1>1 DEF Begin
  <1>2. ASSUME NEW t \in Threads, PaidRefused(t) PROVE OnceInv'
    BY <1>2 DEF PaidRefused
  <1>3. ASSUME NEW t \in Threads, CheckFlag(t) PROVE OnceInv'
    <2>1. act[t] \in Actions
      BY <1>3 DEF CheckFlag
    <2>2. CASE Write(act[t], "cancelled") /\ Step(t, "ending") /\ known' = known
      BY <1>3, <2>1, <2>2 DEF CheckFlag
    <2>3. CASE /\ known' = [known EXCEPT ![t] = {f \in FindingIds : finding[f] = "live"}]
               /\ Step(t, "merging")
               /\ status' = status
      BY <1>3, <2>1, <2>3 DEF CheckFlag
    <2>4. QED
      BY <1>3, <2>2, <2>3, Zenon DEF CheckFlag
  <1>4. ASSUME NEW t \in Threads, Complete(t) PROVE OnceInv'
    BY <1>4 DEF Complete
  <1>5. ASSUME NEW t \in Threads, RunFails(t) PROVE OnceInv'
    BY <1>5 DEF RunFails
  <1>6. ASSUME NEW t \in Threads, End(t) PROVE OnceInv'
    BY <1>6 DEF End
  <1>7. ASSUME NEW p \in Procs, ResetStale(p) PROVE OnceInv'
    <2>1. CASE Finish(p) /\ status' = status
      BY <1>7, <2>1 DEF ResetStale
    <2>2. CASE Serve(p, "insert", web[p].kind, {}, None) /\ SetStatus(web[p].act, "error")
      BY <1>7, <2>2 DEF ResetStale
    <2>3. QED
      BY <1>7, <2>1, <2>2, Zenon DEF ResetStale
  <1>8. ASSUME NEW p \in Procs, InsertFails(p) PROVE OnceInv'
    BY <1>8 DEF InsertFails
  <1>9. ASSUME NEW p \in Procs, StartCommit(p) PROVE OnceInv'
    <2>1. CASE /\ status' = [a \in Actions |-> IF a \in web[p].acts THEN "pending" ELSE status[a]]
               /\ raced' = raced \cup {a \in web[p].acts : status[a] # "proposal"}
               /\ Serve(p, "launch", None, web[p].acts, None)
      BY <1>9, <2>1 DEF StartCommit
    <2>2. CASE Finish(p) /\ UNCHANGED <<status, raced>>
      BY <1>9, <2>2 DEF StartCommit
    <2>3. QED
      BY <1>9, <2>1, <2>2, Zenon DEF StartCommit
  <1>10. ASSUME NEW p \in Procs, Register(p) PROVE OnceInv'
    <2>1. flag' \in [Procs -> [Actions -> {"absent", "clear", "cancel"}]]
      BY <1>10 DEF Register
    <2>2. CASE Finish(p)
      BY <1>10, <2>1, <2>2 DEF Register
    <2>3. CASE Serve(p, "launch", web[p].kind, web[p].acts, None)
      BY <1>10, <2>1, <2>3 DEF Register
    <2>4. QED
      BY <1>10, <2>2, <2>3, Zenon DEF Register
  <1>11. ASSUME NEW p \in Procs, DeleteCommit(p) PROVE OnceInv'
    BY <1>11 DEF DeleteCommit
  <1>12. ASSUME NEW p \in Procs, CancelFlag(p) PROVE OnceInv'
    <2>1. web' = [web EXCEPT ![p] = [op |-> "cancelling", kind |-> None, acts |-> {}, act |-> web[p].act]]
          /\ web[p].act \in Actions
      BY <1>12 DEF CancelFlag
    <2>2. CASE UNCHANGED <<flag, heard>>
      BY <1>12, <2>1, <2>2 DEF CancelFlag
    <2>3. CASE /\ flag' = [flag EXCEPT ![p][web[p].act] = "cancel"]
               /\ heard' = heard \cup {b \in {web[p].act} : \E t \in Threads :
                              act[t] = b /\ proc[t] = p /\ pc[t] = "handler"}
      BY <1>12, <2>1, <2>3 DEF CancelFlag
    <2>4. QED
      BY <1>12, <2>2, <2>3, Zenon DEF CancelFlag
  <1>13. ASSUME NEW p \in Procs, CancelCommit(p) PROVE OnceInv'
    BY <1>13 DEF CancelCommit
  <1>14. ASSUME NEW p \in Procs, LaunchFails(p) PROVE OnceInv'
    BY <1>14 DEF LaunchFails
  <1>15. ASSUME NEW p \in Procs, ProcessKilled(p) PROVE OnceInv'
    BY <1>15 DEF ProcessKilled
  <1>16. ASSUME NEW p \in Procs, NEW b \in Actions, InsertPending(p, b) PROVE OnceInv'
    BY <1>16 DEF InsertPending
  <1>17. ASSUME NEW p \in Procs, NEW b \in Actions, Propose(p, b) PROVE OnceInv'
    BY <1>17 DEF Propose
  <1>18. ASSUME NEW p \in Procs, NEW b \in Actions, DeleteRead(p, b) PROVE OnceInv'
    BY <1>18 DEF DeleteRead
  <1>19. ASSUME NEW p \in Procs, NEW b \in Actions, CancelRead(p, b) PROVE OnceInv'
    BY <1>19 DEF CancelRead
  <1>20. ASSUME NEW p \in Procs, NEW b \in Actions, Archive(p, b) PROVE OnceInv'
    BY <1>20 DEF Archive
  <1>21. ASSUME NEW p \in Procs, NEW b \in Actions, Restore(p, b) PROVE OnceInv'
    BY <1>21 DEF Restore
  <1>22. ASSUME NEW p \in Procs, NEW k \in Kinds, AskRun(p, k) PROVE OnceInv'
    BY <1>22 DEF AskRun
  <1>23. ASSUME NEW p \in Procs, NEW k \in Kinds, NEW b \in Actions, AskRunOverStale(p, k, b) PROVE OnceInv'
    BY <1>23 DEF AskRunOverStale
  <1>24. ASSUME NEW p \in Procs, NEW S \in SUBSET Actions, StartRead(p, S) PROVE OnceInv'
    BY <1>24 DEF StartRead
  <1>25. ASSUME NEW p \in Procs, NEW b \in Actions, NEW t \in Threads, Launch(p, b, t) PROVE OnceInv'
    BY <1>25 DEF Launch
  <1>26. ASSUME NEW f \in FindingIds, DiscardFinding(f) PROVE OnceInv'
    BY <1>26 DEF DiscardFinding
  <1>27. CASE UNCHANGED vars
    BY <1>27 DEF vars
  <1>28. ASSUME NEW t \in Threads, RunBreaks(t) PROVE OnceInv'
    BY <1>28 DEF RunBreaks
  <1>29. QED
    BY <1>1, <1>2, <1>3, <1>4, <1>5, <1>6, <1>7, <1>8, <1>9, <1>10, <1>11, <1>12,
       <1>13, <1>14, <1>15, <1>16, <1>17, <1>18, <1>19, <1>20, <1>21, <1>22, <1>23,
       <1>24, <1>25, <1>26, <1>27, <1>28
       DEF Next, ThreadStep, ServeStep, Arrival, Fault

-----------------------------------------------------------------------------
(* The theorems *)

\* The inductive invariant holds in every state.
THEOREM Invariant == Spec => []IInv
  <1>1. IInv /\ [Next]_vars => IInv'
    BY NextTyped, NextOnce DEF IInv
  <1>2. QED
    BY InitIInv, <1>1, PTL DEF Spec

\* Every variable keeps its type in every behaviour of the runtime: an action
\* only ever holds a status of the model, a request only ever names rows.
THEOREM TypeCorrect == Spec => []TypeOK
  <1>1. IInv => TypeOK
    BY DEF IInv, Typed
  <1>2. QED
    BY Invariant, <1>1, PTL

\* run_action writes the invoice line of an action once, however cancellations,
\* resets, archiving, killed processes and other actions fall, unless two
\* requests started the same proposal.
THEOREM InvoicedOnceHolds == Spec => []InvoicedOnce
  <1>1. IInv => InvoicedOnce
    BY DEF IInv, Typed, TypeOK, OnceInv, StartedOnce, InvoicedOnce
  <1>2. QED
    BY Invariant, <1>1, PTL

\* Once cancel_research_action has set the flag of a running handler, the
\* action ends without findings, invoice line or completion.
THEOREM HeardCancelHolds == Spec => []HeardCancelSticks
  <1>1. IInv => HeardCancelSticks
    BY DEF IInv, OnceInv, Heard, NoResult, HeardCancelSticks
  <1>2. QED
    BY Invariant, <1>1, PTL

\* A row that is completed, cancelled or in error never becomes pending or
\* running again, unless a second request starts it: every blind UPDATE of the
\* runtime comes from a thread whose action has not ended yet, or writes a
\* status that is final too.
THEOREM FinalIsFinalHolds == Spec => FinalIsFinal
  <1> DEFINE Step1 == \A a \in Actions :
                        status[a] \in Final /\ status'[a] \in Active => a \in raced'
  <1>1. IInv /\ [Next]_vars => [Step1]_vars
    <2> SUFFICES ASSUME IInv, Next, NEW a \in Actions, status[a] \in Final, status'[a] \in Active
                 PROVE a \in raced'
      OBVIOUS
    <2> USE DEF IInv, Typed, TypeOK, ThreadInv, WebInv, Status, Final, Active, SetStatus, Write
    <2>1. ASSUME NEW t \in Threads, Begin(t) PROVE a \in raced'
      BY <2>1 DEF Begin, OnceInv, StartedOnce, history
    <2>2. ASSUME NEW p \in Procs, NEW b \in Actions, InsertPending(p, b) PROVE a \in raced'
      BY <2>2 DEF InsertPending
    <2>3. ASSUME NEW p \in Procs, StartCommit(p) PROVE a \in raced'
      BY <2>3 DEF StartCommit
    <2>4. ASSUME NEW t \in Threads, PaidRefused(t) \/ CheckFlag(t) \/ Complete(t) \/ RunFails(t) \/ End(t)
          PROVE FALSE
      BY <2>4 DEF PaidRefused, CheckFlag, Complete, RunFails, End, rowVars
    <2>5. ASSUME NEW p \in Procs, ResetStale(p) \/ DeleteCommit(p) \/ CancelCommit(p) \/ LaunchFails(p)
          PROVE FALSE
      BY <2>5 DEF ResetStale, DeleteCommit, CancelCommit, LaunchFails
    <2>6. ASSUME NEW p \in Procs, InsertFails(p) \/ Register(p) \/ CancelFlag(p) \/ ProcessKilled(p)
          PROVE FALSE
      BY <2>6 DEF InsertFails, Register, CancelFlag, ProcessKilled, rowVars
    <2>7. ASSUME NEW p \in Procs, NEW b \in Actions, NEW t \in Threads, Launch(p, b, t) PROVE FALSE
      BY <2>7 DEF Launch, rowVars
    <2>8. ASSUME NEW p \in Procs, NEW b \in Actions,
                 Propose(p, b) \/ DeleteRead(p, b) \/ CancelRead(p, b) \/ Archive(p, b) \/ Restore(p, b)
          PROVE FALSE
      BY <2>8 DEF Propose, DeleteRead, CancelRead, Archive, Restore, rowVars
    <2>9. ASSUME NEW p \in Procs, NEW k \in Kinds, AskRun(p, k) PROVE FALSE
      BY <2>9 DEF AskRun, rowVars
    <2>10. ASSUME NEW p \in Procs, NEW k \in Kinds, NEW b \in Actions, AskRunOverStale(p, k, b) PROVE FALSE
      BY <2>10 DEF AskRunOverStale, rowVars
    <2>11. ASSUME NEW p \in Procs, NEW S \in SUBSET Actions, StartRead(p, S) PROVE FALSE
      BY <2>11 DEF StartRead, rowVars
    <2>12. ASSUME NEW f \in FindingIds, DiscardFinding(f) PROVE FALSE
      BY <2>12 DEF DiscardFinding, rowVars
    <2>13. ASSUME NEW t \in Threads, RunBreaks(t) PROVE FALSE
      BY <2>13 DEF RunBreaks, rowVars
    <2>14. QED
      BY <2>13, <2>1, <2>2, <2>3, <2>4, <2>5, <2>6, <2>7, <2>8, <2>9, <2>10, <2>11, <2>12
         DEF Next, ThreadStep, ServeStep, Arrival, Fault
  <1>2. QED
    BY Invariant, <1>1, PTL DEF Spec, FinalIsFinal

\* A pending or running action has a thread or a request that will take it
\* further, unless its thread died, broke off or was never started: no other order of
\* requests, threads and failures leaves a row active for ever.
THEOREM ActiveHasWorkerHolds == Spec => []ActiveHasWorker
  <1> USE ActionsAssumption
  <1> DEFINE J == Typed /\ ActiveHasWorker
  <1>a. Init => ActiveHasWorker
    BY DEF Init, ActiveHasWorker, Active
  <1>b. ASSUME J, [Next]_vars PROVE ActiveHasWorker'
    <2> USE <1>b DEF Typed, TypeOK, ThreadInv, WebInv, Status, ThreadPoint, Request, Active, Working, rowVars,
          findingVars, threadVars, history, Serve, Finish, Idle, SetStatus, Step, Forget, Write, ActiveHasWorker
    <2>1. ASSUME NEW t \in Threads, Begin(t) PROVE ActiveHasWorker'
      BY <2>1 DEF Begin
    <2>2. ASSUME NEW t \in Threads, PaidRefused(t) PROVE ActiveHasWorker'
      BY <2>2 DEF PaidRefused
    <2>3. ASSUME NEW t \in Threads, CheckFlag(t) PROVE ActiveHasWorker'
      BY <2>3 DEF CheckFlag
    <2>4. ASSUME NEW t \in Threads, Complete(t) PROVE ActiveHasWorker'
      BY <2>4 DEF Complete
    <2>5. ASSUME NEW t \in Threads, RunFails(t) PROVE ActiveHasWorker'
      BY <2>5 DEF RunFails
    <2>6. ASSUME NEW t \in Threads, End(t) PROVE ActiveHasWorker'
      BY <2>6 DEF End
    <2>7. ASSUME NEW p \in Procs, ResetStale(p) PROVE ActiveHasWorker'
      BY <2>7 DEF ResetStale
    <2>8. ASSUME NEW p \in Procs, InsertFails(p) PROVE ActiveHasWorker'
      BY <2>8 DEF InsertFails
    <2>9. ASSUME NEW p \in Procs, StartCommit(p) PROVE ActiveHasWorker'
      <3>1. CASE /\ status' = [a \in Actions |-> IF a \in web[p].acts THEN "pending" ELSE status[a]]
                 /\ Serve(p, "launch", None, web[p].acts, None)
        BY <2>9, <3>1 DEF StartCommit
      <3>2. CASE Finish(p) /\ UNCHANGED status
        BY <2>9, <3>2 DEF StartCommit
      <3>3. QED
        BY <2>9, <3>1, <3>2, Zenon DEF StartCommit
    <2>10. ASSUME NEW p \in Procs, Register(p) PROVE ActiveHasWorker'
      <3>1. CASE Finish(p) /\ web[p].acts = {}
        BY <2>10, <3>1 DEF Register
      <3>2. CASE Serve(p, "launch", web[p].kind, web[p].acts, None)
        BY <2>10, <3>2 DEF Register
      <3>3. QED
        BY <2>10, <3>1, <3>2, Zenon DEF Register
    <2>11. ASSUME NEW p \in Procs, DeleteCommit(p) PROVE ActiveHasWorker'
      BY <2>11 DEF DeleteCommit
    <2>12. ASSUME NEW p \in Procs, CancelFlag(p) PROVE ActiveHasWorker'
      BY <2>12 DEF CancelFlag
    <2>13. ASSUME NEW p \in Procs, CancelCommit(p) PROVE ActiveHasWorker'
      BY <2>13 DEF CancelCommit
    <2>14. ASSUME NEW p \in Procs, LaunchFails(p) PROVE ActiveHasWorker'
      BY <2>14 DEF LaunchFails
    <2>15. ASSUME NEW p \in Procs, ProcessKilled(p) PROVE ActiveHasWorker'
      BY <2>15 DEF ProcessKilled
    <2>16. ASSUME NEW p \in Procs, NEW b \in Actions, InsertPending(p, b) PROVE ActiveHasWorker'
      BY <2>16 DEF InsertPending
    <2>17. ASSUME NEW p \in Procs, NEW b \in Actions, Propose(p, b) PROVE ActiveHasWorker'
      BY <2>17 DEF Propose
    <2>18. ASSUME NEW p \in Procs, NEW b \in Actions, DeleteRead(p, b) PROVE ActiveHasWorker'
      BY <2>18 DEF DeleteRead
    <2>19. ASSUME NEW p \in Procs, NEW b \in Actions, CancelRead(p, b) PROVE ActiveHasWorker'
      BY <2>19 DEF CancelRead
    <2>20. ASSUME NEW p \in Procs, NEW b \in Actions, Archive(p, b) PROVE ActiveHasWorker'
      BY <2>20 DEF Archive
    <2>21. ASSUME NEW p \in Procs, NEW b \in Actions, Restore(p, b) PROVE ActiveHasWorker'
      BY <2>21 DEF Restore
    <2>22. ASSUME NEW p \in Procs, NEW k \in Kinds, AskRun(p, k) PROVE ActiveHasWorker'
      BY <2>22 DEF AskRun
    <2>23. ASSUME NEW p \in Procs, NEW k \in Kinds, NEW b \in Actions, AskRunOverStale(p, k, b) PROVE ActiveHasWorker'
      BY <2>23 DEF AskRunOverStale
    <2>24. ASSUME NEW p \in Procs, NEW S \in SUBSET Actions, StartRead(p, S) PROVE ActiveHasWorker'
      BY <2>24 DEF StartRead
    <2>25. ASSUME NEW p \in Procs, NEW b \in Actions, NEW t \in Threads, Launch(p, b, t) PROVE ActiveHasWorker'
      BY <2>25 DEF Launch
    <2>26. ASSUME NEW f \in FindingIds, DiscardFinding(f) PROVE ActiveHasWorker'
      BY <2>26 DEF DiscardFinding
    <2>27. CASE UNCHANGED vars
      BY <2>27 DEF vars
    <2>28. ASSUME NEW t \in Threads, RunBreaks(t) PROVE ActiveHasWorker'
      BY <2>28 DEF RunBreaks
    <2>29. QED
      BY <2>28, <2>1, <2>2, <2>3, <2>4, <2>5, <2>6, <2>7, <2>8, <2>9, <2>10, <2>11, <2>12, <2>13,
         <2>14, <2>15, <2>16, <2>17, <2>18, <2>19, <2>20, <2>21, <2>22, <2>23, <2>24,
         <2>25, <2>26, <2>27
         DEF Next, ThreadStep, ServeStep, Arrival, Fault
  <1>c. J /\ [Next]_vars => J'
    BY NextTyped, <1>b
  <1>d. Init => J
    BY InitIInv, <1>a DEF IInv
  <1>e. QED
    BY <1>c, <1>d, PTL DEF Spec

=============================================================================
