-------------------------- MODULE ResearchActions ---------------------------
(***************************************************************************)
(* The research-action runtime: web requests propose, start, reset,        *)
(* cancel, delete, archive and restore actions; each started action runs   *)
(* on a daemon thread of the process that served the request, and each     *)
(* process has its own table of running threads with their cancel flags.   *)
(* Gunicorn runs several single-threaded processes, so a process serves    *)
(* one request at a time while its action threads go on, and two processes *)
(* share the database only.                                                *)
(*                                                                         *)
(* One case and one subject are modelled: actions of one kind are then of  *)
(* one scope.  A read and the blind UPDATE based on it are two actions     *)
(* whenever a request or a thread can come between them.                   *)
(***************************************************************************)
EXTENDS Naturals, FiniteSets

CONSTANTS
    Actions,    \* rows that can ever appear in research_actions
    Kinds,      \* action types
    Photo,      \* the kind guarded by a partial unique index
    Kind,       \* the kind of each action
    Results,    \* payloads an action can find
    Procs,      \* web processes
    Threads,    \* action threads that can ever be started
    None,       \* no action, no kind, no process
    MaxFaults   \* bound: processes killed, threads refused and runs broken off

ASSUME ActionsAssumption ==
    /\ Kind \in [Actions -> Kinds]
    /\ Photo \in Kinds
    /\ None \notin Actions \cup Kinds \cup Procs
    /\ MaxFaults \in Nat

VARIABLES
    status,     \* ResearchAction.status, "none" before the INSERT
    archived,   \* actions with archived_at
    invoiced,   \* invoice lines written for each action
    finding,    \* the finding a thread made of a payload
    links,      \* ActionFinding rows of each action
    pc, act, proc, \* each thread: control point, action, process
    known,      \* each thread: the live findings it has read
    flag,       \* each process's _running_threads: absent, clear or cancel
    web,        \* each process: the request it is serving
    faults,     \* faults so far
    lost,       \* history: actions whose thread died, broke off or never started
    raced,      \* history: actions started a second time
    heard       \* history: actions whose thread a cancellation reached

rowVars     == <<status, archived, invoiced>>
findingVars == <<finding, links>>
threadVars  == <<pc, act, proc, known>>
history     == <<lost, raced, heard>>
vars == <<rowVars, findingVars, threadVars, flag, web, faults, history>>

Status == {"none", "proposal", "pending", "running", "completed", "cancelled",
           "error", "deleted"}
Active == {"pending", "running"}
Final  == {"completed", "cancelled", "error"}

ThreadPoint == {"unused", "born", "handler", "merging", "ending", "done"}

\* Control points at which a thread may still write its action.
Working == {"born", "handler", "merging"}

FindingIds == Threads \X Results

Request ==
    [op : {"idle", "reset", "insert", "start", "delete", "cancel", "cancelling",
           "launch", "register"},
     kind : Kinds \cup {None}, acts : SUBSET Actions, act : Actions \cup {None}]

Idle == [op |-> "idle", kind |-> None, acts |-> {}, act |-> None]

TypeOK ==
    /\ status \in [Actions -> Status]
    /\ archived \subseteq Actions
    /\ invoiced \in [Actions -> Nat]
    /\ finding \in [FindingIds -> {"none", "live", "archived", "deleted"}]
    /\ links \in [Actions -> SUBSET FindingIds]
    /\ pc \in [Threads -> ThreadPoint]
    /\ act \in [Threads -> Actions \cup {None}]
    /\ proc \in [Threads -> Procs \cup {None}]
    /\ known \in [Threads -> SUBSET FindingIds]
    /\ flag \in [Procs -> [Actions -> {"absent", "clear", "cancel"}]]
    /\ web \in [Procs -> Request]
    /\ faults \in 0 .. MaxFaults
    /\ lost \subseteq Actions
    /\ raced \subseteq Actions
    /\ heard \subseteq Actions

Init ==
    /\ status = [a \in Actions |-> "none"]
    /\ archived = {}
    /\ invoiced = [a \in Actions |-> 0]
    /\ finding = [f \in FindingIds |-> "none"]
    /\ links = [a \in Actions |-> {}]
    /\ pc = [t \in Threads |-> "unused"]
    /\ act = [t \in Threads |-> None]
    /\ proc = [t \in Threads |-> None]
    /\ known = [t \in Threads |-> {}]
    /\ flag = [p \in Procs |-> [a \in Actions |-> "absent"]]
    /\ web = [p \in Procs |-> Idle]
    /\ faults = 0
    /\ lost = {}
    /\ raced = {}
    /\ heard = {}

-----------------------------------------------------------------------------
(* Proposing, starting and deleting *)

\* uq_research_actions_active_photo_analysis: a commit that breaks it fails.
IndexHolds(st, ar) ==
    \A a, b \in Actions \ ar :
        Kind[a] = Photo /\ Kind[b] = Photo /\ st[a] \in Active /\ st[b] \in Active
            => a = b

SetStatus(a, new) == status' = [status EXCEPT ![a] = new]

Serve(p, op, kind, acts, a) ==
    web' = [web EXCEPT ![p] = [op |-> op, kind |-> kind, acts |-> acts, act |-> a]]

Finish(p) == web' = [web EXCEPT ![p] = Idle]

\* A proposal is stored with its audit row.  One of the three routes skips
\* kinds that already have an open action; the other two do not look.
Propose(p, a) ==
    /\ web[p] = Idle
    /\ status[a] = "none"
    /\ SetStatus(a, "proposal")
    /\ UNCHANGED <<archived, invoiced, findingVars, threadVars, flag, web, faults, history>>

\* Actions that make a request to run kind k answer "already running": running
\* ones, or for photos pending and running ones that are not archived.
Blocking(k) ==
    {b \in Actions :
        /\ Kind[b] = k
        /\ IF k = Photo THEN status[b] \in Active /\ b \notin archived
                        ELSE status[b] = "running"}

\* The request sees no such action and goes on to insert its own ...
AskRun(p, k) ==
    /\ web[p] = Idle
    /\ Blocking(k) = {}
    /\ Serve(p, "insert", k, {}, None)
    /\ UNCHANGED <<rowVars, findingVars, threadVars, flag, faults, history>>

\* ... or one that has been running for more than ten minutes ...
AskRunOverStale(p, k, b) ==
    /\ web[p] = Idle
    /\ b \in Blocking(k) /\ status[b] = "running"
    /\ Serve(p, "reset", k, {}, b)
    /\ UNCHANGED <<rowVars, findingVars, threadVars, flag, faults, history>>

\* Wrong variant: a stale action is queued again.
ResetStaleRequeues(p) ==
    LET b == web[p].act IN
    /\ web[p].op = "reset"
    /\ status[b] # "deleted"
    /\ Serve(p, "insert", web[p].kind, {}, None)
    /\ SetStatus(b, "pending")
    /\ UNCHANGED <<archived, invoiced, findingVars, threadVars, flag, faults, history>>

\* ... and writes it off first, whatever has become of it.
ResetStale(p) ==
    LET b == web[p].act IN
    /\ web[p].op = "reset"
    /\ \/ status[b] = "deleted" /\ Finish(p) /\ status' = status
       \/ /\ status[b] # "deleted"
          /\ Serve(p, "insert", web[p].kind, {}, None)
          /\ SetStatus(b, "error")
    /\ UNCHANGED <<archived, invoiced, findingVars, threadVars, flag, faults, history>>

\* The row, its audit and its usage events are one commit.
InsertPending(p, a) ==
    /\ web[p].op = "insert"
    /\ status[a] = "none" /\ Kind[a] = web[p].kind
    /\ SetStatus(a, "pending")
    /\ IndexHolds(status', archived)
    /\ Serve(p, "launch", Kind[a], {a}, None)
    /\ UNCHANGED <<archived, invoiced, findingVars, threadVars, flag, faults, history>>

\* The transaction failed, on the index or otherwise: nothing is stored.
InsertFails(p) ==
    /\ web[p].op = "insert"
    /\ Finish(p)
    /\ UNCHANGED <<rowVars, findingVars, threadVars, flag, faults, history>>

\* start_proposal reads one proposal, the AI plan routes all or some of them;
\* an archived proposal is one too.
StartRead(p, S) ==
    /\ web[p] = Idle
    /\ S # {} /\ \A a \in S : status[a] = "proposal"
    /\ Serve(p, "start", None, S, None)
    /\ UNCHANGED <<rowVars, findingVars, threadVars, flag, faults, history>>

\* One commit for all of them, whatever they have become meanwhile; a row that
\* was deleted, or the index, makes it fail.
StartCommit(p) ==
    LET S == web[p].acts
        new == [a \in Actions |-> IF a \in S THEN "pending" ELSE status[a]]
    IN  /\ web[p].op = "start"
        /\ \/ /\ IndexHolds(new, archived) /\ \A a \in S : status[a] # "deleted"
              /\ status' = new
              /\ raced' = raced \cup {a \in S : status[a] # "proposal"}
              /\ Serve(p, "launch", None, S, None)
           \/ /\ ~(IndexHolds(new, archived) /\ \A a \in S : status[a] # "deleted")
              /\ Finish(p)
              /\ UNCHANGED <<status, raced>>
        /\ UNCHANGED <<archived, invoiced, findingVars, threadVars, flag, faults,
                       lost, heard>>

\* start_action_async, once for each action: the thread runs first ...
Launch(p, a, t) ==
    /\ web[p].op = "launch"
    /\ a \in web[p].acts
    /\ pc[t] = "unused"
    /\ pc' = [pc EXCEPT ![t] = "born"]
    /\ act' = [act EXCEPT ![t] = a]
    /\ proc' = [proc EXCEPT ![t] = p]
    /\ Serve(p, "register", web[p].kind, web[p].acts \ {a}, a)
    /\ UNCHANGED <<rowVars, findingVars, known, flag, faults, history>>

\* Wrong variant: the rest of the batch is forgotten.
RegisterFirstOnly(p) ==
    /\ web[p].op = "register"
    /\ flag' = [flag EXCEPT ![p][web[p].act] = "clear"]
    /\ Finish(p)
    /\ UNCHANGED <<rowVars, findingVars, threadVars, faults, history>>

\* ... and is registered afterwards, over any earlier entry.
Register(p) ==
    /\ web[p].op = "register"
    /\ flag' = [flag EXCEPT ![p][web[p].act] = "clear"]
    /\ \/ web[p].acts = {} /\ Finish(p)
       \/ web[p].acts # {} /\ Serve(p, "launch", web[p].kind, web[p].acts, None)
    /\ UNCHANGED <<rowVars, findingVars, threadVars, faults, history>>

\* No thread could be started: the photo upload marks its action, the other
\* routes answer 500 and leave theirs pending.
LaunchFails(p) ==
    /\ web[p].op = "launch"
    /\ faults < MaxFaults
    /\ faults' = faults + 1
    /\ \/ /\ web[p].kind = Photo
          /\ status' = [a \in Actions |->
                          IF a \in web[p].acts /\ status[a] # "deleted"
                            THEN "error" ELSE status[a]]
          /\ lost' = lost
       \/ /\ web[p].kind # Photo
          /\ status' = status
          /\ lost' = lost \cup web[p].acts
    /\ Finish(p)
    /\ UNCHANGED <<archived, invoiced, findingVars, threadVars, flag, raced, heard>>

DeleteRead(p, a) ==
    /\ web[p] = Idle
    /\ status[a] = "proposal"
    /\ Serve(p, "delete", None, {}, a)
    /\ UNCHANGED <<rowVars, findingVars, threadVars, flag, faults, history>>

\* The row goes by its id, whatever it has become, and the links go with it;
\* the findings stay.  A foreign key refuses the deletion if the findings were
\* linked after the links were read.
DeleteCommit(p) ==
    LET a == web[p].act IN
    /\ web[p].op = "delete"
    /\ \/ SetStatus(a, "deleted") /\ links' = [links EXCEPT ![a] = {}]
       \/ links[a] # {} /\ UNCHANGED <<status, links>>
    /\ Finish(p)
    /\ UNCHANGED <<archived, invoiced, finding, threadVars, flag, faults, history>>

-----------------------------------------------------------------------------
(* The action thread *)

Step(t, point) == pc' = [pc EXCEPT ![t] = point]

Forget(t) == known' = [known EXCEPT ![t] = {}]

\* An UPDATE of a deleted row fails; the handler of that failure finds no row.
Write(a, new) == status' = [status EXCEPT ![a] = IF @ = "deleted" THEN @ ELSE new]

\* run_action: the row, whatever its status, is set to running; a deleted row
\* ends the thread, a refusal of the index is an error.
Begin(t) ==
    LET a == act[t]
        new == [status EXCEPT ![a] = "running"]
    IN  /\ pc[t] = "born"
        /\ \/ /\ status[a] # "deleted" /\ IndexHolds(new, archived)
              /\ status' = new
              /\ Step(t, "handler")
           \/ /\ status[a] = "deleted" \/ ~IndexHolds(new, archived)
              /\ Write(a, "error")
              /\ Step(t, "ending")
        /\ UNCHANGED <<archived, invoiced, findingVars, act, proc, known, flag,
                       web, faults, history>>

\* The tenant's consent to a paid channel was withdrawn meanwhile.
PaidRefused(t) ==
    /\ pc[t] = "born"
    /\ Write(act[t], "error")
    /\ Step(t, "ending")
    /\ UNCHANGED <<archived, invoiced, findingVars, act, proc, known, flag, web,
                   faults, history>>

\* Wrong variant: the cancel flag is not looked at.
CheckNothing(t) ==
    /\ pc[t] = "handler"
    /\ known' = [known EXCEPT ![t] = {f \in FindingIds : finding[f] = "live"}]
    /\ Step(t, "merging")
    /\ UNCHANGED <<rowVars, findingVars, act, proc, flag, web, faults, history>>

\* The handler is done: the flag of this process decides, then the live
\* findings of the case are read.
CheckFlag(t) ==
    /\ pc[t] = "handler"
    /\ \/ /\ flag[proc[t]][act[t]] = "cancel"
          /\ Write(act[t], "cancelled")
          /\ Step(t, "ending")
          /\ known' = known
       \/ /\ flag[proc[t]][act[t]] # "cancel"
          /\ known' = [known EXCEPT ![t] = {f \in FindingIds : finding[f] = "live"}]
          /\ Step(t, "merging")
          /\ status' = status
    /\ UNCHANGED <<archived, invoiced, findingVars, act, proc, flag, web, faults, history>>

\* The findings of thread t with payloads R: those it knows are linked, the
\* others are made.
Made(t, R) == {<<t, r>> : r \in {x \in R : \A f \in known[t] : f[2] # x}}

\* Wrong variant: a completion is tried again after it was committed.
CompleteAgain(t) ==
    LET a == act[t] IN
    /\ pc[t] = "merging"
    /\ status[a] # "deleted"
    /\ invoiced[a] < 2
    /\ SetStatus(a, "completed")
    /\ invoiced' = [invoiced EXCEPT ![a] = @ + 1]
    /\ UNCHANGED <<pc, archived, findingVars, act, proc, known, flag, web, faults, history>>

\* Findings, links, status, invoice line and usage in one commit, whatever the
\* row holds by then.  A finding linked to the action before makes it fail.
Complete(t) ==
    LET a == act[t] IN
    /\ pc[t] = "merging"
    /\ status[a] # "deleted"
    /\ \E R \in SUBSET Results : \E seen \in SUBSET known[t] :
          /\ {f[2] : f \in seen} = {r \in R : \E f \in known[t] : f[2] = r}
          /\ \A f, g \in seen : f[2] = g[2] => f = g
          /\ seen \cap links[a] = {}
          /\ links' = [links EXCEPT ![a] = @ \cup seen \cup Made(t, R)]
          /\ finding' = [f \in FindingIds |->
                           IF f \in Made(t, R) THEN "live" ELSE finding[f]]
    /\ SetStatus(a, "completed")
    /\ invoiced' = [invoiced EXCEPT ![a] = @ + 1]
    /\ Step(t, "ending")
    /\ Forget(t)
    /\ UNCHANGED <<archived, act, proc, flag, web, faults, history>>

\* Wrong variant: the failure is only logged.
RunFailsSilently(t) ==
    /\ pc[t] \in {"handler", "merging"}
    /\ Step(t, "ending")
    /\ Forget(t)
    /\ UNCHANGED <<rowVars, findingVars, act, proc, flag, web, faults, history>>

\* The handler, the findings, the invoice or the usage counter failed:
\* rollback, and a blind "error".
RunFails(t) ==
    /\ pc[t] \in {"handler", "merging"}
    /\ Write(act[t], "error")
    /\ Step(t, "ending")
    /\ Forget(t)
    /\ UNCHANGED <<archived, invoiced, findingVars, act, proc, flag, web, faults, history>>

\* So does the handler of that failure, when it reloads or commits the row: the
\* thread ends and the row stays as it is.
RunBreaks(t) ==
    /\ pc[t] \in Working
    /\ faults < MaxFaults
    /\ faults' = faults + 1
    /\ lost' = lost \cup {act[t]}
    /\ Step(t, "ending")
    /\ Forget(t)
    /\ UNCHANGED <<rowVars, findingVars, act, proc, flag, web, raced, heard>>

\* The thread drops the entry of its action, even another thread's.
End(t) ==
    /\ pc[t] = "ending"
    /\ Step(t, "done")
    /\ act' = [act EXCEPT ![t] = None]
    /\ proc' = [proc EXCEPT ![t] = None]
    /\ flag' = [flag EXCEPT ![proc[t]][act[t]] = "absent"]
    /\ UNCHANGED <<rowVars, findingVars, known, web, faults, history>>

\* Gunicorn kills a process (a request over its timeout, a restart): request,
\* daemon threads and flags are gone, nothing takes the actions up again.
ProcessKilled(p) ==
    LET dying == {t \in Threads : proc[t] = p} IN
    /\ faults < MaxFaults
    /\ faults' = faults + 1
    /\ pc' = [t \in Threads |-> IF t \in dying THEN "done" ELSE pc[t]]
    /\ act' = [t \in Threads |-> IF t \in dying THEN None ELSE act[t]]
    /\ proc' = [t \in Threads |-> IF t \in dying THEN None ELSE proc[t]]
    /\ known' = [t \in Threads |-> IF t \in dying THEN {} ELSE known[t]]
    /\ flag' = [flag EXCEPT ![p] = [a \in Actions |-> "absent"]]
    /\ lost' = lost \cup {act[t] : t \in {u \in dying : pc[u] \in Working}}
                    \cup (IF web[p].op \in {"launch", "register"} THEN web[p].acts ELSE {})
    /\ Finish(p)
    /\ UNCHANGED <<rowVars, findingVars, raced, heard>>

-----------------------------------------------------------------------------
(* Cancelling, archiving and restoring *)

CancelRead(p, a) ==
    /\ web[p] = Idle
    /\ status[a] = "running"
    /\ Serve(p, "cancel", None, {}, a)
    /\ UNCHANGED <<rowVars, findingVars, threadVars, flag, faults, history>>

\* The flag is raised if this process has registered the action.
CancelFlag(p) ==
    LET a == web[p].act IN
    /\ web[p].op = "cancel"
    /\ \/ flag[p][a] = "absent" /\ UNCHANGED <<flag, heard>>
       \/ /\ flag[p][a] # "absent"
          /\ flag' = [flag EXCEPT ![p][a] = "cancel"]
          /\ heard' = heard \cup
               {b \in {a} : \E t \in Threads : act[t] = b /\ proc[t] = p /\ pc[t] = "handler"}
    /\ Serve(p, "cancelling", None, {}, a)
    /\ UNCHANGED <<rowVars, findingVars, threadVars, faults, lost, raced>>

\* The row was read as running; it is cancelled and the findings linked to it
\* by now are soft-deleted, whichever other action is linked to them.  The
\* audit row added after this commit is never committed.
CancelCommit(p) ==
    LET a == web[p].act IN
    /\ web[p].op = "cancelling"
    /\ Write(a, "cancelled")
    /\ finding' = [f \in FindingIds |-> IF f \in links[a] THEN "deleted" ELSE finding[f]]
    /\ Finish(p)
    /\ UNCHANGED <<archived, invoiced, links, threadVars, flag, faults, history>>

\* The action and its live findings, those shared with other actions too.
Archive(p, a) ==
    /\ web[p] = Idle
    /\ status[a] \notin {"none", "deleted"}
    /\ archived' = archived \cup {a}
    /\ finding' = [f \in FindingIds |->
                     IF f \in links[a] /\ finding[f] = "live" THEN "archived" ELSE finding[f]]
    /\ UNCHANGED <<status, invoiced, links, threadVars, flag, web, faults, history>>

\* All its findings come back, those archived for another reason too.  An
\* active action of any kind is refused while a photo action is active; the
\* index refuses the photo action itself.
Restore(p, a) ==
    /\ web[p] = Idle
    /\ status[a] \notin {"none", "deleted"}
    /\ a \in archived /\ status[a] \in Active => Blocking(Photo) \subseteq {a}
    /\ archived' = archived \ {a}
    /\ IndexHolds(status, archived')
    /\ finding' = [f \in FindingIds |->
                     IF f \in links[a] /\ finding[f] = "archived" THEN "live" ELSE finding[f]]
    /\ UNCHANGED <<status, invoiced, links, threadVars, flag, web, faults, history>>

\* A user deletes a finding by hand.
DiscardFinding(f) ==
    /\ finding[f] = "live"
    /\ finding' = [finding EXCEPT ![f] = "deleted"]
    /\ UNCHANGED <<rowVars, links, threadVars, flag, web, faults, history>>

-----------------------------------------------------------------------------
ThreadStep(t) ==
    \/ Begin(t) \/ PaidRefused(t) \/ CheckFlag(t) \/ Complete(t) \/ RunFails(t) \/ End(t)

\* What a process does to finish the request it is serving.
ServeStep(p) ==
    \/ ResetStale(p) \/ InsertFails(p) \/ \E a \in Actions : InsertPending(p, a)
    \/ StartCommit(p) \/ Register(p) \/ \E a \in Actions, t \in Threads : Launch(p, a, t)
    \/ DeleteCommit(p) \/ CancelFlag(p) \/ CancelCommit(p)

Arrival(p) ==
    \/ \E k \in Kinds : AskRun(p, k) \/ \E b \in Actions : AskRunOverStale(p, k, b)
    \/ \E S \in SUBSET Actions : StartRead(p, S)
    \/ \E a \in Actions :
          \/ Propose(p, a) \/ DeleteRead(p, a) \/ CancelRead(p, a)
          \/ Archive(p, a) \/ Restore(p, a)

Fault ==
    \/ \E p \in Procs : LaunchFails(p) \/ ProcessKilled(p)
    \/ \E t \in Threads : RunBreaks(t)

Next ==
    \/ \E t \in Threads : ThreadStep(t)
    \/ \E p \in Procs : ServeStep(p) \/ Arrival(p)
    \/ Fault
    \/ \E f \in FindingIds : DiscardFinding(f)

Spec == Init /\ [][Next]_vars

\* A running thread and a request in progress go on: the operating system
\* schedules them and the sources the handlers call time out.  No request has
\* to arrive.
FairSpec ==
    /\ Spec
    /\ \A t \in Threads : WF_vars(ThreadStep(t))
    /\ \A p \in Procs : WF_vars(ServeStep(p))

-----------------------------------------------------------------------------
(* Properties *)

\* Once a cancellation has reached the thread, the action ends without a
\* result: no completion, no finding and no invoice line, whatever else
\* happens to it - unless it had been started twice.
HeardCancelSticks ==
    \A a \in heard \ raced :
        /\ status[a] \in {"running", "cancelled", "error", "deleted"}
        /\ invoiced[a] = 0
        /\ links[a] = {}

\* The client pays for an action once, unless two requests started it.
InvoicedOnce == \A a \in Actions : invoiced[a] > 1 => a \in raced

\* An active row has somebody working on it: a thread, or the request that is
\* about to start one - unless a thread died, could not be started or could
\* not even record its failure.  Nothing else can leave an action running for
\* ever and block its kind.
ActiveHasWorker ==
    \A a \in Actions :
        status[a] \in Active =>
            \/ \E t \in Threads : act[t] = a /\ pc[t] \in Working
            \/ \E p \in Procs : web[p].op \in {"launch", "register"} /\ a \in web[p].acts
            \/ a \in lost

\* An action that ended is not put back to work, unless it was started twice.
FinalIsFinal ==
    [][\A a \in Actions :
         status[a] \in Final /\ status'[a] \in Active => a \in raced']_vars

\* Every started action ends unless its thread died, broke off or never started.
StartedEnds ==
    \A a \in Actions : status[a] = "pending" ~> status[a] \notin Active \/ a \in lost
=============================================================================
