-------------------------- MODULE InstallIdentity --------------------------
(***************************************************************************)
(* How an installation gets the identity under which it registers with the *)
(* license server (cms/services/telemetry.py).  Every Gunicorn worker that *)
(* starts looks for an identifier and a token in its environment (the file *)
(* .env as it was when the worker started) and then in the settings, makes *)
(* what is missing, stores each and adds to .env what is not there yet.    *)
(* The start-up lock has been released by then.  The server keeps the      *)
(* token an identifier was first registered with.                          *)
(*                                                                         *)
(* What a worker makes is named by the worker.                             *)
(***************************************************************************)
CONSTANTS Workers, Site, None

VARIABLES
    hasFile,   \* there is a file .env without lines for the identity
    env,       \* what the environment holds for the next start
    setting,   \* the settings install_id and install_token
    known,     \* the server's rows
    worker,    \* [Workers -> its start]
    raced      \* history: a worker stored while another had looked in vain

vars == <<hasFile, env, setting, known, worker, raced>>

Makers == Workers \cup {Site, None}

Identities == [id : Makers, token : Makers]

Nothing == [id |-> None, token |-> None]

\* own: what the worker started with; has: what it found or made.
Down == [stage |-> "down", own |-> Nothing, has |-> Nothing]

TypeOK ==
    /\ hasFile \in BOOLEAN
    /\ env \in Identities /\ setting \in Identities /\ known \in SUBSET Identities
    /\ worker \in [Workers -> [stage : {"down", "looking", "id", "token", "append", "up"},
                               own : Identities, has : Identities]]
    /\ raced \in BOOLEAN

\* The installer writes both values; a copied .env.example has empty lines,
\* to which nothing is added; a file may also hold the identifier alone.
Init ==
    /\ hasFile \in BOOLEAN
    /\ \/ env = Nothing \/ env = [id |-> Site, token |-> Site]
       \/ hasFile /\ env = [id |-> Site, token |-> None]
    /\ setting = Nothing
    /\ known = {}
    /\ worker = [w \in Workers |-> Down]
    /\ raced = FALSE

Or(a, b) == [f \in DOMAIN a |-> IF a[f] # None THEN a[f] ELSE b[f]]

Put(w, r) == worker' = [worker EXCEPT ![w] = r]

Boot(w) ==
    /\ worker[w] = Down
    /\ Put(w, [stage |-> "looking", own |-> env, has |-> Nothing])
    /\ UNCHANGED <<hasFile, env, setting, known, raced>>

\* Wrong variant: a token counts only if .env has it.
LookInFile(w) ==
    LET found == [Or(worker[w].own, setting) EXCEPT !.token = worker[w].own.token]
    IN  /\ worker[w].stage = "looking"
        /\ Put(w, [worker[w] EXCEPT !.has = found,
                     !.stage = IF found.id = None THEN "id"
                               ELSE IF found.token = None THEN "token" ELSE "up"])
        /\ UNCHANGED <<hasFile, env, setting, known, raced>>

Look(w) ==
    LET found == Or(worker[w].own, setting)
    IN  /\ worker[w].stage = "looking"
        /\ Put(w, [worker[w] EXCEPT !.has = found,
                     !.stage = IF found.id = None THEN "id"
                               ELSE IF found.token = None THEN "token" ELSE "up"])
        /\ UNCHANGED <<hasFile, env, setting, known, raced>>

Races(w) ==
    raced' = (raced \/ \E v \in Workers \ {w} : worker[v].stage \in {"id", "token", "append"})

\* A value stored meanwhile is replaced, or wins if both were inserts.
Stores(new) == setting' = new \/ (raced' /\ UNCHANGED setting)

SaveId(w) ==
    /\ worker[w].stage = "id"
    /\ Races(w)
    /\ Stores([setting EXCEPT !.id = w])
    /\ Put(w, [worker[w] EXCEPT !.has.id = w,
                 !.stage = IF worker[w].has.token = None THEN "token" ELSE "append"])
    /\ UNCHANGED <<hasFile, env, known>>

SaveToken(w) ==
    /\ worker[w].stage = "token"
    /\ Races(w)
    /\ Stores([setting EXCEPT !.token = w])
    /\ Put(w, [worker[w] EXCEPT !.has.token = w, !.stage = "append"])
    /\ UNCHANGED <<hasFile, env, known>>

AppendToEnv(w) ==
    /\ worker[w].stage = "append"
    /\ env' = IF hasFile THEN Or(env, worker[w].has) ELSE env
    /\ Put(w, [worker[w] EXCEPT !.stage = "up"])
    /\ UNCHANGED <<hasFile, setting, known, raced>>

\* What a request of the worker carries.
Presents(w) == Or(worker[w].own, setting)

Refused(w) == \E k \in known : k.id = Presents(w).id /\ k # Presents(w)

Register(w) ==
    /\ worker[w].stage = "up" /\ ~Refused(w)
    /\ known' = known \cup {Presents(w)}
    /\ UNCHANGED <<hasFile, env, setting, worker, raced>>

\* A worker is stopped, or dies at any point of its start.
Stop(w) ==
    /\ worker[w] # Down
    /\ Put(w, Down)
    /\ UNCHANGED <<hasFile, env, setting, known, raced>>

Next == \E w \in Workers :
    \/ Boot(w) \/ Look(w) \/ SaveId(w) \/ SaveToken(w) \/ AppendToEnv(w)
    \/ Register(w) \/ Stop(w)

Spec == Init /\ [][Next]_vars
-----------------------------------------------------------------------------
(***************************************************************************)
(* Properties.                                                             *)
(***************************************************************************)
\* Whatever is restarted and wherever a start breaks off, every worker that
\* runs presents the one identity the server knows, unless two workers made
\* one at the same time (telemetry.py 56-108).
OneIdentity ==
    ~raced => \A w \in Workers : worker[w].stage = "up" => known \subseteq {Presents(w)}
=============================================================================
