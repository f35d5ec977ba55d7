------------------------------ MODULE CaseTree ------------------------------
(***************************************************************************)
(* The hierarchy of the cases.  Setting a parent walks from the new parent *)
(* to the top, one row at a time, refuses when it meets the case itself,   *)
(* and stores the link; no row is locked, and nothing checks at the commit *)
(* that the walk is still true.  The session keeps the rows it has read: a *)
(* walk that comes back to one of them goes round for ever.                *)
(***************************************************************************)
CONSTANTS Cases, Users, None

VARIABLES
    parent,     \* [Cases -> Cases \cup {None}]
    walk,       \* [Users -> the user's request]
    late        \* history: the cases whose parent was set on an old walk

vars == <<parent, walk, late>>

Idle == [stage |-> "idle", case |-> None, to |-> None, own |-> None,
         seen |-> {}, up |-> None, old |-> FALSE]

Walks == [stage : {"idle", "loaded", "walking"}, case : Cases \cup {None},
          to : Cases \cup {None}, own : Cases \cup {None},
          seen : SUBSET Cases, up : Cases \cup {None}, old : BOOLEAN]

TypeOK == /\ parent \in [Cases -> Cases \cup {None}]
          /\ walk \in [Users -> Walks]
          /\ late \in SUBSET Cases

Init == /\ parent = [c \in Cases |-> None]
        /\ walk = [u \in Users |-> Idle]
        /\ late = {}

\* The case is loaded; a case is not made its own parent.
Load(u, c, p) ==
    /\ walk[u].stage = "idle" /\ p # c
    /\ walk' = [walk EXCEPT ![u] = [Idle EXCEPT !.stage = "loaded", !.case = c,
                                    !.to = p, !.own = parent[c]]]
    /\ UNCHANGED <<parent, late>>

\* Wrong variant: every turn looks at the new parent's row again.
ReadFirst(u, s) == walk' = [walk EXCEPT ![u].stage = "walking", ![u].seen = @ \cup {s},
                                        ![u].up = parent[walk[u].to]]

\* The row of the case s is read, with the parent it has now.
Read(u, s) == walk' = [walk EXCEPT ![u].stage = "walking", ![u].seen = @ \cup {s},
                                   ![u].up = parent[s]]

WalkFrom(u) == /\ walk[u].stage = "loaded" /\ walk[u].to # None
               /\ Read(u, walk[u].to)
               /\ UNCHANGED <<parent, late>>

WalkUp(u) == /\ walk[u].stage = "walking"
             /\ walk[u].up \notin walk[u].seen \cup {None, walk[u].case}
             /\ Read(u, walk[u].up)
             /\ UNCHANGED <<parent, late>>

\* Wrong variant: only the new parent itself is looked at.
WalkedOnce(u) == \/ walk[u].stage = "walking" /\ walk[u].up # walk[u].case
                 \/ walk[u].stage = "loaded" /\ walk[u].to = None

\* The walk has reached the top without meeting the case, or there is none.
Walked(u) == \/ walk[u].stage = "walking" /\ walk[u].up = None
             \/ walk[u].stage = "loaded" /\ walk[u].to = None

\* The link is in the UPDATE if it is another than the loaded one.
SetParent(u) ==
    /\ Walked(u)
    /\ LET c == walk[u].case
       IN  IF walk[u].to # walk[u].own
           THEN /\ parent' = [parent EXCEPT ![c] = walk[u].to]
                /\ late' = IF walk[u].old THEN late \cup {c} ELSE late \ {c}
                /\ walk' = [v \in Users |->
                              IF v = u THEN Idle
                              ELSE [walk[v] EXCEPT !.old = walk[v].stage # "idle"]]
           ELSE walk' = [walk EXCEPT ![u] = Idle] /\ UNCHANGED <<parent, late>>

\* "This would create a circular reference", or the request fails.
Abandon(u) == /\ walk[u].stage \in {"loaded", "walking"}
              /\ walk[u].up \notin walk[u].seen
              /\ walk' = [walk EXCEPT ![u] = Idle]
              /\ UNCHANGED <<parent, late>>

Next == \E u \in Users :
            \/ \E c \in Cases, p \in Cases \cup {None} : Load(u, c, p)
            \/ WalkFrom(u) \/ WalkUp(u) \/ SetParent(u) \/ Abandon(u)

Spec == Init /\ [][Next]_vars
----------------------------------------------------------------------------
(***************************************************************************)
(* Properties.                                                             *)
(***************************************************************************)
\* The sets of cases that hold what is above their members.
Closed == {C \in SUBSET Cases : \A c \in C : parent[c] \in C \cup {None}}

\* c is on a circle: whatever holds all that is above its parent holds c.
OnCircle(c) == parent[c] # None /\ \A C \in Closed : parent[c] \in C => c \in C

\* "This would create a circular reference": cases that each have their parent
\* among them - a circle, and what leads to it - are there only when one of the
\* links between them was stored on a walk that was not true any more.
NoCircle ==
    \A C \in (SUBSET Cases) \ {{}} : (\A c \in C : parent[c] \in C) => C \cap late # {}

\* A request goes round for ever only over a circle that is there, or when the
\* hierarchy was changed under its walk.
EndlessOnlyOnCircle ==
    \A u \in Users : walk[u].up \in walk[u].seen /\ ~walk[u].old => OnCircle(walk[u].up)
=============================================================================
