-------------------------- MODULE OperatorConsole --------------------------
(***************************************************************************)
(* The operator's release page (apps/web): the hash router, the hook that  *)
(* loads what a page shows (lib/useAsync.ts) and the two clicks that       *)
(* resolve a review (views/ReleaseDetail.tsx). Requests overlap, answers   *)
(* arrive in any order, and the release changes under the page.            *)
(*                                                                         *)
(* Abstractions.  A release is a version that only rises, paused at every  *)
(* other one. The page's second load, of the operator's queue, works as    *)
(* the first and is left out: the review it finds is looked up by the      *)
(* release shown. The second click and its answer are one step.            *)
(***************************************************************************)
EXTENDS Naturals

CONSTANTS
  Shown,       \* the releases the console can route to
  Changes,     \* bound: versions of a release
  Loads        \* bound: loads the page makes

ASSUME ConsoleAssumption == Changes \in Nat \ {0} /\ Loads \in Nat

VARIABLES
  revision,  \* the server's releases: the version of each
  route,     \* the release in the address bar
  view,      \* AsyncState: [status, release, version]
  loads,     \* loads begun
  wanted,    \* the load whose controller is not aborted
  calls,     \* loads under way: [load, release, version], version 0 until read
  armed,     \* the release whose resolution the first click chose, or "none"
  committed  \* the second clicks: [armed, resolved]

consoleVars == <<revision, route, view, loads, wanted, calls, armed, committed>>

Paused(v) == v % 2 = 1

Empty(status) == [status |-> status, release |-> "none", version |-> 0]

ConsoleTypeOK ==
  /\ revision \in [Shown -> 1 .. Changes]
  /\ route \in Shown /\ wanted \in 0 .. loads
  /\ view.status \in {"loading", "ready", "failed"}
  /\ view.status = "ready" => view.version \in 1 .. Changes
  /\ armed \in Shown \cup {"none"}

ConsoleInit ==
  /\ revision = [r \in Shown |-> 1]
  /\ route \in Shown
  /\ view = Empty("loading")
  /\ loads = 1 /\ wanted = 1
  /\ calls = {[load |-> 1, release |-> route, version |-> 0]}
  /\ armed = "none" /\ committed = {}

\* The release moves: by a gate, a sweep or another operator.
Change(r) ==
  /\ revision[r] < Changes
  /\ revision' = [revision EXCEPT ![r] = @ + 1]
  /\ UNCHANGED <<route, view, loads, wanted, calls, armed, committed>>

\* The effect of useAsync: the load before is aborted; data on the screen stays
\* until the answer, whichever release it is of.
Load(r) ==
  /\ loads < Loads
  /\ loads' = loads + 1 /\ wanted' = loads + 1
  /\ calls' = calls \cup {[load |-> loads + 1, release |-> r, version |-> 0]}
  /\ view' = IF view.status = "ready" THEN view ELSE Empty("loading")

Navigate(r) == route # r /\ route' = r /\ Load(r) /\ UNCHANGED <<revision, armed, committed>>

Refresh == Load(route) /\ UNCHANGED <<revision, route, armed, committed>>

\* GET /v1/releases/:id reads the release.
Serve(c) ==
  /\ c.version = 0
  /\ calls' = (calls \ {c}) \cup {[c EXCEPT !.version = revision[c.release]]}
  /\ UNCHANGED <<revision, route, view, loads, wanted, armed, committed>>

\* Mutant of Current: no answer is discarded.
CurrentAlways(c) == TRUE

\* !controller.signal.aborted
Current(c) == c.load = wanted

\* The answer, or the failure, of a load. The form that resolves a review lives
\* while a paused release is shown, and what was armed lives with it.
Arrive(c) ==
  /\ calls' = calls \ {c}
  /\ view' \in IF ~Current(c) THEN {view}
              ELSE {Empty("failed")} \cup
                   {[status |-> "ready", release |-> c.release, version |-> v] : v \in {c.version} \ {0}}
  /\ armed' = IF Paused(view'.version) THEN armed ELSE "none"
  /\ UNCHANGED <<revision, route, loads, wanted, committed>>

\* The first click chooses a resolution for what is shown; the second sends it
\* for the review of what is shown then, and reloads, unless the server refused.
Arm ==
  /\ Paused(view.version) /\ armed = "none"
  /\ armed' = view.release
  /\ UNCHANGED <<revision, route, view, loads, wanted, calls, committed>>

Confirm ==
  /\ Paused(view.version) /\ armed # "none"
  /\ committed' = committed \cup {[armed |-> armed, resolved |-> view.release]}
  /\ \/ armed' = "none" /\ Load(route)
     \/ UNCHANGED <<view, loads, wanted, calls, armed>>
  /\ UNCHANGED <<revision, route>>

ConsoleNext ==
  \/ \E r \in Shown : Change(r) \/ Navigate(r)
  \/ Refresh \/ Arm \/ Confirm
  \/ \E c \in calls : Serve(c) \/ Arrive(c)

ConsoleSpec == ConsoleInit /\ [][ConsoleNext]_consoleVars

\* A page never repaints a release with an older reading of it, whatever order
\* the answers arrive in (useAsync.ts, "Stale responses are discarded").
ShownNeverGoesBack ==
  [][view.status = "ready" /\ view'.status = "ready" /\ view.release = view'.release
       => view.version <= view'.version]_view

\* useAsync.ts: a first load shows a skeleton, so what is shown is what is routed.
ShownIsRouted == view.status = "ready" => view.release = route

\* ReleaseDetail.tsx: two clicks authorize one release, "not reachable by one
\* stray click".
TwoClicksAreOfOneRelease == \A c \in committed : c.armed = c.resolved
============================================================================
