---------------------------- MODULE BuyerScreen ----------------------------
(***************************************************************************)
(* The buyer's page (apps/web, AgentSession.tsx) over the routes it calls  *)
(* (apps/api, routes/agent.ts and routes/dev.ts): a sequence of requests,  *)
(* each of which may be lost before or after the server has acted on it,   *)
(* claims written on the page on the way, and a timeline read at the end.  *)
(*                                                                         *)
(* Abstractions.  One purchase of one session.  What the gates and the     *)
(* provider answer is a free choice; ReleaseService decides it.  A gate    *)
(* and the provider call behind it are one step here, since the page can   *)
(* see nothing between the two; an answer may be lost after it.            *)
(***************************************************************************)
EXTENDS ReleaseFSM

VARIABLES
  scenario,  \* "clean" or "drift": whether the page has the merchant reprice
  at,        \* the request the page is waiting for, or "finished"
  wire,      \* the request on its way, or the answer to it
  claims,    \* what the page has written
  error,     \* the page shows an error
  timeline,  \* the server's account the page holds, or NoTimeline
  acting,    \* what the server is still doing for the page
  mandate, consulted,  \* a mandate was derived; the merchant was read
  bought,    \* the purchase row, and with it the hold, exist
  release,   \* the release's state, "none" before it exists
  ordered,   \* the release is bound to a provider order
  hold,      \* "none", "held", "settled" or "released"
  gates,     \* the evaluations recorded: [gate, verdict]
  asked,     \* the provider was asked to capture
  moved      \* the provider took the money

pageVars   == <<scenario, at, claims, error, timeline>>
moneyVars  == <<hold, gates, asked, moved>>
worldVars  == <<mandate, consulted, bought, release, ordered, moneyVars>>
screenVars == <<pageVars, wire, acting, worldVars>>

\* What travels: a request, or what its response is to the page. A refusal's
\* body carries `error`, which requestAllowingRefusal fills in on every 422,
\* decided or not; every other status throws.
Request   == [is |-> "request"]
Exception == [is |-> "exception"]
Refusal   == [is |-> "refusal"]
Body(v)   == IF v = "DENY" THEN Refusal ELSE [is |-> "body", verdict |-> v]

NoTimeline == [is |-> "none"]
Account(s, g) == [is |-> "timeline", purchase |-> bought, state |-> s, gates |-> g]

ScreenInit ==
  /\ scenario \in {"clean", "drift"}
  /\ at = "price" /\ wire = Request /\ acting = "none"
  /\ claims = {} /\ error = FALSE /\ timeline = NoTimeline
  /\ mandate = FALSE /\ consulted = FALSE /\ bought = FALSE
  /\ release = "none" /\ ordered = FALSE /\ hold = "none" /\ gates = {}
  /\ asked = FALSE /\ moved = FALSE

----------------------------------------------------------------------------
(* The server.                                                             *)

\* An answer reaches the page only while it still waits for that request; the
\* handler goes on without it.
Reply(step, answer) == wire' = IF at = step /\ wire = Request THEN answer ELSE wire

\* resolveHoldIfTerminal, for the release as the request left it.
Resolved(s) == IF hold # "held" THEN hold
               ELSE IF s \in MoneyHasMoved THEN "settled"
               ELSE IF s \in Terminal THEN "released" ELSE "held"

\* Moving the catalogue's price and running the agent touch no purchase.
ServeCatalog ==
  /\ at \in {"price", "drift"} /\ wire = Request
  /\ wire' \in {Body("ALLOW"), Exception}
  /\ UNCHANGED <<pageVars, acting, worldVars>>

ServeRun ==
  /\ at = "run" /\ wire = Request
  /\ wire' \in {Body("ALLOW"), Exception}
  /\ UNCHANGED <<pageVars, acting, worldVars>>

Accept ==
  /\ at \in {"buy", "authorize", "capture"} /\ wire = Request /\ acting = "none"
  /\ acting' = at
  /\ UNCHANGED <<pageVars, wire, worldVars>>

\* requestPurchase up to the hold: refused on the session's own state; refused
\* after the mandate was derived and the merchant read; or the hold taken.
ServePurchase ==
  /\ acting = "buy"
  /\ \/ \E answer \in {Refusal, Exception} :
          Reply("buy", answer) /\ acting' = "none"
          /\ UNCHANGED <<mandate, consulted, bought, hold>>
     \/ /\ mandate' = TRUE /\ consulted' = TRUE
        /\ \/ \E answer \in {Refusal, Exception} :
                Reply("buy", answer) /\ acting' = "none" /\ UNCHANGED <<bought, hold>>
           \/ bought' = TRUE /\ hold' = "held" /\ acting' = "order" /\ UNCHANGED wire
  /\ UNCHANGED <<pageVars, release, ordered, gates, asked, moved>>

\* The order gate and the call behind it, or a fault before the gate.
OrderOutcomes == {<<"DENY", "DENIED">>, <<"PAUSE", "PAUSED">>, <<"ALLOW", "ORDER_CREATED">>,
                  <<"ALLOW", "ORDER_INDETERMINATE">>, <<"ALLOW", "FAILED">>}

ServeOrderGate ==
  /\ acting = "order"
  /\ acting' = "none"
  /\ \/ Reply("buy", Exception) /\ UNCHANGED <<release, ordered, gates, hold>>
     \/ \E o \in OrderOutcomes :
          /\ release' = o[2] /\ ordered' = (o[2] = "ORDER_CREATED")
          /\ gates' = {[gate |-> "ORDER_CREATION", verdict |-> o[1]]}
          /\ hold' = Resolved(o[2])
          /\ Reply("buy", Body(o[1]))
  /\ UNCHANGED <<pageVars, mandate, consulted, bought, asked, moved>>

\* simulate-authorization: a signed event through the webhook route.
ServeAuthorize ==
  /\ acting = "authorize"
  /\ acting' = "none"
  /\ IF ordered
     THEN /\ Reply("authorize", Body("ALLOW"))
          /\ release' = IF Declares(release, "PAYMENT_AUTHORIZED")
                        THEN To["PAYMENT_AUTHORIZED"] ELSE release
     ELSE Reply("authorize", Exception) /\ UNCHANGED release
  /\ UNCHANGED <<pageVars, mandate, consulted, bought, ordered, moneyVars>>

\* The capture gate and the call behind it: the verdict, the state reached,
\* whether the provider was asked and whether it took the money.
CaptureOutcomes ==
  {<<"DENY", "DENIED", FALSE, FALSE>>, <<"PAUSE", "PAUSED", FALSE, FALSE>>,
   <<"ALLOW", "CAPTURED", TRUE, TRUE>>, <<"ALLOW", "CAPTURE_REJECTED", TRUE, FALSE>>,
   <<"ALLOW", "CAPTURE_INDETERMINATE", TRUE, TRUE>>,
   <<"ALLOW", "CAPTURE_INDETERMINATE", TRUE, FALSE>>}

ServeCapture ==
  /\ acting = "capture"
  /\ acting' = "none"
  /\ IF release # "PAYMENT_AUTHORIZED"
     THEN Reply("capture", Exception) /\ UNCHANGED <<release, moneyVars>>
     ELSE \E o \in CaptureOutcomes :
            /\ release' = o[2] /\ asked' = o[3] /\ moved' = o[4]
            /\ gates' = gates \cup {[gate |-> "CAPTURE", verdict |-> o[1]]}
            /\ hold' = Resolved(o[2])
            /\ Reply("capture", Body(o[1]))
  /\ UNCHANGED <<pageVars, mandate, consulted, bought, ordered>>

\* The timeline route reads the release first and what its gates found later.
ServeTimeline ==
  /\ at = "timeline"
  /\ \/ /\ wire = Request
        /\ wire' \in {Exception, [Account(release, {}) EXCEPT !.is = "reading"]}
     \/ /\ wire.is = "reading"
        /\ wire' = Account(wire.state, IF wire.state = "none" THEN {} ELSE gates)
  /\ UNCHANGED <<pageVars, acting, worldVars>>

\* Sweeps and provider events move the release meanwhile.
Behind ==
  /\ \E t \in {"ORDER_RECONCILED_FOUND", "ORDER_RECONCILED_ABSENT", "PAYMENT_FAILED",
               "CAPTURE_RECONCILED_CAPTURED", "CAPTURE_RECONCILED_NOT_CAPTURED",
               "SETTLEMENT_CONFIRMED"} :
       /\ Declares(release, t)
       /\ t = "CAPTURE_RECONCILED_CAPTURED" => moved
       /\ t = "CAPTURE_RECONCILED_NOT_CAPTURED" => ~moved
       /\ release' = To[t]
       /\ ordered' = (ordered \/ t = "ORDER_RECONCILED_FOUND")
  /\ UNCHANGED <<pageVars, wire, acting, mandate, consulted, bought, moneyVars>>

----------------------------------------------------------------------------
(* The page.                                                               *)

Ask(step) == at' = step /\ wire' = Request

\* catch and finally: the timeline is read whatever happened, and an error of
\* that read is kept unless one is shown already.
GiveUp ==
  /\ error' = TRUE
  /\ IF at = "timeline" THEN at' = "finished" /\ UNCHANGED wire ELSE Ask("timeline")

\* No answer, or one that throws. A request can be lost on either way.
PageFails ==
  /\ at # "finished"
  /\ GiveUp
  /\ UNCHANGED <<scenario, claims, timeline, acting, worldVars>>

Write(s) == claims' = claims \cup s

\* runScenario: what each answer makes the page write and ask next.
PageShops ==
  /\ at \in {"price", "run"} /\ wire.is = "body"
  /\ Ask(IF at = "price" THEN "run" ELSE "buy")
  /\ UNCHANGED <<scenario, claims, error, timeline, acting, worldVars>>

PageBought ==
  /\ at = "buy" /\ wire.is \in {"body", "refusal"}
  /\ IF wire = Refusal THEN Write({"no_mandate", "never_consulted"})
     ELSE Write({"terms_bound"})
  /\ Ask(IF wire = Body("ALLOW") THEN "authorize" ELSE "timeline")
  /\ UNCHANGED <<scenario, error, timeline, acting, worldVars>>

PageAuthorized ==
  /\ at \in {"authorize", "drift"} /\ wire.is = "body"
  /\ Ask(IF at = "authorize" /\ scenario = "drift" THEN "drift" ELSE "capture")
  /\ UNCHANGED <<scenario, claims, error, timeline, acting, worldVars>>

PageCaptured ==
  /\ at = "capture" /\ wire.is \in {"body", "refusal"}
  /\ Write(IF wire = Body("ALLOW") THEN {"captured"} ELSE {"never_asked", "hold_released"})
  /\ Ask("timeline")
  /\ UNCHANGED <<scenario, error, timeline, acting, worldVars>>

\* Mutant of MovedOf: money is taken to have moved when the capture was allowed.
MovedOfVerdict(s, g) == [gate |-> "CAPTURE", verdict |-> "ALLOW"] \in g

\* moneyMoved of the timeline: from the release's state, never from a verdict.
MovedOf(s, g) == s \in MoneyHasMoved

\* The headline of a purchase: charged, or never asked.
PageEnds ==
  /\ at = "timeline" /\ wire.is = "timeline"
  /\ at' = "finished" /\ timeline' = wire
  /\ IF ~wire.purchase THEN UNCHANGED claims
     ELSE Write({IF MovedOf(wire.state, wire.gates) THEN "charged" ELSE "never_asked"})
  /\ UNCHANGED <<scenario, wire, error, acting, worldVars>>

Page == PageShops \/ PageBought \/ PageAuthorized \/ PageCaptured \/ PageEnds

ServerSteps == ServeCatalog \/ ServeRun \/ Accept \/ ServePurchase \/ ServeOrderGate \/ ServeAuthorize
               \/ ServeCapture \/ ServeTimeline

ScreenNext == ServerSteps \/ Behind \/ PageFails \/ Page

ScreenSpec == ScreenInit /\ [][ScreenNext]_screenVars

----------------------------------------------------------------------------

ScreenTypeOK ==
  /\ at \in {"price", "run", "buy", "authorize", "drift", "capture", "timeline", "finished"}
  /\ acting \in {"none", "buy", "order", "authorize", "capture"}
  /\ release \in ReleaseState \cup {"none"}
  /\ hold \in {"none", "held", "settled", "released"}

\* A page that says the buyer was charged is right, whatever answers were lost
\* and whatever moved behind it (AgentSession.tsx, Verdict).
ChargedIsTrue == "charged" \in claims => moved

\* The headline of AgentSession.tsx: "the provider was never asked to capture".
NeverAskedIsTrue == "never_asked" \in claims => ~asked

\* "No mandate created" and "The merchant was never consulted", of a refusal.
NoMandateIsTrue == "no_mandate" \in claims => ~mandate /\ ~consulted

\* "Your budget hold was released", of every capture that was not allowed.
HoldReleasedIsTrue == "hold_released" \in claims => hold = "released"

\* "Gate 2 - ALLOW - captured", of every capture that was allowed.
CapturedIsTrue == "captured" \in claims => moved
============================================================================
