-------------------------- MODULE Clients_proofs --------------------------
(***************************************************************************)
(* What the clients of the API rely on, for every instance: the operator's *)
(* console (OperatorConsole), the buyer's page (BuyerScreen), the buyer    *)
(* agent (AgentRuntime), and the requests any of them repeats              *)
(* (HttpIdempotency).                                                      *)
(*                                                                         *)
(* The four share no state. Each part states what its component keeps      *)
(* between two steps, proves that every step keeps it, and concludes.      *)
(***************************************************************************)
EXTENDS OperatorConsole, BuyerScreen, AgentRuntime, HttpIdempotency,
        FiniteSetTheorems, WellFoundedInduction, TLAPS

-----------------------------------------------------------------------------
(* The operator's console *)

\* What the server's releases, the screen and the loads under way are.
ConsoleValues ==
  /\ revision \in [Shown -> 1 .. Changes]
  /\ route \in Shown
  /\ loads \in Nat
  /\ wanted = loads
  /\ view.status = "ready" => view.release \in Shown /\ view.version \in Nat
  /\ calls \subseteq [load : 1 .. loads, release : Shown, version : 0 .. Changes]

\* Nothing read is newer than the release, and a load is under way once.
ReadingsArePast ==
  /\ view.status = "ready" => view.version <= revision[view.release]
  /\ \A c \in calls : c.version <= revision[c.release]
  /\ \A c, d \in calls : c.load = d.load => c = d

\* The load that may repaint the screen has read no older version than the
\* screen shows of the release: it began after the screen was painted.
WantedIsNoOlder ==
  \A c \in calls : c.load = wanted /\ c.version # 0 /\ view.status = "ready"
                     /\ view.release = c.release => view.version <= c.version

ConsoleInv == ConsoleValues /\ ReadingsArePast /\ WantedIsNoOlder

LEMMA ConsoleStarts == ConsoleInit => ConsoleInv
  BY ConsoleAssumption
     DEF ConsoleInit, ConsoleInv, ConsoleValues, ReadingsArePast, WantedIsNoOlder, Empty

\* A load that begins has read nothing, and becomes the one that is wanted.
LEMMA LoadKeeps ==
  ASSUME ConsoleInv, NEW r \in Shown, Load(r), revision' = revision, route' \in Shown
  PROVE  ConsoleInv'
<1> DEFINE new == [load |-> loads + 1, release |-> r, version |-> 0]
<1>1. /\ loads' = loads + 1 /\ wanted' = loads + 1
      /\ calls' = calls \cup {new}
      /\ view'.status = "ready" => view' = view
  BY DEF Load, Empty
<1>2. \A c \in calls : c.load \in 1 .. loads /\ c.release \in Shown /\ c.version \in 0 .. Changes
  BY DEF ConsoleInv, ConsoleValues
<1>3. new.load = loads + 1 /\ new.release = r /\ new.version = 0
  OBVIOUS
<1> HIDE DEF new
<1>4. ConsoleValues'
  <2>1. new \in [load : 1 .. loads', release : Shown, version : 0 .. Changes]
    BY <1>1, ConsoleAssumption DEF new, ConsoleInv, ConsoleValues
  <2>2. calls \subseteq [load : 1 .. loads', release : Shown, version : 0 .. Changes]
    BY <1>1 DEF ConsoleInv, ConsoleValues
  <2> QED BY <1>1, <2>1, <2>2 DEF ConsoleInv, ConsoleValues
<1>5. ReadingsArePast'
  <2>1. \A c \in calls' : c.version <= revision[c.release]
    BY <1>1, <1>3 DEF ConsoleInv, ConsoleValues, ReadingsArePast
  <2>2. \A c, d \in calls' : c.load = d.load => c = d
    BY <1>1, <1>2, <1>3 DEF ConsoleInv, ConsoleValues, ReadingsArePast
  <2> QED BY <1>1, <2>1, <2>2 DEF ConsoleInv, ReadingsArePast
<1>6. WantedIsNoOlder'
  BY <1>1, <1>2, <1>3 DEF ConsoleInv, ConsoleValues, WantedIsNoOlder
<1> QED BY <1>4, <1>5, <1>6 DEF ConsoleInv

LEMMA ConsoleKept ==
  ASSUME ConsoleInv, [ConsoleNext]_consoleVars
  PROVE  ConsoleInv'
<1>1. CASE UNCHANGED consoleVars
  BY <1>1 DEF ConsoleInv, ConsoleValues, ReadingsArePast, WantedIsNoOlder, consoleVars
<1>2. ASSUME NEW r \in Shown, Change(r) PROVE ConsoleInv'
  <2>1. \A x \in Shown : revision[x] \in Nat /\ revision'[x] \in Nat /\ revision[x] <= revision'[x]
    BY <1>2, ConsoleAssumption DEF Change, ConsoleInv, ConsoleValues
  <2>2. ConsoleValues'
    BY <1>2, ConsoleAssumption DEF Change, ConsoleInv, ConsoleValues
  <2>3. ReadingsArePast'
    BY <1>2, <2>1 DEF Change, ConsoleInv, ConsoleValues, ReadingsArePast
  <2> QED BY <1>2, <2>2, <2>3 DEF Change, ConsoleInv, WantedIsNoOlder
<1>3. ASSUME NEW r \in Shown, Navigate(r) PROVE ConsoleInv'
  BY <1>3, LoadKeeps DEF Navigate
<1>4. CASE Refresh
  BY <1>4, LoadKeeps DEF Refresh, ConsoleInv, ConsoleValues
<1>5. CASE Arm
  BY <1>5 DEF Arm, ConsoleInv, ConsoleValues, ReadingsArePast, WantedIsNoOlder
<1>6. CASE Confirm
  <2>1. CASE Load(route)
    BY <1>6, <2>1, LoadKeeps DEF Confirm, ConsoleInv, ConsoleValues
  <2>2. CASE UNCHANGED <<view, loads, wanted, calls, armed>>
    BY <1>6, <2>2 DEF Confirm, ConsoleInv, ConsoleValues, ReadingsArePast, WantedIsNoOlder
  <2> QED BY <1>6, <2>1, <2>2 DEF Confirm
<1>7. ASSUME NEW c \in calls, Serve(c) PROVE ConsoleInv'
  <2> DEFINE read == [c EXCEPT !.version = revision[c.release]]
  <2>1. /\ calls' = (calls \ {c}) \cup {read}
        /\ UNCHANGED <<revision, route, view, loads, wanted>>
    BY <1>7 DEF Serve
  <2>2. c \in [load : 1 .. loads, release : Shown, version : 0 .. Changes]
    BY DEF ConsoleInv, ConsoleValues
  <2>3. /\ read \in [load : 1 .. loads, release : Shown, version : 0 .. Changes]
        /\ read.load = c.load /\ read.release = c.release /\ read.version = revision[c.release]
    BY <2>2 DEF ConsoleInv, ConsoleValues
  <2> HIDE DEF read
  <2>4. ConsoleValues'
    BY <2>1, <2>3 DEF ConsoleInv, ConsoleValues
  <2>5. ReadingsArePast'
    <3>1. \A d, e \in calls' : d.load = e.load => d = e
      BY <2>1, <2>3 DEF ConsoleInv, ReadingsArePast
    <3>2. read.version <= revision[read.release]
      BY <2>2, <2>3 DEF ConsoleInv, ConsoleValues
    <3> QED BY <2>1, <3>1, <3>2 DEF ConsoleInv, ReadingsArePast
  <2>6. WantedIsNoOlder'
    BY <2>1, <2>3 DEF ConsoleInv, ReadingsArePast, WantedIsNoOlder
  <2> QED BY <2>4, <2>5, <2>6 DEF ConsoleInv
<1>8. ASSUME NEW c \in calls, Arrive(c) PROVE ConsoleInv'
  <2>1. /\ calls' = calls \ {c}
        /\ UNCHANGED <<revision, route, loads, wanted>>
    BY <1>8 DEF Arrive
  <2>2. c \in [load : 1 .. loads, release : Shown, version : 0 .. Changes]
    BY DEF ConsoleInv, ConsoleValues
  <2>3. CASE view' = view
    BY <2>1, <2>3 DEF ConsoleInv, ConsoleValues, ReadingsArePast, WantedIsNoOlder
  <2>4. CASE view'.status # "ready"
    BY <2>1, <2>4 DEF ConsoleInv, ConsoleValues, ReadingsArePast, WantedIsNoOlder
  <2>5. CASE Current(c) /\ view' = [status |-> "ready", release |-> c.release, version |-> c.version]
    <3>1. \A d \in calls' : d.load # wanted
      BY <2>1, <2>5 DEF Current, ConsoleInv, ReadingsArePast
    <3> QED BY <2>1, <2>2, <2>5, <3>1
            DEF ConsoleInv, ConsoleValues, ReadingsArePast, WantedIsNoOlder
  <2> QED BY <1>8, <2>3, <2>4, <2>5 DEF Arrive, Empty
<1> QED BY <1>1, <1>2, <1>3, <1>4, <1>5, <1>6, <1>7, <1>8 DEF ConsoleNext

\* The screen never replaces a version of a release by an older one of it
\* (useAsync.ts: the answer of an aborted load is discarded).
THEOREM ShownOnlyForward == ConsoleSpec => ShownNeverGoesBack
<1>1. ConsoleInv /\ [ConsoleNext]_consoleVars
      => [view.status = "ready" /\ view'.status = "ready" /\ view.release = view'.release
            => view.version <= view'.version]_view
  <2> SUFFICES ASSUME ConsoleInv, [ConsoleNext]_consoleVars, view' # view,
                      view.status = "ready", view'.status = "ready",
                      view.release = view'.release
               PROVE  view.version <= view'.version
    OBVIOUS
  <2>1. ASSUME NEW r, Load(r) PROVE FALSE
    BY <2>1 DEF Load
  <2>2. PICK c \in calls : Arrive(c)
    BY <2>1 DEF ConsoleNext, Change, Navigate, Refresh, Arm, Confirm, Serve, consoleVars
  <2>3. /\ Current(c) /\ c.version # 0
        /\ view' = [status |-> "ready", release |-> c.release, version |-> c.version]
    BY <2>2 DEF Arrive, Empty
  <2> QED BY <2>3 DEF Current, ConsoleInv, WantedIsNoOlder
<1> QED BY <1>1, ConsoleStarts, ConsoleKept, PTL DEF ConsoleSpec, ShownNeverGoesBack

-----------------------------------------------------------------------------
(* The buyer's page *)

\* Before the purchase is served there is no release: only the order gate makes
\* one, and the page asks to buy once.
NoReleaseYet ==
  /\ acting \in {"buy", "order"} => release = "none"
  /\ at \in {"price", "run"} => acting = "none" /\ release = "none"
  /\ at = "buy" => acting \in {"none", "buy", "order"}
  /\ at = "buy" /\ wire = Request => release = "none"

\* The release says that money has moved only when the provider took it, and
\* money once taken leaves the release captured, settled or not yet known.
StateTellsMoney ==
  /\ release \in MoneyHasMoved => moved
  /\ moved => release \in MoneyHasMoved \cup {"CAPTURE_INDETERMINATE"}

\* An account on its way to the page tells no charge that was not made.
AccountTellsMoney ==
  wire.is \in {"reading", "timeline"} /\ wire.state \in MoneyHasMoved => moved

ScreenInv == NoReleaseYet /\ StateTellsMoney /\ AccountTellsMoney /\ ChargedIsTrue

\* What a sweep or a provider event may do to the release of this page.
LEMMA BehindMoves ==
  ASSUME Behind
  PROVE  /\ release' # release => release # "none"
         /\ release' \in MoneyHasMoved => release \in MoneyHasMoved \/ moved
         /\ moved /\ release \in MoneyHasMoved \cup {"CAPTURE_INDETERMINATE"}
              => release' \in MoneyHasMoved
<1>1. PICK t \in {"ORDER_RECONCILED_FOUND", "ORDER_RECONCILED_ABSENT", "PAYMENT_FAILED",
                  "CAPTURE_RECONCILED_CAPTURED", "CAPTURE_RECONCILED_NOT_CAPTURED",
                  "SETTLEMENT_CONFIRMED"} :
        /\ release \in From[t]
        /\ t = "CAPTURE_RECONCILED_CAPTURED" => moved
        /\ t = "CAPTURE_RECONCILED_NOT_CAPTURED" => ~moved
        /\ release' = To[t]
  BY DEF Behind, Declares
<1> QED BY <1>1 DEF From, To, MoneyHasMoved

LEMMA ScreenStarts == ScreenInit => ScreenInv
  BY DEF ScreenInit, ScreenInv, NoReleaseYet, StateTellsMoney, AccountTellsMoney,
         ChargedIsTrue, MoneyHasMoved, Request

LEMMA ServerKeeps ==
  ASSUME ScreenInv, ServerSteps \/ Behind
  PROVE  ScreenInv'
<1> USE DEF ScreenInv, NoReleaseYet, StateTellsMoney, AccountTellsMoney, ChargedIsTrue,
            Request, Exception, Refusal, Body, Reply
<1>1. CASE ServeCatalog
  BY <1>1 DEF ServeCatalog, pageVars, worldVars, moneyVars
<1>2. CASE ServeRun
  BY <1>2 DEF ServeRun, pageVars, worldVars, moneyVars
<1>3. CASE Accept
  BY <1>3 DEF Accept, pageVars, worldVars, moneyVars
<1>4. CASE ServePurchase
  BY <1>4 DEF ServePurchase, pageVars
<1>5. CASE ServeOrderGate
  BY <1>5 DEF ServeOrderGate, OrderOutcomes, MoneyHasMoved, pageVars
<1>6. CASE ServeAuthorize
  <2>1. Declares(release, "PAYMENT_AUTHORIZED") => release = "ORDER_CREATED"
    BY DEF Declares, From
  <2>2. To["PAYMENT_AUTHORIZED"] = "PAYMENT_AUTHORIZED"
    BY DEF To
  <2> QED BY <1>6, <2>1, <2>2 DEF ServeAuthorize, MoneyHasMoved, pageVars, moneyVars
<1>7. CASE ServeCapture
  <2>1. CASE UNCHANGED <<release, moneyVars>>
    BY <1>7, <2>1 DEF ServeCapture, pageVars, moneyVars
  <2>2. CASE release = "PAYMENT_AUTHORIZED"
    <3>1. ~moved
      BY <2>2 DEF MoneyHasMoved
    <3>2. PICK o \in CaptureOutcomes :
            release' = o[2] /\ moved' = o[4] /\ Reply("capture", Body(o[1]))
      BY <1>7, <2>2 DEF ServeCapture
    <3>3. StateTellsMoney'
      <4>1. \/ release' \in {"DENIED", "PAUSED", "CAPTURE_REJECTED"} /\ moved' = FALSE
            \/ release' = "CAPTURED" /\ moved' = TRUE
            \/ release' = "CAPTURE_INDETERMINATE"
        <5>1. ASSUME NEW v, NEW s, NEW a, NEW m, o = <<v, s, a, m>>
              PROVE  release' = s /\ moved' = m
          BY <3>2, <5>1
        <5> QED BY <3>2, <5>1, Zenon DEF CaptureOutcomes
      <4> QED BY <4>1 DEF MoneyHasMoved
    <3>4. NoReleaseYet'
      BY <1>7, <2>2, <3>2 DEF ServeCapture, pageVars
    <3>5. AccountTellsMoney'
      BY <3>1, <3>2
    <3> QED BY <1>7, <3>1, <3>3, <3>4, <3>5 DEF ServeCapture, pageVars
  <2> QED BY <1>7, <2>1, <2>2 DEF ServeCapture
<1>8. CASE ServeTimeline
  BY <1>8 DEF ServeTimeline, Account, pageVars, worldVars, moneyVars
<1>9. CASE Behind
  BY <1>9, BehindMoves DEF Behind, pageVars, moneyVars
<1> QED BY <1>1, <1>2, <1>3, <1>4, <1>5, <1>6, <1>7, <1>8, <1>9 DEF ServerSteps

LEMMA PageKeeps ==
  ASSUME ScreenInv, PageFails \/ Page
  PROVE  ScreenInv'
<1> USE DEF ScreenInv, NoReleaseYet, StateTellsMoney, AccountTellsMoney, ChargedIsTrue,
            Request, Ask, Write, worldVars, moneyVars
<1>1. CASE PageFails
  BY <1>1 DEF PageFails, GiveUp
<1>2. CASE PageShops
  BY <1>2 DEF PageShops
<1>3. CASE PageBought
  <2>1. "charged" \in claims' => "charged" \in claims
    BY <1>3 DEF PageBought
  <2>2. at' \in {"authorize", "timeline"} /\ wire' = Request
    BY <1>3 DEF PageBought
  <2> QED BY <1>3, <2>1, <2>2 DEF PageBought
<1>4. CASE PageAuthorized
  BY <1>4 DEF PageAuthorized
<1>5. CASE PageCaptured
  BY <1>5 DEF PageCaptured
<1>6. CASE PageEnds
  <2>1. at' = "finished" /\ UNCHANGED <<wire, acting, release, moved>>
    BY <1>6 DEF PageEnds
  <2>2. "charged" \in claims' => "charged" \in claims \/ wire.state \in MoneyHasMoved
    BY <1>6 DEF PageEnds, MovedOf
  <2>3. wire.is = "timeline"
    BY <1>6 DEF PageEnds
  <2> QED BY <2>1, <2>2, <2>3
<1> QED BY <1>1, <1>2, <1>3, <1>4, <1>5, <1>6 DEF Page

\* When the page says the buyer was charged, the provider took the money,
\* whichever answers were lost and whatever moved behind the page
\* (AgentSession.tsx, Verdict; routes/agent.ts, moneyMoved).
THEOREM ChargedMeansMoved == ScreenSpec => []ChargedIsTrue
<1>1. ScreenInv /\ [ScreenNext]_screenVars => ScreenInv'
  <2> SUFFICES ASSUME ScreenInv, [ScreenNext]_screenVars PROVE ScreenInv'
    OBVIOUS
  <2>1. CASE UNCHANGED screenVars
    BY <2>1 DEF ScreenInv, NoReleaseYet, StateTellsMoney, AccountTellsMoney, ChargedIsTrue,
                screenVars, pageVars, worldVars, moneyVars
  <2> QED BY <2>1, ServerKeeps, PageKeeps DEF ScreenNext
<1>2. ScreenInv => ChargedIsTrue
  BY DEF ScreenInv
<1> QED BY <1>1, <1>2, ScreenStarts, PTL DEF ScreenSpec

-----------------------------------------------------------------------------
(* The buyer agent *)

AgentValues ==
  /\ AgentTypeOK
  /\ checked \in [Sku -> [Sku -> AgProducts \cup {NotOffered}] \cup {NotOffered}]

\* Every nonempty set of numbers has a least one.
LEMMA LeastNumber ==
  ASSUME NEW S \in SUBSET Nat, S # {}
  PROVE  \E x \in S : \A y \in S : x <= y
<1>1. PICK x \in S : \A y \in S : <<y, x>> \notin OpToRel(<, Nat)
  BY NatLessThanWellFounded, WFMin
<1>2. \A y \in S : ~(y < x)
  BY <1>1 DEF OpToRel
<1> QED BY <1>2

\* The preferred SKU the planner acts on: the first that is wanted.
LEMMA PlannerPrefers ==
  ASSUME \E i \in DOMAIN AgPrefer : Wanted(i)
  PROVE  LET i == CHOOSE i \in DOMAIN AgPrefer :
                    Wanted(i) /\ \A j \in 1 .. i - 1 : ~Wanted(j)
         IN  i \in DOMAIN AgPrefer /\ Wanted(i) /\ AgPrefer[i] \in Sku
<1> DEFINE wanted_ == {i \in DOMAIN AgPrefer : Wanted(i)}
<1>1. DOMAIN AgPrefer = 1 .. Len(AgPrefer) /\ Len(AgPrefer) \in Nat
  BY AgentAssumption
<1>2. PICK i \in wanted_ : \A j \in wanted_ : i <= j
  <2>1. wanted_ \in SUBSET Nat /\ wanted_ # {}
    BY <1>1
  <2> HIDE DEF wanted_
  <2> QED BY <2>1, LeastNumber
<1>3. \A j \in 1 .. i - 1 : ~Wanted(j)
  BY <1>1, <1>2
<1>4. \A j \in DOMAIN AgPrefer : AgPrefer[j] \in Sku
  BY AgentAssumption
<1> QED BY <1>2, <1>3, <1>4

\* What the planner may propose: what it adds it has neither added nor proposed
\* before, what it looks up it prefers and has not looked up.
LEMMA PlannerProposes ==
  ASSUME NEW m \in PlannerMoves
  PROVE  \/ m.kind = "SEARCH_PRODUCTS" /\ turn = 0
         \/ m.kind \in {"ABANDON"}
         \/ m.kind = "REQUEST_PURCHASE" /\ InDraft # {}
         \/ m.kind = "ADD_ITEM" /\ m.sku \in Sku \ proposed /\ m.quantity = Quantity
         \/ m.kind = "GET_PRODUCT" /\ m.sku \in Sku \ lookedUp
              /\ \E i \in DOMAIN AgPrefer : AgPrefer[i] = m.sku
<1> DEFINE first == CHOOSE i \in DOMAIN AgPrefer : Wanted(i) /\ \A j \in 1 .. i - 1 : ~Wanted(j)
<1>1. CASE Seen = {}
  BY <1>1 DEF PlannerMoves
<1>2. CASE Seen # {} /\ \E i \in DOMAIN AgPrefer : Wanted(i)
  <2>1. first \in DOMAIN AgPrefer /\ Wanted(first) /\ AgPrefer[first] \in Sku
    BY <1>2, PlannerPrefers
  <2>2. m = IF AgPrefer[first] \in Seen
              THEN [kind |-> "ADD_ITEM", sku |-> AgPrefer[first], quantity |-> Quantity]
              ELSE [kind |-> "GET_PRODUCT", sku |-> AgPrefer[first]]
    BY <1>2 DEF PlannerMoves
  <2> HIDE DEF first
  <2> QED BY <2>1, <2>2 DEF Wanted
<1>3. CASE Seen # {} /\ ~(\E i \in DOMAIN AgPrefer : Wanted(i))
  <2>1. CASE Cardinality(InDraft) < AgPlannerLines /\ Cheapest # {}
    <3>1. PICK s \in Cheapest : m = [kind |-> "ADD_ITEM", sku |-> s, quantity |-> Quantity]
      BY <1>3, <2>1 DEF PlannerMoves
    <3> QED BY <3>1 DEF Cheapest, Fits
  <2>2. CASE ~(Cardinality(InDraft) < AgPlannerLines /\ Cheapest # {})
    BY <1>3, <2>2 DEF PlannerMoves
  <2> QED BY <2>1, <2>2
<1> QED BY <1>1, <1>2, <1>3

\* The quantity of an addition is a number, whoever proposes it.
LEMMA MovesAreTyped ==
  ASSUME NEW m \in Moves
  PROVE  /\ m.kind = "ADD_ITEM" => m.quantity \in Nat
         /\ m.kind \in {"ADD_ITEM", "GET_PRODUCT", "REMOVE_ITEM"} => m.sku \in Sku
<1>1. CASE mind = "planner"
  BY <1>1, PlannerProposes DEF Moves, Quantity
<1>2. CASE mind # "planner"
  BY <1>2, AgentAssumption DEF Moves, AnyMove
<1> QED BY <1>1, <1>2

\* What one turn does, whatever was proposed.
LEMMA TurnDoes ==
  ASSUME Turn
  PROVE  \E m \in Moves :
           /\ Remember(m)
           /\ \/ m.kind = "SEARCH_PRODUCTS" /\ Search
              \/ m.kind = "GET_PRODUCT" /\ GetProduct(m.sku)
              \/ m.kind = "ADD_ITEM" /\ AddItem(m.sku, m.quantity)
              \/ m.kind = "REMOVE_ITEM" /\ RemoveItem(m.sku)
              \/ m.kind = "ABANDON" /\ End("ABANDONED")
              \/ m.kind = "UNAVAILABLE" /\ End("AGENT_MODEL_UNAVAILABLE")
              \/ m.kind = "REQUEST_PURCHASE" /\ InDraft # {} /\ End("PURCHASE_REQUESTED")
              \/ /\ m.kind \notin {"SEARCH_PRODUCTS", "GET_PRODUCT", "ADD_ITEM", "ABANDON"}
                 /\ ~(m.kind = "REQUEST_PURCHASE" /\ InDraft # {})
                 /\ Nothing
  BY DEF Turn

\* A line enters the draft by AddItem alone, which checked it against the
\* catalogue it read; every other step leaves the lines or removes one.
LEMMA AgentKept ==
  ASSUME AgentValues, LinesWereChecked, [AgentNext]_agentVars
  PROVE  AgentValues' /\ LinesWereChecked'
<1>1. CASE UNCHANGED agentVars
  BY <1>1 DEF AgentValues, AgentTypeOK, LinesWereChecked, InDraft, agentVars
<1>2. CASE Exhaust
  BY <1>2 DEF Exhaust, AgentValues, AgentTypeOK, LinesWereChecked, InDraft
<1>3. CASE MerchantMoves
  BY <1>3 DEF MerchantMoves, AgentValues, AgentTypeOK, LinesWereChecked, InDraft
<1>4. CASE Turn
  <2> USE DEF AgentValues, AgentTypeOK
  <2>1. offer' = offer /\ turn' \in 0 .. AgMaxSteps
    BY <1>4, AgentAssumption DEF Turn, Spend
  <2>2. PICK m \in Moves :
          /\ Remember(m)
          /\ \/ Search
             \/ GetProduct(m.sku)
             \/ m.kind = "ADD_ITEM" /\ AddItem(m.sku, m.quantity)
             \/ RemoveItem(m.sku)
             \/ \E how \in {"ABANDONED", "AGENT_MODEL_UNAVAILABLE", "PURCHASE_REQUESTED"} : End(how)
             \/ Nothing
    BY <1>4, TurnDoes
  <2>3. proposed' \subseteq Sku /\ lookedUp' \subseteq Sku
    BY <2>2, MovesAreTyped DEF Remember
  <2>4. CASE UNCHANGED <<draft, checked>> /\ observed' \in [Sku -> AgProducts \cup {NotOffered}]
    BY <2>1, <2>3, <2>4 DEF LinesWereChecked, InDraft
  <2>5. CASE m.kind = "ADD_ITEM" /\ AddItem(m.sku, m.quantity)
    <3> DEFINE s == m.sku
               q == m.quantity
    <3>1. CASE ~Addable(s, q)
      BY <2>4, <2>5, <3>1 DEF AddItem, Nothing
    <3>2. CASE Addable(s, q)
      <4>1. s \in Sku /\ q \in Nat /\ offer[s] # NotOffered /\ Permitted(offer[s], q)
        BY <2>5, <3>2, MovesAreTyped DEF Addable, Offered
      <4>2. /\ draft' = [draft EXCEPT ![s] = q]
            /\ observed' = [observed EXCEPT ![s] = offer[s]]
            /\ checked' = [checked EXCEPT ![s] = offer]
        BY <2>5, <3>2 DEF AddItem
      <4>3. AgentValues'
        BY <2>1, <2>3, <4>1, <4>2
      <4> HIDE DEF s, q
      <4>4. ASSUME NEW x \in InDraft'
            PROVE  checked'[x] # NotOffered /\ checked'[x][x] # NotOffered
                     /\ Permitted(checked'[x][x], draft'[x])
        <5>1. CASE x = s
          <6>1. checked'[x] = offer /\ draft'[x] = q
            BY <4>1, <4>2, <5>1
          <6>2. offer # NotOffered
            BY AgentAssumption
          <6> QED BY <4>1, <5>1, <6>1, <6>2
        <5>2. CASE x # s
          BY <4>2, <4>4, <5>2 DEF LinesWereChecked, InDraft
        <5> QED BY <5>1, <5>2
      <4> QED BY <4>3, <4>4 DEF LinesWereChecked
    <3> QED BY <3>1, <3>2
  <2>6. CASE RemoveItem(m.sku)
    <3>1. AgentValues'
      BY <2>1, <2>3, <2>6 DEF RemoveItem
    <3>2. \A x \in InDraft' : x \in InDraft /\ checked'[x] = checked[x] /\ draft'[x] = draft[x]
      BY <2>6 DEF RemoveItem, InDraft
    <3> QED BY <3>1, <3>2 DEF LinesWereChecked
  <2>7. CASE Search
    BY <2>4, <2>7 DEF Search, Nothing
  <2>8. CASE GetProduct(m.sku)
    BY <2>4, <2>8 DEF GetProduct, Nothing
  <2>9. CASE Nothing \/ \E how \in {"ABANDONED", "AGENT_MODEL_UNAVAILABLE", "PURCHASE_REQUESTED"} : End(how)
    BY <2>4, <2>9 DEF Nothing, End
  <2> QED BY <2>2, <2>5, <2>6, <2>7, <2>8, <2>9
<1> QED BY <1>1, <1>2, <1>3, <1>4 DEF AgentNext

\* Whatever the model proposes and whatever it was shown, each line of the cart
\* was checked, at the quantity it has, against what the merchant offered when
\* it was added (packages/agent/src/runtime.ts, validateAddition).
THEOREM CartLinesChecked == AgentSpec => []LinesWereChecked
<1>1. AgentInit => AgentValues /\ LinesWereChecked
  BY AgentAssumption DEF AgentInit, AgentValues, AgentTypeOK, LinesWereChecked, InDraft
<1> QED BY <1>1, AgentKept, PTL DEF AgentSpec
Preferred == {AgPrefer[i] : i \in DOMAIN AgPrefer}

\* While the planner runs, every turn after its search has looked up one more
\* preferred SKU or proposed one more SKU.
PlannerPaces ==
  mind = "planner" /\ outcome = "running" =>
    /\ lookedUp \subseteq Preferred
    /\ turn <= 1 + Cardinality(lookedUp) + Cardinality(proposed)

\* The preferred SKUs are no more than the list that names them.
LEMMA PreferredCounted ==
  IsFiniteSet(Preferred) /\ Cardinality(Preferred) <= Len(AgPrefer)
<1> DEFINE named == [i \in DOMAIN AgPrefer |-> AgPrefer[i]]
<1>1. Len(AgPrefer) \in Nat /\ DOMAIN AgPrefer = 1 .. Len(AgPrefer)
  BY AgentAssumption
<1>2. IsFiniteSet(DOMAIN AgPrefer) /\ Cardinality(DOMAIN AgPrefer) = Len(AgPrefer)
  <2> DEFINE n == Len(AgPrefer)
  <2>1. 1 \in Int /\ n \in Int /\ n >= 0
    BY <1>1
  <2> HIDE DEF n
  <2>2. IsFiniteSet(1 .. n) /\ Cardinality(1 .. n) = IF 1 > n THEN 0 ELSE n - 1 + 1
    BY <2>1, FS_Interval
  <2>3. Cardinality(1 .. n) = n
    BY <2>1, <2>2
  <2> QED BY <1>1, <2>2, <2>3 DEF n
<1>3. named \in Surjection(DOMAIN AgPrefer, Preferred)
  BY DEF Surjection, Preferred
<1> QED BY <1>2, <1>3, FS_Surjection

LEMMA PlannerKept ==
  ASSUME AgentValues, PlannerPaces, PlannerDecides, [AgentNext]_agentVars
  PROVE  PlannerPaces' /\ PlannerDecides'
<1> IsFiniteSet(proposed) /\ Cardinality(proposed) \in Nat /\ Cardinality(proposed) <= Cardinality(Sku)
  BY AgentAssumption, FS_Subset, FS_CardinalityType DEF AgentValues, AgentTypeOK
<1> IsFiniteSet(lookedUp) /\ Cardinality(lookedUp) \in Nat
  BY AgentAssumption, FS_Subset, FS_CardinalityType DEF AgentValues, AgentTypeOK
<1> Cardinality(Sku) \in Nat /\ Len(AgPrefer) \in Nat /\ turn \in Nat
  BY AgentAssumption, FS_CardinalityType DEF AgentValues, AgentTypeOK
<1>1. CASE UNCHANGED agentVars
  BY <1>1 DEF PlannerPaces, PlannerDecides, agentVars
<1>2. CASE Exhaust
  <2> SUFFICES ASSUME mind = "planner", AgMaxSteps >= Len(AgPrefer) + Cardinality(Sku) + 2
               PROVE  FALSE
    BY <1>2 DEF Exhaust, PlannerPaces, PlannerDecides
  <2>1. /\ lookedUp \subseteq Preferred
        /\ turn <= 1 + Cardinality(lookedUp) + Cardinality(proposed) /\ turn = AgMaxSteps
    BY <1>2 DEF Exhaust, PlannerPaces
  <2>2. Cardinality(lookedUp) <= Cardinality(Preferred) /\ Cardinality(Preferred) \in Nat
    BY <2>1, PreferredCounted, FS_Subset, FS_CardinalityType
  <2> QED BY <2>1, <2>2, PreferredCounted, AgentAssumption
<1>3. CASE MerchantMoves
  BY <1>3 DEF MerchantMoves, PlannerPaces, PlannerDecides
<1>4. CASE Turn
  <2>1. mind' = mind /\ turn' = turn + 1 /\ outcome = "running"
    BY <1>4 DEF Turn, Spend
  <2>2. PICK m \in Moves :
          /\ Remember(m)
          /\ \/ m.kind = "SEARCH_PRODUCTS" /\ Search
             \/ m.kind = "GET_PRODUCT" /\ GetProduct(m.sku)
             \/ m.kind = "ADD_ITEM" /\ AddItem(m.sku, m.quantity)
             \/ m.kind = "REMOVE_ITEM" /\ RemoveItem(m.sku)
             \/ m.kind = "ABANDON" /\ End("ABANDONED")
             \/ m.kind = "UNAVAILABLE" /\ End("AGENT_MODEL_UNAVAILABLE")
             \/ m.kind = "REQUEST_PURCHASE" /\ InDraft # {} /\ End("PURCHASE_REQUESTED")
             \/ /\ m.kind \notin {"SEARCH_PRODUCTS", "GET_PRODUCT", "ADD_ITEM", "ABANDON"}
                /\ ~(m.kind = "REQUEST_PURCHASE" /\ InDraft # {})
                /\ Nothing
    BY <1>4, TurnDoes
  <2>3. PlannerDecides'
    BY <2>1, <2>2 DEF PlannerDecides, Search, GetProduct, AddItem, RemoveItem, End, Nothing
  <2>4. ASSUME mind = "planner", outcome' = "running" PROVE PlannerPaces'
    <3>1. /\ lookedUp \subseteq Preferred
          /\ turn <= 1 + Cardinality(lookedUp) + Cardinality(proposed)
      BY <2>1, <2>4 DEF PlannerPaces
    <3>2. /\ proposed' = proposed \cup (IF m.kind = "ADD_ITEM" THEN {m.sku} ELSE {})
          /\ lookedUp' = lookedUp \cup (IF m.kind = "GET_PRODUCT" THEN {m.sku} ELSE {})
      BY <2>2, <2>4 DEF Remember
    <3>3. \/ m.kind = "SEARCH_PRODUCTS" /\ turn = 0
          \/ m.kind = "ADD_ITEM" /\ m.sku \in Sku \ proposed
          \/ m.kind = "GET_PRODUCT" /\ m.sku \in Preferred \ lookedUp
      BY <2>2, <2>4, PlannerProposes DEF Moves, End, Preferred
    <3>4. CASE m.kind = "SEARCH_PRODUCTS" /\ turn = 0
      BY <2>1, <3>1, <3>2, <3>4 DEF PlannerPaces
    <3>5. CASE m.kind = "ADD_ITEM" /\ m.sku \in Sku \ proposed
      <4>1. Cardinality(proposed') = Cardinality(proposed) + 1 /\ lookedUp' = lookedUp
        BY <3>2, <3>5, FS_AddElement
      <4> QED BY <2>1, <3>1, <4>1 DEF PlannerPaces
    <3>6. CASE m.kind = "GET_PRODUCT" /\ m.sku \in Preferred \ lookedUp
      <4>1. Cardinality(lookedUp') = Cardinality(lookedUp) + 1 /\ proposed' = proposed
        BY <3>2, <3>6, FS_AddElement
      <4>2. lookedUp' \subseteq Preferred
        BY <3>1, <3>2, <3>6
      <4> QED BY <2>1, <3>1, <4>1, <4>2 DEF PlannerPaces
    <3> QED BY <3>3, <3>4, <3>5, <3>6
  <2> QED BY <2>1, <2>3, <2>4 DEF PlannerPaces
<1> QED BY <1>1, <1>2, <1>3, <1>4 DEF AgentNext

\* The deterministic planner ends its run itself: a budget of one step for the
\* search, one for each SKU it prefers, one for each SKU and one to conclude is
\* never used up, however the merchant changes (packages/agent/src/model.ts).
THEOREM PlannerEndsItself == AgentSpec => []PlannerDecides
<1>1. AgentInit => AgentValues /\ LinesWereChecked
  BY AgentAssumption DEF AgentInit, AgentValues, AgentTypeOK, LinesWereChecked, InDraft
<1>2. AgentInit => PlannerPaces /\ PlannerDecides
  BY FS_EmptySet DEF AgentInit, PlannerPaces, PlannerDecides, Preferred
<1> QED BY <1>1, <1>2, AgentKept, PlannerKept, PTL DEF AgentSpec

-----------------------------------------------------------------------------
(***************************************************************************)
(* What holds of idempotent requests for any requests, keys, fingerprints  *)
(* and any number of crashes and failures, until a record of the key is    *)
(* deleted.                                                                *)
(*                                                                         *)
(* The properties speak of requests; what keeps them is the record. RowInv *)
(* says what the record of a key is while a request works under it, and    *)
(* that a key without a record and without a deletion was never claimed.   *)
(***************************************************************************)

Stored == {Absent} \cup [status : {"IN_FLIGHT"}, fingerprint : Prints]
          \cup [status : {"COMPLETED"}, fingerprint : Prints, response : Answer]

HttpTypes ==
  /\ record \in [HttpKey -> Stored]
  /\ call \in [Call -> {"new", "conflict", "working", "decided", "answered", "refused", "failed"}]
  /\ answer \in [Call -> Answer \cup {<<>>}]
  /\ deleted \in SUBSET HttpKey

\* A request that works under a key holds its record.
HoldsRecord(c) ==
  CallKey[c] \notin deleted /\ Busy(c) =>
    record[CallKey[c]] = [status |-> "IN_FLIGHT", fingerprint |-> Fingerprint[c]]

Claimed(c) == CallKey[c] \notin deleted /\ call[c] # "new" => record[CallKey[c]] # Absent

AnsweredFor(c) ==
  /\ call[c] = "decided" => answer[c] \in Answer /\ answer[c].of = Fingerprint[c]
  /\ CallKey[c] \notin deleted /\ call[c] = "answered" => answer[c].of = Fingerprint[c]

StoredFor(k) == k \notin deleted /\ record[k].status = "COMPLETED"
                  => record[k].response.of = record[k].fingerprint

RowInv == /\ HttpTypes
          /\ \A c \in Call : HoldsRecord(c) /\ Claimed(c) /\ AnsweredFor(c)
          /\ \A k \in HttpKey : StoredFor(k)
          /\ ClaimIsExclusive

LEMMA RowInit == HttpInit => RowInv
  BY CallAssumption DEF HttpInit, RowInv, HttpTypes, Stored, HoldsRecord, Claimed, AnsweredFor,
     StoredFor, ClaimIsExclusive, Busy, Absent

LEMMA InFlight ==
  \A c \in Call : /\ [status |-> "IN_FLIGHT", fingerprint |-> Fingerprint[c]] \in Stored
                  /\ [status |-> "IN_FLIGHT", fingerprint |-> Fingerprint[c]] # Absent
                  /\ [status |-> "IN_FLIGHT", fingerprint |-> Fingerprint[c]].status # "COMPLETED"
<1> TAKE c \in Call
<1> DEFINE r == [status |-> "IN_FLIGHT", fingerprint |-> Fingerprint[c]]
<1>1. Fingerprint[c] \in Prints
  BY DEF Prints
<1>2. r.status = "IN_FLIGHT" /\ Absent.status = "ABSENT"
  BY DEF Absent
<1>3. r # Absent /\ r.status # "COMPLETED"
  BY <1>2
<1> QED BY <1>1, <1>3 DEF Stored

LEMMA ClaimKeeps ==
  ASSUME RowInv, NEW c \in Call, Claim(c)
  PROVE  RowInv'
<1> DEFINE r == [status |-> "IN_FLIGHT", fingerprint |-> Fingerprint[c]]
<1>1. r \in Stored /\ r # Absent /\ r.status # "COMPLETED"
  BY InFlight
<1>2. CASE record[CallKey[c]] = Absent
  <2>1. record' = [record EXCEPT ![CallKey[c]] = r] /\ call' = [call EXCEPT ![c] = "working"]
    BY <1>2 DEF Claim, CallTo
  <2>2. UNCHANGED <<answer, deleted>>
    BY DEF Claim
  <2> HIDE DEF r
  <2>3. HttpTypes'
    BY <1>1, <2>1, <2>2, CallAssumption DEF RowInv, HttpTypes
  <2>4. \A d \in Call : d # c /\ CallKey[d] = CallKey[c] /\ CallKey[c] \notin deleted => ~Busy(d)
    BY <1>2, CallAssumption DEF RowInv, Claimed, Busy
  <2>5. \A d \in Call : HoldsRecord(d)' /\ Claimed(d)' /\ AnsweredFor(d)'
    BY <1>1, <1>2, <2>1, <2>2, <2>4, CallAssumption
       DEF RowInv, HttpTypes, HoldsRecord, Claimed, AnsweredFor, Busy, r
  <2>6. \A k \in HttpKey : StoredFor(k)'
    BY <1>1, <2>1, <2>2, CallAssumption DEF RowInv, HttpTypes, StoredFor
  <2>7. ClaimIsExclusive'
    BY <2>1, <2>2, <2>4, CallAssumption DEF RowInv, HttpTypes, ClaimIsExclusive, Busy
  <2> QED BY <2>3, <2>5, <2>6, <2>7 DEF RowInv
<1>3. CASE record[CallKey[c]] # Absent
  <2>1. call' = [call EXCEPT ![c] = "conflict"] /\ UNCHANGED <<record, answer, deleted>>
    BY <1>3 DEF Claim, CallTo
  <2> QED BY <1>3, <2>1 DEF RowInv, HttpTypes, HoldsRecord, Claimed, AnsweredFor, StoredFor,
          ClaimIsExclusive, Busy
<1> QED BY <1>2, <1>3

LEMMA ExplainKeeps ==
  ASSUME RowInv, NEW c \in Call, Explain(c)
  PROVE  RowInv'
<1> USE CallAssumption
<1>0. UNCHANGED <<record, deleted>>
  BY DEF Explain
<1>1. CASE record[CallKey[c]] = Absent
  <2>1. CallKey[c] \in deleted
    BY <1>1 DEF RowInv, Claimed, Explain
  <2>2. call' = [call EXCEPT ![c] = "working"] /\ UNCHANGED answer
    BY <1>1 DEF Explain, CallTo, IsOwn, Absent
  <2> QED BY <1>0, <2>1, <2>2 DEF RowInv, HttpTypes, HoldsRecord, Claimed, AnsweredFor, StoredFor,
          ClaimIsExclusive, Busy
<1>2. CASE record[CallKey[c]] # Absent /\ IsOwn(c)
  <2> DEFINE r == record[CallKey[c]].response
  <2>1. call' = [call EXCEPT ![c] = "answered"] /\ answer' = [answer EXCEPT ![c] = r]
    BY <1>2 DEF Explain, CallTo
  <2>2. r \in Answer
    <3>1. record[CallKey[c]] \in Stored /\ record[CallKey[c]].status = "COMPLETED"
      BY <1>2 DEF RowInv, HttpTypes, IsOwn
    <3> QED BY <3>1 DEF Stored, Absent
  <2>3. CallKey[c] \notin deleted => r.of = Fingerprint[c]
    BY <1>2 DEF RowInv, StoredFor, IsOwn
  <2> HIDE DEF r
  <2> QED BY <1>0, <1>2, <2>1, <2>2, <2>3 DEF RowInv, HttpTypes, HoldsRecord, Claimed, AnsweredFor,
          StoredFor, ClaimIsExclusive, Busy
<1>3. CASE record[CallKey[c]] # Absent /\ ~IsOwn(c)
  <2>1. call' = [call EXCEPT ![c] = "refused"] /\ UNCHANGED answer
    BY <1>3 DEF Explain, CallTo
  <2> QED BY <1>0, <1>3, <2>1 DEF RowInv, HttpTypes, HoldsRecord, Claimed, AnsweredFor, StoredFor,
          ClaimIsExclusive, Busy
<1> QED BY <1>1, <1>2, <1>3

LEMMA DecideKeeps ==
  ASSUME RowInv, NEW c \in Call, Decide(c)
  PROVE  RowInv'
<1> USE CallAssumption
<1>1. PICK a \in Answer : answer' = [answer EXCEPT ![c] = a] /\ a.of = Fingerprint[c]
  <2>1. PICK v \in {"PAUSE", "FINAL"} :
          answer' = [answer EXCEPT ![c] = [of |-> Fingerprint[c], verdict |-> v]]
    BY DEF Decide
  <2>2. [of |-> Fingerprint[c], verdict |-> v] \in Answer
    BY DEF Answer, Prints
  <2> QED BY <2>1, <2>2
<1>2. call[c] = "working" /\ call' = [call EXCEPT ![c] = "decided"] /\ UNCHANGED <<record, deleted>>
  BY DEF Decide, CallTo
<1> QED BY <1>1, <1>2 DEF RowInv, HttpTypes, HoldsRecord, Claimed, AnsweredFor, StoredFor,
        ClaimIsExclusive, Busy

LEMMA CompleteKeeps ==
  ASSUME RowInv, NEW c \in Call, Complete(c)
  PROVE  RowInv'
<1> USE CallAssumption
<1>1. call[c] = "decided" /\ call' = [call EXCEPT ![c] = "answered"] /\ UNCHANGED <<answer, deleted>>
  BY DEF Complete, CallTo
<1>2. CASE record[CallKey[c]] = Absent
  <2>1. record' = record
    BY <1>2 DEF Complete
  <2> QED BY <1>1, <1>2, <2>1 DEF RowInv, HttpTypes, HoldsRecord, Claimed, AnsweredFor, StoredFor,
          ClaimIsExclusive, Busy
<1>3. CASE record[CallKey[c]] # Absent
  <2> DEFINE r == [status |-> "COMPLETED", fingerprint |-> record[CallKey[c]].fingerprint,
                   response |-> answer[c]]
  <2>1. record' = [record EXCEPT ![CallKey[c]] = r]
    BY <1>3 DEF Complete, RowInv, HttpTypes
  <2>2. r \in Stored
    <3>1. record[CallKey[c]] \in Stored
      BY DEF RowInv, HttpTypes
    <3>2. record[CallKey[c]].fingerprint \in Prints
      BY <1>3, <3>1 DEF Stored
    <3> QED BY <1>1, <3>2 DEF RowInv, AnsweredFor, Stored
  <2>3. r # Absent
    <3>1. r.status = "COMPLETED" /\ Absent.status = "ABSENT"
      BY DEF Absent
    <3> QED BY <3>1
  <2>4. CallKey[c] \notin deleted => r.response.of = r.fingerprint
    <3>1. answer[c].of = Fingerprint[c]
      BY <1>1 DEF RowInv, AnsweredFor
    <3>2. CallKey[c] \notin deleted => record[CallKey[c]].fingerprint = Fingerprint[c]
      <4>1. HoldsRecord(c)
        BY DEF RowInv
      <4>2. Busy(c)
        BY <1>1 DEF Busy
      <4>3. CallKey[c] \notin deleted =>
              record[CallKey[c]] = [status |-> "IN_FLIGHT", fingerprint |-> Fingerprint[c]]
        BY <4>1, <4>2 DEF HoldsRecord
      <4> QED BY <4>3
    <3>3. r.response = answer[c] /\ r.fingerprint = record[CallKey[c]].fingerprint
      OBVIOUS
    <3> QED BY <3>1, <3>2, <3>3
  <2> HIDE DEF r
  <2>5. \A d \in Call : d # c /\ CallKey[d] = CallKey[c] /\ CallKey[c] \notin deleted => ~Busy(d)
    BY <1>1 DEF RowInv, ClaimIsExclusive, Busy
  <2>6. HttpTypes'
    BY <1>1, <2>1, <2>2 DEF RowInv, HttpTypes
  <2>7. \A d \in Call : HoldsRecord(d)'
    BY <1>1, <2>1, <2>5 DEF RowInv, HttpTypes, HoldsRecord, Busy
  <2>8. \A d \in Call : Claimed(d)' /\ AnsweredFor(d)'
    BY <1>1, <2>1, <2>3 DEF RowInv, HttpTypes, Claimed, AnsweredFor
  <2>9. \A k \in HttpKey : StoredFor(k)'
    BY <1>1, <2>1, <2>4 DEF RowInv, HttpTypes, StoredFor
  <2>10. ClaimIsExclusive'
    BY <1>1 DEF RowInv, HttpTypes, ClaimIsExclusive, Busy
  <2> QED BY <2>6, <2>7, <2>8, <2>9, <2>10 DEF RowInv
<1> QED BY <1>2, <1>3

\* A step that deletes the record of a key, or ends a request, or neither.
LEMMA EndingKeeps ==
  ASSUME RowInv, NEW c \in Call, call' = [call EXCEPT ![c] = "failed"], call[c] # "new",
         UNCHANGED <<record, answer, deleted>>
  PROVE  RowInv'
  BY CallAssumption DEF RowInv, HttpTypes, HoldsRecord, Claimed, AnsweredFor, StoredFor,
     ClaimIsExclusive, Busy

LEMMA DeletingKeeps ==
  ASSUME RowInv, NEW k \in HttpKey, record' = [record EXCEPT ![k] = Absent],
         deleted' = deleted \cup {k}, UNCHANGED answer,
         \/ UNCHANGED call
         \/ \E c \in Call : call[c] # "new" /\ call' = [call EXCEPT ![c] = "failed"]
  PROVE  RowInv'
<1> USE CallAssumption
<1>1. Absent \in Stored /\ Absent.status # "COMPLETED"
  BY DEF Stored, Absent
<1>2. \A d \in Call : call'[d] = call[d] \/ (call'[d] = "failed" /\ call[d] # "new")
  BY DEF RowInv, HttpTypes
<1>3. HttpTypes'
  BY <1>1 DEF RowInv, HttpTypes
<1>4. \A d \in Call : HoldsRecord(d)' /\ AnsweredFor(d)'
  BY <1>2 DEF RowInv, HttpTypes, HoldsRecord, AnsweredFor, Busy
<1>5. \A d \in Call : Claimed(d)'
  <2> TAKE d \in Call
  <2>1. CASE CallKey[d] = k
    BY <2>1 DEF Claimed
  <2>2. CASE CallKey[d] # k /\ CallKey[d] \notin deleted
    <3>1. record'[CallKey[d]] = record[CallKey[d]] /\ CallKey[d] \in HttpKey
      BY <2>2 DEF RowInv, HttpTypes
    <3>2. Claimed(d)
      BY DEF RowInv
    <3>3. call'[d] # "new" => call[d] # "new"
      BY <1>2
    <3> QED BY <2>2, <3>1, <3>2, <3>3 DEF Claimed
  <2>3. CASE CallKey[d] \in deleted
    BY <2>3 DEF Claimed
  <2> QED BY <2>1, <2>2, <2>3
<1>6. \A j \in HttpKey : StoredFor(j)'
  BY <1>1 DEF RowInv, HttpTypes, StoredFor
<1>7. ClaimIsExclusive'
  BY <1>2 DEF RowInv, HttpTypes, ClaimIsExclusive, Busy
<1> QED BY <1>3, <1>4, <1>5, <1>6, <1>7 DEF RowInv

LEMMA RowStep == RowInv /\ [HttpNext]_httpVars => RowInv'
<1> SUFFICES ASSUME RowInv, [HttpNext]_httpVars PROVE RowInv'
  OBVIOUS
<1>1. ASSUME NEW c \in Call, Fail(c) PROVE RowInv'
  <2>1. call' = [call EXCEPT ![c] = "failed"] /\ call[c] # "new" /\ UNCHANGED answer
    BY <1>1 DEF Fail, CallTo
  <2>2. CASE record[CallKey[c]].status = "IN_FLIGHT"
    BY <1>1, <2>1, <2>2, DeletingKeeps, CallAssumption DEF Fail
  <2>3. CASE record[CallKey[c]].status # "IN_FLIGHT"
    BY <1>1, <2>1, <2>3, EndingKeeps DEF Fail
  <2> QED BY <2>2, <2>3
<1>2. ASSUME NEW c \in Call, Crash(c) PROVE RowInv'
  BY <1>2, EndingKeeps DEF Crash, CallTo
<1>3. CASE Forget
  BY <1>3, DeletingKeeps, CallAssumption DEF Forget
<1>4. CASE Overrule \/ ForgetLost \/ UNCHANGED httpVars
  BY <1>4 DEF Overrule, ForgetLost, httpVars, RowInv, HttpTypes, HoldsRecord, Claimed, AnsweredFor, StoredFor,
     ClaimIsExclusive, Busy
<1> QED BY <1>1, <1>2, <1>3, <1>4, ClaimKeeps, ExplainKeeps, DecideKeeps, CompleteKeeps DEF HttpNext

\* However many requests arrive at once under a key, one at a time works under it, until a
\* record of the key is deleted (ClaimIsExclusive).
THEOREM ClaimsAreExclusive == HttpSpec => []ClaimIsExclusive
<1>1. RowInv => ClaimIsExclusive
  BY DEF RowInv
<1> QED BY <1>1, RowInit, RowStep, PTL DEF HttpSpec

\* A request is answered with what was worked out for its own input, by itself or by the
\* request it repeats, until a record of its key is deleted (AnswerIsOwn).
THEOREM AnswersAreOwn == HttpSpec => []AnswerIsOwn
<1>1. RowInv => AnswerIsOwn
  BY DEF RowInv, AnsweredFor, AnswerIsOwn
<1> QED BY <1>1, RowInit, RowStep, PTL DEF HttpSpec

\* A stored answer is replayed unchanged for as long as no deletion touches its key
\* (ReplayIsStable).
THEOREM ReplaysAreStable == HttpSpec => ReplayIsStable
<1> DEFINE Stays == \A k \in HttpKey : record[k].status = "COMPLETED" /\ k \notin deleted'
                                         => record'[k] = record[k]
<1>1. RowInv /\ [HttpNext]_httpVars => [Stays]_httpVars
  <2> SUFFICES ASSUME RowInv, HttpNext, NEW k \in HttpKey, record[k].status = "COMPLETED",
                      k \notin deleted'
               PROVE  record'[k] = record[k]
    OBVIOUS
  <2> USE CallAssumption DEF RowInv, HttpTypes
  <2>1. ASSUME NEW c \in Call, Claim(c) PROVE record'[k] = record[k]
    BY <2>1 DEF Claim, Absent
  <2>2. ASSUME NEW c \in Call, Complete(c) PROVE record'[k] = record[k]
    <3>1. call[c] = "decided" /\ k \notin deleted
      BY <2>2 DEF Complete
    <3>2. CallKey[c] # k
      <4>1. HoldsRecord(c) /\ Busy(c)
        BY <3>1 DEF Busy
      <4>2. CallKey[c] = k => record[k] = [status |-> "IN_FLIGHT", fingerprint |-> Fingerprint[c]]
        BY <3>1, <4>1 DEF HoldsRecord
      <4> QED BY <4>2, InFlight
    <3> QED BY <2>2, <3>2 DEF Complete
  <2>3. ASSUME NEW c \in Call, Fail(c) PROVE record'[k] = record[k]
    <3>1. CASE record[CallKey[c]].status = "IN_FLIGHT"
      BY <2>3, <3>1 DEF Fail
    <3>2. CASE record[CallKey[c]].status # "IN_FLIGHT"
      BY <2>3, <3>2 DEF Fail
    <3> QED BY <3>1, <3>2
  <2>4. CASE Forget
    BY <2>4 DEF Forget
  <2>5. ASSUME NEW c \in Call, Explain(c) \/ Decide(c) \/ Crash(c) PROVE record'[k] = record[k]
    BY <2>5 DEF Explain, Decide, Crash
  <2>6. CASE Overrule \/ ForgetLost
    BY <2>6 DEF Overrule, ForgetLost
  <2> QED BY <2>1, <2>2, <2>3, <2>4, <2>5, <2>6 DEF HttpNext
<1> QED BY <1>1, RowInit, RowStep, PTL DEF HttpSpec, ReplayIsStable

=============================================================================
