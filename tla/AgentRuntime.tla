---------------------------- MODULE AgentRuntime ----------------------------
(***************************************************************************)
(* The bounded buyer agent (packages/agent): a loop of at most AgMaxSteps  *)
(* turns around a model that proposes one action and a validator that may  *)
(* refuse it, over a merchant catalogue that changes between two turns.    *)
(* One action of this module is one turn: the proposal, the read of the    *)
(* catalogue it needs and what the runtime does with the answer.           *)
(*                                                                         *)
(* Abstractions.  A product is its merchant, category, stock, price and    *)
(* whether it is sold by subscription only; an unavailable product has no  *)
(* stock.  A catalogue version is the content it digests.  A search returns any set  *)
(* of offered products up to the limit: the scoring of words is left out.  *)
(***************************************************************************)
EXTENDS Naturals, FiniteSets, Sequences

CONSTANTS
  Sku,             \* the SKUs a model may name
  AgProducts,      \* [merchant, category, stock, price, subscription]
  AgCatalogues,    \* the catalogues a run may start from: [Sku -> AgProducts \cup {NotOffered}]
  NotOffered,
  AgBounds,        \* [min, max, merchants, allowed, forbidden, oneTime, remaining]
  AgPrefer,        \* the SKUs a planner reaches for first, in order
  AgPlannerLines,  \* the lines a planner stops at
  AgMaxSteps,
  AgDraftLines,    \* MAX_DRAFT_CART_LINES
  AgSearchLimit,   \* SEARCH_RESULT_LIMIT
  AgChanges        \* bound: changes of the catalogue during a run

ASSUME AgentAssumption ==
  /\ NotOffered \notin [Sku -> AgProducts \cup {NotOffered}]
  /\ AgCatalogues \subseteq [Sku -> AgProducts \cup {NotOffered}]
  /\ IsFiniteSet(Sku)
  /\ AgPrefer \in Seq(Sku)
  /\ AgMaxSteps \in Nat \ {0}
  /\ AgBounds.max \in Nat

VARIABLES
  offer,      \* what the merchant sells now
  reachable,  \* whether the merchant answers
  changed,    \* changes made so far
  mind,       \* which model proposes: the planner, or one that may propose anything
  proposed,   \* the planner's memory: SKUs it has asked to add
  lookedUp,   \* the planner's memory: preferred SKUs it has looked up
  turn,       \* turns used
  draft,      \* the draft cart: the quantity of each SKU, 0 when absent
  observed,   \* the product last seen for each SKU, or NotOffered
  version,    \* the catalogue version last read, NotOffered before any read
  outcome,    \* "running", or how the run ended
  checked     \* history: the catalogue against which each line was last accepted

agentVars == <<offer, reachable, changed, mind, proposed, lookedUp, turn,
               draft, observed, version, outcome, checked>>

InDraft == {s \in Sku : draft[s] > 0}
Seen    == {s \in Sku : observed[s] # NotOffered}
Offered == {s \in Sku : offer[s] # NotOffered}

----------------------------------------------------------------------------
(* What validateAddition accepts of a line, given the product it read. Of  *)
(* bounds that allow any merchant, `merchants` is all there are.           *)

CategoryPermitted(c) ==
  /\ c \notin AgBounds.forbidden
  /\ AgBounds.allowed = {} \/ c \in AgBounds.allowed

Permitted(p, q) ==
  /\ q \in AgBounds.min .. AgBounds.max
  /\ p.merchant \in AgBounds.merchants
  /\ CategoryPermitted(p.category)
  /\ p.stock >= q
  /\ ~(p.subscription /\ AgBounds.oneTime)

\* Mutant of Addable: trusts what the model was shown instead of reading again.
AddableFromMemory(s, q) ==
  /\ s \in Seen
  /\ Permitted(observed[s], q)
  /\ Cardinality(InDraft \cup {s}) <= AgDraftLines

\* The read made for one validation, and the lines the cart would then have.
Addable(s, q) ==
  /\ reachable
  /\ s \in Offered
  /\ Permitted(offer[s], q)
  /\ Cardinality(InDraft \cup {s}) <= AgDraftLines

----------------------------------------------------------------------------
(* The deterministic planner: the actions decide may return next.          *)

Quantity == 1

Fits(s) ==
  LET p == observed[s] IN
  /\ s \in Seen \ (InDraft \cup proposed)
  /\ p.stock >= Quantity
  /\ CategoryPermitted(p.category)
  /\ p.price * Quantity <= AgBounds.remaining

Cheapest == {s \in Sku : /\ Fits(s)
                         /\ \A t \in Sku : Fits(t) => observed[s].price <= observed[t].price}

\* A preferred SKU still worth an action: neither in the cart nor refused, and
\* either seen or not yet looked up.
Wanted(i) ==
  LET s == AgPrefer[i] IN
  /\ s \notin InDraft \cup proposed
  /\ s \in Seen \/ s \notin lookedUp

PlannerMoves ==
  IF Seen = {} THEN {[kind |-> IF turn = 0 THEN "SEARCH_PRODUCTS" ELSE "ABANDON"]}
  ELSE IF \E i \in DOMAIN AgPrefer : Wanted(i)
    THEN LET s == AgPrefer[CHOOSE i \in DOMAIN AgPrefer :
                             Wanted(i) /\ \A j \in 1 .. i - 1 : ~Wanted(j)]
         IN IF s \in Seen THEN {[kind |-> "ADD_ITEM", sku |-> s, quantity |-> Quantity]}
            ELSE {[kind |-> "GET_PRODUCT", sku |-> s]}
  ELSE IF Cardinality(InDraft) < AgPlannerLines /\ Cheapest # {}
    THEN {[kind |-> "ADD_ITEM", sku |-> s, quantity |-> Quantity] : s \in Cheapest}
  ELSE {[kind |-> IF InDraft # {} THEN "REQUEST_PURCHASE" ELSE "ABANDON"]}

\* A model of any other kind: every action of the vocabulary, an output that
\* does not parse, and none at all.
AnyMove ==
  {[kind |-> k] : k \in {"SEARCH_PRODUCTS", "INSPECT_CART", "REQUEST_PURCHASE",
                         "ABANDON", "INVALID", "UNAVAILABLE"}}
  \cup {[kind |-> k, sku |-> s] : k \in {"GET_PRODUCT", "REMOVE_ITEM"}, s \in Sku}
  \cup {[kind |-> "ADD_ITEM", sku |-> s, quantity |-> q] :
          s \in Sku, q \in 1 .. AgBounds.max + 1}

Moves == IF mind = "planner" THEN PlannerMoves ELSE AnyMove

\* Mutant of Remember: a refused addition is proposed again.
RememberAccepted(m) ==
  IF mind # "planner" THEN UNCHANGED <<proposed, lookedUp>>
  ELSE /\ proposed' = {s \in Sku : draft'[s] > 0}
       /\ lookedUp' = lookedUp \cup (IF m.kind = "GET_PRODUCT" THEN {m.sku} ELSE {})

\* What a planner remembers of an action it proposed.
Remember(m) ==
  IF mind # "planner" THEN UNCHANGED <<proposed, lookedUp>>
  ELSE /\ proposed' = proposed \cup (IF m.kind = "ADD_ITEM" THEN {m.sku} ELSE {})
       /\ lookedUp' = lookedUp \cup (IF m.kind = "GET_PRODUCT" THEN {m.sku} ELSE {})

----------------------------------------------------------------------------
AgentInit ==
  /\ offer \in AgCatalogues
  /\ reachable \in BOOLEAN
  /\ mind \in {"planner", "free"}
  /\ changed = 0 /\ turn = 0
  /\ proposed = {} /\ lookedUp = {}
  /\ draft = [s \in Sku |-> 0]
  /\ observed = [s \in Sku |-> NotOffered]
  /\ version = NotOffered
  /\ outcome = "running"
  /\ checked = [s \in Sku |-> NotOffered]

\* Every turn uses one step of the budget, whatever became of it.
Spend == turn' = turn + 1

Nothing == UNCHANGED <<draft, observed, version, outcome, checked>>

Search ==
  IF ~reachable THEN Nothing
  ELSE /\ \E found \in SUBSET Offered :
            /\ Cardinality(found) <= AgSearchLimit
            /\ observed' = [s \in Sku |-> IF s \in found THEN offer[s] ELSE observed[s]]
       /\ version' = offer
       /\ UNCHANGED <<draft, outcome, checked>>

GetProduct(s) ==
  IF ~(reachable /\ s \in Offered) THEN Nothing
  ELSE /\ observed' = [observed EXCEPT ![s] = offer[s]]
       /\ version' = offer
       /\ UNCHANGED <<draft, outcome, checked>>

\* An addition replaces the line of its SKU; a refused one changes nothing.
AddItem(s, q) ==
  IF ~Addable(s, q) THEN Nothing
  ELSE /\ draft' = [draft EXCEPT ![s] = q]
       /\ observed' = [observed EXCEPT ![s] = offer[s]]
       /\ version' = offer
       /\ checked' = [checked EXCEPT ![s] = offer]
       /\ UNCHANGED outcome

RemoveItem(s) ==
  /\ draft' = [draft EXCEPT ![s] = 0]
  /\ checked' = [checked EXCEPT ![s] = NotOffered]
  /\ UNCHANGED <<observed, version, outcome>>

End(how) == outcome' = how /\ UNCHANGED <<draft, observed, version, checked>>

\* One iteration of run.
Turn ==
  /\ outcome = "running" /\ turn < AgMaxSteps
  /\ \E m \in Moves :
       /\ CASE m.kind = "SEARCH_PRODUCTS"  -> Search
            [] m.kind = "GET_PRODUCT"      -> GetProduct(m.sku)
            [] m.kind = "ADD_ITEM"         -> AddItem(m.sku, m.quantity)
            [] m.kind = "REMOVE_ITEM"      -> RemoveItem(m.sku)
            [] m.kind = "ABANDON"          -> End("ABANDONED")
            [] m.kind = "UNAVAILABLE"      -> End("AGENT_MODEL_UNAVAILABLE")
            [] m.kind = "REQUEST_PURCHASE" /\ InDraft # {} -> End("PURCHASE_REQUESTED")
            [] OTHER                       -> Nothing
       /\ Remember(m)
  /\ Spend
  /\ UNCHANGED <<offer, reachable, changed, mind>>

\* The budget of steps is used up: a refusal, never a purchase.
Exhaust ==
  /\ outcome = "running" /\ turn = AgMaxSteps
  /\ outcome' = "AGENT_STEP_LIMIT_EXCEEDED"
  /\ UNCHANGED <<offer, reachable, changed, mind, proposed, lookedUp, turn,
                 draft, observed, version, checked>>

\* The merchant changes, withdraws or restores a product, or goes off line.
MerchantMoves ==
  /\ outcome = "running" /\ changed < AgChanges
  /\ \/ /\ \E s \in Sku, p \in AgProducts \cup {NotOffered} : offer' = [offer EXCEPT ![s] = p]
        /\ UNCHANGED reachable
     \/ reachable' = ~reachable /\ UNCHANGED offer
  /\ changed' = changed + 1
  /\ UNCHANGED <<mind, proposed, lookedUp, turn, draft, observed, version, outcome, checked>>

AgentNext == Turn \/ Exhaust \/ MerchantMoves

AgentSpec == AgentInit /\ [][AgentNext]_agentVars

----------------------------------------------------------------------------
AgentTypeOK ==
  /\ offer \in [Sku -> AgProducts \cup {NotOffered}]
  /\ turn \in 0 .. AgMaxSteps
  /\ draft \in [Sku -> Nat]
  /\ observed \in [Sku -> AgProducts \cup {NotOffered}]
  /\ proposed \subseteq Sku /\ lookedUp \subseteq Sku

\* Whatever the model proposes and whatever it was shown, each line of the
\* cart was checked at the quantity it has against what the merchant offered
\* when it was added (packages/agent/src/runtime.ts:16-19 and 368-375).
LinesWereChecked ==
  \A s \in InDraft : /\ checked[s] # NotOffered
                     /\ checked[s][s] # NotOffered
                     /\ Permitted(checked[s][s], draft[s])

\* The planner never runs out of a budget that has one step for the search,
\* one for each preferred SKU, one for each SKU and one to conclude, however
\* the merchant changes (packages/agent/src/model.ts:120-126 and 150-155).
PlannerDecides ==
  mind = "planner" /\ AgMaxSteps >= Len(AgPrefer) + Cardinality(Sku) + 2
    => outcome # "AGENT_STEP_LIMIT_EXCEEDED"

\* What packages/core/src/domain/context-capsule.ts says of the version a run
\* reports: the one the agent was looking at when it chose each line.
VersionIsTheCarts ==
  outcome = "PURCHASE_REQUESTED" => \A s \in InDraft : checked[s] = version
=============================================================================
