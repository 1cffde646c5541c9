-------------------------- MODULE GuardedExecutor --------------------------
(***************************************************************************)
(* The grants mintGrant makes (packages/kernel/src/grant.ts) and the       *)
(* executor that burns one before each provider call                       *)
(* (payment-executor.ts). A burned nonce is forgotten once its grant has   *)
(* expired, so what keeps a grant to one call is the order of the two      *)
(* comparisons with the clock and how they treat the last moment.          *)
(*                                                                         *)
(* Abstractions.  One process: grants and burned nonces both die with it.  *)
(* A nonce is the release and the moment of the mint, since the hash in it *)
(* repeats when the same question is answered twice at one moment.         *)
(***************************************************************************)
EXTENDS Naturals

CONSTANTS
  GxRelease,        \* the releases grants are minted for
  GxHolder,         \* the calls in progress, each holding at most one grant
  GxTtl,            \* grantTtlSeconds
  GxHorizon,        \* bound: the last moment of the clock
  GxClockGoesBack   \* whether the process's clock may be set back

ASSUME ExecutorAssumption == GxTtl \in Nat /\ GxHorizon \in Nat /\ GxClockGoesBack \in BOOLEAN

VARIABLES
  clock,
  held,      \* the grant each call holds, or NoGrant
  consumed,  \* the burned nonces, each with the expiry of its grant
  ran        \* history: the provider calls made under each nonce

executorVars == <<clock, held, consumed, ran>>

Moment  == 0 .. GxHorizon
Nonce   == GxRelease \X Moment
NoGrant == [nonce |-> "none"]

ExecutorTypeOK ==
  /\ clock \in Moment
  /\ \A h \in GxHolder : held[h] = NoGrant \/ held[h].nonce \in Nonce
  /\ \A c \in consumed : c.nonce \in Nonce /\ c.expiresAt \in Nat
  /\ ran \in [Nonce -> Nat]

ExecutorInit ==
  /\ clock = 0
  /\ held = [h \in GxHolder |-> NoGrant]
  /\ consumed = {}
  /\ ran = [n \in Nonce |-> 0]

\* mintGrant, for an evaluation that allowed.
Mint(h, r) ==
  /\ held[h] = NoGrant
  /\ held' = [held EXCEPT ![h] = [nonce |-> <<r, clock>>, expiresAt |-> clock + GxTtl]]
  /\ UNCHANGED <<clock, consumed, ran>>

IsAfter(now, t) == now > t

\* Mutant of Evict: drops a nonce at the last moment its grant is good.
EvictEarly(burned) == {c \in burned : c.expiresAt > clock}

\* evictExpired
Evict(burned) == {c \in burned : ~IsAfter(clock, c.expiresAt)}

\* consume, then the provider call. The holder keeps its grant: nothing but the
\* burned nonce stops it from presenting it again.
Present(h) ==
  LET grant == held[h] IN
  /\ grant # NoGrant
  /\ ~IsAfter(clock, grant.expiresAt)
  /\ grant.nonce \notin {c.nonce : c \in consumed}
  /\ consumed' = Evict(consumed \cup {grant})
  /\ ran' = [ran EXCEPT ![grant.nonce] = @ + 1]
  /\ UNCHANGED <<clock, held>>

\* GrantRejectedError, or the call's end: either way the grant is dropped.
Discard(h) ==
  /\ held[h] # NoGrant
  /\ held' = [held EXCEPT ![h] = NoGrant]
  /\ UNCHANGED <<clock, consumed, ran>>

Tick ==
  /\ clock' \in IF GxClockGoesBack THEN Moment \ {clock} ELSE {clock + 1} \cap Moment
  /\ UNCHANGED <<held, consumed, ran>>

ExecutorNext ==
  \/ \E h \in GxHolder : Present(h) \/ Discard(h) \/ \E r \in GxRelease : Mint(h, r)
  \/ Tick

ExecutorSpec == ExecutorInit /\ [][ExecutorNext]_executorVars

\* A grant is worth one provider call, however often it is presented, at every
\* moment up to and including its last, and whatever else is burned between
\* (grant.ts, nonce; payment-executor.ts, consume).
GrantRunsOnce == \A n \in Nonce : ran[n] <= 1
============================================================================
