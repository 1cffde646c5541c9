------------------------------ MODULE Verdict ------------------------------
(***************************************************************************)
(* From the stages' outcomes to a verdict: the kernel (combine.ts,         *)
(* kernel.ts), the advisory reviewer that runs after it (advisory.ts), and *)
(* the record of an evaluation from which it can be replayed               *)
(* (serialize.ts).                                                         *)
(***************************************************************************)
EXTENDS Stages

Rank == [ALLOW |-> 0, PAUSE |-> 1, DENY |-> 2]

Codes(findings) == {f.code : f \in findings}

\* The finding combine adds for a mandatory stage that is absent or not completed.
Incomplete(outcomes) ==
  {FindingOf(s, "STAGE_DID_NOT_COMPLETE") :
     s \in {t \in StageIds : t \notin DOMAIN outcomes \/ outcomes[t].status # "COMPLETED"}}

Pausing(findings) == {f \in findings : f.severity = "PAUSE"}

\* Every code that pauses now is one the reviewer was shown, for this request.
ApprovalCovers(findings, approval, fingerprint) ==
  /\ approval # Null /\ fingerprint = approval.boundTo
  /\ \A f \in findings : f.severity # "DENY"
  /\ Pausing(findings) # {}
  /\ Codes(Pausing(findings)) \subseteq approval.codes

Combine(outcomes, approval, fingerprint) ==
  LET findings == (UNION {outcomes[s].findings : s \in DOMAIN outcomes}) \cup Incomplete(outcomes)
      denied == \E f \in findings : f.severity = "DENY"
      paused == ~denied /\ Pausing(findings) # {}
      approved == paused /\ ApprovalCovers(findings, approval, fingerprint)
      allowed == approved \/ (~denied /\ ~paused)
  IN [verdict |-> IF denied THEN "DENY" ELSE IF allowed THEN "ALLOW" ELSE "PAUSE",
      findings |-> findings,
      codes |-> Codes(findings)
                  \cup (IF approved THEN {"REVIEW_APPROVAL_APPLIED"} ELSE {})
                  \cup (IF allowed THEN {"VERIFIED_MATCH"} ELSE {})]

\* evaluate
Evaluate(ctx) == Combine(RunStages(ctx), ctx.approved, ctx.fingerprint)

-----------------------------------------------------------------------------

\* What a judgement proposes (RESTRICTION) and the code it is reported under.
Restriction == [ALIGNED |-> "ALLOW", MARGINAL |-> "PAUSE", DIVERGED |-> "DENY"]
AdvisoryCode == [MARGINAL |-> "ADVISORY_INTENT_MARGINAL", DIVERGED |-> "ADVISORY_INTENT_DIVERGED"]

Judgement == DOMAIN Restriction

\* Mutant of ApplyAdvisory: the reviewer's verdict replaces the kernel's.
AdvisoryReplaces(decision, judgement) ==
  IF judgement = Null THEN decision ELSE [decision EXCEPT !.verdict = Restriction[judgement]]

\* applyAdvisory, with a reviewer configured: it answers a judgement, or Null when unavailable.
ApplyAdvisory(decision, judgement) ==
  IF judgement = Null THEN [decision EXCEPT !.codes = @ \cup {"ADVISORY_UNAVAILABLE"}]
  ELSE IF judgement = "ALIGNED" THEN decision
  ELSE [decision EXCEPT
          !.verdict = IF Rank[Restriction[judgement]] > Rank[@] THEN Restriction[judgement] ELSE @,
          !.codes = @ \cup {AdvisoryCode[judgement]}]

-----------------------------------------------------------------------------

\* A Map is written as the pairs of its keys and values.
Pairs(map) == {<<k, map[k]>> : k \in DOMAIN map}
MapOf(pairs) == [k \in {p[1] : p \in pairs} |-> (CHOOSE p \in pairs : p[1] = k)[2]]

\* A context with its maps, where it has them, in another form.
Rewritten(ctx, Form(_)) ==
  [ctx EXCEPT
     !.live = IF ctx.live = Null THEN Null ELSE [ctx.live EXCEPT !.items = Form(ctx.live.items)],
     !.snapshot = IF ctx.snapshot = Null THEN Null
                  ELSE [ctx.snapshot EXCEPT !.rows = Form(ctx.snapshot.rows)]]

\* Mutant of SerializeContext: the operator's approval is not written.
SerializeUnapproved(ctx) == [Rewritten(ctx, Pairs) EXCEPT !.approved = Null]

SerializeContext(ctx) == Rewritten(ctx, Pairs)
DeserializeContext(json) == Rewritten(json, MapOf)

=============================================================================
