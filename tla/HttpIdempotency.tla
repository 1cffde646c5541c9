-------------------------- MODULE HttpIdempotency --------------------------
(***************************************************************************)
(* The request-scoped idempotency of the HTTP surface: withIdempotency     *)
(* (apps/api/src/http-idempotency.ts) over the idempotency_records table   *)
(* (apps/api/src/idempotency.ts), and the operator's resolution of a       *)
(* review, which forgets a stored answer (apps/api/src/server.ts).         *)
(*                                                                         *)
(* The requests concern one release. Their work is the domain's and ends   *)
(* in an answer: a pause, which opens a review, or a decision. An answer   *)
(* remembers the fingerprint it was worked out for.                        *)
(***************************************************************************)
EXTENDS Naturals

CONSTANTS Call,         \* the HTTP requests
          HttpKey,      \* their idempotency keys
          CallKey,      \* the key of each
          Fingerprint,  \* the fingerprint of each: route, body and principal
          ReleaseKey    \* the release's clientIdempotencyKey

ASSUME CallAssumption == CallKey \in [Call -> HttpKey] /\ ReleaseKey \in HttpKey

VARIABLES record,     \* idempotency_records, by key
          call,       \* where each request stands
          answer,     \* what its work came to
          review,     \* the fingerprint whose pause opened the release's review
          overruled,  \* the fingerprints whose pause an operator has resolved
          forgetting, \* the resolution is made, its forget is not
          deleted     \* the keys a record of which was ever deleted

httpVars == <<record, call, answer, review, overruled, forgetting, deleted>>

Absent == [status |-> "ABSENT"]

Prints == {Fingerprint[c] : c \in Call}
Answer == [of : Prints, verdict : {"PAUSE", "FINAL"}]

HttpTypeOK ==
  /\ record \in [HttpKey -> {Absent} \cup [status : {"IN_FLIGHT"}, fingerprint : Prints]
                 \cup [status : {"COMPLETED"}, fingerprint : Prints, response : Answer]]
  /\ call \in [Call -> {"new", "conflict", "working", "decided", "answered", "refused", "failed"}]
  /\ answer \in [Call -> Answer \cup {<<>>}]
  /\ review \in Prints \cup {<<>>}
  /\ overruled \in SUBSET Prints
  /\ forgetting \in BOOLEAN
  /\ deleted \in SUBSET HttpKey

HttpInit == /\ record = [k \in HttpKey |-> Absent]
            /\ call = [c \in Call |-> "new"]
            /\ answer = [c \in Call |-> <<>>]
            /\ review = <<>>
            /\ overruled = {}
            /\ forgetting = FALSE
            /\ deleted = {}

CallTo(c, s) == call' = [call EXCEPT ![c] = s]

-----------------------------------------------------------------------------

\* Mutant of Claim: a claim in flight is taken over, as a reaper without a lease would.
ClaimStale(c) ==
  /\ call[c] = "new"
  /\ IF record[CallKey[c]].status # "COMPLETED"
       THEN /\ record' = [record EXCEPT ![CallKey[c]] =
                            [status |-> "IN_FLIGHT", fingerprint |-> Fingerprint[c]]]
            /\ CallTo(c, "working")
       ELSE CallTo(c, "conflict") /\ UNCHANGED record
  /\ UNCHANGED <<answer, review, overruled, forgetting, deleted>>

\* INSERT ... ON CONFLICT DO NOTHING.
Claim(c) ==
  /\ call[c] = "new"
  /\ IF record[CallKey[c]] = Absent
       THEN /\ record' = [record EXCEPT ![CallKey[c]] =
                            [status |-> "IN_FLIGHT", fingerprint |-> Fingerprint[c]]]
            /\ CallTo(c, "working")
       ELSE CallTo(c, "conflict") /\ UNCHANGED record
  /\ UNCHANGED <<answer, review, overruled, forgetting, deleted>>

\* Mutant of Explain: a different payload is answered from the record.
ExplainByKey(c) ==
  /\ call[c] = "conflict"
  /\ \/ /\ record[CallKey[c]].status = "COMPLETED"
        /\ CallTo(c, "answered")
        /\ answer' = [answer EXCEPT ![c] = record[CallKey[c]].response]
     \/ record[CallKey[c]].status # "COMPLETED" /\ CallTo(c, "refused") /\ UNCHANGED answer
  /\ UNCHANGED <<record, review, overruled, forgetting, deleted>>

\* The stored answer is this request's own.
IsOwn(c) == /\ record[CallKey[c]].status = "COMPLETED"
            /\ record[CallKey[c]].fingerprint = Fingerprint[c]

\* The read that follows a conflict. A record deleted in between is a claim too,
\* but one with no record.
Explain(c) ==
  /\ call[c] = "conflict"
  /\ \/ record[CallKey[c]] = Absent /\ CallTo(c, "working") /\ UNCHANGED answer
     \/ /\ IsOwn(c)
        /\ CallTo(c, "answered")
        /\ answer' = [answer EXCEPT ![c] = record[CallKey[c]].response]
     \/ record[CallKey[c]] # Absent /\ ~IsOwn(c) /\ CallTo(c, "refused") /\ UNCHANGED answer
  /\ UNCHANGED <<record, review, overruled, forgetting, deleted>>

\* The domain decides. A pause opens the release's one review.
Decide(c) ==
  /\ call[c] = "working"
  /\ \E verdict \in {"PAUSE", "FINAL"} :
       /\ answer' = [answer EXCEPT ![c] = [of |-> Fingerprint[c], verdict |-> verdict]]
       /\ review' = IF verdict = "PAUSE" /\ review = <<>> THEN Fingerprint[c] ELSE review
  /\ CallTo(c, "decided")
  /\ UNCHANGED <<record, overruled, forgetting, deleted>>

\* complete: an update by key alone, which finds no row after a deletion.
Complete(c) ==
  /\ call[c] = "decided"
  /\ record' = IF record[CallKey[c]] = Absent THEN record
                 ELSE [record EXCEPT ![CallKey[c]] =
                        [status |-> "COMPLETED", fingerprint |-> @.fingerprint,
                         response |-> answer[c]]]
  /\ CallTo(c, "answered")
  /\ UNCHANGED <<answer, review, overruled, forgetting, deleted>>

\* The work, or the completion after it, throws: abandon, by key alone.
Fail(c) ==
  /\ call[c] \in {"working", "decided"}
  /\ IF record[CallKey[c]].status = "IN_FLIGHT"
       THEN /\ record' = [record EXCEPT ![CallKey[c]] = Absent]
            /\ deleted' = deleted \cup {CallKey[c]}
       ELSE UNCHANGED <<record, deleted>>
  /\ CallTo(c, "failed")
  /\ UNCHANGED <<answer, review, overruled, forgetting>>

\* The process dies. Nothing reaps the claim.
Crash(c) ==
  /\ call[c] \in {"conflict", "working", "decided"}
  /\ CallTo(c, "failed")
  /\ UNCHANGED <<record, answer, review, overruled, forgetting, deleted>>

\* POST /v1/reviews/:id/resolve, and the forget that follows it.
Overrule ==
  /\ review # <<>> /\ ~forgetting
  /\ review' = <<>>
  /\ overruled' = overruled \cup {review}
  /\ forgetting' = TRUE
  /\ UNCHANGED <<record, call, answer, deleted>>

Forget ==
  /\ forgetting
  /\ forgetting' = FALSE
  /\ record' = [record EXCEPT ![ReleaseKey] = Absent]
  /\ deleted' = deleted \cup {ReleaseKey}
  /\ UNCHANGED <<call, answer, review, overruled>>

\* The process dies in between: the resolution stands, the stored answer too.
ForgetLost ==
  /\ forgetting
  /\ forgetting' = FALSE
  /\ UNCHANGED <<record, call, answer, review, overruled, deleted>>

HttpNext == \/ \E c \in Call : \/ Claim(c) \/ Explain(c) \/ Decide(c) \/ Complete(c)
                              \/ Fail(c) \/ Crash(c)
            \/ Overrule \/ Forget \/ ForgetLost

HttpSpec == HttpInit /\ [][HttpNext]_httpVars

-----------------------------------------------------------------------------
(* Properties *)

Busy(c) == call[c] \in {"working", "decided"}

\* Until a record of the key is deleted, one request at a time works under it,
\* however many arrive at once: the insert decides, not a read before it.
ClaimIsExclusive ==
  \A c, d \in Call :
    Busy(c) /\ Busy(d) /\ CallKey[c] = CallKey[d] /\ CallKey[c] \notin deleted => c = d

\* Until a record of its key is deleted, a request is answered with what was worked
\* out for its own fingerprint, by itself or by the request it repeats.
AnswerIsOwn ==
  \A c \in Call :
    call[c] = "answered" /\ CallKey[c] \notin deleted => answer[c].of = Fingerprint[c]

\* A stored answer is replayed unchanged for as long as no deletion touches its key.
ReplayIsStable ==
  [][\A k \in HttpKey : record[k].status = "COMPLETED" /\ k \notin deleted'
                          => record'[k] = record[k]]_httpVars

\* http-idempotency.ts:12, with operators and failures: a key used again with other
\* input is "never answered from cache".
NeverAnsweredForOther ==
  \A c \in Call : call[c] = "answered" => answer[c].of = Fingerprint[c]

\* idempotency.ts:110, with operators and failures: "exactly one is told CLAIMED".
OneIsToldClaimed ==
  \A c, d \in Call : Busy(c) /\ Busy(d) /\ CallKey[c] = CallKey[d] => c = d

\* server.ts:525: an answer an operator has overruled is no longer stored once the
\* resolution is over.
OverruledIsForgotten ==
  ~forgetting => \A k \in HttpKey :
                   record[k].status = "COMPLETED" =>
                     ~(record[k].response.verdict = "PAUSE" /\ record[k].response.of \in overruled)
=============================================================================
