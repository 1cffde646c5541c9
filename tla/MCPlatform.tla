----------------------------- MODULE MCPlatform -----------------------------
(* The components that share no state with the rest, one to a behaviour:    *)
(* `part` says which of them runs, and the others stay where they start.    *)
EXTENDS HttpIdempotency, EvidenceChain, AgentRuntime, BuyerScreen,
        GuardedExecutor, SweepQueue, PaymentEvents, OperatorConsole, RazorpayClient

CONSTANTS f1, f2, s1, s2, s3

VARIABLE part

Parts == {"http", "chain", "agent", "screen", "executor", "queue", "events", "console", "razorpay"}

\* One key: a request, its repeat, and another body or principal under it.
MCCallKey     == [c \in Call |-> "kO"]
MCFingerprint == [c \in Call |-> IF c = "c3" THEN f2 ELSE f1]

MCKind  == [t \in Tx |-> IF t = "t2" THEN "outcome" ELSE IF t = "t3" THEN "single" ELSE "decision"]
MCRowOf == [t \in Tx |-> IF t = "t3" THEN "r0" ELSE IF t = "t4" THEN "r2" ELSE "r1"]

Product(m, c, n, p, b) == [merchant |-> m, category |-> c, stock |-> n, price |-> p, subscription |-> b]
MCProducts   == {Product("ours", "food", 2, 1, FALSE), Product("ours", "food", 1, 2, FALSE),
                 Product("ours", "toys", 2, 1, FALSE), Product("ours", "food", 2, 2, TRUE), Product("other", "food", 2, 1, FALSE)}
MCCatalogues == {[s \in Sku |-> IF s = s3 THEN NotOffered ELSE Product("ours", "food", 2, 1, FALSE)],
                 [s \in Sku |-> IF s = s1 THEN Product("ours", "toys", 2, 1, FALSE)
                                ELSE Product("ours", "food", 1, 2, FALSE)]}
MCBounds     == [min |-> 1, max |-> 2, merchants |-> {"ours"}, allowed |-> {"food"}, forbidden |-> {"toys"},
                 oneTime |-> TRUE, remaining |-> 2]
MCPrefer     == <<s3>>

\* A component that does not run starts in one state.
OneStart ==
  /\ part # "agent" => mind = "free" /\ reachable /\ offer = CHOOSE c \in AgCatalogues : TRUE
  /\ part # "screen" => scenario = "clean"
  /\ part # "queue" => kind = [r \in Row |-> "stuck"]
  /\ part # "razorpay" => \A c \in RzCall : rzCall[c].asks = "order"
  /\ part # "console" => route = CHOOSE r \in Shown : TRUE

MCInit == /\ part \in Parts
          /\ HttpInit /\ ChainInit /\ AgentInit /\ ScreenInit
          /\ ExecutorInit /\ QueueInit /\ EventsInit /\ ConsoleInit /\ RzInit
          /\ OneStart

RunsHttp == part = "http" /\ HttpNext
  /\ UNCHANGED <<part, chainVars, agentVars, screenVars, executorVars, queueVars, eventVars, consoleVars, rzVars>>
RunsChain == part = "chain" /\ ChainNext
  /\ UNCHANGED <<part, httpVars, agentVars, screenVars, executorVars, queueVars, eventVars, consoleVars, rzVars>>
RunsAgent == part = "agent" /\ AgentNext
  /\ UNCHANGED <<part, httpVars, chainVars, screenVars, executorVars, queueVars, eventVars, consoleVars, rzVars>>
RunsScreen == part = "screen" /\ ScreenNext
  /\ UNCHANGED <<part, httpVars, chainVars, agentVars, executorVars, queueVars, eventVars, consoleVars, rzVars>>
RunsExecutor == part = "executor" /\ ExecutorNext
  /\ UNCHANGED <<part, httpVars, chainVars, agentVars, screenVars, queueVars, eventVars, consoleVars, rzVars>>
RunsQueue == part = "queue" /\ QueueNext
  /\ UNCHANGED <<part, httpVars, chainVars, agentVars, screenVars, executorVars, eventVars, consoleVars, rzVars>>
RunsEvents == part = "events" /\ EventsNext
  /\ UNCHANGED <<part, httpVars, chainVars, agentVars, screenVars, executorVars, queueVars, consoleVars, rzVars>>
RunsConsole == part = "console" /\ ConsoleNext
  /\ UNCHANGED <<part, httpVars, chainVars, agentVars, screenVars, executorVars, queueVars, eventVars, rzVars>>

RunsRazorpay == part = "razorpay" /\ RzNext
  /\ UNCHANGED <<part, httpVars, chainVars, agentVars, screenVars, executorVars, queueVars, eventVars, consoleVars>>

MCNext == RunsHttp \/ RunsChain \/ RunsAgent \/ RunsScreen
          \/ RunsExecutor \/ RunsQueue \/ RunsEvents \/ RunsConsole \/ RunsRazorpay

MCVars == <<part, httpVars, chainVars, agentVars, screenVars,
            executorVars, queueVars, eventVars, consoleVars, rzVars>>

\* The fairness each component states, while it is the one that runs.
MCSpec == /\ MCInit /\ [][MCNext]_MCVars
          /\ \A t \in Tx : WF_MCVars(RunsChain /\ TxStep(t))
          /\ \A t \in SqTick : WF_MCVars(RunsQueue /\ Fire(t)) /\ WF_MCVars(RunsQueue /\ (Work(t) \/ NextSweep(t)))

\* Decisions and outcomes of one release take the chain's lock and the release's
\* row in opposite orders; still every transaction ends, since one of two that
\* wait for each other is rolled back (release-service.ts, evidence-ledger.ts).
TransactionsDoEnd == part = "chain" => TransactionsEnd
=============================================================================
