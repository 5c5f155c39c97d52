# Formal model of the ledgers that reach outside the process

The repository is a trading-research system that records everything it does in
append-only ledgers and trades only on an Alpaca Paper account. Its hard part is
where such a ledger has to agree with something outside the process: orders,
cancels and closes sent to a broker over a connection that may lose requests and
answers; a stream of trade updates that loses frames; messages to a chat
platform; model calls that are paid for before they are made; recommendations
that follow a market minute by minute. In each case a process may die between
the ledger's commit and the effect, or between two commits, and a later one has
to go on from what was committed. The TLA+ modules here model those five parts,
TLC checks them on small instances, and TLAPS proves every safety property that
TLC finds to hold, and the refinement, for all instances; liveness stays with TLC.

Paths below are relative to `src/trading_agent/` unless they start with `docs/`
or `tests/`.

## 1. Inventory

| Component | State it keeps | Operations | Status |
| --- | --- | --- | --- |
| Paper mutation ledger, executor, recovery | `paper_mutation_intents`, `paper_mutation_events`, the writer flock | save intent, attempt, record outcome, checkpoint, recover | modelled, proved |
| Protective OCO and safety plans | `protective_oco_plans`, `paper_safety_plans`, kill latch | `execute_protection`, `execute_safety` | modelled, proved |
| Trade-update receipts, stream recovery, order projection | raw receipts, dispositions, events, checkpoints, activities | receive, classify, store, quarantine, checkpoint, project | partly modelled, proved |
| Day discovery on a shared budget | cycle events, budget debits, capsules, receipt and artifact files | open, reserve, call, prepare, publish, preflight, finalize, project | modelled, proved |
| Order gate, risk sizing, smoke eligibility | none of its own (reads ledger and snapshot) | approve or refuse an entry | planned |
| Recommendation engine and store | recommendations and their events, bar checkpoint, alert outbox | scan (observe, follow), catch up, recommend, announce, finalize | modelled, proved |
| Hermes delivery | deliveries, attempts with leases, transitions, acknowledgements | project, claim, send, acknowledge, fail, redrive, reconcile | modelled, proved |
| Hermes arm authority | signed arm requests | issue, consume | planned |
| Autonomous tasks and supervisor | tasks, steps, writer generation | create task, append step, supervise | planned |
| Research plane and experiment governance | lane registry, reviews, leases | register, review, acquire and release | planned |
| Signal and contract outboxes | JSONL files | append | planned |
| Market-data collectors | raw receipts | fetch, parse | not modelled |
| Strategies and backtests | none | numeric signal rules | not modelled |
| Dashboard | none (read-only) | views | not modelled |
| Command-line entry points, launchd jobs | none | parse arguments, schedule | not modelled |

**How the parts interact.** A command-line job opens an operating session
(`paper_operating_session.py`), which takes the non-blocking flock on the
execution ledger and connects the broker's order stream. Every operation of the
session runs behind one operation lock:

1. a *recovery checkpoint*: a stream heartbeat, REST reads of open and recent
   orders, account activities and one targeted lookup for every mutation whose
   outcome is unknown, and a second heartbeat in the same stream epoch;
2. *recovery*: each unresolved mutation is decided from that evidence, and the
   decision is appended to its event log;
3. a *readiness snapshot*: open orders first, then positions;
4. a *gate or planner* that turns ledger and snapshot into a plan of mutations;
5. the *executor*, which commits `ATTEMPTED` before each broker call and the
   outcome after it;
6. another checkpoint and recovery.

The *stream owner* (`paper_stream_owner.py`) feeds the same ledger: it classifies
the receipts a crash left pending, connects, takes a checkpoint, and then commits
each frame in three steps (raw receipt, event, disposition). What the gate and
the planners call an order's state is the projection of these events, of the
latest checkpoint's REST order and of the account activities.

*Day discovery* runs inside research commands (`run_day_discovery_cycle.py:146`,
`day_discovery_loop.py:401`), which exclude one another by the heavy empirical
lease, and inside the Day agent's bridge (`day_agent_research_bridge.py:165`),
which does not take it. All of them debit one account per market and epoch.

The *watch* of a session (`run_kis_paper_watch.py`) starts one scan process after
the other, then the catch-up after the close, and finalizes what is still open.
They share only the paper store, whose every method commits on its own; a scan
that dies leaves the commits it has made, and the watch goes on to the next.

The *Hermes service* claims, sends and acknowledges under one writer lock per
tick; projections of the producers' outboxes and an operator's redrives take the
same lock between ticks. A session report reads its store.

**What is hard about it.** A crash between two commits, or between a commit and
the broker call; a request that timed out and still arrives; an answer lost for
an order that exists; evidence that is stale by the time it is used; orders and
positions read at different moments of a moving market; a plan of which one step
fails; two processes on one ledger; a cancel that has not yet taken effect; an
operation that must eventually succeed. `PROJECT.json` lists these hazards at
the lines where they bite, with the property that covers each, or the reason why
none does.

**What makes each part correct.**

- *Mutation plane*: no effect happens twice; what the ledger says about the
  broker is true; the ledger knows of everything that may exist at the broker;
  one unknown outcome at a time; unknown outcomes get resolved.
- *Protection and safety*: never more working to sell than is held; one OCO at a
  time; closes work alone; a kill is final for the day; what the planners still
  have to do is not refused as a repetition of what they did before: a
  replacement OCO by the broker, a close by the guard against repeated actions.
- *Receipts and projection*: an order state without anomalies is the broker's,
  whatever the stream lost, repeated or reordered; nothing that was received is
  forgotten across crashes; a checkpoint repairs the rest.
- *Day discovery*: no call unpaid, none made twice, the account within its limit,
  no effect repeated by a resumed run, an accepted cycle backed by one capsule, a
  cycle that has paid finished.
- *Hermes delivery*: a reply only under its root; at most one of a message and its
  copies acknowledged; no new request after its end, none too late; each delivery
  ends; the session report true.
- *Hermes arm authority* (planned): an arm request is consumed once.
- *Gate and risk* (planned): no approval on a snapshot that does not match the
  ledger; exposure limits hold over any sequence of approvals.
- *Recommendation engine*: a recommendation of which no fetch left out a bar is
  what its bars make of it, however often they are processed again; one a day;
  closed with its session.
- *Tasks and research leases* (planned): steps form one gap-free chain; at most
  one holder of a lease; a lost lease cannot write.

## 2. Modules

| Module | Models | Lines |
| --- | --- | --- |
| `PaperMutationLedger` | transition rules, executor and recovery decisions, as operators | 125 |
| `PaperMutation` | processes, lease, checkpoint, recovery, execution, broker and time | 618 |
| `PaperProtection` | protective OCO lifecycle and safety plans against a moving market | 678 |
| `TradeUpdates` | trade updates, their three commits, checkpoints and the projection | 370 |
| `DayDiscovery` | discovery cycles, their runs and the shared budget account | 654 |
| `PrepaidCalls` | what the budget promises of model calls; implemented by `DayDiscovery` | 49 |
| `HermesDelivery` | delivery store, worker, platform and time; the session report | 358 |
| `Recommendations` | scans, catch-up and finalization over a store of single commits | 402 |
| `PaperMutationProofs` | the theorems about `PaperMutation` | 1337 |
| `PaperProtectionProofs` | the theorems about `PaperProtection` | 1940 |
| `TradeUpdatesProofs` | the theorems about `TradeUpdates` | 1269 |
| `DayDiscoveryProofs` | the theorems about `DayDiscovery`, the refinement included | 1503 |
| `HermesDeliveryProofs` | the theorems about `HermesDelivery` | 1046 |
| `RecommendationsProofs` | the theorems about `Recommendations`, but for the next | 1097 |
| `RecommendationsReplayProofs` | bars processed again after a death; extends the module before | 1120 |
| `MCPaperMutation`, `MCPaperProtection`, `MCTradeUpdates`, `MCDayDiscovery`, `MCHermesDelivery`, `MCRecommendations` | instances for TLC | 81 |

The map in `PROJECT.json` names the source lines of every definition. Operators
whose comment begins with *Mutant:* are not used by the specifications: each is
a plausible bug, and the property it is paired with in `PROJECT.json` fails when
it takes the place of the real definition.

### 2.1 PaperMutationLedger and PaperMutation

*State.* `intents` and `events` are the two tables; an event log keeps attempt
number and event type. `age[m]` is the time since the latest `ATTEMPTED` event,
`lag[p]` the time since the checkpoint's reads; both stop one past the largest
value that is compared. `lease` holds the flock. `pc`, `purpose`, `evidence`,
`verdict`, `queue`, `attempt` and `fresh` are a process's volatile state; `fresh`
is the ledger-generation barrier between a checkpoint and the plan that rests on
it. `inflight`, `applied`, `failed` and `changed` are the broker and the network,
which are external.

| Action | Code |
| --- | --- |
| `Open`, `Close`, `Crash` | the session's flock; a dead process loses it and its memory |
| `Begin`, `ReadBroker`, `CompleteCheckpoint`, `CheckpointTooOld`, `CheckpointFails`, `CheckpointRefused` | the checkpoint, with each way it raises |
| `RecoverOne`, `RecoverRaises`, `EndRecover` | `recover()`: one append per decided mutation; the append that is refused; what the caller does next |
| `StartPlan`, `Decline`, `SaveIntent`, `Attempt`, `SkipAttempt`, `Send` | plan, barrier, intent, `_run` up to the broker call |
| `Reply*` | acknowledgement, refusal, 5xx (recorded as a refusal), transport error, a status below 400 other than the expected one (raises, nothing recorded) |
| `Apply`, `Lose`, `FailClose`, `Disturb`, `Tick` | external: broker, network, market, time |

Saving the intent, committing `ATTEMPTED`, the call, and recording the outcome
are separate steps because the code commits between them; everything inside one
SQLite transaction is one step. What the REST reads can show is abstracted to the
cases the decision procedures distinguish (`Evidence`). An order that the ledger
does not explain (`Unexplained`: an order replaced by hand, or the order of a
`close_position` call, whose client id the broker makes up) makes the checkpoint
raise.

### 2.2 PaperProtection

One symbol and one long entry whose order is at the broker, over one New York
trading day. An operation reads the broker in four steps (entry order and OCO
history of the checkpoint, open orders and positions of the snapshot), and the
market may move between any two of them: `ReadEntry`, `ReadHistory`,
`ReadInventory`, `ReadPositions`. `PlanOco`, `PlanResizeCancel` and
`NoProtection` are the three outcomes of `execute_protection`; `PlanSafety` and
`SafetyBlocked` those of `execute_safety`, in the phase that clock, loss and
latch select. `Acknowledge`, `Reject`, `AlreadyRun`, `Ambiguous`, `CrashSending`
run a mutation; `Arrive` and `Vanish` decide the fate of one whose answer was
lost; `Recover` resolves it.

*Composition.* A mutation is used here through what the theorems of
`PaperMutationProofs` say of it: it takes effect at most once
(`NoDoubleEffect`), its recorded outcome is true (`AbsentStaysAbsent`,
`AcknowledgedWasDone`), and while one is unresolved no other is sent
(`AtMostOneOutstanding`). That is why `outstanding` is a single value and
`Recover` waits until the request can no longer arrive. One that ends in
`ATTEMPTED` is never recovered, as the run `mutation_stuck` shows of the code.

### 2.3 TradeUpdates

One entry order of `Shares` shares, every execution of one share with its own
price and the broker's time stamp; event `n` is the `n`-th execution, event
`Closing` the cancel or expiry of the rest. `receipts`, `events`, `recoveries`,
`rest` and `acts` are the ledger, `pc`, `current`, `order`, `seen` the owner's
volatile state, the rest is the broker and the connection. `Fill`, `EndOrder`
and `Lose` are external; frames on the connection are a set, so they arrive in
any order, and `Receive` may leave one there to arrive again.

| Action | Code |
| --- | --- |
| `Open`, `Reprocess`, `Connect` | `open_paper_stream_owner`: pending receipts first, then the stream |
| `ReadOrder`, `ReadActivities`, `CompleteRecovery`, `RecoveryRefused`, `Checkpoint` | the REST checkpoint: the order is read before its activities, which may lag |
| `Receive`, `StoreEvent`, `Accept`, `Quarantine` | the three commits of a frame, or the two of one that cannot be parsed |
| `Stop` | the process dies, or a call raises, between any two of them |

The projection is a set of operators over the ledger, not state: `StreamGap`,
`ActivityComplete`, `AveragesDiffer`, `CumulativeFilled`, `Priced`, `Terminal`
and `Clean` (no `anomaly_reasons`) are those of
`broker_execution_projection.py`, `broker_activity_projection.py` and
`broker_order_projection.py`; `Receipted` is `trade_update_receipt_reasons`.

### 2.4 DayDiscovery and PrepaidCalls

Cycles of one budget account. `event`, `done`, `accepted`, `left`, `prompt`,
`reply`, `prepared`, `paid`, `used` and `final` are what the experiment ledger
holds of a cycle and of the account; `receipt` and `artifacts` are files;
`pc`, `seen` and `ctx` are a run's memory. `seen` is the budget of the state read
last, and `ctx` the budget the prompt was built from: the code keeps both apart,
and both may be stale. One action is one `ledger.writer()` transaction, or one
effect between two transactions (model call, publication, sandbox).
`AllowedTransitions` is the ledger's table, and `Append` refuses what is not in it.
`Start`, `Open`, `Load`, `Reload` and `Stop` are the run; `ReserveCall` to
`MalformedResponse` the call; `PrepareBranch` to `TerminalBranch` the critic and
the top-up; `StartResolution` to `AbandonPreflight` the artifact and the preflight
with what a resumed run does; `FinalizeBranch` to `ProjectRefused` the end.

`PrepaidCalls` says what the account promises to the outside: pay one unit, make
the call once, pay for the rest, never above the limit. `DayDiscovery` implements
it under `Calls <- Cycles \X Branches, made <- calls` (`ContractSpec`): every step
of a run is one of those three or leaves payments and calls alone.

### 2.5 HermesDelivery

A delivery is a source event with a generation: 0 is the projected event, higher
ones are copies made by redrives. `log[d]` joins a delivery's attempts with their
transitions. Time is relative: `age` counts up to the freshness limit, `wait` and
`limit` count down to the end of a lease, a retry delay or a send. `late` holds
the requests whose client has given up or died: the platform may still take them
for `Transit` units, whatever the store says of the delivery by then.

| Action | Code |
| --- | --- |
| `Occur`, `Project`, `Redrive` | producers' outboxes, the projection of them, the operator's redrive |
| `Claim` | the claimable delivery with the earliest `occurred_at`; a stale market message goes to `Suppress` |
| `Post`, `Acknowledge`, `SendTimeout`, `SendRejected` | the platform takes the message or not; the answer, the timeout, the refusal; a timeout leaves the request in `late` (`GiveUp`), also that of the last attempt |
| `Arrive` | external: the platform takes a request nobody waits for |
| `LeaseLost`, `Crash`, `Start` | an answer after the lease ends the process; launchd starts it again |
| `Tick` | time; a send does not outlast its client's timeouts |

`Expected`, `AcknowledgedSet`, `SuppressedSet`, `DeadSet` and `Complete` are the
session report of `us_session_delivery_reconciliation.py`.

### 2.6 Recommendations

One symbol and one strategy; session `d` has `Bars[d]` one-minute bars. `recs`,
`check` and `alerts` are the tables of the paper store, kept over the sessions of
one output directory (`docs/runtime_audit.md:57` allows its reuse); `phase` and
`fetch` belong to the watch and the scan in progress; `cut` and `missed` are
history. A price is
what it means to the plan: at the stop or not, and below the entry, at it, at 1R
or at 2R.

| Action | Code |
| --- | --- |
| `Scan`, `ScanWithoutBars` | `observe` or `follow` up to the fetched bars, or any of their early returns; the feed may lag, and a later fetch may hold fewer bars |
| `Fetch` | the newest `Window` (`max_pages * 120`) minute records, in which the oldest or the newest may be no complete bar: a scan sees `Window - 1` or `Window` bars, the catch-up also fewer, as after-hours records take their place. The bars before them are left out, and `missed` remembers which recommendations lost one |
| `ChangeState`, `NextBar`, `Mark` | `process_forward` and `advance_forward`: each state change is a commit, the checkpoint is the last |
| `Recommend`, `RecordCreation` | `process` and the two commits of `save` |
| `QueueAlert`, `EndScan` | `write_alert_outbox` |
| `CatchUp`, `StopWatch`, `TimeExit`, `EndWatch` | the end of the watch, in order, without its catch-up or too early; the post-session finalizer |
| `Die` | a scan, the catch-up or the watch dies between two commits |
| `Minute`, `NextDay` | external: the market and time |

Whether the strategy signals is free. `Outcome` states what a series of bars makes
of a recommendation without going through them one by one; `CheckpointIsTrue`
compares the engine with it.

## 3. Runs

| Run | Instance | Distinct states | Shows |
| --- | --- | --- | --- |
| `mutation_restart` | 2 processes; an entry or an OCO; 1 fault, fair | 766,788 | `TypeOK`, `AttemptedBeforeSent`, `AtMostOneEffect`, `AbsentIsTrue`, `AcknowledgedIsTrue` between competing processes; `AmbiguousIsResolved`: an ambiguous entry that is at the broker is acknowledged eventually |
| `mutation_flatten` | 1 process; cancel then close, and two closes; 1 fault | 5,223,860 | `AcknowledgedIsTrue`, `OneOutstanding` through interruption of a plan at any point |
| `mutation_stuck` | 1 entry, 1 fault, fair | violation | finding 1 |
| `protect_flatten` | quantity 3, 3 plans, safety plans as well | 1,071,422 | `TypeOK`, `OneLiveOco`, `NoOversell`, `CloseStandsAlone`, `NoOcoAfterKill`, `GuardLetsClose` under fills, expiry, refusals, lost answers, crashes |
| `protect_resize` | quantity 3, 4 plans, lagging lists | 1,238,661 | `ReplacementIsNew`: the broker has not taken the client order id of what is submitted, unless it is the OCO the lists do not show yet |
| `protect_sold` | quantity 2, 1 plan, safety plans, OCO fills, fair | violation | finding 2 |
| `protect_missing` | quantity 3, 3 plans, lagging lists | violation | finding 3 |
| `discovery_shared` | 2 cycles, one bridged, 2 units, 2 drafts, 1 stop, fair | 283,229 | `TypeOK`, `AuditHolds`, `EffectsOnce`, `AcceptedIsBacked`, `FinalizedProjects`, `PaidCyclesFinish`, and the refinement `ContractSpec` |
| `hermes_thread` | an opportunity and the signal that answers it, 3 attempts, 1 redrive, late arrivals, fair | 401,450 | `TypeOK`, `ReportIsTrue`, `RepliesFollowRoots`, `OneAcknowledged`, `EndedIsFinal`, `PostedInTime`, `EveryDeliveryEnds` |
| `recommendations_restart` | sessions of 3 and 2 bars, 7 shapes of bar, fetches of 2, any number of deaths | 4,603,153 | `TypeOK`, `CheckpointIsTrue`, `OneTrade`, `OncePerDay`, `NothingExcluded`, `OvernightOnlyIfCut` |
| `recommendations_gap` | one session of 4 bars, fetches of 2, no lag | violation | finding 4 |
| `updates_stream` | 3 shares at 3 prices, 2 connections, 3 checkpoints, 1 unreadable frame | 1,263,616 | `TypeOK`, `CleanIsTrue`, `NothingForgotten`, `RecoveredIsClean`, `CleanIsMonotone` |

**Bounds and why they are enough.** `SettleDelay = 3`, `MaxEvidenceAge = 4`,
`ReceiptAge = 1` and `RequestTTL = 1` are the smallest values that keep the order
of the code's limits (30 s settle delay, 5 s receipt age, evidence age beyond the
settle delay) with a time strictly before, within and after each. `MaxAttempts =
2` allows the retry that could duplicate an effect; a third attempt adds no kind
of state, since only the latest attempt may be under way (proved, `LatestInv`).
`MaxFaults = 1` allows one crash or lost answer, and while it is recovered from,
the other process or a second session may come in between. `Quantity = 3` allows
a partial fill, a resize up and a partial sale in one behaviour; `MaxPlans`
counts OCO plans, and 3 are a first OCO and two replacements; `protect_resize`
has one more, so that a return to an earlier quantity is followed by another change. `Behaviours`
selects which external events a run allows; each set is named in
`MCPaperProtection`. The theorems hold without any of these bounds being small.

In `discovery_shared` two units are what two cycles compete for: each can reserve
one call, and the second unit of a demand of 2 exists only if the other cycle has
not taken it. One of the two cycles runs under the heavy lease and one does not,
so their steps interleave freely, and a stopped run meets a resumed one of the
other cycle. Flaws stand for the three places where a proposal can fail: before
the critic, before and after the comparison with the budget. In `hermes_thread` a
unit is 10 s: freshness and lease are 30 s, a send may last 40 s and so outlive
its lease, and a retry waits 10 s. `Transit` is one unit: enough for a request to
arrive before a retry, after a dead letter, during the send of a redriven copy and
after its acknowledgement. Three attempts allow a timeout, an expired lease and a
last attempt. In `updates_stream` the first two
executions bear the same time stamp, so their order is that of arrival, and the
three prices differ, so that each set of executions has another average; two
connections allow a receipt of the first to be classified in the second, and
three checkpoints one before, one during and one after a gap. In
`recommendations_restart` three bars allow a recommendation after the first, its
entry on the second and its end on the third, with any of them processed twice;
the second session, with an early close, shows what one leaves to the next. A
fetch may end at any of the bars that `MAX_FEED_DELAY` (3 minutes) permits, and
with `Window = 2` a scan after a pause of two minutes or more leaves bars out, in a
session where most scans do not. `recommendations_gap` has no lag, so that the
pause alone is to blame.

**Deadlock** is not checked in `protect_flatten`, `protect_resize`,
`updates_stream`, `recommendations_restart` and `recommendations_gap`; the last two
end with the last session. In the first two the system may really stop, because a mutation
that ended in `ATTEMPTED` is never resolved or because no plan is left within
`MaxPlans`; in the third the bounds on connections and checkpoints end the run.
Everywhere else it is checked.

**Fairness.** `FairSpec` of `PaperMutation`: an operation once begun goes on
(`WF` of `Step`: straight-line code with timeouts on every call), a scheduler
opens a session when none is open (`WF` of `Open`: the launchd job), and
recovery is asked for again and again although sessions may be closed in between
(`SF` of `Begin(p, "recover")`). No fairness is assumed of the broker, the
network or time. `PaperProtection` claims no liveness: its callers do not come back
for ever. `drive_us_day_session` makes at most eight cycles and ends at the first
blocked or unresolved answer, and the cutoff and EOD calls consume a one-time arm.
`FairSafetySpec`, in which `execute_safety` is called again and again, is more than
the code does; it serves only to refute `KillReplans` in `protect_sold`, where what
fails under it fails all the more with fewer calls. In `DayDiscovery` a
run goes on until it leaves (`WF` of `Work`: every effect has a timeout), callers
come back to a cycle, and the heavy lease is free between two runs (`SF` of
`Start`). In `HermesDelivery` launchd keeps the service alive (`WF` of `Start`,
`KeepAlive` in its job) and a service that starts ticks before it waits, so it
claims sooner or later even if it dies often (`SF` of `Claim`); sends end by
their timeouts, the projection is run again and again, and time goes on (`WF`).
No operator has to redrive, and the platform has to take nothing. `TradeUpdates`
states no liveness: nothing obliges the broker to answer a checkpoint; nor does
`Recommendations`: nothing restarts a watch that has died.

## 4. Proofs

`PaperMutationProofs` proves, for any sets of processes and mutations, any plans,
any number of attempts and faults:

| Theorem | States |
| --- | --- |
| `InductiveInvariant` | `Spec => []IInv` |
| `TypeCorrect` | `Spec => []TypeOK` |
| `NoDoubleEffect` | `Spec => []AtMostOneEffect` |
| `AbsentStaysAbsent` | `Spec => []AbsentIsTrue` |
| `AcknowledgedWasDone` | `Spec => []AcknowledgedIsTrue` |
| `NoUnknownRequest` | `Spec => []AttemptedBeforeSent` |
| `AtMostOneOutstanding` | `Spec => []OneOutstanding` |

**Assumption** (`MutationAssumption`): constants have their types, and
`RequestTTL + ReceiptAge < SettleDelay`. A request reaches the broker, if ever,
within `RequestTTL` of its `ATTEMPTED` event. The client's timeouts are 5 s to
connect, 10 s to write and 10 s to read, without retries; the receipt age limit
is 5 s and the settle delay 30 s. With the full 25 s for `RequestTTL` the two
sides would be equal, so the inequality rests on a request arriving before the
client has stopped waiting for its answer to be read. A connection that keeps a
request for longer after the client has given up is outside the assumption, and
the mutants `SettledAtOnce` and `CompleteStaleCheckpoint` show that the delay and
the receipt age are both needed.

**Argument.** None of the properties is inductive. `AtMostOneEffect` needs that a
new attempt starts only when the former left nothing behind; that rests on
`RECOVERED_ABSENT` being true, which rests on what the evidence meant when it was
read, on nothing having arrived since, and on no other process having written.
So `IInv` consists of

- `TypeOK` and `LeaseInv`: only the holder of the flock is up;
- `LogInv`, `LatestInv`: only saved intents have events, the last event carries the
  highest attempt number, and requests under way and effects that last belong to
  that attempt;
- `AgeInv`: while recovery may still ask about a mutation, a request of it on its
  way is at most `RequestTTL` old;
- `CancelInv`: a cancel that was carried out left its target dead;
- `OneOutstanding`, `AbsentIsTrue`, `AcknowledgedIsTrue`, `AttemptedBeforeSent`;
- for each process `RunOK` (where it is and what its current action's log says),
  `EvidenceOK` (what the evidence it holds implies about the broker now, given
  its `lag`), `VerdictOK` (a decision is still true when it is appended) and
  `ClearOK` (no unresolved mutation when a plan runs).

The proof has one lemma per action. Shared steps are lemmas as well:
`AppendFacts` and `AppendKeepsState` (appending an event), `ObservableTruth` and
`DecideTruth` (evidence and verdicts), `BrokerKeepsProc` and `OthersOK` (a step
elsewhere leaves a process's part intact).

The other proofs go the same way: an inductive `Inv` in named parts, a lemma for
each action or kind of action, and each property from `Inv`. Of the constants they
assume the types that the modules declare, in `DayDiscovery` that the set of
cycles is finite (`CyclesAssumption`: a ledger has finitely many rows), in
`TradeUpdates` that the bounds on connections, checkpoints and unreadable frames
are numbers, and in `HermesDelivery` that a root is its own root.

### 4.1 PaperProtection

`PaperProtectionProofs`, for any quantity, any number of plans and any choice of
`Behaviours`:

| Theorem | States |
| --- | --- |
| `TypeCorrect` | `Spec => []TypeOK` |
| `KillIsFinal` | `Spec => NoOcoAfterKill` |
| `CloseIsNotRepeated` | `Spec => []GuardLetsClose` |
| `OneOcoAtATime` | `"lag" \notin Behaviours` gives `Spec => []OneLiveOco` |
| `NeverOversold` | `"lag" \notin Behaviours` gives `Spec => []NoOversell` |
| `ClosesStandAlone` | `"lag" \notin Behaviours` gives `Spec => []CloseStandsAlone` |

*Hypothesis.* `"lag"` means that the broker's order lists may fail to show for a
while an OCO that it has accepted. With it the last three are false: the run
`protect_missing` is how the second replacement comes to be submitted (finding 3).
They say what the code guarantees against a broker that lists what it has taken,
which is what `protect_flatten` checks.

*Argument.* `BaseInv` needs no hypothesis. Besides the types it says that a plan has
been submitted at most once (`PlanInv`); that one mutation is outstanding at a time,
that a submit or a close is alone in its queue, and that after a close no plan
passes the checkpoint (`FlowInv`; see *A close is unknown to its checkpoint* in
section 5); and that no submit is queued or on its way once the latch is set
(`LatchInv`). `GuardInv` adds that a close is acknowledged, or carried out without
an answer, only if the broker has or had one (`closes`), so a plan that consists of
the close alone repeats nothing. `SafeInv` adds what makes the account safe: at most
one OCO works and none beside a close (`SellInv`), which is kept only because what
an operation has read stays true until it acts: an OCO or an entry seen ended does
not come back, and shares seen held with nothing at work cannot be sold by the
market (`ReadInv`), so the requests computed from them still fit when they arrive,
however late (`PendingInv`). The order of the reads, open orders before positions,
is used there. `SafetyQueue` shows what a safety plan can queue.

### 4.2 TradeUpdates

`TradeUpdatesProofs`, for an order of any number of shares at any prices and time
stamps:

| Theorem | States |
| --- | --- |
| `TypeCorrect` | `Spec => []TypeOK` |
| `CleanStatesAreTrue` | `Spec => []CleanIsTrue` |
| `NothingReceivedIsLost` | `Spec => []NothingForgotten` |
| `RecoveriesRepair` | `Spec => []RecoveredIsClean` |
| `CleanStatesAreMonotone` | `Spec => CleanIsMonotone` |

*Argument.* What is on the wire or in a table has happened at the broker
(`BrokerInv`). A receipt of an earlier connection is classified before the next is
opened, and the owner reads only while connected (`OwnerInv`). The decisive part is
`CheckpointInv`: a checkpoint under way is ahead of the last one and of every
receipt, since no frame is stored between its two reads, and the activities in the
ledger are all or none of those of its order. So a quarantined receipt that a later
checkpoint follows is covered by that checkpoint's order (`ReceiptInv`). The
properties are then about the projection alone: `Gapless` (without a gap the stream
holds just the first executions), `FilledFacts`, `TerminalFacts`, and for the
action property `FilledIsKnown`, `StreamGrows` and `TerminalOnward`.

### 4.3 DayDiscovery

`DayDiscoveryProofs`, for any finite set of cycles, any budget, any demands and
flaws and any number of stops:

| Theorem | States |
| --- | --- |
| `ImplementsContract` | `Spec => ContractSpec` |
| `TypeCorrect` | `Spec => []TypeOK` |
| `AuditsHold` | `Spec => []AuditHolds` |
| `NoEffectTwice` | `Spec => []EffectsOnce` |
| `AcceptedCycles` | `Spec => []AcceptedIsBacked` |
| `FinalizedCanBeProjected` | `Spec => []FinalizedProjects` |

*Argument.* Each branch has its causes (`BranchInv`: a call was paid for, an
artifact published once, a sandbox run on an artifact); where a run is fits the
last event (`PlaceInv`); and what has been done for the current branch is fixed by
the last event and the place (`ReservedInv`, `AnsweredInv`, `PreparedInv`), which is
why a resumed run repeats nothing. Branches not begun are untouched and only the
last one is a capsule (`ChainInv`). `BudgetInv` says what a run may believe of the
budget: an upper bound, since other cycles spend, and the exact value when the cycle
is alone, which `FinalizedProjects` needs. That the account's total is the sum of all
debits is stated by counting the units debited (`Debits`), so that a payment adds
its units to a finite set (`DebitsGrow`); a sum over a set would need induction.
The refinement takes `Init` to `Init` (`InitInv` and the definitions) and, by
`ContractStep`, each action to `Pay`, `Make`, `TopUp` or a stutter: `ReserveCall`
pays, `InvokeModel` makes the call, `PrepareBranch` tops up.

### 4.4 HermesDelivery

`HermesDeliveryProofs`, for threads of any shape, any number of redrives and all
values of lease, delay and limits:

| Theorem | States |
| --- | --- |
| `TypeCorrect` | `Spec => []TypeOK` |
| `ReportsAreTrue` | `Spec => []ReportIsTrue` |
| `ThreadsHold` | `Spec => []RepliesFollowRoots` |
| `OneCopyAcknowledged` | `Spec => []OneAcknowledged` |
| `EndedStaysFinal` | `Spec => EndedIsFinal` |
| `PostsAreTimely` | `Spec => PostedInTime` |

*Argument.* An acknowledgement is of the last attempt, which is in the chat
(`DeliveryInv`); the worker holds the claim it acts on, and a market message being
sent is young enough to arrive in time (`WorkerInv`); and when a copy is in the
store every earlier generation is dead and unacknowledged (`CopyInv`). The claim
matters: an answer that comes after another claim was possible ends the process
instead of being recorded. A request that nobody waits for any more is answered for
by `LateInv`: a reply in it goes to the acknowledged root, and it expires before its
message is too old. `EndedIsFinal` speaks of the messages in the chat and of those
still under way together, so it allows a late request to arrive after the dead
letter and denies that the end is followed by another request.

### 4.5 Recommendations

`RecommendationsProofs` and `RecommendationsReplayProofs`, for any number of
sessions of any length, any feed lag and bars of any shape:

| Theorem | States |
| --- | --- |
| `TypeCorrect` | `Spec => []TypeOK` |
| `OneRecommendationADay` | `Spec => []OncePerDay` |
| `NeverBackdated` | `Spec => []NothingExcluded` |
| `OneTradeEach` | `Spec => []OneTrade` |
| `OvernightOnlyAfterCut` | `Spec => []OvernightOnlyIfCut` |
| `CheckpointsAreTrue` | `Spec => CheckpointIsTrue` |

*Argument.* `OncePerDay` needs that no recommendation is of a later day (`RecInv`),
or the next session could begin with one. `NothingExcluded` needs that a
recommendation waits for no bar later than the close, since the time exit is dated
by it; that bars are observed within the session; and that the event of the creation
is the first, since the repair skips one event (`ScanInv`). By `NothingToExclude` the
repair leaves the store as it is. `OneTrade` follows from `HistoryInv`: the ranks of
the events rise to that of the state, and every step that changes a state raises its
rank (`NextMoves`). `OvernightOnlyIfCut` needs what makes up for a recommendation
that no checkpoint of its day has seen (`OvernightInv`).

`CheckpointIsTrue` compares an engine that goes through bars one at a time, and
again after a death, with what the bars make of a recommendation at once. `Seen(rec,
n)` says of each state which bars lead to it; `SeenIsOutcome` shows that this is
`Outcome`, and `BarOnce` that one bar takes `Seen` from `n - 1` to `n`. `Reflects`
allows a recommendation to be further than the bar being processed, by a later bar
that a dead scan had committed, or by the entry of that bar only; `BarsPassed` and
`Reseen` show that the bars in between, processed again, leave it alone. `ReplayInv`
is that at every moment each recommendation of the day reflects the bars up to
`Level`, the bar the scan in progress has reached, or was timed out, or is in
`missed`: a fetch left out a pending bar that counts for it. `CheckpointIsTrue` and
the theorem leave those out, since of them it is false (finding 4); they become no
others later (`missed` only grows).

### 4.6 What stays with TLC

The liveness properties `AmbiguousIsResolved`, `PaidCyclesFinish` and
`EveryDeliveryEnds`: the prover cannot reason about `ENABLED`, so about no fairness
condition. The four expected violations are TLC's as well. Of the safety properties
`ReplacementIsNew` is only model-checked; every other invariant and action property
of a passing run, and the refinement, is a theorem.

A rewriting for the proofs changed no behaviour of a model: `Debits` above; in
`PaperProtection` `ExecutablePart` cuts the queue before its first close, as the
`break` of `execute_safety_plan` does; in `HermesDelivery` the type of `wait` is the
union of the two delays it can hold; in `Recommendations` one arm of `Outcome` names
the case it is about.

## 5. Findings

1. **`mutation_stuck`** (`paper_mutation_transitions.py:32`). Recovery takes up a
   log that ends with `ATTEMPTED` and decides it, but a recovery event may only
   follow `AMBIGUOUS`. After a crash between `ATTEMPTED` and the outcome every
   later recovery and execution raises. `docs/architecture_ko.md:196` says that an
   order found by the targeted lookup becomes recovered acknowledged.
2. **`protect_sold`** (`paper_stream_recovery_runtime.py:234`). A fill of an OCO
   leg is an activity of no entry order, so the checkpoint raises from then on and
   a remaining position is not closed by the kill switch, although
   `docs/checkpoints/2026-07-15-paper-safety-action-ledger-ko.md:14` promises a new
   kill plan for it.
3. **`protect_missing`** (`paper_protective_oco_lifecycle.py:88`). The check for an
   acknowledged OCO that the order lists do not show yet is made only when the
   history is empty; with an older OCO in it, a second replacement is submitted.
   `tests/test_paper_protective_oco_lifecycle.py:151` expects a block when an
   acknowledged OCO is missing from the history.

4. **`recommendations_gap`** (`kis_provider.py:131`). A scan fetches the newest
   `max_pages * 120` minute records, one page unless the caller says otherwise
   (`run_kis_paper_watch.py:351`; `run_kis_eod_catchup.py:34` for the catch-up), and
   the engine moves its checkpoint to the last of them. After a longer pause the
   bars between are never counted, although `docs/architecture_ko.md:287` says that
   new bars missed over a restart are used to update the existing recommendations.

Met while modelling, without a run of their own:

- *A proposal that can never be prepared* (`day_discovery_state_machine.py:533`). A
  proposal that asks for more than the budget has left is planned at one unit only
  when the budget is the reason it is rejected for. Rejected for its time or
  contract, it is planned at its full demand, the prepared branch refuses to be
  built (`day_discovery_journal.py:139`), and every run of the cycle raises at the
  recorded response, where
  `docs/superpowers/plans/2026-08-20-shared-day-research-capsule-foundation.md:320`
  says that each such proposal creates a terminal attempt. `PaidCyclesFinish` names
  this exception (`Unpreparable`); without it TLC refutes the property.
- *Open overnight* (`engine.py:35`). A recommendation is timed out only while the
  symbol's checkpoint is of the day of its creation. When the watch dies or uses
  up its cycles before the close and nothing finalizes the session the same day,
  it stays open, and if the store is used again the next session's bars go on to
  change it. `CODEX_START_HERE.md:66` has a same-day time exit for what is open,
  and `docs/runtime_audit.md:93` (H11) rejects the hypothesis for a watch that ends
  in order, which is what `OvernightOnlyIfCut` states.
- *The card's first bar* (`replay.py:205`). The card of an alert computes the first
  bar that counts from the time it is queued, at the end of the scan; the engine
  and the repair of backdated events compute it from the time of creation
  (`engine.py:173`, `causality.py:29`). An entry between the two counts, though
  the card says it does not, also when a scan died before its alerts.
- *A close is unknown to its checkpoint* (`paper_stream_recovery_runtime.py:224`).
  The order of a close has a client id that no intent explains, so the checkpoint
  after it, and all later ones, raise;
  `docs/checkpoints/2026-07-15-paper-safety-mutation-smoke-cli-ko.md:23` says that
  the session recovers again after the execution. `PaperMutation` and
  `PaperProtection` have the refusal.
- *Averages of different executions* (`broker_execution_projection.py:94`). The
  stream's average price is compared with that of the account activities even if
  the activities hold more executions. When the last fill frames are lost and
  their price was another, the anomaly remains for ever, although a checkpoint has
  the complete truth, and it blocks protective exits
  (`paper_protective_exit.py:157`).
  `docs/checkpoints/2026-07-15-paper-account-activities-ko.md:11` says that the
  detail is restored when the activities match the REST order; the test
  `test_fill_activity_repairs_missing_wss_execution_projection` has no stream
  execution at all. `RecoveredIsClean` names this exception (`AveragesDiffer`);
  without it TLC refutes the invariant.
- *A redrive restarts freshness* (`hermes_delivery_redrive.py:92`). The copy of a
  market message is dated by the dead letter, so a message of any age may be sent,
  while `docs/checkpoints/2026-07-22-hermes-current-market-delivery-gate-ko.md:8`
  speaks of the age of the market event. `PostedInTime` is about the copy's own
  time.
- *Replies of a root that was not delivered itself* (`hermes_delivery_schema.py:69`).
  When a root is suppressed or dead, or only its redriven copy was acknowledged,
  its replies can never be claimed, and the report of the session never becomes
  complete (`docs/checkpoints/2026-07-22-us-regular-scan-runtime-recovery-ko.md:35`).
  `EveryDeliveryEnds` names the case.
- *A last attempt cut short* (`hermes_delivery_schema.py:66`). A worker that dies
  during the last permitted attempt leaves a delivery that nobody claims and
  nobody gives up (`CutShort`).
- *A message sent twice.* After a crash between the platform's acceptance and the
  acknowledgement the message is sent again, where
  `docs/superpowers/plans/2026-07-22-professional-multi-market-agent-os.md:385`
  speaks of recovery by the platform's message identity. `posted` is a set for
  this reason. The same may happen after a timeout, and a message whose delivery has
  been given up, with a dead letter, may arrive all the same
  (`delivery_worker.py:150`); a redriven copy then shows it twice.
- *Cycles that cannot be closed.* A cycle opened on an exhausted account may not be
  finalized (`day_discovery_ledger.py:23`, `FinalizeRefused`); one whose account
  another cycle spends from between its last branch and its end is finalized with
  a budget its projection does not find (`day_discovery_state_machine.py:764`,
  `ProjectRefused`), which is why `FinalizedProjects` speaks of a cycle that has
  its account to itself; and a structured generator resumed after a restart
  rebuilds its prompt from another budget and discards a good response
  (`day_discovery_state_machine.py:467`, `ResponseMalformed`).

A consequence of finding 2 and of the close that its checkpoint does not know is
that operations after an OCO fill or a close hardly run at all. The safety
properties of `PaperProtection` hold, in part, because of these refusals: the
model keeps them, since the code has them.

Also modelled, without a run that calls it wrong, because no document or test
says what should happen: a 5xx answer is recorded `REJECTED`, though the broker
may have taken the order, and is not looked up again (`ReplyServerError`).

## 6. Abstractions

- Identifiers, hashes, prices, wording and the SQLite schema are left out; equality
  of requests is kept where the code compares their SHA-256.
- There is one clock; skew between local and broker clocks is not modelled.
- The account activity list agrees with the order history read with it.
- In `PaperProtection`, one symbol and one long entry, one trading day, and all
  orders within the seven days the checkpoint looks back. A safety plan cancels the
  one open OCO, where the code allows `max_open_positions` (default 3) of them. Two
  are open only if the lists lag (`OneOcoAtATime`), and no run has both lagging lists
  and safety plans. The entry's ledger
  projection is the variable `known`, updated by the checkpoint; `TradeUpdates`
  models how the ledger comes to it.
- In `TradeUpdates`, one entry order that is at the broker already. Left out are
  orders replaced by hand, broker events of the old schema, events of orders that
  are no entries (they are quarantined as unknown intents), one event key with two
  payloads (an immutable conflict raises), and the inside of the heartbeat.
- In `DayDiscovery`, a proposal is its demand and its flaw; duplicates by
  semantic hash, the science texts and the contents of artifacts are left out. One
  market and one budget epoch.
- In `PaperMutation`, the checkpoint also raises for an unresolved entry of which
  recovery has nothing to decide and that the broker answers with 404
  (`paper_stream_recovery_runtime.py:92`): one that was acknowledged. An acknowledged
  entry is always at the model's broker (`AcknowledgedIsTrue`), so the case does not
  arise.
- In `TradeUpdates`, a late execution event after the end of its order
  (`LateExecution`) is translated but `OrderAssumption`, under which the broker
  reports in order of time, never produces one. `RecoveredIsClean` says nothing of a
  checkpoint whose activity list is empty, whatever the reason, nor of differing
  averages; `CleanIsMonotone` relates consecutive clean states.
- In `Recommendations`, every minute of the session has one record, and records from
  after the close come only in the catch-up. A minute without trades has none, so
  the real fetch reaches further back than `Window` minutes, never less far. No two
  of an open plan's levels are told apart within a bar
  beyond stop-first, and a plan left open overnight has the levels of the new one.
  `process_snapshot` and `finalize_day`, which only replays and tests call, are left
  out, and so are the reports and contracts written beside the outbox.
- In `HermesDelivery`, message texts and identities are left out; the clocks of
  store, worker and report are one. A request is taken by the platform at most
  `Transit` after its client gave it up.
- A mutation's age beyond `RECOVERY_MAX_EVIDENCE_AGE` is left to a manual audit, as
  `docs/architecture_ko.md` has it: nothing is claimed of it.
- The entry gate is the free choice between `StartPlan` and `Decline`: the proved
  properties hold whatever it decides.
- The collectors are network I/O and parsing without protocol state; strategies
  and backtests are floating-point rules; the dashboard only reads; command-line
  jobs only call the operations modelled here.

## 7. Plan

In this order, most important first:

1. `PaperMutationContract`: the abstract specification of a mutation (absent, in
   doubt, done, with one effect), with `PaperMutation` shown to implement it by a
   refinement that TLC checks and `PaperMutationProofs` proves from `IInv`.
   `PaperProtection` would be stated over it. There is room for one more module of
   theorems.
2. What an order state promises its readers as an abstract specification (a fill
   count and an end that only grow), implemented by the clean states of
   `TradeUpdates`; `CleanIsMonotone` and `CleanIsTrue` are its two halves.
3. The composition of `TradeUpdates` with `PaperProtection`, whose variable `known`
   it would replace.
4. `PaperSession`: the cycles of `drive_us_day_session`, which call protection and
   safety at most eight times and report `COMPLETED` only on a flat account, composed
   with `PaperProtection`. Whether a position ends up covered or closed is a question
   about this driver.
5. `HermesArm` (one-time arm requests); `PaperOrderGate` (reconciliation, portfolio
   and risk limits over sequences of approvals); `AutonomousTasks` and the research
   leases.

A new run is added only together with a merge of others: the existing twelve are
one per question.
