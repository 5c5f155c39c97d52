---------------------------- MODULE TradeUpdates ----------------------------
\* What the ledger makes of one entry order's life at the broker: the trade
\* updates of the order stream, committed raw, classified and stored in three
\* commits; the REST checkpoints that make up for the frames it never got; and
\* the projection of both to an order state (trade_update_receipts.py,
\* paper_trade_update_ingestion.py, paper_trade_update_classification.py,
\* trade_update_store.py, paper_stream_owner.py, paper_stream_recovery_runtime.py,
\* execution_ledger_reader.py, broker_execution_projection.py,
\* broker_order_projection.py).  The connection loses, repeats and reorders
\* frames, some cannot be parsed, the process stops anywhere, and the order goes
\* on trading while the checkpoint reads.
EXTENDS Integers, Sequences, FiniteSets, FiniteSetsExt

CONSTANTS
  Shares,          \* the quantity of the intent; every execution is of one share
  Price,           \* Price[n]: the price of the n-th execution
  At,              \* At[e]: the time the broker stamps on event e
  MaxUnreadable,   \* bound: events whose frame is no trade update the parser knows
  MaxEpochs,       \* bound: connections of the order stream
  MaxCheckpoints   \* bound: completed REST checkpoints

\* Event n is the n-th execution; Closing is the cancel or the expiry of the rest.
Closing == Shares + 1
BrokerEvents == 1..Closing

ASSUME OrderAssumption ==
  /\ Shares \in Nat \ {0}
  /\ Price \in [1..Shares -> Nat \ {0}]
  /\ At \in [BrokerEvents -> Nat]
  /\ \A e, f \in BrokerEvents : e <= f => At[e] <= At[f]

ASSUME BoundsAssumption ==
  MaxUnreadable \in Nat /\ MaxEpochs \in Nat /\ MaxCheckpoints \in Nat

VARIABLES
  filled,      \* broker: shares executed
  closed,      \* broker: canceled or expired
  unreadable,  \* broker: the events whose frames the parser refuses
  wire,        \* frames on the connection
  epoch,       \* the number of the connection
  connected,   \* the stream of this owner is open
  pc,          \* what the owner of the stream does next
  current,     \* the receipt being classified
  order,       \* the REST order this checkpoint has read
  seen,        \* the executions its Account Activities listed
  receipts,    \* trade_update_raw_receipts with their dispositions
  events,      \* trade_update_events, in the order of their rows
  recoveries,  \* the rows of paper_stream_recoveries
  rest,        \* the order of the latest row
  acts         \* the executions in paper_account_activities

broker == <<filled, closed, unreadable>>
ledger == <<receipts, events, recoveries, rest, acts>>
reading == <<order, seen>>
vars == <<filled, closed, unreadable, wire, epoch, connected, pc, current, order,
          seen, receipts, events, recoveries, rest, acts>>

NoOrder == [filled |-> 0, status |-> "none"]
RestTerminal == {"filled", "canceled"}
Dispositions == {"pending", "accepted", "quarantined"}

\* What the broker says the order is.
Status == IF closed THEN "canceled" ELSE IF filled = Shares THEN "filled"
          ELSE IF filled > 0 THEN "partially_filled" ELSE "new"

TypeOK ==
  /\ filled \in 0..Shares /\ closed \in BOOLEAN /\ unreadable \subseteq BrokerEvents
  /\ wire \subseteq BrokerEvents /\ epoch \in 0..MaxEpochs /\ connected \in BOOLEAN
  /\ pc \in {"down", "reprocess", "recover", "activities", "complete", "ready",
             "received", "stored"}
  /\ current \in 0..Len(receipts)
  /\ order \in [filled : 0..Shares, status : RestTerminal \cup {"none", "new", "partially_filled"}]
  /\ rest \in [filled : 0..Shares, status : RestTerminal \cup {"none", "new", "partially_filled"}]
  /\ seen \in 0..Shares /\ acts \in 0..Shares /\ recoveries \in 0..MaxCheckpoints
  /\ \A i \in DOMAIN receipts :
       /\ receipts[i].event \in BrokerEvents /\ receipts[i].epoch \in 1..MaxEpochs
       /\ receipts[i].disposition \in Dispositions
       /\ receipts[i].high_water \in 0..recoveries
  /\ \A i, j \in DOMAIN events : events[i] = events[j] => i = j

Init ==
  /\ filled = 0 /\ closed = FALSE /\ wire = {} /\ epoch = 0 /\ connected = FALSE
  /\ unreadable \in {U \in SUBSET BrokerEvents : Cardinality(U) <= MaxUnreadable}
  /\ pc = "down" /\ current = 0 /\ order = NoOrder /\ seen = 0
  /\ receipts = <<>> /\ events = <<>> /\ recoveries = 0 /\ rest = NoOrder /\ acts = 0

-----------------------------------------------------------------------------
\* The projection: what execution_ledger_reader makes of the tables.

Stored == {events[i] : i \in DOMAIN events}
Executions == Stored \cap 1..Shares

\* The cumulative quantity event e carries.
Cumulative(e) == IF e = Closing THEN filled ELSE e

RowOf(e) == CHOOSE i \in DOMAIN events : events[i] = e

\* The executions summed up when e is reached, in the order of time and row.
SumAt(e) == Cardinality({f \in Executions :
              At[f] < At[e] \/ (At[f] = At[e] /\ RowOf(f) <= RowOf(e))})

StreamCumulative == Max({Cumulative(e) : e \in Stored} \cup {0})

\* An execution is missing between two others, or at the end.
StreamGap ==
  \/ \E e \in Executions : Cumulative(e) # SumAt(e)
  \/ StreamCumulative > 0 /\ Cardinality(Executions) # StreamCumulative

\* project_paper_activity_execution: k activities against the order they belong to.
ActivitiesContradict(o, k) == k > 0 /\ k # o.filled
Recovered == rest # NoOrder
ActivityComplete == Recovered /\ acts > 0 /\ ~ActivitiesContradict(rest, acts)

\* A set of executions has an average price; two averages are compared.
Notional(S) == MapThenSumSet(LAMBDA n : Price[n], S)
SameAverage(S, T) == Notional(S) * Cardinality(T) = Notional(T) * Cardinality(S)

\* The execution price of the order is the average over these; none when empty.
StreamPriced == IF StreamGap THEN {} ELSE Executions
Priced == IF ActivityComplete THEN 1..acts ELSE StreamPriced

\* The stream's average and that of the activities are compared even when the
\* stream has seen fewer executions.
AveragesDiffer ==
  /\ ActivityComplete /\ StreamPriced # {}
  /\ ~SameAverage(StreamPriced, 1..acts)

RestAverageDiffers ==
  /\ Recovered /\ rest.filled > 0
  /\ rest.filled = Cardinality(Executions) /\ ~StreamGap
  /\ ~SameAverage(1..rest.filled, Executions)

CumulativeFilled ==
  IF ActivityComplete THEN acts
  ELSE IF Recovered THEN Max({rest.filled, StreamCumulative}) ELSE StreamCumulative

DetailComplete ==
  /\ StreamGap => ActivityComplete
  /\ ~AveragesDiffer /\ ~RestAverageDiffers
  /\ Recovered /\ rest.filled > StreamCumulative => ActivityComplete

\* Mutant: only the latest update says whether the order has ended.
TerminalTypesOfLastRow ==
  LET latest == IF events = <<>> THEN 0 ELSE events[Len(events)] IN
  (IF latest = Shares \/ rest.status = "filled" THEN {"fill"} ELSE {})
  \cup (IF latest = Closing \/ rest.status = "canceled" THEN {"canceled"} ELSE {})

TerminalTypes ==
  (IF Shares \in Stored \/ rest.status = "filled" THEN {"fill"} ELSE {})
  \cup (IF Closing \in Stored \/ rest.status = "canceled" THEN {"canceled"} ELSE {})
Terminal == TerminalTypes # {}

\* A partial fill of the stream is later than the end of the order.
LateExecution ==
  \E e \in Executions \ {Shares}, f \in Stored \cap {Shares, Closing} : At[e] > At[f]

\* Mutant: a checkpoint that is behind the stream is no anomaly.
CleanBehindStream ==
  /\ ~(StreamGap /\ ~ActivityComplete)
  /\ ~(Recovered /\ ActivitiesContradict(rest, acts))
  /\ ~AveragesDiffer /\ ~RestAverageDiffers
  /\ Cardinality(TerminalTypes) <= 1
  /\ ~LateExecution

\* The order state has no anomaly_reasons.
Clean ==
  /\ ~(StreamGap /\ ~ActivityComplete)
  /\ ~(Recovered /\ rest.filled < StreamCumulative)
  /\ ~(Recovered /\ ActivitiesContradict(rest, acts))
  /\ ~AveragesDiffer /\ ~RestAverageDiffers
  /\ Cardinality(TerminalTypes) <= 1
  /\ ~LateExecution

Pending == {i \in DOMAIN receipts : receipts[i].disposition = "pending"}

\* Mutant: the checkpoint before the classification counts as well.
QuarantineRecoveredBefore(i) == recoveries >= receipts[i].high_water

\* _quarantine_recovered: a checkpoint was completed after the classification.
QuarantineRecovered(i) == recoveries > receipts[i].high_water

Unrecovered == {i \in DOMAIN receipts :
                  receipts[i].disposition = "quarantined" /\ ~QuarantineRecovered(i)}

\* No trade_update_receipt_reasons.
Receipted == Pending = {} /\ Unrecovered = {}

-----------------------------------------------------------------------------
\* External: the order trades or ends; an open connection is told of it.

Emit(e) == wire' = IF connected THEN wire \cup {e} ELSE wire

Fill ==
  /\ ~closed /\ filled < Shares
  /\ filled' = filled + 1
  /\ Emit(filled + 1)
  /\ UNCHANGED <<closed, unreadable, epoch, connected, pc, current, reading, ledger>>

EndOrder ==
  /\ ~closed /\ filled < Shares
  /\ closed' = TRUE
  /\ Emit(Closing)
  /\ UNCHANGED <<filled, unreadable, epoch, connected, pc, current, reading, ledger>>

\* A frame is lost.
Lose(e) ==
  /\ e \in wire
  /\ wire' = wire \ {e}
  /\ UNCHANGED <<broker, epoch, connected, pc, current, reading, ledger>>

\* The process dies, the connection breaks, or a call raises: whatever was not
\* committed is gone, and with the connection the frames on it.
Shut ==
  /\ pc' = "down" /\ connected' = FALSE /\ wire' = {} /\ current' = 0
  /\ order' = NoOrder /\ seen' = 0
Stop == pc # "down" /\ Shut /\ UNCHANGED <<broker, epoch, ledger>>

-----------------------------------------------------------------------------
\* open_paper_stream_owner: receipts left pending first, then the stream, then a
\* checkpoint.

Open ==
  /\ pc = "down" /\ epoch < MaxEpochs
  /\ pc' = "reprocess"
  /\ UNCHANGED <<broker, wire, epoch, connected, current, reading, ledger>>

Reprocess ==
  /\ pc = "reprocess" /\ Pending # {}
  /\ current' = Min(Pending) /\ pc' = "received"
  /\ UNCHANGED <<broker, wire, epoch, connected, reading, ledger>>

Connect ==
  /\ pc = "reprocess" /\ Pending = {}
  /\ connected' = TRUE /\ epoch' = epoch + 1 /\ wire' = {} /\ pc' = "recover"
  /\ UNCHANGED <<broker, current, reading, ledger>>

\* recover(): open, targeted and recent orders are one read here, since an order
\* that is no longer among the open ones does not change any more ...
ReadOrder ==
  /\ pc = "recover"
  /\ order' = [filled |-> filled, status |-> Status] /\ pc' = "activities"
  /\ UNCHANGED <<broker, wire, epoch, connected, current, seen, ledger>>

\* ... then the Account Activities, which may lag behind the order, but never
\* lose one they have listed.
ReadActivities(n) ==
  /\ pc = "activities" /\ n \in acts..filled
  /\ seen' = n /\ pc' = "complete"
  /\ UNCHANGED <<broker, wire, epoch, connected, current, order, ledger>>

\* Mutant: activities that do not add up to the order are stored all the same.
CompleteRecoveryUnchecked ==
  /\ pc = "complete" /\ recoveries < MaxCheckpoints
  /\ recoveries' = recoveries + 1 /\ rest' = order /\ acts' = Max({acts, seen})
  /\ pc' = "ready" /\ order' = NoOrder /\ seen' = 0
  /\ UNCHANGED <<broker, wire, epoch, connected, current, receipts, events>>

CompleteRecovery ==
  /\ pc = "complete" /\ recoveries < MaxCheckpoints
  /\ ~ActivitiesContradict(order, seen)
  /\ recoveries' = recoveries + 1 /\ rest' = order /\ acts' = Max({acts, seen})
  /\ pc' = "ready" /\ order' = NoOrder /\ seen' = 0
  /\ UNCHANGED <<broker, wire, epoch, connected, current, receipts, events>>

RecoveryRefused ==
  /\ pc = "complete" /\ ActivitiesContradict(order, seen)
  /\ Shut
  /\ UNCHANGED <<broker, epoch, ledger>>

\* An operation of the session takes a checkpoint.
Checkpoint ==
  /\ pc = "ready"
  /\ pc' = "recover"
  /\ UNCHANGED <<broker, wire, epoch, connected, current, reading, ledger>>

-----------------------------------------------------------------------------
\* ingest_next: the raw receipt is committed before it is parsed.  The broker may
\* send a frame again (it stays on the wire); within a connection the same
\* payload is the same receipt.
Receive(e) ==
  LET same == {i \in DOMAIN receipts : receipts[i].event = e /\ receipts[i].epoch = epoch} IN
  /\ pc = "ready" /\ e \in wire
  /\ wire' \in {wire, wire \ {e}}
  /\ IF same # {}
     THEN current' = Min(same) /\ UNCHANGED receipts
     ELSE /\ receipts' = Append(receipts, [event |-> e, epoch |-> epoch,
                                           disposition |-> "pending", high_water |-> 0])
          /\ current' = Len(receipts) + 1
  /\ pc' = "received"
  /\ UNCHANGED <<broker, epoch, connected, reading, events, recoveries, rest, acts>>

\* classify_trade_update_receipt: once; with the same disposition again, nothing.
Classify(d) ==
  receipts' = IF current \notin Pending THEN receipts
              ELSE [receipts EXCEPT ![current].disposition = d,
                                    ![current].high_water = recoveries]

\* Mutant: an event is a new row whenever it is received.
StoreEventAgain ==
  /\ pc = "received" /\ receipts[current].event \notin unreadable
  /\ events' = Append(events, receipts[current].event)
  /\ pc' = "stored"
  /\ UNCHANGED <<broker, wire, epoch, connected, current, reading, receipts,
                 recoveries, rest, acts>>

\* append_trade_update: an event already stored is left as it is.
StoreEvent ==
  LET e == receipts[current].event IN
  /\ pc = "received" /\ e \notin unreadable
  /\ events' = IF e \in Stored THEN events ELSE Append(events, e)
  /\ pc' = "stored"
  /\ UNCHANGED <<broker, wire, epoch, connected, current, reading, receipts,
                 recoveries, rest, acts>>

Accept ==
  /\ pc = "stored"
  /\ Classify("accepted")
  /\ pc' = IF connected THEN "ready" ELSE "reprocess"
  /\ current' = 0
  /\ UNCHANGED <<broker, wire, epoch, connected, reading, events, recoveries, rest, acts>>

\* A frame that cannot be parsed; an open stream takes a checkpoint at once.
Quarantine ==
  /\ pc = "received" /\ receipts[current].event \in unreadable
  /\ Classify("quarantined")
  /\ pc' = IF connected THEN "recover" ELSE "reprocess"
  /\ current' = 0
  /\ UNCHANGED <<broker, wire, epoch, connected, reading, events, recoveries, rest, acts>>

Owner ==
  \/ Open \/ Reprocess \/ Connect \/ ReadOrder \/ CompleteRecovery \/ RecoveryRefused
  \/ Checkpoint \/ StoreEvent \/ Accept \/ Quarantine
  \/ \E n \in 0..Shares : ReadActivities(n)
  \/ \E e \in BrokerEvents : Receive(e)

Next == Owner \/ Fill \/ EndOrder \/ Stop \/ \E e \in BrokerEvents : Lose(e)

Spec == Init /\ [][Next]_vars

-----------------------------------------------------------------------------
\* Whatever the stream lost, repeated or brought out of order, an order state
\* without anomalies is right: never more than the broker has filled, all of it
\* once it is terminal, and a price averaged over just these executions
\* (project_broker_order_state, project_broker_execution).
CleanIsTrue == Clean =>
  /\ CumulativeFilled <= filled
  /\ Terminal => Status \in RestTerminal /\ CumulativeFilled = filled
  /\ DetailComplete => Priced = 1..CumulativeFilled

\* With no receipt pending, no quarantine unrecovered and no anomaly, nothing that
\* was ever received is missing: the quarantined frames and those a crash left
\* between two commits count too (trade_update_receipt_reasons).
NothingForgotten == (Receipted /\ Clean) =>
  \A i \in DOMAIN receipts :
    LET e == receipts[i].event IN
    /\ Cumulative(e) <= CumulativeFilled
    /\ e \in {Shares, Closing} => Terminal

\* A checkpoint repairs the ledger: after it nothing is left to object to, unless
\* the broker listed no activity at all, or the stream missed only the last
\* executions and their price was another.
RecoveredIsClean ==
  (pc = "ready" /\ Recovered /\ rest.filled >= StreamCumulative) =>
    Clean \/ acts = 0 \/ AveragesDiffer

\* From one clean state of an order to the next no fill and no end is taken back.
CleanIsMonotone ==
  [][(Clean /\ Clean') =>
       CumulativeFilled <= CumulativeFilled' /\ (Terminal => Terminal')]_vars
=============================================================================
