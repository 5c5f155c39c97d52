--------------------------- MODULE HermesDelivery ---------------------------
(***************************************************************************)
(* The Hermes delivery store and its worker: messages of the trading       *)
(* agent are projected into an append-only store, claimed by one service   *)
(* process under a lease, sent to the chat platform, retried, given up as  *)
(* dead letters and redriven (hermes_delivery_store.py,                    *)
(* hermes_delivery_schema.py, hermes_delivery_redrive.py,                  *)
(* integrations/hermes/trading-agent/delivery_worker.py), and the report   *)
(* that reconciles a session (us_session_delivery_reconciliation.py).      *)
(*                                                                         *)
(* A delivery is <<source, generation>>: generation 0 is the projected     *)
(* event, generation g + 1 the copy that a redrive makes of generation g.  *)
(* The store is durable, the worker (pc, current, limit) is volatile.  The *)
(* writer lock is held for a whole tick of the worker, so a projection or  *)
(* a redrive runs only while the worker is between ticks or down.  Time is *)
(* relative: ages grow to a cap, leases and delays count down to 0.        *)
(***************************************************************************)
EXTENDS Integers, Sequences

CONSTANTS
  Sources,      \* source events to be delivered
  Root,         \* source of the thread's root message; a root is its own
  Market,       \* sources of kind WATCH or ACTIONABLE
  MaxAttempts,  \* max_attempts of every event
  MaxRedrives,  \* bound: generations made by redrives
  MaxAge,       \* _CURRENT_MARKET_EVENT_MAX_AGE
  Lease,        \* lease_seconds
  RetryDelay,   \* retry_delay_seconds
  SendLimit,    \* the longest a send takes before the client times out
  Transit       \* external: the longest the platform takes a request after
                \* its client gave it up

ASSUME RootAssumption ==
  /\ Root \in [Sources -> Sources]
  /\ \A s \in Sources : Root[Root[s]] = Root[s]
ASSUME MarketAssumption == Market \subseteq Sources
ASSUME CountAssumption == MaxAttempts \in 1..10 /\ MaxRedrives \in Nat
ASSUME TimeAssumption ==
  /\ MaxAge \in Nat /\ RetryDelay \in Nat /\ SendLimit \in Nat /\ Transit \in Nat
  /\ Lease \in Nat \ {0}

VARIABLES
  order,    \* deliveries whose occurred_at has passed, in its order
  stored,   \* hermes_delivery_events
  log,      \* outcome of each attempt: hermes_delivery_attempts with their
            \* hermes_delivery_transitions; "open" while there is none
  acked,    \* attempt in hermes_delivery_acknowledgements, 0 if none
  age,      \* time since occurred_at, of market deliveries, up to AgeCap
  wait,     \* time until the last attempt's lease expires, or its retry is due
  posted,   \* messages of a delivery that the platform has taken
  late,     \* requests their client gave up that may still be taken
  pc,       \* what the service process does
  current,  \* the delivery it has claimed
  limit     \* time left to the send in progress

store == <<stored, log, acked>>
chat == <<posted, late>>
worker == <<pc, current, limit>>
vars == <<order, store, age, wait, chat, worker>>

Deliveries == {d \in Sources \X (0..MaxRedrives) : Root[d[1]] = d[1] \/ d[2] = 0}
IsRoot(d) == Root[d[1]] = d[1]
RootOf(d) == IF IsRoot(d) THEN d ELSE <<Root[d[1]], 0>>
Copy(d) == <<d[1], d[2] + 1>>

Idle == pc \in {"down", "idle"}
Sending == pc \in {"sending", "sent"}
AgeCap == MaxAge + SendLimit + Transit + 1
Max0(n) == IF n < 0 THEN 0 ELSE n
Occurred == {order[i] : i \in DOMAIN order}

Last(d) == IF log[d] = <<>> THEN "none" ELSE log[d][Len(log[d])]
DeadReasons == {"telegram_timeout", "telegram_rejected", "market_event_ineligible"}
Dead(d) == Last(d) \in DeadReasons
Ended(d) == acked[d] # 0 \/ Dead(d)

Init ==
  /\ order = <<>> /\ stored = {}
  /\ log = [d \in Deliveries |-> <<>>]
  /\ acked = [d \in Deliveries |-> 0]
  /\ age = [d \in Deliveries |-> 0]
  /\ wait = [d \in Deliveries |-> 0]
  /\ posted = [d \in Deliveries |-> {}] /\ late = {}
  /\ pc = "down" /\ limit = 0
  /\ current \in {d \in Deliveries : d[2] = 0}
----------------------------------------------------------------------------
(* A producer publishes a source event to its outbox; one that answers an  *)
(* opportunity follows it.                                                 *)
Occur(s) ==
  /\ <<s, 0>> \notin Occurred
  /\ Root[s] # s => <<Root[s], 0>> \in Occurred
  /\ order' = Append(order, <<s, 0>>)
  /\ UNCHANGED <<store, age, wait, chat, worker>>

(* One append of a projection.  Each append commits by itself and replays  *)
(* what is stored already, so a projection that stops halfway is a         *)
(* projection of fewer records.                                            *)
Project(s) ==
  /\ Idle
  /\ <<s, 0>> \in Occurred \ stored
  /\ IsRoot(<<s, 0>>) \/ RootOf(<<s, 0>>) \in stored
  /\ stored' = stored \cup {<<s, 0>>}
  /\ UNCHANGED <<order, log, acked, age, wait, chat, worker>>

\* Mutant: any root that has timed out may be copied.
RedriveUndead(d) ==
  /\ Idle
  /\ IsRoot(d) /\ Last(d) \in {"retry", "telegram_timeout"}
  /\ Copy(d) \in Deliveries
  /\ stored' = stored \cup {Copy(d)}
  /\ order' = IF Copy(d) \in Occurred THEN order ELSE Append(order, Copy(d))
  /\ UNCHANGED <<log, acked, age, wait, chat, worker>>

(* redrive_timeout_dead_letter, by an operator.  The copy's occurred_at is *)
(* the time of the dead letter: its place in order was fixed by Fail.      *)
Redrive(d) ==
  /\ Idle
  /\ IsRoot(d) /\ Last(d) = "telegram_timeout"
  /\ acked[d] = 0 /\ Len(log[d]) = MaxAttempts
  /\ Copy(d) \in Deliveries
  /\ stored' = stored \cup {Copy(d)}
  /\ UNCHANGED <<order, log, acked, age, wait, chat, worker>>
----------------------------------------------------------------------------
Start ==
  /\ pc = "down" /\ pc' = "idle"
  /\ UNCHANGED <<order, store, age, wait, chat, current, limit>>

(* What an attempt asks of the platform: a reply names the root's message. *)
Message(d) ==
  [attempt |-> Len(log[d]), reply |-> IF IsRoot(d) THEN 0 ELSE acked[RootOf(d)]]

(* A client that stops waiting does not call its request back.             *)
GiveUp ==
  late' = IF pc = "sending"
          THEN late \cup {[delivery |-> current, message |-> Message(current),
                           left |-> Transit]}
          ELSE late

(* The process dies: launchd will start it again. *)
Crash ==
  /\ pc # "down" /\ pc' = "down" /\ limit' = 0
  /\ GiveUp
  /\ UNCHANGED <<order, store, age, wait, posted, current>>

\* Mutants: the query without one of its clauses.
ClaimableUncounted(d) ==
  /\ d \in stored /\ ~Ended(d) /\ (IsRoot(d) \/ acked[RootOf(d)] # 0)
  /\ Last(d) = "none" \/ wait[d] = 0
ClaimableAcknowledged(d) ==
  /\ d \in stored /\ ~Dead(d) /\ Len(log[d]) < MaxAttempts
  /\ IsRoot(d) \/ acked[RootOf(d)] # 0
  /\ Last(d) = "none" \/ wait[d] = 0
ClaimableUnrooted(d) ==
  /\ d \in stored /\ ~Ended(d) /\ Len(log[d]) < MaxAttempts
  /\ Last(d) = "none" \/ wait[d] = 0
ClaimableOnlyRetries(d) ==
  /\ d \in stored /\ ~Ended(d) /\ Len(log[d]) < MaxAttempts
  /\ IsRoot(d) \/ acked[RootOf(d)] # 0
  /\ Last(d) = "none" \/ (Last(d) = "retry" /\ wait[d] = 0)

(* CLAIMABLE_HERMES_DELIVERY_SQL *)
Claimable(d) ==
  /\ d \in stored
  /\ ~Ended(d)
  /\ Len(log[d]) < MaxAttempts
  /\ IsRoot(d) \/ acked[RootOf(d)] # 0
  /\ Last(d) = "none" \/ wait[d] = 0

\* Mutant: the age is looked at in the first attempt only.
EligibleOnce(d) == d[1] \in Market /\ log[d] = <<>> => age[d] \in 0..MaxAge

Eligible(d) == d[1] \in Market => age[d] \in 0..MaxAge

(* A tick claims the oldest claimable delivery and commits the attempt. *)
Claim ==
  /\ pc = "idle"
  /\ \E i \in DOMAIN order :
       LET d == order[i] IN
       /\ Claimable(d)
       /\ \A j \in 1..(i - 1) : ~Claimable(order[j])
       /\ log' = [log EXCEPT ![d] = Append(@, "open")]
       /\ wait' = [wait EXCEPT ![d] = Lease]
       /\ current' = d
       /\ pc' = IF Eligible(d) THEN "sending" ELSE "suppressing"
       /\ limit' = IF Eligible(d) THEN SendLimit ELSE 0
  /\ UNCHANGED <<order, stored, acked, age, chat>>

(* _require_claim: the attempt is the delivery's last, without an outcome. *)
HoldsClaim(d) == Last(d) = "open" /\ acked[d] = 0

(* fail: a retry is scheduled unless the failure is terminal or the        *)
(* attempt was the last one.                                               *)
Fail(d, reason, terminal) ==
  LET dead == terminal \/ Len(log[d]) >= MaxAttempts
      redrivable == reason = "telegram_timeout" /\ IsRoot(d) /\ Copy(d) \in Deliveries
  IN  /\ HoldsClaim(d)
      /\ log' = [log EXCEPT ![d][Len(log[d])] = IF dead THEN reason ELSE "retry"]
      /\ wait' = [wait EXCEPT ![d] = IF dead THEN 0 ELSE RetryDelay]
      /\ order' = IF dead /\ redrivable THEN Append(order, Copy(d)) ELSE order
      /\ pc' = "idle" /\ limit' = 0
      /\ UNCHANGED <<stored, acked, age, posted, current>>

(* The failure is dated at the tick's start, so the lease is not looked at. *)
Suppress ==
  /\ pc = "suppressing" /\ Fail(current, "market_event_ineligible", TRUE)
  /\ UNCHANGED late

(* The platform takes the message while its client waits ... *)
Post ==
  /\ pc = "sending" /\ pc' = "sent"
  /\ posted' = [posted EXCEPT ![current] = @ \cup {Message(current)}]
  /\ UNCHANGED <<order, store, age, wait, late, current, limit>>

(* ... or after it gave up; a request that never arrives just expires.     *)
Arrive(m) ==
  /\ m \in late /\ late' = late \ {m}
  /\ posted' = [posted EXCEPT ![m.delivery] = @ \cup {m.message}]
  /\ UNCHANGED <<order, store, age, wait, worker>>

Acknowledge ==
  /\ pc = "sent" /\ wait[current] > 0 /\ HoldsClaim(current)
  /\ acked' = [acked EXCEPT ![current] = Len(log[current])]
  /\ pc' = "idle" /\ limit' = 0
  /\ UNCHANGED <<order, stored, log, age, wait, chat, current>>

(* RetryableHermesPlatformError, whether or not the platform has taken it. *)
SendTimeout ==
  /\ Sending /\ wait[current] > 0 /\ Fail(current, "telegram_timeout", FALSE)
  /\ GiveUp

(* TerminalHermesPlatformError: the platform refused the message, or it    *)
(* took it and its answer names no numeric message id.                     *)
SendRejected ==
  /\ Sending /\ wait[current] > 0 /\ Fail(current, "telegram_rejected", TRUE)
  /\ UNCHANGED late

(* An answer after the lease: HermesDeliveryLeaseLostError ends the process. *)
LeaseLost ==
  /\ Sending /\ wait[current] = 0
  /\ pc' = "down" /\ limit' = 0
  /\ GiveUp
  /\ UNCHANGED <<order, store, age, wait, posted, current>>

Answer == Acknowledge \/ SendTimeout \/ SendRejected \/ LeaseLost

(* Time passes, but a send does not outlast its timeouts. *)
Tick ==
  /\ Sending => limit > 0
  /\ age' = [d \in Deliveries |->
               IF d \in Occurred /\ d[1] \in Market /\ age[d] < AgeCap
               THEN age[d] + 1 ELSE age[d]]
  /\ wait' = [d \in Deliveries |-> Max0(wait[d] - 1)]
  /\ limit' = Max0(limit - 1)
  /\ late' = {[m EXCEPT !.left = @ - 1] : m \in {n \in late : n.left > 0}}
  /\ UNCHANGED <<order, store, posted, pc, current>>

Next ==
  \/ \E s \in Sources : Occur(s) \/ Project(s)
  \/ \E d \in Deliveries : Redrive(d)
  \/ Start \/ Crash \/ Claim \/ Suppress \/ Post \/ Answer \/ Tick
  \/ \E m \in late : Arrive(m)

Spec == Init /\ [][Next]_vars

(* launchd keeps the service alive, and a service that starts ticks before *)
(* it waits; a send ends by its timeouts; the projection is run again and  *)
(* again.  Nothing makes an operator redrive or the platform take a        *)
(* message.                                                                *)
Fairness ==
  /\ \A s \in Sources : WF_vars(Project(s))
  /\ WF_vars(Start) /\ SF_vars(Claim) /\ WF_vars(Suppress)
  /\ WF_vars(Answer) /\ WF_vars(Tick)
FairSpec == Spec /\ Fairness
----------------------------------------------------------------------------
(* The session report: of the expected (projected) deliveries. *)
Expected == {d \in Occurred : d[2] = 0}
AcknowledgedSet == {d \in Expected : acked[d] # 0}

\* Mutant: every dead letter counts as suppressed.
SuppressedAnyDead == {d \in Expected : Dead(d)}

SuppressedSet == {d \in Expected : Last(d) = "market_event_ineligible"}
DeadSet == {d \in Expected : Dead(d)} \ SuppressedSet
Complete == AcknowledgedSet \cup SuppressedSet = Expected /\ DeadSet = {}
----------------------------------------------------------------------------
Messages == [attempt : 1..MaxAttempts, reply : 0..MaxAttempts]

TypeOK ==
  /\ order \in Seq(Deliveries) /\ stored \subseteq Occurred
  /\ log \in [Deliveries -> Seq({"open", "retry"} \cup DeadReasons)]
  /\ \A d \in Deliveries : Len(log[d]) <= MaxAttempts
  /\ acked \in [Deliveries -> 0..MaxAttempts]
  /\ age \in [Deliveries -> 0..AgeCap]
  /\ wait \in [Deliveries -> (0..Lease) \cup (0..RetryDelay)]
  /\ posted \in [Deliveries -> SUBSET Messages]
  /\ late \subseteq [delivery : Deliveries, message : Messages, left : 0..Transit]
  /\ pc \in {"down", "idle", "suppressing", "sending", "sent"}
  /\ current \in Deliveries /\ limit \in 0..SendLimit

(* us_session_delivery_reconciliation.py: no delivery is both acknowledged *)
(* and given up, whatever was retried or resent, and a report that says    *)
(* complete is right: what is not in the chat was suppressed as stale.     *)
ReportIsTrue ==
  /\ AcknowledgedSet \cap (SuppressedSet \cup DeadSet) = {}
  /\ Complete => \A d \in Expected :
       posted[d] = {} => d[1] \in Market /\ d \in SuppressedSet

(* hermes_delivery_schema.py CLAIMABLE: a reply is only ever posted under  *)
(* the copy of its root's message that was acknowledged, though the root   *)
(* may be in the chat several times.                                       *)
RepliesFollowRoots ==
  \A d \in Deliveries : ~IsRoot(d) =>
    \A m \in posted[d] :
      \E r \in posted[RootOf(d)] :
        r.attempt = m.reply /\ m.reply = acked[RootOf(d)]

(* hermes_delivery_redrive.py: of a delivery and the copies that redrives  *)
(* made of it, at most one is acknowledged, and none is made of one that   *)
(* may still be claimed.                                                   *)
OneAcknowledged ==
  \A d, e \in Deliveries : d[1] = e[1] /\ d[2] < e[2] =>
    /\ acked[d] = 0 \/ acked[e] = 0
    /\ ~(e \in stored /\ Claimable(d))

(* What of a delivery is in the chat, or may still come to be.             *)
Underway(d) == posted[d] \cup {m.message : m \in {n \in late : n.delivery = d}}

(* delivery_worker.py:150-156: a delivery that is acknowledged or dead is  *)
(* never claimed, sent or recorded again, by this process or by the next.  *)
(* A request its client gave up may still reach the chat afterwards, and   *)
(* nothing else of it does.                                                *)
EndedIsFinal ==
  [][\A d \in Deliveries : Ended(d) =>
       /\ UNCHANGED <<log[d], acked[d]>>
       /\ Underway(d)' \subseteq Underway(d)]_vars

(* delivery_worker.py _CURRENT_MARKET_EVENT_MAX_AGE: with retries, leases  *)
(* that run out and restarts, no market message reaches the chat later     *)
(* than the age limit plus one send and what the network holds it up.      *)
PostedInTime ==
  [][\A d \in Deliveries :
       d[1] \in Market /\ posted'[d] # posted[d] =>
         age[d] <= MaxAge + SendLimit + Transit]_vars

(* The last permitted attempt was cut short: nobody will claim it again,   *)
(* and it is not a dead letter either.                                     *)
CutShort(d) ==
  /\ Len(log[d]) = MaxAttempts /\ HoldsClaim(d)
  /\ ~(current = d /\ pc \in {"sending", "sent", "suppressing"})

(* Delivery ends for every message whose last attempt is not cut short and *)
(* whose root is acknowledged: launchd restarts and expired leases lose    *)
(* none.                                                                   *)
EveryDeliveryEnds ==
  \A d \in {e \in Deliveries : e[2] = 0} :
    d \in Occurred ~> \/ Ended(d) \/ CutShort(d)
                      \/ Dead(RootOf(d)) \/ CutShort(RootOf(d))
=============================================================================
