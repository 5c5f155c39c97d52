---------------------------- MODULE PaperMutation ----------------------------
(***************************************************************************)
(* The Paper mutation plane: a process that holds the execution ledger's   *)
(* writer lease takes a current-epoch REST checkpoint, recovers the        *)
(* mutations whose outcome is unknown, and only then executes a plan of    *)
(* broker mutations, committing ATTEMPTED before every broker call         *)
(* (paper_operating_mutation_execution.py, paper_mutation_executor.py,     *)
(* paper_mutation_recovery.py, execution_store.py).  Processes may crash   *)
(* between any two commits and be restarted; the broker and the network    *)
(* may delay, lose, apply, refuse or leave unanswered a request.           *)
(*                                                                         *)
(* Time is kept as ages: age[m] is the time since the occurred_at of the   *)
(* latest ATTEMPTED event of m and lag[p] the time since the REST reads of *)
(* p's checkpoint.  Both stop growing one past the largest value the code  *)
(* compares them with.                                                     *)
(***************************************************************************)
EXTENDS PaperMutationLedger, FiniteSets

CONSTANTS
  Proc,            \* processes that may open an operating session
  Mutation,        \* mutation keys
  Op,              \* Op[m]: the operation of mutation m
  Plans,           \* sequences of mutations one execute_* call may run
  SettleDelay,     \* RECOVERY_SETTLE_DELAY
  MaxEvidenceAge,  \* RECOVERY_MAX_EVIDENCE_AGE
  ReceiptAge,      \* MAX_RUNTIME_RECEIPT_AGE
  RequestTTL,      \* external: a request reaches the broker, if ever, this soon
  MaxAttempts,     \* bound: attempts per mutation
  MaxFaults        \* bound: crashes and failed checkpoints

\* The client gives up on a request after its HTTP timeouts (5 s connect, 10 s
\* write, 10 s read, no retries); the recovery delay of 30 s is meant to be
\* longer than that plus the 5 s a checkpoint's reads may be old.
ASSUME MutationAssumption ==
  /\ Op \in [Mutation -> Operation]
  /\ Plans \subseteq Seq(Mutation)
  /\ {SettleDelay, MaxEvidenceAge, ReceiptAge, RequestTTL, MaxAttempts, MaxFaults} \subseteq Nat
  /\ RequestTTL + ReceiptAge < SettleDelay

VARIABLES
  intents,   \* paper_mutation_intents: saved mutation keys
  events,    \* paper_mutation_events: the event log of every mutation key
  age,       \* time since the latest ATTEMPTED event
  inflight,  \* external: attempts whose request may still reach the broker
  applied,   \* external: attempts whose request the broker has carried out
  failed,    \* external: close orders that ended without closing anything
  changed,   \* external: order replaced by hand / target order no longer live /
             \* position no longer what the close action saw
  lease,     \* holders of the flock on <ledger>.writer.lock
  pc,        \* where a process is
  purpose,   \* what the checkpoint in progress is for
  evidence,  \* what the checkpoint's REST reads showed
  lag,       \* time since those reads
  fresh,     \* no ledger commit since the checkpoint (ledger_generation barrier)
  verdict,   \* recovery decisions, and which of them are recorded
  queue,     \* mutations of the running plan, the current one first
  attempt,   \* _run's attempt_number
  faults     \* crashes and failed checkpoints so far

ledgerVars == <<intents, events>>
brokerVars == <<inflight, applied, failed, changed>>
snapVars   == <<evidence, lag, fresh, verdict>>
runVars    == <<queue, attempt>>
vars == <<ledgerVars, age, brokerVars, lease, pc, purpose, snapVars, runVars, faults>>

AgeCap == MaxEvidenceAge + 1
LagCap == ReceiptAge + 1

PC == {"down", "idle", "checkpoint", "reading", "recovering", "ready",
       "saving", "attempting", "sending", "waiting"}
Purpose == {"recover", "execute", "confirm", "post"}

NoEvidence == [m \in Mutation |-> "none"]
NoVerdict  == [m \in Mutation |-> "NONE"]

Init ==
  /\ intents = {}
  /\ events = [m \in Mutation |-> <<>>]
  /\ age = [m \in Mutation |-> 0]
  /\ inflight = [m \in Mutation |-> {}]
  /\ applied = [m \in Mutation |-> {}]
  /\ failed = [m \in Mutation |-> {}]
  /\ changed = [m \in Mutation |-> FALSE]
  /\ lease = {}
  /\ pc = [p \in Proc |-> "down"]
  /\ purpose = [p \in Proc |-> "recover"]
  /\ evidence = [p \in Proc |-> NoEvidence]
  /\ lag = [p \in Proc |-> 0]
  /\ fresh = [p \in Proc |-> FALSE]
  /\ verdict = [p \in Proc |-> NoVerdict]
  /\ queue = [p \in Proc |-> <<>>]
  /\ attempt = [p \in Proc |-> 0]
  /\ faults = 0

-----------------------------------------------------------------------------
(* Helpers *)

\* The attempt whose outcome recovery is asked about.
CurrentAttempt(m) == Latest(events[m]).attempt

\* append_paper_mutation_event: the transition check, the insert, the commit.
\* Every commit moves the ledger generation of every checkpoint.  An event other
\* than AMBIGUOUS restarts the age: ATTEMPTED because it is measured from there,
\* the others because nothing looks at it until the next ATTEMPTED.
AppendEvent(m, e) ==
  /\ RequireMutationTransition(events[m], e)
  /\ events' = [events EXCEPT ![m] = Append(@, e)]
  /\ age' = [age EXCEPT ![m] = IF e.type = "AMBIGUOUS" THEN @ ELSE 0]
  /\ fresh' = [q \in Proc |-> FALSE]

\* The operation ends: it returned, was blocked, or raised.
EndOperation(p) ==
  /\ pc' = [pc EXCEPT ![p] = "idle"]
  /\ purpose' = [purpose EXCEPT ![p] = "recover"]
  /\ evidence' = [evidence EXCEPT ![p] = NoEvidence]
  /\ lag' = [lag EXCEPT ![p] = 0]
  /\ verdict' = [verdict EXCEPT ![p] = NoVerdict]
  /\ queue' = [queue EXCEPT ![p] = <<>>]
  /\ attempt' = [attempt EXCEPT ![p] = 0]

StartCheckpoint(p, why) ==
  /\ pc' = [pc EXCEPT ![p] = "checkpoint"]
  /\ purpose' = [purpose EXCEPT ![p] = why]
  /\ evidence' = [evidence EXCEPT ![p] = NoEvidence]
  /\ lag' = [lag EXCEPT ![p] = 0]
  /\ verdict' = [verdict EXCEPT ![p] = NoVerdict]

\* The plan goes on with actions q; with none left, or after an action that was
\* not acknowledged, the post-mutation checkpoint starts.
Continue(p, q) ==
  /\ queue' = [queue EXCEPT ![p] = q]
  /\ attempt' = [attempt EXCEPT ![p] = 0]
  /\ \/ /\ q # <<>>
        /\ pc' = [pc EXCEPT ![p] = "saving"]
        /\ UNCHANGED <<purpose, evidence, lag, verdict>>
     \/ q = <<>> /\ StartCheckpoint(p, "post")

IsCancel(m) == Op[m] = "CANCEL_ORDER"
IsClose(m)  == Op[m] = "CLOSE_POSITION"

\* execute_safety_plan stops before the first close when the plan has a cancel:
\* the cancel has to be reconciled first.
ExecutablePart(q) ==
  IF \E i \in DOMAIN q : IsCancel(q[i])
  THEN SubSeq(q, 1, Cardinality({i \in 1..Len(q) : \A j \in 1..i : ~IsClose(q[j])}))
  ELSE q

-----------------------------------------------------------------------------
(* Sessions *)

\* open_paper_operating_session: the non-blocking flock comes first.
Open(p) ==
  /\ pc[p] = "down"
  /\ lease = {}
  /\ lease' = {p}
  /\ pc' = [pc EXCEPT ![p] = "idle"]
  /\ UNCHANGED <<ledgerVars, age, brokerVars, purpose, snapVars, runVars, faults>>

Close(p) ==
  /\ pc[p] = "idle"
  /\ lease' = lease \ {p}
  /\ pc' = [pc EXCEPT ![p] = "down"]
  /\ UNCHANGED <<ledgerVars, age, brokerVars, purpose, snapVars, runVars, faults>>

\* The process dies: the kernel drops its flock, volatile state is gone, what
\* was committed and what was sent stays.
Crash(p) ==
  /\ pc[p] # "down"
  /\ faults < MaxFaults
  /\ faults' = faults + 1
  /\ lease' = lease \ {p}
  /\ pc' = [pc EXCEPT ![p] = "down"]
  /\ purpose' = [purpose EXCEPT ![p] = "recover"]
  /\ evidence' = [evidence EXCEPT ![p] = NoEvidence]
  /\ lag' = [lag EXCEPT ![p] = 0]
  /\ fresh' = [fresh EXCEPT ![p] = FALSE]
  /\ verdict' = [verdict EXCEPT ![p] = NoVerdict]
  /\ queue' = [queue EXCEPT ![p] = <<>>]
  /\ attempt' = [attempt EXCEPT ![p] = 0]
  /\ UNCHANGED <<ledgerVars, age, brokerVars>>

\* recover_mutations, or an execute_* call behind the operation lock.
Begin(p, why) ==
  /\ pc[p] = "idle"
  /\ StartCheckpoint(p, why)
  /\ UNCHANGED <<ledgerVars, age, brokerVars, lease, fresh, runVars, faults>>

-----------------------------------------------------------------------------
(* Checkpoint: heartbeat, REST reads, heartbeat *)

\* What the reads may show of mutation m: the orders filtered and the statuses
\* distinguished by the decision procedures.
Observable(m) ==
  CASE Op[m] = "SUBMIT_ENTRY" ->
         IF applied[m] = {} THEN {"none"}
         ELSE IF changed[m] THEN {"mismatch"} ELSE {"match"}
    [] Op[m] = "SUBMIT_PROTECTIVE_OCO" ->
         IF applied[m] = {} THEN {"none"}
         ELSE IF changed[m] THEN {"mismatch"} ELSE {"match", "conflict"}
    [] Op[m] = "CANCEL_ORDER" ->
         IF changed[m] THEN {"effect"} ELSE {"retryable", "other"}
    [] OTHER ->
         IF CurrentAttempt(m) \notin applied[m]
         THEN IF changed[m] THEN {"moved"} ELSE {"untouched"}
         ELSE IF CurrentAttempt(m) \notin failed[m] THEN {"live"}
         ELSE IF changed[m] THEN {"failed_moved"} ELSE {"failed"}

\* Targeted lookups are made for the recoverable intents only.
Seen(m) == IF Recoverable(events[m]) THEN Observable(m) ELSE {"none"}

\* _recovery_reasons: an order the ledger's entry intents and OCO plans do not
\* explain.  An order replaced by hand is one, and so is every order of
\* close_position, whose client order id the broker makes up.
Unexplained(m) ==
  /\ applied[m] # {}
  /\ IsClose(m) \/ (~IsCancel(m) /\ changed[m])

\* It is certainly among the orders of the lookback of seven days; of an older
\* one the model does not know.
Recent(m) == Recoverable(events[m]) /\ age[m] <= MaxEvidenceAge

\* read_paper_recovery_state, between the two heartbeats.
ReadBroker(p) ==
  /\ pc[p] = "checkpoint"
  /\ \A m \in Mutation : Recent(m) => ~Unexplained(m)
  /\ pc' = [pc EXCEPT ![p] = "reading"]
  /\ \E seen \in [Mutation -> UNION {Seen(m) : m \in Mutation}] :
       /\ \A m \in Mutation : seen[m] \in Seen(m)
       /\ evidence' = [evidence EXCEPT ![p] = seen]
  /\ lag' = [lag EXCEPT ![p] = 0]
  /\ UNCHANGED <<ledgerVars, age, brokerVars, lease, purpose, fresh, verdict, runVars, faults>>

\* A heartbeat or a GET fails, or the stream is gone: the operation raises.
CheckpointFails(p) ==
  /\ pc[p] \in {"checkpoint", "reading"}
  /\ faults < MaxFaults
  /\ faults' = faults + 1
  /\ EndOperation(p)
  /\ UNCHANGED <<ledgerVars, age, brokerVars, lease, fresh>>

\* The reads show an unexplained order: the checkpoint, and with it the operation,
\* raises before anything is recovered or committed.
CheckpointRefused(p) ==
  /\ pc[p] = "checkpoint"
  /\ \E m \in Mutation : Unexplained(m)
  /\ EndOperation(p)
  /\ UNCHANGED <<ledgerVars, age, brokerVars, lease, fresh, faults>>

\* The closing heartbeat is too late for the reads to count as current.
CheckpointTooOld(p) ==
  /\ pc[p] = "reading"
  /\ lag[p] > ReceiptAge
  /\ EndOperation(p)
  /\ UNCHANGED <<ledgerVars, age, brokerVars, lease, fresh, faults>>

\* Mutant: no settle delay before an absent order counts as absent.
SettledAtOnce(m) == age[m] <= MaxEvidenceAge

Settled(m) == SettleDelay <= age[m] /\ age[m] <= MaxEvidenceAge

\* Mutant: the decision is the event type in place of the recovery state.
DecideEventType(p, m) ==
  IF m \in intents /\ Recoverable(events[m])
  THEN LET v == DecideMutationRecovery(Op[m], evidence[p][m], Settled(m))
       IN IF v = "ABSENT" THEN "RECOVERED_ABSENT" ELSE v
  ELSE "NONE"

\* decide_paper_mutation_recovery for every intent in the loop of recover():
\* a function of the snapshot, whose completed_at is now, and of the events.
Decide(p, m) ==
  IF m \in intents /\ Recoverable(events[m])
  THEN DecideMutationRecovery(Op[m], evidence[p][m], Settled(m))
  ELSE "NONE"

\* Mutant: the age of the REST reads is not checked.
CompleteStaleCheckpoint(p) ==
  /\ pc[p] = "reading"
  /\ fresh' = [fresh EXCEPT ![p] = TRUE]
  /\ evidence' = [evidence EXCEPT ![p] = NoEvidence]
  /\ lag' = [lag EXCEPT ![p] = 0]
  /\ pc' = [pc EXCEPT ![p] = IF purpose[p] = "confirm" THEN "ready" ELSE "recovering"]
  /\ verdict' = [verdict EXCEPT ![p] =
                   IF purpose[p] = "confirm" THEN @ ELSE [m \in Mutation |-> Decide(p, m)]]
  /\ UNCHANGED <<ledgerVars, age, brokerVars, lease, purpose, runVars, faults>>

CompleteCheckpoint(p) ==
  /\ pc[p] = "reading"
  /\ lag[p] <= ReceiptAge
  /\ fresh' = [fresh EXCEPT ![p] = TRUE]
  /\ evidence' = [evidence EXCEPT ![p] = NoEvidence]
  /\ lag' = [lag EXCEPT ![p] = 0]
  /\ \/ /\ purpose[p] = "confirm"
        /\ pc' = [pc EXCEPT ![p] = "ready"]
        /\ UNCHANGED verdict
     \/ /\ purpose[p] # "confirm"
        /\ pc' = [pc EXCEPT ![p] = "recovering"]
        /\ verdict' = [verdict EXCEPT ![p] = [m \in Mutation |-> Decide(p, m)]]
  /\ UNCHANGED <<ledgerVars, age, brokerVars, lease, purpose, runVars, faults>>

-----------------------------------------------------------------------------
(* Recovery *)

RecoveredType(v) ==
  IF v = "ACKNOWLEDGED" THEN "RECOVERED_ACKNOWLEDGED" ELSE "RECOVERED_ABSENT"

\* Mutant: recovery decides and reports, but its event is not appended.
RecoverOneWithoutAppend(p, m) ==
  /\ pc[p] = "recovering"
  /\ verdict[p][m] \in {"ACKNOWLEDGED", "ABSENT"}
  /\ verdict' = [verdict EXCEPT ![p][m] = "RECORDED"]
  /\ UNCHANGED <<ledgerVars, age, brokerVars, lease, pc, purpose, evidence, lag, fresh, runVars, faults>>

\* One round of recover()'s loop that has something to append.
RecoverOne(p, m) ==
  /\ pc[p] = "recovering"
  /\ verdict[p][m] \in {"ACKNOWLEDGED", "ABSENT"}
  /\ AppendEvent(m, MutationEvent(CurrentAttempt(m), RecoveredType(verdict[p][m])))
  /\ verdict' = [verdict EXCEPT ![p][m] = "RECORDED"]
  /\ UNCHANGED <<intents, brokerVars, lease, pc, purpose, evidence, lag, runVars, faults>>

\* append_paper_mutation_event refuses the recovery event and recover() raises.
RecoverRaises(p, m) ==
  /\ pc[p] = "recovering"
  /\ verdict[p][m] \in {"ACKNOWLEDGED", "ABSENT"}
  /\ ~RequireMutationTransition(events[m],
        MutationEvent(CurrentAttempt(m), RecoveredType(verdict[p][m])))
  /\ EndOperation(p)
  /\ UNCHANGED <<ledgerVars, age, brokerVars, lease, fresh, faults>>

Unresolved(p) == \E m \in Mutation : verdict[p][m] = "UNRESOLVED"
Recorded(p)   == \E m \in Mutation : verdict[p][m] = "RECORDED"

\* The loop is over: recover_mutations and the post-mutation recovery return; an
\* execution is blocked by an unresolved mutation, takes a second checkpoint if
\* recovery wrote to the ledger, and otherwise goes on.
EndRecover(p) ==
  /\ pc[p] = "recovering"
  /\ \A m \in Mutation : verdict[p][m] \notin {"ACKNOWLEDGED", "ABSENT"}
  /\ \/ /\ purpose[p] # "execute" \/ Unresolved(p)
        /\ EndOperation(p)
     \/ /\ purpose[p] = "execute" /\ ~Unresolved(p) /\ Recorded(p)
        /\ StartCheckpoint(p, "confirm")
        /\ UNCHANGED runVars
     \/ /\ purpose[p] = "execute" /\ ~Unresolved(p) /\ ~Recorded(p)
        /\ pc' = [pc EXCEPT ![p] = "ready"]
        /\ UNCHANGED <<purpose, evidence, lag, verdict, runVars>>
  /\ UNCHANGED <<ledgerVars, age, brokerVars, lease, fresh, faults>>

-----------------------------------------------------------------------------
(* Execution *)

\* The gate or planner approved plan q and the checkpoint barrier still holds.
StartPlan(p, q) ==
  /\ pc[p] = "ready"
  /\ fresh[p]
  /\ q \in Plans
  /\ \A i \in DOMAIN q : LatestAttempt(events[q[i]]) < MaxAttempts
  /\ Continue(p, ExecutablePart(q))
  /\ UNCHANGED <<ledgerVars, age, brokerVars, lease, fresh, faults>>

\* Nothing to execute: the gate refused, or there is no action to take.
Decline(p) ==
  /\ pc[p] = "ready"
  /\ EndOperation(p)
  /\ UNCHANGED <<ledgerVars, age, brokerVars, lease, fresh, faults>>

\* Mutant: the broker is called before ATTEMPTED is committed.
SaveIntentAndSend(p) ==
  /\ pc[p] = "saving"
  /\ intents' = intents \cup {Head(queue[p])}
  /\ attempt' = [attempt EXCEPT ![p] = LatestAttempt(events[Head(queue[p])]) + 1]
  /\ pc' = [pc EXCEPT ![p] = "sending"]
  /\ UNCHANGED <<events, age, brokerVars, lease, purpose, snapVars, queue, faults>>

\* save_paper_mutation_intent (for an entry with its order intent, in one
\* transaction); saving it again changes nothing.
SaveIntent(p) ==
  /\ pc[p] = "saving"
  /\ intents' = intents \cup {Head(queue[p])}
  /\ fresh' = IF Head(queue[p]) \in intents THEN fresh ELSE [q \in Proc |-> FALSE]
  /\ pc' = [pc EXCEPT ![p] = "attempting"]
  /\ UNCHANGED <<events, age, brokerVars, lease, purpose, evidence, lag, verdict, runVars, faults>>

\* The log lets _run attempt: ATTEMPTED is committed before anything is sent.
Attempt(p) ==
  LET m == Head(queue[p])
      n == LatestAttempt(events[m]) + 1
  IN /\ pc[p] = "attempting"
     /\ ExistingResult(events[m]) = "NONE"
     /\ AppendEvent(m, MutationEvent(n, "ATTEMPTED"))
     /\ attempt' = [attempt EXCEPT ![p] = n]
     /\ pc' = [pc EXCEPT ![p] = "sending"]
     /\ UNCHANGED <<intents, brokerVars, lease, purpose, evidence, lag, verdict, queue, faults>>

\* The log already has an answer: only an acknowledged action lets the plan go on.
SkipAttempt(p) ==
  LET r == ExistingResult(events[Head(queue[p])])
  IN /\ pc[p] = "attempting"
     /\ r # "NONE"
     /\ Continue(p, IF r = "ALREADY_ACKNOWLEDGED" THEN Tail(queue[p]) ELSE <<>>)
     /\ UNCHANGED <<ledgerVars, age, brokerVars, lease, fresh, faults>>

Send(p) ==
  /\ pc[p] = "sending"
  /\ inflight' = [inflight EXCEPT ![Head(queue[p])] = @ \cup {attempt[p]}]
  /\ pc' = [pc EXCEPT ![p] = "waiting"]
  /\ UNCHANGED <<ledgerVars, age, applied, failed, changed, lease, purpose, snapVars, runVars, faults>>

\* Mutant: the plan goes on whatever the outcome of the action was.
RecordAndGoOn(p, t) ==
  /\ pc[p] = "waiting"
  /\ AppendEvent(Head(queue[p]), MutationEvent(attempt[p], t))
  /\ Continue(p, Tail(queue[p]))
  /\ UNCHANGED <<intents, applied, failed, changed, lease, faults>>

\* invoke() returned or raised, and _run records it with event type t.
Record(p, t) ==
  /\ pc[p] = "waiting"
  /\ AppendEvent(Head(queue[p]), MutationEvent(attempt[p], t))
  /\ Continue(p, IF t = "ACKNOWLEDGED" THEN Tail(queue[p]) ELSE <<>>)
  /\ UNCHANGED <<intents, applied, failed, changed, lease, faults>>

\* A complete, matching response: only for a request that was carried out.
ReplyAcknowledged(p) ==
  /\ pc[p] = "waiting"
  /\ attempt[p] \in applied[Head(queue[p])]
  /\ Record(p, "ACKNOWLEDGED")
  /\ UNCHANGED inflight

\* The broker refused the request: it will not be carried out.
ReplyRejected(p) ==
  LET m == Head(queue[p])
  IN /\ pc[p] = "waiting"
     /\ attempt[p] \in inflight[m]
     /\ Record(p, "REJECTED")
     /\ inflight' = [inflight EXCEPT ![m] = @ \ {attempt[p]}]

\* HTTP 5xx: _require_status takes it for a refusal, whatever became of the request.
ReplyServerError(p) ==
  /\ Record(p, "REJECTED")
  /\ UNCHANGED inflight

\* A transport error (timeout included) or an incomplete response.
ReplyAmbiguous(p) ==
  /\ Record(p, "AMBIGUOUS")
  /\ UNCHANGED inflight

\* A status below 400 other than the expected one is reported as a refusal, but a
\* REJECTED event must have status >= 400: _run raises, nothing is recorded.
ReplyUnexpectedStatus(p) ==
  /\ pc[p] = "waiting"
  /\ EndOperation(p)
  /\ UNCHANGED <<ledgerVars, age, brokerVars, lease, fresh, faults>>

-----------------------------------------------------------------------------
(* Broker, network and time: external *)

\* The broker carries out a request: an order appears, or the target order of a
\* cancel stops being live.
Apply(m) ==
  /\ \E a \in inflight[m] :
       /\ inflight' = [inflight EXCEPT ![m] = @ \ {a}]
       /\ applied' = [applied EXCEPT ![m] = @ \cup {a}]
  /\ changed' = [changed EXCEPT ![m] = @ \/ IsCancel(m)]
  /\ UNCHANGED <<ledgerVars, age, failed, lease, pc, purpose, snapVars, runVars, faults>>

Lose(m) ==
  /\ \E a \in inflight[m] : inflight' = [inflight EXCEPT ![m] = @ \ {a}]
  /\ UNCHANGED <<ledgerVars, age, applied, failed, changed, lease, pc, purpose, snapVars, runVars, faults>>

\* A close order ends canceled, expired or rejected.
FailClose(m) ==
  /\ IsClose(m)
  /\ \E a \in applied[m] \ failed[m] : failed' = [failed EXCEPT ![m] = @ \cup {a}]
  /\ UNCHANGED <<ledgerVars, age, inflight, applied, changed, lease, pc, purpose, snapVars, runVars, faults>>

\* An order is replaced by hand, the target order fills or expires by itself, the
\* position changes.
Disturb(m) ==
  /\ ~changed[m]
  /\ Op[m] \in {"SUBMIT_ENTRY", "SUBMIT_PROTECTIVE_OCO"} => applied[m] # {}
  /\ changed' = [changed EXCEPT ![m] = TRUE]
  /\ UNCHANGED <<ledgerVars, age, inflight, applied, failed, lease, pc, purpose, snapVars, runVars, faults>>

\* The request of m's latest attempt may still be on its way to the broker.
Pending(m) ==
  \/ inflight[m] # {}
  \/ \E p \in Proc : pc[p] = "sending" /\ Head(queue[p]) = m

Min2(a, b) == IF a <= b THEN a ELSE b

\* Time passes; a request on its way arrives or is lost within RequestTTL.
Tick ==
  /\ \E m \in Mutation : Recoverable(events[m]) /\ age[m] < AgeCap
  /\ \A m \in Mutation : Pending(m) => age[m] < RequestTTL
  /\ age' = [m \in Mutation |->
               IF Recoverable(events[m]) THEN Min2(age[m] + 1, AgeCap) ELSE age[m]]
  /\ lag' = [p \in Proc |-> IF pc[p] = "reading" THEN Min2(lag[p] + 1, LagCap) ELSE lag[p]]
  /\ UNCHANGED <<ledgerVars, brokerVars, lease, pc, purpose, evidence, fresh, verdict, runVars, faults>>

-----------------------------------------------------------------------------
\* What a process does by itself once an operation has begun.
Step(p) ==
  \/ ReadBroker(p) \/ CheckpointRefused(p) \/ CheckpointTooOld(p) \/ CompleteCheckpoint(p)
  \/ \E m \in Mutation : RecoverOne(p, m) \/ RecoverRaises(p, m)
  \/ EndRecover(p)
  \/ \E q \in Plans : StartPlan(p, q)
  \/ Decline(p) \/ SaveIntent(p) \/ Attempt(p) \/ SkipAttempt(p) \/ Send(p)
  \/ ReplyAcknowledged(p) \/ ReplyRejected(p) \/ ReplyServerError(p)
  \/ ReplyAmbiguous(p) \/ ReplyUnexpectedStatus(p)

Session(p) == Open(p) \/ Close(p) \/ Begin(p, "recover") \/ Begin(p, "execute")

Fault(p) == Crash(p) \/ CheckpointFails(p)

Broker == \E m \in Mutation : Apply(m) \/ Lose(m) \/ FailClose(m) \/ Disturb(m)

Next ==
  \/ \E p \in Proc : Step(p) \/ Session(p) \/ Fault(p)
  \/ Broker
  \/ Tick

Spec == Init /\ [][Next]_vars

\* A process that has begun an operation gets on with it; some process opens a
\* session whenever the lease is free (the session is opened again by its
\* scheduler after a crash), and an open session is used for recovery again and
\* again even if sessions are closed in between.
Fairness ==
  \A p \in Proc : /\ WF_vars(Step(p))
                   /\ WF_vars(Open(p))
                   /\ SF_vars(Begin(p, "recover"))

FairSpec == Spec /\ Fairness

-----------------------------------------------------------------------------
(* Properties *)

\* Every variable has its type: in particular verdicts are recovery states and
\* evidence is what the decision procedures distinguish.
TypeOK ==
  /\ intents \subseteq Mutation
  /\ events \in [Mutation -> Seq(Event)]
  /\ age \in [Mutation -> 0..AgeCap]
  /\ inflight \in [Mutation -> SUBSET (Nat \ {0})]
  /\ applied \in [Mutation -> SUBSET (Nat \ {0})]
  /\ failed \in [Mutation -> SUBSET (Nat \ {0})]
  /\ changed \in [Mutation -> BOOLEAN]
  /\ lease \subseteq Proc
  /\ pc \in [Proc -> PC]
  /\ purpose \in [Proc -> Purpose]
  /\ evidence \in [Proc -> [Mutation -> Evidence]]
  /\ lag \in [Proc -> 0..LagCap]
  /\ fresh \in [Proc -> BOOLEAN]
  /\ verdict \in [Proc -> [Mutation -> Verdict \cup {"NONE", "RECORDED"}]]
  /\ queue \in [Proc -> Seq(Mutation)]
  /\ attempt \in [Proc -> Nat]
  /\ faults \in Nat

\* Orders, cancels and closes of m that took and kept effect at the broker.
Effective(m) == applied[m] \ failed[m]

\* No mutation is carried out twice at the broker, however often it is retried,
\* whatever crashes, timeouts and late deliveries come in between: a retry starts
\* only when the earlier attempt is known to have had, and to be going to have, no
\* effect (RECOVERED_ABSENT in paper_mutation_recovery.py).
AtMostOneEffect ==
  \A m \in Mutation : \A a, b \in Effective(m) : a = b

\* A mutation recorded as absent is absent: nothing of it took effect and no
\* request of it is still under way that could (settle delay, receipt age).
AbsentIsTrue ==
  \A m \in Mutation :
    events[m] # <<>> /\ Latest(events[m]).type = "RECOVERED_ABSENT"
      => inflight[m] = {} /\ Effective(m) = {}

\* A mutation recorded as acknowledged, by the broker call or by recovery, was
\* carried out; for a cancel it is enough that the target order is not live.
AcknowledgedIsTrue ==
  \A m \in Mutation :
    events[m] # <<>> /\ Latest(events[m]).type \in {"ACKNOWLEDGED", "RECOVERED_ACKNOWLEDGED"}
      => applied[m] # {} \/ (IsCancel(m) /\ changed[m])

\* Whatever reached or may reach the broker was committed first, as an ATTEMPTED
\* event of that attempt: a crash never leaves an order the ledger knows nothing of.
AttemptedBeforeSent ==
  \A m \in Mutation : \A a \in inflight[m] \cup applied[m] :
    m \in intents /\ "ATTEMPTED" \in TypesOf(events[m], a)

\* At most one mutation of the account is without an outcome at any time, over all
\* processes and restarts: an unresolved one blocks every new execution, and a
\* safety plan stops at the first action that is not acknowledged.
OneOutstanding ==
  \A m, n \in Mutation : Recoverable(events[m]) /\ Recoverable(events[n]) => m = n

\* The broker shows the order of entry m exactly as the intent describes it.
Found(m) == Op[m] = "SUBMIT_ENTRY" /\ applied[m] # {} /\ ~changed[m]

Acknowledged(m) ==
  events[m] # <<>> /\ Latest(events[m]).type \in {"ACKNOWLEDGED", "RECOVERED_ACKNOWLEDGED"}

\* An entry whose call ended AMBIGUOUS and whose order is at the broker does not
\* stay ambiguous: some recovery finds and acknowledges it, through crashes,
\* failed checkpoints and restarts, unless an unexplained order appears.
AmbiguousIsResolved ==
  \A m \in Mutation :
    (Found(m) /\ events[m] # <<>> /\ Latest(events[m]).type = "AMBIGUOUS")
      ~> (Acknowledged(m) \/ \E n \in Mutation : Unexplained(n))

\* The same for every mutation recovery takes up, also one whose process died
\* after ATTEMPTED: "if current-epoch targeted REST finds the exact order, it is
\* recovered acknowledged" (docs/architecture_ko.md).
FoundIsAcknowledged ==
  \A m \in Mutation :
    (Found(m) /\ Recoverable(events[m]))
      ~> (~Recoverable(events[m]) \/ \E n \in Mutation : Unexplained(n))

=============================================================================
