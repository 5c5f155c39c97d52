--------------------------- MODULE PaperProtection ---------------------------
(***************************************************************************)
(* The orders that get the Paper account out of a position: the protective *)
(* OCO that follows a filled entry, its staged resize (cancel, wait until  *)
(* the cancel is terminal, submit a replacement), and the safety plans     *)
(* that cancel everything and close the position at the cutoff, at the end *)
(* of the day or on the daily kill switch                                  *)
(* (paper_protective_oco_lifecycle.py, paper_protective_exit.py,           *)
(* paper_safety_planner.py, paper_operating_mutation_execution.py).        *)
(*                                                                         *)
(* One symbol and one long entry intent, whose order is at the broker.  An *)
(* operation reads the broker four times: the entry order and the OCO      *)
(* history of the recovery checkpoint, then the open orders and, after     *)
(* them, the positions of the readiness snapshot.  The market moves between*)
(* any two reads and between the reads and the mutation.                   *)
(*                                                                         *)
(* A behaviour is one New York trading day: the kill latch and the guard   *)
(* against repeated safety actions hold to its end, and every order and    *)
(* fill stays within the seven days the checkpoint looks back.             *)
(*                                                                         *)
(* A mutation is used through what PaperMutation shows of it: it takes     *)
(* effect at most once, its recorded outcome is true, and while one has no *)
(* outcome no other is sent.                                               *)
(***************************************************************************)
EXTENDS Naturals, Sequences, FiniteSets, FiniteSetsExt

CONSTANTS
  Quantity,    \* the entry's quantity
  MaxPlans,    \* bound: protective plans saved
  Behaviours   \* which of the things that may happen do (see BehaviourSet)

BehaviourSet == {"fill", "expire", "reject", "ambiguous", "crash", "lag", "safety",
                 "close_fails"}

ASSUME ProtectionAssumption ==
  /\ Quantity \in Nat \ {0}
  /\ MaxPlans \in Nat \ {0}
  /\ Behaviours \subseteq BehaviourSet

VARIABLES
  entry,        \* external: the entry order [filled, status]
  ocos,         \* external: OCOs in the order of their submission
  closing,      \* external: what live close orders have still to sell
  position,     \* external: shares held
  closes,       \* external: there are or were close orders
  clock,        \* the part of the session: open, entry cutoff, EOD window
  plans,        \* protective_oco_plans: [source, quantity] by rowid
  submits,      \* latest event of the SUBMIT_PROTECTIVE_OCO mutation of a plan
  cancels,      \* latest event of the CANCEL_PROTECTIVE_OCO mutation of a plan
  acked,        \* requests of today's safety mutations that are acknowledged
  kill,         \* a KILL_SWITCH plan of today is in paper_safety_plans
  known,        \* the entry's ledger projection [filled, status]
  outstanding,  \* the mutation without an outcome, if any
  pc,           \* how far the operation is
  op,           \* execute_protection or execute_safety
  seen,         \* what the operation has read
  queue         \* requests still to run

brokerVars == <<entry, ocos, closing, position, closes>>
ledgerVars == <<plans, submits, cancels, acked, kill, known>>
procVars   == <<pc, op, seen, queue>>
vars == <<brokerVars, clock, ledgerVars, outstanding, procVars>>

OrderStatus == {"live", "pending_cancel", "done"}
Outcome == {"NONE", "ACKNOWLEDGED", "REJECTED", "RECOVERED_ABSENT"}
Plan == [source : 0..MaxPlans, quantity : 1..Quantity]
EntryOrder == [filled : 0..Quantity, status : OrderStatus]
Oco == [plan : 1..MaxPlans, left : 0..Quantity, status : OrderStatus, shown : BOOLEAN]

\* A request is identified by what its SHA-256 covers.  Order 0 is the entry,
\* any other number the OCO of that plan.
Request == [kind : {"SUBMIT_OCO", "CANCEL_OCO", "CANCEL_ORDER"}, target : 0..MaxPlans]
           \cup [kind : {"CLOSE"}, target : 1..Quantity]
Req(k, t) == [kind |-> k, target |-> t]

\* sent: the request may still reach the broker; done: it was carried out.
None == [state |-> "NONE"]
Outstanding == [state : {"AMBIGUOUS", "ATTEMPTED"}, request : Request,
                sent : BOOLEAN, done : BOOLEAN]

Unread == [entry |-> [filled |-> 0, status |-> "done"], history |-> {},
           order |-> [filled |-> 0, status |-> "done"], open |-> {}, closes |-> FALSE,
           position |-> 0]

Init ==
  /\ entry = [filled |-> 0, status |-> "live"]
  /\ ocos = <<>>
  /\ closing = 0
  /\ position = 0
  /\ closes = FALSE
  /\ clock = "open"
  /\ plans = <<>>
  /\ submits = [k \in 1..MaxPlans |-> "NONE"]
  /\ cancels = [k \in 1..MaxPlans |-> "NONE"]
  /\ acked = {}
  /\ kill = FALSE
  /\ known = [filled |-> 0, status |-> "live"]
  /\ outstanding = None
  /\ pc = "idle"
  /\ op = "protect"
  /\ seen = Unread
  /\ queue = <<>>

Live(o) == o.status # "done"
LiveOcos == {i \in DOMAIN ocos : Live(ocos[i])}

-----------------------------------------------------------------------------
(* Broker and market: external *)

FillEntry ==
  /\ Live(entry) /\ entry.filled < Quantity
  /\ LET f == entry.filled + 1
     IN entry' = [filled |-> f, status |-> IF f = Quantity THEN "done" ELSE entry.status]
  /\ position' = position + 1
  /\ UNCHANGED <<ocos, closing, closes, clock, ledgerVars, outstanding, procVars>>

\* A pending cancel becomes effective, or the order expires.
EndEntry ==
  /\ \/ entry.status = "pending_cancel"
     \/ entry.status = "live" /\ "expire" \in Behaviours
  /\ entry' = [entry EXCEPT !.status = "done"]
  /\ UNCHANGED <<ocos, closing, position, closes, clock, ledgerVars, outstanding, procVars>>

\* One share is sold by an OCO.
FillOco(i) ==
  /\ "fill" \in Behaviours
  /\ Live(ocos[i]) /\ ocos[i].left > 0 /\ position > 0
  /\ LET n == ocos[i].left - 1
     IN ocos' = [ocos EXCEPT ![i].left = n,
                             ![i].status = IF n = 0 THEN "done" ELSE @]
  /\ position' = position - 1
  /\ UNCHANGED <<entry, closing, closes, clock, ledgerVars, outstanding, procVars>>

EndOco(i) ==
  /\ \/ ocos[i].status = "pending_cancel"
     \/ ocos[i].status = "live" /\ "expire" \in Behaviours
  /\ ocos' = [ocos EXCEPT ![i].status = "done"]
  /\ UNCHANGED <<entry, closing, position, closes, clock, ledgerVars, outstanding, procVars>>

\* The order lists catch up with a new OCO.
ShowOco(i) ==
  /\ ~ocos[i].shown
  /\ ocos' = [ocos EXCEPT ![i].shown = TRUE]
  /\ UNCHANGED <<entry, closing, position, closes, clock, ledgerVars, outstanding, procVars>>

FillClose ==
  /\ closing > 0 /\ position > 0
  /\ closing' = closing - 1
  /\ position' = position - 1
  /\ UNCHANGED <<entry, ocos, closes, clock, ledgerVars, outstanding, procVars>>

EndClose ==
  /\ "close_fails" \in Behaviours
  /\ closing > 0
  /\ closing' = 0
  /\ UNCHANGED <<entry, ocos, position, closes, clock, ledgerVars, outstanding, procVars>>

AdvanceClock ==
  /\ "safety" \in Behaviours
  /\ \/ clock = "open" /\ clock' = "cutoff"
     \/ clock = "cutoff" /\ clock' = "eod"
  /\ UNCHANGED <<brokerVars, ledgerVars, outstanding, procVars>>

\* What the client order id of a plan is made from: one id for the first OCO, and
\* one per predecessor and quantity for the replacements.
ClientOrderId(plan) == IF plan.source = 0 THEN <<>> ELSE <<plan.source, plan.quantity>>

\* The broker takes each id once.
IdTaken(plan) == \E i \in DOMAIN ocos : ClientOrderId(plans[ocos[i].plan]) = ClientOrderId(plan)

Accepts(r) ==
  CASE r.kind = "SUBMIT_OCO" -> ~IdTaken(plans[r.target])
    [] r.kind = "CANCEL_ORDER" /\ r.target = 0 -> Live(entry)
    [] r.kind \in {"CANCEL_OCO", "CANCEL_ORDER"} /\ r.target > 0 ->
         \E i \in LiveOcos : ocos[i].plan = r.target
    [] OTHER -> TRUE

CancelStatus(s) == IF s = "live" THEN "pending_cancel" ELSE s

\* The broker carries out request r.
Effect(r) ==
  \/ /\ r.kind = "SUBMIT_OCO"
     /\ \E shown \in {TRUE} \cup (IF "lag" \in Behaviours THEN {FALSE} ELSE {}) :
          ocos' = Append(ocos, [plan |-> r.target, left |-> plans[r.target].quantity,
                                status |-> "live", shown |-> shown])
     /\ UNCHANGED <<entry, closing, closes>>
  \/ /\ r.kind = "CANCEL_ORDER" /\ r.target = 0
     /\ entry' = [entry EXCEPT !.status = CancelStatus(@)]
     /\ UNCHANGED <<ocos, closing, closes>>
  \/ /\ r.kind \in {"CANCEL_OCO", "CANCEL_ORDER"} /\ r.target > 0
     /\ ocos' = [i \in DOMAIN ocos |->
                   IF ocos[i].plan = r.target
                   THEN [ocos[i] EXCEPT !.status = CancelStatus(@)] ELSE ocos[i]]
     /\ UNCHANGED <<entry, closing, closes>>
  \/ /\ r.kind = "CLOSE"
     /\ closing' = closing + r.target
     /\ closes' = TRUE
     /\ UNCHANGED <<entry, ocos>>

-----------------------------------------------------------------------------
(* An operation: the checkpoint's reads, the readiness reads *)

Gone == [filled |-> 0, status |-> "done"]
Listed(o) == IF Live(o) THEN o ELSE Gone
ShownOcos == {ocos[i] : i \in {j \in DOMAIN ocos : ocos[j].shown}}

EndOperation ==
  /\ pc' = "idle"
  /\ op' = "protect"
  /\ seen' = Unread
  /\ queue' = <<>>

\* Mutant: an unresolved mutation does not block the execution.
ReadEntryUnresolved(o) ==
  /\ pc = "idle"
  /\ o = "safety" => "safety" \in Behaviours
  /\ pc' = "history"
  /\ op' = o
  /\ seen' = [Unread EXCEPT !.entry = entry]
  /\ UNCHANGED <<brokerVars, clock, ledgerVars, outstanding, queue>>

\* The checkpoint reads the entry order.  A mutation without an outcome has to
\* be recovered first; one that cannot be blocks every execution.
ReadEntry(o) ==
  /\ pc = "idle"
  /\ o = "safety" => "safety" \in Behaviours
  /\ outstanding = None
  /\ pc' = "history"
  /\ op' = o
  /\ seen' = [Unread EXCEPT !.entry = entry]
  /\ UNCHANGED <<brokerVars, clock, ledgerVars, outstanding, queue>>

\* _recovery_reasons: the checkpoint's reads show a fill that is not a fill of the
\* entry order, or an order that is neither the entry nor an OCO of a plan.
Unexplained == closes \/ \E i \in DOMAIN ocos : ocos[i].left < plans[ocos[i].plan].quantity

\* The checkpoint raises, and with it the operation.
CheckpointRefused ==
  /\ pc = "history"
  /\ Unexplained
  /\ EndOperation
  /\ UNCHANGED <<brokerVars, clock, ledgerVars, outstanding>>

\* It reads open and recent OCOs and the fills, then commits the recovered entry
\* state.
ReadHistory ==
  /\ pc = "history"
  /\ ~Unexplained
  /\ pc' = "inventory"
  /\ seen' = [seen EXCEPT !.history = ShownOcos, !.entry = Gone]
  /\ known' = seen.entry
  /\ UNCHANGED <<brokerVars, clock, plans, submits, cancels, acked, kill, outstanding, op, queue>>

\* read_paper_broker_state_and_clock reads the open orders first ...
ReadInventory ==
  /\ pc = "inventory"
  /\ pc' = "positions"
  /\ seen' = [seen EXCEPT !.order = Listed(entry), !.open = {o \in ShownOcos : Live(o)},
                          !.closes = closing > 0]
  /\ UNCHANGED <<brokerVars, clock, ledgerVars, outstanding, op, queue>>

\* ... and the positions after them.
ReadPositions ==
  /\ pc = "positions"
  /\ pc' = "decide"
  /\ seen' = [seen EXCEPT !.position = position]
  /\ UNCHANGED <<brokerVars, clock, ledgerVars, outstanding, op, queue>>

\* The operation ends without a mutation for a reason outside this model (stale
\* receipts, a changed stream epoch, a missing execution detail, scope limits).
GiveUp ==
  /\ pc \in {"history", "inventory", "positions", "decide"}
  /\ EndOperation
  /\ UNCHANGED <<brokerVars, clock, ledgerVars, outstanding>>

\* reconcile_operational_paper_state: the entry is open at the broker iff it is
\* unresolved in the ledger, with the same fill; a close order is an unknown order.
Reconciled ==
  /\ Live(seen.order) <=> Live(known)
  /\ Live(seen.order) => seen.order.filled = known.filled
  /\ ~seen.closes

\* build_paper_portfolio: the position is the fill of the one entry intent.
PortfolioComplete ==
  IF Live(seen.order) THEN seen.position = seen.order.filled
  ELSE /\ seen.position = known.filled
       /\ seen.position > 0 => ~Live(known)

-----------------------------------------------------------------------------
(* execute_protection *)

HistorySold ==
  MapThenSumSet(LAMBDA o : plans[o.plan].quantity - o.left, seen.history)

\* _latest_matched_plan: the last plan, by rowid, that the history shows.
LatestMatched == Max({0} \cup {o.plan : o \in seen.history})

\* _prior_protective_mutation_requires_history
PriorSubmit ==
  \/ \E k \in DOMAIN plans : submits[k] \notin {"NONE", "RECOVERED_ABSENT"}
  \/ outstanding # None /\ outstanding.request.kind = "SUBMIT_OCO"

\* Mutant: the daily kill latch is left out of the protective gate.
ProtectGateWithoutLatch == Reconciled /\ PortfolioComplete /\ clock # "eod"

\* protective_mutation_readiness_reasons is empty.
ProtectGate == Reconciled /\ PortfolioComplete /\ ~kill /\ clock # "eod"

\* The lifecycle's early returns with a block.
LifecycleClear ==
  /\ Cardinality(seen.open) <= 1
  /\ seen.open = {} /\ seen.history = {} => ~PriorSubmit
  /\ seen.open = {} => \A o \in seen.history : ~Live(o)
  /\ HistorySold <= known.filled
  /\ seen.position = known.filled - HistorySold

\* Mutant: a replacement gets the client order id of the first OCO.
DesiredPlanSameId == [source |-> 0, quantity |-> seen.position]

\* plan_protective_oco_exit: the quantity, and the predecessor the client order id
\* is made from.
DesiredPlan == [source |-> IF seen.open = {} THEN LatestMatched ELSE 0,
                quantity |-> seen.position]

PlanSaved(k) == k \in DOMAIN plans /\ plans[k] = DesiredPlan

\* protective_oco_covers_position
Covers(o) == o.status = "live" /\ o.left = seen.position

\* No OCO is open and a position is: save_protective_oco_plan, then submit.
PlanOco ==
  /\ pc = "decide" /\ op = "protect"
  /\ ProtectGate /\ LifecycleClear
  /\ seen.open = {} /\ seen.position > 0
  /\ \/ \E k \in 1..MaxPlans :
          /\ PlanSaved(k)
          /\ queue' = <<Req("SUBMIT_OCO", k)>>
          /\ UNCHANGED plans
     \/ /\ \A k \in 1..MaxPlans : ~PlanSaved(k)
        /\ Len(plans) < MaxPlans
        /\ plans' = Append(plans, DesiredPlan)
        /\ queue' = <<Req("SUBMIT_OCO", Len(plans) + 1)>>
  /\ pc' = "run"
  /\ seen' = Unread
  /\ UNCHANGED <<brokerVars, clock, submits, cancels, acked, kill, known, outstanding, op>>

\* Mutant: the replacement is saved and submitted in the call that cancels.
PlanResizeInOneCall ==
  /\ pc = "decide" /\ op = "protect"
  /\ ProtectGate /\ LifecycleClear
  /\ Len(plans) < MaxPlans /\ seen.position > 0
  /\ \E o \in seen.open :
       /\ ~Covers(o) /\ o.status = "live"
       /\ plans' = Append(plans, [source |-> o.plan, quantity |-> seen.position])
       /\ queue' = <<Req("CANCEL_OCO", o.plan), Req("SUBMIT_OCO", Len(plans) + 1)>>
  /\ pc' = "run"
  /\ seen' = Unread
  /\ UNCHANGED <<brokerVars, clock, submits, cancels, acked, kill, known, outstanding, op>>

\* The open OCO does not cover the position: cancel it, and nothing more.
PlanResizeCancel ==
  /\ pc = "decide" /\ op = "protect"
  /\ ProtectGate /\ LifecycleClear
  /\ \E o \in seen.open :
       /\ ~Covers(o) /\ o.status = "live"
       /\ queue' = <<Req("CANCEL_OCO", o.plan)>>
  /\ pc' = "run"
  /\ seen' = Unread
  /\ UNCHANGED <<brokerVars, clock, ledgerVars, outstanding, op>>

\* Nothing to do, or blocked.
NoProtection ==
  /\ pc = "decide" /\ op = "protect"
  /\ ~(ProtectGate /\ LifecycleClear
       /\ \/ seen.open = {} /\ seen.position > 0
          \/ \E o \in seen.open : ~Covers(o) /\ o.status = "live")
  /\ EndOperation
  /\ UNCHANGED <<brokerVars, clock, ledgerVars, outstanding>>

-----------------------------------------------------------------------------
(* execute_safety *)

\* plan_paper_safety_actions: a latched kill switch, or a loss (any time), comes
\* before the time of the day.
Phases ==
  {"KILL_SWITCH"} \cup
  (IF kill THEN {}
   ELSE CASE clock = "eod" -> {"EOD_FLATTEN"}
          [] clock = "cutoff" -> {"ENTRY_CUTOFF"}
          [] OTHER -> {"MONITORING"})

EntryCancels == IF Live(seen.order) THEN <<Req("CANCEL_ORDER", 0)>> ELSE <<>>

\* The open OCO.  Two are listed only if the lists lag (OneLiveOco): the code then
\* cancels up to max_open_positions of them, the model, which has no run with both
\* safety plans and lag, none (SafetyGate).
OcoCancels ==
  IF seen.open = {} THEN <<>>
  ELSE <<Req("CANCEL_ORDER", (CHOOSE o \in seen.open : TRUE).plan)>>

\* Mutant: a position of zero is closed as well.
ClosesZero == <<Req("CLOSE", seen.position)>>

Closes == IF seen.position > 0 THEN <<Req("CLOSE", seen.position)>> ELSE <<>>

\* Mutant: flattening leaves the entry order alone.
ActionsForPhaseKeepEntry(phase) ==
  CASE phase = "MONITORING" -> <<>>
    [] phase = "ENTRY_CUTOFF" -> EntryCancels
    [] OTHER -> OcoCancels \o Closes

ActionsForPhase(phase) ==
  CASE phase = "MONITORING" -> <<>>
    [] phase = "ENTRY_CUTOFF" -> EntryCancels
    [] OTHER -> EntryCancels \o OcoCancels \o Closes

\* missing_protective_oco_reasons is empty.
Protected ==
  seen.position > 0 =>
    /\ plans # <<>>
    /\ \E o \in seen.open : o.plan = Len(plans) /\ Covers(o)

\* Mutant: the closes of a plan run right after its cancels.
AllParts(q) == q

\* execute_safety_plan: a plan with a cancel runs up to its first close.
ExecutablePart(q) ==
  IF \E i \in DOMAIN q : q[i].kind = "CANCEL_ORDER"
  THEN SubSeq(q, 1, Min({Len(q) + 1} \cup {i \in DOMAIN q : q[i].kind = "CLOSE"}) - 1)
  ELSE q

\* Mutant: any safety action acknowledged today blocks the next plan.
RepeatedAny(q) == q # <<>> /\ acked # {}

\* repeated_acknowledged_safety_action_reasons
Repeated(q) == \E i \in DOMAIN q : q[i] \in acked

SafetyGate(phase) ==
  /\ Reconciled /\ PortfolioComplete
  /\ phase \in {"MONITORING", "ENTRY_CUTOFF"} => Protected
  /\ Cardinality(seen.open) <= 1

\* The plan is saved, a kill plan with the latch, before it is run or refused.
PlanSafety ==
  /\ pc = "decide" /\ op = "safety"
  /\ \E phase \in Phases :
       LET q == ActionsForPhase(phase)
       IN /\ SafetyGate(phase)
          /\ kill' = (kill \/ phase = "KILL_SWITCH")
          /\ IF q = <<>> \/ Repeated(q) THEN EndOperation
             ELSE /\ queue' = ExecutablePart(q)
                  /\ pc' = "run"
                  /\ seen' = Unread
                  /\ UNCHANGED op
  /\ UNCHANGED <<brokerVars, clock, plans, submits, cancels, acked, known, outstanding>>

\* The snapshot is not good enough to plan on.
SafetyBlocked ==
  /\ pc = "decide" /\ op = "safety"
  /\ \E phase \in Phases : ~SafetyGate(phase)
  /\ EndOperation
  /\ UNCHANGED <<brokerVars, clock, ledgerVars, outstanding>>

-----------------------------------------------------------------------------
(* Running a mutation *)

Log(r) == CASE r.kind = "SUBMIT_OCO" -> submits[r.target]
            [] r.kind = "CANCEL_OCO" -> cancels[r.target]
            [] OTHER -> "NONE"      \* a safety plan's mutations have new keys

\* The latest event of the mutation becomes e.
Record(r, e) ==
  /\ submits' = IF r.kind = "SUBMIT_OCO" THEN [submits EXCEPT ![r.target] = e] ELSE submits
  /\ cancels' = IF r.kind = "CANCEL_OCO" THEN [cancels EXCEPT ![r.target] = e] ELSE cancels
  /\ acked' = IF r.kind \in {"CANCEL_ORDER", "CLOSE"} /\ e = "ACKNOWLEDGED"
              THEN acked \cup {r} ELSE acked

\* Only an acknowledged action lets a plan go on.
GoOn(q) == IF q = <<>> THEN EndOperation ELSE queue' = q /\ UNCHANGED <<pc, op, seen>>

MayRun(r) == Log(r) \in {"NONE", "RECOVERED_ABSENT"}

Acknowledge ==
  LET r == Head(queue)
  IN /\ pc = "run"
     /\ MayRun(r) /\ Accepts(r)
     /\ Effect(r)
     /\ Record(r, "ACKNOWLEDGED")
     /\ GoOn(Tail(queue))
     /\ UNCHANGED <<position, clock, plans, kill, known, outstanding>>

Reject ==
  LET r == Head(queue)
  IN /\ pc = "run"
     /\ MayRun(r) /\ ("reject" \in Behaviours \/ ~Accepts(r))
     /\ Record(r, "REJECTED")
     /\ EndOperation
     /\ UNCHANGED <<brokerVars, clock, plans, kill, known, outstanding>>

\* The log already has the outcome of this mutation.
AlreadyRun ==
  LET r == Head(queue)
  IN /\ pc = "run"
     /\ ~MayRun(r)
     /\ GoOn(IF Log(r) = "ACKNOWLEDGED" THEN Tail(queue) ELSE <<>>)
     /\ UNCHANGED <<brokerVars, clock, ledgerVars, outstanding>>

\* No answer, or the process dies with the request on its way: the outcome is
\* unknown.  In the second case the log ends with ATTEMPTED.
LoseAnswer(state) ==
  LET r == Head(queue)
  IN /\ pc = "run"
     /\ MayRun(r)
     /\ outstanding' = [state |-> state, request |-> r, sent |-> TRUE, done |-> FALSE]
     /\ EndOperation
     /\ UNCHANGED <<brokerVars, clock, ledgerVars>>

Ambiguous == "ambiguous" \in Behaviours /\ LoseAnswer("AMBIGUOUS")
CrashSending == "crash" \in Behaviours /\ LoseAnswer("ATTEMPTED")

\* The process dies elsewhere: what it had read and queued is lost.
Crash ==
  /\ "crash" \in Behaviours
  /\ pc # "idle"
  /\ EndOperation
  /\ UNCHANGED <<brokerVars, clock, ledgerVars, outstanding>>

\* External: the request of an unanswered mutation arrives ...
Arrive ==
  /\ outstanding # None
  /\ outstanding.sent /\ Accepts(outstanding.request)
  /\ Effect(outstanding.request)
  /\ outstanding' = [outstanding EXCEPT !.sent = FALSE, !.done = TRUE]
  /\ UNCHANGED <<position, clock, ledgerVars, procVars>>

\* ... or never does.
Vanish ==
  /\ outstanding # None
  /\ outstanding.sent
  /\ outstanding' = [outstanding EXCEPT !.sent = FALSE]
  /\ UNCHANGED <<brokerVars, clock, ledgerVars, procVars>>

\* What the broker shows of an unanswered request that can no longer arrive: the
\* OCO; a cancel's target that is no longer live, whoever did it; a close order
\* that is open or filled.
Found(r) ==
  \/ r.kind = "SUBMIT_OCO" /\ outstanding.done
  \/ r.kind = "CLOSE" /\ outstanding.done /\ (closing > 0 \/ position = 0)
  \/ /\ r.kind \in {"CANCEL_ORDER", "CANCEL_OCO"}
     /\ r.target = 0 => entry.status # "live"
     /\ \A i \in DOMAIN ocos : ocos[i].plan = r.target => ocos[i].status # "live"

\* No trace of it: for a close, no open order and the position it was to close.
Absent(r) ==
  CASE r.kind = "SUBMIT_OCO" -> ~outstanding.done
    [] r.kind = "CLOSE" -> closing = 0 /\ position = r.target
    [] OTHER -> ~Found(r)

\* Recovery, as PaperMutation shows it to be: after a checkpoint, true, and only
\* for a request that can no longer arrive.  Nothing is recovered from a log that ends with ATTEMPTED.
Recover ==
  LET r == outstanding.request
  IN /\ pc = "idle" /\ ~Unexplained
     /\ outstanding # None
     /\ outstanding.state = "AMBIGUOUS" /\ ~outstanding.sent
     /\ \/ Found(r) /\ Record(r, "ACKNOWLEDGED")
        \/ Absent(r) /\ Record(r, "RECOVERED_ABSENT")
     /\ outstanding' = None
     /\ UNCHANGED <<brokerVars, clock, plans, kill, known, procVars>>

-----------------------------------------------------------------------------
Market ==
  \/ FillEntry \/ EndEntry \/ FillClose \/ EndClose \/ AdvanceClock
  \/ \E i \in DOMAIN ocos : FillOco(i) \/ EndOco(i) \/ ShowOco(i)
  \/ Arrive \/ Vanish

Operation ==
  \/ CheckpointRefused \/ ReadHistory \/ ReadInventory \/ ReadPositions
  \/ PlanOco \/ PlanResizeCancel \/ NoProtection \/ PlanSafety \/ SafetyBlocked
  \/ Acknowledge \/ Reject \/ AlreadyRun \/ Ambiguous \/ Recover

Next ==
  \/ Market \/ Operation
  \/ \E o \in {"protect", "safety"} : ReadEntry(o)
  \/ GiveUp \/ Crash \/ CrashSending

Spec == Init /\ [][Next]_vars

-----------------------------------------------------------------------------
(* Properties *)

\* Every variable has its type.
TypeOK ==
  /\ entry \in EntryOrder
  /\ ocos \in Seq(Oco) /\ Len(ocos) <= MaxPlans
  /\ closing \in 0..Quantity
  /\ position \in 0..Quantity
  /\ {closes, kill} \subseteq BOOLEAN
  /\ clock \in {"open", "cutoff", "eod"}
  /\ plans \in Seq(Plan) /\ Len(plans) <= MaxPlans
  /\ submits \in [1..MaxPlans -> Outcome]
  /\ cancels \in [1..MaxPlans -> Outcome]
  /\ acked \subseteq Request
  /\ known \in EntryOrder
  /\ outstanding \in Outstanding \cup {None}
  /\ pc \in {"idle", "history", "inventory", "positions", "decide", "run"}
  /\ op \in {"protect", "safety"}
  /\ queue \in Seq(Request)

\* What is working at the broker to sell, OCOs and close orders together, never
\* exceeds the shares held: no interleaving of fills, resizes, flattening, late
\* deliveries and restarts turns the long position into a short one.
NoOversell ==
  MapThenSumSet(LAMBDA i : ocos[i].left, LiveOcos) + closing <= position

\* A replacement OCO is submitted only when its predecessor is terminal: there are
\* never two OCOs that can still fill, whatever the broker does about a cancel.
OneLiveOco == Cardinality(LiveOcos) <= 1

\* A close order works alone: nothing can buy again or sell a second time while
\* the position is being flattened.
CloseStandsAlone == closing > 0 => LiveOcos = {} /\ ~Live(entry)

\* Once a kill plan is in the ledger no protective OCO reaches the broker for the
\* rest of the day, restarts and late deliveries included.
NoOcoAfterKill == [][kill => Len(ocos') <= Len(ocos)]_vars

\* An OCO the order lists do not show yet blocks further submissions: the test
\* test_prior_ack_without_current_oco_history_is_fail_closed expects a block.
MissingHistoryBlocks ==
  [][Len(ocos') > Len(ocos) => \A i \in DOMAIN ocos : ocos[i].shown]_vars

\* The OCO that execute_protection submits for a position without one carries a
\* client order id the broker has not taken, however often earlier ones expired,
\* filled, were canceled, refused or answered late: it is refused as a duplicate
\* only if it is itself at the broker and the lists do not show it yet
\* (plan_protective_oco_exit, paper_protective_exit.py:227).
ReplacementIsNew ==
  (/\ pc = "decide" /\ op = "protect"
   /\ ProtectGate /\ LifecycleClear
   /\ seen.open = {} /\ seen.position > 0
   /\ IdTaken(DesiredPlan)) =>
    \E i \in DOMAIN ocos : /\ plans[ocos[i].plan] = DesiredPlan
                          /\ \A o \in seen.history : o.plan # ocos[i].plan

\* Once a flattening plan finds only the position, the guard against repeated
\* actions lets the close run, whichever cancels of the same day the broker has
\* acknowledged before, in this process or one that died
\* (repeated_acknowledged_safety_action_reasons, paper_safety_mutation_guard.py:19).
GuardLetsClose ==
  (/\ pc = "decide" /\ op = "safety"
   /\ seen.open = {} /\ ~Live(seen.order) /\ seen.position > 0) =>
    \A phase \in Phases \cap {"KILL_SWITCH", "EOD_FLATTEN"} :
      SafetyGate(phase) => ~Repeated(ActionsForPhase(phase))

\* Nothing works at the broker.
Quiet == LiveOcos = {} /\ ~Live(entry) /\ closing = 0

\* A latched kill switch plans again, and closes, the position that is left once
\* nothing works at the broker any more: "the kill plan of the day ... makes the
\* kill plan for the remaining position again"
\* (docs/checkpoints/2026-07-15-paper-safety-action-ledger-ko.md).
KillReplans == (kill /\ Quiet /\ position > 0) ~> (closing > 0 \/ position = 0)

\* More than any caller does: execute_safety is called again and again and what it
\* tries often enough gets through, the broker finishes cancels and shows its
\* orders, a request arrives or is lost.  drive_us_day_session stops after eight
\* cycles or at the first unresolved answer, and the cutoff and EOD calls consume
\* an arm each.  The specification is there to refute KillReplans: what fails under
\* it fails however few the calls are.
FairSafetySpec ==
  /\ Spec
  /\ SF_vars(ReadEntry("safety")) /\ SF_vars(op = "safety" /\ ReadHistory)
  /\ SF_vars(op = "safety" /\ ReadInventory) /\ SF_vars(op = "safety" /\ ReadPositions)
  /\ SF_vars(PlanSafety) /\ SF_vars(op = "safety" /\ Acknowledge)
  /\ WF_vars(Operation) /\ WF_vars(Recover) /\ WF_vars(Vanish)
  /\ WF_vars(\E i \in DOMAIN ocos : EndOco(i)) /\ WF_vars(\E i \in DOMAIN ocos : ShowOco(i))
=============================================================================
