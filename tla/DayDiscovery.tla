---------------------------- MODULE DayDiscovery ----------------------------
(***************************************************************************)
(* Day discovery: research cycles that pay for model calls out of a shared *)
(* search budget, and that can be resumed after a crash from the events in *)
(* the experiment ledger (day_discovery_state_machine.py,                  *)
(* day_discovery_effect_state.py, day_discovery_ledger.py).                *)
(*                                                                         *)
(* All cycles of the model draw on one budget account (one market and one  *)
(* budget epoch) and have different cursors.  A cycle drafts up to         *)
(* MaxDrafts branches.  The ledger is durable; a run of a cycle (pc, seen, *)
(* ctx) is volatile.  Every ledger.writer() block is one transaction, so   *)
(* one action; what happens between two blocks (the model call, the        *)
(* publication of an artifact, the sandbox) is an action of its own, and a *)
(* run may stop between any two.                                           *)
(***************************************************************************)
EXTENDS Integers, FiniteSets

CONSTANTS
  Cycles,     \* the discovery cycles of one budget account
  Bridged,    \* those submitted by the Day agent: they run without the heavy
              \* empirical lease and their proposal is already typed
  Limit,      \* debit_limit of the account
  MaxDrafts,  \* DayDiscoveryLoopConfig.max_drafts
  Demands,    \* numbers of parameter combinations a proposal may ask for
  Flaws,      \* what may be wrong with a proposal, see FlawKinds
  MaxStops    \* bound: how often runs are cut short

FlawKinds == {"none", "malformed", "early", "late", "time"}

ASSUME CyclesAssumption == IsFiniteSet(Cycles)
ASSUME BridgedAssumption == Bridged \subseteq Cycles
ASSUME LimitAssumption == Limit \in Nat \ {0}
ASSUME DraftsAssumption == MaxDrafts \in 1..3
ASSUME DemandsAssumption == Demands \subseteq Nat \ {0}
ASSUME FlawsAssumption == Flaws \subseteq FlawKinds
ASSUME StopsAssumption == MaxStops \in Nat

VARIABLES
  event,      \* kind of the cycle's last ledger event, "none" before the first
  done,       \* number of branch_finalized events
  accepted,   \* some branch_finalized event has accepted = true
  left,       \* _cycle_local_remaining_budget after the last finalized branch
  prompt,     \* budget shown in the prompt the reservation commits to
  reply,      \* proposal in the call_response_recorded event
  prepared,   \* the branch_prepared event of the current branch
  paid,       \* debits of a branch: call_reservation plus cartesian_top_up
  used,       \* SUM(amount) over the debits of the account
  final,      \* remaining_budget in the cycle_finalized event, -1 before it
  receipt,    \* the receipt file is published
  artifacts,  \* branches whose artifact is in the artifact store
  capsules,   \* branches whose science, capsule and trial are registered
  pc,         \* where the cycle's run is, "idle" when there is none
  seen,       \* remaining_budget of the state the run last read
  ctx,        \* remaining_budget in the run's bounded prompt view
  calls,      \* how often the model was invoked for a branch
  publishes,  \* how often an artifact publication was attempted
  preflights, \* how often the sandbox ran
  stops       \* runs cut short so far

ledger == <<event, done, accepted, left, prompt, reply, prepared, paid, used, final>>
files == <<receipt, artifacts>>
run == <<pc, seen, ctx>>
effects == <<calls, publishes, preflights>>
vars == <<ledger, files, capsules, run, effects, stops>>

Branches == 0..(MaxDrafts - 1)
Replies == [demand : Demands, flaw : Flaws]
NoReply == [demand |-> 0, flaw |-> "none"]
NoPrepared == [reason |-> "none", debit |-> 0, before |-> 0]

EventKinds ==
  {"none", "cycle_opened", "call_reserved", "call_response_recorded",
   "branch_prepared", "resolution_intent", "artifact_verified",
   "artifact_failed", "artifact_outcome_unknown", "preflight_intent",
   "preflight_verified", "preflight_failed", "preflight_outcome_unknown",
   "branch_finalized", "cycle_finalized"}

(* The event kinds that may follow an event. *)
AllowedTransitions ==
  [k \in EventKinds |->
     CASE k = "none" -> {"cycle_opened"}
       [] k = "cycle_opened" -> {"call_reserved"}
       [] k = "call_reserved" -> {"call_response_recorded", "branch_finalized"}
       [] k = "call_response_recorded" -> {"branch_prepared", "branch_finalized"}
       [] k = "branch_prepared" -> {"resolution_intent", "branch_finalized"}
       [] k = "resolution_intent" ->
            {"artifact_verified", "artifact_failed", "artifact_outcome_unknown"}
       [] k = "artifact_verified" -> {"preflight_intent"}
       [] k = "preflight_intent" ->
            {"preflight_verified", "preflight_failed", "preflight_outcome_unknown"}
       [] k = "branch_finalized" -> {"call_reserved", "cycle_finalized"}
       [] k = "cycle_finalized" -> {}
       [] OTHER -> {"branch_finalized"}]

Remaining == Limit - used

(* The branch a cycle is working on: _current_branch. *)
Here(c) == <<c, done[c]>>

Init ==
  /\ event = [c \in Cycles |-> "none"]
  /\ done = [c \in Cycles |-> 0]
  /\ accepted = [c \in Cycles |-> FALSE]
  /\ left = [c \in Cycles |-> 0]
  /\ prompt = [c \in Cycles |-> 0]
  /\ reply = [c \in Cycles |-> NoReply]
  /\ prepared = [c \in Cycles |-> NoPrepared]
  /\ paid = [k \in Cycles \X Branches |-> 0]
  /\ used = 0
  /\ final = [c \in Cycles |-> -1]
  /\ receipt = [c \in Cycles |-> FALSE]
  /\ artifacts = {}
  /\ capsules = {}
  /\ pc = [c \in Cycles |-> "idle"]
  /\ seen = [c \in Cycles |-> 0]
  /\ ctx = [c \in Cycles |-> 0]
  /\ calls = [k \in Cycles \X Branches |-> 0]
  /\ publishes = [k \in Cycles \X Branches |-> 0]
  /\ preflights = [k \in Cycles \X Branches |-> 0]
  /\ stops = 0

(***************************************************************************)
(* Helpers                                                                 *)
(***************************************************************************)

(* The run goes on at another place. *)
GoTo(c, place) == pc' = [pc EXCEPT ![c] = place]

(* The run returns, raises or dies: the flocks are released with it. *)
Leave(c) ==
  /\ pc' = [pc EXCEPT ![c] = "idle"]
  /\ seen' = [seen EXCEPT ![c] = 0]
  /\ ctx' = [ctx EXCEPT ![c] = 0]

(* One event is added to the cycle's chain. *)
Append(c, kind) ==
  /\ kind \in AllowedTransitions[event[c]]
  /\ event' = [event EXCEPT ![c] = kind]

(* A branch ends.  lft is what the final projection will read back. *)
EndBranch(c, acc, lft) ==
  /\ Append(c, "branch_finalized")
  /\ done' = [done EXCEPT ![c] = @ + 1]
  /\ accepted' = [accepted EXCEPT ![c] = @ \/ acc]
  /\ left' = [left EXCEPT ![c] = lft]
  /\ reply' = [reply EXCEPT ![c] = NoReply]
  /\ prepared' = [prepared EXCEPT ![c] = NoPrepared]

(* No further branch is drafted. *)
Exhausted(c) == accepted[c] \/ done[c] >= MaxDrafts \/ seen[c] = 0

BetweenBranches(c) == event[c] \in {"cycle_opened", "branch_finalized"}

(***************************************************************************)
(* A run of a cycle begins and reads the ledger                            *)
(***************************************************************************)

(* A caller enters DayDiscoveryLoop.run.  All callers but the Day agent's  *)
(* bridge hold the heavy empirical lease meanwhile; runs of the same cycle *)
(* exclude one another by the cycle's lock file.                           *)
Start(c) ==
  /\ pc[c] = "idle"
  /\ c \in Bridged \/ \A d \in Cycles \ Bridged : pc[d] = "idle"
  /\ GoTo(c, "load")
  /\ UNCHANGED <<ledger, files, capsules, seen, ctx, effects, stops>>

Open(c) ==
  /\ pc[c] = "load"
  /\ event[c] = "none"
  /\ Append(c, "cycle_opened")
  /\ UNCHANGED <<done, accepted, left, prompt, reply, prepared, paid, used, final,
                 files, capsules, run, effects, stops>>

Load(c) ==
  /\ pc[c] = "load"
  /\ event[c] # "none"
  /\ seen' = [seen EXCEPT ![c] = Remaining]
  /\ ctx' = [ctx EXCEPT ![c] = Remaining]
  /\ GoTo(c, IF event[c] = "cycle_finalized" THEN "project" ELSE "step")
  /\ UNCHANGED <<ledger, files, capsules, effects, stops>>

(* After every write the run reads the state again. *)
Reload(c) ==
  /\ pc[c] \in {"read", "reserved"}
  /\ seen' = [seen EXCEPT ![c] = Remaining]
  /\ GoTo(c, IF pc[c] = "reserved" THEN "invoke" ELSE "step")
  /\ UNCHANGED <<ledger, files, capsules, ctx, effects, stops>>

(* The process dies, or a write finds the writer lock taken. *)
Stop(c) ==
  /\ pc[c] # "idle"
  /\ stops < MaxStops
  /\ stops' = stops + 1
  /\ Leave(c)
  /\ UNCHANGED <<ledger, files, capsules, effects>>

(***************************************************************************)
(* The model call                                                          *)
(***************************************************************************)

\* Mutant: the reservation trusts the budget read before the transaction.
ReserveCallUnchecked(c) ==
  /\ pc[c] = "step"
  /\ BetweenBranches(c)
  /\ ~Exhausted(c)
  /\ Append(c, "call_reserved")
  /\ paid' = [paid EXCEPT ![Here(c)] = 1]
  /\ used' = used + 1
  /\ prompt' = [prompt EXCEPT ![c] = ctx[c]]
  /\ GoTo(c, "reserved")
  /\ UNCHANGED <<done, accepted, left, reply, prepared, final, files, capsules,
                 seen, ctx, effects, stops>>

(* One unit is debited and the call reserved in one transaction. *)
ReserveCall(c) ==
  /\ pc[c] = "step"
  /\ BetweenBranches(c)
  /\ ~Exhausted(c)
  /\ used + 1 <= Limit
  /\ Append(c, "call_reserved")
  /\ paid' = [paid EXCEPT ![Here(c)] = 1]
  /\ used' = used + 1
  /\ prompt' = [prompt EXCEPT ![c] = ctx[c]]
  /\ GoTo(c, "reserved")
  /\ UNCHANGED <<done, accepted, left, reply, prepared, final, files, capsules,
                 seen, ctx, effects, stops>>

(* Another cycle took the last unit since the state was read. *)
ReserveRefused(c) ==
  /\ pc[c] = "step"
  /\ BetweenBranches(c)
  /\ ~Exhausted(c)
  /\ used + 1 > Limit
  /\ Leave(c)
  /\ UNCHANGED <<ledger, files, capsules, effects, stops>>

(* The model is asked: it answers, or the client raises. *)
InvokeModel(c) ==
  /\ pc[c] = "invoke"
  /\ calls' = [calls EXCEPT ![Here(c)] = @ + 1]
  /\ \/ GoTo(c, "respond")
     \/ GoTo(c, "call_failed")
  /\ UNCHANGED <<ledger, files, capsules, seen, ctx, publishes, preflights, stops>>

RecordResponse(c) ==
  /\ pc[c] = "respond"
  /\ Append(c, "call_response_recorded")
  /\ \E r \in Replies : reply' = [reply EXCEPT ![c] = r]
  /\ GoTo(c, "read")
  /\ UNCHANGED <<done, accepted, left, prompt, prepared, paid, used, final,
                 files, capsules, seen, ctx, effects, stops>>

\* Mutant: an orphaned reservation is used for another call.
CallAgain(c) ==
  /\ \/ pc[c] = "call_failed"
     \/ pc[c] = "step" /\ event[c] = "call_reserved"
  /\ GoTo(c, "invoke")
  /\ UNCHANGED <<ledger, files, capsules, seen, ctx, effects, stops>>

(* The call raised, or an earlier run died after the reservation: the      *)
(* outcome is unknown and the call is not repeated.                        *)
CallOutcomeUnknown(c) ==
  /\ \/ pc[c] = "call_failed"
     \/ pc[c] = "step" /\ event[c] = "call_reserved"
  /\ EndBranch(c, FALSE, seen[c])
  /\ GoTo(c, "read")
  /\ UNCHANGED <<prompt, paid, used, final, files, capsules, seen, ctx, effects, stops>>

(***************************************************************************)
(* The recorded response is criticised and the branch prepared             *)
(***************************************************************************)

(* A structured generator plans the call again and compares the prompts;   *)
(* the prompt of a later run shows another remaining budget.               *)
ResponseMalformed(c) ==
  \/ reply[c].flaw = "malformed"
  \/ c \notin Bridged /\ ctx[c] # prompt[c]

(* _critic_reason: "early" flaws are found before the demand is compared   *)
(* with the budget, "late" ones after it; a proposal that comes too early  *)
(* or too late gets its reason last and whatever the critic said.          *)
CriticReason(r, available) ==
  CASE r.flaw = "time" -> "time"
    [] r.flaw = "early" -> "contract_invalid"
    [] r.demand > available -> "budget_exhausted"
    [] r.flaw = "late" -> "rejected"
    [] OTHER -> "none"

PlannedDebit(r, reason) == IF reason = "budget_exhausted" THEN 1 ELSE r.demand

MalformedResponse(c) ==
  /\ pc[c] = "step"
  /\ event[c] = "call_response_recorded"
  /\ ResponseMalformed(c)
  /\ EndBranch(c, FALSE, seen[c])
  /\ GoTo(c, "read")
  /\ UNCHANGED <<prompt, paid, used, final, files, capsules, seen, ctx, effects, stops>>

\* Mutant: the total written back is computed from the state read before.
PrepareBranchStaleTotal(c) ==
  LET available == seen[c] + 1
      reason == CriticReason(reply[c], available)
      debit == PlannedDebit(reply[c], reason) IN
  /\ pc[c] = "step"
  /\ event[c] = "call_response_recorded"
  /\ ~ResponseMalformed(c)
  /\ debit <= available
  /\ Append(c, "branch_prepared")
  /\ prepared' = [prepared EXCEPT ![c] =
                    [reason |-> reason, debit |-> debit, before |-> available]]
  /\ paid' = [paid EXCEPT ![Here(c)] = @ + debit - 1]
  /\ used' = (Limit - seen[c]) + debit - 1
  /\ GoTo(c, "read")
  /\ UNCHANGED <<done, accepted, left, prompt, reply, final, files, capsules,
                 seen, ctx, effects, stops>>

(* The demand beyond the unit already paid is debited with the event. *)
PrepareBranch(c) ==
  LET available == seen[c] + 1
      reason == CriticReason(reply[c], available)
      debit == PlannedDebit(reply[c], reason) IN
  /\ pc[c] = "step"
  /\ event[c] = "call_response_recorded"
  /\ ~ResponseMalformed(c)
  /\ debit <= available
  /\ used + debit - 1 <= Limit
  /\ Append(c, "branch_prepared")
  /\ prepared' = [prepared EXCEPT ![c] =
                    [reason |-> reason, debit |-> debit, before |-> available]]
  /\ paid' = [paid EXCEPT ![Here(c)] = @ + debit - 1]
  /\ used' = used + debit - 1
  /\ GoTo(c, "read")
  /\ UNCHANGED <<done, accepted, left, prompt, reply, final, files, capsules,
                 seen, ctx, effects, stops>>

(* The prepared branch would cost more than was available when the state   *)
(* was read (its model refuses it) or than is left now (the ledger does).  *)
PrepareRefused(c) ==
  LET available == seen[c] + 1
      debit == PlannedDebit(reply[c], CriticReason(reply[c], available)) IN
  /\ pc[c] = "step"
  /\ event[c] = "call_response_recorded"
  /\ ~ResponseMalformed(c)
  /\ debit > available \/ used + debit - 1 > Limit
  /\ Leave(c)
  /\ UNCHANGED <<ledger, files, capsules, effects, stops>>

(***************************************************************************)
(* The artifact                                                            *)
(***************************************************************************)

\* Mutant: the projection forgets the top-up.
PreparedLeftBeforeTopUp(c) == prepared[c].before - 1

(* What the final projection computes for a prepared branch. *)
PreparedLeft(c) == prepared[c].before - paid[Here(c)]

TerminalBranch(c) ==
  /\ pc[c] = "step"
  /\ event[c] = "branch_prepared"
  /\ prepared[c].reason # "none"
  /\ EndBranch(c, FALSE, PreparedLeft(c))
  /\ GoTo(c, "read")
  /\ UNCHANGED <<prompt, paid, used, final, files, capsules, seen, ctx, effects, stops>>

StartResolution(c) ==
  /\ pc[c] = "step"
  /\ event[c] = "branch_prepared"
  /\ prepared[c].reason = "none"
  /\ Append(c, "resolution_intent")
  /\ GoTo(c, "publish")
  /\ UNCHANGED <<done, accepted, left, prompt, reply, prepared, paid, used, final,
                 files, capsules, seen, ctx, effects, stops>>

(* Publication writes two files; it may fail with or without them. *)
PublishArtifact(c) ==
  /\ pc[c] = "publish"
  /\ publishes' = [publishes EXCEPT ![Here(c)] = @ + 1]
  /\ \/ artifacts' = artifacts \cup {Here(c)} /\ GoTo(c, "published")
     \/ artifacts' \in {artifacts, artifacts \cup {Here(c)}} /\ GoTo(c, "unpublished")
  /\ UNCHANGED <<ledger, receipt, capsules, seen, ctx, calls, preflights, stops>>

RecordArtifact(c) ==
  /\ pc[c] \in {"published", "unpublished"}
  /\ Append(c, IF pc[c] = "published" THEN "artifact_verified" ELSE "artifact_failed")
  /\ GoTo(c, "read")
  /\ UNCHANGED <<done, accepted, left, prompt, reply, prepared, paid, used, final,
                 files, capsules, seen, ctx, effects, stops>>

\* Mutant: a later run that finds the intent publishes the artifact again.
RecoverByPublishing(c) ==
  /\ pc[c] = "step"
  /\ event[c] = "resolution_intent"
  /\ GoTo(c, "publish")
  /\ UNCHANGED <<ledger, files, capsules, seen, ctx, effects, stops>>

(* A later run finds the intent: it looks for the artifact and never       *)
(* publishes it.                                                           *)
RecoverArtifact(c) ==
  /\ pc[c] = "step"
  /\ event[c] = "resolution_intent"
  /\ Append(c, IF Here(c) \in artifacts THEN "artifact_verified"
               ELSE "artifact_outcome_unknown")
  /\ GoTo(c, "read")
  /\ UNCHANGED <<done, accepted, left, prompt, reply, prepared, paid, used, final,
                 files, capsules, seen, ctx, effects, stops>>

(***************************************************************************)
(* The preflight in the sandbox                                            *)
(***************************************************************************)

StartPreflight(c) ==
  /\ pc[c] = "step"
  /\ event[c] = "artifact_verified"
  /\ Append(c, "preflight_intent")
  /\ GoTo(c, "preflight")
  /\ UNCHANGED <<done, accepted, left, prompt, reply, prepared, paid, used, final,
                 files, capsules, seen, ctx, effects, stops>>

RunPreflight(c) ==
  /\ pc[c] = "preflight"
  /\ preflights' = [preflights EXCEPT ![Here(c)] = @ + 1]
  /\ \/ GoTo(c, "passed")
     \/ GoTo(c, "failed")
  /\ UNCHANGED <<ledger, files, capsules, seen, ctx, calls, publishes, stops>>

RecordPreflight(c) ==
  /\ pc[c] \in {"passed", "failed"}
  /\ Append(c, IF pc[c] = "passed" THEN "preflight_verified" ELSE "preflight_failed")
  /\ GoTo(c, "read")
  /\ UNCHANGED <<done, accepted, left, prompt, reply, prepared, paid, used, final,
                 files, capsules, seen, ctx, effects, stops>>

\* Mutant: a later run that finds the intent raises.
AbandonPreflightRaises(c) ==
  /\ pc[c] = "step"
  /\ event[c] = "preflight_intent"
  /\ Leave(c)
  /\ UNCHANGED <<ledger, files, capsules, effects, stops>>

(* A later run finds the intent: the sandbox is not run again. *)
AbandonPreflight(c) ==
  /\ pc[c] = "step"
  /\ event[c] = "preflight_intent"
  /\ Append(c, "preflight_outcome_unknown")
  /\ GoTo(c, "read")
  /\ UNCHANGED <<done, accepted, left, prompt, reply, prepared, paid, used, final,
                 files, capsules, seen, ctx, effects, stops>>

\* Mutant: an unknown outcome of the sandbox counts as a pass.
FinalizeBranchOnUnknown(c) ==
  LET passed == event[c] \in {"preflight_verified", "preflight_outcome_unknown"} IN
  /\ pc[c] = "step"
  /\ event[c] \in {"artifact_failed", "artifact_outcome_unknown", "preflight_failed",
                   "preflight_outcome_unknown", "preflight_verified"}
  /\ capsules' = IF passed THEN capsules \cup {Here(c)} ELSE capsules
  /\ EndBranch(c, passed, PreparedLeft(c))
  /\ GoTo(c, "read")
  /\ UNCHANGED <<prompt, paid, used, final, files, seen, ctx, effects, stops>>

(* Science, capsule, trial and the end of the branch are one transaction. *)
FinalizeBranch(c) ==
  LET passed == event[c] = "preflight_verified" IN
  /\ pc[c] = "step"
  /\ event[c] \in {"artifact_failed", "artifact_outcome_unknown", "preflight_failed",
                   "preflight_outcome_unknown", "preflight_verified"}
  /\ capsules' = IF passed THEN capsules \cup {Here(c)} ELSE capsules
  /\ EndBranch(c, passed, PreparedLeft(c))
  /\ GoTo(c, "read")
  /\ UNCHANGED <<prompt, paid, used, final, files, seen, ctx, effects, stops>>

(***************************************************************************)
(* The end of the cycle                                                    *)
(***************************************************************************)

FinalizeCycle(c) ==
  /\ pc[c] = "step"
  /\ BetweenBranches(c)
  /\ Exhausted(c)
  /\ Append(c, "cycle_finalized")
  /\ final' = [final EXCEPT ![c] = seen[c]]
  /\ GoTo(c, "project")
  /\ UNCHANGED <<done, accepted, left, prompt, reply, prepared, paid, used,
                 files, capsules, seen, ctx, effects, stops>>

(* The budget was gone before the first reservation: cycle_finalized may   *)
(* not follow cycle_opened, so the ledger refuses the event.               *)
FinalizeRefused(c) ==
  /\ pc[c] = "step"
  /\ BetweenBranches(c)
  /\ Exhausted(c)
  /\ "cycle_finalized" \notin AllowedTransitions[event[c]]
  /\ Leave(c)
  /\ UNCHANGED <<ledger, files, capsules, effects, stops>>

(* What _project_final_cycle demands of a finalized cycle. *)
Projects(c) ==
  /\ final[c] = left[c]
  /\ accepted[c] => \E b \in Branches :
                      /\ b < done[c]
                      /\ <<c, b>> \in capsules
                      /\ <<c, b>> \in artifacts

ProjectCycle(c) ==
  /\ pc[c] = "project"
  /\ Projects(c)
  /\ receipt' = [receipt EXCEPT ![c] = TRUE]
  /\ Leave(c)
  /\ UNCHANGED <<ledger, artifacts, capsules, effects, stops>>

ProjectRefused(c) ==
  /\ pc[c] = "project"
  /\ ~Projects(c)
  /\ Leave(c)
  /\ UNCHANGED <<ledger, files, capsules, effects, stops>>

(***************************************************************************)
(* The specification                                                       *)
(***************************************************************************)

(* What a run does by itself. *)
Work(c) ==
  \/ Open(c) \/ Load(c) \/ Reload(c)
  \/ ReserveCall(c) \/ ReserveRefused(c) \/ InvokeModel(c) \/ RecordResponse(c)
  \/ CallOutcomeUnknown(c) \/ MalformedResponse(c) \/ PrepareBranch(c) \/ PrepareRefused(c)
  \/ TerminalBranch(c) \/ StartResolution(c) \/ PublishArtifact(c) \/ RecordArtifact(c)
  \/ RecoverArtifact(c) \/ StartPreflight(c) \/ RunPreflight(c) \/ RecordPreflight(c)
  \/ AbandonPreflight(c) \/ FinalizeBranch(c)
  \/ FinalizeCycle(c) \/ FinalizeRefused(c) \/ ProjectCycle(c) \/ ProjectRefused(c)

Next == \E c \in Cycles : Start(c) \/ Work(c) \/ Stop(c)

(* A run goes on until it leaves; callers come back to a cycle, and the    *)
(* heavy lease is free between two runs.                                   *)
Fairness == \A c \in Cycles : WF_vars(Work(c)) /\ SF_vars(Start(c))

Spec == Init /\ [][Next]_vars

FairSpec == Spec /\ Fairness

(***************************************************************************)
(* Properties                                                              *)
(***************************************************************************)

Places ==
  {"idle", "load", "step", "read", "reserved", "invoke", "respond", "call_failed",
   "publish", "published", "unpublished", "preflight", "passed", "failed", "project"}

(* The events of a branch between branch_prepared and branch_finalized. *)
PreparedEvents ==
  {"branch_prepared", "resolution_intent", "artifact_verified", "artifact_failed",
   "artifact_outcome_unknown", "preflight_intent", "preflight_verified",
   "preflight_failed", "preflight_outcome_unknown"}

(* Every variable of the ledger, the files and the runs has its type. *)
TypeOK ==
  /\ event \in [Cycles -> EventKinds]
  /\ done \in [Cycles -> 0..MaxDrafts]
  /\ accepted \in [Cycles -> BOOLEAN]
  /\ left \in [Cycles -> 0..Limit]
  /\ prompt \in [Cycles -> 0..Limit]
  /\ reply \in [Cycles -> Replies \cup {NoReply}]
  /\ prepared \in [Cycles -> [reason : {"none", "time", "contract_invalid",
                                        "budget_exhausted", "rejected"},
                              debit : Nat, before : 0..Limit]]
  /\ paid \in [Cycles \X Branches -> 0..Limit]
  /\ used \in 0..Limit
  /\ final \in [Cycles -> -1..Limit]
  /\ receipt \in [Cycles -> BOOLEAN]
  /\ artifacts \subseteq Cycles \X Branches
  /\ capsules \subseteq Cycles \X Branches
  /\ pc \in [Cycles -> Places]
  /\ seen \in [Cycles -> 0..Limit]
  /\ ctx \in [Cycles -> 0..Limit]
  /\ calls \in [Cycles \X Branches -> Nat]
  /\ publishes \in [Cycles \X Branches -> Nat]
  /\ preflights \in [Cycles \X Branches -> Nat]
  /\ stops \in 0..MaxStops

(* The ledger and the model client implement the prepaid-call contract:    *)
(* whatever runs die and whatever cycles interleave, no call is made that  *)
(* was not debited before (reserve_day_discovery_call), none is made twice *)
(* (run_authoritative_cycle ends an orphaned reservation instead), and the *)
(* account never spends more than its debit_limit.                         *)
Contract ==
  INSTANCE PrepaidCalls WITH Calls <- Cycles \X Branches, made <- calls

ContractSpec == Contract!Spec

(* The units debited, each counted once: their number is SUM(amount).      *)
Debits ==
  {u \in (Cycles \X Branches) \X (1..Limit) : u[2] <= paid[u[1]]}

(* What _prepared_from_state and _cycle_local_remaining_budget assert of   *)
(* the ledger holds at every moment a run may read it: a prepared branch   *)
(* records exactly the debits it caused, what it leaves of the budget is   *)
(* never negative, and the account's total is the sum of the debits of its *)
(* branches, whichever cycles wrote them in between.                       *)
AuditHolds ==
  /\ used = Cardinality(Debits)
  /\ \A c \in Cycles :
       /\ event[c] \in PreparedEvents =>
            /\ prepared[c].debit = paid[Here(c)]
            /\ PreparedLeft(c) >= 0
       /\ left[c] >= 0

(* A recorded proposal that is rejected for a reason found before the      *)
(* demand is compared with the budget, and that asks for more than is left.*)
Unpreparable(c) ==
  /\ event[c] = "call_response_recorded"
  /\ reply[c].flaw \in {"early", "time"}
  /\ reply[c].demand > Remaining + 1

(* Effects outside the ledger happen at most once per branch over all runs *)
(* of a cycle (recover_or_publish_artifact never republishes, a found      *)
(* preflight_intent never runs the sandbox again), and the sandbox only    *)
(* ever runs an artifact that is in the store.                             *)
EffectsOnce ==
  \A k \in Cycles \X Branches :
    /\ publishes[k] <= 1
    /\ preflights[k] <= 1
    /\ preflights[k] > 0 => k \in artifacts

(* A cycle is accepted only by its last branch, and that branch was called *)
(* for, published, run once in the sandbox and registered as a capsule, by *)
(* whichever runs did the work (finalize_authoritative_branch).  At most   *)
(* one branch of a cycle becomes a capsule.                                *)
AcceptedIsBacked ==
  /\ \A c \in Cycles :
       accepted[c] => /\ event[c] \in {"branch_finalized", "cycle_finalized"}
                      /\ <<c, done[c] - 1>> \in capsules
  /\ \A k \in capsules :
       /\ accepted[k[1]] /\ k[2] = done[k[1]] - 1
       /\ k \in artifacts
       /\ calls[k] = 1 /\ publishes[k] = 1 /\ preflights[k] = 1

(* A cycle that has reserved a call is finalized in the ledger in the end, *)
(* however often its runs were cut short and whatever other cycles of the  *)
(* account spent meanwhile, unless its response is one that every run reads*)
(* and none can prepare (Unpreparable, day_discovery_journal.py:139).      *)
PaidCyclesFinish ==
  \A c \in Cycles :
    event[c] = "call_reserved" ~> event[c] = "cycle_finalized" \/ Unpreparable(c)

(* A finalized cycle that had its account to itself can be projected, by   *)
(* whichever run comes to it: _project_final_cycle finds in cycle_finalized*)
(* the budget that its last branch left, and the capsule and the artifact  *)
(* of an accepted cycle are there.                                         *)
FinalizedProjects ==
  \A c \in Cycles :
    /\ event[c] = "cycle_finalized"
    /\ \A k \in Cycles \X Branches : k[1] # c => paid[k] = 0
    => Projects(c)
=============================================================================
