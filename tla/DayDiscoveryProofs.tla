------------------------- MODULE DayDiscoveryProofs -------------------------
(***************************************************************************)
(* Theorems about DayDiscovery, for any finite set of cycles, any budget   *)
(* and any number of stops: the ledger and the model client implement the  *)
(* prepaid-call contract, effects happen once, the audit always holds, an  *)
(* accepted cycle is backed, and a finalized one can be projected.         *)
(***************************************************************************)
EXTENDS DayDiscovery, FiniteSetTheorems, TLAPS

(* The events at which a cycle is in the middle of a branch.               *)
BranchEvents == PreparedEvents \cup {"call_reserved", "call_response_recorded"}

(* Nothing has happened for a branch.                                      *)
Fresh(k) ==
  /\ paid[k] = 0 /\ calls[k] = 0 /\ publishes[k] = 0 /\ preflights[k] = 0
  /\ k \notin artifacts /\ k \notin capsules

(* What holds of every branch: an effect has its cause.                    *)
BranchInv(k) ==
  /\ paid[k] <= used
  /\ calls[k] <= 1 /\ (calls[k] = 1 => paid[k] >= 1)
  /\ publishes[k] <= 1 /\ (k \in artifacts => publishes[k] = 1)
  /\ preflights[k] <= 1 /\ (preflights[k] = 1 => k \in artifacts)

(* Where a run may be, given the last event of its cycle.                  *)
PlaceInv(c) ==
  /\ pc[c] \in {"step", "read"} => event[c] \notin {"none", "cycle_finalized"}
  /\ pc[c] \in {"reserved", "invoke", "respond", "call_failed"} =>
       event[c] = "call_reserved"
  /\ pc[c] \in {"publish", "published", "unpublished"} => event[c] = "resolution_intent"
  /\ pc[c] \in {"preflight", "passed", "failed"} => event[c] = "preflight_intent"
  /\ pc[c] = "project" => event[c] = "cycle_finalized"

(* What has been done for a cycle's current branch, given its last event.  *)
ReservedInv(c) ==
  event[c] = "call_reserved" =>
    /\ paid[Here(c)] = 1 /\ publishes[Here(c)] = 0
    /\ pc[c] \in {"reserved", "invoke"} => calls[Here(c)] = 0
    /\ pc[c] = "respond" => calls[Here(c)] = 1

AnsweredInv(c) ==
  event[c] = "call_response_recorded" =>
    /\ paid[Here(c)] = 1 /\ calls[Here(c)] = 1 /\ publishes[Here(c)] = 0
    /\ reply[c] \in Replies

PreparedInv(c) ==
  event[c] \in PreparedEvents =>
    /\ paid[Here(c)] >= 1 /\ calls[Here(c)] = 1
    /\ prepared[c].debit = paid[Here(c)]
    /\ PreparedLeft(c) >= 0
    /\ event[c] = "branch_prepared" \/ pc[c] = "publish" => publishes[Here(c)] = 0
    /\ pc[c] = "published" => Here(c) \in artifacts
    /\ event[c] \in {"branch_prepared", "resolution_intent", "artifact_verified",
                     "artifact_failed", "artifact_outcome_unknown"} \/ pc[c] = "preflight"
         => preflights[Here(c)] = 0
    /\ event[c] \in {"artifact_verified", "preflight_intent", "preflight_verified"}
         => Here(c) \in artifacts
    /\ pc[c] = "passed" \/ event[c] = "preflight_verified" => preflights[Here(c)] = 1

(* The branches of a cycle that are not begun are fresh, and only the last *)
(* one of an accepted cycle is a capsule.                                  *)
ChainInv(c) ==
  /\ event[c] \in BranchEvents => done[c] < MaxDrafts /\ ~accepted[c]
  /\ event[c] \in {"none", "cycle_opened"} => done[c] = 0 /\ ~accepted[c]
  /\ \A b \in Branches :
       b > done[c] \/ (b = done[c] /\ event[c] \notin BranchEvents) => Fresh(<<c, b>>)
  /\ accepted[c] => done[c] > 0 /\ <<c, done[c] - 1>> \in capsules
  /\ \A b \in Branches : <<c, b>> \in capsules =>
       /\ accepted[c] /\ b = done[c] - 1
       /\ <<c, b>> \in artifacts
       /\ calls[<<c, b>>] = 1 /\ publishes[<<c, b>>] = 1 /\ preflights[<<c, b>>] = 1

(* No other cycle has spent anything.                                      *)
Alone(c) == \A k \in Cycles \X Branches : k[1] # c => paid[k] = 0

(* What a run has read of the budget is at least what is left of it, less  *)
(* than the whole when a branch is paid for, and exact when the cycle is   *)
(* alone; then the ledger keeps track of it from event to event.           *)
BudgetInv(c) ==
  /\ pc[c] \notin {"idle", "load"} => Remaining <= seen[c]
  /\ pc[c] = "step" /\ event[c] \in BranchEvents => seen[c] <= Limit - paid[Here(c)]
  /\ Alone(c) =>
       /\ pc[c] \in {"step", "invoke", "respond", "call_failed"} => seen[c] = Remaining
       /\ event[c] \in PreparedEvents => PreparedLeft(c) = Remaining
       /\ event[c] = "branch_finalized" => left[c] = Remaining
       /\ event[c] = "cycle_finalized" => final[c] = left[c]

CycleInv(c) ==
  /\ PlaceInv(c) /\ ReservedInv(c) /\ AnsweredInv(c) /\ PreparedInv(c)
  /\ ChainInv(c) /\ BudgetInv(c)

Inv ==
  /\ TypeOK
  /\ used = Cardinality(Debits)
  /\ \A k \in Cycles \X Branches : BranchInv(k)
  /\ \A c \in Cycles : CycleInv(c)
-----------------------------------------------------------------------------
(* A cycle in the middle of a branch has one to work on, and has paid.     *)
LEMMA CurrentBranch ==
  ASSUME Inv, NEW c \in Cycles, event[c] \in BranchEvents
  PROVE  /\ done[c] \in Branches /\ done[c] + 1 \in 0..MaxDrafts
         /\ Here(c) \in Cycles \X Branches
         /\ paid[Here(c)] \in 1..Limit
         /\ BranchInv(Here(c))
<1>1. done[c] \in 0..MaxDrafts /\ done[c] < MaxDrafts
  BY DEF Inv, TypeOK, CycleInv, ChainInv
<1>2. done[c] \in Branches /\ done[c] + 1 \in 0..MaxDrafts
  BY <1>1, DraftsAssumption DEF Branches
<1>3. Here(c) \in Cycles \X Branches
  BY <1>2 DEF Here
<1>4. paid[Here(c)] \in 0..Limit /\ BranchInv(Here(c))
  BY <1>3 DEF Inv, TypeOK
<1>5. paid[Here(c)] >= 1
  BY <1>4, LimitAssumption DEF Inv, CycleInv, ReservedInv, AnsweredInv, PreparedInv, BranchEvents
<1> QED BY <1>2, <1>3, <1>4, <1>5, LimitAssumption

(* What a branch leaves of the budget is a number the ledger can hold.     *)
LEMMA BudgetLeft ==
  ASSUME Inv, NEW c \in Cycles
  PROVE  /\ seen[c] \in 0..Limit /\ Remaining \in 0..Limit
         /\ pc[c] = "step" /\ event[c] \in BranchEvents => seen[c] + 1 \in 0..Limit
         /\ event[c] \in PreparedEvents => PreparedLeft(c) \in 0..Limit
<1>1. seen[c] \in 0..Limit /\ Remaining \in 0..Limit
  BY LimitAssumption DEF Inv, TypeOK, Remaining
<1>2. ASSUME pc[c] = "step", event[c] \in BranchEvents PROVE seen[c] + 1 \in 0..Limit
  BY <1>1, <1>2, CurrentBranch, LimitAssumption DEF Inv, CycleInv, BudgetInv
<1>3. ASSUME event[c] \in PreparedEvents PROVE PreparedLeft(c) \in 0..Limit
  <2>1. paid[Here(c)] \in 1..Limit
    BY <1>3, CurrentBranch DEF BranchEvents
  <2>2. prepared[c].before \in 0..Limit
    BY DEF Inv, TypeOK
  <2>3. PreparedLeft(c) >= 0
    BY <1>3 DEF Inv, CycleInv, PreparedInv
  <2> QED BY <2>1, <2>2, <2>3, LimitAssumption DEF PreparedLeft
<1> QED BY <1>1, <1>2, <1>3

(* The end of a branch keeps the types of what it writes.                  *)
LEMMA EndBranchType ==
  ASSUME Inv, NEW c \in Cycles, event[c] \in BranchEvents,
         NEW acc \in BOOLEAN, NEW lft \in 0..Limit, EndBranch(c, acc, lft)
  PROVE  /\ event' \in [Cycles -> EventKinds]
         /\ done' \in [Cycles -> 0..MaxDrafts]
         /\ accepted' \in [Cycles -> BOOLEAN]
         /\ left' \in [Cycles -> 0..Limit]
         /\ reply' \in [Cycles -> Replies \cup {NoReply}]
         /\ prepared' \in [Cycles -> [reason : {"none", "time", "contract_invalid",
                                               "budget_exhausted", "rejected"},
                                     debit : Nat, before : 0..Limit]]
<1>1. done[c] + 1 \in 0..MaxDrafts
  BY CurrentBranch
<1>2. NoPrepared \in [reason : {"none", "time", "contract_invalid", "budget_exhausted", "rejected"},
                      debit : Nat, before : 0..Limit]
  BY LimitAssumption DEF NoPrepared
<1> QED BY <1>1, <1>2 DEF Inv, TypeOK, EndBranch, Append, EventKinds

(* What PrepareBranch writes: the whole demand, of which one unit is paid. *)
LEMMA Prepares ==
  ASSUME Inv, NEW c \in Cycles, PrepareBranch(c)
  PROVE  \E d \in 1..Limit, p \in [reason : {"none", "time", "contract_invalid",
                                              "budget_exhausted", "rejected"},
                                    debit : Nat, before : 0..Limit] :
           /\ p.debit = d /\ p.before = seen[c] + 1 /\ d <= seen[c] + 1
           /\ prepared' = [prepared EXCEPT ![c] = p]
           /\ paid' = [paid EXCEPT ![Here(c)] = d]
           /\ used' = used + d - 1 /\ used' <= Limit
<1> DEFINE available == seen[c] + 1
           reason == CriticReason(reply[c], available)
           debit == PlannedDebit(reply[c], reason)
<1>1. event[c] = "call_response_recorded" /\ event[c] \in BranchEvents /\ pc[c] = "step"
  BY DEF PrepareBranch, BranchEvents
<1>2. available \in 0..Limit
  BY <1>1, BudgetLeft
<1>3. reply[c] \in Replies /\ paid[Here(c)] = 1
  BY <1>1 DEF Inv, CycleInv, AnsweredInv
<1>4. reply[c].demand \in Nat \ {0}
  BY <1>3, DemandsAssumption DEF Replies
<1>5. reason \in {"none", "time", "contract_invalid", "budget_exhausted", "rejected"}
  BY Zenon DEF CriticReason
<1>6. debit \in Nat \ {0}
  BY <1>4 DEF PlannedDebit
<1>7. debit <= available /\ used + debit - 1 <= Limit
  BY DEF PrepareBranch
<1>8. debit \in 1..Limit
  BY <1>2, <1>6, <1>7, LimitAssumption
<1>9. /\ prepared' = [prepared EXCEPT ![c] =
                        [reason |-> reason, debit |-> debit, before |-> available]]
      /\ paid' = [paid EXCEPT ![Here(c)] = @ + debit - 1]
      /\ used' = used + debit - 1
  BY DEF PrepareBranch
<1>10. Here(c) \in Cycles \X Branches
  BY <1>1, CurrentBranch
<1> HIDE DEF available, reason, debit, Here
<1>11. paid' = [paid EXCEPT ![Here(c)] = debit]
  <2>1. paid[Here(c)] + debit - 1 = debit
    BY <1>3, <1>6
  <2> QED BY <2>1, <1>9
<1>12. available = seen[c] + 1
  BY DEF available
<1>13. [reason |-> reason, debit |-> debit, before |-> available] \in
         [reason : {"none", "time", "contract_invalid", "budget_exhausted", "rejected"},
          debit : Nat, before : 0..Limit]
  BY <1>2, <1>5, <1>6
<1> QED BY <1>7, <1>8, <1>9, <1>11, <1>12, <1>13

(* Every step keeps the types.                                             *)
LEMMA TypeStep ==
  ASSUME Inv, NEW c \in Cycles, Start(c) \/ Work(c) \/ Stop(c)
  PROVE  TypeOK'
<1> USE DEF TypeOK, Append, GoTo, Leave, Places, EventKinds
<1>0. TypeOK /\ CycleInv(c) /\ used \in 0..Limit /\ Limit \in Nat \ {0} /\ MaxDrafts \in Nat
  BY LimitAssumption, DraftsAssumption DEF Inv
<1>1. CASE Start(c)
  BY <1>0, <1>1 DEF Start, ledger, files, run, effects
<1>2. CASE Open(c)
  BY <1>0, <1>2 DEF Open, ledger, files, run, effects
<1>3. CASE Load(c)
  BY <1>0, <1>3, BudgetLeft DEF Load, ledger, files, run, effects
<1>4. CASE Reload(c)
  BY <1>0, <1>4, BudgetLeft DEF Reload, ledger, files, run, effects
<1>5. CASE Stop(c)
  BY <1>0, <1>5, StopsAssumption DEF Stop, ledger, files, run, effects
<1>6. CASE ReserveCall(c)
  <2>1. done[c] < MaxDrafts
    BY <1>0, <1>6 DEF ReserveCall, Exhausted
  <2>2. Here(c) \in Cycles \X Branches
    BY <2>1, <1>0, DraftsAssumption DEF Here, Branches
  <2>3. used + 1 \in 0..Limit /\ 1 \in 0..Limit /\ ctx[c] \in 0..Limit
    BY <1>0, <1>6 DEF ReserveCall
  <2>4. /\ paid' = [paid EXCEPT ![Here(c)] = 1] /\ used' = used + 1
        /\ prompt' = [prompt EXCEPT ![c] = ctx[c]]
        /\ event' = [event EXCEPT ![c] = "call_reserved"]
        /\ pc' = [pc EXCEPT ![c] = "reserved"]
    BY <1>6 DEF ReserveCall
  <2> HIDE DEF Here
  <2> QED BY <1>0, <1>6, <2>2, <2>3, <2>4 DEF ReserveCall, ledger, files, run, effects
<1>7. CASE ReserveRefused(c)
  BY <1>0, <1>7 DEF ReserveRefused, ledger, files, run, effects
<1>8. CASE InvokeModel(c)
  <2>1. event[c] \in BranchEvents
    BY <1>8 DEF Inv, CycleInv, PlaceInv, InvokeModel, BranchEvents
  <2>2. Here(c) \in Cycles \X Branches
    BY <2>1, CurrentBranch
  <2> HIDE DEF Here
  <2>3. calls' \in [Cycles \X Branches -> Nat]
    BY <2>2, <1>0, <1>8 DEF InvokeModel
  <2> QED BY <1>0, <1>8, <2>3 DEF InvokeModel, ledger, files, run, effects
<1>9. CASE RecordResponse(c)
  BY <1>0, <1>9 DEF RecordResponse, ledger, files, run, effects
<1>10. CASE CallOutcomeUnknown(c)
  <2>1. event[c] \in BranchEvents /\ seen[c] \in 0..Limit
    BY <1>10, BudgetLeft DEF CallOutcomeUnknown, Inv, CycleInv, PlaceInv, BranchEvents, PreparedEvents
  <2>2. EndBranch(c, FALSE, seen[c])
    BY <1>10 DEF CallOutcomeUnknown
  <2>3. UNCHANGED capsules
    BY <1>0, <1>10, <2>1, CurrentBranch DEF CallOutcomeUnknown
  <2> QED BY <1>0, <1>10, <2>1, <2>2, <2>3, EndBranchType DEF CallOutcomeUnknown, ledger, files, run, effects
<1>11. CASE MalformedResponse(c)
  <2>1. event[c] \in BranchEvents /\ seen[c] \in 0..Limit
    BY <1>11, BudgetLeft DEF MalformedResponse, Inv, CycleInv, PlaceInv, BranchEvents, PreparedEvents
  <2>2. EndBranch(c, FALSE, seen[c])
    BY <1>11 DEF MalformedResponse
  <2>3. UNCHANGED capsules
    BY <1>0, <1>11, <2>1, CurrentBranch DEF MalformedResponse
  <2> QED BY <1>0, <1>11, <2>1, <2>2, <2>3, EndBranchType DEF MalformedResponse, ledger, files, run, effects
<1>12. CASE PrepareBranch(c)
  <2>1. PICK d \in 1..Limit, p \in [reason : {"none", "time", "contract_invalid",
                                             "budget_exhausted", "rejected"},
                                   debit : Nat, before : 0..Limit] :
          /\ prepared' = [prepared EXCEPT ![c] = p]
          /\ paid' = [paid EXCEPT ![Here(c)] = d]
          /\ used' = used + d - 1 /\ used' <= Limit
    BY <1>12, Prepares
  <2>2. Here(c) \in Cycles \X Branches
    BY <1>12, CurrentBranch DEF PrepareBranch, BranchEvents
  <2>3. /\ event' = [event EXCEPT ![c] = "branch_prepared"]
        /\ pc' = [pc EXCEPT ![c] = "read"]
        /\ UNCHANGED <<done, accepted, left, prompt, reply, final, files, capsules,
                       seen, ctx, effects, stops>>
    BY <1>12 DEF PrepareBranch
  <2> HIDE DEF Here
  <2> QED BY <1>0, <2>1, <2>2, <2>3 DEF ledger, files, run, effects
<1>13. CASE PrepareRefused(c)
  BY <1>0, <1>13 DEF PrepareRefused, ledger, files, run, effects
<1>14. CASE TerminalBranch(c)
  <2>1. event[c] \in BranchEvents /\ PreparedLeft(c) \in 0..Limit
    BY <1>14, BudgetLeft DEF TerminalBranch, Inv, CycleInv, PlaceInv, BranchEvents, PreparedEvents
  <2>2. EndBranch(c, FALSE, PreparedLeft(c))
    BY <1>14 DEF TerminalBranch
  <2>3. UNCHANGED capsules
    BY <1>0, <1>14, <2>1, CurrentBranch DEF TerminalBranch
  <2> QED BY <1>0, <1>14, <2>1, <2>2, <2>3, EndBranchType DEF TerminalBranch, ledger, files, run, effects
<1>15. CASE StartResolution(c)
  BY <1>0, <1>15 DEF StartResolution, ledger, files, run, effects
<1>16. CASE PublishArtifact(c)
  <2>1. event[c] \in BranchEvents
    BY <1>16 DEF Inv, CycleInv, PlaceInv, PublishArtifact, BranchEvents, PreparedEvents
  <2>2. Here(c) \in Cycles \X Branches
    BY <2>1, CurrentBranch
  <2> HIDE DEF Here
  <2>3. publishes' \in [Cycles \X Branches -> Nat] /\ artifacts' \subseteq Cycles \X Branches
    BY <2>2, <1>0, <1>16 DEF PublishArtifact
  <2>4. pc' \in [Cycles -> Places]
    BY <1>0, <1>16 DEF PublishArtifact
  <2>5. UNCHANGED <<ledger, receipt, capsules, seen, ctx, calls, preflights, stops>>
    BY <1>16 DEF PublishArtifact
  <2> QED BY <1>0, <2>3, <2>4, <2>5 DEF ledger
<1>17. CASE RecordArtifact(c)
  BY <1>0, <1>17 DEF RecordArtifact, ledger, files, run, effects
<1>18. CASE RecoverArtifact(c)
  BY <1>0, <1>18 DEF RecoverArtifact, ledger, files, run, effects
<1>19. CASE StartPreflight(c)
  BY <1>0, <1>19 DEF StartPreflight, ledger, files, run, effects
<1>20. CASE RunPreflight(c)
  <2>1. event[c] \in BranchEvents
    BY <1>20 DEF Inv, CycleInv, PlaceInv, RunPreflight, BranchEvents, PreparedEvents
  <2>2. Here(c) \in Cycles \X Branches
    BY <2>1, CurrentBranch
  <2> HIDE DEF Here
  <2>3. preflights' \in [Cycles \X Branches -> Nat]
    BY <2>2, <1>0, <1>20 DEF RunPreflight
  <2> QED BY <1>0, <1>20, <2>3 DEF RunPreflight, ledger, files, run, effects
<1>21. CASE RecordPreflight(c)
  BY <1>0, <1>21 DEF RecordPreflight, ledger, files, run, effects
<1>22. CASE AbandonPreflight(c)
  BY <1>0, <1>22 DEF AbandonPreflight, ledger, files, run, effects
<1>23. CASE FinalizeBranch(c)
  <2>1. event[c] \in BranchEvents /\ PreparedLeft(c) \in 0..Limit
    BY <1>23, BudgetLeft DEF FinalizeBranch, Inv, CycleInv, PlaceInv, BranchEvents, PreparedEvents
  <2>2. EndBranch(c, event[c] = "preflight_verified", PreparedLeft(c))
    BY <1>23 DEF FinalizeBranch
  <2>3. capsules' \subseteq Cycles \X Branches
    BY <1>0, <1>23, <2>1, CurrentBranch DEF FinalizeBranch
  <2> QED BY <1>0, <1>23, <2>1, <2>2, <2>3, EndBranchType DEF FinalizeBranch, ledger, files, run, effects
<1>24. CASE FinalizeCycle(c)
  BY <1>0, <1>24 DEF FinalizeCycle, ledger, files, run, effects
<1>25. CASE FinalizeRefused(c)
  BY <1>0, <1>25 DEF FinalizeRefused, ledger, files, run, effects
<1>26. CASE ProjectCycle(c)
  BY <1>0, <1>26 DEF ProjectCycle, ledger, files, run, effects
<1>27. CASE ProjectRefused(c)
  BY <1>0, <1>27 DEF ProjectRefused, ledger, files, run, effects
<1> QED BY <1>1, <1>2, <1>3, <1>4, <1>5, <1>6, <1>7, <1>8, <1>9, <1>10, <1>11, <1>12, <1>13, <1>14, <1>15, <1>16, <1>17, <1>18, <1>19, <1>20, <1>21, <1>22, <1>23, <1>24, <1>25, <1>26, <1>27 DEF Work
-----------------------------------------------------------------------------
(* A step of another cycle leaves all that belongs to cycle d as it is.    *)
Kept(d) ==
  /\ event'[d] = event[d] /\ done'[d] = done[d] /\ accepted'[d] = accepted[d]
  /\ left'[d] = left[d] /\ reply'[d] = reply[d] /\ prepared'[d] = prepared[d]
  /\ final'[d] = final[d] /\ pc'[d] = pc[d] /\ seen'[d] = seen[d]
  /\ \A b \in Branches :
       /\ paid'[<<d, b>>] = paid[<<d, b>>] /\ calls'[<<d, b>>] = calls[<<d, b>>]
       /\ publishes'[<<d, b>>] = publishes[<<d, b>>]
       /\ preflights'[<<d, b>>] = preflights[<<d, b>>]
       /\ <<d, b>> \in artifacts' <=> <<d, b>> \in artifacts
       /\ <<d, b>> \in capsules' <=> <<d, b>> \in capsules

LEMMA KeptStep ==
  ASSUME Inv, NEW c \in Cycles, Start(c) \/ Work(c) \/ Stop(c), NEW d \in Cycles \ {c}
  PROVE  Kept(d)
<1> USE DEF TypeOK, Kept, Append, EndBranch, Here, GoTo, Leave
<1>0. TypeOK
  BY DEF Inv
<1>1. CASE Start(c)
  BY <1>0, <1>1 DEF Start, ledger, files, run, effects
<1>2. CASE Open(c)
  BY <1>0, <1>2 DEF Open, ledger, files, run, effects
<1>3. CASE Load(c)
  BY <1>0, <1>3 DEF Load, ledger, files, run, effects
<1>4. CASE Reload(c)
  BY <1>0, <1>4 DEF Reload, ledger, files, run, effects
<1>5. CASE Stop(c)
  BY <1>0, <1>5 DEF Stop, ledger, files, run, effects
<1>6. CASE ReserveCall(c)
  BY <1>0, <1>6 DEF ReserveCall, ledger, files, run, effects
<1>7. CASE ReserveRefused(c)
  BY <1>0, <1>7 DEF ReserveRefused, ledger, files, run, effects
<1>8. CASE InvokeModel(c)
  BY <1>0, <1>8 DEF InvokeModel, ledger, files, run, effects
<1>9. CASE RecordResponse(c)
  BY <1>0, <1>9 DEF RecordResponse, ledger, files, run, effects
<1>10. CASE CallOutcomeUnknown(c)
  BY <1>0, <1>10 DEF CallOutcomeUnknown, ledger, files, run, effects
<1>11. CASE MalformedResponse(c)
  BY <1>0, <1>11 DEF MalformedResponse, ledger, files, run, effects
<1>12. CASE PrepareBranch(c)
  BY <1>0, <1>12 DEF PrepareBranch, ledger, files, run, effects
<1>13. CASE PrepareRefused(c)
  BY <1>0, <1>13 DEF PrepareRefused, ledger, files, run, effects
<1>14. CASE TerminalBranch(c)
  BY <1>0, <1>14 DEF TerminalBranch, ledger, files, run, effects
<1>15. CASE StartResolution(c)
  BY <1>0, <1>15 DEF StartResolution, ledger, files, run, effects
<1>16. CASE PublishArtifact(c)
  BY <1>0, <1>16 DEF PublishArtifact, ledger, files, run, effects
<1>17. CASE RecordArtifact(c)
  BY <1>0, <1>17 DEF RecordArtifact, ledger, files, run, effects
<1>18. CASE RecoverArtifact(c)
  BY <1>0, <1>18 DEF RecoverArtifact, ledger, files, run, effects
<1>19. CASE StartPreflight(c)
  BY <1>0, <1>19 DEF StartPreflight, ledger, files, run, effects
<1>20. CASE RunPreflight(c)
  BY <1>0, <1>20 DEF RunPreflight, ledger, files, run, effects
<1>21. CASE RecordPreflight(c)
  BY <1>0, <1>21 DEF RecordPreflight, ledger, files, run, effects
<1>22. CASE AbandonPreflight(c)
  BY <1>0, <1>22 DEF AbandonPreflight, ledger, files, run, effects
<1>23. CASE FinalizeBranch(c)
  BY <1>0, <1>23 DEF FinalizeBranch, ledger, files, run, effects
<1>24. CASE FinalizeCycle(c)
  BY <1>0, <1>24 DEF FinalizeCycle, ledger, files, run, effects
<1>25. CASE FinalizeRefused(c)
  BY <1>0, <1>25 DEF FinalizeRefused, ledger, files, run, effects
<1>26. CASE ProjectCycle(c)
  BY <1>0, <1>26 DEF ProjectCycle, ledger, files, run, effects
<1>27. CASE ProjectRefused(c)
  BY <1>0, <1>27 DEF ProjectRefused, ledger, files, run, effects
<1> QED BY <1>1, <1>2, <1>3, <1>4, <1>5, <1>6, <1>7, <1>8, <1>9, <1>10, <1>11, <1>12, <1>13, <1>14, <1>15, <1>16, <1>17, <1>18, <1>19, <1>20, <1>21, <1>22, <1>23, <1>24, <1>25, <1>26, <1>27 DEF Work

(* What is paid stays paid, and who spends has a branch it pays for.       *)
Spends(c) ==
  /\ used' >= used
  /\ \A k \in Cycles \X Branches : paid'[k] >= paid[k]
  /\ used' = used \/ (Here(c) \in Cycles \X Branches /\ paid'[Here(c)] >= 1)

LEMMA SpendsStep ==
  ASSUME Inv, NEW c \in Cycles, Start(c) \/ Work(c) \/ Stop(c)
  PROVE  Spends(c)
<1>1. CASE UNCHANGED <<paid, used>>
  BY <1>1 DEF Inv, TypeOK, Spends
<1>2. CASE ReserveCall(c)
  <2>1. done[c] < MaxDrafts /\ event[c] \notin BranchEvents
    BY <1>2, DraftsAssumption
       DEF ReserveCall, Exhausted, Inv, TypeOK, BetweenBranches, BranchEvents, PreparedEvents
  <2>2. Here(c) \in Cycles \X Branches
    BY <2>1, DraftsAssumption DEF Inv, TypeOK, Here, Branches
  <2>3. paid[Here(c)] = 0
    BY <2>1, <2>2 DEF Inv, CycleInv, ChainInv, Fresh, Here
  <2>4. paid' = [paid EXCEPT ![Here(c)] = 1] /\ used' = used + 1
    BY <1>2 DEF ReserveCall
  <2> HIDE DEF Here
  <2> QED BY <2>2, <2>3, <2>4, LimitAssumption DEF Inv, TypeOK, Spends
<1>3. CASE PrepareBranch(c)
  <2>1. PICK d \in 1..Limit : paid' = [paid EXCEPT ![Here(c)] = d] /\ used' = used + d - 1
    BY <1>3, Prepares
  <2>2. Here(c) \in Cycles \X Branches /\ paid[Here(c)] = 1
    BY <1>3, CurrentBranch DEF PrepareBranch, BranchEvents, Inv, CycleInv, AnsweredInv
  <2> HIDE DEF Here
  <2> QED BY <2>1, <2>2, LimitAssumption DEF Inv, TypeOK, Spends
<1> QED BY <1>1, <1>2, <1>3
        DEF Start, Stop, Leave, Work, Open, Load, Reload, ReserveRefused, InvokeModel,
            RecordResponse, CallOutcomeUnknown, MalformedResponse, PrepareRefused,
            TerminalBranch, StartResolution, PublishArtifact, RecordArtifact,
            RecoverArtifact, StartPreflight, RunPreflight, RecordPreflight,
            AbandonPreflight, FinalizeBranch, FinalizeCycle, FinalizeRefused,
            ProjectCycle, ProjectRefused, ledger

(* So the invariant of the other cycles is kept.                           *)
LEMMA OtherCycles ==
  ASSUME Inv, TypeOK', NEW c \in Cycles, Spends(c), NEW d \in Cycles \ {c}, Kept(d)
  PROVE  CycleInv(d)'
<1>0. TypeOK /\ CycleInv(d) /\ Limit \in Nat /\ MaxDrafts \in Nat
  BY LimitAssumption, DraftsAssumption DEF Inv
<1>1. event[d] \in BranchEvents => Here(d) \in Cycles \X Branches /\ done[d] \in Branches
  BY CurrentBranch
<1>2. Here(d)' = Here(d)
  BY DEF Here, Kept
<1>3. event[d] \in BranchEvents =>
        /\ paid'[Here(d)] = paid[Here(d)] /\ calls'[Here(d)] = calls[Here(d)]
        /\ publishes'[Here(d)] = publishes[Here(d)]
        /\ preflights'[Here(d)] = preflights[Here(d)]
        /\ Here(d) \in artifacts' <=> Here(d) \in artifacts
  BY <1>1 DEF Here, Kept
<1>4. PlaceInv(d)'
  BY <1>0 DEF Kept, CycleInv, PlaceInv
<1>5. ReservedInv(d)'
  BY <1>0, <1>2, <1>3 DEF Kept, CycleInv, ReservedInv, BranchEvents
<1>6. AnsweredInv(d)'
  BY <1>0, <1>2, <1>3 DEF Kept, CycleInv, AnsweredInv, BranchEvents
<1>7. PreparedInv(d)'
  BY <1>0, <1>2, <1>3 DEF Kept, CycleInv, PreparedInv, BranchEvents, PreparedLeft
<1>8. ChainInv(d)'
  <2>1. \A b \in Branches : Fresh(<<d, b>>) => Fresh(<<d, b>>)'
    BY DEF Kept, Fresh
  <2>2. done[d] > 0 => done[d] - 1 \in Branches
    BY <1>0 DEF TypeOK, Branches
  <2>3. /\ event'[d] = event[d] /\ done'[d] = done[d] /\ accepted'[d] = accepted[d]
        /\ ChainInv(d)
    BY <1>0 DEF Kept, CycleInv
  <2>4. ASSUME NEW b \in Branches, b > done[d] \/ (b = done[d] /\ event[d] \notin BranchEvents)
        PROVE  Fresh(<<d, b>>)'
    BY <2>1, <2>3, <2>4 DEF ChainInv
  <2>5. accepted[d] => done[d] > 0 /\ <<d, done[d] - 1>> \in capsules'
    BY <2>2, <2>3 DEF ChainInv, Kept
  <2>6. ASSUME NEW b \in Branches, <<d, b>> \in capsules'
        PROVE  /\ accepted[d] /\ b = done[d] - 1
               /\ <<d, b>> \in artifacts' /\ calls'[<<d, b>>] = 1
               /\ publishes'[<<d, b>>] = 1 /\ preflights'[<<d, b>>] = 1
    BY <2>3, <2>6 DEF ChainInv, Kept
  <2>7. (accepted[d] => done[d] > 0 /\ <<d, done[d] - 1>> \in capsules)'
    BY <2>3, <2>5
  <2>8. (event[d] \in BranchEvents => done[d] < MaxDrafts /\ ~accepted[d])'
    BY <2>3 DEF ChainInv
  <2>9. (event[d] \in {"none", "cycle_opened"} => done[d] = 0 /\ ~accepted[d])'
    BY <2>3 DEF ChainInv
  <2> QED BY <2>3, <2>4, <2>6, <2>7, <2>8, <2>9 DEF ChainInv
<1>9. BudgetInv(d)'
  <2>1. Remaining' <= Remaining
    <3>1. used \in 0..Limit /\ used' \in 0..Limit /\ used' >= used
      BY <1>0 DEF TypeOK, Spends
    <3>2. \A a, b, l \in Int : b >= a => l - b <= l - a
      OBVIOUS
    <3>3. used \in Int /\ used' \in Int /\ Limit \in Int
      BY <3>1, <1>0
    <3> QED BY <3>1, <3>2, <3>3 DEF Remaining
  <2>2. ASSUME Alone(d)' PROVE Alone(d) /\ Remaining' = Remaining
    <3>1. Alone(d)
      <4>1. ASSUME NEW k \in Cycles \X Branches, k[1] # d PROVE paid[k] = 0
        <5>1. paid[k] \in 0..Limit /\ paid'[k] >= paid[k]
          BY <1>0 DEF TypeOK, Spends
        <5>2. paid'[k] = 0
          BY <2>2, <4>1 DEF Alone
        <5> QED BY <5>1, <5>2
      <4> QED BY <4>1 DEF Alone
    <3>2. used' = used
      BY <2>2 DEF Alone, Spends, Here
    <3> QED BY <3>1, <3>2 DEF Remaining
  <2>3. Remaining \in Int /\ Remaining' \in Int /\ seen[d] \in Int
    BY <1>0 DEF TypeOK, Remaining
  <2>4. event[d] \in PreparedEvents => PreparedLeft(d)' = PreparedLeft(d)
    BY <1>2, <1>3 DEF PreparedLeft, Kept, BranchEvents
  <2>5. (pc[d] \notin {"idle", "load"} => Remaining <= seen[d])'
    BY <1>0, <2>1, <2>3 DEF Kept, CycleInv, BudgetInv
  <2>6. (pc[d] = "step" /\ event[d] \in BranchEvents => seen[d] <= Limit - paid[Here(d)])'
    BY <1>0, <1>2, <1>3 DEF Kept, CycleInv, BudgetInv
  <2> QED BY <1>0, <2>2, <2>4, <2>5, <2>6 DEF Kept, CycleInv, BudgetInv
<1> QED BY <1>4, <1>5, <1>6, <1>7, <1>8, <1>9 DEF CycleInv
-----------------------------------------------------------------------------
(* A cycle that drafted no branch cannot be finalized.                     *)
LEMMA OpenedAllows == "cycle_finalized" \notin AllowedTransitions["cycle_opened"]
BY DEF AllowedTransitions, EventKinds

(* Where a run is fits the last event it reads or writes.                  *)
LEMMA PlaceStep ==
  ASSUME Inv, TypeOK', NEW c \in Cycles, Start(c) \/ Work(c) \/ Stop(c)
  PROVE  PlaceInv(c)'
<1> USE DEF TypeOK, CycleInv, PlaceInv,
            BranchEvents, PreparedEvents, Append, EndBranch, GoTo, Leave, BetweenBranches
<1>0. TypeOK /\ CycleInv(c) /\ Limit \in Nat \ {0} /\ MaxDrafts \in Nat
  BY LimitAssumption, DraftsAssumption DEF Inv
<1>h. event[c] \in BranchEvents => Here(c) \in Cycles \X Branches /\ done[c] \in Branches
  BY CurrentBranch
<1>k. Here(c) = <<c, done[c]>> /\ Here(c)' = <<c, done'[c]>>
  BY DEF Here
<1>1. CASE Start(c)
  BY <1>0, <1>h, <1>k, <1>1 DEF Start, ledger, files, run, effects
<1>2. CASE Open(c)
  BY <1>0, <1>h, <1>k, <1>2 DEF Open, ledger, files, run, effects
<1>3. CASE Load(c)
  BY <1>0, <1>h, <1>k, <1>3 DEF Load, ledger, files, run, effects
<1>4. CASE Reload(c)
  BY <1>0, <1>h, <1>k, <1>4 DEF Reload, ledger, files, run, effects
<1>5. CASE Stop(c)
  BY <1>0, <1>h, <1>k, <1>5 DEF Stop, ledger, files, run, effects
<1>6. CASE ReserveCall(c)
  BY <1>0, <1>h, <1>k, <1>6 DEF ReserveCall, ledger, files, run, effects
<1>7. CASE ReserveRefused(c)
  BY <1>0, <1>h, <1>k, <1>7 DEF ReserveRefused, ledger, files, run, effects
<1>8. CASE InvokeModel(c)
  BY <1>0, <1>h, <1>k, <1>8 DEF InvokeModel, ledger, files, run, effects
<1>9. CASE RecordResponse(c)
  BY <1>0, <1>h, <1>k, <1>9 DEF RecordResponse, ledger, files, run, effects
<1>10. CASE CallOutcomeUnknown(c)
  BY <1>0, <1>h, <1>k, <1>10 DEF CallOutcomeUnknown, ledger, files, run, effects
<1>11. CASE MalformedResponse(c)
  BY <1>0, <1>h, <1>k, <1>11 DEF MalformedResponse, ledger, files, run, effects
<1>12. CASE PrepareBranch(c)
  BY <1>0, <1>h, <1>k, <1>12 DEF PrepareBranch, ledger, files, run, effects
<1>13. CASE PrepareRefused(c)
  BY <1>0, <1>h, <1>k, <1>13 DEF PrepareRefused, ledger, files, run, effects
<1>14. CASE TerminalBranch(c)
  BY <1>0, <1>h, <1>k, <1>14 DEF TerminalBranch, ledger, files, run, effects
<1>15. CASE StartResolution(c)
  BY <1>0, <1>h, <1>k, <1>15 DEF StartResolution, ledger, files, run, effects
<1>16. CASE PublishArtifact(c)
  BY <1>0, <1>h, <1>k, <1>16 DEF PublishArtifact, ledger, files, run, effects
<1>17. CASE RecordArtifact(c)
  BY <1>0, <1>h, <1>k, <1>17 DEF RecordArtifact, ledger, files, run, effects
<1>18. CASE RecoverArtifact(c)
  BY <1>0, <1>h, <1>k, <1>18 DEF RecoverArtifact, ledger, files, run, effects
<1>19. CASE StartPreflight(c)
  BY <1>0, <1>h, <1>k, <1>19 DEF StartPreflight, ledger, files, run, effects
<1>20. CASE RunPreflight(c)
  BY <1>0, <1>h, <1>k, <1>20 DEF RunPreflight, ledger, files, run, effects
<1>21. CASE RecordPreflight(c)
  BY <1>0, <1>h, <1>k, <1>21 DEF RecordPreflight, ledger, files, run, effects
<1>22. CASE AbandonPreflight(c)
  BY <1>0, <1>h, <1>k, <1>22 DEF AbandonPreflight, ledger, files, run, effects
<1>23. CASE FinalizeBranch(c)
  BY <1>0, <1>h, <1>k, <1>23 DEF FinalizeBranch, ledger, files, run, effects
<1>24. CASE FinalizeCycle(c)
  BY <1>0, <1>h, <1>k, <1>24 DEF FinalizeCycle, ledger, files, run, effects
<1>25. CASE FinalizeRefused(c)
  BY <1>0, <1>h, <1>k, <1>25 DEF FinalizeRefused, ledger, files, run, effects
<1>26. CASE ProjectCycle(c)
  BY <1>0, <1>h, <1>k, <1>26 DEF ProjectCycle, ledger, files, run, effects
<1>27. CASE ProjectRefused(c)
  BY <1>0, <1>h, <1>k, <1>27 DEF ProjectRefused, ledger, files, run, effects
<1> QED BY <1>1, <1>2, <1>3, <1>4, <1>5, <1>6, <1>7, <1>8, <1>9, <1>10, <1>11, <1>12, <1>13,
           <1>14, <1>15, <1>16, <1>17, <1>18, <1>19, <1>20, <1>21, <1>22, <1>23, <1>24, <1>25, <1>26, <1>27 DEF Work

(* A reserved call is paid for and not made before it is asked for.        *)
LEMMA ReservedStep ==
  ASSUME Inv, TypeOK', NEW c \in Cycles, Start(c) \/ Work(c) \/ Stop(c)
  PROVE  ReservedInv(c)'
<1> USE DEF TypeOK, CycleInv, ReservedInv, PlaceInv,
            BranchEvents, PreparedEvents, Append, EndBranch, GoTo, Leave, BetweenBranches
<1>0. TypeOK /\ CycleInv(c) /\ Limit \in Nat \ {0} /\ MaxDrafts \in Nat
  BY LimitAssumption, DraftsAssumption DEF Inv
<1>h. event[c] \in BranchEvents => Here(c) \in Cycles \X Branches /\ done[c] \in Branches
  BY CurrentBranch
<1>k. Here(c) = <<c, done[c]>> /\ Here(c)' = <<c, done'[c]>>
  BY DEF Here
<1>1. CASE Start(c)
  BY <1>0, <1>h, <1>k, <1>1 DEF Start, ledger, files, run, effects
<1>2. CASE Open(c)
  BY <1>0, <1>h, <1>k, <1>2 DEF Open, ledger, files, run, effects
<1>3. CASE Load(c)
  BY <1>0, <1>h, <1>k, <1>3 DEF Load, ledger, files, run, effects
<1>4. CASE Reload(c)
  BY <1>0, <1>h, <1>k, <1>4 DEF Reload, ledger, files, run, effects
<1>5. CASE Stop(c)
  BY <1>0, <1>h, <1>k, <1>5 DEF Stop, ledger, files, run, effects
<1>6. CASE ReserveCall(c)
  <2>1. /\ done[c] < MaxDrafts /\ event[c] \notin BranchEvents /\ ~accepted[c]
        /\ done' = done /\ accepted' = accepted /\ event'[c] = "call_reserved"
    BY <1>0, <1>6 DEF ReserveCall, Exhausted
  <2>2. Here(c) \in Cycles \X Branches /\ done[c] \in Branches /\ Here(c)' = Here(c)
    BY <2>1, <1>0, <1>k DEF Branches
  <2>3. Fresh(Here(c))
    BY <2>1, <2>2, <1>0, <1>k DEF ChainInv
  <2>4. /\ paid' = [paid EXCEPT ![Here(c)] = 1]
        /\ calls' = calls /\ publishes' = publishes
    BY <1>6 DEF ReserveCall, effects
  <2>5. paid'[Here(c)] = 1 /\ publishes'[Here(c)] = 0 /\ calls'[Here(c)] = 0
    BY <2>2, <2>3, <2>4, <1>0 DEF Fresh
  <2>6. pc'[c] = "reserved"
    BY <1>0, <1>6 DEF ReserveCall
  <2> QED BY <2>2, <2>5, <2>6
<1>7. CASE ReserveRefused(c)
  BY <1>0, <1>h, <1>k, <1>7 DEF ReserveRefused, ledger, files, run, effects
<1>8. CASE InvokeModel(c)
  BY <1>0, <1>h, <1>k, <1>8 DEF InvokeModel, ledger, files, run, effects
<1>9. CASE RecordResponse(c)
  BY <1>0, <1>h, <1>k, <1>9 DEF RecordResponse, ledger, files, run, effects
<1>10. CASE CallOutcomeUnknown(c)
  BY <1>0, <1>h, <1>k, <1>10 DEF CallOutcomeUnknown, ledger, files, run, effects
<1>11. CASE MalformedResponse(c)
  BY <1>0, <1>h, <1>k, <1>11 DEF MalformedResponse, ledger, files, run, effects
<1>12. CASE PrepareBranch(c)
  BY <1>0, <1>h, <1>k, <1>12 DEF PrepareBranch, ledger, files, run, effects
<1>13. CASE PrepareRefused(c)
  BY <1>0, <1>h, <1>k, <1>13 DEF PrepareRefused, ledger, files, run, effects
<1>14. CASE TerminalBranch(c)
  BY <1>0, <1>h, <1>k, <1>14 DEF TerminalBranch, ledger, files, run, effects
<1>15. CASE StartResolution(c)
  BY <1>0, <1>h, <1>k, <1>15 DEF StartResolution, ledger, files, run, effects
<1>16. CASE PublishArtifact(c)
  BY <1>0, <1>h, <1>k, <1>16 DEF PublishArtifact, ledger, files, run, effects
<1>17. CASE RecordArtifact(c)
  BY <1>0, <1>h, <1>k, <1>17 DEF RecordArtifact, ledger, files, run, effects
<1>18. CASE RecoverArtifact(c)
  BY <1>0, <1>h, <1>k, <1>18 DEF RecoverArtifact, ledger, files, run, effects
<1>19. CASE StartPreflight(c)
  BY <1>0, <1>h, <1>k, <1>19 DEF StartPreflight, ledger, files, run, effects
<1>20. CASE RunPreflight(c)
  BY <1>0, <1>h, <1>k, <1>20 DEF RunPreflight, ledger, files, run, effects
<1>21. CASE RecordPreflight(c)
  BY <1>0, <1>h, <1>k, <1>21 DEF RecordPreflight, ledger, files, run, effects
<1>22. CASE AbandonPreflight(c)
  BY <1>0, <1>h, <1>k, <1>22 DEF AbandonPreflight, ledger, files, run, effects
<1>23. CASE FinalizeBranch(c)
  BY <1>0, <1>h, <1>k, <1>23 DEF FinalizeBranch, ledger, files, run, effects
<1>24. CASE FinalizeCycle(c)
  BY <1>0, <1>h, <1>k, <1>24 DEF FinalizeCycle, ledger, files, run, effects
<1>25. CASE FinalizeRefused(c)
  BY <1>0, <1>h, <1>k, <1>25 DEF FinalizeRefused, ledger, files, run, effects
<1>26. CASE ProjectCycle(c)
  BY <1>0, <1>h, <1>k, <1>26 DEF ProjectCycle, ledger, files, run, effects
<1>27. CASE ProjectRefused(c)
  BY <1>0, <1>h, <1>k, <1>27 DEF ProjectRefused, ledger, files, run, effects
<1> QED BY <1>1, <1>2, <1>3, <1>4, <1>5, <1>6, <1>7, <1>8, <1>9, <1>10, <1>11, <1>12, <1>13,
           <1>14, <1>15, <1>16, <1>17, <1>18, <1>19, <1>20, <1>21, <1>22, <1>23, <1>24, <1>25, <1>26, <1>27 DEF Work

(* An answer was paid for by one unit and asked for once.                  *)
LEMMA AnsweredStep ==
  ASSUME Inv, TypeOK', NEW c \in Cycles, Start(c) \/ Work(c) \/ Stop(c)
  PROVE  AnsweredInv(c)'
<1> USE DEF TypeOK, CycleInv, AnsweredInv, PlaceInv,
            BranchEvents, PreparedEvents, Append, EndBranch, GoTo, Leave, BetweenBranches
<1>0. TypeOK /\ CycleInv(c) /\ Limit \in Nat \ {0} /\ MaxDrafts \in Nat
  BY LimitAssumption, DraftsAssumption DEF Inv
<1>h. event[c] \in BranchEvents => Here(c) \in Cycles \X Branches /\ done[c] \in Branches
  BY CurrentBranch
<1>k. Here(c) = <<c, done[c]>> /\ Here(c)' = <<c, done'[c]>>
  BY DEF Here
<1>1. CASE Start(c)
  BY <1>0, <1>h, <1>k, <1>1 DEF Start, ledger, files, run, effects
<1>2. CASE Open(c)
  BY <1>0, <1>h, <1>k, <1>2 DEF Open, ledger, files, run, effects
<1>3. CASE Load(c)
  BY <1>0, <1>h, <1>k, <1>3 DEF Load, ledger, files, run, effects
<1>4. CASE Reload(c)
  BY <1>0, <1>h, <1>k, <1>4 DEF Reload, ledger, files, run, effects
<1>5. CASE Stop(c)
  BY <1>0, <1>h, <1>k, <1>5 DEF Stop, ledger, files, run, effects
<1>6. CASE ReserveCall(c)
  BY <1>0, <1>h, <1>k, <1>6 DEF ReserveCall, ledger, files, run, effects
<1>7. CASE ReserveRefused(c)
  BY <1>0, <1>h, <1>k, <1>7 DEF ReserveRefused, ledger, files, run, effects
<1>8. CASE InvokeModel(c)
  BY <1>0, <1>h, <1>k, <1>8 DEF InvokeModel, ledger, files, run, effects
<1>9. CASE RecordResponse(c)
  <2>1. event[c] = "call_reserved" /\ pc[c] = "respond"
    BY <1>0, <1>9 DEF RecordResponse
  <2>2. paid[Here(c)] = 1 /\ calls[Here(c)] = 1 /\ publishes[Here(c)] = 0
    BY <2>1, <1>0 DEF ReservedInv
  <2>3. /\ Here(c)' = Here(c) /\ UNCHANGED <<paid, calls, publishes>>
        /\ reply'[c] \in Replies
    BY <1>0, <1>k, <1>9 DEF RecordResponse, effects
  <2> QED BY <2>2, <2>3
<1>10. CASE CallOutcomeUnknown(c)
  BY <1>0, <1>h, <1>k, <1>10 DEF CallOutcomeUnknown, ledger, files, run, effects
<1>11. CASE MalformedResponse(c)
  BY <1>0, <1>h, <1>k, <1>11 DEF MalformedResponse, ledger, files, run, effects
<1>12. CASE PrepareBranch(c)
  BY <1>0, <1>h, <1>k, <1>12 DEF PrepareBranch, ledger, files, run, effects
<1>13. CASE PrepareRefused(c)
  BY <1>0, <1>h, <1>k, <1>13 DEF PrepareRefused, ledger, files, run, effects
<1>14. CASE TerminalBranch(c)
  BY <1>0, <1>h, <1>k, <1>14 DEF TerminalBranch, ledger, files, run, effects
<1>15. CASE StartResolution(c)
  BY <1>0, <1>h, <1>k, <1>15 DEF StartResolution, ledger, files, run, effects
<1>16. CASE PublishArtifact(c)
  BY <1>0, <1>h, <1>k, <1>16 DEF PublishArtifact, ledger, files, run, effects
<1>17. CASE RecordArtifact(c)
  BY <1>0, <1>h, <1>k, <1>17 DEF RecordArtifact, ledger, files, run, effects
<1>18. CASE RecoverArtifact(c)
  BY <1>0, <1>h, <1>k, <1>18 DEF RecoverArtifact, ledger, files, run, effects
<1>19. CASE StartPreflight(c)
  BY <1>0, <1>h, <1>k, <1>19 DEF StartPreflight, ledger, files, run, effects
<1>20. CASE RunPreflight(c)
  BY <1>0, <1>h, <1>k, <1>20 DEF RunPreflight, ledger, files, run, effects
<1>21. CASE RecordPreflight(c)
  BY <1>0, <1>h, <1>k, <1>21 DEF RecordPreflight, ledger, files, run, effects
<1>22. CASE AbandonPreflight(c)
  BY <1>0, <1>h, <1>k, <1>22 DEF AbandonPreflight, ledger, files, run, effects
<1>23. CASE FinalizeBranch(c)
  BY <1>0, <1>h, <1>k, <1>23 DEF FinalizeBranch, ledger, files, run, effects
<1>24. CASE FinalizeCycle(c)
  BY <1>0, <1>h, <1>k, <1>24 DEF FinalizeCycle, ledger, files, run, effects
<1>25. CASE FinalizeRefused(c)
  BY <1>0, <1>h, <1>k, <1>25 DEF FinalizeRefused, ledger, files, run, effects
<1>26. CASE ProjectCycle(c)
  BY <1>0, <1>h, <1>k, <1>26 DEF ProjectCycle, ledger, files, run, effects
<1>27. CASE ProjectRefused(c)
  BY <1>0, <1>h, <1>k, <1>27 DEF ProjectRefused, ledger, files, run, effects
<1> QED BY <1>1, <1>2, <1>3, <1>4, <1>5, <1>6, <1>7, <1>8, <1>9, <1>10, <1>11, <1>12, <1>13,
           <1>14, <1>15, <1>16, <1>17, <1>18, <1>19, <1>20, <1>21, <1>22, <1>23, <1>24, <1>25, <1>26, <1>27 DEF Work

(* A prepared branch has its debits, and its effects come in order.        *)
LEMMA PreparedStep ==
  ASSUME Inv, TypeOK', NEW c \in Cycles, Start(c) \/ Work(c) \/ Stop(c)
  PROVE  PreparedInv(c)'
<1> USE DEF TypeOK, CycleInv, PreparedInv, PreparedLeft, PlaceInv,
            BranchEvents, PreparedEvents, Append, EndBranch, GoTo, Leave, BetweenBranches
<1>0. TypeOK /\ CycleInv(c) /\ Limit \in Nat \ {0} /\ MaxDrafts \in Nat
  BY LimitAssumption, DraftsAssumption DEF Inv
<1>h. event[c] \in BranchEvents => Here(c) \in Cycles \X Branches /\ done[c] \in Branches
  BY CurrentBranch
<1>k. Here(c) = <<c, done[c]>> /\ Here(c)' = <<c, done'[c]>>
  BY DEF Here
<1>1. CASE Start(c)
  BY <1>0, <1>h, <1>k, <1>1 DEF Start, ledger, files, run, effects
<1>2. CASE Open(c)
  BY <1>0, <1>h, <1>k, <1>2 DEF Open, ledger, files, run, effects
<1>3. CASE Load(c)
  BY <1>0, <1>h, <1>k, <1>3 DEF Load, ledger, files, run, effects
<1>4. CASE Reload(c)
  BY <1>0, <1>h, <1>k, <1>4 DEF Reload, ledger, files, run, effects
<1>5. CASE Stop(c)
  BY <1>0, <1>h, <1>k, <1>5 DEF Stop, ledger, files, run, effects
<1>6. CASE ReserveCall(c)
  BY <1>0, <1>h, <1>k, <1>6 DEF ReserveCall, ledger, files, run, effects
<1>7. CASE ReserveRefused(c)
  BY <1>0, <1>h, <1>k, <1>7 DEF ReserveRefused, ledger, files, run, effects
<1>8. CASE InvokeModel(c)
  BY <1>0, <1>h, <1>k, <1>8 DEF InvokeModel, ledger, files, run, effects
<1>9. CASE RecordResponse(c)
  BY <1>0, <1>h, <1>k, <1>9 DEF RecordResponse, ledger, files, run, effects
<1>10. CASE CallOutcomeUnknown(c)
  BY <1>0, <1>h, <1>k, <1>10 DEF CallOutcomeUnknown, ledger, files, run, effects
<1>11. CASE MalformedResponse(c)
  BY <1>0, <1>h, <1>k, <1>11 DEF MalformedResponse, ledger, files, run, effects
<1>12. CASE PrepareBranch(c)
  <2>1. PICK d \in 1..Limit, p \in [reason : {"none", "time", "contract_invalid",
                                             "budget_exhausted", "rejected"},
                                   debit : Nat, before : 0..Limit] :
          /\ p.debit = d /\ p.before = seen[c] + 1 /\ d <= seen[c] + 1
          /\ prepared' = [prepared EXCEPT ![c] = p]
          /\ paid' = [paid EXCEPT ![Here(c)] = d]
    BY <1>12, Prepares
  <2>2. /\ event[c] = "call_response_recorded"
        /\ event'[c] = "branch_prepared" /\ pc'[c] = "read" /\ done' = done
        /\ UNCHANGED <<calls, publishes, preflights, artifacts>>
    BY <1>0, <1>12 DEF PrepareBranch, effects, files
  <2>3. Here(c) \in Cycles \X Branches /\ BranchInv(Here(c)) /\ Here(c)' = Here(c)
    BY <2>2, <1>k, CurrentBranch
  <2>4. calls[Here(c)] = 1 /\ publishes[Here(c)] = 0 /\ preflights[Here(c)] = 0
    <3>1. calls[Here(c)] = 1 /\ publishes[Here(c)] = 0
      BY <2>2, <1>0 DEF AnsweredInv
    <3>2. Here(c) \notin artifacts /\ preflights[Here(c)] # 1 /\ preflights[Here(c)] <= 1
      BY <2>3, <3>1 DEF BranchInv
    <3>3. preflights[Here(c)] \in Nat
      BY <2>3, <1>0
    <3>4. \A n \in Nat : n # 1 /\ n <= 1 => n = 0
      OBVIOUS
    <3> QED BY <3>1, <3>2, <3>3, <3>4
  <2>5. paid'[Here(c)] = d /\ prepared'[c] = p /\ d >= 1
    BY <2>1, <2>3, <1>0
  <2>6. PreparedLeft(c)' >= 0
    BY <2>1, <2>3, <2>5
  <2> QED BY <2>1, <2>2, <2>3, <2>4, <2>5, <2>6
<1>13. CASE PrepareRefused(c)
  BY <1>0, <1>h, <1>k, <1>13 DEF PrepareRefused, ledger, files, run, effects
<1>14. CASE TerminalBranch(c)
  BY <1>0, <1>h, <1>k, <1>14 DEF TerminalBranch, ledger, files, run, effects
<1>15. CASE StartResolution(c)
  BY <1>0, <1>h, <1>k, <1>15 DEF StartResolution, ledger, files, run, effects
<1>16. CASE PublishArtifact(c)
  BY <1>0, <1>h, <1>k, <1>16 DEF PublishArtifact, ledger, files, run, effects
<1>17. CASE RecordArtifact(c)
  BY <1>0, <1>h, <1>k, <1>17 DEF RecordArtifact, ledger, files, run, effects
<1>18. CASE RecoverArtifact(c)
  BY <1>0, <1>h, <1>k, <1>18 DEF RecoverArtifact, ledger, files, run, effects
<1>19. CASE StartPreflight(c)
  BY <1>0, <1>h, <1>k, <1>19 DEF StartPreflight, ledger, files, run, effects
<1>20. CASE RunPreflight(c)
  BY <1>0, <1>h, <1>k, <1>20 DEF RunPreflight, ledger, files, run, effects
<1>21. CASE RecordPreflight(c)
  BY <1>0, <1>h, <1>k, <1>21 DEF RecordPreflight, ledger, files, run, effects
<1>22. CASE AbandonPreflight(c)
  BY <1>0, <1>h, <1>k, <1>22 DEF AbandonPreflight, ledger, files, run, effects
<1>23. CASE FinalizeBranch(c)
  BY <1>0, <1>h, <1>k, <1>23 DEF FinalizeBranch, ledger, files, run, effects
<1>24. CASE FinalizeCycle(c)
  BY <1>0, <1>h, <1>k, <1>24 DEF FinalizeCycle, ledger, files, run, effects
<1>25. CASE FinalizeRefused(c)
  BY <1>0, <1>h, <1>k, <1>25 DEF FinalizeRefused, ledger, files, run, effects
<1>26. CASE ProjectCycle(c)
  BY <1>0, <1>h, <1>k, <1>26 DEF ProjectCycle, ledger, files, run, effects
<1>27. CASE ProjectRefused(c)
  BY <1>0, <1>h, <1>k, <1>27 DEF ProjectRefused, ledger, files, run, effects
<1> QED BY <1>1, <1>2, <1>3, <1>4, <1>5, <1>6, <1>7, <1>8, <1>9, <1>10, <1>11, <1>12, <1>13,
           <1>14, <1>15, <1>16, <1>17, <1>18, <1>19, <1>20, <1>21, <1>22, <1>23, <1>24, <1>25, <1>26, <1>27 DEF Work

(* Branches begin fresh, and an accepted cycle has begun its last one.     *)
LEMMA ChainStep ==
  ASSUME Inv, TypeOK', NEW c \in Cycles, Start(c) \/ Work(c) \/ Stop(c)
  PROVE  ChainInv(c)'
<1> USE DEF TypeOK, CycleInv, ChainInv, Fresh, Branches, PlaceInv,
            BranchEvents, PreparedEvents, Append, EndBranch, GoTo, Leave, BetweenBranches
<1>0. TypeOK /\ CycleInv(c) /\ Limit \in Nat \ {0} /\ MaxDrafts \in Nat
  BY LimitAssumption, DraftsAssumption DEF Inv
<1>h. event[c] \in BranchEvents => Here(c) \in Cycles \X Branches /\ done[c] \in Branches
  BY CurrentBranch
<1>k. Here(c) = <<c, done[c]>> /\ Here(c)' = <<c, done'[c]>>
  BY DEF Here
<1>1. CASE Start(c)
  BY <1>0, <1>h, <1>k, <1>1 DEF Start, ledger, files, run, effects
<1>2. CASE Open(c)
  BY <1>0, <1>h, <1>k, <1>2 DEF Open, ledger, files, run, effects
<1>3. CASE Load(c)
  BY <1>0, <1>h, <1>k, <1>3 DEF Load, ledger, files, run, effects
<1>4. CASE Reload(c)
  BY <1>0, <1>h, <1>k, <1>4 DEF Reload, ledger, files, run, effects
<1>5. CASE Stop(c)
  BY <1>0, <1>h, <1>k, <1>5 DEF Stop, ledger, files, run, effects
<1>6. CASE ReserveCall(c)
  <2>1. /\ done[c] < MaxDrafts /\ event[c] \notin BranchEvents /\ ~accepted[c]
        /\ done' = done /\ accepted' = accepted /\ event'[c] = "call_reserved"
    BY <1>0, <1>6 DEF ReserveCall, Exhausted
  <2>2. Here(c) \in Cycles \X Branches /\ done[c] \in Branches /\ Here(c)' = Here(c)
    BY <2>1, <1>0, <1>k DEF Branches
  <2>3. Fresh(Here(c))
    BY <2>1, <2>2, <1>0, <1>k DEF ChainInv
  <2>4. ASSUME NEW b \in Branches, b > done[c] PROVE Fresh(<<c, b>>)'
    BY <2>4, <1>0, <1>6 DEF ReserveCall, files, effects, Here
  <2>5. \A b \in Branches : <<c, b>> \notin capsules'
    BY <2>1, <1>0, <1>6 DEF ReserveCall
  <2> QED BY <2>1, <2>4, <2>5, <1>0
<1>7. CASE ReserveRefused(c)
  BY <1>0, <1>h, <1>k, <1>7 DEF ReserveRefused, ledger, files, run, effects
<1>8. CASE InvokeModel(c)
  BY <1>0, <1>h, <1>k, <1>8 DEF InvokeModel, ledger, files, run, effects
<1>9. CASE RecordResponse(c)
  BY <1>0, <1>h, <1>k, <1>9 DEF RecordResponse, ledger, files, run, effects
<1>10. CASE CallOutcomeUnknown(c)
  BY <1>0, <1>h, <1>k, <1>10 DEF CallOutcomeUnknown, ledger, files, run, effects
<1>11. CASE MalformedResponse(c)
  BY <1>0, <1>h, <1>k, <1>11 DEF MalformedResponse, ledger, files, run, effects
<1>12. CASE PrepareBranch(c)
  BY <1>0, <1>h, <1>k, <1>12 DEF PrepareBranch, ledger, files, run, effects
<1>13. CASE PrepareRefused(c)
  BY <1>0, <1>h, <1>k, <1>13 DEF PrepareRefused, ledger, files, run, effects
<1>14. CASE TerminalBranch(c)
  BY <1>0, <1>h, <1>k, <1>14 DEF TerminalBranch, ledger, files, run, effects
<1>15. CASE StartResolution(c)
  BY <1>0, <1>h, <1>k, <1>15 DEF StartResolution, ledger, files, run, effects
<1>16. CASE PublishArtifact(c)
  BY <1>0, <1>h, <1>k, <1>16 DEF PublishArtifact, ledger, files, run, effects
<1>17. CASE RecordArtifact(c)
  BY <1>0, <1>h, <1>k, <1>17 DEF RecordArtifact, ledger, files, run, effects
<1>18. CASE RecoverArtifact(c)
  BY <1>0, <1>h, <1>k, <1>18 DEF RecoverArtifact, ledger, files, run, effects
<1>19. CASE StartPreflight(c)
  BY <1>0, <1>h, <1>k, <1>19 DEF StartPreflight, ledger, files, run, effects
<1>20. CASE RunPreflight(c)
  BY <1>0, <1>h, <1>k, <1>20 DEF RunPreflight, ledger, files, run, effects
<1>21. CASE RecordPreflight(c)
  BY <1>0, <1>h, <1>k, <1>21 DEF RecordPreflight, ledger, files, run, effects
<1>22. CASE AbandonPreflight(c)
  BY <1>0, <1>h, <1>k, <1>22 DEF AbandonPreflight, ledger, files, run, effects
<1>23. CASE FinalizeBranch(c)
  <2> DEFINE passed == event[c] = "preflight_verified"
  <2>1. /\ event[c] \in PreparedEvents /\ ~accepted[c] /\ done[c] \in Branches
        /\ Here(c) \in Cycles \X Branches
    BY <1>0, <1>h, <1>23 DEF FinalizeBranch
  <2>2. /\ event'[c] = "branch_finalized" /\ done'[c] = done[c] + 1
        /\ accepted'[c] = passed
        /\ capsules' = IF passed THEN capsules \cup {Here(c)} ELSE capsules
        /\ UNCHANGED <<paid, calls, publishes, preflights, artifacts>>
    BY <2>1, <1>0, <1>23 DEF FinalizeBranch, files, effects
  <2>3. \A b \in Branches : <<c, b>> \notin capsules
    BY <2>1, <1>0
  <2>4. passed => /\ Here(c) \in artifacts /\ calls[Here(c)] = 1
                  /\ publishes[Here(c)] = 1 /\ preflights[Here(c)] = 1
    BY <2>1, <1>0, CurrentBranch DEF PreparedInv, BranchInv
  <2>5. ASSUME NEW b \in Branches, b >= done'[c] PROVE Fresh(<<c, b>>)'
    <3>1. Fresh(<<c, b>>) /\ <<c, b>> # Here(c)
      BY <2>2, <2>5, <1>0, <1>k
    <3> QED BY <3>1, <2>2
  <2>6. done'[c] - 1 = done[c]
    BY <2>1, <2>2
  <2>7. accepted'[c] => done'[c] > 0 /\ <<c, done'[c] - 1>> \in capsules'
    BY <2>1, <2>2, <2>6, <1>k
  <2>8. ASSUME NEW b \in Branches, <<c, b>> \in capsules'
        PROVE  /\ accepted'[c] /\ b = done'[c] - 1
               /\ <<c, b>> \in artifacts' /\ calls'[<<c, b>>] = 1
               /\ publishes'[<<c, b>>] = 1 /\ preflights'[<<c, b>>] = 1
    <3>1. passed /\ <<c, b>> = Here(c)
      BY <2>2, <2>3, <2>8
    <3>2. b = done[c]
      BY <3>1, <1>k
    <3>3. /\ <<c, b>> \in artifacts /\ calls[<<c, b>>] = 1
          /\ publishes[<<c, b>>] = 1 /\ preflights[<<c, b>>] = 1
      BY <3>1, <2>4, Zenon
    <3> QED BY <3>1, <3>2, <3>3, <2>2, <2>6
  <2> HIDE DEF passed, Fresh
  <2> QED BY <2>2, <2>5, <2>7, <2>8, <1>0
<1>24. CASE FinalizeCycle(c)
  BY <1>0, <1>h, <1>k, <1>24 DEF FinalizeCycle, ledger, files, run, effects
<1>25. CASE FinalizeRefused(c)
  BY <1>0, <1>h, <1>k, <1>25 DEF FinalizeRefused, ledger, files, run, effects
<1>26. CASE ProjectCycle(c)
  BY <1>0, <1>h, <1>k, <1>26 DEF ProjectCycle, ledger, files, run, effects
<1>27. CASE ProjectRefused(c)
  BY <1>0, <1>h, <1>k, <1>27 DEF ProjectRefused, ledger, files, run, effects
<1> QED BY <1>1, <1>2, <1>3, <1>4, <1>5, <1>6, <1>7, <1>8, <1>9, <1>10, <1>11, <1>12, <1>13,
           <1>14, <1>15, <1>16, <1>17, <1>18, <1>19, <1>20, <1>21, <1>22, <1>23, <1>24, <1>25, <1>26, <1>27 DEF Work

(* What is read of the budget is an upper bound, exact for a cycle alone.  *)
LEMMA BudgetStep ==
  ASSUME Inv, TypeOK', NEW c \in Cycles, Start(c) \/ Work(c) \/ Stop(c)
  PROVE  BudgetInv(c)'
<1> USE DEF TypeOK, CycleInv, BudgetInv, PreparedLeft, Alone, Remaining, PlaceInv,
            BranchEvents, PreparedEvents, Append, EndBranch, GoTo, Leave, BetweenBranches
<1>0. TypeOK /\ CycleInv(c) /\ Limit \in Nat \ {0} /\ MaxDrafts \in Nat
  BY LimitAssumption, DraftsAssumption DEF Inv
<1>h. event[c] \in BranchEvents => Here(c) \in Cycles \X Branches /\ done[c] \in Branches
  BY CurrentBranch
<1>k. Here(c) = <<c, done[c]>> /\ Here(c)' = <<c, done'[c]>>
  BY DEF Here
<1>1. CASE Start(c)
  BY <1>0, <1>h, <1>k, <1>1 DEF Start, ledger, files, run, effects
<1>2. CASE Open(c)
  BY <1>0, <1>h, <1>k, <1>2 DEF Open, ledger, files, run, effects
<1>3. CASE Load(c)
  <2>1. /\ UNCHANGED <<ledger, calls>> /\ seen'[c] = Remaining
        /\ pc'[c] \in {"step", "project"}
    BY <1>0, <1>3 DEF Load, effects
  <2>2. event[c] \in BranchEvents => paid[Here(c)] <= used
    BY <1>h, CurrentBranch DEF BranchInv
  <2> QED BY <2>1, <2>2, <1>0, <1>h, <1>k DEF ledger
<1>4. CASE Reload(c)
  <2>1. /\ UNCHANGED <<ledger, calls>> /\ seen'[c] = Remaining
        /\ pc'[c] \in {"step", "invoke"}
    BY <1>0, <1>4 DEF Reload, effects
  <2>2. event[c] \in BranchEvents => paid[Here(c)] <= used
    BY <1>h, CurrentBranch DEF BranchInv
  <2> QED BY <2>1, <2>2, <1>0, <1>h, <1>k DEF ledger
<1>5. CASE Stop(c)
  BY <1>0, <1>h, <1>k, <1>5 DEF Stop, ledger, files, run, effects
<1>6. CASE ReserveCall(c)
  BY <1>0, <1>h, <1>k, <1>6 DEF ReserveCall, ledger, files, run, effects
<1>7. CASE ReserveRefused(c)
  BY <1>0, <1>h, <1>k, <1>7 DEF ReserveRefused, ledger, files, run, effects
<1>8. CASE InvokeModel(c)
  BY <1>0, <1>h, <1>k, <1>8 DEF InvokeModel, ledger, files, run, effects
<1>9. CASE RecordResponse(c)
  BY <1>0, <1>h, <1>k, <1>9 DEF RecordResponse, ledger, files, run, effects
<1>10. CASE CallOutcomeUnknown(c)
  BY <1>0, <1>h, <1>k, <1>10 DEF CallOutcomeUnknown, ledger, files, run, effects
<1>11. CASE MalformedResponse(c)
  BY <1>0, <1>h, <1>k, <1>11 DEF MalformedResponse, ledger, files, run, effects
<1>12. CASE PrepareBranch(c)
  <2>1. PICK d \in 1..Limit, p \in [reason : {"none", "time", "contract_invalid",
                                             "budget_exhausted", "rejected"},
                                   debit : Nat, before : 0..Limit] :
          /\ p.debit = d /\ p.before = seen[c] + 1 /\ d <= seen[c] + 1
          /\ prepared' = [prepared EXCEPT ![c] = p]
          /\ paid' = [paid EXCEPT ![Here(c)] = d]
          /\ used' = used + d - 1
    BY <1>12, Prepares
  <2>2. /\ event[c] = "call_response_recorded" /\ pc[c] = "step"
        /\ event'[c] = "branch_prepared" /\ pc'[c] = "read" /\ done' = done
        /\ UNCHANGED seen
    BY <1>0, <1>12 DEF PrepareBranch
  <2>3. Here(c) \in Cycles \X Branches /\ Here(c)' = Here(c)
    BY <2>2, <1>h, <1>k
  <2>4. paid'[Here(c)] = d /\ prepared'[c] = p
    BY <2>1, <2>3, <1>0
  <2>5. Remaining' = Remaining - d + 1 /\ Remaining \in Int /\ seen[c] \in Int
    BY <2>1, <1>0
  <2>6. Remaining <= seen[c]
    BY <2>2, <1>0
  <2>7. Remaining' <= seen'[c]
    BY <2>1, <2>2, <2>5, <2>6
  <2>8. ASSUME Alone(c)' PROVE PreparedLeft(c)' = Remaining'
    <3>1. Alone(c)
      BY <2>8, <2>1, <1>0, <1>k
    <3>2. seen[c] = Remaining
      BY <3>1, <2>2, <1>0
    <3>3. PreparedLeft(c)' = p.before - d
      BY <2>3, <2>4
    <3> QED BY <3>2, <3>3, <2>1, <2>5
  <2> HIDE DEF Remaining, PreparedLeft, Alone
  <2> QED BY <2>2, <2>7, <2>8
<1>13. CASE PrepareRefused(c)
  BY <1>0, <1>h, <1>k, <1>13 DEF PrepareRefused, ledger, files, run, effects
<1>14. CASE TerminalBranch(c)
  BY <1>0, <1>h, <1>k, <1>14 DEF TerminalBranch, ledger, files, run, effects
<1>15. CASE StartResolution(c)
  BY <1>0, <1>h, <1>k, <1>15 DEF StartResolution, ledger, files, run, effects
<1>16. CASE PublishArtifact(c)
  BY <1>0, <1>h, <1>k, <1>16 DEF PublishArtifact, ledger, files, run, effects
<1>17. CASE RecordArtifact(c)
  BY <1>0, <1>h, <1>k, <1>17 DEF RecordArtifact, ledger, files, run, effects
<1>18. CASE RecoverArtifact(c)
  BY <1>0, <1>h, <1>k, <1>18 DEF RecoverArtifact, ledger, files, run, effects
<1>19. CASE StartPreflight(c)
  BY <1>0, <1>h, <1>k, <1>19 DEF StartPreflight, ledger, files, run, effects
<1>20. CASE RunPreflight(c)
  BY <1>0, <1>h, <1>k, <1>20 DEF RunPreflight, ledger, files, run, effects
<1>21. CASE RecordPreflight(c)
  BY <1>0, <1>h, <1>k, <1>21 DEF RecordPreflight, ledger, files, run, effects
<1>22. CASE AbandonPreflight(c)
  BY <1>0, <1>h, <1>k, <1>22 DEF AbandonPreflight, ledger, files, run, effects
<1>23. CASE FinalizeBranch(c)
  BY <1>0, <1>h, <1>k, <1>23 DEF FinalizeBranch, ledger, files, run, effects
<1>24. CASE FinalizeCycle(c)
  <2>1. /\ event[c] = "branch_finalized" /\ pc[c] = "step"
        /\ event'[c] = "cycle_finalized" /\ pc'[c] = "project"
        /\ final'[c] = seen[c] /\ UNCHANGED <<left, used, paid, seen>>
    BY <1>0, <1>24, OpenedAllows DEF FinalizeCycle
  <2>2. Alone(c)' => Alone(c)
    BY <2>1
  <2> QED BY <2>1, <2>2, <1>0
<1>25. CASE FinalizeRefused(c)
  BY <1>0, <1>h, <1>k, <1>25 DEF FinalizeRefused, ledger, files, run, effects
<1>26. CASE ProjectCycle(c)
  BY <1>0, <1>h, <1>k, <1>26 DEF ProjectCycle, ledger, files, run, effects
<1>27. CASE ProjectRefused(c)
  BY <1>0, <1>h, <1>k, <1>27 DEF ProjectRefused, ledger, files, run, effects
<1> QED BY <1>1, <1>2, <1>3, <1>4, <1>5, <1>6, <1>7, <1>8, <1>9, <1>10, <1>11, <1>12, <1>13,
           <1>14, <1>15, <1>16, <1>17, <1>18, <1>19, <1>20, <1>21, <1>22, <1>23, <1>24, <1>25, <1>26, <1>27 DEF Work

-----------------------------------------------------------------------------
(* A payment of n units for one branch adds n to the units debited.        *)
LEMMA DebitsGrow ==
  ASSUME TypeOK, NEW k \in Cycles \X Branches, NEW n \in Nat, paid[k] + n <= Limit,
         paid' = [paid EXCEPT ![k] = paid[k] + n]
  PROVE  Cardinality(Debits') = Cardinality(Debits) + n
<1> DEFINE lo == paid[k] + 1
           hi == paid[k] + n
           New == {k} \X (lo..hi)
           Units == (Cycles \X Branches) \X (1..Limit)
<1>1. paid[k] \in 0..Limit /\ lo \in Int /\ hi \in Int /\ Limit \in Nat /\ 0 \in Int
  BY LimitAssumption DEF TypeOK
<1>2. IsFiniteSet(Branches) /\ IsFiniteSet(1..Limit)
  <2>1. MaxDrafts - 1 \in Int
    BY DraftsAssumption
  <2> QED BY <1>1, <2>1, FS_Interval DEF Branches
<1>3. IsFiniteSet(Units)
  <2>1. IsFiniteSet(Cycles \X Branches)
    BY <1>2, CyclesAssumption, FS_Product
  <2> QED BY <2>1, <1>2, FS_Product
<1>4. IsFiniteSet(Debits) /\ Cardinality(Debits) \in Nat
  <2>1. Debits \in SUBSET Units
    BY DEF Debits
  <2>2. IsFiniteSet(Debits)
    BY <2>1, <1>3, FS_Subset
  <2> QED BY <2>2, FS_CardinalityType
<1>5. IsFiniteSet(New) /\ Cardinality(New) = n
  <2>1. IsFiniteSet(lo..hi) /\ Cardinality(lo..hi) = n
    <3>1. Cardinality(lo..hi) = (IF lo > hi THEN 0 ELSE hi - lo + 1) /\ IsFiniteSet(lo..hi)
      BY <1>1, FS_Interval
    <3>2. (IF lo > hi THEN 0 ELSE hi - lo + 1) = n
      BY <1>1
    <3> QED BY <3>1, <3>2
  <2>2. IsFiniteSet({k}) /\ Cardinality({k}) = 1
    BY FS_Singleton
  <2>3. IsFiniteSet({k} \X (lo..hi))
        /\ Cardinality({k} \X (lo..hi)) = Cardinality({k}) * Cardinality(lo..hi)
    BY <2>1, <2>2, FS_Product
  <2>4. 1 * n = n
    OBVIOUS
  <2> QED BY <2>1, <2>2, <2>3, <2>4
<1>6. Debits' = Debits \cup New
  <2>1. \A j \in Cycles \X Branches : paid'[j] = IF j = k THEN paid[k] + n ELSE paid[j]
    BY DEF TypeOK
  <2>2. Debits' = {u \in Units : u[2] <= paid'[u[1]]}
    BY DEF Debits
  <2>3. ASSUME NEW u \in Units PROVE u[2] <= paid'[u[1]] <=> u \in Debits \/ u \in New
    <3>1. u[1] \in Cycles \X Branches /\ u[2] \in 1..Limit /\ u = <<u[1], u[2]>>
      OBVIOUS
    <3>2. u \in Debits <=> u[2] <= paid[u[1]]
      BY DEF Debits
    <3>3. u \in New <=> u[1] = k /\ u[2] \in lo..hi
      BY <3>1
    <3>4. CASE u[1] = k
      <4>1. paid'[u[1]] = paid[k] + n /\ paid[u[1]] = paid[k]
        BY <2>1, <3>1, <3>4
      <4> QED BY <1>1, <3>1, <3>2, <3>3, <3>4, <4>1
    <3>5. CASE u[1] # k
      BY <2>1, <3>1, <3>2, <3>3, <3>5
    <3> QED BY <3>4, <3>5
  <2>4. Debits \subseteq Units /\ New \subseteq Units
    BY <1>1 DEF Debits
  <2> HIDE DEF Units, New
  <2> QED BY <2>2, <2>3, <2>4
<1>7. Debits \cap New = {}
  <2>1. ASSUME NEW u \in Debits, u \in New PROVE FALSE
    <3>1. u[2] <= paid[u[1]] /\ u[1] = k /\ u[2] \in lo..hi
      BY <2>1 DEF Debits
    <3> QED BY <3>1, <1>1
  <2> QED BY <2>1
<1>8. Cardinality(Debits \cup New)
        = Cardinality(Debits) + Cardinality(New) - Cardinality(Debits \cap New)
  BY <1>4, <1>5, FS_Union
<1>9. Cardinality(Debits \cap New) = 0
  BY <1>7, FS_EmptySet
<1> HIDE DEF New
<1> QED BY <1>4, <1>5, <1>6, <1>8, <1>9

(* The account's total counts the units debited after every step too.      *)
LEMMA TotalStep ==
  ASSUME Inv, NEW c \in Cycles, Start(c) \/ Work(c) \/ Stop(c)
  PROVE  used' = Cardinality(Debits')
<1>0. TypeOK /\ used = Cardinality(Debits)
  BY DEF Inv
<1>1. CASE UNCHANGED <<paid, used>>
  BY <1>0, <1>1 DEF Debits
<1>2. CASE ReserveCall(c)
  <2>1. done[c] < MaxDrafts /\ event[c] \notin BranchEvents
    BY <1>2, DraftsAssumption
       DEF ReserveCall, Exhausted, Inv, TypeOK, BetweenBranches, BranchEvents, PreparedEvents
  <2>2. Here(c) \in Cycles \X Branches
    BY <2>1, DraftsAssumption DEF Inv, TypeOK, Here, Branches
  <2>3. paid[Here(c)] = 0
    BY <2>1, <2>2 DEF Inv, CycleInv, ChainInv, Fresh, Here
  <2>4. paid' = [paid EXCEPT ![Here(c)] = 1] /\ used' = used + 1
    BY <1>2 DEF ReserveCall
  <2>5. paid' = [paid EXCEPT ![Here(c)] = paid[Here(c)] + 1] /\ paid[Here(c)] + 1 <= Limit
    BY <2>3, <2>4, LimitAssumption
  <2> HIDE DEF Here
  <2>6. Cardinality(Debits') = Cardinality(Debits) + 1
    BY <1>0, <2>2, <2>5, DebitsGrow
  <2> QED BY <1>0, <2>4, <2>6
<1>3. CASE PrepareBranch(c)
  <2>1. PICK d \in 1..Limit : paid' = [paid EXCEPT ![Here(c)] = d] /\ used' = used + d - 1
    BY <1>3, Prepares
  <2>2. Here(c) \in Cycles \X Branches /\ paid[Here(c)] = 1
    BY <1>3, CurrentBranch DEF PrepareBranch, BranchEvents, Inv, CycleInv, AnsweredInv
  <2> HIDE DEF Here
  <2>3. d - 1 \in Nat /\ paid[Here(c)] + (d - 1) = d /\ d <= Limit
    BY <2>2, LimitAssumption
  <2>4. Cardinality(Debits') = Cardinality(Debits) + (d - 1)
    BY <1>0, <2>1, <2>2, <2>3, DebitsGrow
  <2>5. used + d - 1 = used + (d - 1)
    BY <1>0 DEF TypeOK
  <2> QED BY <1>0, <2>1, <2>4, <2>5
<1> QED BY <1>1, <1>2, <1>3
        DEF Start, Stop, Leave, Work, Open, Load, Reload, ReserveRefused, InvokeModel,
            RecordResponse, CallOutcomeUnknown, MalformedResponse, PrepareRefused,
            TerminalBranch, StartResolution, PublishArtifact, RecordArtifact,
            RecoverArtifact, StartPreflight, RunPreflight, RecordPreflight,
            AbandonPreflight, FinalizeBranch, FinalizeCycle, FinalizeRefused,
            ProjectCycle, ProjectRefused, ledger

(* Every effect keeps its cause, whichever branch a step is about.         *)
LEMMA BranchStep ==
  ASSUME Inv, TypeOK', NEW c \in Cycles, Start(c) \/ Work(c) \/ Stop(c),
         NEW k \in Cycles \X Branches
  PROVE  BranchInv(k)'
<1>0. TypeOK /\ TypeOK' /\ BranchInv(k) /\ Spends(c) /\ CycleInv(c)
  BY SpendsStep DEF Inv
<1>h. event[c] \in BranchEvents => Here(c) \in Cycles \X Branches /\ BranchInv(Here(c))
  BY CurrentBranch
<1>1. CASE UNCHANGED <<paid, used, calls, publishes, preflights, artifacts>>
  BY <1>0, <1>1 DEF BranchInv
<1>2. CASE ReserveCall(c) \/ PrepareBranch(c)
  <2>1. UNCHANGED <<calls, publishes, preflights, artifacts>>
    BY <1>2 DEF ReserveCall, PrepareBranch, effects, files
  <2>2. paid'[k] >= paid[k] /\ paid[k] \in Nat /\ paid'[k] \in Nat
    BY <1>0 DEF TypeOK, Spends
  <2>3. paid'[k] <= used'
    <3>1. CASE ReserveCall(c)
      <4>1. paid' = [paid EXCEPT ![Here(c)] = 1] /\ used' = used + 1
        BY <3>1 DEF ReserveCall
      <4>2. paid'[k] = paid[k] \/ paid'[k] = 1
        BY <4>1, <1>0 DEF TypeOK
      <4> QED BY <4>1, <4>2, <1>0 DEF BranchInv, TypeOK
    <3>2. CASE PrepareBranch(c)
      <4>1. PICK d \in 1..Limit : paid' = [paid EXCEPT ![Here(c)] = d] /\ used' = used + d - 1
        BY <3>2, Prepares
      <4>2. event[c] \in BranchEvents /\ paid[Here(c)] = 1
        BY <3>2, <1>0 DEF PrepareBranch, BranchEvents, CycleInv, AnsweredInv
      <4>3. paid'[k] = IF k = Here(c) THEN d ELSE paid[k]
        BY <4>1, <1>0 DEF TypeOK
      <4>4. used \in Nat /\ 1 <= used
        BY <4>2, <1>0, <1>h DEF BranchInv, TypeOK
      <4>5. d \in Nat /\ d >= 1
        BY LimitAssumption
      <4> QED BY <4>1, <4>3, <4>4, <4>5, <2>2, <1>0 DEF BranchInv
    <3> QED BY <1>2, <3>1, <3>2
  <2> QED BY <1>0, <2>1, <2>2, <2>3 DEF BranchInv
<1>3. CASE InvokeModel(c)
  <2>1. event[c] \in BranchEvents /\ paid[Here(c)] = 1 /\ calls[Here(c)] = 0
    BY <1>3, <1>0 DEF InvokeModel, BranchEvents, CycleInv, PlaceInv, ReservedInv
  <2>2. calls' = [calls EXCEPT ![Here(c)] = 1]
    BY <1>3, <2>1, <1>h, <1>0 DEF InvokeModel, TypeOK
  <2>3. UNCHANGED <<paid, used, publishes, preflights, artifacts>>
    BY <1>3 DEF InvokeModel, ledger, files
  <2> HIDE DEF Here
  <2> QED BY <1>0, <1>h, <2>1, <2>2, <2>3 DEF BranchInv, TypeOK
<1>4. CASE PublishArtifact(c)
  <2>1. event[c] \in BranchEvents /\ publishes[Here(c)] = 0 /\ preflights[Here(c)] = 0
    BY <1>4, <1>0 DEF PublishArtifact, BranchEvents, PreparedEvents, CycleInv, PlaceInv, PreparedInv
  <2>2. publishes' = [publishes EXCEPT ![Here(c)] = 1]
    BY <1>4, <2>1, <1>h, <1>0 DEF PublishArtifact, TypeOK
  <2>3. /\ UNCHANGED <<paid, used, calls, preflights>>
        /\ artifacts' \in {artifacts, artifacts \cup {Here(c)}}
    BY <1>4 DEF PublishArtifact, ledger
  <2> HIDE DEF Here
  <2> QED BY <1>0, <1>h, <2>1, <2>2, <2>3 DEF BranchInv, TypeOK
<1>5. CASE RunPreflight(c)
  <2>1. event[c] \in BranchEvents /\ preflights[Here(c)] = 0 /\ Here(c) \in artifacts
    BY <1>5, <1>0 DEF RunPreflight, BranchEvents, PreparedEvents, CycleInv, PlaceInv, PreparedInv
  <2>2. preflights' = [preflights EXCEPT ![Here(c)] = 1]
    BY <1>5, <2>1, <1>h, <1>0 DEF RunPreflight, TypeOK
  <2>3. UNCHANGED <<paid, used, calls, publishes, artifacts>>
    BY <1>5 DEF RunPreflight, ledger, files
  <2> HIDE DEF Here
  <2> QED BY <1>0, <1>h, <2>1, <2>2, <2>3 DEF BranchInv, TypeOK
<1> QED BY <1>1, <1>2, <1>3, <1>4, <1>5
        DEF Start, Stop, Leave, Work, Open, Load, Reload, ReserveRefused,
            RecordResponse, CallOutcomeUnknown, MalformedResponse, PrepareRefused,
            TerminalBranch, StartResolution, RecordArtifact, RecoverArtifact,
            StartPreflight, RecordPreflight, AbandonPreflight, FinalizeBranch,
            FinalizeCycle, FinalizeRefused, ProjectCycle, ProjectRefused,
            ledger, files, effects

LEMMA InitInv == Init => Inv
<1> SUFFICES ASSUME Init PROVE Inv
  OBVIOUS
<1>1. TypeOK
  BY LimitAssumption, DraftsAssumption, StopsAssumption
     DEF Init, TypeOK, EventKinds, Places, NoReply, NoPrepared
<1>2. Debits = {}
  BY DEF Init, Debits
<1>3. used = Cardinality(Debits)
  BY <1>2, FS_EmptySet DEF Init
<1>4. ASSUME NEW k \in Cycles \X Branches PROVE BranchInv(k)
  BY DEF Init, BranchInv
<1>5. ASSUME NEW c \in Cycles PROVE CycleInv(c)
  BY LimitAssumption, DraftsAssumption
     DEF Init, CycleInv, PlaceInv, ReservedInv, AnsweredInv, PreparedInv, ChainInv,
         BudgetInv, Fresh, BranchEvents, PreparedEvents, Branches
<1> QED BY <1>1, <1>3, <1>4, <1>5 DEF Inv

LEMMA NextInv == Inv /\ [Next]_vars => Inv'
<1> SUFFICES ASSUME Inv, [Next]_vars PROVE Inv'
  OBVIOUS
<1>1. CASE UNCHANGED vars
  <2> USE <1>1 DEF vars, ledger, files, run, effects
  <2>1. TypeOK' /\ (used = Cardinality(Debits))'
    BY DEF Inv, TypeOK, Debits
  <2>2. \A k \in Cycles \X Branches : BranchInv(k)'
    BY DEF Inv, BranchInv
  <2>3. ASSUME NEW c \in Cycles PROVE CycleInv(c)'
    <3>1. CycleInv(c) /\ Here(c)' = Here(c)
      BY DEF Inv, Here
    <3>2. (PlaceInv(c) /\ ReservedInv(c) /\ AnsweredInv(c) /\ PreparedInv(c))'
      BY <3>1 DEF CycleInv, PlaceInv, ReservedInv, AnsweredInv, PreparedInv, PreparedLeft
    <3>3. ChainInv(c)'
      BY <3>1 DEF CycleInv, ChainInv, Fresh
    <3>4. BudgetInv(c)'
      BY <3>1 DEF CycleInv, BudgetInv, PreparedLeft, Alone, Remaining
    <3> QED BY <3>2, <3>3, <3>4 DEF CycleInv
  <2> QED BY <2>1, <2>2, <2>3 DEF Inv
<1>2. ASSUME NEW c \in Cycles, Start(c) \/ Work(c) \/ Stop(c) PROVE Inv'
  <2>1. TypeOK'
    BY <1>2, TypeStep
  <2>2. (used = Cardinality(Debits))'
    BY <1>2, TotalStep
  <2>3. \A k \in Cycles \X Branches : BranchInv(k)'
    BY <1>2, <2>1, BranchStep
  <2>4. CycleInv(c)'
    BY <1>2, <2>1, PlaceStep, ReservedStep, AnsweredStep, PreparedStep, ChainStep, BudgetStep
       DEF CycleInv
  <2>5. ASSUME NEW d \in Cycles \ {c} PROVE CycleInv(d)'
    BY <1>2, <2>1, <2>5, SpendsStep, KeptStep, OtherCycles
  <2>6. \A d \in Cycles : CycleInv(d)'
    BY <2>4, <2>5
  <2> QED BY <2>1, <2>2, <2>3, <2>6 DEF Inv
<1> QED BY <1>1, <1>2 DEF Next

-----------------------------------------------------------------------------
(* The inductive invariant holds at all times.                             *)
THEOREM Invariance == Spec => []Inv
BY InitInv, NextInv, PTL DEF Spec

(* Every variable of the ledger, the files and the runs keeps its type:    *)
(* above all no debit leaves 0..Limit (day_discovery_ledger.py:224).       *)
THEOREM TypeCorrect == Spec => []TypeOK
<1>1. Inv => TypeOK
  BY DEF Inv
<1> QED BY <1>1, Invariance, PTL

(* What the ledger's audits assert holds at all times: debits and prepared *)
(* branches agree, and the total is the number of units debited            *)
(* (day_discovery_effect_state.py, _cycle_local_remaining_budget).         *)
THEOREM AuditsHold == Spec => []AuditHolds
<1>1. Inv => AuditHolds
  BY DEF Inv, TypeOK, AuditHolds, CycleInv, PreparedInv
<1> QED BY <1>1, Invariance, PTL

(* No artifact is published twice, no sandbox run twice, and none without  *)
(* an artifact in the store, over all runs of a cycle                      *)
(* (recover_or_publish_artifact, day_discovery_effect_state.py:133).       *)
THEOREM NoEffectTwice == Spec => []EffectsOnce
<1>1. Inv => EffectsOnce
  <2> SUFFICES ASSUME Inv, NEW k \in Cycles \X Branches
               PROVE  publishes[k] <= 1 /\ preflights[k] <= 1
                      /\ (preflights[k] > 0 => k \in artifacts)
    BY DEF EffectsOnce
  <2>1. BranchInv(k) /\ preflights[k] \in Nat
    BY DEF Inv, TypeOK
  <2> QED BY <2>1 DEF BranchInv
<1> QED BY <1>1, Invariance, PTL

(* An accepted cycle ended with the branch that was asked for, published,  *)
(* run and registered once, whichever runs did it (finalize_authoritative_ *)
(* branch).                                                                *)
THEOREM AcceptedCycles == Spec => []AcceptedIsBacked
<1>1. Inv => AcceptedIsBacked
  <2> SUFFICES ASSUME Inv PROVE AcceptedIsBacked
    OBVIOUS
  <2>1. ASSUME NEW c \in Cycles, accepted[c]
        PROVE  event[c] \in {"branch_finalized", "cycle_finalized"}
               /\ <<c, done[c] - 1>> \in capsules
    BY <2>1 DEF Inv, TypeOK, EventKinds, CycleInv, ChainInv, BranchEvents, PreparedEvents
  <2>2. ASSUME NEW k \in capsules
        PROVE  /\ accepted[k[1]] /\ k[2] = done[k[1]] - 1
               /\ k \in artifacts
               /\ calls[k] = 1 /\ publishes[k] = 1 /\ preflights[k] = 1
    <3>1. k \in Cycles \X Branches
      BY DEF Inv, TypeOK
    <3>2. PICK c \in Cycles, b \in Branches : k = <<c, b>>
      BY <3>1
    <3>3. /\ accepted[c] /\ b = done[c] - 1
          /\ <<c, b>> \in artifacts
          /\ calls[<<c, b>>] = 1 /\ publishes[<<c, b>>] = 1 /\ preflights[<<c, b>>] = 1
      BY <3>2 DEF Inv, CycleInv, ChainInv
    <3> QED BY <3>2, <3>3
  <2> QED BY <2>1, <2>2 DEF AcceptedIsBacked
<1> QED BY <1>1, Invariance, PTL

(* A finalized cycle that had its account to itself can be projected by    *)
(* whichever run comes to it (_project_final_cycle,                        *)
(* day_discovery_state_machine.py:764).                                    *)
THEOREM FinalizedCanBeProjected == Spec => []FinalizedProjects
<1>1. Inv => FinalizedProjects
  <2> SUFFICES ASSUME Inv, NEW c \in Cycles, event[c] = "cycle_finalized", Alone(c)
               PROVE  Projects(c)
    BY DEF FinalizedProjects, Alone
  <2>1. final[c] = left[c]
    BY DEF Inv, CycleInv, BudgetInv
  <2>2. ASSUME accepted[c]
        PROVE  \E b \in Branches : b < done[c] /\ <<c, b>> \in capsules
                                   /\ <<c, b>> \in artifacts
    <3>1. done[c] > 0 /\ <<c, done[c] - 1>> \in capsules /\ done[c] \in 0..MaxDrafts
      BY <2>2 DEF Inv, TypeOK, CycleInv, ChainInv
    <3>2. done[c] - 1 \in Branches /\ done[c] - 1 < done[c]
      BY <3>1, DraftsAssumption DEF Branches
    <3>3. <<c, done[c] - 1>> \in artifacts
      BY <3>1, <3>2 DEF Inv, CycleInv, ChainInv
    <3> QED BY <3>1, <3>2, <3>3
  <2> QED BY <2>1, <2>2 DEF Projects
<1> QED BY <1>1, Invariance, PTL

-----------------------------------------------------------------------------
(* Every step of the discovery is a payment, a call or a top-up of the     *)
(* contract, or leaves the contract's state alone.                         *)
LEMMA ContractStep ==
  ASSUME Inv, NEW c \in Cycles, Start(c) \/ Work(c) \/ Stop(c)
  PROVE  Contract!Next \/ UNCHANGED <<paid, used, calls>>
<1>0. TypeOK /\ CycleInv(c)
  BY DEF Inv
<1>1. CASE UNCHANGED <<paid, used, calls>>
  BY <1>1
<1>2. CASE ReserveCall(c)
  <2>1. done[c] < MaxDrafts /\ event[c] \notin BranchEvents
    BY <1>2, DraftsAssumption
       DEF ReserveCall, Exhausted, Inv, TypeOK, BetweenBranches, BranchEvents, PreparedEvents
  <2>2. Here(c) \in Cycles \X Branches
    BY <2>1, DraftsAssumption DEF Inv, TypeOK, Here, Branches
  <2>3. paid[Here(c)] = 0
    BY <2>1, <2>2 DEF Inv, CycleInv, ChainInv, Fresh, Here
  <2>4. Contract!Pay(Here(c))
    BY <1>2, <2>3 DEF ReserveCall, effects, Contract!Pay
  <2> QED BY <2>2, <2>4 DEF Contract!Next
<1>3. CASE InvokeModel(c)
  <2>1. event[c] = "call_reserved" /\ paid[Here(c)] = 1 /\ calls[Here(c)] = 0
    BY <1>0, <1>3 DEF InvokeModel, CycleInv, PlaceInv, ReservedInv
  <2>2. Here(c) \in Cycles \X Branches
    BY <2>1, CurrentBranch DEF BranchEvents
  <2>3. calls' = [calls EXCEPT ![Here(c)] = 1] /\ UNCHANGED <<paid, used>>
    BY <1>0, <1>3, <2>1, <2>2 DEF InvokeModel, ledger, TypeOK
  <2>4. Contract!Make(Here(c))
    BY <2>1, <2>3 DEF Contract!Make
  <2> QED BY <2>2, <2>4 DEF Contract!Next
<1>4. CASE PrepareBranch(c)
  <2>1. PICK d \in 1..Limit :
          paid' = [paid EXCEPT ![Here(c)] = d] /\ used' = used + d - 1 /\ used' <= Limit
    BY <1>4, Prepares
  <2>2. event[c] = "call_response_recorded" /\ paid[Here(c)] = 1 /\ calls[Here(c)] = 1
    BY <1>0, <1>4 DEF PrepareBranch, CycleInv, AnsweredInv
  <2>3. Here(c) \in Cycles \X Branches
    BY <2>2, CurrentBranch DEF BranchEvents
  <2>4. /\ d - 1 \in 0..(Limit - used) /\ d = 1 + (d - 1)
        /\ used' = used + (d - 1)
    BY <2>1, <1>0, LimitAssumption DEF TypeOK
  <2>5. UNCHANGED calls
    BY <1>4 DEF PrepareBranch, effects
  <2>6. Contract!TopUp(Here(c))
    BY <2>1, <2>2, <2>4, <2>5 DEF Contract!TopUp
  <2> QED BY <2>3, <2>6 DEF Contract!Next
<1> QED BY <1>1, <1>2, <1>3, <1>4
        DEF Start, Stop, Leave, Work, Open, Load, Reload, ReserveRefused,
            RecordResponse, CallOutcomeUnknown, MalformedResponse, PrepareRefused,
            TerminalBranch, StartResolution, PublishArtifact, RecordArtifact,
            RecoverArtifact, StartPreflight, RunPreflight, RecordPreflight,
            AbandonPreflight, FinalizeBranch, FinalizeCycle, FinalizeRefused,
            ProjectCycle, ProjectRefused, ledger, effects

(* The ledger and the model client implement the prepaid-call contract:    *)
(* whatever runs die and whatever cycles interleave, a call is debited     *)
(* before it is made, made once, and the account stays within its limit    *)
(* (reserve_day_discovery_call, run_authoritative_cycle).                  *)
THEOREM ImplementsContract == Spec => ContractSpec
<1>1. Init => Contract!Init
  BY DEF Init, Contract!Init
<1>2. Inv /\ [Next]_vars => [Contract!Next]_(Contract!contractVars)
  <2> SUFFICES ASSUME Inv, [Next]_vars
               PROVE  Contract!Next \/ UNCHANGED <<paid, used, calls>>
    BY DEF Contract!contractVars
  <2>1. CASE UNCHANGED vars
    BY <2>1 DEF vars, ledger, effects
  <2>2. CASE Next
    BY <2>2, ContractStep DEF Next
  <2> QED BY <2>1, <2>2
<1> QED BY <1>1, <1>2, Invariance, PTL DEF Spec, ContractSpec, Contract!Spec
=============================================================================
