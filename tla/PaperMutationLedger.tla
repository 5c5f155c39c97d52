------------------------- MODULE PaperMutationLedger -------------------------
(***************************************************************************)
(* The append-only ledger of Paper broker mutations: what an event log of  *)
(* one mutation key may look like (paper_mutation_transitions.py), what it *)
(* says to the executor (_existing_result) and to recovery                 *)
(* (_RECOVERABLE_TYPES), and how recovery judges broker evidence           *)
(* (paper_mutation_recovery_rules.py, paper_entry_mutation_recovery.py).   *)
(*                                                                         *)
(* An event log is the sequence, in event_id order, of the events stored   *)
(* for one mutation key.  Identifiers, hashes, request ids and prices are  *)
(* left out; occurred_at is kept by the state machine as the age of the    *)
(* latest ATTEMPTED event.                                                 *)
(***************************************************************************)
EXTENDS Naturals, Sequences

EventType == {"ATTEMPTED", "ACKNOWLEDGED", "REJECTED", "AMBIGUOUS",
              "RECOVERED_ACKNOWLEDGED", "RECOVERED_ABSENT"}

\* The operations, with the two cancels (of a protective OCO and of a safety
\* plan's order) under one name: recovery treats them alike.
Operation == {"SUBMIT_ENTRY", "SUBMIT_PROTECTIVE_OCO", "CANCEL_ORDER", "CLOSE_POSITION"}

Event == [attempt : Nat \ {0}, type : EventType]

MutationEvent(a, t) == [attempt |-> a, type |-> t]

Latest(es) == es[Len(es)]

Attempts(es) == {es[i].attempt : i \in DOMAIN es}

\* max(event.attempt_number, default=0)
LatestAttempt(es) ==
  IF es = <<>> THEN 0
  ELSE CHOOSE a \in Attempts(es) : \A b \in Attempts(es) : b <= a

\* The types of the events of attempt a: the code's same_attempt.
TypesOf(es, a) == {es[i].type : i \in {j \in DOMAIN es : es[j].attempt = a}}

RequireNewAttempt(es, a) ==
  /\ TypesOf(es, a) = {}
  /\ a = LatestAttempt(es) + 1
  /\ \/ LatestAttempt(es) = 0
     \/ "RECOVERED_ABSENT" \in TypesOf(es, LatestAttempt(es))

\* An outcome of the broker call closes an attempt that has nothing but its
\* ATTEMPTED event.
RequireOutcome(es, a) == TypesOf(es, a) = {"ATTEMPTED"}

\* A recovery verdict needs an AMBIGUOUS event and no earlier verdict.
RequireRecovered(es, a) ==
  /\ {"ATTEMPTED", "AMBIGUOUS"} \subseteq TypesOf(es, a)
  /\ TypesOf(es, a) \cap {"RECOVERED_ACKNOWLEDGED", "RECOVERED_ABSENT"} = {}

\* require_mutation_transition: FALSE stands for the error it raises.
RequireMutationTransition(es, e) ==
  \/ e.type = "ATTEMPTED" /\ RequireNewAttempt(es, e.attempt)
  \/ /\ e.type \in {"ACKNOWLEDGED", "REJECTED", "AMBIGUOUS"}
     /\ RequireOutcome(es, e.attempt)
  \/ /\ e.type \in {"RECOVERED_ACKNOWLEDGED", "RECOVERED_ABSENT"}
     /\ RequireRecovered(es, e.attempt)

\* The executor's answer from the log alone; "NONE" lets it attempt.
ExistingResult(es) ==
  CASE es = <<>> -> "NONE"
    [] es # <<>> /\ Latest(es).type = "RECOVERED_ABSENT" -> "NONE"
    [] es # <<>> /\ Latest(es).type \in {"ACKNOWLEDGED", "RECOVERED_ACKNOWLEDGED"}
         -> "ALREADY_ACKNOWLEDGED"
    [] es # <<>> /\ Latest(es).type = "REJECTED" -> "REJECTED"
    [] OTHER -> "AMBIGUOUS"

RecoverableTypes == {"ATTEMPTED", "AMBIGUOUS"}

Recoverable(es) == es # <<>> /\ Latest(es).type \in RecoverableTypes

-----------------------------------------------------------------------------
(***************************************************************************)
(* Broker evidence, abstracted to what the decision procedures tell apart. *)
(*   match / none / mismatch   the targeted GET by client order id         *)
(*   conflict    404 for the OCO's client id, yet the order lists show it  *)
(*   effect / retryable / other   status of the order to be cancelled      *)
(*   live / failed / failed_moved / untouched / moved   the close order    *)
(*               submitted since the attempt, and the position             *)
(***************************************************************************)
Evidence == {"match", "none", "mismatch", "conflict", "effect", "retryable", "other",
             "live", "failed", "failed_moved", "untouched", "moved"}

Verdict == {"ACKNOWLEDGED", "ABSENT", "UNRESOLVED"}

DecideEntryMutationRecovery(evidence, settled) ==
  CASE evidence = "match" -> "ACKNOWLEDGED"
    [] evidence = "none" /\ settled -> "ABSENT"
    [] OTHER -> "UNRESOLVED"

\* Mutant: an OCO that was not found counts as submitted once the delay is over.
OcoDecisionSettledIsDone(evidence, settled) ==
  CASE evidence = "match" \/ settled -> "ACKNOWLEDGED"
    [] OTHER -> "UNRESOLVED"

OcoDecision(evidence, settled) ==
  CASE evidence = "match" -> "ACKNOWLEDGED"
    [] evidence = "none" /\ settled -> "ABSENT"
    [] OTHER -> "UNRESOLVED"

\* Mutant: a cancel target that is missing or in an unknown state counts as done.
CancelDecisionMissingIsDone(evidence, settled) ==
  CASE evidence \in {"effect", "other"} -> "ACKNOWLEDGED"
    [] evidence = "retryable" /\ settled -> "ABSENT"
    [] OTHER -> "UNRESOLVED"

CancelDecision(evidence, settled) ==
  CASE evidence = "effect" -> "ACKNOWLEDGED"
    [] evidence = "retryable" /\ settled -> "ABSENT"
    [] OTHER -> "UNRESOLVED"

CloseDecision(evidence, settled) ==
  CASE evidence = "live" -> "ACKNOWLEDGED"
    [] evidence \in {"failed", "untouched"} /\ settled -> "ABSENT"
    [] OTHER -> "UNRESOLVED"

DecideMutationRecovery(operation, evidence, settled) ==
  CASE operation = "SUBMIT_ENTRY" -> DecideEntryMutationRecovery(evidence, settled)
    [] operation = "SUBMIT_PROTECTIVE_OCO" -> OcoDecision(evidence, settled)
    [] operation = "CANCEL_ORDER" -> CancelDecision(evidence, settled)
    [] OTHER -> CloseDecision(evidence, settled)
=============================================================================
