------------------------- MODULE PaperMutationProofs -------------------------
(***************************************************************************)
(* TLAPS proofs about PaperMutation, for every set of processes and        *)
(* mutations and every delay allowed by MutationAssumption.                *)
(*                                                                         *)
(* The safety properties are not inductive by themselves.  IInv adds what  *)
(* the code relies on without saying so: only the lease holder is in an    *)
(* operation, an event log never goes back to an earlier attempt, requests *)
(* and effects belong to the latest attempt, a request under way is        *)
(* younger than RequestTTL, and the evidence of a checkpoint can only be   *)
(* outdated by a request that is too young to be judged absent.            *)
(***************************************************************************)
EXTENDS PaperMutation, TLAPS, SequenceTheorems, FiniteSetTheorems

-----------------------------------------------------------------------------
(* The inductive invariant *)

Done(m) == applied[m] # {} \/ (IsCancel(m) /\ changed[m])

Nothing(m) == inflight[m] = {} /\ Effective(m) = {}

\* Only a holder of the flock is in a session, and there is at most one.
LeaseInv ==
  /\ \A p, q \in lease : p = q
  /\ \A p \in Proc : pc[p] # "down" => p \in lease

\* Event logs: saved intents only, attempts never decrease.
LogInv ==
  \A m \in Mutation : events[m] # <<>> =>
    /\ m \in intents
    /\ \A i \in DOMAIN events[m] : events[m][i].attempt <= Latest(events[m]).attempt

\* Requests under way and effects that last belong to the latest attempt.
LatestInv ==
  \A m \in Mutation : \A a \in inflight[m] \cup Effective(m) :
    events[m] # <<>> /\ a = Latest(events[m]).attempt

\* A request that may still arrive is at most RequestTTL old while recovery may ask.
AgeInv ==
  \A m \in Mutation : inflight[m] # {} /\ Recoverable(events[m]) => age[m] <= RequestTTL

\* A cancel that was carried out shows in its target order.
CancelInv ==
  \A m \in Mutation : IsCancel(m) /\ applied[m] # {} => changed[m]

StateInv ==
  /\ LogInv
  /\ LatestInv
  /\ AgeInv
  /\ CancelInv
  /\ OneOutstanding
  /\ AbsentIsTrue
  /\ AcknowledgedIsTrue
  /\ AttemptedBeforeSent

\* Between ATTEMPTED and the outcome p works on the latest event of its mutation,
\* and before it sends nothing has been sent or has taken effect.
RunOK(p) ==
  /\ pc[p] \in {"saving", "attempting", "sending", "waiting"} => queue[p] # <<>>
  /\ pc[p] = "attempting" => Head(queue[p]) \in intents
  /\ pc[p] \in {"sending", "waiting"} =>
       /\ events[Head(queue[p])] # <<>>
       /\ Latest(events[Head(queue[p])]) = MutationEvent(attempt[p], "ATTEMPTED")
  /\ pc[p] = "sending" => Nothing(Head(queue[p])) /\ age[Head(queue[p])] <= RequestTTL

\* What p's checkpoint has read: evidence of presence stays true; evidence of
\* absence is true, or too young to be believed.
EvidenceOK(p) ==
  pc[p] = "reading" => \A m \in Mutation : Recoverable(events[m]) =>
    /\ \A s \in BOOLEAN :
         DecideMutationRecovery(Op[m], evidence[p][m], s) = "ACKNOWLEDGED" => Done(m)
    /\ DecideMutationRecovery(Op[m], evidence[p][m], TRUE) = "ABSENT" =>
         \/ Nothing(m)
         \/ age[m] <= RequestTTL + lag[p]
         \/ lag[p] > ReceiptAge

\* What recovery is about to record is true, and nothing recoverable is forgotten.
VerdictOK(p) ==
  pc[p] = "recovering" => \A m \in Mutation :
    /\ verdict[p][m] = "ACKNOWLEDGED" => Done(m)
    /\ verdict[p][m] = "ABSENT" => Nothing(m)
    /\ verdict[p][m] \in {"ACKNOWLEDGED", "ABSENT"} => Recoverable(events[m])
    /\ Recoverable(events[m]) => verdict[p][m] \in Verdict

\* From the end of recovery until ATTEMPTED no mutation is without an outcome.
ClearOK(p) ==
  \/ pc[p] \in {"ready", "saving", "attempting"}
  \/ pc[p] \in {"checkpoint", "reading"} /\ purpose[p] = "confirm"
  => \A m \in Mutation : ~Recoverable(events[m])

ProcOK(p) == RunOK(p) /\ EvidenceOK(p) /\ VerdictOK(p) /\ ClearOK(p)

IInv == TypeOK /\ LeaseInv /\ StateInv /\ \A p \in Proc : ProcOK(p)

-----------------------------------------------------------------------------
(* Event logs *)

\* A log that is not empty has a latest event.
LEMMA LatestExists ==
  ASSUME NEW es \in Seq(Event), es # <<>>
  PROVE  Len(es) \in DOMAIN es /\ Latest(es) \in Event /\ DOMAIN es = 1..Len(es)
<1>1. Len(es) \in Nat \ {0} /\ DOMAIN es = 1..Len(es)
  BY LenProperties, EmptySeq
<1>2. Len(es) \in DOMAIN es
  BY <1>1
<1> QED BY <1>1, <1>2, ElementOfSeq DEF Latest

\* What appending an event does to a log: it becomes the latest one and nothing
\* that was recorded is lost (append_paper_mutation_event only inserts).
LEMMA AppendFacts ==
  ASSUME NEW es \in Seq(Event), NEW e \in Event
  PROVE  /\ Append(es, e) \in Seq(Event)
         /\ Append(es, e) # <<>>
         /\ Latest(Append(es, e)) = e
         /\ \A i \in DOMAIN Append(es, e) :
              Append(es, e)[i] = e \/ (i \in DOMAIN es /\ Append(es, e)[i] = es[i])
         /\ \A a : TypesOf(es, a) \subseteq TypesOf(Append(es, e), a)
         /\ e.type \in TypesOf(Append(es, e), e.attempt)
<1> DEFINE fs == Append(es, e)
<1>1. /\ fs \in Seq(Event) /\ fs # <<>> /\ Len(fs) = Len(es) + 1
      /\ \A i \in 1..Len(es) : fs[i] = es[i]
      /\ fs[Len(es) + 1] = e
  BY AppendProperties
<1>2. DOMAIN fs = 1..(Len(es) + 1) /\ DOMAIN es = 1..Len(es) /\ Len(es) \in Nat
  BY <1>1
<1>3. Latest(fs) = e
  BY <1>1 DEF Latest
<1>4. \A i \in DOMAIN fs : fs[i] = e \/ (i \in DOMAIN es /\ fs[i] = es[i])
  BY <1>1, <1>2
<1>5. \A a : TypesOf(es, a) \subseteq TypesOf(fs, a)
  <2> SUFFICES ASSUME NEW a, NEW t \in TypesOf(es, a) PROVE t \in TypesOf(fs, a)
    OBVIOUS
  <2>1. PICK i \in DOMAIN es : es[i].attempt = a /\ t = es[i].type
    BY DEF TypesOf
  <2>2. i \in DOMAIN fs /\ fs[i] = es[i]
    BY <1>1, <1>2
  <2> QED BY <2>1, <2>2 DEF TypesOf
<1>6. e.type \in TypesOf(fs, e.attempt)
  BY <1>1, <1>2 DEF TypesOf
<1> HIDE DEF fs
<1> QED BY <1>1, <1>3, <1>4, <1>5, <1>6 DEF fs

\* In a log whose attempts never decrease the latest attempt is that of the latest
\* event (max(event.attempt_number) and events[-1] agree).
LEMMA LatestAttemptIsLatest ==
  ASSUME NEW es \in Seq(Event), es # <<>>,
         \A i \in DOMAIN es : es[i].attempt <= Latest(es).attempt
  PROVE  LatestAttempt(es) = Latest(es).attempt /\ LatestAttempt(es) \in Nat
<1> DEFINE n == Latest(es).attempt
<1>1. Len(es) \in DOMAIN es /\ Latest(es) \in Event /\ n \in Nat
  BY LatestExists DEF Event
<1>2. /\ n \in Attempts(es)
      /\ \A b \in Attempts(es) : b <= n /\ b \in Nat
  <2>1. n \in Attempts(es)
    BY <1>1 DEF Attempts, Latest
  <2>2. ASSUME NEW b \in Attempts(es) PROVE b <= n /\ b \in Nat
    <3>1. PICK i \in DOMAIN es : b = es[i].attempt
      BY DEF Attempts
    <3>2. es[i] \in Event
      BY LenProperties, ElementOfSeq
    <3> QED BY <3>1, <3>2 DEF Event
  <2> QED BY <2>1, <2>2
<1>3. LatestAttempt(es) \in Attempts(es) /\ \A b \in Attempts(es) : b <= LatestAttempt(es)
  BY <1>2 DEF LatestAttempt
<1>4. LatestAttempt(es) <= n /\ n <= LatestAttempt(es) /\ LatestAttempt(es) \in Nat
  BY <1>2, <1>3
<1> QED BY <1>1, <1>4

\* execute_safety_plan runs a prefix of the plan.
LEMMA ExecutablePartType ==
  ASSUME NEW q \in Seq(Mutation)
  PROVE  ExecutablePart(q) \in Seq(Mutation)
<1> DEFINE S == {i \in 1..Len(q) : \A j \in 1..i : ~IsClose(q[j])}
<1>0. Len(q) \in Nat /\ DOMAIN q = 1..Len(q)
  BY LenProperties
<1>1. IsFiniteSet(1..Len(q)) /\ Cardinality(1..Len(q)) = Len(q)
  <2>1. IsFiniteSet(1..Len(q)) /\ Cardinality(1..Len(q)) = IF 1 > Len(q) THEN 0 ELSE Len(q) - 1 + 1
    BY <1>0, FS_Interval
  <2> QED BY <1>0, <2>1
<1>2. S \in SUBSET (1..Len(q))
  OBVIOUS
<1>3. IsFiniteSet(S) /\ Cardinality(S) <= Len(q)
  BY <1>1, <1>2, FS_Subset
<1>4. Cardinality(S) \in Nat
  BY <1>3, FS_CardinalityType
<1> HIDE DEF S
<1>5. \A i \in 1..Cardinality(S) : q[i] \in Mutation
  BY <1>0, <1>3, <1>4, ElementOfSeq
<1>6. SubSeq(q, 1, Cardinality(S)) \in Seq(Mutation)
  BY <1>4, <1>5, SubSeqProperties
<1> QED BY <1>6 DEF ExecutablePart, S

-----------------------------------------------------------------------------
(* Framing *)

\* Nothing has happened yet.
LEMMA InitIInv == Init => IInv
<1> SUFFICES ASSUME Init PROVE IInv
  OBVIOUS
<1> USE DEF Init
<1>1. TypeOK
  BY MutationAssumption DEF TypeOK, PC, Purpose, NoEvidence, NoVerdict, Evidence, Verdict, AgeCap, LagCap
<1>2. LeaseInv
  BY DEF LeaseInv
<1>3. StateInv
  BY DEF StateInv, LogInv, LatestInv, AgeInv, CancelInv, OneOutstanding, AbsentIsTrue,
         AcknowledgedIsTrue, AttemptedBeforeSent, Effective, Recoverable
<1>4. \A p \in Proc : ProcOK(p)
  BY DEF ProcOK, RunOK, EvidenceOK, VerdictOK, ClearOK
<1> QED BY <1>1, <1>2, <1>3, <1>4 DEF IInv

\* The facts about ledger and broker do not depend on the processes.
LEMMA StateFrame ==
  ASSUME StateInv, UNCHANGED <<ledgerVars, age, brokerVars>>
  PROVE  StateInv'
<1> USE DEF ledgerVars, brokerVars
<1>1. LogInv' BY DEF StateInv, LogInv
<1>2. LatestInv' BY DEF StateInv, LatestInv, Effective
<1>3. AgeInv' BY DEF StateInv, AgeInv
<1>4. CancelInv' BY DEF StateInv, CancelInv
<1>5. OneOutstanding' BY DEF StateInv, OneOutstanding
<1>6. AbsentIsTrue' BY DEF StateInv, AbsentIsTrue, Effective
<1>7. AcknowledgedIsTrue' BY DEF StateInv, AcknowledgedIsTrue
<1>8. AttemptedBeforeSent' BY DEF StateInv, AttemptedBeforeSent
<1> QED BY <1>1, <1>2, <1>3, <1>4, <1>5, <1>6, <1>7, <1>8 DEF StateInv

\* While p holds the lease every other process is down, and stays down.
LEMMA OthersOK ==
  ASSUME TypeOK, LeaseInv, NEW p \in Proc, p \in lease \/ lease = {},
         NEW x, pc' = [pc EXCEPT ![p] = x]
  PROVE  \A q \in Proc : q # p => ProcOK(q)'
<1> SUFFICES ASSUME NEW q \in Proc, q # p PROVE ProcOK(q)'
  OBVIOUS
<1>1. pc'[q] = "down"
  BY DEF TypeOK, LeaseInv
<1> QED BY <1>1 DEF ProcOK, RunOK, EvidenceOK, VerdictOK, ClearOK

\* A step inside a session leaves the lease with p.
LEMMA LeaseFrame ==
  ASSUME TypeOK, LeaseInv, NEW p \in Proc, pc[p] # "down", UNCHANGED lease,
         NEW x, pc' = [pc EXCEPT ![p] = x]
  PROVE  LeaseInv' /\ \A q \in Proc : q # p => ProcOK(q)'
<1>1. p \in lease
  BY DEF LeaseInv
<1>2. LeaseInv'
  BY <1>1 DEF TypeOK, LeaseInv
<1> QED BY <1>1, <1>2, OthersOK

\* An idle process, or one that has only just begun an operation, has nothing to
\* answer for.
LEMMA EndOperationOK ==
  ASSUME TypeOK, NEW p \in Proc, EndOperation(p)
  PROVE  ProcOK(p)' /\ pc' = [pc EXCEPT ![p] = "idle"]
<1>1. pc'[p] = "idle"
  BY DEF EndOperation, TypeOK
<1> QED BY <1>1 DEF EndOperation, ProcOK, RunOK, EvidenceOK, VerdictOK, ClearOK

\* A checkpoint that starts has nothing to answer for; a confirming one starts only
\* when no mutation is without an outcome.
LEMMA StartCheckpointOK ==
  ASSUME TypeOK, NEW p \in Proc, NEW why \in Purpose, StartCheckpoint(p, why),
         why = "confirm" => \A m \in Mutation : ~Recoverable(events'[m])
  PROVE  ProcOK(p)' /\ pc' = [pc EXCEPT ![p] = "checkpoint"]
<1>1. pc'[p] = "checkpoint" /\ purpose'[p] = why
  BY DEF StartCheckpoint, TypeOK
<1> QED BY <1>1 DEF StartCheckpoint, ProcOK, RunOK, EvidenceOK, VerdictOK, ClearOK

\* Types of the variables the helpers of an operation assign.
LEMMA HelperTypes ==
  ASSUME TypeOK, NEW p \in Proc
  PROVE  /\ NoEvidence \in [Mutation -> Evidence]
         /\ NoVerdict \in [Mutation -> Verdict \cup {"NONE", "RECORDED"}]
         /\ EndOperation(p) =>
              /\ pc' \in [Proc -> PC] /\ purpose' \in [Proc -> Purpose]
              /\ evidence' \in [Proc -> [Mutation -> Evidence]]
              /\ lag' \in [Proc -> 0..LagCap]
              /\ verdict' \in [Proc -> [Mutation -> Verdict \cup {"NONE", "RECORDED"}]]
              /\ queue' \in [Proc -> Seq(Mutation)] /\ attempt' \in [Proc -> Nat]
         /\ \A why \in Purpose : StartCheckpoint(p, why) =>
              /\ pc' \in [Proc -> PC] /\ purpose' \in [Proc -> Purpose]
              /\ evidence' \in [Proc -> [Mutation -> Evidence]]
              /\ lag' \in [Proc -> 0..LagCap]
              /\ verdict' \in [Proc -> [Mutation -> Verdict \cup {"NONE", "RECORDED"}]]
<1>1. NoEvidence \in [Mutation -> Evidence] /\ NoVerdict \in [Mutation -> Verdict \cup {"NONE", "RECORDED"}]
  BY DEF NoEvidence, NoVerdict, Evidence
<1>2. 0 \in 0..LagCap
  BY MutationAssumption DEF LagCap
<1>3. {"idle", "checkpoint"} \subseteq PC /\ "recover" \in Purpose
  BY DEF PC, Purpose
<1>4. <<>> \in Seq(Mutation)
  OBVIOUS
<1>5. EndOperation(p) =>
              /\ pc' \in [Proc -> PC] /\ purpose' \in [Proc -> Purpose]
              /\ evidence' \in [Proc -> [Mutation -> Evidence]]
              /\ lag' \in [Proc -> 0..LagCap]
              /\ verdict' \in [Proc -> [Mutation -> Verdict \cup {"NONE", "RECORDED"}]]
              /\ queue' \in [Proc -> Seq(Mutation)] /\ attempt' \in [Proc -> Nat]
  BY <1>1, <1>2, <1>3, <1>4 DEF EndOperation, TypeOK
<1>6. \A why \in Purpose : StartCheckpoint(p, why) =>
              /\ pc' \in [Proc -> PC] /\ purpose' \in [Proc -> Purpose]
              /\ evidence' \in [Proc -> [Mutation -> Evidence]]
              /\ lag' \in [Proc -> 0..LagCap]
              /\ verdict' \in [Proc -> [Mutation -> Verdict \cup {"NONE", "RECORDED"}]]
  BY <1>1, <1>2, <1>3 DEF StartCheckpoint, TypeOK
<1> QED BY <1>1, <1>5, <1>6

\* The plan goes on only while no mutation is without an outcome.
LEMMA ContinueOK ==
  ASSUME TypeOK, NEW p \in Proc, NEW q \in Seq(Mutation), Continue(p, q),
         q # <<>> => \A m \in Mutation : ~Recoverable(events'[m])
  PROVE  /\ ProcOK(p)'
         /\ pc' = [pc EXCEPT ![p] = IF q = <<>> THEN "checkpoint" ELSE "saving"]
         /\ pc' \in [Proc -> PC] /\ purpose' \in [Proc -> Purpose]
         /\ evidence' \in [Proc -> [Mutation -> Evidence]]
         /\ lag' \in [Proc -> 0..LagCap]
         /\ verdict' \in [Proc -> [Mutation -> Verdict \cup {"NONE", "RECORDED"}]]
         /\ queue' \in [Proc -> Seq(Mutation)] /\ attempt' \in [Proc -> Nat]
<1>1. queue' \in [Proc -> Seq(Mutation)] /\ attempt' \in [Proc -> Nat] /\ queue'[p] = q
  BY DEF Continue, TypeOK
<1>2. CASE q = <<>>
  <2>1. StartCheckpoint(p, "post") /\ "post" \in Purpose
    BY <1>2 DEF Continue, Purpose
  <2>2. ProcOK(p)' /\ pc' = [pc EXCEPT ![p] = "checkpoint"]
    BY <2>1, StartCheckpointOK
  <2> QED BY <1>1, <1>2, <2>1, <2>2, HelperTypes
<1>3. CASE q # <<>>
  <2>1. pc' = [pc EXCEPT ![p] = "saving"] /\ UNCHANGED <<purpose, evidence, lag, verdict>>
    BY <1>3 DEF Continue
  <2>2. pc'[p] = "saving" /\ pc' \in [Proc -> PC]
    BY <2>1 DEF TypeOK, PC
  <2>3. ProcOK(p)'
    BY <1>1, <1>3, <2>2 DEF ProcOK, RunOK, EvidenceOK, VerdictOK, ClearOK
  <2> QED BY <1>1, <1>3, <2>1, <2>2, <2>3 DEF TypeOK
<1> QED BY <1>2, <1>3

-----------------------------------------------------------------------------
(* Steps that change neither the ledger nor the broker *)

\* An operation that ends, for whatever reason, keeps the invariant.
LEMMA EndStep ==
  ASSUME IInv, NEW p \in Proc, pc[p] # "down", EndOperation(p),
         UNCHANGED <<ledgerVars, age, brokerVars, lease, fresh>>, faults' \in Nat
  PROVE  IInv'
<1>1. TypeOK' BY HelperTypes DEF IInv, TypeOK, ledgerVars, brokerVars
<1>2. ProcOK(p)' /\ pc' = [pc EXCEPT ![p] = "idle"]
  BY EndOperationOK DEF IInv
<1>3. LeaseInv' /\ \A q \in Proc : q # p => ProcOK(q)'
  BY <1>2, LeaseFrame DEF IInv
<1>4. StateInv' BY StateFrame DEF IInv
<1> QED BY <1>1, <1>2, <1>3, <1>4 DEF IInv

\* open_paper_operating_session gets the flock only when nobody has it.
LEMMA OpenStep == ASSUME IInv, NEW p \in Proc, Open(p) PROVE IInv'
<1> USE DEF Open
<1>1. TypeOK' BY DEF IInv, TypeOK, PC, ledgerVars, brokerVars, snapVars, runVars
<1>2. pc'[p] = "idle" /\ pc' = [pc EXCEPT ![p] = "idle"] BY DEF IInv, TypeOK
<1>3. ProcOK(p)' BY <1>2 DEF ProcOK, RunOK, EvidenceOK, VerdictOK, ClearOK
<1>4. \A q \in Proc : q # p => ProcOK(q)' BY <1>2, OthersOK DEF IInv
<1>5. LeaseInv' BY DEF IInv, LeaseInv, TypeOK
<1>6. StateInv' BY StateFrame DEF IInv
<1> QED BY <1>1, <1>3, <1>4, <1>5, <1>6 DEF IInv

\* Closing a session gives the lease back.
LEMMA CloseStep == ASSUME IInv, NEW p \in Proc, Close(p) PROVE IInv'
<1> USE DEF Close
<1>1. TypeOK' BY DEF IInv, TypeOK, PC, ledgerVars, brokerVars, snapVars, runVars
<1>2. pc'[p] = "down" /\ pc' = [pc EXCEPT ![p] = "down"] /\ p \in lease
  BY DEF IInv, TypeOK, LeaseInv
<1>3. ProcOK(p)' BY <1>2 DEF ProcOK, RunOK, EvidenceOK, VerdictOK, ClearOK
<1>4. \A q \in Proc : q # p => ProcOK(q)' BY <1>2, OthersOK DEF IInv
<1>5. LeaseInv' BY <1>2 DEF IInv, LeaseInv, TypeOK
<1>6. StateInv' BY StateFrame DEF IInv
<1> QED BY <1>1, <1>3, <1>4, <1>5, <1>6 DEF IInv

\* A crash at any point, also between ATTEMPTED and the outcome.
LEMMA CrashStep == ASSUME IInv, NEW p \in Proc, Crash(p) PROVE IInv'
<1> USE DEF Crash
<1>1. TypeOK'
  <2>1. /\ NoEvidence \in [Mutation -> Evidence]
        /\ NoVerdict \in [Mutation -> Verdict \cup {"NONE", "RECORDED"}]
    BY HelperTypes DEF IInv
  <2>2. 0 \in 0..LagCap BY MutationAssumption DEF LagCap
  <2>3. <<>> \in Seq(Mutation) /\ faults + 1 \in Nat BY DEF IInv, TypeOK
  <2> QED BY <2>1, <2>2, <2>3 DEF IInv, TypeOK, PC, Purpose, ledgerVars, brokerVars
<1>2. pc'[p] = "down" /\ pc' = [pc EXCEPT ![p] = "down"] /\ p \in lease
  BY DEF IInv, TypeOK, LeaseInv
<1>3. ProcOK(p)' BY <1>2 DEF ProcOK, RunOK, EvidenceOK, VerdictOK, ClearOK
<1>4. \A q \in Proc : q # p => ProcOK(q)' BY <1>2, OthersOK DEF IInv
<1>5. LeaseInv' BY <1>2 DEF IInv, LeaseInv, TypeOK
<1>6. StateInv' BY StateFrame DEF IInv
<1> QED BY <1>1, <1>3, <1>4, <1>5, <1>6 DEF IInv

\* A recovery or an execution begins with a checkpoint.
LEMMA BeginStep ==
  ASSUME IInv, NEW p \in Proc, NEW why \in {"recover", "execute"}, Begin(p, why)
  PROVE  IInv'
<1> USE DEF Begin
<1>0. why \in Purpose /\ why # "confirm" BY DEF Purpose
<1>1. TypeOK' BY <1>0, HelperTypes DEF IInv, TypeOK, ledgerVars, brokerVars, runVars
<1>2. ProcOK(p)' /\ pc' = [pc EXCEPT ![p] = "checkpoint"]
  BY <1>0, StartCheckpointOK DEF IInv
<1>3. LeaseInv' /\ \A q \in Proc : q # p => ProcOK(q)'
  BY <1>2, LeaseFrame DEF IInv
<1>4. StateInv' BY StateFrame DEF IInv
<1> QED BY <1>1, <1>2, <1>3, <1>4 DEF IInv

-----------------------------------------------------------------------------
(* Checkpoints and recovery decisions *)

\* What a GET may show of a mutation without an outcome, and what the decision
\* procedures make of it, agrees with the broker at that moment.
LEMMA ObservableTruth ==
  ASSUME TypeOK, StateInv, NEW m \in Mutation, Recoverable(events[m]),
         NEW e \in Observable(m)
  PROVE  /\ e \in Evidence
         /\ \A s \in BOOLEAN : DecideMutationRecovery(Op[m], e, s) = "ACKNOWLEDGED" => Done(m)
         /\ DecideMutationRecovery(Op[m], e, TRUE) = "ABSENT" => Effective(m) = {}
<1>1. Op[m] \in Operation
  BY MutationAssumption
<1>2. CASE Op[m] = "SUBMIT_ENTRY"
  <2>1. e \in {"none", "match", "mismatch"} /\ (e = "none" <=> applied[m] = {})
    BY <1>2 DEF Observable
  <2> QED BY <1>2, <2>1 DEF DecideMutationRecovery, DecideEntryMutationRecovery, Done, Effective, Evidence
<1>3. CASE Op[m] = "SUBMIT_PROTECTIVE_OCO"
  <2>1. e \in {"none", "match", "conflict", "mismatch"} /\ (e = "none" <=> applied[m] = {})
    BY <1>3 DEF Observable
  <2> QED BY <1>3, <2>1 DEF DecideMutationRecovery, OcoDecision, Done, Effective, Evidence
<1>4. CASE Op[m] = "CANCEL_ORDER"
  <2>1. e \in {"effect", "retryable", "other"} /\ (e = "effect" <=> changed[m])
    BY <1>4 DEF Observable
  <2>2. ~changed[m] => applied[m] = {}
    BY <1>4 DEF StateInv, CancelInv, IsCancel
  <2> QED BY <1>4, <2>1, <2>2 DEF DecideMutationRecovery, CancelDecision, Done, IsCancel, Effective, Evidence
<1>5. CASE Op[m] = "CLOSE_POSITION"
  <2>1. /\ e \in {"moved", "untouched", "live", "failed", "failed_moved"}
        /\ e = "untouched" => CurrentAttempt(m) \notin applied[m]
        /\ e = "live" => CurrentAttempt(m) \in applied[m]
        /\ e = "failed" => CurrentAttempt(m) \in failed[m]
    BY <1>5 DEF Observable
  <2>2. \A a \in Effective(m) : a = CurrentAttempt(m)
    BY DEF StateInv, LatestInv, CurrentAttempt
  <2>3. e \in {"untouched", "failed"} => Effective(m) = {}
    BY <2>1, <2>2 DEF Effective
  <2> QED BY <1>5, <2>1, <2>3 DEF DecideMutationRecovery, CloseDecision, Done, Evidence
<1> QED BY <1>1, <1>2, <1>3, <1>4, <1>5 DEF Operation

\* The REST reads of a checkpoint are true of the broker at the time they are made.
LEMMA ReadBrokerStep == ASSUME IInv, NEW p \in Proc, ReadBroker(p) PROVE IInv'
<1>1. PICK seen \in [Mutation -> UNION {Seen(m) : m \in Mutation}] :
        /\ \A m \in Mutation : seen[m] \in Seen(m)
        /\ evidence' = [evidence EXCEPT ![p] = seen]
  BY DEF ReadBroker
<1>2. /\ pc[p] = "checkpoint" /\ pc' = [pc EXCEPT ![p] = "reading"]
      /\ lag' = [lag EXCEPT ![p] = 0]
      /\ UNCHANGED <<ledgerVars, age, brokerVars, lease, purpose, fresh, verdict, runVars, faults>>
  BY DEF ReadBroker
<1>3. \A m \in Mutation : seen[m] \in Evidence
  BY <1>1, ObservableTruth DEF IInv, Seen, Evidence
<1>4. TypeOK'
  <2>1. seen \in [Mutation -> Evidence] BY <1>3
  <2>2. 0 \in 0..LagCap BY MutationAssumption DEF LagCap
  <2> QED BY <1>1, <1>2, <2>1, <2>2 DEF IInv, TypeOK, PC, ledgerVars, brokerVars, runVars
<1>5. LeaseInv' /\ \A q \in Proc : q # p => ProcOK(q)'
  BY <1>2, LeaseFrame DEF IInv
<1>6. pc'[p] = "reading" /\ evidence'[p] = seen /\ lag'[p] = 0
  BY <1>1, <1>2 DEF IInv, TypeOK
<1>7. EvidenceOK(p)'
  <2> SUFFICES ASSUME NEW m \in Mutation, Recoverable(events[m])
               PROVE /\ \A s \in BOOLEAN :
                          DecideMutationRecovery(Op[m], seen[m], s) = "ACKNOWLEDGED" => Done(m)
                     /\ DecideMutationRecovery(Op[m], seen[m], TRUE) = "ABSENT" =>
                          Nothing(m) \/ age[m] <= RequestTTL + 0
    BY <1>2, <1>6 DEF EvidenceOK, Done, Nothing, Effective, ledgerVars, brokerVars
  <2>1. seen[m] \in Observable(m)
    BY <1>1 DEF Seen
  <2>2. inflight[m] # {} => age[m] <= RequestTTL + 0
    BY MutationAssumption DEF IInv, StateInv, AgeInv
  <2> QED BY <2>1, <2>2, ObservableTruth DEF IInv, Nothing
<1>8. ClearOK(p)'
  <2>1. purpose[p] = "confirm" => \A m \in Mutation : ~Recoverable(events[m])
    BY <1>2 DEF IInv, ProcOK, ClearOK
  <2> QED BY <1>2, <1>6, <2>1 DEF ClearOK, ledgerVars
<1>9. RunOK(p)' /\ VerdictOK(p)'
  BY <1>6 DEF RunOK, VerdictOK
<1>10. StateInv' BY <1>2, StateFrame DEF IInv
<1> QED BY <1>4, <1>5, <1>7, <1>8, <1>9, <1>10 DEF IInv, ProcOK

\* Evidence of absence that is old enough to be believed is true: the request is
\* either applied, and was seen, or can no longer arrive.
LEMMA DecideTruth ==
  ASSUME IInv, NEW p \in Proc, NEW m \in Mutation, pc[p] = "reading", lag[p] <= ReceiptAge
  PROVE  /\ Decide(p, m) \in Verdict \cup {"NONE"}
         /\ Decide(p, m) = "ACKNOWLEDGED" => Done(m)
         /\ Decide(p, m) = "ABSENT" => Nothing(m)
         /\ Decide(p, m) \in {"ACKNOWLEDGED", "ABSENT"} => Recoverable(events[m])
         /\ Recoverable(events[m]) => Decide(p, m) \in Verdict
<1> DEFINE d(s) == DecideMutationRecovery(Op[m], evidence[p][m], s)
<1>1. \A s \in BOOLEAN : d(s) \in Verdict
  BY DEF DecideMutationRecovery, DecideEntryMutationRecovery, OcoDecision, CancelDecision,
         CloseDecision, Verdict
<1>2. Settled(m) \in BOOLEAN
  BY DEF Settled
<1>3. d(FALSE) # "ABSENT"
  BY DEF DecideMutationRecovery, DecideEntryMutationRecovery, OcoDecision, CancelDecision, CloseDecision
<1>4. CASE ~Recoverable(events[m])
  BY <1>4 DEF Decide
<1>5. CASE Recoverable(events[m])
  <2>1. m \in intents
    BY <1>5 DEF IInv, StateInv, LogInv, Recoverable
  <2>2. Decide(p, m) = d(Settled(m))
    BY <1>5, <2>1 DEF Decide
  <2>3. /\ \A s \in BOOLEAN : d(s) = "ACKNOWLEDGED" => Done(m)
        /\ d(TRUE) = "ABSENT" => Nothing(m) \/ age[m] <= RequestTTL + lag[p] \/ lag[p] > ReceiptAge
    BY <1>5 DEF IInv, ProcOK, EvidenceOK
  <2>4. /\ age[m] \in Nat /\ lag[p] \in Nat
        /\ {SettleDelay, ReceiptAge, RequestTTL} \subseteq Nat
        /\ RequestTTL + ReceiptAge < SettleDelay
    BY MutationAssumption DEF IInv, TypeOK
  <2>5. Settled(m) => ~(age[m] <= RequestTTL + lag[p]) /\ ~(lag[p] > ReceiptAge)
    BY <2>4 DEF Settled
  <2>6. d(Settled(m)) = "ABSENT" => Settled(m)
    BY <1>2, <1>3
  <2> HIDE DEF d
  <2>7. d(Settled(m)) = "ABSENT" => Nothing(m)
    BY <1>2, <2>3, <2>5, <2>6
  <2> QED BY <1>1, <1>2, <1>5, <2>2, <2>3, <2>7
<1> QED BY <1>4, <1>5

\* The verdicts decided from a current checkpoint are true of the broker.
LEMMA CompleteCheckpointStep == ASSUME IInv, NEW p \in Proc, CompleteCheckpoint(p) PROVE IInv'
<1>1. /\ pc[p] = "reading" /\ lag[p] <= ReceiptAge
      /\ fresh' = [fresh EXCEPT ![p] = TRUE]
      /\ evidence' = [evidence EXCEPT ![p] = NoEvidence]
      /\ lag' = [lag EXCEPT ![p] = 0]
      /\ UNCHANGED <<ledgerVars, age, brokerVars, lease, purpose, runVars, faults>>
  BY DEF CompleteCheckpoint
<1>2. StateInv' BY <1>1, StateFrame DEF IInv
<1>3. /\ NoEvidence \in [Mutation -> Evidence] /\ 0 \in 0..LagCap
  BY HelperTypes, MutationAssumption DEF IInv, LagCap
<1>4. CASE purpose[p] = "confirm" /\ pc' = [pc EXCEPT ![p] = "ready"] /\ UNCHANGED verdict
  <2>1. TypeOK'
    BY <1>1, <1>3, <1>4 DEF IInv, TypeOK, PC, ledgerVars, brokerVars, runVars
  <2>2. pc'[p] = "ready"
    BY <1>4 DEF IInv, TypeOK
  <2>3. \A m \in Mutation : ~Recoverable(events[m])
    BY <1>1, <1>4 DEF IInv, ProcOK, ClearOK
  <2>4. ProcOK(p)'
    BY <1>1, <2>2, <2>3 DEF ProcOK, RunOK, EvidenceOK, VerdictOK, ClearOK, ledgerVars
  <2>5. LeaseInv' /\ \A q \in Proc : q # p => ProcOK(q)'
    BY <1>1, <1>4, LeaseFrame DEF IInv
  <2> QED BY <1>2, <2>1, <2>4, <2>5 DEF IInv
<1>5. CASE /\ purpose[p] # "confirm" /\ pc' = [pc EXCEPT ![p] = "recovering"]
           /\ verdict' = [verdict EXCEPT ![p] = [m \in Mutation |-> Decide(p, m)]]
  <2> DEFINE v == [m \in Mutation |-> Decide(p, m)]
  <2>1. v \in [Mutation -> Verdict \cup {"NONE", "RECORDED"}]
    BY <1>1, DecideTruth
  <2>2. pc'[p] = "recovering" /\ verdict'[p] = v
    BY <1>5 DEF IInv, TypeOK
  <2>3. \A m \in Mutation : v[m] = Decide(p, m)
    OBVIOUS
  <2> HIDE DEF v
  <2>4. TypeOK'
    BY <1>1, <1>3, <1>5, <2>1 DEF IInv, TypeOK, PC, ledgerVars, brokerVars, runVars, v
  <2>5. VerdictOK(p)'
    BY <1>1, <2>2, <2>3, DecideTruth DEF VerdictOK, Done, Nothing, Effective, ledgerVars, brokerVars
  <2>6. ProcOK(p)'
    BY <2>2, <2>5 DEF ProcOK, RunOK, EvidenceOK, ClearOK
  <2>7. LeaseInv' /\ \A q \in Proc : q # p => ProcOK(q)'
    BY <1>1, <1>5, LeaseFrame DEF IInv
  <2> QED BY <1>2, <2>4, <2>6, <2>7 DEF IInv
<1> QED BY <1>4, <1>5 DEF CompleteCheckpoint

\* Recovery that has nothing left to record and nothing unresolved has left no
\* mutation without an outcome.
LEMMA EndRecoverStep == ASSUME IInv, NEW p \in Proc, EndRecover(p) PROVE IInv'
<1>1. /\ pc[p] = "recovering"
      /\ \A m \in Mutation : verdict[p][m] \notin {"ACKNOWLEDGED", "ABSENT"}
      /\ UNCHANGED <<ledgerVars, age, brokerVars, lease, fresh, faults>>
  BY DEF EndRecover
<1>2. ~Unresolved(p) => \A m \in Mutation : ~Recoverable(events[m])
  BY <1>1 DEF IInv, ProcOK, VerdictOK, Unresolved, Verdict
<1>3. StateInv' BY <1>1, StateFrame DEF IInv
<1>4. CASE EndOperation(p)
  BY <1>1, <1>4, EndStep DEF IInv, TypeOK
<1>5. CASE ~Unresolved(p) /\ StartCheckpoint(p, "confirm") /\ UNCHANGED runVars
  <2>0. "confirm" \in Purpose BY DEF Purpose
  <2>1. \A m \in Mutation : ~Recoverable(events'[m])
    BY <1>1, <1>2, <1>5 DEF ledgerVars
  <2>2. ProcOK(p)' /\ pc' = [pc EXCEPT ![p] = "checkpoint"]
    BY <1>5, <2>0, <2>1, StartCheckpointOK DEF IInv
  <2>3. LeaseInv' /\ \A q \in Proc : q # p => ProcOK(q)'
    BY <1>1, <2>2, LeaseFrame DEF IInv
  <2>4. TypeOK'
    BY <1>1, <1>5, <2>0, HelperTypes DEF IInv, TypeOK, ledgerVars, brokerVars, runVars
  <2> QED BY <1>3, <2>2, <2>3, <2>4 DEF IInv
<1>6. CASE /\ ~Unresolved(p) /\ pc' = [pc EXCEPT ![p] = "ready"]
           /\ UNCHANGED <<purpose, evidence, lag, verdict, runVars>>
  <2>1. TypeOK'
    BY <1>1, <1>6 DEF IInv, TypeOK, PC, ledgerVars, brokerVars, runVars
  <2>2. pc'[p] = "ready"
    BY <1>6 DEF IInv, TypeOK
  <2>3. ProcOK(p)'
    BY <1>1, <1>2, <1>6, <2>2 DEF ProcOK, RunOK, EvidenceOK, VerdictOK, ClearOK, ledgerVars
  <2>4. LeaseInv' /\ \A q \in Proc : q # p => ProcOK(q)'
    BY <1>1, <1>6, LeaseFrame DEF IInv
  <2> QED BY <1>3, <2>1, <2>3, <2>4 DEF IInv
<1> QED BY <1>4, <1>5, <1>6 DEF EndRecover

-----------------------------------------------------------------------------
(* Execution *)

\* A step that only moves the plan along.
LEMMA ContinueStep ==
  ASSUME IInv, NEW p \in Proc, NEW q \in Seq(Mutation), Continue(p, q),
         pc[p] \in {"ready", "attempting"},
         UNCHANGED <<ledgerVars, age, brokerVars, lease, fresh, faults>>
  PROVE  IInv'
<1>1. \A m \in Mutation : ~Recoverable(events'[m])
  BY DEF IInv, ProcOK, ClearOK, ledgerVars
<1>2. /\ ProcOK(p)'
      /\ pc' = [pc EXCEPT ![p] = IF q = <<>> THEN "checkpoint" ELSE "saving"]
  BY <1>1, ContinueOK DEF IInv
<1>3. TypeOK' BY <1>1, ContinueOK DEF IInv, TypeOK, ledgerVars, brokerVars
<1>4. LeaseInv' /\ \A r \in Proc : r # p => ProcOK(r)'
  BY <1>2, LeaseFrame DEF IInv
<1>5. StateInv' BY StateFrame DEF IInv
<1> QED BY <1>2, <1>3, <1>4, <1>5 DEF IInv

\* A plan starts only after a recovery that left nothing unresolved.
LEMMA StartPlanStep ==
  ASSUME IInv, NEW p \in Proc, NEW q \in Plans, StartPlan(p, q)
  PROVE  IInv'
<1>1. ExecutablePart(q) \in Seq(Mutation)
  BY MutationAssumption, ExecutablePartType
<1> QED BY <1>1, ContinueStep DEF StartPlan

\* An action that is already answered in the log sends nothing.
LEMMA SkipAttemptStep == ASSUME IInv, NEW p \in Proc, SkipAttempt(p) PROVE IInv'
<1>1. queue[p] \in Seq(Mutation) /\ queue[p] # <<>>
  BY DEF IInv, TypeOK, ProcOK, RunOK, SkipAttempt
<1>2. Tail(queue[p]) \in Seq(Mutation) /\ <<>> \in Seq(Mutation)
  BY <1>1, HeadTailProperties
<1>3. PICK rest \in Seq(Mutation) : Continue(p, rest)
  BY <1>2 DEF SkipAttempt
<1> QED BY <1>3, ContinueStep DEF SkipAttempt

\* Saving the intent, again or for the first time, changes no log.
LEMMA SaveIntentStep == ASSUME IInv, NEW p \in Proc, SaveIntent(p) PROVE IInv'
<1> DEFINE m == Head(queue[p])
<1>1. /\ pc[p] = "saving" /\ intents' = intents \cup {m}
      /\ pc' = [pc EXCEPT ![p] = "attempting"]
      /\ UNCHANGED <<events, age, brokerVars, lease, purpose, evidence, lag, verdict, runVars, faults>>
  BY DEF SaveIntent
<1>2. queue[p] # <<>> /\ m \in Mutation
  BY <1>1, HeadTailProperties DEF IInv, TypeOK, ProcOK, RunOK
<1>3. fresh' \in [Proc -> BOOLEAN]
  BY DEF SaveIntent, IInv, TypeOK
<1>4. TypeOK'
  BY <1>1, <1>2, <1>3 DEF IInv, TypeOK, PC, brokerVars, runVars
<1>5. StateInv'
  <2> USE <1>1 DEF IInv, StateInv, brokerVars
  <2>1. LogInv' BY DEF LogInv
  <2>2. LatestInv' BY DEF LatestInv, Effective
  <2>3. AgeInv' BY DEF AgeInv
  <2>4. CancelInv' BY DEF CancelInv
  <2>5. OneOutstanding' BY DEF OneOutstanding
  <2>6. AbsentIsTrue' BY DEF AbsentIsTrue, Effective
  <2>7. AcknowledgedIsTrue' BY DEF AcknowledgedIsTrue
  <2>8. AttemptedBeforeSent' BY DEF AttemptedBeforeSent
  <2> QED BY <2>1, <2>2, <2>3, <2>4, <2>5, <2>6, <2>7, <2>8
<1>6. pc'[p] = "attempting" /\ queue'[p] = queue[p]
  BY <1>1 DEF IInv, TypeOK, runVars
<1>7. \A n \in Mutation : ~Recoverable(events[n])
  BY <1>1 DEF IInv, ProcOK, ClearOK
<1>8. ProcOK(p)'
  BY <1>1, <1>2, <1>6, <1>7 DEF ProcOK, RunOK, EvidenceOK, VerdictOK, ClearOK
<1>9. LeaseInv' /\ \A q \in Proc : q # p => ProcOK(q)'
  BY <1>1, LeaseFrame DEF IInv
<1> QED BY <1>4, <1>5, <1>8, <1>9 DEF IInv

-----------------------------------------------------------------------------
(* Steps that append to the ledger *)

\* Appending an event that is true keeps everything the ledger says true: it is of
\* the latest attempt, or of a new one when nothing of the earlier ones is left.
LEMMA AppendKeepsState ==
  ASSUME TypeOK, StateInv, NEW m \in Mutation, NEW e \in Event, AppendEvent(m, e),
         m \in intents, UNCHANGED <<intents, applied, failed, changed>>,
         inflight' \in [Mutation -> SUBSET (Nat \ {0})],
         \A n \in Mutation : inflight'[n] \subseteq inflight[n],
         events[m] # <<>> => Latest(events[m]).attempt <= e.attempt,
         Nothing(m) \/ (events[m] # <<>> /\ Latest(events[m]).attempt = e.attempt),
         e.type \in RecoverableTypes => \A n \in Mutation : n # m => ~Recoverable(events[n]),
         e.type = "AMBIGUOUS" => Recoverable(events[m]),
         e.type = "RECOVERED_ABSENT" => Nothing(m),
         e.type \in {"ACKNOWLEDGED", "RECOVERED_ACKNOWLEDGED"} => Done(m)
  PROVE  /\ StateInv'
         /\ events' \in [Mutation -> Seq(Event)]
         /\ age' \in [Mutation -> 0..AgeCap]
         /\ fresh' \in [Proc -> BOOLEAN]
         /\ events'[m] # <<>> /\ Latest(events'[m]) = e
         /\ \A n \in Mutation : n # m => events'[n] = events[n] /\ age'[n] = age[n]
         /\ age'[m] = IF e.type = "AMBIGUOUS" THEN age[m] ELSE 0
<1>1. /\ events' = [events EXCEPT ![m] = Append(events[m], e)]
      /\ age' = [age EXCEPT ![m] = IF e.type = "AMBIGUOUS" THEN age[m] ELSE 0]
      /\ fresh' = [q \in Proc |-> FALSE]
  BY DEF AppendEvent
<1>2. events[m] \in Seq(Event)
  BY DEF TypeOK
<1>3. events'[m] = Append(events[m], e) /\ \A n \in Mutation : n # m => events'[n] = events[n]
  BY <1>1 DEF TypeOK
<1>4. /\ Append(events[m], e) \in Seq(Event) /\ events'[m] # <<>> /\ Latest(events'[m]) = e
      /\ \A i \in DOMAIN events'[m] :
           events'[m][i] = e \/ (i \in DOMAIN events[m] /\ events'[m][i] = events[m][i])
      /\ \A a : TypesOf(events[m], a) \subseteq TypesOf(events'[m], a)
  BY <1>2, <1>3, AppendFacts
<1>5. events' \in [Mutation -> Seq(Event)]
  BY <1>1, <1>4 DEF TypeOK
<1>6. /\ age' \in [Mutation -> 0..AgeCap]
      /\ \A n \in Mutation : n # m => age'[n] = age[n]
      /\ age'[m] = IF e.type = "AMBIGUOUS" THEN age[m] ELSE 0
  <2>1. 0 \in 0..AgeCap BY MutationAssumption DEF AgeCap
  <2> QED BY <1>1, <2>1 DEF TypeOK
<1>7. fresh' \in [Proc -> BOOLEAN] BY <1>1
<1>8. \A n \in Mutation : Effective(n)' = Effective(n)
  BY DEF Effective
<1>9. e.attempt \in Nat
  BY DEF Event
<1>10. LogInv'
  <2> SUFFICES ASSUME NEW n \in Mutation, events'[n] # <<>>
               PROVE /\ n \in intents
                     /\ \A i \in DOMAIN events'[n] : events'[n][i].attempt <= Latest(events'[n]).attempt
    BY DEF LogInv
  <2>1. CASE n # m BY <1>3, <2>1 DEF StateInv, LogInv
  <2>2. CASE n = m
    <3> SUFFICES ASSUME NEW i \in DOMAIN events'[m] PROVE events'[m][i].attempt <= e.attempt
      BY <1>4, <2>2
    <3>1. CASE events'[m][i] = e BY <1>9, <3>1
    <3>2. CASE i \in DOMAIN events[m] /\ events'[m][i] = events[m][i]
      <4>1. events[m] # <<>> BY <3>2
      <4>2. Latest(events[m]) \in Event /\ events[m][i] \in Event
        BY <1>2, <3>2, <4>1, LatestExists, ElementOfSeq
      <4>3. events[m][i].attempt <= Latest(events[m]).attempt
        BY <3>2, <4>1 DEF StateInv, LogInv
      <4> QED BY <1>9, <3>2, <4>1, <4>2, <4>3 DEF Event
    <3> QED BY <1>4, <3>1, <3>2
  <2> QED BY <2>1, <2>2
<1>11. LatestInv'
  <2> SUFFICES ASSUME NEW n \in Mutation, NEW a \in inflight'[n] \cup Effective(n)
               PROVE events'[n] # <<>> /\ a = Latest(events'[n]).attempt
    BY <1>8 DEF LatestInv
  <2>1. a \in inflight[n] \cup Effective(n)
    OBVIOUS
  <2>2. events[n] # <<>> /\ a = Latest(events[n]).attempt
    BY <2>1 DEF StateInv, LatestInv
  <2>3. CASE n # m BY <1>3, <2>2, <2>3
  <2>4. CASE n = m BY <1>4, <2>1, <2>2, <2>4 DEF Nothing
  <2> QED BY <2>3, <2>4
<1>12. AgeInv'
  <2> SUFFICES ASSUME NEW n \in Mutation, inflight'[n] # {}, Recoverable(events'[n])
               PROVE age'[n] <= RequestTTL
    BY DEF AgeInv
  <2>1. inflight[n] # {} OBVIOUS
  <2>2. CASE n # m BY <1>3, <1>6, <2>1, <2>2 DEF StateInv, AgeInv
  <2>3. CASE n = m
    <3>1. 0 <= RequestTTL BY MutationAssumption
    <3> QED BY <1>6, <2>1, <2>3, <3>1 DEF StateInv, AgeInv
  <2> QED BY <2>2, <2>3
<1>13. CancelInv' BY DEF StateInv, CancelInv
<1>14. OneOutstanding'
  <2>1. Recoverable(events'[m]) => e.type \in RecoverableTypes
    BY <1>4 DEF Recoverable
  <2> QED BY <1>3, <2>1 DEF StateInv, OneOutstanding
<1>15. AbsentIsTrue'
  BY <1>3, <1>4, <1>8 DEF StateInv, AbsentIsTrue, Nothing
<1>16. AcknowledgedIsTrue'
  BY <1>3, <1>4 DEF StateInv, AcknowledgedIsTrue, Done
<1>17. AttemptedBeforeSent'
  BY <1>3, <1>4 DEF StateInv, AttemptedBeforeSent
<1>18. StateInv'
  BY <1>10, <1>11, <1>12, <1>13, <1>14, <1>15, <1>16, <1>17 DEF StateInv
<1> QED BY <1>3, <1>4, <1>5, <1>6, <1>7, <1>18

\* A round of recover(): the verdict it appends was true when it was decided and
\* has stayed true, for nobody else writes and nothing of it is still under way.
LEMMA RecoverOneStep ==
  ASSUME IInv, NEW p \in Proc, NEW m \in Mutation, RecoverOne(p, m)
  PROVE  IInv'
<1> DEFINE e == MutationEvent(CurrentAttempt(m), RecoveredType(verdict[p][m]))
<1>1. /\ pc[p] = "recovering" /\ verdict[p][m] \in {"ACKNOWLEDGED", "ABSENT"}
      /\ AppendEvent(m, e)
      /\ verdict' = [verdict EXCEPT ![p][m] = "RECORDED"]
      /\ UNCHANGED <<intents, brokerVars, lease, pc, purpose, evidence, lag, runVars, faults>>
  BY DEF RecoverOne
<1>2. /\ Recoverable(events[m]) /\ m \in intents /\ events[m] # <<>>
      /\ verdict[p][m] = "ACKNOWLEDGED" => Done(m)
      /\ verdict[p][m] = "ABSENT" => Nothing(m)
  BY <1>1 DEF IInv, ProcOK, VerdictOK, StateInv, LogInv, Recoverable
<1>3. Latest(events[m]) \in Event /\ CurrentAttempt(m) = Latest(events[m]).attempt
  BY <1>2, LatestExists DEF IInv, TypeOK, CurrentAttempt
<1>4. /\ e \in Event /\ e.attempt = CurrentAttempt(m)
      /\ e.type = RecoveredType(verdict[p][m])
      /\ e.type = "RECOVERED_ABSENT" <=> verdict[p][m] = "ABSENT"
      /\ e.type = "RECOVERED_ACKNOWLEDGED" <=> verdict[p][m] = "ACKNOWLEDGED"
      /\ e.type \in {"RECOVERED_ABSENT", "RECOVERED_ACKNOWLEDGED"}
      /\ Latest(events[m]).attempt <= e.attempt
  BY <1>1, <1>3 DEF MutationEvent, RecoveredType, Event, EventType
<1> HIDE DEF e
<1>5. /\ StateInv'
      /\ events' \in [Mutation -> Seq(Event)]
      /\ age' \in [Mutation -> 0..AgeCap]
      /\ fresh' \in [Proc -> BOOLEAN]
      /\ events'[m] # <<>> /\ Latest(events'[m]) = e
      /\ \A n \in Mutation : n # m => events'[n] = events[n] /\ age'[n] = age[n]
  <2>1. /\ UNCHANGED <<intents, applied, failed, changed>>
        /\ inflight' \in [Mutation -> SUBSET (Nat \ {0})]
        /\ \A n \in Mutation : inflight'[n] \subseteq inflight[n]
    BY <1>1 DEF brokerVars, IInv, TypeOK
  <2>2. e.type \notin RecoverableTypes /\ e.type # "AMBIGUOUS" /\ e.type # "ACKNOWLEDGED"
    BY <1>4 DEF RecoverableTypes
  <2> QED BY <1>1, <1>2, <1>3, <1>4, <2>1, <2>2, AppendKeepsState DEF IInv
<1>6. TypeOK'
  BY <1>1, <1>5 DEF IInv, TypeOK, brokerVars, runVars
<1>7. pc' = [pc EXCEPT ![p] = "recovering"] /\ pc'[p] = "recovering"
  BY <1>1 DEF IInv, TypeOK
<1>8. LeaseInv' /\ \A q \in Proc : q # p => ProcOK(q)'
  BY <1>1, <1>7, LeaseFrame DEF IInv
<1>9. VerdictOK(p)'
  <2>1. ~Recoverable(events'[m])
    BY <1>4, <1>5 DEF Recoverable, RecoverableTypes
  <2>2. verdict'[p][m] = "RECORDED" /\ \A n \in Mutation : n # m => verdict'[p][n] = verdict[p][n]
    BY <1>1 DEF IInv, TypeOK
  <2>3. \A n \in Mutation : Done(n)' = Done(n) /\ Nothing(n)' = Nothing(n)
    BY <1>1 DEF brokerVars, Done, Nothing, Effective
  <2>4. VerdictOK(p)
    BY DEF IInv, ProcOK
  <2> QED BY <1>1, <1>5, <2>1, <2>2, <2>3, <2>4 DEF VerdictOK
<1>10. ProcOK(p)'
  BY <1>7, <1>9 DEF ProcOK, RunOK, EvidenceOK, ClearOK
<1> QED BY <1>5, <1>6, <1>8, <1>10 DEF IInv

\* _run commits ATTEMPTED only where the log is empty or says RECOVERED_ABSENT, so
\* nothing of an earlier attempt is left at the broker or on its way.
LEMMA AttemptStep == ASSUME IInv, NEW p \in Proc, Attempt(p) PROVE IInv'
<1> DEFINE m == Head(queue[p])
           n == LatestAttempt(events[m]) + 1
           e == MutationEvent(n, "ATTEMPTED")
<1>1. /\ pc[p] = "attempting" /\ ExistingResult(events[m]) = "NONE"
      /\ AppendEvent(m, e)
      /\ attempt' = [attempt EXCEPT ![p] = n]
      /\ pc' = [pc EXCEPT ![p] = "sending"]
      /\ UNCHANGED <<intents, brokerVars, lease, purpose, evidence, lag, verdict, queue, faults>>
  BY DEF Attempt
<1>2. queue[p] # <<>> /\ m \in Mutation /\ m \in intents
  BY <1>1, HeadTailProperties DEF IInv, TypeOK, ProcOK, RunOK
<1>3. \A k \in Mutation : ~Recoverable(events[k])
  BY <1>1 DEF IInv, ProcOK, ClearOK
<1>4. events[m] \in Seq(Event)
  BY <1>2 DEF IInv, TypeOK
<1>5. events[m] = <<>> \/ (events[m] # <<>> /\ Latest(events[m]).type = "RECOVERED_ABSENT")
  BY <1>1 DEF ExistingResult
<1>6. Nothing(m)
  <2>1. CASE events[m] = <<>>
    BY <1>2, <2>1 DEF IInv, StateInv, LatestInv, Nothing
  <2>2. CASE events[m] # <<>> /\ Latest(events[m]).type = "RECOVERED_ABSENT"
    BY <1>2, <2>2 DEF IInv, StateInv, AbsentIsTrue, Nothing
  <2> QED BY <1>5, <2>1, <2>2
<1>7. /\ LatestAttempt(events[m]) \in Nat
      /\ events[m] # <<>> => LatestAttempt(events[m]) = Latest(events[m]).attempt
  <2>1. CASE events[m] = <<>>
    BY <2>1 DEF LatestAttempt
  <2>2. CASE events[m] # <<>>
    <3>1. \A i \in DOMAIN events[m] : events[m][i].attempt <= Latest(events[m]).attempt
      BY <1>2, <2>2 DEF IInv, StateInv, LogInv
    <3> QED BY <1>4, <2>2, <3>1, LatestAttemptIsLatest
  <2> QED BY <2>1, <2>2
<1>8. /\ n \in Nat \ {0} /\ e \in Event /\ e.attempt = n /\ e.type = "ATTEMPTED"
      /\ events[m] # <<>> => Latest(events[m]).attempt <= n
  BY <1>7 DEF MutationEvent, Event, EventType
<1> HIDE DEF m, n
<1>9. /\ StateInv'
      /\ events' \in [Mutation -> Seq(Event)]
      /\ age' \in [Mutation -> 0..AgeCap]
      /\ fresh' \in [Proc -> BOOLEAN]
      /\ events'[m] # <<>> /\ Latest(events'[m]) = e
      /\ age'[m] = 0
  <2>1. /\ UNCHANGED <<intents, applied, failed, changed>>
        /\ inflight' \in [Mutation -> SUBSET (Nat \ {0})]
        /\ \A k \in Mutation : inflight'[k] \subseteq inflight[k]
    BY <1>1 DEF brokerVars, IInv, TypeOK
  <2> HIDE DEF e
  <2> QED BY <1>1, <1>2, <1>3, <1>6, <1>8, <2>1, AppendKeepsState DEF IInv
<1>10. TypeOK'
  BY <1>1, <1>8, <1>9 DEF IInv, TypeOK, PC, brokerVars
<1>11. LeaseInv' /\ \A q \in Proc : q # p => ProcOK(q)'
  BY <1>1, LeaseFrame DEF IInv
<1>12. /\ pc'[p] = "sending" /\ attempt'[p] = n /\ queue'[p] = queue[p]
       /\ inflight'[m] = {} /\ applied'[m] \ failed'[m] = {} /\ age'[m] <= RequestTTL
  BY <1>1, <1>6, <1>9, MutationAssumption DEF IInv, TypeOK, Nothing, Effective, brokerVars
<1>13. RunOK(p)'
  BY <1>2, <1>9, <1>12 DEF RunOK, Nothing, Effective, m
<1>14. ProcOK(p)'
  BY <1>12, <1>13 DEF ProcOK, EvidenceOK, VerdictOK, ClearOK
<1> QED BY <1>9, <1>10, <1>11, <1>14 DEF IInv

\* The outcome of the call closes the one mutation that had none; the plan goes on
\* only after an acknowledgement.
LEMMA RecordStep ==
  ASSUME IInv, NEW p \in Proc, NEW t \in {"ACKNOWLEDGED", "REJECTED", "AMBIGUOUS"},
         Record(p, t), inflight' \in [Mutation -> SUBSET (Nat \ {0})],
         \A n \in Mutation : inflight'[n] \subseteq inflight[n],
         t = "ACKNOWLEDGED" => applied[Head(queue[p])] # {}
  PROVE  IInv'
<1> DEFINE m == Head(queue[p])
           e == MutationEvent(attempt[p], t)
           rest == IF t = "ACKNOWLEDGED" THEN Tail(queue[p]) ELSE <<>>
<1>1. /\ pc[p] = "waiting" /\ AppendEvent(m, e) /\ Continue(p, rest)
      /\ UNCHANGED <<intents, applied, failed, changed, lease, faults>>
  BY DEF Record
<1>2. /\ queue[p] # <<>> /\ queue[p] \in Seq(Mutation) /\ m \in Mutation
      /\ Tail(queue[p]) \in Seq(Mutation)
  BY <1>1, HeadTailProperties DEF IInv, TypeOK, ProcOK, RunOK
<1>3. events[m] # <<>> /\ Latest(events[m]) = MutationEvent(attempt[p], "ATTEMPTED")
  BY <1>1 DEF IInv, ProcOK, RunOK
<1>4. Recoverable(events[m]) /\ Latest(events[m]).attempt = attempt[p] /\ m \in intents
  BY <1>2, <1>3 DEF Recoverable, RecoverableTypes, MutationEvent, IInv, StateInv, LogInv
<1>5. attempt[p] \in Nat \ {0}
  BY <1>2, <1>3, <1>4, LatestExists DEF IInv, TypeOK, Event
<1>6. /\ e \in Event /\ e.attempt = attempt[p] /\ e.type = t
      /\ Latest(events[m]).attempt <= e.attempt
  BY <1>4, <1>5 DEF MutationEvent, Event, EventType
<1>7. \A n \in Mutation : n # m => ~Recoverable(events[n])
  BY <1>2, <1>4 DEF IInv, StateInv, OneOutstanding
<1>8. t = "ACKNOWLEDGED" => Done(m)
  BY DEF Done
<1>9. rest \in Seq(Mutation)
  BY <1>2
<1> HIDE DEF m, e
<1>10. /\ StateInv'
      /\ events' \in [Mutation -> Seq(Event)]
      /\ age' \in [Mutation -> 0..AgeCap]
      /\ fresh' \in [Proc -> BOOLEAN]
      /\ events'[m] # <<>> /\ Latest(events'[m]) = e
      /\ \A n \in Mutation : n # m => events'[n] = events[n] /\ age'[n] = age[n]
  BY <1>1, <1>2, <1>3, <1>4, <1>6, <1>7, <1>8, AppendKeepsState DEF IInv
<1>11. rest # <<>> => \A n \in Mutation : ~Recoverable(events'[n])
  BY <1>6, <1>7, <1>10 DEF Recoverable, RecoverableTypes
<1> HIDE DEF rest
<1>12. /\ ProcOK(p)'
       /\ pc' = [pc EXCEPT ![p] = IF rest = <<>> THEN "checkpoint" ELSE "saving"]
       /\ pc' \in [Proc -> PC] /\ purpose' \in [Proc -> Purpose]
       /\ evidence' \in [Proc -> [Mutation -> Evidence]]
       /\ lag' \in [Proc -> 0..LagCap]
       /\ verdict' \in [Proc -> [Mutation -> Verdict \cup {"NONE", "RECORDED"}]]
       /\ queue' \in [Proc -> Seq(Mutation)] /\ attempt' \in [Proc -> Nat]
  BY <1>1, <1>9, <1>11, ContinueOK DEF IInv
<1>13. TypeOK'
  BY <1>1, <1>10, <1>12 DEF IInv, TypeOK
<1>14. LeaseInv' /\ \A q \in Proc : q # p => ProcOK(q)'
  BY <1>1, <1>12, LeaseFrame DEF IInv
<1> QED BY <1>10, <1>12, <1>13, <1>14 DEF IInv

-----------------------------------------------------------------------------
(* Steps of the broker call and of the broker *)

\* The request leaves after its ATTEMPTED event is committed, and at once.
LEMMA SendStep == ASSUME IInv, NEW p \in Proc, Send(p) PROVE IInv'
<1> DEFINE m == Head(queue[p])
<1>1. /\ pc[p] = "sending" /\ pc' = [pc EXCEPT ![p] = "waiting"]
      /\ inflight' = [inflight EXCEPT ![m] = inflight[m] \cup {attempt[p]}]
      /\ UNCHANGED <<ledgerVars, age, applied, failed, changed, lease, purpose, snapVars, runVars, faults>>
  BY DEF Send
<1>2. /\ queue[p] # <<>> /\ m \in Mutation
      /\ events[m] # <<>> /\ Latest(events[m]) = MutationEvent(attempt[p], "ATTEMPTED")
      /\ Nothing(m) /\ age[m] <= RequestTTL
  BY <1>1, HeadTailProperties DEF IInv, TypeOK, ProcOK, RunOK
<1>3. /\ Latest(events[m]).attempt = attempt[p] /\ Latest(events[m]).type = "ATTEMPTED"
      /\ attempt[p] \in Nat \ {0}
  <2>1. Latest(events[m]) \in Event
    BY <1>2, LatestExists DEF IInv, TypeOK
  <2>2. Latest(events[m]).attempt = attempt[p] /\ Latest(events[m]).type = "ATTEMPTED"
    BY <1>2 DEF MutationEvent
  <2> QED BY <2>1, <2>2 DEF Event
<1>4. "ATTEMPTED" \in TypesOf(events[m], attempt[p]) /\ m \in intents
  <2>1. Len(events[m]) \in DOMAIN events[m]
    BY <1>2, LatestExists DEF IInv, TypeOK
  <2> QED BY <1>2, <1>3, <2>1 DEF TypesOf, Latest, IInv, StateInv, LogInv
<1> HIDE DEF m
<1>5. TypeOK'
  BY <1>1, <1>2, <1>3 DEF IInv, TypeOK, PC, ledgerVars, snapVars, runVars
<1>6. /\ inflight'[m] = {attempt[p]}
      /\ \A n \in Mutation : n # m => inflight'[n] = inflight[n]
  BY <1>1, <1>2 DEF IInv, TypeOK, Nothing
<1>7. StateInv'
  <2> USE <1>1 DEF IInv, StateInv, ledgerVars
  <2>1. LogInv' BY DEF LogInv
  <2>2. LatestInv' BY <1>2, <1>3, <1>6 DEF LatestInv, Effective, Nothing
  <2>3. AgeInv' BY <1>2, <1>6 DEF AgeInv
  <2>4. CancelInv' BY DEF CancelInv
  <2>5. OneOutstanding' BY DEF OneOutstanding
  <2>6. AbsentIsTrue' BY <1>3, <1>6 DEF AbsentIsTrue, Effective
  <2>7. AcknowledgedIsTrue' BY DEF AcknowledgedIsTrue
  <2>8. AttemptedBeforeSent' BY <1>4, <1>6 DEF AttemptedBeforeSent
  <2> QED BY <2>1, <2>2, <2>3, <2>4, <2>5, <2>6, <2>7, <2>8
<1>8. LeaseInv' /\ \A q \in Proc : q # p => ProcOK(q)'
  BY <1>1, LeaseFrame DEF IInv
<1>9. pc'[p] = "waiting" /\ attempt'[p] = attempt[p] /\ queue'[p] = queue[p]
  BY <1>1 DEF IInv, TypeOK, runVars
<1>10. ProcOK(p)'
  BY <1>1, <1>2, <1>9 DEF ProcOK, RunOK, EvidenceOK, VerdictOK, ClearOK, ledgerVars, m
<1> QED BY <1>5, <1>7, <1>8, <1>10 DEF IInv

\* A step of the broker that undoes nothing and makes nothing effective that was not
\* under way leaves true what the processes know.
LEMMA BrokerKeepsProc ==
  ASSUME IInv, NEW p \in Proc,
         UNCHANGED <<ledgerVars, age, lease, pc, purpose, snapVars, runVars, faults>>,
         \A n \in Mutation : Done(n) => Done(n)',
         \A n \in Mutation : Nothing(n) => Nothing(n)'
  PROVE  ProcOK(p)'
<1> USE DEF ledgerVars, snapVars, runVars
<1>1. ProcOK(p) BY DEF IInv
<1>2. RunOK(p)'
  <2>1. pc[p] = "sending" => queue[p] # <<>> /\ Head(queue[p]) \in Mutation
    BY <1>1, HeadTailProperties DEF IInv, TypeOK, ProcOK, RunOK
  <2>2. pc[p] = "sending" => Nothing(Head(queue[p]))'
    <3> SUFFICES ASSUME pc[p] = "sending" PROVE Nothing(Head(queue[p]))'
      OBVIOUS
    <3>1. PICK n \in Mutation : n = Head(queue[p])
      BY <2>1
    <3>2. Nothing(n) BY <1>1, <3>1 DEF ProcOK, RunOK
    <3>3. Nothing(n)' BY <3>2
    <3> QED BY <3>1, <3>3 DEF Nothing, Effective
  <2> QED BY <1>1, <2>2 DEF ProcOK, RunOK
<1>3. EvidenceOK(p)' BY <1>1 DEF ProcOK, EvidenceOK
<1>4. VerdictOK(p)' BY <1>1 DEF ProcOK, VerdictOK
<1>5. ClearOK(p)' BY <1>1 DEF ProcOK, ClearOK
<1> QED BY <1>2, <1>3, <1>4, <1>5 DEF ProcOK

\* The broker carries out a late request: it is one of the latest attempt, which no
\* process has been able to record or to believe absent.
LEMMA ApplyStep == ASSUME IInv, NEW m \in Mutation, Apply(m) PROVE IInv'
<1>1. PICK a \in inflight[m] :
        /\ inflight' = [inflight EXCEPT ![m] = inflight[m] \ {a}]
        /\ applied' = [applied EXCEPT ![m] = applied[m] \cup {a}]
  BY DEF Apply
<1>2. /\ changed' = [changed EXCEPT ![m] = changed[m] \/ IsCancel(m)]
      /\ UNCHANGED <<ledgerVars, age, failed, lease, pc, purpose, snapVars, runVars, faults>>
  BY DEF Apply
<1>3. a \in Nat \ {0} /\ IsCancel(m) \in BOOLEAN /\ changed[m] \in BOOLEAN
  BY DEF IInv, TypeOK, IsCancel
<1>4. TypeOK'
  <2>1. inflight' \in [Mutation -> SUBSET (Nat \ {0})] /\ applied' \in [Mutation -> SUBSET (Nat \ {0})]
    BY <1>1, <1>3 DEF IInv, TypeOK
  <2>2. changed' \in [Mutation -> BOOLEAN]
    BY <1>2, <1>3 DEF IInv, TypeOK
  <2> QED BY <1>2, <2>1, <2>2 DEF IInv, TypeOK, ledgerVars, snapVars, runVars
<1>5. /\ inflight'[m] = inflight[m] \ {a} /\ applied'[m] = applied[m] \cup {a}
      /\ changed'[m] = (changed[m] \/ IsCancel(m))
      /\ \A n \in Mutation : n # m =>
           inflight'[n] = inflight[n] /\ applied'[n] = applied[n] /\ changed'[n] = changed[n]
  BY <1>1, <1>2 DEF IInv, TypeOK
<1>6. \A n \in Mutation : /\ Done(n) => Done(n)'
                          /\ Nothing(n) => Nothing(n)'
                          /\ inflight'[n] \cup Effective(n)' \subseteq inflight[n] \cup Effective(n)
                          /\ inflight'[n] \cup applied'[n] = inflight[n] \cup applied[n]
                          /\ inflight'[n] \subseteq inflight[n]
  BY <1>2, <1>5 DEF Done, Nothing, Effective
<1>7. StateInv'
  <2> USE <1>2 DEF IInv, StateInv, ledgerVars
  <2>1. LogInv' BY DEF LogInv
  <2>2. LatestInv' BY <1>6 DEF LatestInv
  <2>3. AgeInv' BY <1>6 DEF AgeInv
  <2>4. CancelInv' BY <1>5 DEF CancelInv, IsCancel
  <2>5. OneOutstanding' BY DEF OneOutstanding
  <2>6. AbsentIsTrue' BY <1>6 DEF AbsentIsTrue, Nothing
  <2>7. AcknowledgedIsTrue' BY <1>6 DEF AcknowledgedIsTrue, Done
  <2>8. AttemptedBeforeSent' BY <1>6 DEF AttemptedBeforeSent
  <2> QED BY <2>1, <2>2, <2>3, <2>4, <2>5, <2>6, <2>7, <2>8
<1>8. \A p \in Proc : ProcOK(p)' BY <1>2, <1>6, BrokerKeepsProc
<1>9. LeaseInv' BY <1>2 DEF IInv, LeaseInv
<1> QED BY <1>4, <1>7, <1>8, <1>9 DEF IInv

\* A lost request only takes away what might have happened.
LEMMA LoseStep == ASSUME IInv, NEW m \in Mutation, Lose(m) PROVE IInv'
<1>1. PICK a \in inflight[m] : inflight' = [inflight EXCEPT ![m] = inflight[m] \ {a}]
  BY DEF Lose
<1>2. UNCHANGED <<ledgerVars, age, applied, failed, changed, lease, pc, purpose, snapVars, runVars, faults>>
  BY DEF Lose
<1>3. TypeOK' BY <1>1, <1>2 DEF IInv, TypeOK, ledgerVars, snapVars, runVars
<1>4. \A n \in Mutation : inflight'[n] \subseteq inflight[n]
  BY <1>1 DEF IInv, TypeOK
<1>5. \A n \in Mutation : (Done(n) => Done(n)') /\ (Nothing(n) => Nothing(n)')
  BY <1>2, <1>4 DEF Done, Nothing, Effective
<1>6. StateInv'
  <2> USE <1>2, <1>4 DEF IInv, StateInv, ledgerVars
  <2>1. LogInv' BY DEF LogInv
  <2>2. LatestInv' BY DEF LatestInv, Effective
  <2>3. AgeInv' BY DEF AgeInv
  <2>4. CancelInv' BY DEF CancelInv
  <2>5. OneOutstanding' BY DEF OneOutstanding
  <2>6. AbsentIsTrue' BY DEF AbsentIsTrue, Effective
  <2>7. AcknowledgedIsTrue' BY DEF AcknowledgedIsTrue
  <2>8. AttemptedBeforeSent' BY DEF AttemptedBeforeSent
  <2> QED BY <2>1, <2>2, <2>3, <2>4, <2>5, <2>6, <2>7, <2>8
<1>7. \A p \in Proc : ProcOK(p)' BY <1>2, <1>5, BrokerKeepsProc
<1>8. LeaseInv' BY <1>2 DEF IInv, LeaseInv
<1> QED BY <1>3, <1>6, <1>7, <1>8 DEF IInv

\* A close order that fails is no longer effective.
LEMMA FailCloseStep == ASSUME IInv, NEW m \in Mutation, FailClose(m) PROVE IInv'
<1>1. PICK a \in applied[m] \ failed[m] : failed' = [failed EXCEPT ![m] = failed[m] \cup {a}]
  BY DEF FailClose
<1>2. UNCHANGED <<ledgerVars, age, inflight, applied, changed, lease, pc, purpose, snapVars, runVars, faults>>
  BY DEF FailClose
<1>3. TypeOK' BY <1>1, <1>2 DEF IInv, TypeOK, ledgerVars, snapVars, runVars
<1>4. \A n \in Mutation : Effective(n)' \subseteq Effective(n)
  BY <1>1, <1>2 DEF IInv, TypeOK, Effective
<1>5. \A n \in Mutation : (Done(n) => Done(n)') /\ (Nothing(n) => Nothing(n)')
  BY <1>2, <1>4 DEF Done, Nothing
<1>6. StateInv'
  <2> USE <1>2, <1>4 DEF IInv, StateInv, ledgerVars
  <2>1. LogInv' BY DEF LogInv
  <2>2. LatestInv' BY DEF LatestInv
  <2>3. AgeInv' BY DEF AgeInv
  <2>4. CancelInv' BY DEF CancelInv
  <2>5. OneOutstanding' BY DEF OneOutstanding
  <2>6. AbsentIsTrue' BY DEF AbsentIsTrue
  <2>7. AcknowledgedIsTrue' BY DEF AcknowledgedIsTrue
  <2>8. AttemptedBeforeSent' BY DEF AttemptedBeforeSent
  <2> QED BY <2>1, <2>2, <2>3, <2>4, <2>5, <2>6, <2>7, <2>8
<1>7. \A p \in Proc : ProcOK(p)' BY <1>2, <1>5, BrokerKeepsProc
<1>8. LeaseInv' BY <1>2 DEF IInv, LeaseInv
<1> QED BY <1>3, <1>6, <1>7, <1>8 DEF IInv

\* An order or a position changes by itself.
LEMMA DisturbStep == ASSUME IInv, NEW m \in Mutation, Disturb(m) PROVE IInv'
<1>1. /\ changed' = [changed EXCEPT ![m] = TRUE]
      /\ UNCHANGED <<ledgerVars, age, inflight, applied, failed, lease, pc, purpose, snapVars, runVars, faults>>
  BY DEF Disturb
<1>2. TypeOK' BY <1>1 DEF IInv, TypeOK, ledgerVars, snapVars, runVars
<1>3. \A n \in Mutation : changed[n] => changed'[n]
  BY <1>1 DEF IInv, TypeOK
<1>4. \A n \in Mutation : (Done(n) => Done(n)') /\ (Nothing(n) => Nothing(n)')
  BY <1>1, <1>3 DEF Done, Nothing, Effective, IsCancel
<1>5. StateInv'
  <2> USE <1>1, <1>3 DEF IInv, StateInv, ledgerVars
  <2>1. LogInv' BY DEF LogInv
  <2>2. LatestInv' BY DEF LatestInv, Effective
  <2>3. AgeInv' BY DEF AgeInv
  <2>4. CancelInv' BY DEF CancelInv, IsCancel
  <2>5. OneOutstanding' BY DEF OneOutstanding
  <2>6. AbsentIsTrue' BY DEF AbsentIsTrue, Effective
  <2>7. AcknowledgedIsTrue' BY <1>4 DEF AcknowledgedIsTrue, Done
  <2>8. AttemptedBeforeSent' BY DEF AttemptedBeforeSent
  <2> QED BY <2>1, <2>2, <2>3, <2>4, <2>5, <2>6, <2>7, <2>8
<1>6. \A p \in Proc : ProcOK(p)' BY <1>1, <1>4, BrokerKeepsProc
<1>7. LeaseInv' BY <1>1 DEF IInv, LeaseInv
<1> QED BY <1>2, <1>5, <1>6, <1>7 DEF IInv

\* Time passes: what is still under way stays young, and evidence of absence ages
\* along with the attempt it is about until the checkpoint is too old to count.
LEMMA TickStep == ASSUME IInv, Tick PROVE IInv'
<1>1. /\ \A m \in Mutation : Pending(m) => age[m] < RequestTTL
      /\ age' = [m \in Mutation |->
                   IF Recoverable(events[m]) THEN Min2(age[m] + 1, AgeCap) ELSE age[m]]
      /\ lag' = [p \in Proc |-> IF pc[p] = "reading" THEN Min2(lag[p] + 1, LagCap) ELSE lag[p]]
      /\ UNCHANGED <<ledgerVars, brokerVars, lease, pc, purpose, evidence, fresh, verdict, runVars, faults>>
  BY DEF Tick
<1>2. /\ {AgeCap, LagCap, ReceiptAge, RequestTTL} \subseteq Nat /\ LagCap = ReceiptAge + 1
      /\ \A m \in Mutation : age[m] \in 0..AgeCap
      /\ \A p \in Proc : lag[p] \in 0..LagCap
  BY MutationAssumption DEF AgeCap, LagCap, IInv, TypeOK
<1>3. \A m \in Mutation : age'[m] \in 0..AgeCap /\ age'[m] <= age[m] + 1
  BY <1>1, <1>2 DEF Min2
<1>4. \A p \in Proc : /\ lag'[p] \in 0..LagCap
                      /\ pc[p] = "reading" => lag'[p] = lag[p] + 1 \/ lag'[p] > ReceiptAge
  BY <1>1, <1>2 DEF Min2
<1>5. TypeOK'
  <2>1. age' \in [Mutation -> 0..AgeCap]
    <3>1. age' = [m \in Mutation |-> age'[m]] BY <1>1
    <3> QED BY <1>3, <3>1
  <2>2. lag' \in [Proc -> 0..LagCap]
    <3>1. lag' = [p \in Proc |-> lag'[p]] BY <1>1
    <3> QED BY <1>4, <3>1
  <2> QED BY <1>1, <2>1, <2>2 DEF IInv, TypeOK, ledgerVars, brokerVars, runVars
<1>6. \A m \in Mutation : Pending(m) => age'[m] <= RequestTTL
  BY <1>1, <1>2, <1>3
<1>7. StateInv'
  <2> USE <1>1 DEF IInv, StateInv, ledgerVars, brokerVars
  <2>1. LogInv' BY DEF LogInv
  <2>2. LatestInv' BY DEF LatestInv, Effective
  <2>3. AgeInv' BY <1>6 DEF AgeInv, Pending
  <2>4. CancelInv' BY DEF CancelInv
  <2>5. OneOutstanding' BY DEF OneOutstanding
  <2>6. AbsentIsTrue' BY DEF AbsentIsTrue, Effective
  <2>7. AcknowledgedIsTrue' BY DEF AcknowledgedIsTrue
  <2>8. AttemptedBeforeSent' BY DEF AttemptedBeforeSent
  <2> QED BY <2>1, <2>2, <2>3, <2>4, <2>5, <2>6, <2>7, <2>8
<1>8. LeaseInv' BY <1>1 DEF IInv, LeaseInv
<1>9. ASSUME NEW p \in Proc PROVE ProcOK(p)'
  <2> USE <1>1 DEF ledgerVars, brokerVars, runVars
  <2>1. ProcOK(p) BY DEF IInv
  <2>2. RunOK(p)'
    <3>1. pc[p] = "sending" => Head(queue[p]) \in Mutation
      BY <2>1, HeadTailProperties DEF IInv, TypeOK, ProcOK, RunOK
    <3>2. pc[p] = "sending" => age'[Head(queue[p])] <= RequestTTL
      BY <1>6, <3>1 DEF Pending
    <3> QED BY <2>1, <3>2 DEF ProcOK, RunOK, Nothing, Effective
  <2>3. EvidenceOK(p)'
    <3> SUFFICES ASSUME pc[p] = "reading", NEW m \in Mutation, Recoverable(events[m])
                 PROVE /\ \A s \in BOOLEAN :
                            DecideMutationRecovery(Op[m], evidence[p][m], s) = "ACKNOWLEDGED" => Done(m)
                       /\ DecideMutationRecovery(Op[m], evidence[p][m], TRUE) = "ABSENT" =>
                            Nothing(m) \/ age'[m] <= RequestTTL + lag'[p] \/ lag'[p] > ReceiptAge
      BY DEF EvidenceOK, Done, Nothing, Effective
    <3>1. /\ \A s \in BOOLEAN :
               DecideMutationRecovery(Op[m], evidence[p][m], s) = "ACKNOWLEDGED" => Done(m)
          /\ DecideMutationRecovery(Op[m], evidence[p][m], TRUE) = "ABSENT" =>
               Nothing(m) \/ age[m] <= RequestTTL + lag[p] \/ lag[p] > ReceiptAge
      BY <2>1 DEF ProcOK, EvidenceOK
    <3>2. /\ age[m] <= RequestTTL + lag[p] \/ lag[p] > ReceiptAge
             => age'[m] <= RequestTTL + lag'[p] \/ lag'[p] > ReceiptAge
      BY <1>2, <1>3, <1>4
    <3> QED BY <3>1, <3>2
  <2>4. VerdictOK(p)' BY <2>1 DEF ProcOK, VerdictOK, Done, Nothing, Effective
  <2>5. ClearOK(p)' BY <2>1 DEF ProcOK, ClearOK
  <2> QED BY <2>2, <2>3, <2>4, <2>5 DEF ProcOK
<1> QED BY <1>5, <1>7, <1>8, <1>9 DEF IInv

-----------------------------------------------------------------------------
(* Theorems *)

\* Every step a process, the broker or time can take keeps the invariant.
LEMMA NextIInv == IInv /\ [Next]_vars => IInv'
<1> SUFFICES ASSUME IInv, [Next]_vars PROVE IInv'
  OBVIOUS
<1>1. ASSUME NEW p \in Proc, Step(p) PROVE IInv'
  <2>1. CASE ReadBroker(p) BY <2>1, ReadBrokerStep
  <2>2. CASE CheckpointTooOld(p)
    BY <2>2, EndStep DEF CheckpointTooOld, IInv, TypeOK
  <2>3. CASE CompleteCheckpoint(p) BY <2>3, CompleteCheckpointStep
  <2>4. CASE \E m \in Mutation : RecoverOne(p, m) BY <2>4, RecoverOneStep
  <2>5. CASE \E m \in Mutation : RecoverRaises(p, m)
    BY <2>5, EndStep DEF RecoverRaises, IInv, TypeOK
  <2>6. CASE EndRecover(p) BY <2>6, EndRecoverStep
  <2>7. CASE \E q \in Plans : StartPlan(p, q) BY <2>7, StartPlanStep
  <2>8. CASE Decline(p)
    BY <2>8, EndStep DEF Decline, IInv, TypeOK
  <2>9. CASE SaveIntent(p) BY <2>9, SaveIntentStep
  <2>10. CASE Attempt(p) BY <2>10, AttemptStep
  <2>11. CASE SkipAttempt(p) BY <2>11, SkipAttemptStep
  <2>12. CASE Send(p) BY <2>12, SendStep
  <2>13. CASE ReplyAcknowledged(p)
    <3>1. /\ inflight' \in [Mutation -> SUBSET (Nat \ {0})]
          /\ \A n \in Mutation : inflight'[n] \subseteq inflight[n]
      BY <2>13 DEF ReplyAcknowledged, IInv, TypeOK
    <3> QED BY <2>13, <3>1, RecordStep DEF ReplyAcknowledged
  <2>14. CASE ReplyRejected(p)
    <3>1. /\ inflight' \in [Mutation -> SUBSET (Nat \ {0})]
          /\ \A n \in Mutation : inflight'[n] \subseteq inflight[n]
      BY <2>14 DEF ReplyRejected, IInv, TypeOK
    <3> QED BY <2>14, <3>1, RecordStep DEF ReplyRejected
  <2>15. CASE ReplyServerError(p)
    <3>1. /\ inflight' \in [Mutation -> SUBSET (Nat \ {0})]
          /\ \A n \in Mutation : inflight'[n] \subseteq inflight[n]
      BY <2>15 DEF ReplyServerError, IInv, TypeOK
    <3> QED BY <2>15, <3>1, RecordStep DEF ReplyServerError
  <2>16. CASE ReplyAmbiguous(p)
    <3>1. /\ inflight' \in [Mutation -> SUBSET (Nat \ {0})]
          /\ \A n \in Mutation : inflight'[n] \subseteq inflight[n]
      BY <2>16 DEF ReplyAmbiguous, IInv, TypeOK
    <3> QED BY <2>16, <3>1, RecordStep DEF ReplyAmbiguous
  <2>17. CASE ReplyUnexpectedStatus(p)
    BY <2>17, EndStep DEF ReplyUnexpectedStatus, IInv, TypeOK
  <2>18. CASE CheckpointRefused(p)
    BY <2>18, EndStep DEF CheckpointRefused, IInv, TypeOK
  <2> QED BY <1>1, <2>1, <2>2, <2>3, <2>4, <2>5, <2>6, <2>7, <2>8, <2>9, <2>10, <2>11,
             <2>12, <2>13, <2>14, <2>15, <2>16, <2>17, <2>18 DEF Step
<1>2. ASSUME NEW p \in Proc, Session(p) PROVE IInv'
  BY <1>2, OpenStep, CloseStep, BeginStep DEF Session
<1>3. ASSUME NEW p \in Proc, Fault(p) PROVE IInv'
  <2>1. CASE Crash(p) BY <2>1, CrashStep
  <2>2. CASE CheckpointFails(p)
    <3>1. faults' \in Nat BY <2>2 DEF CheckpointFails, IInv, TypeOK
    <3> QED BY <2>2, <3>1, EndStep DEF CheckpointFails
  <2> QED BY <1>3, <2>1, <2>2 DEF Fault
<1>4. CASE Broker
  BY <1>4, ApplyStep, LoseStep, FailCloseStep, DisturbStep DEF Broker
<1>5. CASE Tick BY <1>5, TickStep
<1>6. CASE UNCHANGED vars
  <2> USE <1>6 DEF vars, ledgerVars, brokerVars, snapVars, runVars
  <2>1. TypeOK' BY DEF IInv, TypeOK
  <2>2. LeaseInv' BY DEF IInv, LeaseInv
  <2>3. StateInv' BY StateFrame DEF IInv
  <2>4. \A p \in Proc : ProcOK(p)'
    BY DEF IInv, ProcOK, RunOK, EvidenceOK, VerdictOK, ClearOK, Done, Nothing, Effective
  <2> QED BY <2>1, <2>2, <2>3, <2>4 DEF IInv
<1> QED BY <1>1, <1>2, <1>3, <1>4, <1>5, <1>6 DEF Next

\* The invariant holds in every state the mutation plane can reach, for every
\* number of processes, mutations, attempts and crashes.
THEOREM InductiveInvariant == Spec => []IInv
BY InitIInv, NextIInv, PTL DEF Spec

\* Ledger, broker and session state always have their types.
THEOREM TypeCorrect == Spec => []TypeOK
<1>1. IInv => TypeOK BY DEF IInv
<1> QED BY <1>1, InductiveInvariant, PTL

\* No mutation takes effect at the broker twice, through any number of crashes,
\* retries and late deliveries, provided a request is delivered within RequestTTL
\* and RequestTTL + ReceiptAge < SettleDelay.
THEOREM NoDoubleEffect == Spec => []AtMostOneEffect
<1>1. IInv => AtMostOneEffect BY DEF IInv, StateInv, LatestInv, AtMostOneEffect
<1> QED BY <1>1, InductiveInvariant, PTL

\* What recovery records as absent never takes effect, under the same proviso.
THEOREM AbsentStaysAbsent == Spec => []AbsentIsTrue
<1>1. IInv => AbsentIsTrue BY DEF IInv, StateInv
<1> QED BY <1>1, InductiveInvariant, PTL

\* What the call or recovery records as acknowledged was carried out.
THEOREM AcknowledgedWasDone == Spec => []AcknowledgedIsTrue
<1>1. IInv => AcknowledgedIsTrue BY DEF IInv, StateInv
<1> QED BY <1>1, InductiveInvariant, PTL

\* The ledger knows of every request that reached or may reach the broker.
THEOREM NoUnknownRequest == Spec => []AttemptedBeforeSent
<1>1. IInv => AttemptedBeforeSent BY DEF IInv, StateInv
<1> QED BY <1>1, InductiveInvariant, PTL

\* At most one mutation of the account is without an outcome.
THEOREM AtMostOneOutstanding == Spec => []OneOutstanding
<1>1. IInv => OneOutstanding BY DEF IInv, StateInv
<1> QED BY <1>1, InductiveInvariant, PTL
=============================================================================
