----------------------- MODULE PaperProtectionProofs ------------------------
(***************************************************************************)
(* Theorems about PaperProtection, for any quantity of the entry, any      *)
(* number of plans and any of the behaviours: types, the kill latch, and   *)
(* the guard against repeated safety actions.                              *)
(* As long as the order lists show an OCO once the broker has taken it     *)
(* (no "lag"), also what the account is protected by: at most one OCO that *)
(* can fill, a close that works alone, and no more to sell than is held.   *)
(* With "lag" they do not hold: that is the finding of run missing.        *)
(***************************************************************************)
EXTENDS PaperProtection, FiniteSetTheorems, SequenceTheorems, WellFoundedInduction, TLAPS

SeenType == [entry : EntryOrder, history : SUBSET Oco, order : EntryOrder, open : SUBSET Oco,
             closes : BOOLEAN, position : 0..Quantity]

(* The requests that may still be carried out: those queued, and the one   *)
(* on its way without an answer.                                           *)
Queued == {queue[i] : i \in DOMAIN queue}
Travelling == IF outstanding # None /\ outstanding.sent THEN {outstanding.request} ELSE {}
Pending == Queued \cup Travelling

TypeInv == TypeOK /\ seen \in SeenType

(* Each plan has been submitted at most once.                              *)
PlanInv ==
  /\ \A i \in DOMAIN ocos : ocos[i].plan \in DOMAIN plans
  /\ \A i, j \in DOMAIN ocos : ocos[i].plan = ocos[j].plan => i = j
  /\ \A r \in Pending : r.kind = "SUBMIT_OCO" => r.target \in DOMAIN plans

(* One mutation at a time, and one that buys protection or sells the       *)
(* position alone in its queue; a close order stops all further plans.     *)
FlowInv ==
  /\ pc # "idle" => outstanding = None
  /\ pc = "run" <=> queue # <<>>
  /\ position <= entry.filled
  /\ closing > 0 => closes
  /\ pc \in {"inventory", "positions", "decide"} => ~closes
  /\ \A r \in Pending : r.kind \in {"SUBMIT_OCO", "CLOSE"} => ~closes
  /\ \A r \in Queued : r.kind \in {"SUBMIT_OCO", "CLOSE"} => Len(queue) = 1

(* No protective OCO is on its way once the kill plan is saved.            *)
LatchInv == kill => \A r \in Pending : r.kind # "SUBMIT_OCO"

BaseInv == TypeInv /\ PlanInv /\ FlowInv /\ LatchInv

(* What works at the broker is no more than one OCO, or a close alone, for *)
(* shares that are held.                                                   *)
Shown == \A i \in DOMAIN ocos : ocos[i].shown
SellInv ==
  /\ \A i, j \in LiveOcos : i = j
  /\ \A i \in LiveOcos : ocos[i].left <= position
  /\ closing <= position
  /\ closing > 0 => LiveOcos = {} /\ ~Live(entry)

(* What an operation has read stays true until it acts on it: nothing that *)
(* it saw gone comes back, and what it saw held is still held.             *)
ReadInv ==
  /\ pc \in {"positions", "decide"} /\ seen.open = {} => LiveOcos = {}
  /\ pc \in {"positions", "decide"} /\ ~Live(seen.order) => ~Live(entry)
  /\ pc = "decide" /\ seen.open = {} => seen.position <= position
PendingInv ==
  \A r \in Pending :
    /\ r.kind = "SUBMIT_OCO" => LiveOcos = {} /\ plans[r.target].quantity <= position
    /\ r.kind = "CLOSE" => LiveOcos = {} /\ ~Live(entry) /\ r.target <= position

SafeInv == Shown /\ SellInv /\ ReadInv /\ PendingInv
Inv == BaseInv /\ ("lag" \notin Behaviours => SafeInv)

-----------------------------------------------------------------------------
(* The constants, and what a request is.                                   *)
LEMMA Constants ==
  /\ Quantity \in Nat /\ Quantity >= 1 /\ MaxPlans \in Nat /\ MaxPlans >= 1
  /\ Behaviours \subseteq BehaviourSet
BY ProtectionAssumption

LEMMA RequestIs ==
  /\ \A r \in Request :
       /\ r.kind \in {"SUBMIT_OCO", "CANCEL_OCO", "CANCEL_ORDER", "CLOSE"}
       /\ r.kind = "CLOSE" => r.target \in 1..Quantity
       /\ r.kind # "CLOSE" => r.target \in 0..MaxPlans
  /\ \A k \in {"SUBMIT_OCO", "CANCEL_OCO", "CANCEL_ORDER"}, t \in 0..MaxPlans : Req(k, t) \in Request
  /\ \A t \in 1..Quantity : Req("CLOSE", t) \in Request
  /\ \A k, t : Req(k, t).kind = k /\ Req(k, t).target = t
BY DEF Request, Req

(* A set of numbers has a least member, and a finite one a greatest.       *)
LEMMA MinOfNaturals ==
  ASSUME NEW S \in SUBSET Nat, S # {}
  PROVE  Min(S) \in S /\ \A k \in S : Min(S) <= k
<1>1. PICK m \in S : \A k \in S : ~(<<k, m>> \in OpToRel(<, Nat))
  BY NatLessThanWellFounded, WFMin
<1>2. \A k \in S : ~(k < m)
  BY <1>1 DEF OpToRel
<1>3. \A k \in S : m =< k
  BY <1>2
<1>. QED
  BY <1>3 DEF Min

LEMMA MaxOfBounded ==
  ASSUME NEW n \in Nat, NEW S \in SUBSET (0..n), S # {}
  PROVE  Max(S) \in S
<1>. DEFINE T == {n - k : k \in S}
<1>1. T \in SUBSET Nat /\ T # {}
  <2>1. \A k \in S : n - k \in Nat
    OBVIOUS
  <2>. QED
    BY <2>1
<1>2. Min(T) \in T /\ \A k \in T : Min(T) <= k
  BY <1>1, MinOfNaturals
<1>3. PICK m \in S : Min(T) = n - m
  BY <1>2
<1>4. \A k \in S : n - m <= n - k
  BY <1>2, <1>3
<1>5. \A k \in S : k <= m
  BY <1>4
<1>. QED
  BY <1>5 DEF Max

(* The sum over no index, and over one.                                    *)
LEMMA SumOfNone == MapThenSumSet(LAMBDA i : ocos[i].left, {}) = 0
<1>. DEFINE P(g) == g = [s \in SUBSET {} |->
                           IF s = {} THEN 0
                           ELSE ocos[CHOOSE x \in s : TRUE].left + g[s \ {CHOOSE x \in s : TRUE}]]
<1>1. MapThenSumSet(LAMBDA i : ocos[i].left, {}) = (CHOOSE g : P(g))[{}]
  BY DEF MapThenSumSet, MapThenFoldSet
<1>2. P([s \in SUBSET {} |-> 0])
  OBVIOUS
<1>3. P(CHOOSE g : P(g))
  BY <1>2
<1>. QED
  BY <1>1, <1>3

LEMMA SumOfOne ==
  ASSUME NEW j, ocos[j].left \in Nat
  PROVE  MapThenSumSet(LAMBDA i : ocos[i].left, {j}) = ocos[j].left
<1>. DEFINE P(g) == g = [s \in SUBSET {j} |->
                           IF s = {} THEN 0
                           ELSE ocos[CHOOSE x \in s : TRUE].left + g[s \ {CHOOSE x \in s : TRUE}]]
            h == [s \in SUBSET {j} |-> IF s = {} THEN 0 ELSE ocos[j].left]
<1>1. MapThenSumSet(LAMBDA i : ocos[i].left, {j}) = (CHOOSE g : P(g))[{j}]
  BY DEF MapThenSumSet, MapThenFoldSet
<1>2. (CHOOSE x \in {j} : TRUE) = j
  OBVIOUS
<1>3. h[{}] = 0 /\ {j} \ {j} = {} /\ \A s \in SUBSET {j} : s = {} \/ s = {j}
  OBVIOUS
<1>4. P(h)
  BY <1>2, <1>3
<1>5. P(CHOOSE g : P(g))
  BY <1>4
<1>. HIDE DEF h
<1>6. ASSUME NEW g, P(g) PROVE g[{j}] = ocos[j].left
  BY <1>2, <1>3, <1>6
<1>. QED
  BY <1>1, <1>5, <1>6

-----------------------------------------------------------------------------
(* What a safety plan queues: cancels, or a close alone, of what was seen  *)
(* held when no order was seen at work.                                    *)
LEMMA SafetyQueue ==
  ASSUME TypeInv, NEW phase
  PROVE  LET q == ActionsForPhase(phase)
             part == ExecutablePart(q)
         IN  /\ part \in Seq(Request)
             /\ q # <<>> => part # <<>>
             /\ \A i \in DOMAIN part :
                  /\ part[i].kind \in {"CANCEL_ORDER", "CLOSE"}
                  /\ part[i].kind = "CLOSE" =>
                       /\ Len(part) = 1 /\ part[i].target = seen.position
                       /\ seen.open = {} /\ ~Live(seen.order)
<1>. USE Constants, RequestIs
<1>. DEFINE q == ActionsForPhase(phase)
            part == ExecutablePart(q)
            Cancels(s) == /\ s \in Seq(Request) /\ Len(s) \in Nat
                          /\ \A i \in 1..Len(s) : s[i].kind = "CANCEL_ORDER"
            first == EntryCancels
            second == OcoCancels
            last == Closes
            Good(p) == /\ p \in Seq(Request)
                       /\ q # <<>> => p # <<>>
                       /\ \A i \in DOMAIN p :
                            /\ p[i].kind \in {"CANCEL_ORDER", "CLOSE"}
                            /\ p[i].kind = "CLOSE" =>
                                 /\ Len(p) = 1 /\ p[i].target = seen.position
                                 /\ seen.open = {} /\ ~Live(seen.order)
<1>. SUFFICES Good(part)
  OBVIOUS
<1>1. Cancels(first) /\ (first = <<>> => ~Live(seen.order))
  BY DEF EntryCancels
<1>2. Cancels(second) /\ (second = <<>> => seen.open = {})
  <2>1. CASE seen.open = {}
    BY <2>1 DEF OcoCancels
  <2>2. CASE seen.open # {}
    <3>1. PICK o \in seen.open : o = (CHOOSE x \in seen.open : TRUE)
      BY <2>2
    <3>2. o.plan \in 1..MaxPlans
      BY <3>1 DEF TypeInv, SeenType, Oco
    <3>3. second = <<Req("CANCEL_ORDER", o.plan)>>
      BY <2>2, <3>1 DEF OcoCancels
    <3>. QED
      BY <3>2, <3>3
  <2>. QED
    BY <2>1, <2>2
<1>3. \/ last = <<>>
      \/ /\ last = <<Req("CLOSE", seen.position)>> /\ seen.position \in 1..Quantity
         /\ last \in Seq(Request) /\ Len(last) = 1
         /\ last[1].kind = "CLOSE" /\ last[1].target = seen.position
  BY DEF Closes, TypeInv, SeenType
<1>4. q = <<>> \/ q = first \/ q = first \o second \o last
  BY DEF ActionsForPhase
<1>. HIDE DEF first, second, last, q
<1>5. Cancels(first \o second)
  <2>1. /\ first \o second \in Seq(Request) /\ Len(first \o second) = Len(first) + Len(second)
        /\ \A i \in 1..(Len(first) + Len(second)) :
             (first \o second)[i] = IF i <= Len(first) THEN first[i] ELSE second[i - Len(first)]
    BY <1>1, <1>2, ConcatProperties
  <2>2. ASSUME NEW i \in 1..(Len(first) + Len(second))
        PROVE  (first \o second)[i].kind = "CANCEL_ORDER"
    <3>1. CASE i <= Len(first)
      <4>1. i \in 1..Len(first)
        BY <1>1, <1>2, <3>1
      <4>. QED
        BY <1>1, <2>1, <3>1, <4>1
    <3>2. CASE ~(i <= Len(first))
      <4>1. i - Len(first) \in 1..Len(second)
        BY <1>1, <1>2, <3>2
      <4>. QED
        BY <1>2, <2>1, <3>2, <4>1
    <3>. QED
      BY <3>1, <3>2
  <2>. QED
    BY <1>1, <1>2, <2>1, <2>2
<1>6. first \o second = <<>> => first = <<>> /\ second = <<>>
  BY <1>1, <1>2, ConcatSimplifications
<1>7. \/ Cancels(q)
      \/ q = last /\ last # <<>> /\ seen.open = {} /\ ~Live(seen.order)
      \/ \E c \in Seq(Request) : Cancels(c) /\ c # <<>> /\ q = c \o last /\ last # <<>>
  <2>. DEFINE c == first \o second
  <2>1. CASE q = <<>>
    BY <2>1
  <2>2. CASE q = first
    BY <1>1, <2>2
  <2>3. CASE q = c \o last /\ last = <<>>
    <3>1. q = c
      BY <1>5, <2>3, ConcatEmptySeq
    <3>. QED
      BY <1>5, <3>1
  <2>4. CASE q = c \o last /\ last # <<>> /\ c = <<>>
    <3>1. q = last
      BY <1>3, <2>4, ConcatEmptySeq
    <3>. QED
      BY <1>1, <1>2, <1>6, <2>4, <3>1
  <2>5. CASE q = c \o last /\ last # <<>> /\ c # <<>>
    BY <1>5, <2>5
  <2>. QED
    BY <1>4, <2>1, <2>2, <2>3, <2>4, <2>5
<1>. DEFINE n(s) == Min({Len(s) + 1} \cup {i \in DOMAIN s : s[i].kind = "CLOSE"}) - 1
<1>8. part = IF \E i \in DOMAIN q : q[i].kind = "CANCEL_ORDER" THEN SubSeq(q, 1, n(q)) ELSE q
  BY DEF ExecutablePart
<1>9. ASSUME q \in Seq(Request), q # <<>>, q[1].kind = "CANCEL_ORDER",
             \A i \in DOMAIN q : q[i].kind \in {"CANCEL_ORDER", "CLOSE"}
      PROVE  /\ part \in Seq(Request) /\ part # <<>>
             /\ \A i \in DOMAIN part : part[i].kind = "CANCEL_ORDER"
  <2>. DEFINE S == {Len(q) + 1} \cup {i \in DOMAIN q : q[i].kind = "CLOSE"}
  <2>1. Len(q) \in Nat /\ Len(q) >= 1 /\ DOMAIN q = 1..Len(q) /\ 1 \in DOMAIN q
    BY <1>9
  <2>2. S \in SUBSET Nat /\ Len(q) + 1 \in S
    BY <2>1
  <2>3. Min(S) \in S /\ \A k \in S : Min(S) <= k
    BY <2>2, MinOfNaturals
  <2>4. n(q) = Min(S) - 1
    OBVIOUS
  <2>. HIDE DEF S, n
  <2>5. Min(S) \in Nat /\ Min(S) # 1 /\ Min(S) # 0 /\ Min(S) <= Len(q) + 1
    <3>1. 1 \notin S /\ 0 \notin S
      BY <1>9, <2>1 DEF S
    <3>. QED
      BY <2>2, <2>3, <3>1
  <2>6. n(q) \in Nat /\ 1 <= n(q) /\ n(q) <= Len(q)
    BY <2>1, <2>4, <2>5
  <2>7. \A i \in 1..n(q) : i \in DOMAIN q /\ q[i] \in Request /\ q[i].kind = "CANCEL_ORDER"
    <3>. SUFFICES ASSUME NEW i \in 1..n(q)
                  PROVE i \in DOMAIN q /\ q[i] \in Request /\ q[i].kind = "CANCEL_ORDER"
      OBVIOUS
    <3>1. i \in DOMAIN q /\ q[i] \in Request
      BY <1>9, <2>1, <2>6
    <3>2. i \notin S
      BY <2>3, <2>4, <2>5
    <3>3. q[i].kind # "CLOSE"
      BY <3>1, <3>2 DEF S
    <3>. QED
      BY <1>9, <3>1, <3>3
  <2>8. part = SubSeq(q, 1, n(q))
    BY <1>8, <1>9, <2>1
  <2>9. /\ SubSeq(q, 1, n(q)) \in Seq(Request)
        /\ Len(SubSeq(q, 1, n(q))) = n(q)
        /\ \A i \in 1..n(q) : SubSeq(q, 1, n(q))[i] = q[i]
    BY <2>6, <2>7, SubSeqProperties
  <2>. HIDE DEF part
  <2>10. part \in Seq(Request) /\ Len(part) = n(q) /\ \A i \in 1..n(q) : part[i] = q[i]
    BY <2>8, <2>9
  <2>11. part # <<>> /\ DOMAIN part = 1..n(q)
    BY <2>6, <2>10
  <2>. QED
    BY <2>7, <2>10, <2>11
<1>10. ASSUME Cancels(q) PROVE Good(part)
  <2>1. CASE q = <<>>
    <3>1. part = <<>>
      BY <1>8, <2>1
    <3>2. <<>> \in Seq(Request) /\ DOMAIN <<>> = {}
      OBVIOUS
    <3>. HIDE DEF part
    <3>. QED
      BY <2>1, <3>1, <3>2
  <2>2. CASE q # <<>>
    <3>1. Len(q) \in Nat /\ Len(q) >= 1 /\ DOMAIN q = 1..Len(q) /\ q \in Seq(Request)
      BY <1>10, <2>2
    <3>2. q[1].kind = "CANCEL_ORDER" /\ \A i \in DOMAIN q : q[i].kind = "CANCEL_ORDER"
      BY <1>10, <3>1
    <3>. HIDE DEF part
    <3>3. part \in Seq(Request) /\ part # <<>> /\ \A i \in DOMAIN part : part[i].kind = "CANCEL_ORDER"
      BY <1>9, <2>2, <3>1, <3>2
    <3>. QED
      BY <3>3
  <2>. QED
    BY <2>1, <2>2
<1>11. ASSUME q = last, last # <<>>, seen.open = {}, ~Live(seen.order) PROVE Good(part)
  <2>1. q \in Seq(Request) /\ Len(q) = 1 /\ q[1].kind = "CLOSE" /\ q[1].target = seen.position
    BY <1>3, <1>11
  <2>2. DOMAIN q = {1}
    BY <2>1
  <2>3. part = q
    BY <1>8, <2>1, <2>2
  <2>. HIDE DEF part
  <2>. QED
    BY <1>11, <2>1, <2>2, <2>3
<1>12. ASSUME NEW c \in Seq(Request), Cancels(c), c # <<>>, q = c \o last, last # <<>>
       PROVE  Good(part)
  <2>1. Len(c) \in Nat /\ Len(c) >= 1 /\ \A i \in 1..Len(c) : c[i].kind = "CANCEL_ORDER"
    BY <1>12
  <2>. HIDE DEF Cancels
  <2>2. last \in Seq(Request) /\ Len(last) = 1 /\ last[1].kind = "CLOSE"
    BY <1>3, <1>12
  <2>3. /\ q \in Seq(Request) /\ Len(q) = Len(c) + 1
        /\ \A i \in 1..(Len(c) + 1) : q[i] = IF i <= Len(c) THEN c[i] ELSE last[i - Len(c)]
    <3>1. /\ c \o last \in Seq(Request) /\ Len(c \o last) = Len(c) + Len(last)
          /\ \A i \in 1..(Len(c) + Len(last)) :
               (c \o last)[i] = IF i <= Len(c) THEN c[i] ELSE last[i - Len(c)]
      BY <2>2, ConcatProperties
    <3>. QED
      BY <1>12, <2>2, <3>1
  <2>4. DOMAIN q = 1..(Len(c) + 1) /\ q # <<>>
    BY <2>1, <2>3
  <2>5. \A i \in 1..(Len(c) + 1) : q[i].kind \in {"CANCEL_ORDER", "CLOSE"}
    <3>. SUFFICES ASSUME NEW i \in 1..(Len(c) + 1) PROVE q[i].kind \in {"CANCEL_ORDER", "CLOSE"}
      OBVIOUS
    <3>1. i <= Len(c) => i \in 1..Len(c)
      BY <2>1
    <3>2. ~(i <= Len(c)) => i - Len(c) = 1
      BY <2>1
    <3>. QED
      BY <2>1, <2>2, <2>3, <3>1, <3>2
  <2>6. q[1].kind = "CANCEL_ORDER"
    <3>1. 1 \in 1..Len(c) /\ 1 \in 1..(Len(c) + 1)
      BY <2>1
    <3>. QED
      BY <2>1, <2>3, <3>1
  <2>. HIDE DEF part
  <2>7. part \in Seq(Request) /\ part # <<>> /\ \A i \in DOMAIN part : part[i].kind = "CANCEL_ORDER"
    BY <1>9, <2>3, <2>4, <2>5, <2>6
  <2>. QED
    BY <2>7
<1>. HIDE DEF part, Cancels, Good
<1>. QED
  BY <1>7, <1>10, <1>11, <1>12

-----------------------------------------------------------------------------
(* Types, plans, the flow of an operation and the kill latch.              *)
LEMMA TypeFacts ==
  ASSUME TypeInv
  PROVE  /\ entry \in EntryOrder /\ entry.filled \in 0..Quantity /\ entry.status \in OrderStatus
         /\ ocos \in Seq(Oco) /\ Len(ocos) \in Nat /\ Len(ocos) <= MaxPlans
         /\ DOMAIN ocos = 1..Len(ocos)
         /\ closing \in 0..Quantity /\ position \in 0..Quantity
         /\ plans \in Seq(Plan) /\ Len(plans) \in Nat /\ Len(plans) <= MaxPlans
         /\ DOMAIN plans = 1..Len(plans)
         /\ queue \in Seq(Request) /\ Len(queue) \in Nat /\ DOMAIN queue = 1..Len(queue)
         /\ seen \in SeenType
         /\ \A i \in DOMAIN ocos : ocos[i] \in Oco
         /\ \A k \in DOMAIN plans : plans[k] \in Plan
         /\ outstanding # None => outstanding \in Outstanding
         /\ {closes, kill} \subseteq BOOLEAN
BY DEF TypeInv, TypeOK, EntryOrder

LEMMA PendingAreRequests ==
  ASSUME TypeInv
  PROVE  /\ Pending \subseteq Request
         /\ outstanding # None => outstanding.request \in Request
<1>1. Queued \subseteq Request
  BY TypeFacts DEF Queued
<1>2. outstanding # None => outstanding.request \in Request
  BY TypeFacts DEF Outstanding
<1>. QED
  BY <1>1, <1>2 DEF Pending, Travelling

LEMMA UnreadType == Unread \in SeenType
BY Constants DEF Unread, SeenType, EntryOrder, OrderStatus

(* Nothing is on its way while an operation runs, nothing queued unless it *)
(* runs its mutations.                                                     *)
LEMMA PendingIs ==
  /\ queue = <<>> => Queued = {} /\ Pending = Travelling
  /\ outstanding = None => Travelling = {} /\ Pending = Queued
BY DEF Queued, Travelling, Pending

LEMMA PendingIsNext ==
  /\ queue' = <<>> => Queued' = {} /\ Pending' = Travelling'
  /\ outstanding' = None => Travelling' = {} /\ Pending' = Queued'
BY DEF Queued, Travelling, Pending

(* The broker and the market move; no request does.                        *)
LEMMA MoveBase ==
  ASSUME BaseInv, UNCHANGED <<ledgerVars, outstanding, procVars, closes>>,
         clock' \in {"open", "cutoff", "eod"},
         entry' \in EntryOrder, ocos' \in Seq(Oco), Len(ocos') = Len(ocos),
         \A i \in DOMAIN ocos : ocos'[i].plan = ocos[i].plan,
         closing' \in Nat, closing' <= closing, position' \in Nat, position' <= entry'.filled
  PROVE  BaseInv'
<1>. USE DEF BaseInv
<1>1. TypeInv'
  <2>1. entry'.filled \in 0..Quantity
    BY DEF EntryOrder
  <2>2. closing' \in 0..Quantity /\ position' \in 0..Quantity
    BY <2>1, TypeFacts, Constants
  <2>3. Len(ocos') <= MaxPlans
    BY TypeFacts
  <2>. QED
    BY <2>2, <2>3 DEF TypeInv, TypeOK, ledgerVars, procVars
<1>2. Pending' = Pending /\ Queued' = Queued /\ UNCHANGED <<plans, kill, pc, queue>>
  BY DEF Pending, Queued, Travelling, ledgerVars, procVars
<1>3. PlanInv'
  <2>1. DOMAIN ocos' = DOMAIN ocos
    BY <1>1, TypeFacts DEF TypeInv, TypeOK
  <2>. QED
    BY <1>2, <2>1 DEF PlanInv
<1>4. FlowInv'
  <2>1. closing' > 0 => closing > 0
    BY TypeFacts
  <2>. QED
    BY <1>2, <2>1 DEF FlowInv
<1>5. LatchInv'
  BY <1>2 DEF LatchInv
<1>. QED
  BY <1>1, <1>3, <1>4, <1>5

LEMMA OcoMoves ==
  ASSUME TypeInv, NEW i \in DOMAIN ocos, NEW o \in Oco, o.plan = ocos[i].plan,
         ocos' = [ocos EXCEPT ![i] = o]
  PROVE  /\ ocos' \in Seq(Oco) /\ Len(ocos') = Len(ocos) /\ DOMAIN ocos' = DOMAIN ocos
         /\ \A j \in DOMAIN ocos : ocos'[j].plan = ocos[j].plan
         /\ ocos'[i] = o /\ \A j \in DOMAIN ocos : j # i => ocos'[j] = ocos[j]
BY TypeFacts

LEMMA MarketBase ==
  ASSUME BaseInv,
         \/ FillEntry \/ EndEntry \/ FillClose \/ EndClose \/ AdvanceClock
         \/ \E i \in DOMAIN ocos : FillOco(i) \/ EndOco(i) \/ ShowOco(i)
  PROVE  BaseInv'
<1>. USE TypeFacts, Constants DEF BaseInv
<1>1. position <= entry.filled /\ TypeInv
  BY DEF FlowInv
<1>2. CASE FillEntry
  <2>1. /\ entry' = [filled |-> entry.filled + 1,
                     status |-> IF entry.filled + 1 = Quantity THEN "done" ELSE entry.status]
        /\ entry.filled < Quantity /\ position' = position + 1
        /\ UNCHANGED <<ocos, closing, closes, clock, ledgerVars, outstanding, procVars>>
    BY <1>2 DEF FillEntry
  <2>2. entry' \in EntryOrder /\ entry'.filled = entry.filled + 1
    BY <1>1, <2>1 DEF EntryOrder, OrderStatus
  <2>3. clock' \in {"open", "cutoff", "eod"}
    BY <1>1, <2>1 DEF TypeInv, TypeOK
  <2>. QED
    BY <1>1, <2>1, <2>2, <2>3, MoveBase
<1>3. CASE EndEntry
  <2>1. /\ entry' = [entry EXCEPT !.status = "done"]
        /\ UNCHANGED <<ocos, closing, position, closes, clock, ledgerVars, outstanding, procVars>>
    BY <1>3 DEF EndEntry
  <2>2. entry' \in EntryOrder /\ entry'.filled = entry.filled
    BY <1>1, <2>1 DEF EntryOrder, OrderStatus
  <2>3. clock' \in {"open", "cutoff", "eod"}
    BY <1>1, <2>1 DEF TypeInv, TypeOK
  <2>. QED
    BY <1>1, <2>1, <2>2, <2>3, MoveBase
<1>4. CASE FillClose \/ EndClose
  <2>1. /\ closing > 0 /\ closing' \in {closing - 1, 0}
        /\ position' = position \/ (position > 0 /\ position' = position - 1)
        /\ UNCHANGED <<entry, ocos, closes, clock, ledgerVars, outstanding, procVars>>
    BY <1>4 DEF FillClose, EndClose
  <2>2. closing' \in Nat /\ closing' <= closing /\ position' \in Nat /\ position' <= entry'.filled
    BY <1>1, <2>1
  <2>3. clock' \in {"open", "cutoff", "eod"}
    BY <1>1, <2>1 DEF TypeInv, TypeOK
  <2>. QED
    BY <1>1, <2>1, <2>2, <2>3, MoveBase
<1>5. CASE AdvanceClock
  <2>1. clock' \in {"open", "cutoff", "eod"} /\ UNCHANGED <<brokerVars, ledgerVars, outstanding, procVars>>
    BY <1>5 DEF AdvanceClock
  <2>. QED
    BY <1>1, <2>1, MoveBase DEF brokerVars
<1>6. ASSUME NEW i \in DOMAIN ocos, FillOco(i) \/ EndOco(i) \/ ShowOco(i)
      PROVE  BaseInv'
  <2>1. ocos[i] \in Oco /\ ocos[i].left \in 0..Quantity
    BY <1>1 DEF Oco
  <2>2. /\ \E o \in Oco : o.plan = ocos[i].plan /\ ocos' = [ocos EXCEPT ![i] = o]
        /\ position' = position \/ (position > 0 /\ position' = position - 1)
        /\ UNCHANGED <<entry, closing, closes, clock, ledgerVars, outstanding, procVars>>
    <3>1. CASE FillOco(i)
      <4>. DEFINE o == [ocos[i] EXCEPT !.left = ocos[i].left - 1,
                                       !.status = IF ocos[i].left - 1 = 0 THEN "done" ELSE ocos[i].status]
      <4>1. o \in Oco /\ o.plan = ocos[i].plan
        <5>0. ocos[i].left > 0
          BY <3>1 DEF FillOco
        <5>1. ocos[i].left - 1 \in 0..Quantity
          BY <2>1, <5>0
        <5>2. (IF ocos[i].left - 1 = 0 THEN "done" ELSE ocos[i].status) \in OrderStatus
          BY <2>1 DEF Oco, OrderStatus
        <5>. QED
          BY <2>1, <5>1, <5>2 DEF Oco
      <4>2. ocos' = [ocos EXCEPT ![i] = o]
        BY <1>1, <2>1, <3>1 DEF FillOco, Oco
      <4>. QED
        BY <3>1, <4>1, <4>2 DEF FillOco
    <3>2. CASE EndOco(i)
      <4>. DEFINE o == [ocos[i] EXCEPT !.status = "done"]
      <4>1. o \in Oco /\ o.plan = ocos[i].plan
        BY <2>1 DEF Oco, OrderStatus
      <4>2. ocos' = [ocos EXCEPT ![i] = o]
        BY <3>2 DEF EndOco
      <4>. QED
        BY <3>2, <4>1, <4>2 DEF EndOco
    <3>3. CASE ShowOco(i)
      <4>. DEFINE o == [ocos[i] EXCEPT !.shown = TRUE]
      <4>1. o \in Oco /\ o.plan = ocos[i].plan
        BY <2>1 DEF Oco
      <4>2. ocos' = [ocos EXCEPT ![i] = o]
        BY <3>3 DEF ShowOco
      <4>. QED
        BY <3>3, <4>1, <4>2 DEF ShowOco
    <3>. QED
      BY <1>6, <3>1, <3>2, <3>3
  <2>3. /\ ocos' \in Seq(Oco) /\ Len(ocos') = Len(ocos)
        /\ \A j \in DOMAIN ocos : ocos'[j].plan = ocos[j].plan
    BY <1>1, <2>2, OcoMoves
  <2>4. clock' \in {"open", "cutoff", "eod"} /\ position' \in Nat /\ position' <= entry'.filled
    BY <1>1, <2>2 DEF TypeInv, TypeOK
  <2>. QED
    BY <1>1, <2>2, <2>3, <2>4, MoveBase
<1>. QED
  BY <1>2, <1>3, <1>4, <1>5, <1>6

(* A step of an operation or of the recovery that adds no request.         *)
LEMMA ProcBase ==
  ASSUME BaseInv, UNCHANGED <<brokerVars, plans, kill>>, TypeInv', Pending' \subseteq Pending,
         pc' # "idle" => outstanding' = None,
         pc' = "run" <=> queue' # <<>>,
         pc' \in {"inventory", "positions", "decide"} => ~closes,
         \A r \in Queued' : r.kind \in {"SUBMIT_OCO", "CLOSE"} => Len(queue') = 1
  PROVE  BaseInv'
<1>1. PlanInv'
  BY DEF BaseInv, PlanInv, brokerVars
<1>2. FlowInv'
  BY DEF BaseInv, FlowInv, brokerVars
<1>3. LatchInv'
  BY DEF BaseInv, LatchInv
<1>. QED
  BY <1>1, <1>2, <1>3 DEF BaseInv

(* An operation that ends leaves no more than a request without answer.    *)
LEMMA EndsBase ==
  ASSUME BaseInv, EndOperation, UNCHANGED <<brokerVars, clock, plans, kill>>,
         submits' \in [1..MaxPlans -> Outcome], cancels' \in [1..MaxPlans -> Outcome],
         acked' \subseteq Request, known' \in EntryOrder,
         outstanding' \in Outstanding \cup {None}, Travelling' \subseteq Pending
  PROVE  BaseInv' /\ Pending' \subseteq Pending /\ pc' = "idle"
<1>1. pc' = "idle" /\ op' = "protect" /\ seen' \in SeenType /\ queue' = <<>>
  BY UnreadType DEF EndOperation
<1>2. queue' \in Seq(Request)
  BY <1>1
<1>3. TypeInv'
  BY <1>1, <1>2 DEF BaseInv, TypeInv, TypeOK, brokerVars
<1>4. Queued' = {} /\ Pending' \subseteq Pending
  BY <1>1, PendingIsNext
<1>. QED
  BY <1>1, <1>3, <1>4, ProcBase

LEMMA RecordTypes ==
  ASSUME TypeInv, NEW r \in Request, NEW e \in Outcome, Record(r, e)
  PROVE  /\ submits' \in [1..MaxPlans -> Outcome] /\ cancels' \in [1..MaxPlans -> Outcome]
         /\ acked' \subseteq Request
<1>1. submits \in [1..MaxPlans -> Outcome] /\ cancels \in [1..MaxPlans -> Outcome] /\ acked \subseteq Request
  BY DEF TypeInv, TypeOK
<1>2. submits' = submits \/ submits' = [submits EXCEPT ![r.target] = e]
  BY DEF Record
<1>3. cancels' = cancels \/ cancels' = [cancels EXCEPT ![r.target] = e]
  BY DEF Record
<1>4. acked' = acked \/ acked' = acked \cup {r}
  BY DEF Record
<1>. QED
  BY <1>1, <1>2, <1>3, <1>4

LEMMA GoOnTail ==
  ASSUME TypeInv, FlowInv, pc = "run", GoOn(Tail(queue))
  PROVE  /\ queue' \in Seq(Request) /\ pc' \in {"idle", "run"} /\ op' \in {"protect", "safety"}
         /\ seen' \in SeenType /\ (pc' = "run" <=> queue' # <<>>)
         /\ Queued' \subseteq Queued
         /\ \A r \in Queued' : r.kind \notin {"SUBMIT_OCO", "CLOSE"}
         /\ Head(queue).kind \in {"SUBMIT_OCO", "CLOSE"} => Queued' = {}
<1>1. /\ queue # <<>> /\ queue \in Seq(Request)
      /\ Len(queue) \in Nat /\ DOMAIN queue = 1..Len(queue)
  BY TypeFacts DEF FlowInv
<1>2. /\ Head(queue) = queue[1] /\ Tail(queue) \in Seq(Request) /\ Len(Tail(queue)) = Len(queue) - 1
      /\ \A i \in 1..Len(Tail(queue)) : Tail(queue)[i] = queue[i + 1]
      /\ Len(queue) >= 1
  BY <1>1, HeadTailProperties
<1>3. Head(queue) \in Queued /\ \A i \in DOMAIN queue : queue[i] \in Queued
  BY <1>1, <1>2 DEF Queued
<1>4. CASE Tail(queue) = <<>>
  <2>1. EndOperation
    BY <1>4 DEF GoOn
  <2>2. pc' = "idle" /\ op' = "protect" /\ seen' \in SeenType /\ queue' = <<>>
    BY <2>1, UnreadType DEF EndOperation
  <2>3. Queued' = {} /\ <<>> \in Seq(Request)
    BY <2>2, PendingIsNext
  <2>. QED
    BY <2>2, <2>3
<1>5. CASE Tail(queue) # <<>>
  <2>1. queue' = Tail(queue) /\ UNCHANGED <<pc, op, seen>>
    BY <1>5 DEF GoOn
  <2>2. Len(queue) # 1
    BY <1>2, <1>5
  <2>3. \A r \in Queued : r.kind \notin {"SUBMIT_OCO", "CLOSE"}
    BY <2>2 DEF FlowInv
  <2>4. Queued' \subseteq Queued
    <3>1. DOMAIN Tail(queue) = 1..Len(Tail(queue))
      BY <1>2
    <3>2. \A i \in DOMAIN Tail(queue) : i + 1 \in DOMAIN queue
      BY <1>1, <1>2, <3>1
    <3>3. \A i \in DOMAIN Tail(queue) : Tail(queue)[i] \in Queued
      BY <1>2, <1>3, <3>1, <3>2
    <3>. QED
      BY <2>1, <3>3 DEF Queued
  <2>5. op \in {"protect", "safety"} /\ seen \in SeenType
    BY DEF TypeInv, TypeOK
  <2>. QED
    BY <1>2, <1>3, <1>5, <2>1, <2>3, <2>4, <2>5
<1>. QED
  BY <1>4, <1>5

LEMMA HeadIsQueued ==
  ASSUME TypeInv, FlowInv, pc = "run"
  PROVE  Head(queue) \in Queued /\ Head(queue) \in Pending /\ Head(queue) \in Request
<1>1. queue # <<>> /\ queue \in Seq(Request) /\ Len(queue) \in Nat /\ DOMAIN queue = 1..Len(queue)
  BY TypeFacts DEF FlowInv
<1>2. Head(queue) = queue[1] /\ 1 \in DOMAIN queue
  BY <1>1
<1>. QED
  BY <1>2, PendingAreRequests DEF Queued, Pending

(* Steps that end an operation, or carry out nothing.                      *)
LEMMA EndingBase ==
  ASSUME BaseInv,
         CheckpointRefused \/ NoProtection \/ SafetyBlocked \/ GiveUp \/ Crash \/ Reject
         \/ Ambiguous \/ CrashSending \/ AlreadyRun \/ Vanish \/ Recover
  PROVE  /\ BaseInv' /\ UNCHANGED <<brokerVars, plans>>
         /\ Pending' \subseteq Pending /\ pc' \in {"idle", "run"}
<1>0. TypeInv /\ FlowInv
  BY DEF BaseInv
<1>1. /\ submits \in [1..MaxPlans -> Outcome] /\ cancels \in [1..MaxPlans -> Outcome]
      /\ acked \subseteq Request /\ known \in EntryOrder /\ outstanding \in Outstanding \cup {None}
      /\ op \in {"protect", "safety"} /\ seen \in SeenType /\ queue \in Seq(Request)
  BY <1>0 DEF TypeInv, TypeOK
<1>2. CASE CheckpointRefused \/ NoProtection \/ SafetyBlocked \/ GiveUp \/ Crash
  <2>1. EndOperation /\ UNCHANGED <<brokerVars, clock, ledgerVars, outstanding>>
    BY <1>2 DEF CheckpointRefused, NoProtection, SafetyBlocked, GiveUp, Crash
  <2>2. Travelling' \subseteq Pending
    BY <2>1 DEF Travelling, Pending
  <2>. QED
    BY <1>1, <2>1, <2>2, EndsBase DEF ledgerVars
<1>3. CASE Reject
  <2>1. /\ pc = "run" /\ Record(Head(queue), "REJECTED") /\ EndOperation
        /\ UNCHANGED <<brokerVars, clock, plans, kill, known, outstanding>>
    BY <1>3 DEF Reject
  <2>2. Travelling' \subseteq Pending
    BY <2>1 DEF Travelling, Pending
  <2>3. /\ submits' \in [1..MaxPlans -> Outcome] /\ cancels' \in [1..MaxPlans -> Outcome]
        /\ acked' \subseteq Request
    BY <1>0, <2>1, HeadIsQueued, RecordTypes DEF Outcome
  <2>. QED
    BY <1>1, <2>1, <2>2, <2>3, EndsBase DEF brokerVars
<1>4. ASSUME NEW st \in {"AMBIGUOUS", "ATTEMPTED"}, LoseAnswer(st)
      PROVE  /\ BaseInv' /\ UNCHANGED <<brokerVars, plans>>
             /\ Pending' \subseteq Pending /\ pc' \in {"idle", "run"}
  <2>1. /\ pc = "run" /\ EndOperation /\ UNCHANGED <<brokerVars, clock, ledgerVars>>
        /\ outstanding' = [state |-> st, request |-> Head(queue), sent |-> TRUE, done |-> FALSE]
    BY <1>4 DEF LoseAnswer
  <2>2. outstanding' \in Outstanding /\ outstanding'.request = Head(queue)
    BY <1>0, <2>1, HeadIsQueued DEF Outstanding
  <2>3. Travelling' \subseteq Pending
    BY <1>0, <2>1, <2>2, HeadIsQueued DEF Travelling
  <2>. QED
    BY <1>1, <2>1, <2>2, <2>3, EndsBase DEF ledgerVars
<1>5. CASE AlreadyRun
  <2>1. /\ pc = "run" /\ UNCHANGED <<brokerVars, clock, ledgerVars, outstanding>>
        /\ GoOn(Tail(queue)) \/ GoOn(<<>>)
    BY <1>5 DEF AlreadyRun
  <2>2. Travelling' = Travelling
    BY <2>1 DEF Travelling
  <2>3. CASE GoOn(<<>>)
    <3>1. EndOperation
      BY <2>3 DEF GoOn
    <3>. QED
      BY <1>1, <2>1, <2>2, <3>1, EndsBase DEF Pending, ledgerVars
  <2>4. CASE GoOn(Tail(queue))
    <3>1. /\ queue' \in Seq(Request) /\ pc' \in {"idle", "run"} /\ op' \in {"protect", "safety"}
          /\ seen' \in SeenType /\ (pc' = "run" <=> queue' # <<>>)
          /\ Queued' \subseteq Queued
          /\ \A r \in Queued' : r.kind \notin {"SUBMIT_OCO", "CLOSE"}
      BY <1>0, <2>1, <2>4, GoOnTail
    <3>2. TypeInv'
      BY <1>0, <2>1, <3>1 DEF TypeInv, TypeOK, brokerVars, ledgerVars
    <3>3. outstanding' = None
      BY <1>0, <2>1 DEF FlowInv
    <3>4. Pending' \subseteq Pending
      BY <2>2, <3>1 DEF Pending
    <3>. QED
      BY <2>1, <3>1, <3>2, <3>3, <3>4, ProcBase DEF ledgerVars
  <2>. QED
    BY <2>1, <2>3, <2>4
<1>6. CASE Vanish
  <2>1. /\ outstanding # None /\ outstanding' = [outstanding EXCEPT !.sent = FALSE]
        /\ UNCHANGED <<brokerVars, clock, ledgerVars, procVars>>
    BY <1>6 DEF Vanish
  <2>2. outstanding' \in Outstanding /\ outstanding'.sent = FALSE
    BY <1>1, <2>1 DEF Outstanding
  <2>3. Travelling' = {} /\ Queued' = Queued
    BY <2>1, <2>2 DEF Travelling, Queued, procVars
  <2>4. TypeInv'
    BY <1>0, <2>1, <2>2 DEF TypeInv, TypeOK, brokerVars, ledgerVars, procVars
  <2>5. pc' = "idle"
    BY <1>0, <2>1 DEF FlowInv, procVars
  <2>. QED
    BY <1>0, <2>1, <2>3, <2>4, <2>5, ProcBase DEF Pending, FlowInv, procVars, ledgerVars
<1>7. CASE Recover
  <2>1. /\ pc = "idle" /\ outstanding # None /\ outstanding' = None
        /\ \E e \in Outcome : Record(outstanding.request, e)
        /\ UNCHANGED <<brokerVars, clock, plans, kill, known, procVars>>
    BY <1>7 DEF Recover, Outcome
  <2>2. /\ submits' \in [1..MaxPlans -> Outcome] /\ cancels' \in [1..MaxPlans -> Outcome]
        /\ acked' \subseteq Request
    BY <1>0, <2>1, PendingAreRequests, RecordTypes
  <2>3. TypeInv'
    BY <1>0, <2>1, <2>2 DEF TypeInv, TypeOK, brokerVars, procVars
  <2>4. Travelling' = {} /\ Queued' = Queued
    BY <2>1 DEF Travelling, Queued, procVars
  <2>. QED
    BY <1>0, <2>1, <2>3, <2>4, ProcBase DEF Pending, FlowInv, procVars
<1>. QED
  BY <1>2, <1>3, <1>4, <1>5, <1>6, <1>7 DEF Ambiguous, CrashSending

LEMMA ReadBase ==
  ASSUME BaseInv,
         ReadEntry("protect") \/ ReadEntry("safety") \/ ReadHistory \/ ReadInventory \/ ReadPositions
  PROVE  BaseInv' /\ UNCHANGED <<brokerVars, plans>> /\ Pending' = Pending
<1>. USE TypeFacts
<1>0. TypeInv /\ FlowInv
  BY DEF BaseInv
<1>1. /\ queue \in Seq(Request) /\ op \in {"protect", "safety"} /\ seen \in SeenType
      /\ known \in EntryOrder /\ outstanding \in Outstanding \cup {None}
      /\ entry \in EntryOrder /\ position \in 0..Quantity
  BY <1>0 DEF TypeInv, TypeOK
<1>2. pc # "run" /\ UNCHANGED <<brokerVars, clock, plans, submits, cancels, acked, kill, outstanding, queue>>
      /\ pc' \in {"history", "inventory", "positions", "decide"}
  BY DEF ReadEntry, ReadHistory, ReadInventory, ReadPositions, ledgerVars
<1>3. outstanding' = None
  BY <1>0, <1>2 DEF ReadEntry, ReadHistory, ReadInventory, ReadPositions, FlowInv
<1>4. Queued' = Queued /\ Pending' = Pending /\ queue = <<>>
  BY <1>0, <1>2 DEF Queued, Travelling, Pending, FlowInv
<1>5. ShownOcos \subseteq Oco
  BY <1>0 DEF ShownOcos
<1>6. op' \in {"protect", "safety"} /\ seen' \in SeenType /\ known' \in EntryOrder
  <2>1. CASE ReadEntry("protect") \/ ReadEntry("safety")
    <3>1. seen' = [Unread EXCEPT !.entry = entry] /\ op' \in {"protect", "safety"} /\ known' = known
      BY <2>1 DEF ReadEntry, ledgerVars
    <3>. QED
      BY <1>1, <3>1, UnreadType DEF SeenType
  <2>2. CASE ReadHistory
    <3>1. /\ seen' = [seen EXCEPT !.history = ShownOcos, !.entry = Gone]
          /\ known' = seen.entry /\ op' = op
      BY <2>2 DEF ReadHistory
    <3>2. Gone \in EntryOrder
      BY Constants DEF Gone, EntryOrder, OrderStatus
    <3>. QED
      BY <1>1, <1>5, <3>1, <3>2 DEF SeenType
  <2>3. CASE ReadInventory
    <3>1. /\ seen' = [seen EXCEPT !.order = Listed(entry), !.open = {o \in ShownOcos : Live(o)},
                                  !.closes = closing > 0]
          /\ known' = known /\ op' = op
      BY <2>3 DEF ReadInventory, ledgerVars
    <3>2. Listed(entry) \in EntryOrder
      BY <1>1, Constants DEF Listed, Gone, EntryOrder, OrderStatus
    <3>3. (closing > 0) \in BOOLEAN /\ {o \in ShownOcos : Live(o)} \in SUBSET Oco
      BY <1>5
    <3>. QED
      BY <1>1, <3>1, <3>2, <3>3 DEF SeenType
  <2>4. CASE ReadPositions
    <3>1. seen' = [seen EXCEPT !.position = position] /\ known' = known /\ op' = op
      BY <2>4 DEF ReadPositions, ledgerVars
    <3>. QED
      BY <1>1, <3>1 DEF SeenType
  <2>. QED
    BY <2>1, <2>2, <2>3, <2>4
<1>7. TypeInv'
  BY <1>0, <1>1, <1>2, <1>4, <1>6 DEF TypeInv, TypeOK, brokerVars
<1>8. pc' \in {"inventory", "positions", "decide"} => ~closes
  <2>1. CASE ReadEntry("protect") \/ ReadEntry("safety")
    BY <2>1 DEF ReadEntry
  <2>2. CASE ReadHistory
    BY <2>2 DEF ReadHistory, Unexplained
  <2>3. CASE ReadInventory \/ ReadPositions
    BY <1>0, <2>3 DEF ReadInventory, ReadPositions, FlowInv
  <2>. QED
    BY <2>1, <2>2, <2>3
<1>9. Queued' = {} /\ pc' # "run" /\ queue' = <<>>
  BY <1>2, <1>4, PendingIs
<1>. QED
  BY <1>2, <1>3, <1>4, <1>7, <1>8, <1>9, ProcBase

(* The steps of an operation that queue requests.                          *)
LEMMA PlanBase ==
  ASSUME BaseInv, PlanOco \/ PlanResizeCancel
  PROVE  /\ BaseInv' /\ UNCHANGED brokerVars /\ pc = "decide" /\ outstanding' = None
         /\ pc' = "run" /\ ~kill
         /\ \/ \E k \in DOMAIN plans' :
                 /\ Queued' = {Req("SUBMIT_OCO", k)}
                 /\ seen.open = {} /\ plans'[k].quantity = seen.position
            \/ \E t : Queued' = {Req("CANCEL_OCO", t)}
<1>. USE TypeFacts, Constants, RequestIs
<1>0. TypeInv /\ FlowInv /\ PlanInv
  BY DEF BaseInv
<1>1. /\ queue \in Seq(Request) /\ op \in {"protect", "safety"} /\ seen \in SeenType
      /\ outstanding \in Outstanding \cup {None}
  BY <1>0 DEF TypeInv, TypeOK
<1>2. /\ pc = "decide" /\ pc' = "run" /\ seen' = Unread /\ ~kill /\ ~closes
      /\ UNCHANGED <<brokerVars, clock, submits, cancels, acked, kill, known, outstanding, op>>
  BY <1>0 DEF PlanOco, PlanResizeCancel, ledgerVars, ProtectGate, FlowInv
<1>3. outstanding' = None
  BY <1>0, <1>2 DEF FlowInv
<1>4. CASE PlanOco
  <2>0. seen.position > 0 /\ seen.open = {} /\ seen.position \in 1..Quantity
    BY <1>1, <1>4 DEF PlanOco, SeenType
  <2>1. DesiredPlan \in Plan
    <3>1. LatestMatched \in 0..MaxPlans
      <4>1. {0} \cup {o.plan : o \in seen.history} \in SUBSET (0..MaxPlans)
        BY <1>1 DEF SeenType, Oco
      <4>. QED
        BY <4>1, MaxOfBounded DEF LatestMatched
    <3>. QED
      BY <2>0, <3>1 DEF DesiredPlan, Plan
  <2>2. PICK k \in 1..MaxPlans :
          /\ queue' = <<Req("SUBMIT_OCO", k)>>
          /\ k \in DOMAIN plans' /\ plans'[k] = DesiredPlan
          /\ plans' \in Seq(Plan) /\ Len(plans') <= MaxPlans
          /\ DOMAIN plans \subseteq DOMAIN plans'
    <3>1. CASE \E k \in 1..MaxPlans :
                 PlanSaved(k) /\ queue' = <<Req("SUBMIT_OCO", k)>> /\ UNCHANGED plans
      BY <1>0, <3>1 DEF PlanSaved
    <3>2. CASE /\ Len(plans) < MaxPlans
               /\ plans' = Append(plans, DesiredPlan)
               /\ queue' = <<Req("SUBMIT_OCO", Len(plans) + 1)>>
      <4>. DEFINE k == Len(plans) + 1
      <4>1. k \in 1..MaxPlans
        BY <1>0, <3>2
      <4>2. /\ plans' \in Seq(Plan) /\ Len(plans') = Len(plans) + 1 /\ plans'[k] = DesiredPlan
        BY <1>0, <2>1, <3>2, AppendProperties
      <4>3. DOMAIN plans' = 1..(Len(plans) + 1)
        BY <4>2
      <4>4. k \in DOMAIN plans' /\ Len(plans') <= MaxPlans /\ DOMAIN plans \subseteq DOMAIN plans'
        BY <1>0, <3>2, <4>2, <4>3
      <4>5. queue' = <<Req("SUBMIT_OCO", k)>>
        BY <3>2
      <4>. HIDE DEF k
      <4>. QED
        BY <4>1, <4>2, <4>4, <4>5
    <3>. QED
      BY <1>4, <3>1, <3>2 DEF PlanOco
  <2>. DEFINE r == Req("SUBMIT_OCO", k)
  <2>3. r \in Request /\ r.kind = "SUBMIT_OCO" /\ r.target = k
    OBVIOUS
  <2>. HIDE DEF r
  <2>4. queue' = <<r>> /\ queue' \in Seq(Request) /\ Len(queue') = 1 /\ queue' # <<>>
    BY <2>2, <2>3 DEF r
  <2>5. Queued' = {r} /\ Pending' = {r}
    BY <1>3, <2>4 DEF Queued, Pending, Travelling
  <2>6. TypeInv'
    BY <1>0, <1>1, <1>2, <2>2, <2>4, UnreadType DEF TypeInv, TypeOK, brokerVars
  <2>7. PlanInv'
    BY <1>0, <1>2, <2>2, <2>3, <2>5 DEF PlanInv, brokerVars
  <2>8. FlowInv'
    BY <1>0, <1>2, <1>3, <2>4, <2>5 DEF FlowInv, brokerVars
  <2>9. LatchInv'
    BY <1>2 DEF LatchInv
  <2>10. plans'[k].quantity = seen.position
    BY <2>2 DEF DesiredPlan
  <2>. QED
    BY <1>2, <1>3, <2>0, <2>2, <2>5, <2>6, <2>7, <2>8, <2>9, <2>10 DEF BaseInv, r
<1>5. CASE PlanResizeCancel
  <2>1. PICK o \in seen.open : queue' = <<Req("CANCEL_OCO", o.plan)>> /\ UNCHANGED plans
    BY <1>5 DEF PlanResizeCancel, ledgerVars
  <2>2. o.plan \in 0..MaxPlans
    BY <1>1 DEF SeenType, Oco
  <2>. DEFINE r == Req("CANCEL_OCO", o.plan)
  <2>3. r \in Request /\ r.kind = "CANCEL_OCO"
    BY <2>2
  <2>. HIDE DEF r
  <2>4. queue' = <<r>> /\ queue' \in Seq(Request) /\ Len(queue') = 1 /\ queue' # <<>>
    BY <2>1, <2>3 DEF r
  <2>5. Queued' = {r} /\ Pending' = {r}
    BY <1>3, <2>4 DEF Queued, Pending, Travelling
  <2>6. TypeInv'
    BY <1>0, <1>1, <1>2, <2>1, <2>4, UnreadType DEF TypeInv, TypeOK, brokerVars
  <2>7. PlanInv'
    BY <1>0, <1>2, <2>1, <2>3, <2>5 DEF PlanInv, brokerVars
  <2>8. FlowInv'
    BY <1>0, <1>2, <1>3, <2>4, <2>5 DEF FlowInv, brokerVars
  <2>9. LatchInv'
    BY <1>2 DEF LatchInv
  <2>. QED
    BY <1>2, <1>3, <2>5, <2>6, <2>7, <2>8, <2>9 DEF BaseInv, r
<1>. QED
  BY <1>4, <1>5

LEMMA SafetyBase ==
  ASSUME BaseInv, PlanSafety
  PROVE  /\ BaseInv' /\ UNCHANGED <<brokerVars, plans>> /\ pc = "decide" /\ pc' \in {"run", "idle"}
         /\ outstanding' = None
         /\ \A r \in Queued' :
              /\ r.kind \in {"CANCEL_ORDER", "CLOSE"}
              /\ r.kind = "CLOSE" => /\ r.target = seen.position
                                     /\ seen.open = {} /\ ~Live(seen.order)
<1>. USE TypeFacts, Constants
<1>0. TypeInv /\ FlowInv /\ PlanInv
  BY DEF BaseInv
<1>1. /\ queue \in Seq(Request) /\ op \in {"protect", "safety"} /\ seen \in SeenType
      /\ outstanding \in Outstanding \cup {None} /\ kill \in BOOLEAN
  BY <1>0 DEF TypeInv, TypeOK
<1>2. PICK phase \in Phases :
        /\ kill' = (kill \/ phase = "KILL_SWITCH")
        /\ LET q == ActionsForPhase(phase)
           IN  IF q = <<>> \/ Repeated(q) THEN EndOperation
               ELSE /\ queue' = ExecutablePart(q)
                    /\ pc' = "run" /\ seen' = Unread /\ UNCHANGED op
  BY DEF PlanSafety
<1>3. /\ pc = "decide" /\ ~closes
      /\ UNCHANGED <<brokerVars, clock, plans, submits, cancels, acked, known, outstanding>>
  BY <1>0 DEF PlanSafety, FlowInv
<1>4. outstanding' = None
  BY <1>0, <1>3 DEF FlowInv
<1>5. Pending' = Queued'
  BY <1>4, PendingIsNext
<1>6. ASSUME queue' \in Seq(Request), pc' \in {"run", "idle"}, op' \in {"protect", "safety"},
             seen' \in SeenType, pc' = "run" <=> queue' # <<>>,
             \A r \in Queued' : r.kind # "SUBMIT_OCO" /\ (r.kind = "CLOSE" => Len(queue') = 1)
      PROVE  BaseInv'
  <2>1. TypeInv'
    BY <1>0, <1>1, <1>2, <1>3, <1>6 DEF TypeInv, TypeOK, brokerVars
  <2>2. PlanInv'
    BY <1>0, <1>3, <1>5, <1>6 DEF PlanInv, brokerVars
  <2>3. FlowInv'
    BY <1>0, <1>3, <1>4, <1>5, <1>6 DEF FlowInv, brokerVars
  <2>4. LatchInv'
    BY <1>5, <1>6 DEF LatchInv
  <2>. QED
    BY <2>1, <2>2, <2>3, <2>4 DEF BaseInv
<1>. DEFINE q == ActionsForPhase(phase)
            part == ExecutablePart(q)
<1>7. CASE q = <<>> \/ Repeated(q)
  <2>1. EndOperation
    BY <1>2, <1>7
  <2>2. pc' = "idle" /\ op' = "protect" /\ seen' \in SeenType /\ queue' = <<>> /\ Queued' = {}
    BY <2>1, UnreadType, PendingIsNext DEF EndOperation
  <2>3. queue' \in Seq(Request)
    BY <2>2
  <2>. QED
    BY <1>3, <1>4, <1>6, <2>2, <2>3
<1>8. CASE ~(q = <<>> \/ Repeated(q))
  <2>1. queue' = part /\ pc' = "run" /\ seen' = Unread /\ op' = op
    BY <1>2, <1>8
  <2>2. /\ part \in Seq(Request)
        /\ q # <<>> => part # <<>>
        /\ \A i \in DOMAIN part :
             /\ part[i].kind \in {"CANCEL_ORDER", "CLOSE"}
             /\ part[i].kind = "CLOSE" =>
                  /\ Len(part) = 1 /\ part[i].target = seen.position
                  /\ seen.open = {} /\ ~Live(seen.order)
    BY <1>0, SafetyQueue
  <2>. HIDE DEF part, q
  <2>3. Queued' = {part[i] : i \in DOMAIN part}
    BY <2>1 DEF Queued
  <2>4. \A r \in Queued' :
          /\ r.kind \in {"CANCEL_ORDER", "CLOSE"}
          /\ r.kind = "CLOSE" => /\ Len(part) = 1 /\ r.target = seen.position
                                 /\ seen.open = {} /\ ~Live(seen.order)
    BY <2>2, <2>3
  <2>. QED
    BY <1>1, <1>3, <1>4, <1>6, <1>8, <2>1, <2>2, <2>4, UnreadType
<1>. QED
  BY <1>7, <1>8

(* There are no more OCOs than plans.                                      *)
LEMMA OnePerPlan ==
  ASSUME NEW s, Len(s) \in Nat, NEW n \in Nat,
         \A i \in 1..Len(s) : s[i].plan \in 1..n,
         \A i, j \in 1..Len(s) : s[i].plan = s[j].plan => i = j
  PROVE  Len(s) <= n
<1>. DEFINE f == [i \in 1..Len(s) |-> s[i].plan]
<1>1. f \in Injection(1..Len(s), 1..n)
  BY DEF Injection, IsInjective
<1>. HIDE DEF f
<1>2. \A k \in Nat : IsFiniteSet(1..k) /\ Cardinality(1..k) = k
  <2>1. TAKE k \in Nat
  <2>2. 1 \in Int /\ k \in Int
    OBVIOUS
  <2>3. /\ IsFiniteSet(1..k)
        /\ Cardinality(1..k) = IF 1 > k THEN 0 ELSE k - 1 + 1
    BY <2>2, FS_Interval, Zenon
  <2>. QED
    BY <2>3
<1>3. Cardinality(1..Len(s)) <= Cardinality(1..n)
  BY <1>1, <1>2, FS_Injection
<1>. QED
  BY <1>2, <1>3

(* What the broker carries out.                                            *)
SubmitEffect(r) ==
  /\ r.kind = "SUBMIT_OCO" /\ r.target \in DOMAIN plans
  /\ \E o \in Oco :
       /\ o.plan = r.target /\ o.left = plans[r.target].quantity
       /\ o.status = "live" /\ ("lag" \notin Behaviours => o.shown)
       /\ ocos' = Append(ocos, o)
  /\ \A i \in DOMAIN ocos : ocos[i].plan # r.target
  /\ UNCHANGED <<entry, closing, closes>>
CancelEffect(r) ==
  /\ r.kind \in {"CANCEL_OCO", "CANCEL_ORDER"}
  /\ entry' \in EntryOrder /\ entry'.filled = entry.filled /\ (Live(entry') <=> Live(entry))
  /\ ocos' \in Seq(Oco) /\ Len(ocos') = Len(ocos)
  /\ \A i \in DOMAIN ocos :
       /\ ocos'[i].plan = ocos[i].plan /\ ocos'[i].left = ocos[i].left
       /\ ocos'[i].shown = ocos[i].shown /\ (Live(ocos'[i]) <=> Live(ocos[i]))
  /\ UNCHANGED <<closing, closes>>
CloseEffect(r) ==
  /\ r.kind = "CLOSE" /\ ~closes /\ closing = 0 /\ closing' = r.target
  /\ closes' = TRUE /\ UNCHANGED <<entry, ocos>>

LEMMA Effects ==
  ASSUME BaseInv, NEW r \in Pending, Accepts(r), Effect(r)
  PROVE  SubmitEffect(r) \/ CancelEffect(r) \/ CloseEffect(r)
<1>. USE TypeFacts, Constants
<1>0. TypeInv /\ FlowInv /\ PlanInv
  BY DEF BaseInv
<1>1. r \in Request
  BY <1>0, PendingAreRequests
<1>2. \A s \in OrderStatus : CancelStatus(s) \in OrderStatus /\ (CancelStatus(s) # "done" <=> s # "done")
  BY DEF CancelStatus, OrderStatus
<1>3. CASE r.kind = "SUBMIT_OCO"
  <2>1. PICK shown \in {TRUE} \cup (IF "lag" \in Behaviours THEN {FALSE} ELSE {}) :
          /\ ocos' = Append(ocos, [plan |-> r.target, left |-> plans[r.target].quantity,
                                   status |-> "live", shown |-> shown])
          /\ UNCHANGED <<entry, closing, closes>>
    BY <1>3 DEF Effect
  <2>. DEFINE o == [plan |-> r.target, left |-> plans[r.target].quantity,
                    status |-> "live", shown |-> shown]
  <2>2. r.target \in DOMAIN plans
    BY <1>0, <1>3 DEF PlanInv
  <2>3. r.target \in 1..MaxPlans /\ plans[r.target].quantity \in 0..Quantity
    <3>1. plans[r.target] \in Plan
      BY <1>0, <2>2
    <3>. QED
      BY <1>0, <2>2, <3>1 DEF Plan
  <2>4. o \in Oco /\ ("lag" \notin Behaviours => o.shown)
    BY <2>3 DEF Oco, OrderStatus
  <2>5. \A i \in DOMAIN ocos : ocos[i].plan # r.target
    BY <1>3 DEF Accepts, IdTaken
  <2>. QED
    BY <1>3, <2>1, <2>2, <2>4, <2>5 DEF SubmitEffect
<1>4. CASE r.kind = "CANCEL_ORDER" /\ r.target = 0
  <2>1. entry' = [entry EXCEPT !.status = CancelStatus(entry.status)] /\ UNCHANGED <<ocos, closing, closes>>
    BY <1>4 DEF Effect
  <2>2. entry' \in EntryOrder /\ entry'.filled = entry.filled /\ entry'.status = CancelStatus(entry.status)
    BY <1>0, <1>2, <2>1 DEF EntryOrder
  <2>3. Live(entry') <=> Live(entry)
    BY <1>0, <1>2, <2>2 DEF Live
  <2>. QED
    BY <1>0, <1>4, <2>1, <2>2, <2>3 DEF CancelEffect
<1>5. CASE r.kind \in {"CANCEL_OCO", "CANCEL_ORDER"} /\ r.target > 0
  <2>1. /\ ocos' = [i \in DOMAIN ocos |->
                      IF ocos[i].plan = r.target
                      THEN [ocos[i] EXCEPT !.status = CancelStatus(ocos[i].status)] ELSE ocos[i]]
        /\ UNCHANGED <<entry, closing, closes>>
    <3>1. r.kind # "SUBMIT_OCO" /\ r.kind # "CLOSE" /\ r.target # 0
      BY <1>5
    <3>. QED
      BY <3>1, Zenon DEF Effect
  <2>2. \A i \in DOMAIN ocos :
          /\ ocos'[i] \in Oco
          /\ ocos'[i].plan = ocos[i].plan /\ ocos'[i].left = ocos[i].left
          /\ ocos'[i].shown = ocos[i].shown
          /\ ocos'[i].status \in {ocos[i].status, CancelStatus(ocos[i].status)}
    BY <1>0, <1>2, <2>1 DEF Oco
  <2>3. ocos' \in Seq(Oco) /\ Len(ocos') = Len(ocos)
    <3>1. ocos' \in [1..Len(ocos) -> Oco]
      BY <1>0, <2>1, <2>2
    <3>. QED
      BY <1>0, <3>1
  <2>4. \A i \in DOMAIN ocos : Live(ocos'[i]) <=> Live(ocos[i])
    <3>1. \A i \in DOMAIN ocos : ocos[i].status \in OrderStatus
      BY <1>0 DEF Oco
    <3>. QED
      BY <1>2, <2>2, <3>1 DEF Live
  <2>. QED
    BY <1>0, <1>5, <2>1, <2>2, <2>3, <2>4 DEF CancelEffect
<1>6. CASE r.kind = "CLOSE"
  <2>1. closing' = closing + r.target /\ closes' = TRUE /\ UNCHANGED <<entry, ocos>>
    BY <1>6 DEF Effect
  <2>2. ~closes /\ closing = 0
    BY <1>0, <1>6 DEF FlowInv
  <2>3. r.target \in Nat
    BY <1>1, <1>6, RequestIs
  <2>. QED
    BY <1>6, <2>1, <2>2, <2>3 DEF CloseEffect
<1>7. /\ r.kind \in {"SUBMIT_OCO", "CANCEL_OCO", "CANCEL_ORDER", "CLOSE"}
      /\ r.kind # "CLOSE" => r.target = 0 \/ r.target > 0
  <2>1. r.kind # "CLOSE" => r.target \in 0..MaxPlans
    BY <1>1, RequestIs
  <2>. QED
    BY <1>1, <2>1, RequestIs
<1>8. ~(r.kind = "CANCEL_OCO" /\ r.target = 0)
  <2>. SUFFICES ASSUME r.kind = "CANCEL_OCO" PROVE r.target > 0
    OBVIOUS
  <2>1. r.kind # "SUBMIT_OCO" /\ r.kind # "CLOSE" /\ r.kind # "CANCEL_ORDER"
    OBVIOUS
  <2>. QED
    BY <2>1, Zenon DEF Effect
<1>. QED
  BY <1>3, <1>4, <1>5, <1>6, <1>7, <1>8

LEMMA EffectBase ==
  ASSUME BaseInv, NEW r \in Pending, SubmitEffect(r) \/ CancelEffect(r) \/ CloseEffect(r),
         UNCHANGED <<position, clock, plans, kill, known>>,
         submits' \in [1..MaxPlans -> Outcome], cancels' \in [1..MaxPlans -> Outcome],
         acked' \subseteq Request, outstanding' \in Outstanding \cup {None},
         queue' \in Seq(Request), pc' \in {"idle", "run"}, op' \in {"protect", "safety"},
         seen' \in SeenType, pc' # "idle" => outstanding' = None, pc' = "run" <=> queue' # <<>>,
         \A x \in Pending' : x.kind \notin {"SUBMIT_OCO", "CLOSE"}
  PROVE  BaseInv'
<1>. USE TypeFacts, Constants
<1>0. TypeInv /\ FlowInv /\ PlanInv
  BY DEF BaseInv
<1>1. r \in Request
  BY <1>0, PendingAreRequests
<1>2. /\ entry' \in EntryOrder /\ entry'.filled = entry.filled
      /\ closing' \in 0..Quantity /\ (closing' > 0 => closes') /\ closes' \in BOOLEAN
  <2>1. entry \in EntryOrder /\ closing \in 0..Quantity /\ closes \in BOOLEAN /\ (closing > 0 => closes)
    BY <1>0 DEF TypeInv, TypeOK, FlowInv
  <2>2. CASE SubmitEffect(r)
    BY <2>1, <2>2 DEF SubmitEffect
  <2>3. CASE CancelEffect(r)
    BY <2>1, <2>3 DEF CancelEffect
  <2>4. CASE CloseEffect(r)
    <3>1. r.target \in 1..Quantity
      BY <1>1, <2>4, RequestIs DEF CloseEffect
    <3>2. /\ closing' = r.target /\ closes' = TRUE /\ entry' = entry
      BY <2>4 DEF CloseEffect
    <3>. QED
      BY <2>1, <3>1, <3>2
  <2>. QED
    BY <2>2, <2>3, <2>4
<1>3. /\ ocos' \in Seq(Oco) /\ Len(ocos') \in Nat /\ DOMAIN ocos' = 1..Len(ocos')
      /\ \A i \in DOMAIN ocos' : ocos'[i].plan \in DOMAIN plans
      /\ \A i, j \in DOMAIN ocos' : ocos'[i].plan = ocos'[j].plan => i = j
  <2>0. /\ \A i \in DOMAIN ocos : ocos[i].plan \in DOMAIN plans
        /\ \A i, j \in DOMAIN ocos : ocos[i].plan = ocos[j].plan => i = j
    BY <1>0 DEF PlanInv
  <2>1. CASE SubmitEffect(r)
    <3>1. PICK o \in Oco : o.plan = r.target /\ ocos' = Append(ocos, o)
      BY <2>1 DEF SubmitEffect
    <3>2. /\ ocos' \in Seq(Oco) /\ Len(ocos') = Len(ocos) + 1
          /\ \A i \in 1..Len(ocos) : ocos'[i] = ocos[i]
          /\ ocos'[Len(ocos) + 1] = o
      BY <1>0, <3>1, AppendProperties
    <3>3. DOMAIN ocos' = 1..(Len(ocos) + 1)
      BY <3>2
    <3>4. \A i \in DOMAIN ocos' : i \in DOMAIN ocos \/ i = Len(ocos) + 1
      BY <1>0, <3>3
    <3>5. r.target \in DOMAIN plans /\ \A i \in DOMAIN ocos : ocos[i].plan # r.target
      BY <2>1 DEF SubmitEffect
    <3>. QED
      BY <1>0, <2>0, <3>1, <3>2, <3>3, <3>4, <3>5
  <2>2. CASE CancelEffect(r)
    <3>1. ocos' \in Seq(Oco) /\ DOMAIN ocos' = DOMAIN ocos /\ Len(ocos') = Len(ocos)
      BY <1>0, <2>2 DEF CancelEffect
    <3>. QED
      BY <1>0, <2>0, <2>2, <3>1 DEF CancelEffect
  <2>3. CASE CloseEffect(r)
    BY <1>0, <2>0, <2>3 DEF CloseEffect
  <2>. QED
    BY <2>1, <2>2, <2>3
<1>4. Len(ocos') <= MaxPlans
  <2>1. Len(ocos') <= Len(plans)
    BY <1>0, <1>3, OnePerPlan
  <2>. QED
    BY <1>0, <1>3, <2>1
<1>5. TypeInv'
  BY <1>0, <1>2, <1>3, <1>4 DEF TypeInv, TypeOK
<1>6. PlanInv'
  BY <1>3 DEF PlanInv
<1>7. FlowInv'
  <2>1. Queued' \subseteq Pending'
    BY DEF Pending
  <2>. QED
    BY <1>0, <1>2, <2>1 DEF FlowInv
<1>8. LatchInv'
  BY DEF LatchInv
<1>. QED
  BY <1>5, <1>6, <1>7, <1>8 DEF BaseInv

LEMMA AcknowledgeBase ==
  ASSUME BaseInv, Acknowledge
  PROVE  /\ BaseInv' /\ UNCHANGED <<position, plans>> /\ pc' \in {"idle", "run"}
         /\ \A x \in Pending' : x.kind \notin {"SUBMIT_OCO", "CLOSE"}
         /\ \E r \in Pending : SubmitEffect(r) \/ CancelEffect(r) \/ CloseEffect(r)
<1>0. TypeInv /\ FlowInv
  BY DEF BaseInv
<1>. DEFINE r == Head(queue)
<1>1. /\ pc = "run" /\ Accepts(r) /\ Effect(r) /\ Record(r, "ACKNOWLEDGED") /\ GoOn(Tail(queue))
      /\ UNCHANGED <<position, clock, plans, kill, known, outstanding>>
  BY DEF Acknowledge
<1>2. r \in Queued /\ r \in Pending /\ r \in Request
  BY <1>0, <1>1, HeadIsQueued
<1>. HIDE DEF r
<1>3. SubmitEffect(r) \/ CancelEffect(r) \/ CloseEffect(r)
  BY <1>1, <1>2, Effects
<1>4. /\ submits' \in [1..MaxPlans -> Outcome] /\ cancels' \in [1..MaxPlans -> Outcome]
      /\ acked' \subseteq Request
  BY <1>0, <1>1, <1>2, RecordTypes DEF Outcome
<1>5. /\ queue' \in Seq(Request) /\ pc' \in {"idle", "run"} /\ op' \in {"protect", "safety"}
      /\ seen' \in SeenType /\ (pc' = "run" <=> queue' # <<>>)
      /\ \A x \in Queued' : x.kind \notin {"SUBMIT_OCO", "CLOSE"}
  BY <1>0, <1>1, GoOnTail
<1>6. outstanding' = None /\ Pending' = Queued'
  BY <1>0, <1>1, PendingIsNext DEF FlowInv
<1>. QED
  BY <1>1, <1>2, <1>3, <1>4, <1>5, <1>6, EffectBase

LEMMA ArriveBase ==
  ASSUME BaseInv, Arrive
  PROVE  /\ BaseInv' /\ UNCHANGED <<position, plans>> /\ pc' \in {"idle", "run"}
         /\ \A x \in Pending' : x.kind \notin {"SUBMIT_OCO", "CLOSE"}
         /\ \E r \in Pending : SubmitEffect(r) \/ CancelEffect(r) \/ CloseEffect(r)
<1>0. TypeInv /\ FlowInv
  BY DEF BaseInv
<1>. DEFINE r == outstanding.request
<1>1. /\ outstanding # None /\ outstanding.sent /\ Accepts(r) /\ Effect(r)
      /\ outstanding' = [outstanding EXCEPT !.sent = FALSE, !.done = TRUE]
      /\ UNCHANGED <<position, clock, ledgerVars, procVars>>
  BY DEF Arrive
<1>2. r \in Pending
  BY <1>1 DEF Pending, Travelling
<1>3. outstanding' \in Outstanding /\ outstanding'.sent = FALSE
  BY <1>0, <1>1, TypeFacts DEF Outstanding
<1>. HIDE DEF r
<1>4. SubmitEffect(r) \/ CancelEffect(r) \/ CloseEffect(r)
  BY <1>1, <1>2, Effects
<1>5. pc' = "idle" /\ queue' = <<>> /\ UNCHANGED <<plans, kill, known, submits, cancels, acked, op, seen, queue>>
  BY <1>0, <1>1 DEF FlowInv, ledgerVars, procVars
<1>6. Travelling' = {} /\ Pending' = {}
  BY <1>3, <1>5, PendingIsNext DEF Travelling
<1>7. /\ submits \in [1..MaxPlans -> Outcome] /\ cancels \in [1..MaxPlans -> Outcome]
      /\ acked \subseteq Request /\ op \in {"protect", "safety"} /\ seen \in SeenType /\ queue \in Seq(Request)
  BY <1>0 DEF TypeInv, TypeOK
<1>. QED
  BY <1>1, <1>2, <1>3, <1>4, <1>5, <1>6, <1>7, EffectBase

LEMMA InitBase == Init => BaseInv
<1>. SUFFICES ASSUME Init PROVE BaseInv
  OBVIOUS
<1>. USE Constants
<1>1. Queued = {} /\ Pending = {} /\ DOMAIN ocos = {} /\ <<>> \in Seq(Oco) /\ <<>> \in Seq(Plan)
      /\ <<>> \in Seq(Request) /\ Len(<<>>) = 0
  BY DEF Init, Queued, Pending, Travelling
<1>2. TypeInv
  <2>1. entry \in EntryOrder /\ known \in EntryOrder
    BY DEF Init, EntryOrder, OrderStatus
  <2>2. submits \in [1..MaxPlans -> Outcome] /\ cancels \in [1..MaxPlans -> Outcome]
    BY DEF Init, Outcome
  <2>3. ocos \in Seq(Oco) /\ Len(ocos) = 0 /\ plans \in Seq(Plan) /\ Len(plans) = 0
        /\ queue \in Seq(Request)
    BY <1>1 DEF Init
  <2>4. closing \in 0..Quantity /\ position \in 0..Quantity /\ Len(ocos) <= MaxPlans /\ Len(plans) <= MaxPlans
    BY <2>3 DEF Init
  <2>5. /\ {closes, kill} \subseteq BOOLEAN /\ clock \in {"open", "cutoff", "eod"} /\ acked \subseteq Request
        /\ op \in {"protect", "safety"} /\ seen = Unread
        /\ pc \in {"idle", "history", "inventory", "positions", "decide", "run"}
    BY DEF Init
  <2>6. outstanding \in Outstanding \cup {None}
    BY DEF Init
  <2>. QED
    BY <2>1, <2>2, <2>3, <2>4, <2>5, <2>6, UnreadType DEF TypeInv, TypeOK
<1>. QED
  BY <1>1, <1>2 DEF Init, BaseInv, PlanInv, FlowInv, LatchInv

LEMMA BaseStep == BaseInv /\ [Next]_vars => BaseInv'
<1>. SUFFICES ASSUME BaseInv, [Next]_vars PROVE BaseInv'
  OBVIOUS
<1>1. CASE UNCHANGED vars
  <2>1. UNCHANGED <<brokerVars, plans, kill>> /\ TypeInv'
    BY <1>1 DEF BaseInv, TypeInv, TypeOK, vars, brokerVars, ledgerVars, procVars
  <2>2. Queued' = Queued /\ Pending' = Pending /\ UNCHANGED <<pc, queue, outstanding>>
    BY <1>1 DEF Queued, Pending, Travelling, vars, procVars
  <2>. QED
    BY <2>1, <2>2, ProcBase DEF BaseInv, FlowInv
<1>. QED
  BY <1>1, MarketBase, EndingBase, ReadBase, PlanBase, SafetyBase, AcknowledgeBase, ArriveBase
  DEF Next, Market, Operation

(* The base of the other theorems.                                         *)
THEOREM BaseInvariance == Spec => []BaseInv
BY InitBase, BaseStep, PTL DEF Spec

(* Every variable has its type, whatever goes wrong.                       *)
THEOREM TypeCorrect == Spec => []TypeOK
BY BaseInvariance, PTL DEF BaseInv, TypeInv

(* Once a kill plan is in the ledger no protective OCO reaches the broker, *)
(* restarts and late deliveries included (paper_safety_planner.py,         *)
(* paper_operating_mutation_execution.py).                                 *)
THEOREM KillIsFinal == Spec => NoOcoAfterKill
<1>1. BaseInv /\ [Next]_vars => [kill => Len(ocos') <= Len(ocos)]_vars
  <2>. SUFFICES ASSUME BaseInv, Next, kill PROVE Len(ocos') <= Len(ocos)
    BY DEF vars, brokerVars
  <2>1. TypeInv /\ Len(ocos) \in Nat /\ LatchInv
    BY TypeFacts DEF BaseInv
  <2>2. CASE Acknowledge \/ Arrive
    <3>1. PICK r \in Pending : SubmitEffect(r) \/ CancelEffect(r) \/ CloseEffect(r)
      BY <2>2, AcknowledgeBase, ArriveBase
    <3>2. r.kind # "SUBMIT_OCO"
      BY <2>1 DEF LatchInv
    <3>. QED
      BY <2>1, <3>1, <3>2 DEF SubmitEffect, CancelEffect, CloseEffect
  <2>3. ASSUME NEW i \in DOMAIN ocos, FillOco(i) \/ EndOco(i) \/ ShowOco(i)
        PROVE  Len(ocos') = Len(ocos)
    <3>1. DOMAIN ocos' = DOMAIN ocos /\ ocos' \in Seq(Oco)
      <4>1. DOMAIN ocos' = DOMAIN ocos
        BY <2>3 DEF FillOco, EndOco, ShowOco
      <4>2. ocos' \in Seq(Oco)
        BY <2>3, MarketBase, TypeFacts DEF BaseInv, TypeInv, TypeOK
      <4>. QED
        BY <4>1, <4>2
    <3>. QED
      BY <2>1, <3>1, TypeFacts
  <2>4. ASSUME Next, ~Acknowledge, ~Arrive,
               ~\E i \in DOMAIN ocos : FillOco(i) \/ EndOco(i) \/ ShowOco(i)
        PROVE  ocos' = ocos
    BY <2>4 DEF Next, Market, Operation, FillEntry, EndEntry, FillClose, EndClose, AdvanceClock,
       Vanish, CheckpointRefused, ReadHistory, ReadInventory, ReadPositions, PlanOco,
       PlanResizeCancel, NoProtection, PlanSafety, SafetyBlocked, Reject, AlreadyRun, Ambiguous,
       Recover, ReadEntry, GiveUp, Crash, CrashSending, LoseAnswer, brokerVars
  <2>. QED
    BY <2>1, <2>2, <2>3, <2>4
<1>. QED
  BY <1>1, BaseInvariance, PTL DEF Spec, NoOcoAfterKill

(* No close has been carried out, and none acknowledged, unless closes.    *)
GuardInv ==
  /\ \A r \in acked : r.kind = "CLOSE" => closes
  /\ (outstanding # None /\ outstanding.done /\ outstanding.request.kind = "CLOSE") => closes

LEMMA GuardStep == BaseInv /\ GuardInv /\ [Next]_vars => GuardInv'
<1>. SUFFICES ASSUME BaseInv, GuardInv, [Next]_vars PROVE GuardInv'
  OBVIOUS
<1>0. TypeInv /\ FlowInv
  BY DEF BaseInv
<1>1. CASE Acknowledge
  <2>. DEFINE r == Head(queue)
  <2>1. Accepts(r) /\ Effect(r) /\ Record(r, "ACKNOWLEDGED") /\ outstanding' = outstanding
    BY <1>1 DEF Acknowledge
  <2>. HIDE DEF r
  <2>2. (closes => closes') /\ (r.kind = "CLOSE" => closes')
    <3>1. CASE r.kind = "CLOSE"
      <4>1. closes' = TRUE
        BY <2>1, <3>1 DEF Effect
      <4>. QED
        BY <4>1
    <3>2. CASE r.kind # "CLOSE"
      <4>1. closes' = closes
        BY <2>1, <3>2 DEF Effect
      <4>. QED
        BY <3>2, <4>1
    <3>. QED
      BY <3>1, <3>2
  <2>3. acked' \subseteq acked \cup {r}
    BY <2>1 DEF Record
  <2>. QED
    BY <2>1, <2>2, <2>3 DEF GuardInv
<1>2. CASE Arrive
  <2>. DEFINE r == outstanding.request
  <2>1. /\ outstanding # None /\ Effect(r) /\ acked' = acked
        /\ outstanding' = [outstanding EXCEPT !.sent = FALSE, !.done = TRUE]
    BY <1>2 DEF Arrive, ledgerVars
  <2>2. outstanding'.request = r
    BY <1>0, <2>1, TypeFacts DEF TypeInv, TypeOK, Outstanding
  <2>. HIDE DEF r
  <2>3. (closes => closes') /\ (r.kind = "CLOSE" => closes')
    <3>1. CASE r.kind = "CLOSE"
      <4>1. closes' = TRUE
        BY <2>1, <3>1 DEF Effect
      <4>. QED
        BY <4>1
    <3>2. CASE r.kind # "CLOSE"
      <4>1. closes' = closes
        BY <2>1, <3>2 DEF Effect
      <4>. QED
        BY <3>2, <4>1
    <3>. QED
      BY <3>1, <3>2
  <2>. QED
    BY <2>1, <2>2, <2>3 DEF GuardInv
<1>3. CASE Recover
  <2>. DEFINE r == outstanding.request
  <2>1. outstanding # None /\ outstanding' = None /\ closes' = closes
    BY <1>3 DEF Recover, brokerVars
  <2>2. acked' \subseteq acked \cup (IF Found(r) THEN {r} ELSE {})
    <3>1. (Found(r) /\ Record(r, "ACKNOWLEDGED")) \/ Record(r, "RECOVERED_ABSENT")
      BY <1>3 DEF Recover
    <3>. QED
      BY <3>1 DEF Record
  <2>3. r.kind = "CLOSE" /\ Found(r) => closes
    <3>1. r.kind = "CLOSE" /\ Found(r) => outstanding.done
      BY DEF Found
    <3>. QED
      BY <2>1, <3>1 DEF GuardInv
  <2>. QED
    BY <2>1, <2>2, <2>3 DEF GuardInv
<1>4. CASE Ambiguous \/ CrashSending
  <2>1. closes' = closes /\ acked' = acked /\ outstanding'.done = FALSE
    BY <1>4 DEF Ambiguous, CrashSending, LoseAnswer, brokerVars, ledgerVars
  <2>. QED
    BY <2>1 DEF GuardInv
<1>5. CASE Reject
  <2>1. /\ closes' = closes /\ outstanding' = outstanding
        /\ acked' = acked
    BY <1>5 DEF Reject, brokerVars, Record
  <2>. QED
    BY <2>1 DEF GuardInv
<1>6. CASE Vanish
  <2>1. /\ closes' = closes /\ acked' = acked /\ outstanding # None
        /\ outstanding' = [outstanding EXCEPT !.sent = FALSE]
    BY <1>6 DEF Vanish, brokerVars, ledgerVars
  <2>2. outstanding'.done = outstanding.done /\ outstanding'.request = outstanding.request
    BY <1>0, <2>1, TypeFacts DEF TypeInv, TypeOK, Outstanding
  <2>. QED
    BY <2>1, <2>2 DEF GuardInv
<1>7. ASSUME ~Acknowledge, ~Arrive, ~Recover, ~(Ambiguous \/ CrashSending), ~Reject, ~Vanish
      PROVE  UNCHANGED <<closes, acked, outstanding>>
  BY <1>7 DEF Next, Market, Operation, FillEntry, EndEntry, FillClose, EndClose, AdvanceClock,
     FillOco, EndOco, ShowOco, CheckpointRefused, ReadHistory, ReadInventory, ReadPositions, PlanOco,
     PlanResizeCancel, NoProtection, PlanSafety, SafetyBlocked, AlreadyRun,
     ReadEntry, GiveUp, Crash, vars, brokerVars, ledgerVars
<1>. QED
  BY <1>1, <1>2, <1>3, <1>4, <1>5, <1>6, <1>7 DEF GuardInv

(* The guard against repeated safety actions never stops the close that is *)
(* left to do, whatever was cancelled before, restarts and lagging lists   *)
(* included (paper_safety_mutation_guard.py:19).                           *)
THEOREM CloseIsNotRepeated == Spec => []GuardLetsClose
<1>1. Init => GuardInv
  BY DEF Init, GuardInv
<1>2. BaseInv /\ GuardInv => GuardLetsClose
  <2>. SUFFICES ASSUME BaseInv, GuardInv, pc = "decide", seen.open = {}, ~Live(seen.order),
                       NEW phase \in {"KILL_SWITCH", "EOD_FLATTEN"}
                PROVE  ~Repeated(ActionsForPhase(phase))
    BY DEF GuardLetsClose
  <2>1. ActionsForPhase(phase) = <<>> \o <<>> \o Closes
    BY DEF ActionsForPhase, EntryCancels, OcoCancels
  <2>2. \A i \in DOMAIN Closes : Closes[i].kind = "CLOSE"
    BY DEF Closes, Req
  <2>3. <<>> \o <<>> \o Closes = Closes
    BY DEF Closes, Req
  <2>4. \A r \in acked : r.kind # "CLOSE"
    BY DEF BaseInv, FlowInv, GuardInv
  <2>. QED
    BY <2>1, <2>2, <2>3, <2>4 DEF Repeated
<1>. QED
  BY <1>1, <1>2, GuardStep, BaseInvariance, PTL DEF Spec

-----------------------------------------------------------------------------
(* What protects the account, as long as the order lists do not lag.       *)
LEMMA LiveAre ==
  /\ \A i : i \in LiveOcos <=> i \in DOMAIN ocos /\ Live(ocos[i])
  /\ \A o : Live(o) <=> o.status # "done"
BY DEF LiveOcos, Live

LEMMA LiveAreNext ==
  \A i : i \in LiveOcos' <=> i \in DOMAIN ocos' /\ Live(ocos'[i])
BY DEF LiveOcos, Live

LEMMA MoveSafe ==
  ASSUME BaseInv, SafeInv, UNCHANGED <<ledgerVars, outstanding, procVars, closes>>,
         DOMAIN ocos' = DOMAIN ocos, \A i \in DOMAIN ocos : ocos'[i].shown \/ ~ocos[i].shown,
         LiveOcos' \subseteq LiveOcos, Live(entry') => Live(entry),
         closing' \in Nat, position' \in Nat, closing' <= closing, closing' <= position',
         \A i \in LiveOcos' : ocos'[i].left <= position',
         LiveOcos = {} /\ closing = 0 => position <= position'
  PROVE  SafeInv'
<1>. USE DEF SafeInv
<1>0. /\ TypeInv /\ closing \in Nat /\ position \in Nat
      /\ seen.position \in Nat /\ (~closes => closing = 0)
  <2>1. TypeInv /\ FlowInv
    BY DEF BaseInv
  <2>2. closing \in 0..Quantity /\ position \in 0..Quantity /\ seen.position \in 0..Quantity
    BY <2>1, TypeFacts DEF SeenType
  <2>. QED
    BY <2>1, <2>2 DEF FlowInv
<1>1. Pending' = Pending /\ UNCHANGED <<plans, pc, seen>>
  BY DEF Pending, Queued, Travelling, ledgerVars, procVars
<1>2. Shown'
  BY DEF Shown
<1>3. SellInv'
  <2>1. closing' > 0 => closing > 0
    BY <1>0
  <2>. QED
    BY <2>1 DEF SellInv
<1>4. ReadInv'
  <2>1. pc = "decide" => closing = 0
    BY <1>0 DEF BaseInv, FlowInv
  <2>2. pc = "decide" /\ seen.open = {} => position <= position'
    BY <2>1 DEF ReadInv
  <2>3. pc = "decide" /\ seen.open = {} => seen.position <= position'
    BY <1>0, <2>2 DEF ReadInv
  <2>. QED
    BY <1>1, <2>3 DEF ReadInv
<1>5. PendingInv'
  <2>. SUFFICES ASSUME NEW r \in Pending
                PROVE  /\ r.kind = "SUBMIT_OCO" => LiveOcos' = {} /\ plans[r.target].quantity <= position'
                       /\ r.kind = "CLOSE" => LiveOcos' = {} /\ ~Live(entry') /\ r.target <= position'
    BY <1>1 DEF PendingInv
  <2>1. r.kind \in {"SUBMIT_OCO", "CLOSE"} => closing = 0 /\ LiveOcos = {} /\ position <= position'
    BY <1>0 DEF BaseInv, FlowInv, PendingInv
  <2>2. CASE r.kind = "SUBMIT_OCO"
    <3>1. plans[r.target].quantity \in Nat
      <4>1. r.target \in DOMAIN plans /\ plans[r.target] \in Plan
        BY <1>0, <2>2, TypeFacts DEF BaseInv, PlanInv
      <4>. QED
        BY <4>1, Constants DEF Plan
    <3>. QED
      BY <1>0, <2>1, <2>2, <3>1 DEF PendingInv
  <2>3. CASE r.kind = "CLOSE"
    <3>1. r.target \in Nat
      BY <1>0, <2>3, PendingAreRequests, RequestIs, Constants
    <3>. QED
      BY <1>0, <2>1, <2>3, <3>1 DEF PendingInv
  <2>. QED
    BY <2>2, <2>3
<1>. QED
  BY <1>2, <1>3, <1>4, <1>5

LEMMA MarketSafe ==
  ASSUME BaseInv, SafeInv,
         \/ FillEntry \/ EndEntry \/ FillClose \/ EndClose \/ AdvanceClock
         \/ \E i \in DOMAIN ocos : FillOco(i) \/ EndOco(i) \/ ShowOco(i)
  PROVE  SafeInv'
<1>. USE LiveAre, LiveAreNext
<1>0. /\ closing \in Nat /\ position \in Nat /\ entry \in EntryOrder
      /\ \A i \in DOMAIN ocos : ocos[i] \in Oco /\ ocos[i].left \in Nat
      /\ \A i, j \in LiveOcos : i = j
      /\ \A i \in LiveOcos : ocos[i].left <= position
      /\ closing <= position
      /\ closing > 0 => LiveOcos = {} /\ ~Live(entry)
  <2>1. TypeInv
    BY DEF BaseInv
  <2>2. closing \in 0..Quantity /\ position \in 0..Quantity /\ entry \in EntryOrder
    BY <2>1, TypeFacts
  <2>3. \A i \in DOMAIN ocos : ocos[i] \in Oco /\ ocos[i].left \in Nat
    BY <2>1, TypeFacts, Constants DEF Oco
  <2>. QED
    BY <2>2, <2>3 DEF SafeInv, SellInv
<1>1. CASE FillEntry
  <2>1. /\ Live(entry) /\ position' = position + 1
        /\ UNCHANGED <<ocos, closing, closes, ledgerVars, outstanding, procVars>>
    BY <1>1 DEF FillEntry
  <2>2. LiveOcos' = LiveOcos
    BY <2>1 DEF LiveOcos
  <2>3. /\ closing' <= position' /\ position <= position' /\ position' \in Nat
        /\ \A i \in LiveOcos' : ocos'[i].left <= position'
    BY <1>0, <2>1, <2>2
  <2>. QED
    BY <1>0, <2>1, <2>2, <2>3, MoveSafe
<1>2. CASE EndEntry \/ AdvanceClock
  <2>1. /\ UNCHANGED <<ocos, closing, closes, position, ledgerVars, outstanding, procVars>>
        /\ entry' = entry \/ entry' = [entry EXCEPT !.status = "done"]
    BY <1>2 DEF EndEntry, AdvanceClock, brokerVars
  <2>2. LiveOcos' = LiveOcos
    BY <2>1 DEF LiveOcos
  <2>3. Live(entry') => Live(entry)
    BY <1>0, <2>1 DEF EntryOrder
  <2>. QED
    BY <1>0, <2>1, <2>2, <2>3, MoveSafe
<1>3. CASE FillClose \/ EndClose
  <2>1. /\ closing > 0 /\ UNCHANGED <<entry, ocos, closes, ledgerVars, outstanding, procVars>>
        /\ \/ closing' = 0 /\ position' = position
           \/ closing' = closing - 1 /\ position > 0 /\ position' = position - 1
    BY <1>3 DEF FillClose, EndClose
  <2>2. LiveOcos' = LiveOcos /\ LiveOcos = {}
    BY <1>0, <2>1 DEF LiveOcos
  <2>3. closing' \in Nat /\ position' \in Nat /\ closing' <= closing /\ closing' <= position' /\ closing # 0
    BY <1>0, <2>1
  <2>. QED
    BY <1>0, <2>1, <2>2, <2>3, MoveSafe
<1>4. ASSUME NEW i \in DOMAIN ocos, FillOco(i) PROVE SafeInv'
  <2>1. /\ Live(ocos[i]) /\ ocos[i].left > 0 /\ position > 0 /\ position' = position - 1
        /\ UNCHANGED <<entry, closing, closes, ledgerVars, outstanding, procVars>>
        /\ ocos' = [ocos EXCEPT ![i].left = ocos[i].left - 1,
                                ![i].status = IF ocos[i].left - 1 = 0 THEN "done" ELSE @]
    BY <1>4 DEF FillOco
  <2>2. /\ DOMAIN ocos' = DOMAIN ocos /\ ocos'[i].left = ocos[i].left - 1
        /\ ocos'[i].shown = ocos[i].shown
        /\ \A j \in DOMAIN ocos : j # i => ocos'[j] = ocos[j]
    BY <1>0, <2>1 DEF Oco
  <2>3. i \in LiveOcos /\ LiveOcos' \subseteq LiveOcos /\ \A j \in LiveOcos' : j = i
    BY <1>0, <2>1, <2>2
  <2>4. closing = 0 /\ position' \in Nat /\ ocos[i].left - 1 <= position'
    BY <1>0, <2>1, <2>3
  <2>5. \A j \in LiveOcos' : ocos'[j].left <= position'
    BY <2>2, <2>3, <2>4
  <2>6. /\ \A j \in DOMAIN ocos : ocos'[j].shown \/ ~ocos[j].shown
        /\ closing' \in Nat /\ closing' <= closing /\ closing' <= position' /\ LiveOcos # {}
    BY <1>0, <2>1, <2>2, <2>3, <2>4
  <2>. QED
    BY <2>1, <2>2, <2>3, <2>4, <2>5, <2>6, MoveSafe
<1>5. ASSUME NEW i \in DOMAIN ocos, EndOco(i) \/ ShowOco(i) PROVE SafeInv'
  <2>1. /\ UNCHANGED <<entry, closing, position, closes, ledgerVars, outstanding, procVars>>
        /\ \/ ocos' = [ocos EXCEPT ![i].status = "done"]
           \/ ocos' = [ocos EXCEPT ![i].shown = TRUE]
    BY <1>5 DEF EndOco, ShowOco
  <2>2. /\ DOMAIN ocos' = DOMAIN ocos /\ ocos'[i].left = ocos[i].left
        /\ ocos'[i].shown \/ ~ocos[i].shown
        /\ ocos'[i].status = "done" \/ ocos'[i].status = ocos[i].status
        /\ \A j \in DOMAIN ocos : j # i => ocos'[j] = ocos[j]
    BY <1>0, <2>1 DEF Oco
  <2>3. LiveOcos' \subseteq LiveOcos
    BY <2>2
  <2>4. /\ \A j \in LiveOcos' : ocos'[j].left <= position'
        /\ \A j \in DOMAIN ocos : ocos'[j].shown \/ ~ocos[j].shown
    BY <1>0, <2>1, <2>2, <2>3
  <2>5. /\ closing' \in Nat /\ position' \in Nat /\ closing' <= closing /\ closing' <= position'
        /\ position <= position' /\ entry' = entry
    BY <1>0, <2>1
  <2>. QED
    BY <2>1, <2>2, <2>3, <2>4, <2>5, MoveSafe
<1>. QED
  BY <1>1, <1>2, <1>3, <1>4, <1>5

(* Steps that leave the broker alone and queue nothing new.                *)
LEMMA ProcSafe ==
  ASSUME SafeInv, UNCHANGED <<brokerVars, plans>>, Pending' \subseteq Pending, ReadInv'
  PROVE  SafeInv'
<1>1. LiveOcos' = LiveOcos /\ UNCHANGED <<ocos, closing, position, entry, plans>>
  BY DEF LiveOcos, brokerVars
<1>2. Shown' /\ SellInv'
  BY <1>1 DEF SafeInv, Shown, SellInv
<1>3. PendingInv'
  BY <1>1 DEF SafeInv, PendingInv
<1>. QED
  BY <1>2, <1>3 DEF SafeInv

LEMMA ReadSafe ==
  ASSUME BaseInv, SafeInv,
         ReadEntry("protect") \/ ReadEntry("safety") \/ ReadHistory \/ ReadInventory \/ ReadPositions
  PROVE  SafeInv'
<1>0. TypeInv /\ position \in Nat /\ seen \in SeenType
  BY TypeFacts DEF BaseInv
<1>1. UNCHANGED <<brokerVars, plans>> /\ Pending' = Pending
  BY ReadBase
<1>2. LiveOcos' = LiveOcos /\ UNCHANGED <<ocos, closing, position, entry>>
  BY <1>1 DEF LiveOcos, brokerVars
<1>3. CASE ReadEntry("protect") \/ ReadEntry("safety") \/ ReadHistory
  <2>1. pc' \in {"history", "inventory"}
    BY <1>3 DEF ReadEntry, ReadHistory
  <2>. QED
    BY <1>1, <2>1, ProcSafe DEF ReadInv
<1>4. CASE ReadInventory
  <2>1. /\ pc' = "positions"
        /\ seen' = [seen EXCEPT !.order = Listed(entry), !.open = {o \in ShownOcos : Live(o)},
                                !.closes = closing > 0]
    BY <1>4 DEF ReadInventory
  <2>2. seen'.order = Listed(entry) /\ seen'.open = {o \in ShownOcos : Live(o)}
    BY <1>0, <2>1 DEF SeenType
  <2>3. seen'.open = {} => LiveOcos = {}
    <3>1. \A i \in LiveOcos : ocos[i] \in ShownOcos /\ Live(ocos[i])
      BY LiveAre DEF ShownOcos, SafeInv, Shown
    <3>. QED
      BY <2>2, <3>1
  <2>4. ~Live(seen'.order) => ~Live(entry)
    BY <2>2 DEF Listed
  <2>5. ReadInv'
    BY <1>2, <2>1, <2>3, <2>4 DEF ReadInv, Live
  <2>. QED
    BY <1>1, <2>5, ProcSafe
<1>5. CASE ReadPositions
  <2>1. pc = "positions" /\ pc' = "decide" /\ seen' = [seen EXCEPT !.position = position]
    BY <1>5 DEF ReadPositions
  <2>2. seen'.order = seen.order /\ seen'.open = seen.open /\ seen'.position = position
    BY <1>0, <2>1 DEF SeenType
  <2>3. ReadInv'
    BY <1>0, <1>2, <2>1, <2>2 DEF SafeInv, ReadInv, Live
  <2>. QED
    BY <1>1, <2>3, ProcSafe
<1>. QED
  BY <1>3, <1>4, <1>5

(* What is queued rests on what was read.                                  *)
LEMMA PlanSafe ==
  ASSUME BaseInv, SafeInv, PlanOco \/ PlanResizeCancel \/ PlanSafety
  PROVE  SafeInv'
<1>. USE RequestIs
<1>1. /\ pc = "decide" /\ pc' \in {"run", "idle"} /\ outstanding' = None /\ UNCHANGED brokerVars
      /\ \A r \in Queued' :
           /\ r.kind = "SUBMIT_OCO" =>
                seen.open = {} /\ plans'[r.target].quantity = seen.position
           /\ r.kind = "CLOSE" =>
                seen.open = {} /\ ~Live(seen.order) /\ r.target = seen.position
  BY PlanBase, SafetyBase
<1>2. LiveOcos' = LiveOcos /\ UNCHANGED <<ocos, closing, position, entry>>
  BY <1>1 DEF LiveOcos, brokerVars
<1>3. Shown' /\ SellInv'
  BY <1>2 DEF SafeInv, Shown, SellInv
<1>4. ReadInv'
  BY <1>1 DEF ReadInv
<1>5. Pending' = Queued'
  BY <1>1, PendingIsNext
<1>6. PendingInv'
  BY <1>1, <1>2, <1>5 DEF SafeInv, ReadInv, PendingInv, Live
<1>. QED
  BY <1>3, <1>4, <1>6 DEF SafeInv

LEMMA EffectSafe ==
  ASSUME BaseInv, SafeInv, "lag" \notin Behaviours, Acknowledge \/ Arrive
  PROVE  SafeInv'
<1>. USE LiveAre, LiveAreNext
<1>1. /\ UNCHANGED <<position, plans>> /\ pc' \in {"idle", "run"}
      /\ \A x \in Pending' : x.kind \notin {"SUBMIT_OCO", "CLOSE"}
      /\ \E r \in Pending : SubmitEffect(r) \/ CancelEffect(r) \/ CloseEffect(r)
  BY AcknowledgeBase, ArriveBase
<1>2. ReadInv' /\ PendingInv'
  BY <1>1 DEF ReadInv, PendingInv
<1>3. /\ TypeInv /\ FlowInv /\ PendingInv /\ SellInv /\ Shown
      /\ ocos \in Seq(Oco) /\ Len(ocos) \in Nat /\ DOMAIN ocos = 1..Len(ocos)
      /\ closing \in 0..Quantity /\ position \in 0..Quantity /\ Quantity \in Nat
  BY TypeFacts, Constants DEF BaseInv, SafeInv
<1>4. PICK r \in Pending : SubmitEffect(r) \/ CancelEffect(r) \/ CloseEffect(r)
  BY <1>1
<1>5. CASE SubmitEffect(r)
  <2>1. PICK o \in Oco : /\ o.left = plans[r.target].quantity /\ o.shown
                         /\ ocos' = Append(ocos, o)
    BY <1>5 DEF SubmitEffect
  <2>2. LiveOcos = {} /\ o.left <= position /\ closing = 0 /\ UNCHANGED <<entry, closing>>
    BY <1>3, <1>5, <2>1 DEF SubmitEffect, PendingInv, FlowInv
  <2>3. /\ Len(ocos') = Len(ocos) + 1 /\ DOMAIN ocos' = 1..(Len(ocos) + 1)
        /\ \A i \in 1..Len(ocos) : ocos'[i] = ocos[i]
        /\ ocos'[Len(ocos) + 1] = o
    <3>1. /\ ocos' \in Seq(Oco) /\ Len(ocos') = Len(ocos) + 1
          /\ \A i \in 1..Len(ocos) : ocos'[i] = ocos[i]
          /\ ocos'[Len(ocos) + 1] = o
      BY <1>3, <2>1, AppendProperties
    <3>. QED
      BY <3>1
  <2>4. \A i \in DOMAIN ocos' : i \in DOMAIN ocos \/ i = Len(ocos) + 1
    BY <1>3, <2>3
  <2>5. \A i \in LiveOcos' : i = Len(ocos) + 1
    <3>1. \A i \in DOMAIN ocos : ~Live(ocos[i])
      BY <2>2
    <3>. QED
      BY <1>3, <2>3, <2>4, <3>1
  <2>6. SellInv'
    BY <1>1, <1>3, <2>1, <2>2, <2>3, <2>5 DEF SellInv
  <2>7. Shown'
    BY <1>3, <2>1, <2>3, <2>4 DEF Shown
  <2>. QED
    BY <1>2, <2>6, <2>7 DEF SafeInv
<1>6. CASE CancelEffect(r)
  <2>1. /\ DOMAIN ocos' = DOMAIN ocos /\ UNCHANGED closing /\ (Live(entry') <=> Live(entry))
        /\ \A i \in DOMAIN ocos :
             /\ ocos'[i].left = ocos[i].left /\ ocos'[i].shown = ocos[i].shown
             /\ (Live(ocos'[i]) <=> Live(ocos[i]))
    BY <1>3, <1>6 DEF CancelEffect
  <2>2. LiveOcos' = LiveOcos
    BY <2>1
  <2>3. SellInv'
    <3>1. \A i \in LiveOcos : i \in DOMAIN ocos
      OBVIOUS
    <3>. HIDE LiveAre, LiveAreNext
    <3>. QED
      BY <1>1, <1>3, <2>1, <2>2, <3>1 DEF SellInv
  <2>4. Shown'
    BY <1>3, <2>1 DEF Shown
  <2>. QED
    BY <1>2, <2>3, <2>4 DEF SafeInv
<1>7. CASE CloseEffect(r)
  <2>1. closing' = r.target /\ UNCHANGED <<entry, ocos>>
    BY <1>7 DEF CloseEffect
  <2>2. LiveOcos = {} /\ ~Live(entry) /\ r.target <= position
    BY <1>3, <1>7 DEF CloseEffect, PendingInv
  <2>3. LiveOcos' = {}
    BY <2>1, <2>2 DEF LiveOcos
  <2>4. SellInv'
    BY <1>1, <2>1, <2>2, <2>3 DEF SellInv
  <2>5. Shown'
    BY <1>3, <2>1 DEF Shown
  <2>. QED
    BY <1>2, <2>4, <2>5 DEF SafeInv
<1>. QED
  BY <1>4, <1>5, <1>6, <1>7

LEMMA InitSafe == Init => SafeInv
<1>. SUFFICES ASSUME Init PROVE SafeInv
  OBVIOUS
<1>1. DOMAIN ocos = {} /\ LiveOcos = {} /\ Pending = {}
  BY DEF Init, LiveOcos, Pending, Queued, Travelling
<1>. QED
  BY <1>1 DEF Init, SafeInv, Shown, SellInv, ReadInv, PendingInv

LEMMA SafeStep ==
  ASSUME BaseInv, SafeInv, "lag" \notin Behaviours, [Next]_vars
  PROVE  SafeInv'
<1>1. CASE UNCHANGED vars
  <2>1. UNCHANGED <<brokerVars, plans, pc, seen>> /\ Pending' = Pending
    BY <1>1 DEF vars, ledgerVars, procVars, Pending, Queued, Travelling
  <2>2. LiveOcos' = LiveOcos /\ UNCHANGED <<entry, position>>
    BY <2>1 DEF LiveOcos, brokerVars
  <2>3. ReadInv'
    BY <2>1, <2>2 DEF SafeInv, ReadInv, Live
  <2>. QED
    BY <2>1, <2>3, ProcSafe
<1>2. CASE CheckpointRefused \/ NoProtection \/ SafetyBlocked \/ GiveUp \/ Crash \/ Reject
           \/ Ambiguous \/ CrashSending \/ AlreadyRun \/ Vanish \/ Recover
  <2>1. UNCHANGED <<brokerVars, plans>> /\ Pending' \subseteq Pending /\ pc' \in {"idle", "run"}
    BY <1>2, EndingBase
  <2>. QED
    BY <2>1, ProcSafe DEF ReadInv
<1>. QED
  BY <1>1, <1>2, MarketSafe, ReadSafe, PlanSafe, EffectSafe DEF Next, Market, Operation

(* The account is safe as long as the order lists do not lag.              *)
THEOREM Invariance == Spec => []Inv
<1>1. Init => Inv
  BY InitBase, InitSafe DEF Inv
<1>2. Inv /\ [Next]_vars => Inv'
  BY BaseStep, SafeStep DEF Inv
<1>. QED
  BY <1>1, <1>2, PTL DEF Spec

(* A replacement OCO is submitted only when its predecessor is terminal,   *)
(* whatever the broker does about a cancel, unless the order lists lag     *)
(* (paper_protective_oco_lifecycle.py).                                    *)
THEOREM OneOcoAtATime ==
  ASSUME "lag" \notin Behaviours PROVE Spec => []OneLiveOco
<1>1. Inv => OneLiveOco
  <2>. SUFFICES ASSUME Inv PROVE OneLiveOco
    OBVIOUS
  <2>1. \A i, j \in LiveOcos : i = j
    BY DEF Inv, SafeInv, SellInv
  <2>2. CASE LiveOcos = {}
    BY <2>2, FS_EmptySet DEF OneLiveOco
  <2>3. CASE LiveOcos # {}
    <3>1. PICK i : LiveOcos = {i}
      BY <2>1, <2>3
    <3>. QED
      BY <3>1, FS_Singleton DEF OneLiveOco
  <2>. QED
    BY <2>2, <2>3
<1>. QED
  BY <1>1, Invariance, PTL

(* What works at the broker to sell never exceeds the shares held: no      *)
(* interleaving of fills, resizes, flattening, late deliveries and         *)
(* restarts turns the position into a short one, unless the order lists    *)
(* lag (paper_protective_exit.py, paper_safety_planner.py).                *)
THEOREM NeverOversold ==
  ASSUME "lag" \notin Behaviours PROVE Spec => []NoOversell
<1>1. Inv => NoOversell
  <2>. SUFFICES ASSUME Inv PROVE NoOversell
    OBVIOUS
  <2>1. /\ \A i, j \in LiveOcos : i = j
        /\ \A i \in LiveOcos : ocos[i].left <= position /\ i \in DOMAIN ocos
        /\ closing <= position
        /\ closing > 0 => LiveOcos = {}
    BY LiveAre DEF Inv, SafeInv, SellInv
  <2>2. /\ closing \in 0..Quantity /\ position \in 0..Quantity
        /\ \A i \in DOMAIN ocos : ocos[i].left \in Nat
    <3>1. TypeInv
      BY DEF Inv, BaseInv
    <3>. QED
      BY <3>1, TypeFacts, Constants DEF Oco
  <2>3. CASE LiveOcos = {}
    <3>1. MapThenSumSet(LAMBDA i : ocos[i].left, LiveOcos) = 0
      BY <2>3, SumOfNone
    <3>. QED
      BY <2>1, <2>2, <3>1, Constants DEF NoOversell
  <2>4. CASE LiveOcos # {}
    <3>1. PICK j : LiveOcos = {j}
      BY <2>1, <2>4
    <3>2. ocos[j].left \in Nat /\ ocos[j].left <= position /\ closing = 0
      BY <2>1, <2>2, <3>1, Constants
    <3>3. MapThenSumSet(LAMBDA i : ocos[i].left, LiveOcos) = ocos[j].left
      BY <3>1, <3>2, SumOfOne
    <3>. QED
      BY <3>2, <3>3 DEF NoOversell
  <2>. QED
    BY <2>3, <2>4
<1>. QED
  BY <1>1, Invariance, PTL

(* While a close order works nothing can buy again or sell a second time,  *)
(* unless the order lists lag (execute_safety_plan,                        *)
(* paper_mutation_executor.py:136).                                        *)
THEOREM ClosesStandAlone ==
  ASSUME "lag" \notin Behaviours PROVE Spec => []CloseStandsAlone
<1>1. Inv => CloseStandsAlone
  BY DEF Inv, SafeInv, SellInv, CloseStandsAlone
<1>. QED
  BY <1>1, Invariance, PTL
=============================================================================
