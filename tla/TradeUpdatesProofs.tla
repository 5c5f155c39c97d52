------------------------- MODULE TradeUpdatesProofs -------------------------
(***************************************************************************)
(* Theorems about TradeUpdates, for an order of any number of shares at    *)
(* any prices and times, any number of connections and checkpoints: an     *)
(* order state without anomalies is the broker's, and what was received is *)
(* in it.                                                                  *)
(***************************************************************************)
EXTENDS TradeUpdates, FiniteSetTheorems, SequenceTheorems, WellFoundedInduction, TLAPS

ReceiptType ==
  [event : BrokerEvents, epoch : 1..MaxEpochs, disposition : Dispositions, high_water : Nat]

(* The types of the tables as well. *)
TypeInv ==
  /\ TypeOK
  /\ receipts \in Seq(ReceiptType)
  /\ events \in Seq(BrokerEvents)

Received == {receipts[i].event : i \in DOMAIN receipts}

(* What is on the wire or in the tables has happened at the broker. *)
Happened(e) == IF e = Closing THEN closed ELSE e <= filled
BrokerInv ==
  /\ closed => filled < Shares
  /\ \A e \in wire \cup Received \cup Stored : Happened(e)

(* The owner works on a receipt, or reads through an open connection. *)
Reading == pc \in {"activities", "complete"}
OwnerInv ==
  /\ pc \in {"down", "reprocess"} => ~connected
  /\ Reading \/ pc \in {"recover", "ready"} => connected
  /\ connected => epoch > 0
  /\ pc # "down" /\ ~connected => epoch < MaxEpochs
  /\ pc \in {"received", "stored"} => current # 0
  /\ pc = "stored" => receipts[current].event \in Stored

(* A REST order that was read is behind the broker, but not about its end. *)
Snapshot(o) ==
  /\ o.filled <= filled
  /\ o.status = "filled" <=> o.filled = Shares
  /\ o.status = "canceled" => closed /\ o.filled = filled

(* A REST order tells of event e. *)
Covers(o, e) == IF e = Closing THEN o.status = "canceled" ELSE e <= o.filled

(* A checkpoint in progress is ahead of the last one and of every receipt, *)
(* and the activities are all or none of those of the latest order.        *)
CheckpointInv ==
  /\ Snapshot(rest) /\ Snapshot(order)
  /\ acts = 0 \/ acts = rest.filled
  /\ recoveries > 0 => Recovered
  /\ Reading => /\ order.status # "none" /\ rest.filled <= order.filled
                /\ rest.status \in RestTerminal => order.status = rest.status
                /\ \A e \in Received : Covers(order, e)
  /\ pc = "complete" => acts <= seen

(* What was classified is in the events, or in a later checkpoint. *)
ReceiptInv ==
  \A i \in DOMAIN receipts :
    /\ receipts[i].disposition = "accepted" => receipts[i].event \in Stored
    /\ receipts[i].disposition = "quarantined" /\ QuarantineRecovered(i) =>
         Covers(rest, receipts[i].event)

Inv == TypeInv /\ BrokerInv /\ OwnerInv /\ CheckpointInv /\ ReceiptInv

-----------------------------------------------------------------------------
(* Sets of numbers have a least and, when bounded, a greatest member.      *)
LEMMA MinOfNaturals ==
  ASSUME NEW S \in SUBSET Nat, S # {}
  PROVE  Min(S) \in S /\ \A k \in S : Min(S) <= k
<1>1. PICK m \in S : \A k \in S : ~(<<k, m>> \in OpToRel(<, Nat))
  BY NatLessThanWellFounded, WFMin
<1>2. \A k \in S : ~(k < m)
  BY <1>1 DEF OpToRel
<1>3. \A k \in S : m =< k
  BY <1>2
<1>. QED
  BY <1>3 DEF Min

LEMMA MaxOfNaturals ==
  ASSUME NEW n \in Nat, NEW S \in SUBSET (0..n), S # {}
  PROVE  Max(S) \in S /\ \A k \in S : Max(S) >= k
<1>. DEFINE T == {n - k : k \in S}
<1>1. T \in SUBSET Nat /\ T # {}
  <2>1. \A k \in 0..n : n - k \in Nat
    OBVIOUS
  <2>2. T \in SUBSET Nat
    BY <2>1
  <2>. QED
    BY <2>2
<1>2. Min(T) \in T /\ \A k \in T : Min(T) <= k
  BY <1>1, MinOfNaturals
<1>3. PICK m \in S : Min(T) = n - m
  BY <1>2
<1>4. \A k \in S : n - m <= n - k
  BY <1>2, <1>3
<1>5. \A k \in S : m >= k
  BY <1>4
<1>. QED
  BY <1>5 DEF Max

-----------------------------------------------------------------------------
OrderType == [filled : 0..Shares, status : RestTerminal \cup {"none", "new", "partially_filled"}]

LEMMA SharesType == /\ Shares \in Nat /\ Shares > 0 /\ Closing \in BrokerEvents
                    /\ Closing = Shares + 1 /\ NoOrder \in OrderType
                    /\ \A e \in BrokerEvents : e \in 1..Shares \/ e = Closing
                    /\ \A e \in 1..Shares : e \in BrokerEvents /\ e # Closing
BY OrderAssumption DEF Closing, BrokerEvents, NoOrder, OrderType

(* What a step may assume of the tables and the wire. *)
LEMMA Members ==
  ASSUME TypeInv
  PROVE  /\ Stored \subseteq BrokerEvents /\ Received \subseteq BrokerEvents
         /\ wire \subseteq BrokerEvents
         /\ filled \in 0..Shares /\ filled \in Nat /\ closed \in BOOLEAN
         /\ rest \in OrderType /\ order \in OrderType
         /\ DOMAIN receipts = 1..Len(receipts) /\ Len(receipts) \in Nat
         /\ \A i \in DOMAIN receipts :
              receipts[i] \in ReceiptType /\ receipts[i].event \in BrokerEvents
         /\ recoveries \in Nat /\ acts \in 0..Shares /\ seen \in 0..Shares
<1>1. receipts \in Seq(ReceiptType) /\ events \in Seq(BrokerEvents)
  BY DEF TypeInv
<1>2. \A i \in DOMAIN receipts : receipts[i] \in ReceiptType
  BY <1>1
<1>3. \A i \in DOMAIN receipts : receipts[i].event \in BrokerEvents
  BY <1>2 DEF ReceiptType
<1>4. \A i \in DOMAIN events : events[i] \in BrokerEvents
  BY <1>1
<1>5. DOMAIN receipts = 1..Len(receipts) /\ Len(receipts) \in Nat
  BY <1>1
<1>6. /\ wire \subseteq BrokerEvents /\ filled \in 0..Shares /\ filled \in Nat
      /\ closed \in BOOLEAN /\ rest \in OrderType /\ order \in OrderType
      /\ recoveries \in Nat /\ acts \in 0..Shares /\ seen \in 0..Shares
  BY SharesType, BoundsAssumption DEF TypeInv, TypeOK, OrderType
<1>. QED
  BY <1>2, <1>3, <1>4, <1>5, <1>6 DEF Stored, Received

LEMMA InitInv == Init => Inv
<1>. SUFFICES ASSUME Init PROVE Inv
  OBVIOUS
<1>1. receipts = <<>> /\ events = <<>> /\ DOMAIN receipts = {} /\ DOMAIN events = {}
  BY DEF Init
<1>2. TypeInv
  <2>1. filled \in 0..Shares /\ seen \in 0..Shares /\ acts \in 0..Shares
        /\ epoch \in 0..MaxEpochs /\ recoveries \in 0..MaxCheckpoints
    BY SharesType, BoundsAssumption DEF Init
  <2>2. current \in 0..Len(receipts)
    BY DEF Init
  <2>3. unreadable \subseteq BrokerEvents
    BY DEF Init
  <2>4. rest \in OrderType /\ order \in OrderType
    BY SharesType DEF Init
  <2>5. receipts \in Seq(ReceiptType) /\ events \in Seq(BrokerEvents)
    BY <1>1
  <2>6. TypeOK
    BY <1>1, <2>1, <2>2, <2>3, <2>4 DEF Init, TypeOK, OrderType
  <2>. QED
    BY <2>5, <2>6 DEF TypeInv
<1>3. Received = {} /\ Stored = {} /\ wire = {}
  BY <1>1 DEF Init, Received, Stored
<1>4. BrokerInv /\ OwnerInv /\ ReceiptInv
  BY <1>1, <1>3 DEF Init, BrokerInv, OwnerInv, ReceiptInv, Reading
<1>5. CheckpointInv
  BY SharesType DEF Init, CheckpointInv, Snapshot, NoOrder, Reading
<1>. QED
  BY <1>2, <1>4, <1>5 DEF Inv

(* What has happened stays so, and what was read of it stays true. *)
LEMMA BrokerMoves ==
  ASSUME Inv, Fill \/ EndOrder
  PROVE  /\ \A e \in BrokerEvents : Happened(e) => Happened(e)'
         /\ \A o \in OrderType : Snapshot(o) => Snapshot(o)'
         /\ filled' \in 0..Shares /\ closed' \in BOOLEAN /\ (closed' => filled' < Shares)
         /\ wire' \subseteq BrokerEvents /\ \A e \in wire' : Happened(e)'
<1>. USE DEF Inv
<1>1. TypeInv
  OBVIOUS
<1>2. /\ filled \in 0..Shares /\ filled \in Nat /\ wire \subseteq BrokerEvents
      /\ \A e \in wire : Happened(e)
  BY <1>1, Members DEF BrokerInv
<1>3. CASE Fill
  <2>1. /\ ~closed /\ ~closed' /\ filled < Shares /\ filled' = filled + 1
        /\ wire' \subseteq wire \cup {filled + 1}
    BY <1>3 DEF Fill, Emit, TypeInv, TypeOK
  <2>2. filled' \in 1..Shares
    BY <1>2, <2>1, SharesType
  <2>3. \A e \in BrokerEvents : Happened(e) => Happened(e)'
    BY <1>2, <2>1, SharesType DEF Happened
  <2>4. \A o \in OrderType : Snapshot(o) => Snapshot(o)'
    BY <1>2, <2>1, SharesType DEF Snapshot, OrderType
  <2>5. PICK k \in BrokerEvents : k = filled + 1 /\ Happened(k)'
    BY <2>1, <2>2, SharesType DEF Happened
  <2>6. wire' \subseteq wire \cup {k}
    BY <2>1, <2>5
  <2>7. closed' \in BOOLEAN
    BY <1>3 DEF Fill, TypeInv, TypeOK
  <2>8. filled' \in 0..Shares
    BY <2>2
  <2>. QED
    BY <1>2, <2>1, <2>3, <2>4, <2>5, <2>6, <2>7, <2>8
<1>4. CASE EndOrder
  <2>1. /\ ~closed /\ closed' = TRUE /\ filled < Shares /\ filled' = filled
        /\ wire' \subseteq wire \cup {Closing}
    BY <1>4 DEF EndOrder, Emit, TypeInv, TypeOK
  <2>2. \A e \in BrokerEvents : Happened(e) => Happened(e)'
    BY <2>1 DEF Happened
  <2>3. \A o \in OrderType : Snapshot(o) => Snapshot(o)'
    BY <2>1 DEF Snapshot
  <2>4. Closing \in BrokerEvents /\ Happened(Closing)'
    BY <2>1, SharesType DEF Happened
  <2>. QED
    BY <1>2, <2>1, <2>2, <2>3, <2>4
<1>. QED
  BY <1>3, <1>4

LEMMA BrokerStep ==
  ASSUME Inv, Fill \/ EndOrder
  PROVE  Inv'
<1>. USE DEF Inv, Fill, EndOrder, reading, ledger
<1>1. UNCHANGED <<unreadable, epoch, connected, pc, current, order, seen, receipts, events,
                  recoveries, rest, acts>>
  OBVIOUS
<1>2. /\ \A e \in BrokerEvents : Happened(e) => Happened(e)'
      /\ \A o \in OrderType : Snapshot(o) => Snapshot(o)'
      /\ filled' \in 0..Shares /\ closed' \in BOOLEAN /\ (closed' => filled' < Shares)
      /\ wire' \subseteq BrokerEvents /\ \A e \in wire' : Happened(e)'
  BY BrokerMoves
<1>3. /\ Stored \subseteq BrokerEvents /\ Received \subseteq BrokerEvents
      /\ rest \in OrderType /\ order \in OrderType
  BY Members
<1>4. TypeInv'
  BY <1>1, <1>2 DEF TypeInv, TypeOK
<1>5. BrokerInv'
  <2>1. Received' = Received /\ Stored' = Stored
    BY <1>1 DEF Received, Stored
  <2>. QED
    BY <1>2, <1>3, <2>1 DEF BrokerInv
<1>6. OwnerInv' /\ ReceiptInv'
  BY <1>1 DEF OwnerInv, ReceiptInv, Reading, Stored, QuarantineRecovered, Covers
<1>7. CheckpointInv'
  <2>1. Snapshot(rest)' /\ Snapshot(order)'
    <3>1. \A o \in OrderType : Snapshot(o)' <=>
            (/\ o.filled <= filled' /\ (o.status = "filled" <=> o.filled = Shares)
             /\ (o.status = "canceled" => closed' /\ o.filled = filled'))
      BY DEF Snapshot
    <3>. QED
      BY <1>1, <1>2, <1>3, <3>1 DEF CheckpointInv, Snapshot
  <2>. QED
    BY <1>1, <2>1 DEF CheckpointInv, Reading, Received, Covers, Recovered
<1>. QED
  BY <1>4, <1>5, <1>6, <1>7

(* A frame is lost, or the process stops: nothing of the tables changes. *)
LEMMA LoseStep ==
  ASSUME Inv, NEW e \in BrokerEvents, Lose(e)
  PROVE  Inv'
<1>. USE DEF Inv, Lose, broker, reading, ledger
<1>1. /\ wire' \subseteq wire
      /\ UNCHANGED <<filled, closed, unreadable, epoch, connected, pc, current, order, seen,
                     receipts, events, recoveries, rest, acts>>
  OBVIOUS
<1>2. TypeInv'
  BY <1>1 DEF TypeInv, TypeOK
<1>3. BrokerInv'
  BY <1>1 DEF BrokerInv, Received, Stored, Happened
<1>4. OwnerInv' /\ ReceiptInv'
  BY <1>1 DEF OwnerInv, ReceiptInv, Reading, Stored, QuarantineRecovered, Covers
<1>5. CheckpointInv'
  BY <1>1 DEF CheckpointInv, Snapshot, Reading, Received, Covers, Recovered
<1>. QED
  BY <1>2, <1>3, <1>4, <1>5

LEMMA ShutStep ==
  ASSUME Inv, Stop \/ RecoveryRefused
  PROVE  Inv'
<1>. USE DEF Inv
<1>1. /\ pc' = "down" /\ connected' = FALSE /\ wire' = {} /\ current' = 0
      /\ order' = NoOrder /\ seen' = 0
      /\ UNCHANGED <<filled, closed, unreadable, epoch, receipts, events, recoveries, rest, acts>>
  BY DEF Stop, RecoveryRefused, Shut, broker, ledger
<1>2. TypeInv'
  <2>1. seen' \in 0..Shares /\ current' \in 0..Len(receipts)
    BY <1>1, SharesType, Members
  <2>. QED
    BY <1>1, <2>1, SharesType DEF TypeInv, TypeOK, OrderType
<1>3. BrokerInv'
  BY <1>1 DEF BrokerInv, Received, Stored, Happened
<1>4. OwnerInv' /\ ReceiptInv'
  BY <1>1 DEF OwnerInv, ReceiptInv, Reading, Stored, QuarantineRecovered, Covers
<1>5. CheckpointInv'
  <2>1. Snapshot(order)'
    BY <1>1, SharesType, Members DEF Snapshot, NoOrder
  <2>. QED
    BY <1>1, <2>1 DEF CheckpointInv, Snapshot, Reading, Recovered
<1>. QED
  BY <1>2, <1>3, <1>4, <1>5

(* The steps in which the owner only moves on. *)
LEMMA OwnerMoves ==
  ASSUME Inv, Open \/ Reprocess \/ Checkpoint
  PROVE  Inv'
<1>. USE DEF Inv
<1>1. UNCHANGED <<filled, closed, unreadable, wire, epoch, connected, order, seen,
                  receipts, events, recoveries, rest, acts>>
  BY DEF Open, Reprocess, Checkpoint, broker, reading, ledger
<1>2. pc' \in {"reprocess", "received", "recover"}
  BY DEF Open, Reprocess, Checkpoint
<1>3. Reprocess => current' \in 1..Len(receipts)
  <2>1. Pending \subseteq 1..Len(receipts) /\ Len(receipts) \in Nat
    BY Members DEF Pending
  <2>2. Pending \in SUBSET Nat
    BY <2>1
  <2>3. Pending # {} => Min(Pending) \in Pending
    BY <2>2, MinOfNaturals
  <2>. QED
    BY <2>1, <2>3 DEF Reprocess
<1>4. current' \in 0..Len(receipts) /\ (pc' = "received" => current' # 0)
  <2>1. CASE Reprocess
    BY <1>3, <2>1, Members
  <2>2. CASE Open \/ Checkpoint
    BY <2>2 DEF Open, Checkpoint, TypeInv, TypeOK
  <2>. QED
    BY <2>1, <2>2
<1>5. TypeInv'
  BY <1>1, <1>2, <1>4 DEF TypeInv, TypeOK
<1>6. BrokerInv'
  BY <1>1 DEF BrokerInv, Received, Stored, Happened
<1>7. OwnerInv'
  BY <1>1, <1>2, <1>4 DEF OwnerInv, Reading, Open, Reprocess, Checkpoint
<1>8. ReceiptInv'
  BY <1>1 DEF ReceiptInv, Stored, QuarantineRecovered, Covers
<1>9. CheckpointInv'
  BY <1>1, <1>2 DEF CheckpointInv, Snapshot, Reading, Recovered
<1>. QED
  BY <1>5, <1>6, <1>7, <1>8, <1>9

LEMMA ConnectStep ==
  ASSUME Inv, Connect
  PROVE  Inv'
<1>. USE DEF Inv
<1>1. /\ pc = "reprocess" /\ pc' = "recover" /\ connected' = TRUE /\ epoch' = epoch + 1 /\ wire' = {}
      /\ UNCHANGED <<filled, closed, unreadable, current, order, seen,
                     receipts, events, recoveries, rest, acts>>
  BY DEF Connect, broker, reading, ledger
<1>2. epoch' \in 0..MaxEpochs /\ epoch' > 0
  BY <1>1, BoundsAssumption DEF OwnerInv, TypeInv, TypeOK
<1>3. TypeInv'
  BY <1>1, <1>2 DEF TypeInv, TypeOK
<1>4. BrokerInv'
  BY <1>1 DEF BrokerInv, Received, Stored, Happened
<1>5. OwnerInv' /\ ReceiptInv'
  BY <1>1, <1>2 DEF OwnerInv, ReceiptInv, Reading, Stored, QuarantineRecovered, Covers
<1>6. CheckpointInv'
  BY <1>1 DEF CheckpointInv, Snapshot, Reading, Recovered
<1>. QED
  BY <1>3, <1>4, <1>5, <1>6
-----------------------------------------------------------------------------
(* A REST order that is read now is ahead of all that was read before. *)
LEMMA ReadNow ==
  ASSUME Inv
  PROVE  LET o == [filled |-> filled, status |-> Status] IN
         /\ o \in OrderType /\ Snapshot(o) /\ o.status # "none" /\ rest.filled <= o.filled
         /\ rest.status \in RestTerminal => o.status = rest.status
         /\ \A e \in Received : Covers(o, e)
<1>. DEFINE o == [filled |-> filled, status |-> Status]
<1>1. o.filled = filled /\ o.status = Status
  OBVIOUS
<1>. HIDE DEF o
<1>2. /\ filled \in 0..Shares /\ filled \in Nat /\ closed \in BOOLEAN /\ rest \in OrderType
      /\ Received \subseteq BrokerEvents
  BY Members DEF Inv
<1>3. o \in OrderType
  BY <1>2 DEF o, OrderType, Status, RestTerminal
<1>4. closed => filled < Shares
  BY DEF Inv, BrokerInv
<1>5. Snapshot(o)
  BY <1>1, <1>2, <1>4, SharesType DEF Snapshot, Status
<1>6. rest.filled <= o.filled /\ (rest.status \in RestTerminal => o.status = rest.status)
  <2>1. Snapshot(rest) /\ rest.filled \in 0..Shares
    BY <1>2 DEF Inv, CheckpointInv, OrderType
  <2>2. rest.status = "filled" => filled = Shares
    BY <1>2, <2>1, SharesType DEF Snapshot
  <2>. QED
    BY <1>1, <1>2, <1>4, <2>1, <2>2, SharesType DEF Snapshot, Status, RestTerminal
<1>7. \A e \in Received : Covers(o, e)
  BY <1>1, <1>2 DEF Inv, BrokerInv, Happened, Covers, Status
<1>. QED
  BY <1>1, <1>3, <1>5, <1>6, <1>7 DEF o, Status

LEMMA ReadOrderStep ==
  ASSUME Inv, ReadOrder
  PROVE  Inv'
<1>. USE DEF Inv
<1>1. /\ pc = "recover" /\ pc' = "activities" /\ order' = [filled |-> filled, status |-> Status]
      /\ UNCHANGED <<filled, closed, unreadable, wire, epoch, connected, current, seen,
                     receipts, events, recoveries, rest, acts>>
  BY DEF ReadOrder, broker, ledger
<1>2. /\ order' \in OrderType /\ Snapshot(order)' /\ order'.status # "none"
      /\ rest.filled <= order'.filled
      /\ rest.status \in RestTerminal => order'.status = rest.status
      /\ \A e \in Received : Covers(order', e)
  BY <1>1, ReadNow DEF Snapshot
<1>3. TypeInv'
  BY <1>1, <1>2 DEF TypeInv, TypeOK, OrderType
<1>4. BrokerInv'
  BY <1>1 DEF BrokerInv, Received, Stored, Happened
<1>5. OwnerInv' /\ ReceiptInv'
  BY <1>1 DEF OwnerInv, ReceiptInv, Reading, Stored, QuarantineRecovered, Covers
<1>6. CheckpointInv'
  <2>1. (\A e \in Received : Covers(order, e))'
    BY <1>1, <1>2 DEF Received, Covers
  <2>. QED
    BY <1>1, <1>2, <2>1 DEF CheckpointInv, Snapshot, Reading, Recovered
<1>. QED
  BY <1>3, <1>4, <1>5, <1>6

LEMMA ReadActivitiesStep ==
  ASSUME Inv, NEW n \in 0..Shares, ReadActivities(n)
  PROVE  Inv'
<1>. USE DEF Inv
<1>1. /\ pc = "activities" /\ pc' = "complete" /\ seen' = n /\ n >= acts
      /\ UNCHANGED <<filled, closed, unreadable, wire, epoch, connected, current, order,
                     receipts, events, recoveries, rest, acts>>
  BY Members DEF ReadActivities, broker, ledger
<1>2. TypeInv'
  BY <1>1 DEF TypeInv, TypeOK
<1>3. BrokerInv'
  BY <1>1 DEF BrokerInv, Received, Stored, Happened
<1>4. OwnerInv' /\ ReceiptInv'
  BY <1>1 DEF OwnerInv, ReceiptInv, Reading, Stored, QuarantineRecovered, Covers
<1>5. CheckpointInv'
  <2>1. acts' <= seen'
    BY <1>1, Members
  <2>. QED
    BY <1>1, <2>1 DEF CheckpointInv, Snapshot, Reading, Received, Covers, Recovered
<1>. QED
  BY <1>2, <1>3, <1>4, <1>5

(* What a completed checkpoint leaves in the ledger. *)
LEMMA Completed ==
  ASSUME Inv, CompleteRecovery
  PROVE  /\ acts' = seen /\ acts' \in 0..Shares /\ (acts' = 0 \/ acts' = rest'.filled)
         /\ rest' = order /\ rest'.status # "none" /\ rest.filled <= rest'.filled
         /\ rest.status \in RestTerminal => rest'.status = rest.status
<1>1. /\ pc = "complete" /\ rest' = order /\ acts' = Max({acts, seen})
      /\ ~ActivitiesContradict(order, seen)
  BY DEF CompleteRecovery
<1>2. acts \in 0..Shares /\ seen \in 0..Shares /\ acts <= seen
  BY <1>1, Members DEF Inv, CheckpointInv
<1>3. Max({acts, seen}) \in {acts, seen} /\ Max({acts, seen}) >= seen
  BY <1>2, SharesType, MaxOfNaturals
<1>4. acts' = seen
  BY <1>1, <1>2, <1>3
<1>5. acts' = 0 \/ acts' = rest'.filled
  BY <1>1, <1>2, <1>4 DEF ActivitiesContradict
<1>. QED
  BY <1>1, <1>2, <1>4, <1>5 DEF Inv, CheckpointInv, Reading

LEMMA CompleteStep ==
  ASSUME Inv, CompleteRecovery
  PROVE  Inv'
<1>. USE DEF Inv
<1>1. /\ pc = "complete" /\ pc' = "ready" /\ recoveries < MaxCheckpoints /\ recoveries' = recoveries + 1
      /\ order' = NoOrder /\ seen' = 0 /\ rest' = order
      /\ UNCHANGED <<filled, closed, unreadable, wire, epoch, connected, current, receipts, events>>
  BY DEF CompleteRecovery, broker
<1>2. /\ acts' \in 0..Shares /\ (acts' = 0 \/ acts' = rest'.filled) /\ rest'.status # "none"
  BY Completed
<1>3. recoveries' \in 0..MaxCheckpoints /\ recoveries' >= recoveries
  BY <1>1, BoundsAssumption, Members DEF TypeInv, TypeOK
<1>4. order \in OrderType /\ NoOrder \in OrderType /\ 0 \in 0..Shares
  BY Members, SharesType
<1>5. TypeInv'
  <2>1. \A i \in DOMAIN receipts : receipts[i].high_water \in 0..recoveries'
    BY <1>1, <1>3, Members, BoundsAssumption DEF TypeInv, TypeOK
  <2>. QED
    BY <1>1, <1>2, <1>3, <1>4, <2>1 DEF TypeInv, TypeOK, OrderType
<1>6. BrokerInv'
  BY <1>1 DEF BrokerInv, Received, Stored, Happened
<1>7. OwnerInv'
  BY <1>1 DEF OwnerInv, Reading
<1>8. ReceiptInv'
  <2>1. \A i \in DOMAIN receipts : Covers(order, receipts[i].event)
    BY <1>1 DEF CheckpointInv, Reading, Received
  <2>. QED
    BY <1>1, <2>1 DEF ReceiptInv, Stored, Covers
<1>9. CheckpointInv'
  <2>1. Snapshot(order)'
    BY <1>1, SharesType, Members DEF Snapshot, NoOrder
  <2>2. Snapshot(rest)'
    BY <1>1 DEF CheckpointInv, Snapshot
  <2>3. Recovered'
    BY <1>2 DEF Recovered, NoOrder
  <2>. QED
    BY <1>1, <1>2, <2>1, <2>2, <2>3 DEF CheckpointInv, Reading
<1>. QED
  BY <1>5, <1>6, <1>7, <1>8, <1>9

-----------------------------------------------------------------------------
LEMMA ReceiveStep ==
  ASSUME Inv, NEW e \in BrokerEvents, Receive(e)
  PROVE  Inv'
<1>. USE DEF Inv
<1>. DEFINE same == {i \in DOMAIN receipts : receipts[i].event = e /\ receipts[i].epoch = epoch}
            new == [event |-> e, epoch |-> epoch, disposition |-> "pending", high_water |-> 0]
<1>1. /\ pc = "ready" /\ pc' = "received" /\ e \in wire /\ wire' \subseteq wire
      /\ UNCHANGED <<filled, closed, unreadable, epoch, connected, order, seen,
                     events, recoveries, rest, acts>>
  BY DEF Receive, broker, reading
<1>2. \/ same # {} /\ current' = Min(same) /\ receipts' = receipts
      \/ receipts' = Append(receipts, new) /\ current' = Len(receipts) + 1
  BY DEF Receive
<1>3. /\ DOMAIN receipts = 1..Len(receipts) /\ Len(receipts) \in Nat
      /\ receipts \in Seq(ReceiptType) /\ recoveries \in Nat
  BY Members DEF TypeInv
<1>4. new \in ReceiptType /\ new.event = e /\ new.disposition = "pending" /\ new.high_water = 0
  <2>1. epoch \in 1..MaxEpochs
    BY <1>1, BoundsAssumption DEF OwnerInv, TypeInv, TypeOK
  <2>. QED
    BY <2>1 DEF ReceiptType, Dispositions
<1>5. same # {} => Min(same) \in 1..Len(receipts)
  <2>1. same \subseteq 1..Len(receipts) /\ same \in SUBSET Nat
    BY <1>3
  <2>. HIDE DEF same
  <2>. QED
    BY <2>1, MinOfNaturals
<1>. HIDE DEF same, new
<1>6. /\ receipts' \in Seq(ReceiptType) /\ DOMAIN receipts \subseteq DOMAIN receipts'
      /\ DOMAIN receipts' = 1..Len(receipts')
      /\ current' \in 1..Len(receipts')
      /\ \A i \in DOMAIN receipts' : \/ i \in DOMAIN receipts /\ receipts'[i] = receipts[i]
                                     \/ receipts'[i] = new
  <2>1. CASE same # {} /\ current' = Min(same) /\ receipts' = receipts
    BY <1>3, <1>5, <2>1
  <2>2. CASE receipts' = Append(receipts, new) /\ current' = Len(receipts) + 1
    <3>1. /\ receipts' \in Seq(ReceiptType) /\ Len(receipts') = Len(receipts) + 1
          /\ \A i \in 1..Len(receipts) : receipts'[i] = receipts[i]
          /\ receipts'[Len(receipts) + 1] = new
      BY <1>3, <1>4, <2>2
    <3>2. DOMAIN receipts' = 1..Len(receipts) + 1
      BY <3>1
    <3>3. \A i \in 1..Len(receipts) + 1 : i \in 1..Len(receipts) \/ i = Len(receipts) + 1
      BY <1>3
    <3>. QED
      BY <1>3, <2>2, <3>1, <3>2, <3>3
  <2>. QED
    BY <1>2, <2>1, <2>2
<1>7. TypeInv'
  <2>1. \A i \in DOMAIN receipts' : receipts'[i] \in ReceiptType
    BY <1>6
  <2>2. \A i \in DOMAIN receipts' :
          /\ receipts'[i].event \in BrokerEvents /\ receipts'[i].epoch \in 1..MaxEpochs
          /\ receipts'[i].disposition \in Dispositions
    BY <2>1 DEF ReceiptType
  <2>3. \A i \in DOMAIN receipts' : receipts'[i].high_water \in 0..recoveries
    BY <1>3, <1>4, <1>6 DEF TypeInv, TypeOK
  <2>4. current' \in 0..Len(receipts') /\ wire' \subseteq BrokerEvents
    BY <1>1, <1>6, Members
  <2>. QED
    BY <1>1, <1>6, <2>2, <2>3, <2>4 DEF TypeInv, TypeOK
<1>8. Received' \subseteq Received \cup {e} /\ Stored' = Stored
  BY <1>1, <1>4, <1>6 DEF Received, Stored
<1>9. BrokerInv'
  BY <1>1, <1>8 DEF BrokerInv, Happened
<1>10. OwnerInv'
  BY <1>1, <1>6 DEF OwnerInv, Reading
<1>11. ReceiptInv'
  BY <1>1, <1>4, <1>6, <1>8 DEF ReceiptInv, QuarantineRecovered, Covers
<1>12. CheckpointInv'
  BY <1>1 DEF CheckpointInv, Snapshot, Reading, Recovered
<1>. QED
  BY <1>7, <1>9, <1>10, <1>11, <1>12

(* append_trade_update keeps the events distinct and in their place. *)
LEMMA StoredGrows ==
  ASSUME Inv, StoreEvent
  PROVE  /\ events' \in Seq(BrokerEvents)
         /\ Stored' = Stored \cup {receipts[current].event}
         /\ receipts[current].event \in Received
         /\ \A i, j \in DOMAIN events' : events'[i] = events'[j] => i = j
<1>. DEFINE e == receipts[current].event
<1>1. /\ pc = "received" /\ events' = IF e \in Stored THEN events ELSE Append(events, e)
  BY DEF StoreEvent
<1>2. current \in DOMAIN receipts
  BY <1>1, Members DEF Inv, OwnerInv, TypeInv, TypeOK
<1>3. e \in BrokerEvents /\ e \in Received
  BY <1>2, Members DEF Inv, Received
<1>. HIDE DEF e
<1>4. events \in Seq(BrokerEvents) /\ \A i, j \in DOMAIN events : events[i] = events[j] => i = j
  BY DEF Inv, TypeInv, TypeOK
<1>5. CASE e \in Stored
  BY <1>1, <1>3, <1>4, <1>5 DEF Stored, e
<1>6. CASE e \notin Stored
  <2>1. events' = Append(events, e)
    BY <1>1, <1>6
  <2>2. /\ events' \in Seq(BrokerEvents) /\ Len(events') = Len(events) + 1
        /\ \A i \in 1..Len(events) : events'[i] = events[i]
        /\ events'[Len(events) + 1] = e /\ Len(events) \in Nat
        /\ DOMAIN events = 1..Len(events) /\ DOMAIN events' = 1..Len(events) + 1
    BY <1>3, <1>4, <2>1
  <2>3. \A i \in 1..Len(events) + 1 : i \in 1..Len(events) \/ i = Len(events) + 1
    BY <2>2
  <2>4. \A i \in 1..Len(events) : i \in 1..Len(events) + 1
    BY <2>2
  <2>5. Len(events) + 1 \in 1..Len(events) + 1
    BY <2>2
  <2>6. Stored' = Stored \cup {e}
    BY <2>2, <2>3, <2>4, <2>5, Zenon DEF Stored
  <2>7. \A i \in 1..Len(events) : events[i] # e
    BY <1>6, <2>2 DEF Stored
  <2>8. \A i, j \in DOMAIN events' : events'[i] = events'[j] => i = j
    BY <1>4, <2>2, <2>3, <2>7
  <2>. QED
    BY <1>3, <2>2, <2>6, <2>8 DEF e
<1>. QED
  BY <1>5, <1>6

LEMMA StoreEventStep ==
  ASSUME Inv, StoreEvent
  PROVE  Inv'
<1>. USE DEF Inv
<1>1. /\ pc = "received" /\ pc' = "stored"
      /\ UNCHANGED <<filled, closed, unreadable, wire, epoch, connected, current, order, seen,
                     receipts, recoveries, rest, acts>>
  BY DEF StoreEvent, broker, reading
<1>2. /\ events' \in Seq(BrokerEvents)
      /\ Stored' = Stored \cup {receipts[current].event}
      /\ receipts[current].event \in Received
      /\ \A i, j \in DOMAIN events' : events'[i] = events'[j] => i = j
  BY StoredGrows
<1>3. TypeInv'
  BY <1>1, <1>2 DEF TypeInv, TypeOK
<1>4. BrokerInv'
  BY <1>1, <1>2 DEF BrokerInv, Received, Happened
<1>5. OwnerInv'
  BY <1>1, <1>2 DEF OwnerInv, Reading
<1>6. ReceiptInv'
  BY <1>1, <1>2 DEF ReceiptInv, QuarantineRecovered, Covers
<1>7. CheckpointInv'
  BY <1>1 DEF CheckpointInv, Snapshot, Reading, Recovered
<1>. QED
  BY <1>3, <1>4, <1>5, <1>6, <1>7

(* A classification changes only a pending receipt, and not its event. *)
LEMMA Classified ==
  ASSUME Inv, NEW d \in Dispositions, Classify(d), pc \in {"received", "stored"}
  PROVE  /\ receipts' \in Seq(ReceiptType) /\ Len(receipts') = Len(receipts)
         /\ DOMAIN receipts' = DOMAIN receipts /\ current \in DOMAIN receipts
         /\ \A i \in DOMAIN receipts : receipts'[i].event = receipts[i].event
         /\ \A i \in DOMAIN receipts :
              \/ receipts'[i] = receipts[i]
              \/ i = current /\ receipts'[i].disposition = d /\ receipts'[i].high_water = recoveries
<1>1. /\ receipts \in Seq(ReceiptType) /\ DOMAIN receipts = 1..Len(receipts) /\ recoveries \in Nat
      /\ \A i \in DOMAIN receipts : receipts[i] \in ReceiptType
  BY Members DEF Inv, TypeInv
<1>2. current \in DOMAIN receipts
  BY Members DEF Inv, OwnerInv, TypeInv, TypeOK
<1>3. CASE receipts' = receipts
  BY <1>1, <1>2, <1>3
<1>4. CASE receipts' = [receipts EXCEPT ![current].disposition = d, ![current].high_water = recoveries]
  <2>. DEFINE new == [receipts[current] EXCEPT !.disposition = d, !.high_water = recoveries]
  <2>1. /\ new \in ReceiptType /\ new.event = receipts[current].event
        /\ new.disposition = d /\ new.high_water = recoveries
    BY <1>1, <1>2 DEF ReceiptType
  <2>2. receipts' = [receipts EXCEPT ![current] = new]
    BY <1>1, <1>2, <1>4
  <2>. HIDE DEF new
  <2>3. /\ receipts' \in Seq(ReceiptType) /\ Len(receipts') = Len(receipts)
        /\ DOMAIN receipts' = DOMAIN receipts
        /\ \A i \in DOMAIN receipts : receipts'[i] = IF i = current THEN new ELSE receipts[i]
    BY <1>1, <1>2, <2>1, <2>2
  <2>. QED
    BY <1>2, <2>1, <2>3
<1>. QED
  BY <1>3, <1>4 DEF Classify

LEMMA ClassifyStep ==
  ASSUME Inv, Accept \/ Quarantine
  PROVE  Inv'
<1>. USE DEF Inv
<1>1. PICK d \in {"accepted", "quarantined"} :
        /\ Classify(d) /\ pc \in {"received", "stored"}
        /\ d = "accepted" => receipts[current].event \in Stored
  BY DEF Accept, Quarantine, OwnerInv
<1>2. /\ pc' \in {"ready", "reprocess", "recover"} /\ (connected <=> pc' # "reprocess")
      /\ current' = 0 /\ pc # "down"
      /\ UNCHANGED <<filled, closed, unreadable, wire, epoch, connected, order, seen, events,
                     recoveries, rest, acts>>
  BY DEF Accept, Quarantine, broker, reading
<1>3. /\ receipts' \in Seq(ReceiptType) /\ Len(receipts') = Len(receipts)
      /\ DOMAIN receipts' = DOMAIN receipts /\ current \in DOMAIN receipts
      /\ \A i \in DOMAIN receipts : receipts'[i].event = receipts[i].event
      /\ \A i \in DOMAIN receipts :
           \/ receipts'[i] = receipts[i]
           \/ i = current /\ receipts'[i].disposition = d /\ receipts'[i].high_water = recoveries
  BY <1>1, Classified DEF Dispositions
<1>4. recoveries \in Nat /\ Len(receipts) \in Nat
  BY Members
<1>5. TypeInv'
  <2>1. \A i \in DOMAIN receipts' : receipts'[i] \in ReceiptType
    BY <1>3
  <2>2. \A i \in DOMAIN receipts' :
          /\ receipts'[i].event \in BrokerEvents /\ receipts'[i].epoch \in 1..MaxEpochs
          /\ receipts'[i].disposition \in Dispositions
    BY <2>1 DEF ReceiptType
  <2>3. \A i \in DOMAIN receipts' : receipts'[i].high_water \in 0..recoveries
    BY <1>3, <1>4 DEF TypeInv, TypeOK
  <2>4. current' \in 0..Len(receipts')
    BY <1>2, <1>3, <1>4
  <2>. QED
    BY <1>2, <1>3, <2>2, <2>3, <2>4 DEF TypeInv, TypeOK
<1>6. Received' = Received /\ Stored' = Stored
  BY <1>2, <1>3 DEF Received, Stored
<1>7. BrokerInv'
  BY <1>2, <1>6 DEF BrokerInv, Happened
<1>8. OwnerInv'
  BY <1>2 DEF OwnerInv, Reading
<1>9. ReceiptInv'
  <2>. SUFFICES ASSUME NEW i \in DOMAIN receipts
                PROVE  /\ receipts'[i].disposition = "accepted" => receipts'[i].event \in Stored
                       /\ receipts'[i].disposition = "quarantined"
                            /\ recoveries > receipts'[i].high_water =>
                              Covers(rest, receipts'[i].event)
    BY <1>2, <1>3, <1>6 DEF ReceiptInv, QuarantineRecovered, Covers
  <2>1. CASE receipts'[i] = receipts[i]
    BY <2>1 DEF ReceiptInv, QuarantineRecovered
  <2>2. CASE i = current /\ receipts'[i].disposition = d /\ receipts'[i].high_water = recoveries
    BY <1>1, <1>3, <1>4, <2>2
  <2>. QED
    BY <1>3, <2>1, <2>2
<1>10. CheckpointInv'
  BY <1>2 DEF CheckpointInv, Snapshot, Reading, Recovered
<1>. QED
  BY <1>5, <1>7, <1>8, <1>9, <1>10
-----------------------------------------------------------------------------
LEMMA NextInv == Inv /\ [Next]_vars => Inv'
<1>. SUFFICES ASSUME Inv, [Next]_vars PROVE Inv'
  OBVIOUS
<1>1. CASE UNCHANGED vars
  <2>. USE <1>1 DEF Inv, vars
  <2>1. TypeInv'
    BY DEF TypeInv, TypeOK
  <2>2. BrokerInv' /\ OwnerInv'
    BY DEF BrokerInv, OwnerInv, Reading, Received, Stored, Happened
  <2>3. CheckpointInv' /\ ReceiptInv'
    BY DEF CheckpointInv, ReceiptInv, Snapshot, Reading, Received, Stored, Covers, Recovered,
           QuarantineRecovered
  <2>. QED
    BY <2>1, <2>2, <2>3
<1>2. CASE Next
  BY <1>2, BrokerStep, LoseStep, ShutStep, OwnerMoves, ConnectStep, ReadOrderStep,
     ReadActivitiesStep, CompleteStep, ReceiveStep, StoreEventStep, ClassifyStep DEF Next, Owner
<1>. QED
  BY <1>1, <1>2

(***************************************************************************)
(* The inductive invariant holds in every state of every behaviour.        *)
(***************************************************************************)
THEOREM Invariance == Spec => []Inv
<1>1. Init => Inv
  BY InitInv
<1>2. Inv /\ [Next]_vars => Inv'
  BY NextInv
<1>. QED
  BY <1>1, <1>2, PTL DEF Spec

(* The types of the tables, and no event stored twice. *)
THEOREM TypeCorrect == Spec => []TypeOK
<1>1. Inv => TypeOK
  BY DEF Inv, TypeInv
<1>. QED
  BY <1>1, Invariance, PTL
-----------------------------------------------------------------------------
(* The projection of the stream: no event carries more than the broker has *)
(* filled, and the closing one carries all of it.                          *)
LEMMA Stream ==
  ASSUME Inv
  PROVE  /\ StreamCumulative \in 0..filled
         /\ \A e \in Stored : Cumulative(e) <= StreamCumulative
<1>. DEFINE C == {Cumulative(e) : e \in Stored} \cup {0}
<1>1. filled \in Nat /\ Stored \subseteq BrokerEvents /\ \A e \in Stored : Happened(e)
  BY Members DEF Inv, BrokerInv
<1>2. \A e \in Stored : Cumulative(e) \in 0..filled
  BY <1>1, SharesType DEF Cumulative, Happened
<1>3. C \in SUBSET (0..filled) /\ C # {}
  BY <1>1, <1>2
<1>4. StreamCumulative = Max(C)
  BY DEF StreamCumulative
<1>. HIDE DEF C
<1>5. Max(C) \in C /\ \A k \in C : Max(C) >= k
  BY <1>1, <1>3, MaxOfNaturals
<1>6. \A e \in Stored : Cumulative(e) \in C
  BY DEF C
<1>7. \A k \in C : k \in Int
  BY <1>3
<1>. QED
  BY <1>3, <1>4, <1>5, <1>6, <1>7

(* Without a gap the stream has stored just the first executions. *)
LEMMA Gapless ==
  ASSUME Inv, ~StreamGap
  PROVE  Executions = 1..StreamCumulative
<1>1. StreamCumulative \in Nat /\ \A e \in Stored : Cumulative(e) <= StreamCumulative
  BY Stream, Members DEF Inv
<1>2. Executions \subseteq 1..Shares /\ Executions \subseteq Stored
  BY DEF Executions
<1>3. \A e \in Executions : Cumulative(e) = e
  BY <1>2, SharesType DEF Cumulative
<1>4. Executions \subseteq 1..StreamCumulative
  <2>1. \A e \in Executions : e \in 1..Shares /\ e <= StreamCumulative
    BY <1>1, <1>2, <1>3
  <2>. QED
    BY <1>1, <2>1, SharesType
<1>5. CASE StreamCumulative > 0
  <2>1. Cardinality(Executions) = StreamCumulative
    BY <1>5 DEF StreamGap
  <2>2. IsFiniteSet(1..StreamCumulative) /\ Cardinality(1..StreamCumulative) = StreamCumulative
    BY <1>1, <1>5, FS_Interval
  <2>. QED
    BY <1>4, <2>1, <2>2, FS_Subset
<1>6. CASE StreamCumulative = 0
  BY <1>4, <1>6
<1>. QED
  BY <1>1, <1>5, <1>6

(* What the order state says was filled. *)
LEMMA FilledFacts ==
  ASSUME Inv
  PROVE  /\ rest.filled \in 0..filled /\ StreamCumulative \in 0..filled /\ filled \in Nat
         /\ CumulativeFilled \in 0..filled
         /\ ActivityComplete => CumulativeFilled = acts /\ acts = rest.filled
         /\ ~ActivityComplete => /\ StreamCumulative <= CumulativeFilled
                                 /\ Recovered => rest.filled <= CumulativeFilled
         /\ Clean => /\ StreamCumulative <= CumulativeFilled
                     /\ Recovered => rest.filled <= CumulativeFilled
<1>1. /\ filled \in Nat /\ rest \in OrderType /\ StreamCumulative \in 0..filled /\ acts \in 0..Shares
      /\ rest.filled <= filled /\ (acts = 0 \/ acts = rest.filled)
  BY Stream, Members DEF Inv, CheckpointInv, Snapshot
<1>2. rest.filled \in 0..filled
  BY <1>1 DEF OrderType
<1>. DEFINE S == {rest.filled, StreamCumulative}
<1>3. S \in SUBSET (0..filled) /\ S # {}
  BY <1>1, <1>2
<1>4. Max(S) \in S /\ \A k \in S : Max(S) >= k
  BY <1>1, <1>3, MaxOfNaturals
<1>5. ActivityComplete => CumulativeFilled = acts /\ acts = rest.filled /\ Recovered
  BY <1>1 DEF ActivityComplete, CumulativeFilled
<1>6. ~ActivityComplete => /\ CumulativeFilled \in 0..filled /\ StreamCumulative <= CumulativeFilled
                           /\ Recovered => rest.filled <= CumulativeFilled
  <2>1. CASE ~ActivityComplete /\ Recovered
    <3>1. CumulativeFilled = Max(S)
      BY <2>1 DEF CumulativeFilled
    <3>. QED
      BY <1>1, <1>2, <1>3, <1>4, <3>1
  <2>2. CASE ~ActivityComplete /\ ~Recovered
    BY <1>1, <2>2 DEF CumulativeFilled
  <2>. QED
    BY <2>1, <2>2
<1>7. Clean => (Recovered => StreamCumulative <= rest.filled)
  BY <1>1, <1>2 DEF Clean
<1>8. CumulativeFilled \in 0..filled
  BY <1>2, <1>5, <1>6
<1>9. Clean => StreamCumulative <= CumulativeFilled /\ (Recovered => rest.filled <= CumulativeFilled)
  BY <1>1, <1>2, <1>5, <1>6, <1>7
<1>. QED
  BY <1>1, <1>2, <1>5, <1>6, <1>8, <1>9

(* How the order state knows of the end of the order. *)
LEMMA TerminalFacts ==
  ASSUME Inv
  PROVE  /\ TerminalTypes \subseteq {"fill", "canceled"}
         /\ "fill" \in TerminalTypes <=> Shares \in Stored \/ rest.status = "filled"
         /\ "canceled" \in TerminalTypes <=> Closing \in Stored \/ rest.status = "canceled"
         /\ "fill" \in TerminalTypes => filled = Shares /\ ~closed
         /\ "canceled" \in TerminalTypes => closed
         /\ Terminal => StreamCumulative = filled \/ (Recovered /\ rest.filled = filled)
<1>1. /\ filled \in 0..Shares /\ (closed => filled < Shares) /\ \A e \in Stored : Happened(e)
      /\ Snapshot(rest) /\ StreamCumulative \in 0..filled /\ rest \in OrderType
      /\ \A e \in Stored : Cumulative(e) <= StreamCumulative
  BY Members, Stream DEF Inv, BrokerInv, CheckpointInv
<1>2. /\ TerminalTypes \subseteq {"fill", "canceled"}
      /\ "fill" \in TerminalTypes <=> Shares \in Stored \/ rest.status = "filled"
      /\ "canceled" \in TerminalTypes <=> Closing \in Stored \/ rest.status = "canceled"
  BY DEF TerminalTypes
<1>3. Shares \in Stored \/ rest.status = "filled" => filled = Shares /\ ~closed
  BY <1>1, SharesType DEF Happened, Snapshot, OrderType
<1>4. Closing \in Stored \/ rest.status = "canceled" => closed
  BY <1>1 DEF Happened, Snapshot
<1>5. Shares \in Stored => StreamCumulative = filled
  BY <1>1, <1>3, SharesType DEF Cumulative
<1>6. Closing \in Stored => StreamCumulative = filled
  BY <1>1, SharesType DEF Cumulative
<1>7. rest.status \in RestTerminal => Recovered /\ rest.filled = filled
  BY <1>1, <1>3 DEF Recovered, NoOrder, RestTerminal, Snapshot
<1>8. Terminal => StreamCumulative = filled \/ (Recovered /\ rest.filled = filled)
  BY <1>2, <1>5, <1>6, <1>7 DEF Terminal, RestTerminal
<1>. QED
  BY <1>2, <1>3, <1>4, <1>8

(* A clean state counts what the stream and the last checkpoint know. *)
LEMMA CleanFollows == Inv => CleanIsTrue
<1>. SUFFICES ASSUME Inv, Clean
              PROVE  /\ CumulativeFilled <= filled
                     /\ Terminal => Status \in RestTerminal /\ CumulativeFilled = filled
                     /\ DetailComplete => Priced = 1..CumulativeFilled
  BY DEF CleanIsTrue
<1>0. /\ rest.filled \in 0..filled /\ StreamCumulative \in 0..filled /\ filled \in Nat
      /\ CumulativeFilled \in 0..filled
      /\ StreamCumulative <= CumulativeFilled /\ (Recovered => rest.filled <= CumulativeFilled)
  BY FilledFacts
<1>1. CumulativeFilled <= filled
  BY <1>0
<1>2. Terminal => Status \in RestTerminal
  BY TerminalFacts DEF Terminal, Status, RestTerminal
<1>3. Terminal => CumulativeFilled = filled
  BY <1>0, TerminalFacts
<1>4. DetailComplete => Priced = 1..CumulativeFilled
  <2>1. CASE ActivityComplete
    BY <2>1, FilledFacts DEF Priced
  <2>2. ASSUME DetailComplete, ~ActivityComplete PROVE Priced = 1..CumulativeFilled
    <3>1. ~StreamGap /\ ~(Recovered /\ rest.filled > StreamCumulative)
      BY <2>2 DEF DetailComplete
    <3>2. Priced = 1..StreamCumulative
      BY <2>2, <3>1, Gapless DEF Priced, StreamPriced
    <3>3. CumulativeFilled = StreamCumulative
      <4>1. CASE Recovered
        <5>. DEFINE S == {rest.filled, StreamCumulative}
        <5>1. S \in SUBSET (0..filled) /\ S # {}
          BY <1>0
        <5>2. Max(S) \in S
          BY <1>0, <5>1, MaxOfNaturals
        <5>3. CumulativeFilled = Max(S)
          BY <2>2, <4>1 DEF CumulativeFilled
        <5>. QED
          BY <1>0, <3>1, <4>1, <5>2, <5>3
      <4>2. CASE ~Recovered
        BY <2>2, <4>2 DEF CumulativeFilled
      <4>. QED
        BY <4>1, <4>2
    <3>. QED
      BY <3>2, <3>3
  <2>. QED
    BY <2>1, <2>2
<1>. QED
  BY <1>1, <1>2, <1>3, <1>4

(***************************************************************************)
(* broker_order_projection.py: a clean order state is never ahead of the   *)
(* broker, is all of it once it is terminal, and prices just the           *)
(* executions it counts, whatever was lost, repeated or reordered.         *)
(***************************************************************************)
THEOREM CleanStatesAreTrue == Spec => []CleanIsTrue
BY CleanFollows, Invariance, PTL

(* A classified receipt is in the events or in the last checkpoint. *)
LEMMA NothingIsForgotten == Inv => NothingForgotten
<1>. SUFFICES ASSUME Inv, Receipted, Clean, NEW i \in DOMAIN receipts
              PROVE  LET e == receipts[i].event IN
                     /\ Cumulative(e) <= CumulativeFilled
                     /\ e \in {Shares, Closing} => Terminal
  BY DEF NothingForgotten
<1>. DEFINE e == receipts[i].event
<1>1. /\ e \in BrokerEvents /\ receipts[i].disposition \in Dispositions
      /\ rest \in OrderType /\ recoveries \in Nat /\ receipts[i].high_water \in 0..recoveries
  BY Members DEF Inv, TypeInv, TypeOK
<1>2. receipts[i].disposition # "pending"
  BY DEF Receipted, Pending
<1>3. /\ StreamCumulative \in 0..filled /\ filled \in Nat /\ CumulativeFilled \in 0..filled
      /\ StreamCumulative <= CumulativeFilled /\ (Recovered => rest.filled <= CumulativeFilled)
      /\ rest.filled \in 0..filled
  BY FilledFacts
<1>. HIDE DEF e
<1>4. CASE receipts[i].disposition = "accepted"
  <2>1. e \in Stored
    BY <1>4 DEF Inv, ReceiptInv, e
  <2>2. Cumulative(e) <= StreamCumulative /\ Cumulative(e) \in Int
    <3>1. Cumulative(e) <= StreamCumulative
      BY <2>1, Stream
    <3>2. e \in Int
      BY <1>1, SharesType
    <3>. QED
      BY <1>3, <3>1, <3>2 DEF Cumulative
  <2>3. e \in {Shares, Closing} => Terminal
    BY <2>1, TerminalFacts DEF Terminal
  <2>. QED
    BY <1>3, <2>2, <2>3 DEF e
<1>5. CASE receipts[i].disposition = "quarantined"
  <2>1. QuarantineRecovered(i)
    BY <1>5 DEF Receipted, Unrecovered
  <2>2. Covers(rest, e) /\ Recovered
    BY <1>1, <1>5, <2>1 DEF Inv, ReceiptInv, CheckpointInv, QuarantineRecovered, e
  <2>3. Snapshot(rest)
    BY DEF Inv, CheckpointInv
  <2>4. CASE e = Closing
    <3>1. rest.status = "canceled" /\ rest.filled = filled
      BY <2>2, <2>3, <2>4 DEF Covers, Snapshot
    <3>2. Terminal
      BY <3>1, TerminalFacts DEF Terminal
    <3>. QED
      BY <1>3, <2>2, <2>4, <3>1, <3>2 DEF Cumulative, e
  <2>5. CASE e # Closing
    <3>1. e <= rest.filled /\ e \in 1..Shares
      BY <1>1, <2>2, <2>5, SharesType DEF Covers
    <3>2. e = Shares => rest.status = "filled"
      BY <1>1, <2>3, <3>1, SharesType DEF Snapshot, OrderType
    <3>3. e = Shares => Terminal
      BY <3>2, TerminalFacts DEF Terminal
    <3>4. Cumulative(e) <= CumulativeFilled
      BY <1>3, <2>2, <2>5, <3>1 DEF Cumulative
    <3>. QED
      BY <2>5, <3>3, <3>4 DEF e
  <2>. QED
    BY <2>4, <2>5
<1>. QED
  BY <1>1, <1>2, <1>4, <1>5 DEF Dispositions

(***************************************************************************)
(* trade_update_receipt_reasons: with no receipt pending, no quarantine    *)
(* unrecovered and no anomaly, all that was ever received is in the order  *)
(* state.                                                                  *)
(***************************************************************************)
THEOREM NothingReceivedIsLost == Spec => []NothingForgotten
BY NothingIsForgotten, Invariance, PTL

(* A checkpoint with activities leaves no anomaly but that of the averages. *)
LEMMA RecoveryRepairs == Inv => RecoveredIsClean
<1>. SUFFICES ASSUME Inv, Recovered, rest.filled >= StreamCumulative, acts # 0, ~AveragesDiffer
              PROVE  Clean
  BY DEF RecoveredIsClean
<1>1. /\ rest.filled \in 0..filled /\ StreamCumulative \in 0..filled /\ filled \in Nat
  BY FilledFacts
<1>2. acts = rest.filled /\ acts \in 0..Shares
  BY Members DEF Inv, CheckpointInv
<1>3. ~ActivitiesContradict(rest, acts) /\ ActivityComplete
  BY <1>2, SharesType DEF ActivitiesContradict, ActivityComplete
<1>4. ~RestAverageDiffers
  <2>1. SUFFICES ASSUME rest.filled > 0, rest.filled = Cardinality(Executions), ~StreamGap
                 PROVE  SameAverage(1..rest.filled, Executions)
    BY DEF RestAverageDiffers
  <2>2. Executions = 1..StreamCumulative
    BY <2>1, Gapless
  <2>3. StreamCumulative > 0
    <3>1. CASE StreamCumulative = 0
      <4>1. Executions = {}
        BY <2>2, <3>1
      <4>2. Cardinality(Executions) = 0
        BY <4>1, FS_EmptySet
      <4>. QED
        BY <2>1, <4>2
    <3>. QED
      BY <1>1, <3>1
  <2>4. Cardinality(Executions) = StreamCumulative
    BY <2>1, <2>3 DEF StreamGap
  <2>5. 1..rest.filled = Executions
    BY <2>1, <2>2, <2>4
  <2>. QED
    BY <2>5 DEF SameAverage
<1>5. Cardinality(TerminalTypes) <= 1
  <2>1. TerminalTypes = {} \/ TerminalTypes = {"fill"} \/ TerminalTypes = {"canceled"}
    BY TerminalFacts
  <2>2. \A x : Cardinality({x}) = 1
    BY FS_Singleton
  <2>3. Cardinality({}) = 0
    BY FS_EmptySet
  <2>. QED
    BY <2>1, <2>2, <2>3
<1>6. ~LateExecution
  <2>1. \A e \in Executions \ {Shares}, f \in {Shares, Closing} : At[e] <= At[f]
    <3>1. \A e \in Executions : e \in 1..Shares
      BY DEF Executions
    <3>2. \A e \in 1..Shares : e \in BrokerEvents /\ e <= Shares /\ e <= Closing
      BY SharesType
    <3>. QED
      BY <3>1, <3>2, SharesType, OrderAssumption
  <2>2. \A e \in BrokerEvents : At[e] \in Nat
    BY OrderAssumption
  <2>3. \A e \in Executions : e \in BrokerEvents
    BY SharesType DEF Executions
  <2>4. Shares \in BrokerEvents /\ Closing \in BrokerEvents
    BY SharesType
  <2>. QED
    BY <2>1, <2>2, <2>3, <2>4 DEF LateExecution
<1>. QED
  BY <1>1, <1>3, <1>4, <1>5, <1>6 DEF Clean

(***************************************************************************)
(* paper_stream_recovery_runtime.py: a checkpoint repairs the ledger, but  *)
(* for a broker that lists no activities or a stream whose average is not  *)
(* that of the activities yet.                                             *)
(***************************************************************************)
THEOREM RecoveriesRepair == Spec => []RecoveredIsClean
BY RecoveryRepairs, Invariance, PTL
-----------------------------------------------------------------------------
(* The bounds above as a formula of one state, for the state after a step. *)
FilledBounds ==
  /\ rest.filled \in 0..filled /\ StreamCumulative \in 0..filled /\ filled \in Nat
  /\ CumulativeFilled \in 0..filled
  /\ Clean => /\ StreamCumulative <= CumulativeFilled
              /\ Recovered => rest.filled <= CumulativeFilled

StreamBounds ==
  /\ StreamCumulative = 0 \/ \E e \in Stored : StreamCumulative = Cumulative(e)
  /\ \A e \in Stored : Cumulative(e) <= StreamCumulative

LEMMA FilledNow == Inv => FilledBounds
BY FilledFacts DEF FilledBounds

LEMMA FilledNext == Inv' => FilledBounds'
BY FilledNow, PTL

LEMMA StreamNow == Inv => StreamBounds
<1>. SUFFICES ASSUME Inv PROVE StreamBounds
  OBVIOUS
<1>. DEFINE C == {Cumulative(e) : e \in Stored} \cup {0}
<1>1. filled \in Nat /\ Stored \subseteq BrokerEvents /\ \A e \in Stored : Happened(e)
  BY Members DEF Inv, BrokerInv
<1>2. \A e \in Stored : Cumulative(e) \in 0..filled
  BY <1>1, SharesType DEF Cumulative, Happened
<1>3. C \in SUBSET (0..filled) /\ C # {}
  BY <1>1, <1>2
<1>4. Max(C) \in C
  BY <1>1, <1>3, MaxOfNaturals
<1>5. StreamCumulative \in C
  BY <1>4 DEF StreamCumulative
<1>. QED
  BY <1>5, Stream DEF StreamBounds

LEMMA StreamNext == Inv' => StreamBounds'
BY StreamNow, PTL

(* What the order state counts is never more than the order read last and  *)
(* the stream say.                                                         *)
LEMMA FilledIsKnown ==
  ASSUME Inv
  PROVE  CumulativeFilled = StreamCumulative \/ (Recovered /\ CumulativeFilled = rest.filled)
<1>1. rest.filled \in 0..filled /\ StreamCumulative \in 0..filled /\ filled \in Nat
  BY FilledFacts
<1>. DEFINE S == {rest.filled, StreamCumulative}
<1>2. S \in SUBSET (0..filled) /\ S # {}
  BY <1>1
<1>3. Max(S) \in S
  BY <1>1, <1>2, MaxOfNaturals
<1>4. ActivityComplete => CumulativeFilled = rest.filled /\ Recovered
  BY FilledFacts DEF ActivityComplete
<1>5. ~ActivityComplete /\ Recovered => CumulativeFilled = Max(S)
  BY DEF CumulativeFilled
<1>6. ~ActivityComplete /\ ~Recovered => CumulativeFilled = StreamCumulative
  BY DEF CumulativeFilled
<1>. QED
  BY <1>3, <1>4, <1>5, <1>6

(* The stream's count grows with its events. *)
LEMMA StreamGrows ==
  ASSUME Inv, Inv', Stored \subseteq Stored',
         \A e \in Stored : Cumulative(e)' = Cumulative(e)
  PROVE  StreamCumulative <= StreamCumulative'
<1>1. StreamBounds /\ StreamBounds' /\ FilledBounds /\ FilledBounds'
  BY StreamNow, StreamNext, FilledNow, FilledNext
<1>2. StreamCumulative' \in Nat /\ StreamCumulative \in Nat
  BY <1>1 DEF FilledBounds
<1>3. \A e \in Stored' : Cumulative(e)' <= StreamCumulative'
  BY <1>1 DEF StreamBounds
<1>4. CASE StreamCumulative = 0
  BY <1>2, <1>4
<1>5. CASE StreamCumulative # 0
  BY <1>1, <1>3, <1>5 DEF StreamBounds
<1>. QED
  BY <1>4, <1>5

(* The events, the last checkpoint and the end of the order never go back. *)
Onward ==
  /\ Stored \subseteq Stored' /\ \A e \in Stored : Cumulative(e)' = Cumulative(e)
  /\ Recovered => Recovered' /\ rest.filled <= rest'.filled
  /\ rest.status \in RestTerminal => rest'.status = rest.status

LEMMA NextOnward ==
  ASSUME Inv, [Next]_vars
  PROVE  Onward
<1>1. rest \in OrderType /\ rest.filled \in Nat
  BY Members, SharesType DEF Inv, OrderType
<1>2. ASSUME UNCHANGED <<filled, rest, events>> PROVE Onward
  BY <1>1, <1>2 DEF Onward, Stored, Cumulative, Recovered
<1>3. CASE Fill \/ EndOrder
  <2>1. UNCHANGED <<rest, events>>
    BY <1>3 DEF Fill, EndOrder, ledger
  <2>2. Closing \notin Stored
    BY <1>3 DEF Fill, EndOrder, Inv, BrokerInv, Happened
  <2>. QED
    BY <1>1, <2>1, <2>2 DEF Onward, Stored, Cumulative, Recovered
<1>4. CASE CompleteRecovery
  <2>1. UNCHANGED <<filled, events>>
    BY <1>4 DEF CompleteRecovery, broker
  <2>2. /\ rest'.status # "none" /\ rest.filled <= rest'.filled
        /\ rest.status \in RestTerminal => rest'.status = rest.status
    BY <1>4, Completed
  <2>. QED
    BY <2>1, <2>2 DEF Onward, Stored, Cumulative, Recovered, NoOrder
<1>5. CASE StoreEvent
  <2>1. UNCHANGED <<filled, rest>>
    BY <1>5 DEF StoreEvent, broker
  <2>2. Stored \subseteq Stored'
    BY <1>5, StoredGrows
  <2>. QED
    BY <1>1, <2>1, <2>2 DEF Onward, Cumulative, Recovered
<1>6. CASE Stop \/ RecoveryRefused \/ \E e \in BrokerEvents : Lose(e)
  BY <1>2, <1>6 DEF Stop, RecoveryRefused, Lose, broker, ledger
<1>7. CASE Open \/ Reprocess \/ Connect \/ ReadOrder \/ Checkpoint \/ Accept \/ Quarantine
  BY <1>2, <1>7 DEF Open, Reprocess, Connect, ReadOrder, Checkpoint, Accept, Quarantine,
     broker, ledger
<1>8. CASE \/ \E n \in 0..Shares : ReadActivities(n)
          \/ \E e \in BrokerEvents : Receive(e)
  BY <1>2, <1>8 DEF ReadActivities, Receive, broker, ledger
<1>9. CASE UNCHANGED vars
  BY <1>2, <1>9 DEF vars
<1>. QED
  BY <1>3, <1>4, <1>5, <1>6, <1>7, <1>8, <1>9 DEF Next, Owner

LEMMA TerminalOnward ==
  ASSUME Onward, Terminal
  PROVE  Terminal'
<1>1. Shares \in Stored \/ Closing \in Stored \/ rest.status \in RestTerminal
  BY DEF Terminal, TerminalTypes, RestTerminal
<1>2. Shares \in Stored' \/ Closing \in Stored' \/ rest'.status \in RestTerminal
  BY <1>1 DEF Onward
<1>. QED
  BY <1>2 DEF Terminal, TerminalTypes, RestTerminal

(* No step between two clean states takes anything back. *)
LEMMA CleanOnward ==
  ASSUME Inv, [Next]_vars, Clean, Clean'
  PROVE  CumulativeFilled <= CumulativeFilled' /\ (Terminal => Terminal')
<1>1. Inv' /\ Onward
  BY NextInv, NextOnward
<1>2. FilledBounds /\ FilledBounds'
  BY <1>1, FilledNow, FilledNext
<1>3. StreamCumulative <= StreamCumulative'
  BY <1>1, StreamGrows DEF Onward
<1>4. /\ StreamCumulative' <= CumulativeFilled'
      /\ Recovered' => rest'.filled <= CumulativeFilled'
      /\ StreamCumulative \in Nat /\ StreamCumulative' \in Nat /\ CumulativeFilled \in Nat
      /\ CumulativeFilled' \in Nat /\ rest.filled \in Nat /\ rest'.filled \in Nat
  BY <1>2 DEF FilledBounds
<1>t. \A a, b, c \in Nat : a <= b /\ b <= c => a <= c
  OBVIOUS
<1>5. StreamCumulative <= CumulativeFilled'
  BY <1>3, <1>4, <1>t
<1>6. Recovered => rest.filled <= CumulativeFilled'
  <2>1. Recovered => Recovered' /\ rest.filled <= rest'.filled
    BY <1>1 DEF Onward
  <2>. QED
    BY <1>4, <2>1, <1>t
<1>7. CumulativeFilled <= CumulativeFilled'
  BY <1>5, <1>6, FilledIsKnown
<1>. QED
  BY <1>1, <1>7, TerminalOnward

(***************************************************************************)
(* broker_order_projection.py: a clean order state never takes back a fill *)
(* or an end that an earlier clean one has told of.                        *)
(***************************************************************************)
THEOREM CleanStatesAreMonotone == Spec => CleanIsMonotone
<1>1. Inv /\ [Next]_vars =>
        [(Clean /\ Clean') =>
           CumulativeFilled <= CumulativeFilled' /\ (Terminal => Terminal')]_vars
  BY CleanOnward
<1>. QED
  BY <1>1, Invariance, PTL DEF Spec, CleanIsMonotone
=============================================================================
