------------------------ MODULE HermesDeliveryProofs ------------------------
(***************************************************************************)
(* Theorems about HermesDelivery, for any threads of messages, any number  *)
(* of attempts and redrives, and any times: what the chat holds agrees     *)
(* with what the store records, however often the worker dies.             *)
(***************************************************************************)
EXTENDS HermesDelivery, SequenceTheorems, TLAPS

Outcomes == {"open", "retry"} \cup DeadReasons

(* What the store and the chat hold of one delivery.                       *)
DeliveryInv(d) ==
  /\ log[d] # <<>> => d \in stored
  /\ acked[d] # 0 =>
       /\ Last(d) = "open" /\ acked[d] = Len(log[d])
       /\ \E m \in posted[d] : m.attempt = acked[d]
  /\ Last(d) = "market_event_ineligible" => d[1] \in Market
  /\ Last(d) = "telegram_timeout" /\ IsRoot(d) /\ Copy(d) \in Deliveries =>
       Copy(d) \in Occurred
  /\ ~IsRoot(d) => \A m \in posted[d] :
       acked[RootOf(d)] # 0 /\ m.reply = acked[RootOf(d)]

Busy == pc \in {"suppressing", "sending", "sent"}

(* The worker holds the claim it works on, and sends market messages only  *)
(* while they are young enough to be in the chat in time.                  *)
WorkerInv ==
  /\ Busy => HoldsClaim(current) /\ (IsRoot(current) \/ acked[RootOf(current)] # 0)
  /\ pc = "sent" => \E m \in posted[current] : m.attempt = Len(log[current])
  /\ pc = "suppressing" => current[1] \in Market
  /\ Sending /\ current[1] \in Market => age[current] + limit <= MaxAge + SendLimit

(* A copy is in the store only when all earlier generations are dead.      *)
CopyInv ==
  \A d, e \in Deliveries : d[1] = e[1] /\ d[2] < e[2] /\ e \in stored =>
    Dead(d) /\ acked[d] = 0

(* A request under way asks for what its attempt asked for, and expires    *)
(* before its message is older than any that reaches the chat in time.     *)
LateInv ==
  \A m \in late :
    /\ ~IsRoot(m.delivery) => /\ acked[RootOf(m.delivery)] # 0
                              /\ m.message.reply = acked[RootOf(m.delivery)]
    /\ m.delivery[1] \in Market =>
         age[m.delivery] + m.left <= MaxAge + SendLimit + Transit

LateOK ==
  /\ late \subseteq [delivery : Deliveries, message : Messages, left : 0..Transit]
  /\ LateInv

Inv ==
  /\ TypeOK
  /\ LateInv
  /\ \A d \in Deliveries : DeliveryInv(d)
  /\ WorkerInv
  /\ CopyInv
----------------------------------------------------------------------------
(* The thread of a delivery is one root's, whose first generation exists.  *)
LEMMA Roots == ASSUME NEW d \in Deliveries
               PROVE  /\ RootOf(d) \in Deliveries /\ IsRoot(RootOf(d))
                      /\ d[1] \in Sources /\ d[2] \in Nat /\ d = <<d[1], d[2]>>
<1>1. d \in Sources \X (0..MaxRedrives) /\ MaxRedrives \in Nat
  BY CountAssumption DEF Deliveries
<1>2. Root[d[1]] \in Sources /\ Root[Root[d[1]]] = Root[d[1]]
  BY <1>1, RootAssumption
<1>3. 0 \in 0..MaxRedrives
  BY <1>1
<1>. QED
  BY <1>1, <1>2, <1>3 DEF RootOf, IsRoot, Deliveries

LEMMA First == ASSUME NEW s \in Sources
               PROVE  <<s, 0>> \in Deliveries
BY CountAssumption DEF Deliveries

(* The order only grows.                                                   *)
LEMMA OrderGrows ==
  ASSUME TypeOK, NEW d \in Deliveries, order' = Append(order, d)
  PROVE  /\ order' \in Seq(Deliveries) /\ Occurred' = Occurred \cup {d}
         /\ Occurred \subseteq Occurred'
<1>1. order \in Seq(Deliveries)
  BY DEF TypeOK
<1>2. /\ order' \in Seq(Deliveries) /\ Len(order') = Len(order) + 1
      /\ DOMAIN order' = 1..Len(order) + 1 /\ DOMAIN order = 1..Len(order)
      /\ \A i \in 1..Len(order) : order'[i] = order[i]
      /\ order'[Len(order) + 1] = d /\ Len(order) \in Nat
  BY <1>1
<1>3. \A i \in 1..Len(order) : i \in 1..Len(order) + 1
  BY <1>2
<1>4. Len(order) + 1 \in 1..Len(order) + 1
  BY <1>2
<1>5. \A i \in 1..Len(order) + 1 : i \in 1..Len(order) \/ i = Len(order) + 1
  BY <1>2
<1>6. Occurred' = Occurred \cup {d}
  BY <1>2, <1>3, <1>4, <1>5, Zenon DEF Occurred
<1>. QED
  BY <1>2, <1>6

(* A delivery with an outcome has attempts, and the last of them is in its *)
(* log.                                                                    *)
LEMMA LogLast ==
  ASSUME TypeOK, NEW d \in Deliveries
  PROVE  /\ log[d] \in Seq(Outcomes) /\ Len(log[d]) \in Nat
         /\ Last(d) # "none" <=> log[d] # <<>>
         /\ log[d] # <<>> => /\ Len(log[d]) \in 1..MaxAttempts
                             /\ Last(d) = log[d][Len(log[d])] /\ Last(d) \in Outcomes
<1>1. log[d] \in Seq(Outcomes) /\ Len(log[d]) <= MaxAttempts
  BY DEF TypeOK, Outcomes
<1>2. Len(log[d]) \in Nat /\ MaxAttempts \in Nat
  BY <1>1, CountAssumption
<1>3. log[d] # <<>> => Len(log[d]) \in 1..MaxAttempts
  BY <1>1, <1>2
<1>4. log[d] # <<>> => log[d][Len(log[d])] \in Outcomes
  BY <1>1, <1>3, <1>2
<1>5. "none" \notin Outcomes
  BY DEF Outcomes, DeadReasons
<1>. QED
  BY <1>1, <1>2, <1>3, <1>4, <1>5 DEF Last

(* An attempt is added to the log of one delivery.                         *)
LEMMA LogGrows ==
  ASSUME TypeOK, NEW d \in Deliveries, Len(log[d]) < MaxAttempts,
         log' = [log EXCEPT ![d] = Append(@, "open")]
  PROVE  /\ log' \in [Deliveries -> Seq(Outcomes)]
         /\ \A e \in Deliveries : Len(log'[e]) <= MaxAttempts
         /\ \A e \in Deliveries \ {d} : log'[e] = log[e] /\ Last(e)' = Last(e)
         /\ log'[d] # <<>> /\ Last(d)' = "open"
<1>1. log \in [Deliveries -> Seq(Outcomes)] /\ \A e \in Deliveries : Len(log[e]) <= MaxAttempts
  BY DEF TypeOK, Outcomes
<1>2. log[d] \in Seq(Outcomes) /\ "open" \in Outcomes /\ Len(log[d]) \in Nat
  BY <1>1 DEF Outcomes
<1>3. log'[d] = Append(log[d], "open") /\ \A e \in Deliveries \ {d} : log'[e] = log[e]
  BY <1>1
<1>4. /\ log'[d] \in Seq(Outcomes) /\ Len(log'[d]) = Len(log[d]) + 1
      /\ log'[d][Len(log'[d])] = "open"
  BY <1>2, <1>3
<1>5. log'[d] # <<>>
  BY <1>2, <1>4
<1>6. Len(log'[d]) <= MaxAttempts
  BY <1>2, <1>4, CountAssumption
<1>7. log' \in [Deliveries -> Seq(Outcomes)]
  BY <1>1, <1>2
<1>. QED
  BY <1>1, <1>3, <1>4, <1>5, <1>6, <1>7 DEF Last

(* The outcome of the last attempt of one delivery is recorded.            *)
LEMMA LogEnds ==
  ASSUME TypeOK, NEW d \in Deliveries, log[d] # <<>>, NEW x \in Outcomes,
         log' = [log EXCEPT ![d][Len(log[d])] = x]
  PROVE  /\ log' \in [Deliveries -> Seq(Outcomes)]
         /\ \A e \in Deliveries : Len(log'[e]) <= MaxAttempts
         /\ \A e \in Deliveries \ {d} : log'[e] = log[e] /\ Last(e)' = Last(e)
         /\ log'[d] # <<>> /\ Last(d)' = x
<1>1. log \in [Deliveries -> Seq(Outcomes)] /\ \A e \in Deliveries : Len(log[e]) <= MaxAttempts
  BY DEF TypeOK, Outcomes
<1>2. log[d] \in Seq(Outcomes) /\ Len(log[d]) \in 1..Len(log[d]) /\ Len(log[d]) \in Nat
  BY <1>1, LogLast
<1>3. /\ log'[d] = [log[d] EXCEPT ![Len(log[d])] = x]
      /\ \A e \in Deliveries \ {d} : log'[e] = log[e]
  BY <1>1
<1>4. /\ log'[d] \in Seq(Outcomes) /\ Len(log'[d]) = Len(log[d])
      /\ log'[d][Len(log'[d])] = x
  BY <1>2, <1>3
<1>5. log'[d] # <<>>
  BY <1>2, <1>4
<1>7. log' \in [Deliveries -> Seq(Outcomes)]
  BY <1>1, <1>3, <1>4
<1>. QED
  BY <1>1, <1>3, <1>4, <1>5, <1>7 DEF Last
----------------------------------------------------------------------------
LEMMA InitInv == Init => Inv
<1>. SUFFICES ASSUME Init PROVE Inv
  OBVIOUS
<1>1. \A d \in Deliveries : log[d] = <<>> /\ acked[d] = 0 /\ posted[d] = {}
  BY DEF Init
<1>2. \A d \in Deliveries : Last(d) = "none"
  BY <1>1 DEF Last
<1>3. 0 \in 0..AgeCap /\ 0 \in 0..SendLimit /\ 0 \in 0..MaxAttempts /\ 0 \in 0..Lease
  BY TimeAssumption, CountAssumption DEF AgeCap
<1>4. Len(<<>>) <= MaxAttempts /\ Occurred = {}
  BY CountAssumption DEF Init, Occurred
<1>5. TypeOK
  BY <1>1, <1>3, <1>4 DEF TypeOK, Init
<1>6. \A d \in Deliveries : DeliveryInv(d)
  BY <1>1, <1>2 DEF DeliveryInv
<1>. QED
  BY <1>5, <1>6 DEF Inv, LateInv, WorkerInv, CopyInv, Init, Busy, Sending

(* Steps that leave the attempts, what the chat holds and the worker alone.*)
LEMMA OccurStep == ASSUME Inv, NEW s \in Sources, Occur(s), LateOK'
                   PROVE  Inv'
<1>. USE DEF Inv, chat, Occur, store, worker
<1>1. <<s, 0>> \in Deliveries
  BY First
<1>2. order' \in Seq(Deliveries) /\ Occurred \subseteq Occurred'
  BY <1>1, OrderGrows
<1>3. TypeOK'
  BY <1>2 DEF TypeOK, LateOK
<1>4. \A d \in Deliveries : DeliveryInv(d)'
  BY <1>2 DEF DeliveryInv, Last
<1>5. WorkerInv' /\ CopyInv'
  BY DEF WorkerInv, CopyInv, Busy, Sending, HoldsClaim, Dead, Last
<1>. QED
  BY <1>3, <1>4, <1>5 DEF LateOK

LEMMA ProjectStep == ASSUME Inv, NEW s \in Sources, Project(s), LateOK'
                     PROVE  Inv'
<1>. USE DEF Inv, chat, Project, worker
<1>1. TypeOK'
  BY DEF TypeOK, Occurred, LateOK
<1>2. \A d \in Deliveries : DeliveryInv(d)'
  BY DEF DeliveryInv, Last, Occurred
<1>3. WorkerInv'
  BY DEF WorkerInv, Busy, Sending, HoldsClaim, Last
<1>4. \A d \in Deliveries : d[2] \in Nat
  BY Roots
<1>5. CopyInv'
  BY <1>4 DEF CopyInv, Dead, Last
<1>. QED
  BY <1>1, <1>2, <1>3, <1>5 DEF LateOK

LEMMA RedriveStep == ASSUME Inv, NEW d \in Deliveries, Redrive(d), LateOK'
                     PROVE  Inv'
<1>. USE DEF Inv, chat, Redrive, worker
<1>1. Copy(d) \in Occurred /\ Last(d) = "telegram_timeout"
  BY DEF DeliveryInv
<1>2. TypeOK'
  BY <1>1 DEF TypeOK, Occurred, LateOK
<1>3. \A e \in Deliveries : DeliveryInv(e)'
  BY DEF DeliveryInv, Last, Occurred
<1>4. WorkerInv'
  BY DEF WorkerInv, Busy, Sending, HoldsClaim, Last
<1>5. Dead(d) /\ acked[d] = 0 /\ d \in stored
  BY <1>1, LogLast DEF Dead, DeadReasons, DeliveryInv
<1>6. CopyInv'
  <2>. SUFFICES ASSUME NEW b \in Deliveries, NEW e \in Deliveries,
                       b[1] = e[1], b[2] < e[2], e \in stored'
                PROVE  Dead(b) /\ acked[b] = 0
    BY DEF CopyInv, Dead, Last
  <2>1. CASE e \in stored
    BY <2>1 DEF CopyInv
  <2>2. CASE e = Copy(d)
    <3>1. b[1] = d[1] /\ b[2] < d[2] + 1
      BY <2>2 DEF Copy
    <3>2. b[2] \in Nat /\ d[2] \in Nat /\ b = <<b[1], b[2]>> /\ d = <<d[1], d[2]>>
      BY Roots
    <3>3. b[2] = d[2] \/ b[2] < d[2]
      BY <3>1, <3>2
    <3>4. CASE b[2] = d[2]
      BY <3>1, <3>2, <3>4, <1>5
    <3>5. CASE b[2] < d[2]
      BY <3>1, <3>5, <1>5 DEF CopyInv
    <3>. QED
      BY <3>3, <3>4, <3>5
  <2>. QED
    BY <2>1, <2>2
<1>. QED
  BY <1>2, <1>3, <1>4, <1>6 DEF LateOK

(* The process starts, dies, or loses its lease.                           *)
LEMMA ProcessStep == ASSUME Inv, Start \/ Crash \/ LeaseLost, LateOK'
                     PROVE  Inv'
<1>. USE DEF Inv, chat, Start, Crash, LeaseLost, store
<1>1. pc' \in {"down", "idle"} /\ limit' \in 0..SendLimit
  BY TimeAssumption DEF TypeOK
<1>2. UNCHANGED <<order, stored, log, acked, age, wait, posted, current>>
  OBVIOUS
<1>3. TypeOK'
  BY <1>1, <1>2 DEF TypeOK, Occurred, LateOK
<1>4. \A d \in Deliveries : DeliveryInv(d)'
  BY <1>2 DEF DeliveryInv, Last, Occurred
<1>5. WorkerInv' /\ CopyInv'
  BY <1>1, <1>2 DEF WorkerInv, CopyInv, Busy, Sending, Dead, Last
<1>. QED
  BY <1>3, <1>4, <1>5 DEF LateOK

LEMMA ClaimStep == ASSUME Inv, Claim, LateOK'
                   PROVE  Inv'
<1>. USE DEF Inv
<1>1. PICK d \in Deliveries :
        /\ Claimable(d)
        /\ log' = [log EXCEPT ![d] = Append(@, "open")]
        /\ wait' = [wait EXCEPT ![d] = Lease]
        /\ current' = d
        /\ pc' = IF Eligible(d) THEN "sending" ELSE "suppressing"
        /\ limit' = IF Eligible(d) THEN SendLimit ELSE 0
  <2>1. \A i \in DOMAIN order : order[i] \in Deliveries
    BY DEF TypeOK
  <2>. QED
    BY <2>1 DEF Claim
<1>2. UNCHANGED <<order, stored, acked, age, posted>>
  BY DEF Claim, chat
<1>3. /\ log' \in [Deliveries -> Seq(Outcomes)]
      /\ \A e \in Deliveries : Len(log'[e]) <= MaxAttempts
      /\ \A e \in Deliveries \ {d} : log'[e] = log[e] /\ Last(e)' = Last(e)
      /\ log'[d] # <<>> /\ Last(d)' = "open"
  BY <1>1, LogGrows DEF Claimable
<1>4. d \in stored /\ acked[d] = 0 /\ ~Dead(d) /\ (IsRoot(d) \/ acked[RootOf(d)] # 0)
  BY <1>1 DEF Claimable, Ended
<1>5. TypeOK'
  <2>1. wait' \in [Deliveries -> (0..Lease) \cup (0..RetryDelay)]
    BY <1>1, TimeAssumption DEF TypeOK
  <2>2. pc' \in {"down", "idle", "suppressing", "sending", "sent"} /\ limit' \in 0..SendLimit
    BY <1>1, TimeAssumption
  <2>3. current' \in Deliveries /\ Occurred' = Occurred
    BY <1>1, <1>2 DEF Occurred
  <2>4. log' \in [Deliveries -> Seq({"open", "retry"} \cup DeadReasons)]
    BY <1>3 DEF Outcomes
  <2>. QED
    BY <1>2, <1>3, <2>1, <2>2, <2>3, <2>4 DEF TypeOK, LateOK
<1>6. \A e \in Deliveries : DeliveryInv(e)'
  <2>. TAKE e \in Deliveries
  <2>1. CASE e = d
    BY <1>2, <1>3, <1>4, <2>1 DEF DeliveryInv
  <2>2. CASE e # d
    BY <1>2, <1>3, <2>2 DEF DeliveryInv, Occurred
  <2>. QED
    BY <2>1, <2>2
<1>7. WorkerInv'
  <2>1. HoldsClaim(current)' /\ (IsRoot(current) \/ acked[RootOf(current)] # 0)'
    BY <1>1, <1>2, <1>3, <1>4 DEF HoldsClaim, IsRoot, RootOf
  <2>2. pc' = "suppressing" => d[1] \in Market
    BY <1>1 DEF Eligible
  <2>3. Sending' /\ d[1] \in Market => age[d] <= MaxAge /\ limit' = SendLimit
    BY <1>1, TimeAssumption DEF Eligible, Sending
  <2>4. age[d] \in Int /\ MaxAge \in Int /\ SendLimit \in Int /\ pc' # "sent"
    BY <1>1, TimeAssumption DEF TypeOK, AgeCap
  <2>5. \A a, b, c \in Int : a <= b => a + c <= b + c
    OBVIOUS
  <2>6. (Sending /\ current[1] \in Market => age[current] + limit <= MaxAge + SendLimit)'
    BY <1>1, <1>2, <2>3, <2>4, <2>5
  <2>. QED
    BY <1>1, <2>1, <2>2, <2>4, <2>6 DEF WorkerInv
<1>8. CopyInv'
  BY <1>2, <1>3, <1>4 DEF CopyInv, Dead
<1>. QED
  BY <1>5, <1>6, <1>7, <1>8 DEF LateOK

LEMMA FailStep ==
  ASSUME Inv, NEW d \in Deliveries, NEW reason \in DeadReasons, NEW terminal \in BOOLEAN,
         Fail(d, reason, terminal),
         reason = "market_event_ineligible" => d[1] \in Market, LateOK'
  PROVE  Inv'
<1>. USE DEF Inv
<1>. DEFINE dead == terminal \/ Len(log[d]) >= MaxAttempts
            x == IF dead THEN reason ELSE "retry"
            redrivable == reason = "telegram_timeout" /\ IsRoot(d) /\ Copy(d) \in Deliveries
<1>1. /\ HoldsClaim(d) /\ x \in Outcomes
      /\ log' = [log EXCEPT ![d][Len(log[d])] = x]
      /\ wait' = [wait EXCEPT ![d] = IF dead THEN 0 ELSE RetryDelay]
      /\ order' = IF dead /\ redrivable THEN Append(order, Copy(d)) ELSE order
      /\ pc' = "idle" /\ limit' = 0
      /\ UNCHANGED <<stored, acked, age, posted, current>>
  BY DEF Fail, Outcomes
<1>2. log[d] # <<>> /\ acked[d] = 0 /\ ~Dead(d)
  BY <1>1, LogLast DEF HoldsClaim, Dead, DeadReasons
<1>3. x \in {reason, "retry"} /\ (x = "telegram_timeout" => dead /\ reason = x)
  OBVIOUS
<1>4. order' \in Seq(Deliveries) /\ Occurred \subseteq Occurred'
      /\ (dead /\ redrivable => Copy(d) \in Occurred')
  <2>1. CASE dead /\ redrivable
    <3>1. Copy(d) \in Deliveries /\ order' = Append(order, Copy(d))
      BY <1>1, <2>1
    <3>. QED
      BY <3>1, OrderGrows
  <2>2. CASE ~(dead /\ redrivable)
    BY <1>1, <2>2 DEF TypeOK, Occurred
  <2>. QED
    BY <2>1, <2>2
<1>5. wait' \in [Deliveries -> (0..Lease) \cup (0..RetryDelay)] /\ limit' \in 0..SendLimit
  BY <1>1, TimeAssumption DEF TypeOK
<1>. HIDE DEF dead, redrivable, x
<1>6. /\ log' \in [Deliveries -> Seq(Outcomes)]
      /\ \A e \in Deliveries : Len(log'[e]) <= MaxAttempts
      /\ \A e \in Deliveries \ {d} : log'[e] = log[e] /\ Last(e)' = Last(e)
      /\ log'[d] # <<>> /\ Last(d)' = x
  BY <1>1, <1>2, LogEnds
<1>7. TypeOK'
  BY <1>1, <1>4, <1>5, <1>6 DEF TypeOK, Outcomes, LateOK
<1>8. \A e \in Deliveries : DeliveryInv(e)'
  <2>. TAKE e \in Deliveries
  <2>1. CASE e = d
    <3>1. (log[d] # <<>> => d \in stored)'
      BY <1>1, <1>2 DEF DeliveryInv
    <3>2. acked'[d] = 0
      BY <1>1, <1>2
    <3>3. Last(d)' = "market_event_ineligible" => d[1] \in Market
      BY <1>3, <1>6
    <3>4. (Last(d) = "telegram_timeout" /\ IsRoot(d) /\ Copy(d) \in Deliveries =>
            Copy(d) \in Occurred)'
      BY <1>3, <1>4, <1>6 DEF redrivable, IsRoot, Copy
    <3>5. (~IsRoot(d) => \A m \in posted[d] :
            acked[RootOf(d)] # 0 /\ m.reply = acked[RootOf(d)])'
      BY <1>1 DEF DeliveryInv, IsRoot, RootOf
    <3>. QED
      BY <2>1, <3>1, <3>2, <3>3, <3>4, <3>5 DEF DeliveryInv
  <2>2. CASE e # d
    BY <1>1, <1>4, <1>6, <2>2 DEF DeliveryInv
  <2>. QED
    BY <2>1, <2>2
<1>9. WorkerInv'
  BY <1>1 DEF WorkerInv, Busy, Sending
<1>10. CopyInv'
  BY <1>1, <1>2, <1>6 DEF CopyInv, Dead
<1>. QED
  BY <1>7, <1>8, <1>9, <1>10 DEF LateOK

(* The failures of the worker are failures of the delivery it holds, and   *)
(* only market messages are suppressed.                                    *)
LEMMA FailureStep == ASSUME Inv, Suppress \/ SendTimeout \/ SendRejected, LateOK'
                     PROVE  Inv'
<1>0. current \in Deliveries
  BY DEF Inv, TypeOK
<1>1. CASE Suppress
  <2>1. current[1] \in Market /\ Fail(current, "market_event_ineligible", TRUE)
    BY <1>1 DEF Inv, WorkerInv, Suppress
  <2>. QED
    BY <1>0, <2>1, FailStep DEF DeadReasons
<1>2. CASE SendTimeout
  <2>1. Fail(current, "telegram_timeout", FALSE)
    BY <1>2 DEF SendTimeout
  <2>. QED
    BY <1>0, <2>1, FailStep DEF DeadReasons
<1>3. CASE SendRejected
  <2>1. Fail(current, "telegram_rejected", TRUE)
    BY <1>3 DEF SendRejected
  <2>. QED
    BY <1>0, <2>1, FailStep DEF DeadReasons
<1>. QED
  BY <1>1, <1>2, <1>3

(* An attempt under its claim asks for a message of the right form. *)
LEMMA MessageFits ==
  ASSUME TypeOK, NEW d \in Deliveries, HoldsClaim(d)
  PROVE  Message(d) \in Messages
<1>1. Len(log[d]) \in 1..MaxAttempts
  BY LogLast DEF HoldsClaim
<1>2. RootOf(d) \in Deliveries
  BY Roots
<1>3. acked[RootOf(d)] \in 0..MaxAttempts /\ 0 \in 0..MaxAttempts
  BY <1>2, CountAssumption DEF TypeOK
<1>. QED
  BY <1>1, <1>3 DEF Message, Messages

LEMMA PostStep == ASSUME Inv, Post, LateOK'
                  PROVE  Inv'
<1>. USE DEF Inv
<1>. DEFINE d == current
            m == Message(d)
<1>1. /\ pc = "sending" /\ pc' = "sent" /\ d \in Deliveries
      /\ posted' = [posted EXCEPT ![d] = @ \cup {m}]
      /\ UNCHANGED <<order, stored, log, acked, age, wait, current, limit>>
  BY DEF Post, TypeOK, store
<1>2. HoldsClaim(d) /\ (IsRoot(d) \/ acked[RootOf(d)] # 0)
  BY <1>1 DEF WorkerInv, Busy
<1>4. m \in Messages
  BY <1>1, <1>2, MessageFits
<1>5. m.attempt = Len(log[d]) /\ (~IsRoot(d) => m.reply = acked[RootOf(d)])
  BY DEF Message
<1>. HIDE DEF m, d
<1>6. /\ posted'[d] = posted[d] \cup {m}
      /\ \A e \in Deliveries \ {d} : posted'[e] = posted[e]
      /\ posted' \in [Deliveries -> SUBSET Messages]
  BY <1>1, <1>4 DEF TypeOK
<1>7. TypeOK'
  BY <1>1, <1>6 DEF TypeOK, Occurred, LateOK
<1>8. \A e \in Deliveries : DeliveryInv(e)'
  <2>. TAKE e \in Deliveries
  <2>1. CASE e = d
    <3>1. acked[d] = 0
      BY <1>2 DEF HoldsClaim
    <3>2. ~IsRoot(d) => \A n \in posted'[d] :
            acked[RootOf(d)] # 0 /\ n.reply = acked[RootOf(d)]
      BY <1>1, <1>2, <1>5, <1>6 DEF DeliveryInv
    <3>. QED
      BY <1>1, <2>1, <3>1, <3>2 DEF DeliveryInv, Last, Occurred, IsRoot, RootOf
  <2>2. CASE e # d
    BY <1>1, <1>6, <2>2 DEF DeliveryInv, Last, Occurred
  <2>. QED
    BY <2>1, <2>2
<1>9. WorkerInv'
  <2>1. HoldsClaim(current)' /\ (IsRoot(current) \/ acked[RootOf(current)] # 0)'
    BY <1>1, <1>2 DEF HoldsClaim, Last, IsRoot, RootOf, d
  <2>2. (\E n \in posted[current] : n.attempt = Len(log[current]))'
    BY <1>1, <1>5, <1>6 DEF d
  <2>3. (Sending /\ current[1] \in Market => age[current] + limit <= MaxAge + SendLimit)'
    BY <1>1 DEF WorkerInv, Sending
  <2>. QED
    BY <1>1, <2>1, <2>2, <2>3 DEF WorkerInv
<1>10. CopyInv'
  BY <1>1 DEF CopyInv, Dead, Last
<1>. QED
  BY <1>7, <1>8, <1>9, <1>10 DEF LateOK

(* A message that arrives late changes the chat of one delivery. *)
LEMMA ArriveStep == ASSUME Inv, NEW m \in late, Arrive(m), LateOK'
                    PROVE  Inv'
<1>. USE DEF Inv
<1>. DEFINE d == m.delivery
<1>1. d \in Deliveries /\ m.message \in Messages
  BY DEF TypeOK
<1>2. /\ posted' = [posted EXCEPT ![d] = @ \cup {m.message}]
      /\ UNCHANGED <<order, stored, log, acked, age, wait, pc, current, limit>>
  BY DEF Arrive, store, worker
<1>3. ~IsRoot(d) => acked[RootOf(d)] # 0 /\ m.message.reply = acked[RootOf(d)]
  BY DEF LateInv
<1>. HIDE DEF d
<1>4. /\ posted'[d] = posted[d] \cup {m.message}
      /\ \A e \in Deliveries \ {d} : posted'[e] = posted[e]
      /\ \A e \in Deliveries : posted[e] \subseteq posted'[e]
      /\ posted' \in [Deliveries -> SUBSET Messages]
  BY <1>1, <1>2 DEF TypeOK
<1>5. TypeOK'
  <2>1. Occurred' = Occurred
    BY <1>2 DEF Occurred
  <2>. QED
    BY <1>2, <1>4, <2>1 DEF TypeOK, LateOK
<1>6. \A e \in Deliveries : DeliveryInv(e)'
  <2>. TAKE e \in Deliveries
  <2>1. (~IsRoot(e) => \A n \in posted[e] :
          acked[RootOf(e)] # 0 /\ n.reply = acked[RootOf(e)])'
    BY <1>2, <1>3, <1>4 DEF DeliveryInv, IsRoot, RootOf
  <2>2. (acked[e] # 0 => /\ Last(e) = "open" /\ acked[e] = Len(log[e])
                         /\ \E n \in posted[e] : n.attempt = acked[e])'
    BY <1>2, <1>4 DEF DeliveryInv, Last
  <2>. QED
    BY <1>2, <2>1, <2>2 DEF DeliveryInv, Last, Occurred
<1>7. WorkerInv'
  <2>1. current \in Deliveries
    BY DEF TypeOK
  <2>2. (pc = "sent" => \E n \in posted[current] : n.attempt = Len(log[current]))'
    BY <1>2, <1>4, <2>1 DEF WorkerInv
  <2>. QED
    BY <1>2, <2>2 DEF WorkerInv, Busy, Sending, HoldsClaim, Last, IsRoot, RootOf
<1>8. CopyInv'
  BY <1>2 DEF CopyInv, Dead, Last
<1>. QED
  BY <1>5, <1>6, <1>7, <1>8 DEF LateOK

LEMMA AcknowledgeStep == ASSUME Inv, Acknowledge, LateOK'
                         PROVE  Inv'
<1>. USE DEF Inv
<1>. DEFINE d == current
<1>1. /\ pc = "sent" /\ pc' = "idle" /\ limit' = 0 /\ d \in Deliveries /\ HoldsClaim(d)
      /\ acked' = [acked EXCEPT ![d] = Len(log[d])]
      /\ UNCHANGED <<order, stored, log, age, wait, posted, current>>
  BY DEF Acknowledge, TypeOK, chat
<1>2. acked[d] = 0 /\ Last(d) = "open" /\ ~Dead(d) /\ Len(log[d]) \in 1..MaxAttempts
  BY <1>1, LogLast DEF HoldsClaim, Dead, DeadReasons
<1>3. \E m \in posted[d] : m.attempt = Len(log[d])
  BY <1>1 DEF WorkerInv
<1>. HIDE DEF d
<1>4. /\ acked'[d] = Len(log[d]) /\ acked' \in [Deliveries -> 0..MaxAttempts]
      /\ \A e \in Deliveries \ {d} : acked'[e] = acked[e]
  BY <1>1, <1>2 DEF TypeOK
<1>5. TypeOK'
  <2>1. 0 \in 0..SendLimit
    BY TimeAssumption
  <2>. QED
    BY <1>1, <1>4, <2>1 DEF TypeOK, Occurred, LateOK
<1>6. \A e \in Deliveries : DeliveryInv(e)'
  <2>. TAKE e \in Deliveries
  <2>1. (log[e] # <<>> => e \in stored)'
    BY <1>1 DEF DeliveryInv
  <2>2. (acked[e] # 0 => /\ Last(e) = "open" /\ acked[e] = Len(log[e])
                         /\ \E m \in posted[e] : m.attempt = acked[e])'
    <3>1. CASE e = d
      BY <1>1, <1>2, <1>3, <1>4, <3>1 DEF Last
    <3>2. CASE e # d
      BY <1>1, <1>4, <3>2 DEF Last, DeliveryInv
    <3>. QED
      BY <3>1, <3>2
  <2>3. (/\ Last(e) = "market_event_ineligible" => e[1] \in Market
         /\ Last(e) = "telegram_timeout" /\ IsRoot(e) /\ Copy(e) \in Deliveries =>
              Copy(e) \in Occurred)'
    BY <1>1 DEF DeliveryInv, Last, Occurred
  <2>4. (~IsRoot(e) => \A m \in posted[e] :
          acked[RootOf(e)] # 0 /\ m.reply = acked[RootOf(e)])'
    <3>. SUFFICES ASSUME ~IsRoot(e), NEW m \in posted[e]
                  PROVE  acked'[RootOf(e)] # 0 /\ m.reply = acked'[RootOf(e)]
      BY <1>1 DEF IsRoot, RootOf
    <3>1. acked[RootOf(e)] # 0 /\ m.reply = acked[RootOf(e)]
      BY DEF DeliveryInv
    <3>2. RootOf(e) \in Deliveries /\ RootOf(e) # d
      BY <1>2, <3>1, Roots
    <3>. QED
      BY <1>4, <3>1, <3>2
  <2>. QED
    BY <2>1, <2>2, <2>3, <2>4 DEF DeliveryInv
<1>7. WorkerInv'
  BY <1>1 DEF WorkerInv, Busy, Sending
<1>8. CopyInv'
  <2>1. \A b, e \in Deliveries : b[1] = e[1] /\ b[2] < e[2] /\ e \in stored =>
          b # d /\ Dead(b) /\ acked[b] = 0
    BY <1>2 DEF CopyInv
  <2>2. \A b \in Deliveries : Dead(b)' <=> Dead(b)
    BY <1>1 DEF Dead, Last
  <2>. QED
    BY <1>1, <1>4, <2>1, <2>2 DEF CopyInv
<1>. QED
  BY <1>5, <1>6, <1>7, <1>8 DEF LateOK

LEMMA TickStep == ASSUME Inv, Tick, LateOK'
                  PROVE  Inv'
<1>. USE DEF Inv
<1>1. /\ Sending => limit > 0
      /\ age' = [d \in Deliveries |->
                   IF d \in Occurred /\ d[1] \in Market /\ age[d] < AgeCap
                   THEN age[d] + 1 ELSE age[d]]
      /\ wait' = [d \in Deliveries |-> Max0(wait[d] - 1)]
      /\ limit' = Max0(limit - 1)
      /\ UNCHANGED <<order, stored, log, acked, posted, pc, current>>
  BY DEF Tick, store
<1>2. age \in [Deliveries -> 0..AgeCap] /\ AgeCap \in Nat
  BY TimeAssumption DEF TypeOK, AgeCap
<1>3. age' \in [Deliveries -> 0..AgeCap] /\ \A d \in Deliveries : age'[d] <= age[d] + 1
  BY <1>1, <1>2
<1>4. \A d \in Deliveries : wait[d] \in 0..Lease \/ wait[d] \in 0..RetryDelay
  BY DEF TypeOK
<1>5. \A n \in Nat : \A k \in 0..n : Max0(k - 1) \in 0..n
  BY DEF Max0
<1>6. wait' \in [Deliveries -> (0..Lease) \cup (0..RetryDelay)]
  BY <1>1, <1>4, <1>5, TimeAssumption
<1>7. limit \in 0..SendLimit /\ limit' \in 0..SendLimit
  BY <1>1, <1>5, TimeAssumption DEF TypeOK
<1>8. TypeOK'
  BY <1>1, <1>3, <1>6, <1>7 DEF TypeOK, Occurred, LateOK
<1>9. \A d \in Deliveries : DeliveryInv(d)'
  BY <1>1 DEF DeliveryInv, Last, Occurred
<1>10. WorkerInv'
  <2>1. (Busy => HoldsClaim(current) /\ (IsRoot(current) \/ acked[RootOf(current)] # 0))'
    BY <1>1 DEF WorkerInv, Busy, HoldsClaim, Last
  <2>2. (/\ pc = "sent" => \E m \in posted[current] : m.attempt = Len(log[current])
         /\ pc = "suppressing" => current[1] \in Market)'
    BY <1>1 DEF WorkerInv
  <2>3. (Sending /\ current[1] \in Market => age[current] + limit <= MaxAge + SendLimit)'
    <3>. SUFFICES ASSUME Sending, current[1] \in Market
                  PROVE  age'[current] + limit' <= MaxAge + SendLimit
      BY <1>1 DEF Sending
    <3>1. age[current] + limit <= MaxAge + SendLimit
      BY DEF WorkerInv
    <3>2. limit' = limit - 1 /\ current \in Deliveries
      BY <1>1, <1>7 DEF Max0, TypeOK
    <3>3. age'[current] <= age[current] + 1 /\ age[current] \in Int /\ age'[current] \in Int
      BY <1>2, <1>3, <3>2
    <3>4. \A a, b, k, n \in Int : b <= a + 1 /\ a + k <= n => b + (k - 1) <= n
      OBVIOUS
    <3>5. MaxAge + SendLimit \in Int /\ limit \in Int
      BY <1>7, TimeAssumption
    <3>. QED
      BY <3>1, <3>2, <3>3, <3>4, <3>5
  <2>. QED
    BY <2>1, <2>2, <2>3 DEF WorkerInv
<1>11. CopyInv'
  BY <1>1 DEF CopyInv, Dead, Last
<1>. QED
  BY <1>8, <1>9, <1>10, <1>11 DEF LateOK
----------------------------------------------------------------------------
(* An acknowledgement is never taken back.                                 *)
LEMMA AckedStays ==
  ASSUME Inv, Next, NEW d \in Deliveries, acked[d] # 0
  PROVE  acked'[d] = acked[d]
<1>1. CASE Acknowledge
  <2>1. acked[current] = 0 /\ acked' = [acked EXCEPT ![current] = Len(log[current])]
    BY <1>1 DEF Acknowledge, HoldsClaim
  <2>. QED
    BY <2>1 DEF Inv, TypeOK
<1>2. CASE ~Acknowledge
  <2>1. UNCHANGED acked
    BY <1>2 DEF Next, Answer, Occur, Project, Redrive, Start, Crash, Claim, Suppress, Post, Fail,
       SendTimeout, SendRejected, LeaseLost, Tick, Arrive, store
  <2>. QED
    BY <2>1
<1>. QED
  BY <1>1, <1>2

(* What a step does to the requests under way: it drops some of them, the  *)
(* worker's own joins them, or they all come closer to their end.          *)
LEMMA LateMoves ==
  ASSUME Next
  PROVE  \/ late' \subseteq late /\ (UNCHANGED age \/ late' = {})
         \/ pc = "sending" /\ GiveUp /\ UNCHANGED age
         \/ Tick
<1>1. GiveUp => late' = late \/ (pc = "sending" /\ GiveUp)
  BY DEF GiveUp
<1>. QED
  BY <1>1 DEF Next, Answer, Occur, Project, Redrive, Start, Crash, Claim, Suppress, Post, Fail,
     Acknowledge, SendTimeout, SendRejected, LeaseLost, Arrive, chat

LEMMA LateStep == ASSUME Inv, Next PROVE LateOK'
<1>. USE DEF Inv
<1>1. late \subseteq [delivery : Deliveries, message : Messages, left : 0..Transit]
  BY DEF TypeOK
<1>2. \A m \in late :
        ~IsRoot(m.delivery) => /\ acked'[RootOf(m.delivery)] # 0
                               /\ m.message.reply = acked'[RootOf(m.delivery)]
  BY <1>1, AckedStays, Roots DEF LateInv
<1>3. CASE late' \subseteq late /\ (UNCHANGED age \/ late' = {})
  BY <1>1, <1>2, <1>3 DEF LateOK, LateInv, IsRoot, RootOf
<1>4. CASE pc = "sending" /\ GiveUp /\ UNCHANGED age
  <2>. DEFINE d == current
              r == [delivery |-> d, message |-> Message(d), left |-> Transit]
  <2>1. d \in Deliveries /\ HoldsClaim(d) /\ (IsRoot(d) \/ acked[RootOf(d)] # 0)
    BY <1>4 DEF WorkerInv, Busy, TypeOK
  <2>2. late' = late \cup {r} /\ Transit \in 0..Transit
    BY <1>4, TimeAssumption DEF GiveUp
  <2>3. Message(d) \in Messages
    BY <2>1, MessageFits
  <2>4. ~IsRoot(d) => acked'[RootOf(d)] # 0 /\ Message(d).reply = acked'[RootOf(d)]
    BY <2>1, AckedStays, Roots DEF Message
  <2>5. d[1] \in Market => age[d] + Transit <= MaxAge + SendLimit + Transit
    <3>1. d[1] \in Market => age[d] + limit <= MaxAge + SendLimit
      BY <1>4 DEF WorkerInv, Sending
    <3>2. age[d] \in Int /\ limit \in Nat /\ MaxAge \in Int /\ SendLimit \in Int /\ Transit \in Int
      BY <2>1, TimeAssumption DEF TypeOK
    <3>. QED
      BY <3>1, <3>2
  <2>6. r \in [delivery : Deliveries, message : Messages, left : 0..Transit]
    BY <2>1, <2>2, <2>3
  <2>7. r.delivery = d /\ r.message = Message(d) /\ r.left = Transit
    OBVIOUS
  <2>. HIDE DEF r, d
  <2>8. LateInv'
    <3>. SUFFICES ASSUME NEW m \in late'
                  PROVE  /\ ~IsRoot(m.delivery) => /\ acked'[RootOf(m.delivery)] # 0
                                                   /\ m.message.reply = acked'[RootOf(m.delivery)]
                         /\ m.delivery[1] \in Market =>
                              age[m.delivery] + m.left <= MaxAge + SendLimit + Transit
      BY <1>4 DEF LateInv, IsRoot, RootOf
    <3>1. CASE m \in late
      BY <1>2, <3>1 DEF LateInv
    <3>2. CASE m = r
      BY <2>4, <2>5, <2>7, <3>2
    <3>. QED
      BY <2>2, <3>1, <3>2
  <2>. QED
    BY <1>1, <2>2, <2>6, <2>8 DEF LateOK
<1>5. CASE Tick
  <2>1. late' = {[m EXCEPT !.left = m.left - 1] : m \in {n \in late : n.left > 0}}
    BY <1>5 DEF Tick
  <2>2. ASSUME NEW n \in late'
        PROVE  \E m \in late : /\ n.delivery = m.delivery /\ n.message = m.message
                               /\ n.left = m.left - 1 /\ n.left \in 0..Transit
                               /\ n \in [delivery : Deliveries, message : Messages, left : 0..Transit]
    <3>1. PICK m \in late : m.left > 0 /\ n = [m EXCEPT !.left = m.left - 1]
      BY <2>1, <2>2
    <3>2. /\ m \in [delivery : Deliveries, message : Messages, left : 0..Transit]
          /\ m.left - 1 \in 0..Transit
      BY <1>1, <3>1, TimeAssumption
    <3>. QED
      BY <3>1, <3>2
  <2>3. \A d \in Deliveries : age[d] \in Int /\ age'[d] \in Int /\ age'[d] <= age[d] + 1
    BY <1>5 DEF Tick, TypeOK
  <2>4. ASSUME NEW n \in late'
        PROVE  /\ ~IsRoot(n.delivery) => /\ acked'[RootOf(n.delivery)] # 0
                                         /\ n.message.reply = acked'[RootOf(n.delivery)]
               /\ n.delivery[1] \in Market =>
                    age'[n.delivery] + n.left <= MaxAge + SendLimit + Transit
    <3>1. PICK m \in late : n.delivery = m.delivery /\ n.message = m.message
                            /\ n.left = m.left - 1
      BY <2>2, <2>4
    <3>2. m.delivery \in Deliveries /\ m.left \in Int /\ MaxAge + SendLimit + Transit \in Int
      BY <1>1, TimeAssumption
    <3>3. m.delivery[1] \in Market =>
            age[m.delivery] + m.left <= MaxAge + SendLimit + Transit
      BY DEF LateInv
    <3>4. \A a, b, k, c \in Int : b <= a + 1 /\ a + k <= c => b + (k - 1) <= c
      OBVIOUS
    <3>5. m.delivery[1] \in Market =>
            age'[m.delivery] + (m.left - 1) <= MaxAge + SendLimit + Transit
      BY <2>3, <3>2, <3>3, <3>4
    <3>. QED
      BY <1>2, <3>1, <3>5
  <2>. QED
    BY <2>2, <2>4 DEF LateOK, LateInv, IsRoot, RootOf
<1>. QED
  BY <1>3, <1>4, <1>5, LateMoves

----------------------------------------------------------------------------
LEMMA NextInv == Inv /\ [Next]_vars => Inv'
<1>. SUFFICES ASSUME Inv, [Next]_vars PROVE Inv'
  OBVIOUS
<1>1. CASE UNCHANGED vars
  <2>1. UNCHANGED <<order, stored, log, acked, age, wait, posted, late, pc, current, limit>>
    BY <1>1 DEF vars, store, chat, worker
  <2>2. TypeOK'
    BY <2>1 DEF Inv, TypeOK, Occurred
  <2>3. \A d \in Deliveries : DeliveryInv(d)'
    BY <2>1 DEF Inv, DeliveryInv, Last, Occurred
  <2>4. WorkerInv'
    BY <2>1 DEF Inv, WorkerInv, Busy, Sending, HoldsClaim, Last
  <2>5. CopyInv'
    BY <2>1 DEF Inv, CopyInv, Dead, Last
  <2>6. LateInv'
    BY <2>1 DEF Inv, LateInv, IsRoot, RootOf
  <2>. QED
    BY <2>2, <2>3, <2>4, <2>5, <2>6 DEF Inv
<1>2. CASE Next
  BY <1>2, LateStep, ArriveStep, OccurStep, ProjectStep, RedriveStep, ProcessStep, ClaimStep, FailureStep, PostStep,
     AcknowledgeStep, TickStep DEF Next, Answer
<1>. QED
  BY <1>1, <1>2

(***************************************************************************)
(* The inductive invariant holds in every state of every behaviour.        *)
(***************************************************************************)
THEOREM Invariance == Spec => []Inv
<1>1. Init => Inv
  BY InitInv
<1>2. Inv /\ [Next]_vars => Inv'
  BY NextInv
<1>. QED
  BY <1>1, <1>2, PTL DEF Spec

(* Every variable of the store and the worker stays within its type.       *)
THEOREM TypeCorrect == Spec => []TypeOK
<1>1. Inv => TypeOK
  BY DEF Inv
<1>. QED
  BY <1>1, Invariance, PTL

(* The invariant makes the report true. *)
LEMMA ReportFollows == Inv => ReportIsTrue
<1>. SUFFICES ASSUME Inv PROVE ReportIsTrue
  OBVIOUS
<1>. USE DEF Inv
<1>1. Expected \subseteq Deliveries
  BY DEF Expected, Occurred, TypeOK
<1>2. \A d \in Expected : acked[d] # 0 => Last(d) = "open" /\ posted[d] # {}
  BY <1>1 DEF DeliveryInv
<1>3. AcknowledgedSet \cap (SuppressedSet \cup DeadSet) = {}
  BY <1>2 DEF AcknowledgedSet, SuppressedSet, DeadSet, Dead, DeadReasons
<1>4. ASSUME Complete, NEW d \in Expected, posted[d] = {}
      PROVE  d[1] \in Market /\ d \in SuppressedSet
  <2>1. d \in SuppressedSet
    BY <1>2, <1>4 DEF Complete, AcknowledgedSet
  <2>. QED
    BY <1>1, <2>1 DEF SuppressedSet, DeliveryInv
<1>. QED
  BY <1>3, <1>4 DEF ReportIsTrue

(***************************************************************************)
(* us_session_delivery_reconciliation.py: nothing is both acknowledged and *)
(* given up, and what a complete report leaves out of the chat was         *)
(* suppressed as stale.                                                    *)
(***************************************************************************)
THEOREM ReportsAreTrue == Spec => []ReportIsTrue
BY ReportFollows, Invariance, PTL

(* A reply's root was acknowledged, and that copy is in the chat. *)
LEMMA RepliesFollow == Inv => RepliesFollowRoots
<1>. SUFFICES ASSUME Inv, NEW d \in Deliveries, ~IsRoot(d), NEW m \in posted[d]
              PROVE  \E r \in posted[RootOf(d)] :
                       r.attempt = m.reply /\ m.reply = acked[RootOf(d)]
  BY DEF RepliesFollowRoots
<1>1. acked[RootOf(d)] # 0 /\ m.reply = acked[RootOf(d)]
  BY DEF Inv, DeliveryInv
<1>2. RootOf(d) \in Deliveries
  BY Roots
<1>. QED
  BY <1>1, <1>2 DEF Inv, DeliveryInv

(***************************************************************************)
(* hermes_delivery_schema.py CLAIMABLE: a reply is in the chat only under  *)
(* the copy of its root's message that was acknowledged.                   *)
(***************************************************************************)
THEOREM ThreadsHold == Spec => []RepliesFollowRoots
BY RepliesFollow, Invariance, PTL

(* A copy is stored only of a dead delivery, and the dead are not claimed. *)
LEMMA OnlyOne == Inv => OneAcknowledged
<1>. SUFFICES ASSUME Inv, NEW d \in Deliveries, NEW e \in Deliveries,
                     d[1] = e[1], d[2] < e[2]
              PROVE  /\ acked[d] = 0 \/ acked[e] = 0
                     /\ ~(e \in stored /\ Claimable(d))
  BY DEF OneAcknowledged
<1>1. e \in stored => Dead(d) /\ acked[d] = 0
  BY DEF Inv, CopyInv
<1>2. acked[e] # 0 => e \in stored
  BY LogLast DEF Inv, DeliveryInv
<1>. QED
  BY <1>1, <1>2 DEF Claimable, Ended

(***************************************************************************)
(* hermes_delivery_redrive.py: of a delivery and its redriven copies at    *)
(* most one is acknowledged, and no copy is made of one that may still be  *)
(* claimed.                                                                *)
(***************************************************************************)
THEOREM OneCopyAcknowledged == Spec => []OneAcknowledged
BY OnlyOne, Invariance, PTL
----------------------------------------------------------------------------
(* A step leaves the attempts of a delivery that has ended alone.          *)
LEMMA EndedStep ==
  ASSUME Inv, Next, NEW d \in Deliveries, Ended(d)
  PROVE  UNCHANGED <<log[d], acked[d]>>
<1>. USE DEF Inv
<1>0. DOMAIN log = Deliveries /\ DOMAIN acked = Deliveries /\ current \in Deliveries
  BY DEF TypeOK
<1>1. HoldsClaim(current) => d # current
  BY DEF HoldsClaim, Ended, Dead, DeadReasons
<1>2. ASSUME UNCHANGED <<log, acked>>
      PROVE  UNCHANGED <<log[d], acked[d]>>
  BY <1>2
<1>3. CASE Claim
  <2>1. \A i \in DOMAIN order : order[i] \in Deliveries
    BY DEF TypeOK
  <2>2. PICK e \in Deliveries : Claimable(e) /\ log' = [log EXCEPT ![e] = Append(@, "open")]
    BY <1>3, <2>1 DEF Claim
  <2>3. e # d /\ UNCHANGED acked
    BY <1>3, <2>2 DEF Claimable, Claim
  <2>. QED
    BY <1>0, <2>2, <2>3
<1>4. ASSUME NEW reason, NEW terminal, Fail(current, reason, terminal)
      PROVE  UNCHANGED <<log[d], acked[d]>>
  <2>1. d # current /\ UNCHANGED acked
    BY <1>1, <1>4 DEF Fail
  <2>. QED
    BY <1>0, <1>4, <2>1 DEF Fail
<1>5. CASE Acknowledge
  <2>1. d # current /\ UNCHANGED log
    BY <1>1, <1>5 DEF Acknowledge
  <2>. QED
    BY <1>0, <1>5, <2>1 DEF Acknowledge
<1>6. CASE Suppress \/ SendTimeout \/ SendRejected
  BY <1>4, <1>6 DEF Suppress, SendTimeout, SendRejected
<1>7. CASE ~(Claim \/ Acknowledge \/ Suppress \/ SendTimeout \/ SendRejected)
  <2>1. UNCHANGED <<log, acked>>
    BY <1>7 DEF Next, Answer, Occur, Project, Redrive, Start, Crash, Post, LeaseLost, Tick,
       Arrive, store
  <2>. QED
    BY <1>2, <2>1
<1>. QED
  BY <1>3, <1>5, <1>6, <1>7

(* What a step does to the chat: the worker's message or a late one comes. *)
LEMMA ChatMoves ==
  ASSUME Inv, Next
  PROVE  \/ UNCHANGED posted
         \/ Post
         \/ \E m \in late : Arrive(m)
BY DEF Next, Answer, Occur, Project, Redrive, Start, Crash, Claim, Suppress, Fail, Acknowledge,
   SendTimeout, SendRejected, LeaseLost, Tick, chat

(* Of a delivery that has ended nothing more is under way than was.        *)
LEMMA UnderwayStep ==
  ASSUME Inv, Next, NEW d \in Deliveries, Ended(d)
  PROVE  Underway(d)' \subseteq Underway(d)
<1>. USE DEF Inv
<1>0. DOMAIN posted = Deliveries
  BY DEF TypeOK
<1>1. pc = "sending" => d # current
  BY DEF WorkerInv, Busy, HoldsClaim, Ended, Dead, DeadReasons
<1>2. \A n \in late' : n.delivery = d =>
        \E m \in late : m.delivery = d /\ m.message = n.message
  <2>1. CASE late' \subseteq late
    BY <2>1
  <2>2. CASE pc = "sending" /\ GiveUp
    BY <1>1, <2>2 DEF GiveUp
  <2>3. CASE Tick
    <3>. SUFFICES ASSUME NEW n \in late', n.delivery = d
                  PROVE  \E m \in late : m.delivery = d /\ m.message = n.message
      OBVIOUS
    <3>1. PICK m \in late : n = [m EXCEPT !.left = m.left - 1]
      BY <2>3 DEF Tick
    <3>2. m \in [delivery : Deliveries, message : Messages, left : 0..Transit]
      BY DEF TypeOK
    <3>3. n.delivery = m.delivery /\ n.message = m.message
      BY <3>1, <3>2
    <3>. QED
      BY <3>3
  <2>. QED
    BY <2>1, <2>2, <2>3, LateMoves
<1>3. posted'[d] \subseteq Underway(d)
  <2>1. CASE UNCHANGED posted
    BY <2>1 DEF Underway
  <2>2. CASE Post
    BY <1>0, <1>1, <2>2 DEF Post, Underway
  <2>3. ASSUME NEW m \in late, Arrive(m)
        PROVE  posted'[d] \subseteq Underway(d)
    <3>1. CASE m.delivery = d
      <4>1. posted'[d] = posted[d] \cup {m.message}
        BY <1>0, <2>3, <3>1 DEF Arrive
      <4>. QED
        BY <3>1, <4>1 DEF Underway
    <3>2. CASE m.delivery # d
      <4>1. posted'[d] = posted[d]
        BY <1>0, <2>3, <3>2 DEF Arrive
      <4>. QED
        BY <4>1 DEF Underway
    <3>. QED
      BY <3>1, <3>2
  <2>. QED
    BY <2>1, <2>2, <2>3, ChatMoves
<1>. QED
  BY <1>2, <1>3 DEF Underway

(***************************************************************************)
(* delivery_worker.py:150-156: a delivery that is acknowledged or dead is  *)
(* never claimed, sent or recorded again, by this process or the next; of  *)
(* it only requests that were under way already may still reach the chat.  *)
(***************************************************************************)
THEOREM EndedStaysFinal == Spec => EndedIsFinal
<1>1. Inv /\ [Next]_vars =>
        [\A d \in Deliveries : Ended(d) =>
           /\ UNCHANGED <<log[d], acked[d]>>
           /\ Underway(d)' \subseteq Underway(d)]_vars
  BY EndedStep, UnderwayStep
<1>. QED
  BY <1>1, Invariance, PTL DEF Spec, EndedIsFinal

(***************************************************************************)
(* delivery_worker.py _CURRENT_MARKET_EVENT_MAX_AGE: through retries,      *)
(* expired leases, restarts and late arrivals, a market message is in the  *)
(* chat at the age limit plus one send and one transit, or never.          *)
(***************************************************************************)
THEOREM PostsAreTimely == Spec => PostedInTime
<1>1. ASSUME Inv, Next, NEW d \in Deliveries, d[1] \in Market, posted'[d] # posted[d]
      PROVE  age[d] <= MaxAge + SendLimit + Transit
  <2>0. /\ age[d] \in Int /\ limit \in Nat /\ MaxAge + SendLimit \in Int
        /\ MaxAge + SendLimit + Transit \in Int /\ Transit \in Nat /\ DOMAIN posted = Deliveries
    BY <1>1, TimeAssumption DEF Inv, TypeOK
  <2>1. CASE Post
    <3>1. d = current /\ Sending
      BY <1>1, <2>0, <2>1 DEF Post, Sending
    <3>2. age[d] + limit <= MaxAge + SendLimit
      BY <1>1, <3>1 DEF Inv, WorkerInv
    <3>. QED
      BY <2>0, <3>2, TimeAssumption
  <2>2. ASSUME NEW m \in late, Arrive(m)
        PROVE  age[d] <= MaxAge + SendLimit + Transit
    <3>1. m.delivery = d
      BY <1>1, <2>0, <2>2 DEF Arrive
    <3>2. age[d] + m.left <= MaxAge + SendLimit + Transit
      BY <1>1, <3>1 DEF Inv, LateInv
    <3>3. m.left \in Nat
      BY <1>1 DEF Inv, TypeOK
    <3>. QED
      BY <2>0, <3>2, <3>3
  <2>. QED
    BY <1>1, <2>1, <2>2, ChatMoves
<1>2. Inv /\ [Next]_vars =>
        [\A d \in Deliveries : d[1] \in Market /\ posted'[d] # posted[d] =>
           age[d] <= MaxAge + SendLimit + Transit]_vars
  BY <1>1
<1>. QED
  BY <1>2, Invariance, PTL DEF Spec, PostedInTime
=============================================================================
