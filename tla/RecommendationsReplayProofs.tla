-------------------- MODULE RecommendationsReplayProofs ---------------------
(***************************************************************************)
(* Bars are evaluated one at a time, by scans that may die between any two *)
(* commits and start again from the last checkpoint.  The theorem of this  *)
(* module is that it does not show: at every checkpoint a recommendation   *)
(* of which no fetch left out a bar is what its bars, seen at once, make   *)
(* of it.                                                                  *)
(***************************************************************************)
EXTENDS RecommendationsProofs

(* What the bars up to n have made of a recommendation, said as the engine *)
(* gets there: quiet until the entry, or a stop before it; from the entry  *)
(* on nothing but its end matters.                                         *)
Quiet(rec, n) == \A k \in rec.from..n : bars[k].high = 0 /\ ~bars[k].stop
Entered(rec, e) == bars[e].high >= 1 /\ Quiet(rec, e - 1)
Below(e, n, top) == \A k \in e..n : bars[k].high <= top /\ ~bars[k].stop

Seen(rec, n) ==
  \/ rec.state = "setup" /\ Quiet(rec, n)
  \/ /\ rec.state = "invalidated"
     /\ \E k \in rec.from..n : bars[k].high = 0 /\ bars[k].stop /\ Quiet(rec, k - 1)
  \/ /\ rec.state = "active"
     /\ \E e \in rec.from..n : Entered(rec, e) /\ Below(e, n, 1)
  \/ /\ rec.state = "target_1r"
     /\ \E e \in rec.from..n :
          Entered(rec, e) /\ Below(e, n, 2) /\ \E k \in e..n : bars[k].high = 2
  \/ /\ rec.state = "stopped"
     /\ \E e \in rec.from..n : \E x \in e..n :
          Entered(rec, e) /\ Below(e, x - 1, 2) /\ bars[x].stop
  \/ /\ rec.state = "target_2r"
     /\ \E e \in rec.from..n : \E x \in e..n :
          Entered(rec, e) /\ Below(e, x - 1, 2) /\ ~bars[x].stop /\ bars[x].high = 3

(* The bars of the day, those of a recommendation among them.              *)
LEMMA Shaped ==
  ASSUME Inv, TypeInv, NEW rec \in RecType, rec.from >= 2, NEW n \in 0..minute
  PROVE  /\ \A k \in 1..minute : bars[k].stop \in BOOLEAN /\ bars[k].high \in 0..3
         /\ rec.from \in Nat /\ minute \in Nat
         /\ \A k \in rec.from..n : k \in 1..minute
<1>1. bars \in [1..minute -> Shapes] /\ minute \in Nat
  BY ClockFacts DEF TypeInv
<1>2. \A k \in 1..minute : bars[k] \in [stop : BOOLEAN, high : 0..3]
  BY <1>1, ShapesAssumption
<1>. QED
  BY <1>1, <1>2 DEF RecType

(* The bars seen one by one make of it what they make of it at once.       *)
LEMMA SeenIsOutcome ==
  ASSUME Inv, TypeInv, NEW rec \in RecType, rec.from >= 2, NEW n \in 0..minute, Seen(rec, n)
  PROVE  Outcome(rec, n) = rec.state
<1>. DEFINE seen == rec.from..n
            entries == {k \in seen : bars[k].high >= 1}
            voids == {k \in seen : bars[k].stop /\ \A e \in entries : k < e}
            traded == {k \in seen : \E e \in entries : e <= k}
            ends == {k \in traded : bars[k].stop \/ bars[k].high = 3}
            first == Min(ends)
            ended == IF bars[first].stop THEN "stopped" ELSE "target_2r"
            held == IF \E k \in traded : bars[k].high >= 2 THEN "target_1r" ELSE "active"
<1>1. /\ \A k \in seen : bars[k].stop \in BOOLEAN /\ bars[k].high \in 0..3
      /\ rec.from \in Nat /\ n \in Nat
      /\ \A k \in seen : k \in Nat
  BY Shaped
<1>2. Outcome(rec, n) =
        CASE voids # {} -> "invalidated"
          [] voids = {} /\ ends # {} -> ended
          [] voids = {} /\ traded = {} -> "setup"
          [] OTHER -> held
  BY DEF Outcome
<1>3. ends \subseteq traded
  OBVIOUS
<1>4. CASE rec.state = "setup" /\ Quiet(rec, n)
  <2>1. \A k \in seen : bars[k].high = 0 /\ ~bars[k].stop
    BY <1>4 DEF Quiet
  <2>2. entries = {} /\ voids = {}
    BY <1>1, <2>1
  <2>3. traded = {} /\ ends = {}
    BY <2>2
  <2>. HIDE DEF entries, voids, traded, ends, first
  <2>. QED
    BY <1>2, <1>4, <2>2, <2>3
<1>5. ASSUME rec.state = "invalidated", NEW k \in seen,
             bars[k].high = 0, bars[k].stop, Quiet(rec, k - 1)
      PROVE  Outcome(rec, n) = rec.state
  <2>1. \A e \in entries : k < e
    <3>. SUFFICES ASSUME NEW e \in seen, bars[e].high >= 1 PROVE k < e
      OBVIOUS
    <3>1. e # k
      BY <1>5
    <3>2. e \notin rec.from..(k - 1)
      BY <1>5 DEF Quiet
    <3>. QED
      BY <1>1, <3>1, <3>2
  <2>2. voids # {}
    BY <1>5, <2>1
  <2>. HIDE DEF entries, voids, traded, ends, first
  <2>. QED
    BY <1>2, <1>5, <2>2
<1>6. ASSUME NEW e \in seen, Entered(rec, e)
      PROVE  /\ e \in entries /\ e \in traded
             /\ \A k \in entries : e <= k
             /\ \A k \in voids : FALSE
             /\ \A k \in seen : k \in traded <=> e <= k
  <2>1. e \in entries
    BY <1>6 DEF Entered
  <2>2. \A k \in seen : k < e => bars[k].high = 0 /\ ~bars[k].stop
    BY <1>1, <1>6 DEF Entered, Quiet
  <2>3. \A k \in entries : e <= k
    BY <1>1, <2>2
  <2>4. \A k \in voids : FALSE
    BY <2>1, <2>2
  <2>5. \A k \in seen : k \in traded <=> e <= k
    BY <1>1, <2>1, <2>3
  <2>. QED
    BY <1>1, <1>6, <2>1, <2>3, <2>4, <2>5
<1>7. ASSUME NEW e \in seen, Entered(rec, e), Below(e, n, 2)
      PROVE  voids = {} /\ ends = {} /\ traded # {}
  <2>1. \A k \in ends : FALSE
    BY <1>1, <1>6, <1>7 DEF Below
  <2>. QED
    BY <1>6, <1>7, <2>1
<1>8. ASSUME rec.state = "active", NEW e \in seen, Entered(rec, e), Below(e, n, 1)
      PROVE  Outcome(rec, n) = rec.state
  <2>1. Below(e, n, 2)
    BY <1>1, <1>8 DEF Below
  <2>2. voids = {} /\ ends = {} /\ traded # {}
    BY <1>7, <1>8, <2>1
  <2>3. ~\E k \in traded : bars[k].high >= 2
    BY <1>1, <1>6, <1>8 DEF Below
  <2>. HIDE DEF entries, voids, traded, ends, first
  <2>. QED
    BY <1>2, <1>8, <2>2, <2>3
<1>9. ASSUME rec.state = "target_1r", NEW e \in seen, Entered(rec, e), Below(e, n, 2),
             NEW x \in e..n, bars[x].high = 2
      PROVE  Outcome(rec, n) = rec.state
  <2>1. voids = {} /\ ends = {} /\ traded # {}
    BY <1>7, <1>9
  <2>2. x \in seen /\ e <= x
    BY <1>1, <1>9
  <2>3. x \in traded /\ bars[x].high >= 2
    BY <1>6, <1>9, <2>2
  <2>. HIDE DEF entries, voids, traded, ends, first
  <2>. QED
    BY <1>2, <1>9, <2>1, <2>3
<1>10. ASSUME NEW e \in seen, Entered(rec, e), NEW x \in e..n, Below(e, x - 1, 2),
              bars[x].stop \/ bars[x].high = 3
       PROVE  voids = {} /\ ends # {} /\ first = x
  <2>1. x \in seen /\ e <= x /\ x \in Nat
    BY <1>1, <1>10
  <2>2. x \in ends
    BY <1>6, <1>10, <2>1
  <2>3. \A k \in ends : x <= k
    <3>. SUFFICES ASSUME NEW k \in ends PROVE x <= k
      OBVIOUS
    <3>1. k \in seen /\ e <= k /\ (bars[k].stop \/ bars[k].high = 3)
      BY <1>6, <1>10
    <3>2. k \notin e..(x - 1)
      BY <1>10, <3>1 DEF Below
    <3>. QED
      BY <1>1, <2>1, <3>1, <3>2
  <2>4. ends \in SUBSET Nat
    BY <1>1
  <2>5. voids = {}
    BY <1>6, <1>10
  <2>. HIDE DEF entries, voids, traded, ends
  <2>6. Min(ends) \in ends /\ \A k \in ends : Min(ends) <= k
    BY <2>2, <2>4, MinOfNaturals
  <2>7. x <= Min(ends) /\ Min(ends) <= x /\ Min(ends) \in Nat
    BY <2>2, <2>3, <2>4, <2>6
  <2>8. Min(ends) = x
    BY <2>1, <2>7
  <2>. QED
    BY <2>2, <2>5, <2>8
<1>11. ASSUME rec.state = "stopped", NEW e \in seen, Entered(rec, e), NEW x \in e..n,
              Below(e, x - 1, 2), bars[x].stop
       PROVE  Outcome(rec, n) = rec.state
  <2>1. voids = {} /\ ends # {} /\ first = x
    BY <1>10, <1>11
  <2>3. traded # {}
    BY <1>3, <2>1
  <2>. HIDE DEF entries, voids, traded, ends, first
  <2>2. Outcome(rec, n) = ended
    <3>. HIDE DEF ended, held
    <3>. QED BY <1>2, <2>1, <2>3
  <2>. QED
    BY <1>11, <2>1, <2>2
<1>12. ASSUME rec.state = "target_2r", NEW e \in seen, Entered(rec, e), NEW x \in e..n,
              Below(e, x - 1, 2), ~bars[x].stop, bars[x].high = 3
       PROVE  Outcome(rec, n) = rec.state
  <2>1. voids = {} /\ ends # {} /\ first = x
    BY <1>10, <1>12
  <2>3. traded # {}
    BY <1>3, <2>1
  <2>. HIDE DEF entries, voids, traded, ends, first
  <2>2. Outcome(rec, n) = ended
    <3>. HIDE DEF ended, held
    <3>. QED BY <1>2, <2>1, <2>3
  <2>. QED
    BY <1>12, <2>1, <2>2
<1>. QED
  BY <1>4, <1>5, <1>8, <1>9, <1>11, <1>12 DEF Seen

(* A scan that died at bar n may have left no more than the entry of it.   *)
Partial(rec, n) == rec.state = "active" /\ n >= rec.from /\ Entered(rec, n)

(* A recommendation is what its bars up to m make of it, or up to a later  *)
(* bar that a scan had seen before it died.                                *)
Reflects(rec, m) ==
  \E n \in m..minute : Seen(rec, n) \/ (n > m /\ Partial(rec, n))

LEMMA ReflectsLess ==
  ASSUME NEW rec, NEW m \in Nat, NEW l \in Nat, l <= m, Reflects(rec, m), minute \in Nat
  PROVE  Reflects(rec, l)
<1>1. PICK n \in m..minute : Seen(rec, n) \/ (n > m /\ Partial(rec, n))
  BY DEF Reflects
<1>2. n \in l..minute /\ (n > m => n > l)
  OBVIOUS
<1>. QED
  BY <1>1, <1>2 DEF Reflects

LEMMA SeenSame ==
  ASSUME NEW rec, NEW new, new.state = rec.state, new.from = rec.from, NEW n
  PROVE  /\ Seen(rec, n) => Seen(new, n)
         /\ Partial(rec, n) => Partial(new, n)
BY DEF Seen, Partial, Entered, Quiet

LEMMA ReflectsSame ==
  ASSUME NEW rec, NEW new, new.state = rec.state, new.from = rec.from, NEW m, Reflects(rec, m)
  PROVE  Reflects(new, m)
BY SeenSame DEF Reflects

(* What a bar within those already seen does: nothing.                     *)
LEMMA Reseen ==
  ASSUME Inv, TypeInv, NEW rec \in RecType, rec.from >= 2, NEW n \in 0..minute, Seen(rec, n),
         NEW b \in rec.from..n, rec.state \in OpenStates
  PROVE  After(rec.state, bars[b]) = rec.state
<1>1. b \in 1..minute /\ bars[b].high \in 0..3 /\ bars[b].stop \in BOOLEAN /\ b \in Nat /\ n \in Nat
  BY Shaped
<1>2. CASE rec.state = "setup" /\ Quiet(rec, n)
  <2>1. bars[b].high = 0 /\ ~bars[b].stop
    BY <1>2 DEF Quiet
  <2>. QED
    BY <1>2, <2>1 DEF After
<1>3. ASSUME NEW e \in rec.from..n, Entered(rec, e), NEW t \in Nat, Below(e, n, t)
      PROVE  ~bars[b].stop /\ (bars[b].high <= t \/ bars[b].high = 0)
  <2>0. e \in Nat /\ rec.from \in Nat
    BY Shaped
  <2>1. CASE b < e
    <3>1. b \in rec.from..(e - 1)
      BY <2>0, <2>1
    <3>. QED
      BY <1>3, <3>1 DEF Entered, Quiet
  <2>2. CASE e <= b
    <3>1. b \in e..n
      BY <2>0, <2>2
    <3>. QED
      BY <1>3, <3>1 DEF Below
  <2>. QED
    BY <1>1, <2>0, <2>1, <2>2
<1>4. CASE rec.state = "active"
  <2>1. PICK e \in rec.from..n : Entered(rec, e) /\ Below(e, n, 1)
    BY <1>4 DEF Seen
  <2>2. ~bars[b].stop /\ (bars[b].high <= 1 \/ bars[b].high = 0)
    BY <1>3, <2>1
  <2>3. bars[b].high # 2 /\ bars[b].high # 3
    BY <1>1, <2>2
  <2>. QED
    BY <1>4, <2>2, <2>3 DEF After
<1>5. CASE rec.state = "target_1r"
  <2>1. PICK e \in rec.from..n : Entered(rec, e) /\ Below(e, n, 2)
    BY <1>5 DEF Seen
  <2>2. ~bars[b].stop /\ (bars[b].high <= 2 \/ bars[b].high = 0)
    BY <1>3, <2>1
  <2>3. bars[b].high # 3
    BY <1>1, <2>2
  <2>. QED
    BY <1>5, <2>2, <2>3 DEF After
<1>. QED
  BY <1>2, <1>4, <1>5 DEF Seen, OpenStates

(* The next bar makes of it what the bars up to it make of it at once, or  *)
(* is the bar of the entry.                                                *)
LEMMA SeenOn ==
  ASSUME Inv, TypeInv, NEW rec \in RecType, rec.from >= 2, NEW b \in 1..minute,
         Seen(rec, b - 1), rec.state \in OpenStates, rec.from <= b,
         NEW new, new.from = rec.from, new.state = After(rec.state, bars[b])
  PROVE  Seen(new, b) \/ (rec.state = "setup" /\ Partial(new, b))
<1>1. bars[b].high \in 0..3 /\ bars[b].stop \in BOOLEAN /\ b \in Nat /\ rec.from \in Nat
  BY Shaped
<1>2. b \in rec.from..b /\ b \in b..b
  BY <1>1
<1>3. ASSUME Quiet(rec, b - 1), bars[b].high = 0, ~bars[b].stop PROVE Quiet(rec, b)
  BY <1>1, <1>3 DEF Quiet
<1>4. ASSUME NEW e \in rec.from..(b - 1), NEW t \in Nat, Below(e, b - 1, t),
             ~bars[b].stop, bars[b].high <= t
      PROVE  Below(e, b, t)
  BY <1>1, <1>4 DEF Below
<1>5. ASSUME NEW e, Entered(rec, e) PROVE Entered(new, e)
  BY <1>5 DEF Entered, Quiet
<1>6. CASE rec.state = "setup"
  <2>1. Quiet(rec, b - 1)
    BY <1>6 DEF Seen
  <2>2. CASE bars[b].high = 0 /\ ~bars[b].stop
    <3>1. new.state = "setup"
      BY <1>6, <2>2 DEF After
    <3>. QED
      BY <1>3, <2>1, <2>2, <3>1 DEF Seen, Quiet
  <2>3. CASE bars[b].high = 0 /\ bars[b].stop
    <3>1. new.state = "invalidated"
      BY <1>6, <2>3 DEF After
    <3>. QED
      BY <1>2, <2>1, <2>3, <3>1 DEF Seen, Quiet
  <2>4. CASE bars[b].high > 0
    <3>1. new.state = "active"
      BY <1>6, <2>4 DEF After
    <3>2. Entered(new, b)
      BY <1>1, <2>1, <2>4 DEF Entered, Quiet
    <3>. QED
      BY <1>1, <1>6, <3>1, <3>2 DEF Partial
  <2>. QED
    BY <1>1, <2>2, <2>3, <2>4
<1>7. ASSUME NEW e \in rec.from..(b - 1), Entered(rec, e), NEW t \in 1..2, Below(e, b - 1, t),
             rec.state # "setup"
      PROVE  /\ bars[b].stop => Seen(new, b)
             /\ ~bars[b].stop /\ bars[b].high = 3 => Seen(new, b)
  <2>1. e \in rec.from..b /\ b \in e..b /\ Entered(new, e)
    BY <1>1, <1>5, <1>7
  <2>2. Below(e, b - 1, 2)
    <3>1. \A k \in e..(b - 1) : bars[k].high \in 0..3
      BY <1>1, Shaped
    <3>. QED
      BY <1>7, <3>1 DEF Below
  <2>3. CASE bars[b].stop
    <3>1. new.state = "stopped"
      BY <1>7, <2>3 DEF After, OpenStates
    <3>. QED
      BY <2>1, <2>2, <2>3, <3>1 DEF Seen
  <2>4. CASE ~bars[b].stop /\ bars[b].high = 3
    <3>1. new.state = "target_2r"
      BY <1>7, <2>4 DEF After, OpenStates
    <3>. QED
      BY <2>1, <2>2, <2>4, <3>1 DEF Seen
  <2>. QED
    BY <2>3, <2>4
<1>8. CASE rec.state = "active"
  <2>1. PICK e \in rec.from..(b - 1) : Entered(rec, e) /\ Below(e, b - 1, 1)
    BY <1>8 DEF Seen
  <2>2. e \in rec.from..b /\ b \in e..b /\ Entered(new, e)
    BY <1>1, <1>5, <2>1
  <2>3. CASE ~bars[b].stop /\ bars[b].high <= 1
    <3>1. new.state = "active"
      BY <1>1, <1>8, <2>3 DEF After
    <3>2. Below(e, b, 1)
      BY <1>4, <2>1, <2>3
    <3>. QED
      BY <2>2, <3>1, <3>2 DEF Seen
  <2>4. CASE ~bars[b].stop /\ bars[b].high = 2
    <3>1. new.state = "target_1r"
      BY <1>1, <1>8, <2>4 DEF After
    <3>2. Below(e, b - 1, 2)
      <4>1. \A k \in e..(b - 1) : bars[k].high \in 0..3
        BY <1>1, Shaped
      <4>. QED
        BY <2>1, <4>1 DEF Below
    <3>3. Below(e, b, 2)
      BY <1>4, <2>4, <3>2
    <3>. QED
      BY <2>2, <2>4, <3>1, <3>3 DEF Seen
  <2>. QED
    BY <1>1, <1>7, <1>8, <2>1, <2>3, <2>4
<1>9. CASE rec.state = "target_1r"
  <2>1. PICK e \in rec.from..(b - 1) :
          /\ Entered(rec, e) /\ Below(e, b - 1, 2)
          /\ \E k \in e..(b - 1) : bars[k].high = 2
    BY <1>9 DEF Seen
  <2>2. e \in rec.from..b /\ Entered(new, e) /\ \E k \in e..b : bars[k].high = 2
    BY <1>1, <1>5, <2>1
  <2>3. CASE ~bars[b].stop /\ bars[b].high <= 2
    <3>1. new.state = "target_1r"
      BY <1>1, <1>9, <2>3 DEF After
    <3>2. Below(e, b, 2)
      BY <1>4, <2>1, <2>3
    <3>. QED
      BY <2>2, <3>1, <3>2 DEF Seen
  <2>. QED
    BY <1>1, <1>7, <1>9, <2>1, <2>3
<1>. QED
  BY <1>6, <1>8, <1>9 DEF OpenStates

(* An entry bar that is processed again ends what it has begun.            *)
LEMMA PartialOn ==
  ASSUME Inv, TypeInv, NEW rec \in RecType, rec.from >= 2, NEW b \in 1..minute, Partial(rec, b),
         NEW new, new.from = rec.from, new.state = After(rec.state, bars[b])
  PROVE  Seen(new, b)
<1>1. /\ bars[b].high \in 0..3 /\ bars[b].stop \in BOOLEAN /\ b \in Nat /\ rec.from \in Nat
      /\ bars[b].high >= 1
  BY Shaped DEF Partial, Entered
<1>2. b \in rec.from..b /\ b \in b..b /\ rec.state = "active"
  BY <1>1 DEF Partial
<1>3. Entered(new, b)
  BY DEF Partial, Entered, Quiet
<1>4. Below(b, b - 1, 2)
  BY <1>1 DEF Below
<1>5. \A t \in Nat : bars[b].high <= t /\ ~bars[b].stop => Below(b, b, t)
  BY <1>1 DEF Below
<1>6. CASE bars[b].stop
  <2>1. new.state = "stopped"
    BY <1>2, <1>6 DEF After
  <2>. QED
    BY <1>2, <1>3, <1>4, <1>6, <2>1 DEF Seen
<1>7. CASE ~bars[b].stop /\ bars[b].high = 3
  <2>1. new.state = "target_2r"
    BY <1>2, <1>7 DEF After
  <2>. QED
    BY <1>2, <1>3, <1>4, <1>7, <2>1 DEF Seen
<1>8. CASE ~bars[b].stop /\ bars[b].high = 2
  <2>1. new.state = "target_1r"
    BY <1>1, <1>2, <1>8 DEF After
  <2>2. Below(b, b, 2)
    BY <1>5, <1>8
  <2>. QED
    BY <1>2, <1>3, <1>8, <2>1, <2>2 DEF Seen
<1>9. CASE ~bars[b].stop /\ bars[b].high = 1
  <2>1. new.state = "active"
    BY <1>1, <1>2, <1>9 DEF After
  <2>2. Below(b, b, 1)
    BY <1>5, <1>9
  <2>. QED
    BY <1>2, <1>3, <2>1, <2>2 DEF Seen
<1>. QED
  BY <1>1, <1>6, <1>7, <1>8, <1>9

(* A bar that was seen up to the one before, and perhaps already once.     *)
LEMMA BarOnce ==
  ASSUME Inv, TypeInv, NEW rec \in RecType, rec.from >= 2, NEW b \in 1..minute,
         rec.from <= b, rec.state \in OpenStates, Reflects(rec, b - 1),
         NEW new, new.from = rec.from, new.state = After(rec.state, bars[b])
  PROVE  /\ Reflects(new, b - 1)
         /\ new.state = rec.state => Reflects(new, b)
<1>1. /\ bars[b].high \in 0..3 /\ bars[b].stop \in BOOLEAN /\ b \in Nat /\ rec.from \in Nat
      /\ minute \in Nat /\ b <= minute /\ b - 1 \in Nat /\ b >= 1
  BY Shaped
<1>2. Seen(new, b) => Reflects(new, b) /\ Reflects(new, b - 1)
  BY <1>1 DEF Reflects
<1>3. PICK n \in (b - 1)..minute : Seen(rec, n) \/ (n > b - 1 /\ Partial(rec, n))
  BY DEF Reflects
<1>4. n \in Nat /\ n \in 0..minute
  BY <1>1, <1>3
<1>5. CASE Seen(rec, n) /\ n = b - 1
  <2>1. Seen(new, b) \/ (rec.state = "setup" /\ Partial(new, b))
    BY <1>5, SeenOn
  <2>2. CASE rec.state = "setup" /\ Partial(new, b)
    <3>1. new.state # rec.state
      BY <2>2 DEF Partial
    <3>2. b \in (b - 1)..minute /\ b > b - 1
      BY <1>1
    <3>. QED
      BY <2>2, <3>1, <3>2 DEF Reflects
  <2>. QED
    BY <1>2, <2>1, <2>2
<1>6. CASE Seen(rec, n) /\ n >= b
  <2>1. b \in rec.from..n
    BY <1>1, <1>4, <1>6
  <2>2. new.state = rec.state
    BY <1>4, <1>6, <2>1, Reseen
  <2>3. Seen(new, n) /\ n \in b..minute
    BY <1>1, <1>4, <1>6, <2>2, SeenSame
  <2>. QED
    BY <1>1, <2>3 DEF Reflects
<1>7. CASE Partial(rec, n) /\ n = b
  BY <1>2, <1>7, PartialOn
<1>8. CASE Partial(rec, n) /\ n > b
  <2>1. b \in rec.from..(n - 1)
    BY <1>1, <1>4, <1>8
  <2>2. bars[b].high = 0 /\ ~bars[b].stop /\ rec.state = "active"
    BY <1>8, <2>1 DEF Partial, Entered, Quiet
  <2>3. new.state = rec.state
    BY <2>2 DEF After
  <2>4. Partial(new, n) /\ n \in b..minute /\ n > b - 1 /\ n \in (b - 1)..minute
    BY <1>1, <1>4, <1>8, <2>3, SeenSame
  <2>. QED
    BY <1>8, <2>4 DEF Reflects
<1>. QED
  BY <1>1, <1>3, <1>4, <1>5, <1>6, <1>7, <1>8

(* Bars l + 1 to m do not count for it.                                    *)
LEMMA BarsPassed ==
  ASSUME Inv, TypeInv, NEW rec \in RecType, rec.from >= 2,
         NEW l \in 0..minute, NEW m \in l..minute,
         rec.from > m \/ rec.state \notin OpenStates \/ l = m, Reflects(rec, l)
  PROVE  Reflects(rec, m)
<1>1. /\ l \in Nat /\ m \in Nat /\ rec.from \in Nat /\ minute \in Nat /\ m <= minute /\ l <= m
  BY Shaped
<1>2. PICK n \in l..minute : Seen(rec, n) \/ (n > l /\ Partial(rec, n))
  BY DEF Reflects
<1>3. n \in Nat /\ (n >= m => n \in m..minute)
  BY <1>1, <1>2
<1>4. CASE Seen(rec, n) /\ n >= m
  BY <1>3, <1>4 DEF Reflects
<1>5. CASE n > l /\ Partial(rec, n)
  <2>1. n > m /\ n \in m..minute
    BY <1>1, <1>3, <1>5 DEF Partial, OpenStates
  <2>. QED
    BY <1>5, <2>1 DEF Reflects
<1>6. CASE Seen(rec, n) /\ n < m
  <2>1. CASE rec.from > m
    <3>1. rec.state = "setup" \/ \E k \in rec.from..n : TRUE
      BY <1>6 DEF Seen
    <3>2. rec.state = "setup" /\ Quiet(rec, m)
      BY <1>1, <1>3, <1>6, <2>1, <3>1 DEF Quiet
    <3>3. Seen(rec, m)
      BY <3>2 DEF Seen
    <3>. QED
      BY <1>1, <3>3 DEF Reflects
  <2>2. CASE rec.state \notin OpenStates
    <3>1. \A k \in rec.from..n : k \in rec.from..m
      BY <1>1, <1>3, <1>6
    <3>2. \A e \in rec.from..n : \A k \in e..n : k \in e..m
      BY <1>1, <1>3, <1>6
    <3>3. Seen(rec, m)
      BY <1>6, <2>2, <3>1, <3>2 DEF Seen, OpenStates
    <3>. QED
      BY <1>1, <3>3 DEF Reflects
  <2>3. l # m
    BY <1>1, <1>2, <1>3, <1>6
  <2>. QED
    BY <2>1, <2>2, <2>3
<1>. QED
  BY <1>1, <1>2, <1>3, <1>4, <1>5, <1>6

LEMMA BarPassed ==
  ASSUME Inv, TypeInv, NEW rec \in RecType, rec.from >= 2, NEW b \in 1..minute,
         rec.from > b \/ rec.state \notin OpenStates, Reflects(rec, b - 1)
  PROVE  Reflects(rec, b)
<1>1. b - 1 \in 0..minute /\ b \in (b - 1)..minute
  BY ClockFacts
<1>. QED
  BY <1>1, BarsPassed

(* A checkpoint tells what the bars make of it.                            *)
LEMMA ReflectsOutcome ==
  ASSUME Inv, TypeInv, NEW rec \in RecType, rec.from >= 2, NEW m \in 1..minute, Reflects(rec, m)
  PROVE  Counted(rec, m)
<1>. USE DEF Counted
<1>1. PICK n \in m..minute : Seen(rec, n) \/ (n > m /\ Partial(rec, n))
  BY DEF Reflects
<1>2. minute \in Nat /\ n \in Nat /\ n \in 0..minute /\ m \in Nat /\ m >= 1
  BY <1>1, ClockFacts
<1>3. CASE Seen(rec, n)
  <2>1. Outcome(rec, n) = rec.state
    BY <1>2, <1>3, SeenIsOutcome
  <2>2. n = m \/ n \in (m + 1)..minute
    BY <1>2
  <2>. QED
    BY <2>1, <2>2
<1>4. CASE n > m /\ Partial(rec, n)
  <2>. DEFINE old == [rec EXCEPT !.state = "setup"]
  <2>1. old \in RecType /\ old.state = "setup" /\ old.from = rec.from
    BY DEF RecType, States, OpenStates
  <2>2. Seen(old, n - 1) /\ n - 1 \in 0..minute
    BY <1>2, <1>4, <2>1 DEF Seen, Partial, Entered, Quiet
  <2>. HIDE DEF old
  <2>3. Outcome(old, n - 1) = "setup"
    BY <2>1, <2>2, SeenIsOutcome
  <2>4. Outcome(old, n - 1) = Outcome(rec, n - 1)
    BY <2>1 DEF Outcome
  <2>5. n \in (m + 1)..minute /\ rec.state = "active" /\ bars[n].high >= 1
    BY <1>2, <1>4 DEF Partial, Entered
  <2>. QED
    BY <2>3, <2>4, <2>5
<1>. QED
  BY <1>1, <1>3, <1>4
-----------------------------------------------------------------------------
(* The bars of today that the store or the scan in progress has done with. *)
Checked == IF check.day = day THEN check.bar ELSE 0
Level ==
  CASE phase = "bars" -> fetch.bar - 1
    [] phase \in {"saved", "mark"} -> fetch.last
    [] OTHER -> Checked

(* The session has timed it out; no bar is evaluated any more.             *)
TimedOut(rec) == rec.state = "time_exit" /\ minute = Close /\ phase \in {"finalize", "off"}

(* The checkpoint never covers a bar that a recommendation of today has    *)
(* not counted, unless a fetch left bars of it out.  That a scan may find  *)
(* it further than its checkpoint says is what makes the replay after a    *)
(* death harmless.                                                         *)
ReplayInv ==
  /\ Checked <= Level
  /\ \A r \in DOMAIN recs :
       recs[r].day = day =>
         r \in missed \/ Reflects(recs[r], Level) \/ TimedOut(recs[r])

LEMMA LevelIsNat ==
  ASSUME Inv, TypeInv
  PROVE  Level \in Nat /\ Level <= minute /\ Checked \in Nat /\ Checked <= minute
<1>. USE ClockFacts
<1>1. Checked \in Nat /\ Checked <= minute
  BY DEF Checked, TypeInv, CheckInv
<1>2. Fetching => fetch.bar \in Nat /\ fetch.bar >= 1 /\ fetch.last \in Nat
                  /\ fetch.bar <= minute /\ fetch.last <= minute
  BY DEF TypeInv, FetchInv, FetchType
<1>3. CASE phase = "bars"
  <2>1. Level = fetch.bar - 1
    BY <1>3 DEF Level
  <2>. QED
    BY <1>1, <1>2, <1>3, <2>1 DEF Fetching
<1>4. CASE phase \in {"saved", "mark"}
  <2>1. Level = fetch.last
    BY <1>4 DEF Level
  <2>. QED
    BY <1>1, <1>2, <1>4, <2>1 DEF Fetching
<1>5. CASE ~Fetching
  <2>1. Level = Checked
    BY <1>5 DEF Level, Fetching
  <2>. QED
    BY <1>1, <2>1
<1>. QED
  BY <1>3, <1>4, <1>5 DEF Fetching

LEMMA LevelIs ==
  /\ phase = "bars" => Level = fetch.bar - 1
  /\ phase \in {"saved", "mark"} => Level = fetch.last
  /\ ~Fetching => Level = Checked
BY DEF Level, Fetching

LEMMA LevelIsNext ==
  /\ phase' = "bars" => Level' = fetch'.bar - 1
  /\ phase' \in {"saved", "mark"} => Level' = fetch'.last
  /\ ~Fetching' => Level' = Checked'
BY DEF Level, Fetching

(* What bars have made of a recommendation is not changed by later bars.   *)
LEMMA Carried ==
  ASSUME Inv, TypeInv, minute' \in Nat, minute <= minute',
         \A k \in 1..minute : bars'[k] = bars[k],
         NEW rec \in RecType, rec.from >= 2, NEW m \in Nat, Reflects(rec, m),
         Level' \in Nat, Level' <= m,
         NEW q, recs'[q].state = rec.state, recs'[q].from = rec.from
  PROVE  Reflects(recs[q], Level)'
<1>1. PICK n \in m..minute : Seen(rec, n) \/ (n > m /\ Partial(rec, n))
  BY DEF Reflects
<1>2. /\ minute \in Nat /\ n \in Nat /\ rec.from \in Nat /\ n \in 0..minute
      /\ \A k \in rec.from..n : bars'[k] = bars[k]
  BY <1>1, ClockFacts, Shaped
<1>3. n \in Level'..minute' /\ (n > m => n > Level')
  BY <1>1, <1>2
<1>4. \A e \in rec.from..n : Entered(rec, e) => Entered(recs[q], e)'
  <2>. SUFFICES ASSUME NEW e \in rec.from..n, Entered(rec, e) PROVE Entered(recs[q], e)'
    OBVIOUS
  <2>1. \A k \in rec.from..(e - 1) : k \in rec.from..n
    BY <1>2
  <2>. QED
    BY <1>2, <2>1 DEF Entered, Quiet
<1>5. \A e \in rec.from..n : \A j \in e..n : \A t : Below(e, j, t) => Below(e, j, t)'
  BY <1>2 DEF Below
<1>6. \A e \in rec.from..n : \A x \in e..n : \A t : Below(e, x - 1, t) => Below(e, x - 1, t)'
  BY <1>2 DEF Below
<1>7. \A k \in rec.from..n : Quiet(rec, k - 1) => Quiet(recs[q], k - 1)'
  BY <1>2 DEF Quiet
<1>8. Quiet(rec, n) => Quiet(recs[q], n)'
  BY <1>2 DEF Quiet
<1>9. Seen(rec, n) => Seen(recs[q], n)'
  <2>1. CASE rec.state = "setup" /\ Quiet(rec, n)
    BY <1>8, <2>1 DEF Seen
  <2>2. ASSUME rec.state = "invalidated", NEW k \in rec.from..n, bars[k].high = 0, bars[k].stop,
               Quiet(rec, k - 1)
        PROVE  Seen(recs[q], n)'
    BY <1>2, <1>7, <2>2 DEF Seen
  <2>3. ASSUME rec.state = "active", NEW e \in rec.from..n, Entered(rec, e), Below(e, n, 1)
        PROVE  Seen(recs[q], n)'
    <3>1. n \in e..n
      BY <1>2
    <3>. QED
      BY <1>4, <1>5, <2>3, <3>1 DEF Seen
  <2>4. ASSUME rec.state = "target_1r", NEW e \in rec.from..n, Entered(rec, e), Below(e, n, 2),
               NEW k \in e..n, bars[k].high = 2
        PROVE  Seen(recs[q], n)'
    <3>1. n \in e..n /\ bars'[k] = bars[k]
      BY <1>2
    <3>. QED
      BY <1>4, <1>5, <2>4, <3>1 DEF Seen
  <2>5. ASSUME rec.state \in {"stopped", "target_2r"}, NEW e \in rec.from..n, Entered(rec, e),
               NEW x \in e..n, Below(e, x - 1, 2),
               rec.state = "stopped" => bars[x].stop,
               rec.state = "target_2r" => ~bars[x].stop /\ bars[x].high = 3
        PROVE  Seen(recs[q], n)'
    <3>1. bars'[x] = bars[x]
      BY <1>2
    <3>. QED
      BY <1>4, <1>6, <2>5, <3>1 DEF Seen
  <2>. QED
    BY <2>1, <2>2, <2>3, <2>4, <2>5 DEF Seen
<1>10. n > m /\ Partial(rec, n) => Partial(recs[q], n)'
  BY <1>2, <1>4 DEF Partial
<1>. QED
  BY <1>1, <1>3, <1>9, <1>10 DEF Reflects

LEMMA CarriedOver ==
  ASSUME Inv, TypeInv, UNCHANGED <<minute, bars>>, NEW rec \in RecType, rec.from >= 2,
         NEW m \in Nat, Reflects(rec, m), Level' = m,
         NEW q, recs'[q].state = rec.state, recs'[q].from = rec.from
  PROVE  Reflects(recs[q], Level)'
<1>1. /\ minute' \in Nat /\ minute <= minute' /\ \A k \in 1..minute : bars'[k] = bars[k]
      /\ Level' \in Nat /\ Level' <= m
  BY ClockFacts
<1>. QED
  BY <1>1, Carried

(* Steps that change no state of a recommendation.                         *)
LEMMA ReplayKept ==
  ASSUME Inv, TypeInv, ReplayInv, UNCHANGED <<day, check>>, SamePlaces, missed \subseteq missed',
         \A r \in DOMAIN recs : recs'[r].state = recs[r].state,
         minute' \in Nat, minute <= minute', \A k \in 1..minute : bars'[k] = bars[k],
         Level' \in Nat, Checked <= Level', Level' <= Level,
         minute = Close /\ phase \in {"finalize", "off"} =>
           minute' = minute /\ phase' \in {"finalize", "off"}
  PROVE  ReplayInv'
<1>1. Checked' <= Level'
  BY DEF Checked
<1>2. ASSUME NEW r \in DOMAIN recs', recs'[r].day = day', r \notin missed'
      PROVE  Reflects(recs[r], Level)' \/ TimedOut(recs[r])'
  <2>1. r \in DOMAIN recs /\ recs[r].day = day /\ recs'[r].from = recs[r].from
        /\ recs'[r].state = recs[r].state
    BY <1>2 DEF SamePlaces
  <2>2. recs[r] \in RecType /\ recs[r].from >= 2
    BY <2>1 DEF Inv, RecInv, TypeInv
  <2>3. CASE Reflects(recs[r], Level)
    BY <2>1, <2>2, <2>3, LevelIsNat, Carried
  <2>4. CASE TimedOut(recs[r])
    BY <2>1, <2>4 DEF TimedOut, Close
  <2>. QED
    BY <1>2, <2>1, <2>3, <2>4 DEF ReplayInv
<1>. QED
  BY <1>1, <1>2 DEF ReplayInv

(* A bar that changes nothing any more is done with.                       *)
LEMMA BarDone ==
  ASSUME Inv, TypeInv, ReplayInv, phase = "bars", ToChange(fetch.bar) = {},
         NEW r \in DOMAIN recs, recs[r].day = day, r \notin missed
  PROVE  Reflects(recs[r], fetch.bar)
<1>1. recs[r] \in RecType /\ recs[r].from >= 2 /\ recs[r].from \in Nat /\ day \in Nat
  <2>1. recs[r] \in RecType /\ recs[r].from >= 2
    BY DEF Inv, RecInv, TypeInv
  <2>. QED
    BY <2>1, ClockFacts DEF RecType
<1>2. fetch.bar \in 1..minute /\ fetch.bar \in Nat
  BY ClockFacts DEF TypeInv, FetchInv, Fetching, FetchType
<1>3. Reflects(recs[r], fetch.bar - 1)
  BY LevelIs DEF ReplayInv, TimedOut
<1>4. CASE recs[r].from <= fetch.bar /\ recs[r].state \in OpenStates
  <2>1. Eligible(recs[r], day, fetch.bar) /\ Open(r)
    BY <1>4 DEF Eligible, Open
  <2>2. After(recs[r].state, bars[fetch.bar]) = recs[r].state
    BY <2>1 DEF ToChange, Changed
  <2>. QED
    BY <1>1, <1>2, <1>3, <1>4, <2>2, BarOnce
<1>5. CASE ~(recs[r].from <= fetch.bar /\ recs[r].state \in OpenStates)
  BY <1>1, <1>2, <1>3, <1>5, BarPassed
<1>. QED
  BY <1>4, <1>5

LEMMA ReplayStep == Inv /\ TypeInv /\ ReplayInv /\ [Next]_vars => ReplayInv'
<1>. SUFFICES ASSUME Inv, TypeInv, ReplayInv, [Next]_vars PROVE ReplayInv'
  OBVIOUS
<1>. USE ClockFacts, LevelIsNat, LevelIs, LevelIsNext
<1>1. /\ FetchInv
      /\ \A r \in DOMAIN recs : recs[r] \in RecType /\ recs[r].from >= 2 /\ recs[r].day \in 1..day
      /\ recs \in Seq(RecType)
  BY DEF Inv, RecInv, TypeInv
<1>2. Fetching => /\ fetch.bar \in Nat /\ fetch.bar >= 1 /\ fetch.last \in Nat /\ fetch.at \in Nat
                  /\ fetch.bar <= fetch.last /\ fetch.last <= fetch.at /\ fetch.at <= minute
  BY <1>1 DEF FetchInv, FetchType
<1>3. Checked <= Level
  BY DEF ReplayInv
<1>0. missed \subseteq missed'
  BY MissedMoves
<1>4. CASE Minute
  <2>1. /\ minute < Close /\ minute' = minute + 1
        /\ UNCHANGED <<day, recs, check, alerts, phase, fetch, cut>>
        /\ \E shape \in Shapes : bars' = Append(bars, shape)
    BY <1>4 DEF Minute, store
  <2>2. \A k \in 1..minute : bars'[k] = bars[k]
    <3>1. bars \in Seq(Shapes) /\ Len(bars) = minute
      BY DEF TypeInv
    <3>. QED
      BY <2>1, <3>1
  <2>3. Level' = Level
    BY <2>1 DEF Level, Checked
  <2>4. minute' \in Nat /\ minute <= minute' /\ ~(minute = Close)
    BY <2>1
  <2>5. \A r \in DOMAIN recs : recs'[r].state = recs[r].state
    BY <2>1
  <2>6. UNCHANGED <<day, check>> /\ Level' \in Nat /\ Checked <= Level' /\ Level' <= Level
    BY <1>3, <2>1, <2>3
  <2>. QED
    BY <2>1, <2>2, <2>4, <2>5, <2>6, SameRecs, <1>0, ReplayKept
<1>5. CASE NextDay
  <2>1. /\ day' = day + 1 /\ phase' = "off" /\ UNCHANGED <<recs, check>>
    BY <1>5 DEF NextDay, store
  <2>2. \A r \in DOMAIN recs' : recs'[r].day # day'
    BY <1>1, <2>1
  <2>3. check.day \in 0..day
    BY DEF TypeInv, CheckInv
  <2>4. Level' = Checked' /\ Checked' = 0
    BY <2>1, <2>3 DEF Checked, Fetching
  <2>. QED
    BY <2>2, <2>4 DEF ReplayInv
<1>6. CASE \/ StartWatch \/ ScanWithoutBars \/ QueueAlert \/ EndScan \/ StopWatch \/ EndWatch
           \/ UNCHANGED vars
  <2>1. UNCHANGED <<day, minute, bars, recs, check, fetch>>
    BY <1>6, NothingToExclude DEF StartWatch, ScanWithoutBars, QueueAlert, EndScan, StopWatch,
       EndWatch, vars, clock, store
  <2>2. (Fetching \/ Fetching') => phase' = phase
    BY <1>6 DEF StartWatch, ScanWithoutBars, QueueAlert, EndScan, StopWatch, EndWatch, vars,
       Waiting, Fetching
  <2>3. Level' = Level
    BY <2>1, <2>2 DEF Level, Checked, Fetching
  <2>4. minute = Close /\ phase \in {"finalize", "off"} => phase' \in {"finalize", "off"}
    BY <1>6 DEF StartWatch, ScanWithoutBars, QueueAlert, EndScan, StopWatch, EndWatch, vars, Waiting
  <2>. QED
    BY <1>3, <2>1, <2>3, <2>4, SameRecs, <1>0, ReplayKept
<1>7. CASE Scan("observe") \/ Scan("follow") \/ CatchUp
  <2>1. /\ UNCHANGED <<day, minute, bars, recs, check>> /\ phase' = "bars" /\ Waiting
    BY <1>7, NothingToExclude DEF Scan, CatchUp, clock, store
  <2>0. \E kind, widths : \E last \in FirstPending..minute : Fetch(kind, last, widths)
    <3>1. CASE Scan("observe") \/ Scan("follow")
      BY <3>1 DEF Scan
    <3>2. CASE CatchUp
      <4>1. minute = Close /\ Close \in FirstPending..minute
        BY <1>3, <3>2 DEF CatchUp, FirstPending, Checked
      <4>. QED
        BY <3>2, <4>1 DEF CatchUp
    <3>. QED
      BY <1>7, <3>1, <3>2
  <2>2. PICK first \in FirstPending..minute :
          /\ fetch'.bar = first
          /\ missed' = missed \cup {r \in OpenRecs :
               \E b \in FirstPending..(first - 1) : Eligible(recs[r], day, b)}
    BY <1>3, <2>0 DEF Fetch, FirstPending, Checked
  <2>3. /\ FirstPending = Checked + 1 /\ first \in Nat /\ first - 1 \in Checked..minute
        /\ Level = Checked /\ Level' = first - 1 /\ Checked' = Checked
    BY <2>1, <2>2 DEF FirstPending, Checked, Waiting, Fetching
  <2>4. ASSUME NEW r \in DOMAIN recs', recs'[r].day = day', r \notin missed'
        PROVE  Reflects(recs[r], Level)'
    <3>1. r \in DOMAIN recs /\ recs[r].day = day /\ r \notin missed
      BY <2>1, <2>2, <2>4
    <3>2. Reflects(recs[r], Checked)
      BY <2>1, <2>3, <3>1 DEF ReplayInv, TimedOut, Waiting
    <3>3. \/ recs[r].state \notin OpenStates \/ recs[r].from > first - 1
          \/ first - 1 = Checked
      <4>. SUFFICES ASSUME recs[r].state \in OpenStates, first - 1 # Checked
                    PROVE  recs[r].from > first - 1
        OBVIOUS
      <4>1. first - 1 \in FirstPending..(first - 1)
        BY <2>3
      <4>2. ~Eligible(recs[r], day, first - 1)
        BY <2>2, <2>4, <3>1, <4>1 DEF OpenRecs, Open
      <4>3. recs[r].from \in Nat
        BY <1>1, <3>1 DEF RecType
      <4>. QED
        BY <2>3, <3>1, <4>2, <4>3 DEF Eligible
    <3>4. Reflects(recs[r], first - 1)
      BY <1>1, <2>3, <3>1, <3>2, <3>3, BarsPassed
    <3>5. recs[r] \in RecType /\ recs[r].from >= 2 /\ first - 1 \in Nat
      BY <1>1, <2>3, <3>1
    <3>6. Level' = first - 1 /\ UNCHANGED <<minute, bars>> /\ recs'[r] = recs[r]
      BY <2>1, <2>3
    <3>. QED
      BY <3>4, <3>5, <3>6, CarriedOver
  <2>. QED
    BY <2>3, <2>4 DEF ReplayInv
<1>8. CASE ChangeState
  <2>. DEFINE s(r) == After(recs[r].state, bars[fetch.bar])
  <2>1. PICK r \in ToChange(fetch.bar) :
          recs' = [recs EXCEPT ![r] = SetState(recs[r], s(r), day, fetch.bar)]
    BY <1>8 DEF ChangeState
  <2>2. phase = "bars" /\ UNCHANGED <<day, minute, bars, check, phase, fetch>>
    BY <1>8 DEF ChangeState, clock
  <2>3. r \in DOMAIN recs /\ recs[r].state \in OpenStates /\ Eligible(recs[r], day, fetch.bar)
    BY DEF ToChange, Changed, Open
  <2>4. Level' = Level /\ Level = fetch.bar - 1 /\ Checked' = Checked
    BY <2>2 DEF Checked
  <2>5. s(r) \in States
    BY <2>3, AfterIsState DEF States
  <2>6. /\ recs'[r].state = s(r) /\ recs'[r].from = recs[r].from /\ recs'[r].day = recs[r].day
        /\ \A q \in DOMAIN recs : q # r => recs'[q] = recs[q]
        /\ DOMAIN recs' = DOMAIN recs
    BY <1>1, <2>1, <2>3 DEF SetState, RecType
  <2>7. ASSUME NEW q \in DOMAIN recs', recs'[q].day = day', q \notin missed'
        PROVE  Reflects(recs[q], Level)'
    <3>1. q \in DOMAIN recs /\ recs[q].day = day
      BY <2>2, <2>6, <2>7
    <3>2. Reflects(recs[q], fetch.bar - 1)
      BY <1>0, <2>2, <2>4, <2>7, <3>1 DEF ReplayInv, TimedOut
    <3>3. CASE q # r
      BY <1>1, <2>2, <2>4, <2>6, <3>1, <3>2, <3>3, CarriedOver
    <3>4. CASE q = r
      <4>. DEFINE new == [recs[r] EXCEPT !.state = s(r)]
      <4>1. new \in RecType /\ new.from = recs[r].from /\ new.state = s(r)
        BY <1>1, <2>3, <2>5 DEF RecType
      <4>2. recs[r].from <= fetch.bar /\ fetch.bar \in 1..minute
        BY <1>2, <2>2, <2>3, <3>1, <3>4 DEF Eligible, Fetching
      <4>. HIDE DEF new
      <4>3. Reflects(new, fetch.bar - 1)
        BY <1>1, <2>3, <3>2, <3>4, <4>1, <4>2, BarOnce
      <4>. QED
        BY <1>1, <2>2, <2>3, <2>4, <2>6, <3>4, <4>1, <4>3, CarriedOver
    <3>. QED
      BY <3>3, <3>4
  <2>. QED
    BY <1>3, <2>4, <2>7 DEF ReplayInv
<1>9. ASSUME phase = "bars", ToChange(fetch.bar) = {}, UNCHANGED <<day, minute, bars, recs>>,
             Level' = fetch.bar, Checked' <= Level'
      PROVE  ReplayInv'
  <2>1. ASSUME NEW r \in DOMAIN recs', recs'[r].day = day', r \notin missed'
        PROVE  Reflects(recs[r], Level)'
    <3>1. r \in DOMAIN recs /\ recs[r].day = day /\ r \notin missed
      BY <1>0, <1>9, <2>1
    <3>2. Reflects(recs[r], fetch.bar) /\ fetch.bar \in Nat
      BY <1>2, <1>9, <3>1, BarDone DEF Fetching
    <3>. QED
      BY <1>1, <1>9, <3>1, <3>2, CarriedOver
  <2>. QED
    BY <1>9, <2>1 DEF ReplayInv
<1>10. CASE NextBar
  <2>1. /\ phase = "bars" /\ phase' = "bars" /\ ToChange(fetch.bar) = {}
        /\ UNCHANGED <<day, minute, bars, recs, check>>
        /\ fetch' = [fetch EXCEPT !.bar = fetch.bar + 1]
    BY <1>10 DEF NextBar, clock, store
  <2>2. fetch'.bar = fetch.bar + 1 /\ fetch.bar \in Nat
    BY <1>1, <1>2, <2>1 DEF FetchInv, FetchType, Fetching
  <2>3. Level' = fetch.bar /\ Checked' = Checked /\ Level = fetch.bar - 1
    BY <2>1, <2>2 DEF Checked
  <2>. QED
    BY <1>3, <1>9, <2>1, <2>2, <2>3
<1>11. CASE Mark
  <2>1. /\ UNCHANGED <<day, minute, bars, recs>> /\ check' = [day |-> day, bar |-> fetch.last]
        /\ phase' \in {"finalize", "alerts"}
        /\ \/ phase = "mark"
           \/ phase = "bars" /\ fetch.bar = fetch.last /\ ToChange(fetch.bar) = {}
    BY <1>11 DEF Mark, clock
  <2>2. Checked' = fetch.last /\ Level' = fetch.last
    BY <2>1 DEF Checked, Fetching
  <2>3. fetch.last \in Nat
    BY <1>2, <2>1 DEF Fetching
  <2>4. CASE phase = "mark"
    <3>1. Level = fetch.last
      BY <2>4
    <3>2. ASSUME NEW r \in DOMAIN recs', recs'[r].day = day', r \notin missed'
          PROVE  Reflects(recs[r], Level)'
      <4>1. r \in DOMAIN recs /\ recs[r].day = day /\ Reflects(recs[r], fetch.last)
        BY <1>0, <2>1, <2>4, <3>1, <3>2 DEF ReplayInv, TimedOut
      <4>. QED
        BY <1>1, <2>1, <2>2, <2>3, <4>1, CarriedOver
    <3>. QED
      BY <2>2, <2>3, <3>2 DEF ReplayInv
  <2>5. CASE phase = "bars" /\ fetch.bar = fetch.last /\ ToChange(fetch.bar) = {}
    BY <1>9, <2>1, <2>2, <2>3, <2>5
  <2>. QED
    BY <2>1, <2>4, <2>5
<1>12. CASE Recommend
  <2>1. /\ phase = "bars" /\ phase' = "saved" /\ fetch.bar = fetch.last /\ ~CreatedToday
        /\ UNCHANGED <<day, minute, bars, check, fetch>>
        /\ \E from \in {fetch.at + 1, fetch.at + 2} : recs' = Append(recs, NewRec(from))
    BY <1>12 DEF Recommend, clock
  <2>2. PICK from \in {fetch.at + 1, fetch.at + 2} : recs' = Append(recs, NewRec(from))
    BY <2>1
  <2>3. /\ fetch.last \in Nat /\ fetch.at \in Nat /\ fetch.last <= fetch.at /\ fetch.at <= minute
        /\ fetch.bar \in Nat
    BY <1>2, <2>1 DEF Fetching
  <2>4. Level' = fetch.last /\ Checked' = Checked /\ Level = fetch.bar - 1
    BY <2>1 DEF Checked
  <2>5. ASSUME NEW r \in DOMAIN recs', recs'[r].day = day', r \notin missed'
        PROVE  Reflects(recs[r], Level)'
    <3>1. r = Len(recs) + 1
      <4>1. \A q \in DOMAIN recs : recs'[q] = recs[q] /\ recs[q].day # day
        BY <1>1, <2>1, <2>2 DEF CreatedToday
      <4>2. r \in 1..(Len(recs) + 1) /\ DOMAIN recs = 1..Len(recs) /\ Len(recs) \in Nat
        BY <1>1, <2>2
      <4>. QED
        BY <2>1, <2>5, <4>1, <4>2
    <3>2. recs'[r] = NewRec(from)
      BY <1>1, <2>2, <3>1
    <3>3. recs'[r].state = "setup" /\ recs'[r].from = from
      BY <3>2 DEF NewRec
    <3>4. Quiet(recs[r], fetch.last)'
      <4>1. \A a, l \in Nat : \A b \in {a + 1, a + 2} : l <= a => b..l = {}
        OBVIOUS
      <4>2. from \in {fetch.at + 1, fetch.at + 2}
        OBVIOUS
      <4>3. from..fetch.last = {}
        BY <2>3, <4>1, <4>2, Zenon
      <4>4. fetch' = fetch
        BY <2>1
      <4>. QED
        BY <3>3, <4>3, <4>4, Zenon DEF Quiet
    <3>5. Seen(recs[r], Level)'
      <4>1. Quiet(recs[r], Level)'
        BY <2>1, <2>4, <3>4 DEF Quiet
      <4>. QED
        BY <3>3, <4>1 DEF Seen
    <3>6. Level' \in Level'..minute'
      BY <2>1, <2>3, <2>4
    <3>. QED
      BY <3>5, <3>6 DEF Reflects
  <2>. QED
    BY <1>3, <2>1, <2>3, <2>4, <2>5 DEF ReplayInv
<1>13. CASE RecordCreation
  <2>1. /\ recs' = [recs EXCEPT ![Len(recs)] = SetState(recs[Len(recs)], "setup", day, fetch.at)]
        /\ phase = "saved" /\ phase' = "mark" /\ UNCHANGED <<day, minute, bars, check, fetch>>
    BY <1>13 DEF RecordCreation, clock
  <2>2. Len(recs) \in DOMAIN recs /\ recs[Len(recs)].state = "setup"
    BY <1>1, <2>1 DEF Inv, ScanInv
  <2>3. Next /\ ~Recommend
    BY <1>13, <2>1 DEF Next, Recommend
  <2>4. \A r \in DOMAIN recs : recs'[r].state = recs[r].state
    BY <1>1, <2>1, <2>2 DEF SetState, RecType
  <2>5. Level' = Level
    BY <2>1
  <2>. QED
    BY <1>3, <2>1, <2>3, <2>4, <2>5, MoveKeeps, <1>0, ReplayKept
<1>14. CASE TimeExit
  <2>1. PICK r \in DOMAIN recs :
          /\ Due(r)
          /\ recs' = [recs EXCEPT ![r] =
                SetState(recs[r], "time_exit", recs[r].day, Bars[recs[r].day] + 1)]
    BY <1>14 DEF TimeExit
  <2>2. phase = "finalize" /\ UNCHANGED <<day, minute, bars, check, phase, fetch>>
    BY <1>14 DEF TimeExit, clock
  <2>3. Level' = Level /\ Checked' = Checked
    BY <2>2 DEF Level, Checked
  <2>4. /\ recs'[r].state = "time_exit" /\ recs'[r].day = recs[r].day
        /\ \A q \in DOMAIN recs : q # r => recs'[q] = recs[q]
        /\ DOMAIN recs' = DOMAIN recs
    BY <1>1, <2>1 DEF SetState, RecType
  <2>5. ASSUME NEW q \in DOMAIN recs', recs'[q].day = day', q \notin missed'
        PROVE  Reflects(recs[q], Level)' \/ TimedOut(recs[q])'
    <3>1. CASE q = r
      <4>1. minute = Close
        BY <1>1, <2>1, <2>2, <2>4, <2>5, <3>1 DEF Due
      <4>. QED
        BY <2>2, <2>4, <3>1, <4>1 DEF TimedOut, Close
    <3>2. CASE q # r
      <4>1. q \in DOMAIN recs /\ recs'[q] = recs[q] /\ recs[q].day = day
        BY <2>2, <2>4, <2>5, <3>2
      <4>2. CASE Reflects(recs[q], Level)
        BY <1>1, <2>2, <2>3, <4>1, <4>2, CarriedOver
      <4>3. CASE TimedOut(recs[q])
        BY <2>2, <4>1, <4>3 DEF TimedOut, Close
      <4>. QED
        BY <1>0, <2>5, <4>1, <4>2, <4>3 DEF ReplayInv
    <3>. QED
      BY <3>1, <3>2
  <2>. QED
    BY <1>3, <2>3, <2>5 DEF ReplayInv
<1>15. CASE Die
  <2>1. /\ phase' \in {"off", "finalize", "idle"} /\ phase # "off"
        /\ phase = "finalize" => phase' = "off"
        /\ UNCHANGED <<day, minute, bars, recs, check>>
    <3>1. /\ phase # "off" /\ UNCHANGED <<day, minute, bars, recs, check>>
          /\ phase' \in {"off", "finalize", "idle"}
      BY <1>15 DEF Die, clock, store
    <3>2. ASSUME phase = "finalize" PROVE phase' = "off"
      <4>1. fetch = NoFetch
        BY <1>1, <3>2 DEF FetchInv, Fetching
      <4>2. fetch.kind # "catch_up" /\ ~Waiting
        BY <3>2, <4>1 DEF NoFetch, Waiting
      <4>. QED
        BY <1>15, <3>2, <4>2 DEF Die
    <3>. QED
      BY <3>1, <3>2
  <2>2. Level' = Checked
    BY <2>1 DEF Checked, Fetching
  <2>. QED
    BY <1>3, <2>1, <2>2, SameRecs, <1>0, ReplayKept
<1>. QED
  BY <1>4, <1>5, <1>6, <1>7, <1>8, <1>10, <1>11, <1>12, <1>13, <1>14, <1>15 DEF Next

(* Every recommendation of today is, at the bar the scan has reached, what *)
(* the bars up to it make of it, or a later one has been processed before  *)
(* its scan died.                                                          *)
THEOREM ReplayInvariance == Spec => []ReplayInv
<1>1. Init => ReplayInv
  BY DEF Init, ReplayInv, Level, Checked
<1>. QED
  BY <1>1, Invariance, TypeInvariance, ReplayStep, PTL DEF Spec

(* However many scans die between the commits of a bar and process it      *)
(* again, at each checkpoint every recommendation of the day of which no   *)
(* fetch left out a bar is what its bars make of it, or a later bar        *)
(* already seen (process_forward, engine.py:117).                          *)
THEOREM CheckpointsAreTrue == Spec => CheckpointIsTrue
<1>1. ASSUME Inv, TypeInv, ReplayInv, Next, check' # check,
             NEW r \in DOMAIN recs, recs[r].day = day, r \notin missed
      PROVE  Counted(recs[r], check'.bar)
  <2>1. Mark
    BY <1>1 DEF Next, Minute, NextDay, StartWatch, Scan, ScanWithoutBars, CatchUp, ChangeState,
       NextBar, Recommend, RecordCreation, QueueAlert, EndScan, StopWatch, TimeExit, EndWatch,
       Die, clock, store
  <2>2. check'.bar = fetch.last
    BY <2>1 DEF Mark
  <2>3. /\ recs[r] \in RecType /\ recs[r].from >= 2 /\ fetch.last \in 1..minute
    BY <1>1, <2>1, ClockFacts DEF Inv, RecInv, TypeInv, FetchInv, FetchType, Fetching, Mark
  <2>4. Reflects(recs[r], fetch.last)
    <3>1. CASE phase = "mark"
      BY <1>1, <3>1, LevelIs DEF ReplayInv, TimedOut
    <3>2. CASE phase = "bars" /\ fetch.bar = fetch.last /\ ToChange(fetch.bar) = {}
      BY <1>1, <3>2, BarDone
    <3>. QED
      BY <2>1, <3>1, <3>2 DEF Mark
  <2>. QED
    BY <1>1, <2>2, <2>3, <2>4, ReflectsOutcome
<1>2. Inv /\ TypeInv /\ ReplayInv /\ [Next]_vars
      => [check' # check =>
           \A r \in {q \in DOMAIN recs : recs[q].day = day} \ missed :
             Counted(recs[r], check'.bar)]_vars
  BY <1>1 DEF vars
<1>. QED
  BY <1>2, Invariance, TypeInvariance, ReplayInvariance, PTL DEF Spec, CheckpointIsTrue
=============================================================================
