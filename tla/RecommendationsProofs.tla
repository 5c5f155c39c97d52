----------------------- MODULE RecommendationsProofs ------------------------
(***************************************************************************)
(* Theorems about Recommendations, for any number of sessions of any       *)
(* length and bars of any shape: one recommendation a day, none that the   *)
(* repair of backdated ones would exclude, one trade of each whatever scan *)
(* is repeated, and none open overnight unless its session was cut short.  *)
(***************************************************************************)
EXTENDS Recommendations, SequenceTheorems, WellFoundedInduction, TLAPS

States == OpenStates \cup EndStates
RecType == [day : Nat, from : Nat, state : States, events : Seq(Events)]

(* The clock is within the session.                                        *)
ClockInv == day \in 1..Days /\ minute \in 0..Close

(* No recommendation is of a later day, or waits for a bar later than the  *)
(* close, at which it is timed out.                                        *)
RecInv ==
  /\ recs \in Seq(RecType)
  /\ \A r \in DOMAIN recs :
       recs[r].day \in 1..day /\ recs[r].from <= Bars[recs[r].day] + 1

(* A scan that may recommend has observed its bars within the session, and *)
(* until its creation is recorded a recommendation has no events.          *)
ScanInv ==
  /\ phase = "bars" /\ fetch.kind = "observe" => fetch.at \in 0..(Close - 1)
  /\ phase = "saved" => /\ Len(recs) > 0 /\ recs[Len(recs)].events = <<>>
                        /\ recs[Len(recs)].state = "setup"

Inv == ClockInv /\ RecInv /\ ScanInv /\ OncePerDay /\ NothingExcluded

-----------------------------------------------------------------------------
(* An event that is not early, or the first one, leaves a recommendation   *)
(* its place and adds nothing that would exclude it.                       *)
LEMMA SetStateKeeps ==
  ASSUME NEW rec \in RecType, NEW s \in States, NEW d, NEW b,
         Eligible(rec, d, b) \/ rec.events = <<>>,
         ~Backdated(rec)
  PROVE  LET new == SetState(rec, s, d, b)
         IN  /\ new \in RecType
             /\ new.day = rec.day /\ new.from = rec.from
             /\ ~Backdated(new)
<1> DEFINE event == [state |-> s, early |-> ~Eligible(rec, d, b)]
           new == SetState(rec, s, d, b)
<1>1. event \in Events
  BY DEF Events, States
<1>2. rec.events \in Seq(Events)
  BY DEF RecType
<1>3. new = [rec EXCEPT !.state = s, !.events = Append(rec.events, event)]
  BY DEF SetState, RecType
<1>4. new \in RecType /\ new.day = rec.day /\ new.from = rec.from
  <2>1. Append(rec.events, event) \in Seq(Events)
    BY <1>1, <1>2
  <2> QED BY <2>1, <1>3 DEF RecType
<1>5. new.events = Append(rec.events, event)
  BY <1>3 DEF RecType
<1>6. ASSUME NEW i \in 2..Len(new.events) PROVE ~new.events[i].early
  <2>1. Len(new.events) = Len(rec.events) + 1 /\ Len(rec.events) \in Nat
    BY <1>1, <1>2, <1>5
  <2>2. CASE i <= Len(rec.events)
    <3>1. new.events[i] = rec.events[i]
      BY <1>1, <1>2, <1>5, <2>2
    <3> QED BY <3>1, <2>2, <2>1 DEF Backdated
  <2>3. CASE i = Len(rec.events) + 1
    <3>1. new.events[i] = event
      BY <1>1, <1>2, <1>5, <2>3
    <3>2. Len(rec.events) # 0
      BY <2>1, <2>3
    <3>3. Eligible(rec, d, b)
      BY <3>2
    <3>4. event.early = ~Eligible(rec, d, b)
      OBVIOUS
    <3> HIDE DEF event, new
    <3> QED BY <3>1, <3>3, <3>4, Zenon
  <2> QED BY <2>1, <2>2, <2>3
<1> HIDE DEF new
<1> QED BY <1>4, <1>6 DEF Backdated, new

(* Replacing a recommendation by one in the same place keeps all of them.  *)
LEMMA ReplaceKeeps ==
  ASSUME Inv, NEW r \in DOMAIN recs, NEW new \in RecType,
         new.day = recs[r].day, new.from = recs[r].from, ~Backdated(new),
         recs' = [recs EXCEPT ![r] = new], day' = day
  PROVE  (RecInv /\ OncePerDay /\ NothingExcluded)' /\ Len(recs') = Len(recs)
<1>1. recs' \in Seq(RecType) /\ DOMAIN recs' = DOMAIN recs /\ Len(recs') = Len(recs)
  BY DEF Inv, RecInv
<1>2. \A q \in DOMAIN recs : recs'[q] = IF q = r THEN new ELSE recs[q]
  BY DEF Inv, RecInv
<1>3. \A q \in DOMAIN recs : recs'[q].day = recs[q].day /\ recs'[q].from = recs[q].from
  BY <1>2
<1>4. RecInv'
  BY <1>1, <1>3 DEF Inv, RecInv
<1>5. OncePerDay'
  BY <1>1, <1>3 DEF Inv, OncePerDay
<1>6. NothingExcluded'
  BY <1>1, <1>2 DEF Inv, NothingExcluded, Backdated
<1> QED BY <1>1, <1>4, <1>5, <1>6

(* The repair at the start of a scan changes nothing.                      *)
LEMMA NothingToExclude ==
  ASSUME Inv PROVE Excluded = recs
<1>1. \A r \in DOMAIN recs : ~Backdated(recs[r])
  BY DEF Inv, NothingExcluded
<1>2. Excluded = [r \in DOMAIN recs |-> recs[r]]
  BY <1>1 DEF Excluded
<1>3. recs \in Seq(RecType)
  BY DEF Inv, RecInv
<1> QED BY <1>2, <1>3

-----------------------------------------------------------------------------
LEMMA InitInv == Init => Inv
BY SessionAssumption
   DEF Init, Inv, ClockInv, RecInv, ScanInv, OncePerDay, NothingExcluded, Close

(* Steps that leave the recommendations and the day alone.                 *)
LEMMA RecsUnchanged ==
  ASSUME Inv, UNCHANGED <<recs, day>>
  PROVE  (RecInv /\ OncePerDay /\ NothingExcluded)'
BY DEF Inv, RecInv, OncePerDay, NothingExcluded, Backdated

LEMMA MinuteInv == Inv /\ Minute => Inv'
<1> SUFFICES ASSUME Inv, Minute PROVE Inv'
  OBVIOUS
<1>1. Close \in Nat
  BY SessionAssumption DEF Inv, ClockInv, Close
<1>2. ClockInv' /\ ScanInv'
  BY <1>1 DEF Inv, ClockInv, ScanInv, Minute, Close, store
<1> QED BY <1>2, RecsUnchanged DEF Minute, store, Inv

LEMMA NextDayInv == Inv /\ NextDay => Inv'
<1> SUFFICES ASSUME Inv, NextDay PROVE Inv'
  OBVIOUS
<1>1. day' = day + 1 /\ day' \in 1..Days /\ UNCHANGED recs
  BY SessionAssumption DEF Inv, ClockInv, NextDay, store
<1>2. ClockInv'
  BY <1>1, SessionAssumption DEF ClockInv, NextDay, Close
<1>3. RecInv'
  BY <1>1 DEF Inv, ClockInv, RecInv
<1>4. ScanInv'
  BY DEF ScanInv, NextDay
<1>5. (OncePerDay /\ NothingExcluded)'
  BY <1>1 DEF Inv, OncePerDay, NothingExcluded, Backdated
<1> QED BY <1>2, <1>3, <1>4, <1>5 DEF Inv

LEMMA ScanKeepsInv == ASSUME NEW kind \in {"observe", "follow"}
                      PROVE  Inv /\ Scan(kind) => Inv'
<1> SUFFICES ASSUME Inv, Scan(kind) PROVE Inv'
  OBVIOUS
<1>1. UNCHANGED <<recs, day, minute>>
  BY NothingToExclude DEF Scan, clock
<1>2. ClockInv'
  BY <1>1 DEF Inv, ClockInv, Close
<1>3. phase' = "bars" /\ fetch'.at = minute
  BY DEF Scan, Fetch
<1>4. minute \in 0..(Close - 1) /\ Close' = Close
  BY <1>1, SessionAssumption DEF Inv, ClockInv, Scan, Close
<1>5. ScanInv'
  BY <1>3, <1>4 DEF ScanInv
<1> QED BY <1>1, <1>2, <1>5, RecsUnchanged DEF Inv

LEMMA AfterIsState ==
  ASSUME NEW state \in States, NEW bar PROVE After(state, bar) \in States
<1>1. After(state, bar) \in
        {"invalidated", "active", "stopped", "target_2r", "target_1r", state}
  BY Zenon DEF After
<1> QED BY <1>1 DEF States, OpenStates, EndStates

LEMMA ChangeStateInv == Inv /\ ChangeState => Inv'
<1> SUFFICES ASSUME Inv, ChangeState PROVE Inv'
  OBVIOUS
<1> USE DEF ChangeState
<1>1. PICK r \in ToChange(fetch.bar) :
        recs' = [recs EXCEPT ![r] =
          SetState(recs[r], After(recs[r].state, bars[fetch.bar]), day, fetch.bar)]
  OBVIOUS
<1> DEFINE new == SetState(recs[r], After(recs[r].state, bars[fetch.bar]), day, fetch.bar)
<1>2. r \in DOMAIN recs /\ recs[r] \in RecType /\ ~Backdated(recs[r])
  BY DEF ToChange, Inv, RecInv, NothingExcluded
<1>3. After(recs[r].state, bars[fetch.bar]) \in States
  BY <1>2, AfterIsState DEF RecType
<1>4. Eligible(recs[r], day, fetch.bar)
  BY DEF ToChange, Changed
<1>5. new \in RecType /\ new.day = recs[r].day /\ new.from = recs[r].from /\ ~Backdated(new)
  BY <1>2, <1>3, <1>4, SetStateKeeps
<1>6. recs' = [recs EXCEPT ![r] = new] /\ day' = day
  BY <1>1 DEF clock
<1> HIDE DEF new
<1>7. (RecInv /\ OncePerDay /\ NothingExcluded)'
  BY <1>2, <1>5, <1>6, ReplaceKeeps
<1>8. ClockInv' /\ ScanInv'
  BY DEF Inv, ClockInv, ScanInv, Close, clock
<1> QED BY <1>7, <1>8 DEF Inv

LEMMA TimeExitInv == Inv /\ TimeExit => Inv'
<1> SUFFICES ASSUME Inv, TimeExit PROVE Inv'
  OBVIOUS
<1> USE DEF TimeExit
<1>1. PICK r \in DOMAIN recs :
        recs' = [recs EXCEPT ![r] =
          SetState(recs[r], "time_exit", recs[r].day, Bars[recs[r].day] + 1)]
  OBVIOUS
<1> DEFINE end == Bars[recs[r].day] + 1
           new == SetState(recs[r], "time_exit", recs[r].day, end)
<1>2. recs[r] \in RecType /\ ~Backdated(recs[r])
  BY DEF Inv, RecInv, NothingExcluded
<1>3. Eligible(recs[r], recs[r].day, end)
  <2>1. Bars[recs[r].day] \in Nat /\ recs[r].from \in Nat
    <3>1. recs[r].day \in 1..Days
      <4>1. recs[r].day \in 1..day /\ day \in 1..Days
        BY DEF Inv, ClockInv, RecInv
      <4> QED BY <4>1, SessionAssumption
    <3> QED BY <1>2, <3>1, SessionAssumption DEF RecType
  <2> QED BY <2>1 DEF Inv, RecInv, Eligible
<1>4. new \in RecType /\ new.day = recs[r].day /\ new.from = recs[r].from /\ ~Backdated(new)
  <2> HIDE DEF end
  <2>1. "time_exit" \in States
    BY DEF States, EndStates
  <2> QED BY <1>2, <1>3, <2>1, SetStateKeeps
<1>5. recs' = [recs EXCEPT ![r] = new] /\ day' = day
  BY <1>1 DEF clock
<1> HIDE DEF new
<1>6. (RecInv /\ OncePerDay /\ NothingExcluded)'
  BY <1>4, <1>5, ReplaceKeeps
<1>7. ClockInv' /\ ScanInv'
  BY DEF Inv, ClockInv, ScanInv, Close, clock
<1> QED BY <1>6, <1>7 DEF Inv

LEMMA RecommendInv == Inv /\ Recommend => Inv'
<1> SUFFICES ASSUME Inv, Recommend PROVE Inv'
  OBVIOUS
<1> USE DEF Recommend
<1>1. PICK from \in {fetch.at + 1, fetch.at + 2} : recs' = Append(recs, NewRec(from))
  OBVIOUS
<1>2. Close \in Nat /\ day \in 1..Days
  BY SessionAssumption DEF Inv, ClockInv, Close
<1>3. from \in Nat /\ from <= Close + 1
  BY <1>2 DEF Inv, ScanInv
<1>4. NewRec(from) \in RecType
  BY <1>2, <1>3 DEF NewRec, RecType, States, OpenStates
<1>5. /\ recs \in Seq(RecType) /\ recs' \in Seq(RecType)
      /\ Len(recs') = Len(recs) + 1 /\ recs'[Len(recs')] = NewRec(from)
      /\ \A r \in DOMAIN recs : recs'[r] = recs[r]
      /\ DOMAIN recs' = DOMAIN recs \cup {Len(recs')}
  BY <1>1, <1>4 DEF Inv, RecInv
<1>6. day' = day /\ UNCHANGED <<minute, fetch>>
  BY DEF clock
<1>7. RecInv'
  BY <1>2, <1>3, <1>5, <1>6 DEF Inv, RecInv, NewRec, Close
<1>8. OncePerDay'
  BY <1>5, <1>6 DEF Inv, OncePerDay, NewRec, CreatedToday
<1>9. NothingExcluded'
  BY <1>5 DEF Inv, NothingExcluded, Backdated, NewRec
<1>10. ClockInv' /\ ScanInv'
  BY <1>5, <1>6 DEF Inv, ClockInv, RecInv, ScanInv, Close, NewRec
<1> QED BY <1>7, <1>8, <1>9, <1>10 DEF Inv

LEMMA RecordCreationInv == Inv /\ RecordCreation => Inv'
<1> SUFFICES ASSUME Inv, RecordCreation PROVE Inv'
  OBVIOUS
<1> USE DEF RecordCreation
<1> DEFINE r == Len(recs)
           new == SetState(recs[r], "setup", day, fetch.at)
<1>1. r \in DOMAIN recs /\ recs[r].events = <<>>
  BY DEF Inv, RecInv, ScanInv
<1>2. recs[r] \in RecType /\ ~Backdated(recs[r])
  BY <1>1 DEF Inv, RecInv, NothingExcluded
<1>3. "setup" \in States
  BY DEF States, OpenStates
<1>4. new \in RecType /\ new.day = recs[r].day /\ new.from = recs[r].from /\ ~Backdated(new)
  BY <1>1, <1>2, <1>3, SetStateKeeps
<1>5. recs' = [recs EXCEPT ![r] = new] /\ day' = day
  BY DEF clock
<1> HIDE DEF new, r
<1>6. (RecInv /\ OncePerDay /\ NothingExcluded)'
  BY <1>1, <1>4, <1>5, ReplaceKeeps
<1>7. ClockInv' /\ ScanInv'
  BY DEF Inv, ClockInv, ScanInv, Close, clock
<1> QED BY <1>6, <1>7 DEF Inv

(* The other steps leave day and recommendations alone, and none of them   *)
(* begins a scan.                                                          *)
LEMMA OtherInv ==
  Inv /\ (\/ StartWatch \/ ScanWithoutBars \/ CatchUp \/ NextBar \/ Mark
          \/ QueueAlert \/ EndScan \/ StopWatch \/ EndWatch \/ Die) => Inv'
<1> SUFFICES ASSUME Inv,
                    \/ StartWatch \/ ScanWithoutBars \/ CatchUp \/ NextBar \/ Mark
                    \/ QueueAlert \/ EndScan \/ StopWatch \/ EndWatch \/ Die
             PROVE  Inv'
  OBVIOUS
<1>1. UNCHANGED <<recs, day, minute>>
  BY NothingToExclude DEF StartWatch, ScanWithoutBars, CatchUp, NextBar, Mark,
     QueueAlert, EndScan, StopWatch, EndWatch, Die, clock, store
<1>2. ClockInv'
  BY <1>1 DEF Inv, ClockInv, Close
<1>3. ScanInv'
  <2>1. CASE NextBar
    BY <1>1, <2>1 DEF Inv, ScanInv, NextBar, Close
  <2>2. CASE CatchUp
    BY <2>2 DEF ScanInv, CatchUp, Fetch
  <2>3. CASE StartWatch \/ ScanWithoutBars \/ Mark \/ QueueAlert \/ EndScan
             \/ StopWatch \/ EndWatch \/ Die
    <3>1. phase' \notin {"bars", "saved"}
      BY <2>3 DEF StartWatch, ScanWithoutBars, Mark, QueueAlert, EndScan,
         StopWatch, EndWatch, Die
    <3> QED BY <3>1 DEF ScanInv
  <2> QED BY <2>1, <2>2, <2>3
<1> QED BY <1>1, <1>2, <1>3, RecsUnchanged DEF Inv

LEMMA StutterInv == Inv /\ UNCHANGED vars => Inv'
<1> SUFFICES ASSUME Inv, UNCHANGED vars PROVE Inv'
  OBVIOUS
<1> USE DEF vars, clock, store
<1>1. ClockInv' /\ ScanInv'
  BY DEF Inv, ClockInv, ScanInv, Close
<1> QED BY <1>1, RecsUnchanged DEF Inv

(* The invariant that the two theorems below rest on holds at all times    *)
(* (engine.py, store.py, causality.py).                                    *)
THEOREM Invariance == Spec => []Inv
<1>1. Inv /\ [Next]_vars => Inv'
  BY MinuteInv, NextDayInv, ScanKeepsInv, ChangeStateInv, RecommendInv,
     RecordCreationInv, TimeExitInv, OtherInv, StutterInv DEF Next
<1> QED BY InitInv, <1>1, PTL DEF Spec

(* There is never more than one recommendation of a day, wherever scans    *)
(* die (process, engine.py:74).                                            *)
THEOREM OneRecommendationADay == Spec => []OncePerDay
BY Invariance, PTL DEF Inv

(* The engine never records an event of a bar that began before the        *)
(* recommendation, so exclude_backdated_recommendations (causality.py:21)  *)
(* changes nothing.                                                        *)
THEOREM NeverBackdated == Spec => []NothingExcluded
BY Invariance, PTL DEF Inv
-----------------------------------------------------------------------------
(* The states of a trade, in the order in which it passes through them.    *)
Rank(state) ==
  CASE state = "setup" -> 0 [] state = "active" -> 1 [] state = "target_1r" -> 2
    [] OTHER -> 3

LEMMA RankOpen ==
  /\ Rank("setup") = 0 /\ Rank("active") = 1 /\ Rank("target_1r") = 2
  /\ \A s \in EndStates : Rank(s) = 3
  /\ \A s \in States : Rank(s) \in 0..3 /\ (Rank(s) < 3 <=> s \in OpenStates)
<1>1. /\ Rank("setup") = 0 /\ Rank("active") = 1 /\ Rank("target_1r") = 2
  BY DEF Rank
<1>2. \A s \in EndStates : Rank(s) = 3
  BY DEF Rank, EndStates
<1>. QED
  BY <1>1, <1>2 DEF States, OpenStates

(* A bar takes a trade on, never back.                                     *)
LEMMA AfterRises ==
  ASSUME NEW state \in OpenStates, NEW bar, After(state, bar) # state
  PROVE  After(state, bar) \in States /\ Rank(state) < Rank(After(state, bar))
<1>1. After(state, bar) \in States
  BY AfterIsState DEF States
<1>2. CASE state = "setup"
  <2>1. After(state, bar) \in {"invalidated", "active", "setup"}
    BY <1>2, Zenon DEF After
  <2>. QED
    BY <1>1, <1>2, <2>1, RankOpen DEF EndStates
<1>3. CASE state = "active"
  <2>1. After(state, bar) \in {"stopped", "target_2r", "target_1r", "active"}
    BY <1>3, Zenon DEF After
  <2>. QED
    BY <1>1, <1>3, <2>1, RankOpen DEF EndStates
<1>4. CASE state = "target_1r"
  <2>1. After(state, bar) \in {"stopped", "target_2r", "target_1r"}
    BY <1>4, Zenon DEF After
  <2>. QED
    BY <1>1, <1>4, <2>1, RankOpen DEF EndStates
<1>. QED
  BY <1>2, <1>3, <1>4 DEF OpenStates

(* What a step may do to the recommendations: nothing, a state that comes  *)
(* later in the trade, the event of a creation, or a new one.              *)
Rises(r, s) == Open(r) /\ Rank(recs[r].state) < Rank(s)
Creates(r, s) == phase = "saved" /\ r = Len(recs) /\ s = "setup"
RecsMove ==
  \/ recs' = recs
  \/ \E r \in DOMAIN recs, s \in States : \E d, b :
       /\ recs' = [recs EXCEPT ![r] = SetState(recs[r], s, d, b)]
       /\ Rises(r, s) \/ Creates(r, s)
  \/ Recommend

LEMMA NextMoves ==
  ASSUME Inv, Next
  PROVE  RecsMove
<1>1. CASE \/ Minute \/ NextDay \/ StartWatch \/ Scan("observe") \/ Scan("follow")
           \/ ScanWithoutBars \/ CatchUp \/ NextBar \/ Mark \/ QueueAlert \/ EndScan
           \/ StopWatch \/ EndWatch \/ Die
  BY <1>1, NothingToExclude DEF RecsMove, Minute, NextDay, StartWatch, Scan, ScanWithoutBars,
     CatchUp, NextBar, Mark, QueueAlert, EndScan, StopWatch, EndWatch, Die, store
<1>2. CASE ChangeState
  <2>. DEFINE s(r) == After(recs[r].state, bars[fetch.bar])
  <2>1. PICK r \in ToChange(fetch.bar) :
          recs' = [recs EXCEPT ![r] = SetState(recs[r], s(r), day, fetch.bar)]
    BY <1>2 DEF ChangeState
  <2>2. r \in DOMAIN recs /\ Open(r) /\ s(r) # recs[r].state
    BY DEF ToChange, Changed
  <2>3. s(r) \in States /\ Rises(r, s(r))
    BY <2>2, AfterRises DEF Open, Rises
  <2>. QED
    BY <2>1, <2>2, <2>3 DEF RecsMove
<1>3. CASE TimeExit
  <2>1. PICK r \in DOMAIN recs :
          /\ Due(r)
          /\ recs' = [recs EXCEPT ![r] =
                SetState(recs[r], "time_exit", recs[r].day, Bars[recs[r].day] + 1)]
    BY <1>3 DEF TimeExit
  <2>2. "time_exit" \in States /\ Rises(r, "time_exit")
    BY <2>1, RankOpen DEF Due, Open, Rises, States, EndStates
  <2>. QED
    BY <2>1, <2>2 DEF RecsMove
<1>4. CASE RecordCreation
  <2>1. Len(recs) \in DOMAIN recs /\ "setup" \in States
    BY <1>4 DEF RecordCreation, Inv, ScanInv, RecInv, States, OpenStates
  <2>2. recs' = [recs EXCEPT ![Len(recs)] = SetState(recs[Len(recs)], "setup", day, fetch.at)]
    BY <1>4 DEF RecordCreation
  <2>. QED
    BY <1>4, <2>1, <2>2 DEF RecsMove, Creates, RecordCreation
<1>5. CASE Recommend
  BY <1>5 DEF RecsMove
<1>. QED
  BY <1>1, <1>2, <1>3, <1>4, <1>5 DEF Next

(* set_state adds one event, of the new state, to those before.            *)
LEMMA SetStateAppends ==
  ASSUME NEW rec \in RecType, NEW s \in States, NEW d, NEW b
  PROVE  LET new == SetState(rec, s, d, b)
         IN  /\ new \in RecType
             /\ new.day = rec.day /\ new.from = rec.from /\ new.state = s
             /\ Len(new.events) = Len(rec.events) + 1
             /\ \A i \in DOMAIN rec.events : new.events[i] = rec.events[i]
             /\ new.events[Len(new.events)].state = s
<1>. DEFINE event == [state |-> s, early |-> ~Eligible(rec, d, b)]
            new == SetState(rec, s, d, b)
<1>1. event \in Events /\ event.state = s
  BY DEF Events, States
<1>2. rec.events \in Seq(Events)
  BY DEF RecType
<1>3. new = [rec EXCEPT !.state = s, !.events = Append(rec.events, event)]
  BY DEF SetState, RecType
<1>. HIDE DEF event
<1>4. Append(rec.events, event) \in Seq(Events)
  BY <1>1, <1>2
<1>5. /\ new \in RecType /\ new.day = rec.day /\ new.from = rec.from /\ new.state = s
      /\ new.events = Append(rec.events, event)
  BY <1>3, <1>4 DEF RecType
<1>. HIDE DEF new
<1>6. /\ Len(new.events) = Len(rec.events) + 1
      /\ \A i \in DOMAIN rec.events : new.events[i] = rec.events[i]
      /\ new.events[Len(new.events)] = event
  BY <1>1, <1>2, <1>5
<1>. QED
  BY <1>1, <1>5, <1>6 DEF new

(* The events of a recommendation go up in the order of the trade, to the  *)
(* state it is in.                                                         *)
History(rec) ==
  \A i \in DOMAIN rec.events :
    /\ Rank(rec.events[i].state) <= Rank(rec.state)
    /\ \A j \in DOMAIN rec.events :
         i < j => Rank(rec.events[i].state) < Rank(rec.events[j].state)
HistoryInv == \A r \in DOMAIN recs : History(recs[r])

LEMMA HistoryGrows ==
  ASSUME NEW rec \in RecType, NEW s \in States, NEW d, NEW b, History(rec),
         Rank(rec.state) < Rank(s) \/ rec.events = <<>>
  PROVE  History(SetState(rec, s, d, b))
<1>. DEFINE new == SetState(rec, s, d, b)
            n == Len(rec.events)
<1>1. /\ new \in RecType /\ new.state = s /\ Len(new.events) = n + 1
      /\ \A i \in DOMAIN rec.events : new.events[i] = rec.events[i]
      /\ new.events[n + 1].state = s
  BY SetStateAppends
<1>. HIDE DEF new
<1>2. n \in Nat /\ DOMAIN rec.events = 1..n /\ DOMAIN new.events = 1..n + 1
  BY <1>1 DEF RecType
<1>3. \A i \in 1..n : rec.events[i].state \in States
  <2>1. rec.events \in Seq(Events)
    BY DEF RecType
  <2>2. \A i \in 1..n : rec.events[i] \in Events
    BY <1>2, <2>1
  <2>. QED
    BY <2>2 DEF Events, States
<1>4. /\ Rank(s) \in Nat /\ Rank(rec.state) \in Nat
      /\ \A i \in 1..n : Rank(rec.events[i].state) \in Nat
  BY <1>3, RankOpen DEF RecType
<1>5. \A i \in 1..n : Rank(rec.events[i].state) < Rank(s)
  <2>1. CASE rec.events = <<>>
    BY <1>2, <2>1
  <2>2. CASE Rank(rec.state) < Rank(s)
    BY <1>2, <1>4, <2>2 DEF History
  <2>. QED
    BY <2>1, <2>2
<1>6. \A i \in 1..n + 1 : i \in 1..n \/ i = n + 1
  BY <1>2
<1>7. ASSUME NEW i \in 1..n + 1
      PROVE  Rank(new.events[i].state) <= Rank(new.state)
  <2>1. CASE i \in 1..n
    <3>1. new.events[i] = rec.events[i] /\ Rank(rec.events[i].state) < Rank(s)
      BY <1>1, <1>2, <1>5, <2>1
    <3>. QED
      BY <1>1, <1>4, <2>1, <3>1
  <2>2. CASE i = n + 1
    BY <1>1, <1>4, <2>2
  <2>. QED
    BY <1>6, <2>1, <2>2
<1>8. ASSUME NEW i \in 1..n + 1, NEW j \in 1..n + 1, i < j
      PROVE  Rank(new.events[i].state) < Rank(new.events[j].state)
  <2>1. i \in 1..n
    BY <1>2, <1>8
  <2>2. CASE j \in 1..n
    BY <1>1, <1>2, <1>8, <2>1, <2>2 DEF History
  <2>3. CASE j = n + 1
    BY <1>1, <1>2, <1>5, <2>1, <2>3
  <2>. QED
    BY <1>6, <2>2, <2>3
<1>9. History(new)
  BY <1>2, <1>7, <1>8 DEF History
<1>. QED
  BY <1>9 DEF new

LEMMA HistoryStep == Inv /\ HistoryInv /\ [Next]_vars => HistoryInv'
<1>. SUFFICES ASSUME Inv, HistoryInv, [Next]_vars PROVE HistoryInv'
  OBVIOUS
<1>1. recs \in Seq(RecType) /\ \A r \in DOMAIN recs : recs[r] \in RecType
  BY DEF Inv, RecInv
<1>2. CASE recs' = recs
  BY <1>2 DEF HistoryInv, History
<1>3. ASSUME NEW r \in DOMAIN recs, NEW s \in States, NEW d, NEW b,
             recs' = [recs EXCEPT ![r] = SetState(recs[r], s, d, b)],
             Rises(r, s) \/ Creates(r, s)
      PROVE  HistoryInv'
  <2>1. Rank(recs[r].state) < Rank(s) \/ recs[r].events = <<>>
    BY <1>3 DEF Rises, Creates, Inv, ScanInv
  <2>2. History(SetState(recs[r], s, d, b))
    BY <1>1, <2>1, HistoryGrows DEF HistoryInv
  <2>3. /\ DOMAIN recs' = DOMAIN recs
        /\ \A q \in DOMAIN recs : History(recs'[q])
    BY <1>3, <2>2 DEF HistoryInv
  <2>. QED
    BY <2>3 DEF HistoryInv, History
<1>4. ASSUME NEW from, recs' = Append(recs, NewRec(from))
      PROVE  HistoryInv'
  <2>1. History(NewRec(from))
    BY DEF History, NewRec
  <2>2. \A q \in DOMAIN recs' : (q \in DOMAIN recs /\ recs'[q] = recs[q]) \/ recs'[q] = NewRec(from)
    BY <1>1, <1>4
  <2>3. \A q \in DOMAIN recs' : History(recs'[q])
    BY <2>1, <2>2 DEF HistoryInv
  <2>. QED
    BY <2>3 DEF HistoryInv, History
<1>5. Next => RecsMove
  BY NextMoves
<1>. QED
  BY <1>2, <1>3, <1>4, <1>5 DEF RecsMove, Recommend, vars, store

(* The events saved of every recommendation, of the first scan or of a     *)
(* later one, go up in the order of the trade to the state it is in        *)
(* (_set_state, engine.py).                                                *)
THEOREM Histories == Spec => []HistoryInv
<1>1. Init => HistoryInv
  BY DEF Init, HistoryInv
<1>. QED
  BY <1>1, Invariance, HistoryStep, PTL DEF Spec

(* Rising events are of one trade.                                         *)
LEMMA HistoryIsOneTrade == Inv /\ HistoryInv => OneTrade
<1>. SUFFICES ASSUME Inv, HistoryInv, NEW r \in DOMAIN recs,
                     NEW i \in DOMAIN recs[r].events, NEW j \in DOMAIN recs[r].events
              PROVE  /\ recs[r].events[i].state = recs[r].events[j].state => i = j
                     /\ recs[r].events[i].state \in EndStates => j <= i
  BY DEF OneTrade
<1>. DEFINE e(k) == recs[r].events[k].state
<1>1. recs[r].events \in Seq(Events)
  <2>1. recs[r] \in RecType
    BY DEF Inv, RecInv
  <2>. QED
    BY <2>1 DEF RecType
<1>2. i \in Nat /\ j \in Nat /\ e(i) \in States /\ e(j) \in States
  <2>1. /\ i \in Nat /\ j \in Nat
        /\ recs[r].events[i] \in Events /\ recs[r].events[j] \in Events
    BY <1>1
  <2>. QED
    BY <2>1 DEF Events, States
<1>3. /\ Rank(e(i)) \in 0..3 /\ Rank(e(j)) \in 0..3
      /\ e(i) \in EndStates => Rank(e(i)) = 3
  BY <1>2, RankOpen
<1>4. (i < j => Rank(e(i)) < Rank(e(j))) /\ (j < i => Rank(e(j)) < Rank(e(i)))
  BY DEF HistoryInv, History
<1>. HIDE DEF e
<1>5. (e(i) = e(j) => i = j) /\ (e(i) \in EndStates => j <= i)
  BY <1>2, <1>3, <1>4
<1>. QED
  BY <1>5 DEF e

(* However often bars are processed again, the events of a recommendation  *)
(* are one trade's: no state twice, and nothing after the end              *)
(* (_update_open_recommendations, engine.py:171).                          *)
THEOREM OneTradeEach == Spec => []OneTrade
BY HistoryIsOneTrade, Invariance, Histories, PTL
-----------------------------------------------------------------------------
FetchType == [kind : {"none", "observe", "follow", "catch_up"}, at : Nat, last : Nat, bar : Nat]

(* A scan processes bars that are complete, and what it has fetched does   *)
(* not outlive it.                                                         *)
Fetching == phase \in {"bars", "saved", "mark"}
FetchInv ==
  /\ phase \in {"off", "idle", "scanned", "bars", "saved", "mark", "alerts", "finalize"}
  /\ fetch \in FetchType
  /\ IF Fetching THEN /\ 1 <= fetch.bar /\ fetch.bar <= fetch.last
                      /\ fetch.last <= fetch.at /\ fetch.at <= minute
                 ELSE fetch = NoFetch

(* The checkpoint is of a bar that is complete.                            *)
CheckInv ==
  /\ check.day \in 0..day
  /\ check.bar \in IF check.day = 0 THEN {0} ELSE 1..Bars[check.day]
  /\ check.day = day => check.bar <= minute

TypeInv ==
  /\ FetchInv /\ CheckInv
  /\ bars \in [1..minute -> Shapes]
  /\ \A r \in DOMAIN recs : recs[r].from >= 2
  /\ alerts \subseteq DOMAIN recs
  /\ cut \subseteq 1..day

LEMMA ClockFacts ==
  ASSUME Inv
  PROVE  /\ day \in Nat /\ day >= 1 /\ day <= Days /\ Days \in Nat
         /\ minute \in Nat /\ minute <= Close /\ Close \in Nat /\ Close >= 1
         /\ \A d \in 1..Days : Bars[d] \in Nat /\ Bars[d] >= 1
BY SessionAssumption DEF Inv, ClockInv, Close

(* A step that changes no more than events and states of recommendations.  *)
SamePlaces ==
  /\ DOMAIN recs' = DOMAIN recs
  /\ \A r \in DOMAIN recs : recs'[r].from = recs[r].from /\ recs'[r].day = recs[r].day

LEMMA MoveKeeps ==
  ASSUME Inv, Next, ~Recommend
  PROVE  SamePlaces
<1>. USE DEF SamePlaces
<1>1. recs \in Seq(RecType) /\ \A r \in DOMAIN recs : recs[r] \in RecType
  BY DEF Inv, RecInv
<1>2. CASE recs' = recs
  BY <1>2
<1>3. ASSUME NEW r \in DOMAIN recs, NEW s \in States, NEW d, NEW b,
             recs' = [recs EXCEPT ![r] = SetState(recs[r], s, d, b)]
      PROVE  SamePlaces
  <2>1. /\ SetState(recs[r], s, d, b).from = recs[r].from
        /\ SetState(recs[r], s, d, b).day = recs[r].day
    BY <1>1, SetStateAppends
  <2>. QED
    BY <1>3, <2>1
<1>. QED
  BY <1>2, <1>3, NextMoves DEF RecsMove

LEMMA SameRecs == UNCHANGED recs => SamePlaces
BY DEF SamePlaces

(* A set of numbers has a least member.                                    *)
LEMMA MinOfNaturals ==
  ASSUME NEW S \in SUBSET Nat, S # {}
  PROVE  Min(S) \in S /\ \A k \in S : Min(S) <= k
<1>1. PICK m \in S : \A k \in S : ~(<<k, m>> \in OpToRel(<, Nat))
  BY NatLessThanWellFounded, WFMin
<1>2. \A k \in S : ~(k < m)
  BY <1>1 DEF OpToRel
<1>3. \A k \in S : m =< k
  BY <1>2
<1>. QED
  BY <1>3 DEF Min

(* Steps within a minute that leave fetch and checkpoint alone.            *)
LEMMA CalmStep ==
  ASSUME Inv, TypeInv, SamePlaces,
         UNCHANGED <<day, minute, bars, check, fetch>>,
         Fetching' <=> Fetching,
         phase' \in {"off", "idle", "scanned", "bars", "saved", "mark", "alerts", "finalize"},
         alerts' \subseteq DOMAIN recs, cut' \subseteq cut \cup {day}
  PROVE  TypeInv'
<1>1. FetchInv' /\ CheckInv'
  BY DEF TypeInv, FetchInv, CheckInv, Fetching
<1>2. \A r \in DOMAIN recs' : recs'[r].from >= 2
  BY DEF TypeInv, SamePlaces
<1>3. alerts' \subseteq DOMAIN recs' /\ cut' \subseteq 1..day'
  BY ClockFacts DEF TypeInv, SamePlaces
<1>. QED
  BY <1>1, <1>2, <1>3 DEF TypeInv

LEMMA TypeStep == Inv /\ TypeInv /\ [Next]_vars => TypeInv'
<1>. SUFFICES ASSUME Inv, TypeInv, [Next]_vars PROVE TypeInv'
  OBVIOUS
<1>. USE ClockFacts
<1>1. /\ FetchInv /\ CheckInv /\ bars \in [1..minute -> Shapes]
      /\ \A r \in DOMAIN recs : recs[r].from >= 2
      /\ alerts \subseteq DOMAIN recs /\ cut \subseteq 1..day
  BY DEF TypeInv
<1>2. CASE Minute
  <2>1. /\ minute' = minute + 1 /\ UNCHANGED <<day, recs, check, alerts, phase, fetch, cut>>
        /\ \E shape \in Shapes : bars' = Append(bars, shape)
    BY <1>2 DEF Minute, store
  <2>2. bars' \in [1..minute' -> Shapes]
    <3>1. bars \in Seq(Shapes) /\ Len(bars) = minute
      BY <1>1
    <3>2. bars' \in Seq(Shapes) /\ Len(bars') = minute + 1
      BY <2>1, <3>1
    <3>3. bars' \in [1..Len(bars') -> Shapes]
      BY <3>2, LenProperties
    <3>. QED
      BY <2>1, <3>2, <3>3
  <2>3. FetchInv'
    BY <1>1, <2>1 DEF FetchInv, Fetching, FetchType
  <2>4. CheckInv'
    BY <1>1, <2>1 DEF CheckInv
  <2>. QED
    BY <1>1, <2>1, <2>2, <2>3, <2>4 DEF TypeInv
<1>3. CASE NextDay
  <2>1. /\ day' = day + 1 /\ minute' = 0 /\ bars' = <<>> /\ phase = "off"
        /\ UNCHANGED <<recs, check, alerts, phase, fetch, cut>>
    BY <1>3 DEF NextDay, store
  <2>2. bars' \in [1..minute' -> Shapes]
    BY <2>1
  <2>3. FetchInv' /\ CheckInv'
    BY <1>1, <2>1 DEF FetchInv, CheckInv, Fetching
  <2>4. cut' \subseteq 1..day'
    BY <1>1, <2>1
  <2>. QED
    BY <1>1, <2>1, <2>2, <2>3, <2>4 DEF TypeInv
<1>4. CASE StartWatch
  BY <1>4, <1>1, SameRecs, CalmStep DEF StartWatch, clock, store, Fetching
<1>5. CASE Scan("observe") \/ Scan("follow")
  <2>1. PICK kind \in {"observe", "follow"} : Scan(kind)
    BY <1>5
  <2>2. PICK last \in FirstPending..minute : \E first \in FirstPending..last :
          fetch' = [kind |-> kind, at |-> minute, last |-> last, bar |-> first]
    BY <2>1 DEF Scan, Fetch
  <2>3. /\ phase' = "bars" /\ UNCHANGED <<day, minute, bars, check, alerts, cut>>
        /\ recs' = recs
    BY <2>1, NothingToExclude DEF Scan, clock
  <2>4. FirstPending \in Nat /\ FirstPending >= 1
    BY <1>1 DEF FirstPending, CheckInv
  <2>5. FetchInv'
    BY <2>2, <2>3, <2>4 DEF FetchInv, FetchType, Fetching
  <2>6. CheckInv'
    BY <1>1, <2>3 DEF CheckInv
  <2>. QED
    BY <1>1, <2>3, <2>5, <2>6 DEF TypeInv
<1>6. CASE ScanWithoutBars
  <2>1. recs' = recs
    BY <1>6, NothingToExclude DEF ScanWithoutBars
  <2>. QED
    BY <1>1, <1>6, <2>1, SameRecs, CalmStep DEF ScanWithoutBars, clock, Fetching, Waiting
<1>7. CASE CatchUp
  <2>1. /\ phase' = "bars" /\ UNCHANGED <<day, minute, bars, recs, check, alerts, cut>>
        /\ minute = Close /\ FirstPending <= Close
    BY <1>7 DEF CatchUp, clock, store
  <2>2. FirstPending \in Nat /\ FirstPending >= 1
    BY <1>1 DEF FirstPending, CheckInv
  <2>5. PICK first \in FirstPending..Close :
          fetch' = [kind |-> "catch_up", at |-> Close, last |-> Close, bar |-> first]
    BY <1>7, <2>1 DEF CatchUp, Fetch
  <2>3. FetchInv'
    BY <2>1, <2>2, <2>5 DEF FetchInv, FetchType, Fetching
  <2>4. CheckInv'
    BY <1>1, <2>1 DEF CheckInv
  <2>. QED
    BY <1>1, <2>1, <2>3, <2>4 DEF TypeInv
<1>8. CASE ChangeState
  BY <1>1, <1>8, MoveKeeps, CalmStep DEF ChangeState, clock, Fetching, FetchInv, Next, Recommend
<1>9. CASE NextBar
  <2>1. /\ phase = "bars" /\ phase' = phase /\ UNCHANGED <<day, minute, bars, recs, check, alerts, cut>>
        /\ fetch' = [fetch EXCEPT !.bar = @ + 1] /\ fetch.bar < fetch.last
    BY <1>9 DEF NextBar, clock, store
  <2>2. FetchInv'
    BY <1>1, <2>1 DEF FetchInv, FetchType, Fetching
  <2>3. CheckInv'
    BY <1>1, <2>1 DEF CheckInv
  <2>. QED
    BY <1>1, <2>1, <2>2, <2>3 DEF TypeInv
<1>10. CASE Recommend
  <2>1. PICK from \in {fetch.at + 1, fetch.at + 2} : recs' = Append(recs, NewRec(from))
    BY <1>10 DEF Recommend
  <2>2. /\ phase = "bars" /\ phase' = "saved"
        /\ UNCHANGED <<day, minute, bars, check, alerts, fetch, cut>>
    BY <1>10 DEF Recommend, clock
  <2>3. from >= 2
    BY <1>1, <2>2 DEF FetchInv, FetchType, Fetching
  <2>4. recs \in Seq(RecType)
    BY DEF Inv, RecInv
  <2>5. /\ DOMAIN recs \subseteq DOMAIN recs'
        /\ \A r \in DOMAIN recs' : (r \in DOMAIN recs /\ recs'[r] = recs[r]) \/ recs'[r] = NewRec(from)
    BY <2>1, <2>4
  <2>6. \A r \in DOMAIN recs' : recs'[r].from >= 2
    BY <1>1, <2>3, <2>5 DEF NewRec
  <2>7. FetchInv' /\ CheckInv'
    BY <1>1, <2>2 DEF FetchInv, CheckInv, Fetching
  <2>. QED
    BY <1>1, <2>2, <2>5, <2>6, <2>7 DEF TypeInv
<1>11. CASE RecordCreation
  BY <1>1, <1>11, MoveKeeps, CalmStep DEF RecordCreation, clock, Fetching, Next, Recommend
<1>12. CASE Mark
  <2>1. /\ Fetching /\ check' = [day |-> day, bar |-> fetch.last]
        /\ phase' \in {"finalize", "alerts"} /\ fetch' = NoFetch
        /\ UNCHANGED <<day, minute, bars, recs, alerts, cut>>
    BY <1>12 DEF Mark, clock, Fetching
  <2>2. FetchInv'
    BY <2>1 DEF FetchInv, FetchType, Fetching, NoFetch
  <2>3. CheckInv'
    <3>1. fetch.last \in Nat /\ 1 <= fetch.last /\ fetch.last <= minute
      BY <1>1, <2>1 DEF FetchInv, FetchType
    <3>. QED
      BY <2>1, <3>1 DEF CheckInv, Close
  <2>. QED
    BY <1>1, <2>1, <2>2, <2>3 DEF TypeInv
<1>13. CASE QueueAlert
  <2>1. ToAnnounce \subseteq DOMAIN recs /\ DOMAIN recs = 1..Len(recs) /\ Len(recs) \in Nat
    BY DEF ToAnnounce, Inv, RecInv
  <2>2. Min(ToAnnounce) \in DOMAIN recs
    <3>1. ToAnnounce \in SUBSET Nat /\ ToAnnounce # {}
      BY <1>13, <2>1 DEF QueueAlert
    <3>. QED
      BY <2>1, <3>1, MinOfNaturals
  <2>. QED
    BY <1>1, <1>13, <2>2, SameRecs, CalmStep DEF QueueAlert, clock, Fetching, FetchInv
<1>14. CASE EndScan \/ StopWatch \/ EndWatch
  <2>1. cut' \subseteq cut \cup {day}
    BY <1>14 DEF EndScan, StopWatch, EndWatch, CutShort
  <2>. QED
    BY <1>1, <1>14, <2>1, SameRecs, CalmStep DEF EndScan, StopWatch, EndWatch, clock, store,
       Fetching, Waiting
<1>15. CASE TimeExit
  BY <1>1, <1>15, MoveKeeps, CalmStep DEF TimeExit, clock, Fetching, FetchInv, Next, Recommend
<1>16. CASE Die
  <2>1. /\ phase' \in {"off", "finalize", "idle"} /\ fetch' = NoFetch
        /\ cut' \subseteq cut \cup {day}
        /\ UNCHANGED <<day, minute, bars, recs, check, alerts>>
    BY <1>16 DEF Die, CutShort, clock, store
  <2>2. FetchInv' /\ CheckInv'
    BY <1>1, <2>1 DEF FetchInv, FetchType, CheckInv, Fetching, NoFetch
  <2>. QED
    BY <1>1, <2>1, <2>2 DEF TypeInv
<1>17. CASE UNCHANGED vars
  BY <1>1, <1>17, SameRecs, CalmStep DEF vars, clock, store, Fetching, FetchInv
<1>. QED
  BY <1>2, <1>3, <1>4, <1>5, <1>6, <1>7, <1>8, <1>9, <1>10, <1>11, <1>12, <1>13, <1>14, <1>15,
     <1>16, <1>17 DEF Next

(* Whatever scans die, the fetch of a scan is of complete bars of the day, *)
(* and the checkpoint of a bar that is complete.                           *)
THEOREM TypeInvariance == Spec => []TypeInv
<1>1. Init => TypeInv
  BY SessionAssumption DEF Init, TypeInv, FetchInv, CheckInv, FetchType, NoFetch, Fetching, Close
<1>. QED
  BY <1>1, Invariance, TypeStep, PTL DEF Spec

(* Only a fetch marks recommendations as having missed bars, and they stay *)
(* marked.                                                                 *)
LEMMA MissedMoves ==
  ASSUME Inv, [Next]_vars
  PROVE  /\ DOMAIN recs \subseteq DOMAIN recs' /\ missed \subseteq missed'
         /\ missed' \subseteq missed \cup DOMAIN recs
<1>1. CASE Recommend
  <2>1. recs \in Seq(RecType) /\ missed' = missed
    BY <1>1 DEF Inv, RecInv, Recommend
  <2>2. PICK rec : recs' = Append(recs, rec)
    BY <1>1 DEF Recommend
  <2>. QED
    BY <2>1, <2>2
<1>2. CASE Scan("observe") \/ Scan("follow") \/ CatchUp
  <2>1. UNCHANGED recs
    BY <1>2, NothingToExclude DEF Scan, CatchUp, store
  <2>2. PICK first : missed' = missed \cup
          {r \in OpenRecs : \E b \in FirstPending..(first - 1) : Eligible(recs[r], day, b)}
    BY <1>2 DEF Scan, CatchUp, Fetch
  <2>. QED
    BY <2>1, <2>2 DEF OpenRecs
<1>3. CASE UNCHANGED vars
  BY <1>3 DEF vars, store
<1>4. CASE Next /\ ~(Recommend \/ Scan("observe") \/ Scan("follow") \/ CatchUp)
  <2>1. missed' = missed
    BY <1>4 DEF Next, Minute, NextDay, StartWatch, ScanWithoutBars, ChangeState, NextBar,
       RecordCreation, Mark, QueueAlert, EndScan, StopWatch, TimeExit, EndWatch, Die
  <2>. QED
    BY <1>4, <2>1, MoveKeeps DEF SamePlaces
<1>. QED
  BY <1>1, <1>2, <1>3, <1>4

MissedInv == missed \subseteq DOMAIN recs

LEMMA MissedInvariance == Spec => []MissedInv
<1>1. Init => MissedInv
  BY DEF Init, MissedInv
<1>2. Inv /\ MissedInv /\ [Next]_vars => MissedInv'
  BY MissedMoves DEF MissedInv
<1>. QED
  BY <1>1, <1>2, Invariance, PTL DEF Spec

LEMMA TypesFollow == Inv /\ TypeInv /\ MissedInv => TypeOK
<1>. SUFFICES ASSUME Inv, TypeInv, MissedInv PROVE TypeOK
  OBVIOUS
<1>. USE ClockFacts
<1>1. \A r \in DOMAIN recs :
        /\ recs[r].day \in 1..day /\ recs[r].from \in 2..(Bars[recs[r].day] + 1)
        /\ recs[r].state \in OpenStates \cup EndStates
        /\ \A i \in DOMAIN recs[r].events : recs[r].events[i] \in Events
  <2>. TAKE r \in DOMAIN recs
  <2>1. recs[r] \in RecType /\ recs[r].day \in 1..day
    BY DEF Inv, RecInv
  <2>2. recs[r].from \in Nat /\ recs[r].from >= 2 /\ recs[r].from <= Bars[recs[r].day] + 1
    BY <2>1 DEF Inv, RecInv, TypeInv, RecType
  <2>3. recs[r].events \in Seq(Events) /\ recs[r].state \in States
    BY <2>1 DEF RecType
  <2>4. \A i \in DOMAIN recs[r].events : recs[r].events[i] \in Events
    BY <2>3
  <2>5. recs[r].from \in 2..(Bars[recs[r].day] + 1)
    BY <2>1, <2>2
  <2>. QED
    BY <2>1, <2>3, <2>4, <2>5 DEF States
<1>2. fetch \in [kind : {"none", "observe", "follow", "catch_up"},
                at : 0..Close, last : 0..Close, bar : 0..Close]
  BY DEF TypeInv, FetchInv, FetchType, NoFetch
<1>. QED
  BY <1>1, <1>2 DEF TypeOK, TypeInv, MissedInv, FetchInv, CheckInv, Inv, ClockInv

(* The store, the watch and its fetches stay within their types (store.py, *)
(* run_kis_paper_watch.py).                                                *)
THEOREM TypeCorrect == Spec => []TypeOK
BY TypesFollow, Invariance, TypeInvariance, MissedInvariance, PTL
-----------------------------------------------------------------------------
(* A recommendation of today that no checkpoint of today has seen, or that *)
(* no watch looks after any more, was left by one that was cut short.      *)
Unattended == phase = "off" \/ (check.day # day /\ phase \notin {"saved", "mark"})
OvernightInv ==
  /\ OvernightOnlyIfCut
  /\ Unattended /\ (\E r \in OpenRecs : recs[r].day = day) => day \in cut

(* No step but Recommend opens a recommendation.                           *)
NoneOpened == SamePlaces /\ OpenRecs' \subseteq OpenRecs

LEMMA NextOpensNone ==
  ASSUME Inv, Next, ~Recommend
  PROVE  NoneOpened
<1>0. SamePlaces
  BY MoveKeeps
<1>1. recs \in Seq(RecType) /\ \A r \in DOMAIN recs : recs[r] \in RecType
  BY DEF Inv, RecInv
<1>2. CASE recs' = recs
  BY <1>0, <1>2 DEF NoneOpened, OpenRecs, Open
<1>3. ASSUME NEW r \in DOMAIN recs, NEW s \in States, NEW d, NEW b,
             recs' = [recs EXCEPT ![r] = SetState(recs[r], s, d, b)],
             Rises(r, s) \/ Creates(r, s)
      PROVE  NoneOpened
  <2>1. Open(r)
    BY <1>3 DEF Rises, Creates, Inv, ScanInv, Open, OpenStates
  <2>2. \A q \in DOMAIN recs : q # r => recs'[q] = recs[q]
    BY <1>3
  <2>. QED
    BY <1>0, <2>1, <2>2 DEF NoneOpened, SamePlaces, OpenRecs, Open
<1>. QED
  BY <1>2, <1>3, NextMoves DEF RecsMove

LEMMA NoRecsUntouched == UNCHANGED recs => NoneOpened
BY DEF NoneOpened, SamePlaces, OpenRecs, Open

(* Steps within a day that keep the days cut short.                        *)
LEMMA CutKept ==
  ASSUME Inv, OvernightInv, NoneOpened, day' = day, cut \subseteq cut',
         Unattended' => Unattended \/ day \in cut' \/ ~\E r \in OpenRecs' : recs'[r].day = day
  PROVE  OvernightInv'
<1>1. \A r \in OpenRecs' : r \in OpenRecs /\ recs'[r].day = recs[r].day
  BY DEF NoneOpened, SamePlaces, OpenRecs
<1>2. OvernightOnlyIfCut'
  BY <1>1 DEF OvernightInv, OvernightOnlyIfCut
<1>. QED
  BY <1>1, <1>2 DEF OvernightInv

LEMMA OvernightStep == Inv /\ TypeInv /\ OvernightInv /\ [Next]_vars => OvernightInv'
<1>. SUFFICES ASSUME Inv, TypeInv, OvernightInv, [Next]_vars PROVE OvernightInv'
  OBVIOUS
<1>1. CASE Minute \/ ScanWithoutBars \/ CatchUp \/ NextBar \/ QueueAlert \/ EndScan \/ StopWatch
           \/ Scan("observe") \/ Scan("follow") \/ UNCHANGED vars
  <2>1. UNCHANGED <<recs, day, check, cut>>
    BY <1>1, NothingToExclude DEF Minute, ScanWithoutBars, CatchUp, NextBar, QueueAlert,
       EndScan, StopWatch, Scan, vars, clock, store
  <2>2. Unattended' => Unattended
    BY <1>1, <2>1 DEF Unattended, Minute, ScanWithoutBars, CatchUp, NextBar, QueueAlert,
       EndScan, StopWatch, Scan, vars, Waiting
  <2>. QED
    BY <2>1, <2>2, NoRecsUntouched, CutKept
<1>2. CASE ChangeState \/ RecordCreation \/ TimeExit
  <2>1. Next /\ ~Recommend
    BY <1>2 DEF Next, ChangeState, RecordCreation, TimeExit, Recommend
  <2>2. UNCHANGED <<day, check, cut>> /\ (Unattended' => Unattended)
    BY <1>2 DEF ChangeState, RecordCreation, TimeExit, clock, Unattended
  <2>. QED
    BY <2>1, <2>2, NextOpensNone, CutKept
<1>3. CASE NextDay
  <2>1. /\ phase = "off" /\ day' = day + 1 /\ UNCHANGED <<recs, check, cut>>
    BY <1>3 DEF NextDay, store
  <2>2. \A r \in OpenRecs : recs[r].day \in 1..day /\ day \in Nat
    BY ClockFacts DEF OpenRecs, Inv, RecInv
  <2>3. OpenRecs' = OpenRecs
    BY <2>1 DEF OpenRecs, Open
  <2>4. OvernightOnlyIfCut'
    <3>1. \A r \in OpenRecs : recs[r].day < day \/ recs[r].day = day
      BY <2>2
    <3>2. \A r \in OpenRecs : recs[r].day \in cut
      BY <2>1, <3>1 DEF OvernightInv, OvernightOnlyIfCut, Unattended
    <3>. QED
      BY <2>1, <2>3, <3>2 DEF OvernightOnlyIfCut
  <2>5. \A r \in OpenRecs : recs[r].day # day + 1
    BY <2>2
  <2>. QED
    BY <2>1, <2>3, <2>4, <2>5 DEF OvernightInv
<1>4. CASE StartWatch
  <2>1. /\ phase = "off" /\ phase' = "idle" /\ UNCHANGED <<day, recs, check>>
        /\ cut' = IF check.day = day THEN cut \ {day} ELSE cut
    BY <1>4 DEF StartWatch, clock, store
  <2>2. OpenRecs' = OpenRecs
    BY <2>1 DEF OpenRecs, Open
  <2>3. OvernightOnlyIfCut'
    <3>1. \A r \in OpenRecs : recs[r].day < day => recs[r].day # day
      BY ClockFacts DEF OpenRecs, Inv, RecInv
    <3>. QED
      BY <2>1, <2>2, <3>1 DEF OvernightInv, OvernightOnlyIfCut
  <2>. QED
    BY <2>1, <2>2, <2>3 DEF OvernightInv, Unattended
<1>5. CASE Recommend
  <2>1. PICK from \in {fetch.at + 1, fetch.at + 2} : recs' = Append(recs, NewRec(from))
    BY <1>5 DEF Recommend
  <2>2. phase' = "saved" /\ UNCHANGED <<day, check, cut>>
    BY <1>5 DEF Recommend, clock
  <2>3. recs \in Seq(RecType)
    BY DEF Inv, RecInv
  <2>4. \A r \in DOMAIN recs' : (r \in DOMAIN recs /\ recs'[r] = recs[r]) \/ recs'[r] = NewRec(from)
    BY <2>1, <2>3
  <2>5. \A r \in OpenRecs' : (r \in OpenRecs /\ recs'[r] = recs[r]) \/ recs'[r].day = day
    BY <2>4 DEF OpenRecs, Open, NewRec
  <2>6. OvernightOnlyIfCut'
    BY <2>2, <2>5, ClockFacts DEF OvernightInv, OvernightOnlyIfCut
  <2>. QED
    BY <2>2, <2>6 DEF OvernightInv, Unattended
<1>6. CASE Mark
  <2>1. check'.day = day /\ phase' \in {"finalize", "alerts"} /\ UNCHANGED <<day, recs, cut>>
    BY <1>6 DEF Mark, clock
  <2>. QED
    BY <2>1, NoRecsUntouched, CutKept DEF Unattended
<1>7. CASE EndWatch
  <2>1. /\ phase = "finalize" /\ phase' = "off" /\ UNCHANGED <<day, minute, recs, check>>
        /\ cut' = IF minute < Close THEN CutShort ELSE cut
        /\ ~\E r \in DOMAIN recs : Due(r)
    BY <1>7 DEF EndWatch, clock, store
  <2>2. cut \subseteq cut' /\ OpenRecs' = OpenRecs
    BY <2>1 DEF CutShort, OpenRecs, Open
  <2>3. CASE minute < Close
    BY <2>1, <2>2, <2>3, NoRecsUntouched, CutKept DEF CutShort
  <2>4. CASE minute = Close
    <3>1. check.day = day => ~\E r \in OpenRecs : recs[r].day = day
      BY <2>1, <2>4 DEF Due, OpenRecs
    <3>2. check.day # day => Unattended
      BY <2>1 DEF Unattended
    <3>. QED
      BY <2>1, <2>2, <3>1, <3>2, NoRecsUntouched, CutKept
  <2>. QED
    BY <2>3, <2>4, ClockFacts
<1>8. CASE Die
  <2>1. /\ UNCHANGED <<day, recs, check>>
        /\ cut' = IF phase' = "off" \/ check.day # day THEN CutShort ELSE cut
    BY <1>8 DEF Die, clock, store
  <2>2. cut \subseteq cut' /\ OpenRecs' = OpenRecs
    BY <2>1 DEF CutShort, OpenRecs, Open
  <2>3. Unattended' => cut' = CutShort
    BY <2>1 DEF Unattended
  <2>. QED
    BY <2>1, <2>2, <2>3, NoRecsUntouched, CutKept DEF CutShort
<1>. QED
  BY <1>1, <1>2, <1>3, <1>4, <1>5, <1>6, <1>7, <1>8 DEF Next

(* A recommendation of today that no checkpoint of today has seen, and no  *)
(* watch looks after, was left by one that was cut short.                  *)
THEOREM OvernightInvariance == Spec => []OvernightInv
<1>1. Init => OvernightInv
  BY DEF Init, OvernightInv, OvernightOnlyIfCut, OpenRecs
<1>. QED
  BY <1>1, Invariance, TypeInvariance, OvernightStep, PTL DEF Spec

(* A recommendation outlives its session only if the watch of that day was *)
(* cut short or a scan died before the day's first checkpoint              *)
(* (finalize_due_recommendations, engine.py:15).                           *)
THEOREM OvernightOnlyAfterCut == Spec => []OvernightOnlyIfCut
BY OvernightInvariance, PTL DEF OvernightInv
=============================================================================
