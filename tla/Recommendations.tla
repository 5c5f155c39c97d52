-------------------------- MODULE Recommendations ---------------------------
(***************************************************************************)
(* The recommendation engine, its paper store and the watch that runs them *)
(* over the trading sessions (engine.py, store.py, causality.py,           *)
(* kis_scan.py, kis_eod.py, run_kis_paper_scan.py, run_kis_paper_watch.py).*)
(*                                                                         *)
(* One symbol, one strategy.  Session d has Bars[d] one-minute bars.  The  *)
(* store is durable and every commit to it is one step; the watch and the  *)
(* scans it starts may die between any two commits.  A price is what it    *)
(* means to the plan of the day: whether the bar's low is at the stop,   *)
(* and how high it goes (0 below the entry, 1 the entry, 2 and 3 the 1R    *)
(* and 2R targets); a plan left open overnight has the same levels.        *)
(***************************************************************************)
EXTENDS Integers, Sequences, FiniteSetsExt

CONSTANTS
  Days,    \* bound: sessions 1..Days
  Bars,    \* bound: one-minute bars in each session
  MaxLag,  \* whole minutes the last bar may be behind (MAX_FEED_DELAY)
  Window,  \* records a fetch reads: max_pages * 120
  Shapes   \* what a bar may look like

ASSUME SessionAssumption ==
  Days \in Nat \ {0} /\ Bars \in [1..Days -> Nat \ {0}] /\ MaxLag \in Nat
ASSUME WindowAssumption == Window \in Nat \ {0, 1}
ASSUME ShapesAssumption == Shapes \subseteq [stop : BOOLEAN, high : 0..3]

VARIABLES
  day, minute,  \* today, and how many of its bars are complete
  bars,         \* the complete bars of today
  recs,         \* recommendations with their events, in order of created_at
  check,        \* bar_checkpoints: the last processed bar
  alerts,       \* alert_outbox
  phase,        \* what the watch does
  fetch,        \* what the scan or catch-up in progress has fetched
  cut,          \* history: days cut short with a recommendation open
  missed        \* history: recommendations of which a fetch left out bars

clock == <<day, minute, bars>>
store == <<recs, check, alerts>>
vars == <<clock, store, phase, fetch, cut, missed>>

Close == Bars[day]  \* minutes in today's session

OpenStates == {"setup", "active", "target_1r"}
EndStates ==
  {"invalidated", "stopped", "target_2r", "time_exit", "causality_excluded"}
NoFetch == [kind |-> "none", at |-> 0, last |-> 0, bar |-> 0]

Open(r) == recs[r].state \in OpenStates
OpenRecs == {r \in DOMAIN recs : Open(r)}

(* A bar counts for a recommendation from first_eligible_bar_at on.        *)
Eligible(rec, d, b) == d > rec.day \/ (d = rec.day /\ b >= rec.from)

(* set_state: state and event in one commit.  Of the time of the event it  *)
(* matters whether it is early, that is before the first eligible bar.     *)
SetState(rec, state, d, b) ==
  [rec EXCEPT !.state = state,
              !.events = Append(@, [state |-> state,
                                    early |-> ~Eligible(rec, d, b)])]

(* exclude_backdated_recommendations, with which every scan starts.        *)
Backdated(rec) ==
  \E i \in 2..Len(rec.events) : rec.events[i].early
Excluded ==
  [r \in DOMAIN recs |->
    IF recs[r].state # "causality_excluded" /\ Backdated(recs[r])
      THEN SetState(recs[r], "causality_excluded", day, minute)
      ELSE recs[r]]

(* The next state that a bar gives an open recommendation, itself if none: *)
(* entry before invalidation, stop before targets.                         *)
After(state, bar) ==
  CASE state = "setup" /\ bar.high = 0 /\ bar.stop -> "invalidated"
    [] state = "setup" /\ bar.high > 0 -> "active"
    [] state # "setup" /\ bar.stop -> "stopped"
    [] state # "setup" /\ ~bar.stop /\ bar.high = 3 -> "target_2r"
    [] state = "active" /\ ~bar.stop /\ bar.high = 2 -> "target_1r"
    [] OTHER -> state

\* Mutant: a bar counts as soon as it is processed.
ChangedByAnyBar(r, b) ==
  /\ Open(r)
  /\ After(recs[r].state, bars[b]) # recs[r].state

\* Mutant: the engine goes through all recommendations, ended ones included.
ChangedThoughEnded(r, b) ==
  /\ Eligible(recs[r], day, b)
  /\ After(recs[r].state, bars[b]) # recs[r].state

(* Bar b of today takes a recommendation to another state.                 *)
Changed(r, b) ==
  /\ Open(r)
  /\ Eligible(recs[r], day, b)
  /\ After(recs[r].state, bars[b]) # recs[r].state
ToChange(b) == {r \in DOMAIN recs : Changed(r, b)}

\* Mutant: only the latest bar is evaluated, as in process_snapshot.
LatestBar == IF minute = 0 THEN 1 ELSE minute

(* The first bar of today that the checkpoint does not cover.              *)
FirstPending == IF check.day = day THEN check.bar + 1 ELSE 1

\* Mutant: only open recommendations stand in the way of another one.
OpenToday == \E r \in OpenRecs : recs[r].day = day

CreatedToday == \E r \in DOMAIN recs : recs[r].day = day

(* History only: the watch, or the first scan, ends with a recommendation  *)
(* of today open.                                                          *)
CutShort ==
  IF \E r \in OpenRecs : recs[r].day = day THEN cut \cup {day} ELSE cut

\* Mutant: only positions are closed with the session.
DuePosition(r) ==
  /\ recs[r].state \in {"active", "target_1r"}
  /\ recs[r].day < day \/ minute = Close
  /\ check.day = recs[r].day

(* What finalize_due_recommendations ends: an open recommendation whose    *)
(* session is over and whose symbol was last processed in that session.    *)
Due(r) ==
  /\ Open(r)
  /\ recs[r].day < day \/ minute = Close
  /\ check.day = recs[r].day

-----------------------------------------------------------------------------
Init ==
  /\ day = 1 /\ minute = 0 /\ bars = <<>>
  /\ recs = <<>> /\ check = [day |-> 0, bar |-> 0] /\ alerts = {}
  /\ phase = "off" /\ fetch = NoFetch /\ cut = {} /\ missed = {}

(* A minute passes in the session.                                         *)
Minute ==
  /\ minute < Close
  /\ minute' = minute + 1
  /\ \E shape \in Shapes : bars' = Append(bars, shape)
  /\ UNCHANGED <<day, store, phase, fetch, cut, missed>>

(* The next session; a watch belongs to one session.                       *)
NextDay ==
  /\ day < Days /\ minute = Close /\ phase = "off"
  /\ day' = day + 1 /\ minute' = 0 /\ bars' = <<>>
  /\ UNCHANGED <<store, phase, fetch, cut, missed>>

StartWatch ==
  /\ phase = "off" /\ minute < Close
  /\ phase' = "idle"
  /\ cut' = IF check.day = day THEN cut \ {day} ELSE cut
  /\ UNCHANGED <<clock, store, fetch, missed>>

Waiting == phase \in {"idle", "scanned"}

(* fetch_latest_regular_session reads the newest records only, `width` of  *)
(* them complete bars of today: of the pending bars up to the last one the *)
(* earliest may be left out, and the checkpoint will pass over them.       *)
Fetch(kind, last, widths) ==
  \E width \in widths : \E first \in FirstPending..last :
    /\ \/ last - first + 1 = width
       \/ first = FirstPending /\ last - first + 1 < width
    /\ fetch' = [kind |-> kind, at |-> minute, last |-> last, bar |-> first]
    /\ missed' = missed \cup
         {r \in OpenRecs : \E b \in FirstPending..(first - 1) : Eligible(recs[r], day, b)}

(* A scan gets the newest of today's bars, for a candidate (observe) or for*)
(* a symbol that is only tracked (follow).  The newest record may be that  *)
(* of the minute in progress.                                              *)
Scan(kind) ==
  /\ Waiting /\ minute < Close
  /\ kind = "follow" => OpenRecs # {}
  /\ \E last \in FirstPending..minute :
       last >= minute - MaxLag /\ Fetch(kind, last, {Window - 1, Window})
  /\ phase' = "bars"
  /\ recs' = Excluded
  /\ UNCHANGED <<clock, check, alerts, cut>>

(* A scan in which the symbol is not looked at: a failed or stale fetch,   *)
(* no new bar, nothing to follow, a halted symbol.                         *)
ScanWithoutBars ==
  /\ Waiting /\ minute < Close
  /\ phase' = "alerts"
  /\ recs' = Excluded
  /\ UNCHANGED <<clock, check, alerts, fetch, cut, missed>>

(* catch_up_after_close: up to the last bar of the session, for the open   *)
(* recommendations.  Any number of records may be from after the close.    *)
CatchUp ==
  /\ Waiting /\ minute = Close
  /\ OpenRecs # {} /\ FirstPending <= Close
  /\ Fetch("catch_up", Close, 1..Window)
  /\ phase' = "bars"
  /\ UNCHANGED <<clock, store, cut>>

(* One commit of _update_open_recommendations.                             *)
ChangeState ==
  /\ phase = "bars"
  /\ \E r \in ToChange(fetch.bar) :
       /\ \A q \in ToChange(fetch.bar) : r <= q
       /\ recs' = [recs EXCEPT ![r] =
            SetState(@, After(@.state, bars[fetch.bar]), day, fetch.bar)]
  /\ UNCHANGED <<clock, check, alerts, phase, fetch, cut, missed>>

(* advance() is done with a bar that is not the last one.                  *)
NextBar ==
  /\ phase = "bars" /\ ToChange(fetch.bar) = {}
  /\ fetch.bar < fetch.last
  /\ fetch' = [fetch EXCEPT !.bar = @ + 1]
  /\ UNCHANGED <<clock, store, phase, cut, missed>>

NewRec(from) == [day |-> day, from |-> from, state |-> "setup", events |-> <<>>]

\* Mutant: the bar that has just ended counts.
RecommendAtOnce ==
  /\ phase = "bars" /\ ToChange(fetch.bar) = {}
  /\ fetch.bar = fetch.last /\ fetch.kind = "observe"
  /\ ~CreatedToday
  /\ recs' = Append(recs, NewRec(fetch.at))
  /\ phase' = "saved"
  /\ UNCHANGED <<clock, check, alerts, fetch, cut, missed>>

(* process(): the strategy signals on the last bar, and save() inserts the *)
(* recommendation.  It was observed within minute `at`: the next bar, or   *)
(* on the full minute the one that begins, is the first to count.          *)
Recommend ==
  /\ phase = "bars" /\ ToChange(fetch.bar) = {}
  /\ fetch.bar = fetch.last /\ fetch.kind = "observe"
  /\ ~CreatedToday
  /\ \E from \in {fetch.at + 1, fetch.at + 2} :
       recs' = Append(recs, NewRec(from))
  /\ phase' = "saved"
  /\ UNCHANGED <<clock, check, alerts, fetch, cut, missed>>

(* The second commit of save(): the event of the creation.                 *)
RecordCreation ==
  /\ phase = "saved"
  /\ recs' = [recs EXCEPT ![Len(recs)] = SetState(@, "setup", day, fetch.at)]
  /\ phase' = "mark"
  /\ UNCHANGED <<clock, check, alerts, fetch, cut, missed>>

(* set_last_processed_bar, at the end of process_forward and of            *)
(* advance_forward.                                                        *)
Mark ==
  /\ \/ phase = "mark"
     \/ phase = "bars" /\ fetch.bar = fetch.last /\ ToChange(fetch.bar) = {}
  /\ check' = [day |-> day, bar |-> fetch.last]
  /\ phase' = IF fetch.kind = "catch_up" THEN "finalize" ELSE "alerts"
  /\ fetch' = NoFetch
  /\ UNCHANGED <<clock, recs, alerts, cut, missed>>

(* write_alert_outbox, one INSERT OR IGNORE at a time.                     *)
ToAnnounce ==
  {r \in DOMAIN recs : recs[r].state # "causality_excluded" /\ r \notin alerts}

QueueAlert ==
  /\ phase = "alerts" /\ ToAnnounce # {}
  /\ alerts' = alerts \cup {Min(ToAnnounce)}
  /\ UNCHANGED <<clock, recs, check, phase, fetch, cut, missed>>

EndScan ==
  /\ phase = "alerts" /\ ToAnnounce = {}
  /\ phase' = "scanned"
  /\ UNCHANGED <<clock, store, fetch, cut, missed>>

(* The watch is over, at the close or when its cycles are used up, without *)
(* a catch-up or after a failed one; or the post-session closeout runs.    *)
StopWatch ==
  /\ \/ Waiting
     \/ phase = "off" /\ minute = Close /\ \E r \in DOMAIN recs : Due(r)
  /\ phase' = "finalize"
  /\ UNCHANGED <<clock, store, fetch, cut, missed>>

(* One commit of finalize_due_recommendations: a recommendation whose      *)
(* session is over ends at the close of that session.                      *)
TimeExit ==
  /\ phase = "finalize"
  /\ \E r \in DOMAIN recs :
       /\ Due(r)
       /\ \A q \in 1..(r - 1) : ~Due(q)
       /\ recs' = [recs EXCEPT ![r] =
            SetState(@, "time_exit", @.day, Bars[@.day] + 1)]
  /\ UNCHANGED <<clock, check, alerts, phase, fetch, cut, missed>>

EndWatch ==
  /\ phase = "finalize"
  /\ ~\E r \in DOMAIN recs : Due(r)
  /\ phase' = "off"
  /\ cut' = IF minute < Close THEN CutShort ELSE cut
  /\ UNCHANGED <<clock, store, fetch, missed>>

(* The scan or the catch-up process dies and the watch goes on, or the     *)
(* watch dies with it.                                                     *)
Die ==
  /\ phase # "off"
  /\ phase' \in {"off"} \cup
       (CASE Waiting \/ phase = "finalize" -> {}
          [] fetch.kind = "catch_up" -> {"finalize"}
          [] OTHER -> {"idle"})
  /\ fetch' = NoFetch
  /\ cut' = IF phase' = "off" \/ check.day # day THEN CutShort ELSE cut
  /\ UNCHANGED <<clock, store, missed>>

Next ==
  \/ Minute \/ NextDay \/ StartWatch
  \/ Scan("observe") \/ Scan("follow") \/ ScanWithoutBars \/ CatchUp
  \/ ChangeState \/ NextBar \/ Recommend \/ RecordCreation \/ Mark
  \/ QueueAlert \/ EndScan
  \/ StopWatch \/ TimeExit \/ EndWatch \/ Die

Spec == Init /\ [][Next]_vars

-----------------------------------------------------------------------------
Events == [state : OpenStates \cup EndStates, early : BOOLEAN]

(* Types of the store and of the watch (store.py, run_kis_paper_watch.py). *)
TypeOK ==
  /\ day \in 1..Days /\ minute \in 0..Close
  /\ bars \in [1..minute -> Shapes]
  /\ \A r \in DOMAIN recs :
       /\ recs[r].day \in 1..day /\ recs[r].from \in 2..(Bars[recs[r].day] + 1)
       /\ recs[r].state \in OpenStates \cup EndStates
       /\ \A i \in DOMAIN recs[r].events : recs[r].events[i] \in Events
  /\ check.day \in 0..day
  /\ check.bar \in IF check.day = 0 THEN {0} ELSE 1..Bars[check.day]
  /\ alerts \subseteq DOMAIN recs
  /\ phase \in {"off", "idle", "scanned", "bars", "saved", "mark", "alerts",
                "finalize"}
  /\ fetch \in [kind : {"none", "observe", "follow", "catch_up"},
                at : 0..Close, last : 0..Close, bar : 0..Close]
  /\ cut \subseteq 1..day /\ missed \subseteq DOMAIN recs

(* What the bars from..n of today make of a recommendation, seen at once:  *)
(* the entry is the first bar to reach it, a stop before it voids the plan,*)
(* and from the entry on the first bar at the stop or the 2R target ends   *)
(* it, as stopped if it is at both.                                        *)
Outcome(rec, n) ==
  LET seen == rec.from..n
      entries == {k \in seen : bars[k].high >= 1}
      voids == {k \in seen : bars[k].stop /\ \A e \in entries : k < e}
      traded == {k \in seen : \E e \in entries : e <= k}
      ends == {k \in traded : bars[k].stop \/ bars[k].high = 3}
  IN CASE voids # {} -> "invalidated"
       [] voids = {} /\ ends # {} -> IF bars[Min(ends)].stop THEN "stopped" ELSE "target_2r"
       [] voids = {} /\ traded = {} -> "setup"
       [] OTHER ->
            IF \E k \in traded : bars[k].high >= 2 THEN "target_1r" ELSE "active"

(* The bars up to n have been counted for a recommendation, or those up to *)
(* a later bar that a scan had seen before it died, perhaps with the entry *)
(* of that bar only.                                                       *)
Counted(rec, n) ==
  \/ rec.state = Outcome(rec, n)
  \/ \E k \in (n + 1)..minute :
       \/ rec.state = Outcome(rec, k)
       \/ /\ rec.state = "active" /\ bars[k].high >= 1
          /\ Outcome(rec, k - 1) = "setup"

(* Whenever a bar is checkpointed, every recommendation of the day of      *)
(* which no fetch left out a bar is what its bars make of it: however many *)
(* scans die between the commits of a bar, no bar is missed or counted     *)
(* twice (process_forward, engine.py:117).                                 *)
CheckpointIsTrue ==
  [][check' # check =>
       \A r \in {q \in DOMAIN recs : recs[q].day = day} \ missed :
         Counted(recs[r], check'.bar)]_vars

(* docs/architecture_ko.md:287: the bars that passed while no watch was    *)
(* running are used for the recommendations there are.  They are not: the  *)
(* fetch does not reach back to the checkpoint (kis_provider.py:124).      *)
MissedBarsAreUsed ==
  [][check' # check =>
       \A r \in {q \in DOMAIN recs : recs[q].day = day} :
         Counted(recs[r], check'.bar)]_vars

(* However often bars are processed again, the events of a recommendation  *)
(* are the history of one trade: no state is entered twice and nothing     *)
(* follows its end (_update_open_recommendations, engine.py:171).          *)
OneTrade ==
  \A r \in DOMAIN recs :
    \A i, j \in DOMAIN recs[r].events :
      /\ recs[r].events[i].state = recs[r].events[j].state => i = j
      /\ recs[r].events[i].state \in EndStates => j <= i

(* There is one recommendation per symbol, strategy and day, also when a   *)
(* scan dies after its insert and another one signals on a later bar       *)
(* (process, engine.py:74).                                                *)
OncePerDay ==
  \A r, q \in DOMAIN recs : recs[r].day = recs[q].day => r = q

(* The engine never counts a bar that began before the recommendation was  *)
(* made, so the repair that each scan starts with finds nothing to exclude *)
(* (exclude_backdated_recommendations, causality.py:21).                   *)
NothingExcluded ==
  \A r \in DOMAIN recs : ~Backdated(recs[r])

(* A recommendation is open after its day only if the watch of that day    *)
(* was cut short, or a scan died before a bar of the day was checkpointed: *)
(* without catch-up, and whatever scans fail, it ends with the session     *)
(* (finalize_due_recommendations, engine.py:15).                           *)
OvernightOnlyIfCut ==
  \A r \in OpenRecs : recs[r].day < day => recs[r].day \in cut
=============================================================================
