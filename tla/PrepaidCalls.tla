---------------------------- MODULE PrepaidCalls ----------------------------
(***************************************************************************)
(* What the search budget promises: a model call is paid for before it is  *)
(* made, it is made at most once, what a call costs beyond the first unit  *)
(* is paid after its answer, and all payments together stay within Limit.  *)
(***************************************************************************)
EXTENDS Integers

CONSTANTS
  Calls,   \* the calls that may be made
  Limit    \* units the account may spend

VARIABLES
  paid,    \* units paid for a call
  used,    \* units spent by the account
  made     \* how often a call was made

contractVars == <<paid, used, made>>

Init ==
  /\ paid = [k \in Calls |-> 0]
  /\ used = 0
  /\ made = [k \in Calls |-> 0]

Pay(k) ==
  /\ paid[k] = 0
  /\ used + 1 <= Limit
  /\ paid' = [paid EXCEPT ![k] = 1]
  /\ used' = used + 1
  /\ UNCHANGED made

Make(k) ==
  /\ paid[k] = 1
  /\ made[k] = 0
  /\ made' = [made EXCEPT ![k] = 1]
  /\ UNCHANGED <<paid, used>>

TopUp(k) ==
  /\ paid[k] = 1
  /\ made[k] = 1
  /\ \E n \in 0..(Limit - used) :
       /\ paid' = [paid EXCEPT ![k] = 1 + n]
       /\ used' = used + n
  /\ UNCHANGED made

Next == \E k \in Calls : Pay(k) \/ Make(k) \/ TopUp(k)

Spec == Init /\ [][Next]_contractVars
=============================================================================
