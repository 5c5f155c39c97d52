--------------------------- MODULE MCDayDiscovery ---------------------------
(***************************************************************************)
(* Day discovery on a small instance: two cycles on one account.           *)
(***************************************************************************)
EXTENDS DayDiscovery

CONSTANTS c1, c2
=============================================================================
