-------------------------- MODULE MCHermesDelivery --------------------------
\* Hermes delivery on small instances; a unit of time is 10 seconds.
EXTENDS HermesDelivery

CONSTANTS opportunity, signal

\* A signal answers the opportunity of its symbol.
Threads == [s \in Sources |-> IF s = signal THEN opportunity ELSE s]
=============================================================================
