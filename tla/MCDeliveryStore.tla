--------------------------- MODULE MCDeliveryStore ---------------------------
EXTENDS DeliveryStore

\* Two clock readings put a row on either side of the boundary of a duration of one
\* tick.  They cannot go through two durations one after the other: where a row
\* that a sweep has parked is to be redriven, AbsenceBudget is 0.
MCTimes == 0 .. 1
MCFirst == [i \in Deliveries |-> 1]
MCIdentity == [c \in Contents |-> c]
=============================================================================
