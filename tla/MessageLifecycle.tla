-------------------------- MODULE MessageLifecycle --------------------------
(***************************************************************************)
(* What the platform promises a tenant about one message, and nothing of   *)
(* how: where the message is, and where its price is.  The price is held   *)
(* when the message is accepted; it is taken in the same step as a carrier *)
(* acknowledges the message, or returned in the same step as the message   *)
(* fails before that; it moves at most once, and a message that is over    *)
(* stays over.                                                             *)
(***************************************************************************)
CONSTANTS Messages, Priced

VARIABLES
    stage,   \* where each message is
    money    \* where its price is; "free" for a message that costs nothing

vars == <<stage, money>>

Stages == {"absent", "in_flight", "acknowledged", "delivered", "failed"}

Init ==
    /\ stage = [m \in Messages |-> "absent"]
    /\ money = [m \in Messages |-> IF m \in Priced THEN "untouched" ELSE "free"]

Step(m, from, to) == stage[m] = from /\ stage' = [stage EXCEPT ![m] = to]

Money(m, from, to) ==
    IF m \in Priced
      THEN money[m] = from /\ money' = [money EXCEPT ![m] = to]
      ELSE UNCHANGED money

Accept(m)      == Step(m, "absent", "in_flight")       /\ Money(m, "untouched", "held")
Acknowledge(m) == Step(m, "in_flight", "acknowledged") /\ Money(m, "held", "taken")
Deliver(m)     == Step(m, "acknowledged", "delivered") /\ UNCHANGED money
Refuse(m)      == Step(m, "in_flight", "failed")       /\ Money(m, "held", "returned")
Undelivered(m) == Step(m, "acknowledged", "failed")    /\ UNCHANGED money

Next ==
    \E m \in Messages : \/ Accept(m) \/ Acknowledge(m) \/ Deliver(m)
                        \/ Refuse(m) \/ Undelivered(m)

Spec == Init /\ [][Next]_vars
=============================================================================
