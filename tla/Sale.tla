-------------------------------- MODULE Sale --------------------------------
(***************************************************************************)
(* What a sale promises, whatever browsers, networks, gateway processes    *)
(* and webhooks do: an order is charged at most once, only while it is     *)
(* open and never after its payment was refused, and it is paid only       *)
(* because it has been charged.                                            *)
(***************************************************************************)
CONSTANT Checkouts

VARIABLES
    order,  \* [Checkouts -> {"none", "pending", "paid"}]
    money   \* [Checkouts -> {"none", "held", "charged", "refused"}]

Move(f, c, from, to) == f[c] = from /\ f' = [f EXCEPT ![c] = to]

Init ==
    /\ order = [c \in Checkouts |-> "none"]
    /\ money = [c \in Checkouts |-> "none"]

Place(c) == Move(order, c, "none", "pending") /\ UNCHANGED money

Hold(c) ==
    order[c] = "pending" /\ Move(money, c, "none", "held") /\ UNCHANGED order

(* A declined card, an abandoned payment or a hold that is let go. *)
Refuse(c) ==
    /\ Move(money, c, "none", "refused") \/ Move(money, c, "held", "refused")
    /\ UNCHANGED order

Charge(c) ==
    order[c] = "pending" /\ Move(money, c, "held", "charged") /\ UNCHANGED order

Acknowledge(c) ==
    money[c] = "charged" /\ Move(order, c, "pending", "paid") /\ UNCHANGED money

Next ==
    \E c \in Checkouts :
        Place(c) \/ Hold(c) \/ Refuse(c) \/ Charge(c) \/ Acknowledge(c)

Spec == Init /\ [][Next]_<<order, money>>
=============================================================================
