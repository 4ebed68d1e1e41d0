-------------------------- MODULE MCPaymentNetwork --------------------------
(* The topology of the simulation, Alice - Bob - Dave, with a payment each *)
(* way and a direct one that competes with them for Bob's channel. Locktime*)
(* deltas stand to the reaction time as the code's 144 and 100 do to a     *)
(* reaction time of up to 21 blocks.                                       *)
EXTENDS PaymentNetwork
CONSTANTS Alice, Bob, Dave, p1, p2, p3
MCLinks == {<<Alice, Bob>>, <<Bob, Dave>>}
MCRoute == [p \in Payments |-> CASE p = p1 -> <<Alice, Bob, Dave>>
                                 [] p = p2 -> <<Dave, Bob, Alice>>
                                 [] OTHER -> <<Bob, Dave>>]
MCAmount == [p \in Payments |-> IF p = p1 THEN 2 ELSE 1]
MCDelta == <<5, 2>>
=============================================================================
