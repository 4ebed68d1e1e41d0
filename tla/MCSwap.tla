-------------------------------- MODULE MCSwap --------------------------------
(***************************************************************************)
(* One id asked for a loop in of either of two amounts and for a loop out, *)
(* beside another id's loop in.                                            *)
(***************************************************************************)
EXTENDS Swap

MCOffers == {[id |-> "s1", type |-> "LOOP_IN", amount |-> 5],
             [id |-> "s1", type |-> "LOOP_IN", amount |-> 3],
             [id |-> "s1", type |-> "LOOP_OUT", amount |-> 4],
             [id |-> "s2", type |-> "LOOP_IN", amount |-> 5]}

MCLocktime == [LOOP_IN |-> 3, LOOP_OUT |-> 1]
MCLnExpiry == [LOOP_IN |-> 1, LOOP_OUT |-> 3]
=============================================================================
