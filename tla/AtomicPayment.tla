--------------------------- MODULE AtomicPayment ---------------------------
(***************************************************************************)
(* What a routed payment promises its payer and its payee: the payer is    *)
(* debited only for a payee that has been paid, a payment that was given   *)
(* back to the payer is never paid out, and neither outcome is revised.    *)
(* Nothing is said of hops, timelocks or channels.                         *)
(***************************************************************************)
CONSTANT Payments

VARIABLES payer, payee

avars == <<payer, payee>>

AInit ==
    /\ payer = [p \in Payments |-> "holding"]
    /\ payee = [p \in Payments |-> "waiting"]

Pay(p) ==
    /\ payer[p] = "holding"
    /\ payee[p] = "waiting"
    /\ payee' = [payee EXCEPT ![p] = "paid"]
    /\ UNCHANGED payer

Debit(p) ==
    /\ payer[p] = "holding"
    /\ payee[p] = "paid"
    /\ payer' = [payer EXCEPT ![p] = "debited"]
    /\ UNCHANGED payee

(* On a direct channel one redemption does both.                           *)
PayAndDebit(p) ==
    /\ payer[p] = "holding"
    /\ payee[p] = "waiting"
    /\ payer' = [payer EXCEPT ![p] = "debited"]
    /\ payee' = [payee EXCEPT ![p] = "paid"]

GiveBack(p) ==
    /\ payer[p] = "holding"
    /\ payee[p] = "waiting"
    /\ payer' = [payer EXCEPT ![p] = "refunded"]
    /\ UNCHANGED payee

ANext == \E p \in Payments : Pay(p) \/ Debit(p) \/ PayAndDebit(p) \/ GiveBack(p)

ASpec == AInit /\ [][ANext]_avars
=============================================================================
