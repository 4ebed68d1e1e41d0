----------------------------- MODULE ChannelOps -----------------------------
(***************************************************************************)
(* The payment channel object of domain/channel.py as a record, and each   *)
(* method of the class that changes it as an operator from record to       *)
(* record, next to the condition under which the method does not raise.    *)
(* Channel (one object, any caller) and PaymentNetwork (the objects that   *)
(* the nodes share) are both built from these operators.                   *)
(*                                                                         *)
(* A payment hash is the digest Hash(preimage) of domain/core/predicates:  *)
(* a value that tells which preimage opens the HTLC and is not itself a    *)
(* preimage.                                                               *)
(***************************************************************************)
EXTENDS Integers, FiniteSets, Functions

Hash(preimage) == [sha256 |-> preimage]

(***************************************************************************)
(* HTLCContract as Node.route_htlc_payment and the tests construct it: both*)
(* flags start FALSE.                                                      *)
(***************************************************************************)
HTLCContract(hash, amount, locktime, offerer) ==
    [payment_hash |-> hash, amount_sat |-> amount, locktime |-> locktime,
     offerer_alias |-> offerer, settled |-> FALSE, refunded |-> FALSE]

IsActive(htlc) == ~htlc.settled /\ ~htlc.refunded

IsExpiredAt(htlc, blockHeight) == blockHeight >= htlc.locktime

IsPreimageValid(htlc, preimage) == Hash(preimage) = htlc.payment_hash

(***************************************************************************)
(* Node.open_channel: the opener funds the channel and owns all of it.     *)
(***************************************************************************)
OpenChannel(sender, receiver, capacity) ==
    [sender_alias |-> sender, receiver_alias |-> receiver,
     capacity_sat |-> capacity,
     balance |-> [p \in {sender, receiver} |->
                     IF p = sender THEN capacity ELSE 0],
     state |-> "OPEN",
     active_htlcs |-> [h \in {} |-> {}],
     sequence_number |-> 0,
     revoked |-> {}]

Pending(ch) == DOMAIN ch.active_htlcs

IsOpen(ch) == ch.state = "OPEN"

Counterparty(ch, p) ==
    IF p = ch.sender_alias THEN ch.receiver_alias ELSE ch.sender_alias

(* A mutation: add_htlc does not look at the balance.                      *)
CanAddHtlcUnfunded(ch, htlc) ==
    /\ IsOpen(ch)
    /\ htlc.offerer_alias \in {ch.sender_alias, ch.receiver_alias}

(***************************************************************************)
(* add_htlc. The dict assignment replaces whatever the id named before.    *)
(***************************************************************************)
CanAddHtlc(ch, htlc) ==
    /\ IsOpen(ch)
    /\ htlc.offerer_alias \in {ch.sender_alias, ch.receiver_alias}
    /\ ch.balance[htlc.offerer_alias] >= htlc.amount_sat

AddHtlc(ch, id, htlc) ==
    [ch EXCEPT !.balance[htlc.offerer_alias] = @ - htlc.amount_sat,
               !.active_htlcs = [h \in Pending(ch) \cup {id} |->
                                    IF h = id THEN htlc ELSE ch.active_htlcs[h]],
               !.sequence_number = @ + 1]

(* A mutation: the resolved entry is left pending.                         *)
ResolveKeepsEntry(ch, id, creditor) ==
    [ch EXCEPT !.balance[creditor] = @ + ch.active_htlcs[id].amount_sat,
               !.sequence_number = @ + 1]

(***************************************************************************)
(* redeem_htlc and refund_htlc credit one side and delete the entry. Only  *)
(* redeem_htlc looks at the flags, only refund_htlc at the locktime; neither*)
(* looks at the state of the channel.                                      *)
(***************************************************************************)
Resolve(ch, id, creditor) ==
    [ch EXCEPT !.balance[creditor] = @ + ch.active_htlcs[id].amount_sat,
               !.active_htlcs = Restrict(@, Pending(ch) \ {id}),
               !.sequence_number = @ + 1]

CanRedeem(ch, id, preimage) ==
    /\ id \in Pending(ch)
    /\ IsActive(ch.active_htlcs[id])
    /\ IsPreimageValid(ch.active_htlcs[id], preimage)

RedeemHtlc(ch, id) ==
    Resolve(ch, id, Counterparty(ch, ch.active_htlcs[id].offerer_alias))

CanRefund(ch, id, blockHeight) ==
    /\ id \in Pending(ch)
    /\ IsExpiredAt(ch.active_htlcs[id], blockHeight)

RefundHtlc(ch, id) == Resolve(ch, id, ch.active_htlcs[id].offerer_alias)

(***************************************************************************)
(* revoke_prior_state stores the secret of any commitment number it is     *)
(* given; close_cooperatively has no precondition at all.                  *)
(***************************************************************************)
RevokePriorState(ch, n) == [ch EXCEPT !.revoked = @ \cup {n}]

CloseCooperatively(ch) == [ch EXCEPT !.state = "SETTLED"]

(***************************************************************************)
(* The satoshis locked in the pending HTLCs that p offered, as a set with  *)
(* one element per satoshi, so that amounts add up by cardinality.         *)
(***************************************************************************)
LockedSats(ch, p) ==
    UNION {{h} \X (1..ch.active_htlcs[h].amount_sat) :
              h \in {i \in Pending(ch) : ch.active_htlcs[i].offerer_alias = p}}

Locked(ch, p) == Cardinality(LockedSats(ch, p))
=============================================================================
