------------------------------- MODULE Channel -------------------------------
(***************************************************************************)
(* One Channel object of domain/channel.py, shared by the two Node objects *)
(* that opened it, under every sequence of calls its methods accept. A     *)
(* call that raises leaves the object as it was, so it is no step.         *)
(*                                                                         *)
(* block is the chain height a caller passes to refund_htlc. Three        *)
(* variables record history and influence nothing: paid[p] sums what has   *)
(* been redeemed from p's HTLCs, dropped[p] what p had locked in an HTLC   *)
(* whose record a second offer under the same id replaced, and breakdowns  *)
(* holds every value close_cooperatively has returned.                     *)
(***************************************************************************)
EXTENDS ChannelOps

CONSTANTS
    Sender, Receiver,   \* the aliases of the two nodes, the opener first
    CapacitySat,        \* capacity_sat
    HtlcIds,            \* the htlc_id values the callers use
    Preimages,          \* the secrets of the invoices being paid
    Amounts,            \* the amount_sat values the callers use
    Locktimes,          \* the locktime values the callers use
    LastBlock,          \* bound on the chain height
    MaxSeq              \* bound on sequence_number

Parties == {Sender, Receiver}

ASSUME PartiesAssumption == Sender # Receiver

ASSUME AmountsAssumption ==
    /\ CapacitySat \in Nat
    /\ Amounts \subseteq Nat
    /\ Locktimes \subseteq Nat
    /\ LastBlock \in Nat
    /\ MaxSeq \in Nat

VARIABLES channel, block, paid, dropped, breakdowns

channelVars == <<channel, block, paid, dropped, breakdowns>>

Htlc == [payment_hash : {Hash(r) : r \in Preimages}, amount_sat : Amounts,
         locktime : Locktimes, offerer_alias : Parties,
         settled : BOOLEAN, refunded : BOOLEAN]

PendingHtlcs == UNION {[S -> Htlc] : S \in SUBSET HtlcIds}

ChannelType ==
    [sender_alias : {Sender}, receiver_alias : {Receiver},
     capacity_sat : {CapacitySat}, balance : [Parties -> Nat],
     state : {"OPEN", "SETTLED"},
     active_htlcs : PendingHtlcs,
     sequence_number : Nat, revoked : SUBSET Nat]

ChannelTypeOK ==
    /\ channel \in ChannelType
    /\ block \in Nat
    /\ paid \in [Parties -> Nat]
    /\ dropped \in [Parties -> Nat]
    /\ breakdowns \subseteq [pending : BOOLEAN, split : [Parties -> Nat]]

ChannelInit ==
    /\ channel = OpenChannel(Sender, Receiver, CapacitySat)
    /\ block = 0
    /\ paid = [p \in Parties |-> 0]
    /\ dropped = [p \in Parties |-> 0]
    /\ breakdowns = {}
-----------------------------------------------------------------------------
(* Mutations of the operators below that TLC must catch.                   *)

RedeemCreditsOfferer(id, preimage) ==
    /\ CanRedeem(channel, id, preimage)
    /\ channel.sequence_number < MaxSeq
    /\ LET h == channel.active_htlcs[id]
       IN /\ channel' = Resolve(channel, id, h.offerer_alias)
          /\ paid' = [paid EXCEPT ![h.offerer_alias] = @ + h.amount_sat]
    /\ UNCHANGED <<block, dropped, breakdowns>>

CloseReopens ==
    /\ channel' = [channel EXCEPT !.state =
                      IF Pending(channel) = {} THEN "OPEN" ELSE "SETTLED"]
    /\ breakdowns' = breakdowns \cup
          {[pending |-> Pending(channel) # {}, split |-> channel.balance]}
    /\ UNCHANGED <<block, paid, dropped>>

OfferOnSettled(id, preimage, amount, locktime, offerer) ==
    LET h == HTLCContract(Hash(preimage), amount, locktime, offerer)
    IN /\ CanAddHtlc([channel EXCEPT !.state = "OPEN"], h)
       /\ channel.sequence_number < MaxSeq
       /\ channel' = AddHtlc(channel, id, h)
       /\ UNCHANGED <<block, paid, dropped, breakdowns>>
-----------------------------------------------------------------------------
(***************************************************************************)
(* add_htlc with an HTLCContract the caller has just built. The history    *)
(* notes the HTLC that id named before, if it was still pending.           *)
(***************************************************************************)
Offer(id, preimage, amount, locktime, offerer) ==
    LET h == HTLCContract(Hash(preimage), amount, locktime, offerer)
    IN /\ CanAddHtlc(channel, h)
       /\ channel.sequence_number < MaxSeq
       /\ channel' = AddHtlc(channel, id, h)
       /\ dropped' =
             IF id \in Pending(channel)
             THEN LET old == channel.active_htlcs[id]
                  IN [dropped EXCEPT ![old.offerer_alias] = @ + old.amount_sat]
             ELSE dropped
       /\ UNCHANGED <<block, paid, breakdowns>>

Redeem(id, preimage) ==
    /\ CanRedeem(channel, id, preimage)
    /\ channel.sequence_number < MaxSeq
    /\ channel' = RedeemHtlc(channel, id)
    /\ LET h == channel.active_htlcs[id]
       IN paid' = [paid EXCEPT ![h.offerer_alias] = @ + h.amount_sat]
    /\ UNCHANGED <<block, dropped, breakdowns>>

Refund(id) ==
    /\ CanRefund(channel, id, block)
    /\ channel.sequence_number < MaxSeq
    /\ channel' = RefundHtlc(channel, id)
    /\ UNCHANGED <<block, paid, dropped, breakdowns>>

Revoke(n) ==
    /\ channel' = RevokePriorState(channel, n)
    /\ UNCHANGED <<block, paid, dropped, breakdowns>>

Close ==
    /\ channel' = CloseCooperatively(channel)
    /\ breakdowns' = breakdowns \cup
          {[pending |-> Pending(channel) # {}, split |-> channel.balance]}
    /\ UNCHANGED <<block, paid, dropped>>

NextBlock ==
    /\ block < LastBlock
    /\ block' = block + 1
    /\ UNCHANGED <<channel, paid, dropped, breakdowns>>

OfferSome(id) ==
    \E preimage \in Preimages, amount \in Amounts, locktime \in Locktimes,
       offerer \in Parties : Offer(id, preimage, amount, locktime, offerer)

Other ==
    \/ \E id \in HtlcIds, preimage \in Preimages : Redeem(id, preimage)
    \/ \E id \in HtlcIds : Refund(id)
    \/ \E n \in 0..MaxSeq : Revoke(n)
    \/ Close
    \/ NextBlock

(* Any caller, and callers that do not offer under the id of an HTLC that  *)
(* is still pending.                                                       *)
ChannelNext == Other \/ \E id \in HtlcIds : OfferSome(id)

FreshNext == Other \/ \E id \in HtlcIds \ Pending(channel) : OfferSome(id)

ChannelSpec == ChannelInit /\ [][ChannelNext]_channelVars

FreshSpec == ChannelInit /\ [][FreshNext]_channelVars
-----------------------------------------------------------------------------
(***************************************************************************)
(* Each side owns what its history says: the opener starts with the whole  *)
(* capacity, a side gains what was redeemed from the other's HTLCs, and has*)
(* given up what was redeemed from its own, what is locked in its own, and *)
(* what it lost when a record was replaced. A redemption credited twice, to*)
(* the wrong side, or after a refund of the same HTLC breaks it, however   *)
(* offers, redemptions, refunds and closes interleave (add_htlc,           *)
(* redeem_htlc, refund_htlc).                                              *)
(***************************************************************************)
BalancesExplained ==
    /\ channel.balance[Sender] + Locked(channel, Sender) =
          CapacitySat - paid[Sender] + paid[Receiver] - dropped[Sender]
    /\ channel.balance[Receiver] + Locked(channel, Receiver) =
          paid[Sender] - paid[Receiver] - dropped[Receiver]

(***************************************************************************)
(* The "capacity invariant" of tests/test_bidirectional_channels.py, with  *)
(* the HTLCs in flight: the two balances and the locked amounts add up to  *)
(* the capacity. It holds for callers that never offer under a pending id. *)
(***************************************************************************)
CapacityInvariant ==
    channel.balance[Sender] + channel.balance[Receiver]
        + Locked(channel, Sender) + Locked(channel, Receiver) = CapacitySat

(***************************************************************************)
(* A breakdown that close_cooperatively returned while no HTLC was pending *)
(* is final: whatever is called afterwards, the balances stay what it said *)
(* and nothing is in flight.                                               *)
(***************************************************************************)
QuiescentCloseFinal ==
    \A b \in breakdowns :
        ~b.pending => /\ channel.state = "SETTLED"
                      /\ Pending(channel) = {}
                      /\ channel.balance = b.split

(***************************************************************************)
(* Once the channel is settled neither side can lose anything: a later call*)
(* only pays out HTLCs that were pending, and the channel never reopens.   *)
(***************************************************************************)
SettledOnlyPaysOut ==
    [][channel.state = "SETTLED" =>
          /\ channel'.state = "SETTLED"
          /\ Pending(channel') \subseteq Pending(channel)
          /\ \A p \in Parties : channel'.balance[p] >= channel.balance[p]]_channelVars
=============================================================================
