----------------------------- MODULE SwapProofs -----------------------------
(***************************************************************************)
(* Every submarine swap is a payment that is made or given back, for any   *)
(* offers, locktimes and order of steps. The server pays a loop in for the *)
(* output that is registered: that it is the lockup of the same offer, and *)
(* that the deadlines of the two halves stand apart, is the invariant.     *)
(***************************************************************************)
EXTENDS Swap, TransactionLemmas

OrderOf(offer) == <<offer.id, offer.type>>

Funded(offer) == locked[OrderOf(offer)] = offer

(* A refund by its locktime: that of the offer, or a block less.           *)
RefundTx(offer, l) ==
    SignedRefund(Lockup[offer], Funder(offer.type), offer.amount, l, ScriptOf[offer])

Times(offer) == {Locktime[offer.type], Locktime[offer.type] - 1}

RefundOut(offer, l) == Outpoint(RefundTx(offer, l), 1)

Swapped(offer, state) ==
    [type |-> offer.type, amount |-> offer.amount, hash |-> PaymentHash(offer.id),
     state |-> state]

(***************************************************************************)
(* The inductive invariant, in parts.                                      *)
(***************************************************************************)
StatusOK ==
    /\ ln \in [Orders -> {"none", "held", "settled", "failed"}]
    /\ IsChain(chain) /\ chain.height \in 0..MaxHeight

(* An order is locked for an offer of its own.                             *)
LockedOK ==
    /\ locked \in [Orders -> Offers \cup {NoOffer}]
    /\ \A o \in Orders :
          locked[o] # NoOffer => OrderOf(locked[o]) = o /\ locked[o].amount >= Dust

SwapsOK ==
    /\ DOMAIN swap_scripts = DOMAIN swaps
    /\ \A id \in DOMAIN swaps :
          \E offer \in Offers :
             /\ offer.id = id /\ swaps[id] = Swapped(offer, swaps[id].state)
             /\ swaps[id].state \in {"PENDING", "FULFILLED"}
             /\ swap_scripts[id] = ScriptOf[offer]

(* What is registered is the lockup of some offer that was funded.         *)
RegisteredOK ==
    /\ DOMAIN onchain_funding \subseteq DOMAIN swaps
    /\ \A id \in DOMAIN onchain_funding :
          \E offer \in Offers : Funded(offer) /\ onchain_funding[id] = Lockup[offer]

(* Once the server has paid, the swap is that of the lockup it looked at.  *)
LoopInFixed ==
    \A o \in Orders :
        o[2] = "LOOP_IN" /\ ln[o] # "none" =>
            /\ locked[o] # NoOffer
            /\ o[1] \in DOMAIN swaps /\ o[1] \in DOMAIN onchain_funding
            /\ swaps[o[1]].type = "LOOP_IN" /\ swaps[o[1]].amount = locked[o].amount
            /\ onchain_funding[o[1]] = Lockup[locked[o]]

(* What waits to be sent spends the lockup of its order.                   *)
ClaimsOK ==
    \A o \in Orders :
        unsent[<<o, "claim">>] # NoTx =>
            /\ locked[o] # NoOffer /\ unsent[<<o, "claim">>] = ClaimOf[locked[o]]
            /\ o[2] = "LOOP_IN" => ln[o] = "settled"

RefundsOK ==
    \A o \in Orders :
        unsent[<<o, "refund">>] # NoTx =>
            /\ locked[o] # NoOffer
            /\ \E l \in Times(locked[o]) : unsent[<<o, "refund">>] = RefundTx(locked[o], l)

UnsentOK == DOMAIN unsent = Spends /\ ClaimsOK /\ RefundsOK

LockupOK ==
    \A offer \in Offers :
        Unspent(chain, Lockup[offer]) =>
            /\ Funded(offer)
            /\ chain.utxos[Lockup[offer]].amount = offer.amount
            /\ chain.utxos[Lockup[offer]].spk = P2wsh(ScriptOf[offer])

ClaimedOK ==
    \A offer \in Offers :
        Unspent(chain, ClaimOutput[offer]) =>
            /\ Funded(offer) /\ ~Unspent(chain, Lockup[offer])
            /\ offer.type = "LOOP_IN" => ln[OrderOf(offer)] = "settled"

RefundedOK ==
    \A offer \in Offers : \A l \in Times(offer) :
        Unspent(chain, RefundOut(offer, l)) =>
            /\ Funded(offer) /\ ~Unspent(chain, Lockup[offer])
            /\ ~Unspent(chain, ClaimOutput[offer])
            /\ chain.height >= Locktime[offer.type]
            /\ offer.type = "LOOP_IN" => ln[OrderOf(offer)] # "settled"

(* The Lightning half of a loop out follows the chain.                     *)
LoopOutFollows ==
    \A o \in Orders :
        o[2] = "LOOP_OUT" =>
            /\ ln[o] = "settled" => Claimed(o)
            /\ ln[o] = "failed" => locked[o] = NoOffer \/ Refunded(o)

(* What the server still has to do, it has time to do.                     *)
Deadlines ==
    \A o \in Orders :
        IF o[2] = "LOOP_IN"
        THEN ln[o] = "settled" /\ ~Claimed(o) => chain.height < Locktime["LOOP_IN"]
        ELSE ln[o] = "held" /\ locked[o] # NoOffer /\ ~Refunded(o)
                => chain.height < LnExpiry["LOOP_OUT"]

SwapInv ==
    /\ StatusOK /\ LockedOK /\ SwapsOK /\ RegisteredOK /\ LoopInFixed /\ UnsentOK
    /\ LockupOK /\ ClaimedOK /\ RefundedOK /\ LoopOutFollows /\ Deadlines
-----------------------------------------------------------------------------
(***************************************************************************)
(* The three kinds of transaction, by their parts.                         *)
(***************************************************************************)
FundingOuts(offer) ==
    IF offer.amount >= Dust THEN <<Output(offer.amount, P2wsh(ScriptOf[offer]))>> ELSE <<>>
ClaimOuts(offer) == <<Output(LessMinerFee(offer.amount), P2wpkh(Claimer(offer.type)))>>
RefundOuts(offer) == <<Output(LessMinerFee(offer.amount), P2wpkh(Funder(offer.type)))>>

LEMMA FundingForm ==
    ASSUME NEW offer \in Offers
    PROVE  FundingOf[offer] =
              Tx(1, Wallet[OrderOf(offer)], Final, 0, FundingOuts(offer), FundingOf[offer].wit)
<1> DEFINE p == Wallet[OrderOf(offer)]
           outs == FundingOuts(offer)
           tx == SwapFunding(p, offer.amount, ScriptOf[offer])
<1>1. \E w : FundingOf[offer] = AddWitness(tx, w)
  BY DEF FundingOf, OrderOf
<1>2. tx = Tx(1, p, Final, 0, outs, <<>>)
  <2> HIDE DEF p
  <2>1. QED
    BY SpendForm, FirstUnlessDust DEF SwapFunding, FundingOuts
<1> HIDE DEF tx, p, outs
<1>3. \A w : AddWitness(tx, w) = Tx(1, p, Final, 0, outs, <<w>>)
  <2> TAKE w
  <2>1. AddWitness(Tx(1, p, Final, 0, outs, <<>>), w) = Tx(1, p, Final, 0, outs, <<w>>)
    BY FirstWitness
  <2>2. QED
    BY <1>2, <2>1
<1>4. PICK w : FundingOf[offer] = Tx(1, p, Final, 0, outs, <<w>>)
  BY <1>1, <1>3
<1>5. FundingOf[offer].wit = <<w>>
  BY <1>4, TxParts
<1>6. QED
  BY <1>4, <1>5 DEF p, outs

LEMMA WitnessIfForm ==
    ASSUME NEW sig, NEW v, NEW p, NEW s, NEW l, NEW o, NEW stack
    PROVE  WitnessIf(sig, Tx(v, p, s, l, o, <<>>), stack) =
              Tx(v, p, s, l, o, IF sig = NoSig THEN <<>> ELSE <<stack>>)
BY FirstWitness DEF WitnessIf

LEMMA ClaimForm ==
    ASSUME NEW offer \in Offers
    PROVE  ClaimOf[offer] = Tx(1, Lockup[offer], Final, 0, ClaimOuts(offer), ClaimOf[offer].wit)
<1> DEFINE p == Lockup[offer]
           outs == ClaimOuts(offer)
           claimer == Claimer(offer.type)
           script == ScriptOf[offer]
           preimage == Preimage(offer.id)
<1>1. \E sig : ClaimOf[offer] =
         WitnessIf(sig, AddOutput(Spend(p, Final, 0), LessMinerFee(offer.amount), P2wpkh(claimer)),
                   FulfillWitness(sig, preimage, script))
  BY DEF ClaimOf, SignedClaim, SwapClaim
<1>2. AddOutput(Spend(p, Final, 0), LessMinerFee(offer.amount), P2wpkh(claimer)) =
         Tx(1, p, Final, 0, outs, <<>>)
  <2> HIDE DEF p
  <2>1. QED
    BY SpendForm, FirstOutput DEF ClaimOuts
<1> HIDE DEF p, outs, claimer, script, preimage
<1>3. PICK sig : ClaimOf[offer] =
         Tx(1, p, Final, 0, outs,
            IF sig = NoSig THEN <<>> ELSE <<FulfillWitness(sig, preimage, script)>>)
  BY <1>1, <1>2, WitnessIfForm
<1> DEFINE w == IF sig = NoSig THEN <<>> ELSE <<FulfillWitness(sig, preimage, script)>>
<1>4. ClaimOf[offer] = Tx(1, p, Final, 0, outs, w)
  BY <1>3
<1> HIDE DEF w
<1>5. ClaimOf[offer].wit = w
  BY <1>4, TxParts
<1>6. QED
  BY <1>4, <1>5 DEF p, outs

LEMMA RefundForm ==
    ASSUME NEW offer \in Offers, NEW l
    PROVE  /\ RefundTx(offer, l) =
                 Tx(1, Lockup[offer], LowSequence(0), l, RefundOuts(offer), RefundTx(offer, l).wit)
           /\ \E sig : \/ RefundTx(offer, l).wit = <<>>
                       \/ RefundTx(offer, l).wit = <<RefundWitness(sig, ScriptOf[offer])>>
<1> DEFINE p == Lockup[offer]
           s == LowSequence(0)
           outs == RefundOuts(offer)
           funder == Funder(offer.type)
           script == ScriptOf[offer]
<1>1. \E sig : RefundTx(offer, l) = SwapRefund(p, funder, offer.amount, l, script, sig)
  BY DEF RefundTx, SignedRefund
<1>2. AddOutput(Spend(p, s, l), LessMinerFee(offer.amount), P2wpkh(funder)) =
         Tx(1, p, s, l, outs, <<>>)
  <2> HIDE DEF p, s
  <2>1. QED
    BY SpendForm, FirstOutput DEF RefundOuts
<1>3. \A sig : SwapRefund(p, funder, offer.amount, l, script, sig) =
         WitnessIf(sig, AddOutput(Spend(p, s, l), LessMinerFee(offer.amount), P2wpkh(funder)),
                   RefundWitness(sig, script))
  BY DEF SwapRefund, LowSequence
<1> HIDE DEF p, s, outs, funder, script
<1>4. PICK sig : RefundTx(offer, l) =
         Tx(1, p, s, l, outs, IF sig = NoSig THEN <<>> ELSE <<RefundWitness(sig, script)>>)
  BY <1>1, <1>2, <1>3, WitnessIfForm
<1>5. RefundTx(offer, l).wit = IF sig = NoSig THEN <<>> ELSE <<RefundWitness(sig, script)>>
  BY <1>4, TxParts
<1>6. QED
  BY <1>4, <1>5 DEF p, s, outs, script

LEMMA RefundOfOffer ==
    ASSUME NEW offer \in Offers, NEW early \in BOOLEAN
    PROVE  /\ RefundOf[offer][early] =
                 RefundTx(offer, Locktime[offer.type] - (IF early THEN 1 ELSE 0))
           /\ RefundOutput[offer][early] =
                 RefundOut(offer, Locktime[offer.type] - (IF early THEN 1 ELSE 0))
BY Zenon DEF RefundOf, RefundOutput, RefundTx, RefundOut
-----------------------------------------------------------------------------
(***************************************************************************)
(* Which outputs are the same: a lockup pays to the script of its offer.   *)
(***************************************************************************)
FundingId(offer) == Tx(1, Wallet[OrderOf(offer)], Final, 0, FundingOuts(offer), <<>>)
ClaimId(offer) == Tx(1, Lockup[offer], Final, 0, ClaimOuts(offer), <<>>)
RefundId(offer, l) == Tx(1, Lockup[offer], LowSequence(0), l, RefundOuts(offer), <<>>)

LEMMA IdsOf ==
    ASSUME NEW offer \in Offers
    PROVE  /\ TxId(FundingOf[offer]) = FundingId(offer) /\ Lockup[offer] = <<FundingId(offer), 1>>
           /\ TxId(ClaimOf[offer]) = ClaimId(offer)
           /\ ClaimOutput[offer] = <<ClaimId(offer), 1>>
           /\ \A l : TxId(RefundTx(offer, l)) = RefundId(offer, l)
           /\ \A l : RefundOut(offer, l) = <<RefundId(offer, l), 1>>
<1>1. TxId(FundingOf[offer]) = FundingId(offer)
  BY FundingForm, TxIdForm DEF FundingId
<1>2. TxId(ClaimOf[offer]) = ClaimId(offer)
  BY ClaimForm, TxIdForm DEF ClaimId
<1>3. \A l : TxId(RefundTx(offer, l)) = RefundId(offer, l)
  BY RefundForm, TxIdForm DEF RefundId
<1>4. QED
  BY <1>1, <1>2, <1>3 DEF Lockup, ClaimOutput, RefundOut, Outpoint

LEMMA ScriptFacts ==
    ASSUME SwapAssumption, NEW x \in Offers, NEW y \in Offers, ScriptOf[x] = ScriptOf[y]
    PROVE  x.id = y.id /\ x.type = y.type
<1>1. ASSUME NEW offer \in Offers
      PROVE  /\ ScriptOf[offer][3] = Push(PaymentHash(offer.id))
             /\ ScriptOf[offer][5] = Push(Claimer(offer.type))
  BY DEF ScriptOf, Htlc
<1>2. \A u, v : Push(u) = Push(v) => u = v
  BY DEF Push
<1>3. PaymentHash(x.id) = PaymentHash(y.id) /\ Claimer(x.type) = Claimer(y.type)
  BY <1>1, <1>2
<1>4. \A i, j : PaymentHash(i) = PaymentHash(j) => i = j
  BY DEF PaymentHash, Digest, Preimage, Secret
<1>5. User # Server
  BY DEF User, Server, Key
<1>6. x.type \in SwapType /\ y.type \in SwapType
  BY DEF SwapAssumption
<1>7. QED
  BY <1>3, <1>4, <1>5, <1>6 DEF Claimer, SwapType

LEMMA SameOffer ==
    ASSUME SwapAssumption, NEW x \in Offers, NEW y \in Offers,
           x.id = y.id, x.type = y.type, x.amount = y.amount
    PROVE  x = y
<1>1. /\ x = [id |-> x.id, type |-> x.type, amount |-> x.amount]
      /\ y = [id |-> y.id, type |-> y.type, amount |-> y.amount]
  BY DEF SwapAssumption
<1>2. QED
  BY Zenon, <1>1

LEMMA OffersOnly == SwapAssumption => NoOffer \notin Offers
<1>1. ASSUME NEW a, NEW b, NEW c
      PROVE  NoOffer # [id |-> a, type |-> b, amount |-> c]
  <2>1. "type" \notin DOMAIN NoOffer
    BY DEF NoOffer
  <2>2. "type" \in DOMAIN [id |-> a, type |-> b, amount |-> c]
    OBVIOUS
  <2>3. QED
    BY <2>1, <2>2
<1>2. QED
  BY <1>1 DEF SwapAssumption

LEMMA WalletTxFacts ==
    ASSUME NEW v, NEW p, NEW s, NEW l, NEW outs, NEW w
    PROVE  Tx(v, p, s, l, outs, w) # TxId(WalletTx)
<1> DEFINE t == Tx(v, p, s, l, outs, w)
<1>1. WalletTx.ins = <<>>
  BY DEF WalletTx, NoTx, NewTx
<1>2. TxId(WalletTx).ins = <<>>
  <2>1. \A x : [WalletTx EXCEPT !.wit = x].ins = WalletTx.ins
    BY DEF WalletTx, NoTx, NewTx
  <2>2. QED
    BY <1>1, <2>1 DEF TxId
<1>3. Len(t.ins) = 1
  BY TxParts
<1> HIDE DEF t
<1>4. Len(TxId(WalletTx).ins) = 0
  BY <1>2
<1>5. 0 # 1
  OBVIOUS
<1>6. QED
  BY Zenon, <1>3, <1>4, <1>5 DEF t

LEMMA WalletFacts ==
    ASSUME NEW o \in Orders, NEW v, NEW p, NEW s, NEW l, NEW outs, NEW w
    PROVE  Wallet[o] # <<Tx(v, p, s, l, outs, w), 1>>
<1> DEFINE t == Tx(v, p, s, l, outs, w)
<1>1. \E j : Wallet[o] = Outpoint(WalletTx, j)
  BY DEF Wallet
<1>2. t # TxId(WalletTx)
  BY WalletTxFacts
<1> HIDE DEF t
<1>3. <<t, 1>>[1] = t /\ \A j : Outpoint(WalletTx, j)[1] = TxId(WalletTx)
  BY DEF Outpoint
<1>4. QED
  BY Zenon, <1>1, <1>2, <1>3 DEF t

LEMMA KindsDiffer ==
    ASSUME SwapAssumption, NEW x \in Offers, NEW y \in Offers
    PROVE  /\ x.amount >= Dust /\ FundingId(x) = FundingId(y) => x = y
           /\ x.amount >= Dust /\ Lockup[x] = Lockup[y] => x = y
           /\ ClaimId(x) = ClaimId(y) => Lockup[x] = Lockup[y]
           /\ \A l, m : RefundId(x, l) = RefundId(y, m) => Lockup[x] = Lockup[y] /\ l = m
           /\ FundingId(x) # ClaimId(y) /\ \A l : FundingId(x) # RefundId(y, l)
           /\ \A l : ClaimId(x) # RefundId(y, l)
<1>1. x.amount >= Dust /\ FundingId(x) = FundingId(y) => x = y
  <2> SUFFICES ASSUME x.amount >= Dust, FundingId(x) = FundingId(y)
               PROVE  x = y
    OBVIOUS
  <2>1. FundingOuts(x) = FundingOuts(y)
    BY TxInjective DEF FundingId
  <2> DEFINE a == Output(x.amount, P2wsh(ScriptOf[x]))
             b == Output(y.amount, P2wsh(ScriptOf[y]))
  <2>2. FundingOuts(x) = <<a>> /\ (FundingOuts(y) = <<b>> \/ FundingOuts(y) = <<>>)
    BY DEF FundingOuts
  <2>3. a.amount = x.amount /\ a.spk = P2wsh(ScriptOf[x])
        /\ b.amount = y.amount /\ b.spk = P2wsh(ScriptOf[y])
    BY DEF Output
  <2> HIDE DEF a, b
  <2>4. a = b
    BY <2>1, <2>2
  <2>5. \A s, t : P2wsh(s) = P2wsh(t) => s = t
    BY DEF P2wsh, Digest, ScriptItem
  <2>6. x.amount = y.amount /\ ScriptOf[x] = ScriptOf[y]
    BY <2>3, <2>4, <2>5
  <2>7. QED
    BY <2>6, ScriptFacts, SameOffer
<1>3. Wallet[OrderOf(x)] # Lockup[y]
  <2>1. OrderOf(x) \in Orders
    BY DEF OrderOf, Orders
  <2>2. Lockup[y] = <<Tx(1, Wallet[OrderOf(y)], Final, 0, FundingOuts(y), <<>>), 1>>
    BY IdsOf DEF FundingId
  <2>3. QED
    BY <2>1, <2>2, WalletFacts
<1>4. FundingId(x) # ClaimId(y) /\ \A l : FundingId(x) # RefundId(y, l)
  BY <1>3, TxInjective DEF FundingId, ClaimId, RefundId
<1>5. ClaimId(x) = ClaimId(y) => Lockup[x] = Lockup[y]
  BY TxInjective DEF ClaimId
<1>6. \A l, m : RefundId(x, l) = RefundId(y, m) => Lockup[x] = Lockup[y] /\ l = m
  BY TxInjective DEF RefundId
<1>7. \A l : ClaimId(x) # RefundId(y, l)
  <2>1. Final # LowSequence(0)
    BY FinalDisabled, LowSequenceParts
  <2>2. QED
    BY <2>1, TxInjective DEF ClaimId, RefundId
<1>8. Lockup[x] = Lockup[y] => FundingId(x) = FundingId(y)
  <2>1. \A u, v : <<u, 1>> = <<v, 1>> => u = v
    OBVIOUS
  <2>2. QED
    BY <2>1, IdsOf
<1>9. QED
  BY <1>1, <1>4, <1>5, <1>6, <1>7, <1>8

LEMMA MadeFacts ==
    ASSUME SwapAssumption, NEW x \in Offers, NEW y \in Offers, NEW l, NEW m
    PROVE  /\ Made(FundingOf[x], Lockup[y]) => FundingId(x) = FundingId(y)
           /\ ~Made(FundingOf[x], ClaimOutput[y]) /\ ~Made(FundingOf[x], RefundOut(y, l))
           /\ ~Made(ClaimOf[x], Lockup[y]) /\ ~Made(ClaimOf[x], RefundOut(y, l))
           /\ Made(ClaimOf[x], ClaimOutput[y]) => Lockup[x] = Lockup[y]
           /\ ~Made(RefundTx(x, l), Lockup[y]) /\ ~Made(RefundTx(x, l), ClaimOutput[y])
           /\ Made(RefundTx(x, l), RefundOut(y, m)) => Lockup[x] = Lockup[y] /\ l = m
<1>1. \A a, b, i : <<a, i>> = <<b, 1>> => a = b
  OBVIOUS
<1>2. /\ \A o : Made(FundingOf[x], o) => \E i : o = <<FundingId(x), i>>
      /\ \A o : Made(ClaimOf[x], o) => \E i : o = <<ClaimId(x), i>>
      /\ \A o : Made(RefundTx(x, l), o) => \E i : o = <<RefundId(x, l), i>>
  BY IdsOf DEF Made, Outpoint
<1>3. /\ Lockup[y] = <<FundingId(y), 1>> /\ ClaimOutput[y] = <<ClaimId(y), 1>>
      /\ RefundOut(y, l) = <<RefundId(y, l), 1>> /\ RefundOut(y, m) = <<RefundId(y, m), 1>>
  BY IdsOf
<1>4. /\ FundingId(x) # ClaimId(y) /\ FundingId(x) # RefundId(y, l)
      /\ ClaimId(x) # FundingId(y) /\ ClaimId(x) # RefundId(y, l)
      /\ RefundId(x, l) # FundingId(y) /\ RefundId(x, l) # ClaimId(y)
      /\ ClaimId(x) = ClaimId(y) => Lockup[x] = Lockup[y]
      /\ RefundId(x, l) = RefundId(y, m) => Lockup[x] = Lockup[y] /\ l = m
  BY KindsDiffer
<1>5. QED
  BY <1>1, <1>2, <1>3, <1>4

LEMMA Makes ==
    ASSUME NEW x \in Offers, NEW l
    PROVE  /\ Made(ClaimOf[x], ClaimOutput[x]) /\ Made(RefundTx(x, l), RefundOut(x, l))
           /\ FundingOf[x].outs = FundingOuts(x)
<1>1. /\ FundingOf[x].outs = FundingOuts(x) /\ ClaimOf[x].outs = ClaimOuts(x)
      /\ RefundTx(x, l).outs = RefundOuts(x)
  BY FundingForm, ClaimForm, RefundForm, TxOuts
<1>2. Len(ClaimOuts(x)) = 1 /\ Len(RefundOuts(x)) = 1
  BY DEF ClaimOuts, RefundOuts
<1>3. 1 \in 1..Len(ClaimOf[x].outs) /\ 1 \in 1..Len(RefundTx(x, l).outs)
  BY <1>1, <1>2
<1>4. QED
  BY <1>1, <1>3 DEF Made, ClaimOutput, RefundOut

LEMMA SpentFacts ==
    ASSUME NEW x \in Offers, NEW l
    PROVE  /\ Spent(FundingOf[x]) = {Wallet[OrderOf(x)]}
           /\ Spent(ClaimOf[x]) = {Lockup[x]} /\ Spent(RefundTx(x, l)) = {Lockup[x]}
BY FundingForm, ClaimForm, RefundForm, TxSpent

LEMMA KeptFacts ==
    ASSUME SwapAssumption, NEW x \in Offers, NEW y \in Offers, NEW l
    PROVE  /\ ClaimOutput[y] # Wallet[OrderOf(x)] /\ ClaimOutput[y] # Lockup[x]
           /\ RefundOut(y, l) # Wallet[OrderOf(x)] /\ RefundOut(y, l) # Lockup[x]
<1>1. OrderOf(x) \in Orders
  BY DEF OrderOf, Orders
<1>2. ClaimOutput[y] # Wallet[OrderOf(x)] /\ RefundOut(y, l) # Wallet[OrderOf(x)]
  BY <1>1, IdsOf, WalletFacts DEF ClaimId, RefundId
<1>3. \A a, b : <<a, 1>> = <<b, 1>> => a = b
  OBVIOUS
<1>4. ClaimId(y) # FundingId(x) /\ RefundId(y, l) # FundingId(x)
  BY KindsDiffer
<1>5. QED
  BY <1>2, <1>3, <1>4, IdsOf
-----------------------------------------------------------------------------
(***************************************************************************)
(* What the chain asks of each kind, and the chain after it.               *)
(***************************************************************************)
LEMMA FundingNeeds ==
    ASSUME NEW x \in Offers, NEW c, Accepts(c, FundingOf[x])
    PROVE  x.amount >= Dust
<1>1. FundingOuts(x) # <<>>
  BY Makes DEF Accepts
<1>2. QED
  BY <1>1 DEF FundingOuts

LEMMA SpendNeeds ==
    ASSUME NEW x \in Offers, NEW c, NEW l
    PROVE  /\ Accepts(c, ClaimOf[x]) => Unspent(c, Lockup[x])
           /\ Accepts(c, RefundTx(x, l)) => Unspent(c, Lockup[x])
BY SpentFacts DEF Accepts

(* A refund with a locktime below that of the script is refused by it.     *)
LEMMA RefundNeeds ==
    ASSUME SwapAssumption, NEW x \in Offers, NEW c, c.height \in Nat, NEW l \in Times(x),
           Accepts(c, RefundTx(x, l)), c.utxos[Lockup[x]].spk = P2wsh(ScriptOf[x])
    PROVE  c.height >= Locktime[x.type]
<1> DEFINE tx == RefundTx(x, l)
           p == Lockup[x]
           s == LowSequence(0)
           o == RefundOuts(x)
           w == tx.wit
           amount == c.utxos[p].amount
<1>1. x.type \in SwapType /\ Locktime[x.type] \in Nat
  BY DEF SwapAssumption
<1>2. tx = Tx(1, p, s, l, o, w)
  BY RefundForm
<1>3. tx.locktime = l
  BY <1>2, TxParts
<1>4. PICK sig : w = <<>> \/ w = <<RefundWitness(sig, ScriptOf[x])>>
  BY RefundForm
<1>5. s # Final
  BY FinalDisabled, LowSequenceParts
<1>6. Accepts(c, tx)
  OBVIOUS
<1> HIDE DEF tx, s, o, w
<1>7. l <= c.height /\ VerifyTransactionWitness(tx, 1, c.utxos[p].spk, amount)
  <2>1. Accepts(c, Tx(1, p, s, l, o, w))
    BY <1>2, <1>6
  <2>2. /\ l <= c.height \/ s = Final
        /\ VerifyTransactionWitness(Tx(1, p, s, l, o, w), 1, c.utxos[p].spk, amount)
    BY <2>1, AcceptsFacts
  <2>3. QED
    BY <1>2, <1>5, <2>2
<1>8. ~(l < Locktime[x.type])
  <2> SUFFICES ASSUME l < Locktime[x.type]
               PROVE  FALSE
    OBVIOUS
  <2> DEFINE script == ScriptOf[x]
  <2>1. script = Htlc(Funder(x.type), Claimer(x.type), PaymentHash(x.id), Locktime[x.type])
    BY DEF ScriptOf
  <2>2. VerifyTransactionWitness(tx, 1, P2wsh(script), amount)
    BY <1>7
  <2>3. tx.locktime < Locktime[x.type] /\ (tx.wit = <<>> \/ tx.wit = <<RefundWitness(sig, script)>>)
    BY <1>3, <1>4 DEF w
  <2> HIDE DEF script
  <2>4. ~VerifyTransactionWitness(tx, 1, P2wsh(script), amount)
    BY <1>1, <2>1, <2>3, EarlyRefundRejected
  <2>5. QED
    BY <2>2, <2>4
<1>9. QED
  BY <1>1, <1>7, <1>8 DEF Times

LEMMA AfterFunding ==
    ASSUME SwapAssumption, NEW x \in Offers, x.amount >= Dust, NEW c, IsChain(c)
    PROVE  LET d == Confirm(c, FundingOf[x])
           IN /\ IsChain(d) /\ d.height = c.height
              /\ \A y \in Offers :
                    Unspent(d, Lockup[y]) =>
                       \/ y = x
                       \/ Unspent(c, Lockup[y]) /\ d.utxos[Lockup[y]] = c.utxos[Lockup[y]]
              /\ d.utxos[Lockup[x]].amount = x.amount
              /\ d.utxos[Lockup[x]].spk = P2wsh(ScriptOf[x])
              /\ \A y \in Offers : Unspent(d, ClaimOutput[y]) <=> Unspent(c, ClaimOutput[y])
              /\ \A y \in Offers : \A l :
                    Unspent(d, RefundOut(y, l)) <=> Unspent(c, RefundOut(y, l))
<1> DEFINE tx == FundingOf[x]
           d == Confirm(c, tx)
           p == Wallet[OrderOf(x)]
<1>1. Spent(tx) = {p} /\ tx.outs = FundingOuts(x)
  BY SpentFacts, Makes
<1>2. /\ \A y \in Offers : Made(tx, Lockup[y]) => y = x
      /\ \A y \in Offers : ~Made(tx, ClaimOutput[y]) /\ ClaimOutput[y] # p
      /\ \A y \in Offers : \A l : ~Made(tx, RefundOut(y, l)) /\ RefundOut(y, l) # p
  <2>1. \A y \in Offers : FundingId(x) = FundingId(y) => x = y
    BY KindsDiffer
  <2>2. QED
    BY <2>1, MadeFacts, KeptFacts, SMTT(30)
<1>0. d = Confirm(c, tx)
  OBVIOUS
<1> HIDE DEF tx, d, p
<1>3. /\ IsChain(d) /\ d.height = c.height
      /\ \A o : Unspent(d, o) <=> (Unspent(c, o) /\ o \notin Spent(tx)) \/ Made(tx, o)
      /\ \A o : Unspent(d, o) /\ ~Made(tx, o) => d.utxos[o] = c.utxos[o]
      /\ \A i \in 1..Len(tx.outs) :
            d.utxos[Outpoint(tx, i)] = [amount |-> tx.outs[i].amount, spk |-> tx.outs[i].spk,
                                        height |-> c.height]
  <2>1. IsChain(d) /\ d.height = c.height
    BY <1>0, ConfirmFacts
  <2>2. \A o : Unspent(d, o) <=> (Unspent(c, o) /\ o \notin Spent(tx)) \/ Made(tx, o)
    BY <1>0, ConfirmFacts
  <2>3. \A o : Unspent(d, o) /\ ~Made(tx, o) => d.utxos[o] = c.utxos[o]
    BY <1>0, ConfirmKeeps
  <2>4. \A i \in 1..Len(tx.outs) :
           d.utxos[Outpoint(tx, i)] = [amount |-> tx.outs[i].amount, spk |-> tx.outs[i].spk,
                                       height |-> c.height]
    BY <1>0, ConfirmMakes
  <2>5. QED
    BY <2>1, <2>2, <2>3, <2>4
<1>4. Lockup[x] = Outpoint(tx, 1)
  BY DEF Lockup, tx
<1>5. d.utxos[Lockup[x]].amount = x.amount /\ d.utxos[Lockup[x]].spk = P2wsh(ScriptOf[x])
  <2> DEFINE out == Output(x.amount, P2wsh(ScriptOf[x]))
  <2>1. FundingOuts(x) = <<out>>
    BY DEF FundingOuts
  <2>2. out.amount = x.amount /\ out.spk = P2wsh(ScriptOf[x])
    BY DEF Output
  <2> HIDE DEF out
  <2>3. 1 \in 1..Len(tx.outs) /\ tx.outs[1] = out
    BY <1>1, <2>1
  <2>4. d.utxos[Lockup[x]] = [amount |-> out.amount, spk |-> out.spk, height |-> c.height]
    BY <1>3, <1>4, <2>3
  <2>5. QED
    BY <2>2, <2>4
<1>6. \A y \in Offers :
         Unspent(d, Lockup[y]) =>
            \/ y = x
            \/ Unspent(c, Lockup[y]) /\ d.utxos[Lockup[y]] = c.utxos[Lockup[y]]
  BY <1>2, <1>3
<1>7. /\ \A y \in Offers : Unspent(d, ClaimOutput[y]) <=> Unspent(c, ClaimOutput[y])
      /\ \A y \in Offers : \A l : Unspent(d, RefundOut(y, l)) <=> Unspent(c, RefundOut(y, l))
  BY <1>1, <1>2, <1>3
<1>8. QED
  BY <1>3, <1>5, <1>6, <1>7 DEF d, tx

LEMMA AfterClaim ==
    ASSUME SwapAssumption, NEW x \in Offers, x.amount >= Dust, NEW c, IsChain(c)
    PROVE  LET d == Confirm(c, ClaimOf[x])
           IN /\ IsChain(d) /\ d.height = c.height
              /\ \A y \in Offers :
                    Unspent(d, Lockup[y]) =>
                       /\ y # x /\ Unspent(c, Lockup[y])
                       /\ d.utxos[Lockup[y]] = c.utxos[Lockup[y]]
              /\ \A y \in Offers : Unspent(d, ClaimOutput[y]) <=>
                                      y = x \/ Unspent(c, ClaimOutput[y])
              /\ \A y \in Offers : \A l :
                    Unspent(d, RefundOut(y, l)) <=> Unspent(c, RefundOut(y, l))
<1> DEFINE tx == ClaimOf[x]
           d == Confirm(c, tx)
           p == Lockup[x]
<1>1. Spent(tx) = {p} /\ Made(tx, ClaimOutput[x])
  BY SpentFacts, Makes
<1>2. /\ \A y \in Offers : ~Made(tx, Lockup[y])
      /\ \A y \in Offers : (Made(tx, ClaimOutput[y]) => y = x) /\ ClaimOutput[y] # p
      /\ \A y \in Offers : \A l : ~Made(tx, RefundOut(y, l)) /\ RefundOut(y, l) # p
  BY MadeFacts, KindsDiffer, KeptFacts
<1>0. d = Confirm(c, tx)
  OBVIOUS
<1> HIDE DEF tx, d, p
<1>3. /\ IsChain(d) /\ d.height = c.height
      /\ \A o : Unspent(d, o) <=> (Unspent(c, o) /\ o \notin Spent(tx)) \/ Made(tx, o)
      /\ \A o : Unspent(d, o) /\ ~Made(tx, o) => d.utxos[o] = c.utxos[o]
  <2>1. IsChain(d) /\ d.height = c.height
    BY <1>0, ConfirmFacts
  <2>2. \A o : Unspent(d, o) <=> (Unspent(c, o) /\ o \notin Spent(tx)) \/ Made(tx, o)
    BY <1>0, ConfirmFacts
  <2>3. \A o : Unspent(d, o) /\ ~Made(tx, o) => d.utxos[o] = c.utxos[o]
    BY <1>0, ConfirmKeeps
  <2>4. QED
    BY <2>1, <2>2, <2>3
<1>4. \A y \in Offers :
         Unspent(d, Lockup[y]) => /\ y # x /\ Unspent(c, Lockup[y])
                                  /\ d.utxos[Lockup[y]] = c.utxos[Lockup[y]]
  BY <1>1, <1>2, <1>3 DEF p
<1>5. \A y \in Offers : Unspent(d, ClaimOutput[y]) <=> y = x \/ Unspent(c, ClaimOutput[y])
  BY <1>1, <1>2, <1>3
<1>6. \A y \in Offers : \A l : Unspent(d, RefundOut(y, l)) <=> Unspent(c, RefundOut(y, l))
  BY <1>1, <1>2, <1>3
<1>7. QED
  BY <1>3, <1>4, <1>5, <1>6 DEF d, tx

LEMMA AfterRefund ==
    ASSUME SwapAssumption, NEW x \in Offers, x.amount >= Dust, NEW c, IsChain(c), NEW l
    PROVE  LET d == Confirm(c, RefundTx(x, l))
           IN /\ IsChain(d) /\ d.height = c.height
              /\ \A y \in Offers :
                    Unspent(d, Lockup[y]) =>
                       /\ y # x /\ Unspent(c, Lockup[y])
                       /\ d.utxos[Lockup[y]] = c.utxos[Lockup[y]]
              /\ \A y \in Offers : Unspent(d, ClaimOutput[y]) <=> Unspent(c, ClaimOutput[y])
              /\ \A y \in Offers : \A m :
                    Unspent(d, RefundOut(y, m)) <=>
                       (y = x /\ m = l) \/ Unspent(c, RefundOut(y, m))
<1> DEFINE tx == RefundTx(x, l)
           d == Confirm(c, tx)
           p == Lockup[x]
<1>1. Spent(tx) = {p} /\ Made(tx, RefundOut(x, l))
  BY SpentFacts, Makes
<1>2. /\ \A y \in Offers : ~Made(tx, Lockup[y])
      /\ \A y \in Offers : ~Made(tx, ClaimOutput[y]) /\ ClaimOutput[y] # p
      /\ \A y \in Offers : \A m :
            (Made(tx, RefundOut(y, m)) => y = x /\ m = l) /\ RefundOut(y, m) # p
  BY MadeFacts, KindsDiffer, KeptFacts
<1>0. d = Confirm(c, tx)
  OBVIOUS
<1> HIDE DEF tx, d, p
<1>3. /\ IsChain(d) /\ d.height = c.height
      /\ \A o : Unspent(d, o) <=> (Unspent(c, o) /\ o \notin Spent(tx)) \/ Made(tx, o)
      /\ \A o : Unspent(d, o) /\ ~Made(tx, o) => d.utxos[o] = c.utxos[o]
  <2>1. IsChain(d) /\ d.height = c.height
    BY <1>0, ConfirmFacts
  <2>2. \A o : Unspent(d, o) <=> (Unspent(c, o) /\ o \notin Spent(tx)) \/ Made(tx, o)
    BY <1>0, ConfirmFacts
  <2>3. \A o : Unspent(d, o) /\ ~Made(tx, o) => d.utxos[o] = c.utxos[o]
    BY <1>0, ConfirmKeeps
  <2>4. QED
    BY <2>1, <2>2, <2>3
<1>4. \A y \in Offers :
         Unspent(d, Lockup[y]) => /\ y # x /\ Unspent(c, Lockup[y])
                                  /\ d.utxos[Lockup[y]] = c.utxos[Lockup[y]]
  BY <1>1, <1>2, <1>3 DEF p
<1>5. \A y \in Offers : Unspent(d, ClaimOutput[y]) <=> Unspent(c, ClaimOutput[y])
  BY <1>1, <1>2, <1>3
<1>6. \A y \in Offers : \A m :
         Unspent(d, RefundOut(y, m)) <=> (y = x /\ m = l) \/ Unspent(c, RefundOut(y, m))
  BY <1>1, <1>2, <1>3
<1>7. QED
  BY <1>3, <1>4, <1>5, <1>6 DEF d, tx
-----------------------------------------------------------------------------
(***************************************************************************)
(* The half of a swap on the chain, by its offer.                          *)
(***************************************************************************)
IsClaimed(c, x) == x # NoOffer /\ Unspent(c, ClaimOutput[x])

IsRefunded(c, x) ==
    x # NoOffer /\ \E early \in BOOLEAN : Unspent(c, RefundOutput[x][early])

LEMMA RefundedForm ==
    ASSUME SwapAssumption, NEW x \in Offers, NEW c
    PROVE  IsRefunded(c, x) <=> \E l \in Times(x) : Unspent(c, RefundOut(x, l))
<1> DEFINE L == Locktime[x.type]
<1>1. L \in Nat
  BY DEF SwapAssumption
<1>2. RefundOutput[x][TRUE] = RefundOut(x, L - 1)
  <2>1. RefundOutput[x][TRUE] = RefundOut(x, L - (IF TRUE THEN 1 ELSE 0))
    BY Zenon, RefundOfOffer
  <2>2. QED
    BY <2>1
<1>3. RefundOutput[x][FALSE] = RefundOut(x, L)
  <2>1. RefundOutput[x][FALSE] = RefundOut(x, L - (IF FALSE THEN 1 ELSE 0))
    BY Zenon, RefundOfOffer
  <2>2. L - 0 = L
    BY <1>1
  <2> HIDE DEF L
  <2>3. QED
    BY <2>1, <2>2
<1>4. x # NoOffer
  BY OffersOnly
<1> HIDE DEF L
<1>5. IsRefunded(c, x) <=> Unspent(c, RefundOut(x, L - 1)) \/ Unspent(c, RefundOut(x, L))
  <2>1. IsRefunded(c, x) <=> \/ Unspent(c, RefundOutput[x][TRUE])
                             \/ Unspent(c, RefundOutput[x][FALSE])
    BY Zenon, <1>4 DEF IsRefunded
  <2>2. QED
    BY Zenon, <1>2, <1>3, <2>1
<1>6. QED
  BY <1>5 DEF Times, L

LEMMA Halves ==
    ASSUME NEW o \in Orders
    PROVE  /\ Claimed(o) <=> IsClaimed(chain, locked[o])
           /\ Refunded(o) <=> IsRefunded(chain, locked[o])
           /\ Claimed(o)' <=> IsClaimed(chain', locked'[o])
           /\ Refunded(o)' <=> IsRefunded(chain', locked'[o])
BY Zenon DEF Claimed, Refunded, IsClaimed, IsRefunded

LEMMA OrderFacts ==
    ASSUME SwapAssumption, NEW x \in Offers
    PROVE  /\ OrderOf(x) \in Orders /\ OrderOf(x)[1] = x.id /\ OrderOf(x)[2] = x.type
           /\ x.id \in Ids /\ x.type \in SwapType /\ Locktime[x.type] \in Nat
BY DEF SwapAssumption, OrderOf, Orders, Ids

LEMMA OrderParts ==
    ASSUME SwapAssumption, NEW o \in Orders
    PROVE  o = <<o[1], o[2]>> /\ o[2] \in SwapType /\ o[1] \in Ids
BY DEF SwapAssumption, Orders, Ids

LEMMA LockedFacts ==
    ASSUME SwapAssumption, LockedOK, NEW o \in Orders, locked[o] # NoOffer
    PROVE  /\ locked[o] \in Offers /\ OrderOf(locked[o]) = o /\ Funded(locked[o])
           /\ locked[o].id = o[1] /\ locked[o].type = o[2] /\ locked[o].amount >= Dust
BY OrderFacts DEF LockedOK, Funded

LEMMA SpendFacts ==
    ASSUME NEW o \in Orders
    PROVE  /\ <<o, "claim">> \in Spends /\ <<o, "refund">> \in Spends
           /\ \A p \in Orders : <<o, "claim">> # <<p, "refund">>
           /\ \A p \in Orders : <<o, "claim">> = <<p, "claim">> => o = p
           /\ \A p \in Orders : <<o, "refund">> = <<p, "refund">> => o = p
BY DEF Spends
-----------------------------------------------------------------------------
(***************************************************************************)
(* Every action keeps the invariant.                                       *)
(***************************************************************************)
LEMMA InitOK == SwapAssumption /\ Init => SwapInv
<1> SUFFICES ASSUME SwapAssumption, Init
             PROVE  SwapInv
  OBVIOUS
<1>1. \A o : Unspent(chain, o) => \E i : o = <<TxId(WalletTx), i>>
  <2>1. chain.utxos = Outputs(WalletTx, 0)
    BY DEF Init, Genesis
  <2>2. \A o : Unspent(chain, o) => Made(WalletTx, o)
    BY <2>1, OutputsFacts DEF Unspent
  <2>3. QED
    BY <2>2 DEF Made, Outpoint
<1>2. \A v, p, s, l, outs, w : ~Unspent(chain, <<Tx(v, p, s, l, outs, w), 1>>)
  <2> SUFFICES ASSUME NEW v, NEW p, NEW s, NEW l, NEW outs, NEW w,
                      Unspent(chain, <<Tx(v, p, s, l, outs, w), 1>>)
               PROVE  FALSE
    OBVIOUS
  <2>1. PICK i : <<Tx(v, p, s, l, outs, w), 1>> = <<TxId(WalletTx), i>>
    BY <1>1
  <2>2. Tx(v, p, s, l, outs, w) = TxId(WalletTx)
    BY <2>1
  <2>3. QED
    BY <2>2, WalletTxFacts
<1>3. \A x \in Offers : /\ ~Unspent(chain, Lockup[x]) /\ ~Unspent(chain, ClaimOutput[x])
                        /\ \A l : ~Unspent(chain, RefundOut(x, l))
  <2> SUFFICES ASSUME NEW x \in Offers, NEW l
               PROVE  /\ ~Unspent(chain, Lockup[x]) /\ ~Unspent(chain, ClaimOutput[x])
                      /\ ~Unspent(chain, RefundOut(x, l))
    OBVIOUS
  <2>1. /\ ~Unspent(chain, <<FundingId(x), 1>>) /\ ~Unspent(chain, <<ClaimId(x), 1>>)
        /\ ~Unspent(chain, <<RefundId(x, l), 1>>)
    BY <1>2 DEF FundingId, ClaimId, RefundId
  <2>2. /\ Lockup[x] = <<FundingId(x), 1>> /\ ClaimOutput[x] = <<ClaimId(x), 1>>
        /\ RefundOut(x, l) = <<RefundId(x, l), 1>>
    BY IdsOf
  <2>3. QED
    BY <2>1, <2>2
<1>4. IsChain(chain) /\ chain.height = 0
  BY DEF Init, Genesis, IsChain, Chain
<1>5. StatusOK
  BY <1>4 DEF StatusOK, Init, SwapAssumption
<1>6. LockedOK /\ SwapsOK /\ RegisteredOK /\ LoopInFixed
  BY DEF LockedOK, SwapsOK, RegisteredOK, LoopInFixed, Init
<1>7. UnsentOK
  BY SpendFacts DEF UnsentOK, ClaimsOK, RefundsOK, Init
<1>8. LockupOK /\ ClaimedOK /\ RefundedOK
  BY <1>3 DEF LockupOK, ClaimedOK, RefundedOK
<1>9. LoopOutFollows /\ Deadlines
  BY DEF LoopOutFollows, Deadlines, Init
<1>10. QED
  BY <1>5, <1>6, <1>7, <1>8, <1>9 DEF SwapInv

(* What the coordinator alone changes leaves the halves of the swaps.      *)
LEMMA HalvesKept ==
    ASSUME SwapInv, UNCHANGED <<locked, ln, unsent, chain>>
    PROVE  /\ StatusOK' /\ LockedOK' /\ UnsentOK' /\ LockupOK' /\ ClaimedOK' /\ RefundedOK'
           /\ LoopOutFollows' /\ Deadlines'
<1>1. StatusOK' /\ LockedOK' /\ LockupOK' /\ ClaimedOK' /\ RefundedOK'
  BY DEF SwapInv, StatusOK, LockedOK, LockupOK, ClaimedOK, RefundedOK, Funded
<1>2. UnsentOK'
  BY DEF SwapInv, UnsentOK, ClaimsOK, RefundsOK
<1>3. LoopOutFollows' /\ Deadlines'
  BY DEF SwapInv, LoopOutFollows, Deadlines, Claimed, Refunded
<1>4. QED
  BY <1>1, <1>2, <1>3

LEMMA InitiateStep ==
    ASSUME SwapAssumption, SwapInv, NEW x \in Offers, Initiate(x)
    PROVE  SwapInv'
<1> DEFINE id == x.id
           terms == Swapped(x, "PENDING")
<1>1. /\ Idle(id) /\ UNCHANGED <<onchain_funding, locked, ln, unsent, chain>>
      /\ swaps' = [i \in DOMAIN swaps \cup {id} |-> IF i = id THEN terms ELSE swaps[i]]
      /\ swap_scripts' = [i \in DOMAIN swap_scripts \cup {id} |->
                             IF i = id THEN ScriptOf[x] ELSE swap_scripts[i]]
  BY DEF Initiate, Put, Swapped
<1>2. terms.state = "PENDING" /\ terms = Swapped(x, terms.state)
  BY DEF Swapped
<1> HIDE DEF terms
<1>3. SwapsOK'
  <2>1. DOMAIN swap_scripts' = DOMAIN swaps'
    BY <1>1 DEF SwapInv, SwapsOK
  <2>2. ASSUME NEW i \in DOMAIN swaps'
        PROVE  \E offer \in Offers :
                  /\ offer.id = i /\ swaps'[i] = Swapped(offer, swaps'[i].state)
                  /\ swaps'[i].state \in {"PENDING", "FULFILLED"}
                  /\ swap_scripts'[i] = ScriptOf[offer]
    <3>1. CASE i = id
      BY <1>1, <1>2, <3>1
    <3>2. CASE i # id
      <4>1. i \in DOMAIN swaps /\ swaps'[i] = swaps[i] /\ swap_scripts'[i] = swap_scripts[i]
        BY <1>1, <2>2, <3>2 DEF SwapInv, SwapsOK
      <4>2. QED
        BY <4>1 DEF SwapInv, SwapsOK
    <3>3. QED
      BY <3>1, <3>2
  <2>3. QED
    BY <2>1, <2>2 DEF SwapsOK, Swapped
<1>4. RegisteredOK'
  BY <1>1 DEF SwapInv, RegisteredOK, Funded
<1>5. LoopInFixed'
  <2> SUFFICES ASSUME NEW o \in Orders, o[2] = "LOOP_IN", ln[o] # "none"
               PROVE  /\ locked[o] # NoOffer
                      /\ o[1] \in DOMAIN swaps' /\ o[1] \in DOMAIN onchain_funding
                      /\ swaps'[o[1]].type = "LOOP_IN" /\ swaps'[o[1]].amount = locked[o].amount
                      /\ onchain_funding[o[1]] = Lockup[locked[o]]
    BY <1>1 DEF LoopInFixed
  <2>1. o[1] # id
    BY <1>1 DEF Idle
  <2>2. o[1] \in DOMAIN swaps /\ swaps'[o[1]] = swaps[o[1]]
    BY <1>1, <2>1 DEF SwapInv, LoopInFixed
  <2>3. QED
    BY <1>1, <2>2 DEF SwapInv, LoopInFixed
<1>6. QED
  BY <1>1, <1>3, <1>4, <1>5, HalvesKept DEF SwapInv

LEMMA RegisterStep ==
    ASSUME SwapAssumption, SwapInv, NEW id, NEW o \in Orders, locked[o] # NoOffer,
           RegisterFundingUtxo(id, Lockup[locked[o]])
    PROVE  SwapInv'
<1> DEFINE outpoint == Lockup[locked[o]]
<1>1. /\ Known(id) /\ Idle(id) /\ UNCHANGED <<swaps, swap_scripts, locked, ln, unsent, chain>>
      /\ onchain_funding' = [i \in DOMAIN onchain_funding \cup {id} |->
                                IF i = id THEN outpoint ELSE onchain_funding[i]]
  BY DEF RegisterFundingUtxo, Put
<1>2. locked[o] \in Offers /\ Funded(locked[o])
  BY LockedFacts DEF SwapInv
<1>3. SwapsOK'
  BY <1>1 DEF SwapInv, SwapsOK
<1>4. RegisteredOK'
  <2>1. DOMAIN onchain_funding' \subseteq DOMAIN swaps'
    BY <1>1 DEF SwapInv, RegisteredOK, Known
  <2>2. ASSUME NEW i \in DOMAIN onchain_funding'
        PROVE  \E offer \in Offers : Funded(offer) /\ onchain_funding'[i] = Lockup[offer]
    <3>1. CASE i = id
      BY <1>1, <1>2, <3>1
    <3>2. CASE i # id
      <4>1. i \in DOMAIN onchain_funding /\ onchain_funding'[i] = onchain_funding[i]
        BY <1>1, <2>2, <3>2
      <4>2. QED
        BY <4>1 DEF SwapInv, RegisteredOK
    <3>3. QED
      BY <3>1, <3>2
  <2>3. QED
    BY <1>1, <2>1, <2>2 DEF RegisteredOK, Funded
<1> HIDE DEF outpoint
<1>5. LoopInFixed'
  <2> SUFFICES ASSUME NEW p \in Orders, p[2] = "LOOP_IN", ln[p] # "none"
               PROVE  /\ locked[p] # NoOffer
                      /\ p[1] \in DOMAIN swaps /\ p[1] \in DOMAIN onchain_funding'
                      /\ swaps[p[1]].type = "LOOP_IN" /\ swaps[p[1]].amount = locked[p].amount
                      /\ onchain_funding'[p[1]] = Lockup[locked[p]]
    BY <1>1 DEF LoopInFixed
  <2>1. p[1] # id
    BY <1>1 DEF Idle
  <2>2. p[1] \in DOMAIN onchain_funding /\ onchain_funding'[p[1]] = onchain_funding[p[1]]
    BY <1>1, <2>1 DEF SwapInv, LoopInFixed
  <2>3. QED
    BY <1>1, <2>2 DEF SwapInv, LoopInFixed
<1>6. QED
  BY <1>1, <1>3, <1>4, <1>5, HalvesKept DEF SwapInv

(* What the server looked at when it paid a loop in.                       *)
Fixed(o) ==
    /\ locked[o] # NoOffer
    /\ o[1] \in DOMAIN swaps /\ o[1] \in DOMAIN onchain_funding
    /\ swaps[o[1]].type = "LOOP_IN" /\ swaps[o[1]].amount = locked[o].amount
    /\ onchain_funding[o[1]] = Lockup[locked[o]]

(* The three steps of the Lightning half.                                  *)
LEMMA LightningStep ==
    ASSUME SwapAssumption, SwapInv, NEW o \in Orders, NEW v \in {"held", "settled", "failed"},
           ln[o] \in {"none", "held"}, ln' = [ln EXCEPT ![o] = v],
           UNCHANGED <<coordinator, locked, unsent, chain>>,
           o[2] = "LOOP_IN" => Fixed(o),
           v = "held" /\ o[2] = "LOOP_OUT" => chain.height < LnExpiry["LOOP_OUT"],
           v = "settled" => /\ chain.height < LnExpiry[o[2]]
                            /\ o[2] = "LOOP_OUT" => Claimed(o),
           v = "failed" /\ o[2] = "LOOP_OUT" => locked[o] = NoOffer \/ Refunded(o)
    PROVE  SwapInv'
<1>1. UNCHANGED <<swaps, swap_scripts, onchain_funding, locked, unsent, chain>>
  BY DEF coordinator
<1>2. /\ ln \in [Orders -> {"none", "held", "settled", "failed"}]
      /\ ln'[o] = v /\ \A p \in Orders : p # o => ln'[p] = ln[p]
  BY DEF SwapInv, StatusOK
<1>3. /\ \A p \in Orders : Claimed(p)' <=> Claimed(p)
      /\ \A p \in Orders : Refunded(p)' <=> Refunded(p)
  BY <1>1 DEF Claimed, Refunded
<1>4. /\ chain.height \in Nat /\ Locktime["LOOP_IN"] \in Nat /\ LnExpiry["LOOP_IN"] \in Nat
      /\ LnExpiry["LOOP_IN"] < Locktime["LOOP_IN"]
  BY DEF SwapInv, StatusOK, SwapAssumption, SwapType
<1>5. \A p \in Orders : ln[p] = "settled" => ln'[p] = "settled"
  BY <1>2
<1>6. StatusOK' /\ LockedOK' /\ SwapsOK' /\ RegisteredOK' /\ LockupOK'
  BY <1>1 DEF SwapInv, StatusOK, LockedOK, SwapsOK, RegisteredOK, LockupOK, Funded
<1>7. LoopInFixed'
  <2> SUFFICES ASSUME NEW p \in Orders, p[2] = "LOOP_IN", ln'[p] # "none"
               PROVE  Fixed(p)
    BY <1>1 DEF LoopInFixed, Fixed
  <2>1. CASE p = o
    BY <2>1
  <2>2. CASE p # o
    BY <1>2, <2>2 DEF SwapInv, LoopInFixed, Fixed
  <2>3. QED
    BY <2>1, <2>2
<1>8. UnsentOK'
  <2>1. ClaimsOK'
    BY <1>1, <1>5 DEF SwapInv, UnsentOK, ClaimsOK
  <2>2. QED
    BY <1>1, <2>1 DEF SwapInv, UnsentOK, RefundsOK
<1>9. ClaimedOK'
  <2>1. \A x \in Offers : OrderOf(x) \in Orders
    BY OrderFacts
  <2>2. QED
    BY <1>1, <1>5, <2>1 DEF SwapInv, ClaimedOK, Funded
<1>10. RefundedOK'
  <2> SUFFICES ASSUME NEW x \in Offers, NEW l \in Times(x), Unspent(chain, RefundOut(x, l)),
                      x.type = "LOOP_IN", ln'[OrderOf(x)] = "settled"
               PROVE  FALSE
    BY <1>1 DEF SwapInv, RefundedOK, Funded
  <2>1. OrderOf(x) \in Orders /\ OrderOf(x)[2] = "LOOP_IN"
    BY OrderFacts
  <2>2. ln[OrderOf(x)] # "settled" /\ chain.height >= Locktime["LOOP_IN"]
    BY DEF SwapInv, RefundedOK
  <2>3. OrderOf(x) = o /\ v = "settled"
    BY <1>2, <2>1, <2>2
  <2>4. QED
    BY <1>4, <2>1, <2>2, <2>3
<1>11. LoopOutFollows'
  <2> SUFFICES ASSUME NEW p \in Orders, p[2] = "LOOP_OUT"
               PROVE  /\ ln'[p] = "settled" => Claimed(p)
                      /\ ln'[p] = "failed" => locked[p] = NoOffer \/ Refunded(p)
    BY <1>1, <1>3 DEF LoopOutFollows
  <2>1. CASE p = o
    BY <1>2, <2>1
  <2>2. CASE p # o
    BY <1>2, <2>2 DEF SwapInv, LoopOutFollows
  <2>3. QED
    BY <2>1, <2>2
<1>12. Deadlines'
  <2> SUFFICES ASSUME NEW p \in Orders
               PROVE  IF p[2] = "LOOP_IN"
                      THEN ln'[p] = "settled" /\ ~Claimed(p) => chain.height < Locktime["LOOP_IN"]
                      ELSE ln'[p] = "held" /\ locked[p] # NoOffer /\ ~Refunded(p)
                              => chain.height < LnExpiry["LOOP_OUT"]
    BY <1>1, <1>3 DEF Deadlines
  <2>1. CASE p = o
    <3>1. p[2] = "LOOP_IN" \/ p[2] = "LOOP_OUT"
      BY OrderParts DEF SwapType
    <3>2. QED
      BY <1>2, <1>4, <2>1, <3>1
  <2>2. CASE p # o
    BY <1>2, <2>2 DEF SwapInv, Deadlines
  <2>3. QED
    BY <2>1, <2>2
<1>13. QED
  BY <1>6, <1>7, <1>8, <1>9, <1>10, <1>11, <1>12 DEF SwapInv

(* The output that the server finds to be funded is that of its own terms. *)
LEMMA FundedIsFixed ==
    ASSUME SwapAssumption, SwapInv, NEW o \in Orders, o[2] = "LOOP_IN",
           o[1] \in DOMAIN swaps, swaps[o[1]].type = "LOOP_IN", IsFunded(o[1])
    PROVE  Fixed(o)
<1>1. PICK z \in Offers : /\ z.id = o[1] /\ swaps[o[1]] = Swapped(z, swaps[o[1]].state)
                          /\ swap_scripts[o[1]] = ScriptOf[z]
  BY DEF SwapInv, SwapsOK
<1>2. z.type = "LOOP_IN" /\ z.amount = swaps[o[1]].amount
  BY <1>1 DEF Swapped
<1>3. o[1] \in DOMAIN onchain_funding /\ Unspent(chain, onchain_funding[o[1]])
  BY DEF IsFunded
<1>4. PICK y \in Offers : Funded(y) /\ onchain_funding[o[1]] = Lockup[y]
  BY <1>3 DEF SwapInv, RegisteredOK
<1>5. /\ chain.utxos[Lockup[y]].amount = y.amount
      /\ chain.utxos[Lockup[y]].spk = P2wsh(ScriptOf[y])
  BY <1>3, <1>4 DEF SwapInv, LockupOK
<1>6. /\ chain.utxos[Lockup[y]].amount = swaps[o[1]].amount
      /\ chain.utxos[Lockup[y]].spk = P2wsh(swap_scripts[o[1]])
  BY <1>4 DEF IsFunded
<1>7. \A s, t : P2wsh(s) = P2wsh(t) => s = t
  BY DEF P2wsh, Digest, ScriptItem
<1>8. ScriptOf[y] = ScriptOf[z] /\ y.amount = z.amount
  BY <1>1, <1>2, <1>5, <1>6, <1>7
<1>9. y = z
  BY <1>8, ScriptFacts, SameOffer
<1>10. OrderOf(z) = o
  BY <1>1, <1>2, OrderParts DEF OrderOf
<1>11. locked[o] = z /\ z # NoOffer
  BY <1>4, <1>9, <1>10, OffersOnly DEF Funded
<1>12. QED
  BY <1>2, <1>3, <1>4, <1>9, <1>11 DEF Fixed

LEMMA PayStep ==
    ASSUME SwapAssumption, SwapInv, NEW o \in Orders, PayLightning(o)
    PROVE  SwapInv'
<1>1. /\ o[1] \in DOMAIN swaps /\ swaps[o[1]].type = o[2] /\ ln[o] = "none"
      /\ o[2] = "LOOP_IN" => IsFunded(o[1])
      /\ o[2] = "LOOP_OUT" => chain.height < Locktime[o[2]]
      /\ ln' = [ln EXCEPT ![o] = "held"]
      /\ UNCHANGED <<coordinator, locked, unsent, chain>>
  BY DEF PayLightning, Known
<1>2. o[2] = "LOOP_IN" => Fixed(o)
  BY <1>1, FundedIsFixed
<1>3. o[2] = "LOOP_OUT" => chain.height < LnExpiry["LOOP_OUT"]
  BY <1>1 DEF SwapInv, StatusOK, SwapAssumption, SwapType
<1>4. QED
  BY <1>1, <1>2, <1>3, LightningStep

LEMMA SettleStep ==
    ASSUME SwapAssumption, SwapInv, NEW o \in Orders, SettleLightning(o)
    PROVE  SwapInv'
<1>1. /\ ln[o] = "held" /\ chain.height < LnExpiry[o[2]]
      /\ o[2] = "LOOP_OUT" => Claimed(o)
      /\ ln' = [ln EXCEPT ![o] = "settled"]
      /\ UNCHANGED <<coordinator, locked, unsent, chain>>
  BY DEF SettleLightning
<1>2. o[2] = "LOOP_IN" => Fixed(o)
  BY <1>1 DEF SwapInv, LoopInFixed, Fixed
<1>3. QED
  BY <1>1, <1>2, LightningStep

LEMMA FailStep ==
    ASSUME SwapAssumption, SwapInv, NEW o \in Orders, FailLightning(o)
    PROVE  SwapInv'
<1>1. /\ ln[o] = "held" /\ chain.height >= LnExpiry[o[2]]
      /\ ln' = [ln EXCEPT ![o] = "failed"]
      /\ UNCHANGED <<coordinator, locked, unsent, chain>>
  BY DEF FailLightning
<1>2. o[2] = "LOOP_IN" => Fixed(o)
  BY <1>1 DEF SwapInv, LoopInFixed, Fixed
<1>3. o[2] = "LOOP_OUT" => locked[o] = NoOffer \/ Refunded(o)
  BY <1>1 DEF SwapInv, StatusOK, Deadlines, SwapAssumption, SwapType
<1>4. QED
  BY <1>1, <1>2, <1>3, LightningStep

(* Nothing of an offer that is only now funded was spent before.           *)
LEMMA FundHalves ==
    ASSUME SwapAssumption, SwapInv, NEW x \in Offers, Fund(x)
    PROVE  \A p \in Orders : (Claimed(p)' <=> Claimed(p)) /\ (Refunded(p)' <=> Refunded(p))
<1> DEFINE o == OrderOf(x)
           d == Confirm(chain, FundingOf[x])
<1>1. /\ locked[o] = NoOffer /\ Accepts(chain, FundingOf[x]) /\ chain' = d
      /\ locked' = [locked EXCEPT ![o] = x]
  BY DEF Fund, OrderOf
<1>2. x.amount >= Dust /\ IsChain(chain)
  BY <1>1, FundingNeeds DEF SwapInv, StatusOK
<1>3. /\ \A y \in Offers : Unspent(d, ClaimOutput[y]) <=> Unspent(chain, ClaimOutput[y])
      /\ \A y \in Offers : \A l :
            Unspent(d, RefundOut(y, l)) <=> Unspent(chain, RefundOut(y, l))
  BY <1>2, AfterFunding
<1>4. o \in Orders /\ OrderOf(x) = o /\ x # NoOffer
  BY OrderFacts, OffersOnly
<1> HIDE DEF o, d
<1>5. locked'[o] = x /\ \A p \in Orders : p # o => locked'[p] = locked[p]
  BY <1>1, <1>4 DEF SwapInv, LockedOK
<1>6. ~Funded(x)
  BY <1>1, <1>4 DEF Funded
<1> SUFFICES ASSUME NEW p \in Orders
             PROVE  (Claimed(p)' <=> Claimed(p)) /\ (Refunded(p)' <=> Refunded(p))
  OBVIOUS
<1>7. /\ Claimed(p)' <=> IsClaimed(d, locked'[p])
      /\ Refunded(p)' <=> IsRefunded(d, locked'[p])
      /\ Claimed(p) <=> IsClaimed(chain, locked[p])
      /\ Refunded(p) <=> IsRefunded(chain, locked[p])
  BY <1>1, Halves
<1>8. \A y \in Offers : /\ IsClaimed(d, y) <=> IsClaimed(chain, y)
                        /\ IsRefunded(d, y) <=> IsRefunded(chain, y)
  <2> SUFFICES ASSUME NEW y \in Offers
               PROVE  /\ IsClaimed(d, y) <=> IsClaimed(chain, y)
                      /\ IsRefunded(d, y) <=> IsRefunded(chain, y)
    OBVIOUS
  <2>1. IsClaimed(d, y) <=> IsClaimed(chain, y)
    BY <1>3 DEF IsClaimed
  <2>2. IsRefunded(d, y) <=> IsRefunded(chain, y)
    BY <1>3, RefundedForm
  <2>3. QED
    BY <2>1, <2>2
<1>9. CASE p = o
  <2>1. ~IsClaimed(chain, NoOffer) /\ ~IsRefunded(chain, NoOffer)
    BY DEF IsClaimed, IsRefunded
  <2>2. ~IsClaimed(chain, x)
    BY <1>6 DEF SwapInv, ClaimedOK, IsClaimed
  <2>3. ~IsRefunded(chain, x)
    BY <1>6, RefundedForm DEF SwapInv, RefundedOK
  <2>4. locked'[p] = x /\ locked[p] = NoOffer
    BY <1>1, <1>5, <1>9
  <2>5. ~IsClaimed(d, x) /\ ~IsRefunded(d, x)
    BY <1>8, <2>2, <2>3
  <2>6. QED
    BY Zenon, <1>7, <2>1, <2>4, <2>5
<1>10. CASE p # o
  <2>1. locked'[p] = locked[p]
    BY <1>5, <1>10
  <2>2. locked[p] \in Offers \/ locked[p] = NoOffer
    BY LockedFacts DEF SwapInv
  <2>3. /\ ~IsClaimed(chain, NoOffer) /\ ~IsRefunded(chain, NoOffer)
        /\ ~IsClaimed(d, NoOffer) /\ ~IsRefunded(d, NoOffer)
    BY DEF IsClaimed, IsRefunded
  <2>4. QED
    BY Zenon, <1>7, <1>8, <2>1, <2>2, <2>3
<1>11. QED
  BY <1>9, <1>10

LEMMA FundStep ==
    ASSUME SwapAssumption, SwapInv, NEW x \in Offers, Fund(x)
    PROVE  SwapInv'
<1> DEFINE o == OrderOf(x)
           d == Confirm(chain, FundingOf[x])
<1>1. /\ locked[o] = NoOffer
      /\ x.type = "LOOP_OUT" => ln[o] = "held" /\ chain.height < Locktime[x.type]
      /\ Accepts(chain, FundingOf[x]) /\ chain' = d
      /\ locked' = [locked EXCEPT ![o] = x]
      /\ UNCHANGED <<swaps, swap_scripts, onchain_funding, ln, unsent>>
  BY DEF Fund, OrderOf, coordinator
<1>2. x.amount >= Dust /\ IsChain(chain)
  BY <1>1, FundingNeeds DEF SwapInv, StatusOK
<1>3. /\ IsChain(d) /\ d.height = chain.height
      /\ \A y \in Offers :
            Unspent(d, Lockup[y]) =>
               \/ y = x
               \/ Unspent(chain, Lockup[y]) /\ d.utxos[Lockup[y]] = chain.utxos[Lockup[y]]
      /\ d.utxos[Lockup[x]].amount = x.amount
      /\ d.utxos[Lockup[x]].spk = P2wsh(ScriptOf[x])
      /\ \A y \in Offers : Unspent(d, ClaimOutput[y]) <=> Unspent(chain, ClaimOutput[y])
      /\ \A y \in Offers : \A l :
            Unspent(d, RefundOut(y, l)) <=> Unspent(chain, RefundOut(y, l))
  BY <1>2, AfterFunding
<1>4. o \in Orders /\ o[2] = x.type /\ OrderOf(x) = o /\ x # NoOffer
  BY OrderFacts, OffersOnly
<1> HIDE DEF o, d
<1>5. locked'[o] = x /\ \A p \in Orders : p # o => locked'[p] = locked[p]
  BY <1>1, <1>4 DEF SwapInv, LockedOK
<1>6. \A y \in Offers : Funded(y) => Funded(y)' /\ y # x
  <2> SUFFICES ASSUME NEW y \in Offers, Funded(y)
               PROVE  locked'[OrderOf(y)] = y /\ y # x
    BY DEF Funded
  <2>1. OrderOf(y) \in Orders /\ y # NoOffer /\ locked[OrderOf(y)] = y
    BY OrderFacts, OffersOnly DEF Funded
  <2>2. OrderOf(y) # o
    BY <1>1, <2>1
  <2>3. QED
    BY <1>4, <1>5, <2>1, <2>2
<1>7. Funded(x)'
  BY <1>4, <1>5 DEF Funded
<1>8. StatusOK'
  BY <1>1, <1>3 DEF SwapInv, StatusOK
<1>9. LockedOK'
  <2>1. locked' \in [Orders -> Offers \cup {NoOffer}]
    BY <1>1, <1>4 DEF SwapInv, LockedOK
  <2>2. \A p \in Orders : locked'[p] # NoOffer =>
           OrderOf(locked'[p]) = p /\ locked'[p].amount >= Dust
    BY <1>2, <1>4, <1>5 DEF SwapInv, LockedOK
  <2>3. QED
    BY <2>1, <2>2 DEF LockedOK, OrderOf
<1>10. SwapsOK'
  BY <1>1 DEF SwapInv, SwapsOK
<1>11. RegisteredOK'
  BY <1>1, <1>6 DEF SwapInv, RegisteredOK
<1>12. LoopInFixed'
  <2> SUFFICES ASSUME NEW p \in Orders, p[2] = "LOOP_IN", ln[p] # "none"
               PROVE  /\ locked'[p] # NoOffer
                      /\ p[1] \in DOMAIN swaps /\ p[1] \in DOMAIN onchain_funding
                      /\ swaps[p[1]].type = "LOOP_IN" /\ swaps[p[1]].amount = locked'[p].amount
                      /\ onchain_funding[p[1]] = Lockup[locked'[p]]
    BY <1>1 DEF LoopInFixed
  <2>1. locked[p] # NoOffer
    BY DEF SwapInv, LoopInFixed
  <2>2. locked'[p] = locked[p]
    BY <1>1, <1>5, <2>1
  <2>3. QED
    BY <2>2 DEF SwapInv, LoopInFixed
<1>13. UnsentOK'
  <2>1. \A p \in Orders : locked[p] # NoOffer => locked'[p] = locked[p]
    BY <1>1, <1>5
  <2>2. ClaimsOK'
    BY <1>1, <2>1 DEF SwapInv, UnsentOK, ClaimsOK
  <2>3. RefundsOK'
    <3> SUFFICES ASSUME NEW p \in Orders, unsent[<<p, "refund">>] # NoTx
                 PROVE  /\ locked'[p] # NoOffer
                        /\ \E l \in Times(locked'[p]) :
                              unsent[<<p, "refund">>] = RefundTx(locked'[p], l)
      BY <1>1 DEF RefundsOK, Times, RefundTx
    <3>1. /\ locked[p] # NoOffer
          /\ \E l \in Times(locked[p]) : unsent[<<p, "refund">>] = RefundTx(locked[p], l)
      BY DEF SwapInv, UnsentOK, RefundsOK
    <3>2. QED
      BY <2>1, <3>1
  <2>4. QED
    BY <1>1, <2>2, <2>3 DEF SwapInv, UnsentOK
<1>14. LockupOK'
  <2> SUFFICES ASSUME NEW y \in Offers, Unspent(d, Lockup[y])
               PROVE  /\ Funded(y)'
                      /\ d.utxos[Lockup[y]].amount = y.amount
                      /\ d.utxos[Lockup[y]].spk = P2wsh(ScriptOf[y])
    BY <1>1 DEF LockupOK
  <2>1. CASE y = x
    BY <1>3, <1>7, <2>1
  <2>2. CASE y # x
    BY <1>3, <1>6, <2>2 DEF SwapInv, LockupOK
  <2>3. QED
    BY <2>1, <2>2
<1>15. ClaimedOK'
  <2> SUFFICES ASSUME NEW y \in Offers, Unspent(d, ClaimOutput[y])
               PROVE  /\ Funded(y)' /\ ~Unspent(d, Lockup[y])
                      /\ y.type = "LOOP_IN" => ln[OrderOf(y)] = "settled"
    BY <1>1 DEF ClaimedOK, OrderOf
  <2>1. /\ Funded(y) /\ ~Unspent(chain, Lockup[y])
        /\ y.type = "LOOP_IN" => ln[OrderOf(y)] = "settled"
    BY <1>3 DEF SwapInv, ClaimedOK
  <2>2. QED
    BY <1>3, <1>6, <2>1
<1>16. RefundedOK'
  <2> SUFFICES ASSUME NEW y \in Offers, NEW l \in Times(y), Unspent(d, RefundOut(y, l))
               PROVE  /\ Funded(y)' /\ ~Unspent(d, Lockup[y]) /\ ~Unspent(d, ClaimOutput[y])
                      /\ d.height >= Locktime[y.type]
                      /\ y.type = "LOOP_IN" => ln[OrderOf(y)] # "settled"
    BY <1>1 DEF RefundedOK, OrderOf, Times, RefundOut, RefundTx
  <2>1. /\ Funded(y) /\ ~Unspent(chain, Lockup[y]) /\ ~Unspent(chain, ClaimOutput[y])
        /\ chain.height >= Locktime[y.type]
        /\ y.type = "LOOP_IN" => ln[OrderOf(y)] # "settled"
    BY <1>3 DEF SwapInv, RefundedOK
  <2>2. QED
    BY <1>3, <1>6, <2>1
<1>17. \A p \in Orders : (Claimed(p)' <=> Claimed(p)) /\ (Refunded(p)' <=> Refunded(p))
  BY FundHalves
<1>18. /\ Locktime["LOOP_OUT"] < LnExpiry["LOOP_OUT"] /\ chain.height \in Nat
       /\ Locktime["LOOP_OUT"] \in Nat /\ LnExpiry["LOOP_OUT"] \in Nat
       /\ x.type = "LOOP_IN" \/ x.type = "LOOP_OUT"
  BY DEF SwapInv, StatusOK, SwapAssumption, SwapType
<1>19. x.type = "LOOP_IN" => ln[o] = "none"
  BY <1>1, <1>4 DEF SwapInv, LoopInFixed
<1>20. LoopOutFollows'
  <2> SUFFICES ASSUME NEW p \in Orders, p[2] = "LOOP_OUT"
               PROVE  /\ ln[p] = "settled" => Claimed(p)'
                      /\ ln[p] = "failed" => locked'[p] = NoOffer \/ Refunded(p)'
    BY <1>1 DEF LoopOutFollows
  <2>1. CASE p = o
    BY <1>1, <1>4, <2>1
  <2>2. CASE p # o
    BY <1>5, <1>17, <2>2 DEF SwapInv, LoopOutFollows
  <2>3. QED
    BY <2>1, <2>2
<1>21. Deadlines'
  <2> SUFFICES ASSUME NEW p \in Orders
               PROVE  IF p[2] = "LOOP_IN"
                      THEN ln[p] = "settled" /\ ~Claimed(p)' => d.height < Locktime["LOOP_IN"]
                      ELSE ln[p] = "held" /\ locked'[p] # NoOffer /\ ~Refunded(p)'
                              => d.height < LnExpiry["LOOP_OUT"]
    BY <1>1 DEF Deadlines
  <2>1. CASE p = o
    BY <1>1, <1>3, <1>4, <1>18, <1>19, <2>1
  <2>2. CASE p # o
    BY <1>3, <1>5, <1>17, <2>2 DEF SwapInv, Deadlines
  <2>3. QED
    BY <2>1, <2>2
<1>22. QED
  BY <1>8, <1>9, <1>10, <1>11, <1>12, <1>13, <1>14, <1>15, <1>16, <1>20, <1>21 DEF SwapInv

(* What stays when only the coordinator's swaps and what waits change.     *)
LEMMA ChainKept ==
    ASSUME SwapInv, UNCHANGED <<locked, ln, chain>>
    PROVE  /\ StatusOK' /\ LockedOK' /\ LockupOK' /\ ClaimedOK' /\ RefundedOK'
           /\ LoopOutFollows' /\ Deadlines'
<1>1. StatusOK' /\ LockedOK' /\ LockupOK' /\ ClaimedOK' /\ RefundedOK'
  BY DEF SwapInv, StatusOK, LockedOK, LockupOK, ClaimedOK, RefundedOK, Funded
<1>2. LoopOutFollows' /\ Deadlines'
  BY DEF SwapInv, LoopOutFollows, Deadlines, Claimed, Refunded
<1>3. QED
  BY <1>1, <1>2

LEMMA CoordinatorKept ==
    ASSUME SwapInv, UNCHANGED <<coordinator, locked, ln>>
    PROVE  SwapsOK' /\ RegisteredOK' /\ LoopInFixed'
<1>1. UNCHANGED <<swaps, swap_scripts, onchain_funding, locked, ln>>
  BY DEF coordinator
<1>2. QED
  BY <1>1 DEF SwapInv, SwapsOK, RegisteredOK, LoopInFixed, Funded

(* A claim that a party comes to send.                                     *)
LEMMA NewClaim ==
    ASSUME SwapAssumption, SwapInv, NEW o \in Orders, locked[o] # NoOffer,
           o[2] = "LOOP_IN" => ln[o] = "settled",
           unsent' = [unsent EXCEPT ![<<o, "claim">>] = ClaimOf[locked[o]]],
           UNCHANGED <<locked, ln>>
    PROVE  UnsentOK'
<1> DEFINE s == <<o, "claim">>
           tx == ClaimOf[locked[o]]
<1>1. /\ s \in Spends /\ \A p \in Orders : <<p, "refund">> # s
      /\ \A p \in Orders : <<p, "claim">> = s => p = o
      /\ \A p \in Orders : <<p, "claim">> \in Spends /\ <<p, "refund">> \in Spends
  BY SpendFacts
<1> HIDE DEF s, tx
<1>2. /\ DOMAIN unsent = Spends /\ DOMAIN unsent' = Spends
      /\ unsent'[s] = tx /\ \A t \in Spends : t # s => unsent'[t] = unsent[t]
  BY <1>1 DEF SwapInv, UnsentOK, s, tx
<1>3. ClaimsOK'
  <2> SUFFICES ASSUME NEW p \in Orders, unsent'[<<p, "claim">>] # NoTx
               PROVE  /\ locked[p] # NoOffer /\ unsent'[<<p, "claim">>] = ClaimOf[locked[p]]
                      /\ p[2] = "LOOP_IN" => ln[p] = "settled"
    BY DEF ClaimsOK
  <2>1. CASE p = o
    <3>1. unsent'[<<p, "claim">>] = ClaimOf[locked[p]]
      BY <1>2, <2>1 DEF s, tx
    <3>2. QED
      BY <2>1, <3>1
  <2>2. CASE p # o
    <3>1. unsent'[<<p, "claim">>] = unsent[<<p, "claim">>]
      BY <1>1, <1>2, <2>2
    <3>2. QED
      BY <3>1 DEF SwapInv, UnsentOK, ClaimsOK
  <2>3. QED
    BY <2>1, <2>2
<1>4. RefundsOK'
  <2>1. \A p \in Orders : unsent'[<<p, "refund">>] = unsent[<<p, "refund">>]
    BY <1>1, <1>2
  <2>2. QED
    BY <2>1 DEF SwapInv, UnsentOK, RefundsOK, Times, RefundTx
<1>5. QED
  BY <1>2, <1>3, <1>4 DEF UnsentOK

LEMMA NewRefund ==
    ASSUME SwapAssumption, SwapInv, NEW o \in Orders, locked[o] # NoOffer,
           NEW l \in Times(locked[o]),
           unsent' = [unsent EXCEPT ![<<o, "refund">>] = RefundTx(locked[o], l)],
           UNCHANGED <<locked, ln>>
    PROVE  UnsentOK'
<1> DEFINE s == <<o, "refund">>
           tx == RefundTx(locked[o], l)
<1>1. /\ s \in Spends /\ \A p \in Orders : <<p, "claim">> # s
      /\ \A p \in Orders : <<p, "refund">> = s => p = o
      /\ \A p \in Orders : <<p, "claim">> \in Spends /\ <<p, "refund">> \in Spends
  BY SpendFacts
<1> HIDE DEF s, tx
<1>2. /\ DOMAIN unsent = Spends /\ DOMAIN unsent' = Spends
      /\ unsent'[s] = tx /\ \A t \in Spends : t # s => unsent'[t] = unsent[t]
  BY <1>1 DEF SwapInv, UnsentOK, s, tx
<1>3. RefundsOK'
  <2> SUFFICES ASSUME NEW p \in Orders, unsent'[<<p, "refund">>] # NoTx
               PROVE  /\ locked[p] # NoOffer
                      /\ \E m \in Times(locked[p]) :
                            unsent'[<<p, "refund">>] = RefundTx(locked[p], m)
    BY DEF RefundsOK, Times, RefundTx
  <2>1. CASE p = o
    <3>1. unsent'[<<p, "refund">>] = RefundTx(locked[p], l)
      BY <1>2, <2>1 DEF s, tx
    <3>2. QED
      BY <2>1, <3>1
  <2>2. CASE p # o
    <3>1. unsent'[<<p, "refund">>] = unsent[<<p, "refund">>]
      BY <1>1, <1>2, <2>2
    <3>2. QED
      BY <3>1 DEF SwapInv, UnsentOK, RefundsOK
  <2>3. QED
    BY <2>1, <2>2
<1>4. ClaimsOK'
  <2>1. \A p \in Orders : unsent'[<<p, "claim">>] = unsent[<<p, "claim">>]
    BY <1>1, <1>2
  <2>2. QED
    BY <2>1 DEF SwapInv, UnsentOK, ClaimsOK
<1>5. QED
  BY <1>2, <1>3, <1>4 DEF UnsentOK

(* The coordinator signs the claim of the lockup of the order it paid.     *)
LEMMA CompleteStep ==
    ASSUME SwapAssumption, SwapInv, NEW id, NEW from, CompleteLoopIn(id, from)
    PROVE  SwapInv'
<1> DEFINE o == <<id, "LOOP_IN">>
<1>1. /\ o \in Orders /\ ln[<<from, "LOOP_IN">>] = "settled"
      /\ id \in DOMAIN swaps /\ swaps[id].type = "LOOP_IN"
      /\ PaymentHash(from) = swaps[id].hash
      /\ unsent' = [unsent EXCEPT ![<<o, "claim">>] =
                       SignedClaim(onchain_funding[id], Server, swaps[id].amount,
                                   Preimage(from), swap_scripts[id])]
      /\ swaps' = [swaps EXCEPT ![id].state = "FULFILLED"]
      /\ UNCHANGED <<swap_scripts, onchain_funding, locked, ln, chain>>
  BY DEF CompleteLoopIn, Known, PaymentHash
<1>2. o[1] = id /\ o[2] = "LOOP_IN"
  OBVIOUS
<1>3. PICK z \in Offers : /\ z.id = id /\ swaps[id] = Swapped(z, swaps[id].state)
                          /\ swap_scripts[id] = ScriptOf[z]
  BY <1>1 DEF SwapInv, SwapsOK
<1>4. /\ z.type = "LOOP_IN" /\ swaps[id].amount = z.amount /\ swaps[id].hash = PaymentHash(id)
  BY <1>1, <1>3 DEF Swapped
<1>5. from = id
  <2>1. \A i, j : PaymentHash(i) = PaymentHash(j) => i = j
    BY DEF PaymentHash, Digest, Preimage, Secret
  <2>2. QED
    BY <1>1, <1>4, <2>1
<1>6. ln[o] = "settled"
  BY <1>1, <1>5
<1> HIDE DEF o
<1>7. locked[o] # NoOffer /\ locked[o].amount = z.amount /\ onchain_funding[id] = Lockup[locked[o]]
  BY <1>1, <1>2, <1>4, <1>6 DEF SwapInv, LoopInFixed
<1>8. locked[o] = z
  <2>1. /\ locked[o] \in Offers /\ locked[o].id = id /\ locked[o].type = "LOOP_IN"
    BY <1>1, <1>2, <1>7, LockedFacts DEF SwapInv
  <2>2. QED
    BY <1>3, <1>4, <1>7, <2>1, SameOffer
<1>9. SignedClaim(onchain_funding[id], Server, swaps[id].amount, Preimage(from), swap_scripts[id])
         = ClaimOf[locked[o]]
  <2>1. Claimer(z.type) = Server
    BY <1>4 DEF Claimer
  <2>2. ClaimOf[z] = SignedClaim(Lockup[z], Claimer(z.type), z.amount, Preimage(z.id), ScriptOf[z])
    BY DEF ClaimOf
  <2>3. QED
    BY <1>3, <1>4, <1>5, <1>7, <1>8, <2>1, <2>2
<1>10. UnsentOK'
  <2>1. unsent' = [unsent EXCEPT ![<<o, "claim">>] = ClaimOf[locked[o]]]
    BY <1>1, <1>9 DEF o
  <2>2. QED
    BY <1>1, <1>6, <1>7, <2>1, NewClaim
<1>11. /\ DOMAIN swaps' = DOMAIN swaps /\ swaps'[id] = Swapped(z, "FULFILLED")
       /\ \A i \in DOMAIN swaps : i # id => swaps'[i] = swaps[i]
  <2>1. \A a : [Swapped(z, a) EXCEPT !.state = "FULFILLED"] = Swapped(z, "FULFILLED")
    BY DEF Swapped
  <2>2. /\ DOMAIN swaps' = DOMAIN swaps
        /\ swaps'[id] = [swaps[id] EXCEPT !.state = "FULFILLED"]
        /\ \A i \in DOMAIN swaps : i # id => swaps'[i] = swaps[i]
    <3> DEFINE r == [swaps[id] EXCEPT !.state = "FULFILLED"]
    <3>1. swaps' = [swaps EXCEPT ![id] = r]
      BY Zenon, <1>1
    <3> HIDE DEF r
    <3>2. DOMAIN swaps' = DOMAIN swaps
      BY <3>1
    <3>3. swaps'[id] = r /\ \A i \in DOMAIN swaps : i # id => swaps'[i] = swaps[i]
      BY <1>1, <3>1
    <3>4. QED
      BY Zenon, <3>2, <3>3 DEF r
  <2>3. [swaps[id] EXCEPT !.state = "FULFILLED"] = Swapped(z, "FULFILLED")
    <3> DEFINE a == swaps[id].state
    <3>1. swaps[id] = Swapped(z, a)
      BY <1>3
    <3>2. [Swapped(z, a) EXCEPT !.state = "FULFILLED"] = Swapped(z, "FULFILLED")
      BY <2>1
    <3> HIDE DEF a
    <3>3. QED
      BY Zenon, <3>1, <3>2
  <2>4. QED
    BY Zenon, <2>2, <2>3
<1>12. swaps'[id].state = "FULFILLED" /\ swaps'[id].type = "LOOP_IN"
       /\ swaps'[id].amount = swaps[id].amount
  BY <1>4, <1>11 DEF Swapped
<1>13. SwapsOK'
  <2> SUFFICES ASSUME NEW i \in DOMAIN swaps
               PROVE  \E offer \in Offers :
                         /\ offer.id = i /\ swaps'[i] = Swapped(offer, swaps'[i].state)
                         /\ swaps'[i].state \in {"PENDING", "FULFILLED"}
                         /\ swap_scripts[i] = ScriptOf[offer]
    BY <1>1, <1>11, ZenonT(40) DEF SwapInv, SwapsOK, Swapped
  <2>1. CASE i = id
    BY <1>3, <1>11, <1>12, <2>1
  <2>2. CASE i # id
    BY <1>11, <2>2 DEF SwapInv, SwapsOK
  <2>3. QED
    BY <2>1, <2>2
<1>14. RegisteredOK'
  BY <1>1, <1>11 DEF SwapInv, RegisteredOK, Funded
<1>15. LoopInFixed'
  <2> SUFFICES ASSUME NEW p \in Orders, p[2] = "LOOP_IN", ln[p] # "none"
               PROVE  /\ locked[p] # NoOffer
                      /\ p[1] \in DOMAIN swaps /\ p[1] \in DOMAIN onchain_funding
                      /\ swaps'[p[1]].type = "LOOP_IN" /\ swaps'[p[1]].amount = locked[p].amount
                      /\ onchain_funding[p[1]] = Lockup[locked[p]]
    BY <1>1, <1>11 DEF LoopInFixed
  <2>1. Fixed(p)
    BY DEF SwapInv, LoopInFixed, Fixed
  <2>2. swaps'[p[1]].type = "LOOP_IN" /\ swaps'[p[1]].amount = swaps[p[1]].amount
    <3>1. CASE p[1] = id
      BY <1>12, <3>1
    <3>2. CASE p[1] # id
      BY <1>11, <2>1, <3>2 DEF Fixed
    <3>3. QED
      BY <3>1, <3>2
  <2>3. QED
    BY <2>1, <2>2 DEF Fixed
<1>16. QED
  BY <1>1, <1>10, <1>13, <1>14, <1>15, ChainKept DEF SwapInv

LEMMA ClaimStep ==
    ASSUME SwapAssumption, SwapInv, NEW id, ClaimLoopOut(id)
    PROVE  SwapInv'
<1> DEFINE o == <<id, "LOOP_OUT">>
<1>1. /\ o \in Orders /\ locked[o] # NoOffer
      /\ unsent' = [unsent EXCEPT ![<<o, "claim">>] = ClaimOf[locked[o]]]
      /\ UNCHANGED <<coordinator, locked, ln, chain>>
  BY DEF ClaimLoopOut
<1>2. o[2] # "LOOP_IN"
  OBVIOUS
<1> HIDE DEF o
<1>3. UnsentOK'
  BY <1>1, <1>2, NewClaim
<1>4. QED
  BY <1>1, <1>3, ChainKept, CoordinatorKept DEF SwapInv

LEMMA TryRefundStep ==
    ASSUME SwapAssumption, SwapInv, NEW o \in Orders, TryRefund(o)
    PROVE  SwapInv'
<1> DEFINE x == locked[o]
           early == chain.height < Locktime[o[2]]
           l == Locktime[x.type] - (IF early THEN 1 ELSE 0)
<1>1. /\ x # NoOffer /\ unsent' = [unsent EXCEPT ![<<o, "refund">>] = RefundOf[x][early]]
      /\ UNCHANGED <<coordinator, locked, ln, chain>>
  BY DEF TryRefund
<1>2. x \in Offers
  BY <1>1, LockedFacts DEF SwapInv
<1>3. early \in BOOLEAN /\ RefundOf[x][early] = RefundTx(x, l)
  <2>1. early \in BOOLEAN
    OBVIOUS
  <2> HIDE DEF x, early
  <2>2. RefundOf[x][early] = RefundTx(x, l)
    BY Zenon, <1>2, <2>1, RefundOfOffer DEF l
  <2>3. QED
    BY <2>1, <2>2
<1>4. l \in Times(x)
  <2>1. Locktime[x.type] \in Nat
    BY <1>2, OrderFacts
  <2>2. QED
    BY <2>1 DEF Times
<1>5. unsent' = [unsent EXCEPT ![<<o, "refund">>] = RefundTx(locked[o], l)]
  BY <1>1, <1>3
<1> HIDE DEF early, l
<1>6. UnsentOK'
  BY <1>1, <1>4, <1>5, NewRefund
<1>7. QED
  BY <1>1, <1>6, ChainKept, CoordinatorKept DEF SwapInv

LEMMA SentKept ==
    ASSUME SwapInv, NEW s \in Spends, unsent' = [unsent EXCEPT ![s] = NoTx],
           UNCHANGED <<locked, ln>>
    PROVE  UnsentOK'
<1>1. /\ DOMAIN unsent = Spends /\ DOMAIN unsent' = Spends
      /\ \A t \in Spends : unsent'[t] # NoTx => unsent'[t] = unsent[t]
  BY DEF SwapInv, UnsentOK
<1>2. \A p \in Orders : <<p, "claim">> \in Spends /\ <<p, "refund">> \in Spends
  BY SpendFacts
<1>3. ClaimsOK'
  BY <1>1, <1>2 DEF SwapInv, UnsentOK, ClaimsOK
<1>4. RefundsOK'
  <2> SUFFICES ASSUME NEW p \in Orders, unsent'[<<p, "refund">>] # NoTx
               PROVE  /\ locked[p] # NoOffer
                      /\ \E m \in Times(locked[p]) :
                            unsent'[<<p, "refund">>] = RefundTx(locked[p], m)
    BY DEF RefundsOK, Times, RefundTx
  <2>1. unsent'[<<p, "refund">>] = unsent[<<p, "refund">>]
    BY <1>1, <1>2
  <2>2. QED
    BY <2>1 DEF SwapInv, UnsentOK, RefundsOK
<1>5. QED
  BY <1>1, <1>3, <1>4 DEF UnsentOK

(* On a new chain the halves of an order move with the outputs of its      *)
(* offer.                                                                  *)
LEMMA HalvesOn ==
    ASSUME SwapAssumption, SwapInv, UNCHANGED locked, NEW p \in Orders
    PROVE  /\ locked[p] \in Offers =>
                 /\ Claimed(p)' <=> Unspent(chain', ClaimOutput[locked[p]])
                 /\ Claimed(p) <=> Unspent(chain, ClaimOutput[locked[p]])
                 /\ Refunded(p)' <=>
                       \E l \in Times(locked[p]) : Unspent(chain', RefundOut(locked[p], l))
                 /\ Refunded(p) <=>
                       \E l \in Times(locked[p]) : Unspent(chain, RefundOut(locked[p], l))
           /\ locked[p] = NoOffer =>
                 /\ ~Claimed(p)' /\ ~Claimed(p) /\ ~Refunded(p)' /\ ~Refunded(p)
           /\ locked[p] \in Offers \/ locked[p] = NoOffer
<1>1. /\ Claimed(p)' <=> IsClaimed(chain', locked[p])
      /\ Refunded(p)' <=> IsRefunded(chain', locked[p])
      /\ Claimed(p) <=> IsClaimed(chain, locked[p])
      /\ Refunded(p) <=> IsRefunded(chain, locked[p])
  BY Halves
<1>2. locked[p] \in Offers \/ locked[p] = NoOffer
  BY LockedFacts DEF SwapInv
<1>3. CASE locked[p] = NoOffer
  BY <1>1, <1>3, OffersOnly DEF IsClaimed, IsRefunded
<1>4. CASE locked[p] \in Offers
  <2>1. locked[p] # NoOffer
    BY <1>4, OffersOnly
  <2>2. \A c : IsClaimed(c, locked[p]) <=> Unspent(c, ClaimOutput[locked[p]])
    BY <2>1 DEF IsClaimed
  <2>3. \A c : IsRefunded(c, locked[p]) <=>
                  \E l \in Times(locked[p]) : Unspent(c, RefundOut(locked[p], l))
    BY <1>4, RefundedForm
  <2>4. QED
    BY <1>1, <1>4, <2>1, <2>2, <2>3
<1>5. QED
  BY <1>2, <1>3, <1>4

LEMMA ClaimConfirmed ==
    ASSUME SwapAssumption, SwapInv, NEW o \in Orders, locked[o] # NoOffer,
           o[2] = "LOOP_IN" => ln[o] = "settled",
           Accepts(chain, ClaimOf[locked[o]]),
           chain' = Confirm(chain, ClaimOf[locked[o]]), UNCHANGED <<locked, ln>>
    PROVE  /\ StatusOK' /\ LockedOK' /\ LockupOK' /\ ClaimedOK' /\ RefundedOK'
           /\ LoopOutFollows' /\ Deadlines'
<1> DEFINE x == locked[o]
           d == Confirm(chain, ClaimOf[x])
<1>1. /\ x \in Offers /\ OrderOf(x) = o /\ Funded(x) /\ x.type = o[2] /\ x.amount >= Dust
      /\ IsChain(chain) /\ chain.height \in 0..MaxHeight
  BY LockedFacts DEF SwapInv, StatusOK
<1>2. Unspent(chain, Lockup[x])
  BY <1>1, SpendNeeds
<1> HIDE DEF x
<1>3. /\ IsChain(d) /\ d.height = chain.height
      /\ \A y \in Offers :
            Unspent(d, Lockup[y]) =>
               /\ y # x /\ Unspent(chain, Lockup[y])
               /\ d.utxos[Lockup[y]] = chain.utxos[Lockup[y]]
      /\ \A y \in Offers : Unspent(d, ClaimOutput[y]) <=>
                              y = x \/ Unspent(chain, ClaimOutput[y])
      /\ \A y \in Offers : \A l :
            Unspent(d, RefundOut(y, l)) <=> Unspent(chain, RefundOut(y, l))
  BY <1>1, AfterClaim
<1>4. chain' = d
  BY DEF x
<1> HIDE DEF d
<1>5. \A y \in Offers : Funded(y)' <=> Funded(y)
  BY DEF Funded
<1>6. StatusOK' /\ LockedOK'
  BY <1>3, <1>4 DEF SwapInv, StatusOK, LockedOK
<1>7. LockupOK'
  BY <1>3, <1>4, <1>5 DEF SwapInv, LockupOK
<1>8. ClaimedOK'
  <2> SUFFICES ASSUME NEW y \in Offers, Unspent(d, ClaimOutput[y])
               PROVE  /\ Funded(y) /\ ~Unspent(d, Lockup[y])
                      /\ y.type = "LOOP_IN" => ln[OrderOf(y)] = "settled"
    BY <1>4, <1>5 DEF ClaimedOK
  <2>1. CASE y = x
    BY <1>1, <1>3, <2>1 DEF x
  <2>2. CASE y # x
    BY <1>3, <2>2 DEF SwapInv, ClaimedOK
  <2>3. QED
    BY <2>1, <2>2
<1>9. RefundedOK'
  <2> SUFFICES ASSUME NEW y \in Offers, NEW l \in Times(y), Unspent(d, RefundOut(y, l))
               PROVE  /\ Funded(y) /\ ~Unspent(d, Lockup[y]) /\ ~Unspent(d, ClaimOutput[y])
                      /\ d.height >= Locktime[y.type]
                      /\ y.type = "LOOP_IN" => ln[OrderOf(y)] # "settled"
    BY <1>4, <1>5 DEF RefundedOK, Times, RefundOut, RefundTx
  <2>1. /\ Funded(y) /\ ~Unspent(chain, Lockup[y]) /\ ~Unspent(chain, ClaimOutput[y])
        /\ chain.height >= Locktime[y.type]
        /\ y.type = "LOOP_IN" => ln[OrderOf(y)] # "settled"
    BY <1>3 DEF SwapInv, RefundedOK
  <2>2. QED
    BY <1>2, <1>3, <2>1
<1>10. \A p \in Orders : /\ Claimed(p) => Claimed(p)'
                         /\ Refunded(p)' <=> Refunded(p)
  <2> SUFFICES ASSUME NEW p \in Orders
               PROVE  (Claimed(p) => Claimed(p)') /\ (Refunded(p)' <=> Refunded(p))
    OBVIOUS
  <2>1. CASE locked[p] = NoOffer
    BY <2>1, HalvesOn
  <2>2. CASE locked[p] \in Offers
    <3> DEFINE y == locked[p]
    <3>1. /\ Claimed(p)' <=> Unspent(chain', ClaimOutput[y])
          /\ Claimed(p) <=> Unspent(chain, ClaimOutput[y])
          /\ Refunded(p)' <=> \E l \in Times(y) : Unspent(chain', RefundOut(y, l))
          /\ Refunded(p) <=> \E l \in Times(y) : Unspent(chain, RefundOut(y, l))
      BY <2>2, HalvesOn
    <3> HIDE DEF y
    <3>2. y \in Offers
      BY <2>2 DEF y
    <3>3. Unspent(chain, ClaimOutput[y]) => Unspent(chain', ClaimOutput[y])
      BY <1>3, <1>4, <3>2
    <3>4. \A l : Unspent(chain', RefundOut(y, l)) <=> Unspent(chain, RefundOut(y, l))
      BY <1>3, <1>4, <3>2
    <3>5. QED
      BY <3>1, <3>3, <3>4
  <2>3. QED
    BY <2>1, <2>2, HalvesOn
<1>11. LoopOutFollows'
  BY <1>10 DEF SwapInv, LoopOutFollows
<1>12. Deadlines'
  BY <1>3, <1>4, <1>10 DEF SwapInv, Deadlines
<1>13. QED
  BY <1>6, <1>7, <1>8, <1>9, <1>11, <1>12

LEMMA RefundConfirmed ==
    ASSUME SwapAssumption, SwapInv, NEW o \in Orders, locked[o] # NoOffer,
           NEW m \in Times(locked[o]), Accepts(chain, RefundTx(locked[o], m)),
           chain' = Confirm(chain, RefundTx(locked[o], m)), UNCHANGED <<locked, ln>>
    PROVE  /\ StatusOK' /\ LockedOK' /\ LockupOK' /\ ClaimedOK' /\ RefundedOK'
           /\ LoopOutFollows' /\ Deadlines'
<1> DEFINE x == locked[o]
           d == Confirm(chain, RefundTx(x, m))
<1>1. /\ x \in Offers /\ OrderOf(x) = o /\ Funded(x) /\ x.type = o[2] /\ x.amount >= Dust
      /\ IsChain(chain) /\ chain.height \in 0..MaxHeight /\ chain.height \in Nat
  BY LockedFacts DEF SwapInv, StatusOK
<1>2. Unspent(chain, Lockup[x])
  BY <1>1, SpendNeeds
<1>3. chain.height >= Locktime[x.type]
  <2>1. chain.utxos[Lockup[x]].spk = P2wsh(ScriptOf[x])
    BY <1>1, <1>2 DEF SwapInv, LockupOK
  <2>2. QED
    BY <1>1, <2>1, RefundNeeds
<1>4. m \in Times(x)
  OBVIOUS
<1>5. chain' = d
  OBVIOUS
<1>6. x = locked[o] /\ x # NoOffer
  OBVIOUS
<1> HIDE DEF x
<1>7. /\ IsChain(d) /\ d.height = chain.height
      /\ \A y \in Offers :
            Unspent(d, Lockup[y]) =>
               /\ y # x /\ Unspent(chain, Lockup[y])
               /\ d.utxos[Lockup[y]] = chain.utxos[Lockup[y]]
      /\ \A y \in Offers : Unspent(d, ClaimOutput[y]) <=> Unspent(chain, ClaimOutput[y])
      /\ \A y \in Offers : \A l :
            Unspent(d, RefundOut(y, l)) <=>
               (y = x /\ l = m) \/ Unspent(chain, RefundOut(y, l))
  BY <1>1, AfterRefund
<1> HIDE DEF d
<1>8. \A y \in Offers : Funded(y)' <=> Funded(y)
  BY DEF Funded
<1>9. ~Unspent(chain, ClaimOutput[x]) /\ ~Claimed(o)
  <2>1. ~Unspent(chain, ClaimOutput[x])
    BY <1>1, <1>2 DEF SwapInv, ClaimedOK
  <2>2. ~Claimed(o)
    BY <1>1, <1>6, <2>1, HalvesOn
  <2>3. QED
    BY <2>1, <2>2
<1>10. x.type = "LOOP_IN" => ln[o] # "settled"
  <2> SUFFICES ASSUME x.type = "LOOP_IN", ln[o] = "settled"
               PROVE  FALSE
    OBVIOUS
  <2>1. chain.height < Locktime["LOOP_IN"]
    BY <1>1, <1>9 DEF SwapInv, Deadlines
  <2>2. Locktime["LOOP_IN"] \in Nat
    BY DEF SwapAssumption, SwapType
  <2>3. QED
    BY <1>1, <1>3, <2>1, <2>2
<1>11. StatusOK' /\ LockedOK'
  BY <1>5, <1>7 DEF SwapInv, StatusOK, LockedOK
<1>12. LockupOK'
  BY <1>5, <1>7, <1>8 DEF SwapInv, LockupOK
<1>13. ClaimedOK'
  BY <1>5, <1>7, <1>8 DEF SwapInv, ClaimedOK
<1>14. RefundedOK'
  <2> SUFFICES ASSUME NEW y \in Offers, NEW l \in Times(y), Unspent(d, RefundOut(y, l))
               PROVE  /\ Funded(y) /\ ~Unspent(d, Lockup[y]) /\ ~Unspent(d, ClaimOutput[y])
                      /\ d.height >= Locktime[y.type]
                      /\ y.type = "LOOP_IN" => ln[OrderOf(y)] # "settled"
    BY <1>5, <1>8 DEF RefundedOK, Times, RefundOut, RefundTx
  <2>1. CASE y = x
    BY <1>1, <1>3, <1>7, <1>9, <1>10, <2>1
  <2>2. CASE y # x
    BY <1>7, <2>2 DEF SwapInv, RefundedOK
  <2>3. QED
    BY <2>1, <2>2
<1>15. \A p \in Orders : /\ Claimed(p)' <=> Claimed(p)
                         /\ Refunded(p) => Refunded(p)'
  <2> SUFFICES ASSUME NEW p \in Orders
               PROVE  (Claimed(p)' <=> Claimed(p)) /\ (Refunded(p) => Refunded(p)')
    OBVIOUS
  <2>1. CASE locked[p] = NoOffer
    BY <2>1, HalvesOn
  <2>2. CASE locked[p] \in Offers
    BY <1>5, <1>7, <2>2, HalvesOn, SMTT(30)
  <2>3. QED
    BY <2>1, <2>2, HalvesOn
<1>16. LoopOutFollows'
  BY <1>15 DEF SwapInv, LoopOutFollows
<1>17. Deadlines'
  BY <1>5, <1>7, <1>15 DEF SwapInv, Deadlines
<1>18. QED
  BY <1>11, <1>12, <1>13, <1>14, <1>16, <1>17

LEMMA SendStep ==
    ASSUME SwapAssumption, SwapInv, NEW s \in Spends, Send(s)
    PROVE  SwapInv'
<1>1. /\ unsent[s] # NoTx /\ unsent' = [unsent EXCEPT ![s] = NoTx]
      /\ Accepts(chain, unsent[s]) => chain' = Confirm(chain, unsent[s])
      /\ ~Accepts(chain, unsent[s]) => chain' = chain
      /\ UNCHANGED <<coordinator, locked, ln>>
  BY DEF Send
<1>2. UnsentOK' /\ SwapsOK' /\ RegisteredOK' /\ LoopInFixed'
  BY <1>1, SentKept, CoordinatorKept
<1>3. PICK o \in Orders : s = <<o, "claim">> \/ s = <<o, "refund">>
  BY DEF Spends
<1>4. /\ StatusOK' /\ LockedOK' /\ LockupOK' /\ ClaimedOK' /\ RefundedOK'
      /\ LoopOutFollows' /\ Deadlines'
  <2>1. CASE ~Accepts(chain, unsent[s])
    BY <1>1, <2>1, ChainKept
  <2>2. CASE Accepts(chain, unsent[s]) /\ s = <<o, "claim">>
    <3>1. /\ locked[o] # NoOffer /\ unsent[s] = ClaimOf[locked[o]]
          /\ o[2] = "LOOP_IN" => ln[o] = "settled"
      BY <1>1, <2>2 DEF SwapInv, UnsentOK, ClaimsOK
    <3>2. QED
      BY <1>1, <2>2, <3>1, ClaimConfirmed
  <2>3. CASE Accepts(chain, unsent[s]) /\ s = <<o, "refund">>
    <3>1. locked[o] # NoOffer
      BY <1>1, <2>3 DEF SwapInv, UnsentOK, RefundsOK
    <3>2. PICK l \in Times(locked[o]) : unsent[s] = RefundTx(locked[o], l)
      BY <1>1, <2>3 DEF SwapInv, UnsentOK, RefundsOK
    <3>3. QED
      BY <1>1, <2>3, <3>1, <3>2, RefundConfirmed
  <2>4. QED
    BY <1>3, <2>1, <2>2, <2>3
<1>5. QED
  BY <1>2, <1>4 DEF SwapInv

LEMMA BlockStep ==
    ASSUME SwapAssumption, SwapInv, NewBlock
    PROVE  SwapInv'
<1>1. /\ chain.height < MaxHeight /\ InTime /\ chain' = Mine(chain)
      /\ UNCHANGED <<coordinator, locked, ln, unsent>>
  BY DEF NewBlock
<1>2. /\ IsChain(chain') /\ chain'.height = chain.height + 1 /\ chain'.utxos = chain.utxos
      /\ \A u : Unspent(chain', u) <=> Unspent(chain, u)
      /\ chain.height \in 0..MaxHeight /\ MaxHeight \in Nat
  BY <1>1, MineFacts DEF SwapInv, StatusOK, SwapAssumption
<1>3. StatusOK' /\ LockedOK'
  BY <1>1, <1>2 DEF SwapInv, StatusOK, LockedOK
<1>4. UnsentOK' /\ SwapsOK' /\ RegisteredOK' /\ LoopInFixed'
  <2>1. UnsentOK'
    BY <1>1 DEF SwapInv, UnsentOK, ClaimsOK, RefundsOK
  <2>2. QED
    BY <1>1, <2>1, CoordinatorKept
<1>5. LockupOK' /\ ClaimedOK'
  BY <1>1, <1>2 DEF SwapInv, LockupOK, ClaimedOK, Funded
<1>6. RefundedOK'
  <2> SUFFICES ASSUME NEW y \in Offers, NEW l \in Times(y), Unspent(chain, RefundOut(y, l))
               PROVE  /\ Funded(y)' /\ ~Unspent(chain, Lockup[y])
                      /\ ~Unspent(chain, ClaimOutput[y])
                      /\ chain'.height >= Locktime[y.type]
                      /\ y.type = "LOOP_IN" => ln[OrderOf(y)] # "settled"
    BY <1>1, <1>2 DEF RefundedOK, Times, RefundOut, RefundTx
  <2>1. /\ Funded(y) /\ ~Unspent(chain, Lockup[y]) /\ ~Unspent(chain, ClaimOutput[y])
        /\ chain.height >= Locktime[y.type]
        /\ y.type = "LOOP_IN" => ln[OrderOf(y)] # "settled"
    BY DEF SwapInv, RefundedOK
  <2>2. Locktime[y.type] \in Nat
    BY OrderFacts
  <2>3. QED
    BY <1>1, <1>2, <2>1, <2>2 DEF Funded
<1>7. \A p \in Orders : (Claimed(p)' <=> Claimed(p)) /\ (Refunded(p)' <=> Refunded(p))
  BY <1>1, <1>2 DEF Claimed, Refunded
<1>8. LoopOutFollows'
  BY <1>1, <1>7 DEF SwapInv, LoopOutFollows
<1>9. Deadlines'
  <2> SUFFICES ASSUME NEW p \in Orders
               PROVE  IF p[2] = "LOOP_IN"
                      THEN ln[p] = "settled" /\ ~Claimed(p) => chain'.height < Locktime["LOOP_IN"]
                      ELSE ln[p] = "held" /\ locked[p] # NoOffer /\ ~Refunded(p)
                              => chain'.height < LnExpiry["LOOP_OUT"]
    BY <1>1, <1>7 DEF Deadlines
  <2>1. p[2] = "LOOP_IN" \/ p[2] = "LOOP_OUT"
    BY OrderParts DEF SwapType
  <2>2. QED
    BY <1>1, <1>2, <2>1 DEF InTime
<1>10. QED
  BY <1>3, <1>4, <1>5, <1>6, <1>8, <1>9 DEF SwapInv

LEMMA NextOK == SwapAssumption /\ SwapInv /\ [Next]_vars => SwapInv'
<1> SUFFICES ASSUME SwapAssumption, SwapInv, [Next]_vars
             PROVE  SwapInv'
  OBVIOUS
<1>1. CASE UNCHANGED vars
  <2>1. UNCHANGED <<coordinator, locked, ln, unsent, chain>>
    BY <1>1 DEF vars
  <2>2. UnsentOK'
    BY <2>1 DEF SwapInv, UnsentOK, ClaimsOK, RefundsOK
  <2>3. QED
    BY <2>1, <2>2, ChainKept, CoordinatorKept DEF SwapInv
<1>2. CASE Next
  BY <1>2, InitiateStep, RegisterStep, FundStep, PayStep, SettleStep, FailStep, CompleteStep,
     ClaimStep, TryRefundStep, SendStep, BlockStep DEF Next
<1>3. QED
  BY <1>1, <1>2

(***************************************************************************)
(* What is registered and paid for is the lockup of the same offer, and    *)
(* the server has time for its half, in every state of the coordinator,    *)
(* whatever is initiated, registered or tried in any order.                *)
(***************************************************************************)
THEOREM SwapInvariant == Spec => []SwapInv
BY SwapAssumption, InitOK, NextOK, PTL DEF Spec

LEMMA TypesFollow == ASSUME SwapAssumption, SwapInv PROVE TypeOK
<1>1. DOMAIN swaps \subseteq Ids
  BY OrderFacts DEF SwapInv, SwapsOK
<1>2. ASSUME NEW id \in DOMAIN swaps
      PROVE  /\ swaps[id].state \in {"PENDING", "FULFILLED"}
             /\ [id |-> id, type |-> swaps[id].type, amount |-> swaps[id].amount] \in Offers
  <2>1. PICK x \in Offers : /\ x.id = id /\ swaps[id] = Swapped(x, swaps[id].state)
                            /\ swaps[id].state \in {"PENDING", "FULFILLED"}
    BY DEF SwapInv, SwapsOK
  <2>2. swaps[id].type = x.type /\ swaps[id].amount = x.amount
    BY <2>1 DEF Swapped
  <2>3. x = [id |-> x.id, type |-> x.type, amount |-> x.amount]
    BY DEF SwapAssumption
  <2>4. QED
    BY <2>1, <2>2, <2>3
<1>3. QED
  BY <1>1, <1>2 DEF TypeOK, SwapInv, SwapsOK, RegisteredOK, StatusOK, UnsentOK

(* The type invariant of the swaps.                                        *)
THEOREM SwapTypes == Spec => []TypeOK
BY SwapAssumption, SwapInvariant, TypesFollow, PTL
-----------------------------------------------------------------------------
(***************************************************************************)
(* A swap is a payment: the refinement, step by step.                      *)
(***************************************************************************)
Payers == [o \in Orders |-> PayerOf(o)]
Payees == [o \in Orders |-> PayeeOf(o)]

Kept(p) ==
    /\ ln'[p] = ln[p]
    /\ Claimed(p)' <=> Claimed(p)
    /\ Refunded(p)' <=> Refunded(p)

LEMMA EndsKept ==
    ASSUME NEW p \in Orders, Kept(p)
    PROVE  PayerOf(p)' = PayerOf(p) /\ PayeeOf(p)' = PayeeOf(p)
BY DEF Kept, PayerOf, PayeeOf

LEMMA AllKept ==
    ASSUME \A p \in Orders : Kept(p)
    PROVE  UNCHANGED <<Payers, Payees>>
<1>1. \A p \in Orders : PayerOf(p)' = PayerOf(p) /\ PayeeOf(p)' = PayeeOf(p)
  BY EndsKept
<1>2. QED
  BY <1>1 DEF Payers, Payees

(* One order moves, and its two sides as a payment may.                    *)
LEMMA OneMoves ==
    ASSUME NEW o \in Orders, \A p \in Orders : p # o => Kept(p),
           \/ /\ PayerOf(o) = "holding" /\ PayeeOf(o) = "waiting"
              /\ PayerOf(o)' = "holding" /\ PayeeOf(o)' = "paid"
           \/ /\ PayerOf(o) = "holding" /\ PayeeOf(o) = "paid"
              /\ PayerOf(o)' = "debited" /\ PayeeOf(o)' = "paid"
           \/ /\ PayerOf(o) = "holding" /\ PayeeOf(o) = "waiting"
              /\ PayerOf(o)' = "refunded" /\ PayeeOf(o)' = "waiting"
           \/ PayerOf(o)' = PayerOf(o) /\ PayeeOf(o)' = PayeeOf(o)
    PROVE  [Payment!ANext]_<<Payers, Payees>>
<1>1. \A p \in Orders : p # o => PayerOf(p)' = PayerOf(p) /\ PayeeOf(p)' = PayeeOf(p)
  BY EndsKept
<1>2. /\ Payers' = [Payers EXCEPT ![o] = PayerOf(o)']
      /\ Payees' = [Payees EXCEPT ![o] = PayeeOf(o)']
      /\ Payers[o] = PayerOf(o) /\ Payees[o] = PayeeOf(o)
  BY <1>1 DEF Payers, Payees
<1>3. /\ PayerOf(o)' = PayerOf(o) => Payers' = Payers
      /\ PayeeOf(o)' = PayeeOf(o) => Payees' = Payees
  BY <1>1 DEF Payers, Payees
<1>4. CASE /\ PayerOf(o) = "holding" /\ PayeeOf(o) = "waiting"
           /\ PayerOf(o)' = "holding" /\ PayeeOf(o)' = "paid"
  <2>1. Payment!Pay(o)
    BY <1>2, <1>3, <1>4 DEF Payment!Pay, Payers, Payees
  <2>2. QED
    BY <2>1 DEF Payment!ANext
<1>5. CASE /\ PayerOf(o) = "holding" /\ PayeeOf(o) = "paid"
           /\ PayerOf(o)' = "debited" /\ PayeeOf(o)' = "paid"
  <2>1. Payment!Debit(o)
    BY <1>2, <1>3, <1>5 DEF Payment!Debit, Payers, Payees
  <2>2. QED
    BY <2>1 DEF Payment!ANext
<1>6. CASE /\ PayerOf(o) = "holding" /\ PayeeOf(o) = "waiting"
           /\ PayerOf(o)' = "refunded" /\ PayeeOf(o)' = "waiting"
  <2>1. Payment!GiveBack(o)
    BY <1>2, <1>3, <1>6 DEF Payment!GiveBack, Payers, Payees
  <2>2. QED
    BY <2>1 DEF Payment!ANext
<1>7. CASE PayerOf(o)' = PayerOf(o) /\ PayeeOf(o)' = PayeeOf(o)
  BY <1>3, <1>7
<1>8. QED
  BY <1>4, <1>5, <1>6, <1>7

LEMMA SidesOf ==
    ASSUME SwapAssumption, NEW o \in Orders
    PROVE  /\ o[2] = "LOOP_IN" \/ o[2] = "LOOP_OUT"
           /\ o[2] = "LOOP_IN" =>
                 /\ Claimed(o) => PayerOf(o) = "debited"
                 /\ ~Claimed(o) /\ Refunded(o) => PayerOf(o) = "refunded"
                 /\ ~Claimed(o) /\ ~Refunded(o) => PayerOf(o) = "holding"
                 /\ ln[o] = "settled" => PayeeOf(o) = "paid"
                 /\ ln[o] # "settled" => PayeeOf(o) = "waiting"
           /\ o[2] = "LOOP_OUT" =>
                 /\ ln[o] = "settled" => PayerOf(o) = "debited"
                 /\ ln[o] = "failed" => PayerOf(o) = "refunded"
                 /\ ln[o] \notin {"settled", "failed"} => PayerOf(o) = "holding"
                 /\ Claimed(o) => PayeeOf(o) = "paid"
                 /\ ~Claimed(o) => PayeeOf(o) = "waiting"
BY OrderParts DEF SwapType, PayerOf, PayeeOf

LEMMA SidesAfter ==
    ASSUME SwapAssumption, NEW o \in Orders
    PROVE  /\ o[2] = "LOOP_IN" =>
                 /\ Claimed(o)' => PayerOf(o)' = "debited"
                 /\ ~Claimed(o)' /\ Refunded(o)' => PayerOf(o)' = "refunded"
                 /\ ~Claimed(o)' /\ ~Refunded(o)' => PayerOf(o)' = "holding"
                 /\ ln'[o] = "settled" => PayeeOf(o)' = "paid"
                 /\ ln'[o] # "settled" => PayeeOf(o)' = "waiting"
           /\ o[2] = "LOOP_OUT" =>
                 /\ ln'[o] = "settled" => PayerOf(o)' = "debited"
                 /\ ln'[o] = "failed" => PayerOf(o)' = "refunded"
                 /\ ln'[o] \notin {"settled", "failed"} => PayerOf(o)' = "holding"
                 /\ Claimed(o)' => PayeeOf(o)' = "paid"
                 /\ ~Claimed(o)' => PayeeOf(o)' = "waiting"
BY DEF PayerOf, PayeeOf

LEMMA StartsAtomic == SwapAssumption /\ Init => Payment!AInit
<1> SUFFICES ASSUME SwapAssumption, Init
             PROVE  Payment!AInit
  OBVIOUS
<1>1. \A o \in Orders : ln[o] = "none" /\ ~Claimed(o) /\ ~Refunded(o)
  BY DEF Init, Claimed, Refunded
<1>2. \A o \in Orders : PayerOf(o) = "holding" /\ PayeeOf(o) = "waiting"
  BY <1>1, SidesOf
<1>3. QED
  BY <1>2 DEF Payment!AInit

(* What the invariant says of the two halves of an order.                  *)
LEMMA HalvesApart ==
    ASSUME SwapAssumption, SwapInv, NEW o \in Orders
    PROVE  /\ ~(Claimed(o) /\ Refunded(o))
           /\ o[2] = "LOOP_IN" /\ Claimed(o) => ln[o] = "settled"
           /\ Refunded(o) => chain.height >= Locktime[o[2]]
           /\ o[2] = "LOOP_IN" /\ Refunded(o) => ln[o] # "settled"
           /\ locked[o] # NoOffer /\ Unspent(chain, Lockup[locked[o]]) =>
                 ~Claimed(o) /\ ~Refunded(o)
<1> DEFINE x == locked[o]
<1>1. CASE x = NoOffer
  BY <1>1 DEF Claimed, Refunded
<1>2. CASE x # NoOffer
  <2>1. x \in Offers /\ OrderOf(x) = o /\ x.type = o[2]
    BY <1>2, LockedFacts DEF SwapInv
  <2>2. /\ Claimed(o) <=> IsClaimed(chain, x)
        /\ Refunded(o) <=> IsRefunded(chain, x)
    BY Halves
  <2> HIDE DEF x
  <2>3. Claimed(o) <=> Unspent(chain, ClaimOutput[x])
    BY <1>2, <2>2 DEF IsClaimed
  <2>4. Refunded(o) <=> \E l \in Times(x) : Unspent(chain, RefundOut(x, l))
    BY <2>1, <2>2, RefundedForm
  <2>5. Claimed(o) => /\ ~Unspent(chain, Lockup[x])
                      /\ o[2] = "LOOP_IN" => ln[o] = "settled"
    BY <2>1, <2>3 DEF SwapInv, ClaimedOK
  <2>6. Refunded(o) => /\ ~Unspent(chain, Lockup[x]) /\ ~Unspent(chain, ClaimOutput[x])
                       /\ chain.height >= Locktime[o[2]]
                       /\ o[2] = "LOOP_IN" => ln[o] # "settled"
    BY <2>1, <2>4 DEF SwapInv, RefundedOK
  <2>7. QED
    BY <2>3, <2>5, <2>6 DEF x
<1>3. QED
  BY <1>1, <1>2

LEMMA SettleRefines ==
    ASSUME SwapAssumption, SwapInv, NEW o \in Orders, SettleLightning(o)
    PROVE  [Payment!ANext]_<<Payers, Payees>>
<1>1. /\ ln[o] = "held" /\ chain.height < LnExpiry[o[2]]
      /\ o[2] = "LOOP_OUT" => Claimed(o)
      /\ ln' = [ln EXCEPT ![o] = "settled"] /\ UNCHANGED <<locked, chain>>
      /\ ln \in [Orders -> {"none", "held", "settled", "failed"}]
  BY DEF SettleLightning, SwapInv, StatusOK
<1>2. \A p \in Orders : (Claimed(p)' <=> Claimed(p)) /\ (Refunded(p)' <=> Refunded(p))
  BY <1>1 DEF Claimed, Refunded
<1>3. ln'[o] = "settled" /\ \A p \in Orders : p # o => Kept(p)
  BY <1>1, <1>2 DEF Kept
<1>4. CASE o[2] = "LOOP_IN"
  <2>1. /\ LnExpiry["LOOP_IN"] < Locktime["LOOP_IN"] /\ chain.height \in Nat
        /\ LnExpiry["LOOP_IN"] \in Nat /\ Locktime["LOOP_IN"] \in Nat
    BY DEF SwapInv, StatusOK, SwapAssumption, SwapType
  <2>2. ~Claimed(o) /\ ~Refunded(o)
    BY <1>1, <1>4, <2>1, HalvesApart
  <2>3. /\ PayerOf(o) = "holding" /\ PayeeOf(o) = "waiting"
        /\ PayerOf(o)' = "holding" /\ PayeeOf(o)' = "paid"
    BY <1>1, <1>2, <1>3, <1>4, <2>2, SidesOf, SidesAfter
  <2>4. QED
    BY <1>3, <2>3, OneMoves
<1>5. CASE o[2] = "LOOP_OUT"
  <2>1. /\ PayerOf(o) = "holding" /\ PayeeOf(o) = "paid"
        /\ PayerOf(o)' = "debited" /\ PayeeOf(o)' = "paid"
    BY <1>1, <1>2, <1>3, <1>5, SidesOf, SidesAfter
  <2>2. QED
    BY <1>3, <2>1, OneMoves
<1>6. QED
  BY <1>4, <1>5, SidesOf

LEMMA FailRefines ==
    ASSUME SwapAssumption, SwapInv, NEW o \in Orders, FailLightning(o)
    PROVE  [Payment!ANext]_<<Payers, Payees>>
<1>1. /\ ln[o] = "held" /\ chain.height >= LnExpiry[o[2]]
      /\ ln' = [ln EXCEPT ![o] = "failed"] /\ UNCHANGED <<locked, chain>>
      /\ ln \in [Orders -> {"none", "held", "settled", "failed"}]
  BY DEF FailLightning, SwapInv, StatusOK
<1>2. \A p \in Orders : (Claimed(p)' <=> Claimed(p)) /\ (Refunded(p)' <=> Refunded(p))
  BY <1>1 DEF Claimed, Refunded
<1>3. ln'[o] = "failed" /\ \A p \in Orders : p # o => Kept(p)
  BY <1>1, <1>2 DEF Kept
<1>4. CASE o[2] = "LOOP_IN"
  <2>1. ~Claimed(o) /\ (Refunded(o) \/ ~Refunded(o))
    BY <1>1, <1>4, HalvesApart
  <2>2. PayerOf(o)' = PayerOf(o) /\ PayeeOf(o)' = PayeeOf(o)
    BY <1>1, <1>2, <1>3, <1>4, <2>1, SidesOf, SidesAfter
  <2>3. QED
    BY <1>3, <2>2, OneMoves
<1>5. CASE o[2] = "LOOP_OUT"
  <2>1. locked[o] = NoOffer \/ Refunded(o)
    BY <1>1, <1>5 DEF SwapInv, StatusOK, Deadlines, SwapAssumption, SwapType
  <2>2. ~Claimed(o)
    BY <2>1, HalvesApart DEF Claimed
  <2>3. /\ PayerOf(o) = "holding" /\ PayeeOf(o) = "waiting"
        /\ PayerOf(o)' = "refunded" /\ PayeeOf(o)' = "waiting"
    BY <1>1, <1>2, <1>3, <1>5, <2>2, SidesOf, SidesAfter
  <2>4. QED
    BY <1>3, <2>3, OneMoves
<1>6. QED
  BY <1>4, <1>5, SidesOf

LEMMA ClaimRefines ==
    ASSUME SwapAssumption, SwapInv, NEW o \in Orders, locked[o] # NoOffer,
           o[2] = "LOOP_IN" => ln[o] = "settled",
           Accepts(chain, ClaimOf[locked[o]]),
           chain' = Confirm(chain, ClaimOf[locked[o]]), UNCHANGED <<locked, ln>>
    PROVE  [Payment!ANext]_<<Payers, Payees>>
<1> DEFINE x == locked[o]
           d == Confirm(chain, ClaimOf[x])
<1>1. x \in Offers /\ x.amount >= Dust /\ IsChain(chain)
  BY LockedFacts DEF SwapInv, StatusOK
<1>2. ~Claimed(o) /\ ~Refunded(o)
  BY <1>1, SpendNeeds, HalvesApart
<1>3. /\ \A y \in Offers : Unspent(d, ClaimOutput[y]) <=>
                              y = x \/ Unspent(chain, ClaimOutput[y])
      /\ \A y \in Offers : \A l :
            Unspent(d, RefundOut(y, l)) <=> Unspent(chain, RefundOut(y, l))
  BY <1>1, AfterClaim
<1>4. chain' = d
  OBVIOUS
<1>5. \A p \in Orders : p # o => locked[p] # x
  BY <1>1, LockedFacts DEF SwapInv
<1>6. x = locked[o]
  OBVIOUS
<1> HIDE DEF x, d
<1>7. ASSUME NEW p \in Orders
      PROVE  /\ p # o => (Claimed(p)' <=> Claimed(p))
             /\ Refunded(p)' <=> Refunded(p)
  <2>1. CASE locked[p] = NoOffer
    BY <2>1, HalvesOn
  <2>2. CASE locked[p] \in Offers
    <3> DEFINE y == locked[p]
    <3>1. /\ Claimed(p)' <=> Unspent(chain', ClaimOutput[y])
          /\ Claimed(p) <=> Unspent(chain, ClaimOutput[y])
          /\ Refunded(p)' <=> \E l \in Times(y) : Unspent(chain', RefundOut(y, l))
          /\ Refunded(p) <=> \E l \in Times(y) : Unspent(chain, RefundOut(y, l))
      BY <2>2, HalvesOn
    <3>2. y \in Offers /\ (p # o => y # x)
      BY <1>5, <2>2
    <3> HIDE DEF y
    <3>3. p # o => (Unspent(chain, ClaimOutput[y]) <=> Unspent(chain', ClaimOutput[y]))
      BY <1>3, <1>4, <3>2
    <3>4. \A l : Unspent(chain', RefundOut(y, l)) <=> Unspent(chain, RefundOut(y, l))
      BY <1>3, <1>4, <3>2
    <3>5. QED
      BY <3>1, <3>3, <3>4
  <2>3. QED
    BY <2>1, <2>2, HalvesOn
<1>8. Claimed(o)'
  <2>1. Unspent(chain', ClaimOutput[x])
    BY <1>1, <1>3, <1>4
  <2>2. QED
    BY <1>1, <1>6, <2>1, HalvesOn
<1>9. \A p \in Orders : p # o => Kept(p)
  BY <1>7 DEF Kept
<1>10. ln'[o] = ln[o]
  OBVIOUS
<1>11. CASE o[2] = "LOOP_IN"
  <2>1. /\ PayerOf(o) = "holding" /\ PayeeOf(o) = "paid"
        /\ PayerOf(o)' = "debited" /\ PayeeOf(o)' = "paid"
    BY <1>2, <1>8, <1>10, <1>11, SidesOf, SidesAfter
  <2>2. QED
    BY <1>9, <2>1, OneMoves
<1>12. CASE o[2] = "LOOP_OUT"
  <2>1. ln[o] \notin {"settled", "failed"}
    BY <1>2, <1>12 DEF SwapInv, LoopOutFollows
  <2>2. /\ PayerOf(o) = "holding" /\ PayeeOf(o) = "waiting"
        /\ PayerOf(o)' = "holding" /\ PayeeOf(o)' = "paid"
    BY <1>2, <1>8, <1>10, <1>12, <2>1, SidesOf, SidesAfter
  <2>3. QED
    BY <1>9, <2>2, OneMoves
<1>13. QED
  BY <1>11, <1>12, SidesOf

LEMMA RefundRefines ==
    ASSUME SwapAssumption, SwapInv, SwapInv', NEW o \in Orders, locked[o] # NoOffer,
           NEW m \in Times(locked[o]), Accepts(chain, RefundTx(locked[o], m)),
           chain' = Confirm(chain, RefundTx(locked[o], m)), UNCHANGED <<locked, ln>>
    PROVE  [Payment!ANext]_<<Payers, Payees>>
<1> DEFINE x == locked[o]
           d == Confirm(chain, RefundTx(x, m))
<1>1. x \in Offers /\ OrderOf(x) = o /\ x.type = o[2] /\ x.amount >= Dust /\ IsChain(chain)
  BY LockedFacts DEF SwapInv, StatusOK
<1>2. ~Claimed(o) /\ ~Refunded(o)
  BY <1>1, SpendNeeds, HalvesApart
<1>3. /\ \A y \in Offers : Unspent(d, ClaimOutput[y]) <=> Unspent(chain, ClaimOutput[y])
      /\ \A y \in Offers : \A l :
            Unspent(d, RefundOut(y, l)) <=>
               (y = x /\ l = m) \/ Unspent(chain, RefundOut(y, l))
  BY <1>1, AfterRefund
<1>4. chain' = d /\ m \in Times(x)
  OBVIOUS
<1>5. \A p \in Orders : p # o => locked[p] # x
  BY <1>1, LockedFacts DEF SwapInv
<1>6. x = locked[o]
  OBVIOUS
<1> HIDE DEF x, d
<1>7. ASSUME NEW p \in Orders
      PROVE  /\ Claimed(p)' <=> Claimed(p)
             /\ p # o => (Refunded(p)' <=> Refunded(p))
  <2>1. CASE locked[p] = NoOffer
    BY <2>1, HalvesOn
  <2>2. CASE locked[p] \in Offers
    <3> DEFINE y == locked[p]
    <3>1. /\ Claimed(p)' <=> Unspent(chain', ClaimOutput[y])
          /\ Claimed(p) <=> Unspent(chain, ClaimOutput[y])
          /\ Refunded(p)' <=> \E l \in Times(y) : Unspent(chain', RefundOut(y, l))
          /\ Refunded(p) <=> \E l \in Times(y) : Unspent(chain, RefundOut(y, l))
      BY <2>2, HalvesOn
    <3>2. y \in Offers /\ (p # o => y # x)
      BY <1>5, <2>2
    <3> HIDE DEF y
    <3>3. Unspent(chain, ClaimOutput[y]) <=> Unspent(chain', ClaimOutput[y])
      BY <1>3, <1>4, <3>2
    <3>4. p # o => \A l : Unspent(chain', RefundOut(y, l)) <=> Unspent(chain, RefundOut(y, l))
      BY <1>3, <1>4, <3>2
    <3>5. QED
      BY <3>1, <3>3, <3>4
  <2>3. QED
    BY <2>1, <2>2, HalvesOn
<1>8. Refunded(o)'
  <2>1. Unspent(chain', RefundOut(x, m))
    BY <1>1, <1>3, <1>4
  <2>2. QED
    BY <1>1, <1>4, <1>6, <2>1, HalvesOn
<1>9. \A p \in Orders : p # o => Kept(p)
  BY <1>7 DEF Kept
<1>10. ln'[o] = ln[o] /\ (Claimed(o)' <=> Claimed(o))
  BY <1>7
<1>11. CASE o[2] = "LOOP_IN"
  <2>1. Unspent(chain', RefundOut(x, m))
    BY <1>1, <1>3, <1>4
  <2>2. ln[o] # "settled"
    BY <1>1, <1>4, <1>11, <2>1 DEF SwapInv, RefundedOK, OrderOf, Times, RefundOut, RefundTx
  <2>3. /\ PayerOf(o) = "holding" /\ PayeeOf(o) = "waiting"
        /\ PayerOf(o)' = "refunded" /\ PayeeOf(o)' = "waiting"
    BY <1>2, <1>8, <1>10, <1>11, <2>2, SidesOf, SidesAfter
  <2>4. QED
    BY <1>9, <2>3, OneMoves
<1>12. CASE o[2] = "LOOP_OUT"
  <2>1. PayerOf(o)' = PayerOf(o) /\ PayeeOf(o)' = PayeeOf(o)
    BY <1>10, <1>12 DEF PayerOf, PayeeOf
  <2>2. QED
    BY <1>9, <2>1, OneMoves
<1>13. QED
  BY <1>11, <1>12, SidesOf

LEMMA SendRefines ==
    ASSUME SwapAssumption, SwapInv, SwapInv', NEW s \in Spends, Send(s)
    PROVE  [Payment!ANext]_<<Payers, Payees>>
<1>1. /\ unsent[s] # NoTx
      /\ Accepts(chain, unsent[s]) => chain' = Confirm(chain, unsent[s])
      /\ ~Accepts(chain, unsent[s]) => chain' = chain
      /\ UNCHANGED <<locked, ln>>
  BY DEF Send
<1>2. PICK o \in Orders : s = <<o, "claim">> \/ s = <<o, "refund">>
  BY DEF Spends
<1>3. CASE ~Accepts(chain, unsent[s])
  <2>1. \A p \in Orders : Kept(p)
    BY <1>1, <1>3 DEF Kept, Claimed, Refunded
  <2>2. QED
    BY <2>1, AllKept
<1>4. CASE Accepts(chain, unsent[s]) /\ s = <<o, "claim">>
  <2>1. /\ locked[o] # NoOffer /\ unsent[s] = ClaimOf[locked[o]]
        /\ o[2] = "LOOP_IN" => ln[o] = "settled"
    BY <1>1, <1>4 DEF SwapInv, UnsentOK, ClaimsOK
  <2>2. QED
    BY <1>1, <1>4, <2>1, ClaimRefines
<1>5. CASE Accepts(chain, unsent[s]) /\ s = <<o, "refund">>
  <2>1. locked[o] # NoOffer
    BY <1>1, <1>5 DEF SwapInv, UnsentOK, RefundsOK
  <2>2. PICK l \in Times(locked[o]) : unsent[s] = RefundTx(locked[o], l)
    BY <1>1, <1>5 DEF SwapInv, UnsentOK, RefundsOK
  <2>3. QED
    BY <1>1, <1>5, <2>1, <2>2, RefundRefines
<1>6. QED
  BY <1>2, <1>3, <1>4, <1>5

LEMMA StepsAtomic ==
    SwapAssumption /\ SwapInv /\ [Next]_vars => [Payment!ANext]_<<Payers, Payees>>
<1> SUFFICES ASSUME SwapAssumption, SwapInv, [Next]_vars
             PROVE  [Payment!ANext]_<<Payers, Payees>>
  OBVIOUS
<1>1. SwapInv'
  BY NextOK
<1>2. ASSUME UNCHANGED <<locked, ln, chain>>
      PROVE  UNCHANGED <<Payers, Payees>>
  <2>1. \A p \in Orders : Kept(p)
    BY <1>2 DEF Kept, Claimed, Refunded
  <2>2. QED
    BY <2>1, AllKept
<1>3. ASSUME NEW x \in Offers, Fund(x)
      PROVE  UNCHANGED <<Payers, Payees>>
  <2>1. UNCHANGED ln
    BY <1>3 DEF Fund
  <2>2. \A p \in Orders : Kept(p)
    BY <1>3, <2>1, FundHalves DEF Kept
  <2>3. QED
    BY <2>2, AllKept
<1>4. ASSUME NEW o \in Orders, PayLightning(o)
      PROVE  [Payment!ANext]_<<Payers, Payees>>
  <2>1. /\ ln[o] = "none" /\ ln' = [ln EXCEPT ![o] = "held"] /\ UNCHANGED <<locked, chain>>
        /\ ln \in [Orders -> {"none", "held", "settled", "failed"}]
    BY <1>4 DEF PayLightning, SwapInv, StatusOK
  <2>2. \A p \in Orders : (Claimed(p)' <=> Claimed(p)) /\ (Refunded(p)' <=> Refunded(p))
    BY <2>1 DEF Claimed, Refunded
  <2>3. ln'[o] = "held" /\ \A p \in Orders : p # o => Kept(p)
    BY <2>1, <2>2 DEF Kept
  <2>4. PayerOf(o)' = PayerOf(o) /\ PayeeOf(o)' = PayeeOf(o)
    BY <2>1, <2>2, <2>3 DEF PayerOf, PayeeOf
  <2>5. QED
    BY <2>3, <2>4, OneMoves
<1>5. ASSUME NewBlock
      PROVE  UNCHANGED <<Payers, Payees>>
  <2>1. UNCHANGED <<locked, ln>> /\ \A u : Unspent(chain', u) <=> Unspent(chain, u)
    BY <1>5, MineFacts DEF NewBlock, SwapInv, StatusOK
  <2>2. \A p \in Orders : Kept(p)
    BY <2>1 DEF Kept, Claimed, Refunded
  <2>3. QED
    BY <2>2, AllKept
<1>6. CASE UNCHANGED vars
  BY <1>2, <1>6 DEF vars
<1>7. CASE \E offer \in Offers : Initiate(offer)
  BY <1>2, <1>7 DEF Initiate
<1>8. CASE \E id \in Ids, o \in Orders :
              locked[o] # NoOffer /\ RegisterFundingUtxo(id, Lockup[locked[o]])
  BY <1>2, <1>8 DEF RegisterFundingUtxo
<1>9. CASE \/ \E id, from \in Ids : CompleteLoopIn(id, from)
           \/ \E id \in Ids : ClaimLoopOut(id)
           \/ \E o \in Orders : TryRefund(o)
  BY <1>2, <1>9 DEF CompleteLoopIn, ClaimLoopOut, TryRefund
<1>10. CASE \/ \E o \in Orders : SettleLightning(o)
            \/ \E o \in Orders : FailLightning(o)
            \/ \E s \in Spends : Send(s)
  BY <1>1, <1>10, SettleRefines, FailRefines, SendRefines
<1>11. QED
  BY <1>3, <1>4, <1>5, <1>6, <1>7, <1>8, <1>9, <1>10 DEF Next

(***************************************************************************)
(* Every swap implements the payment of AtomicPayment: neither side of it  *)
(* is taken unless the other has been given, for any offers and deadlines  *)
(* that stand apart.                                                       *)
(***************************************************************************)
THEOREM SwapsAtomic == Spec => SwapIsAtomic
<1>1. Init => Payment!AInit
  BY SwapAssumption, StartsAtomic
<1>2. SwapInv /\ [Next]_vars => [Payment!ANext]_<<Payers, Payees>>
  BY SwapAssumption, StepsAtomic
<1>3. [Payment!ANext]_<<Payers, Payees>> <=> [Payment!ANext]_(Payment!avars)
  BY DEF Payment!avars, Payers, Payees
<1>4. QED
  BY <1>1, <1>2, <1>3, SwapInvariant, PTL DEF Spec, SwapIsAtomic, Payment!ASpec
=============================================================================
