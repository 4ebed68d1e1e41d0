---------------------------------- MODULE Swap ----------------------------------
(***************************************************************************)
(* protocols/swap_server.py and protocols/swaps.py: the coordinator of     *)
(* submarine swaps, the chain and the Lightning half of every swap. In a   *)
(* loop in the user funds the chain's HTLC and is paid over Lightning; in a*)
(* loop out the user pays over Lightning and claims the server's HTLC.     *)
(* The user draws the preimage of each swap.                               *)
(***************************************************************************)
EXTENDS Ledger, FiniteSets

CONSTANTS
    Offers,          \* the swaps asked for: an id, a type and an amount
    Locktime,        \* of the HTLC on the chain, by type
    LnExpiry,        \* of the HTLC on Lightning, by type
    WalletSat,       \* what a wallet output holds
    MaxHeight        \* bound: the last block

SwapType == {"LOOP_IN", "LOOP_OUT"}

(* The intermediary's outgoing HTLC expires first.                         *)
ASSUME SwapAssumption ==
    /\ \A offer \in Offers :
          /\ offer = [id |-> offer.id, type |-> offer.type, amount |-> offer.amount]
          /\ offer.type \in SwapType /\ offer.amount \in Nat
    /\ Locktime \in [SwapType -> Nat \ {0}] /\ LnExpiry \in [SwapType -> Nat]
    /\ LnExpiry["LOOP_IN"] < Locktime["LOOP_IN"]
    /\ Locktime["LOOP_OUT"] < LnExpiry["LOOP_OUT"]
    /\ WalletSat \in Nat /\ MaxHeight \in Nat

VARIABLES
    swaps,           \* the coordinator's swaps, by id
    swap_scripts,    \* the redeem script of each
    onchain_funding, \* the outpoint registered for an id
    locked,          \* the offer that the HTLC of an order was funded for
    ln,              \* the Lightning half of each order
    unsent,          \* transactions on their way to the chain
    chain

coordinator == <<swaps, swap_scripts, onchain_funding>>
vars == <<coordinator, locked, ln, unsent, chain>>
-----------------------------------------------------------------------------
(* An id may be asked for swaps of either type, and more than once.        *)
Ids == {offer.id : offer \in Offers}
Orders == {<<offer.id, offer.type>> : offer \in Offers}
Spends == Orders \X {"claim", "refund"}

User == Key("user")
Server == Key("server")

Preimage(id) == Secret(id)
PaymentHash(id) == Digest("SHA256", Preimage(id))

Funder(type) == IF type = "LOOP_IN" THEN User ELSE Server
Claimer(type) == IF type = "LOOP_IN" THEN Server ELSE User

NoTx == NewTx(0)
NoOffer == [id |-> "none"]

Wallets ==
    SetToSeq({[order |-> o, owner |-> Funder(o[2])] : o \in Orders})

WalletTx ==
    [NoTx EXCEPT !.outs = [i \in 1..Len(Wallets) |->
                              [amount |-> WalletSat, spk |-> P2wpkh(Wallets[i].owner)]]]

Wallet == [o \in Orders |->
              Outpoint(WalletTx, CHOOSE i \in 1..Len(Wallets) : Wallets[i].order = o)]

(* A mutation: what the signature commits to is the amount less the fee.   *)
SignedClaimOfOutput(prev, claimer, amount, preimage, script) ==
    LET tx == SwapClaim(prev, claimer, amount, preimage, script, NoSig)
    IN SwapClaim(prev, claimer, amount, preimage, script,
                 SignP2wshInput(tx, 1, script, claimer, LessMinerFee(amount)))

(* The claim is built without a signature, signed, and built again.        *)
SignedClaim(prev, claimer, amount, preimage, script) ==
    LET tx == SwapClaim(prev, claimer, amount, preimage, script, NoSig)
    IN SwapClaim(prev, claimer, amount, preimage, script,
                 SignP2wshInput(tx, 1, script, claimer, amount))

SignedRefund(prev, refunder, amount, locktime, script) ==
    LET tx == SwapRefund(prev, refunder, amount, locktime, script, NoSig)
    IN SwapRefund(prev, refunder, amount, locktime, script,
                  SignP2wshInput(tx, 1, script, refunder, amount))

ScriptOf ==
    [offer \in Offers |-> Htlc(Funder(offer.type), Claimer(offer.type), PaymentHash(offer.id),
                               Locktime[offer.type])]

(* create_submarine_swap_funding_tx, signed as the demonstration does.     *)
FundingOf ==
    [offer \in Offers |->
        LET tx == SwapFunding(Wallet[<<offer.id, offer.type>>], offer.amount, ScriptOf[offer])
            key == Funder(offer.type)
            sig == SignP2wshInput(tx, 1, P2wpkhScriptCode(key), key, WalletSat)
        IN AddWitness(tx, <<sig, key>>)]

Lockup == [offer \in Offers |-> Outpoint(FundingOf[offer], 1)]

(* What the claimer and the funder make of an offer that was funded.       *)
ClaimOf ==
    [offer \in Offers |-> SignedClaim(Lockup[offer], Claimer(offer.type), offer.amount,
                                      Preimage(offer.id), ScriptOf[offer])]

(* The refund, with the locktime of the offer or a block too early.        *)
RefundOf ==
    [offer \in Offers |->
        [early \in BOOLEAN |->
            SignedRefund(Lockup[offer], Funder(offer.type), offer.amount,
                         Locktime[offer.type] - (IF early THEN 1 ELSE 0), ScriptOf[offer])]]

ClaimOutput == [offer \in Offers |-> Outpoint(ClaimOf[offer], 1)]
RefundOutput ==
    [offer \in Offers |-> [early \in BOOLEAN |-> Outpoint(RefundOf[offer][early], 1)]]

Known(id) == id \in DOMAIN swaps

Put(f, id, v) == [i \in DOMAIN f \cup {id} |-> IF i = id THEN v ELSE f[i]]

Current(offer) ==
    /\ Known(offer.id)
    /\ swaps[offer.id].type = offer.type /\ swaps[offer.id].amount = offer.amount

(* No Lightning HTLC was ever made for an id.                              *)
Idle(id) == \A o \in Orders : o[1] = id => ln[o] = "none"
-----------------------------------------------------------------------------
Init ==
    /\ swaps = [id \in {} |-> {}]
    /\ swap_scripts = [id \in {} |-> {}]
    /\ onchain_funding = [id \in {} |-> {}]
    /\ locked = [o \in Orders |-> NoOffer]
    /\ ln = [o \in Orders |-> "none"]
    /\ unsent = [s \in Spends |-> NoTx]
    /\ chain = Genesis(WalletTx)

(* initiate_loop_in, initiate_loop_out: an id may be initiated again, with *)
(* other terms, as long as nobody has paid over Lightning.                 *)
Initiate(offer) ==
    LET id == offer.id
    IN /\ Idle(id)
       /\ swaps' = Put(swaps, id, [type |-> offer.type, amount |-> offer.amount,
                                   hash |-> PaymentHash(id), state |-> "PENDING"])
       /\ swap_scripts' = Put(swap_scripts, id, ScriptOf[offer])
       /\ UNCHANGED <<onchain_funding, locked, ln, unsent, chain>>

(* A mutation: an id that was never initiated is registered too.           *)
RegisterUnknown(id, outpoint) ==
    /\ Idle(id)
    /\ onchain_funding' = Put(onchain_funding, id, outpoint)
    /\ UNCHANGED <<swaps, swap_scripts, locked, ln, unsent, chain>>

(* Any output may be registered: the coordinator does not look it up.      *)
RegisterFundingUtxo(id, outpoint) ==
    /\ Known(id) /\ Idle(id)
    /\ onchain_funding' = Put(onchain_funding, id, outpoint)
    /\ UNCHANGED <<swaps, swap_scripts, locked, ln, unsent, chain>>

(* Once per order: the user for a loop in; for a loop out the server, when *)
(* it holds the user's payment and the refund is not yet near.             *)
Fund(offer) ==
    LET o == <<offer.id, offer.type>>
    IN /\ Current(offer)
       /\ locked[o] = NoOffer
       /\ offer.type = "LOOP_OUT" => ln[o] = "held" /\ chain.height < Locktime[offer.type]
       /\ Accepts(chain, FundingOf[offer])
       /\ chain' = Confirm(chain, FundingOf[offer])
       /\ locked' = [locked EXCEPT ![o] = offer]
       /\ UNCHANGED <<coordinator, ln, unsent>>

(* The server looks at the registered output before it pays a loop in.     *)
IsFunded(id) ==
    /\ id \in DOMAIN onchain_funding /\ Unspent(chain, onchain_funding[id])
    /\ LET utxo == chain.utxos[onchain_funding[id]]
       IN utxo.amount = swaps[id].amount /\ utxo.spk = P2wsh(swap_scripts[id])

(* The payer offers the HTLC on Lightning.                                 *)
PayLightning(o) ==
    /\ Known(o[1]) /\ swaps[o[1]].type = o[2]
    /\ ln[o] = "none"
    /\ o[2] = "LOOP_IN" => IsFunded(o[1]) /\ chain.height < LnExpiry[o[2]]
    /\ o[2] = "LOOP_OUT" => chain.height < Locktime[o[2]]
    /\ ln' = [ln EXCEPT ![o] = "held"]
    /\ UNCHANGED <<coordinator, locked, unsent, chain>>

(* A spend of the HTLC has confirmed: nobody spends its output.            *)
Claimed(o) == locked[o] # NoOffer /\ Unspent(chain, ClaimOutput[locked[o]])
Refunded(o) ==
    locked[o] # NoOffer
        /\ \E early \in BOOLEAN : Unspent(chain, RefundOutput[locked[o]][early])

(* By the user, who has the preimage; by the server, who finds it in the   *)
(* witness of the user's claim.                                            *)
SettleLightning(o) ==
    /\ ln[o] = "held" /\ chain.height < LnExpiry[o[2]]
    /\ o[2] = "LOOP_OUT" => Claimed(o)
    /\ ln' = [ln EXCEPT ![o] = "settled"]
    /\ UNCHANGED <<coordinator, locked, unsent, chain>>

FailLightning(o) ==
    /\ ln[o] = "held" /\ chain.height >= LnExpiry[o[2]]
    /\ ln' = [ln EXCEPT ![o] = "failed"]
    /\ UNCHANGED <<coordinator, locked, unsent, chain>>

(* With a preimage that a settled payment has shown. Any number of times.  *)
CompleteLoopIn(id, from) ==
    LET o == <<id, "LOOP_IN">>
    IN /\ o \in Orders /\ <<from, "LOOP_IN">> \in Orders
       /\ ln[<<from, "LOOP_IN">>] = "settled"
       /\ Known(id) /\ swaps[id].type = "LOOP_IN"
       /\ Digest("SHA256", Preimage(from)) = swaps[id].hash
       /\ id \in DOMAIN onchain_funding
       /\ unsent' = [unsent EXCEPT ![<<o, "claim">>] =
                        SignedClaim(onchain_funding[id], Server, swaps[id].amount,
                                    Preimage(from), swap_scripts[id])]
       /\ swaps' = [swaps EXCEPT ![id].state = "FULFILLED"]
       /\ UNCHANGED <<swap_scripts, onchain_funding, locked, ln, chain>>

(* The user of a loop out, with the same builder.                          *)
ClaimLoopOut(id) ==
    LET o == <<id, "LOOP_OUT">>
    IN /\ o \in Orders /\ locked[o] # NoOffer /\ Unspent(chain, Lockup[locked[o]])
       /\ unsent' = [unsent EXCEPT ![<<o, "claim">>] = ClaimOf[locked[o]]]
       /\ UNCHANGED <<coordinator, locked, ln, chain>>

(* The funder tries a block too early, and again: the chain decides.       *)
TryRefund(o) ==
    /\ locked[o] # NoOffer /\ Unspent(chain, Lockup[locked[o]])
    /\ chain.height + 1 >= Locktime[o[2]]
    /\ unsent' = [unsent EXCEPT ![<<o, "refund">>] =
                     RefundOf[locked[o]][chain.height < Locktime[o[2]]]]
    /\ UNCHANGED <<coordinator, locked, ln, chain>>

Send(s) ==
    /\ unsent[s] # NoTx
    /\ unsent' = [unsent EXCEPT ![s] = NoTx]
    /\ chain' = IF Accepts(chain, unsent[s]) THEN Confirm(chain, unsent[s]) ELSE chain
    /\ UNCHANGED <<coordinator, locked, ln>>

(* The server ends its part before the deadline of its counterpart: what it*)
(* has paid for it claims or settles, and what it can take back it takes.  *)
InTime ==
    \A o \in Orders :
        IF o[2] = "LOOP_IN"
        THEN ln[o] = "settled" /\ ~Claimed(o) => chain.height + 1 < Locktime[o[2]]
        ELSE ln[o] = "held" /\ locked[o] # NoOffer /\ ~Refunded(o)
                => chain.height + 1 < LnExpiry[o[2]]

NewBlock ==
    /\ chain.height < MaxHeight
    /\ InTime
    /\ chain' = Mine(chain)
    /\ UNCHANGED <<coordinator, locked, ln, unsent>>

Next ==
    \/ \E offer \in Offers : Initiate(offer)
    \/ \E id \in Ids, o \in Orders :
          locked[o] # NoOffer /\ RegisterFundingUtxo(id, Lockup[locked[o]])
    \/ \E offer \in Offers : Fund(offer)
    \/ \E o \in Orders : PayLightning(o)
    \/ \E o \in Orders : SettleLightning(o)
    \/ \E o \in Orders : FailLightning(o)
    \/ \E id, from \in Ids : CompleteLoopIn(id, from)
    \/ \E id \in Ids : ClaimLoopOut(id)
    \/ \E o \in Orders : TryRefund(o)
    \/ \E s \in Spends : Send(s)
    \/ NewBlock

Spec == Init /\ [][Next]_vars

(* Blocks come, transactions are sent, and each party asks for what is its *)
(* own. The user need not settle, register or claim anything.              *)
Fairness ==
    /\ WF_chain(NewBlock)
    /\ \A s \in Spends : WF_unsent(unsent' = [unsent EXCEPT ![s] = NoTx])
    /\ \A id \in Ids : WF_unsent(CompleteLoopIn(id, id))
    /\ \A o \in Orders :
          /\ WF_unsent(TryRefund(o))
          /\ WF_ln(FailLightning(o))
          /\ o[2] = "LOOP_OUT" => WF_ln(SettleLightning(o))

FairSpec == Spec /\ Fairness
-----------------------------------------------------------------------------
TypeOK ==
    /\ DOMAIN swaps \subseteq Ids /\ DOMAIN swap_scripts = DOMAIN swaps
    /\ DOMAIN onchain_funding \subseteq DOMAIN swaps
    /\ \A id \in DOMAIN swaps :
          /\ swaps[id].state \in {"PENDING", "FULFILLED"}
          /\ [id |-> id, type |-> swaps[id].type, amount |-> swaps[id].amount] \in Offers
    /\ ln \in [Orders -> {"none", "held", "settled", "failed"}]
    /\ DOMAIN unsent = Spends
    /\ chain.height \in 0..MaxHeight

(* An order is a payment of its user to itself, from one side to the other.*)
PayerOf(o) ==
    IF o[2] = "LOOP_IN"
    THEN IF Claimed(o) THEN "debited" ELSE IF Refunded(o) THEN "refunded" ELSE "holding"
    ELSE IF ln[o] = "settled" THEN "debited"
    ELSE IF ln[o] = "failed" THEN "refunded" ELSE "holding"

PayeeOf(o) ==
    IF IF o[2] = "LOOP_IN" THEN ln[o] = "settled" ELSE Claimed(o) THEN "paid" ELSE "waiting"

Payment == INSTANCE AtomicPayment WITH
    Payments <- Orders,
    payer <- [o \in Orders |-> PayerOf(o)],
    payee <- [o \in Orders |-> PayeeOf(o)]

(***************************************************************************)
(* A swap is a payment: neither side of it is taken unless the other has   *)
(* been given, whatever is initiated again, registered or tried early.     *)
(***************************************************************************)
SwapIsAtomic == Payment!ASpec

(***************************************************************************)
(* What is locked in either half of a swap is spent in the end.            *)
(***************************************************************************)
FundsReturn ==
    \A o \in Orders :
        locked[o] # NoOffer \/ ln[o] = "held" ~>
            /\ ln[o] # "held"
            /\ locked[o] = NoOffer \/ Claimed(o) \/ Refunded(o)
=============================================================================
