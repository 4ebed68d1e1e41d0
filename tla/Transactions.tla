----------------------------- MODULE Transactions -----------------------------
(***************************************************************************)
(* bitcoin/transaction.py and the transactions that protocols/ builds.     *)
(* A transaction is its inputs, outputs, locktime and witnesses; without   *)
(* its witnesses it is its own id. Its version is 1 wherever the code      *)
(* builds one. The empty signature leaves a transaction without a witness. *)
(***************************************************************************)
EXTENDS Interpreter

CONSTANTS
    Dust,            \* BITCOIN_DUST_LIMIT_SAT
    AnchorSat,       \* BITCOIN_ANCHOR_OUTPUT_SAT
    SwapMinerFee,    \* miner_fee_sat of the swap transactions
    EltooBase        \* ELTOO_BASE_LOCKTIME

NoSig == Num(0)

NewTx(locktime) ==
    [version |-> 1, ins |-> <<>>, outs |-> <<>>, locktime |-> locktime, wit |-> <<>>]

TxId(tx) == [tx EXCEPT !.wit = <<>>]
Outpoint(tx, vout) == <<TxId(tx), vout>>

AddInput(tx, prev, sequence) ==
    [tx EXCEPT !.ins = Append(@, [prev |-> prev, sequence |-> sequence])]

AddOutput(tx, amount, spk) ==
    [tx EXCEPT !.outs = Append(@, [amount |-> amount, spk |-> spk])]

(* add_p2wpkh_output, add_p2wsh_output.                                    *)
AddUnlessDust(tx, amount, spk) ==
    IF amount >= Dust THEN AddOutput(tx, amount, spk) ELSE tx

AddWitness(tx, stack) == [tx EXCEPT !.wit = Append(@, stack)]

WitnessIf(sig, tx, stack) == IF sig = NoSig THEN tx ELSE AddWitness(tx, stack)

Spend(prev, sequence, locktime) == AddInput(NewTx(locktime), prev, sequence)

SignP2wshInput(tx, i, script, key, amount) == Sig(key, Sighash(Run(script, tx, i, amount)))

SignTaprootInput(tx, key) == Schnorr(key, TapSighash(tx))
-----------------------------------------------------------------------------
Funding(utxo, funder, counterparty, capacity) ==
    AddUnlessDust(Spend(utxo, Final, 0), capacity, P2wsh(Multisig2of2(funder, counterparty)))

(* The htlc_outputs, pairs of an amount and a script.                      *)
WithHtlcs(tx, htlcs) ==
    LET with[n \in 0..Len(htlcs)] ==
            IF n = 0 THEN tx
            ELSE AddUnlessDust(with[n - 1], htlcs[n][1], P2wsh(htlcs[n][2]))
    IN with[Len(htlcs)]

Commitment(funding, sender, receiver, senderSat, receiverSat, htlcs, number) ==
    WithHtlcs(AddUnlessDust(AddUnlessDust(Spend(funding, Sequence(FALSE, number), 0),
                                          senderSat, P2wpkh(sender)),
                            receiverSat, P2wpkh(receiver)), htlcs)

AsymmetricCommitment(funding, local, remote, revocation, localSat, remoteSat, delay, htlcs, number) ==
    WithHtlcs(AddUnlessDust(AddUnlessDust(Spend(funding, Sequence(FALSE, number), 0),
                                          localSat,
                                          P2wsh(RevocableOutput(revocation, local, delay))),
                            remoteSat, P2wpkh(remote)), htlcs)

(* A mutation: the signatures stay in the order of the arguments.          *)
InGivenOrder(key1, key2, sig1, sig2, script) == MultisigWitness(sig1, sig2, script)

(* The two signatures, in the order of the keys.                           *)
BySortedKeys(key1, key2, sig1, sig2, script) ==
    IF SortedKeys(key1, key2)[1] = key1 THEN MultisigWitness(sig1, sig2, script)
    ELSE MultisigWitness(sig2, sig1, script)

SignCommitment(tx, i, script, capacity, key1, key2) ==
    LET sig(key) == SignP2wshInput(tx, i, script, key, capacity)
        witness == BySortedKeys(key1, key2, sig(key1), sig(key2), script)
    IN IF tx.wit = <<>> THEN AddWitness(tx, witness) ELSE [tx EXCEPT !.wit[i] = witness]

CooperativeClose(funding, sender, receiver, senderSat, receiverSat, sigS, sigR, script) ==
    LET tx == AddUnlessDust(AddUnlessDust(Spend(funding, Final, 0),
                                          senderSat, P2wpkh(sender)),
                            receiverSat, P2wpkh(receiver))
    IN IF NoSig \in {sigS, sigR} THEN tx
       ELSE AddWitness(tx, BySortedKeys(sender, receiver, sigS, sigR, script))
-----------------------------------------------------------------------------
HtlcClaim(prev, claimer, amount, preimage, script, sig) ==
    WitnessIf(sig, AddUnlessDust(Spend(prev, Final, 0), amount, P2wpkh(claimer)),
              FulfillWitness(sig, preimage, script))

HtlcRefund(prev, sender, amount, locktime, script, sig) ==
    WitnessIf(sig, AddUnlessDust(Spend(prev, CltvEnable, locktime), amount, P2wpkh(sender)),
              RefundWitness(sig, script))

(* HTLC-Success and HTLC-Timeout: the witness comes from the caller.       *)
SecondStage(prev, amount, revocation, delayed, delay, locktime, witness) ==
    LET tx == AddUnlessDust(Spend(prev, CltvEnable, locktime), amount,
                            P2wsh(SecondStageHtlc(revocation, delayed, delay)))
    IN IF witness = <<>> THEN tx ELSE AddWitness(tx, witness)

BreachRemedy(prev, sweeper, amount, sig, script) ==
    AddWitness(AddUnlessDust(Spend(prev, Final, 0), amount, P2wpkh(sweeper)),
               RemedyWitness(sig, script))
-----------------------------------------------------------------------------
(* protocols/swap_server.py, protocols/swaps.py.                           *)
LessMinerFee(amount) == IF amount > SwapMinerFee THEN amount - SwapMinerFee ELSE 0

SwapFunding(utxo, amount, script) == AddUnlessDust(Spend(utxo, Final, 0), amount, P2wsh(script))

SwapClaim(prev, claimer, amount, preimage, script, sig) ==
    WitnessIf(sig, AddOutput(Spend(prev, Final, 0), LessMinerFee(amount), P2wpkh(claimer)),
              FulfillWitness(sig, preimage, script))

SwapRefund(prev, refunder, amount, locktime, script, sig) ==
    WitnessIf(sig, AddOutput(Spend(prev, Sequence(FALSE, 0), locktime), LessMinerFee(amount),
                             P2wpkh(refunder)),
              RefundWitness(sig, script))
-----------------------------------------------------------------------------
(* protocols/eltoo.py. A state is its number and the two balances.         *)
EltooLocktime(state) == EltooBase + state.number
EltooCapacity(state) == state.senderSat + state.receiverSat

EltooUpdate(prev, state, script, sender, receiver) ==
    LET tx == AddOutput(Spend(prev, CltvEnable, EltooLocktime(state)),
                        EltooCapacity(state), P2wsh(script))
    IN SignCommitment(tx, 1, script, EltooCapacity(state), sender, receiver)

EltooSettlement(prev, state, script, sender, receiver) ==
    LET tx == AddOutput(AddOutput(Spend(prev, CltvEnable, 0),
                                  state.senderSat, P2wpkh(sender)),
                        state.receiverSat, P2wpkh(receiver))
    IN SignCommitment(tx, 1, script, EltooCapacity(state), sender, receiver)

(* protocols/anchors.py. The balances are paid to the anchor scripts too.  *)
AnchorCommitment(funding, sender, receiver, senderSat, receiverSat) ==
    LET local == P2wsh(Anchor(sender))
        remote == P2wsh(Anchor(receiver))
        balances == AddUnlessDust(AddUnlessDust(Spend(funding, Final, 0), senderSat, local),
                                  receiverSat, remote)
    IN AddOutput(AddOutput(balances, AnchorSat, local), AnchorSat, remote)

(* A fee bump with a wallet output of an amount, or without one (0).       *)
CpfpFeeBump(anchor, key, fee, script, sig, wallet, walletSat, walletSig) ==
    LET change == IF AnchorSat + walletSat > fee THEN AnchorSat + walletSat - fee ELSE 0
        child == AddWitness(Spend(anchor, CltvEnable, 0), <<sig, ScriptItem(script)>>)
        both == WitnessIf(walletSig, AddInput(child, wallet, CltvEnable), <<walletSig, key>>)
    IN IF walletSat = 0 THEN AddOutput(child, change, P2wpkh(key))
       ELSE IF change > 0 THEN AddOutput(both, change, P2wpkh(key))
       ELSE both
-----------------------------------------------------------------------------
(***************************************************************************)
(* protocols/ptlc.py. An adaptor signature is bound to a key, a message and*)
(* a payment point; the secret of the point makes a signature of it, and   *)
(* the signature and the adaptor give the secret away. The BIP 340 variant *)
(* does not negate a nonce or a key of odd y, so what is adapted from them *)
(* verifies only when both are even.                                       *)
(***************************************************************************)
Adaptor(key, message, point, even) ==
    [key |-> key, message |-> message, point |-> point, even |-> even]

AdaptBip340(adaptor, secret) ==
    IF adaptor.point = secret /\ adaptor.even THEN Schnorr(adaptor.key, adaptor.message)
    ELSE Num(1)

PtlcSettlement(prev, claimer, amount, sig, script) ==
    WitnessIf(sig, AddOutput(Spend(prev, Final, 0), amount, P2wpkh(claimer)),
              RemedyWitness(sig, script))

TaprootPtlcSettlement(prev, claimer, amount, sig) ==
    WitnessIf(sig, AddOutput(Spend(prev, Final, 0), amount, P2tr(claimer)), <<sig>>)
=============================================================================
