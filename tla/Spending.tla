------------------------------- MODULE Spending -------------------------------
(***************************************************************************)
(* Spends of one deposit under each contract of the code, run by the       *)
(* interpreter one opcode at a time: those the builders make, and every    *)
(* short witness put together of what the parties and a stranger have.     *)
(***************************************************************************)
EXTENDS Transactions, FiniteSets

CONSTANTS
    Expiry,          \* locktime of the HTLC and of the PTLC
    Delay,           \* to_self_delay
    Amount,          \* of the deposit
    MaxItems         \* bound: the witness elements before the script

ASSUME SpendingAssumption ==
    /\ Expiry \in Nat \ {0} /\ Delay \in Nat \ {0} /\ Amount \in Nat \ {0} /\ MaxItems \in Nat
    /\ Dust \in Nat /\ EltooBase \in Nat

VARIABLES spend, verdict, m, pc

vars == <<spend, verdict, m, pc>>
-----------------------------------------------------------------------------
Alice == Key("alice")
Bob == Key("bob")
Stranger == Key("stranger")
Revocation == RevocationKey(Bob, Secret("revoked"))
Preimage == Secret("paid")
PaymentHash == Digest("SHA256", Preimage)

Contract == {"multisig", "htlc", "ptlc", "revocable", "anchor", "key hash", "taproot"}

(* The script of a contract; the leaf of the taproot one.                  *)
ScriptOf(c) ==
    CASE c = "multisig" -> Multisig2of2(Alice, Bob)
      [] c \in {"htlc", "taproot"} -> Htlc(Alice, Bob, PaymentHash, Expiry)
      [] c = "ptlc" -> Ptlc(Alice, Bob, Expiry)
      [] c = "revocable" -> RevocableOutput(Revocation, Alice, Delay)
      [] c = "anchor" -> Anchor(Alice)
      [] c = "key hash" -> P2wpkhScriptCode(Alice)

TapPath == <<TapLeaf(Anchor(Bob))>>
OutputKey == TapTweak(Bob, MerkleRoot(ScriptOf("taproot"), TapPath))

SpkOf(c) ==
    CASE c = "key hash" -> P2wpkh(Alice)
      [] c = "taproot" -> P2tr(OutputKey)
      [] OTHER -> P2wsh(ScriptOf(c))

Deposit(c) == Outpoint(AddOutput(NewTx(0), Amount, SpkOf(c)), 1)

SignedBy(c, tx, key) == SignP2wshInput(tx, 1, ScriptOf(c), key, Amount)
-----------------------------------------------------------------------------
(***************************************************************************)
(* What the builders make once they are given the signatures: of the       *)
(* deposit of a contract, or of a wallet output beside it.                 *)
(***************************************************************************)
Signed(c, build(_), key) == [contract |-> c, input |-> 1,
                             tx |-> build(SignedBy(c, build(NoSig), key))]

Whole(c, tx) == [contract |-> c, input |-> 1, tx |-> tx]

State == [number |-> 2, senderSat |-> Amount - Dust, receiverSat |-> Dust]

BuiltMultisig(s, r) ==
    LET prev == Deposit("multisig")
        script == ScriptOf("multisig")
        sign(tx) == SignCommitment(tx, 1, script, Amount, s, r)
        close(sigS, sigR) == CooperativeClose(prev, s, r, State.senderSat, Dust - 1,
                                              sigS, sigR, script)
        sig(key) == SignedBy("multisig", close(NoSig, NoSig), key)
    IN {sign(Commitment(prev, s, r, State.senderSat, Dust, <<>>, 1)),
        sign(AsymmetricCommitment(prev, s, r, Revocation, State.senderSat, 0, Delay,
                                  <<<<Dust, ScriptOf("htlc")>>>>, 1)),
        sign(AnchorCommitment(prev, s, r, State.senderSat, 0)),
        close(sig(s), sig(r)),
        EltooUpdate(prev, State, script, s, r),
        EltooSettlement(prev, State, script, s, r)}

BuiltHtlc ==
    LET prev == Deposit("htlc")
        script == ScriptOf("htlc")
        claim(sig) == HtlcClaim(prev, Bob, Amount, Preimage, script, sig)
        refund(sig) == HtlcRefund(prev, Alice, Amount, Expiry, script, sig)
        swapClaim(sig) == SwapClaim(prev, Bob, Amount, Preimage, script, sig)
        swapRefund(sig) == SwapRefund(prev, Alice, Amount, Expiry, script, sig)
        second(key, locktime, witness) ==
            SecondStage(prev, Amount, Revocation, key, Delay, locktime, witness)
        success(sig) == second(Bob, 0, FulfillWitness(sig, Preimage, script))
        timeout(sig) == second(Alice, Expiry, RefundWitness(sig, script))
    IN {Signed("htlc", claim, Bob), Signed("htlc", refund, Alice),
        Signed("htlc", swapClaim, Bob), Signed("htlc", swapRefund, Alice),
        Signed("htlc", success, Bob), Signed("htlc", timeout, Alice)}

BuiltFeeBump ==
    LET wallet == Deposit("key hash")
        child(sig, walletSig) == CpfpFeeBump(Deposit("anchor"), Alice, Amount, ScriptOf("anchor"),
                                             sig, wallet, Amount, walletSig)
        blank == child(Num(1), Num(1))
        tx == child(SignedBy("anchor", blank, Alice),
                    Sig(Alice, Sighash(Run(P2wpkhScriptCode(Alice), blank, 2, Amount))))
    IN {Whole("anchor", tx), [contract |-> "key hash", input |-> 2, tx |-> tx]}

BuiltOther ==
    LET remedy(sig) == BreachRemedy(Deposit("revocable"), Bob, Amount, sig, ScriptOf("revocable"))
        settle(sig) == PtlcSettlement(Deposit("ptlc"), Bob, Amount, sig, ScriptOf("ptlc"))
        tapSettle(sig) == TaprootPtlcSettlement(Deposit("taproot"), Bob, Amount, sig)
        adaptor == Adaptor(OutputKey, TapSighash(tapSettle(NoSig)), Preimage, TRUE)
    IN {Signed("revocable", remedy, Revocation), Signed("ptlc", settle, Bob),
        Whole("taproot", tapSettle(AdaptBip340(adaptor, Preimage)))}

Built == {Whole("multisig", tx) : tx \in BuiltMultisig(Alice, Bob) \cup BuiltMultisig(Bob, Alice)}
         \cup BuiltHtlc \cup BuiltFeeBump \cup BuiltOther
-----------------------------------------------------------------------------
(* What others may try: sequences and locktimes about the limits.          *)
Sequences == {Final, CltvEnable, Sequence(FALSE, Delay - 1), Sequence(FALSE, Delay)}
Locktimes == {Expiry - 1, Expiry}

Tried(c) ==
    {AddOutput(Spend(Deposit(c), sequence, locktime), Amount, P2wpkh(Stranger)) :
        sequence \in Sequences, locktime \in Locktimes}

Signers(c) ==
    CASE c = "multisig" -> {Alice, Bob}
      [] c \in {"htlc", "ptlc"} -> {Alice, Bob}
      [] c = "revocable" -> {Alice, Bob, Revocation}
      [] c \in {"anchor", "key hash"} -> {Alice, Stranger}
      [] c = "taproot" -> {Alice, Bob, OutputKey}

(* A signature of another transaction is at hand as well.                  *)
Items(c, tx) ==
    {Num(0), Num(1)} \cup {SignedBy(c, tx, key) : key \in Signers(c)}
    \cup {SignedBy(c, [tx EXCEPT !.outs = <<>>], Alice)}
    \cup (CASE c \in {"htlc", "taproot"} -> {Preimage, Secret("other")}
            [] c = "key hash" -> {Alice, Stranger}
            [] OTHER -> {})
    \cup (IF c = "taproot" THEN {SignTaprootInput(tx, OutputKey), SignTaprootInput(tx, Bob)} ELSE {})

Tails(c) ==
    CASE c = "key hash" -> {<<>>}
      [] c = "taproot" -> {<<>>, <<ScriptItem(ScriptOf(c)), Control(Bob, TapPath)>>,
                           <<ScriptItem(ScriptOf(c)), Control(Alice, TapPath)>>,
                           <<ScriptItem(Anchor(Alice)), Control(Bob, TapPath)>>}
      [] OTHER -> {<<>>, <<ScriptItem(ScriptOf(c))>>, <<ScriptItem(Anchor(Stranger))>>}

Stacks(items) == UNION {[1..n -> items] : n \in 0..MaxItems}

IsTried(s) ==
    \E c \in Contract : \E tx \in Tried(c) :
        \E stack \in Stacks(Items(c, tx)), tail \in Tails(c) :
            s = Whole(c, AddWitness(tx, stack \o tail))
-----------------------------------------------------------------------------
Witness == spend.tx.wit[spend.input]
Job == ToRun(SpkOf(spend.contract), Witness)
ToExecute == Run(Job[1], spend.tx, spend.input, Amount)

Init ==
    /\ spend \in Built \/ IsTried(spend)
    /\ verdict = "none"
    /\ m = Start(<<>>)
    /\ pc = 0

Conclude(accepted) ==
    /\ verdict' = IF accepted THEN "accepted" ELSE "rejected"
    /\ UNCHANGED <<spend, m, pc>>

(* verify_transaction_witness: the kind of output, and what it runs.       *)
VerifyProgram ==
    /\ verdict = "none"
    /\ Job = NoScript
    /\ Conclude(VerifyWithoutScript(spend.tx, spend.input, SpkOf(spend.contract), Amount))

StartScript ==
    /\ verdict = "none"
    /\ Job # NoScript
    /\ verdict' = "running"
    /\ m' = Start(Job[2])
    /\ pc' = 1
    /\ UNCHANGED spend

ExecuteOp ==
    /\ verdict = "running"
    /\ m.ok
    /\ pc <= Len(Job[1])
    /\ m' = Step(m, Job[1][pc], ToExecute)
    /\ pc' = pc + 1
    /\ UNCHANGED <<spend, verdict>>

Raise ==
    /\ verdict = "running"
    /\ ~m.ok
    /\ Conclude(FALSE)

Return ==
    /\ verdict = "running"
    /\ m.ok
    /\ pc > Len(Job[1])
    /\ Conclude(Succeeds(m))

Next == VerifyProgram \/ StartScript \/ ExecuteOp \/ Raise \/ Return

Spec == Init /\ [][Next]_vars
-----------------------------------------------------------------------------
(***************************************************************************)
(* The machine stays within what the templates need: no template nests its *)
(* branches (exec_stack), and no opcode adds more than one element.        *)
(***************************************************************************)
TypeOK ==
    /\ verdict \in {"none", "running", "accepted", "rejected"}
    /\ m.ok \in BOOLEAN
    /\ m.exec \in {<<>>, <<TRUE>>, <<FALSE>>}
    /\ Len(m.stack) <= Len(Witness) + 4
    /\ pc <= Len(ScriptOf(spend.contract)) + 1

(* Of a witness in any order: who signed this transaction, what it reveals,*)
(* and which timelocks the transaction is past.                            *)
Has(v) == v \in Range(Witness)
HasSig(key) == Has(Sig(key, Sighash(Run(ScriptOf(spend.contract), spend.tx, spend.input, Amount))))
Input == spend.tx.ins[spend.input]
PastExpiry == Input.sequence # Final /\ spend.tx.locktime >= Expiry
PastDelay(d) == ~Input.sequence.disabled /\ Input.sequence.low >= d

HtlcParty == (HasSig(Bob) /\ Has(Preimage)) \/ (HasSig(Alice) /\ PastExpiry)

Entitled ==
    CASE spend.contract = "multisig" -> HasSig(Alice) /\ HasSig(Bob)
      [] spend.contract = "htlc" -> HtlcParty
      [] spend.contract = "ptlc" -> HasSig(Bob) \/ (HasSig(Alice) /\ PastExpiry)
      [] spend.contract = "revocable" -> HasSig(Revocation) \/ (HasSig(Alice) /\ PastDelay(Delay))
      [] spend.contract = "anchor" -> HasSig(Alice) \/ PastDelay(16)
      [] spend.contract = "key hash" -> HasSig(Alice)
      [] spend.contract = "taproot" ->
            HtlcParty \/ Has(Schnorr(OutputKey, TapSighash(spend.tx)))

(***************************************************************************)
(* Whatever witness is tried, only the parties of a contract spend its     *)
(* output, with the preimage and after the timelocks it asks for: a        *)
(* selector, a branch or a hash check that is wrong in one template or in  *)
(* one opcode would let somebody else in.                                  *)
(***************************************************************************)
OnlyEntitled == verdict = "accepted" => Entitled

(***************************************************************************)
(* Every transaction that a builder makes for a party of the contract      *)
(* passes the interpreter: the order of the elements and of the signatures,*)
(* the selector, the sequence and the locktime agree with the script.      *)
(***************************************************************************)
BuiltAccepted == spend \in Built => verdict # "rejected"
=============================================================================
