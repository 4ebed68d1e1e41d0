--------------------------- MODULE RevocationProofs --------------------------
(***************************************************************************)
(* Proofs about revoked states, for every channel and every length of the  *)
(* commitment indices.                                                     *)
(*                                                                         *)
(* 1. The penalty falls on revoked states and on no other: one commitment  *)
(*    spends the funding output, and while the delay of its to-local       *)
(*    output runs, that output is on its way through the tower.            *)
(* 2. The store of the secrets that revoke the old states: "a derives b"   *)
(*    is a partial order whose down-sets are chains (a forest with root 0),*)
(*    and the store keeps the minimal elements of what was revealed.       *)
(***************************************************************************)
EXTENDS Justice, Shachain, TransactionLemmas, FiniteSetTheorems

FundingOut == Outpoint(FundingTx, 1)

(* The outpoint that a remedy names, and the remedy as it is sent.         *)
Prev(n) == <<Lx(TxidOf(n)), 1>>

SignedRemedy(n, a) == Remedy(n, a, RemedySig(n, a))

(***************************************************************************)
(* The inductive invariant, in parts.                                      *)
(***************************************************************************)
NumbersOK ==
    /\ current \in States
    /\ revealed \subseteq States /\ \A n \in revealed : n < current
    /\ unscanned \subseteq States /\ missed \subseteq States
    /\ IsChain(chain) /\ chain.height \in 0..MaxHeight

(* The tower has one commitment to scan and one answer to send, at most.   *)
OneAtATime ==
    /\ \A m, n \in unscanned : m = n
    /\ \A t, u \in unsent : t = u
    /\ swept = <<>> \/ swept = <<swept[1]>>
    /\ unsent \subseteq Range(swept)
    /\ unscanned # {} => swept = <<>>

(* Nothing happens before a commitment spends the funding output.          *)
FundingFirst ==
    Unspent(chain, FundingOut) =>
        /\ unscanned = {} /\ swept = <<>>
        /\ \A n \in States : ~Unspent(chain, ToLocal[n])

(* What the tower holds and sends is signed for a revoked state.           *)
PackagesOK ==
    \A h \in DOMAIN hint_map :
        \E n \in revealed : \E a \in RemedySat :
            h = Hint(TxidOf(n)) /\ hint_map[h] = Package(n, a)

UnsentOK == \A tx \in unsent : \E n \in revealed : \E a \in RemedySat : tx = SignedRemedy(n, a)

(* The first output of a commitment, which is Bob's when Alice's is dust.  *)
OutputOK ==
    \A n \in States :
        Unspent(chain, ToLocal[n]) =>
            /\ chain.utxos[ToLocal[n]].height \in Nat
            /\ IF HasToLocal(n)
               THEN /\ chain.utxos[ToLocal[n]].amount = AliceSat[n + 1]
                    /\ chain.utxos[ToLocal[n]].spk = P2wsh(Revocable(n))
               ELSE chain.utxos[ToLocal[n]].spk = P2wpkh(Bob)

(* The delay is not over while the tower has something to do.              *)
DelayRuns ==
    unscanned # {} \/ unsent # {} =>
        \A n \in States : Unspent(chain, ToLocal[n]) => Age(chain, ToLocal[n]) < Delay

(* The tower will see the output, is about to send what sweeps it, or has  *)
(* missed it.                                                              *)
Sweeping(n) == TxidText = "displayed" /\ SignedRemedy(n, AliceSat[n + 1]) \in unsent

ToLocalWatched ==
    \A n \in States :
        Unspent(chain, ToLocal[n]) /\ HasToLocal(n) =>
            n \in unscanned \/ n \in missed \/ Sweeping(n)

AliceTakesMissed == \A n \in States : AliceTook(n) => n \in missed

JusticeInv ==
    /\ NumbersOK /\ OneAtATime /\ FundingFirst /\ PackagesOK /\ UnsentOK
    /\ OutputOK /\ DelayRuns /\ ToLocalWatched /\ AliceTakesMissed /\ KeptStateIsHers
-----------------------------------------------------------------------------
(***************************************************************************)
(* The three kinds of transaction, by their parts.                         *)
(***************************************************************************)
CommitmentOuts(n) ==
    LET mine == IF HasToLocal(n)
                THEN <<Output(AliceSat[n + 1], P2wsh(Revocable(n)))>> ELSE <<>>
        his == Capacity - AliceSat[n + 1]
    IN IF his >= Dust THEN Append(mine, Output(his, P2wpkh(Bob))) ELSE mine

LEMMA CommitmentForm ==
    ASSUME NEW n \in States
    PROVE  CommitmentOf[n] =
              Tx(1, FundingOut, LowSequence(n), 0, CommitmentOuts(n), CommitmentOf[n].wit)
<1> DEFINE s == LowSequence(n)
           a == AliceSat[n + 1]
           his == Capacity - a
           spk == P2wsh(Revocable(n))
           mine == IF a >= Dust THEN <<Output(a, spk)>> ELSE <<>>
           outs == IF his >= Dust THEN Append(mine, Output(his, P2wpkh(Bob))) ELSE mine
           tx == AsymmetricCommitment(FundingOut, Alice, Bob, RevocationOf(n), a, his, Delay,
                                      <<>>, n)
<1>1. tx = Tx(1, FundingOut, s, 0, outs, <<>>)
  <2>1. tx = AddUnlessDust(AddUnlessDust(Spend(FundingOut, s, 0), a, spk), his, P2wpkh(Bob))
    BY WithNoHtlcs DEF AsymmetricCommitment, Revocable, LowSequence
  <2> HIDE DEF tx, s, a, his, spk
  <2>2. Spend(FundingOut, s, 0) = Tx(1, FundingOut, s, 0, <<>>, <<>>)
    BY SpendForm
  <2>3. AddUnlessDust(Tx(1, FundingOut, s, 0, <<>>, <<>>), a, spk) =
           Tx(1, FundingOut, s, 0, mine, <<>>)
    BY FirstUnlessDust
  <2> HIDE DEF mine
  <2>4. AddUnlessDust(Tx(1, FundingOut, s, 0, mine, <<>>), his, P2wpkh(Bob)) =
           Tx(1, FundingOut, s, 0, outs, <<>>)
    BY AddUnlessDustForm
  <2>5. QED
    BY <2>1, <2>2, <2>3, <2>4
<1>2. outs = CommitmentOuts(n)
  BY DEF CommitmentOuts, HasToLocal
<1>3. CommitmentOf[n] = SignCommitment(tx, 1, FundingScript, Capacity, Alice, Bob)
  BY DEF CommitmentOf, FundingOut
<1> HIDE DEF tx, outs, s
<1>4. tx.wit = <<>>
  BY <1>1, TxParts
<1>5. \E w : CommitmentOf[n] = AddWitness(tx, w)
  BY <1>3, <1>4 DEF SignCommitment
<1>6. \A w : AddWitness(tx, w) = Tx(1, FundingOut, s, 0, outs, <<w>>)
  <2> TAKE w
  <2>1. AddWitness(Tx(1, FundingOut, s, 0, outs, <<>>), w) =
           Tx(1, FundingOut, s, 0, outs, <<w>>)
    BY FirstWitness
  <2>2. QED
    BY <1>1, <2>1
<1>7. PICK w : CommitmentOf[n] = Tx(1, FundingOut, s, 0, outs, <<w>>)
  BY <1>5, <1>6
<1>8. CommitmentOf[n].wit = <<w>>
  BY <1>7, TxParts
<1>9. QED
  BY <1>2, <1>7, <1>8 DEF s

ClaimOuts(n) == <<Output(AliceSat[n + 1], P2wpkh(Alice))>>

LEMMA DelayedClaimForm ==
    ASSUME NEW n \in States
    PROVE  /\ DelayedClaim[n] =
                 Tx(2, ToLocal[n], LowSequence(Delay), 0, ClaimOuts(n), DelayedClaim[n].wit)
           /\ \E sig : DelayedClaim[n].wit = <<RefundWitness(sig, Revocable(n))>>
<1> DEFINE s == LowSequence(Delay)
           a == AliceSat[n + 1]
           o == ClaimOuts(n)
           tx == AddOutput([Spend(ToLocal[n], s, 0) EXCEPT !.version = 2], a, P2wpkh(Alice))
           sig == SignP2wshInput(tx, 1, Revocable(n), Alice, a)
           w == RefundWitness(sig, Revocable(n))
<1>1. DelayedClaim[n] = AddWitness(tx, w)
  BY DEF DelayedClaim, LowSequence
<1>2. tx = Tx(2, ToLocal[n], s, 0, o, <<>>)
  <2> HIDE DEF s
  <2>1. [Spend(ToLocal[n], s, 0) EXCEPT !.version = 2] = Tx(2, ToLocal[n], s, 0, <<>>, <<>>)
    BY SpendForm, VersionForm
  <2>2. QED
    BY <2>1, FirstOutput DEF ClaimOuts, a
<1> HIDE DEF tx, s, o, sig
<1>3. DelayedClaim[n] = Tx(2, ToLocal[n], s, 0, o, <<w>>)
  BY <1>1, <1>2, FirstWitness
<1>4. DelayedClaim[n].wit = <<w>>
  BY <1>3, TxParts
<1>5. DelayedClaim[n] = Tx(2, ToLocal[n], s, 0, o, DelayedClaim[n].wit)
  BY <1>3, <1>4
<1>6. QED
  BY <1>4, <1>5 DEF s, o

RemedyOuts(a) == IF a >= Dust THEN <<Output(a, P2wpkh(Bob))>> ELSE <<>>

RemedyWit(sig, n) == <<RemedyWitness(sig, Revocable(n))>>

LEMMA RemedyForm ==
    ASSUME NEW n \in States, NEW a, NEW sig
    PROVE  Remedy(n, a, sig) = Tx(1, Prev(n), Final, 0, RemedyOuts(a), RemedyWit(sig, n))
<1> DEFINE w == RemedyWitness(sig, Revocable(n))
           p == Prev(n)
<1>1. Remedy(n, a, sig) = AddWitness(AddUnlessDust(Spend(p, Final, 0), a, P2wpkh(Bob)), w)
  BY DEF Remedy, BreachRemedy, Prev
<1> HIDE DEF w, p
<1>2. AddUnlessDust(Spend(p, Final, 0), a, P2wpkh(Bob)) =
         Tx(1, p, Final, 0, RemedyOuts(a), <<>>)
  BY SpendForm, FirstUnlessDust DEF RemedyOuts
<1>3. QED
  BY <1>1, <1>2, FirstWitness DEF RemedyWit, w, p

(* A txid that was displayed names the commitment; no txid names two.      *)
LEMMA PrevFacts ==
    ASSUME NEW m \in States, NEW n \in States
    PROVE  /\ TxidText = "displayed" => Prev(n) = ToLocal[n]
           /\ Prev(m) = Prev(n) => ToLocal[m] = ToLocal[n]
<1> DEFINE a == TxId(CommitmentOf[m])
           b == TxId(CommitmentOf[n])
<1>1. TxidOf(m) = [order |-> TxidText, id |-> a] /\ TxidOf(n) = [order |-> TxidText, id |-> b]
  BY DEF TxidOf
<1>2. ToLocal[m] = <<a, 1>> /\ ToLocal[n] = <<b, 1>>
  BY DEF ToLocal, Outpoint
<1> HIDE DEF a, b
<1>3. CASE TxidText = "displayed"
  <2>1. Lx(TxidOf(m)) = a /\ Lx(TxidOf(n)) = b
    BY <1>1, <1>3 DEF Lx
  <2>2. QED
    BY <1>2, <2>1 DEF Prev
<1>4. CASE TxidText # "displayed"
  <2>1. Lx(TxidOf(m)) = [reversed |-> a] /\ Lx(TxidOf(n)) = [reversed |-> b]
    BY <1>1, <1>4 DEF Lx
  <2>2. [reversed |-> a] = [reversed |-> b] => a = b
    OBVIOUS
  <2>3. Prev(m) = Prev(n) => Lx(TxidOf(m)) = Lx(TxidOf(n))
    BY DEF Prev
  <2>4. QED
    BY <1>2, <1>4, <2>1, <2>2, <2>3
<1>5. QED
  BY <1>3, <1>4
-----------------------------------------------------------------------------
(***************************************************************************)
(* Which outputs are the same: those of a kind for the same state.         *)
(***************************************************************************)
CommitmentId(n) == Tx(1, FundingOut, LowSequence(n), 0, CommitmentOuts(n), <<>>)

ClaimId(n) ==
    Tx(2, ToLocal[n], LowSequence(Delay), 0, ClaimOuts(n), <<>>)

RemedyId(n, a) == Tx(1, Prev(n), Final, 0, RemedyOuts(a), <<>>)

UnsignedRemedy(n, a) == Remedy(n, a, NoSig)

AliceOut(n) == Outpoint(DelayedClaim[n], 1)
BobOut(n, a) == Outpoint(UnsignedRemedy(n, a), 1)

LEMMA Ids ==
    ASSUME NEW n \in States
    PROVE  /\ TxId(CommitmentOf[n]) = CommitmentId(n) /\ ToLocal[n] = <<CommitmentId(n), 1>>
           /\ TxId(DelayedClaim[n]) = ClaimId(n) /\ AliceOut(n) = <<ClaimId(n), 1>>
           /\ \A a : /\ TxId(SignedRemedy(n, a)) = RemedyId(n, a)
                     /\ BobOut(n, a) = <<RemedyId(n, a), 1>>
<1>1. TxId(CommitmentOf[n]) = CommitmentId(n)
  BY CommitmentForm, TxIdForm DEF CommitmentId
<1>2. TxId(DelayedClaim[n]) = ClaimId(n)
  BY DelayedClaimForm, TxIdForm DEF ClaimId
<1>3. ASSUME NEW a, NEW sig
      PROVE  TxId(Remedy(n, a, sig)) = RemedyId(n, a)
  BY RemedyForm, TxIdForm DEF RemedyId
<1>4. \A a : TxId(SignedRemedy(n, a)) = RemedyId(n, a) /\ TxId(UnsignedRemedy(n, a)) = RemedyId(n, a)
  BY <1>3 DEF SignedRemedy, UnsignedRemedy
<1>5. QED
  BY <1>1, <1>2, <1>4 DEF ToLocal, AliceOut, BobOut, Outpoint

LEMMA FundingOutFacts ==
    ASSUME NEW v, NEW p, NEW s, NEW l, NEW o, NEW w, NEW i
    PROVE  FundingOut # <<Tx(v, p, s, l, o, w), i>>
<1>1. FundingOut[1].ins = <<>>
  BY DEF FundingOut, Outpoint, TxId, FundingTx, AddOutput, NewTx
<1>2. Len(Tx(v, p, s, l, o, w).ins) = 1
  BY TxParts
<1>3. <<Tx(v, p, s, l, o, w), i>>[1] = Tx(v, p, s, l, o, w) /\ Len(<<>>) = 0
  OBVIOUS
<1>4. QED
  BY <1>1, <1>2, <1>3

LEMMA IdParts ==
    ASSUME NEW n, NEW a
    PROVE  /\ CommitmentId(n).version = 1 /\ CommitmentId(n).ins[1].sequence = LowSequence(n)
           /\ ClaimId(n).version = 2 /\ ClaimId(n).ins[1].prev = ToLocal[n]
           /\ RemedyId(n, a).version = 1 /\ RemedyId(n, a).ins[1].sequence = Final
           /\ RemedyId(n, a).ins[1].prev = Prev(n)
<1>1. CommitmentId(n).version = 1 /\ CommitmentId(n).ins[1].sequence = LowSequence(n)
  BY TxParts DEF CommitmentId
<1>2. ClaimId(n).version = 2 /\ ClaimId(n).ins[1].prev = ToLocal[n]
  BY TxParts DEF ClaimId
<1>3. /\ RemedyId(n, a).version = 1 /\ RemedyId(n, a).ins[1].sequence = Final
      /\ RemedyId(n, a).ins[1].prev = Prev(n)
  BY TxParts DEF RemedyId
<1>4. QED
  BY <1>1, <1>2, <1>3

LEMMA KindsDiffer ==
    ASSUME NEW m \in States, NEW n \in States, NEW a, NEW b
    PROVE  /\ CommitmentId(m) = CommitmentId(n) => m = n
           /\ ClaimId(m) = ClaimId(n) => m = n
           /\ RemedyId(m, a) = RemedyId(n, b) => m = n
           /\ CommitmentId(m) # ClaimId(n) /\ CommitmentId(m) # RemedyId(n, b)
           /\ ClaimId(m) # RemedyId(n, b)
<1>1. CommitmentId(m) = CommitmentId(n) => m = n
  <2>1. CommitmentId(m) = CommitmentId(n) => LowSequence(m) = LowSequence(n)
    BY IdParts
  <2>2. LowSequence(m).low = m /\ LowSequence(n).low = n
    BY LowSequenceParts
  <2>3. QED
    BY Zenon, <2>1, <2>2
<1>2. ToLocal[m] = ToLocal[n] => m = n
  <2>1. <<CommitmentId(m), 1>>[1] = CommitmentId(m) /\ <<CommitmentId(n), 1>>[1] = CommitmentId(n)
    OBVIOUS
  <2>2. QED
    BY <1>1, <2>1, Ids
<1>3. ClaimId(m) = ClaimId(n) => m = n
  BY <1>2, IdParts
<1>4. RemedyId(m, a) = RemedyId(n, b) => m = n
  <2>1. RemedyId(m, a) = RemedyId(n, b) => Prev(m) = Prev(n)
    BY IdParts
  <2>2. QED
    BY <1>2, <2>1, PrevFacts
<1>5. CommitmentId(m) # ClaimId(n) /\ ClaimId(m) # RemedyId(n, b)
  <2>1. CommitmentId(m).version = 1 /\ RemedyId(n, b).version = 1
    BY Zenon, IdParts
  <2>2. ClaimId(m).version = 2 /\ ClaimId(n).version = 2
    BY Zenon, IdParts
  <2>3. QED
    BY <2>1, <2>2
<1>6. CommitmentId(m) # RemedyId(n, b)
  <2>1. ~CommitmentId(m).ins[1].sequence.disabled
    <3>1. ~LowSequence(m).disabled
      BY LowSequenceParts
    <3>2. QED
      BY Zenon, <3>1, IdParts
  <2>2. RemedyId(n, b).ins[1].sequence.disabled
    <3>1. Final.disabled
      BY FinalDisabled
    <3>2. QED
      BY Zenon, <3>1, IdParts
  <2>3. QED
    BY Zenon, <2>1, <2>2
<1>7. QED
  BY <1>1, <1>3, <1>4, <1>5, <1>6

LEMMA MadeFacts ==
    ASSUME NEW m \in States, NEW n \in States, NEW a, NEW b
    PROVE  /\ ~Made(CommitmentOf[n], FundingOut) /\ ~Made(DelayedClaim[n], FundingOut)
           /\ ~Made(SignedRemedy(n, a), FundingOut)
           /\ Made(CommitmentOf[n], ToLocal[m]) => m = n
           /\ ~Made(CommitmentOf[n], AliceOut(m)) /\ ~Made(CommitmentOf[n], BobOut(m, b))
           /\ ~Made(DelayedClaim[n], ToLocal[m])
           /\ Made(DelayedClaim[n], AliceOut(m)) => m = n
           /\ ~Made(DelayedClaim[n], BobOut(m, b))
           /\ ~Made(SignedRemedy(n, a), ToLocal[m]) /\ ~Made(SignedRemedy(n, a), AliceOut(m))
           /\ Made(SignedRemedy(n, a), BobOut(m, b)) => m = n
<1>1. \A x, y, i : <<x, i>> = <<y, 1>> => x = y
  OBVIOUS
<1>2. /\ \A o : Made(CommitmentOf[n], o) => \E i : o = <<CommitmentId(n), i>>
      /\ \A o : Made(DelayedClaim[n], o) => \E i : o = <<ClaimId(n), i>>
      /\ \A o : Made(SignedRemedy(n, a), o) => \E i : o = <<RemedyId(n, a), i>>
  BY Ids DEF Made, Outpoint
<1>3. /\ \A i : FundingOut # <<CommitmentId(n), i>> /\ FundingOut # <<ClaimId(n), i>>
      /\ \A i : FundingOut # <<RemedyId(n, a), i>>
  BY FundingOutFacts DEF CommitmentId, ClaimId, RemedyId
<1>4. /\ ToLocal[m] = <<CommitmentId(m), 1>> /\ AliceOut(m) = <<ClaimId(m), 1>>
      /\ BobOut(m, b) = <<RemedyId(m, b), 1>>
  BY Ids
<1>5. /\ CommitmentId(n) = CommitmentId(m) => m = n
      /\ ClaimId(n) = ClaimId(m) => m = n
      /\ RemedyId(n, a) = RemedyId(m, b) => m = n
      /\ CommitmentId(n) # ClaimId(m) /\ CommitmentId(n) # RemedyId(m, b)
      /\ ClaimId(n) # RemedyId(m, b) /\ CommitmentId(m) # ClaimId(n)
      /\ CommitmentId(m) # RemedyId(n, a) /\ ClaimId(m) # RemedyId(n, a)
  BY KindsDiffer
<1>6. QED
  BY <1>1, <1>2, <1>3, <1>4, <1>5
-----------------------------------------------------------------------------
(***************************************************************************)
(* What the chain asks of each kind, and what it gives.                    *)
(***************************************************************************)
LEMMA Spends ==
    ASSUME NEW n \in States, NEW a
    PROVE  /\ Spent(CommitmentOf[n]) = {FundingOut}
           /\ Spent(DelayedClaim[n]) = {ToLocal[n]} /\ Spent(SignedRemedy(n, a)) = {Prev(n)}
           /\ CommitmentOf[n].outs = CommitmentOuts(n)
<1>1. Spent(CommitmentOf[n]) = {FundingOut} /\ CommitmentOf[n].outs = CommitmentOuts(n)
  BY CommitmentForm, TxSpent, TxOuts
<1>2. Spent(DelayedClaim[n]) = {ToLocal[n]}
  BY DelayedClaimForm, TxSpent
<1>3. Spent(SignedRemedy(n, a)) = {Prev(n)}
  BY RemedyForm, TxSpent DEF SignedRemedy
<1>4. QED
  BY <1>1, <1>2, <1>3

LEMMA StateFacts ==
    ASSUME JusticeAssumption, NEW n \in States
    PROVE  n \in Nat /\ AliceSat[n + 1] \in Nat
<1>1. AliceSat \in Seq(0..Capacity) /\ Len(AliceSat) \in Nat /\ Capacity \in Nat
  BY DEF JusticeAssumption
<1>2. n \in Nat /\ n + 1 \in 1..Len(AliceSat)
  BY <1>1 DEF States
<1>3. AliceSat[n + 1] \in 0..Capacity
  BY <1>1, <1>2
<1>4. QED
  BY <1>1, <1>2, <1>3

(* The output that stands first in a commitment.                           *)
LEMMA CommitmentFirstOutput ==
    ASSUME NEW n \in States, Made(CommitmentOf[n], ToLocal[n])
    PROVE  /\ 1 \in 1..Len(CommitmentOf[n].outs)
           /\ IF HasToLocal(n)
              THEN CommitmentOf[n].outs[1] = Output(AliceSat[n + 1], P2wsh(Revocable(n)))
              ELSE CommitmentOf[n].outs[1].spk = P2wpkh(Bob)
<1> DEFINE his == Capacity - AliceSat[n + 1]
           first == Output(AliceSat[n + 1], P2wsh(Revocable(n)))
           second == Output(his, P2wpkh(Bob))
           outs == CommitmentOuts(n)
<1>1. CommitmentOf[n].outs = outs
  BY Spends
<1>2. 1 \in 1..Len(outs)
  BY <1>1, Ids DEF Made, Outpoint, ToLocal
<1>3. outs = IF HasToLocal(n)
             THEN IF his >= Dust THEN Append(<<first>>, second) ELSE <<first>>
             ELSE IF his >= Dust THEN Append(<<>>, second) ELSE <<>>
  BY DEF CommitmentOuts
<1>4. second.spk = P2wpkh(Bob)
  BY DEF Output
<1> HIDE DEF first, second, outs
<1>5. Append(<<first>>, second)[1] = first /\ <<first>>[1] = first
  OBVIOUS
<1>6. Append(<<>>, second)[1] = second /\ ~(1 \in 1..Len(<<>>))
  OBVIOUS
<1>7. QED
  BY <1>1, <1>2, <1>3, <1>4, <1>5, <1>6 DEF first

LEMMA BroadcastNeeds ==
    ASSUME NEW n \in States, NEW c, Accepts(c, CommitmentOf[n])
    PROVE  Unspent(c, FundingOut)
BY Spends DEF Accepts

(* The witness of a claim is that of a script: it opens no key hash.       *)
LEMMA ClaimNeeds ==
    ASSUME NEW n \in States, NEW c, Accepts(c, DelayedClaim[n])
    PROVE  /\ Unspent(c, ToLocal[n]) /\ Age(c, ToLocal[n]) >= Delay
           /\ c.utxos[ToLocal[n]].spk # P2wpkh(Bob)
<1> DEFINE tx == DelayedClaim[n]
           p == ToLocal[n]
           s == LowSequence(Delay)
           o == ClaimOuts(n)
           spk == c.utxos[p].spk
           amount == c.utxos[p].amount
<1>1. tx = Tx(2, p, s, 0, o, tx.wit)
  BY DelayedClaimForm
<1>2. PICK sig : tx.wit = <<RefundWitness(sig, Revocable(n))>>
  BY DelayedClaimForm
<1>3. Accepts(c, tx) /\ s.low = Delay /\ ~s.disabled
  BY LowSequenceParts
<1> HIDE DEF tx, p, s, o
<1>4. Unspent(c, p) /\ Age(c, p) >= Delay /\ VerifyTransactionWitness(tx, 1, spk, amount)
  <2> DEFINE w == tx.wit
  <2>1. Accepts(c, Tx(2, p, s, 0, o, w)) /\ tx = Tx(2, p, s, 0, o, w)
    BY <1>1, <1>3
  <2> HIDE DEF w
  <2>2. /\ Unspent(c, p) /\ (s.disabled \/ Age(c, p) >= s.low)
        /\ VerifyTransactionWitness(Tx(2, p, s, 0, o, w), 1, spk, amount)
    BY <2>1, AcceptsFacts
  <2>3. QED
    BY <1>3, <2>1, <2>2
<1>5. spk # P2wpkh(Bob)
  <2> SUFFICES ASSUME spk = P2wpkh(Bob)
               PROVE  FALSE
    OBVIOUS
  <2>1. spk[1] = "wpkh"
    BY DEF P2wpkh
  <2>2. ToRun(spk, tx.wit[1]) = NoScript
    BY <2>1 DEF ToRun
  <2>3. VerifyKeyHash(spk[2], tx.wit[1], tx, 1, amount)
    BY <1>4, <2>1, <2>2 DEF VerifyTransactionWitness, VerifyWithoutScript
  <2>4. Len(tx.wit[1]) = 2
    BY <2>3 DEF VerifyKeyHash
  <2>5. Len(tx.wit[1]) = 3
    BY <1>2 DEF RefundWitness
  <2>6. QED
    BY <2>4, <2>5
<1>6. QED
  BY <1>4, <1>5 DEF p

(* The remedy for what the output is worth is accepted.                    *)
LEMMA RemedyAccepted ==
    ASSUME JusticeAssumption, NEW n \in States, NEW c, Unspent(c, ToLocal[n]), HasToLocal(n),
           c.utxos[ToLocal[n]].amount = AliceSat[n + 1],
           c.utxos[ToLocal[n]].spk = P2wsh(Revocable(n)), TxidText = "displayed"
    PROVE  Accepts(c, SignedRemedy(n, AliceSat[n + 1]))
<1> DEFINE a == AliceSat[n + 1]
           p == Prev(n)
           script == Revocable(n)
           outs == <<Output(a, P2wpkh(Bob))>>
           sig == RemedySig(n, a)
           wit == RemedyWit(sig, n)
           tx == Tx(1, p, Final, 0, outs, wit)
           unsigned == Tx(1, p, Final, 0, outs, RemedyWit(NoSig, n))
           key == RevocationOf(n)
<1>0. RemedyOuts(a) = outs
  BY DEF RemedyOuts, HasToLocal
<1>1. SignedRemedy(n, a) = tx /\ UnsignedRemedy(n, a) = unsigned
  BY <1>0, RemedyForm DEF SignedRemedy, UnsignedRemedy
<1>2. a \in Nat
  BY StateFacts
<1>3. sig = Sig(key, Sighash(Run(script, UnsignedRemedy(n, a), 1, a)))
  BY DEF RemedySig, SignP2wshInput, UnsignedRemedy
<1>4. script = RevocableOutput(key, Alice, Delay)
  BY DEF Revocable
<1>5. tx.wit = <<RemedyWitness(sig, script)>>
  BY TxParts DEF RemedyWit
<1>6. Unspent(c, p) /\ c.utxos[p].amount = a /\ c.utxos[p].spk = P2wsh(script)
  <2>1. p = ToLocal[n]
    BY PrevFacts
  <2>2. QED
    BY <2>1
<1> HIDE DEF script, key, a, p, outs, wit, sig
<1>7. Sighash(Run(script, unsigned, 1, a)) = Sighash(Run(script, tx, 1, a))
  BY SighashForm
<1> HIDE DEF tx, unsigned
<1>8. tx.wit = <<RemedyWitness(Sig(key, Sighash(Run(script, tx, 1, a))), script)>>
  BY <1>1, <1>3, <1>5, <1>7
<1>9. VerifyTransactionWitness(tx, 1, P2wsh(script), a)
  BY <1>4, <1>8, PenaltyVerifies
<1>10. Accepts(c, Tx(1, p, Final, 0, <<Output(a, P2wpkh(Bob))>>, wit))
  BY <1>2, <1>6, <1>9, AcceptsIf DEF tx, outs
<1>11. QED
  BY <1>1, <1>10 DEF tx, outs, a

LEMMA KeyFacts ==
    ASSUME NEW n \in States, BobKnows(RevocationOf(n)), revealed \subseteq States
    PROVE  n \in revealed
<1>1. \A m : RevocationOf(m)[2] = <<"revocation", Bob, PointOf(m)>> /\ PointOf(m)[2] = m
  BY DEF RevocationOf, RevocationKey, PointOf, Secret
<1>2. Bob[2] = <<"bob">>
  BY DEF Bob, Key
<1>3. RevocationOf(n) # Bob
  <2>1. Len(<<"bob">>) = 1 /\ Len(<<"revocation", Bob, PointOf(n)>>) = 3
    OBVIOUS
  <2>2. QED
    BY <1>1, <1>2, <2>1
<1>4. \A m : RevocationOf(m) = RevocationOf(n) => m = n
  <2> TAKE m
  <2> HAVE RevocationOf(m) = RevocationOf(n)
  <2>1. <<"revocation", Bob, PointOf(m)>> = <<"revocation", Bob, PointOf(n)>>
    BY <1>1
  <2>2. PointOf(m) = PointOf(n)
    BY <2>1
  <2>3. QED
    BY <1>1, <2>2
<1>5. PICK m \in revealed : RevocationOf(n) = RevocationOf(m)
  BY <1>3 DEF BobKnows, RevocationOf
<1>6. QED
  BY <1>4, <1>5

LEMMA HintFacts ==
    ASSUME NEW m \in States, NEW n \in States, Hint(TxidOf(m)) = Hint(TxidOf(n))
    PROVE  m = n
<1>1. \A a, b : Hint(a) = Hint(b) => a = b
  BY DEF Hint, Digest
<1>2. TxId(CommitmentOf[m]) = TxId(CommitmentOf[n])
  <2>1. TxidOf(m).id = TxId(CommitmentOf[m]) /\ TxidOf(n).id = TxId(CommitmentOf[n])
    BY DEF TxidOf
  <2>2. QED
    BY <1>1, <2>1
<1>3. QED
  BY <1>2, Ids, KindsDiffer

LEMMA RemedyFacts ==
    ASSUME NEW m \in States, NEW n \in States, NEW a, NEW b,
           SignedRemedy(m, a) = SignedRemedy(n, b)
    PROVE  m = n
BY Ids, KindsDiffer
-----------------------------------------------------------------------------
(***************************************************************************)
(* The chain after each kind is confirmed.                                 *)
(***************************************************************************)
LEMMA AfterCommitment ==
    ASSUME NEW n \in States, NEW c, IsChain(c), \A m \in States : ~Unspent(c, ToLocal[m])
    PROVE  LET d == Confirm(c, CommitmentOf[n])
           IN /\ IsChain(d) /\ d.height = c.height /\ ~Unspent(d, FundingOut)
              /\ \A m \in States : Unspent(d, ToLocal[m]) => m = n
              /\ Unspent(d, ToLocal[n]) =>
                    /\ d.utxos[ToLocal[n]].height = c.height
                    /\ IF HasToLocal(n)
                       THEN /\ d.utxos[ToLocal[n]].amount = AliceSat[n + 1]
                            /\ d.utxos[ToLocal[n]].spk = P2wsh(Revocable(n))
                       ELSE d.utxos[ToLocal[n]].spk = P2wpkh(Bob)
              /\ \A m \in States : Unspent(d, AliceOut(m)) => Unspent(c, AliceOut(m))
              /\ \A m \in States, a \in RemedySat :
                    Unspent(d, BobOut(m, a)) => Unspent(c, BobOut(m, a))
<1> DEFINE tx == CommitmentOf[n]
           d == Confirm(c, tx)
<1>1. Spent(tx) = {FundingOut}
  BY Spends
<1>2. /\ ~Made(tx, FundingOut)
      /\ \A m \in States : Made(tx, ToLocal[m]) => m = n
      /\ \A m \in States : ~Made(tx, AliceOut(m))
      /\ \A m \in States, a \in RemedySat : ~Made(tx, BobOut(m, a))
  BY MadeFacts
<1>3. /\ IsChain(d) /\ d.height = c.height
      /\ \A o : Unspent(d, o) <=> (Unspent(c, o) /\ o \notin Spent(tx)) \/ Made(tx, o)
      /\ \A i \in 1..Len(tx.outs) :
            d.utxos[Outpoint(tx, i)] = [amount |-> tx.outs[i].amount, spk |-> tx.outs[i].spk,
                                        height |-> c.height]
  BY ConfirmFacts, ZenonT(40)
<1>4. Made(tx, ToLocal[n]) =>
         /\ 1 \in 1..Len(tx.outs)
         /\ IF HasToLocal(n)
            THEN tx.outs[1] = Output(AliceSat[n + 1], P2wsh(Revocable(n)))
            ELSE tx.outs[1].spk = P2wpkh(Bob)
  BY CommitmentFirstOutput
<1>5. ToLocal[n] = Outpoint(tx, 1)
  BY DEF ToLocal
<1>6. Unspent(d, ToLocal[n]) =>
         /\ d.utxos[ToLocal[n]].height = c.height
         /\ IF HasToLocal(n)
            THEN /\ d.utxos[ToLocal[n]].amount = AliceSat[n + 1]
                 /\ d.utxos[ToLocal[n]].spk = P2wsh(Revocable(n))
            ELSE d.utxos[ToLocal[n]].spk = P2wpkh(Bob)
  <2> HIDE DEF tx, d
  <2> SUFFICES ASSUME Unspent(d, ToLocal[n])
               PROVE  /\ d.utxos[ToLocal[n]].height = c.height
                      /\ IF HasToLocal(n)
                         THEN /\ d.utxos[ToLocal[n]].amount = AliceSat[n + 1]
                              /\ d.utxos[ToLocal[n]].spk = P2wsh(Revocable(n))
                         ELSE d.utxos[ToLocal[n]].spk = P2wpkh(Bob)
    OBVIOUS
  <2>1. Made(tx, ToLocal[n])
    BY <1>3
  <2>2. d.utxos[ToLocal[n]] = [amount |-> tx.outs[1].amount, spk |-> tx.outs[1].spk,
                               height |-> c.height]
    BY <1>3, <1>4, <1>5, <2>1
  <2>3. QED
    BY <1>4, <2>1, <2>2 DEF Output
<1> HIDE DEF tx
<1>7. QED
  BY <1>1, <1>2, <1>3, <1>6 DEF tx

LEMMA SpendOne ==
    ASSUME NEW c, IsChain(c), NEW tx, NEW p, Spent(tx) = {p}
    PROVE  LET d == Confirm(c, tx)
           IN /\ IsChain(d) /\ d.height = c.height
              /\ \A o : Unspent(d, o) => Made(tx, o) \/ (Unspent(c, o) /\ o # p)
              /\ \A o : Unspent(d, o) /\ ~Made(tx, o) => d.utxos[o] = c.utxos[o]
<1> DEFINE d == Confirm(c, tx)
<1>1. /\ IsChain(d) /\ d.height = c.height
      /\ \A o : Unspent(d, o) <=> (Unspent(c, o) /\ o \notin Spent(tx)) \/ Made(tx, o)
      /\ \A o : Unspent(d, o) /\ ~Made(tx, o) => d.utxos[o] = c.utxos[o]
  BY ConfirmFacts
<1>2. QED
  BY <1>1

LEMMA AfterSpend ==
    ASSUME NEW n \in States, NEW a, NEW c, IsChain(c),
           NEW tx \in {SignedRemedy(n, a), DelayedClaim[n]}
    PROVE  LET d == Confirm(c, tx)
           IN /\ IsChain(d) /\ d.height = c.height
              /\ Unspent(d, FundingOut) => Unspent(c, FundingOut)
              /\ \A m \in States :
                    Unspent(d, ToLocal[m]) => /\ Unspent(c, ToLocal[m])
                                              /\ ToLocal[m] \notin Spent(tx)
                                              /\ d.utxos[ToLocal[m]] = c.utxos[ToLocal[m]]
              /\ \A m \in States : Unspent(d, AliceOut(m)) =>
                    Unspent(c, AliceOut(m)) \/ (m = n /\ tx = DelayedClaim[n])
              /\ \A m \in States, b \in RemedySat : Unspent(d, BobOut(m, b)) =>
                    Unspent(c, BobOut(m, b)) \/ (m = n /\ tx = SignedRemedy(n, a))
<1> DEFINE d == Confirm(c, tx)
<1>1. PICK p : Spent(tx) = {p}
  <2>1. CASE tx = SignedRemedy(n, a)
    BY <2>1, Spends
  <2>2. CASE tx = DelayedClaim[n]
    BY <2>2, Spends
  <2>3. QED
    BY <2>1, <2>2
<1>2. /\ ~Made(tx, FundingOut)
      /\ \A m \in States : ~Made(tx, ToLocal[m])
      /\ \A m \in States : Made(tx, AliceOut(m)) => m = n /\ tx = DelayedClaim[n]
      /\ \A m \in States, b \in RemedySat :
            Made(tx, BobOut(m, b)) => m = n /\ tx = SignedRemedy(n, a)
  BY MadeFacts
<1>3. /\ IsChain(d) /\ d.height = c.height
      /\ \A o : Unspent(d, o) => Made(tx, o) \/ (Unspent(c, o) /\ o # p)
      /\ \A o : Unspent(d, o) /\ ~Made(tx, o) => d.utxos[o] = c.utxos[o]
  BY <1>1, SpendOne
<1> HIDE DEF d
<1>4. QED
  BY <1>1, <1>2, <1>3 DEF d

(***************************************************************************)
(* Every action keeps the invariant.                                       *)
(***************************************************************************)
LEMMA Took ==
    ASSUME NEW n
    PROVE  /\ AliceTook(n) <=> Unspent(chain, AliceOut(n))
           /\ BobTook(n) <=> \E a \in RemedySat : Unspent(chain, BobOut(n, a))
BY DEF AliceTook, BobTook, AliceOut, BobOut, UnsignedRemedy

(* Taking changes with the chain only.                                     *)
LEMMA TookSame ==
    ASSUME chain' = chain, NEW n
    PROVE  (AliceTook(n)' <=> AliceTook(n)) /\ (BobTook(n)' <=> BobTook(n))
BY DEF AliceTook, BobTook

LEMMA TookAfter ==
    ASSUME NEW n
    PROVE  /\ AliceTook(n)' <=> Unspent(chain', AliceOut(n))
           /\ BobTook(n)' <=> \E a \in RemedySat : Unspent(chain', BobOut(n, a))
BY DEF AliceTook, BobTook, AliceOut, BobOut, UnsignedRemedy

LEMMA InitOK == JusticeAssumption /\ Init => JusticeInv
<1> SUFFICES ASSUME JusticeAssumption, Init
             PROVE  JusticeInv
  OBVIOUS
<1>1. \A o : Unspent(chain, o) => o = FundingOut
  <2>1. FundingTx.outs = <<[amount |-> Capacity, spk |-> P2wsh(FundingScript)]>>
    BY DEF FundingTx, AddOutput, NewTx
  <2>2. Len(FundingTx.outs) = 1
    BY <2>1
  <2>3. \A o : Made(FundingTx, o) => o = FundingOut
    BY <2>2 DEF Made, FundingOut
  <2>4. chain.utxos = Outputs(FundingTx, 0)
    BY DEF Init, Genesis
  <2>5. QED
    BY <2>3, <2>4, OutputsFacts DEF Unspent
<1>2. IsChain(chain) /\ chain.height = 0
  BY DEF Init, Genesis, IsChain, Chain
<1>3. 0 \in States
  BY DEF States, JusticeAssumption
<1>4. \A n \in States :
         /\ ~Unspent(chain, ToLocal[n]) /\ ~Unspent(chain, AliceOut(n))
         /\ \A a \in RemedySat : ~Unspent(chain, BobOut(n, a))
  BY <1>1, Ids, FundingOutFacts DEF CommitmentId, ClaimId, RemedyId
<1>5. NumbersOK
  BY <1>2, <1>3 DEF NumbersOK, Init, JusticeAssumption
<1>6. OneAtATime /\ PackagesOK /\ UnsentOK
  BY DEF OneAtATime, PackagesOK, UnsentOK, Init
<1>7. FundingFirst /\ OutputOK /\ DelayRuns /\ ToLocalWatched
  BY <1>4 DEF FundingFirst, OutputOK, DelayRuns, ToLocalWatched, Init
<1>8. AliceTakesMissed /\ KeptStateIsHers
  BY <1>4, Took DEF AliceTakesMissed, KeptStateIsHers
<1>9. QED
  BY <1>5, <1>6, <1>7, <1>8 DEF JusticeInv

LEMMA NewStateStep == JusticeInv /\ NewState => JusticeInv'
<1> SUFFICES ASSUME JusticeInv, NewState
             PROVE  JusticeInv'
  OBVIOUS
<1> USE DEF JusticeInv, NewState
<1>1. NumbersOK'
  BY DEF NumbersOK, States
<1>2. OneAtATime' /\ FundingFirst' /\ PackagesOK' /\ UnsentOK' /\ OutputOK'
  BY DEF OneAtATime, FundingFirst, PackagesOK, UnsentOK, OutputOK
<1>3. DelayRuns' /\ ToLocalWatched' /\ AliceTakesMissed' /\ KeptStateIsHers'
  BY TookSame DEF DelayRuns, ToLocalWatched, Sweeping, AliceTakesMissed, KeptStateIsHers
<1>4. QED
  BY <1>1, <1>2, <1>3

LEMMA RevokeStep ==
    ASSUME JusticeInv, NEW n \in States, RevokePriorState(n)
    PROVE  JusticeInv'
<1> USE DEF JusticeInv, RevokePriorState
<1>1. NumbersOK'
  BY DEF NumbersOK
<1>2. OneAtATime' /\ FundingFirst' /\ OutputOK'
  BY DEF OneAtATime, FundingFirst, OutputOK
<1>3. PackagesOK' /\ UnsentOK' /\ KeptStateIsHers'
  BY TookSame DEF PackagesOK, UnsentOK, KeptStateIsHers
<1>4. DelayRuns' /\ ToLocalWatched' /\ AliceTakesMissed'
  BY TookSame DEF DelayRuns, ToLocalWatched, Sweeping, AliceTakesMissed
<1>5. QED
  BY <1>1, <1>2, <1>3, <1>4

LEMMA RegisterStep ==
    ASSUME JusticeInv, NEW n \in States, NEW a \in RemedySat, RegisterJusticePackage(n, a)
    PROVE  JusticeInv'
<1>1. n \in revealed
  BY KeyFacts DEF JusticeInv, NumbersOK, RegisterJusticePackage
<1>2. NumbersOK' /\ OneAtATime' /\ FundingFirst' /\ UnsentOK' /\ OutputOK'
  BY DEF JusticeInv, RegisterJusticePackage, NumbersOK, OneAtATime, FundingFirst, UnsentOK,
         OutputOK
<1>3. DelayRuns' /\ ToLocalWatched' /\ AliceTakesMissed' /\ KeptStateIsHers'
  BY TookSame DEF JusticeInv, RegisterJusticePackage, DelayRuns, ToLocalWatched, Sweeping,
                  AliceTakesMissed, KeptStateIsHers
<1>4. PackagesOK'
  <2> DEFINE hint == Hint(TxidOf(n))
  <2>1. /\ revealed' = revealed
        /\ hint_map' = [h \in DOMAIN hint_map \cup {hint} |->
                           IF h = hint THEN Package(n, a) ELSE hint_map[h]]
    BY DEF RegisterJusticePackage
  <2>2. \A h \in DOMAIN hint_map :
           \E m \in revealed : \E b \in RemedySat :
              h = Hint(TxidOf(m)) /\ hint_map[h] = Package(m, b)
    BY DEF JusticeInv, PackagesOK
  <2>3. SUFFICES ASSUME NEW h \in DOMAIN hint_map'
                 PROVE  \E m \in revealed : \E b \in RemedySat :
                           h = Hint(TxidOf(m)) /\ hint_map'[h] = Package(m, b)
    BY <2>1 DEF PackagesOK, Package, RemedySig
  <2>4. CASE h = hint
    BY <1>1, <2>1, <2>4
  <2>5. CASE h # hint
    <3>1. h \in DOMAIN hint_map /\ hint_map'[h] = hint_map[h]
      BY <2>1, <2>3, <2>5
    <3>2. QED
      BY <2>2, <3>1
  <2>6. QED
    BY <2>4, <2>5
<1>5. QED
  BY <1>2, <1>3, <1>4 DEF JusticeInv

LEMMA BroadcastStep ==
    ASSUME JusticeInv, JusticeAssumption, NEW n \in States, Broadcast(n)
    PROVE  JusticeInv'
<1>1. Unspent(chain, FundingOut) /\ chain' = Confirm(chain, CommitmentOf[n])
  BY BroadcastNeeds DEF Broadcast
<1>2. /\ unscanned = {} /\ swept = <<>> /\ unsent = {} /\ IsChain(chain)
      /\ \A m \in States : ~Unspent(chain, ToLocal[m])
  BY <1>1 DEF JusticeInv, FundingFirst, OneAtATime, NumbersOK, Range
<1>3. /\ unscanned' = {n}
      /\ UNCHANGED <<current, revealed, hint_map, swept, unsent, missed>>
  BY DEF Broadcast
<1>4. /\ IsChain(chain') /\ chain'.height = chain.height /\ ~Unspent(chain', FundingOut)
      /\ \A m \in States : Unspent(chain', ToLocal[m]) => m = n
      /\ Unspent(chain', ToLocal[n]) =>
            /\ chain'.utxos[ToLocal[n]].height = chain.height
            /\ IF HasToLocal(n)
               THEN /\ chain'.utxos[ToLocal[n]].amount = AliceSat[n + 1]
                    /\ chain'.utxos[ToLocal[n]].spk = P2wsh(Revocable(n))
               ELSE chain'.utxos[ToLocal[n]].spk = P2wpkh(Bob)
      /\ \A m \in States : Unspent(chain', AliceOut(m)) => Unspent(chain, AliceOut(m))
      /\ \A m \in States, a \in RemedySat :
            Unspent(chain', BobOut(m, a)) => Unspent(chain, BobOut(m, a))
  BY <1>1, <1>2, AfterCommitment
<1>5. chain.height \in Nat
  BY DEF JusticeInv, NumbersOK
<1>6. NumbersOK'
  BY <1>3, <1>4 DEF JusticeInv, NumbersOK
<1>7. OneAtATime' /\ FundingFirst'
  BY <1>2, <1>3, <1>4 DEF JusticeInv, OneAtATime, FundingFirst
<1>8. PackagesOK' /\ UnsentOK'
  BY <1>3 DEF JusticeInv, PackagesOK, UnsentOK
<1>9. OutputOK'
  BY <1>4, <1>5 DEF OutputOK
<1>10. DelayRuns'
  BY <1>4, <1>5 DEF DelayRuns, Age, JusticeAssumption
<1>11. ToLocalWatched'
  BY <1>3, <1>4 DEF ToLocalWatched
<1>12. AliceTakesMissed' /\ KeptStateIsHers'
  BY <1>3, <1>4, Took, TookAfter DEF JusticeInv, AliceTakesMissed, KeptStateIsHers
<1>13. QED
  BY <1>6, <1>7, <1>8, <1>9, <1>10, <1>11, <1>12 DEF JusticeInv

LEMMA ScanStep ==
    ASSUME JusticeInv, NEW n \in States, ScanTransaction(n)
    PROVE  JusticeInv'
<1> DEFINE hint == Hint(TxidOf(n))
           package == hint_map[hint]
           justice == BreachRemedy(<<Lx(TxidOf(n)), package.vout>>, package.sweeper,
                                   package.amount, package.sig, package.script)
<1>1. n \in unscanned /\ unscanned = {n} /\ swept = <<>> /\ unsent = {}
  BY DEF ScanTransaction, JusticeInv, OneAtATime, Range
<1>2. ~Unspent(chain, FundingOut)
  BY <1>1 DEF JusticeInv, FundingFirst
<1>3. unscanned' = {} /\ UNCHANGED <<current, revealed, hint_map, chain>>
  BY DEF ScanTransaction
<1>4. ASSUME Registered(n)
      PROVE  /\ n \in revealed /\ swept' = <<justice>> /\ unsent' = {justice}
             /\ package.amount \in RemedySat /\ justice = SignedRemedy(n, package.amount)
  <2>1. PICK m \in revealed : \E a \in RemedySat :
           hint = Hint(TxidOf(m)) /\ package = Package(m, a)
    BY <1>4 DEF JusticeInv, PackagesOK, Registered
  <2>2. PICK a \in RemedySat : hint = Hint(TxidOf(m)) /\ package = Package(m, a)
    BY <2>1
  <2>3. m = n
    BY <2>2, HintFacts DEF JusticeInv, NumbersOK
  <2>4. package.amount = a /\ justice = SignedRemedy(n, a)
    BY <2>2, <2>3 DEF Package, SignedRemedy, Remedy
  <2>5. swept' = Append(<<>>, justice) /\ unsent' = {justice}
    BY <1>1, <1>4 DEF ScanTransaction
  <2> HIDE DEF justice, package
  <2>6. Append(<<>>, justice) = <<justice>>
    OBVIOUS
  <2>7. QED
    BY <2>3, <2>4, <2>5, <2>6
<1>5. ~Registered(n) => swept' = <<>> /\ unsent' = {}
  BY <1>1 DEF ScanTransaction
<1>6. missed' = missed \/ missed' = missed \cup {n}
  BY DEF ScanTransaction
<1>7. n \in missed' \/ Sweeping(n)'
  <2>1. CASE Fits(n)
    <3>1. Registered(n) /\ package.amount = AliceSat[n + 1] /\ TxidText = "displayed"
      BY <2>1 DEF Fits
    <3>2. unsent' = {SignedRemedy(n, AliceSat[n + 1])}
      BY <1>4, <3>1
    <3>3. QED
      BY <3>1, <3>2 DEF Sweeping
  <2>2. CASE ~Fits(n)
    BY <2>2 DEF ScanTransaction
  <2>3. QED
    BY <2>1, <2>2
<1>8. NumbersOK'
  BY <1>3, <1>6 DEF JusticeInv, NumbersOK
<1>9. OneAtATime' /\ UnsentOK'
  <2>1. \A x : Range(<<x>>) = {x} /\ <<x>>[1] = x
    BY DEF Range
  <2> HIDE DEF justice, package
  <2>2. CASE Registered(n)
    BY <1>3, <1>4, <2>1, <2>2 DEF OneAtATime, UnsentOK
  <2>3. CASE ~Registered(n)
    BY <1>3, <1>5, <2>3 DEF OneAtATime, UnsentOK
  <2>4. QED
    BY <2>2, <2>3
<1>10. FundingFirst' /\ PackagesOK' /\ OutputOK'
  BY <1>2, <1>3 DEF JusticeInv, FundingFirst, PackagesOK, OutputOK
<1>11. DelayRuns'
  BY <1>1, <1>3 DEF JusticeInv, DelayRuns
<1>12. ToLocalWatched'
  <2>1. \A m \in States : Unspent(chain, ToLocal[m]) /\ HasToLocal(m) => m = n \/ m \in missed
    BY <1>1 DEF JusticeInv, ToLocalWatched, Sweeping
  <2>2. QED
    BY <1>3, <1>6, <1>7, <2>1 DEF ToLocalWatched
<1>13. AliceTakesMissed' /\ KeptStateIsHers'
  BY <1>3, <1>6, TookSame DEF JusticeInv, AliceTakesMissed, KeptStateIsHers
<1>14. QED
  BY <1>8, <1>9, <1>10, <1>11, <1>12, <1>13 DEF JusticeInv

(* What is left of the invariant when an output is spent.                  *)
LEMMA SpendStep ==
    ASSUME JusticeInv, NEW n \in States, NEW a,
           NEW tx \in {SignedRemedy(n, a), DelayedClaim[n]},
           chain' = Confirm(chain, tx),
           UNCHANGED <<current, revealed, hint_map, swept, unscanned, missed>>,
           unsent' = unsent \/ unsent' = {}
    PROVE  /\ NumbersOK' /\ OneAtATime' /\ FundingFirst' /\ PackagesOK' /\ UnsentOK' /\ OutputOK'
           /\ DelayRuns'
           /\ unsent' = unsent => ToLocalWatched'
<1>1. /\ IsChain(chain') /\ chain'.height = chain.height
      /\ Unspent(chain', FundingOut) => Unspent(chain, FundingOut)
      /\ \A m \in States :
            Unspent(chain', ToLocal[m]) => /\ Unspent(chain, ToLocal[m])
                                           /\ chain'.utxos[ToLocal[m]] = chain.utxos[ToLocal[m]]
  BY AfterSpend DEF JusticeInv, NumbersOK
<1>2. NumbersOK' /\ OneAtATime' /\ FundingFirst'
  BY <1>1 DEF JusticeInv, NumbersOK, OneAtATime, FundingFirst
<1>3. PackagesOK' /\ UnsentOK' /\ OutputOK'
  BY <1>1 DEF JusticeInv, PackagesOK, UnsentOK, OutputOK
<1>4. DelayRuns'
  BY <1>1 DEF JusticeInv, DelayRuns, Age
<1>5. unsent' = unsent => ToLocalWatched'
  BY <1>1 DEF JusticeInv, ToLocalWatched, Sweeping
<1>6. QED
  BY <1>2, <1>3, <1>4, <1>5

(* A remedy of a revoked state gives Alice nothing, and Bob what is his.   *)
LEMMA RemedyTakes ==
    ASSUME JusticeInv, NEW n \in revealed, NEW a, chain' = Confirm(chain, SignedRemedy(n, a)),
           UNCHANGED <<revealed, missed>>
    PROVE  AliceTakesMissed' /\ KeptStateIsHers'
<1>1. n \in States /\ IsChain(chain)
  BY DEF JusticeInv, NumbersOK
<1>2. SignedRemedy(n, a) # DelayedClaim[n]
  BY <1>1, Ids, KindsDiffer
<1>3. /\ \A m \in States : Unspent(chain', AliceOut(m)) =>
            Unspent(chain, AliceOut(m)) \/ (m = n /\ SignedRemedy(n, a) = DelayedClaim[n])
      /\ \A m \in States, b \in RemedySat :
            Unspent(chain', BobOut(m, b)) => Unspent(chain, BobOut(m, b)) \/ m = n
  BY <1>1, AfterSpend
<1>4. QED
  BY <1>2, <1>3, Took, TookAfter DEF JusticeInv, AliceTakesMissed, KeptStateIsHers

LEMMA SendStep ==
    ASSUME JusticeInv, JusticeAssumption, NEW tx \in unsent, Send(tx)
    PROVE  JusticeInv'
<1>1. PICK n \in revealed : \E a \in RemedySat : tx = SignedRemedy(n, a)
  BY DEF JusticeInv, UnsentOK
<1>2. PICK a \in RemedySat : tx = SignedRemedy(n, a)
  BY <1>1
<1>3. n \in States
  BY DEF JusticeInv, NumbersOK
<1>4. /\ unsent' = {} /\ unsent = {tx} /\ unscanned = {}
      /\ UNCHANGED <<current, revealed, hint_map, swept, unscanned, missed>>
  BY DEF Send, JusticeInv, OneAtATime, Range
(* What the tower still had to sweep is what it sends.                     *)
<1>5. \A m \in States :
         Unspent(chain, ToLocal[m]) /\ HasToLocal(m) /\ m \notin missed =>
            m = n /\ TxidText = "displayed" /\ tx = SignedRemedy(n, AliceSat[n + 1])
  <2> SUFFICES ASSUME NEW m \in States, Unspent(chain, ToLocal[m]), HasToLocal(m),
                      m \notin missed
               PROVE  m = n /\ TxidText = "displayed" /\ tx = SignedRemedy(n, AliceSat[n + 1])
    OBVIOUS
  <2>1. Sweeping(m)
    BY <1>4 DEF JusticeInv, ToLocalWatched
  <2>2. TxidText = "displayed" /\ tx = SignedRemedy(m, AliceSat[m + 1])
    BY <1>4, <2>1 DEF Sweeping
  <2>3. m = n
    BY <1>2, <1>3, <2>2, RemedyFacts
  <2>4. QED
    BY <2>2, <2>3
<1>6. CASE Accepts(chain, tx)
  <2>1. chain' = Confirm(chain, tx)
    BY <1>6 DEF Send
  <2>2. NumbersOK' /\ OneAtATime' /\ FundingFirst' /\ PackagesOK' /\ UnsentOK' /\ OutputOK'
        /\ DelayRuns'
    BY <1>2, <1>3, <1>4, <2>1, SpendStep
  <2>3. \A m \in States :
           Unspent(chain', ToLocal[m]) => Unspent(chain, ToLocal[m]) /\ ToLocal[m] \notin Spent(tx)
    BY <1>2, <1>3, <2>1, AfterSpend DEF JusticeInv, NumbersOK
  <2>4. TxidText = "displayed" => ToLocal[n] \in Spent(tx)
    BY <1>2, <1>3, Spends, PrevFacts
  <2>5. ToLocalWatched'
    BY <1>4, <1>5, <2>3, <2>4 DEF ToLocalWatched
  <2>6. AliceTakesMissed' /\ KeptStateIsHers'
    BY <1>2, <1>4, <2>1, RemedyTakes
  <2>7. QED
    BY <2>2, <2>5, <2>6 DEF JusticeInv
<1>7. CASE ~Accepts(chain, tx)
  <2>1. chain' = chain
    BY <1>7 DEF Send
  <2>2. \A m \in States : Unspent(chain, ToLocal[m]) /\ HasToLocal(m) => m \in missed
    BY <1>3, <1>5, <1>7, RemedyAccepted DEF JusticeInv, OutputOK
  <2>3. NumbersOK' /\ OneAtATime' /\ FundingFirst' /\ PackagesOK' /\ UnsentOK' /\ OutputOK'
    BY <1>4, <2>1 DEF JusticeInv, NumbersOK, OneAtATime, FundingFirst, PackagesOK, UnsentOK,
                      OutputOK
  <2>4. DelayRuns' /\ AliceTakesMissed' /\ KeptStateIsHers'
    BY <1>4, <2>1, TookSame DEF JusticeInv, DelayRuns, AliceTakesMissed, KeptStateIsHers
  <2>5. ToLocalWatched'
    BY <1>4, <2>1, <2>2 DEF ToLocalWatched
  <2>6. QED
    BY <2>3, <2>4, <2>5 DEF JusticeInv
<1>8. QED
  BY <1>6, <1>7

LEMMA OwnRemedyStep ==
    ASSUME JusticeInv, NEW n \in States, NEW a \in RemedySat, OwnRemedy(n, a)
    PROVE  JusticeInv'
<1>1. /\ n \in revealed /\ chain' = Confirm(chain, SignedRemedy(n, a))
      /\ UNCHANGED <<current, revealed, hint_map, swept, unscanned, unsent, missed>>
  BY KeyFacts DEF OwnRemedy, SignedRemedy, JusticeInv, NumbersOK
<1>2. NumbersOK' /\ OneAtATime' /\ FundingFirst' /\ PackagesOK' /\ UnsentOK' /\ OutputOK'
      /\ DelayRuns' /\ ToLocalWatched'
  BY <1>1, SpendStep
<1>3. AliceTakesMissed' /\ KeptStateIsHers'
  BY <1>1, RemedyTakes
<1>4. QED
  BY <1>2, <1>3 DEF JusticeInv

LEMMA ClaimStep ==
    ASSUME JusticeInv, NEW n \in States, ClaimDelayed(n)
    PROVE  JusticeInv'
<1>1. /\ chain' = Confirm(chain, DelayedClaim[n])
      /\ UNCHANGED <<current, revealed, hint_map, swept, unscanned, unsent, missed>>
  BY DEF ClaimDelayed
<1>2. /\ Unspent(chain, ToLocal[n]) /\ Age(chain, ToLocal[n]) >= Delay
      /\ chain.utxos[ToLocal[n]].spk # P2wpkh(Bob)
  BY ClaimNeeds DEF ClaimDelayed
<1>3. n \in missed
  <2>1. HasToLocal(n)
    BY <1>2 DEF JusticeInv, OutputOK
  <2>2. unscanned = {} /\ unsent = {}
    <3>1. chain.height \in Nat /\ chain.utxos[ToLocal[n]].height \in Nat /\ Delay \in Nat
      BY <1>2, JusticeAssumption DEF JusticeInv, NumbersOK, OutputOK, JusticeAssumption
    <3>2. ~(Age(chain, ToLocal[n]) < Delay)
      BY <1>2, <3>1 DEF Age
    <3>3. QED
      BY <1>2, <3>2 DEF JusticeInv, DelayRuns
  <2>3. QED
    BY <1>2, <2>1, <2>2 DEF JusticeInv, ToLocalWatched, Sweeping
<1>4. NumbersOK' /\ OneAtATime' /\ FundingFirst' /\ PackagesOK' /\ UnsentOK' /\ OutputOK'
      /\ DelayRuns' /\ ToLocalWatched'
  BY <1>1, SpendStep
<1>5. \A b : DelayedClaim[n] # SignedRemedy(n, b)
  BY Ids, KindsDiffer
<1>6. /\ \A m \in States : Unspent(chain', AliceOut(m)) => Unspent(chain, AliceOut(m)) \/ m = n
      /\ \A m \in States, b \in RemedySat :
            Unspent(chain', BobOut(m, b)) => Unspent(chain, BobOut(m, b))
  BY <1>1, <1>5, AfterSpend DEF JusticeInv, NumbersOK
<1>7. AliceTakesMissed' /\ KeptStateIsHers'
  BY <1>1, <1>3, <1>6, Took, TookAfter DEF JusticeInv, AliceTakesMissed, KeptStateIsHers
<1>8. QED
  BY <1>4, <1>7 DEF JusticeInv

LEMMA NewBlockStep ==
    ASSUME JusticeInv, JusticeAssumption, NewBlock
    PROVE  JusticeInv'
<1>1. /\ chain.height < MaxHeight /\ InTime /\ chain' = Mine(chain)
      /\ UNCHANGED <<current, revealed, hint_map, swept, unscanned, unsent, missed>>
  BY DEF NewBlock
<1>2. /\ IsChain(chain') /\ chain'.height = chain.height + 1 /\ chain'.utxos = chain.utxos
      /\ \A o : Unspent(chain', o) <=> Unspent(chain, o)
  BY <1>1, MineFacts DEF JusticeInv, NumbersOK
<1>3. NumbersOK'
  BY <1>1, <1>2 DEF JusticeInv, NumbersOK, JusticeAssumption
<1>4. OneAtATime' /\ FundingFirst' /\ PackagesOK' /\ UnsentOK'
  BY <1>1, <1>2 DEF JusticeInv, OneAtATime, FundingFirst, PackagesOK, UnsentOK
<1>5. OutputOK' /\ ToLocalWatched'
  BY <1>1, <1>2 DEF JusticeInv, OutputOK, ToLocalWatched, Sweeping
<1>6. DelayRuns'
  <2> SUFFICES ASSUME unscanned # {} \/ unsent # {}, NEW n \in States,
                      Unspent(chain, ToLocal[n])
               PROVE  Age(chain', ToLocal[n]) < Delay
    BY <1>1, <1>2 DEF DelayRuns
  <2>1. Age(chain, ToLocal[n]) + 1 < Delay
    BY <1>1 DEF InTime
  <2>2. chain.height \in Nat /\ chain.utxos[ToLocal[n]].height \in Nat
    BY DEF JusticeInv, NumbersOK, OutputOK
  <2>3. QED
    BY <1>2, <2>1, <2>2 DEF Age
<1>7. AliceTakesMissed' /\ KeptStateIsHers'
  BY <1>1, <1>2, Took, TookAfter DEF JusticeInv, AliceTakesMissed, KeptStateIsHers
<1>8. QED
  BY <1>3, <1>4, <1>5, <1>6, <1>7 DEF JusticeInv

(* Every reachable state of the breach has the invariant.                  *)
THEOREM JusticeInvariant == Spec => []JusticeInv
<1>1. Init => JusticeInv
  BY InitOK, JusticeAssumption
<1>2. JusticeInv /\ [Next]_vars => JusticeInv'
  <2> SUFFICES ASSUME JusticeInv, [Next]_vars
               PROVE  JusticeInv'
    OBVIOUS
  <2> USE JusticeAssumption
  <2>1. CASE NewState
    BY <2>1, NewStateStep
  <2>2. CASE \E n \in States : RevokePriorState(n)
    BY <2>2, RevokeStep
  <2>3. CASE \E n \in States, a \in RemedySat : RegisterJusticePackage(n, a)
    BY <2>3, RegisterStep
  <2>4. CASE \E n \in States : Broadcast(n)
    BY <2>4, BroadcastStep
  <2>5. CASE \E n \in States : ScanTransaction(n)
    BY <2>5, ScanStep
  <2>6. CASE \E tx \in unsent : Send(tx)
    BY <2>6, SendStep
  <2>7. CASE \E n \in States, a \in RemedySat : OwnRemedy(n, a)
    BY <2>7, OwnRemedyStep
  <2>8. CASE \E n \in States : ClaimDelayed(n)
    BY <2>8, ClaimStep
  <2>9. CASE NewBlock
    BY <2>9, NewBlockStep
  <2>10. CASE UNCHANGED vars
    BY <2>10, TookSame DEF vars, JusticeInv, NumbersOK, OneAtATime, FundingFirst, PackagesOK,
                           UnsentOK, OutputOK, DelayRuns, ToLocalWatched, Sweeping,
                           AliceTakesMissed, KeptStateIsHers
  <2>11. QED
    BY <2>1, <2>2, <2>3, <2>4, <2>5, <2>6, <2>7, <2>8, <2>9, <2>10 DEF Next
<1>3. QED
  BY <1>1, <1>2, PTL DEF Spec

(***************************************************************************)
(* The penalty falls on revoked states and on no other, for every channel, *)
(* every delay and every order of signing, revoking, registering,          *)
(* broadcasting, scanning and sweeping, whatever amounts callers sign for  *)
(* and however they write a txid: a revoked state pays Alice only if the   *)
(* tower had no package for its output as it is.                           *)
(***************************************************************************)
THEOREM BreachIsPunishedExactly == Spec => []PenaltyExact
<1>1. JusticeInv => PenaltyExact
  BY DEF JusticeInv, PenaltyExact, RevokedNeverPays, AliceTakesMissed
<1>2. QED
  BY <1>1, JusticeInvariant, PTL

(* The state of the channel, the tower and the chain has its type.         *)
THEOREM JusticeTypes == Spec => []TypeOK
<1>1. JusticeInv => TypeOK
  <2> SUFFICES ASSUME JusticeInv
               PROVE  TypeOK
    OBVIOUS
  <2>1. DOMAIN hint_map \subseteq {Hint(TxidOf(n)) : n \in States}
    BY DEF JusticeInv, NumbersOK, PackagesOK
  <2>2. Len(swept) <= 1
    <3>1. Len(<<>>) = 0 /\ \A x : Len(<<x>>) = 1
      OBVIOUS
    <3>2. QED
      BY <3>1 DEF JusticeInv, OneAtATime
  <2>3. QED
    BY <2>1, <2>2 DEF JusticeInv, NumbersOK, OneAtATime, TypeOK
<1>2. QED
  BY <1>1, JusticeInvariant, PTL
-----------------------------------------------------------------------------
(***************************************************************************)
(* The trailing zeros of two indices are nested, and none is a one bit.    *)
(***************************************************************************)
LEMMA ZerosNested ==
    ASSUME NEW a \in Index, NEW b \in Index
    PROVE  /\ a \cap TrailingZeros(a) = {}
           /\ \/ TrailingZeros(a) \subseteq TrailingZeros(b)
              \/ TrailingZeros(b) \subseteq TrailingZeros(a)
<1>1. a \cap TrailingZeros(a) = {}
  BY DEF TrailingZeros, Index
<1>2. ASSUME NEW x \in TrailingZeros(a), x \notin TrailingZeros(b),
             NEW y \in TrailingZeros(b)
      PROVE  y \in TrailingZeros(a)
  <2>1. PICK c \in b : ~(x < c)
    BY <1>2 DEF TrailingZeros
  <2>2. /\ x \in 0..Bits-1 /\ y \in 0..Bits-1 /\ c \in 0..Bits-1
        /\ y < c /\ \A d \in a : d \in 0..Bits-1 /\ x < d
    BY <1>2 DEF TrailingZeros, Index
  <2>3. y < x
    BY <2>1, <2>2, BitsAssumption
  <2>4. \A d \in a : y < d
    BY <2>2, <2>3, BitsAssumption
  <2>5. QED
    BY <2>2, <2>4 DEF TrailingZeros
<1>3. QED
  BY <1>1, <1>2

(* can_derive in the form the other lemmas use.                            *)
LEMMA DerivesIff ==
    ASSUME NEW a \in Index, NEW b \in Index
    PROVE  CanDerive(a, b) <=> a = b \/ a = b \ TrailingZeros(a)
BY ZerosNested DEF CanDerive

LEMMA DerivesTransitive ==
    ASSUME NEW a \in Index, NEW b \in Index, NEW c \in Index,
           CanDerive(a, b), CanDerive(b, c)
    PROVE  CanDerive(a, c)
<1>1. CASE a = b \/ b = c
  BY <1>1
<1>2. CASE a # b /\ b # c
  <2>1. a = b \ TrailingZeros(a) /\ b = c \ TrailingZeros(b)
    BY <1>2, DerivesIff
  <2>2. PICK x \in b : x \in TrailingZeros(a)
    BY <1>2, <2>1
  <2>3. TrailingZeros(b) \subseteq TrailingZeros(a)
    <3> SUFFICES ASSUME NEW y \in TrailingZeros(b) PROVE y \in TrailingZeros(a)
      OBVIOUS
    <3>1. /\ y \in 0..Bits-1 /\ x \in 0..Bits-1 /\ y < x
          /\ \A d \in a : d \in 0..Bits-1 /\ x < d
      BY <2>2 DEF TrailingZeros, Index
    <3>2. \A d \in a : y < d
      BY <3>1, BitsAssumption
    <3>3. QED
      BY <3>1, <3>2 DEF TrailingZeros
  <2>4. a = c \ TrailingZeros(a)
    BY <2>1, <2>3
  <2>5. QED
    BY <2>4, DerivesIff
<1>3. QED
  BY <1>1, <1>2

(* The indices that derive a given index form a chain.                     *)
LEMMA AncestorsChain ==
    ASSUME NEW a \in Index, NEW b \in Index, NEW t \in Index,
           CanDerive(a, t), CanDerive(b, t)
    PROVE  CanDerive(a, b) \/ CanDerive(b, a)
<1>1. CASE a = t \/ b = t
  BY <1>1
<1>2. CASE a # t /\ b # t
  <2>1. a = t \ TrailingZeros(a) /\ b = t \ TrailingZeros(b)
    BY <1>2, DerivesIff
  <2>2. CASE TrailingZeros(a) \subseteq TrailingZeros(b)
    <3>1. b = a \ TrailingZeros(b)
      BY <2>1, <2>2
    <3>2. QED
      BY <3>1, DerivesIff
  <2>3. CASE TrailingZeros(b) \subseteq TrailingZeros(a)
    <3>1. a = b \ TrailingZeros(a)
      BY <2>1, <2>3
    <3>2. QED
      BY <3>1, DerivesIff
  <2>4. QED
    BY <2>2, <2>3, ZerosNested
<1>3. QED
  BY <1>1, <1>2

(***************************************************************************)
(* derive_from_ancestor agrees with derive_shachain_secret: walking on from*)
(* an ancestor's secret gives the secret of the seed.                      *)
(***************************************************************************)
THEOREM DeriveFromAncestorCorrect ==
    ASSUME NEW a \in Index, NEW t \in Index, NEW seed, CanDerive(a, t)
    PROVE  DeriveFromAncestor(DeriveShachainSecret(seed, a), a, t)
              = DeriveShachainSecret(seed, t)
<1>1. CASE a = t
  BY <1>1 DEF DeriveFromAncestor
<1>2. CASE a # t
  <2>1. a = t \ TrailingZeros(a)
    BY <1>2, DerivesIff
  <2>2. a \cup {b \in TrailingZeros(a) : b \in t} = t
    BY <2>1
  <2>3. QED
    BY <1>2, <2>2 DEF DeriveFromAncestor, DeriveShachainSecret
<1>3. QED
  BY <1>1, <1>2
-----------------------------------------------------------------------------
(* Everything revealed lies above a slot, and slots hold what was revealed.*)
Covered ==
    \A i \in RevealedIndices : \E s \in DOMAIN elements : CanDerive(s, i)

SlotsRevealed == \A s \in DOMAIN elements : <<s, elements[s]>> \in received

ShachainInv == ShachainTypeOK /\ StoreIsMinimal /\ Covered /\ SlotsRevealed

LEMMA AddSecretStep ==
    ASSUME ShachainInv, NEW secret \in RevocationSecret, NEW index \in Index,
           AddSecret(secret, index)
    PROVE  ShachainInv'
<1>1. RevealedIndices' = RevealedIndices \cup {index}
  <2>1. received' = received \cup {<<index, secret>>}
    BY DEF AddSecret
  <2>2. <<index, secret>>[1] = index
    OBVIOUS
  <2>3. {r[1] : r \in received \cup {<<index, secret>>}} =
           {r[1] : r \in received} \cup {<<index, secret>>[1]}
    OBVIOUS
  <2>4. QED
    BY <2>1, <2>2, <2>3 DEF RevealedIndices
<1>2. RevealedIndices \subseteq Index /\ DOMAIN elements \subseteq RevealedIndices
  BY DEF ShachainInv, ShachainTypeOK, RevealedIndices, StoreIsMinimal
<1>3. \A i \in Index : CanDerive(i, i)
  BY DEF CanDerive
<1>4. CASE \E slot \in DOMAIN elements : CanDerive(slot, index)
  <2>1. elements' = elements /\ received' = received \cup {<<index, secret>>}
    BY <1>4 DEF AddSecret
  <2>2. PICK slot \in DOMAIN elements : CanDerive(slot, index)
    BY <1>4
  <2>3. ShachainTypeOK'
    BY <2>1 DEF ShachainInv, ShachainTypeOK
  <2>4. Covered'
    BY <1>1, <2>1, <2>2 DEF ShachainInv, Covered
  <2>5. SlotsRevealed'
    BY <2>1 DEF ShachainInv, SlotsRevealed
  <2>6. StoreIsMinimal'
    <3>1. ASSUME NEW i \in RevealedIndices, i # index, CanDerive(index, i),
                 i \in DOMAIN elements
          PROVE  FALSE
      <4>1. CanDerive(slot, i)
        BY <1>2, <2>2, <3>1, DerivesTransitive
      <4>2. slot = i
        BY <1>2, <2>2, <3>1, <4>1 DEF ShachainInv, StoreIsMinimal
      <4>3. CanDerive(i, index)
        BY <2>2, <4>2
      <4>4. TrailingZeros(index) \cap index = {} /\ TrailingZeros(i) \cap i = {}
        BY <1>2, ZerosNested
      <4>5. i = index \ TrailingZeros(i) /\ index = i \ TrailingZeros(index)
        BY <1>2, <3>1, <4>3, DerivesIff
      <4>6. QED
        BY <3>1, <4>4, <4>5
    <3>2. ASSUME index \notin RevealedIndices
          PROVE  \E j \in RevealedIndices : j # index /\ CanDerive(j, index)
      BY <1>2, <2>2, <3>2
    <3>3. QED
      BY <1>1, <1>2, <2>1, <3>1, <3>2 DEF ShachainInv, StoreIsMinimal
  <2>7. QED
    BY <2>3, <2>4, <2>5, <2>6 DEF ShachainInv
<1>5. CASE ~\E slot \in DOMAIN elements : CanDerive(slot, index)
  <2> DEFINE kept == {j \in DOMAIN elements : ~CanDerive(index, j)}
  <2>1. /\ elements' = [i \in kept \cup {index} |->
                           IF i = index THEN secret ELSE elements[i]]
        /\ received' = received \cup {<<index, secret>>}
    BY <1>5 DEF AddSecret
  <2>2. index \notin RevealedIndices
    BY <1>5 DEF ShachainInv, Covered
  <2>3. DOMAIN elements' = kept \cup {index}
    BY <2>1
  <2>4. ShachainTypeOK'
    BY <2>1 DEF ShachainInv, ShachainTypeOK
  <2>5. SlotsRevealed'
    BY <2>1 DEF ShachainInv, SlotsRevealed
  <2>6. Covered'
    <3> SUFFICES ASSUME NEW i \in RevealedIndices \cup {index}
                 PROVE  \E s \in kept \cup {index} : CanDerive(s, i)
      BY <1>1, <2>3 DEF Covered
    <3>1. CASE i = index
      BY <1>3, <3>1
    <3>2. CASE i \in RevealedIndices
      <4>1. PICK s \in DOMAIN elements : CanDerive(s, i)
        BY <3>2 DEF ShachainInv, Covered
      <4>2. CASE CanDerive(index, s)
        BY <1>2, <3>2, <4>1, <4>2, DerivesTransitive
      <4>3. QED
        BY <4>1, <4>2
    <3>3. QED
      BY <3>1, <3>2
  <2>7. StoreIsMinimal'
    <3>1. \A j \in RevealedIndices : ~CanDerive(j, index)
      <4> SUFFICES ASSUME NEW j \in RevealedIndices, CanDerive(j, index)
                   PROVE  FALSE
        OBVIOUS
      <4>1. PICK s \in DOMAIN elements : CanDerive(s, j)
        BY DEF ShachainInv, Covered
      <4>2. CanDerive(s, index)
        BY <1>2, <4>1, DerivesTransitive
      <4>3. QED
        BY <1>5, <4>1, <4>2
    <3>2. DOMAIN elements' = {i \in RevealedIndices \cup {index} :
             \A j \in (RevealedIndices \cup {index}) \ {i} : ~CanDerive(j, i)}
      BY <2>2, <2>3, <3>1 DEF ShachainInv, StoreIsMinimal
    <3>3. QED
      BY <1>1, <3>2 DEF StoreIsMinimal
  <2>8. QED
    BY <2>4, <2>5, <2>6, <2>7 DEF ShachainInv
<1>6. QED
  BY <1>4, <1>5

LEMMA ShachainInvariant == ShachainSpec => []ShachainInv
<1>1. ShachainInit => ShachainInv
  BY DEF ShachainInit, ShachainInv, ShachainTypeOK, StoreIsMinimal, Covered, SlotsRevealed,
         RevealedIndices
<1>2. ShachainInv /\ [ShachainNext]_shachainVars => ShachainInv'
  <2> SUFFICES ASSUME ShachainInv, [ShachainNext]_shachainVars PROVE ShachainInv'
    OBVIOUS
  <2>1. ASSUME NEW number \in Index,
               AddSecret(DeriveShachainSecret(Seed, CommitmentIndex(number)),
                         CommitmentIndex(number))
        PROVE  ShachainInv'
    <3>1. CommitmentIndex(number) \in Index
      BY DEF CommitmentIndex, Index
    <3>2. DeriveShachainSecret(Seed, CommitmentIndex(number)) \in RevocationSecret
      BY <3>1 DEF DeriveShachainSecret, RevocationSecret
    <3>3. QED
      BY <2>1, <3>1, <3>2, AddSecretStep
  <2>2. ASSUME NEW index \in Index, NEW root \in FakeRoots,
               AddSecret([root |-> root, flipped |-> {}], index)
        PROVE  ShachainInv'
    <3>1. [root |-> root, flipped |-> {}] \in RevocationSecret
      BY DEF RevocationSecret, Index
    <3>2. QED
      BY <2>2, <3>1, AddSecretStep
  <2>3. CASE UNCHANGED shachainVars
    BY <2>3 DEF shachainVars, ShachainInv, ShachainTypeOK, StoreIsMinimal, Covered, SlotsRevealed,
                RevealedIndices
  <2>4. QED
    BY <2>1, <2>2, <2>3 DEF ShachainNext
<1>3. QED
  BY <1>1, <1>2, PTL DEF ShachainSpec

(***************************************************************************)
(* The slots are the minimal revealed indices, for any order of reveals and*)
(* whatever the peer sends.                                                *)
(***************************************************************************)
THEOREM ShachainStoreIsMinimal == ShachainSpec => []StoreIsMinimal
<1>1. ShachainInv => StoreIsMinimal
  BY DEF ShachainInv
<1>2. QED
  BY <1>1, ShachainInvariant, PTL

(* At most one slot derives an index.                                      *)
LEMMA OneSlot ==
    ASSUME ShachainInv, NEW i \in Index, NEW a \in DOMAIN elements,
           NEW b \in DOMAIN elements, CanDerive(a, i), CanDerive(b, i)
    PROVE  a = b
<1>1. /\ a \in Index /\ b \in Index
      /\ a \in RevealedIndices /\ b \in RevealedIndices
  BY DEF ShachainInv, ShachainTypeOK, StoreIsMinimal
<1>2. CanDerive(a, b) \/ CanDerive(b, a)
  BY <1>1, AncestorsChain
<1>3. QED
  BY <1>1, <1>2 DEF ShachainInv, StoreIsMinimal

(***************************************************************************)
(* get_secret has one answer at most: the order in which the dict iterates *)
(* over the slots makes no difference.                                     *)
(***************************************************************************)
THEOREM ShachainAnswerUnique == ShachainSpec => []AnswerUnique
<1>1. ShachainInv => AnswerUnique
  <2> SUFFICES ASSUME ShachainInv, NEW i \in Index
               PROVE  Cardinality(GetSecret(i)) <= 1
    BY DEF AnswerUnique
  <2>1. \A x, y \in GetSecret(i) : x = y
    <3>1. CASE i \in DOMAIN elements
      BY <3>1 DEF GetSecret
    <3>2. CASE i \notin DOMAIN elements
      <4>1. \A a, b \in {s \in DOMAIN elements : CanDerive(s, i)} : a = b
        BY OneSlot
      <4>2. QED
        BY <3>2, <4>1 DEF GetSecret
    <3>3. QED
      BY <3>1, <3>2
  <2>2. GetSecret(i) = {} \/ \E x : GetSecret(i) = {x}
    BY <2>1
  <2>3. Cardinality({}) = 0 /\ \A x : Cardinality({x}) = 1
    BY FS_EmptySet, FS_Singleton
  <2>4. Cardinality(GetSecret(i)) \in {0, 1}
    BY <2>2, <2>3
  <2>5. QED
    BY <2>4
<1>2. QED
  BY <1>1, ShachainInvariant, PTL

(***************************************************************************)
(* Every secret that an honest peer revealed, in any order, can be had back*)
(* from the store.                                                         *)
(***************************************************************************)
THEOREM ShachainAllRetrievable == ShachainSpec => []AllRetrievable
<1>1. ShachainInv => AllRetrievable
  <2> SUFFICES ASSUME ShachainInv, Honest, NEW i \in RevealedIndices
               PROVE  GetSecret(i) = {DeriveShachainSecret(Seed, i)}
    BY DEF AllRetrievable
  <2>1. \A s \in DOMAIN elements : elements[s] = DeriveShachainSecret(Seed, s)
    BY DEF ShachainInv, SlotsRevealed, Honest
  <2>2. i \in Index /\ DOMAIN elements \subseteq Index
    BY DEF ShachainInv, ShachainTypeOK, RevealedIndices
  <2>3. PICK s \in DOMAIN elements : CanDerive(s, i)
    BY DEF ShachainInv, Covered
  <2>4. {slot \in DOMAIN elements : CanDerive(slot, i)} = {s}
    BY <2>2, <2>3, OneSlot
  <2>5. DeriveFromAncestor(elements[s], s, i) = DeriveShachainSecret(Seed, i)
    BY <2>1, <2>2, <2>3, DeriveFromAncestorCorrect
  <2>6. QED
    BY <2>1, <2>4, <2>5 DEF GetSecret
<1>2. QED
  BY <1>1, ShachainInvariant, PTL
-----------------------------------------------------------------------------
(***************************************************************************)
(* The store is small: in the order a channel reveals its commitments, two *)
(* slots never have the same lowest one bit.                               *)
(***************************************************************************)
LEMMA Highest ==
    ASSUME NEW S \in SUBSET (0..Bits-1), S # {}
    PROVE  \E m \in S : \A x \in S : x <= m
<1> DEFINE T == {Bits - x : x \in S}
<1>1. \A x \in S : x \in Nat /\ Bits - x \in Nat /\ Bits \in Nat
  BY BitsAssumption
<1>2. T \in SUBSET Nat /\ T # {}
  BY <1>1
<1>3. PICK t \in T : \A y \in T : t <= y
  BY <1>2, SmallestNat
<1>4. PICK m \in S : t = Bits - m
  BY <1>3
<1>5. ASSUME NEW x \in S PROVE x <= m
  <2>1. Bits - m <= Bits - x
    BY <1>3, <1>4
  <2>2. QED
    BY <1>1, <2>1
<1>6. QED
  BY <1>5

(* m is the lowest one bit of index.                                       *)
LowestOne(index, m) == m \in index /\ \A c \in index : m <= c

(***************************************************************************)
(* Of two slots with the same lowest one bit m, one has a one at the       *)
(* highest bit in which they differ, and was revealed before the other. The*)
(* index that lacks only its bit m derives it and was revealed in between. *)
(***************************************************************************)
LEMMA DerivedWithout ==
    ASSUME NEW s \in Index, NEW m, LowestOne(s, m)
    PROVE  s \ {m} \in Index /\ CanDerive(s \ {m}, s) /\ s \ {m} # s
<1> DEFINE p == s \ {m}
<1>1. p \in Index /\ p # s
  BY DEF LowestOne, Index
<1>2. m \in TrailingZeros(p)
  <2>1. m \in 0..Bits-1 /\ \A c \in p : m <= c /\ m # c /\ c \in 0..Bits-1
    BY DEF LowestOne, Index
  <2>2. \A c \in p : m < c
    BY <2>1, BitsAssumption
  <2>3. QED
    BY <2>1, <2>2 DEF TrailingZeros
<1>3. p \cap TrailingZeros(p) = {}
  BY <1>1, ZerosNested
<1>4. p = s \ TrailingZeros(p)
  BY <1>2, <1>3
<1>5. QED
  BY <1>1, <1>4, DerivesIff

LEMMA NoCommonLowest ==
    ASSUME ShachainInv, NEW s \in DOMAIN elements, NEW t \in DOMAIN elements,
           NEW m, LowestOne(s, m), LowestOne(t, m),
           NEW d \in s \ t, \A c \in (s \ t) \cup (t \ s) : c <= d,
           \A i \in RevealedIndices, j \in Index :
               Earlier(j, i) => j \in RevealedIndices
    PROVE  FALSE
<1> DEFINE p == s \ {m}
<1>1. /\ s \in Index /\ t \in Index /\ s \in RevealedIndices
      /\ t \in RevealedIndices
      /\ \A j \in RevealedIndices \ {s} : ~CanDerive(j, s)
  BY DEF ShachainInv, ShachainTypeOK, StoreIsMinimal
<1>2. p \in Index /\ CanDerive(p, s) /\ p # s
  BY <1>1, DerivedWithout
<1>3. d \in p \ t /\ m <= d
  BY DEF LowestOne
<1>4. \A c \in (p \ t) \cup (t \ p) : c <= d
  BY <1>3
<1>5. Earlier(p, t)
  BY <1>3, <1>4 DEF Earlier
<1>6. p \in RevealedIndices
  BY <1>1, <1>2, <1>5
<1>7. QED
  BY <1>1, <1>2, <1>6

(***************************************************************************)
(* "At most 48 slots": a peer that reveals the secrets of its commitments  *)
(* in order, 0, 1, ... n, never makes the store hold more slots than an    *)
(* index has bits, however many it reveals.                                *)
(***************************************************************************)
THEOREM ShachainSlotBound == ShachainSpec => []SlotBound
<1>1. ShachainInv => SlotBound
  <2> SUFFICES ASSUME ShachainInv,
                      \A i \in RevealedIndices, j \in Index :
                          Earlier(j, i) => j \in RevealedIndices
               PROVE  Cardinality(DOMAIN elements) <= Bits
    BY DEF SlotBound
  <2>1. DOMAIN elements \subseteq Index /\ Bits \in Nat /\ Bits >= 1
    BY BitsAssumption DEF ShachainInv, ShachainTypeOK
  <2>2. CASE {} \in DOMAIN elements
    <3>1. {} \in Index /\ \A i \in Index : CanDerive({}, i)
      BY DEF CanDerive, TrailingZeros, Index
    <3>2. DOMAIN elements = {{}}
      <4>1. ASSUME NEW a \in DOMAIN elements PROVE a = {}
        <5>1. a \in Index /\ CanDerive({}, a) /\ CanDerive(a, a)
          BY <2>1, <3>1 DEF CanDerive
        <5>2. QED
          BY <2>2, <5>1, OneSlot
      <4>2. QED
        BY <2>2, <4>1
    <3>3. Cardinality(DOMAIN elements) = 1
      BY <3>2, FS_Singleton
    <3>4. QED
      BY <2>1, <3>3
  <2>3. CASE {} \notin DOMAIN elements
    <3> DEFINE low == [s \in DOMAIN elements |-> CHOOSE m \in s : LowestOne(s, m)]
    <3>1. ASSUME NEW s \in DOMAIN elements
          PROVE  low[s] \in 0..Bits-1 /\ LowestOne(s, low[s])
      <4>1. s \in SUBSET (0..Bits-1)
        BY <2>1 DEF Index
      <4>2. \E m \in s : LowestOne(s, m)
        <5>1. s \in SUBSET Nat /\ s # {}
          BY <2>3, <4>1
        <5>2. QED
          BY <5>1, SmallestNat DEF LowestOne
      <4>3. QED
        BY <4>1, <4>2
    <3> HIDE DEF low
    <3>2. ASSUME NEW s \in DOMAIN elements, NEW t \in DOMAIN elements,
                 low[s] = low[t], s # t
          PROVE  FALSE
      <4> DEFINE D == (s \ t) \cup (t \ s)
      <4>1. D \in SUBSET (0..Bits-1) /\ D # {}
        BY <2>1, <3>2 DEF Index
      <4>2. PICK d \in D : \A c \in D : c <= d
        BY <4>1, Highest
      <4>3. LowestOne(s, low[s]) /\ LowestOne(t, low[s])
        BY <3>1, <3>2
      <4>4. CASE d \in s \ t
        BY <4>2, <4>3, <4>4, NoCommonLowest
      <4>5. CASE d \in t \ s
        <5>1. \A c \in (t \ s) \cup (s \ t) : c <= d
          BY <4>2
        <5>2. QED
          BY <4>3, <4>5, <5>1, NoCommonLowest
      <4>6. QED
        BY <4>4, <4>5
    <3>3. low \in Injection(DOMAIN elements, 0..Bits-1)
      <4>1. low \in [DOMAIN elements -> 0..Bits-1]
        BY <3>1 DEF low
      <4>2. \A s, t \in DOMAIN elements : low[s] = low[t] => s = t
        BY <3>2
      <4>3. QED
        BY <4>1, <4>2 DEF Injection, IsInjective
    <3>4. IsFiniteSet(0..Bits-1) /\ Cardinality(0..Bits-1) = Bits
      BY <2>1, FS_Interval
    <3>5. Cardinality(DOMAIN elements) <= Cardinality(0..Bits-1)
      BY <3>3, <3>4, FS_Injection
    <3>6. QED
      BY <3>4, <3>5
  <2>4. QED
    BY <2>2, <2>3
<1>2. QED
  BY <1>1, ShachainInvariant, PTL

(* The slots hold secrets under indices, whatever a peer sends.            *)
THEOREM ShachainTypeCorrect == ShachainSpec => []ShachainTypeOK
<1>1. ShachainInv => ShachainTypeOK
  BY DEF ShachainInv
<1>2. QED
  BY <1>1, ShachainInvariant, PTL
=============================================================================
