-------------------------------- MODULE Justice --------------------------------
(***************************************************************************)
(* protocols/revocation.py and protocols/watchtower.py: Alice holds one    *)
(* signed commitment for every state of a channel and reveals the secret of*)
(* a state she leaves behind. Bob hands the remedy of a revoked state to a *)
(* watchtower, or uses it himself, when she broadcasts that state.         *)
(***************************************************************************)
EXTENDS Ledger, FiniteSets

CONSTANTS
    Capacity,
    AliceSat,        \* Alice's balance in each state, from state 0
    RemedySat,       \* amounts that callers pay and sign a remedy for
    TxidText,        \* how callers write a txid: as the network displays it, or
                     \* as GetTxid().hex(), in the internal order of the bytes
    Delay,           \* to_self_delay
    MaxHeight        \* bound: the last block

States == 0..(Len(AliceSat) - 1)

ASSUME JusticeAssumption ==
    /\ Capacity \in Nat /\ AliceSat \in Seq(0..Capacity) /\ AliceSat # <<>>
    /\ RemedySat \subseteq Nat /\ TxidText \in {"displayed", "internal"}
    /\ Delay \in Nat \ {0} /\ MaxHeight \in Nat

VARIABLES
    current,         \* the number of the newest signed state
    revealed,        \* remote_revealed_secrets: the states with a secret
    hint_map,        \* the watchtower's packages, by hint
    swept,           \* swept_transactions
    unscanned,       \* confirmed commitments the tower has not been given
    unsent,          \* justice transactions on their way to the chain
    missed,          \* history: states scanned without a package that fits
    chain

vars == <<current, revealed, hint_map, swept, unscanned, unsent, missed, chain>>
-----------------------------------------------------------------------------
Alice == Key("alice")
Bob == Key("bob")

FundingScript == Multisig2of2(Alice, Bob)
FundingTx == AddOutput(NewTx(0), Capacity, P2wsh(FundingScript))

PointOf(n) == Secret(n)
RevocationOf(n) == RevocationKey(Bob, PointOf(n))
Revocable(n) == RevocableOutput(RevocationOf(n), Alice, Delay)

CommitmentOf ==
    [n \in States |->
        SignCommitment(AsymmetricCommitment(Outpoint(FundingTx, 1), Alice, Bob, RevocationOf(n),
                                            AliceSat[n + 1], Capacity - AliceSat[n + 1], Delay,
                                            <<>>, n),
                       1, FundingScript, Capacity, Alice, Bob)]

ToLocal == [n \in States |-> Outpoint(CommitmentOf[n], 1)]

HasToLocal(n) == AliceSat[n + 1] >= Dust

(* Alice's own claim after the delay: no builder of the code makes it.     *)
DelayedClaim ==
    [n \in States |->
        LET tx == AddOutput([Spend(ToLocal[n], Sequence(FALSE, Delay), 0) EXCEPT !.version = 2],
                            AliceSat[n + 1], P2wpkh(Alice))
            sig == SignP2wshInput(tx, 1, Revocable(n), Alice, AliceSat[n + 1])
        IN AddWitness(tx, RefundWitness(sig, Revocable(n)))]

(* The text of a txid, and what lx() makes of it: the bytes in the opposite*)
(* order, which are the id of no transaction if the text was not displayed.*)
TxidOf(n) == [order |-> TxidText, id |-> TxId(CommitmentOf[n])]

Lx(text) == IF text.order = "displayed" THEN text.id ELSE [reversed |-> text.id]

(* derive_watchtower_hint: of the text.                                    *)
Hint(text) == Digest("SHA256", text)

(* A mutation: one revealed secret is enough for every key.                *)
BobKnowsByAnySecret(key) == key = Bob \/ revealed # {}

(* derive_revocation_privkey: both secrets have to be known.               *)
BobKnows(key) == key = Bob \/ \E n \in revealed : key = RevocationKey(Bob, PointOf(n))

(* The remedy of a state and its signature: an amount is both paid and     *)
(* signed for, whatever the output is worth.                               *)
Remedy(n, amount, sig) == BreachRemedy(<<Lx(TxidOf(n)), 1>>, Bob, amount, sig, Revocable(n))

RemedySig(n, amount) ==
    SignP2wshInput(Remedy(n, amount, NoSig), 1, Revocable(n), RevocationOf(n), amount)

(* A mutation: the output is counted from one instead of zero.             *)
PackageOfNextOutput(n, amount) ==
    [vout |-> 2, sweeper |-> Bob, amount |-> amount, sig |-> RemedySig(n, amount),
     script |-> Revocable(n)]

Package(n, amount) ==
    [vout |-> 1, sweeper |-> Bob, amount |-> amount, sig |-> RemedySig(n, amount),
     script |-> Revocable(n)]

Registered(n) == Hint(TxidOf(n)) \in DOMAIN hint_map

(* The package is for what the output is worth, and names it.              *)
Fits(n) ==
    /\ Registered(n) /\ hint_map[Hint(TxidOf(n))].amount = AliceSat[n + 1]
    /\ TxidText = "displayed"
-----------------------------------------------------------------------------
Init ==
    /\ current = 0
    /\ revealed = {}
    /\ hint_map = [h \in {} |-> {}]
    /\ swept = <<>>
    /\ unscanned = {}
    /\ unsent = {}
    /\ missed = {}
    /\ chain = Genesis(FundingTx)

(* Both sign the commitment of the next state.                             *)
NewState ==
    /\ current + 1 \in States
    /\ current' = current + 1
    /\ UNCHANGED <<revealed, hint_map, swept, unscanned, unsent, missed, chain>>

(* A mutation: the number of the new state is stored, not the prior one's. *)
RevokePriorStateLate(n) ==
    /\ n < current
    /\ revealed' = revealed \cup {n + 1}
    /\ UNCHANGED <<current, hint_map, swept, unscanned, unsent, missed, chain>>

RevokePriorState(n) ==
    /\ n < current
    /\ revealed' = revealed \cup {n}
    /\ UNCHANGED <<current, hint_map, swept, unscanned, unsent, missed, chain>>

RegisterJusticePackage(n, amount) ==
    /\ BobKnows(RevocationOf(n))
    /\ hint_map' = [h \in DOMAIN hint_map \cup {Hint(TxidOf(n))} |->
                       IF h = Hint(TxidOf(n)) THEN Package(n, amount) ELSE hint_map[h]]
    /\ UNCHANGED <<current, revealed, swept, unscanned, unsent, missed, chain>>

(* Alice, who may be leaving or cheating.                                  *)
Broadcast(n) ==
    /\ n <= current
    /\ Accepts(chain, CommitmentOf[n])
    /\ chain' = Confirm(chain, CommitmentOf[n])
    /\ unscanned' = {n}
    /\ UNCHANGED <<current, revealed, hint_map, swept, unsent, missed>>

(* scan_transaction, given the transaction once.                           *)
ScanTransaction(n) ==
    LET package == hint_map[Hint(TxidOf(n))]
        justice == BreachRemedy(<<Lx(TxidOf(n)), package.vout>>, package.sweeper,
                                package.amount, package.sig, package.script)
    IN /\ n \in unscanned
       /\ unscanned' = {}
       /\ IF Registered(n)
          THEN swept' = Append(swept, justice) /\ unsent' = {justice}
          ELSE UNCHANGED <<swept, unsent>>
       /\ missed' = IF Fits(n) THEN missed ELSE missed \cup {n}
       /\ UNCHANGED <<current, revealed, hint_map, chain>>

Send(tx) ==
    /\ tx \in unsent
    /\ unsent' = {}
    /\ chain' = IF Accepts(chain, tx) THEN Confirm(chain, tx) ELSE chain
    /\ UNCHANGED <<current, revealed, hint_map, swept, unscanned, missed>>

(* Bob looks for himself, and tries whatever he can sign.                  *)
OwnRemedy(n, amount) ==
    LET tx == Remedy(n, amount, RemedySig(n, amount))
    IN /\ BobKnows(RevocationOf(n))
       /\ Accepts(chain, tx)
       /\ chain' = Confirm(chain, tx)
       /\ UNCHANGED <<current, revealed, hint_map, swept, unscanned, unsent, missed>>

ClaimDelayed(n) ==
    /\ Accepts(chain, DelayedClaim[n])
    /\ chain' = Confirm(chain, DelayedClaim[n])
    /\ UNCHANGED <<current, revealed, hint_map, swept, unscanned, unsent, missed>>

(* The tower is given a commitment, and its answer reaches the chain,      *)
(* before the delay is over.                                               *)
InTime ==
    unscanned # {} \/ unsent # {} =>
        \A n \in States : Unspent(chain, ToLocal[n]) => Age(chain, ToLocal[n]) + 1 < Delay

NewBlock ==
    /\ chain.height < MaxHeight
    /\ InTime
    /\ chain' = Mine(chain)
    /\ UNCHANGED <<current, revealed, hint_map, swept, unscanned, unsent, missed>>

Next ==
    \/ NewState
    \/ \E n \in States : RevokePriorState(n)
    \/ \E n \in States, amount \in RemedySat : RegisterJusticePackage(n, amount)
    \/ \E n \in States : Broadcast(n)
    \/ \E n \in States : ScanTransaction(n)
    \/ \E tx \in unsent : Send(tx)
    \/ \E n \in States, amount \in RemedySat : OwnRemedy(n, amount)
    \/ \E n \in States : ClaimDelayed(n)
    \/ NewBlock

Spec == Init /\ [][Next]_vars

(* The tower's loop over the transactions of the chain, and its sender: the*)
(* steps that empty unsent are those of Send.                              *)
Fairness ==
    /\ WF_vars(\E n \in States : ScanTransaction(n))
    /\ WF_unsent(unsent' = {})

FairSpec == Spec /\ Fairness
-----------------------------------------------------------------------------
TypeOK ==
    /\ current \in States
    /\ revealed \subseteq States /\ \A n \in revealed : n < current
    /\ DOMAIN hint_map \subseteq {Hint(TxidOf(n)) : n \in States}
    /\ unscanned \subseteq States /\ missed \subseteq States
    /\ unsent \subseteq Range(swept) /\ Len(swept) <= 1
    /\ chain.height \in 0..MaxHeight

AliceTook(n) == Unspent(chain, Outpoint(DelayedClaim[n], 1))

BobTook(n) ==
    \E amount \in RemedySat : Unspent(chain, Outpoint(Remedy(n, amount, NoSig), 1))

(* A revoked state pays Alice nothing, if the tower was told of it in time *)
(* with a package for the output as it is.                                 *)
RevokedNeverPays ==
    \A n \in States : AliceTook(n) => n \notin revealed \/ n \in missed

(* A state whose secret she kept is hers.                                  *)
KeptStateIsHers == \A n \in States : BobTook(n) => n \in revealed

(***************************************************************************)
(* The penalty falls on revoked states and on no other, whatever the order *)
(* of signing, revoking, registering, broadcasting and scanning, and for   *)
(* whatever amounts; the states it spares are those for which the tower has*)
(* no package, or one of another amount or of a txid of no transaction.    *)
(***************************************************************************)
PenaltyExact == RevokedNeverPays /\ KeptStateIsHers

(***************************************************************************)
(* A commitment that confirms while the tower holds a package for its      *)
(* output is swept to Bob, if it pays Alice anything at all and the package*)
(* is not replaced before the scan.                                        *)
(***************************************************************************)
FittingRemedySweeps ==
    \A n \in States :
        n \in unscanned /\ Fits(n) /\ HasToLocal(n) ~> BobTook(n) \/ n \in missed

(***************************************************************************)
(* src/README.md:22: broadcasting a revoked state triggers a justice       *)
(* transaction that sweeps it to the honest node. Here for a state with a  *)
(* package, whatever its caller put into it.                               *)
(***************************************************************************)
BreachPunished ==
    \A n \in States :
        n \in unscanned /\ Registered(n) /\ HasToLocal(n) ~> BobTook(n)
=============================================================================
