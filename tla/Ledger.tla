-------------------------------- MODULE Ledger --------------------------------
(***************************************************************************)
(* The chain that the transactions are for: its unspent outputs with their *)
(* heights, and the rules a transaction has to obey besides its scripts,   *)
(* which the interpreter judges. A transaction it accepts is confirmed.    *)
(***************************************************************************)
EXTENDS Transactions

Outputs(tx, height) ==
    [o \in {Outpoint(tx, i) : i \in 1..Len(tx.outs)} |->
        [amount |-> tx.outs[o[2]].amount, spk |-> tx.outs[o[2]].spk, height |-> height]]

Genesis(tx) == [height |-> 0, utxos |-> Outputs(tx, 0)]

Unspent(chain, outpoint) == outpoint \in DOMAIN chain.utxos

Age(chain, outpoint) == chain.height - chain.utxos[outpoint].height

Spent(tx) == {tx.ins[i].prev : i \in 1..Len(tx.ins)}

Total(amounts) ==
    LET sum[n \in 0..Len(amounts)] == IF n = 0 THEN 0 ELSE sum[n - 1] + amounts[n]
    IN sum[Len(amounts)]

InputSat(chain, tx) ==
    Total([i \in 1..Len(tx.ins) |-> chain.utxos[tx.ins[i].prev].amount])
OutputSat(tx) == Total([i \in 1..Len(tx.outs) |-> tx.outs[i].amount])

IsFinal(chain, tx) ==
    \/ tx.locktime <= chain.height
    \/ \A i \in 1..Len(tx.ins) : tx.ins[i].sequence = Final

(* Relative locks bind transactions of version 2.                          *)
IsMature(chain, tx) ==
    tx.version >= 2 =>
        \A i \in 1..Len(tx.ins) :
            LET in == tx.ins[i]
            IN in.sequence.disabled \/ Age(chain, in.prev) >= in.sequence.low

Accepts(chain, tx) ==
    /\ \A o \in Spent(tx) : Unspent(chain, o)
    /\ IsFinal(chain, tx)
    /\ IsMature(chain, tx)
    /\ tx.outs # <<>> /\ OutputSat(tx) <= InputSat(chain, tx)
    /\ \A i \in 1..Len(tx.ins) :
          LET utxo == chain.utxos[tx.ins[i].prev]
          IN VerifyTransactionWitness(tx, i, utxo.spk, utxo.amount)

Confirm(chain, tx) ==
    LET new == Outputs(tx, chain.height)
        left == DOMAIN chain.utxos \ Spent(tx)
    IN [chain EXCEPT !.utxos = [o \in left \cup DOMAIN new |->
                                   IF o \in DOMAIN new THEN new[o] ELSE chain.utxos[o]]]

Mine(chain) == [chain EXCEPT !.height = @ + 1]
=============================================================================
