------------------------- MODULE TransactionLemmas -------------------------
(***************************************************************************)
(* Lemmas for the proofs about transactions: what the builders make, what  *)
(* the id of a transaction keeps of it, and what the chain does with one.  *)
(***************************************************************************)
EXTENDS Ledger, TLAPS, WellFoundedInduction, SequenceTheorems

(* A transaction of one input, from its parts.                             *)
Tx(version, prev, sequence, locktime, outs, wit) ==
    [version |-> version, ins |-> <<[prev |-> prev, sequence |-> sequence]>>,
     outs |-> outs, locktime |-> locktime, wit |-> wit]

Output(amount, spk) == [amount |-> amount, spk |-> spk]

LEMMA TxParts ==
    ASSUME NEW v, NEW p, NEW s, NEW l, NEW o, NEW w
    PROVE  LET tx == Tx(v, p, s, l, o, w)
           IN /\ tx.version = v /\ tx.locktime = l /\ tx.outs = o /\ tx.wit = w
              /\ Len(tx.ins) = 1 /\ tx.ins[1].prev = p /\ tx.ins[1].sequence = s
              /\ Spent(tx) = {p}
<1>1. Len(<<[prev |-> p, sequence |-> s]>>) = 1
  OBVIOUS
<1>2. <<[prev |-> p, sequence |-> s]>>[1] = [prev |-> p, sequence |-> s]
  OBVIOUS
<1>3. 1..1 = {1}
  OBVIOUS
<1>4. QED
  BY <1>1, <1>2, <1>3 DEF Tx, Spent

LEMMA TxSpent ==
    ASSUME NEW v, NEW p, NEW s, NEW l, NEW o, NEW w
    PROVE  Spent(Tx(v, p, s, l, o, w)) = {p}
BY TxParts

LEMMA TxOuts ==
    ASSUME NEW v, NEW p, NEW s, NEW l, NEW o, NEW w
    PROVE  Tx(v, p, s, l, o, w).outs = o
BY TxParts

LEMMA SpendForm ==
    ASSUME NEW p, NEW s, NEW l
    PROVE  Spend(p, s, l) = Tx(1, p, s, l, <<>>, <<>>)
<1>1. Append(<<>>, [prev |-> p, sequence |-> s]) = <<[prev |-> p, sequence |-> s]>>
  OBVIOUS
<1>2. QED
  BY <1>1 DEF Spend, AddInput, NewTx, Tx

(* A part of a transaction that is replaced.                               *)
PutOuts(tx, outs) == [tx EXCEPT !.outs = outs]
PutWit(tx, wit) == [tx EXCEPT !.wit = wit]

LEMMA PutParts ==
    ASSUME NEW v, NEW p, NEW s, NEW l, NEW o, NEW w, NEW new
    PROVE  /\ PutOuts(Tx(v, p, s, l, o, w), new) = Tx(v, p, s, l, new, w)
           /\ PutWit(Tx(v, p, s, l, o, w), new) = Tx(v, p, s, l, o, new)
BY DEF Tx, PutOuts, PutWit

LEMMA AddOutputForm ==
    ASSUME NEW v, NEW p, NEW s, NEW l, NEW o, NEW w, NEW amount, NEW spk
    PROVE  AddOutput(Tx(v, p, s, l, o, w), amount, spk) =
              Tx(v, p, s, l, Append(o, Output(amount, spk)), w)
<1>1. Tx(v, p, s, l, o, w).outs = o
  BY TxParts
<1>2. AddOutput(Tx(v, p, s, l, o, w), amount, spk) =
         PutOuts(Tx(v, p, s, l, o, w), Append(o, Output(amount, spk)))
  BY <1>1 DEF AddOutput, Output, PutOuts
<1>3. QED
  BY <1>2, PutParts

LEMMA AddWitnessForm ==
    ASSUME NEW v, NEW p, NEW s, NEW l, NEW o, NEW w, NEW stack
    PROVE  AddWitness(Tx(v, p, s, l, o, w), stack) =
              Tx(v, p, s, l, o, Append(w, stack))
<1>1. Tx(v, p, s, l, o, w).wit = w
  BY TxParts
<1>2. AddWitness(Tx(v, p, s, l, o, w), stack) =
         PutWit(Tx(v, p, s, l, o, w), Append(w, stack))
  BY <1>1 DEF AddWitness, PutWit
<1>3. QED
  BY <1>2, PutParts

LEMMA VersionForm ==
    ASSUME NEW v, NEW p, NEW s, NEW l, NEW o, NEW w, NEW version
    PROVE  [Tx(v, p, s, l, o, w) EXCEPT !.version = version] =
              Tx(version, p, s, l, o, w)
BY DEF Tx

LEMMA TxIdForm ==
    ASSUME NEW v, NEW p, NEW s, NEW l, NEW o, NEW w
    PROVE  TxId(Tx(v, p, s, l, o, w)) = Tx(v, p, s, l, o, <<>>)
BY DEF TxId, Tx
-----------------------------------------------------------------------------
(***************************************************************************)
(* The chain: which outputs there are after a transaction is confirmed.    *)
(***************************************************************************)
Chain(height, utxos) == [height |-> height, utxos |-> utxos]

IsChain(c) == c = Chain(c.height, c.utxos)

Made(tx, o) == \E i \in 1..Len(tx.outs) : o = Outpoint(tx, i)

LEMMA ChainForm ==
    ASSUME NEW h, NEW u, NEW v
    PROVE  /\ Chain(h, u).height = h /\ Chain(h, u).utxos = u /\ IsChain(Chain(h, u))
           /\ [Chain(h, u) EXCEPT !.utxos = v] = Chain(h, v)
           /\ [Chain(h, u) EXCEPT !.height = v] = Chain(v, u)
BY DEF Chain, IsChain

LEMMA OutputsFacts ==
    ASSUME NEW tx, NEW h
    PROVE  /\ \A o : o \in DOMAIN Outputs(tx, h) <=> Made(tx, o)
           /\ \A i \in 1..Len(tx.outs) :
                 Outputs(tx, h)[Outpoint(tx, i)] =
                    [amount |-> tx.outs[i].amount, spk |-> tx.outs[i].spk, height |-> h]
<1>1. \A i : Outpoint(tx, i)[2] = i
  BY DEF Outpoint
<1>2. QED
  BY <1>1 DEF Outputs, Made

LEMMA ConfirmFacts ==
    ASSUME NEW c, IsChain(c), NEW tx
    PROVE  LET d == Confirm(c, tx)
           IN /\ IsChain(d) /\ d.height = c.height
              /\ \A o : Unspent(d, o) <=> (Unspent(c, o) /\ o \notin Spent(tx)) \/ Made(tx, o)
              /\ \A o : Unspent(d, o) /\ ~Made(tx, o) => d.utxos[o] = c.utxos[o]
              /\ \A i \in 1..Len(tx.outs) :
                    d.utxos[Outpoint(tx, i)] =
                       [amount |-> tx.outs[i].amount, spk |-> tx.outs[i].spk,
                        height |-> c.height]
<1> DEFINE new == Outputs(tx, c.height)
           left == DOMAIN c.utxos \ Spent(tx)
           u == [o \in left \cup DOMAIN new |->
                    IF o \in DOMAIN new THEN new[o] ELSE c.utxos[o]]
<1>1. Confirm(c, tx) = Chain(c.height, u)
  <2>1. c = Chain(c.height, c.utxos)
    BY DEF IsChain
  <2>2. Confirm(c, tx) = [c EXCEPT !.utxos = u]
    BY DEF Confirm
  <2> HIDE DEF u
  <2>3. [Chain(c.height, c.utxos) EXCEPT !.utxos = u] = Chain(c.height, u)
    BY ChainForm
  <2>4. QED
    BY <2>1, <2>2, <2>3
<1>2. \A o : o \in DOMAIN u <=> o \in left \/ Made(tx, o)
  BY OutputsFacts
<1>3. \A o \in DOMAIN u : ~Made(tx, o) => u[o] = c.utxos[o]
  BY OutputsFacts
<1>4. \A i \in 1..Len(tx.outs) :
         u[Outpoint(tx, i)] = [amount |-> tx.outs[i].amount, spk |-> tx.outs[i].spk,
                               height |-> c.height]
  <2> SUFFICES ASSUME NEW i \in 1..Len(tx.outs)
               PROVE  u[Outpoint(tx, i)] = new[Outpoint(tx, i)]
    BY OutputsFacts
  <2>1. Outpoint(tx, i) \in DOMAIN new
    BY OutputsFacts DEF Made
  <2>2. QED
    BY <2>1
<1> HIDE DEF u
<1>5. QED
  BY <1>1, <1>2, <1>3, <1>4, ChainForm DEF Unspent

LEMMA ConfirmedKeeps ==
    ASSUME NEW c, IsChain(c), NEW tx
    PROVE  \A o : Unspent(Confirm(c, tx), o) /\ ~Made(tx, o) =>
                     Confirm(c, tx).utxos[o] = c.utxos[o]
BY ConfirmFacts

LEMMA ConfirmKeeps ==
    ASSUME NEW c, IsChain(c), NEW tx, NEW d, d = Confirm(c, tx)
    PROVE  \A o : Unspent(d, o) /\ ~Made(tx, o) => d.utxos[o] = c.utxos[o]
BY Zenon, ConfirmedKeeps

LEMMA ConfirmMakes ==
    ASSUME NEW c, IsChain(c), NEW tx, NEW d, d = Confirm(c, tx)
    PROVE  \A i \in 1..Len(tx.outs) :
              d.utxos[Outpoint(tx, i)] =
                 [amount |-> tx.outs[i].amount, spk |-> tx.outs[i].spk, height |-> c.height]
<1>1. \A i \in 1..Len(tx.outs) :
         Confirm(c, tx).utxos[Outpoint(tx, i)] =
            [amount |-> tx.outs[i].amount, spk |-> tx.outs[i].spk, height |-> c.height]
  BY ConfirmFacts, ZenonT(40)
<1>2. Confirm(c, tx) = d
  OBVIOUS
<1>3. QED
  BY <1>1, <1>2

LEMMA MineFacts ==
    ASSUME NEW c, IsChain(c)
    PROVE  /\ IsChain(Mine(c)) /\ Mine(c).height = c.height + 1
           /\ Mine(c).utxos = c.utxos /\ \A o : Unspent(Mine(c), o) <=> Unspent(c, o)
<1>1. c = Chain(c.height, c.utxos)
  BY DEF IsChain
<1>2. Mine(c) = Chain(c.height + 1, c.utxos)
  <2> DEFINE h == c.height + 1
  <2>1. Mine(c) = [c EXCEPT !.height = h]
    BY DEF Mine
  <2> HIDE DEF h
  <2>2. Mine(c) = Chain(h, c.utxos)
    BY <1>1, <2>1, ChainForm
  <2>3. QED
    BY <2>2 DEF h
<1>3. QED
  BY <1>2, ChainForm DEF Unspent

(***************************************************************************)
(* What a transaction of one input has to satisfy to be accepted.          *)
(***************************************************************************)
LEMMA AcceptsFacts ==
    ASSUME NEW c, NEW v, NEW p, NEW s, NEW l, NEW o, NEW w,
           Accepts(c, Tx(v, p, s, l, o, w))
    PROVE  /\ Unspent(c, p) /\ o # <<>>
           /\ l <= c.height \/ s = Final
           /\ v >= 2 => s.disabled \/ Age(c, p) >= s.low
           /\ VerifyTransactionWitness(Tx(v, p, s, l, o, w), 1, c.utxos[p].spk,
                                       c.utxos[p].amount)
<1> DEFINE tx == Tx(v, p, s, l, o, w)
<1>1. /\ tx.version = v /\ tx.locktime = l /\ tx.outs = o
      /\ Len(tx.ins) = 1 /\ tx.ins[1].prev = p /\ tx.ins[1].sequence = s
      /\ Spent(tx) = {p}
  BY TxParts
<1>2. 1 \in 1..1
  OBVIOUS
<1>3. Accepts(c, tx)
  OBVIOUS
<1> HIDE DEF tx
<1>4. /\ Unspent(c, p) /\ o # <<>>
      /\ l <= c.height \/ s = Final
      /\ v >= 2 => s.disabled \/ Age(c, p) >= s.low
  BY <1>1, <1>2, <1>3 DEF Accepts, IsFinal, IsMature
<1>5. VerifyTransactionWitness(tx, 1, c.utxos[p].spk, c.utxos[p].amount)
  BY <1>1, <1>2, <1>3 DEF Accepts
<1>6. QED
  BY <1>4, <1>5 DEF tx

LEMMA TotalOfOne ==
    ASSUME NEW f, Len(f) = 1, f[1] \in Nat
    PROVE  Total(f) = f[1]
<1> DEFINE sum == [n \in 0..1 |-> IF n = 0 THEN 0 ELSE f[1]]
           IsSum(g) == g = [n \in 0..1 |-> IF n = 0 THEN 0 ELSE g[n - 1] + f[n]]
<1>1. 0..1 = {0, 1}
  OBVIOUS
<1>2. IsSum(sum)
  BY <1>1
<1>3. \A g : IsSum(g) => g[1] = f[1]
  <2> SUFFICES ASSUME NEW g, IsSum(g)
               PROVE  g[1] = f[1]
    OBVIOUS
  <2>1. g[0] = 0 /\ g[1] = g[0] + f[1]
    BY <1>1
  <2>2. QED
    BY <2>1
<1>4. IsSum(CHOOSE g : IsSum(g))
  BY <1>2
<1>5. Total(f) = (CHOOSE g : IsSum(g))[1]
  BY DEF Total
<1>6. QED
  BY <1>3, <1>4, <1>5

(***************************************************************************)
(* What is enough for a transaction of one input and one output.           *)
(***************************************************************************)
LEMMA AcceptsIf ==
    ASSUME NEW c, NEW p, NEW l, NEW amount \in Nat, NEW spk, NEW w,
           Unspent(c, p), c.utxos[p].amount = amount,
           VerifyTransactionWitness(Tx(1, p, Final, l, <<Output(amount, spk)>>, w), 1,
                                    c.utxos[p].spk, amount)
    PROVE  Accepts(c, Tx(1, p, Final, l, <<Output(amount, spk)>>, w))
<1> DEFINE outs == <<Output(amount, spk)>>
           tx == Tx(1, p, Final, l, outs, w)
<1>1. /\ tx.version = 1 /\ tx.locktime = l /\ tx.outs = outs
      /\ Len(tx.ins) = 1 /\ tx.ins[1].prev = p /\ tx.ins[1].sequence = Final
      /\ Spent(tx) = {p}
  BY TxParts
<1>2. Len(outs) = 1 /\ outs[1].amount = amount /\ outs # <<>>
  BY DEF Output
<1>3. VerifyTransactionWitness(tx, 1, c.utxos[p].spk, amount)
  OBVIOUS
<1> HIDE DEF tx, outs
<1>4. InputSat(c, tx) = amount
  <2> DEFINE f == [i \in 1..Len(tx.ins) |-> c.utxos[tx.ins[i].prev].amount]
  <2>1. Len(f) = 1 /\ f[1] = amount
    BY <1>1
  <2>2. Total(f) = amount
    BY <2>1, TotalOfOne
  <2>3. QED
    BY <2>2 DEF InputSat
<1>5. OutputSat(tx) = amount
  <2> DEFINE f == [i \in 1..Len(tx.outs) |-> tx.outs[i].amount]
  <2>1. Len(f) = 1 /\ f[1] = amount
    BY <1>1, <1>2
  <2>2. Total(f) = amount
    BY <2>1, TotalOfOne
  <2>3. QED
    BY <2>2 DEF OutputSat
<1>6. \A i \in 1..Len(tx.ins) : i = 1
  BY <1>1
<1>7. amount <= amount
  OBVIOUS
<1>8. IsFinal(c, tx) /\ IsMature(c, tx)
  BY <1>1, <1>6 DEF IsFinal, IsMature
<1>9. \A i \in 1..Len(tx.ins) :
         LET utxo == c.utxos[tx.ins[i].prev]
         IN VerifyTransactionWitness(tx, i, utxo.spk, utxo.amount)
  BY <1>1, <1>3, <1>6
<1>10. Accepts(c, tx)
  BY <1>1, <1>2, <1>4, <1>5, <1>7, <1>8, <1>9 DEF Accepts
<1>11. QED
  BY <1>10 DEF tx, outs
-----------------------------------------------------------------------------
(***************************************************************************)
(* The machine of the interpreter exists for every script: a script without*)
(* one would have a shortest prefix without one.                           *)
(***************************************************************************)
LEMMA SmallestNat ==
    ASSUME NEW T \in SUBSET Nat, T # {}
    PROVE  \E n \in T : \A m \in T : n <= m
<1> DEFINE R == OpToRel(<, Nat)
<1>1. IsWellFoundedOn(R, Nat)
  BY NatLessThanWellFounded
<1>2. \A m, n \in Nat : <<m, n>> \in R <=> m < n
  BY DEF OpToRel
<1> HIDE DEF R
<1>3. PICK n \in T : \A m \in T : ~(<<m, n>> \in R)
  BY <1>1, WFMin
<1>4. \A m \in T : n \in Nat /\ m \in Nat /\ ~(m < n)
  BY <1>2, <1>3
<1> QED
  BY <1>4

RunsTo(run, stack, k, g) ==
    g = [n \in 0..k |-> IF n = 0 THEN Start(stack) ELSE Step(g[n - 1], run.script[n], run)]

LEMMA RunsToExists ==
    ASSUME NEW run, NEW stack, NEW N \in Nat
    PROVE  \E g : RunsTo(run, stack, N, g)
<1> DEFINE Bad == {k \in Nat : ~ \E g : RunsTo(run, stack, k, g)}
<1>1. SUFFICES ASSUME Bad # {} PROVE FALSE
  OBVIOUS
<1>2. PICK k \in Bad : \A m \in Bad : k <= m
  BY <1>1, SmallestNat
<1>3. CASE k = 0
  <2> DEFINE g == [n \in 0..0 |-> Start(stack)]
  <2>1. RunsTo(run, stack, 0, g)
    BY DEF RunsTo
  <2> QED
    BY <1>2, <1>3, <2>1
<1>4. CASE k # 0
  <2>1. k \in Nat /\ k - 1 \in Nat /\ k - 1 \notin Bad
    BY <1>2, <1>4
  <2>2. PICK h : RunsTo(run, stack, k - 1, h)
    BY <2>1
  <2> DEFINE new == Step(h[k - 1], run.script[k], run)
             g == [n \in 0..k |-> IF n = k THEN new ELSE h[n]]
  <2>3. \A n \in 0..(k - 1) : h[n] = IF n = 0 THEN Start(stack)
                                     ELSE Step(h[n - 1], run.script[n], run)
    BY <2>2 DEF RunsTo
  <2>4. g[k] = new /\ \A n \in 0..(k - 1) : g[n] = h[n]
    BY <2>1
  <2>5. \A n \in 0..k : g[n] = IF n = 0 THEN Start(stack)
                               ELSE Step(g[n - 1], run.script[n], run)
    <3> SUFFICES ASSUME NEW n \in 0..k
                 PROVE  g[n] = IF n = 0 THEN Start(stack)
                               ELSE Step(g[n - 1], run.script[n], run)
      OBVIOUS
    <3>1. CASE n = k
      <4>1. g[k - 1] = h[k - 1]
        BY <2>1, <2>4
      <4> QED
        BY <1>4, <2>4, <3>1, <4>1
    <3>2. CASE n # k
      <4>1. n \in 0..(k - 1) /\ (n # 0 => n - 1 \in 0..(k - 1))
        BY <2>1, <3>2
      <4> QED
        BY <2>3, <2>4, <4>1
    <3> QED
      BY <3>1, <3>2
  <2>6. g = [n \in 0..k |-> g[n]]
    OBVIOUS
  <2> HIDE DEF g
  <2>7. RunsTo(run, stack, k, g)
    BY <2>5, <2>6 DEF RunsTo
  <2> QED
    BY <1>2, <2>7
<1> QED
  BY <1>3, <1>4

LEMMA MachinesFacts ==
    ASSUME NEW run, NEW stack, Len(run.script) \in Nat
    PROVE  /\ Machines(run, stack)[0] = Start(stack)
           /\ \A n \in 1..Len(run.script) :
                 Machines(run, stack)[n] =
                    Step(Machines(run, stack)[n - 1], run.script[n], run)
<1> DEFINE N == Len(run.script)
           m == Machines(run, stack)
<1>1. m = CHOOSE g : RunsTo(run, stack, N, g)
  BY DEF Machines, RunsTo
<1>2. RunsTo(run, stack, N, m)
  BY <1>1, RunsToExists
<1> HIDE DEF m
<1>3. \A n \in 0..N : m[n] = IF n = 0 THEN Start(stack)
                             ELSE Step(m[n - 1], run.script[n], run)
  BY <1>2 DEF RunsTo
<1>4. QED
  BY <1>3 DEF m
-----------------------------------------------------------------------------
(***************************************************************************)
(* The opcodes, on a machine that has not raised.                          *)
(***************************************************************************)
NothingRaised == TRUE

Machine(stack, exec) == [stack |-> stack, exec |-> exec, ok |-> NothingRaised]

LEMMA MachineParts ==
    ASSUME NEW s, NEW e
    PROVE  /\ Machine(s, e).stack = s /\ Machine(s, e).exec = e /\ Machine(s, e).ok
           /\ Start(s) = Machine(s, <<>>)
<1>1. Machine(s, e).ok
  BY Zenon DEF Machine, NothingRaised
<1>2. Start(s) = Machine(s, <<>>)
  BY Zenon DEF Machine, Start, NothingRaised
<1>3. QED
  BY <1>1, <1>2 DEF Machine

PutStack(m, stack) == [m EXCEPT !.stack = stack]
PutExec(m, exec) == [m EXCEPT !.exec = exec]

LEMMA MachinePut ==
    ASSUME NEW s, NEW e, NEW t
    PROVE  /\ PutStack(Machine(s, e), t) = Machine(t, e)
           /\ PutExec(Machine(s, e), t) = Machine(s, t)
BY DEF Machine, PutStack, PutExec

LEMMA AppendFacts ==
    ASSUME NEW T, NEW s \in Seq(T), NEW x \in T
    PROVE  /\ Append(s, x) \in Seq(T) /\ Len(Append(s, x)) = Len(s) + 1 /\ Len(s) \in Nat
           /\ Append(s, x) # <<>>
           /\ Last(Append(s, x)) = x /\ Append(s, x)[Len(s) + 1] = x
           /\ Front(Append(s, x)) = s /\ SubSeq(Append(s, x), 1, Len(s)) = s
<1>1. SubSeq(Append(s, x), 1, Len(s)) = s
  OBVIOUS
<1>2. QED
  BY <1>1 DEF Last, Front

(* Every condition around the next opcode holds.                           *)
Running(exec) == FALSE \notin Range(exec)

LEMMA RunningFacts == Running(<<>>) /\ Running(<<TRUE>>) /\ ~Running(<<FALSE>>)
<1>1. /\ <<TRUE>>[1] = TRUE /\ DOMAIN <<TRUE>> = {1} /\ <<FALSE>>[1] = FALSE
      /\ DOMAIN <<FALSE>> = {1} /\ DOMAIN <<>> = {}
  OBVIOUS
<1>2. QED
  BY <1>1 DEF Range, Running

LEMMA StepDispatch ==
    ASSUME NEW s, NEW e, Running(e), NEW op, op[1] \notin ControlOps, NEW run
    PROVE  Step(Machine(s, e), op, run) = DispatchOpcode(Machine(s, e), op, run)
<1>1. Machine(s, e).ok /\ Machine(s, e).exec = e
  BY MachineParts
<1>2. IsExecuting(Machine(s, e))
  BY <1>1 DEF IsExecuting, Running
<1>3. QED
  BY Zenon, <1>1, <1>2 DEF Step

LEMMA StepSkip ==
    ASSUME NEW s, NEW e, ~Running(e), NEW op, op[1] \notin ControlOps, NEW run
    PROVE  Step(Machine(s, e), op, run) = Machine(s, e)
<1>1. Machine(s, e).ok /\ Machine(s, e).exec = e
  BY MachineParts
<1>2. ~IsExecuting(Machine(s, e))
  BY <1>1 DEF IsExecuting, Running
<1>3. QED
  BY Zenon, <1>1, <1>2 DEF Step

LEMMA StepPush ==
    ASSUME NEW T, NEW s \in Seq(T), NEW e, Running(e), NEW v, NEW run
    PROVE  Step(Machine(s, e), Push(v), run) = Machine(Append(s, v), e)
<1> DEFINE m == Machine(s, e)
           t == Append(s, v)
<1>1. Push(v)[1] = "push" /\ Push(v)[2] = v /\ "push" \notin ControlOps
  BY DEF Push, ControlOps
<1>2. Step(m, Push(v), run) = DispatchOpcode(m, Push(v), run)
  BY <1>1, StepDispatch
<1>3. DispatchOpcode(m, Push(v), run) = Replace(m, 0, v)
  BY <1>1 DEF DispatchOpcode, HashOps
<1>4. Pop(m, 0) = s
  <2>1. SubSeq(s, 1, Len(s) - 0) = s
    OBVIOUS
  <2>2. QED
    BY <2>1, MachineParts DEF Pop
<1>5. Replace(m, 0, v) = PutStack(m, t)
  BY <1>4 DEF Replace, PutStack
<1> HIDE DEF t
<1>6. PutStack(m, t) = Machine(t, e)
  BY MachinePut
<1>7. QED
  BY <1>2, <1>3, <1>5, <1>6 DEF t

(* What a check makes of a stack whose operands are its last two elements. *)
Checked(m) == Check(m, 2, TRUE, FALSE)
Rejected(m) == Check(m, 2, FALSE, FALSE)
Verified(m) == Check(m, 2, TRUE, TRUE)

LEMMA CheckFacts ==
    ASSUME NEW T, NEW s \in Seq(T), NEW x \in T, NEW y \in T, NEW e
    PROVE  /\ Checked(Machine(Append(Append(s, x), y), e)) = Machine(Append(s, Num(1)), e)
           /\ Rejected(Machine(Append(Append(s, x), y), e)) = Machine(Append(s, Num(0)), e)
           /\ Verified(Machine(Append(Append(s, x), y), e)) = Machine(s, e)
<1> DEFINE m == Machine(Append(Append(s, x), y), e)
           one == Append(s, Num(1))
           zero == Append(s, Num(0))
<1>1. Append(s, x) \in Seq(T) /\ Len(Append(Append(s, x), y)) = Len(s) + 2 /\ Len(s) \in Nat
  BY AppendFacts
<1>2. SubSeq(Append(Append(s, x), y), 1, Len(s)) = s
  BY <1>1
<1>3. Pop(m, 2) = s
  <2>1. m.stack = Append(Append(s, x), y)
    BY MachineParts
  <2>2. Len(m.stack) - 2 = Len(s)
    BY <1>1, <2>1
  <2> HIDE DEF m
  <2>3. QED
    BY <1>2, <2>1, <2>2 DEF Pop
<1>4. /\ PutStack(m, one) = Machine(one, e)
      /\ PutStack(m, zero) = Machine(zero, e)
      /\ PutStack(m, s) = Machine(s, e)
  <2> HIDE DEF one, zero
  <2>1. QED
    BY MachinePut
<1>5. /\ Checked(m) = PutStack(m, one)
      /\ Rejected(m) = PutStack(m, zero)
      /\ Verified(m) = PutStack(m, s)
  <2> HIDE DEF m
  <2>1. /\ Checked(m) = Replace(m, 2, Num(1))
        /\ Rejected(m) = Replace(m, 2, Num(0))
        /\ Verified(m) = PutStack(m, Pop(m, 2))
    BY Zenon DEF Check, Checked, Rejected, Verified, PutStack
  <2>2. \A v : Replace(m, 2, v) = PutStack(m, Append(Pop(m, 2), v))
    BY DEF Replace, PutStack
  <2>3. QED
    BY <1>3, <2>1, <2>2
<1>6. QED
  BY <1>4, <1>5

LEMMA StepCheckSig ==
    ASSUME NEW T, NEW s \in Seq(T), NEW sig \in T, NEW key \in T, NEW e,
           Running(e), NEW run, sig = Sig(key, Sighash(run))
    PROVE  Step(Machine(Append(Append(s, sig), key), e), Op("CHECKSIG"), run) =
              Machine(Append(s, Num(1)), e)
<1> DEFINE t == Append(Append(s, sig), key)
           m == Machine(t, e)
           op == Op("CHECKSIG")
<1>1. op[1] = "CHECKSIG" /\ op[1] \notin ControlOps
  BY DEF Op, ControlOps
<1>2. /\ m.stack = t /\ Append(s, sig) \in Seq(T) /\ Len(t) = Len(s) + 2 /\ Len(s) \in Nat
      /\ Last(t) = key
  <2>1. m.stack = t
    BY MachineParts
  <2>2. Append(s, sig) \in Seq(T) /\ Len(Append(s, sig)) = Len(s) + 1 /\ Len(s) \in Nat
    BY AppendFacts
  <2>3. Len(t) = Len(Append(s, sig)) + 1 /\ Last(t) = key
    BY <2>2, AppendFacts
  <2>4. QED
    BY <2>1, <2>2, <2>3
<1>3. t[Len(t) - 1] = sig
  <2>1. Len(Append(s, sig)) = Len(s) + 1 /\ Append(s, sig)[Len(s) + 1] = sig
    BY AppendFacts
  <2>2. Len(t) - 1 = Len(s) + 1
    BY <1>2
  <2>3. Append(Append(s, sig), key)[Len(s) + 1] = Append(s, sig)[Len(s) + 1]
    BY <1>2, <2>1
  <2>4. QED
    BY <2>1, <2>2, <2>3
<1>4. Checked(m) = Machine(Append(s, Num(1)), e)
  BY CheckFacts
<1>5. Step(m, op, run) = DispatchOpcode(m, op, run)
  BY <1>1, StepDispatch
<1> HIDE DEF m, t, op
<1>6. DispatchOpcode(m, op, run) = OpCheckSig(m, run, FALSE)
  BY <1>1 DEF DispatchOpcode, HashOps
<1>7. ~(Len(m.stack) < 2)
  BY <1>2
<1>8. OpCheckSig(m, run, FALSE) = Checked(m)
  <2>1. m.stack[Len(m.stack) - 1] = Sig(Last(m.stack), Sighash(run))
    BY <1>2, <1>3
  <2>2. OpCheckSig(m, run, FALSE) =
           Check(m, 2, m.stack[Len(m.stack) - 1] = Sig(Last(m.stack), Sighash(run)), FALSE)
    BY <1>7 DEF OpCheckSig, Needs
  <2>3. QED
    BY Zenon, <2>1, <2>2 DEF Checked
<1>9. QED
  BY <1>4, <1>5, <1>6, <1>8 DEF m, t, op

LEMMA StepIf ==
    ASSUME NEW T, NEW s \in Seq(T), NEW x \in T, NEW run
    PROVE  /\ x # Num(0) => Step(Machine(Append(s, x), <<>>), Op("IF"), run) =
                               Machine(s, <<TRUE>>)
           /\ x = Num(0) => Step(Machine(Append(s, x), <<>>), Op("IF"), run) =
                               Machine(s, <<FALSE>>)
<1> DEFINE t == Append(s, x)
           m == Machine(t, <<>>)
           op == Op("IF")
<1>1. op[1] = "IF" /\ op[1] \in ControlOps
  BY DEF Op, ControlOps
<1>2. /\ m.stack = t /\ m.exec = <<>> /\ m.ok
      /\ Len(t) = Len(s) + 1 /\ Len(s) \in Nat /\ Last(t) = x /\ Front(t) = s
  <2>1. m.stack = t /\ m.exec = <<>> /\ m.ok
    BY MachineParts
  <2>2. QED
    BY <2>1, AppendFacts
<1>3. IsExecuting(m)
  BY <1>2, RunningFacts DEF IsExecuting, Running
<1>4. m = Machine(t, <<>>)
  OBVIOUS
<1> HIDE DEF m, t, op
<1>5. Step(m, op, run) = OpIf(m, FALSE)
  <2>1. Step(m, op, run) = HandleControlFlow(m, op)
    BY Zenon, <1>1, <1>2 DEF Step
  <2>2. HandleControlFlow(m, op) = OpIf(m, FALSE)
    BY <1>1 DEF HandleControlFlow
  <2>3. QED
    BY <2>1, <2>2
<1>6. OpIf(m, FALSE) =
         PutExec(PutStack(m, Front(m.stack)), Append(m.exec, CastToBool(Last(m.stack)) # FALSE))
  <2>1. ~(Len(m.stack) < 1)
    BY <1>2
  <2>2. QED
    BY Zenon, <1>3, <2>1 DEF OpIf, Needs, PutStack, PutExec
<1>7. OpIf(m, FALSE) = Machine(s, <<CastToBool(x) # FALSE>>)
  <2> DEFINE e == <<CastToBool(x) # FALSE>>
  <2>1. Append(<<>>, CastToBool(x) # FALSE) = e
    OBVIOUS
  <2>2. OpIf(m, FALSE) = PutExec(PutStack(m, s), e)
    BY <1>2, <1>6, <2>1
  <2> HIDE DEF e
  <2>3. PutExec(PutStack(m, s), e) = Machine(s, e)
    BY <1>4, MachinePut
  <2>4. QED
    BY <2>2, <2>3 DEF e
<1>8. CASE x # Num(0)
  <2>1. (CastToBool(x) # FALSE) = TRUE
    BY Zenon, <1>8 DEF CastToBool
  <2>2. QED
    BY Zenon, <1>5, <1>7, <1>8, <2>1 DEF m, t, op
<1>9. CASE x = Num(0)
  <2>1. (CastToBool(x) # FALSE) = FALSE
    BY Zenon, <1>9 DEF CastToBool
  <2>2. QED
    BY Zenon, <1>5, <1>7, <1>9, <2>1 DEF m, t, op
<1>10. QED
  BY <1>8, <1>9

(* The branches of a script that is in one conditional.                    *)
LEMMA StepElse ==
    ASSUME NEW s, NEW run
    PROVE  /\ Step(Machine(s, <<TRUE>>), Op("ELSE"), run) = Machine(s, <<FALSE>>)
           /\ Step(Machine(s, <<FALSE>>), Op("ELSE"), run) = Machine(s, <<TRUE>>)
<1>1. Op("ELSE")[1] = "ELSE" /\ Op("ELSE")[1] \in ControlOps
  BY DEF Op, ControlOps
<1>2. ASSUME NEW b \in BOOLEAN, NEW c \in BOOLEAN, c = ~b
      PROVE  Step(Machine(s, <<b>>), Op("ELSE"), run) = Machine(s, <<c>>)
  <2> DEFINE m == Machine(s, <<b>>)
             op == Op("ELSE")
             e == <<c>>
  <2>1. m.exec = <<b>> /\ m.ok
    BY MachineParts
  <2>2. Front(<<b>>) = <<>> /\ Last(<<b>>) = b /\ <<b>> # <<>> /\ Append(<<>>, c) = <<c>>
    BY DEF Front, Last
  <2>3. PutExec(m, e) = Machine(s, e)
    <3> HIDE DEF e
    <3>1. QED
      BY MachinePut
  <2> HIDE DEF m, op
  <2>4. Step(m, op, run) = HandleControlFlow(m, op)
    BY Zenon, <1>1, <2>1 DEF Step, op
  <2>5. HandleControlFlow(m, op) = OpElse(m)
    BY <1>1 DEF HandleControlFlow, op
  <2>6. OpElse(m) = PutExec(m, Append(Front(m.exec), ~Last(m.exec)))
    BY Zenon, <2>1, <2>2 DEF OpElse, PutExec
  <2>7. OpElse(m) = PutExec(m, Append(<<>>, c))
    BY Zenon, <1>2, <2>1, <2>2, <2>6
  <2>8. QED
    BY Zenon, <2>2, <2>3, <2>4, <2>5, <2>7 DEF m, op
<1>3. QED
  BY Zenon, <1>2

LEMMA StepEndIf ==
    ASSUME NEW s, NEW b, NEW run
    PROVE  Step(Machine(s, <<b>>), Op("ENDIF"), run) = Machine(s, <<>>)
<1> DEFINE m == Machine(s, <<b>>)
           op == Op("ENDIF")
<1>1. op[1] = "ENDIF" /\ op[1] \in ControlOps
  BY DEF Op, ControlOps
<1>2. m.exec = <<b>> /\ m.ok
  BY MachineParts
<1>3. Front(<<b>>) = <<>> /\ <<b>> # <<>>
  BY DEF Front
<1>4. PutExec(m, <<>>) = Machine(s, <<>>)
  BY MachinePut
<1> HIDE DEF m, op
<1>5. Step(m, op, run) = HandleControlFlow(m, op)
  BY Zenon, <1>1, <1>2 DEF Step
<1>6. HandleControlFlow(m, op) = OpEndIf(m)
  BY <1>1 DEF HandleControlFlow
<1>7. OpEndIf(m) = PutExec(m, <<>>)
  BY <1>2, <1>3 DEF OpEndIf, PutExec
<1>8. QED
  BY <1>4, <1>5, <1>6, <1>7 DEF m, op

LEMMA ShortSequences ==
    ASSUME NEW T, NEW a \in T, NEW b
    PROVE  /\ <<>> \in Seq(T) /\ <<a>> \in Seq(T)
           /\ Append(<<>>, a) = <<a>> /\ Append(<<a>>, b) = <<a, b>>
<1>1. <<>> \in Seq(T)
  OBVIOUS
<1>2. <<a>> \in Seq(T)
  OBVIOUS
<1>3. Append(<<>>, a) = <<a>>
  OBVIOUS
<1>4. Append(<<a>>, b) = <<a, b>>
  <2> DEFINE U == {a, b}
             s == Append(<<a>>, b)
             t == <<a, b>>
  <2>1. a \in U /\ b \in U
    OBVIOUS
  <2> HIDE DEF U
  <2>2. <<a>> \in Seq(U) /\ t \in Seq(U)
    BY <2>1
  <2>3. s \in Seq(U) /\ Len(s) = 2 /\ s[1] = a /\ s[2] = b
    BY <2>1, <2>2
  <2>4. Len(t) = 2 /\ t[1] = a /\ t[2] = b /\ 1..2 = {1, 2}
    OBVIOUS
  <2> HIDE DEF s, t
  <2>5. s = t
    BY <2>2, <2>3, <2>4, SeqEqual
  <2>6. QED
    BY <2>5 DEF s, t
<1>5. QED
  BY <1>1, <1>2, <1>3, <1>4

(***************************************************************************)
(* The penalty branch of a revocable output takes the signature of the     *)
(* revocation key.                                                         *)
(***************************************************************************)
LEMMA PenaltyExecutes ==
    ASSUME NEW revocation, NEW local, NEW delay, NEW tx, NEW i, NEW amount, NEW run,
           run = Run(RevocableOutput(revocation, local, delay), tx, i, amount)
    PROVE  Execute(run, <<Sig(revocation, Sighash(run)), Num(1)>>)
<1> DEFINE sig == Sig(revocation, Sighash(run))
           T == {sig, Num(1), revocation}
           m == Machines(run, <<sig, Num(1)>>)
<1>1. run.script = RevocableOutput(revocation, local, delay)
  BY DEF Run
<1>2. /\ Len(run.script) = 10
      /\ run.script[1] = Op("IF") /\ run.script[2] = Push(revocation)
      /\ run.script[3] = Op("CHECKSIG") /\ run.script[4] = Op("ELSE")
      /\ run.script[5] = Push(Num(delay)) /\ run.script[6] = Op("CSV")
      /\ run.script[7] = Op("DROP") /\ run.script[8] = Push(local)
      /\ run.script[9] = Op("CHECKSIG") /\ run.script[10] = Op("ENDIF")
  BY <1>1 DEF RevocableOutput
<1>3. /\ m[0] = Start(<<sig, Num(1)>>)
      /\ \A n \in 1..10 : m[n] = Step(m[n - 1], run.script[n], run)
  <2>1. Len(run.script) \in Nat
    BY <1>2
  <2> HIDE DEF sig
  <2>2. QED
    BY <1>2, <2>1, MachinesFacts
<1>4. /\ m[1] = Step(m[0], run.script[1], run) /\ m[2] = Step(m[1], run.script[2], run)
      /\ m[3] = Step(m[2], run.script[3], run) /\ m[4] = Step(m[3], run.script[4], run)
      /\ m[5] = Step(m[4], run.script[5], run) /\ m[6] = Step(m[5], run.script[6], run)
      /\ m[7] = Step(m[6], run.script[7], run) /\ m[8] = Step(m[7], run.script[8], run)
      /\ m[9] = Step(m[8], run.script[9], run) /\ m[10] = Step(m[9], run.script[10], run)
  BY <1>3
<1>5. /\ sig \in T /\ Num(1) \in T /\ revocation \in T
      /\ sig = Sig(revocation, Sighash(run))
  OBVIOUS
<1>6. Num(1) # Num(0)
  BY DEF Num
<1> HIDE DEF m, T, sig
<1>17. /\ <<>> \in Seq(T) /\ <<sig>> \in Seq(T)
       /\ Append(<<>>, sig) = <<sig>> /\ Append(<<sig>>, Num(1)) = <<sig, Num(1)>>
       /\ Append(<<>>, Num(1)) = <<Num(1)>>
  BY <1>5, ShortSequences
<1>7. m[0] = Machine(Append(<<sig>>, Num(1)), <<>>)
  BY <1>3, <1>17, MachineParts
<1>8. m[1] = Machine(<<sig>>, <<TRUE>>)
  <2>1. Step(Machine(Append(<<sig>>, Num(1)), <<>>), Op("IF"), run) = Machine(<<sig>>, <<TRUE>>)
    BY <1>5, <1>6, <1>17, StepIf, ZenonT(40)
  <2>2. QED
    BY Zenon, <1>2, <1>4, <1>7, <2>1
<1>9. m[2] = Machine(Append(Append(<<>>, sig), revocation), <<TRUE>>)
  <2>1. Step(Machine(<<sig>>, <<TRUE>>), Push(revocation), run) =
           Machine(Append(<<sig>>, revocation), <<TRUE>>)
    BY <1>17, StepPush, RunningFacts
  <2>2. QED
    BY Zenon, <1>2, <1>4, <1>8, <1>17, <2>1
<1>10. m[3] = Machine(<<Num(1)>>, <<TRUE>>)
  <2> DEFINE e == <<TRUE>>
             none == <<>>
  <2>1. Running(e) /\ none \in Seq(T)
    BY <1>17, RunningFacts
  <2> HIDE DEF e, none
  <2>2. Step(Machine(Append(Append(none, sig), revocation), e), Op("CHECKSIG"), run) =
           Machine(Append(none, Num(1)), e)
    BY <1>5, <2>1, StepCheckSig
  <2>3. QED
    BY Zenon, <1>2, <1>4, <1>9, <1>17, <2>2 DEF e, none
<1>11. m[4] = Machine(<<Num(1)>>, <<FALSE>>)
  BY <1>2, <1>4, <1>10, StepElse
<1>12. \A n \in 5..9 : run.script[n][1] \notin ControlOps
  BY <1>2 DEF Push, Op, ControlOps
<1>13. /\ m[5] = Machine(<<Num(1)>>, <<FALSE>>) /\ m[6] = Machine(<<Num(1)>>, <<FALSE>>)
       /\ m[7] = Machine(<<Num(1)>>, <<FALSE>>) /\ m[8] = Machine(<<Num(1)>>, <<FALSE>>)
       /\ m[9] = Machine(<<Num(1)>>, <<FALSE>>)
  <2> DEFINE q == Machine(<<Num(1)>>, <<FALSE>>)
  <2>1. \A n \in 5..9 : Step(q, run.script[n], run) = q
    BY <1>12, StepSkip, RunningFacts
  <2> HIDE DEF q
  <2>2. m[4] = q
    BY <1>11 DEF q
  <2>3. QED
    BY <1>4, <2>1, <2>2 DEF q
<1>14. m[10] = Machine(<<Num(1)>>, <<>>)
  BY <1>2, <1>4, <1>13, StepEndIf
<1>15. Succeeds(Machine(<<Num(1)>>, <<>>))
  <2>1. Last(<<Num(1)>>) = Num(1) /\ <<Num(1)>> # <<>>
    BY DEF Last
  <2>2. QED
    BY <1>6, <2>1, MachineParts DEF Succeeds, CastToBool
<1>16. QED
  BY <1>2, <1>14, <1>15 DEF Execute, m, sig

LEMMA WithoutThird ==
    ASSUME NEW a, NEW b, NEW c
    PROVE  SubSeq(<<a, b, c>>, 1, 2) = <<a, b>>
<1> DEFINE U == {a, b, c}
           w == <<a, b, c>>
           s == SubSeq(w, 1, 2)
           t == <<a, b>>
<1>1. a \in U /\ b \in U /\ c \in U
  OBVIOUS
<1> HIDE DEF U
<1>2. w \in Seq(U) /\ Len(w) = 3 /\ w[1] = a /\ w[2] = b
  BY <1>1
<1>3. t \in Seq(U) /\ Len(t) = 2 /\ t[1] = a /\ t[2] = b /\ 1..2 = {1, 2}
  BY <1>1
<1> HIDE DEF w, t
<1>4. s \in Seq(U) /\ Len(s) = 2 /\ s[1] = a /\ s[2] = b
  BY <1>2
<1> HIDE DEF s
<1>5. s = t
  BY <1>3, <1>4, SeqEqual
<1>6. QED
  BY <1>5 DEF s, t, w

(***************************************************************************)
(* What a signature is about does not depend on the witnesses.             *)
(***************************************************************************)
LEMMA SighashForm ==
    ASSUME NEW script, NEW v, NEW p, NEW s, NEW l, NEW o, NEW w, NEW i, NEW amount
    PROVE  Sighash(Run(script, Tx(v, p, s, l, o, w), i, amount)) =
              Run(script, Tx(v, p, s, l, o, <<>>), i, amount)
BY DEF Sighash, Run, Tx

(* A witness of three elements runs the script it ends with.               *)
LEMMA ScriptRuns ==
    ASSUME NEW script, NEW tx, NEW amount, NEW x, NEW y,
           tx.wit = <<<<x, y, ScriptItem(script)>>>>
    PROVE  /\ Execute(Run(script, tx, 1, amount), <<x, y>>) =>
                 VerifyTransactionWitness(tx, 1, P2wsh(script), amount)
           /\ VerifyTransactionWitness(tx, 1, P2wsh(script), amount) =>
                 Execute(Run(script, tx, 1, amount), <<x, y>>)
<1> DEFINE w == <<x, y, ScriptItem(script)>>
           job == <<script, <<x, y>>>>
<1>1. Len(tx.wit) = 1 /\ tx.wit[1] = w
  OBVIOUS
<1>2. /\ w # <<>> /\ Last(w) = ScriptItem(script) /\ Front(w) = <<x, y>>
  <2>1. Len(w) = 3 /\ w[3] = ScriptItem(script) /\ w[1] = x /\ w[2] = y
    OBVIOUS
  <2>2. SubSeq(w, 1, 2) = <<x, y>>
    BY WithoutThird
  <2>3. QED
    BY <2>1, <2>2 DEF Last, Front
<1>3. ScriptItem(script)[1] = "script" /\ ScriptItem(script)[2] = script
  BY DEF ScriptItem
<1> HIDE DEF w
<1>4. ScriptPath(Digest("SHA256", ScriptItem(script)), w) = job
  BY <1>2, <1>3 DEF ScriptPath
<1>5. ToRun(P2wsh(script), w) = job
  BY <1>4 DEF ToRun, P2wsh
<1>6. job # NoScript /\ job[1] = script /\ job[2] = <<x, y>>
  BY DEF NoScript
<1> HIDE DEF job
<1>7. QED
  BY <1>1, <1>5, <1>6 DEF VerifyTransactionWitness

LEMMA PenaltyVerifies ==
    ASSUME NEW revocation, NEW local, NEW delay, NEW tx, NEW amount, NEW script,
           script = RevocableOutput(revocation, local, delay),
           tx.wit = <<RemedyWitness(Sig(revocation, Sighash(Run(script, tx, 1, amount))),
                                    script)>>
    PROVE  VerifyTransactionWitness(tx, 1, P2wsh(script), amount)
<1> DEFINE run == Run(script, tx, 1, amount)
           sig == Sig(revocation, Sighash(run))
<1>1. Execute(run, <<sig, Num(1)>>)
  BY PenaltyExecutes
<1> HIDE DEF sig, run
<1>2. tx.wit = <<<<sig, Num(1), ScriptItem(script)>>>>
  BY DEF RemedyWitness, sig, run
<1>3. QED
  BY <1>1, <1>2, ScriptRuns DEF run

(***************************************************************************)
(* The refund branch of an HTLC does not run before its locktime.          *)
(***************************************************************************)
LEMMA StepRaised ==
    ASSUME NEW m, ~m.ok, NEW op, NEW run
    PROVE  ~Step(m, op, run).ok
BY Zenon DEF Step

LEMMA StepCltvEarly ==
    ASSUME NEW T, NEW s \in Seq(T), NEW l \in Nat, Num(l) \in T, NEW e, Running(e), NEW run,
           run.tx.locktime < l
    PROVE  ~Step(Machine(Append(s, Num(l)), e), Op("CLTV"), run).ok
<1> DEFINE t == Append(s, Num(l))
           m == Machine(t, e)
           op == Op("CLTV")
<1>1. op[1] = "CLTV" /\ op[1] \notin ControlOps
  BY DEF Op, ControlOps
<1>2. m.stack = t /\ Len(t) = Len(s) + 1 /\ Len(s) \in Nat /\ Last(t) = Num(l)
  <2>1. m.stack = t
    BY MachineParts
  <2>2. QED
    BY <2>1, AppendFacts
<1>3. Step(m, op, run) = DispatchOpcode(m, op, run)
  BY <1>1, StepDispatch
<1>4. ~Raised(m).ok
  <2>1. \A k : [m EXCEPT !.ok = k].ok = k
    BY DEF Machine
  <2>2. QED
    BY Zenon, <2>1 DEF Raised
<1> HIDE DEF m, t, op
<1>5. DispatchOpcode(m, op, run) = OpCltv(m, run)
  BY <1>1 DEF DispatchOpcode, HashOps
<1>6. OpCltv(m, run) = Raised(m)
  <2>1. ~(Len(m.stack) < 1) /\ Last(m.stack)[2] = l
    BY <1>2 DEF Num
  <2>2. QED
    BY <2>1 DEF OpCltv, Needs
<1>7. QED
  BY <1>3, <1>4, <1>5, <1>6 DEF m, t, op

LEMMA EarlyRefundFails ==
    ASSUME NEW sender, NEW receiver, NEW hash, NEW l \in Nat, NEW run, NEW sig,
           run.script = Htlc(sender, receiver, hash, l), run.tx.locktime < l
    PROVE  ~Execute(run, <<sig, Num(0)>>)
<1> DEFINE T == {sig, Num(0), Num(l)}
           m == Machines(run, <<sig, Num(0)>>)
           q == Machine(<<sig>>, <<FALSE>>)
<1>1. /\ Len(run.script) = 13
      /\ run.script[1] = Op("IF") /\ run.script[2] = Op("SHA256")
      /\ run.script[3] = Push(hash) /\ run.script[4] = Op("EQUALVERIFY")
      /\ run.script[5] = Push(receiver) /\ run.script[6] = Op("CHECKSIG")
      /\ run.script[7] = Op("ELSE") /\ run.script[8] = Push(Num(l))
      /\ run.script[9] = Op("CLTV")
  BY DEF Htlc
<1>2. /\ m[0] = Start(<<sig, Num(0)>>)
      /\ \A n \in 1..13 : m[n] = Step(m[n - 1], run.script[n], run)
  <2>1. Len(run.script) \in Nat
    BY <1>1
  <2>2. QED
    BY <1>1, <2>1, MachinesFacts
<1>3. /\ m[1] = Step(m[0], run.script[1], run) /\ m[2] = Step(m[1], run.script[2], run)
      /\ m[3] = Step(m[2], run.script[3], run) /\ m[4] = Step(m[3], run.script[4], run)
      /\ m[5] = Step(m[4], run.script[5], run) /\ m[6] = Step(m[5], run.script[6], run)
      /\ m[7] = Step(m[6], run.script[7], run) /\ m[8] = Step(m[7], run.script[8], run)
      /\ m[9] = Step(m[8], run.script[9], run) /\ m[10] = Step(m[9], run.script[10], run)
      /\ m[11] = Step(m[10], run.script[11], run) /\ m[12] = Step(m[11], run.script[12], run)
      /\ m[13] = Step(m[12], run.script[13], run)
  BY <1>2
<1>4. sig \in T /\ Num(0) \in T /\ Num(l) \in T
  OBVIOUS
<1> HIDE DEF m, T, q
<1>5. /\ <<sig>> \in Seq(T) /\ Append(<<sig>>, Num(0)) = <<sig, Num(0)>>
  BY <1>4, ShortSequences
<1>6. m[0] = Machine(Append(<<sig>>, Num(0)), <<>>)
  BY <1>2, <1>5, MachineParts
<1>7. m[1] = q
  <2>1. Step(Machine(Append(<<sig>>, Num(0)), <<>>), Op("IF"), run) = Machine(<<sig>>, <<FALSE>>)
    BY <1>4, <1>5, StepIf
  <2>2. QED
    BY Zenon, <1>1, <1>3, <1>6, <2>1 DEF q
<1>8. \A n \in 2..6 : run.script[n][1] \notin ControlOps
  BY <1>1 DEF Push, Op, ControlOps
<1>9. m[6] = q
  <2>1. \A n \in 2..6 : Step(q, run.script[n], run) = q
    BY <1>8, StepSkip, RunningFacts DEF q
  <2>2. QED
    BY <1>3, <1>7, <2>1
<1>10. m[7] = Machine(<<sig>>, <<TRUE>>)
  BY <1>1, <1>3, <1>9, StepElse DEF q
<1>11. m[8] = Machine(Append(<<sig>>, Num(l)), <<TRUE>>)
  <2>1. Step(Machine(<<sig>>, <<TRUE>>), Push(Num(l)), run) =
           Machine(Append(<<sig>>, Num(l)), <<TRUE>>)
    BY <1>5, StepPush, RunningFacts
  <2>2. QED
    BY Zenon, <1>1, <1>3, <1>10, <2>1
<1>12. ~m[9].ok
  <2>1. ~Step(Machine(Append(<<sig>>, Num(l)), <<TRUE>>), Op("CLTV"), run).ok
    BY <1>4, <1>5, StepCltvEarly, RunningFacts
  <2>2. QED
    BY Zenon, <1>1, <1>3, <1>11, <2>1
<1>13. ~m[10].ok
  BY <1>3, <1>12, StepRaised
<1>14. ~m[11].ok
  BY <1>3, <1>13, StepRaised
<1>15. ~m[12].ok
  BY <1>3, <1>14, StepRaised
<1>16. ~m[13].ok
  BY <1>3, <1>15, StepRaised
<1>17. QED
  BY <1>1, <1>16 DEF Execute, Succeeds, m

LEMMA EarlyRefundRejected ==
    ASSUME NEW sender, NEW receiver, NEW hash, NEW l \in Nat, NEW script, NEW tx, NEW sig,
           NEW amount, script = Htlc(sender, receiver, hash, l), tx.locktime < l,
           tx.wit = <<>> \/ tx.wit = <<RefundWitness(sig, script)>>
    PROVE  ~VerifyTransactionWitness(tx, 1, P2wsh(script), amount)
<1> DEFINE run == Run(script, tx, 1, amount)
<1>1. CASE tx.wit = <<>>
  <2>1. ~(1 <= Len(tx.wit))
    BY <1>1
  <2>2. QED
    BY <2>1 DEF VerifyTransactionWitness
<1>2. CASE tx.wit = <<RefundWitness(sig, script)>>
  <2>1. run.script = Htlc(sender, receiver, hash, l) /\ run.tx.locktime < l
    BY DEF Run
  <2> HIDE DEF run
  <2>2. ~Execute(run, <<sig, Num(0)>>)
    BY <2>1, EarlyRefundFails
  <2>3. tx.wit = <<<<sig, Num(0), ScriptItem(script)>>>>
    BY <1>2 DEF RefundWitness
  <2>4. QED
    BY <2>2, <2>3, ScriptRuns DEF run
<1>3. QED
  BY <1>1, <1>2

LEMMA AddUnlessDustForm ==
    ASSUME NEW v, NEW p, NEW s, NEW l, NEW o, NEW w, NEW amount, NEW spk
    PROVE  AddUnlessDust(Tx(v, p, s, l, o, w), amount, spk) =
              Tx(v, p, s, l, IF amount >= Dust THEN Append(o, Output(amount, spk)) ELSE o, w)
BY AddOutputForm DEF AddUnlessDust

LEMMA WithNoHtlcs ==
    ASSUME NEW tx
    PROVE  WithHtlcs(tx, <<>>) = tx
<1> DEFINE IsWith(g) == g = [n \in 0..Len(<<>>) |->
                                IF n = 0 THEN tx
                                ELSE AddUnlessDust(g[n - 1], <<>>[n][1], P2wsh(<<>>[n][2]))]
           some == CHOOSE g : IsWith(g)
<1>1. Len(<<>>) = 0 /\ 0..0 = {0}
  OBVIOUS
<1>2. \A g : IsWith(g) => g[0] = tx
  BY <1>1
<1>3. IsWith([n \in 0..0 |-> tx])
  BY <1>1
<1> HIDE DEF IsWith
<1>4. some[0] = tx
  BY <1>2, <1>3
<1>5. WithHtlcs(tx, <<>>) = some[Len(<<>>)]
  BY DEF WithHtlcs, IsWith
<1>6. QED
  BY <1>1, <1>4, <1>5

LEMMA TxInjective ==
    ASSUME NEW v, NEW p, NEW s, NEW l, NEW o, NEW w,
           NEW v2, NEW p2, NEW s2, NEW l2, NEW o2, NEW w2,
           Tx(v, p, s, l, o, w) = Tx(v2, p2, s2, l2, o2, w2)
    PROVE  v = v2 /\ p = p2 /\ s = s2 /\ l = l2 /\ o = o2 /\ w = w2
<1> DEFINE a == Tx(v, p, s, l, o, w)
           b == Tx(v2, p2, s2, l2, o2, w2)
<1>1. /\ a.version = v /\ a.ins[1].prev = p /\ a.ins[1].sequence = s /\ a.locktime = l
      /\ a.outs = o /\ a.wit = w
  BY TxParts
<1>2. /\ b.version = v2 /\ b.ins[1].prev = p2 /\ b.ins[1].sequence = s2 /\ b.locktime = l2
      /\ b.outs = o2 /\ b.wit = w2
  BY TxParts
<1>3. QED
  BY <1>1, <1>2

(* A sequence number that does not switch the locks off.                   *)
LowSequence(n) == Sequence(FALSE, n)

LEMMA LowSequenceParts ==
    ASSUME NEW n
    PROVE  LowSequence(n).low = n /\ ~LowSequence(n).disabled
<1>1. ~LowSequence(n).disabled
  BY Zenon DEF LowSequence, Sequence
<1>2. LowSequence(n).low = n
  BY DEF LowSequence, Sequence
<1>3. QED
  BY <1>1, <1>2

LEMMA FinalDisabled == Final.disabled
<1>1. \A n : Sequence(TRUE, n).disabled
  BY Zenon DEF Sequence
<1> DEFINE low == 65535
<1>2. Final = Sequence(TRUE, low)
  BY DEF Final
<1> HIDE DEF low
<1>3. QED
  BY Zenon, <1>1, <1>2

(* The first output and the first witness.                                 *)
LEMMA FirstWitness ==
    ASSUME NEW v, NEW p, NEW s, NEW l, NEW o, NEW stack
    PROVE  AddWitness(Tx(v, p, s, l, o, <<>>), stack) = Tx(v, p, s, l, o, <<stack>>)
<1> DEFINE none == <<>>
<1>1. Append(none, stack) = <<stack>>
  OBVIOUS
<1> HIDE DEF none
<1>2. AddWitness(Tx(v, p, s, l, o, none), stack) = Tx(v, p, s, l, o, Append(none, stack))
  BY AddWitnessForm
<1>3. QED
  BY Zenon, <1>1, <1>2 DEF none

LEMMA FirstOutput ==
    ASSUME NEW v, NEW p, NEW s, NEW l, NEW w, NEW amount, NEW spk
    PROVE  AddOutput(Tx(v, p, s, l, <<>>, w), amount, spk) =
              Tx(v, p, s, l, <<Output(amount, spk)>>, w)
<1> DEFINE none == <<>>
           out == Output(amount, spk)
<1>1. Append(none, out) = <<out>>
  OBVIOUS
<1> HIDE DEF none, out
<1>2. AddOutput(Tx(v, p, s, l, none, w), amount, spk) = Tx(v, p, s, l, Append(none, out), w)
  BY AddOutputForm DEF out
<1>3. QED
  BY Zenon, <1>1, <1>2 DEF none, out

LEMMA FirstUnlessDust ==
    ASSUME NEW v, NEW p, NEW s, NEW l, NEW w, NEW amount, NEW spk
    PROVE  AddUnlessDust(Tx(v, p, s, l, <<>>, w), amount, spk) =
              Tx(v, p, s, l, IF amount >= Dust THEN <<Output(amount, spk)>> ELSE <<>>, w)
BY FirstOutput DEF AddUnlessDust
=============================================================================
