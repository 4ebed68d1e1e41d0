--------------------------- MODULE SpendingProofs ---------------------------
(***************************************************************************)
(* Who gets in: what a witness must hold, whatever its length and whatever *)
(* else is in it, for the interpreter to accept it under each template.    *)
(***************************************************************************)
EXTENDS Spending, TransactionLemmas

(***************************************************************************)
(* The opcodes on any stack: what each leaves, and when it raises.         *)
(***************************************************************************)
LEMMA FailedParts ==
    ASSUME NEW s, NEW e
    PROVE  /\ Raised(Machine(s, e)).stack = s /\ Raised(Machine(s, e)).exec = e
           /\ ~Raised(Machine(s, e)).ok
<1>1. Raised(Machine(s, e)).stack = s /\ Raised(Machine(s, e)).exec = e
  BY DEF Raised, Machine
<1>2. ~Raised(Machine(s, e)).ok
  <2>1. \A k : [Machine(s, e) EXCEPT !.ok = k].ok = k
    BY DEF Machine
  <2>2. QED
    BY Zenon, <2>1 DEF Raised
<1>3. QED
  BY <1>1, <1>2

LEMMA AppendAny ==
    ASSUME NEW T, NEW s \in Seq(T), NEW x
    PROVE  /\ Append(s, x) \in Seq(T \cup {x}) /\ Len(Append(s, x)) = Len(s) + 1
           /\ Len(s) \in Nat /\ Append(s, x) # <<>>
           /\ Last(Append(s, x)) = x /\ Append(s, x)[Len(s) + 1] = x
           /\ Front(Append(s, x)) = s /\ SubSeq(Append(s, x), 1, Len(s)) = s
           /\ \A i \in 1..Len(s) : Append(s, x)[i] = s[i]
<1> DEFINE U == T \cup {x}
<1>1. s \in Seq(U) /\ x \in U
  BY SeqMonotonic
<1> HIDE DEF U
<1>2. QED
  BY <1>1, AppendFacts, AppendProperties DEF U

LEMMA TwoOnTop ==
    ASSUME NEW T, NEW s \in Seq(T), NEW x, NEW y
    PROVE  LET t == Append(Append(s, x), y)
           IN /\ Len(t) = Len(s) + 2 /\ Len(s) \in Nat /\ Last(t) = y
              /\ t[Len(t) - 1] = x /\ SubSeq(t, 1, Len(s)) = s
<1> DEFINE U == T \cup {x, y}
           t == Append(Append(s, x), y)
<1>1. s \in Seq(U) /\ x \in U /\ y \in U
  BY SeqMonotonic
<1> HIDE DEF U
<1>2. /\ Append(s, x) \in Seq(U) /\ Len(Append(s, x)) = Len(s) + 1 /\ Len(s) \in Nat
      /\ Append(s, x)[Len(s) + 1] = x
  BY <1>1, AppendFacts
<1>3. Len(t) = Len(s) + 2 /\ Last(t) = y
  <2> DEFINE a == Append(s, x)
  <2>1. a \in Seq(U) /\ Len(a) = Len(s) + 1
    BY <1>2
  <2> HIDE DEF a
  <2>2. Len(Append(a, y)) = Len(a) + 1 /\ Last(Append(a, y)) = y
    BY <1>1, <2>1, AppendFacts
  <2>3. QED
    BY <1>2, <2>1, <2>2 DEF a
<1>4. t[Len(s) + 1] = x
  BY <1>1, <1>2, AppendProperties
<1>5. SubSeq(t, 1, Len(s)) = s
  BY <1>1
<1>6. QED
  BY <1>2, <1>3, <1>4, <1>5

LEMMA NotEmpty ==
    ASSUME NEW T, NEW s \in Seq(T), s # <<>>
    PROVE  /\ Len(s) \in Nat /\ Len(s) >= 1
           /\ \E t \in Seq(T), x \in T : s = Append(t, x)
BY EmptySeq, SequenceEmptyOrAppend

LEMMA StepDrop ==
    ASSUME NEW T, NEW s \in Seq(T), NEW x, NEW e, Running(e), NEW run
    PROVE  Step(Machine(Append(s, x), e), Op("DROP"), run) = Machine(s, e)
<1> DEFINE t == Append(s, x)
           m0 == Machine(t, e)
           op == Op("DROP")
<1>1. op[1] = "DROP" /\ op[1] \notin ControlOps
  BY DEF Op, ControlOps
<1>2. m0.stack = t /\ Len(t) = Len(s) + 1 /\ Len(s) \in Nat /\ SubSeq(t, 1, Len(s)) = s
  <2>1. m0.stack = t
    BY MachineParts
  <2>2. QED
    BY <2>1, AppendAny
<1>3. Step(m0, op, run) = DispatchOpcode(m0, op, run)
  BY <1>1, StepDispatch
<1>4. PutStack(m0, s) = Machine(s, e)
  BY MachinePut
<1> HIDE DEF m0, t, op
<1>5. DispatchOpcode(m0, op, run) = Needs(m0, 1, PutStack(m0, Pop(m0, 1)))
  BY <1>1 DEF DispatchOpcode, HashOps, PutStack
<1>6. ~(Len(m0.stack) < 1) /\ Pop(m0, 1) = s
  BY <1>2 DEF Pop
<1>7. QED
  BY <1>3, <1>4, <1>5, <1>6 DEF m0, t, op, Needs

LEMMA StepHash ==
    ASSUME NEW T, NEW s \in Seq(T), NEW x, NEW e, Running(e), NEW run
    PROVE  Step(Machine(Append(s, x), e), Op("SHA256"), run) =
              Machine(Append(s, Digest("SHA256", x)), e)
<1> DEFINE t == Append(s, x)
           m0 == Machine(t, e)
           op == Op("SHA256")
           u == Append(s, Digest("SHA256", x))
<1>1. op[1] = "SHA256" /\ op[1] \notin ControlOps
  BY DEF Op, ControlOps
<1>2. /\ m0.stack = t /\ Len(t) = Len(s) + 1 /\ Len(s) \in Nat /\ SubSeq(t, 1, Len(s)) = s
      /\ Last(t) = x
  <2>1. m0.stack = t
    BY MachineParts
  <2>2. QED
    BY <2>1, AppendAny
<1>3. Step(m0, op, run) = DispatchOpcode(m0, op, run)
  BY <1>1, StepDispatch
<1>4. PutStack(m0, u) = Machine(u, e)
  BY MachinePut
<1> HIDE DEF m0, t, op
<1>5. DispatchOpcode(m0, op, run) =
         Needs(m0, 1, PutStack(m0, Append(Pop(m0, 1), Digest("SHA256", Last(m0.stack)))))
  BY <1>1 DEF DispatchOpcode, HashOps, PutStack, Replace
<1>6. ~(Len(m0.stack) < 1) /\ Pop(m0, 1) = s
  BY <1>2 DEF Pop
<1>7. QED
  BY <1>2, <1>3, <1>4, <1>5, <1>6 DEF m0, t, op, Needs

LEMMA StepEqualVerify ==
    ASSUME NEW T, NEW s \in Seq(T), NEW x, NEW y, NEW e, Running(e), NEW run
    PROVE  LET m0 == Machine(Append(Append(s, x), y), e)
           IN Step(m0, Op("EQUALVERIFY"), run) = IF x = y THEN Machine(s, e) ELSE Raised(m0)
<1> DEFINE t == Append(Append(s, x), y)
           m0 == Machine(t, e)
           op == Op("EQUALVERIFY")
<1>1. op[1] = "EQUALVERIFY" /\ op[1] \notin ControlOps
  BY DEF Op, ControlOps
<1>2. /\ m0.stack = t /\ Len(t) = Len(s) + 2 /\ Len(s) \in Nat /\ SubSeq(t, 1, Len(s)) = s
      /\ Last(t) = y /\ t[Len(t) - 1] = x
  <2>1. m0.stack = t
    BY MachineParts
  <2>2. QED
    BY <2>1, TwoOnTop
<1>3. Step(m0, op, run) = DispatchOpcode(m0, op, run)
  BY <1>1, StepDispatch
<1>4. PutStack(m0, s) = Machine(s, e)
  BY MachinePut
<1> HIDE DEF m0, t, op
<1>5. DispatchOpcode(m0, op, run) = OpEqual(m0, TRUE)
  <2>1. DispatchOpcode(m0, op, run) = OpEqual(m0, op[1] = "EQUALVERIFY")
    BY <1>1 DEF DispatchOpcode, HashOps
  <2>2. QED
    BY <1>1, <2>1
<1>6. ~(Len(m0.stack) < 2) /\ Pop(m0, 2) = s
  BY <1>2 DEF Pop
<1>7. OpEqual(m0, TRUE) = Check(m0, 2, Last(m0.stack) = m0.stack[Len(m0.stack) - 1], TRUE)
  BY <1>6 DEF OpEqual, Needs
<1>8. (Last(m0.stack) = m0.stack[Len(m0.stack) - 1]) <=> x = y
  BY <1>2
<1>9. OpEqual(m0, TRUE) = IF x = y THEN PutStack(m0, s) ELSE Raised(m0)
  BY <1>6, <1>7, <1>8, Zenon DEF Check, PutStack
<1>10. QED
  BY <1>3, <1>4, <1>5, <1>9 DEF m0, t, op

(* The two outcomes of CHECKSIG on a signature and a key.                  *)
LEMMA StepCheckSigAny ==
    ASSUME NEW T, NEW s \in Seq(T), NEW sig, NEW key, NEW e, Running(e), NEW run
    PROVE  Step(Machine(Append(Append(s, sig), key), e), Op("CHECKSIG"), run) =
              Machine(Append(s, IF sig = Sig(key, Sighash(run)) THEN Num(1) ELSE Num(0)), e)
<1> DEFINE t == Append(Append(s, sig), key)
           m0 == Machine(t, e)
           op == Op("CHECKSIG")
           good == sig = Sig(key, Sighash(run))
           u == Append(s, IF good THEN Num(1) ELSE Num(0))
<1>1. op[1] = "CHECKSIG" /\ op[1] \notin ControlOps
  BY DEF Op, ControlOps
<1>2. /\ m0.stack = t /\ Len(t) = Len(s) + 2 /\ Len(s) \in Nat /\ SubSeq(t, 1, Len(s)) = s
      /\ Last(t) = key /\ t[Len(t) - 1] = sig
  <2>1. m0.stack = t
    BY MachineParts
  <2>2. QED
    BY <2>1, TwoOnTop
<1>3. Step(m0, op, run) = DispatchOpcode(m0, op, run)
  BY <1>1, StepDispatch
<1>4. PutStack(m0, u) = Machine(u, e)
  BY MachinePut
<1> HIDE DEF m0, t, op
<1>5. DispatchOpcode(m0, op, run) = OpCheckSig(m0, run, FALSE)
  <2>1. DispatchOpcode(m0, op, run) = OpCheckSig(m0, run, op[1] = "CHECKSIGVERIFY")
    BY <1>1 DEF DispatchOpcode, HashOps
  <2>2. QED
    BY <1>1, <2>1
<1>6. ~(Len(m0.stack) < 2) /\ Pop(m0, 2) = s
  BY <1>2 DEF Pop
<1>7. OpCheckSig(m0, run, FALSE) = Check(m0, 2, good, FALSE)
  BY <1>2, <1>6 DEF OpCheckSig, Needs
<1> HIDE DEF good
<1>8. Check(m0, 2, good, FALSE) = PutStack(m0, u)
  BY <1>6, Zenon DEF Check, PutStack, Replace
<1>9. QED
  BY <1>3, <1>4, <1>5, <1>7, <1>8 DEF m0, t, op, good

(* The timelocks leave their operand.                                      *)
LEMMA StepCltv ==
    ASSUME NEW T, NEW s \in Seq(T), NEW l, NEW e, Running(e), NEW run
    PROVE  LET m0 == Machine(Append(s, Num(l)), e)
           IN Step(m0, Op("CLTV"), run) =
                 IF run.tx.ins[run.input].sequence = Final \/ run.tx.locktime < l
                 THEN Raised(m0) ELSE m0
<1> DEFINE t == Append(s, Num(l))
           m0 == Machine(t, e)
           op == Op("CLTV")
<1>1. op[1] = "CLTV" /\ op[1] \notin ControlOps
  BY DEF Op, ControlOps
<1>2. m0.stack = t /\ Len(t) = Len(s) + 1 /\ Len(s) \in Nat /\ Last(t) = Num(l)
  <2>1. m0.stack = t
    BY MachineParts
  <2>2. QED
    BY <2>1, AppendAny
<1>3. Step(m0, op, run) = DispatchOpcode(m0, op, run)
  BY <1>1, StepDispatch
<1> HIDE DEF m0, t, op
<1>4. DispatchOpcode(m0, op, run) = OpCltv(m0, run)
  BY <1>1 DEF DispatchOpcode, HashOps
<1>5. ~(Len(m0.stack) < 1) /\ Last(m0.stack)[2] = l
  BY <1>2 DEF Num
<1>6. OpCltv(m0, run) = IF run.tx.ins[run.input].sequence = Final \/ run.tx.locktime < l
                        THEN Raised(m0) ELSE m0
  BY <1>5, Zenon DEF OpCltv, Needs
<1>7. QED
  BY <1>3, <1>4, <1>6 DEF m0, t, op

LEMMA StepCsv ==
    ASSUME NEW T, NEW s \in Seq(T), NEW d, NEW e, Running(e), NEW run
    PROVE  LET m0 == Machine(Append(s, Num(d)), e)
               sequence == run.tx.ins[run.input].sequence
           IN Step(m0, Op("CSV"), run) =
                 IF sequence.disabled \/ sequence.low < d THEN Raised(m0) ELSE m0
<1> DEFINE t == Append(s, Num(d))
           m0 == Machine(t, e)
           op == Op("CSV")
           sequence == run.tx.ins[run.input].sequence
<1>1. op[1] = "CSV" /\ op[1] \notin ControlOps
  BY DEF Op, ControlOps
<1>2. m0.stack = t /\ Len(t) = Len(s) + 1 /\ Len(s) \in Nat /\ Last(t) = Num(d)
  <2>1. m0.stack = t
    BY MachineParts
  <2>2. QED
    BY <2>1, AppendAny
<1>3. Step(m0, op, run) = DispatchOpcode(m0, op, run)
  BY <1>1, StepDispatch
<1> HIDE DEF m0, t, op
<1>4. DispatchOpcode(m0, op, run) = OpCsv(m0, run)
  BY <1>1 DEF DispatchOpcode, HashOps
<1>5. ~(Len(m0.stack) < 1) /\ Last(m0.stack)[2] = d
  BY <1>2 DEF Num
<1>6. OpCsv(m0, run) = IF sequence.disabled \/ sequence.low < d THEN Raised(m0) ELSE m0
  BY <1>5, Zenon DEF OpCsv, Needs
<1>7. QED
  BY <1>3, <1>4, <1>6 DEF m0, t, op

LEMMA StepIfDup ==
    ASSUME NEW T, NEW s \in Seq(T), NEW x, NEW e, Running(e), NEW run
    PROVE  LET t == Append(s, x)
           IN Step(Machine(t, e), Op("IFDUP"), run) =
                 IF x # Num(0) THEN Machine(Append(t, x), e) ELSE Machine(t, e)
<1> DEFINE t == Append(s, x)
           m0 == Machine(t, e)
           op == Op("IFDUP")
           u == Append(t, x)
<1>1. op[1] = "IFDUP" /\ op[1] \notin ControlOps
  BY DEF Op, ControlOps
<1>2. /\ m0.stack = t /\ Len(t) = Len(s) + 1 /\ Len(s) \in Nat /\ Last(t) = x
      /\ SubSeq(t, 1, Len(t)) = t
  <2>1. m0.stack = t
    BY MachineParts
  <2>2. t \in Seq(T \cup {x})
    BY AppendAny
  <2>3. SubSeq(t, 1, Len(t)) = t
    BY <2>2, SubSeqFull
  <2> HIDE DEF m0
  <2>4. QED
    BY <2>1, <2>3, AppendAny, ZenonT(40)
<1>3. Step(m0, op, run) = DispatchOpcode(m0, op, run)
  BY <1>1, StepDispatch
<1>4. PutStack(m0, u) = Machine(u, e)
  BY MachinePut
<1> HIDE DEF m0, t, op
<1>5. DispatchOpcode(m0, op, run) = OpIfDup(m0)
  BY <1>1 DEF DispatchOpcode, HashOps
<1>6. ~(Len(m0.stack) < 1) /\ Pop(m0, 0) = t
  BY <1>2 DEF Pop
<1>7. Replace(m0, 0, Last(m0.stack)) = PutStack(m0, u)
  BY <1>2, <1>6, Zenon DEF Replace, PutStack
<1>8. OpIfDup(m0) = IF x # Num(0) THEN PutStack(m0, u) ELSE m0
  BY <1>2, <1>6, <1>7, Zenon DEF OpIfDup, Needs, CastToBool
<1>9. QED
  BY <1>3, <1>4, <1>5, <1>8 DEF m0, t, op

LEMMA StepNotIf ==
    ASSUME NEW T, NEW s \in Seq(T), NEW x \in T, NEW run
    PROVE  /\ x # Num(0) => Step(Machine(Append(s, x), <<>>), Op("NOTIF"), run) =
                               Machine(s, <<FALSE>>)
           /\ x = Num(0) => Step(Machine(Append(s, x), <<>>), Op("NOTIF"), run) =
                               Machine(s, <<TRUE>>)
<1> DEFINE t == Append(s, x)
           m0 == Machine(t, <<>>)
           op == Op("NOTIF")
<1>1. op[1] = "NOTIF" /\ op[1] \in ControlOps
  BY DEF Op, ControlOps
<1>2. /\ m0.stack = t /\ m0.exec = <<>> /\ m0.ok
      /\ Len(t) = Len(s) + 1 /\ Len(s) \in Nat /\ Last(t) = x /\ Front(t) = s
  <2>1. m0.stack = t /\ m0.exec = <<>> /\ m0.ok
    BY MachineParts, ZenonT(40)
  <2>2. QED
    BY <2>1, AppendFacts
<1>3. IsExecuting(m0)
  BY <1>2, RunningFacts DEF IsExecuting, Running
<1>4. m0 = Machine(t, <<>>)
  OBVIOUS
<1> HIDE DEF m0, t, op
<1>5. Step(m0, op, run) = OpIf(m0, TRUE)
  <2>1. Step(m0, op, run) = HandleControlFlow(m0, op)
    BY Zenon, <1>1, <1>2 DEF Step
  <2>2. HandleControlFlow(m0, op) = OpIf(m0, TRUE)
    BY <1>1 DEF HandleControlFlow
  <2>3. QED
    BY <2>1, <2>2
<1>6. OpIf(m0, TRUE) =
         PutExec(PutStack(m0, Front(m0.stack)), Append(m0.exec, CastToBool(Last(m0.stack)) # TRUE))
  <2>1. ~(Len(m0.stack) < 1)
    BY <1>2
  <2>2. QED
    BY Zenon, <1>3, <2>1 DEF OpIf, Needs, PutStack, PutExec
<1>7. OpIf(m0, TRUE) = Machine(s, <<CastToBool(x) # TRUE>>)
  <2> DEFINE e == <<CastToBool(x) # TRUE>>
  <2>1. Append(<<>>, CastToBool(x) # TRUE) = e
    OBVIOUS
  <2>2. OpIf(m0, TRUE) = PutExec(PutStack(m0, s), e)
    BY <1>2, <1>6, <2>1
  <2> HIDE DEF e
  <2>3. PutExec(PutStack(m0, s), e) = Machine(s, e)
    BY <1>4, MachinePut
  <2>4. QED
    BY <2>2, <2>3 DEF e
<1>8. CASE x # Num(0)
  <2>1. (CastToBool(x) # TRUE) = FALSE
    BY Zenon, <1>8 DEF CastToBool
  <2>2. QED
    BY Zenon, <1>5, <1>7, <1>8, <2>1 DEF m0, t, op
<1>9. CASE x = Num(0)
  <2>1. (CastToBool(x) # TRUE) = TRUE
    BY Zenon, <1>9 DEF CastToBool
  <2>2. QED
    BY Zenon, <1>5, <1>7, <1>9, <2>1 DEF m0, t, op
<1>10. QED
  BY <1>8, <1>9

(* Too few elements.                                                       *)
LEMMA StepStarved ==
    ASSUME NEW run
    PROVE  /\ Step(Machine(<<>>, <<>>), Op("IF"), run) = Raised(Machine(<<>>, <<>>))
           /\ \A e : Running(e) => Step(Machine(<<>>, e), Op("SHA256"), run) =
                                      Raised(Machine(<<>>, e))
           /\ \A e, key : Running(e) => Step(Machine(<<key>>, e), Op("CHECKSIG"), run) =
                                           Raised(Machine(<<key>>, e))
<1>1. Op("IF")[1] = "IF" /\ Op("IF")[1] \in ControlOps
  BY DEF Op, ControlOps
<1>2. Op("SHA256")[1] = "SHA256" /\ Op("SHA256")[1] \notin ControlOps
  BY DEF Op, ControlOps
<1>3. Op("CHECKSIG")[1] = "CHECKSIG" /\ Op("CHECKSIG")[1] \notin ControlOps
  BY DEF Op, ControlOps
<1>4. Step(Machine(<<>>, <<>>), Op("IF"), run) = Raised(Machine(<<>>, <<>>))
  <2> DEFINE m0 == Machine(<<>>, <<>>)
             op == Op("IF")
             none == <<>>
  <2>1. Len(none) < 1 /\ m0.ok /\ m0.stack = none /\ m0.exec = none
    BY MachineParts
  <2>2. IsExecuting(m0)
    BY <2>1, RunningFacts DEF IsExecuting, Running
  <2> HIDE DEF m0, op, none
  <2>3. Step(m0, op, run) = HandleControlFlow(m0, op)
    BY Zenon, <1>1, <2>1 DEF Step, op
  <2>4. HandleControlFlow(m0, op) = OpIf(m0, FALSE)
    BY <1>1 DEF HandleControlFlow, op
  <2>5. OpIf(m0, FALSE) = Raised(m0)
    BY Zenon, <2>1, <2>2 DEF OpIf, Needs
  <2>6. QED
    BY <2>3, <2>4, <2>5 DEF m0, op
<1>5. ASSUME NEW e, Running(e)
      PROVE  Step(Machine(<<>>, e), Op("SHA256"), run) = Raised(Machine(<<>>, e))
  <2> DEFINE m0 == Machine(<<>>, e)
             op == Op("SHA256")
             none == <<>>
  <2>1. Len(none) < 1 /\ m0.stack = none
    BY MachineParts
  <2>2. Step(m0, op, run) = DispatchOpcode(m0, op, run)
    BY <1>2, <1>5, StepDispatch
  <2> HIDE DEF m0, op, none
  <2>3. DispatchOpcode(m0, op, run) =
           Needs(m0, 1, Replace(m0, 1, Digest(op[1], Last(m0.stack))))
    BY <1>2 DEF DispatchOpcode, HashOps, op
  <2>4. QED
    BY Zenon, <2>1, <2>2, <2>3 DEF Needs, m0, op
<1>6. ASSUME NEW e, NEW key, Running(e)
      PROVE  Step(Machine(<<key>>, e), Op("CHECKSIG"), run) = Raised(Machine(<<key>>, e))
  <2> DEFINE m0 == Machine(<<key>>, e)
             op == Op("CHECKSIG")
             one == <<key>>
  <2>1. Len(one) < 2 /\ m0.stack = one
    BY MachineParts
  <2>2. Step(m0, op, run) = DispatchOpcode(m0, op, run)
    BY <1>3, <1>6, StepDispatch
  <2> HIDE DEF m0, op, one
  <2>3. DispatchOpcode(m0, op, run) = OpCheckSig(m0, run, op[1] = "CHECKSIGVERIFY")
    BY <1>3 DEF DispatchOpcode, HashOps, op
  <2>4. QED
    BY Zenon, <2>1, <2>2, <2>3 DEF OpCheckSig, Needs, m0, op
<1>7. QED
  BY <1>4, <1>5, <1>6
-----------------------------------------------------------------------------
(***************************************************************************)
(* CHECKMULTISIG on two keys under the number of keys and over the number  *)
(* of signatures, both 2: the two signatures are right below, in the order *)
(* of the keys.                                                            *)
(***************************************************************************)
Emptied(t) == [t EXCEPT !.empty = TRUE]
Matched(t) == [t EXCEPT !.matched = @ + 1]

NextTally(q, run, n, s, t, i) ==
    IF t.matched = s THEN t
    ELSE IF q[Len(q) - n - 1 - (t.matched + 1)] = Num(0) THEN Emptied(t)
    ELSE IF q[Len(q) - n - 1 - (t.matched + 1)] = Sig(q[Len(q) - i], Sighash(run))
         THEN Matched(t)
    ELSE t

IsTally(g, q, run, n, s) ==
    g = [i \in 0..n |-> IF i = 0 THEN [matched |-> 0, empty |-> FALSE]
                        ELSE NextTally(q, run, n, s, g[i - 1], i)]

Tally(q, run, n, s) == (CHOOSE g : IsTally(g, q, run, n, s))[n]

Multisig(m0, run, n, s) ==
    IF \/ Len(m0.stack) < 1 \/ Len(m0.stack) < n + 2 \/ Len(m0.stack) < n + s + 2
       \/ Tally(m0.stack, run, n, s).empty
    THEN Raised(m0)
    ELSE Check(m0, IF Len(m0.stack) > n + s + 2 THEN n + s + 2 + 1 ELSE n + s + 2,
               Tally(m0.stack, run, n, s).matched = s, FALSE)

LEMMA MultisigForm ==
    ASSUME NEW m0, NEW run
    PROVE  LET n == m0.stack[Len(m0.stack)][2]
               s == m0.stack[Len(m0.stack) - n - 1][2]
           IN OpCheckMultisig(m0, run, FALSE) = Multisig(m0, run, n, s)
BY DEF OpCheckMultisig, Multisig, Tally, IsTally, NextTally, Emptied, Matched

Counted(matched, empty) == [matched |-> matched, empty |-> empty]

LEMMA CountedParts ==
    ASSUME NEW k, NEW b
    PROVE  /\ Counted(k, b).matched = k /\ ~Counted(k, FALSE).empty
           /\ Emptied(Counted(k, b)) = Counted(k, TRUE)
<1>1. \A c : [Counted(k, b) EXCEPT !.empty = c] = Counted(k, c)
  BY DEF Counted
<1>2. Emptied(Counted(k, b)) = Counted(k, TRUE)
  BY Zenon, <1>1 DEF Emptied
<1>3. QED
  BY <1>2 DEF Counted

LEMMA CountedNext ==
    ASSUME NEW k, NEW b
    PROVE  Matched(Counted(k, b)) = Counted(k + 1, b)
<1>1. \A j : [Counted(k, b) EXCEPT !.matched = j] = Counted(j, b)
  BY DEF Counted
<1>2. QED
  BY Zenon, <1>1, CountedParts DEF Matched

LEMMA CountedMatched ==
    ASSUME NEW b
    PROVE  Matched(Counted(0, b)) = Counted(1, b) /\ Matched(Counted(1, b)) = Counted(2, b)
BY CountedNext

LEMMA TallyOfTwo ==
    ASSUME NEW q, NEW run
    PROVE  \E g : /\ g[0] = Counted(0, FALSE)
                  /\ g[1] = NextTally(q, run, 2, 2, g[0], 1)
                  /\ g[2] = NextTally(q, run, 2, 2, g[1], 2)
                  /\ Tally(q, run, 2, 2) = g[2]
<1> DEFINE c0 == Counted(0, FALSE)
           c1 == NextTally(q, run, 2, 2, c0, 1)
           c2 == NextTally(q, run, 2, 2, c1, 2)
           Is(g) == g = [i \in 0..2 |-> IF i = 0 THEN c0
                                        ELSE NextTally(q, run, 2, 2, g[i - 1], i)]
           h == [i \in 0..2 |-> IF i = 0 THEN c0 ELSE IF i = 1 THEN c1 ELSE c2]
           some == CHOOSE g : Is(g)
<1>1. Tally(q, run, 2, 2) = some[2]
  BY DEF Tally, IsTally, Counted
<1>2. 0..2 = {0, 1, 2}
  OBVIOUS
<1> HIDE DEF c0, c1, c2
<1>3. Is(h)
  <2>1. h[0] = c0 /\ h[1] = c1 /\ h[2] = c2
    BY <1>2
  <2>2. c1 = NextTally(q, run, 2, 2, h[0], 1) /\ c2 = NextTally(q, run, 2, 2, h[1], 2)
    BY <2>1 DEF c1, c2
  <2>3. \A i \in 0..2 : h[i] = IF i = 0 THEN c0 ELSE NextTally(q, run, 2, 2, h[i - 1], i)
    BY <1>2, <2>1, <2>2
  <2>4. h = [i \in 0..2 |-> h[i]]
    OBVIOUS
  <2> HIDE DEF h
  <2>5. QED
    BY <2>3, <2>4
<1>4. Is(some)
  BY <1>3
<1> HIDE DEF some
<1>5. some[0] = c0 /\ some[1] = NextTally(q, run, 2, 2, some[0], 1)
      /\ some[2] = NextTally(q, run, 2, 2, some[1], 2)
  BY <1>2, <1>4
<1>6. QED
  BY <1>1, <1>5 DEF c0

LEMMA TallyFacts ==
    ASSUME NEW q, NEW run, Len(q) \in Nat, NEW key1, NEW key2,
           q[Len(q) - 1] = key2, q[Len(q) - 2] = key1
    PROVE  LET first == q[Len(q) - 4] = Sig(key2, Sighash(run))
               second == q[Len(q) - 5] = Sig(key1, Sighash(run))
               tally == Tally(q, run, 2, 2)
           IN /\ (tally.matched = 2) => (first /\ second)
              /\ (first /\ second) => (tally.matched = 2 /\ ~tally.empty)
<1> DEFINE top == q[Len(q) - 4]
           next == q[Len(q) - 5]
           first == top = Sig(key2, Sighash(run))
           second == next = Sig(key1, Sighash(run))
<1>1. PICK g : /\ g[0] = Counted(0, FALSE)
               /\ g[1] = NextTally(q, run, 2, 2, g[0], 1)
               /\ g[2] = NextTally(q, run, 2, 2, g[1], 2)
               /\ Tally(q, run, 2, 2) = g[2]
  BY TallyOfTwo
<1>2. /\ Len(q) - 2 - 1 - (0 + 1) = Len(q) - 4 /\ Len(q) - 2 - 1 - (1 + 1) = Len(q) - 5
      /\ 0 # 2 /\ 1 # 2 /\ 1 = 0 + 1 /\ 2 = 1 + 1 /\ 3 = 2 + 1
  OBVIOUS
<1>3. \A k, m0 : Sig(k, m0) # Num(0)
  BY DEF Sig, Num
<1>4. \A b, i : NextTally(q, run, 2, 2, Counted(0, b), i) =
         IF top = Num(0) THEN Counted(0, TRUE)
         ELSE IF top = Sig(q[Len(q) - i], Sighash(run)) THEN Counted(1, b)
         ELSE Counted(0, b)
  <2> TAKE b, i
  <2>1. /\ Counted(0, b).matched = 0
        /\ Emptied(Counted(0, b)) = Counted(0, TRUE)
        /\ Matched(Counted(0, b)) = Counted(1, b)
    BY Zenon, CountedParts, CountedMatched
  <2>2. q[Len(q) - 2 - 1 - (Counted(0, b).matched + 1)] = top
    BY <1>2, <2>1
  <2> HIDE DEF top
  <2>3. QED
    BY Zenon, <1>2, <2>1, <2>2 DEF NextTally
<1>5. \A b, i : NextTally(q, run, 2, 2, Counted(1, b), i) =
         IF next = Num(0) THEN Counted(1, TRUE)
         ELSE IF next = Sig(q[Len(q) - i], Sighash(run)) THEN Counted(2, b)
         ELSE Counted(1, b)
  <2> TAKE b, i
  <2>1. /\ Counted(1, b).matched = 1
        /\ Emptied(Counted(1, b)) = Counted(1, TRUE)
        /\ Matched(Counted(1, b)) = Counted(2, b)
    BY Zenon, CountedParts, CountedMatched
  <2>2. q[Len(q) - 2 - 1 - (Counted(1, b).matched + 1)] = next
    BY <1>2, <2>1
  <2> HIDE DEF next
  <2>3. QED
    BY Zenon, <1>2, <2>1, <2>2 DEF NextTally
<1> HIDE DEF top, next
<1>6. g[1] = IF top = Num(0) THEN Counted(0, TRUE)
             ELSE IF first THEN Counted(1, FALSE)
             ELSE Counted(0, FALSE)
  BY Zenon, <1>1, <1>4
<1>7. CASE first
  <2>1. g[1] = Counted(1, FALSE)
    BY Zenon, <1>3, <1>6, <1>7
  <2>2. g[2] = IF next = Num(0) THEN Counted(1, TRUE)
               ELSE IF second THEN Counted(2, FALSE)
               ELSE Counted(1, FALSE)
    BY Zenon, <1>1, <1>5, <2>1
  <2>3. second => g[2] = Counted(2, FALSE)
    BY Zenon, <1>3, <2>2
  <2>4. ASSUME ~second
        PROVE  g[2].matched = 1
    <3>1. g[2] = Counted(1, TRUE) \/ g[2] = Counted(1, FALSE)
      BY Zenon, <2>2, <2>4
    <3>2. Counted(1, TRUE).matched = 1 /\ Counted(1, FALSE).matched = 1
      BY Zenon, <1>2, CountedParts
    <3>3. QED
      BY Zenon, <3>1, <3>2
  <2>5. ASSUME second
        PROVE  g[2].matched = 2 /\ ~g[2].empty
    <3>1. Counted(2, FALSE).matched = 2 /\ ~Counted(2, FALSE).empty
      BY Zenon, <1>2, CountedParts
    <3>2. QED
      BY Zenon, <2>3, <2>5, <3>1
  <2>6. QED
    BY Zenon, <1>1, <1>2, <1>7, <2>4, <2>5 DEF top, next
<1>8. CASE ~first
  <2>1. g[1] = Counted(0, TRUE) \/ g[1] = Counted(0, FALSE)
    BY Zenon, <1>6, <1>8
  <2>2. g[2].matched # 2
    <3>1. PICK b : g[1] = Counted(0, b)
      BY Zenon, <2>1
    <3>2. g[2] = Counted(0, TRUE) \/ g[2] = Counted(1, b) \/ g[2] = Counted(0, b)
      BY Zenon, <1>1, <1>4, <3>1
    <3>3. Counted(0, TRUE).matched = 0 /\ Counted(1, b).matched = 1 /\ Counted(0, b).matched = 0
      BY Zenon, <1>2, CountedParts
    <3>4. QED
      BY Zenon, <1>2, <3>2, <3>3
  <2>3. QED
    BY Zenon, <1>1, <1>8, <2>2 DEF top, next
<1>9. QED
  BY Zenon, <1>7, <1>8 DEF top, next

LEMMA StepMultisig ==
    ASSUME NEW T, NEW s \in Seq(T), NEW key1, NEW key2, NEW e, Running(e), NEW run
    PROVE  LET m0 == Machine(Append(Append(Append(Append(s, Num(2)), key1), key2), Num(2)), e)
               l == Len(s)
               signed == s[l] = Sig(key2, Sighash(run)) /\ s[l - 1] = Sig(key1, Sighash(run))
               left == SubSeq(s, 1, l - IF l > 2 THEN 3 ELSE 2)
               next == Step(m0, Op("CHECKMULTISIG"), run)
           IN \/ /\ next = Raised(m0)
                 /\ ~(l >= 2 /\ signed)
              \/ /\ next = Machine(Append(left, IF signed THEN Num(1) ELSE Num(0)), e)
                 /\ l >= 2
<1> DEFINE q == Append(Append(Append(Append(s, Num(2)), key1), key2), Num(2))
           U == T \cup {Num(2), key1, key2}
           m0 == Machine(q, e)
           l == Len(s)
           signed == s[l] = Sig(key2, Sighash(run)) /\ s[l - 1] = Sig(key1, Sighash(run))
           drop == IF l > 2 THEN 3 ELSE 2
           left == SubSeq(s, 1, l - drop)
           op == Op("CHECKMULTISIG")
           result == Append(left, IF signed THEN Num(1) ELSE Num(0))
           tally == Tally(q, run, 2, 2)
<1>1. op[1] = "CHECKMULTISIG" /\ op[1] \notin ControlOps
  BY DEF Op, ControlOps
<1>2. /\ q \in Seq(U) /\ Len(q) = l + 4 /\ l \in Nat
      /\ q[l + 1] = Num(2) /\ q[l + 2] = key1 /\ q[l + 3] = key2 /\ q[l + 4] = Num(2)
      /\ \A i \in 1..l : q[i] = s[i]
  <2>1. s \in Seq(U) /\ Num(2) \in U /\ key1 \in U /\ key2 \in U
    BY SeqMonotonic
  <2> HIDE DEF U
  <2> DEFINE q1 == Append(s, Num(2))
             q2 == Append(q1, key1)
             q3 == Append(q2, key2)
             q4 == Append(q3, Num(2))
  <2>2. /\ q1 \in Seq(U) /\ Len(q1) = l + 1 /\ l \in Nat /\ q1[l + 1] = Num(2)
        /\ \A i \in 1..l : q1[i] = s[i]
    BY <2>1, AppendProperties, LenProperties
  <2> HIDE DEF q1
  <2>3. /\ q2 \in Seq(U) /\ Len(q2) = l + 2 /\ q2[l + 2] = key1
        /\ \A i \in 1..(l + 1) : q2[i] = q1[i]
    <3>1. /\ q2 \in Seq(U) /\ Len(q2) = Len(q1) + 1 /\ q2[Len(q1) + 1] = key1
          /\ \A i \in 1..Len(q1) : q2[i] = q1[i]
      BY <2>1, <2>2, AppendProperties
    <3>2. QED
      BY <2>2, <3>1
  <2> HIDE DEF q2
  <2>4. /\ q3 \in Seq(U) /\ Len(q3) = l + 3 /\ q3[l + 3] = key2
        /\ \A i \in 1..(l + 2) : q3[i] = q2[i]
    <3>1. /\ q3 \in Seq(U) /\ Len(q3) = Len(q2) + 1 /\ q3[Len(q2) + 1] = key2
          /\ \A i \in 1..Len(q2) : q3[i] = q2[i]
      BY <2>1, <2>3, AppendProperties
    <3>2. QED
      BY <2>2, <2>3, <3>1
  <2> HIDE DEF q3
  <2>5. /\ q4 \in Seq(U) /\ Len(q4) = l + 4 /\ q4[l + 4] = Num(2)
        /\ \A i \in 1..(l + 3) : q4[i] = q3[i]
    <3>1. /\ q4 \in Seq(U) /\ Len(q4) = Len(q3) + 1 /\ q4[Len(q3) + 1] = Num(2)
          /\ \A i \in 1..Len(q3) : q4[i] = q3[i]
      BY <2>1, <2>4, AppendProperties
    <3>2. QED
      BY <2>2, <2>4, <3>1
  <2> HIDE DEF q4
  <2>6. /\ q4 \in Seq(U) /\ Len(q4) = l + 4 /\ l \in Nat
        /\ q4[l + 1] = Num(2) /\ q4[l + 2] = key1 /\ q4[l + 3] = key2 /\ q4[l + 4] = Num(2)
        /\ \A i \in 1..l : q4[i] = s[i]
    <3>1. l + 1 \in 1..(l + 1) /\ l + 1 \in 1..(l + 2) /\ l + 1 \in 1..(l + 3)
          /\ l + 2 \in 1..(l + 2) /\ l + 2 \in 1..(l + 3) /\ l + 3 \in 1..(l + 3)
      BY <2>2
    <3>2. \A i \in 1..l : i \in 1..(l + 1) /\ i \in 1..(l + 2) /\ i \in 1..(l + 3)
      BY <2>2
    <3>3. q4[l + 1] = Num(2) /\ q4[l + 2] = key1 /\ q4[l + 3] = key2
      BY <2>2, <2>3, <2>4, <2>5, <3>1
    <3>4. \A i \in 1..l : q4[i] = s[i]
      BY <2>2, <2>3, <2>4, <2>5, <3>2
    <3>5. QED
      BY <2>2, <2>5, <3>3, <3>4
  <2>7. QED
    BY <2>6 DEF q4, q3, q2, q1
<1>3. Step(m0, op, run) = DispatchOpcode(m0, op, run)
  BY <1>1, StepDispatch
<1> HIDE DEF q, result
<1>4. m0.stack = q /\ PutStack(m0, result) = Machine(result, e)
  BY MachineParts, MachinePut
<1> HIDE DEF m0, q, op, U, result, tally, signed
<1>5. DispatchOpcode(m0, op, run) = OpCheckMultisig(m0, run, FALSE)
  <2>1. DispatchOpcode(m0, op, run) = OpCheckMultisig(m0, run, op[1] = "CHECKMULTISIGVERIFY")
    BY <1>1 DEF DispatchOpcode, HashOps
  <2>2. QED
    BY <1>1, <2>1
<1>6. OpCheckMultisig(m0, run, FALSE) = Multisig(m0, run, 2, 2)
  <2>1. Num(2)[2] = 2
    BY DEF Num
  <2>2. q[Len(q)] = Num(2) /\ q[Len(q) - 2 - 1] = Num(2)
    BY <1>2
  <2>3. q[Len(q)][2] = 2 /\ q[Len(q) - q[Len(q)][2] - 1][2] = 2
    BY <2>1, <2>2
  <2>4. QED
    BY <1>4, <2>3, MultisigForm
<1>7. /\ (tally.matched = 2) => l < 2 \/ signed
      /\ (l >= 2 /\ signed) => (tally.matched = 2 /\ ~tally.empty)
  <2>1. q[Len(q) - 1] = key2 /\ q[Len(q) - 2] = key1 /\ Len(q) \in Nat
    BY <1>2
  <2>2. l >= 2 => q[Len(q) - 4] = s[l] /\ q[Len(q) - 5] = s[l - 1]
    BY <1>2
  <2>3. /\ (tally.matched = 2) => (/\ q[Len(q) - 4] = Sig(key2, Sighash(run))
                                   /\ q[Len(q) - 5] = Sig(key1, Sighash(run)))
        /\ (/\ q[Len(q) - 4] = Sig(key2, Sighash(run))
            /\ q[Len(q) - 5] = Sig(key1, Sighash(run)))
           => (tally.matched = 2 /\ ~tally.empty)
    BY <2>1, TallyFacts DEF tally
  <2>4. QED
    BY <1>2, <2>2, <2>3 DEF signed
<1>8. CASE l < 2 \/ tally.empty
  <2>1. Multisig(m0, run, 2, 2) = Raised(m0)
    <3>1. Len(m0.stack) < 2 + 2 + 2 \/ Tally(m0.stack, run, 2, 2).empty
      BY <1>2, <1>4, <1>8 DEF tally
    <3>2. QED
      BY Zenon, <3>1 DEF Multisig
  <2>2. ~(l >= 2 /\ signed)
    BY <1>2, <1>7, <1>8
  <2>3. QED
    BY <1>3, <1>5, <1>6, <2>1, <2>2 DEF m0, q, op, signed
<1>9. CASE ~(l < 2 \/ tally.empty)
  <2>1. ~(\/ Len(m0.stack) < 1 \/ Len(m0.stack) < 2 + 2 \/ Len(m0.stack) < 2 + 2 + 2
          \/ Tally(m0.stack, run, 2, 2).empty)
    BY <1>2, <1>4, <1>9 DEF tally
  <2>2. (IF Len(m0.stack) > 2 + 2 + 2 THEN 2 + 2 + 2 + 1 ELSE 2 + 2 + 2) = 4 + drop
    BY <1>2, <1>4, <1>9
  <2>3. (tally.matched = 2) <=> signed
    BY <1>2, <1>7, <1>9
  <2>4. Pop(m0, 4 + drop) = left
    <3>1. /\ Pop(m0, 4 + drop) = SubSeq(q, 1, l - drop) /\ l - drop \in 0..l
      <4>1. Len(q) - (4 + drop) = l - drop /\ l - drop \in 0..l
        BY <1>2, <1>9
      <4>2. QED
        BY <1>4, <4>1 DEF Pop
    <3> DEFINE k == l - drop
               a == SubSeq(q, 1, k)
               b == SubSeq(s, 1, k)
    <3>2. k \in 0..l /\ k \in Int /\ 1 \in Int
      BY <1>2, <3>1
    <3> HIDE DEF k
    <3>3. \A i \in 1..k : s[i] \in T /\ q[i] \in T /\ q[i] = s[i]
      <4> TAKE i \in 1..k
      <4>1. i \in 1..l
        BY <1>2, <3>2
      <4>2. QED
        BY <1>2, <4>1, ElementOfSeq
    <3>4. /\ a \in Seq(T) /\ Len(a) = (IF 1 <= k THEN k - 1 + 1 ELSE 0)
          /\ \A i \in 1..(k - 1 + 1) : a[i] = q[1 + i - 1]
      BY <3>2, <3>3, SubSeqProperties
    <3>5. /\ b \in Seq(T) /\ Len(b) = (IF 1 <= k THEN k - 1 + 1 ELSE 0)
          /\ \A i \in 1..(k - 1 + 1) : b[i] = s[1 + i - 1]
      BY <3>2, <3>3, SubSeqProperties
    <3> HIDE DEF a, b
    <3>6. Len(a) = k /\ Len(b) = k /\ \A i \in 1..k : a[i] = b[i]
      BY <1>2, <3>2, <3>3, <3>4, <3>5
    <3>7. a = b
      BY <3>4, <3>5, <3>6, SeqEqual
    <3>8. QED
      BY <3>1, <3>7 DEF a, b, k
  <2> HIDE DEF left, drop
  <2>5. Multisig(m0, run, 2, 2) = Check(m0, 4 + drop, tally.matched = 2, FALSE)
    BY <1>4, <2>1, <2>2, Zenon DEF Multisig, tally
  <2>6. Check(m0, 4 + drop, tally.matched = 2, FALSE) = PutStack(m0, result)
    BY <2>3, <2>4, Zenon DEF Check, PutStack, Replace, result
  <2>7. l >= 2
    BY <1>2, <1>9
  <2>8. QED
    BY <1>3, <1>4, <1>5, <1>6, <2>5, <2>6, <2>7, ZenonT(40) DEF m0, q, op, signed, result, left, drop
<1>10. QED
  BY <1>8, <1>9
-----------------------------------------------------------------------------
(***************************************************************************)
(* What a machine is after a part of a script: raised, or ended with the   *)
(* outcome of a check on top of a stack.                                   *)
(***************************************************************************)
Execs == {<<>>, <<TRUE>>, <<FALSE>>}

Fits(mm, n) == mm.ok \in BOOLEAN /\ mm.exec \in Execs /\ Len(mm.stack) <= n

Stuck(mm, n) == ~mm.ok /\ Fits(mm, n)

Decides(mm, T, e, n, good) ==
    \/ Stuck(mm, n) /\ ~good
    \/ \E t \in Seq(T) :
          Len(t) < n /\ mm = Machine(Append(t, IF good THEN Num(1) ELSE Num(0)), e)

LEMMA MachineFits ==
    ASSUME NEW s, NEW e \in Execs, NEW n, Len(s) <= n
    PROVE  Fits(Machine(s, e), n) /\ Stuck(Raised(Machine(s, e)), n)
<1>1. Machine(s, e).ok \in BOOLEAN
  BY Zenon DEF Machine, NothingRaised
<1>2. Raised(Machine(s, e)).ok \in BOOLEAN
  <2>1. \A k : [Machine(s, e) EXCEPT !.ok = k].ok = k
    BY DEF Machine
  <2>2. QED
    BY Zenon, <2>1 DEF Raised
<1>3. Fits(Machine(s, e), n)
  BY <1>1, MachineParts DEF Fits
<1>4. Fits(Raised(Machine(s, e)), n) /\ ~Raised(Machine(s, e)).ok
  BY <1>2, FailedParts DEF Fits
<1>5. QED
  BY <1>3, <1>4 DEF Stuck

LEMMA StuckStep ==
    ASSUME NEW mm, NEW n, Stuck(mm, n), NEW op, NEW run
    PROVE  Step(mm, op, run) = mm
BY Zenon DEF Stuck, Step

LEMMA DecidesFits ==
    ASSUME NEW mm, NEW T, NEW e \in Execs, NEW n \in Nat, NEW good, Decides(mm, T, e, n, good)
    PROVE  Fits(mm, n)
<1>1. CASE Stuck(mm, n)
  BY <1>1 DEF Stuck
<1>2. CASE ~Stuck(mm, n)
  <2>1. PICK t \in Seq(T) :
           Len(t) < n /\ mm = Machine(Append(t, IF good THEN Num(1) ELSE Num(0)), e)
    BY <1>2 DEF Decides
  <2> DEFINE u == Append(t, IF good THEN Num(1) ELSE Num(0))
  <2>2. Len(u) = Len(t) + 1 /\ Len(t) \in Nat
    BY AppendAny
  <2> HIDE DEF u
  <2>3. Len(u) <= n
    BY <2>1, <2>2
  <2>4. QED
    BY <2>1, <2>3, MachineFits DEF u
<1>3. QED
  BY <1>1, <1>2

LEMMA DecidesEndIf ==
    ASSUME NEW mm, NEW T, NEW b \in BOOLEAN, NEW n, NEW good, NEW run,
           Decides(mm, T, <<b>>, n, good)
    PROVE  Decides(Step(mm, Op("ENDIF"), run), T, <<>>, n, good)
<1>1. CASE Stuck(mm, n) /\ ~good
  BY <1>1, StuckStep DEF Decides
<1>2. CASE ~(Stuck(mm, n) /\ ~good)
  <2>1. PICK t \in Seq(T) :
           Len(t) < n /\ mm = Machine(Append(t, IF good THEN Num(1) ELSE Num(0)), <<b>>)
    BY <1>2 DEF Decides
  <2>2. Step(mm, Op("ENDIF"), run) = Machine(Append(t, IF good THEN Num(1) ELSE Num(0)), <<>>)
    BY <2>1, StepEndIf
  <2>3. QED
    BY <2>1, <2>2 DEF Decides
<1>3. QED
  BY <1>1, <1>2

LEMMA DecidesElse ==
    ASSUME NEW mm, NEW T, NEW n, NEW good, NEW run, Decides(mm, T, <<TRUE>>, n, good)
    PROVE  Decides(Step(mm, Op("ELSE"), run), T, <<FALSE>>, n, good)
<1>1. CASE Stuck(mm, n) /\ ~good
  BY <1>1, StuckStep DEF Decides
<1>2. CASE ~(Stuck(mm, n) /\ ~good)
  <2>1. PICK t \in Seq(T) :
           Len(t) < n /\ mm = Machine(Append(t, IF good THEN Num(1) ELSE Num(0)), <<TRUE>>)
    BY <1>2 DEF Decides
  <2>2. Step(mm, Op("ELSE"), run) =
           Machine(Append(t, IF good THEN Num(1) ELSE Num(0)), <<FALSE>>)
    BY <2>1, StepElse
  <2>3. QED
    BY <2>1, <2>2 DEF Decides
<1>3. QED
  BY <1>1, <1>2

LEMMA DecidesSkip ==
    ASSUME NEW mm, NEW T, NEW n, NEW good, NEW op, op[1] \notin ControlOps, NEW run,
           Decides(mm, T, <<FALSE>>, n, good)
    PROVE  Step(mm, op, run) = mm
<1>1. CASE Stuck(mm, n)
  BY <1>1, StuckStep
<1>2. CASE ~Stuck(mm, n)
  <2>1. PICK t \in Seq(T) :
           Len(t) < n /\ mm = Machine(Append(t, IF good THEN Num(1) ELSE Num(0)), <<FALSE>>)
    BY <1>2 DEF Decides
  <2>2. QED
    BY <2>1, StepSkip, RunningFacts
<1>3. QED
  BY <1>1, <1>2

LEMMA SucceedsOn ==
    ASSUME NEW T, NEW t \in Seq(T), NEW v
    PROVE  Succeeds(Machine(Append(t, v), <<>>)) <=> v # Num(0)
<1> DEFINE u == Append(t, v)
           mm == Machine(u, <<>>)
<1>1. u # <<>> /\ Last(u) = v
  BY AppendAny, ZenonT(40)
<1> HIDE DEF u
<1>2. mm.stack = u /\ mm.exec = <<>> /\ mm.ok
  BY MachineParts
<1> HIDE DEF mm
<1>3. QED
  BY Zenon, <1>1, <1>2 DEF Succeeds, CastToBool, mm, u

LEMMA DecidesSucceeds ==
    ASSUME NEW mm, NEW T, NEW n, NEW good \in BOOLEAN, Decides(mm, T, <<>>, n, good)
    PROVE  Succeeds(mm) <=> good
<1>1. CASE Stuck(mm, n) /\ ~good
  BY Zenon, <1>1 DEF Stuck, Succeeds
<1>2. CASE ~(Stuck(mm, n) /\ ~good)
  <2>1. PICK t \in Seq(T) :
           Len(t) < n /\ mm = Machine(Append(t, IF good THEN Num(1) ELSE Num(0)), <<>>)
    BY <1>2 DEF Decides
  <2>2. ~good => ~Succeeds(mm)
    <3> SUFFICES ASSUME ~good PROVE ~Succeeds(mm)
      OBVIOUS
    <3>1. mm = Machine(Append(t, Num(0)), <<>>)
      BY Zenon, <2>1
    <3>2. QED
      BY <3>1, SucceedsOn
  <2>3. good => Succeeds(mm)
    <3> SUFFICES ASSUME good PROVE Succeeds(mm)
      OBVIOUS
    <3>1. mm = Machine(Append(t, Num(1)), <<>>)
      BY Zenon, <2>1
    <3>2. Num(1) # Num(0)
      BY DEF Num
    <3>3. QED
      BY <3>1, <3>2, SucceedsOn
  <2>4. QED
    BY <2>2, <2>3
<1>3. QED
  BY <1>1, <1>2

LEMMA Unchanged ==
    ASSUME NEW a \in Nat, NEW b \in Nat, NEW f, NEW x, f[a] = x,
           \A i \in (a + 1)..b : f[i - 1] = x => f[i] = x
    PROVE  \A i \in a..b : f[i] = x
<1> DEFINE Bad == {i \in a..b : f[i] # x}
<1>1. SUFFICES ASSUME Bad # {} PROVE FALSE
  OBVIOUS
<1>2. Bad \in SUBSET Nat
  OBVIOUS
<1>3. PICK i \in Bad : \A j \in Bad : i <= j
  BY <1>1, <1>2, SmallestNat
<1>4. i \in (a + 1)..b /\ i - 1 \in a..b /\ ~(i <= i - 1)
  OBVIOUS
<1>5. i - 1 \notin Bad
  BY <1>3, <1>4
<1>6. QED
  BY <1>3, <1>4, <1>5
-----------------------------------------------------------------------------
(***************************************************************************)
(* The parts that the templates are made of: a check of a signature, of a  *)
(* preimage, and of a timelock.                                            *)
(***************************************************************************)
SignedFor(T, key, run) == {s \in Seq(T) : \E t \in Seq(T) : s = Append(t, Sig(key, Sighash(run)))}

LEMMA AppendSame ==
    ASSUME NEW T, NEW t \in Seq(T), NEW u \in Seq(T), NEW x, NEW y, Append(t, x) = Append(u, y)
    PROVE  t = u /\ x = y
<1> DEFINE U == T \cup {x, y}
<1>1. t \in Seq(U) /\ u \in Seq(U) /\ x \in U /\ y \in U
  BY SeqMonotonic
<1> HIDE DEF U
<1>2. QED
  BY <1>1, AppendInjective

LEMMA SigSegment ==
    ASSUME NEW T, NEW s \in Seq(T), NEW e \in Execs, Running(e), NEW n \in Nat, Len(s) < n,
           NEW run, NEW key, NEW a1, NEW a2,
           a1 = Step(Machine(s, e), Push(key), run), a2 = Step(a1, Op("CHECKSIG"), run)
    PROVE  Fits(a1, n) /\ Fits(a2, n) /\ Decides(a2, T, e, n, s \in SignedFor(T, key, run))
<1> DEFINE sig == Sig(key, Sighash(run))
           good == s \in SignedFor(T, key, run)
<1>1. a1 = Machine(Append(s, key), e)
  BY StepPush
<1>2. Len(Append(s, key)) = Len(s) + 1 /\ Len(s) \in Nat
  BY AppendAny
<1>3. Fits(a1, n) /\ Stuck(Raised(a1), n)
  <2> DEFINE u == Append(s, key)
  <2>1. Len(u) <= n
    BY <1>2
  <2> HIDE DEF u
  <2>2. QED
    BY <1>1, <2>1, MachineFits DEF u
<1>4. Decides(a2, T, e, n, good)
  <2>1. CASE s = <<>>
    <3>1. Append(s, key) = <<key>>
      BY <2>1
    <3>2. a2 = Raised(a1)
      BY <1>1, <3>1, StepStarved
    <3>3. ~good
      <4> SUFFICES ASSUME good PROVE FALSE
        OBVIOUS
      <4>1. PICK t \in Seq(T) : s = Append(t, sig)
        BY DEF SignedFor
      <4>2. Append(t, sig) # <<>>
        BY AppendAny
      <4>3. QED
        BY <2>1, <4>1, <4>2
    <3>4. QED
      BY <1>3, <3>2, <3>3 DEF Decides
  <2>2. CASE s # <<>>
    <3>1. PICK t \in Seq(T), x \in T : s = Append(t, x)
      BY <2>2, NotEmpty
    <3>2. a2 = Machine(Append(t, IF x = sig THEN Num(1) ELSE Num(0)), e)
      BY <1>1, <3>1, StepCheckSigAny
    <3>3. good <=> x = sig
      <4>1. ASSUME good PROVE x = sig
        <5>1. PICK u \in Seq(T) : s = Append(u, sig)
          BY <4>1 DEF SignedFor
        <5>2. Append(t, x) = Append(u, sig)
          BY <3>1, <5>1
        <5> HIDE DEF sig
        <5>3. QED
          BY <5>2, AppendSame
      <4>2. ASSUME x = sig PROVE good
        BY <3>1, <4>2 DEF SignedFor
      <4>3. QED
        BY <4>1, <4>2
    <3>4. Len(t) < n
      <4>1. Len(s) = Len(t) + 1 /\ Len(t) \in Nat
        BY <3>1, AppendFacts
      <4>2. QED
        BY <4>1
    <3>5. a2 = Machine(Append(t, IF good THEN Num(1) ELSE Num(0)), e)
      BY <3>2, <3>3
    <3> HIDE DEF good
    <3>6. QED
      BY <3>4, <3>5 DEF Decides
  <2>3. QED
    BY <2>1, <2>2
<1>5. Fits(a2, n)
  BY <1>4, DecidesFits
<1>6. QED
  BY <1>3, <1>4, <1>5

(* What a hash check lets through: the stack below the preimage.           *)
LEMMA HashSegment ==
    ASSUME NEW T, NEW s \in Seq(T), NEW e \in Execs, Running(e), NEW n \in Nat, Len(s) < n,
           NEW run, NEW hash, NEW a1, NEW a2, NEW a3,
           a1 = Step(Machine(s, e), Op("SHA256"), run), a2 = Step(a1, Push(hash), run),
           a3 = Step(a2, Op("EQUALVERIFY"), run)
    PROVE  /\ Fits(a1, n) /\ Fits(a2, n) /\ Fits(a3, n)
           /\ \/ /\ Stuck(a3, n)
                 /\ \A t \in Seq(T), x \in T : s = Append(t, x) => Digest("SHA256", x) # hash
              \/ \E t \in Seq(T), x \in T :
                    /\ s = Append(t, x) /\ Digest("SHA256", x) = hash /\ Len(t) < n
                    /\ a3 = Machine(t, e)
<1>1. CASE s = <<>>
  <2>1. Stuck(a1, n)
    <3>1. a1 = Raised(Machine(s, e))
      BY <1>1, StepStarved
    <3>2. QED
      BY <3>1, MachineFits
  <2>2. a2 = a1 /\ a3 = a2
    BY <2>1, StuckStep
  <2>3. \A t \in Seq(T), x \in T : s # Append(t, x)
    BY <1>1, AppendFacts
  <2>4. QED
    BY <2>1, <2>2, <2>3 DEF Stuck
<1>2. CASE s # <<>>
  <2>1. PICK t \in Seq(T), x \in T : s = Append(t, x)
    BY <1>2, NotEmpty
  <2> DEFINE d == Digest("SHA256", x)
             U == T \cup {d}
  <2>2. Len(s) = Len(t) + 1 /\ Len(t) \in Nat
    BY <2>1, AppendFacts
  <2>3. a1 = Machine(Append(t, d), e)
    BY <2>1, StepHash
  <2> HIDE DEF d
  <2>4. /\ Append(t, d) \in Seq(U) /\ Len(Append(t, d)) = Len(t) + 1
        /\ Len(Append(Append(t, d), hash)) = Len(t) + 2
    BY AppendAny, TwoOnTop
  <2> HIDE DEF U
  <2>5. a2 = Machine(Append(Append(t, d), hash), e)
    BY <2>3, <2>4, StepPush, ZenonT(40)
  <2>6. a3 = IF d = hash THEN Machine(t, e) ELSE Raised(a2)
    BY <2>5, StepEqualVerify
  <2>7. Fits(a1, n)
    <3>1. Len(Append(t, d)) <= n
      BY <2>2, <2>4
    <3>2. QED
      BY <2>3, <3>1, MachineFits
  <2>8. Fits(a2, n) /\ Stuck(Raised(a2), n)
    <3> DEFINE u == Append(Append(t, d), hash)
    <3>1. Len(u) <= n
      BY <2>2, <2>4
    <3> HIDE DEF u
    <3>2. QED
      BY <2>5, <3>1, MachineFits DEF u
  <2>9. Fits(Machine(t, e), n) /\ Len(t) < n
    <3>1. Len(t) < n /\ Len(t) <= n
      BY <2>2
    <3>2. QED
      BY <3>1, MachineFits
  <2>10. CASE d = hash
    BY <2>1, <2>6, <2>7, <2>8, <2>9, <2>10 DEF d
  <2>11. CASE d # hash
    <3>1. \A u \in Seq(T), y \in T : s = Append(u, y) => y = x
      <4>1. SUFFICES ASSUME NEW u \in Seq(T), NEW y \in T, s = Append(u, y)
                     PROVE  y = x
        OBVIOUS
      <4>2. Append(t, x) = Append(u, y)
        BY <2>1, <4>1
      <4>3. QED
        BY <4>2, AppendSame
    <3>2. QED
      BY <2>6, <2>7, <2>8, <2>11, <3>1 DEF d, Stuck
  <2>12. QED
    BY <2>10, <2>11
<1>3. QED
  BY <1>1, <1>2

(* The transaction is past a timelock, absolute or relative.               *)
Past(lock, l, run) ==
    LET sequence == run.tx.ins[run.input].sequence
    IN IF lock = "CLTV" THEN sequence # Final /\ ~(run.tx.locktime < l)
       ELSE ~sequence.disabled /\ ~(sequence.low < l)

LEMMA StepLock ==
    ASSUME NEW T, NEW s \in Seq(T), NEW l, NEW lock \in {"CLTV", "CSV"}, NEW e, Running(e), NEW run
    PROVE  LET m0 == Machine(Append(s, Num(l)), e)
           IN /\ Past(lock, l, run) => Step(m0, Op(lock), run) = m0
              /\ ~Past(lock, l, run) => Step(m0, Op(lock), run) = Raised(m0)
<1>1. CASE lock = "CLTV"
  BY <1>1, StepCltv, Zenon DEF Past
<1>2. CASE lock = "CSV"
  <2>1. "CSV" # "CLTV"
    OBVIOUS
  <2>2. QED
    BY <1>2, <2>1, StepCsv, Zenon DEF Past
<1>3. QED
  BY <1>1, <1>2

LEMMA LockSegment ==
    ASSUME NEW T, NEW s \in Seq(T), NEW e \in Execs, Running(e), NEW n \in Nat, Len(s) < n,
           NEW run, NEW l, NEW lock \in {"CLTV", "CSV"}, NEW key,
           NEW a1, NEW a2, NEW a3, NEW a4, NEW a5,
           a1 = Step(Machine(s, e), Push(Num(l)), run), a2 = Step(a1, Op(lock), run),
           a3 = Step(a2, Op("DROP"), run), a4 = Step(a3, Push(key), run),
           a5 = Step(a4, Op("CHECKSIG"), run)
    PROVE  /\ Fits(a1, n) /\ Fits(a2, n) /\ Fits(a3, n) /\ Fits(a4, n) /\ Fits(a5, n)
           /\ Decides(a5, T, e, n, Past(lock, l, run) /\ s \in SignedFor(T, key, run))
<1>1. a1 = Machine(Append(s, Num(l)), e)
  BY StepPush
<1>2. Fits(a1, n) /\ Stuck(Raised(a1), n)
  <2> DEFINE u == Append(s, Num(l))
  <2>1. Len(u) = Len(s) + 1 /\ Len(s) \in Nat
    BY AppendAny
  <2>2. Len(u) <= n
    BY <2>1
  <2> HIDE DEF u
  <2>3. QED
    BY <1>1, <2>2, MachineFits DEF u
<1>3. CASE Past(lock, l, run)
  <2>1. a2 = a1
    BY <1>1, <1>3, StepLock
  <2>2. a3 = Machine(s, e)
    BY <1>1, <2>1, StepDrop
  <2>3. Fits(a3, n)
    <3>1. Len(s) \in Nat /\ Len(s) <= n
      BY LenProperties
    <3>2. QED
      BY <2>2, <3>1, MachineFits
  <2>4. Fits(a4, n) /\ Fits(a5, n) /\ Decides(a5, T, e, n, s \in SignedFor(T, key, run))
    BY <2>2, SigSegment
  <2>5. (Past(lock, l, run) /\ s \in SignedFor(T, key, run)) <=> s \in SignedFor(T, key, run)
    BY <1>3
  <2>6. Decides(a5, T, e, n, Past(lock, l, run) /\ s \in SignedFor(T, key, run))
    BY <2>4, <2>5, Zenon DEF Decides
  <2>7. QED
    BY <1>2, <2>1, <2>3, <2>4, <2>6
<1>4. CASE ~Past(lock, l, run)
  <2>1. a2 = Raised(a1)
    BY <1>1, <1>4, StepLock
  <2>2. Stuck(a2, n)
    BY <1>2, <2>1
  <2>3. a3 = a2 /\ a4 = a2 /\ a5 = a2
    BY <2>2, StuckStep
  <2>4. QED
    BY <1>2, <1>4, <2>2, <2>3 DEF Stuck, Decides
<1>5. QED
  BY <1>3, <1>4

(***************************************************************************)
(* A script of two branches. Each is known by the stacks it accepts; the   *)
(* selector on top of the stack says which one that is.                    *)
(***************************************************************************)
Chosen(T, first, second) ==
    {w \in Seq(T) : \E s \in Seq(T), x \in T :
        /\ w = Append(s, x)
        /\ IF x # Num(0) THEN s \in first ELSE s \in second}

RunsFrom(f, w, run) ==
    /\ f[0] = Machine(w, <<>>)
    /\ \A i \in 1..Len(run.script) : f[i] = Step(f[i - 1], run.script[i], run)

TwoBranches(script, k) ==
    /\ Len(script) = k + 7
    /\ script[1] = Op("IF") /\ script[k + 1] = Op("ELSE") /\ script[k + 7] = Op("ENDIF")
    /\ \A i \in (2..k) \cup ((k + 2)..(k + 6)) : script[i][1] \notin ControlOps

Branch(f, from, to, T, n, accepted) ==
    \A s \in Seq(T) :
        Len(s) < n /\ f[from] = Machine(s, <<TRUE>>) =>
           /\ \A i \in from..to : Fits(f[i], n)
           /\ Decides(f[to], T, <<TRUE>>, n, s \in accepted)

LEMMA Conditional ==
    ASSUME NEW T, NEW w \in Seq(T), NEW n \in Nat, Len(w) < n, NEW run, NEW f,
           NEW k \in Nat, k >= 1, NEW first, NEW second,
           RunsFrom(f, w, run), TwoBranches(run.script, k),
           Branch(f, 1, k, T, n, first), Branch(f, k + 1, k + 6, T, n, second)
    PROVE  /\ \A i \in 0..(k + 7) : Fits(f[i], n)
           /\ Decides(f[k + 7], T, <<>>, n, w \in Chosen(T, first, second))
<1>1. Execs = {<<>>, <<TRUE>>, <<FALSE>>}
  BY DEF Execs
<1>2. Len(w) \in Nat /\ Fits(f[0], n)
  <2>1. Len(w) \in Nat /\ Len(w) <= n
    BY LenProperties
  <2>2. QED
    BY <1>1, <2>1, MachineFits DEF RunsFrom
<1>3. /\ f[1] = Step(f[0], Op("IF"), run) /\ f[k + 1] = Step(f[k], Op("ELSE"), run)
      /\ f[k + 7] = Step(f[k + 6], Op("ENDIF"), run)
  <2>1. 1 \in 1..(k + 7) /\ k + 1 \in 1..(k + 7) /\ k + 7 \in 1..(k + 7)
    OBVIOUS
  <2>2. k + 1 - 1 = k /\ k + 7 - 1 = k + 6 /\ 1 - 1 = 0
    OBVIOUS
  <2> DEFINE s == run.script
  <2>3. \A i \in 1..(k + 7) : f[i] = Step(f[i - 1], s[i], run)
    BY DEF RunsFrom, TwoBranches
  <2>4. s[1] = Op("IF") /\ s[k + 1] = Op("ELSE") /\ s[k + 7] = Op("ENDIF")
    BY DEF TwoBranches
  <2> HIDE DEF s
  <2>5. /\ f[1] = Step(f[1 - 1], s[1], run)
        /\ f[k + 1] = Step(f[k + 1 - 1], s[k + 1], run)
        /\ f[k + 7] = Step(f[k + 7 - 1], s[k + 7], run)
    BY <2>1, <2>3
  <2>6. QED
    BY <2>2, <2>4, <2>5
<1>4. CASE w = <<>>
  <2>1. Stuck(f[1], n)
    <3>1. f[1] = Raised(f[0])
      BY <1>3, <1>4, StepStarved DEF RunsFrom
    <3>2. Len(w) <= n
      BY <1>2
    <3>3. QED
      BY <1>1, <3>1, <3>2, MachineFits DEF RunsFrom
  <2>2. \A i \in 1..(k + 7) : f[i] = f[1]
    <3>1. \A i \in (1 + 1)..(k + 7) : f[i - 1] = f[1] => f[i] = f[1]
      <4> TAKE i \in (1 + 1)..(k + 7)
      <4>1. f[i] = Step(f[i - 1], run.script[i], run)
        BY DEF RunsFrom, TwoBranches
      <4>2. QED
        BY <2>1, <4>1, StuckStep
    <3>2. k + 7 \in Nat
      OBVIOUS
    <3>3. QED
      BY <3>1, <3>2, Unchanged
  <2>3. w \notin Chosen(T, first, second)
    BY <1>4, AppendFacts DEF Chosen
  <2>4. \A i \in 0..(k + 7) : i = 0 \/ i \in 1..(k + 7)
    OBVIOUS
  <2>5. QED
    BY <1>2, <2>1, <2>2, <2>3, <2>4 DEF Stuck, Decides
<1>5. CASE w # <<>>
  <2>1. PICK s \in Seq(T), x \in T : w = Append(s, x)
    BY <1>5, NotEmpty
  <2>2. Len(s) < n /\ Len(s) <= n
    <3>1. Len(w) = Len(s) + 1 /\ Len(s) \in Nat
      BY <2>1, AppendFacts
    <3>2. QED
      BY <3>1
  <2>3. w \in Chosen(T, first, second) <=> IF x # Num(0) THEN s \in first ELSE s \in second
    <3>1. \A u \in Seq(T), y \in T : w = Append(u, y) => u = s /\ y = x
      <4>1. SUFFICES ASSUME NEW u \in Seq(T), NEW y \in T, w = Append(u, y)
                     PROVE  u = s /\ y = x
        OBVIOUS
      <4>2. Append(s, x) = Append(u, y)
        BY <2>1, <4>1
      <4>3. QED
        BY <4>2, AppendSame
    <3>2. QED
      BY <2>1, <3>1 DEF Chosen
  <2>4. CASE x # Num(0)
    <3>1. f[1] = Machine(s, <<TRUE>>)
      BY <1>3, <2>1, <2>4, StepIf DEF RunsFrom
    <3>2. /\ \A i \in 1..k : Fits(f[i], n)
          /\ Decides(f[k], T, <<TRUE>>, n, s \in first)
      BY <2>2, <3>1 DEF Branch
    <3>3. Decides(f[k + 1], T, <<FALSE>>, n, s \in first)
      BY <1>3, <3>2, DecidesElse
    <3>4. \A i \in (k + 1)..(k + 6) : f[i] = f[k + 1]
      <4>1. \A i \in ((k + 1) + 1)..(k + 6) : f[i - 1] = f[k + 1] => f[i] = f[k + 1]
        <5> TAKE i \in ((k + 1) + 1)..(k + 6)
        <5>1. i \in (k + 2)..(k + 6) /\ i \in 1..(k + 7)
          OBVIOUS
        <5>2. f[i] = Step(f[i - 1], run.script[i], run) /\ run.script[i][1] \notin ControlOps
          BY <5>1 DEF RunsFrom, TwoBranches
        <5>3. QED
          BY <3>3, <5>2, DecidesSkip
      <4>2. k + 1 \in Nat /\ k + 6 \in Nat
        OBVIOUS
      <4>3. QED
        BY <4>1, <4>2, Unchanged
    <3>5. Decides(f[k + 6], T, <<FALSE>>, n, s \in first)
      <4>1. k + 6 \in (k + 1)..(k + 6)
        OBVIOUS
      <4>2. QED
        BY <3>3, <3>4, <4>1
    <3>6. Decides(f[k + 7], T, <<>>, n, s \in first)
      BY <1>3, <3>5, DecidesEndIf
    <3>7. Fits(f[k + 1], n) /\ Fits(f[k + 7], n)
      BY <1>1, <3>3, <3>6, DecidesFits
    <3>8. \A i \in 0..(k + 7) : \/ i = 0 \/ i \in 1..k \/ i \in (k + 1)..(k + 6) \/ i = k + 7
      OBVIOUS
    <3>9. \A i \in 0..(k + 7) : Fits(f[i], n)
      BY <1>2, <3>2, <3>4, <3>7, <3>8
    <3>10. w \in Chosen(T, first, second) <=> s \in first
      BY <2>3, <2>4
    <3>11. QED
      BY <3>6, <3>9, <3>10, Zenon DEF Decides
  <2>5. CASE x = Num(0)
    <3>1. f[1] = Machine(s, <<FALSE>>)
      BY <1>3, <2>1, <2>5, StepIf DEF RunsFrom
    <3>2. \A i \in 1..k : f[i] = f[1]
      <4>1. \A i \in (1 + 1)..k : f[i - 1] = f[1] => f[i] = f[1]
        <5> TAKE i \in (1 + 1)..k
        <5>1. i \in 2..k /\ i \in 1..(k + 7)
          OBVIOUS
        <5>2. f[i] = Step(f[i - 1], run.script[i], run) /\ run.script[i][1] \notin ControlOps
          BY <5>1 DEF RunsFrom, TwoBranches
        <5>3. QED
          BY <3>1, <5>2, StepSkip, RunningFacts
      <4>2. QED
        BY <4>1, Unchanged
    <3>3. f[k + 1] = Machine(s, <<TRUE>>)
      <4>1. k \in 1..k
        OBVIOUS
      <4>2. f[k] = Machine(s, <<FALSE>>)
        BY <3>1, <3>2, <4>1
      <4>3. QED
        BY <1>3, <4>2, StepElse
    <3>4. /\ \A i \in (k + 1)..(k + 6) : Fits(f[i], n)
          /\ Decides(f[k + 6], T, <<TRUE>>, n, s \in second)
      BY <2>2, <3>3 DEF Branch
    <3>5. Decides(f[k + 7], T, <<>>, n, s \in second)
      BY <1>3, <3>4, DecidesEndIf
    <3>6. Fits(f[1], n) /\ Fits(f[k + 7], n)
      BY <1>1, <2>2, <3>1, <3>5, DecidesFits, MachineFits
    <3>7. \A i \in 0..(k + 7) : \/ i = 0 \/ i \in 1..k \/ i \in (k + 1)..(k + 6) \/ i = k + 7
      OBVIOUS
    <3>8. \A i \in 0..(k + 7) : Fits(f[i], n)
      BY <1>2, <3>2, <3>4, <3>6, <3>7
    <3>9. w \in Chosen(T, first, second) <=> s \in second
      BY <2>3, <2>5
    <3>10. QED
      BY <3>5, <3>8, <3>9, Zenon DEF Decides
  <2>6. QED
    BY <2>4, <2>5
<1>6. QED
  BY <1>4, <1>5
-----------------------------------------------------------------------------
(***************************************************************************)
(* The templates, on a stack of any length: the stacks that each accepts.  *)
(***************************************************************************)
LockedFor(T, lock, l, key, run) == {s \in SignedFor(T, key, run) : Past(lock, l, run)}

PreimageFor(T, hash, key, run) ==
    {s \in Seq(T) : \E t \in Seq(T), x \in T :
        s = Append(t, x) /\ Digest("SHA256", x) = hash /\ t \in SignedFor(T, key, run)}

(* The second branch of the scripts that wait, from its first opcode.      *)
LockBranch(script, k, lock, l, key) ==
    /\ script[k + 2] = Push(Num(l)) /\ script[k + 3] = Op(lock) /\ script[k + 4] = Op("DROP")
    /\ script[k + 5] = Push(key) /\ script[k + 6] = Op("CHECKSIG")

LEMMA LockBranchRuns ==
    ASSUME NEW T, NEW w, NEW n \in Nat, NEW run, NEW f, NEW k \in Nat, NEW l,
           NEW lock \in {"CLTV", "CSV"}, NEW key, RunsFrom(f, w, run),
           Len(run.script) = k + 7, LockBranch(run.script, k, lock, l, key)
    PROVE  Branch(f, k + 1, k + 6, T, n, LockedFor(T, lock, l, key, run))
<1> SUFFICES ASSUME NEW s \in Seq(T), Len(s) < n, f[k + 1] = Machine(s, <<TRUE>>)
             PROVE  /\ \A i \in (k + 1)..(k + 6) : Fits(f[i], n)
                    /\ Decides(f[k + 6], T, <<TRUE>>, n, s \in LockedFor(T, lock, l, key, run))
  BY DEF Branch
<1>1. /\ f[k + 2] = Step(f[k + 1], run.script[k + 2], run)
      /\ f[k + 3] = Step(f[k + 2], run.script[k + 3], run)
      /\ f[k + 4] = Step(f[k + 3], run.script[k + 4], run)
      /\ f[k + 5] = Step(f[k + 4], run.script[k + 5], run)
      /\ f[k + 6] = Step(f[k + 5], run.script[k + 6], run)
  <2>1. \A j \in 2..6 : k + j \in 1..(k + 7) /\ k + j - 1 = k + (j - 1)
    OBVIOUS
  <2>2. \A j \in 2..6 : f[k + j] = Step(f[k + (j - 1)], run.script[k + j], run)
    BY <2>1 DEF RunsFrom
  <2>3. QED
    BY <2>2
<1>2. /\ f[k + 2] = Step(Machine(s, <<TRUE>>), Push(Num(l)), run)
      /\ f[k + 3] = Step(f[k + 2], Op(lock), run) /\ f[k + 4] = Step(f[k + 3], Op("DROP"), run)
      /\ f[k + 5] = Step(f[k + 4], Push(key), run)
      /\ f[k + 6] = Step(f[k + 5], Op("CHECKSIG"), run)
  BY <1>1 DEF LockBranch
<1>3. <<TRUE>> \in Execs /\ Running(<<TRUE>>)
  BY RunningFacts DEF Execs
<1> DEFINE good == Past(lock, l, run) /\ s \in SignedFor(T, key, run)
<1>4. /\ Fits(f[k + 2], n) /\ Fits(f[k + 3], n) /\ Fits(f[k + 4], n) /\ Fits(f[k + 5], n)
      /\ Fits(f[k + 6], n) /\ Decides(f[k + 6], T, <<TRUE>>, n, good)
  <2> DEFINE e == <<TRUE>>
  <2> HIDE DEF e
  <2>1. e \in Execs /\ Running(e)
    BY <1>3 DEF e
  <2>2. f[k + 2] = Step(Machine(s, e), Push(Num(l)), run)
    BY <1>2 DEF e
  <2>3. /\ Fits(f[k + 2], n) /\ Fits(f[k + 3], n) /\ Fits(f[k + 4], n) /\ Fits(f[k + 5], n)
        /\ Fits(f[k + 6], n)
        /\ Decides(f[k + 6], T, e, n, Past(lock, l, run) /\ s \in SignedFor(T, key, run))
    BY <1>2, <2>1, <2>2, LockSegment
  <2>4. QED
    BY <2>3 DEF e
<1>5. Fits(f[k + 1], n)
  <2>1. Len(s) <= n
    BY LenProperties
  <2>2. QED
    BY <1>3, <2>1, MachineFits
<1>6. s \in LockedFor(T, lock, l, key, run) <=> good
  BY DEF LockedFor
<1>7. \A i \in (k + 1)..(k + 6) : i \in {k + 1, k + 2, k + 3, k + 4, k + 5, k + 6}
  OBVIOUS
<1> HIDE DEF good
<1>8. \A i \in (k + 1)..(k + 6) : Fits(f[i], n)
  BY <1>4, <1>5, <1>7
<1>9. Decides(f[k + 6], T, <<TRUE>>, n, s \in LockedFor(T, lock, l, key, run))
  BY <1>4, <1>6, Zenon DEF Decides
<1>10. QED
  BY <1>8, <1>9

(* The PTLC and the revocable output are the same script but for the lock. *)
KeyOrLock(key1, lock, l, key2) ==
    <<Op("IF"), Push(key1), Op("CHECKSIG"),
      Op("ELSE"), Push(Num(l)), Op(lock), Op("DROP"), Push(key2), Op("CHECKSIG"),
      Op("ENDIF")>>

LEMMA KeyOrLockRuns ==
    ASSUME NEW T, NEW w \in Seq(T), NEW n \in Nat, Len(w) < n, NEW run, NEW f,
           NEW key1, NEW lock \in {"CLTV", "CSV"}, NEW l, NEW key2,
           run.script = KeyOrLock(key1, lock, l, key2), RunsFrom(f, w, run)
    PROVE  /\ Len(run.script) = 10 /\ \A i \in 0..10 : Fits(f[i], n)
           /\ Decides(f[10], T, <<>>, n, w \in Chosen(T, SignedFor(T, key1, run),
                                                      LockedFor(T, lock, l, key2, run)))
<1>1. /\ Len(run.script) = 10
      /\ run.script[1] = Op("IF") /\ run.script[2] = Push(key1)
      /\ run.script[3] = Op("CHECKSIG") /\ run.script[4] = Op("ELSE")
      /\ run.script[5] = Push(Num(l)) /\ run.script[6] = Op(lock)
      /\ run.script[7] = Op("DROP") /\ run.script[8] = Push(key2)
      /\ run.script[9] = Op("CHECKSIG") /\ run.script[10] = Op("ENDIF")
  BY DEF KeyOrLock
<1>2. TwoBranches(run.script, 3)
  <2>1. (2..3) \cup ((3 + 2)..(3 + 6)) = {2, 3, 5, 6, 7, 8, 9}
    OBVIOUS
  <2>2. \A i \in {2, 3, 5, 6, 7, 8, 9} : run.script[i][1] \notin ControlOps
    BY <1>1 DEF Push, Op, ControlOps
  <2>3. QED
    BY <1>1, <2>1, <2>2 DEF TwoBranches
<1>3. Branch(f, 1, 3, T, n, SignedFor(T, key1, run))
  <2> SUFFICES ASSUME NEW s \in Seq(T), Len(s) < n, f[1] = Machine(s, <<TRUE>>)
               PROVE  /\ \A i \in 1..3 : Fits(f[i], n)
                      /\ Decides(f[3], T, <<TRUE>>, n, s \in SignedFor(T, key1, run))
    BY DEF Branch
  <2> DEFINE e == <<TRUE>>
  <2>1. e \in Execs /\ Running(e)
    BY RunningFacts DEF Execs
  <2>2. /\ f[2] = Step(Machine(s, e), Push(key1), run)
        /\ f[3] = Step(f[2], Op("CHECKSIG"), run)
    <3>1. f[2] = Step(f[2 - 1], run.script[2], run) /\ f[3] = Step(f[3 - 1], run.script[3], run)
      BY <1>1 DEF RunsFrom
    <3>2. 2 - 1 = 1 /\ 3 - 1 = 2
      OBVIOUS
    <3>3. QED
      BY <1>1, <3>1, <3>2
  <2>3. f[1] = Machine(s, e)
    OBVIOUS
  <2> HIDE DEF e
  <2>4. Fits(f[2], n) /\ Fits(f[3], n) /\ Decides(f[3], T, e, n, s \in SignedFor(T, key1, run))
    BY <2>1, <2>2, SigSegment
  <2>5. Fits(f[1], n)
    <3>1. Len(s) <= n
      BY LenProperties
    <3>2. QED
      BY <2>1, <2>3, <3>1, MachineFits
  <2>6. 1..3 = {1, 2, 3}
    OBVIOUS
  <2>7. QED
    BY <2>4, <2>5, <2>6 DEF e
<1>4. Branch(f, 4, 9, T, n, LockedFor(T, lock, l, key2, run))
  <2>1. LockBranch(run.script, 3, lock, l, key2)
    BY <1>1 DEF LockBranch
  <2>2. Len(run.script) = 3 + 7 /\ 3 \in Nat
    BY <1>1
  <2>3. Branch(f, 3 + 1, 3 + 6, T, n, LockedFor(T, lock, l, key2, run))
    BY <2>1, <2>2, LockBranchRuns, Zenon
  <2>4. QED
    BY <2>3
<1>5. /\ \A i \in 0..(3 + 7) : Fits(f[i], n)
      /\ Decides(f[3 + 7], T, <<>>, n, w \in Chosen(T, SignedFor(T, key1, run),
                                                    LockedFor(T, lock, l, key2, run)))
  <2>1. Branch(f, 3 + 1, 3 + 6, T, n, LockedFor(T, lock, l, key2, run))
    BY <1>4
  <2>2. 3 \in Nat /\ 3 >= 1
    OBVIOUS
  <2> DEFINE second == LockedFor(T, lock, l, key2, run)
             first == SignedFor(T, key1, run)
  <2> HIDE DEF second, first
  <2>3. QED
    BY <1>2, <1>3, <2>1, <2>2, Conditional DEF second, first
<1>6. QED
  BY <1>1, <1>5

LEMMA HtlcRuns ==
    ASSUME NEW T, NEW w \in Seq(T), NEW n \in Nat, Len(w) < n, NEW run, NEW f,
           NEW sender, NEW receiver, NEW hash, NEW l,
           run.script = Htlc(sender, receiver, hash, l), RunsFrom(f, w, run)
    PROVE  /\ Len(run.script) = 13 /\ \A i \in 0..13 : Fits(f[i], n)
           /\ Decides(f[13], T, <<>>, n,
                      w \in Chosen(T, PreimageFor(T, hash, receiver, run),
                                   LockedFor(T, "CLTV", l, sender, run)))
<1>1. /\ Len(run.script) = 13
      /\ run.script[1] = Op("IF") /\ run.script[2] = Op("SHA256")
      /\ run.script[3] = Push(hash) /\ run.script[4] = Op("EQUALVERIFY")
      /\ run.script[5] = Push(receiver) /\ run.script[6] = Op("CHECKSIG")
      /\ run.script[7] = Op("ELSE") /\ run.script[8] = Push(Num(l))
      /\ run.script[9] = Op("CLTV") /\ run.script[10] = Op("DROP")
      /\ run.script[11] = Push(sender) /\ run.script[12] = Op("CHECKSIG")
      /\ run.script[13] = Op("ENDIF")
  BY DEF Htlc
<1>2. TwoBranches(run.script, 6)
  <2>1. (2..6) \cup ((6 + 2)..(6 + 6)) = {2, 3, 4, 5, 6, 8, 9, 10, 11, 12}
    OBVIOUS
  <2>2. \A i \in {2, 3, 4, 5, 6, 8, 9, 10, 11, 12} : run.script[i][1] \notin ControlOps
    BY <1>1 DEF Push, Op, ControlOps
  <2>3. QED
    BY <1>1, <2>1, <2>2 DEF TwoBranches
<1> DEFINE first == PreimageFor(T, hash, receiver, run)
           second == LockedFor(T, "CLTV", l, sender, run)
<1>3. Branch(f, 1, 6, T, n, first)
  <2> SUFFICES ASSUME NEW s \in Seq(T), Len(s) < n, f[1] = Machine(s, <<TRUE>>)
               PROVE  /\ \A i \in 1..6 : Fits(f[i], n)
                      /\ Decides(f[6], T, <<TRUE>>, n, s \in first)
    BY DEF Branch
  <2> DEFINE e == <<TRUE>>
  <2>1. e \in Execs /\ Running(e)
    BY RunningFacts DEF Execs
  <2>2. /\ f[2] = Step(Machine(s, e), Op("SHA256"), run) /\ f[3] = Step(f[2], Push(hash), run)
        /\ f[4] = Step(f[3], Op("EQUALVERIFY"), run) /\ f[5] = Step(f[4], Push(receiver), run)
        /\ f[6] = Step(f[5], Op("CHECKSIG"), run)
    <3>1. \A i \in 2..6 : f[i] = Step(f[i - 1], run.script[i], run)
      BY <1>1 DEF RunsFrom
    <3>2. 2 - 1 = 1 /\ 3 - 1 = 2 /\ 4 - 1 = 3 /\ 5 - 1 = 4 /\ 6 - 1 = 5 /\ 2..6 = {2, 3, 4, 5, 6}
      OBVIOUS
    <3>3. QED
      BY <1>1, <3>1, <3>2
  <2>3. f[1] = Machine(s, e)
    OBVIOUS
  <2> HIDE DEF e, first
  <2>4. Fits(f[1], n)
    <3>1. Len(s) <= n
      BY LenProperties
    <3>2. QED
      BY <2>1, <2>3, <3>1, MachineFits
  <2>5. /\ Fits(f[2], n) /\ Fits(f[3], n) /\ Fits(f[4], n)
        /\ \/ /\ Stuck(f[4], n)
              /\ \A t \in Seq(T), x \in T : s = Append(t, x) => Digest("SHA256", x) # hash
           \/ \E t \in Seq(T), x \in T :
                 /\ s = Append(t, x) /\ Digest("SHA256", x) = hash /\ Len(t) < n
                 /\ f[4] = Machine(t, e)
    BY <2>1, <2>2, HashSegment
  <2>6. Fits(f[5], n) /\ Fits(f[6], n) /\ Decides(f[6], T, e, n, s \in first)
    <3>1. CASE /\ Stuck(f[4], n)
               /\ \A t \in Seq(T), x \in T : s = Append(t, x) => Digest("SHA256", x) # hash
      <4>1. f[5] = f[4] /\ f[6] = f[4]
        BY <2>2, <3>1, StuckStep
      <4>2. s \notin first
        BY <3>1 DEF first, PreimageFor
      <4>3. QED
        BY <3>1, <4>1, <4>2 DEF Stuck, Decides
    <3>2. CASE \E t \in Seq(T), x \in T :
                  /\ s = Append(t, x) /\ Digest("SHA256", x) = hash /\ Len(t) < n
                  /\ f[4] = Machine(t, e)
      <4>1. PICK t \in Seq(T), x \in T :
                  /\ s = Append(t, x) /\ Digest("SHA256", x) = hash /\ Len(t) < n
                  /\ f[4] = Machine(t, e)
        BY <3>2
      <4>2. /\ Fits(f[5], n) /\ Fits(f[6], n)
            /\ Decides(f[6], T, e, n, t \in SignedFor(T, receiver, run))
        BY <2>1, <2>2, <4>1, SigSegment
      <4>3. s \in first <=> t \in SignedFor(T, receiver, run)
        <5>1. \A u \in Seq(T), y \in T : s = Append(u, y) => u = t
          <6>1. SUFFICES ASSUME NEW u \in Seq(T), NEW y \in T, s = Append(u, y)
                         PROVE  u = t
            OBVIOUS
          <6>2. Append(t, x) = Append(u, y)
            BY <4>1, <6>1
          <6>3. QED
            BY <6>2, AppendSame, ZenonT(40)
        <5>2. QED
          BY <4>1, <5>1 DEF first, PreimageFor
      <4>4. QED
        BY <4>2, <4>3, Zenon DEF Decides
    <3>3. QED
      BY <2>5, <3>1, <3>2
  <2>7. 1..6 = {1, 2, 3, 4, 5, 6}
    OBVIOUS
  <2>8. QED
    BY <2>4, <2>5, <2>6, <2>7 DEF e
<1> HIDE DEF first, second
<1>4. Branch(f, 6 + 1, 6 + 6, T, n, second)
  <2>1. LockBranch(run.script, 6, "CLTV", l, sender)
    BY <1>1 DEF LockBranch
  <2>2. Len(run.script) = 6 + 7 /\ 6 \in Nat /\ "CLTV" \in {"CLTV", "CSV"}
    BY <1>1
  <2>3. QED
    BY <2>1, <2>2, LockBranchRuns, Zenon DEF second
<1>5. /\ \A i \in 0..(6 + 7) : Fits(f[i], n)
      /\ Decides(f[6 + 7], T, <<>>, n, w \in Chosen(T, first, second))
  <2>1. 6 \in Nat /\ 6 >= 1
    OBVIOUS
  <2>2. QED
    BY <1>2, <1>3, <1>4, <2>1, Conditional
<1>6. QED
  BY <1>1, <1>5 DEF first, second

(* An anchor is its owner's, and everyone's after 16 blocks.               *)
AnchorFor(T, key, run) ==
    {s \in Seq(T) : s # <<>> /\ (s \in SignedFor(T, key, run) \/ Past("CSV", 16, run))}

LEMMA AnchorRuns ==
    ASSUME NEW T, NEW w \in Seq(T), NEW n \in Nat, Len(w) + 1 < n, NEW run, NEW f, NEW key,
           run.script = Anchor(key), RunsFrom(f, w, run)
    PROVE  /\ Len(run.script) = 7 /\ \A i \in 0..7 : Fits(f[i], n)
           /\ Succeeds(f[7]) <=> w \in AnchorFor(T, key, run)
<1>1. /\ Len(run.script) = 7
      /\ run.script[1] = Push(key) /\ run.script[2] = Op("CHECKSIG")
      /\ run.script[3] = Op("IFDUP") /\ run.script[4] = Op("NOTIF")
      /\ run.script[5] = Push(Num(16)) /\ run.script[6] = Op("CSV")
      /\ run.script[7] = Op("ENDIF")
  BY DEF Anchor
<1>2. /\ f[0] = Machine(w, <<>>)
      /\ f[1] = Step(f[0], Push(key), run) /\ f[2] = Step(f[1], Op("CHECKSIG"), run)
      /\ f[3] = Step(f[2], Op("IFDUP"), run) /\ f[4] = Step(f[3], Op("NOTIF"), run)
      /\ f[5] = Step(f[4], Push(Num(16)), run) /\ f[6] = Step(f[5], Op("CSV"), run)
      /\ f[7] = Step(f[6], Op("ENDIF"), run)
  <2>1. \A i \in 1..7 : f[i] = Step(f[i - 1], run.script[i], run)
    BY <1>1 DEF RunsFrom
  <2>2. 1..7 = {1, 2, 3, 4, 5, 6, 7} /\ 1 - 1 = 0 /\ 2 - 1 = 1 /\ 3 - 1 = 2 /\ 4 - 1 = 3
        /\ 5 - 1 = 4 /\ 6 - 1 = 5 /\ 7 - 1 = 6
    OBVIOUS
  <2>3. QED
    BY <1>1, <2>1, <2>2 DEF RunsFrom
<1>3. /\ <<>> \in Execs /\ <<TRUE>> \in Execs /\ <<FALSE>> \in Execs
      /\ Running(<<>>) /\ Running(<<TRUE>>) /\ ~Running(<<FALSE>>)
  BY RunningFacts DEF Execs
<1>4. 0..7 = {0, 1, 2, 3, 4, 5, 6, 7}
  OBVIOUS
<1>5. Len(w) \in Nat /\ Len(w) < n /\ Fits(f[0], n)
  <2>1. Len(w) \in Nat /\ Len(w) < n /\ Len(w) <= n
    BY LenProperties
  <2>2. QED
    BY <1>2, <1>3, <2>1, MachineFits
<1>6. CASE w = <<>>
  <2> DEFINE none == <<>>
  <2>1. f[1] = Machine(<<key>>, none)
    <3>1. none \in Seq({key}) /\ Append(none, key) = <<key>>
      OBVIOUS
    <3>2. Step(Machine(none, none), Push(key), run) = Machine(Append(none, key), none)
      BY <1>3, <3>1, StepPush
    <3>3. QED
      BY <1>2, <1>6, <3>1, <3>2
  <2>2. Fits(f[1], n) /\ Stuck(Raised(f[1]), n)
    <3>1. Len(<<key>>) = 1 /\ 1 <= n
      BY <1>5
    <3>2. QED
      BY <1>3, <2>1, <3>1, MachineFits
  <2>3. f[2] = Raised(f[1])
    BY <1>2, <1>3, <2>1, StepStarved
  <2>4. f[3] = f[2] /\ f[4] = f[2] /\ f[5] = f[2] /\ f[6] = f[2] /\ f[7] = f[2]
    BY <1>2, <2>2, <2>3, StuckStep
  <2>5. ~Succeeds(f[7])
    BY <2>2, <2>3, <2>4, Zenon DEF Stuck, Succeeds
  <2>6. w \notin AnchorFor(T, key, run)
    BY <1>6 DEF AnchorFor
  <2>7. QED
    BY <1>1, <1>4, <1>5, <2>2, <2>3, <2>4, <2>5, <2>6 DEF Stuck
<1>7. CASE w # <<>>
  <2> DEFINE sig == Sig(key, Sighash(run))
             good == w \in SignedFor(T, key, run)
  <2>1. PICK t \in Seq(T), x \in T : w = Append(t, x)
    BY <1>7, NotEmpty
  <2>2. Len(w) = Len(t) + 1 /\ Len(t) \in Nat
    BY <2>1, AppendFacts
  <2>3. good <=> x = sig
    <3>1. ASSUME good PROVE x = sig
      <4>1. PICK u \in Seq(T) : w = Append(u, sig)
        BY <3>1 DEF SignedFor
      <4>2. Append(t, x) = Append(u, sig)
        BY <2>1, <4>1
      <4> HIDE DEF sig
      <4>3. QED
        BY <4>2, AppendSame
    <3>2. ASSUME x = sig PROVE good
      BY <2>1, <3>2 DEF SignedFor
    <3>3. QED
      BY <3>1, <3>2
  <2>4. f[1] = Machine(Append(w, key), <<>>) /\ Len(Append(w, key)) = Len(w) + 1
    BY <1>2, <1>3, StepPush, AppendAny
  <2>5. Fits(f[1], n)
    <3>1. Len(Append(w, key)) <= n
      BY <1>5, <2>4
    <3>2. QED
      BY <1>3, <2>4, <3>1, MachineFits
  <2>6. f[2] = Machine(Append(t, IF x = sig THEN Num(1) ELSE Num(0)), <<>>)
    BY <1>2, <1>3, <2>1, <2>4, StepCheckSigAny
  <2> HIDE DEF good, sig
  <2>7. Num(1) # Num(0) /\ Num(16) # Num(0)
    BY DEF Num
  <2>8. \A v, e : e \in Execs => Fits(Machine(Append(t, v), e), n)
                                 /\ Stuck(Raised(Machine(Append(t, v), e)), n)
    <3> TAKE v, e
    <3> DEFINE u == Append(t, v)
    <3>1. Len(u) = Len(t) + 1
      BY AppendAny
    <3>2. Len(u) <= n
      BY <1>5, <2>2, <3>1
    <3> HIDE DEF u
    <3>3. e \in Execs => Fits(Machine(u, e), n) /\ Stuck(Raised(Machine(u, e)), n)
      BY <3>2, MachineFits
    <3>4. QED
      BY <3>3 DEF u
  <2>9. w \in AnchorFor(T, key, run) <=> good \/ Past("CSV", 16, run)
    BY <1>7 DEF AnchorFor, good
  <2>10. CASE good
    <3> DEFINE one == Append(t, Num(1))
               U == T \cup {Num(1)}
    <3>1. f[2] = Machine(one, <<>>)
      BY <2>3, <2>6, <2>10
    <3>2. one \in Seq(U) /\ Num(1) \in U /\ Len(one) = Len(w)
          /\ Len(Append(one, Num(1))) = Len(w) + 1
      <4>1. one \in Seq(U) /\ Len(one) = Len(w)
        BY <2>2, AppendAny
      <4>2. Len(Append(one, Num(1))) = Len(one) + 1
        BY <4>1, AppendAny
      <4>3. QED
        BY <4>1, <4>2
    <3>3. f[3] = Machine(Append(one, Num(1)), <<>>)
      BY <1>2, <1>3, <2>7, <3>1, StepIfDup
    <3>4. Fits(f[3], n)
      <4> DEFINE u == Append(one, Num(1))
      <4>1. Len(u) <= n
        BY <1>5, <3>2
      <4> HIDE DEF u
      <4>2. QED
        BY <1>3, <3>3, <4>1, MachineFits DEF u
    <3> HIDE DEF one, U
    <3>5. f[4] = Machine(one, <<FALSE>>)
      BY <1>2, <2>7, <3>2, <3>3, StepNotIf
    <3>6. f[5] = f[4] /\ f[6] = f[4]
      <4>1. Push(Num(16))[1] \notin ControlOps /\ Op("CSV")[1] \notin ControlOps
        BY DEF Push, Op, ControlOps
      <4>2. QED
        BY <1>2, <1>3, <3>5, <4>1, StepSkip
    <3>7. f[7] = Machine(one, <<>>)
      BY <1>2, <3>5, <3>6, StepEndIf
    <3>8. Succeeds(f[7])
      BY <2>7, <3>7, SucceedsOn DEF one
    <3>9. Fits(f[2], n) /\ Fits(f[4], n) /\ Fits(f[7], n)
      BY <1>3, <2>8, <3>1, <3>5, <3>7 DEF one
    <3>10. QED
      BY <1>1, <1>4, <1>5, <2>5, <2>9, <2>10, <3>4, <3>6, <3>8, <3>9
  <2>11. CASE ~good
    <3>1. f[2] = Machine(Append(t, Num(0)), <<>>)
      BY <2>3, <2>6, <2>11
    <3>2. f[3] = f[2]
      BY <1>2, <1>3, <3>1, StepIfDup
    <3>3. f[4] = Machine(t, <<TRUE>>)
      <4> DEFINE U == T \cup {Num(0)}
      <4>1. t \in Seq(U) /\ Num(0) \in U
        BY SeqMonotonic
      <4> HIDE DEF U
      <4>2. QED
        BY <1>2, <3>1, <3>2, <4>1, StepNotIf
    <3>4. f[5] = Machine(Append(t, Num(16)), <<TRUE>>)
      BY <1>2, <1>3, <3>3, StepPush
    <3>5. Fits(f[2], n) /\ Fits(f[4], n) /\ Fits(f[5], n) /\ Stuck(Raised(f[5]), n)
      <4>1. Len(t) <= n
        BY <1>5, <2>2
      <4>2. QED
        BY <1>3, <2>8, <3>1, <3>3, <3>4, <4>1, MachineFits
    <3>6. CASE Past("CSV", 16, run)
      <4>1. f[6] = f[5]
        BY <1>2, <1>3, <3>4, <3>6, StepLock
      <4>2. f[7] = Machine(Append(t, Num(16)), <<>>)
        BY <1>2, <3>4, <4>1, StepEndIf
      <4>3. Succeeds(f[7]) /\ Fits(f[7], n)
        BY <1>3, <2>7, <2>8, <4>2, SucceedsOn
      <4>4. QED
        BY <1>1, <1>4, <1>5, <2>5, <2>9, <3>2, <3>5, <3>6, <4>1, <4>3
    <3>7. CASE ~Past("CSV", 16, run)
      <4>1. f[6] = Raised(f[5])
        BY <1>2, <1>3, <3>4, <3>7, StepLock
      <4>2. Stuck(f[6], n)
        BY <3>5, <4>1
      <4>3. f[7] = f[6]
        BY <1>2, <4>2, StuckStep
      <4>4. ~Succeeds(f[7])
        BY <4>2, <4>3, Zenon DEF Stuck, Succeeds
      <4>5. QED
        BY <1>1, <1>4, <1>5, <2>5, <2>9, <2>11, <3>2, <3>5, <3>7, <4>2, <4>3, <4>4 DEF Stuck
    <3>8. QED
      BY <3>6, <3>7
  <2>12. QED
    BY <2>10, <2>11
<1>8. QED
  BY <1>6, <1>7

(* The two signatures of a 2-of-2 lie on top, in the order of the keys.    *)
MultisigFor(T, key1, key2, run) ==
    {s \in Seq(T) : /\ Len(s) >= 2
                    /\ s[Len(s)] = Sig(key2, Sighash(run))
                    /\ s[Len(s) - 1] = Sig(key1, Sighash(run))}

LEMMA MultisigRuns ==
    ASSUME NEW T, NEW w \in Seq(T), NEW n \in Nat, Len(w) + 4 <= n, NEW run, NEW f,
           NEW a, NEW b, run.script = Multisig2of2(a, b), RunsFrom(f, w, run)
    PROVE  /\ Len(run.script) = 5 /\ \A i \in 0..5 : Fits(f[i], n)
           /\ Succeeds(f[5]) <=> w \in MultisigFor(T, SortedKeys(a, b)[1], SortedKeys(a, b)[2], run)
<1> DEFINE key1 == SortedKeys(a, b)[1]
           key2 == SortedKeys(a, b)[2]
           U == T \cup {Num(2), key1, key2}
           q1 == Append(w, Num(2))
           q2 == Append(q1, key1)
           q3 == Append(q2, key2)
           q4 == Append(q3, Num(2))
<1>1. /\ Len(run.script) = 5
      /\ run.script[1] = Push(Num(2)) /\ run.script[2] = Push(key1)
      /\ run.script[3] = Push(key2) /\ run.script[4] = Push(Num(2))
      /\ run.script[5] = Op("CHECKMULTISIG")
  BY DEF Multisig2of2
<1> HIDE DEF key1, key2
<1>2. /\ f[0] = Machine(w, <<>>)
      /\ f[1] = Step(f[0], Push(Num(2)), run) /\ f[2] = Step(f[1], Push(key1), run)
      /\ f[3] = Step(f[2], Push(key2), run) /\ f[4] = Step(f[3], Push(Num(2)), run)
      /\ f[5] = Step(f[4], Op("CHECKMULTISIG"), run)
  <2>1. \A i \in 1..5 : f[i] = Step(f[i - 1], run.script[i], run)
    BY <1>1 DEF RunsFrom
  <2>2. 1..5 = {1, 2, 3, 4, 5} /\ 1 - 1 = 0 /\ 2 - 1 = 1 /\ 3 - 1 = 2 /\ 4 - 1 = 3 /\ 5 - 1 = 4
    OBVIOUS
  <2>3. QED
    BY <1>1, <2>1, <2>2 DEF RunsFrom
<1>3. <<>> \in Execs /\ Running(<<>>) /\ 0..5 = {0, 1, 2, 3, 4, 5}
  BY RunningFacts DEF Execs
<1>4. w \in Seq(U) /\ Num(2) \in U /\ key1 \in U /\ key2 \in U /\ Len(w) \in Nat
  BY SeqMonotonic, LenProperties
<1> HIDE DEF U
<1>5. q1 \in Seq(U) /\ Len(q1) = Len(w) + 1
  BY <1>4, AppendProperties
<1> HIDE DEF q1
<1>6. q2 \in Seq(U) /\ Len(q2) = Len(w) + 2
  <2>1. q2 \in Seq(U) /\ Len(q2) = Len(q1) + 1
    BY <1>4, <1>5, AppendProperties
  <2>2. QED
    BY <1>4, <1>5, <2>1
<1> HIDE DEF q2
<1>7. q3 \in Seq(U) /\ Len(q3) = Len(w) + 3
  <2>1. q3 \in Seq(U) /\ Len(q3) = Len(q2) + 1
    BY <1>4, <1>6, AppendProperties
  <2>2. QED
    BY <1>4, <1>6, <2>1
<1> HIDE DEF q3
<1>8. q4 \in Seq(U) /\ Len(q4) = Len(w) + 4
  <2>1. q4 \in Seq(U) /\ Len(q4) = Len(q3) + 1
    BY <1>4, <1>7, AppendProperties
  <2>2. QED
    BY <1>4, <1>7, <2>1
<1> HIDE DEF q4
<1>9. f[1] = Machine(q1, <<>>)
  BY <1>2, <1>3, StepPush DEF q1
<1>10. f[2] = Machine(q2, <<>>)
  BY <1>2, <1>3, <1>5, <1>9, StepPush DEF q2
<1>11. f[3] = Machine(q3, <<>>)
  BY <1>2, <1>3, <1>6, <1>10, StepPush DEF q3
<1>12. f[4] = Machine(q4, <<>>)
  BY <1>2, <1>3, <1>7, <1>11, StepPush DEF q4
<1>13. /\ Fits(f[0], n) /\ Fits(f[1], n) /\ Fits(f[2], n) /\ Fits(f[3], n) /\ Fits(f[4], n)
       /\ Stuck(Raised(f[4]), n)
  <2>1. Len(w) <= n /\ Len(q1) <= n /\ Len(q2) <= n /\ Len(q3) <= n /\ Len(q4) <= n
    BY <1>4, <1>5, <1>6, <1>7, <1>8
  <2>2. QED
    BY <1>2, <1>3, <1>9, <1>10, <1>11, <1>12, <2>1, MachineFits
<1> DEFINE l == Len(w)
           signed == w[l] = Sig(key2, Sighash(run)) /\ w[l - 1] = Sig(key1, Sighash(run))
           drop == IF l > 2 THEN 3 ELSE 2
           left == SubSeq(w, 1, l - drop)
           v == IF signed THEN Num(1) ELSE Num(0)
<1>14. \/ f[5] = Raised(f[4]) /\ ~(l >= 2 /\ signed)
       \/ f[5] = Machine(Append(left, v), <<>>) /\ l >= 2
  <2> DEFINE m0 == Machine(Append(Append(Append(Append(w, Num(2)), key1), key2), Num(2)), <<>>)
  <2>1. f[4] = m0
    BY <1>12 DEF q4, q3, q2, q1
  <2>2. f[5] = Step(m0, Op("CHECKMULTISIG"), run)
    BY <1>2, <2>1
  <2>3. \/ Step(m0, Op("CHECKMULTISIG"), run) = Raised(m0) /\ ~(l >= 2 /\ signed)
        \/ Step(m0, Op("CHECKMULTISIG"), run) = Machine(Append(left, v), <<>>) /\ l >= 2
    BY <1>3, StepMultisig
  <2> HIDE DEF m0, left, v, signed
  <2>4. QED
    BY <2>1, <2>2, <2>3
<1>15. w \in MultisigFor(T, key1, key2, run) <=> l >= 2 /\ signed
  BY DEF MultisigFor
<1> HIDE DEF left, v, signed
<1>16. CASE f[5] = Raised(f[4]) /\ ~(l >= 2 /\ signed)
  <2>1. Fits(f[5], n) /\ ~Succeeds(f[5])
    BY <1>13, <1>16, Zenon DEF Stuck, Succeeds
  <2>2. QED
    BY <1>1, <1>3, <1>13, <1>15, <1>16, <2>1 DEF key1, key2
<1>17. CASE f[5] = Machine(Append(left, v), <<>>) /\ l >= 2
  <2>1. left \in Seq(T) /\ Len(left) < n
    <3> DEFINE k == l - drop
    <3>1. k \in 0..l /\ k \in Int /\ 1 \in Int /\ l \in Nat
      BY <1>4, <1>17
    <3> HIDE DEF k, drop
    <3>2. \A i \in 1..k : w[i] \in T
      BY <3>1, ElementOfSeq
    <3>3. SubSeq(w, 1, k) \in Seq(T) /\ Len(SubSeq(w, 1, k)) = IF 1 <= k THEN k - 1 + 1 ELSE 0
      BY <3>1, <3>2, SubSeqProperties
    <3>4. Len(SubSeq(w, 1, k)) < n
      BY <3>1, <3>3
    <3>5. QED
      BY <3>3, <3>4 DEF left, k, drop
  <2>2. Succeeds(f[5]) <=> v # Num(0)
    BY <1>17, <2>1, SucceedsOn
  <2>3. v # Num(0) <=> signed
    <3>1. Num(1) # Num(0)
      BY DEF Num
    <3>2. QED
      BY <3>1, Zenon DEF v
  <2>4. Fits(f[5], n)
    <3> DEFINE u == Append(left, v)
    <3>1. Len(u) = Len(left) + 1 /\ Len(left) \in Nat
      BY <2>1, AppendAny
    <3>2. Len(u) <= n
      BY <2>1, <3>1
    <3> HIDE DEF u
    <3>3. QED
      BY <1>3, <1>17, <3>2, MachineFits DEF u
  <2>5. QED
    BY <1>1, <1>3, <1>13, <1>15, <1>17, <2>2, <2>3, <2>4 DEF key1, key2
<1>18. QED
  BY <1>14, <1>16, <1>17

LEMMA MachinesRun ==
    ASSUME NEW run, NEW w, Len(run.script) \in Nat
    PROVE  RunsFrom(Machines(run, w), w, run)
BY MachinesFacts, MachineParts DEF RunsFrom

(***************************************************************************)
(* The stacks that a script accepts, template by template, of any length   *)
(* and whatever lies below: exactly those that spend one of its branches.  *)
(***************************************************************************)
HtlcStacks(T, sender, receiver, hash, l, run) ==
    Chosen(T, PreimageFor(T, hash, receiver, run), LockedFor(T, "CLTV", l, sender, run))

PtlcStacks(T, sender, receiver, l, run) ==
    Chosen(T, SignedFor(T, receiver, run), LockedFor(T, "CLTV", l, sender, run))

RevocableStacks(T, revocation, local, delay, run) ==
    Chosen(T, SignedFor(T, revocation, run), LockedFor(T, "CSV", delay, local, run))

(* However much room there is, the machines of a script keep to it.       *)
FitsFrom(f, w, last) ==
    \A n \in Nat : Len(w) + 4 <= n => \A i \in 0..last : Fits(f[i], n)

LEMMA HtlcExecutes ==
    ASSUME NEW T, NEW w \in Seq(T), NEW run, NEW sender, NEW receiver, NEW hash, NEW l,
           run.script = Htlc(sender, receiver, hash, l)
    PROVE  /\ Execute(run, w) <=> w \in HtlcStacks(T, sender, receiver, hash, l, run)
           /\ Len(run.script) = 13 /\ FitsFrom(Machines(run, w), w, 13)
<1> DEFINE f == Machines(run, w)
           n == Len(w) + 4
           good == w \in HtlcStacks(T, sender, receiver, hash, l, run)
<1>1. Len(run.script) = 13
  BY DEF Htlc
<1>2. n \in Nat /\ Len(w) < n
  BY LenProperties
<1>3. RunsFrom(f, w, run)
  BY <1>1, MachinesRun
<1> HIDE DEF f, n
<1>4. /\ \A i \in 0..13 : Fits(f[i], n)
      /\ Decides(f[13], T, <<>>, n, w \in HtlcStacks(T, sender, receiver, hash, l, run))
  BY <1>2, <1>3, HtlcRuns DEF HtlcStacks
<1>5. good \in BOOLEAN /\ Decides(f[13], T, <<>>, n, good)
  BY <1>4
<1> HIDE DEF good
<1>6. Succeeds(f[13]) <=> good
  BY <1>5, DecidesSucceeds
<1>7. Execute(run, w) <=> Succeeds(f[13])
  BY <1>1 DEF Execute, f
<1>8. FitsFrom(f, w, 13)
  <2> SUFFICES ASSUME NEW k \in Nat, Len(w) + 4 <= k
               PROVE  \A i \in 0..13 : Fits(f[i], k)
    BY DEF FitsFrom
  <2>1. Len(w) < k
    BY LenProperties
  <2>2. QED
    BY <1>3, <2>1, HtlcRuns
<1>9. QED
  BY <1>1, <1>4, <1>6, <1>7, <1>8 DEF f, n, good

LEMMA KeyOrLockExecutes ==
    ASSUME NEW T, NEW w \in Seq(T), NEW run, NEW key1, NEW lock \in {"CLTV", "CSV"}, NEW l,
           NEW key2, run.script = KeyOrLock(key1, lock, l, key2)
    PROVE  /\ Execute(run, w) <=> w \in Chosen(T, SignedFor(T, key1, run),
                                               LockedFor(T, lock, l, key2, run))
           /\ Len(run.script) = 10 /\ FitsFrom(Machines(run, w), w, 10)
<1> DEFINE f == Machines(run, w)
           n == Len(w) + 4
           good == w \in Chosen(T, SignedFor(T, key1, run), LockedFor(T, lock, l, key2, run))
<1>1. Len(run.script) = 10
  BY DEF KeyOrLock
<1>2. n \in Nat /\ Len(w) < n
  BY LenProperties
<1>3. RunsFrom(f, w, run)
  BY <1>1, MachinesRun
<1> HIDE DEF f, n
<1>4. /\ \A i \in 0..10 : Fits(f[i], n)
      /\ Decides(f[10], T, <<>>, n, w \in Chosen(T, SignedFor(T, key1, run),
                                                 LockedFor(T, lock, l, key2, run)))
  BY <1>2, <1>3, KeyOrLockRuns
<1>5. good \in BOOLEAN /\ Decides(f[10], T, <<>>, n, good)
  BY <1>4
<1> HIDE DEF good
<1>6. Succeeds(f[10]) <=> good
  BY <1>5, DecidesSucceeds
<1>7. Execute(run, w) <=> Succeeds(f[10])
  BY <1>1 DEF Execute, f
<1>8. FitsFrom(f, w, 10)
  <2> SUFFICES ASSUME NEW k \in Nat, Len(w) + 4 <= k
               PROVE  \A i \in 0..10 : Fits(f[i], k)
    BY DEF FitsFrom
  <2>1. Len(w) < k
    BY LenProperties
  <2>2. QED
    BY <1>3, <2>1, KeyOrLockRuns
<1>9. QED
  BY <1>1, <1>4, <1>6, <1>7, <1>8 DEF f, n, good

LEMMA PtlcExecutes ==
    ASSUME NEW T, NEW w \in Seq(T), NEW run, NEW sender, NEW receiver, NEW l,
           run.script = Ptlc(sender, receiver, l)
    PROVE  /\ Execute(run, w) <=> w \in PtlcStacks(T, sender, receiver, l, run)
           /\ Len(run.script) = 10 /\ FitsFrom(Machines(run, w), w, 10)
<1>1. run.script = KeyOrLock(receiver, "CLTV", l, sender)
  BY DEF Ptlc, KeyOrLock
<1>2. QED
  BY <1>1, KeyOrLockExecutes DEF PtlcStacks

LEMMA RevocableExecutes ==
    ASSUME NEW T, NEW w \in Seq(T), NEW run, NEW revocation, NEW local, NEW delay,
           run.script = RevocableOutput(revocation, local, delay)
    PROVE  /\ Execute(run, w) <=> w \in RevocableStacks(T, revocation, local, delay, run)
           /\ Len(run.script) = 10 /\ FitsFrom(Machines(run, w), w, 10)
<1>1. run.script = KeyOrLock(revocation, "CSV", delay, local)
  BY DEF RevocableOutput, KeyOrLock
<1>2. QED
  BY <1>1, KeyOrLockExecutes DEF RevocableStacks

LEMMA AnchorExecutes ==
    ASSUME NEW T, NEW w \in Seq(T), NEW run, NEW key, run.script = Anchor(key)
    PROVE  /\ Execute(run, w) <=> w \in AnchorFor(T, key, run)
           /\ Len(run.script) = 7 /\ FitsFrom(Machines(run, w), w, 7)
<1> DEFINE f == Machines(run, w)
           n == Len(w) + 4
<1>1. Len(run.script) = 7
  BY DEF Anchor
<1>2. n \in Nat /\ Len(w) + 1 < n
  BY LenProperties
<1>3. RunsFrom(f, w, run)
  BY <1>1, MachinesRun
<1> HIDE DEF f, n
<1>4. (\A i \in 0..7 : Fits(f[i], n)) /\ (Succeeds(f[7]) <=> w \in AnchorFor(T, key, run))
  BY <1>2, <1>3, AnchorRuns
<1>5. Execute(run, w) <=> Succeeds(f[7])
  BY <1>1 DEF Execute, f
<1>6. FitsFrom(f, w, 7)
  <2> SUFFICES ASSUME NEW k \in Nat, Len(w) + 4 <= k
               PROVE  \A i \in 0..7 : Fits(f[i], k)
    BY DEF FitsFrom
  <2>1. Len(w) + 1 < k
    BY LenProperties
  <2>2. QED
    BY <1>3, <2>1, AnchorRuns
<1>7. QED
  BY <1>1, <1>4, <1>5, <1>6 DEF f, n

LEMMA MultisigExecutes ==
    ASSUME NEW T, NEW w \in Seq(T), NEW run, NEW a, NEW b, run.script = Multisig2of2(a, b)
    PROVE  /\ Execute(run, w) <=>
                 w \in MultisigFor(T, SortedKeys(a, b)[1], SortedKeys(a, b)[2], run)
           /\ Len(run.script) = 5 /\ FitsFrom(Machines(run, w), w, 5)
<1> DEFINE f == Machines(run, w)
           n == Len(w) + 4
<1>1. Len(run.script) = 5
  BY DEF Multisig2of2
<1>2. n \in Nat /\ Len(w) + 4 <= n
  BY LenProperties
<1>3. RunsFrom(f, w, run)
  BY <1>1, MachinesRun
<1> HIDE DEF f, n
<1>4. /\ \A i \in 0..5 : Fits(f[i], n)
      /\ Succeeds(f[5]) <=> w \in MultisigFor(T, SortedKeys(a, b)[1], SortedKeys(a, b)[2], run)
  BY <1>2, <1>3, MultisigRuns
<1>5. Execute(run, w) <=> Succeeds(f[5])
  BY <1>1 DEF Execute, f
<1>6. FitsFrom(f, w, 5)
  <2> SUFFICES ASSUME NEW k \in Nat, Len(w) + 4 <= k
               PROVE  \A i \in 0..5 : Fits(f[i], k)
    BY DEF FitsFrom
  <2>1. Len(w) + 4 <= k
    BY LenProperties
  <2>2. QED
    BY <1>3, <2>1, MultisigRuns
<1>7. QED
  BY <1>1, <1>4, <1>5, <1>6 DEF f, n

(***************************************************************************)
(* What is on those stacks.                                                *)
(***************************************************************************)
LEMMA AppendedIn ==
    ASSUME NEW T, NEW t \in Seq(T), NEW x, Append(t, x) \in Seq(T)
    PROVE  x \in T
<1> DEFINE u == Append(t, x)
<1>1. Len(u) = Len(t) + 1 /\ Len(t) \in Nat /\ u[Len(t) + 1] = x
  BY AppendAny
<1> HIDE DEF u
<1>2. u \in Seq(T) /\ Len(t) + 1 \in 1..Len(u)
  BY <1>1 DEF u
<1>3. QED
  BY <1>1, <1>2, ElementOfSeq

LEMMA SignedHas ==
    ASSUME NEW T, NEW key, NEW run, NEW s \in SignedFor(T, key, run)
    PROVE  Sig(key, Sighash(run)) \in T
<1> DEFINE sig == Sig(key, Sighash(run))
<1>1. s \in Seq(T) /\ \E t \in Seq(T) : s = Append(t, sig)
  BY DEF SignedFor
<1> HIDE DEF sig
<1>2. PICK t \in Seq(T) : s = Append(t, sig)
  BY <1>1
<1>3. sig \in T
  BY <1>1, <1>2, AppendedIn
<1>4. QED
  BY <1>3 DEF sig

LEMMA HtlcEntitles ==
    ASSUME NEW T, NEW sender, NEW receiver, NEW hash, NEW l, NEW run,
           NEW w \in HtlcStacks(T, sender, receiver, hash, l, run)
    PROVE  \/ /\ Sig(receiver, Sighash(run)) \in T
              /\ \E x \in T : Digest("SHA256", x) = hash
           \/ Sig(sender, Sighash(run)) \in T /\ Past("CLTV", l, run)
<1>1. \/ \E s : s \in PreimageFor(T, hash, receiver, run)
      \/ \E s : s \in LockedFor(T, "CLTV", l, sender, run)
  BY DEF HtlcStacks, Chosen
<1>2. ASSUME NEW s \in PreimageFor(T, hash, receiver, run)
      PROVE  /\ Sig(receiver, Sighash(run)) \in T
             /\ \E x \in T : Digest("SHA256", x) = hash
  <2>1. PICK t \in Seq(T), x \in T :
           s = Append(t, x) /\ Digest("SHA256", x) = hash /\ t \in SignedFor(T, receiver, run)
    BY <1>2 DEF PreimageFor
  <2>2. QED
    BY <2>1, SignedHas
<1>3. ASSUME NEW s \in LockedFor(T, "CLTV", l, sender, run)
      PROVE  Sig(sender, Sighash(run)) \in T /\ Past("CLTV", l, run)
  BY <1>3, SignedHas DEF LockedFor
<1>4. QED
  BY <1>1, <1>2, <1>3

LEMMA KeyOrLockEntitles ==
    ASSUME NEW T, NEW key1, NEW lock, NEW l, NEW key2, NEW run,
           NEW w \in Chosen(T, SignedFor(T, key1, run), LockedFor(T, lock, l, key2, run))
    PROVE  \/ Sig(key1, Sighash(run)) \in T
           \/ Sig(key2, Sighash(run)) \in T /\ Past(lock, l, run)
<1>1. \/ \E s : s \in SignedFor(T, key1, run)
      \/ \E s : s \in LockedFor(T, lock, l, key2, run)
  BY DEF Chosen
<1>2. ASSUME NEW s \in LockedFor(T, lock, l, key2, run)
      PROVE  Sig(key2, Sighash(run)) \in T /\ Past(lock, l, run)
  BY <1>2, SignedHas DEF LockedFor
<1>3. QED
  BY <1>1, <1>2, SignedHas

LEMMA AnchorEntitles ==
    ASSUME NEW T, NEW key, NEW run, NEW w \in AnchorFor(T, key, run)
    PROVE  Sig(key, Sighash(run)) \in T \/ Past("CSV", 16, run)
BY SignedHas DEF AnchorFor

LEMMA MultisigEntitles ==
    ASSUME NEW T, NEW a, NEW b, NEW run,
           NEW w \in MultisigFor(T, SortedKeys(a, b)[1], SortedKeys(a, b)[2], run)
    PROVE  Sig(a, Sighash(run)) \in T /\ Sig(b, Sighash(run)) \in T
<1>1. SortedKeys(a, b) = <<a, b>> \/ SortedKeys(a, b) = <<b, a>>
  BY DEF SortedKeys
<1>2. \/ SortedKeys(a, b)[1] = a /\ SortedKeys(a, b)[2] = b
      \/ SortedKeys(a, b)[1] = b /\ SortedKeys(a, b)[2] = a
  BY <1>1
<1>3. /\ w \in Seq(T) /\ Len(w) >= 2
      /\ w[Len(w)] = Sig(SortedKeys(a, b)[2], Sighash(run))
      /\ w[Len(w) - 1] = Sig(SortedKeys(a, b)[1], Sighash(run))
  BY DEF MultisigFor
<1>4. Len(w) \in 1..Len(w) /\ Len(w) - 1 \in 1..Len(w)
  BY <1>3, LenProperties
<1>5. w[Len(w)] \in T /\ w[Len(w) - 1] \in T
  BY <1>3, <1>4, ElementOfSeq
<1>6. QED
  BY <1>2, <1>3, <1>5
-----------------------------------------------------------------------------
(***************************************************************************)
(* A spend: what is run for it is the script of its contract, on a part of *)
(* its witness.                                                            *)
(***************************************************************************)
WitOf(s) == s.tx.wit[s.input]
JobOf(s) == ToRun(SpkOf(s.contract), WitOf(s))

IsSpend(s) ==
    /\ s.contract \in Contract
    /\ WitOf(s) \in Seq(Range(WitOf(s)))
    /\ JobOf(s) # NoScript =>
          /\ s.contract # "key hash"
          /\ JobOf(s)[1] = ScriptOf(s.contract)
          /\ JobOf(s)[2] \in Seq(Range(WitOf(s)))
          /\ Len(JobOf(s)[2]) <= Len(WitOf(s))
    /\ s.tx.locktime \in Int /\ s.tx.ins[s.input].sequence.low \in Int

SpendVerified ==
    IF Job = NoScript
    THEN VerifyWithoutScript(spend.tx, spend.input, SpkOf(spend.contract), Amount)
    ELSE Execute(ToExecute, Job[2])

LEMMA RunParts ==
    ASSUME NEW script, NEW tx, NEW i, NEW amount
    PROVE  /\ Run(script, tx, i, amount).script = script /\ Run(script, tx, i, amount).tx = tx
           /\ Run(script, tx, i, amount).input = i
BY DEF Run

LEMMA NotBelow == \A a, b \in Int : ~(a < b) => a >= b
OBVIOUS

LEMMA LockNumbers == Expiry \in Int /\ Delay \in Int /\ 16 \in Int
BY SpendingAssumption

LEMMA VerifiedEntitles ==
    ASSUME IsSpend(spend), SpendVerified
    PROVE  Entitled
<1> DEFINE T == Range(Witness)
           run == Run(ScriptOf(spend.contract), spend.tx, spend.input, Amount)
           c == spend.contract
<1>1. /\ c \in Contract /\ Witness \in Seq(T)
      /\ Job # NoScript => /\ c # "key hash" /\ Job[1] = ScriptOf(c) /\ Job[2] \in Seq(T)
      /\ spend.tx.locktime \in Int /\ Input.sequence.low \in Int
  BY DEF IsSpend, WitOf, JobOf, Witness, Job, Input
<1>2. run.script = ScriptOf(c) /\ run.tx = spend.tx /\ run.input = spend.input
  BY RunParts
<1>3. \A key : HasSig(key) <=> Sig(key, Sighash(run)) \in T
  BY DEF HasSig, Has
<1>4. Past("CLTV", Expiry, run) => PastExpiry
  <2>1. Expiry \in Int /\ spend.tx.locktime \in Int
    BY Zenon, <1>1, LockNumbers
  <2>2. ~(spend.tx.locktime < Expiry) => spend.tx.locktime >= Expiry
    BY <2>1, NotBelow
  <2>3. run.tx.ins[run.input].sequence = Input.sequence /\ run.tx.locktime = spend.tx.locktime
    BY <1>2 DEF Input
  <2> HIDE DEF run
  <2>4. QED
    BY Zenon, <2>2, <2>3 DEF Past, PastExpiry
<1>5. \A d \in Int : Past("CSV", d, run) => PastDelay(d)
  <2> TAKE d \in Int
  <2>1. ~(Input.sequence.low < d) => Input.sequence.low >= d
    BY <1>1, NotBelow
  <2>2. run.tx.ins[run.input].sequence = Input.sequence /\ "CSV" # "CLTV"
    BY <1>2 DEF Input
  <2> HIDE DEF run
  <2>3. QED
    BY Zenon, <2>1, <2>2 DEF Past, PastDelay
<1>6. Delay \in Int /\ 16 \in Int
  BY LockNumbers
<1>7. \A x : Digest("SHA256", x) = PaymentHash => x = Preimage
  BY DEF PaymentHash, Digest
<1>8. CASE Job # NoScript
  <2>1. ToExecute = run /\ Execute(run, Job[2]) /\ Job[2] \in Seq(T)
    BY <1>1, <1>8 DEF ToExecute, SpendVerified
  <2> HIDE DEF run
  <2>2. CASE c = "multisig"
    <3>1. run.script = Multisig2of2(Alice, Bob)
      BY <1>2, <2>2 DEF ScriptOf
    <3>2. Job[2] \in MultisigFor(T, SortedKeys(Alice, Bob)[1], SortedKeys(Alice, Bob)[2], run)
      BY <2>1, <3>1, MultisigExecutes
    <3>3. HasSig(Alice) /\ HasSig(Bob)
      BY <1>3, <3>2, MultisigEntitles
    <3>4. QED
      BY <2>2, <3>3 DEF Entitled
  <2>3. CASE c \in {"htlc", "taproot"}
    <3>1. run.script = Htlc(Alice, Bob, PaymentHash, Expiry)
      BY <1>2, <2>3 DEF ScriptOf
    <3>2. Job[2] \in HtlcStacks(T, Alice, Bob, PaymentHash, Expiry, run)
      BY <2>1, <3>1, HtlcExecutes
    <3>3. \/ Sig(Bob, Sighash(run)) \in T /\ \E x \in T : Digest("SHA256", x) = PaymentHash
          \/ Sig(Alice, Sighash(run)) \in T /\ Past("CLTV", Expiry, run)
      BY <3>2, HtlcEntitles
    <3>4. HtlcParty
      BY <1>3, <1>4, <1>7, <3>3 DEF HtlcParty, Has
    <3>5. QED
      BY <2>3, <3>4 DEF Entitled
  <2>4. CASE c = "ptlc"
    <3>1. run.script = Ptlc(Alice, Bob, Expiry)
      BY <1>2, <2>4 DEF ScriptOf
    <3>2. Job[2] \in PtlcStacks(T, Alice, Bob, Expiry, run)
      BY <2>1, <3>1, PtlcExecutes
    <3>3. \/ Sig(Bob, Sighash(run)) \in T
          \/ Sig(Alice, Sighash(run)) \in T /\ Past("CLTV", Expiry, run)
      BY <3>2, KeyOrLockEntitles DEF PtlcStacks
    <3>4. QED
      BY <1>3, <1>4, <2>4, <3>3 DEF Entitled
  <2>5. CASE c = "revocable"
    <3>1. run.script = RevocableOutput(Revocation, Alice, Delay)
      BY <1>2, <2>5 DEF ScriptOf
    <3>2. Job[2] \in RevocableStacks(T, Revocation, Alice, Delay, run)
      BY <2>1, <3>1, RevocableExecutes
    <3>3. \/ Sig(Revocation, Sighash(run)) \in T
          \/ Sig(Alice, Sighash(run)) \in T /\ Past("CSV", Delay, run)
      BY <3>2, KeyOrLockEntitles DEF RevocableStacks
    <3>4. QED
      BY <1>3, <1>5, <1>6, <2>5, <3>3 DEF Entitled
  <2>6. CASE c = "anchor"
    <3>1. run.script = Anchor(Alice)
      BY <1>2, <2>6 DEF ScriptOf
    <3>2. Job[2] \in AnchorFor(T, Alice, run)
      BY <2>1, <3>1, AnchorExecutes
    <3>3. Sig(Alice, Sighash(run)) \in T \/ Past("CSV", 16, run)
      BY <3>2, AnchorEntitles
    <3>4. QED
      BY <1>3, <1>5, <1>6, <2>6, <3>3 DEF Entitled
  <2>7. QED
    BY <1>1, <1>8, <2>2, <2>3, <2>4, <2>5, <2>6 DEF Contract
<1>9. CASE Job = NoScript
  <2>1. VerifyWithoutScript(spend.tx, spend.input, SpkOf(c), Amount)
    BY <1>9 DEF SpendVerified
  <2>2. Len(Witness) \in Nat /\ \A i \in 1..Len(Witness) : Witness[i] \in T
    BY <1>1, LenProperties, ElementOfSeq
  <2>3. CASE c = "key hash"
    <3>1. SpkOf(c) = <<"wpkh", Digest("HASH160", Alice)>>
      BY <2>3 DEF SpkOf, P2wpkh
    <3>2. VerifyKeyHash(Digest("HASH160", Alice), Witness, spend.tx, spend.input, Amount)
      BY <2>1, <3>1 DEF VerifyWithoutScript, Witness
    <3>3. Len(Witness) = 2 /\ Witness[2] = Alice
      BY <3>2 DEF VerifyKeyHash, Digest
    <3>4. run = Run(P2wpkhScriptCode(Alice), spend.tx, spend.input, Amount)
      BY <2>3 DEF ScriptOf
    <3>5. Witness[1] = Sig(Alice, Sighash(run))
      BY <3>2, <3>3, <3>4 DEF VerifyKeyHash
    <3>6. HasSig(Alice)
      BY <1>3, <2>2, <3>3, <3>5
    <3>7. QED
      BY <2>3, <3>6 DEF Entitled
  <2>4. CASE c = "taproot"
    <3>1. SpkOf(c) = <<"tr", OutputKey>>
      BY <2>4 DEF SpkOf, P2tr
    <3>2. VerifyTaprootKey(OutputKey, Witness, spend.tx)
      BY <2>1, <3>1 DEF VerifyWithoutScript, Witness
    <3>3. Len(Witness) = 1 /\ Witness[1] = Schnorr(OutputKey, TapSighash(spend.tx))
      BY <3>2 DEF VerifyTaprootKey
    <3>4. Has(Schnorr(OutputKey, TapSighash(spend.tx)))
      BY <2>2, <3>3 DEF Has
    <3>5. QED
      BY <2>4, <3>4 DEF Entitled
  <2>5. CASE c \notin {"key hash", "taproot"}
    <3>1. SpkOf(c) = <<"wsh", Digest("SHA256", ScriptItem(ScriptOf(c)))>>
      BY <2>5 DEF SpkOf, P2wsh
    <3>2. ~VerifyWithoutScript(spend.tx, spend.input, SpkOf(c), Amount)
      BY <3>1 DEF VerifyWithoutScript
    <3>3. QED
      BY <2>1, <3>2
  <2>6. QED
    BY <2>3, <2>4, <2>5
<1>10. QED
  BY <1>8, <1>9
-----------------------------------------------------------------------------
(***************************************************************************)
(* The run of one script: a machine reaches what Machines says of the      *)
(* opcodes before pc, and the verdict is that of the whole script.         *)
(***************************************************************************)
IInv ==
    /\ IsSpend(spend)
    /\ verdict \in {"none", "running", "accepted", "rejected"}
    /\ verdict = "none" \/ Job = NoScript => m = Start(<<>>) /\ pc = 0
    /\ verdict = "running" => Job # NoScript
    /\ verdict # "none" /\ Job # NoScript =>
          /\ pc \in 1..(Len(Job[1]) + 1)
          /\ m = Machines(ToExecute, Job[2])[pc - 1]
    /\ verdict = "accepted" => SpendVerified
    /\ verdict = "rejected" => ~SpendVerified

LEMMA ScriptFits ==
    ASSUME IsSpend(spend), Job # NoScript
    PROVE  /\ ToExecute.script = Job[1] /\ Job[1] = ScriptOf(spend.contract)
           /\ Len(Job[1]) \in Nat /\ Len(Witness) \in Nat
           /\ \A i \in 0..Len(Job[1]) : Fits(Machines(ToExecute, Job[2])[i], Len(Witness) + 4)
<1> DEFINE T == Range(Witness)
           run == ToExecute
           w == Job[2]
           c == spend.contract
           f == Machines(run, w)
           Narrow(k) == k \in Nat /\ FitsFrom(f, w, k)
<1>1. /\ c \in Contract /\ c # "key hash" /\ Witness \in Seq(T)
      /\ Job[1] = ScriptOf(c) /\ w \in Seq(T) /\ Len(w) <= Len(Witness)
  BY DEF IsSpend, WitOf, JobOf, Witness, Job
<1>2. run.script = Job[1]
  BY RunParts DEF ToExecute
<1>3. Narrow(Len(run.script))
  <2> HIDE DEF run, w
  <2>1. CASE c = "multisig"
    <3>1. run.script = Multisig2of2(Alice, Bob)
      BY <1>1, <1>2, <2>1 DEF ScriptOf
    <3>2. Len(run.script) = 5 /\ Narrow(5)
      BY <1>1, <3>1, MultisigExecutes
    <3>3. QED
      BY <3>2
  <2>2. CASE c \in {"htlc", "taproot"}
    <3>1. run.script = Htlc(Alice, Bob, PaymentHash, Expiry)
      BY <1>1, <1>2, <2>2 DEF ScriptOf
    <3>2. Len(run.script) = 13 /\ Narrow(13)
      BY <1>1, <3>1, HtlcExecutes
    <3>3. QED
      BY <3>2
  <2>3. CASE c = "ptlc"
    <3>1. run.script = Ptlc(Alice, Bob, Expiry)
      BY <1>1, <1>2, <2>3 DEF ScriptOf
    <3>2. Len(run.script) = 10 /\ Narrow(10)
      BY <1>1, <3>1, PtlcExecutes
    <3>3. QED
      BY <3>2
  <2>4. CASE c = "revocable"
    <3>1. run.script = RevocableOutput(Revocation, Alice, Delay)
      BY <1>1, <1>2, <2>4 DEF ScriptOf
    <3>2. Len(run.script) = 10 /\ Narrow(10)
      BY <1>1, <3>1, RevocableExecutes
    <3>3. QED
      BY <3>2
  <2>5. CASE c = "anchor"
    <3>1. run.script = Anchor(Alice)
      BY <1>1, <1>2, <2>5 DEF ScriptOf
    <3>2. Len(run.script) = 7 /\ Narrow(7)
      BY <1>1, <3>1, AnchorExecutes
    <3>3. QED
      BY <3>2
  <2>6. QED
    BY <1>1, <2>1, <2>2, <2>3, <2>4, <2>5 DEF Contract
<1>4. Len(w) \in Nat /\ Len(Witness) \in Nat
  BY <1>1, LenProperties
<1> HIDE DEF run, w, f
<1>5. Len(w) + 4 <= Len(Witness) + 4 /\ Len(Witness) + 4 \in Nat
  <2> DEFINE a == Len(w)
             b == Len(Witness)
  <2>1. a \in Nat /\ b \in Nat /\ a <= b
    BY <1>1, <1>4
  <2> HIDE DEF a, b
  <2>2. a + 4 <= b + 4 /\ b + 4 \in Nat
    BY <2>1
  <2>3. QED
    BY <2>2 DEF a, b
<1>6. \A i \in 0..Len(Job[1]) : Fits(f[i], Len(Witness) + 4)
  BY <1>2, <1>3, <1>5 DEF FitsFrom
<1>7. QED
  BY <1>1, <1>2, <1>3, <1>4, <1>6 DEF f, run, w

(* A machine that has raised stays as it is.                               *)
LEMMA RaisedStays ==
    ASSUME NEW run, NEW w, NEW n \in Nat, Len(run.script) = n, NEW k \in 0..n,
           ~Machines(run, w)[k].ok
    PROVE  ~Execute(run, w)
<1> DEFINE f == Machines(run, w)
<1>1. \A i \in 1..n : f[i] = Step(f[i - 1], run.script[i], run)
  BY MachinesFacts
<1> HIDE DEF f
<1>2. \A i \in (k + 1)..n : f[i - 1] = f[k] => f[i] = f[k]
  <2> TAKE i \in (k + 1)..n
  <2>1. f[i] = Step(f[i - 1], run.script[i], run)
    BY <1>1
  <2>2. ~f[k].ok
    BY DEF f
  <2>3. QED
    BY Zenon, <2>1, <2>2 DEF Step
<1>3. \A i \in k..n : f[i] = f[k]
  <2>1. k \in Nat /\ n \in Nat
    OBVIOUS
  <2>2. QED
    BY <1>2, <2>1, Unchanged
<1>4. f[n] = f[k] /\ ~f[k].ok
  BY <1>3 DEF f
<1>5. ~f[n].ok
  BY Zenon, <1>4
<1>6. QED
  BY Zenon, <1>5 DEF Execute, Succeeds, f

LEMMA IInvNext ==
    ASSUME IInv, [Next]_vars
    PROVE  IInv'
<1> DEFINE run == ToExecute
           w == Job[2]
           n == Len(Job[1])
           f == Machines(run, w)
<1>1. ASSUME UNCHANGED spend
      PROVE  /\ IsSpend(spend)' /\ Job' = Job /\ ToExecute' = ToExecute
             /\ SpendVerified' <=> SpendVerified
  <2>1. Witness' = Witness
    BY <1>1 DEF Witness
  <2>2. Job' = Job
    BY <1>1, <2>1 DEF Job
  <2>3. ToExecute' = ToExecute
    BY <1>1, <2>2 DEF ToExecute
  <2>4. IsSpend(spend)'
    BY <1>1 DEF IInv
  <2>5. SpendVerified' <=> SpendVerified
    BY <1>1, <2>2, <2>3 DEF SpendVerified
  <2>6. QED
    BY <2>2, <2>3, <2>4, <2>5
<1>2. CASE VerifyProgram
  <2>1. UNCHANGED <<spend, m, pc>> /\ Job = NoScript /\ verdict = "none"
    BY <1>2 DEF VerifyProgram, Conclude
  <2>2. verdict' = IF SpendVerified THEN "accepted" ELSE "rejected"
    BY <1>2, <2>1 DEF VerifyProgram, Conclude, SpendVerified
  <2>3. QED
    BY <1>1, <2>1, <2>2 DEF IInv
<1>3. CASE StartScript
  <2>1. /\ UNCHANGED spend /\ Job # NoScript /\ verdict' = "running"
        /\ m' = Start(w) /\ pc' = 1
    BY <1>3 DEF StartScript
  <2>2. n \in Nat /\ run.script = Job[1]
    BY <2>1, ScriptFits DEF IInv
  <2>3. f[0] = Start(w)
    BY <2>2, MachinesFacts
  <2> HIDE DEF f, n
  <2>4. m' = f[pc' - 1] /\ pc' \in 1..(n + 1)
    BY <2>1, <2>2, <2>3
  <2>5. QED
    BY <1>1, <2>1, <2>4 DEF IInv, f, n
<1>4. CASE ExecuteOp
  <2>1. /\ UNCHANGED <<spend, verdict>> /\ verdict = "running" /\ pc <= n
        /\ m' = Step(m, Job[1][pc], run) /\ pc' = pc + 1
    BY <1>4 DEF ExecuteOp
  <2>2. Job # NoScript /\ pc \in 1..(n + 1) /\ m = f[pc - 1]
    BY <2>1 DEF IInv
  <2>3. n \in Nat /\ run.script = Job[1]
    BY <2>2, ScriptFits DEF IInv
  <2>4. \A i \in 1..n : f[i] = Step(f[i - 1], Job[1][i], run)
    BY <2>3, MachinesFacts
  <2> HIDE DEF f, n, run
  <2>5. pc \in 1..n /\ pc' \in 1..(n + 1) /\ pc' - 1 = pc
    BY <2>1, <2>2, <2>3
  <2>6. m' = f[pc' - 1]
    BY <2>1, <2>2, <2>4, <2>5
  <2>7. QED
    BY <1>1, <2>1, <2>2, <2>5, <2>6 DEF IInv, f, n, run
<1>5. CASE Raise
  <2>1. UNCHANGED <<spend, m, pc>> /\ verdict = "running" /\ ~m.ok /\ verdict' = "rejected"
    BY Zenon, <1>5 DEF Raise, Conclude
  <2>2. Job # NoScript /\ pc \in 1..(n + 1) /\ m = f[pc - 1]
    BY <2>1 DEF IInv
  <2>3. n \in Nat /\ run.script = Job[1]
    BY <2>2, ScriptFits DEF IInv
  <2>4. ~Execute(run, w)
    <3>1. pc - 1 \in 0..n /\ Len(run.script) = n
      BY <2>2, <2>3
    <3>2. ~f[pc - 1].ok
      BY Zenon, <2>1, <2>2
    <3>3. QED
      BY <2>3, <3>1, <3>2, RaisedStays
  <2>5. ~SpendVerified
    BY <2>2, <2>4 DEF SpendVerified
  <2>6. QED
    BY <1>1, <2>1, <2>2, <2>5 DEF IInv
<1>6. CASE Return
  <2>1. UNCHANGED <<spend, m, pc>> /\ verdict = "running" /\ pc > n
    BY <1>6 DEF Return, Conclude
  <2>2. verdict' = IF Succeeds(m) THEN "accepted" ELSE "rejected"
    BY <1>6 DEF Return, Conclude
  <2>3. Job # NoScript /\ pc \in 1..(n + 1) /\ m = f[pc - 1]
    BY <2>1 DEF IInv
  <2>4. n \in Nat /\ run.script = Job[1]
    BY <2>3, ScriptFits DEF IInv
  <2>5. Succeeds(m) <=> Execute(run, w)
    <3>1. Len(run.script) = n
      BY <2>4
    <3> HIDE DEF f, n
    <3>2. pc - 1 = n
      BY <2>1, <2>3, <2>4
    <3>3. QED
      BY <2>3, <3>1, <3>2 DEF Execute, f
  <2>6. Succeeds(m) <=> SpendVerified
    BY <2>3, <2>5 DEF SpendVerified
  <2>7. verdict' \in {"accepted", "rejected"}
    BY <2>2
  <2>8. verdict' = "accepted" => SpendVerified
    BY <2>2, <2>6
  <2>9. verdict' = "rejected" => ~SpendVerified
    BY <2>2, <2>6
  <2>10. QED
    BY <1>1, <2>1, <2>3, <2>7, <2>8, <2>9 DEF IInv
<1>7. CASE UNCHANGED vars
  <2>1. UNCHANGED <<spend, verdict, m, pc>>
    BY <1>7 DEF vars
  <2>2. QED
    BY <1>1, <2>1 DEF IInv
<1>8. QED
  BY <1>2, <1>3, <1>4, <1>5, <1>6, <1>7 DEF Next
-----------------------------------------------------------------------------
(***************************************************************************)
(* What the invariant says of each state.                                  *)
(***************************************************************************)
LEMMA StartFits == Fits(Start(<<>>), 0)
<1>1. Len(<<>>) <= 0 /\ <<>> \in Execs
  BY DEF Execs
<1>2. Start(<<>>) = Machine(<<>>, <<>>)
  BY MachineParts
<1> DEFINE none == <<>>
<1>3. none \in Execs /\ Len(none) <= 0
  BY <1>1
<1> HIDE DEF none
<1>4. Fits(Machine(none, none), 0)
  BY <1>3, MachineFits
<1>5. QED
  BY <1>2, <1>4 DEF none

LEMMA IInvTypes ==
    ASSUME IInv
    PROVE  TypeOK
<1> DEFINE run == ToExecute
           f == Machines(run, Job[2])
           k == Len(Witness) + 4
<1>1. Len(Witness) \in Nat
  BY LenProperties DEF IInv, IsSpend, WitOf, Witness
<1>2. Fits(m, k) /\ pc <= Len(ScriptOf(spend.contract)) + 1
  <2>1. CASE verdict = "none" \/ Job = NoScript
    <3>1. m = Start(<<>>) /\ pc = 0
      BY <2>1 DEF IInv
    <3>2. Len(m.stack) = 0
      BY <3>1, MachineParts
    <3>3. Fits(m, k)
      BY <1>1, <3>1, <3>2, StartFits DEF Fits
    <3>4. Len(ScriptOf(spend.contract)) \in Nat
      BY DEF IInv, IsSpend, Contract, ScriptOf, Multisig2of2, Htlc, Ptlc, RevocableOutput,
             Anchor, P2wpkhScriptCode
    <3>5. QED
      BY <3>1, <3>3, <3>4
  <2>2. CASE verdict # "none" /\ Job # NoScript
    <3>1. pc \in 1..(Len(Job[1]) + 1) /\ m = f[pc - 1]
      BY <2>2 DEF IInv
    <3>2. /\ Len(Job[1]) \in Nat /\ Job[1] = ScriptOf(spend.contract)
          /\ \A i \in 0..Len(Job[1]) : Fits(f[i], k)
      BY <2>2, ScriptFits DEF IInv
    <3> HIDE DEF f, k
    <3>3. Fits(m, k)
      BY <3>1, <3>2
    <3>4. QED
      BY <3>1, <3>2, <3>3
  <2>3. QED
    BY <2>1, <2>2
<1>3. verdict \in {"none", "running", "accepted", "rejected"}
  BY DEF IInv
<1>4. QED
  BY <1>2, <1>3 DEF TypeOK, Fits, Execs

LEMMA IInvEntitled ==
    ASSUME IInv
    PROVE  OnlyEntitled
BY VerifiedEntitles DEF IInv, OnlyEntitled
-----------------------------------------------------------------------------
(***************************************************************************)
(* What each kind of output runs for a witness.                            *)
(***************************************************************************)
LEMMA WshRuns ==
    ASSUME NEW T, NEW w \in Seq(T), NEW script
    PROVE  LET job == ToRun(P2wsh(script), w)
           IN job # NoScript =>
                 job[1] = script /\ job[2] \in Seq(Range(w)) /\ Len(job[2]) <= Len(w)
<1> DEFINE program == Digest("SHA256", ScriptItem(script))
           front == Front(w)
<1>1. ToRun(P2wsh(script), w) = ScriptPath(program, w)
  BY DEF ToRun, P2wsh
<1>2. \A x : x[1] = "script" /\ Digest("SHA256", x) = program => x[2] = script
  BY DEF Digest, ScriptItem
<1>3. w # <<>> => front \in Seq(Range(w)) /\ Len(front) <= Len(w)
  <2> SUFFICES ASSUME w # <<>> PROVE front \in Seq(Range(w)) /\ Len(front) <= Len(w)
    OBVIOUS
  <2>1. PICK t \in Seq(Range(w)), x \in Range(w) : w = Append(t, x)
    BY SeqOfRange, NotEmpty
  <2>2. front = t /\ Len(w) = Len(t) + 1 /\ Len(t) \in Nat
    BY <2>1, AppendFacts
  <2>3. QED
    BY <2>2
<1> HIDE DEF front, program
<1>4. \/ ScriptPath(program, w) = NoScript
      \/ /\ w # <<>> /\ Last(w)[1] = "script" /\ Digest("SHA256", Last(w)) = program
         /\ ScriptPath(program, w) = <<Last(w)[2], front>>
  BY DEF ScriptPath, front
<1>5. QED
  BY <1>1, <1>2, <1>3, <1>4

LEMMA WshRunsTop ==
    ASSUME NEW T, NEW t \in Seq(T), NEW script
    PROVE  /\ ToRun(P2wsh(script), Append(t, ScriptItem(script))) = <<script, t>>
           /\ <<script, t>> # NoScript
<1> DEFINE item == ScriptItem(script)
           w == Append(t, item)
           program == Digest("SHA256", item)
<1>1. item[1] = "script" /\ item[2] = script
  BY DEF ScriptItem
<1>2. P2wsh(script) = <<"wsh", program>>
  BY DEF P2wsh
<1> HIDE DEF item
<1>3. w # <<>> /\ Last(w) = item /\ Front(w) = t
  BY AppendAny, ZenonT(40)
<1> HIDE DEF w
<1>4. ScriptPath(program, w) = <<script, t>>
  BY <1>1, <1>3 DEF ScriptPath
<1>5. ToRun(<<"wsh", program>>, w) = ScriptPath(program, w)
  BY DEF ToRun
<1>6. QED
  BY <1>2, <1>4, <1>5 DEF w, item, NoScript

LEMMA WshIsSpend ==
    ASSUME NEW s, s.contract \in Contract \ {"key hash", "taproot"},
           NEW T, WitOf(s) \in Seq(T),
           s.tx.locktime \in Int, s.tx.ins[s.input].sequence.low \in Int
    PROVE  IsSpend(s)
<1>1. SpkOf(s.contract) = P2wsh(ScriptOf(s.contract))
  BY DEF SpkOf
<1>2. WitOf(s) \in Seq(Range(WitOf(s)))
  BY SeqOfRange
<1>3. JobOf(s) = ToRun(P2wsh(ScriptOf(s.contract)), WitOf(s))
  BY <1>1 DEF JobOf
<1>4. QED
  BY <1>2, <1>3, WshRuns DEF IsSpend

LEMMA KeyHashIsSpend ==
    ASSUME NEW s, s.contract = "key hash", NEW T, WitOf(s) \in Seq(T),
           s.tx.locktime \in Int, s.tx.ins[s.input].sequence.low \in Int
    PROVE  IsSpend(s) /\ JobOf(s) = NoScript
<1>1. SpkOf(s.contract)[1] = "wpkh"
  BY DEF SpkOf, P2wpkh
<1>2. JobOf(s) = NoScript
  BY <1>1 DEF JobOf, ToRun
<1>3. WitOf(s) \in Seq(Range(WitOf(s)))
  BY SeqOfRange
<1>4. QED
  BY <1>2, <1>3 DEF IsSpend, Contract

(***************************************************************************)
(* The leaves of the taproot output: the control block that is at hand     *)
(* leads to the root from the HTLC only.                                   *)
(***************************************************************************)
LEMMA RootOfTwo ==
    ASSUME NEW script, NEW p
    PROVE  MerkleRoot(script, <<p>>) = TapBranch(TapLeaf(script), p)
<1> DEFINE path == <<p>>
           IsNode(g) == g = [n \in 0..Len(path) |->
                                IF n = 0 THEN TapLeaf(script)
                                ELSE TapBranch(g[n - 1], path[n])]
           some == CHOOSE g : IsNode(g)
           leaf == TapLeaf(script)
           branch == TapBranch(leaf, p)
<1>1. Len(path) = 1 /\ 0..1 = {0, 1} /\ path[1] = p
  OBVIOUS
<1> HIDE DEF leaf, branch
<1>2. \A g : IsNode(g) => g[1] = branch
  <2> SUFFICES ASSUME NEW g, IsNode(g) PROVE g[1] = branch
    OBVIOUS
  <2> HIDE DEF path
  <2>1. g[0] = leaf
    BY <1>1 DEF leaf
  <2>2. g[1] = TapBranch(g[0], path[1])
    BY <1>1
  <2>3. QED
    BY <1>1, <2>1, <2>2 DEF branch
<1>3. \E g : IsNode(g)
  <2> DEFINE h == [n \in {0, 1} |-> IF n = 0 THEN leaf ELSE branch]
             k == [n \in {0, 1} |-> IF n = 0 THEN leaf ELSE TapBranch(h[n - 1], path[n])]
  <2> HIDE DEF path
  <2>1. h[0] = leaf /\ h[1] = branch
    OBVIOUS
  <2>2. TapBranch(h[1 - 1], path[1]) = branch
    BY <1>1, <2>1 DEF branch
  <2>3. h = k
    BY <2>2
  <2>4. IsNode(h)
    BY <1>1, <2>3 DEF leaf
  <2>5. QED
    BY <2>4
<1>4. MerkleRoot(script, path) = some[Len(path)]
  BY DEF MerkleRoot
<1>5. IsNode(some)
  BY <1>3
<1> HIDE DEF IsNode, some
<1>6. some[1] = branch
  BY <1>2, <1>5
<1>7. QED
  BY <1>1, <1>4, <1>6 DEF path, branch, leaf

LEMMA OtherRoot ==
    ASSUME NEW script,
           MerkleRoot(script, TapPath) = MerkleRoot(ScriptOf("taproot"), TapPath)
    PROVE  script = ScriptOf("taproot") \/ ScriptOf("taproot") = Anchor(Bob)
<1> DEFINE htlc == ScriptOf("taproot")
           other == TapLeaf(Anchor(Bob))
<1>1. /\ MerkleRoot(script, TapPath) = TapBranch(TapLeaf(script), other)
      /\ MerkleRoot(htlc, TapPath) = TapBranch(TapLeaf(htlc), other)
  BY RootOfTwo DEF TapPath
<1> HIDE DEF htlc
<1>2. {TapLeaf(script), other} = {TapLeaf(htlc), other}
  BY <1>1 DEF TapBranch, htlc
<1>3. TapLeaf(htlc) \in {TapLeaf(script), other}
  BY <1>2
<1>4. \A a, b : TapLeaf(a) = TapLeaf(b) => a = b
  BY DEF TapLeaf
<1>5. QED
  BY <1>3, <1>4 DEF htlc

LEMMA HtlcNotAnchor ==
    ASSUME NEW key
    PROVE  ScriptOf("taproot") # Anchor(key)
<1>1. ScriptOf("taproot") = Htlc(Alice, Bob, PaymentHash, Expiry)
  BY DEF ScriptOf
<1>2. Len(Htlc(Alice, Bob, PaymentHash, Expiry)) = 13 /\ Len(Anchor(key)) = 7
  BY DEF Htlc, Anchor
<1>3. QED
  BY <1>1, <1>2

LEMMA ConcatOne ==
    ASSUME NEW T, NEW s \in Seq(T), NEW x
    PROVE  s \o <<x>> = Append(s, x)
<1> DEFINE U == T \cup {x}
<1>1. s \in Seq(U) /\ x \in U
  BY SeqMonotonic
<1> HIDE DEF U
<1>2. QED
  BY <1>1, AppendIsConcat

LEMMA ConcatTwo ==
    ASSUME NEW T, NEW s \in Seq(T), NEW x, NEW y
    PROVE  s \o <<x, y>> = Append(Append(s, x), y)
<1> DEFINE U == T \cup {x, y}
<1>1. s \in Seq(U) /\ x \in U /\ y \in U
  BY SeqMonotonic
<1> HIDE DEF U
<1>2. <<x>> \in Seq(U) /\ <<y>> \in Seq(U) /\ Append(<<x>>, y) = <<x, y>>
  BY <1>1, ShortSequences
<1>3. <<x>> \o <<y>> = <<x, y>>
  <2> DEFINE one == <<x>>
  <2>1. one \in Seq(U) /\ Append(one, y) = <<x, y>>
    BY <1>2
  <2> HIDE DEF one
  <2>2. one \o <<y>> = Append(one, y)
    BY <2>1, ConcatOne
  <2>3. QED
    BY <2>1, <2>2 DEF one
<1>4. s \o <<x, y>> = (s \o <<x>>) \o <<y>>
  <2> DEFINE one == <<x>>
             two == <<y>>
  <2>1. one \in Seq(U) /\ two \in Seq(U)
    BY <1>2
  <2> HIDE DEF one, two
  <2>2. (s \o one) \o two = s \o (one \o two)
    BY <1>1, <2>1, ConcatAssociative
  <2>3. QED
    BY Zenon, <1>3, <2>2 DEF one, two
<1>5. s \o <<x>> = Append(s, x) /\ Append(s, x) \in Seq(U)
  BY <1>1, ConcatOne, AppendFacts
<1>6. QED
  BY <1>4, <1>5, ConcatOne

LEMMA NoControl ==
    ASSUME NEW T, NEW w \in Seq(T), \A x \in T : x[1] # "control", NEW key
    PROVE  ToRun(P2tr(key), w) = NoScript
<1>1. ToRun(P2tr(key), w) = TapscriptPath(key, w)
  BY DEF ToRun, P2tr
<1>2. ~(Len(w) >= 2 /\ Last(w)[1] = "control")
  <2> SUFFICES ASSUME Len(w) >= 2 PROVE Last(w) \in T
    OBVIOUS
  <2>1. Len(w) \in 1..Len(w)
    BY LenProperties
  <2>2. QED
    BY <2>1, ElementOfSeq DEF Last
<1>3. QED
  BY <1>1, <1>2 DEF TapscriptPath

LEMMA ControlRuns ==
    ASSUME NEW T, NEW t \in Seq(T), NEW script, NEW key,
           NEW w, w = Append(Append(t, ScriptItem(script)), Control(key, TapPath)),
           ToRun(P2tr(OutputKey), w) # NoScript
    PROVE  /\ ToRun(P2tr(OutputKey), w) = <<script, t>>
           /\ MerkleRoot(script, TapPath) = MerkleRoot(ScriptOf("taproot"), TapPath)
<1> DEFINE item == ScriptItem(script)
           control == Control(key, TapPath)
           root == MerkleRoot(ScriptOf("taproot"), TapPath)
           mine == MerkleRoot(script, TapPath)
<1>1. ToRun(P2tr(OutputKey), w) = TapscriptPath(OutputKey, w)
  BY DEF ToRun, P2tr
<1>2. item[2] = script /\ control[2] = key /\ control[3] = TapPath
  BY DEF ScriptItem, Control
<1>3. w = Append(Append(t, item), control)
  OBVIOUS
<1> HIDE DEF item, control, mine, root
<1>4. /\ Len(w) = Len(t) + 2 /\ Len(t) \in Nat /\ Last(w) = control
      /\ w[Len(w) - 1] = item /\ SubSeq(w, 1, Len(t)) = t
  BY <1>3, TwoOnTop
<1>5. Len(w) - 2 = Len(t)
  BY <1>4
<1>6. /\ TapTweak(key, mine) = OutputKey
      /\ TapscriptPath(OutputKey, w) = <<script, t>>
  BY <1>1, <1>2, <1>4, <1>5 DEF TapscriptPath, mine
<1>7. OutputKey = TapTweak(Bob, root)
  BY DEF OutputKey, root
<1>8. mine = root
  <2>1. \A a, b, c, d : TapTweak(a, b) = TapTweak(c, d) => b = d
    BY DEF TapTweak
  <2>2. QED
    BY <1>6, <1>7, <2>1
<1>9. QED
  BY <1>1, <1>6, <1>8 DEF mine, root

-----------------------------------------------------------------------------
(***************************************************************************)
(* Every spend that is tried is one: the witness is of any length and in   *)
(* any order, the taproot one ends with a control block or has none.       *)
(***************************************************************************)
LEMMA TailsAreSequences ==
    ASSUME NEW c \in Contract, NEW tail \in Tails(c)
    PROVE  \E R : tail \in Seq(R)
<1>1. \/ tail = <<>>
      \/ \E x : tail = <<x>>
      \/ \E x, y : tail = <<x, y>>
  BY DEF Tails
<1>2. <<>> \in Seq({})
  OBVIOUS
<1>3. \A x : <<x>> \in Seq({x})
  BY ShortSequences
<1>4. \A x, y : <<x, y>> \in Seq({x, y})
  OBVIOUS
<1>5. CASE \E x : tail = <<x>>
  <2>1. PICK x : tail = <<x>>
    BY <1>5
  <2>2. tail \in Seq({x})
    BY <1>3, <2>1
  <2>3. QED
    BY <2>2
<1>6. CASE \E x, y : tail = <<x, y>>
  <2>1. PICK x, y : tail = <<x, y>>
    BY <1>6
  <2>2. tail \in Seq({x, y})
    BY <1>4, <2>1
  <2>3. QED
    BY <2>2
<1>7. QED
  BY <1>1, <1>2, <1>5, <1>6

LEMMA TriedForm ==
    ASSUME NEW c, NEW tx \in Tried(c), NEW w
    PROVE  LET new == AddWitness(tx, w)
           IN /\ new.wit[1] = w /\ new.locktime \in Int /\ new.ins[1].sequence.low \in Int
<1> DEFINE new == AddWitness(tx, w)
           out == Output(Amount, P2wpkh(Stranger))
<1>1. PICK sequence \in Sequences, locktime \in Locktimes :
         tx = AddOutput(Spend(Deposit(c), sequence, locktime), Amount, P2wpkh(Stranger))
  BY DEF Tried
<1>2. tx = Tx(1, Deposit(c), sequence, locktime, <<out>>, <<>>)
  <2>1. Spend(Deposit(c), sequence, locktime) =
           Tx(1, Deposit(c), sequence, locktime, <<>>, <<>>)
    BY SpendForm
  <2>2. QED
    BY <1>1, <2>1, FirstOutput
<1>3. new = Tx(1, Deposit(c), sequence, locktime, <<out>>, <<w>>)
  BY <1>2, FirstWitness
<1>4. /\ new.wit = <<w>> /\ new.locktime = locktime
      /\ new.ins[1].sequence = sequence
  BY <1>3, TxParts
<1>5. locktime \in Int
  BY LockNumbers DEF Locktimes
<1>6. sequence.low \in Int
  <2>1. \A b, n : Sequence(b, n).low = n
    BY DEF Sequence
  <2>2. Delay \in Int /\ Delay - 1 \in Int
    BY LockNumbers
  <2>3. Final.low \in Int /\ CltvEnable.low \in Int
    <3>1. Final.low = 65535 /\ CltvEnable.low = 65534
      BY DEF Final, CltvEnable, Sequence
    <3>2. QED
      BY <3>1
  <2>4. QED
    BY <2>1, <2>2, <2>3 DEF Sequences
<1>7. QED
  BY <1>4, <1>5, <1>6

LEMMA NoItemControls ==
    ASSUME NEW tx, NEW x \in Items("taproot", tx)
    PROVE  x[1] # "control"
<1>1. /\ \A n : Num(n)[1] = "num"
      /\ \A key, message : Sig(key, message)[1] = "sig" /\ Schnorr(key, message)[1] = "schnorr"
      /\ \A id : Secret(id)[1] = "secret"
  BY DEF Num, Sig, Schnorr, Secret
<1>2. \/ \E n : x = Num(n)
      \/ \E key, message : x = Sig(key, message) \/ x = Schnorr(key, message)
      \/ \E id : x = Secret(id)
  BY DEF Items, SignedBy, SignP2wshInput, SignTaprootInput, Preimage
<1>3. QED
  BY <1>1, <1>2

LEMMA TapTried ==
    ASSUME NEW tx, NEW stack \in Seq(Items("taproot", tx)), NEW tail \in Tails("taproot"),
           NEW w, w = stack \o tail, ToRun(P2tr(OutputKey), w) # NoScript
    PROVE  LET job == ToRun(P2tr(OutputKey), w)
           IN /\ job[1] = ScriptOf("taproot") /\ job[2] \in Seq(Range(w))
              /\ Len(job[2]) <= Len(w)
<1> DEFINE I == Items("taproot", tx)
           htlc == ScriptOf("taproot")
           job == ToRun(P2tr(OutputKey), w)
<1>1. tail # <<>>
  <2> SUFFICES ASSUME tail = <<>> PROVE FALSE
    OBVIOUS
  <2>1. w = stack
    BY ConcatEmptySeq
  <2>2. QED
    BY <2>1, NoControl, NoItemControls
<1>2. PICK script, key : /\ script \in {htlc, Anchor(Alice)}
                         /\ tail = <<ScriptItem(script), Control(key, TapPath)>>
  BY <1>1 DEF Tails
<1>3. w = Append(Append(stack, ScriptItem(script)), Control(key, TapPath))
  BY <1>2, ConcatTwo
<1>4. /\ job = <<script, stack>>
      /\ MerkleRoot(script, TapPath) = MerkleRoot(htlc, TapPath)
  BY <1>3, ControlRuns
<1>5. script = htlc
  BY <1>2, <1>4, OtherRoot, HtlcNotAnchor
<1>6. stack \in Seq(Range(w)) /\ Len(stack) <= Len(w)
  <2> DEFINE item == ScriptItem(script)
             control == Control(key, TapPath)
             U == I \cup {item, control}
             p == Append(stack, item)
  <2>1. stack \in Seq(U) /\ item \in U /\ control \in U
    BY SeqMonotonic
  <2> HIDE DEF U, item, control
  <2>2. p \in Seq(U) /\ Len(p) = Len(stack) + 1 /\ \A i \in 1..Len(stack) : p[i] = stack[i]
    BY <2>1, AppendProperties
  <2>3. w = Append(p, control)
    BY <1>3 DEF item, control
  <2> HIDE DEF p
  <2>4. w \in Seq(U) /\ Len(w) = Len(p) + 1 /\ \A i \in 1..Len(p) : w[i] = p[i]
    BY <2>1, <2>2, <2>3, AppendProperties
  <2>5. Len(stack) \in Nat /\ Len(p) \in Nat /\ Len(w) \in Nat
    BY <2>1, <2>2, <2>4, LenProperties
  <2>6. Range(stack) \subseteq Range(w)
    <3> SUFFICES ASSUME NEW i \in 1..Len(stack) PROVE stack[i] \in Range(w)
      BY <2>1, RangeEquality
    <3>1. i \in 1..Len(p) /\ i \in 1..Len(w)
      BY <2>2, <2>4, <2>5
    <3>2. w[i] = stack[i]
      BY <2>2, <2>4, <3>1
    <3>3. QED
      BY <2>4, <3>1, <3>2, RangeEquality
  <2>7. stack \in Seq(Range(stack))
    BY <2>1, SeqOfRange
  <2>8. stack \in Seq(Range(w))
    BY <2>6, <2>7, SeqMonotonic
  <2>9. Len(stack) <= Len(w)
    BY <2>2, <2>4, <2>5
  <2>10. QED
    BY <2>8, <2>9
<1>7. job[1] = script /\ job[2] = stack
  BY <1>4
<1>8. QED
  BY <1>5, <1>6, <1>7

LEMMA WholeParts ==
    ASSUME NEW c, NEW tx
    PROVE  Whole(c, tx).contract = c /\ Whole(c, tx).input = 1 /\ Whole(c, tx).tx = tx
BY DEF Whole

LEMMA TriedIsSpend ==
    ASSUME NEW s, IsTried(s)
    PROVE  IsSpend(s)
<1>0. PICK c \in Contract : \E tx \in Tried(c) :
         \E stack \in Stacks(Items(c, tx)), tail \in Tails(c) :
            s = Whole(c, AddWitness(tx, stack \o tail))
  BY DEF IsTried
<1>1. PICK tx \in Tried(c) :
         \E stack \in Stacks(Items(c, tx)), tail \in Tails(c) :
            s = Whole(c, AddWitness(tx, stack \o tail))
  BY <1>0
<1> DEFINE I == Items(c, tx)
<1>2. PICK stack \in Stacks(I), tail \in Tails(c) : s = Whole(c, AddWitness(tx, stack \o tail))
  BY <1>1
<1> DEFINE w == stack \o tail
           new == AddWitness(tx, w)
<1>3. new.wit[1] = w /\ new.locktime \in Int /\ new.ins[1].sequence.low \in Int
  BY TriedForm
<1> HIDE DEF new
<1>4. s.contract = c /\ s.input = 1 /\ s.tx = new
  BY <1>2, WholeParts DEF new
<1>5. /\ s.contract = c /\ WitOf(s) = w /\ s.tx.locktime \in Int
      /\ s.tx.ins[s.input].sequence.low \in Int
  BY <1>3, <1>4 DEF WitOf
<1>6. stack \in Seq(I)
  <2>1. PICK n \in 0..MaxItems : stack \in [1..n -> I]
    BY DEF Stacks
  <2>2. n \in Nat
    BY SpendingAssumption
  <2>3. QED
    BY <2>1, <2>2, SeqDef
<1>7. \E T : w \in Seq(T)
  <2>1. PICK R : tail \in Seq(R)
    BY TailsAreSequences
  <2> DEFINE T == I \cup R
  <2>2. stack \in Seq(T) /\ tail \in Seq(T)
    BY <1>6, <2>1, SeqMonotonic
  <2> HIDE DEF T
  <2>3. w \in Seq(T)
    BY <2>2, ConcatProperties
  <2>4. QED
    BY <2>3
<1>8. PICK T : w \in Seq(T)
  BY <1>7
<1> HIDE DEF w
<1>9. CASE c \notin {"key hash", "taproot"}
  BY <1>5, <1>8, <1>9, WshIsSpend
<1>10. CASE c = "key hash"
  BY <1>5, <1>8, <1>10, KeyHashIsSpend
<1>11. CASE c = "taproot"
  <2>1. JobOf(s) = ToRun(P2tr(OutputKey), w)
    BY <1>5, <1>11 DEF JobOf, SpkOf
  <2>2. stack \in Seq(Items("taproot", tx)) /\ tail \in Tails("taproot") /\ w = stack \o tail
    BY <1>6, <1>11 DEF w
  <2>3. JobOf(s) # NoScript =>
           /\ JobOf(s)[1] = ScriptOf("taproot") /\ JobOf(s)[2] \in Seq(Range(w))
           /\ Len(JobOf(s)[2]) <= Len(w)
    BY <2>1, <2>2, TapTried
  <2>4. w \in Seq(Range(w))
    BY <1>8, SeqOfRange
  <2>5. QED
    BY <1>5, <1>11, <2>3, <2>4 DEF IsSpend, Contract
<1>12. QED
  BY <1>9, <1>10, <1>11
-----------------------------------------------------------------------------
(***************************************************************************)
(* The transactions of the builders: what they spend, when and with which  *)
(* witnesses, whatever they pay to.                                        *)
(***************************************************************************)
Txn(ins, outs, locktime, wit) ==
    [version |-> 1, ins |-> ins, outs |-> outs, locktime |-> locktime, wit |-> wit]

IsTxn(tx, ins, locktime, wit) == \E outs : tx = Txn(ins, outs, locktime, wit)

In(prev, sequence) == [prev |-> prev, sequence |-> sequence]

(* One input, and not a witness yet.                                       *)
Draft(tx, sequence, locktime) == \E prev : IsTxn(tx, <<In(prev, sequence)>>, locktime, <<>>)

PutIns(tx, ins) == [tx EXCEPT !.ins = ins]

LEMMA TxnForms ==
    ASSUME NEW i, NEW o, NEW l, NEW w
    PROVE  LET tx == Txn(i, o, l, w)
           IN /\ tx.ins = i /\ tx.outs = o /\ tx.locktime = l /\ tx.wit = w
              /\ \A amount, spk : AddOutput(tx, amount, spk) =
                                     Txn(i, Append(o, Output(amount, spk)), l, w)
              /\ \A stack : AddWitness(tx, stack) = Txn(i, o, l, Append(w, stack))
              /\ \A p, s : AddInput(tx, p, s) = Txn(Append(i, In(p, s)), o, l, w)
              /\ TxId(tx) = Txn(i, o, l, <<>>)
<1> DEFINE tx == Txn(i, o, l, w)
<1>1. tx.ins = i /\ tx.outs = o /\ tx.locktime = l /\ tx.wit = w
  BY DEF Txn
<1>2. /\ \A v : PutOuts(tx, v) = Txn(i, v, l, w)
      /\ \A v : PutWit(tx, v) = Txn(i, o, l, v)
      /\ \A v : PutIns(tx, v) = Txn(v, o, l, w)
  BY DEF Txn, PutOuts, PutWit, PutIns
<1> HIDE DEF tx
<1>3. \A amount, spk : AddOutput(tx, amount, spk) = PutOuts(tx, Append(o, Output(amount, spk)))
  BY <1>1 DEF AddOutput, PutOuts, Output
<1>4. \A stack : AddWitness(tx, stack) = PutWit(tx, Append(w, stack))
  BY <1>1 DEF AddWitness, PutWit
<1>5. \A p, s : AddInput(tx, p, s) = PutIns(tx, Append(i, In(p, s)))
  BY <1>1 DEF AddInput, PutIns, In
<1>6. TxId(tx) = PutWit(tx, <<>>)
  BY DEF TxId, PutWit
<1>7. QED
  BY <1>1, <1>2, <1>3, <1>4, <1>5, <1>6 DEF tx

LEMMA DraftSpend ==
    ASSUME NEW p, NEW s, NEW l
    PROVE  Draft(Spend(p, s, l), s, l)
<1>1. Spend(p, s, l) = Txn(<<In(p, s)>>, <<>>, l, <<>>)
  BY SpendForm DEF Tx, Txn, In
<1>2. QED
  BY <1>1 DEF Draft, IsTxn

LEMMA DraftAdds ==
    ASSUME NEW tx, NEW s, NEW l, Draft(tx, s, l)
    PROVE  \A amount, spk : /\ Draft(AddOutput(tx, amount, spk), s, l)
                            /\ Draft(AddUnlessDust(tx, amount, spk), s, l)
<1>1. \A amount, spk : Draft(AddOutput(tx, amount, spk), s, l)
  <2> TAKE amount, spk
  <2>1. PICK p, o : tx = Txn(<<In(p, s)>>, o, l, <<>>)
    BY DEF Draft, IsTxn
  <2>2. AddOutput(tx, amount, spk) = Txn(<<In(p, s)>>, Append(o, Output(amount, spk)), l, <<>>)
    BY <2>1, TxnForms
  <2>3. QED
    BY <2>2 DEF Draft, IsTxn
<1>2. QED
  BY <1>1 DEF AddUnlessDust

LEMMA DraftWithHtlc ==
    ASSUME NEW tx, NEW s, NEW l, Draft(tx, s, l), NEW amount, NEW script
    PROVE  Draft(WithHtlcs(tx, <<<<amount, script>>>>), s, l)
<1> DEFINE htlc == <<amount, script>>
           htlcs == <<htlc>>
           IsWith(g) == g = [n \in 0..Len(htlcs) |->
                                IF n = 0 THEN tx
                                ELSE AddUnlessDust(g[n - 1], htlcs[n][1], P2wsh(htlcs[n][2]))]
           some == CHOOSE g : IsWith(g)
           new == AddUnlessDust(tx, amount, P2wsh(script))
<1>1. Len(htlcs) = 1 /\ 0..1 = {0, 1} /\ htlcs[1] = htlc
  OBVIOUS
<1>2. htlc[1] = amount /\ htlc[2] = script
  OBVIOUS
<1>3. WithHtlcs(tx, htlcs) = some[Len(htlcs)]
  BY DEF WithHtlcs
<1> HIDE DEF htlc, htlcs, new
<1>4. \A g : IsWith(g) => g[1] = new
  <2> SUFFICES ASSUME NEW g, IsWith(g) PROVE g[1] = new
    OBVIOUS
  <2>1. g[0] = tx
    BY <1>1
  <2>2. g[1] = AddUnlessDust(g[0], htlcs[1][1], P2wsh(htlcs[1][2]))
    BY <1>1
  <2>3. QED
    BY <1>1, <1>2, <2>1, <2>2 DEF new
<1>5. \E g : IsWith(g)
  <2> DEFINE h == [n \in {0, 1} |-> IF n = 0 THEN tx ELSE new]
             k == [n \in {0, 1} |->
                      IF n = 0 THEN tx
                      ELSE AddUnlessDust(h[n - 1], htlcs[n][1], P2wsh(htlcs[n][2]))]
  <2>1. h[0] = tx /\ h[1] = new
    OBVIOUS
  <2>2. AddUnlessDust(h[1 - 1], htlcs[1][1], P2wsh(htlcs[1][2])) = new
    BY <1>1, <1>2, <2>1 DEF new
  <2>3. h = k
    BY <2>2
  <2>4. IsWith(h)
    BY <1>1, <2>3
  <2>5. QED
    BY <2>4
<1>6. IsWith(some)
  BY <1>5
<1> HIDE DEF IsWith, some
<1>7. some[1] = new
  BY <1>4, <1>6
<1>8. Draft(new, s, l)
  BY DraftAdds DEF new
<1>9. WithHtlcs(tx, htlcs) = new
  BY <1>1, <1>3, <1>7
<1>10. QED
  BY <1>8, <1>9 DEF htlcs, htlc

LEMMA SighashOf ==
    ASSUME NEW script, NEW tx, NEW i, NEW amount
    PROVE  /\ Sighash(Run(script, tx, i, amount)) = Run(script, TxId(tx), i, amount)
           /\ TapSighash(tx) = [tap |-> TxId(tx)]
BY DEF Sighash, TapSighash, TxId, Run

LEMMA DraftSigned ==
    ASSUME NEW tx, NEW s, NEW l, Draft(tx, s, l), NEW stack
    PROVE  LET new == AddWitness(tx, stack)
           IN /\ tx.wit = <<>> /\ new.wit[1] = stack /\ new.locktime = l
              /\ new.ins[1].sequence = s /\ TxId(new) = TxId(tx)
<1>1. PICK p, o : tx = Txn(<<In(p, s)>>, o, l, <<>>)
  BY DEF Draft, IsTxn
<1> DEFINE ins == <<In(p, s)>>
           none == <<>>
<1>2. ins[1].sequence = s /\ Append(none, stack)[1] = stack
  BY DEF In
<1> HIDE DEF ins, none
<1>3. AddWitness(Txn(ins, o, l, none), stack) = Txn(ins, o, l, Append(none, stack))
  BY TxnForms
<1>4. tx = Txn(ins, o, l, none)
  BY <1>1 DEF ins, none
<1> DEFINE new == Txn(ins, o, l, Append(none, stack))
<1>5. /\ new.wit = Append(none, stack) /\ new.locktime = l /\ new.ins = ins
      /\ TxId(new) = Txn(ins, o, l, none) /\ TxId(tx) = Txn(ins, o, l, none) /\ tx.wit = none
  BY <1>4, TxnForms DEF none
<1>6. QED
  BY <1>2, <1>3, <1>4, <1>5 DEF none

-----------------------------------------------------------------------------
(***************************************************************************)
(* A draft with a witness that its signature makes good is a spend, and it *)
(* is verified.                                                            *)
(***************************************************************************)
VerifiedOf(s) ==
    IF JobOf(s) = NoScript
    THEN VerifyWithoutScript(s.tx, s.input, SpkOf(s.contract), Amount)
    ELSE Execute(Run(JobOf(s)[1], s.tx, s.input, Amount), JobOf(s)[2])

Good(s) == IsSpend(s) /\ VerifiedOf(s)

LEMMA WshGood ==
    ASSUME NEW s, s.contract \in Contract \ {"key hash", "taproot"},
           s.tx.locktime \in Int, s.tx.ins[s.input].sequence.low \in Int,
           NEW T, NEW t \in Seq(T), WitOf(s) = Append(t, ScriptItem(ScriptOf(s.contract))),
           Execute(Run(ScriptOf(s.contract), s.tx, s.input, Amount), t)
    PROVE  Good(s)
<1> DEFINE script == ScriptOf(s.contract)
           item == ScriptItem(script)
           job == <<script, t>>
<1>1. SpkOf(s.contract) = P2wsh(script)
  BY DEF SpkOf
<1>2. WitOf(s) = Append(t, item)
  OBVIOUS
<1>3. JobOf(s) = job /\ job # NoScript
  BY <1>1, WshRunsTop DEF JobOf
<1>4. job[1] = script /\ job[2] = t
  OBVIOUS
<1> HIDE DEF item
<1>5. WitOf(s) \in Seq(T \cup {item})
  <2>1. Append(t, item) \in Seq(T \cup {item})
    BY AppendAny
  <2>2. QED
    BY <1>2, <2>1
<1> HIDE DEF job
<1>6. IsSpend(s)
  BY <1>5, WshIsSpend
<1>7. Execute(Run(job[1], s.tx, s.input, Amount), job[2])
  BY <1>4
<1>8. QED
  BY <1>3, <1>6, <1>7 DEF Good, VerifiedOf

(* The run of a signed draft, and the signature of it.                     *)
SignedRun(c, tx, stack) == Run(ScriptOf(c), AddWitness(tx, stack), 1, Amount)

LEMMA SignedRunParts ==
    ASSUME NEW c, NEW tx, NEW s, NEW l, Draft(tx, s, l), NEW stack
    PROVE  LET run == SignedRun(c, tx, stack)
           IN /\ run.script = ScriptOf(c) /\ run.tx.locktime = l
              /\ run.tx.ins[run.input].sequence = s
              /\ \A key : SignedBy(c, tx, key) = Sig(key, Sighash(run))
<1> DEFINE new == AddWitness(tx, stack)
           run == Run(ScriptOf(c), new, 1, Amount)
<1>1. new.locktime = l /\ new.ins[1].sequence = s /\ TxId(new) = TxId(tx)
  BY DraftSigned
<1> HIDE DEF new
<1>2. run.script = ScriptOf(c) /\ run.tx = new /\ run.input = 1
  BY RunParts
<1>3. Sighash(run) = Sighash(Run(ScriptOf(c), tx, 1, Amount))
  BY <1>1, SighashOf
<1>4. QED
  BY <1>1, <1>2, <1>3 DEF SignedBy, SignP2wshInput, SignedRun, new

LEMMA SignedGood ==
    ASSUME NEW c \in Contract \ {"key hash", "taproot"},
           NEW tx, NEW s, NEW l \in Int, Draft(tx, s, l), s.low \in Int,
           NEW T, NEW t \in Seq(T), NEW stack, stack = Append(t, ScriptItem(ScriptOf(c))),
           Execute(SignedRun(c, tx, stack), t)
    PROVE  Good(Whole(c, AddWitness(tx, stack)))
<1> DEFINE new == AddWitness(tx, stack)
           whole == Whole(c, new)
<1>1. new.locktime = l /\ new.ins[1].sequence = s /\ new.wit[1] = stack
  BY DraftSigned, ZenonT(40)
<1>2. Execute(Run(ScriptOf(c), new, 1, Amount), t)
  BY DEF SignedRun
<1> HIDE DEF new
<1>3. whole.contract = c /\ whole.input = 1 /\ whole.tx = new
  BY WholeParts
<1> HIDE DEF whole
<1>4. WitOf(whole) = stack
  BY <1>1, <1>3 DEF WitOf
<1>5. Good(whole)
  BY <1>1, <1>2, <1>3, <1>4, WshGood
<1>6. QED
  BY <1>5 DEF whole, new

LEMMA OneSigned ==
    ASSUME NEW T, NEW key, NEW run, Sig(key, Sighash(run)) \in T
    PROVE  <<Sig(key, Sighash(run))>> \in SignedFor(T, key, run)
<1> DEFINE sig == Sig(key, Sighash(run))
           none == <<>>
<1>1. none \in Seq(T) /\ <<sig>> \in Seq(T) /\ <<sig>> = Append(none, sig)
  BY ShortSequences
<1>2. QED
  BY <1>1 DEF SignedFor

LEMMA LongerSequences ==
    ASSUME NEW a, NEW b, NEW c, NEW d
    PROVE  Append(<<a, b>>, c) = <<a, b, c>> /\ Append(<<a, b, c>>, d) = <<a, b, c, d>>
<1> DEFINE U == {a, b, c, d}
           two == <<a, b>>
           three == <<a, b, c>>
           four == <<a, b, c, d>>
<1>1. /\ two \in Seq(U) /\ Len(two) = 2 /\ two[1] = a /\ two[2] = b
      /\ three \in Seq(U) /\ Len(three) = 3 /\ three[1] = a /\ three[2] = b /\ three[3] = c
      /\ four \in Seq(U) /\ Len(four) = 4 /\ four[1] = a /\ four[2] = b /\ four[3] = c
      /\ four[4] = d
  OBVIOUS
<1>2. c \in U /\ d \in U
  OBVIOUS
<1> HIDE DEF U, two, three, four
<1>3. Append(two, c) = three
  <2> DEFINE new == Append(two, c)
  <2>1. new \in Seq(U) /\ Len(new) = 3 /\ new[1] = a /\ new[2] = b /\ new[3] = c
    <3>1. /\ new \in Seq(U) /\ Len(new) = Len(two) + 1 /\ new[Len(two) + 1] = c
          /\ \A i \in 1..Len(two) : new[i] = two[i]
      <4>1. two \in Seq(U) /\ c \in U
        BY <1>1, <1>2
      <4>2. QED
        BY <4>1, AppendProperties
    <3>2. Len(two) + 1 = 3 /\ 1 \in 1..Len(two) /\ 2 \in 1..Len(two)
      BY <1>1
    <3> HIDE DEF new
    <3>3. QED
      BY <1>1, <3>1, <3>2
  <2> HIDE DEF new
  <2>2. \A i \in 1..3 : new[i] = three[i]
    <3>1. 1..3 = {1, 2, 3}
      OBVIOUS
    <3>2. QED
      BY <1>1, <2>1, <3>1
  <2>3. new = three
    BY <1>1, <2>1, <2>2, SeqEqual
  <2>4. QED
    BY <2>3 DEF new
<1>4. Append(three, d) = four
  <2> DEFINE new == Append(three, d)
  <2>1. /\ new \in Seq(U) /\ Len(new) = 4 /\ new[1] = a /\ new[2] = b /\ new[3] = c
        /\ new[4] = d
    <3>1. /\ new \in Seq(U) /\ Len(new) = Len(three) + 1 /\ new[Len(three) + 1] = d
          /\ \A i \in 1..Len(three) : new[i] = three[i]
      <4>1. three \in Seq(U) /\ d \in U
        BY <1>1, <1>2
      <4>2. QED
        BY <4>1, AppendProperties
    <3>2. /\ Len(three) + 1 = 4 /\ 1 \in 1..Len(three) /\ 2 \in 1..Len(three)
          /\ 3 \in 1..Len(three)
      BY <1>1
    <3> HIDE DEF new
    <3>3. QED
      BY <1>1, <3>1, <3>2
  <2> HIDE DEF new
  <2>2. \A i \in 1..4 : new[i] = four[i]
    <3>1. 1..4 = {1, 2, 3, 4}
      OBVIOUS
    <3>2. QED
      BY <1>1, <2>1, <3>1
  <2>3. new = four
    BY <1>1, <2>1, <2>2, SeqEqual
  <2>4. QED
    BY <2>3 DEF new
<1>5. QED
  BY <1>3, <1>4 DEF two, three, four

LEMMA FulfilledGood ==
    ASSUME NEW tx, NEW s, NEW l \in Int, Draft(tx, s, l), s.low \in Int
    PROVE  Good(Whole("htlc", AddWitness(tx, FulfillWitness(SignedBy("htlc", tx, Bob), Preimage,
                                                            ScriptOf("htlc")))))
<1> DEFINE sig == SignedBy("htlc", tx, Bob)
           item == ScriptItem(ScriptOf("htlc"))
           stack == FulfillWitness(sig, Preimage, ScriptOf("htlc"))
           t == <<sig, Preimage, Num(1)>>
           two == <<sig, Preimage>>
           run == SignedRun("htlc", tx, stack)
           T == {sig, Preimage, Num(1)}
<1>1. /\ t \in Seq(T) /\ two \in Seq(T) /\ Append(two, Num(1)) = t
      /\ Append(t, item) = <<sig, Preimage, Num(1), item>>
  <2>1. t \in Seq(T) /\ two \in Seq(T)
    OBVIOUS
  <2>2. QED
    BY <2>1, LongerSequences
<1>2. stack = Append(t, item)
  BY <1>1 DEF FulfillWitness
<1>3. run.script = Htlc(Alice, Bob, PaymentHash, Expiry) /\ sig = Sig(Bob, Sighash(run))
  <2>1. run.script = ScriptOf("htlc") /\ \A key : SignedBy("htlc", tx, key) = Sig(key, Sighash(run))
    BY SignedRunParts
  <2>2. ScriptOf("htlc") = Htlc(Alice, Bob, PaymentHash, Expiry)
    BY DEF ScriptOf
  <2>3. QED
    BY <2>1, <2>2
<1>4. <<sig>> \in SignedFor(T, Bob, run)
  BY <1>3, OneSigned
<1>5. Append(<<sig>>, Preimage) = two /\ <<sig>> \in Seq(T)
  BY ShortSequences
<1>6. Num(1) # Num(0) /\ Num(1) \in T /\ Preimage \in T
  BY DEF Num
<1> HIDE DEF sig, t, run, two, T
<1>7. two \in PreimageFor(T, PaymentHash, Bob, run)
  BY <1>1, <1>4, <1>5, <1>6 DEF PreimageFor, PaymentHash
<1>8. t \in HtlcStacks(T, Alice, Bob, PaymentHash, Expiry, run)
  BY <1>1, <1>6, <1>7 DEF HtlcStacks, Chosen
<1>9. Execute(run, t)
  BY <1>1, <1>3, <1>8, HtlcExecutes
<1> HIDE DEF stack, item
<1>10. Good(Whole("htlc", AddWitness(tx, stack)))
  BY <1>1, <1>2, <1>9, SignedGood DEF Contract, run, item
<1>11. QED
  BY <1>10 DEF stack, sig

LEMMA RefundedGood ==
    ASSUME NEW tx, NEW s, NEW l \in Int, Draft(tx, s, l), s.low \in Int,
           s # Final, l >= Expiry
    PROVE  Good(Whole("htlc", AddWitness(tx, RefundWitness(SignedBy("htlc", tx, Alice),
                                                           ScriptOf("htlc")))))
<1> DEFINE sig == SignedBy("htlc", tx, Alice)
           item == ScriptItem(ScriptOf("htlc"))
           stack == RefundWitness(sig, ScriptOf("htlc"))
           one == <<sig>>
           t == <<sig, Num(0)>>
           run == SignedRun("htlc", tx, stack)
           T == {sig, Num(0)}
<1>1. /\ one \in Seq(T) /\ Append(one, Num(0)) = t /\ t \in Seq(T)
      /\ Append(t, item) = <<sig, Num(0), item>>
  <2>1. one \in Seq(T) /\ t \in Seq(T)
    OBVIOUS
  <2>2. QED
    BY <2>1, ShortSequences, LongerSequences
<1>2. stack = Append(t, item)
  BY <1>1 DEF RefundWitness
<1>3. /\ run.script = Htlc(Alice, Bob, PaymentHash, Expiry) /\ sig = Sig(Alice, Sighash(run))
      /\ run.tx.locktime = l /\ run.tx.ins[run.input].sequence = s
  <2>1. /\ run.script = ScriptOf("htlc") /\ run.tx.locktime = l
        /\ run.tx.ins[run.input].sequence = s
        /\ \A key : SignedBy("htlc", tx, key) = Sig(key, Sighash(run))
    BY SignedRunParts
  <2>2. ScriptOf("htlc") = Htlc(Alice, Bob, PaymentHash, Expiry)
    BY DEF ScriptOf
  <2>3. QED
    BY <2>1, <2>2
<1>4. one \in SignedFor(T, Alice, run)
  BY <1>3, OneSigned
<1>5. Num(0) \in T
  OBVIOUS
<1> HIDE DEF sig, one, t, run, T
<1>6. Past("CLTV", Expiry, run)
  <2>1. ~(l < Expiry)
    BY LockNumbers
  <2>2. QED
    BY Zenon, <1>3, <2>1 DEF Past
<1>7. one \in LockedFor(T, "CLTV", Expiry, Alice, run)
  BY <1>4, <1>6 DEF LockedFor
<1>8. t \in HtlcStacks(T, Alice, Bob, PaymentHash, Expiry, run)
  BY <1>1, <1>5, <1>7 DEF HtlcStacks, Chosen
<1>9. Execute(run, t)
  BY <1>1, <1>3, <1>8, HtlcExecutes
<1> HIDE DEF stack, item
<1>10. Good(Whole("htlc", AddWitness(tx, stack)))
  BY <1>1, <1>2, <1>9, SignedGood DEF Contract, run, item
<1>11. QED
  BY <1>10 DEF stack, sig

LEMMA RemediedGood ==
    ASSUME NEW c \in {"ptlc", "revocable"}, NEW key,
           c = "ptlc" => key = Bob, c = "revocable" => key = Revocation,
           NEW tx, NEW s, NEW l \in Int, Draft(tx, s, l), s.low \in Int
    PROVE  Good(Whole(c, AddWitness(tx, RemedyWitness(SignedBy(c, tx, key), ScriptOf(c)))))
<1> DEFINE sig == SignedBy(c, tx, key)
           item == ScriptItem(ScriptOf(c))
           stack == RemedyWitness(sig, ScriptOf(c))
           one == <<sig>>
           t == <<sig, Num(1)>>
           run == SignedRun(c, tx, stack)
           T == {sig, Num(1)}
<1>1. /\ one \in Seq(T) /\ Append(one, Num(1)) = t /\ t \in Seq(T)
      /\ Append(t, item) = <<sig, Num(1), item>>
  <2>1. one \in Seq(T) /\ t \in Seq(T)
    OBVIOUS
  <2>2. QED
    BY <2>1, ShortSequences, LongerSequences
<1>2. stack = Append(t, item)
  BY <1>1 DEF RemedyWitness
<1>3. /\ run.script = ScriptOf(c)
      /\ \A k : SignedBy(c, tx, k) = Sig(k, Sighash(run))
  BY SignedRunParts
<1>4. one \in SignedFor(T, key, run)
  BY <1>3, OneSigned
<1>5. Num(1) \in T /\ Num(1) # Num(0)
  BY DEF Num
<1> HIDE DEF sig, one, t, run, T
<1>7. \A second : t \in Chosen(T, SignedFor(T, key, run), second)
  BY <1>1, <1>4, <1>5 DEF Chosen
<1>8. Execute(run, t)
  <2>1. CASE c = "ptlc"
    <3>1. run.script = Ptlc(Alice, Bob, Expiry) /\ key = Bob
      BY <1>3, <2>1 DEF ScriptOf
    <3>2. t \in PtlcStacks(T, Alice, Bob, Expiry, run)
      BY <1>7, <3>1 DEF PtlcStacks
    <3>3. QED
      BY <1>1, <3>1, <3>2, PtlcExecutes
  <2>2. CASE c = "revocable"
    <3>1. run.script = RevocableOutput(Revocation, Alice, Delay) /\ key = Revocation
      BY <1>3, <2>2 DEF ScriptOf
    <3>2. t \in RevocableStacks(T, Revocation, Alice, Delay, run)
      BY <1>7, <3>1 DEF RevocableStacks
    <3>3. QED
      BY <1>1, <3>1, <3>2, RevocableExecutes
  <2>3. QED
    BY <2>1, <2>2
<1> HIDE DEF stack, item
<1>9. Good(Whole(c, AddWitness(tx, stack)))
  BY <1>1, <1>2, <1>8, SignedGood DEF Contract, run, item
<1>10. QED
  BY <1>9 DEF stack, sig

(* The two signatures are in the order of the keys, whoever comes first.   *)
LEMMA SortedEitherWay ==
    ASSUME NEW a, NEW b
    PROVE  /\ SortedKeys(a, b) = SortedKeys(b, a)
           /\ SortedKeys(a, b) = <<a, b>> \/ SortedKeys(a, b) = <<b, a>>
<1>1. {<<a, b>>, <<b, a>>} = {<<b, a>>, <<a, b>>}
  OBVIOUS
<1>2. QED
  BY <1>1 DEF SortedKeys

LEMMA SignaturesSorted ==
    ASSUME NEW c, NEW tx, NEW a, NEW b, NEW script
    PROVE  BySortedKeys(a, b, SignedBy(c, tx, a), SignedBy(c, tx, b), script) =
              MultisigWitness(SignedBy(c, tx, SortedKeys(a, b)[1]),
                              SignedBy(c, tx, SortedKeys(a, b)[2]), script)
<1>1. \/ SortedKeys(a, b)[1] = a /\ SortedKeys(a, b)[2] = b
      \/ SortedKeys(a, b)[1] = b /\ SortedKeys(a, b)[2] = a
  BY SortedEitherWay
<1>2. QED
  BY Zenon, <1>1 DEF BySortedKeys

LEMMA CosignedGood ==
    ASSUME NEW a, NEW b, (a = Alice /\ b = Bob) \/ (a = Bob /\ b = Alice),
           NEW tx, NEW s, NEW l \in Int, Draft(tx, s, l), s.low \in Int
    PROVE  Good(Whole("multisig",
                      AddWitness(tx, BySortedKeys(a, b, SignedBy("multisig", tx, a),
                                                  SignedBy("multisig", tx, b),
                                                  ScriptOf("multisig")))))
<1> DEFINE key1 == SortedKeys(Alice, Bob)[1]
           key2 == SortedKeys(Alice, Bob)[2]
           sig1 == SignedBy("multisig", tx, key1)
           sig2 == SignedBy("multisig", tx, key2)
           item == ScriptItem(ScriptOf("multisig"))
           stack == MultisigWitness(sig1, sig2, ScriptOf("multisig"))
           t == <<Num(0), sig1, sig2>>
           run == SignedRun("multisig", tx, stack)
           T == {Num(0), sig1, sig2}
<1>1. SortedKeys(a, b) = SortedKeys(Alice, Bob)
  BY SortedEitherWay
<1>2. BySortedKeys(a, b, SignedBy("multisig", tx, a), SignedBy("multisig", tx, b),
                   ScriptOf("multisig")) = stack
  BY <1>1, SignaturesSorted
<1>3. t \in Seq(T) /\ Append(t, item) = <<Num(0), sig1, sig2, item>>
  <2>1. t \in Seq(T)
    OBVIOUS
  <2>2. QED
    BY <2>1, LongerSequences
<1>4. stack = Append(t, item)
  BY <1>3 DEF MultisigWitness
<1>5. /\ run.script = Multisig2of2(Alice, Bob)
      /\ sig1 = Sig(key1, Sighash(run)) /\ sig2 = Sig(key2, Sighash(run))
  <2>1. /\ run.script = ScriptOf("multisig")
        /\ \A k : SignedBy("multisig", tx, k) = Sig(k, Sighash(run))
    BY SignedRunParts
  <2>2. ScriptOf("multisig") = Multisig2of2(Alice, Bob)
    BY DEF ScriptOf
  <2>3. QED
    BY <2>1, <2>2
<1>6. Len(t) = 3 /\ t[Len(t)] = sig2 /\ t[Len(t) - 1] = sig1
  OBVIOUS
<1> HIDE DEF sig1, sig2, t, run, T, key1, key2
<1>7. t \in MultisigFor(T, key1, key2, run)
  <2>1. /\ t \in Seq(T) /\ Len(t) >= 2
        /\ t[Len(t)] = Sig(key2, Sighash(run)) /\ t[Len(t) - 1] = Sig(key1, Sighash(run))
    BY <1>3, <1>5, <1>6
  <2>2. QED
    BY <2>1 DEF MultisigFor
<1>8. Execute(run, t)
  BY <1>3, <1>5, <1>7, MultisigExecutes DEF key1, key2
<1> HIDE DEF stack, item
<1>9. Good(Whole("multisig", AddWitness(tx, stack)))
  BY <1>3, <1>4, <1>8, SignedGood DEF Contract, run, item
<1>10. QED
  BY <1>2, <1>9
-----------------------------------------------------------------------------
(***************************************************************************)
(* The builders, one by one.                                               *)
(***************************************************************************)
LEMMA WitnessIfSigned ==
    ASSUME NEW tx
    PROVE  /\ \A stack : WitnessIf(NoSig, tx, stack) = tx
           /\ \A c, t, key, stack :
                 WitnessIf(SignedBy(c, t, key), tx, stack) = AddWitness(tx, stack)
<1>1. \A key, message : Sig(key, message) # NoSig
  BY DEF Sig, NoSig, Num
<1>2. QED
  BY <1>1 DEF WitnessIf, SignedBy, SignP2wshInput

LEMMA SequenceNumbers ==
    /\ Final.low \in Int /\ CltvEnable.low \in Int /\ \A b, n : Sequence(b, n).low = n
    /\ CltvEnable # Final /\ Sequence(FALSE, 0) # Final
<1>1. \A b, n : Sequence(b, n).low = n
  BY DEF Sequence
<1>2. Final.low = 65535 /\ CltvEnable.low = 65534
  BY DEF Final, CltvEnable, Sequence
<1>4. CltvEnable # Final
  BY <1>2
<1>5. Sequence(FALSE, 0) # Final
  BY Zenon, FinalDisabled, LowSequenceParts DEF LowSequence
<1>6. Final.low \in Int /\ CltvEnable.low \in Int
  BY <1>2
<1>7. QED
  BY Zenon, <1>1, <1>4, <1>5, <1>6

LEMMA SignedOnce ==
    ASSUME NEW c, NEW tx, NEW s, NEW l, Draft(tx, s, l), NEW stack, NEW key
    PROVE  SignedBy(c, AddWitness(tx, stack), key) = SignedBy(c, tx, key)
BY DraftSigned, SighashOf DEF SignedBy, SignP2wshInput

LEMMA BuiltHtlcGood == \A s \in BuiltHtlc : Good(s)
<1> DEFINE prev == Deposit("htlc")
           script == ScriptOf("htlc")
           Sign(tx, key) == SignedBy("htlc", tx, key)
           claim(sig) == HtlcClaim(prev, Bob, Amount, Preimage, script, sig)
           refund(sig) == HtlcRefund(prev, Alice, Amount, Expiry, script, sig)
           swapClaim(sig) == SwapClaim(prev, Bob, Amount, Preimage, script, sig)
           swapRefund(sig) == SwapRefund(prev, Alice, Amount, Expiry, script, sig)
           success(sig) == SecondStage(prev, Amount, Revocation, Bob, Delay, 0,
                                       FulfillWitness(sig, Preimage, script))
           timeout(sig) == SecondStage(prev, Amount, Revocation, Alice, Delay, Expiry,
                                       RefundWitness(sig, script))
<1>1. BuiltHtlc = {Whole("htlc", claim(Sign(claim(NoSig), Bob))),
                   Whole("htlc", refund(Sign(refund(NoSig), Alice))),
                   Whole("htlc", swapClaim(Sign(swapClaim(NoSig), Bob))),
                   Whole("htlc", swapRefund(Sign(swapRefund(NoSig), Alice))),
                   Whole("htlc", success(Sign(success(NoSig), Bob))),
                   Whole("htlc", timeout(Sign(timeout(NoSig), Alice)))}
  BY DEF BuiltHtlc, Signed, Whole
<1>2. 0 \in Int /\ Expiry \in Int /\ Expiry >= Expiry
  BY LockNumbers
<1> DEFINE Fulfill(tx) == AddWitness(tx, FulfillWitness(Sign(tx, Bob), Preimage, script))
           Refund(tx) == AddWitness(tx, RefundWitness(Sign(tx, Alice), script))
<1>3. Good(Whole("htlc", claim(Sign(claim(NoSig), Bob))))
  <2> DEFINE tx == AddUnlessDust(Spend(prev, Final, 0), Amount, P2wpkh(Bob))
  <2>1. Draft(tx, Final, 0)
    BY DraftSpend, DraftAdds
  <2> HIDE DEF tx
  <2>2. claim(NoSig) = tx /\ claim(Sign(tx, Bob)) = Fulfill(tx)
    BY WitnessIfSigned DEF HtlcClaim, tx
  <2>3. Good(Whole("htlc", Fulfill(tx)))
    BY <1>2, <2>1, SequenceNumbers, FulfilledGood
  <2> HIDE DEF claim, Sign, Fulfill
  <2>4. QED
    BY <2>2, <2>3
<1>4. Good(Whole("htlc", refund(Sign(refund(NoSig), Alice))))
  <2> DEFINE tx == AddUnlessDust(Spend(prev, CltvEnable, Expiry), Amount, P2wpkh(Alice))
  <2>1. Draft(tx, CltvEnable, Expiry)
    BY DraftSpend, DraftAdds
  <2> HIDE DEF tx
  <2>2. refund(NoSig) = tx /\ refund(Sign(tx, Alice)) = Refund(tx)
    BY WitnessIfSigned DEF HtlcRefund, tx
  <2>3. Good(Whole("htlc", Refund(tx)))
    BY <1>2, <2>1, SequenceNumbers, RefundedGood
  <2> HIDE DEF refund, Sign, Refund
  <2>4. QED
    BY <2>2, <2>3
<1>5. Good(Whole("htlc", swapClaim(Sign(swapClaim(NoSig), Bob))))
  <2> DEFINE tx == AddOutput(Spend(prev, Final, 0), LessMinerFee(Amount), P2wpkh(Bob))
  <2>1. Draft(tx, Final, 0)
    BY DraftSpend, DraftAdds
  <2> HIDE DEF tx
  <2>2. swapClaim(NoSig) = tx /\ swapClaim(Sign(tx, Bob)) = Fulfill(tx)
    BY WitnessIfSigned DEF SwapClaim, tx
  <2>3. Good(Whole("htlc", Fulfill(tx)))
    BY <1>2, <2>1, SequenceNumbers, FulfilledGood
  <2> HIDE DEF swapClaim, Sign, Fulfill
  <2>4. QED
    BY <2>2, <2>3
<1>6. Good(Whole("htlc", swapRefund(Sign(swapRefund(NoSig), Alice))))
  <2> DEFINE tx == AddOutput(Spend(prev, Sequence(FALSE, 0), Expiry), LessMinerFee(Amount),
                             P2wpkh(Alice))
  <2>1. Draft(tx, Sequence(FALSE, 0), Expiry)
    BY DraftSpend, DraftAdds
  <2> HIDE DEF tx
  <2>2. swapRefund(NoSig) = tx /\ swapRefund(Sign(tx, Alice)) = Refund(tx)
    <3>1. \A sig : swapRefund(sig) = WitnessIf(sig, tx, RefundWitness(sig, script))
      BY Zenon DEF SwapRefund, tx
    <3> HIDE DEF swapRefund
    <3>2. QED
      BY <3>1, WitnessIfSigned
  <2>3. Good(Whole("htlc", Refund(tx)))
    <3> DEFINE s == Sequence(FALSE, 0)
    <3>1. s.low \in Int /\ s # Final /\ Draft(tx, s, Expiry)
      BY <1>2, <2>1, SequenceNumbers
    <3> HIDE DEF s
    <3>2. QED
      BY <1>2, <3>1, RefundedGood
  <2> HIDE DEF swapRefund, Sign, Refund
  <2>4. QED
    BY <2>2, <2>3
<1>7. \A tx, witness : /\ FulfillWitness(witness, Preimage, script) # <<>>
                       /\ RefundWitness(witness, script) # <<>>
  BY DEF FulfillWitness, RefundWitness
<1>8. Good(Whole("htlc", success(Sign(success(NoSig), Bob))))
  <2> DEFINE tx == AddUnlessDust(Spend(prev, CltvEnable, 0), Amount,
                                 P2wsh(SecondStageHtlc(Revocation, Bob, Delay)))
  <2>1. Draft(tx, CltvEnable, 0)
    BY DraftSpend, DraftAdds
  <2> HIDE DEF tx
  <2>2. \A sig : success(sig) = AddWitness(tx, FulfillWitness(sig, Preimage, script))
    BY <1>7 DEF SecondStage, tx
  <2>3. Sign(success(NoSig), Bob) = Sign(tx, Bob)
    BY <2>1, <2>2, SignedOnce
  <2>4. Good(Whole("htlc", Fulfill(tx)))
    BY <1>2, <2>1, SequenceNumbers, FulfilledGood
  <2> HIDE DEF success, Sign
  <2>5. QED
    BY <2>2, <2>3, <2>4
<1>9. Good(Whole("htlc", timeout(Sign(timeout(NoSig), Alice))))
  <2> DEFINE tx == AddUnlessDust(Spend(prev, CltvEnable, Expiry), Amount,
                                 P2wsh(SecondStageHtlc(Revocation, Alice, Delay)))
  <2>1. Draft(tx, CltvEnable, Expiry)
    BY DraftSpend, DraftAdds
  <2> HIDE DEF tx
  <2>2. \A sig : timeout(sig) = AddWitness(tx, RefundWitness(sig, script))
    BY <1>7 DEF SecondStage, tx
  <2>3. Sign(timeout(NoSig), Alice) = Sign(tx, Alice)
    BY <2>1, <2>2, SignedOnce
  <2>4. Good(Whole("htlc", Refund(tx)))
    BY <1>2, <2>1, SequenceNumbers, RefundedGood
  <2> HIDE DEF timeout, Sign
  <2>5. QED
    BY <2>2, <2>3, <2>4
<1> HIDE DEF claim, refund, swapClaim, swapRefund, success, timeout, Sign
<1>10. QED
  BY <1>1, <1>3, <1>4, <1>5, <1>6, <1>8, <1>9

Cosigned(tx, a, b) ==
    AddWitness(tx, BySortedKeys(a, b, SignedBy("multisig", tx, a), SignedBy("multisig", tx, b),
                                ScriptOf("multisig")))

LEMMA SignCommitmentForm ==
    ASSUME NEW tx, NEW s, NEW l, Draft(tx, s, l), NEW a, NEW b
    PROVE  SignCommitment(tx, 1, ScriptOf("multisig"), Amount, a, b) = Cosigned(tx, a, b)
<1>1. tx.wit = <<>>
  BY DraftSigned
<1>2. QED
  BY <1>1 DEF SignCommitment, Cosigned, SignedBy

LEMMA StateNumbers == EltooCapacity(State) = Amount /\ EltooLocktime(State) \in Int
<1>1. State.number = 2 /\ State.senderSat = Amount - Dust /\ State.receiverSat = Dust
  BY DEF State
<1>2. Amount \in Int /\ Dust \in Int /\ EltooBase \in Int
  BY SpendingAssumption
<1>3. QED
  BY <1>1, <1>2 DEF EltooCapacity, EltooLocktime

LEMMA BuiltMultisigGood ==
    ASSUME NEW a, NEW b, (a = Alice /\ b = Bob) \/ (a = Bob /\ b = Alice)
    PROVE  \A tx \in BuiltMultisig(a, b) : Good(Whole("multisig", tx))
<1> DEFINE prev == Deposit("multisig")
           script == ScriptOf("multisig")
           sat == State.senderSat
           Sign(tx) == SignCommitment(tx, 1, script, Amount, a, b)
           commitment == Commitment(prev, a, b, sat, Dust, <<>>, 1)
           asymmetric == AsymmetricCommitment(prev, a, b, Revocation, sat, 0, Delay,
                                              <<<<Dust, ScriptOf("htlc")>>>>, 1)
           anchors == AnchorCommitment(prev, a, b, sat, 0)
           close(sigA, sigB) == CooperativeClose(prev, a, b, sat, Dust - 1, sigA, sigB, script)
           Closing(key) == SignedBy("multisig", close(NoSig, NoSig), key)
           update == AddOutput(Spend(prev, CltvEnable, EltooLocktime(State)), Amount,
                               P2wsh(script))
           settlement == AddOutput(AddOutput(Spend(prev, CltvEnable, 0), sat, P2wpkh(a)),
                                   State.receiverSat, P2wpkh(b))
<1>1. BuiltMultisig(a, b) = {Sign(commitment), Sign(asymmetric), Sign(anchors),
                             close(Closing(a), Closing(b)),
                             EltooUpdate(prev, State, script, a, b),
                             EltooSettlement(prev, State, script, a, b)}
  BY DEF BuiltMultisig
<1>2. /\ EltooUpdate(prev, State, script, a, b) = Sign(update)
      /\ EltooSettlement(prev, State, script, a, b) = Sign(settlement)
  BY StateNumbers DEF EltooUpdate, EltooSettlement
<1>3. ASSUME NEW tx, NEW s, NEW l \in Int, Draft(tx, s, l), s.low \in Int
      PROVE  Sign(tx) = Cosigned(tx, a, b) /\ Good(Whole("multisig", Cosigned(tx, a, b)))
  <2>1. Sign(tx) = Cosigned(tx, a, b)
    BY <1>3, SignCommitmentForm
  <2>2. Good(Whole("multisig", Cosigned(tx, a, b)))
    BY <1>3, CosignedGood DEF Cosigned
  <2>3. QED
    BY <2>1, <2>2
<1>4. 0 \in Int /\ 1 \in Int /\ EltooLocktime(State) \in Int
  BY StateNumbers
<1> HIDE DEF Sign
<1> DEFINE first == Sequence(FALSE, 1)
<1>5. first.low \in Int
  BY <1>4, SequenceNumbers
<1>6. Good(Whole("multisig", Sign(commitment)))
  <2> DEFINE paid == AddUnlessDust(Spend(prev, first, 0), sat, P2wpkh(a))
             both == AddUnlessDust(paid, Dust, P2wpkh(b))
  <2>1. commitment = WithHtlcs(both, <<>>)
    BY Zenon DEF Commitment
  <2>2. commitment = both
    BY <2>1, WithNoHtlcs
  <2> HIDE DEF first, commitment
  <2>3. Draft(paid, first, 0)
    BY DraftSpend, DraftAdds
  <2> HIDE DEF paid
  <2>4. Draft(both, first, 0)
    BY <2>3, DraftAdds
  <2> HIDE DEF both
  <2>5. QED
    BY <1>3, <1>4, <1>5, <2>2, <2>4
<1>7. Good(Whole("multisig", Sign(asymmetric)))
  <2> DEFINE local == AddUnlessDust(Spend(prev, first, 0), sat,
                                    P2wsh(RevocableOutput(Revocation, a, Delay)))
             both == AddUnlessDust(local, 0, P2wpkh(b))
  <2>1. asymmetric = WithHtlcs(both, <<<<Dust, ScriptOf("htlc")>>>>)
    BY Zenon DEF AsymmetricCommitment
  <2> HIDE DEF first, asymmetric
  <2>2. Draft(local, first, 0)
    BY DraftSpend, DraftAdds
  <2> HIDE DEF local
  <2>3. Draft(both, first, 0)
    BY <2>2, DraftAdds
  <2> HIDE DEF both
  <2>4. Draft(asymmetric, first, 0)
    BY <2>1, <2>3, DraftWithHtlc
  <2>5. QED
    BY <1>3, <1>4, <1>5, <2>4
<1>8. Good(Whole("multisig", Sign(anchors)))
  <2>1. Draft(anchors, Final, 0)
    BY DraftSpend, DraftAdds DEF AnchorCommitment
  <2> HIDE DEF anchors
  <2>2. QED
    BY <1>3, <1>4, <2>1, SequenceNumbers
<1>9. Good(Whole("multisig", close(Closing(a), Closing(b))))
  <2> DEFINE tx == AddUnlessDust(AddUnlessDust(Spend(prev, Final, 0), sat, P2wpkh(a)),
                                 Dust - 1, P2wpkh(b))
  <2>1. Draft(tx, Final, 0)
    BY DraftSpend, DraftAdds
  <2>2. close(NoSig, NoSig) = tx
    BY DEF CooperativeClose
  <2> HIDE DEF tx
  <2>3. Closing(a) = SignedBy("multisig", tx, a) /\ Closing(b) = SignedBy("multisig", tx, b)
    BY <2>2
  <2>4. NoSig \notin {Closing(a), Closing(b)}
    BY DEF NoSig, Num, SignedBy, SignP2wshInput, Sig
  <2>5. \A sigA, sigB : NoSig \notin {sigA, sigB} =>
           close(sigA, sigB) = AddWitness(tx, BySortedKeys(a, b, sigA, sigB, script))
    BY DEF CooperativeClose, tx
  <2> HIDE DEF close, Closing
  <2>6. close(Closing(a), Closing(b)) = Cosigned(tx, a, b)
    BY <2>3, <2>4, <2>5 DEF Cosigned
  <2>7. QED
    BY <1>3, <1>4, <2>1, <2>6, SequenceNumbers
<1>10. Good(Whole("multisig", Sign(update)))
  <2>1. Draft(update, CltvEnable, EltooLocktime(State))
    BY DraftSpend, DraftAdds
  <2> HIDE DEF update
  <2>2. QED
    BY <1>3, <1>4, <2>1, SequenceNumbers
<1>11. Good(Whole("multisig", Sign(settlement)))
  <2>1. Draft(settlement, CltvEnable, 0)
    BY DraftSpend, DraftAdds
  <2> HIDE DEF settlement
  <2>2. QED
    BY <1>3, <1>4, <2>1, SequenceNumbers
<1> HIDE DEF commitment, asymmetric, anchors, close, Closing, update, settlement
<1>12. QED
  BY <1>1, <1>2, <1>6, <1>7, <1>8, <1>9, <1>10, <1>11

LEMMA TapSettled ==
    ASSUME NEW tx, NEW s, NEW l \in Int, Draft(tx, s, l), s.low \in Int
    PROVE  Good(Whole("taproot", AddWitness(tx, <<Schnorr(OutputKey, TapSighash(tx))>>)))
<1> DEFINE sig == Schnorr(OutputKey, TapSighash(tx))
           stack == <<sig>>
           new == AddWitness(tx, stack)
           whole == Whole("taproot", new)
<1>1. /\ new.wit[1] = stack /\ new.locktime = l /\ new.ins[1].sequence = s
      /\ TxId(new) = TxId(tx)
  BY DraftSigned
<1>2. sig = Schnorr(OutputKey, TapSighash(new)) /\ sig[1] = "schnorr"
  BY <1>1, SighashOf DEF Schnorr
<1>3. Len(stack) = 1 /\ stack[1] = sig /\ stack \in Seq({sig})
  OBVIOUS
<1> HIDE DEF new, sig, stack
<1>4. whole.contract = "taproot" /\ whole.input = 1 /\ whole.tx = new
  BY WholeParts
<1> HIDE DEF whole
<1>5. WitOf(whole) = stack /\ SpkOf(whole.contract) = P2tr(OutputKey)
  BY <1>1, <1>4 DEF WitOf, SpkOf
<1>6. JobOf(whole) = NoScript
  BY <1>2, <1>3, <1>5, NoControl DEF JobOf
<1>7. stack \in Seq(Range(stack))
  BY <1>3, SeqOfRange
<1>8. IsSpend(whole)
  BY <1>1, <1>4, <1>5, <1>6, <1>7 DEF IsSpend, Contract
<1>9. VerifyTaprootKey(OutputKey, stack, new)
  BY <1>2, <1>3 DEF VerifyTaprootKey
<1>10. VerifyWithoutScript(new, 1, P2tr(OutputKey), Amount)
  BY <1>1, <1>9 DEF VerifyWithoutScript, P2tr
<1>11. VerifiedOf(whole)
  BY <1>4, <1>5, <1>6, <1>10 DEF VerifiedOf
<1>12. QED
  BY <1>8, <1>11 DEF Good, whole, new, stack, sig

LEMMA AdaptedSignature ==
    ASSUME NEW key, NEW message, NEW point
    PROVE  AdaptBip340(Adaptor(key, message, point, TRUE), point) = Schnorr(key, message)
<1> DEFINE a == Adaptor(key, message, point, NothingRaised)
<1>1. a.even
  BY Zenon DEF Adaptor, NothingRaised
<1>2. a.key = key /\ a.message = message /\ a.point = point
  BY DEF Adaptor
<1>3. a = Adaptor(key, message, point, TRUE)
  BY Zenon DEF NothingRaised
<1> HIDE DEF a
<1>4. AdaptBip340(a, point) = Schnorr(key, message)
  BY Zenon, <1>1, <1>2 DEF AdaptBip340
<1>5. QED
  BY Zenon, <1>3, <1>4

LEMMA SettledGood ==
    ASSUME NEW tx, NEW s, NEW l \in Int, Draft(tx, s, l), s.low \in Int
    PROVE  Good(Whole("ptlc", AddWitness(tx, RemedyWitness(SignedBy("ptlc", tx, Bob),
                                                           ScriptOf("ptlc")))))
<1>1. "ptlc" \in {"ptlc", "revocable"} /\ "ptlc" # "revocable"
  OBVIOUS
<1>2. QED
  BY Zenon, <1>1, RemediedGood

LEMMA BuiltOtherGood == \A s \in BuiltOther : Good(s)
<1> DEFINE remedy(sig) == BreachRemedy(Deposit("revocable"), Bob, Amount, sig, ScriptOf("revocable"))
           settle(sig) == PtlcSettlement(Deposit("ptlc"), Bob, Amount, sig, ScriptOf("ptlc"))
           tapSettle(sig) == TaprootPtlcSettlement(Deposit("taproot"), Bob, Amount, sig)
           adapted == AdaptBip340(Adaptor(OutputKey, TapSighash(tapSettle(NoSig)), Preimage, TRUE),
                                  Preimage)
<1>1. BuiltOther =
         {Whole("revocable", remedy(SignedBy("revocable", remedy(NoSig), Revocation))),
          Whole("ptlc", settle(SignedBy("ptlc", settle(NoSig), Bob))),
          Whole("taproot", tapSettle(adapted))}
  BY DEF BuiltOther, Signed, Whole
<1>2. 0 \in Int
  OBVIOUS
<1>3. Good(Whole("revocable", remedy(SignedBy("revocable", remedy(NoSig), Revocation))))
  <2> DEFINE tx == AddUnlessDust(Spend(Deposit("revocable"), Final, 0), Amount, P2wpkh(Bob))
  <2>1. Draft(tx, Final, 0)
    BY DraftSpend, DraftAdds
  <2> HIDE DEF tx
  <2>2. \A sig : remedy(sig) = AddWitness(tx, RemedyWitness(sig, ScriptOf("revocable")))
    BY DEF BreachRemedy, tx
  <2>3. SignedBy("revocable", remedy(NoSig), Revocation) = SignedBy("revocable", tx, Revocation)
    BY <2>1, <2>2, SignedOnce
  <2> HIDE DEF remedy
  <2>4. Good(Whole("revocable", AddWitness(tx, RemedyWitness(
                SignedBy("revocable", tx, Revocation), ScriptOf("revocable")))))
    BY <1>2, <2>1, SequenceNumbers, RemediedGood
  <2>5. QED
    BY <2>2, <2>3, <2>4
<1>4. Good(Whole("ptlc", settle(SignedBy("ptlc", settle(NoSig), Bob))))
  <2> DEFINE tx == AddOutput(Spend(Deposit("ptlc"), Final, 0), Amount, P2wpkh(Bob))
  <2>1. Draft(tx, Final, 0)
    BY DraftSpend, DraftAdds
  <2> HIDE DEF tx
  <2>2. \A sig : settle(sig) = WitnessIf(sig, tx, RemedyWitness(sig, ScriptOf("ptlc")))
    BY DEF PtlcSettlement, tx
  <2> HIDE DEF settle
  <2>3. settle(NoSig) = tx
    BY <2>2, WitnessIfSigned
  <2>4. settle(SignedBy("ptlc", tx, Bob)) =
           AddWitness(tx, RemedyWitness(SignedBy("ptlc", tx, Bob), ScriptOf("ptlc")))
    BY <2>2, WitnessIfSigned
  <2>5. Good(Whole("ptlc", AddWitness(tx, RemedyWitness(SignedBy("ptlc", tx, Bob),
                                                        ScriptOf("ptlc")))))
    BY <1>2, <2>1, SequenceNumbers, SettledGood
  <2>6. QED
    BY <2>3, <2>4, <2>5
<1>5. Good(Whole("taproot", tapSettle(adapted)))
  <2> DEFINE tx == AddOutput(Spend(Deposit("taproot"), Final, 0), Amount, P2tr(Bob))
             sig == Schnorr(OutputKey, TapSighash(tx))
  <2>1. Draft(tx, Final, 0)
    BY DraftSpend, DraftAdds
  <2> HIDE DEF tx
  <2>2. \A v : tapSettle(v) = WitnessIf(v, tx, <<v>>)
    BY DEF TaprootPtlcSettlement, tx
  <2>3. tapSettle(NoSig) = tx
    BY <2>2, WitnessIfSigned
  <2>4. adapted = sig
    BY Zenon, <2>3, AdaptedSignature
  <2>5. sig # NoSig
    BY DEF Schnorr, NoSig, Num
  <2> HIDE DEF adapted, tapSettle, sig
  <2>6. tapSettle(adapted) = AddWitness(tx, <<sig>>)
    BY <2>2, <2>4, <2>5 DEF WitnessIf
  <2>7. Good(Whole("taproot", AddWitness(tx, <<sig>>)))
    BY <1>2, <2>1, SequenceNumbers, TapSettled DEF sig
  <2>8. QED
    BY <2>6, <2>7
<1> HIDE DEF remedy, settle, tapSettle, adapted
<1>6. QED
  BY <1>1, <1>3, <1>4, <1>5

LEMMA TxnAdds ==
    /\ \A i, o, l, w, amount, spk :
          AddOutput(Txn(i, o, l, w), amount, spk) = Txn(i, Append(o, Output(amount, spk)), l, w)
    /\ \A i, o, l, w, stack : AddWitness(Txn(i, o, l, w), stack) = Txn(i, o, l, Append(w, stack))
    /\ \A i, o, l, w, p, s : AddInput(Txn(i, o, l, w), p, s) = Txn(Append(i, In(p, s)), o, l, w)
BY TxnForms

(* The child of an anchor and of a wallet output, from its two signatures. *)
LEMMA FeeBumpForm ==
    ASSUME NEW anchor, NEW wallet, NEW key, NEW fee, NEW script, NEW sat, sat # 0
    PROVE  \E outs : \A sig, walletSig :
              walletSig # NoSig =>
                 CpfpFeeBump(anchor, key, fee, script, sig, wallet, sat, walletSig) =
                    Txn(<<In(anchor, CltvEnable), In(wallet, CltvEnable)>>, outs, 0,
                        <<<<sig, ScriptItem(script)>>, <<walletSig, key>>>>)
<1> DEFINE one == <<In(anchor, CltvEnable)>>
           two == <<In(anchor, CltvEnable), In(wallet, CltvEnable)>>
           none == <<>>
           change == IF AnchorSat + sat > fee THEN AnchorSat + sat - fee ELSE 0
           outs == IF change > 0 THEN <<Output(change, P2wpkh(key))>> ELSE <<>>
<1> SUFFICES ASSUME NEW sig, NEW walletSig, walletSig # NoSig
             PROVE  CpfpFeeBump(anchor, key, fee, script, sig, wallet, sat, walletSig) =
                       Txn(two, outs, 0, <<<<sig, ScriptItem(script)>>, <<walletSig, key>>>>)
  OBVIOUS
<1> DEFINE first == <<sig, ScriptItem(script)>>
           second == <<walletSig, key>>
           child == AddWitness(Spend(anchor, CltvEnable, 0), first)
           both == WitnessIf(walletSig, AddInput(child, wallet, CltvEnable), second)
           wits == <<first, second>>
           bumped == CpfpFeeBump(anchor, key, fee, script, sig, wallet, sat, walletSig)
<1>1. bumped = IF change > 0 THEN AddOutput(both, change, P2wpkh(key)) ELSE both
  BY DEF CpfpFeeBump
<1>2. both = AddWitness(AddInput(child, wallet, CltvEnable), second)
  BY DEF WitnessIf
<1> DEFINE output == Output(change, P2wpkh(key))
           paid == <<output>>
           wit == <<first>>
<1> HIDE DEF change, first, second, output
<1>3. /\ Append(one, In(wallet, CltvEnable)) = two /\ Append(none, first) = wit
      /\ Append(wit, second) = wits /\ Append(none, output) = paid
  BY ShortSequences
<1>4. Spend(anchor, CltvEnable, 0) = Txn(one, none, 0, none)
  BY SpendForm DEF Tx, Txn, In
<1> HIDE DEF one, two, none, wit, wits, paid
<1>5. child = Txn(one, none, 0, wit)
  <2>1. AddWitness(Txn(one, none, 0, none), first) = Txn(one, none, 0, Append(none, first))
    BY TxnAdds
  <2>2. QED
    BY <1>3, <1>4, <2>1
<1> HIDE DEF child
<1>6. AddInput(child, wallet, CltvEnable) = Txn(two, none, 0, wit)
  <2>1. AddInput(Txn(one, none, 0, wit), wallet, CltvEnable) =
           Txn(Append(one, In(wallet, CltvEnable)), none, 0, wit)
    BY TxnAdds
  <2>2. QED
    BY <1>3, <1>5, <2>1
<1>7. both = Txn(two, none, 0, wits)
  <2>1. AddWitness(Txn(two, none, 0, wit), second) = Txn(two, none, 0, Append(wit, second))
    BY TxnAdds
  <2>2. QED
    BY <1>2, <1>3, <1>6, <2>1
<1> HIDE DEF both
<1>8. AddOutput(both, change, P2wpkh(key)) = Txn(two, paid, 0, wits)
  <2>1. AddOutput(Txn(two, none, 0, wits), change, P2wpkh(key)) =
           Txn(two, Append(none, output), 0, wits)
    BY TxnAdds DEF output
  <2>2. QED
    BY <1>3, <1>7, <2>1
<1>9. bumped = Txn(two, outs, 0, wits)
  <2>1. CASE change > 0
    BY <1>1, <1>8, <2>1 DEF paid, output
  <2>2. CASE ~(change > 0)
    BY <1>1, <1>7, <2>2 DEF none
  <2>3. QED
    BY <2>1, <2>2
<1>10. QED
  BY <1>9 DEF bumped, two, wits, first, second, change

LEMMA BuiltFeeBumpGood == \A s \in BuiltFeeBump : Good(s)
<1> DEFINE anchor == Deposit("anchor")
           wallet == Deposit("key hash")
           script == ScriptOf("anchor")
           code == P2wpkhScriptCode(Alice)
           item == ScriptItem(script)
           ins == <<In(anchor, CltvEnable), In(wallet, CltvEnable)>>
           child(sig, walletSig) == CpfpFeeBump(anchor, Alice, Amount, script, sig, wallet,
                                                Amount, walletSig)
           blank == child(Num(1), Num(1))
           mine == SignedBy("anchor", blank, Alice)
           walletSig == Sig(Alice, Sighash(Run(code, blank, 2, Amount)))
           tx == child(mine, walletSig)
           whole == Whole("anchor", tx)
           other == [contract |-> "key hash", input |-> 2, tx |-> tx]
<1>1. BuiltFeeBump = {whole, other}
  BY DEF BuiltFeeBump
<1>2. PICK outs : \A sig, w :
         w # NoSig => child(sig, w) = Txn(ins, outs, 0, <<<<sig, item>>, <<w, Alice>>>>)
  <2>1. Amount # 0
    BY SpendingAssumption
  <2> HIDE DEF anchor, wallet, script
  <2>2. \E outs : \A sig, w :
           w # NoSig =>
              CpfpFeeBump(anchor, Alice, Amount, script, sig, wallet, Amount, w) =
                 Txn(<<In(anchor, CltvEnable), In(wallet, CltvEnable)>>, outs, 0,
                     <<<<sig, ScriptItem(script)>>, <<w, Alice>>>>)
    BY <2>1, FeeBumpForm
  <2>3. QED
    BY Zenon, <2>2
<1>3. Num(1) # NoSig /\ walletSig # NoSig
  BY DEF Num, NoSig, Sig
<1> DEFINE wits == <<<<mine, item>>, <<walletSig, Alice>>>>
<1>4. wits[1] = <<mine, item>> /\ wits[2] = <<walletSig, Alice>>
  OBVIOUS
<1>5. ins[1].sequence = CltvEnable /\ ins[2].sequence = CltvEnable
  BY DEF In
<1>6. tx = Txn(ins, outs, 0, wits)
  BY <1>2, <1>3
<1>7. blank = Txn(ins, outs, 0, <<<<Num(1), item>>, <<Num(1), Alice>>>>)
  BY <1>2, <1>3
<1> HIDE DEF ins, wits, tx, blank
<1>8. TxId(tx) = TxId(blank)
  BY <1>6, <1>7, TxnForms
<1>9. tx.ins = ins /\ tx.wit = wits /\ tx.locktime = 0
  BY <1>6, TxnForms
<1>10. /\ mine = Sig(Alice, Sighash(Run(script, tx, 1, Amount)))
       /\ walletSig = Sig(Alice, Sighash(Run(code, tx, 2, Amount)))
  BY <1>8, SighashOf DEF SignedBy, SignP2wshInput
<1> HIDE DEF mine, walletSig, code
<1>11. Good(whole)
  <2> DEFINE run == Run(script, tx, 1, Amount)
             t == <<mine>>
             T == {mine}
  <2>1. run.script = Anchor(Alice)
    BY RunParts DEF ScriptOf
  <2> HIDE DEF script
  <2>2. t \in Seq(T) /\ Append(t, item) = <<mine, item>> /\ t # <<>>
    BY ShortSequences
  <2>3. t \in SignedFor(T, Alice, run)
    BY <1>10, OneSigned
  <2> HIDE DEF run, t, T, item
  <2>4. t \in AnchorFor(T, Alice, run)
    BY <2>2, <2>3 DEF AnchorFor
  <2>5. Execute(run, t)
    BY <2>1, <2>2, <2>4, AnchorExecutes
  <2>6. whole.contract = "anchor" /\ whole.input = 1 /\ whole.tx = tx
    BY WholeParts
  <2> HIDE DEF whole
  <2>7. WitOf(whole) = Append(t, item)
    BY <1>4, <1>9, <2>2, <2>6 DEF WitOf
  <2>8. /\ whole.tx.locktime \in Int /\ whole.tx.ins[whole.input].sequence.low \in Int
    BY <1>5, <1>9, <2>6, SequenceNumbers
  <2>9. QED
    BY <2>2, <2>5, <2>6, <2>7, <2>8, WshGood DEF Contract, run, script, item
<1>12. Good(other)
  <2> DEFINE w == <<walletSig, Alice>>
  <2>1. other.contract = "key hash" /\ other.input = 2 /\ other.tx = tx
    OBVIOUS
  <2> HIDE DEF other
  <2>2. WitOf(other) = w
    BY <1>4, <1>9, <2>1 DEF WitOf
  <2>3. Len(w) = 2 /\ w[1] = walletSig /\ w[2] = Alice /\ w \in Seq({walletSig, Alice})
    OBVIOUS
  <2> HIDE DEF w
  <2>4. other.tx.locktime \in Int /\ other.tx.ins[other.input].sequence.low \in Int
    <3>1. other.tx.locktime = 0 /\ other.tx.ins[other.input].sequence = CltvEnable
      BY <1>5, <1>9, <2>1
    <3>2. QED
      BY <3>1, SequenceNumbers
  <2>5. IsSpend(other) /\ JobOf(other) = NoScript
    BY <2>1, <2>2, <2>3, <2>4, KeyHashIsSpend
  <2>6. VerifyKeyHash(Digest("HASH160", Alice), w, tx, 2, Amount)
    BY <1>10, <2>3 DEF VerifyKeyHash, code
  <2>7. SpkOf("key hash") = <<"wpkh", Digest("HASH160", Alice)>>
    BY DEF SpkOf, P2wpkh
  <2>8. tx.wit[2] = w
    BY <2>1, <2>2 DEF WitOf
  <2>9. VerifyWithoutScript(tx, 2, SpkOf("key hash"), Amount)
    <3> DEFINE spk == <<"wpkh", Digest("HASH160", Alice)>>
    <3>1. spk[1] = "wpkh" /\ spk[2] = Digest("HASH160", Alice)
      OBVIOUS
    <3> HIDE DEF spk
    <3>2. VerifyWithoutScript(tx, 2, spk, Amount)
      BY <2>6, <2>8, <3>1 DEF VerifyWithoutScript
    <3>3. QED
      BY <2>7, <3>2 DEF spk
  <2>10. QED
    BY <2>1, <2>5, <2>9 DEF Good, VerifiedOf
<1>13. QED
  BY <1>1, <1>11, <1>12
-----------------------------------------------------------------------------
(* Whatever a builder makes passes, however it is looked at.               *)
LEMMA BuiltGood == \A s \in Built : Good(s)
<1> DEFINE Pair(x, y) == (x = Alice /\ y = Bob) \/ (x = Bob /\ y = Alice)
           AllGood(x, y) == \A tx \in BuiltMultisig(x, y) : Good(Whole("multisig", tx))
<1>1. \A x, y : Pair(x, y) => AllGood(x, y)
  <2>1. SUFFICES ASSUME NEW x, NEW y, (x = Alice /\ y = Bob) \/ (x = Bob /\ y = Alice)
                 PROVE  \A tx \in BuiltMultisig(x, y) : Good(Whole("multisig", tx))
    OBVIOUS
  <2>2. QED
    BY <2>1, BuiltMultisigGood
<1>2. Pair(Alice, Bob) /\ Pair(Bob, Alice)
  OBVIOUS
<1> HIDE DEF Pair, AllGood
<1>9. AllGood(Alice, Bob) /\ AllGood(Bob, Alice)
  BY <1>1, <1>2
<1>3. TAKE s \in Built
<1>4. CASE s \in BuiltHtlc
  BY <1>4, BuiltHtlcGood
<1>5. CASE s \in BuiltFeeBump
  BY <1>5, BuiltFeeBumpGood
<1>6. CASE s \in BuiltOther
  BY <1>6, BuiltOtherGood
<1>7. CASE s \in {Whole("multisig", tx) :
                    tx \in BuiltMultisig(Alice, Bob) \cup BuiltMultisig(Bob, Alice)}
  BY <1>7, <1>9 DEF AllGood
<1>8. QED
  BY <1>3, <1>4, <1>5, <1>6, <1>7 DEF Built

LEMMA VerifiedIsOfSpend == SpendVerified <=> VerifiedOf(spend)
BY DEF SpendVerified, VerifiedOf, Job, JobOf, Witness, WitOf, ToExecute

LEMMA IInvInit ==
    ASSUME Init
    PROVE  IInv
<1>1. IsSpend(spend)
  <2>1. CASE spend \in Built
    BY <2>1, BuiltGood DEF Good
  <2>2. CASE IsTried(spend)
    BY <2>2, TriedIsSpend
  <2>3. QED
    BY <2>1, <2>2 DEF Init
<1>2. QED
  BY <1>1 DEF Init, IInv

LEMMA IInvAccepted ==
    ASSUME IInv
    PROVE  BuiltAccepted
BY BuiltGood, VerifiedIsOfSpend DEF IInv, BuiltAccepted, Good

-----------------------------------------------------------------------------
(***************************************************************************)
(* In every reachable state the machine of execute_script is the one that  *)
(* the opcodes before pc leave, and a verdict is the one that the whole    *)
(* script gives (Init, then one step per action of Spending).              *)
(***************************************************************************)
THEOREM RunFollowsScript == Spec => []IInv
<1>1. Init => IInv
  BY IInvInit
<1>2. IInv /\ [Next]_vars => IInv'
  BY IInvNext
<1>3. QED
  BY <1>1, <1>2, PTL DEF Spec

(***************************************************************************)
(* Whatever the contract and the witness, execute_script keeps a stack that*)
(* the witness bounds, at most one open branch, and pc within the script.  *)
(***************************************************************************)
THEOREM SpendingTypeCorrect == Spec => []TypeOK
<1>1. IInv => TypeOK
  BY IInvTypes
<1>2. QED
  BY <1>1, RunFollowsScript, PTL

(***************************************************************************)
(* Whatever the amounts, the timelocks and the length of the witness, an   *)
(* output is spent only by the parties of its contract, with the preimage  *)
(* or past the timelock that the script of the template asks for.          *)
(***************************************************************************)
THEOREM OnlyPartiesSpend == Spec => []OnlyEntitled
<1>1. IInv => OnlyEntitled
  BY IInvEntitled
<1>2. QED
  BY <1>1, RunFollowsScript, PTL

(***************************************************************************)
(* verify_transaction_witness never rejects what a builder makes: the      *)
(* commitments, closes, updates, claims, refunds, remedies, settlements and*)
(* fee bumps, for all amounts and timelocks.                               *)
(***************************************************************************)
THEOREM BuiltIsAccepted == Spec => []BuiltAccepted
<1>1. IInv => BuiltAccepted
  BY IInvAccepted
<1>2. QED
  BY <1>1, RunFollowsScript, PTL
=============================================================================
