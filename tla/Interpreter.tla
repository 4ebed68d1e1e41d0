------------------------------ MODULE Interpreter ------------------------------
(***************************************************************************)
(* bitcoin/interpreter.py: the stack machine for witness scripts and the   *)
(* witness programs around it, as operators. What raises makes the machine *)
(* not ok.                                                                 *)
(***************************************************************************)
EXTENDS Contracts

CastToBool(v) == v # Num(0)

(* A run is the script with the transaction, the input and its amount: what*)
(* a signature with SIGHASH_ALL is about, the witnesses apart.             *)
Run(script, tx, input, amount) ==
    [script |-> script, tx |-> tx, input |-> input, amount |-> amount]

Sighash(run) == [run EXCEPT !.tx.wit = <<>>]
TapSighash(tx) == [tap |-> [tx EXCEPT !.wit = <<>>]]
-----------------------------------------------------------------------------
(* A machine: eval_stack, exec_stack, and whether nothing was raised.      *)
Start(stack) == [stack |-> stack, exec |-> <<>>, ok |-> TRUE]

Raised(m) == [m EXCEPT !.ok = FALSE]

IsExecuting(m) == FALSE \notin Range(m.exec)

Needs(m, n, result) == IF Len(m.stack) < n THEN Raised(m) ELSE result

Pop(m, n) == SubSeq(m.stack, 1, Len(m.stack) - n)

Replace(m, n, v) == [m EXCEPT !.stack = Append(Pop(m, n), v)]

(* The outcome of a check: pushed, or demanded by a VERIFY opcode.         *)
Check(m, n, b, verify) ==
    IF ~verify THEN Replace(m, n, IF b THEN Num(1) ELSE Num(0))
    ELSE IF b THEN [m EXCEPT !.stack = Pop(m, n)]
    ELSE Raised(m)

ControlOps == {"IF", "NOTIF", "ELSE", "ENDIF"}

OpIf(m, negate) ==
    IF ~IsExecuting(m) THEN [m EXCEPT !.exec = Append(@, FALSE)]
    ELSE Needs(m, 1, [m EXCEPT !.stack = Front(@),
                               !.exec = Append(@, CastToBool(Last(m.stack)) # negate)])

(* A mutation: the other branch is opened within the first one.            *)
OpElseNests(m) ==
    IF m.exec = <<>> THEN Raised(m)
    ELSE [m EXCEPT !.exec = Append(@, ~Last(@))]

OpElse(m) ==
    IF m.exec = <<>> THEN Raised(m)
    ELSE [m EXCEPT !.exec = Append(Front(@), ~Last(@))]

OpEndIf(m) ==
    IF m.exec = <<>> THEN Raised(m) ELSE [m EXCEPT !.exec = Front(@)]

HandleControlFlow(m, op) ==
    CASE op[1] = "IF" -> OpIf(m, FALSE)
      [] op[1] = "NOTIF" -> OpIf(m, TRUE)
      [] op[1] = "ELSE" -> OpElse(m)
      [] op[1] = "ENDIF" -> OpEndIf(m)

(* The timelocks leave their operand, a number the script has pushed.      *)
OpCltv(m, run) ==
    Needs(m, 1, IF \/ run.tx.ins[run.input].sequence = Final
                   \/ run.tx.locktime < Last(m.stack)[2]
                THEN Raised(m) ELSE m)

OpCsv(m, run) ==
    Needs(m, 1, LET sequence == run.tx.ins[run.input].sequence
                IN IF sequence.disabled \/ sequence.low < Last(m.stack)[2]
                   THEN Raised(m) ELSE m)

OpCheckSig(m, run, verify) ==
    Needs(m, 2, LET key == Last(m.stack)
                    sig == m.stack[Len(m.stack) - 1]
                IN Check(m, 2, sig = Sig(key, Sighash(run)), verify))

(***************************************************************************)
(* The keys and the signatures, each from the top down: every key is tried *)
(* on the first signature without a match. The dummy below is popped if it *)
(* is there. An empty signature, or too few elements, raises.              *)
(***************************************************************************)
OpCheckMultisig(m, run, verify) ==
    LET l == Len(m.stack)
        n == m.stack[l][2]
        s == m.stack[l - n - 1][2]
        used == n + s + 2
        sig(i) == m.stack[l - n - 1 - i]
        try(t, i) ==
            IF t.matched = s THEN t
            ELSE IF sig(t.matched + 1) = Num(0) THEN [t EXCEPT !.empty = TRUE]
            ELSE IF sig(t.matched + 1) = Sig(m.stack[l - i], Sighash(run))
                 THEN [t EXCEPT !.matched = @ + 1]
            ELSE t
        tried[i \in 0..n] ==
            IF i = 0 THEN [matched |-> 0, empty |-> FALSE] ELSE try(tried[i - 1], i)
    IN IF l < 1 \/ l < n + 2 \/ l < used \/ tried[n].empty THEN Raised(m)
       ELSE Check(m, IF l > used THEN used + 1 ELSE used, tried[n].matched = s, verify)

(* EQUAL, EQUALVERIFY.                                                     *)
OpEqual(m, verify) ==
    Needs(m, 2, Check(m, 2, Last(m.stack) = m.stack[Len(m.stack) - 1], verify))

OpIfDup(m) ==
    Needs(m, 1, IF CastToBool(Last(m.stack)) THEN Replace(m, 0, Last(m.stack)) ELSE m)

HashOps == {"SHA256", "HASH160", "HASH256", "RIPEMD160"}

DispatchOpcode(m, op, run) ==
    CASE op[1] = "push" -> Replace(m, 0, op[2])
      [] op[1] = "DROP" -> Needs(m, 1, [m EXCEPT !.stack = Pop(m, 1)])
      [] op[1] = "2DROP" -> Needs(m, 2, [m EXCEPT !.stack = Pop(m, 2)])
      [] op[1] = "DUP" -> Needs(m, 1, Replace(m, 0, Last(m.stack)))
      [] op[1] = "IFDUP" -> OpIfDup(m)
      [] op[1] \in {"EQUAL", "EQUALVERIFY"} -> OpEqual(m, op[1] = "EQUALVERIFY")
      [] op[1] \in HashOps -> Needs(m, 1, Replace(m, 1, Digest(op[1], Last(m.stack))))
      [] op[1] = "CLTV" -> OpCltv(m, run)
      [] op[1] = "CSV" -> OpCsv(m, run)
      [] op[1] \in {"CHECKSIG", "CHECKSIGVERIFY"} ->
            OpCheckSig(m, run, op[1] = "CHECKSIGVERIFY")
      [] op[1] \in {"CHECKMULTISIG", "CHECKMULTISIGVERIFY"} ->
            OpCheckMultisig(m, run, op[1] = "CHECKMULTISIGVERIFY")

(* One pass of the loop of execute.                                        *)
Step(m, op, run) ==
    IF ~m.ok THEN m
    ELSE IF op[1] \in ControlOps THEN HandleControlFlow(m, op)
    ELSE IF IsExecuting(m) THEN DispatchOpcode(m, op, run)
    ELSE m

(* A mutation: whatever is left on the stack is taken for true.            *)
SucceedsUnlessEmpty(m) == m.ok /\ m.exec = <<>> /\ m.stack # <<>>

Succeeds(m) ==
    m.ok /\ m.exec = <<>> /\ m.stack # <<>> /\ CastToBool(Last(m.stack))

(* The machine after the first n opcodes, for every n.                     *)
Machines(run, stack) ==
    LET after[n \in 0..Len(run.script)] ==
            IF n = 0 THEN Start(stack) ELSE Step(after[n - 1], run.script[n], run)
    IN after

Execute(run, stack) == Succeeds(Machines(run, stack)[Len(run.script)])
-----------------------------------------------------------------------------
VerifyKeyHash(program, w, tx, i, amount) ==
    /\ Len(w) = 2
    /\ Digest("HASH160", w[2]) = program
    /\ w[1] = Sig(w[2], Sighash(Run(P2wpkhScriptCode(w[2]), tx, i, amount)))

VerifyTaprootKey(program, w, tx) ==
    Len(w) = 1 /\ w[1] = Schnorr(program, TapSighash(tx))

(* What the two script programs run, if they get so far: the script and the*)
(* stack it starts with.                                                   *)
NoScript == <<>>

ScriptPath(program, w) ==
    IF /\ w # <<>> /\ Last(w)[1] = "script"
       /\ Digest("SHA256", Last(w)) = program
    THEN <<Last(w)[2], Front(w)>>
    ELSE NoScript

MerkleRoot(script, path) ==
    LET node[n \in 0..Len(path)] ==
            IF n = 0 THEN TapLeaf(script) ELSE TapBranch(node[n - 1], path[n])
    IN node[Len(path)]

TapscriptPath(program, w) ==
    IF /\ Len(w) >= 2 /\ Last(w)[1] = "control" /\ w[Len(w) - 1][1] = "script"
       /\ TapTweak(Last(w)[2], MerkleRoot(w[Len(w) - 1][2], Last(w)[3])) = program
    THEN <<w[Len(w) - 1][2], SubSeq(w, 1, Len(w) - 2)>>
    ELSE NoScript

(* from_script_pub_key and the verify of the four kinds of program.        *)
ToRun(spk, w) ==
    CASE spk[1] = "wsh" -> ScriptPath(spk[2], w)
      [] spk[1] = "tr" -> TapscriptPath(spk[2], w)
      [] OTHER -> NoScript

VerifyWithoutScript(tx, i, spk, amount) ==
    CASE spk[1] = "wpkh" -> VerifyKeyHash(spk[2], tx.wit[i], tx, i, amount)
      [] spk[1] = "tr" -> VerifyTaprootKey(spk[2], tx.wit[i], tx)
      [] OTHER -> FALSE

VerifyTransactionWitness(tx, i, spk, amount) ==
    /\ i <= Len(tx.wit)
    /\ LET job == ToRun(spk, tx.wit[i])
       IN IF job = NoScript THEN VerifyWithoutScript(tx, i, spk, amount)
          ELSE Execute(Run(job[1], tx, i, amount), job[2])
=============================================================================
