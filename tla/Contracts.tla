------------------------------- MODULE Contracts -------------------------------
(***************************************************************************)
(* bitcoin/contracts.py and the scripts of bitcoin/taproot.py and          *)
(* protocols/: script templates, witness stacks and the symbols they are   *)
(* made of.                                                                *)
(*                                                                         *)
(* Bytes are symbols: what hashes to a digest, or is signed by a key, is   *)
(* the argument of the symbol, so digests do not collide and signatures are*)
(* not forged. Every symbol is a tuple that begins with its kind. Numbers  *)
(* are the empty string (0), 0x01 and the operands that scripts push; all  *)
(* other bytes are true. Of nSequence the record keeps bit 31 and the low  *)
(* 16 bits; 0xffffffff is Final.                                           *)
(***************************************************************************)
EXTENDS Naturals, Sequences, SequencesExt

Num(n) == <<"num", n>>
Key(name) == <<"key", <<name>>>>
Secret(id) == <<"secret", id>>
Digest(hash, v) == <<hash, v>>
ScriptItem(script) == <<"script", script>>
Sig(key, message) == <<"sig", key, message>>
Schnorr(key, message) == <<"schnorr", key, message>>

Op(name) == <<name>>
Push(v) == <<"push", v>>

Sequence(disabled, low) == [disabled |-> disabled, low |-> low]
Final == Sequence(TRUE, 65535)
CltvEnable == Sequence(TRUE, 65534)
-----------------------------------------------------------------------------
(* sorted: an order of two keys that does not depend on which comes first. *)
SortedKeys(a, b) == CHOOSE keys \in {<<a, b>>, <<b, a>>} : TRUE

Multisig2of2(key1, key2) ==
    LET keys == SortedKeys(key1, key2)
    IN <<Push(Num(2)), Push(keys[1]), Push(keys[2]), Push(Num(2)), Op("CHECKMULTISIG")>>

(* A mutation: the refund does not wait.                                   *)
HtlcWithoutTimelock(sender, receiver, hash, locktime) ==
    <<Op("IF"), Op("SHA256"), Push(hash), Op("EQUALVERIFY"),
                Push(receiver), Op("CHECKSIG"),
      Op("ELSE"), Push(sender), Op("CHECKSIG"),
      Op("ENDIF")>>

Htlc(sender, receiver, hash, locktime) ==
    <<Op("IF"), Op("SHA256"), Push(hash), Op("EQUALVERIFY"),
                Push(receiver), Op("CHECKSIG"),
      Op("ELSE"), Push(Num(locktime)), Op("CLTV"), Op("DROP"),
                Push(sender), Op("CHECKSIG"),
      Op("ENDIF")>>

Ptlc(sender, receiver, locktime) ==
    <<Op("IF"), Push(receiver), Op("CHECKSIG"),
      Op("ELSE"), Push(Num(locktime)), Op("CLTV"), Op("DROP"),
                Push(sender), Op("CHECKSIG"),
      Op("ENDIF")>>

RevocableOutput(revocation, local, delay) ==
    <<Op("IF"), Push(revocation), Op("CHECKSIG"),
      Op("ELSE"), Push(Num(delay)), Op("CSV"), Op("DROP"),
                Push(local), Op("CHECKSIG"),
      Op("ENDIF")>>

(* The output of a second-stage transaction is the same script.            *)
SecondStageHtlc(revocation, delayed, delay) == RevocableOutput(revocation, delayed, delay)

Anchor(key) ==
    <<Push(key), Op("CHECKSIG"), Op("IFDUP"), Op("NOTIF"), Push(Num(16)), Op("CSV"),
      Op("ENDIF")>>

(* Its secret is known to who knows those of the base and of the point.    *)
RevocationKey(base, point) == <<"key", <<"revocation", base, point>>>>
-----------------------------------------------------------------------------
P2wpkh(key) == <<"wpkh", Digest("HASH160", key)>>
P2wsh(script) == <<"wsh", Digest("SHA256", ScriptItem(script))>>
P2tr(key) == <<"tr", key>>

P2wpkhScriptCode(key) ==
    <<Op("DUP"), Op("HASH160"), Push(Digest("HASH160", key)), Op("EQUALVERIFY"),
      Op("CHECKSIG")>>

(* The hash of a branch does not depend on the order of its children.      *)
TapLeaf(script) == <<"leaf", script>>
TapBranch(a, b) == <<"branch", {a, b}>>
TapTweak(internal, root) == <<"key", <<"tweak", internal, root>>>>
Control(internal, path) == <<"control", internal, path>>
-----------------------------------------------------------------------------
FulfillWitness(sig, preimage, script) == <<sig, preimage, Num(1), ScriptItem(script)>>
RefundWitness(sig, script) == <<sig, Num(0), ScriptItem(script)>>
MultisigWitness(sig1, sig2, script) == <<Num(0), sig1, sig2, ScriptItem(script)>>
(* The first branch of a script whose selector is all it needs.            *)
RemedyWitness(sig, script) == <<sig, Num(1), ScriptItem(script)>>
=============================================================================
