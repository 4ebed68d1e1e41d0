------------------------------ MODULE Shachain ------------------------------
(***************************************************************************)
(* The compact store of revealed revocation secrets of                     *)
(* protocols/shachain.py: the derivation rule, the receiver's add_secret   *)
(* and get_secret, under reveals in any order, honest or not.              *)
(*                                                                         *)
(* A commitment index is the set of its one bits, a subset of 0..Bits-1    *)
(* (the code has Bits = 48). A secret is symbolic: the 32 bytes it was     *)
(* derived from, and the bits flipped and hashed since. Bits are always    *)
(* flipped from high to low, so the set says the sequence; SHA-256 maps    *)
(* different derivations to different secrets.                             *)
(***************************************************************************)
EXTENDS Integers, FiniteSets

CONSTANTS
    Bits,       \* the length of an index
    Seed,       \* the generator's seed
    FakeRoots   \* values a peer may send that come from no seed

ASSUME BitsAssumption == Bits \in Nat \ {0}

ASSUME RootsAssumption == Seed \notin FakeRoots

Index == SUBSET (0..Bits-1)

RevocationSecret == [root : {Seed} \cup FakeRoots, flipped : Index]

VARIABLES
    elements,   \* the slots: index -> secret
    received    \* history: the <<index, secret>> pairs add_secret accepted

shachainVars == <<elements, received>>

ShachainTypeOK ==
    /\ elements = [i \in DOMAIN elements |-> elements[i]]
    /\ DOMAIN elements \subseteq Index
    /\ \A i \in DOMAIN elements : elements[i] \in RevocationSecret
    /\ received \subseteq Index \X RevocationSecret
-----------------------------------------------------------------------------
(* derive_shachain_secret                                                  *)
DeriveShachainSecret(seed, index) == [root |-> seed, flipped |-> index]

(* A mutation: the indices of one bit more than the store has.             *)
CommitmentIndexWide(number) == (0..Bits) \ number

(***************************************************************************)
(* The index reversal of get_commitment_secret, in the generator and in the*)
(* receiver: max_idx - number flips every bit of the number.               *)
(***************************************************************************)
CommitmentIndex(number) == (0..Bits-1) \ number

(* Mutations: one bit too many, one bit too few below the lowest one bit.  *)
TrailingZerosLong(index) == {b \in 0..Bits-1 : \A c \in index : b <= c}

TrailingZerosShort(index) == {b \in 0..Bits-1 : \A c \in index : b + 1 < c}

(***************************************************************************)
(* The positions below the lowest one bit, all of them for index 0: what   *)
(* index & -index counts in can_derive and derive_from_ancestor.           *)
(***************************************************************************)
TrailingZeros(index) == {b \in 0..Bits-1 : \A c \in index : b < c}

(***************************************************************************)
(* can_derive: the two indices agree on the masked bits, those that are    *)
(* not trailing zeros of the source.                                       *)
(***************************************************************************)
CanDerive(source, target) ==
    \/ source = target
    \/ source \ TrailingZeros(source) = target \ TrailingZeros(source)

(* derive_from_ancestor walks from the trailing zeros down.                *)
DeriveFromAncestor(secret, ancestor, target) ==
    IF ancestor = target
    THEN secret
    ELSE [secret EXCEPT !.flipped =
             @ \cup {b \in TrailingZeros(ancestor) : b \in target}]

ShachainInit == elements = [i \in {} |-> {}] /\ received = {}

(* Mutations of add_secret: no pruning; prunes by bits, derivable or not.  *)
AddSecretUnpruned(secret, index) ==
    /\ IF \E slot \in DOMAIN elements : CanDerive(slot, index)
       THEN /\ \A slot \in DOMAIN elements : CanDerive(slot, index) =>
                  DeriveFromAncestor(elements[slot], slot, index) = secret
            /\ elements' = elements
       ELSE elements' = [i \in DOMAIN elements \cup {index} |->
                            IF i = index THEN secret ELSE elements[i]]
    /\ received' = received \cup {<<index, secret>>}

AddSecretPrunesHigher(secret, index) ==
    /\ IF \E slot \in DOMAIN elements : CanDerive(slot, index)
       THEN /\ \A slot \in DOMAIN elements : CanDerive(slot, index) =>
                  DeriveFromAncestor(elements[slot], slot, index) = secret
            /\ elements' = elements
       ELSE elements' = [i \in {j \in DOMAIN elements : ~(index \subseteq j)}
                                 \cup {index} |->
                            IF i = index THEN secret ELSE elements[i]]
    /\ received' = received \cup {<<index, secret>>}

(***************************************************************************)
(* add_secret. A secret that some slot derives is compared with what that  *)
(* slot gives, raises if it differs, and is not stored. Otherwise it is    *)
(* stored and every slot that the new one derives is pruned: of the slots  *)
(* there were before, none derives another (StoreIsMinimal).               *)
(***************************************************************************)
AddSecret(secret, index) ==
    /\ IF \E slot \in DOMAIN elements : CanDerive(slot, index)
       THEN /\ \E slot \in DOMAIN elements :
                  /\ CanDerive(slot, index)
                  /\ DeriveFromAncestor(elements[slot], slot, index) = secret
            /\ elements' = elements
       ELSE elements' = [i \in {j \in DOMAIN elements : ~CanDerive(index, j)}
                                 \cup {index} |->
                            IF i = index THEN secret ELSE elements[i]]
    /\ received' = received \cup {<<index, secret>>}

ShachainNext ==
    \/ \E number \in Index :
          AddSecret(DeriveShachainSecret(Seed, CommitmentIndex(number)),
                    CommitmentIndex(number))
    \/ \E index \in Index, root \in FakeRoots :
          AddSecret([root |-> root, flipped |-> {}], index)

ShachainSpec == ShachainInit /\ [][ShachainNext]_shachainVars

(***************************************************************************)
(* get_secret: the slot itself, or else any slot that derives the index;   *)
(* which one depends on the order of the dict. The set of possible answers.*)
(***************************************************************************)
GetSecret(index) ==
    IF index \in DOMAIN elements
    THEN {elements[index]}
    ELSE {DeriveFromAncestor(elements[slot], slot, index) :
             slot \in {s \in DOMAIN elements : CanDerive(s, index)}}
-----------------------------------------------------------------------------
RevealedIndices == {r[1] : r \in received}

Honest == \A r \in received : r[2] = DeriveShachainSecret(Seed, r[1])

(***************************************************************************)
(* The promise of ShachainReceiver: as long as the peer revealed secrets of*)
(* one seed, in whatever order, get_secret returns every one of them       *)
(* exactly, although most were pruned or never stored.                     *)
(***************************************************************************)
AllRetrievable ==
    Honest => \A i \in RevealedIndices :
                 GetSecret(i) = {DeriveShachainSecret(Seed, i)}

(***************************************************************************)
(* The slots are exactly the revealed indices that no other revealed index *)
(* derives: the store does not depend on the order of the reveals and      *)
(* nothing redundant is kept, even with a peer that sends wrong secrets.   *)
(***************************************************************************)
StoreIsMinimal ==
    DOMAIN elements = {i \in RevealedIndices :
                          \A j \in RevealedIndices \ {i} : ~CanDerive(j, i)}

(***************************************************************************)
(* get_secret never has two slots to choose from: what it returns does not *)
(* depend on the iteration order of the dict.                              *)
(***************************************************************************)
AnswerUnique == \A i \in Index : Cardinality(GetSecret(i)) <= 1

(***************************************************************************)
(* "At most 48 slots": whenever the revealed secrets are those of the      *)
(* commitments 0, 1, ... n, the order a channel reveals them in, at most   *)
(* Bits slots are in use.                                                  *)
(***************************************************************************)
Earlier(i, j) ==    \* the number of i is below that of j: at the highest bit
    \E b \in i \ j :   \* in which they differ it has a zero, its index a one
        \A c \in (i \ j) \cup (j \ i) : c <= b

SlotBound ==
    (\A i \in RevealedIndices, j \in Index :
        Earlier(j, i) => j \in RevealedIndices)
    => Cardinality(DOMAIN elements) <= Bits
=============================================================================
