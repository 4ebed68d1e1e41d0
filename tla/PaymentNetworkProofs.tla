------------------------- MODULE PaymentNetworkProofs ------------------------
(***************************************************************************)
(* Proofs about one channel object under any callers, and about the nodes  *)
(* that route payments over many of them. The modules Channel and          *)
(* PaymentNetwork have no variable in common, only the operators of        *)
(* ChannelOps; the lemmas about satoshis serve both.                       *)
(*                                                                         *)
(* 1. Amounts: a table f from names to amounts is worth the number of      *)
(*    pairs <<name, k>> with k in 1..f[name].                              *)
(* 2. One channel: each operation moves the locked total by what the id it *)
(*    acts on locks before and after.                                      *)
(* 3. The network: routed payments are atomic for their two ends, and safe *)
(*    for each relay.                                                      *)
(* 4. The accounts of the network.                                         *)
(***************************************************************************)
EXTENDS Channel, PaymentNetwork, FiniteSetTheorems, TLAPS

-----------------------------------------------------------------------------
(***************************************************************************)
(* 1. Amounts. Changing one entry of a table moves its worth by that entry,*)
(* splitting a table splits its worth, and renaming its entries leaves it. *)
(***************************************************************************)

Sats(id, amount) == {id} \X (1..amount)

SatsOf(f) == UNION {Sats(id, f[id]) : id \in DOMAIN f}

Worth(f) == Cardinality(SatsOf(f))

EntryOf(f, id) == IF id \in DOMAIN f THEN f[id] ELSE 0

Others(f, id) == {s \in SatsOf(f) : s[1] # id}

LEMMA SatsMember ==
    ASSUME NEW f, NEW s
    PROVE  s \in SatsOf(f) <=> \E id \in DOMAIN f : \E k \in 1..f[id] : s = <<id, k>>
BY DEF SatsOf, Sats

(* amount satoshis are amount elements.                                    *)
LEMMA SatsCount ==
    ASSUME NEW id, NEW amount \in Nat
    PROVE  /\ IsFiniteSet(Sats(id, amount))
           /\ Cardinality(Sats(id, amount)) = amount
<1>1. IsFiniteSet(1..amount) /\ Cardinality(1..amount) = amount
  BY FS_Interval
<1>2. IsFiniteSet({id}) /\ Cardinality({id}) = 1
  BY FS_Singleton
<1>3. QED
  BY <1>1, <1>2, FS_Product DEF Sats

(* Disjoint finite sets count separately.                                  *)
LEMMA CountDisjoint ==
    ASSUME NEW S, NEW T, IsFiniteSet(S), IsFiniteSet(T), S \cap T = {}
    PROVE  /\ IsFiniteSet(S \cup T)
           /\ Cardinality(S) \in Nat /\ Cardinality(T) \in Nat
           /\ Cardinality(S \cup T) = Cardinality(S) + Cardinality(T)
<1>1. Cardinality(S \cap T) = 0
  BY FS_EmptySet
<1>2. Cardinality(S) \in Nat /\ Cardinality(T) \in Nat
  BY FS_CardinalityType
<1>3. /\ IsFiniteSet(S \cup T)
      /\ Cardinality(S \cup T) = Cardinality(S) + Cardinality(T) - Cardinality(S \cap T)
  BY FS_Union
<1>4. QED
  BY <1>1, <1>2, <1>3

(* A table is worth its other entries and the one of id.                   *)
LEMMA WorthAt ==
    ASSUME NEW f, NEW id, IsFiniteSet(Others(f, id)), EntryOf(f, id) \in Nat
    PROVE  /\ IsFiniteSet(SatsOf(f))
           /\ Cardinality(Others(f, id)) \in Nat
           /\ Worth(f) = Cardinality(Others(f, id)) + EntryOf(f, id)
<1>1. IsFiniteSet(Sats(id, EntryOf(f, id)))
      /\ Cardinality(Sats(id, EntryOf(f, id))) = EntryOf(f, id)
  BY SatsCount
<1>2. Others(f, id) \cap Sats(id, EntryOf(f, id)) = {}
  BY DEF Others, Sats
<1>3. SatsOf(f) = Others(f, id) \cup Sats(id, EntryOf(f, id))
  <2>1. ASSUME NEW s \in SatsOf(f)
        PROVE  s \in Others(f, id) \/ s \in Sats(id, EntryOf(f, id))
    BY SatsMember DEF Others, Sats, EntryOf
  <2>2. ASSUME NEW s \in Sats(id, EntryOf(f, id)) PROVE s \in SatsOf(f)
    <3>1. PICK k \in 1..EntryOf(f, id) : s = <<id, k>>
      BY DEF Sats
    <3>2. id \in DOMAIN f /\ EntryOf(f, id) = f[id]
      BY <3>1 DEF EntryOf
    <3>3. QED
      BY <3>1, <3>2, SatsMember
  <2>3. Others(f, id) \subseteq SatsOf(f)
    BY DEF Others
  <2>4. QED
    BY <2>1, <2>2, <2>3
<1>4. QED
  BY <1>1, <1>2, <1>3, CountDisjoint DEF Worth

(***************************************************************************)
(* A change of the entry of id alone, whether it adds, replaces or deletes *)
(* it, moves the worth by what the entry was and is.                       *)
(***************************************************************************)
LEMMA WorthChange ==
    ASSUME NEW f, NEW g, NEW id, IsFiniteSet(SatsOf(f)),
           EntryOf(f, id) \in Nat, EntryOf(g, id) \in Nat,
           DOMAIN g \ {id} = DOMAIN f \ {id},
           \A k \in DOMAIN f \ {id} : g[k] = f[k]
    PROVE  /\ IsFiniteSet(SatsOf(g))
           /\ Worth(f) \in Nat /\ Worth(g) \in Nat
           /\ Worth(g) = Worth(f) - EntryOf(f, id) + EntryOf(g, id)
<1>1. IsFiniteSet(Others(f, id))
  BY FS_Subset DEF Others
<1>2. Others(g, id) = Others(f, id)
  BY SatsMember DEF Others
<1>3. /\ Cardinality(Others(f, id)) \in Nat
      /\ Worth(f) = Cardinality(Others(f, id)) + EntryOf(f, id)
  BY <1>1, WorthAt
<1>4. /\ IsFiniteSet(SatsOf(g))
      /\ Worth(g) = Cardinality(Others(f, id)) + EntryOf(g, id)
  BY <1>1, <1>2, WorthAt
<1>5. QED
  BY <1>3, <1>4
-----------------------------------------------------------------------------
(* A table that is g on the names of g and h on those of h.                *)
SplitInto(f, g, h) ==
    /\ DOMAIN f = DOMAIN g \cup DOMAIN h /\ DOMAIN g \cap DOMAIN h = {}
    /\ \A k \in DOMAIN g : f[k] = g[k]
    /\ \A k \in DOMAIN h : f[k] = h[k]

(* A table is worth what two parts of it are.                              *)
LEMMA WorthSplit ==
    ASSUME NEW f, NEW g, NEW h, IsFiniteSet(SatsOf(f)), SplitInto(f, g, h)
    PROVE  /\ IsFiniteSet(SatsOf(g)) /\ IsFiniteSet(SatsOf(h))
           /\ Worth(g) \in Nat /\ Worth(h) \in Nat
           /\ Worth(f) = Worth(g) + Worth(h)
<1>1. SatsOf(f) = SatsOf(g) \cup SatsOf(h)
  <2>1. ASSUME NEW s \in SatsOf(f) PROVE s \in SatsOf(g) \cup SatsOf(h)
    BY SatsMember DEF SplitInto
  <2>2. ASSUME NEW s \in SatsOf(g) \cup SatsOf(h) PROVE s \in SatsOf(f)
    BY SatsMember DEF SplitInto
  <2>3. QED
    BY <2>1, <2>2
<1>2. SatsOf(g) \cap SatsOf(h) = {}
  BY SatsMember DEF SplitInto
<1>3. IsFiniteSet(SatsOf(g)) /\ IsFiniteSet(SatsOf(h))
  BY <1>1, FS_Subset
<1>4. QED
  BY <1>1, <1>2, <1>3, CountDisjoint DEF Worth

(* Renaming the entries one to one leaves the worth.                       *)
LEMMA WorthRenamed ==
    ASSUME NEW f, NEW g, NEW b, IsFiniteSet(SatsOf(f)),
           \A k \in DOMAIN f : b[k] \in DOMAIN g /\ g[b[k]] = f[k],
           \A j, k \in DOMAIN f : b[j] = b[k] => j = k,
           \A j \in DOMAIN g : \E k \in DOMAIN f : b[k] = j
    PROVE  Worth(g) = Worth(f) /\ IsFiniteSet(SatsOf(g))
<1> DEFINE m == [s \in SatsOf(f) |-> <<b[s[1]], s[2]>>]
<1>1. /\ \A k \in DOMAIN f : b[k] \in DOMAIN g
      /\ \A j, k \in DOMAIN f : b[j] = b[k] => j = k
      /\ \A j \in DOMAIN g : \E k \in DOMAIN f : b[k] = j
  OBVIOUS
<1>2. ASSUME NEW s \in SatsOf(f) PROVE m[s] \in SatsOf(g)
  <2>1. PICK k \in DOMAIN f : \E j \in 1..f[k] : s = <<k, j>>
    BY SatsMember
  <2>2. PICK j \in 1..f[k] : s = <<k, j>>
    BY <2>1
  <2>3. m[s] = <<b[k], j>> /\ b[k] \in DOMAIN g /\ j \in 1..g[b[k]]
    BY <1>1, <2>2
  <2>4. QED
    BY <2>3, SatsMember
<1>3. ASSUME NEW s \in SatsOf(f), NEW t \in SatsOf(f), m[s] = m[t] PROVE s = t
  <2>1. /\ \E k \in DOMAIN f : \E j \in 1..f[k] : s = <<k, j>>
        /\ \E k \in DOMAIN f : \E j \in 1..f[k] : t = <<k, j>>
    BY SatsMember
  <2>2. b[s[1]] = b[t[1]] /\ s[2] = t[2]
    BY <1>3
  <2>3. s[1] = t[1]
    BY <1>1, <2>1, <2>2
  <2>4. QED
    BY <2>1, <2>2, <2>3
<1>4. ASSUME NEW t \in SatsOf(g) PROVE \E s \in SatsOf(f) : m[s] = t
  <2>1. PICK k \in DOMAIN g : \E j \in 1..g[k] : t = <<k, j>>
    BY SatsMember
  <2>0. PICK j \in 1..g[k] : t = <<k, j>>
    BY <2>1
  <2>2. PICK x \in DOMAIN f : b[x] = k
    BY <1>1
  <2>3. j \in 1..f[x]
    BY <2>2
  <2>4. <<x, j>> \in SatsOf(f)
    BY <2>3, SatsMember
  <2>5. m[<<x, j>>] = t
    BY <2>0, <2>2, <2>4
  <2>6. QED
    BY <2>4, <2>5
<1>5. m \in Bijection(SatsOf(f), SatsOf(g))
  <2>1. m \in [SatsOf(f) -> SatsOf(g)]
    BY <1>2
  <2> HIDE DEF m
  <2>2. QED
    BY <1>3, <1>4, <2>1 DEF Bijection, Injection, IsInjective, Surjection
<1> HIDE DEF m
<1>6. QED
  BY <1>5, FS_Bijection DEF Worth, ExistsBijection
-----------------------------------------------------------------------------
(* What the pending HTLCs of a channel lock for p, as a table.             *)
LockTable(ch, p) ==
    [h \in {i \in Pending(ch) : ch.active_htlcs[i].offerer_alias = p} |->
        ch.active_htlcs[h].amount_sat]

(* What the pending HTLC id, if it is one of p's, locks for p.             *)
LockedIn(ch, p, id) ==
    IF id \in Pending(ch) /\ ch.active_htlcs[id].offerer_alias = p
    THEN ch.active_htlcs[id].amount_sat ELSE 0

LEMMA LockedWorth ==
    ASSUME NEW ch, NEW p
    PROVE  /\ LockedSats(ch, p) = SatsOf(LockTable(ch, p))
           /\ Locked(ch, p) = Worth(LockTable(ch, p))
           /\ \A id : LockedIn(ch, p, id) = EntryOf(LockTable(ch, p), id)
<1>1. LockedSats(ch, p) = SatsOf(LockTable(ch, p))
  BY DEF LockedSats, SatsOf, Sats, LockTable
<1>2. \A id : LockedIn(ch, p, id) = EntryOf(LockTable(ch, p), id)
  BY DEF LockedIn, EntryOf, LockTable
<1>3. QED
  BY <1>1, <1>2 DEF Locked, Worth

(***************************************************************************)
(* An operation on id alone, whether it adds, replaces or deletes the      *)
(* record of id, moves the locked total by what id locks before and after. *)
(***************************************************************************)
LEMMA LockedChange ==
    ASSUME NEW ch, NEW ch2, NEW p, NEW id, IsFiniteSet(LockedSats(ch, p)),
           LockedIn(ch, p, id) \in Nat, LockedIn(ch2, p, id) \in Nat,
           Pending(ch2) \ {id} = Pending(ch) \ {id},
           \A h \in Pending(ch) \ {id} :
               ch2.active_htlcs[h] = ch.active_htlcs[h]
    PROVE  /\ IsFiniteSet(LockedSats(ch2, p))
           /\ Locked(ch, p) \in Nat
           /\ Locked(ch2, p) =
                 Locked(ch, p) - LockedIn(ch, p, id) + LockedIn(ch2, p, id)
<1> DEFINE f == LockTable(ch, p)
           g == LockTable(ch2, p)
<1>1. /\ DOMAIN g \ {id} = DOMAIN f \ {id}
      /\ \A k \in DOMAIN f \ {id} : g[k] = f[k]
  BY DEF LockTable
<1>2. EntryOf(f, id) \in Nat /\ EntryOf(g, id) \in Nat /\ IsFiniteSet(SatsOf(f))
  BY LockedWorth
<1> HIDE DEF f, g
<1>3. /\ IsFiniteSet(SatsOf(g))
      /\ Worth(f) \in Nat
      /\ Worth(g) = Worth(f) - EntryOf(f, id) + EntryOf(g, id)
  BY <1>1, <1>2, WorthChange
<1>4. QED
  BY <1>3, LockedWorth DEF f, g
-----------------------------------------------------------------------------
(***************************************************************************)
(* 2. One channel object, for every capacity, every set of HTLC ids,       *)
(* secrets, amounts and locktimes, and any number of calls.                *)
(***************************************************************************)

(* The partial functions from ids to HTLCs.                                *)
LEMMA PendingHtlcsDef ==
    ASSUME NEW f
    PROVE  f \in PendingHtlcs <=> /\ f = [h \in DOMAIN f |-> f[h]]
                                 /\ DOMAIN f \subseteq HtlcIds
                                 /\ \A h \in DOMAIN f : f[h] \in Htlc
<1>1. ASSUME f \in PendingHtlcs
      PROVE  /\ f = [h \in DOMAIN f |-> f[h]]
             /\ DOMAIN f \subseteq HtlcIds
             /\ \A h \in DOMAIN f : f[h] \in Htlc
  <2>1. PICK S \in SUBSET HtlcIds : f \in [S -> Htlc]
    BY <1>1 DEF PendingHtlcs
  <2>2. QED
    BY <2>1
<1>2. ASSUME f = [h \in DOMAIN f |-> f[h]], DOMAIN f \subseteq HtlcIds,
             \A h \in DOMAIN f : f[h] \in Htlc
      PROVE  f \in PendingHtlcs
  <2>1. f \in [DOMAIN f -> Htlc]
    BY <1>2
  <2>2. QED
    BY <1>2, <2>1 DEF PendingHtlcs
<1>3. QED
  BY <1>1, <1>2

(* The facts about one pending HTLC that the steps need.                   *)
LEMMA PendingHtlc ==
    ASSUME NEW ch \in ChannelType, NEW id \in Pending(ch)
    PROVE  /\ id \in HtlcIds
           /\ ch.active_htlcs[id] \in Htlc
           /\ ch.active_htlcs[id].amount_sat \in Nat
           /\ ch.active_htlcs[id].offerer_alias \in Parties
           /\ Counterparty(ch, ch.active_htlcs[id].offerer_alias) \in Parties
<1>1. ch.active_htlcs \in PendingHtlcs
  BY DEF ChannelType
<1>2. id \in HtlcIds /\ ch.active_htlcs[id] \in Htlc
  BY <1>1, PendingHtlcsDef DEF Pending
<1>3. /\ ch.active_htlcs[id].amount_sat \in Nat
      /\ ch.active_htlcs[id].offerer_alias \in Parties
  BY <1>2, AmountsAssumption DEF Htlc
<1>4. ch.sender_alias \in Parties /\ ch.receiver_alias \in Parties
  BY DEF ChannelType, Parties
<1>5. QED
  BY <1>2, <1>3, <1>4 DEF Counterparty

(***************************************************************************)
(* The record that each operator returns, field by field.                  *)
(***************************************************************************)
LEMMA AddFields ==
    ASSUME NEW ch \in ChannelType, NEW id \in HtlcIds, NEW htlc \in Htlc,
           CanAddHtlc(ch, htlc)
    PROVE  /\ AddHtlc(ch, id, htlc) \in ChannelType
           /\ AddHtlc(ch, id, htlc).state = ch.state
           /\ AddHtlc(ch, id, htlc).balance =
                 [ch.balance EXCEPT ![htlc.offerer_alias] = @ - htlc.amount_sat]
           /\ AddHtlc(ch, id, htlc).active_htlcs =
                 [h \in Pending(ch) \cup {id} |->
                     IF h = id THEN htlc ELSE ch.active_htlcs[h]]
<1> DEFINE bal == [ch.balance EXCEPT ![htlc.offerer_alias] = @ - htlc.amount_sat]
           act == [h \in Pending(ch) \cup {id} |->
                      IF h = id THEN htlc ELSE ch.active_htlcs[h]]
<1>1. AddHtlc(ch, id, htlc) =
         [ch EXCEPT !.balance = bal, !.active_htlcs = act,
                    !.sequence_number = ch.sequence_number + 1]
  BY DEF AddHtlc, Pending
<1>2. bal \in [Parties -> Nat]
  <2>1. ch.balance \in [Parties -> Nat]
    BY DEF ChannelType
  <2>2. htlc.amount_sat \in Nat /\ htlc.offerer_alias \in Parties
    BY AmountsAssumption DEF Htlc
  <2>3. ch.balance[htlc.offerer_alias] >= htlc.amount_sat
    BY DEF CanAddHtlc
  <2>4. ch.balance[htlc.offerer_alias] - htlc.amount_sat \in Nat
    BY <2>1, <2>2, <2>3
  <2>5. QED
    BY <2>1, <2>2, <2>4
<1>3. act \in PendingHtlcs
  BY PendingHtlc, PendingHtlcsDef
<1> DEFINE seq == ch.sequence_number + 1
<1>0. seq \in Nat
  BY DEF ChannelType
<1> HIDE DEF bal, act, seq
<1>4. [ch EXCEPT !.balance = bal, !.active_htlcs = act,
                 !.sequence_number = seq] \in ChannelType
  BY <1>0, <1>2, <1>3 DEF ChannelType
<1>5. /\ AddHtlc(ch, id, htlc).state = ch.state
      /\ AddHtlc(ch, id, htlc).balance = bal
      /\ AddHtlc(ch, id, htlc).active_htlcs = act
  BY <1>1 DEF ChannelType
<1>6. QED
  BY <1>1, <1>4, <1>5 DEF bal, act, seq

LEMMA ResolveFields ==
    ASSUME NEW ch \in ChannelType, NEW id \in Pending(ch), NEW p \in Parties
    PROVE  /\ Resolve(ch, id, p) \in ChannelType
           /\ Resolve(ch, id, p).state = ch.state
           /\ Resolve(ch, id, p).balance =
                 [ch.balance EXCEPT ![p] = @ + ch.active_htlcs[id].amount_sat]
           /\ Resolve(ch, id, p).active_htlcs =
                 [h \in Pending(ch) \ {id} |-> ch.active_htlcs[h]]
<1> DEFINE bal == [ch.balance EXCEPT ![p] = @ + ch.active_htlcs[id].amount_sat]
           act == [h \in Pending(ch) \ {id} |-> ch.active_htlcs[h]]
<1>1. Resolve(ch, id, p) =
         [ch EXCEPT !.balance = bal, !.active_htlcs = act,
                    !.sequence_number = ch.sequence_number + 1]
  BY DEF Resolve, Restrict, Pending
<1>2. bal \in [Parties -> Nat]
  <2>1. ch.balance \in [Parties -> Nat]
    BY DEF ChannelType
  <2>2. ch.balance[p] + ch.active_htlcs[id].amount_sat \in Nat
    BY <2>1, PendingHtlc
  <2>3. QED
    BY <2>1, <2>2
<1>3. act \in PendingHtlcs
  BY PendingHtlc, PendingHtlcsDef
<1> DEFINE seq == ch.sequence_number + 1
<1>0. seq \in Nat
  BY DEF ChannelType
<1> HIDE DEF bal, act, seq
<1>4. [ch EXCEPT !.balance = bal, !.active_htlcs = act,
                 !.sequence_number = seq] \in ChannelType
  BY <1>0, <1>2, <1>3 DEF ChannelType
<1>5. /\ Resolve(ch, id, p).state = ch.state
      /\ Resolve(ch, id, p).balance = bal
      /\ Resolve(ch, id, p).active_htlcs = act
  BY <1>1 DEF ChannelType
<1>6. QED
  BY <1>1, <1>4, <1>5 DEF bal, act, seq
-----------------------------------------------------------------------------
(***************************************************************************)
(* BalancesExplained is inductive once the sets it counts are known to be  *)
(* finite and the values to be of their types.                             *)
(***************************************************************************)
FiniteLocks == \A p \in Parties : IsFiniteSet(LockedSats(channel, p))

ChannelInv == ChannelTypeOK /\ FiniteLocks /\ BalancesExplained

LEMMA InitIInv == ChannelInit => ChannelInv
<1> SUFFICES ASSUME ChannelInit PROVE ChannelInv
  OBVIOUS
<1>1. ChannelTypeOK
  <2> DEFINE act == [h \in {} |-> {}]
             bal == [p \in {Sender, Receiver} |->
                        IF p = Sender THEN CapacitySat ELSE 0]
  <2>1. act \in PendingHtlcs
    BY PendingHtlcsDef
  <2>2. bal \in [Parties -> Nat]
    BY AmountsAssumption DEF Parties
  <2>3. channel =
           [sender_alias |-> Sender, receiver_alias |-> Receiver,
            capacity_sat |-> CapacitySat, balance |-> bal, state |-> "OPEN",
            active_htlcs |-> act, sequence_number |-> 0, revoked |-> {}]
    BY DEF ChannelInit, OpenChannel
  <2> HIDE DEF act, bal
  <2>4. channel \in ChannelType
    BY <2>1, <2>2, <2>3 DEF ChannelType
  <2>5. QED
    BY <2>4 DEF ChannelInit, ChannelTypeOK
<1>2. \A p \in Parties : LockedSats(channel, p) = {}
  BY DEF ChannelInit, OpenChannel, LockedSats, Pending
<1>3. FiniteLocks /\ \A p \in Parties : Locked(channel, p) = 0
  BY <1>2, FS_EmptySet DEF FiniteLocks, Locked
<1>4. BalancesExplained
  BY <1>3, AmountsAssumption, PartiesAssumption
     DEF ChannelInit, OpenChannel, BalancesExplained, Parties
<1>5. QED
  BY <1>1, <1>3, <1>4 DEF ChannelInv

(***************************************************************************)
(* What a step on id does to one side p, in terms of LockedIn.             *)
(***************************************************************************)
LEMMA LockedStep ==
    ASSUME ChannelInv, channel' \in ChannelType, NEW id \in HtlcIds,
           Pending(channel') \ {id} = Pending(channel) \ {id},
           \A h \in Pending(channel) \ {id} :
               channel'.active_htlcs[h] = channel.active_htlcs[h]
    PROVE  /\ FiniteLocks'
           /\ \A p \in Parties :
                 /\ LockedIn(channel, p, id) \in Nat
                 /\ LockedIn(channel', p, id) \in Nat
                 /\ Locked(channel, p) \in Nat
                 /\ Locked(channel', p) = Locked(channel, p)
                       - LockedIn(channel, p, id) + LockedIn(channel', p, id)
<1>1. channel \in ChannelType
  BY DEF ChannelInv, ChannelTypeOK
<1>2. \A p \in Parties : /\ LockedIn(channel, p, id) \in Nat
                         /\ LockedIn(channel', p, id) \in Nat
  BY <1>1, PendingHtlc DEF LockedIn
<1>3. \A p \in Parties : IsFiniteSet(LockedSats(channel, p))
  BY DEF ChannelInv, FiniteLocks
<1>4. \A p \in Parties :
         /\ IsFiniteSet(LockedSats(channel', p))
         /\ Locked(channel, p) \in Nat
         /\ Locked(channel', p) = Locked(channel, p)
               - LockedIn(channel, p, id) + LockedIn(channel', p, id)
  BY <1>2, <1>3, LockedChange
<1>5. QED
  BY <1>2, <1>4 DEF FiniteLocks

LEMMA ChannelOfferStep ==
    ASSUME ChannelInv, NEW id \in HtlcIds, NEW preimage \in Preimages,
           NEW amount \in Amounts, NEW locktime \in Locktimes,
           NEW offerer \in Parties,
           Offer(id, preimage, amount, locktime, offerer)
    PROVE  ChannelInv'
<1>0. PICK h \in Htlc : h = HTLCContract(Hash(preimage), amount, locktime, offerer)
  BY DEF HTLCContract, Htlc
<1>1. h.amount_sat = amount /\ h.offerer_alias = offerer /\ amount \in Nat
  BY <1>0, AmountsAssumption DEF HTLCContract
<1>2. CanAddHtlc(channel, h) /\ channel' = AddHtlc(channel, id, h)
  BY <1>0 DEF Offer
<1>3. channel \in ChannelType
  BY DEF ChannelInv, ChannelTypeOK
<1>4. /\ channel' \in ChannelType
      /\ channel'.balance = [channel.balance EXCEPT ![offerer] = @ - amount]
      /\ channel'.active_htlcs =
            [i \in Pending(channel) \cup {id} |->
                IF i = id THEN h ELSE channel.active_htlcs[i]]
  BY <1>1, <1>2, <1>3, AddFields
<1>5. /\ Pending(channel') = Pending(channel) \cup {id}
      /\ channel'.active_htlcs[id] = h
      /\ \A i \in Pending(channel) \ {id} :
            channel'.active_htlcs[i] = channel.active_htlcs[i]
  BY <1>4 DEF Pending
<1>6. /\ FiniteLocks'
      /\ \A p \in Parties :
            /\ LockedIn(channel, p, id) \in Nat
            /\ LockedIn(channel', p, id) \in Nat
            /\ Locked(channel, p) \in Nat
            /\ Locked(channel', p) = Locked(channel, p)
                  - LockedIn(channel, p, id) + LockedIn(channel', p, id)
  BY <1>4, <1>5, LockedStep
<1>7. \A p \in Parties :
         /\ channel.balance[p] \in Nat
         /\ channel'.balance[p] = channel.balance[p] - LockedIn(channel', p, id)
  BY <1>1, <1>3, <1>4, <1>5 DEF LockedIn, ChannelType
<1>8. /\ dropped' \in [Parties -> Nat]
      /\ \A p \in Parties : dropped'[p] = dropped[p] + LockedIn(channel, p, id)
  BY <1>3, PendingHtlc DEF Offer, ChannelInv, ChannelTypeOK, LockedIn
<1>9. ChannelTypeOK'
  BY <1>4, <1>8 DEF Offer, ChannelInv, ChannelTypeOK
<1>10. BalancesExplained'
  <2>1. paid' = paid /\ paid \in [Parties -> Nat] /\ dropped \in [Parties -> Nat]
    BY DEF Offer, ChannelInv, ChannelTypeOK
  <2>2. QED
    BY <1>6, <1>7, <1>8, <2>1, AmountsAssumption
       DEF ChannelInv, BalancesExplained, Parties
<1>11. QED
  BY <1>6, <1>9, <1>10 DEF ChannelInv

(***************************************************************************)
(* Resolve credits creditor with what the HTLC locked for its offerer.     *)
(***************************************************************************)
LEMMA ChannelResolveStep ==
    ASSUME ChannelInv, NEW id \in Pending(channel), NEW creditor \in Parties,
           channel' = Resolve(channel, id, creditor)
    PROVE  /\ channel' \in ChannelType
           /\ FiniteLocks'
           /\ \A p \in Parties :
                 /\ Locked(channel, p) \in Nat
                 /\ channel.balance[p] \in Nat
                 /\ Locked(channel', p) =
                       Locked(channel, p) - LockedIn(channel, p, id)
                 /\ channel'.balance[p] = channel.balance[p] +
                       IF p = creditor THEN channel.active_htlcs[id].amount_sat
                       ELSE 0
<1>1. channel \in ChannelType
  BY DEF ChannelInv, ChannelTypeOK
<1>2. /\ channel' \in ChannelType
      /\ channel'.balance = [channel.balance EXCEPT
             ![creditor] = @ + channel.active_htlcs[id].amount_sat]
      /\ channel'.active_htlcs =
             [h \in Pending(channel) \ {id} |-> channel.active_htlcs[h]]
  BY <1>1, ResolveFields
<1>3. /\ id \in HtlcIds
      /\ channel.active_htlcs[id].amount_sat \in Nat
  BY <1>1, PendingHtlc
<1>4. /\ Pending(channel') = Pending(channel) \ {id}
      /\ \A h \in Pending(channel) \ {id} :
            channel'.active_htlcs[h] = channel.active_htlcs[h]
  BY <1>2 DEF Pending
<1>5. /\ FiniteLocks'
      /\ \A p \in Parties :
            /\ LockedIn(channel, p, id) \in Nat
            /\ LockedIn(channel', p, id) \in Nat
            /\ Locked(channel, p) \in Nat
            /\ Locked(channel', p) = Locked(channel, p)
                  - LockedIn(channel, p, id) + LockedIn(channel', p, id)
  BY <1>2, <1>3, <1>4, LockedStep
<1>6. \A p \in Parties : LockedIn(channel', p, id) = 0
  BY <1>4 DEF LockedIn
<1>7. \A p \in Parties :
         /\ channel.balance[p] \in Nat
         /\ channel'.balance[p] = channel.balance[p] +
               IF p = creditor THEN channel.active_htlcs[id].amount_sat ELSE 0
  BY <1>1, <1>2, <1>3 DEF ChannelType
<1>8. QED
  BY <1>2, <1>5, <1>6, <1>7

LEMMA RedeemStep ==
    ASSUME ChannelInv, NEW id \in HtlcIds, NEW preimage \in Preimages,
           Redeem(id, preimage)
    PROVE  ChannelInv'
<1> DEFINE h == channel.active_htlcs[id]
           creditor == Counterparty(channel, h.offerer_alias)
<1>1. id \in Pending(channel) /\ channel' = Resolve(channel, id, creditor)
  BY DEF Redeem, CanRedeem, RedeemHtlc
<1>2. channel \in ChannelType
  BY DEF ChannelInv, ChannelTypeOK
<1>3. /\ h.amount_sat \in Nat
      /\ h.offerer_alias \in Parties
      /\ creditor \in Parties
      /\ creditor # h.offerer_alias
  BY <1>1, <1>2, PendingHtlc, PartiesAssumption
     DEF Counterparty, ChannelType, Parties
<1>4. /\ channel' \in ChannelType
      /\ FiniteLocks'
      /\ \A p \in Parties :
            /\ Locked(channel, p) \in Nat
            /\ channel.balance[p] \in Nat
            /\ Locked(channel', p) =
                  Locked(channel, p) - LockedIn(channel, p, id)
            /\ channel'.balance[p] = channel.balance[p] +
                  IF p = creditor THEN h.amount_sat ELSE 0
  BY <1>1, <1>3, ChannelResolveStep
<1>5. \A p \in Parties :
         LockedIn(channel, p, id) = IF p = h.offerer_alias THEN h.amount_sat ELSE 0
  BY <1>1 DEF LockedIn
<1>6. /\ paid \in [Parties -> Nat] /\ dropped \in [Parties -> Nat]
      /\ paid' = [paid EXCEPT ![h.offerer_alias] = @ + h.amount_sat]
      /\ dropped' = dropped
  BY DEF Redeem, ChannelInv, ChannelTypeOK
<1>7. ChannelTypeOK'
  BY <1>3, <1>4, <1>6 DEF Redeem, ChannelInv, ChannelTypeOK
<1>8. BalancesExplained'
  <2> HIDE DEF h, creditor
  <2>1. CASE h.offerer_alias = Sender
    BY <1>3, <1>4, <1>5, <1>6, <2>1, AmountsAssumption, PartiesAssumption
       DEF ChannelInv, BalancesExplained, Parties
  <2>2. CASE h.offerer_alias = Receiver
    BY <1>3, <1>4, <1>5, <1>6, <2>2, AmountsAssumption, PartiesAssumption
       DEF ChannelInv, BalancesExplained, Parties
  <2>3. QED
    BY <1>3, <2>1, <2>2 DEF Parties
<1>9. QED
  BY <1>4, <1>7, <1>8 DEF ChannelInv

LEMMA ChannelRefundStep ==
    ASSUME ChannelInv, NEW id \in HtlcIds, Refund(id)
    PROVE  ChannelInv'
<1> DEFINE h == channel.active_htlcs[id]
<1>1. /\ id \in Pending(channel)
      /\ channel' = Resolve(channel, id, h.offerer_alias)
  BY DEF Refund, CanRefund, RefundHtlc
<1>2. h.amount_sat \in Nat /\ h.offerer_alias \in Parties
  BY <1>1, PendingHtlc DEF ChannelInv, ChannelTypeOK
<1>3. /\ channel' \in ChannelType
      /\ FiniteLocks'
      /\ \A p \in Parties :
            /\ Locked(channel, p) \in Nat
            /\ channel.balance[p] \in Nat
            /\ Locked(channel', p) =
                  Locked(channel, p) - LockedIn(channel, p, id)
            /\ channel'.balance[p] = channel.balance[p] +
                  IF p = h.offerer_alias THEN h.amount_sat ELSE 0
  BY <1>1, <1>2, ChannelResolveStep
<1>4. \A p \in Parties :
         LockedIn(channel, p, id) = IF p = h.offerer_alias THEN h.amount_sat ELSE 0
  BY <1>1 DEF LockedIn
<1>5. ChannelTypeOK'
  BY <1>3 DEF Refund, ChannelInv, ChannelTypeOK
<1>6. BalancesExplained'
  <2> HIDE DEF h
  <2>1. \A p \in Parties : channel'.balance[p] + Locked(channel', p) =
                            channel.balance[p] + Locked(channel, p)
    BY <1>2, <1>3, <1>4
  <2>2. paid' = paid /\ dropped' = dropped
    BY DEF Refund
  <2>3. QED
    BY <2>1, <2>2 DEF ChannelInv, BalancesExplained, Parties
<1>7. QED
  BY <1>3, <1>5, <1>6 DEF ChannelInv

(* The other steps move no money.                                          *)
LEMMA NoMoneyStep ==
    ASSUME ChannelInv, ChannelTypeOK', channel'.balance = channel.balance,
           channel'.active_htlcs = channel.active_htlcs,
           paid' = paid, dropped' = dropped
    PROVE  ChannelInv'
<1>1. \A p \in Parties : LockedSats(channel', p) = LockedSats(channel, p)
  BY DEF LockedSats, Pending
<1>2. \A p \in Parties : Locked(channel', p) = Locked(channel, p)
  BY <1>1 DEF Locked
<1>3. FiniteLocks'
  BY <1>1 DEF ChannelInv, FiniteLocks
<1>4. BalancesExplained'
  BY <1>2 DEF ChannelInv, BalancesExplained, Parties
<1>5. QED
  BY <1>3, <1>4 DEF ChannelInv

LEMMA RevokeStep ==
    ASSUME ChannelInv, NEW n \in 0..MaxSeq, Revoke(n)
    PROVE  ChannelInv'
<1>1. channel \in ChannelType /\ n \in Nat
  BY AmountsAssumption DEF ChannelInv, ChannelTypeOK
<1>2. channel' = [channel EXCEPT !.revoked = channel.revoked \cup {n}]
  BY DEF Revoke, RevokePriorState
<1>3. /\ channel' \in ChannelType
      /\ channel'.balance = channel.balance
      /\ channel'.active_htlcs = channel.active_htlcs
  BY <1>1, <1>2 DEF ChannelType
<1>4. ChannelTypeOK'
  BY <1>3 DEF Revoke, ChannelInv, ChannelTypeOK
<1>5. QED
  BY <1>3, <1>4, NoMoneyStep DEF Revoke

LEMMA CloseStep ==
    ASSUME ChannelInv, Close
    PROVE  ChannelInv'
<1>1. channel \in ChannelType
  BY DEF ChannelInv, ChannelTypeOK
<1>2. channel' = [channel EXCEPT !.state = "SETTLED"]
  BY DEF Close, CloseCooperatively
<1>3. /\ channel' \in ChannelType
      /\ channel'.balance = channel.balance
      /\ channel'.active_htlcs = channel.active_htlcs
  BY <1>1, <1>2 DEF ChannelType
<1>4. breakdowns' \subseteq [pending : BOOLEAN, split : [Parties -> Nat]]
  <2> DEFINE pending == Pending(channel) # {}
  <2>1. pending \in BOOLEAN
    OBVIOUS
  <2>2. breakdowns' = breakdowns \cup
           {[pending |-> pending, split |-> channel.balance]}
    BY DEF Close
  <2> HIDE DEF pending
  <2>3. QED
    BY <1>1, <2>1, <2>2 DEF ChannelInv, ChannelTypeOK, ChannelType
<1>5. ChannelTypeOK'
  BY <1>3, <1>4 DEF Close, ChannelInv, ChannelTypeOK
<1>6. QED
  BY <1>3, <1>5, NoMoneyStep DEF Close

LEMMA NextIInv == ChannelInv /\ [ChannelNext]_channelVars => ChannelInv'
<1> SUFFICES ASSUME ChannelInv, [ChannelNext]_channelVars PROVE ChannelInv'
  OBVIOUS
<1>1. ASSUME NEW id \in HtlcIds, OfferSome(id) PROVE ChannelInv'
  BY <1>1, ChannelOfferStep DEF OfferSome
<1>2. ASSUME NEW id \in HtlcIds, NEW preimage \in Preimages, Redeem(id, preimage)
      PROVE ChannelInv'
  BY <1>2, RedeemStep
<1>3. ASSUME NEW id \in HtlcIds, Refund(id) PROVE ChannelInv'
  BY <1>3, ChannelRefundStep
<1>4. ASSUME NEW n \in 0..MaxSeq, Revoke(n) PROVE ChannelInv'
  BY <1>4, RevokeStep
<1>5. CASE Close
  BY <1>5, CloseStep
<1>6. CASE NextBlock
  <2>1. ChannelTypeOK'
    BY <1>6 DEF NextBlock, ChannelInv, ChannelTypeOK
  <2>2. QED
    BY <1>6, <2>1, NoMoneyStep DEF NextBlock
<1>7. CASE UNCHANGED channelVars
  <2>1. ChannelTypeOK'
    BY <1>7 DEF channelVars, ChannelInv, ChannelTypeOK
  <2>2. QED
    BY <1>7, <2>1, NoMoneyStep DEF channelVars
<1>8. QED
  BY <1>1, <1>2, <1>3, <1>4, <1>5, <1>6, <1>7 DEF ChannelNext, Other

LEMMA SpecIInv == ChannelSpec => []ChannelInv
<1>1. QED
  BY InitIInv, NextIInv, PTL DEF ChannelSpec

(***************************************************************************)
(* Every value keeps its type; in particular no balance ever goes below    *)
(* zero, whatever the callers of add_htlc ask for.                         *)
(***************************************************************************)
THEOREM ChannelTypeCorrect == ChannelSpec => []ChannelTypeOK
<1>1. ChannelInv => ChannelTypeOK
  BY DEF ChannelInv
<1>2. QED
  BY <1>1, SpecIInv, PTL

(***************************************************************************)
(* No sequence of offers, redemptions, refunds, revocations and closes     *)
(* makes a balance differ from what the history of the channel explains.   *)
(***************************************************************************)
THEOREM ChannelBalancesExplained == ChannelSpec => []BalancesExplained
<1>1. ChannelInv => BalancesExplained
  BY DEF ChannelInv
<1>2. QED
  BY <1>1, SpecIInv, PTL
-----------------------------------------------------------------------------
(***************************************************************************)
(* Callers that never offer under a pending id lose nothing, so the        *)
(* balances and the locked amounts always add up to the capacity.          *)
(***************************************************************************)
NothingDropped == dropped = [p \in Parties |-> 0]

THEOREM ChannelCapacity == FreshSpec => []CapacityInvariant
<1>1. ChannelInit => NothingDropped
  BY DEF ChannelInit, NothingDropped
<1>2. NothingDropped /\ [FreshNext]_channelVars => NothingDropped'
  <2> SUFFICES ASSUME NothingDropped, [FreshNext]_channelVars PROVE NothingDropped'
    OBVIOUS
  <2>1. ASSUME NEW id \in HtlcIds \ Pending(channel), OfferSome(id)
        PROVE dropped' = dropped
    BY <2>1 DEF OfferSome, Offer
  <2>2. ASSUME Other PROVE dropped' = dropped
    BY <2>2 DEF Other, Redeem, Refund, Revoke, Close, NextBlock
  <2>3. dropped' = dropped
    BY <2>1, <2>2 DEF FreshNext, channelVars
  <2>4. QED
    BY <2>3 DEF NothingDropped
<1>3. [FreshNext]_channelVars => [ChannelNext]_channelVars
  BY DEF FreshNext, ChannelNext
<1>4. ChannelInv /\ NothingDropped => CapacityInvariant
  <2> SUFFICES ASSUME ChannelInv, NothingDropped PROVE CapacityInvariant
    OBVIOUS
  <2>1. /\ \A p \in Parties : /\ channel.balance[p] \in Nat
                             /\ Locked(channel, p) \in Nat
                             /\ paid[p] \in Nat
                             /\ dropped[p] = 0
    BY FS_CardinalityType
       DEF ChannelInv, ChannelTypeOK, FiniteLocks, Locked, ChannelType, NothingDropped
  <2>2. QED
    BY <2>1, AmountsAssumption
       DEF ChannelInv, BalancesExplained, CapacityInvariant, Parties
<1>5. FreshSpec => []ChannelInv
  BY InitIInv, NextIInv, <1>3, PTL DEF FreshSpec
<1>6. QED
  BY <1>1, <1>2, <1>4, <1>5, PTL DEF FreshSpec
-----------------------------------------------------------------------------
(***************************************************************************)
(* SETTLED is terminal: a step from it offers nothing and takes from nobody.*)
(***************************************************************************)
LEMMA SettledStep ==
    ASSUME ChannelInv, [ChannelNext]_channelVars, channel.state = "SETTLED"
    PROVE  /\ channel'.state = "SETTLED"
           /\ Pending(channel') \subseteq Pending(channel)
           /\ \A p \in Parties : channel'.balance[p] >= channel.balance[p]
           /\ Pending(channel) = {} => channel'.balance = channel.balance
<1>1. channel \in ChannelType
  BY DEF ChannelInv, ChannelTypeOK
<1>2. ASSUME NEW id \in Pending(channel), NEW p \in Parties,
             channel' = Resolve(channel, id, p)
      PROVE  /\ channel'.state = "SETTLED"
             /\ Pending(channel') \subseteq Pending(channel)
             /\ \A q \in Parties : channel'.balance[q] >= channel.balance[q]
  <2>1. /\ channel'.state = channel.state
        /\ channel'.balance =
              [channel.balance EXCEPT ![p] = @ + channel.active_htlcs[id].amount_sat]
        /\ channel'.active_htlcs =
              [h \in Pending(channel) \ {id} |-> channel.active_htlcs[h]]
    BY <1>1, <1>2, ResolveFields
  <2>2. channel.active_htlcs[id].amount_sat \in Nat
    BY <1>1, PendingHtlc
  <2>3. channel.balance \in [Parties -> Nat]
    BY <1>1 DEF ChannelType
  <2>4. \A q \in Parties : channel'.balance[q] >= channel.balance[q]
    BY <2>1, <2>2, <2>3
  <2>5. Pending(channel') = Pending(channel) \ {id}
    BY <2>1 DEF Pending
  <2>6. QED
    BY <2>1, <2>4, <2>5
<1>3. ASSUME NEW id \in HtlcIds, OfferSome(id) PROVE FALSE
  BY <1>3 DEF OfferSome, Offer, CanAddHtlc, IsOpen
<1>4. ASSUME NEW id \in HtlcIds, NEW preimage \in Preimages, Redeem(id, preimage)
      PROVE  \E p \in Parties : /\ id \in Pending(channel)
                                /\ channel' = Resolve(channel, id, p)
  BY <1>1, <1>4, PendingHtlc DEF Redeem, CanRedeem, RedeemHtlc
<1>5. ASSUME NEW id \in HtlcIds, Refund(id)
      PROVE  \E p \in Parties : /\ id \in Pending(channel)
                                /\ channel' = Resolve(channel, id, p)
  BY <1>1, <1>5, PendingHtlc DEF Refund, CanRefund, RefundHtlc
<1>6. ASSUME \/ \E n \in 0..MaxSeq : Revoke(n)
             \/ Close \/ NextBlock \/ UNCHANGED channelVars
      PROVE  /\ channel'.state = "SETTLED"
             /\ channel'.active_htlcs = channel.active_htlcs
             /\ channel'.balance = channel.balance
  BY <1>1, <1>6 DEF Revoke, RevokePriorState, Close, CloseCooperatively,
                    NextBlock, channelVars, ChannelType
<1>7. channel.balance \in [Parties -> Nat]
  BY <1>1 DEF ChannelType
<1>8. ASSUME channel'.balance = channel.balance
      PROVE  \A p \in Parties : channel'.balance[p] >= channel.balance[p]
  BY <1>7, <1>8
<1>9. CASE \E id \in Pending(channel), p \in Parties :
              channel' = Resolve(channel, id, p)
  BY <1>2, <1>9
<1>10. CASE \/ \E n \in 0..MaxSeq : Revoke(n)
            \/ Close \/ NextBlock \/ UNCHANGED channelVars
  BY <1>6, <1>8, <1>10 DEF Pending
<1>11. \/ \E id \in Pending(channel), p \in Parties :
            channel' = Resolve(channel, id, p)
       \/ \E n \in 0..MaxSeq : Revoke(n)
       \/ Close \/ NextBlock \/ UNCHANGED channelVars
  BY <1>3, <1>4, <1>5 DEF ChannelNext, Other
<1>12. QED
  BY <1>9, <1>10, <1>11

(***************************************************************************)
(* After close_cooperatively a channel only pays out what was pending.     *)
(***************************************************************************)
THEOREM ChannelSettledOnlyPaysOut == ChannelSpec => SettledOnlyPaysOut
<1>1. ChannelInv /\ [ChannelNext]_channelVars =>
         [channel.state = "SETTLED" =>
            /\ channel'.state = "SETTLED"
            /\ Pending(channel') \subseteq Pending(channel)
            /\ \A p \in Parties : channel'.balance[p] >= channel.balance[p]]_channelVars
  BY SettledStep
<1>2. QED
  BY <1>1, SpecIInv, PTL DEF ChannelSpec, SettledOnlyPaysOut

(***************************************************************************)
(* A breakdown returned with no HTLC pending is final for ever.            *)
(***************************************************************************)
THEOREM ChannelQuiescentCloseFinal == ChannelSpec => []QuiescentCloseFinal
<1>1. ChannelInit => QuiescentCloseFinal
  BY DEF ChannelInit, QuiescentCloseFinal
<1>2. ChannelInv /\ QuiescentCloseFinal /\ [ChannelNext]_channelVars => QuiescentCloseFinal'
  <2> SUFFICES ASSUME ChannelInv, QuiescentCloseFinal, [ChannelNext]_channelVars,
                      NEW b \in breakdowns', ~b.pending
               PROVE  /\ channel'.state = "SETTLED"
                      /\ Pending(channel') = {}
                      /\ channel'.balance = b.split
    BY DEF QuiescentCloseFinal
  <2>1. CASE b \in breakdowns
    BY <2>1, SettledStep DEF QuiescentCloseFinal
  <2>2. CASE b \notin breakdowns
    <3>1. Close
      BY <2>2 DEF ChannelNext, Other, OfferSome, Offer, Redeem, Refund, Revoke,
                  NextBlock, channelVars
    <3>2. b = [pending |-> Pending(channel) # {}, split |-> channel.balance]
      BY <2>2, <3>1 DEF Close
    <3>3. channel \in ChannelType /\ channel' = [channel EXCEPT !.state = "SETTLED"]
      BY <3>1 DEF Close, CloseCooperatively, ChannelInv, ChannelTypeOK
    <3>4. QED
      BY <3>2, <3>3 DEF Pending, ChannelType
  <2>3. QED
    BY <2>1, <2>2
<1>3. QED
  BY <1>1, <1>2, SpecIInv, PTL DEF ChannelSpec
-----------------------------------------------------------------------------
(***************************************************************************)
(* 3. The network, for every set of nodes, links and payments, routes of   *)
(* any length, any amounts and any staggered locktimes.                    *)
(*                                                                         *)
(* The invariant speaks of pairs of hops i < j of one payment, so that no  *)
(* induction along the route is needed. Its heart is the timing: an offered*)
(* hop is at most Grace past its locktime, and a relay whose own offer was *)
(* redeemed is at most Grace late upstream, so when hop i expires nothing  *)
(* downstream of it can still be offered or newly redeemed.                *)
(***************************************************************************)

Status == {"none", "offered", "redeemed", "refunded"}

(* The HTLC of hop i of payment p, in the channel objects C.               *)
HeldIn(C, p, i) ==
    /\ HopLink(p, i) \in DOMAIN C
    /\ <<p, i>> \in Pending(C[HopLink(p, i)])

HeldLocktime(C, p, i) == C[HopLink(p, i)].active_htlcs[<<p, i>>].locktime

ObjectsIn(C) == \A l \in DOMAIN C : "active_htlcs" \in DOMAIN C[l]

Basics ==
    /\ ObjectsIn(channels)
    /\ known_preimages \in [Nodes -> SUBSET Payments]
    /\ height \in Nat
    /\ started \in [Payments -> Nat]
    /\ hop \in [HopIds -> Status]
    /\ redeemedAt \in [HopIds -> Nat]

(* Only a payee knows the preimage of its invoice beforehand.              *)
PayeeOnly == \A n \in Nodes : \A p \in known_preimages[n] : n = Payee(p)

(* A pending HTLC is an offered one, with the locktime it was to have.     *)
HeldIsOffered ==
    \A p \in Payments : \A i \in Hops(p) :
        HeldIn(channels, p, i) =>
            /\ hop[<<p, i>>] = "offered"
            /\ HeldLocktime(channels, p, i) = Locktime(p, i)

(* What hop j may be, given hop i upstream of it.                          *)
Downstream(up, down) ==
    /\ up = "none" => down = "none"
    /\ up = "redeemed" => down = "redeemed"
    /\ up = "refunded" => down \notin {"offered", "redeemed"}

Chain ==
    \A p \in Payments : \A i, j \in Hops(p) :
        i < j => Downstream(hop[<<p, i>>], hop[<<p, j>>])

(* No relay is late: neither with its refund nor with its redemption.      *)
InTime ==
    \A p \in Payments : \A i \in Hops(p) \ {1} :
        /\ hop[<<p, i>>] = "offered" => height <= Locktime(p, i) + Grace
        /\ hop[<<p, i>>] = "redeemed" =>
              /\ redeemedAt[<<p, i>>] <= Locktime(p, i) + Grace
              /\ hop[<<p, i - 1>>] = "offered" =>
                    height <= redeemedAt[<<p, i>>] + Grace

IInv == Basics /\ PayeeOnly /\ HeldIsOffered /\ Chain /\ InTime
-----------------------------------------------------------------------------
(* A hop is a pair of a payment and its position on the route.             *)
LEMMA HopIdsDef ==
    /\ \A p \in Payments : \A i \in Hops(p) : <<p, i>> \in HopIds
    /\ \A h \in HopIds : \E p \in Payments : \E i \in Hops(p) : h = <<p, i>>
BY DEF HopIds

LEMMA HopsRange ==
    ASSUME NEW p \in Payments
    PROVE  /\ Len(Route[p]) \in Nat
           /\ 1 \in Hops(p)
           /\ Len(Route[p]) - 1 \in Hops(p)
           /\ \A i \in Hops(p) :
                 /\ i \in Nat /\ 1 <= i /\ i <= Len(Route[p]) - 1
                 /\ Route[p][i + 1] \in Nodes
                 /\ i # 1 => i - 1 \in Hops(p) /\ i - 1 < i
<1>1. Route[p] \in Seq(Nodes) /\ Len(Route[p]) >= 2
  BY NetworkAssumption
<1>2. Len(Route[p]) \in Nat /\ DOMAIN Route[p] = 1..Len(Route[p])
  BY <1>1
<1>3. \A i \in Hops(p) : i + 1 \in 1..Len(Route[p])
  BY <1>1, <1>2 DEF Hops
<1>4. \A i \in Hops(p) : Route[p][i + 1] \in Nodes
  BY <1>1, <1>2, <1>3
<1>5. QED
  BY <1>1, <1>2, <1>4 DEF Hops

(* Two positions of a route name different nodes.                          *)
LEMMA SimpleRoute ==
    ASSUME NEW p \in Payments, NEW i \in Hops(p)
    PROVE  /\ Route[p][i + 1] = Payee(p) => i = Len(Route[p]) - 1
           /\ \A k \in Hops(p) : Route[p][k] = Route[p][i + 1] => k = i + 1
<1>1. Route[p] \in Seq(Nodes) /\ IsInjective(Route[p])
  BY NetworkAssumption
<1>2. DOMAIN Route[p] = 1..Len(Route[p])
  BY <1>1
<1>3. \A a, b \in 1..Len(Route[p]) : Route[p][a] = Route[p][b] => a = b
  BY <1>1, <1>2 DEF IsInjective
<1>4. /\ i + 1 \in 1..Len(Route[p]) /\ Len(Route[p]) \in 1..Len(Route[p])
      /\ \A k \in Hops(p) : k \in 1..Len(Route[p])
  BY HopsRange DEF Hops
<1>5. Route[p][i + 1] = Payee(p) => i + 1 = Len(Route[p])
  BY <1>3, <1>4 DEF Payee
<1>6. i \in Nat /\ Len(Route[p]) \in Nat
  BY HopsRange
<1>7. \A k \in Hops(p) : Route[p][k] = Route[p][i + 1] => k = i + 1
  BY <1>3, <1>4
<1>8. QED
  BY <1>5, <1>6, <1>7

(***************************************************************************)
(* What the channel operators do to the pending HTLCs: offering adds one   *)
(* with its locktime, redeeming or refunding deletes one, and every other  *)
(* HTLC of every channel is left as it is.                                 *)
(***************************************************************************)
OthersKept(C, D, p, i) ==
    \A q \in Payments : \A j \in Hops(q) :
        <<q, j>> # <<p, i>> /\ HeldIn(D, q, j) =>
            HeldIn(C, q, j) /\ HeldLocktime(D, q, j) = HeldLocktime(C, q, j)

OneLinkChanged(C, D, l) ==
    /\ l \in DOMAIN C
    /\ DOMAIN D = DOMAIN C
    /\ \A k \in DOMAIN C : k # l => D[k] = C[k]

LEMMA OfferHeld ==
    ASSUME NEW C, NEW D, ObjectsIn(C), NEW p \in Payments, NEW i \in Hops(p),
           NEW htlc,
           OneLinkChanged(C, D, HopLink(p, i)),
           D[HopLink(p, i)] = AddHtlc(C[HopLink(p, i)], <<p, i>>, htlc)
    PROVE  /\ ObjectsIn(D)
           /\ OthersKept(C, D, p, i)
           /\ HeldLocktime(D, p, i) = htlc.locktime
<1> DEFINE l == HopLink(p, i)
           id == <<p, i>>
           ch == C[l]
           act == [h \in Pending(ch) \cup {id} |->
                      IF h = id THEN htlc ELSE ch.active_htlcs[h]]
<1>1. "active_htlcs" \in DOMAIN ch
  BY DEF ObjectsIn, OneLinkChanged
<1>2. /\ AddHtlc(ch, id, htlc).active_htlcs = act
      /\ "active_htlcs" \in DOMAIN AddHtlc(ch, id, htlc)
  BY <1>1 DEF AddHtlc, Pending
<1>3. /\ DOMAIN D = DOMAIN C
      /\ \A k \in DOMAIN C : k # l => D[k] = C[k]
      /\ D[l].active_htlcs = act
      /\ "active_htlcs" \in DOMAIN D[l]
  BY <1>2 DEF OneLinkChanged
<1>4. ObjectsIn(D)
  BY <1>3 DEF ObjectsIn
<1>5. /\ DOMAIN act = Pending(ch) \cup {id}
      /\ act[id] = htlc
      /\ \A h \in Pending(ch) : h # id => act[h] = ch.active_htlcs[h]
  OBVIOUS
<1>6. HeldLocktime(D, p, i) = htlc.locktime
  BY <1>3, <1>5 DEF HeldLocktime
<1> HIDE DEF act
<1>7. ASSUME NEW q \in Payments, NEW j \in Hops(q), <<q, j>> # id,
             HeldIn(D, q, j)
      PROVE  HeldIn(C, q, j) /\ HeldLocktime(D, q, j) = HeldLocktime(C, q, j)
  <2>1. CASE HopLink(q, j) = l
    BY <1>3, <1>5, <1>7, <2>1 DEF HeldIn, HeldLocktime, Pending
  <2>2. CASE HopLink(q, j) # l
    BY <1>3, <1>7, <2>2 DEF HeldIn, HeldLocktime
  <2>3. QED
    BY <2>1, <2>2
<1>8. QED
  BY <1>4, <1>6, <1>7 DEF OthersKept

LEMMA ResolveHeld ==
    ASSUME NEW C, NEW D, ObjectsIn(C), NEW p \in Payments, NEW i \in Hops(p),
           NEW n,
           OneLinkChanged(C, D, HopLink(p, i)),
           D[HopLink(p, i)] = Resolve(C[HopLink(p, i)], <<p, i>>, n)
    PROVE  /\ ObjectsIn(D)
           /\ OthersKept(C, D, p, i)
           /\ ~HeldIn(D, p, i)
<1> DEFINE l == HopLink(p, i)
           id == <<p, i>>
           ch == C[l]
           act == [h \in Pending(ch) \ {id} |-> ch.active_htlcs[h]]
<1>1. "active_htlcs" \in DOMAIN ch
  BY DEF ObjectsIn, OneLinkChanged
<1>2. /\ Resolve(ch, id, n).active_htlcs = act
      /\ "active_htlcs" \in DOMAIN Resolve(ch, id, n)
  BY <1>1 DEF Resolve, Pending, Restrict
<1>3. /\ DOMAIN D = DOMAIN C
      /\ \A k \in DOMAIN C : k # l => D[k] = C[k]
      /\ D[l].active_htlcs = act
      /\ "active_htlcs" \in DOMAIN D[l]
  BY <1>2 DEF OneLinkChanged
<1>4. ObjectsIn(D)
  BY <1>3 DEF ObjectsIn
<1>5. /\ DOMAIN act = Pending(ch) \ {id}
      /\ \A h \in Pending(ch) : h # id => act[h] = ch.active_htlcs[h]
  OBVIOUS
<1> HIDE DEF act
<1>6. ~HeldIn(D, p, i)
  BY <1>3, <1>5 DEF HeldIn, Pending
<1>7. ASSUME NEW q \in Payments, NEW j \in Hops(q), <<q, j>> # id,
             HeldIn(D, q, j)
      PROVE  HeldIn(C, q, j) /\ HeldLocktime(D, q, j) = HeldLocktime(C, q, j)
  <2>1. CASE HopLink(q, j) = l
    BY <1>3, <1>5, <1>7, <2>1 DEF HeldIn, HeldLocktime, Pending
  <2>2. CASE HopLink(q, j) # l
    BY <1>3, <1>7, <2>2 DEF HeldIn, HeldLocktime
  <2>3. QED
    BY <2>1, <2>2
<1>8. QED
  BY <1>4, <1>6, <1>7 DEF OthersKept
-----------------------------------------------------------------------------
(***************************************************************************)
(* The steps. Each lemma takes the invariant before one action and proves  *)
(* it after the action.                                                    *)
(***************************************************************************)
LEMMA DeltaNat ==
    ASSUME NEW p \in Payments, NEW i \in Hops(p)
    PROVE  /\ Delta[i] \in Nat
           /\ Grace \in Nat
           /\ \A j \in Hops(p) : i < j => /\ Delta[j] \in Nat
                                          /\ Delta[j] + 2 * Grace < Delta[i]
BY StaggerAssumption

LEMMA InitHolds == Init => IInv
<1> SUFFICES ASSUME Init PROVE IInv
  OBVIOUS
<1>1. Basics
  BY DEF Init, Basics, ObjectsIn, Status
<1>2. PayeeOnly
  BY DEF Init, PayeeOnly
<1>3. HeldIsOffered
  BY DEF Init, HeldIsOffered, HeldIn
<1>4. \A p \in Payments : \A i \in Hops(p) : hop[<<p, i>>] = "none"
  BY HopIdsDef DEF Init
<1>5. Chain /\ InTime
  BY <1>4 DEF Chain, InTime, Downstream
<1>6. QED
  BY <1>1, <1>2, <1>3, <1>5 DEF IInv

(* A hop that becomes offered: Chain and InTime look at nothing else.      *)
LEMMA OfferStep ==
    ASSUME IInv, NEW p \in Payments, NEW i \in Hops(p), NEW t,
           RouteHtlcPayment(p, i, t), hop[<<p, i>>] = "none",
           started' \in [Payments -> Nat],
           \A q \in Payments : q # p => started'[q] = started[q],
           i # 1 => started'[p] = started[p] /\ hop[<<p, i - 1>>] = "offered"
                    /\ height < Locktime(p, i),
           t = Locktime(p, i)',
           UNCHANGED <<known_preimages, height, redeemedAt>>
    PROVE  IInv'
<1> DEFINE id == <<p, i>>
           l == HopLink(p, i)
           htlc == HTLCContract(Hash(p), Amount[p], t, Route[p][i])
<1>1. /\ hop' = [hop EXCEPT ![id] = "offered"]
      /\ HopLink(p, i) \in DOMAIN channels
      /\ channels' = [channels EXCEPT ![HopLink(p, i)] =
                         AddHtlc(channels[HopLink(p, i)], <<p, i>>, htlc)]
  BY DEF RouteHtlcPayment, HasChannelWith, HopLink
<1>2. /\ ObjectsIn(channels')
      /\ OthersKept(channels, channels', p, i)
      /\ HeldLocktime(channels', p, i) = htlc.locktime
  <2>1. ObjectsIn(channels)
    BY DEF IInv, Basics
  <2> HIDE DEF htlc
  <2>2. /\ OneLinkChanged(channels, channels', HopLink(p, i))
        /\ channels'[HopLink(p, i)] =
              AddHtlc(channels[HopLink(p, i)], <<p, i>>, htlc)
    BY <1>1 DEF OneLinkChanged
  <2>3. QED
    BY <1>1, <2>1, <2>2, OfferHeld
<1>3. htlc.locktime = t
  BY DEF HTLCContract
<1>4. id \in HopIds /\ hop \in [HopIds -> Status]
  BY HopIdsDef DEF IInv, Basics
<1>5. /\ hop'[id] = "offered"
      /\ \A q \in Payments : \A j \in Hops(q) :
            <<q, j>> # id => hop'[<<q, j>>] = hop[<<q, j>>]
  BY <1>1, <1>4, HopIdsDef
<1>6. Basics'
  BY <1>1, <1>2, <1>4 DEF IInv, Basics, Status
<1>7. PayeeOnly'
  BY DEF IInv, PayeeOnly
<1>8. \A j \in Hops(p) : i < j => hop[<<p, j>>] = "none"
  BY DEF IInv, Chain, Downstream
<1>9. \A j \in Hops(p) : j < i => hop[<<p, j>>] \notin {"none", "refunded"}
  <2>1. CASE i = 1
    BY <2>1, HopsRange
  <2>2. CASE i # 1
    <3>1. /\ i - 1 \in Hops(p) /\ i \in Nat
          /\ \A j \in Hops(p) : j \in Nat
      BY <2>2, HopsRange
    <3>2. \A j \in Hops(p) : j < i => j = i - 1 \/ j < i - 1
      BY <3>1
    <3>3. hop[<<p, i - 1>>] = "offered"
      BY <2>2
    <3>4. QED
      BY <3>1, <3>2, <3>3 DEF IInv, Chain, Downstream
  <2>3. QED
    BY <2>1, <2>2
<1>10. \A j \in Hops(p) : j < i => hop[<<p, j>>] # "redeemed"
  BY DEF IInv, Chain, Downstream
<1>11. \A q \in Payments : \A j \in Hops(q) :
          <<q, j>> # id /\ hop[<<q, j>>] # "none" => started'[q] = started[q]
  <2>1. CASE i # 1
    BY <2>1
  <2>2. CASE i = 1
    BY <1>8, <2>2, HopsRange
  <2>3. QED
    BY <2>1, <2>2
<1>12. HeldIsOffered'
  <2> SUFFICES ASSUME NEW q \in Payments, NEW j \in Hops(q),
                      HeldIn(channels', q, j)
               PROVE  /\ hop'[<<q, j>>] = "offered"
                      /\ HeldLocktime(channels', q, j) = Locktime(q, j)'
    BY DEF HeldIsOffered
  <2>1. CASE <<q, j>> = id
    BY <1>2, <1>3, <1>5, <2>1
  <2>2. CASE <<q, j>> # id
    <3>1. /\ HeldIn(channels, q, j)
          /\ HeldLocktime(channels', q, j) = HeldLocktime(channels, q, j)
      BY <1>2, <2>2 DEF OthersKept
    <3>2. /\ hop[<<q, j>>] = "offered"
          /\ HeldLocktime(channels, q, j) = Locktime(q, j)
      BY <3>1 DEF IInv, HeldIsOffered
    <3>3. Locktime(q, j)' = Locktime(q, j)
      BY <1>11, <2>2, <3>2 DEF Locktime
    <3>4. QED
      BY <1>5, <2>2, <3>1, <3>2, <3>3
  <2>3. QED
    BY <2>1, <2>2
<1>13. Chain'
  <2> SUFFICES ASSUME NEW q \in Payments, NEW a \in Hops(q), NEW b \in Hops(q),
                      a < b
               PROVE  Downstream(hop'[<<q, a>>], hop'[<<q, b>>])
    BY DEF Chain
  <2>1. a # b
    <3>1. a \in Nat /\ b \in Nat
      BY HopsRange
    <3>2. QED
      BY <3>1
  <2>2. Downstream(hop[<<q, a>>], hop[<<q, b>>])
    BY DEF IInv, Chain
  <2>3. CASE <<q, a>> = id
    BY <1>5, <1>8, <2>1, <2>3 DEF Downstream
  <2>4. CASE <<q, b>> = id
    BY <1>5, <1>9, <1>10, <2>1, <2>4 DEF Downstream
  <2>5. CASE <<q, a>> # id /\ <<q, b>> # id
    BY <1>5, <2>2, <2>5
  <2>6. QED
    BY <2>3, <2>4, <2>5
<1>14. InTime'
  <2> SUFFICES ASSUME NEW q \in Payments, NEW j \in Hops(q) \ {1}
               PROVE  /\ hop'[<<q, j>>] = "offered" =>
                            height <= Locktime(q, j)' + Grace
                      /\ hop'[<<q, j>>] = "redeemed" =>
                            /\ redeemedAt[<<q, j>>] <= Locktime(q, j)' + Grace
                            /\ hop'[<<q, j - 1>>] = "offered" =>
                                  height <= redeemedAt[<<q, j>>] + Grace
    BY DEF InTime
  <2>1. /\ j - 1 \in Hops(q) /\ j - 1 < j /\ j \in Nat
        /\ Delta[j] \in Nat /\ Grace \in Nat /\ height \in Nat
        /\ started[q] \in Nat
    BY HopsRange, DeltaNat DEF IInv, Basics
  <2>2. CASE <<q, j>> = id
    <3>1. height < Locktime(q, j) /\ Locktime(q, j)' = Locktime(q, j)
      BY <2>2 DEF Locktime
    <3>2. hop'[<<q, j>>] = "offered"
      BY <1>5, <2>2
    <3>3. QED
      BY <2>1, <3>1, <3>2 DEF Locktime
  <2>3. CASE <<q, j>> # id
    <3>1. hop'[<<q, j>>] = hop[<<q, j>>]
      BY <1>5, <2>3
    <3>2. hop[<<q, j>>] # "none" => Locktime(q, j)' = Locktime(q, j)
      BY <1>11, <2>3 DEF Locktime
    <3>3. CASE <<q, j - 1>> = id
      BY <1>8, <2>1, <3>1, <3>3
    <3>4. CASE <<q, j - 1>> # id
      <4>1. hop'[<<q, j - 1>>] = hop[<<q, j - 1>>]
        BY <1>5, <2>1, <3>4
      <4>2. QED
        BY <3>1, <3>2, <4>1 DEF IInv, InTime
    <3>5. QED
      BY <3>3, <3>4
  <2>4. QED
    BY <2>2, <2>3
<1>15. QED
  BY <1>6, <1>7, <1>12, <1>13, <1>14 DEF IInv

(* Redeeming or refunding a hop leaves its channels and the others in order.*)
LEMMA ResolveStep ==
    ASSUME IInv, NEW p \in Payments, NEW i \in Hops(p), NEW n,
           NEW s \in {"redeemed", "refunded"},
           HopLink(p, i) \in DOMAIN channels,
           channels' = [channels EXCEPT ![HopLink(p, i)] =
                           Resolve(channels[HopLink(p, i)], <<p, i>>, n)],
           hop' = [hop EXCEPT ![<<p, i>>] = s],
           redeemedAt' \in [HopIds -> Nat],
           UNCHANGED <<known_preimages, height, started>>
    PROVE  /\ Basics' /\ PayeeOnly' /\ HeldIsOffered'
           /\ hop'[<<p, i>>] = s
           /\ \A q \in Payments : \A j \in Hops(q) :
                 <<q, j>> # <<p, i>> => hop'[<<q, j>>] = hop[<<q, j>>]
<1> DEFINE id == <<p, i>>
<1>1. ObjectsIn(channels) /\ hop \in [HopIds -> Status] /\ id \in HopIds
  BY HopIdsDef DEF IInv, Basics
<1>2. /\ OneLinkChanged(channels, channels', HopLink(p, i))
      /\ channels'[HopLink(p, i)] =
            Resolve(channels[HopLink(p, i)], <<p, i>>, n)
  BY DEF OneLinkChanged
<1>3. /\ ObjectsIn(channels')
      /\ OthersKept(channels, channels', p, i)
      /\ ~HeldIn(channels', p, i)
  BY <1>1, <1>2, ResolveHeld
<1>4. /\ hop'[id] = s
      /\ \A q \in Payments : \A j \in Hops(q) :
            <<q, j>> # id => hop'[<<q, j>>] = hop[<<q, j>>]
  BY <1>1, HopIdsDef
<1>5. Basics'
  BY <1>1, <1>3 DEF IInv, Basics, Status
<1>6. PayeeOnly'
  BY DEF IInv, PayeeOnly
<1>7. HeldIsOffered'
  <2> SUFFICES ASSUME NEW q \in Payments, NEW j \in Hops(q),
                      HeldIn(channels', q, j)
               PROVE  /\ hop'[<<q, j>>] = "offered"
                      /\ HeldLocktime(channels', q, j) = Locktime(q, j)
    BY DEF HeldIsOffered, Locktime
  <2>1. <<q, j>> # id
    BY <1>3 DEF HeldIn
  <2>2. /\ HeldIn(channels, q, j)
        /\ HeldLocktime(channels', q, j) = HeldLocktime(channels, q, j)
    BY <1>3, <2>1 DEF OthersKept
  <2>3. QED
    BY <1>4, <2>1, <2>2 DEF IInv, HeldIsOffered
<1>8. QED
  BY <1>4, <1>5, <1>6, <1>7

(* Whoever knows the preimage of hop i sits at the end of the route or has *)
(* been redeemed downstream: every hop after i is redeemed.                *)
LEMMA RedeemedDownstream ==
    ASSUME IInv, NEW p \in Payments, NEW i \in Hops(p),
           KnowsPreimage(p, Route[p][i + 1])
    PROVE  \A j \in Hops(p) : i < j => hop[<<p, j>>] = "redeemed"
<1> SUFFICES ASSUME NEW j \in Hops(p), i < j
             PROVE  hop[<<p, j>>] = "redeemed"
  OBVIOUS
<1>1. /\ i \in Nat /\ j \in Nat /\ j <= Len(Route[p]) - 1
      /\ Len(Route[p]) \in Nat /\ Route[p][i + 1] \in Nodes
  BY HopsRange
<1>2. CASE p \in known_preimages[Route[p][i + 1]]
  <2>1. Route[p][i + 1] = Payee(p)
    BY <1>1, <1>2 DEF IInv, PayeeOnly
  <2>2. i = Len(Route[p]) - 1
    BY <2>1, SimpleRoute
  <2>3. QED
    BY <1>1, <2>2
<1>3. CASE \E k \in Hops(p) : /\ Route[p][k] = Route[p][i + 1]
                              /\ hop[<<p, k>>] = "redeemed"
  <2>1. PICK k \in Hops(p) : /\ Route[p][k] = Route[p][i + 1]
                             /\ hop[<<p, k>>] = "redeemed"
    BY <1>3
  <2>2. k = i + 1
    BY <2>1, SimpleRoute
  <2>3. j = k \/ k < j
    BY <1>1, <2>2
  <2>4. QED
    BY <2>1, <2>3 DEF IInv, Chain, Downstream
<1>4. QED
  BY <1>2, <1>3 DEF KnowsPreimage

LEMMA FulfillStep ==
    ASSUME IInv, NEW p \in Payments, NEW i \in Hops(p), Fulfill(p, i)
    PROVE  /\ IInv'
           /\ hop[<<p, i>>] = "offered"
           /\ hop' = [hop EXCEPT ![<<p, i>>] = "redeemed"]
<1> DEFINE id == <<p, i>>
           ch == channels[HopLink(p, i)]
<1>1. /\ HopLink(p, i) \in DOMAIN channels
      /\ id \in Pending(ch)
      /\ KnowsPreimage(p, Route[p][i + 1])
      /\ hop' = [hop EXCEPT ![id] = "redeemed"]
      /\ redeemedAt' = [redeemedAt EXCEPT ![id] = height]
      /\ UNCHANGED <<known_preimages, height, started>>
  BY DEF Fulfill, CanRedeem, HasChannelWith, HopLink
<1>2. channels' = [channels EXCEPT ![HopLink(p, i)] =
                      Resolve(channels[HopLink(p, i)], <<p, i>>,
                              Counterparty(ch, ch.active_htlcs[id].offerer_alias))]
  BY DEF Fulfill, RedeemHtlc
<1>3. hop[id] = "offered"
  BY <1>1 DEF IInv, HeldIsOffered, HeldIn
<1>4. redeemedAt' \in [HopIds -> Nat] /\ redeemedAt'[id] = height
  BY <1>1, HopIdsDef DEF IInv, Basics
<1>5. /\ Basics' /\ PayeeOnly' /\ HeldIsOffered'
      /\ hop'[id] = "redeemed"
      /\ \A q \in Payments : \A j \in Hops(q) :
            <<q, j>> # id => hop'[<<q, j>>] = hop[<<q, j>>]
  BY <1>1, <1>2, <1>4, ResolveStep
<1>6. \A q \in Payments : \A j \in Hops(q) :
         <<q, j>> # id => redeemedAt'[<<q, j>>] = redeemedAt[<<q, j>>]
  BY <1>1, HopIdsDef DEF IInv, Basics
<1>7. Chain'
  <2> SUFFICES ASSUME NEW q \in Payments, NEW a \in Hops(q), NEW b \in Hops(q),
                      a < b
               PROVE  Downstream(hop'[<<q, a>>], hop'[<<q, b>>])
    BY DEF Chain
  <2>1. a \in Nat /\ b \in Nat
    BY HopsRange
  <2>2. Downstream(hop[<<q, a>>], hop[<<q, b>>])
    BY DEF IInv, Chain
  <2>3. CASE <<q, a>> = id
    <3>1. hop[<<q, b>>] = "redeemed"
      BY <1>1, <2>3, RedeemedDownstream
    <3>2. QED
      BY <1>5, <2>1, <2>3, <3>1 DEF Downstream
  <2>4. CASE <<q, b>> = id
    BY <1>3, <1>5, <2>1, <2>2, <2>4 DEF Downstream
  <2>5. CASE <<q, a>> # id /\ <<q, b>> # id
    BY <1>5, <2>2, <2>5
  <2>6. QED
    BY <2>3, <2>4, <2>5
<1>8. InTime'
  <2> SUFFICES ASSUME NEW q \in Payments, NEW j \in Hops(q) \ {1}
               PROVE  /\ hop'[<<q, j>>] = "offered" =>
                            height <= Locktime(q, j) + Grace
                      /\ hop'[<<q, j>>] = "redeemed" =>
                            /\ redeemedAt'[<<q, j>>] <= Locktime(q, j) + Grace
                            /\ hop'[<<q, j - 1>>] = "offered" =>
                                  height <= redeemedAt'[<<q, j>>] + Grace
    BY <1>1 DEF InTime, Locktime
  <2>1. j - 1 \in Hops(q) /\ j \in Nat /\ Grace \in Nat /\ height \in Nat
    BY HopsRange, DeltaNat DEF IInv, Basics
  <2>2. CASE <<q, j>> = id
    <3>1. height <= Locktime(q, j) + Grace
      BY <1>3, <2>2 DEF IInv, InTime
    <3>2. QED
      BY <1>4, <1>5, <2>1, <2>2, <3>1
  <2>3. CASE <<q, j>> # id
    <3>1. /\ hop'[<<q, j>>] = hop[<<q, j>>]
          /\ redeemedAt'[<<q, j>>] = redeemedAt[<<q, j>>]
      BY <1>5, <1>6, <2>3
    <3>2. hop'[<<q, j - 1>>] = "offered" => hop[<<q, j - 1>>] = "offered"
      BY <1>3, <1>5, <2>1
    <3>3. QED
      BY <3>1, <3>2 DEF IInv, InTime
  <2>4. QED
    BY <2>2, <2>3
<1>9. QED
  BY <1>1, <1>3, <1>5, <1>7, <1>8 DEF IInv

LEMMA RefundStep ==
    ASSUME IInv, NEW p \in Payments, NEW i \in Hops(p), RefundHop(p, i)
    PROVE  /\ IInv'
           /\ hop[<<p, i>>] = "offered"
           /\ hop' = [hop EXCEPT ![<<p, i>>] = "refunded"]
<1> DEFINE id == <<p, i>>
           ch == channels[HopLink(p, i)]
<1>1. /\ HopLink(p, i) \in DOMAIN channels
      /\ id \in Pending(ch)
      /\ height >= ch.active_htlcs[id].locktime
      /\ hop' = [hop EXCEPT ![id] = "refunded"]
      /\ UNCHANGED <<known_preimages, height, started, redeemedAt>>
  BY DEF RefundHop, CanRefund, IsExpiredAt, HasChannelWith, HopLink
<1>2. channels' = [channels EXCEPT ![HopLink(p, i)] =
                      Resolve(channels[HopLink(p, i)], <<p, i>>,
                              ch.active_htlcs[id].offerer_alias)]
  BY DEF RefundHop, RefundHtlc
<1>3. hop[id] = "offered" /\ height >= Locktime(p, i)
  BY <1>1 DEF IInv, HeldIsOffered, HeldIn, HeldLocktime
<1>4. redeemedAt' \in [HopIds -> Nat]
  BY <1>1 DEF IInv, Basics
<1>5. /\ Basics' /\ PayeeOnly' /\ HeldIsOffered'
      /\ hop'[id] = "refunded"
      /\ \A q \in Payments : \A j \in Hops(q) :
            <<q, j>> # id => hop'[<<q, j>>] = hop[<<q, j>>]
  BY <1>1, <1>2, <1>4, ResolveStep
<1>6. ASSUME NEW j \in Hops(p), i < j
      PROVE  hop[<<p, j>>] \notin {"offered", "redeemed"}
  <2> DEFINE k == i + 1
  <2>1. /\ k \in Hops(p) \ {1} /\ k - 1 = i /\ i < k
        /\ j = k \/ k < j
    BY <1>6, HopsRange DEF Hops
  <2>2. /\ Delta[i] \in Nat /\ Delta[k] \in Nat /\ Grace \in Nat
        /\ Delta[k] + 2 * Grace < Delta[i]
        /\ started[p] \in Nat /\ height \in Nat
    BY <2>1, DeltaNat DEF IInv, Basics
  <2>3. hop[<<p, k>>] # "offered"
    <3>1. hop[<<p, k>>] = "offered" => height <= Locktime(p, k) + Grace
      BY <2>1 DEF IInv, InTime
    <3>2. QED
      BY <1>3, <2>2, <3>1 DEF Locktime
  <2>4. hop[<<p, k>>] # "redeemed"
    <3>1. <<p, k>> \in HopIds /\ redeemedAt[<<p, k>>] \in Nat
      BY <2>1, HopIdsDef DEF IInv, Basics
    <3>2. hop[<<p, k>>] = "redeemed" =>
             /\ redeemedAt[<<p, k>>] <= Locktime(p, k) + Grace
             /\ height <= redeemedAt[<<p, k>>] + Grace
      BY <1>3, <2>1 DEF IInv, InTime
    <3>3. QED
      BY <1>3, <2>2, <3>1, <3>2 DEF Locktime
  <2>5. hop[<<p, k>>] \in Status
    BY <2>1, HopIdsDef DEF IInv, Basics
  <2>6. k < j => Downstream(hop[<<p, k>>], hop[<<p, j>>])
    BY <2>1 DEF IInv, Chain
  <2> HIDE DEF k
  <2>7. QED
    BY <2>1, <2>3, <2>4, <2>5, <2>6 DEF Status, Downstream
<1>7. Chain'
  <2> SUFFICES ASSUME NEW q \in Payments, NEW a \in Hops(q), NEW b \in Hops(q),
                      a < b
               PROVE  Downstream(hop'[<<q, a>>], hop'[<<q, b>>])
    BY DEF Chain
  <2>1. a \in Nat /\ b \in Nat
    BY HopsRange
  <2>2. Downstream(hop[<<q, a>>], hop[<<q, b>>])
    BY DEF IInv, Chain
  <2>3. CASE <<q, a>> = id
    <3>1. hop[<<q, b>>] \notin {"offered", "redeemed"}
      BY <1>6, <2>3
    <3>2. QED
      BY <1>5, <2>1, <2>3, <3>1 DEF Downstream
  <2>4. CASE <<q, b>> = id
    BY <1>3, <1>5, <2>1, <2>2, <2>4 DEF Downstream
  <2>5. CASE <<q, a>> # id /\ <<q, b>> # id
    BY <1>5, <2>2, <2>5
  <2>6. QED
    BY <2>3, <2>4, <2>5
<1>8. InTime'
  <2> SUFFICES ASSUME NEW q \in Payments, NEW j \in Hops(q) \ {1}
               PROVE  /\ hop'[<<q, j>>] = "offered" =>
                            height <= Locktime(q, j) + Grace
                      /\ hop'[<<q, j>>] = "redeemed" =>
                            /\ redeemedAt[<<q, j>>] <= Locktime(q, j) + Grace
                            /\ hop'[<<q, j - 1>>] = "offered" =>
                                  height <= redeemedAt[<<q, j>>] + Grace
    BY <1>1 DEF InTime, Locktime
  <2>1. j - 1 \in Hops(q)
    BY HopsRange
  <2>2. /\ hop'[<<q, j>>] \in {"offered", "redeemed"} =>
              hop'[<<q, j>>] = hop[<<q, j>>]
        /\ hop'[<<q, j - 1>>] = "offered" => hop[<<q, j - 1>>] = "offered"
    BY <1>3, <1>5, <2>1
  <2>3. QED
    BY <2>2 DEF IInv, InTime
<1>9. QED
  BY <1>1, <1>3, <1>5, <1>7, <1>8 DEF IInv

LEMMA OpenStep ==
    ASSUME IInv, NEW l \in Links \ DOMAIN channels, Open(l)
    PROVE  IInv'
<1>1. /\ DOMAIN channels' = DOMAIN channels \cup {l}
      /\ channels'[l] = OpenChannel(l[1], l[2], Capacity)
      /\ \A k \in DOMAIN channels : channels'[k] = channels[k]
      /\ UNCHANGED <<known_preimages, height, started, hop, redeemedAt>>
  BY DEF Open
<1>2. /\ "active_htlcs" \in DOMAIN channels'[l]
      /\ Pending(channels'[l]) = {}
  BY <1>1 DEF OpenChannel, Pending
<1>3. Basics'
  BY <1>1, <1>2 DEF IInv, Basics, ObjectsIn
<1>4. HeldIsOffered'
  <2> SUFFICES ASSUME NEW p \in Payments, NEW i \in Hops(p),
                      HeldIn(channels', p, i)
               PROVE  /\ hop[<<p, i>>] = "offered"
                      /\ HeldLocktime(channels', p, i) = Locktime(p, i)
    BY <1>1 DEF HeldIsOffered, Locktime
  <2>1. HopLink(p, i) \in DOMAIN channels
    BY <1>1, <1>2 DEF HeldIn
  <2>2. /\ HeldIn(channels, p, i)
        /\ HeldLocktime(channels', p, i) = HeldLocktime(channels, p, i)
    BY <1>1, <2>1 DEF HeldIn, HeldLocktime
  <2>3. QED
    BY <2>2 DEF IInv, HeldIsOffered
<1>5. PayeeOnly' /\ Chain' /\ InTime'
  BY <1>1 DEF IInv, PayeeOnly, Chain, InTime, Locktime
<1>6. QED
  BY <1>3, <1>4, <1>5 DEF IInv

LEMMA InvoiceStep ==
    ASSUME IInv, NEW p \in Payments, CreateInvoice(p)
    PROVE  IInv'
<1>1. /\ known_preimages' =
            [known_preimages EXCEPT ![Payee(p)] = @ \cup {p}]
      /\ UNCHANGED <<channels, height, started, hop, redeemedAt>>
  BY DEF CreateInvoice
<1>2. known_preimages \in [Nodes -> SUBSET Payments]
  BY DEF IInv, Basics
<1>3. Basics'
  BY <1>1, <1>2 DEF IInv, Basics
<1>4. PayeeOnly'
  BY <1>1, <1>2 DEF IInv, PayeeOnly
<1>5. HeldIsOffered' /\ Chain' /\ InTime'
  BY <1>1 DEF IInv, HeldIsOffered, Chain, InTime, Locktime
<1>6. QED
  BY <1>3, <1>4, <1>5 DEF IInv

LEMMA StartStep ==
    ASSUME IInv, NEW p \in Payments, StartPayment(p)
    PROVE  IInv' /\ hop' = [hop EXCEPT ![<<p, 1>>] = "offered"]
<1>1. /\ RouteHtlcPayment(p, 1, height + Delta[1])
      /\ hop[<<p, 1>>] = "none"
      /\ started' = [started EXCEPT ![p] = height]
      /\ UNCHANGED <<known_preimages, height, redeemedAt>>
  BY DEF StartPayment
<1>2. started \in [Payments -> Nat] /\ height \in Nat
  BY DEF IInv, Basics
<1>3. /\ started' \in [Payments -> Nat]
      /\ \A q \in Payments : q # p => started'[q] = started[q]
      /\ height + Delta[1] = Locktime(p, 1)'
  BY <1>1, <1>2 DEF Locktime
<1>4. 1 \in Hops(p)
  BY HopsRange
<1>5. IInv'
  BY <1>1, <1>3, <1>4, OfferStep
<1>6. QED
  BY <1>1, <1>5 DEF RouteHtlcPayment

LEMMA ForwardStep ==
    ASSUME IInv, NEW p \in Payments, NEW i \in Hops(p) \ {1},
           ForwardPayment(p, i)
    PROVE  /\ IInv'
           /\ hop[<<p, i>>] = "none"
           /\ hop' = [hop EXCEPT ![<<p, i>>] = "offered"]
<1>1. /\ RouteHtlcPayment(p, i, Locktime(p, i))
      /\ hop[<<p, i>>] = "none"
      /\ hop[<<p, i - 1>>] = "offered"
      /\ height < Locktime(p, i)
      /\ UNCHANGED <<known_preimages, height, started, redeemedAt>>
  BY DEF ForwardPayment
<1>2. started' \in [Payments -> Nat] /\ Locktime(p, i) = Locktime(p, i)'
  BY <1>1 DEF IInv, Basics, Locktime
<1>3. IInv'
  BY <1>1, <1>2, OfferStep
<1>4. QED
  BY <1>1, <1>3 DEF RouteHtlcPayment

LEMMA BlockStep ==
    ASSUME IInv, NewBlock
    PROVE  IInv'
<1>1. /\ height' = height + 1
      /\ \A p \in Payments : \A i \in Hops(p) \ {1} : ~Overdue(p, i)
      /\ UNCHANGED <<channels, known_preimages, started, hop, redeemedAt>>
  BY DEF NewBlock
<1>2. Basics'
  BY <1>1 DEF IInv, Basics
<1>3. PayeeOnly' /\ HeldIsOffered' /\ Chain'
  BY <1>1 DEF IInv, PayeeOnly, HeldIsOffered, Chain, Locktime
<1>4. InTime'
  <2> SUFFICES ASSUME NEW p \in Payments, NEW i \in Hops(p) \ {1}
               PROVE  /\ hop[<<p, i>>] = "offered" =>
                            height + 1 <= Locktime(p, i) + Grace
                      /\ hop[<<p, i>>] = "redeemed" =>
                            /\ redeemedAt[<<p, i>>] <= Locktime(p, i) + Grace
                            /\ hop[<<p, i - 1>>] = "offered" =>
                                  height + 1 <= redeemedAt[<<p, i>>] + Grace
    BY <1>1 DEF InTime, Locktime
  <2>1. /\ Delta[i] \in Nat /\ Grace \in Nat /\ height \in Nat
        /\ started[p] \in Nat /\ redeemedAt[<<p, i>>] \in Nat
    BY DeltaNat, HopIdsDef DEF IInv, Basics
  <2>2. ~Overdue(p, i)
    BY <1>1
  <2>3. hop[<<p, i>>] = "redeemed" =>
           redeemedAt[<<p, i>>] <= Locktime(p, i) + Grace
    BY DEF IInv, InTime
  <2>4. QED
    BY <2>1, <2>2, <2>3 DEF Overdue, Locktime
<1>5. QED
  BY <1>2, <1>3, <1>4 DEF IInv

LEMMA StutterStep == IInv /\ UNCHANGED vars => IInv'
BY DEF vars, IInv, Basics, PayeeOnly, HeldIsOffered, Chain, InTime, Locktime

LEMMA NextHolds == IInv /\ [Next]_vars => IInv'
<1> SUFFICES ASSUME IInv, [Next]_vars PROVE IInv'
  OBVIOUS
<1>1. ASSUME NEW l \in Links \ DOMAIN channels, Open(l) PROVE IInv'
  BY <1>1, OpenStep
<1>2. ASSUME NEW p \in Payments, CreateInvoice(p) \/ StartPayment(p)
      PROVE  IInv'
  BY <1>2, InvoiceStep, StartStep
<1>3. ASSUME NEW p \in Payments, NEW i \in Hops(p) \ {1}, ForwardPayment(p, i)
      PROVE  IInv'
  BY <1>3, ForwardStep
<1>4. ASSUME NEW p \in Payments, NEW i \in Hops(p),
             Fulfill(p, i) \/ RefundHop(p, i)
      PROVE  IInv'
  BY <1>4, FulfillStep, RefundStep
<1>5. CASE NewBlock
  BY <1>5, BlockStep
<1>6. CASE UNCHANGED vars
  BY <1>6, StutterStep
<1>7. QED
  BY <1>1, <1>2, <1>3, <1>4, <1>5, <1>6 DEF Next

LEMMA InvariantHolds == Spec => []IInv
<1>1. Init => IInv
  BY InitHolds
<1>2. IInv /\ [Next]_vars => IInv'
  BY NextHolds
<1>3. QED
  BY <1>1, <1>2, PTL DEF Spec

(***************************************************************************)
(* However payments interleave, a relay that refunds and redeems within    *)
(* Grace blocks (domain/node.py's fulfill_htlc and refund_htlc, called in  *)
(* time) never sees the HTLC it offered redeemed and the one it was offered*)
(* refunded, on routes of any length with locktimes staggered by more than *)
(* twice that time.                                                        *)
(***************************************************************************)
THEOREM NetworkRelaySafe == Spec => []RelaySafe
<1>1. IInv => RelaySafe
  <2> SUFFICES ASSUME IInv, NEW p \in Payments, NEW i \in Hops(p) \ {1}
               PROVE  hop[<<p, i>>] = "redeemed" => hop[<<p, i - 1>>] # "refunded"
    BY DEF RelaySafe
  <2>1. i - 1 \in Hops(p) /\ i - 1 < i
    BY HopsRange
  <2>2. QED
    BY <2>1 DEF IInv, Chain, Downstream
<1>2. QED
  BY <1>1, InvariantHolds, PTL
-----------------------------------------------------------------------------
(***************************************************************************)
(* The refinement: a step of the network is, for the ends of the payments, *)
(* a step of AtomicPayment or none.                                        *)
(***************************************************************************)
Last(p) == Len(Route[p]) - 1

Payer == [p \in Payments |-> PayerSide(p)]

PayeeEnd == [p \in Payments |-> PayeeSide(p)]

LEMMA OnlyOfferedChanges ==
    ASSUME hop \in [HopIds -> Status], NEW p \in Payments, NEW i \in Hops(p),
           hop[<<p, i>>] = "none",
           hop' = [hop EXCEPT ![<<p, i>>] = "offered"]
    PROVE  UNCHANGED <<Payer, PayeeEnd>>
<1>1. \A q \in Payments : <<q, 1>> \in HopIds /\ <<q, Last(q)>> \in HopIds
  BY HopsRange, HopIdsDef DEF Last
<1>2. \A q \in Payments : PayerSide(q)' = PayerSide(q)
  BY <1>1 DEF PayerSide
<1>3. \A q \in Payments : PayeeSide(q)' = PayeeSide(q)
  BY <1>1 DEF PayeeSide, Last
<1>4. QED
  BY <1>2, <1>3 DEF Payer, PayeeEnd

(* What resolving hop i of p does to the two sides.                        *)
LEMMA SidesAfter ==
    ASSUME hop \in [HopIds -> Status], NEW p \in Payments, NEW i \in Hops(p),
           NEW s \in {"redeemed", "refunded"}, hop[<<p, i>>] = "offered",
           hop' = [hop EXCEPT ![<<p, i>>] = s]
    PROVE  /\ IF i = 1
              THEN /\ PayerSide(p) = "holding"
                   /\ Payer' = [Payer EXCEPT ![p] =
                         IF s = "redeemed" THEN "debited" ELSE "refunded"]
              ELSE UNCHANGED Payer
           /\ IF i = Last(p) /\ s = "redeemed"
              THEN /\ PayeeSide(p) = "waiting"
                   /\ PayeeEnd' = [PayeeEnd EXCEPT ![p] = "paid"]
              ELSE UNCHANGED PayeeEnd
<1>1. \A q \in Payments : <<q, 1>> \in HopIds /\ <<q, Last(q)>> \in HopIds
  BY HopsRange, HopIdsDef DEF Last
<1>2. \A q \in Payments : q # p => PayerSide(q)' = PayerSide(q)
  BY <1>1 DEF PayerSide
<1>3. \A q \in Payments : q # p => PayeeSide(q)' = PayeeSide(q)
  BY <1>1 DEF PayeeSide, Last
<1>4. i # 1 => PayerSide(p)' = PayerSide(p)
  BY <1>1 DEF PayerSide
<1>5. i = 1 => /\ PayerSide(p) = "holding"
               /\ PayerSide(p)' =
                     IF s = "redeemed" THEN "debited" ELSE "refunded"
  BY <1>1 DEF PayerSide
<1>6. i # Last(p) \/ s # "redeemed" => PayeeSide(p)' = PayeeSide(p)
  BY <1>1 DEF PayeeSide, Last
<1>7. i = Last(p) => PayeeSide(p) = "waiting"
  BY <1>1 DEF PayeeSide, Last
<1>8. i = Last(p) /\ s = "redeemed" => PayeeSide(p)' = "paid"
  BY <1>1 DEF PayeeSide, Last
<1>9. QED
  BY <1>2, <1>3, <1>4, <1>5, <1>6, <1>7, <1>8 DEF Payer, PayeeEnd

LEMMA RefinesInit == Init => Ends!AInit
<1> SUFFICES ASSUME Init PROVE Ends!AInit
  OBVIOUS
<1>1. \A p \in Payments : hop[<<p, 1>>] = "none" /\ hop[<<p, Last(p)>>] = "none"
  BY HopsRange, HopIdsDef DEF Init, Last
<1>2. \A p \in Payments : PayerSide(p) = "holding" /\ PayeeSide(p) = "waiting"
  BY <1>1 DEF PayerSide, PayeeSide, Last
<1>3. QED
  BY <1>2 DEF Ends!AInit

LEMMA FulfillRefines ==
    ASSUME IInv, NEW p \in Payments, NEW i \in Hops(p), Fulfill(p, i)
    PROVE  [Ends!ANext]_<<Payer, PayeeEnd>>
<1>1. /\ hop \in [HopIds -> Status]
      /\ hop[<<p, i>>] = "offered"
      /\ hop' = [hop EXCEPT ![<<p, i>>] = "redeemed"]
  BY FulfillStep DEF IInv, Basics
<1>2. 1 \in Hops(p) /\ Last(p) \in Hops(p) /\ i \in Nat /\ 1 <= i
      /\ Last(p) \in Nat /\ i <= Last(p)
  BY HopsRange DEF Last
<1>3. Payer[p] = PayerSide(p) /\ PayeeEnd[p] = PayeeSide(p)
  BY DEF Payer, PayeeEnd
<1>4. CASE i = 1 /\ i = Last(p)
  <2>1. /\ PayerSide(p) = "holding"
        /\ PayeeSide(p) = "waiting"
        /\ Payer' = [Payer EXCEPT ![p] = "debited"]
        /\ PayeeEnd' = [PayeeEnd EXCEPT ![p] = "paid"]
    BY <1>1, <1>4, SidesAfter
  <2>2. Ends!PayAndDebit(p)
    BY <1>3, <2>1 DEF Ends!PayAndDebit, Payer, PayeeEnd
  <2>3. QED
    BY <2>2 DEF Ends!ANext
<1>5. CASE i = 1 /\ i # Last(p)
  <2>1. /\ PayerSide(p) = "holding"
        /\ Payer' = [Payer EXCEPT ![p] = "debited"]
        /\ UNCHANGED PayeeEnd
    BY <1>1, <1>5, SidesAfter
  <2>2. hop[<<p, Last(p)>>] = "redeemed"
    <3>1. KnowsPreimage(p, Route[p][i + 1])
      BY DEF Fulfill
    <3>2. QED
      BY <1>2, <1>5, <3>1, RedeemedDownstream
  <2>3. PayeeSide(p) = "paid"
    BY <2>2 DEF PayeeSide, Last
  <2>4. Ends!Debit(p)
    BY <1>3, <2>1, <2>3 DEF Ends!Debit, Payer, PayeeEnd
  <2>5. QED
    BY <2>4 DEF Ends!ANext
<1>6. CASE i # 1 /\ i = Last(p)
  <2>1. /\ UNCHANGED Payer
        /\ PayeeSide(p) = "waiting"
        /\ PayeeEnd' = [PayeeEnd EXCEPT ![p] = "paid"]
    BY <1>1, <1>6, SidesAfter
  <2>2. Downstream(hop[<<p, 1>>], hop[<<p, i>>])
    BY <1>2, <1>6 DEF IInv, Chain
  <2>3. PayerSide(p) = "holding"
    BY <1>1, <2>2 DEF Downstream, PayerSide
  <2>4. Ends!Pay(p)
    BY <1>3, <2>1, <2>3 DEF Ends!Pay, Payer, PayeeEnd
  <2>5. QED
    BY <2>4 DEF Ends!ANext
<1>7. CASE i # 1 /\ i # Last(p)
  <2>1. UNCHANGED <<Payer, PayeeEnd>>
    BY <1>1, <1>7, SidesAfter
  <2>2. QED
    BY <2>1
<1>8. QED
  BY <1>4, <1>5, <1>6, <1>7

LEMMA RefundRefines ==
    ASSUME IInv, NEW p \in Payments, NEW i \in Hops(p), RefundHop(p, i)
    PROVE  [Ends!ANext]_<<Payer, PayeeEnd>>
<1>1. /\ IInv'
      /\ hop \in [HopIds -> Status]
      /\ hop[<<p, i>>] = "offered"
      /\ hop' = [hop EXCEPT ![<<p, i>>] = "refunded"]
  BY RefundStep DEF IInv, Basics
<1>2. 1 \in Hops(p) /\ Last(p) \in Hops(p) /\ Last(p) \in Nat /\ 1 <= Last(p)
  BY HopsRange DEF Last
<1>3. UNCHANGED PayeeEnd
  BY <1>1, SidesAfter
<1>4. CASE i = 1
  <2>1. /\ PayerSide(p) = "holding"
        /\ Payer' = [Payer EXCEPT ![p] = "refunded"]
    BY <1>1, <1>4, SidesAfter
  <2>2. hop[<<p, Last(p)>>] # "redeemed"
    <3>1. CASE Last(p) = 1
      BY <1>1, <1>4, <3>1
    <3>2. CASE Last(p) # 1
      <4>1. Downstream(hop'[<<p, 1>>], hop'[<<p, Last(p)>>])
        BY <1>1, <1>2, <3>2 DEF IInv, Chain
      <4>2. <<p, 1>> \in HopIds /\ <<p, Last(p)>> \in HopIds
        BY <1>2, HopIdsDef
      <4>3. QED
        BY <1>1, <1>4, <3>2, <4>1, <4>2 DEF Downstream
    <3>3. QED
      BY <3>1, <3>2
  <2>3. PayeeSide(p) = "waiting"
    BY <2>2 DEF PayeeSide, Last
  <2>4. Ends!GiveBack(p)
    BY <1>3, <2>1, <2>3 DEF Ends!GiveBack, Payer, PayeeEnd
  <2>5. QED
    BY <2>4 DEF Ends!ANext
<1>5. CASE i # 1
  <2>1. UNCHANGED Payer
    BY <1>1, <1>5, SidesAfter
  <2>2. QED
    BY <1>3, <2>1
<1>6. QED
  BY <1>4, <1>5

LEMMA RefinesNext ==
    IInv /\ [Next]_vars => [Ends!ANext]_<<Payer, PayeeEnd>>
<1> SUFFICES ASSUME IInv, [Next]_vars
             PROVE  [Ends!ANext]_<<Payer, PayeeEnd>>
  OBVIOUS
<1>1. UNCHANGED hop => UNCHANGED <<Payer, PayeeEnd>>
  BY DEF Payer, PayeeEnd, PayerSide, PayeeSide
<1>2. hop \in [HopIds -> Status]
  BY DEF IInv, Basics
<1>3. ASSUME NEW l \in Links \ DOMAIN channels, Open(l)
      PROVE  UNCHANGED <<Payer, PayeeEnd>>
  BY <1>1, <1>3 DEF Open
<1>4. ASSUME NEW p \in Payments, CreateInvoice(p)
      PROVE  UNCHANGED <<Payer, PayeeEnd>>
  BY <1>1, <1>4 DEF CreateInvoice
<1>5. ASSUME NEW p \in Payments, StartPayment(p)
      PROVE  UNCHANGED <<Payer, PayeeEnd>>
  <2>1. hop[<<p, 1>>] = "none" /\ hop' = [hop EXCEPT ![<<p, 1>>] = "offered"]
    BY <1>5, StartStep DEF StartPayment
  <2>2. QED
    BY <1>2, <2>1, HopsRange, OnlyOfferedChanges
<1>6. ASSUME NEW p \in Payments, NEW i \in Hops(p) \ {1}, ForwardPayment(p, i)
      PROVE  UNCHANGED <<Payer, PayeeEnd>>
  <2>1. hop[<<p, i>>] = "none" /\ hop' = [hop EXCEPT ![<<p, i>>] = "offered"]
    BY <1>6, ForwardStep
  <2>2. QED
    BY <1>2, <2>1, OnlyOfferedChanges
<1>7. CASE NewBlock \/ UNCHANGED vars
  BY <1>1, <1>7 DEF NewBlock, vars
<1>8. ASSUME NEW p \in Payments, NEW i \in Hops(p),
             Fulfill(p, i) \/ RefundHop(p, i)
      PROVE  [Ends!ANext]_<<Payer, PayeeEnd>>
  BY <1>8, FulfillRefines, RefundRefines
<1>9. QED
  BY <1>3, <1>4, <1>5, <1>6, <1>7, <1>8 DEF Next

(***************************************************************************)
(* The network implements AtomicPayment for every payment at once: no payer*)
(* is debited unless its payee was paid, and no payee is paid of a payment *)
(* that was given back to its payer. This is the outcome that              *)
(* cli/demos/routing.py shows for one payment in one order of steps.       *)
(***************************************************************************)
THEOREM NetworkPaymentsAtomic == Spec => PaymentsAtomic
<1>1. Init => Ends!AInit
  BY RefinesInit
<1>2. IInv /\ [Next]_vars => [Ends!ANext]_<<Payer, PayeeEnd>>
  BY RefinesNext
<1>3. [Ends!ANext]_<<Payer, PayeeEnd>> <=> [Ends!ANext]_(Ends!avars)
  BY DEF Ends!avars, Payer, PayeeEnd
<1>4. QED
  BY <1>1, <1>2, <1>3, InvariantHolds, PTL DEF Spec, PaymentsAtomic, Ends!ASpec
-----------------------------------------------------------------------------
(***************************************************************************)
(* The books. Beside the order of the hops the network keeps accounts: each*)
(* channel holds its capacity between balances and pending HTLCs, each     *)
(* commitment a node made has a secret, and what a node has over all its   *)
(* channels with what it offered and did not get back is what it funded    *)
(* with what it redeemed.                                                  *)
(***************************************************************************)
Offerer(h) == Route[h[1]][h[2]]

Taker(h) == Route[h[1]][h[2] + 1]

LinkOf(h) == HopLink(h[1], h[2])

Fields == {"sender_alias", "receiver_alias", "capacity_sat", "balance",
           "state", "active_htlcs", "sequence_number", "revoked"}

(* The Channel object of link l, with the HTLCs of hops along l.           *)
ObjectOK(l, ch) ==
    /\ DOMAIN ch = Fields
    /\ ch.sender_alias = l[1] /\ ch.receiver_alias = l[2]
    /\ ch.balance \in [{l[1], l[2]} -> Nat]
    /\ ch.sequence_number \in Nat
    /\ \A h \in Pending(ch) :
          /\ h \in HopIds /\ LinkOf(h) = l
          /\ ch.active_htlcs[h].offerer_alias = Offerer(h)
          /\ ch.active_htlcs[h].amount_sat = Amount[h[1]]

Objects ==
    /\ DOMAIN channels \subseteq Links
    /\ \A l \in DOMAIN channels : ObjectOK(l, channels[l])

BalancedObject(l, ch) ==
    /\ IsFiniteSet(LockedSats(ch, l[1])) /\ IsFiniteSet(LockedSats(ch, l[2]))
    /\ ch.balance[l[1]] + ch.balance[l[2]] + Locked(ch, l[1])
          + Locked(ch, l[2]) = Capacity

Balanced == \A l \in DOMAIN channels : BalancedObject(l, channels[l])

Bounded ==
    /\ height <= MaxHeight
    /\ \A p \in Payments : started[p] <= MaxHeight
    /\ \A h \in HopIds : redeemedAt[h] <= MaxHeight

OffersOf(k) == {h \in HopIds : hop[h] # "none" /\ <<Offerer(h), Taker(h)>> = k}

Reverse(l) == <<l[2], l[1]>>

(* As many secrets as offers, each for a commitment number up to n.        *)
Matched(secrets, offers, n) ==
    /\ IsFiniteSet(secrets) /\ IsFiniteSet(offers)
    /\ Cardinality(secrets) = Cardinality(offers)
    /\ secrets \subseteq 1..n

(* The secrets of the side of channel l that k names.                      *)
SideOK(k, l) ==
    /\ k \in DOMAIN revocation_secrets
    /\ Matched(revocation_secrets[k], OffersOf(k), channels[l].sequence_number)

Secrets ==
    /\ \A h \in HopIds : hop[h] # "none" => LinkOf(h) \in DOMAIN channels
    /\ \A k \in DOMAIN revocation_secrets :
          k \in DOMAIN channels \/ \E l \in DOMAIN channels : k = Reverse(l)
    /\ \A l \in DOMAIN channels : SideOK(l, l) /\ SideOK(Reverse(l), l)

BalanceTable(n) ==
    [l \in {k \in DOMAIN channels : n \in {k[1], k[2]}} |-> channels[l].balance[n]]

FundingTable(n) == [l \in {k \in DOMAIN channels : k[1] = n} |-> Capacity]

OutTable(n) ==
    [h \in {g \in HopIds : Offerer(g) = n /\ hop[g] \in {"offered", "redeemed"}} |->
        Amount[h[1]]]

InTable(n) ==
    [h \in {g \in HopIds : Taker(g) = n /\ hop[g] = "redeemed"} |-> Amount[h[1]]]

WealthOf(n) ==
    /\ IsFiniteSet(SatsOf(BalanceTable(n))) /\ IsFiniteSet(SatsOf(OutTable(n)))
    /\ IsFiniteSet(SatsOf(FundingTable(n))) /\ IsFiniteSet(SatsOf(InTable(n)))
    /\ Worth(BalanceTable(n)) + Worth(OutTable(n)) =
          Worth(FundingTable(n)) + Worth(InTable(n))

Wealth == \A n \in Nodes : WealthOf(n)

Books == IInv /\ Objects /\ Balanced /\ Bounded /\ Secrets /\ Wealth
-----------------------------------------------------------------------------
(* The two ends of a link, whichever way it is named.                      *)
LEMMA LinkEnds ==
    ASSUME NEW l \in Links
    PROVE  /\ l = <<l[1], l[2]>> /\ l[1] \in Nodes /\ l[2] \in Nodes
           /\ l[1] # l[2] /\ Reverse(l) \notin Links
           /\ Link(l[1], l[2]) = l /\ Link(l[2], l[1]) = l
<1>1. /\ l \in Nodes \X Nodes /\ l[1] # l[2] /\ <<l[2], l[1]>> \notin Links
  BY NetworkAssumption
<1>2. l = <<l[1], l[2]>> /\ l[1] \in Nodes /\ l[2] \in Nodes
  BY <1>1
<1>3. Link(l[1], l[2]) = l /\ Link(l[2], l[1]) = l
  BY <1>1, <1>2 DEF Link
<1>4. QED
  BY <1>1, <1>2, <1>3 DEF Reverse

LEMMA HopEnds ==
    ASSUME NEW h \in HopIds
    PROVE  /\ h[1] \in Payments /\ h[2] \in Hops(h[1]) /\ h = <<h[1], h[2]>>
           /\ Offerer(h) \in Nodes /\ Taker(h) \in Nodes
           /\ Offerer(h) # Taker(h) /\ Amount[h[1]] \in Nat
           /\ LinkOf(h) = Link(Offerer(h), Taker(h))
           /\ LinkOf(h) \in {<<Offerer(h), Taker(h)>>, <<Taker(h), Offerer(h)>>}
           /\ {LinkOf(h)[1], LinkOf(h)[2]} = {Offerer(h), Taker(h)}
<1>0. PICK p \in Payments : \E i \in Hops(p) : h = <<p, i>>
  BY HopIdsDef
<1>1. PICK i \in Hops(p) : h = <<p, i>>
  BY <1>0
<1>2. h[1] = p /\ h[2] = i
  BY <1>1
<1>3. Route[p] \in Seq(Nodes) /\ Amount \in [Payments -> Nat]
  BY NetworkAssumption
<1>4. i \in Nat /\ i \in 1..Len(Route[p]) /\ Route[p][i + 1] \in Nodes
  <2>1. /\ Len(Route[p]) \in Nat /\ i \in Nat /\ 1 <= i
        /\ i <= Len(Route[p]) - 1 /\ Route[p][i + 1] \in Nodes
    BY HopsRange
  <2>2. QED
    BY <2>1
<1>5. Route[p][i] \in Nodes
  BY <1>3, <1>4
<1>6. Route[p][i] # Route[p][i + 1]
  BY <1>4, SimpleRoute
<1>7. HopLink(p, i) = Link(Route[p][i], Route[p][i + 1])
  BY DEF HopLink
<1>8. QED
  BY <1>1, <1>2, <1>3, <1>4, <1>5, <1>6, <1>7 DEF Offerer, Taker, LinkOf, Link

(***************************************************************************)
(* The record that the operators of a channel return, field by field: what *)
(* an operation on id keeps of ch.                                         *)
(***************************************************************************)
Kept(ch, new, id) ==
    /\ DOMAIN new = Fields
    /\ new.sender_alias = ch.sender_alias
    /\ new.receiver_alias = ch.receiver_alias
    /\ new.sequence_number = ch.sequence_number + 1
    /\ \A h \in Pending(ch) \ {id} : new.active_htlcs[h] = ch.active_htlcs[h]

Debited(balance, n, d) == [balance EXCEPT ![n] = @ - d]

LEMMA AddedObject ==
    ASSUME NEW ch, NEW id, NEW htlc, DOMAIN ch = Fields
    PROVE  /\ Kept(ch, AddHtlc(ch, id, htlc), id)
           /\ Pending(AddHtlc(ch, id, htlc)) = Pending(ch) \cup {id}
           /\ AddHtlc(ch, id, htlc).active_htlcs[id] = htlc
           /\ AddHtlc(ch, id, htlc).balance =
                 Debited(ch.balance, htlc.offerer_alias, htlc.amount_sat)
<1> DEFINE bal == Debited(ch.balance, htlc.offerer_alias, htlc.amount_sat)
           act == [h \in Pending(ch) \cup {id} |->
                      IF h = id THEN htlc ELSE ch.active_htlcs[h]]
           new == AddHtlc(ch, id, htlc)
<1>1. new = [ch EXCEPT !.balance = bal, !.active_htlcs = act,
                       !.sequence_number = ch.sequence_number + 1]
  BY DEF AddHtlc, Pending, Fields, Debited
<1>2. /\ DOMAIN act = Pending(ch) \cup {id} /\ act[id] = htlc
      /\ \A h \in Pending(ch) \ {id} : act[h] = ch.active_htlcs[h]
  OBVIOUS
<1> HIDE DEF bal, act, new
<1>3. /\ DOMAIN new = Fields
      /\ new.sender_alias = ch.sender_alias
      /\ new.receiver_alias = ch.receiver_alias
      /\ new.balance = bal /\ new.active_htlcs = act
      /\ new.sequence_number = ch.sequence_number + 1
  BY <1>1 DEF Fields
<1>4. Pending(new) = Pending(ch) \cup {id}
  BY <1>2, <1>3 DEF Pending
<1>5. QED
  BY <1>2, <1>3, <1>4 DEF bal, new, Kept

LEMMA ResolvedObject ==
    ASSUME NEW ch, NEW id, NEW n, DOMAIN ch = Fields
    PROVE  /\ Kept(ch, Resolve(ch, id, n), id)
           /\ Pending(Resolve(ch, id, n)) = Pending(ch) \ {id}
           /\ Resolve(ch, id, n).balance =
                 [ch.balance EXCEPT ![n] = @ + ch.active_htlcs[id].amount_sat]
<1> DEFINE bal == [ch.balance EXCEPT ![n] = @ + ch.active_htlcs[id].amount_sat]
           act == [h \in Pending(ch) \ {id} |-> ch.active_htlcs[h]]
           new == Resolve(ch, id, n)
<1>1. new = [ch EXCEPT !.balance = bal, !.active_htlcs = act,
                       !.sequence_number = ch.sequence_number + 1]
  BY DEF Resolve, Restrict, Pending, Fields
<1>2. /\ DOMAIN act = Pending(ch) \ {id}
      /\ \A h \in Pending(ch) \ {id} : act[h] = ch.active_htlcs[h]
  OBVIOUS
<1> HIDE DEF bal, act, new
<1>3. /\ DOMAIN new = Fields
      /\ new.sender_alias = ch.sender_alias
      /\ new.receiver_alias = ch.receiver_alias
      /\ new.balance = bal /\ new.active_htlcs = act
      /\ new.sequence_number = ch.sequence_number + 1
  BY <1>1 DEF Fields
<1>4. Pending(new) = Pending(ch) \ {id}
  BY <1>2, <1>3 DEF Pending
<1>5. QED
  BY <1>2, <1>3, <1>4 DEF bal, new, Kept
-----------------------------------------------------------------------------
(***************************************************************************)
(* A step on HTLC h credits n with d satoshis on the link of h, takes a    *)
(* commitment number and leaves every other HTLC and channel as it is.     *)
(***************************************************************************)
Moves(h, n, d) ==
    LET l == LinkOf(h)
        old == channels[l]
        new == channels'[l]
    IN /\ l \in DOMAIN channels /\ DOMAIN channels' = DOMAIN channels
       /\ \A k \in DOMAIN channels : k # l => channels'[k] = channels[k]
       /\ n \in {l[1], l[2]} /\ d \in Int
       /\ ObjectOK(l, old) /\ ObjectOK(l, new)
       /\ new.balance = [old.balance EXCEPT ![n] = @ + d]
       /\ new.sequence_number = old.sequence_number + 1
       /\ Pending(new) \ {h} = Pending(old) \ {h}
       /\ \A k \in Pending(old) \ {h} :
             new.active_htlcs[k] = old.active_htlcs[k]

LEMMA MovedObjects ==
    ASSUME Objects, NEW h, NEW n, NEW d, Moves(h, n, d)
    PROVE  Objects'
<1>1. \A l \in DOMAIN channels' : ObjectOK(l, channels'[l])
  BY DEF Moves, Objects
<1>2. QED
  BY <1>1 DEF Moves, Objects

LEMMA OfferMoves ==
    ASSUME Books, NEW p \in Payments, NEW i \in Hops(p), NEW t,
           RouteHtlcPayment(p, i, t), hop[<<p, i>>] = "none"
    PROVE  /\ Moves(<<p, i>>, Offerer(<<p, i>>), -Amount[p])
           /\ <<p, i>> \in Pending(channels'[LinkOf(<<p, i>>)])
           /\ <<p, i>> \notin Pending(channels[LinkOf(<<p, i>>)])
           /\ hop' = [hop EXCEPT ![<<p, i>>] = "offered"]
           /\ revocation_secrets' =
                 [revocation_secrets EXCEPT
                     ![<<Offerer(<<p, i>>), Taker(<<p, i>>)>>] =
                        @ \cup {channels'[LinkOf(<<p, i>>)].sequence_number}]
<1> DEFINE h == <<p, i>>
           l == LinkOf(h)
           htlc == HTLCContract(Hash(p), Amount[p], t, Route[p][i])
           old == channels[l]
           new == channels'[l]
<1>1. /\ h \in HopIds /\ h[1] = p /\ h[2] = i
      /\ Offerer(h) = Route[p][i] /\ Taker(h) = Route[p][i + 1]
      /\ HopLink(p, i) = l
  BY HopIdsDef DEF Offerer, Taker, LinkOf
<1>2. /\ l \in DOMAIN channels /\ CanAddHtlc(old, htlc)
      /\ channels' = [channels EXCEPT ![l] = AddHtlc(old, h, htlc)]
      /\ hop' = [hop EXCEPT ![h] = "offered"]
      /\ revocation_secrets' =
            [revocation_secrets EXCEPT ![<<Offerer(h), Taker(h)>>] =
                @ \cup {channels'[l].sequence_number}]
  BY <1>1 DEF RouteHtlcPayment, HasChannelWith, HopLink
<1>3. htlc.offerer_alias = Offerer(h) /\ htlc.amount_sat = Amount[p]
  BY <1>1 DEF HTLCContract
<1>4. ObjectOK(l, old)
  BY <1>2 DEF Books, Objects
<1>5. h \notin Pending(old)
  BY <1>1, <1>2 DEF Books, IInv, HeldIsOffered, HeldIn
<1>6. /\ Offerer(h) \in {l[1], l[2]} /\ Amount[p] \in Nat
  BY <1>1, HopEnds
<1> HIDE DEF h, htlc
<1>7. /\ DOMAIN channels' = DOMAIN channels
      /\ \A k \in DOMAIN channels : k # l => channels'[k] = channels[k]
      /\ new = AddHtlc(old, h, htlc)
  BY <1>2
<1> HIDE DEF l, old, new
<1>8. DOMAIN old = Fields
  BY <1>4 DEF ObjectOK
<1>9. /\ DOMAIN new = Fields
      /\ new.sender_alias = old.sender_alias
      /\ new.receiver_alias = old.receiver_alias
      /\ new.balance =
            [old.balance EXCEPT ![Offerer(h)] = @ - Amount[p]]
      /\ new.sequence_number = old.sequence_number + 1
      /\ Pending(new) = Pending(old) \cup {h}
      /\ new.active_htlcs[h] = htlc
      /\ \A k \in Pending(old) \ {h} : new.active_htlcs[k] = old.active_htlcs[k]
  <2>1. /\ Kept(old, AddHtlc(old, h, htlc), h)
        /\ Pending(AddHtlc(old, h, htlc)) = Pending(old) \cup {h}
        /\ AddHtlc(old, h, htlc).active_htlcs[h] = htlc
        /\ AddHtlc(old, h, htlc).balance =
              Debited(old.balance, htlc.offerer_alias, htlc.amount_sat)
    BY <1>8, AddedObject
  <2>2. QED
    BY <1>3, <1>7, <2>1 DEF Kept, Debited
<1>10. /\ old.balance \in [{l[1], l[2]} -> Nat]
       /\ old.balance[Offerer(h)] >= Amount[p]
  BY <1>2, <1>3, <1>4 DEF ObjectOK, CanAddHtlc
<1>11. new.balance \in [{l[1], l[2]} -> Nat]
  <2>1. old.balance[Offerer(h)] - Amount[p] \in Nat
    BY <1>6, <1>10
  <2>2. QED
    BY <1>6, <1>9, <1>10, <2>1
<1>12. new.balance = [old.balance EXCEPT ![Offerer(h)] = @ + (-Amount[p])]
  <2>1. old.balance[Offerer(h)] - Amount[p] = old.balance[Offerer(h)] + (-Amount[p])
    BY <1>6, <1>10
  <2>2. QED
    BY <1>9, <2>1
<1>13. ASSUME NEW k \in Pending(new)
       PROVE  /\ k \in HopIds /\ LinkOf(k) = l
              /\ new.active_htlcs[k].offerer_alias = Offerer(k)
              /\ new.active_htlcs[k].amount_sat = Amount[k[1]]
  <2>1. CASE k = h
    BY <1>1, <1>3, <1>9, <2>1 DEF l
  <2>2. CASE k # h
    BY <1>4, <1>9, <2>2 DEF ObjectOK
  <2>3. QED
    BY <2>1, <2>2
<1>14. ObjectOK(l, new)
  BY <1>4, <1>9, <1>11, <1>13 DEF ObjectOK
<1>15. -Amount[p] \in Int
  BY <1>6
<1>16. Moves(h, Offerer(h), -Amount[p])
  BY <1>2, <1>4, <1>6, <1>7, <1>9, <1>12, <1>14, <1>15 DEF Moves, l, old, new
<1>17. QED
  BY <1>2, <1>5, <1>9, <1>16 DEF h, l, old, new

LEMMA ResolveMoves ==
    ASSUME Books, NEW p \in Payments, NEW i \in Hops(p), NEW n,
           LinkOf(<<p, i>>) \in DOMAIN channels,
           <<p, i>> \in Pending(channels[LinkOf(<<p, i>>)]),
           n \in {Offerer(<<p, i>>), Taker(<<p, i>>)},
           channels' = [channels EXCEPT ![LinkOf(<<p, i>>)] =
                           Resolve(channels[LinkOf(<<p, i>>)], <<p, i>>, n)]
    PROVE  /\ Moves(<<p, i>>, n, Amount[p])
           /\ <<p, i>> \notin Pending(channels'[LinkOf(<<p, i>>)])
<1> DEFINE h == <<p, i>>
           l == LinkOf(h)
           old == channels[l]
           new == channels'[l]
<1>1. h \in HopIds /\ h[1] = p
  BY HopIdsDef
<1>2. n \in {l[1], l[2]} /\ Amount[p] \in Nat
  BY <1>1, HopEnds
<1>3. ObjectOK(l, old)
  BY DEF Books, Objects
<1>4. /\ DOMAIN channels' = DOMAIN channels
      /\ \A k \in DOMAIN channels : k # l => channels'[k] = channels[k]
      /\ new = Resolve(old, h, n)
  OBVIOUS
<1>5. l \in DOMAIN channels /\ h \in Pending(old)
  OBVIOUS
<1> HIDE DEF h, l, old, new
<1>6. DOMAIN old = Fields /\ old.active_htlcs[h].amount_sat = Amount[p]
  BY <1>1, <1>3, <1>5 DEF ObjectOK
<1>7. /\ DOMAIN new = Fields
      /\ new.sender_alias = old.sender_alias
      /\ new.receiver_alias = old.receiver_alias
      /\ new.balance = [old.balance EXCEPT ![n] = @ + Amount[p]]
      /\ new.sequence_number = old.sequence_number + 1
      /\ Pending(new) = Pending(old) \ {h}
      /\ \A k \in Pending(old) \ {h} : new.active_htlcs[k] = old.active_htlcs[k]
  <2>1. /\ Kept(old, Resolve(old, h, n), h)
        /\ Pending(Resolve(old, h, n)) = Pending(old) \ {h}
        /\ Resolve(old, h, n).balance =
              [old.balance EXCEPT ![n] = @ + old.active_htlcs[h].amount_sat]
    BY <1>6, ResolvedObject, ZenonT(40)
  <2>2. QED
    BY <1>4, <1>6, <2>1 DEF Kept
<1>8. new.balance \in [{l[1], l[2]} -> Nat]
  <2>1. old.balance \in [{l[1], l[2]} -> Nat]
    BY <1>3 DEF ObjectOK
  <2>2. old.balance[n] + Amount[p] \in Nat
    BY <1>2, <2>1
  <2>3. QED
    BY <1>2, <1>7, <2>1, <2>2
<1>9. ObjectOK(l, new)
  BY <1>3, <1>7, <1>8 DEF ObjectOK
<1>10. Moves(h, n, Amount[p])
  BY <1>2, <1>3, <1>4, <1>5, <1>7, <1>9 DEF Moves, l, old, new
<1>11. QED
  BY <1>7, <1>10 DEF h, l, new
-----------------------------------------------------------------------------
(***************************************************************************)
(* The channels stay balanced: what the step credits is what it unlocks.   *)
(***************************************************************************)
OffersHop(h, n, d) ==
    /\ n = Offerer(h) /\ d = -Amount[h[1]]
    /\ h \notin Pending(channels[LinkOf(h)])
    /\ h \in Pending(channels'[LinkOf(h)])

ResolvesHop(h, n, d) ==
    /\ n \in {Offerer(h), Taker(h)} /\ d = Amount[h[1]]
    /\ h \in Pending(channels[LinkOf(h)])
    /\ h \notin Pending(channels'[LinkOf(h)])

LEMMA HopLocks ==
    ASSUME NEW h \in HopIds, NEW ch, ObjectOK(LinkOf(h), ch)
    PROVE  \A x : LockedIn(ch, x, h) =
                     IF h \in Pending(ch) /\ x = Offerer(h) THEN Amount[h[1]] ELSE 0
BY DEF ObjectOK, LockedIn

LEMMA MovedLocks ==
    ASSUME Books, NEW h \in HopIds, NEW n, NEW d, Moves(h, n, d)
    PROVE  \A x \in {LinkOf(h)[1], LinkOf(h)[2]} :
              LET old == channels[LinkOf(h)]
                  new == channels'[LinkOf(h)]
              IN /\ IsFiniteSet(LockedSats(new, x))
                 /\ Locked(old, x) \in Nat
                 /\ LockedIn(old, x, h) \in Nat /\ LockedIn(new, x, h) \in Nat
                 /\ Locked(new, x) =
                       Locked(old, x) - LockedIn(old, x, h) + LockedIn(new, x, h)
<1> DEFINE l == LinkOf(h)
           old == channels[l]
           new == channels'[l]
<1> SUFFICES ASSUME NEW x \in {l[1], l[2]}
             PROVE  /\ IsFiniteSet(LockedSats(new, x))
                    /\ Locked(old, x) \in Nat
                    /\ LockedIn(old, x, h) \in Nat /\ LockedIn(new, x, h) \in Nat
                    /\ Locked(new, x) =
                          Locked(old, x) - LockedIn(old, x, h) + LockedIn(new, x, h)
  OBVIOUS
<1>1. /\ ObjectOK(LinkOf(h), old) /\ ObjectOK(LinkOf(h), new)
      /\ Pending(new) \ {h} = Pending(old) \ {h}
      /\ \A k \in Pending(old) \ {h} : new.active_htlcs[k] = old.active_htlcs[k]
      /\ l \in DOMAIN channels
  BY DEF Moves
<1>2. IsFiniteSet(LockedSats(old, x))
  BY <1>1 DEF Books, Balanced, BalancedObject
<1>3. Amount[h[1]] \in Nat
  BY HopEnds
<1> HIDE DEF l, old, new
<1>4. LockedIn(old, x, h) \in Nat /\ LockedIn(new, x, h) \in Nat
  BY <1>1, <1>3, HopLocks
<1>5. QED
  BY <1>1, <1>2, <1>4, LockedChange

LEMMA SumMoved ==
    ASSUME NEW x \in Nat, NEW y \in Nat, NEW u \in Nat, NEW v \in Nat,
           NEW u2 \in Nat, NEW v2 \in Nat, NEW d \in Int, NEW x2, NEW y2,
           x2 = x - u + u2, y2 = y - v + v2, u2 + v2 = u + v - d
    PROVE  x2 + y2 = x + y - d
OBVIOUS

LEMMA SumKept ==
    ASSUME NEW x \in Int, NEW y \in Int, NEW u \in Int, NEW v \in Int,
           NEW x2 \in Int, NEW y2 \in Int, NEW u2 \in Int, NEW v2 \in Int,
           NEW d \in Int, x2 + y2 = x + y + d, u2 + v2 = u + v - d
    PROVE  x2 + y2 + u2 + v2 = x + y + u + v
OBVIOUS

LEMMA BalancedStep ==
    ASSUME Books, NEW h \in HopIds, NEW n, NEW d, Moves(h, n, d),
           OffersHop(h, n, d) \/ ResolvesHop(h, n, d)
    PROVE  Balanced'
<1> DEFINE l == LinkOf(h)
           old == channels[l]
           new == channels'[l]
           a == l[1]
           b == l[2]
           A == Amount[h[1]]
<1>1. /\ l \in DOMAIN channels /\ DOMAIN channels' = DOMAIN channels
      /\ \A k \in DOMAIN channels : k # l => channels'[k] = channels[k]
      /\ n \in {a, b} /\ d \in Int
      /\ ObjectOK(LinkOf(h), old) /\ ObjectOK(LinkOf(h), new)
      /\ new.balance = [old.balance EXCEPT ![n] = @ + d]
  BY DEF Moves
<1>2. a # b /\ A \in Nat /\ Offerer(h) \in {a, b}
  <2>1. l \in Links
    BY <1>1 DEF Books, Objects
  <2>2. a # b
    BY <2>1, LinkEnds
  <2>3. QED
    BY <2>2, HopEnds
<1>3. old.balance \in [{a, b} -> Nat] /\ BalancedObject(l, old)
  BY <1>1 DEF Books, Balanced, ObjectOK
<1>4. \A x \in {a, b} :
         /\ IsFiniteSet(LockedSats(new, x))
         /\ Locked(old, x) \in Nat
         /\ LockedIn(old, x, h) \in Nat /\ LockedIn(new, x, h) \in Nat
         /\ Locked(new, x) =
               Locked(old, x) - LockedIn(old, x, h) + LockedIn(new, x, h)
  BY MovedLocks
<1>5. \A x : /\ LockedIn(old, x, h) =
                   IF h \in Pending(old) /\ x = Offerer(h) THEN A ELSE 0
             /\ LockedIn(new, x, h) =
                   IF h \in Pending(new) /\ x = Offerer(h) THEN A ELSE 0
  BY <1>1, HopLocks
<1>6. \/ d = -A /\ h \notin Pending(old) /\ h \in Pending(new)
      \/ d = A /\ h \in Pending(old) /\ h \notin Pending(new)
  BY DEF OffersHop, ResolvesHop
<1>7. /\ old.balance[a] + old.balance[b] + Locked(old, a) + Locked(old, b) = Capacity
      /\ old.balance[a] \in Nat /\ old.balance[b] \in Nat
  BY <1>3 DEF BalancedObject
<1> HIDE DEF l, old, new, a, b, A
<1>8. new.balance[a] + new.balance[b] = old.balance[a] + old.balance[b] + d
      /\ new.balance[a] \in Int /\ new.balance[b] \in Int
  <2>1. CASE n = a
    <3>1. new.balance[a] = old.balance[a] + d /\ new.balance[b] = old.balance[b]
      BY <1>1, <1>2, <1>3, <2>1
    <3>2. QED
      BY <1>1, <1>7, <3>1
  <2>2. CASE n = b
    <3>1. new.balance[b] = old.balance[b] + d /\ new.balance[a] = old.balance[a]
      BY <1>1, <1>2, <1>3, <2>2
    <3>2. QED
      BY <1>1, <1>7, <3>1
  <2>3. QED
    BY <1>1, <2>1, <2>2
<1>9. Locked(new, a) + Locked(new, b) = Locked(old, a) + Locked(old, b) - d
  <2>1. /\ Locked(new, a) = Locked(old, a) - LockedIn(old, a, h) + LockedIn(new, a, h)
        /\ Locked(new, b) = Locked(old, b) - LockedIn(old, b, h) + LockedIn(new, b, h)
        /\ Locked(old, a) \in Nat /\ Locked(old, b) \in Nat
    BY <1>4
  <2>2. LockedIn(new, a, h) + LockedIn(new, b, h) =
           LockedIn(old, a, h) + LockedIn(old, b, h) - d
    <3>1. CASE Offerer(h) = a
      <4>1. /\ LockedIn(old, b, h) = 0 /\ LockedIn(new, b, h) = 0
            /\ LockedIn(old, a, h) = IF h \in Pending(old) THEN A ELSE 0
            /\ LockedIn(new, a, h) = IF h \in Pending(new) THEN A ELSE 0
        BY <1>2, <1>5, <3>1
      <4>2. QED
        BY <1>2, <1>6, <4>1
    <3>2. CASE Offerer(h) = b
      <4>1. /\ LockedIn(old, a, h) = 0 /\ LockedIn(new, a, h) = 0
            /\ LockedIn(old, b, h) = IF h \in Pending(old) THEN A ELSE 0
            /\ LockedIn(new, b, h) = IF h \in Pending(new) THEN A ELSE 0
        BY <1>2, <1>5, <3>2
      <4>2. QED
        BY <1>2, <1>6, <4>1
    <3>3. QED
      BY <1>2, <3>1, <3>2
  <2>3. /\ LockedIn(old, a, h) \in Nat /\ LockedIn(new, a, h) \in Nat
        /\ LockedIn(old, b, h) \in Nat /\ LockedIn(new, b, h) \in Nat
    BY <1>4
  <2>4. d \in Int
    BY <1>1
  <2>5. QED
    BY <2>1, <2>2, <2>3, <2>4, SumMoved
<1>10. /\ Locked(new, a) \in Int /\ Locked(new, b) \in Int
       /\ Locked(old, a) \in Nat /\ Locked(old, b) \in Nat
  BY <1>4
<1>11. new.balance[a] + new.balance[b] + Locked(new, a) + Locked(new, b) = Capacity
  <2>1. d \in Int
    BY <1>1
  <2>2. /\ old.balance[a] \in Int /\ old.balance[b] \in Int
        /\ Locked(old, a) \in Int /\ Locked(old, b) \in Int
    BY <1>7, <1>10
  <2>3. new.balance[a] + new.balance[b] + Locked(new, a) + Locked(new, b) =
           old.balance[a] + old.balance[b] + Locked(old, a) + Locked(old, b)
    BY <1>8, <1>9, <1>10, <2>1, <2>2, SumKept
  <2>4. QED
    BY <1>7, <2>3
<1>12. BalancedObject(l, new)
  BY <1>4, <1>11 DEF BalancedObject, a, b
<1>13. \A k \in DOMAIN channels' : BalancedObject(k, channels'[k])
  BY <1>1, <1>12 DEF Books, Balanced, new
<1>14. QED
  BY <1>13 DEF Balanced
-----------------------------------------------------------------------------
(***************************************************************************)
(* The secrets: an offer takes a commitment number that was never used.    *)
(***************************************************************************)
LEMMA MatchedLater ==
    ASSUME NEW S, NEW O, NEW n \in Nat, Matched(S, O, n)
    PROVE  Matched(S, O, n + 1)
BY DEF Matched

LEMMA MatchedAdded ==
    ASSUME NEW S, NEW O, NEW n \in Nat, Matched(S, O, n), NEW h, h \notin O
    PROVE  Matched(S \cup {n + 1}, O \cup {h}, n + 1)
<1>1. n + 1 \notin S /\ S \cup {n + 1} \subseteq 1..(n + 1)
  BY DEF Matched
<1>2. /\ IsFiniteSet(S \cup {n + 1})
      /\ Cardinality(S \cup {n + 1}) = Cardinality(S) + 1
  BY <1>1, FS_AddElement DEF Matched
<1>3. /\ IsFiniteSet(O \cup {h})
      /\ Cardinality(O \cup {h}) = Cardinality(O) + 1
  BY FS_AddElement DEF Matched
<1>4. QED
  BY <1>1, <1>2, <1>3 DEF Matched

LEMMA SidesApart ==
    ASSUME NEW k \in Links, NEW l \in Links, k # l
    PROVE  /\ k # Reverse(l) /\ Reverse(k) # l /\ Reverse(k) # Reverse(l)
           /\ l # Reverse(l)
<1>1. /\ k = <<k[1], k[2]>> /\ l = <<l[1], l[2]>> /\ l[1] # l[2]
      /\ Reverse(k) \notin Links /\ Reverse(l) \notin Links
  BY LinkEnds
<1>2. Reverse(k) = Reverse(l) => k = l
  BY <1>1 DEF Reverse
<1>3. QED
  BY <1>1, <1>2

(* Neither the offers nor the secrets of any side change, and each channel *)
(* keeps its commitment number or takes the next one.                      *)
LEMMA SecretsKept ==
    ASSUME Books, Objects', DOMAIN channels' = DOMAIN channels,
           \A l \in DOMAIN channels : channels'[l].sequence_number \in
              {channels[l].sequence_number, channels[l].sequence_number + 1},
           \A g \in HopIds : hop'[g] # "none" <=> hop[g] # "none",
           UNCHANGED revocation_secrets
    PROVE  Secrets'
<1>1. \A k : OffersOf(k)' = OffersOf(k)
  BY DEF OffersOf
<1>2. ASSUME NEW l \in DOMAIN channels, NEW k, SideOK(k, l)
      PROVE  SideOK(k, l)'
  <2>1. channels[l].sequence_number \in Nat
    BY DEF Books, Objects, ObjectOK
  <2>2. Matched(revocation_secrets[k], OffersOf(k), channels'[l].sequence_number)
    BY <1>2, <2>1, MatchedLater DEF SideOK
  <2>3. QED
    BY <1>1, <1>2, <2>2 DEF SideOK
<1>3. \A l \in DOMAIN channels' : SideOK(l, l)' /\ SideOK(Reverse(l), l)'
  BY <1>2 DEF Books, Secrets
<1>4. QED
  BY <1>3 DEF Books, Secrets

LEMMA SecretsOffer ==
    ASSUME Books, NEW h \in HopIds, NEW n, NEW d, Moves(h, n, d),
           hop[h] = "none", hop' = [hop EXCEPT ![h] = "offered"],
           revocation_secrets' =
              [revocation_secrets EXCEPT ![<<Offerer(h), Taker(h)>>] =
                  @ \cup {channels'[LinkOf(h)].sequence_number}]
    PROVE  Secrets'
<1> DEFINE l == LinkOf(h)
           m == <<Offerer(h), Taker(h)>>
           seq == channels[l].sequence_number
<1>1. /\ l \in DOMAIN channels /\ DOMAIN channels' = DOMAIN channels
      /\ \A k \in DOMAIN channels : k # l => channels'[k] = channels[k]
      /\ channels'[l].sequence_number = seq + 1 /\ seq \in Nat
  BY DEF Moves, ObjectOK
<1>2. hop \in [HopIds -> Status] /\ DOMAIN channels \subseteq Links
  BY DEF Books, IInv, Basics, Objects
<1>3. /\ hop'[h] = "offered"
      /\ \A g \in HopIds : g # h => hop'[g] = hop[g]
  BY <1>2
<1>4. OffersOf(m)' = OffersOf(m) \cup {h} /\ h \notin OffersOf(m)
  BY <1>3 DEF OffersOf
<1>5. \A k : k # m => OffersOf(k)' = OffersOf(k)
  BY <1>3 DEF OffersOf
<1>6. m = l \/ m = Reverse(l)
  BY HopEnds DEF Reverse
<1>7. SideOK(l, l) /\ SideOK(Reverse(l), l)
  BY <1>1 DEF Books, Secrets
<1>8. /\ DOMAIN revocation_secrets' = DOMAIN revocation_secrets
      /\ \A k : k # m /\ k \in DOMAIN revocation_secrets =>
            revocation_secrets'[k] = revocation_secrets[k]
  OBVIOUS
<1>9. revocation_secrets'[m] = revocation_secrets[m] \cup {seq + 1}
  BY <1>1, <1>6, <1>7 DEF SideOK
<1>10. SideOK(m, l)'
  <2>1. Matched(revocation_secrets[m], OffersOf(m), seq)
    BY <1>6, <1>7 DEF SideOK
  <2>2. Matched(revocation_secrets[m] \cup {seq + 1}, OffersOf(m) \cup {h}, seq + 1)
    BY <1>1, <1>4, <2>1, MatchedAdded
  <2>3. m \in DOMAIN revocation_secrets'
    BY <1>6, <1>7, <1>8 DEF SideOK
  <2>4. QED
    BY <1>1, <1>4, <1>9, <2>2, <2>3 DEF SideOK
<1>11. ASSUME NEW k, k # m, SideOK(k, l)
       PROVE  SideOK(k, l)'
  <2>1. Matched(revocation_secrets[k], OffersOf(k), seq + 1)
    BY <1>1, <1>11, MatchedLater DEF SideOK
  <2>2. QED
    BY <1>1, <1>5, <1>8, <1>11, <2>1 DEF SideOK
<1>12. ASSUME NEW j \in DOMAIN channels, j # l, NEW k, k # m, SideOK(k, j)
       PROVE  SideOK(k, j)'
  BY <1>1, <1>5, <1>8, <1>12 DEF SideOK
<1>13. \A j \in DOMAIN channels' : SideOK(j, j)' /\ SideOK(Reverse(j), j)'
  <2> SUFFICES ASSUME NEW j \in DOMAIN channels
               PROVE  SideOK(j, j)' /\ SideOK(Reverse(j), j)'
    BY <1>1
  <2>1. SideOK(j, j) /\ SideOK(Reverse(j), j)
    BY DEF Books, Secrets
  <2>2. CASE j = l
    BY <1>7, <1>10, <1>11, <2>2
  <2>3. CASE j # l
    <3>1. j # m /\ Reverse(j) # m
      BY <1>1, <1>2, <1>6, <2>3, SidesApart
    <3>2. QED
      BY <1>12, <2>1, <2>3, <3>1
  <2>4. QED
    BY <2>2, <2>3
<1>14. \A g \in HopIds : hop'[g] # "none" => LinkOf(g) \in DOMAIN channels'
  BY <1>1, <1>3 DEF Books, Secrets
<1>15. \A k \in DOMAIN revocation_secrets' :
          k \in DOMAIN channels' \/ \E j \in DOMAIN channels' : k = Reverse(j)
  BY <1>1, <1>8 DEF Books, Secrets
<1>16. QED
  BY <1>13, <1>14, <1>15 DEF Secrets
-----------------------------------------------------------------------------
(***************************************************************************)
(* The wealth of a node: what a step credits it with is what leaves its    *)
(* offers or what it redeemed.                                             *)
(***************************************************************************)
Share(n, x, d) == IF n = x THEN d ELSE 0

LEMMA BalanceMoved ==
    ASSUME Books, NEW h \in HopIds, NEW x, NEW d, Moves(h, x, d), NEW n \in Nodes
    PROVE  /\ IsFiniteSet(SatsOf(BalanceTable(n)'))
           /\ Worth(BalanceTable(n)) \in Nat /\ Worth(BalanceTable(n)') \in Nat
           /\ Share(n, x, d) \in Int
           /\ Worth(BalanceTable(n)') = Worth(BalanceTable(n)) + Share(n, x, d)
<1> DEFINE l == LinkOf(h)
           old == channels[l]
           new == channels'[l]
           f == BalanceTable(n)
           g == BalanceTable(n)'
           K == {k \in DOMAIN channels : n \in {k[1], k[2]}}
<1>1. /\ l \in DOMAIN channels /\ DOMAIN channels' = DOMAIN channels
      /\ \A k \in DOMAIN channels : k # l => channels'[k] = channels[k]
      /\ x \in {l[1], l[2]} /\ d \in Int
      /\ old.balance \in [{l[1], l[2]} -> Nat] /\ new.balance \in [{l[1], l[2]} -> Nat]
      /\ new.balance = [old.balance EXCEPT ![x] = @ + d]
  BY DEF Moves, ObjectOK
<1>2. /\ f = [k \in K |-> channels[k].balance[n]]
      /\ g = [k \in K |-> channels'[k].balance[n]]
  BY <1>1 DEF BalanceTable
<1>3. DOMAIN f = K /\ DOMAIN g = K /\ \A k \in K \ {l} : g[k] = f[k]
  BY <1>1, <1>2
<1>4. IsFiniteSet(SatsOf(f))
  BY DEF Books, Wealth, WealthOf
<1>5. Share(n, x, d) \in Int
  BY <1>1 DEF Share
<1>6. l \in K <=> n \in {l[1], l[2]}
  BY <1>1
<1> HIDE DEF f, g, K
<1>7. CASE n \in {l[1], l[2]}
  <2>1. EntryOf(f, l) = old.balance[n] /\ EntryOf(g, l) = new.balance[n]
    BY <1>2, <1>3, <1>6, <1>7 DEF EntryOf
  <2>2. old.balance[n] \in Nat /\ new.balance[n] \in Nat
    BY <1>1, <1>7
  <2>3. new.balance[n] = old.balance[n] + Share(n, x, d)
    <3>1. CASE n = x
      BY <1>1, <3>1 DEF Share
    <3>2. CASE n # x
      BY <1>1, <1>7, <2>2, <3>2 DEF Share
    <3>3. QED
      BY <3>1, <3>2
  <2>4. /\ IsFiniteSet(SatsOf(g))
        /\ Worth(f) \in Nat /\ Worth(g) \in Nat
        /\ Worth(g) = Worth(f) - EntryOf(f, l) + EntryOf(g, l)
    BY <1>3, <1>4, <2>1, <2>2, WorthChange
  <2>5. Worth(g) = Worth(f) - old.balance[n] + new.balance[n]
    BY <2>1, <2>4
  <2>6. PICK b \in Nat, c \in Nat, w \in Nat : /\ b = old.balance[n]
                                               /\ c = new.balance[n] /\ w = Worth(f)
    BY <2>2, <2>4
  <2>7. Worth(g) = Worth(f) + Share(n, x, d)
    BY <1>5, <2>3, <2>5, <2>6
  <2>8. QED
    BY <1>5, <2>4, <2>7 DEF f, g
<1>8. CASE n \notin {l[1], l[2]}
  <2>1. EntryOf(f, l) = 0 /\ EntryOf(g, l) = 0
    BY <1>3, <1>6, <1>8 DEF EntryOf
  <2>2. /\ IsFiniteSet(SatsOf(g))
        /\ Worth(f) \in Nat /\ Worth(g) \in Nat
        /\ Worth(g) = Worth(f) - EntryOf(f, l) + EntryOf(g, l)
    BY <1>3, <1>4, <2>1, WorthChange
  <2>3. Share(n, x, d) = 0
    BY <1>1, <1>8 DEF Share
  <2>4. Worth(g) = Worth(f) + Share(n, x, d)
    BY <2>1, <2>2, <2>3
  <2>5. QED
    BY <1>5, <2>2, <2>4 DEF f, g
<1>9. QED
  BY <1>7, <1>8

(* What hop h stands for in the offers and the redemptions of n, if it is s.*)
OutEntry(n, h, s) ==
    IF Offerer(h) = n /\ s \in {"offered", "redeemed"} THEN Amount[h[1]] ELSE 0

InEntry(n, h, s) == IF Taker(h) = n /\ s = "redeemed" THEN Amount[h[1]] ELSE 0

LEMMA HopTablesMoved ==
    ASSUME Books, NEW h \in HopIds, NEW s \in Status, NEW n \in Nodes,
           hop' = [hop EXCEPT ![h] = s]
    PROVE  /\ IsFiniteSet(SatsOf(OutTable(n)')) /\ IsFiniteSet(SatsOf(InTable(n)'))
           /\ Worth(OutTable(n)) \in Nat /\ Worth(OutTable(n)') \in Nat
           /\ Worth(InTable(n)) \in Nat /\ Worth(InTable(n)') \in Nat
           /\ Worth(OutTable(n)') =
                 Worth(OutTable(n)) - OutEntry(n, h, hop[h]) + OutEntry(n, h, s)
           /\ Worth(InTable(n)') =
                 Worth(InTable(n)) - InEntry(n, h, hop[h]) + InEntry(n, h, s)
<1> DEFINE f == OutTable(n)
           g == OutTable(n)'
           v == InTable(n)
           w == InTable(n)'
<1>1. hop \in [HopIds -> Status] /\ Amount[h[1]] \in Nat
  BY HopEnds DEF Books, IInv, Basics
<1>2. hop'[h] = s /\ \A k \in HopIds : k # h => hop'[k] = hop[k]
  BY <1>1
<1>3. /\ DOMAIN g \ {h} = DOMAIN f \ {h} /\ \A k \in DOMAIN f \ {h} : g[k] = f[k]
      /\ DOMAIN w \ {h} = DOMAIN v \ {h} /\ \A k \in DOMAIN v \ {h} : w[k] = v[k]
  BY <1>2 DEF OutTable, InTable
<1>4. /\ EntryOf(f, h) = OutEntry(n, h, hop[h])
      /\ EntryOf(v, h) = InEntry(n, h, hop[h])
  BY DEF EntryOf, OutTable, InTable, OutEntry, InEntry
<1>5. EntryOf(g, h) = OutEntry(n, h, s) /\ EntryOf(w, h) = InEntry(n, h, s)
  BY <1>2 DEF EntryOf, OutTable, InTable, OutEntry, InEntry
<1>6. /\ OutEntry(n, h, hop[h]) \in Nat /\ OutEntry(n, h, s) \in Nat
      /\ InEntry(n, h, hop[h]) \in Nat /\ InEntry(n, h, s) \in Nat
  BY <1>1 DEF OutEntry, InEntry
<1>7. IsFiniteSet(SatsOf(f)) /\ IsFiniteSet(SatsOf(v))
  BY DEF Books, Wealth, WealthOf
<1> HIDE DEF f, g, v, w
<1>8. /\ IsFiniteSet(SatsOf(g)) /\ Worth(f) \in Nat /\ Worth(g) \in Nat
      /\ Worth(g) = Worth(f) - EntryOf(f, h) + EntryOf(g, h)
  BY <1>3, <1>4, <1>5, <1>6, <1>7, WorthChange
<1>9. /\ IsFiniteSet(SatsOf(w)) /\ Worth(v) \in Nat /\ Worth(w) \in Nat
      /\ Worth(w) = Worth(v) - EntryOf(v, h) + EntryOf(w, h)
  <2>1. DOMAIN w \ {h} = DOMAIN v \ {h} /\ \A k \in DOMAIN v \ {h} : w[k] = v[k]
    BY <1>3
  <2>2. EntryOf(v, h) \in Nat /\ EntryOf(w, h) \in Nat /\ IsFiniteSet(SatsOf(v))
    BY <1>4, <1>5, <1>6, <1>7
  <2>3. QED
    BY <2>1, <2>2, WorthChange
<1>10. QED
  BY <1>4, <1>5, <1>8, <1>9 DEF f, g, v, w

LEMMA WealthSum ==
    ASSUME NEW b \in Nat, NEW o \in Nat, NEW f \in Nat, NEW i \in Nat,
           b + o = f + i, NEW e \in Int, NEW eo \in Int, NEW eo2 \in Int,
           NEW ei \in Int, NEW ei2 \in Int, e - eo + eo2 = ei2 - ei,
           NEW b2, NEW o2, NEW i2,
           b2 = b + e, o2 = o - eo + eo2, i2 = i - ei + ei2
    PROVE  b2 + o2 = f + i2
OBVIOUS

LEMMA WealthStep ==
    ASSUME Books, NEW h \in HopIds, NEW x, NEW d, Moves(h, x, d),
           NEW s \in Status, hop' = [hop EXCEPT ![h] = s],
           \/ hop[h] = "none" /\ s = "offered" /\ x = Offerer(h) /\ d = -Amount[h[1]]
           \/ hop[h] = "offered" /\ s = "redeemed" /\ x = Taker(h) /\ d = Amount[h[1]]
           \/ hop[h] = "offered" /\ s = "refunded" /\ x = Offerer(h) /\ d = Amount[h[1]]
    PROVE  Wealth'
<1> SUFFICES ASSUME NEW n \in Nodes PROVE WealthOf(n)'
  BY DEF Wealth
<1> DEFINE e == Share(n, x, d)
           eo == OutEntry(n, h, hop[h])
           eo2 == OutEntry(n, h, s)
           ei == InEntry(n, h, hop[h])
           ei2 == InEntry(n, h, s)
<1>1. Amount[h[1]] \in Nat /\ Offerer(h) # Taker(h)
  BY HopEnds
<1>2. e - eo + eo2 = ei2 - ei
  <2> DEFINE A == Amount[h[1]]
  <2>1. A \in Nat
    BY <1>1
  <2> HIDE DEF A
  <2>2. CASE hop[h] = "none" /\ s = "offered" /\ x = Offerer(h) /\ d = -A
    BY <2>1, <2>2 DEF Share, OutEntry, InEntry, A
  <2>3. CASE hop[h] = "offered" /\ s = "redeemed" /\ x = Taker(h) /\ d = A
    BY <2>1, <2>3 DEF Share, OutEntry, InEntry, A
  <2>4. CASE hop[h] = "offered" /\ s = "refunded" /\ x = Offerer(h) /\ d = A
    BY <2>1, <2>4 DEF Share, OutEntry, InEntry, A
  <2>5. QED
    BY <2>2, <2>3, <2>4 DEF A
<1>3. eo \in Int /\ eo2 \in Int /\ ei \in Int /\ ei2 \in Int
  BY <1>1 DEF OutEntry, InEntry
<1> HIDE DEF e, eo, eo2, ei, ei2
<1>4. /\ IsFiniteSet(SatsOf(BalanceTable(n)'))
      /\ Worth(BalanceTable(n)) \in Nat /\ e \in Int
      /\ Worth(BalanceTable(n)') = Worth(BalanceTable(n)) + e
  BY BalanceMoved DEF e
<1>5. /\ IsFiniteSet(SatsOf(OutTable(n)')) /\ IsFiniteSet(SatsOf(InTable(n)'))
      /\ Worth(OutTable(n)) \in Nat /\ Worth(InTable(n)) \in Nat
      /\ Worth(OutTable(n)') = Worth(OutTable(n)) - eo + eo2
      /\ Worth(InTable(n)') = Worth(InTable(n)) - ei + ei2
  BY HopTablesMoved DEF eo, eo2, ei, ei2
<1>6. FundingTable(n)' = FundingTable(n)
  BY DEF Moves, FundingTable
<1>7. /\ IsFiniteSet(SatsOf(FundingTable(n))) /\ Worth(FundingTable(n)) \in Nat
      /\ Worth(BalanceTable(n)) + Worth(OutTable(n)) =
            Worth(FundingTable(n)) + Worth(InTable(n))
  BY FS_CardinalityType DEF Books, Wealth, WealthOf, Worth
<1>8. Worth(BalanceTable(n)') + Worth(OutTable(n)') =
         Worth(FundingTable(n)) + Worth(InTable(n)')
  BY <1>2, <1>3, <1>4, <1>5, <1>7, WealthSum
<1>9. QED
  BY <1>4, <1>5, <1>6, <1>7, <1>8 DEF WealthOf

(* A new channel is funded with what its opener then owns on it.           *)
LEMMA OpenedWealth ==
    ASSUME Books, NEW l \in Links \ DOMAIN channels, Open(l), NEW n \in Nodes
    PROVE  WealthOf(n)'
<1> DEFINE f == BalanceTable(n)
           g == BalanceTable(n)'
           v == FundingTable(n)
           w == FundingTable(n)'
           c == IF n = l[1] THEN Capacity ELSE 0
<1>1. /\ DOMAIN channels' = DOMAIN channels \cup {l}
      /\ channels'[l].balance =
            [p \in {l[1], l[2]} |-> IF p = l[1] THEN Capacity ELSE 0]
      /\ \A k \in DOMAIN channels : channels'[k] = channels[k]
      /\ UNCHANGED hop
  BY DEF Open, OpenChannel
<1>2. /\ Capacity \in Nat /\ l[1] # l[2] /\ l \notin DOMAIN channels
  BY NetworkAssumption
<1>3. /\ DOMAIN g \ {l} = DOMAIN f \ {l} /\ \A k \in DOMAIN f \ {l} : g[k] = f[k]
  BY <1>1 DEF BalanceTable
<1>4. DOMAIN w \ {l} = DOMAIN v \ {l} /\ \A k \in DOMAIN v \ {l} : w[k] = v[k]
  BY <1>1 DEF FundingTable
<1>5. EntryOf(f, l) = 0 /\ EntryOf(v, l) = 0
  BY <1>2 DEF EntryOf, BalanceTable, FundingTable
<1>6. EntryOf(w, l) = c
  BY <1>1 DEF EntryOf, FundingTable
<1>7. EntryOf(g, l) = c
  <2>1. CASE n \in {l[1], l[2]}
    <3>1. l \in DOMAIN g /\ g[l] = channels'[l].balance[n]
      BY <1>1, <2>1 DEF BalanceTable
    <3>2. channels'[l].balance[n] = c
      BY <1>1, <2>1
    <3>3. QED
      BY <3>1, <3>2 DEF EntryOf
  <2>2. CASE n \notin {l[1], l[2]}
    BY <2>2 DEF EntryOf, BalanceTable
  <2>3. QED
    BY <2>1, <2>2
<1>8. c \in Nat
  BY <1>2
<1>9. /\ IsFiniteSet(SatsOf(f)) /\ IsFiniteSet(SatsOf(v))
      /\ IsFiniteSet(SatsOf(OutTable(n))) /\ IsFiniteSet(SatsOf(InTable(n)))
      /\ Worth(f) + Worth(OutTable(n)) = Worth(v) + Worth(InTable(n))
  BY DEF Books, Wealth, WealthOf
<1>10. OutTable(n)' = OutTable(n) /\ InTable(n)' = InTable(n)
  BY <1>1 DEF OutTable, InTable
<1> HIDE DEF f, g, v, w, c
<1>11. /\ IsFiniteSet(SatsOf(g)) /\ Worth(f) \in Nat
       /\ Worth(g) = Worth(f) - EntryOf(f, l) + EntryOf(g, l)
  BY <1>3, <1>5, <1>7, <1>8, <1>9, WorthChange
<1>12. /\ IsFiniteSet(SatsOf(w)) /\ Worth(v) \in Nat
       /\ Worth(w) = Worth(v) - EntryOf(v, l) + EntryOf(w, l)
  BY <1>4, <1>5, <1>6, <1>8, <1>9, WorthChange
<1>13. Worth(OutTable(n)) \in Nat /\ Worth(InTable(n)) \in Nat
  BY <1>9, FS_CardinalityType DEF Worth
<1>14. Worth(g) = Worth(f) + c /\ Worth(w) = Worth(v) + c
  BY <1>5, <1>6, <1>7, <1>8, <1>11, <1>12
<1>15. Worth(g) + Worth(OutTable(n)) = Worth(w) + Worth(InTable(n))
  BY <1>8, <1>9, <1>11, <1>12, <1>13, <1>14
<1>16. QED
  BY <1>9, <1>10, <1>11, <1>12, <1>15 DEF WealthOf, f, g, v, w

LEMMA OpenedObject ==
    ASSUME NEW l \in Links
    PROVE  LET ch == OpenChannel(l[1], l[2], Capacity)
           IN ObjectOK(l, ch) /\ BalancedObject(l, ch) /\ ch.sequence_number = 0
<1> DEFINE ch == OpenChannel(l[1], l[2], Capacity)
<1>1. l[1] # l[2] /\ Capacity \in Nat
  BY NetworkAssumption
<1>2. /\ DOMAIN ch = Fields /\ ch.sender_alias = l[1] /\ ch.receiver_alias = l[2]
      /\ ch.balance = [p \in {l[1], l[2]} |-> IF p = l[1] THEN Capacity ELSE 0]
      /\ ch.sequence_number = 0 /\ ch.active_htlcs = [h \in {} |-> {}]
  BY DEF OpenChannel, Fields
<1> HIDE DEF ch
<1>3. Pending(ch) = {}
  BY <1>2 DEF Pending
<1>4. ch.balance \in [{l[1], l[2]} -> Nat]
  BY <1>1, <1>2
<1>5. ObjectOK(l, ch)
  BY <1>2, <1>3, <1>4 DEF ObjectOK
<1>6. ch.balance[l[1]] = Capacity /\ ch.balance[l[2]] = 0
  BY <1>1, <1>2
<1>7. \A x : LockedSats(ch, x) = {}
  BY <1>3 DEF LockedSats
<1>8. \A x : IsFiniteSet(LockedSats(ch, x)) /\ Locked(ch, x) = 0
  BY <1>7, FS_EmptySet DEF Locked
<1>9. BalancedObject(l, ch)
  BY <1>1, <1>6, <1>8 DEF BalancedObject
<1>10. QED
  BY <1>2, <1>5, <1>9 DEF ch

LEMMA OpenBooks ==
    ASSUME Books, NEW l \in Links \ DOMAIN channels, Open(l)
    PROVE  Books'
<1>1. /\ DOMAIN channels' = DOMAIN channels \cup {l}
      /\ channels'[l] = OpenChannel(l[1], l[2], Capacity)
      /\ \A k \in DOMAIN channels : channels'[k] = channels[k]
      /\ DOMAIN revocation_secrets' = DOMAIN revocation_secrets \cup {l, Reverse(l)}
      /\ revocation_secrets'[l] = {} /\ revocation_secrets'[Reverse(l)] = {}
      /\ \A k \in DOMAIN revocation_secrets :
            k # l /\ k # Reverse(l) => revocation_secrets'[k] = revocation_secrets[k]
      /\ UNCHANGED <<known_preimages, height, started, hop, redeemedAt>>
  BY DEF Open, Reverse
<1>2. /\ ObjectOK(l, channels'[l]) /\ BalancedObject(l, channels'[l])
      /\ channels'[l].sequence_number = 0
  BY <1>1, OpenedObject
<1>3. IInv' /\ Objects /\ Balanced /\ Secrets /\ Bounded
  BY OpenStep DEF Books
<1>4. Objects'
  BY <1>1, <1>2, <1>3 DEF Objects
<1>5. Balanced'
  BY <1>1, <1>2, <1>3 DEF Balanced
<1>6. Bounded'
  BY <1>1, <1>3 DEF Bounded
<1>7. Wealth'
  BY OpenedWealth DEF Wealth
<1>8. \A k : OffersOf(k)' = OffersOf(k)
  BY <1>1 DEF OffersOf
<1>9. ASSUME NEW k, k = l \/ k = Reverse(l)
      PROVE  SideOK(k, l)'
  <2>1. OffersOf(k) = {}
    <3>1. ASSUME NEW h \in OffersOf(k) PROVE FALSE
      <4>1. h \in HopIds /\ hop[h] # "none" /\ <<Offerer(h), Taker(h)>> = k
        BY DEF OffersOf
      <4>2. LinkOf(h) = Link(k[1], k[2])
        BY <4>1, HopEnds
      <4>3. Link(k[1], k[2]) = l
        <5>1. Reverse(l)[1] = l[2] /\ Reverse(l)[2] = l[1]
          BY DEF Reverse
        <5>2. Link(l[1], l[2]) = l /\ Link(l[2], l[1]) = l
          BY LinkEnds
        <5>3. QED
          BY <1>9, <5>1, <5>2
      <4>4. LinkOf(h) \in DOMAIN channels
        BY <1>3, <4>1 DEF Secrets
      <4>5. QED
        BY <4>2, <4>3, <4>4
    <3>2. QED
      BY <3>1
  <2>2. Matched({}, {}, 0)
    BY FS_EmptySet DEF Matched
  <2>3. k \in DOMAIN revocation_secrets' /\ revocation_secrets'[k] = {}
    BY <1>1, <1>9
  <2>4. QED
    BY <1>2, <1>8, <2>1, <2>2, <2>3 DEF SideOK
<1>10. ASSUME NEW j \in DOMAIN channels, NEW k, k # l, k # Reverse(l), SideOK(k, j)
       PROVE  SideOK(k, j)'
  BY <1>1, <1>8, <1>10 DEF SideOK
<1>11. \A j \in DOMAIN channels' : SideOK(j, j)' /\ SideOK(Reverse(j), j)'
  <2> SUFFICES ASSUME NEW j \in DOMAIN channels'
               PROVE  SideOK(j, j)' /\ SideOK(Reverse(j), j)'
    OBVIOUS
  <2>1. CASE j = l
    BY <1>9, <2>1
  <2>2. CASE j # l
    <3>1. j \in DOMAIN channels /\ SideOK(j, j) /\ SideOK(Reverse(j), j)
      BY <1>1, <1>3, <2>2 DEF Secrets
    <3>2. j \in Links
      BY <1>3, <3>1 DEF Objects
    <3>3. j # Reverse(l) /\ Reverse(j) # l /\ Reverse(j) # Reverse(l)
      BY <2>2, <3>2, SidesApart
    <3>4. QED
      BY <1>10, <2>2, <3>1, <3>3
  <2>3. QED
    BY <2>1, <2>2
<1>12. \A h \in HopIds : hop'[h] # "none" => LinkOf(h) \in DOMAIN channels'
  BY <1>1, <1>3 DEF Secrets
<1>13. \A k \in DOMAIN revocation_secrets' :
          k \in DOMAIN channels' \/ \E j \in DOMAIN channels' : k = Reverse(j)
  BY <1>1, <1>3 DEF Secrets
<1>14. Secrets'
  BY <1>11, <1>12, <1>13 DEF Secrets
<1>15. QED
  BY <1>3, <1>4, <1>5, <1>6, <1>7, <1>14 DEF Books

LEMMA InitBooks == Init => Books
<1> SUFFICES ASSUME Init PROVE Books
  OBVIOUS
<1>1. /\ DOMAIN channels = {} /\ DOMAIN revocation_secrets = {}
      /\ height = 0 /\ started = [p \in Payments |-> 0]
      /\ hop = [h \in HopIds |-> "none"] /\ redeemedAt = [h \in HopIds |-> 0]
  BY DEF Init
<1>2. IInv
  BY InitHolds
<1>3. Objects /\ Balanced
  BY <1>1 DEF Objects, Balanced
<1>4. Bounded
  <2>1. MaxHeight \in Nat
    BY NetworkAssumption
  <2>2. QED
    BY <1>1, <2>1 DEF Bounded
<1>5. Secrets
  BY <1>1 DEF Secrets
<1>6. ASSUME NEW f, DOMAIN f = {}
      PROVE  IsFiniteSet(SatsOf(f)) /\ Worth(f) = 0
  <2>1. SatsOf(f) = {}
    BY <1>6, SatsMember
  <2>2. QED
    BY <2>1, FS_EmptySet DEF Worth
<1>7. ASSUME NEW n \in Nodes PROVE WealthOf(n)
  <2>1. /\ DOMAIN BalanceTable(n) = {} /\ DOMAIN FundingTable(n) = {}
        /\ DOMAIN OutTable(n) = {} /\ DOMAIN InTable(n) = {}
    BY <1>1 DEF BalanceTable, FundingTable, OutTable, InTable
  <2>2. QED
    BY <1>6, <2>1 DEF WealthOf
<1>8. QED
  BY <1>2, <1>3, <1>4, <1>5, <1>7 DEF Books, Wealth

LEMMA OfferBooks ==
    ASSUME Books, IInv', Bounded', NEW p \in Payments, NEW i \in Hops(p), NEW t,
           RouteHtlcPayment(p, i, t), hop[<<p, i>>] = "none"
    PROVE  Books'
<1> DEFINE h == <<p, i>>
<1>1. h \in HopIds /\ h[1] = p
  BY HopIdsDef
<1>2. /\ Moves(h, Offerer(h), -Amount[p])
      /\ h \in Pending(channels'[LinkOf(h)])
      /\ h \notin Pending(channels[LinkOf(h)])
      /\ hop' = [hop EXCEPT ![h] = "offered"]
      /\ revocation_secrets' =
            [revocation_secrets EXCEPT ![<<Offerer(h), Taker(h)>>] =
                @ \cup {channels'[LinkOf(h)].sequence_number}]
  BY OfferMoves
<1>3. hop[h] = "none" /\ "offered" \in Status
  BY DEF Status
<1> HIDE DEF h
<1>4. Objects'
  BY <1>2, MovedObjects DEF Books
<1>5. OffersHop(h, Offerer(h), -Amount[p])
  BY <1>1, <1>2 DEF OffersHop
<1>6. Balanced'
  BY <1>1, <1>2, <1>5, BalancedStep
<1>7. Secrets'
  BY <1>1, <1>2, <1>3, SecretsOffer
<1>8. Wealth'
  BY <1>1, <1>2, <1>3, WealthStep
<1>9. QED
  BY <1>4, <1>6, <1>7, <1>8 DEF Books

LEMMA ResolveBooks ==
    ASSUME Books, IInv', Bounded', NEW p \in Payments, NEW i \in Hops(p), NEW n,
           NEW s, LinkOf(<<p, i>>) \in DOMAIN channels,
           <<p, i>> \in Pending(channels[LinkOf(<<p, i>>)]),
           channels' = [channels EXCEPT ![LinkOf(<<p, i>>)] =
                           Resolve(channels[LinkOf(<<p, i>>)], <<p, i>>, n)],
           \/ s = "redeemed" /\ n = Taker(<<p, i>>)
           \/ s = "refunded" /\ n = Offerer(<<p, i>>),
           hop[<<p, i>>] = "offered", hop' = [hop EXCEPT ![<<p, i>>] = s],
           UNCHANGED revocation_secrets
    PROVE  Books'
<1> DEFINE h == <<p, i>>
<1>1. h \in HopIds /\ h[1] = p /\ s \in Status
  BY HopIdsDef DEF Status
<1>2. Moves(h, n, Amount[p]) /\ h \notin Pending(channels'[LinkOf(h)])
  BY ResolveMoves
<1>3. /\ hop[h] = "offered" /\ hop' = [hop EXCEPT ![h] = s]
      /\ h \in Pending(channels[LinkOf(h)])
      /\ \/ s = "redeemed" /\ n = Taker(h)
         \/ s = "refunded" /\ n = Offerer(h)
  OBVIOUS
<1> HIDE DEF h
<1>4. Objects'
  BY <1>2, MovedObjects DEF Books
<1>5. ResolvesHop(h, n, Amount[p])
  BY <1>1, <1>2, <1>3 DEF ResolvesHop
<1>6. Balanced'
  BY <1>1, <1>2, <1>5, BalancedStep
<1>7. Secrets'
  <2>1. /\ DOMAIN channels' = DOMAIN channels
        /\ \A l \in DOMAIN channels : channels'[l].sequence_number \in
              {channels[l].sequence_number, channels[l].sequence_number + 1}
    BY <1>2 DEF Moves
  <2>2. hop \in [HopIds -> Status]
    BY DEF Books, IInv, Basics
  <2>3. \A g \in HopIds : hop'[g] # "none" <=> hop[g] # "none"
    BY <1>1, <1>3, <2>2
  <2>4. QED
    BY <1>4, <2>1, <2>3, SecretsKept
<1>8. Wealth'
  <2>1. Moves(h, n, Amount[h[1]])
    BY <1>1, <1>2
  <2>2. CASE s = "redeemed" /\ n = Taker(h)
    BY <1>1, <1>3, <2>1, <2>2, WealthStep
  <2>3. CASE s = "refunded" /\ n = Offerer(h)
    BY <1>1, <1>3, <2>1, <2>3, WealthStep
  <2>4. QED
    BY <1>3, <2>2, <2>3
<1>9. QED
  BY <1>4, <1>6, <1>7, <1>8 DEF Books

LEMMA StartBooks ==
    ASSUME Books, NEW p \in Payments, StartPayment(p)
    PROVE  Books'
<1>1. IInv'
  BY StartStep DEF Books
<1>2. /\ RouteHtlcPayment(p, 1, height + Delta[1]) /\ hop[<<p, 1>>] = "none"
      /\ started' = [started EXCEPT ![p] = height]
      /\ UNCHANGED <<height, redeemedAt>>
  BY DEF StartPayment
<1>3. 1 \in Hops(p)
  BY NetworkAssumption DEF Hops
<1>4. Bounded'
  <2>1. started \in [Payments -> Nat] /\ Bounded
    BY DEF Books, IInv, Basics
  <2>2. QED
    BY <1>2, <2>1 DEF Bounded
<1>5. QED
  BY <1>1, <1>2, <1>3, <1>4, OfferBooks

LEMMA ForwardBooks ==
    ASSUME Books, NEW p \in Payments, NEW i \in Hops(p) \ {1}, ForwardPayment(p, i)
    PROVE  Books'
<1>1. IInv'
  BY ForwardStep DEF Books
<1>2. /\ RouteHtlcPayment(p, i, Locktime(p, i)) /\ hop[<<p, i>>] = "none"
      /\ UNCHANGED <<height, started, redeemedAt>>
  BY DEF ForwardPayment
<1>3. Bounded'
  BY <1>2 DEF Books, Bounded
<1>4. QED
  BY <1>1, <1>2, <1>3, OfferBooks

(* The offerer of a pending HTLC is one end of its channel, the taker the  *)
(* other.                                                                  *)
LEMMA PendingEnds ==
    ASSUME Books, NEW p \in Payments, NEW i \in Hops(p),
           LinkOf(<<p, i>>) \in DOMAIN channels,
           <<p, i>> \in Pending(channels[LinkOf(<<p, i>>)])
    PROVE  LET ch == channels[LinkOf(<<p, i>>)]
           IN /\ ch.active_htlcs[<<p, i>>].offerer_alias = Offerer(<<p, i>>)
              /\ Counterparty(ch, Offerer(<<p, i>>)) = Taker(<<p, i>>)
<1> DEFINE h == <<p, i>>
           l == LinkOf(h)
           ch == channels[l]
<1>1. ObjectOK(l, ch) /\ h \in Pending(ch) /\ l \in Links
  BY DEF Books, Objects
<1>2. /\ l \in {<<Offerer(h), Taker(h)>>, <<Taker(h), Offerer(h)>>}
      /\ Offerer(h) # Taker(h)
  BY HopIdsDef, HopEnds
<1> HIDE DEF h, l, ch
<1>3. /\ ch.active_htlcs[h].offerer_alias = Offerer(h)
      /\ ch.sender_alias = l[1] /\ ch.receiver_alias = l[2]
  BY <1>1 DEF ObjectOK
<1>4. Counterparty(ch, Offerer(h)) = Taker(h)
  BY <1>2, <1>3 DEF Counterparty
<1>5. QED
  BY <1>3, <1>4 DEF h, l, ch

LEMMA FulfillBooks ==
    ASSUME Books, NEW p \in Payments, NEW i \in Hops(p), Fulfill(p, i)
    PROVE  Books'
<1> DEFINE h == <<p, i>>
           ch == channels[LinkOf(h)]
<1>0. HopLink(p, i) = LinkOf(h)
  BY DEF LinkOf
<1>1. /\ IInv' /\ hop[<<p, i>>] = "offered"
      /\ hop' = [hop EXCEPT ![<<p, i>>] = "redeemed"]
  BY FulfillStep DEF Books
<1>2. /\ LinkOf(h) \in DOMAIN channels /\ h \in Pending(ch)
      /\ redeemedAt' = [redeemedAt EXCEPT ![h] = height]
      /\ UNCHANGED <<revocation_secrets, height, started>>
  BY <1>0 DEF Fulfill, HasChannelWith, HopLink, CanRedeem
<1>3. /\ ch.active_htlcs[h].offerer_alias = Offerer(h)
      /\ Counterparty(ch, Offerer(h)) = Taker(h)
  BY <1>2, PendingEnds
<1>4. channels' = [channels EXCEPT ![LinkOf(h)] = Resolve(ch, h, Taker(h))]
  BY <1>0, <1>3 DEF Fulfill, RedeemHtlc
<1>5. Bounded'
  <2>1. redeemedAt \in [HopIds -> Nat] /\ Bounded
    BY DEF Books, IInv, Basics
  <2>2. QED
    BY <1>2, <2>1 DEF Bounded
<1>6. QED
  BY <1>1, <1>2, <1>4, <1>5, ResolveBooks

LEMMA RefundBooks ==
    ASSUME Books, NEW p \in Payments, NEW i \in Hops(p), RefundHop(p, i)
    PROVE  Books'
<1> DEFINE h == <<p, i>>
           ch == channels[LinkOf(h)]
<1>0. HopLink(p, i) = LinkOf(h)
  BY DEF LinkOf
<1>1. /\ LinkOf(h) \in DOMAIN channels /\ h \in Pending(ch)
      /\ hop' = [hop EXCEPT ![h] = "refunded"]
      /\ UNCHANGED <<revocation_secrets, height, started, redeemedAt>>
  BY <1>0 DEF RefundHop, HasChannelWith, HopLink, CanRefund
<1>2. IInv' /\ hop[h] = "offered"
  <2>1. IInv'
    BY RefundStep DEF Books
  <2>2. hop[h] = "offered"
    BY <1>0, <1>1 DEF Books, IInv, HeldIsOffered, HeldIn
  <2>3. QED
    BY <2>1, <2>2
<1>3. ch.active_htlcs[h].offerer_alias = Offerer(h)
  BY <1>1, PendingEnds
<1>4. channels' = [channels EXCEPT ![LinkOf(h)] = Resolve(ch, h, Offerer(h))]
  BY <1>0, <1>3 DEF RefundHop, RefundHtlc
<1>5. Bounded'
  BY <1>1 DEF Books, Bounded
<1>6. QED
  BY <1>1, <1>2, <1>4, <1>5, ResolveBooks

(* A step that touches neither a channel, a secret nor a hop.              *)
LEMMA QuietBooks ==
    ASSUME Books, IInv', Bounded', UNCHANGED <<channels, revocation_secrets, hop>>
    PROVE  Books'
<1>1. Objects' /\ Balanced'
  BY DEF Books, Objects, Balanced
<1>2. \A k : OffersOf(k)' = OffersOf(k)
  BY DEF OffersOf
<1>3. Secrets'
  BY <1>2 DEF Books, Secrets, SideOK
<1>4. \A n : /\ BalanceTable(n)' = BalanceTable(n) /\ OutTable(n)' = OutTable(n)
             /\ FundingTable(n)' = FundingTable(n) /\ InTable(n)' = InTable(n)
  BY DEF BalanceTable, OutTable, FundingTable, InTable
<1>5. Wealth'
  BY <1>4 DEF Books, Wealth, WealthOf
<1>6. QED
  BY <1>1, <1>3, <1>5 DEF Books

LEMMA NextBooks == Books /\ [Next]_vars => Books'
<1> SUFFICES ASSUME Books, [Next]_vars PROVE Books'
  OBVIOUS
<1>0. IInv'
  BY NextHolds DEF Books
<1>1. CASE \E l \in Links \ DOMAIN channels : Open(l)
  BY <1>1, OpenBooks
<1>2. CASE \E p \in Payments : CreateInvoice(p)
  <2>1. UNCHANGED <<channels, revocation_secrets, height, started, hop, redeemedAt>>
    BY <1>2 DEF CreateInvoice
  <2>2. Bounded'
    BY <2>1 DEF Books, Bounded
  <2>3. QED
    BY <1>0, <2>1, <2>2, QuietBooks
<1>3. CASE \E p \in Payments : StartPayment(p)
  BY <1>3, StartBooks
<1>4. CASE \E p \in Payments : \E i \in Hops(p) \ {1} : ForwardPayment(p, i)
  BY <1>4, ForwardBooks
<1>5. CASE \E p \in Payments : \E i \in Hops(p) : Fulfill(p, i)
  BY <1>5, FulfillBooks
<1>6. CASE \E p \in Payments : \E i \in Hops(p) : RefundHop(p, i)
  BY <1>6, RefundBooks
<1>7. CASE NewBlock
  <2>1. /\ height < MaxHeight /\ height' = height + 1
        /\ UNCHANGED <<channels, revocation_secrets, started, hop, redeemedAt>>
    BY <1>7 DEF NewBlock
  <2>2. height \in Nat /\ MaxHeight \in Nat
    BY NetworkAssumption DEF Books, IInv, Basics
  <2>3. Bounded'
    BY <2>1, <2>2 DEF Books, Bounded
  <2>4. QED
    BY <1>0, <2>1, <2>3, QuietBooks
<1>8. CASE UNCHANGED vars
  <2>1. UNCHANGED <<channels, revocation_secrets, height, started, hop, redeemedAt>>
    BY <1>8 DEF vars
  <2>2. Bounded'
    BY <2>1 DEF Books, Bounded
  <2>3. QED
    BY <1>0, <2>1, <2>2, QuietBooks
<1>9. QED
  BY <1>1, <1>2, <1>3, <1>4, <1>5, <1>6, <1>7, <1>8 DEF Next

LEMMA BooksHold == Spec => []Books
<1>1. Init => Books
  BY InitBooks
<1>2. Books /\ [Next]_vars => Books'
  BY NextBooks
<1>3. QED
  BY <1>1, <1>2, PTL DEF Spec
-----------------------------------------------------------------------------
(***************************************************************************)
(* Every state is a network of nodes that share Channel objects: the object*)
(* of a link names its two ends, holds non-negative balances and only the  *)
(* HTLCs of hops of some payment.                                          *)
(***************************************************************************)
THEOREM NetworkTypeCorrect == Spec => []TypeOK
<1>1. Books => TypeOK
  <2> SUFFICES ASSUME Books PROVE TypeOK
    OBVIOUS
  <2>1. /\ Objects /\ Bounded
        /\ known_preimages \in [Nodes -> SUBSET Payments]
        /\ height \in Nat /\ started \in [Payments -> Nat]
        /\ hop \in [HopIds -> Status] /\ redeemedAt \in [HopIds -> Nat]
    BY DEF Books, IInv, Basics
  <2>2. /\ DOMAIN channels \subseteq Links
        /\ \A l \in DOMAIN channels :
              /\ channels[l].balance \in [{l[1], l[2]} -> Nat]
              /\ Pending(channels[l]) \subseteq HopIds
    BY <2>1 DEF Objects, ObjectOK
  <2>3. MaxHeight \in Nat
    BY NetworkAssumption
  <2>4. height \in 0..MaxHeight
    BY <2>1, <2>3 DEF Bounded
  <2>5. started \in [Payments -> 0..MaxHeight]
    <3>1. ASSUME NEW p \in Payments PROVE started[p] \in 0..MaxHeight
      BY <2>1, <2>3 DEF Bounded
    <3>2. QED
      BY <2>1, <3>1
  <2>6. redeemedAt \in [HopIds -> 0..MaxHeight]
    <3>1. ASSUME NEW h \in HopIds PROVE redeemedAt[h] \in 0..MaxHeight
      BY <2>1, <2>3 DEF Bounded
    <3>2. QED
      BY <2>1, <3>1
  <2>7. QED
    BY <2>1, <2>2, <2>4, <2>5, <2>6 DEF TypeOK, Status
<1>2. QED
  BY <1>1, BooksHold, PTL

(***************************************************************************)
(* No satoshi appears or disappears on any channel, for any number of      *)
(* payments that share it in both directions: what an HTLC takes off the   *)
(* balance of its offerer is locked until exactly one side gets it.        *)
(***************************************************************************)
THEOREM NetworkChannelsConserved == Spec => []ChannelsConserved
<1>1. Books => ChannelsConserved
  BY DEF Books, Balanced, BalancedObject, ChannelsConserved
<1>2. QED
  BY <1>1, BooksHold, PTL

(***************************************************************************)
(* Each HTLC a node offered has a revocation secret of its own, whatever   *)
(* the two sides of the channel did in between: the commitment number that *)
(* keys the secret was used by no earlier offer.                           *)
(***************************************************************************)
THEOREM NetworkSecretPerOffer == Spec => []SecretPerOffer
<1>1. Books => SecretPerOffer
  <2> SUFFICES ASSUME Books, NEW k \in DOMAIN revocation_secrets
               PROVE  Cardinality(revocation_secrets[k]) = Cardinality(OffersOf(k))
    BY DEF SecretPerOffer, OffersOf, Offerer, Taker
  <2>1. \E l \in DOMAIN channels : SideOK(k, l)
    BY DEF Books, Secrets
  <2>2. QED
    BY <2>1 DEF SideOK, Matched
<1>2. QED
  BY <1>1, BooksHold, PTL
-----------------------------------------------------------------------------
(***************************************************************************)
(* The wealth of a node that has nothing in flight. Its offers are those it*)
(* made as payer and those it made as relay, its redemptions those as payee*)
(* and those as relay, and the two relay parts match hop by hop.           *)
(***************************************************************************)
Settled(n) ==
    /\ \A h \in HopIds : hop[h] = "offered" => n \notin {Offerer(h), Taker(h)}
    /\ \A p \in Payments : \A i \in Hops(p) \ {1} : Route[p][i] = n =>
          (hop[<<p, i>>] = "redeemed" <=> hop[<<p, i - 1>>] = "redeemed")

PaidTable(n) ==
    [p \in {q \in Payments : Route[q][1] = n /\ hop[<<q, 1>>] = "redeemed"} |->
        Amount[p]]

ReceivedTable(n) ==
    [p \in {q \in Payments : Payee(q) = n
                             /\ hop[<<q, Len(Route[q]) - 1>>] = "redeemed"} |->
        Amount[p]]

OutPart(n, H) == [h \in DOMAIN OutTable(n) \cap H |-> Amount[h[1]]]

InPart(n, H) == [h \in DOMAIN InTable(n) \cap H |-> Amount[h[1]]]

FirstHops == {h \in HopIds : h[2] = 1}

LastHops == {h \in HopIds : h[2] = Len(Route[h[1]]) - 1}

LEMMA TotalIsWorth ==
    ASSUME NEW f
    PROVE  Total({<<k, f[k]>> : k \in DOMAIN f}) = Worth(f)
<1> DEFINE S == {<<k, f[k]>> : k \in DOMAIN f}
           T == UNION {{x[1]} \X (1..x[2]) : x \in S}
<1>1. ASSUME NEW s
      PROVE  s \in T <=> s \in SatsOf(f)
  <2>1. s \in T <=> \E x \in S : s \in {x[1]} \X (1..x[2])
    OBVIOUS
  <2>2. (\E x \in S : s \in {x[1]} \X (1..x[2])) <=>
           \E k \in DOMAIN f : s \in {k} \X (1..f[k])
    <3>1. \A k \in DOMAIN f : <<k, f[k]>> \in S
      OBVIOUS
    <3>2. \A x \in S : \E k \in DOMAIN f : x[1] = k /\ x[2] = f[k]
      OBVIOUS
    <3>3. \A k : <<k, f[k]>>[1] = k /\ <<k, f[k]>>[2] = f[k]
      OBVIOUS
    <3> HIDE DEF S
    <3>4. QED
      BY <3>1, <3>2, <3>3
  <2>3. s \in SatsOf(f) <=> \E k \in DOMAIN f : s \in {k} \X (1..f[k])
    BY DEF SatsOf, Sats
  <2>4. QED
    BY <2>1, <2>2, <2>3
<1>2. T = SatsOf(f)
  BY <1>1
<1>3. QED
  BY <1>2 DEF Total, Worth

LEMMA WealthTables ==
    ASSUME NEW n
    PROVE  /\ Owned(n) = Worth(BalanceTable(n)) /\ Funded(n) = Worth(FundingTable(n))
           /\ Paid(n) = Worth(PaidTable(n)) /\ Received(n) = Worth(ReceivedTable(n))
<1>1. Owned(n) = Worth(BalanceTable(n))
  <2> DEFINE f == BalanceTable(n)
  <2>1. {<<l, channels[l].balance[n]>> : l \in {k \in DOMAIN channels : n \in {k[1], k[2]}}}
           = {<<k, f[k]>> : k \in DOMAIN f}
    BY DEF BalanceTable
  <2>2. QED
    BY <2>1, TotalIsWorth DEF Owned
<1>2. Funded(n) = Worth(FundingTable(n))
  <2> DEFINE f == FundingTable(n)
  <2>1. {<<l, Capacity>> : l \in {k \in DOMAIN channels : k[1] = n}}
           = {<<k, f[k]>> : k \in DOMAIN f}
    BY DEF FundingTable
  <2>2. QED
    BY <2>1, TotalIsWorth DEF Funded
<1>3. Paid(n) = Worth(PaidTable(n))
  <2> DEFINE f == PaidTable(n)
             D == {q \in Payments : Route[q][1] = n /\ hop[<<q, 1>>] = "redeemed"}
  <2>1. {<<p, Amount[p]>> : p \in D} = {<<k, f[k]>> : k \in DOMAIN f}
    BY DEF PaidTable
  <2>2. QED
    BY <2>1, TotalIsWorth DEF Paid
<1>4. Received(n) = Worth(ReceivedTable(n))
  <2> DEFINE f == ReceivedTable(n)
             D == {q \in Payments : Payee(q) = n
                                    /\ hop[<<q, Len(Route[q]) - 1>>] = "redeemed"}
  <2>1. {<<p, Amount[p]>> : p \in D} = {<<k, f[k]>> : k \in DOMAIN f}
    BY DEF ReceivedTable
  <2>2. QED
    BY <2>1, TotalIsWorth DEF Received
<1>5. QED
  BY <1>1, <1>2, <1>3, <1>4

(* Each half of the hops of n: what is split off is worth the rest.        *)
LEMMA TablesSplit ==
    ASSUME Books, NEW n \in Nodes
    PROVE  /\ IsFiniteSet(SatsOf(OutPart(n, FirstHops)))
           /\ IsFiniteSet(SatsOf(OutPart(n, HopIds \ FirstHops)))
           /\ IsFiniteSet(SatsOf(InPart(n, LastHops)))
           /\ Worth(OutPart(n, FirstHops)) \in Nat
           /\ Worth(OutPart(n, HopIds \ FirstHops)) \in Nat
           /\ Worth(InPart(n, LastHops)) \in Nat
           /\ Worth(InPart(n, HopIds \ LastHops)) \in Nat
           /\ Worth(OutTable(n)) = Worth(OutPart(n, FirstHops))
                                      + Worth(OutPart(n, HopIds \ FirstHops))
           /\ Worth(InTable(n)) = Worth(InPart(n, LastHops))
                                     + Worth(InPart(n, HopIds \ LastHops))
<1>1. IsFiniteSet(SatsOf(OutTable(n))) /\ IsFiniteSet(SatsOf(InTable(n)))
  BY DEF Books, Wealth, WealthOf
<1>2. /\ DOMAIN OutTable(n) \subseteq HopIds /\ DOMAIN InTable(n) \subseteq HopIds
      /\ \A h \in DOMAIN OutTable(n) : OutTable(n)[h] = Amount[h[1]]
      /\ \A h \in DOMAIN InTable(n) : InTable(n)[h] = Amount[h[1]]
  BY DEF OutTable, InTable
<1>3. ASSUME NEW H
      PROVE  /\ DOMAIN OutPart(n, H) = DOMAIN OutTable(n) \cap H
             /\ DOMAIN InPart(n, H) = DOMAIN InTable(n) \cap H
             /\ \A h \in DOMAIN OutPart(n, H) : OutPart(n, H)[h] = Amount[h[1]]
             /\ \A h \in DOMAIN InPart(n, H) : InPart(n, H)[h] = Amount[h[1]]
  BY DEF OutPart, InPart
<1> DEFINE f == OutTable(n)
           f1 == OutPart(n, FirstHops)
           f2 == OutPart(n, HopIds \ FirstHops)
           g == InTable(n)
           g1 == InPart(n, LastHops)
           g2 == InPart(n, HopIds \ LastHops)
<1>4. /\ DOMAIN f1 = DOMAIN f \cap FirstHops
      /\ DOMAIN f2 = DOMAIN f \cap (HopIds \ FirstHops)
      /\ DOMAIN f \subseteq HopIds
      /\ \A h \in DOMAIN f : f[h] = Amount[h[1]]
      /\ \A h \in DOMAIN f1 : f1[h] = Amount[h[1]]
      /\ \A h \in DOMAIN f2 : f2[h] = Amount[h[1]]
      /\ IsFiniteSet(SatsOf(f))
  BY <1>1, <1>2, <1>3
<1>5. /\ DOMAIN g1 = DOMAIN g \cap LastHops
      /\ DOMAIN g2 = DOMAIN g \cap (HopIds \ LastHops)
      /\ DOMAIN g \subseteq HopIds
      /\ \A h \in DOMAIN g : g[h] = Amount[h[1]]
      /\ \A h \in DOMAIN g1 : g1[h] = Amount[h[1]]
      /\ \A h \in DOMAIN g2 : g2[h] = Amount[h[1]]
      /\ IsFiniteSet(SatsOf(g))
  BY <1>1, <1>2, <1>3
<1> HIDE DEF f, f1, f2, g, g1, g2
<1>6. SplitInto(f, f1, f2)
  BY <1>4 DEF SplitInto
<1>7. SplitInto(g, g1, g2)
  BY <1>5 DEF SplitInto
<1>8. /\ IsFiniteSet(SatsOf(f1)) /\ IsFiniteSet(SatsOf(f2))
      /\ Worth(f1) \in Nat /\ Worth(f2) \in Nat /\ Worth(f) = Worth(f1) + Worth(f2)
  <2>1. IsFiniteSet(SatsOf(f))
    BY <1>4
  <2>2. QED
    BY <1>6, <2>1, WorthSplit
<1>9. /\ IsFiniteSet(SatsOf(g1))
      /\ Worth(g1) \in Nat /\ Worth(g2) \in Nat /\ Worth(g) = Worth(g1) + Worth(g2)
  <2>1. IsFiniteSet(SatsOf(g))
    BY <1>5
  <2>2. QED
    BY <1>7, <2>1, WorthSplit
<1>10. QED
  BY <1>8, <1>9 DEF f, f1, f2, g, g1, g2

(* What a settled node paid is what it offered on first hops.              *)
LEMMA FirstHopsPaid ==
    ASSUME Books, NEW n \in Nodes, Settled(n)
    PROVE  Worth(PaidTable(n)) = Worth(OutPart(n, FirstHops))
<1> DEFINE f == OutPart(n, FirstHops)
           g == PaidTable(n)
           b == [h \in DOMAIN f |-> h[1]]
<1>1. ASSUME NEW h \in DOMAIN f
      PROVE  /\ h = <<h[1], 1>> /\ h[1] \in Payments /\ Route[h[1]][1] = n
             /\ hop[h] = "redeemed" /\ f[h] = Amount[h[1]]
  <2>1. /\ h \in HopIds /\ h[2] = 1 /\ Offerer(h) = n /\ f[h] = Amount[h[1]]
        /\ hop[h] \in {"offered", "redeemed"}
    BY DEF OutPart, OutTable, FirstHops
  <2>2. h[1] \in Payments /\ h = <<h[1], h[2]>>
    BY <2>1, HopEnds
  <2>3. hop[h] = "redeemed"
    BY <2>1 DEF Settled
  <2>4. QED
    BY <2>1, <2>2, <2>3 DEF Offerer
<1>2. ASSUME NEW p \in DOMAIN g
      PROVE  <<p, 1>> \in DOMAIN f
  <2>1. p \in Payments /\ Route[p][1] = n /\ hop[<<p, 1>>] = "redeemed"
    BY DEF PaidTable
  <2>2. 1 \in Hops(p)
    BY <2>1, NetworkAssumption DEF Hops
  <2>3. <<p, 1>> \in HopIds
    BY <2>1, <2>2, HopIdsDef
  <2>4. QED
    BY <2>1, <2>3 DEF OutPart, OutTable, FirstHops, Offerer
<1>3. ASSUME NEW p \in Payments, Route[p][1] = n, hop[<<p, 1>>] = "redeemed"
      PROVE  p \in DOMAIN g /\ g[p] = Amount[p]
  BY <1>3 DEF PaidTable
<1>4. IsFiniteSet(SatsOf(f))
  BY TablesSplit
<1> HIDE DEF f, g
<1>5. \A k \in DOMAIN f : b[k] \in DOMAIN g /\ g[b[k]] = f[k]
  BY <1>1, <1>3
<1>6. \A j, k \in DOMAIN f : b[j] = b[k] => j = k
  <2> SUFFICES ASSUME NEW j \in DOMAIN f, NEW k \in DOMAIN f, b[j] = b[k]
               PROVE  j = k
    OBVIOUS
  <2>1. j[1] = k[1] /\ j = <<j[1], 1>> /\ k = <<k[1], 1>>
    BY <1>1
  <2>2. QED
    BY <2>1
<1>7. \A j \in DOMAIN g : \E k \in DOMAIN f : b[k] = j
  BY <1>2
<1> HIDE DEF b
<1>8. Worth(g) = Worth(f)
  BY <1>4, <1>5, <1>6, <1>7, WorthRenamed
<1>9. QED
  BY <1>8 DEF f, g

(* What it received is what it redeemed on last hops.                      *)
LEMMA LastHopsReceived ==
    ASSUME Books, NEW n \in Nodes
    PROVE  Worth(ReceivedTable(n)) = Worth(InPart(n, LastHops))
<1> DEFINE f == InPart(n, LastHops)
           g == ReceivedTable(n)
           b == [h \in DOMAIN f |-> h[1]]
           end(p) == Len(Route[p]) - 1
<1>0. ASSUME NEW p \in Payments
      PROVE  /\ end(p) \in Hops(p) /\ end(p) + 1 = Len(Route[p])
  <2>1. Len(Route[p]) \in Nat /\ Len(Route[p]) >= 2
    BY NetworkAssumption
  <2>2. QED
    BY <2>1 DEF Hops
<1>1. ASSUME NEW h \in DOMAIN f
      PROVE  /\ h = <<h[1], end(h[1])>> /\ h[1] \in Payments /\ Payee(h[1]) = n
             /\ hop[h] = "redeemed" /\ f[h] = Amount[h[1]]
  <2>1. /\ h \in HopIds /\ h[2] = end(h[1]) /\ Taker(h) = n /\ f[h] = Amount[h[1]]
        /\ hop[h] = "redeemed"
    BY DEF InPart, InTable, LastHops
  <2>2. h[1] \in Payments /\ h = <<h[1], h[2]>>
    BY <2>1, HopEnds
  <2>3. h[2] + 1 = Len(Route[h[1]])
    BY <1>0, <2>1, <2>2
  <2>4. QED
    BY <2>1, <2>2, <2>3 DEF Taker, Payee
<1>2. ASSUME NEW p \in DOMAIN g
      PROVE  <<p, end(p)>> \in DOMAIN f
  <2>1. p \in Payments /\ Payee(p) = n /\ hop[<<p, end(p)>>] = "redeemed"
    BY DEF ReceivedTable
  <2>2. <<p, end(p)>> \in HopIds
    BY <1>0, <2>1, HopIdsDef
  <2>3. Taker(<<p, end(p)>>) = n
    BY <1>0, <2>1 DEF Taker, Payee
  <2>4. QED
    BY <2>1, <2>2, <2>3 DEF InPart, InTable, LastHops
<1>3. ASSUME NEW p \in Payments, Payee(p) = n, hop[<<p, end(p)>>] = "redeemed"
      PROVE  p \in DOMAIN g /\ g[p] = Amount[p]
  BY <1>3 DEF ReceivedTable
<1>4. IsFiniteSet(SatsOf(f))
  BY TablesSplit
<1> HIDE DEF f, g, end
<1>5. \A k \in DOMAIN f : b[k] \in DOMAIN g /\ g[b[k]] = f[k]
  BY <1>1, <1>3
<1>6. \A j, k \in DOMAIN f : b[j] = b[k] => j = k
  <2> SUFFICES ASSUME NEW j \in DOMAIN f, NEW k \in DOMAIN f, b[j] = b[k]
               PROVE  j = k
    OBVIOUS
  <2>1. j[1] = k[1] /\ j = <<j[1], end(j[1])>> /\ k = <<k[1], end(k[1])>>
    BY <1>1
  <2>2. QED
    BY <2>1
<1>7. \A j \in DOMAIN g : \E k \in DOMAIN f : b[k] = j
  BY <1>2
<1> HIDE DEF b
<1>8. Worth(g) = Worth(f)
  BY <1>4, <1>5, <1>6, <1>7, WorthRenamed
<1>9. QED
  BY <1>8 DEF f, g

(* What it redeemed as a relay is what it offered as one, hop by hop.      *)
LEMMA RelayedHops ==
    ASSUME Books, NEW n \in Nodes, Settled(n)
    PROVE  Worth(InPart(n, HopIds \ LastHops)) = Worth(OutPart(n, HopIds \ FirstHops))
<1> DEFINE f == OutPart(n, HopIds \ FirstHops)
           g == InPart(n, HopIds \ LastHops)
           b == [h \in DOMAIN f |-> <<h[1], h[2] - 1>>]
<1>0. ASSUME NEW p \in Payments, NEW i \in Hops(p)
      PROVE  /\ i \in Nat /\ i - 1 + 1 = i /\ i + 1 - 1 = i
             /\ i # 1 => i - 1 \in Hops(p) /\ i - 1 # Len(Route[p]) - 1
             /\ i # Len(Route[p]) - 1 => i + 1 \in Hops(p) \ {1}
  <2>1. Len(Route[p]) \in Nat
    BY NetworkAssumption
  <2>2. QED
    BY <2>1 DEF Hops
<1>1. ASSUME NEW h \in DOMAIN f
      PROVE  /\ h[1] \in Payments /\ h[2] \in Hops(h[1]) \ {1}
             /\ h = <<h[1], h[2]>>
             /\ Route[h[1]][h[2]] = n
             /\ hop[h] = "redeemed" /\ f[h] = Amount[h[1]]
  <2>1. /\ h \in HopIds /\ h[2] # 1 /\ Offerer(h) = n /\ f[h] = Amount[h[1]]
        /\ hop[h] \in {"offered", "redeemed"}
    BY DEF OutPart, OutTable, FirstHops
  <2>2. h[1] \in Payments /\ h[2] \in Hops(h[1]) /\ h = <<h[1], h[2]>>
    BY <2>1, HopEnds
  <2>3. hop[h] = "redeemed"
    BY <2>1 DEF Settled
  <2>4. QED
    BY <2>1, <2>2, <2>3 DEF Offerer
<1>2. ASSUME NEW p \in Payments, NEW i \in Hops(p) \ {1}, Route[p][i] = n,
             hop[<<p, i>>] = "redeemed"
      PROVE  <<p, i - 1>> \in DOMAIN g /\ g[<<p, i - 1>>] = Amount[p]
  <2>1. /\ i - 1 \in Hops(p) /\ i - 1 # Len(Route[p]) - 1 /\ i - 1 + 1 = i
    BY <1>0
  <2>2. hop[<<p, i - 1>>] = "redeemed"
    BY <1>2 DEF Settled
  <2>3. <<p, i - 1>> \in HopIds /\ Taker(<<p, i - 1>>) = n
    BY <1>2, <2>1, HopIdsDef DEF Taker
  <2>4. <<p, i - 1>> \in HopIds \ LastHops
    BY <2>1, <2>3 DEF LastHops
  <2>5. QED
    BY <2>2, <2>3, <2>4 DEF InPart, InTable
<1>3. ASSUME NEW h \in DOMAIN g
      PROVE  /\ h = <<h[1], h[2]>> /\ h[2] \in Nat /\ h[2] + 1 - 1 = h[2]
             /\ <<h[1], h[2] + 1>> \in DOMAIN f
  <2>1. /\ h \in HopIds /\ h[2] # Len(Route[h[1]]) - 1 /\ Taker(h) = n
        /\ hop[h] = "redeemed"
    BY DEF InPart, InTable, LastHops
  <2>2. h[1] \in Payments /\ h[2] \in Hops(h[1]) /\ h = <<h[1], h[2]>>
    BY <2>1, HopEnds
  <2>3. /\ h[2] \in Nat /\ h[2] + 1 \in Hops(h[1]) \ {1} /\ h[2] + 1 - 1 = h[2]
    BY <1>0, <2>1, <2>2
  <2>4. hop[<<h[1], h[2] + 1>>] = "redeemed"
    BY <2>1, <2>2, <2>3 DEF Settled, Taker
  <2>5. <<h[1], h[2] + 1>> \in HopIds /\ Offerer(<<h[1], h[2] + 1>>) = n
    BY <2>1, <2>2, <2>3, HopIdsDef DEF Taker, Offerer
  <2>6. <<h[1], h[2] + 1>> \in HopIds \ FirstHops
    BY <2>3, <2>5 DEF FirstHops
  <2>7. QED
    BY <2>2, <2>3, <2>4, <2>5, <2>6 DEF OutPart, OutTable
<1>4. IsFiniteSet(SatsOf(f))
  BY TablesSplit
<1> HIDE DEF f, g
<1>5. \A k \in DOMAIN f : b[k] \in DOMAIN g /\ g[b[k]] = f[k]
  BY <1>1, <1>2
<1>6. \A j, k \in DOMAIN f : b[j] = b[k] => j = k
  <2> SUFFICES ASSUME NEW j \in DOMAIN f, NEW k \in DOMAIN f, b[j] = b[k]
               PROVE  j = k
    OBVIOUS
  <2>1. j = <<j[1], j[2]>> /\ k = <<k[1], k[2]>> /\ j[2] \in Nat /\ k[2] \in Nat
    BY <1>0, <1>1
  <2>2. j[1] = k[1] /\ j[2] - 1 = k[2] - 1
    OBVIOUS
  <2>3. QED
    BY <2>1, <2>2
<1>7. \A j \in DOMAIN g : \E k \in DOMAIN f : b[k] = j
  <2> SUFFICES ASSUME NEW j \in DOMAIN g PROVE \E k \in DOMAIN f : b[k] = j
    OBVIOUS
  <2>1. /\ <<j[1], j[2] + 1>> \in DOMAIN f
        /\ b[<<j[1], j[2] + 1>>] = <<j[1], j[2] + 1 - 1>>
        /\ <<j[1], j[2] + 1 - 1>> = j
    BY <1>3
  <2>2. QED
    BY <2>1
<1> HIDE DEF b
<1>8. Worth(g) = Worth(f)
  BY <1>4, <1>5, <1>6, <1>7, WorthRenamed
<1>9. QED
  BY <1>8 DEF f, g

LEMMA SharesCancel ==
    ASSUME NEW b \in Nat, NEW f \in Nat, NEW spent \in Nat, NEW got \in Nat,
           NEW r \in Nat, b + (spent + r) = f + (got + r)
    PROVE  b + spent = f + got
OBVIOUS

(***************************************************************************)
(* What a node owns over all its channels, when nothing of it is in flight,*)
(* is what it funded them with, less what it paid, plus what it was paid:  *)
(* however many payments it relayed meanwhile, over whichever channels,    *)
(* relaying cost it and earned it nothing.                                 *)
(***************************************************************************)
THEOREM NetworkWealthExplained == Spec => []WealthExplained
<1>1. Books => WealthExplained
  <2> SUFFICES ASSUME Books, NEW n \in Nodes, Settled(n)
               PROVE  Owned(n) + Paid(n) = Funded(n) + Received(n)
    BY DEF WealthExplained, Settled, Offerer, Taker
  <2> DEFINE r == Worth(OutPart(n, HopIds \ FirstHops))
  <2>1. /\ Worth(BalanceTable(n)) + Worth(OutTable(n)) =
              Worth(FundingTable(n)) + Worth(InTable(n))
        /\ Worth(BalanceTable(n)) \in Nat /\ Worth(FundingTable(n)) \in Nat
    BY FS_CardinalityType DEF Books, Wealth, WealthOf, Worth
  <2>2. /\ Worth(OutTable(n)) = Worth(PaidTable(n)) + r
        /\ Worth(PaidTable(n)) \in Nat /\ r \in Nat
    BY TablesSplit, FirstHopsPaid
  <2>3. /\ Worth(InTable(n)) = Worth(ReceivedTable(n)) + r
        /\ Worth(ReceivedTable(n)) \in Nat
    BY TablesSplit, LastHopsReceived, RelayedHops
  <2> HIDE DEF r
  <2>4. Worth(BalanceTable(n)) + (Worth(PaidTable(n)) + r) =
           Worth(FundingTable(n)) + (Worth(ReceivedTable(n)) + r)
    BY <2>1, <2>2, <2>3
  <2>5. Worth(BalanceTable(n)) + Worth(PaidTable(n)) =
           Worth(FundingTable(n)) + Worth(ReceivedTable(n))
    BY <2>1, <2>2, <2>3, <2>4, SharesCancel
  <2>6. QED
    BY <2>5, WealthTables
<1>2. QED
  BY <1>1, BooksHold, PTL
=============================================================================
