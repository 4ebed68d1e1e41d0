--------------------------- MODULE SqliteStoreProofs ---------------------------
(***************************************************************************)
(* The tables of the database agree with each other and with what was      *)
(* saved, for any number of processes, channels and versions with any HTLCs*)
(* and for every interleaving of their statements, refusals, locks and     *)
(* crashes.                                                                *)
(*                                                                         *)
(* The invariant says what each open transaction has done so far (Partial),*)
(* that what a save has not written yet is still in its program (Unsaved), *)
(* and which tables a clear has emptied (Clearing).                        *)
(***************************************************************************)
EXTENDS SqliteStore, FiniteSetTheorems, SequenceTheorems, TLAPS

Tables(channels, htlcs, shachain, preimages, hints) ==
    [channels |-> channels, htlcs |-> htlcs, shachain |-> shachain,
     preimages |-> preimages, hints |-> hints]

IsTables(t) == t = Tables(t.channels, t.htlcs, t.shachain, t.preimages, t.hints)

(* The dicts from channels to versions.                                    *)
Dicts == UNION {[S -> Versions] : S \in SUBSET Channels}

States == [channels : Dicts, preimages : SUBSET Channels]

Statements ==
    UNION {
        {UpsertChannel(c, v) : c \in Channels, v \in Versions},
        {DeleteHtlcs(c) : c \in Channels},
        {InsertHtlc(c, h, v) : c \in Channels, h \in Nat, v \in Versions},
        {UpsertPreimage(hash) : hash \in Channels},
        {DeleteChannel(c) : c \in Channels},
        {UpsertShachain(c, index) : c \in Channels, index \in {0, 1}},
        {UpsertHint("hint")},
        {DeleteAll(table) : table \in DOMAIN EmptyDb}}

Transactions == Seq(Statements)

Methods == {"none", "save", "delete", "shachain", "hint", "clear"}

Programs == [method : Methods, txs : Seq(Transactions), alone : BOOLEAN]

(* A transaction of the save that p runs.                                  *)
SavesChannel(p, c, tx) ==
    c \in DOMAIN memory[p].channels /\ tx = SaveChannel(c, memory[p].channels[c])

SavesPreimage(p, hash, tx) ==
    hash \in memory[p].preimages /\ tx = <<UpsertPreimage(hash)>>

(* The rows that do not refer to a channel that is gone.                   *)
RowsWithout(rows, gone) == {row \in rows : row[1] \notin gone}

Keep(f, gone) == [c \in DOMAIN f \ gone |-> f[c]]

(* The first n rows that save_channel inserts.                             *)
Inserted(c, v, n) == {<<c, SetToSeq(Htlcs(v))[k], v>> : k \in 1..n}

(* The tables once the first n >= 1 statements of save_channel have run.   *)
After(c, v, n) ==
    Tables(Put(db.channels, c, v),
           IF n = 1 THEN db.htlcs
           ELSE RowsWithout(db.htlcs, {c}) \cup Inserted(c, v, n - 2),
           db.shachain, db.preimages, db.hints)

Length(v) == 2 + Cardinality(Htlcs(v))

(* p has run the first n statements of the transaction for c.              *)
Partial(p, c, v, n) ==
    /\ c \in DOMAIN memory[p].channels /\ v = memory[p].channels[c]
    /\ n \in 1..Length(v) - 1
    /\ Len(program[p].txs[1]) = Length(v) - n
    /\ \A k \in 1..Length(v) - n : program[p].txs[1][k] = SaveChannel(c, v)[n + k]
    /\ working[p] = <<After(c, v, n)>>

(* The transactions of p that have not begun.                              *)
Ahead(p) == {j \in 1..Len(program[p].txs) : j = 1 => working[p] = None}

IsSave(p) ==
    /\ program[p].method = "save"
    /\ \A j \in Ahead(p) :
          \/ \E c \in Channels : SavesChannel(p, c, program[p].txs[j])
          \/ \E hash \in Channels : SavesPreimage(p, hash, program[p].txs[j])
    /\ working[p] # None => \E c \in Channels, v \in Versions, n \in Nat : Partial(p, c, v, n)

OneStatement(p) ==
    /\ working[p] = None
    /\ \/ program[p].method = "delete"
          /\ \E c \in Channels : program[p].txs = <<<<DeleteChannel(c)>>>>
       \/ program[p].method = "shachain"
          /\ \E c \in Channels, index \in {0, 1} :
                program[p].txs = <<<<UpsertShachain(c, index)>>>>
       \/ program[p].method = "hint" /\ program[p].txs = <<<<UpsertHint("hint")>>>>

(* The last n statements of a clear.                                       *)
Clearing(p, n) ==
    /\ program[p].method = "clear"
    /\ working[p] = None
    /\ n \in 1..5 /\ Len(program[p].txs) = n
    /\ \A k \in 1..n : program[p].txs[k] = Clear[5 - n + k]

ProgramOK(p) ==
    \/ program[p] = Idle /\ working[p] = None
    \/ /\ program[p].txs # <<>> /\ loading[p] = None
       /\ IsSave(p) \/ OneStatement(p) \/ \E n \in 1..5 : Clearing(p, n)

ProgramsOK ==
    /\ program \in [Processes -> Programs]
    /\ DOMAIN working = Processes
    /\ \A p \in Processes : ProgramOK(p)
    /\ \A p \in Processes : program[p].alone => \A q \in Processes \ {p} : program[q] = Idle

OneWriter ==
    \A p, q \in Processes : working[p] # None /\ working[q] # None => p = q

TablesOK ==
    /\ IsTables(db) /\ torn \in BOOLEAN
    /\ db.channels \in Dicts /\ IsRows(db.shachain, {0, 1})
    /\ db.preimages \subseteq Channels /\ db.hints \subseteq {"hint"}

(* What a process holds is finite, and of the right kind.                  *)
MemoryOK ==
    /\ memory \in [Processes -> States]
    /\ loading \in [Processes -> {None} \cup {<<dict>> : dict \in Dicts}]
    /\ \A p \in Processes :
          /\ IsFiniteSet(DOMAIN memory[p].channels) /\ IsFiniteSet(memory[p].preimages)
          /\ loading[p] # None => IsFiniteSet(DOMAIN loading[p][1])

FiniteTables == IsFiniteSet(DOMAIN db.channels) /\ IsFiniteSet(db.preimages)

(* RowsMirror, with the step of a clear that leaves channels without rows. *)
Full(c) == RowsOf(c) = {<<c, h, db.channels[c]>> : h \in Htlcs(db.channels[c])}

RowsOK ==
    /\ \A c \in DOMAIN db.channels :
          \/ Full(c)
          \/ RowsOf(c) = {} /\ (torn \/ \E p \in Processes, n \in {3, 4} : Clearing(p, n))
    /\ \A row \in db.htlcs : row[1] \in DOMAIN db.channels
    /\ DOMAIN db.shachain \subseteq DOMAIN db.channels

(* What a save has still to write is in its program.                       *)
Unsaved ==
    \A p \in Processes : program[p].method = "save" =>
        /\ program[p].alone => \A c \in DOMAIN memory[p].channels :
              \/ c \in DOMAIN db.channels /\ db.channels[c] = memory[p].channels[c]
              \/ \E j \in Ahead(p) : SavesChannel(p, c, program[p].txs[j])
              \/ \E v \in Versions, n \in Nat : Partial(p, c, v, n)
        /\ program[p].alone \/ ~torn => \A hash \in memory[p].preimages :
              \/ hash \in db.preimages
              \/ \E j \in Ahead(p) : SavesPreimage(p, hash, program[p].txs[j])

KeptOK ==
    kept # None =>
        /\ \A c \in DOMAIN kept[1].channels :
              c \in DOMAIN db.channels /\ db.channels[c] = kept[1].channels[c]
        /\ kept[1].preimages \subseteq db.preimages

(* Unless something was torn, a clear runs without a save, another clear or*)
(* a load, and whoever has a redeemed channel has its preimage, or a save  *)
(* is about to write it.                                                   *)
ClearsAlone ==
    ~torn => \A p \in Processes : program[p].method = "clear" =>
        /\ \A q \in Processes \ {p} : program[q].method \notin {"save", "clear"}
        /\ \A q \in Processes : loading[q] = None
        /\ \A n \in {1, 2} : Clearing(p, n) => DOMAIN db.channels = {}

Knows(channels, preimages) ==
    \A c \in DOMAIN channels : channels[c] >= Redeemed => c \in preimages

Learnt ==
    ~torn =>
        /\ \A p \in Processes :
              /\ Knows(memory[p].channels, memory[p].preimages)
              /\ loading[p] # None => Knows(loading[p][1], db.preimages)
        /\ \A c \in DOMAIN db.channels : db.channels[c] >= Redeemed =>
              \/ c \in db.preimages
              \/ \E q \in Processes : program[q].method = "save" /\
                    \E j \in Ahead(q) : SavesPreimage(q, c, program[q].txs[j])

IInv ==
    /\ ProgramsOK /\ OneWriter /\ TablesOK /\ MemoryOK /\ FiniteTables
    /\ RowsOK /\ Unsaved /\ KeptOK /\ ClearsAlone /\ Learnt
-----------------------------------------------------------------------------
(* Dicts stay dicts.                                                       *)
LEMMA PutFacts ==
    ASSUME NEW f \in Dicts, NEW c \in Channels, NEW v \in Versions
    PROVE  /\ Put(f, c, v) \in Dicts /\ DOMAIN Put(f, c, v) = DOMAIN f \cup {c}
           /\ Put(f, c, v)[c] = v
           /\ \A x \in DOMAIN f \ {c} : Put(f, c, v)[x] = f[x]
<1>1. DOMAIN f \cup {c} \in SUBSET Channels
  BY DEF Dicts
<1>2. Put(f, c, v) \in [DOMAIN f \cup {c} -> Versions]
  BY DEF Put, Dicts
<1>3. Put(f, c, v) \in Dicts
  BY <1>1, <1>2 DEF Dicts
<1>4. QED
  BY <1>3 DEF Put

LEMMA WithoutFacts ==
    ASSUME NEW f \in Dicts, NEW c
    PROVE  /\ Without(f, c) \in Dicts /\ DOMAIN Without(f, c) = DOMAIN f \ {c}
           /\ \A x \in DOMAIN f \ {c} : Without(f, c)[x] = f[x]
<1>1. DOMAIN f \ {c} \in SUBSET Channels
  BY DEF Dicts
<1>2. Without(f, c) \in [DOMAIN f \ {c} -> Versions]
  BY DEF Without, Dicts
<1>3. Without(f, c) \in Dicts
  BY <1>1, <1>2 DEF Dicts
<1>4. QED
  BY <1>3 DEF Without

(* The sequence of a set's elements.                                       *)
LEMMA SetToSeqFacts ==
    ASSUME NEW S, IsFiniteSet(S)
    PROVE  /\ Cardinality(S) \in Nat
           /\ SetToSeq(S) \in [1..Cardinality(S) -> S]
           /\ \A i, j \in 1..Cardinality(S) : SetToSeq(S)[i] = SetToSeq(S)[j] => i = j
           /\ \A x \in S : \E i \in 1..Cardinality(S) : SetToSeq(S)[i] = x
<1>1. Cardinality(S) \in Nat /\ ExistsBijection(1..Cardinality(S), S)
  BY FS_CardinalityType
<1>2. PICK g \in [1..Cardinality(S) -> S] : IsInjective(g)
  BY <1>1 DEF ExistsBijection, Bijection, Injection, IsInjective
<1>3. SetToSeq(S) \in [1..Cardinality(S) -> S] /\ IsInjective(SetToSeq(S))
  BY <1>2 DEF SetToSeq
<1>4. SetToSeq(S) \in Injection(1..Cardinality(S), S)
  BY <1>3 DEF Injection, IsInjective
<1>5. IsFiniteSet(1..Cardinality(S)) /\ Cardinality(1..Cardinality(S)) = Cardinality(S)
  BY <1>1, FS_Interval
<1>6. SetToSeq(S) \in Surjection(1..Cardinality(S), S)
  BY <1>4, <1>5, FS_Injection
<1>7. QED
  BY <1>1, <1>3, <1>6 DEF IsInjective, Surjection

LEMMA VersionFacts ==
    ASSUME NEW v \in Versions
    PROVE  /\ v \in Nat /\ IsFiniteSet(Htlcs(v)) /\ Htlcs(v) \subseteq Nat
           /\ Length(v) \in Nat /\ Length(v) >= 2
<1>1. v \in Nat /\ v + 1 \in 1..Len(ActiveHtlcs)
  BY SqliteAssumption, LenProperties DEF Versions
<1>2. IsFiniteSet(Htlcs(v)) /\ Htlcs(v) \subseteq Nat
  BY <1>1, SqliteAssumption, ElementOfSeq DEF Htlcs
<1>3. QED
  BY <1>1, <1>2, FS_CardinalityType DEF Length

LEMMA SaveChannelFacts ==
    ASSUME NEW c \in Channels, NEW v \in Versions
    PROVE  /\ SaveChannel(c, v) \in Transactions
           /\ Len(SaveChannel(c, v)) = Length(v)
           /\ SaveChannel(c, v)[1] = UpsertChannel(c, v)
           /\ SaveChannel(c, v)[2] = DeleteHtlcs(c)
           /\ \A k \in 3..Length(v) :
                 SaveChannel(c, v)[k] = InsertHtlc(c, SetToSeq(Htlcs(v))[k - 2], v)
<1> DEFINE head == <<UpsertChannel(c, v), DeleteHtlcs(c)>>
           inserts == [i \in 1..Cardinality(Htlcs(v)) |-> InsertHtlc(c, SetToSeq(Htlcs(v))[i], v)]
<1>1. /\ Cardinality(Htlcs(v)) \in Nat
      /\ \A i \in 1..Cardinality(Htlcs(v)) : SetToSeq(Htlcs(v))[i] \in Nat
  BY VersionFacts, SetToSeqFacts
<1>2. head \in Seq(Statements) /\ Len(head) = 2
  BY DEF Statements
<1>3. inserts \in Seq(Statements) /\ Len(inserts) = Cardinality(Htlcs(v))
  BY <1>1 DEF Statements
<1>4. SaveChannel(c, v) = head \o inserts
  BY DEF SaveChannel
<1> HIDE DEF head, inserts
<1>5. /\ head \o inserts \in Seq(Statements)
      /\ Len(head \o inserts) = 2 + Cardinality(Htlcs(v))
      /\ \A i \in 1..2 + Cardinality(Htlcs(v)) :
            (head \o inserts)[i] = IF i <= 2 THEN head[i] ELSE inserts[i - 2]
  <2>1. /\ head \o inserts \in Seq(Statements)
        /\ Len(head \o inserts) = Len(head) + Len(inserts)
        /\ \A i \in 1..Len(head) + Len(inserts) :
              (head \o inserts)[i] = IF i <= Len(head) THEN head[i] ELSE inserts[i - Len(head)]
    BY <1>2, <1>3, ConcatProperties, Zenon
  <2>2. QED
    BY <1>2, <1>3, <2>1
<1>6. /\ head[1] = UpsertChannel(c, v) /\ head[2] = DeleteHtlcs(c)
      /\ \A i \in 1..Cardinality(Htlcs(v)) :
            inserts[i] = InsertHtlc(c, SetToSeq(Htlcs(v))[i], v)
  BY DEF head, inserts
<1>7. QED
  BY <1>1, <1>4, <1>5, <1>6 DEF Length, Transactions

(* What save_network_state runs: the save of each channel and each         *)
(* preimage, and nothing else.                                             *)
LEMMA NetworkSaveFacts ==
    ASSUME NEW m \in States, IsFiniteSet(DOMAIN m.channels), IsFiniteSet(m.preimages)
    PROVE  LET txs == SaveNetworkState(m)
           IN /\ txs \in Seq(Transactions)
              /\ \A j \in 1..Len(txs) :
                    \/ \E c \in DOMAIN m.channels : txs[j] = SaveChannel(c, m.channels[c])
                    \/ \E hash \in m.preimages : txs[j] = <<UpsertPreimage(hash)>>
              /\ \A c \in DOMAIN m.channels : \E j \in 1..Len(txs) :
                    txs[j] = SaveChannel(c, m.channels[c])
              /\ \A hash \in m.preimages : \E j \in 1..Len(txs) :
                    txs[j] = <<UpsertPreimage(hash)>>
<1> DEFINE C == DOMAIN m.channels
           first == SaveChannels(m.channels)
           second == SavePreimages(m.preimages)
           txs == SaveNetworkState(m)
<1>1. /\ Cardinality(C) \in Nat
      /\ \A i \in 1..Cardinality(C) : SetToSeq(C)[i] \in C
      /\ \A x \in C : \E i \in 1..Cardinality(C) : SetToSeq(C)[i] = x
  BY SetToSeqFacts
<1>2. /\ Cardinality(m.preimages) \in Nat
      /\ \A i \in 1..Cardinality(m.preimages) : SetToSeq(m.preimages)[i] \in m.preimages
      /\ \A x \in m.preimages : \E i \in 1..Cardinality(m.preimages) : SetToSeq(m.preimages)[i] = x
  BY SetToSeqFacts
<1>3. \A c \in C : c \in Channels /\ m.channels[c] \in Versions
  BY DEF States, Dicts
<1>4. /\ first \in Seq(Transactions) /\ Len(first) = Cardinality(C)
      /\ \A i \in 1..Cardinality(C) :
            first[i] = SaveChannel(SetToSeq(C)[i], m.channels[SetToSeq(C)[i]])
  BY <1>1, <1>3, SaveChannelFacts, SMTT(30) DEF SaveChannels
<1>5. \A hash \in m.preimages : <<UpsertPreimage(hash)>> \in Transactions
  BY DEF Statements, Transactions, States
<1>6. /\ second \in Seq(Transactions) /\ Len(second) = Cardinality(m.preimages)
      /\ \A i \in 1..Cardinality(m.preimages) :
            second[i] = <<UpsertPreimage(SetToSeq(m.preimages)[i])>>
  BY <1>2, <1>5 DEF SavePreimages
<1>0. txs = first \o second
  BY DEF SaveNetworkState
<1> HIDE DEF first, second, txs
<1>7. /\ txs \in Seq(Transactions)
      /\ Len(txs) = Cardinality(C) + Cardinality(m.preimages)
      /\ \A i \in 1..Len(txs) : txs[i] = IF i <= Cardinality(C) THEN first[i]
                                         ELSE second[i - Cardinality(C)]
  <2>1. /\ txs \in Seq(Transactions)
        /\ Len(txs) = Len(first) + Len(second)
        /\ \A i \in 1..Len(first) + Len(second) :
              txs[i] = IF i <= Len(first) THEN first[i] ELSE second[i - Len(first)]
    BY <1>0, <1>4, <1>6, ConcatProperties, Zenon
  <2>2. QED
    BY <1>1, <1>2, <1>4, <1>6, <2>1
<1>8. ASSUME NEW j \in 1..Len(txs)
      PROVE  \/ \E c \in C : txs[j] = SaveChannel(c, m.channels[c])
             \/ \E hash \in m.preimages : txs[j] = <<UpsertPreimage(hash)>>
  <2>1. CASE j <= Cardinality(C)
    BY <1>1, <1>4, <1>7, <2>1, SMTT(30)
  <2>2. CASE j > Cardinality(C)
    <3>1. j - Cardinality(C) \in 1..Cardinality(m.preimages)
      BY <1>1, <1>2, <1>7, <2>2
    <3>2. txs[j] = second[j - Cardinality(C)]
      BY <1>1, <1>7, <2>2
    <3>3. QED
      BY <1>2, <1>6, <3>1, <3>2
  <2>3. QED
    BY <1>1, <2>1, <2>2
<1>9. ASSUME NEW c \in C
      PROVE  \E j \in 1..Len(txs) : txs[j] = SaveChannel(c, m.channels[c])
  <2>1. PICK i \in 1..Cardinality(C) : SetToSeq(C)[i] = c
    BY <1>1
  <2>2. i \in 1..Len(txs) /\ txs[i] = SaveChannel(c, m.channels[c])
    BY <1>1, <1>2, <1>4, <1>7, <2>1
  <2>3. QED
    BY <2>2
<1>10. ASSUME NEW hash \in m.preimages
       PROVE  \E j \in 1..Len(txs) : txs[j] = <<UpsertPreimage(hash)>>
  <2>1. PICK i \in 1..Cardinality(m.preimages) : SetToSeq(m.preimages)[i] = hash
    BY <1>2
  <2>2. Cardinality(C) + i \in 1..Len(txs) /\ txs[Cardinality(C) + i] = second[i]
    BY <1>1, <1>2, <1>7, <2>1
  <2>3. second[i] = <<UpsertPreimage(hash)>>
    BY <1>2, <1>6, <2>1
  <2>4. QED
    BY <2>2, <2>3
<1>11. QED
  BY <1>7, <1>8, <1>9, <1>10 DEF txs
-----------------------------------------------------------------------------
(* What each statement does to the tables.                                 *)
LEMMA ExecFacts ==
    ASSUME NEW ch, NEW ht, NEW sh, NEW pr, NEW hi, NEW t, t = Tables(ch, ht, sh, pr, hi)
    PROVE  /\ \A c, v : Exec(t, UpsertChannel(c, v)) = Tables(Put(ch, c, v), ht, sh, pr, hi)
           /\ \A c : Exec(t, DeleteHtlcs(c)) =
                 Tables(ch, RowsWithout(ht, {c}), sh, pr, hi)
           /\ \A c, h, v : Exec(t, InsertHtlc(c, h, v)) =
                 Tables(ch, ht \cup {<<c, h, v>>}, sh, pr, hi)
           /\ \A c : Exec(t, DeleteChannel(c)) =
                 Tables(Without(ch, c), RowsWithout(ht, {c}),
                        Keep(sh, {c}), pr, hi)
           /\ \A c, i : Exec(t, UpsertShachain(c, i)) = Tables(ch, ht, Put(sh, c, i), pr, hi)
           /\ \A x : Exec(t, UpsertPreimage(x)) = Tables(ch, ht, sh, pr \cup {x}, hi)
           /\ \A x : Exec(t, UpsertHint(x)) = Tables(ch, ht, sh, pr, hi \cup {x})
           /\ Exec(t, DeleteAll("htlcs")) = Tables(ch, {}, sh, pr, hi)
           /\ Exec(t, DeleteAll("shachain")) = Tables(ch, ht, NoRows, pr, hi)
           /\ Exec(t, DeleteAll("channels")) =
                 Tables(NoRows, RowsWithout(ht, DOMAIN ch),
                        Keep(sh, DOMAIN ch), pr, hi)
           /\ Exec(t, DeleteAll("preimages")) = Tables(ch, ht, sh, {}, hi)
           /\ Exec(t, DeleteAll("hints")) = Tables(ch, ht, sh, pr, {})
<1>1. \A c, v : Exec(t, UpsertChannel(c, v)) = Tables(Put(ch, c, v), ht, sh, pr, hi)
  BY DEF Tables, Exec, UpsertChannel
<1>2. \A c : Exec(t, DeleteHtlcs(c)) = Tables(ch, RowsWithout(ht, {c}), sh, pr, hi)
  BY DEF Tables, Exec, DeleteHtlcs, RowsWithout
<1>3. \A c, h, v : Exec(t, InsertHtlc(c, h, v)) = Tables(ch, ht \cup {<<c, h, v>>}, sh, pr, hi)
  <2> TAKE c, h, v
  <2>1. Exec(t, InsertHtlc(c, h, v)) = [t EXCEPT !.htlcs = @ \cup {<<c, h, v>>}]
    BY DEF Exec, InsertHtlc
  <2>2. QED
    BY <2>1 DEF Tables
<1>4. \A c : Exec(t, DeleteChannel(c)) =
         Tables(Without(ch, c), RowsWithout(ht, {c}),
                Keep(sh, {c}), pr, hi)
  BY DEF Tables, Exec, DeleteChannel, Cascade, RowsWithout, Keep
<1>5. \A c, i : Exec(t, UpsertShachain(c, i)) = Tables(ch, ht, Put(sh, c, i), pr, hi)
  BY DEF Tables, Exec, UpsertShachain
<1>6. \A x : Exec(t, UpsertPreimage(x)) = Tables(ch, ht, sh, pr \cup {x}, hi)
  BY DEF Tables, Exec, UpsertPreimage
<1>7. \A x : Exec(t, UpsertHint(x)) = Tables(ch, ht, sh, pr, hi \cup {x})
  BY DEF Tables, Exec, UpsertHint
<1>8. Exec(t, DeleteAll("channels")) =
         Tables(NoRows, RowsWithout(ht, DOMAIN ch),
                Keep(sh, DOMAIN ch), pr, hi)
  BY DEF Tables, Exec, DeleteAll, Cascade, RowsWithout, Keep
<1>9. \A table \in {"htlcs", "shachain", "preimages", "hints"} :
         Exec(t, DeleteAll(table)) = [t EXCEPT ![table] = EmptyDb[table]]
  BY DEF Exec, DeleteAll
<1>10. /\ Exec(t, DeleteAll("htlcs")) = Tables(ch, {}, sh, pr, hi)
       /\ Exec(t, DeleteAll("shachain")) = Tables(ch, ht, NoRows, pr, hi)
       /\ Exec(t, DeleteAll("preimages")) = Tables(ch, ht, sh, {}, hi)
       /\ Exec(t, DeleteAll("hints")) = Tables(ch, ht, sh, pr, {})
  BY <1>9, ZenonT(40) DEF Tables, EmptyDb
<1>11. QED
  BY <1>1, <1>2, <1>3, <1>4, <1>5, <1>6, <1>7, <1>8, <1>10

LEMMA NothingRefused ==
    ASSUME NEW t
    PROVE  /\ \A c, v : ~Refused(t, UpsertChannel(c, v))
           /\ \A c : ~Refused(t, DeleteHtlcs(c)) /\ ~Refused(t, DeleteChannel(c))
           /\ \A x : ~Refused(t, UpsertPreimage(x)) /\ ~Refused(t, UpsertHint(x))
           /\ \A table : ~Refused(t, DeleteAll(table))
           /\ \A c, h, v : Refused(t, InsertHtlc(c, h, v)) =>
                 c \notin DOMAIN t.channels \/ \E row \in t.htlcs : row[1] = c /\ row[2] = h
           /\ \A c, i : Refused(t, UpsertShachain(c, i)) <=> c \notin DOMAIN t.channels
BY DEF Refused, UpsertChannel, DeleteHtlcs, InsertHtlc, DeleteChannel, UpsertShachain,
       UpsertPreimage, UpsertHint, DeleteAll

(* The next statement of a transaction of save_channel is never refused,   *)
(* and takes the tables one step further.                                  *)
LEMMA PartialExec ==
    ASSUME IsTables(db), NEW c \in Channels, NEW v \in Versions,
           NEW n \in 1..Length(v) - 1
    PROVE  /\ ~Refused(After(c, v, n), SaveChannel(c, v)[n + 1])
           /\ Exec(After(c, v, n), SaveChannel(c, v)[n + 1]) = After(c, v, n + 1)
<1> DEFINE H == Htlcs(v)
           ch == Put(db.channels, c, v)
           rows(m) == IF m = 1 THEN db.htlcs
                      ELSE RowsWithout(db.htlcs, {c}) \cup Inserted(c, v, m - 2)
           t == After(c, v, n)
           s == SaveChannel(c, v)[n + 1]
<1>1. /\ \A m : After(c, v, m) = Tables(ch, rows(m), db.shachain, db.preimages, db.hints)
      /\ c \in DOMAIN ch
  BY DEF After, Put
<1>2. /\ rows(2) = RowsWithout(rows(1), {c})
      /\ \A m : m # 1 => rows(m) = RowsWithout(db.htlcs, {c}) \cup Inserted(c, v, m - 2)
  BY DEF Inserted
<1>3. Length(v) \in Nat /\ Length(v) >= 2 /\ IsFiniteSet(H)
  BY VersionFacts
<1> HIDE DEF rows, ch, H
<1>4. t = Tables(ch, rows(n), db.shachain, db.preimages, db.hints)
  BY <1>1
<1>5. t.channels = ch /\ t.htlcs = rows(n)
  BY <1>4 DEF Tables
<1> HIDE DEF t, s
<1>6. CASE n = 1
  <2>1. s = DeleteHtlcs(c)
    BY <1>6, SaveChannelFacts DEF s
  <2>2. Exec(t, DeleteHtlcs(c))
          = Tables(ch, RowsWithout(rows(1), {c}), db.shachain, db.preimages, db.hints)
    BY <1>4, <1>6, ExecFacts
  <2>3. Exec(t, s) = After(c, v, 2)
    BY <1>1, <1>2, <1>4, <1>6, <2>1, <2>2
  <2>4. ~Refused(t, s)
    BY <2>1, NothingRefused
  <2>5. n + 1 = 2
    BY <1>6
  <2>6. QED
    BY <2>3, <2>4, <2>5 DEF t, s
<1>7. CASE n > 1
  <2>1. s = InsertHtlc(c, SetToSeq(H)[n - 1], v) /\ n - 1 \in 1..Cardinality(H)
    BY <1>3, <1>7, SaveChannelFacts, FS_CardinalityType DEF Length, H, s
  <2>2. n # 1 /\ n + 1 # 1 /\ 1..(n + 1) - 2 = (1..n - 2) \cup {n - 1}
    BY <1>7
  <2>3. rows(n + 1) = rows(n) \cup {<<c, SetToSeq(H)[n - 1], v>>}
    <3>1. Inserted(c, v, (n + 1) - 2) = Inserted(c, v, n - 2) \cup {<<c, SetToSeq(H)[n - 1], v>>}
      BY <2>2 DEF Inserted, H
    <3>2. QED
      BY <1>2, <2>2, <3>1
  <2>4. ~ \E row \in rows(n) : row[1] = c /\ row[2] = SetToSeq(H)[n - 1]
    <3>1. \A k \in 1..n - 2 : SetToSeq(H)[k] # SetToSeq(H)[n - 1]
      BY <1>3, <1>7, <2>1, SetToSeqFacts
    <3>2. ~ \E row \in Inserted(c, v, n - 2) : row[2] = SetToSeq(H)[n - 1]
      BY <3>1 DEF Inserted, H
    <3>3. ~ \E row \in RowsWithout(db.htlcs, {c}) : row[1] = c
      BY DEF RowsWithout
    <3>4. QED
      BY <1>2, <2>2, <3>2, <3>3
  <2>5. ~Refused(t, s)
    BY <1>1, <1>5, <2>1, <2>4, NothingRefused
  <2>6. Exec(t, s) = Tables(ch, rows(n + 1), db.shachain, db.preimages, db.hints)
    <3>1. Exec(t, InsertHtlc(c, SetToSeq(H)[n - 1], v))
            = Tables(ch, rows(n) \cup {<<c, SetToSeq(H)[n - 1], v>>}, db.shachain,
                     db.preimages, db.hints)
      BY <1>4, ExecFacts
    <3>2. QED
      BY <1>4, <2>1, <2>3, <3>1
  <2>7. QED
    BY <1>1, <2>5, <2>6 DEF t, s
<1>8. QED
  BY <1>3, <1>6, <1>7

(* All of its statements leave the rows of the version saved.              *)
LEMMA AfterAll ==
    ASSUME IsTables(db), NEW c \in Channels, NEW v \in Versions
    PROVE  LET t == After(c, v, Length(v))
           IN /\ IsTables(t) /\ t.channels = Put(db.channels, c, v)
              /\ t.htlcs = RowsWithout(db.htlcs, {c}) \cup {<<c, h, v>> : h \in Htlcs(v)}
              /\ t.shachain = db.shachain /\ t.preimages = db.preimages /\ t.hints = db.hints
<1>1. Length(v) - 2 = Cardinality(Htlcs(v)) /\ Length(v) # 1 /\ IsFiniteSet(Htlcs(v))
  BY VersionFacts, FS_CardinalityType DEF Length
<1>2. Inserted(c, v, Length(v) - 2) = {<<c, h, v>> : h \in Htlcs(v)}
  BY <1>1, SetToSeqFacts DEF Inserted
<1>3. QED
  BY <1>1, <1>2 DEF After, IsTables, Tables
-----------------------------------------------------------------------------
LEMMA NoneFacts ==
    ASSUME NEW x
    PROVE  <<x>> # None /\ <<x>>[1] = x
BY DEF None

(* A sequence with its first element replaced.                             *)
LEMMA ReplaceFirst ==
    ASSUME NEW S, NEW s \in Seq(S), s # <<>>, NEW e \in S
    PROVE  /\ <<e>> \o Tail(s) \in Seq(S)
           /\ Len(<<e>> \o Tail(s)) = Len(s)
           /\ (<<e>> \o Tail(s))[1] = e
           /\ \A j \in 2..Len(s) : (<<e>> \o Tail(s))[j] = s[j]
<1>1. /\ Tail(s) \in Seq(S) /\ Len(Tail(s)) = Len(s) - 1 /\ Len(s) \in Nat \ {0}
      /\ \A i \in 1..Len(Tail(s)) : Tail(s)[i] = s[i + 1]
  BY HeadTailProperties, EmptySeq
<1>2. <<e>> \in Seq(S) /\ Len(<<e>>) = 1 /\ <<e>>[1] = e
  OBVIOUS
<1> DEFINE one == <<e>>
<1> HIDE DEF one
<1>3. one \in Seq(S) /\ Len(one) = 1 /\ one[1] = e
  BY <1>2 DEF one
<1>4. /\ one \o Tail(s) \in Seq(S)
      /\ Len(one \o Tail(s)) = Len(one) + Len(Tail(s))
      /\ \A i \in 1..Len(one) + Len(Tail(s)) :
            (one \o Tail(s))[i] = IF i <= Len(one) THEN one[i] ELSE Tail(s)[i - Len(one)]
  BY <1>1, <1>3, ConcatProperties, Zenon
<1>5. /\ Len(one \o Tail(s)) = Len(s) /\ (one \o Tail(s))[1] = e
      /\ \A j \in 2..Len(s) : (one \o Tail(s))[j] = s[j]
  BY <1>1, <1>3, <1>4
<1>6. QED
  BY <1>4, <1>5 DEF one

LEMMA ProgramFields ==
    ASSUME NEW g \in Programs
    PROVE  /\ \A txs \in Seq(Transactions) :
                 /\ [g EXCEPT !.txs = txs] \in Programs
                 /\ [g EXCEPT !.txs = txs].method = g.method
                 /\ [g EXCEPT !.txs = txs].txs = txs
                 /\ [g EXCEPT !.txs = txs].alone = g.alone
           /\ [g EXCEPT !.alone = FALSE] \in Programs
           /\ [g EXCEPT !.alone = FALSE].method = g.method
           /\ [g EXCEPT !.alone = FALSE].txs = g.txs
           /\ [g EXCEPT !.alone = FALSE].alone = FALSE
BY DEF Programs

LEMMA IdleFacts ==
    /\ Idle.method = "none" /\ Idle.txs = <<>> /\ Idle.alone = FALSE
    /\ Idle \in Programs
    /\ [Idle EXCEPT !.alone = FALSE] = Idle
<1>1. Idle.method = "none" /\ Idle.txs = <<>> /\ Idle.alone = FALSE
  BY DEF Idle
<1>2. Idle \in Programs
  <2>1. "none" \in Methods /\ <<>> \in Seq(Transactions) /\ FALSE \in BOOLEAN
    BY EmptySeq DEF Methods
  <2>2. QED
    BY <2>1 DEF Idle, Programs
<1>3. Idle = [x \in DOMAIN Idle |-> Idle[x]]
  BY DEF Idle
<1> HIDE DEF Idle
<1>4. [Idle EXCEPT !.alone = FALSE] = Idle
  BY <1>1, <1>3
<1>5. QED
  BY <1>1, <1>2, <1>4

(* The first transaction of p is done with, or p is.                       *)
Pop(p) ==
    /\ working' = [working EXCEPT ![p] = None]
    /\ program' = [program EXCEPT ![p] = IF Len(program[p].txs) = 1 THEN Idle
                                         ELSE [@ EXCEPT !.txs = Tail(program[p].txs)]]

Commits(p, t) ==
    /\ Pop(p)
    /\ db' = t
    /\ kept' = KeptAfter(p, Tail(program[p].txs), t)
    /\ UNCHANGED torn

(* The transaction of p goes on: it has now run n statements.              *)
GoesOn(p, c, v, n) ==
    /\ working' = [working EXCEPT ![p] = <<After(c, v, n)>>]
    /\ program' = [program EXCEPT ![p].txs =
                      <<Tail(program[p].txs[1])>> \o Tail(program[p].txs)]
    /\ UNCHANGED <<db, kept, torn>>

LEMMA ExecuteSave ==
    ASSUME ProgramsOK, TablesOK, MemoryOK, NEW p \in Processes, Execute(p), IsSave(p)
    PROVE  \/ \E c \in Channels, v \in Versions :
                 /\ working[p] = None /\ SavesChannel(p, c, program[p].txs[1])
                 /\ v = memory[p].channels[c]
                 /\ GoesOn(p, c, v, 1)
           \/ \E c \in Channels, v \in Versions, n \in Nat :
                 /\ Partial(p, c, v, n)
                 /\ \/ n < Length(v) - 1 /\ GoesOn(p, c, v, n + 1)
                    \/ n = Length(v) - 1 /\ Commits(p, After(c, v, Length(v)))
           \/ \E hash \in Channels :
                 /\ working[p] = None /\ SavesPreimage(p, hash, program[p].txs[1])
                 /\ Commits(p, Tables(db.channels, db.htlcs, db.shachain,
                                      db.preimages \cup {hash}, db.hints))
<1> DEFINE txs == program[p].txs
           s == txs[1][1]
           before == IF working[p] = None THEN db ELSE working[p][1]
<1>1. /\ txs \in Seq(Transactions) /\ Len(txs) \in Nat \ {0}
      /\ txs[1] \in Seq(Statements)
  <2>1. txs \in Seq(Transactions) /\ txs # <<>>
    BY DEF ProgramsOK, Programs, Execute
  <2>2. Len(txs) \in Nat \ {0}
    BY <2>1, EmptySeq
  <2>3. QED
    BY <2>1, <2>2, ElementOfSeq DEF Transactions
<1>2. IsTables(db)
  BY DEF TablesOK
<1>3. /\ txs # <<>>
      /\ \/ Refused(before, s)
         \/ /\ ~Refused(before, s) /\ Len(txs[1]) > 1
            /\ working' = [working EXCEPT ![p] = <<Exec(before, s)>>]
            /\ program' = [program EXCEPT ![p].txs = <<Tail(txs[1])>> \o Tail(txs)]
            /\ UNCHANGED <<db, kept, torn>>
         \/ Len(txs[1]) = 1 /\ Commits(p, Exec(before, s))
  BY DEF Execute, Commits, Pop
<1> HIDE DEF s, before
<1>4. CASE working[p] # None
  <2>1. PICK c \in Channels, v \in Versions, n \in Nat : Partial(p, c, v, n)
    BY <1>4 DEF IsSave
  <2>2. Length(v) \in Nat /\ n \in 1..Length(v) - 1
    BY <2>1, VersionFacts DEF Partial
  <2>3. before = After(c, v, n) /\ s = SaveChannel(c, v)[n + 1] /\ Len(txs[1]) = Length(v) - n
    BY <1>4, <2>1, <2>2, NoneFacts DEF Partial, s, before
  <2>4. ~Refused(before, s) /\ Exec(before, s) = After(c, v, n + 1)
    BY <1>2, <2>2, <2>3, PartialExec
  <2>5. CASE n < Length(v) - 1
    <3>1. GoesOn(p, c, v, n + 1)
      <4>1. Len(txs[1]) > 1 /\ ~(Len(txs[1]) = 1)
        BY <2>2, <2>3, <2>5
      <4>2. /\ working' = [working EXCEPT ![p] = <<Exec(before, s)>>]
            /\ program' = [program EXCEPT ![p].txs = <<Tail(txs[1])>> \o Tail(txs)]
            /\ UNCHANGED <<db, kept, torn>>
        BY <1>3, <2>4, <4>1, Zenon
      <4>3. QED
        BY <2>4, <4>2, Zenon DEF GoesOn
    <3>2. QED
      BY <2>1, <2>5, <3>1
  <2>6. CASE n = Length(v) - 1
    <3>1. Len(txs[1]) = 1 /\ n + 1 = Length(v)
      BY <2>2, <2>3, <2>6
    <3>2. Commits(p, After(c, v, Length(v)))
      BY <1>3, <2>4, <3>1
    <3>3. QED
      BY <2>1, <2>6, <3>2
  <2>7. n < Length(v) - 1 \/ n = Length(v) - 1
    BY <2>2
  <2>8. QED
    BY <2>5, <2>6, <2>7
<1>5. CASE working[p] = None
  <2>1. 1 \in Ahead(p) /\ before = db
    BY <1>1, <1>5 DEF Ahead, before
  <2>2. ASSUME NEW c \in Channels, SavesChannel(p, c, txs[1])
        PROVE  memory[p].channels[c] \in Versions /\ GoesOn(p, c, memory[p].channels[c], 1)
    <3> DEFINE v == memory[p].channels[c]
    <3>1. v \in Versions
      BY <2>2 DEF MemoryOK, States, Dicts, SavesChannel
    <3>2. /\ s = UpsertChannel(c, v) /\ Len(txs[1]) = Length(v) /\ Length(v) >= 2
          /\ Length(v) \in Nat
      BY <2>2, <3>1, SaveChannelFacts, VersionFacts DEF SavesChannel, s
    <3>3. ~Refused(db, s)
      BY <3>2, NothingRefused
    <3>4. Exec(db, s) = After(c, v, 1)
      BY <1>2, <3>2, ExecFacts DEF IsTables, After
    <3>5. QED
      <4>1. Len(txs[1]) > 1 /\ ~(Len(txs[1]) = 1)
        BY <3>2
      <4>2. /\ working' = [working EXCEPT ![p] = <<Exec(before, s)>>]
            /\ program' = [program EXCEPT ![p].txs = <<Tail(txs[1])>> \o Tail(txs)]
            /\ UNCHANGED <<db, kept, torn>>
        BY <1>3, <2>1, <3>3, <4>1, Zenon
      <4>3. QED
        BY <2>1, <3>1, <3>4, <4>2, Zenon DEF GoesOn
  <2>3. ASSUME NEW hash \in Channels, SavesPreimage(p, hash, txs[1])
        PROVE  Commits(p, Tables(db.channels, db.htlcs, db.shachain,
                                 db.preimages \cup {hash}, db.hints))
    <3>1. s = UpsertPreimage(hash) /\ Len(txs[1]) = 1
      BY <2>3 DEF SavesPreimage, s
    <3>2. ~Refused(db, s)
      BY <3>1, NothingRefused
    <3>3. Exec(db, s) = Tables(db.channels, db.htlcs, db.shachain, db.preimages \cup {hash}, db.hints)
      BY <1>2, <3>1, ExecFacts DEF IsTables
    <3>4. QED
      BY <1>3, <2>1, <3>1, <3>2, <3>3
  <2>4. QED
    BY <1>5, <2>1, <2>2, <2>3 DEF IsSave
<1>6. QED
  BY <1>4, <1>5

(* The methods of one statement: it is executed, or refused and the method *)
(* ends; either way the process is idle.                                   *)
LEMMA ExecuteOne ==
    ASSUME ProgramsOK, TablesOK, NEW p \in Processes, Execute(p), OneStatement(p)
    PROVE  /\ program' = [program EXCEPT ![p] = Idle] /\ working' = [working EXCEPT ![p] = None]
           /\ torn' = torn
           /\ \/ UNCHANGED <<db, kept>>
              \/ /\ kept' = KeptAfter(p, <<>>, db')
                 /\ \/ \E c \in Channels :
                          db' = Tables(Without(db.channels, c), RowsWithout(db.htlcs, {c}),
                                       Keep(db.shachain, {c}), db.preimages, db.hints)
                    \/ \E c \in DOMAIN db.channels, index \in {0, 1} :
                          db' = Tables(db.channels, db.htlcs, Put(db.shachain, c, index),
                                       db.preimages, db.hints)
                    \/ db' = Tables(db.channels, db.htlcs, db.shachain, db.preimages, {"hint"})
<1> DEFINE txs == program[p].txs
           s == txs[1][1]
<1>1. working[p] = None /\ program[p].method # "save"
  BY DEF OneStatement
<1>2. PICK x : /\ txs = <<<<x>>>>
               /\ \/ \E c \in Channels : x = DeleteChannel(c)
                  \/ \E c \in Channels, index \in {0, 1} : x = UpsertShachain(c, index)
                  \/ x = UpsertHint("hint")
  BY DEF OneStatement
<1>3. txs[1] = <<x>> /\ s = x /\ Len(txs) = 1 /\ Len(txs[1]) = 1 /\ Tail(txs) = <<>>
  BY <1>2
<1>4. /\ program' = [program EXCEPT ![p] = Idle] /\ working' = [working EXCEPT ![p] = None]
      /\ torn' = torn
      /\ \/ Refused(db, x) /\ UNCHANGED <<db, kept>>
         \/ /\ ~Refused(db, x) /\ db' = Exec(db, x)
            /\ kept' = KeptAfter(p, <<>>, db')
  <2> DEFINE before == IF working[p] = None THEN db ELSE working[p][1]
  <2>1. \/ /\ Refused(before, s)
           /\ working' = [working EXCEPT ![p] = None]
           /\ program' = [program EXCEPT ![p] = Idle]
           /\ torn' = (torn \/ program[p].method = "save")
           /\ UNCHANGED <<db, kept>>
        \/ Len(txs[1]) > 1
        \/ /\ ~Refused(before, s)
           /\ db' = Exec(before, s)
           /\ working' = [working EXCEPT ![p] = None]
           /\ program' = [program EXCEPT ![p] = IF Len(txs) = 1 THEN Idle
                                                ELSE [@ EXCEPT !.txs = Tail(txs)]]
           /\ kept' = KeptAfter(p, Tail(txs), Exec(before, s))
           /\ UNCHANGED torn
    BY DEF Execute
  <2>2. before = db /\ s = x
    BY <1>1, <1>3
  <2> HIDE DEF before, s
  <2>3. program' = [program EXCEPT ![p] = IF Len(txs) = 1 THEN Idle
                                          ELSE [@ EXCEPT !.txs = Tail(txs)]]
           => program' = [program EXCEPT ![p] = Idle]
    BY <1>3
  <2>4. (torn \/ program[p].method = "save") = torn
    BY <1>1 DEF TablesOK
  <2>5. ~(Len(txs[1]) > 1) /\ Tail(txs) = <<>>
    BY <1>3
  <2>6. CASE Refused(before, s)
    BY <2>1, <2>2, <2>4, <2>5, <2>6
  <2>7. CASE ~Refused(before, s)
    BY <2>1, <2>2, <2>3, <2>5, <2>7
  <2>8. QED
    BY <2>6, <2>7
<1>5. db = Tables(db.channels, db.htlcs, db.shachain, db.preimages, db.hints)
  BY DEF TablesOK, IsTables
<1>6. ASSUME NEW c \in Channels, x = DeleteChannel(c)
      PROVE  Exec(db, x) = Tables(Without(db.channels, c), RowsWithout(db.htlcs, {c}),
                                  Keep(db.shachain, {c}), db.preimages, db.hints)
  BY <1>5, <1>6, ExecFacts
<1>7. ASSUME NEW c \in Channels, NEW index \in {0, 1}, x = UpsertShachain(c, index)
      PROVE  /\ Refused(db, x) <=> c \notin DOMAIN db.channels
             /\ Exec(db, x) = Tables(db.channels, db.htlcs, Put(db.shachain, c, index),
                                     db.preimages, db.hints)
  <2>1. Exec(db, UpsertShachain(c, index))
          = Tables(db.channels, db.htlcs, Put(db.shachain, c, index), db.preimages, db.hints)
    BY <1>5, ExecFacts
  <2>2. Refused(db, UpsertShachain(c, index)) <=> c \notin DOMAIN db.channels
    BY NothingRefused
  <2>3. QED
    BY <1>7, <2>1, <2>2
<1>8. ASSUME x = UpsertHint("hint")
      PROVE  Exec(db, x) = Tables(db.channels, db.htlcs, db.shachain, db.preimages, {"hint"})
  <2>1. Exec(db, x) = Tables(db.channels, db.htlcs, db.shachain, db.preimages,
                             db.hints \cup {"hint"})
    BY <1>5, <1>8, ExecFacts
  <2>2. db.hints \cup {"hint"} = {"hint"}
    BY DEF TablesOK
  <2>3. QED
    BY <2>1, <2>2
<1>9. QED
  BY <1>2, <1>4, <1>6, <1>7, <1>8

(* What the n-th last statement of clear leaves.                           *)
Cleared(n) ==
    CASE n = 5 -> Tables(db.channels, {}, db.shachain, db.preimages, db.hints)
      [] n = 4 -> Tables(db.channels, db.htlcs, NoRows, db.preimages, db.hints)
      [] n = 3 -> Tables(NoRows, RowsWithout(db.htlcs, DOMAIN db.channels),
                         Keep(db.shachain, DOMAIN db.channels), db.preimages, db.hints)
      [] n = 2 -> Tables(db.channels, db.htlcs, db.shachain, {}, db.hints)
      [] n = 1 -> Tables(db.channels, db.htlcs, db.shachain, db.preimages, {})

LEMMA ExecuteClear ==
    ASSUME ProgramsOK, TablesOK, NEW p \in Processes, Execute(p),
           NEW n \in 1..5, Clearing(p, n)
    PROVE  Commits(p, Cleared(n))
<1> DEFINE txs == program[p].txs
           s == txs[1][1]
<1>1. /\ Clear[1] = <<DeleteAll("htlcs")>> /\ Clear[2] = <<DeleteAll("shachain")>>
      /\ Clear[3] = <<DeleteAll("channels")>> /\ Clear[4] = <<DeleteAll("preimages")>>
      /\ Clear[5] = <<DeleteAll("hints")>>
  BY DEF Clear
<1>2. working[p] = None /\ txs[1] = Clear[6 - n]
  BY DEF Clearing
<1>3. PICK table : txs[1] = <<DeleteAll(table)>> /\ Exec(db, DeleteAll(table)) = Cleared(n)
  <2>1. db = Tables(db.channels, db.htlcs, db.shachain, db.preimages, db.hints)
    BY DEF TablesOK, IsTables
  <2>2. /\ Exec(db, DeleteAll("htlcs")) = Cleared(5)
        /\ Exec(db, DeleteAll("shachain")) = Cleared(4)
        /\ Exec(db, DeleteAll("channels")) = Cleared(3)
        /\ Exec(db, DeleteAll("preimages")) = Cleared(2)
        /\ Exec(db, DeleteAll("hints")) = Cleared(1)
    <3> DEFINE ch == db.channels
               ht == db.htlcs
               sh == db.shachain
               pr == db.preimages
               hi == db.hints
    <3>1. /\ Cleared(5) = Tables(ch, {}, sh, pr, hi)
          /\ Cleared(4) = Tables(ch, ht, NoRows, pr, hi)
          /\ Cleared(3) = Tables(NoRows, RowsWithout(ht, DOMAIN ch), Keep(sh, DOMAIN ch), pr, hi)
          /\ Cleared(2) = Tables(ch, ht, sh, {}, hi)
          /\ Cleared(1) = Tables(ch, ht, sh, pr, {})
      BY DEF Cleared
    <3> HIDE DEF ch, ht, sh, pr, hi
    <3>2. db = Tables(ch, ht, sh, pr, hi)
      BY <2>1 DEF ch, ht, sh, pr, hi
    <3>3. QED
      BY <3>1, <3>2, ExecFacts
  <2>3. n = 5 \/ n = 4 \/ n = 3 \/ n = 2 \/ n = 1
    OBVIOUS
  <2>4. QED
    BY <1>1, <1>2, <2>2, <2>3
<1>4. ~Refused(db, DeleteAll(table))
  BY NothingRefused
<1>5. s = DeleteAll(table) /\ Len(txs[1]) = 1
  BY <1>3
<1>6. QED
  BY <1>2, <1>3, <1>4, <1>5 DEF Execute, Commits, Pop
-----------------------------------------------------------------------------
(* Of a process whose program, transaction and memory stay, everything     *)
(* stays; another may have committed unless it has a transaction open.     *)
LEMMA Frame ==
    ASSUME NEW q \in Processes,
           program'[q].txs = program[q].txs, program'[q].method = program[q].method,
           working'[q] = working[q], memory'[q] = memory[q],
           working[q] = None \/ UNCHANGED db
    PROVE  /\ Ahead(q)' = Ahead(q)
           /\ \A c, tx : SavesChannel(q, c, tx) <=> SavesChannel(q, c, tx)'
           /\ \A c, tx : SavesPreimage(q, c, tx) <=> SavesPreimage(q, c, tx)'
           /\ \A c, v, n : Partial(q, c, v, n) => Partial(q, c, v, n)'
           /\ IsSave(q) => IsSave(q)'
           /\ OneStatement(q) => OneStatement(q)'
           /\ \A n : Clearing(q, n) <=> Clearing(q, n)'
<1>1. Ahead(q)' = Ahead(q)
  BY DEF Ahead
<1>2. /\ \A c, tx : SavesChannel(q, c, tx) <=> SavesChannel(q, c, tx)'
      /\ \A c, tx : SavesPreimage(q, c, tx) <=> SavesPreimage(q, c, tx)'
  BY DEF SavesChannel, SavesPreimage
<1>3. ASSUME NEW c, NEW v, NEW n, Partial(q, c, v, n)
      PROVE  Partial(q, c, v, n)'
  <2>1. UNCHANGED db
    BY <1>3, NoneFacts DEF Partial
  <2>2. After(c, v, n)' = After(c, v, n)
    BY <2>1 DEF After
  <2>3. QED
    BY <1>3, <2>2 DEF Partial
<1>4. ASSUME IsSave(q) PROVE IsSave(q)'
  <2>1. ASSUME NEW j \in Ahead(q)'
        PROVE  \/ \E c \in Channels : SavesChannel(q, c, program[q].txs[j])'
               \/ \E hash \in Channels : SavesPreimage(q, hash, program[q].txs[j])'
    BY <1>1, <1>2, <1>4 DEF IsSave, SavesChannel, SavesPreimage
  <2>2. QED
    BY <1>3, <1>4, <2>1 DEF IsSave
<1>5. /\ OneStatement(q) => OneStatement(q)'
      /\ \A n : Clearing(q, n) <=> Clearing(q, n)'
  BY DEF OneStatement, Clearing
<1>6. QED
  BY <1>1, <1>2, <1>3, <1>4, <1>5

LEMMA TailFacts ==
    ASSUME NEW S, NEW s \in Seq(S), s # <<>>, Len(s) # 1
    PROVE  Len(s) > 1 /\ Tail(s) # <<>>
<1>1. Len(s) \in Nat /\ Len(s) # 0 /\ Len(Tail(s)) = Len(s) - 1
  BY EmptySeq, HeadTailProperties
<1>2. Len(s) > 1
  BY <1>1
<1> DEFINE t == Tail(s)
<1>3. Len(t) = Len(s) - 1
  BY <1>1
<1> HIDE DEF t
<1>4. Len(t) # 0
  BY <1>1, <1>2, <1>3
<1>5. Len(<<>>) = 0
  BY EmptySeq
<1>6. t # <<>>
  BY <1>4, <1>5, Zenon
<1>7. QED
  BY <1>2, <1>6 DEF t

(* Whether p goes on with its next transaction or has come to the end.     *)
LEMMA PopSave ==
    ASSUME ProgramsOK, NEW p \in Processes, Pop(p), UNCHANGED memory,
           program[p].txs # <<>>
    PROVE  /\ program' \in [Processes -> Programs] /\ DOMAIN working' = Processes
           /\ working'[p] = None
           /\ \A q \in Processes \ {p} : program'[q] = program[q] /\ working'[q] = working[q]
           /\ \/ Len(program[p].txs) = 1 /\ program'[p] = Idle
              \/ /\ Len(program[p].txs) > 1 /\ program'[p].txs = Tail(program[p].txs)
                 /\ program'[p].txs # <<>>
                 /\ program'[p].method = program[p].method
                 /\ program'[p].alone = program[p].alone
           /\ \A j \in Ahead(p) :
                 j # 1 => j - 1 \in Ahead(p)' /\ program'[p].txs[j - 1] = program[p].txs[j]
           /\ program'[p] # Idle => \A j \in Ahead(p)' :
                 j + 1 \in Ahead(p) /\ program'[p].txs[j] = program[p].txs[j + 1]
           /\ IsSave(p) => program'[p] = Idle \/ IsSave(p)'
<1> DEFINE txs == program[p].txs
<1>1. /\ txs \in Seq(Transactions) /\ Len(txs) \in Nat \ {0}
      /\ Tail(txs) \in Seq(Transactions) /\ Len(Tail(txs)) = Len(txs) - 1
      /\ \A j \in 1..Len(txs) - 1 : Tail(txs)[j] = txs[j + 1]
  <2>1. txs \in Seq(Transactions) /\ txs # <<>>
    BY DEF ProgramsOK, Programs
  <2>2. QED
    BY <2>1, EmptySeq, HeadTailProperties
<1>2. program \in [Processes -> Programs] /\ DOMAIN working = Processes
  BY DEF ProgramsOK
<1>3. /\ DOMAIN working' = Processes /\ working'[p] = None
      /\ \A q \in Processes \ {p} : working'[q] = working[q]
  BY <1>2 DEF Pop
<1>4. \A q \in Processes \ {p} : program'[q] = program[q]
  BY <1>2 DEF Pop
<1>5. CASE Len(txs) = 1
  <2>1. program'[p] = Idle /\ program' \in [Processes -> Programs]
    BY <1>2, <1>5, IdleFacts DEF Pop
  <2>2. \A j \in Ahead(p) : j = 1
    BY <1>5 DEF Ahead
  <2>3. \/ Len(program[p].txs) = 1 /\ program'[p] = Idle
        \/ /\ Len(program[p].txs) > 1 /\ program'[p].txs = Tail(program[p].txs)
           /\ program'[p].txs # <<>>
           /\ program'[p].method = program[p].method
           /\ program'[p].alone = program[p].alone
    BY <1>5, <2>1
  <2>4. QED
    BY <1>3, <1>4, <2>1, <2>2, <2>3, Zenon
<1>6. CASE Len(txs) # 1
  <2> DEFINE g == program[p]
             rest == Tail(txs)
  <2>1. program' = [program EXCEPT ![p] = [g EXCEPT !.txs = rest]]
    BY <1>6 DEF Pop
  <2>2. g \in Programs
    BY <1>2
  <2> HIDE DEF g
  <2>3. /\ program'[p].txs = rest /\ program'[p].method = g.method
        /\ program'[p].alone = g.alone /\ program' \in [Processes -> Programs]
    <3>1. /\ [g EXCEPT !.txs = rest] \in Programs
          /\ [g EXCEPT !.txs = rest].method = g.method
          /\ [g EXCEPT !.txs = rest].txs = rest
          /\ [g EXCEPT !.txs = rest].alone = g.alone
      BY <1>1, <2>2, ProgramFields
    <3>2. QED
      BY <1>2, <2>1, <3>1
  <2>4. Len(txs) > 1 /\ rest # <<>>
    BY <1>6, TailFacts DEF ProgramsOK, Programs
  <2>a. Ahead(p)' = 1..Len(txs) - 1
    <3>1. Ahead(p)' = 1..Len(rest)
      BY <1>3, <2>3 DEF Ahead
    <3>2. QED
      BY <1>1, <3>1
  <2>b. Ahead(p) = {j \in 1..Len(txs) : j = 1 => working[p] = None}
    BY DEF Ahead
  <2>c. \A j \in 1..Len(txs) - 1 : program'[p].txs[j] = txs[j + 1]
    BY <1>1, <2>3
  <2>5. ASSUME NEW j \in Ahead(p), j # 1
        PROVE  j - 1 \in Ahead(p)' /\ program'[p].txs[j - 1] = txs[j]
    <3>1. j - 1 \in 1..Len(txs) - 1 /\ (j - 1) + 1 = j
      BY <1>1, <2>5, <2>b
    <3>2. QED
      BY <2>a, <2>c, <3>1
  <2>6. \A j \in Ahead(p)' : j + 1 \in Ahead(p) /\ program'[p].txs[j] = txs[j + 1]
    BY <1>1, <2>a, <2>b, <2>c
  <2>7. ASSUME IsSave(p) PROVE IsSave(p)'
    <3>1. ASSUME NEW j \in Ahead(p)'
          PROVE  \/ \E c \in Channels : SavesChannel(p, c, program[p].txs[j])'
                 \/ \E hash \in Channels : SavesPreimage(p, hash, program[p].txs[j])'
      <4>1. \/ \E c \in Channels : SavesChannel(p, c, program[p].txs[j + 1])
            \/ \E hash \in Channels : SavesPreimage(p, hash, program[p].txs[j + 1])
        BY <2>6, <2>7 DEF IsSave
      <4>2. QED
        BY <2>6, <4>1 DEF SavesChannel, SavesPreimage
    <3>2. QED
      BY <1>3, <2>3, <2>7, <3>1 DEF IsSave, g
  <2>8. QED
    BY <1>3, <1>4, <2>3, <2>4, <2>5, <2>6, <2>7 DEF g
<1>7. QED
  BY <1>5, <1>6

(* The method of p is refused, gives up a lock or dies with its process.   *)
Stops(p) ==
    /\ program' = [program EXCEPT ![p] = Idle]
    /\ DOMAIN working' = Processes /\ working'[p] = None
    /\ torn' = (torn \/ program[p].method \in {"save", "clear"})
    /\ memory'[p] \in {memory[p], EmptyState} /\ loading'[p] \in {loading[p], None}
    /\ \A q \in Processes \ {p} :
          /\ working'[q] = working[q]
          /\ memory'[q] = memory[q] /\ loading'[q] = loading[q]
    /\ memory' \in [Processes -> States]
    /\ loading' \in [Processes -> {None} \cup {<<dict>> : dict \in Dicts}]
    /\ UNCHANGED <<db, kept>>

LEMMA StopStep ==
    ASSUME IInv, NEW p \in Processes, Stops(p)
    PROVE  IInv'
<1>1. /\ program \in [Processes -> Programs] /\ DOMAIN working = Processes
      /\ torn \in BOOLEAN
  BY DEF IInv, ProgramsOK, TablesOK
<1>2. /\ program' \in [Processes -> Programs] /\ program'[p] = Idle
      /\ \A q \in Processes \ {p} : program'[q] = program[q]
      /\ DOMAIN working' = Processes /\ working'[p] = None
      /\ db' = db /\ kept' = kept /\ torn' \in BOOLEAN
      /\ torn => torn'
      /\ program[p].method \in {"save", "clear"} => torn'
  BY <1>1, IdleFacts DEF Stops
<1>3. ASSUME NEW q \in Processes \ {p}
      PROVE  /\ Ahead(q)' = Ahead(q)
             /\ \A c, tx : SavesChannel(q, c, tx) <=> SavesChannel(q, c, tx)'
             /\ \A c, tx : SavesPreimage(q, c, tx) <=> SavesPreimage(q, c, tx)'
             /\ \A c, v, n : Partial(q, c, v, n) => Partial(q, c, v, n)'
             /\ IsSave(q) => IsSave(q)'
             /\ OneStatement(q) => OneStatement(q)'
             /\ \A n : Clearing(q, n) <=> Clearing(q, n)'
  BY <1>2, Frame DEF Stops
<1>4. ProgramsOK'
  <2>1. ASSUME NEW q \in Processes PROVE ProgramOK(q)'
    <3>1. CASE q = p
      BY <1>2, <3>1 DEF ProgramOK
    <3>2. CASE q # p
      BY <1>2, <1>3, <3>2 DEF ProgramOK, IInv, ProgramsOK, Stops
    <3>3. QED
      BY <3>1, <3>2
  <2>2. \A r \in Processes : (program[r].alone => \A q \in Processes \ {r} : program[q] = Idle)'
    BY <1>2, IdleFacts DEF IInv, ProgramsOK
  <2>3. QED
    BY <1>2, <2>1, <2>2 DEF ProgramsOK
<1>5. OneWriter'
  BY <1>2 DEF IInv, OneWriter, Stops
<1>6. TablesOK' /\ FiniteTables' /\ KeptOK'
  <2>1. TablesOK'
    BY <1>2 DEF IInv, TablesOK, IsTables, IsRows
  <2>2. FiniteTables' /\ KeptOK'
    BY <1>2 DEF IInv, FiniteTables, KeptOK
  <2>3. QED
    BY <2>1, <2>2
<1>7. MemoryOK'
  <2>1. IsFiniteSet(DOMAIN EmptyState.channels) /\ IsFiniteSet(EmptyState.preimages)
    BY FS_EmptySet DEF EmptyState, NoRows
  <2>2. QED
    BY <2>1 DEF IInv, MemoryOK, Stops
<1>8. RowsOK'
  <2>1. \A c : RowsOf(c)' = RowsOf(c) /\ Full(c)' = Full(c)
    BY <1>2 DEF RowsOf, Full
  <2>2. \A q \in Processes, n \in {3, 4} : Clearing(q, n) => torn' \/ Clearing(q, n)'
    BY <1>2, <1>3 DEF Clearing
  <2>3. \A c \in DOMAIN db.channels :
           \/ Full(c)'
           \/ RowsOf(c)' = {} /\ (torn' \/ \E q \in Processes, n \in {3, 4} : Clearing(q, n)')
    BY <1>2, <2>1, <2>2 DEF IInv, RowsOK
  <2>4. QED
    BY <1>2, <2>3 DEF IInv, RowsOK
<1>9. Unsaved'
  <2>1. ASSUME NEW q \in Processes, program'[q].method = "save"
        PROVE  /\ q \in Processes \ {p} /\ program'[q] = program[q] /\ memory'[q] = memory[q]
    BY <1>2, <2>1, IdleFacts DEF Stops
  <2>2. ASSUME NEW q \in Processes, program'[q].method = "save", program'[q].alone,
               NEW c \in DOMAIN memory'[q].channels
        PROVE  \/ c \in DOMAIN db'.channels /\ db'.channels[c] = memory'[q].channels[c]
               \/ \E j \in Ahead(q)' : SavesChannel(q, c, program[q].txs[j])'
               \/ \E v \in Versions, n \in Nat : Partial(q, c, v, n)'
    <3>1. \/ c \in DOMAIN db.channels /\ db.channels[c] = memory[q].channels[c]
          \/ \E j \in Ahead(q) : SavesChannel(q, c, program[q].txs[j])
          \/ \E v \in Versions, n \in Nat : Partial(q, c, v, n)
      BY <2>1, <2>2 DEF IInv, Unsaved
    <3>2. \A j : SavesChannel(q, c, program[q].txs[j]) => SavesChannel(q, c, program[q].txs[j])'
      BY <2>1, <2>2 DEF SavesChannel
    <3>3. QED
      BY <1>2, <1>3, <2>1, <2>2, <3>1, <3>2
  <2>3. ASSUME NEW q \in Processes, program'[q].method = "save", program'[q].alone \/ ~torn',
               NEW hash \in memory'[q].preimages
        PROVE  \/ hash \in db'.preimages
               \/ \E j \in Ahead(q)' : SavesPreimage(q, hash, program[q].txs[j])'
    <3>1. \/ hash \in db.preimages
          \/ \E j \in Ahead(q) : SavesPreimage(q, hash, program[q].txs[j])
      BY <1>2, <2>1, <2>3 DEF IInv, Unsaved
    <3>2. \A j : SavesPreimage(q, hash, program[q].txs[j])
                 => SavesPreimage(q, hash, program[q].txs[j])'
      BY <2>1, <2>3 DEF SavesPreimage
    <3>3. QED
      BY <1>2, <1>3, <2>1, <2>3, <3>1, <3>2
  <2>4. QED
    BY <2>2, <2>3 DEF Unsaved
<1>10. ClearsAlone'
  <2>1. SUFFICES ASSUME ~torn', NEW q \in Processes, program'[q].method = "clear"
                 PROVE  /\ \A r \in Processes \ {q} : program'[r].method \notin {"save", "clear"}
                        /\ \A r \in Processes : loading'[r] = None
                        /\ \A n \in {1, 2} : Clearing(q, n)' => DOMAIN db'.channels = {}
    BY DEF ClearsAlone
  <2>2. ~torn /\ q # p /\ program'[q] = program[q]
    BY <1>1, <1>2, <2>1, IdleFacts
  <2>3. /\ \A r \in Processes \ {q} : program[r].method \notin {"save", "clear"}
        /\ \A r \in Processes : loading[r] = None
        /\ \A n \in {1, 2} : Clearing(q, n) => DOMAIN db.channels = {}
    BY <2>1, <2>2 DEF IInv, ClearsAlone
  <2>4. QED
    BY <1>2, <1>3, <2>2, <2>3, IdleFacts DEF Stops
<1>11. Learnt'
  <2>1. SUFFICES ASSUME ~torn' PROVE Learnt'
    BY DEF Learnt
  <2>2. ~torn /\ program[p].method \notin {"save", "clear"}
    BY <1>1, <1>2, <2>1
  <2>3. ASSUME NEW q \in Processes
        PROVE  /\ Knows(memory'[q].channels, memory'[q].preimages)
               /\ loading'[q] # None => Knows(loading'[q][1], db'.preimages)
    <3>1. Knows(EmptyState.channels, EmptyState.preimages)
      BY DEF Knows, EmptyState, NoRows
    <3>2. /\ Knows(memory[q].channels, memory[q].preimages)
          /\ loading[q] # None => Knows(loading[q][1], db.preimages)
      BY <2>2 DEF IInv, Learnt
    <3>3. QED
      BY <1>2, <3>1, <3>2 DEF Stops
  <2>4. ASSUME NEW c \in DOMAIN db'.channels, db'.channels[c] >= Redeemed
        PROVE  \/ c \in db'.preimages
               \/ \E q \in Processes : program'[q].method = "save" /\
                     \E j \in Ahead(q)' : SavesPreimage(q, c, program[q].txs[j])'
    <3>1. \/ c \in db.preimages
          \/ \E q \in Processes : program[q].method = "save" /\
                \E j \in Ahead(q) : SavesPreimage(q, c, program[q].txs[j])
      BY <1>2, <2>2, <2>4 DEF IInv, Learnt
    <3>2. ASSUME NEW q \in Processes, program[q].method = "save",
                 NEW j \in Ahead(q), SavesPreimage(q, c, program[q].txs[j])
          PROVE  /\ program'[q].method = "save" /\ j \in Ahead(q)'
                 /\ SavesPreimage(q, c, program[q].txs[j])'
      <4>1. q \in Processes \ {p} /\ program'[q] = program[q] /\ memory'[q] = memory[q]
        BY <1>2, <2>2, <3>2 DEF Stops
      <4>2. QED
        BY <1>3, <3>2, <4>1 DEF SavesPreimage
    <3>3. QED
      BY <1>2, <3>1, <3>2
  <2>5. QED
    BY <2>3, <2>4 DEF Learnt
<1>12. QED
  BY <1>4, <1>5, <1>6, <1>7, <1>8, <1>9, <1>10, <1>11 DEF IInv

(* An idle process changes what it holds.                                  *)
Looks(p) ==
    /\ program[p] = Idle
    /\ UNCHANGED <<db, working, program, kept>>
    /\ torn' \in BOOLEAN /\ (torn => torn')
    /\ MemoryOK'
    /\ \A q \in Processes \ {p} : memory'[q] = memory[q] /\ loading'[q] = loading[q]
    /\ loading'[p] # None => loading'[p] = loading[p] \/ torn' \/ ~Busy({"clear"})
    /\ ~torn' => /\ Knows(memory'[p].channels, memory'[p].preimages)
                 /\ loading'[p] # None => Knows(loading'[p][1], db.preimages)

LEMMA LookStep ==
    ASSUME IInv, NEW p \in Processes, Looks(p)
    PROVE  IInv'
<1>1. /\ db' = db /\ working' = working /\ program' = program /\ kept' = kept
      /\ program[p].method = "none" /\ program[p].txs = <<>> /\ working[p] = None
  BY IdleFacts DEF Looks, IInv, ProgramsOK, ProgramOK
<1>2. ASSUME NEW q \in Processes \ {p}
      PROVE  /\ Ahead(q)' = Ahead(q)
             /\ \A c, tx : SavesChannel(q, c, tx) <=> SavesChannel(q, c, tx)'
             /\ \A c, tx : SavesPreimage(q, c, tx) <=> SavesPreimage(q, c, tx)'
             /\ \A c, v, n : Partial(q, c, v, n) => Partial(q, c, v, n)'
             /\ IsSave(q) => IsSave(q)'
             /\ OneStatement(q) => OneStatement(q)'
             /\ \A n : Clearing(q, n) <=> Clearing(q, n)'
  BY <1>1, Frame DEF Looks
<1>3. ProgramsOK'
  <2>1. ASSUME NEW q \in Processes PROVE ProgramOK(q)'
    <3>1. CASE q = p
      BY <1>1, <3>1 DEF ProgramOK, Looks
    <3>2. CASE q # p
      BY <1>1, <1>2, <3>2 DEF ProgramOK, IInv, ProgramsOK, Looks
    <3>3. QED
      BY <3>1, <3>2
  <2>2. QED
    BY <1>1, <2>1 DEF IInv, ProgramsOK
<1>4. OneWriter' /\ TablesOK' /\ FiniteTables' /\ KeptOK' /\ MemoryOK'
  BY <1>1 DEF IInv, OneWriter, TablesOK, IsTables, IsRows, FiniteTables, KeptOK, Looks
<1>5. RowsOK'
  <2>1. \A c : RowsOf(c)' = RowsOf(c) /\ Full(c)' = Full(c)
    BY <1>1 DEF RowsOf, Full
  <2>2. \A q \in Processes : \A n : Clearing(q, n)' = Clearing(q, n)
    BY <1>1 DEF Clearing
  <2>3. QED
    BY <1>1, <2>1, <2>2 DEF IInv, RowsOK, Looks
<1>6. Unsaved'
  <2>1. ASSUME NEW q \in Processes, program'[q].method = "save"
        PROVE  /\ q \in Processes \ {p} /\ program[q].method = "save" /\ memory'[q] = memory[q]
    BY <1>1, <2>1 DEF Looks
  <2>2. ASSUME NEW q \in Processes, program'[q].method = "save", program'[q].alone,
               NEW c \in DOMAIN memory'[q].channels
        PROVE  \/ c \in DOMAIN db'.channels /\ db'.channels[c] = memory'[q].channels[c]
               \/ \E j \in Ahead(q)' : SavesChannel(q, c, program[q].txs[j])'
               \/ \E v \in Versions, n \in Nat : Partial(q, c, v, n)'
    <3>1. \/ c \in DOMAIN db.channels /\ db.channels[c] = memory[q].channels[c]
          \/ \E j \in Ahead(q) : SavesChannel(q, c, program[q].txs[j])
          \/ \E v \in Versions, n \in Nat : Partial(q, c, v, n)
      BY <1>1, <2>1, <2>2 DEF IInv, Unsaved
    <3>2. \A j : SavesChannel(q, c, program[q].txs[j]) => SavesChannel(q, c, program[q].txs[j])'
      BY <1>1, <2>1, <2>2 DEF SavesChannel
    <3>3. QED
      BY <1>1, <1>2, <2>1, <2>2, <3>1, <3>2
  <2>3. ASSUME NEW q \in Processes, program'[q].method = "save", program'[q].alone \/ ~torn',
               NEW hash \in memory'[q].preimages
        PROVE  \/ hash \in db'.preimages
               \/ \E j \in Ahead(q)' : SavesPreimage(q, hash, program[q].txs[j])'
    <3>1. \/ hash \in db.preimages
          \/ \E j \in Ahead(q) : SavesPreimage(q, hash, program[q].txs[j])
      <4>1. program[q].alone \/ ~torn
        BY <1>1, <2>3 DEF Looks
      <4>2. QED
        BY <2>1, <2>3, <4>1 DEF IInv, Unsaved
    <3>2. \A j : SavesPreimage(q, hash, program[q].txs[j])
                 => SavesPreimage(q, hash, program[q].txs[j])'
      BY <1>1, <2>1, <2>3 DEF SavesPreimage
    <3>3. QED
      BY <1>1, <1>2, <2>1, <2>3, <3>1, <3>2
  <2>4. QED
    BY <2>2, <2>3 DEF Unsaved
<1>7. ClearsAlone'
  <2>1. SUFFICES ASSUME ~torn', NEW q \in Processes, program[q].method = "clear"
                 PROVE  /\ \A r \in Processes \ {q} : program[r].method \notin {"save", "clear"}
                        /\ \A r \in Processes : loading'[r] = None
                        /\ \A n \in {1, 2} : Clearing(q, n)' => DOMAIN db.channels = {}
    BY <1>1 DEF ClearsAlone
  <2>2. ~torn
    BY <2>1 DEF Looks
  <2>3. /\ \A r \in Processes \ {q} : program[r].method \notin {"save", "clear"}
        /\ \A r \in Processes : loading[r] = None
        /\ \A n \in {1, 2} : Clearing(q, n) => DOMAIN db.channels = {}
    BY <2>1, <2>2 DEF IInv, ClearsAlone
  <2>4. \A n : Clearing(q, n)' = Clearing(q, n)
    BY <1>1 DEF Clearing
  <2>5. Busy({"clear"})
    BY <2>1 DEF Busy
  <2>6. QED
    BY <2>1, <2>3, <2>4, <2>5 DEF Looks
<1>8. Learnt'
  <2>1. SUFFICES ASSUME ~torn' PROVE Learnt'
    BY DEF Learnt
  <2>2. ~torn
    BY <2>1 DEF Looks
  <2>3. ASSUME NEW q \in Processes
        PROVE  /\ Knows(memory'[q].channels, memory'[q].preimages)
               /\ loading'[q] # None => Knows(loading'[q][1], db'.preimages)
    BY <1>1, <2>1, <2>2 DEF IInv, Learnt, Looks
  <2>4. ASSUME NEW c \in DOMAIN db'.channels, db'.channels[c] >= Redeemed
        PROVE  \/ c \in db'.preimages
               \/ \E q \in Processes : program'[q].method = "save" /\
                     \E j \in Ahead(q)' : SavesPreimage(q, c, program[q].txs[j])'
    <3>1. \/ c \in db.preimages
          \/ \E q \in Processes : program[q].method = "save" /\
                \E j \in Ahead(q) : SavesPreimage(q, c, program[q].txs[j])
      BY <1>1, <2>2, <2>4 DEF IInv, Learnt
    <3>2. ASSUME NEW q \in Processes, program[q].method = "save",
                 NEW j \in Ahead(q), SavesPreimage(q, c, program[q].txs[j])
          PROVE  /\ program'[q].method = "save" /\ j \in Ahead(q)'
                 /\ SavesPreimage(q, c, program[q].txs[j])'
      <4>1. q \in Processes \ {p} /\ memory'[q] = memory[q]
        BY <1>1, <3>2 DEF Looks
      <4>2. QED
        BY <1>1, <1>2, <3>2, <4>1 DEF SavesPreimage
    <3>3. QED
      BY <1>1, <3>1, <3>2
  <2>5. QED
    BY <2>3, <2>4 DEF Learnt
<1>9. QED
  BY <1>3, <1>4, <1>5, <1>6, <1>7, <1>8 DEF IInv

(* What a save of everything starts with.                                  *)
Begins(p, txs) ==
    /\ \A j \in 1..Len(txs) :
          \/ \E c \in Channels : SavesChannel(p, c, txs[j])
          \/ \E hash \in Channels : SavesPreimage(p, hash, txs[j])
    /\ \A c \in DOMAIN memory[p].channels : \E j \in 1..Len(txs) : SavesChannel(p, c, txs[j])
    /\ \A hash \in memory[p].preimages : \E j \in 1..Len(txs) : SavesPreimage(p, hash, txs[j])

LEMMA CallStep ==
    ASSUME IInv, NEW p \in Processes, NEW method \in Methods, NEW txs \in Seq(Transactions),
           Call(p, method, txs), MemoryOK',
           \A q \in Processes \ {p} : memory'[q] = memory[q],
           Knows(memory[p].channels, memory[p].preimages)
              => Knows(memory'[p].channels, memory'[p].preimages),
           \/ method = "save" /\ UNCHANGED memory /\ Begins(p, txs)
           \/ method \notin {"save", "clear"} /\ OneStatement(p)'
           \/ method = "clear" /\ Clearing(p, 5)'
    PROVE  IInv'
<1> DEFINE alone == \A r \in Processes : program[r] = Idle
           new == [method |-> method, txs |-> txs, alone |-> alone]
<1>1. /\ program \in [Processes -> Programs] /\ torn \in BOOLEAN /\ txs # <<>>
      /\ program[p] = Idle /\ loading[p] = None
      /\ program[p].method = "none" /\ program[p].txs = <<>> /\ working[p] = None
      /\ db' = db /\ working' = working /\ loading' = loading /\ kept' = kept
  BY IdleFacts DEF Call, IsFree, IInv, ProgramsOK, ProgramOK, TablesOK
<1>2. new \in Programs /\ new.method = method /\ new.txs = txs /\ new.alone = alone
  <2>1. alone \in BOOLEAN
    OBVIOUS
  <2> HIDE DEF alone
  <2>2. QED
    BY <2>1 DEF Programs
<1>3. program' = [q \in Processes |-> IF q = p THEN new ELSE [program[q] EXCEPT !.alone = FALSE]]
  BY DEF Call
<1> HIDE DEF new
<1>4. program'[p].method = method /\ program'[p].txs = txs /\ program'[p].alone = alone
  BY <1>2, <1>3
<1>5. ASSUME NEW q \in Processes \ {p}
      PROVE  /\ program'[q] \in Programs /\ program'[q].method = program[q].method
             /\ program'[q].txs = program[q].txs /\ program'[q].alone = FALSE
             /\ program[q] = Idle => program'[q] = Idle
  <2> DEFINE g == program[q]
  <2>1. g \in Programs
    BY <1>1
  <2>2. program'[q] = [g EXCEPT !.alone = FALSE]
    BY <1>3
  <2> HIDE DEF g
  <2>3. /\ program'[q] \in Programs /\ program'[q].method = g.method
        /\ program'[q].txs = g.txs /\ program'[q].alone = FALSE
    BY <2>1, <2>2, ProgramFields
  <2>4. g = Idle => program'[q] = Idle
    BY <2>2, IdleFacts
  <2>5. QED
    BY <2>3, <2>4 DEF g
<1>6. /\ torn' \in BOOLEAN /\ (torn => torn')
      /\ ~torn' /\ method = "clear" => \A q \in Processes :
            program[q].method \notin {"save", "clear"} /\ loading[q] = None
      /\ ~torn' /\ method = "save" => \A q \in Processes : program[q].method # "clear"
  BY <1>1 DEF Call, Busy
<1>7. ASSUME NEW q \in Processes \ {p}
      PROVE  /\ Ahead(q)' = Ahead(q)
             /\ \A c, tx : SavesChannel(q, c, tx) <=> SavesChannel(q, c, tx)'
             /\ \A c, tx : SavesPreimage(q, c, tx) <=> SavesPreimage(q, c, tx)'
             /\ \A c, v, n : Partial(q, c, v, n) => Partial(q, c, v, n)'
             /\ IsSave(q) => IsSave(q)'
             /\ OneStatement(q) => OneStatement(q)'
             /\ \A n : Clearing(q, n) <=> Clearing(q, n)'
  BY <1>1, <1>5, Frame
<1>8. Ahead(p)' = 1..Len(txs)
  BY <1>1, <1>4 DEF Ahead
<1>9. method = "save" => IsSave(p)'
  <2>1. SUFFICES ASSUME method = "save" PROVE IsSave(p)'
    OBVIOUS
  <2>2. UNCHANGED memory /\ Begins(p, txs)
    BY <2>1
  <2>3. ASSUME NEW j \in Ahead(p)'
        PROVE  \/ \E c \in Channels : SavesChannel(p, c, program[p].txs[j])'
               \/ \E hash \in Channels : SavesPreimage(p, hash, program[p].txs[j])'
    BY <1>4, <1>8, <2>2 DEF Begins, SavesChannel, SavesPreimage
  <2>4. QED
    BY <1>1, <1>4, <2>1, <2>3 DEF IsSave
<1>10. ProgramsOK'
  <2>1. program' \in [Processes -> Programs]
    BY <1>2, <1>3, <1>5
  <2>2. ASSUME NEW q \in Processes PROVE ProgramOK(q)'
    <3>1. CASE q = p
      BY <1>1, <1>4, <1>9, <3>1 DEF ProgramOK
    <3>2. CASE q # p
      BY <1>1, <1>5, <1>7, <3>2 DEF ProgramOK, IInv, ProgramsOK
    <3>3. QED
      BY <3>1, <3>2
  <2>3. \A r \in Processes : (program[r].alone => \A q \in Processes \ {r} : program[q] = Idle)'
    BY <1>4, <1>5
  <2>4. QED
    BY <1>1, <2>1, <2>2, <2>3 DEF IInv, ProgramsOK
<1>11. OneWriter' /\ TablesOK' /\ FiniteTables' /\ KeptOK' /\ MemoryOK'
  BY <1>1, <1>6 DEF IInv, OneWriter, TablesOK, IsTables, IsRows, FiniteTables, KeptOK
<1>12. RowsOK'
  <2>1. \A c : RowsOf(c)' = RowsOf(c) /\ Full(c)' = Full(c)
    BY <1>1 DEF RowsOf, Full
  <2>2. \A q \in Processes : \A n : Clearing(q, n) => Clearing(q, n)'
    <3>1. \A n : ~Clearing(p, n)
      BY <1>1 DEF Clearing
    <3>2. QED
      BY <1>7, <3>1
  <2>3. QED
    BY <1>1, <1>6, <2>1, <2>2 DEF IInv, RowsOK
<1>13. Unsaved'
  <2>1. ASSUME NEW q \in Processes, program'[q].method = "save", program'[q].alone,
               NEW c \in DOMAIN memory'[q].channels
        PROVE  \E j \in Ahead(q)' : SavesChannel(q, c, program[q].txs[j])'
    <3>1. q = p
      BY <1>5, <2>1
    <3>2. UNCHANGED memory /\ Begins(p, txs)
      BY <1>4, <2>1, <3>1 DEF OneStatement, Clearing
    <3>3. PICK j \in 1..Len(txs) : SavesChannel(p, c, txs[j])
      BY <2>1, <3>1, <3>2 DEF Begins
    <3>4. QED
      BY <1>4, <1>8, <3>1, <3>2, <3>3 DEF SavesChannel
  <2>2. ASSUME NEW q \in Processes, program'[q].method = "save", program'[q].alone \/ ~torn',
               NEW hash \in memory'[q].preimages
        PROVE  \/ hash \in db'.preimages
               \/ \E j \in Ahead(q)' : SavesPreimage(q, hash, program[q].txs[j])'
    <3>1. CASE q = p
      <4>1. UNCHANGED memory /\ Begins(p, txs)
        BY <1>4, <2>2, <3>1
      <4>2. PICK j \in 1..Len(txs) : SavesPreimage(p, hash, txs[j])
        BY <2>2, <3>1, <4>1 DEF Begins
      <4>3. QED
        BY <1>4, <1>8, <3>1, <4>1, <4>2 DEF SavesPreimage
    <3>2. CASE q # p
      <4>1. ~torn /\ program[q].method = "save" /\ hash \in memory[q].preimages
        BY <1>5, <1>6, <2>2, <3>2
      <4>2. \/ hash \in db.preimages
            \/ \E j \in Ahead(q) : SavesPreimage(q, hash, program[q].txs[j])
        BY <4>1 DEF IInv, Unsaved
      <4>3. \A j : SavesPreimage(q, hash, program[q].txs[j])
                   => SavesPreimage(q, hash, program[q].txs[j])'
        BY <1>5, <3>2 DEF SavesPreimage
      <4>4. QED
        BY <1>1, <1>7, <3>2, <4>2, <4>3
    <3>3. QED
      BY <3>1, <3>2
  <2>3. QED
    BY <2>1, <2>2 DEF Unsaved
<1>14. ClearsAlone'
  <2>1. SUFFICES ASSUME ~torn', NEW q \in Processes, program'[q].method = "clear"
                 PROVE  /\ \A r \in Processes \ {q} : program'[r].method \notin {"save", "clear"}
                        /\ \A r \in Processes : loading'[r] = None
                        /\ \A n \in {1, 2} : Clearing(q, n)' => DOMAIN db'.channels = {}
    BY DEF ClearsAlone
  <2>2. CASE q = p
    <3>1. method = "clear" /\ Clearing(p, 5)'
      BY <1>4, <2>1, <2>2
    <3>2. Len(program'[p].txs) = 5
      BY <3>1 DEF Clearing
    <3>3. \A n \in {1, 2} : ~Clearing(q, n)'
      BY <2>2, <3>2 DEF Clearing
    <3>4. QED
      BY <1>1, <1>5, <1>6, <2>1, <2>2, <3>1, <3>3
  <2>3. CASE q # p
    <3>1. program[q].method = "clear" /\ method \notin {"save", "clear"} /\ ~torn
      BY <1>5, <1>6, <2>1, <2>3
    <3>2. /\ \A r \in Processes \ {q} : program[r].method \notin {"save", "clear"}
          /\ \A r \in Processes : loading[r] = None
          /\ \A n \in {1, 2} : Clearing(q, n) => DOMAIN db.channels = {}
      BY <3>1 DEF IInv, ClearsAlone
    <3>3. \A r \in Processes \ {q} : program'[r].method \notin {"save", "clear"}
      BY <1>4, <1>5, <3>1, <3>2
    <3>4. QED
      BY <1>1, <1>7, <2>3, <3>2, <3>3
  <2>4. QED
    BY <2>2, <2>3
<1>15. Learnt'
  <2>1. SUFFICES ASSUME ~torn' PROVE Learnt'
    BY DEF Learnt
  <2>2. ~torn
    BY <1>6, <2>1
  <2>3. ASSUME NEW q \in Processes
        PROVE  /\ Knows(memory'[q].channels, memory'[q].preimages)
               /\ loading'[q] # None => Knows(loading'[q][1], db'.preimages)
    BY <1>1, <2>2 DEF IInv, Learnt
  <2>4. ASSUME NEW c \in DOMAIN db'.channels, db'.channels[c] >= Redeemed
        PROVE  \/ c \in db'.preimages
               \/ \E q \in Processes : program'[q].method = "save" /\
                     \E j \in Ahead(q)' : SavesPreimage(q, c, program[q].txs[j])'
    <3>1. \/ c \in db.preimages
          \/ \E q \in Processes : program[q].method = "save" /\
                \E j \in Ahead(q) : SavesPreimage(q, c, program[q].txs[j])
      BY <1>1, <2>2, <2>4 DEF IInv, Learnt
    <3>2. ASSUME NEW q \in Processes, program[q].method = "save",
                 NEW j \in Ahead(q), SavesPreimage(q, c, program[q].txs[j])
          PROVE  /\ program'[q].method = "save" /\ j \in Ahead(q)'
                 /\ SavesPreimage(q, c, program[q].txs[j])'
      <4>1. q \in Processes \ {p}
        BY <1>1, <3>2
      <4>2. QED
        BY <1>5, <1>7, <3>2, <4>1 DEF SavesPreimage
    <3>3. QED
      BY <1>1, <3>1, <3>2
  <2>5. QED
    BY <2>3, <2>4 DEF Learnt
<1>16. QED
  BY <1>10, <1>11, <1>12, <1>13, <1>14, <1>15 DEF IInv

(* Every statement of save_channel is about its channel.                   *)
LEMMA StatementOfPartial ==
    ASSUME NEW p \in Processes, NEW c, NEW v, NEW n, MemoryOK, Partial(p, c, v, n)
    PROVE  program[p].txs[1][1].c = c
<1>1. c \in Channels /\ v \in Versions
  BY DEF Partial, MemoryOK, States, Dicts
<1>2. /\ n \in 1..Length(v) - 1 /\ Length(v) \in Nat
      /\ \A k \in 1..Length(v) - n : program[p].txs[1][k] = SaveChannel(c, v)[n + k]
  BY <1>1, VersionFacts DEF Partial
<1>3. program[p].txs[1][1] = SaveChannel(c, v)[n + 1] /\ n + 1 \in 2..Length(v)
  BY <1>2
<1>4. SaveChannel(c, v)[n + 1] = DeleteHtlcs(c)
      \/ \E h : SaveChannel(c, v)[n + 1] = InsertHtlc(c, h, v)
  <2>1. n + 1 = 2 \/ n + 1 \in 3..Length(v)
    BY <1>2, <1>3
  <2>2. QED
    BY <1>1, <2>1, SaveChannelFacts
<1>5. DeleteHtlcs(c).c = c /\ \A h : InsertHtlc(c, h, v).c = c
  BY DEF DeleteHtlcs, InsertHtlc
<1>6. QED
  BY <1>3, <1>4, <1>5

LEMMA SavesDiffer ==
    ASSUME NEW c \in Channels, NEW v \in Versions, NEW hash
    PROVE  SaveChannel(c, v) # <<UpsertPreimage(hash)>>
<1>1. Len(<<UpsertPreimage(hash)>>) = 1 /\ Len(SaveChannel(c, v)) = Length(v)
  BY SaveChannelFacts
<1>2. Length(v) # 1
  BY VersionFacts
<1>3. QED
  BY <1>1, <1>2, Zenon

(* The transaction of p begins or goes on: nothing is visible yet.         *)
LEMMA GoesOnStep ==
    ASSUME IInv, NEW p \in Processes, NEW c \in Channels, NEW v \in Versions,
           NEW n \in 1..Length(v) - 1, IsSave(p), GoesOn(p, c, v, n),
           c \in DOMAIN memory[p].channels, v = memory[p].channels[c],
           \/ working[p] = None /\ SavesChannel(p, c, program[p].txs[1]) /\ n = 1
           \/ Partial(p, c, v, n - 1),
           \A q \in Processes \ {p} : working[q] = None,
           program[p].txs # <<>>, UNCHANGED <<memory, loading>>
    PROVE  IInv'
<1> DEFINE g == program[p]
           txs == program[p].txs
           rest == <<Tail(txs[1])>> \o Tail(txs)
<1>1. /\ program \in [Processes -> Programs] /\ DOMAIN working = Processes
      /\ txs \in Seq(Transactions) /\ txs # <<>> /\ Len(txs) \in Nat \ {0}
      /\ txs[1] \in Transactions /\ g.method = "save" /\ loading[p] = None
  <2>1. /\ program \in [Processes -> Programs] /\ DOMAIN working = Processes
        /\ txs \in Seq(Transactions) /\ txs # <<>> /\ g.method = "save"
    BY DEF IInv, ProgramsOK, Programs, IsSave
  <2>2. loading[p] = None
    BY <2>1, IdleFacts DEF IInv, ProgramsOK, ProgramOK
  <2>3. Len(txs) \in Nat \ {0}
    BY <2>1, EmptySeq
  <2>4. QED
    BY <2>1, <2>2, <2>3, ElementOfSeq
<1>2. /\ Length(v) \in Nat /\ n \in Nat
      /\ Len(txs[1]) = Length(v) - n + 1
      /\ \A k \in 1..Length(v) - n + 1 : txs[1][k] = SaveChannel(c, v)[n - 1 + k]
  <2>1. Length(v) \in Nat /\ n \in Nat /\ n >= 1
    BY VersionFacts
  <2>2. CASE SavesChannel(p, c, txs[1]) /\ n = 1
    <3>1. txs[1] = SaveChannel(c, v) /\ Len(txs[1]) = Length(v)
      BY <2>2, SaveChannelFacts DEF SavesChannel
    <3>2. QED
      BY <2>1, <2>2, <3>1
  <2>3. CASE Partial(p, c, v, n - 1)
    BY <2>1, <2>3 DEF Partial
  <2>4. QED
    BY <2>1, <2>2, <2>3
<1>3. txs[1] # <<>> /\ Tail(txs[1]) \in Transactions
      /\ Len(Tail(txs[1])) = Length(v) - n
      /\ \A k \in 1..Length(v) - n : Tail(txs[1])[k] = SaveChannel(c, v)[n + k]
  <2> DEFINE tx == txs[1]
  <2>1. /\ tx \in Seq(Statements) /\ Len(tx) = Length(v) - n + 1
        /\ \A k \in 1..Length(v) - n + 1 : tx[k] = SaveChannel(c, v)[n - 1 + k]
    BY <1>1, <1>2 DEF Transactions
  <2> HIDE DEF tx
  <2>2. tx # <<>>
    BY <1>2, <2>1, EmptySeq
  <2>3. /\ Tail(tx) \in Seq(Statements) /\ Len(Tail(tx)) = Len(tx) - 1
        /\ \A i \in 1..Len(Tail(tx)) : Tail(tx)[i] = tx[i + 1]
    BY <2>1, <2>2, HeadTailProperties
  <2> DEFINE t == Tail(tx)
  <2>4. /\ t \in Seq(Statements) /\ Len(t) = Len(tx) - 1
        /\ \A i \in 1..Len(t) : t[i] = tx[i + 1]
    BY <2>3
  <2> HIDE DEF t
  <2>5. Len(t) = Length(v) - n
    BY <1>2, <2>1, <2>4
  <2>6. ASSUME NEW k \in 1..Length(v) - n PROVE t[k] = SaveChannel(c, v)[n + k]
    <3>1. t[k] = tx[k + 1] /\ k + 1 \in 1..Length(v) - n + 1 /\ n - 1 + (k + 1) = n + k
      BY <1>2, <2>4, <2>5
    <3>2. QED
      BY <2>1, <3>1
  <2>7. QED
    BY <2>2, <2>4, <2>5, <2>6 DEF tx, t, Transactions
<1>4. /\ rest \in Seq(Transactions) /\ Len(rest) = Len(txs)
      /\ rest[1] = Tail(txs[1]) /\ \A j \in 2..Len(txs) : rest[j] = txs[j]
  BY <1>1, <1>3, ReplaceFirst
<1>5. rest # <<>>
  BY <1>1, <1>4, EmptySeq
<1>6. /\ program' = [program EXCEPT ![p] = [g EXCEPT !.txs = rest]]
      /\ working' = [working EXCEPT ![p] = <<After(c, v, n)>>]
      /\ db' = db /\ kept' = kept /\ torn' = torn /\ memory' = memory /\ loading' = loading
  BY DEF GoesOn
<1> HIDE DEF rest
<1>7. /\ program' \in [Processes -> Programs] /\ DOMAIN working' = Processes
      /\ program'[p].txs = rest /\ program'[p].method = "save"
      /\ program'[p].alone = program[p].alone
      /\ working'[p] = <<After(c, v, n)>>
      /\ \A q \in Processes \ {p} : program'[q] = program[q] /\ working'[q] = working[q]
  <2>1. g \in Programs
    BY <1>1
  <2> HIDE DEF g
  <2>2. /\ [g EXCEPT !.txs = rest] \in Programs
        /\ [g EXCEPT !.txs = rest].method = g.method
        /\ [g EXCEPT !.txs = rest].txs = rest
        /\ [g EXCEPT !.txs = rest].alone = g.alone
    BY <1>4, <2>1, ProgramFields
  <2>3. QED
    BY <1>1, <1>6, <2>2 DEF g
<1>8. Partial(p, c, v, n)'
  <2>1. After(c, v, n)' = After(c, v, n)
    BY <1>6 DEF After
  <2>2. program'[p].txs[1] = Tail(txs[1])
    BY <1>4, <1>7
  <2>3. /\ Len(program'[p].txs[1]) = Length(v) - n
        /\ \A k \in 1..Length(v) - n : program'[p].txs[1][k] = SaveChannel(c, v)[n + k]
    BY <1>3, <2>2, Zenon
  <2>4. QED
    BY <1>6, <1>7, <2>1, <2>3 DEF Partial
<1>9. Ahead(p)' = 2..Len(txs)
  BY <1>1, <1>4, <1>7, NoneFacts DEF Ahead
<1>10. /\ \A j \in Ahead(p) : j \in 2..Len(txs)
                              \/ (j = 1 /\ SavesChannel(p, c, program[p].txs[1]))
       /\ \A j \in 2..Len(txs) : j \in Ahead(p) /\ program'[p].txs[j] = txs[j]
  <2>1. ASSUME NEW j \in Ahead(p)
        PROVE  j \in 2..Len(txs) \/ (j = 1 /\ SavesChannel(p, c, program[p].txs[1]))
    <3>1. j \in 2..Len(txs) \/ (j = 1 /\ working[p] = None)
      <4>1. j \in 1..Len(txs) /\ (j = 1 => working[p] = None)
        BY DEF Ahead
      <4>2. Len(txs) \in Nat
        BY <1>1
      <4>3. j = 1 \/ j \in 2..Len(txs)
        BY <4>1, <4>2
      <4>4. QED
        BY <4>1, <4>3, Zenon
    <3>2. working[p] = None => SavesChannel(p, c, program[p].txs[1])
      BY NoneFacts DEF Partial
    <3>3. QED
      BY <3>1, <3>2
  <2>2. QED
    BY <1>1, <1>4, <1>7, <2>1 DEF Ahead
<1>11. IsSave(p)'
  <2>1. ASSUME NEW j \in Ahead(p)'
        PROVE  \/ \E d \in Channels : SavesChannel(p, d, program[p].txs[j])'
               \/ \E hash \in Channels : SavesPreimage(p, hash, program[p].txs[j])'
    <3>1. j \in Ahead(p) /\ program'[p].txs[j] = program[p].txs[j]
      BY <1>9, <1>10
    <3>2. QED
      BY <1>6, <3>1 DEF IsSave, SavesChannel, SavesPreimage
  <2>2. QED
    BY <1>7, <1>8, <2>1 DEF IsSave
<1>12. ASSUME NEW q \in Processes \ {p}
      PROVE  /\ Ahead(q)' = Ahead(q)
             /\ \A d, tx : SavesChannel(q, d, tx) <=> SavesChannel(q, d, tx)'
             /\ \A d, tx : SavesPreimage(q, d, tx) <=> SavesPreimage(q, d, tx)'
             /\ \A d, w, m : Partial(q, d, w, m) => Partial(q, d, w, m)'
             /\ IsSave(q) => IsSave(q)'
             /\ OneStatement(q) => OneStatement(q)'
             /\ \A m : Clearing(q, m) <=> Clearing(q, m)'
  BY <1>6, <1>7, Frame
<1>13. ProgramsOK'
  <2>1. ASSUME NEW q \in Processes PROVE ProgramOK(q)'
    <3>1. CASE q = p
      BY <1>1, <1>5, <1>6, <1>7, <1>11, <3>1 DEF ProgramOK
    <3>2. CASE q # p
      BY <1>6, <1>7, <1>12, <3>2 DEF ProgramOK, IInv, ProgramsOK
    <3>3. QED
      BY <3>1, <3>2
  <2>2. \A r \in Processes : (program[r].alone => \A q \in Processes \ {r} : program[q] = Idle)'
    <3>1. program[p] # Idle
      BY <1>1, IdleFacts
    <3>2. QED
      BY <1>7, <3>1 DEF IInv, ProgramsOK
  <2>3. QED
    BY <1>7, <2>1, <2>2 DEF ProgramsOK
<1>14. OneWriter'
  BY <1>7 DEF OneWriter
<1>15. TablesOK' /\ FiniteTables' /\ KeptOK' /\ MemoryOK'
  BY <1>6 DEF IInv, TablesOK, IsTables, IsRows, FiniteTables, KeptOK, MemoryOK
<1>16. \A q \in Processes : \A m : Clearing(q, m) <=> Clearing(q, m)'
  <2>1. \A m : ~Clearing(p, m) /\ ~Clearing(p, m)'
    BY <1>1, <1>7 DEF Clearing
  <2>2. \A q \in Processes \ {p} : \A m : Clearing(q, m) <=> Clearing(q, m)'
    BY <1>12
  <2>3. QED
    BY <2>1, <2>2
<1>17. RowsOK'
  <2>1. \A d : RowsOf(d)' = RowsOf(d) /\ Full(d)' = Full(d)
    BY <1>6 DEF RowsOf, Full
  <2>2. ASSUME NEW d \in DOMAIN db.channels
        PROVE  \/ Full(d)
               \/ RowsOf(d) = {} /\ (torn \/ \E q \in Processes, m \in {3, 4} : Clearing(q, m)')
    BY <1>16, <2>2 DEF IInv, RowsOK
  <2>3. /\ \A row \in db.htlcs : row[1] \in DOMAIN db.channels
        /\ DOMAIN db.shachain \subseteq DOMAIN db.channels
    BY DEF IInv, RowsOK
  <2>4. /\ \A row \in db'.htlcs : row[1] \in DOMAIN db'.channels
        /\ DOMAIN db'.shachain \subseteq DOMAIN db'.channels
        /\ DOMAIN db'.channels = DOMAIN db.channels
    BY <1>6, <2>3
  <2>5. QED
    BY <1>6, <2>1, <2>2, <2>4 DEF RowsOK
<1>18. ASSUME NEW q \in Processes, program[q].method = "save", NEW hash,
              NEW j \in Ahead(q), SavesPreimage(q, hash, program[q].txs[j])
       PROVE  j \in Ahead(q)' /\ SavesPreimage(q, hash, program[q].txs[j])'
  <2>1. CASE q = p
    <3>1. ~SavesChannel(p, c, txs[j])
      BY <1>18, <2>1, SavesDiffer DEF SavesPreimage, SavesChannel
    <3>2. j \in 2..Len(txs)
      BY <1>10, <1>18, <2>1, <3>1
    <3>3. QED
      BY <1>6, <1>9, <1>10, <1>18, <2>1, <3>2 DEF SavesPreimage
  <2>2. CASE q # p
    BY <1>6, <1>7, <1>12, <1>18, <2>2 DEF SavesPreimage
  <2>3. QED
    BY <2>1, <2>2
<1>19. Unsaved'
  <2>1. ASSUME NEW q \in Processes, program'[q].method = "save", program'[q].alone,
               NEW d \in DOMAIN memory'[q].channels
        PROVE  \/ d \in DOMAIN db'.channels /\ db'.channels[d] = memory'[q].channels[d]
               \/ \E j \in Ahead(q)' : SavesChannel(q, d, program[q].txs[j])'
               \/ \E w \in Versions, m \in Nat : Partial(q, d, w, m)'
    <3>1. q = p
      <4>1. program[p] # Idle
        BY <1>1, IdleFacts
      <4>2. QED
        BY <1>7, <2>1, <4>1 DEF IInv, ProgramsOK
    <3>2. \/ d \in DOMAIN db.channels /\ db.channels[d] = memory[p].channels[d]
          \/ \E j \in Ahead(p) : SavesChannel(p, d, program[p].txs[j])
          \/ \E w \in Versions, m \in Nat : Partial(p, d, w, m)
      BY <1>1, <1>6, <1>7, <2>1, <3>1 DEF IInv, Unsaved
    <3>3. CASE d \in DOMAIN db.channels /\ db.channels[d] = memory[p].channels[d]
      BY <1>6, <3>1, <3>3
    <3>4. ASSUME NEW j \in Ahead(p), SavesChannel(p, d, program[p].txs[j])
          PROVE  \/ \E i \in Ahead(q)' : SavesChannel(q, d, program[q].txs[i])'
                 \/ \E w \in Versions, m \in Nat : Partial(q, d, w, m)'
      <4>1. CASE j \in 2..Len(txs)
        BY <1>6, <1>9, <1>10, <3>1, <3>4, <4>1 DEF SavesChannel
      <4>2. CASE SavesChannel(p, c, program[p].txs[j])
        <5>1. memory[p].channels[d] \in Versions /\ d \in Channels
          BY <1>6, <2>1, <3>1 DEF IInv, MemoryOK, States, Dicts
        <5>2. UpsertChannel(c, v) = UpsertChannel(d, memory[p].channels[d])
          <6>1. SaveChannel(c, v) = SaveChannel(d, memory[p].channels[d])
            BY <3>4, <4>2 DEF SavesChannel
          <6>2. QED
            BY <5>1, <6>1, SaveChannelFacts
        <5>3. c = d
          BY <5>2 DEF UpsertChannel
        <5>4. QED
          BY <1>2, <1>8, <3>1, <5>3
      <4>3. QED
        BY <1>10, <3>4, <4>1, <4>2
    <3>5. ASSUME NEW w \in Versions, NEW m \in Nat, Partial(p, d, w, m)
          PROVE  \E x \in Versions, y \in Nat : Partial(q, d, x, y)'
      <4>1. Partial(p, c, v, n - 1)
        BY <3>5, NoneFacts DEF Partial
      <4>2. d = c
        <5>1. program[p].txs[1][1].c = d
          BY <3>5, StatementOfPartial DEF IInv
        <5>2. program[p].txs[1][1].c = c
          BY <1>2, <4>1, StatementOfPartial DEF IInv
        <5>3. QED
          BY <5>1, <5>2
      <4>3. QED
        BY <1>2, <1>8, <3>1, <4>2
    <3>6. QED
      BY <3>2, <3>3, <3>4, <3>5
  <2>2. ASSUME NEW q \in Processes, program'[q].method = "save", program'[q].alone \/ ~torn',
               NEW hash \in memory'[q].preimages
        PROVE  \/ hash \in db'.preimages
               \/ \E j \in Ahead(q)' : SavesPreimage(q, hash, program[q].txs[j])'
    <3>1. /\ program[q].method = "save" /\ (program[q].alone \/ ~torn)
          /\ hash \in memory[q].preimages
      BY <1>1, <1>6, <1>7, <2>2
    <3>2. \/ hash \in db.preimages
          \/ \E j \in Ahead(q) : SavesPreimage(q, hash, program[q].txs[j])
      BY <3>1 DEF IInv, Unsaved
    <3>3. QED
      BY <1>6, <1>18, <3>1, <3>2
  <2>3. QED
    BY <2>1, <2>2 DEF Unsaved
<1>20. ClearsAlone'
  <2>1. \A q \in Processes : program'[q].method = program[q].method
    BY <1>1, <1>7
  <2>2. QED
    BY <1>6, <1>16, <2>1 DEF IInv, ClearsAlone
<1>21. Learnt'
  <2>1. \A q \in Processes : program'[q].method = program[q].method
    BY <1>1, <1>7
  <2>2. ASSUME ~torn, NEW d \in DOMAIN db.channels, db.channels[d] >= Redeemed
        PROVE  \/ d \in db.preimages
               \/ \E q \in Processes : program'[q].method = "save" /\
                     \E j \in Ahead(q)' : SavesPreimage(q, d, program[q].txs[j])'
    <3>1. \/ d \in db.preimages
          \/ \E q \in Processes : program[q].method = "save" /\
                \E j \in Ahead(q) : SavesPreimage(q, d, program[q].txs[j])
      BY <2>2 DEF IInv, Learnt
    <3>2. QED
      BY <1>18, <2>1, <3>1
  <2>3. QED
    BY <1>6, <2>2 DEF IInv, Learnt
<1>22. QED
  BY <1>13, <1>14, <1>15, <1>17, <1>19, <1>20, <1>21 DEF IInv

(* What a save has still to write, once its first transaction is committed.*)
StillToWrite(p) ==
    /\ program[p].alone => \A c \in DOMAIN memory[p].channels :
          \/ c \in DOMAIN db'.channels /\ db'.channels[c] = memory[p].channels[c]
          \/ \E j \in Ahead(p)' : SavesChannel(p, c, program'[p].txs[j])
    /\ program[p].alone \/ ~torn => \A hash \in memory[p].preimages :
          \/ hash \in db'.preimages
          \/ \E j \in Ahead(p)' : SavesPreimage(p, hash, program'[p].txs[j])

(* A transaction of p is committed, and what it writes is right.           *)
LEMMA CommitStep ==
    ASSUME IInv, NEW p \in Processes, NEW t, Commits(p, t), program[p].txs # <<>>,
           \A q \in Processes \ {p} : working[q] = None,
           UNCHANGED <<memory, loading>>,
           ProgramOK(p)', TablesOK', FiniteTables', RowsOK',
           ~torn => \/ db.preimages \subseteq db'.preimages
                    \/ program[p].method = "clear" /\ DOMAIN db'.channels = {},
           \A c \in DOMAIN db'.channels :
              \/ c \in DOMAIN db.channels /\ db'.channels[c] = db.channels[c]
              \/ /\ program[p].method = "save"
                 /\ c \in DOMAIN memory[p].channels /\ db'.channels[c] = memory[p].channels[c],
           ~torn /\ program[p].method = "clear" => \A n \in {1, 2} :
              Clearing(p, n)' => DOMAIN db'.channels = {},
           program[p].method = "save" => StillToWrite(p)
    PROVE  IInv'
<1> DEFINE txs == program[p].txs
<1>1. /\ program' \in [Processes -> Programs] /\ DOMAIN working' = Processes
      /\ working'[p] = None
      /\ \A q \in Processes \ {p} : program'[q] = program[q] /\ working'[q] = working[q]
      /\ \/ Len(txs) = 1 /\ program'[p] = Idle
         \/ /\ Len(txs) > 1 /\ program'[p].txs = Tail(txs)
            /\ program'[p].txs # <<>>
            /\ program'[p].method = program[p].method
            /\ program'[p].alone = program[p].alone
  BY PopSave DEF IInv, Commits
<1>2. /\ db' = t /\ torn' = torn /\ memory' = memory /\ loading' = loading
      /\ kept' = KeptAfter(p, Tail(txs), t)
  BY DEF Commits
<1>3. program[p] # Idle
  BY IdleFacts
<1>4. ASSUME NEW q \in Processes \ {p}
      PROVE  /\ Ahead(q)' = Ahead(q)
             /\ \A c, tx : SavesChannel(q, c, tx) <=> SavesChannel(q, c, tx)'
             /\ \A c, tx : SavesPreimage(q, c, tx) <=> SavesPreimage(q, c, tx)'
             /\ \A c, v, n : Partial(q, c, v, n) => Partial(q, c, v, n)'
             /\ IsSave(q) => IsSave(q)'
             /\ OneStatement(q) => OneStatement(q)'
             /\ \A n : Clearing(q, n) <=> Clearing(q, n)'
  BY <1>1, <1>2, Frame
<1>5. ProgramsOK'
  <2>1. ASSUME NEW q \in Processes PROVE ProgramOK(q)'
    BY <1>1, <1>2, <1>4, <2>1 DEF ProgramOK, IInv, ProgramsOK
  <2>2. \A r \in Processes : (program[r].alone => \A q \in Processes \ {r} : program[q] = Idle)'
    BY <1>1, <1>3, IdleFacts DEF IInv, ProgramsOK
  <2>3. QED
    BY <1>1, <2>1, <2>2 DEF ProgramsOK
<1>6. OneWriter'
  BY <1>1 DEF OneWriter
<1>7. MemoryOK'
  BY <1>2 DEF IInv, MemoryOK
<1>8. ASSUME NEW c, NEW tx
      PROVE  /\ SavesChannel(p, c, tx) <=> SavesChannel(p, c, tx)'
             /\ SavesPreimage(p, c, tx) <=> SavesPreimage(p, c, tx)'
  BY <1>2 DEF SavesChannel, SavesPreimage
<1>9. Unsaved'
  <2>1. ASSUME NEW q \in Processes, program'[q].method = "save", program'[q].alone,
               NEW c \in DOMAIN memory'[q].channels
        PROVE  \/ c \in DOMAIN db'.channels /\ db'.channels[c] = memory'[q].channels[c]
               \/ \E j \in Ahead(q)' : SavesChannel(q, c, program[q].txs[j])'
    <3>1. q = p
      BY <1>1, <1>3, <2>1 DEF IInv, ProgramsOK
    <3>2. program[p].method = "save" /\ program[p].alone
      BY <1>1, <2>1, <3>1, IdleFacts
    <3>3. \/ c \in DOMAIN db'.channels /\ db'.channels[c] = memory[p].channels[c]
          \/ \E j \in Ahead(p)' : SavesChannel(p, c, program'[p].txs[j])
      BY <1>2, <2>1, <3>1, <3>2 DEF StillToWrite
    <3>4. \A j : SavesChannel(p, c, program'[p].txs[j]) => SavesChannel(p, c, program[p].txs[j])'
      BY <1>2 DEF SavesChannel
    <3>5. QED
      BY <1>2, <3>1, <3>3, <3>4
  <2>2. ASSUME NEW q \in Processes, program'[q].method = "save", program'[q].alone \/ ~torn',
               NEW hash \in memory'[q].preimages
        PROVE  \/ hash \in db'.preimages
               \/ \E j \in Ahead(q)' : SavesPreimage(q, hash, program[q].txs[j])'
    <3>1. CASE q = p
      <4>1. program[p].method = "save" /\ (program[p].alone \/ ~torn)
        BY <1>1, <1>2, <2>2, <3>1, IdleFacts
      <4>2. \/ hash \in db'.preimages
            \/ \E j \in Ahead(p)' : SavesPreimage(p, hash, program'[p].txs[j])
        BY <1>2, <2>2, <3>1, <4>1 DEF StillToWrite
      <4>3. \A j : SavesPreimage(p, hash, program'[p].txs[j])
                   => SavesPreimage(p, hash, program[p].txs[j])'
        BY <1>2 DEF SavesPreimage
      <4>4. QED
        BY <3>1, <4>2, <4>3
    <3>2. CASE q # p
      <4>1. program[q].method = "save" /\ ~program[q].alone /\ ~torn
        BY <1>1, <1>2, <1>3, <2>2, <3>2 DEF IInv, ProgramsOK
      <4>2. \/ hash \in db.preimages
            \/ \E j \in Ahead(q) : SavesPreimage(q, hash, program[q].txs[j])
        BY <1>2, <2>2, <4>1 DEF IInv, Unsaved
      <4>3. program[p].method # "clear"
        BY <3>2, <4>1 DEF IInv, ClearsAlone
      <4>4. \A j : SavesPreimage(q, hash, program[q].txs[j])
                   => SavesPreimage(q, hash, program[q].txs[j])'
        BY <1>1, <1>2, <3>2 DEF SavesPreimage
      <4>5. QED
        BY <1>4, <3>2, <4>1, <4>2, <4>3, <4>4
    <3>3. QED
      BY <3>1, <3>2
  <2>3. QED
    BY <2>1, <2>2 DEF Unsaved
<1>10. KeptOK'
  <2>1. CASE Tail(txs) = <<>> /\ program[p].method = "save" /\ program[p].alone
    <3>1. kept' = <<memory[p]>>
      BY <1>2, <2>1 DEF KeptAfter
    <3>2. program'[p] = Idle
      BY <1>1, <2>1
    <3>3. Ahead(p)' = {}
      <4>1. Len(program'[p].txs) = 0
        BY <3>2, IdleFacts, EmptySeq
      <4>2. QED
        BY <4>1 DEF Ahead
    <3>4. /\ \A c \in DOMAIN memory[p].channels :
                c \in DOMAIN db'.channels /\ db'.channels[c] = memory[p].channels[c]
          /\ memory[p].preimages \subseteq db'.preimages
      BY <2>1, <3>3 DEF StillToWrite
    <3>5. QED
      BY <3>1, <3>4, NoneFacts DEF KeptOK
  <2>2. CASE ~(Tail(txs) = <<>> /\ program[p].method = "save" /\ program[p].alone)
    <3>1. \/ kept' = kept /\ db'.channels = db.channels /\ db'.preimages = db.preimages
          \/ kept' = None
      BY <1>2, <2>2 DEF KeptAfter
    <3>2. QED
      BY <3>1 DEF IInv, KeptOK
  <2>3. QED
    BY <2>1, <2>2
<1>11. ClearsAlone'
  <2>1. SUFFICES ASSUME ~torn', NEW q \in Processes, program'[q].method = "clear"
                 PROVE  /\ \A r \in Processes \ {q} : program'[r].method \notin {"save", "clear"}
                        /\ \A r \in Processes : loading'[r] = None
                        /\ \A n \in {1, 2} : Clearing(q, n)' => DOMAIN db'.channels = {}
    BY DEF ClearsAlone
  <2>2. program[q].method = "clear" /\ ~torn
    BY <1>1, <1>2, <2>1, IdleFacts
  <2>3. /\ \A r \in Processes \ {q} : program[r].method \notin {"save", "clear"}
        /\ \A r \in Processes : loading[r] = None
        /\ \A n \in {1, 2} : Clearing(q, n) => DOMAIN db.channels = {}
    BY <2>2 DEF IInv, ClearsAlone
  <2>4. \A r \in Processes \ {q} : program'[r].method \notin {"save", "clear"}
    BY <1>1, <2>3, IdleFacts
  <2>5. \A n \in {1, 2} : Clearing(q, n)' => DOMAIN db'.channels = {}
    <3>1. CASE q = p
      BY <2>2, <3>1
    <3>2. CASE q # p
      <4>1. program[p].method # "save"
        BY <2>3, <3>2
      <4>2. DOMAIN db.channels = {} => DOMAIN db'.channels = {}
        BY <4>1
      <4>3. QED
        BY <1>4, <2>3, <3>2, <4>2
    <3>3. QED
      BY <3>1, <3>2
  <2>6. QED
    BY <1>2, <2>3, <2>4, <2>5
<1>12. Learnt'
  <2>1. SUFFICES ASSUME ~torn' PROVE Learnt'
    BY DEF Learnt
  <2>2. ~torn
    BY <1>2, <2>1
  <2>3. ASSUME NEW q \in Processes
        PROVE  /\ Knows(memory'[q].channels, memory'[q].preimages)
               /\ loading'[q] # None => Knows(loading'[q][1], db'.preimages)
    <3>1. /\ Knows(memory[q].channels, memory[q].preimages)
          /\ loading[q] # None => Knows(loading[q][1], db.preimages)
      BY <2>2 DEF IInv, Learnt
    <3>2. program[p].method = "clear" => loading[q] = None
      BY <2>2 DEF IInv, ClearsAlone
    <3>3. QED
      BY <1>2, <2>2, <3>1, <3>2 DEF Knows
  <2>4. ASSUME NEW c, program[p].method = "save", c \in memory[p].preimages
        PROVE  \/ c \in db'.preimages
               \/ \E q \in Processes : program'[q].method = "save" /\
                     \E j \in Ahead(q)' : SavesPreimage(q, c, program[q].txs[j])'
    <3>1. \/ c \in db'.preimages
          \/ \E j \in Ahead(p)' : SavesPreimage(p, c, program'[p].txs[j])
      BY <2>2, <2>4 DEF StillToWrite
    <3>2. ASSUME NEW j \in Ahead(p)', SavesPreimage(p, c, program'[p].txs[j])
          PROVE  program'[p].method = "save" /\ SavesPreimage(p, c, program[p].txs[j])'
      <4>1. program'[p] # Idle
        <5>1. Len(<<>>) = 0
          BY EmptySeq
        <5>2. program'[p] = Idle => Ahead(p)' = {}
          BY <5>1, IdleFacts DEF Ahead
        <5>3. QED
          BY <3>2, <5>2
      <4>2. QED
        BY <1>1, <1>2, <2>4, <3>2, <4>1 DEF SavesPreimage
    <3>3. QED
      BY <3>1, <3>2
  <2>5. ASSUME NEW c \in DOMAIN db'.channels, db'.channels[c] >= Redeemed
        PROVE  \/ c \in db'.preimages
               \/ \E q \in Processes : program'[q].method = "save" /\
                     \E j \in Ahead(q)' : SavesPreimage(q, c, program[q].txs[j])'
    <3>1. CASE program[p].method = "save" /\ c \in memory[p].preimages
      BY <2>4, <3>1
    <3>2. CASE ~(program[p].method = "save" /\ c \in memory[p].preimages)
      <4>1. Knows(memory[p].channels, memory[p].preimages)
        BY <2>2 DEF IInv, Learnt
      <4>2. c \in DOMAIN db.channels /\ db.channels[c] >= Redeemed
        BY <2>5, <3>2, <4>1 DEF Knows
      <4>3. \/ c \in db.preimages
            \/ \E q \in Processes : program[q].method = "save" /\
                  \E j \in Ahead(q) : SavesPreimage(q, c, program[q].txs[j])
        BY <2>2, <4>2 DEF IInv, Learnt
      <4>4. ASSUME NEW q \in Processes, program[q].method = "save", NEW j \in Ahead(q),
                   SavesPreimage(q, c, program[q].txs[j])
            PROVE  /\ program'[q].method = "save" /\ j \in Ahead(q)'
                   /\ SavesPreimage(q, c, program[q].txs[j])'
        <5>1. q # p
          BY <3>2, <4>4 DEF SavesPreimage
        <5>2. QED
          BY <1>1, <1>2, <1>4, <4>4, <5>1 DEF SavesPreimage
      <4>5. CASE c \in db.preimages
        BY <2>2, <2>5, <4>5
      <4>6. QED
        BY <4>3, <4>4, <4>5
    <3>3. QED
      BY <3>1, <3>2
  <2>6. QED
    BY <2>3, <2>5 DEF Learnt
<1>13. QED
  BY <1>5, <1>6, <1>7, <1>9, <1>10, <1>11, <1>12 DEF IInv

LEMMA OthersClear ==
    ASSUME ProgramsOK, NEW p \in Processes, Pop(p), UNCHANGED memory, program[p].txs # <<>>
    PROVE  \A q \in Processes \ {p} : \A n : Clearing(q, n) => Clearing(q, n)'
BY PopSave DEF Clearing

LEMMA CommitChannel ==
    ASSUME IInv, NEW p \in Processes, NEW c \in Channels, NEW v \in Versions, NEW n \in Nat,
           IsSave(p), Partial(p, c, v, n), n = Length(v) - 1,
           Commits(p, After(c, v, Length(v))), program[p].txs # <<>>,
           \A q \in Processes \ {p} : working[q] = None,
           UNCHANGED <<memory, loading>>
    PROVE  IInv'
<1> DEFINE t == After(c, v, Length(v))
           new == {<<c, h, v>> : h \in Htlcs(v)}
<1>1. /\ ProgramsOK /\ MemoryOK /\ TablesOK /\ FiniteTables /\ RowsOK /\ Unsaved
      /\ Pop(p) /\ db' = t /\ torn' = torn /\ memory' = memory /\ loading' = loading
      /\ program[p].method = "save" /\ program[p] # Idle /\ working[p] # None
      /\ c \in DOMAIN memory[p].channels /\ v = memory[p].channels[c]
  BY IdleFacts, NoneFacts DEF IInv, Commits, IsSave, Partial
<1>2. /\ working'[p] = None
      /\ \/ Len(program[p].txs) = 1 /\ program'[p] = Idle
         \/ program'[p].txs # <<>>
      /\ \A j \in Ahead(p) :
            j # 1 => j - 1 \in Ahead(p)' /\ program'[p].txs[j - 1] = program[p].txs[j]
      /\ program'[p] = Idle \/ IsSave(p)'
  BY <1>1, PopSave
<1>3. ProgramOK(p)'
  <2>1. loading[p] = None
    BY <1>1 DEF ProgramsOK, ProgramOK
  <2>2. QED
    BY <1>1, <1>2, <2>1 DEF ProgramOK
<1>4. /\ IsTables(db') /\ db'.channels = Put(db.channels, c, v)
      /\ db'.htlcs = RowsWithout(db.htlcs, {c}) \cup new
      /\ db'.shachain = db.shachain /\ db'.preimages = db.preimages /\ db'.hints = db.hints
  BY <1>1, AfterAll DEF TablesOK
<1> HIDE DEF new
<1>5. /\ db'.channels \in Dicts /\ DOMAIN db'.channels = DOMAIN db.channels \cup {c}
      /\ db'.channels[c] = v
      /\ \A d \in DOMAIN db.channels \ {c} : db'.channels[d] = db.channels[d]
  <2> DEFINE f == db.channels
  <2>1. f \in Dicts
    BY <1>1 DEF TablesOK
  <2>2. db'.channels = Put(f, c, v)
    BY <1>4
  <2> HIDE DEF f
  <2>3. /\ Put(f, c, v) \in Dicts /\ DOMAIN Put(f, c, v) = DOMAIN f \cup {c}
        /\ Put(f, c, v)[c] = v /\ \A d \in DOMAIN f \ {c} : Put(f, c, v)[d] = f[d]
    BY <2>1, PutFacts
  <2>4. QED
    BY <2>2, <2>3 DEF f
<1>6. TablesOK'
  BY <1>1, <1>4, <1>5 DEF TablesOK, IsRows
<1>7. FiniteTables'
  BY <1>1, <1>4, <1>5, FS_AddElement DEF FiniteTables
<1>8. RowsOK'
  <2>1. RowsOf(c)' = new
    BY <1>4 DEF RowsOf, RowsWithout, new
  <2>2. Full(c)'
    BY <1>5, <2>1 DEF Full, new
  <2>3. \A d \in DOMAIN db.channels \ {c} : RowsOf(d)' = RowsOf(d) /\ (Full(d) => Full(d)')
    BY <1>4, <1>5 DEF RowsOf, RowsWithout, new, Full
  <2>4. \A q \in Processes : \A m : Clearing(q, m) => Clearing(q, m)'
    BY <1>1, OthersClear DEF Clearing
  <2>5. \A d \in DOMAIN db.channels : 
           \/ Full(d)
           \/ RowsOf(d) = {} /\ (torn \/ \E q \in Processes, m \in {3, 4} : Clearing(q, m))
    BY <1>1 DEF RowsOK
  <2>6. ASSUME NEW d \in DOMAIN db'.channels
        PROVE  \/ Full(d)'
               \/ RowsOf(d)' = {} /\ (torn' \/ \E q \in Processes, m \in {3, 4} : Clearing(q, m)')
    BY <1>1, <1>5, <2>2, <2>3, <2>4, <2>5
  <2>7. \A row \in db'.htlcs : row[1] \in DOMAIN db'.channels
    BY <1>1, <1>4, <1>5 DEF RowsOK, RowsWithout, new
  <2>8. DOMAIN db'.shachain \subseteq DOMAIN db'.channels
    BY <1>1, <1>4, <1>5 DEF RowsOK
  <2>9. QED
    BY <2>6, <2>7, <2>8 DEF RowsOK
<1>9. StillToWrite(p)
  <2>1. \A j \in Ahead(p) : j # 1
    BY <1>1 DEF Ahead
  <2>2. ASSUME program[p].alone, NEW d \in DOMAIN memory[p].channels
        PROVE  \/ d \in DOMAIN db'.channels /\ db'.channels[d] = memory[p].channels[d]
               \/ \E j \in Ahead(p)' : SavesChannel(p, d, program'[p].txs[j])
    <3>1. CASE d = c
      BY <1>1, <1>5, <3>1
    <3>2. CASE d # c
      <4>1. \A w \in Versions, m \in Nat : ~Partial(p, d, w, m)
        <5>1. program[p].txs[1][1].c = c
          BY <1>1, StatementOfPartial
        <5>2. QED
          BY <1>1, <3>2, <5>1, StatementOfPartial
      <4>2. \/ d \in DOMAIN db.channels /\ db.channels[d] = memory[p].channels[d]
            \/ \E j \in Ahead(p) : SavesChannel(p, d, program[p].txs[j])
        BY <1>1, <2>2, <4>1 DEF Unsaved
      <4>3. QED
        BY <1>2, <1>5, <2>1, <3>2, <4>2
    <3>3. QED
      BY <3>1, <3>2
  <2>3. ASSUME program[p].alone \/ ~torn, NEW hash \in memory[p].preimages
        PROVE  \/ hash \in db'.preimages
               \/ \E j \in Ahead(p)' : SavesPreimage(p, hash, program'[p].txs[j])
    <3>1. \/ hash \in db.preimages
          \/ \E j \in Ahead(p) : SavesPreimage(p, hash, program[p].txs[j])
      BY <1>1, <2>3 DEF Unsaved
    <3>2. QED
      BY <1>2, <1>4, <2>1, <3>1
  <2>4. QED
    BY <2>2, <2>3 DEF StillToWrite
<1>10. \A d \in DOMAIN db'.channels :
          \/ d \in DOMAIN db.channels /\ db'.channels[d] = db.channels[d]
          \/ d \in DOMAIN memory[p].channels /\ db'.channels[d] = memory[p].channels[d]
  BY <1>1, <1>5
<1>11. QED
  BY <1>1, <1>3, <1>4, <1>6, <1>7, <1>8, <1>9, <1>10, CommitStep

LEMMA CommitPreimage ==
    ASSUME IInv, NEW p \in Processes, NEW hash \in Channels,
           IsSave(p), working[p] = None, SavesPreimage(p, hash, program[p].txs[1]),
           Commits(p, Tables(db.channels, db.htlcs, db.shachain,
                             db.preimages \cup {hash}, db.hints)),
           program[p].txs # <<>>,
           \A q \in Processes \ {p} : working[q] = None,
           UNCHANGED <<memory, loading>>
    PROVE  IInv'
<1>1. /\ ProgramsOK /\ MemoryOK /\ TablesOK /\ FiniteTables /\ RowsOK /\ Unsaved
      /\ Pop(p) /\ torn' = torn /\ memory' = memory /\ loading' = loading
      /\ program[p].method = "save" /\ program[p] # Idle
  BY IdleFacts DEF IInv, Commits, IsSave
<1>2. /\ working'[p] = None
      /\ \/ Len(program[p].txs) = 1 /\ program'[p] = Idle
         \/ program'[p].txs # <<>>
      /\ \A j \in Ahead(p) :
            j # 1 => j - 1 \in Ahead(p)' /\ program'[p].txs[j - 1] = program[p].txs[j]
      /\ program'[p] = Idle \/ IsSave(p)'
  BY <1>1, PopSave
<1>3. ProgramOK(p)'
  <2>1. loading[p] = None
    BY <1>1 DEF ProgramsOK, ProgramOK
  <2>2. QED
    BY <1>1, <1>2, <2>1 DEF ProgramOK
<1>4. /\ IsTables(db') /\ db'.channels = db.channels /\ db'.htlcs = db.htlcs
      /\ db'.shachain = db.shachain /\ db'.preimages = db.preimages \cup {hash}
      /\ db'.hints = db.hints
  BY DEF Commits, IsTables, Tables
<1>5. TablesOK'
  BY <1>1, <1>4 DEF TablesOK, IsRows
<1>6. FiniteTables'
  BY <1>1, <1>4, FS_AddElement DEF FiniteTables
<1>7. RowsOK'
  <2>1. \A d : RowsOf(d)' = RowsOf(d) /\ (Full(d) => Full(d)')
    BY <1>4 DEF RowsOf, Full
  <2>2. \A q \in Processes : \A m : Clearing(q, m) => Clearing(q, m)'
    BY <1>1, OthersClear DEF Clearing
  <2>3. QED
    BY <1>1, <1>4, <2>1, <2>2 DEF RowsOK
<1>8. StillToWrite(p)
  <2>1. ASSUME program[p].alone, NEW d \in DOMAIN memory[p].channels
        PROVE  \/ d \in DOMAIN db'.channels /\ db'.channels[d] = memory[p].channels[d]
               \/ \E j \in Ahead(p)' : SavesChannel(p, d, program'[p].txs[j])
    <3>1. \A w \in Versions, m \in Nat : ~Partial(p, d, w, m)
      BY NoneFacts DEF Partial
    <3>2. \/ d \in DOMAIN db.channels /\ db.channels[d] = memory[p].channels[d]
          \/ \E j \in Ahead(p) : SavesChannel(p, d, program[p].txs[j])
      BY <1>1, <2>1, <3>1 DEF Unsaved
    <3>3. ~SavesChannel(p, d, program[p].txs[1])
      <4>1. d \in Channels /\ memory[p].channels[d] \in Versions
        BY <1>1, <2>1 DEF MemoryOK, States, Dicts
      <4>2. QED
        BY <4>1, SavesDiffer DEF SavesChannel, SavesPreimage
    <3>4. QED
      BY <1>2, <1>4, <3>2, <3>3 DEF SavesChannel
  <2>2. ASSUME program[p].alone \/ ~torn, NEW x \in memory[p].preimages
        PROVE  \/ x \in db'.preimages
               \/ \E j \in Ahead(p)' : SavesPreimage(p, x, program'[p].txs[j])
    <3>1. \/ x \in db.preimages
          \/ \E j \in Ahead(p) : SavesPreimage(p, x, program[p].txs[j])
      BY <1>1, <2>2 DEF Unsaved
    <3>2. SavesPreimage(p, x, program[p].txs[1]) => x = hash
      <4>1. UpsertPreimage(x).hash = x /\ UpsertPreimage(hash).hash = hash
        BY DEF UpsertPreimage
      <4>2. <<UpsertPreimage(x)>>[1] = UpsertPreimage(x)
            /\ <<UpsertPreimage(hash)>>[1] = UpsertPreimage(hash)
        OBVIOUS
      <4>3. QED
        BY <4>1, <4>2, Zenon DEF SavesPreimage
    <3>3. QED
      BY <1>2, <1>4, <3>1, <3>2
  <2>3. QED
    BY <2>1, <2>2 DEF StillToWrite
<1>9. QED
  BY <1>1, <1>3, <1>4, <1>5, <1>6, <1>7, <1>8, CommitStep

(* A deleted channel takes its rows with it.                               *)
LEMMA CommitOne ==
    ASSUME IInv, NEW p \in Processes, OneStatement(p), Execute(p)
    PROVE  IInv'
<1> DEFINE txs == program[p].txs
<1>1. /\ ProgramsOK /\ MemoryOK /\ TablesOK /\ FiniteTables /\ RowsOK
      /\ txs # <<>> /\ working[p] = None /\ Len(txs) = 1 /\ Tail(txs) = <<>>
      /\ program[p].method \notin {"save", "clear"} /\ program[p] # Idle
  <2>1. /\ ProgramsOK /\ MemoryOK /\ TablesOK /\ FiniteTables /\ RowsOK
    BY DEF IInv
  <2>2. txs # <<>> /\ working[p] = None /\ program[p].method \notin {"save", "clear"}
    BY DEF OneStatement, Execute
  <2>3. Len(txs) = 1 /\ Tail(txs) = <<>>
    <3>1. PICK tx : txs = <<tx>>
      BY DEF OneStatement
    <3>2. QED
      BY <3>1
  <2>4. QED
    BY <2>1, <2>2, <2>3, IdleFacts
<1>2. /\ program' = [program EXCEPT ![p] = Idle] /\ working' = [working EXCEPT ![p] = None]
      /\ torn' = torn /\ memory' = memory /\ loading' = loading
      /\ \A q \in Processes \ {p} : working[q] = None
      /\ program \in [Processes -> Programs] /\ DOMAIN working = Processes
  BY <1>1, ExecuteOne DEF Execute, ProgramsOK
<1>3. \/ UNCHANGED <<db, kept>>
      \/ /\ kept' = KeptAfter(p, <<>>, db')
         /\ \/ \E c \in Channels :
                  db' = Tables(Without(db.channels, c), RowsWithout(db.htlcs, {c}),
                               Keep(db.shachain, {c}), db.preimages, db.hints)
            \/ \E c \in DOMAIN db.channels, index \in {0, 1} :
                  db' = Tables(db.channels, db.htlcs, Put(db.shachain, c, index),
                               db.preimages, db.hints)
            \/ db' = Tables(db.channels, db.htlcs, db.shachain, db.preimages, {"hint"})
  BY <1>1, ExecuteOne
<1>4. CASE UNCHANGED <<db, kept>>
  <2>1. Stops(p)
    <3>1. torn' = (torn \/ program[p].method \in {"save", "clear"})
      BY <1>1, <1>2 DEF TablesOK
    <3>2. QED
      BY <1>1, <1>2, <1>4, <3>1 DEF Stops, MemoryOK
  <2>2. QED
    BY <2>1, StopStep
<1>5. ASSUME kept' = KeptAfter(p, <<>>, db'),
             TablesOK', FiniteTables', RowsOK', db'.preimages = db.preimages,
             \A c \in DOMAIN db'.channels :
                c \in DOMAIN db.channels /\ db'.channels[c] = db.channels[c]
      PROVE  IInv'
  <2>1. Commits(p, db')
    <3>1. Pop(p)
      BY <1>1, <1>2 DEF Pop
    <3>2. QED
      BY <1>1, <1>2, <1>5, <3>1 DEF Commits
  <2>2. ProgramOK(p)'
    BY <1>2 DEF ProgramOK
  <2>3. QED
    BY <1>1, <1>2, <1>5, <2>1, <2>2, CommitStep
<1>6. \A q \in Processes : \A m : Clearing(q, m) => Clearing(q, m)'
  <2>1. Pop(p)
    BY <1>1, <1>2 DEF Pop
  <2>2. QED
    BY <1>1, <1>2, <2>1, OthersClear DEF Clearing
<1>7. \A d \in DOMAIN db.channels :
         \/ Full(d)
         \/ RowsOf(d) = {} /\ (torn' \/ \E q \in Processes, m \in {3, 4} : Clearing(q, m)')
  BY <1>1, <1>2, <1>6 DEF RowsOK
<1>8. ASSUME NEW c \in Channels, kept' = KeptAfter(p, <<>>, db'),
             db' = Tables(Without(db.channels, c), RowsWithout(db.htlcs, {c}),
                          Keep(db.shachain, {c}), db.preimages, db.hints)
      PROVE  IInv'
  <2> DEFINE f == db.channels
             g == Without(f, c)
             sh == Keep(db.shachain, {c})
  <2>1. /\ IsTables(db') /\ db'.channels = g /\ db'.htlcs = RowsWithout(db.htlcs, {c})
        /\ db'.shachain = sh /\ db'.preimages = db.preimages /\ db'.hints = db.hints
    BY <1>8 DEF IsTables, Tables
  <2>2. /\ DOMAIN sh = DOMAIN db.shachain \ {c}
        /\ \A d \in DOMAIN sh : sh[d] = db.shachain[d]
    BY DEF Keep
  <2>3. f \in Dicts
    BY <1>1 DEF TablesOK
  <2> HIDE DEF f, sh
  <2>4. /\ g \in Dicts /\ DOMAIN g = DOMAIN f \ {c}
        /\ \A d \in DOMAIN g : g[d] = f[d]
    BY <2>3, WithoutFacts
  <2> HIDE DEF g
  <2>5. TablesOK'
    BY <1>1, <1>2, <2>1, <2>2, <2>4 DEF TablesOK, IsRows
  <2>6. FiniteTables'
    <3>1. DOMAIN g \subseteq DOMAIN f /\ IsFiniteSet(DOMAIN f)
      BY <1>1, <2>4 DEF FiniteTables, f
    <3>2. QED
      BY <1>1, <2>1, <3>1, FS_Subset DEF FiniteTables
  <2>7. RowsOK'
    <3>1. \A d \in DOMAIN g : RowsOf(d)' = RowsOf(d) /\ (Full(d) => Full(d)')
      BY <2>1, <2>4 DEF RowsOf, RowsWithout, Full, f
    <3>2. \A row \in db'.htlcs : row[1] \in DOMAIN g
      BY <1>1, <2>1, <2>4 DEF RowsWithout, RowsOK, f
    <3>3. DOMAIN sh \subseteq DOMAIN g
      BY <1>1, <2>2, <2>4 DEF RowsOK, f
    <3>4. \A d \in DOMAIN g :
             \/ Full(d)'
             \/ RowsOf(d)' = {} /\ (torn' \/ \E q \in Processes, m \in {3, 4} : Clearing(q, m)')
      BY <1>7, <2>4, <3>1 DEF f
    <3>5. QED
      BY <2>1, <3>2, <3>3, <3>4 DEF RowsOK
  <2>8. \A d \in DOMAIN db'.channels : d \in DOMAIN db.channels /\ db'.channels[d] = db.channels[d]
    BY <2>1, <2>4 DEF f
  <2>9. QED
    BY <1>5, <1>8, <2>1, <2>5, <2>6, <2>7, <2>8
<1>9. ASSUME kept' = KeptAfter(p, <<>>, db'),
             db' = Tables(db.channels, db.htlcs, db'.shachain, db.preimages, db'.hints),
             IsRows(db'.shachain, {0, 1}), DOMAIN db'.shachain \subseteq DOMAIN db.channels,
             db'.hints \subseteq {"hint"}
      PROVE  IInv'
  <2>1. /\ IsTables(db') /\ db'.channels = db.channels /\ db'.htlcs = db.htlcs
        /\ db'.preimages = db.preimages
    BY <1>9 DEF IsTables, Tables
  <2>2. TablesOK' /\ FiniteTables'
    BY <1>1, <1>2, <1>9, <2>1 DEF TablesOK, FiniteTables, IsRows
  <2>3. RowsOK'
    <3>1. \A d : RowsOf(d)' = RowsOf(d) /\ (Full(d) => Full(d)')
      BY <2>1 DEF RowsOf, Full
    <3>2. QED
      BY <1>1, <1>7, <1>9, <2>1, <3>1 DEF RowsOK
  <2>4. QED
    BY <1>5, <1>9, <2>1, <2>2, <2>3
<1>10. ASSUME NEW c \in DOMAIN db.channels, NEW index \in {0, 1},
              kept' = KeptAfter(p, <<>>, db'),
              db' = Tables(db.channels, db.htlcs, Put(db.shachain, c, index),
                           db.preimages, db.hints)
       PROVE  IInv'
  <2> DEFINE sh == Put(db.shachain, c, index)
  <2>1. c \in Channels
    BY <1>1 DEF TablesOK, Dicts
  <2>2. IsRows(sh, {0, 1}) /\ DOMAIN sh = DOMAIN db.shachain \cup {c}
    BY <1>1, <2>1 DEF TablesOK, IsRows, Put
  <2> HIDE DEF sh
  <2>3. db'.shachain = sh /\ db'.hints = db.hints
    BY <1>10 DEF Tables, sh
  <2>4. DOMAIN sh \subseteq DOMAIN db.channels /\ db.hints \subseteq {"hint"}
    BY <1>1, <2>2 DEF RowsOK, TablesOK
  <2>5. db' = Tables(db.channels, db.htlcs, db'.shachain, db.preimages, db'.hints)
    BY <1>10, <2>3 DEF sh
  <2>6. QED
    BY <1>9, <1>10, <2>2, <2>3, <2>4, <2>5
<1>11. ASSUME kept' = KeptAfter(p, <<>>, db'),
              db' = Tables(db.channels, db.htlcs, db.shachain, db.preimages, {"hint"})
       PROVE  IInv'
  <2>1. db'.shachain = db.shachain /\ db'.hints = {"hint"}
    BY <1>11 DEF Tables
  <2>2. IsRows(db.shachain, {0, 1}) /\ DOMAIN db.shachain \subseteq DOMAIN db.channels
    BY <1>1 DEF RowsOK, TablesOK
  <2>3. db' = Tables(db.channels, db.htlcs, db'.shachain, db.preimages, db'.hints)
    BY <1>11, <2>1
  <2>4. QED
    BY <1>9, <1>11, <2>1, <2>2, <2>3
<1>12. QED
  BY <1>3, <1>4, <1>8, <1>10, <1>11

LEMMA CommitClear ==
    ASSUME IInv, NEW p \in Processes, NEW n \in 1..5, Clearing(p, n), Execute(p)
    PROVE  IInv'
<1> DEFINE txs == program[p].txs
<1>1. /\ ProgramsOK /\ MemoryOK /\ TablesOK /\ FiniteTables /\ RowsOK
      /\ txs # <<>> /\ working[p] = None /\ program[p].method = "clear" /\ Len(txs) = n
      /\ memory' = memory /\ loading' = loading
      /\ \A q \in Processes \ {p} : working[q] = None
      /\ program[p] # Idle /\ loading[p] = None
  <2>1. /\ ProgramsOK /\ MemoryOK /\ TablesOK /\ FiniteTables /\ RowsOK
    BY DEF IInv
  <2>2. /\ txs # <<>> /\ working[p] = None /\ program[p].method = "clear" /\ Len(txs) = n
        /\ memory' = memory /\ loading' = loading
        /\ \A q \in Processes \ {p} : working[q] = None
    BY DEF Clearing, Execute
  <2>3. program[p] # Idle
    BY <2>2, IdleFacts
  <2>4. QED
    BY <2>1, <2>2, <2>3 DEF ProgramsOK, ProgramOK
<1>2. Commits(p, Cleared(n))
  BY <1>1, ExecuteClear
<1>3. Pop(p) /\ db' = Cleared(n) /\ torn' = torn
  BY <1>2 DEF Commits
<1>4. /\ n = 1 => program'[p] = Idle
      /\ n # 1 => Clearing(p, n - 1)'
      /\ working'[p] = None
  <2>1. /\ working'[p] = None
        /\ \/ Len(txs) = 1 /\ program'[p] = Idle
           \/ /\ Len(txs) > 1 /\ program'[p].txs = Tail(txs)
              /\ program'[p].method = program[p].method
    BY <1>1, <1>3, PopSave
  <2>2. CASE n = 1
    BY <1>1, <2>1, <2>2
  <2>3. CASE n # 1
    <3>1. program'[p].txs = Tail(txs) /\ program'[p].method = "clear"
      BY <1>1, <2>1, <2>3
    <3>2. /\ txs \in Seq(Transactions)
          /\ \A k \in 1..n : txs[k] = Clear[5 - n + k]
      BY <1>1 DEF ProgramsOK, Programs, Clearing
    <3> DEFINE s == txs
               t == Tail(s)
    <3>3. Len(t) = Len(s) - 1 /\ \A k \in 1..Len(t) : t[k] = s[k + 1]
      BY <1>1, <3>2, HeadTailProperties
    <3>4. Len(s) = n /\ \A k \in 1..n : s[k] = Clear[5 - n + k]
      BY <1>1, <3>2
    <3> HIDE DEF s, t
    <3>5. Len(t) = n - 1 /\ n - 1 \in 1..5
      BY <2>3, <3>3, <3>4
    <3>6. ASSUME NEW k \in 1..n - 1 PROVE t[k] = Clear[5 - (n - 1) + k]
      <4>1. k + 1 \in 1..n /\ 5 - n + (k + 1) = 5 - (n - 1) + k /\ k \in 1..Len(t)
        BY <3>5
      <4>2. t[k] = s[k + 1] /\ s[k + 1] = Clear[5 - n + (k + 1)]
        BY <3>3, <3>4, <4>1
      <4>3. QED
        BY <4>1, <4>2
    <3>7. program'[p].txs = t
      BY <3>1 DEF t, s
    <3>8. QED
      BY <2>1, <2>3, <3>1, <3>5, <3>6, <3>7 DEF Clearing
  <2>4. QED
    BY <2>2, <2>3
<1>5. ProgramOK(p)'
  <2>1. CASE n = 1
    BY <1>4, <2>1 DEF ProgramOK
  <2>2. CASE n # 1
    <3>1. Clearing(p, n - 1)' /\ n - 1 \in 1..5
      BY <1>4, <2>2
    <3>2. Len(program'[p].txs) # 0
      BY <2>2, <3>1 DEF Clearing
    <3>3. Len(<<>>) = 0
      BY EmptySeq
    <3>4. program'[p].txs # <<>>
      BY <3>2, <3>3, Zenon
    <3>5. QED
      BY <1>1, <3>1, <3>4 DEF ProgramOK
  <2>3. QED
    BY <2>1, <2>2
<1>6. \A q \in Processes \ {p} : \A m : Clearing(q, m) => Clearing(q, m)'
  BY <1>1, <1>3, OthersClear
<1>7. \A m : (m # n => ~Clearing(p, m)) /\ (m # n - 1 => ~Clearing(p, m)')
  <2>1. \A m : Clearing(p, m) => m = n
    BY <1>1 DEF Clearing
  <2>2. \A m : Clearing(p, m)' => m = n - 1
    <3>1. CASE n = 1
      BY <1>4, <3>1, IdleFacts DEF Clearing
    <3>2. CASE n # 1
      BY <1>4, <3>2 DEF Clearing
    <3>3. QED
      BY <3>1, <3>2
  <2>3. QED
    BY <2>1, <2>2
<1>8. ASSUME TablesOK', FiniteTables', RowsOK',
             \A c \in DOMAIN db'.channels :
                c \in DOMAIN db.channels /\ db'.channels[c] = db.channels[c],
             ~torn => db.preimages \subseteq db'.preimages \/ DOMAIN db'.channels = {},
             ~torn => \A m \in {1, 2} : Clearing(p, m)' => DOMAIN db'.channels = {}
      PROVE  IInv'
  BY <1>1, <1>2, <1>5, <1>8, CommitStep
<1>9. CASE n = 5
  <2>1. db' = Tables(db.channels, {}, db.shachain, db.preimages, db.hints)
    BY <1>3, <1>9 DEF Cleared
  <2>2. /\ IsTables(db') /\ db'.channels = db.channels /\ db'.htlcs = {}
        /\ db'.shachain = db.shachain /\ db'.preimages = db.preimages /\ db'.hints = db.hints
    BY <2>1 DEF IsTables, Tables
  <2>3. TablesOK' /\ FiniteTables'
    BY <1>1, <1>3, <2>2 DEF TablesOK, FiniteTables, IsRows
  <2>4. RowsOK'
    <3>1. Clearing(p, 4)'
      BY <1>4, <1>9
    <3>2. \A d : RowsOf(d)' = {}
      BY <2>2 DEF RowsOf
    <3>3. QED
      BY <1>1, <2>2, <3>1, <3>2 DEF RowsOK
  <2>5. \A m \in {1, 2} : ~Clearing(p, m)'
    BY <1>7, <1>9
  <2>6. QED
    BY <1>8, <2>2, <2>3, <2>4, <2>5
<1>10. CASE n = 4
  <2>1. db' = Tables(db.channels, db.htlcs, NoRows, db.preimages, db.hints)
    BY <1>3, <1>10 DEF Cleared
  <2>2. /\ IsTables(db') /\ db'.channels = db.channels /\ db'.htlcs = db.htlcs
        /\ db'.shachain = NoRows /\ db'.preimages = db.preimages /\ db'.hints = db.hints
    BY <2>1 DEF IsTables, Tables
  <2>3. TablesOK' /\ FiniteTables'
    BY <1>1, <1>3, <2>2 DEF TablesOK, FiniteTables, IsRows, NoRows
  <2>4. RowsOK'
    <3>1. Clearing(p, 3)'
      BY <1>4, <1>10
    <3>2. \A d : RowsOf(d)' = RowsOf(d) /\ (Full(d) => Full(d)')
      BY <2>2 DEF RowsOf, Full
    <3>3. DOMAIN db'.shachain \subseteq DOMAIN db.channels
      BY <2>2 DEF NoRows
    <3>4. QED
      BY <1>1, <2>2, <3>1, <3>2, <3>3 DEF RowsOK
  <2>5. \A m \in {1, 2} : ~Clearing(p, m)'
    BY <1>7, <1>10
  <2>6. QED
    BY <1>8, <2>2, <2>3, <2>4, <2>5
<1>11. CASE n = 3
  <2>1. db' = Tables(NoRows, RowsWithout(db.htlcs, DOMAIN db.channels),
                     Keep(db.shachain, DOMAIN db.channels), db.preimages, db.hints)
    BY <1>3, <1>11 DEF Cleared
  <2>2. /\ IsTables(db') /\ db'.channels = NoRows
        /\ db'.htlcs = RowsWithout(db.htlcs, DOMAIN db.channels)
        /\ db'.shachain = Keep(db.shachain, DOMAIN db.channels)
        /\ db'.preimages = db.preimages /\ db'.hints = db.hints
    BY <2>1 DEF IsTables, Tables
  <2>3. db'.htlcs = {} /\ DOMAIN db'.shachain = {} /\ DOMAIN db'.channels = {}
    BY <1>1, <2>2 DEF RowsOK, RowsWithout, Keep, NoRows
  <2>4. db'.channels \in Dicts
    <3>1. NoRows \in [{} -> Versions]
      BY DEF NoRows
    <3>2. QED
      BY <2>2, <3>1 DEF Dicts
  <2>5. TablesOK'
    BY <1>1, <1>3, <2>2, <2>3, <2>4 DEF TablesOK, IsRows
  <2>6. FiniteTables'
    BY <1>1, <2>2, <2>3, FS_EmptySet DEF FiniteTables
  <2>7. RowsOK'
    BY <2>3 DEF RowsOK
  <2>8. QED
    BY <1>8, <2>2, <2>3, <2>5, <2>6, <2>7
<1>12. ASSUME n \in {1, 2}, db'.channels = db.channels, db'.htlcs = db.htlcs,
              db'.shachain = db.shachain, db'.preimages \in {db.preimages, {}},
              db'.hints \subseteq {"hint"}, IsTables(db')
       PROVE  IInv'
  <2>1. TablesOK'
    BY <1>1, <1>3, <1>12 DEF TablesOK, IsRows
  <2>2. FiniteTables'
    BY <1>1, <1>12, FS_EmptySet DEF FiniteTables
  <2>3. RowsOK'
    <3>1. \A d : RowsOf(d)' = RowsOf(d) /\ (Full(d) => Full(d)')
      BY <1>12 DEF RowsOf, Full
    <3>2. \A q \in Processes, m \in {3, 4} : Clearing(q, m) => Clearing(q, m)'
      BY <1>6, <1>7, <1>12
    <3>3. ASSUME NEW d \in DOMAIN db.channels
          PROVE  \/ Full(d)'
                 \/ RowsOf(d)' = {} /\ (torn' \/ \E q \in Processes, m \in {3, 4} : Clearing(q, m)')
      BY <1>1, <1>3, <3>1, <3>2 DEF RowsOK
    <3>4. QED
      BY <1>1, <1>12, <3>3 DEF RowsOK
  <2>4. ~torn => DOMAIN db.channels = {}
    BY <1>1, <1>12 DEF IInv, ClearsAlone
  <2>5. QED
    BY <1>8, <1>12, <2>1, <2>2, <2>3, <2>4
<1>13. CASE n = 2
  <2>1. db' = Tables(db.channels, db.htlcs, db.shachain, {}, db.hints)
    BY <1>3, <1>13 DEF Cleared
  <2>2. /\ IsTables(db') /\ db'.channels = db.channels /\ db'.htlcs = db.htlcs
        /\ db'.shachain = db.shachain /\ db'.preimages = {} /\ db'.hints = db.hints
    BY <2>1 DEF IsTables, Tables
  <2>3. QED
    BY <1>1, <1>12, <1>13, <2>2 DEF TablesOK
<1>14. CASE n = 1
  <2>1. db' = Tables(db.channels, db.htlcs, db.shachain, db.preimages, {})
    BY <1>3, <1>14 DEF Cleared
  <2>2. /\ IsTables(db') /\ db'.channels = db.channels /\ db'.htlcs = db.htlcs
        /\ db'.shachain = db.shachain /\ db'.preimages = db.preimages /\ db'.hints = {}
    BY <2>1 DEF IsTables, Tables
  <2>3. QED
    BY <1>12, <1>14, <2>2
<1>15. n = 1 \/ n = 2 \/ n = 3 \/ n = 4 \/ n = 5
  OBVIOUS
<1>16. QED
  BY <1>9, <1>10, <1>11, <1>13, <1>14, <1>15

LEMMA ExecuteStep ==
    ASSUME IInv, NEW p \in Processes, Execute(p)
    PROVE  IInv'
<1>1. /\ ProgramsOK /\ TablesOK /\ MemoryOK /\ program[p].txs # <<>>
      /\ UNCHANGED <<memory, loading>> /\ \A q \in Processes \ {p} : working[q] = None
  BY DEF IInv, Execute
<1>2. IsSave(p) \/ OneStatement(p) \/ \E n \in 1..5 : Clearing(p, n)
  BY <1>1, IdleFacts DEF ProgramsOK, ProgramOK
<1>3. CASE IsSave(p)
  <2>1. ASSUME NEW c \in Channels, NEW v \in Versions, working[p] = None,
               SavesChannel(p, c, program[p].txs[1]), v = memory[p].channels[c], GoesOn(p, c, v, 1)
        PROVE  IInv'
    <3>1. 1 \in 1..Length(v) - 1
      BY VersionFacts
    <3>2. c \in DOMAIN memory[p].channels
      BY <2>1 DEF SavesChannel
    <3>3. QED
      BY <1>1, <1>3, <2>1, <3>1, <3>2, GoesOnStep
  <2>2. ASSUME NEW c \in Channels, NEW v \in Versions, NEW n \in Nat, Partial(p, c, v, n),
               n < Length(v) - 1, GoesOn(p, c, v, n + 1)
        PROVE  IInv'
    <3>1. /\ n + 1 \in 1..Length(v) - 1 /\ (n + 1) - 1 = n
          /\ c \in DOMAIN memory[p].channels /\ v = memory[p].channels[c]
      BY <2>2, VersionFacts DEF Partial
    <3> DEFINE m == n + 1
    <3>2. m \in 1..Length(v) - 1 /\ Partial(p, c, v, m - 1) /\ GoesOn(p, c, v, m)
      BY <2>2, <3>1
    <3> HIDE DEF m
    <3>3. QED
      BY <1>1, <1>3, <3>1, <3>2, GoesOnStep
  <2>3. ASSUME NEW c \in Channels, NEW v \in Versions, NEW n \in Nat, Partial(p, c, v, n),
               n = Length(v) - 1, Commits(p, After(c, v, Length(v)))
        PROVE  IInv'
    BY <1>1, <1>3, <2>3, CommitChannel
  <2>4. ASSUME NEW hash \in Channels, working[p] = None,
               SavesPreimage(p, hash, program[p].txs[1]),
               Commits(p, Tables(db.channels, db.htlcs, db.shachain,
                                 db.preimages \cup {hash}, db.hints))
        PROVE  IInv'
    BY <1>1, <1>3, <2>4, CommitPreimage
  <2>5. QED
    BY <1>1, <1>3, <2>1, <2>2, <2>3, <2>4, ExecuteSave
<1>4. CASE OneStatement(p)
  BY <1>4, CommitOne
<1>5. CASE \E n \in 1..5 : Clearing(p, n)
  BY <1>5, CommitClear
<1>6. QED
  BY <1>2, <1>3, <1>4, <1>5

LEMMA StateFields ==
    ASSUME NEW m \in States, NEW f \in Dicts
    PROVE  /\ [m EXCEPT !.channels = f] \in States
           /\ [m EXCEPT !.channels = f].channels = f
           /\ [m EXCEPT !.channels = f].preimages = m.preimages
BY DEF States

LEMMA AdvanceStep ==
    ASSUME IInv, NEW p \in Processes, NEW c \in Channels, Advance(p, c)
    PROVE  IInv'
<1> DEFINE m == memory[p]
<1>1. /\ MemoryOK /\ m \in States /\ m.channels \in Dicts /\ m.preimages \subseteq Channels
      /\ IsFiniteSet(DOMAIN m.channels) /\ IsFiniteSet(m.preimages)
  BY DEF IInv, MemoryOK, States
<1>2. PICK v \in Versions :
         /\ program[p] = Idle /\ loading[p] = None
         /\ memory' = [memory EXCEPT ![p] =
               [channels |-> Put(@.channels, c, v),
                preimages |-> @.preimages \cup (IF v >= Redeemed THEN {c} ELSE {})]]
         /\ UNCHANGED <<db, working, program, loading, kept, torn>>
  BY DEF Advance, IsFree
<1> DEFINE f == Put(m.channels, c, v)
           known == m.preimages \cup (IF v >= Redeemed THEN {c} ELSE {})
           e == [channels |-> f, preimages |-> known]
<1>3. /\ memory'[p].channels = f /\ memory'[p].preimages = known
      /\ \A q \in Processes \ {p} : memory'[q] = memory[q]
      /\ memory' \in [Processes -> States]
  <2>1. e \in States /\ e.channels = f /\ e.preimages = known
    <3>1. f \in Dicts /\ known \in SUBSET Channels
      BY <1>1, PutFacts
    <3> HIDE DEF f, known
    <3>2. QED
      BY <3>1 DEF States
  <2>2. memory' = [memory EXCEPT ![p] = e] /\ memory \in [Processes -> States]
    BY <1>1, <1>2 DEF MemoryOK
  <2> HIDE DEF e, f, known
  <2>3. QED
    BY <2>1, <2>2
<1>4. /\ f \in Dicts /\ DOMAIN f = DOMAIN m.channels \cup {c}
      /\ f[c] = v /\ \A x \in DOMAIN m.channels \ {c} : f[x] = m.channels[x]
  BY <1>1, PutFacts
<1>5. known \subseteq Channels /\ IsFiniteSet(known) /\ m.preimages \subseteq known
      /\ (v >= Redeemed => c \in known)
  BY <1>1, FS_AddElement
<1> HIDE DEF f, known, m
<1>6. MemoryOK'
  <2>1. IsFiniteSet(DOMAIN f)
    BY <1>1, <1>4, FS_AddElement
  <2>2. QED
    BY <1>1, <1>2, <1>3, <1>5, <2>1 DEF MemoryOK
<1>7. ~torn' => Knows(memory'[p].channels, memory'[p].preimages)
  <2>1. ~torn' => Knows(m.channels, m.preimages)
    BY <1>2 DEF IInv, Learnt, m
  <2>2. QED
    BY <1>3, <1>4, <1>5, <2>1 DEF Knows
<1>8. Looks(p)
  BY <1>2, <1>3, <1>6, <1>7 DEF Looks, IInv, TablesOK
<1>9. QED
  BY <1>8, LookStep

LEMMA CallSteps ==
    ASSUME IInv, NEW p \in Processes,
           \/ Save(p)
           \/ \E c \in Channels : Delete(p, c)
           \/ \E c \in Channels, index \in {0, 1} : SaveShachain(p, c, index)
           \/ SaveWatchtowerHint(p, "hint")
           \/ ClearAll(p)
    PROVE  IInv'
<1>0. ProgramsOK /\ MemoryOK
  BY DEF IInv
<1>1. ASSUME NEW method, NEW txs, Call(p, method, txs)
      PROVE  /\ program'[p].method = method /\ program'[p].txs = txs
             /\ working'[p] = None /\ loading' = loading
  BY <1>0, <1>1, IdleFacts DEF Call, IsFree, ProgramsOK, ProgramOK
<1>2. UNCHANGED memory => MemoryOK' \/ loading' # loading
  BY <1>0 DEF MemoryOK
<1>3. ASSUME NEW s \in Statements PROVE <<<<s>>>> \in Seq(Transactions)
  BY DEF Transactions
<1>4. CASE Save(p)
  <2> DEFINE m == memory[p]
             txs == SaveNetworkState(m)
  <2>1. m \in States /\ IsFiniteSet(DOMAIN m.channels) /\ IsFiniteSet(m.preimages)
    BY <1>0 DEF MemoryOK
  <2>2. Call(p, "save", txs) /\ memory' = memory
    BY <1>4 DEF Save
  <2> HIDE DEF m
  <2>3. /\ txs \in Seq(Transactions)
        /\ \A j \in 1..Len(txs) :
              \/ \E c \in DOMAIN m.channels : txs[j] = SaveChannel(c, m.channels[c])
              \/ \E hash \in m.preimages : txs[j] = <<UpsertPreimage(hash)>>
        /\ \A c \in DOMAIN m.channels : \E j \in 1..Len(txs) :
              txs[j] = SaveChannel(c, m.channels[c])
        /\ \A hash \in m.preimages : \E j \in 1..Len(txs) :
              txs[j] = <<UpsertPreimage(hash)>>
    BY <2>1, NetworkSaveFacts
  <2>4. DOMAIN m.channels \subseteq Channels /\ m.preimages \subseteq Channels
    BY <2>1 DEF States, Dicts
  <2> HIDE DEF txs
  <2>5. Begins(p, txs)
    BY <2>3, <2>4 DEF Begins, SavesChannel, SavesPreimage, m
  <2>6. "save" \in Methods /\ MemoryOK'
    BY <1>1, <1>2, <2>2 DEF Methods
  <2>7. QED
    BY <2>2, <2>3, <2>5, <2>6, CallStep
<1>5. ASSUME NEW c \in Channels, Delete(p, c) PROVE IInv'
  <2> DEFINE txs == <<<<DeleteChannel(c)>>>>
             m == memory[p]
             f == Without(m.channels, c)
  <2>1. Call(p, "delete", txs) /\ memory' = [memory EXCEPT ![p].channels = f]
    BY <1>5 DEF Delete
  <2>2. "delete" \in Methods /\ txs \in Seq(Transactions)
    <3>1. DeleteChannel(c) \in Statements
      BY DEF Statements
    <3>2. QED
      BY <1>3, <3>1 DEF Methods
  <2>3. OneStatement(p)'
    BY <1>1, <2>1 DEF OneStatement
  <2>4. /\ m.channels \in Dicts /\ m.preimages \subseteq Channels
        /\ IsFiniteSet(DOMAIN m.channels) /\ IsFiniteSet(m.preimages)
    BY <1>0 DEF MemoryOK, States
  <2>5. /\ f \in Dicts /\ DOMAIN f = DOMAIN m.channels \ {c}
        /\ \A x \in DOMAIN m.channels \ {c} : f[x] = m.channels[x]
    BY <2>4, WithoutFacts
  <2>6. /\ memory'[p].channels = f /\ memory'[p].preimages = m.preimages
        /\ \A q \in Processes \ {p} : memory'[q] = memory[q]
        /\ memory' \in [Processes -> States]
    <3>1. /\ memory' = [memory EXCEPT ![p] = [m EXCEPT !.channels = f]]
          /\ memory \in [Processes -> States] /\ m \in States
      BY <1>0, <2>1 DEF MemoryOK
    <3> HIDE DEF f, m
    <3>2. QED
      BY <2>4, <2>5, <3>1, StateFields
  <2> HIDE DEF f, txs
  <2>7. MemoryOK'
    <3>1. IsFiniteSet(DOMAIN f)
      BY <2>4, <2>5, FS_Subset
    <3>2. loading' = loading
      BY <1>1, <2>1
    <3>3. QED
      BY <1>0, <2>4, <2>6, <3>1, <3>2 DEF MemoryOK
  <2>8. Knows(memory[p].channels, memory[p].preimages)
        => Knows(memory'[p].channels, memory'[p].preimages)
    BY <2>5, <2>6 DEF Knows
  <2>9. QED
    BY <2>1, <2>2, <2>3, <2>6, <2>7, <2>8, CallStep
<1>6. ASSUME NEW c \in Channels, NEW index \in {0, 1}, SaveShachain(p, c, index) PROVE IInv'
  <2> DEFINE txs == <<<<UpsertShachain(c, index)>>>>
  <2>1. Call(p, "shachain", txs) /\ memory' = memory
    BY <1>6 DEF SaveShachain
  <2>2. "shachain" \in Methods /\ txs \in Seq(Transactions)
    <3>1. UpsertShachain(c, index) \in Statements
      BY DEF Statements
    <3>2. QED
      BY <1>3, <3>1 DEF Methods
  <2>3. OneStatement(p)'
    BY <1>1, <2>1 DEF OneStatement
  <2>4. MemoryOK'
    BY <1>1, <1>2, <2>1
  <2> HIDE DEF txs
  <2>5. QED
    BY <2>1, <2>2, <2>3, <2>4, CallStep
<1>7. CASE SaveWatchtowerHint(p, "hint")
  <2> DEFINE txs == <<<<UpsertHint("hint")>>>>
  <2>1. Call(p, "hint", txs) /\ memory' = memory
    BY <1>7 DEF SaveWatchtowerHint
  <2>2. "hint" \in Methods /\ txs \in Seq(Transactions)
    <3>1. UpsertHint("hint") \in Statements
      BY DEF Statements
    <3>2. QED
      BY <1>3, <3>1 DEF Methods
  <2>3. OneStatement(p)'
    BY <1>1, <2>1 DEF OneStatement
  <2>4. MemoryOK'
    BY <1>1, <1>2, <2>1
  <2> HIDE DEF txs
  <2>5. QED
    BY <2>1, <2>2, <2>3, <2>4, CallStep
<1>8. CASE ClearAll(p)
  <2>1. Call(p, "clear", Clear) /\ memory' = memory
    BY <1>8 DEF ClearAll
  <2>2. /\ Clear \in Seq(Transactions) /\ Len(Clear) = 5
    <3>1. /\ DeleteAll("htlcs") \in Statements /\ DeleteAll("shachain") \in Statements
          /\ DeleteAll("channels") \in Statements /\ DeleteAll("preimages") \in Statements
          /\ DeleteAll("hints") \in Statements
      BY DEF Statements, EmptyDb
    <3>2. \A s \in Statements : <<s>> \in Transactions
      BY DEF Transactions
    <3>3. QED
      BY <3>1, <3>2 DEF Clear
  <2>3. program'[p].method = "clear" /\ program'[p].txs = Clear /\ working'[p] = None
    BY <1>1, <2>1
  <2>4. Clearing(p, 5)'
    BY <2>2, <2>3 DEF Clearing
  <2>5. MemoryOK' /\ "clear" \in Methods
    BY <1>1, <1>2, <2>1 DEF Methods
  <2>6. QED
    BY <2>1, <2>2, <2>4, <2>5, CallStep
<1>9. QED
  BY <1>4, <1>5, <1>6, <1>7, <1>8

LEMMA LoadSteps ==
    ASSUME IInv, NEW p \in Processes, LoadAllChannels(p) \/ LoadPreimages(p)
    PROVE  IInv'
<1>0. ProgramsOK /\ MemoryOK /\ TablesOK /\ FiniteTables /\ Learnt
  BY DEF IInv
<1>1. CASE LoadAllChannels(p)
  <2>1. /\ program[p] = Idle /\ UNCHANGED <<db, working, program, memory, kept>>
        /\ loading' = [loading EXCEPT ![p] = <<db.channels>>]
        /\ torn' = (torn \/ Busy({"save", "clear"}))
    BY <1>1 DEF LoadAllChannels, IsFree
  <2>2. /\ loading'[p] = <<db.channels>> /\ loading'[p][1] = db.channels
        /\ \A q \in Processes \ {p} : loading'[q] = loading[q]
        /\ loading' \in [Processes -> {None} \cup {<<dict>> : dict \in Dicts}]
    BY <1>0, <2>1 DEF MemoryOK, TablesOK
  <2>3. MemoryOK'
    BY <1>0, <2>1, <2>2 DEF MemoryOK, FiniteTables
  <2>4. torn' \in BOOLEAN /\ (torn => torn') /\ (torn' \/ ~Busy({"clear"}))
        /\ (~torn' => ~torn /\ \A q \in Processes : program[q].method # "save")
    BY <1>0, <2>1 DEF TablesOK, Busy
  <2>5. ~torn' => /\ Knows(memory'[p].channels, memory'[p].preimages)
                  /\ Knows(loading'[p][1], db.preimages)
    BY <1>0, <2>1, <2>2, <2>4 DEF Learnt, Knows
  <2>6. Looks(p)
    BY <2>1, <2>2, <2>3, <2>4, <2>5 DEF Looks
  <2>7. QED
    BY <2>6, LookStep
<1>2. CASE LoadPreimages(p)
  <2> DEFINE m == [channels |-> loading[p][1], preimages |-> db.preimages]
  <2>1. /\ loading[p] # None /\ memory' = [memory EXCEPT ![p] = m]
        /\ loading' = [loading EXCEPT ![p] = None]
        /\ UNCHANGED <<db, working, program, kept, torn>>
    BY <1>2 DEF LoadPreimages
  <2>2. program[p] = Idle
    BY <1>0, <2>1 DEF ProgramsOK, ProgramOK
  <2>3. m.channels = loading[p][1] /\ m.preimages = db.preimages /\ m \in States
        /\ IsFiniteSet(DOMAIN m.channels) /\ IsFiniteSet(m.preimages)
    <3>1. PICK dict \in Dicts : loading[p] = <<dict>>
      BY <1>0, <2>1 DEF MemoryOK
    <3>2. m \in States
      BY <1>0, <3>1, NoneFacts DEF States, TablesOK
    <3>3. QED
      BY <1>0, <2>1, <3>2 DEF MemoryOK, FiniteTables
  <2> HIDE DEF m
  <2>4. /\ memory'[p] = m /\ loading'[p] = None
        /\ \A q \in Processes \ {p} : memory'[q] = memory[q] /\ loading'[q] = loading[q]
        /\ memory' \in [Processes -> States]
        /\ loading' \in [Processes -> {None} \cup {<<dict>> : dict \in Dicts}]
    BY <1>0, <2>1, <2>3 DEF MemoryOK
  <2>5. MemoryOK'
    BY <1>0, <2>3, <2>4 DEF MemoryOK
  <2>6. ~torn' => Knows(memory'[p].channels, memory'[p].preimages)
    BY <1>0, <2>1, <2>3, <2>4 DEF Learnt
  <2>7. Looks(p)
    BY <1>0, <2>1, <2>2, <2>4, <2>5, <2>6 DEF Looks, TablesOK
  <2>8. QED
    BY <2>7, LookStep
<1>3. QED
  BY <1>1, <1>2

LEMMA StopSteps ==
    ASSUME IInv, NEW p \in Processes, Locked(p) \/ Crash(p)
    PROVE  IInv'
<1>0. ProgramsOK /\ MemoryOK /\ OneWriter
  BY DEF IInv
<1>1. CASE Locked(p)
  <2>1. working[p] = None
    BY <1>0, <1>1 DEF Locked, OneWriter
  <2>2. Stops(p)
    BY <1>0, <1>1, <2>1 DEF Locked, Stops, ProgramsOK, MemoryOK
  <2>3. QED
    BY <2>2, StopStep
<1>2. CASE Crash(p)
  <2>1. EmptyState \in States
    <3>1. NoRows \in [{} -> Versions]
      BY DEF NoRows
    <3>2. QED
      BY <3>1 DEF EmptyState, States, Dicts
  <2>2. Stops(p)
    BY <1>0, <1>2, <2>1 DEF Crash, Stops, ProgramsOK, MemoryOK
  <2>3. QED
    BY <2>2, StopStep
<1>3. QED
  BY <1>1, <1>2

LEMMA InitIInv == Init => IInv
<1> SUFFICES ASSUME Init PROVE IInv
  OBVIOUS
<1>1. /\ db = EmptyDb /\ kept = None /\ torn = FALSE
      /\ \A p \in Processes : /\ working[p] = None /\ program[p] = Idle /\ loading[p] = None
                              /\ memory[p] = EmptyState
      /\ DOMAIN working = Processes
      /\ program \in [Processes -> Programs]
      /\ loading \in [Processes -> {None}] /\ memory \in [Processes -> {EmptyState}]
  BY IdleFacts DEF Init
<1>2. DOMAIN NoRows = {} /\ NoRows \in Dicts
  <2>1. NoRows \in [{} -> Versions]
    BY DEF NoRows
  <2>2. QED
    BY <2>1 DEF Dicts, NoRows
<1>3. /\ IsTables(db) /\ db.channels = NoRows /\ db.htlcs = {} /\ db.shachain = NoRows
      /\ db.preimages = {} /\ db.hints = {}
  BY <1>1 DEF EmptyDb, IsTables, Tables
<1>4. EmptyState \in States /\ EmptyState.channels = NoRows /\ EmptyState.preimages = {}
  BY <1>2 DEF EmptyState, States
<1>5. ProgramsOK /\ OneWriter
  BY <1>1, IdleFacts DEF ProgramsOK, ProgramOK, OneWriter
<1>6. TablesOK
  BY <1>1, <1>2, <1>3 DEF TablesOK, IsRows
<1>7. MemoryOK /\ FiniteTables
  BY <1>1, <1>2, <1>3, <1>4, FS_EmptySet DEF MemoryOK, FiniteTables
<1>8. RowsOK /\ KeptOK
  BY <1>1, <1>2, <1>3 DEF RowsOK, KeptOK
<1>9. Unsaved /\ ClearsAlone
  BY <1>1, IdleFacts DEF Unsaved, ClearsAlone
<1>10. Learnt
  BY <1>1, <1>2, <1>3, <1>4 DEF Learnt, Knows
<1>11. QED
  BY <1>5, <1>6, <1>7, <1>8, <1>9, <1>10 DEF IInv

LEMMA NextIInv == IInv /\ [Next]_vars => IInv'
<1> SUFFICES ASSUME IInv, [Next]_vars PROVE IInv'
  OBVIOUS
<1>1. CASE UNCHANGED vars
  <2>1. /\ db' = db /\ working' = working /\ program' = program /\ loading' = loading
        /\ memory' = memory /\ kept' = kept /\ torn' = torn
    BY <1>1 DEF vars
  <2>2. ProgramsOK' /\ Unsaved'
    <3>1. ASSUME NEW q \in Processes
          PROVE  /\ Ahead(q)' = Ahead(q)
                 /\ \A c, v, n : Partial(q, c, v, n) => Partial(q, c, v, n)'
                 /\ IsSave(q) => IsSave(q)'
                 /\ OneStatement(q) => OneStatement(q)'
                 /\ \A n : Clearing(q, n) <=> Clearing(q, n)'
      BY <2>1, Frame
    <3>2. ProgramsOK'
      BY <2>1, <3>1 DEF IInv, ProgramsOK, ProgramOK
    <3>3. Unsaved'
      BY <2>1, <3>1 DEF IInv, Unsaved, SavesChannel, SavesPreimage
    <3>4. QED
      BY <3>2, <3>3
  <2>3. OneWriter' /\ TablesOK' /\ MemoryOK' /\ FiniteTables' /\ KeptOK'
    BY <2>1 DEF IInv, OneWriter, TablesOK, IsTables, IsRows, MemoryOK, FiniteTables, KeptOK
  <2>4. \A q \in Processes : \A m : Clearing(q, m) <=> Clearing(q, m)'
    BY <2>1 DEF Clearing
  <2>5. RowsOK'
    <3>1. \A d : RowsOf(d)' = RowsOf(d) /\ (Full(d) => Full(d)')
      BY <2>1 DEF RowsOf, Full
    <3>2. QED
      BY <2>1, <2>4, <3>1 DEF IInv, RowsOK
  <2>6. ClearsAlone'
    BY <2>1, <2>4 DEF IInv, ClearsAlone
  <2>7. Learnt'
    BY <2>1 DEF IInv, Learnt, SavesPreimage, Ahead
  <2>8. QED
    BY <2>2, <2>3, <2>5, <2>6, <2>7 DEF IInv
<1>2. ASSUME NEW p \in Processes,
             \/ \E c \in Channels : Advance(p, c)
             \/ Save(p)
             \/ \E c \in Channels : Delete(p, c)
             \/ \E c \in Channels, index \in {0, 1} : SaveShachain(p, c, index)
             \/ SaveWatchtowerHint(p, "hint")
             \/ ClearAll(p)
             \/ Execute(p)
             \/ Locked(p)
             \/ Crash(p)
             \/ LoadAllChannels(p)
             \/ LoadPreimages(p)
      PROVE  IInv'
  BY <1>2, AdvanceStep, CallSteps, ExecuteStep, StopSteps, LoadSteps
<1>3. QED
  BY <1>1, <1>2 DEF Next

THEOREM Invariance == Spec => []IInv
<1>1. QED
  BY InitIInv, NextIInv, PTL DEF Spec
-----------------------------------------------------------------------------
(* Every table and every memory keeps its type, a method is over exactly   *)
(* when its process is idle, only a save has a transaction open, and no    *)
(* process loads while a method of its own runs (TypeOK).                  *)
THEOREM StoreTypeCorrect == Spec => []TypeOK
<1>1. IInv => TypeOK
  <2> SUFFICES ASSUME IInv PROVE TypeOK
    OBVIOUS
  <2>1. IsRows(db.channels, Versions)
    BY DEF IInv, TablesOK, Dicts, IsRows
  <2>2. /\ IsRows(db.shachain, {0, 1}) /\ db.preimages \subseteq Channels
        /\ db.hints \subseteq {"hint"}
    BY DEF IInv, TablesOK
  <2>3. ASSUME NEW p \in Processes
        PROVE  IsRows(memory[p].channels, Versions) /\ memory[p].preimages \subseteq Channels
    BY DEF IInv, MemoryOK, States, Dicts, IsRows
  <2>4. ASSUME NEW p \in Processes
        PROVE  /\ program[p].txs = <<>> <=> program[p] = Idle
               /\ working[p] # None => program[p].method = "save"
               /\ program[p] # Idle => loading[p] = None
    <3>1. \/ program[p] = Idle /\ working[p] = None
          \/ /\ program[p].txs # <<>> /\ loading[p] = None
             /\ IsSave(p) \/ OneStatement(p) \/ \E n \in 1..5 : Clearing(p, n)
      BY DEF IInv, ProgramsOK, ProgramOK
    <3>2. working[p] # None => ~OneStatement(p) /\ \A n : ~Clearing(p, n)
      BY DEF OneStatement, Clearing
    <3>3. IsSave(p) => program[p].method = "save"
      BY DEF IsSave
    <3>4. QED
      BY <3>1, <3>2, <3>3, IdleFacts
  <2>5. QED
    BY <2>1, <2>2, <2>3, <2>4 DEF TypeOK
<1>2. QED
  BY Invariance, <1>1, PTL

(* Whatever is interleaved, refused or cut off: the HTLC rows of a channel *)
(* are those of its state_json, or none where a clear has gone part of its *)
(* way, and no row outlives its channel (RowsMirror).                      *)
THEOREM RowsMirrorState == Spec => []RowsMirror
<1>1. IInv => RowsMirror
  <2> SUFFICES ASSUME IInv PROVE RowsMirror
    OBVIOUS
  <2>1. ASSUME NEW p \in Processes, NEW n, Clearing(p, n) PROVE Busy({"clear"})
    BY <2>1 DEF Clearing, Busy
  <2>2. QED
    BY <2>1 DEF IInv, RowsOK, RowsMirror, Full
<1>2. QED
  BY Invariance, <1>1, PTL

(* A save that ended undisturbed is what the database holds until somebody *)
(* writes again, and whoever has loaded a redeemed channel has its preimage*)
(* unless the load may have seen half of a method (SavedLoadsBack).        *)
THEOREM SavesSurvive == Spec => []SavedLoadsBack
<1>1. IInv => SavedLoadsBack
  BY DEF IInv, KeptOK, Learnt, Knows, SavedLoadsBack
<1>2. QED
  BY Invariance, <1>1, PTL
=============================================================================
