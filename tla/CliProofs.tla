------------------------------ MODULE CliProofs ------------------------------
(***************************************************************************)
(* Theorems about Cli, for any sessions, coins, commands and amounts: what *)
(* the state file holds is whole and replaced at once as long as no two    *)
(* sessions save together, what it records was funded, and the coins of    *)
(* the nodes and their channels are accounted for.                         *)
(***************************************************************************)
EXTENDS Cli, FiniteSetTheorems, TLAPS

N == Cardinality(DOMAIN Coins)

Nodes == UNION {Range(l) : l \in Commands \cup SimLinks}

(***************************************************************************)
(* Counting satoshis: Sats(I, w) are the satoshis of the coins with ids in *)
(* I when coin i is worth w[i].                                            *)
(***************************************************************************)
SatsOf(i, w) == {i} \X (1..w[i])

SatsFamily(I, w) == {SatsOf(i, w) : i \in I}

Sats(I, w) == UNION SatsFamily(I, w)

IdsOf(coins) == {u.id : u \in coins}

LEMMA SatsMember ==
  ASSUME NEW I, NEW w
  PROVE  \A x : x \in Sats(I, w) <=> \E i \in I : x \in SatsOf(i, w)
BY DEF Sats, SatsFamily

LEMMA SatsOfFinite ==
  ASSUME NEW i, NEW w, w[i] \in Nat
  PROVE  IsFiniteSet(SatsOf(i, w)) /\ Cardinality(SatsOf(i, w)) = w[i]
<1>1. IsFiniteSet({i}) /\ Cardinality({i}) = 1
  BY FS_Singleton
<1>2. IsFiniteSet(1..w[i]) /\ Cardinality(1..w[i]) = w[i]
  BY FS_Interval
<1>3. /\ IsFiniteSet({i} \X (1..w[i]))
      /\ Cardinality({i} \X (1..w[i])) = Cardinality({i}) * Cardinality(1..w[i])
  BY <1>1, <1>2, FS_Product
<1> QED
  BY <1>1, <1>2, <1>3 DEF SatsOf

LEMMA SatsFinite ==
  ASSUME NEW I, IsFiniteSet(I), NEW w, \A i \in I : w[i] \in Nat
  PROVE  IsFiniteSet(Sats(I, w)) /\ Cardinality(Sats(I, w)) \in Nat
<1> DEFINE f == [i \in I |-> SatsOf(i, w)]
<1>1. f \in Surjection(I, SatsFamily(I, w))
  BY DEF Surjection, SatsFamily
<1> HIDE DEF f
<1>2. IsFiniteSet(SatsFamily(I, w))
  BY <1>1, FS_Surjection
<1>3. \A T \in SatsFamily(I, w) : IsFiniteSet(T)
  BY SatsOfFinite DEF SatsFamily
<1>4. IsFiniteSet(Sats(I, w))
  BY <1>2, <1>3, FS_UNION DEF Sats
<1> QED
  BY <1>4, FS_CardinalityType

(* Coins with different ids share no satoshi.                              *)
LEMMA SatsUnion ==
  ASSUME NEW I, IsFiniteSet(I), NEW J, IsFiniteSet(J), I \cap J = {},
         NEW w, \A i \in I \cup J : w[i] \in Nat
  PROVE  Cardinality(Sats(I \cup J, w)) = Cardinality(Sats(I, w)) + Cardinality(Sats(J, w))
<1>1. Sats(I \cup J, w) = Sats(I, w) \cup Sats(J, w)
  BY SatsMember
<1>2. Sats(I, w) \cap Sats(J, w) = {}
  BY SatsMember DEF SatsOf
<1>3. /\ IsFiniteSet(Sats(I, w)) /\ Cardinality(Sats(I, w)) \in Nat
      /\ IsFiniteSet(Sats(J, w)) /\ Cardinality(Sats(J, w)) \in Nat
  BY SatsFinite
<1>4. Cardinality(Sats(I, w) \cup Sats(J, w))
        = Cardinality(Sats(I, w)) + Cardinality(Sats(J, w))
            - Cardinality(Sats(I, w) \cap Sats(J, w))
  BY <1>3, FS_Union
<1>5. Cardinality(Sats(I, w) \cap Sats(J, w)) = 0
  BY <1>2, FS_EmptySet
<1>6. Cardinality(Sats(I \cup J, w)) = Cardinality(Sats(I, w) \cup Sats(J, w))
  BY <1>1
<1> QED
  BY <1>3, <1>4, <1>5, <1>6

LEMMA SatsSingle ==
  ASSUME NEW i, NEW w, w[i] \in Nat
  PROVE  Cardinality(Sats({i}, w)) = w[i]
<1>1. \A x : x \in Sats({i}, w) <=> x \in SatsOf(i, w)
  <2>1. \A x : x \in Sats({i}, w) <=> \E j \in {i} : x \in SatsOf(j, w)
    BY SatsMember
  <2> QED
    BY <2>1
<1>2. Sats({i}, w) = SatsOf(i, w)
  BY <1>1
<1> QED
  BY <1>2, SatsOfFinite

LEMMA SatsNone ==
  ASSUME NEW w
  PROVE  Cardinality(Sats({}, w)) = 0
<1>1. Sats({}, w) = {}
  BY SatsMember
<1> QED
  BY <1>1, FS_EmptySet

LEMMA SatsAgree ==
  ASSUME NEW I, NEW v, NEW w, \A i \in I : v[i] = w[i]
  PROVE  Sats(I, v) = Sats(I, w)
<1>1. \A i \in I : SatsOf(i, v) = SatsOf(i, w)
  BY DEF SatsOf
<1> QED
  BY <1>1, SatsMember

(* The value of coins that are worth what w says.                          *)
LEMMA ValueSats ==
  ASSUME NEW coins, NEW w, \A u \in coins : u.value = w[u.id]
  PROVE  Value(coins) = Cardinality(Sats(IdsOf(coins), w))
<1>1. UNION {{u.id} \X (1..u.value) : u \in coins} = Sats(IdsOf(coins), w)
  <2>1. \A u \in coins : {u.id} \X (1..u.value) = SatsOf(u.id, w)
    BY DEF SatsOf
  <2> QED
    BY <2>1 DEF Sats, SatsFamily, IdsOf
<1> QED
  BY <1>1 DEF Value
-----------------------------------------------------------------------------
(***************************************************************************)
(* The inductive invariant. Coins are numbered: those of the start, then   *)
(* one place per funding for its change.                                   *)
(***************************************************************************)
CoinWorth == [i \in 1..N |-> Coins[i].value]

WorthOf(fundings) ==
    [i \in 1..(N + Len(fundings)) |->
        IF i <= N THEN Coins[i].value ELSE fundings[i - N].change]

PaidBy(fundings) == [n \in 1..Len(fundings) |-> fundings[n].value]

Fundings == [pair : SUBSET Nodes, value : Nat \ {0}, change : Nat]

Owners == Nodes \cup {Coins[i].owner : i \in DOMAIN Coins}

Utxos == [id : Nat, owner : Owners, value : Nat \ {0}, confirmed : BOOLEAN]

FileSystem(f) ==
    /\ f = [file |-> f.file, tmp |-> f.tmp, fd |-> f.fd]
    /\ f.fd = [s \in Sessions |-> f.fd[s]]

Shapes ==
    /\ funded \in Seq(Fundings)
    /\ acked \subseteq 1..Len(funded)
    /\ overlap \in BOOLEAN
    /\ pc \in [Sessions -> {"idle", "signed", "save", "opened", "written",
                            "status", "backup"}]
    /\ mem = [s \in Sessions |-> mem[s]]
    /\ tx = [s \in Sessions |-> tx[s]]
    /\ FileSystem(fs)

(* Only a session that is between open and close has a file open.          *)
OnlyWriters == \A s \in Sessions : fs.fd[s] # "none" => pc[s] = "opened"

(* A dict whose entries with a transaction name one that pays for them.    *)
BackedBy(channels, fundings) ==
    \A k \in DOMAIN channels :
        LET ch == channels[k]
        IN ch.txid # 0 =>
              /\ ch.txid <= Len(fundings)
              /\ fundings[ch.txid].pair = k
              /\ \/ fundings[ch.txid].value = ch.capacity
                 \/ /\ fundings[ch.txid].value < ch.capacity
                    /\ fundings[ch.txid].change = 0

WellFormed(channels) ==
    \A k \in DOMAIN channels :
        channels[k].sender \in k /\ channels[k].txid \in Nat

FilesBacked ==
    /\ BackedBy(fs.file.channels, funded) /\ WellFormed(fs.file.channels)
    /\ BackedBy(fs.tmp.channels, funded) /\ WellFormed(fs.tmp.channels)

(* What a signed transaction spends, it pays out, but for the fee.         *)
Signed(t, fundings) ==
    /\ t.command \in Nodes \X Nodes
    /\ t.inputs \subseteq 1..(N + Len(fundings))
    /\ t.value # 0
    /\ Cardinality(Sats(t.inputs, WorthOf(fundings))) = t.value + t.change + Fee
    /\ t.value = Capacity \/ (t.value < Capacity /\ t.change = 0)

(* What fund-channel is going to report is in the session's dict.          *)
Opens(t, channels, fundings) ==
    /\ Range(t.command) \in DOMAIN channels
    /\ channels[Range(t.command)].txid \in 1..Len(fundings)

SessionOK(s) ==
    /\ BackedBy(mem[s], funded) /\ WellFormed(mem[s])
    /\ tx[s].value \in Nat /\ tx[s].change \in Nat
    /\ pc[s] = "idle" => tx[s] = NoTx
    /\ pc[s] = "signed" => Signed(tx[s], funded)
    /\ pc[s] \in {"save", "opened", "written"} /\ tx[s] # NoTx =>
          Opens(tx[s], mem[s], funded)

SessionsOK == \A s \in Sessions : SessionOK(s)

CoinsWorth ==
    /\ utxos \subseteq Utxos
    /\ \A u \in utxos : u.id \in 1..(N + Len(funded))
                        /\ u.value = WorthOf(funded)[u.id]

Unspent == Cardinality(Sats(IdsOf(utxos), WorthOf(funded)))

Locked == Cardinality(Sats(1..Len(funded), PaidBy(funded)))

Balanced ==
    /\ Cardinality(Sats(1..N, CoinWorth)) - (Unspent + Locked) >= Len(funded) * Fee
    /\ Cardinality(Sats(1..N, CoinWorth)) - (Unspent + Locked)
          <= Len(funded) * (Fee + Dust - 1)

(* As long as no two sessions saved together, one at most is saving, with  *)
(* the temporary file to itself.                                           *)
Saving == {s \in Sessions : pc[s] \in {"opened", "written"}}

OneSaves ==
    /\ Parses(fs.file)
    /\ \A s, t \in Saving : s = t
    /\ \A s \in Sessions :
          /\ pc[s] = "opened" => fs.fd[s] = "tmp" /\ fs.tmp = Empty
          /\ pc[s] = "written" => fs.tmp = Whole(mem[s])
          /\ pc[s] # "backup"

FilesSafe == ~overlap => OneSaves

IInv ==
    /\ Shapes
    /\ OnlyWriters
    /\ FilesBacked
    /\ SessionsOK
    /\ CoinsWorth
    /\ Balanced
    /\ FilesSafe
-----------------------------------------------------------------------------
(* The constants.                                                          *)
LEMMA Constants ==
  /\ N \in Nat /\ DOMAIN Coins = 1..N
  /\ Capacity \in Nat \ {0} /\ Fee \in Nat \ {0} /\ Dust \in Nat \ {0}
  /\ \A i \in 1..N : Coins[i].value \in Nat \ {0}
<1>1. N \in Nat
  BY CliAssumption, FS_CardinalityType DEF N
<1> QED
  BY <1>1, CliAssumption DEF N

LEMMA WorthType ==
  ASSUME NEW g \in Seq(Fundings)
  PROVE  /\ \A i \in 1..(N + Len(g)) : WorthOf(g)[i] \in Nat
         /\ \A n \in 1..Len(g) : PaidBy(g)[n] \in Nat \ {0}
         /\ IsFiniteSet(1..(N + Len(g))) /\ IsFiniteSet(1..Len(g))
         /\ Len(g) \in Nat
<1>1. Len(g) \in Nat /\ \A n \in 1..Len(g) : g[n] \in Fundings
  OBVIOUS
<1>2. \A i \in 1..(N + Len(g)) : i > N => i - N \in 1..Len(g)
  BY <1>1, Constants
<1>3. \A i \in 1..(N + Len(g)) : WorthOf(g)[i] \in Nat
  <2> SUFFICES ASSUME NEW i \in 1..(N + Len(g))
               PROVE  WorthOf(g)[i] \in Nat
    OBVIOUS
  <2>1. CASE i <= N
    BY <2>1, Constants DEF WorthOf
  <2>2. CASE ~(i <= N)
    <3>1. i - N \in 1..Len(g)
      BY <2>2, <1>1, <1>2, Constants
    <3> QED
      BY <2>2, <3>1, <1>1 DEF WorthOf, Fundings
  <2> QED
    BY <2>1, <2>2
<1>4. \A n \in 1..Len(g) : PaidBy(g)[n] \in Nat \ {0}
  BY <1>1 DEF PaidBy, Fundings
<1>5. IsFiniteSet(1..(N + Len(g))) /\ IsFiniteSet(1..Len(g))
  BY <1>1, Constants, FS_Interval
<1> QED
  BY <1>1, <1>3, <1>4, <1>5

(***************************************************************************)
(* One more funding is accepted: the others keep their numbers, and so     *)
(* does whatever refers to them.                                           *)
(***************************************************************************)
Grows(g, e, h) == h = Append(g, e)

LEMMA GrownWorth ==
  ASSUME NEW g \in Seq(Fundings), NEW e \in Fundings,
         NEW h, Grows(g, e, h)
  PROVE  /\ h \in Seq(Fundings) /\ Len(h) = Len(g) + 1
         /\ \A n \in 1..Len(g) : h[n] = g[n]
         /\ h[Len(g) + 1] = e
         /\ \A i \in 1..(N + Len(g)) : WorthOf(h)[i] = WorthOf(g)[i]
         /\ WorthOf(h)[N + Len(g) + 1] = e.change
         /\ \A n \in 1..Len(g) : PaidBy(h)[n] = PaidBy(g)[n]
         /\ PaidBy(h)[Len(g) + 1] = e.value
<1>1. /\ h \in Seq(Fundings) /\ Len(h) = Len(g) + 1 /\ Len(g) \in Nat
      /\ h[Len(g) + 1] = e /\ \A n \in 1..Len(g) : h[n] = g[n]
  BY DEF Grows
<1> USE Constants
<1>2. \A i \in 1..(N + Len(g)) : WorthOf(h)[i] = WorthOf(g)[i]
  <2> SUFFICES ASSUME NEW i \in 1..(N + Len(g))
               PROVE  WorthOf(h)[i] = WorthOf(g)[i]
    OBVIOUS
  <2>1. i \in 1..(N + Len(h)) /\ (~(i <= N) => i - N \in 1..Len(g))
    BY <1>1
  <2> QED
    BY <2>1, <1>1 DEF WorthOf
<1>3. WorthOf(h)[N + Len(g) + 1] = e.change
  <2>1. /\ N + Len(g) + 1 \in 1..(N + Len(h)) /\ ~(N + Len(g) + 1 <= N)
        /\ (N + Len(g) + 1) - N = Len(g) + 1
    BY <1>1
  <2> QED
    BY <2>1, <1>1 DEF WorthOf
<1>4. /\ \A n \in 1..Len(g) : PaidBy(h)[n] = PaidBy(g)[n]
      /\ PaidBy(h)[Len(g) + 1] = e.value
  BY <1>1 DEF PaidBy
<1> QED
  BY <1>1, <1>2, <1>3, <1>4

LEMMA GrownBacked ==
  ASSUME NEW g \in Seq(Fundings), NEW e \in Fundings,
         NEW h, Grows(g, e, h),
         NEW channels, WellFormed(channels), BackedBy(channels, g)
  PROVE  BackedBy(channels, h)
<1>1. Len(h) = Len(g) + 1 /\ Len(g) \in Nat /\ \A n \in 1..Len(g) : h[n] = g[n]
  BY GrownWorth
<1> SUFFICES ASSUME NEW k \in DOMAIN channels, channels[k].txid # 0
             PROVE  /\ channels[k].txid <= Len(h)
                    /\ h[channels[k].txid].pair = k
                    /\ \/ h[channels[k].txid].value = channels[k].capacity
                       \/ /\ h[channels[k].txid].value < channels[k].capacity
                          /\ h[channels[k].txid].change = 0
  BY DEF BackedBy
<1>2. channels[k].txid \in 1..Len(g)
  BY <1>1 DEF BackedBy, WellFormed
<1>3. h[channels[k].txid] = g[channels[k].txid]
  BY <1>1, <1>2
<1> QED
  BY <1>1, <1>2, <1>3 DEF BackedBy

LEMMA GrownSigned ==
  ASSUME NEW g \in Seq(Fundings), NEW e \in Fundings,
         NEW h, Grows(g, e, h), NEW t, Signed(t, g)
  PROVE  Signed(t, h)
<1>0. \A i \in 1..(N + Len(g)) : WorthOf(h)[i] = WorthOf(g)[i]
  BY GrownWorth
<1>1. Len(h) = Len(g) + 1 /\ Len(g) \in Nat
  BY GrownWorth
<1>2. t.inputs \subseteq 1..(N + Len(g))
  BY DEF Signed
<1>3. \A i \in t.inputs : WorthOf(h)[i] = WorthOf(g)[i]
  BY <1>0, <1>2
<1>4. Sats(t.inputs, WorthOf(h)) = Sats(t.inputs, WorthOf(g))
  BY <1>3, SatsAgree
<1>5. t.inputs \subseteq 1..(N + Len(h))
  BY <1>1, <1>2, Constants
<1> QED
  BY <1>4, <1>5 DEF Signed

LEMMA GrownOpens ==
  ASSUME NEW g \in Seq(Fundings), NEW e \in Fundings,
         NEW h, Grows(g, e, h), NEW t, NEW channels, Opens(t, channels, g)
  PROVE  Opens(t, channels, h)
<1>1. Len(h) = Len(g) + 1 /\ Len(g) \in Nat
  BY GrownWorth
<1> QED
  BY <1>1 DEF Opens
-----------------------------------------------------------------------------
(* The calls on the files.                                                 *)
LEMMA OpenTempFacts ==
  ASSUME NEW f, FileSystem(f), NEW s \in Sessions, NEW g, g = OpenTemp(f, s)
  PROVE  /\ FileSystem(g)
         /\ g.file = f.file /\ g.tmp = Empty /\ g.fd[s] = "tmp"
         /\ \A t \in Sessions \ {s} : g.fd[t] = f.fd[t]
<1>1. g = [file |-> f.file, tmp |-> Empty, fd |-> [f.fd EXCEPT ![s] = "tmp"]]
  BY DEF FileSystem, OpenTemp
<1> QED
  BY <1>1 DEF FileSystem

LEMMA PutFacts ==
  ASSUME NEW f, FileSystem(f), NEW s \in Sessions, NEW content,
         NEW g, g = Put(f, s, content)
  PROVE  /\ FileSystem(g)
         /\ g.fd[s] = "none"
         /\ \A t \in Sessions \ {s} : g.fd[t] = f.fd[t]
         /\ f.fd[s] = "tmp" => g.file = f.file /\ g.tmp = content
         /\ f.fd[s] = "file" => g.file = content /\ g.tmp = f.tmp
         /\ f.fd[s] \notin {"tmp", "file"} => g.file = f.file /\ g.tmp = f.tmp
<1> DEFINE closed == [f.fd EXCEPT ![s] = "none"]
<1>1. closed = [t \in Sessions |-> IF t = s THEN "none" ELSE f.fd[t]]
  BY DEF FileSystem
<1>2. CASE f.fd[s] = "tmp"
  <2>1. g = [file |-> f.file, tmp |-> content, fd |-> closed]
    BY <1>2 DEF FileSystem, Put
  <2> QED
    BY <2>1, <1>1, <1>2 DEF FileSystem
<1>3. CASE f.fd[s] = "file"
  <2>1. g = [file |-> content, tmp |-> f.tmp, fd |-> closed]
    BY <1>3 DEF FileSystem, Put
  <2> QED
    BY <2>1, <1>1, <1>3 DEF FileSystem
<1>4. CASE f.fd[s] \notin {"tmp", "file"}
  <2>1. g = [file |-> f.file, tmp |-> f.tmp, fd |-> closed]
    BY <1>4 DEF FileSystem, Put
  <2> QED
    BY <2>1, <1>1, <1>4 DEF FileSystem
<1> QED
  BY <1>2, <1>3, <1>4

LEMMA ReplaceFacts ==
  ASSUME NEW f, FileSystem(f), NEW g, g = ReplaceFile(f)
  PROVE  /\ FileSystem(g)
         /\ g.file = f.tmp /\ g.tmp = Absent
         /\ \A t \in Sessions : f.fd[t] = "none" => g.fd[t] = "none"
BY DEF FileSystem, ReplaceFile, Unnamed

LEMMA BackupFacts ==
  ASSUME NEW f, FileSystem(f), NEW g, g = Backup(f)
  PROVE  /\ FileSystem(g)
         /\ g.file = Absent /\ g.tmp = f.tmp
         /\ \A t \in Sessions : f.fd[t] = "none" => g.fd[t] = "none"
<1>1. g = [file |-> Absent, tmp |-> f.tmp,
           fd |-> [t \in Sessions |-> Unnamed(f, t)]]
  BY DEF FileSystem, Backup
<1> QED
  BY <1>1 DEF FileSystem, Unnamed

(* The channels of the contents that save_state and a kill leave.          *)
LEMMA Contents ==
  /\ WellFormed(NoChannels)
  /\ \A fundings : BackedBy(NoChannels, fundings)
  /\ \A f \in {Absent, Empty, Torn} : f.channels = NoChannels
  /\ \A channels : Whole(channels).channels = channels
  /\ Absent.kind = "absent" /\ Empty.kind = "empty" /\ Torn.kind = "torn"
  /\ \A channels : Whole(channels).kind = "whole"
BY DEF WellFormed, BackedBy, NoChannels, Absent, Empty, Torn, Whole, File
-----------------------------------------------------------------------------
(* What a step of session s leaves alone.                                  *)
OthersKept(s) ==
    /\ pc' \in [Sessions -> {"idle", "signed", "save", "opened", "written",
                             "status", "backup"}]
    /\ mem' = [t \in Sessions |-> mem'[t]]
    /\ tx' = [t \in Sessions |-> tx'[t]]
    /\ \A t \in Sessions \ {s} : pc'[t] = pc[t] /\ mem'[t] = mem[t] /\ tx'[t] = tx[t]

FundedKept == funded' = funded \/ \E e \in Fundings : Grows(funded, e, funded')

LEMMA ExitFacts ==
  ASSUME Shapes, NEW s \in Sessions, Exit(s)
  PROVE  /\ OthersKept(s)
         /\ pc'[s] = "idle" /\ mem'[s] = NoChannels /\ tx'[s] = NoTx
BY DEF Shapes, Exit, OthersKept

(* A step that writes neither mem nor tx.                                  *)
LEMMA MoveFacts ==
  ASSUME Shapes, NEW s \in Sessions,
         NEW at \in {"idle", "signed", "save", "opened", "written",
                     "status", "backup"},
         pc' = [pc EXCEPT ![s] = at], UNCHANGED <<mem, tx>>
  PROVE  /\ OthersKept(s)
         /\ pc'[s] = at /\ mem'[s] = mem[s] /\ tx'[s] = tx[s]
<1>1. pc' \in [Sessions -> {"idle", "signed", "save", "opened", "written",
                            "status", "backup"}]
  BY DEF Shapes
<1>2. pc'[s] = at /\ \A t \in Sessions \ {s} : pc'[t] = pc[t]
  BY DEF Shapes
<1> QED
  BY <1>1, <1>2 DEF Shapes, OthersKept

LEMMA KeptBacked ==
  ASSUME Shapes, FundedKept, NEW channels,
         BackedBy(channels, funded), WellFormed(channels)
  PROVE  BackedBy(channels, funded')
<1>1. CASE funded' = funded
  BY <1>1
<1>2. ASSUME NEW e \in Fundings, Grows(funded, e, funded')
      PROVE  BackedBy(channels, funded')
  BY <1>2, GrownBacked DEF Shapes
<1> QED
  BY <1>1, <1>2 DEF FundedKept

LEMMA KeptSession ==
  ASSUME Shapes, SessionsOK, FundedKept, NEW s \in Sessions, OthersKept(s),
         NEW t \in Sessions \ {s}
  PROVE  SessionOK(t)'
<1>1. pc'[t] = pc[t] /\ mem'[t] = mem[t] /\ tx'[t] = tx[t]
  BY DEF OthersKept
<1>2. SessionOK(t)
  BY DEF SessionsOK
<1>3. BackedBy(mem[t], funded')
  BY <1>2, KeptBacked DEF SessionOK
<1>4. pc[t] = "signed" => Signed(tx[t], funded')
  <2>1. CASE funded' = funded
    BY <2>1, <1>2 DEF SessionOK
  <2>2. ASSUME NEW e \in Fundings, Grows(funded, e, funded'), pc[t] = "signed"
        PROVE  Signed(tx[t], funded')
    BY <2>2, <1>2, GrownSigned DEF SessionOK, Shapes
  <2> QED
    BY <2>1, <2>2 DEF FundedKept
<1>5. pc[t] \in {"save", "opened", "written"} /\ tx[t] # NoTx =>
        Opens(tx[t], mem[t], funded')
  <2>1. CASE funded' = funded
    BY <2>1, <1>2 DEF SessionOK
  <2>2. ASSUME NEW e \in Fundings, Grows(funded, e, funded'),
               Opens(tx[t], mem[t], funded)
        PROVE  Opens(tx[t], mem[t], funded')
    BY <2>2, GrownOpens DEF Shapes
  <2> QED
    BY <2>1, <2>2, <1>2 DEF FundedKept, SessionOK
<1> QED
  BY <1>1, <1>2, <1>3, <1>4, <1>5 DEF SessionOK

(* The session that takes the step is left to be shown.                    *)
LEMMA KeptSessions ==
  ASSUME Shapes, SessionsOK, FundedKept, NEW s \in Sessions, OthersKept(s),
         SessionOK(s)'
  PROVE  SessionsOK'
BY KeptSession DEF SessionsOK

LEMMA ExitSession ==
  ASSUME Shapes, SessionsOK, FundedKept, NEW s \in Sessions, Exit(s)
  PROVE  SessionsOK'
<1>1. /\ OthersKept(s)
      /\ pc'[s] = "idle" /\ mem'[s] = NoChannels /\ tx'[s] = NoTx
  BY ExitFacts
<1>2. BackedBy(NoChannels, funded') /\ WellFormed(NoChannels)
  BY Contents
<1>3. NoTx.value = 0 /\ NoTx.change = 0
  BY DEF NoTx
<1>4. SessionOK(s)'
  BY <1>1, <1>2, <1>3 DEF SessionOK
<1> QED
  BY <1>1, <1>4, KeptSessions

(* A step that keeps the files, of a session that is not saving after it.  *)
LEMMA QuietFiles ==
  ASSUME Shapes, NEW s \in Sessions, OthersKept(s), FundedKept,
         UNCHANGED <<fs, overlap>>, OnlyWriters, FilesBacked, FilesSafe,
         pc[s] # "opened", pc'[s] \notin {"opened", "written", "backup"}
  PROVE  OnlyWriters' /\ FilesBacked' /\ FilesSafe'
<1>1. OnlyWriters'
  BY DEF OnlyWriters, OthersKept
<1>2. FilesBacked'
  BY KeptBacked DEF FilesBacked
<1>3. FilesSafe'
  <2> SUFFICES ASSUME ~overlap, OneSaves
               PROVE  OneSaves'
    BY DEF FilesSafe
  <2>1. Saving' \subseteq Saving
    BY DEF Saving, OthersKept
  <2>2. ASSUME NEW t \in Sessions
        PROVE  /\ pc'[t] = "opened" => fs'.fd[t] = "tmp" /\ fs'.tmp = Empty
               /\ pc'[t] = "written" => fs'.tmp = Whole(mem'[t])
               /\ pc'[t] # "backup"
    BY DEF OneSaves, OthersKept
  <2> QED
    BY <2>1, <2>2 DEF OneSaves
<1> QED
  BY <1>1, <1>2, <1>3
-----------------------------------------------------------------------------
LEMMA MoneyKept ==
  ASSUME CoinsWorth, Balanced, UNCHANGED <<utxos, funded>>
  PROVE  CoinsWorth' /\ Balanced'
BY DEF CoinsWorth, Balanced, Unspent, Locked

(* fund-channel: coin selection.                                           *)
LEMMA CommandNodes ==
  ASSUME NEW l \in Commands
  PROVE  /\ <<l[1], l[2]>> \in Nodes \X Nodes
         /\ Range(<<l[1], l[2]>>) = {l[1], l[2]}
<1>1. DOMAIN l = {1, 2}
  BY CliAssumption
<1>2. l[1] \in Range(l) /\ l[2] \in Range(l)
  BY <1>1 DEF Range
<1> QED
  BY <1>2 DEF Nodes, Range

LEMMA CoinsValue ==
  ASSUME Shapes, CoinsWorth, NEW S \in SUBSET utxos
  PROVE  /\ Value(S) = Cardinality(Sats(IdsOf(S), WorthOf(funded)))
         /\ Value(S) \in Nat
         /\ IdsOf(S) \subseteq 1..(N + Len(funded))
         /\ IsFiniteSet(IdsOf(S))
<1>1. \A u \in S : u.value = WorthOf(funded)[u.id]
  BY DEF CoinsWorth
<1>2. Value(S) = Cardinality(Sats(IdsOf(S), WorthOf(funded)))
  BY <1>1, ValueSats
<1>3. IdsOf(S) \subseteq 1..(N + Len(funded))
  BY DEF CoinsWorth, IdsOf
<1>4. /\ IsFiniteSet(1..(N + Len(funded)))
      /\ \A i \in 1..(N + Len(funded)) : WorthOf(funded)[i] \in Nat
  BY WorthType DEF Shapes
<1>5. IsFiniteSet(IdsOf(S))
  BY <1>3, <1>4, FS_Subset
<1>6. \A i \in IdsOf(S) : WorthOf(funded)[i] \in Nat
  BY <1>3, <1>4
<1>7. Cardinality(Sats(IdsOf(S), WorthOf(funded))) \in Nat
  BY <1>5, <1>6, SatsFinite
<1> QED
  BY <1>2, <1>3, <1>5, <1>7

LEMMA LargerOfTwo ==
  ASSUME NEW a \in Int, NEW b \in Int, a <= b
  PROVE  Max({a, b}) = b
<1>1. \E x \in {a, b} : \A y \in {a, b} : x >= y
  OBVIOUS
<1>2. Max({a, b}) \in {a, b} /\ \A y \in {a, b} : Max({a, b}) >= y
  BY <1>1 DEF Max
<1> QED
  BY <1>2

LEMMA FundBeginStep ==
  ASSUME IInv, NEW s \in Sessions, NEW l \in Commands, FundBegin(s, l[1], l[2])
  PROVE  IInv'
<1> USE DEF IInv
<1> PICK S \in Selections(l[1]) :
      /\ Value(S) >= Fee + Dust
      /\ tx' = [tx EXCEPT ![s] =
            [inputs |-> {u.id : u \in S}, command |-> <<l[1], l[2]>>,
             value |-> FundedCapacity(S),
             change |-> Value(S) - FundedCapacity(S) - Fee]]
  BY DEF FundBegin
<1>1. S \in SUBSET utxos
  BY DEF Selections, Spendable
<1>2. /\ Value(S) = Cardinality(Sats(IdsOf(S), WorthOf(funded)))
      /\ Value(S) \in Nat
      /\ IdsOf(S) \subseteq 1..(N + Len(funded))
  BY <1>1, CoinsValue
<1>3. /\ FundedCapacity(S) \in Nat /\ FundedCapacity(S) # 0
      /\ Value(S) - FundedCapacity(S) - Fee \in Nat
      /\ \/ FundedCapacity(S) = Capacity
         \/ FundedCapacity(S) < Capacity /\ Value(S) - FundedCapacity(S) - Fee = 0
  <2>1. CASE Capacity > Value(S) - Fee
    <3>1. Max({Dust, Value(S) - Fee}) = Value(S) - Fee
      BY <1>2, Constants, LargerOfTwo
    <3> QED
      BY <2>1, <3>1, <1>2, Constants DEF FundedCapacity
  <2>2. CASE ~(Capacity > Value(S) - Fee)
    BY <2>2, <1>2, Constants DEF FundedCapacity
  <2> QED
    BY <2>1, <2>2
<1>4. /\ pc' = [pc EXCEPT ![s] = "signed"]
      /\ UNCHANGED <<fs, mem, utxos, funded, acked, overlap>>
  BY DEF FundBegin
<1>5. /\ OthersKept(s) /\ pc[s] = "idle" /\ pc'[s] = "signed" /\ mem'[s] = mem[s]
      /\ tx'[s] = [inputs |-> IdsOf(S), command |-> <<l[1], l[2]>>,
                   value |-> FundedCapacity(S),
                   change |-> Value(S) - FundedCapacity(S) - Fee]
  BY <1>4 DEF FundBegin, Shapes, OthersKept, IdsOf
<1>6. FundedKept
  BY <1>4 DEF FundedKept
<1>7. Shapes'
  BY <1>4, <1>5 DEF Shapes, OthersKept
<1>8. SessionsOK'
  <2>1. Signed(tx'[s], funded)
    <3>1. FundedCapacity(S) + (Value(S) - FundedCapacity(S) - Fee) + Fee = Value(S)
      BY <1>2, <1>3, Constants
    <3>2. /\ tx'[s].inputs = IdsOf(S) /\ tx'[s].command = <<l[1], l[2]>>
          /\ tx'[s].value = FundedCapacity(S)
          /\ tx'[s].change = Value(S) - FundedCapacity(S) - Fee
      BY <1>5
    <3>3. tx'[s].command \in Nodes \X Nodes
      BY <3>2, CommandNodes
    <3> QED
      BY <1>2, <1>3, <3>1, <3>2, <3>3 DEF Signed
  <2>2. tx'[s].value \in Nat /\ tx'[s].change \in Nat
    BY <1>3, <1>5
  <2>3. SessionOK(s)'
    BY <2>1, <2>2, <1>4, <1>5 DEF SessionOK, SessionsOK
  <2> QED
    BY <2>3, <1>5, <1>6, KeptSessions
<1>9. CoinsWorth' /\ Balanced'
  BY <1>4, MoneyKept
<1>10. OnlyWriters' /\ FilesBacked' /\ FilesSafe'
  BY <1>4, <1>5, <1>6, QuietFiles
<1> QED
  BY <1>7, <1>8, <1>9, <1>10
-----------------------------------------------------------------------------
(* The network accepts the transaction of session s.                       *)
Accepted(s) == [pair |-> Range(tx[s].command), value |-> tx[s].value,
                change |-> tx[s].change]

LEMMA AcceptedFacts ==
  ASSUME IInv, NEW s \in Sessions, Broadcast(s)
  PROVE  /\ Signed(tx[s], funded)
         /\ Accepted(s) \in Fundings
         /\ Grows(funded, Accepted(s), funded')
         /\ tx[s].command \in Nodes \X Nodes
         /\ Range(tx[s].command) = {tx[s].command[1], tx[s].command[2]}
         /\ tx[s].value \in Nat \ {0} /\ tx[s].change \in Nat
<1>1. Signed(tx[s], funded) /\ tx[s].value \in Nat /\ tx[s].change \in Nat
  BY DEF Broadcast, IInv, SessionsOK, SessionOK
<1>2. tx[s].command \in Nodes \X Nodes /\ tx[s].value # 0
  BY <1>1 DEF Signed
<1>3. Range(tx[s].command) = {tx[s].command[1], tx[s].command[2]}
  <2>1. PICK a \in Nodes, b \in Nodes : tx[s].command = <<a, b>>
    BY <1>2
  <2> QED
    BY <2>1 DEF Range
<1>4. Range(tx[s].command) \in SUBSET Nodes
  BY <1>2, <1>3
<1>5. Accepted(s) \in Fundings
  BY <1>1, <1>2, <1>4 DEF Accepted, Fundings
<1>6. Grows(funded, Accepted(s), funded')
  BY DEF Broadcast, Grows, Accepted
<1> QED
  BY <1>1, <1>2, <1>3, <1>5, <1>6

(* Its inputs are gone, its change is new: the ids that are left.          *)
LEMMA AcceptedCoins ==
  ASSUME IInv, NEW s \in Sessions, Broadcast(s)
  PROVE  /\ tx[s].inputs \subseteq IdsOf(utxos)
         /\ IdsOf(utxos') = (IdsOf(utxos) \ tx[s].inputs) \cup IdsOf(Change(s))
         /\ \/ tx[s].change >= Dust /\ IdsOf(Change(s)) = {N + Len(funded) + 1}
            \/ tx[s].change < Dust /\ IdsOf(Change(s)) = {}
<1>1. tx[s].inputs \subseteq IdsOf(utxos)
  BY DEF Broadcast, IdsOf
<1>2. IdsOf(utxos') = (IdsOf(utxos) \ tx[s].inputs) \cup IdsOf(Change(s))
  <2>1. utxos' = {u \in utxos : u.id \notin tx[s].inputs} \cup Change(s)
    BY DEF Broadcast
  <2> QED
    BY <2>1 DEF IdsOf
<1>3. tx[s].change \in Int /\ Dust \in Int
  BY AcceptedFacts, Constants
<1>4. \/ tx[s].change >= Dust /\ IdsOf(Change(s)) = {N + Len(funded) + 1}
      \/ tx[s].change < Dust /\ IdsOf(Change(s)) = {}
  <2>1. CASE tx[s].change >= Dust
    <3>1. Change(s) = {[id |-> N + Len(funded) + 1, owner |-> tx[s].command[1],
                        value |-> tx[s].change, confirmed |-> FALSE]}
      BY <2>1 DEF Change, N
    <3> QED
      BY <2>1, <3>1 DEF IdsOf
  <2>2. CASE ~(tx[s].change >= Dust)
    <3>1. Change(s) = {} /\ tx[s].change < Dust
      BY <1>3, <2>2 DEF Change
    <3> QED
      BY <3>1 DEF IdsOf
  <2> QED
    BY <2>1, <2>2
<1> QED
  BY <1>1, <1>2, <1>4

LEMMA AcceptedUnspent ==
  ASSUME IInv, NEW s \in Sessions, Broadcast(s)
  PROVE  /\ Unspent \in Nat /\ Unspent' \in Nat
         /\ Unspent - Unspent' >= tx[s].value + Fee
         /\ Unspent - Unspent' <= tx[s].value + Fee + Dust - 1
<1> DEFINE live == IdsOf(utxos)
           I == tx[s].inputs
           rest == live \ I
           new == N + Len(funded) + 1
           W == WorthOf(funded)
           V == WorthOf(funded')
           paid == IdsOf(Change(s))
<1>1. /\ Signed(tx[s], funded) /\ Accepted(s) \in Fundings
      /\ Grows(funded, Accepted(s), funded')
      /\ tx[s].value \in Nat \ {0} /\ tx[s].change \in Nat
  BY AcceptedFacts
<1>2. Len(funded) \in Nat /\ funded \in Seq(Fundings)
  BY DEF IInv, Shapes
<1>3. /\ live \subseteq 1..(N + Len(funded)) /\ IsFiniteSet(live)
  BY CoinsValue DEF IInv
<1>4. \A i \in 1..(N + Len(funded)) : W[i] \in Nat /\ V[i] = W[i]
  BY <1>1, <1>2, WorthType, GrownWorth
<1>5. V[new] = tx[s].change
  BY <1>1, <1>2, GrownWorth DEF Accepted
<1>6. I \subseteq live /\ IdsOf(utxos') = rest \cup paid
  BY AcceptedCoins
<1>7. \/ tx[s].change >= Dust /\ paid = {new}
      \/ tx[s].change < Dust /\ paid = {}
  BY AcceptedCoins
<1>8. Cardinality(Sats(I, W)) = tx[s].value + tx[s].change + Fee
  BY <1>1 DEF Signed
<1>9. Unspent = Cardinality(Sats(live, W)) /\ Unspent' = Cardinality(Sats(rest \cup paid, V))
  BY <1>6 DEF Unspent
<1>10. IsFiniteSet(rest) /\ IsFiniteSet(I) /\ IsFiniteSet({new}) /\ IsFiniteSet({})
  <2>1. IsFiniteSet(rest) /\ IsFiniteSet(I)
    BY <1>3, <1>6, FS_Subset
  <2> QED
    BY <2>1, FS_Singleton, FS_EmptySet
<1>11. rest \cup I = live /\ rest \cap I = {} /\ new \notin rest
  BY <1>2, <1>3, <1>6, Constants
<1>12. (\A i \in rest : W[i] \in Nat /\ V[i] = W[i]) /\ (\A i \in I : W[i] \in Nat)
  BY <1>3, <1>4, <1>6
<1> HIDE DEF live, I, rest, new, W, V, paid
<1>13. Cardinality(Sats(live, W)) = Cardinality(Sats(rest, W)) + Cardinality(Sats(I, W))
  <2>1. rest \cap I = {} /\ \A i \in rest \cup I : W[i] \in Nat
    BY <1>11, <1>12
  <2>2. Cardinality(Sats(rest \cup I, W)) = Cardinality(Sats(rest, W)) + Cardinality(Sats(I, W))
    BY <2>1, <1>10, SatsUnion
  <2> QED
    BY <2>2, <1>11
<1>14. Cardinality(Sats(rest, W)) \in Nat
  BY <1>10, <1>12, SatsFinite
<1>15. Sats(rest, V) = Sats(rest, W)
  BY <1>12, SatsAgree
<1> DEFINE R == Cardinality(Sats(rest, W))
<1>18. Unspent = R + (tx[s].value + tx[s].change + Fee)
  BY <1>8, <1>9, <1>13
<1>19. R \in Nat /\ Fee \in Nat /\ Dust \in Nat
  BY <1>14, Constants
<1>16. CASE tx[s].change >= Dust /\ paid = {new}
  <2>1. rest \cap {new} = {} /\ \A i \in rest \cup {new} : V[i] \in Nat
    BY <1>1, <1>5, <1>11, <1>12
  <2>2. Cardinality(Sats(rest \cup {new}, V)) = Cardinality(Sats(rest, V)) + Cardinality(Sats({new}, V))
    BY <2>1, <1>10, SatsUnion
  <2>3. Cardinality(Sats({new}, V)) = tx[s].change
    BY <1>1, <1>5, SatsSingle
  <2>4. Unspent' = R + tx[s].change
    BY <1>9, <1>15, <1>16, <2>2, <2>3
  <2>5. Dust >= 1
    BY Constants
  <2> HIDE DEF R
  <2> QED
    BY <2>4, <2>5, <1>1, <1>18, <1>19
<1>17. CASE tx[s].change < Dust /\ paid = {}
  <2>1. rest \cup {} = rest
    OBVIOUS
  <2>2. Unspent' = R
    BY <1>9, <1>15, <1>17, <2>1
  <2> HIDE DEF R
  <2> QED
    BY <2>2, <1>1, <1>17, <1>18, <1>19
<1> QED
  BY <1>7, <1>16, <1>17

LEMMA AcceptedLocked ==
  ASSUME IInv, NEW s \in Sessions, Broadcast(s)
  PROVE  Locked \in Nat /\ Locked' = Locked + tx[s].value
<1> DEFINE L == Len(funded)
           P == PaidBy(funded)
           Q == PaidBy(funded')
<1>1. /\ Accepted(s) \in Fundings /\ Grows(funded, Accepted(s), funded')
      /\ tx[s].value \in Nat \ {0}
  BY AcceptedFacts
<1>2. L \in Nat /\ funded \in Seq(Fundings) /\ Len(funded') = L + 1
  BY <1>1, GrownWorth DEF IInv, Shapes
<1>3. (\A n \in 1..L : P[n] \in Nat /\ Q[n] = P[n]) /\ IsFiniteSet(1..L)
  BY <1>1, <1>2, WorthType, GrownWorth
<1>4. Q[L + 1] = tx[s].value
  BY <1>1, <1>2, GrownWorth DEF Accepted
<1>5. Locked = Cardinality(Sats(1..L, P)) /\ Locked' = Cardinality(Sats(1..(L + 1), Q))
  BY <1>2 DEF Locked
<1> HIDE DEF L, P, Q
<1>6. 1..(L + 1) = (1..L) \cup {L + 1}
  BY <1>2
<1>13. (1..L) \cap {L + 1} = {}
  BY <1>2
<1>7. IsFiniteSet({L + 1})
  BY FS_Singleton
<1>8. \A n \in (1..L) \cup {L + 1} : Q[n] \in Nat
  BY <1>1, <1>3, <1>4
<1>9. Cardinality(Sats((1..L) \cup {L + 1}, Q)) = Cardinality(Sats(1..L, Q)) + Cardinality(Sats({L + 1}, Q))
  <2> DEFINE I == 1..L
             J == {L + 1}
  <2>1. /\ IsFiniteSet(I) /\ IsFiniteSet(J) /\ I \cap J = {}
        /\ \A n \in I \cup J : Q[n] \in Nat
    BY <1>3, <1>7, <1>8, <1>13
  <2> HIDE DEF I, J
  <2>2. Cardinality(Sats(I \cup J, Q)) = Cardinality(Sats(I, Q)) + Cardinality(Sats(J, Q))
    BY <2>1, SatsUnion
  <2> QED
    BY <2>2 DEF I, J
<1>10. Cardinality(Sats({L + 1}, Q)) = tx[s].value
  BY <1>1, <1>4, SatsSingle
<1>11. Sats(1..L, Q) = Sats(1..L, P)
  BY <1>3, SatsAgree
<1>12. Cardinality(Sats(1..L, P)) \in Nat
  BY <1>3, SatsFinite
<1> QED
  BY <1>5, <1>6, <1>9, <1>10, <1>11, <1>12
(* open_channel adds an entry that the new funding pays for.               *)
Adds(opened, channels, k, n) ==
    /\ DOMAIN opened = DOMAIN channels \cup {k}
    /\ opened[k].sender \in k /\ opened[k].capacity = Capacity
    /\ opened[k].txid = n
    /\ \A j \in DOMAIN channels : j # k => opened[j] = channels[j]

Pays(fundings, n, k) ==
    /\ n \in 1..Len(fundings)
    /\ fundings[n].pair = k
    /\ \/ fundings[n].value = Capacity
       \/ fundings[n].value < Capacity /\ fundings[n].change = 0

LEMMA OpenedAdds ==
  ASSUME NEW channels, NEW a, NEW b, NEW n
  PROVE  Adds(Opened(channels, a, b, n), channels, {a, b}, n)
BY DEF Adds, Opened

LEMMA OpenedFacts ==
  ASSUME NEW g \in Seq(Fundings), NEW channels, NEW k, NEW n, NEW opened,
         Adds(opened, channels, k, n), Pays(g, n, k),
         WellFormed(channels), BackedBy(channels, g)
  PROVE  WellFormed(opened) /\ BackedBy(opened, g)
<1>1. /\ DOMAIN opened = DOMAIN channels \cup {k}
      /\ opened[k].sender \in k /\ opened[k].capacity = Capacity
      /\ opened[k].txid = n
      /\ \A j \in DOMAIN channels : j # k => opened[j] = channels[j]
  BY DEF Adds
<1>2. /\ n \in Nat /\ n <= Len(g) /\ g[n].pair = k
      /\ \/ g[n].value = Capacity
         \/ g[n].value < Capacity /\ g[n].change = 0
  BY DEF Pays
<1>5. WellFormed(opened)
  <2> SUFFICES ASSUME NEW j \in DOMAIN opened
               PROVE  opened[j].sender \in j /\ opened[j].txid \in Nat
    BY DEF WellFormed
  <2>1. CASE j = k
    BY <2>1, <1>1, <1>2
  <2>2. CASE j # k
    BY <2>2, <1>1 DEF WellFormed
  <2> QED
    BY <2>1, <2>2
<1>6. BackedBy(opened, g)
  <2> SUFFICES ASSUME NEW j \in DOMAIN opened, opened[j].txid # 0
               PROVE  /\ opened[j].txid <= Len(g)
                      /\ g[opened[j].txid].pair = j
                      /\ \/ g[opened[j].txid].value = opened[j].capacity
                         \/ /\ g[opened[j].txid].value < opened[j].capacity
                            /\ g[opened[j].txid].change = 0
    BY DEF BackedBy
  <2>1. CASE j = k
    BY <2>1, <1>1, <1>2
  <2>2. CASE j # k
    <3>1. j \in DOMAIN channels /\ opened[j] = channels[j]
      BY <2>2, <1>1
    <3> QED
      BY <3>1 DEF BackedBy
  <2> QED
    BY <2>1, <2>2
<1> QED
  BY <1>5, <1>6

LEMMA BroadcastSessions ==
  ASSUME IInv, NEW s \in Sessions, Broadcast(s)
  PROVE  OthersKept(s) /\ SessionsOK' /\ pc'[s] \in {"idle", "save"}
<1>1. /\ Signed(tx[s], funded) /\ Accepted(s) \in Fundings
      /\ Grows(funded, Accepted(s), funded')
      /\ tx[s].command \in Nodes \X Nodes
      /\ Range(tx[s].command) = {tx[s].command[1], tx[s].command[2]}
  BY AcceptedFacts
<1>2. FundedKept
  BY <1>1 DEF FundedKept
<1>3. Shapes /\ SessionsOK
  BY DEF IInv
<1>4. CASE Exit(s)
  BY <1>2, <1>3, <1>4, ExitFacts, ExitSession
<1> DEFINE a == tx[s].command[1]
           b == tx[s].command[2]
           n == Len(funded')
<1>5. CASE /\ mem' = [mem EXCEPT ![s] = Opened(@, a, b, n)]
           /\ pc' = [pc EXCEPT ![s] = "save"]
           /\ UNCHANGED tx
  <2>1. /\ OthersKept(s) /\ pc'[s] = "save" /\ tx'[s] = tx[s]
        /\ mem'[s] = Opened(mem[s], a, b, n)
    BY <1>3, <1>5 DEF Shapes, OthersKept
  <2>2. /\ funded' \in Seq(Fundings) /\ n \in 1..Len(funded')
        /\ funded'[n] = Accepted(s)
    BY <1>1, <1>3, GrownWorth DEF Shapes
  <2>3. /\ funded'[n].pair = {a, b} /\ funded'[n].value = tx[s].value
        /\ funded'[n].change = tx[s].change
    BY <1>1, <2>2 DEF Accepted
  <2>4. /\ tx[s].value \in Nat /\ tx[s].change \in Nat
        /\ WellFormed(mem[s]) /\ BackedBy(mem[s], funded)
    BY <1>3 DEF SessionsOK, SessionOK
  <2>5. BackedBy(mem[s], funded')
    BY <1>2, <1>3, <2>4, KeptBacked
  <2>6. tx[s].value = Capacity \/ (tx[s].value < Capacity /\ tx[s].change = 0)
    BY <1>1 DEF Signed
  <2> HIDE DEF a, b, n
  <2>10. \/ funded'[n].value = Capacity
         \/ funded'[n].value < Capacity /\ funded'[n].change = 0
    BY <2>3, <2>6
  <2>7. /\ WellFormed(mem'[s]) /\ BackedBy(mem'[s], funded')
        /\ {a, b} \in DOMAIN mem'[s] /\ mem'[s][{a, b}].txid = n
    <3>1. Adds(mem'[s], mem[s], {a, b}, n)
      BY <2>1, OpenedAdds
    <3>2. Pays(funded', n, {a, b})
      BY <2>2, <2>3, <2>10 DEF Pays
    <3>3. WellFormed(mem'[s]) /\ BackedBy(mem'[s], funded')
      BY <3>1, <3>2, <2>2, <2>4, <2>5, OpenedFacts
    <3> QED
      BY <3>1, <3>3 DEF Adds
  <2>8. Opens(tx'[s], mem'[s], funded')
    BY <1>1, <2>1, <2>2, <2>7 DEF Opens, a, b
  <2>9. SessionOK(s)'
    BY <2>1, <2>4, <2>7, <2>8 DEF SessionOK
  <2> QED
    BY <1>2, <1>3, <2>1, <2>9, KeptSessions
<1> QED
  BY <1>4, <1>5 DEF Broadcast

LEMMA AcceptedWorth ==
  ASSUME IInv, NEW s \in Sessions, Broadcast(s)
  PROVE  CoinsWorth'
<1>1. /\ Accepted(s) \in Fundings /\ Grows(funded, Accepted(s), funded')
      /\ tx[s].command \in Nodes \X Nodes /\ tx[s].change \in Nat
  BY AcceptedFacts
<1>2. Len(funded) \in Nat /\ funded \in Seq(Fundings) /\ Len(funded') = Len(funded) + 1
  BY <1>1, GrownWorth DEF IInv, Shapes
<1>3. /\ \A i \in 1..(N + Len(funded)) : WorthOf(funded')[i] = WorthOf(funded)[i]
      /\ WorthOf(funded')[N + Len(funded) + 1] = tx[s].change
  BY <1>1, <1>2, GrownWorth DEF Accepted
<1>4. /\ utxos \subseteq Utxos
      /\ \A u \in utxos : u.id \in 1..(N + Len(funded))
                          /\ u.value = WorthOf(funded)[u.id]
  BY DEF IInv, CoinsWorth
<1> SUFFICES ASSUME NEW u \in utxos'
             PROVE  /\ u \in Utxos /\ u.id \in 1..(N + Len(funded'))
                    /\ u.value = WorthOf(funded')[u.id]
  BY DEF CoinsWorth
<1>5. u \in utxos \/ u \in Change(s)
  BY DEF Broadcast
<1>6. CASE u \in utxos
  BY <1>2, <1>3, <1>4, <1>6, Constants
<1>7. CASE u \in Change(s)
  <2>1. /\ tx[s].change >= Dust
        /\ u = [id |-> N + Len(funded) + 1, owner |-> tx[s].command[1],
                value |-> tx[s].change, confirmed |-> FALSE]
    BY <1>7 DEF Change, N
  <2>2. N + Len(funded) + 1 \in 1..(N + Len(funded'))
    BY <1>2, Constants
  <2>3. tx[s].change \in Nat \ {0} /\ tx[s].command[1] \in Owners
    BY <1>1, <2>1, Constants DEF Owners
  <2>4. u \in Utxos
    BY <1>2, <2>1, <2>3, Constants DEF Utxos
  <2> QED
    BY <1>3, <2>1, <2>2, <2>4
<1> QED
  BY <1>5, <1>6, <1>7

LEMMA BroadcastStep ==
  ASSUME IInv, NEW s \in Sessions, Broadcast(s)
  PROVE  IInv'
<1> USE DEF IInv
<1>1. /\ Accepted(s) \in Fundings /\ Grows(funded, Accepted(s), funded')
      /\ tx[s].value \in Nat
  BY AcceptedFacts
<1>2. FundedKept
  BY <1>1 DEF FundedKept
<1>3. UNCHANGED <<fs, acked, overlap>> /\ pc[s] = "signed"
  BY DEF Broadcast
<1>4. OthersKept(s) /\ SessionsOK' /\ pc'[s] \in {"idle", "save"}
  BY BroadcastSessions
<1>5. Len(funded) \in Nat /\ funded' \in Seq(Fundings) /\ Len(funded') = Len(funded) + 1
  BY <1>1, GrownWorth DEF Shapes
<1>6. Shapes'
  <2>1. acked' \subseteq 1..Len(funded')
    BY <1>3, <1>5 DEF Shapes
  <2> QED
    BY <2>1, <1>3, <1>4, <1>5 DEF Shapes, OthersKept
<1>7. OnlyWriters' /\ FilesBacked' /\ FilesSafe'
  BY <1>2, <1>3, <1>4, QuietFiles
<1>8. CoinsWorth'
  BY AcceptedWorth
<1>9. Balanced'
  <2> DEFINE start == Cardinality(Sats(1..N, CoinWorth))
             L == Len(funded)
             more == Dust - 1
  <2>1. start - (Unspent + Locked) >= L * Fee /\ start - (Unspent + Locked) <= L * (Fee + more)
    BY Constants DEF Balanced
  <2>2. /\ Unspent \in Nat /\ Unspent' \in Nat
        /\ Unspent - Unspent' >= tx[s].value + Fee
        /\ Unspent - Unspent' <= tx[s].value + Fee + more
    BY AcceptedUnspent, Constants, <1>1
  <2>3. Locked \in Nat /\ Locked' = Locked + tx[s].value
    BY AcceptedLocked
  <2>4. start \in Nat
    <3>1. \A i \in 1..N : CoinWorth[i] \in Nat
      BY Constants DEF CoinWorth
    <3>2. IsFiniteSet(1..N)
      BY Constants, FS_Interval
    <3> QED
      BY <3>1, <3>2, SatsFinite
  <2>5. more \in Nat /\ Fee \in Nat /\ L \in Nat
    BY Constants, <1>5
  <2> HIDE DEF start, L, more
  <2>6. (L + 1) * Fee = L * Fee + Fee /\ (L + 1) * (Fee + more) = L * (Fee + more) + (Fee + more)
    BY <2>5
  <2>7. L * Fee \in Nat /\ L * (Fee + more) \in Nat
    BY <2>5
  <2>8. /\ start - (Unspent' + Locked') >= (L + 1) * Fee
        /\ start - (Unspent' + Locked') <= (L + 1) * (Fee + more)
    BY <1>1, <2>1, <2>2, <2>3, <2>4, <2>5, <2>6, <2>7
  <2>9. Fee + more = Fee + Dust - 1
    BY Constants DEF more
  <2> QED
    BY <1>5, <2>8, <2>9 DEF Balanced, start, L
<1> QED
  BY <1>4, <1>6, <1>7, <1>8, <1>9
-----------------------------------------------------------------------------
(* The commands' other steps outside the files.                            *)
LEMMA ConfirmStep ==
  ASSUME IInv, Confirm
  PROVE  IInv'
<1> USE DEF IInv
<1>1. /\ utxos' = {[u EXCEPT !.confirmed = TRUE] : u \in utxos}
      /\ UNCHANGED <<fs, pc, mem, tx, funded, acked, overlap>>
  BY DEF Confirm
<1>2. ASSUME NEW u \in utxos
      PROVE  /\ [u EXCEPT !.confirmed = TRUE] \in Utxos
             /\ [u EXCEPT !.confirmed = TRUE].id = u.id
             /\ [u EXCEPT !.confirmed = TRUE].value = u.value
  BY DEF CoinsWorth, Utxos
<1>3. CoinsWorth'
  <2> SUFFICES ASSUME NEW v \in utxos'
               PROVE  /\ v \in Utxos /\ v.id \in 1..(N + Len(funded))
                      /\ v.value = WorthOf(funded)[v.id]
    BY <1>1 DEF CoinsWorth
  <2> PICK u \in utxos : v = [u EXCEPT !.confirmed = TRUE]
    BY <1>1
  <2>1. /\ u.id \in 1..(N + Len(funded))
        /\ u.value = WorthOf(funded)[u.id]
    BY DEF CoinsWorth
  <2> QED
    BY <1>2, <2>1
<1>4. IdsOf(utxos') = IdsOf(utxos)
  BY <1>1, <1>2 DEF IdsOf
<1>5. Balanced'
  BY <1>1, <1>4 DEF Balanced, Unspent, Locked
<1>6. Shapes' /\ SessionsOK'
  BY <1>1 DEF Shapes, SessionsOK, SessionOK
<1>7. OnlyWriters' /\ FilesBacked' /\ FilesSafe'
  BY <1>1 DEF OnlyWriters, FilesBacked, FilesSafe, OneSaves, Saving
<1> QED
  BY <1>3, <1>5, <1>6, <1>7

(* A session ends without a call on the files.                             *)
LEMMA ExitStep ==
  ASSUME IInv, NEW s \in Sessions, Exit(s), pc[s] # "opened",
         UNCHANGED <<fs, utxos, funded, acked, overlap>>
  PROVE  IInv'
<1> USE DEF IInv
<1>1. OthersKept(s) /\ pc'[s] = "idle"
  BY ExitFacts
<1>2. FundedKept
  BY DEF FundedKept
<1>3. SessionsOK'
  BY <1>2, ExitSession
<1>4. Shapes'
  BY <1>1 DEF Shapes, OthersKept
<1>5. OnlyWriters' /\ FilesBacked' /\ FilesSafe'
  BY <1>1, <1>2, QuietFiles
<1>6. CoinsWorth' /\ Balanced'
  BY MoneyKept
<1> QED
  BY <1>3, <1>4, <1>5, <1>6

LEMMA SimulateStep ==
  ASSUME IInv, NEW s \in Sessions, Simulate(s)
  PROVE  IInv'
<1> USE DEF IInv
<1> DEFINE links == {Range(l) : l \in SimLinks}
           dict == [k \in links |->
                      [sender |-> (CHOOSE l \in SimLinks : Range(l) = k)[1],
                       capacity |-> Capacity, txid |-> 0]]
<1>1. /\ pc[s] = "idle" /\ mem' = [mem EXCEPT ![s] = dict]
      /\ pc' = [pc EXCEPT ![s] = "save"]
      /\ UNCHANGED <<fs, tx, utxos, funded, acked, overlap>>
  BY DEF Simulate
<1>2. FundedKept
  BY <1>1 DEF FundedKept
<1>3. /\ OthersKept(s) /\ pc'[s] = "save" /\ mem'[s] = dict /\ tx'[s] = tx[s]
  BY <1>1 DEF Shapes, OthersKept
<1>4. WellFormed(dict) /\ BackedBy(dict, funded)
  <2>1. ASSUME NEW k \in links
        PROVE  dict[k].sender \in k /\ dict[k].txid = 0
    <3> DEFINE m == CHOOSE l \in SimLinks : Range(l) = k
    <3>1. m \in SimLinks /\ Range(m) = k
      OBVIOUS
    <3>2. DOMAIN m = {1, 2}
      BY <3>1, CliAssumption
    <3>3. m[1] \in Range(m)
      BY <3>2 DEF Range
    <3> QED
      BY <3>1, <3>3
  <2>2. DOMAIN dict = links
    OBVIOUS
  <2> HIDE DEF dict, links
  <2> QED
    BY <2>1, <2>2 DEF WellFormed, BackedBy
<1>5. tx[s] = NoTx /\ NoTx.value = 0 /\ NoTx.change = 0
  BY <1>1 DEF SessionsOK, SessionOK, NoTx
<1> HIDE DEF dict
<1>6. SessionOK(s)'
  BY <1>1, <1>3, <1>4, <1>5 DEF SessionOK
<1>7. SessionsOK'
  BY <1>2, <1>3, <1>6, KeptSessions
<1>8. Shapes'
  BY <1>1, <1>3 DEF Shapes, OthersKept
<1>9. OnlyWriters' /\ FilesBacked' /\ FilesSafe'
  BY <1>1, <1>2, <1>3, QuietFiles
<1>10. CoinsWorth' /\ Balanced'
  BY <1>1, MoneyKept
<1> QED
  BY <1>7, <1>8, <1>9, <1>10

(* A session goes on with the channels and the transaction it has.         *)
LEMMA MoveSession ==
  ASSUME IInv, NEW s \in Sessions, UNCHANGED <<mem, tx, funded>>,
         NEW at \in {"save", "opened", "written", "status", "backup"},
         pc' = [pc EXCEPT ![s] = at],
         at \in {"save", "opened", "written"} =>
            pc[s] \in {"save", "opened", "written"}
  PROVE  OthersKept(s) /\ pc'[s] = at /\ SessionsOK'
<1>1. /\ OthersKept(s) /\ pc'[s] = at /\ mem'[s] = mem[s] /\ tx'[s] = tx[s]
  BY MoveFacts DEF IInv
<1>2. SessionOK(s)
  BY DEF IInv, SessionsOK
<1>3. SessionOK(s)'
  BY <1>1, <1>2 DEF SessionOK
<1>4. FundedKept
  BY DEF FundedKept
<1> QED
  BY <1>1, <1>3, <1>4, KeptSessions DEF IInv

LEMMA StatusBeginStep ==
  ASSUME IInv, NEW s \in Sessions, StatusBegin(s)
  PROVE  IInv'
<1> USE DEF IInv
<1>1. /\ pc[s] = "idle" /\ pc' = [pc EXCEPT ![s] = "status"]
      /\ UNCHANGED <<fs, mem, tx, utxos, funded, acked, overlap>>
  BY DEF StatusBegin
<1>2. OthersKept(s) /\ pc'[s] = "status" /\ SessionsOK'
  BY <1>1, MoveSession
<1>3. FundedKept
  BY <1>1 DEF FundedKept
<1>4. Shapes'
  BY <1>1, <1>2 DEF Shapes, OthersKept
<1>5. OnlyWriters' /\ FilesBacked' /\ FilesSafe'
  BY <1>1, <1>2, <1>3, QuietFiles
<1>6. CoinsWorth' /\ Balanced'
  BY <1>1, MoneyKept
<1> QED
  BY <1>2, <1>4, <1>5, <1>6
-----------------------------------------------------------------------------
(* save_state, load_state and kills.                                       *)
LEMMA SaveOpenStep ==
  ASSUME IInv, NEW s \in Sessions, SaveOpen(s)
  PROVE  IInv'
<1> USE DEF IInv
<1>1. /\ pc[s] = "save" /\ pc' = [pc EXCEPT ![s] = "opened"]
      /\ fs' = OpenTemp(fs, s)
      /\ overlap' = (overlap \/ \E t \in Sessions : pc[t] \in {"opened", "written"})
      /\ UNCHANGED <<mem, tx, utxos, funded, acked>>
  BY DEF SaveOpen
<1>2. OthersKept(s) /\ pc'[s] = "opened" /\ SessionsOK'
  BY <1>1, MoveSession
<1>3. /\ FileSystem(fs')
      /\ fs'.file = fs.file /\ fs'.tmp = Empty /\ fs'.fd[s] = "tmp"
      /\ \A t \in Sessions \ {s} : fs'.fd[t] = fs.fd[t]
  BY <1>1, OpenTempFacts DEF Shapes
<1>4. overlap' \in BOOLEAN
  BY <1>1 DEF Shapes
<1>5. Shapes'
  BY <1>1, <1>2, <1>3, <1>4 DEF Shapes, OthersKept
<1>6. OnlyWriters'
  BY <1>2, <1>3 DEF OnlyWriters, OthersKept
<1>7. FilesBacked'
  BY <1>1, <1>3, Contents DEF FilesBacked
<1>8. FilesSafe'
  <2> SUFFICES ASSUME ~overlap' PROVE OneSaves'
    BY DEF FilesSafe
  <2>1. OneSaves /\ \A t \in Sessions : pc[t] \notin {"opened", "written"}
    BY <1>1 DEF FilesSafe
  <2>2. \A t \in Sessions \ {s} : pc'[t] = pc[t] /\ mem'[t] = mem[t]
    BY <1>2 DEF OthersKept
  <2>3. Saving' = {s}
    BY <1>2, <2>1, <2>2 DEF Saving
  <2>4. ASSUME NEW t \in Sessions
        PROVE  /\ pc'[t] = "opened" => fs'.fd[t] = "tmp" /\ fs'.tmp = Empty
               /\ pc'[t] = "written" => fs'.tmp = Whole(mem'[t])
               /\ pc'[t] # "backup"
    BY <1>2, <1>3, <2>1, <2>2 DEF OneSaves
  <2> QED
    BY <1>3, <2>1, <2>3, <2>4 DEF OneSaves
<1>9. CoinsWorth' /\ Balanced'
  BY <1>1, MoneyKept
<1> QED
  BY <1>2, <1>5, <1>6, <1>7, <1>8, <1>9

(* Putting backed contents into an open file keeps the files backed.       *)
LEMMA PutBacked ==
  ASSUME Shapes, FilesBacked, UNCHANGED funded, NEW s \in Sessions, NEW content,
         BackedBy(content.channels, funded), WellFormed(content.channels),
         fs' = Put(fs, s, content)
  PROVE  FilesBacked'
<1>1. /\ fs'.file \in {fs.file, content} /\ fs'.tmp \in {fs.tmp, content}
  BY PutFacts DEF Shapes
<1> QED
  BY <1>1 DEF FilesBacked

(* One of the writer's own steps, with no other session saving.            *)
LEMMA AloneSafe ==
  ASSUME IInv, NEW s \in Sessions, OthersKept(s), ~overlap,
         pc[s] \in {"opened", "written"}, Parses(fs'.file),
         pc'[s] = "written" => fs'.tmp = Whole(mem'[s]),
         pc'[s] \notin {"opened", "backup"}
  PROVE  OneSaves'
<1>1. OneSaves
  BY DEF IInv, FilesSafe
<1>2. \A t \in Sessions \ {s} : pc[t] \notin {"opened", "written", "backup"}
  BY <1>1 DEF OneSaves, Saving
<1>3. \A t \in Sessions \ {s} : pc'[t] \notin {"opened", "written", "backup"}
  BY <1>2 DEF OthersKept
<1>4. \A t \in Saving' : t = s
  BY <1>3 DEF Saving
<1> QED
  BY <1>3, <1>4 DEF OneSaves

LEMMA SaveWriteStep ==
  ASSUME IInv, NEW s \in Sessions, SaveWrite(s)
  PROVE  IInv' /\ (~overlap => fs'.file = fs.file)
<1> USE DEF IInv
<1>1. /\ pc[s] = "opened" /\ pc' = [pc EXCEPT ![s] = "written"]
      /\ fs' \in Written(fs, s, mem[s])
      /\ UNCHANGED <<mem, tx, utxos, funded, acked, overlap>>
  BY DEF SaveWrite
<1>2. OthersKept(s) /\ pc'[s] = "written" /\ SessionsOK'
  BY <1>1, MoveSession
<1>3. PICK content : /\ fs' = Put(fs, s, content)
                     /\ content = Whole(mem[s]) \/ content = Torn
                     /\ Target(fs, s) = Empty => content = Whole(mem[s])
  BY <1>1 DEF Written
<1>4. /\ FileSystem(fs') /\ fs'.fd[s] = "none"
      /\ \A t \in Sessions \ {s} : fs'.fd[t] = fs.fd[t]
      /\ fs.fd[s] = "tmp" => fs'.file = fs.file /\ fs'.tmp = content
  BY <1>3, PutFacts DEF Shapes
<1>5. BackedBy(content.channels, funded) /\ WellFormed(content.channels)
  BY <1>3, Contents DEF SessionsOK, SessionOK
<1>6. Shapes'
  BY <1>1, <1>2, <1>4 DEF Shapes, OthersKept
<1>7. OnlyWriters'
  BY <1>2, <1>4 DEF OnlyWriters, OthersKept
<1>8. FilesBacked'
  BY <1>1, <1>3, <1>5, PutBacked
<1>9. ASSUME ~overlap
      PROVE  fs'.file = fs.file /\ OneSaves'
  <2>1. OneSaves
    BY <1>9 DEF FilesSafe
  <2>2. fs.fd[s] = "tmp" /\ fs.tmp = Empty
    BY <1>1, <2>1 DEF OneSaves
  <2>3. content = Whole(mem[s])
    BY <1>3, <2>2 DEF Target
  <2>4. fs'.file = fs.file /\ fs'.tmp = Whole(mem'[s])
    BY <1>1, <1>4, <2>2, <2>3
  <2>5. Parses(fs'.file)
    BY <2>1, <2>4 DEF OneSaves
  <2> QED
    BY <1>1, <1>2, <1>9, <2>4, <2>5, AloneSafe
<1>10. FilesSafe'
  BY <1>1, <1>9 DEF FilesSafe
<1>11. CoinsWorth' /\ Balanced'
  BY <1>1, MoneyKept
<1> QED
  BY <1>2, <1>6, <1>7, <1>8, <1>9, <1>10, <1>11

LEMMA CrashStep ==
  ASSUME IInv, NEW s \in Sessions, Crash(s)
  PROVE  IInv' /\ (~overlap => fs'.file = fs.file)
<1> USE DEF IInv
<1>1. /\ Exit(s) /\ fs' \in Killed(fs, s)
      /\ UNCHANGED <<utxos, funded, acked, overlap>>
  BY DEF Crash
<1>2. CASE fs' = fs /\ pc[s] # "opened"
  BY <1>1, <1>2, ExitStep
<1>3. CASE ~(fs' = fs /\ pc[s] # "opened")
  <2>1. OthersKept(s) /\ pc'[s] = "idle"
    BY <1>1, ExitFacts
  <2>2. FundedKept
    BY <1>1 DEF FundedKept
  <2>3. SessionsOK'
    BY <1>1, <2>2, ExitSession
  <2>4. \/ fs' = fs /\ fs.fd[s] = "none"
        \/ fs' = Put(fs, s, Target(fs, s))
        \/ fs' = Put(fs, s, Torn)
    BY <1>1 DEF Killed
  <2>5. /\ FileSystem(fs') /\ fs'.fd[s] = "none"
        /\ \A t \in Sessions \ {s} : fs'.fd[t] = fs.fd[t]
        /\ fs.fd[s] = "tmp" => fs'.file = fs.file
    BY <2>4, PutFacts DEF Shapes
  <2>6. Shapes'
    BY <1>1, <2>1, <2>5 DEF Shapes, OthersKept
  <2>7. OnlyWriters'
    BY <2>1, <2>5 DEF OnlyWriters, OthersKept
  <2>8. FilesBacked'
    <3>1. CASE fs' = fs
      BY <1>1, <3>1 DEF FilesBacked
    <3>2. CASE fs' = Put(fs, s, Target(fs, s))
      <4>1. /\ BackedBy(Target(fs, s).channels, funded)
            /\ WellFormed(Target(fs, s).channels)
        BY DEF Target, FilesBacked
      <4> QED
        BY <1>1, <3>2, <4>1, PutBacked
    <3>3. CASE fs' = Put(fs, s, Torn)
      BY <1>1, <3>3, Contents, PutBacked
    <3> QED
      BY <2>4, <3>1, <3>2, <3>3
  <2>9. ASSUME ~overlap
        PROVE  fs'.file = fs.file /\ OneSaves'
    <3>1. OneSaves
      BY <2>9 DEF FilesSafe
    <3>2. pc[s] = "opened"
      <4> SUFFICES ASSUME pc[s] # "opened" PROVE FALSE
        OBVIOUS
      <4>1. fs.fd[s] = "none"
        BY DEF OnlyWriters
      <4>2. fs' = fs
        BY <1>1, <4>1 DEF Killed
      <4> QED
        BY <1>3, <4>2
    <3>3. fs'.file = fs.file /\ Parses(fs'.file)
      BY <2>5, <3>1, <3>2 DEF OneSaves
    <3> QED
      BY <2>1, <2>9, <3>2, <3>3, AloneSafe
  <2>10. FilesSafe'
    BY <1>1, <2>9 DEF FilesSafe
  <2>11. CoinsWorth' /\ Balanced'
    BY <1>1, MoneyKept
  <2> QED
    BY <2>3, <2>6, <2>7, <2>8, <2>9, <2>10, <2>11
<1> QED
  BY <1>2, <1>3
(* The rename installs the session's channels; or the name was gone.       *)
LEMMA SaveReplaceStep ==
  ASSUME IInv, NEW s \in Sessions, SaveReplace(s)
  PROVE  IInv' /\ (~overlap => fs'.file = Whole(mem[s]))
<1> USE DEF IInv
<1>1. pc[s] = "written" /\ UNCHANGED <<utxos, funded, overlap>>
  BY DEF SaveReplace
<1>2. CASE ~Exists(fs.tmp)
  <2>1. Exit(s) /\ UNCHANGED <<fs, acked>>
    BY <1>2 DEF SaveReplace
  <2>2. IInv'
    BY <1>1, <2>1, ExitStep
  <2>3. overlap
    <3>1. fs.tmp = Whole(mem[s]) => Exists(fs.tmp)
      BY Contents DEF Exists
    <3> QED
      BY <1>1, <1>2, <3>1 DEF FilesSafe, OneSaves
  <2> QED
    BY <2>2, <2>3
<1>3. CASE Exists(fs.tmp)
  <2>1. fs' = ReplaceFile(fs)
    BY <1>3 DEF SaveReplace
  <2>2. /\ FileSystem(fs')
        /\ fs'.file = fs.tmp /\ fs'.tmp = Absent
        /\ \A t \in Sessions : fs.fd[t] = "none" => fs'.fd[t] = "none"
    BY <2>1, ReplaceFacts DEF Shapes
  <2>3. FundedKept
    BY <1>1 DEF FundedKept
  <2>4. /\ OthersKept(s) /\ pc'[s] \in {"idle", "status"} /\ SessionsOK'
        /\ acked' \subseteq 1..Len(funded)
    <3>1. CASE tx[s] = NoTx
      <4>1. pc' = [pc EXCEPT ![s] = "status"] /\ UNCHANGED <<mem, tx, acked>>
        BY <1>3, <3>1 DEF SaveReplace
      <4> QED
        BY <1>1, <4>1, MoveSession DEF Shapes
    <3>2. CASE tx[s] # NoTx
      <4>1. Exit(s) /\ acked' = acked \cup {mem[s][Range(tx[s].command)].txid}
        BY <1>3, <3>2 DEF SaveReplace
      <4>2. mem[s][Range(tx[s].command)].txid \in 1..Len(funded)
        BY <1>1, <3>2 DEF SessionsOK, SessionOK, Opens
      <4>3. acked' \subseteq 1..Len(funded)
        BY <4>1, <4>2 DEF Shapes
      <4> QED
        BY <2>3, <4>1, <4>3, ExitFacts, ExitSession
    <3> QED
      BY <3>1, <3>2
  <2>5. Shapes'
    BY <1>1, <2>2, <2>4 DEF Shapes, OthersKept
  <2>6. OnlyWriters'
    <3>1. fs.fd[s] = "none"
      BY <1>1 DEF OnlyWriters
    <3> QED
      BY <2>2, <2>4, <3>1 DEF OnlyWriters, OthersKept
  <2>7. FilesBacked'
    BY <1>1, <2>2, Contents DEF FilesBacked
  <2>8. ASSUME ~overlap
        PROVE  fs'.file = Whole(mem[s]) /\ OneSaves'
    <3>1. fs'.file = Whole(mem[s])
      BY <1>1, <2>2, <2>8 DEF FilesSafe, OneSaves
    <3>2. Parses(fs'.file)
      BY <3>1, Contents DEF Parses
    <3>3. pc'[s] \notin {"opened", "written", "backup"}
      BY <2>4
    <3> QED
      BY <1>1, <2>4, <2>8, <3>1, <3>2, <3>3, AloneSafe
  <2>9. FilesSafe'
    BY <1>1, <2>8 DEF FilesSafe
  <2>10. CoinsWorth' /\ Balanced'
    BY <1>1, MoneyKept
  <2> QED
    BY <2>4, <2>5, <2>6, <2>7, <2>8, <2>9, <2>10
<1> QED
  BY <1>2, <1>3

(* The state file does not parse only after two sessions saved together.   *)
LEMMA LoadStep ==
  ASSUME IInv, NEW s \in Sessions, Load(s)
  PROVE  IInv'
<1> USE DEF IInv
<1>1. pc[s] = "status" /\ UNCHANGED <<fs, utxos, funded, acked, overlap>>
  BY DEF Load
<1>2. CASE Parses(fs.file)
  <2>1. Exit(s)
    BY <1>2 DEF Load
  <2> QED
    BY <1>1, <2>1, ExitStep
<1>3. CASE ~Parses(fs.file)
  <2>1. pc' = [pc EXCEPT ![s] = "backup"] /\ UNCHANGED <<mem, tx>>
    BY <1>3 DEF Load
  <2>2. OthersKept(s) /\ pc'[s] = "backup" /\ SessionsOK'
    BY <1>1, <2>1, MoveSession
  <2>3. Shapes'
    BY <1>1, <2>2 DEF Shapes, OthersKept
  <2>4. OnlyWriters'
    BY <1>1, <2>2 DEF OnlyWriters, OthersKept
  <2>5. FilesBacked'
    BY <1>1 DEF FilesBacked
  <2>6. overlap
    BY <1>3 DEF FilesSafe, OneSaves
  <2>7. FilesSafe'
    BY <1>1, <2>6 DEF FilesSafe
  <2>8. CoinsWorth' /\ Balanced'
    BY <1>1, MoneyKept
  <2> QED
    BY <2>2, <2>3, <2>4, <2>5, <2>7, <2>8
<1> QED
  BY <1>2, <1>3

LEMMA BackUpStep ==
  ASSUME IInv, NEW s \in Sessions, BackUp(s)
  PROVE  IInv' /\ overlap
<1> USE DEF IInv
<1>1. /\ pc[s] = "backup" /\ fs' = Backup(fs) /\ Exit(s)
      /\ UNCHANGED <<utxos, funded, acked, overlap>>
  BY DEF BackUp
<1>2. OthersKept(s) /\ pc'[s] = "idle"
  BY <1>1, ExitFacts
<1>3. FundedKept
  BY <1>1 DEF FundedKept
<1>4. SessionsOK'
  BY <1>1, <1>3, ExitSession
<1>5. /\ FileSystem(fs')
      /\ fs'.file = Absent /\ fs'.tmp = fs.tmp
      /\ \A t \in Sessions : fs.fd[t] = "none" => fs'.fd[t] = "none"
  BY <1>1, BackupFacts DEF Shapes
<1>6. Shapes'
  BY <1>1, <1>2, <1>5 DEF Shapes, OthersKept
<1>7. OnlyWriters'
  <2>1. fs.fd[s] = "none"
    BY <1>1 DEF OnlyWriters
  <2> QED
    BY <1>2, <1>5, <2>1 DEF OnlyWriters, OthersKept
<1>8. FilesBacked'
  BY <1>1, <1>5, Contents DEF FilesBacked
<1>9. overlap
  BY <1>1 DEF FilesSafe, OneSaves
<1>10. FilesSafe'
  BY <1>1, <1>9 DEF FilesSafe
<1>11. CoinsWorth' /\ Balanced'
  BY <1>1, MoneyKept
<1> QED
  BY <1>4, <1>6, <1>7, <1>8, <1>9, <1>10, <1>11
-----------------------------------------------------------------------------
(* At the start, the coins are all unspent and nothing is recorded.        *)
LEMMA InitIInv == Init => IInv
<1> SUFFICES ASSUME Init PROVE IInv
  OBVIOUS
<1> USE DEF Init
<1>1. Len(funded) = 0 /\ funded \in Seq(Fundings) /\ N + Len(funded) = N
  BY Constants
<1>2. Shapes
  BY <1>1 DEF Shapes, FileSystem, EmptyStore
<1>3. OnlyWriters
  BY DEF OnlyWriters, EmptyStore
<1>4. fs.file = Absent /\ fs.tmp = Absent
  BY DEF EmptyStore
<1>5. FilesBacked
  BY <1>4, Contents DEF FilesBacked
<1>6. SessionsOK
  <2>1. NoTx.value = 0 /\ NoTx.change = 0
    BY DEF NoTx
  <2> QED
    BY <2>1, Contents DEF SessionsOK, SessionOK
<1>7. \A i \in 1..N : WorthOf(funded)[i] = Coins[i].value /\ CoinWorth[i] = Coins[i].value
  BY <1>1, Constants DEF WorthOf, CoinWorth
<1>8. CoinsWorth
  <2> SUFFICES ASSUME NEW u \in utxos
               PROVE  /\ u \in Utxos /\ u.id \in 1..N
                      /\ u.value = WorthOf(funded)[u.id]
    BY <1>1 DEF CoinsWorth
  <2> PICK i \in 1..N : u = [id |-> i, owner |-> Coins[i].owner,
                             value |-> Coins[i].value, confirmed |-> TRUE]
    BY Constants
  <2>1. Coins[i].value \in Nat \ {0} /\ Coins[i].owner \in Owners /\ i \in Nat
    BY Constants DEF Owners
  <2> QED
    BY <1>7, <2>1 DEF Utxos
<1>9. Balanced
  <2>1. IdsOf(utxos) = 1..N
    <3>1. \A u \in utxos : u.id \in 1..N
      BY Constants
    <3>2. \A i \in 1..N : \E u \in utxos : u.id = i
      <4> SUFFICES ASSUME NEW i \in 1..N PROVE \E u \in utxos : u.id = i
        OBVIOUS
      <4> DEFINE coin == [id |-> i, owner |-> Coins[i].owner,
                          value |-> Coins[i].value, confirmed |-> TRUE]
      <4>1. coin \in utxos /\ coin.id = i
        BY Constants
      <4> QED
        BY <4>1
    <3> QED
      BY <3>1, <3>2 DEF IdsOf
  <2>2. Sats(1..N, WorthOf(funded)) = Sats(1..N, CoinWorth)
    BY <1>7, SatsAgree
  <2>3. Unspent = Cardinality(Sats(1..N, CoinWorth))
    BY <2>1, <2>2 DEF Unspent
  <2>4. 1..Len(funded) = {}
    BY <1>1
  <2>5. Locked = 0
    BY <2>4, SatsNone DEF Locked
  <2>6. IsFiniteSet(1..N)
    BY Constants, FS_Interval
  <2>7. Cardinality(Sats(1..N, CoinWorth)) \in Nat
    BY <1>7, <2>6, Constants, SatsFinite
  <2> QED
    BY <1>1, <2>3, <2>5, <2>7, Constants DEF Balanced
<1>10. FilesSafe
  BY <1>4, Contents DEF FilesSafe, OneSaves, Saving, Parses
<1> QED
  BY <1>2, <1>3, <1>5, <1>6, <1>8, <1>9, <1>10 DEF IInv

LEMMA NextIInv ==
  ASSUME IInv, [Next]_vars
  PROVE  IInv'
<1>1. CASE UNCHANGED vars
  BY <1>1 DEF vars, IInv, Shapes, OnlyWriters, SessionsOK, SessionOK, FilesBacked,
     CoinsWorth, Balanced, Unspent, Locked, FilesSafe, OneSaves, Saving
<1>2. ASSUME NEW s \in Sessions, NEW l \in Commands, FundBegin(s, l[1], l[2])
      PROVE  IInv'
  BY <1>2, FundBeginStep
<1>3. ASSUME NEW s \in Sessions, BroadcastFails(s)
      PROVE  IInv'
  BY <1>3, ExitStep DEF BroadcastFails
<1>4. ASSUME NEW s \in Sessions, Broadcast(s)
      PROVE  IInv'
  BY <1>4, BroadcastStep
<1>5. ASSUME NEW s \in Sessions, Simulate(s)
      PROVE  IInv'
  BY <1>5, SimulateStep
<1>6. ASSUME NEW s \in Sessions, SaveOpen(s)
      PROVE  IInv'
  BY <1>6, SaveOpenStep
<1>7. ASSUME NEW s \in Sessions, SaveWrite(s)
      PROVE  IInv'
  BY <1>7, SaveWriteStep
<1>8. ASSUME NEW s \in Sessions, SaveReplace(s)
      PROVE  IInv'
  BY <1>8, SaveReplaceStep
<1>9. ASSUME NEW s \in Sessions, StatusBegin(s)
      PROVE  IInv'
  BY <1>9, StatusBeginStep
<1>10. ASSUME NEW s \in Sessions, Load(s)
       PROVE  IInv'
  BY <1>10, LoadStep
<1>11. ASSUME NEW s \in Sessions, BackUp(s)
       PROVE  IInv'
  BY <1>11, BackUpStep
<1>12. ASSUME NEW s \in Sessions, Crash(s)
       PROVE  IInv'
  BY <1>12, CrashStep
<1>13. CASE Confirm
  BY <1>13, ConfirmStep
<1> QED
  BY <1>1, <1>2, <1>3, <1>4, <1>5, <1>6, <1>7, <1>8, <1>9, <1>10, <1>11,
     <1>12, <1>13 DEF Next

(* The inductive invariant holds in every reachable state.                 *)
THEOREM Invariance == Spec => []IInv
<1>1. Init => IInv
  BY InitIInv
<1>2. IInv /\ [Next]_vars => IInv'
  BY NextIInv
<1> QED
  BY <1>1, <1>2, PTL DEF Spec
-----------------------------------------------------------------------------
LEMMA TypeImplied == IInv => TypeOK
<1> SUFFICES ASSUME IInv PROVE TypeOK
  OBVIOUS
<1> USE DEF IInv
<1>1. DOMAIN fs.fd = Sessions /\ pc \in [Sessions -> {"idle", "signed", "save",
          "opened", "written", "status", "backup"}]
  BY DEF Shapes, FileSystem
<1>2. \A s \in Sessions : fs.fd[s] # "none" => pc[s] = "opened"
  BY DEF OnlyWriters
<1>3. \A s \in Sessions : /\ WellFormed(mem[s])
                          /\ tx[s].value \in Nat /\ tx[s].change \in Nat
  BY DEF SessionsOK, SessionOK
<1>4. \A s \in Sessions : \A k \in DOMAIN mem[s] :
          mem[s][k].sender \in k /\ mem[s][k].txid \in Nat
  BY <1>3 DEF WellFormed
<1>5. \A u \in utxos : u.value \in Nat \ {0}
  BY DEF CoinsWorth, Utxos
<1>6. \A n \in 1..Len(funded) : funded[n].value \in Nat \ {0}
  <2>1. \A n \in 1..Len(funded) : funded[n] \in Fundings
    BY DEF Shapes
  <2> QED
    BY <2>1 DEF Fundings
<1>7. acked \subseteq 1..Len(funded) /\ overlap \in BOOLEAN
  BY DEF Shapes
<1> QED
  BY <1>1, <1>2, <1>3, <1>4, <1>5, <1>6, <1>7 DEF TypeOK

(***************************************************************************)
(* The values of the commands are what they are meant to be: no session    *)
(* has the state file open unless it is between open and close, no         *)
(* transaction of fund_channel_on_chain has an amount below zero.          *)
(***************************************************************************)
THEOREM CliTypeCorrect == Spec => []TypeOK
BY Invariance, TypeImplied, PTL

(***************************************************************************)
(* However many sessions are killed, and wherever: unless two of them have *)
(* saved at the same time, the state file is absent or parses.             *)
(***************************************************************************)
THEOREM FileStaysWhole == Spec => []WholeUnlessOverlap
<1>1. IInv => WholeUnlessOverlap
  BY DEF IInv, FilesSafe, OneSaves, WholeUnlessOverlap
<1> QED
  BY <1>1, Invariance, PTL

LEMMA AtomicStep ==
  ASSUME IInv, Next, ~overlap'
  PROVE  \/ fs'.file = fs.file
         \/ \E s \in Sessions : pc[s] = "written" /\ fs'.file = Whole(mem[s])
<1>1. CASE Confirm
  BY <1>1 DEF Confirm
<1>2. ASSUME NEW s \in Sessions,
             \/ \E f \in Commands : FundBegin(s, f[1], f[2])
             \/ BroadcastFails(s) \/ Broadcast(s) \/ Simulate(s)
             \/ StatusBegin(s) \/ Load(s)
      PROVE  fs'.file = fs.file
  BY <1>2 DEF FundBegin, BroadcastFails, Broadcast, Simulate, StatusBegin, Load
<1>3. ASSUME NEW s \in Sessions, SaveOpen(s)
      PROVE  fs'.file = fs.file
  BY <1>3, OpenTempFacts DEF SaveOpen, IInv, Shapes
<1>4. ASSUME NEW s \in Sessions, SaveWrite(s)
      PROVE  fs'.file = fs.file
  BY <1>4, SaveWriteStep DEF SaveWrite
<1>5. ASSUME NEW s \in Sessions, SaveReplace(s)
      PROVE  pc[s] = "written" /\ fs'.file = Whole(mem[s])
  BY <1>5, SaveReplaceStep DEF SaveReplace
<1>6. ASSUME NEW s \in Sessions, BackUp(s)
      PROVE  FALSE
  BY <1>6, BackUpStep DEF BackUp
<1>7. ASSUME NEW s \in Sessions, Crash(s)
      PROVE  fs'.file = fs.file
  BY <1>7, CrashStep DEF Crash
<1> QED
  BY <1>1, <1>2, <1>3, <1>4, <1>5, <1>6, <1>7 DEF Next

(***************************************************************************)
(* And it only ever changes to all the channels of one session: save_state *)
(* is atomic, whatever is killed.                                          *)
(***************************************************************************)
THEOREM SavesAreAtomic == Spec => StoreAtomic
<1>1. IInv /\ [Next]_vars =>
        [~overlap' =>
            \/ fs'.file = fs.file
            \/ \E s \in Sessions : pc[s] = "written" /\ fs'.file = Whole(mem[s])]_vars
  BY AtomicStep
<1> QED
  BY <1>1, Invariance, PTL DEF Spec, StoreAtomic

(***************************************************************************)
(* No interleaving of sessions, lost answers and kills records a channel   *)
(* whose funding the network has not accepted, or one that another pair's  *)
(* transaction pays for.                                                   *)
(***************************************************************************)
THEOREM OnlyFundedRecorded == Spec => []RecordedFunded
<1>1. IInv => RecordedFunded
  BY DEF IInv, FilesBacked, BackedBy, RecordedFunded
<1> QED
  BY <1>1, Invariance, PTL

LEMMA ConservedImplied == IInv => CoinsConserved
<1> SUFFICES ASSUME IInv PROVE CoinsConserved
  OBVIOUS
<1> USE DEF IInv
<1> DEFINE startCoins == {[id |-> i, value |-> Coins[i].value] : i \in DOMAIN Coins}
           paidCoins == {[id |-> n, value |-> funded[n].value] : n \in 1..Len(funded)}
<1>1. Value(startCoins) = Cardinality(Sats(1..N, CoinWorth))
  <2>1. \A u \in startCoins : u.value = CoinWorth[u.id]
    BY Constants DEF CoinWorth
  <2>2. IdsOf(startCoins) = 1..N
    <3>1. \A u \in startCoins : u.id \in 1..N
      BY Constants
    <3>2. \A i \in 1..N :
            [id |-> i, value |-> Coins[i].value] \in startCoins
            /\ [id |-> i, value |-> Coins[i].value].id = i
      BY Constants
    <3>3. \A i \in 1..N : \E u \in startCoins : u.id = i
      BY <3>2
    <3> HIDE DEF startCoins
    <3> QED
      BY <3>1, <3>3 DEF IdsOf
  <2> HIDE DEF startCoins
  <2> QED
    BY <2>1, <2>2, ValueSats
<1>2. Value(paidCoins) = Locked
  <2>1. \A u \in paidCoins : u.value = PaidBy(funded)[u.id]
    BY DEF PaidBy
  <2>2. IdsOf(paidCoins) = 1..Len(funded)
    <3>1. \A u \in paidCoins : u.id \in 1..Len(funded)
      OBVIOUS
    <3>2. \A n \in 1..Len(funded) :
            [id |-> n, value |-> funded[n].value] \in paidCoins
            /\ [id |-> n, value |-> funded[n].value].id = n
      OBVIOUS
    <3>3. \A n \in 1..Len(funded) : \E u \in paidCoins : u.id = n
      BY <3>2
    <3> HIDE DEF paidCoins
    <3> QED
      BY <3>1, <3>3 DEF IdsOf
  <2> HIDE DEF paidCoins
  <2> QED
    BY <2>1, <2>2, ValueSats DEF Locked
<1>3. Value(utxos) = Unspent
  BY CoinsValue DEF Unspent
<1>4. /\ Unspent \in Nat /\ Locked \in Nat
      /\ Cardinality(Sats(1..N, CoinWorth)) \in Nat
      /\ Len(funded) * Fee \in Int /\ Len(funded) * (Fee + Dust - 1) \in Int
  <2>1. Unspent \in Nat
    BY <1>3, CoinsValue
  <2>2. Locked \in Nat
    <3>1. IsFiniteSet(1..Len(funded)) /\ \A n \in 1..Len(funded) : PaidBy(funded)[n] \in Nat
      BY WorthType DEF Shapes
    <3> QED
      BY <3>1, SatsFinite DEF Locked
  <2>3. IsFiniteSet(1..N)
    BY Constants, FS_Interval
  <2>4. \A i \in 1..N : CoinWorth[i] \in Nat
    BY Constants DEF CoinWorth
  <2>5. Cardinality(Sats(1..N, CoinWorth)) \in Nat
    BY <2>3, <2>4, SatsFinite
  <2>6. Len(funded) \in Nat
    BY DEF Shapes
  <2> QED
    BY <2>1, <2>2, <2>5, <2>6, Constants
<1> HIDE DEF startCoins, paidCoins
<1>5. Value(startCoins) - (Value(utxos) + Value(paidCoins))
        \in Len(funded) * Fee .. Len(funded) * (Fee + Dust - 1)
  BY <1>1, <1>2, <1>3, <1>4 DEF Balanced
<1> QED
  BY <1>5 DEF CoinsConserved, startCoins, paidCoins

(***************************************************************************)
(* No interleaving spends a coin twice or loses one: what the nodes and    *)
(* their channels hold is what was there at the start, less the fees and   *)
(* the change that is too small to be paid out.                            *)
(***************************************************************************)
THEOREM CoinsAccountedFor == Spec => []CoinsConserved
BY ConservedImplied, Invariance, PTL
=============================================================================
