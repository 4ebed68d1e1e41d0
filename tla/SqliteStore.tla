------------------------------ MODULE SqliteStore ------------------------------
(***************************************************************************)
(* storage/sqlite.py: the engine's methods as lists of transactions, run   *)
(* statement by statement against one database by several processes. Each  *)
(* method opens a connection of its own; a write transaction excludes the  *)
(* others, readers see what is committed, and a process may die between    *)
(* two statements. A channel is told by its version; a version has its own *)
(* active HTLCs, and from the version Redeemed on its node has learnt the  *)
(* preimage.                                                               *)
(***************************************************************************)
EXTENDS Naturals, Sequences, FiniteSets, SequencesExt

CONSTANTS
    Processes,
    Channels,        \* channel_id
    ActiveHtlcs,     \* active_htlcs of every version, from version 0
    Redeemed         \* the first version whose payment is redeemed

Versions == 0..(Len(ActiveHtlcs) - 1)

ASSUME SqliteAssumption ==
    /\ ActiveHtlcs \in Seq(SUBSET Nat) /\ ActiveHtlcs # <<>>
    /\ \A v \in Versions : IsFiniteSet(ActiveHtlcs[v + 1])
    /\ Redeemed \in Nat

VARIABLES
    db,              \* what is committed: the five tables
    working,         \* the open write transaction of a process
    program,         \* what is left of the method that a process runs, and
                     \* whether it has run alone so far
    loading,         \* channels that load_network_state has read
    memory,          \* the NetworkState of a process
    kept,            \* history: the last whole save that nobody wrote over
    torn             \* history: a load may have seen half of a method

vars == <<db, working, program, loading, memory, kept, torn>>

Htlcs(v) == ActiveHtlcs[v + 1]

NoRows == [c \in {} |-> 0]
EmptyDb == [channels |-> NoRows, htlcs |-> {}, shachain |-> NoRows,
            preimages |-> {}, hints |-> {}]
EmptyState == [channels |-> NoRows, preimages |-> {}]

(* What may be missing is a sequence of at most one.                      *)
None == <<>>
Idle == [method |-> "none", txs |-> <<>>, alone |-> FALSE]

Put(f, k, v) == [x \in DOMAIN f \cup {k} |-> IF x = k THEN v ELSE f[x]]
Without(f, k) == [x \in DOMAIN f \ {k} |-> f[x]]
-----------------------------------------------------------------------------
(* Statements. A row of htlcs has the version it was written from.         *)
UpsertChannel(c, v) == [do |-> "upsert channel", c |-> c, v |-> v]
DeleteHtlcs(c) == [do |-> "delete htlcs", c |-> c]
InsertHtlc(c, h, v) == [do |-> "insert htlc", c |-> c, h |-> h, v |-> v]
DeleteChannel(c) == [do |-> "delete channel", c |-> c]
UpsertShachain(c, index) == [do |-> "upsert shachain", c |-> c, index |-> index]
UpsertPreimage(hash) == [do |-> "upsert preimage", hash |-> hash]
UpsertHint(hint) == [do |-> "upsert hint", hint |-> hint]
DeleteAll(table) == [do |-> "delete all", table |-> table]

(* A foreign key without its channel, a pair of ids that is there already. *)
Refused(t, s) ==
    \/ s.do \in {"insert htlc", "upsert shachain"} /\ s.c \notin DOMAIN t.channels
    \/ s.do = "insert htlc" /\ \E row \in t.htlcs : row[1] = s.c /\ row[2] = s.h

(* A mutation: the rows that refer to a deleted channel stay.              *)
CascadeNothing(t, gone) == t

(* ON DELETE CASCADE.                                                      *)
Cascade(t, gone) ==
    [t EXCEPT !.htlcs = {row \in @ : row[1] \notin gone},
              !.shachain = [c \in DOMAIN @ \ gone |-> @[c]]]

Exec(t, s) ==
    CASE s.do = "upsert channel" -> [t EXCEPT !.channels = Put(@, s.c, s.v)]
      [] s.do = "delete htlcs" -> [t EXCEPT !.htlcs = {row \in @ : row[1] # s.c}]
      [] s.do = "insert htlc" -> [t EXCEPT !.htlcs = @ \cup {<<s.c, s.h, s.v>>}]
      [] s.do = "delete channel" ->
            Cascade([t EXCEPT !.channels = Without(@, s.c)], {s.c})
      [] s.do = "upsert shachain" -> [t EXCEPT !.shachain = Put(@, s.c, s.index)]
      [] s.do = "upsert preimage" -> [t EXCEPT !.preimages = @ \cup {s.hash}]
      [] s.do = "upsert hint" -> [t EXCEPT !.hints = @ \cup {s.hint}]
      [] s.do = "delete all" /\ s.table = "channels" ->
            Cascade([t EXCEPT !.channels = NoRows], DOMAIN t.channels)
      [] OTHER -> [t EXCEPT ![s.table] = EmptyDb[s.table]]
-----------------------------------------------------------------------------
(* save_channel: one transaction.                                          *)
SaveChannel(c, v) ==
    <<UpsertChannel(c, v), DeleteHtlcs(c)>>
    \o [i \in 1..Cardinality(Htlcs(v)) |-> InsertHtlc(c, SetToSeq(Htlcs(v))[i], v)]

(* Each channel in a transaction of its own; and each preimage.            *)
SaveChannels(channels) ==
    [i \in 1..Cardinality(DOMAIN channels) |->
        LET c == SetToSeq(DOMAIN channels)[i] IN SaveChannel(c, channels[c])]

SavePreimages(preimages) ==
    [i \in 1..Cardinality(preimages) |-> <<UpsertPreimage(SetToSeq(preimages)[i])>>]

(* A mutation: the preimages are left out.                                 *)
SaveChannelsOnly(state) == SaveChannels(state.channels)

(* save_network_state. A channel that is in the database only stays there. *)
SaveNetworkState(state) ==
    SaveChannels(state.channels) \o SavePreimages(state.preimages)

(* executescript: every statement commits by itself.                       *)
Clear ==
    <<<<DeleteAll("htlcs")>>, <<DeleteAll("shachain")>>, <<DeleteAll("channels")>>,
      <<DeleteAll("preimages")>>, <<DeleteAll("hints")>>>>
-----------------------------------------------------------------------------
Init ==
    /\ db = EmptyDb
    /\ working = [p \in Processes |-> None]
    /\ program = [p \in Processes |-> Idle]
    /\ loading = [p \in Processes |-> None]
    /\ memory = [p \in Processes |-> EmptyState]
    /\ kept = None
    /\ torn = FALSE

IsFree(p) == program[p] = Idle /\ loading[p] = None

Busy(methods) == \E p \in Processes : program[p].method \in methods

(* The node opens a channel, or goes on to its next version.               *)
Advance(p, c) ==
    LET v == IF c \in DOMAIN memory[p].channels THEN memory[p].channels[c] + 1 ELSE 0
    IN /\ IsFree(p) /\ v \in Versions
       /\ memory' = [memory EXCEPT ![p] =
             [channels |-> Put(@.channels, c, v),
              preimages |-> @.preimages \cup (IF v >= Redeemed THEN {c} ELSE {})]]
       /\ UNCHANGED <<db, working, program, loading, kept, torn>>

Call(p, method, txs) ==
    /\ IsFree(p) /\ txs # <<>>
    /\ program' = [q \in Processes |->
          IF q = p THEN [method |-> method, txs |-> txs,
                         alone |-> \A r \in Processes : program[r] = Idle]
          ELSE [program[q] EXCEPT !.alone = FALSE]]
    /\ torn' = \/ torn
               \/ method = "clear" /\ \E q \in Processes :
                     program[q].method \in {"save", "clear"} \/ loading[q] # None
               \/ method = "save" /\ Busy({"clear"})
    /\ UNCHANGED <<db, working, loading, kept>>

Save(p) == Call(p, "save", SaveNetworkState(memory[p])) /\ UNCHANGED memory

(* The node has closed the channel.                                        *)
Delete(p, c) ==
    /\ c \in DOMAIN memory[p].channels
    /\ Call(p, "delete", <<<<DeleteChannel(c)>>>>)
    /\ memory' = [memory EXCEPT ![p].channels = Without(@, c)]

(* A mutation: the index stored is the next one.                           *)
SaveShachainNext(p, c, index) ==
    Call(p, "shachain", <<<<UpsertShachain(c, index + 1)>>>>) /\ UNCHANGED memory

SaveShachain(p, c, index) ==
    Call(p, "shachain", <<<<UpsertShachain(c, index)>>>>) /\ UNCHANGED memory

SaveWatchtowerHint(p, hint) ==
    Call(p, "hint", <<<<UpsertHint(hint)>>>>) /\ UNCHANGED memory

ClearAll(p) == Call(p, "clear", Clear) /\ UNCHANGED memory
-----------------------------------------------------------------------------
(* A save that ran alone is kept as long as nobody writes over it.         *)
KeptAfter(p, rest, t) ==
    IF rest = <<>> /\ program[p].method = "save" /\ program[p].alone
    THEN <<memory[p]>>
    ELSE IF t.channels = db.channels /\ t.preimages = db.preimages THEN kept
    ELSE None

(* The next statement: the first opens the transaction, the last commits   *)
(* it, and one that is refused takes it back and ends the method.          *)
Execute(p) ==
    LET txs == program[p].txs
        s == txs[1][1]
        before == IF working[p] = None THEN db ELSE working[p][1]
        after == Exec(before, s)
    IN /\ txs # <<>>
       /\ \A q \in Processes \ {p} : working[q] = None
       /\ \/ /\ Refused(before, s)
             /\ working' = [working EXCEPT ![p] = None]
             /\ program' = [program EXCEPT ![p] = Idle]
             /\ torn' = (torn \/ program[p].method = "save")
             /\ UNCHANGED <<db, kept>>
          \/ /\ ~Refused(before, s) /\ Len(txs[1]) > 1
             /\ working' = [working EXCEPT ![p] = <<after>>]
             /\ program' = [program EXCEPT ![p].txs = <<Tail(txs[1])>> \o Tail(txs)]
             /\ UNCHANGED <<db, kept, torn>>
          \/ /\ ~Refused(before, s) /\ Len(txs[1]) = 1
             /\ db' = after
             /\ working' = [working EXCEPT ![p] = None]
             /\ program' = [program EXCEPT ![p] = IF Len(txs) = 1 THEN Idle
                                                  ELSE [@ EXCEPT !.txs = Tail(txs)]]
             /\ kept' = KeptAfter(p, Tail(txs), after)
             /\ UNCHANGED torn
       /\ UNCHANGED <<loading, memory>>

(* A writer that waits too long raises: database is locked.                *)
Locked(p) ==
    /\ program[p].txs # <<>>
    /\ \E q \in Processes \ {p} : working[q] # None
    /\ program' = [program EXCEPT ![p] = Idle]
    /\ torn' = (torn \/ program[p].method \in {"save", "clear"})
    /\ UNCHANGED <<db, working, loading, memory, kept>>

Crash(p) ==
    /\ working' = [working EXCEPT ![p] = None]
    /\ program' = [program EXCEPT ![p] = Idle]
    /\ loading' = [loading EXCEPT ![p] = None]
    /\ memory' = [memory EXCEPT ![p] = EmptyState]
    /\ torn' = (torn \/ program[p].method \in {"save", "clear"})
    /\ UNCHANGED <<db, kept>>

(* load_network_state: the channels, then the preimages.                   *)
LoadAllChannels(p) ==
    /\ IsFree(p)
    /\ loading' = [loading EXCEPT ![p] = <<db.channels>>]
    /\ torn' = (torn \/ Busy({"save", "clear"}))
    /\ UNCHANGED <<db, working, program, memory, kept>>

LoadPreimages(p) ==
    /\ loading[p] # None
    /\ memory' = [memory EXCEPT ![p] = [channels |-> loading[p][1], preimages |-> db.preimages]]
    /\ loading' = [loading EXCEPT ![p] = None]
    /\ UNCHANGED <<db, working, program, kept, torn>>

Next ==
    \E p \in Processes :
        \/ \E c \in Channels : Advance(p, c)
        \/ Save(p)
        \/ \E c \in Channels : Delete(p, c)
        \/ \E c \in Channels, index \in {0, 1} : SaveShachain(p, c, index)
        \/ SaveWatchtowerHint(p, "hint")
        \/ ClearAll(p)
        \/ Execute(p)
        \/ Locked(p)
        \/ Crash(p)
        \/ LoadAllChannels(p)
        \/ LoadPreimages(p)

Spec == Init /\ [][Next]_vars
-----------------------------------------------------------------------------
IsRows(f, S) == DOMAIN f \subseteq Channels /\ \A c \in DOMAIN f : f[c] \in S

TypeOK ==
    /\ IsRows(db.channels, Versions) /\ IsRows(db.shachain, {0, 1})
    /\ db.preimages \subseteq Channels /\ db.hints \subseteq {"hint"}
    /\ \A p \in Processes :
          /\ IsRows(memory[p].channels, Versions) /\ memory[p].preimages \subseteq Channels
          /\ program[p].txs = <<>> <=> program[p] = Idle
          /\ working[p] # None => program[p].method = "save"
          /\ program[p] # Idle => loading[p] = None

RowsOf(c) == {row \in db.htlcs : row[1] = c}

(***************************************************************************)
(* Whatever is interleaved, refused or cut off by a crash: the HTLC rows of*)
(* a channel are those of its state_json, all of them, or none where a     *)
(* clear has gone only part of its way; and no row is left of a channel    *)
(* that is gone.                                                           *)
(***************************************************************************)
RowsMirror ==
    /\ \A c \in DOMAIN db.channels :
          \/ RowsOf(c) = {<<c, h, db.channels[c]>> : h \in Htlcs(db.channels[c])}
          \/ RowsOf(c) = {} /\ (torn \/ Busy({"clear"}))
    /\ {row[1] : row \in db.htlcs} \cup DOMAIN db.shachain \subseteq DOMAIN db.channels

(***************************************************************************)
(* A save that ended undisturbed is what the database holds until somebody *)
(* writes again, and a node that has loaded a redeemed channel has its     *)
(* preimage unless the load may have seen half of a save or of a clear.    *)
(***************************************************************************)
SavedLoadsBack ==
    /\ kept # None =>
          /\ \A c \in DOMAIN kept[1].channels :
                c \in DOMAIN db.channels /\ db.channels[c] = kept[1].channels[c]
          /\ kept[1].preimages \subseteq db.preimages
    /\ \A p \in Processes : \A c \in DOMAIN memory[p].channels :
          memory[p].channels[c] >= Redeemed => c \in memory[p].preimages \/ torn
=============================================================================
