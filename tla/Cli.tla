--------------------------------- MODULE Cli ---------------------------------
(***************************************************************************)
(* The commands of cli/app.py that change something that outlives them:    *)
(* fund-channel (network/client.py: coin selection and broadcast, then     *)
(* open_channel and save), simulate (open_channel, save, status) and status*)
(* (load). A session is one process: its nodes start without channels.     *)
(* Sessions run at once, and may be killed between any two calls.          *)
(*                                                                         *)
(* A channel dict is a function from the pair of nodes, which share one    *)
(* entry, to the channel: its sender, capacity and funding transaction.    *)
(* Balances are left out. Funding transactions are numbered as the network *)
(* accepts them; the ones simulate builds carry no signature, are never    *)
(* accepted, and have the number 0.                                        *)
(***************************************************************************)
EXTENDS JsonStore, Integers, Sequences, FiniteSets, FiniteSetsExt, Functions

CONSTANTS
    Sessions,
    Coins,        \* the confirmed coins at the start: id -> [owner, value]
    Commands,     \* the arguments <<funder, counterparty>> of fund-channel
    SimLinks,     \* the channels that simulate opens, as <<opener, peer>>
    Capacity,     \* capacity_sat
    Fee,          \* estimated_fee_sat
    Dust          \* BITCOIN_DUST_LIMIT_SAT

ASSUME CliAssumption ==
    /\ {Capacity, Fee, Dust} \subseteq Nat \ {0}
    /\ IsFiniteSet(DOMAIN Coins) /\ DOMAIN Coins = 1..Cardinality(DOMAIN Coins)
    /\ \A i \in DOMAIN Coins : Coins[i].value \in Nat \ {0}
    /\ \A l \in Commands \cup SimLinks : DOMAIN l = {1, 2}

VARIABLES
    fs,           \* the files
    pc,           \* where a session is in its command
    mem,          \* its nodes' channels
    tx,           \* the transaction fund-channel has signed
    utxos,        \* the network: the unspent coins of the nodes
    funded,       \* the network: the funding outputs, in order of acceptance
    acked,        \* history: the fundings reported as a success
    overlap       \* history: two sessions have saved at the same time

vars == <<fs, pc, mem, tx, utxos, funded, acked, overlap>>

NoTx == [inputs |-> {}, command |-> <<>>, value |-> 0, change |-> 0]

(* The satoshis of coins that are told apart by their ids.                 *)
Value(coins) == Cardinality(UNION {{u.id} \X (1..u.value) : u \in coins})

TypeOK ==
    /\ DOMAIN fs.fd = Sessions
    /\ \A s \in Sessions : fs.fd[s] # "none" => pc[s] = "opened"
    /\ pc \in [Sessions -> {"idle", "signed", "save", "opened", "written",
                            "status", "backup"}]
    /\ \A s \in Sessions : \A k \in DOMAIN mem[s] :
          mem[s][k].sender \in k /\ mem[s][k].txid \in Nat
    /\ \A s \in Sessions : {tx[s].value, tx[s].change} \subseteq Nat
    /\ \A u \in utxos : u.value \in Nat \ {0}
    /\ \A n \in 1..Len(funded) : funded[n].value \in Nat \ {0}
    /\ acked \subseteq 1..Len(funded)
    /\ overlap \in BOOLEAN

Init ==
    /\ fs = EmptyStore(Sessions)
    /\ pc = [s \in Sessions |-> "idle"]
    /\ mem = [s \in Sessions |-> NoChannels]
    /\ tx = [s \in Sessions |-> NoTx]
    /\ utxos = {[id |-> i, owner |-> Coins[i].owner, value |-> Coins[i].value,
                 confirmed |-> TRUE] : i \in DOMAIN Coins}
    /\ funded = <<>>
    /\ acked = {}
    /\ overlap = FALSE
-----------------------------------------------------------------------------
(* Where open_channel puts a channel, in both nodes.                       *)
Opened(channels, f, c, txid) ==
    [k \in DOMAIN channels \cup {{f, c}} |->
        IF k = {f, c} THEN [sender |-> f, capacity |-> Capacity, txid |-> txid]
        ELSE channels[k]]

(* The end of the process.                                                 *)
Exit(s) ==
    /\ pc' = [pc EXCEPT ![s] = "idle"]
    /\ mem' = [mem EXCEPT ![s] = NoChannels]
    /\ tx' = [tx EXCEPT ![s] = NoTx]

(***************************************************************************)
(* fund_channel_on_chain: confirmed coins if there is one, coins in the    *)
(* order the service lists them until they are enough, and less capacity   *)
(* than was asked for if they are not.                                     *)
(***************************************************************************)
Spendable(f) ==
    LET mine == {u \in utxos : u.owner = f}
        confirmed == {u \in mine : u.confirmed}
    IN IF confirmed # {} THEN confirmed ELSE mine

Enough(coins) == Value(coins) >= Capacity + Fee

Selections(f) ==
    {S \in SUBSET Spendable(f) :
        IF Enough(S) THEN \E u \in S : ~Enough(S \ {u}) ELSE S = Spendable(f)}

(* A mutation: the capacity asked for is funded with whatever is there.    *)
FundedCapacityAsked(coins) == Capacity

FundedCapacity(coins) ==
    IF Capacity > Value(coins) - Fee
    THEN Max({Dust, Value(coins) - Fee})
    ELSE Capacity

FundBegin(s, f, c) ==
    /\ pc[s] = "idle"
    /\ \E S \in Selections(f) :
          /\ Value(S) >= Fee + Dust
          /\ tx' = [tx EXCEPT ![s] =
                [inputs |-> {u.id : u \in S}, command |-> <<f, c>>,
                 value |-> FundedCapacity(S),
                 change |-> Value(S) - FundedCapacity(S) - Fee]]
    /\ pc' = [pc EXCEPT ![s] = "signed"]
    /\ UNCHANGED <<fs, mem, utxos, funded, acked, overlap>>

(* A mutation: change of exactly the dust limit is not paid out.           *)
ChangeAboveDust(s) ==
    IF tx[s].change > Dust
    THEN {[id |-> Cardinality(DOMAIN Coins) + Len(funded) + 1,
           owner |-> tx[s].command[1], value |-> tx[s].change,
           confirmed |-> FALSE]}
    ELSE {}

(* The change output, left to the miners below the dust limit.             *)
Change(s) ==
    IF tx[s].change >= Dust
    THEN {[id |-> Cardinality(DOMAIN Coins) + Len(funded) + 1,
           owner |-> tx[s].command[1], value |-> tx[s].change,
           confirmed |-> FALSE]}
    ELSE {}

(* A mutation: the channel is opened although the broadcast failed.        *)
BroadcastFailsOpens(s) ==
    /\ pc[s] = "signed"
    /\ mem' = [mem EXCEPT ![s] =
          Opened(@, tx[s].command[1], tx[s].command[2], Len(funded) + 1)]
    /\ pc' = [pc EXCEPT ![s] = "save"]
    /\ UNCHANGED <<fs, tx, utxos, funded, acked, overlap>>

(* The request is lost, or rejected because an input was spent by now:     *)
(* NetworkError, and the command is over.                                  *)
BroadcastFails(s) ==
    /\ pc[s] = "signed"
    /\ Exit(s)
    /\ UNCHANGED <<fs, utxos, funded, acked, overlap>>

(***************************************************************************)
(* The network accepts the transaction. The answer arrives and the channel *)
(* is opened in both nodes, with the capacity that was asked for; or it is *)
(* lost in a timeout, which is a NetworkError too.                         *)
(***************************************************************************)
Broadcast(s) ==
    /\ pc[s] = "signed"
    /\ tx[s].inputs \subseteq {u.id : u \in utxos}
    /\ utxos' = {u \in utxos : u.id \notin tx[s].inputs} \cup Change(s)
    /\ funded' = Append(funded, [pair |-> Range(tx[s].command),
                                 value |-> tx[s].value,
                                 change |-> tx[s].change])
    /\ \/ /\ mem' = [mem EXCEPT ![s] =
                Opened(@, tx[s].command[1], tx[s].command[2], Len(funded'))]
          /\ pc' = [pc EXCEPT ![s] = "save"]
          /\ UNCHANGED tx
       \/ Exit(s)
    /\ UNCHANGED <<fs, acked, overlap>>

(* run_simulate_demo: both channels are opened in memory. An Esplora error *)
(* on the way ends the command as a kill does.                             *)
Simulate(s) ==
    /\ pc[s] = "idle"
    /\ mem' = [mem EXCEPT ![s] =
          [k \in {Range(l) : l \in SimLinks} |->
              [sender |-> (CHOOSE l \in SimLinks : Range(l) = k)[1],
               capacity |-> Capacity, txid |-> 0]]]
    /\ pc' = [pc EXCEPT ![s] = "save"]
    /\ UNCHANGED <<fs, tx, utxos, funded, acked, overlap>>
-----------------------------------------------------------------------------
(* _save_nodes_to_storage: save_state with the session's own channels.     *)
SaveOpen(s) ==
    /\ pc[s] = "save"
    /\ fs' = OpenTemp(fs, s)
    /\ pc' = [pc EXCEPT ![s] = "opened"]
    /\ overlap' = (overlap \/ \E t \in Sessions : pc[t] \in {"opened", "written"})
    /\ UNCHANGED <<mem, tx, utxos, funded, acked>>

(* A mutation: the nodes are emptied before their channels are saved.      *)
SaveWriteNothing(s) ==
    /\ pc[s] = "opened"
    /\ fs' \in Written(fs, s, NoChannels)
    /\ pc' = [pc EXCEPT ![s] = "written"]
    /\ UNCHANGED <<mem, tx, utxos, funded, acked, overlap>>

SaveWrite(s) ==
    /\ pc[s] = "opened"
    /\ fs' \in Written(fs, s, mem[s])
    /\ pc' = [pc EXCEPT ![s] = "written"]
    /\ UNCHANGED <<mem, tx, utxos, funded, acked, overlap>>

(***************************************************************************)
(* The rename, and what the command does next: fund-channel reports the    *)
(* success, simulate shows the status. Without a temporary file the rename *)
(* raises, and the command is over.                                        *)
(***************************************************************************)
SaveReplace(s) ==
    /\ pc[s] = "written"
    /\ IF ~Exists(fs.tmp)
       THEN Exit(s) /\ UNCHANGED <<fs, acked>>
       ELSE /\ fs' = ReplaceFile(fs)
            /\ IF tx[s] = NoTx
               THEN pc' = [pc EXCEPT ![s] = "status"] /\ UNCHANGED <<mem, tx, acked>>
               ELSE /\ Exit(s)
                    /\ acked' = acked \cup
                          {mem[s][Range(tx[s].command)].txid}
    /\ UNCHANGED <<utxos, funded, overlap>>

StatusBegin(s) ==
    /\ pc[s] = "idle"
    /\ pc' = [pc EXCEPT ![s] = "status"]
    /\ UNCHANGED <<fs, mem, tx, utxos, funded, acked, overlap>>

(* load_state, to be shown: a text that does not parse is backed up next.  *)
Load(s) ==
    /\ pc[s] = "status"
    /\ IF Parses(fs.file)
       THEN Exit(s)
       ELSE pc' = [pc EXCEPT ![s] = "backup"] /\ UNCHANGED <<mem, tx>>
    /\ UNCHANGED <<fs, utxos, funded, acked, overlap>>

BackUp(s) ==
    /\ pc[s] = "backup"
    /\ fs' = Backup(fs)
    /\ Exit(s)
    /\ UNCHANGED <<utxos, funded, acked, overlap>>

Crash(s) ==
    /\ pc[s] # "idle"
    /\ fs' \in Killed(fs, s)
    /\ Exit(s)
    /\ UNCHANGED <<utxos, funded, acked, overlap>>

(* A block confirms what is in the mempool.                                *)
Confirm ==
    /\ \E u \in utxos : ~u.confirmed
    /\ utxos' = {[u EXCEPT !.confirmed = TRUE] : u \in utxos}
    /\ UNCHANGED <<fs, pc, mem, tx, funded, acked, overlap>>

Next ==
    \/ \E s \in Sessions :
          \/ \E f \in Commands : FundBegin(s, f[1], f[2])
          \/ BroadcastFails(s) \/ Broadcast(s) \/ Simulate(s)
          \/ SaveOpen(s) \/ SaveWrite(s) \/ SaveReplace(s)
          \/ StatusBegin(s) \/ Load(s) \/ BackUp(s) \/ Crash(s)
    \/ Confirm

Spec == Init /\ [][Next]_vars
-----------------------------------------------------------------------------
(***************************************************************************)
(* A session that is killed never damages the state: as long as no two     *)
(* sessions saved at the same time, the file is absent or whole (the       *)
(* temporary file and the rename of save_state).                           *)
(***************************************************************************)
WholeUnlessOverlap == ~overlap => Parses(fs.file)

(***************************************************************************)
(* And as long as none did, the state changes only by replacing it with all*)
(* the channels of the session that saves: no save is partial, no kill and *)
(* no load changes it.                                                     *)
(***************************************************************************)
StoreAtomic ==
    [][~overlap' =>
          \/ fs'.file = fs.file
          \/ \E s \in Sessions : pc[s] = "written" /\ fs'.file = Whole(mem[s])]_vars

(***************************************************************************)
(* A channel is recorded only after its funding was accepted, whatever     *)
(* sessions race for the same coins: the transaction it names pays its     *)
(* pair, the capacity recorded, or less if its coins were all used up.     *)
(***************************************************************************)
RecordedFunded ==
    \A k \in DOMAIN fs.file.channels :
        LET ch == fs.file.channels[k]
        IN ch.txid # 0 =>
              /\ ch.txid <= Len(funded)
              /\ funded[ch.txid].pair = k
              /\ \/ funded[ch.txid].value = ch.capacity
                 \/ /\ funded[ch.txid].value < ch.capacity
                    /\ funded[ch.txid].change = 0

(***************************************************************************)
(* The coins of the nodes and of their channels are those of the start less*)
(* one fee per funding, and less than the dust limit on top of it.         *)
(***************************************************************************)
CoinsConserved ==
    LET start == Value({[id |-> i, value |-> Coins[i].value] : i \in DOMAIN Coins})
        now == Value(utxos)
               + Value({[id |-> n, value |-> funded[n].value] : n \in 1..Len(funded)})
    IN start - now \in Len(funded) * Fee .. Len(funded) * (Fee + Dust - 1)

(***************************************************************************)
(* What README.md says of storage: it saves the active payment channels    *)
(* across CLI invocations. A channel reported as funded stays in the state *)
(* as long as no two sessions save at once and nobody funds another one    *)
(* between the same nodes. No command loads the state before it saves its  *)
(* own channels over it, so the next one to save drops it.                 *)
(***************************************************************************)
FundedChannelsPersist ==
    ~overlap =>
        \A n \in acked :
            (\A m \in 1..Len(funded) \ {n} : funded[m].pair # funded[n].pair) =>
                funded[n].pair \in DOMAIN fs.file.channels
=============================================================================
