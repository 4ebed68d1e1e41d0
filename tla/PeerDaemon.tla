----------------------------- MODULE PeerDaemon -----------------------------
(***************************************************************************)
(* The NodeDaemons of network/daemon.py and the TCP connections between    *)
(* them. Each daemon is one asyncio event loop: a coroutine runs from one  *)
(* await to the next without interruption, and that is one step here.      *)
(*                                                                         *)
(* Connections are numbered as they are dialled; conn[c] is <<dialer,      *)
(* acceptor>>. The PeerConnection object of daemon d on c, its _is_active  *)
(* flag and its _peer_read_loop task are the entries [c][d] of alias,      *)
(* closed and task; inbox[c][d] is what d has yet to read.                 *)
(***************************************************************************)
EXTENDS Integers, Sequences, FiniteSets, Functions

CONSTANTS
    Daemons,    \* the aliases
    Handled,    \* the message types that have a registered handler
    MaxConns,   \* bound on the connections dialled
    MaxSent,    \* bound on the messages sent with send_to_peer
    MaxResets   \* bound on the connections the network resets

ConnIds == 1..MaxConns

Unknown == "unknown"    \* the empty peer_alias

ASSUME PeerAssumption ==
    {MaxConns, MaxSent, MaxResets} \subseteq Nat /\ Unknown \notin Daemons

VARIABLES
    server,     \* daemon -> "none", "listening" or "closed"
    running,    \* daemon -> _running
    peers,      \* daemon -> its peers dict: alias -> connection
    conn,       \* the connections dialled so far
    dialing,    \* connections whose connect_to_peer awaits open_connection
    failed,     \* connections whose connect_to_peer raised
    accepting,  \* connections whose _handle_incoming_connection is to run
    lost,       \* connections that were reset
    task, alias, closed, inbox,
    sent

vars == <<server, running, peers, conn, dialing, failed, accepting, lost, task,
          alias, closed, inbox, sent>>

Opened == 1..Len(conn)

Ends(c) == {conn[c][1], conn[c][2]}

Other(c, d) == IF d = conn[c][1] THEN conn[c][2] ELSE conn[c][1]

TypeOK ==
    /\ server \in [Daemons -> {"none", "listening", "closed"}]
    /\ running \in [Daemons -> BOOLEAN]
    /\ conn \in Seq(Daemons \X Daemons) /\ Len(conn) <= MaxConns
    /\ \A c \in Opened : conn[c][1] # conn[c][2]
    /\ DOMAIN peers = Daemons
    /\ \A d \in Daemons : \A e \in DOMAIN peers[d] :
          peers[d][e] \in Opened /\ Ends(peers[d][e]) = {d, e}
    /\ dialing \cup failed \cup accepting \cup lost \subseteq Opened
    /\ task \in [ConnIds -> [Daemons ->
          {"none", "created", "reading", "handling", "cancelled", "dropped",
           "done"}]]
    /\ alias \in [ConnIds -> [Daemons -> Daemons \cup {Unknown}]]
    /\ closed \in [ConnIds -> [Daemons -> BOOLEAN]]
    /\ inbox \in [ConnIds -> [Daemons -> Seq({"INIT", "PING", "PONG", "UPDATE"})]]
    /\ sent \in 0..MaxSent

Init ==
    /\ server = [d \in Daemons |-> "none"]
    /\ running = [d \in Daemons |-> FALSE]
    /\ peers = [d \in Daemons |-> [e \in {} |-> 0]]
    /\ conn = <<>>
    /\ dialing = {} /\ failed = {} /\ accepting = {} /\ lost = {}
    /\ task = [c \in ConnIds |-> [d \in Daemons |-> "none"]]
    /\ alias = [c \in ConnIds |-> [d \in Daemons |-> Unknown]]
    /\ closed = [c \in ConnIds |-> [d \in Daemons |-> FALSE]]
    /\ inbox = [c \in ConnIds |-> [d \in Daemons |-> <<>>]]
    /\ sent = 0
-----------------------------------------------------------------------------
(* The peers dict with one more entry, and with one less.                  *)
With(dict, e, c) == [k \in DOMAIN dict \cup {e} |-> IF k = e THEN c ELSE dict[k]]

Without(dict, e) == Restrict(dict, DOMAIN dict \ {e})

(* Bytes written on c for its end d: dropped if d has closed it.           *)
Delivered(c, d, msg) ==
    IF closed[c][d] THEN inbox ELSE [inbox EXCEPT ![c][d] = Append(@, msg)]

(* A mutation: the read loop ends without its del.                         *)
FinishKeepsEntry(c, d, dict) ==
    /\ peers' = [peers EXCEPT ![d] = dict]
    /\ closed' = [closed EXCEPT ![c][d] = TRUE]
    /\ task' = [task EXCEPT ![c][d] = "done"]

(* A mutation: the read loop ends without its close.                       *)
FinishKeepsOpen(c, d, dict) ==
    /\ peers' = [peers EXCEPT ![d] = Without(dict, alias'[c][d])]
    /\ closed' = closed
    /\ task' = [task EXCEPT ![c][d] = "done"]

(***************************************************************************)
(* The finally clause of _peer_read_loop, dict being the peers dict at that*)
(* moment: whatever connection the alias stands for by now is deleted.     *)
(***************************************************************************)
Finish(c, d, dict) ==
    /\ peers' = [peers EXCEPT ![d] = Without(dict, alias'[c][d])]
    /\ closed' = [closed EXCEPT ![c][d] = TRUE]
    /\ task' = [task EXCEPT ![c][d] = "done"]

(* The condition of the loop: wait for the next message or leave.          *)
LoopTop(c, d, dict) ==
    IF running[d] /\ ~closed[c][d]
    THEN /\ task' = [task EXCEPT ![c][d] = "reading"]
         /\ peers' = [peers EXCEPT ![d] = dict]
         /\ UNCHANGED closed
    ELSE Finish(c, d, dict)

(* The handlers of a message: they complete, raise, or await something.    *)
Dispatch(c, d, msg, dict) ==
    \/ LoopTop(c, d, dict)
    \/ msg \in Handled /\ Finish(c, d, dict)
    \/ /\ msg \in Handled
       /\ task' = [task EXCEPT ![c][d] = "handling"]
       /\ peers' = [peers EXCEPT ![d] = dict]
       /\ UNCHANGED closed
-----------------------------------------------------------------------------
Start(d) ==
    /\ server[d] = "none"
    /\ server' = [server EXCEPT ![d] = "listening"]
    /\ running' = [running EXCEPT ![d] = TRUE]
    /\ UNCHANGED <<peers, conn, dialing, failed, accepting, lost, task, alias,
                   closed, inbox, sent>>

(* connect_to_peer up to its first await, and TCP's handshake.             *)
Dial(d, e) ==
    /\ d # e
    /\ server[e] = "listening"
    /\ Len(conn) < MaxConns
    /\ conn' = Append(conn, <<d, e>>)
    /\ dialing' = dialing \cup {Len(conn')}
    /\ accepting' = accepting \cup {Len(conn')}
    /\ UNCHANGED <<server, running, peers, failed, lost, task, alias, closed,
                   inbox, sent>>

(***************************************************************************)
(* connect_to_peer once open_connection has returned: register, send INIT, *)
(* create the read loop. A reset connection makes the send raise, and the  *)
(* entry stays in the dict. The drain of a short message does not suspend. *)
(***************************************************************************)
Connected(c) ==
    LET d == conn[c][1]
        e == conn[c][2]
    IN /\ c \in dialing
       /\ dialing' = dialing \ {c}
       /\ peers' = [peers EXCEPT ![d] = With(@, e, c)]
       /\ alias' = [alias EXCEPT ![c][d] = e]
       /\ IF c \in lost
          THEN failed' = failed \cup {c} /\ UNCHANGED <<task, inbox>>
          ELSE /\ task' = [task EXCEPT ![c][d] = "created"]
               /\ inbox' = Delivered(c, e, "INIT")
               /\ UNCHANGED failed
       /\ UNCHANGED <<server, running, conn, accepting, lost, closed, sent>>

(* _handle_incoming_connection, which may run after stop.                  *)
HandleIncomingConnection(c) ==
    /\ c \in accepting
    /\ accepting' = accepting \ {c}
    /\ task' = [task EXCEPT ![c][conn[c][2]] = "created"]
    /\ UNCHANGED <<server, running, peers, conn, dialing, failed, lost, alias,
                   closed, inbox, sent>>

BeginReadLoop(c, d) ==
    /\ task[c][d] = "created"
    /\ UNCHANGED alias
    /\ LoopTop(c, d, peers[d])
    /\ UNCHANGED <<server, running, conn, dialing, failed, accepting, lost,
                   inbox, sent>>

Receives(c, d, msgs) ==
    /\ task[c][d] = "reading"
    /\ c \notin lost
    /\ inbox[c][d] # <<>>
    /\ Head(inbox[c][d]) \in msgs

(* A mutation: the alias registered is the receiver's own.                 *)
ReceiveInitOwnAlias(c, d) ==
    /\ Receives(c, d, {"INIT"})
    /\ alias' = [alias EXCEPT ![c][d] = d]
    /\ inbox' = [inbox EXCEPT ![c][d] = Tail(@)]
    /\ Dispatch(c, d, "INIT", With(peers[d], d, c))
    /\ UNCHANGED <<server, running, conn, dialing, failed, accepting, lost, sent>>

(* A mutation: the handshake notes the alias and registers nothing.        *)
ReceiveInitUnregistered(c, d) ==
    /\ Receives(c, d, {"INIT"})
    /\ alias' = [alias EXCEPT ![c][d] = Other(c, d)]
    /\ inbox' = [inbox EXCEPT ![c][d] = Tail(@)]
    /\ Dispatch(c, d, "INIT", peers[d])
    /\ UNCHANGED <<server, running, conn, dialing, failed, accepting, lost, sent>>

(* The handshake: this connection becomes the one for its sender.          *)
ReceiveInit(c, d) ==
    /\ Receives(c, d, {"INIT"})
    /\ alias' = [alias EXCEPT ![c][d] = Other(c, d)]
    /\ inbox' = [inbox EXCEPT ![c][d] = Tail(@)]
    /\ Dispatch(c, d, "INIT", With(peers[d], Other(c, d), c))
    /\ UNCHANGED <<server, running, conn, dialing, failed, accepting, lost, sent>>

ReceivePing(c, d) ==
    /\ Receives(c, d, {"PING"})
    /\ inbox' = [Delivered(c, Other(c, d), "PONG") EXCEPT ![c][d] = Tail(@)]
    /\ UNCHANGED alias
    /\ LoopTop(c, d, peers[d])
    /\ UNCHANGED <<server, running, conn, dialing, failed, accepting, lost, sent>>

ReceiveOther(c, d) ==
    /\ Receives(c, d, {"PONG", "UPDATE"})
    /\ inbox' = [inbox EXCEPT ![c][d] = Tail(@)]
    /\ UNCHANGED alias
    /\ Dispatch(c, d, Head(inbox[c][d]), peers[d])
    /\ UNCHANGED <<server, running, conn, dialing, failed, accepting, lost, sent>>

(* receive returns None: end of stream after the last message, or a reset. *)
ReceiveEnd(c, d) ==
    /\ task[c][d] = "reading"
    /\ c \in lost \/ (inbox[c][d] = <<>> /\ closed[c][Other(c, d)])
    /\ UNCHANGED alias
    /\ Finish(c, d, peers[d])
    /\ UNCHANGED <<server, running, conn, dialing, failed, accepting, lost,
                   inbox, sent>>

HandlerResumes(c, d) ==
    /\ task[c][d] = "handling"
    /\ UNCHANGED alias
    /\ LoopTop(c, d, peers[d]) \/ Finish(c, d, peers[d])
    /\ UNCHANGED <<server, running, conn, dialing, failed, accepting, lost,
                   inbox, sent>>

(***************************************************************************)
(* CancelledError in a task stop cancelled. One that never ran is dropped  *)
(* without entering its try, and its writer is closed when it is freed.    *)
(***************************************************************************)
Cancelled(c, d) ==
    /\ UNCHANGED alias
    /\ \/ task[c][d] = "cancelled" /\ Finish(c, d, peers[d])
       \/ /\ task[c][d] = "dropped"
          /\ closed' = [closed EXCEPT ![c][d] = TRUE]
          /\ task' = [task EXCEPT ![c][d] = "done"]
          /\ UNCHANGED peers
    /\ UNCHANGED <<server, running, conn, dialing, failed, accepting, lost,
                   inbox, sent>>

SendToPeer(d, e, msg) ==
    /\ e \in DOMAIN peers[d]
    /\ sent < MaxSent
    /\ LET c == peers[d][e]
       IN /\ c \notin lost /\ ~closed[c][d]
          /\ inbox' = Delivered(c, e, msg)
    /\ sent' = sent + 1
    /\ UNCHANGED <<server, running, peers, conn, dialing, failed, accepting,
                   lost, task, alias, closed>>

Stop(d) ==
    /\ server[d] = "listening"
    /\ server' = [server EXCEPT ![d] = "closed"]
    /\ running' = [running EXCEPT ![d] = FALSE]
    /\ closed' = [c \in ConnIds |->
                     [closed[c] EXCEPT ![d] = @ \/ c \in Range(peers[d])]]
    /\ peers' = [peers EXCEPT ![d] = [e \in {} |-> 0]]
    /\ task' = [c \in ConnIds |->
                   [task[c] EXCEPT ![d] =
                       CASE @ \in {"reading", "handling"} -> "cancelled"
                         [] @ = "created" -> "dropped"
                         [] OTHER -> @]]
    /\ UNCHANGED <<conn, dialing, failed, accepting, lost, alias, inbox, sent>>

(* The network resets a connection.                                        *)
Reset(c) ==
    /\ c \notin lost
    /\ Cardinality(lost) < MaxResets
    /\ lost' = lost \cup {c}
    /\ inbox' = [inbox EXCEPT ![c] = [d \in Daemons |-> <<>>]]
    /\ UNCHANGED <<server, running, peers, conn, dialing, failed, accepting,
                   task, alias, closed, sent>>

(* What the event loop of d does by itself with its end of c.              *)
ReadLoop(c, d) ==
    \/ BeginReadLoop(c, d) \/ ReceiveInit(c, d) \/ ReceivePing(c, d)
    \/ ReceiveOther(c, d) \/ ReceiveEnd(c, d) \/ HandlerResumes(c, d)
    \/ Cancelled(c, d)

Next ==
    \/ \E d \in Daemons : Start(d) \/ Stop(d)
    \/ \E d, e \in Daemons :
          Dial(d, e) \/ \E msg \in {"PING", "UPDATE"} : SendToPeer(d, e, msg)
    \/ \E c \in Opened :
          \/ Connected(c) \/ HandleIncomingConnection(c) \/ Reset(c)
          \/ \E d \in Ends(c) : ReadLoop(c, d)

(***************************************************************************)
(* An event loop runs every coroutine that is ready, and the handlers that *)
(* are awaited come back. Nobody has to dial, send, stop or reset.         *)
(***************************************************************************)
Fairness ==
    \A c \in ConnIds :
        /\ WF_vars(c \in Opened /\ Connected(c))
        /\ WF_vars(c \in Opened /\ HandleIncomingConnection(c))
        /\ \A d \in Daemons :
              WF_vars(c \in Opened /\ d \in Ends(c) /\ ReadLoop(c, d))

Spec == Init /\ [][Next]_vars /\ Fairness
-----------------------------------------------------------------------------
(***************************************************************************)
(* No ghosts: an entry of peers names a connection whose read loop will    *)
(* still run its finally clause, or one whose connect_to_peer raised, the  *)
(* only way the code leaves an entry behind.                               *)
(***************************************************************************)
EntryHasReader ==
    \A d \in Daemons : \A e \in DOMAIN peers[d] :
        \/ peers[d][e] \in failed
        \/ task[peers[d][e]][d] \in {"created", "reading", "handling"}

Live(c, d) ==
    task[c][d] \in {"reading", "handling"} /\ alias[c][d] # Unknown

(***************************************************************************)
(* While a pair of daemons has only ever had one connection, each side that*)
(* knows its peer's alias can send to it until its read loop ends.         *)
(***************************************************************************)
SoleConnectionRegistered ==
    \A c \in Opened : \A d \in Ends(c) :
        Live(c, d) /\ (\A k \in Opened \ {c} : Ends(k) # Ends(c)) =>
            /\ Other(c, d) \in DOMAIN peers[d]
            /\ peers[d][Other(c, d)] = c

(***************************************************************************)
(* A daemon's end of a connection is closed in the end once the other end  *)
(* has been, or once the daemon was stopped: connections dialled or        *)
(* accepted while stop ran are no exception, so stop's wait_closed returns.*)
(***************************************************************************)
EndsClose ==
    \A c \in ConnIds, d \in Daemons :
        (/\ c \in Opened /\ d \in Ends(c)
         /\ server[d] = "closed" \/ closed[c][Other(c, d)])
            ~> (closed[c][d] \/ c \in failed)

(***************************************************************************)
(* send_to_peer raises "No active connection to peer" only if there is     *)
(* none. The finally clause of an older connection's read loop deletes the *)
(* entry of a newer one, which stays connected and cannot be sent to.      *)
(***************************************************************************)
NoActiveConnection ==
    \A d, e \in Daemons :
        e \notin DOMAIN peers[d] =>
            ~ \E c \in Opened \ lost :
                  d \in Ends(c) /\ alias[c][d] = e /\ Live(c, d)
=============================================================================
