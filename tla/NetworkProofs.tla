----------------------------- MODULE NetworkProofs -----------------------------
(***************************************************************************)
(* Theorems about the two parts of the network package that keep state:    *)
(* the daemons of PeerDaemon and the route search of Routing. Neither      *)
(* reads a variable of the other.                                          *)
(***************************************************************************)
EXTENDS PeerDaemon, Routing, SequenceTheorems, FiniteSetTheorems, TLAPS

-----------------------------------------------------------------------------
(***************************************************************************)
(* The registry of the daemons names live connections, for any number of   *)
(* daemons, connections, messages and resets, and handlers of any types.   *)
(*                                                                         *)
(* An entry is deleted under the alias that its connection has noted, so   *)
(* the invariant says that the two always agree (EntryAlias), and that a   *)
(* read loop which has not begun has noted nothing its daemon has not      *)
(* registered (NotBegun).                                                  *)
(***************************************************************************)
Reader == {"created", "reading", "handling"}

(* An alias that is known is the other end's.                              *)
AliasTrue ==
    \A c \in Opened : \A d \in Ends(c) : alias[c][d] \in {Unknown, Other(c, d)}

(* A connection is registered under the alias it has noted.                *)
EntryAlias ==
    \A d \in Daemons : \A e \in DOMAIN peers[d] : alias[peers[d][e]][d] = e

(* Before connect_to_peer or _handle_incoming_connection goes on with a    *)
(* connection, its end there has no task and no alias.                     *)
NotBegun ==
    \A c \in ConnIds : \A d \in Daemons :
        \/ c \notin Opened
        \/ c \in dialing /\ d = conn[c][1]
        \/ c \in accepting /\ d = conn[c][2]
        => task[c][d] = "none" /\ alias[c][d] = Unknown

(* SoleConnectionRegistered, from the creation of the read loop on.        *)
Sole(c) == \A k \in Opened \ {c} : Ends(k) # Ends(c)

SoleRegistered ==
    \A c \in Opened : \A d \in Ends(c) :
        task[c][d] \in Reader /\ alias[c][d] # Unknown /\ Sole(c) =>
            /\ Other(c, d) \in DOMAIN peers[d]
            /\ peers[d][Other(c, d)] = c

IInv ==
    /\ TypeOK /\ AliasTrue /\ EntryAlias /\ NotBegun
    /\ EntryHasReader /\ SoleRegistered
-----------------------------------------------------------------------------
(* The two ends of a connection.                                           *)
LEMMA EndsOf ==
    ASSUME TypeOK, NEW c \in Opened
    PROVE  /\ c \in ConnIds
           /\ conn[c][1] \in Daemons /\ conn[c][2] \in Daemons
           /\ conn[c][1] # conn[c][2]
           /\ Ends(c) \subseteq Daemons
           /\ \A d \in Ends(c) :
                 /\ Other(c, d) \in Ends(c) /\ Other(c, d) # d
                 /\ Ends(c) = {d, Other(c, d)}
                 /\ Other(c, d) # Unknown
<1>1. c \in 1..Len(conn) /\ Len(conn) \in Nat /\ Len(conn) <= MaxConns
  BY LenProperties DEF TypeOK, Opened
<1>2. c \in ConnIds
  BY <1>1, PeerAssumption DEF ConnIds
<1>3. conn[c] \in Daemons \X Daemons /\ conn[c][1] # conn[c][2]
  BY <1>1, ElementOfSeq DEF TypeOK, Opened
<1>4. QED
  BY <1>2, <1>3, PeerAssumption DEF Ends, Other

(* What a read loop may do at the end of a step: go on, or finish.         *)
Outcome(c, d, dict, t) ==
    /\ task' = [task EXCEPT ![c][d] = t]
    /\ \/ /\ t \in {"reading", "handling"}
          /\ peers' = [peers EXCEPT ![d] = dict]
          /\ closed' = closed
       \/ /\ t = "done"
          /\ peers' = [peers EXCEPT ![d] = Without(dict, alias'[c][d])]
          /\ closed' = [closed EXCEPT ![c][d] = TRUE]

LEMMA DispatchOutcome ==
    ASSUME NEW c, NEW d, NEW msg, NEW dict,
           Dispatch(c, d, msg, dict) \/ LoopTop(c, d, dict) \/ Finish(c, d, dict)
    PROVE  \E t : Outcome(c, d, dict, t)
<1>1. CASE Finish(c, d, dict)
  BY <1>1 DEF Finish, Outcome
<1>2. CASE LoopTop(c, d, dict)
  BY <1>2 DEF LoopTop, Finish, Outcome
<1>3. CASE Dispatch(c, d, msg, dict)
  BY <1>3 DEF Dispatch, LoopTop, Finish, Outcome
<1>4. QED
  BY <1>1, <1>2, <1>3

(* The dict that a read loop's step starts from: as it was, or with the    *)
(* handshake of this connection registered.                                *)
Registering(c, d, dict) ==
    \/ dict = peers[d] /\ alias' = alias
    \/ /\ dict = With(peers[d], Other(c, d), c)
       /\ alias' = [alias EXCEPT ![c][d] = Other(c, d)]

LEMMA LoopSteps ==
    ASSUME TypeOK, NEW c \in Opened, NEW d \in Ends(c),
           \/ BeginReadLoop(c, d) \/ ReceiveInit(c, d) \/ ReceivePing(c, d)
           \/ ReceiveOther(c, d) \/ ReceiveEnd(c, d) \/ HandlerResumes(c, d)
           \/ task[c][d] = "cancelled" /\ Cancelled(c, d)
    PROVE  \E dict, t :
              /\ Outcome(c, d, dict, t)
              /\ Registering(c, d, dict)
              /\ task[c][d] \in Reader \/ (task[c][d] = "cancelled" /\ t = "done")
<1>1. CASE BeginReadLoop(c, d)
  BY <1>1, DispatchOutcome DEF BeginReadLoop, Registering, Reader
<1>2. CASE ReceiveInit(c, d)
  <2>1. PICK t : Outcome(c, d, With(peers[d], Other(c, d), c), t)
    BY <1>2, DispatchOutcome DEF ReceiveInit
  <2>2. QED
    BY <1>2, <2>1 DEF ReceiveInit, Receives, Registering, Reader
<1>3. CASE ReceivePing(c, d)
  BY <1>3, DispatchOutcome DEF ReceivePing, Receives, Registering, Reader
<1>4. CASE ReceiveOther(c, d)
  BY <1>4, DispatchOutcome DEF ReceiveOther, Receives, Registering, Reader
<1>5. CASE ReceiveEnd(c, d)
  BY <1>5, DispatchOutcome DEF ReceiveEnd, Registering, Reader
<1>6. CASE HandlerResumes(c, d)
  BY <1>6, DispatchOutcome DEF HandlerResumes, Registering, Reader
<1>7. CASE task[c][d] = "cancelled" /\ Cancelled(c, d)
  BY <1>7 DEF Cancelled, Finish, Outcome, Registering
<1>8. QED
  BY <1>1, <1>2, <1>3, <1>4, <1>5, <1>6, <1>7

(* Every action of a read loop leaves these alone.                         *)
LEMMA LoopKeeps ==
    ASSUME NEW c, NEW d, ReadLoop(c, d)
    PROVE  UNCHANGED <<server, running, conn, dialing, failed, accepting, lost, sent>>
BY DEF ReadLoop, BeginReadLoop, ReceiveInit, ReceivePing, ReceiveOther, ReceiveEnd,
       HandlerResumes, Cancelled
-----------------------------------------------------------------------------
(* What TypeOK says of one daemon's dict.                                  *)
DictOK(d, dict) ==
    \A e \in DOMAIN dict : dict[e] \in Opened /\ Ends(dict[e]) = {d, e}

LEMMA DictFacts ==
    ASSUME NEW d, NEW dict, DictOK(d, dict), NEW e
    PROVE  /\ DictOK(d, Without(dict, e))
           /\ DOMAIN Without(dict, e) = DOMAIN dict \ {e}
           /\ \A k \in DOMAIN dict \ {e} : Without(dict, e)[k] = dict[k]
           /\ \A c \in Opened : /\ Ends(c) = {d, e} => DictOK(d, With(dict, e, c))
                              /\ DOMAIN With(dict, e, c) = DOMAIN dict \cup {e}
                              /\ With(dict, e, c)[e] = c
                              /\ \A k \in DOMAIN dict \ {e} :
                                    With(dict, e, c)[k] = dict[k]
BY DEF DictOK, With, Without, Restrict

Tasks == {"none", "created", "reading", "handling", "cancelled", "dropped", "done"}

Messages == {"INIT", "PING", "PONG", "UPDATE"}

(* The step of a read loop keeps the types of the registry.                *)
LEMMA OutcomeTypes ==
    ASSUME TypeOK, NEW c \in Opened, NEW d \in Ends(c), NEW dict, NEW t,
           Outcome(c, d, dict, t), Registering(c, d, dict),
           UNCHANGED conn
    PROVE  /\ task' \in [ConnIds -> [Daemons -> Tasks]]
           /\ closed' \in [ConnIds -> [Daemons -> BOOLEAN]]
           /\ alias' \in [ConnIds -> [Daemons -> Daemons \cup {Unknown}]]
           /\ DOMAIN peers' = Daemons
           /\ \A a \in Daemons : \A e \in DOMAIN peers'[a] :
                 peers'[a][e] \in Opened /\ Ends(peers'[a][e]) = {a, e}
<1>1. /\ c \in ConnIds /\ d \in Daemons /\ Other(c, d) \in Daemons
      /\ Ends(c) = {d, Other(c, d)}
  BY EndsOf
<1>2. task' \in [ConnIds -> [Daemons -> Tasks]]
  BY <1>1 DEF TypeOK, Outcome, Tasks
<1>3. closed' \in [ConnIds -> [Daemons -> BOOLEAN]]
  <2>1. closed \in [ConnIds -> [Daemons -> BOOLEAN]]
    BY DEF TypeOK
  <2>2. [closed EXCEPT ![c][d] = TRUE] \in [ConnIds -> [Daemons -> BOOLEAN]]
    BY <1>1, <2>1
  <2>3. QED
    BY <2>1, <2>2 DEF Outcome
<1>4. alias' \in [ConnIds -> [Daemons -> Daemons \cup {Unknown}]]
  <2>1. alias \in [ConnIds -> [Daemons -> Daemons \cup {Unknown}]]
    BY DEF TypeOK
  <2>2. QED
    BY <1>1, <2>1 DEF Registering
<1>5. DictOK(d, peers[d])
  BY <1>1 DEF TypeOK, DictOK
<1>6. DictOK(d, dict)
  <2>1. DictOK(d, With(peers[d], Other(c, d), c))
    BY <1>1, <1>5, DictFacts
  <2>2. QED
    BY <1>5, <2>1 DEF Registering
<1>7. DictOK(d, Without(dict, alias'[c][d]))
  BY <1>6, DictFacts
<1>8. PICK dict2 : peers' = [peers EXCEPT ![d] = dict2] /\ DictOK(d, dict2)
  BY <1>6, <1>7 DEF Outcome
<1>9. QED
  BY <1>1, <1>2, <1>3, <1>4, <1>8 DEF TypeOK, DictOK

(* What a read loop does to the inboxes.                                   *)
LEMMA LoopInbox ==
    ASSUME TypeOK, NEW c \in Opened, NEW d \in Ends(c), ReadLoop(c, d)
    PROVE  inbox' \in [ConnIds -> [Daemons -> Seq(Messages)]]
<1>1. /\ c \in ConnIds /\ d \in Daemons /\ Other(c, d) \in Daemons
      /\ Other(c, d) # d
  BY EndsOf
<1>2. inbox \in [ConnIds -> [Daemons -> Seq(Messages)]]
  BY DEF TypeOK, Messages
<1>3. CASE inbox' = [inbox EXCEPT ![c][d] = Tail(@)] /\ inbox[c][d] # <<>>
  BY <1>1, <1>2, <1>3, HeadTailProperties
<1>4. CASE ReceivePing(c, d)
  <2>1. inbox[c][d] # <<>>
    BY <1>4 DEF ReceivePing, Receives
  <2>2. Delivered(c, Other(c, d), "PONG") \in [ConnIds -> [Daemons -> Seq(Messages)]]
    BY <1>1, <1>2, AppendProperties DEF Delivered, Messages
  <2>3. Delivered(c, Other(c, d), "PONG")[c][d] = inbox[c][d]
    BY <1>1, <1>2 DEF Delivered
  <2>4. inbox' = [Delivered(c, Other(c, d), "PONG") EXCEPT ![c][d] = Tail(@)]
    BY <1>4 DEF ReceivePing
  <2>5. Tail(inbox[c][d]) \in Seq(Messages)
    BY <1>1, <1>2, <2>1, HeadTailProperties
  <2>6. QED
    BY <1>1, <2>2, <2>3, <2>4, <2>5
<1>5. CASE inbox' = inbox
  BY <1>2, <1>5
<1>6. QED
  BY <1>3, <1>4, <1>5 DEF ReadLoop, BeginReadLoop, ReceiveInit, ReceiveOther, ReceiveEnd,
       HandlerResumes, Cancelled, Receives

LEMMA TypeInitial == ASSUME Init PROVE TypeOK
BY PeerAssumption DEF Init, TypeOK, Opened

LEMMA TypeReadLoop ==
    ASSUME TypeOK, NEW c \in Opened, NEW d \in Ends(c), ReadLoop(c, d)
    PROVE  TypeOK'
<1>1. UNCHANGED <<server, running, conn, dialing, failed, accepting, lost, sent>>
  BY LoopKeeps
<1>2. inbox' \in [ConnIds -> [Daemons -> Seq(Messages)]]
  BY LoopInbox
<1>3. CASE /\ task[c][d] = "dropped"
           /\ closed' = [closed EXCEPT ![c][d] = TRUE]
           /\ task' = [task EXCEPT ![c][d] = "done"]
           /\ UNCHANGED <<peers, alias>>
  <2>1. c \in ConnIds /\ d \in Daemons
    BY EndsOf
  <2>2. QED
    <3>1. task \in [ConnIds -> [Daemons -> Tasks]] /\ closed \in [ConnIds -> [Daemons -> BOOLEAN]]
      BY DEF TypeOK, Tasks
    <3>2. task' \in [ConnIds -> [Daemons -> Tasks]] /\ closed' \in [ConnIds -> [Daemons -> BOOLEAN]]
      BY <1>3, <2>1, <3>1 DEF Tasks
    <3>3. /\ DOMAIN peers' = Daemons
          /\ \A a \in Daemons : \A e \in DOMAIN peers'[a] :
                peers'[a][e] \in Opened /\ Ends(peers'[a][e]) = {a, e}
      BY <1>3 DEF TypeOK
    <3>4. alias' \in [ConnIds -> [Daemons -> Daemons \cup {Unknown}]]
      BY <1>3 DEF TypeOK
    <3>5. QED
      BY <1>1, <1>2, <3>2, <3>3, <3>4 DEF TypeOK, Opened, Ends, Messages, Tasks
<1>4. CASE \/ BeginReadLoop(c, d) \/ ReceiveInit(c, d) \/ ReceivePing(c, d)
           \/ ReceiveOther(c, d) \/ ReceiveEnd(c, d) \/ HandlerResumes(c, d)
           \/ task[c][d] = "cancelled" /\ Cancelled(c, d)
  <2>1. PICK dict, t : Outcome(c, d, dict, t) /\ Registering(c, d, dict)
    BY <1>4, LoopSteps
  <2>2. /\ task' \in [ConnIds -> [Daemons -> Tasks]]
        /\ closed' \in [ConnIds -> [Daemons -> BOOLEAN]]
        /\ alias' \in [ConnIds -> [Daemons -> Daemons \cup {Unknown}]]
        /\ DOMAIN peers' = Daemons
        /\ \A a \in Daemons : \A e \in DOMAIN peers'[a] :
              peers'[a][e] \in Opened /\ Ends(peers'[a][e]) = {a, e}
    BY <1>1, <2>1, OutcomeTypes
  <2>3. QED
    BY <1>1, <1>2, <2>2 DEF TypeOK, Opened, Ends, Messages, Tasks
<1>5. QED
  BY <1>3, <1>4 DEF ReadLoop, Cancelled

(* TypeOK in two parts: the registry, and the rest.                        *)
RegistryOK ==
    /\ DOMAIN peers = Daemons
    /\ \A d \in Daemons : \A e \in DOMAIN peers[d] :
          peers[d][e] \in Opened /\ Ends(peers[d][e]) = {d, e}

ValuesOK ==
    /\ server \in [Daemons -> {"none", "listening", "closed"}]
    /\ running \in [Daemons -> BOOLEAN]
    /\ conn \in Seq(Daemons \X Daemons) /\ Len(conn) <= MaxConns
    /\ \A c \in Opened : conn[c][1] # conn[c][2]
    /\ dialing \cup failed \cup accepting \cup lost \subseteq Opened
    /\ task \in [ConnIds -> [Daemons -> Tasks]]
    /\ alias \in [ConnIds -> [Daemons -> Daemons \cup {Unknown}]]
    /\ closed \in [ConnIds -> [Daemons -> BOOLEAN]]
    /\ inbox \in [ConnIds -> [Daemons -> Seq(Messages)]]
    /\ sent \in 0..MaxSent

LEMMA TypeSplit ==
    /\ TypeOK <=> ValuesOK /\ RegistryOK
    /\ ValuesOK' /\ RegistryOK' => TypeOK'
    /\ RegistryOK /\ UNCHANGED <<peers, conn>> => RegistryOK'
<1>1. TypeOK <=> ValuesOK /\ RegistryOK
  BY DEF TypeOK, ValuesOK, RegistryOK, Tasks, Messages
<1>2. ValuesOK' /\ RegistryOK' => TypeOK'
  BY DEF TypeOK, ValuesOK, RegistryOK, Tasks, Messages
<1>3. ASSUME RegistryOK, UNCHANGED <<peers, conn>> PROVE RegistryOK'
  <2>1. Opened' = Opened
    BY <1>3 DEF Opened
  <2>2. ASSUME NEW c PROVE Ends(c)' = Ends(c)
    BY <1>3 DEF Ends
  <2>3. QED
    BY <1>3, <2>1, <2>2 DEF RegistryOK
<1>4. QED
  BY <1>1, <1>2, <1>3

LEMMA TypeDial ==
    ASSUME TypeOK, NEW d \in Daemons, NEW e \in Daemons, Dial(d, e)
    PROVE  /\ TypeOK'
           /\ Opened' = Opened \cup {Len(conn) + 1}
           /\ Len(conn) + 1 \in ConnIds \ Opened
           /\ \A c \in Opened : Ends(c)' = Ends(c) /\ conn'[c] = conn[c]
           /\ conn'[Len(conn) + 1] = <<d, e>>
<1>1. conn \in Seq(Daemons \X Daemons) /\ Len(conn) \in Nat /\ <<d, e>> \in Daemons \X Daemons
  BY LenProperties DEF TypeOK
<1>2. /\ conn' \in Seq(Daemons \X Daemons) /\ Len(conn') = Len(conn) + 1
      /\ \A c \in 1..Len(conn) : conn'[c] = conn[c]
      /\ conn'[Len(conn) + 1] = <<d, e>>
  BY <1>1, AppendProperties DEF Dial
<1>3. /\ Opened' = Opened \cup {Len(conn) + 1}
      /\ Len(conn) + 1 \in ConnIds \ Opened
      /\ Len(conn') <= MaxConns
  BY <1>1, <1>2, PeerAssumption DEF Opened, ConnIds, Dial
<1>4. \A c \in Opened : Ends(c)' = Ends(c) /\ conn'[c] = conn[c]
  BY <1>2 DEF Opened, Ends
<1>5. \A c \in Opened' : conn'[c][1] # conn'[c][2]
  BY <1>2, <1>3, <1>4 DEF TypeOK, Dial, Opened
<1>6. RegistryOK'
  <2>1. UNCHANGED peers
    BY DEF Dial
  <2>2. \A a \in Daemons : \A k \in DOMAIN peers[a] :
           /\ peers[a][k] \in Opened
           /\ Ends(peers[a][k]) = {a, k}
           /\ Ends(peers[a][k])' = Ends(peers[a][k])
    BY <1>4, <2>1, TypeSplit DEF RegistryOK
  <2>3. QED
    BY <1>3, <2>1, <2>2, TypeSplit DEF RegistryOK
<1>7. (dialing \cup failed \cup accepting \cup lost)' \subseteq Opened'
  BY <1>2, <1>3 DEF TypeOK, Dial
<1>8. UNCHANGED <<server, running, task, alias, closed, inbox, sent>>
  BY DEF Dial
<1>9. TypeOK'
  <2>1. ValuesOK'
    BY <1>2, <1>3, <1>5, <1>7, <1>8, TypeSplit DEF ValuesOK
  <2>2. QED
    BY <1>6, <2>1, TypeSplit
<1>10. QED
  BY <1>2, <1>3, <1>4, <1>9

LEMMA TypeStop ==
    ASSUME TypeOK, NEW d \in Daemons, Stop(d)
    PROVE  TypeOK'
<1>1. /\ server' \in [Daemons -> {"none", "listening", "closed"}]
      /\ running' \in [Daemons -> BOOLEAN]
  BY DEF TypeOK, Stop
<1>2. closed' \in [ConnIds -> [Daemons -> BOOLEAN]]
  <2>1. closed \in [ConnIds -> [Daemons -> BOOLEAN]]
    BY DEF TypeOK
  <2>2. \A c \in ConnIds :
           [closed[c] EXCEPT ![d] = @ \/ c \in Range(peers[d])] \in [Daemons -> BOOLEAN]
    <3> TAKE c \in ConnIds
    <3>1. (closed[c][d] \/ c \in Range(peers[d])) \in BOOLEAN
      OBVIOUS
    <3>2. QED
      BY <2>1, <3>1
  <2>3. QED
    BY <2>2 DEF Stop
<1>3. task' \in [ConnIds -> [Daemons -> Tasks]]
  <2>1. task \in [ConnIds -> [Daemons -> Tasks]]
    BY DEF TypeOK, Tasks
  <2>2. \A t \in Tasks : (CASE t \in {"reading", "handling"} -> "cancelled"
                            [] t = "created" -> "dropped"
                            [] OTHER -> t) \in Tasks
    BY DEF Tasks
  <2>3. QED
    BY <2>1, <2>2 DEF Stop
<1>4. /\ DOMAIN peers' = Daemons
      /\ \A a \in Daemons : \A e \in DOMAIN peers'[a] :
            peers'[a][e] \in Opened /\ Ends(peers'[a][e]) = {a, e}
  BY DEF TypeOK, Stop
<1>5. UNCHANGED <<conn, dialing, failed, accepting, lost, alias, inbox, sent>>
  BY DEF Stop
<1>6. QED
  BY <1>1, <1>2, <1>3, <1>4, <1>5 DEF TypeOK, Opened, Ends, Tasks

(* What connect_to_peer does once its connection is open.                  *)
LEMMA TypeConnected ==
    ASSUME TypeOK, NEW c \in Opened, Connected(c)
    PROVE  TypeOK'
<1> DEFINE d == conn[c][1]
           e == conn[c][2]
<1>1. /\ c \in ConnIds /\ d \in Daemons /\ e \in Daemons /\ Ends(c) = {d, e}
  BY EndsOf DEF Ends
<1>2. /\ DOMAIN peers' = Daemons
      /\ \A a \in Daemons : \A k \in DOMAIN peers'[a] :
            peers'[a][k] \in Opened /\ Ends(peers'[a][k]) = {a, k}
  <2>1. DictOK(d, peers[d])
    BY <1>1 DEF TypeOK, DictOK
  <2>2. DictOK(d, With(peers[d], e, c))
    BY <1>1, <2>1, DictFacts
  <2>3. peers' = [peers EXCEPT ![d] = With(@, e, c)]
    BY DEF Connected
  <2>4. QED
    BY <1>1, <2>2, <2>3 DEF TypeOK, DictOK
<1>3. alias' \in [ConnIds -> [Daemons -> Daemons \cup {Unknown}]]
  BY <1>1 DEF TypeOK, Connected
<1>4. task' \in [ConnIds -> [Daemons -> Tasks]]
  <2>1. task \in [ConnIds -> [Daemons -> Tasks]]
    BY DEF TypeOK, Tasks
  <2>2. [task EXCEPT ![c][d] = "created"] \in [ConnIds -> [Daemons -> Tasks]]
    BY <1>1, <2>1 DEF Tasks
  <2>3. QED
    BY <2>1, <2>2 DEF Connected
<1>5. inbox' \in [ConnIds -> [Daemons -> Seq(Messages)]]
  <2>1. inbox \in [ConnIds -> [Daemons -> Seq(Messages)]]
    BY DEF TypeOK, Messages
  <2>2. Append(inbox[c][e], "INIT") \in Seq(Messages)
    BY <1>1, <2>1, AppendProperties DEF Messages
  <2>3. QED
    <3>1. Delivered(c, e, "INIT") \in [ConnIds -> [Daemons -> Seq(Messages)]]
      BY <1>1, <2>1, <2>2 DEF Delivered
    <3>2. QED
      BY <2>1, <3>1 DEF Connected
<1>6. (dialing \cup failed \cup accepting \cup lost)' \subseteq Opened
  BY DEF TypeOK, Connected
<1>7. UNCHANGED <<server, running, conn, closed, sent>>
  BY DEF Connected
<1>8. QED
  BY <1>2, <1>3, <1>4, <1>5, <1>6, <1>7 DEF TypeOK, Opened, Ends, Tasks, Messages

LEMMA TypeSmallSteps ==
    ASSUME TypeOK,
           \/ \E d \in Daemons : Start(d)
           \/ \E d, e \in Daemons, msg \in {"PING", "UPDATE"} : SendToPeer(d, e, msg)
           \/ \E c \in Opened : HandleIncomingConnection(c) \/ Reset(c)
    PROVE  TypeOK'
<1>1. ASSUME NEW d \in Daemons, Start(d)
      PROVE  TypeOK'
  BY <1>1, TypeSplit DEF ValuesOK, Start, Opened
<1>2. ASSUME NEW d \in Daemons, NEW e \in Daemons, NEW msg \in {"PING", "UPDATE"},
             SendToPeer(d, e, msg)
      PROVE  TypeOK'
  <2>1. inbox \in [ConnIds -> [Daemons -> Seq(Messages)]]
    BY DEF TypeOK, Messages
  <2>2. peers[d][e] \in Opened
    BY <1>2 DEF TypeOK, SendToPeer
  <2>3. peers[d][e] \in ConnIds
    BY <2>2, EndsOf
  <2>4. Append(inbox[peers[d][e]][e], msg) \in Seq(Messages)
    BY <2>1, <2>3, AppendProperties DEF Messages
  <2>5. inbox' \in [ConnIds -> [Daemons -> Seq(Messages)]]
    BY <1>2, <2>1, <2>3, <2>4 DEF SendToPeer, Delivered
  <2>6. sent' \in 0..MaxSent
    BY <1>2, PeerAssumption DEF TypeOK, SendToPeer
  <2>7. QED
    BY <1>2, <2>5, <2>6, TypeSplit DEF ValuesOK, SendToPeer, Opened
<1>3. ASSUME NEW c \in Opened, HandleIncomingConnection(c)
      PROVE  TypeOK'
  <2>1. c \in ConnIds /\ conn[c][2] \in Daemons
    BY EndsOf
  <2>2. task' \in [ConnIds -> [Daemons -> Tasks]]
    BY <1>3, <2>1 DEF TypeOK, HandleIncomingConnection, Tasks
  <2>3. QED
    BY <1>3, <2>2, TypeSplit DEF ValuesOK, HandleIncomingConnection, Opened
<1>4. ASSUME NEW c \in Opened, Reset(c)
      PROVE  TypeOK'
  <2>1. c \in ConnIds
    BY EndsOf
  <2>2. inbox \in [ConnIds -> [Daemons -> Seq(Messages)]]
    BY DEF TypeOK, Messages
  <2>3. [d \in Daemons |-> <<>>] \in [Daemons -> Seq(Messages)]
    BY EmptySeq
  <2>4. inbox' \in [ConnIds -> [Daemons -> Seq(Messages)]]
    BY <1>4, <2>1, <2>2, <2>3 DEF Reset
  <2>5. QED
    BY <1>4, <2>4, TypeSplit DEF ValuesOK, Reset, Opened
<1>5. QED
  BY <1>1, <1>2, <1>3, <1>4

LEMMA TypeStep == ASSUME TypeOK, [Next]_vars PROVE TypeOK'
<1>1. CASE UNCHANGED vars
  BY <1>1, TypeSplit DEF ValuesOK, vars, Opened
<1>2. CASE Next
  BY <1>2, TypeReadLoop, TypeDial, TypeStop, TypeConnected, TypeSmallSteps DEF Next
<1>3. QED
  BY <1>1, <1>2

(* A daemon's registry names opened connections to the peer each is        *)
(* registered for, and no message reaches an inbox that does not exist.    *)
THEOREM DaemonTypeCorrect == Spec => []TypeOK
BY TypeInitial, TypeStep, PTL DEF Spec
-----------------------------------------------------------------------------
(* The connections keep their ends while none is dialled.                  *)
LEMMA SameEnds ==
    ASSUME UNCHANGED conn
    PROVE  /\ Opened' = Opened
           /\ \A c, d : Ends(c)' = Ends(c) /\ Other(c, d)' = Other(c, d)
           /\ \A c : Sole(c)' <=> Sole(c)
BY DEF Opened, Ends, Other, Sole

(* A pair of daemons has one sole connection: another one of d's is to     *)
(* somebody else.                                                          *)
LEMMA OtherPeer ==
    ASSUME TypeOK, NEW c \in Opened, NEW k \in Opened \ {c}, NEW d \in Ends(c),
           d \in Ends(k), Sole(k)
    PROVE  Other(k, d) # Other(c, d)
BY EndsOf DEF Sole

(* A step of a read loop that is running, or cancelled and finishing.      *)
LEMMA ReadStep ==
    ASSUME IInv, TypeOK', NEW c \in Opened, NEW d \in Ends(c), NEW dict, NEW t,
           Outcome(c, d, dict, t), Registering(c, d, dict),
           task[c][d] \in Reader \/ (task[c][d] = "cancelled" /\ t = "done"),
           UNCHANGED <<conn, dialing, failed, accepting>>
    PROVE  IInv'
<1> DEFINE o == Other(c, d)
<1>1. /\ TypeOK /\ AliasTrue /\ EntryAlias /\ NotBegun
      /\ EntryHasReader /\ SoleRegistered
  BY DEF IInv
<1>2. /\ c \in ConnIds /\ d \in Daemons /\ o \in Daemons /\ o # d
      /\ Ends(c) = {d, o} /\ o # Unknown
  BY <1>1, EndsOf
<1>3. /\ task \in [ConnIds -> [Daemons -> Tasks]]
      /\ alias \in [ConnIds -> [Daemons -> Daemons \cup {Unknown}]]
      /\ DOMAIN peers = Daemons
  BY <1>1 DEF TypeOK, Tasks
<1>4. /\ Opened' = Opened
      /\ \A k, a : Ends(k)' = Ends(k) /\ Other(k, a)' = Other(k, a)
      /\ \A k : Sole(k)' <=> Sole(k)
  BY SameEnds
<1>5. Opened \subseteq ConnIds /\ \A k \in Opened : Ends(k) \subseteq Daemons
  BY <1>1, EndsOf
<1>6. /\ task'[c][d] = t
      /\ \A k \in ConnIds, a \in Daemons : k # c \/ a # d => task'[k][a] = task[k][a]
  BY <1>2, <1>3 DEF Outcome
<1>7. /\ alias'[c][d] \in {alias[c][d], o}
      /\ \A k \in ConnIds, a \in Daemons : k # c \/ a # d => alias'[k][a] = alias[k][a]
  BY <1>2, <1>3 DEF Registering
<1>8. alias'[c][d] \in {Unknown, o}
  BY <1>1, <1>2, <1>7 DEF AliasTrue
<1>9. /\ DOMAIN peers' = Daemons
      /\ \A a \in Daemons \ {d} : peers'[a] = peers[a]
      /\ peers'[d] = IF t = "done" THEN Without(dict, alias'[c][d]) ELSE dict
  BY <1>2, <1>3 DEF Outcome
<1>10. DictOK(d, peers[d])
  BY <1>1, <1>2 DEF TypeOK, DictOK
<1>11. /\ DictOK(d, dict)
       /\ \A e \in DOMAIN dict : alias'[dict[e]][d] = e
       /\ \A e \in DOMAIN dict : dict[e] # c => e \in DOMAIN peers[d] /\ peers[d][e] = dict[e]
       /\ \A e \in DOMAIN peers[d] \ {o} : e \in DOMAIN dict /\ dict[e] = peers[d][e]
  <2>1. CASE dict = peers[d] /\ alias' = alias
    BY <1>1, <1>2, <1>10, <2>1 DEF EntryAlias
  <2>2. CASE dict = With(peers[d], o, c) /\ alias' = [alias EXCEPT ![c][d] = o]
    <3>1. /\ DictOK(d, dict) /\ DOMAIN dict = DOMAIN peers[d] \cup {o} /\ dict[o] = c
          /\ \A e \in DOMAIN peers[d] \ {o} : dict[e] = peers[d][e]
      <4>1. DictOK(d, With(peers[d], o, c))
        BY <1>2, <1>10, DictFacts
      <4>2. QED
        BY <2>2, <4>1 DEF With
    <3>2. alias'[c][d] = o
      BY <1>2, <1>3, <2>2
    <3>3. ASSUME NEW e \in DOMAIN dict, e # o
          PROVE  alias'[dict[e]][d] = e /\ e \in DOMAIN peers[d] /\ peers[d][e] = dict[e]
      <4>1. e \in DOMAIN peers[d] /\ peers[d][e] = dict[e]
        BY <3>1, <3>3
      <4>2. dict[e] \in Opened /\ Ends(dict[e]) = {d, e}
        BY <1>10, <4>1 DEF DictOK
      <4>3. dict[e] # c
        BY <1>2, <3>3, <4>2
      <4>4. QED
        BY <1>1, <1>2, <1>5, <1>7, <4>1, <4>2, <4>3 DEF EntryAlias
    <3>4. QED
      BY <3>1, <3>2, <3>3
  <2>3. QED
    BY <2>1, <2>2 DEF Registering
<1>12. /\ \A e \in DOMAIN peers'[d] : e \in DOMAIN dict /\ peers'[d][e] = dict[e]
       /\ t = "done" => \A e \in DOMAIN peers'[d] : e # alias'[c][d]
       /\ \A e \in DOMAIN dict \ {alias'[c][d]} : e \in DOMAIN peers'[d] /\ peers'[d][e] = dict[e]
  <2>1. CASE peers'[d] = Without(dict, alias'[c][d])
    BY <2>1 DEF Without, Restrict
  <2>2. CASE peers'[d] = dict /\ t # "done"
    BY <2>2
  <2>3. QED
    BY <1>9, <2>1, <2>2
<1>13. AliasTrue'
  BY <1>1, <1>2, <1>4, <1>5, <1>7, <1>8 DEF AliasTrue
<1>14. EntryAlias'
  <2>1. ASSUME NEW a \in Daemons \ {d}, NEW e \in DOMAIN peers[a]
        PROVE  alias'[peers[a][e]][a] = e
    BY <1>1, <1>5, <1>7 DEF EntryAlias, TypeOK
  <2>2. QED
    BY <1>2, <1>9, <1>11, <1>12, <2>1 DEF EntryAlias
<1>15. NotBegun'
  <2>1. task[c][d] # "none"
    BY DEF Reader
  <2>2. \A k : k \in Opened' <=> k \in Opened
    BY <1>4
  <2>3. QED
    BY <1>1, <1>2, <1>6, <1>7, <2>1, <2>2 DEF NotBegun
<1>16. EntryHasReader'
  <2>1. ASSUME NEW a \in Daemons \ {d}, NEW e \in DOMAIN peers[a]
        PROVE  \/ peers[a][e] \in failed
               \/ task'[peers[a][e]][a] \in Reader
    BY <1>1, <1>5, <1>6 DEF EntryHasReader, Reader, TypeOK
  <2>2. ASSUME NEW e \in DOMAIN peers'[d]
        PROVE  \/ peers'[d][e] \in failed
               \/ task'[peers'[d][e]][d] \in Reader
    <3>1. CASE peers'[d][e] = c
      <4>1. alias'[c][d] = e /\ t # "done"
        BY <1>11, <1>12, <2>2, <3>1
      <4>2. QED
        BY <1>6, <3>1, <4>1 DEF Outcome, Reader
    <3>2. CASE peers'[d][e] # c
      <4>1. e \in DOMAIN peers[d] /\ peers[d][e] = peers'[d][e]
        BY <1>11, <1>12, <2>2, <3>2
      <4>2. peers[d][e] \in ConnIds
        BY <1>5, <1>10, <4>1 DEF DictOK
      <4>3. QED
        BY <1>1, <1>2, <1>6, <3>2, <4>1, <4>2 DEF EntryHasReader, Reader
    <3>3. QED
      BY <3>1, <3>2
  <2>3. QED
    BY <1>2, <1>9, <2>1, <2>2 DEF EntryHasReader, Reader
<1>17. SoleRegistered'
  <2>1. SUFFICES ASSUME NEW k \in Opened, NEW a \in Ends(k),
                        task'[k][a] \in Reader, alias'[k][a] # Unknown, Sole(k)
                 PROVE  /\ Other(k, a) \in DOMAIN peers'[a]
                        /\ peers'[a][Other(k, a)] = k
    BY <1>4 DEF SoleRegistered
  <2>2. k \in ConnIds /\ a \in Daemons /\ Other(k, a) # Unknown
    BY <1>1, <2>1, EndsOf
  <2>3. CASE a # d
    BY <1>1, <1>6, <1>7, <1>9, <2>1, <2>2, <2>3 DEF SoleRegistered
  <2>4. CASE a = d /\ k # c
    <3>1. Other(k, d) # o
      BY <1>1, <2>1, <2>4, OtherPeer
    <3>2. Other(k, d) \in DOMAIN peers[d] /\ peers[d][Other(k, d)] = k
      BY <1>1, <1>6, <1>7, <2>1, <2>2, <2>4 DEF SoleRegistered
    <3>3. QED
      BY <1>8, <1>11, <1>12, <2>2, <2>4, <3>1, <3>2
  <2>5. CASE a = d /\ k = c
    <3>1. t # "done"
      BY <1>6, <2>1, <2>5 DEF Reader
    <3>2. o \in DOMAIN dict /\ dict[o] = c
      <4>1. CASE dict = peers[d] /\ alias' = alias
        BY <1>1, <2>1, <2>5, <3>1, <4>1 DEF SoleRegistered
      <4>2. CASE dict = With(peers[d], o, c)
        BY <4>2 DEF With
      <4>3. QED
        BY <4>1, <4>2 DEF Registering
    <3>3. QED
      BY <1>9, <2>5, <3>1, <3>2
  <2>6. QED
    BY <2>3, <2>4, <2>5
<1>18. QED
  BY <1>13, <1>14, <1>15, <1>16, <1>17 DEF IInv

(* An entry names a connection between its daemon and its alias.           *)
LEMMA EntryEnds ==
    ASSUME TypeOK, NEW a \in Daemons, NEW k \in DOMAIN peers[a]
    PROVE  peers[a][k] \in Opened /\ peers[a][k] \in ConnIds /\ Ends(peers[a][k]) = {a, k}
<1>1. peers[a][k] \in Opened /\ Ends(peers[a][k]) = {a, k}
  BY TypeSplit DEF RegistryOK
<1>2. QED
  BY <1>1, EndsOf

(* A task that stop dropped before it ran.                                 *)
LEMMA DroppedStep ==
    ASSUME IInv, TypeOK', NEW c \in Opened, NEW d \in Ends(c),
           task[c][d] = "dropped", task' = [task EXCEPT ![c][d] = "done"],
           UNCHANGED <<conn, peers, alias, dialing, failed, accepting>>
    PROVE  IInv'
<1>1. /\ TypeOK /\ AliasTrue /\ EntryAlias /\ NotBegun
      /\ EntryHasReader /\ SoleRegistered
  BY DEF IInv
<1>2. /\ Opened' = Opened
      /\ \A k, a : Ends(k)' = Ends(k) /\ Other(k, a)' = Other(k, a)
      /\ \A k : Sole(k)' <=> Sole(k)
  BY SameEnds
<1>3. /\ Opened \subseteq ConnIds /\ c \in ConnIds /\ d \in Daemons
      /\ \A k \in Opened : Ends(k) \subseteq Daemons
  BY <1>1, EndsOf
<1>4. task'[c][d] = "done" /\ \A k \in ConnIds, a \in Daemons :
         k # c \/ a # d => task'[k][a] = task[k][a]
  BY <1>1, <1>3 DEF TypeOK
<1>5. AliasTrue' /\ EntryAlias'
  BY <1>1, <1>2 DEF AliasTrue, EntryAlias
<1>6. NotBegun'
  <2>1. \A k : k \in Opened' <=> k \in Opened
    BY <1>2
  <2>2. QED
    BY <1>1, <1>3, <1>4, <2>1 DEF NotBegun
<1>7. EntryHasReader'
  BY <1>1, <1>3, <1>4 DEF EntryHasReader, TypeOK
<1>8. SoleRegistered'
  BY <1>1, <1>2, <1>3, <1>4 DEF SoleRegistered, Reader
<1>9. QED
  BY <1>5, <1>6, <1>7, <1>8 DEF IInv

LEMMA ConnectedStep ==
    ASSUME IInv, TypeOK', NEW c \in Opened, Connected(c)
    PROVE  IInv'
<1> DEFINE d == conn[c][1]
           e == conn[c][2]
<1>1. /\ TypeOK /\ AliasTrue /\ EntryAlias /\ NotBegun
      /\ EntryHasReader /\ SoleRegistered
  BY DEF IInv
<1>2. /\ c \in ConnIds /\ d \in Daemons /\ e \in Daemons /\ d # e
      /\ Ends(c) = {d, e} /\ Other(c, d) = e /\ e # Unknown
  BY <1>1, EndsOf DEF Ends, Other
<1>3. /\ task \in [ConnIds -> [Daemons -> Tasks]]
      /\ alias \in [ConnIds -> [Daemons -> Daemons \cup {Unknown}]]
      /\ DOMAIN peers = Daemons
  BY <1>1 DEF TypeOK, Tasks
<1>4. /\ Opened' = Opened
      /\ \A k, a : Ends(k)' = Ends(k) /\ Other(k, a)' = Other(k, a)
      /\ \A k : Sole(k)' <=> Sole(k)
  BY SameEnds DEF Connected
<1>5. Opened \subseteq ConnIds /\ \A k \in Opened : Ends(k) \subseteq Daemons
  BY <1>1, EndsOf
<1>6. /\ \A k \in ConnIds, a \in Daemons : k # c \/ a # d => task'[k][a] = task[k][a]
      /\ c \in failed' \/ task'[c][d] = "created"
      /\ failed \subseteq failed'
  BY <1>2, <1>3 DEF Connected
<1>7. /\ alias'[c][d] = e
      /\ \A k \in ConnIds, a \in Daemons : k # c \/ a # d => alias'[k][a] = alias[k][a]
  BY <1>2, <1>3 DEF Connected
<1>8. /\ DOMAIN peers' = Daemons
      /\ \A a \in Daemons \ {d} : peers'[a] = peers[a]
      /\ DOMAIN peers'[d] = DOMAIN peers[d] \cup {e}
      /\ peers'[d][e] = c
      /\ \A k \in DOMAIN peers[d] \ {e} : peers'[d][k] = peers[d][k]
  BY <1>2, <1>3 DEF Connected, With
<1>9. \A a \in Daemons : \A k \in DOMAIN peers[a] :
         /\ peers[a][k] \in ConnIds
         /\ (a = d /\ k # e => peers[a][k] # c)
  BY <1>1, <1>2, EntryEnds
<1>10. AliasTrue'
  BY <1>1, <1>2, <1>4, <1>5, <1>7 DEF AliasTrue
<1>11. EntryAlias'
  BY <1>1, <1>2, <1>7, <1>8, <1>9 DEF EntryAlias
<1>12. NotBegun'
  <2>1. \A k : k \in Opened' <=> k \in Opened
    BY <1>4
  <2>2. dialing' = dialing \ {c} /\ UNCHANGED <<conn, accepting>>
    BY DEF Connected
  <2>3. QED
    BY <1>1, <1>2, <1>6, <1>7, <2>1, <2>2 DEF NotBegun
<1>13. EntryHasReader'
  BY <1>1, <1>2, <1>6, <1>8, <1>9 DEF EntryHasReader
<1>14. SoleRegistered'
  <2>1. SUFFICES ASSUME NEW k \in Opened, NEW a \in Ends(k),
                        task'[k][a] \in Reader, alias'[k][a] # Unknown, Sole(k)
                 PROVE  /\ Other(k, a) \in DOMAIN peers'[a]
                        /\ peers'[a][Other(k, a)] = k
    BY <1>4 DEF SoleRegistered
  <2>2. k \in ConnIds /\ a \in Daemons
    BY <1>5, <2>1
  <2>3. CASE a # d
    BY <1>1, <1>6, <1>7, <1>8, <2>1, <2>2, <2>3 DEF SoleRegistered
  <2>4. CASE a = d /\ k # c
    <3>1. Other(k, d) # e
      BY <1>1, <1>2, <2>1, <2>4, OtherPeer
    <3>2. Other(k, d) \in DOMAIN peers[d] /\ peers[d][Other(k, d)] = k
      BY <1>1, <1>6, <1>7, <2>1, <2>2, <2>4 DEF SoleRegistered
    <3>3. QED
      BY <1>8, <2>4, <3>1, <3>2
  <2>5. CASE a = d /\ k = c
    BY <1>2, <1>8, <2>5
  <2>6. QED
    BY <2>3, <2>4, <2>5
<1>15. QED
  BY <1>10, <1>11, <1>12, <1>13, <1>14 DEF IInv

LEMMA AcceptedStep ==
    ASSUME IInv, TypeOK', NEW c \in Opened, HandleIncomingConnection(c)
    PROVE  IInv'
<1> DEFINE e == conn[c][2]
<1>1. /\ TypeOK /\ AliasTrue /\ EntryAlias /\ NotBegun
      /\ EntryHasReader /\ SoleRegistered
  BY DEF IInv
<1>2. /\ c \in ConnIds /\ e \in Daemons /\ conn[c][1] # e
  BY <1>1, EndsOf
<1>3. /\ Opened' = Opened
      /\ \A k, a : Ends(k)' = Ends(k) /\ Other(k, a)' = Other(k, a)
      /\ \A k : Sole(k)' <=> Sole(k)
  BY SameEnds DEF HandleIncomingConnection
<1>4. Opened \subseteq ConnIds /\ \A k \in Opened : Ends(k) \subseteq Daemons
  BY <1>1, EndsOf
<1>5. task[c][e] = "none" /\ alias[c][e] = Unknown
  BY <1>1, <1>2 DEF NotBegun, HandleIncomingConnection
<1>6. task'[c][e] = "created" /\ \A k \in ConnIds, a \in Daemons :
         k # c \/ a # e => task'[k][a] = task[k][a]
  BY <1>1, <1>2 DEF TypeOK, HandleIncomingConnection
<1>7. /\ UNCHANGED <<conn, peers, alias, dialing, failed>>
      /\ accepting' = accepting \ {c}
  BY DEF HandleIncomingConnection
<1>8. AliasTrue' /\ EntryAlias'
  BY <1>1, <1>3, <1>7 DEF AliasTrue, EntryAlias
<1>9. NotBegun'
  <2>1. \A k : k \in Opened' <=> k \in Opened
    BY <1>3
  <2>2. QED
    BY <1>1, <1>2, <1>6, <1>7, <2>1 DEF NotBegun
<1>10. EntryHasReader'
  BY <1>1, <1>6, <1>7, EntryEnds DEF EntryHasReader
<1>11. SoleRegistered'
  BY <1>1, <1>3, <1>4, <1>5, <1>6, <1>7 DEF SoleRegistered, Reader
<1>12. QED
  BY <1>8, <1>9, <1>10, <1>11 DEF IInv

LEMMA DialStep ==
    ASSUME IInv, NEW d \in Daemons, NEW e \in Daemons, Dial(d, e)
    PROVE  IInv'
<1>0. PICK n : n = Len(conn) + 1
  OBVIOUS
<1>1. /\ TypeOK /\ AliasTrue /\ EntryAlias /\ NotBegun
      /\ EntryHasReader /\ SoleRegistered
  BY DEF IInv
<1>2. /\ TypeOK'
      /\ Opened' = Opened \cup {n}
      /\ n \in ConnIds \ Opened
      /\ \A c \in Opened : Ends(c)' = Ends(c) /\ conn'[c] = conn[c]
      /\ conn'[n] = <<d, e>>
  BY <1>0, <1>1, TypeDial
<1>3. UNCHANGED <<peers, failed, task, alias>>
  BY DEF Dial
<1>4. dialing' = dialing \cup {n} /\ accepting' = accepting \cup {n}
  <2>1. Len(conn') = n
    BY <1>0, <1>1, AppendProperties DEF TypeOK, Dial
  <2>2. QED
    BY <2>1 DEF Dial
<1>5. \A a \in Daemons : task[n][a] = "none" /\ alias[n][a] = Unknown
  BY <1>1, <1>2 DEF NotBegun
<1>6. \A c \in Opened : \A a : Other(c, a)' = Other(c, a)
  BY <1>2 DEF Other
<1>7. \A c \in Opened : Sole(c)' => Sole(c)
  BY <1>2 DEF Sole
<1>8. Ends(n)' \subseteq Daemons
  BY <1>2 DEF Ends
<1>9. AliasTrue'
  BY <1>1, <1>2, <1>3, <1>5, <1>6, <1>8 DEF AliasTrue
<1>10. EntryAlias'
  BY <1>1, <1>3 DEF EntryAlias
<1>11. NotBegun'
  <2>1. dialing \subseteq Opened /\ accepting \subseteq Opened
    BY <1>1 DEF TypeOK
  <2>2. SUFFICES ASSUME NEW c \in ConnIds, NEW a \in Daemons,
                        \/ c \notin Opened'
                        \/ c \in dialing' /\ a = conn'[c][1]
                        \/ c \in accepting' /\ a = conn'[c][2]
                 PROVE  task[c][a] = "none" /\ alias[c][a] = Unknown
    BY <1>3 DEF NotBegun
  <2>3. CASE c = n
    BY <1>5, <2>3
  <2>4. CASE c # n
    BY <1>1, <1>2, <1>4, <2>1, <2>2, <2>4 DEF NotBegun
  <2>5. QED
    BY <2>3, <2>4
<1>12. EntryHasReader'
  BY <1>1, <1>3 DEF EntryHasReader
<1>13. SoleRegistered'
  BY <1>1, <1>2, <1>3, <1>5, <1>6, <1>7, <1>8 DEF SoleRegistered
<1>14. QED
  BY <1>2, <1>9, <1>10, <1>11, <1>12, <1>13 DEF IInv

LEMMA StopStep ==
    ASSUME IInv, TypeOK', NEW d \in Daemons, Stop(d)
    PROVE  IInv'
<1>1. /\ TypeOK /\ AliasTrue /\ EntryAlias /\ NotBegun
      /\ EntryHasReader /\ SoleRegistered
  BY DEF IInv
<1>2. /\ Opened' = Opened
      /\ \A k, a : Ends(k)' = Ends(k) /\ Other(k, a)' = Other(k, a)
      /\ \A k : Sole(k)' <=> Sole(k)
  BY SameEnds DEF Stop
<1>3. Opened \subseteq ConnIds /\ \A k \in Opened : Ends(k) \subseteq Daemons
  BY <1>1, EndsOf
<1>4. /\ \A k \in ConnIds : task'[k][d] \notin Reader
      /\ \A k \in ConnIds : task[k][d] = "none" => task'[k][d] = "none"
      /\ \A k \in ConnIds, a \in Daemons \ {d} : task'[k][a] = task[k][a]
  <2>1. task \in [ConnIds -> [Daemons -> Tasks]]
    BY <1>1 DEF TypeOK, Tasks
  <2>2. \A k \in ConnIds : task'[k] =
           [task[k] EXCEPT ![d] = CASE task[k][d] \in {"reading", "handling"} -> "cancelled"
                                    [] task[k][d] = "created" -> "dropped"
                                    [] OTHER -> task[k][d]]
    BY DEF Stop
  <2>3. QED
    BY <2>1, <2>2, ZenonT(40) DEF Reader
<1>5. /\ DOMAIN peers' = Daemons
      /\ DOMAIN peers'[d] = {}
      /\ \A a \in Daemons \ {d} : peers'[a] = peers[a]
  BY <1>1 DEF TypeOK, Stop
<1>6. UNCHANGED <<conn, alias, dialing, failed, accepting>>
  BY DEF Stop
<1>7. AliasTrue' /\ EntryAlias'
  BY <1>1, <1>2, <1>5, <1>6 DEF AliasTrue, EntryAlias
<1>8. NotBegun'
  <2>1. \A k : k \in Opened' <=> k \in Opened
    BY <1>2
  <2>2. QED
    BY <1>1, <1>4, <1>6, <2>1 DEF NotBegun
<1>9. EntryHasReader'
  BY <1>1, <1>4, <1>5, <1>6, EntryEnds DEF EntryHasReader
<1>10. SoleRegistered'
  BY <1>1, <1>2, <1>3, <1>4, <1>5, <1>6 DEF SoleRegistered
<1>11. QED
  BY <1>7, <1>8, <1>9, <1>10 DEF IInv

(* The steps that leave the registry, the tasks and the aliases alone.     *)
LEMMA QuietStep ==
    ASSUME IInv, TypeOK',
           UNCHANGED <<conn, peers, alias, task, dialing, failed, accepting>>
    PROVE  IInv'
<1>1. /\ Opened' = Opened
      /\ \A k, a : Ends(k)' = Ends(k) /\ Other(k, a)' = Other(k, a)
      /\ \A k : Sole(k)' <=> Sole(k)
  BY SameEnds
<1>2. AliasTrue' /\ EntryAlias' /\ EntryHasReader' /\ SoleRegistered'
  BY <1>1 DEF IInv, AliasTrue, EntryAlias, EntryHasReader, SoleRegistered
<1>3. NotBegun'
  <2>1. \A k : k \in Opened' <=> k \in Opened
    BY <1>1
  <2>2. QED
    BY <2>1 DEF IInv, NotBegun
<1>4. QED
  BY <1>2, <1>3 DEF IInv
-----------------------------------------------------------------------------
LEMMA IInvInitial == ASSUME Init PROVE IInv
<1>1. TypeOK
  BY TypeInitial
<1>2. AliasTrue /\ NotBegun /\ SoleRegistered
  BY EndsOf, <1>1 DEF Init, AliasTrue, NotBegun, SoleRegistered, Opened
<1>3. EntryAlias /\ EntryHasReader
  BY DEF Init, EntryAlias, EntryHasReader
<1>4. QED
  BY <1>1, <1>2, <1>3 DEF IInv

LEMMA IInvStep == ASSUME IInv, [Next]_vars PROVE IInv'
<1>1. TypeOK /\ TypeOK'
  BY TypeStep DEF IInv
<1>2. ASSUME NEW c \in Opened, NEW d \in Ends(c), ReadLoop(c, d)
      PROVE  IInv'
  <2>1. UNCHANGED <<conn, dialing, failed, accepting>>
    BY <1>2, LoopKeeps
  <2>2. CASE task[c][d] = "dropped" /\ Cancelled(c, d)
    BY <1>1, <1>2, <2>1, <2>2, DroppedStep DEF Cancelled
  <2>3. CASE ~ (task[c][d] = "dropped" /\ Cancelled(c, d))
    <3>1. PICK dict, t :
             /\ Outcome(c, d, dict, t) /\ Registering(c, d, dict)
             /\ task[c][d] \in Reader \/ (task[c][d] = "cancelled" /\ t = "done")
      BY <1>1, <1>2, <2>3, LoopSteps DEF ReadLoop, Cancelled
    <3>2. QED
      BY <1>1, <1>2, <2>1, <3>1, ReadStep
  <2>4. QED
    BY <2>2, <2>3
<1>3. ASSUME NEW d \in Daemons, Start(d) PROVE IInv'
  BY <1>1, <1>3, QuietStep DEF Start
<1>4. ASSUME NEW d \in Daemons, NEW e \in Daemons, NEW msg, SendToPeer(d, e, msg)
      PROVE  IInv'
  BY <1>1, <1>4, QuietStep DEF SendToPeer
<1>5. ASSUME NEW c \in Opened, Reset(c) PROVE IInv'
  BY <1>1, <1>5, QuietStep DEF Reset
<1>6. CASE UNCHANGED vars
  BY <1>1, <1>6, QuietStep DEF vars
<1>7. QED
  BY <1>1, <1>2, <1>3, <1>4, <1>5, <1>6, StopStep, DialStep, ConnectedStep, AcceptedStep
  DEF Next

(* No ghosts, whatever stops, resets and reconnections interleave: an entry*)
(* of _peers has a read loop that is still to run its finally clause,      *)
(* unless the connect_to_peer that made the entry raised.                  *)
THEOREM NoGhostEntries == Spec => []EntryHasReader
<1>1. IInv => EntryHasReader
  BY DEF IInv
<1>2. QED
  BY <1>1, IInvInitial, IInvStep, PTL DEF Spec

(* A pair of daemons that has only ever had one connection can send over   *)
(* it: each side that knows the other's alias keeps it registered until its*)
(* read loop ends, whatever the daemon's other connections do.             *)
THEOREM SoleConnectionStays == Spec => []SoleConnectionRegistered
<1>1. IInv => SoleConnectionRegistered
  BY DEF IInv, SoleRegistered, SoleConnectionRegistered, Sole, Live, Reader
<1>2. QED
  BY <1>1, IInvInitial, IInvStep, PTL DEF Spec

-----------------------------------------------------------------------------
(***************************************************************************)
(* The route search, for any finite graph, any balances, fees and amounts: *)
(* a route that is returned can be paid, and where fees never exceed what  *)
(* the channels have to spare the search misses nothing and returns a      *)
(* route with the fewest hops.                                             *)
(***************************************************************************)
(* Every nonempty set of naturals has a least element.                     *)
LEMMA LeastNat ==
  ASSUME NEW T \in SUBSET Nat, T # {}
  PROVE  \E n \in T : \A m \in T : n <= m
<1> DEFINE R == OpToRel(<, Nat)
<1>1. IsWellFoundedOn(R, Nat)
  BY NatLessThanWellFounded
<1>2. \A m, n \in Nat : <<m, n>> \in R <=> m < n
  BY DEF OpToRel
<1> HIDE DEF R
<1>3. PICK n \in T : \A m \in T : ~(<<m, n>> \in R)
  BY <1>1, WFMin
<1>4. \A m \in T : n \in Nat /\ m \in Nat /\ ~(m < n)
  BY <1>2, <1>3
<1> QED
  BY <1>4
-----------------------------------------------------------------------------
(***************************************************************************)
(* The heap order is a strict total order on paths, so that the heap of a  *)
(* finite search has a smallest entry.                                     *)
(***************************************************************************)
Paths == {p \in Seq(Nodes) : Len(p) >= 1}

LEMMA PathFacts ==
  ASSUME NEW p \in Paths
  PROVE  /\ Len(p) \in Nat /\ Len(p) >= 1 /\ DOMAIN p = 1..Len(p)
         /\ \A i \in 1..Len(p) : p[i] \in Nodes /\ p[i] \in Nat
         /\ Current(p) \in Nodes /\ Current(p) \in Nat
         /\ p \in Seq(Nodes)
<1>1. p \in Seq(Nodes) /\ Len(p) \in Nat /\ Len(p) >= 1 /\ DOMAIN p = 1..Len(p)
  BY DEF Paths
<1>2. \A i \in 1..Len(p) : p[i] \in Nodes
  BY <1>1
<1>3. Nodes \subseteq Nat
  BY RoutingAssumption
<1>4. Len(p) \in 1..Len(p)
  BY <1>1
<1>5. Current(p) \in Nodes
  BY <1>2, <1>4 DEF Current
<1> QED
  BY <1>1, <1>2, <1>3, <1>5

LEMMA FirstDifference ==
  ASSUME NEW p \in Paths, NEW q \in Paths, Len(p) = Len(q), p # q
  PROVE  \E i \in 1..Len(p) : p[i] # q[i] /\ \A j \in 1..i - 1 : p[j] = q[j]
<1> DEFINE T == {i \in 1..Len(p) : p[i] # q[i]}
<1>1. T # {}
  <2>1. p = [i \in 1..Len(p) |-> p[i]] /\ q = [i \in 1..Len(p) |-> q[i]]
    BY DEF Paths
  <2> QED
    BY <2>1
<1>2. T \in SUBSET Nat
  OBVIOUS
<1>3. PICK i \in T : \A m \in T : i <= m
  BY <1>1, <1>2, LeastNat
<1>4. i \in 1..Len(p) /\ p[i] # q[i] /\ Len(p) \in Nat
  BY PathFacts
<1>5. \A j \in 1..i - 1 : j \in 1..Len(p) /\ ~(i <= j)
  BY <1>4
<1> QED
  BY <1>3, <1>4, <1>5

LEMMA OrderTotal ==
  ASSUME NEW p \in Paths, NEW q \in Paths, p # q
  PROVE  Precedes(p, q) \/ Precedes(q, p)
<1>1. /\ Len(p) \in Nat /\ Len(q) \in Nat /\ Current(p) \in Nat /\ Current(q) \in Nat
      /\ \A i \in 1..Len(p) : p[i] \in Nat
      /\ \A i \in 1..Len(q) : q[i] \in Nat
  BY PathFacts
<1>2. CASE Len(p) = Len(q) /\ Current(p) = Current(q)
  <2>1. PICK i \in 1..Len(p) : p[i] # q[i] /\ \A j \in 1..i - 1 : p[j] = q[j]
    BY <1>2, FirstDifference
  <2>2. p[i] < q[i] \/ q[i] < p[i]
    BY <1>1, <1>2, <2>1
  <2>3. PathLess(p, q) \/ PathLess(q, p)
    BY <1>2, <2>1, <2>2 DEF PathLess
  <2> QED
    BY <1>2, <2>3 DEF Precedes
<1> QED
  BY <1>1, <1>2 DEF Precedes

LEMMA PathLessTransitive ==
  ASSUME NEW p \in Paths, NEW q \in Paths, NEW r \in Paths,
         Len(p) = Len(q), Len(q) = Len(r), PathLess(p, q), PathLess(q, r)
  PROVE  PathLess(p, r)
<1>1. PICK i \in 1..Len(p) : p[i] < q[i] /\ \A j \in 1..i - 1 : p[j] = q[j]
  BY DEF PathLess
<1>2. PICK k \in 1..Len(p) : q[k] < r[k] /\ \A j \in 1..k - 1 : q[j] = r[j]
  BY DEF PathLess
<1>3. /\ Len(p) \in Nat /\ \A j \in 1..Len(p) : p[j] \in Nat /\ q[j] \in Nat /\ r[j] \in Nat
  BY PathFacts
<1>4. CASE i < k
  <2>1. p[i] < r[i] /\ \A j \in 1..i - 1 : p[j] = r[j]
    BY <1>1, <1>2, <1>3, <1>4
  <2> QED
    BY <2>1 DEF PathLess
<1>5. CASE i = k
  <2>1. p[i] < r[i] /\ \A j \in 1..i - 1 : p[j] = r[j]
    BY <1>1, <1>2, <1>3, <1>5
  <2> QED
    BY <2>1 DEF PathLess
<1>6. CASE k < i
  <2>1. p[k] < r[k] /\ \A j \in 1..k - 1 : p[j] = r[j]
    BY <1>1, <1>2, <1>3, <1>6
  <2> QED
    BY <2>1 DEF PathLess
<1> QED
  BY <1>1, <1>2, <1>4, <1>5, <1>6

LEMMA OrderTransitive ==
  ASSUME NEW p \in Paths, NEW q \in Paths, NEW r \in Paths,
         Precedes(p, q), Precedes(q, r)
  PROVE  Precedes(p, r)
<1>1. /\ Len(p) \in Nat /\ Len(q) \in Nat /\ Len(r) \in Nat
      /\ Current(p) \in Nat /\ Current(q) \in Nat /\ Current(r) \in Nat
  BY PathFacts
<1> QED
  BY <1>1, PathLessTransitive DEF Precedes

First(p, T) == p \in T /\ \A q \in T \ {p} : Precedes(p, q)

LEMMA FirstAdded ==
  ASSUME NEW T \in SUBSET Paths, NEW x \in T, NEW p, First(p, T \ {x})
  PROVE  \E q : First(q, T)
<1>1. p \in T /\ p # x /\ \A q \in (T \ {x}) \ {p} : Precedes(p, q)
  BY DEF First
<1>2. CASE Precedes(p, x)
  <2>1. First(p, T)
    BY <1>1, <1>2 DEF First
  <2> QED
    BY <2>1
<1>3. CASE Precedes(x, p)
  <2>1. First(x, T)
    BY <1>1, <1>3, OrderTransitive DEF First
  <2> QED
    BY <2>1
<1> QED
  BY <1>1, <1>2, <1>3, OrderTotal

LEMMA FirstExists ==
  ASSUME NEW Q \in SUBSET Paths, IsFiniteSet(Q), Q # {}
  PROVE  \E p : First(p, Q)
<1> DEFINE Lacks(T) == T # {} /\ ~ \E p : First(p, T)
           Sizes == {n \in Nat : \E T \in SUBSET Q : Cardinality(T) = n /\ Lacks(T)}
<1> SUFFICES ASSUME Lacks(Q) PROVE FALSE
  OBVIOUS
<1>1. Cardinality(Q) \in Sizes
  BY FS_CardinalityType
<1>2. PICK n \in Sizes : \A m \in Sizes : n <= m
  BY <1>1, LeastNat
<1>3. PICK T \in SUBSET Q : Cardinality(T) = n /\ Lacks(T)
  BY <1>2
<1>4. IsFiniteSet(T) /\ n \in Nat
  BY <1>2, FS_Subset
<1>5. PICK x : x \in T
  BY <1>3
<1>6. IsFiniteSet(T \ {x}) /\ Cardinality(T \ {x}) = n - 1
  BY <1>3, <1>4, <1>5, FS_RemoveElement
<1>7. n - 1 \in Nat
  BY <1>6, FS_CardinalityType
<1>8. ~ Lacks(T \ {x})
  <2>1. n - 1 \notin Sizes
    BY <1>2, <1>4
  <2>2. T \ {x} \in SUBSET Q
    OBVIOUS
  <2> QED
    BY <1>6, <1>7, <2>1, <2>2
<1>9. CASE T \ {x} = {}
  <2>1. First(x, T)
    BY <1>5, <1>9 DEF First
  <2> QED
    BY <1>3, <2>1
<1>10. CASE T \ {x} # {}
  <2>1. PICK p : First(p, T \ {x})
    BY <1>8, <1>10
  <2>2. \E q : First(q, T)
    BY <1>5, <2>1, FirstAdded
  <2> QED
    BY <1>3, <2>2
<1> QED
  BY <1>9, <1>10
-----------------------------------------------------------------------------
(***************************************************************************)
(* The backward pass: the amounts exist, are naturals and are the only ones*)
(* that grow by the fee due at each relay.                                 *)
(***************************************************************************)
Fee(a) == CalculateRoutingFee(a)

LEMMA FeeType ==
  ASSUME NEW a \in Nat
  PROVE  Fee(a) \in Nat
<1>1. BaseFee \in Nat /\ FeeRatePpm \in Nat
  BY RoutingAssumption
<1>2. a * FeeRatePpm \in Nat
  BY <1>1
<1> DEFINE x == a * FeeRatePpm
<1> HIDE DEF x
<1>3. x \div 1000000 \in Nat
  BY <1>2 DEF x
<1> QED
  BY <1>1, <1>3 DEF Fee, CalculateRoutingFee, x

Backward(n, A) == A = [i \in 1..n |-> IF i = n THEN Amount ELSE A[i + 1] + Fee(A[i + 1])]

(* The amounts of the hops k to n.                                         *)
Segment(n, k, g) ==
    /\ g \in [k..n -> Nat] /\ g[n] = Amount
    /\ \A i \in k..n : i # n => g[i] = g[i + 1] + Fee(g[i + 1])

LEMMA SegmentExtended ==
  ASSUME NEW n \in Nat, NEW k \in Nat, k + 1 <= n, NEW g, Segment(n, k + 1, g)
  PROVE  \E h : Segment(n, k, h)
<1> DEFINE h == [i \in k..n |-> IF i = k THEN g[k + 1] + Fee(g[k + 1]) ELSE g[i]]
<1>1. /\ \A i \in (k + 1)..n : g[i] \in Nat /\ (i # n => g[i] = g[i + 1] + Fee(g[i + 1]))
      /\ g[n] = Amount
  BY DEF Segment
<1>2. k + 1 \in (k + 1)..n /\ n \in k..n /\ n # k
  OBVIOUS
<1>3. g[k + 1] + Fee(g[k + 1]) \in Nat
  BY <1>1, <1>2, FeeType
<1>4. \A i \in k..n : i # k => i \in (k + 1)..n
  OBVIOUS
<1>5. h \in [k..n -> Nat]
  BY <1>1, <1>3, <1>4
<1>6. h[n] = Amount
  BY <1>1, <1>2
<1>7. ASSUME NEW i \in k..n, i # n
      PROVE  h[i] = h[i + 1] + Fee(h[i + 1])
  <2>1. i + 1 \in k..n /\ i + 1 # k /\ h[i + 1] = g[i + 1]
    BY <1>7
  <2>2. CASE i = k
    BY <2>1, <2>2
  <2>3. CASE i # k
    <3>1. i \in (k + 1)..n /\ h[i] = g[i]
      BY <1>4, <2>3
    <3> QED
      BY <1>1, <1>7, <2>1, <3>1
  <2> QED
    BY <2>2, <2>3
<1> HIDE DEF h
<1>8. Segment(n, k, h)
  BY <1>5, <1>6, <1>7 DEF Segment
<1> QED
  BY <1>8

LEMMA SegmentExists ==
  ASSUME NEW n \in Nat \ {0}
  PROVE  \E g : Segment(n, 1, g)
<1> DEFINE Fails == {d \in Nat : d < n /\ ~ \E g : Segment(n, n - d, g)}
<1>1. Amount \in Nat
  BY RoutingAssumption
<1>2. Fails = {}
  <2> SUFFICES ASSUME Fails # {} PROVE FALSE
    OBVIOUS
  <2>1. PICK d \in Fails : \A e \in Fails : d <= e
    BY LeastNat
  <2>2. d # 0
    <3> DEFINE g == [i \in n..n |-> Amount]
    <3>1. g \in [n..n -> Nat] /\ g[n] = Amount /\ \A i \in n..n : i = n
      BY <1>1
    <3> HIDE DEF g
    <3>2. Segment(n, n, g)
      BY <3>1 DEF Segment
    <3>3. n - 0 = n
      OBVIOUS
    <3> QED
      BY <3>2, <3>3
  <2>3. d \in Nat /\ d - 1 \in Nat /\ d - 1 < n /\ d - 1 \notin Fails
    BY <2>1, <2>2
  <2>4. PICK g : Segment(n, n - (d - 1), g)
    BY <2>3
  <2>5. n - (d - 1) = (n - d) + 1 /\ n - d \in Nat /\ (n - d) + 1 <= n
    BY <2>1, <2>2
  <2>6. \E h : Segment(n, n - d, h)
    BY <2>4, <2>5, SegmentExtended
  <2> QED
    BY <2>1, <2>6
<1>3. n - 1 \in Nat /\ n - 1 < n /\ n - (n - 1) = 1
  OBVIOUS
<1> QED
  BY <1>2, <1>3

LEMMA BackwardExists ==
  ASSUME NEW n \in Nat \ {0}
  PROVE  \E A : Backward(n, A)
<1>1. PICK g : Segment(n, 1, g)
  BY SegmentExists
<1>2. g = [i \in 1..n |-> g[i]]
  BY <1>1 DEF Segment
<1>3. \A i \in 1..n : g[i] = IF i = n THEN Amount ELSE g[i + 1] + Fee(g[i + 1])
  BY <1>1 DEF Segment
<1>4. Backward(n, g)
  BY <1>2, <1>3 DEF Backward
<1> QED
  BY <1>4

LEMMA BackwardFacts ==
  ASSUME NEW n \in Nat \ {0}, NEW A, Backward(n, A)
  PROVE  /\ DOMAIN A = 1..n /\ A[n] = Amount
         /\ \A i \in 1..n : A[i] \in Nat
         /\ \A i \in 1..n : i # n => A[i] = A[i + 1] + Fee(A[i + 1])
<1>1. /\ DOMAIN A = 1..n
      /\ \A i \in 1..n : A[i] = IF i = n THEN Amount ELSE A[i + 1] + Fee(A[i + 1])
  BY DEF Backward
<1>2. A[n] = Amount /\ \A i \in 1..n : i # n => A[i] = A[i + 1] + Fee(A[i + 1])
  BY <1>1
<1> DEFINE Bad == {d \in Nat : d < n /\ A[n - d] \notin Nat}
<1>3. Bad = {}
  <2> SUFFICES ASSUME Bad # {} PROVE FALSE
    OBVIOUS
  <2>1. PICK d \in Bad : \A e \in Bad : d <= e
    BY LeastNat
  <2>2. d # 0
    BY <1>2, RoutingAssumption
  <2>3. d \in Nat /\ d - 1 \in Nat /\ d - 1 < n /\ d - 1 \notin Bad
    BY <2>1, <2>2
  <2>4. A[n - (d - 1)] \in Nat /\ n - (d - 1) = (n - d) + 1
    BY <2>3
  <2>5. n - d \in 1..n /\ n - d # n
    BY <2>1, <2>2
  <2>6. A[n - d] = A[(n - d) + 1] + Fee(A[(n - d) + 1])
    BY <1>2, <2>5
  <2>7. A[(n - d) + 1] \in Nat
    BY <2>4
  <2>8. A[n - d] \in Nat
    BY <2>6, <2>7, FeeType
  <2> QED
    BY <2>1, <2>8
<1>4. ASSUME NEW i \in 1..n
      PROVE  A[i] \in Nat
  <2>1. n - i \in Nat /\ n - i < n /\ n - (n - i) = i
    OBVIOUS
  <2> QED
    BY <1>3, <2>1
<1> QED
  BY <1>1, <1>2, <1>4

LEMMA BackwardUnique ==
  ASSUME NEW n \in Nat \ {0}, NEW A, Backward(n, A), NEW b,
         b[n] = Amount, \A i \in 1..n : b[i] \in Int,
         \A i \in 1..n : i # n => b[i] - b[i + 1] = Fee(b[i + 1])
  PROVE  \A i \in 1..n : b[i] = A[i]
<1>1. /\ A[n] = Amount /\ \A i \in 1..n : A[i] \in Nat
      /\ \A i \in 1..n : i # n => A[i] = A[i + 1] + Fee(A[i + 1])
  BY BackwardFacts
<1> DEFINE Bad == {d \in Nat : d < n /\ b[n - d] # A[n - d]}
<1>2. Bad = {}
  <2> SUFFICES ASSUME Bad # {} PROVE FALSE
    OBVIOUS
  <2>1. PICK d \in Bad : \A e \in Bad : d <= e
    BY LeastNat
  <2>2. d # 0
    BY <1>1
  <2>3. d \in Nat /\ d - 1 \in Nat /\ d - 1 < n /\ d - 1 \notin Bad
    BY <2>1, <2>2
  <2>4. b[n - (d - 1)] = A[n - (d - 1)] /\ n - (d - 1) = (n - d) + 1
    BY <2>3
  <2>5. n - d \in 1..n /\ n - d # n /\ (n - d) + 1 \in 1..n
    BY <2>1, <2>2
  <2>6. /\ A[n - d] = A[(n - d) + 1] + Fee(A[(n - d) + 1])
        /\ b[n - d] - b[(n - d) + 1] = Fee(b[(n - d) + 1])
        /\ b[n - d] \in Int /\ A[n - d] \in Nat /\ A[(n - d) + 1] \in Nat
    BY <1>1, <2>5
  <2>7. b[(n - d) + 1] = A[(n - d) + 1]
    BY <2>4
  <2>8. Fee(A[(n - d) + 1]) \in Nat
    BY <2>6, FeeType
  <2>9. b[n - d] = A[n - d]
    BY <2>6, <2>7, <2>8
  <2> QED
    BY <2>1, <2>9
<1>3. ASSUME NEW i \in 1..n
      PROVE  b[i] = A[i]
  <2>1. n - i \in Nat /\ n - i < n /\ n - (n - i) = i
    OBVIOUS
  <2> QED
    BY <1>2, <2>1
<1> QED
  BY <1>3

LEMMA HopAmountsBackward ==
  ASSUME NEW p, HopCount(p) \in Nat \ {0}
  PROVE  Backward(HopCount(p), HopAmounts(p))
<1> DEFINE n == HopCount(p)
<1>1. HopAmounts(p) = CHOOSE A : Backward(n, A)
  BY DEF HopAmounts, Backward, Fee
<1>2. \E A : Backward(n, A)
  BY BackwardExists
<1> QED
  BY <1>1, <1>2
-----------------------------------------------------------------------------
(***************************************************************************)
(* The inductive invariant. The heap holds simple paths whose nodes but the*)
(* last were visited. Where fees never exceed what the channels can spare, *)
(* the first node of any path that was not visited is on the heap, with no *)
(* more hops than on that path: every visited node was reached by visited  *)
(* nodes in no more hops than any entry of the heap has.                   *)
(***************************************************************************)
Edge(u, v) == v \in Adj(u) /\ GetCapacity(u, v) >= Amount

Walk(p) ==
    /\ p \in Paths /\ p[1] = Source
    /\ \A i \in 1..Len(p) - 1 : Edge(p[i], p[i + 1])

Headroom == \A p \in CandidatePaths : Reaches(p) => Usable(p)

GraphOK == DOMAIN graph \in Topologies /\ graph \in [DOMAIN graph -> 0..Capacity]

QueueOK ==
    /\ IsFiniteSet(queue)
    /\ \A p \in queue : /\ Walk(p) /\ IsInjective(p)
                        /\ \A i \in 1..Len(p) - 1 : p[i] \in visited

VisitedOK == visited \subseteq Nodes \ {Target}

NextToVisit(p, i) == (\A j \in 1..i - 1 : p[j] \in visited) /\ p[i] \notin visited

Queued(v, n) == \E q \in queue : Current(q) = v /\ Len(q) <= n

Frontier ==
    status = "searching" =>
        \A p \in Paths : Walk(p) =>
            \A i \in 1..Len(p) : NextToVisit(p, i) => Queued(p[i], i)

ReachedEarly(w) ==
    \E r \in Paths : /\ Walk(r) /\ Current(r) = w
                     /\ \A i \in 1..Len(r) : r[i] \in visited
                     /\ \A q \in queue : Len(r) <= Len(q)

Reached == status = "searching" => \A w \in visited : ReachedEarly(w)

Result ==
    /\ status \in {"start", "searching", "found", "failed"}
    /\ status = "start" => queue = {} /\ visited = {}
    /\ status # "found" => route = NoRoute
    /\ status = "found" =>
          \E p \in Paths : /\ Walk(p) /\ IsInjective(p) /\ Current(p) = Target
                           /\ PathValid(p) /\ route = PaymentRoute(p)

RoutingIInv ==
    /\ GraphOK
    /\ QueueOK
    /\ VisitedOK
    /\ Result
    /\ Reached
    /\ Headroom => Frontier
    /\ CompleteWithHeadroom
-----------------------------------------------------------------------------
Extended(p, v, q) == q = Append(p, v)

LEMMA AppendFacts ==
  ASSUME NEW p \in Paths, NEW v \in Nodes, NEW q, Extended(p, v, q)
  PROVE  /\ q \in Paths /\ Len(q) = Len(p) + 1 /\ Current(q) = v
         /\ q[Len(p) + 1] = v
         /\ \A i \in 1..Len(p) : q[i] = p[i]
         /\ \A i \in 1..Len(q) : i \in 1..Len(p) \/ i = Len(p) + 1
<1>1. p \in Seq(Nodes) /\ Len(p) \in Nat /\ Len(p) >= 1
  BY PathFacts
<1>2. /\ q \in Seq(Nodes) /\ Len(q) = Len(p) + 1 /\ q[Len(p) + 1] = v
      /\ \A i \in 1..Len(p) : q[i] = p[i]
  BY <1>1 DEF Extended
<1> QED
  BY <1>1, <1>2 DEF Paths, Current

LEMMA WalkAppend ==
  ASSUME NEW p, Walk(p), NEW v \in Nodes, Edge(Current(p), v), NEW q, Extended(p, v, q)
  PROVE  Walk(q)
<1>1. p \in Paths /\ p[1] = Source /\ \A i \in 1..Len(p) - 1 : Edge(p[i], p[i + 1])
  BY DEF Walk
<1>2. /\ q \in Paths /\ Len(q) = Len(p) + 1 /\ q[Len(p) + 1] = v
      /\ \A i \in 1..Len(p) : q[i] = p[i]
  BY <1>1, AppendFacts
<1>3. Len(p) \in Nat /\ Len(p) >= 1
  BY <1>1, PathFacts
<1>4. ASSUME NEW i \in 1..Len(q) - 1
      PROVE  Edge(q[i], q[i + 1])
  <2>1. CASE i = Len(p)
    <3>1. q[i] = Current(p) /\ q[i + 1] = v
      BY <1>2, <1>3, <2>1 DEF Current
    <3> QED
      BY <3>1
  <2>2. CASE i # Len(p)
    <3>1. i \in 1..Len(p) - 1 /\ q[i] = p[i] /\ q[i + 1] = p[i + 1]
      BY <1>2, <1>3, <2>2
    <3> QED
      BY <1>1, <3>1
  <2> QED
    BY <2>1, <2>2
<1>5. q[1] = Source
  BY <1>1, <1>2, <1>3
<1> QED
  BY <1>2, <1>4, <1>5 DEF Walk

LEMMA InjectiveAppend ==
  ASSUME NEW p \in Paths, IsInjective(p), NEW v \in Nodes \ Range(p),
         NEW q, Extended(p, v, q)
  PROVE  IsInjective(q)
<1>1. /\ q \in Paths /\ q[Len(p) + 1] = v
      /\ \A i \in 1..Len(p) : q[i] = p[i]
      /\ \A i \in 1..Len(q) : i \in 1..Len(p) \/ i = Len(p) + 1
  BY AppendFacts
<1>2. DOMAIN q = 1..Len(q) /\ DOMAIN p = 1..Len(p)
  BY <1>1, PathFacts
<1>3. \A i, j \in 1..Len(p) : p[i] = p[j] => i = j
  BY <1>2 DEF IsInjective
<1>4. \A i \in 1..Len(p) : p[i] # v
  BY <1>2 DEF Range
<1>5. ASSUME NEW i \in 1..Len(q), NEW j \in 1..Len(q), q[i] = q[j]
      PROVE  i = j
  BY <1>1, <1>3, <1>4, <1>5
<1> QED
  BY <1>2, <1>5 DEF IsInjective

(* heappop: the entry popped has the fewest hops.                          *)
LEMMA PoppedFacts ==
  ASSUME QueueOK, queue # {}
  PROVE  /\ Popped \in queue /\ Walk(Popped) /\ Popped \in Paths
         /\ IsInjective(Popped)
         /\ \A i \in 1..Len(Popped) - 1 : Popped[i] \in visited
         /\ Current(Popped) \in Nodes
         /\ \A q \in queue : Len(Popped) <= Len(q)
<1>1. queue \subseteq Paths
  BY DEF QueueOK, Walk
<1>2. \E p \in queue : \A q \in queue \ {p} : Precedes(p, q)
  BY <1>1, FirstExists DEF QueueOK, First
<1>3. Popped \in queue /\ \A q \in queue \ {Popped} : Precedes(Popped, q)
  BY <1>2 DEF Popped
<1>4. \A q \in queue : Len(Popped) <= Len(q)
  <2> SUFFICES ASSUME NEW q \in queue PROVE Len(Popped) <= Len(q)
    OBVIOUS
  <2>1. Len(Popped) \in Nat /\ Len(q) \in Nat
    BY <1>1, <1>3, PathFacts
  <2>2. CASE q = Popped
    BY <2>1, <2>2
  <2>3. CASE q # Popped
    BY <1>3, <2>1, <2>3 DEF Precedes
  <2> QED
    BY <2>2, <2>3
<1>5. Current(Popped) \in Nodes
  BY <1>1, <1>3, PathFacts
<1> QED
  BY <1>1, <1>3, <1>4, <1>5 DEF QueueOK

LEMMA CandidateWalk ==
  ASSUME NEW p \in CandidatePaths, Reaches(p)
  PROVE  Walk(p) /\ Current(p) = Target
<1>1. PICK n \in 2..Cardinality(Nodes) : p \in [1..n -> Nodes]
  BY DEF CandidatePaths
<1>2. n \in Nat /\ n >= 2
  <2>1. Cardinality(Nodes) \in Nat
    BY RoutingAssumption, FS_CardinalityType
  <2> QED
    BY <2>1
<1>3. p \in Seq(Nodes) /\ Len(p) = n
  BY <1>1, <1>2
<1>4. /\ p[1] = Source /\ Current(p) = Target
      /\ \A i \in 1..HopCount(p) : p[i + 1] \in Adj(p[i])
  BY DEF CandidatePaths
<1>5. \A i \in 1..HopCount(p) : GetCapacity(p[i], p[i + 1]) >= Amount
  BY DEF Reaches
<1>6. HopCount(p) = Len(p) - 1
  BY DEF HopCount
<1> QED
  BY <1>2, <1>3, <1>4, <1>5, <1>6 DEF Walk, Paths, Edge

LEMMA WalkCandidate ==
  ASSUME NEW p, Walk(p), IsInjective(p), Current(p) = Target
  PROVE  p \in CandidatePaths /\ Reaches(p) /\ HopCount(p) \in Nat \ {0}
         /\ HopCount(p) = Len(p) - 1 /\ Len(p) >= 2
<1>1. /\ p \in Paths /\ p[1] = Source
      /\ \A i \in 1..Len(p) - 1 : Edge(p[i], p[i + 1])
  BY DEF Walk
<1>2. /\ Len(p) \in Nat /\ Len(p) >= 1 /\ DOMAIN p = 1..Len(p)
      /\ p \in Seq(Nodes) /\ \A i \in 1..Len(p) : p[i] \in Nodes
  BY <1>1, PathFacts
<1>3. Len(p) >= 2
  BY <1>1, <1>2, RoutingAssumption DEF Current
<1>4. HopCount(p) = Len(p) - 1
  BY DEF HopCount
<1>5. p \in [1..Len(p) -> Nodes]
  BY <1>2
<1>6. Len(p) <= Cardinality(Nodes)
  <2>1. p \in Injection(1..Len(p), Nodes)
    BY <1>2, <1>5 DEF Injection, IsInjective
  <2>2. IsFiniteSet(Nodes)
    BY RoutingAssumption
  <2>3. Cardinality(1..Len(p)) <= Cardinality(Nodes)
    BY <2>1, <2>2, FS_Injection
  <2>4. Cardinality(1..Len(p)) = Len(p)
    BY <1>2, FS_Interval
  <2> QED
    BY <2>3, <2>4
<1>7. Cardinality(Nodes) \in Nat
  BY RoutingAssumption, FS_CardinalityType
<1>8. Len(p) \in 2..Cardinality(Nodes)
  BY <1>2, <1>3, <1>6, <1>7
<1>9. \A i \in 1..HopCount(p) : /\ p[i + 1] \in Adj(p[i])
                                /\ GetCapacity(p[i], p[i + 1]) >= Amount
  BY <1>1, <1>4 DEF Edge
<1>10. p \in CandidatePaths
  BY <1>1, <1>5, <1>8, <1>9 DEF CandidatePaths
<1>11. HopCount(p) \in Nat \ {0}
  BY <1>2, <1>3, <1>4
<1> QED
  BY <1>3, <1>4, <1>9, <1>10, <1>11 DEF Reaches

(* A path that can be paid at all passes the backward pass.                *)
LEMMA UsableValid ==
  ASSUME NEW p, HopCount(p) \in Nat \ {0}, Usable(p)
  PROVE  PathValid(p)
<1> DEFINE n == HopCount(p)
<1>1. PICK amounts \in [1..n -> Amount..Capacity] : Affordable(p, amounts)
  BY DEF Usable
<1>2. /\ amounts[n] = Amount
      /\ \A i \in 1..n : amounts[i] <= GetCapacity(p[i], p[i + 1])
      /\ \A i \in 1..n - 1 : amounts[i] - amounts[i + 1] = Fee(amounts[i + 1])
  BY <1>1 DEF Affordable, Fee, CalculateRoutingFee
<1>3. \A i \in 1..n : amounts[i] \in Int
  BY <1>1, RoutingAssumption
<1>4. \A i \in 1..n : i # n => i \in 1..n - 1
  OBVIOUS
<1>5. Backward(n, HopAmounts(p))
  BY HopAmountsBackward
<1>6. \A i \in 1..n : i # n => amounts[i] - amounts[i + 1] = Fee(amounts[i + 1])
  BY <1>2, <1>4
<1> HIDE DEF n
<1>7. \A i \in 1..n : amounts[i] = HopAmounts(p)[i]
  BY <1>2, <1>3, <1>5, <1>6, BackwardUnique DEF n
<1>8. ASSUME NEW i \in 1..n
      PROVE  GetCapacity(p[i], p[i + 1]) >= HopAmounts(p)[i]
  BY <1>2, <1>7, <1>8
<1> QED
  BY <1>8 DEF PathValid, n
-----------------------------------------------------------------------------
(* The graph does not change, nor does what is said of it.                 *)
LEMMA GraphKept ==
  ASSUME UNCHANGED graph
  PROVE  /\ \A u, v : Edge(u, v)' <=> Edge(u, v)
         /\ \A p : Walk(p)' <=> Walk(p)
         /\ \A p : PathValid(p)' <=> PathValid(p)
         /\ \A p : Reaches(p)' <=> Reaches(p)
         /\ CandidatePaths' = CandidatePaths
         /\ Headroom' <=> Headroom
         /\ GraphOK' <=> GraphOK
<1>1. \A u : Adj(u)' = Adj(u)
  BY DEF Adj
<1>2. \A u, v : GetCapacity(u, v)' = GetCapacity(u, v)
  BY DEF GetCapacity
<1>3. \A u, v : Edge(u, v)' <=> Edge(u, v)
  BY <1>1, <1>2 DEF Edge
<1>4. \A p : Walk(p)' <=> Walk(p)
  BY <1>3 DEF Walk
<1>5. \A p : PathValid(p)' <=> PathValid(p)
  BY <1>2 DEF PathValid
<1>6. \A p : Reaches(p)' <=> Reaches(p)
  BY <1>2 DEF Reaches
<1>7. CandidatePaths' = CandidatePaths
  BY <1>1 DEF CandidatePaths
<1>8. \A p : Usable(p)' <=> Usable(p)
  BY <1>2 DEF Usable, Affordable
<1>9. Headroom' <=> Headroom
  BY <1>6, <1>7, <1>8 DEF Headroom
<1>10. GraphOK' <=> GraphOK
  BY DEF GraphOK
<1> QED
  BY <1>3, <1>4, <1>5, <1>6, <1>7, <1>9, <1>10

LEMMA CompleteKept ==
  ASSUME UNCHANGED <<graph, route>>, status' # "failed", status' # "found"
  PROVE  CompleteWithHeadroom'
BY DEF CompleteWithHeadroom
-----------------------------------------------------------------------------
LEMMA RoutingInitial == RoutingInit => RoutingIInv
<1> SUFFICES ASSUME RoutingInit PROVE RoutingIInv
  OBVIOUS
<1> USE DEF RoutingInit
<1>1. GraphOK
  BY DEF GraphOK
<1>2. QueueOK
  BY FS_EmptySet DEF QueueOK
<1>3. VisitedOK /\ Result /\ Reached /\ Frontier
  BY DEF VisitedOK, Result, Reached, Frontier
<1>4. CompleteWithHeadroom
  BY DEF CompleteWithHeadroom
<1> QED
  BY <1>1, <1>2, <1>3, <1>4 DEF RoutingIInv

LEMMA SourcePath ==
  /\ <<Source>> \in Paths /\ Len(<<Source>>) = 1 /\ <<Source>>[1] = Source
  /\ Current(<<Source>>) = Source /\ IsInjective(<<Source>>)
BY RoutingAssumption DEF Paths, Current, IsInjective

(* A path to the target leaves the source and enters the target.           *)
LEMMA CandidateInGraph ==
  ASSUME NEW p \in CandidatePaths, Reaches(p)
  PROVE  InGraph(Source) /\ InGraph(Target)
<1>1. /\ p \in Paths /\ p[1] = Source /\ Current(p) = Target
      /\ \A i \in 1..Len(p) - 1 : Edge(p[i], p[i + 1])
  BY CandidateWalk DEF Walk
<1>2. Len(p) \in Nat /\ Len(p) >= 1 /\ \A i \in 1..Len(p) : p[i] \in Nodes
  BY <1>1, PathFacts
<1>3. Len(p) # 1
  BY <1>1, RoutingAssumption DEF Current
<1>4. 1 \in 1..Len(p) - 1 /\ Len(p) - 1 \in 1..Len(p) - 1 /\ (Len(p) - 1) + 1 = Len(p)
  BY <1>2, <1>3
<1>5. Edge(p[1], p[1 + 1]) /\ Edge(p[Len(p) - 1], p[Len(p)])
  BY <1>1, <1>4
<1>6. p[1 + 1] \in Adj(Source)
  BY <1>1, <1>5 DEF Edge
<1>7. p[Len(p)] \in Adj(p[Len(p) - 1]) /\ p[Len(p)] = Target
  BY <1>1, <1>5 DEF Edge, Current
<1>8. p[Len(p) - 1] \in Adj(Target)
  BY <1>2, <1>4, <1>7 DEF Adj
<1> QED
  BY <1>6, <1>8 DEF InGraph

LEMMA StartStep ==
  ASSUME RoutingIInv, StartSearch
  PROVE  RoutingIInv'
<1> USE DEF RoutingIInv
<1>1. status = "start" /\ UNCHANGED <<graph, visited, route>>
      /\ queue = {} /\ visited = {} /\ route = NoRoute
  BY DEF StartSearch, Result
<1>2. GraphOK' /\ VisitedOK' /\ (Headroom' <=> Headroom)
  BY <1>1, GraphKept DEF VisitedOK
<1>3. CASE InGraph(Source) /\ InGraph(Target)
  <2>1. status' = "searching" /\ queue' = {<<Source>>}
    BY <1>3 DEF StartSearch
  <2>2. Walk(<<Source>>)'
    <3>1. Walk(<<Source>>)
      BY SourcePath DEF Walk
    <3> QED
      BY <1>1, <3>1, GraphKept
  <2>3. QueueOK'
    <3>1. IsFiniteSet(queue')
      BY <2>1, FS_Singleton
    <3> QED
      BY <2>1, <2>2, <3>1, SourcePath DEF QueueOK
  <2>4. Result' /\ Reached'
    BY <1>1, <2>1 DEF Result, Reached
  <2>5. Frontier'
    <3> SUFFICES ASSUME NEW p \in Paths, Walk(p)', NEW i \in 1..Len(p), NextToVisit(p, i)'
                 PROVE  Queued(p[i], i)'
      BY DEF Frontier
    <3>1. i = 1
      <4>1. \A j \in 1..i - 1 : FALSE
        BY <1>1 DEF NextToVisit
      <4>2. i \in Nat /\ i >= 1
        BY PathFacts
      <4> QED
        BY <4>1, <4>2
    <3>2. p[i] = Source
      BY <3>1 DEF Walk
    <3> QED
      BY <2>1, <3>1, <3>2, SourcePath DEF Queued
  <2>6. CompleteWithHeadroom'
    BY <1>1, <2>1, CompleteKept
  <2> QED
    BY <1>2, <2>3, <2>4, <2>5, <2>6
<1>4. CASE ~(InGraph(Source) /\ InGraph(Target))
  <2>1. status' = "failed" /\ queue' = queue
    BY <1>4 DEF StartSearch
  <2>2. QueueOK'
    BY <1>1, <2>1 DEF QueueOK
  <2>3. Result' /\ Reached' /\ Frontier'
    BY <1>1, <2>1 DEF Result, Reached, Frontier
  <2>4. \A p \in CandidatePaths : ~Reaches(p)
    BY <1>4, CandidateInGraph
  <2>5. CompleteWithHeadroom'
    BY <1>1, <2>1, <2>4, GraphKept DEF CompleteWithHeadroom
  <2> QED
    BY <1>2, <2>2, <2>3, <2>5
<1> QED
  BY <1>3, <1>4

(* With an empty heap, every path ends where it was visited.               *)
LEMMA Exhausted ==
  ASSUME Frontier, VisitedOK, status = "searching",
         NEW p \in CandidatePaths, Reaches(p)
  PROVE  \E i \in 1..Len(p) : Queued(p[i], i) /\ NextToVisit(p, i) /\ i <= Len(p)
<1>1. Walk(p) /\ Current(p) = Target /\ p \in Paths
  BY CandidateWalk DEF Walk
<1>2. Len(p) \in Nat /\ Len(p) \in 1..Len(p) /\ p[Len(p)] \notin visited
  BY <1>1, PathFacts DEF Current, VisitedOK
<1> DEFINE T == {i \in 1..Len(p) : p[i] \notin visited}
<1>3. PICK i \in T : \A j \in T : i <= j
  <2>1. T \in SUBSET Nat /\ T # {}
    BY <1>2
  <2> QED
    BY <2>1, LeastNat
<1>4. i \in 1..Len(p) /\ i <= Len(p)
  BY <1>2
<1>5. NextToVisit(p, i)
  <2>1. \A j \in 1..i - 1 : j \in 1..Len(p) /\ ~(i <= j)
    BY <1>2, <1>4
  <2> QED
    BY <1>3, <2>1 DEF NextToVisit
<1> QED
  BY <1>1, <1>4, <1>5 DEF Frontier

LEMMA GiveUpStep ==
  ASSUME RoutingIInv, GiveUp
  PROVE  RoutingIInv'
<1> USE DEF RoutingIInv
<1>1. /\ status = "searching" /\ queue = {} /\ status' = "failed"
      /\ UNCHANGED <<graph, queue, visited, route>>
  BY DEF GiveUp
<1>2. GraphOK' /\ VisitedOK' /\ (Headroom' <=> Headroom)
  BY <1>1, GraphKept DEF VisitedOK
<1>3. QueueOK' /\ Result' /\ Reached' /\ Frontier'
  BY <1>1 DEF QueueOK, Result, Reached, Frontier
<1>4. CompleteWithHeadroom'
  <2>1. ASSUME Headroom, NEW p \in CandidatePaths, Reaches(p)
        PROVE  FALSE
    BY <1>1, <2>1, Exhausted DEF Queued
  <2>2. Headroom => \A p \in CandidatePaths : ~Reaches(p)
    BY <2>1
  <2> QED
    BY <1>1, <1>2, <2>2, GraphKept DEF CompleteWithHeadroom, Headroom
<1> QED
  BY <1>2, <1>3, <1>4

(* An entry leaves the heap.                                               *)
LEMMA EntryGone ==
  ASSUME RoutingIInv, NEW x, queue' = queue \ {x}, UNCHANGED <<graph, visited>>
  PROVE  /\ GraphOK' /\ VisitedOK' /\ QueueOK' /\ (Headroom' <=> Headroom)
         /\ (status = "searching" => Reached')
<1> USE DEF RoutingIInv
<1>1. GraphOK' /\ VisitedOK' /\ (Headroom' <=> Headroom)
  BY GraphKept DEF VisitedOK
<1>2. QueueOK'
  <2>1. IsFiniteSet(queue')
    BY FS_RemoveElement DEF QueueOK
  <2>2. \A p : Walk(p)' <=> Walk(p)
    BY GraphKept
  <2> QED
    BY <2>1, <2>2 DEF QueueOK
<1>3. ASSUME status = "searching"
      PROVE  Reached'
  <2> SUFFICES ASSUME NEW w \in visited PROVE ReachedEarly(w)'
    BY DEF Reached
  <2>1. PICK r \in Paths : /\ Walk(r) /\ Current(r) = w
                           /\ \A i \in 1..Len(r) : r[i] \in visited
                           /\ \A q \in queue : Len(r) <= Len(q)
    BY <1>3 DEF Reached, ReachedEarly
  <2>2. Walk(r)'
    BY <2>1, GraphKept
  <2> QED
    BY <2>1, <2>2 DEF ReachedEarly
<1> QED
  BY <1>1, <1>2, <1>3

LEMMA SkipVisitedStep ==
  ASSUME RoutingIInv, SkipVisited
  PROVE  RoutingIInv'
<1> USE DEF RoutingIInv
<1>1. /\ status = "searching" /\ Current(Popped) \in visited
      /\ queue' = queue \ {Popped}
      /\ UNCHANGED <<graph, visited, status, route>>
  BY DEF SkipVisited
<1>2. GraphOK' /\ VisitedOK' /\ QueueOK' /\ Reached' /\ (Headroom' <=> Headroom)
  BY <1>1, EntryGone
<1>3. Result'
  BY <1>1 DEF Result
<1>4. ASSUME Frontier
      PROVE  Frontier'
  <2> SUFFICES ASSUME NEW p \in Paths, Walk(p)', NEW i \in 1..Len(p), NextToVisit(p, i)'
               PROVE  Queued(p[i], i)'
    BY DEF Frontier
  <2>1. Walk(p)
    BY <1>1, GraphKept
  <2>2. NextToVisit(p, i)
    BY <1>1 DEF NextToVisit
  <2>3. PICK q \in queue : Current(q) = p[i] /\ Len(q) <= i
    BY <1>1, <1>4, <2>1, <2>2 DEF Frontier, Queued
  <2>4. q # Popped
    BY <1>1, <2>2, <2>3 DEF NextToVisit
  <2> QED
    BY <1>1, <2>3, <2>4 DEF Queued
<1>5. CompleteWithHeadroom'
  BY <1>1, CompleteKept
<1> QED
  BY <1>2, <1>3, <1>4, <1>5

LEMMA ReachTargetStep ==
  ASSUME RoutingIInv, ReachTarget
  PROVE  RoutingIInv'
<1> USE DEF RoutingIInv
<1>1. /\ status = "searching" /\ queue # {} /\ Current(Popped) = Target
      /\ queue' = queue \ {Popped}
      /\ UNCHANGED <<graph, visited>>
  BY DEF ReachTarget
<1>2. /\ Popped \in queue /\ Walk(Popped) /\ IsInjective(Popped) /\ Popped \in Paths
      /\ \A q \in queue : Len(Popped) <= Len(q)
  BY <1>1, PoppedFacts
<1>3. GraphOK' /\ VisitedOK' /\ QueueOK' /\ Reached' /\ (Headroom' <=> Headroom)
  BY <1>1, EntryGone
<1>4. CASE PathValid(Popped)
  <2>1. status' = "found" /\ route' = PaymentRoute(Popped)
    BY <1>4 DEF ReachTarget
  <2>3. Result'
    <3>1. PICK p \in Paths : p = Popped
      BY <1>2
    <3>2. /\ Walk(p) /\ IsInjective(p) /\ Current(p) = Target
          /\ PathValid(p) /\ route' = PaymentRoute(p)
      BY <1>1, <1>2, <1>4, <2>1, <3>1
    <3>3. Walk(p)' /\ PathValid(p)'
      BY <1>1, <3>2, GraphKept
    <3> QED
      BY <2>1, <3>2, <3>3 DEF Result
  <2>4. Frontier'
    BY <2>1 DEF Frontier
  <2>5. CompleteWithHeadroom'
    <3>1. route'.path = Popped
      BY <2>1 DEF PaymentRoute
    <3>2. ASSUME Headroom, NEW p \in CandidatePaths, Reaches(p)
          PROVE  Len(Popped) <= Len(p)
      <4>1. PICK i \in 1..Len(p) : Queued(p[i], i) /\ i <= Len(p)
        BY <1>1, <3>2, Exhausted
      <4>2. PICK q \in queue : Len(q) <= i
        BY <4>1 DEF Queued
      <4>3. q \in Paths /\ p \in Paths
        BY <3>2, CandidateWalk DEF QueueOK, Walk
      <4>4. Len(q) \in Nat /\ Len(p) \in Nat /\ Len(Popped) \in Nat
        BY <1>2, <4>3, PathFacts
      <4> QED
        BY <1>2, <4>1, <4>2, <4>4
    <3>3. Headroom => \A p \in CandidatePaths : Reaches(p) => Len(Popped) <= Len(p)
      BY <3>2
    <3> QED
      BY <1>1, <1>3, <2>1, <3>1, <3>3, GraphKept DEF CompleteWithHeadroom, Headroom
  <2> QED
    BY <1>3, <2>3, <2>4, <2>5
<1>5. CASE ~PathValid(Popped)
  <2>1. UNCHANGED <<status, route>>
    BY <1>5 DEF ReachTarget
  <2>2. Result'
    BY <1>1, <2>1 DEF Result
  <2>3. ~Headroom
    <3>1. Popped \in CandidatePaths /\ Reaches(Popped) /\ HopCount(Popped) \in Nat \ {0}
      BY <1>1, <1>2, WalkCandidate
    <3> QED
      BY <1>5, <3>1, UsableValid DEF Headroom
  <2>4. CompleteWithHeadroom'
    BY <1>1, <2>1, CompleteKept
  <2> QED
    BY <1>3, <2>2, <2>3, <2>4
<1> QED
  BY <1>4, <1>5

(***************************************************************************)
(* The entry popped is expanded: its last node is visited, its neighbours  *)
(* with the amount are pushed behind it.                                   *)
(***************************************************************************)
NextNodes ==
    {v \in Adj(Current(Popped)) \ Range(Popped) : GetCapacity(Current(Popped), v) >= Amount}

Pushed == {Append(Popped, v) : v \in NextNodes}

LEMMA ExpandFacts ==
  ASSUME RoutingIInv, Expand
  PROVE  /\ status = "searching" /\ queue # {}
         /\ Current(Popped) \notin visited /\ Current(Popped) # Target
         /\ visited' = visited \cup {Current(Popped)}
         /\ queue' = (queue \ {Popped}) \cup Pushed
         /\ UNCHANGED <<graph, status, route>>
         /\ Popped \in queue /\ Walk(Popped) /\ Popped \in Paths
         /\ IsInjective(Popped) /\ Current(Popped) \in Nodes
         /\ \A q \in queue : Len(Popped) <= Len(q)
         /\ \A i \in 1..Len(Popped) : Popped[i] \in visited'
<1>1. /\ status = "searching" /\ queue # {}
      /\ Current(Popped) \notin visited /\ Current(Popped) # Target
      /\ visited' = visited \cup {Current(Popped)}
      /\ queue' = (queue \ {Popped}) \cup Pushed
      /\ UNCHANGED <<graph, status, route>>
  BY DEF Expand, Pushed, NextNodes
<1>2. /\ Popped \in queue /\ Walk(Popped) /\ Popped \in Paths
      /\ IsInjective(Popped) /\ Current(Popped) \in Nodes
      /\ \A q \in queue : Len(Popped) <= Len(q)
      /\ \A i \in 1..Len(Popped) - 1 : Popped[i] \in visited
  BY <1>1, PoppedFacts DEF RoutingIInv
<1>3. \A i \in 1..Len(Popped) : i \in 1..Len(Popped) - 1 \/ i = Len(Popped)
  BY <1>2, PathFacts
<1>4. \A i \in 1..Len(Popped) : Popped[i] \in visited'
  BY <1>1, <1>2, <1>3 DEF Current
<1> QED
  BY <1>1, <1>2, <1>4

LEMMA PushedFacts ==
  ASSUME RoutingIInv, Expand, NEW q \in Pushed
  PROVE  /\ Walk(q) /\ q \in Paths /\ IsInjective(q)
         /\ Len(q) = Len(Popped) + 1
         /\ \A i \in 1..Len(q) - 1 : q[i] \in visited'
<1> PICK v \in NextNodes : Extended(Popped, v, q)
  BY DEF Pushed, Extended
<1> DEFINE P == Popped
<1>1. v \in Adj(Current(P)) /\ v \notin Range(P) /\ GetCapacity(Current(P), v) >= Amount
  BY DEF NextNodes
<1>2. v \in Nodes \ Range(P) /\ Edge(Current(P), v)
  BY <1>1 DEF Adj, Edge
<1>3. /\ Walk(P) /\ P \in Paths /\ IsInjective(P)
      /\ \A i \in 1..Len(P) : P[i] \in visited'
  BY ExpandFacts
<1>4. Extended(P, v, q)
  OBVIOUS
<1> HIDE DEF P
<1>5. /\ q \in Paths /\ Len(q) = Len(P) + 1
      /\ \A i \in 1..Len(P) : q[i] = P[i]
  BY <1>2, <1>3, <1>4, AppendFacts
<1>6. Walk(q)
  BY <1>2, <1>3, <1>4, WalkAppend
<1>7. IsInjective(q)
  BY <1>2, <1>3, <1>4, InjectiveAppend
<1>8. \A i \in 1..Len(q) - 1 : i \in 1..Len(P)
  BY <1>3, <1>5, PathFacts
<1>9. \A i \in 1..Len(q) - 1 : q[i] \in visited'
  BY <1>3, <1>5, <1>8
<1> QED
  BY <1>5, <1>6, <1>7, <1>9 DEF P

(* What Expand pushes is what the paths through its node need.             *)
LEMMA PushedNeeded ==
  ASSUME RoutingIInv, Expand, NEW v, Edge(Current(Popped), v), v \notin visited'
  PROVE  \E q \in queue' : Current(q) = v /\ Len(q) = Len(Popped) + 1
<1> DEFINE P == Popped
<1>1. /\ P \in Paths /\ queue' = (queue \ {P}) \cup Pushed
      /\ \A i \in 1..Len(P) : P[i] \in visited'
  BY ExpandFacts
<1>2. v \in Adj(Current(P)) /\ GetCapacity(Current(P), v) >= Amount
  BY DEF Edge
<1>3. v \notin Range(P)
  <2>1. DOMAIN P = 1..Len(P)
    BY <1>1, PathFacts
  <2> QED
    BY <1>1, <2>1 DEF Range
<1>4. v \in NextNodes /\ v \in Nodes
  BY <1>2, <1>3 DEF NextNodes, Adj
<1>5. Append(P, v) \in Pushed /\ Extended(P, v, Append(P, v))
  BY <1>4 DEF Pushed, Extended
<1> DEFINE q == Append(P, v)
<1>6. q \in Pushed /\ Extended(P, v, q)
  BY <1>5
<1> HIDE DEF P, q
<1>7. Current(q) = v /\ Len(q) = Len(P) + 1
  BY <1>1, <1>4, <1>6, AppendFacts
<1> QED
  BY <1>1, <1>6, <1>7 DEF P

LEMMA ExpandQueue ==
  ASSUME RoutingIInv, Expand
  PROVE  QueueOK'
<1>1. /\ queue' = (queue \ {Popped}) \cup Pushed
      /\ visited' = visited \cup {Current(Popped)} /\ UNCHANGED graph
  BY ExpandFacts
<1>2. IsFiniteSet(queue')
  <2>1. IsFiniteSet(NextNodes)
    <3>1. NextNodes \in SUBSET Nodes
      BY DEF NextNodes, Adj
    <3>2. IsFiniteSet(Nodes)
      BY RoutingAssumption
    <3> QED
      BY <3>1, <3>2, FS_Subset
  <2> DEFINE f == [v \in NextNodes |-> Append(Popped, v)]
  <2>2. f \in Surjection(NextNodes, Pushed)
    BY DEF Surjection, Pushed
  <2> HIDE DEF f
  <2>3. IsFiniteSet(Pushed)
    BY <2>1, <2>2, FS_Surjection
  <2>4. IsFiniteSet(queue \ {Popped})
    BY FS_RemoveElement DEF RoutingIInv, QueueOK
  <2>5. IsFiniteSet((queue \ {Popped}) \cup Pushed)
    BY <2>3, <2>4, FS_Union
  <2> QED
    BY <1>1, <2>5
<1>3. ASSUME NEW p \in queue'
      PROVE  Walk(p) /\ IsInjective(p) /\ \A i \in 1..Len(p) - 1 : p[i] \in visited'
  <2>1. CASE p \in Pushed
    BY <2>1, PushedFacts
  <2>2. CASE p \in queue
    BY <1>1, <2>2 DEF RoutingIInv, QueueOK
  <2> QED
    BY <1>1, <2>1, <2>2
<1>4. \A p : Walk(p)' <=> Walk(p)
  BY <1>1, GraphKept
<1> QED
  BY <1>2, <1>3, <1>4 DEF QueueOK

LEMMA ExpandReached ==
  ASSUME RoutingIInv, Expand
  PROVE  Reached'
<1> DEFINE P == Popped
<1>1. /\ status = "searching" /\ UNCHANGED graph
      /\ visited' = visited \cup {Current(P)}
      /\ queue' = (queue \ {P}) \cup Pushed
      /\ P \in queue /\ Walk(P) /\ P \in Paths
      /\ \A q \in queue : Len(P) <= Len(q)
      /\ \A i \in 1..Len(P) : P[i] \in visited'
  BY ExpandFacts
<1>2. \A q \in Pushed : Len(q) = Len(P) + 1
  BY PushedFacts
<1>3. Len(P) \in Nat /\ \A q \in queue : Len(q) \in Nat
  BY <1>1, PathFacts DEF RoutingIInv, QueueOK, Walk
<1> HIDE DEF P
<1>4. \A q \in queue' : Len(P) <= Len(q)
  BY <1>1, <1>2, <1>3
<1> SUFFICES ASSUME NEW w \in visited' PROVE ReachedEarly(w)'
  BY DEF Reached
<1>5. CASE w = Current(P)
  <2>1. PICK c \in Paths : c = P
    BY <1>1
  <2>2. /\ Walk(c) /\ Current(c) = w
        /\ \A i \in 1..Len(c) : c[i] \in visited'
        /\ \A q \in queue' : Len(c) <= Len(q)
    BY <1>1, <1>4, <1>5, <2>1
  <2>3. Walk(c)'
    BY <1>1, <2>2, GraphKept
  <2> QED
    BY <2>2, <2>3 DEF ReachedEarly
<1>6. CASE w \in visited
  <2>1. PICK r \in Paths : /\ Walk(r) /\ Current(r) = w
                           /\ \A i \in 1..Len(r) : r[i] \in visited
                           /\ \A q \in queue : Len(r) <= Len(q)
    BY <1>1, <1>6 DEF RoutingIInv, Reached, ReachedEarly
  <2>2. Len(r) \in Nat /\ Len(r) <= Len(P)
    BY <1>1, <2>1, PathFacts
  <2>3. \A q \in queue' : Len(q) \in Nat /\ Len(r) <= Len(q)
    BY <1>1, <1>2, <1>3, <2>1, <2>2
  <2>4. Walk(r)'
    BY <1>1, <2>1, GraphKept
  <2>5. \A i \in 1..Len(r) : r[i] \in visited'
    BY <1>1, <2>1
  <2> QED
    BY <2>1, <2>3, <2>4, <2>5 DEF ReachedEarly
<1> QED
  BY <1>1, <1>5, <1>6

LEMMA ExpandFrontier ==
  ASSUME RoutingIInv, Expand, Frontier
  PROVE  Frontier'
<1> DEFINE P == Popped
           u == Current(P)
<1>1. /\ status = "searching" /\ UNCHANGED graph /\ u \notin visited
      /\ visited' = visited \cup {u}
      /\ queue' = (queue \ {P}) \cup Pushed
      /\ P \in queue /\ Walk(P) /\ P \in Paths
      /\ \A q \in queue : Len(P) <= Len(q)
  BY ExpandFacts
<1>2. Len(P) \in Nat /\ \A q \in queue : Len(q) \in Nat
  BY <1>1, PathFacts DEF RoutingIInv, QueueOK, Walk
<1>3. \A v : Edge(u, v) /\ v \notin visited' =>
        \E q \in queue' : Current(q) = v /\ Len(q) = Len(P) + 1
  BY PushedNeeded
<1> HIDE DEF P, u
<1> SUFFICES ASSUME NEW p \in Paths, Walk(p)', NEW i \in 1..Len(p), NextToVisit(p, i)'
             PROVE  Queued(p[i], i)'
  BY DEF Frontier
<1>4. Walk(p) /\ \A k \in 1..Len(p) - 1 : Edge(p[k], p[k + 1])
  BY <1>1, GraphKept DEF Walk
<1>5. /\ \A j \in 1..i - 1 : p[j] \in visited'
      /\ p[i] \notin visited'
  BY DEF NextToVisit
<1>6. Len(p) \in Nat /\ i \in Nat /\ i >= 1 /\ i <= Len(p)
  BY PathFacts
(* The node visited now is not on the path before i: the entry is there.   *)
<1>7. CASE \A j \in 1..i - 1 : p[j] # u
  <2>1. NextToVisit(p, i) /\ p[i] # u
    BY <1>1, <1>5, <1>7 DEF NextToVisit
  <2>2. PICK q \in queue : Current(q) = p[i] /\ Len(q) <= i
    BY <1>1, <1>4, <2>1 DEF Frontier, Queued
  <2>3. q # P
    BY <2>1, <2>2 DEF u
  <2> QED
    BY <1>1, <2>2, <2>3 DEF Queued
<1>8. CASE \E j \in 1..i - 1 : p[j] = u
  <2> DEFINE T == {j \in 1..i - 1 : p[j] = u}
  <2>1. PICK j \in T : \A k \in T : j <= k
    <3>1. T \in SUBSET Nat /\ T # {}
      BY <1>8
    <3> QED
      BY <3>1, LeastNat
  <2>2. j \in 1..i - 1 /\ p[j] = u /\ j \in 1..Len(p)
    BY <1>6, <2>1
  <2>3. NextToVisit(p, j)
    <3>1. \A k \in 1..j - 1 : k \in 1..i - 1 /\ ~(j <= k)
      BY <1>6, <2>2
    <3>2. \A k \in 1..j - 1 : p[k] \in visited
      BY <1>1, <1>5, <2>1, <3>1
    <3> QED
      BY <1>1, <2>2, <3>2 DEF NextToVisit
  <2>4. PICK q0 \in queue : Current(q0) = u /\ Len(q0) <= j
    BY <1>1, <1>4, <2>2, <2>3 DEF Frontier, Queued
  <2>5. Len(P) <= j /\ j \in Nat /\ j <= i - 1
    BY <1>1, <1>2, <1>6, <2>2, <2>4
  <2>6. i - 1 \in 1..Len(p) - 1 /\ (i - 1) + 1 = i /\ i - 1 \in 1..i - 1
    BY <1>6, <2>2
  <2>7. Edge(p[i - 1], p[i])
    BY <1>4, <2>6
  (* The node before i is the one visited now: its expansion pushes i.     *)
  <2>8. CASE p[i - 1] = u
    <3>1. PICK q \in queue' : Current(q) = p[i] /\ Len(q) = Len(P) + 1
      BY <1>3, <1>5, <2>7, <2>8
    <3>2. Len(q) <= i
      BY <1>2, <1>6, <2>5, <3>1
    <3> QED
      BY <3>1, <3>2 DEF Queued
  (* It was visited before, by a way of no more hops than the entry popped.*)
  <2>9. CASE p[i - 1] # u
    <3>1. p[i - 1] \in visited
      BY <1>1, <1>5, <2>6, <2>9
    <3>2. PICK r \in Paths : /\ Walk(r) /\ Current(r) = p[i - 1]
                             /\ \A k \in 1..Len(r) : r[k] \in visited
                             /\ \A q \in queue : Len(r) <= Len(q)
      BY <1>1, <3>1 DEF RoutingIInv, Reached, ReachedEarly
    <3>3. Len(r) \in Nat /\ Len(r) >= 1 /\ Len(r) <= Len(P)
      BY <1>1, <3>2, PathFacts
    <3>4. p[i] \in Nodes
      BY PathFacts
    <3> DEFINE t == Append(r, p[i])
               v == p[i]
    <3>5. Extended(r, v, t) /\ v \in Nodes /\ Edge(Current(r), v) /\ v \notin visited
      BY <1>1, <1>5, <2>7, <3>2, <3>4 DEF Extended
    <3> HIDE DEF t, v
    <3>6. /\ t \in Paths /\ Len(t) = Len(r) + 1 /\ t[Len(r) + 1] = v
          /\ \A k \in 1..Len(r) : t[k] = r[k]
      BY <3>2, <3>5, AppendFacts
    <3>7. Walk(t)
      BY <3>2, <3>5, WalkAppend
    <3>8. Len(r) + 1 \in 1..Len(t) /\ (Len(r) + 1) - 1 = Len(r)
      BY <3>3, <3>6
    <3>9. NextToVisit(t, Len(r) + 1)
      BY <3>2, <3>5, <3>6, <3>8 DEF NextToVisit
    <3>10. PICK q \in queue : Current(q) = v /\ Len(q) <= Len(r) + 1
      BY <1>1, <3>6, <3>7, <3>8, <3>9 DEF Frontier, Queued
    <3>11. Len(q) <= i
      BY <1>2, <1>6, <2>5, <3>3, <3>10
    <3>12. v # u /\ v = p[i]
      BY <1>1, <1>5 DEF v
    <3>13. q # P
      BY <3>10, <3>12 DEF u
    <3> QED
      BY <1>1, <3>10, <3>11, <3>12, <3>13 DEF Queued
  <2> QED
    BY <2>8, <2>9
<1> QED
  BY <1>7, <1>8

LEMMA ExpandStep ==
  ASSUME RoutingIInv, Expand
  PROVE  RoutingIInv'
<1> USE DEF RoutingIInv
<1>1. /\ status = "searching" /\ UNCHANGED <<graph, status, route>>
      /\ visited' = visited \cup {Current(Popped)}
      /\ Current(Popped) \in Nodes /\ Current(Popped) # Target
  BY ExpandFacts
<1>2. GraphOK' /\ (Headroom' <=> Headroom)
  BY <1>1, GraphKept
<1>3. VisitedOK'
  BY <1>1 DEF VisitedOK
<1>4. Result'
  BY <1>1 DEF Result
<1>5. CompleteWithHeadroom'
  BY <1>1, CompleteKept
<1> QED
  BY <1>2, <1>3, <1>4, <1>5, ExpandQueue, ExpandReached, ExpandFrontier

LEMMA RoutingStep == RoutingIInv /\ [RoutingNext]_routingVars => RoutingIInv'
<1> SUFFICES ASSUME RoutingIInv, [RoutingNext]_routingVars PROVE RoutingIInv'
  OBVIOUS
<1>1. CASE StartSearch
  BY <1>1, StartStep
<1>2. CASE ReachTarget
  BY <1>2, ReachTargetStep
<1>3. CASE SkipVisited
  BY <1>3, SkipVisitedStep
<1>4. CASE Expand
  BY <1>4, ExpandStep
<1>5. CASE GiveUp
  BY <1>5, GiveUpStep
<1>6. CASE UNCHANGED routingVars
  <2>1. UNCHANGED <<graph, queue, visited, status, route>>
    BY <1>6 DEF routingVars
  <2>2. /\ GraphOK' /\ (Headroom' <=> Headroom) /\ CandidatePaths' = CandidatePaths
        /\ \A p : Walk(p)' <=> Walk(p)
        /\ \A p : PathValid(p)' <=> PathValid(p)
        /\ \A p : Reaches(p)' <=> Reaches(p)
    BY <2>1, GraphKept DEF RoutingIInv
  <2>3. QueueOK' /\ VisitedOK' /\ Result'
    BY <2>1, <2>2 DEF RoutingIInv, QueueOK, VisitedOK, Result
  <2>4. Reached'
    BY <2>1, <2>2 DEF RoutingIInv, Reached, ReachedEarly
  <2>5. Headroom' => Frontier'
    BY <2>1, <2>2 DEF RoutingIInv, Frontier, NextToVisit, Queued
  <2>6. CompleteWithHeadroom'
    BY <2>1, <2>2 DEF RoutingIInv, CompleteWithHeadroom, Headroom
  <2> QED
    BY <2>2, <2>3, <2>4, <2>5, <2>6 DEF RoutingIInv
<1> QED
  BY <1>1, <1>2, <1>3, <1>4, <1>5, <1>6 DEF RoutingNext

(***************************************************************************)
(* The search keeps the inductive invariant, whatever the graph.           *)
(***************************************************************************)
THEOREM RoutingInvariance == RoutingSpec => []RoutingIInv
<1>1. RoutingInit => RoutingIInv
  BY RoutingInitial
<1>2. RoutingIInv /\ [RoutingNext]_routingVars => RoutingIInv'
  BY RoutingStep
<1> QED
  BY <1>1, <1>2, PTL DEF RoutingSpec
-----------------------------------------------------------------------------
(***************************************************************************)
(* find_route: the heap holds simple paths out of the source, the target   *)
(* is never expanded, and a route is returned exactly when the search ends *)
(* well.                                                                   *)
(***************************************************************************)
THEOREM RoutingTypeCorrect == RoutingSpec => []RoutingTypeOK
<1>1. ASSUME RoutingIInv PROVE RoutingTypeOK
  <2>1. \A p \in queue : p[1] = Source /\ Range(p) \subseteq Nodes /\ IsInjective(p)
    <3> SUFFICES ASSUME NEW p \in queue
                 PROVE  p[1] = Source /\ Range(p) \subseteq Nodes /\ IsInjective(p)
      OBVIOUS
    <3>1. p \in Paths /\ p[1] = Source /\ IsInjective(p)
      BY <1>1 DEF RoutingIInv, QueueOK, Walk
    <3>2. Range(p) \subseteq Nodes
      BY <3>1, PathFacts DEF Range
    <3> QED
      BY <3>1, <3>2
  <2>2. status = "found" => route # NoRoute
    <3> SUFFICES ASSUME status = "found" PROVE route # NoRoute
      OBVIOUS
    <3>1. PICK p \in Paths : route = PaymentRoute(p)
      BY <1>1 DEF RoutingIInv, Result
    <3>2. route.path = p /\ Len(p) >= 1
      BY <3>1 DEF PaymentRoute, Paths
    <3>3. NoRoute.path = <<>> /\ Len(<<>>) = 0
      BY DEF NoRoute
    <3> QED
      BY <3>2, <3>3
  <2> QED
    BY <1>1, <2>1, <2>2 DEF RoutingIInv, GraphOK, VisitedOK, Result, RoutingTypeOK
<1> QED
  BY <1>1, RoutingInvariance, PTL

(* The route of a valid path to the target is one that can be paid.        *)
LEMMA ValidRoute ==
  ASSUME NEW p, Walk(p), IsInjective(p), Current(p) = Target, PathValid(p),
         route = PaymentRoute(p)
  PROVE  RouteSound
<1> DEFINE n == HopCount(p)
           A == HopAmounts(p)
<1>1. p \in CandidatePaths /\ n \in Nat \ {0}
  BY WalkCandidate
<1>2. Backward(n, A)
  BY <1>1, HopAmountsBackward
<1>3. /\ route.path = p /\ route.amounts = A
      /\ route.fees = [i \in 1..n |-> IF i = n THEN 0
                                      ELSE CalculateRoutingFee(A[i + 1])]
      /\ route.locktimes = [i \in 1..n |-> BaseLocktime + (n - i) * CltvDelta]
      /\ route.total = A[1] /\ route.total_fee = A[1] - Amount
  BY DEF PaymentRoute
<1>4. \A i \in 1..n : GetCapacity(p[i], p[i + 1]) >= A[i]
  BY DEF PathValid
<1>5. HopCount(route.path) = n
  BY <1>3
<1>6. /\ Amount \in Nat /\ BaseLocktime \in Nat /\ CltvDelta \in Nat
  BY RoutingAssumption
<1> HIDE DEF n, A
<1>7. /\ A[n] = Amount
      /\ \A i \in 1..n : A[i] \in Nat
      /\ \A i \in 1..n : i # n => A[i] = A[i + 1] + Fee(A[i + 1])
  BY <1>1, <1>2, BackwardFacts
<1>8. \A i \in 1..n - 1 : i \in 1..n /\ i + 1 \in 1..n /\ i # n
  BY <1>1
<1>9. \A i \in 1..n - 1 : A[i] - A[i + 1] = Fee(A[i + 1])
  <2> SUFFICES ASSUME NEW i \in 1..n - 1 PROVE A[i] - A[i + 1] = Fee(A[i + 1])
    OBVIOUS
  <2>1. A[i] = A[i + 1] + Fee(A[i + 1]) /\ A[i + 1] \in Nat
    BY <1>7, <1>8
  <2>2. Fee(A[i + 1]) \in Nat
    BY <2>1, FeeType
  <2> QED
    BY <2>1, <2>2
<1>10. Affordable(p, A)
  <2>1. \A i \in 1..n : A[i] <= GetCapacity(p[i], p[i + 1])
    BY <1>4
  <2>2. \A i \in 1..n - 1 : A[i] - A[i + 1] = BaseFee + (A[i + 1] * FeeRatePpm) \div 1000000
    BY <1>9 DEF Fee, CalculateRoutingFee
  <2> QED
    BY <1>7, <2>1, <2>2 DEF Affordable, n
<1>11. ASSUME NEW i \in 1..n - 1
       PROVE  /\ route.fees[i] = A[i] - A[i + 1]
              /\ route.locktimes[i] = route.locktimes[i + 1] + CltvDelta
  <2>1. route.fees[i] = Fee(A[i + 1])
    BY <1>3, <1>8 DEF Fee
  <2>2. /\ route.locktimes[i] = BaseLocktime + (n - i) * CltvDelta
        /\ route.locktimes[i + 1] = BaseLocktime + (n - (i + 1)) * CltvDelta
    BY <1>3, <1>8
  <2>3. (n - i) * CltvDelta = (n - (i + 1)) * CltvDelta + CltvDelta
    <3>1. n - i = (n - (i + 1)) + 1 /\ n - (i + 1) \in Int
      BY <1>1
    <3> DEFINE k == n - (i + 1)
    <3> HIDE DEF k
    <3>2. (k + 1) * CltvDelta = k * CltvDelta + CltvDelta
      BY <1>6, <3>1 DEF k
    <3> QED
      BY <3>1, <3>2 DEF k
  <2>4. (n - (i + 1)) * CltvDelta \in Int
    BY <1>1, <1>6
  <2>5. route.locktimes[i] = route.locktimes[i + 1] + CltvDelta
    BY <1>6, <2>2, <2>3, <2>4
  <2> QED
    BY <1>9, <2>1, <2>5
<1>12. route.locktimes[n] = BaseLocktime
  <2>1. n \in 1..n /\ n - n = 0 /\ 0 * CltvDelta = 0
    BY <1>1, <1>6
  <2>2. route.locktimes[n] = BaseLocktime + (n - n) * CltvDelta
    BY <1>3, <2>1
  <2> QED
    BY <1>6, <2>1, <2>2
<1>13. route.total = Amount + route.total_fee
  <2>1. A[1] \in Nat
    BY <1>1, <1>7
  <2> QED
    BY <1>3, <1>6, <2>1
<1> QED
  BY <1>1, <1>3, <1>5, <1>10, <1>11, <1>12, <1>13 DEF RouteSound

(***************************************************************************)
(* find_route and _calculate_payment_details: a route that is returned is  *)
(* a simple path along channels, every hop of it carries what the channel  *)
(* can bear with the fees due downstream, and every relay has its fee and  *)
(* its CltvDelta.                                                          *)
(***************************************************************************)
THEOREM RouteCanBePaid == RoutingSpec => []RouteSound
<1>1. ASSUME RoutingIInv PROVE RouteSound
  <2>1. CASE status = "found"
    <3>1. PICK p \in Paths : /\ Walk(p) /\ IsInjective(p) /\ Current(p) = Target
                             /\ PathValid(p) /\ route = PaymentRoute(p)
      BY <1>1, <2>1 DEF RoutingIInv, Result
    <3> QED
      BY <3>1, ValidRoute
  <2>2. CASE status # "found"
    BY <2>2 DEF RouteSound
  <2> QED
    BY <2>1, <2>2
<1> QED
  BY <1>1, RoutingInvariance, PTL

(***************************************************************************)
(* Where fees never exceed what the channels have to spare, find_route     *)
(* fails only if no path has the amount, and returns one with the fewest   *)
(* hops: dropping the entries of visited nodes loses nothing.              *)
(***************************************************************************)
THEOREM SearchComplete == RoutingSpec => []CompleteWithHeadroom
<1>1. RoutingIInv => CompleteWithHeadroom
  BY DEF RoutingIInv
<1> QED
  BY <1>1, RoutingInvariance, PTL
-----------------------------------------------------------------------------
(* What a pop of the search loop makes smaller.                            *)
Unvisited == Cardinality(Nodes \ visited)

Shrinks ==
    /\ Unvisited \in Nat /\ Cardinality(queue) \in Nat
    /\ \/ Unvisited' < Unvisited
       \/ Unvisited' = Unvisited /\ Cardinality(queue') < Cardinality(queue)

Progress ==
    \/ status = "start" /\ status' \in {"searching", "failed"}
    \/ status = "searching" /\ status' \in {"found", "failed"}
    \/ status = "searching" /\ status' = "searching" /\ Shrinks

LEMMA PopShrinks ==
  ASSUME RoutingIInv, queue # {}, queue' = queue \ {Popped}, visited' = visited
  PROVE  Shrinks
<1>1. IsFiniteSet(queue) /\ Popped \in queue
  BY PoppedFacts DEF RoutingIInv, QueueOK
<1>2. /\ Cardinality(queue) \in Nat
      /\ Cardinality(queue \ {Popped}) = Cardinality(queue) - 1
  BY <1>1, FS_CardinalityType, FS_RemoveElement
<1>3. IsFiniteSet(Nodes \ visited)
  BY RoutingAssumption, FS_Subset
<1>4. Unvisited \in Nat /\ Unvisited' = Unvisited
  BY <1>3, FS_CardinalityType DEF Unvisited
<1> QED
  BY <1>2, <1>4 DEF Shrinks

LEMMA VisitShrinks ==
  ASSUME RoutingIInv, queue # {}, Current(Popped) \notin visited,
         visited' = visited \cup {Current(Popped)}
  PROVE  Shrinks
<1> DEFINE v == Current(Popped)
<1>1. v \in Nodes \ visited /\ IsFiniteSet(queue)
  BY PoppedFacts DEF RoutingIInv, QueueOK
<1>2. IsFiniteSet(Nodes \ visited)
  BY RoutingAssumption, FS_Subset
<1>3. Nodes \ (visited \cup {v}) = (Nodes \ visited) \ {v}
  OBVIOUS
<1>4. /\ Cardinality(Nodes \ visited) \in Nat
      /\ Cardinality((Nodes \ visited) \ {v}) = Cardinality(Nodes \ visited) - 1
  BY <1>1, <1>2, FS_CardinalityType, FS_RemoveElement
<1>5. Unvisited \in Nat /\ Unvisited' < Unvisited
  <2>1. Nodes \ visited' = (Nodes \ visited) \ {v}
    BY <1>3
  <2>2. Unvisited \in Nat /\ Unvisited' = Unvisited - 1
    BY <1>4, <2>1 DEF Unvisited
  <2> QED
    BY <2>2
<1>6. Cardinality(queue) \in Nat
  BY <1>1, FS_CardinalityType
<1> QED
  BY <1>5, <1>6 DEF Shrinks

(***************************************************************************)
(* The loop of find_route cannot run for ever: every pop leaves fewer nodes*)
(* unvisited, or as many and fewer entries in the heap, or it ends the     *)
(* search, and both counts are natural numbers. That a search with work to *)
(* do goes on is the fairness in Terminates.                               *)
(***************************************************************************)
THEOREM SearchProgresses == RoutingSpec => [][Progress]_routingVars
<1>1. RoutingIInv /\ [RoutingNext]_routingVars => [Progress]_routingVars
  <2> SUFFICES ASSUME RoutingIInv, RoutingNext PROVE Progress
    OBVIOUS
  <2>1. CASE StartSearch
    BY <2>1 DEF StartSearch, Progress
  <2>2. CASE ReachTarget
    <3>1. /\ status = "searching" /\ queue # {} /\ queue' = queue \ {Popped}
          /\ visited' = visited /\ (status' = "found" \/ status' = status)
      BY <2>2 DEF ReachTarget
    <3>2. Shrinks
      BY <3>1, PopShrinks
    <3> QED
      BY <3>1, <3>2 DEF Progress
  <2>3. CASE SkipVisited
    <3>1. /\ status = "searching" /\ queue # {} /\ queue' = queue \ {Popped}
          /\ visited' = visited /\ status' = status
      BY <2>3 DEF SkipVisited
    <3>2. Shrinks
      BY <3>1, PopShrinks
    <3> QED
      BY <3>1, <3>2 DEF Progress
  <2>4. CASE Expand
    <3>1. /\ status = "searching" /\ queue # {} /\ status' = status
          /\ Current(Popped) \notin visited
          /\ visited' = visited \cup {Current(Popped)}
      BY <2>4 DEF Expand
    <3>2. Shrinks
      BY <3>1, VisitShrinks
    <3> QED
      BY <3>1, <3>2 DEF Progress
  <2>5. CASE GiveUp
    BY <2>5 DEF GiveUp, Progress
  <2> QED
    BY <2>1, <2>2, <2>3, <2>4, <2>5 DEF RoutingNext
<1> QED
  BY <1>1, RoutingInvariance, PTL DEF RoutingSpec
=============================================================================
