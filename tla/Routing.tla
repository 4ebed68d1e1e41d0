------------------------------- MODULE Routing -------------------------------
(***************************************************************************)
(* network/routing.py: DijkstraRoutingStrategy.find_route on a             *)
(* NetworkGraph, one pass of its while loop per step. Init chooses the     *)
(* channels in the graph and how each is split between its two sides.      *)
(*                                                                         *)
(* Aliases are numbers, in the order of the strings. A heap entry is its   *)
(* path: the cost is the length of the path, the current node its last one.*)
(***************************************************************************)
EXTENDS Integers, Sequences, FiniteSets, Functions

CONSTANTS
    Nodes,       \* aliases, as numbers
    Topologies,  \* the sets of channels <<sender, receiver>> to search in
    Capacity,    \* capacity_sat of every channel
    Source, Target,
    Amount,      \* amount_sat
    BaseFee,     \* base_fee_sat
    FeeRatePpm,  \* fee_rate_ppm
    BaseLocktime, CltvDelta

ASSUME RoutingAssumption ==
    /\ Nodes \subseteq Nat /\ IsFiniteSet(Nodes)
    /\ Source \in Nodes /\ Target \in Nodes /\ Source # Target
    /\ \A T \in Topologies : \A l \in T :
          l \in Nodes \X Nodes /\ l[1] # l[2] /\ <<l[2], l[1]>> \notin T
    /\ {Capacity, Amount, BaseFee, FeeRatePpm, BaseLocktime, CltvDelta} \subseteq Nat

VARIABLES
    graph,    \* channel -> balance_sender_sat
    queue,    \* the heap
    visited,
    status,   \* "start", "searching", "found" or "failed"
    route     \* the PaymentRoute returned

routingVars == <<graph, queue, visited, status, route>>

NoRoute == [path |-> <<>>, amounts |-> <<>>, fees |-> <<>>, locktimes |-> <<>>,
            total |-> 0, total_fee |-> 0]

Adj(u) == {v \in Nodes : <<u, v>> \in DOMAIN graph \/ <<v, u>> \in DOMAIN graph}

InGraph(u) == Adj(u) # {}

(* get_capacity: the side of the channel that u owns.                      *)
GetCapacity(u, v) ==
    IF <<u, v>> \in DOMAIN graph THEN graph[<<u, v>>]
    ELSE IF <<v, u>> \in DOMAIN graph THEN Capacity - graph[<<v, u>>]
    ELSE 0

CalculateRoutingFee(amount) == BaseFee + (amount * FeeRatePpm) \div 1000000
-----------------------------------------------------------------------------
(***************************************************************************)
(* The backward pass over a path that reached the target: each hop carries *)
(* what the next one does and the fee of the relay between them.           *)
(***************************************************************************)
HopCount(path) == Len(path) - 1

(* A mutation: every relay charges on the amount paid, not on what it sends.*)
HopAmountsFlat(path) ==
    LET n == HopCount(path)
        A[i \in 1..n] == IF i = n THEN Amount
                         ELSE A[i + 1] + CalculateRoutingFee(Amount)
    IN A

HopAmounts(path) ==
    LET n == HopCount(path)
        A[i \in 1..n] == IF i = n THEN Amount
                         ELSE A[i + 1] + CalculateRoutingFee(A[i + 1])
    IN A

(* A mutation: the capacity is compared with the amount without the fee.   *)
PathValidWithoutFee(path) ==
    \A i \in 1..HopCount(path) :
        GetCapacity(path[i], path[i + 1]) >=
            IF i = HopCount(path) THEN Amount ELSE HopAmounts(path)[i + 1]

PathValid(path) ==
    \A i \in 1..HopCount(path) :
        GetCapacity(path[i], path[i + 1]) >= HopAmounts(path)[i]

PaymentRoute(path) ==
    LET n == HopCount(path)
        amounts == HopAmounts(path)
    IN [path |-> path,
        amounts |-> amounts,
        fees |-> [i \in 1..n |-> IF i = n THEN 0
                                 ELSE CalculateRoutingFee(amounts[i + 1])],
        locktimes |-> [i \in 1..n |-> BaseLocktime + (n - i) * CltvDelta],
        total |-> amounts[1],
        total_fee |-> amounts[1] - Amount]
-----------------------------------------------------------------------------
(***************************************************************************)
(* heappop returns the smallest (cost, alias, path) tuple.                 *)
(***************************************************************************)
Current(path) == path[Len(path)]

PathLess(p, q) ==
    \E i \in 1..Len(p) : p[i] < q[i] /\ \A j \in 1..i - 1 : p[j] = q[j]

Precedes(p, q) ==
    \/ Len(p) < Len(q)
    \/ Len(p) = Len(q) /\ Current(p) < Current(q)
    \/ Len(p) = Len(q) /\ Current(p) = Current(q) /\ PathLess(p, q)

(* A mutation: the entry pushed last comes out first.                      *)
PoppedLongest == CHOOSE p \in queue : \A q \in queue \ {p} : Precedes(q, p)

Popped == CHOOSE p \in queue : \A q \in queue \ {p} : Precedes(p, q)

RoutingTypeOK ==
    /\ DOMAIN graph \in Topologies /\ graph \in [DOMAIN graph -> 0..Capacity]
    /\ \A p \in queue : p[1] = Source /\ Range(p) \subseteq Nodes /\ IsInjective(p)
    /\ visited \subseteq Nodes \ {Target}
    /\ status \in {"start", "searching", "found", "failed"}
    /\ status = "found" <=> route # NoRoute

RoutingInit ==
    /\ \E T \in Topologies : graph \in [T -> 0..Capacity]
    /\ queue = {}
    /\ visited = {}
    /\ status = "start"
    /\ route = NoRoute

(* RouteNotFoundError at once when an endpoint is not in the graph.        *)
StartSearch ==
    /\ status = "start"
    /\ IF InGraph(Source) /\ InGraph(Target)
       THEN status' = "searching" /\ queue' = {<<Source>>}
       ELSE status' = "failed" /\ UNCHANGED queue
    /\ UNCHANGED <<graph, visited, route>>

ReachTarget ==
    /\ status = "searching" /\ queue # {}
    /\ Current(Popped) = Target
    /\ queue' = queue \ {Popped}
    /\ IF PathValid(Popped)
       THEN status' = "found" /\ route' = PaymentRoute(Popped)
       ELSE UNCHANGED <<status, route>>
    /\ UNCHANGED <<graph, visited>>

(* A mutation: an entry whose node was visited stays in the heap.          *)
SkipVisitedKeeps ==
    /\ status = "searching" /\ queue # {}
    /\ Current(Popped) \in visited
    /\ UNCHANGED routingVars

SkipVisited ==
    /\ status = "searching" /\ queue # {}
    /\ Current(Popped) \in visited
    /\ queue' = queue \ {Popped}
    /\ UNCHANGED <<graph, visited, status, route>>

(* A mutation: a channel with exactly the amount is not used.              *)
ExpandStrict ==
    /\ status = "searching" /\ queue # {}
    /\ Current(Popped) \notin visited \cup {Target}
    /\ visited' = visited \cup {Current(Popped)}
    /\ LET next == {v \in Adj(Current(Popped)) \ Range(Popped) :
                       GetCapacity(Current(Popped), v) > Amount}
       IN queue' = (queue \ {Popped}) \cup {Append(Popped, v) : v \in next}
    /\ UNCHANGED <<graph, status, route>>

(* A mutation: cycles are not avoided.                                     *)
ExpandCyclic ==
    /\ status = "searching" /\ queue # {}
    /\ Current(Popped) \notin visited \cup {Target}
    /\ visited' = visited \cup {Current(Popped)}
    /\ LET next == {v \in Adj(Current(Popped)) :
                       GetCapacity(Current(Popped), v) >= Amount}
       IN queue' = (queue \ {Popped}) \cup {Append(Popped, v) : v \in next}
    /\ UNCHANGED <<graph, status, route>>

Expand ==
    /\ status = "searching" /\ queue # {}
    /\ Current(Popped) \notin visited \cup {Target}
    /\ visited' = visited \cup {Current(Popped)}
    /\ LET next == {v \in Adj(Current(Popped)) \ Range(Popped) :
                       GetCapacity(Current(Popped), v) >= Amount}
       IN queue' = (queue \ {Popped}) \cup {Append(Popped, v) : v \in next}
    /\ UNCHANGED <<graph, status, route>>

GiveUp ==
    /\ status = "searching" /\ queue = {}
    /\ status' = "failed"
    /\ UNCHANGED <<graph, queue, visited, route>>

RoutingNext == StartSearch \/ ReachTarget \/ SkipVisited \/ Expand \/ GiveUp

RoutingSpec == RoutingInit /\ [][RoutingNext]_routingVars /\ WF_routingVars(RoutingNext)
-----------------------------------------------------------------------------
(* The reference: every simple path along channels, and what it takes to   *)
(* use it.                                                                 *)
CandidatePaths ==
    {p \in UNION {[1..n -> Nodes] : n \in 2..Cardinality(Nodes)} :
        /\ p[1] = Source /\ Current(p) = Target /\ IsInjective(p)
        /\ \A i \in 1..HopCount(p) : p[i + 1] \in Adj(p[i])}

(* Each channel of the path has the amount paid, fees not counted.         *)
Reaches(p) == \A i \in 1..HopCount(p) : GetCapacity(p[i], p[i + 1]) >= Amount

(* What the hops of p carry, from the payer: a relay sends on what it gets *)
(* less the fee it takes on what it sends.                                 *)
Affordable(p, amounts) ==
    /\ amounts[HopCount(p)] = Amount
    /\ \A i \in 1..HopCount(p) : amounts[i] <= GetCapacity(p[i], p[i + 1])
    /\ \A i \in 1..HopCount(p) - 1 :
          amounts[i] - amounts[i + 1] =
              BaseFee + (amounts[i + 1] * FeeRatePpm) \div 1000000

Usable(p) == \E amounts \in [1..HopCount(p) -> Amount..Capacity] :
                 Affordable(p, amounts)

(***************************************************************************)
(* A route that find_route returns can be paid: it is a simple path from   *)
(* the source to the target, every channel on it has what its hop carries  *)
(* with the fees due downstream, every relay earns its fee and has         *)
(* CltvDelta blocks between its two locktimes, and the totals are those of *)
(* the hops.                                                               *)
(***************************************************************************)
RouteSound ==
    status = "found" =>
        LET n == HopCount(route.path)
        IN /\ route.path \in CandidatePaths
           /\ Affordable(route.path, route.amounts)
           /\ \A i \in 1..n - 1 :
                 /\ route.fees[i] = route.amounts[i] - route.amounts[i + 1]
                 /\ route.locktimes[i] = route.locktimes[i + 1] + CltvDelta
           /\ route.locktimes[n] = BaseLocktime
           /\ route.total = Amount + route.total_fee

(***************************************************************************)
(* Where fees never exceed what the channels have to spare, the search     *)
(* misses nothing: it fails only if there is no path, and the route it     *)
(* returns has the fewest hops (the visited set prunes no shorter path).   *)
(***************************************************************************)
CompleteWithHeadroom ==
    (\A p \in CandidatePaths : Reaches(p) => Usable(p)) =>
        /\ status = "failed" => \A p \in CandidatePaths : ~Reaches(p)
        /\ status = "found" => \A p \in CandidatePaths :
                                   Reaches(p) => Len(route.path) <= Len(p)

(* Every search ends, with a route or with RouteNotFoundError.             *)
Terminates == <>(status \in {"found", "failed"})
=============================================================================
