--------------------------- MODULE PaymentNetwork ---------------------------
(***************************************************************************)
(* The nodes of domain/node.py and the channels they share, driven as      *)
(* cli/demos/routing.py and the tests drive them: the links are opened, a  *)
(* payee creates an invoice, the payer offers an HTLC on the first hop of  *)
(* the route, each relay offers the next one, the payee redeems with its   *)
(* preimage, each relay redeems upstream with the preimage it saw, and an  *)
(* offerer refunds an HTLC whose locktime has passed. Payments share the   *)
(* channels and every interleaving of their steps is allowed.              *)
(*                                                                         *)
(* Both nodes of a link hold the same Channel object in their channels     *)
(* dict, so channels maps a link to that object. An HTLC id is unique: the *)
(* payment and the hop. The locktimes of all the hops are computed from    *)
(* the height at which the payment started, as in run_simulate_demo.       *)
(*                                                                         *)
(* The code does not watch the chain for its users. Grace bounds, in       *)
(* blocks, how long a relay takes to refund an expired HTLC it offered or  *)
(* to redeem upstream after a redemption downstream; NewBlock waits for it.*)
(***************************************************************************)
EXTENDS ChannelOps, Sequences

CONSTANTS
    Nodes,
    Links,      \* the channels, as <<opener, peer>>
    Capacity,   \* capacity_sat of each
    Payments,
    Route,      \* Route[p]: the path of payment p, from payer to payee
    Amount,     \* Amount[p]: its amount_sat, the same on every hop
    Delta,      \* Delta[i]: the locktime of hop i, in blocks after the start
    Grace,
    MaxHeight   \* bound on the chain height

Hops(p) == 1..Len(Route[p]) - 1

HopIds == UNION {{p} \X Hops(p) : p \in Payments}

ASSUME NetworkAssumption ==
    /\ Links \subseteq Nodes \X Nodes
    /\ \A l \in Links : l[1] # l[2] /\ <<l[2], l[1]>> \notin Links
    /\ Capacity \in Nat
    /\ Route \in [Payments -> Seq(Nodes)]
    /\ \A p \in Payments : Len(Route[p]) >= 2 /\ IsInjective(Route[p])
    /\ Amount \in [Payments -> Nat]
    /\ MaxHeight \in Nat

(***************************************************************************)
(* The staggering of the hops: an upstream HTLC expires more than twice the*)
(* reaction time after any one downstream of it.                           *)
(***************************************************************************)
ASSUME StaggerAssumption ==
    /\ Grace \in Nat
    /\ \A p \in Payments : \A i \in Hops(p) :
          /\ Delta[i] \in Nat
          /\ \A j \in Hops(p) : i < j => Delta[j] + 2 * Grace < Delta[i]

VARIABLES
    channels,           \* link -> Channel object, once open
    known_preimages,    \* node -> the payments whose invoice it created
    revocation_secrets, \* <<node, peer>> -> the commitment numbers with a secret
    height,
    started,            \* payment -> the height its locktimes start from
    hop,                \* history: what became of each hop's HTLC
    redeemedAt          \* history: the height of each redemption

vars == <<channels, known_preimages, revocation_secrets, height, started,
          hop, redeemedAt>>

Link(n, m) == IF <<n, m>> \in Links THEN <<n, m>> ELSE <<m, n>>

HopLink(p, i) == Link(Route[p][i], Route[p][i + 1])

HasChannelWith(n, m) == Link(n, m) \in DOMAIN channels

Locktime(p, i) == started[p] + Delta[i]

TypeOK ==
    /\ DOMAIN channels \subseteq Links
    /\ \A l \in DOMAIN channels :
          /\ channels[l].balance \in [{l[1], l[2]} -> Nat]
          /\ Pending(channels[l]) \subseteq HopIds
    /\ known_preimages \in [Nodes -> SUBSET Payments]
    /\ height \in 0..MaxHeight
    /\ started \in [Payments -> 0..MaxHeight]
    /\ hop \in [HopIds -> {"none", "offered", "redeemed", "refunded"}]
    /\ redeemedAt \in [HopIds -> 0..MaxHeight]

Init ==
    /\ channels = [l \in {} |-> {}]
    /\ known_preimages = [n \in Nodes |-> {}]
    /\ revocation_secrets = [l \in {} |-> {}]
    /\ height = 0
    /\ started = [p \in Payments |-> 0]
    /\ hop = [h \in HopIds |-> "none"]
    /\ redeemedAt = [h \in HopIds |-> 0]
-----------------------------------------------------------------------------
(***************************************************************************)
(* open_channel makes a new object and empties the revocation secrets of   *)
(* both sides. It does not look for an existing channel: Next opens each   *)
(* link once, as one run of the program does.                              *)
(***************************************************************************)
Open(l) ==
    /\ channels' = [k \in DOMAIN channels \cup {l} |->
                       IF k = l THEN OpenChannel(l[1], l[2], Capacity)
                       ELSE channels[k]]
    /\ revocation_secrets' =
          [k \in DOMAIN revocation_secrets \cup {l, <<l[2], l[1]>>} |->
              IF k \in {l, <<l[2], l[1]>>} THEN {} ELSE revocation_secrets[k]]
    /\ UNCHANGED <<known_preimages, height, started, hop, redeemedAt>>

Payee(p) == Route[p][Len(Route[p])]

CreateInvoice(p) ==
    /\ p \notin known_preimages[Payee(p)]
    /\ known_preimages' = [known_preimages EXCEPT ![Payee(p)] = @ \cup {p}]
    /\ UNCHANGED <<channels, revocation_secrets, height, started, hop,
                   redeemedAt>>

(* A mutation: the secret is stored under the number of pending HTLCs.     *)
RouteHtlcPaymentReusesNumber(p, i, locktime) ==
    LET l == HopLink(p, i)
        n == Route[p][i]
        htlc == HTLCContract(Hash(p), Amount[p], locktime, n)
    IN /\ HasChannelWith(n, Route[p][i + 1])
       /\ CanAddHtlc(channels[l], htlc)
       /\ channels' = [channels EXCEPT ![l] = AddHtlc(@, <<p, i>>, htlc)]
       /\ revocation_secrets' =
             [revocation_secrets EXCEPT ![<<n, Route[p][i + 1]>>] =
                 @ \cup {Cardinality(Pending(channels'[l]))}]
       /\ hop' = [hop EXCEPT ![<<p, i>>] = "offered"]

(***************************************************************************)
(* route_htlc_payment of the i-th node of the route to the next one:       *)
(* get_channel_with, add_htlc, and a fresh revocation secret for the new   *)
(* commitment number.                                                      *)
(***************************************************************************)
RouteHtlcPayment(p, i, locktime) ==
    LET l == HopLink(p, i)
        n == Route[p][i]
        htlc == HTLCContract(Hash(p), Amount[p], locktime, n)
    IN /\ HasChannelWith(n, Route[p][i + 1])
       /\ CanAddHtlc(channels[l], htlc)
       /\ channels' = [channels EXCEPT ![l] = AddHtlc(@, <<p, i>>, htlc)]
       /\ revocation_secrets' =
             [revocation_secrets EXCEPT ![<<n, Route[p][i + 1]>>] =
                 @ \cup {channels'[l].sequence_number}]
       /\ hop' = [hop EXCEPT ![<<p, i>>] = "offered"]

StartPayment(p) ==
    /\ p \in known_preimages[Payee(p)]
    /\ hop[<<p, 1>>] = "none"
    /\ RouteHtlcPayment(p, 1, height + Delta[1])
    /\ started' = [started EXCEPT ![p] = height]
    /\ UNCHANGED <<known_preimages, height, redeemedAt>>

(* A mutation: the relay takes a locktime of its own.                      *)
ForwardPaymentUnstaggered(p, i) ==
    /\ hop[<<p, i>>] = "none"
    /\ hop[<<p, i - 1>>] = "offered"
    /\ RouteHtlcPayment(p, i, height + Delta[1])
    /\ UNCHANGED <<known_preimages, height, started, redeemedAt>>

(***************************************************************************)
(* A relay offers the next hop while it holds the HTLC of the one before.  *)
(* The code does not look at the height; its caller chooses the locktimes  *)
(* from the height at which it offers both hops, so none has passed yet.   *)
(* Here blocks may pass in between, and that much is left of it.           *)
(***************************************************************************)
ForwardPayment(p, i) ==
    /\ hop[<<p, i>>] = "none"
    /\ hop[<<p, i - 1>>] = "offered"
    /\ height < Locktime(p, i)
    /\ RouteHtlcPayment(p, i, Locktime(p, i))
    /\ UNCHANGED <<known_preimages, height, started, redeemedAt>>

(***************************************************************************)
(* The payee has its invoice's preimage, a relay the one that was used to  *)
(* redeem the HTLC it had offered.                                         *)
(***************************************************************************)
KnowsPreimage(p, n) ==
    \/ p \in known_preimages[n]
    \/ \E i \in Hops(p) : Route[p][i] = n /\ hop[<<p, i>>] = "redeemed"

(* fulfill_htlc: get_channel_with and redeem_htlc, at any height.          *)
Fulfill(p, i) ==
    LET l == HopLink(p, i)
    IN /\ KnowsPreimage(p, Route[p][i + 1])
       /\ HasChannelWith(Route[p][i], Route[p][i + 1])
       /\ CanRedeem(channels[l], <<p, i>>, p)
       /\ channels' = [channels EXCEPT ![l] = RedeemHtlc(@, <<p, i>>)]
       /\ hop' = [hop EXCEPT ![<<p, i>>] = "redeemed"]
       /\ redeemedAt' = [redeemedAt EXCEPT ![<<p, i>>] = height]
       /\ UNCHANGED <<known_preimages, revocation_secrets, height, started>>

(* A mutation: the payee may take the HTLC back to its own side on expiry. *)
RefundToCounterparty(p, i) ==
    LET l == HopLink(p, i)
    IN /\ HasChannelWith(Route[p][i], Route[p][i + 1])
       /\ CanRefund(channels[l], <<p, i>>, height)
       /\ channels' = [channels EXCEPT ![l] = RedeemHtlc(@, <<p, i>>)]
       /\ hop' = [hop EXCEPT ![<<p, i>>] = "refunded"]
       /\ UNCHANGED <<known_preimages, revocation_secrets, height, started,
                      redeemedAt>>

(* A mutation: the timelock is compared the wrong way round.               *)
RefundEarly(p, i) ==
    LET l == HopLink(p, i)
    IN /\ HasChannelWith(Route[p][i], Route[p][i + 1])
       /\ <<p, i>> \in Pending(channels[l])
       /\ height <= channels[l].active_htlcs[<<p, i>>].locktime
       /\ channels' = [channels EXCEPT ![l] = RefundHtlc(@, <<p, i>>)]
       /\ hop' = [hop EXCEPT ![<<p, i>>] = "refunded"]
       /\ UNCHANGED <<known_preimages, revocation_secrets, height, started,
                      redeemedAt>>

(* refund_htlc: get_channel_with and refund_htlc at the current height.    *)
RefundHop(p, i) ==
    LET l == HopLink(p, i)
    IN /\ HasChannelWith(Route[p][i], Route[p][i + 1])
       /\ CanRefund(channels[l], <<p, i>>, height)
       /\ channels' = [channels EXCEPT ![l] = RefundHtlc(@, <<p, i>>)]
       /\ hop' = [hop EXCEPT ![<<p, i>>] = "refunded"]
       /\ UNCHANGED <<known_preimages, revocation_secrets, height, started,
                      redeemedAt>>

(* A relay that has let its reaction time pass.                            *)
Overdue(p, i) ==
    \/ hop[<<p, i>>] = "offered" /\ height >= Locktime(p, i) + Grace
    \/ /\ hop[<<p, i>>] = "redeemed"
       /\ hop[<<p, i - 1>>] = "offered"
       /\ height >= redeemedAt[<<p, i>>] + Grace

NewBlock ==
    /\ height < MaxHeight
    /\ \A p \in Payments : \A i \in Hops(p) \ {1} : ~Overdue(p, i)
    /\ height' = height + 1
    /\ UNCHANGED <<channels, known_preimages, revocation_secrets, started, hop,
                   redeemedAt>>

Next ==
    \/ \E l \in Links \ DOMAIN channels : Open(l)
    \/ \E p \in Payments : CreateInvoice(p) \/ StartPayment(p)
    \/ \E p \in Payments : \E i \in Hops(p) \ {1} : ForwardPayment(p, i)
    \/ \E p \in Payments : \E i \in Hops(p) : Fulfill(p, i) \/ RefundHop(p, i)
    \/ NewBlock

Spec == Init /\ [][Next]_vars
-----------------------------------------------------------------------------
(***************************************************************************)
(* No satoshi appears or disappears on any channel while payments of both  *)
(* directions are offered, redeemed and refunded on it.                    *)
(***************************************************************************)
ChannelsConserved ==
    \A l \in DOMAIN channels :
        LET ch == channels[l]
        IN ch.balance[l[1]] + ch.balance[l[2]] + Locked(ch, l[1])
              + Locked(ch, l[2]) = Capacity

(***************************************************************************)
(* A relay that reacts within Grace is never caught in the middle: if the  *)
(* HTLC it offered was redeemed, the one it was offered is not refunded.   *)
(* This is what staggering the locktimes (T1 above T2) is for; redeem_htlc *)
(* itself does not look at the locktime, so a payee may still redeem late. *)
(***************************************************************************)
RelaySafe ==
    \A p \in Payments : \A i \in Hops(p) \ {1} :
        hop[<<p, i>>] = "redeemed" => hop[<<p, i - 1>>] # "refunded"

(***************************************************************************)
(* What a node owns over its channels when nothing of it is in flight is   *)
(* what it opened them with, less what it paid, plus what it was paid: the *)
(* balances that add_htlc, redeem_htlc and refund_htlc leave are those of  *)
(* whole payments, and relaying costs nothing.                             *)
(***************************************************************************)
Total(S) == Cardinality(UNION {{x[1]} \X (1..x[2]) : x \in S})

Owned(n) == Total({<<l, channels[l].balance[n]>> :
                      l \in {k \in DOMAIN channels : n \in {k[1], k[2]}}})

Funded(n) == Total({<<l, Capacity>> : l \in {k \in DOMAIN channels : k[1] = n}})

Paid(n) == Total({<<p, Amount[p]>> :
              p \in {q \in Payments : Route[q][1] = n /\ hop[<<q, 1>>] = "redeemed"}})

Received(n) == Total({<<p, Amount[p]>> :
              p \in {q \in Payments :
                        /\ Payee(q) = n
                        /\ hop[<<q, Len(Route[q]) - 1>>] = "redeemed"}})

WealthExplained ==
    \A n \in Nodes :
        (\A h \in HopIds : hop[h] = "offered" =>
              n \notin {Route[h[1]][h[2]], Route[h[1]][h[2] + 1]})
        /\ (\A p \in Payments : \A i \in Hops(p) \ {1} : Route[p][i] = n =>
                (hop[<<p, i>>] = "redeemed") = (hop[<<p, i - 1>>] = "redeemed"))
        => Owned(n) + Paid(n) = Funded(n) + Received(n)

(***************************************************************************)
(* Each HTLC a node offered has a revocation secret of its own: no         *)
(* commitment number is used twice on a channel (sequence_number, read     *)
(* after add_htlc, keys revocation_secrets).                               *)
(***************************************************************************)
SecretPerOffer ==
    \A k \in DOMAIN revocation_secrets :
        Cardinality(revocation_secrets[k]) =
            Cardinality({h \in HopIds :
                /\ hop[h] # "none"
                /\ <<Route[h[1]][h[2]], Route[h[1]][h[2] + 1]>> = k})

(***************************************************************************)
(* Seen from its two ends a routed payment is an AtomicPayment: the payer's*)
(* side is what became of the first hop, the payee's of the last.          *)
(***************************************************************************)
PayerSide(p) == CASE hop[<<p, 1>>] = "redeemed" -> "debited"
                  [] hop[<<p, 1>>] = "refunded" -> "refunded"
                  [] OTHER -> "holding"

PayeeSide(p) == IF hop[<<p, Len(Route[p]) - 1>>] = "redeemed"
                THEN "paid" ELSE "waiting"

Ends == INSTANCE AtomicPayment
            WITH payer <- [p \in Payments |-> PayerSide(p)],
                 payee <- [p \in Payments |-> PayeeSide(p)]

PaymentsAtomic == Ends!ASpec
=============================================================================
