------------------------------ MODULE MCRouting ------------------------------
(* Five nodes: two ways from 1 to 4 through 2 and 3, a channel from 4 to   *)
(* the target 5, a direct way from 3 to 5 in one topology, and one without *)
(* the target. A relay charges 1 and half of what it sends, so hops of one *)
(* route carry 4, 2 and 1.                                                 *)
EXTENDS Routing
Diamond == {<<1, 2>>, <<1, 3>>, <<2, 4>>, <<3, 4>>}
MCTopologies == {Diamond \cup {<<4, 5>>},
                 {<<1, 2>>, <<3, 1>>, <<2, 3>>, <<3, 5>>, <<2, 5>>},
                 {<<1, 2>>, <<2, 3>>}}
=============================================================================
