------------------------------ MODULE MCJustice ------------------------------
(***************************************************************************)
(* Four states of one channel: the one it opens with, in which all of it is*)
(* Alice's; one of 80%, as in the demonstrations; one in which her balance *)
(* is dust and has no output; and the newest. A remedy is for the capacity *)
(* or for the 80%, whichever state it is of.                               *)
(***************************************************************************)
EXTENDS Justice

MCAliceSat == <<10, 8, 1, 5>>
MCRemedySat == {10, 8}

(* The demonstrations: a state of 80% is revoked by one of 50%.            *)
DemoAliceSat == <<8, 5>>
=============================================================================
