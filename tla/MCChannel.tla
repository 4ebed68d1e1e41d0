----------------------------- MODULE MCChannel -----------------------------
(***************************************************************************)
(* A channel, and the compact store of the secrets its peer reveals, which *)
(* the storage keeps for each channel. Two HTLC ids, two secrets and a     *)
(* capacity of three satoshis: enough for HTLCs in both directions at once,*)
(* an id offered again while pending or after it was resolved, and a       *)
(* redemption racing a refund at expiry.                                   *)
(***************************************************************************)
EXTENDS Channel, Shachain

MCAmounts == {1, 2}
MCLocktimes == {1}

(* The two share no variable, and each property is about one of them: it is*)
(* enough that each of them runs while the other is as it was in the       *)
(* beginning.                                                              *)
MCInit == ChannelInit /\ ShachainInit

MCNext ==
    \/ ShachainInit /\ ChannelNext /\ UNCHANGED shachainVars
    \/ ChannelInit /\ ShachainNext /\ UNCHANGED channelVars

MCSpec == MCInit /\ [][MCNext]_<<channelVars, shachainVars>>
=============================================================================
