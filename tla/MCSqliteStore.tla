---------------------------- MODULE MCSqliteStore ----------------------------
(***************************************************************************)
(* A channel opens, holds two HTLCs, and redeems one of them.              *)
(***************************************************************************)
EXTENDS SqliteStore

MCActiveHtlcs == <<{}, {1, 2}, {2}>>
=============================================================================
