---------------------------- MODULE MCRelayPeers ----------------------------
(***************************************************************************)
(* An instance of RelayPeers for TLC: relay A is configured to dial B, and *)
(* B to answer A; operators may add and remove either way.                 *)
(***************************************************************************)
EXTENDS RelayPeers, TLC

CONSTANTS A, B

SeedDef == (A :> {B}) @@ (B :> {A})
SeedAddressDef == (A :> {B}) @@ (B :> {})
==============================================================================
