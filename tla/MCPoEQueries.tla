---------------------------- MODULE MCPoEQueries ----------------------------
(* Three operators with pages of one and two entries.                      *)
EXTENDS PoEQueries

MCLimits == {0, 1, 3}
MCAmounts == {0, 1, 2}
MCStakers == {2}
MCPubKeyTypes == {"ed25519", "secp256k1"}

=============================================================================
