---------------------------- MODULE MCToolsGroups ----------------------------
(* tools-service for TLC: the owner's token carries no email claim, the     *)
(* guest is the invited peer.                                               *)
EXTENDS ToolsGroups, TLC

CONSTANTS alice, guest, peer1, peer2, friend

MCClaim      == (alice :> None) @@ (guest :> peer2)
MCRecipients == {{}, {friend}}
Symmetry     == Permutations(Requests)
=============================================================================
