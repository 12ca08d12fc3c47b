-------------------------- MODULE MCFriendHandshake --------------------------
(* FriendHandshake on small instances.                                     *)
EXTENDS FriendHandshake
=============================================================================
