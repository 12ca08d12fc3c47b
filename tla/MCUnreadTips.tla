---------------------------- MODULE MCUnreadTips ----------------------------
(* UnreadTips on small instances: the bounds are in the configurations.    *)
EXTENDS UnreadTips
=============================================================================
