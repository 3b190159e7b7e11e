--------------------------- MODULE MCShadowDaemon ---------------------------
(* The shadow daemon for TLC: two policies on one asset, one of which may   *)
(* be short.                                                                *)
EXTENDS ShadowDaemon

MCPolicyOrder == <<"p1", "p2">>
MCAllowShort == {"p2"}
=============================================================================
