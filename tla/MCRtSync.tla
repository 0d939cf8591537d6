------------------------------ MODULE MCRtSync ------------------------------
(* Small instances of RtSync.  Routes: two keys, two vias, one MAC address.  *)
EXTENDS RtSync, TLC

CONSTANTS c1, c2

RouteA == [key |-> "a", via |-> "x"]
MCInputs ==
  {RouteReq("CREATE", RouteA), RouteReq("DELETE", RouteA), MacReq("CREATE", "m"),
   Plain("SHOW"), Plain("FLUSH")}

\* Few lines, with ones that do nothing or do not go as typed.
MCLiveInputs ==
  {RouteReq("CREATE", RouteA), MacReq("CREATE", "m"), Plain("FLUSH"), Invalid}

MCPidOf == [c \in Clients |-> c]
MCSymmetry == Permutations({c1, c2})
=============================================================================
