------------------------------ MODULE MCFerry -------------------------------
(* Finite instances of Ferry.  Shores and requests are numbers, so that the  *)
(* hashes are easy to give: shore 1 and shore 2 share one hash of the ring.  *)
EXTENDS Ferry

MCConfigs ==
  [strategy : {"least_conn", "consistent_hash"}, limited : {FALSE}, shores : {<<1, 2>>}, load : {2}]
    \cup [strategy : {"weighted", "ip_hash", "round_robin", "zone_aware"}, limited : {FALSE}, shores : {<<1, 2>>}, load : {1}]
    \cup {[strategy |-> "round_robin", limited |-> TRUE, shores |-> <<1>>, load |-> 2]}
    \cup {[strategy |-> "round_robin", limited |-> FALSE, shores |-> <<1>>, load |-> 4]}
MCVirtualHash(s, i) == CASE i = 1 -> 10 * s [] i = 2 -> 5 [] OTHER -> 10 * s + i
MCKeyHash(k) == 10 * k[2]
(* charon-proxy passes the server's context on: it holds no tenant. *)
MCAttr(r) ==
  [ctxTenant |-> Absent, ctxIP |-> Absent, ctxIdentity |-> Absent, forwardedFor |-> Absent, remoteAddr |-> r,
   tenantHeader |-> Absent, sessionCookie |-> Absent, sessionHeader |-> r, affinityHeader |-> Absent]
MCRateKeys == {<<"tenant", "unknown">>}
MCIPHash(a) == a
MCWeight(s) == s
=============================================================================
