------------------------------ MODULE MCMessenger ------------------------------
(* Two users behind address translation and a relay: what they declare is  *)
(* no endpoint anybody listens on, but it has the ip they are seen with.   *)
(* b may get another port.                                                 *)
EXTENDS Messenger, TLC

CONSTANTS a, b, r, aDeclared, aOutside, bDeclared, bOutside, bMoved, rEndpoint, ip1, ip2, ip3

MCDeclared == [p \in Peer |-> CASE p = a -> aDeclared [] p = b -> bDeclared [] p = r -> rEndpoint]
MCMapped ==
  [p \in Peer |-> CASE p = a -> {aOutside} [] p = b -> {bOutside, bMoved} [] p = r -> {rEndpoint}]
(* What b declares is one of its endpoints.                                *)
MCMappedReachable ==
  [p \in Peer |-> CASE p = a -> {aOutside} [] p = b -> {bDeclared, bMoved} [] p = r -> {rEndpoint}]
MCRelayAddress == [p \in Peer |-> IF p = r THEN None ELSE rEndpoint]
MCIpOf ==
  [e \in Endpoint |-> CASE e \in {aDeclared, aOutside} -> ip1
                        [] e \in {bDeclared, bOutside, bMoved} -> ip2
                        [] e = rEndpoint -> ip3]
(* The two endpoints of b are interchangeable.                             *)
MCSymmetry == Permutations({bOutside, bMoved})
=============================================================================
