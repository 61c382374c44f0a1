----------------------------- MODULE MCOverlay -----------------------------
(* The parts of the network layer that share no state with one another: a  *)
(* behaviour is one of the active part, with the others at rest.           *)
EXTENDS Transports

CONSTANTS Ids, Bits, Seeker, Target, Alpha, KClosest, MaxHops, BucketSize, StoreMax,
          MaxAnnounces, MaxAging
VARIABLES store, table, lookup, announces, aging, told, heard, dropped, asked, sure
Dht == INSTANCE DhtNode
dhtVars == <<store, table, lookup, announces, aging, told, heard, dropped, asked, sure>>

CONSTANTS Topics, Contents, Neighbours, CacheSize, MeshHigh, MaxMessages, CheckWindow
VARIABLES cache, mesh, stream, accepted, refused
Gossip == INSTANCE GossipMesh
meshVars == <<cache, mesh, stream, accepted, refused>>

CONSTANTS Files, Workers, MaxFiles, MaxDepth, MaxBlocks, SameFile
VARIABLES root, chunks, chains, home, work, blocks, snap
Cat == INSTANCE Catalog
catalogVars == <<root, chunks, chains, home, work, blocks, snap>>

VARIABLE active

\* Three clients want one room that takes two, and one of them changes to
\* another room later.
JoinFrame(r) == [frame |-> "join", room |-> r]
DataFrame(n) == [frame |-> "data", from |-> 1, n |-> n]
MCScript == <<<<JoinFrame("r"), DataFrame(1), DataFrame(2)>>,
              <<JoinFrame("r"), [frame |-> "leave"], JoinFrame("s"), [frame |-> "close"]>>,
              <<JoinFrame("r")>>>>

Init ==
    /\ Relay!Init /\ Dht!Init /\ Gossip!Init /\ Cat!Init /\ Conduit!Init /\ Cloudflared!Init
    /\ Mesh!Init
    /\ active \in {"relay", "dht", "gossip", "catalog", "routes", "tunnel", "mesh"}
    /\ active # "routes" => relay_only /\ routes = {} /\ direct /\ tunnelUp
    /\ active # "tunnel" => config.auto_restart /\ config.simulate
    /\ active # "mesh" => \A f \in Names : zone[f] = {}

Next ==
    \/ /\ active = "relay" /\ Relay!Next
       /\ UNCHANGED <<dhtVars, meshVars, catalogVars, routeVars, tunnelVars, resolverVars, active>>
    \/ /\ active = "dht" /\ Dht!Next
       /\ UNCHANGED <<relayVars, meshVars, catalogVars, routeVars, tunnelVars, resolverVars, active>>
    \/ /\ active = "gossip" /\ Gossip!Next
       /\ UNCHANGED <<relayVars, dhtVars, catalogVars, routeVars, tunnelVars, resolverVars, active>>
    \/ /\ active = "catalog" /\ Cat!Next
       /\ UNCHANGED <<relayVars, dhtVars, meshVars, routeVars, tunnelVars, resolverVars, active>>
    \/ /\ active = "routes" /\ Conduit!Next
       /\ UNCHANGED <<relayVars, dhtVars, meshVars, catalogVars, tunnelVars, resolverVars, active>>
    \/ /\ active = "tunnel" /\ Cloudflared!Next
       /\ UNCHANGED <<relayVars, dhtVars, meshVars, catalogVars, routeVars, resolverVars, active>>
    \/ /\ active = "mesh" /\ Mesh!Next
       /\ UNCHANGED <<relayVars, dhtVars, meshVars, catalogVars, routeVars, tunnelVars, active>>

Spec == Init /\ [][Next]_<<relayVars, dhtVars, meshVars, catalogVars, routeVars, tunnelVars,
                          resolverVars, active>>

(* A lookup asks nobody twice, returns the record if a peer it asked had   *)
(* it, and gives up only at the hop limit or when it has asked all it was  *)
(* told of, but for the candidates beyond alpha or k                       *)
(* (find_peer_iterative).                                                  *)
LookupSound == active = "dht" => Dht!LookupSound

(* A message is suppressed exactly while it is recent, and no topic has    *)
(* more peers than the bound (MessageCache, graft).                        *)
RecentSuppressed == active = "gossip" => Gossip!RecentSuppressed

(* At rest the root, the chunks, the entries and the chains of a catalog   *)
(* agree, and a diff against an earlier root names what changed since      *)
(* (CatalogManager).                                                       *)
CatalogCoherent == active = "catalog" => Cat!CatalogCoherent
=============================================================================
