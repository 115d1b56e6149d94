-------------------------- MODULE MCDiscoveryTracked --------------------------
(* Instances of DiscoveryTracked for TLC.                                    *)
EXTENDS DiscoveryTracked, TLC

\* Every connection on one scope: the MOS 2.x socket, or one MOS 4 channel.
OneScope == [s \in Sessions |-> CHOOSE c \in Scopes : TRUE]

\* The MOS 4 client: the passive lane and the request lane are two scopes.
TwoScopes == [s \in Sessions |-> IF s \in Passive THEN "passive" ELSE "request"]

\* Connections of one kind are interchangeable, and so are running orders.
Symmetry == Permutations(Sessions) \cup Permutations(ROs)
ROSymmetry == Permutations(ROs)
=============================================================================
