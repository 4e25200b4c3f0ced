------------------------------ MODULE MCSwarm -------------------------------
(***************************************************************************)
(* Small swarms for Swarm.tla.  Ranks are OF0's: 256 at the root, 768 more *)
(* for each hop.  Where checksums matter, the ids are such that no XOR of  *)
(* some of them is that of others.                                         *)
(***************************************************************************)
EXTENDS Swarm, TLC

\* One relay, two clients out of each other's range.
TreeRank == 1 :> 256 @@ 2 :> 1024 @@ 3 :> 1792 @@ 4 :> 1792
TreeNbr  == 1 :> {2} @@ 2 :> {1, 3, 4} @@ 3 :> {2} @@ 4 :> {2}

\* The same with the clients in range: each takes the other's responses for
\* requests and answers them, until it has no connection left.
RangeNbr == 1 :> {2} @@ 2 :> {1, 3, 4} @@ 3 :> {2, 4} @@ 4 :> {2, 3}

\* Two relays in a row; a client under the lower one, a mote under the upper one
\* (in one instance a relay with nobody below it).
DeepRank == 1 :> 256 @@ 2 :> 1024 @@ 3 :> 1792 @@ 4 :> 2560 @@ 8 :> 1792
DeepNbr  == 1 :> {2} @@ 2 :> {1, 3, 8} @@ 3 :> {2, 4} @@ 4 :> {3} @@ 8 :> {2}

\* Two relays side by side, a client under each and one under both.
LayerRank == 1 :> 256 @@ 2 :> 1024 @@ 3 :> 1024 @@ 4 :> 1792 @@ 8 :> 1792 @@ 16 :> 1792
LayerNbr  == 1 :> {2, 3} @@ 2 :> {1, 4, 8} @@ 3 :> {1, 8, 16}
               @@ 4 :> {2} @@ 8 :> {2, 3} @@ 16 :> {3}

\* Two relays side by side under a third; a client under both of them, whose
\* id comes up twice, and one under the first.
MeshRank == 1 :> 256 @@ 2 :> 1024 @@ 3 :> 1792 @@ 4 :> 1792 @@ 5 :> 2560 @@ 6 :> 2560
MeshNbr  == 1 :> {2} @@ 2 :> {1, 3, 4} @@ 3 :> {2, 4, 5, 6} @@ 4 :> {2, 3, 5}
              @@ 5 :> {3, 4} @@ 6 :> {3}

=============================================================================
