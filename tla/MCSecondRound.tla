--------------------------- MODULE MCSecondRound ----------------------------
(* Instances of SecondRound: three motes of node_id_addr.txt, where their  *)
(* addresses have distinct first 10 characters.  As there, the map has no  *)
(* mote 6, which main() asks without temp.txt.                             *)
EXTENDS SecondRound

At(i, p) == [id |-> i, addr |-> [prefix |-> p, rest |-> 0]]
Map == <<At(112, 1), At(128, 2), At(109, 3)>>

\* A line begins with the mote the line before ended with, and one mote is
\* listed twice in a line.
FileLines == << [run_no |-> 1, ids |-> <<128, 109>>],
                [run_no |-> 2, ids |-> <<109, 109, 112>>],
                [run_no |-> 2, ids |-> <<112>>] >>
=============================================================================
