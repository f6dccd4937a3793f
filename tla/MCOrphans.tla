------------------------------ MODULE MCOrphans ------------------------------
(* Instances of Orphans for TLC: three inodes, two of them in one table block. *)
EXTENDS Orphans

MCTabOf == <<1, 1, 2>>
=============================================================================
