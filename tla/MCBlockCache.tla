---------------------------- MODULE MCBlockCache -----------------------------
(* Instances of BlockCache for TLC. *)
EXTENDS BlockCache

MCBlock == 1..3

Image(a, b) == [h \in Half |-> IF h = 1 THEN a ELSE b]

\* Two logged blocks, the superblock's among them.
LoggedOnce == <<[blk |-> 1, img |-> Image(1, 0)], [blk |-> 2, img |-> Image(0, 1)]>>
=============================================================================
