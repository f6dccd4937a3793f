------------------------------ MODULE MCJournal ------------------------------
(* Small instances of Journal: two or three filesystem blocks, of which block *)
(* 0 holds the superblock.                                                    *)
EXTENDS Journal

W(b, v) == [blk |-> b, val |-> v]

\* A volume of zeros: the short transaction alone does not change it, and over
\* the long one it does.
Zeros == { [b \in Block |-> 0] }

\* Both blocks, the superblock's alone, and the other alone: a full ring of
\* four log blocks for the first, a shorter transaction over its remains for
\* the others.
MCTxs == { <<W(0, 1), W(1, 1)>>, <<W(0, 0)>>, <<W(1, 0)>> }

\* Three writes take two descriptors at two tags each; a single write then
\* commits in front of the second descriptor, which stays in the log.
LongTxs == { <<W(0, 1), W(1, 1), W(2, 1)>>, <<W(1, 0)>> }
==============================================================================
