------------------------------- MODULE MCMkfs -------------------------------
(* Format calls over each flavour, block size and interesting volume size. *)
EXTENDS Mkfs

Call(fl, bs, blocks, slack, rw) ==
    [flavor |-> fl, bs |-> bs, size |-> blocks * bs, dev |-> blocks + slack, rw |-> rw]

\* One group: from the smallest layout that fits (and one block less) to a
\* full group (and one block more).
OneGroup ==
    {Call(fl, 4, n, 1, TRUE) : fl \in {"ext2", "ext3", "ext4"}, n \in {7, 11, 12, 13, 14, 23, 24, 25, 26, 32, 33}}
    \cup {Call(fl, bs, n, 0, TRUE) : fl \in {"ext2", "ext3"}, bs \in {8, 16}, n \in {8, 9, 20, 64, 65}}

\* Several groups: a last group of every awkward length.
ManyGroups ==
    {Call("ext4", 8, n, 1, TRUE) : n \in {9, 64, 65, 67, 68, 70, 71, 130, 132, 133, 200, 257, 320, 321}}
    \cup {Call("ext4", 16, n, 0, TRUE) : n \in {9, 120, 121, 125, 130}}

MCRequests == OneGroup \cup ManyGroups
              \cup {Call("ext4", 6, 40, 0, TRUE), Call("ext4", 32, 40, 0, TRUE),
                    Call("ext2", 4, 32, 0, FALSE)}
=============================================================================
