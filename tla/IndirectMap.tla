----------------------------- MODULE IndirectMap -----------------------------
(***************************************************************************)
(* The block map of an ext2/ext3 inode (src/indirect.rs,                   *)
(* src/indirect_mut.rs): NDirect direct pointers, then one single, one     *)
(* double and one triple indirect tree.  A pointer block is                *)
(* [kind |-> "ptrs", ptrs |-> a sequence of PPB block numbers], 0 being a  *)
(* hole; an i_block is a sequence of NDirect + 3 block numbers.            *)
(***************************************************************************)
EXTENDS Integers, Sequences, SequencesExt

CONSTANTS NDirect,  \* DIRECT_COUNT (12 in the code)
          PPB       \* pointers in a block (block size / 4)

Lesser(a, b) == IF a < b THEN a ELSE b

\* What a tree of height k addresses.
Reach(k) == PPB ^ k

NoMap == [i \in 1 .. NDirect + 3 |-> 0]

Tiers == 1 .. 3

\* The first logical block of the tier of height k.
TierBase(k) == NDirect + (IF k > 1 THEN Reach(1) ELSE 0) + (IF k > 2 THEN Reach(2) ELSE 0)

----------------------------------------------------------------------------
(* indirect::lookup: the block that backs logical block l, 0 for a hole *)

RECURSIVE Follow(_, _, _, _)
Follow(disk, b, off, k) ==
    IF b = 0 \/ k = 0 THEN b
    ELSE IF disk[b].kind # "ptrs" THEN 0
    ELSE Follow(disk, disk[b].ptrs[off \div Reach(k - 1) + 1], off % Reach(k - 1), k - 1)

map_lookup(disk, ib, l) ==
    IF l < NDirect THEN ib[l + 1]
    ELSE LET k == CHOOSE t \in Tiers : TierBase(t) <= l
                                       /\ (t < 3 => l < TierBase(t + 1))
         IN  Follow(disk, ib[NDirect + k], l - TierBase(k), k)

----------------------------------------------------------------------------
(* indirect_mut::count_indirect_blocks *)

\* The pointer blocks of a tree of height k that holds n data blocks.
TreeBlocks(k, n) ==
    1 + (IF k > 1 THEN (n + Reach(k - 1) - 1) \div Reach(k - 1) ELSE 0)
      + (IF k > 2 THEN (n + Reach(k - 2) - 1) \div Reach(k - 2) ELSE 0)

count_indirect_blocks(n) ==
    LET in(k) == IF n > TierBase(k) THEN Lesser(n - TierBase(k), Reach(k)) ELSE 0
        of(k) == IF in(k) = 0 THEN 0 ELSE TreeBlocks(k, in(k))
    IN  of(1) + of(2) + of(3)

----------------------------------------------------------------------------
(* indirect_mut::plan_contiguous: n data blocks from `data` on, pointer    *)
(* blocks drawn one after the other from `next` on.                        *)

\* A plan in progress: the pointer blocks to write, the next block to draw,
\* the next data block and how many data blocks are left.
Drawn(p) == [p EXCEPT !.next = @ + 1]

RECURSIVE BuildTree(_, _)
BuildTree(p0, k) ==
    LET b     == p0.next
        width == IF k = 1 THEN Lesser(p0.left, PPB)
                 ELSE (Lesser(p0.left, Reach(k)) + Reach(k - 1) - 1) \div Reach(k - 1)
        Slot(acc, i) ==
            IF k = 1
            THEN [p  |-> [acc.p EXCEPT !.data = @ + 1, !.left = @ - 1],
                  at |-> Append(acc.at, acc.p.data)]
            ELSE [p  |-> BuildTree(acc.p, k - 1), at |-> Append(acc.at, acc.p.next)]
        full == FoldLeft(Slot, [p |-> Drawn(p0), at |-> <<>>], [i \in 1 .. width |-> i])
        ptrs == [i \in 1 .. PPB |-> IF i <= width THEN full.at[i] ELSE 0]
    IN  [full.p EXCEPT !.writes = Append(@, [at |-> b, ptrs |-> ptrs])]

plan_contiguous(n, data, next) ==
    LET direct == Lesser(n, NDirect)
        p0     == [writes |-> <<>>, next |-> next, data |-> data + direct, left |-> n - direct]
        Tier(acc, k) ==
            IF acc.p.left = 0 THEN acc
            ELSE [p  |-> BuildTree(acc.p, k), ib |-> [acc.ib EXCEPT ![NDirect + k] = acc.p.next]]
    IN  FoldLeft(Tier,
                 [p  |-> p0,
                  ib |-> [i \in 1 .. NDirect + 3 |-> IF i <= direct THEN data + i - 1 ELSE 0]],
                 <<1, 2, 3>>)

----------------------------------------------------------------------------
(* indirect_mut::collect_for_free: the data and pointer blocks of a file   *)
(* of n blocks.  A missing subtree is stepped over at its full width.      *)

Less(a, b) == IF a > b THEN a - b ELSE 0

RECURSIVE CollectTree(_, _, _, _)
CollectTree(disk, b, k, acc) ==
    IF acc.left = 0 \/ b = 0 \/ disk[b].kind # "ptrs"
    THEN [acc EXCEPT !.left = Less(@, Reach(k))]
    ELSE LET width == IF k = 1 THEN Lesser(acc.left, PPB)
                      ELSE (Lesser(acc.left, Reach(k)) + Reach(k - 1) - 1) \div Reach(k - 1)
             got   == SubSeq(disk[b].ptrs, 1, width)
             here  == [acc EXCEPT !.ind = @ \cup {b}]
         IN  IF k = 1
             THEN [here EXCEPT !.data = @ \cup (ToSet(got) \ {0}), !.left = @ - width]
             ELSE FoldLeft(LAMBDA a, c : CollectTree(disk, c, k - 1, a), here, got)

collect_for_free(disk, ib, n) ==
    LET direct == Lesser(n, NDirect)
        start  == [data |-> ToSet(SubSeq(ib, 1, direct)) \ {0}, ind |-> {}, left |-> n - direct]
    IN  FoldLeft(LAMBDA a, k : CollectTree(disk, ib[NDirect + k], k, a), start, <<1, 2, 3>>)
==============================================================================
