-------------------------- MODULE AttributesProofs --------------------------
(***************************************************************************)
(* Two of the properties of Attributes.tla proved for every value of the   *)
(* constants: the reference counts of blocks of attributes stay exact      *)
(* (RefsStayExact), and a stat reads back what was set (StatReadsBack).    *)
(* The first half goes through the ways a reference can change, then       *)
(* through the helpers of setxattr and removexattr; the second shows that  *)
(* packing a time in its two words loses nothing, then goes through the    *)
(* calls.                                                                  *)
(***************************************************************************)
EXTENDS Attributes, FiniteSetTheorems, TLAPS

\* Every state a call reaches while it stages its change keeps its shape, and counts
\* the references and the free blocks exactly.
Sound(t) == WellFormed(t) /\ Exact(t)

\* u counts the blocks outside B as t does.
CountedAlike(t, u, B) ==
    \A b \in Blocks \ B : u.block[b].used = t.block[b].used /\ u.block[b].refs = t.block[b].refs

\* Every file but f refers to the block it referred to.
OthersKeep(t, u, f) ==
    \A g \in Files \ {f} : /\ u.file[g].acl = t.file[g].acl
                           /\ u.file[g].blocks = t.file[g].blocks

\* A volume has finitely many files and blocks, so its references and free blocks can
\* be counted.
LEMMA Finite ==
    ASSUME NEW t
    PROVE  /\ \A b : IsFiniteSet(Referrers(t, b)) /\ Cardinality(Referrers(t, b)) \in Nat
           /\ IsFiniteSet(FreeBlocks(t)) /\ Cardinality(FreeBlocks(t)) \in Nat
<1>1. \A b : Referrers(t, b) \subseteq Files
  BY DEF Referrers
<1>2. FreeBlocks(t) \subseteq Blocks
  BY DEF FreeBlocks
<1> QED
  BY <1>1, <1>2, XattrSets, FS_Subset, FS_CardinalityType

\* A finite set with one of its members taken out counts one less.
LEMMA OneLess ==
    ASSUME NEW S, NEW x \in S, IsFiniteSet(S)
    PROVE  Cardinality(S \ {x}) = Cardinality(S) - 1
BY FS_RemoveElement

\* The first of the four ways a reference can change: not at all.  A step that leaves
\* h_refcount, i_file_acl, i_blocks and the free count alone keeps the counts exact.
LEMMA QuietExact ==
    ASSUME NEW t, NEW u, NEW f \in Files, Sound(t), WellFormed(u),
           OthersKeep(t, u, f), CountedAlike(t, u, {}),
           u.file[f].acl = t.file[f].acl, u.file[f].blocks = t.file[f].blocks,
           u.free = t.free, t.flag => u.flag
    PROVE  Sound(u)
<1>1. \A g \in Files : u.file[g].acl = t.file[g].acl /\ u.file[g].blocks = t.file[g].blocks
  BY DEF OthersKeep
<1>2. \A b : Referrers(u, b) = Referrers(t, b)
  BY <1>1 DEF Referrers
<1>3. FreeBlocks(u) = FreeBlocks(t)
  BY DEF FreeBlocks, CountedAlike
<1> QED
  BY <1>1, <1>2, <1>3 DEF Sound, Exact, CountedAlike

\* The second: file f gives up its block b.  buffer_release_xattr_block frees b with
\* the last reference and counts one down otherwise, and i_blocks loses the block.
LEMMA DroppedExact ==
    ASSUME NEW t, NEW u, NEW f \in Files, NEW b \in Blocks, Sound(t), WellFormed(u),
           OthersKeep(t, u, f), CountedAlike(t, u, {b}),
           t.file[f].acl = b, u.file[f].acl = 0, u.file[f].blocks = t.file[f].blocks - 1,
           u.flag = t.flag,
           IF t.block[b].refs <= 1
           THEN ~ u.block[b].used /\ u.block[b].refs = 0 /\ u.free = t.free + 1
           ELSE /\ u.block[b].used = t.block[b].used
                /\ u.block[b].refs = t.block[b].refs - 1
                /\ u.free = t.free
    PROVE  Sound(u)
<1>b. b # 0
  BY XattrSets
<1>1. Referrers(u, b) = Referrers(t, b) \ {f}
  BY <1>b DEF Referrers, OthersKeep
<1>2. \A c \in Blocks \ {b} : Referrers(u, c) = Referrers(t, c)
  BY XattrSets DEF Referrers, OthersKeep
<1>3. f \in Referrers(t, b)
  BY DEF Referrers
<1>4. Cardinality(Referrers(u, b)) = Cardinality(Referrers(t, b)) - 1
  <2>1. Cardinality(Referrers(t, b) \ {f}) = Cardinality(Referrers(t, b)) - 1
    BY <1>3, Finite, OneLess
  <2> QED
    BY <1>1, <2>1
<1>5. t.block[b].refs = Cardinality(Referrers(t, b)) /\ t.block[b].used
  BY <1>3 DEF Sound, Exact
<1>6. (Cardinality(Referrers(u, b)) = 0) <=> (Referrers(u, b) = {})
  BY Finite, FS_EmptySet
<1>7. /\ u.block[b].refs = Cardinality(Referrers(u, b))
      /\ u.block[b].used <=> Referrers(u, b) # {}
  <2> DEFINE k == Cardinality(Referrers(t, b))
             m == Cardinality(Referrers(u, b))
  <2>1. k \in Nat /\ m \in Nat /\ m = k - 1 /\ t.block[b].refs = k
    BY <1>4, <1>5, Finite
  <2> HIDE DEF k, m
  <2>2. CASE k <= 1
    <3>1. m = 0 /\ u.block[b].refs = 0 /\ ~ u.block[b].used
      BY <2>1, <2>2
    <3> QED
      BY <1>6, <3>1 DEF m
  <2>3. CASE ~ (k <= 1)
    <3>1. m # 0 /\ u.block[b].refs = m /\ u.block[b].used = t.block[b].used
      BY <2>1, <2>3
    <3> QED
      BY <1>5, <1>6, <3>1 DEF m
  <2> QED
    BY <2>2, <2>3
<1>8. \A c \in Blocks : /\ u.block[c].refs = Cardinality(Referrers(u, c))
                        /\ u.block[c].used <=> Referrers(u, c) # {}
  BY <1>2, <1>7 DEF Sound, Exact, CountedAlike
<1>9. u.free = Cardinality(FreeBlocks(u))
  <2>1. CASE t.block[b].refs <= 1
    <3>1. FreeBlocks(u) = FreeBlocks(t) \cup {b} /\ b \notin FreeBlocks(t)
      BY <1>5, <2>1 DEF FreeBlocks, CountedAlike
    <3>2. Cardinality(FreeBlocks(u)) = Cardinality(FreeBlocks(t)) + 1
      BY <3>1, Finite, FS_AddElement, Zenon
    <3> QED
      BY <2>1, <3>2 DEF Sound, Exact
  <2>2. CASE ~ (t.block[b].refs <= 1)
    <3>1. FreeBlocks(u) = FreeBlocks(t)
      BY <2>2 DEF FreeBlocks, CountedAlike
    <3> QED
      BY <2>2, <3>1 DEF Sound, Exact
  <2> QED
    BY <2>1, <2>2
<1>10. \A g \in Files : u.file[g].blocks = IF u.file[g].acl = 0 THEN 0 ELSE 1
  BY <1>b DEF Sound, Exact, OthersKeep
<1>11. (\E g \in Files : u.file[g].acl # 0) => u.flag
  BY <1>b DEF Sound, Exact, OthersKeep
<1> QED
  BY <1>8, <1>9, <1>10, <1>11 DEF Sound, Exact

\* The third: file f, which had no block, takes the free block c for itself alone.
LEMMA GainedExact ==
    ASSUME NEW t, NEW u, NEW f \in Files, NEW c \in FreeBlocks(t), Sound(t), WellFormed(u),
           OthersKeep(t, u, f), CountedAlike(t, u, {c}),
           t.file[f].acl = 0, u.file[f].acl = c, u.file[f].blocks = t.file[f].blocks + 1,
           u.block[c].used, u.block[c].refs = 1, u.free = t.free - 1, u.flag
    PROVE  Sound(u)
<1>c. c \in Blocks /\ c # 0 /\ ~ t.block[c].used
  BY XattrSets DEF FreeBlocks
<1>1. Referrers(t, c) = {}
  BY <1>c DEF Sound, Exact
<1>2. Referrers(u, c) = {f}
  BY <1>1 DEF Referrers, OthersKeep
<1>3. \A b \in Blocks \ {c} : Referrers(u, b) = Referrers(t, b)
  BY XattrSets DEF Referrers, OthersKeep
<1>4. Cardinality(Referrers(u, c)) = 1
  BY <1>2, FS_Singleton, Zenon
<1>5. \A b \in Blocks : /\ u.block[b].refs = Cardinality(Referrers(u, b))
                        /\ u.block[b].used <=> Referrers(u, b) # {}
  BY <1>2, <1>3, <1>4, Zenon DEF Sound, Exact, CountedAlike
<1>6. FreeBlocks(u) = FreeBlocks(t) \ {c}
  BY <1>c DEF FreeBlocks, CountedAlike
<1>7. Cardinality(FreeBlocks(u)) = Cardinality(FreeBlocks(t)) - 1
  <2>1. Cardinality(FreeBlocks(t) \ {c}) = Cardinality(FreeBlocks(t)) - 1
    BY Finite, OneLess
  <2> QED
    BY <1>6, <2>1
<1>8. u.free = Cardinality(FreeBlocks(u))
  BY <1>7 DEF Sound, Exact
<1>9. \A g \in Files : u.file[g].blocks = IF u.file[g].acl = 0 THEN 0 ELSE 1
  BY <1>c DEF Sound, Exact, OthersKeep
<1> QED
  BY <1>5, <1>8, <1>9 DEF Sound, Exact

\* The fourth: file f leaves a block b that others share for a copy c of its own.
LEMMA MovedExact ==
    ASSUME NEW t, NEW u, NEW f \in Files, NEW b \in Blocks, NEW c \in FreeBlocks(t),
           Sound(t), WellFormed(u), OthersKeep(t, u, f), CountedAlike(t, u, {b, c}), b # c,
           t.file[f].acl = b, u.file[f].acl = c, u.file[f].blocks = t.file[f].blocks,
           t.block[b].refs > 1,
           u.block[b].used = t.block[b].used, u.block[b].refs = t.block[b].refs - 1,
           u.block[c].used, u.block[c].refs = 1, u.free = t.free - 1, u.flag = t.flag
    PROVE  Sound(u)
<1>b. b # 0
  BY XattrSets
<1>c. c \in Blocks /\ c # 0 /\ ~ t.block[c].used
  BY XattrSets DEF FreeBlocks
<1>1. Referrers(t, c) = {}
  BY <1>c DEF Sound, Exact
<1>2. Referrers(u, c) = {f}
  BY <1>1 DEF Referrers, OthersKeep
<1>3. Referrers(u, b) = Referrers(t, b) \ {f} /\ f \in Referrers(t, b)
  BY DEF Referrers, OthersKeep
<1>4. \A d \in Blocks \ {b, c} : Referrers(u, d) = Referrers(t, d)
  BY XattrSets DEF Referrers, OthersKeep
<1>5. Cardinality(Referrers(u, c)) = 1
  BY <1>2, FS_Singleton, Zenon
<1>6. Cardinality(Referrers(u, b)) = Cardinality(Referrers(t, b)) - 1
  <2>1. Cardinality(Referrers(t, b) \ {f}) = Cardinality(Referrers(t, b)) - 1
    BY <1>3, Finite, OneLess
  <2> QED
    BY <1>3, <2>1
<1>7. t.block[b].refs = Cardinality(Referrers(t, b)) /\ t.block[b].used
  BY <1>3 DEF Sound, Exact
<1>8. (Cardinality(Referrers(u, b)) = 0) <=> (Referrers(u, b) = {})
  BY Finite, FS_EmptySet
<1>9. /\ u.block[b].refs = Cardinality(Referrers(u, b))
      /\ u.block[b].used <=> Referrers(u, b) # {}
  BY <1>6, <1>7, <1>8, Finite
<1>10. \A d \in Blocks : /\ u.block[d].refs = Cardinality(Referrers(u, d))
                         /\ u.block[d].used <=> Referrers(u, d) # {}
  BY <1>2, <1>4, <1>5, <1>9, Zenon DEF Sound, Exact, CountedAlike
<1>11. FreeBlocks(u) = FreeBlocks(t) \ {c}
  BY <1>c, <1>7, Zenon DEF FreeBlocks, CountedAlike
<1>12. Cardinality(FreeBlocks(u)) = Cardinality(FreeBlocks(t)) - 1
  <2>1. Cardinality(FreeBlocks(t) \ {c}) = Cardinality(FreeBlocks(t)) - 1
    BY Finite, OneLess
  <2> QED
    BY <1>11, <2>1
<1>13. u.free = Cardinality(FreeBlocks(u))
  BY <1>12 DEF Sound, Exact
<1>14. \A g \in Files : u.file[g].blocks = IF u.file[g].acl = 0 THEN 0 ELSE 1
  BY <1>b, <1>c DEF Sound, Exact, OthersKeep
<1>15. u.flag
  BY <1>b DEF Sound, Exact
<1> QED
  BY <1>10, <1>13, <1>14, <1>15 DEF Sound, Exact

----------------------------------------------------------------------------
(* The staging operators *)

\* The inodes of u are live, and have extra fields, where those of t do.
SameInodes(t, u) ==
    \A g \in Files : u.file[g].live = t.file[g].live /\ u.file[g].extra = t.file[g].extra

\* A set of naturals that is not empty has a least member.
LEMMA LeastNatural ==
    ASSUME NEW S, S \subseteq Nat, S # {}
    PROVE  \E x \in S : \A y \in S : x <= y
<1> DEFINE Less == { p \in Nat \X Nat : p[1] < p[2] }
<1>1. IsWellFoundedOn(Less, Nat)
  BY NatLessThanWellFounded DEF OpToRel
<1> HIDE DEF Less
<1>2. PICK x \in S : \A y \in S : ~ (<<y, x>> \in Less)
  BY <1>1, WFMin, Zenon
<1>3. ASSUME NEW y \in S PROVE x <= y
  <2>1. x \in Nat /\ y \in Nat
    OBVIOUS
  <2>2. ~ (y < x)
    BY <1>2, <2>1, Zenon DEF Less
  <2> QED
    BY <2>1, <2>2
<1> QED
  BY <1>3

\* The block the allocator picks is a free one.
LEMMA MinFree ==
    ASSUME NEW t, FreeBlocks(t) # {}
    PROVE  Min(FreeBlocks(t)) \in FreeBlocks(t)
<1>1. FreeBlocks(t) \subseteq Nat
  BY XattrSets, Zenon DEF FreeBlocks
<1>2. \E x \in FreeBlocks(t) : \A y \in FreeBlocks(t) : x <= y
  BY <1>1, LeastNatural
<1> QED
  BY <1>2, Zenon DEF Min

\* A call that stops with an error has changed no count.
LEMMA StopSound ==
    ASSUME NEW t, NEW f \in Files, Sound(t), NEW why
    PROVE  Sound(Stop(t, why)) /\ SameInodes(t, Stop(t, why))
<1> DEFINE u == Stop(t, why)
<1>1. WellFormed(u) /\ u.file = t.file /\ u.block = t.block /\ u.free = t.free /\ u.flag = t.flag
  BY DEF Stop, WellFormed, Sound
<1> HIDE DEF u
<1>2. Sound(u)
  BY <1>1, QuietExact DEF OthersKeep, CountedAlike
<1> QED
  BY <1>1, <1>2 DEF SameInodes, u

\* Setting the ext_attr feature bit in the superblock changes no count.
LEMMA FlagSound ==
    ASSUME NEW t, NEW f \in Files, Sound(t)
    PROVE  LET u == [t EXCEPT !.flag = TRUE]
           IN  /\ Sound(u) /\ SameInodes(t, u)
               /\ u.file = t.file /\ u.block = t.block /\ u.flag
<1> DEFINE u == [t EXCEPT !.flag = TRUE]
<1>1. WellFormed(u) /\ u.file = t.file /\ u.block = t.block /\ u.free = t.free /\ u.flag
  BY DEF WellFormed, Sound
<1> HIDE DEF u
<1>2. Sound(u)
  BY <1>1, QuietExact DEF OthersKeep, CountedAlike
<1>3. SameInodes(t, u)
  BY <1>1 DEF SameInodes
<1> QED
  BY <1>1, <1>2, <1>3 DEF u

\* Rewriting the attributes inside the inode changes no count.
LEMMA AreaSound ==
    ASSUME NEW t, NEW f \in Files, Sound(t), NEW a
    PROVE  LET u == [t EXCEPT !.file[f].area = a]
           IN  Sound(u) /\ SameInodes(t, u) /\ u.file[f].acl = t.file[f].acl
<1> DEFINE u == [t EXCEPT !.file[f].area = a]
<1>1. WellFormed(t)
  BY DEF Sound
<1>2. /\ DOMAIN u = DOMAIN t
      /\ u.file = [t.file EXCEPT ![f].area = a]
      /\ u.block = t.block /\ u.free = t.free /\ u.flag = t.flag
  BY <1>1 DEF WellFormed
<1> HIDE DEF u
<1>3. /\ DOMAIN u.file = DOMAIN t.file
      /\ \A g \in Files \ {f} : u.file[g] = t.file[g]
      /\ u.file[f] = [t.file[f] EXCEPT !.area = a]
  BY <1>1, <1>2 DEF WellFormed
<1>4. /\ DOMAIN u.file[f] = DOMAIN t.file[f]
      /\ u.file[f].acl = t.file[f].acl /\ u.file[f].blocks = t.file[f].blocks
      /\ u.file[f].live = t.file[f].live /\ u.file[f].extra = t.file[f].extra
  BY <1>1, <1>3 DEF WellFormed
<1>5. WellFormed(u)
  BY <1>1, <1>2, <1>3, <1>4 DEF WellFormed
<1>6. Sound(u)
  BY <1>2, <1>3, <1>4, <1>5, QuietExact, Zenon DEF OthersKeep, CountedAlike
<1>7. SameInodes(t, u)
  BY <1>3, <1>4, Zenon DEF SameInodes
<1> QED
  BY <1>4, <1>6, <1>7 DEF u

\* Giving an inode its extra fields, as apply_setxattr does before anything else,
\* changes no count and never takes the fields away.
LEMMA WidenedSound ==
    ASSUME NEW t, NEW f \in Files, Sound(t)
    PROVE  LET u == Widened(t, f)
           IN  /\ Sound(u)
               /\ u.file[f].acl = t.file[f].acl
               /\ u.file[f].live = t.file[f].live
               /\ t.file[f].extra => u.file[f].extra
               /\ \A g \in Files \ {f} : u.file[g] = t.file[g]
<1>0. WellFormed(t)
  BY DEF Sound
<1>1. CASE t.file[f].extra \/ ~ t.file[f].wide
  BY <1>1 DEF Widened
<1>2. CASE ~ (t.file[f].extra \/ ~ t.file[f].wide)
  <2> DEFINE u == [t EXCEPT !.file[f].extra = TRUE, !.file[f].area = <<>>]
  <2>1. Widened(t, f) = u
    BY <1>2 DEF Widened
  <2>2. /\ DOMAIN u = DOMAIN t
        /\ u.file = [[t.file EXCEPT ![f].extra = TRUE] EXCEPT ![f].area = <<>>]
        /\ u.block = t.block /\ u.free = t.free /\ u.flag = t.flag
    BY <1>0 DEF WellFormed
  <2> HIDE DEF u
  <2>3. /\ DOMAIN u.file = DOMAIN t.file
        /\ \A g \in Files \ {f} : u.file[g] = t.file[g]
        /\ u.file[f] = [[t.file[f] EXCEPT !.extra = TRUE] EXCEPT !.area = <<>>]
    BY <1>0, <2>2, Zenon DEF WellFormed
  <2>4. /\ DOMAIN u.file[f] = DOMAIN t.file[f]
        /\ u.file[f].acl = t.file[f].acl /\ u.file[f].blocks = t.file[f].blocks
        /\ u.file[f].live = t.file[f].live /\ u.file[f].extra
    BY <1>0, <2>3 DEF WellFormed
  <2>5. WellFormed(u)
    BY <1>0, <2>2, <2>3, <2>4 DEF WellFormed
  <2>6. OthersKeep(t, u, f) /\ CountedAlike(t, u, {})
    BY <2>2, <2>3, Zenon DEF OthersKeep, CountedAlike
  <2>7. Sound(u)
    BY <2>2, <2>4, <2>5, <2>6, QuietExact, Zenon
  <2> QED
    BY <2>1, <2>3, <2>4, <2>7
<1> QED
  BY <1>1, <1>2

\* u is t with the block c taken.
Took(t, u, c) ==
    /\ WellFormed(u)
    /\ u.file = t.file /\ u.flag = t.flag /\ u.free = t.free - 1
    /\ \A b \in Blocks \ {c} : u.block[b] = t.block[b]
    /\ u.block[c].used /\ u.block[c].refs = 1

\* u is t with one reference to the block b given up.
Released(t, u, b) ==
    /\ WellFormed(u)
    /\ u.file = t.file /\ u.flag = t.flag
    /\ \A c \in Blocks \ {b} : u.block[c] = t.block[c]
    /\ IF t.block[b].refs <= 1
       THEN ~ u.block[b].used /\ u.block[b].refs = 0 /\ u.free = t.free + 1
       ELSE /\ u.block[b].used = t.block[b].used
            /\ u.block[b].refs = t.block[b].refs - 1
            /\ u.free = t.free

\* What allocating a block for attributes does to a volume.
LEMMA TakeFacts ==
    ASSUME NEW t, WellFormed(t), NEW c \in Blocks, NEW cells
    PROVE  Took(t, Take(t, c, cells), c)
BY Zenon DEF Take, WellFormed, Took

\* What buffer_release_xattr_block does to one.
LEMMA ReleaseFacts ==
    ASSUME NEW t, WellFormed(t), NEW b \in Blocks
    PROVE  Released(t, buffer_release_xattr_block(t, b), b)
<1>1. CASE t.block[b].refs <= 1
  BY <1>1, Zenon DEF buffer_release_xattr_block, WellFormed, Released
<1>2. CASE ~ (t.block[b].refs <= 1)
  BY <1>2, Zenon DEF buffer_release_xattr_block, WellFormed, Released
<1> QED
  BY <1>1, <1>2

\* Giving up the block of attributes keeps the counts exact.
LEMMA DropSound ==
    ASSUME NEW t, NEW f \in Files, Sound(t), t.file[f].acl # 0
    PROVE  Sound(DropBlock(t, f)) /\ SameInodes(t, DropBlock(t, f))
<1> DEFINE b == t.file[f].acl
           w == buffer_release_xattr_block(t, b)
           u == DropBlock(t, f)
<1>1. WellFormed(t) /\ b \in Blocks
  BY DEF Sound, WellFormed
<1>2. Released(t, w, b)
  BY <1>1, ReleaseFacts
<1>3. u = [[w EXCEPT !.file[f].acl = 0] EXCEPT !.file[f].blocks = w.file[f].blocks - 1]
  <2>1. u = [[w EXCEPT !.file[f].acl = 0] EXCEPT !.file[f].blocks = @ - 1]
    BY Zenon DEF DropBlock
  <2> HIDE DEF w, u
  <2> QED
    BY <1>2, <2>1, Zenon DEF WellFormed, Released
<1> HIDE DEF b, w, u
<1>4. /\ DOMAIN u = DOMAIN w
      /\ u.file = [[w.file EXCEPT ![f].acl = 0] EXCEPT ![f].blocks = w.file[f].blocks - 1]
      /\ u.block = w.block /\ u.free = w.free /\ u.flag = w.flag
  BY <1>2, <1>3 DEF WellFormed, Released
<1>5. /\ DOMAIN u.file = DOMAIN w.file
      /\ \A g \in Files \ {f} : u.file[g] = w.file[g]
      /\ u.file[f] = [[w.file[f] EXCEPT !.acl = 0] EXCEPT !.blocks = w.file[f].blocks - 1]
  BY <1>2, <1>4, Zenon DEF WellFormed, Released
<1>6. /\ DOMAIN u.file[f] = DOMAIN w.file[f]
      /\ u.file[f].acl = 0 /\ u.file[f].blocks = w.file[f].blocks - 1
      /\ u.file[f].live = w.file[f].live /\ u.file[f].extra = w.file[f].extra
  BY <1>2, <1>5 DEF WellFormed, Released
<1>7. WellFormed(u)
  BY <1>2, <1>4, <1>5, <1>6 DEF WellFormed, Released
<1>8. OthersKeep(t, u, f) /\ CountedAlike(t, u, {b})
  BY <1>2, <1>4, <1>5 DEF OthersKeep, CountedAlike, Released
<1>9. /\ u.file[f].blocks = t.file[f].blocks - 1 /\ u.flag = t.flag /\ t.file[f].acl = b
      /\ IF t.block[b].refs <= 1
         THEN ~ u.block[b].used /\ u.block[b].refs = 0 /\ u.free = t.free + 1
         ELSE /\ u.block[b].used = t.block[b].used
              /\ u.block[b].refs = t.block[b].refs - 1
              /\ u.free = t.free
  BY <1>2, <1>4, <1>6, Zenon DEF b, Released
<1>10. Sound(u)
  BY <1>1, <1>6, <1>7, <1>8, <1>9, DroppedExact
<1>11. SameInodes(t, u)
  BY <1>2, <1>5, <1>6, Zenon DEF SameInodes, Released
<1> QED
  BY <1>10, <1>11 DEF u

\* buffer_unshare_xattr_block: the copy on write of a shared block keeps them exact, or
\* stops for want of a free block.
LEMMA UnshareSound ==
    ASSUME NEW t, NEW f \in Files, Sound(t), t.file[f].acl # 0, NEW cells,
           t.block[t.file[f].acl].refs > 1
    PROVE  LET u == buffer_unshare_xattr_block(t, f, cells)
           IN  Sound(u) /\ SameInodes(t, u)
<1>1. CASE FreeBlocks(t) = {}
  BY <1>1, StopSound DEF buffer_unshare_xattr_block
<1>2. CASE FreeBlocks(t) # {}
  <2> DEFINE b == t.file[f].acl
             c == Min(FreeBlocks(t))
             v == Take(t, c, cells)
             w == buffer_release_xattr_block(v, b)
             u == [w EXCEPT !.file[f].acl = c]
  <2>0. buffer_unshare_xattr_block(t, f, cells) = u
    BY <1>2 DEF buffer_unshare_xattr_block
  <2>1. WellFormed(t) /\ b \in Blocks
    BY DEF Sound, WellFormed
  <2>2. c \in FreeBlocks(t) /\ c \in Blocks
    BY <1>2, MinFree, Zenon DEF FreeBlocks
  <2>3. f \in Referrers(t, b) /\ b # c
    <3>1. f \in Referrers(t, b)
      BY DEF Referrers
    <3>2. t.block[b].used
      BY <2>1, <3>1 DEF Sound, Exact
    <3> QED
      BY <2>2, <3>1, <3>2, Zenon DEF FreeBlocks
  <2> HIDE DEF b, c
  <2>4. Took(t, v, c)
    BY <2>1, <2>2, TakeFacts
  <2>5. Released(v, w, b)
    BY <2>1, <2>4, ReleaseFacts DEF Took
  <2> HIDE DEF v
  <2>6. v.block[b] = t.block[b] /\ t.block[b].refs > 1 /\ t.block[b].refs \in Nat
    <3>1. t.block[b].refs = Cardinality(Referrers(t, b))
      BY <2>1 DEF Sound, Exact
    <3> QED
      BY <2>1, <2>3, <2>4, <3>1, Finite DEF b, Took
  <2>7. /\ w.block[b].used = t.block[b].used /\ w.block[b].refs = t.block[b].refs - 1
        /\ w.free = t.free - 1
    BY <2>4, <2>5, <2>6 DEF Took, Released
  <2>8. /\ WellFormed(w) /\ w.file = t.file /\ w.flag = t.flag
        /\ \A d \in Blocks \ {b, c} : w.block[d] = t.block[d]
        /\ w.block[c].used /\ w.block[c].refs = 1
    BY <2>2, <2>3, <2>4, <2>5 DEF Took, Released
  <2> HIDE DEF w
  <2>9. /\ DOMAIN u = DOMAIN w
        /\ u.file = [w.file EXCEPT ![f].acl = c]
        /\ u.block = w.block /\ u.free = w.free /\ u.flag = w.flag
    BY <2>8 DEF WellFormed
  <2> HIDE DEF u
  <2>10. /\ DOMAIN u.file = DOMAIN w.file
         /\ \A g \in Files \ {f} : u.file[g] = t.file[g]
         /\ u.file[f] = [t.file[f] EXCEPT !.acl = c]
    BY <2>8, <2>9 DEF WellFormed
  <2>11. /\ DOMAIN u.file[f] = DOMAIN t.file[f]
         /\ u.file[f].acl = c /\ u.file[f].blocks = t.file[f].blocks
         /\ u.file[f].live = t.file[f].live /\ u.file[f].extra = t.file[f].extra
    BY <2>1, <2>10 DEF WellFormed
  <2>12. WellFormed(u)
    BY <2>1, <2>2, <2>8, <2>9, <2>10, <2>11 DEF WellFormed
  <2>13. /\ OthersKeep(t, u, f)
         /\ CountedAlike(t, u, {b, c})
         /\ SameInodes(t, u)
    <3>1. OthersKeep(t, u, f)
      BY <2>10, Zenon DEF OthersKeep
    <3>2. CountedAlike(t, u, {b, c})
      BY <2>8, <2>9, Zenon DEF CountedAlike
    <3>3. SameInodes(t, u)
      BY <2>10, <2>11, Zenon DEF SameInodes
    <3> QED
      BY <3>1, <3>2, <3>3
  <2>14. /\ u.block[b].used = t.block[b].used /\ u.block[b].refs = t.block[b].refs - 1
         /\ u.block[c].used /\ u.block[c].refs = 1 /\ u.free = t.free - 1 /\ u.flag = t.flag
         /\ t.file[f].acl = b
    BY <2>7, <2>8, <2>9, Zenon DEF b
  <2>15. Sound(u)
    BY <2>1, <2>2, <2>3, <2>6, <2>11, <2>12, <2>13, <2>14, MovedExact, SMTT(15)
  <2> QED
    BY <2>0, <2>13, <2>15
<1> QED
  BY <1>1, <1>2

\* Rewriting a block, in place or through a copy of a shared one, keeps them exact.
LEMMA RewriteSound ==
    ASSUME NEW t, NEW f \in Files, Sound(t), t.file[f].acl # 0, NEW cells
    PROVE  LET u == Rewrite(t, f, cells)
           IN  Sound(u) /\ SameInodes(t, u)
<1>1. CASE t.block[t.file[f].acl].refs > 1
  BY <1>1, UnshareSound DEF Rewrite
<1>2. CASE ~ (t.block[t.file[f].acl].refs > 1)
  <2> DEFINE b == t.file[f].acl
             u == [t EXCEPT !.block[b].cells = cells]
  <2>0. Rewrite(t, f, cells) = u
    BY <1>2 DEF Rewrite
  <2>1. WellFormed(t) /\ b \in Blocks
    BY DEF Sound, WellFormed
  <2> HIDE DEF b
  <2>2. /\ DOMAIN u = DOMAIN t
        /\ u.block = [t.block EXCEPT ![b].cells = cells]
        /\ u.file = t.file /\ u.free = t.free /\ u.flag = t.flag
    BY <2>1 DEF WellFormed
  <2> HIDE DEF u
  <2>3. /\ DOMAIN u.block = DOMAIN t.block
        /\ \A c \in Blocks \ {b} : u.block[c] = t.block[c]
        /\ u.block[b] = [t.block[b] EXCEPT !.cells = cells]
    BY <2>1, <2>2 DEF WellFormed
  <2>4. /\ DOMAIN u.block[b] = DOMAIN t.block[b]
        /\ u.block[b].used = t.block[b].used /\ u.block[b].refs = t.block[b].refs
    BY <2>1, <2>3 DEF WellFormed
  <2>5. WellFormed(u)
    BY <2>1, <2>2, <2>3, <2>4 DEF WellFormed
  <2>6. OthersKeep(t, u, f) /\ CountedAlike(t, u, {}) /\ SameInodes(t, u)
    BY <2>2, <2>3, <2>4 DEF OthersKeep, CountedAlike, SameInodes
  <2>7. Sound(u)
    BY <2>2, <2>5, <2>6, QuietExact
  <2> QED
    BY <2>0, <2>6, <2>7
<1> QED
  BY <1>1, <1>2

\* buffer_remove_from_external_block, which drops the block with its last attribute.
LEMMA RemoveExternalSound ==
    ASSUME NEW t, NEW f \in Files, Sound(t), NEW n
    PROVE  LET u == buffer_remove_from_external_block(t, f, n).t
           IN  Sound(u) /\ SameInodes(t, u)
<1> DEFINE b == t.file[f].acl
           r == plan_remove(t.block[b].cells, n, BlockUnits)
           x == buffer_remove_from_external_block(t, f, n)
<1> HIDE DEF r
<1>1. x = IF b = 0 \/ r.res = "notfound" THEN [t |-> t, found |-> FALSE]
          ELSE IF r.res = "empty" THEN [t |-> DropBlock(t, f), found |-> TRUE]
          ELSE IF r.res = "ok" THEN [t |-> Rewrite(t, f, r.cells), found |-> TRUE]
          ELSE [t |-> Stop(t, r.res), found |-> FALSE]
  BY DEF buffer_remove_from_external_block, r
<1> HIDE DEF x
<1>2. \/ x.t = t
      \/ b # 0 /\ x.t = DropBlock(t, f)
      \/ b # 0 /\ x.t = Rewrite(t, f, r.cells)
      \/ x.t = Stop(t, r.res)
  BY <1>1
<1>3. SameInodes(t, t)
  BY DEF SameInodes
<1>4. Sound(x.t) /\ SameInodes(t, x.t)
  BY <1>2, <1>3, DropSound, RewriteSound, StopSound
<1> QED
  BY <1>4 DEF x

\* Taking the first block of a file's attributes.
LEMMA GainSound ==
    ASSUME NEW t, NEW f \in Files, Sound(t), t.flag, t.file[f].acl = 0, FreeBlocks(t) # {},
           NEW cells
    PROVE  LET c == Min(FreeBlocks(t))
               u == [Take(t, c, cells) EXCEPT !.file[f].acl = c, !.file[f].blocks = @ + 1]
           IN  Sound(u) /\ SameInodes(t, u)
<1> DEFINE c == Min(FreeBlocks(t))
           w == Take(t, c, cells)
           u == [w EXCEPT !.file[f].acl = c, !.file[f].blocks = @ + 1]
<1>1. WellFormed(t)
  BY DEF Sound
<1>2. c \in FreeBlocks(t) /\ c \in Blocks
  BY MinFree, Zenon DEF FreeBlocks
<1> HIDE DEF c
<1>3. Took(t, w, c)
  BY <1>1, <1>2, TakeFacts
<1> HIDE DEF w
<1>4. /\ DOMAIN u = DOMAIN w
      /\ u.file = [[w.file EXCEPT ![f].acl = c] EXCEPT ![f].blocks = w.file[f].blocks + 1]
      /\ u.block = w.block /\ u.free = w.free /\ u.flag = w.flag
  BY <1>3, Zenon DEF WellFormed, Took
<1> HIDE DEF u
<1>5. /\ DOMAIN u.file = DOMAIN t.file
      /\ \A g \in Files \ {f} : u.file[g] = t.file[g]
      /\ u.file[f] = [[t.file[f] EXCEPT !.acl = c] EXCEPT !.blocks = t.file[f].blocks + 1]
  <2>1. u.file = [[t.file EXCEPT ![f].acl = c] EXCEPT ![f].blocks = t.file[f].blocks + 1]
    BY <1>3, <1>4 DEF Took
  <2> QED
    BY <1>1, <2>1, Zenon DEF WellFormed
<1>6. /\ DOMAIN u.file[f] = DOMAIN t.file[f]
      /\ u.file[f].acl = c /\ u.file[f].blocks = t.file[f].blocks + 1
      /\ u.file[f].live = t.file[f].live /\ u.file[f].extra = t.file[f].extra
  BY <1>1, <1>5 DEF WellFormed
<1>7. WellFormed(u)
  <2>1. \A g \in Files : DOMAIN u.file[g] = DOMAIN t.file[g] /\ u.file[g].acl \in Blocks \cup {0}
    BY <1>1, <1>2, <1>5, <1>6, Zenon DEF WellFormed
  <2> QED
    BY <1>1, <1>3, <1>4, <1>5, <2>1 DEF WellFormed, Took
<1>8. OthersKeep(t, u, f) /\ CountedAlike(t, u, {c}) /\ SameInodes(t, u)
  BY <1>3, <1>4, <1>5, <1>6 DEF OthersKeep, CountedAlike, SameInodes, Took
<1>9. u.block[c].used /\ u.block[c].refs = 1 /\ u.free = t.free - 1 /\ u.flag
  BY <1>3, <1>4 DEF Took
<1>10. Sound(u)
  BY <1>2, <1>6, <1>7, <1>8, <1>9, GainedExact
<1> QED
  BY <1>8, <1>10 DEF u, w, c

\* apply_setxattr_external_block, whether the file has a block, needs one or finds none.
LEMMA SetExternalSound ==
    ASSUME NEW t0, NEW f \in Files, Sound(t0), NEW n, NEW v
    PROVE  LET u == apply_setxattr_external_block(t0, f, n, v)
           IN  Sound(u) /\ SameInodes(t0, u)
<1> DEFINE t == [t0 EXCEPT !.flag = TRUE]
           b == t.file[f].acl
           c == Min(FreeBlocks(t))
           r == plan_set(IF b = 0 THEN <<>> ELSE t.block[b].cells, n, v, BlockUnits)
           u == apply_setxattr_external_block(t0, f, n, v)
           w == [Take(t, c, r.cells) EXCEPT !.file[f].acl = c, !.file[f].blocks = @ + 1]
<1>1. Sound(t) /\ SameInodes(t0, t) /\ t.flag
  BY FlagSound
<1>2. u = IF b = 0 /\ FreeBlocks(t) = {} THEN Stop(t, "nospace")
          ELSE IF r.res # "ok" THEN Stop(t, r.res)
          ELSE IF b # 0 THEN Rewrite(t, f, r.cells)
          ELSE w
  BY DEF apply_setxattr_external_block
<1>3. ASSUME b = 0, FreeBlocks(t) # {} PROVE Sound(w) /\ SameInodes(t, w)
  <2> HIDE DEF t, r
  <2> QED
    BY <1>1, <1>3, GainSound, Zenon
<1> HIDE DEF t, r, u, w
<1>4. \/ u = Stop(t, "nospace")
      \/ u = Stop(t, r.res)
      \/ b # 0 /\ u = Rewrite(t, f, r.cells)
      \/ b = 0 /\ FreeBlocks(t) # {} /\ u = w
  BY <1>2
<1>5. Sound(u) /\ SameInodes(t, u)
  BY <1>1, <1>3, <1>4, StopSound, RewriteSound
<1>6. SameInodes(t0, u)
  BY <1>1, <1>5 DEF SameInodes
<1> QED
  BY <1>5, <1>6 DEF u

\* An attribute that no longer fits in the inode moves to the block.
LEMMA SpillSound ==
    ASSUME NEW t, NEW f \in Files, Sound(t), NEW n, NEW v
    PROVE  LET u == Spill(t, f, n, v)
           IN  Sound(u) /\ SameInodes(t, u)
<1> DEFINE r == plan_remove(t.file[f].area, n, AreaUnits)
           w == IF t.file[f].extra THEN [t EXCEPT !.file[f].area = r.cells] ELSE t
           u == Spill(t, f, n, v)
<1>1. u = IF t.file[f].extra /\ r.res \in {"invalid", "unsupported"} THEN Stop(t, r.res)
          ELSE apply_setxattr_external_block(w, f, n, v)
  BY DEF Spill
<1> HIDE DEF r, u
<1>2. Sound(w) /\ SameInodes(t, w)
  <2>1. SameInodes(t, t)
    BY DEF SameInodes
  <2> QED
    BY <2>1, AreaSound
<1> HIDE DEF w
<1>3. u = Stop(t, r.res) \/ u = apply_setxattr_external_block(w, f, n, v)
  BY <1>1
<1>4. CASE u = Stop(t, r.res)
  BY <1>4, StopSound DEF u
<1>5. CASE u = apply_setxattr_external_block(w, f, n, v)
  <2>1. Sound(u) /\ SameInodes(w, u)
    BY <1>2, <1>5, SetExternalSound
  <2>2. SameInodes(t, u)
    BY <1>2, <2>1 DEF SameInodes
  <2> QED
    BY <2>1, <2>2 DEF u
<1> QED
  BY <1>3, <1>4, <1>5

\* The whole of a setxattr, whichever of its ways it takes.
LEMMA SetSound ==
    ASSUME NEW t0, NEW f \in Files, Sound(t0), NEW n, NEW v
    PROVE  LET u == SetStaged(t0, f, n, v)
           IN  Sound(u) /\ SameInodes(Widened(t0, f), u)
<1> DEFINE t == Widened(t0, f)
           r == IF t.file[f].extra THEN plan_set(t.file[f].area, n, v, AreaUnits)
                ELSE [res |-> "nospace", cells |-> <<>>]
           w == [t EXCEPT !.file[f].area = r.cells]
           u == SetStaged(t0, f, n, v)
<1>1. Sound(t)
  BY WidenedSound
<1>2. u = IF r.res = "ok" THEN buffer_remove_from_external_block(w, f, n).t
          ELSE IF r.res = "nospace" THEN Spill(t, f, n, v)
          ELSE Stop(t, r.res)
  BY DEF SetStaged
<1> HIDE DEF t, r, u
<1>3. Sound(w) /\ SameInodes(t, w)
  BY <1>1, AreaSound
<1> HIDE DEF w
<1>4. CASE u = buffer_remove_from_external_block(w, f, n).t
  <2>1. Sound(u) /\ SameInodes(w, u)
    BY <1>3, <1>4, RemoveExternalSound
  <2>2. SameInodes(t, u)
    BY <1>3, <2>1 DEF SameInodes
  <2> QED
    BY <2>1, <2>2 DEF u, t
<1>5. CASE u = Spill(t, f, n, v)
  BY <1>1, <1>5, SpillSound DEF u, t
<1>6. CASE u = Stop(t, r.res)
  BY <1>1, <1>6, StopSound DEF u, t
<1> QED
  BY <1>2, <1>4, <1>5, <1>6

\* The whole of a removexattr.
LEMMA RemoveSound ==
    ASSUME NEW t, NEW f \in Files, Sound(t), NEW n
    PROVE  LET u == RemoveStaged(t, f, n)
           IN  Sound(u) /\ SameInodes(t, u)
<1> DEFINE r == plan_remove(t.file[f].area, n, AreaUnits)
           in == t.file[f].extra /\ r.res \in {"ok", "empty"}
           w == IF in THEN [t EXCEPT !.file[f].area = r.cells] ELSE t
           x == buffer_remove_from_external_block(w, f, n)
           u == RemoveStaged(t, f, n)
<1>1. u = IF t.file[f].extra /\ r.res \in {"invalid", "unsupported"} THEN Stop(t, r.res)
          ELSE IF x.t.bad # "" THEN x.t
          ELSE IF ~ in /\ ~ x.found THEN Stop(t, "notfound")
          ELSE x.t
  BY DEF RemoveStaged
<1> HIDE DEF r, u
<1>2. Sound(w) /\ SameInodes(t, w)
  <2>1. SameInodes(t, t)
    BY DEF SameInodes
  <2> QED
    BY <2>1, AreaSound
<1> HIDE DEF w
<1>3. Sound(x.t) /\ SameInodes(w, x.t)
  BY <1>2, RemoveExternalSound
<1> HIDE DEF x, in
<1>4. u = Stop(t, r.res) \/ u = Stop(t, "notfound") \/ u = x.t
  BY <1>1, Zenon
<1>5. SameInodes(t, x.t)
  BY <1>2, <1>3 DEF SameInodes
<1>6. Sound(u) /\ SameInodes(t, u)
  BY <1>3, <1>4, <1>5, StopSound
<1> QED
  BY <1>6 DEF u

----------------------------------------------------------------------------
(* Encodings *)

\* Quotient and remainder are the only numbers that divide and remain.
LEMMA DivMod ==
    ASSUME NEW d \in Nat \ {0}, NEW q \in Int, NEW r \in 0 .. d - 1
    PROVE  (q * d + r) \div d = q /\ (q * d + r) % d = r
OBVIOUS

\* Every number has them.
LEMMA Split ==
    ASSUME NEW a \in Int, NEW d \in Nat \ {0}
    PROVE  \E q \in Int, r \in 0 .. d - 1 : a = q * d + r /\ a \div d = q /\ a % d = r
<1> DEFINE q == a \div d
           r == a % d
<1>1. q \in Int
  OBVIOUS
<1>2. r \in 0 .. d - 1
  OBVIOUS
<1>3. q = a \div d /\ r = a % d
  OBVIOUS
<1> HIDE DEF q, r
<1>4. a = q * d + r
  BY <1>1, <1>2, <1>3
<1> QED
  BY <1>1, <1>2, <1>3, <1>4, Zenon

\* The two halves of an owner, as apply_chown stores them, give it back.
LEMMA Halves ==
    ASSUME NEW id \in Nat
    PROVE  (id \div Half) * Half + (id % Half) = id
<1> DEFINE q == id \div Half
           r == id % Half
<1>1. q \in Int /\ r \in 0 .. Half - 1 /\ q = id \div Half /\ r = id % Half
  BY Widths
<1> HIDE DEF q, r
<1>2. q * Half + r = id
  BY <1>1, Widths
<1> QED
  BY <1>2 DEF q, r

\* A time the format can store is in one of eight half windows.
LEMMA HalfWindow ==
    ASSUME NEW sec \in Int, MinTime <= sec, sec <= MaxTime
    PROVE  \E j \in -1 .. 6, r \in 0 .. HalfEra - 1 :
              sec = j * HalfEra + r /\ sec \div HalfEra = j
<1>1. HalfEra \in Nat /\ HalfEra > 0
  BY Widths
<1>2. PICK j \in Int, r \in 0 .. HalfEra - 1 : sec = j * HalfEra + r /\ sec \div HalfEra = j
  BY <1>1, Split
<1>3. -HalfEra <= sec /\ sec < 7 * HalfEra
  BY <1>1 DEF MinTime, MaxTime, Era
<1>4. j >= -1
  BY <1>1, <1>2, <1>3
<1>5. j <= 6
  BY <1>1, <1>2, <1>3
<1> QED
  BY <1>2, <1>4, <1>5

\* unpack_seconds undoes pack_seconds for every time the format can store,
\* and a time of era 0 fits in the base field.
LEMMA PackExact ==
    ASSUME NEW sec \in Int, MinTime <= sec, sec <= MaxTime
    PROVE  /\ unpack_seconds(pack_seconds(sec).base, pack_seconds(sec).era) = sec
           /\ pack_seconds(sec).era = 0 => sec < HalfEra
<1>1. HalfEra \in Nat /\ HalfEra > 0
  BY Widths
<1>2. PICK j \in -1 .. 6, r \in 0 .. HalfEra - 1 :
           sec = j * HalfEra + r /\ sec \div HalfEra = j
  BY HalfWindow
<1> DEFINE e == ((j + 1) \div 2) % 4
           b == sec % Era
<1>3. pack_seconds(sec).base = b /\ pack_seconds(sec).era = e
  BY <1>2 DEF pack_seconds
<1>4. CASE j \in {0, 2, 4, 6}
  <2>1. e \in 0 .. 3 /\ j = 2 * e
    BY <1>4
  <2> HIDE DEF e
  <2>2. sec = e * Era + r /\ Era \in Nat \ {0} /\ r \in 0 .. Era - 1
    BY <1>1, <1>2, <2>1 DEF Era
  <2>3. b = r
    BY <2>1, <2>2, DivMod
  <2>4. unpack_seconds(b, e) = sec
    <3>1. b < HalfEra /\ b \in Int /\ e * Era \in Int /\ sec = b + e * Era
      BY <1>1, <2>1, <2>2, <2>3
    <3> HIDE DEF b
    <3> QED
      BY <1>1, <3>1 DEF unpack_seconds
  <2>5. e = 0 => sec < HalfEra
    BY <1>1, <2>2
  <2> QED
    BY <1>3, <2>4, <2>5
<1>5. CASE j \in {-1, 1, 3, 5}
  <2>1. e \in 0 .. 3 /\ j = 2 * e - 1
    BY <1>5
  <2> HIDE DEF e
  <2>2. /\ sec = (e - 1) * Era + (r + HalfEra) /\ Era \in Nat \ {0}
        /\ r + HalfEra \in 0 .. Era - 1
    BY <1>1, <1>2, <2>1 DEF Era
  <2>3. b = r + HalfEra
    <3> DEFINE k == e - 1
               m == r + HalfEra
    <3>1. k \in Int /\ m \in 0 .. Era - 1 /\ sec = k * Era + m
      BY <2>1, <2>2
    <3> HIDE DEF k, m
    <3>2. (k * Era + m) % Era = m
      BY <2>2, <3>1, DivMod, Zenon
    <3> QED
      BY <3>1, <3>2, Zenon DEF m
  <2>4. unpack_seconds(b, e) = sec
    <3>1. (e - 1) * Era = e * Era - Era /\ e * Era \in Int
      <4> e \in {0, 1, 2, 3} /\ Era \in Int
        BY <2>1, <2>2
      <4> QED
        OBVIOUS
    <3>2. b >= HalfEra /\ b \in Int /\ sec = b - Era + e * Era
      BY <1>1, <2>2, <2>3, <3>1
    <3> HIDE DEF b
    <3> QED
      BY <1>1, <2>2, <3>1, <3>2 DEF unpack_seconds
  <2>5. e = 0 => sec < HalfEra
    BY <1>1, <2>2 DEF Era
  <2> QED
    BY <1>3, <2>4, <2>5
<1> QED
  BY <1>4, <1>5

\* The base field alone gives back a time that fits in it.
LEMMA BaseExact ==
    ASSUME NEW sec \in Int, MinTime <= sec, sec < HalfEra
    PROVE  unpack_seconds(sec % Era, 0) = sec
<1>1. HalfEra \in Nat /\ HalfEra > 0 /\ Era \in Nat \ {0} /\ Era = 2 * HalfEra
  BY Widths DEF Era
<1>2. CASE sec >= 0
  <2>1. sec = 0 * Era + sec /\ sec \in 0 .. Era - 1
    BY <1>1, <1>2
  <2>2. sec % Era = sec
    BY <1>1, <2>1, DivMod
  <2> QED
    BY <1>1, <1>2, <2>2 DEF unpack_seconds
<1>3. CASE sec < 0
  <2>1. sec = (-1) * Era + (sec + Era) /\ sec + Era \in 0 .. Era - 1
    BY <1>1, <1>3 DEF MinTime
  <2>2. sec % Era = sec + Era
    BY <1>1, <2>1, DivMod
  <2> QED
    BY <1>1, <1>3, <2>2 DEF unpack_seconds, MinTime
<1> QED
  BY <1>2, <1>3

----------------------------------------------------------------------------
(* The fields of an inode *)

\* x is s with its time t reading v.
Retimed(s, x, t, v) ==
    /\ InodeLayout(x)
    /\ x.isize = s.isize /\ x.type = s.type /\ x.perm = s.perm /\ x.flags = s.flags
    /\ x.uid = s.uid /\ x.gid = s.gid
    /\ TimeOf(x, t) = v
    /\ \A k \in {"a", "m", "c"} \ {t} : TimeOf(x, k) = TimeOf(s, k)

\* Then its stat differs in that time only.
LEMMA ParseRetimed ==
    ASSUME NEW s, NEW x, NEW t \in {"a", "m", "c"}, NEW v, Retimed(s, x, t, v)
    PROVE  Parse(x) = [Parse(s) EXCEPT !.time[t] = v]
<1> DEFINE T(y) == [k \in {"a", "m", "c"} |-> TimeOf(y, k)]
<1>1. T(x) = [T(s) EXCEPT ![t] = v]
  BY Zenon DEF Retimed
<1>2. Parse(s).time = T(s) /\ Parse(x).time = T(x)
  BY DEF Parse
<1>3. [Parse(s) EXCEPT !.time[t] = v] = [Parse(s) EXCEPT !.time = [T(s) EXCEPT ![t] = v]]
  BY <1>2, Zenon
<1> HIDE DEF T
<1>4. Parse(x) = [Parse(s) EXCEPT !.time = T(x)]
  <2>1. /\ Parse(s) = [type |-> s.type, perm |-> s.perm, flags |-> s.flags,
                       uid |-> s.uid[2] * Half + s.uid[1], gid |-> s.gid[2] * Half + s.gid[1],
                       time |-> T(s)]
        /\ Parse(x) = [type |-> s.type, perm |-> s.perm, flags |-> s.flags,
                       uid |-> s.uid[2] * Half + s.uid[1], gid |-> s.gid[2] * Half + s.gid[1],
                       time |-> T(x)]
    BY Zenon DEF Parse, Retimed, T
  <2> QED
    BY <2>1
<1> QED
  BY <1>1, <1>3, <1>4

\* Fields whose base and extra words are written together.
LEMMA WriteTime ==
    ASSUME NEW s, InodeLayout(s), NEW t \in {"a", "m", "c"}, extra_field_fits(s, t),
           NEW base, NEW ns, NEW era
    PROVE  Retimed(s, [s EXCEPT !.base[t] = base, !.ext[t] = [ns |-> ns, era |-> era]],
                   t, <<unpack_seconds(base, era), ns>>)
<1> DEFINE x == [s EXCEPT !.base[t] = base, !.ext[t] = [ns |-> ns, era |-> era]]
<1>1. /\ DOMAIN x = DOMAIN s
      /\ x.base = [s.base EXCEPT ![t] = base]
      /\ x.ext = [s.ext EXCEPT ![t] = [ns |-> ns, era |-> era]]
      /\ x.isize = s.isize /\ x.type = s.type /\ x.perm = s.perm /\ x.flags = s.flags
      /\ x.uid = s.uid /\ x.gid = s.gid
  BY DEF InodeLayout
<1> HIDE DEF x
<1>2. /\ DOMAIN x.base = DOMAIN s.base /\ DOMAIN x.ext = DOMAIN s.ext
      /\ x.base[t] = base /\ x.ext[t].ns = ns /\ x.ext[t].era = era
      /\ \A k \in {"a", "m", "c"} \ {t} : x.base[k] = s.base[k] /\ x.ext[k] = s.ext[k]
  BY <1>1 DEF InodeLayout
<1>3. InodeLayout(x)
  BY <1>1, <1>2 DEF InodeLayout
<1>4. \A k : extra_field_fits(x, k) <=> extra_field_fits(s, k)
  BY <1>1 DEF extra_field_fits
<1>5. TimeOf(x, t) = <<unpack_seconds(base, era), ns>>
  BY <1>2, <1>4 DEF TimeOf
<1>6. \A k \in {"a", "m", "c"} \ {t} : TimeOf(x, k) = TimeOf(s, k)
  BY <1>2, <1>4 DEF TimeOf
<1> QED
  BY <1>1, <1>3, <1>5, <1>6 DEF Retimed, x

\* A base word written where the inode has no extra one.
LEMMA WriteBase ==
    ASSUME NEW s, InodeLayout(s), NEW t \in {"a", "m", "c"}, ~ extra_field_fits(s, t), NEW base
    PROVE  Retimed(s, [s EXCEPT !.base[t] = base], t, <<unpack_seconds(base, 0), 0>>)
<1> DEFINE x == [s EXCEPT !.base[t] = base]
<1>1. /\ DOMAIN x = DOMAIN s
      /\ x.base = [s.base EXCEPT ![t] = base]
      /\ x.ext = s.ext
      /\ x.isize = s.isize /\ x.type = s.type /\ x.perm = s.perm /\ x.flags = s.flags
      /\ x.uid = s.uid /\ x.gid = s.gid
  BY DEF InodeLayout
<1> HIDE DEF x
<1>2. /\ DOMAIN x.base = DOMAIN s.base
      /\ x.base[t] = base
      /\ \A k \in {"a", "m", "c"} \ {t} : x.base[k] = s.base[k]
  BY <1>1 DEF InodeLayout
<1>3. InodeLayout(x)
  BY <1>1, <1>2 DEF InodeLayout
<1>4. \A k : extra_field_fits(x, k) <=> extra_field_fits(s, k)
  BY <1>1 DEF extra_field_fits
<1>5. TimeOf(x, t) = <<unpack_seconds(base, 0), 0>>
  BY <1>2, <1>4 DEF TimeOf
<1>6. \A k \in {"a", "m", "c"} \ {t} : TimeOf(x, k) = TimeOf(s, k)
  BY <1>1, <1>2, <1>4 DEF TimeOf
<1> QED
  BY <1>1, <1>3, <1>5, <1>6 DEF Retimed, x

\* set_inode_time: the time reads back as the nearest one the inode can hold.
LEMMA SetTime ==
    ASSUME NEW s, InodeLayout(s), NEW t \in {"a", "m", "c"}, NEW sec \in Int
    PROVE  Retimed(s, set_inode_time(s, t, sec), t, Stamp(s, t, sec))
<1>1. CASE extra_field_fits(s, t)
  <2> DEFINE c == Clamp(sec, MinTime, MaxTime)
             p == pack_seconds(c)
  <2>1. c \in Int /\ MinTime <= c /\ c <= MaxTime
    BY Widths DEF Clamp, MinTime, MaxTime, Era
  <2>2. unpack_seconds(p.base, p.era) = c
    BY <2>1, PackExact
  <2>3. Stamp(s, t, sec) = <<c, 0>>
    BY <1>1 DEF Stamp
  <2>4. set_inode_time(s, t, sec)
          = [s EXCEPT !.base[t] = p.base, !.ext[t] = [ns |-> 0, era |-> p.era]]
    BY <1>1 DEF set_inode_time
  <2> HIDE DEF c, p
  <2> QED
    <3>1. Retimed(s, [s EXCEPT !.base[t] = p.base, !.ext[t] = [ns |-> 0, era |-> p.era]],
                  t, <<unpack_seconds(p.base, p.era), 0>>)
      BY <1>1, WriteTime, Zenon
    <3> QED
      BY <2>2, <2>3, <2>4, <3>1
<1>2. CASE ~ extra_field_fits(s, t)
  <2> DEFINE c == Clamp(sec, MinTime, HalfEra - 1)
  <2>1. c \in Int /\ MinTime <= c /\ c < HalfEra
    BY Widths DEF Clamp, MinTime
  <2>2. unpack_seconds(c % Era, 0) = c
    BY <2>1, BaseExact
  <2>3. Stamp(s, t, sec) = <<c, 0>>
    BY <1>2 DEF Stamp
  <2>4. set_inode_time(s, t, sec) = [s EXCEPT !.base[t] = c % Era]
    BY <1>2 DEF set_inode_time
  <2> HIDE DEF c
  <2> QED
    BY <1>2, <2>2, <2>3, <2>4, WriteBase
<1> QED
  BY <1>1, <1>2

\* Whether a time utimens was asked for can be written as it is.
Storable(s, t, u) ==
    \/ u.kind = "omit"
    \/ /\ u.kind = "set" /\ u.sec \in Int /\ MinTime <= u.sec /\ u.sec <= MaxTime
       /\ ~ Unstorable(s, t, u)

\* What a stat reads then.
Asked(s, t, u) ==
    IF u.kind = "omit" THEN TimeOf(s, t)
    ELSE <<u.sec, IF extra_field_fits(s, t) THEN u.ns ELSE 0>>

\* apply_utimens: a time that is not refused reads back as it was asked for.
LEMMA PutTime ==
    ASSUME NEW s, InodeLayout(s), NEW t \in {"a", "m", "c"}, NEW u, Storable(s, t, u)
    PROVE  Retimed(s, Put(s, t, u), t, Asked(s, t, u))
<1> DEFINE p == pack_seconds(u.sec)
<1>1. CASE u.kind = "omit"
  BY <1>1 DEF Put, Asked, Retimed
<1>2. CASE u.kind # "omit"
  <2>1. u.sec \in Int /\ MinTime <= u.sec /\ u.sec <= MaxTime /\ u.kind = "set"
    BY <1>2 DEF Storable
  <2>2. unpack_seconds(p.base, p.era) = u.sec /\ (p.era = 0 => u.sec < HalfEra)
    BY <2>1, PackExact
  <2>3. CASE extra_field_fits(s, t)
    <3>1. Put(s, t, u) = [s EXCEPT !.base[t] = p.base, !.ext[t] = [ns |-> u.ns, era |-> p.era]]
      BY <1>2, <2>3 DEF Put
    <3>2. Asked(s, t, u) = <<u.sec, u.ns>>
      BY <1>2, <2>3 DEF Asked
    <3> HIDE DEF p
    <3>3. Retimed(s, [s EXCEPT !.base[t] = p.base, !.ext[t] = [ns |-> u.ns, era |-> p.era]],
                  t, <<unpack_seconds(p.base, p.era), u.ns>>)
      BY <2>3, WriteTime, Zenon
    <3> QED
      BY <2>2, <3>1, <3>2, <3>3
  <2>4. CASE ~ extra_field_fits(s, t)
    <3>1. Put(s, t, u) = [s EXCEPT !.base[t] = p.base]
      BY <1>2, <2>4 DEF Put
    <3>2. Asked(s, t, u) = <<u.sec, 0>>
      BY <1>2, <2>4 DEF Asked
    <3>3. p.era = 0
      BY <1>2, <2>1, <2>4 DEF Storable, Unstorable
    <3> HIDE DEF p
    <3>4. Retimed(s, [s EXCEPT !.base[t] = p.base], t, <<unpack_seconds(p.base, 0), 0>>)
      BY <2>4, WriteBase
    <3>5. unpack_seconds(p.base, 0) = u.sec
      BY <2>2, <3>3
    <3> QED
      BY <3>1, <3>2, <3>4, <3>5
  <2> QED
    BY <2>3, <2>4
<1> QED
  BY <1>1, <1>2

\* The extra fields setxattr gives an inode, cleared, change no time.
LEMMA WideParse ==
    ASSUME NEW s, InodeLayout(s), s.isize = 0
    PROVE  InodeLayout(WideStat(s)) /\ WideStat(s).isize = 32 /\ Parse(WideStat(s)) = Parse(s)
<1> DEFINE x == WideStat(s)
<1>1. /\ DOMAIN x = DOMAIN s /\ x.isize = 32 /\ x.base = s.base
      /\ x.ext = [t \in {"a", "m", "c"} |-> [ns |-> 0, era |-> 0]]
      /\ x.type = s.type /\ x.perm = s.perm /\ x.flags = s.flags
      /\ x.uid = s.uid /\ x.gid = s.gid
  BY DEF WideStat, InodeLayout
<1> HIDE DEF x
<1>2. InodeLayout(x)
  BY <1>1 DEF InodeLayout
<1>3. \A t \in {"a", "m", "c"} : extra_field_fits(x, t) /\ ~ extra_field_fits(s, t)
  BY <1>1 DEF extra_field_fits, Need
<1>4. \A t \in {"a", "m", "c"} : TimeOf(x, t) = TimeOf(s, t)
  BY <1>1, <1>3 DEF TimeOf
<1>5. Parse(x) = Parse(s)
  <2>1. [t \in {"a", "m", "c"} |-> TimeOf(x, t)] = [t \in {"a", "m", "c"} |-> TimeOf(s, t)]
    BY <1>4
  <2> QED
    BY <1>1, <2>1, Zenon DEF Parse
<1> QED
  BY <1>1, <1>2, <1>5 DEF x

\* A stat with a time written as it was is the stat it was.
LEMMA SameTime ==
    ASSUME NEW s
    PROVE  [Parse(s) EXCEPT !.time["c"] = Parse(s).time["c"]] = Parse(s)
<1> DEFINE T == [t \in {"a", "m", "c"} |-> TimeOf(s, t)]
<1>1. \E ty, pe, fl, ui, gi : Parse(s) = [type |-> ty, perm |-> pe, flags |-> fl, uid |-> ui,
                                          gid |-> gi, time |-> T]
  BY Zenon DEF Parse
<1>2. PICK ty, pe, fl, ui, gi : Parse(s) = [type |-> ty, perm |-> pe, flags |-> fl, uid |-> ui,
                                            gid |-> gi, time |-> T]
  BY <1>1, Zenon
<1>3. T = [T EXCEPT !["c"] = T["c"]]
  OBVIOUS
<1> HIDE DEF T
<1> QED
  BY <1>2, <1>3

----------------------------------------------------------------------------
(* The inductive invariant *)

\* The inodes are laid out as the format says, and the ones with extra fields
\* are the ones whose i_extra_isize is not 0.
StatInv ==
    /\ DOMAIN stat = Files
    /\ DOMAIN told = Files
    /\ \A f \in Files : InodeLayout(stat[f])
    /\ \A f \in Files : vol.file[f].live => (vol.file[f].extra <=> stat[f].isize # 0)

\* The inductive invariant: the counts are exact, every inode is laid out, and a stat
\* reads what the caller was told.
AllInv == Sound(vol) /\ StatInv /\ StatAsSet

\* It holds of the volumes a mount may find.
LEMMA InvInit == AllInit => AllInv
<1> SUFFICES ASSUME AllInit PROVE AllInv
  OBVIOUS
<1>1. Sound(vol)
  BY XattrStartsSound DEF AllInit, Init, Sound
<1>2. StatInv
  BY InodesLaidOut DEF AllInit, StatInv
<1>3. StatAsSet
  <2> SUFFICES ASSUME NEW f \in Files
               PROVE  told[f] = [Parse(stat[f]) EXCEPT !.time["c"] =
                                    IF f \in late THEN told[f].time["c"] ELSE @]
    BY Zenon DEF StatAsSet
  <2>1. told[f] = Parse(stat[f]) /\ f \notin late
    BY DEF AllInit
  <2> QED
    BY <2>1, SameTime, Zenon
<1> QED
  BY <1>1, <1>2, <1>3 DEF AllInv

\* A stat with another ctime, and with other permission bits, flags, owners or times too.
Timed(p, v) == [p EXCEPT !.time["c"] = v]
Reset(p, perm) == [p EXCEPT !.perm = perm]
Flagged(p, flags) == [p EXCEPT !.flags = flags]
Owned(p, uid, gid) == [p EXCEPT !.uid = uid, !.gid = gid]
TimedPerm(p, perm, v) == [p EXCEPT !.perm = perm, !.time["c"] = v]
TimedFlags(p, flags, v) == [p EXCEPT !.flags = flags, !.time["c"] = v]
TimedOwners(p, uid, gid, v) == [p EXCEPT !.uid = uid, !.gid = gid, !.time["c"] = v]

\* A change that writes ctime takes up one that did not.
LEMMA Restamped ==
    ASSUME NEW s, NEW x, NEW v
    PROVE  Timed(Timed(Parse(s), x), v) = Timed(Parse(s), v)
<1> DEFINE T == [t \in {"a", "m", "c"} |-> TimeOf(s, t)]
           X == [T EXCEPT !["c"] = x]
           V == [T EXCEPT !["c"] = v]
           q == [Parse(s) EXCEPT !.time["c"] = x]
<1>1. PICK ty, pe, fl, ui, gi : Parse(s) = [type |-> ty, perm |-> pe, flags |-> fl, uid |-> ui,
                                            gid |-> gi, time |-> T]
  BY Zenon DEF Parse
<1>2. [X EXCEPT !["c"] = v] = V
  OBVIOUS
<1> HIDE DEF T
<1>3. q = [type |-> ty, perm |-> pe, flags |-> fl, uid |-> ui, gid |-> gi, time |-> X]
  BY <1>1
<1> HIDE DEF X, V, q
<1>4. q = [type |-> ty, perm |-> pe, flags |-> fl, uid |-> ui, gid |-> gi, time |-> X]
  BY <1>3
<1>5. Parse(s) = [type |-> ty, perm |-> pe, flags |-> fl, uid |-> ui, gid |-> gi, time |-> T]
  BY <1>1
<1>6. [q EXCEPT !.time["c"] = v] = [type |-> ty, perm |-> pe, flags |-> fl, uid |-> ui, gid |-> gi, time |-> V]
  BY <1>2, <1>4
<1>7. [Parse(s) EXCEPT !.time["c"] = v] = [type |-> ty, perm |-> pe, flags |-> fl, uid |-> ui, gid |-> gi, time |-> V]
  BY <1>5 DEF V
<1> QED
  BY <1>6, <1>7, Zenon DEF Timed, q

\* With permission bits.
LEMMA RestampedPerm ==
    ASSUME NEW s, NEW x, NEW v, NEW perm
    PROVE  TimedPerm(Timed(Parse(s), x), perm, v) = Timed(Reset(Parse(s), perm), v)
<1> DEFINE T == [t \in {"a", "m", "c"} |-> TimeOf(s, t)]
           X == [T EXCEPT !["c"] = x]
           V == [T EXCEPT !["c"] = v]
           q == [Parse(s) EXCEPT !.time["c"] = x]
<1>1. PICK ty, pe, fl, ui, gi : Parse(s) = [type |-> ty, perm |-> pe, flags |-> fl, uid |-> ui,
                                            gid |-> gi, time |-> T]
  BY Zenon DEF Parse
<1>2. [X EXCEPT !["c"] = v] = V
  OBVIOUS
<1> HIDE DEF T
<1>3. q = [type |-> ty, perm |-> pe, flags |-> fl, uid |-> ui, gid |-> gi, time |-> X]
  BY <1>1
<1> HIDE DEF X, V, q
<1> DEFINE y == [q EXCEPT !.perm = perm]
           w == [Parse(s) EXCEPT !.perm = perm]
<1>4. y = [type |-> ty, perm |-> perm, flags |-> fl, uid |-> ui, gid |-> gi, time |-> X]
  BY <1>3
<1>5. w = [type |-> ty, perm |-> perm, flags |-> fl, uid |-> ui, gid |-> gi, time |-> T]
  BY <1>1
<1> DEFINE l == [q EXCEPT !.perm = perm, !.time["c"] = v]
           r == [[Parse(s) EXCEPT !.perm = perm] EXCEPT !.time["c"] = v]
<1>6. l = [y EXCEPT !.time["c"] = v] /\ r = [w EXCEPT !.time["c"] = v]
  BY <1>1, <1>3, Zenon
<1> HIDE DEF y, w, l, r
<1>7. l = [type |-> ty, perm |-> perm, flags |-> fl, uid |-> ui, gid |-> gi, time |-> V]
  BY <1>2, <1>4, <1>6
<1>8. r = [type |-> ty, perm |-> perm, flags |-> fl, uid |-> ui, gid |-> gi, time |-> V]
  BY <1>5, <1>6 DEF V
<1> QED
  BY <1>7, <1>8, Zenon DEF Timed, TimedPerm, Reset, q, l, r

\* With flags.
LEMMA RestampedFlags ==
    ASSUME NEW s, NEW x, NEW v, NEW flags
    PROVE  TimedFlags(Timed(Parse(s), x), flags, v) = Timed(Flagged(Parse(s), flags), v)
<1> DEFINE T == [t \in {"a", "m", "c"} |-> TimeOf(s, t)]
           X == [T EXCEPT !["c"] = x]
           V == [T EXCEPT !["c"] = v]
           q == [Parse(s) EXCEPT !.time["c"] = x]
<1>1. PICK ty, pe, fl, ui, gi : Parse(s) = [type |-> ty, perm |-> pe, flags |-> fl, uid |-> ui,
                                            gid |-> gi, time |-> T]
  BY Zenon DEF Parse
<1>2. [X EXCEPT !["c"] = v] = V
  OBVIOUS
<1> HIDE DEF T
<1>3. q = [type |-> ty, perm |-> pe, flags |-> fl, uid |-> ui, gid |-> gi, time |-> X]
  BY <1>1
<1> HIDE DEF X, V, q
<1> DEFINE y == [q EXCEPT !.flags = flags]
           w == [Parse(s) EXCEPT !.flags = flags]
<1>4. y = [type |-> ty, perm |-> pe, flags |-> flags, uid |-> ui, gid |-> gi, time |-> X]
  BY <1>3
<1>5. w = [type |-> ty, perm |-> pe, flags |-> flags, uid |-> ui, gid |-> gi, time |-> T]
  BY <1>1
<1> DEFINE l == [q EXCEPT !.flags = flags, !.time["c"] = v]
           r == [[Parse(s) EXCEPT !.flags = flags] EXCEPT !.time["c"] = v]
<1>6. l = [y EXCEPT !.time["c"] = v] /\ r = [w EXCEPT !.time["c"] = v]
  BY <1>1, <1>3, Zenon
<1> HIDE DEF y, w, l, r
<1>7. l = [type |-> ty, perm |-> pe, flags |-> flags, uid |-> ui, gid |-> gi, time |-> V]
  BY <1>2, <1>4, <1>6
<1>8. r = [type |-> ty, perm |-> pe, flags |-> flags, uid |-> ui, gid |-> gi, time |-> V]
  BY <1>5, <1>6 DEF V
<1> QED
  BY <1>7, <1>8, Zenon DEF Timed, TimedFlags, Flagged, q, l, r

\* With owners.
LEMMA RestampedOwners ==
    ASSUME NEW s, NEW x, NEW v, NEW uid, NEW gid
    PROVE  TimedOwners(Timed(Parse(s), x), uid, gid, v) = Timed(Owned(Parse(s), uid, gid), v)
<1> DEFINE T == [t \in {"a", "m", "c"} |-> TimeOf(s, t)]
           X == [T EXCEPT !["c"] = x]
           V == [T EXCEPT !["c"] = v]
           q == [Parse(s) EXCEPT !.time["c"] = x]
<1>1. PICK ty, pe, fl, ui, gi : Parse(s) = [type |-> ty, perm |-> pe, flags |-> fl, uid |-> ui,
                                            gid |-> gi, time |-> T]
  BY Zenon DEF Parse
<1>2. [X EXCEPT !["c"] = v] = V
  OBVIOUS
<1> HIDE DEF T
<1>3. q = [type |-> ty, perm |-> pe, flags |-> fl, uid |-> ui, gid |-> gi, time |-> X]
  BY <1>1
<1> HIDE DEF X, V, q
<1> DEFINE y == [[q EXCEPT !.uid = uid] EXCEPT !.gid = gid]
           w == [[Parse(s) EXCEPT !.uid = uid] EXCEPT !.gid = gid]
<1>a. [q EXCEPT !.uid = uid]
        = [type |-> ty, perm |-> pe, flags |-> fl, uid |-> uid, gid |-> gi, time |-> X]
  BY <1>3
<1>b. [Parse(s) EXCEPT !.uid = uid]
        = [type |-> ty, perm |-> pe, flags |-> fl, uid |-> uid, gid |-> gi, time |-> T]
  BY <1>1
<1>4. y = [type |-> ty, perm |-> pe, flags |-> fl, uid |-> uid, gid |-> gid, time |-> X]
  <2> DEFINE z == [q EXCEPT !.uid = uid]
  <2>1. y = [z EXCEPT !.gid = gid]
    BY Zenon
  <2>2. z = [type |-> ty, perm |-> pe, flags |-> fl, uid |-> uid, gid |-> gi, time |-> X]
    BY <1>a, Zenon
  <2> HIDE DEF z, y
  <2> QED
    BY <2>1, <2>2
<1>5. w = [type |-> ty, perm |-> pe, flags |-> fl, uid |-> uid, gid |-> gid, time |-> T]
  <2> DEFINE z == [Parse(s) EXCEPT !.uid = uid]
  <2>1. w = [z EXCEPT !.gid = gid]
    BY Zenon
  <2>2. z = [type |-> ty, perm |-> pe, flags |-> fl, uid |-> uid, gid |-> gi, time |-> T]
    BY <1>b, Zenon
  <2> HIDE DEF z, w
  <2> QED
    BY <2>1, <2>2
<1> DEFINE l == [q EXCEPT !.uid = uid, !.gid = gid, !.time["c"] = v]
           r == [[Parse(s) EXCEPT !.uid = uid, !.gid = gid] EXCEPT !.time["c"] = v]
<1>6. l = [y EXCEPT !.time["c"] = v] /\ r = [w EXCEPT !.time["c"] = v]
  BY <1>1, <1>3, Zenon
<1> HIDE DEF y, w, l, r
<1>7. l = [type |-> ty, perm |-> pe, flags |-> fl, uid |-> uid, gid |-> gid, time |-> V]
  BY <1>2, <1>4, <1>6
<1>8. r = [type |-> ty, perm |-> pe, flags |-> fl, uid |-> uid, gid |-> gid, time |-> V]
  BY <1>5, <1>6 DEF V
<1> QED
  BY <1>7, <1>8, Zenon DEF Timed, TimedOwners, Owned, q, l, r

\* With all the times.
LEMMA RetimedAll ==
    ASSUME NEW s, NEW x, NEW v
    PROVE  [[Parse(s) EXCEPT !.time["c"] = x] EXCEPT !.time = v] = [Parse(s) EXCEPT !.time = v]
<1> DEFINE T == [t \in {"a", "m", "c"} |-> TimeOf(s, t)]
           X == [T EXCEPT !["c"] = x]
           V == [T EXCEPT !["c"] = v]
           q == [Parse(s) EXCEPT !.time["c"] = x]
<1>1. PICK ty, pe, fl, ui, gi : Parse(s) = [type |-> ty, perm |-> pe, flags |-> fl, uid |-> ui,
                                            gid |-> gi, time |-> T]
  BY Zenon DEF Parse
<1>2. [X EXCEPT !["c"] = v] = V
  OBVIOUS
<1> HIDE DEF T
<1>3. q = [type |-> ty, perm |-> pe, flags |-> fl, uid |-> ui, gid |-> gi, time |-> X]
  BY <1>1
<1> HIDE DEF X, V, q
<1>4. [q EXCEPT !.time = v] = [type |-> ty, perm |-> pe, flags |-> fl, uid |-> ui, gid |-> gi,
                              time |-> v]
  BY <1>3
<1>5. [Parse(s) EXCEPT !.time = v] = [type |-> ty, perm |-> pe, flags |-> fl, uid |-> ui,
                                      gid |-> gi, time |-> v]
  BY <1>1
<1> QED
  BY <1>4, <1>5 DEF q

\* What the callers may expect of a live file differs from its stat in ctime at most.
LEMMA Expected ==
    ASSUME AllInv, NEW f \in Files, vol.file[f].live
    PROVE  /\ InodeLayout(stat[f]) /\ (vol.file[f].extra <=> stat[f].isize # 0)
           /\ \E x : told[f] = [Parse(stat[f]) EXCEPT !.time["c"] = x]
<1>1. told[f] = [Parse(stat[f]) EXCEPT !.time["c"] = IF f \in late THEN told[f].time["c"] ELSE @]
  BY Zenon DEF AllInv, StatAsSet
<1>2. CASE f \in late
  <2>1. told[f] = [Parse(stat[f]) EXCEPT !.time["c"] = told[f].time["c"]]
    BY <1>1, <1>2, Zenon
  <2> QED
    BY <2>1, Zenon DEF AllInv, StatInv
<1>3. CASE f \notin late
  <2>1. told[f] = [Parse(stat[f]) EXCEPT !.time["c"] = Parse(stat[f]).time["c"]]
    BY <1>1, <1>3, Zenon
  <2> QED
    BY <2>1, Zenon DEF AllInv, StatInv
<1> QED
  BY <1>2, <1>3

\* A stat that reads what the caller was told.
LEMMA ReadsBack ==
    ASSUME NEW s, NEW p, Parse(s) = p, NEW l, NEW f, f \notin l
    PROVE  p = [Parse(s) EXCEPT !.time["c"] = IF f \in l THEN p.time["c"] ELSE @]
BY SameTime, Zenon

\* An inode whose stat and what the caller was told change together.
LEMMA WriteKeeps ==
    ASSUME AllInv, NEW f \in Files, NEW s, NEW p, Write(f, s, p), vol' = vol,
           InodeLayout(s), s.isize = stat[f].isize, Parse(s) = p
    PROVE  AllInv'
<1>1. /\ DOMAIN stat' = Files /\ DOMAIN told' = Files
      /\ stat'[f] = s /\ told'[f] = p
      /\ \A g \in Files \ {f} : stat'[g] = stat[g] /\ told'[g] = told[g]
  BY DEF AllInv, StatInv, Write
<1>2. Sound(vol)'
  BY DEF AllInv
<1>3. StatInv'
  BY <1>1 DEF AllInv, StatInv
<1>4. StatAsSet'
  <2> SUFFICES ASSUME NEW g \in Files, vol.file[g].live
               PROVE  told'[g] = [Parse(stat'[g]) EXCEPT !.time["c"] =
                                     IF g \in late' THEN told'[g].time["c"] ELSE @]
    BY Zenon DEF StatAsSet
  <2>1. late' = late \ {f}
    BY Zenon DEF Write
  <2>2. CASE g = f
    <3>1. f \notin late' /\ Parse(s) = p
      BY <2>1
    <3>2. p = [Parse(s) EXCEPT !.time["c"] = IF f \in late' THEN p.time["c"] ELSE @]
      BY <3>1, ReadsBack
    <3> QED
      BY <1>1, <2>2, <3>2, Zenon
  <2>3. CASE g # f
    <3>1. (g \in late' <=> g \in late) /\ stat'[g] = stat[g] /\ told'[g] = told[g]
      BY <1>1, <2>1, <2>3, Zenon
    <3> QED
      BY <3>1, Zenon DEF AllInv, StatAsSet
  <2> QED
    BY <2>2, <2>3
<1> QED
  BY <1>2, <1>3, <1>4 DEF AllInv

\* A call that is refused changes nothing.
LEMMA RefuseKeeps ==
    ASSUME AllInv, UNCHANGED <<vol, stat, told, late>>
    PROVE  AllInv'
BY DEF AllInv, StatInv, StatAsSet, Sound, WellFormed, Exact, Referrers, FreeBlocks

\* set_inode_time of ctime: a stat differs in that time only.
LEMMA StampReads ==
    ASSUME NEW s, InodeLayout(s), NEW now \in Clocks
    PROVE  LET x == set_inode_time(s, "c", now)
           IN  /\ InodeLayout(x) /\ x.isize = s.isize
               /\ Parse(x) = [Parse(s) EXCEPT !.time["c"] = Stamp(s, "c", now)]
<1> DEFINE x == set_inode_time(s, "c", now)
           v == Stamp(s, "c", now)
<1>1. now \in Int
  BY ClockStorable, Widths
<1>2. Retimed(s, x, "c", v)
  BY <1>1, SetTime
<1> HIDE DEF x, v
<1>3. Parse(x) = [Parse(s) EXCEPT !.time["c"] = v]
  BY <1>2, ParseRetimed
<1>4. InodeLayout(x) /\ x.isize = s.isize
  BY <1>2 DEF Retimed
<1> QED
  BY <1>3, <1>4 DEF x, v

\* A field changed and ctime with it, and the caller told so.
LEMMA StampKeeps ==
    ASSUME AllInv, NEW f \in Files, NEW s, NEW q, NEW now \in Clocks,
           InodeLayout(s), s.isize = stat[f].isize, Parse(s) = q, vol' = vol,
           Write(f, set_inode_time(s, "c", now), [q EXCEPT !.time["c"] = Stamp(s, "c", now)])
    PROVE  AllInv'
<1> DEFINE x == set_inode_time(s, "c", now)
           p == [q EXCEPT !.time["c"] = Stamp(s, "c", now)]
<1>1. InodeLayout(x) /\ x.isize = stat[f].isize /\ Parse(x) = p
  BY StampReads
<1>2. Write(f, x, p)
  OBVIOUS
<1> HIDE DEF x, p
<1> QED
  BY <1>1, <1>2, WriteKeeps

\* apply_chmod writes the permission bits and ctime, and keeps the type.
LEMMA ChmodKeeps ==
    ASSUME AllInv, NEW f \in Files, NEW perm, NEW now \in Clocks, apply_chmod(f, perm, now)
    PROVE  AllInv'
<1> DEFINE s == [stat[f] EXCEPT !.perm = perm]
           was == Parse(stat[f])
           q == [was EXCEPT !.perm = perm]
<1>0. /\ Write(f, set_inode_time(s, "c", now),
               [told[f] EXCEPT !.perm = perm, !.time["c"] = Stamp(s, "c", now)])
      /\ vol' = vol /\ vol.file[f].live
  BY Zenon DEF apply_chmod
<1>2. InodeLayout(stat[f])
  BY <1>0, Expected, Zenon
<1>1. /\ Write(f, set_inode_time(s, "c", now), [q EXCEPT !.time["c"] = Stamp(s, "c", now)])
      /\ vol' = vol
  <2>1. PICK x : told[f] = [Parse(stat[f]) EXCEPT !.time["c"] = x]
    BY <1>0, Expected, Zenon
  <2> DEFINE v == Stamp(s, "c", now)
  <2>2. [told[f] EXCEPT !.perm = perm, !.time["c"] = v] = [q EXCEPT !.time["c"] = v]
    <3> HIDE DEF v
    <3>1. told[f] = Timed(Parse(stat[f]), x)
      BY <2>1, Zenon DEF Timed
    <3>2. TimedPerm(Timed(Parse(stat[f]), x), perm, v) = Timed(Reset(Parse(stat[f]), perm), v)
      BY RestampedPerm, Zenon
    <3> QED
      BY <3>1, <3>2, Zenon DEF Timed, TimedPerm, Reset
  <2> QED
    BY <1>0, <2>2, Zenon
<1>3. InodeLayout(s) /\ s.isize = stat[f].isize
  BY <1>2 DEF InodeLayout
<1>4. Parse(s) = q
  <2>0. was = Parse(stat[f])
    OBVIOUS
  <2>1. /\ s.type = stat[f].type /\ s.perm = perm /\ s.flags = stat[f].flags
        /\ s.uid = stat[f].uid /\ s.gid = stat[f].gid
        /\ \A t : TimeOf(s, t) = TimeOf(stat[f], t)
    BY <1>2 DEF InodeLayout, TimeOf, extra_field_fits
  <2> HIDE DEF s, was
  <2> QED
    BY <2>0, <2>1 DEF Parse
<1> HIDE DEF s, q
<1> QED
  BY <1>1, <1>3, <1>4, StampKeeps

\* apply_set_flags changes only the flags a caller may change, and ctime.
LEMMA FlagsKeep ==
    ASSUME AllInv, NEW f \in Files, NEW flags, NEW now \in Clocks, apply_set_flags(f, flags, now)
    PROVE  AllInv'
<1> DEFINE s == [stat[f] EXCEPT !.flags = flags]
           was == Parse(stat[f])
           q == [was EXCEPT !.flags = flags]
<1>1. /\ vol' = vol /\ vol.file[f].live
      /\ \/ UNCHANGED <<stat, told, late>>
         \/ Write(f, set_inode_time(s, "c", now), [q EXCEPT !.time["c"] = Stamp(s, "c", now)])
  <2>1. /\ vol' = vol /\ vol.file[f].live
        /\ \/ UNCHANGED <<stat, told, late>>
           \/ Write(f, set_inode_time(s, "c", now),
                    [told[f] EXCEPT !.flags = flags, !.time["c"] = Stamp(s, "c", now)])
    BY Zenon DEF apply_set_flags, Refuse
  <2>2. PICK x : told[f] = [Parse(stat[f]) EXCEPT !.time["c"] = x]
    BY <2>1, Expected, Zenon
  <2> DEFINE v == Stamp(s, "c", now)
  <2>3. [told[f] EXCEPT !.flags = flags, !.time["c"] = v] = [q EXCEPT !.time["c"] = v]
    <3> HIDE DEF v
    <3>1. told[f] = Timed(Parse(stat[f]), x)
      BY <2>2, Zenon DEF Timed
    <3>2. TimedFlags(Timed(Parse(stat[f]), x), flags, v) = Timed(Flagged(Parse(stat[f]), flags), v)
      BY RestampedFlags, Zenon
    <3> QED
      BY <3>1, <3>2, Zenon DEF Timed, TimedFlags, Flagged
  <2> QED
    BY <2>1, <2>3, Zenon
<1>2. InodeLayout(stat[f])
  BY <1>1, Expected, Zenon
<1>3. InodeLayout(s) /\ s.isize = stat[f].isize
  BY <1>2 DEF InodeLayout
<1>4. Parse(s) = q
  <2>0. was = Parse(stat[f])
    OBVIOUS
  <2>1. /\ s.type = stat[f].type /\ s.perm = stat[f].perm /\ s.flags = flags
        /\ s.uid = stat[f].uid /\ s.gid = stat[f].gid
        /\ \A t : TimeOf(s, t) = TimeOf(stat[f], t)
    BY <1>2 DEF InodeLayout, TimeOf, extra_field_fits
  <2> HIDE DEF s, was
  <2> QED
    BY <2>0, <2>1 DEF Parse
<1> HIDE DEF s, q
<1> QED
  BY <1>1, <1>3, <1>4, StampKeeps, RefuseKeeps

\* The fields Inode::parse takes as they are, and the times it puts together.
LEMMA ParseFields ==
    ASSUME NEW s
    PROVE  /\ Parse(s).type = s.type /\ Parse(s).perm = s.perm /\ Parse(s).flags = s.flags
           /\ Parse(s).time = [t \in {"a", "m", "c"} |-> TimeOf(s, t)]
BY DEF Parse

\* apply_chown writes the two halves of each owner it was given, and keeps the other.
LEMMA ChownKeeps ==
    ASSUME AllInv, NEW f \in Files, NEW uid \in Owners, NEW gid \in Owners, NEW now \in Clocks,
           apply_chown(f, uid, gid, now)
    PROVE  AllInv'
<1> DEFINE Split2(id) == <<id % Half, id \div Half>>
           s == [stat[f] EXCEPT !.uid = IF uid = Unset THEN @ ELSE Split2(uid),
                                !.gid = IF gid = Unset THEN @ ELSE Split2(gid)]
           was == Parse(stat[f])
           q == [was EXCEPT !.uid = IF uid = Unset THEN @ ELSE uid,
                            !.gid = IF gid = Unset THEN @ ELSE gid]
<1>1. /\ Write(f, set_inode_time(s, "c", now), [q EXCEPT !.time["c"] = Stamp(s, "c", now)])
      /\ vol' = vol /\ vol.file[f].live
  <2>1. /\ Write(f, set_inode_time(s, "c", now),
                 [told[f] EXCEPT !.uid = IF uid = Unset THEN told[f].uid ELSE uid,
                                 !.gid = IF gid = Unset THEN told[f].gid ELSE gid,
                                 !.time["c"] = Stamp(s, "c", now)])
        /\ vol' = vol /\ vol.file[f].live
    BY Zenon DEF apply_chown
  <2>2. PICK x : told[f] = [was EXCEPT !.time["c"] = x]
    BY <2>1, Expected, Zenon
  <2>3. told[f].uid = was.uid /\ told[f].gid = was.gid
    BY <2>2 DEF Parse
  <2> HIDE DEF was, s
  <2>4. Write(f, set_inode_time(s, "c", now),
              [told[f] EXCEPT !.uid = IF uid = Unset THEN was.uid ELSE uid,
                              !.gid = IF gid = Unset THEN was.gid ELSE gid,
                              !.time["c"] = Stamp(s, "c", now)])
    BY <2>1, <2>3, Zenon
  <2> DEFINE v == Stamp(s, "c", now)
             ui == IF uid = Unset THEN was.uid ELSE uid
             gi == IF gid = Unset THEN was.gid ELSE gid
  <2>5. [told[f] EXCEPT !.uid = ui, !.gid = gi, !.time["c"] = v]
          = [[was EXCEPT !.uid = ui, !.gid = gi] EXCEPT !.time["c"] = v]
    <3> HIDE DEF v, ui, gi
    <3>1. told[f] = Timed(Parse(stat[f]), x)
      BY <2>2, Zenon DEF Timed, was
    <3>2. TimedOwners(Timed(Parse(stat[f]), x), ui, gi, v) = Timed(Owned(Parse(stat[f]), ui, gi), v)
      BY RestampedOwners, SMT
    <3> QED
      BY <3>1, <3>2, Zenon DEF Timed, TimedOwners, Owned, was
  <2> QED
    BY <2>1, <2>4, <2>5, Zenon
<1>2. InodeLayout(stat[f]) /\ was = Parse(stat[f])
  BY <1>1, Expected, Zenon
<1> HIDE DEF was
<1>3. InodeLayout(s) /\ s.isize = stat[f].isize
  BY <1>2 DEF InodeLayout
<1>4. Parse(s) = q
  <2>1. /\ s.type = stat[f].type /\ s.perm = stat[f].perm /\ s.flags = stat[f].flags
        /\ s.uid = IF uid = Unset THEN stat[f].uid ELSE Split2(uid)
        /\ s.gid = IF gid = Unset THEN stat[f].gid ELSE Split2(gid)
        /\ \A t : TimeOf(s, t) = TimeOf(stat[f], t)
    BY <1>2 DEF InodeLayout, TimeOf, extra_field_fits
  <2>2. \A id \in Owners : Split2(id)[2] * Half + Split2(id)[1] = id
    <3>1. Owners \subseteq Nat
      BY Arguments, Widths, SMTT(15)
    <3> QED
      <4>1. ASSUME NEW id \in Owners PROVE Split2(id)[2] * Half + Split2(id)[1] = id
        <5>1. Split2(id)[1] = id % Half /\ Split2(id)[2] = id \div Half
          OBVIOUS
        <5>2. (id \div Half) * Half + (id % Half) = id
          BY <3>1, Halves
        <5> HIDE DEF Split2
        <5> QED
          BY <5>1, <5>2, Zenon
      <4> QED
        BY <4>1
  <2> HIDE DEF s, Split2
  <2>3. /\ Parse(s).uid = s.uid[2] * Half + s.uid[1]
        /\ Parse(s).gid = s.gid[2] * Half + s.gid[1]
        /\ was.uid = stat[f].uid[2] * Half + stat[f].uid[1]
        /\ was.gid = stat[f].gid[2] * Half + stat[f].gid[1]
    BY <1>2 DEF Parse
  <2>a. Parse(s).uid = IF uid = Unset THEN was.uid ELSE uid
    BY <2>1, <2>2, <2>3, Zenon
  <2>b. Parse(s).gid = IF gid = Unset THEN was.gid ELSE gid
    BY <2>1, <2>2, <2>3, Zenon
  <2>4. Parse(s) = [type |-> was.type, perm |-> was.perm, flags |-> was.flags,
                    uid |-> Parse(s).uid, gid |-> Parse(s).gid, time |-> was.time]
    <3> DEFINE T(z) == [t \in {"a", "m", "c"} |-> TimeOf(z, t)]
    <3>1. /\ was.type = stat[f].type /\ was.perm = stat[f].perm
          /\ was.flags = stat[f].flags /\ was.time = T(stat[f])
      BY <1>2, ParseFields, Zenon
    <3>2. Parse(s) = [type |-> s.type, perm |-> s.perm, flags |-> s.flags,
                      uid |-> Parse(s).uid, gid |-> Parse(s).gid, time |-> T(s)]
      BY Zenon DEF Parse
    <3>3. T(s) = T(stat[f])
      BY <2>1
    <3> HIDE DEF T
    <3> QED
      BY <2>1, <3>1, <3>2, <3>3, Zenon
  <2>5. q = [type |-> was.type, perm |-> was.perm, flags |-> was.flags,
             uid |-> IF uid = Unset THEN was.uid ELSE uid,
             gid |-> IF gid = Unset THEN was.gid ELSE gid, time |-> was.time]
    <3>1. \E ty, pe, fl, ui, gi, ti :
             was = [type |-> ty, perm |-> pe, flags |-> fl, uid |-> ui, gid |-> gi, time |-> ti]
      BY <1>2, Zenon DEF Parse
    <3>2. PICK ty, pe, fl, ui, gi, ti :
             was = [type |-> ty, perm |-> pe, flags |-> fl, uid |-> ui, gid |-> gi, time |-> ti]
      BY <3>1, Zenon
    <3> DEFINE A == IF uid = Unset THEN was.uid ELSE uid
               B == IF gid = Unset THEN was.gid ELSE gid
    <3>3. q = [[was EXCEPT !.uid = A] EXCEPT !.gid = B]
      BY <3>2
    <3> HIDE DEF A, B, q
    <3>4. q = [type |-> was.type, perm |-> was.perm, flags |-> was.flags,
               uid |-> A, gid |-> B, time |-> was.time]
      BY <3>2, <3>3, Zenon
    <3> QED
      BY <3>4 DEF A, B
  <2> HIDE DEF q
  <2> QED
    BY <2>4, <2>5, <2>a, <2>b
<1> HIDE DEF s, q
<1> QED
  BY <1>1, <1>3, <1>4, StampKeeps

\* TimeUpdate::resolve: a time that is neither omitted nor refused is one the
\* format can store.
LEMMA Resolved ==
    ASSUME NEW t, t.sec \in Int, t.nsec \in Nat, NEW now \in Clocks
    PROVE  LET u == resolve(t, now)
           IN  \/ u.kind \in {"omit", "bad"}
               \/ u.kind = "set" /\ u.sec \in Int /\ MinTime <= u.sec /\ u.sec <= MaxTime
<1>1. now \in Int /\ MinTime <= now /\ now <= MaxTime
  BY ClockStorable, Widths DEF MinTime, MaxTime, Era
<1>2. MinTime \in Int /\ MaxTime \in Int
  BY Widths DEF MinTime, MaxTime, Era
<1>3. \/ resolve(t, now) = [kind |-> "omit"]
      \/ resolve(t, now) = [kind |-> "set", sec |-> now, ns |-> 0]
      \/ resolve(t, now) = [kind |-> "bad"]
      \/ /\ t.sec \in MinTime .. MaxTime
         /\ resolve(t, now) = [kind |-> "set", sec |-> t.sec, ns |-> t.nsec]
  BY DEF resolve
<1> QED
  BY <1>1, <1>2, <1>3

\* The times Inode::parse reads, written out one by one.
LEMMA ThreeTimes ==
  ASSUME NEW z
  PROVE  [t \in {"a", "m", "c"} |-> TimeOf(z, t)] =
            [a |-> TimeOf(z, "a"), m |-> TimeOf(z, "m"), c |-> TimeOf(z, "c")]
OBVIOUS

\* The three times, written one after the other.
LEMMA TimesRead ==
    ASSUME NEW s, InodeLayout(s), NEW a, NEW m, Storable(s, "a", a), Storable(s, "m", m),
           NEW now \in Clocks
    PROVE  LET y == Put(Put(s, "a", a), "m", m)
               x == set_inode_time(y, "c", now)
           IN  /\ InodeLayout(x) /\ x.isize = s.isize /\ y.isize = s.isize
               /\ Parse(x) = [Parse(s) EXCEPT !.time = [a |-> Asked(s, "a", a),
                                                        m |-> Asked(s, "m", m),
                                                        c |-> Stamp(y, "c", now)]]
<1> DEFINE w == Put(s, "a", a)
           y == Put(w, "m", m)
           x == set_inode_time(y, "c", now)
<1>0. now \in Int
  BY ClockStorable, Widths
<1>1. Retimed(s, w, "a", Asked(s, "a", a))
  BY PutTime
<1> HIDE DEF w
<1>2. InodeLayout(w) /\ w.isize = s.isize /\ TimeOf(w, "m") = TimeOf(s, "m")
  BY <1>1 DEF Retimed
<1>3. Storable(w, "m", m) /\ Asked(w, "m", m) = Asked(s, "m", m)
  BY <1>2 DEF Storable, Unstorable, Asked, extra_field_fits
<1>4. Retimed(w, y, "m", Asked(s, "m", m))
  BY <1>2, <1>3, PutTime
<1> HIDE DEF y
<1>5. Retimed(y, x, "c", Stamp(y, "c", now))
  BY <1>0, <1>4, SetTime DEF Retimed
<1> HIDE DEF x
<1>6. /\ InodeLayout(x) /\ x.isize = s.isize /\ y.isize = s.isize
      /\ x.type = s.type /\ x.perm = s.perm /\ x.flags = s.flags
      /\ x.uid = s.uid /\ x.gid = s.gid
  BY <1>1, <1>4, <1>5 DEF Retimed
<1>7. /\ TimeOf(x, "a") = Asked(s, "a", a)
      /\ TimeOf(x, "m") = Asked(s, "m", m)
      /\ TimeOf(x, "c") = Stamp(y, "c", now)
  BY <1>1, <1>4, <1>5 DEF Retimed
<1> DEFINE T(z) == [t \in {"a", "m", "c"} |-> TimeOf(z, t)]
<1>8. T(x) = [a |-> Asked(s, "a", a), m |-> Asked(s, "m", m), c |-> Stamp(y, "c", now)]
  BY <1>7, ThreeTimes, Zenon
<1>9. Parse(x) = [Parse(s) EXCEPT !.time = T(x)]
  <2>1. /\ Parse(s) = [type |-> s.type, perm |-> s.perm, flags |-> s.flags,
                       uid |-> s.uid[2] * Half + s.uid[1], gid |-> s.gid[2] * Half + s.gid[1],
                       time |-> T(s)]
        /\ Parse(x) = [type |-> s.type, perm |-> s.perm, flags |-> s.flags,
                       uid |-> s.uid[2] * Half + s.uid[1], gid |-> s.gid[2] * Half + s.gid[1],
                       time |-> T(x)]
    BY <1>6, Zenon DEF Parse
  <2> HIDE DEF T
  <2> QED
    BY <2>1
<1> HIDE DEF T
<1>10. Parse(x) = [Parse(s) EXCEPT !.time = [a |-> Asked(s, "a", a), m |-> Asked(s, "m", m),
                                             c |-> Stamp(y, "c", now)]]
  BY <1>8, <1>9
<1> QED
  BY <1>6, <1>10 DEF x, y, w

\* apply_utimens: refused whole, or each time it was given reads back as asked.
LEMMA UtimensKeeps ==
    ASSUME AllInv, NEW f \in Files, NEW p \in Times, NEW now \in Clocks,
           apply_utimens(f, p[1], p[2], now)
    PROVE  AllInv'
<1> DEFINE a == resolve(p[1], now)
           m == resolve(p[2], now)
           s == stat[f]
           y == Put(Put(s, "a", a), "m", m)
           x == set_inode_time(y, "c", now)
           Told(t, u) == IF u.kind = "omit" THEN told[f].time[t]
                         ELSE <<u.sec, IF extra_field_fits(y, t) THEN u.ns ELSE 0>>
           r == [told[f] EXCEPT !.time = [a |-> Told("a", a), m |-> Told("m", m),
                                          c |-> Stamp(y, "c", now)]]
<1>1. /\ vol' = vol /\ vol.file[f].live
      /\ \/ UNCHANGED <<stat, told, late>>
         \/ /\ "bad" \notin {a.kind, m.kind}
            /\ ~ Unstorable(s, "a", a) /\ ~ Unstorable(s, "m", m)
            /\ Write(f, x, r)
  BY DEF apply_utimens, Refuse
<1>2. InodeLayout(s) /\ \E z : told[f] = [Parse(s) EXCEPT !.time["c"] = z]
  BY <1>1, Expected, Zenon
<1>3. CASE UNCHANGED <<stat, told, late>>
  BY <1>1, <1>3, RefuseKeeps
<1>4. CASE /\ "bad" \notin {a.kind, m.kind}
           /\ ~ Unstorable(s, "a", a) /\ ~ Unstorable(s, "m", m)
           /\ Write(f, x, r)
  <2>1. p[1].sec \in Int /\ p[1].nsec \in Nat /\ p[2].sec \in Int /\ p[2].nsec \in Nat
    BY Arguments, SMTT(15)
  <2>2. /\ a.kind \in {"omit", "bad"} \/ (a.kind = "set" /\ a.sec \in Int /\ MinTime <= a.sec
                                          /\ a.sec <= MaxTime)
        /\ m.kind \in {"omit", "bad"} \/ (m.kind = "set" /\ m.sec \in Int /\ MinTime <= m.sec
                                          /\ m.sec <= MaxTime)
    BY <2>1, Resolved
  <2> HIDE DEF a, m, s
  <2>3. Storable(s, "a", a) /\ Storable(s, "m", m)
    BY <1>4, <2>2 DEF Storable
  <2>4. /\ InodeLayout(x) /\ x.isize = s.isize /\ y.isize = s.isize
        /\ Parse(x) = [Parse(s) EXCEPT !.time = [a |-> Asked(s, "a", a), m |-> Asked(s, "m", m),
                                                 c |-> Stamp(y, "c", now)]]
    BY <1>2, <2>3, TimesRead, SMTT(15)
  <2> HIDE DEF x, y
  <2>0. PICK z : told[f] = [Parse(s) EXCEPT !.time["c"] = z]
    BY <1>2, Zenon
  <2>5. \A t \in {"a", "m"} : told[f].time[t] = TimeOf(s, t)
    BY <2>0 DEF Parse
  <2>6. Told("a", a) = Asked(s, "a", a) /\ Told("m", m) = Asked(s, "m", m)
    BY <2>4, <2>5 DEF Asked, extra_field_fits
  <2> HIDE DEF Told
  <2>7. Parse(x) = r
    BY <2>0, <2>4, <2>6, RetimedAll, Zenon
  <2> HIDE DEF r
  <2> QED
    BY <1>1, <1>4, <2>4, <2>7, WriteKeeps, Zenon DEF s
<1> QED
  BY <1>1, <1>3, <1>4

\* A committed volume, and one inode written with it.
LEMMA CommitKeeps ==
    ASSUME AllInv, NEW f \in Files, Sound(vol'), NEW s, NEW p,
           stat' = [stat EXCEPT ![f] = s], told' = [told EXCEPT ![f] = p],
           late' \ {f} = late \ {f},
           \A g \in Files \ {f} : /\ vol'.file[g].live = vol.file[g].live
                                  /\ vol'.file[g].extra = vol.file[g].extra,
           InodeLayout(s),
           p = [Parse(s) EXCEPT !.time["c"] = IF f \in late' THEN p.time["c"] ELSE @],
           vol'.file[f].live => (vol'.file[f].extra <=> s.isize # 0)
    PROVE  AllInv'
<1>1. /\ DOMAIN stat' = Files /\ DOMAIN told' = Files
      /\ stat'[f] = s /\ told'[f] = p
      /\ \A g \in Files \ {f} : stat'[g] = stat[g] /\ told'[g] = told[g]
  BY DEF AllInv, StatInv
<1>2. \A g \in Files : InodeLayout(stat'[g])
  BY <1>1 DEF AllInv, StatInv
<1>3. \A g \in Files : vol'.file[g].live => (vol'.file[g].extra <=> stat'[g].isize # 0)
  BY <1>1 DEF AllInv, StatInv
<1>4. StatAsSet'
  <2> SUFFICES ASSUME NEW g \in Files, vol'.file[g].live
               PROVE  told'[g] = [Parse(stat'[g]) EXCEPT !.time["c"] =
                                     IF g \in late' THEN told'[g].time["c"] ELSE @]
    BY Zenon DEF StatAsSet
  <2>1. CASE g = f
    BY <1>1, <2>1, Zenon
  <2>2. CASE g # f
    <3>1. /\ g \in late' <=> g \in late
          /\ stat'[g] = stat[g] /\ told'[g] = told[g] /\ vol.file[g].live
      BY <1>1, <2>2
    <3> QED
      BY <3>1, Zenon DEF AllInv, StatAsSet
  <2> QED
    BY <2>1, <2>2
<1> QED
  BY <1>1, <1>2, <1>3, <1>4, Zenon DEF AllInv, StatInv

\* setxattr: the extra fields it may add change no time but the ctime it writes.
LEMMA SetxattrKeeps ==
    ASSUME AllInv, NEW f \in Files, NEW n, NEW v, NEW now \in Clocks, setxattr(f, n, v, now)
    PROVE  AllInv'
<1> DEFINE w == Widened(vol, f)
           t == SetStaged(vol, f, n, v)
           wide == w.file[f].extra /\ ~ vol.file[f].extra
           s == IF wide THEN WideStat(stat[f]) ELSE stat[f]
           st == Stamps(f, n, v)
           x == IF st THEN set_inode_time(s, "c", now) ELSE s
           p == [told[f] EXCEPT !.time["c"] = Stamp(s, "c", now)]
<1>1. /\ vol.file[f].live
      /\ vol' = IF t.bad = "" THEN t ELSE vol
      /\ IF t.bad # "" THEN UNCHANGED <<stat, told, late>>
         ELSE /\ stat' = [stat EXCEPT ![f] = x] /\ told' = [told EXCEPT ![f] = p]
              /\ late' = IF st THEN late \ {f} ELSE late \cup {f}
  BY Zenon DEF setxattr, apply_setxattr, Commit
<1>2. CASE t.bad # ""
  BY <1>1, <1>2, RefuseKeeps, Zenon
<1>3. CASE t.bad = ""
  <2>1. /\ vol' = t /\ stat' = [stat EXCEPT ![f] = x] /\ told' = [told EXCEPT ![f] = p]
        /\ late' = IF st THEN late \ {f} ELSE late \cup {f}
    BY <1>1, <1>3, Zenon
  <2>2. Sound(t) /\ SameInodes(w, t)
    BY SetSound DEF AllInv
  <2>3. /\ w.file[f].live = vol.file[f].live /\ (vol.file[f].extra => w.file[f].extra)
        /\ \A g \in Files \ {f} : w.file[g] = vol.file[g]
    BY WidenedSound DEF AllInv
  <2>4. /\ InodeLayout(stat[f]) /\ (vol.file[f].extra <=> stat[f].isize # 0)
        /\ \E z : told[f] = [Parse(stat[f]) EXCEPT !.time["c"] = z]
    BY <1>1, Expected, Zenon
  <2> HIDE DEF w, t
  <2>5. InodeLayout(s) /\ Parse(s) = Parse(stat[f]) /\ (w.file[f].extra <=> s.isize # 0)
    <3>1. CASE wide
      BY <2>4, <3>1, WideParse, SMTT(15)
    <3>2. CASE ~ wide
      BY <2>3, <2>4, <3>2
    <3> QED
      BY <3>1, <3>2, Zenon
  <2> HIDE DEF s, wide
  <2>a. p = [Parse(s) EXCEPT !.time["c"] = Stamp(s, "c", now)]
    <3>1. PICK z : told[f] = [Parse(s) EXCEPT !.time["c"] = z]
      BY <2>4, <2>5, Zenon
    <3> DEFINE c == Stamp(s, "c", now)
    <3>2. [told[f] EXCEPT !.time["c"] = c] = [Parse(s) EXCEPT !.time["c"] = c]
      <4> HIDE DEF c, s
      <4>1. told[f] = Timed(Parse(s), z)
        BY <3>1, Zenon DEF Timed
      <4>2. Timed(Timed(Parse(s), z), c) = Timed(Parse(s), c)
        BY Restamped, Zenon
      <4> QED
        BY <4>1, <4>2, Zenon DEF Timed
    <3> QED
      BY <3>2, Zenon
  <2>6. /\ InodeLayout(x) /\ x.isize = s.isize
        /\ p = [Parse(x) EXCEPT !.time["c"] = IF f \in late' THEN p.time["c"] ELSE @]
    <3>1. CASE st
      <4>1. InodeLayout(x) /\ x.isize = s.isize /\ Parse(x) = p
        BY <2>5, <2>a, <3>1, StampReads
      <4>2. f \notin late'
        BY <2>1, <3>1, Zenon
      <4> HIDE DEF x, p
      <4> QED
        BY <4>1, <4>2, ReadsBack, Zenon
    <3>2. CASE ~ st
      <4>1. x = s /\ f \in late'
        BY <2>1, <3>2, Zenon
      <4>2. p.time["c"] = Stamp(s, "c", now)
        BY <2>a DEF Parse
      <4> QED
        BY <2>5, <2>a, <4>1, <4>2, Zenon
    <3> QED
      BY <3>1, <3>2
  <2>7. /\ \A g \in Files \ {f} : /\ vol'.file[g].live = vol.file[g].live
                                  /\ vol'.file[g].extra = vol.file[g].extra
        /\ vol'.file[f].extra = w.file[f].extra
    BY <2>1, <2>2, <2>3 DEF SameInodes
  <2>8. Sound(vol') /\ late' \ {f} = late \ {f}
    BY <2>1, <2>2
  <2> QED
    BY <2>1, <2>5, <2>6, <2>7, <2>8, CommitKeeps, Zenon
<1> QED
  BY <1>2, <1>3, Zenon

\* removexattr likewise.
LEMMA RemovexattrKeeps ==
    ASSUME AllInv, NEW f \in Files, NEW n, NEW now \in Clocks, removexattr(f, n, now)
    PROVE  AllInv'
<1> DEFINE t == RemoveStaged(vol, f, n)
           s == stat[f]
           x == set_inode_time(s, "c", now)
           p == [told[f] EXCEPT !.time["c"] = Stamp(s, "c", now)]
<1>1. /\ vol.file[f].live
      /\ vol' = IF t.bad = "" THEN t ELSE vol
      /\ IF t.bad # "" THEN UNCHANGED <<stat, told, late>>
         ELSE /\ stat' = [stat EXCEPT ![f] = x] /\ told' = [told EXCEPT ![f] = p]
              /\ late' = late \ {f}
  BY Zenon DEF removexattr, apply_removexattr, Commit
<1>2. CASE t.bad # ""
  BY <1>1, <1>2, RefuseKeeps, Zenon
<1>3. CASE t.bad = ""
  <2>1. /\ vol' = t /\ stat' = [stat EXCEPT ![f] = x] /\ told' = [told EXCEPT ![f] = p]
        /\ late' = late \ {f}
    BY <1>1, <1>3, Zenon
  <2>2. Sound(t) /\ SameInodes(vol, t)
    BY RemoveSound DEF AllInv
  <2>3. /\ InodeLayout(s) /\ (vol.file[f].extra <=> s.isize # 0)
        /\ \E z : told[f] = [Parse(s) EXCEPT !.time["c"] = z]
    BY <1>1, Expected, Zenon
  <2> HIDE DEF t
  <2>a. p = [Parse(s) EXCEPT !.time["c"] = Stamp(s, "c", now)]
    <3>1. PICK z : told[f] = [Parse(s) EXCEPT !.time["c"] = z]
      BY <2>3, Zenon
    <3> DEFINE c == Stamp(s, "c", now)
    <3>2. [told[f] EXCEPT !.time["c"] = c] = [Parse(s) EXCEPT !.time["c"] = c]
      <4> HIDE DEF c, s
      <4>1. told[f] = Timed(Parse(s), z)
        BY <3>1, Zenon DEF Timed
      <4>2. Timed(Timed(Parse(s), z), c) = Timed(Parse(s), c)
        BY Restamped, Zenon
      <4> QED
        BY <4>1, <4>2, Zenon DEF Timed
    <3> QED
      BY <3>2, Zenon
  <2>b. InodeLayout(x) /\ x.isize = s.isize /\ Parse(x) = p
    BY <2>3, <2>a, StampReads, SMTT(15)
  <2> HIDE DEF x, p
  <2>4. /\ InodeLayout(x) /\ x.isize = s.isize
        /\ p = [Parse(x) EXCEPT !.time["c"] = IF f \in late' THEN p.time["c"] ELSE @]
    <3>1. f \notin late'
      BY <2>1, Zenon
    <3> QED
      BY <2>b, <3>1, ReadsBack, Zenon
  <2>5. \A g \in Files : /\ vol'.file[g].live = vol.file[g].live
                         /\ vol'.file[g].extra = vol.file[g].extra
    BY <2>1, <2>2 DEF SameInodes
  <2>6. Sound(vol') /\ late' \ {f} = late \ {f}
    BY <2>1, <2>2
  <2> QED
    BY <2>1, <2>3, <2>4, <2>5, <2>6, CommitKeeps, Zenon
<1> QED
  BY <1>2, <1>3, Zenon

\* Freeing the inode of a file that has given up its block changes no count.
LEMMA DeadSound ==
    ASSUME NEW t, NEW f \in Files, Sound(t)
    PROVE  LET u == [t EXCEPT !.file[f].live = FALSE, !.file[f].extra = FALSE,
                              !.file[f].wide = FALSE]
           IN  /\ Sound(u) /\ ~ u.file[f].live
               /\ \A g \in Files \ {f} : u.file[g] = t.file[g]
<1> DEFINE u == [t EXCEPT !.file[f].live = FALSE, !.file[f].extra = FALSE, !.file[f].wide = FALSE]
<1>0. WellFormed(t)
  BY DEF Sound
<1>1. /\ DOMAIN u = DOMAIN t
      /\ u.file = [[[t.file EXCEPT ![f].live = FALSE] EXCEPT ![f].extra = FALSE]
                    EXCEPT ![f].wide = FALSE]
      /\ u.block = t.block /\ u.free = t.free /\ u.flag = t.flag
  BY <1>0 DEF WellFormed
<1> HIDE DEF u
<1>2. /\ DOMAIN u.file = DOMAIN t.file
      /\ \A g \in Files \ {f} : u.file[g] = t.file[g]
      /\ u.file[f] = [[[t.file[f] EXCEPT !.live = FALSE] EXCEPT !.extra = FALSE]
                       EXCEPT !.wide = FALSE]
  BY <1>0, <1>1, Zenon DEF WellFormed
<1>3. /\ DOMAIN u.file[f] = DOMAIN t.file[f]
      /\ u.file[f].acl = t.file[f].acl /\ u.file[f].blocks = t.file[f].blocks
      /\ u.file[f].live = FALSE
  BY <1>0, <1>2, SMTT(15) DEF WellFormed
<1>4. WellFormed(u)
  BY <1>0, <1>1, <1>2, <1>3 DEF WellFormed
<1>5. OthersKeep(t, u, f) /\ CountedAlike(t, u, {})
  BY <1>1, <1>2, Zenon DEF OthersKeep, CountedAlike
<1>6. Sound(u)
  BY <1>1, <1>3, <1>4, <1>5, QuietExact, Zenon
<1> QED
  BY <1>2, <1>3, <1>6, Zenon DEF u

\* The last unlink gives up the file's block of attributes with its inode.
LEMMA DeleteKeeps ==
    ASSUME AllInv, NEW f \in Files, Delete(f), UNCHANGED <<stat, told, late>>
    PROVE  AllInv'
<1> DEFINE t == IF vol.file[f].acl = 0 THEN vol ELSE DropBlock(vol, f)
           u == [t EXCEPT !.file[f].live = FALSE, !.file[f].extra = FALSE, !.file[f].wide = FALSE]
<1>1. vol' = IF u.bad = "" THEN u ELSE vol
  BY Zenon DEF Delete, Commit
<1>2. Sound(t) /\ SameInodes(vol, t)
  <2>1. SameInodes(vol, vol)
    BY DEF SameInodes
  <2> QED
    BY <2>1, DropSound DEF AllInv
<1> HIDE DEF t
<1>3. Sound(u) /\ ~ u.file[f].live /\ \A g \in Files \ {f} : u.file[g] = t.file[g]
  BY <1>2, DeadSound, Zenon
<1> HIDE DEF u
<1>4. CASE vol' = vol
  BY <1>4, RefuseKeeps
<1>5. CASE vol' = u
  <2>1. \A g \in Files : u.file[g].live => /\ vol.file[g].live
                                           /\ u.file[g].extra = vol.file[g].extra
    BY <1>2, <1>3 DEF SameInodes
  <2>2. Sound(vol')
    BY <1>3, <1>5
  <2>3. StatInv'
    BY <1>5, <2>1 DEF AllInv, StatInv
  <2>4. StatAsSet'
    BY <1>5, <2>1, Zenon DEF AllInv, StatAsSet
  <2> QED
    BY <2>2, <2>3, <2>4 DEF AllInv
<1> QED
  BY <1>1, <1>4, <1>5, Zenon

\* Every call preserves the inductive invariant.
LEMMA InvStep == AllInv /\ [AllNext]_allvars => AllInv'
<1> SUFFICES ASSUME AllInv, [AllNext]_allvars PROVE AllInv'
  OBVIOUS
<1>1. CASE \E f \in Statted, perm \in Perms, now \in Clocks : apply_chmod(f, perm, now)
  BY <1>1, Statting, ChmodKeeps
<1>2. CASE \E f \in Statted, uid, gid \in Owners, now \in Clocks : apply_chown(f, uid, gid, now)
  BY <1>2, Statting, ChownKeeps
<1>3. CASE \E f \in Statted, flags \in SUBSET Flags, now \in Clocks : apply_set_flags(f, flags, now)
  BY <1>3, Statting, FlagsKeep
<1>4. CASE \E f \in Statted, p \in Times, now \in Clocks : apply_utimens(f, p[1], p[2], now)
  BY <1>4, Statting, UtimensKeeps
<1>5. CASE \E f \in Files, n \in Attrs, v \in Values, now \in Clocks : setxattr(f, n, v, now)
  BY <1>5, SetxattrKeeps
<1>6. CASE \E f \in Files, n \in Attrs, now \in Clocks : removexattr(f, n, now)
  BY <1>6, RemovexattrKeeps
<1>7. CASE \E f \in Files : Delete(f) /\ UNCHANGED <<stat, told, late>>
  BY <1>7, DeleteKeeps
<1>8. CASE UNCHANGED allvars
  BY <1>8, RefuseKeeps DEF allvars
<1> QED
  BY <1>1, <1>2, <1>3, <1>4, <1>5, <1>6, <1>7, <1>8 DEF AllNext

\* So it holds of every reachable volume.
LEMMA InvHolds == AllSpec => []AllInv
BY InvInit, InvStep, PTL DEF AllSpec

\* For any files, blocks and attributes, after any sequence of calls: each block of
\* attributes is in use exactly while some inode refers to it, its h_refcount is the number
\* of those inodes, the free count is the number of unused blocks, i_blocks counts the
\* file's block, and the feature bit is set once there is one.  Every error path of
\* setxattr and removexattr, and the copy on write of a shared block, is among the calls.
THEOREM RefsStayExact == AllSpec => []RefsExact
<1>1. AllInv => RefsExact
  BY DEF AllInv, Sound, RefsExact
<1> QED
  BY <1>1, InvHolds, PTL

\* For any width of the time fields: a stat of a live file reads the owner, mode, flags
\* and times that the calls since were accepted with, whether or not its inode has the
\* extra time words, and also after setxattr has given it those words; only the ctime of a
\* setxattr that stays in the inode may be missing.
THEOREM StatReadsBack == AllSpec => []StatAsSet
<1>1. AllInv => StatAsSet
  BY DEF AllInv
<1> QED
  BY <1>1, InvHolds, PTL
=============================================================================
