-------------------------- MODULE BlockCacheProofs ---------------------------
(***************************************************************************)
(* Proofs about BlockCache for every set of blocks and of contents, every  *)
(* capacity, every log and any number of threads.                          *)
(***************************************************************************)
EXTENDS BlockCache, FiniteSetTheorems, TLAPS

-----------------------------------------------------------------------------
(* What the results assume of the constants. *)

\* A thread that writes is the only thread: the handle has one user, or all
\* its users read.  Nothing in CachedDevice asks for it (MCBlockCacheShared).
Exclusive == \A p \in Writers, q \in Proc : p = q

\* The log holds one copy of a block, as it does after one transaction.
Once == \A m, n \in 1..Len(Logged) : Logged[m].blk = Logged[n].blk => m = n

-----------------------------------------------------------------------------
(* The inductive invariant. *)

Calls ==
  {Idle} \cup [op : {"miss"}, blk : Block]
         \cup [op : {"put"}, blk : Block, img : Img]
         \cup [op : {"part"}, blk : Block, half : Half, val : Val]

TypeInv ==
  /\ dev \in [Block -> Img] /\ truth \in [Block -> Img]
  /\ DOMAIN clean \subseteq Block /\ DOMAIN pinned \subseteq Block
  /\ mode \in {"pin", "ro", "replay", "unmark", "unpin", "rw"}
  /\ k \in Nat /\ k >= 1
  /\ th \in [Proc -> Calls]

Distinct(s) == \A m, n \in 1..Len(s) : s[m] = s[n] => m = n

\* s is a use order of the blocks of S.
Ranks(s, S) == s \in Seq(Block) /\ Distinct(s) /\ Members(s) = S

\* The two maps and the use order of the clean one.
MapsInv ==
  /\ Ranks(order, DOMAIN clean) /\ Len(order) <= Capacity
  /\ DOMAIN clean \cap DOMAIN pinned = {}
  /\ IsFiniteSet(DOMAIN pinned)

\* Where a call can be: none runs beside the replay, none that missed a block
\* has seen it pinned since, and only a writer has written.
CallInv ==
  /\ mode \notin {"ro", "rw"} => Alone
  /\ mode = "rw" => DOMAIN pinned = {}
  /\ \A p \in Proc : th[p].op \in {"miss", "put"} => th[p].blk \notin DOMAIN pinned
  /\ \A p \in Proc : th[p].op = "part" => mode = "rw"

\* What a call is about to put is what the device holds, and so is every entry
\* that no call is about to update.
CleanInv ==
  Exclusive =>
    /\ \A p \in Proc : th[p].op = "put" => th[p].img = dev[th[p].blk]
    /\ \A b \in DOMAIN clean : Settled(b) => clean[b] = dev[b]

\* Entry m is the last of the first n of the log for its block.
Final(m, n) == \A l \in m + 1 .. n : Logged[l].blk # Logged[m].blk

\* How much of the log has been pinned.
Pinning == IF mode = "pin" THEN k - 1 ELSE Len(Logged)

\* Which blocks are pinned: those of the log, and the truth of one is its last
\* copy there, until RECOVER is cleared in the superblock.
PinInv ==
  /\ mode = "pin" => k <= Len(Logged) + 1
  /\ mode # "rw" => \A m \in 1..Pinning : Logged[m].blk \in DOMAIN pinned
  /\ mode \in {"pin", "ro", "replay", "unmark"} =>
       \A b \in DOMAIN pinned : \E m \in 1..Pinning :
         Logged[m].blk = b /\ Final(m, Pinning) /\ truth[b] = Logged[m].img

\* What the device holds: the truth of what is not pinned, and of the log as
\* much as the replay has written, pinned alike.
DevInv ==
  /\ \A b \in Block \ DOMAIN pinned : dev[b] = truth[b]
  /\ mode = "replay" =>
       /\ k <= Len(Logged) + 1
       /\ \A m \in 1 .. k - 1 :
            /\ pinned[Logged[m].blk] = dev[Logged[m].blk]
            /\ Final(m, k - 1) => dev[Logged[m].blk] = Logged[m].img
  /\ mode \in {"unmark", "unpin"} =>
       \A b \in DOMAIN pinned : pinned[b] = dev[b] /\ dev[b] = truth[b]

\* A pinned image is the truth; with two copies of a block in the log it is so
\* only until a replay begins.
ViewInv == mode = "pin" \/ Once => \A b \in DOMAIN pinned : pinned[b] = truth[b]

IInv == TypeInv /\ MapsInv /\ CallInv /\ CleanInv /\ PinInv /\ DevInv /\ ViewInv

-----------------------------------------------------------------------------
(* Use orders. *)

\* Members by index: s[m] is one for every position, and every one has one.
LEMMA MembersOf ==
  ASSUME NEW s
  PROVE  /\ \A m \in 1..Len(s) : s[m] \in Members(s)
         /\ \A b \in Members(s) : \E m \in 1..Len(s) : s[m] = b
BY DEF Members

\* Removing an entry (entries.remove) leaves the order of the others.
LEMMA WithoutRanks ==
  ASSUME NEW s, NEW S, NEW b, Ranks(s, S)
  PROVE  /\ Ranks(Without(s, b), S \ {b})
         /\ Len(Without(s, b)) <= Len(s)
         /\ b \in S => Len(Without(s, b)) = Len(s) - 1
<1>1. CASE b \notin S
  BY <1>1 DEF Without, Ranks
<1>2. CASE b \in S
  <2> DEFINE j == CHOOSE j \in 1..Len(s) : s[j] = b
             w == SubSeq(s, 1, j - 1) \o SubSeq(s, j + 1, Len(s))
  <2>1. j \in 1..Len(s) /\ s[j] = b
    BY <1>2, MembersOf DEF Ranks
  <2>2. Without(s, b) = w
    BY <1>2, Zenon DEF Without, Ranks
  <2> HIDE DEF j
  <2>3. s \in Seq(Block) /\ Len(s) \in Nat
    BY DEF Ranks
  <2>4. /\ w \in Seq(Block) /\ Len(w) = Len(s) - 1
        /\ \A m \in 1..Len(w) : w[m] = IF m < j THEN s[m] ELSE s[m + 1]
    <3> DEFINE u == SubSeq(s, 1, j - 1)
               v == SubSeq(s, j + 1, Len(s))
    <3>0. u \in Seq(Block) /\ v \in Seq(Block)
      BY <2>1, <2>3
    <3>1. Len(u) = j - 1 /\ \A m \in 1..Len(u) : u[m] = s[m]
      BY <2>1, <2>3
    <3>2. Len(v) = Len(s) - j /\ \A m \in 1..Len(v) : v[m] = s[m + j]
      BY <2>1, <2>3
    <3> HIDE DEF u, v
    <3>c. /\ u \o v \in Seq(Block) /\ Len(u \o v) = Len(u) + Len(v)
          /\ \A m \in 1..Len(u \o v) : (u \o v)[m] = IF m <= Len(u) THEN u[m] ELSE v[m - Len(u)]
      BY <3>0
    <3>3. Len(u \o v) = Len(s) - 1
      BY <3>c, <3>1, <3>2, <2>1, <2>3
    <3>4. \A m \in 1..Len(u \o v) : m < j => (u \o v)[m] = s[m]
      BY <3>1, <3>3, <3>c, <2>1, <2>3
    <3>5. \A m \in 1..Len(u \o v) : ~(m < j) => (u \o v)[m] = s[m + 1]
      <4> TAKE m \in 1..Len(u \o v)
      <4> HAVE ~(m < j)
      <4>1. m - Len(u) \in 1..Len(v) /\ (m - Len(u)) + j = m + 1
        BY <3>1, <3>2, <3>3, <2>1, <2>3
      <4>2. (u \o v)[m] = v[m - Len(u)]
        BY <3>1, <3>3, <3>c, <2>1, <2>3
      <4> QED
        BY <4>1, <4>2, <3>2
    <3> QED
      BY <3>c, <3>3, <3>4, <3>5 DEF u, v
  <2> HIDE DEF w
  <2>5. Distinct(w)
    BY <2>1, <2>3, <2>4 DEF Ranks, Distinct
  <2>6. Members(w) \subseteq S \ {b}
    <3> SUFFICES ASSUME NEW m \in 1..Len(w) PROVE w[m] \in S /\ w[m] # b
      BY DEF Members
    <3>1. PICK n \in 1..Len(s) : w[m] = s[n] /\ n # j
      <4>1. CASE m < j
        <5>1. m \in 1..Len(s) /\ m # j /\ w[m] = s[m]
          BY <4>1, <2>1, <2>3, <2>4
        <5> QED
          BY <5>1
      <4>2. CASE ~(m < j)
        <5>1. m + 1 \in 1..Len(s) /\ m + 1 # j /\ w[m] = s[m + 1]
          BY <4>2, <2>1, <2>3, <2>4
        <5> QED
          BY <5>1
      <4> QED
        BY <4>1, <4>2
    <3> QED
      BY <3>1, <2>1, MembersOf DEF Ranks, Distinct
  <2>7. S \ {b} \subseteq Members(w)
    <3> SUFFICES ASSUME NEW c \in S, c # b PROVE \E m \in 1..Len(w) : w[m] = c
      BY DEF Members
    <3>1. PICK n \in 1..Len(s) : s[n] = c
      BY MembersOf DEF Ranks
    <3>2. n # j
      BY <3>1, <2>1
    <3>3. CASE n < j
      BY <3>1, <3>3, <2>1, <2>3, <2>4
    <3>4. CASE n > j
      <4>1. n - 1 \in 1..Len(w) /\ ~(n - 1 < j) /\ (n - 1) + 1 = n
        BY <3>4, <2>1, <2>3, <2>4
      <4> QED
        BY <3>1, <4>1, <2>4
    <3> QED
      BY <3>2, <3>3, <3>4, <2>1, <2>3
  <2> QED
    BY <2>2, <2>3, <2>4, <2>5, <2>6, <2>7 DEF Ranks
<1> QED
  BY <1>1, <1>2

\* A new entry is the most recently used (next_seq).
LEMMA AppendRanks ==
  ASSUME NEW s, NEW S, NEW b \in Block \ S, Ranks(s, S)
  PROVE  Ranks(Append(s, b), S \cup {b}) /\ Len(Append(s, b)) = Len(s) + 1
<1> DEFINE a == Append(s, b)
<1>1. /\ a \in Seq(Block) /\ Len(a) = Len(s) + 1 /\ Len(s) \in Nat
      /\ \A m \in 1..Len(s) : a[m] = s[m]
      /\ a[Len(s) + 1] = b
  BY DEF Ranks
<1> HIDE DEF a
<1>2. Distinct(a)
  BY <1>1, MembersOf DEF Ranks, Distinct
<1>3. Members(a) = S \cup {b}
  BY <1>1 DEF Ranks, Members
<1> QED
  BY <1>1, <1>2, <1>3 DEF Ranks, a

\* The victim of an eviction is the first of the order.
LEMMA TailRanks ==
  ASSUME NEW s, NEW S, Ranks(s, S), Len(s) > 0
  PROVE  /\ Ranks(Tail(s), Members(Tail(s))) /\ Members(Tail(s)) \subseteq S
         /\ Len(Tail(s)) = Len(s) - 1
<1> DEFINE t == Tail(s)
<1>1. /\ t \in Seq(Block) /\ Len(t) = Len(s) - 1 /\ Len(s) \in Nat
      /\ \A m \in 1..Len(t) : t[m] = s[m + 1]
  BY DEF Ranks
<1> HIDE DEF t
<1>2. Distinct(t)
  BY <1>1 DEF Ranks, Distinct
<1>3. Members(t) \subseteq S
  BY <1>1 DEF Ranks, Members
<1> QED
  BY <1>1, <1>2, <1>3 DEF Ranks, t

\* Two orders of different blocks, one after the other.
LEMMA ConcatRanks ==
  ASSUME NEW s, NEW S, NEW t, NEW T, Ranks(s, S), Ranks(t, T), S \cap T = {}
  PROVE  Ranks(s \o t, S \cup T)
<1> DEFINE a == s \o t
<1>1. /\ a \in Seq(Block) /\ Len(a) = Len(s) + Len(t) /\ Len(s) \in Nat /\ Len(t) \in Nat
      /\ \A m \in 1..Len(a) : a[m] = IF m <= Len(s) THEN s[m] ELSE t[m - Len(s)]
  BY DEF Ranks
<1>2. \A m \in 1..Len(s) : s[m] \in S
  BY MembersOf DEF Ranks
<1>3. \A m \in 1..Len(t) : t[m] \in T
  BY MembersOf DEF Ranks
<1> HIDE DEF a
<1>4. Distinct(a)
  BY <1>1, <1>2, <1>3 DEF Ranks, Distinct
<1>5. Members(a) \subseteq S \cup T
  BY <1>1, <1>2, <1>3 DEF Members
<1>6. \A b \in S : b \in Members(a)
  BY <1>1, MembersOf DEF Ranks, Members
<1>7. \A b \in T : b \in Members(a)
  <2> SUFFICES ASSUME NEW b \in T PROVE \E m \in 1..Len(a) : a[m] = b
    BY DEF Members
  <2>1. PICK n \in 1..Len(t) : t[n] = b
    BY MembersOf DEF Ranks
  <2>2. Len(s) + n \in 1..Len(a) /\ ~(Len(s) + n <= Len(s)) /\ (Len(s) + n) - Len(s) = n
    BY <1>1
  <2> QED
    BY <1>1, <2>1, <2>2
<1> QED
  BY <1>1, <1>4, <1>5, <1>6, <1>7 DEF Ranks, a

\* What is left of an order when its first entries go.
LEMMA SuffixRanks ==
  ASSUME NEW s, NEW S, NEW f \in Nat, Ranks(s, S), f >= 1, f <= Len(s) + 1
  PROVE  LET t == SubSeq(s, f, Len(s))
         IN  Ranks(t, Members(t)) /\ Members(t) \subseteq S /\ Len(t) = Len(s) - f + 1
<1> DEFINE t == SubSeq(s, f, Len(s))
<1>1. /\ t \in Seq(Block) /\ Len(t) = Len(s) - f + 1 /\ Len(s) \in Nat
      /\ \A m \in 1..Len(t) : t[m] = s[m + f - 1]
  BY DEF Ranks
<1> HIDE DEF t
<1>2. Distinct(t)
  <2> SUFFICES ASSUME NEW m \in 1..Len(t), NEW n \in 1..Len(t), t[m] = t[n] PROVE m = n
    BY DEF Distinct
  <2>1. m + f - 1 \in 1..Len(s) /\ n + f - 1 \in 1..Len(s)
    BY <1>1
  <2>2. m + f - 1 = n + f - 1
    BY <1>1, <2>1 DEF Ranks, Distinct
  <2> QED
    BY <1>1, <2>2
<1>3. \A m \in 1..Len(t) : m + f - 1 \in 1..Len(s)
  BY <1>1
<1>4. Members(t) \subseteq S
  BY <1>1, <1>3, Zenon DEF Ranks, Members
<1> QED
  BY <1>1, <1>2, <1>4 DEF Ranks, t

\* An enumeration of a finite set of blocks, as draining a map gives, names
\* each once.
LEMMA DrainRanks ==
  ASSUME NEW D \in SUBSET Block, IsFiniteSet(D),
         NEW s \in [1..Cardinality(D) -> D], Members(s) = D
  PROVE  Ranks(s, D)
<1>1. Cardinality(D) \in Nat
  BY FS_CardinalityType
<1>2. s \in Seq(Block) /\ Len(s) = Cardinality(D)
  BY <1>1
<1>3. IsFiniteSet(1..Cardinality(D)) /\ Cardinality(1..Cardinality(D)) = Cardinality(D)
  BY <1>1, FS_Interval
<1>4. s \in Surjection(1..Cardinality(D), D)
  BY <1>2, MembersOf DEF Surjection
<1>5. s \in Injection(1..Cardinality(D), D)
  BY <1>3, <1>4, FS_SurjSameCardinalityImpliesInj
<1> QED
  BY <1>2, <1>5 DEF Ranks, Distinct, Injection, IsInjective

\* The order is as long as the map it ranks is large.
LEMMA RanksLen ==
  ASSUME NEW s, NEW S, Ranks(s, S)
  PROVE  Len(s) = Cardinality(S)
<1> DEFINE n == Len(s)
<1>0. n \in Nat
  BY DEF Ranks
<1>1. s \in [1..n -> S]
  BY MembersOf DEF Ranks
<1>2. s \in Bijection(1..n, S)
  BY <1>1, MembersOf DEF Ranks, Distinct, Bijection, Injection, Surjection, IsInjective
<1>3. ExistsBijection(1..n, S)
  BY <1>2 DEF ExistsBijection
<1> HIDE DEF n
<1>4. IsFiniteSet(1..n) /\ Cardinality(1..n) = n
  BY <1>0, FS_Interval
<1> QED
  BY <1>3, <1>4, FS_Bijection DEF n

-----------------------------------------------------------------------------
(* CacheState. *)

\* get only moves an entry to the end of the order.
LEMMA TouchMaps ==
  ASSUME MapsInv, NEW b \in Block, Touch(b), UNCHANGED <<clean, pinned>>
  PROVE  MapsInv'
<1>1. CASE b \notin DOMAIN clean
  BY <1>1 DEF MapsInv, Touch
<1>2. CASE b \in DOMAIN clean
  <2>1. order' = Append(Without(order, b), b)
    BY <1>2 DEF Touch
  <2>2. /\ Ranks(Without(order, b), DOMAIN clean \ {b})
        /\ Len(Without(order, b)) = Len(order) - 1
    BY <1>2, WithoutRanks, Zenon DEF MapsInv
  <2>3. /\ Ranks(order', (DOMAIN clean \ {b}) \cup {b})
        /\ Len(order') = (Len(order) - 1) + 1
    BY <2>1, <2>2, AppendRanks
  <2>4. (DOMAIN clean \ {b}) \cup {b} = DOMAIN clean
    BY <1>2
  <2>5. Len(order) \in Nat
    BY DEF MapsInv, Ranks
  <2>6. Ranks(order', DOMAIN clean') /\ Len(order') = Len(order)
    BY <2>3, <2>4, <2>5
  <2> QED
    BY <2>6 DEF MapsInv
<1> QED
  BY <1>1, <1>2

\* put changes no entry but b's, in whichever map b is, and keeps to the
\* capacity.
LEMMA PutMaps ==
  ASSUME MapsInv, NEW b \in Block, NEW img, Put(b, img)
  PROVE  /\ MapsInv'
         /\ DOMAIN pinned' = DOMAIN pinned
         /\ \A c \in DOMAIN pinned : pinned'[c] = IF c = b THEN img ELSE pinned[c]
         /\ DOMAIN clean' \subseteq DOMAIN clean \cup {b}
         /\ \A c \in DOMAIN clean' : clean'[c] = IF c = b THEN img ELSE clean[c]
<1>0. Len(order) \in Nat /\ Capacity \in Nat
  BY CacheAssumption DEF MapsInv, Ranks
<1>1. CASE b \in DOMAIN pinned
  BY <1>1 DEF MapsInv, Put
<1>2. CASE b \notin DOMAIN pinned /\ Capacity = 0
  <2>0. Len(order) = 0
    BY <1>0, <1>2 DEF MapsInv
  <2>1. DOMAIN clean = {}
    BY <2>0, MembersOf DEF MapsInv, Ranks
  <2> QED
    BY <1>2, <2>1 DEF MapsInv, Put
<1>3. CASE b \notin DOMAIN pinned /\ Capacity # 0
  <2> DEFINE R == Members(Room)
  <2>1. Ranks(Room, R) /\ R \subseteq DOMAIN clean /\ Len(Room) < Capacity
    <3>1. CASE Len(order) >= Capacity
      BY <3>1, <1>0, <1>3, TailRanks DEF MapsInv, Room
    <3>2. CASE ~(Len(order) >= Capacity)
      BY <3>2, <1>0 DEF MapsInv, Room, Ranks
    <3> QED
      BY <3>1, <3>2
  <2>2. /\ order' = Append(Without(Room, b), b)
        /\ clean' = [c \in R \cup {b} |-> IF c = b THEN img ELSE clean[c]]
        /\ pinned' = pinned
    BY <1>3 DEF Put
  <2> HIDE DEF R
  <2>3. Ranks(Without(Room, b), R \ {b}) /\ Len(Without(Room, b)) <= Len(Room)
    BY <2>1, WithoutRanks
  <2>4. Ranks(order', (R \ {b}) \cup {b}) /\ Len(order') = Len(Without(Room, b)) + 1
    BY <2>2, <2>3, AppendRanks
  <2>5. (R \ {b}) \cup {b} = R \cup {b} /\ DOMAIN clean' = R \cup {b}
    BY <2>2
  <2>6. Len(order') <= Capacity
    <3>1. Len(Room) \in Nat /\ Len(Without(Room, b)) \in Nat
      BY <2>1, <2>3 DEF Ranks
    <3> QED
      BY <3>1, <2>1, <2>3, <2>4, <1>0
  <2>7. Ranks(order', DOMAIN clean')
    BY <2>4, <2>5, Zenon
  <2>8. MapsInv'
    BY <2>1, <2>2, <2>5, <2>6, <2>7, <1>3 DEF MapsInv
  <2>9. \A c \in DOMAIN clean' : clean'[c] = IF c = b THEN img ELSE clean[c]
    BY <2>2
  <2>10. \A c \in DOMAIN pinned : pinned'[c] = IF c = b THEN img ELSE pinned[c]
    BY <2>2, <1>3
  <2> QED
    BY <2>1, <2>2, <2>5, <2>8, <2>9, <2>10
<1> QED
  BY <1>1, <1>2, <1>3

\* entries.remove takes b's entry and no other.
LEMMA DropMaps ==
  ASSUME MapsInv, NEW b, Drop(b)
  PROVE  /\ Ranks(order', DOMAIN clean') /\ Len(order') <= Capacity
         /\ DOMAIN clean' = DOMAIN clean \ {b}
         /\ \A c \in DOMAIN clean' : clean'[c] = clean[c]
<1>1. Ranks(order', DOMAIN clean \ {b}) /\ Len(order') <= Len(order)
  BY WithoutRanks DEF MapsInv, Drop
<1>2. Len(order') \in Nat /\ Len(order) \in Nat /\ Capacity \in Nat
  BY <1>1, CacheAssumption DEF MapsInv, Ranks
<1>3. /\ DOMAIN clean' = DOMAIN clean \ {b}
      /\ \A c \in DOMAIN clean' : clean'[c] = clean[c]
  BY DEF Drop
<1> QED
  BY <1>1, <1>2, <1>3 DEF MapsInv

\* Overlaying part of a write changes no pinned image but b's.
LEMMA OverlayMaps ==
  ASSUME NEW b, NEW h, NEW v, OverlayPinned(b, h, v)
  PROVE  /\ DOMAIN pinned' = DOMAIN pinned
         /\ \A c \in DOMAIN pinned :
              pinned'[c] = IF c = b THEN [pinned[c] EXCEPT ![h] = v] ELSE pinned[c]
BY DEF OverlayPinned

\* unpin_all leaves nothing pinned and an entry is what it was, in either map.
LEMMA UnpinMaps ==
  ASSUME MapsInv, DOMAIN pinned \subseteq Block, UnpinAll
  PROVE  /\ MapsInv' /\ DOMAIN pinned' = {}
         /\ DOMAIN clean' \subseteq DOMAIN clean \cup DOMAIN pinned
         /\ \A c \in DOMAIN clean' : clean'[c] = IF c \in DOMAIN pinned THEN pinned[c] ELSE clean[c]
<1> DEFINE D == DOMAIN pinned
<1>1. PICK s \in [1..Cardinality(D) -> D] :
        /\ Members(s) = D
        /\ LET all  == order \o s
               from == IF Len(all) > Capacity THEN Len(all) - Capacity + 1 ELSE 1
               kept == SubSeq(all, from, Len(all))
           IN  /\ order' = kept
               /\ clean' = [c \in Members(kept) |-> IF c \in D THEN pinned[c] ELSE clean[c]]
               /\ pinned' = [c \in {} |-> Idle]
  BY Zenon DEF UnpinAll
<1> DEFINE all  == order \o s
           from == IF Len(all) > Capacity THEN Len(all) - Capacity + 1 ELSE 1
           kept == SubSeq(all, from, Len(all))
<1>2. /\ order' = kept
      /\ clean' = [c \in Members(kept) |-> IF c \in D THEN pinned[c] ELSE clean[c]]
      /\ pinned' = [c \in {} |-> Idle]
  BY <1>1
<1>3. Ranks(s, D)
  BY <1>1, DrainRanks DEF MapsInv
<1>4. Ranks(all, DOMAIN clean \cup D)
  BY <1>3, ConcatRanks DEF MapsInv
<1> HIDE DEF all
<1>5. Len(all) \in Nat /\ Capacity \in Nat
  BY <1>4, CacheAssumption DEF Ranks
<1>6. from \in Nat /\ from >= 1 /\ from <= Len(all) + 1 /\ Len(all) - from + 1 <= Capacity
  BY <1>5
<1> HIDE DEF from
<1>7. /\ Ranks(kept, Members(kept)) /\ Members(kept) \subseteq DOMAIN clean \cup D
      /\ Len(kept) = Len(all) - from + 1
  BY <1>4, <1>6, SuffixRanks, Zenon
<1> HIDE DEF kept
<1>8. DOMAIN clean' = Members(kept) /\ DOMAIN pinned' = {}
  BY <1>2
<1>9. MapsInv'
  BY <1>2, <1>6, <1>7, <1>8, FS_EmptySet DEF MapsInv
<1> QED
  BY <1>2, <1>7, <1>8, <1>9

\* What the record of a call holds, by how far it has got.
LEMMA CallFacts ==
  ASSUME TypeInv, NEW p \in Proc
  PROVE  /\ th[p].op \in {"idle", "miss", "put", "part"}
         /\ th[p].op = "idle" <=> th[p] = Idle
         /\ th[p].op \in {"miss", "put", "part"} => th[p].blk \in Block
         /\ th[p].op = "put" => th[p].img \in Img
         /\ th[p].op = "part" => th[p].half \in Half /\ th[p].val \in Val
<1>1. th[p] \in Calls
  BY DEF TypeInv
<1> QED
  BY <1>1 DEF Calls, Idle

-----------------------------------------------------------------------------
(* The threads' steps. *)

\* Init establishes the invariant.
LEMMA InvInit == Init => IInv
<1> SUFFICES ASSUME Init PROVE IInv
  OBVIOUS
<1>1. PICK v \in Val : dev = [b \in Block |-> [h \in Half |-> v]]
  BY DEF Init
<1>2. dev \in [Block -> Img]
  BY <1>1 DEF Img
<1>3. /\ DOMAIN pinned = {} /\ mode \in {"pin", "rw"} /\ k = 1
      /\ th = [p \in Proc |-> Idle] /\ truth = dev
  BY DEF Init
<1>4. /\ Ranks(order, DOMAIN clean) /\ Len(order) <= Capacity
      /\ DOMAIN clean \subseteq Block
      /\ \A b \in DOMAIN clean : clean[b] = dev[b]
  <2>1. CASE clean = [c \in {} |-> Idle] /\ order = <<>>
    BY <2>1, CacheAssumption DEF Ranks, Distinct, Members
  <2>2. CASE Capacity > 0 /\ \E b \in Block : clean = [c \in {b} |-> dev[b]] /\ order = <<b>>
    <3>1. PICK b \in Block : clean = [c \in {b} |-> dev[b]] /\ order = <<b>>
      BY <2>2
    <3>2. order \in Seq(Block) /\ Len(order) = 1 /\ order[1] = b
      BY <3>1
    <3>3. Ranks(order, {b})
      BY <3>2 DEF Ranks, Distinct, Members
    <3> QED
      BY <3>1, <3>2, <3>3, <2>2, CacheAssumption
  <2> QED
    BY <2>1, <2>2, Zenon DEF Init
<1>5. Len(Logged) \in Nat
  BY CacheAssumption
<1>6. TypeInv
  BY <1>2, <1>3, <1>4 DEF TypeInv, Calls
<1>7. MapsInv
  BY <1>3, <1>4, FS_EmptySet DEF MapsInv
<1>8. \A p \in Proc : th[p].op = "idle"
  BY <1>3 DEF Idle
<1>9. CallInv
  BY <1>3, <1>8 DEF CallInv, Alone
<1>10. CleanInv
  BY <1>4, <1>8 DEF CleanInv
<1>11. PinInv /\ DevInv /\ ViewInv
  BY <1>3, <1>5 DEF PinInv, DevInv, ViewInv, Pinning
<1> QED
  BY <1>6, <1>7, <1>9, <1>10, <1>11 DEF IInv

\* A look-up touches only the order, and a miss is of a block not pinned.
LEMMA ReadKeeps ==
  ASSUME IInv, NEW p \in Proc, NEW b \in Block, Read(p, b)
  PROVE  IInv'
<1> USE DEF IInv
<1>1. /\ UNCHANGED <<dev, clean, pinned, mode, k, truth>>
      /\ mode \in {"ro", "rw"} /\ th[p] = Idle
  BY DEF Read
<1>2. MapsInv'
  BY <1>1, TouchMaps DEF Read, MapsInv
<1>3. \/ th' = th
      \/ b \notin DOMAIN pinned /\ th' = [th EXCEPT ![p] = [op |-> "miss", blk |-> b]]
  BY DEF Read, TypeInv
<1>m. [op |-> "miss", blk |-> b] \in Calls
  BY DEF Calls
<1>t. th' \in [Proc -> Calls]
  BY <1>3, <1>m DEF TypeInv
<1>d. DOMAIN th = Proc
  BY DEF TypeInv
<1>4. \A q \in Proc : q # p => th'[q] = th[q]
  BY <1>3, <1>d
<1>o. th[p].op = "idle"
  BY <1>1 DEF Idle
<1>5. th'[p].op = "idle" \/ (th'[p].op = "miss" /\ th'[p].blk \notin DOMAIN pinned)
  <2>1. CASE th' = th
    BY <2>1, <1>o
  <2>2. CASE b \notin DOMAIN pinned /\ th' = [th EXCEPT ![p] = [op |-> "miss", blk |-> b]]
    BY <2>2, <1>d
  <2> QED
    BY <1>3, <2>1, <2>2
<1>6. TypeInv'
  BY <1>1, <1>t DEF TypeInv
<1>7. CallInv'
  BY <1>1, <1>4, <1>5 DEF CallInv
<1>8. CleanInv'
  BY <1>1, <1>4, <1>5, <1>o DEF CleanInv, Settled
<1>9. PinInv' /\ DevInv' /\ ViewInv'
  BY <1>1 DEF PinInv, DevInv, ViewInv, Pinning
<1> QED
  BY <1>2, <1>6, <1>7, <1>8, <1>9

\* A miss takes the device's bytes along.
LEMMA ReadInnerKeeps ==
  ASSUME IInv, NEW p \in Proc, ReadInner(p)
  PROVE  IInv'
<1> USE DEF IInv
<1>1. /\ UNCHANGED <<dev, clean, order, pinned, mode, k, truth>>
      /\ th[p].op = "miss"
      /\ th' = [th EXCEPT ![p] = [op |-> "put", blk |-> th[p].blk, img |-> dev[th[p].blk]]]
  BY DEF ReadInner
<1>2. th[p].blk \in Block /\ dev[th[p].blk] \in Img
  BY <1>1, CallFacts DEF TypeInv
<1>3. /\ th' \in [Proc -> Calls]
      /\ \A q \in Proc : q # p => th'[q] = th[q]
      /\ th'[p].op = "put" /\ th'[p].blk = th[p].blk /\ th'[p].img = dev[th[p].blk]
  BY <1>1, <1>2 DEF TypeInv, Calls
<1>4. TypeInv'
  BY <1>1, <1>3 DEF TypeInv
<1>5. MapsInv'
  BY <1>1 DEF MapsInv
<1>6. CallInv'
  BY <1>1, <1>3 DEF CallInv, Alone, Idle
<1>7. CleanInv'
  BY <1>1, <1>3 DEF CleanInv, Settled
<1>8. PinInv' /\ DevInv' /\ ViewInv'
  BY <1>1 DEF PinInv, DevInv, ViewInv, Pinning
<1> QED
  BY <1>4, <1>5, <1>6, <1>7, <1>8

\* The end of a read or of a full write: no pinned image is touched, and the
\* entry is what the device holds.
LEMMA FillOrUpdateKeeps ==
  ASSUME IInv, NEW p \in Proc, FillOrUpdate(p)
  PROVE  IInv'
<1> USE DEF IInv
<1>1. /\ UNCHANGED <<dev, mode, k, truth>>
      /\ th[p].op = "put" /\ th' = [th EXCEPT ![p] = Idle]
      /\ Put(th[p].blk, th[p].img)
  BY DEF FillOrUpdate
<1>2. th[p].blk \in Block /\ th[p].blk \notin DOMAIN pinned
  BY <1>1, CallFacts DEF CallInv
<1>3. MapsInv'
  BY <1>1, <1>2, PutMaps
<1>4. /\ DOMAIN clean' \subseteq DOMAIN clean \cup {th[p].blk}
      /\ \A c \in DOMAIN clean' : clean'[c] = IF c = th[p].blk THEN th[p].img ELSE clean[c]
  BY <1>1, <1>2, PutMaps
<1>5. pinned' = pinned
  BY <1>1, <1>2 DEF Put
<1>6. /\ th' \in [Proc -> Calls]
      /\ \A q \in Proc : q # p => th'[q] = th[q]
      /\ th'[p].op = "idle"
  BY <1>1 DEF TypeInv, Calls, Idle
<1>7. TypeInv'
  BY <1>1, <1>2, <1>4, <1>5, <1>6 DEF TypeInv
<1>8. CallInv'
  BY <1>1, <1>5, <1>6 DEF CallInv, Alone, Idle
<1>9. CleanInv'
  BY <1>1, <1>4, <1>6 DEF CleanInv, Settled
<1>10. PinInv' /\ DevInv' /\ ViewInv'
  BY <1>1, <1>5 DEF PinInv, DevInv, ViewInv, Pinning
<1> QED
  BY <1>3, <1>7, <1>8, <1>9, <1>10

\* Where there is a writer, no other thread is, and so none is in a call.
LEMMA WriterAlone ==
  ASSUME Exclusive, NEW p \in Proc, p \in Writers, th[p] = Idle
  PROVE  Alone
BY DEF Exclusive, Alone

\* A full write: the device and the truth move together, in mode "rw", where
\* nothing is pinned.
LEMMA WriteFullKeeps ==
  ASSUME IInv, NEW p \in Proc, NEW b \in Block, NEW img \in Img, WriteFull(p, b, img)
  PROVE  IInv'
<1> USE DEF IInv
<1>1. /\ UNCHANGED <<clean, order, pinned, mode, k>>
      /\ th[p] = Idle /\ p \in Writers /\ mode = "rw"
      /\ dev' = [dev EXCEPT ![b] = img] /\ truth' = [truth EXCEPT ![b] = img]
      /\ th' = [th EXCEPT ![p] = [op |-> "put", blk |-> b, img |-> img]]
  BY DEF WriteFull
<1>2. /\ th' \in [Proc -> Calls]
      /\ \A q \in Proc : q # p => th'[q] = th[q]
      /\ th'[p].op = "put" /\ th'[p].blk = b /\ th'[p].img = img
  BY <1>1 DEF TypeInv, Calls
<1>3. /\ dev' \in [Block -> Img] /\ truth' \in [Block -> Img]
      /\ dev'[b] = img /\ truth'[b] = img
      /\ \A c \in Block : c # b => dev'[c] = dev[c] /\ truth'[c] = truth[c]
  BY <1>1 DEF TypeInv
<1>4. DOMAIN pinned = {}
  BY <1>1 DEF CallInv
<1>5. TypeInv'
  BY <1>1, <1>2, <1>3 DEF TypeInv
<1>6. MapsInv'
  BY <1>1 DEF MapsInv
<1>7. CallInv'
  BY <1>1, <1>2, <1>4 DEF CallInv
<1>8. CleanInv'
  <2> SUFFICES ASSUME Exclusive
               PROVE  /\ \A q \in Proc : th'[q].op = "put" => th'[q].img = dev'[th'[q].blk]
                      /\ \A c \in DOMAIN clean : Settled(c)' => clean[c] = dev'[c]
    BY <1>1 DEF CleanInv
  <2>1. \A q \in Proc : th[q].op = "idle"
    BY <1>1, WriterAlone DEF Alone, Idle
  <2>2. \A c \in DOMAIN clean : clean[c] = dev[c] /\ c \in Block
    BY <2>1 DEF CleanInv, Settled, TypeInv
  <2>3. ~Settled(b)'
    BY <1>2, Zenon DEF Settled
  <2> QED
    BY <1>2, <1>3, <2>1, <2>2, <2>3
<1>9. PinInv' /\ DevInv' /\ ViewInv'
  BY <1>1, <1>3, <1>4 DEF PinInv, DevInv, ViewInv, Pinning
<1> QED
  BY <1>5, <1>6, <1>7, <1>8, <1>9

\* A write of half a block, likewise.
LEMMA WritePartKeeps ==
  ASSUME IInv, NEW p \in Proc, NEW b \in Block, NEW h \in Half, NEW v \in Val, WritePart(p, b, h, v)
  PROVE  IInv'
<1> USE DEF IInv
<1>1. /\ UNCHANGED <<clean, order, pinned, mode, k>>
      /\ th[p] = Idle /\ p \in Writers /\ mode = "rw"
      /\ dev' = [dev EXCEPT ![b][h] = v] /\ truth' = [truth EXCEPT ![b][h] = v]
      /\ th' = [th EXCEPT ![p] = [op |-> "part", blk |-> b, half |-> h, val |-> v]]
  BY DEF WritePart
<1>2. /\ th' \in [Proc -> Calls]
      /\ \A q \in Proc : q # p => th'[q] = th[q]
      /\ th'[p].op = "part" /\ th'[p].blk = b
  BY <1>1 DEF TypeInv, Calls
<1>3. /\ dev' \in [Block -> Img] /\ truth' \in [Block -> Img]
      /\ dev'[b] = [dev[b] EXCEPT ![h] = v] /\ truth'[b] = [truth[b] EXCEPT ![h] = v]
      /\ \A c \in Block : c # b => dev'[c] = dev[c] /\ truth'[c] = truth[c]
  BY <1>1 DEF TypeInv, Img
<1>4. DOMAIN pinned = {}
  BY <1>1 DEF CallInv
<1>5. TypeInv'
  BY <1>1, <1>2, <1>3 DEF TypeInv
<1>6. MapsInv'
  BY <1>1 DEF MapsInv
<1>7. CallInv'
  BY <1>1, <1>2, <1>4 DEF CallInv
<1>8. CleanInv'
  <2> SUFFICES ASSUME Exclusive
               PROVE  /\ \A q \in Proc : th'[q].op # "put"
                      /\ \A c \in DOMAIN clean : Settled(c)' => clean[c] = dev'[c]
    BY <1>1 DEF CleanInv
  <2>1. \A q \in Proc : th[q].op = "idle"
    BY <1>1, WriterAlone DEF Alone, Idle
  <2>2. \A c \in DOMAIN clean : clean[c] = dev[c] /\ c \in Block
    BY <2>1 DEF CleanInv, Settled, TypeInv
  <2>3. ~Settled(b)'
    BY <1>2 DEF Settled
  <2> QED
    BY <1>2, <1>3, <2>1, <2>2, <2>3
<1>9. \A c \in Block : dev'[c] = truth'[c]
  BY <1>3, <1>4 DEF DevInv
<1>10. PinInv' /\ DevInv' /\ ViewInv'
  BY <1>1, <1>4, <1>9 DEF PinInv, DevInv, ViewInv, Pinning
<1> QED
  BY <1>5, <1>6, <1>7, <1>8, <1>10

\* The end of a write of half a block: its entry goes.
LEMMA UpdatePartKeeps ==
  ASSUME IInv, NEW p \in Proc, UpdatePart(p)
  PROVE  IInv'
<1> USE DEF IInv
<1>1. /\ UNCHANGED <<dev, mode, k, truth>>
      /\ th[p].op = "part" /\ th' = [th EXCEPT ![p] = Idle]
      /\ Drop(th[p].blk)
  BY DEF UpdatePart
<1>2. mode = "rw" /\ DOMAIN pinned = {}
  BY <1>1 DEF CallInv
<1>3. pinned' = pinned
  BY <1>2 DEF UpdatePart, OverlayPinned
<1>4. /\ Ranks(order', DOMAIN clean') /\ Len(order') <= Capacity
      /\ DOMAIN clean' = DOMAIN clean \ {th[p].blk}
      /\ \A c \in DOMAIN clean' : clean'[c] = clean[c]
  BY <1>1, DropMaps, ZenonT(20)
<1>5. /\ th' \in [Proc -> Calls]
      /\ \A q \in Proc : q # p => th'[q] = th[q]
      /\ th'[p].op = "idle"
  BY <1>1 DEF TypeInv, Calls, Idle
<1>6. TypeInv'
  BY <1>1, <1>3, <1>4, <1>5 DEF TypeInv
<1>7. MapsInv'
  BY <1>3, <1>4 DEF MapsInv
<1>8. CallInv'
  BY <1>1, <1>2, <1>3, <1>5 DEF CallInv
<1>9. \A c \in DOMAIN clean' : Settled(c)' => Settled(c)
  BY <1>4, <1>5 DEF Settled
<1>10. CleanInv'
  BY <1>1, <1>4, <1>5, <1>9 DEF CleanInv
<1>11. PinInv' /\ DevInv' /\ ViewInv'
  BY <1>1, <1>2, <1>3 DEF PinInv, DevInv, ViewInv
<1> QED
  BY <1>6, <1>7, <1>8, <1>10, <1>11

-----------------------------------------------------------------------------
(* The mount's steps. *)

\* The log and its entries.
LEMMA LogFacts ==
  /\ Len(Logged) \in Nat
  /\ \A m \in 1..Len(Logged) : Logged[m].blk \in Block /\ Logged[m].img \in Img
<1> DEFINE E == [blk : Block, img : Img]
<1>1. Logged \in Seq(E)
  BY CacheAssumption
<1> HIDE DEF E
<1>2. Len(Logged) \in Nat /\ \A m \in 1..Len(Logged) : Logged[m] \in E
  BY <1>1
<1> QED
  BY <1>2 DEF E

\* A step lets go of a pinned block only at the end of a replay.
LEMMA PinStep ==
  ASSUME IInv, Next
  PROVE  \A b \in DOMAIN pinned \ DOMAIN pinned' : dev'[b] = truth[b]
<1>1. CASE UNCHANGED pinned
  BY <1>1
<1>2. CASE \E p \in Proc : FillOrUpdate(p)
  BY <1>2, CallFacts, PutMaps DEF FillOrUpdate, IInv
<1>3. CASE \E p \in Proc : UpdatePart(p)
  BY <1>3, OverlayMaps DEF UpdatePart
<1>4. CASE PinLogged
  BY <1>4 DEF PinLogged, Pin
<1>5. CASE ReplayWrite
  <2>1. CASE k <= Len(Logged)
    <3>1. Logged[k].blk \in Block /\ Put(Logged[k].blk, Logged[k].img)
      BY <1>5, <2>1, LogFacts DEF ReplayWrite, IInv, TypeInv
    <3> QED
      BY <3>1, PutMaps DEF IInv
  <2>2. CASE ~(k <= Len(Logged))
    BY <1>5, <2>2 DEF ReplayWrite
  <2> QED
    BY <2>1, <2>2
<1>6. CASE \E v \in Val : ReplayDone(v)
  BY <1>6, OverlayMaps DEF ReplayDone
<1>7. CASE ReplayUnpin
  BY <1>7 DEF ReplayUnpin, IInv, DevInv
<1>8. CASE FreshRead
  BY <1>8 DEF FreshRead, IInv, CallInv
<1> QED
  BY <1>1, <1>2, <1>3, <1>4, <1>5, <1>6, <1>7, <1>8
     DEF Next, Read, ReadInner, WriteFull, WritePart, StartReplay, ReplayError

\* Pinning entry k of the log makes it the last for its block.
LEMMA PinLoggedKeeps ==
  ASSUME IInv, PinLogged
  PROVE  IInv'
<1> USE DEF IInv
<1>0. mode = "pin" /\ dev' = dev /\ th' = th /\ k \in Nat /\ k >= 1 /\ k <= Len(Logged) + 1
  BY DEF PinLogged, TypeInv, PinInv
<1>1. CASE k <= Len(Logged)
  <2> DEFINE b == Logged[k].blk
             img == Logged[k].img
  <2>1. k \in 1..Len(Logged) /\ b \in Block /\ img \in Img
    BY <1>0, <1>1, LogFacts
  <2> HIDE DEF b, img
  <2>2. /\ mode' = mode /\ k' = k + 1 /\ truth' = [truth EXCEPT ![b] = img]
        /\ Drop(b)
        /\ pinned' = [c \in DOMAIN pinned \cup {b} |-> IF c = b THEN img ELSE pinned[c]]
    BY <1>1 DEF PinLogged, Pin, b, img
  <2>3. /\ Ranks(order', DOMAIN clean') /\ Len(order') <= Capacity
        /\ DOMAIN clean' = DOMAIN clean \ {b}
        /\ \A c \in DOMAIN clean' : clean'[c] = clean[c]
    <3>1. Drop(b)
      BY <2>2
    <3> QED
      BY <3>1, DropMaps, ZenonT(20)
  <2>4. /\ DOMAIN pinned' = DOMAIN pinned \cup {b} /\ pinned'[b] = img
        /\ \A c \in DOMAIN pinned : c # b => pinned'[c] = pinned[c]
    BY <2>2
  <2>5. /\ truth' \in [Block -> Img] /\ truth'[b] = img
        /\ \A c \in Block : c # b => truth'[c] = truth[c]
    BY <2>1, <2>2 DEF TypeInv
  <2>6. TypeInv'
    BY <1>0, <2>1, <2>2, <2>3, <2>4, <2>5 DEF TypeInv
  <2>7. MapsInv'
    <3>1. IsFiniteSet(DOMAIN pinned')
      BY <2>4, FS_AddElement DEF MapsInv
    <3> QED
      BY <2>3, <2>4, <3>1 DEF MapsInv
  <2>8. \A p \in Proc : th[p].op = "idle"
    BY <1>0 DEF CallInv, Alone, Idle
  <2>9. CallInv'
    BY <1>0, <2>2, <2>8 DEF CallInv, Alone
  <2>10. CleanInv'
    BY <1>0, <2>3, <2>8 DEF CleanInv, Settled
  <2>11. PinInv'
    <3>1. Pinning' = k /\ Pinning = k - 1
      BY <1>0, <2>2 DEF Pinning
    <3>2. k' <= Len(Logged) + 1
      BY <1>0, <1>1, <2>2, LogFacts
    <3>3. \A m \in 1..k : Logged[m].blk \in DOMAIN pinned'
      BY <1>0, <2>4, <3>1 DEF PinInv, b
    <3>4. ASSUME NEW c \in DOMAIN pinned'
          PROVE  \E m \in 1..k : Logged[m].blk = c /\ Final(m, k) /\ truth'[c] = Logged[m].img
      <4>1. CASE c = b
        <5>1. Final(k, k)
          BY <1>0 DEF Final
        <5> QED
          BY <1>0, <4>1, <5>1, <2>5 DEF b, img
      <4>2. CASE c # b
        <5>1. c \in DOMAIN pinned /\ c \in Block
          BY <4>2, <2>4 DEF TypeInv
        <5>2. PICK m \in 1 .. k - 1 : Logged[m].blk = c /\ Final(m, k - 1) /\ truth[c] = Logged[m].img
          BY <5>1, <1>0, <3>1 DEF PinInv
        <5>3. Final(m, k)
          BY <5>2, <4>2, <1>0 DEF Final, b
        <5> QED
          BY <5>1, <5>2, <5>3, <4>2, <2>5, <1>0
      <4> QED
        BY <4>1, <4>2
    <3> QED
      BY <3>1, <3>2, <3>3, <3>4, <2>2 DEF PinInv, Final
  <2>12. DevInv'
    BY <1>0, <2>2, <2>4, <2>5 DEF DevInv
  <2>13. ViewInv'
    BY <1>0, <2>4, <2>5 DEF ViewInv, TypeInv
  <2> QED
    BY <2>6, <2>7, <2>9, <2>10, <2>11, <2>12, <2>13
<1>2. CASE ~(k <= Len(Logged))
  <2>1. mode' = "ro" /\ UNCHANGED <<clean, order, pinned, truth, k>>
    BY <1>2 DEF PinLogged
  <2>2. Pinning' = Pinning
    BY <1>0, <1>2, <2>1, LogFacts DEF Pinning
  <2>3. TypeInv' /\ MapsInv'
    BY <1>0, <2>1 DEF TypeInv, MapsInv
  <2>4. CallInv'
    BY <1>0, <2>1 DEF CallInv, Alone, Idle
  <2>5. CleanInv'
    BY <1>0, <2>1 DEF CleanInv, Settled
  <2>6. PinInv'
    BY <1>0, <2>1, <2>2 DEF PinInv, Final
  <2>7. DevInv' /\ ViewInv'
    BY <1>0, <2>1 DEF DevInv, ViewInv
  <2> QED
    BY <2>3, <2>4, <2>5, <2>6, <2>7
<1> QED
  BY <1>1, <1>2

\* A replay starts with no call under way.
LEMMA StartReplayKeeps ==
  ASSUME IInv, StartReplay
  PROVE  IInv'
<1> USE DEF IInv
<1>1. /\ mode = "ro" /\ Alone /\ mode' = "replay" /\ k' = 1
      /\ UNCHANGED <<dev, clean, order, pinned, th, truth>>
  BY DEF StartReplay
<1>2. Pinning' = Pinning
  BY <1>1 DEF Pinning
<1>3. TypeInv' /\ MapsInv'
  BY <1>1 DEF TypeInv, MapsInv
<1>4. CallInv'
  BY <1>1 DEF CallInv, Alone
<1>5. CleanInv'
  BY <1>1 DEF CleanInv, Settled
<1>6. PinInv'
  BY <1>1, <1>2 DEF PinInv, Final
<1>7. DevInv' /\ ViewInv'
  BY <1>1, LogFacts DEF DevInv, ViewInv
<1> QED
  BY <1>3, <1>4, <1>5, <1>6, <1>7

\* A replayed block is pinned, so its write goes to the device and to the
\* pinned image: the two agree on what has been replayed.
LEMMA ReplayWriteKeeps ==
  ASSUME IInv, ReplayWrite
  PROVE  IInv'
<1> USE DEF IInv
<1>0. /\ mode = "replay" /\ truth' = truth /\ th' = th
      /\ k \in Nat /\ k >= 1 /\ k <= Len(Logged) + 1 /\ Len(Logged) \in Nat
  BY LogFacts DEF ReplayWrite, TypeInv, DevInv
<1>A. \A p \in Proc : th[p].op = "idle"
  BY <1>0 DEF CallInv, Alone, Idle
<1>P. Pinning = Len(Logged)
  BY <1>0 DEF Pinning
<1>1. CASE k <= Len(Logged)
  <2> DEFINE b == Logged[k].blk
             img == Logged[k].img
  <2>1. k \in 1..Len(Logged) /\ b \in Block /\ img \in Img
    BY <1>0, <1>1, LogFacts
  <2>2. b \in DOMAIN pinned
    BY <2>1, <1>0, <1>P DEF PinInv
  <2> HIDE DEF b, img
  <2>3. mode' = mode /\ k' = k + 1 /\ dev' = [dev EXCEPT ![b] = img] /\ Put(b, img)
    BY <1>1 DEF ReplayWrite, b, img
  <2>4. pinned' = [pinned EXCEPT ![b] = img] /\ UNCHANGED <<clean, order>>
    BY <2>2, <2>3 DEF Put
  <2>5. /\ DOMAIN pinned' = DOMAIN pinned /\ pinned'[b] = img
        /\ \A c \in DOMAIN pinned : c # b => pinned'[c] = pinned[c]
    BY <2>2, <2>4
  <2>6. /\ dev' \in [Block -> Img] /\ dev'[b] = img
        /\ \A c \in Block : c # b => dev'[c] = dev[c]
    BY <2>1, <2>3 DEF TypeInv
  <2>7. TypeInv'
    BY <1>0, <2>3, <2>4, <2>5, <2>6 DEF TypeInv
  <2>8. MapsInv'
    BY <2>4, <2>5 DEF MapsInv
  <2>9. CallInv'
    BY <1>0, <1>A, <2>3 DEF CallInv, Alone
  <2>10. CleanInv'
    BY <1>0, <1>A, <2>2, <2>4, <2>6 DEF CleanInv, Settled, MapsInv, TypeInv
  <2>11. Pinning' = Pinning
    BY <1>0, <2>3 DEF Pinning
  <2>12. PinInv'
    <3>1. mode' = mode /\ truth' = truth /\ DOMAIN pinned' = DOMAIN pinned
      BY <1>0, <2>3, <2>5
    <3> QED
      BY <1>0, <2>11, <3>1 DEF PinInv, Final
  <2>13. \A c \in Block \ DOMAIN pinned' : dev'[c] = truth'[c]
    BY <1>0, <2>2, <2>5, <2>6 DEF DevInv
  <2>14. \A m \in 1..k : /\ pinned'[Logged[m].blk] = dev'[Logged[m].blk]
                         /\ Final(m, k) => dev'[Logged[m].blk] = Logged[m].img
    <3> SUFFICES ASSUME NEW m \in 1..k
                 PROVE  /\ pinned'[Logged[m].blk] = dev'[Logged[m].blk]
                        /\ Final(m, k) => dev'[Logged[m].blk] = Logged[m].img
      OBVIOUS
    <3>1. CASE m = k
      BY <3>1, <2>5, <2>6 DEF b, img
    <3>2. CASE m # k /\ Logged[m].blk = b
      <4>1. ~Final(m, k)
        BY <3>2, <1>0 DEF Final, b
      <4> QED
        BY <4>1, <3>2, <2>5, <2>6
    <3>3. CASE m # k /\ Logged[m].blk # b
      <4>1. m \in 1 .. k - 1 /\ m \in 1..Len(Logged)
        BY <3>3, <1>0, <1>1
      <4>2. Logged[m].blk \in DOMAIN pinned /\ Logged[m].blk \in Block
        BY <4>1, <1>0, <1>P, LogFacts DEF PinInv
      <4>3. Final(m, k) => Final(m, k - 1)
        BY <1>0 DEF Final
      <4> QED
        BY <3>3, <4>1, <4>2, <4>3, <1>0, <2>5, <2>6 DEF DevInv
    <3> QED
      BY <3>1, <3>2, <3>3
  <2>15. DevInv'
    <3>1. k' - 1 = k /\ k' <= Len(Logged) + 1
      BY <1>0, <1>1, <2>3
    <3> QED
      BY <3>1, <1>0, <2>3, <2>13, <2>14 DEF DevInv, Final
  <2>16. ViewInv'
    <3> SUFFICES ASSUME Once PROVE \A c \in DOMAIN pinned' : pinned'[c] = truth'[c]
      BY <1>0, <2>3 DEF ViewInv
    <3>1. PICK m \in 1..Len(Logged) : Logged[m].blk = b /\ truth[b] = Logged[m].img
      BY <1>0, <1>P, <2>2 DEF PinInv
    <3>2. m = k
      BY <3>1, <2>1 DEF Once, b
    <3>3. truth[b] = img
      BY <3>1, <3>2 DEF img
    <3> QED
      BY <3>3, <1>0, <2>5 DEF ViewInv
  <2> QED
    BY <2>7, <2>8, <2>9, <2>10, <2>12, <2>15, <2>16
<1>2. CASE ~(k <= Len(Logged))
  <2>1. mode' = "unmark" /\ UNCHANGED <<dev, clean, order, pinned, k>>
    BY <1>2 DEF ReplayWrite
  <2>2. k - 1 = Len(Logged)
    BY <1>0, <1>2
  <2>3. TypeInv' /\ MapsInv'
    BY <1>0, <2>1 DEF TypeInv, MapsInv
  <2>4. CallInv'
    BY <1>0, <1>A, <2>1 DEF CallInv, Alone
  <2>5. CleanInv'
    BY <1>0, <2>1 DEF CleanInv, Settled
  <2>6. Pinning' = Pinning
    BY <1>0, <2>1 DEF Pinning
  <2>7. PinInv'
    BY <1>0, <2>1, <2>6 DEF PinInv, Final
  <2>8. ASSUME NEW c \in DOMAIN pinned
        PROVE  pinned[c] = dev[c] /\ dev[c] = truth[c]
    <3>1. PICK m \in 1..Len(Logged) :
            Logged[m].blk = c /\ Final(m, Len(Logged)) /\ truth[c] = Logged[m].img
      BY <1>0, <1>P DEF PinInv
    <3>2. /\ pinned[Logged[m].blk] = dev[Logged[m].blk]
          /\ Final(m, Len(Logged)) => dev[Logged[m].blk] = Logged[m].img
      BY <1>0, <2>2 DEF DevInv
    <3> QED
      BY <3>1, <3>2
  <2>9. DevInv' /\ ViewInv'
    BY <1>0, <2>1, <2>8 DEF DevInv, ViewInv
  <2> QED
    BY <2>3, <2>4, <2>5, <2>7, <2>9
<1> QED
  BY <1>1, <1>2

\* Clearing RECOVER writes part of the superblock's block: device, truth and
\* a pinned image take the same half, and its entry goes.
LEMMA ReplayDoneKeeps ==
  ASSUME IInv, NEW v \in Val, ReplayDone(v)
  PROVE  IInv'
<1> USE DEF IInv
<1>1. /\ mode = "unmark" /\ mode' = "unpin" /\ k' = k /\ th' = th
      /\ dev' = [dev EXCEPT ![SBlock][1] = v] /\ truth' = [truth EXCEPT ![SBlock][1] = v]
  BY DEF ReplayDone
<1>2. /\ Ranks(order', DOMAIN clean') /\ Len(order') <= Capacity
      /\ DOMAIN clean' = DOMAIN clean \ {SBlock}
      /\ \A c \in DOMAIN clean' : clean'[c] = clean[c]
  <2>1. Drop(SBlock)
    BY DEF ReplayDone
  <2> QED
    BY <2>1, DropMaps, ZenonT(20)
<1>3. /\ DOMAIN pinned' = DOMAIN pinned
      /\ \A c \in DOMAIN pinned :
           pinned'[c] = IF c = SBlock THEN [pinned[c] EXCEPT ![1] = v] ELSE pinned[c]
  <2>1. OverlayPinned(SBlock, 1, v)
    BY DEF ReplayDone
  <2> QED
    BY <2>1, OverlayMaps
<1>4. /\ dev' \in [Block -> Img] /\ truth' \in [Block -> Img]
      /\ dev'[SBlock] = [dev[SBlock] EXCEPT ![1] = v]
      /\ truth'[SBlock] = [truth[SBlock] EXCEPT ![1] = v]
      /\ \A c \in Block : c # SBlock => dev'[c] = dev[c] /\ truth'[c] = truth[c]
  BY <1>1, CacheAssumption DEF TypeInv, Img, Half
<1>5. \A p \in Proc : th[p].op = "idle"
  BY <1>1 DEF CallInv, Alone, Idle
<1>6. TypeInv'
  BY <1>1, <1>2, <1>3, <1>4 DEF TypeInv
<1>7. MapsInv'
  BY <1>2, <1>3 DEF MapsInv
<1>8. CallInv'
  BY <1>1, <1>5 DEF CallInv, Alone
<1>9. CleanInv'
  BY <1>1, <1>2, <1>4, <1>5 DEF CleanInv, Settled, TypeInv
<1>10. PinInv'
  BY <1>1, <1>3 DEF PinInv, Pinning
<1>11. \A c \in DOMAIN pinned : c \in Block /\ pinned[c] = dev[c] /\ dev[c] = truth[c]
  BY <1>1 DEF DevInv, TypeInv
<1>12. \A c \in DOMAIN pinned : pinned'[c] = dev'[c] /\ dev'[c] = truth'[c]
  BY <1>3, <1>4, <1>11
<1>13. \A c \in Block \ DOMAIN pinned : dev'[c] = truth'[c]
  BY <1>4 DEF DevInv
<1>14. DevInv' /\ ViewInv'
  BY <1>1, <1>3, <1>12, <1>13 DEF DevInv, ViewInv
<1> QED
  BY <1>6, <1>7, <1>8, <1>9, <1>10, <1>14

\* What unpin_all makes evictable is on the device.
LEMMA ReplayUnpinKeeps ==
  ASSUME IInv, ReplayUnpin
  PROVE  IInv'
<1> USE DEF IInv
<1>1. mode = "unpin" /\ mode' = "rw" /\ UNCHANGED <<dev, k, th, truth>> /\ UnpinAll
  BY DEF ReplayUnpin
<1>2. DOMAIN pinned \subseteq Block
  BY DEF TypeInv
<1>3. /\ MapsInv' /\ DOMAIN pinned' = {}
      /\ DOMAIN clean' \subseteq DOMAIN clean \cup DOMAIN pinned
      /\ \A c \in DOMAIN clean' : clean'[c] = IF c \in DOMAIN pinned THEN pinned[c] ELSE clean[c]
  BY <1>1, <1>2, UnpinMaps
<1>4. \A p \in Proc : th[p].op = "idle"
  BY <1>1 DEF CallInv, Alone, Idle
<1>5. \A c \in DOMAIN pinned : pinned[c] = dev[c] /\ dev[c] = truth[c]
  BY <1>1 DEF DevInv
<1>6. TypeInv'
  BY <1>1, <1>2, <1>3 DEF TypeInv
<1>7. CallInv'
  BY <1>1, <1>3, <1>4 DEF CallInv
<1>8. CleanInv'
  BY <1>1, <1>3, <1>4, <1>5 DEF CleanInv, Settled
<1>9. PinInv' /\ DevInv' /\ ViewInv'
  BY <1>1, <1>3, <1>5 DEF PinInv, DevInv, ViewInv
<1> QED
  BY <1>3, <1>6, <1>7, <1>8, <1>9

\* A device error ends the replay: what it may have written is pinned.
LEMMA ReplayErrorKeeps ==
  ASSUME IInv, ReplayError
  PROVE  IInv'
<1> USE DEF IInv
<1>1. /\ mode \in {"replay", "unmark"} /\ mode' = "ro"
      /\ UNCHANGED <<clean, order, pinned, k, th, truth>>
  BY DEF ReplayError
<1>2. Pinning = Len(Logged) /\ Pinning' = Len(Logged)
  BY <1>1 DEF Pinning
<1>3. dev' \in [Block -> Img] /\ \A c \in Block \ DOMAIN pinned : dev'[c] = dev[c]
  <2>1. CASE dev' = dev
    BY <2>1 DEF TypeInv
  <2>2. CASE k <= Len(Logged) /\ dev' = [dev EXCEPT ![Logged[k].blk] = Logged[k].img]
    <3>1. k \in 1..Len(Logged)
      BY <2>2, LogFacts DEF TypeInv
    <3>2. Logged[k].blk \in DOMAIN pinned /\ Logged[k].img \in Img
      BY <3>1, <1>1, <1>2, LogFacts DEF PinInv
    <3> QED
      BY <2>2, <3>2 DEF TypeInv
  <2> QED
    BY <2>1, <2>2 DEF ReplayError
<1>4. \A p \in Proc : th[p].op = "idle"
  BY <1>1 DEF CallInv, Alone, Idle
<1>5. TypeInv' /\ MapsInv'
  BY <1>1, <1>3 DEF TypeInv, MapsInv
<1>6. CallInv'
  BY <1>1, <1>4 DEF CallInv
<1>7. CleanInv'
  BY <1>1, <1>3, <1>4 DEF CleanInv, Settled, MapsInv, TypeInv
<1>8. PinInv'
  BY <1>1, <1>2 DEF PinInv, Final
<1>9. DevInv'
  BY <1>1, <1>3 DEF DevInv
<1>10. ViewInv'
  BY <1>1 DEF ViewInv
<1> QED
  BY <1>5, <1>6, <1>7, <1>8, <1>9, <1>10

\* fresh_read empties the cache when nothing in it is pinned.
LEMMA FreshReadKeeps ==
  ASSUME IInv, FreshRead
  PROVE  IInv'
<1> USE DEF IInv
<1>1. /\ Alone /\ mode \in {"ro", "rw"} /\ UNCHANGED <<dev, mode, k, th, truth>>
      /\ DOMAIN clean' = {} /\ order' = <<>> /\ DOMAIN pinned' = {}
  BY DEF FreshRead
<1>2. DOMAIN pinned = {}
  BY DEF FreshRead, CallInv
<1>3. \A p \in Proc : th[p].op = "idle"
  BY <1>1 DEF Alone, Idle
<1>4. TypeInv'
  BY <1>1 DEF TypeInv
<1>5. MapsInv'
  <2>1. Ranks(<<>>, {}) /\ Len(<<>>) <= Capacity
    BY CacheAssumption DEF Ranks, Distinct, Members
  <2> QED
    BY <1>1, <2>1, FS_EmptySet DEF MapsInv
<1>6. CallInv'
  BY <1>1, <1>3 DEF CallInv
<1>7. CleanInv'
  BY <1>1, <1>3 DEF CleanInv
<1>8. PinInv'
  BY <1>1, <1>2 DEF PinInv, Pinning
<1>9. DevInv' /\ ViewInv'
  BY <1>1, <1>2 DEF DevInv, ViewInv
<1> QED
  BY <1>4, <1>5, <1>6, <1>7, <1>8, <1>9

\* Every step keeps the invariant.
LEMMA InvStep == IInv /\ [Next]_vars => IInv'
<1> SUFFICES ASSUME IInv, [Next]_vars PROVE IInv'
  OBVIOUS
<1>1. CASE \E p \in Proc, b \in Block : Read(p, b)
  BY <1>1, ReadKeeps
<1>2. CASE \E p \in Proc : ReadInner(p) \/ FillOrUpdate(p) \/ UpdatePart(p)
  BY <1>2, ReadInnerKeeps, FillOrUpdateKeeps, UpdatePartKeeps
<1>3. CASE \E p \in Proc, b \in Block, img \in Img : WriteFull(p, b, img)
  BY <1>3, WriteFullKeeps
<1>4. CASE \E p \in Proc, b \in Block, h \in Half, v \in Val : WritePart(p, b, h, v)
  BY <1>4, WritePartKeeps
<1>5. CASE PinLogged \/ StartReplay \/ ReplayWrite
  BY <1>5, PinLoggedKeeps, StartReplayKeeps, ReplayWriteKeeps
<1>6. CASE \E v \in Val : ReplayDone(v)
  BY <1>6, ReplayDoneKeeps
<1>7. CASE ReplayUnpin \/ ReplayError \/ FreshRead
  BY <1>7, ReplayUnpinKeeps, ReplayErrorKeeps, FreshReadKeeps
<1>8. CASE UNCHANGED vars
  <2>1. UNCHANGED <<dev, clean, order, pinned, mode, k, th, truth>>
    BY <1>8 DEF vars
  <2>2. TypeInv' /\ MapsInv'
    BY <2>1 DEF IInv, TypeInv, MapsInv
  <2>3. CallInv' /\ CleanInv'
    BY <2>1 DEF IInv, CallInv, CleanInv, Settled, Alone
  <2>4. PinInv' /\ DevInv' /\ ViewInv'
    BY <2>1 DEF IInv, PinInv, DevInv, ViewInv, Pinning
  <2> QED
    BY <2>2, <2>3, <2>4 DEF IInv
<1> QED
  BY <1>1, <1>2, <1>3, <1>4, <1>5, <1>6, <1>7, <1>8 DEF Next

LEMMA InvHolds == Spec => []IInv
BY InvInit, InvStep, PTL DEF Spec

-----------------------------------------------------------------------------
(* The results. *)

\* Clean entries match the disk by construction (block_cache.rs): for every
\* capacity, log and number of threads of which none writes beside another.
THEOREM EntriesMatchDisk ==
  ASSUME Exclusive
  PROVE  Spec => []CleanMatchesDisk
<1>1. IInv => CleanMatchesDisk
  BY RanksLen DEF IInv, MapsInv, CleanInv, Ranks, CleanMatchesDisk
<1> QED
  BY <1>1, InvHolds, PTL

\* Reads see the committed state (replay_into_cache) and every finished write,
\* through whichever map and whatever replay has failed, when the log has one
\* copy of a block.
THEOREM ReadsSeeTruth ==
  ASSUME Exclusive, Once
  PROVE  Spec => []ReadsAreCurrent
<1>1. IInv => ReadsAreCurrent
  <2> SUFFICES ASSUME IInv, NEW b \in Block, Settled(b)
               PROVE  View(b) = truth[b] /\ MultiView(b) = truth[b]
    BY DEF ReadsAreCurrent
  <2>1. b \in DOMAIN pinned => pinned[b] = truth[b]
    BY DEF IInv, ViewInv
  <2>2. b \notin DOMAIN pinned => dev[b] = truth[b]
    BY DEF IInv, DevInv
  <2>3. b \in DOMAIN clean => clean[b] = dev[b]
    BY DEF IInv, CleanInv
  <2> QED
    BY <2>1, <2>2, <2>3 DEF View, MultiView
<1> QED
  BY <1>1, InvHolds, PTL

\* Pinned blocks are never evicted (CacheState): whatever the log and the
\* threads, one is let go only when the device holds its bytes.
THEOREM PinsOutliveNeed == Spec => PinnedUntilDurable
<1>1. IInv /\ [Next]_vars => [\A b \in DOMAIN pinned \ DOMAIN pinned' : dev'[b] = truth[b]]_vars
  BY PinStep
<1> QED
  BY <1>1, InvHolds, PTL DEF Spec, PinnedUntilDurable
=============================================================================
