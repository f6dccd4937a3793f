---------------------------- MODULE OrphansProofs ----------------------------
(***************************************************************************)
(* Orphan recovery strands nothing, keeps every file that has a name and,  *)
(* with a journal, reclaims each member once: for any number of inodes,    *)
(* any chain in any order, one that never ends among them, and however     *)
(* often a crash cuts a commit between its blocks.                         *)
(*                                                                         *)
(* The walk of orphan_chain_to_recover is a recursive function.  What it   *)
(* computes is proved without induction: of the places at which it would   *)
(* differ there is a least one, and there its defining equation decides.   *)
(***************************************************************************)
EXTENDS Orphans, FiniteSetTheorems, TLAPS

\* A volume as far as the walk reads it.
Readable(d) ==
  /\ d.head \in 0..N
  /\ \A i \in Ino : d.node[i].dtime \in 0..Time

\* A set of natural numbers that is not empty has a least one; every argument along the
\* chain of orphan_chain_to_recover goes by it.
LEMMA LeastNatural ==
  ASSUME NEW S, S \subseteq Nat, S # {}
  PROVE  \E x \in S : \A y \in S : x <= y
<1> DEFINE Less == {p \in Nat \X Nat : p[1] < p[2]}
<1>1. IsWellFoundedOn(Less, Nat)
  BY NatLessThanWellFounded DEF OpToRel
<1> HIDE DEF Less
<1>2. PICK x \in S : \A y \in S : ~ (<<y, x>> \in Less)
  BY <1>1, WFMin, Zenon
<1>3. ASSUME NEW y \in S PROVE x <= y
  <2>1. x \in Nat /\ y \in Nat
    OBVIOUS
  <2>2. ~ (y < x)
    BY <1>2, <2>1, Zenon DEF Less
  <2> QED
    BY <2>1, <2>2
<1> QED
  BY <1>3

-----------------------------------------------------------------------------
(* The walk. *)

\* The step of the walk leads from numbers i_dtime can hold to such numbers.
LEMMA LinkType ==
  ASSUME NEW d, Readable(d)
  PROVE  /\ DOMAIN Link(d) = 0..Time
         /\ \A c \in 0..Time : Link(d)[c] \in 0..Time
BY OrphansAssumption DEF Link, Ends, StopsAt, Readable, Ino, Time

\* f follows the links of a chain for m steps.
Follows(d, f, m) ==
  /\ f \in [0..m -> 0..Time]
  /\ f[0] = d.head
  /\ \A n \in 1..m : f[n] = Link(d)[f[n - 1]]

\* The links can be followed for as many steps as orphan_chain_to_recover takes.
LEMMA FollowsExists ==
  ASSUME NEW d, Readable(d)
  PROVE  \E f : Follows(d, f, N + 2)
<1> DEFINE Bad == {m \in 0 .. N + 2 : ~ \E f : Follows(d, f, m)}
<1> SUFFICES ASSUME Bad # {} PROVE FALSE
  BY OrphansAssumption
<1>0. Bad \subseteq Nat
  BY OrphansAssumption
<1>1. PICK m \in Bad : \A y \in Bad : m <= y
  BY <1>0, LeastNatural, Zenon
<1>2. m # 0
  <2> DEFINE f == [n \in 0..0 |-> d.head]
  <2>1. Follows(d, f, 0)
    BY OrphansAssumption DEF Follows, Readable, Time
  <2> QED
    BY <1>1, <2>1
<1>3. PICK f : Follows(d, f, m - 1)
  BY <1>1, <1>2, OrphansAssumption
<1> DEFINE g == [n \in 0..m |-> IF n < m THEN f[n] ELSE Link(d)[f[m - 1]]]
<1>4. Follows(d, g, m)
  <2>0. m \in Nat /\ m - 1 \in Nat
    BY <1>1, <1>2, OrphansAssumption
  <2>1. \A n \in 0..m : g[n] \in 0..Time
    BY <1>3, <2>0, LinkType DEF Follows
  <2>2. g[0] = d.head /\ \A n \in 1..m : g[n] = Link(d)[g[n - 1]]
    BY <1>2, <1>3, <2>0 DEF Follows
  <2> QED
    BY <2>1, <2>2, Zenon DEF Follows
<1> QED
  BY <1>1, <1>4

\* The recursive definition has the value it describes.
LEMMA WalkFollows ==
  ASSUME NEW d, Readable(d)
  PROVE  Follows(d, Walk(d), N + 2)
<1> DEFINE Rec(w) == w = [n \in 0 .. N + 2 |-> IF n = 0 THEN d.head ELSE Link(d)[w[n - 1]]]
<1>1. PICK f : Follows(d, f, N + 2)
  BY FollowsExists
<1>2. Rec(f)
  BY <1>1, OrphansAssumption DEF Follows
<1>3. Walk(d) = CHOOSE w : Rec(w)
  BY Zenon DEF Walk
<1>4. Rec(Walk(d))
  <2> HIDE DEF Rec
  <2> QED
    BY <1>2, <1>3, Zenon
<1> DEFINE w == Walk(d)
           Bad == {n \in 0 .. N + 2 : w[n] # f[n]}
<1>5. /\ DOMAIN w = 0 .. N + 2
      /\ w[0] = d.head
      /\ \A n \in 1 .. N + 2 : w[n] = Link(d)[w[n - 1]]
  BY <1>4, OrphansAssumption
<1>6. Bad = {}
  <2> SUFFICES ASSUME Bad # {} PROVE FALSE
    OBVIOUS
  <2> HIDE DEF w
  <2>0. Bad \subseteq Nat
    BY OrphansAssumption
  <2>1. PICK n \in Bad : \A y \in Bad : n <= y
    BY <2>0, LeastNatural, Zenon
  <2>2. n # 0
    BY <1>1, <1>5, <2>1 DEF Follows
  <2>3. w[n - 1] = f[n - 1]
    BY <2>1, <2>2, OrphansAssumption
  <2> QED
    <3>1. n \in 1 .. N + 2 /\ w[n] # f[n]
      BY <2>1, <2>2, OrphansAssumption
    <3>2. f[n] = Link(d)[f[n - 1]] /\ w[n] = Link(d)[w[n - 1]]
      BY <1>1, <1>5, <3>1 DEF Follows
    <3> QED
      BY <2>3, <3>1, <3>2
<1> HIDE DEF w
<1>7. w = f
  <2>1. DOMAIN f = 0 .. N + 2 /\ f = [n \in 0 .. N + 2 |-> f[n]]
    BY <1>1 DEF Follows
  <2>2. w = [n \in 0 .. N + 2 |-> w[n]]
    BY <1>4 DEF w
  <2> QED
    BY <1>6, <2>1, <2>2
<1> QED
  BY <1>1, <1>7 DEF w

\* The walk ends at what its loop condition and its range check say.
LEMMA EndsIsStops ==
  ASSUME NEW d, NEW c
  PROVE  Ends(d, c) <=> StopsAt(d, c)
BY DEF Ends, StopsAt

\* p is the chain: from the head along the links to where the walk ends.
IsPath(d, p) ==
  /\ p \in Seq(Ino) /\ Len(p) <= N + 2
  /\ Len(p) = 0 => Ends(d, d.head)
  /\ Len(p) > 0 => d.head = p[1] /\ Ends(d, d.node[p[Len(p)]].dtime)
  /\ \A j \in 1..Len(p) : ~Ends(d, p[j])
  /\ \A j \in 1 .. Len(p) - 1 : d.node[p[j]].dtime = p[j + 1]

\* A walk that has ended stays where it is.
LEMMA EndedStays ==
  ASSUME NEW d, Readable(d), NEW m \in 0 .. N + 2, Ends(d, Walk(d)[m])
  PROVE  \A n \in m .. N + 2 : Walk(d)[n] = Walk(d)[m]
<1> DEFINE w == Walk(d)
           Bad == {n \in m .. N + 2 : w[n] # w[m]}
<1> SUFFICES ASSUME Bad # {} PROVE FALSE
  OBVIOUS
<1>0. Bad \subseteq Nat
  BY OrphansAssumption
<1>1. PICK n \in Bad : \A y \in Bad : n <= y
  BY <1>0, LeastNatural, Zenon
<1>2. n \in 1 .. N + 2 /\ n - 1 \in m .. N + 2 /\ n - 1 \notin Bad
  BY <1>1, OrphansAssumption
<1>3. w[n - 1] = w[m] /\ w[n] # w[m]
  BY <1>1, <1>2
<1>4. w[n] = Link(d)[w[n - 1]] /\ w[m] \in 0..Time
  BY <1>2, WalkFollows, OrphansAssumption, Zenon DEF Follows
<1>5. Link(d)[w[m]] = w[m]
  BY <1>4 DEF Link
<1> QED
  BY <1>3, <1>4, <1>5

\* The members before it are those the walk passes.
LEMMA WalkCount ==
  ASSUME NEW d, Readable(d), NEW m \in 0 .. N + 2, Ends(d, Walk(d)[m]),
         \A n \in 0 .. m - 1 : ~Ends(d, Walk(d)[n])
  PROVE  OrphanChain(d) = [out |-> [n \in 1..m |-> Walk(d)[n - 1]], err |-> FALSE]
<1>1. \A n \in m .. N + 2 : Ends(d, Walk(d)[n])
  BY EndedStays
<1>2. {n \in 0 .. N + 1 : ~Ends(d, Walk(d)[n])} = 0 .. m - 1
  BY <1>1, OrphansAssumption
<1>3. Cardinality(0 .. m - 1) = m
  BY FS_Interval, OrphansAssumption
<1>4. StopsAt(d, Walk(d)[N + 2])
  BY <1>1, EndsIsStops, OrphansAssumption
<1> QED
  BY <1>2, <1>3, <1>4, Zenon DEF OrphanChain

\* A path from the head along the links is the chain orphan_chain_to_recover returns.
LEMMA ChainOfPath ==
  ASSUME NEW d, Readable(d), NEW p, IsPath(d, p)
  PROVE  OrphanChain(d) = [out |-> p, err |-> FALSE]
<1> DEFINE w == Walk(d)
           m == Len(p)
           Bad == {n \in 0 .. m - 1 : w[n] # p[n + 1]}
<1>0. m \in 0 .. N + 2 /\ \A n \in 1..m : p[n] \in 0..Time
  BY OrphansAssumption DEF IsPath, Ino, Time
<1>w. /\ w[0] = d.head
      /\ \A n \in 1 .. N + 2 : w[n] = Link(d)[w[n - 1]]
  BY WalkFollows DEF Follows
<1>l. \A n \in 1..m : Link(d)[p[n]] = d.node[p[n]].dtime
  BY <1>0 DEF IsPath, Link
<1>1. \A n \in 0 .. m - 1 : w[n] = p[n + 1]
  <2> SUFFICES ASSUME Bad # {} PROVE FALSE
    OBVIOUS
  <2> HIDE DEF w
  <2>0. Bad \subseteq Nat
    BY <1>0
  <2>1. PICK n \in Bad : \A y \in Bad : n <= y
    BY <2>0, LeastNatural, Zenon
  <2>2. n # 0
    BY <1>0, <1>w, <2>1 DEF IsPath
  <2>3. /\ n \in 1 .. m - 1 /\ n \in 1..m /\ n \in 1 .. N + 2
        /\ n - 1 \in 0 .. m - 1 /\ n - 1 \notin Bad /\ n - 1 + 1 = n
    BY <1>0, <2>1, <2>2, OrphansAssumption
  <2>4. w[n] = p[n + 1]
    <3>1. w[n - 1] = p[n]
      BY <2>3
    <3>2. w[n] = d.node[p[n]].dtime
      BY <1>w, <1>l, <2>3, <3>1
    <3> QED
      BY <2>3, <3>2 DEF IsPath
  <2> QED
    BY <2>1, <2>4
<1>2. Ends(d, w[m])
  <2>1. CASE m = 0
    BY <1>w, <2>1 DEF IsPath
  <2>2. CASE m # 0
    <3>1. m \in 1 .. N + 2 /\ m - 1 \in 0 .. m - 1
      BY <1>0, <2>2
    <3>2. w[m] = d.node[p[m]].dtime
      BY <1>w, <1>l, <1>1, <3>1
    <3> QED
      BY <3>1, <3>2 DEF IsPath
  <2> QED
    BY <2>1, <2>2
<1>3. \A n \in 0 .. m - 1 : ~Ends(d, w[n])
  BY <1>0, <1>1 DEF IsPath
<1>4. OrphanChain(d) = [out |-> [n \in 1..m |-> w[n - 1]], err |-> FALSE]
  BY <1>0, <1>2, <1>3, WalkCount
<1>5. p = [n \in 1..m |-> w[n - 1]]
  <2>1. p = [n \in 1..m |-> p[n]]
    BY DEF IsPath
  <2>2. \A n \in 1..m : p[n] = w[n - 1]
    BY <1>0, <1>1
  <2> QED
    BY <2>1, <2>2
<1> QED
  BY <1>4, <1>5, Zenon

\* No member comes twice.
Distinct(p) == \A a, b \in 1..Len(p) : p[a] = p[b] => a = b

\* The chain orphan_chain_to_recover returns is such a path, and no inode is on it twice.
LEMMA PathOfChain ==
  ASSUME NEW d, Readable(d), ~OrphanChain(d).err
  PROVE  IsPath(d, OrphanChain(d).out) /\ Distinct(OrphanChain(d).out)
<1> DEFINE w == Walk(d)
           End == {n \in 0 .. N + 2 : Ends(d, w[n])}
           p == OrphanChain(d).out
<1>w. /\ w \in [0 .. N + 2 -> 0..Time]
      /\ w[0] = d.head
      /\ \A n \in 1 .. N + 2 : w[n] = Link(d)[w[n - 1]]
  BY WalkFollows DEF Follows
<1>0. N + 2 \in End
  <2>1. StopsAt(d, w[N + 2])
    BY Zenon DEF OrphanChain
  <2> QED
    BY <2>1, EndsIsStops, OrphansAssumption
<1>1. PICK m \in End : \A y \in End : m <= y
  <2>1. End \subseteq Nat
    BY OrphansAssumption
  <2> QED
    BY <1>0, <2>1, LeastNatural, Zenon
<1>2. m \in 0 .. N + 2 /\ Ends(d, w[m]) /\ \A n \in 0 .. m - 1 : ~Ends(d, w[n])
  BY <1>1, OrphansAssumption
<1>3. OrphanChain(d) = [out |-> [n \in 1..m |-> w[n - 1]], err |-> FALSE]
  BY <1>2, WalkCount
<1> HIDE DEF w, End
<1>4. p = [n \in 1..m |-> w[n - 1]]
  BY <1>3
<1> HIDE DEF p
<1>5. \A n \in 1..m : p[n] = w[n - 1] /\ p[n] \in Ino /\ ~Ends(d, p[n])
  BY <1>w, <1>2, <1>4, OrphansAssumption, SMTT(30) DEF Ends, StopsAt, Ino, Time
<1>6. p \in Seq(Ino) /\ Len(p) = m
  BY <1>2, <1>4, <1>5
<1>7. \A n \in 1..m : d.node[p[n]].dtime = w[n]
  <2> TAKE n \in 1..m
  <2>0. n \in 1 .. N + 2
    BY <1>2, OrphansAssumption
  <2>1. w[n] = Link(d)[p[n]] /\ p[n] \in 0..Time
    <3>1. p[n] = w[n - 1] /\ p[n] \in Ino
      BY <1>5
    <3>2. w[n] = Link(d)[w[n - 1]]
      BY <1>w, <2>0
    <3> QED
      BY <3>1, <3>2, OrphansAssumption DEF Ino, Time
  <2> QED
    BY <1>5, <2>1 DEF Link
<1>8. IsPath(d, p)
  <2>1. \A j \in 1 .. m - 1 : d.node[p[j]].dtime = p[j + 1]
    <3> TAKE j \in 1 .. m - 1
    <3>1. j \in 1..m /\ j + 1 \in 1..m /\ j + 1 - 1 = j
      BY <1>2, OrphansAssumption
    <3> QED
      BY <1>5, <1>7, <3>1
  <2>2. m = 0 => Ends(d, d.head)
    BY <1>w, <1>2
  <2>3. m > 0 => d.head = p[1] /\ Ends(d, d.node[p[m]].dtime)
    BY <1>w, <1>2, <1>5, <1>7
  <2> QED
    BY <1>2, <1>5, <1>6, <2>1, <2>2, <2>3, OrphansAssumption DEF IsPath
<1>9. Distinct(p)
  <2> SUFFICES ASSUME NEW a \in 1..m, NEW b \in 1..m, p[a] = p[b], a < b PROVE FALSE
    BY <1>2, <1>6 DEF Distinct
  <2> DEFINE Bad == {t \in 0 .. m - b + 1 : w[a - 1 + t] # w[b - 1 + t]}
  <2>1. Bad = {}
    <3> SUFFICES ASSUME Bad # {} PROVE FALSE
      OBVIOUS
    <3>0. Bad \subseteq Nat
      OBVIOUS
    <3>1. PICK t \in Bad : \A y \in Bad : t <= y
      BY <3>0, LeastNatural, Zenon
    <3>2. t # 0
      BY <1>5, <3>1
    <3>3. t - 1 \in 0 .. m - b + 1 /\ w[a - 1 + (t - 1)] = w[b - 1 + (t - 1)]
      BY <1>2, <3>1, <3>2
    <3>4. /\ a - 1 + t \in 1 .. N + 2 /\ b - 1 + t \in 1 .. N + 2
          /\ (a - 1 + t) - 1 = a - 1 + (t - 1) /\ (b - 1 + t) - 1 = b - 1 + (t - 1)
      BY <1>2, <3>1, <3>2, OrphansAssumption
    <3>5. w[a - 1 + t] = w[b - 1 + t]
      BY <1>w, <3>3, <3>4, SMTT(30)
    <3> QED
      BY <3>1, <3>5
  <2>2. m - b + 1 \in 0 .. m - b + 1 /\ a - 1 + (m - b + 1) \in 0 .. m - 1 /\ b - 1 + (m - b + 1) = m
    BY <1>2
  <2>3. w[a - 1 + (m - b + 1)] = w[m]
    BY <2>1, <2>2
  <2> QED
    BY <1>2, <2>2, <2>3
<1> QED
  BY <1>8, <1>9 DEF p

-----------------------------------------------------------------------------
(* The inductive invariant. *)

\* The blocks of a volume that recovery reads and writes.
Vol(d) ==
  /\ DOMAIN d = {"head", "freed", "desc", "ibit", "bbit", "node"}
  /\ d.head \in 0..N /\ d.freed \in Nat /\ d.desc \in Nat
  /\ d.ibit \in [Ino -> BOOLEAN] /\ d.bbit \in [Ino -> BOOLEAN]
  /\ d.node \in [Ino -> [links : {0, 1}, dtime : 0..Time, holds : BOOLEAN]]

\* The chain as it was found; a recovery goes along it.
path == OrphanChain(start).out
\* Its length.
L == Len(path)

\* The head when the members before the k-th are done.
HeadAt(k) == IF k <= L THEN path[k] ELSE 0

\* No step takes a file's links, or the inode of a file that has one.
Kept(d) ==
  \A i \in Ino : /\ d.node[i].links = start.node[i].links
                 /\ start.node[i].links = 1 => d.ibit[i]

\* The links from the k-th member on are those found.  Only the last member is
\* stamped while the head is at it.
Linked(d, k) ==
  /\ \A j \in k .. L - 1 : d.node[path[j]].dtime = path[j + 1]
  /\ k < L => d.node[path[L]].dtime = 0
  /\ k = L => d.node[path[L]].dtime \in {0, Time}

\* Nothing is left to do on the members before the k-th.
Finished(d, k) ==
  \A j \in 1 .. k - 1 :
    IF start.node[path[j]].links = 0 THEN ~d.ibit[path[j]]
    ELSE ~d.node[path[j]].holds \/ GivenUp(path[j])

\* With a journal a member is as it was found until it is passed, and then its
\* blocks are gone and its inode is counted.
Fresh(d, k) ==
  \A j \in k..L : /\ d.ibit[path[j]] /\ d.bbit[path[j]] /\ d.node[path[j]].holds
                  /\ d.node[path[j]].dtime \in 0..N

\* Of the members before the k-th, only those recovery gives up on have blocks.
Cleared(d, k) == \A j \in 1 .. k - 1 : d.bbit[path[j]] <=> GivenUp(path[j])

\* The inodes of the chain that are free.
Gone(d) == {i \in Found : ~d.ibit[i]}

\* The superblock and the group descriptor count them, once each.
Counted(d) == d.freed = Cardinality(Gone(d)) /\ d.desc = Cardinality(Gone(d))

\* What every volume on the way keeps, with a journal or without.
Sound(d, k) == Kept(d) /\ Linked(d, k) /\ Finished(d, k)

\* What the journal adds: a member is done whole or not at all.
Whole(d, k) == journaled => Fresh(d, k) /\ Cleared(d, k) /\ Counted(d)

\* recover_orphans is about to take the k-th member: its list is the chain from
\* some member on, and only the member before may wait for its i_dtime.
Turn(k) ==
  /\ at <= k /\ Len(chain) = L - (k - at)
  /\ \A x \in 1..Len(chain) : chain[x] = path[(k - at) + x]
  /\ \/ unstamped = {}
     \/ k > 1 /\ \E t \in {0, Time} : unstamped = {[ino |-> path[k - 1], dtime |-> t]}

\* The buffer being committed finishes the members before the m-th.
Staged(k, m) ==
  /\ new.head = HeadAt(m) /\ Sound(new, k) /\ Finished(new, m) /\ Whole(new, m)
  /\ at <= Len(chain) => Turn(m)

\* The device is at some member k, and a buffer in commit finishes k, or nothing more.
Recovering ==
  \E k \in 1 .. L + 1 :
    /\ disk.head = HeadAt(k) /\ Sound(disk, k) /\ Whole(disk, k)
    /\ pc # "failed" /\ chain \in Seq(Ino)
    /\ pc = "plan" => at <= Len(chain) /\ Turn(k)
    /\ pc \in {"early", "late"} => \E m \in {k, k + 1} : m <= L + 1 /\ Staged(k, m)

\* A chain that never ends is not recovered.
Cyclic == disk = start /\ disk.freed = 0 /\ disk.desc = 0 /\ pc \in {"down", "failed"}

\* Types, and a position that starts at 1.
TypeInv ==
  /\ journaled \in BOOLEAN
  /\ Vol(disk) /\ Vol(new) /\ Vol(start)
  /\ pc \in {"down", "plan", "early", "late", "mounted", "failed"}
  /\ at \in Nat \ {0}

\* The inductive invariant.
IInv == TypeInv /\ IF OrphanChain(start).err THEN Cyclic ELSE Recovering

-----------------------------------------------------------------------------
(* The chain as found, and the first state. *)

\* What a well-formed volume gives the walk (orphan_chain_to_recover).
LEMMA VolReadable ==
  ASSUME NEW d, Vol(d)
  PROVE  Readable(d)
BY DEF Vol, Readable

\* A chain that ends is a list of distinct inodes of the volume (the walk of
\* orphan_chain_to_recover).
LEMMA PathFacts ==
  ASSUME Vol(start), ~OrphanChain(start).err
  PROVE  /\ IsPath(start, path) /\ path \in Seq(Ino) /\ L \in Nat
         /\ \A j \in 1..L : path[j] \in Ino
         /\ \A a, b \in 1..L : path[a] = path[b] => a = b
         /\ Found = {path[j] : j \in 1..L}
<1>1. IsPath(start, path) /\ Distinct(path)
  BY VolReadable, PathOfChain, Zenon DEF path
<1>2. path \in Seq(Ino)
  BY <1>1 DEF IsPath
<1>3. L \in Nat /\ \A j \in 1..L : path[j] \in Ino
  BY <1>2 DEF L
<1>4. Found = {path[j] : j \in 1..L}
  BY DEF Found, OnChain, Elems, path, L
<1> QED
  BY <1>1, <1>2, <1>3, <1>4 DEF Distinct, L

\* The volume as it is first found satisfies the invariant (Fs::mount before
\* recover_orphans).
LEMMA InvInit == Init => IInv
<1> SUFFICES ASSUME Init PROVE IInv
  OBVIOUS
<1>1. /\ DOMAIN disk = {"head", "freed", "desc", "ibit", "bbit", "node"}
      /\ disk.head \in 0..N /\ disk.freed = 0 /\ disk.desc = 0
      /\ disk.ibit = [i \in Ino |-> TRUE] /\ disk.bbit = [i \in Ino |-> TRUE]
      /\ disk.node \in [Ino -> [links : {0, 1}, dtime : 0..N, holds : {TRUE}]]
  BY Zenon DEF Init
<1>2. /\ new = disk /\ start = disk /\ pc = "down" /\ chain = <<>> /\ at = 1
      /\ journaled \in BOOLEAN
  BY DEF Init
<1>3. /\ \A i \in Ino : /\ disk.ibit[i] /\ disk.bbit[i] /\ disk.node[i].holds
                          /\ disk.node[i].dtime \in 0..N
      /\ \A i \in Ino : disk.node[i].links \in {0, 1}
  BY <1>1, Zenon
<1>4. disk.node \in [Ino -> [links : {0, 1}, dtime : 0..Time, holds : BOOLEAN]]
  <2>1. 0..N \subseteq 0..Time
    BY OrphansAssumption DEF Time
  <2> QED
    BY <1>1, <2>1, Zenon
<1>5. Vol(disk)
  BY <1>1, <1>4 DEF Vol
<1>6. TypeInv
  BY <1>2, <1>5 DEF TypeInv
<1>7. CASE OrphanChain(start).err
  BY <1>1, <1>2, <1>6, <1>7 DEF IInv, Cyclic
<1>8. CASE ~OrphanChain(start).err
  <2>1. /\ IsPath(start, path) /\ path \in Seq(Ino) /\ L \in Nat
        /\ \A j \in 1..L : path[j] \in Ino
        /\ Found = {path[j] : j \in 1..L}
    BY <1>2, <1>5, <1>8, PathFacts, Zenon
  <2>2. disk.head = HeadAt(1)
    <3>1. CASE L = 0
      <4>1. Ends(disk, disk.head)
        BY <1>2, <2>1, <3>1 DEF IsPath, L
      <4> QED
        BY <1>1, <1>3, <4>1, <3>1, OrphansAssumption DEF HeadAt, Ends, StopsAt, Ino
    <3>2. CASE L > 0
      BY <1>2, <2>1, <3>2 DEF IsPath, L, HeadAt
    <3> QED
      BY <2>1, <3>1, <3>2
  <2>3. \A j \in 1 .. L - 1 : disk.node[path[j]].dtime = path[j + 1]
    BY <1>2, <2>1 DEF IsPath, L
  <2>4. L > 0 => disk.node[path[L]].dtime = 0
    <3> SUFFICES ASSUME L > 0 PROVE disk.node[path[L]].dtime = 0
      OBVIOUS
    <3>1. Ends(disk, disk.node[path[L]].dtime)
      BY <1>2, <2>1 DEF IsPath, L
    <3>2. disk.node[path[L]].dtime \in 0..N
      BY <1>3, <2>1
    <3> QED
      BY <1>3, <3>1, <3>2, OrphansAssumption DEF Ends, StopsAt, Ino
  <2>5. Kept(disk)
    BY <1>2, <1>3 DEF Kept
  <2>6. Linked(disk, 1)
    BY <2>1, <2>3, <2>4 DEF Linked
  <2>7. Finished(disk, 1) /\ Cleared(disk, 1)
    BY DEF Finished, Cleared
  <2>8. Fresh(disk, 1)
    BY <1>3, <2>1 DEF Fresh
  <2>9. Counted(disk)
    <3>1. Gone(disk) = {}
      BY <1>3, <2>1 DEF Gone
    <3> QED
      BY <1>1, <3>1, FS_EmptySet DEF Counted
  <2>10. Recovering
    <3>1. 1 \in 1 .. L + 1
      BY <2>1
    <3>2. chain \in Seq(Ino)
      BY <1>2
    <3> QED
      BY <3>2, <1>2, <2>2, <2>5, <2>6, <2>7, <2>8, <2>9, <3>1, Zenon DEF Recovering, Sound, Whole
  <2> QED
    BY <1>6, <1>8, <2>10 DEF IInv
<1> QED
  BY <1>7, <1>8

-----------------------------------------------------------------------------
(* The chain of every later mount, and what the invariant says. *)

\* Nothing of the chain is left to walk: its head is clear, or is the last
\* member, reclaimed and stamped, with only the head left to clear.
Swept(d, k) == \/ k = L + 1
               \/ k = L /\ ~d.ibit[path[L]] /\ d.node[path[L]].dtime > N

\* The members from the k-th on.
Rest(k) == [x \in 1 .. L - (k - 1) |-> path[(k - 1) + x]]

\* A later mount's walk finds the members that are left, however recovery was
\* cut (orphan_chain_to_recover): the tail of the chain as it was found.
LEMMA ChainOfRest ==
  ASSUME Vol(start), ~OrphanChain(start).err, NEW d, Vol(d), NEW k \in 1 .. L + 1,
         d.head = HeadAt(k), Linked(d, k)
  PROVE  OrphanChain(d) = [out |-> IF Swept(d, k) THEN <<>> ELSE Rest(k), err |-> FALSE]
<1>1. /\ IsPath(start, path) /\ path \in Seq(Ino) /\ L \in Nat
      /\ \A j \in 1..L : path[j] \in Ino
  BY PathFacts, Zenon
<1>2. Readable(d)
  BY VolReadable
<1>3. CASE Swept(d, k)
  <2>1. Ends(d, d.head)
    BY <1>1, <1>3 DEF Swept, HeadAt, Ends, StopsAt
  <2>2. IsPath(d, <<>>)
    BY <2>1, OrphansAssumption DEF IsPath
  <2> QED
    BY <1>2, <1>3, <2>2, ChainOfPath, Zenon
<1>4. CASE ~Swept(d, k)
  <2>0. k \in 1..L
    BY <1>1, <1>4 DEF Swept
  <2> DEFINE r == Rest(k)
             m == L - (k - 1)
  <2>1. m \in Nat /\ m > 0 /\ \A x \in 1..m : (k - 1) + x \in 1..L
    BY <1>1, <2>0
  <2>2. r \in Seq(Ino) /\ Len(r) = m /\ \A x \in 1..m : r[x] = path[(k - 1) + x]
    BY <1>1, <2>1 DEF Rest
  <2>3. m <= N + 2
    BY <1>1, <2>0, OrphansAssumption DEF IsPath, L
  <2>4. \A x \in 1 .. m - 1 : d.node[r[x]].dtime = r[x + 1]
    <3> SUFFICES ASSUME NEW x \in 1 .. m - 1 PROVE d.node[r[x]].dtime = r[x + 1]
      OBVIOUS
    <3>1. /\ (k - 1) + x \in k .. L - 1 /\ ((k - 1) + x) + 1 = (k - 1) + (x + 1)
          /\ x \in 1..m /\ x + 1 \in 1..m
      BY <1>1, <2>0
    <3> QED
      BY <2>2, <3>1 DEF Linked
  <2>5. r[1] = path[k] /\ r[m] = path[L]
    <3>1. (k - 1) + 1 = k /\ (k - 1) + m = L /\ 1 \in 1..m /\ m \in 1..m
      BY <1>1, <2>0, <2>1
    <3> QED
      BY <2>2, <3>1
  <2>6. d.head = r[1]
    BY <2>0, <2>5 DEF HeadAt
  <2>7. d.node[path[L]].dtime \in {0, Time}
    BY <1>1, <2>0 DEF Linked
  <2>8. Ends(d, d.node[r[m]].dtime)
    BY <2>5, <2>7, OrphansAssumption DEF Ends, StopsAt, Time
  <2>9. \A x \in 1..m : ~Ends(d, r[x])
    <3> SUFFICES ASSUME NEW x \in 1..m PROVE ~Ends(d, r[x])
      OBVIOUS
    <3>1. r[x] \in Ino
      BY <2>2
    <3>2. r[x] # 0 /\ ~ (r[x] > N)
      BY <3>1, OrphansAssumption DEF Ino
    <3>3. CASE x < m
      <4>1. x \in 1 .. m - 1 /\ x + 1 \in 1..m
        BY <2>1, <3>3
      <4>2. d.node[r[x]].dtime \in Ino
        BY <2>2, <2>4, <4>1
      <4>3. ~ (d.node[r[x]].dtime > N)
        BY <4>2, OrphansAssumption DEF Ino
      <4> QED
        BY <3>2, <4>3 DEF Ends, StopsAt
    <3>4. CASE x = m
      <4>1. k < L => ~ (d.node[r[x]].dtime > N)
        BY <2>5, <3>4, OrphansAssumption DEF Linked
      <4>2. k = L => ~ (~d.ibit[r[x]] /\ d.node[r[x]].dtime > N)
        BY <1>4, <2>5, <3>4 DEF Swept
      <4>3. k < L \/ k = L
        BY <1>1, <2>0
      <4> QED
        BY <3>2, <4>1, <4>2, <4>3 DEF Ends, StopsAt
    <3> QED
      BY <2>1, <3>3, <3>4
  <2>10. IsPath(d, r)
    <3> HIDE DEF r, m
    <3> QED
      BY <2>1, <2>2, <2>3, <2>4, <2>6, <2>8, <2>9 DEF IsPath
  <2> QED
    BY <1>2, <1>4, <2>10, ChainOfPath, Zenon
<1> QED
  BY <1>3, <1>4

\* The last member, once swept, had no links.
LEMMA SweptIsDeleted ==
  ASSUME Vol(start), ~OrphanChain(start).err, NEW d, NEW k, k = L, L > 0,
         Swept(d, k), Kept(d)
  PROVE  start.node[path[L]].links = 0 /\ ~d.ibit[path[L]]
<1>1. L \in Nat /\ \A j \in 1..L : path[j] \in Ino
  BY PathFacts, Zenon
<1>2. L \in 1..L /\ k # L + 1
  BY <1>1
<1>3. ~d.ibit[path[L]] /\ path[L] \in Ino
  BY <1>1, <1>2 DEF Swept
<1>4. start.node[path[L]].links \in {0, 1}
  BY <1>3 DEF Vol
<1> QED
  BY <1>3, <1>4 DEF Kept

\* The invariant gives the three properties of recover_orphans.
LEMMA InvImplies == IInv => NothingStranded /\ NamedFileKept /\ ReclaimedOnce
<1> SUFFICES ASSUME IInv PROVE NothingStranded /\ NamedFileKept /\ ReclaimedOnce
  OBVIOUS
<1>1. Vol(disk) /\ Vol(start)
  BY DEF IInv, TypeInv
<1>2. CASE OrphanChain(start).err
  <2>1. Found = {}
    BY <1>2 DEF Found
  <2>2. {i \in Found : ~disk.ibit[i]} = {}
    BY <2>1
  <2>3. disk.freed = 0 /\ disk.desc = 0
    BY <1>2 DEF IInv, Cyclic
  <2>4. ReclaimedOnce
    BY <2>1, <2>2, <2>3, FS_EmptySet DEF ReclaimedOnce, RetryFinishes
  <2> QED
    BY <2>1, <2>4 DEF NothingStranded, NamedFileKept
<1>3. CASE ~OrphanChain(start).err
  <2>0. /\ L \in Nat /\ \A j \in 1..L : path[j] \in Ino
        /\ Found = {path[j] : j \in 1..L}
    BY <1>1, <1>3, PathFacts, Zenon
  <2>1. PICK k \in 1 .. L + 1 : disk.head = HeadAt(k) /\ Sound(disk, k) /\ Whole(disk, k)
    BY <1>3, Zenon DEF IInv, Recovering
  <2>2. Kept(disk) /\ Linked(disk, k) /\ Finished(disk, k)
    BY <2>1 DEF Sound
  <2>3. OrphanChain(disk).out = IF Swept(disk, k) THEN <<>> ELSE Rest(k)
    BY <1>1, <1>3, <2>1, <2>2, ChainOfRest
  <2>4. ~Swept(disk, k) => \A j \in k..L : path[j] \in OnChain(disk)
    <3> SUFFICES ASSUME ~Swept(disk, k), NEW j \in k..L PROVE path[j] \in OnChain(disk)
      OBVIOUS
    <3>1. j - (k - 1) \in 1 .. L - (k - 1) /\ (k - 1) + (j - (k - 1)) = j /\ L - (k - 1) \in Nat
      BY <2>0
    <3>2. Len(Rest(k)) = L - (k - 1) /\ Rest(k)[j - (k - 1)] = path[j]
      BY <3>1 DEF Rest
    <3> QED
      BY <2>3, <3>1, <3>2 DEF OnChain, Elems
  <2>5. NamedFileKept
    BY <2>0, <2>2 DEF NamedFileKept, Kept
  <2>6. NothingStranded
    <3> SUFFICES ASSUME NEW i \in Found, Unfinished(i) PROVE i \in OnChain(disk)
      BY DEF NothingStranded
    <3>1. PICK j \in 1..L : i = path[j]
      BY <2>0
    <3>2. Deleted(disk, i) <=> start.node[i].links = 0
      BY <2>0, <2>2, <3>1 DEF Deleted, Kept
    <3>3. ~ (j \in 1 .. k - 1)
      BY <2>2, <3>1, <3>2 DEF Finished, Unfinished
    <3>4. j \in k..L
      BY <2>0, <3>3
    <3>5. ~Swept(disk, k)
      <4> SUFFICES ASSUME Swept(disk, k) PROVE FALSE
        OBVIOUS
      <4>1. k = L /\ j = L /\ L > 0
        BY <2>0, <3>4 DEF Swept
      <4>2. start.node[path[L]].links = 0 /\ ~disk.ibit[path[L]]
        BY <1>1, <1>3, <2>2, <4>1, SweptIsDeleted
      <4> QED
        BY <3>1, <3>2, <4>1, <4>2 DEF Unfinished
    <3> QED
      BY <2>4, <3>1, <3>4, <3>5
  <2>7. ReclaimedOnce
    <3> SUFFICES ASSUME journaled
                 PROVE  /\ RetryFinishes
                        /\ disk.freed = Cardinality(Gone(disk)) /\ disk.desc = Cardinality(Gone(disk))
      BY Zenon DEF ReclaimedOnce, Gone
    <3>1. Fresh(disk, k) /\ Cleared(disk, k) /\ Counted(disk)
      BY <2>1 DEF Whole
    <3>2. ASSUME NEW i \in Found, i \notin OnChain(disk)
          PROVE  disk.bbit[i] <=> GivenUp(i)
      <4>1. PICK j \in 1..L : i = path[j]
        BY <2>0
      <4>2. ~ (j \in k..L)
        <5> SUFFICES ASSUME j \in k..L PROVE FALSE
          OBVIOUS
        <5>1. Swept(disk, k)
          BY <2>4, <3>2, <4>1
        <5>2. k = L /\ ~disk.ibit[path[L]]
          BY <2>0, <5>1 DEF Swept
        <5>3. L \in k..L
          BY <2>0, <5>2
        <5> QED
          BY <3>1, <5>2, <5>3 DEF Fresh
      <4>3. j \in 1 .. k - 1
        BY <2>0, <4>2
      <4> QED
        BY <3>1, <4>1, <4>3 DEF Cleared
    <3> QED
      BY <3>1, <3>2 DEF RetryFinishes, Counted
  <2> QED
    BY <2>5, <2>6, <2>7
<1> QED
  BY <1>2, <1>3

-----------------------------------------------------------------------------
(* The operations on a volume. *)

\* buffer_stamp_dtime writes one i_dtime and nothing else.
LEMMA StampFacts ==
  ASSUME NEW d, Vol(d), NEW i \in Ino, NEW t \in 0..Time,
         NEW e, e = Stamp(d, i, t)
  PROVE  /\ Vol(e) /\ e.head = d.head /\ e.freed = d.freed /\ e.desc = d.desc
         /\ e.ibit = d.ibit /\ e.bbit = d.bbit
         /\ \A x \in Ino : x # i => e.node[x] = d.node[x]
         /\ e.node[i].links = d.node[i].links /\ e.node[i].holds = d.node[i].holds
         /\ e.node[i].dtime = t
<1> DEFINE r == [d.node[i] EXCEPT !.dtime = t]
<1>1. d.node[i] \in [links : {0, 1}, dtime : 0..Time, holds : BOOLEAN]
  BY DEF Vol
<1>2. /\ r \in [links : {0, 1}, dtime : 0..Time, holds : BOOLEAN]
      /\ r.links = d.node[i].links /\ r.holds = d.node[i].holds /\ r.dtime = t
  BY <1>1
<1>3. e = [d EXCEPT !.node = [d.node EXCEPT ![i] = r]]
  BY DEF Stamp
<1> HIDE DEF r
<1>4. /\ DOMAIN e = DOMAIN d /\ e.head = d.head /\ e.freed = d.freed /\ e.desc = d.desc
      /\ e.ibit = d.ibit /\ e.bbit = d.bbit
      /\ e.node = [d.node EXCEPT ![i] = r]
  BY <1>3 DEF Vol
<1>5. /\ e.node \in [Ino -> [links : {0, 1}, dtime : 0..Time, holds : BOOLEAN]]
      /\ \A x \in Ino : x # i => e.node[x] = d.node[x]
      /\ e.node[i] = r
  BY <1>2, <1>4 DEF Vol
<1>6. Vol(e)
  BY <1>4, <1>5 DEF Vol
<1> QED
  BY <1>2, <1>4, <1>5, <1>6

\* A member recovery gives up on, as the volume has it.
Spared(d, i) == i \in legacy /\ ~Deleted(d, i)

\* What buffer_recover_orphan does to a member and to nothing else: it is linked
\* on, its blocks go unless it is spared, and its inode goes when it has no links.
LEMMA RecoverFacts ==
  ASSUME NEW d, Vol(d), NEW i \in Ino, NEW link \in 0..N,
         NEW e, e = RecoverOrphan(d, i, link)
  PROVE  /\ Vol(e) /\ e.head = d.head /\ e.freed = d.freed
         /\ e.desc = d.desc + Credit(d, i)
         /\ \A x \in Ino : x # i => /\ e.node[x] = d.node[x] /\ e.ibit[x] = d.ibit[x]
                                    /\ e.bbit[x] = d.bbit[x]
         /\ e.node[i].links = d.node[i].links /\ e.node[i].dtime = link
         /\ e.node[i].holds = (d.node[i].holds /\ Spared(d, i))
         /\ e.ibit[i] = (d.ibit[i] /\ ~Deleted(d, i))
         /\ e.bbit[i] = (d.bbit[i] /\ (Spared(d, i) \/ ~d.node[i].holds))
<1> DEFINE h == (d.node[i].holds /\ Spared(d, i))
           r == [links |-> d.node[i].links, dtime |-> link, holds |-> h]
           b == (d.bbit[i] /\ (Spared(d, i) \/ ~d.node[i].holds))
<1>0. /\ d.node[i].links \in {0, 1} /\ link \in 0..Time /\ d.ibit[i] \in BOOLEAN
      /\ d.node[i].holds \in BOOLEAN /\ d.bbit[i] \in BOOLEAN
      /\ d.node[i] \in [links : {0, 1}, dtime : 0..Time, holds : BOOLEAN]
      /\ d.desc \in Nat
  BY OrphansAssumption DEF Vol, Time
<1>1. r \in [links : {0, 1}, dtime : 0..Time, holds : BOOLEAN] /\ b \in BOOLEAN
  BY <1>0
<1> DEFINE nodes == [d.node EXCEPT ![i] = r]
           bbits == [d.bbit EXCEPT ![i] = b]
           ibits == [d.ibit EXCEPT ![i] = (@ /\ ~Deleted(d, i))]
<1>2. /\ nodes \in [Ino -> [links : {0, 1}, dtime : 0..Time, holds : BOOLEAN]]
      /\ nodes[i] = r /\ \A x \in Ino : x # i => nodes[x] = d.node[x]
  BY <1>1, Zenon DEF Vol
<1>3. /\ bbits \in [Ino -> BOOLEAN]
      /\ bbits[i] = b /\ \A x \in Ino : x # i => bbits[x] = d.bbit[x]
  BY <1>1 DEF Vol
<1>4. /\ ibits \in [Ino -> BOOLEAN]
      /\ ibits[i] = (d.ibit[i] /\ ~Deleted(d, i))
      /\ \A x \in Ino : x # i => ibits[x] = d.ibit[x]
  BY <1>0 DEF Vol
<1>5. /\ DOMAIN e = DOMAIN d /\ e.head = d.head /\ e.freed = d.freed
      /\ e.desc = d.desc + Credit(d, i)
      /\ e.node = nodes /\ e.bbit = bbits /\ e.ibit = ibits
  <2>1. CASE Deleted(d, i)
    <3>0. ~Spared(d, i)
      BY <2>1 DEF Spared
    <3>1. /\ r = [links |-> 0, dtime |-> link, holds |-> FALSE] /\ Credit(d, i) = 1
          /\ b = (d.bbit[i] /\ ~d.node[i].holds)
      BY <2>1, <3>0 DEF Deleted, Credit
    <3>2. ibits = [d.ibit EXCEPT ![i] = FALSE]
      BY <2>1, Zenon
    <3>3. e = [d EXCEPT !.node = nodes, !.bbit = bbits, !.ibit = ibits, !.desc = @ + 1]
      BY <2>1, <3>1, <3>2, Zenon DEF RecoverOrphan, Delete
    <3> HIDE DEF nodes, bbits, ibits
    <3> QED
      BY <3>1, <3>3 DEF Vol
  <2>2. CASE ~Deleted(d, i)
    <3>1. Credit(d, i) = 0 /\ d.desc + 0 = d.desc
      BY <1>0, <2>2 DEF Credit
    <3>2. ibits = d.ibit
      BY <1>0, <2>2 DEF Vol
    <3>3. CASE i \in legacy
      <4>1. Spared(d, i)
        BY <2>2, <3>3 DEF Spared
      <4>2. r = [d.node[i] EXCEPT !.dtime = link] /\ b = d.bbit[i]
        BY <1>0, <4>1
      <4>3. bbits = d.bbit
        BY <4>2 DEF Vol
      <4>4. e = [d EXCEPT !.node = nodes]
        BY <2>2, <3>3, <4>2 DEF RecoverOrphan, FinishTruncate, Stamp
      <4> HIDE DEF nodes, bbits, ibits
      <4> QED
        BY <3>1, <3>2, <4>3, <4>4 DEF Vol
    <3>4. CASE i \notin legacy
      <4>0. ~Spared(d, i)
        BY <3>4 DEF Spared
      <4>1. /\ r = [links |-> d.node[i].links, dtime |-> link, holds |-> FALSE]
            /\ b = (d.bbit[i] /\ ~d.node[i].holds)
        BY <4>0
      <4>2. e = [d EXCEPT !.node = nodes, !.bbit = bbits]
        BY <2>2, <3>4, <4>1, Zenon DEF RecoverOrphan, FinishTruncate
      <4> HIDE DEF nodes, bbits, ibits
      <4> QED
        BY <3>1, <3>2, <4>2 DEF Vol
    <3> QED
      BY <3>3, <3>4
  <2> QED
    BY <2>1, <2>2
<1>6. Credit(d, i) \in Nat
  BY DEF Credit
<1> HIDE DEF nodes, bbits, ibits
<1>7. Vol(e)
  BY <1>0, <1>2, <1>3, <1>4, <1>5, <1>6 DEF Vol
<1>8. e.node[i].links = d.node[i].links /\ e.node[i].dtime = link /\ e.node[i].holds = h
  BY <1>2, <1>5
<1> HIDE DEF h, b
<1> QED
  BY <1>2, <1>3, <1>4, <1>5, <1>7, <1>8 DEF h, b

\* What the buffer of one member makes of a volume: the member is treated, the
\* head moves on, the last member gets its final i_dtime at once, and no other
\* inode changes.
Treated(d, e, i, next) ==
  /\ Vol(e) /\ e.head = next
  /\ e.freed = d.freed + Credit(d, i) /\ e.desc = d.desc + Credit(d, i)
  /\ \A x \in Ino : x # i => /\ e.node[x] = d.node[x] /\ e.ibit[x] = d.ibit[x]
                             /\ e.bbit[x] = d.bbit[x]
  /\ e.node[i].links = d.node[i].links
  /\ e.node[i].holds = (d.node[i].holds /\ Spared(d, i))
  /\ e.node[i].dtime = IF next = 0 THEN FinalDtime(d, i) ELSE next
  /\ e.ibit[i] = (d.ibit[i] /\ ~Deleted(d, i))
  /\ e.bbit[i] = (d.bbit[i] /\ (Spared(d, i) \/ ~d.node[i].holds))

\* The buffer of one member does that (recover_orphans).
LEMMA MemberFacts ==
  ASSUME NEW d, Vol(d), NEW i \in Ino, NEW next \in 0..N,
         NEW e, e = Member(d, i, next)
  PROVE  Treated(d, e, i, next)
<1> DEFINE r == RecoverOrphan(d, i, next)
           c == Credit(d, i)
           moved == [r EXCEPT !.head = next, !.freed = @ + c]
<1>1. /\ Vol(r) /\ r.head = d.head /\ r.freed = d.freed /\ r.desc = d.desc + c
      /\ \A x \in Ino : x # i => /\ r.node[x] = d.node[x] /\ r.ibit[x] = d.ibit[x]
                                 /\ r.bbit[x] = d.bbit[x]
      /\ r.node[i].links = d.node[i].links /\ r.node[i].dtime = next
      /\ r.node[i].holds = (d.node[i].holds /\ Spared(d, i))
      /\ r.ibit[i] = (d.ibit[i] /\ ~Deleted(d, i))
      /\ r.bbit[i] = (d.bbit[i] /\ (Spared(d, i) \/ ~d.node[i].holds))
  BY RecoverFacts
<1>2. c \in Nat /\ d.freed \in Nat
  BY DEF Credit, Vol
<1>3. e = IF next = 0 THEN Stamp(moved, i, FinalDtime(d, i)) ELSE moved
  BY Zenon DEF Member
<1> HIDE DEF r, c
<1>4. /\ DOMAIN moved = DOMAIN r /\ moved.head = next /\ moved.freed = d.freed + c
      /\ moved.desc = d.desc + c /\ moved.node = r.node /\ moved.ibit = r.ibit
      /\ moved.bbit = r.bbit
  BY <1>1 DEF Vol
<1> HIDE DEF moved
<1>5. Vol(moved)
  BY <1>1, <1>2, <1>4 DEF Vol
<1>7. CASE next = 0
  <2>1. FinalDtime(d, i) \in 0..Time
    BY OrphansAssumption DEF FinalDtime, Time
  <2>2. e = Stamp(moved, i, FinalDtime(d, i))
    BY <1>3, <1>7
  <2>3. /\ Vol(e) /\ e.head = moved.head /\ e.freed = moved.freed /\ e.desc = moved.desc
        /\ e.ibit = moved.ibit /\ e.bbit = moved.bbit
        /\ \A x \in Ino : x # i => e.node[x] = moved.node[x]
        /\ e.node[i].links = moved.node[i].links /\ e.node[i].holds = moved.node[i].holds
        /\ e.node[i].dtime = FinalDtime(d, i)
    BY <1>5, <2>1, <2>2, StampFacts
  <2> QED
    BY <1>1, <1>4, <1>7, <2>3 DEF c, Treated
<1>8. CASE next # 0
  <2>1. e = moved
    BY <1>3, <1>8
  <2> QED
    BY <1>1, <1>4, <1>5, <1>8, <2>1 DEF c, Treated
<1> QED
  BY <1>7, <1>8

\* The pending i_dtime of the member before changes no member still to come.
LEMMA PendingFacts ==
  ASSUME Vol(start), ~OrphanChain(start).err, NEW d, Vol(d), NEW k \in 1 .. L + 1, Turn(k),
         NEW e, e = Pending(d)
  PROVE  /\ Vol(e) /\ e.head = d.head /\ e.freed = d.freed /\ e.desc = d.desc
         /\ e.ibit = d.ibit /\ e.bbit = d.bbit
         /\ \A x \in Ino : /\ e.node[x].links = d.node[x].links
                           /\ e.node[x].holds = d.node[x].holds
         /\ \A j \in k..L : e.node[path[j]] = d.node[path[j]]
<1>1. /\ L \in Nat /\ \A j \in 1..L : path[j] \in Ino
      /\ \A a, b \in 1..L : path[a] = path[b] => a = b
  BY PathFacts, Zenon
<1>2. CASE unstamped = {}
  BY <1>2 DEF Pending
<1>3. CASE k > 1 /\ \E t \in {0, Time} : unstamped = {[ino |-> path[k - 1], dtime |-> t]}
  <2>1. PICK t \in {0, Time} : unstamped = {[ino |-> path[k - 1], dtime |-> t]}
    BY <1>3, Zenon
  <2> DEFINE u == [ino |-> path[k - 1], dtime |-> t]
  <2>2. unstamped # {} /\ \A v \in unstamped : v = u
    BY <2>1
  <2>3. (CHOOSE v \in unstamped : TRUE) = u
    BY <2>2
  <2>4. e = Stamp(d, path[k - 1], t)
    BY <2>2, <2>3 DEF Pending
  <2>5. k - 1 \in 1..L /\ t \in 0..Time
    BY <1>1, <1>3, OrphansAssumption DEF Time
  <2>6. path[k - 1] \in Ino
    BY <1>1, <2>5
  <2>7. \A j \in k..L : path[j] # path[k - 1] /\ path[j] \in Ino
    <3> SUFFICES ASSUME NEW j \in k..L PROVE path[j] # path[k - 1] /\ path[j] \in Ino
      OBVIOUS
    <3>1. j \in 1..L /\ j # k - 1
      BY <1>1
    <3> QED
      BY <1>1, <2>5, <3>1
  <2>8. /\ Vol(e) /\ e.head = d.head /\ e.freed = d.freed /\ e.desc = d.desc
        /\ e.ibit = d.ibit /\ e.bbit = d.bbit
        /\ \A x \in Ino : x # path[k - 1] => e.node[x] = d.node[x]
        /\ e.node[path[k - 1]].links = d.node[path[k - 1]].links
        /\ e.node[path[k - 1]].holds = d.node[path[k - 1]].holds
    BY <2>4, <2>5, <2>6, StampFacts
  <2> QED
    BY <2>7, <2>8
<1> QED
  BY <1>2, <1>3 DEF Turn

\* write_direct's first stage, or any part of it, moves no head and leaves each
\* block as one side has it.
LEMMA MergeFacts ==
  ASSUME NEW d, Vol(d), NEW e, Vol(e), NEW S, S \subseteq Early,
         NEW f, f = Merge(d, e, S)
  PROVE  /\ Vol(f) /\ f.head = d.head
         /\ \A x \in Ino : f.node[x] \in {d.node[x], e.node[x]}
         /\ f.ibit \in {d.ibit, e.ibit}
<1> DEFINE nodes == [i \in Ino |-> IF <<"tab", TabOf[i]>> \in S THEN e.node[i] ELSE d.node[i]]
           bbits == [i \in Ino |-> IF <<"bbm", i>> \in S THEN e.bbit[i] ELSE d.bbit[i]]
<1>1. Sb \notin S
  BY DEF Early
<1>2. /\ DOMAIN f = {"head", "freed", "desc", "ibit", "bbit", "node"}
      /\ f.head = d.head /\ f.freed = d.freed /\ f.desc \in {d.desc, e.desc}
      /\ f.ibit \in {d.ibit, e.ibit} /\ f.node = nodes /\ f.bbit = bbits
  BY <1>1 DEF Merge
<1>3. \A x \in Ino : nodes[x] \in {d.node[x], e.node[x]} /\ bbits[x] \in {d.bbit[x], e.bbit[x]}
  OBVIOUS
<1>4. /\ nodes \in [Ino -> [links : {0, 1}, dtime : 0..Time, holds : BOOLEAN]]
      /\ bbits \in [Ino -> BOOLEAN]
  BY DEF Vol
<1> HIDE DEF nodes, bbits
<1>5. Vol(f)
  BY <1>2, <1>4 DEF Vol
<1> QED
  BY <1>2, <1>3, <1>5

-----------------------------------------------------------------------------
(* Preservation.  The chain as it was found does not change, so a step is
   judged by what it leaves on the disk and in the buffer. *)

\* No step of recover_orphans changes what the volume was when it was found.
LEMMA Frame ==
  ASSUME start' = start, journaled' = journaled
  PROVE  /\ OrphanChain(start)' = OrphanChain(start)
         /\ path' = path /\ L' = L /\ Found' = Found
<1>1. OrphanChain(start)' = OrphanChain(start)
  OBVIOUS
<1>2. path' = path
  BY DEF path
<1>3. L' = L
  BY <1>2 DEF L
<1>4. Found' = Found
  BY DEF Found
<1> QED
  BY <1>1, <1>2, <1>3, <1>4

\* The invariant after a step, from the state it leaves.
LEMMA Close ==
  ASSUME start' = start, journaled' = journaled, legacy' = legacy, ~OrphanChain(start).err,
         TypeInv',
         NEW k \in 1 .. L + 1,
         disk'.head = HeadAt(k), Sound(disk', k), Whole(disk', k),
         pc' # "failed", chain' \in Seq(Ino),
         pc' = "plan" => at' <= Len(chain') /\ Turn(k)',
         pc' \in {"early", "late"} =>
           \E m \in {k, k + 1} :
             /\ m <= L + 1
             /\ new'.head = HeadAt(m) /\ Sound(new', k) /\ Finished(new', m) /\ Whole(new', m)
             /\ at' <= Len(chain') => Turn(m)'
  PROVE  IInv'
<1>1. /\ OrphanChain(start)' = OrphanChain(start)
      /\ path' = path /\ L' = L /\ Found' = Found
  BY Frame, Zenon
<1>2. \A m : HeadAt(m)' = HeadAt(m)
  BY <1>1 DEF HeadAt
<1>3. (disk.head = HeadAt(k))' /\ Sound(disk, k)'
  <2>1. Kept(disk)'
    BY Zenon DEF Sound, Kept
  <2>2. Linked(disk, k)'
    BY <1>1, Zenon DEF Sound, Linked
  <2>3. Finished(disk, k)'
    BY <1>1, Zenon DEF Sound, Finished, GivenUp
  <2> QED
    BY <1>2, <2>1, <2>2, <2>3, Zenon DEF Sound
<1>4. Whole(disk, k)'
  BY <1>1 DEF Whole, Fresh, Cleared, Counted, Gone, GivenUp
<1>5. pc' \in {"early", "late"} => \E m \in {k, k + 1} : m <= L + 1 /\ Staged(k, m)'
  <2> SUFFICES ASSUME pc' \in {"early", "late"}
               PROVE  \E m \in {k, k + 1} : m <= L + 1 /\ Staged(k, m)'
    OBVIOUS
  <2>1. PICK m \in {k, k + 1} :
           /\ m <= L + 1
           /\ new'.head = HeadAt(m) /\ Sound(new', k) /\ Finished(new', m) /\ Whole(new', m)
           /\ at' <= Len(chain') => Turn(m)'
    BY Zenon
  <2>2. (new.head = HeadAt(m))' /\ Sound(new, k)' /\ Finished(new, m)'
    <3>1. Kept(new)'
      BY <2>1, Zenon DEF Sound, Kept
    <3>2. Linked(new, k)'
      BY <1>1, <2>1, Zenon DEF Sound, Linked
    <3>3. Finished(new, k)' /\ Finished(new, m)'
      BY <1>1, <2>1, Zenon DEF Sound, Finished, GivenUp
    <3> QED
      BY <1>2, <2>1, <3>1, <3>2, <3>3, Zenon DEF Sound
  <2>3. Whole(new, m)'
    BY <1>1, <2>1 DEF Whole, Fresh, Cleared, Counted, Gone, GivenUp
  <2>4. Staged(k, m)'
    BY <2>1, <2>2, <2>3 DEF Staged
  <2> QED
    BY <2>1, <2>4
<1>6. Recovering'
  BY <1>1, <1>3, <1>4, <1>5 DEF Recovering
<1> QED
  BY <1>1, <1>6 DEF IInv

\* Any part of write_direct's first stage keeps the chain the head leads to.
LEMMA MergeSound ==
  ASSUME Vol(start), ~OrphanChain(start).err,
         NEW d, Vol(d), NEW e, Vol(e), NEW S, S \subseteq Early, NEW k \in 1 .. L + 1,
         Sound(d, k), Sound(e, k)
  PROVE  /\ Vol(Merge(d, e, S)) /\ Merge(d, e, S).head = d.head
         /\ Sound(Merge(d, e, S), k)
<1> DEFINE f == Merge(d, e, S)
<1>1. /\ Vol(f) /\ f.head = d.head
      /\ \A x \in Ino : f.node[x] \in {d.node[x], e.node[x]}
      /\ f.ibit \in {d.ibit, e.ibit}
  BY MergeFacts
<1>2. L \in Nat /\ \A j \in 1..L : path[j] \in Ino
  BY PathFacts, Zenon
<1> HIDE DEF f
<1>3. Kept(f)
  BY <1>1 DEF Sound, Kept
<1>4. Linked(f, k)
  <2>1. \A j \in k .. L - 1 : path[j] \in Ino
    BY <1>2
  <2>2. k <= L => path[L] \in Ino
    BY <1>2
  <2> QED
    BY <1>1, <1>2, <2>1, <2>2 DEF Sound, Linked
<1>5. Finished(f, k)
  <2>1. \A j \in 1 .. k - 1 : path[j] \in Ino
    BY <1>2
  <2> QED
    BY <1>1, <2>1 DEF Sound, Finished
<1> QED
  BY <1>1, <1>3, <1>4, <1>5 DEF Sound, f

\* Clearing the head of the chain leaves the rest of the volume alone (the
\* empty chain of recover_orphans).
LEMMA HeadCleared ==
  ASSUME NEW d, Vol(d), NEW e, e = [d EXCEPT !.head = 0]
  PROVE  /\ Vol(e) /\ e.head = 0 /\ e.freed = d.freed /\ e.desc = d.desc
         /\ e.ibit = d.ibit /\ e.bbit = d.bbit /\ e.node = d.node
<1>1. /\ DOMAIN e = DOMAIN d /\ e.head = 0 /\ e.freed = d.freed /\ e.desc = d.desc
      /\ e.ibit = d.ibit /\ e.bbit = d.bbit /\ e.node = d.node
  BY DEF Vol
<1>2. Vol(e)
  BY <1>1, OrphansAssumption DEF Vol
<1> QED
  BY <1>1, <1>2

\* A mount finds what is left of the chain (Fs::mount, orphan_chain_to_recover).
LEMMA StepMount == IInv /\ Mount => IInv'
<1> SUFFICES ASSUME IInv, Mount PROVE IInv'
  OBVIOUS
<1>0. /\ Vol(disk) /\ Vol(start) /\ journaled \in BOOLEAN
  BY DEF IInv, TypeInv
<1>1. /\ start' = start /\ journaled' = journaled /\ legacy' = legacy /\ disk' = disk /\ at' = 1
      /\ unstamped' = {} /\ chain' = OrphanChain(disk).out
      /\ new' = [disk EXCEPT !.head = 0]
      /\ pc' = IF disk.head = 0 THEN "mounted"
               ELSE IF OrphanChain(disk).err THEN "failed"
               ELSE IF OrphanChain(disk).out = <<>> THEN "early"
               ELSE "plan"
  BY Zenon DEF Mount, volume
<1>2. /\ Vol(new') /\ new'.head = 0 /\ new'.freed = disk.freed /\ new'.desc = disk.desc
      /\ new'.ibit = disk.ibit /\ new'.bbit = disk.bbit /\ new'.node = disk.node
  BY <1>0, <1>1, HeadCleared
<1>3. CASE OrphanChain(start).err
  <2>1. disk = start /\ disk.freed = 0 /\ disk.desc = 0
    BY <1>3 DEF IInv, Cyclic
  <2>2. disk.head # 0
    <3> SUFFICES ASSUME disk.head = 0 PROVE FALSE
      OBVIOUS
    <3>1. IsPath(disk, <<>>)
      BY OrphansAssumption DEF IsPath, Ends, StopsAt
    <3>2. OrphanChain(disk) = [out |-> <<>>, err |-> FALSE]
      BY <1>0, <3>1, VolReadable, ChainOfPath, Zenon
    <3> QED
      BY <1>3, <2>1, <3>2
  <2>3. pc' = "failed"
    BY <1>1, <1>3, <2>1, <2>2
  <2>4. pc' = "failed" /\ Cyclic'
    BY <1>1, <2>1, <2>3 DEF Cyclic
  <2>6. TypeInv'
    BY <1>0, <1>1, <1>2, <2>3 DEF TypeInv
  <2> QED
    BY <1>1, <1>3, <2>4, <2>6 DEF IInv
<1>4. CASE ~OrphanChain(start).err
  <2>0. /\ L \in Nat /\ path \in Seq(Ino) /\ \A j \in 1..L : path[j] \in Ino
    BY <1>0, <1>4, PathFacts, Zenon
  <2>1. PICK k \in 1 .. L + 1 : disk.head = HeadAt(k) /\ Sound(disk, k) /\ Whole(disk, k)
    BY <1>4, Zenon DEF IInv, Recovering
  <2>2. Kept(disk) /\ Linked(disk, k) /\ Finished(disk, k)
    BY <2>1 DEF Sound
  <2>3. OrphanChain(disk) = [out |-> IF Swept(disk, k) THEN <<>> ELSE Rest(k), err |-> FALSE]
    BY <1>0, <1>4, <2>1, <2>2, ChainOfRest, Zenon
  <2>4. disk'.head = HeadAt(k) /\ Sound(disk', k) /\ Whole(disk', k)
    BY <1>1, <2>1
  <2>6. CASE disk.head = 0
    <3>1. pc' = "mounted"
      BY <1>1, <2>6
    <3>2. k = L + 1
      <4> SUFFICES ASSUME k <= L PROVE FALSE
        BY <2>0
      <4>1. disk.head = path[k] /\ k \in 1..L
        BY <2>0, <2>1 DEF HeadAt
      <4>2. disk.head \in Ino
        BY <2>0, <4>1
      <4> QED
        BY <2>6, <4>2, OrphansAssumption DEF Ino
    <3>3. chain' = <<>>
      BY <1>1, <2>3, <3>2 DEF Swept
    <3>4. TypeInv'
      BY <1>0, <1>1, <1>2, <3>1 DEF TypeInv
    <3>5. chain' \in Seq(Ino)
      BY <3>3
    <3> QED
      BY <1>1, <1>4, <2>4, <3>1, <3>4, <3>5, Close
  <2>7. CASE disk.head # 0 /\ Swept(disk, k)
    <3>1. pc' = "early" /\ chain' = <<>>
      BY <1>1, <2>3, <2>7
    <3>2. k = L /\ L > 0 /\ ~disk.ibit[path[L]]
      BY <2>0, <2>1, <2>7 DEF Swept, HeadAt
    <3>3. start.node[path[L]].links = 0
      BY <1>0, <1>4, <2>2, <2>7, <3>2, SweptIsDeleted
    <3>4. TypeInv'
      BY <1>0, <1>1, <1>2, <3>1 DEF TypeInv
    <3>5. Sound(new', k)
      BY <1>2, <2>2 DEF Sound, Kept, Linked, Finished
    <3>6. Finished(new', k + 1)
      <4>1. \A j \in 1 .. (k + 1) - 1 : j \in 1 .. k - 1 \/ j = L
        BY <2>0, <3>2
      <4> QED
        BY <1>2, <2>2, <3>2, <3>3, <4>1 DEF Finished
    <3>7. Whole(new', k + 1)
      <4>1. ~journaled
        <5> SUFFICES ASSUME journaled PROVE FALSE
          OBVIOUS
        <5>1. Fresh(disk, k) /\ L \in k..L
          BY <2>0, <2>1, <3>2 DEF Whole
        <5> QED
          BY <3>2, <5>1 DEF Fresh
      <4> QED
        BY <4>1 DEF Whole
    <3>8. new'.head = HeadAt(k + 1) /\ k + 1 <= L + 1
      BY <1>2, <2>0, <3>2 DEF HeadAt
    <3>9. ~ (at' <= Len(chain')) /\ chain' \in Seq(Ino)
      BY <1>1, <3>1
    <3> QED
      BY <1>1, <1>4, <2>4, <3>1, <3>4, <3>5, <3>6, <3>7, <3>8, <3>9, Close
  <2>8. CASE disk.head # 0 /\ ~Swept(disk, k)
    <3>0. k \in 1..L
      BY <2>0, <2>8 DEF Swept
    <3>1. chain' = Rest(k)
      BY <1>1, <2>3, <2>8
    <3>2. L - (k - 1) \in Nat /\ L - (k - 1) > 0 /\ \A x \in 1 .. L - (k - 1) : (k - 1) + x \in 1..L
      BY <2>0, <3>0
    <3>3. /\ Rest(k) \in Seq(Ino) /\ Len(Rest(k)) = L - (k - 1)
          /\ \A x \in 1..Len(Rest(k)) : Rest(k)[x] = path[(k - 1) + x]
      BY <2>0, <3>2 DEF Rest
    <3>4. pc' = "plan"
      BY <1>1, <2>3, <2>8, <3>2, <3>3
    <3>5. TypeInv'
      BY <1>0, <1>1, <1>2, <3>4 DEF TypeInv
    <3>6. path' = path /\ L' = L
      BY <1>1, Frame
    <3>7. at' <= Len(chain') /\ Turn(k)' /\ chain' \in Seq(Ino)
      BY <1>1, <3>0, <3>1, <3>2, <3>3, <3>6 DEF Turn
    <3> QED
      BY <1>1, <1>4, <2>4, <3>4, <3>5, <3>7, Close
  <2> QED
    BY <2>6, <2>7, <2>8
<1> QED
  BY <1>3, <1>4

\* A commit that is through: the journal's, write_direct's last stage, or a cut
\* after either.
LEMMA Committed ==
  ASSUME IInv, pc \in {"early", "late"}, disk' = new,
         UNCHANGED <<new, chain, at, start, journaled, legacy>>,
         (pc' = Returned /\ unstamped' = unstamped) \/ pc' = "down"
  PROVE  IInv'
<1>0. /\ Vol(disk) /\ Vol(new) /\ Vol(start) /\ journaled \in BOOLEAN /\ at \in Nat \ {0}
  BY DEF IInv, TypeInv
<1>1. ~OrphanChain(start).err
  BY DEF IInv, Cyclic
<1>2. L \in Nat
  BY <1>0, <1>1, PathFacts, Zenon
<1>3. PICK k \in 1 .. L + 1 :
        /\ Sound(disk, k) /\ chain \in Seq(Ino)
        /\ \E m \in {k, k + 1} : m <= L + 1 /\ Staged(k, m)
  BY <1>1, Zenon DEF IInv, Recovering
<1>4. PICK m \in {k, k + 1} : m <= L + 1 /\ Staged(k, m)
  BY <1>3
<1>5. m \in 1 .. L + 1
  BY <1>2, <1>4
<1>6. Linked(new, m)
  <2>1. Linked(new, k)
    BY <1>4 DEF Staged, Sound
  <2>2. CASE m = k + 1
    <3>1. \A j \in m .. L - 1 : j \in k .. L - 1
      BY <1>2, <2>2
    <3>2. m <= L => k < L
      BY <1>2, <2>2
    <3> QED
      BY <1>2, <1>5, <2>1, <2>2, <3>1, <3>2 DEF Linked
  <2> QED
    BY <2>1, <2>2
<1>7. disk'.head = HeadAt(m) /\ Sound(disk', m) /\ Whole(disk', m)
  BY <1>4, <1>6 DEF Staged, Sound
<1>8. pc' \in {"mounted", "plan", "down"}
  BY DEF Returned
<1>9. TypeInv'
  BY <1>0, <1>8 DEF TypeInv
<1>10. pc' = "plan" => at' <= Len(chain') /\ Turn(m)'
  <2> SUFFICES ASSUME pc' = "plan" PROVE at' <= Len(chain') /\ Turn(m)'
    OBVIOUS
  <2>1. at <= Len(chain) /\ unstamped' = unstamped
    <3>1. ~ (at > Len(chain)) /\ unstamped' = unstamped
      BY DEF Returned
    <3> QED
      BY <1>0, <1>3, <3>1
  <2>2. Turn(m)
    BY <1>4, <2>1 DEF Staged
  <2>3. path' = path /\ L' = L
    BY Frame
  <2> QED
    BY <2>1, <2>2, <2>3 DEF Turn
<1> QED
  BY <1>1, <1>3, <1>5, <1>7, <1>8, <1>9, <1>10, Close

\* Without a journal the first stage, whole or in part, keeps the old chain.
LEMMA FirstStage ==
  ASSUME IInv, pc = "early", ~journaled, NEW S, S \subseteq Early,
         disk' = Merge(disk, new, S),
         UNCHANGED <<new, chain, at, start, journaled, legacy>>,
         (pc' = "late" /\ unstamped' = unstamped) \/ pc' = "down"
  PROVE  IInv'
<1>0. /\ Vol(disk) /\ Vol(new) /\ Vol(start) /\ journaled \in BOOLEAN /\ at \in Nat \ {0}
  BY DEF IInv, TypeInv
<1>1. ~OrphanChain(start).err
  BY DEF IInv, Cyclic
<1>2. PICK k \in 1 .. L + 1 :
        /\ disk.head = HeadAt(k) /\ Sound(disk, k) /\ chain \in Seq(Ino)
        /\ \E m \in {k, k + 1} : m <= L + 1 /\ Staged(k, m)
  BY <1>1, Zenon DEF IInv, Recovering
<1>3. PICK m \in {k, k + 1} : m <= L + 1 /\ Staged(k, m)
  BY <1>2
<1>4. Sound(new, k)
  BY <1>3 DEF Staged
<1>5. Vol(disk') /\ disk'.head = disk.head /\ Sound(disk', k)
  BY <1>0, <1>1, <1>2, <1>4, MergeSound
<1>6. Whole(disk', k)
  BY DEF Whole
<1>7. pc' \in {"late", "down"}
  OBVIOUS
<1>8. TypeInv'
  BY <1>0, <1>5, <1>7 DEF TypeInv
<1>9. path' = path /\ L' = L
  BY Frame
<1>10. pc' = "late" => (at' <= Len(chain') => Turn(m)')
  <2> SUFFICES ASSUME pc' = "late", at' <= Len(chain') PROVE Turn(m)'
    OBVIOUS
  <2>1. Turn(m) /\ unstamped' = unstamped
    BY <1>3 DEF Staged
  <2> QED
    BY <1>9, <2>1 DEF Turn
<1>11. new'.head = HeadAt(m) /\ Sound(new', k) /\ Finished(new', m) /\ Whole(new', m)
  BY <1>3 DEF Staged
<1> QED
  BY <1>1, <1>2, <1>3, <1>5, <1>6, <1>7, <1>8, <1>10, <1>11, Close

\* A cut before anything of the buffer is written.
LEMMA Nothing ==
  ASSUME IInv, pc \in {"plan", "early", "late"}, pc' = "down",
         UNCHANGED <<disk, new, chain, at, start, journaled, legacy>>
  PROVE  IInv'
<1>1. ~OrphanChain(start).err
  BY DEF IInv, Cyclic
<1>2. PICK k \in 1 .. L + 1 :
        disk.head = HeadAt(k) /\ Sound(disk, k) /\ Whole(disk, k) /\ chain \in Seq(Ino)
  BY <1>1, Zenon DEF IInv, Recovering
<1>3. TypeInv'
  BY DEF IInv, TypeInv
<1>4. disk'.head = HeadAt(k) /\ Sound(disk', k) /\ Whole(disk', k)
  BY <1>2
<1> QED
  BY <1>1, <1>2, <1>3, <1>4, Close

\* A crash or a device error, whichever blocks it leaves behind.
LEMMA StepCut == IInv /\ Cut => IInv'
<1> SUFFICES ASSUME IInv, Cut PROVE IInv'
  OBVIOUS
<1>1. /\ pc \in {"plan", "early", "late"} /\ pc' = "down"
      /\ UNCHANGED <<new, chain, at, start, journaled, legacy>>
  BY DEF Cut, volume
<1>2. CASE UNCHANGED disk
  BY <1>1, <1>2, Nothing
<1>3. CASE pc = "early" /\ journaled /\ disk' = new
  BY <1>1, <1>3, Committed
<1>4. CASE pc = "early" /\ ~journaled /\ \E S \in SUBSET Dirty(disk, new) : disk' = Merge(disk, new, S)
  <2>1. PICK S \in SUBSET Dirty(disk, new) : disk' = Merge(disk, new, S)
    BY <1>4
  <2>2. S \subseteq Early
    BY Zenon DEF Dirty
  <2> QED
    BY <1>1, <1>4, <2>1, <2>2, FirstStage
<1>5. CASE pc = "late" /\ disk' = new
  BY <1>1, <1>5, Committed
<1> QED
  BY <1>2, <1>3, <1>4, <1>5 DEF Cut

\* The three ways a commit goes on (BlockBuffer::commit).
LEMMA StepCommit == IInv /\ (CommitJournaled \/ CommitEarly \/ CommitLate) => IInv'
<1>1. ASSUME IInv, CommitJournaled PROVE IInv'
  BY <1>1, Committed DEF CommitJournaled, volume
<1>2. ASSUME IInv, CommitEarly PROVE IInv'
  BY <1>2, FirstStage DEF CommitEarly, volume
<1>3. ASSUME IInv, CommitLate PROVE IInv'
  BY <1>3, Committed DEF CommitLate, volume
<1> QED
  BY <1>1, <1>2, <1>3

\* The count of the members reclaimed after one more, with a journal.
LEMMA OneMoreGone ==
  ASSUME Vol(start), ~OrphanChain(start).err, NEW d, Vol(d), NEW e,
         NEW i \in Found, d.ibit[i],
         e.ibit[i] = (d.ibit[i] /\ ~Deleted(d, i)),
         \A x \in Ino : x # i => e.ibit[x] = d.ibit[x],
         Counted(d), e.freed = d.freed + Credit(d, i), e.desc = d.desc + Credit(d, i)
  PROVE  Counted(e)
<1>1. /\ L \in Nat /\ \A j \in 1..L : path[j] \in Ino
      /\ Found = {path[j] : j \in 1..L}
  BY PathFacts, Zenon
<1>2. Found \subseteq Ino /\ IsFiniteSet(Ino)
  BY <1>1, OrphansAssumption, FS_Interval DEF Ino
<1>3. IsFiniteSet(Gone(d)) /\ i \notin Gone(d)
  <2>1. Gone(d) \subseteq Ino
    BY <1>2 DEF Gone
  <2> QED
    BY <1>2, <2>1, FS_Subset DEF Gone
<1>4. Cardinality(Gone(d)) \in Nat
  BY <1>3, FS_CardinalityType
<1>5. CASE Deleted(d, i)
  <2>1. Gone(e) = Gone(d) \cup {i}
    BY <1>2, <1>5, Zenon DEF Gone
  <2>2. Cardinality(Gone(e)) = Cardinality(Gone(d)) + 1
    BY <1>3, <2>1, FS_AddElement, Zenon
  <2> QED
    BY <1>5, <2>2 DEF Counted, Credit
<1>6. CASE ~Deleted(d, i)
  <2>1. Gone(e) = Gone(d)
    BY <1>2, <1>6, Zenon DEF Gone
  <2> QED
    BY <1>4, <1>6, <2>1 DEF Counted, Credit
<1> QED
  BY <1>5, <1>6

\* Where the head goes from the k-th member.
LEMMA NextHead ==
  ASSUME Vol(start), ~OrphanChain(start).err, NEW k \in 1..L
  PROVE  /\ HeadAt(k + 1) \in 0..N /\ (HeadAt(k + 1) = 0 <=> k = L)
         /\ k < L => HeadAt(k + 1) = path[k + 1]
<1>1. L \in Nat /\ \A j \in 1..L : path[j] \in Ino
  BY PathFacts, Zenon
<1>2. CASE k < L
  <2>1. k + 1 \in 1..L /\ k + 1 <= L
    BY <1>1, <1>2
  <2>2. HeadAt(k + 1) = path[k + 1] /\ path[k + 1] \in Ino
    BY <1>1, <2>1 DEF HeadAt
  <2> QED
    BY <1>1, <1>2, <2>2, OrphansAssumption DEF Ino
<1>3. CASE k = L
  <2>1. ~ (k + 1 <= L)
    BY <1>1, <1>3
  <2>2. HeadAt(k + 1) = 0
    BY <2>1 DEF HeadAt
  <2> QED
    BY <1>1, <1>3, <2>2, OrphansAssumption
<1> QED
  BY <1>1, <1>2, <1>3

\* A member has no links, or is one recovery gives up on, as it was found.
LEMMA AsFound ==
  ASSUME Vol(start), NEW d, Kept(d), NEW i \in Ino
  PROVE  /\ Deleted(d, i) <=> start.node[i].links = 0
         /\ Spared(d, i) <=> GivenUp(i)
         /\ start.node[i].links \in {0, 1}
<1>1. d.node[i].links = start.node[i].links
  BY DEF Kept
<1>2. start.node[i].links \in {0, 1}
  BY DEF Vol
<1> QED
  BY <1>1, <1>2 DEF Deleted, Spared, GivenUp

\* buffer_recover_orphan takes no links, and no inode of a file that has one.
LEMMA MemberKept ==
  ASSUME Vol(start), NEW d, Kept(d), NEW i \in Ino, NEW next, NEW e, Treated(d, e, i, next)
  PROVE  Kept(e)
<1> SUFFICES ASSUME NEW x \in Ino
             PROVE  /\ e.node[x].links = start.node[x].links
                    /\ start.node[x].links = 1 => e.ibit[x]
  BY DEF Kept
<1>1. d.node[x].links = start.node[x].links /\ (start.node[x].links = 1 => d.ibit[x])
  BY Zenon DEF Kept
<1>2. CASE x = i
  <2>1. e.node[i].links = d.node[i].links /\ e.ibit[i] = (d.ibit[i] /\ ~Deleted(d, i))
    BY Zenon DEF Treated
  <2>2. start.node[i].links = 1 => ~Deleted(d, i)
    BY AsFound
  <2> QED
    BY <1>1, <1>2, <2>1, <2>2, Zenon
<1>3. CASE x # i
  BY <1>1, <1>3, Zenon DEF Treated
<1> QED
  BY <1>2, <1>3

\* The links of the chain from the k-th member on are kept.
LEMMA MemberLinked ==
  ASSUME Vol(start), ~OrphanChain(start).err, NEW d, NEW k \in 1..L, Linked(d, k),
         NEW e, Treated(d, e, path[k], HeadAt(k + 1))
  PROVE  Linked(e, k)
<1>1. /\ L \in Nat /\ \A j \in 1..L : path[j] \in Ino
      /\ \A a, b \in 1..L : path[a] = path[b] => a = b
  BY PathFacts, Zenon
<1>2. \A j \in 1..L : j # k => path[j] # path[k] /\ path[j] \in Ino
  BY <1>1, Zenon
<1>3. \A j \in 1..L : j # k => e.node[path[j]] = d.node[path[j]]
  BY <1>2, Zenon DEF Treated
<1>4. e.node[path[k]].dtime = IF HeadAt(k + 1) = 0 THEN FinalDtime(d, path[k]) ELSE HeadAt(k + 1)
  BY Zenon DEF Treated
<1>5. CASE k < L
  <2>1. e.node[path[k]].dtime = path[k + 1]
    <3>1. HeadAt(k + 1) # 0 /\ HeadAt(k + 1) = path[k + 1]
      BY <1>1, <1>5, NextHead
    <3> QED
      BY <1>4, <3>1, Zenon
  <2>2. L \in 1..L /\ L # k
    BY <1>1, <1>5
  <2>3. d.node[path[L]].dtime = 0
    BY <1>5 DEF Linked
  <2>4. e.node[path[L]].dtime = 0
    BY <1>3, <2>2, <2>3, Zenon
  <2>5. ASSUME NEW j \in k .. L - 1 PROVE e.node[path[j]].dtime = path[j + 1]
    <3>1. CASE j = k
      BY <2>1, <3>1, Zenon
    <3>2. CASE j # k
      <4>1. j \in 1..L
        BY <1>1
      <4>2. d.node[path[j]].dtime = path[j + 1]
        BY Zenon DEF Linked
      <4> QED
        BY <1>3, <3>2, <4>1, <4>2, Zenon
    <3> QED
      BY <3>1, <3>2
  <2>6. ~ (k = L)
    BY <1>1, <1>5
  <2> QED
    BY <2>4, <2>5, <2>6, Zenon DEF Linked
<1>6. CASE k = L
  <2>1. HeadAt(k + 1) = 0
    BY <1>6, NextHead
  <2>2. e.node[path[L]].dtime \in {0, Time}
    BY <1>4, <1>6, <2>1, Zenon DEF FinalDtime
  <2>3. ~ (k < L) /\ \A j \in k .. L - 1 : FALSE
    BY <1>1, <1>6
  <2> QED
    BY <2>2, <2>3, Zenon DEF Linked
<1> QED
  BY <1>1, <1>5, <1>6

\* The k-th member is finished, and those before it stay so.
LEMMA MemberFinished ==
  ASSUME Vol(start), ~OrphanChain(start).err, NEW d, NEW k \in 1..L, Kept(d), Finished(d, k),
         NEW e, Treated(d, e, path[k], HeadAt(k + 1))
  PROVE  Finished(e, k) /\ Finished(e, k + 1)
<1>1. /\ L \in Nat /\ \A j \in 1..L : path[j] \in Ino
      /\ \A a, b \in 1..L : path[a] = path[b] => a = b
  BY PathFacts, Zenon
<1>2. \A j \in 1..L : j # k => path[j] # path[k] /\ path[j] \in Ino
  BY <1>1, Zenon
<1>3. \A j \in 1..L : j # k => /\ e.node[path[j]] = d.node[path[j]]
                              /\ e.ibit[path[j]] = d.ibit[path[j]]
  BY <1>2, Zenon DEF Treated
<1>4. Finished(e, k + 1)
  <2> SUFFICES ASSUME NEW j \in 1 .. (k + 1) - 1
               PROVE  IF start.node[path[j]].links = 0 THEN ~e.ibit[path[j]]
                      ELSE ~e.node[path[j]].holds \/ GivenUp(path[j])
    BY Zenon DEF Finished
  <2>1. CASE j = k
    <3>1. /\ e.node[path[k]].holds = (d.node[path[k]].holds /\ Spared(d, path[k]))
          /\ e.ibit[path[k]] = (d.ibit[path[k]] /\ ~Deleted(d, path[k]))
      BY Zenon DEF Treated
    <3>2. /\ Deleted(d, path[k]) <=> start.node[path[k]].links = 0
          /\ Spared(d, path[k]) <=> GivenUp(path[k])
      BY <1>1, AsFound, Zenon
    <3> QED
      BY <2>1, <3>1, <3>2, Zenon
  <2>2. CASE j # k
    <3>1. j \in 1 .. k - 1 /\ j \in 1..L
      BY <1>1, <2>2
    <3> QED
      BY <1>3, <2>2, <3>1, Zenon DEF Finished
  <2> QED
    BY <2>1, <2>2
<1>5. \A j \in 1 .. k - 1 : j \in 1 .. (k + 1) - 1
  OBVIOUS
<1> QED
  BY <1>4, <1>5, Zenon DEF Finished

\* With a journal the members to come are as they were, the k-th has left its
\* blocks and is counted.
LEMMA MemberWhole ==
  ASSUME Vol(start), ~OrphanChain(start).err, NEW d, Vol(d), NEW k \in 1..L, Kept(d), Whole(d, k),
         NEW e, Treated(d, e, path[k], HeadAt(k + 1))
  PROVE  Whole(e, k + 1)
<1> SUFFICES ASSUME journaled PROVE Fresh(e, k + 1) /\ Cleared(e, k + 1) /\ Counted(e)
  BY DEF Whole
<1>1. /\ L \in Nat /\ \A j \in 1..L : path[j] \in Ino
      /\ \A a, b \in 1..L : path[a] = path[b] => a = b
      /\ Found = {path[j] : j \in 1..L}
  BY PathFacts, Zenon
<1>2. \A j \in 1..L : j # k => path[j] # path[k] /\ path[j] \in Ino
  BY <1>1, Zenon
<1>3. \A j \in 1..L : j # k => /\ e.node[path[j]] = d.node[path[j]]
                              /\ e.ibit[path[j]] = d.ibit[path[j]]
                              /\ e.bbit[path[j]] = d.bbit[path[j]]
  BY <1>2, Zenon DEF Treated
<1>4. Fresh(d, k) /\ Cleared(d, k) /\ Counted(d)
  BY DEF Whole
<1>5. d.ibit[path[k]] /\ d.bbit[path[k]] /\ d.node[path[k]].holds
  <2>1. k \in k..L
    BY <1>1
  <2> QED
    BY <1>4, <2>1, Zenon DEF Fresh
<1>6. Fresh(e, k + 1)
  <2>1. \A j \in k + 1 .. L : j \in k..L /\ j \in 1..L /\ j # k
    BY <1>1
  <2> QED
    BY <1>3, <1>4, <2>1, Zenon DEF Fresh
<1>7. Cleared(e, k + 1)
  <2>1. \A j \in 1 .. (k + 1) - 1 : j = k \/ (j \in 1 .. k - 1 /\ j \in 1..L /\ j # k)
    BY <1>1
  <2>2. e.bbit[path[k]] <=> GivenUp(path[k])
    <3>1. e.bbit[path[k]] = (d.bbit[path[k]] /\ (Spared(d, path[k]) \/ ~d.node[path[k]].holds))
      BY Zenon DEF Treated
    <3>2. Spared(d, path[k]) <=> GivenUp(path[k])
      BY <1>1, AsFound, Zenon
    <3> QED
      BY <1>5, <3>1, <3>2, Zenon
  <2>3. \A j \in 1 .. k - 1 : j \in 1..L /\ j # k => (e.bbit[path[j]] <=> GivenUp(path[j]))
    BY <1>3, <1>4, Zenon DEF Cleared
  <2> QED
    BY <2>1, <2>2, <2>3, Zenon DEF Cleared
<1>8. Counted(e)
  <2>1. path[k] \in Found /\ path[k] \in Ino
    BY <1>1, Zenon
  <2>2. /\ e.ibit[path[k]] = (d.ibit[path[k]] /\ ~Deleted(d, path[k]))
        /\ \A x \in Ino : x # path[k] => e.ibit[x] = d.ibit[x]
        /\ e.freed = d.freed + Credit(d, path[k]) /\ e.desc = d.desc + Credit(d, path[k])
    BY Zenon DEF Treated
  <2> QED
    BY <1>4, <1>5, <2>1, <2>2, OneMoreGone, Zenon
<1> QED
  BY <1>6, <1>7, <1>8

\* What the buffer of the k-th member makes of the chain.
LEMMA MemberSound ==
  ASSUME Vol(start), ~OrphanChain(start).err, NEW d, Vol(d), NEW k \in 1..L,
         Sound(d, k), Whole(d, k),
         NEW e, e = Member(d, path[k], HeadAt(k + 1))
  PROVE  /\ Vol(e) /\ e.head = HeadAt(k + 1)
         /\ Sound(e, k) /\ Finished(e, k + 1) /\ Whole(e, k + 1)
<1>1. path[k] \in Ino
  BY PathFacts, Zenon
<1>2. HeadAt(k + 1) \in 0..N
  BY NextHead, Zenon
<1>3. Treated(d, e, path[k], HeadAt(k + 1))
  BY <1>1, <1>2, MemberFacts, Zenon
<1>4. Kept(d) /\ Linked(d, k) /\ Finished(d, k)
  BY Zenon DEF Sound
<1>5. Kept(e)
  BY <1>1, <1>3, <1>4, MemberKept, Zenon
<1>6. Linked(e, k)
  BY <1>3, <1>4, MemberLinked, Zenon
<1>7. Finished(e, k) /\ Finished(e, k + 1)
  BY <1>3, <1>4, MemberFinished, Zenon
<1>8. Whole(e, k + 1)
  BY <1>3, <1>4, MemberWhole, Zenon
<1>9. Vol(e) /\ e.head = HeadAt(k + 1)
  BY <1>3, Zenon DEF Treated
<1> QED
  BY <1>5, <1>6, <1>7, <1>8, <1>9, Zenon DEF Sound

\* One turn of the loop stages a buffer that keeps the chain where the head is
\* and finishes the member it passes (recover_orphans).
LEMMA StepPlan == IInv /\ Plan => IInv'
<1> SUFFICES ASSUME IInv, Plan PROVE IInv'
  OBVIOUS
<1>0. /\ Vol(disk) /\ Vol(new) /\ Vol(start) /\ journaled \in BOOLEAN /\ at \in Nat \ {0}
      /\ pc = "plan"
  BY DEF IInv, TypeInv, Plan
<1>1. ~OrphanChain(start).err
  BY <1>0 DEF IInv, Cyclic
<1>2. /\ L \in Nat /\ \A j \in 1..L : path[j] \in Ino
  BY <1>0, <1>1, PathFacts, Zenon
<1>3. PICK k \in 1 .. L + 1 :
        /\ disk.head = HeadAt(k) /\ Sound(disk, k) /\ Whole(disk, k) /\ chain \in Seq(Ino)
        /\ at <= Len(chain) /\ Turn(k)
  BY <1>0, <1>1, Zenon DEF IInv, Recovering
<1>4. /\ k \in 1..L /\ chain[at] = path[k]
      /\ (at < Len(chain) <=> k < L) /\ (at < Len(chain) => chain[at + 1] = path[k + 1])
  <2>1. /\ at <= k /\ Len(chain) = L - (k - at)
        /\ \A x \in 1..Len(chain) : chain[x] = path[(k - at) + x]
    BY <1>3 DEF Turn
  <2>2. (k - at) + at = k /\ (k - at) + (at + 1) = k + 1 /\ at \in 1..Len(chain)
    BY <1>0, <1>2, <1>3, <2>1
  <2>3. k \in 1..L /\ (at < Len(chain) <=> k < L)
    BY <1>0, <1>2, <1>3, <2>1
  <2>4. at < Len(chain) => at + 1 \in 1..Len(chain)
    BY <1>0, <1>2, <1>3, <2>1
  <2> QED
    BY <2>1, <2>2, <2>3, <2>4
<1> DEFINE i == chain[at]
           next == IF at < Len(chain) THEN chain[at + 1] ELSE 0
           p == Pending(disk)
           stuck == Stuck(disk, chain[at])
<1>5. i = path[k] /\ next = HeadAt(k + 1) /\ (next = 0 <=> k = L)
  <2>1. CASE k < L
    <3>1. k + 1 \in 1..L /\ k + 1 <= L
      BY <1>2, <2>1
    <3>2. path[k + 1] \in Ino /\ path[k + 1] # 0
      BY <1>2, <3>1, OrphansAssumption DEF Ino
    <3> QED
      BY <1>2, <1>4, <2>1, <3>1, <3>2 DEF HeadAt
  <2>2. CASE k = L
    BY <1>2, <1>4, <2>2 DEF HeadAt
  <2> QED
    BY <1>2, <1>4, <2>1, <2>2
<1>6. /\ new' = IF stuck THEN p ELSE Member(p, i, next)
      /\ unstamped' = IF stuck \/ next = 0 THEN {}
                      ELSE {[ino |-> i, dtime |-> FinalDtime(disk, i)]}
      /\ at' = IF stuck THEN Len(chain) + 1 ELSE at + 1
      /\ pc' = "early" /\ disk' = disk /\ chain' = chain /\ start' = start
      /\ journaled' = journaled /\ legacy' = legacy
  BY Zenon DEF Plan, volume
<1>7. /\ Vol(p) /\ p.head = disk.head /\ p.freed = disk.freed /\ p.desc = disk.desc
      /\ p.ibit = disk.ibit /\ p.bbit = disk.bbit
      /\ \A x \in Ino : /\ p.node[x].links = disk.node[x].links
                        /\ p.node[x].holds = disk.node[x].holds
      /\ \A j \in k..L : p.node[path[j]] = disk.node[path[j]]
  BY <1>0, <1>1, <1>3, PendingFacts
<1> HIDE DEF i, next, p, stuck
<1>8. Sound(p, k)
  <2>1. Kept(disk) /\ Linked(disk, k) /\ Finished(disk, k)
    BY <1>3 DEF Sound
  <2>2. Kept(p)
    BY <1>7, <2>1 DEF Kept
  <2>3. Linked(p, k)
    <3>1. L \in k..L /\ \A j \in k .. L - 1 : j \in k..L
      BY <1>2, <1>4
    <3> QED
      BY <1>7, <2>1, <3>1 DEF Linked
  <2>4. Finished(p, k)
    <3>1. \A j \in 1 .. k - 1 : path[j] \in Ino
      BY <1>2, <1>4
    <3> QED
      BY <1>7, <2>1, <3>1 DEF Finished
  <2> QED
    BY <2>2, <2>3, <2>4 DEF Sound
<1>9. Whole(p, k)
  <2> SUFFICES ASSUME journaled PROVE Fresh(p, k) /\ Cleared(p, k) /\ Counted(p)
    BY DEF Whole
  <2>1. Fresh(disk, k) /\ Cleared(disk, k) /\ Counted(disk)
    BY <1>3 DEF Whole
  <2>2. Gone(p) = Gone(disk)
    BY <1>7 DEF Gone
  <2> QED
    BY <1>7, <2>1, <2>2 DEF Fresh, Cleared, Counted
<1>10. disk'.head = HeadAt(k) /\ Sound(disk', k) /\ Whole(disk', k) /\ chain' \in Seq(Ino)
  BY <1>3, <1>6
<1>11. CASE stuck
  <2>1. new' = p /\ at' = Len(chain) + 1
    BY <1>6, <1>11
  <2>2. Len(chain) \in Nat
    BY <1>3
  <2>3. TypeInv'
    BY <1>0, <1>6, <1>7, <2>1, <2>2 DEF TypeInv
  <2>4. ~ (at' <= Len(chain'))
    BY <1>6, <2>1, <2>2, SMTT(30)
  <2>5. /\ new'.head = HeadAt(k) /\ Sound(new', k) /\ Finished(new', k) /\ Whole(new', k)
        /\ k <= L + 1
    BY <1>2, <1>3, <1>7, <1>8, <1>9, <2>1, SMTT(30) DEF Sound
  <2> QED
    BY <1>1, <1>6, <1>10, <2>3, <2>4, <2>5, Close
<1>12. CASE ~stuck
  <2>1. new' = Member(p, path[k], HeadAt(k + 1)) /\ at' = at + 1
    BY <1>5, <1>6, <1>12, SMTT(30)
  <2>2. /\ Vol(new') /\ new'.head = HeadAt(k + 1)
        /\ Sound(new', k) /\ Finished(new', k + 1) /\ Whole(new', k + 1)
    BY <1>0, <1>1, <1>4, <1>7, <1>8, <1>9, <2>1, MemberSound, Zenon
  <2>3. TypeInv'
    BY <1>0, <1>6, <2>1, <2>2 DEF TypeInv
  <2>4. k + 1 <= L + 1
    BY <1>2, <1>4
  <2>5. path' = path /\ L' = L
    BY <1>6, Frame
  <2>6. Turn(k + 1)'
    <3>1. /\ at <= k /\ Len(chain) = L - (k - at)
          /\ \A x \in 1..Len(chain) : chain[x] = path[(k - at) + x]
      BY <1>3 DEF Turn
    <3>2. at' <= k + 1 /\ (k + 1) - at' = k - at /\ (k + 1) - 1 = k /\ k + 1 > 1
      BY <1>0, <1>4, <2>1, <3>1
    <3>3. \/ unstamped' = {}
          \/ \E t \in {0, Time} : unstamped' = {[ino |-> path[k], dtime |-> t]}
      <4>1. FinalDtime(disk, i) \in {0, Time}
        BY DEF FinalDtime
      <4> QED
        BY <1>5, <1>6, <4>1
    <3> QED
      BY <1>6, <2>5, <3>1, <3>2, <3>3 DEF Turn
  <2> QED
    BY <1>1, <1>6, <1>10, <2>2, <2>3, <2>4, <2>6, Close
<1> QED
  BY <1>11, <1>12

\* A step that changes nothing, as on a volume whose chain never ends.
LEMMA Same == IInv /\ UNCHANGED vars => IInv'
<1> SUFFICES ASSUME IInv, UNCHANGED vars PROVE IInv'
  OBVIOUS
<1>1. UNCHANGED <<journaled, legacy, disk, new, pc, chain, at, unstamped, start>>
  BY DEF vars, volume
<1>2. /\ OrphanChain(start)' = OrphanChain(start)
      /\ path' = path /\ L' = L /\ Found' = Found
  BY <1>1, Frame
<1>3. TypeInv'
  BY <1>1 DEF IInv, TypeInv
<1>4. CASE OrphanChain(start).err
  BY <1>1, <1>2, <1>3, <1>4 DEF IInv, Cyclic
<1>5. CASE ~OrphanChain(start).err
  <2>1. PICK k \in 1 .. L + 1 :
          /\ disk.head = HeadAt(k) /\ Sound(disk, k) /\ Whole(disk, k)
          /\ pc # "failed" /\ chain \in Seq(Ino)
          /\ pc = "plan" => at <= Len(chain) /\ Turn(k)
          /\ pc \in {"early", "late"} => \E m \in {k, k + 1} : m <= L + 1 /\ Staged(k, m)
    BY <1>5, Zenon DEF IInv, Recovering
  <2>2. \A m : Turn(m)' <=> Turn(m)
    BY <1>1, <1>2 DEF Turn
  <2>3. disk'.head = HeadAt(k) /\ Sound(disk', k) /\ Whole(disk', k) /\ chain' \in Seq(Ino)
    BY <1>1, <2>1
  <2>4. pc' = "plan" => at' <= Len(chain') /\ Turn(k)'
    BY <1>1, <2>1, <2>2
  <2>5. pc' \in {"early", "late"} =>
           \E m \in {k, k + 1} :
             /\ m <= L + 1
             /\ new'.head = HeadAt(m) /\ Sound(new', k) /\ Finished(new', m) /\ Whole(new', m)
             /\ at' <= Len(chain') => Turn(m)'
    BY <1>1, <2>1, <2>2 DEF Staged
  <2> QED
    BY <1>1, <1>3, <1>5, <2>1, <2>3, <2>4, <2>5, Close
<1> QED
  BY <1>4, <1>5

\* Every step of recovery, of a cut and of a mount preserves the invariant.
LEMMA StepInv == IInv /\ [Next]_vars => IInv'
<1> SUFFICES ASSUME IInv, [Next]_vars PROVE IInv'
  OBVIOUS
<1>1. CASE Next
  <2>1. CASE Mount
    BY <2>1, StepMount
  <2>2. CASE Plan
    BY <2>2, StepPlan
  <2>3. CASE CommitJournaled \/ CommitEarly \/ CommitLate
    BY <2>3, StepCommit
  <2>4. CASE Cut
    BY <2>4, StepCut
  <2>5. CASE Failed
    BY <2>5, Same DEF Failed
  <2> QED
    BY <1>1, <2>1, <2>2, <2>3, <2>4, <2>5 DEF Next, Recovery
<1>2. CASE UNCHANGED vars
  BY <1>2, Same
<1> QED
  BY <1>1, <1>2

\* recover_orphans, cut anywhere and as often as it may be, on a volume of any
\* size, with any chain, any layout of the inode table and any set of members
\* that cannot be read, strands no member that still has work to do.
THEOREM Stranding == Spec => []NothingStranded
BY InvInit, StepInv, InvImplies, PTL DEF Spec

\* Nor does it free the inode, or take the links, of a file that has a name.
THEOREM NamedFiles == Spec => []NamedFileKept
BY InvInit, StepInv, InvImplies, PTL DEF Spec

\* With a journal a member that left the chain left no block behind, and each
\* free-inode count is the number of members deleted, retried or not (#79).
THEOREM Reclaiming == Spec => []ReclaimedOnce
BY InvInit, StepInv, InvImplies, PTL DEF Spec
=============================================================================
