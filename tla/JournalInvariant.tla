-------------------------- MODULE JournalInvariant --------------------------
(***************************************************************************)
(* Proofs about Journal for every number of blocks, every transaction,     *)
(* every ring size, descriptor capacity and number of faults.  Here: the   *)
(* layout of the log, type correctness, the inductive invariant, that it   *)
(* holds initially, and the lemmas its preservation rests on: what a flush *)
(* and a home write keep, and that the walk takes the transaction          *)
(* descriptor by descriptor.                                               *)
(***************************************************************************)
EXTENDS Journal, Integers, TLAPS

-----------------------------------------------------------------------------
(* Arithmetic of the log layout. *)

\* Quotient and remainder, in the form the provers use.
LEMMA DivMod ==
  ASSUME NEW d \in Nat \ {0}, NEW x \in Nat
  PROVE  /\ x \div d \in Nat
         /\ x % d \in 0 .. d - 1
         /\ x = d * (x \div d) + (x % d)
  OBVIOUS

\* Multiplication by a positive number is strictly monotone, with its gap.
LEMMA MulGap ==
  ASSUME NEW d \in Nat \ {0}, NEW a \in Nat, NEW b \in Nat, a < b
  PROVE  d * a + d <= d * b
<1>1. b - a - 1 \in Nat
  OBVIOUS
<1>2. PICK k \in Nat : b = a + 1 + k
  BY <1>1
<1>3. d * b = d * a + d + d * k
  BY <1>2
<1>4. d * k >= 0
  OBVIOUS
<1> QED
  BY <1>3, <1>4

\* Quotient and remainder are unique.
LEMMA DivUnique ==
  ASSUME NEW d \in Nat \ {0}, NEW q \in Nat, NEW r \in 0 .. d - 1
  PROVE  (d * q + r) \div d = q /\ (d * q + r) % d = r
<1> DEFINE x == d * q + r
           qq == x \div d
           rr == x % d
<1>0. x \in Nat
  OBVIOUS
<1>1. qq \in Nat /\ rr \in 0 .. d - 1 /\ x = d * qq + rr
  BY <1>0, DivMod
<1> HIDE DEF qq, rr
<1>2. CASE qq < q
  BY <1>1, <1>2, MulGap
<1>3. CASE q < qq
  BY <1>1, <1>3, MulGap
<1>4. CASE q = qq
  BY <1>1, <1>4 DEF qq, rr
<1> QED
  BY <1>1, <1>2, <1>3, <1>4

\* Chunks is the quotient rounded up.
LEMMA ChunksBounds ==
  ASSUME NEW n \in Nat
  PROVE  /\ Chunks(n) \in Nat
         /\ n <= TagsPerDesc * Chunks(n)
         /\ TagsPerDesc * Chunks(n) < n + TagsPerDesc
<1>1. TagsPerDesc \in Nat \ {0}
  BY JournalAssumption
<1> DEFINE x == n + TagsPerDesc - 1
           q == x \div TagsPerDesc
<1>2. x \in Nat
  BY <1>1
<1> HIDE DEF x
<1>3. q \in Nat /\ x % TagsPerDesc \in 0 .. TagsPerDesc - 1 /\ x = TagsPerDesc * q + (x % TagsPerDesc)
  BY <1>1, <1>2, DivMod
<1>4. Chunks(n) = q
  BY DEF Chunks, x
<1> HIDE DEF q
<1> QED
  BY <1>1, <1>2, <1>3, <1>4 DEF x

\* A descriptor index below Chunks(n) has at least one write left to describe.
LEMMA ChunkNonempty ==
  ASSUME NEW n \in Nat, NEW c \in Nat, c < Chunks(n)
  PROVE  TagsPerDesc * c < n
<1>1. TagsPerDesc \in Nat \ {0}
  BY JournalAssumption
<1>2. TagsPerDesc * c + TagsPerDesc <= TagsPerDesc * Chunks(n)
  BY <1>1, MulGap, ChunksBounds
<1>3. TagsPerDesc * c \in Nat /\ TagsPerDesc * Chunks(n) \in Nat
  BY <1>1, ChunksBounds
<1> QED
  BY <1>1, <1>2, <1>3, ChunksBounds

\* Below the commit block, every position of the layout is a descriptor with
\* writes left or the data block of a write.
LEMMA PositionInRange ==
  ASSUME NEW n \in Nat, NEW p \in 1 .. n + Chunks(n),
         NEW c, c = (p - 1) \div (TagsPerDesc + 1),
         NEW r, r = (p - 1) % (TagsPerDesc + 1)
  PROVE  /\ c \in Nat /\ r \in 0 .. TagsPerDesc
         /\ p = TagsPerDesc * c + c + r + 1
         /\ c < Chunks(n)
         /\ TagsPerDesc * c < n
         /\ r # 0 => TagsPerDesc * c + r \in 1 .. n
<1> DEFINE T == TagsPerDesc
           Ch == Chunks(n)
<1>1. T \in Nat \ {0} /\ T + 1 \in Nat \ {0} /\ Ch \in Nat /\ p - 1 \in Nat
  BY JournalAssumption, ChunksBounds
<1>2. c \in Nat /\ r \in 0 .. T /\ p - 1 = (T + 1) * c + r
  <2> DEFINE x == p - 1
             d == T + 1
  <2> HIDE DEF x, d
  <2>1. x \in Nat /\ d \in Nat \ {0} /\ c = x \div d /\ r = x % d
    BY <1>1 DEF x, d
  <2>2. c \in Nat /\ r \in 0 .. d - 1 /\ x = d * c + r
    BY <2>1, DivMod
  <2> QED
    BY <1>1, <2>1, <2>2 DEF x, d
<1>3. T * c \in Nat /\ (T + 1) * c = T * c + c
  BY <1>1, <1>2
<1>4. n <= T * Ch /\ T * Ch < n + T /\ T * Ch \in Nat
  BY <1>1, ChunksBounds
<1>5. c < Ch
  <2> SUFFICES ASSUME Ch <= c PROVE FALSE
    BY <1>1, <1>2
  <2> HIDE DEF T, Ch
  <2>1. T * Ch <= T * c
    <3>1. CASE Ch = c
      BY <3>1, <1>3
    <3>2. CASE Ch < c
      <4>1. T * Ch + T <= T * c
        BY <3>2, <1>1, <1>2, MulGap
      <4> QED
        BY <4>1, <1>1, <1>3, <1>4
    <3> QED
      BY <3>1, <3>2, <1>1, <1>2
  <2>2. p - 1 >= n + Ch
    BY <2>1, <1>1, <1>2, <1>3, <1>4
  <2> QED
    BY <2>2, <1>1 DEF Ch
<1>6. T * c + T <= T * Ch
  BY <1>1, <1>2, <1>5, MulGap
<1>7. T * c < n
  BY <1>1, <1>3, <1>4, <1>6
<1>8. ASSUME r # 0 PROVE T * c + r <= n
  <2>1. CASE c + 1 = Ch
    <3> HIDE DEF T
    <3> QED BY <2>1, <1>1, <1>2, <1>3
  <2>2. CASE c + 1 < Ch
    <3> HIDE DEF T, Ch
    <3>1. c + 1 \in Nat
      BY <1>2
    <3>2. T * (c + 1) + T <= T * Ch
      BY <1>1, <3>1, <2>2, MulGap
    <3>3. T * (c + 1) = T * c + T
      BY <1>1, <1>2
    <3> QED BY <3>2, <3>3, <1>1, <1>2, <1>3, <1>4
  <2> QED BY <2>1, <2>2, <1>1, <1>2, <1>5
<1> HIDE DEF T, Ch
<1>9. p = T * c + c + r + 1
  BY <1>1, <1>2, <1>3
<1> QED
  BY <1>1, <1>2, <1>3, <1>5, <1>7, <1>8, <1>9 DEF T, Ch

-----------------------------------------------------------------------------
(* Sequences, in the form the provers use. *)

\* An element of a sequence over S is in S.
LEMMA ElementType ==
  ASSUME NEW S, NEW w \in Seq(S), NEW k \in 1 .. Len(w)
  PROVE  w[k] \in S
  OBVIOUS

\* A function on 1..m with values in S is a sequence over S of length m.
LEMMA FunctionIsSeq ==
  ASSUME NEW S, NEW m \in Nat, NEW f, f = [k \in 1..m |-> f[k]],
         \A k \in 1..m : f[k] \in S
  PROVE  f \in Seq(S) /\ Len(f) = m
<1>1. f \in [1..m -> S]
  OBVIOUS
<1>2. f \in Seq(S)
  BY <1>1
<1> QED
  BY <1>1, <1>2

-----------------------------------------------------------------------------
(* What Transaction::serialize puts where. *)

\* The journal block of the k-th write of a transaction.
SlotOf(k) == k + 1 + ((k - 1) \div TagsPerDesc)

\* A block of the serialisation: the body of Serialize at position p.
LEMMA SerializeAt ==
  ASSUME NEW s \in Nat, NEW w \in Seq(Write),
         NEW p \in 1 .. Len(w) + Chunks(Len(w)) + 1
  PROVE  Serialize(s, w)[p] =
           LET n == Len(w)
               T == TagsPerDesc
               c == (p - 1) \div (T + 1)
               r == (p - 1) % (T + 1)
           IN  IF p = n + Chunks(n) + 1 THEN Commit(s)
               ELSE IF r = 0 THEN Descriptor(s, ChunkTags(w, c))
               ELSE Data(w[T * c + r].val)
  BY DEF Serialize

\* Its commit block is its last.
LEMMA SerializeCommit ==
  ASSUME NEW s \in Nat, NEW w \in Seq(Write)
  PROVE  Serialize(s, w)[Len(w) + Chunks(Len(w)) + 1] = Commit(s)
<1>1. Len(w) \in Nat /\ Chunks(Len(w)) \in Nat
  BY ChunksBounds
<1>2. Len(w) + Chunks(Len(w)) + 1 \in 1 .. Len(w) + Chunks(Len(w)) + 1
  BY <1>1
<1> QED
  BY <1>2, SerializeAt

\* Its c-th descriptor names the writes of the c-th chunk.
LEMMA SerializeDescriptor ==
  ASSUME NEW s \in Nat, NEW w \in Seq(Write), NEW c \in Nat, c < Chunks(Len(w))
  PROVE  /\ TagsPerDesc * c + c + 1 \in 1 .. Len(w) + Chunks(Len(w))
         /\ Serialize(s, w)[TagsPerDesc * c + c + 1] = Descriptor(s, ChunkTags(w, c))
<1> DEFINE n == Len(w)
           T == TagsPerDesc
           p == T * c + c + 1
<1>0. n \in Nat /\ T \in Nat \ {0}
  BY JournalAssumption
<1>1. n \in Nat /\ Chunks(n) \in Nat /\ T \in Nat \ {0} /\ T + 1 \in Nat \ {0}
  BY <1>0, ChunksBounds
<1>2. T * c \in Nat /\ T * c < n
  BY <1>1, ChunkNonempty
<1>3. p \in 1 .. n + Chunks(n)
  <2> HIDE DEF n, T
  <2> QED BY <1>1, <1>2 DEF n
<1>4. p - 1 = (T + 1) * c + 0 /\ 0 \in 0 .. (T + 1) - 1
  BY <1>1
<1>5. (p - 1) \div (T + 1) = c /\ (p - 1) % (T + 1) = 0
  <2> HIDE DEF p, T
  <2> QED BY <1>1, <1>4, DivUnique
<1>6. p # n + Chunks(n) + 1 /\ p \in 1 .. n + Chunks(n) + 1
  <2> HIDE DEF p, n
  <2> QED BY <1>1, <1>3
<1>7. Serialize(s, w)[p] = Descriptor(s, ChunkTags(w, c))
  <2> HIDE DEF p
  <2> QED BY <1>5, <1>6, SerializeAt
<1> QED
  BY <1>3, <1>7

\* The k-th write's data block is at SlotOf(k).
LEMMA SerializeData ==
  ASSUME NEW s \in Nat, NEW w \in Seq(Write), NEW k \in 1 .. Len(w)
  PROVE  /\ SlotOf(k) \in 1 .. Len(w) + Chunks(Len(w))
         /\ Serialize(s, w)[SlotOf(k)] = Data(w[k].val)
<1> DEFINE n == Len(w)
           T == TagsPerDesc
           c == (k - 1) \div T
           r == ((k - 1) % T) + 1
           p == SlotOf(k)
<1>0. n \in Nat /\ T \in Nat \ {0}
  BY JournalAssumption
<1>1. n \in Nat /\ Chunks(n) \in Nat /\ T \in Nat \ {0} /\ T + 1 \in Nat \ {0} /\ k - 1 \in Nat
  BY <1>0, ChunksBounds
<1>2. c \in Nat /\ r \in 1 .. T /\ k = T * c + r /\ T * c \in Nat
  <2> DEFINE x == k - 1
  <2> HIDE DEF x, T
  <2>1. x \div T \in Nat /\ x % T \in 0 .. T - 1 /\ x = T * (x \div T) + (x % T)
    BY <1>1, DivMod DEF x
  <2>2. \A u, v \in Nat : u * v \in Nat
    OBVIOUS
  <2> QED
    BY <2>1, <2>2, <1>1 DEF x
<1>3. p = T * c + c + r + 1
  <2>1. p = k + 1 + c
    BY DEF SlotOf
  <2> HIDE DEF p, c, r, T
  <2> QED BY <2>1, <1>2
<1>4. p - 1 = (T + 1) * c + r /\ r \in 0 .. (T + 1) - 1
  <2>1. (T + 1) * c = T * c + c
    BY <1>1, <1>2
  <2> HIDE DEF p, c, r, T
  <2> QED BY <2>1, <1>1, <1>2, <1>3
<1>5. (p - 1) \div (T + 1) = c /\ (p - 1) % (T + 1) = r
  <2> HIDE DEF p, c, r, T
  <2> QED BY <1>1, <1>2, <1>4, DivUnique
<1>6. c < Chunks(n)
  <2> SUFFICES ASSUME Chunks(n) <= c PROVE FALSE
    BY <1>1, <1>2
  <2>1. T * Chunks(n) <= T * c
    <3> HIDE DEF c, r, T, n
    <3>1. CASE Chunks(n) = c
      BY <3>1, <1>2
    <3>2. CASE Chunks(n) < c
      <4>1. T * Chunks(n) + T <= T * c
        BY <3>2, <1>1, <1>2, MulGap
      <4>2. T * Chunks(n) \in Nat
        BY <1>1
      <4> QED
        BY <4>1, <4>2, <1>1, <1>2
    <3> QED
      BY <3>1, <3>2, <1>1, <1>2
  <2>2. n <= T * Chunks(n)
    BY <1>1, ChunksBounds
  <2>3. k <= n
    OBVIOUS
  <2>4. T * Chunks(n) \in Nat
    BY <1>1
  <2> HIDE DEF c, r, T, n
  <2> QED
    BY <2>1, <2>2, <2>3, <2>4, <1>1, <1>2
<1>7. p \in 1 .. n + Chunks(n)
  <2>1. p = k + 1 + c /\ k \in 1 .. n
    BY DEF SlotOf
  <2> HIDE DEF p, c, n
  <2> QED BY <2>1, <1>1, <1>2, <1>6
<1>8. p # n + Chunks(n) + 1 /\ p \in 1 .. n + Chunks(n) + 1
  <2> HIDE DEF p, n
  <2> QED BY <1>1, <1>7
<1>9. r # 0
  <2> HIDE DEF c, r, T
  <2> QED BY <1>2
<1>10. Serialize(s, w)[p] = Data(w[T * c + r].val)
  <2> HIDE DEF p, c, r
  <2> QED BY <1>5, <1>8, <1>9, SerializeAt
<1>11. T * c + r = k
  <2> HIDE DEF c, r, T
  <2> QED BY <1>2
<1> QED
  <2> HIDE DEF c, r
  <2> QED BY <1>7, <1>10, <1>11

\* The tags of a chunk with writes left.
LEMMA ChunkTagsType ==
  ASSUME NEW w \in Seq(Write), NEW c \in Nat, TagsPerDesc * c < Len(w),
         NEW m, m = IF Len(w) - TagsPerDesc * c < TagsPerDesc
                    THEN Len(w) - TagsPerDesc * c ELSE TagsPerDesc
  PROVE  /\ m \in 1 .. TagsPerDesc
         /\ TagsPerDesc * c + m <= Len(w)
         /\ ChunkTags(w, c) \in Seq(Block)
         /\ Len(ChunkTags(w, c)) = m
         /\ \A k \in 1..m : ChunkTags(w, c)[k] = w[TagsPerDesc * c + k].blk
<1> DEFINE x == TagsPerDesc * c
<1>1. TagsPerDesc \in Nat \ {0} /\ x \in Nat /\ Len(w) \in Nat
  BY JournalAssumption
<1>2. ChunkTags(w, c) = [k \in 1..m |-> w[x + k].blk]
  BY DEF ChunkTags
<1> HIDE DEF x
<1>3. x < Len(w) /\ m = IF Len(w) - x < TagsPerDesc THEN Len(w) - x ELSE TagsPerDesc
  BY DEF x
<1>4. m \in 1 .. TagsPerDesc /\ x + m <= Len(w)
  BY <1>1, <1>3
<1>5. \A k \in 1..m : x + k \in 1 .. Len(w)
  BY <1>1, <1>4
<1>6. \A k \in 1..m : w[x + k].blk \in Block
  <2> TAKE k \in 1..m
  <2>1. w[x + k] \in Write
    BY <1>5, ElementType
  <2> QED
    BY <2>1 DEF Write
<1> DEFINE f == ChunkTags(w, c)
<1>7. \A k \in 1..m : f[k] = w[x + k].blk
  BY <1>2
<1>7a. f = [k \in 1..m |-> f[k]]
  BY <1>2
<1> HIDE DEF f
<1>8. m \in Nat
  BY <1>1, <1>4
<1>9. \A k \in 1..m : f[k] \in Block
  BY <1>6, <1>7
<1>10. f \in Seq(Block) /\ Len(f) = m
  BY ONLY <1>7a, <1>8, <1>9, FunctionIsSeq
<1> QED
  BY <1>4, <1>7, <1>10 DEF x, f

\* A serialisation is a sequence of journal blocks, none with a sequence number
\* above the transaction's.
LEMMA SerializeType ==
  ASSUME NEW s \in Nat, NEW w \in Seq(Write)
  PROVE  /\ Serialize(s, w) \in Seq(Entry)
         /\ Len(Serialize(s, w)) = Len(w) + Chunks(Len(w)) + 1
         /\ \A p \in 1 .. Len(Serialize(s, w)) : Serialize(s, w)[p].seq <= s
<1> DEFINE n == Len(w)
           S == Serialize(s, w)
           N == n + Chunks(n) + 1
<1>0. n \in Nat
  OBVIOUS
<1>1. n \in Nat /\ Chunks(n) \in Nat /\ N \in Nat
  BY <1>0, ChunksBounds
<1>2. NoContent \in Content
  BY JournalAssumption DEF NoContent, Content
<1>3. ASSUME NEW p \in 1 .. N
      PROVE  S[p] \in Entry /\ S[p].seq <= s
  <2> DEFINE c == (p - 1) \div (TagsPerDesc + 1)
             r == (p - 1) % (TagsPerDesc + 1)
  <2>1. CASE p = N
    <3>1. S[p] = Commit(s)
      BY <2>1, SerializeCommit
    <3>2. Commit(s) \in Entry /\ Commit(s).seq = s
      BY <1>2 DEF Commit, Entry
    <3> HIDE DEF S
    <3> QED
      BY <3>1, <3>2
  <2>2. CASE p # N
    <3>1. p \in 1 .. n + Chunks(n)
      BY <2>2, <1>1
    <3>2. /\ c \in Nat /\ r \in 0 .. TagsPerDesc
          /\ TagsPerDesc * c < n
          /\ r # 0 => TagsPerDesc * c + r \in 1 .. n
      BY <3>1, <1>1, PositionInRange
    <3>3. S[p] = IF r = 0 THEN Descriptor(s, ChunkTags(w, c)) ELSE Data(w[TagsPerDesc * c + r].val)
      BY <2>2, SerializeAt
    <3> HIDE DEF S, c, r
    <3>4. ChunkTags(w, c) \in Seq(Block)
      BY <3>2, ChunkTagsType
    <3>5. r # 0 => w[TagsPerDesc * c + r].val \in Content
      <4> HAVE r # 0
      <4>1. w[TagsPerDesc * c + r] \in Write
        BY <3>2, ElementType
      <4> QED
        BY <4>1 DEF Write
    <3>6. Descriptor(s, ChunkTags(w, c)) \in Entry /\ Descriptor(s, ChunkTags(w, c)).seq = s
      BY <3>4, <1>2 DEF Descriptor, Entry
    <3>7. ASSUME NEW v \in Content PROVE Data(v) \in Entry /\ Data(v).seq = 0
      BY DEF Data, Entry
    <3> QED
      BY <3>3, <3>5, <3>6, <3>7
  <2> QED
    BY <2>1, <2>2
<1>4. S = [p \in 1..N |-> S[p]]
  BY DEF Serialize
<1> HIDE DEF S
<1>5. S \in Seq(Entry) /\ Len(S) = N
  <2> HIDE DEF N
  <2> QED BY <1>1, <1>3, <1>4, FunctionIsSeq
<1> QED
  BY <1>3, <1>5 DEF S

\* The length of a serialisation does not depend on what the writes hold.
LEMMA SerializeLen ==
  ASSUME NEW s, NEW w, Len(w) \in Nat
  PROVE  Len(Serialize(s, w)) = Len(w) + Chunks(Len(w)) + 1
<1>1. Len(w) + Chunks(Len(w)) + 1 \in Nat
  BY ChunksBounds
<1> QED
  BY <1>1 DEF Serialize

-----------------------------------------------------------------------------
(* The device operations. *)

\* A write to a home block changes that block of the visible image.
LEMMA WriteHomeImage ==
  ASSUME vol \in Image, NEW b \in Block, NEW v \in Content, WriteHome(b, v)
  PROVE  /\ vol' \in Image
         /\ vol'.home = [vol.home EXCEPT ![b] = v]
         /\ vol'.log = vol.log
         /\ vol'.jsb = vol.jsb
  BY DEF Image, WriteHome

\* A write to a journal block changes that block of the visible image.
LEMMA WriteLogImage ==
  ASSUME vol \in Image, NEW p \in Slot, NEW e \in Entry, WriteLog(p, e)
  PROVE  /\ vol' \in Image
         /\ vol'.home = vol.home
         /\ vol'.log = [vol.log EXCEPT ![p] = e]
         /\ vol'.jsb = vol.jsb
  BY DEF Image, WriteLog

\* A write of the journal superblock changes nothing else.
LEMMA WriteJsbImage ==
  ASSUME vol \in Image, NEW j \in Jsb, WriteJsb(j)
  PROVE  /\ vol' \in Image
         /\ vol'.home = vol.home
         /\ vol'.log = vol.log
         /\ vol'.jsb = j
  BY DEF Image, WriteJsb

\* Rewriting the RECOVER flag changes no block's data.
LEMMA WriteRecoverImage ==
  ASSUME vol \in Image, NEW on \in BOOLEAN, WriteRecover(on)
  PROVE  /\ vol' \in Image
         /\ vol'.log = vol.log
         /\ vol'.jsb = vol.jsb
         /\ vol'.home[SB].rec = on
         /\ \A b \in Block : vol'.home[b].data = vol.home[b].data
<1>1. SB \in Block
  BY JournalAssumption
<1> DEFINE x == [vol.home[SB] EXCEPT !.rec = on]
<1>2. x \in Content /\ x.rec = on /\ x.data = vol.home[SB].data
  BY <1>1 DEF Image, Content
<1>3. WriteHome(SB, x)
  BY <1>1 DEF WriteRecover, WriteHome, Image
<1> HIDE DEF x
<1>4. vol' \in Image /\ vol'.home = [vol.home EXCEPT ![SB] = x] /\ vol'.log = vol.log /\ vol'.jsb = vol.jsb
  BY <1>1, <1>2, <1>3, WriteHomeImage
<1> QED
  BY <1>1, <1>2, <1>4 DEF Image

\* Writing a home block back changes that block of the durable image.
LEMMA WritebackHomeImage ==
  ASSUME disk \in Image, vol \in Image, NEW b \in Block, WritebackHome(b)
  PROVE  /\ disk' \in Image
         /\ disk'.home = [disk.home EXCEPT ![b] = vol.home[b]]
         /\ disk'.log = disk.log
         /\ disk'.jsb = disk.jsb
  BY DEF Image, WritebackHome

\* Writing a journal block back changes that block of the durable image.
LEMMA WritebackLogImage ==
  ASSUME disk \in Image, vol \in Image, NEW p \in Slot, WritebackLog(p)
  PROVE  /\ disk' \in Image
         /\ disk'.home = disk.home
         /\ disk'.log = [disk.log EXCEPT ![p] = vol.log[p]]
         /\ disk'.jsb = disk.jsb
  BY DEF Image, WritebackLog

\* Writing the journal superblock back changes nothing else.
LEMMA WritebackJsbImage ==
  ASSUME disk \in Image, vol \in Image, WritebackJsb
  PROVE  /\ disk' \in Image
         /\ disk'.home = disk.home
         /\ disk'.log = disk.log
         /\ disk'.jsb = vol.jsb
  BY DEF Image, WritebackJsb

\* A staged and patched buffer is a transaction with the caller's payload.
LEMMA StagedTransaction ==
  ASSUME vol \in Image, NEW w \in Txs, NEW t, t = PatchRecover(Staged(w))
  PROVE  /\ t \in Seq(Write)
         /\ Len(t) = Len(w) /\ Len(t) > 0
         /\ Payload(t) = w
         /\ \A k \in 1 .. Len(t) : t[k].blk = w[k].blk /\ (t[k].blk = SB => t[k].val.rec)
         /\ \A j, k \in 1 .. Len(t) : j # k => t[j].blk # t[k].blk
<1>0. w \in Seq([blk : Block, val : Val]) /\ Len(w) > 0
  BY TxsAssumption, Zenon
<1>1. w \in Seq([blk : Block, val : Val]) /\ Len(w) \in Nat /\ Len(w) > 0 /\ SB \in Block
  BY <1>0, JournalAssumption
<1>2. \A k \in 1 .. Len(w) : w[k] \in [blk : Block, val : Val]
  BY <1>1, ElementType
<1> DEFINE n == Len(w)
           g == Staged(w)
<1>3. /\ g = [k \in 1..n |-> g[k]]
      /\ \A k \in 1..n : /\ g[k].blk = w[k].blk /\ g[k].val.data = w[k].val
                         /\ g[k] \in Write
  BY <1>1, <1>2 DEF Staged, Write, Content, Image
<1> HIDE DEF g
<1>4. g \in Seq(Write) /\ Len(g) = n
  BY <1>1, <1>3, FunctionIsSeq
<1>5. t = [k \in 1..n |-> [blk |-> g[k].blk,
                           val |-> [data |-> g[k].val.data, rec |-> g[k].blk = SB \/ g[k].val.rec]]]
  BY <1>4 DEF PatchRecover, g
<1>6. ASSUME NEW k \in 1..n
      PROVE  /\ t[k] \in Write /\ t[k].blk = w[k].blk /\ t[k].val.data = w[k].val
             /\ t[k].blk = SB => t[k].val.rec
  <2>1. g[k].blk \in Block /\ g[k].val.data \in Val /\ g[k].val.rec \in BOOLEAN
    BY <1>3 DEF Write, Content
  <2>2. t[k] = [blk |-> g[k].blk,
                val |-> [data |-> g[k].val.data, rec |-> g[k].blk = SB \/ g[k].val.rec]]
    BY <1>5
  <2>3. t[k] \in Write /\ t[k].blk = g[k].blk /\ t[k].val.data = g[k].val.data
    BY <2>1, <2>2 DEF Write, Content
  <2>4. t[k].blk = SB => t[k].val.rec
    <3> DEFINE x == g[k].blk = SB \/ g[k].val.rec
    <3>1. g[k].blk = SB => x = TRUE
      OBVIOUS
    <3>2. t[k] = [blk |-> g[k].blk, val |-> [data |-> g[k].val.data, rec |-> x]]
      BY <2>2
    <3> HIDE DEF x
    <3>3. t[k].val.rec = x
      BY <3>2
    <3> QED
      BY <3>1, <3>3, <2>3
  <2> QED
    BY <1>3, <2>3, <2>4
<1>6a. t = [k \in 1..n |-> t[k]]
  BY <1>5
<1>7. t \in Seq(Write) /\ Len(t) = n
  BY <1>1, <1>6, <1>6a, FunctionIsSeq
<1>8. Payload(t) = w
  <2>1. Payload(t) = [k \in 1..n |-> [blk |-> t[k].blk, val |-> t[k].val.data]]
    BY <1>7 DEF Payload
  <2>2. \A k \in 1..n : [blk |-> t[k].blk, val |-> t[k].val.data] = w[k]
    BY <1>2, <1>6
  <2>3. w = [k \in 1..n |-> w[k]]
    BY <1>1
  <2> QED
    BY <2>1, <2>2, <2>3
<1>9. \A j, k \in 1..n : j # k => w[j].blk # w[k].blk
  <2> SUFFICES ASSUME NEW j \in 1..n, NEW k \in 1..n, j # k PROVE w[j].blk # w[k].blk
    OBVIOUS
  <2>1. w[j].blk \in Nat /\ w[k].blk \in Nat
    BY <1>2, JournalAssumption
  <2>2. j < k \/ k < j
    BY <1>1
  <2>3. (j < k => w[j].blk < w[k].blk) /\ (k < j => w[k].blk < w[j].blk)
    BY TxsAssumption
  <2> QED
    BY <2>1, <2>2, <2>3
<1> QED
  BY <1>1, <1>6, <1>7, <1>8, <1>9

-----------------------------------------------------------------------------
(* Type correctness. *)

\* The loop indices stay inside what they index: the write loops of the commit
\* and of the replay never run past their sequences, nor the log past the ring.
IndexOK ==
  /\ pc = "log" => i <= Len(blocks) /\ Len(blocks) <= MaxLen - 1
  /\ pc \in {"log", "recover", "fence1", "dirty", "fence2"} => Len(tx) > 0
  /\ pc = "home" => i <= Len(tx)
  /\ pc = "apply" => i <= Len(rp.writes)

TypeInv == TypeOK /\ IndexOK

\* A cursor advanced around the ring is a log block.
LEMMA AdvanceType ==
  ASSUME NEW cur \in Slot, NEW n \in Nat
  PROVE  Advance(cur, n) \in Slot
<1> DEFINE d == MaxLen - 1
           x == cur - 1 + n
<1>1. d \in Nat \ {0} /\ x \in Nat /\ Slot = 1..d
  BY JournalAssumption DEF Slot
<1> HIDE DEF d, x
<1>2. x % d \in 0 .. d - 1
  BY <1>1, DivMod
<1>3. Advance(cur, n) = 1 + (x % d)
  BY DEF Advance, d, x
<1> QED
  BY <1>1, <1>2, <1>3

\* The initial state is well typed.
LEMMA TypeInit == Init => TypeInv
<1> SUFFICES ASSUME Init PROVE TypeInv
  OBVIOUS
<1>1. NoContent \in Content
  BY JournalAssumption DEF NoContent, Content
<1>2. Blank \in Entry
  BY <1>1 DEF Blank, Data, Entry
<1>3. disk \in Image
  <2>1. PICK s \in Starts :
          disk = [home |-> [b \in Block |-> [data |-> s[b], rec |-> FALSE]],
                  jsb  |-> [start |-> 0, seq |-> 1],
                  log  |-> [p \in Slot |-> Blank]]
    BY DEF Init
  <2>2. [start |-> 0, seq |-> 1] \in Jsb
    BY DEF Jsb
  <2>3. \A b \in Block : [data |-> s[b], rec |-> FALSE] \in Content
    BY JournalAssumption DEF Content
  <2> QED
    BY <2>1, <2>2, <2>3, <1>2 DEF Image
<1>4. rp \in Plan
  <2>1. 1 \in Slot /\ 0 \in 0 .. Limit
    BY JournalAssumption DEF Slot, Limit
  <2> QED
    BY <2>1 DEF Init, NoPlan, Plan
<1>5. jw \in Jsb
  BY DEF Init, Jsb
<1>6. tx \in Seq(Write) /\ blocks \in Seq(Entry)
  BY DEF Init
<1>7. faults \in 0 .. MaxFaults /\ i \in Nat \ {0}
  BY JournalAssumption DEF Init
<1>8. IndexOK
  BY DEF Init, IndexOK
<1>9. TypeOK
  BY <1>3, <1>4, <1>5, <1>6, <1>7 DEF Init, TypeOK
<1> QED
  BY <1>8, <1>9 DEF TypeInv

\* Every step preserves type correctness.
LEMMA TypeStep == TypeInv /\ [Next]_vars => TypeInv'
<1> SUFFICES ASSUME TypeInv, [Next]_vars PROVE TypeInv'
  OBVIOUS
<1> USE DEF TypeInv
<1>0. SB \in Block /\ MaxLen \in Nat /\ MaxLen > 1 /\ MaxFaults \in Nat
  BY JournalAssumption
<1>1. CASE MarkNotClean
  BY <1>1 DEF TypeOK, IndexOK, Committing, Mounting, MarkNotClean, Flush
<1>2. CASE \E w \in Txs : Begin(w)
  <2>1. PICK w \in Txs : Begin(w)
    BY <1>2
  <2>2. /\ tx' \in Seq(Write) /\ Len(tx') > 0 /\ Len(tx') = Len(w)
        /\ tx' = PatchRecover(Staged(w)) /\ blocks' = Serialize(jw.seq, tx')
        /\ Len(Serialize(jw.seq, w)) <= MaxLen - 1
    BY <2>1, StagedTransaction DEF TypeOK, Begin
  <2>3. jw.seq \in Nat
    BY DEF TypeOK, Jsb
  <2>4. Len(tx') \in Nat /\ Len(w) \in Nat /\ Chunks(Len(w)) \in Nat
    BY <2>2, ChunksBounds
  <2>5. Len(blocks') = Len(Serialize(jw.seq, w)) /\ blocks' \in Seq(Entry) /\ 1 <= Len(blocks')
    BY <2>2, <2>3, <2>4, SerializeLen, SerializeType
  <2>6. pc' = "log" /\ i' = 1 /\ outcome' = "busy" /\ healthy' = FALSE
        /\ UNCHANGED <<disk, vol, hold, live, marked, jw, rp, faults>>
    BY <2>1 DEF Begin
  <2>7. IndexOK'
    BY <2>2, <2>5, <2>6 DEF IndexOK
  <2>8. tx' \in Seq(Write) /\ blocks' \in Seq(Entry)
    BY <2>2, <2>5
  <2>9. i' \in Nat \ {0} /\ pc' \in {"down", "up", "refused"} \cup Committing \cup Mounting
    BY <2>6 DEF Committing
  <2>10. TypeOK'
    BY <2>6, <2>8, <2>9 DEF TypeOK
  <2> QED
    BY <2>7, <2>10
<1>3. CASE LogBlock
  <2>1. i \in Slot /\ blocks[i] \in Entry
    BY <1>3, <1>0, ElementType DEF TypeOK, IndexOK, LogBlock, Slot
  <2>2. vol' \in Image
    BY <1>3, <2>1, WriteLogImage DEF TypeOK, LogBlock
  <2> QED
    BY <1>3, <2>2 DEF TypeOK, IndexOK, Committing, Mounting, LogBlock
<1>4. CASE SetRecover
  <2>1. vol' \in Image
    BY <1>4, WriteRecoverImage DEF TypeOK, SetRecover
  <2> QED
    BY <1>4, <2>1 DEF TypeOK, IndexOK, Committing, Mounting, SetRecover
<1>5. CASE Fence1
  BY <1>5 DEF TypeOK, IndexOK, Committing, Mounting, Fence1, Flush
<1>6. CASE MarkDirty
  <2>1. jw' \in Jsb
    BY <1>6 DEF TypeOK, MarkDirty, Jsb
  <2>2. vol' \in Image
    BY <1>6, <2>1, WriteJsbImage DEF TypeOK, MarkDirty
  <2> QED
    BY <1>6, <2>1, <2>2 DEF TypeOK, IndexOK, Committing, Mounting, MarkDirty
<1>7. CASE Fence2
  <2>1. 1 <= Len(tx)
    BY <1>7 DEF TypeOK, IndexOK, Fence2
  <2> QED
    BY <1>7, <2>1 DEF TypeOK, IndexOK, Committing, Mounting, Fence2, Flush
<1>8. CASE HomeBlock
  <2>1. tx[i] \in Write
    BY <1>8, ElementType DEF TypeOK, IndexOK, HomeBlock
  <2>2. vol' \in Image
    BY <1>8, <2>1, WriteHomeImage DEF TypeOK, HomeBlock, Write
  <2> QED
    BY <1>8, <2>2 DEF TypeOK, IndexOK, Committing, Mounting, HomeBlock
<1>9. CASE Fence3
  BY <1>9 DEF TypeOK, IndexOK, Committing, Mounting, Fence3, Flush
<1>10. CASE MarkClean
  <2>1. jw' \in Jsb
    BY <1>10 DEF TypeOK, MarkClean, Jsb
  <2>2. vol' \in Image
    BY <1>10, <2>1, WriteJsbImage DEF TypeOK, MarkClean
  <2> QED
    BY <1>10, <2>1, <2>2 DEF TypeOK, IndexOK, Committing, Mounting, MarkClean
<1>11. CASE ClearRecover
  <2>1. vol' \in Image
    BY <1>11, WriteRecoverImage DEF TypeOK, ClearRecover
  <2> QED
    BY <1>11, <2>1 DEF TypeOK, IndexOK, Committing, Mounting, ClearRecover
<1>12. CASE Fence4
  BY <1>12 DEF TypeOK, IndexOK, Committing, Mounting, Fence4, Flush
<1>13. CASE \E checked \in BOOLEAN : StartMount(checked)
  BY <1>13 DEF TypeOK, IndexOK, Committing, Mounting, StartMount
<1>14. CASE MarkBeforeReplay
  BY <1>14 DEF TypeOK, IndexOK, Committing, Mounting, MarkBeforeReplay, Flush
<1>15. CASE SetMarker("marker1", "markerfence1", "replay")
  <2>1. vol' \in Image
    BY <1>15, WriteRecoverImage DEF TypeOK, SetMarker
  <2> QED
    BY <1>15, <2>1 DEF TypeOK, IndexOK, Committing, Mounting, SetMarker
<1>16. CASE SetMarker("marker2", "markerfence2", "open")
  <2>1. vol' \in Image
    BY <1>16, WriteRecoverImage DEF TypeOK, SetMarker
  <2> QED
    BY <1>16, <2>1 DEF TypeOK, IndexOK, Committing, Mounting, SetMarker
<1>17. CASE MarkerFence("markerfence1", "replay")
  BY <1>17 DEF TypeOK, IndexOK, Committing, Mounting, MarkerFence, Flush
<1>18. CASE MarkerFence("markerfence2", "open")
  BY <1>18 DEF TypeOK, IndexOK, Committing, Mounting, MarkerFence, Flush
<1>19. CASE ReadJsb
  <2>1. vol.jsb.start # 0 => vol.jsb.start \in Slot
    BY <1>0 DEF TypeOK, Image, Jsb, Slot
  <2>2. vol.jsb.seq \in Nat /\ 0 \in 0 .. Limit
    BY <1>0 DEF TypeOK, Image, Jsb, Limit
  <2>3. rp' \in Plan
    <3>1. CASE vol.jsb.start # 0
      <4>1. rp' = [cur |-> vol.jsb.start, expect |-> vol.jsb.seq, walked |-> 0,
                   pending |-> <<>>, writes |-> <<>>]
        BY <1>19, <3>1 DEF ReadJsb, NoPlan
      <4>2. <<>> \in Seq(PlanEntry)
        OBVIOUS
      <4> QED
        BY <2>1, <2>2, <3>1, <4>1, <4>2 DEF Plan
    <3>2. CASE vol.jsb.start = 0
      BY <1>19, <3>2 DEF ReadJsb, TypeOK
    <3> QED
      BY <3>1, <3>2
  <2> QED
    BY <1>19, <2>3 DEF TypeOK, IndexOK, Committing, Mounting, ReadJsb, Replayed
<1>20. CASE WalkBlock
  <2> DEFINE e == vol.log[rp.cur]
             n == Len(e.tags)
             more == [j \in 1..n |-> [blk |-> e.tags[j], src |-> Advance(rp.cur, j)]]
  <2>1. /\ rp.cur \in Slot /\ rp.expect \in Nat /\ rp.walked \in 0 .. Limit
        /\ rp.pending \in Seq(PlanEntry) /\ rp.writes \in Seq(PlanEntry)
        /\ rp = [cur |-> rp.cur, expect |-> rp.expect, walked |-> rp.walked,
                 pending |-> rp.pending, writes |-> rp.writes]
    BY DEF TypeOK, Plan
  <2>2. e.tags \in Seq(Block) /\ n \in Nat
    BY <2>1 DEF TypeOK, Image, Entry
  <2>3. Limit \in Nat
    BY <1>0 DEF Limit
  <2>4. \A j \in Nat : Advance(rp.cur, j) \in Slot
    BY <2>1, AdvanceType
  <2>5. more \in Seq(PlanEntry)
    <3>1. \A j \in 1..n : more[j] \in PlanEntry
      BY <2>2, <2>4, ElementType DEF PlanEntry
    <3>2. more = [j \in 1..n |-> more[j]]
      OBVIOUS
    <3> HIDE DEF more, n
    <3> QED
      BY <2>2, <3>1, <3>2, FunctionIsSeq
  <2> HIDE DEF more
  <2>6. rp.pending \o more \in Seq(PlanEntry) /\ rp.writes \o rp.pending \in Seq(PlanEntry)
    BY <2>1, <2>5
  <2>7. CASE e.kind = "commit"
    <3>1. rp' = [cur |-> Advance(rp.cur, 1), expect |-> rp.expect + 1, walked |-> rp.walked + 1,
                 pending |-> <<>>, writes |-> rp.writes \o rp.pending]
          /\ rp.walked < Limit
      BY <1>20, <2>7 DEF WalkBlock
    <3>2. /\ rp.walked + 1 \in 0 .. Limit /\ rp.expect + 1 \in Nat
      BY <2>1, <2>3, <3>1
    <3>3. <<>> \in Seq(PlanEntry) /\ Advance(rp.cur, 1) \in Slot
      BY <2>4
    <3>4. rp' \in Plan
      BY <2>6, <3>1, <3>2, <3>3 DEF Plan
    <3> QED
      BY <1>20, <2>7, <3>4 DEF TypeOK, IndexOK, Committing, Mounting, WalkBlock
  <2>8. CASE e.kind # "commit" /\ rp.walked + 1 + n > Limit
    BY <1>20, <2>8 DEF TypeOK, IndexOK, Committing, Mounting, WalkBlock
  <2>9. CASE e.kind # "commit" /\ ~(rp.walked + 1 + n > Limit)
    <3>1. rp' = [rp EXCEPT !.cur = Advance(rp.cur, n + 1), !.walked = rp.walked + 1 + n,
                           !.pending = rp.pending \o more]
      BY <1>20, <2>9 DEF WalkBlock, more
    <3>2. rp' = [cur |-> Advance(rp.cur, n + 1), expect |-> rp.expect, walked |-> rp.walked + 1 + n,
                 pending |-> rp.pending \o more, writes |-> rp.writes]
      <4> HIDE DEF n
      <4> QED BY <2>1, <3>1
    <3>3. rp.walked + 1 + n \in 0 .. Limit /\ n + 1 \in Nat
      <4> HIDE DEF n
      <4>1. n \in Nat /\ rp.walked \in Nat /\ ~(rp.walked + 1 + n > Limit)
        BY <2>1, <2>2, <2>9
      <4> QED BY <4>1, <2>3
    <3>4. rp' \in Plan
      <4> HIDE DEF n
      <4> QED BY <2>1, <2>4, <2>6, <3>2, <3>3 DEF Plan
    <3> QED
      BY <1>20, <2>9, <3>4 DEF TypeOK, IndexOK, Committing, Mounting, WalkBlock
  <2> QED
    BY <2>7, <2>8, <2>9
<1>21. CASE WalkEnd
  <2>1. Len(rp.writes) \in Nat
    BY DEF TypeOK, Plan
  <2> QED
    BY <1>21, <2>1 DEF TypeOK, IndexOK, Committing, Mounting, WalkEnd
<1>22. CASE ApplyWrite
  <2>1. rp.writes[i] \in PlanEntry
    BY <1>22, ElementType DEF TypeOK, IndexOK, ApplyWrite, Plan
  <2>2. rp.writes[i].blk \in Block /\ vol.log[rp.writes[i].src].val \in Content
    BY <2>1 DEF PlanEntry, TypeOK, Image, Entry
  <2>3. vol' \in Image
    BY <1>22, <2>2, WriteHomeImage DEF TypeOK, ApplyWrite
  <2>4. Len(rp.writes) \in Nat
    BY DEF TypeOK, Plan
  <2> QED
    BY <1>22, <2>3, <2>4 DEF TypeOK, IndexOK, Committing, Mounting, ApplyWrite
<1>23. CASE FenceA
  BY <1>23 DEF TypeOK, IndexOK, Committing, Mounting, FenceA, Flush
<1>24. CASE MarkJournalClean
  <2>1. [start |-> 0, seq |-> rp.expect + 1] \in Jsb
    BY DEF TypeOK, Plan, Jsb
  <2>2. vol' \in Image
    BY <1>24, <2>1, WriteJsbImage DEF TypeOK, MarkJournalClean
  <2> QED
    BY <1>24, <2>2 DEF TypeOK, IndexOK, Committing, Mounting, MarkJournalClean
<1>25. CASE FenceB
  BY <1>25 DEF TypeOK, IndexOK, Committing, Mounting, FenceB, Flush
<1>26. CASE ClearRecoverAfterReplay
  <2>1. vol' \in Image
    BY <1>26, WriteRecoverImage DEF TypeOK, ClearRecoverAfterReplay
  <2> QED
    BY <1>26, <2>1 DEF TypeOK, IndexOK, Committing, Mounting, ClearRecoverAfterReplay
<1>27. CASE FenceC
  BY <1>27 DEF TypeOK, IndexOK, Committing, Mounting, FenceC, Flush, Replayed
<1>28. CASE OpenWriter
  BY <1>28 DEF TypeOK, IndexOK, Committing, Mounting, OpenWriter, Image
<1>29. CASE StartReplay
  BY <1>29 DEF TypeOK, IndexOK, Committing, Mounting, StartReplay
<1>30. CASE Unmount
  BY <1>30 DEF TypeOK, IndexOK, Committing, Mounting, Unmount
<1>31. CASE CommitIoError
  BY <1>31, <1>0 DEF TypeOK, IndexOK, Committing, Mounting, CommitIoError
<1>32. CASE MountIoError
  BY <1>32, <1>0 DEF TypeOK, IndexOK, Committing, Mounting, MountIoError
<1>33. CASE Crash
  <2>1. pc' = "down" /\ outcome' \in {"none", "busy", "ok", "err"} /\ faults' \in 0 .. MaxFaults
    BY <1>33, <1>0 DEF TypeOK, Crash
  <2> QED
    BY <1>33, <2>1 DEF TypeOK, IndexOK, Crash
<1>34. CASE \E b \in Block : WritebackHome(b)
  <2>1. disk' \in Image
    BY <1>34, WritebackHomeImage DEF TypeOK
  <2> QED
    BY <1>34, <2>1 DEF TypeOK, IndexOK, Committing, Mounting, WritebackHome
<1>35. CASE \E p \in Slot : WritebackLog(p)
  <2>1. disk' \in Image
    BY <1>35, WritebackLogImage DEF TypeOK
  <2> QED
    BY <1>35, <2>1 DEF TypeOK, IndexOK, Committing, Mounting, WritebackLog
<1>36. CASE WritebackJsb
  <2>1. disk' \in Image
    BY <1>36, WritebackJsbImage DEF TypeOK
  <2> QED
    BY <1>36, <2>1 DEF TypeOK, IndexOK, Committing, Mounting, WritebackJsb
<1>37. CASE UNCHANGED vars
  BY <1>37 DEF TypeOK, IndexOK, Committing, Mounting, vars
<1> QED
  BY <1>1, <1>2, <1>3, <1>4, <1>5, <1>6, <1>7, <1>8, <1>9, <1>10, <1>11, <1>12, <1>13, <1>14, <1>15, <1>16,
     <1>17, <1>18, <1>19, <1>20, <1>21, <1>22, <1>23, <1>24, <1>25, <1>26, <1>27, <1>28, <1>29, <1>30,
     <1>31, <1>32, <1>33, <1>34, <1>35, <1>36, <1>37 DEF Next, CommitStep, MountStep, Environment

\* Every reachable state of the journal is well typed (TypeOK), and no write
\* loop of commit_inner or apply runs past its sequence.
THEOREM TypeCorrect == Spec => []TypeOK
<1>1. Spec => []TypeInv
  BY TypeInit, TypeStep, PTL DEF Spec
<1>2. TypeInv => TypeOK
  BY DEF TypeInv
<1> QED
  BY <1>1, <1>2, PTL

-----------------------------------------------------------------------------
(* The inductive invariant. *)

Dirty(img) == img.jsb.start # 0

\* The log of img holds the transaction, serialised with sequence q.
HoldsLog(img, q) ==
  \A p \in 1 .. Len(Serialize(q, tx)) : img.log[p] = Serialize(q, tx)[p]

\* The home blocks of img hold the transaction's first m writes.
HoldsUpTo(img, m) ==
  \A k \in 1 .. Len(tx) : k <= m => img.home[tx[k].blk].data = tx[k].val.data

HoldsTx(img) == HoldsUpTo(img, Len(tx))

Logging == {"log", "recover", "fence1", "dirty"}

\* A transaction names a block once, and its superblock copies carry RECOVER.
TxInv ==
  /\ \A j, k \in 1 .. Len(tx) : j # k => tx[j].blk # tx[k].blk
  /\ \A k \in 1 .. Len(tx) : tx[k].blk = SB => tx[k].val.rec
  /\ Dirty(disk) \/ Dirty(vol) \/ pc \in Logging =>
       Len(tx) > 0 /\ Len(tx) + Chunks(Len(tx)) + 1 <= Limit

\* While either image's journal is dirty, both logs hold the whole transaction;
\* no block of either log carries a sequence above the durable one.
LogInv ==
  /\ Dirty(disk) => HoldsLog(disk, disk.jsb.seq) /\ HoldsLog(vol, disk.jsb.seq)
  /\ Dirty(vol)  => HoldsLog(disk, vol.jsb.seq) /\ HoldsLog(vol, vol.jsb.seq)
  /\ pc = "log" => \A p \in 1 .. Len(blocks) : p < i => vol.log[p] = blocks[p]
  /\ pc \in {"recover", "fence1", "dirty"} => HoldsLog(vol, jw.seq)
  /\ pc = "dirty" => HoldsLog(disk, jw.seq)
  /\ \A p \in Slot : vol.log[p].seq <= disk.jsb.seq /\ disk.log[p].seq <= disk.jsb.seq

\* Who holds which journal superblock, step by step.
CursorInv ==
  /\ disk.jsb.seq <= vol.jsb.seq
  /\ healthy => pc \notin Committing /\ disk.jsb = vol.jsb /\ ~Dirty(vol) /\ jw = vol.jsb
  /\ pc \in Logging =>
       disk.jsb = vol.jsb /\ ~Dirty(vol) /\ jw = vol.jsb /\ blocks = Serialize(jw.seq, tx)
  /\ pc \in {"fence2", "home", "fence3", "clean"} => Dirty(vol) /\ jw = vol.jsb
  /\ pc \in {"home", "fence3", "clean"} => disk.jsb = vol.jsb
  /\ pc \in {"unrecover", "fence4"} => ~Dirty(vol) /\ jw = vol.jsb
  /\ pc \in {"marker1", "markerfence1", "replay", "walk", "apply", "fenceA", "mclean",
             "munrec", "fenceC", "marker2", "markerfence2", "open"} => disk.jsb = vol.jsb
  /\ pc \in {"walk", "apply", "fenceA", "mclean"} => Dirty(vol)
  /\ pc \in {"fenceB", "munrec", "fenceC", "marker2", "markerfence2", "open"} => ~Dirty(vol)

\* The plan entries of the transaction's first m writes.
PlanOf(m) == [k \in 1..m |-> [blk |-> tx[k].blk, src |-> SlotOf(k)]]

\* The walk has taken c descriptors and their m data blocks, or the commit.
WalkedTo(c, m) ==
  /\ rp.expect = vol.jsb.seq
  /\ rp.writes = <<>>
  /\ rp.pending = PlanOf(m)
  /\ rp.walked = m + c
  /\ rp.cur = m + c + 1
  /\ IF c < Chunks(Len(tx)) THEN m = TagsPerDesc * c ELSE c = Chunks(Len(tx)) /\ m = Len(tx)

PlanComplete ==
  /\ rp.expect = vol.jsb.seq + 1
  /\ rp.writes = PlanOf(Len(tx))

WalkInv ==
  /\ pc # "refused"
  /\ pc = "walk" => \/ \E c, m \in Nat : WalkedTo(c, m)
                    \/ PlanComplete
  /\ pc \in {"apply", "fenceA", "mclean"} => PlanComplete

\* Where the home blocks agree, and which of the transaction's they hold.
HomeInv ==
  /\ ~Dirty(disk) => \A b \in Block : vol.home[b].data = disk.home[b].data
  /\ Dirty(disk) => \A b \in Block : (\A k \in 1..Len(tx) : tx[k].blk # b) =>
                                       vol.home[b].data = disk.home[b].data
  /\ Dirty(disk) /\ ~Dirty(vol) => HoldsTx(disk) /\ HoldsTx(vol)
  /\ pc \in {"home", "apply"} => HoldsUpTo(vol, i - 1)
  /\ pc \in {"fence3", "fenceA", "clean", "mclean", "unrecover", "fence4"} => HoldsTx(vol)
  /\ pc \in {"clean", "mclean", "unrecover", "fence4"} => HoldsTx(disk)

\* RECOVER is on both images before the journal is dirty on either, and stays
\* until the home blocks hold the transaction.
RecoverInv ==
  /\ Dirty(vol) => \/ vol.home[SB].rec /\ disk.home[SB].rec
                   \/ HoldsTx(disk) /\ HoldsTx(vol)
  /\ pc \in {"fence1", "dirty"} => vol.home[SB].rec
  /\ pc = "dirty" => disk.home[SB].rec

\* What the caller knows.
OutcomeInv ==
  /\ pc \in Committing <=> outcome = "busy"
  /\ Dirty(disk) \/ Dirty(vol) => outcome \in {"busy", "err"}
  /\ healthy => outcome \in {"none", "ok"}

IInv ==
  /\ TypeInv /\ TxInv /\ LogInv /\ CursorInv /\ WalkInv /\ HomeInv /\ RecoverInv /\ OutcomeInv

\* What typing gives the provers.
Typed ==
  /\ disk \in Image /\ vol \in Image
  /\ jw \in Jsb /\ jw.seq \in Nat
  /\ tx \in Seq(Write) /\ Len(tx) \in Nat
  /\ \A k \in 1 .. Len(tx) : tx[k].blk \in Block /\ tx[k].val \in Content
  /\ disk.jsb \in Jsb /\ disk.jsb.start \in 0..1 /\ disk.jsb.seq \in Nat
  /\ vol.jsb \in Jsb /\ vol.jsb.start \in 0..1 /\ vol.jsb.seq \in Nat
  /\ \A p \in Slot : vol.log[p].seq \in Nat /\ disk.log[p].seq \in Nat
  /\ rp \in Plan /\ rp.expect \in Nat
  /\ i \in Nat \ {0}
  /\ SB \in Block

\* A well-typed state has the types the proofs below need, field by field.
LEMMA TypeFacts ==
  ASSUME TypeInv
  PROVE  Typed
<1>1. /\ disk \in Image /\ vol \in Image /\ jw \in Jsb /\ tx \in Seq(Write) /\ rp \in Plan
      /\ i \in Nat \ {0} /\ SB \in Block
  BY JournalAssumption DEF TypeInv, TypeOK
<1>2. \A k \in 1 .. Len(tx) : tx[k].blk \in Block /\ tx[k].val \in Content
  <2> TAKE k \in 1 .. Len(tx)
  <2>1. tx[k] \in Write
    BY <1>1, ElementType
  <2> QED
    BY <2>1 DEF Write
<1>3. \A p \in Slot : vol.log[p].seq \in Nat /\ disk.log[p].seq \in Nat
  BY <1>1 DEF Image, Entry
<1> QED
  BY <1>1, <1>2, <1>3 DEF Typed, Image, Jsb, Plan

\* A flush keeps the log invariant: no logged sequence is above the durable one.
LEMMA FlushLog ==
  ASSUME TypeInv, LogInv, CursorInv, disk' = vol, vol' = vol, tx' = tx,
         pc' \notin Logging
  PROVE  LogInv'
<1>1. /\ disk.jsb.seq \in Nat /\ vol.jsb.seq \in Nat
      /\ \A p \in Slot : vol.log[p].seq \in Nat
  BY TypeFacts DEF Typed
<1>2. disk.jsb.seq <= vol.jsb.seq
  BY DEF CursorInv
<1>3. \A p \in Slot : vol.log[p].seq <= disk.jsb.seq
  BY DEF LogInv
<1>4. \A p \in Slot : vol.log[p].seq <= vol.jsb.seq
  BY <1>1, <1>2, <1>3
<1> QED
  BY <1>4 DEF LogInv, Dirty, HoldsLog, Logging

\* The log invariant depends on the logs, the journal superblocks and the transaction,
\* once no commit is filling the log.
LEMMA LogFrame ==
  ASSUME LogInv, tx' = tx, disk'.log = disk.log, disk'.jsb = disk.jsb,
         vol'.log = vol.log, vol'.jsb = vol.jsb, pc' \notin Logging
  PROVE  LogInv'
<1>1. (Dirty(disk)' <=> Dirty(disk)) /\ (Dirty(vol)' <=> Dirty(vol))
  BY DEF Dirty
<1>2. \A q : (HoldsLog(disk, q)' <=> HoldsLog(disk, q)) /\ (HoldsLog(vol, q)' <=> HoldsLog(vol, q))
  BY DEF HoldsLog
<1>3. /\ (Dirty(disk) => HoldsLog(disk, disk.jsb.seq) /\ HoldsLog(vol, disk.jsb.seq))'
      /\ (Dirty(vol) => HoldsLog(disk, vol.jsb.seq) /\ HoldsLog(vol, vol.jsb.seq))'
  BY <1>1, <1>2 DEF LogInv
<1>4. (\A p \in Slot : vol.log[p].seq <= disk.jsb.seq /\ disk.log[p].seq <= disk.jsb.seq)'
  BY DEF LogInv
<1> QED
  BY <1>3, <1>4 DEF LogInv, Logging

\* A step that leaves the medium, the logs, the journal superblocks, the transaction
\* and the data of the home blocks alone changes nothing the invariant asks of them.
LEMMA SameImages ==
  ASSUME tx' = tx, disk' = disk, vol'.log = vol.log, vol'.jsb = vol.jsb,
         \A b \in Block : vol'.home[b].data = vol.home[b].data,
         \A k \in 1 .. Len(tx) : tx[k].blk \in Block
  PROVE  /\ (Dirty(disk)' <=> Dirty(disk)) /\ (Dirty(vol)' <=> Dirty(vol))
         /\ (HoldsTx(disk)' <=> HoldsTx(disk)) /\ (HoldsTx(vol)' <=> HoldsTx(vol))
         /\ \A q : (HoldsLog(disk, q)' <=> HoldsLog(disk, q))
                 /\ (HoldsLog(vol, q)' <=> HoldsLog(vol, q))
<1>1. (Dirty(disk)' <=> Dirty(disk)) /\ (Dirty(vol)' <=> Dirty(vol))
  BY DEF Dirty
<1>2. (HoldsTx(disk)' <=> HoldsTx(disk)) /\ (HoldsTx(vol)' <=> HoldsTx(vol))
  BY DEF HoldsTx, HoldsUpTo
<1>3. \A q : (HoldsLog(disk, q)' <=> HoldsLog(disk, q)) /\ (HoldsLog(vol, q)' <=> HoldsLog(vol, q))
  BY DEF HoldsLog
<1> QED
  BY <1>1, <1>2, <1>3

\* After a flush the medium holds what the device's cache held.
LEMMA FlushedImages ==
  ASSUME tx' = tx, disk' = vol, vol' = vol
  PROVE  /\ (Dirty(disk)' <=> Dirty(vol)) /\ (Dirty(vol)' <=> Dirty(vol))
         /\ (HoldsTx(disk)' <=> HoldsTx(vol)) /\ (HoldsTx(vol)' <=> HoldsTx(vol))
         /\ \A q : (HoldsLog(disk, q)' <=> HoldsLog(vol, q))
                 /\ (HoldsLog(vol, q)' <=> HoldsLog(vol, q))
<1>1. (Dirty(disk)' <=> Dirty(vol)) /\ (Dirty(vol)' <=> Dirty(vol))
  BY DEF Dirty
<1>2. (HoldsTx(disk)' <=> HoldsTx(vol)) /\ (HoldsTx(vol)' <=> HoldsTx(vol))
  BY DEF HoldsTx, HoldsUpTo
<1>3. \A q : (HoldsLog(disk, q)' <=> HoldsLog(vol, q)) /\ (HoldsLog(vol, q)' <=> HoldsLog(vol, q))
  BY DEF HoldsLog
<1> QED
  BY <1>1, <1>2, <1>3

\* The invariant says nothing of the walk at the steps that are not part of a replay.
LEMMA NotWalking ==
  ASSUME pc' \notin {"refused", "walk", "apply", "fenceA", "mclean"}
  PROVE  WalkInv'
BY DEF WalkInv

\* The steps at which no commit and no replay is under way.
Quiet == {"down", "mark", "marker1", "markerfence1", "replay", "fenceB", "munrec", "fenceC",
          "marker2", "markerfence2", "open", "up"}

\* A step that ends outside of commits and replays keeps the invariant's parts about the
\* images if it leaves the medium, the logs and the data alone, and clears RECOVER at
\* most while the journal is clean.
LEMMA StillKeeps ==
  ASSUME TxInv, LogInv, HomeInv, RecoverInv, pc' \in Quiet, tx' = tx, disk' = disk,
         vol'.log = vol.log, vol'.jsb = vol.jsb,
         \A b \in Block : vol'.home[b].data = vol.home[b].data,
         ~Dirty(vol) \/ (vol.home[SB].rec => vol'.home[SB].rec),
         \A k \in 1 .. Len(tx) : tx[k].blk \in Block
  PROVE  TxInv' /\ LogInv' /\ WalkInv' /\ HomeInv' /\ RecoverInv'
<1>1. LogInv'
  BY LogFrame DEF Quiet, Logging
<1>2. (Dirty(disk)' <=> Dirty(disk)) /\ (Dirty(vol)' <=> Dirty(vol))
  BY SameImages
<1>3. (HoldsTx(disk)' <=> HoldsTx(disk)) /\ (HoldsTx(vol)' <=> HoldsTx(vol))
  BY SameImages
<1>4. HomeInv'
  BY <1>2, <1>3 DEF HomeInv, Quiet
<1>5. RecoverInv'
  BY <1>2, <1>3 DEF RecoverInv, Quiet
<1>6. TxInv'
  BY <1>2 DEF TxInv, Quiet, Logging
<1>7. WalkInv'
  BY NotWalking DEF Quiet
<1> QED
  BY <1>1, <1>4, <1>5, <1>6, <1>7

\* A flush that ends outside of commits and replays keeps the invariant's parts about
\* the images.
LEMMA FlushKeeps ==
  ASSUME TypeInv, TxInv, LogInv, CursorInv, RecoverInv, pc' \in Quiet,
         tx' = tx, disk' = vol, vol' = vol
  PROVE  TxInv' /\ LogInv' /\ WalkInv' /\ HomeInv' /\ RecoverInv'
<1>1. LogInv'
  BY FlushLog DEF Quiet, Logging
<1>2. (Dirty(disk)' <=> Dirty(vol)) /\ (Dirty(vol)' <=> Dirty(vol))
  BY FlushedImages
<1>3. (HoldsTx(disk)' <=> HoldsTx(vol)) /\ (HoldsTx(vol)' <=> HoldsTx(vol))
  BY FlushedImages
<1>4. HomeInv'
  BY <1>2 DEF HomeInv, Quiet
<1>5. RecoverInv'
  BY <1>2, <1>3 DEF RecoverInv, Quiet
<1>6. TxInv'
  BY <1>2 DEF TxInv, Quiet, Logging
<1>7. WalkInv'
  BY NotWalking DEF Quiet
<1> QED
  BY <1>1, <1>4, <1>5, <1>6, <1>7

\* The walk's progress depends on its locals, the transaction and the sequence.
LEMMA WalkFrame ==
  ASSUME WalkInv, pc' = pc, rp' = rp, tx' = tx, vol'.jsb = vol.jsb
  PROVE  WalkInv'
<1>1. ASSUME NEW c \in Nat, NEW m \in Nat, WalkedTo(c, m)
      PROVE  WalkedTo(c, m)'
  BY <1>1 DEF WalkedTo, PlanOf, Chunks
<1>2. PlanComplete => PlanComplete'
  BY DEF PlanComplete, PlanOf
<1> QED
  BY <1>1, <1>2 DEF WalkInv

\* Writing the next block of the transaction home keeps what is there already:
\* its blocks are distinct, and its superblock copy carries RECOVER.
LEMMA TxWrite ==
  ASSUME TxInv, vol \in Image, i \in 1 .. Len(tx), Len(tx) \in Nat, SB \in Block,
         \A k \in 1 .. Len(tx) : tx[k].blk \in Block /\ tx[k].val \in Content,
         HoldsUpTo(vol, i - 1),
         vol'.home = [vol.home EXCEPT ![tx[i].blk] = tx[i].val]
  PROVE  /\ HoldsUpTo(vol', i)
         /\ HoldsTx(vol) => HoldsTx(vol')
         /\ i = Len(tx) => HoldsTx(vol')
         /\ \A b \in Block : (\A k \in 1..Len(tx) : tx[k].blk # b) =>
                               vol'.home[b].data = vol.home[b].data
         /\ vol.home[SB].rec => vol'.home[SB].rec
<1>1. \A b \in Block : vol'.home[b] = IF b = tx[i].blk THEN tx[i].val ELSE vol.home[b]
  BY DEF Image
<1>2. \A k \in 1 .. Len(tx) : k # i => vol'.home[tx[k].blk] = vol.home[tx[k].blk]
  BY <1>1 DEF TxInv
<1>3. vol'.home[tx[i].blk] = tx[i].val
  BY <1>1
<1>4. HoldsUpTo(vol', i)
  BY <1>2, <1>3 DEF HoldsUpTo
<1>5. HoldsTx(vol) => HoldsTx(vol')
  BY <1>2, <1>3 DEF HoldsTx, HoldsUpTo
<1>6. vol.home[SB].rec => vol'.home[SB].rec
  BY <1>1 DEF TxInv
<1> QED
  BY <1>1, <1>4, <1>5, <1>6 DEF HoldsTx

\* A cursor that stays below the end of the ring does not wrap.
LEMMA AdvanceNoWrapAround ==
  ASSUME NEW cur \in Nat \ {0}, NEW n \in Nat, cur + n <= Limit
  PROVE  Advance(cur, n) = cur + n
<1> DEFINE d == MaxLen - 1
           x == cur - 1 + n
<1>1. d \in Nat \ {0} /\ x \in Nat /\ x \in 0 .. d - 1
  BY JournalAssumption DEF Limit
<1>2. Advance(cur, n) = 1 + (x % d)
  BY DEF Advance
<1>3. x = cur - 1 + n
  OBVIOUS
<1> HIDE DEF d, x
<1>4. d * 0 + x = x
  BY <1>1
<1>5. x % d = x
  BY <1>1, <1>4, DivUnique
<1> QED
  BY <1>2, <1>3, <1>5

\* Two sequences joined are the function that agrees with both.
LEMMA JoinedIs ==
  ASSUME NEW S, NEW g \in Seq(S), NEW h \in Seq(S),
         NEW F \in [1 .. Len(g) + Len(h) -> S],
         \A j \in 1 .. Len(g) : F[j] = g[j],
         \A j \in 1 .. Len(h) : F[Len(g) + j] = h[j]
  PROVE  g \o h = F
<1>1. Len(g) \in Nat /\ Len(h) \in Nat
  OBVIOUS
<1>2. /\ g \o h \in Seq(S) /\ Len(g \o h) = Len(g) + Len(h)
      /\ \A j \in 1 .. Len(g) + Len(h) :
           (g \o h)[j] = IF j <= Len(g) THEN g[j] ELSE h[j - Len(g)]
  OBVIOUS
<1>3. \A j \in 1 .. Len(g) + Len(h) : (g \o h)[j] = F[j]
  <2> TAKE j \in 1 .. Len(g) + Len(h)
  <2>1. CASE j <= Len(g)
    <3>1. j \in 1 .. Len(g)
      BY <2>1, <1>1
    <3> QED
      BY <3>1, <2>1, <1>2
  <2>2. CASE ~(j <= Len(g))
    <3>1. j - Len(g) \in 1 .. Len(h) /\ Len(g) + (j - Len(g)) = j
      BY <2>2, <1>1
    <3>2. (g \o h)[j] = h[j - Len(g)]
      BY <2>2, <1>2
    <3> QED
      BY <3>1, <3>2
  <2> QED
    BY <2>1, <2>2
<1> DEFINE gh == g \o h
           N == Len(g) + Len(h)
<1>4. gh \in [1 .. N -> S]
  <2>1. \A s \in Seq(S) : s \in [1 .. Len(s) -> S]
    OBVIOUS
  <2> HIDE DEF gh
  <2>2. gh \in Seq(S) /\ Len(gh) = N
    BY <1>2 DEF gh
  <2> QED
    BY <2>1, <2>2
<1>5. gh = [j \in 1 .. N |-> gh[j]]
  <2> HIDE DEF gh, N
  <2> QED BY <1>4
<1>6. \A j \in 1 .. N : gh[j] = F[j]
  BY <1>3
<1> HIDE DEF gh, N
<1>7. gh = F
  <2>1. F = [j \in 1 .. N |-> F[j]]
    BY DEF N
  <2> QED
    BY <1>5, <1>6, <2>1
<1> QED
  BY <1>7 DEF gh

\* One block of the walk: the next descriptor of the transaction, or its commit.
LEMMA WalkBlockStep ==
  ASSUME TypeInv, TxInv, LogInv, CursorInv, WalkInv, WalkBlock
  PROVE  WalkInv' /\ pc' = "walk"
<1> DEFINE n == Len(tx)
           C == Chunks(n)
           q == vol.jsb.seq
           T == TagsPerDesc
           e == vol.log[rp.cur]
<1>1. /\ tx \in Seq(Write) /\ n \in Nat /\ q \in Nat /\ rp.cur \in Slot
      /\ \A k \in 1..n : tx[k].blk \in Block
  BY TypeFacts DEF Typed, Plan
<1>2. T \in Nat \ {0} /\ Limit \in Nat /\ Slot = 1 .. Limit
  BY JournalAssumption DEF Limit, Slot
<1>3. pc = "walk" /\ Dirty(vol) /\ disk.jsb = vol.jsb
  BY DEF WalkBlock, CursorInv
<1>4. n > 0 /\ n + C + 1 <= Limit /\ C \in Nat
  BY <1>1, <1>3, ChunksBounds DEF TxInv
<1>5. \A p \in 1 .. n + C + 1 : vol.log[p] = Serialize(q, tx)[p]
  BY <1>1, <1>3, SerializeType DEF LogInv, HoldsLog
<1>6. /\ UNCHANGED <<tx, vol>>
      /\ e.kind # "data" /\ e.seq = rp.expect
      /\ e.kind = "commit" =>
           /\ pc' = pc
           /\ rp' = [cur     |-> Advance(rp.cur, 1),
                     expect  |-> rp.expect + 1,
                     walked  |-> rp.walked + 1,
                     pending |-> <<>>,
                     writes  |-> rp.writes \o rp.pending]
      /\ e.kind # "commit" /\ ~(rp.walked + 1 + Len(e.tags) > Limit) =>
           /\ pc' = pc
           /\ rp' = [rp EXCEPT
                       !.cur = Advance(rp.cur, Len(e.tags) + 1),
                       !.walked = rp.walked + 1 + Len(e.tags),
                       !.pending = rp.pending \o
                          [k \in 1..Len(e.tags) |-> [blk |-> e.tags[k], src |-> Advance(rp.cur, k)]]]
  BY Zenon DEF WalkBlock
<1>7. CASE PlanComplete
  <2>1. e.seq = q + 1
    BY <1>6, <1>7 DEF PlanComplete
  <2>2. e.seq <= q
    BY <1>1, <1>3 DEF LogInv
  <2> QED
    BY <1>1, <2>1, <2>2
<1>8. ASSUME NEW c \in Nat, NEW m \in Nat, WalkedTo(c, m)
      PROVE  WalkInv' /\ pc' = "walk"
  <2>1. /\ rp.expect = q /\ rp.writes = <<>> /\ rp.pending = PlanOf(m)
        /\ rp.walked = m + c /\ rp.cur = m + c + 1
    BY <1>8 DEF WalkedTo
  <2>2. CASE c < C
    <3>1. m = T * c /\ T * c \in Nat
      BY <1>8, <2>2 DEF WalkedTo
    <3> DEFINE k == IF n - T * c < T THEN n - T * c ELSE T
    <3>2. e = Descriptor(q, ChunkTags(tx, c)) /\ rp.cur \in 1 .. n + C
      <4>1. /\ T * c + c + 1 \in 1 .. n + C
            /\ Serialize(q, tx)[T * c + c + 1] = Descriptor(q, ChunkTags(tx, c))
        BY <1>1, <2>2, SerializeDescriptor
      <4>2. rp.cur = T * c + c + 1
        BY <2>1, <3>1
      <4>3. rp.cur \in 1 .. n + C /\ rp.cur \in 1 .. n + C + 1
        BY <4>1, <4>2, <1>1, <1>4
      <4>4. vol.log[rp.cur] = Serialize(q, tx)[rp.cur]
        BY <4>3, <1>5
      <4> QED
        BY <4>1, <4>2, <4>3, <4>4
    <3>3. T * c < n
      BY <1>1, <2>2, ChunkNonempty
    <3>4. /\ k \in 1 .. T /\ T * c + k <= n
          /\ ChunkTags(tx, c) \in Seq(Block) /\ Len(ChunkTags(tx, c)) = k
          /\ \A j \in 1..k : ChunkTags(tx, c)[j] = tx[T * c + j].blk
      BY <1>1, <3>3, ChunkTagsType
    <3>5. e.kind = "desc" /\ e.tags = ChunkTags(tx, c) /\ Len(e.tags) = k
      BY <3>2, <3>4 DEF Descriptor
    <3>6. IF c + 1 < C THEN T * c + k = T * (c + 1) ELSE c + 1 = C /\ T * c + k = n
      <4>1. T * (c + 1) = T * c + T
        BY <1>2
      <4>2. c + 1 < C => T * (c + 1) < n
        BY <1>1, ChunkNonempty
      <4>3. n <= T * C
        BY <1>1, ChunksBounds
      <4>4. c + 1 >= C => c + 1 = C
        BY <1>4, <2>2
      <4> HIDE DEF n, C, T
      <4> DEFINE Tc == T * c
      <4>5. Tc \in Nat /\ Tc < n
        BY <3>1, <3>3
      <4>6. CASE c + 1 < C
        <5>1. Tc + T < n
          BY <4>1, <4>2, <4>6
        <5> HIDE DEF Tc
        <5>2. ~(n - Tc < T)
          BY <5>1, <4>5, <1>1, <1>2
        <5>3. k = T
          BY <5>2 DEF Tc
        <5> QED
          BY <4>1, <4>6, <5>3 DEF Tc
      <4>7. CASE ~(c + 1 < C)
        <5>1. c + 1 = C
          BY <4>4, <4>7, <1>4
        <5>2. n <= Tc + T
          BY <4>1, <4>3, <5>1
        <5> HIDE DEF Tc
        <5>3. Tc + (IF n - Tc < T THEN n - Tc ELSE T) = n
          BY <5>2, <4>5, <1>1, <1>2
        <5> QED
          BY <5>1, <5>3, <4>7 DEF Tc
      <4> QED
        BY <4>6, <4>7
    <3> DEFINE more == [j \in 1..k |-> [blk |-> e.tags[j], src |-> Advance(rp.cur, j)]]
    <3> HIDE DEF k, n, C, T, e
    <3>0. k \in Nat /\ m + k \in Nat /\ m + k <= n
      <4>1. k \in Nat
        BY <1>2, <3>4
      <4>2. m + k <= n
        BY <3>1, <3>4
      <4> QED
        BY <4>1, <4>2
    <3>c. PICK mm \in Nat : mm = m + k
      BY <3>0
    <3>7. mm <= n /\ c + 1 <= C
      BY <1>4, <2>2, <3>0, <3>c
    <3>8. /\ rp.walked + 1 + k = mm + (c + 1)
          /\ ~(rp.walked + 1 + k > Limit)
          /\ rp.cur \in Nat \ {0} /\ k + 1 \in Nat /\ rp.cur + (k + 1) = mm + (c + 1) + 1
          /\ rp.cur + (k + 1) <= Limit
      <4>1. /\ rp.walked + 1 + k = mm + (c + 1)
            /\ rp.cur \in Nat \ {0} /\ k + 1 \in Nat /\ rp.cur + (k + 1) = mm + (c + 1) + 1
        BY <2>1, <3>0, <3>c
      <4>2. mm + (c + 1) + 1 <= Limit
        BY <1>1, <1>2, <1>4, <3>7
      <4> QED
        BY <4>1, <4>2, <1>2
    <3>9. Advance(rp.cur, k + 1) = mm + (c + 1) + 1
      BY <3>8, AdvanceNoWrapAround
    <3>10. \A j \in 1..k : Advance(rp.cur, j) = SlotOf(m + j)
      <4> TAKE j \in 1..k
      <4>1. rp.cur + j <= Limit /\ j \in Nat
        BY <3>4, <3>8, <1>2
      <4>2. Advance(rp.cur, j) = rp.cur + j
        BY <3>8, <4>1, AdvanceNoWrapAround
      <4>3. j - 1 \in 0 .. T - 1
        BY <3>4, <1>2
      <4>4. (T * c + (j - 1)) \div T = c
        BY <4>3, <1>2, DivUnique
      <4>5. m + j - 1 = T * c + (j - 1)
        BY <3>1, <4>1
      <4>6. SlotOf(m + j) = m + j + 1 + c
        BY <4>4, <4>5 DEF SlotOf, T
      <4> QED
        BY <4>1, <4>2, <4>6, <2>1
    <3>11. rp.pending \o more = PlanOf(mm)
      <4> DEFINE U == [blk : Block, src : Nat]
      <4>1. \A j \in 1 .. n : SlotOf(j) \in Nat
        <5> TAKE j \in 1 .. n
        <5>1. j - 1 \in Nat /\ j \in Nat
          OBVIOUS
        <5>2. (j - 1) \div T \in Nat
          BY <5>1, <1>2, DivMod, Zenon
        <5> QED
          BY <5>1, <5>2 DEF SlotOf, T
      <4>2. PlanOf(m) \in Seq(U) /\ Len(PlanOf(m)) = m
        <5>1. \A j \in 1..m : j \in 1..n
          BY <3>0, <1>1
        <5>2. \A j \in 1..m : PlanOf(m)[j] \in U
          BY <5>1, <4>1, <1>1 DEF PlanOf, n
        <5>3. PlanOf(m) = [j \in 1..m |-> PlanOf(m)[j]]
          BY DEF PlanOf
        <5> HIDE DEF U
        <5> QED
          BY <5>2, <5>3, FunctionIsSeq
      <4>3. \A j \in 1..k : m + j \in 1..n /\ more[j] = [blk |-> tx[m + j].blk, src |-> SlotOf(m + j)]
        <5> TAKE j \in 1..k
        <5>1. m + j \in 1..n
          BY <3>0, <1>1
        <5>2. e.tags[j] = tx[m + j].blk
          BY <3>1, <3>4, <3>5
        <5> QED
          BY <5>1, <5>2, <3>10
      <4>4. k \in Nat
        BY <3>4, <1>2
      <4>5. more \in Seq(U) /\ Len(more) = k
        <5>1. \A j \in 1..k : more[j] \in U
          BY <4>1, <4>3, <1>1, Zenon DEF n
        <5>2. more = [j \in 1..k |-> more[j]]
          OBVIOUS
        <5> HIDE DEF U, more
        <5> QED
          BY <5>1, <5>2, <4>4, FunctionIsSeq
      <4>7. \A j \in 1..m : PlanOf(mm)[j] = PlanOf(m)[j]
        BY <3>c, <4>4 DEF PlanOf
      <4>8. \A j \in 1..k : PlanOf(mm)[m + j] = more[j]
        <5> HIDE DEF more
        <5> QED BY <3>c, <4>3, <4>4 DEF PlanOf
      <4> HIDE DEF more, U
      <4>9. PlanOf(m) \o more = PlanOf(mm)
        <5> DEFINE g == PlanOf(m)
                   F == PlanOf(mm)
        <5>0. \A j \in 1 .. mm : j \in 1 .. n
          BY <3>7, <1>1
        <5>1. F \in [1 .. Len(g) + Len(more) -> U]
          BY <5>0, <4>1, <4>2, <4>5, <3>c, <1>1 DEF PlanOf, n, U
        <5>2. \A j \in 1 .. Len(g) : F[j] = g[j]
          BY <4>2, <4>7
        <5>3. \A j \in 1 .. Len(more) : F[Len(g) + j] = more[j]
          BY <4>2, <4>5, <4>8
        <5>4. g \in Seq(U) /\ more \in Seq(U)
          BY <4>2, <4>5
        <5> HIDE DEF g, F
        <5>5. g \o more = F
          BY <5>1, <5>2, <5>3, <5>4, JoinedIs, Zenon
        <5> QED
          BY <5>5 DEF g, F
      <4> QED
        BY <4>9, <2>1
    <3>12. /\ pc' = "walk" /\ rp'.expect = rp.expect /\ rp'.writes = rp.writes
           /\ rp'.cur = Advance(rp.cur, k + 1) /\ rp'.walked = rp.walked + 1 + k
           /\ rp'.pending = rp.pending \o more
      <4>1. rp \in Plan
        BY TypeFacts DEF Typed
      <4>2. rp' = [rp EXCEPT !.cur = Advance(rp.cur, k + 1), !.walked = rp.walked + 1 + k,
                             !.pending = rp.pending \o more]
        BY <1>6, <3>5, <3>8
      <4>3. pc' = "walk"
        BY <1>3, <1>6, <3>5, <3>8
      <4> HIDE DEF more
      <4> QED
        BY <4>1, <4>2, <4>3 DEF Plan
    <3> HIDE DEF more
    <3>13. PlanOf(mm)' = PlanOf(mm)
      BY <1>6 DEF PlanOf
    <3>14. WalkedTo(c + 1, mm)'
      <4>1. Len(tx)' = n /\ vol'.jsb = vol.jsb
        BY <1>6 DEF n
      <4>2. IF c + 1 < C THEN mm = T * (c + 1) ELSE c + 1 = C /\ mm = n
        BY <3>1, <3>6, <3>c
      <4> QED
        BY <2>1, <3>8, <3>9, <3>11, <3>12, <3>13, <4>1, <4>2 DEF WalkedTo, C, T, Chunks
    <3> QED
      <4>1. c + 1 \in Nat
        OBVIOUS
      <4> QED
        BY <3>12, <3>14, <4>1 DEF WalkInv
  <2>3. CASE ~(c < C)
    <3>1. c = C /\ m = n
      BY <1>8, <2>3 DEF WalkedTo
    <3>2. e = Commit(q)
      BY <1>1, <1>4, <1>5, <2>1, <3>1, SerializeCommit
    <3>3. /\ pc' = "walk" /\ rp'.expect = q + 1 /\ rp'.writes = <<>> \o PlanOf(n)
      BY <1>3, <1>6, <2>1, <3>1, <3>2 DEF Commit
    <3>4. <<>> \o PlanOf(n) = PlanOf(n)
      <4>1. PlanOf(n) = [j \in 1..n |-> PlanOf(n)[j]]
        BY DEF PlanOf
      <4> DEFINE U == {PlanOf(n)[j] : j \in 1..n}
      <4>2. \A j \in 1..n : PlanOf(n)[j] \in U
        OBVIOUS
      <4> HIDE DEF U, n
      <4>3. PlanOf(n) \in Seq(U)
        BY <1>1, <4>1, <4>2, FunctionIsSeq
      <4> QED
        BY <4>3
    <3>5. PlanComplete'
      BY <1>6, <3>3, <3>4 DEF PlanComplete, PlanOf
    <3> QED
      BY <3>3, <3>5 DEF WalkInv
  <2> QED
    BY <2>2, <2>3
<1> QED
  BY <1>3, <1>7, <1>8 DEF WalkInv

\* The walk ends only past the commit block: before it, the next header is there.
LEMMA WalkEndComplete ==
  ASSUME TypeInv, TxInv, LogInv, CursorInv, WalkInv, WalkEnd
  PROVE  PlanComplete
<1> DEFINE n == Len(tx)
           C == Chunks(n)
           q == vol.jsb.seq
<1>1. tx \in Seq(Write) /\ n \in Nat /\ q \in Nat
  BY TypeFacts DEF Typed
<1>2. TagsPerDesc \in Nat \ {0} /\ Limit \in Nat
  BY JournalAssumption DEF Limit
<1>3. pc = "walk" /\ Dirty(vol)
  BY DEF WalkEnd, CursorInv
<1>4. n + C + 1 <= Limit /\ C \in Nat
  BY <1>1, <1>3, ChunksBounds DEF TxInv
<1>5. \A p \in 1 .. n + C + 1 : vol.log[p] = Serialize(q, tx)[p]
  BY <1>1, <1>3, SerializeType DEF LogInv, HoldsLog
<1>6. ASSUME NEW c \in Nat, NEW m \in Nat, WalkedTo(c, m)
      PROVE  FALSE
  <2>1. rp.expect = q /\ rp.walked = m + c /\ rp.cur = m + c + 1
    BY <1>6 DEF WalkedTo
  <2>2. CASE c < C
    <3>1. m = TagsPerDesc * c
      BY <1>6, <2>2 DEF WalkedTo
    <3>2. vol.log[rp.cur] = Descriptor(q, ChunkTags(tx, c)) /\ rp.cur \in 1 .. n + C
      <4>1. /\ TagsPerDesc * c + c + 1 \in 1 .. n + C
            /\ Serialize(q, tx)[TagsPerDesc * c + c + 1] = Descriptor(q, ChunkTags(tx, c))
        BY <1>1, <2>2, SerializeDescriptor
      <4>2. rp.cur = TagsPerDesc * c + c + 1
        BY <2>1, <3>1
      <4>3. rp.cur \in 1 .. n + C /\ rp.cur \in 1 .. n + C + 1
        BY <4>1, <4>2, <1>1, <1>4
      <4>4. vol.log[rp.cur] = Serialize(q, tx)[rp.cur]
        BY <4>3, <1>5
      <4> QED
        BY <4>1, <4>2, <4>3, <4>4
    <3>3. rp.walked < Limit
      BY <1>1, <1>2, <1>4, <2>1, <3>2
    <3> QED
      BY <2>1, <3>2, <3>3, <1>2 DEF WalkEnd, Descriptor
  <2>3. CASE ~(c < C)
    <3>1. c = C /\ m = n
      BY <1>6, <2>3 DEF WalkedTo
    <3>2. vol.log[rp.cur] = Commit(q)
      BY <1>1, <1>4, <1>5, <2>1, <3>1, SerializeCommit
    <3>3. rp.walked < Limit
      BY <1>1, <1>2, <1>4, <2>1, <3>1
    <3> QED
      BY <2>1, <3>2, <3>3, <1>2 DEF WalkEnd, Commit
  <2> QED
    BY <2>2, <2>3
<1> QED
  BY <1>3, <1>6 DEF WalkInv

\* The freshly formatted volume satisfies the invariant.
LEMMA InvInit == Init => IInv
<1> SUFFICES ASSUME Init PROVE IInv
  OBVIOUS
<1>1. PICK s \in Starts :
        disk = [home |-> [b \in Block |-> [data |-> s[b], rec |-> FALSE]],
                jsb  |-> [start |-> 0, seq |-> 1],
                log  |-> [p \in Slot |-> Blank]]
  BY Zenon DEF Init
<1>2. /\ vol = disk /\ pc = "down" /\ healthy = FALSE /\ tx = <<>> /\ outcome = "none"
  BY DEF Init
<1>3. disk.jsb.start = 0 /\ disk.jsb.seq = 1 /\ ~Dirty(disk) /\ ~Dirty(vol)
  BY <1>1, <1>2 DEF Dirty
<1>4. TxInv
  BY <1>2, <1>3 DEF TxInv, Logging
<1>5. LogInv
  <2>1. \A p \in Slot : disk.log[p].seq = 0
    BY <1>1 DEF Blank, Data
  <2> QED
    BY <1>2, <1>3, <2>1 DEF LogInv
<1>6. CursorInv
  BY <1>2, <1>3 DEF CursorInv, Logging
<1>7. WalkInv /\ RecoverInv
  BY <1>2, <1>3 DEF WalkInv, RecoverInv
<1>8. HomeInv
  BY <1>2 DEF HomeInv
<1>9. OutcomeInv
  BY <1>2, <1>3 DEF OutcomeInv, Committing
<1> QED
  BY <1>4, <1>5, <1>6, <1>7, <1>8, <1>9, TypeInit DEF IInv

\* Starting a mount (Filesystem::mount), checked or not, preserves the invariant.
LEMMA StartMountKeeps ==
  ASSUME Settled, IInv, TypeInv', \E checked \in BOOLEAN : StartMount(checked)
  PROVE  IInv'
<1> USE DEF IInv
<1>T. Typed
  BY TypeFacts
<1>B. SB \in Block /\ Len(tx) \in Nat /\ \A k \in 1 .. Len(tx) : tx[k].blk \in Block
  BY <1>T DEF Typed
<1>1. /\ pc \in {"down", "refused"}
      /\ pc' = "mark" \/ (pc' = "replay" /\ disk = vol)
      /\ healthy' = FALSE
      /\ UNCHANGED <<disk, vol, jw, tx, blocks, i, rp, outcome, faults>>
  BY DEF StartMount, DeviceSettled
<1>2. TxInv' /\ LogInv' /\ WalkInv' /\ HomeInv' /\ RecoverInv'
  BY <1>1, <1>B, StillKeeps DEF Quiet
<1>3. CursorInv'
  BY <1>1 DEF CursorInv, Dirty, Logging, Committing
<1>4. OutcomeInv'
  BY <1>1 DEF OutcomeInv, Dirty, Committing
<1> QED
  BY <1>2, <1>3, <1>4

\* Marking the volume before a replay preserves the invariant.
LEMMA MarkBeforeReplayKeeps ==
  ASSUME Settled, IInv, TypeInv', MarkBeforeReplay
  PROVE  IInv'
<1> USE DEF IInv
<1>T. Typed
  BY TypeFacts
<1>N. disk.jsb.seq \in Nat /\ vol.jsb.seq \in Nat /\ jw.seq \in Nat
  BY <1>T DEF Typed
<1>1. /\ pc = "mark"
      /\ pc' = "marker1"
      /\ disk' = vol
      /\ vol' = vol
      /\ UNCHANGED <<vol, healthy, hold, live, jw, tx, blocks, i, rp, outcome, faults>>
  BY DEF MarkBeforeReplay, Flush
<1>2. TxInv' /\ LogInv' /\ WalkInv' /\ HomeInv' /\ RecoverInv'
  BY <1>1, FlushKeeps DEF Quiet
<1>3. CursorInv'
  BY <1>1, <1>N DEF CursorInv, Dirty, Logging, Committing
<1>4. OutcomeInv'
  BY <1>1 DEF OutcomeInv, Dirty, Committing
<1> QED
  BY <1>2, <1>3, <1>4

\* Setting the marker before the replay preserves the invariant.
LEMMA FirstMarkerKeeps ==
  ASSUME Settled, IInv, TypeInv', SetMarker("marker1", "markerfence1", "replay")
  PROVE  IInv'
<1> USE DEF IInv
<1>T. Typed
  BY TypeFacts
<1>B. SB \in Block /\ Len(tx) \in Nat /\ \A k \in 1 .. Len(tx) : tx[k].blk \in Block
  BY <1>T DEF Typed
<1>I. disk \in Image /\ vol \in Image /\ jw \in Jsb /\ tx \in Seq(Write)
  BY <1>T DEF Typed
<1>1. /\ pc = "marker1" /\ pc' \in {"markerfence1", "replay"}
      /\ vol'.log = vol.log /\ vol'.jsb = vol.jsb
      /\ vol.home[SB].rec => vol'.home[SB].rec
      /\ \A b \in Block : vol'.home[b].data = vol.home[b].data
      /\ UNCHANGED <<disk, healthy, hold, live, marked, jw, tx, blocks, i, rp, outcome, faults>>
  <2>1. CASE vol.home[SB].rec
    BY <2>1 DEF SetMarker
  <2>2. CASE ~vol.home[SB].rec
    BY <1>I, WriteRecoverImage, Zenon DEF SetMarker
  <2> QED
    BY <2>1, <2>2
<1>2. TxInv' /\ LogInv' /\ WalkInv' /\ HomeInv' /\ RecoverInv'
  BY <1>1, <1>B, StillKeeps DEF Quiet
<1>3. CursorInv'
  BY <1>1 DEF CursorInv, Dirty, Logging, Committing
<1>4. OutcomeInv'
  BY <1>1 DEF OutcomeInv, Dirty, Committing
<1> QED
  BY <1>2, <1>3, <1>4

\* The flush after the first marker preserves the invariant.
LEMMA FirstMarkerFenceKeeps ==
  ASSUME Settled, IInv, TypeInv', MarkerFence("markerfence1", "replay")
  PROVE  IInv'
<1> USE DEF IInv
<1>1. /\ pc = "markerfence1"
      /\ pc' = "replay"
      /\ disk' = vol
      /\ vol' = vol
      /\ UNCHANGED <<vol, healthy, hold, live, marked, jw, tx, blocks, i, rp, outcome, faults>>
  BY DEF MarkerFence, Flush
<1>2. TxInv' /\ LogInv' /\ WalkInv' /\ HomeInv' /\ RecoverInv'
  BY <1>1, FlushKeeps DEF Quiet
<1>3. CursorInv'
  BY <1>1 DEF CursorInv, Dirty, Logging, Committing
<1>4. OutcomeInv'
  BY <1>1 DEF OutcomeInv, Dirty, Committing
<1> QED
  BY <1>2, <1>3, <1>4

\* Setting the marker again after the replay preserves the invariant.
LEMMA SecondMarkerKeeps ==
  ASSUME Settled, IInv, TypeInv', SetMarker("marker2", "markerfence2", "open")
  PROVE  IInv'
<1> USE DEF IInv
<1>T. Typed
  BY TypeFacts
<1>B. SB \in Block /\ Len(tx) \in Nat /\ \A k \in 1 .. Len(tx) : tx[k].blk \in Block
  BY <1>T DEF Typed
<1>I. disk \in Image /\ vol \in Image /\ jw \in Jsb /\ tx \in Seq(Write)
  BY <1>T DEF Typed
<1>1. /\ pc = "marker2" /\ pc' \in {"markerfence2", "open"}
      /\ vol'.log = vol.log /\ vol'.jsb = vol.jsb
      /\ vol.home[SB].rec => vol'.home[SB].rec
      /\ \A b \in Block : vol'.home[b].data = vol.home[b].data
      /\ UNCHANGED <<disk, healthy, hold, live, marked, jw, tx, blocks, i, rp, outcome, faults>>
  <2>1. CASE vol.home[SB].rec
    BY <2>1 DEF SetMarker
  <2>2. CASE ~vol.home[SB].rec
    BY <1>I, WriteRecoverImage, Zenon DEF SetMarker
  <2> QED
    BY <2>1, <2>2
<1>2. TxInv' /\ LogInv' /\ WalkInv' /\ HomeInv' /\ RecoverInv'
  BY <1>1, <1>B, StillKeeps DEF Quiet
<1>3. CursorInv'
  BY <1>1 DEF CursorInv, Dirty, Logging, Committing
<1>4. OutcomeInv'
  BY <1>1 DEF OutcomeInv, Dirty, Committing
<1> QED
  BY <1>2, <1>3, <1>4

\* The flush after the second marker preserves the invariant.
LEMMA SecondMarkerFenceKeeps ==
  ASSUME Settled, IInv, TypeInv', MarkerFence("markerfence2", "open")
  PROVE  IInv'
<1> USE DEF IInv
<1>1. /\ pc = "markerfence2"
      /\ pc' = "open"
      /\ disk' = vol
      /\ vol' = vol
      /\ UNCHANGED <<vol, healthy, hold, live, marked, jw, tx, blocks, i, rp, outcome, faults>>
  BY DEF MarkerFence, Flush
<1>2. TxInv' /\ LogInv' /\ WalkInv' /\ HomeInv' /\ RecoverInv'
  BY <1>1, FlushKeeps DEF Quiet
<1>3. CursorInv'
  BY <1>1 DEF CursorInv, Dirty, Logging, Committing
<1>4. OutcomeInv'
  BY <1>1 DEF OutcomeInv, Dirty, Committing
<1> QED
  BY <1>2, <1>3, <1>4

\* JournalWriter::open preserves the invariant.
LEMMA OpenWriterKeeps ==
  ASSUME Settled, IInv, TypeInv', OpenWriter
  PROVE  IInv'
<1> USE DEF IInv
<1>T. Typed
  BY TypeFacts
<1>B. SB \in Block /\ Len(tx) \in Nat /\ \A k \in 1 .. Len(tx) : tx[k].blk \in Block
  BY <1>T DEF Typed
<1>1. /\ pc = "open"
      /\ pc' = "up"
      /\ jw' = vol.jsb
      /\ healthy' = TRUE
      /\ outcome' = "none"
      /\ UNCHANGED <<disk, vol, hold, live, marked, tx, blocks, i, rp, faults>>
  BY DEF OpenWriter
<1>2. TxInv' /\ LogInv' /\ WalkInv' /\ HomeInv' /\ RecoverInv'
  BY <1>1, <1>B, StillKeeps DEF Quiet
<1>3. CursorInv'
  BY <1>1 DEF CursorInv, Dirty, Logging, Committing
<1>4. OutcomeInv'
  BY <1>1 DEF OutcomeInv, CursorInv, Dirty, Committing
<1> QED
  BY <1>2, <1>3, <1>4

\* The replay hook of a mounted volume preserves the invariant.
LEMMA StartReplayKeeps ==
  ASSUME Settled, IInv, TypeInv', StartReplay
  PROVE  IInv'
<1> USE DEF IInv
<1>T. Typed
  BY TypeFacts
<1>B. SB \in Block /\ Len(tx) \in Nat /\ \A k \in 1 .. Len(tx) : tx[k].blk \in Block
  BY <1>T DEF Typed
<1>1. /\ pc = "up"
      /\ pc' = "replay"
      /\ disk = vol
      /\ UNCHANGED <<disk, vol, healthy, hold, marked, jw, tx, blocks, i, rp, outcome, faults>>
  BY DEF StartReplay, DeviceSettled
<1>2. TxInv' /\ LogInv' /\ WalkInv' /\ HomeInv' /\ RecoverInv'
  BY <1>1, <1>B, StillKeeps DEF Quiet
<1>3. CursorInv'
  BY <1>1 DEF CursorInv, Dirty, Logging, Committing
<1>4. OutcomeInv'
  BY <1>1 DEF OutcomeInv, Dirty, Committing
<1> QED
  BY <1>2, <1>3, <1>4

\* Unmounting preserves the invariant.
LEMMA UnmountKeeps ==
  ASSUME Settled, IInv, TypeInv', Unmount
  PROVE  IInv'
<1> USE DEF IInv
<1>T. Typed
  BY TypeFacts
<1>N. disk.jsb.seq \in Nat /\ vol.jsb.seq \in Nat /\ jw.seq \in Nat
  BY <1>T DEF Typed
<1>B. SB \in Block /\ Len(tx) \in Nat /\ \A k \in 1 .. Len(tx) : tx[k].blk \in Block
  BY <1>T DEF Typed
<1>1. /\ pc = "up"
      /\ pc' = "down"
      /\ healthy' = FALSE
      /\ disk' = vol \/ disk' = disk
      /\ UNCHANGED <<vol, hold, live, marked, jw, tx, blocks, i, rp, outcome, faults>>
  BY DEF Unmount
<1>2. TxInv' /\ LogInv' /\ WalkInv' /\ HomeInv' /\ RecoverInv'
  <2>1. CASE disk' = vol
    BY <1>1, <2>1, FlushKeeps DEF Quiet
  <2>2. CASE disk' = disk
    BY <1>1, <2>2, <1>B, StillKeeps DEF Quiet
  <2> QED
    BY <1>1, <2>1, <2>2
<1>3. CursorInv'
  <2>1. CASE disk' = vol
    BY <1>1, <1>N, <2>1 DEF CursorInv, Dirty, Logging, Committing
  <2>2. CASE disk' = disk
    BY <1>1, <1>N, <2>2 DEF CursorInv, Dirty, Logging, Committing
  <2> QED
    BY <1>1, <2>1, <2>2
<1>4. OutcomeInv'
  BY <1>1 DEF OutcomeInv, Dirty, Committing
<1> QED
  BY <1>2, <1>3, <1>4

\* Starting a mount, its markers, opening the writer, the replay hook and unmounting
\* preserve the invariant.
LEMMA OpenKeeps ==
  ASSUME Settled, IInv, TypeInv',
         \/ \E checked \in BOOLEAN : StartMount(checked)
         \/ MarkBeforeReplay
         \/ SetMarker("marker1", "markerfence1", "replay") \/ MarkerFence("markerfence1", "replay")
         \/ SetMarker("marker2", "markerfence2", "open") \/ MarkerFence("markerfence2", "open")
         \/ OpenWriter \/ StartReplay \/ Unmount
  PROVE  IInv'
BY StartMountKeeps, MarkBeforeReplayKeeps, FirstMarkerKeeps, FirstMarkerFenceKeeps,
   SecondMarkerKeeps, SecondMarkerFenceKeeps, OpenWriterKeeps, StartReplayKeeps,
   UnmountKeeps
=============================================================================
