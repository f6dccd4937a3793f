--------------------------- MODULE NamespaceProofs ---------------------------
(***************************************************************************)
(* The operations on names keep link counts exact: if the counts of a      *)
(* volume are its names and subdirectories, so are those of the volume any *)
(* operation stages.  For any number of inodes and groups, any names, any  *)
(* tree of directories, and with and without DIR_NLINK at the limit.       *)
(*                                                                         *)
(* One pair of lemmas per operation.  XFacts says what apply_X stages, in  *)
(* terms of the names, kinds and counts before it; XOrder that a volume in *)
(* order is in order afterwards.  A count is a cardinality: NameAdded,     *)
(* NameDropped and NameMoved say how it follows the names.                 *)
(***************************************************************************)
EXTENDS Namespace, FiniteSetTheorems, TLAPS

-----------------------------------------------------------------------------
(* The shape of a volume and what each step does to it. *)

\* The fields of a volume and the columns of its inode table, as the operations read them.
Fields == {"tab", "bits", "ents", "up", "xref", "grp", "sb", "total", "next", "bad"}
Columns == {"kind", "links", "gen", "blocks", "acl", "id"}

\* The types the operations rely on.
Form(t) ==
    /\ DOMAIN t = Fields
    /\ t.bits \subseteq Ino
    /\ DOMAIN t.tab = Ino /\ DOMAIN t.ents = Ino /\ DOMAIN t.up = Ino
    /\ DOMAIN t.grp = Groups
    /\ \A i \in Ino : DOMAIN t.tab[i] = Columns /\ t.tab[i].links \in Nat
    /\ \A g \in Groups : t.grp[g] \in [free : Int, dirs : Int]

\* u has the names, the inodes in use, their kinds and the way up of t.
SameNames(t, u) ==
    /\ u.bits = t.bits /\ u.ents = t.ents /\ u.up = t.up
    /\ \A i \in Ino : u.tab[i].kind = t.tab[i].kind

\* The link counts of t and u agree.
SameLinks(t, u) == \A i \in Ino : u.tab[i].links = t.tab[i].links

\* A volume in order has the types its operations rely on, and nothing was refused.
LEMMA SoundForm ==
  ASSUME NEW t, SoundVolume(t)
  PROVE  Form(t) /\ t.bad = "ok"
BY Zenon DEF SoundVolume, Form, Fields, Columns

\* A call that refuses says why.
LEMMA StopFacts ==
  ASSUME NEW t, Form(t), NEW why
  PROVE  Stop(t, why).bad = why
BY Zenon DEF Stop, Form, Fields

\* A new inode (buffer_mark_inode_used and the inode written) takes its bit and
\* its slot, and no name.
LEMMA NewInodeFacts ==
  ASSUME NEW t, Form(t), t.bad = "ok", NEW i \in Ino, NEW kind, NEW blocks, NEW links \in Nat,
         NEW u, u = NewInode(t, i, kind, blocks, links), u.bad = "ok"
  PROVE  /\ Form(u)
         /\ u.bits = t.bits \cup {i} /\ u.ents = t.ents /\ u.up = t.up
         /\ \A x \in Ino : x # i => u.tab[x] = t.tab[x]
         /\ u.tab[i].kind = kind /\ u.tab[i].links = links
<1> DEFINE r == [kind |-> kind, links |-> links, gen |-> next_inode_generation(counter),
                 blocks |-> blocks, acl |-> 0, id |-> t.next]
           g == GroupOf(i)
           q == [t.grp EXCEPT ![g] = [free |-> @.free - 1, dirs |-> @.dirs + (IF kind = "dir" THEN 1 ELSE 0)]]
           s == [inodes |-> t.sb.inodes - 1, blocks |-> t.sb.blocks - blocks]
<1>0. i # 0
  BY NamespaceAssumption DEF Ino
<1>1. ~ (blocks > t.sb.blocks)
  <2> SUFFICES ASSUME blocks > t.sb.blocks PROVE FALSE
    BY Zenon
  <2>1. u = Stop(t, "nospace")
    BY <1>0, Zenon DEF NewInode
  <2> QED
    BY <2>1, StopFacts
<1>2. u = [t EXCEPT !.bits = @ \cup {i}, !.grp = q, !.sb = s,
                    !.tab = [t.tab EXCEPT ![i] = r], !.next = @ + 1]
  BY <1>0, <1>1, Zenon DEF NewInode
<1>3. /\ DOMAIN q = Groups
      /\ \A x \in Groups : q[x] \in [free : Int, dirs : Int]
  BY DEF Form
<1>4. DOMAIN r = Columns /\ r.links = links /\ r.kind = kind
  BY Zenon DEF Columns
<1> HIDE DEF r, g, q, s
<1>5. /\ DOMAIN u = Fields /\ u.bits = t.bits \cup {i} /\ u.ents = t.ents /\ u.up = t.up
      /\ u.grp = q /\ u.tab = [t.tab EXCEPT ![i] = r]
  BY <1>2, Zenon DEF Form, Fields
<1>6. /\ DOMAIN u.tab = Ino /\ u.tab[i] = r
      /\ \A x \in Ino : x # i => u.tab[x] = t.tab[x]
  BY <1>5, Zenon DEF Form
<1>7. Form(u)
  BY <1>3, <1>4, <1>5, <1>6, Zenon DEF Form
<1> QED
  BY <1>4, <1>5, <1>6, <1>7, Zenon

\* An attribute block given back (buffer_release_xattr_block) leaves inodes and
\* names alone.
LEMMA ReleaseFacts ==
  ASSUME NEW t, Form(t), NEW x, NEW u, u = buffer_release_xattr_block(t, x)
  PROVE  /\ DOMAIN u = Fields /\ u.bits = t.bits /\ u.tab = t.tab /\ u.ents = t.ents
         /\ u.up = t.up /\ u.grp = t.grp /\ u.bad = t.bad
<1>1. CASE u = t
  BY <1>1, Zenon DEF Form
<1>2. CASE u = [t EXCEPT !.xref[x] = 0, !.sb.blocks = @ + 1]
  BY <1>2, Zenon DEF Form, Fields
<1>3. CASE u = [t EXCEPT !.xref[x] = @ - 1]
  BY <1>3, Zenon DEF Form, Fields
<1> QED
  BY <1>1, <1>2, <1>3, Zenon DEF buffer_release_xattr_block

\* The end of an inode: its bit, its slot and its entries, if it had any.
LEMMA FreeInodeFacts ==
  ASSUME NEW t, Form(t), NEW i \in Ino, NEW u, u = FreeInode(t, i)
  PROVE  /\ Form(u) /\ u.bad = t.bad
         /\ u.bits = t.bits \ {i} /\ u.up = t.up
         /\ \A x \in Ino : x # i => u.tab[x] = t.tab[x] /\ u.ents[x] = t.ents[x]
         /\ u.tab[i].kind = "none" /\ DOMAIN u.ents[i] = {}
<1> DEFINE w == buffer_release_xattr_block(t, t.tab[i].acl)
           r == NoInode(t.tab[i].gen)
           g == GroupOf(i)
           q == [w.grp EXCEPT ![g] = [free |-> @.free + 1, dirs |-> @.dirs - (IF IsDir(t, i) THEN 1 ELSE 0)]]
           s == [inodes |-> w.sb.inodes + 1, blocks |-> w.sb.blocks + t.tab[i].blocks]
<1>1. /\ DOMAIN w = Fields /\ w.bits = t.bits /\ w.tab = t.tab /\ w.ents = t.ents
      /\ w.up = t.up /\ w.grp = t.grp /\ w.bad = t.bad
  BY ReleaseFacts
<1>2. u = [w EXCEPT !.bits = @ \ {i}, !.grp = q, !.sb = s,
                    !.tab = [w.tab EXCEPT ![i] = r], !.ents = [w.ents EXCEPT ![i] = <<>>]]
  BY Zenon DEF FreeInode
<1>3. /\ DOMAIN q = Groups
      /\ \A x \in Groups : q[x] \in [free : Int, dirs : Int]
  BY <1>1 DEF Form
<1>4. DOMAIN r = Columns /\ r.links = 0 /\ r.kind = "none"
  BY Zenon DEF Columns, NoInode
<1> HIDE DEF r, g, q, s, w
<1>5. /\ DOMAIN u = Fields /\ u.bits = w.bits \ {i} /\ u.ents = [w.ents EXCEPT ![i] = <<>>]
      /\ u.up = w.up /\ u.bad = w.bad
      /\ u.grp = q /\ u.tab = [w.tab EXCEPT ![i] = r]
  BY <1>1, <1>2, Zenon DEF Fields
<1>6. /\ DOMAIN u.tab = Ino /\ u.tab[i] = r
      /\ \A x \in Ino : x # i => u.tab[x] = t.tab[x]
  BY <1>1, <1>5 DEF Form
<1>7. /\ DOMAIN u.ents = Ino /\ u.ents[i] = <<>>
      /\ \A x \in Ino : x # i => u.ents[x] = t.ents[x]
  BY <1>1, <1>5 DEF Form
<1>8. DOMAIN u.ents[i] = {}
  BY <1>7
<1>9. Form(u)
  BY <1>1, <1>3, <1>4, <1>5, <1>6, <1>7 DEF Form
<1> QED
  BY <1>1, <1>4, <1>5, <1>6, <1>7, <1>8, <1>9, Zenon

\* Which inode a name leads to.
Leads(t, d, n, i) == n \in DOMAIN t.ents[d] /\ t.ents[d][n] = i

\* u is t with the name n in d for i.
Added(t, u, d, n, i) ==
    \A x \in Ino : \A m, y : Leads(u, x, m, y) <=> IF x = d /\ m = n THEN y = i ELSE Leads(t, x, m, y)

\* u is t without the name n in d.
Removed(t, u, d, n) ==
    \A x \in Ino : \A m, y : Leads(u, x, m, y) <=> Leads(t, x, m, y) /\ ~ (x = d /\ m = n)

\* An add, in place or by growing the directory, makes one name.
LEMMA AddEntryFacts ==
  ASSUME NEW t, Form(t), NEW d \in Ino, NEW n, NEW i, NEW grow,
         NEW u, u = AddEntry(t, d, n, i, grow), u.bad = "ok"
  PROVE  /\ Form(u) /\ t.bad = "ok" /\ u.bits = t.bits /\ u.up = t.up
         /\ \A x \in Ino : u.tab[x].kind = t.tab[x].kind /\ u.tab[x].links = t.tab[x].links
         /\ Added(t, u, d, n, i)
         /\ \A x \in Ino : x # d => u.ents[x] = t.ents[x]
<1> DEFINE e == [m \in DOMAIN t.ents[d] \cup {n} |-> IF m = n THEN i ELSE t.ents[d][m]]
           b == [t.tab[d] EXCEPT !.blocks = @ + grow]
           s == [t.sb EXCEPT !.blocks = @ - grow]
<1>1. t.bad = "ok" /\ ~ (grow > t.sb.blocks)
  <2>1. CASE t.bad # "ok"
    BY <2>1, Zenon DEF AddEntry
  <2>2. CASE t.bad = "ok" /\ grow > t.sb.blocks
    <3>1. u = Stop(t, "nospace")
      BY <2>2, Zenon DEF AddEntry
    <3> QED
      BY <3>1, StopFacts
  <2> QED
    BY <2>1, <2>2, Zenon
<1>2. u = [t EXCEPT !.ents = [t.ents EXCEPT ![d] = e], !.tab = [t.tab EXCEPT ![d] = b], !.sb = s]
  BY <1>1, Zenon DEF AddEntry
<1>3. DOMAIN b = Columns /\ b.kind = t.tab[d].kind /\ b.links = t.tab[d].links
  BY Zenon DEF Form, Columns
<1>4. \A m, y : (m \in DOMAIN e /\ e[m] = y) <=> IF m = n THEN y = i ELSE Leads(t, d, m, y)
  BY Zenon DEF Leads
<1> HIDE DEF e, b, s
<1>5. /\ DOMAIN u = Fields /\ u.bits = t.bits /\ u.up = t.up /\ u.grp = t.grp /\ u.bad = t.bad
      /\ u.ents = [t.ents EXCEPT ![d] = e] /\ u.tab = [t.tab EXCEPT ![d] = b]
  BY <1>2, Zenon DEF Form, Fields
<1>6. /\ DOMAIN u.tab = Ino /\ u.tab[d] = b
      /\ \A x \in Ino : x # d => u.tab[x] = t.tab[x]
  BY <1>5, Zenon DEF Form
<1>7. /\ DOMAIN u.ents = Ino /\ u.ents[d] = e
      /\ \A x \in Ino : x # d => u.ents[x] = t.ents[x]
  BY <1>5, Zenon DEF Form
<1>8. Form(u)
  BY <1>3, <1>5, <1>6, <1>7 DEF Form
<1>9. Added(t, u, d, n, i)
  BY <1>4, <1>7 DEF Leads, Added
<1> QED
  BY <1>1, <1>3, <1>5, <1>6, <1>7, <1>8, <1>9, Zenon

\* A removal takes one name away.
LEMMA RemoveEntryFacts ==
  ASSUME NEW t, Form(t), NEW d \in Ino, NEW n, NEW u, u = RemoveEntry(t, d, n)
  PROVE  /\ Form(u) /\ u.bad = t.bad /\ u.bits = t.bits /\ u.up = t.up /\ u.tab = t.tab
         /\ Removed(t, u, d, n)
         /\ \A x \in Ino : x # d => u.ents[x] = t.ents[x]
<1> DEFINE e == [m \in DOMAIN t.ents[d] \ {n} |-> t.ents[d][m]]
<1>2. u = [t EXCEPT !.ents = [t.ents EXCEPT ![d] = e]]
  BY Zenon DEF RemoveEntry
<1>4. \A m, y : (m \in DOMAIN e /\ e[m] = y) <=> Leads(t, d, m, y) /\ m # n
  BY Zenon DEF Leads
<1> HIDE DEF e
<1>5. /\ DOMAIN u = Fields /\ u.bits = t.bits /\ u.up = t.up /\ u.grp = t.grp /\ u.bad = t.bad
      /\ u.ents = [t.ents EXCEPT ![d] = e] /\ u.tab = t.tab
  BY <1>2, Zenon DEF Form, Fields
<1>7. /\ DOMAIN u.ents = Ino /\ u.ents[d] = e
      /\ \A x \in Ino : x # d => u.ents[x] = t.ents[x]
  BY <1>5, Zenon DEF Form
<1>8. Form(u)
  BY <1>5, <1>7, Zenon DEF Form
<1>9. Removed(t, u, d, n)
  BY <1>4, <1>7 DEF Leads, Removed
<1> QED
  BY <1>5, <1>7, <1>8, <1>9, Zenon

\* next_links_count stays a count.
LEMMA CountType ==
  ASSUME NEW isdir \in BOOLEAN, NEW count \in Nat, NEW delta \in Int
  PROVE  next_links_count(isdir, count, delta) \in Nat
BY NamespaceAssumption DEF next_links_count, TooMany

\* patch_inode_nlink changes one link count, or stops the call.
LEMMA PatchFacts ==
  ASSUME NEW t, Form(t), NEW i \in Ino, NEW delta \in Int,
         NEW u, u = patch_inode_nlink(t, i, delta), u.bad = "ok"
  PROVE  /\ Form(u) /\ t.bad = "ok" /\ u.bits = t.bits /\ u.up = t.up /\ u.ents = t.ents
         /\ \A x \in Ino : u.tab[x].kind = t.tab[x].kind
         /\ \A x \in Ino : x # i => u.tab[x].links = t.tab[x].links
         /\ delta = 0 => u.tab[i].links = t.tab[i].links
         /\ delta # 0 => /\ u.tab[i].links = next_links_count(IsDir(t, i), t.tab[i].links, delta)
                         /\ u.tab[i].links # TooMany
<1> DEFINE c == next_links_count(IsDir(t, i), t.tab[i].links, delta)
           b == [t.tab[i] EXCEPT !.links = c]
<1>1. t.bad = "ok"
  BY StopFacts, Zenon DEF patch_inode_nlink
<1>2. CASE delta = 0
  BY <1>1, <1>2, Zenon DEF patch_inode_nlink
<1>3. CASE delta # 0
  <2>0. c \in Nat
    BY CountType, Zenon DEF Form, IsDir
  <2>1. c # TooMany
    <3> SUFFICES ASSUME c = TooMany PROVE FALSE
      BY Zenon
    <3>1. u = Stop(t, "toomany")
      BY <1>1, <1>3, Zenon DEF patch_inode_nlink
    <3> QED
      BY <3>1, StopFacts
  <2>2. u = [t EXCEPT !.tab = [t.tab EXCEPT ![i] = b]]
    BY <1>1, <1>3, <2>1, Zenon DEF patch_inode_nlink
  <2> HIDE DEF c
  <2>3. DOMAIN b = Columns /\ b.kind = t.tab[i].kind /\ b.links = c
    BY Zenon DEF Form, Columns
  <2> HIDE DEF b
  <2>5. /\ DOMAIN u = Fields /\ u.bits = t.bits /\ u.up = t.up /\ u.grp = t.grp
        /\ u.ents = t.ents /\ u.tab = [t.tab EXCEPT ![i] = b]
    BY <2>2, Zenon DEF Form, Fields
  <2>6. /\ DOMAIN u.tab = Ino /\ u.tab[i] = b
        /\ \A x \in Ino : x # i => u.tab[x] = t.tab[x]
    BY <2>5, Zenon DEF Form
  <2>8. Form(u)
    BY <2>0, <2>3, <2>5, <2>6, Zenon DEF Form
  <2> QED
    BY <1>1, <1>3, <2>1, <2>3, <2>5, <2>6, <2>8, Zenon DEF c
<1> QED
  BY <1>2, <1>3, Zenon

-----------------------------------------------------------------------------
(* A sound volume, in terms of where each name leads. *)

\* Only directories have entries.
OnlyDirs(t) == \A i \in Ino \ DirsIn(t) : DOMAIN t.ents[i] = {}

\* The one name of the directory x, n, is in the directory its `..` says.
OneName(t, x, n) == \A d \in Ino : \A m : Leads(t, d, m, x) <=> d = t.up[x] /\ m = n

\* The names are in order.
Tree(t) ==
    /\ OnlyDirs(t) /\ IsFiniteSet(Places(t))
    /\ Root \in DirsIn(t) /\ t.up[Root] = Root
    /\ \A x \in DirsIn(t) : t.up[x] \in DirsIn(t)
    /\ \A d \in Ino : \A n, i : Leads(t, d, n, i) => i \in LiveIn(t) \ {Root}
    /\ \A x \in DirsIn(t) \ {Root} : \E n : OneName(t, x, n)

\* SoundVolume in the form the proofs use: names by what they lead to, and the root,
\* the directories and the link counts apart.
Order(t) ==
    /\ Form(t) /\ t.bad = "ok"
    /\ \A i \in LiveIn(t) : t.tab[i].kind # "none"
    /\ Tree(t) /\ LinksRight(t)

\* The places of a volume are its entries.
LEMMA PlacesAre ==
  ASSUME NEW t, OnlyDirs(t), NEW p
  PROVE  p \in Places(t) <=> \E d \in Ino : \E n \in DOMAIN t.ents[d] : p = <<d, n>>
<1>1. p \in Places(t) <=> \E d \in DirsIn(t) : \E n \in DOMAIN t.ents[d] : p = <<d, n>>
  BY DEF Places
<1>2. DirsIn(t) \subseteq Ino
  BY Zenon DEF DirsIn, LiveIn
<1>3. ASSUME NEW d \in Ino, NEW n \in DOMAIN t.ents[d]
      PROVE  d \in DirsIn(t)
  BY <1>3, Zenon DEF OnlyDirs
<1> QED
  BY <1>1, <1>2, <1>3, Zenon

\* The names of an inode are the entries that lead to it.
LEMMA NamesAre ==
  ASSUME NEW t, OnlyDirs(t), NEW i
  PROVE  /\ \A p \in NamesOf(t, i) : \E d \in Ino : \E n : p = <<d, n>> /\ Leads(t, d, n, i)
         /\ \A d \in Ino : \A n : Leads(t, d, n, i) => <<d, n>> \in NamesOf(t, i)
<1>1. ASSUME NEW p \in NamesOf(t, i)
      PROVE  \E d \in Ino : \E n : p = <<d, n>> /\ Leads(t, d, n, i)
  <2>1. p \in Places(t) /\ t.ents[p[1]][p[2]] = i
    BY Zenon DEF NamesOf
  <2>2. PICK d \in Ino : \E n \in DOMAIN t.ents[d] : p = <<d, n>>
    BY <2>1, PlacesAre
  <2>3. PICK n \in DOMAIN t.ents[d] : p = <<d, n>>
    BY <2>2, Zenon
  <2>4. t.ents[d][n] = i
    BY <2>1, <2>3, Zenon
  <2> QED
    BY <2>3, <2>4, Zenon DEF Leads
<1>2. ASSUME NEW d \in Ino, NEW n, Leads(t, d, n, i)
      PROVE  <<d, n>> \in NamesOf(t, i)
  <2>1. <<d, n>> \in Places(t)
    BY <1>2, PlacesAre, Zenon DEF Leads
  <2>2. t.ents[<<d, n>>[1]][<<d, n>>[2]] = i
    BY <1>2, Zenon DEF Leads
  <2> QED
    BY <2>1, <2>2, Zenon DEF NamesOf
<1> QED
  BY <1>1, <1>2, Zenon

\* There are finitely many directories, so the subdirectories that patch_inode_nlink
\* accounts for can be counted.
LEMMA DirsFinite ==
  ASSUME NEW t
  PROVE  /\ IsFiniteSet(DirsIn(t)) /\ DirsIn(t) \subseteq LiveIn(t) /\ LiveIn(t) \subseteq Ino
         /\ \A i : IsFiniteSet(Subdirs(t, i)) /\ Cardinality(Subdirs(t, i)) \in Nat
<1>1. IsFiniteSet(Ino)
  BY FS_Interval, NamespaceAssumption DEF Ino
<1>2. DirsIn(t) \subseteq LiveIn(t) /\ LiveIn(t) \subseteq Ino
  BY Zenon DEF DirsIn, LiveIn
<1>3. IsFiniteSet(DirsIn(t))
  BY <1>1, <1>2, FS_Subset, Zenon
<1>4. ASSUME NEW i PROVE IsFiniteSet(Subdirs(t, i)) /\ Cardinality(Subdirs(t, i)) \in Nat
  <2>1. Subdirs(t, i) \subseteq DirsIn(t)
    BY Zenon DEF Subdirs
  <2>2. IsFiniteSet(Subdirs(t, i))
    BY <1>3, <2>1, FS_Subset, Zenon
  <2> QED
    BY <2>2, FS_CardinalityType, Zenon
<1> QED
  BY <1>2, <1>3, <1>4, Zenon

\* A volume with finitely many entries has finitely many names of an inode.
LEMMA NamesFinite ==
  ASSUME NEW t, IsFiniteSet(Places(t)), NEW i
  PROVE  IsFiniteSet(NamesOf(t, i)) /\ Cardinality(NamesOf(t, i)) \in Nat
<1>1. NamesOf(t, i) \subseteq Places(t)
  BY Zenon DEF NamesOf
<1>2. IsFiniteSet(NamesOf(t, i))
  BY <1>1, FS_Subset, Zenon
<1> QED
  BY <1>2, FS_CardinalityType, Zenon

\* An inode in use has links.
LEMMA LinksPositive ==
  ASSUME NEW t, LinksRight(t), NEW i \in LiveIn(t)
  PROVE  t.tab[i].links # 0
<1>1. Cardinality(Subdirs(t, i)) \in Nat
  BY DirsFinite, Zenon
<1> QED
  BY <1>1 DEF LinksRight

\* live_inode of a volume in order finds every inode in use.
LEMMA LiveIff ==
  ASSUME NEW t, LinksRight(t), \A i \in LiveIn(t) : t.tab[i].kind # "none", NEW i
  PROVE  live_inode(t, Ref(i, GEN_ANY)) <=> i \in LiveIn(t)
<1>1. Ref(i, GEN_ANY).ino = i /\ Ref(i, GEN_ANY).gen \in {GEN_ANY, t.tab[i].gen}
  BY Zenon DEF Ref
<1>2. live_inode(t, Ref(i, GEN_ANY)) => i \in LiveIn(t)
  BY <1>1, Zenon DEF live_inode, LiveIn
<1>3. ASSUME i \in LiveIn(t) PROVE live_inode(t, Ref(i, GEN_ANY))
  <2>1. t.tab[i].links # 0
    BY <1>3, LinksPositive, Zenon
  <2> QED
    BY <1>1, <1>3, <2>1, Zenon DEF live_inode, LiveIn
<1> QED
  BY <1>2, <1>3, Zenon

\* A volume in order, as the operations take it, is one as the proofs take it ...
LEMMA SoundOrder ==
  ASSUME NEW t, SoundVolume(t)
  PROVE  Order(t)
<1>1. Form(t) /\ t.bad = "ok"
  BY SoundForm, Zenon
<1>2. /\ OnlyDirs(t) /\ Root \in DirsIn(t) /\ t.up[Root] = Root
      /\ \A x \in DirsIn(t) : t.up[x] \in DirsIn(t)
      /\ \A i \in LiveIn(t) : t.tab[i].kind # "none"
      /\ IsFiniteSet(Places(t)) /\ LinksRight(t)
      /\ NamesOf(t, Root) = {} /\ NamesRight(t)
  BY Zenon DEF SoundVolume, OnlyDirs
<1>3. ASSUME NEW d \in Ino, NEW n, NEW i, Leads(t, d, n, i)
      PROVE  i \in LiveIn(t) \ {Root}
  <2>1. <<d, n>> \in NamesOf(t, i)
    BY <1>2, <1>3, NamesAre, Zenon
  <2>2. i # Root
    BY <1>2, <2>1, Zenon
  <2>3. d \in DirsIn(t) /\ n \in DOMAIN t.ents[d]
    BY <1>2, <1>3, Zenon DEF OnlyDirs, Leads
  <2>4. live_inode(t, Ref(t.ents[d][n], GEN_ANY))
    BY <1>2, <2>3, Zenon DEF NamesRight
  <2>5. t.ents[d][n] = i
    BY <1>3, Zenon DEF Leads
  <2>6. i \in LiveIn(t)
    BY <1>2, <2>4, <2>5, LiveIff, Zenon
  <2> QED
    BY <2>2, <2>6, Zenon
<1>4. ASSUME NEW x \in DirsIn(t) \ {Root}
      PROVE  \E n : OneName(t, x, n)
  <2>1. /\ Cardinality(NamesOf(t, x)) = 1 /\ IsFiniteSet(NamesOf(t, x))
        /\ \A p \in NamesOf(t, x) : p[1] = t.up[x]
    BY <1>2, NamesFinite, Zenon DEF NamesRight
  <2>2. PICK p : NamesOf(t, x) = {p}
    BY <2>1, FS_Singleton, Zenon
  <2>3. PICK e, n : e \in Ino /\ p = <<e, n>> /\ Leads(t, e, n, x)
    BY <1>2, <2>2, NamesAre, Zenon
  <2>4. e = t.up[x]
    BY <2>1, <2>2, <2>3
  <2>5. ASSUME NEW d \in Ino, NEW m, Leads(t, d, m, x) PROVE d = e /\ m = n
    <3>1. <<d, m>> \in NamesOf(t, x)
      BY <1>2, <2>5, NamesAre, Zenon
    <3>2. <<d, m>> = <<e, n>>
      BY <2>2, <2>3, <3>1, Zenon
    <3> QED
      BY <3>2, Zenon
  <2>6. OneName(t, x, n)
    BY <2>3, <2>4, <2>5, Zenon DEF OneName
  <2> QED
    BY <2>6, Zenon
<1> QED
  BY <1>1, <1>2, <1>3, <1>4, Zenon DEF Order, Tree

\* ... and the other way round.
LEMMA OrderSound ==
  ASSUME NEW t, Order(t)
  PROVE  SoundVolume(t)
<1>1. /\ Form(t) /\ t.bad = "ok" /\ OnlyDirs(t)
      /\ Root \in DirsIn(t) /\ t.up[Root] = Root
      /\ \A x \in DirsIn(t) : t.up[x] \in DirsIn(t)
      /\ \A i \in LiveIn(t) : t.tab[i].kind # "none"
      /\ IsFiniteSet(Places(t)) /\ LinksRight(t)
      /\ \A d \in Ino : \A n, i : Leads(t, d, n, i) => i \in LiveIn(t) \ {Root}
      /\ \A x \in DirsIn(t) \ {Root} : \E n : OneName(t, x, n)
  BY Zenon DEF Order, Tree
<1>2. NamesOf(t, Root) = {}
  <2> SUFFICES ASSUME NEW p \in NamesOf(t, Root) PROVE FALSE
    BY Zenon
  <2>1. PICK d, n : d \in Ino /\ Leads(t, d, n, Root)
    BY <1>1, NamesAre, Zenon
  <2> QED
    BY <1>1, <2>1, Zenon
<1>3. ASSUME NEW d \in DirsIn(t), NEW n \in DOMAIN t.ents[d]
      PROVE  live_inode(t, Ref(t.ents[d][n], GEN_ANY))
  <2>1. d \in Ino /\ Leads(t, d, n, t.ents[d][n])
    BY DirsFinite, Zenon DEF Leads
  <2>2. t.ents[d][n] \in LiveIn(t)
    BY <1>1, <2>1, Zenon
  <2> QED
    BY <1>1, <2>2, LiveIff, Zenon
<1>4. ASSUME NEW x \in DirsIn(t) \ {Root}
      PROVE  /\ Cardinality(NamesOf(t, x)) = 1
             /\ \A p \in NamesOf(t, x) : p[1] = t.up[x]
  <2>1. PICK n : \A d \in Ino : \A m : Leads(t, d, m, x) <=> d = t.up[x] /\ m = n
    BY <1>1, Zenon DEF OneName
  <2>2. t.up[x] \in Ino
    BY <1>1, DirsFinite, Zenon
  <2>3. <<t.up[x], n>> \in NamesOf(t, x)
    BY <1>1, <2>1, <2>2, NamesAre, Zenon
  <2>4. ASSUME NEW p \in NamesOf(t, x) PROVE p = <<t.up[x], n>>
    <3>1. PICK d, m : d \in Ino /\ p = <<d, m>> /\ Leads(t, d, m, x)
      BY <1>1, NamesAre, Zenon
    <3> QED
      BY <2>1, <3>1, Zenon
  <2>5. NamesOf(t, x) = {<<t.up[x], n>>}
    BY <2>3, <2>4, Zenon
  <2> QED
    <3>1. Cardinality({<<t.up[x], n>>}) = 1
      BY FS_Singleton, Zenon
    <3>2. \A p \in NamesOf(t, x) : p[1] = t.up[x]
      BY <2>4
    <3> QED
      BY <2>5, <3>1, <3>2, Zenon
<1>5. NamesRight(t)
  BY <1>3, <1>4, Zenon DEF NamesRight
<1> QED
  BY <1>1, <1>2, <1>5, Zenon DEF SoundVolume, Form, OnlyDirs, Fields, Columns

-----------------------------------------------------------------------------
(* The allocation of an inode. *)

\* A set of numbers that is not empty has a least one.
LEMMA LeastNatural ==
  ASSUME NEW S, S \subseteq Nat, S # {}
  PROVE  \E x \in S : \A y \in S : x <= y
<1> DEFINE Less == {p \in Nat \X Nat : p[1] < p[2]}
<1>1. IsWellFoundedOn(Less, Nat)
  BY NatLessThanWellFounded, Zenon DEF OpToRel
<1> HIDE DEF Less
<1>2. PICK x \in S : \A y \in S : ~ (<<y, x>> \in Less)
  BY <1>1, WFMin, Zenon
<1>3. ASSUME NEW y \in S PROVE x <= y
  <2>1. x \in Nat /\ y \in Nat
    BY Zenon
  <2>2. ~ (y < x)
    BY <1>2, <2>1, Zenon DEF Less
  <2> QED
    BY <2>1, <2>2
<1> QED
  BY <1>3, Zenon

\* x is as good as the members of S up to k, by the relation R.
Best(S, R, k, x) == x \in S /\ x <= k /\ \A y \in S : y <= k => <<x, y>> \in R

\* R compares any two members of S.
Preorder(S, R) ==
    /\ \A x, y \in S : <<x, y>> \in R \/ <<y, x>> \in R
    /\ \A x, y, z \in S : <<x, y>> \in R /\ <<y, z>> \in R => <<x, z>> \in R

\* A bounded set that is not empty has a best member, by any total preorder.
LEMMA BestExists ==
  ASSUME NEW m \in Nat, NEW S, S \subseteq 0 .. m, S # {}, NEW R, Preorder(S, R)
  PROVE  \E x \in S : \A y \in S : <<x, y>> \in R
<1> DEFINE Bad == { k \in 0 .. m : (\E y \in S : y <= k) /\ ~ \E x : Best(S, R, k, x) }
<1>1. CASE m \notin Bad
  <2>0. PICK y \in S : TRUE
    BY Zenon
  <2>1. \E z \in S : z <= m
    BY <2>0
  <2>2. PICK x : Best(S, R, m, x)
    BY <1>1, <2>1
  <2> QED
    BY <2>2 DEF Best
<1>2. CASE m \in Bad
  <2>0. Bad \subseteq Nat /\ Bad # {}
    BY <1>2
  <2> HIDE DEF Bad
  <2>1. PICK k \in Bad : \A y \in Bad : k <= y
    BY <2>0, LeastNatural, Zenon
  <2> USE DEF Bad
  <2>2. /\ k \in 0 .. m /\ \E y \in S : y <= k
        /\ ~ \E x : Best(S, R, k, x)
    BY Zenon
  <2>3. ASSUME \A y \in S : ~ (y <= k - 1) PROVE FALSE
    <3>1. PICK z \in S : z <= k
      BY <2>2, Zenon
    <3>2. z = k /\ \A y \in S : y <= k => y = k
      BY <2>2, <2>3, <3>1
    <3>3. Best(S, R, k, k)
      BY <3>1, <3>2, Zenon DEF Best, Preorder
    <3> QED
      BY <2>2, <3>3, Zenon
  <2>4. PICK z \in S : z <= k - 1
    BY <2>3, Zenon
  <2>5. k - 1 \in 0 .. m
    BY <2>2, <2>4
  <2>6. k - 1 \notin Bad
    BY <2>1, <2>2
  <2>7. PICK x : Best(S, R, k - 1, x)
    BY <2>4, <2>5, <2>6, Zenon
  <2> HIDE DEF Bad
  <2>8. x \in S /\ x <= k - 1 /\ \A y \in S : y <= k - 1 => <<x, y>> \in R
    BY <2>7, Zenon DEF Best
  <2>9. CASE k \notin S
    <3>1. Best(S, R, k, x)
      BY <2>2, <2>8, <2>9 DEF Best
    <3> QED
      BY <2>2, <3>1, Zenon
  <2>10. CASE k \in S /\ <<x, k>> \in R
    <3>1. Best(S, R, k, x)
      BY <2>2, <2>8, <2>10 DEF Best
    <3> QED
      BY <2>2, <3>1, Zenon
  <2>11. CASE k \in S /\ <<k, x>> \in R
    <3>1. ASSUME NEW y \in S, y <= k PROVE <<k, y>> \in R
      <4>1. CASE y = k
        BY <2>11, <4>1, Zenon DEF Preorder
      <4>2. CASE y # k
        <5>1. y <= k - 1
          BY <2>2, <3>1, <4>2
        <5> QED
          BY <2>8, <2>11, <5>1, Zenon DEF Preorder
      <4> QED
        BY <4>1, <4>2, Zenon
    <3>2. Best(S, R, k, k)
      BY <2>2, <2>11, <3>1 DEF Best
    <3> QED
      BY <2>2, <3>2, Zenon
  <2>12. k \in S => <<x, k>> \in R \/ <<k, x>> \in R
    BY <2>8, Zenon DEF Preorder
  <2> QED
    BY <2>9, <2>10, <2>11, <2>12, Zenon
<1> QED
  BY <1>1, <1>2, Zenon

\* The groups are numbered.
LEMMA GroupsFinite ==
  ASSUME NEW S, S \subseteq Groups, S # {}
  PROVE  /\ Cardinality(Groups) \in Nat \ {0}
         /\ \E m \in Nat : S \subseteq 0 .. m
<1> DEFINE K == (InodesCount - 1) \div InodesPerGroup
<1>1. K \in Int
  BY NamespaceAssumption
<1> HIDE DEF K
<1>2. Groups = 0 .. K
  BY Zenon DEF Groups, K
<1>3. K \in Nat
  <2>1. PICK g \in S : TRUE
    BY Zenon
  <2>2. g \in 0 .. K
    BY <1>2, <2>1, Zenon
  <2> QED
    BY <1>1, <2>2
<1>4. Cardinality(0 .. K) = K + 1
  BY <1>3, FS_Interval
<1>5. S \subseteq 0 .. K
  BY <1>2, Zenon
<1>6. Cardinality(Groups) \in Nat \ {0}
  BY <1>2, <1>3, <1>4
<1> QED
  BY <1>3, <1>5, <1>6, Zenon

\* orlov_select_group finds a group, or keeps the hint.
LEMMA OrlovFinds ==
  ASSUME NEW t, Form(t), NEW hint \in Int
  PROVE  orlov_select_group(t, hint) \in Int
<1> DEFINE far(g) == (g - hint) % Cardinality(Groups)
           open == { g \in Groups : t.grp[g].free > 0 }
           Good(g, h) == \/ Score(t, g) > Score(t, h)
                         \/ Score(t, g) = Score(t, h) /\ far(g) <= far(h)
           R == { p \in open \X open : Good(p[1], p[2]) }
<1>1. CASE open = {}
  BY <1>1, Zenon DEF orlov_select_group
<1>2. CASE open # {}
  <2>1. open \subseteq Groups
    BY Zenon
  <2>2. PICK m \in Nat : open \subseteq 0 .. m
    BY <1>2, <2>1, GroupsFinite, Zenon
  <2>3. \A g \in open : far(g) \in Int
    BY <1>2, <2>1, <2>2, GroupsFinite
  <2>4. \A g \in open : Score(t, g) \in Int
    BY <2>1 DEF Score, Form
  <2>5. orlov_select_group(t, hint) = CHOOSE g \in open : \A h \in open : Good(g, h)
    BY <1>2, Zenon DEF orlov_select_group
  <2> HIDE DEF open, far
  <2>6. \A g, h \in open : Good(g, h) \/ Good(h, g)
    BY <2>3, <2>4
  <2>7. \A x, y, z \in open : Good(x, y) /\ Good(y, z) => Good(x, z)
    BY <2>3, <2>4
  <2> HIDE DEF Good
  <2>8. \A x, y \in open : <<x, y>> \in R <=> Good(x, y)
    BY Zenon
  <2> HIDE DEF R
  <2>10. Preorder(open, R)
    BY <2>6, <2>7, <2>8, Zenon DEF Preorder
  <2>11. \E x \in open : \A y \in open : <<x, y>> \in R
    BY <1>2, <2>2, <2>10, BestExists, Zenon
  <2>12. \E x \in open : \A y \in open : Good(x, y)
    BY <2>8, <2>11, Zenon
  <2>13. orlov_select_group(t, hint) \in open
    BY <2>5, <2>12, Zenon
  <2>14. \A g \in 0 .. m : g \in Int
    OBVIOUS
  <2> QED
    BY <2>2, <2>13, <2>14, Zenon
<1> QED
  BY <1>1, <1>2, Zenon

\* plan_inode_allocation gives out an inode that is free and not reserved, or
\* none.
LEMMA AllocationFinds ==
  ASSUME NEW t, Form(t), NEW isdir \in BOOLEAN, NEW hint \in Int, NEW i,
         i = plan_inode_allocation(t, isdir, hint), i # 0
  PROVE  i \in Ino /\ i \notin t.bits /\ i >= FirstInode
<1> DEFINE start == IF isdir THEN orlov_select_group(t, hint) ELSE hint
           free(g) == { x \in Ino \ t.bits : GroupOf(x) = g /\ x >= FirstInode }
           open == { g \in Groups : t.grp[g].free # 0 /\ free(g) # {} }
           far(g) == (g - start) % Cardinality(Groups)
           R == { p \in open \X open : far(p[1]) <= far(p[2]) }
           first == CHOOSE g \in open : \A h \in open : far(g) <= far(h)
<1>1. open # {} /\ i = Min(free(first))
  BY Zenon DEF plan_inode_allocation
<1>2. start \in Int
  BY OrlovFinds, Zenon
<1>3. open \subseteq Groups
  BY Zenon
<1>4. \A g \in open : free(g) # {} /\ free(g) \subseteq Nat
  BY NamespaceAssumption DEF Ino
<1>5. \A g : \A x \in free(g) : x \in Ino /\ x \notin t.bits /\ x >= FirstInode
  BY Zenon
<1> HIDE DEF free, start, open
<1>6. PICK m \in Nat : open \subseteq 0 .. m
  BY <1>1, <1>3, GroupsFinite, Zenon
<1>7. \A g \in open : far(g) \in Int
  BY <1>1, <1>2, <1>3, <1>6, GroupsFinite
<1>8. /\ \A x, y \in open : far(x) <= far(y) \/ far(y) <= far(x)
      /\ \A x, y, z \in open : far(x) <= far(y) /\ far(y) <= far(z) => far(x) <= far(z)
  BY <1>7
<1> HIDE DEF far
<1>9. \A x, y \in open : <<x, y>> \in R <=> far(x) <= far(y)
  BY Zenon
<1> HIDE DEF R
<1>10. Preorder(open, R)
  BY <1>8, <1>9, Zenon DEF Preorder
<1>11. \E x \in open : \A y \in open : <<x, y>> \in R
  BY <1>1, <1>6, <1>10, BestExists, Zenon
<1>12. first \in open
  BY <1>9, <1>11, Zenon
<1> HIDE DEF first
<1>13. \E x \in free(first) : \A y \in free(first) : x <= y
  BY <1>4, <1>12, LeastNatural, Zenon
<1>14. Min(free(first)) \in free(first)
  BY <1>13, Zenon DEF Min
<1> QED
  BY <1>1, <1>5, <1>14, Zenon

-----------------------------------------------------------------------------
(* Names that come and go. *)

\* Nothing has the name n in d.
Free(t, d, n) == \A i : ~ Leads(t, d, n, i)

\* The directory i is empty; i has no name.
Barren(t, i) == \A m : Free(t, i, m)
Unnamed(t, i) == \A x \in Ino : \A m : ~ Leads(t, x, m, i)

\* u is t with the name s in a turned into n in d.
Renamed(t, u, a, s, d, n, i) ==
    \A x \in Ino : \A m, y :
        Leads(u, x, m, y) <=> IF x = d /\ m = n THEN y = i
                              ELSE Leads(t, x, m, y) /\ ~ (x = a /\ m = s)

\* i has the same names in both; in u it has one name more.
SameLeads(t, u, i) == \A d \in Ino : \A n : Leads(u, d, n, i) <=> Leads(t, d, n, i)
MoreLeads(t, u, i, d, n) ==
    \A x \in Ino : \A m : Leads(u, x, m, i) <=> Leads(t, x, m, i) \/ (x = d /\ m = n)

\* An inode whose names an operation leaves alone has the same set of names after it.
LEMMA NamesSame ==
  ASSUME NEW t, NEW u, OnlyDirs(t), OnlyDirs(u), NEW i, SameLeads(t, u, i)
  PROVE  NamesOf(u, i) = NamesOf(t, i)
<1>1. ASSUME NEW p \in NamesOf(u, i) PROVE p \in NamesOf(t, i)
  <2>1. PICK d, n : d \in Ino /\ p = <<d, n>> /\ Leads(u, d, n, i)
    BY NamesAre, Zenon
  <2>2. Leads(t, d, n, i)
    BY <2>1, Zenon DEF SameLeads
  <2> QED
    BY <2>1, <2>2, NamesAre, Zenon
<1>2. ASSUME NEW p \in NamesOf(t, i) PROVE p \in NamesOf(u, i)
  <2>1. PICK d, n : d \in Ino /\ p = <<d, n>> /\ Leads(t, d, n, i)
    BY NamesAre, Zenon
  <2>2. Leads(u, d, n, i)
    BY <2>1, Zenon DEF SameLeads
  <2> QED
    BY <2>1, <2>2, NamesAre, Zenon
<1> QED
  BY <1>1, <1>2, Zenon

\* One name more (buffer_add_dir_entry_inplace) is one more in the count of names.
LEMMA NamesMore ==
  ASSUME NEW t, NEW u, OnlyDirs(t), OnlyDirs(u), IsFiniteSet(Places(t)),
         NEW i, NEW d \in Ino, NEW n, MoreLeads(t, u, i, d, n), ~ Leads(t, d, n, i)
  PROVE  Cardinality(NamesOf(u, i)) = Cardinality(NamesOf(t, i)) + 1
<1>1. ASSUME NEW p \in NamesOf(u, i) PROVE p \in NamesOf(t, i) \cup {<<d, n>>}
  <2>1. PICK x, m : x \in Ino /\ p = <<x, m>> /\ Leads(u, x, m, i)
    BY NamesAre, Zenon
  <2>2. Leads(t, x, m, i) \/ <<x, m>> = <<d, n>>
    BY <2>1, Zenon DEF MoreLeads
  <2>3. Leads(t, x, m, i) => <<x, m>> \in NamesOf(t, i)
    BY <2>1, NamesAre, Zenon
  <2> QED
    BY <2>1, <2>2, <2>3, Zenon
<1>2. ASSUME NEW p \in NamesOf(t, i) PROVE p \in NamesOf(u, i)
  <2>1. PICK x, m : x \in Ino /\ p = <<x, m>> /\ Leads(t, x, m, i)
    BY NamesAre, Zenon
  <2>2. Leads(u, x, m, i)
    BY <2>1, Zenon DEF MoreLeads
  <2> QED
    BY <2>1, <2>2, NamesAre, Zenon
<1>3. <<d, n>> \in NamesOf(u, i)
  <2>1. Leads(u, d, n, i)
    BY Zenon DEF MoreLeads
  <2> QED
    BY <2>1, NamesAre, Zenon
<1>4. <<d, n>> \notin NamesOf(t, i)
  <2> SUFFICES ASSUME <<d, n>> \in NamesOf(t, i) PROVE FALSE
    BY Zenon
  <2>1. PICK x, m : x \in Ino /\ <<d, n>> = <<x, m>> /\ Leads(t, x, m, i)
    BY NamesAre, Zenon
  <2>2. d = x /\ n = m
    BY <2>1, Zenon
  <2> QED
    BY <2>1, <2>2, Zenon
<1>5. NamesOf(u, i) = NamesOf(t, i) \cup {<<d, n>>}
  BY <1>1, <1>2, <1>3, Zenon
<1> QED
  BY <1>4, <1>5, NamesFinite, FS_AddElement, Zenon

\* The places of u are those of t and that of n in d.
PlacesWithin(t, u, d, n) ==
    \A x \in Ino : \A m, y : Leads(u, x, m, y) => (x = d /\ m = n) \/ \E z : Leads(t, x, m, z)

\* A volume with one place more is finite still.
LEMMA PlacesMore ==
  ASSUME NEW t, NEW u, OnlyDirs(t), OnlyDirs(u), IsFiniteSet(Places(t)), NEW d, NEW n,
         PlacesWithin(t, u, d, n)
  PROVE  IsFiniteSet(Places(u))
<1>1. ASSUME NEW p \in Places(u) PROVE p \in Places(t) \cup {<<d, n>>}
  <2>1. PICK x \in Ino : \E m \in DOMAIN u.ents[x] : p = <<x, m>>
    BY PlacesAre
  <2>2. PICK m \in DOMAIN u.ents[x] : p = <<x, m>>
    BY <2>1, Zenon
  <2>3. Leads(u, x, m, u.ents[x][m])
    BY Zenon DEF Leads
  <2>4. CASE x = d /\ m = n
    BY <2>2, <2>4, Zenon
  <2>5. CASE \E z : Leads(t, x, m, z)
    <3>1. m \in DOMAIN t.ents[x]
      BY <2>5, Zenon DEF Leads
    <3> QED
      BY <2>2, <3>1, PlacesAre, Zenon
  <2> QED
    BY <2>3, <2>4, <2>5, Zenon DEF PlacesWithin
<1>2. IsFiniteSet(Places(t) \cup {<<d, n>>})
  BY FS_AddElement, Zenon
<1>3. Places(u) \subseteq Places(t) \cup {<<d, n>>}
  BY <1>1, Zenon
<1> QED
  BY <1>2, <1>3, FS_Subset, Zenon

\* Entries are entries of directories.
LEMMA OnlyDirsIff ==
  ASSUME NEW t
  PROVE  OnlyDirs(t) <=> \A d \in Ino : \A n, i : Leads(t, d, n, i) => d \in DirsIn(t)
<1>1. ASSUME OnlyDirs(t), NEW d \in Ino, NEW n, NEW i, Leads(t, d, n, i) PROVE d \in DirsIn(t)
  BY <1>1, Zenon DEF OnlyDirs, Leads
<1>2. ASSUME \A d \in Ino : \A n, i : Leads(t, d, n, i) => d \in DirsIn(t) PROVE OnlyDirs(t)
  <2> SUFFICES ASSUME NEW x \in Ino \ DirsIn(t), NEW n \in DOMAIN t.ents[x] PROVE FALSE
    BY Zenon DEF OnlyDirs
  <2>1. Leads(t, x, n, t.ents[x][n])
    BY Zenon DEF Leads
  <2> QED
    BY <1>2, <2>1, Zenon
<1> QED
  BY <1>1, <1>2, Zenon

\* A volume that gets a name for i, and i itself unless it was there.
Grown(t, u, d, n, i) ==
    /\ d \in DirsIn(t) /\ i \in Ino /\ i \notin DirsIn(t) /\ Free(t, d, n) /\ Added(t, u, d, n, i)
    /\ LiveIn(u) = LiveIn(t) \cup {i}
    /\ \/ DirsIn(u) = DirsIn(t)
       \/ DirsIn(u) = DirsIn(t) \cup {i} /\ u.up[i] = d /\ i \notin LiveIn(t)
    /\ \A x \in DirsIn(t) : u.up[x] = t.up[x]

\* What that does to the names and to the subdirectories of each directory.
LEMMA NameAdded ==
  ASSUME NEW t, Tree(t), NEW u, NEW d, NEW n, NEW i, Grown(t, u, d, n, i)
  PROVE  /\ Tree(u)
         /\ MoreLeads(t, u, i, d, n) /\ ~ Leads(t, d, n, i)
         /\ \A x : x # i => SameLeads(t, u, x)
         /\ \A x : x # d => Subdirs(u, x) = Subdirs(t, x)
         /\ i \notin DirsIn(u) => Subdirs(u, d) = Subdirs(t, d)
         /\ i \in DirsIn(u) => Subdirs(u, d) = Subdirs(t, d) \cup {i} /\ i \notin Subdirs(t, d)
<1>g. /\ d \in DirsIn(t) /\ i \in Ino /\ i \notin DirsIn(t) /\ Free(t, d, n) /\ Added(t, u, d, n, i)
      /\ LiveIn(u) = LiveIn(t) \cup {i}
      /\ \/ DirsIn(u) = DirsIn(t)
         \/ DirsIn(u) = DirsIn(t) \cup {i} /\ u.up[i] = d /\ i \notin LiveIn(t)
      /\ \A x \in DirsIn(t) : u.up[x] = t.up[x]
  BY Zenon DEF Grown
<1> USE <1>g
<1>0. /\ OnlyDirs(t) /\ IsFiniteSet(Places(t))
      /\ Root \in DirsIn(t) /\ t.up[Root] = Root
      /\ \A x \in DirsIn(t) : t.up[x] \in DirsIn(t)
      /\ \A x \in Ino : \A m, y : Leads(t, x, m, y) => y \in LiveIn(t) \ {Root}
      /\ \A x \in DirsIn(t) \ {Root} : \E m : OneName(t, x, m)
  BY Zenon DEF Tree
<1>1. d \in Ino /\ DirsIn(t) \subseteq DirsIn(u) /\ i # Root
  BY <1>0, DirsFinite, Zenon
<1>2. OnlyDirs(u)
  <2>1. ASSUME NEW x \in Ino, NEW m, NEW y, Leads(u, x, m, y) PROVE x \in DirsIn(u)
    <3>1. x = d \/ Leads(t, x, m, y)
      BY <2>1, Zenon DEF Added
    <3> QED
      BY <1>0, <1>1, <3>1, OnlyDirsIff, Zenon
  <2> QED
    BY <2>1, OnlyDirsIff, Zenon
<1>3. IsFiniteSet(Places(u))
  <2>1. PlacesWithin(t, u, d, n)
    BY Zenon DEF Added, PlacesWithin
  <2> QED
    BY <1>0, <1>2, <2>1, PlacesMore, Zenon
<1>4. MoreLeads(t, u, i, d, n) /\ ~ Leads(t, d, n, i)
  BY Zenon DEF Added, MoreLeads, Free
<1>5. ASSUME NEW x, x # i PROVE SameLeads(t, u, x)
  BY <1>1, <1>5 DEF Added, SameLeads, Free
<1>6. ASSUME NEW x \in Ino, NEW m, NEW y, Leads(u, x, m, y) PROVE y \in LiveIn(u) \ {Root}
  <2>1. y = i \/ Leads(t, x, m, y)
    BY <1>6, Zenon DEF Added
  <2> QED
    BY <1>0, <1>1, <2>1, Zenon
<1>7. ASSUME NEW x \in DirsIn(u) \ {Root} PROVE \E m : OneName(u, x, m)
  <2>1. CASE x = i
    <3>1. i \notin LiveIn(t) /\ u.up[i] = d
      BY <2>1, Zenon
    <3>2. OneName(u, x, n)
      BY <1>0, <2>1, <3>1, Zenon DEF OneName, Added
    <3> QED
      BY <3>2, Zenon
  <2>2. CASE x # i
    <3>1. x \in DirsIn(t) /\ u.up[x] = t.up[x]
      BY <2>2, Zenon
    <3>2. PICK m : OneName(t, x, m)
      BY <1>0, <3>1, Zenon
    <3>3. SameLeads(t, u, x)
      BY <1>5, <2>2, Zenon
    <3>4. OneName(u, x, m)
      BY <3>1, <3>2, <3>3 DEF OneName, SameLeads
    <3> QED
      BY <3>4, Zenon
  <2> QED
    BY <2>1, <2>2, Zenon
<1>8. \A x \in DirsIn(u) : u.up[x] \in DirsIn(u)
  BY <1>0, <1>1, Zenon
<1>9. Tree(u)
  BY <1>0, <1>1, <1>2, <1>3, <1>6, <1>7, <1>8, Zenon DEF Tree
<1>10. /\ \A x : x # d => Subdirs(u, x) = Subdirs(t, x)
       /\ i \notin DirsIn(u) => Subdirs(u, d) = Subdirs(t, d)
  BY Zenon DEF Subdirs
<1>11. i \in DirsIn(u) => Subdirs(u, d) = Subdirs(t, d) \cup {i} /\ i \notin Subdirs(t, d)
  BY <1>1, Zenon DEF Subdirs
<1> QED
  BY <1>4, <1>5, <1>9, <1>10, <1>11, Zenon

\* A volume that loses a name of i, and i itself if that was the last one or i
\* is a directory, which is empty.
Dropped(t, u, d, n, i, G) ==
    /\ d \in Ino /\ Leads(t, d, n, i) /\ Removed(t, u, d, n) /\ (G = {} \/ G = {i})
    /\ LiveIn(u) = LiveIn(t) \ G /\ DirsIn(u) = DirsIn(t) \ G
    /\ \A x \in DirsIn(u) : u.up[x] = t.up[x]
    /\ i \in DirsIn(t) => G = {i} /\ Barren(t, i)
    /\ i \in G => Unnamed(u, i)

\* What that does to the names and to the subdirectories of each directory.
LEMMA NameDropped ==
  ASSUME NEW t, Tree(t), NEW u, NEW d, NEW n, NEW i, NEW G, Dropped(t, u, d, n, i, G)
  PROVE  /\ Tree(u)
         /\ i \in LiveIn(t) /\ i # Root /\ d \in DirsIn(t) /\ d # i
         /\ MoreLeads(u, t, i, d, n) /\ ~ Leads(u, d, n, i)
         /\ \A x : x # i => SameLeads(t, u, x)
         /\ \A x : x # d => Subdirs(u, x) = Subdirs(t, x)
         /\ i \notin DirsIn(t) => Subdirs(u, d) = Subdirs(t, d)
         /\ i \in DirsIn(t) => Subdirs(t, d) = Subdirs(u, d) \cup {i} /\ i \notin Subdirs(u, d)
<1>0. /\ OnlyDirs(t) /\ IsFiniteSet(Places(t))
      /\ Root \in DirsIn(t) /\ t.up[Root] = Root
      /\ \A x \in DirsIn(t) : t.up[x] \in DirsIn(t)
      /\ \A x \in Ino : \A m, y : Leads(t, x, m, y) => y \in LiveIn(t) \ {Root}
      /\ \A x \in DirsIn(t) \ {Root} : \E m : OneName(t, x, m)
  BY Zenon DEF Tree
<1>d. /\ d \in Ino /\ Leads(t, d, n, i) /\ Removed(t, u, d, n) /\ (G = {} \/ G = {i})
      /\ LiveIn(u) = LiveIn(t) \ G /\ DirsIn(u) = DirsIn(t) \ G
      /\ \A x \in DirsIn(u) : u.up[x] = t.up[x]
      /\ i \in DirsIn(t) => G = {i} /\ Barren(t, i)
      /\ i \in G => Unnamed(u, i)
  BY Zenon DEF Dropped
<1> USE <1>d
<1>1. i \in LiveIn(t) /\ i # Root /\ d \in DirsIn(t) /\ DirsIn(t) \subseteq Ino
  BY <1>0, OnlyDirsIff, DirsFinite, Zenon
<1>2. i \in DirsIn(t) => d # i
  BY <1>1, Zenon DEF Free, Barren
<1>3. OnlyDirs(u)
  <2>1. ASSUME NEW x \in Ino, NEW m, NEW y, Leads(u, x, m, y) PROVE x \in DirsIn(u)
    <3>1. Leads(t, x, m, y)
      BY <2>1, Zenon DEF Removed
    <3>2. x \in DirsIn(t)
      BY <1>0, <3>1, OnlyDirsIff, Zenon
    <3>3. x = i => FALSE
      BY <3>1, <3>2, Zenon DEF Free, Barren
    <3> QED
      BY <3>2, <3>3, Zenon
  <2> QED
    BY <2>1, OnlyDirsIff, Zenon
<1>4. IsFiniteSet(Places(u))
  <2>1. PlacesWithin(t, u, d, n)
    BY Zenon DEF Removed, PlacesWithin
  <2> QED
    BY <1>0, <1>3, <2>1, PlacesMore, Zenon
<1>5. MoreLeads(u, t, i, d, n) /\ ~ Leads(u, d, n, i)
  BY Zenon DEF Removed, MoreLeads
<1>6. ASSUME NEW x, x # i PROVE SameLeads(t, u, x)
  <2>1. ~ Leads(t, d, n, x)
    BY <1>6, Zenon DEF Leads
  <2> QED
    BY <2>1, Zenon DEF Removed, SameLeads
<1>7. ASSUME NEW x \in Ino, NEW m, NEW y, Leads(u, x, m, y) PROVE y \in LiveIn(u) \ {Root}
  <2>1. Leads(t, x, m, y)
    BY <1>7 DEF Removed
  <2>2. y \notin G
    BY <1>7, Zenon DEF Unnamed
  <2> QED
    BY <1>0, <2>1, <2>2, Zenon
<1>8. ASSUME NEW x \in DirsIn(t) \ {Root} PROVE t.up[x] # i
  <2> SUFFICES ASSUME t.up[x] = i PROVE FALSE
    BY Zenon
  <2>1. PICK m : OneName(t, x, m)
    BY <1>0, Zenon
  <2>2. i \in DirsIn(t) /\ i \in Ino
    BY <1>0, <1>1, Zenon
  <2>3. Leads(t, i, m, x)
    BY <2>1, <2>2, Zenon DEF OneName
  <2> QED
    BY <2>2, <2>3, Zenon DEF Free, Barren
<1>9. ASSUME NEW x \in DirsIn(u) \ {Root} PROVE \E m : OneName(u, x, m)
  <2>1. x # i
    BY <1>1, Zenon
  <2>2. x \in DirsIn(t) /\ u.up[x] = t.up[x]
    BY Zenon
  <2>3. PICK m : OneName(t, x, m)
    BY <1>0, <2>2, Zenon
  <2>4. SameLeads(t, u, x)
    BY <1>6, <2>1, Zenon
  <2>5. OneName(u, x, m)
    BY <2>2, <2>3, <2>4 DEF OneName, SameLeads
  <2> QED
    BY <2>5, Zenon
<1>10. Root \in DirsIn(u) /\ u.up[Root] = Root /\ \A x \in DirsIn(u) : u.up[x] \in DirsIn(u)
  BY <1>0, <1>1, <1>8, Zenon
<1>11. Tree(u)
  BY <1>3, <1>4, <1>7, <1>9, <1>10, Zenon DEF Tree
<1>12. i \in DirsIn(t) => t.up[i] = d
  BY <1>0, <1>1, Zenon DEF OneName
<1>13. /\ \A x : x # d => Subdirs(u, x) = Subdirs(t, x)
       /\ i \notin DirsIn(t) => Subdirs(u, d) = Subdirs(t, d)
  BY <1>12, Zenon DEF Subdirs
<1>14. i \in DirsIn(t) => Subdirs(t, d) = Subdirs(u, d) \cup {i} /\ i \notin Subdirs(u, d)
  BY <1>1, <1>12, Zenon DEF Subdirs
<1>15. i \in LiveIn(t) /\ i # Root /\ d \in DirsIn(t) /\ d # i
  BY <1>1, <1>2, Zenon
<1> QED
  BY <1>5, <1>6, <1>11, <1>13, <1>14, <1>15, Zenon

\* `..` in u: i has the parent d now.
UpMoved(t, u, i, d) == \A x \in DirsIn(t) : u.up[x] = IF x = i THEN d ELSE t.up[x]

\* A volume where the name s in a becomes n in d, which was free: the inode has
\* as many names as before, and a directory its `..` in d.
LEMMA NameMoved ==
  ASSUME NEW t, Tree(t), NEW u, NEW a \in Ino, NEW s, NEW i, Leads(t, a, s, i),
         NEW d \in DirsIn(t), NEW n, Free(t, d, n), Renamed(t, u, a, s, d, n, i),
         LiveIn(u) = LiveIn(t), DirsIn(u) = DirsIn(t),
         UpMoved(t, u, i, d)
  PROVE  /\ Tree(u)
         /\ \A x : Cardinality(NamesOf(u, x)) = Cardinality(NamesOf(t, x))
         /\ i \notin DirsIn(t) \/ a = d => \A x : Subdirs(u, x) = Subdirs(t, x)
         /\ i \in DirsIn(t) /\ a # d =>
              /\ \A x : x \notin {a, d} => Subdirs(u, x) = Subdirs(t, x)
              /\ Subdirs(t, a) = Subdirs(u, a) \cup {i} /\ i \notin Subdirs(u, a)
              /\ Subdirs(u, d) = Subdirs(t, d) \cup {i} /\ i \notin Subdirs(t, d)
<1> USE DEF UpMoved
<1>0. /\ OnlyDirs(t) /\ IsFiniteSet(Places(t))
      /\ Root \in DirsIn(t) /\ t.up[Root] = Root
      /\ \A x \in DirsIn(t) : t.up[x] \in DirsIn(t)
      /\ \A x \in Ino : \A m, y : Leads(t, x, m, y) => y \in LiveIn(t) \ {Root}
      /\ \A x \in DirsIn(t) \ {Root} : \E m : OneName(t, x, m)
  BY Zenon DEF Tree
<1>1. i \in LiveIn(t) /\ i # Root /\ d \in Ino /\ ~ (a = d /\ s = n)
  BY <1>0, DirsFinite, Zenon DEF Free
<1>2. i \in DirsIn(t) => t.up[i] = a /\ OneName(t, i, s)
  BY <1>0, <1>1 DEF OneName
<1>3. OnlyDirs(u)
  <2>1. ASSUME NEW x \in Ino, NEW m, NEW y, Leads(u, x, m, y) PROVE x \in DirsIn(u)
    <3>1. x = d \/ Leads(t, x, m, y)
      BY <2>1, Zenon DEF Renamed
    <3> QED
      BY <1>0, <3>1, OnlyDirsIff, Zenon
  <2> QED
    BY <2>1, OnlyDirsIff, Zenon
<1>4. IsFiniteSet(Places(u))
  <2>1. PlacesWithin(t, u, d, n)
    BY Zenon DEF Renamed, PlacesWithin
  <2> QED
    BY <1>0, <1>3, <2>1, PlacesMore, Zenon
<1>5. ASSUME NEW x, x # i PROVE SameLeads(t, u, x)
  <2>1. ~ Leads(t, a, s, x)
    BY <1>5, Zenon DEF Leads
  <2> QED
    BY <1>5, <2>1, Zenon DEF Renamed, SameLeads, Free
<1>6. ASSUME NEW x \in Ino, NEW m, NEW y, Leads(u, x, m, y) PROVE y \in LiveIn(u) \ {Root}
  <2>1. y = i \/ Leads(t, x, m, y)
    BY <1>6, Zenon DEF Renamed
  <2> QED
    BY <1>0, <1>1, <2>1, Zenon
<1>7. ASSUME NEW x \in DirsIn(u) \ {Root} PROVE \E m : OneName(u, x, m)
  <2>1. CASE x = i
    <3>1. u.up[i] = d /\ OneName(t, i, s) /\ t.up[i] = a
      BY <1>2, <2>1, Zenon
    <3>2. OneName(u, x, n)
      BY <1>1, <2>1, <3>1, Zenon DEF OneName, Renamed
    <3> QED
      BY <3>2, Zenon
  <2>2. CASE x # i
    <3>1. x \in DirsIn(t) /\ u.up[x] = t.up[x]
      BY <2>2, Zenon
    <3>2. PICK m : OneName(t, x, m)
      BY <1>0, <3>1, Zenon
    <3>3. SameLeads(t, u, x)
      BY <1>5, <2>2, Zenon
    <3>4. OneName(u, x, m)
      BY <3>1, <3>2, <3>3 DEF OneName, SameLeads
    <3> QED
      BY <3>4, Zenon
  <2> QED
    BY <2>1, <2>2, Zenon
<1>8. u.up[Root] = Root /\ \A x \in DirsIn(u) : u.up[x] \in DirsIn(u)
  BY <1>0, <1>1, Zenon
<1>9. Tree(u)
  BY <1>0, <1>3, <1>4, <1>6, <1>7, <1>8, Zenon DEF Tree
<1>10. ASSUME NEW x PROVE Cardinality(NamesOf(u, x)) = Cardinality(NamesOf(t, x))
  <2>1. CASE x # i
    BY <1>0, <1>3, <1>5, <2>1, NamesSame, Zenon
  <2>2. CASE x = i
    <3> DEFINE N == NamesOf(t, i) \ {<<a, s>>}
    <3>1. ASSUME NEW p \in NamesOf(u, i) PROVE p \in N \cup {<<d, n>>}
      <4>1. PICK y, m : y \in Ino /\ p = <<y, m>> /\ Leads(u, y, m, i)
        BY <1>3, NamesAre, Zenon
      <4>2. CASE y = d /\ m = n
        BY <4>1, <4>2, Zenon
      <4>3. CASE ~ (y = d /\ m = n)
        <5>1. Leads(t, y, m, i) /\ ~ (y = a /\ m = s)
          BY <4>1, <4>3, Zenon DEF Renamed
        <5>2. <<y, m>> \in NamesOf(t, i)
          BY <1>0, <4>1, <5>1, NamesAre, Zenon
        <5>3. <<y, m>> # <<a, s>>
          BY <5>1, Zenon
        <5> QED
          BY <4>1, <5>2, <5>3, Zenon
      <4> QED
        BY <4>2, <4>3, Zenon
    <3>2. ASSUME NEW p \in N PROVE p \in NamesOf(u, i) /\ p # <<d, n>>
      <4>1. PICK y, m : y \in Ino /\ p = <<y, m>> /\ Leads(t, y, m, i)
        BY <1>0, NamesAre, ZenonT(40)
      <4>2. ~ (y = a /\ m = s) /\ ~ (y = d /\ m = n)
        BY <4>1, Zenon DEF Free
      <4>3. Leads(u, y, m, i)
        BY <4>1, <4>2, Zenon DEF Renamed
      <4>4. p # <<d, n>>
        BY <4>1, <4>2, Zenon
      <4> QED
        BY <1>3, <4>1, <4>3, <4>4, NamesAre, Zenon
    <3>3. <<d, n>> \in NamesOf(u, i)
      <4>1. Leads(u, d, n, i)
        BY <1>1, Zenon DEF Renamed
      <4> QED
        BY <1>1, <1>3, <4>1, NamesAre, Zenon
    <3>4. <<a, s>> \in NamesOf(t, i)
      BY <1>0, NamesAre, Zenon
    <3>5. NamesOf(u, i) = N \cup {<<d, n>>} /\ <<d, n>> \notin N
      BY <3>1, <3>2, <3>3, Zenon
    <3>6. IsFiniteSet(NamesOf(t, i)) /\ Cardinality(NamesOf(t, i)) \in Nat
      BY <1>0, NamesFinite, Zenon
    <3>7. IsFiniteSet(N) /\ Cardinality(N) = Cardinality(NamesOf(t, i)) - 1
      BY <3>4, <3>6, FS_RemoveElement, Zenon
    <3> HIDE DEF N
    <3>8. Cardinality(N \cup {<<d, n>>}) = Cardinality(N) + 1
      BY <3>5, <3>7, FS_AddElement, Zenon
    <3> QED
      BY <2>2, <3>5, <3>6, <3>7, <3>8
  <2> QED
    BY <2>1, <2>2, Zenon
<1>11. i \notin DirsIn(t) \/ a = d => \A x : Subdirs(u, x) = Subdirs(t, x)
  BY <1>2, Zenon DEF Subdirs
<1>12. i \in DirsIn(t) /\ a # d =>
         /\ \A x : x \notin {a, d} => Subdirs(u, x) = Subdirs(t, x)
         /\ Subdirs(t, a) = Subdirs(u, a) \cup {i} /\ i \notin Subdirs(u, a)
         /\ Subdirs(u, d) = Subdirs(t, d) \cup {i} /\ i \notin Subdirs(t, d)
  BY <1>1, <1>2 DEF Subdirs
<1> QED
  BY <1>9, <1>10, <1>11, <1>12, Zenon

-----------------------------------------------------------------------------
(* What the operations stage. *)

\* The link count of i says what it should.
InodeRight(t, i) ==
    IF IsDir(t, i)
    THEN t.tab[i].links \in {2 + Cardinality(Subdirs(t, i))} \cup (IF DirNlink THEN {1} ELSE {})
    ELSE t.tab[i].links = Cardinality(NamesOf(t, i)) /\ t.tab[i].links > 0

\* Link counts are right if each inode's is.
LEMMA RightEach ==
  ASSUME NEW t
  PROVE  LinksRight(t) <=> \A i \in LiveIn(t) : InodeRight(t, i)
BY Zenon DEF LinksRight, InodeRight

\* An inode whose count, names and subdirectories an operation leaves alone stays right.
LEMMA InodeSame ==
  ASSUME NEW t, NEW u, NEW i, InodeRight(t, i),
         u.tab[i].kind = t.tab[i].kind, u.tab[i].links = t.tab[i].links,
         Cardinality(NamesOf(u, i)) = Cardinality(NamesOf(t, i)),
         Subdirs(u, i) = Subdirs(t, i)
  PROVE  InodeRight(u, i)
BY Zenon DEF InodeRight, IsDir

\* next_links_count for a directory that gets a subdirectory, or loses one.
LEMMA DirUp ==
  ASSUME NEW t, NEW u, NEW d, InodeRight(t, d), IsDir(t, d), IsDir(u, d),
         u.tab[d].links = next_links_count(TRUE, t.tab[d].links, 1), u.tab[d].links # TooMany,
         Cardinality(Subdirs(u, d)) = Cardinality(Subdirs(t, d)) + 1
  PROVE  InodeRight(u, d)
<1>1. Cardinality(Subdirs(t, d)) \in Nat
  BY DirsFinite, Zenon
<1> QED
  BY <1>1, NamespaceAssumption DEF InodeRight, next_links_count, TooMany

\* next_links_count for a directory that loses a subdirectory.
LEMMA DirDown ==
  ASSUME NEW t, NEW u, NEW d, InodeRight(t, d), IsDir(t, d), IsDir(u, d),
         u.tab[d].links = next_links_count(TRUE, t.tab[d].links, -1),
         Cardinality(Subdirs(t, d)) = Cardinality(Subdirs(u, d)) + 1
  PROVE  InodeRight(u, d)
<1>1. Cardinality(Subdirs(u, d)) \in Nat
  BY DirsFinite, Zenon
<1> QED
  BY <1>1, NamespaceAssumption DEF InodeRight, next_links_count

\* The directories an operation works in, and the names it finds there.
LEMMA LiveDirIs ==
  ASSUME NEW t, NEW r, live_dir(t, r) = "ok"
  PROVE  r.ino \in DirsIn(t)
BY Zenon DEF live_dir, live_inode, DirsIn, LiveIn

\* A name that find_entry does not find in a directory is free there.
LEMMA FreeName ==
  ASSUME NEW t, Tree(t), NEW d \in DirsIn(t), NEW n, find_entry(t, d, n) = 0
  PROVE  Free(t, d, n)
<1>1. 0 \notin Ino /\ DirsIn(t) \subseteq Ino
  BY DirsFinite, NamespaceAssumption DEF Ino
<1>2. t.up[d] \in DirsIn(t)
  BY Zenon DEF Tree
<1>3. n # "." /\ n # ".."
  BY <1>1, <1>2, Zenon DEF find_entry
<1>4. SUFFICES ASSUME NEW i, Leads(t, d, n, i) PROVE FALSE
  BY Zenon DEF Free
<1>5. i = 0
  BY <1>3, <1>4, Zenon DEF Leads, find_entry
<1>6. i \in LiveIn(t)
  BY <1>1, <1>4, Zenon DEF Tree
<1> QED
  BY <1>1, <1>5, <1>6, DirsFinite, Zenon

\* What find_entry finds is what the name leads to.
LEMMA EntryLeads ==
  ASSUME NEW t, NEW d, NEW n, n \notin {".", ".."}, NEW i, i = find_entry(t, d, n), i # 0
  PROVE  Leads(t, d, n, i)
BY Zenon DEF find_entry, Leads

\* What a new file, symlink or special file leaves: the inode `i`, free until now,
\* under a new name of the directory `d`.
MadeAs(u, d, n, i, kind) ==
    /\ Form(u) /\ Grown(vol, u, d, n, i) /\ d \in Ino
    /\ i \notin LiveIn(vol) /\ i \notin DirsIn(vol) /\ DirsIn(u) = DirsIn(vol)
    /\ u.tab[i].kind = kind /\ u.tab[i].links = 1
    /\ \A x \in Ino : x # i => u.tab[x].kind = vol.tab[x].kind /\ u.tab[x].links = vol.tab[x].links

\* create, mknod and symlink: the inode planned is free and the name is new.
LEMMA MadeFacts ==
  ASSUME Order(vol), NEW r, NEW n, NEW kind, kind \notin {"dir", "none"}, NEW blocks, NEW grow,
         NEW u, u = Made(r, n, kind, blocks, grow), u.bad = "ok"
  PROVE  \E d, i : MadeAs(u, d, n, i, kind)
<1>p. PICK d, i, t : d = r.ino /\ i = plan_inode_allocation(vol, FALSE, GroupOf(d))
                     /\ t = NewInode(vol, i, kind, blocks, 1)
  BY Zenon
<1>0. Form(vol) /\ vol.bad = "ok" /\ Tree(vol) /\ LinksRight(vol)
      /\ \A x \in LiveIn(vol) : vol.tab[x].kind # "none"
  BY Zenon DEF Order
<1>1. NewRefused(r, n) = "ok"
  <2> SUFFICES ASSUME NewRefused(r, n) # "ok" PROVE FALSE
    BY Zenon
  <2>1. u = Stop(vol, NewRefused(r, n))
    BY Zenon DEF Made
  <2> QED
    BY <1>0, <2>1, StopFacts, Zenon
<1>2. u = AddEntry(t, d, n, i, grow)
  BY <1>p, <1>1, Zenon DEF Made
<1>3. live_dir(vol, r) = "ok" /\ find_entry(vol, d, n) = 0
  BY <1>p, <1>1, Zenon DEF NewRefused
<1>4. d \in DirsIn(vol) /\ d \in Ino /\ Free(vol, d, n)
  BY <1>p, <1>0, <1>3, LiveDirIs, FreeName, DirsFinite, Zenon
<1>5. t.bad = "ok"
  BY <1>2, Zenon DEF AddEntry
<1>6. i # 0
  <2> SUFFICES ASSUME i = 0 PROVE FALSE
    BY Zenon
  <2>1. t = Stop(vol, "corrupt")
    BY <1>p, Zenon DEF NewInode
  <2> QED
    BY <1>0, <1>5, <2>1, StopFacts, Zenon
<1>7. GroupOf(d) \in Int
  BY <1>4, NamespaceAssumption DEF GroupOf, Ino
<1>8. i \in Ino /\ i \notin vol.bits /\ i >= FirstInode
  BY <1>p, <1>0, <1>6, <1>7, AllocationFinds, Zenon
<1>9. /\ Form(t) /\ t.bits = vol.bits \cup {i} /\ t.ents = vol.ents /\ t.up = vol.up
      /\ \A x \in Ino : x # i => t.tab[x] = vol.tab[x]
      /\ t.tab[i].kind = kind /\ t.tab[i].links = 1
  <2>1. t = NewInode(vol, i, kind, blocks, 1)
    BY <1>p, Zenon
  <2> QED
    BY <1>0, <1>5, <1>8, <2>1, NewInodeFacts
<1>10. /\ Form(u) /\ u.bits = t.bits /\ u.up = t.up
       /\ \A x \in Ino : u.tab[x].kind = t.tab[x].kind /\ u.tab[x].links = t.tab[x].links
       /\ Added(t, u, d, n, i)
  BY <1>2, <1>4, <1>9, AddEntryFacts
<1>11. Added(vol, u, d, n, i)
  <2>1. \A x, m, y : Leads(t, x, m, y) <=> Leads(vol, x, m, y)
    BY <1>9, Zenon DEF Leads
  <2> QED
    BY <1>10, <2>1, Zenon DEF Added
<1>12. u.bits = vol.bits \cup {i} /\ u.up = vol.up /\ u.tab[i].kind = kind /\ u.tab[i].links = 1
       /\ \A x \in Ino : x # i => u.tab[x].kind = vol.tab[x].kind /\ u.tab[x].links = vol.tab[x].links
  BY <1>8, <1>9, <1>10, Zenon
<1>13. LiveIn(u) = LiveIn(vol) \cup {i} /\ i \notin LiveIn(vol)
  BY <1>8, <1>12, Zenon DEF LiveIn
<1>14. DirsIn(u) = DirsIn(vol) /\ i \notin DirsIn(vol)
  BY <1>12, <1>13, DirsFinite, Zenon DEF DirsIn, IsDir
<1>15. Grown(vol, u, d, n, i)
  BY <1>4, <1>8, <1>11, <1>12, <1>13, <1>14, Zenon DEF Grown
<1>16. MadeAs(u, d, n, i, kind)
  BY <1>4, <1>10, <1>12, <1>13, <1>14, <1>15, Zenon DEF MadeAs
<1> QED
  BY <1>16, Zenon

\* A new inode with one name keeps the order: create, mknod and symlink.
LEMMA MadeOrder ==
  ASSUME Order(vol), NEW r, NEW n, NEW kind, kind \notin {"dir", "none"}, NEW blocks, NEW grow,
         NEW u, u = Made(r, n, kind, blocks, grow), u.bad = "ok"
  PROVE  Order(u)
<1>0. Tree(vol) /\ LinksRight(vol) /\ \A x \in LiveIn(vol) : vol.tab[x].kind # "none"
  BY Zenon DEF Order
<1>1. PICK d, i : MadeAs(u, d, n, i, kind)
  BY MadeFacts, Zenon
<1>12. u.tab[i].kind = kind /\ u.tab[i].links = 1
       /\ \A x \in Ino : x # i => u.tab[x].kind = vol.tab[x].kind /\ u.tab[x].links = vol.tab[x].links
  BY <1>1, Zenon DEF MadeAs
<1>13. /\ Form(u) /\ i \notin LiveIn(vol) /\ Grown(vol, u, d, n, i)
       /\ DirsIn(u) = DirsIn(vol) /\ i \notin DirsIn(vol) /\ d \in Ino
  BY <1>1, Zenon DEF MadeAs
<1>14. LiveIn(u) = LiveIn(vol) \cup {i}
  BY <1>13, Zenon DEF Grown
<1>15. /\ Tree(u)
       /\ MoreLeads(vol, u, i, d, n) /\ ~ Leads(vol, d, n, i)
       /\ \A x : x # i => SameLeads(vol, u, x)
       /\ \A x : Subdirs(u, x) = Subdirs(vol, x)
  <2>1. /\ Tree(u)
        /\ MoreLeads(vol, u, i, d, n) /\ ~ Leads(vol, d, n, i)
        /\ \A x : x # i => SameLeads(vol, u, x)
        /\ \A x : x # d => Subdirs(u, x) = Subdirs(vol, x)
        /\ i \notin DirsIn(u) => Subdirs(u, d) = Subdirs(vol, d)
    BY <1>0, <1>13, NameAdded
  <2> QED
    BY <1>13, <2>1, Zenon
<1>16. OnlyDirs(vol) /\ OnlyDirs(u) /\ IsFiniteSet(Places(vol))
  BY <1>0, <1>15, Zenon DEF Tree
<1>17. ASSUME NEW x \in LiveIn(u) PROVE InodeRight(u, x) /\ u.tab[x].kind # "none"
  <2>1. CASE x = i
    <3>1. NamesOf(vol, i) = {}
      <4> SUFFICES ASSUME NEW p \in NamesOf(vol, i) PROVE FALSE
        BY Zenon
      <4>1. PICK y, m : y \in Ino /\ Leads(vol, y, m, i)
        BY <1>16, NamesAre, Zenon
      <4> QED
        BY <1>0, <1>13, <4>1, Zenon DEF Tree
    <3>2. Cardinality(NamesOf(u, i)) = Cardinality(NamesOf(vol, i)) + 1
      BY <1>13, <1>15, <1>16, NamesMore, Zenon
    <3>3. Cardinality(NamesOf(u, i)) = 1
      BY <3>1, <3>2, FS_EmptySet
    <3> QED
      BY <1>12, <2>1, <3>3 DEF InodeRight, IsDir
  <2>2. CASE x # i
    <3>1. x \in LiveIn(vol) /\ x \in Ino
      BY <1>14, <2>2, DirsFinite, Zenon
    <3>2. InodeRight(vol, x)
      BY <1>0, <3>1, RightEach, Zenon
    <3>3. NamesOf(u, x) = NamesOf(vol, x)
      BY <1>15, <1>16, <2>2, NamesSame, Zenon
    <3>4. InodeRight(u, x)
      BY <1>12, <1>15, <2>2, <3>1, <3>2, <3>3, InodeSame, Zenon
    <3> QED
      BY <1>0, <1>12, <2>2, <3>1, <3>4, Zenon
  <2> QED
    BY <2>1, <2>2, Zenon
<1> QED
  BY <1>13, <1>15, <1>17, RightEach, Zenon DEF Order

\* `..` of a directory.
WithUp(t, i, d) == [t EXCEPT !.up[i] = d]

\* A new `..` leaves the rest alone.
LEMMA UpFacts ==
  ASSUME NEW t, Form(t), NEW i \in Ino, NEW d, NEW u, u = WithUp(t, i, d)
  PROVE  /\ Form(u) /\ u.bad = t.bad /\ u.bits = t.bits /\ u.ents = t.ents /\ u.tab = t.tab
         /\ u.up[i] = d /\ \A x \in Ino : x # i => u.up[x] = t.up[x]
<1>1. /\ DOMAIN u = Fields /\ u.bits = t.bits /\ u.ents = t.ents /\ u.tab = t.tab
      /\ u.grp = t.grp /\ u.bad = t.bad /\ u.up = [t.up EXCEPT ![i] = d]
  BY Zenon DEF Form, Fields, WithUp
<1>2. DOMAIN u.up = Ino /\ u.up[i] = d /\ \A x \in Ino : x # i => u.up[x] = t.up[x]
  BY <1>1, Zenon DEF Form
<1>3. Form(u)
  BY <1>1, <1>2, Zenon DEF Form
<1> QED
  BY <1>1, <1>2, <1>3, Zenon

\* apply_mkdir_at
\* What mkdir leaves: the directory `i`, its inode free until now, under a new name of
\* the directory `d`, whose link count is stepped up.
MkdirAs(u, d, n, i) ==
    /\ Form(u) /\ Grown(vol, u, d, n, i) /\ d \in Ino /\ d # i
    /\ i \notin LiveIn(vol) /\ DirsIn(u) = DirsIn(vol) \cup {i}
    /\ u.tab[i].kind = "dir" /\ u.tab[i].links = 2
    /\ u.tab[d].links = next_links_count(TRUE, vol.tab[d].links, 1) /\ u.tab[d].links # TooMany
    /\ \A x \in Ino : x # i => u.tab[x].kind = vol.tab[x].kind
    /\ \A x \in Ino : x \notin {i, d} => u.tab[x].links = vol.tab[x].links

\* apply_mkdir_at: the inode planned is free, its name is new and `..` leads back.
LEMMA MkdirFacts ==
  ASSUME Order(vol), NEW r, NEW n, NEW grow, NEW u, u = MkdirStaged(r, n, grow), u.bad = "ok"
  PROVE  \E d, i : MkdirAs(u, d, n, i)
<1>p. PICK d, i, v, t, w : /\ d = r.ino /\ i = plan_inode_allocation(vol, TRUE, GroupOf(d))
                           /\ v = NewInode(vol, i, "dir", 1, 2)
                           /\ t = AddEntry(v, d, n, i, grow) /\ w = [t EXCEPT !.up[i] = d]
  BY Zenon
<1>0. Form(vol) /\ vol.bad = "ok" /\ Tree(vol) /\ LinksRight(vol)
      /\ \A x \in LiveIn(vol) : vol.tab[x].kind # "none"
  BY Zenon DEF Order
<1>1. NewRefused(r, n) = "ok"
  <2> SUFFICES ASSUME NewRefused(r, n) # "ok" PROVE FALSE
    BY Zenon
  <2>1. u = Stop(vol, NewRefused(r, n))
    BY Zenon DEF MkdirStaged
  <2> QED
    BY <1>0, <2>1, StopFacts, Zenon
<1>2. t.bad = "ok" /\ u = patch_inode_nlink(w, d, 1)
  <2>1. CASE ~ check_link_room(vol, d)
    <3>1. u = Stop(vol, "toomany")
      BY <1>p, <1>1, <2>1, Zenon DEF MkdirStaged
    <3> QED
      BY <1>0, <3>1, StopFacts, Zenon
  <2>2. CASE check_link_room(vol, d) /\ t.bad # "ok"
    <3>1. u = t
      BY <1>p, <1>1, <2>2, Zenon DEF MkdirStaged
    <3> QED
      BY <2>2, <3>1, Zenon
  <2>3. CASE check_link_room(vol, d) /\ t.bad = "ok"
    BY <1>p, <1>1, <2>3, Zenon DEF MkdirStaged
  <2> QED
    BY <2>1, <2>2, <2>3, Zenon
<1>3. live_dir(vol, r) = "ok" /\ find_entry(vol, d, n) = 0
  BY <1>p, <1>1, Zenon DEF NewRefused
<1>4. d \in DirsIn(vol) /\ d \in Ino /\ Free(vol, d, n)
  BY <1>p, <1>0, <1>3, LiveDirIs, FreeName, DirsFinite, Zenon
<1>5. v.bad = "ok"
  BY <1>p, <1>2, Zenon DEF AddEntry
<1>6. i # 0
  <2> SUFFICES ASSUME i = 0 PROVE FALSE
    BY Zenon
  <2>1. v = Stop(vol, "corrupt")
    BY <1>p, Zenon DEF NewInode
  <2> QED
    BY <1>0, <1>5, <2>1, StopFacts, Zenon
<1>7. GroupOf(d) \in Int
  BY <1>4, NamespaceAssumption DEF GroupOf, Ino
<1>8. i \in Ino /\ i \notin vol.bits /\ i >= FirstInode
  BY <1>p, <1>0, <1>6, <1>7, AllocationFinds, Zenon
<1>9. /\ Form(v) /\ v.bits = vol.bits \cup {i} /\ v.ents = vol.ents /\ v.up = vol.up
      /\ \A x \in Ino : x # i => v.tab[x] = vol.tab[x]
      /\ v.tab[i].kind = "dir" /\ v.tab[i].links = 2
  <2>1. v = NewInode(vol, i, "dir", 1, 2)
    BY <1>p, Zenon
  <2> QED
    BY <1>0, <1>5, <1>8, <2>1, NewInodeFacts
<1>10. /\ Form(t) /\ t.bits = v.bits /\ t.up = v.up
       /\ \A x \in Ino : t.tab[x].kind = v.tab[x].kind /\ t.tab[x].links = v.tab[x].links
       /\ Added(v, t, d, n, i)
  <2>1. t = AddEntry(v, d, n, i, grow)
    BY <1>p, Zenon
  <2> QED
    BY <1>2, <1>4, <1>9, <2>1, AddEntryFacts
<1>w. w = WithUp(t, i, d)
  BY <1>p, Zenon DEF WithUp
<1>11. /\ Form(w) /\ w.bad = t.bad /\ w.bits = t.bits /\ w.ents = t.ents /\ w.tab = t.tab
       /\ w.up[i] = d /\ \A x \in Ino : x # i => w.up[x] = t.up[x]
  BY <1>w, <1>8, <1>10, UpFacts
<1>12. /\ Form(u) /\ u.bits = w.bits /\ u.up = w.up /\ u.ents = w.ents
       /\ \A x \in Ino : u.tab[x].kind = w.tab[x].kind
       /\ \A x \in Ino : x # d => u.tab[x].links = w.tab[x].links
       /\ u.tab[d].links = next_links_count(IsDir(w, d), w.tab[d].links, 1)
       /\ u.tab[d].links # TooMany
  BY <1>2, <1>4, <1>11, PatchFacts
<1>13. Added(vol, u, d, n, i)
  <2>1. \A x, m, y : /\ Leads(v, x, m, y) <=> Leads(vol, x, m, y)
                     /\ Leads(u, x, m, y) <=> Leads(t, x, m, y)
    BY <1>9, <1>11, <1>12 DEF Leads
  <2> QED
    BY <1>10, <2>1, Zenon DEF Added
<1>14. d # i /\ i \notin LiveIn(vol)
  BY <1>4, <1>8, Zenon DEF DirsIn, LiveIn
<1>15. /\ u.bits = vol.bits \cup {i} /\ u.tab[i].kind = "dir" /\ u.tab[i].links = 2 /\ u.up[i] = d
       /\ \A x \in Ino : x # i => u.tab[x].kind = vol.tab[x].kind /\ u.up[x] = vol.up[x]
       /\ \A x \in Ino : x \notin {i, d} => u.tab[x].links = vol.tab[x].links
       /\ u.tab[d].links = next_links_count(TRUE, vol.tab[d].links, 1)
  <2>1. IsDir(w, d) = TRUE /\ w.tab[d].links = vol.tab[d].links
    BY <1>4, <1>9, <1>10, <1>11, <1>14, Zenon DEF IsDir, DirsIn
  <2>2. u.tab[d].links = next_links_count(TRUE, vol.tab[d].links, 1)
    BY <1>12, <2>1, Zenon
  <2>3. u.bits = vol.bits \cup {i} /\ u.up[i] = d
    BY <1>9, <1>10, <1>11, <1>12, Zenon
  <2>4. u.tab[i].kind = "dir" /\ u.tab[i].links = 2
    BY <1>8, <1>9, <1>10, <1>11, <1>12, <1>14
  <2>5. \A x \in Ino : x # i => u.tab[x].kind = vol.tab[x].kind /\ u.up[x] = vol.up[x]
    BY <1>9, <1>10, <1>11, <1>12
  <2>6. \A x \in Ino : x \notin {i, d} => u.tab[x].links = vol.tab[x].links
    BY <1>9, <1>10, <1>11, <1>12
  <2> QED
    BY <2>2, <2>3, <2>4, <2>5, <2>6, Zenon
<1>16. LiveIn(u) = LiveIn(vol) \cup {i}
  BY <1>8, <1>15, Zenon DEF LiveIn
<1>17. DirsIn(u) = DirsIn(vol) \cup {i} /\ i \notin DirsIn(vol)
  BY <1>14, <1>15, <1>16, DirsFinite, Zenon DEF DirsIn, IsDir
<1>18. Grown(vol, u, d, n, i)
  <2>1. \A x \in DirsIn(vol) : u.up[x] = vol.up[x]
    BY <1>15, <1>17, DirsFinite, Zenon
  <2> QED
    BY <1>4, <1>8, <1>13, <1>14, <1>15, <1>16, <1>17, <2>1, Zenon DEF Grown
<1>19. MkdirAs(u, d, n, i)
  BY <1>4, <1>12, <1>14, <1>15, <1>17, <1>18, Zenon DEF MkdirAs
<1> QED
  BY <1>19, Zenon

\* apply_mkdir_at keeps the order.
LEMMA MkdirOrder ==
  ASSUME Order(vol), NEW r, NEW n, NEW grow, NEW u, u = MkdirStaged(r, n, grow), u.bad = "ok"
  PROVE  Order(u)
<1>0. Tree(vol) /\ LinksRight(vol) /\ \A x \in LiveIn(vol) : vol.tab[x].kind # "none"
  BY Zenon DEF Order
<1>1. PICK d, i : MkdirAs(u, d, n, i)
  BY MkdirFacts, Zenon
<1>15. /\ u.tab[i].kind = "dir" /\ u.tab[i].links = 2
       /\ u.tab[d].links = next_links_count(TRUE, vol.tab[d].links, 1) /\ u.tab[d].links # TooMany
       /\ \A x \in Ino : x # i => u.tab[x].kind = vol.tab[x].kind
       /\ \A x \in Ino : x \notin {i, d} => u.tab[x].links = vol.tab[x].links
  BY <1>1, Zenon DEF MkdirAs
<1>16. /\ Form(u) /\ Grown(vol, u, d, n, i) /\ d \in Ino /\ d # i
       /\ i \notin LiveIn(vol) /\ DirsIn(u) = DirsIn(vol) \cup {i}
  BY <1>1, Zenon DEF MkdirAs
<1>17. LiveIn(u) = LiveIn(vol) \cup {i} /\ d \in DirsIn(vol) /\ i \notin DirsIn(vol)
  BY <1>16, Zenon DEF Grown
<1>18. /\ Tree(u)
       /\ \A x : x # i => SameLeads(vol, u, x)
       /\ \A x : x # d => Subdirs(u, x) = Subdirs(vol, x)
       /\ Subdirs(u, d) = Subdirs(vol, d) \cup {i} /\ i \notin Subdirs(vol, d)
  <2>1. i \in DirsIn(u)
    BY <1>16, Zenon
  <2> QED
    BY <1>0, <1>16, <2>1, NameAdded
<1>19. OnlyDirs(vol) /\ OnlyDirs(u) /\ IsFiniteSet(Places(vol))
  BY <1>0, <1>18, Zenon DEF Tree
<1>20. ASSUME NEW x \in LiveIn(u) PROVE InodeRight(u, x) /\ u.tab[x].kind # "none"
  <2>1. CASE x = i
    <3>1. Subdirs(vol, i) = {}
      BY <1>0, <1>17, Zenon DEF Subdirs, Tree
    <3>2. Cardinality(Subdirs(u, i)) = 0
      BY <1>16, <1>18, <3>1, FS_EmptySet, Zenon
    <3> QED
      BY <1>15, <2>1, <3>2 DEF InodeRight, IsDir
  <2>2. CASE x = d
    <3>1. InodeRight(vol, d) /\ IsDir(vol, d) /\ IsDir(u, d)
      BY <1>0, <1>15, <1>16, <1>17, RightEach, Zenon DEF DirsIn, IsDir
    <3>2. Cardinality(Subdirs(u, d)) = Cardinality(Subdirs(vol, d)) + 1
      BY <1>18, DirsFinite, FS_AddElement, Zenon
    <3>3. InodeRight(u, d)
      BY <1>15, <3>1, <3>2, DirUp, Zenon
    <3> QED
      BY <2>2, <3>1, <3>3, Zenon DEF IsDir
  <2>3. CASE x \notin {i, d}
    <3>1. x \in LiveIn(vol) /\ x \in Ino
      BY <1>17, <2>3, DirsFinite, Zenon
    <3>2. InodeRight(vol, x)
      BY <1>0, <3>1, RightEach, Zenon
    <3>3. NamesOf(u, x) = NamesOf(vol, x) /\ Subdirs(u, x) = Subdirs(vol, x)
      BY <1>18, <1>19, <2>3, NamesSame, Zenon
    <3>4. InodeRight(u, x)
      BY <1>15, <2>3, <3>1, <3>2, <3>3, InodeSame, Zenon
    <3> QED
      BY <1>0, <1>15, <2>3, <3>1, <3>4, Zenon
  <2> QED
    BY <2>1, <2>2, <2>3, Zenon
<1> QED
  BY <1>16, <1>18, <1>20, RightEach, Zenon DEF Order

\* apply_link_at
\* What link leaves: one name more for `i`, which is no directory, and one link more.
LinkAs(u, d, n, i) ==
    /\ Form(u) /\ Grown(vol, u, d, n, i) /\ d \in Ino
    /\ i \in LiveIn(vol) /\ i \notin DirsIn(vol) /\ DirsIn(u) = DirsIn(vol) /\ ~ IsDir(vol, i)
    /\ \A x \in Ino : u.tab[x].kind = vol.tab[x].kind
    /\ \A x \in Ino : x # i => u.tab[x].links = vol.tab[x].links
    /\ u.tab[i].links = vol.tab[i].links + 1

\* apply_link_at: the name is new and the count of the target steps up.
LEMMA LinkFacts ==
  ASSUME Order(vol), NEW target, NEW r, NEW n, NEW grow,
         NEW u, u = LinkStaged(target, r, n, grow), u.bad = "ok"
  PROVE  \E d, i : LinkAs(u, d, n, i)
<1>p. PICK d, i, t : d = r.ino /\ i = target.ino /\ t = patch_inode_nlink(vol, i, 1)
  BY Zenon
<1>0. Form(vol) /\ vol.bad = "ok" /\ Tree(vol) /\ LinksRight(vol)
      /\ \A x \in LiveIn(vol) : vol.tab[x].kind # "none"
  BY Zenon DEF Order
<1>1. /\ live_inode(vol, target) /\ ~ IsDir(vol, i) /\ NewRefused(r, n) = "ok"
      /\ u = AddEntry(t, d, n, i, grow)
  <2>1. \/ /\ live_inode(vol, target) /\ ~ IsDir(vol, i) /\ NewRefused(r, n) = "ok"
           /\ u = AddEntry(t, d, n, i, grow)
        \/ u = Stop(vol, "stale") \/ u = Stop(vol, "isdir") \/ u = Stop(vol, "toomany")
        \/ NewRefused(r, n) # "ok" /\ u = Stop(vol, NewRefused(r, n))
    BY <1>p, Zenon DEF LinkStaged
  <2> QED
    BY <1>0, <2>1, StopFacts
<1>2. live_dir(vol, r) = "ok" /\ find_entry(vol, d, n) = 0
  BY <1>p, <1>1, Zenon DEF NewRefused
<1>3. d \in DirsIn(vol) /\ d \in Ino /\ Free(vol, d, n)
  BY <1>p, <1>0, <1>2, LiveDirIs, FreeName, DirsFinite, Zenon
<1>4. i \in LiveIn(vol) /\ i \in Ino /\ i \notin DirsIn(vol)
  BY <1>p, <1>1, Zenon DEF live_inode, LiveIn, DirsIn
<1>5. t.bad = "ok"
  BY <1>1, Zenon DEF AddEntry
<1>6. /\ Form(t) /\ t.bits = vol.bits /\ t.up = vol.up /\ t.ents = vol.ents
      /\ \A x \in Ino : t.tab[x].kind = vol.tab[x].kind
      /\ \A x \in Ino : x # i => t.tab[x].links = vol.tab[x].links
      /\ t.tab[i].links = next_links_count(IsDir(vol, i), vol.tab[i].links, 1)
      /\ t.tab[i].links # TooMany
  <2>1. t = patch_inode_nlink(vol, i, 1)
    BY <1>p, Zenon
  <2> QED
    BY <1>0, <1>4, <1>5, <2>1, PatchFacts
<1>7. t.tab[i].links = vol.tab[i].links + 1
  BY <1>0, <1>1, <1>4, <1>6 DEF next_links_count, Form
<1>8. /\ Form(u) /\ u.bits = t.bits /\ u.up = t.up
      /\ \A x \in Ino : u.tab[x].kind = t.tab[x].kind /\ u.tab[x].links = t.tab[x].links
      /\ Added(t, u, d, n, i)
  BY <1>1, <1>3, <1>6, AddEntryFacts
<1>9. Added(vol, u, d, n, i)
  <2>1. \A x, m, y : Leads(t, x, m, y) <=> Leads(vol, x, m, y)
    BY <1>6, Zenon DEF Leads
  <2> QED
    BY <1>8, <2>1, Zenon DEF Added
<1>10. /\ u.bits = vol.bits /\ u.up = vol.up
       /\ \A x \in Ino : u.tab[x].kind = vol.tab[x].kind
       /\ \A x \in Ino : x # i => u.tab[x].links = vol.tab[x].links
       /\ u.tab[i].links = vol.tab[i].links + 1
  BY <1>4, <1>6, <1>7, <1>8, Zenon
<1>11. LiveIn(u) = LiveIn(vol) /\ LiveIn(u) = LiveIn(vol) \cup {i} /\ DirsIn(u) = DirsIn(vol)
  <2>1. LiveIn(u) = LiveIn(vol)
    BY <1>10, Zenon DEF LiveIn
  <2>2. DirsIn(u) = DirsIn(vol)
    BY <1>10, <2>1, DirsFinite, Zenon DEF DirsIn, IsDir
  <2> QED
    BY <1>4, <2>1, <2>2, Zenon
<1>12. Grown(vol, u, d, n, i)
  BY <1>3, <1>4, <1>9, <1>10, <1>11, Zenon DEF Grown
<1>13. LinkAs(u, d, n, i)
  BY <1>1, <1>3, <1>4, <1>8, <1>10, <1>11, <1>12, Zenon DEF LinkAs
<1> QED
  BY <1>13, Zenon

\* apply_link_at keeps the order.
LEMMA LinkOrder ==
  ASSUME Order(vol), NEW target, NEW r, NEW n, NEW grow,
         NEW u, u = LinkStaged(target, r, n, grow), u.bad = "ok"
  PROVE  Order(u)
<1>0. Tree(vol) /\ LinksRight(vol) /\ \A x \in LiveIn(vol) : vol.tab[x].kind # "none"
  BY Zenon DEF Order
<1>1. PICK d, i : LinkAs(u, d, n, i)
  BY LinkFacts, Zenon
<1>10. /\ \A x \in Ino : u.tab[x].kind = vol.tab[x].kind
       /\ \A x \in Ino : x # i => u.tab[x].links = vol.tab[x].links
       /\ u.tab[i].links = vol.tab[i].links + 1
  BY <1>1, Zenon DEF LinkAs
<1>4. /\ Form(u) /\ Grown(vol, u, d, n, i) /\ d \in Ino
      /\ i \in LiveIn(vol) /\ i \notin DirsIn(vol) /\ DirsIn(u) = DirsIn(vol) /\ ~ IsDir(vol, i)
  BY <1>1, Zenon DEF LinkAs
<1>11. LiveIn(u) = LiveIn(vol) \cup {i} /\ i \in Ino
  BY <1>4, Zenon DEF Grown
<1>12. /\ Tree(u)
       /\ MoreLeads(vol, u, i, d, n) /\ ~ Leads(vol, d, n, i)
       /\ \A x : x # i => SameLeads(vol, u, x)
       /\ \A x : Subdirs(u, x) = Subdirs(vol, x)
  <2>1. /\ Tree(u)
        /\ MoreLeads(vol, u, i, d, n) /\ ~ Leads(vol, d, n, i)
        /\ \A x : x # i => SameLeads(vol, u, x)
        /\ \A x : x # d => Subdirs(u, x) = Subdirs(vol, x)
        /\ i \notin DirsIn(u) => Subdirs(u, d) = Subdirs(vol, d)
    BY <1>0, <1>4, NameAdded
  <2> QED
    BY <1>4, <2>1, Zenon
<1>13. OnlyDirs(vol) /\ OnlyDirs(u) /\ IsFiniteSet(Places(vol))
  BY <1>0, <1>12, Zenon DEF Tree
<1>14. ASSUME NEW x \in LiveIn(u) PROVE InodeRight(u, x)
  <2>1. x \in LiveIn(vol) /\ x \in Ino /\ InodeRight(vol, x)
    BY <1>0, <1>4, <1>11, DirsFinite, RightEach, Zenon
  <2>2. CASE x = i
    <3>1. Cardinality(NamesOf(u, i)) = Cardinality(NamesOf(vol, i)) + 1
      BY <1>4, <1>12, <1>13, NamesMore, Zenon
    <3>2. Cardinality(NamesOf(vol, i)) \in Nat
      BY <1>13, NamesFinite, Zenon
    <3> QED
      BY <1>4, <1>10, <2>1, <2>2, <3>1, <3>2 DEF InodeRight, IsDir
  <2>3. CASE x # i
    <3>1. NamesOf(u, x) = NamesOf(vol, x)
      BY <1>12, <1>13, <2>3, NamesSame, Zenon
    <3> QED
      BY <1>10, <1>12, <2>1, <2>3, <3>1, InodeSame, Zenon
  <2> QED
    BY <2>2, <2>3, Zenon
<1>15. \A x \in LiveIn(u) : u.tab[x].kind # "none"
  BY <1>0, <1>4, <1>10, <1>11, DirsFinite, Zenon
<1> QED
  BY <1>4, <1>12, <1>14, <1>15, RightEach, Zenon DEF Order

\* An inode with no entries ends: the names stay as they are.
LEMMA FreedNames ==
  ASSUME NEW t, Form(t), NEW i \in Ino, Barren(t, i), NEW u, u = FreeInode(t, i)
  PROVE  /\ Form(u) /\ u.bad = t.bad /\ u.up = t.up
         /\ \A x \in Ino : x # i => u.tab[x] = t.tab[x]
         /\ \A x \in Ino : \A m, y : Leads(u, x, m, y) <=> Leads(t, x, m, y)
         /\ LiveIn(u) = LiveIn(t) \ {i} /\ DirsIn(u) = DirsIn(t) \ {i}
<1>1. /\ Form(u) /\ u.bad = t.bad
      /\ u.bits = t.bits \ {i} /\ u.up = t.up
      /\ \A x \in Ino : x # i => u.tab[x] = t.tab[x] /\ u.ents[x] = t.ents[x]
      /\ DOMAIN u.ents[i] = {}
  BY FreeInodeFacts
<1>2. ASSUME NEW x \in Ino, NEW m, NEW y PROVE Leads(u, x, m, y) <=> Leads(t, x, m, y)
  <2>1. CASE x = i
    BY <1>1, <2>1, Zenon DEF Leads, Free, Barren
  <2>2. CASE x # i
    BY <1>1, <2>2, Zenon DEF Leads
  <2> QED
    BY <2>1, <2>2, Zenon
<1>3. LiveIn(u) = LiveIn(t) \ {i}
  BY <1>1, Zenon DEF LiveIn
<1>4. DirsIn(u) = DirsIn(t) \ {i}
  BY <1>1, <1>3, DirsFinite, Zenon DEF DirsIn, IsDir
<1> QED
  BY <1>1, <1>2, <1>3, <1>4, Zenon

\* The last name of a file.
LEMMA OnlyName ==
  ASSUME NEW t, Tree(t), NEW d \in Ino, NEW n, NEW i, Leads(t, d, n, i),
         Cardinality(NamesOf(t, i)) = 1, NEW x \in Ino, NEW m, Leads(t, x, m, i)
  PROVE  x = d /\ m = n
<1>1. OnlyDirs(t) /\ IsFiniteSet(Places(t))
  BY Zenon DEF Tree
<1>2. PICK p : NamesOf(t, i) = {p}
  BY <1>1, NamesFinite, FS_Singleton, Zenon
<1>3. <<d, n>> \in NamesOf(t, i) /\ <<x, m>> \in NamesOf(t, i)
  BY <1>1, NamesAre, Zenon
<1>4. <<d, n>> = <<x, m>>
  BY <1>2, <1>3, Zenon
<1> QED
  BY <1>4, Zenon

\* One name fewer for a file that has another.
LEMMA UnlinkedFacts ==
  ASSUME NEW t, Form(t), NEW i \in Ino, t.tab[i].links > 1, NEW u, u = Unlinked(t, i)
  PROVE  /\ Form(u) /\ u.bad = t.bad /\ u.bits = t.bits /\ u.up = t.up /\ u.ents = t.ents
         /\ \A x \in Ino : u.tab[x].kind = t.tab[x].kind
         /\ \A x \in Ino : x # i => u.tab[x].links = t.tab[x].links
         /\ u.tab[i].links = t.tab[i].links - 1
<1> DEFINE b == [t.tab[i] EXCEPT !.links = @ - 1]
<1>1. u = [t EXCEPT !.tab = [t.tab EXCEPT ![i] = b]]
  BY Zenon DEF Unlinked
<1>2. DOMAIN b = Columns /\ b.kind = t.tab[i].kind /\ b.links = t.tab[i].links - 1 /\ b.links \in Nat
  BY DEF Form, Columns
<1> HIDE DEF b
<1>3. /\ DOMAIN u = Fields /\ u.bits = t.bits /\ u.up = t.up /\ u.grp = t.grp /\ u.bad = t.bad
      /\ u.ents = t.ents /\ u.tab = [t.tab EXCEPT ![i] = b]
  BY <1>1, Zenon DEF Form, Fields
<1>4. /\ DOMAIN u.tab = Ino /\ u.tab[i] = b
      /\ \A x \in Ino : x # i => u.tab[x] = t.tab[x]
  BY <1>3, Zenon DEF Form
<1>5. Form(u)
  BY <1>2, <1>3, <1>4, Zenon DEF Form
<1> QED
  BY <1>2, <1>3, <1>4, <1>5, Zenon

\* A file of a volume in order has as many links as names, and no entries.
LEMMA FileNames ==
  ASSUME NEW t, Order(t), NEW i \in LiveIn(t), i \notin DirsIn(t)
  PROVE  /\ i \in Ino /\ ~ IsDir(t, i) /\ t.tab[i].links = Cardinality(NamesOf(t, i))
         /\ t.tab[i].links \in Nat \ {0}
         /\ Barren(t, i)
<1>1. i \in Ino /\ ~ IsDir(t, i) /\ t.tab[i].links \in Nat
  BY DirsFinite, Zenon DEF DirsIn, Order, Form
<1>2. t.tab[i].links = Cardinality(NamesOf(t, i)) /\ t.tab[i].links > 0
  BY <1>1, Zenon DEF Order, LinksRight
<1>3. Barren(t, i)
  <2>1. OnlyDirs(t)
    BY Zenon DEF Order, Tree
  <2> QED
    BY <1>1, <2>1, Zenon DEF OnlyDirs, Barren, Free, Leads
<1> QED
  BY <1>1, <1>2, <1>3

\* What unlink leaves: `i`, no directory, loses a name, and ends with its last link.
UnlinkAs(u, d, n, i, G) ==
    /\ Form(u) /\ Dropped(vol, u, d, n, i, G) /\ d \in Ino
    /\ i \in LiveIn(vol) /\ i \in Ino /\ i \notin DirsIn(vol) /\ LiveIn(u) = LiveIn(vol) \ G
    /\ vol.tab[i].links = Cardinality(NamesOf(vol, i))
    /\ i \notin G => /\ vol.tab[i].links > 1 /\ u.tab[i].links = vol.tab[i].links - 1
                    /\ u.tab[i].kind = vol.tab[i].kind
    /\ \A x \in Ino : x # i => u.tab[x].kind = vol.tab[x].kind /\ u.tab[x].links = vol.tab[x].links

\* apply_unlink_at: the entry leads to a live file, and the file ends if it was the last one.
LEMMA UnlinkFacts ==
  ASSUME Order(vol), NEW r, NEW n, NEW slash,
         NEW u, u = UnlinkStaged(r, n, slash), u.bad = "ok"
  PROVE  \E d, i, G : UnlinkAs(u, d, n, i, G)
<1>p. PICK d, i, t : d = r.ino /\ i = find_entry(vol, d, n) /\ t = RemoveEntry(vol, d, n)
  BY Zenon
<1>0. Form(vol) /\ vol.bad = "ok" /\ Tree(vol) /\ LinksRight(vol)
      /\ \A x \in LiveIn(vol) : vol.tab[x].kind # "none"
  BY Zenon DEF Order
<1>1. /\ live_dir(vol, r) = "ok" /\ i # 0 /\ live_inode(vol, Ref(i, GEN_ANY))
      /\ ~ IsDir(vol, i) /\ u = Unlinked(t, i)
  <2>1. \/ /\ live_dir(vol, r) = "ok" /\ i # 0 /\ live_inode(vol, Ref(i, GEN_ANY))
           /\ ~ IsDir(vol, i) /\ u = Unlinked(t, i)
        \/ u = Stop(vol, "stale") \/ u = Stop(vol, "isdir") \/ u = Stop(vol, "notdir")
        \/ u = Stop(vol, "notfound")
        \/ live_dir(vol, r) # "ok" /\ u = Stop(vol, live_dir(vol, r))
    BY <1>p, Zenon DEF UnlinkStaged
  <2> QED
    BY <1>0, <2>1, StopFacts, Zenon
<1>2. d \in DirsIn(vol) /\ d \in Ino
  BY <1>p, <1>1, LiveDirIs, DirsFinite
<1>3. i \in LiveIn(vol) /\ i \notin DirsIn(vol)
  BY <1>0, <1>1, LiveIff, Zenon DEF DirsIn
<1>4. n # "." /\ n # ".."
  <2>1. vol.up[d] \in DirsIn(vol)
    BY <1>0, <1>2, Zenon DEF Tree
  <2> QED
    BY <1>p, <1>2, <1>3, <2>1 DEF find_entry
<1>5. Leads(vol, d, n, i)
  BY <1>p, <1>1, <1>4, EntryLeads
<1>6. /\ i \in Ino /\ vol.tab[i].links = Cardinality(NamesOf(vol, i))
      /\ vol.tab[i].links \in Nat \ {0} /\ Barren(vol, i)
  BY <1>3, FileNames, Zenon
<1>7. /\ Form(t) /\ t.bad = vol.bad /\ t.bits = vol.bits /\ t.up = vol.up /\ t.tab = vol.tab
      /\ Removed(vol, t, d, n)
  BY <1>p, <1>0, <1>2, RemoveEntryFacts
<1>8. LiveIn(t) = LiveIn(vol) /\ DirsIn(t) = DirsIn(vol)
  BY <1>7, Zenon DEF LiveIn, DirsIn, IsDir
<1>9. Barren(t, i)
  BY <1>6, <1>7, Zenon DEF Barren, Free, Removed
<1>q. PICK G : G = IF vol.tab[i].links > 1 THEN {} ELSE {i}
  BY Zenon
<1>10. /\ Form(u) /\ u.up = vol.up
       /\ \A x \in Ino : x # i => u.tab[x].kind = vol.tab[x].kind /\ u.tab[x].links = vol.tab[x].links
       /\ LiveIn(u) = LiveIn(vol) \ G /\ DirsIn(u) = DirsIn(vol) \ G
       /\ \A x \in Ino : \A m, y : Leads(u, x, m, y) <=> Leads(t, x, m, y)
       /\ i \notin G => u.tab[i].links = vol.tab[i].links - 1 /\ u.tab[i].kind = vol.tab[i].kind
  <2>1. CASE vol.tab[i].links > 1
    <3>1. /\ Form(u) /\ u.bits = t.bits /\ u.up = t.up /\ u.ents = t.ents
          /\ \A x \in Ino : u.tab[x].kind = t.tab[x].kind
          /\ \A x \in Ino : x # i => u.tab[x].links = t.tab[x].links
          /\ u.tab[i].links = t.tab[i].links - 1
      BY <1>1, <1>6, <1>7, <2>1, UnlinkedFacts
    <3>2. LiveIn(u) = LiveIn(t)
      BY <3>1, Zenon DEF LiveIn
    <3>3. DirsIn(u) = DirsIn(t)
      BY <3>1, <3>2, DirsFinite, Zenon DEF DirsIn, IsDir
    <3>4. \A x \in Ino : \A m, y : Leads(u, x, m, y) <=> Leads(t, x, m, y)
      BY <3>1, Zenon DEF Leads
    <3> QED
      BY <1>q, <1>6, <1>7, <1>8, <2>1, <3>1, <3>2, <3>3, <3>4, Zenon
  <2>2. CASE ~ (vol.tab[i].links > 1)
    <3>1. u = FreeInode(t, i)
      BY <1>1, <1>7, <2>2, Zenon DEF Unlinked
    <3>2. /\ Form(u) /\ u.up = t.up
          /\ \A x \in Ino : x # i => u.tab[x] = t.tab[x]
          /\ \A x \in Ino : \A m, y : Leads(u, x, m, y) <=> Leads(t, x, m, y)
          /\ LiveIn(u) = LiveIn(t) \ {i} /\ DirsIn(u) = DirsIn(t) \ {i}
      BY <1>6, <1>7, <1>9, <3>1, FreedNames
    <3> QED
      BY <1>q, <1>7, <1>8, <2>2, <3>2, Zenon
  <2> QED
    BY <2>1, <2>2, Zenon
<1>11. Removed(vol, u, d, n)
  BY <1>7, <1>10, Zenon DEF Removed
<1>12. i \in G => Unnamed(u, i)
  <2> SUFFICES ASSUME i \in G, NEW x \in Ino, NEW m, Leads(u, x, m, i) PROVE FALSE
    BY Zenon DEF Unnamed
  <2>1. Leads(vol, x, m, i) /\ ~ (x = d /\ m = n)
    BY <1>11, Zenon DEF Removed
  <2>2. Cardinality(NamesOf(vol, i)) = 1
    BY <1>q, <1>6
  <2> QED
    BY <1>0, <1>2, <1>5, <2>1, <2>2, OnlyName
<1>13. G \in {{}, {i}} /\ (i \in G \/ G = {})
  BY <1>q, Zenon
<1>14. Dropped(vol, u, d, n, i, G)
  BY <1>2, <1>3, <1>5, <1>10, <1>11, <1>12, <1>13, Zenon DEF Dropped
<1>15. i \notin G => vol.tab[i].links > 1
  BY <1>q, Zenon
<1>16. UnlinkAs(u, d, n, i, G)
  BY <1>2, <1>3, <1>6, <1>10, <1>14, <1>15, Zenon DEF UnlinkAs
<1> QED
  BY <1>16, Zenon

\* apply_unlink_at keeps the order.
LEMMA UnlinkOrder ==
  ASSUME Order(vol), NEW r, NEW n, NEW slash,
         NEW u, u = UnlinkStaged(r, n, slash), u.bad = "ok"
  PROVE  Order(u)
<1>0. Tree(vol) /\ LinksRight(vol) /\ \A x \in LiveIn(vol) : vol.tab[x].kind # "none"
  BY Zenon DEF Order
<1>1. PICK d, i, G : UnlinkAs(u, d, n, i, G)
  BY UnlinkFacts, Zenon
<1>3. /\ Form(u) /\ Dropped(vol, u, d, n, i, G) /\ d \in Ino
      /\ i \in LiveIn(vol) /\ i \in Ino /\ i \notin DirsIn(vol) /\ LiveIn(u) = LiveIn(vol) \ G
  BY <1>1, Zenon DEF UnlinkAs
<1>10. /\ vol.tab[i].links = Cardinality(NamesOf(vol, i))
       /\ i \notin G => /\ vol.tab[i].links > 1 /\ u.tab[i].links = vol.tab[i].links - 1
                       /\ u.tab[i].kind = vol.tab[i].kind
       /\ \A x \in Ino : x # i => u.tab[x].kind = vol.tab[x].kind /\ u.tab[x].links = vol.tab[x].links
  BY <1>1, Zenon DEF UnlinkAs
<1>14. /\ Tree(u)
       /\ MoreLeads(u, vol, i, d, n) /\ ~ Leads(u, d, n, i)
       /\ \A x : x # i => SameLeads(vol, u, x)
       /\ \A x : Subdirs(u, x) = Subdirs(vol, x)
  <2>1. /\ Tree(u)
        /\ MoreLeads(u, vol, i, d, n) /\ ~ Leads(u, d, n, i)
        /\ \A x : x # i => SameLeads(vol, u, x)
        /\ \A x : x # d => Subdirs(u, x) = Subdirs(vol, x)
        /\ i \notin DirsIn(vol) => Subdirs(u, d) = Subdirs(vol, d)
    BY <1>0, <1>3, NameDropped
  <2> QED
    BY <1>3, <2>1, Zenon
<1>15. OnlyDirs(vol) /\ OnlyDirs(u) /\ IsFiniteSet(Places(u))
  BY <1>0, <1>14, Zenon DEF Tree
<1>16. ASSUME NEW x \in LiveIn(u) PROVE InodeRight(u, x) /\ u.tab[x].kind # "none"
  <2>1. x \in LiveIn(vol) /\ x \in Ino /\ InodeRight(vol, x) /\ vol.tab[x].kind # "none"
    BY <1>0, <1>3, DirsFinite, RightEach
  <2>2. CASE x = i
    <3>1. Cardinality(NamesOf(vol, i)) = Cardinality(NamesOf(u, i)) + 1
      BY <1>3, <1>14, <1>15, NamesMore
    <3>2. Cardinality(NamesOf(u, i)) \in Nat
      BY <1>15, NamesFinite, Zenon
    <3>3. i \notin G
      BY <1>3, <2>2, Zenon
    <3>4. vol.tab[i].links > 1
      BY <1>10, <3>3, Zenon
    <3>5. ~ IsDir(u, i)
      BY <1>3, <1>10, <2>1, <2>2, <3>3 DEF DirsIn, IsDir
    <3> QED
      BY <1>10, <2>1, <2>2, <3>1, <3>2, <3>3, <3>4, <3>5 DEF InodeRight
  <2>3. CASE x # i
    <3>1. NamesOf(u, x) = NamesOf(vol, x)
      BY <1>14, <1>15, <2>3, NamesSame, Zenon
    <3>2. InodeRight(u, x)
      BY <1>10, <1>14, <2>1, <2>3, <3>1, InodeSame, Zenon
    <3> QED
      BY <1>10, <2>1, <2>3, <3>2, Zenon
  <2> QED
    BY <2>2, <2>3, Zenon
<1> QED
  BY <1>3, <1>14, <1>16, RightEach, Zenon DEF Order

\* What rmdir leaves: the directory `i`, which was empty, ends with its name, and the
\* link count of the directory it was in is stepped down.
RmdirAs(u, d, n, i) ==
    /\ Form(u) /\ Dropped(vol, u, d, n, i, {i}) /\ d \in DirsIn(vol) /\ d \in Ino /\ d # i
    /\ i \in DirsIn(vol) /\ LiveIn(u) = LiveIn(vol) \ {i}
    /\ u.tab[d].links = next_links_count(TRUE, vol.tab[d].links, -1)
    /\ \A x \in Ino : x # i => u.tab[x].kind = vol.tab[x].kind
    /\ \A x \in Ino : x \notin {i, d} => u.tab[x].links = vol.tab[x].links

\* apply_rmdir_at: the directory is empty, has one name, and that one goes.
LEMMA RmdirFacts ==
  ASSUME Order(vol), NEW r, NEW n, NEW u, u = RmdirStaged(r, n), u.bad = "ok"
  PROVE  \E d, i : RmdirAs(u, d, n, i)
<1>p. PICK d, i, v, t : /\ d = r.ino /\ i = find_entry(vol, d, n)
                        /\ v = FreeInode(vol, i) /\ t = RemoveEntry(v, d, n)
  BY Zenon
<1>0. Form(vol) /\ vol.bad = "ok" /\ Tree(vol) /\ LinksRight(vol)
      /\ \A x \in LiveIn(vol) : vol.tab[x].kind # "none"
  BY Zenon DEF Order
<1>1. /\ n # "." /\ n # ".." /\ live_dir(vol, r) = "ok" /\ i # 0
      /\ live_inode(vol, Ref(i, GEN_ANY)) /\ IsDir(vol, i) /\ Empty(vol, i)
      /\ u = patch_inode_nlink(t, d, -1)
  <2>1. \/ /\ n # "." /\ n # ".." /\ live_dir(vol, r) = "ok" /\ i # 0
           /\ live_inode(vol, Ref(i, GEN_ANY)) /\ IsDir(vol, i) /\ Empty(vol, i)
           /\ u = patch_inode_nlink(t, d, -1)
        \/ u = Stop(vol, "invalid") \/ u = Stop(vol, "notempty") \/ u = Stop(vol, "notfound")
        \/ u = Stop(vol, "stale") \/ u = Stop(vol, "notdir")
        \/ live_dir(vol, r) # "ok" /\ u = Stop(vol, live_dir(vol, r))
    BY <1>p, Zenon DEF RmdirStaged
  <2> QED
    BY <1>0, <2>1, StopFacts, ZenonT(40)
<1>2. d \in DirsIn(vol) /\ d \in Ino
  BY <1>p, <1>1, LiveDirIs, DirsFinite, Zenon
<1>3. i \in LiveIn(vol) /\ i \in DirsIn(vol) /\ i \in Ino
  BY <1>0, <1>1, LiveIff, DirsFinite, Zenon DEF DirsIn
<1>4. Leads(vol, d, n, i)
  BY <1>p, <1>1, EntryLeads, Zenon
<1>5. Barren(vol, i)
  BY <1>1 DEF Empty, Barren, Free, Leads
<1>6. d # i
  BY <1>4, <1>5, Zenon DEF Barren, Free
<1>7. /\ Form(v) /\ v.bad = vol.bad /\ v.up = vol.up
      /\ \A x \in Ino : x # i => v.tab[x] = vol.tab[x]
      /\ \A x \in Ino : \A m, y : Leads(v, x, m, y) <=> Leads(vol, x, m, y)
      /\ LiveIn(v) = LiveIn(vol) \ {i} /\ DirsIn(v) = DirsIn(vol) \ {i}
  <2>1. v = FreeInode(vol, i)
    BY <1>p, Zenon
  <2> QED
    BY <1>0, <1>3, <1>5, <2>1, FreedNames
<1>8. /\ Form(t) /\ t.bad = v.bad /\ t.bits = v.bits /\ t.up = v.up /\ t.tab = v.tab
      /\ Removed(v, t, d, n)
  <2>1. t = RemoveEntry(v, d, n)
    BY <1>p, Zenon
  <2> QED
    BY <1>2, <1>7, <2>1, RemoveEntryFacts
<1>9. /\ Form(u) /\ u.bits = t.bits /\ u.up = t.up /\ u.ents = t.ents
      /\ \A x \in Ino : u.tab[x].kind = t.tab[x].kind
      /\ \A x \in Ino : x # d => u.tab[x].links = t.tab[x].links
      /\ u.tab[d].links = next_links_count(IsDir(t, d), t.tab[d].links, -1)
  BY <1>1, <1>2, <1>8, PatchFacts
<1>10. Removed(vol, u, d, n)
  <2>1. \A x, m, y : Leads(u, x, m, y) <=> Leads(t, x, m, y)
    BY <1>9, Zenon DEF Leads
  <2> QED
    BY <1>7, <1>8, <2>1, Zenon DEF Removed
<1>11. LiveIn(u) = LiveIn(vol) \ {i} /\ DirsIn(u) = DirsIn(vol) \ {i}
  <2>1. LiveIn(u) = LiveIn(v)
    BY <1>8, <1>9, Zenon DEF LiveIn
  <2>2. DirsIn(u) = DirsIn(v)
    BY <1>8, <1>9, <2>1, DirsFinite, Zenon DEF DirsIn, IsDir
  <2> QED
    BY <1>7, <2>1, <2>2, Zenon
<1>12. Unnamed(u, i)
  <2>0. i # Root
    BY <1>0, <1>2, <1>4, Zenon DEF Tree
  <2>1. PICK m : OneName(vol, i, m)
    BY <1>0, <1>3, <2>0, Zenon DEF Tree
  <2> QED
    BY <1>2, <1>4, <1>10, <2>1 DEF OneName, Unnamed, Removed
<1>13. Dropped(vol, u, d, n, i, {i})
  BY <1>2, <1>4, <1>5, <1>7, <1>8, <1>9, <1>10, <1>11, <1>12, Zenon DEF Dropped
<1>14. /\ u.tab[d].links = next_links_count(TRUE, vol.tab[d].links, -1)
       /\ \A x \in Ino : x # i => u.tab[x].kind = vol.tab[x].kind
       /\ \A x \in Ino : x \notin {i, d} => u.tab[x].links = vol.tab[x].links
  <2>1. IsDir(t, d) = TRUE /\ t.tab[d].links = vol.tab[d].links
    BY <1>2, <1>6, <1>7, <1>8, Zenon DEF IsDir, DirsIn
  <2>2. u.tab[d].links = next_links_count(TRUE, vol.tab[d].links, -1)
    BY <1>9, <2>1, Zenon
  <2>3. \A x \in Ino : x # i => t.tab[x] = vol.tab[x]
    BY <1>7, <1>8, Zenon
  <2>4. \A x \in Ino : x # i => u.tab[x].kind = vol.tab[x].kind
    BY <1>9, <2>3, Zenon
  <2>5. \A x \in Ino : x \notin {i, d} => u.tab[x].links = vol.tab[x].links
    BY <1>9, <2>3, Zenon
  <2> QED
    BY <2>2, <2>4, <2>5, Zenon
<1>15. RmdirAs(u, d, n, i)
  BY <1>2, <1>3, <1>6, <1>9, <1>11, <1>13, <1>14, Zenon DEF RmdirAs
<1> QED
  BY <1>15, Zenon

\* apply_rmdir_at keeps the order.
LEMMA RmdirOrder ==
  ASSUME Order(vol), NEW r, NEW n, NEW u, u = RmdirStaged(r, n), u.bad = "ok"
  PROVE  Order(u)
<1>0. Tree(vol) /\ LinksRight(vol) /\ \A x \in LiveIn(vol) : vol.tab[x].kind # "none"
  BY Zenon DEF Order
<1>1. PICK d, i : RmdirAs(u, d, n, i)
  BY RmdirFacts, Zenon
<1>2. /\ Form(u) /\ Dropped(vol, u, d, n, i, {i}) /\ d \in DirsIn(vol) /\ d \in Ino /\ d # i
      /\ i \in DirsIn(vol) /\ LiveIn(u) = LiveIn(vol) \ {i}
  BY <1>1, Zenon DEF RmdirAs
<1>14. /\ Tree(u)
       /\ \A x : x # i => SameLeads(vol, u, x)
       /\ \A x : x # d => Subdirs(u, x) = Subdirs(vol, x)
       /\ i \in DirsIn(vol) => Subdirs(vol, d) = Subdirs(u, d) \cup {i} /\ i \notin Subdirs(u, d)
  BY <1>0, <1>2, NameDropped, Zenon
<1>15. /\ u.tab[d].links = next_links_count(TRUE, vol.tab[d].links, -1)
       /\ \A x \in Ino : x # i => u.tab[x].kind = vol.tab[x].kind
       /\ \A x \in Ino : x \notin {i, d} => u.tab[x].links = vol.tab[x].links
  BY <1>1, Zenon DEF RmdirAs
<1>16. OnlyDirs(vol) /\ OnlyDirs(u)
  BY <1>0, <1>14, Zenon DEF Tree
<1>17. ASSUME NEW x \in LiveIn(u) PROVE InodeRight(u, x) /\ u.tab[x].kind # "none"
  <2>1. x \in LiveIn(vol) /\ x \in Ino /\ InodeRight(vol, x) /\ vol.tab[x].kind # "none" /\ x # i
    BY <1>0, <1>2, DirsFinite, RightEach, Zenon
  <2>2. CASE x = d
    <3>1. IsDir(vol, d) /\ IsDir(u, d)
      BY <1>2, <1>15, Zenon DEF DirsIn, IsDir
    <3>2. Cardinality(Subdirs(vol, d)) = Cardinality(Subdirs(u, d)) + 1
      BY <1>2, <1>14, DirsFinite, FS_AddElement
    <3>3. InodeRight(u, d)
      BY <1>15, <2>1, <2>2, <3>1, <3>2, DirDown, Zenon
    <3> QED
      BY <2>2, <3>1, <3>3, Zenon DEF IsDir
  <2>3. CASE x # d
    <3>1. NamesOf(u, x) = NamesOf(vol, x)
      BY <1>14, <1>16, <2>1, NamesSame, Zenon
    <3>2. InodeRight(u, x)
      BY <1>14, <1>15, <2>1, <2>3, <3>1, InodeSame, Zenon
    <3> QED
      BY <1>15, <2>1, <3>2, Zenon
  <2> QED
    BY <2>2, <2>3, Zenon
<1> QED
  BY <1>2, <1>14, <1>17, RightEach, Zenon DEF Order

-----------------------------------------------------------------------------
(* apply_rename_at *)


\* The inode that lost its name to a rename, and the inodes that end with it.
EndName(t, i) == IF IsDir(t, i) THEN FreeInode(t, i) ELSE Unlinked(t, i)
Ending(t, i) == IF IsDir(t, i) \/ ~ (t.tab[i].links > 1) THEN {i} ELSE {}

\* u is t after the inode i lost its name, and G ended.
EndedAs(t, u, i, G) ==
    /\ Form(u) /\ u.bad = t.bad /\ u.up = t.up
    /\ \A x \in Ino : x # i => u.tab[x].kind = t.tab[x].kind /\ u.tab[x].links = t.tab[x].links
    /\ LiveIn(u) = LiveIn(t) \ G /\ DirsIn(u) = DirsIn(t) \ G
    /\ \A x \in Ino : \A m, y : Leads(u, x, m, y) <=> Leads(t, x, m, y)
    /\ i \notin G => u.tab[i].links = t.tab[i].links - 1 /\ u.tab[i].kind = t.tab[i].kind

\* The inode that lost its name to apply_rename: freed with its last name, or one link
\* less; no other inode, no entry and no way up changes.
LEMMA EndFacts ==
  ASSUME NEW t, Form(t), NEW i \in Ino, Barren(t, i), NEW u, u = EndName(t, i),
         NEW G, G = Ending(t, i)
  PROVE  EndedAs(t, u, i, G)
<1>1. CASE ~ IsDir(t, i) /\ t.tab[i].links > 1
  <2>0. u = Unlinked(t, i) /\ G = {}
    BY <1>1, Zenon DEF EndName, Ending
  <2>1. /\ Form(u) /\ u.bad = t.bad /\ u.bits = t.bits /\ u.up = t.up /\ u.ents = t.ents
        /\ \A x \in Ino : u.tab[x].kind = t.tab[x].kind
        /\ \A x \in Ino : x # i => u.tab[x].links = t.tab[x].links
        /\ u.tab[i].links = t.tab[i].links - 1
    BY <1>1, <2>0, UnlinkedFacts
  <2>2. LiveIn(u) = LiveIn(t)
    BY <2>1, Zenon DEF LiveIn
  <2>3. DirsIn(u) = DirsIn(t)
    BY <2>1, <2>2, DirsFinite, Zenon DEF DirsIn, IsDir
  <2>4. \A x \in Ino : \A m, y : Leads(u, x, m, y) <=> Leads(t, x, m, y)
    BY <2>1, Zenon DEF Leads
  <2> QED
    BY <2>0, <2>1, <2>2, <2>3, <2>4, Zenon DEF EndedAs
<1>2. CASE IsDir(t, i) \/ ~ (t.tab[i].links > 1)
  <2>0. u = FreeInode(t, i) /\ G = {i}
    BY <1>2, Zenon DEF EndName, Ending, Unlinked
  <2>1. /\ Form(u) /\ u.bad = t.bad /\ u.up = t.up
        /\ \A x \in Ino : x # i => u.tab[x] = t.tab[x]
        /\ \A x \in Ino : \A m, y : Leads(u, x, m, y) <=> Leads(t, x, m, y)
        /\ LiveIn(u) = LiveIn(t) \ {i} /\ DirsIn(u) = DirsIn(t) \ {i}
    BY <2>0, FreedNames, Zenon
  <2> QED
    BY <2>0, <2>1, Zenon DEF EndedAs
<1> QED
  BY <1>1, <1>2, Zenon

\* The inode at a name that is taken over, and an empty directory or a file
\* with no other name with it: what is left of the names.
LEMMA TargetDropped ==
  ASSUME NEW t, Order(t), NEW d \in Ino, NEW n, NEW i, Leads(t, d, n, i),
         i \in DirsIn(t) => Barren(t, i),
         NEW v, v = RemoveEntry(t, d, n), NEW s, s = EndName(v, i), NEW G, G = Ending(t, i)
  PROVE  /\ Dropped(t, s, d, n, i, G) /\ s.up = t.up
         /\ \A x \in Ino : \A m, y : Leads(s, x, m, y) <=> Leads(v, x, m, y)
         /\ i \in Ino /\ Barren(t, i)
<1>0. Form(t) /\ Tree(t)
  BY Zenon DEF Order
<1>1. i \in LiveIn(t) /\ i # Root /\ i \in Ino
  BY <1>0, DirsFinite, Zenon DEF Tree
<1>2. Barren(t, i)
  BY <1>1, FileNames, Zenon
<1>3. /\ Form(v) /\ v.bad = t.bad /\ v.bits = t.bits /\ v.up = t.up /\ v.tab = t.tab
      /\ Removed(t, v, d, n)
  BY <1>0, RemoveEntryFacts
<1>4. LiveIn(v) = LiveIn(t) /\ DirsIn(v) = DirsIn(t) /\ G = Ending(v, i)
  BY <1>3 DEF LiveIn, DirsIn, IsDir, Ending
<1>5. Barren(v, i)
  BY <1>1, <1>2, <1>3, Zenon DEF Barren, Free, Removed
<1>6. /\ s.up = v.up
      /\ LiveIn(s) = LiveIn(v) \ G /\ DirsIn(s) = DirsIn(v) \ G
      /\ \A x \in Ino : \A m, y : Leads(s, x, m, y) <=> Leads(v, x, m, y)
  <2>1. EndedAs(v, s, i, G)
    BY <1>1, <1>3, <1>4, <1>5, EndFacts, Zenon
  <2> QED
    BY <2>1, Zenon DEF EndedAs
<1>7. Removed(t, s, d, n)
  BY <1>3, <1>6, Zenon DEF Removed
<1>8. G = {} \/ G = {i}
  BY Zenon DEF Ending
<1>9. i \in DirsIn(t) => G = {i}
  BY Zenon DEF Ending, DirsIn
<1>10. i \in G => Unnamed(s, i)
  <2> SUFFICES ASSUME i \in G, NEW x \in Ino, NEW m, Leads(s, x, m, i) PROVE FALSE
    BY Zenon DEF Unnamed
  <2>1. Leads(t, x, m, i) /\ ~ (x = d /\ m = n)
    BY <1>7, Zenon DEF Removed
  <2>2. CASE i \in DirsIn(t)
    <3>1. PICK q : OneName(t, i, q)
      BY <1>0, <1>1, <2>2, Zenon DEF Tree
    <3> QED
      BY <2>1, <3>1 DEF OneName
  <2>3. CASE i \notin DirsIn(t)
    <3>1. ~ IsDir(t, i) /\ t.tab[i].links = Cardinality(NamesOf(t, i)) /\ t.tab[i].links \in Nat \ {0}
      BY <1>1, <2>3, FileNames, Zenon
    <3>2. Cardinality(NamesOf(t, i)) = 1
      BY <3>1 DEF Ending
    <3> QED
      BY <1>0, <2>1, <3>2, OnlyName, Zenon
  <2> QED
    BY <2>2, <2>3, Zenon
<1>11. \A x \in DirsIn(s) : s.up[x] = t.up[x]
  BY <1>3, <1>6, Zenon
<1>12. LiveIn(s) = LiveIn(t) \ G /\ DirsIn(s) = DirsIn(t) \ G
  BY <1>4, <1>6, Zenon
<1>13. Dropped(t, s, d, n, i, G)
  BY <1>2, <1>7, <1>8, <1>9, <1>10, <1>11, <1>12, Zenon DEF Dropped
<1> QED
  BY <1>1, <1>2, <1>3, <1>6, <1>13, Zenon

\* The entries and `..` of a rename.
MovedTo(v, a, sn, b, dn, src, moved, grow) ==
    LET t3 == RemoveEntry(AddEntry(v, b, dn, src, grow), a, sn)
    IN  IF moved THEN WithUp(t3, src, b) ELSE t3

\* t4 is v with the name sn in a moved to dn in b.
MovesTo(v, t4, a, sn, b, dn, src, moved, grow) ==
    /\ Form(v) /\ a \in Ino /\ b \in Ino /\ src \in Ino /\ ~ (a = b /\ sn = dn)
    /\ moved \in BOOLEAN /\ AddEntry(v, b, dn, src, grow).bad = "ok"
    /\ t4 = MovedTo(v, a, sn, b, dn, src, moved, grow)

\* t4 is v with the entry moved: the names, and the way up of a directory that moved.
MovedAs(v, t4, a, sn, b, dn, src, moved) ==
    /\ Form(t4) /\ t4.bad = "ok" /\ t4.bits = v.bits
    /\ \A x \in Ino : t4.tab[x].kind = v.tab[x].kind /\ t4.tab[x].links = v.tab[x].links
    /\ Renamed(v, t4, a, sn, b, dn, src)
    /\ \A x \in Ino : t4.up[x] = IF moved /\ x = src THEN b ELSE v.up[x]

\* The move itself in apply_rename: the new entry, the old one taken out, `..` rewritten
\* when a directory changes parent. No kind and no link count changes.
LEMMA MoveFacts ==
  ASSUME NEW v, NEW t4, NEW a, NEW sn, NEW b, NEW dn, NEW src, NEW moved, NEW grow,
         MovesTo(v, t4, a, sn, b, dn, src, moved, grow)
  PROVE  MovedAs(v, t4, a, sn, b, dn, src, moved)
<1> USE DEF MovesTo
<1> DEFINE t2 == AddEntry(v, b, dn, src, grow)
           t3 == RemoveEntry(t2, a, sn)
<1>0. /\ t2 = AddEntry(v, b, dn, src, grow) /\ t2.bad = "ok" /\ t3 = RemoveEntry(t2, a, sn)
      /\ t4 = IF moved THEN WithUp(t3, src, b) ELSE t3
  BY Zenon DEF MovedTo
<1> HIDE DEF t2, t3
<1>1. /\ Form(t2) /\ t2.bits = v.bits /\ t2.up = v.up
      /\ \A x \in Ino : t2.tab[x].kind = v.tab[x].kind /\ t2.tab[x].links = v.tab[x].links
      /\ Added(v, t2, b, dn, src)
  BY <1>0, AddEntryFacts
<1>2. /\ Form(t3) /\ t3.bad = t2.bad /\ t3.bits = t2.bits /\ t3.up = t2.up /\ t3.tab = t2.tab
      /\ Removed(t2, t3, a, sn)
  BY <1>0, <1>1, RemoveEntryFacts
<1>3. Renamed(v, t3, a, sn, b, dn, src)
  BY <1>1, <1>2, Zenon DEF Added, Removed, Renamed
<1> HIDE DEF MovesTo
<1>4. /\ Form(t3) /\ t3.bad = "ok" /\ t3.bits = v.bits /\ t3.up = v.up
      /\ \A x \in Ino : t3.tab[x].kind = v.tab[x].kind /\ t3.tab[x].links = v.tab[x].links
  BY <1>0, <1>1, <1>2, Zenon
<1>5. CASE moved
  <2>0. t4 = WithUp(t3, src, b)
    BY <1>0, <1>5, Zenon
  <2>1. /\ Form(t4) /\ t4.bad = t3.bad /\ t4.bits = t3.bits /\ t4.ents = t3.ents /\ t4.tab = t3.tab
        /\ t4.up[src] = b /\ \A x \in Ino : x # src => t4.up[x] = t3.up[x]
    BY <1>2, <2>0, UpFacts DEF MovesTo
  <2>2. Renamed(v, t4, a, sn, b, dn, src)
    <3>1. \A x, m, y : Leads(t4, x, m, y) <=> Leads(t3, x, m, y)
      BY <2>1, Zenon DEF Leads
    <3> QED
      BY <1>3, <3>1, Zenon DEF Renamed
  <2>3. \A x \in Ino : t4.up[x] = IF moved /\ x = src THEN b ELSE v.up[x]
    <3> TAKE x \in Ino
    <3>1. CASE x = src
      BY <1>5, <2>1, <3>1, Zenon
    <3>2. CASE x # src
      BY <1>4, <2>1, <3>2, Zenon
    <3> QED
      BY <3>1, <3>2, Zenon
  <2>4. \A x \in Ino : t4.tab[x].kind = v.tab[x].kind /\ t4.tab[x].links = v.tab[x].links
    BY <1>4, <2>1, Zenon
  <2>5. Form(t4) /\ t4.bad = "ok" /\ t4.bits = v.bits
    BY <1>4, <2>1, Zenon
  <2> QED
    BY <2>2, <2>3, <2>4, <2>5, Zenon DEF MovedAs
<1>6. CASE ~ moved
  <2>0. t4 = t3
    BY <1>0, <1>6, Zenon
  <2>1. \A x \in Ino : t3.up[x] = IF moved /\ x = src THEN b ELSE v.up[x]
    BY <1>4, <1>6, Zenon
  <2>2. MovedAs(v, t3, a, sn, b, dn, src, moved)
    BY <1>3, <1>4, <2>1, Zenon DEF MovedAs
  <2> QED
    BY <2>0, <2>2, Zenon
<1> QED
  BY <1>5, <1>6, Zenon

\* apply_parent_nlink_deltas: one change per parent.
LEMMA DeltaFacts ==
  ASSUME NEW t, Form(t), NEW a \in Ino, NEW b \in Ino, NEW moved \in BOOLEAN, NEW gone \in BOOLEAN,
         moved => a # b,
         NEW u, u = apply_parent_nlink_deltas(t, a, b, moved, gone), u.bad = "ok"
  PROVE  /\ Form(u) /\ u.bits = t.bits /\ u.up = t.up /\ u.ents = t.ents
         /\ \A x \in Ino : u.tab[x].kind = t.tab[x].kind
         /\ \A x \in Ino : x \notin {a, b} => u.tab[x].links = t.tab[x].links
         /\ moved => u.tab[a].links = next_links_count(IsDir(t, a), t.tab[a].links, -1)
         /\ ~ moved /\ a # b => u.tab[a].links = t.tab[a].links
         /\ moved = gone => u.tab[b].links = t.tab[b].links
         /\ moved /\ ~ gone =>
              /\ u.tab[b].links = next_links_count(IsDir(t, b), t.tab[b].links, 1)
              /\ u.tab[b].links # TooMany
         /\ ~ moved /\ gone => u.tab[b].links = next_links_count(IsDir(t, b), t.tab[b].links, -1)
<1> DEFINE delta == (IF moved THEN 1 ELSE 0) - (IF gone THEN 1 ELSE 0)
           v == patch_inode_nlink(t, b, delta)
<1>1. u = IF moved THEN patch_inode_nlink(v, a, -1) ELSE v
  BY Zenon DEF apply_parent_nlink_deltas
<1>2. /\ delta \in Int /\ (delta = 0 <=> moved = gone)
      /\ (moved /\ ~ gone => delta = 1) /\ (~ moved /\ gone => delta = -1)
  OBVIOUS
<1>3. v.bad = "ok"
  BY <1>1, Zenon DEF patch_inode_nlink
<1>4. v = patch_inode_nlink(t, b, delta)
  BY Zenon
<1> HIDE DEF v, delta
<1>5. /\ Form(v) /\ v.bits = t.bits /\ v.up = t.up /\ v.ents = t.ents
      /\ \A x \in Ino : v.tab[x].kind = t.tab[x].kind
      /\ \A x \in Ino : x # b => v.tab[x].links = t.tab[x].links
      /\ delta = 0 => v.tab[b].links = t.tab[b].links
      /\ delta # 0 => /\ v.tab[b].links = next_links_count(IsDir(t, b), t.tab[b].links, delta)
                      /\ v.tab[b].links # TooMany
  BY <1>2, <1>3, <1>4, PatchFacts
<1>6. CASE ~ moved
  BY <1>1, <1>2, <1>5, <1>6
<1>7. CASE moved
  <2>1. u = patch_inode_nlink(v, a, -1)
    BY <1>1, <1>7, Zenon
  <2>2. /\ Form(u) /\ u.bits = v.bits /\ u.up = v.up /\ u.ents = v.ents
        /\ \A x \in Ino : u.tab[x].kind = v.tab[x].kind
        /\ \A x \in Ino : x # a => u.tab[x].links = v.tab[x].links
        /\ u.tab[a].links = next_links_count(IsDir(v, a), v.tab[a].links, -1)
    BY <1>5, <2>1, PatchFacts
  <2>3. IsDir(v, a) = IsDir(t, a) /\ v.tab[a].links = t.tab[a].links
    BY <1>5, <1>7, Zenon DEF IsDir
  <2>4. u.tab[a].links = next_links_count(IsDir(t, a), t.tab[a].links, -1)
    BY <2>2, <2>3, Zenon
  <2> QED
    BY <1>2, <1>5, <1>7, <2>2, <2>4, ZenonT(40)
<1> QED
  BY <1>6, <1>7, Zenon

\* What a rename that goes ahead has checked.
LEMMA RenameChecks ==
  ASSUME NEW a, NEW sn, NEW b, NEW dn, NEW replace, RenameRefused(a, sn, b, dn, replace) = "ok"
  PROVE  /\ sn \notin {".", ".."} /\ dn \notin {".", ".."}
         /\ live_dir(vol, a) = "ok" /\ live_dir(vol, b) = "ok"
         /\ find_entry(vol, a.ino, sn) # 0 /\ ~ (a.ino = b.ino /\ sn = dn)
         /\ find_entry(vol, b.ino, dn) # 0 =>
              /\ find_entry(vol, b.ino, dn) # find_entry(vol, a.ino, sn)
              /\ IsDir(vol, find_entry(vol, a.ino, sn)) <=> IsDir(vol, find_entry(vol, b.ino, dn))
              /\ IsDir(vol, find_entry(vol, a.ino, sn)) => Empty(vol, find_entry(vol, b.ino, dn))
<1>1. sn \notin {".", ".."} /\ dn \notin {".", ".."}
  BY Zenon DEF RenameRefused
<1>2. live_dir(vol, a) = "ok" /\ live_dir(vol, b) = "ok"
  BY Zenon DEF RenameRefused
<1> DEFINE src == find_entry(vol, a.ino, sn)
           dst == find_entry(vol, b.ino, dn)
<1>3. src # 0 /\ ~ (a.ino = b.ino /\ sn = dn)
  BY Zenon DEF RenameRefused
<1>4. dst # 0 => dst # src
  BY Zenon DEF RenameRefused
<1>5. dst # 0 => (IsDir(vol, src) <=> IsDir(vol, dst))
  BY Zenon DEF RenameRefused
<1>6. dst # 0 /\ IsDir(vol, src) => Empty(vol, dst)
  BY Zenon DEF RenameRefused
<1> QED
  BY <1>1, <1>2, <1>3, <1>4, <1>5, <1>6, Zenon

\* s is t once the name n in b, and the inode c it led to, is out of the way;
\* c is 0 when the name was free. G holds c when c ends with its name.
Vacated(t, s, b, n, c, G) ==
    /\ Tree(s) /\ Free(s, b, n) /\ G \subseteq {c}
    /\ LiveIn(s) = LiveIn(t) \ G /\ DirsIn(s) = DirsIn(t) \ G
    /\ \A x : x # c => Cardinality(NamesOf(s, x)) = Cardinality(NamesOf(t, x))
    /\ c \in LiveIn(t) \ G =>
         /\ ~ IsDir(t, c)
         /\ Cardinality(NamesOf(s, c)) \in Nat
         /\ Cardinality(NamesOf(t, c)) = Cardinality(NamesOf(s, c)) + 1
    /\ \A x : x # b => Subdirs(s, x) = Subdirs(t, x)
    /\ IF c \in DirsIn(t) THEN Cardinality(Subdirs(t, b)) = Cardinality(Subdirs(s, b)) + 1
       ELSE Subdirs(s, b) = Subdirs(t, b)

\* A rename to a name that is free vacates nothing.
LEMMA VacatedNone ==
  ASSUME NEW t, Tree(t), NEW b \in DirsIn(t), NEW n, find_entry(t, b, n) = 0
  PROVE  Vacated(t, t, b, n, 0, {})
<1>1. Free(t, b, n)
  BY FreeName, Zenon
<1>2. 0 \notin LiveIn(t) /\ 0 \notin DirsIn(t)
  BY NamespaceAssumption DEF LiveIn, DirsIn, Ino
<1> QED
  BY <1>1, <1>2, Zenon DEF Vacated

\* A rename over a file, or over an empty directory, vacates the name and ends what it
\* led to, if that was its last name.
LEMMA VacatedOne ==
  ASSUME NEW t, Order(t), NEW b \in Ino, NEW n, NEW c, Leads(t, b, n, c),
         c \in DirsIn(t) => Barren(t, c),
         NEW v, v = RemoveEntry(t, b, n), NEW s, s = EndName(v, c), NEW G, G = Ending(t, c)
  PROVE  Vacated(t, s, b, n, c, G)
<1>0. Form(t) /\ Tree(t)
  BY DEF Order
<1>1. /\ Dropped(t, s, b, n, c, G)
      /\ \A x \in Ino : \A m, y : Leads(s, x, m, y) <=> Leads(v, x, m, y)
  BY TargetDropped
<1>2. /\ Tree(s)
      /\ c \in LiveIn(t) /\ c # Root /\ b \in DirsIn(t) /\ b # c
      /\ MoreLeads(s, t, c, b, n) /\ ~ Leads(s, b, n, c)
      /\ \A x : x # c => SameLeads(t, s, x)
      /\ \A x : x # b => Subdirs(s, x) = Subdirs(t, x)
      /\ c \notin DirsIn(t) => Subdirs(s, b) = Subdirs(t, b)
      /\ c \in DirsIn(t) => Subdirs(t, b) = Subdirs(s, b) \cup {c} /\ c \notin Subdirs(s, b)
  BY <1>0, <1>1, NameDropped
<1>3. /\ LiveIn(s) = LiveIn(t) \ G /\ DirsIn(s) = DirsIn(t) \ G /\ (G = {} \/ G = {c})
      /\ (c \in DirsIn(t) => G = {c})
  BY <1>1, Zenon DEF Dropped
<1>4. Free(s, b, n)
  BY <1>1, Zenon DEF Dropped, Removed, Free
<1>5. OnlyDirs(t) /\ OnlyDirs(s) /\ IsFiniteSet(Places(s))
  BY <1>0, <1>2, Zenon DEF Tree
<1>6. ASSUME NEW x, x # c PROVE Cardinality(NamesOf(s, x)) = Cardinality(NamesOf(t, x))
  <2>1. NamesOf(s, x) = NamesOf(t, x)
    BY <1>2, <1>5, <1>6, NamesSame, Zenon
  <2> QED
    BY <2>1, Zenon
<1>7. /\ Cardinality(NamesOf(t, c)) = Cardinality(NamesOf(s, c)) + 1
      /\ Cardinality(NamesOf(s, c)) \in Nat
  BY <1>2, <1>5, NamesMore, NamesFinite, Zenon
<1>8. c \in LiveIn(t) \ G => ~ IsDir(t, c)
  BY <1>3, Zenon DEF DirsIn
<1>9. ASSUME c \in DirsIn(t) PROVE Cardinality(Subdirs(t, b)) = Cardinality(Subdirs(s, b)) + 1
  <2>1. Subdirs(t, b) = Subdirs(s, b) \cup {c} /\ c \notin Subdirs(s, b)
    BY <1>2, <1>9, Zenon
  <2>2. IsFiniteSet(Subdirs(s, b))
    BY DirsFinite, Zenon
  <2> QED
    BY <2>1, <2>2, FS_AddElement
<1>10. G \subseteq {c}
  BY <1>3, Zenon
<1> HIDE DEF Vacated
<1>11. \A x : x # c => Cardinality(NamesOf(s, x)) = Cardinality(NamesOf(t, x))
  BY <1>6, Zenon
<1> QED
  BY <1>2, <1>3, <1>4, <1>7, <1>8, <1>9, <1>10, <1>11, ZenonT(40) DEF Vacated

\* The link counts of u after a rename out of a into b, over c: `moved` when a
\* directory changes its parent, `gone` when a directory is replaced.
Relinked(t, u, a, b, c, moved, gone) ==
    /\ \A x \in LiveIn(u) : u.tab[x].kind = t.tab[x].kind
    /\ \A x \in LiveIn(u) : x \notin {a, b, c} => u.tab[x].links = t.tab[x].links
    /\ c \in LiveIn(u) => u.tab[c].links = t.tab[c].links - 1 /\ t.tab[c].links > 1
    /\ moved => u.tab[a].links = next_links_count(TRUE, t.tab[a].links, -1)
    /\ ~ moved /\ a # b => u.tab[a].links = t.tab[a].links
    /\ moved = gone => u.tab[b].links = t.tab[b].links
    /\ moved /\ ~ gone =>
         /\ u.tab[b].links = next_links_count(TRUE, t.tab[b].links, 1)
         /\ u.tab[b].links # TooMany
    /\ ~ moved /\ gone => u.tab[b].links = next_links_count(TRUE, t.tab[b].links, -1)

\* A count stays right when names and subdirectories are as many as before.
LEMMA InodeEven ==
  ASSUME NEW t, NEW u, NEW i, InodeRight(t, i),
         u.tab[i].kind = t.tab[i].kind, u.tab[i].links = t.tab[i].links,
         Cardinality(NamesOf(u, i)) = Cardinality(NamesOf(t, i)),
         Cardinality(Subdirs(u, i)) = Cardinality(Subdirs(t, i))
  PROVE  InodeRight(u, i)
BY Zenon DEF InodeRight, IsDir

\* u is t after a rename of src from sn in a to dn in b, by way of s.
Swapped(t, s, u, a, sn, b, dn, src, c, G, moved, gone) ==
    /\ a \in DirsIn(t) /\ b \in DirsIn(t) /\ src \in LiveIn(t) /\ src # c /\ a # c /\ b # c
    /\ Vacated(t, s, b, dn, c, G) /\ Leads(s, a, sn, src)
    /\ Renamed(s, u, a, sn, b, dn, src) /\ LiveIn(u) = LiveIn(s) /\ DirsIn(u) = DirsIn(s)
    /\ UpMoved(s, u, src, b)
    /\ moved \in BOOLEAN /\ (moved <=> IsDir(t, src) /\ a # b)
    /\ gone \in BOOLEAN /\ (gone <=> c \in DirsIn(t))
    /\ Relinked(t, u, a, b, c, moved, gone)

\* How the names and the subdirectories of u compare with those of t after a rename.
Tally(t, u, a, b, c, moved, gone) ==
    /\ moved \in BOOLEAN /\ gone \in BOOLEAN /\ a # c /\ b # c
    /\ a \in LiveIn(u) /\ b \in LiveIn(u) /\ IsDir(t, a) /\ IsDir(t, b)
    /\ \A x \in LiveIn(u) : InodeRight(t, x) /\ u.tab[x].kind = t.tab[x].kind /\ u.tab[x].kind # "none"
    /\ \A x : x # c => Cardinality(NamesOf(u, x)) = Cardinality(NamesOf(t, x))
    /\ c \in LiveIn(u) =>
         /\ ~ IsDir(t, c)
         /\ Cardinality(NamesOf(u, c)) \in Nat
         /\ Cardinality(NamesOf(t, c)) = Cardinality(NamesOf(u, c)) + 1
    /\ \A x : x \notin {a, b} => Subdirs(u, x) = Subdirs(t, x)
    /\ ~ moved /\ a # b => Subdirs(u, a) = Subdirs(t, a)
    /\ moved => a # b /\ Cardinality(Subdirs(t, a)) = Cardinality(Subdirs(u, a)) + 1
    /\ moved = gone => Cardinality(Subdirs(u, b)) = Cardinality(Subdirs(t, b))
    /\ moved /\ ~ gone => Cardinality(Subdirs(u, b)) = Cardinality(Subdirs(t, b)) + 1
    /\ ~ moved /\ gone => Cardinality(Subdirs(t, b)) = Cardinality(Subdirs(u, b)) + 1
    /\ Relinked(t, u, a, b, c, moved, gone)

\* What a rename does to the names and the subdirectories.
LEMMA RenameTally ==
  ASSUME NEW t, Order(t), NEW s, NEW u, NEW a, NEW sn, NEW b, NEW dn, NEW src, NEW c, NEW G,
         NEW moved, NEW gone, Swapped(t, s, u, a, sn, b, dn, src, c, G, moved, gone)
  PROVE  Tree(u) /\ Tally(t, u, a, b, c, moved, gone)
<1>s. /\ a \in DirsIn(t) /\ b \in DirsIn(t) /\ src \in LiveIn(t) /\ src # c /\ a # c /\ b # c
      /\ Vacated(t, s, b, dn, c, G) /\ Leads(s, a, sn, src)
      /\ Renamed(s, u, a, sn, b, dn, src) /\ LiveIn(u) = LiveIn(s) /\ DirsIn(u) = DirsIn(s)
      /\ UpMoved(s, u, src, b)
      /\ moved \in BOOLEAN /\ (moved <=> IsDir(t, src) /\ a # b)
      /\ gone \in BOOLEAN /\ (gone <=> c \in DirsIn(t))
      /\ Relinked(t, u, a, b, c, moved, gone)
  BY Zenon DEF Swapped
<1>1. Tree(s) /\ Free(s, b, dn) /\ LiveIn(s) = LiveIn(t) \ G /\ DirsIn(s) = DirsIn(t) \ G /\ G \subseteq {c}
  BY <1>s, Zenon DEF Vacated
<1>2. a \in DirsIn(s) /\ b \in DirsIn(s) /\ a \in Ino /\ (src \in DirsIn(s) <=> IsDir(t, src))
  BY <1>s, <1>1, DirsFinite, Zenon DEF DirsIn
<1>3. /\ Tree(u)
      /\ \A x : Cardinality(NamesOf(u, x)) = Cardinality(NamesOf(s, x))
      /\ src \notin DirsIn(s) \/ a = b => \A x : Subdirs(u, x) = Subdirs(s, x)
      /\ src \in DirsIn(s) /\ a # b =>
           /\ \A x : x \notin {a, b} => Subdirs(u, x) = Subdirs(s, x)
           /\ Subdirs(s, a) = Subdirs(u, a) \cup {src} /\ src \notin Subdirs(u, a)
           /\ Subdirs(u, b) = Subdirs(s, b) \cup {src} /\ src \notin Subdirs(s, b)
  BY <1>s, <1>1, <1>2, NameMoved, Zenon
<1>4. /\ ~ moved => \A x : Subdirs(u, x) = Subdirs(s, x)
      /\ moved =>
           /\ a # b
           /\ \A x : x \notin {a, b} => Subdirs(u, x) = Subdirs(s, x)
           /\ Cardinality(Subdirs(s, a)) = Cardinality(Subdirs(u, a)) + 1
           /\ Cardinality(Subdirs(u, b)) = Cardinality(Subdirs(s, b)) + 1
  <2>1. CASE ~ moved
    BY <1>s, <1>2, <1>3, <2>1, Zenon
  <2>2. CASE moved
    <3>1. /\ Subdirs(s, a) = Subdirs(u, a) \cup {src} /\ src \notin Subdirs(u, a)
          /\ Subdirs(u, b) = Subdirs(s, b) \cup {src} /\ src \notin Subdirs(s, b)
          /\ \A x : x \notin {a, b} => Subdirs(u, x) = Subdirs(s, x)
          /\ a # b
      BY <1>s, <1>2, <1>3, <2>2, Zenon
    <3>2. IsFiniteSet(Subdirs(u, a)) /\ IsFiniteSet(Subdirs(s, b))
      BY DirsFinite, Zenon
    <3>3. Cardinality(Subdirs(s, a)) = Cardinality(Subdirs(u, a)) + 1
      BY <3>1, <3>2, FS_AddElement, Zenon
    <3>4. Cardinality(Subdirs(u, b)) = Cardinality(Subdirs(s, b)) + 1
      BY <3>1, <3>2, FS_AddElement, Zenon
    <3> QED
      BY <2>2, <3>1, <3>3, <3>4, Zenon
  <2> QED
    BY <2>1, <2>2, Zenon
<1>5. /\ \A x : x # c => Cardinality(NamesOf(s, x)) = Cardinality(NamesOf(t, x))
      /\ c \in LiveIn(t) \ G =>
           /\ ~ IsDir(t, c)
           /\ Cardinality(NamesOf(s, c)) \in Nat
           /\ Cardinality(NamesOf(t, c)) = Cardinality(NamesOf(s, c)) + 1
      /\ \A x : x # b => Subdirs(s, x) = Subdirs(t, x)
      /\ gone => Cardinality(Subdirs(t, b)) = Cardinality(Subdirs(s, b)) + 1
      /\ ~ gone => Subdirs(s, b) = Subdirs(t, b)
  BY <1>s, Zenon DEF Vacated
<1>6. ASSUME NEW x \in LiveIn(u)
      PROVE  /\ x \in LiveIn(t) /\ InodeRight(t, x) /\ u.tab[x].kind = t.tab[x].kind
             /\ u.tab[x].kind # "none" /\ x \notin G
  <2>1. x \in LiveIn(t) /\ u.tab[x].kind = t.tab[x].kind /\ x \notin G
    BY <1>s, <1>1, Zenon DEF Relinked
  <2> QED
    BY <2>1, RightEach, Zenon DEF Order
<1>7. a \in LiveIn(u) /\ b \in LiveIn(u) /\ IsDir(t, a) /\ IsDir(t, b)
  BY <1>s, <1>1, <1>2, Zenon DEF DirsIn
<1>8. /\ \A x : x # c => Cardinality(NamesOf(u, x)) = Cardinality(NamesOf(t, x))
      /\ c \in LiveIn(u) =>
           /\ ~ IsDir(t, c)
           /\ Cardinality(NamesOf(u, c)) \in Nat
           /\ Cardinality(NamesOf(t, c)) = Cardinality(NamesOf(u, c)) + 1
  BY <1>3, <1>5, <1>6, Zenon
<1>9. /\ \A x : x \notin {a, b} => Subdirs(u, x) = Subdirs(t, x)
      /\ ~ moved /\ a # b => Subdirs(u, a) = Subdirs(t, a)
      /\ moved => a # b /\ Cardinality(Subdirs(t, a)) = Cardinality(Subdirs(u, a)) + 1
  BY <1>4, <1>5, Zenon
<1>10. /\ moved = gone => Cardinality(Subdirs(u, b)) = Cardinality(Subdirs(t, b))
       /\ moved /\ ~ gone => Cardinality(Subdirs(u, b)) = Cardinality(Subdirs(t, b)) + 1
       /\ ~ moved /\ gone => Cardinality(Subdirs(t, b)) = Cardinality(Subdirs(u, b)) + 1
  <2>1. CASE moved
    BY <1>4, <1>5, <2>1, Zenon
  <2>2. CASE ~ moved
    BY <1>4, <1>5, <2>2, Zenon
  <2> QED
    BY <2>1, <2>2, Zenon
<1>11. \A x \in LiveIn(u) : InodeRight(t, x) /\ u.tab[x].kind = t.tab[x].kind /\ u.tab[x].kind # "none"
  BY <1>6, Zenon
<1> QED
  BY <1>s, <1>3, <1>7, <1>8, <1>9, <1>10, <1>11, Zenon DEF Tally

\* Every count is right after a rename.
LEMMA TallyRight ==
  ASSUME NEW t, NEW u, NEW a, NEW b, NEW c, NEW moved, NEW gone, Tally(t, u, a, b, c, moved, gone),
         NEW x \in LiveIn(u)
  PROVE  InodeRight(u, x) /\ u.tab[x].kind # "none"
<1> USE DEF Tally
<1>1. InodeRight(t, x) /\ u.tab[x].kind = t.tab[x].kind /\ u.tab[x].kind # "none"
  BY Zenon
<1>2. CASE x = b
  <2>1. IsDir(t, b) /\ IsDir(u, b) /\ Cardinality(NamesOf(u, b)) = Cardinality(NamesOf(t, b))
    BY <1>1, <1>2, Zenon DEF IsDir
  <2>2. CASE moved = gone
    <3>1. u.tab[b].links = t.tab[b].links /\ Cardinality(Subdirs(u, b)) = Cardinality(Subdirs(t, b))
      BY <2>2, Zenon DEF Relinked
    <3> QED
      BY <1>1, <1>2, <2>1, <3>1, InodeEven, Zenon
  <2>3. CASE moved /\ ~ gone
    <3>1. /\ u.tab[b].links = next_links_count(TRUE, t.tab[b].links, 1) /\ u.tab[b].links # TooMany
          /\ Cardinality(Subdirs(u, b)) = Cardinality(Subdirs(t, b)) + 1
      BY <2>3, Zenon DEF Relinked
    <3> QED
      BY <1>1, <1>2, <2>1, <3>1, DirUp, Zenon
  <2>4. CASE ~ moved /\ gone
    <3>1. /\ u.tab[b].links = next_links_count(TRUE, t.tab[b].links, -1)
          /\ Cardinality(Subdirs(t, b)) = Cardinality(Subdirs(u, b)) + 1
      BY <2>4, Zenon DEF Relinked
    <3> QED
      BY <1>1, <1>2, <2>1, <3>1, DirDown, Zenon
  <2> QED
    BY <1>1, <1>2, <2>2, <2>3, <2>4, Zenon
<1>3. CASE x = a /\ a # b
  <2>1. IsDir(t, a) /\ IsDir(u, a) /\ Cardinality(NamesOf(u, a)) = Cardinality(NamesOf(t, a))
    BY <1>1, <1>3, Zenon DEF IsDir
  <2>2. CASE moved
    <3>1. /\ u.tab[a].links = next_links_count(TRUE, t.tab[a].links, -1)
          /\ Cardinality(Subdirs(t, a)) = Cardinality(Subdirs(u, a)) + 1
      BY <2>2, Zenon DEF Relinked
    <3> QED
      BY <1>1, <1>3, <2>1, <3>1, DirDown, Zenon
  <2>3. CASE ~ moved
    <3>1. u.tab[a].links = t.tab[a].links /\ Subdirs(u, a) = Subdirs(t, a)
      BY <1>3, <2>3, Zenon DEF Relinked
    <3> QED
      BY <1>1, <1>3, <2>1, <3>1, InodeEven, Zenon
  <2> QED
    BY <1>1, <1>3, <2>2, <2>3, Zenon
<1>4. CASE x \notin {a, b}
  <2>0. Subdirs(u, x) = Subdirs(t, x)
    BY <1>4, Zenon
  <2>1. CASE x = c
    <3>1. /\ ~ IsDir(t, x) /\ u.tab[x].links = t.tab[x].links - 1 /\ t.tab[x].links > 1
          /\ Cardinality(NamesOf(t, x)) = Cardinality(NamesOf(u, x)) + 1
          /\ Cardinality(NamesOf(u, x)) \in Nat
      BY <2>1, Zenon DEF Relinked
    <3> HIDE DEF Tally
    <3>2. Cardinality(NamesOf(u, x)) > 0
      <4> SUFFICES ASSUME Cardinality(NamesOf(u, x)) = 0 PROVE FALSE
        BY <3>1
      <4> QED
        BY <1>1, <3>1 DEF InodeRight
    <3> QED
      BY <1>1, <3>1, <3>2 DEF InodeRight, IsDir
  <2>2. CASE x # c
    <3>1. /\ u.tab[x].links = t.tab[x].links
          /\ Cardinality(NamesOf(u, x)) = Cardinality(NamesOf(t, x))
      BY <1>4, <2>2, Zenon DEF Relinked
    <3> QED
      BY <1>1, <2>0, <3>1, InodeEven, Zenon
  <2> QED
    BY <1>1, <2>1, <2>2, Zenon
<1> QED
  BY <1>2, <1>3, <1>4, Zenon

\* The staged volumes of a rename that was not refused: t1 without the target's entry,
\* t4 with the name moved, t5 with the target ended, and u with the parents' counts stepped.
RenameSteps(u, a, sn, b, dn, src, dst, moved, gone, grow, t1, t4, t5) ==
    /\ a \in DirsIn(vol) /\ b \in DirsIn(vol) /\ a \in Ino /\ b \in Ino /\ ~ (a = b /\ sn = dn)
    /\ Leads(vol, a, sn, src) /\ src \in LiveIn(vol) /\ src \in Ino
    /\ src # dst /\ a # dst /\ b # dst /\ dst = find_entry(vol, b, dn)
    /\ dst # 0 => /\ Leads(vol, b, dn, dst) /\ dst \in LiveIn(vol) /\ dst \in Ino /\ Barren(vol, dst)
    /\ moved \in BOOLEAN /\ moved = (IsDir(vol, src) /\ a # b) /\ (moved => a # b)
    /\ gone \in BOOLEAN /\ gone = (dst \in DirsIn(vol)) /\ (dst # 0 => gone = IsDir(vol, dst))
    /\ (dst # 0 => t1 = RemoveEntry(vol, b, dn)) /\ (dst = 0 => t1 = vol)
    /\ AddEntry(t1, b, dn, src, grow).bad = "ok"
    /\ t4 = MovedTo(t1, a, sn, b, dn, src, moved, grow)
    /\ (dst = 0 => t5 = t4)
    /\ (dst # 0 => t5 = IF gone THEN FreeInode(t4, dst) ELSE Unlinked(t4, dst))
    /\ u = apply_parent_nlink_deltas(t5, a, b, moved, gone) /\ u.bad = "ok"

\* apply_rename_at: what its checks leave to the steps that follow.
LEMMA RenameStart ==
  ASSUME Order(vol), NEW ra, NEW sn, NEW rb, NEW dn, NEW replace, NEW grow,
         NEW u, u = RenameStaged(ra, sn, rb, dn, replace, grow), u.bad = "ok"
  PROVE  \E a, b, src, dst, moved, gone, t1, t4, t5 :
            RenameSteps(u, a, sn, b, dn, src, dst, moved, gone, grow, t1, t4, t5)
<1> DEFINE a == ra.ino
           b == rb.ino
           src == find_entry(vol, a, sn)
           dst == find_entry(vol, b, dn)
           moved == IsDir(vol, src) /\ a # b
           gone == dst # 0 /\ IsDir(vol, dst)
           t1 == IF dst # 0 THEN RemoveEntry(vol, b, dn) ELSE vol
           t2 == AddEntry(t1, b, dn, src, grow)
           t3 == RemoveEntry(t2, a, sn)
           t4 == IF moved THEN WithUp(t3, src, b) ELSE t3
           t5 == IF dst = 0 THEN t4 ELSE IF gone THEN FreeInode(t4, dst) ELSE Unlinked(t4, dst)
<1>0. Form(vol) /\ vol.bad = "ok" /\ Tree(vol)
  BY Zenon DEF Order
<1>1. /\ RenameRefused(ra, sn, rb, dn, replace) = "ok" /\ t2.bad = "ok"
      /\ u = apply_parent_nlink_deltas(t5, a, b, moved, gone)
  <2>1. \/ /\ RenameRefused(ra, sn, rb, dn, replace) # "ok"
           /\ u = Stop(vol, RenameRefused(ra, sn, rb, dn, replace))
        \/ t2.bad # "ok" /\ u = t2
        \/ /\ RenameRefused(ra, sn, rb, dn, replace) = "ok" /\ t2.bad = "ok"
           /\ u = apply_parent_nlink_deltas(t5, a, b, moved, gone)
    BY Zenon DEF RenameStaged, WithUp
  <2>2. Stop(vol, RenameRefused(ra, sn, rb, dn, replace)).bad = RenameRefused(ra, sn, rb, dn, replace)
    BY <1>0, StopFacts, ZenonT(40)
  <2> QED
    BY <2>1, <2>2, Zenon
<1>2. /\ sn \notin {".", ".."} /\ dn \notin {".", ".."}
      /\ live_dir(vol, ra) = "ok" /\ live_dir(vol, rb) = "ok"
      /\ src # 0 /\ ~ (a = b /\ sn = dn)
      /\ dst # 0 => /\ dst # src /\ (IsDir(vol, src) <=> IsDir(vol, dst))
                    /\ IsDir(vol, src) => Empty(vol, dst)
  BY <1>1, RenameChecks
<1>3. a \in DirsIn(vol) /\ b \in DirsIn(vol) /\ a \in Ino /\ b \in Ino
  BY <1>2, LiveDirIs, DirsFinite, Zenon
<1>4. Leads(vol, a, sn, src) /\ (dst # 0 => Leads(vol, b, dn, dst))
  <2>1. Leads(vol, a, sn, src)
    BY <1>2, EntryLeads, Zenon
  <2>2. dst # 0 => Leads(vol, b, dn, dst)
    BY <1>2, EntryLeads, Zenon
  <2> QED
    BY <2>1, <2>2, Zenon
<1>d. dst = find_entry(vol, b, dn)
  BY Zenon
<1>m. /\ moved \in BOOLEAN /\ gone \in BOOLEAN /\ (moved => a # b)
      /\ moved = (IsDir(vol, src) /\ a # b) /\ gone = (dst # 0 /\ IsDir(vol, dst))
  BY Zenon DEF IsDir
<1>t. /\ (dst # 0 => t1 = RemoveEntry(vol, b, dn)) /\ (dst = 0 => t1 = vol)
      /\ t2 = AddEntry(t1, b, dn, src, grow) /\ t3 = RemoveEntry(t2, a, sn)
      /\ t4 = (IF moved THEN WithUp(t3, src, b) ELSE t3)
      /\ (dst = 0 => t5 = t4)
      /\ (dst # 0 => t5 = IF gone THEN FreeInode(t4, dst) ELSE Unlinked(t4, dst))
  BY Zenon
<1> HIDE DEF a, b, src, dst, moved, gone, t1, t2, t3, t4, t5
<1>5. src \in LiveIn(vol) /\ src \in Ino /\ (dst # 0 => dst \in LiveIn(vol) /\ dst \in Ino)
  <2>1. src \in LiveIn(vol) /\ (dst # 0 => dst \in LiveIn(vol))
    BY <1>0, <1>3, <1>4, Zenon DEF Tree
  <2> QED
    BY <2>1, DirsFinite, Zenon
<1>6. dst # 0 => Barren(vol, dst)
  <2> SUFFICES ASSUME dst # 0 PROVE Barren(vol, dst)
    BY ZenonT(40)
  <2>1. CASE IsDir(vol, dst)
    BY <1>2, <2>1 DEF Empty, Barren, Free, Leads
  <2>2. CASE ~ IsDir(vol, dst)
    <3>1. dst \notin DirsIn(vol)
      BY <2>2, Zenon DEF DirsIn
    <3> QED
      BY <1>5, <3>1, FileNames, Zenon
  <2> QED
    BY <2>1, <2>2, Zenon
<1>7. a # dst /\ b # dst
  <2>1. dst # 0 => a # dst /\ b # dst
    BY <1>4, <1>6, Zenon DEF Barren, Free
  <2>2. 0 \notin Ino
    BY NamespaceAssumption DEF Ino
  <2> QED
    BY <1>3, <2>1, <2>2, Zenon
<1>8. gone = (dst \in DirsIn(vol))
  <2>1. 0 \notin DirsIn(vol)
    BY NamespaceAssumption DEF Ino, DirsIn, LiveIn
  <2> QED
    BY <1>5, <1>m, <2>1 DEF DirsIn
<1>9. AddEntry(t1, b, dn, src, grow).bad = "ok" /\ t4 = MovedTo(t1, a, sn, b, dn, src, moved, grow)
  BY <1>1, <1>t, Zenon DEF MovedTo
<1>10. src # dst /\ (dst # 0 => gone = IsDir(vol, dst))
  <2>1. 0 \notin Ino
    BY NamespaceAssumption DEF Ino
  <2>2. src # dst
    BY <1>2, <1>5, <2>1, Zenon
  <2>3. dst # 0 => gone = IsDir(vol, dst)
    BY Zenon DEF gone, IsDir
  <2> QED
    BY <2>2, <2>3, Zenon
<1>11. RenameSteps(u, a, sn, b, dn, src, dst, moved, gone, grow, t1, t4, t5)
  BY <1>1, <1>2, <1>3, <1>4, <1>5, <1>6, <1>7, <1>8, <1>9, <1>10, <1>d, <1>m, <1>t, Zenon DEF RenameSteps
<1> QED
  BY <1>11, Zenon

\* What the steps of a rename do up to the parents' counts; G is the target if it ends.
RenameMoves(a, sn, b, dn, src, dst, moved, t1, t4, t5, G) ==
    /\ t1.up = vol.up /\ Leads(t1, a, sn, src)
    /\ Renamed(t1, t4, a, sn, b, dn, src)
    /\ \A x \in Ino : t4.up[x] = IF moved /\ x = src THEN b ELSE t1.up[x]
    /\ G = IF dst = 0 THEN {} ELSE Ending(vol, dst)
    /\ Form(t5) /\ t5.bad = "ok" /\ t5.up = t4.up
    /\ \A x \in Ino : x # dst => t5.tab[x].kind = vol.tab[x].kind /\ t5.tab[x].links = vol.tab[x].links
    /\ LiveIn(t5) = LiveIn(vol) \ G /\ DirsIn(t5) = DirsIn(vol) \ G
    /\ \A x \in Ino : \A m, y : Leads(t5, x, m, y) <=> Leads(t4, x, m, y)
    /\ dst # 0 /\ dst \notin G => /\ t5.tab[dst].links = vol.tab[dst].links - 1
                                  /\ t5.tab[dst].kind = vol.tab[dst].kind
                                  /\ vol.tab[dst].links > 1

\* apply_rename_at: the name moves and the target ends.
LEMMA RenameMiddle ==
  ASSUME Order(vol), NEW u, NEW a, NEW sn, NEW b, NEW dn, NEW src, NEW dst, NEW moved, NEW gone, NEW grow,
         NEW t1, NEW t4, NEW t5, NEW G, G = IF dst = 0 THEN {} ELSE Ending(vol, dst),
         RenameSteps(u, a, sn, b, dn, src, dst, moved, gone, grow, t1, t4, t5)
  PROVE  RenameMoves(a, sn, b, dn, src, dst, moved, t1, t4, t5, G)
<1>0. Form(vol) /\ vol.bad = "ok" /\ Tree(vol)
  BY Zenon DEF Order
<1>1. /\ a \in Ino /\ b \in Ino /\ ~ (a = b /\ sn = dn)
      /\ Leads(vol, a, sn, src) /\ src \in Ino /\ src # dst /\ a # dst /\ b # dst
      /\ dst # 0 => Leads(vol, b, dn, dst) /\ dst \in LiveIn(vol) /\ dst \in Ino /\ Barren(vol, dst)
      /\ moved \in BOOLEAN /\ (dst # 0 => gone = IsDir(vol, dst))
  BY Zenon DEF RenameSteps
<1>t. /\ (dst # 0 => t1 = RemoveEntry(vol, b, dn)) /\ (dst = 0 => t1 = vol)
      /\ AddEntry(t1, b, dn, src, grow).bad = "ok"
      /\ t4 = MovedTo(t1, a, sn, b, dn, src, moved, grow)
      /\ (dst = 0 => t5 = t4)
      /\ (dst # 0 => t5 = IF gone THEN FreeInode(t4, dst) ELSE Unlinked(t4, dst))
  BY Zenon DEF RenameSteps
<1>9. /\ Form(t1) /\ t1.bits = vol.bits /\ t1.up = vol.up /\ t1.tab = vol.tab
      /\ Leads(t1, a, sn, src)
      /\ dst # 0 => Barren(t1, dst)
  <2>1. CASE dst = 0
    BY <1>0, <1>1, <1>t, <2>1, Zenon
  <2>2. CASE dst # 0
    <3>1. /\ Form(t1) /\ t1.bits = vol.bits /\ t1.up = vol.up /\ t1.tab = vol.tab
          /\ Removed(vol, t1, b, dn)
      BY <1>0, <1>1, <1>t, <2>2, RemoveEntryFacts
    <3>2. Leads(t1, a, sn, src)
      BY <1>1, <3>1, Zenon DEF Removed
    <3>3. Barren(t1, dst)
      BY <1>1, <2>2, <3>1, ZenonT(40) DEF Removed, Barren, Free
    <3> QED
      BY <3>1, <3>2, <3>3, ZenonT(40)
  <2> QED
    BY <2>1, <2>2, Zenon
<1>10. /\ Form(t4) /\ t4.bad = "ok" /\ t4.bits = t1.bits
       /\ \A x \in Ino : t4.tab[x].kind = t1.tab[x].kind /\ t4.tab[x].links = t1.tab[x].links
       /\ Renamed(t1, t4, a, sn, b, dn, src)
       /\ \A x \in Ino : t4.up[x] = IF moved /\ x = src THEN b ELSE t1.up[x]
  <2>1. MovesTo(t1, t4, a, sn, b, dn, src, moved, grow)
    BY <1>1, <1>9, <1>t, Zenon DEF MovesTo
  <2>2. MovedAs(t1, t4, a, sn, b, dn, src, moved)
    BY <2>1, MoveFacts, Zenon
  <2> QED
    BY <2>2, Zenon DEF MovedAs
<1>11. LiveIn(t4) = LiveIn(vol) /\ DirsIn(t4) = DirsIn(vol)
  <2>1. LiveIn(t4) = LiveIn(vol)
    BY <1>9, <1>10, Zenon DEF LiveIn
  <2> QED
    BY <1>9, <1>10, <2>1, DirsFinite, Zenon DEF DirsIn, IsDir
<1>12. /\ Form(t5) /\ t5.bad = "ok" /\ t5.up = t4.up
       /\ \A x \in Ino : x # dst => t5.tab[x].kind = vol.tab[x].kind /\ t5.tab[x].links = vol.tab[x].links
       /\ LiveIn(t5) = LiveIn(vol) \ G /\ DirsIn(t5) = DirsIn(vol) \ G
       /\ \A x \in Ino : \A m, y : Leads(t5, x, m, y) <=> Leads(t4, x, m, y)
       /\ dst # 0 /\ dst \notin G => /\ t5.tab[dst].links = vol.tab[dst].links - 1
                                     /\ t5.tab[dst].kind = vol.tab[dst].kind
                                     /\ vol.tab[dst].links > 1
  <2>1. CASE dst = 0
    BY <1>9, <1>10, <1>11, <1>t, <2>1, Zenon
  <2>2. CASE dst # 0
    <3>1. IsDir(t4, dst) = IsDir(vol, dst) /\ t4.tab[dst].links = vol.tab[dst].links
      BY <1>1, <1>9, <1>10, <2>2, Zenon DEF IsDir
    <3>2. t5 = EndName(t4, dst)
      BY <1>1, <1>t, <2>2, <3>1, Zenon DEF EndName
    <3>3. G = Ending(t4, dst)
      BY <2>2, <3>1, Zenon DEF Ending
    <3>4. Barren(t4, dst)
      BY <1>1, <1>9, <1>10, <2>2, Zenon DEF Barren, Free, Renamed
    <3>5. dst \notin G => vol.tab[dst].links > 1
      BY <2>2, ZenonT(40) DEF Ending
    <3>6. EndedAs(t4, t5, dst, G)
      BY <1>1, <1>10, <2>2, <3>2, <3>3, <3>4, EndFacts, Zenon
    <3> QED
      BY <1>1, <1>9, <1>10, <1>11, <2>2, <3>5, <3>6, Zenon DEF EndedAs
  <2> QED
    BY <2>1, <2>2, Zenon
<1> QED
  BY <1>9, <1>10, <1>12, Zenon DEF RenameMoves

\* apply_rename_at: the whole of it, as a name dropped, a name moved and counts stepped.
LEMMA RenameWhole ==
  ASSUME Order(vol), NEW u, NEW a, NEW sn, NEW b, NEW dn, NEW src, NEW dst, NEW moved, NEW gone, NEW grow,
         NEW t1, NEW t4, NEW t5, NEW G, G = IF dst = 0 THEN {} ELSE Ending(vol, dst),
         RenameSteps(u, a, sn, b, dn, src, dst, moved, gone, grow, t1, t4, t5),
         RenameMoves(a, sn, b, dn, src, dst, moved, t1, t4, t5, G)
  PROVE  Form(u) /\ \E s : Swapped(vol, s, u, a, sn, b, dn, src, dst, G, moved, gone)
<1>p. PICK s : s = IF dst = 0 THEN vol ELSE EndName(t1, dst)
  BY Zenon
<1>0. Form(vol) /\ vol.bad = "ok" /\ Tree(vol)
  BY Zenon DEF Order
<1>1. /\ a \in DirsIn(vol) /\ b \in DirsIn(vol) /\ a \in Ino /\ b \in Ino
      /\ Leads(vol, a, sn, src) /\ src \in LiveIn(vol) /\ src \in Ino
      /\ src # dst /\ a # dst /\ b # dst
  BY Zenon DEF RenameSteps
<1>2. /\ dst = find_entry(vol, b, dn)
      /\ dst # 0 => Leads(vol, b, dn, dst) /\ dst \in LiveIn(vol) /\ dst \in Ino /\ Barren(vol, dst)
      /\ (dst # 0 => t1 = RemoveEntry(vol, b, dn)) /\ (dst = 0 => t1 = vol)
  BY Zenon DEF RenameSteps
<1>m. /\ moved \in BOOLEAN /\ moved = (IsDir(vol, src) /\ a # b) /\ (moved => a # b)
      /\ gone \in BOOLEAN /\ gone = (dst \in DirsIn(vol))
  BY Zenon DEF RenameSteps
<1>9. /\ t1.up = vol.up /\ Leads(t1, a, sn, src)
      /\ Renamed(t1, t4, a, sn, b, dn, src)
      /\ \A x \in Ino : t4.up[x] = IF moved /\ x = src THEN b ELSE t1.up[x]
  BY Zenon DEF RenameMoves
<1>12. /\ Form(t5) /\ t5.up = t4.up
       /\ \A x \in Ino : x # dst => t5.tab[x].kind = vol.tab[x].kind /\ t5.tab[x].links = vol.tab[x].links
       /\ LiveIn(t5) = LiveIn(vol) \ G /\ DirsIn(t5) = DirsIn(vol) \ G
       /\ \A x \in Ino : \A m, y : Leads(t5, x, m, y) <=> Leads(t4, x, m, y)
       /\ dst # 0 /\ dst \notin G => /\ t5.tab[dst].links = vol.tab[dst].links - 1
                                     /\ t5.tab[dst].kind = vol.tab[dst].kind
                                     /\ vol.tab[dst].links > 1
  BY Zenon DEF RenameMoves
<1>13. /\ Form(u) /\ u.bits = t5.bits /\ u.up = t5.up /\ u.ents = t5.ents
       /\ \A x \in Ino : u.tab[x].kind = t5.tab[x].kind
       /\ \A x \in Ino : x \notin {a, b} => u.tab[x].links = t5.tab[x].links
       /\ moved => u.tab[a].links = next_links_count(IsDir(t5, a), t5.tab[a].links, -1)
       /\ ~ moved /\ a # b => u.tab[a].links = t5.tab[a].links
       /\ moved = gone => u.tab[b].links = t5.tab[b].links
       /\ moved /\ ~ gone =>
            /\ u.tab[b].links = next_links_count(IsDir(t5, b), t5.tab[b].links, 1)
            /\ u.tab[b].links # TooMany
       /\ ~ moved /\ gone => u.tab[b].links = next_links_count(IsDir(t5, b), t5.tab[b].links, -1)
  <2>1. u = apply_parent_nlink_deltas(t5, a, b, moved, gone) /\ u.bad = "ok"
    BY Zenon DEF RenameSteps
  <2>2. Form(t5) /\ moved \in BOOLEAN /\ gone \in BOOLEAN /\ (moved => a # b)
    BY <1>12, <1>m, Zenon
  <2>3. a \in Ino /\ b \in Ino
    BY <1>1, Zenon
  <2> QED
    BY <2>1, <2>2, <2>3, DeltaFacts
<1>14. /\ Vacated(vol, s, b, dn, dst, G) /\ s.up = vol.up
       /\ \A x \in Ino : \A m, y : Leads(s, x, m, y) <=> Leads(t1, x, m, y)
  <2>1. CASE dst = 0
    <3>1. s = vol /\ G = {} /\ t1 = vol
      BY <1>p, <1>2, <2>1, Zenon
    <3>2. Vacated(vol, vol, b, dn, 0, {})
      BY <1>0, <1>1, <1>2, <2>1, VacatedNone, Zenon
    <3> QED
      BY <2>1, <3>1, <3>2, Zenon
  <2>2. CASE dst # 0
    <3>1. s = EndName(t1, dst) /\ G = Ending(vol, dst) /\ t1 = RemoveEntry(vol, b, dn)
      BY <1>p, <1>2, <2>2, Zenon
    <3>2. Vacated(vol, s, b, dn, dst, G)
      BY <1>1, <1>2, <2>2, <3>1, VacatedOne, Zenon
    <3>3. s.up = vol.up /\ \A x \in Ino : \A m, y : Leads(s, x, m, y) <=> Leads(t1, x, m, y)
      BY <1>1, <1>2, <2>2, <3>1, TargetDropped
    <3> QED
      BY <3>2, <3>3, Zenon
  <2> QED
    BY <2>1, <2>2, Zenon
<1>15. Leads(s, a, sn, src)
  BY <1>1, <1>9, <1>14, Zenon
<1>16. Renamed(s, u, a, sn, b, dn, src)
  <2>1. \A x, m, y : Leads(u, x, m, y) <=> Leads(t5, x, m, y)
    BY <1>13, Zenon DEF Leads
  <2> QED
    BY <1>9, <1>12, <1>14, <2>1, Zenon DEF Renamed
<1>17. LiveIn(s) = LiveIn(vol) \ G /\ DirsIn(s) = DirsIn(vol) \ G /\ G \subseteq {dst}
  BY <1>14, Zenon DEF Vacated
<1>18. LiveIn(u) = LiveIn(s) /\ DirsIn(u) = DirsIn(s)
  <2>1. LiveIn(u) = LiveIn(t5)
    BY <1>13, Zenon DEF LiveIn
  <2>2. DirsIn(u) = DirsIn(t5)
    BY <1>13, <2>1, DirsFinite, Zenon DEF DirsIn, IsDir
  <2> QED
    BY <1>12, <1>17, <2>1, <2>2, Zenon
<1>19. UpMoved(s, u, src, b)
  <2> SUFFICES ASSUME NEW x \in DirsIn(s) PROVE u.up[x] = IF x = src THEN b ELSE s.up[x]
    BY Zenon DEF UpMoved
  <2>1. x \in DirsIn(vol) /\ x \in Ino
    BY <1>17, DirsFinite, Zenon
  <2>2. u.up[x] = IF moved /\ x = src THEN b ELSE s.up[x]
    <3>1. u.up[x] = t4.up[x] /\ s.up[x] = t1.up[x]
      BY <1>9, <1>12, <1>13, <1>14, Zenon
    <3>2. t4.up[x] = IF moved /\ x = src THEN b ELSE t1.up[x]
      BY <1>9, <2>1, Zenon
    <3> QED
      BY <3>1, <3>2, Zenon
  <2>3. CASE x = src /\ ~ moved
    <3>1. a = b
      BY <1>m, <2>1, <2>3, Zenon DEF DirsIn
    <3>2. src # Root
      BY <1>0, <1>1, Zenon DEF Tree
    <3>3. PICK q : OneName(vol, src, q)
      BY <1>0, <2>1, <2>3, <3>2, Zenon DEF Tree
    <3>4. a = vol.up[src]
      BY <1>1, <3>3, Zenon DEF OneName
    <3> QED
      BY <1>14, <2>2, <2>3, <3>1, <3>4, Zenon
  <2> QED
    BY <1>m, <2>2, <2>3, Zenon
<1>20. Relinked(vol, u, a, b, dst, moved, gone)
  <2>1. ASSUME NEW x \in LiveIn(u)
        PROVE  /\ u.tab[x].kind = vol.tab[x].kind
               /\ x \notin {a, b, dst} => u.tab[x].links = vol.tab[x].links
               /\ x = dst => u.tab[x].links = vol.tab[x].links - 1 /\ vol.tab[x].links > 1
    <3>1. x \in LiveIn(vol) /\ x \notin G /\ x \in Ino /\ x # 0
      BY <1>17, <1>18, DirsFinite, NamespaceAssumption DEF Ino
    <3> QED
      BY <1>1, <1>12, <1>13, <3>1, ZenonT(40)
  <2>2. IsDir(t5, a) = TRUE /\ IsDir(t5, b) = TRUE
    BY <1>1, <1>12, Zenon DEF IsDir, DirsIn
  <2>3. t5.tab[a].links = vol.tab[a].links /\ t5.tab[b].links = vol.tab[b].links
    BY <1>1, <1>12, Zenon
  <2>4. moved => u.tab[a].links = next_links_count(TRUE, vol.tab[a].links, -1)
    BY <1>13, <2>2, <2>3, Zenon
  <2>5. /\ ~ moved /\ a # b => u.tab[a].links = vol.tab[a].links
        /\ moved = gone => u.tab[b].links = vol.tab[b].links
    BY <1>13, <2>3, Zenon
  <2>6. /\ moved /\ ~ gone =>
            /\ u.tab[b].links = next_links_count(TRUE, vol.tab[b].links, 1)
            /\ u.tab[b].links # TooMany
        /\ ~ moved /\ gone => u.tab[b].links = next_links_count(TRUE, vol.tab[b].links, -1)
    BY <1>13, <2>2, <2>3, Zenon
  <2> QED
    BY <2>1, <2>4, <2>5, <2>6, Zenon DEF Relinked
<1>21. Swapped(vol, s, u, a, sn, b, dn, src, dst, G, moved, gone)
  BY <1>1, <1>14, <1>15, <1>16, <1>18, <1>19, <1>20, <1>m, Zenon DEF Swapped
<1> QED
  BY <1>13, <1>21, Zenon

\* apply_rename_at keeps the order.
LEMMA RenameOrder ==
  ASSUME Order(vol), NEW ra, NEW sn, NEW rb, NEW dn, NEW replace, NEW grow,
         NEW u, u = RenameStaged(ra, sn, rb, dn, replace, grow), u.bad = "ok"
  PROVE  Order(u)
<1>1. PICK a, b, src, dst, moved, gone, t1, t4, t5 :
         RenameSteps(u, a, sn, b, dn, src, dst, moved, gone, grow, t1, t4, t5)
  BY RenameStart, Zenon
<1>2. PICK G : G = IF dst = 0 THEN {} ELSE Ending(vol, dst)
  BY Zenon
<1>3. RenameMoves(a, sn, b, dn, src, dst, moved, t1, t4, t5, G)
  BY <1>1, <1>2, RenameMiddle, Zenon
<1>4. Form(u) /\ \E s : Swapped(vol, s, u, a, sn, b, dn, src, dst, G, moved, gone)
  BY <1>1, <1>2, <1>3, RenameWhole, Zenon
<1>5. PICK s : Swapped(vol, s, u, a, sn, b, dn, src, dst, G, moved, gone)
  BY <1>4, Zenon
<1>6. Tree(u) /\ Tally(vol, u, a, b, dst, moved, gone)
  BY <1>5, RenameTally, Zenon
<1>7. \A x \in LiveIn(u) : InodeRight(u, x) /\ u.tab[x].kind # "none"
  BY <1>6, TallyRight, Zenon
<1> QED
  BY <1>4, <1>6, <1>7, RightEach, Zenon DEF Order

=============================================================================
