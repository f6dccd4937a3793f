----------------------------- MODULE CapiProofs -----------------------------
(***************************************************************************)
(* The calls of the C interface, by path and by handle, from any number of *)
(* threads and in any number, keep link counts exact.  Each call ends with *)
(* the volume it found or with the one an operation staged, and what the   *)
(* operations stage is in order (NamespaceProofs).                         *)
(***************************************************************************)
EXTENDS NamespaceProofs, Capi

-----------------------------------------------------------------------------
(* The calls *)

\* A volume with the names, inodes and link counts of one that is in order.
LEMMA SameOrder ==
  ASSUME NEW t, Order(t), NEW u, Form(u), u.bad = "ok", SameNames(t, u), SameLinks(t, u)
  PROVE  Order(u)
<1>1. LiveIn(u) = LiveIn(t)
  BY Zenon DEF SameNames, LiveIn
<1>2. DirsIn(u) = DirsIn(t)
  BY <1>1, DirsFinite, Zenon DEF SameNames, DirsIn, IsDir
<1>3. Places(u) = Places(t)
  BY <1>2 DEF SameNames, Places
<1>4. \A x : NamesOf(u, x) = NamesOf(t, x)
  BY <1>3, Zenon DEF SameNames, NamesOf
<1>5. \A x : Subdirs(u, x) = Subdirs(t, x)
  BY <1>2, Zenon DEF SameNames, Subdirs
<1>6. \A x, m, y : Leads(u, x, m, y) <=> Leads(t, x, m, y)
  BY Zenon DEF SameNames, Leads
<1>7. \A x, m : OneName(u, x, m) <=> OneName(t, x, m)
  BY <1>6, Zenon DEF SameNames, OneName
<1>8. OnlyDirs(u) <=> OnlyDirs(t)
  BY <1>2, Zenon DEF SameNames, OnlyDirs
<1>9. u.up = t.up
  BY Zenon DEF SameNames
<1>10. Tree(u)
  BY <1>1, <1>2, <1>3, <1>6, <1>7, <1>8, <1>9, Zenon DEF Order, Tree
<1>11. ASSUME NEW x \in LiveIn(u) PROVE InodeRight(u, x) /\ u.tab[x].kind # "none"
  <2>1. x \in LiveIn(t) /\ x \in Ino /\ InodeRight(t, x) /\ t.tab[x].kind # "none"
    BY <1>1, DirsFinite, RightEach, Zenon DEF Order
  <2>2. u.tab[x].kind = t.tab[x].kind /\ u.tab[x].links = t.tab[x].links
    BY <2>1, Zenon DEF SameNames, SameLinks
  <2>3. InodeRight(u, x)
    BY <1>4, <1>5, <2>1, <2>2, InodeSame
  <2> QED
    BY <2>1, <2>2, <2>3, Zenon
<1> QED
  BY <1>10, <1>11, RightEach, Zenon DEF Order

\* What a call stages is in order, if the call goes ahead with it.
Staged(t) == t.bad = "ok" => Order(t)

\* A refusal changes nothing.
LEMMA StopStaged ==
  ASSUME Order(vol)
  PROVE  Staged(vol) /\ \A why : Staged(Stop(vol, why))
<1>1. ASSUME NEW why, NEW u, u = Stop(vol, why), u.bad = "ok" PROVE Order(u)
  <2>1. /\ DOMAIN u = DOMAIN vol /\ u.bits = vol.bits /\ u.ents = vol.ents /\ u.up = vol.up
        /\ u.tab = vol.tab /\ u.grp = vol.grp
    BY <1>1, Zenon DEF Stop, Order, Form, Fields
  <2>2. Form(u)
    BY <2>1, Zenon DEF Order, Form
  <2>3. SameNames(vol, u) /\ SameLinks(vol, u)
    BY <2>1, Zenon DEF SameNames, SameLinks
  <2> QED
    BY <1>1, <2>2, <2>3, SameOrder, Zenon
<1> QED
  BY <1>1, Zenon DEF Staged

\* Filesystem::apply_truncate and the writes: blocks only.
LEMMA ResizedStaged ==
  ASSUME Order(vol), NEW i, NEW b
  PROVE  Staged(Resized(vol, i, b))
<1>1. ASSUME NEW u, u = [vol EXCEPT !.sb.blocks = @ + vol.tab[i].blocks - b, !.tab[i].blocks = b],
             u.bad = "ok"
      PROVE  Order(u)
  <2>1. /\ DOMAIN u = DOMAIN vol /\ u.bits = vol.bits /\ u.ents = vol.ents /\ u.up = vol.up
        /\ u.grp = vol.grp /\ u.tab = [vol.tab EXCEPT ![i].blocks = b]
    BY <1>1, Zenon DEF Order, Form, Fields
  <2>2. /\ DOMAIN u.tab = DOMAIN vol.tab
        /\ \A x \in Ino : /\ DOMAIN u.tab[x] = DOMAIN vol.tab[x]
                          /\ u.tab[x].kind = vol.tab[x].kind /\ u.tab[x].links = vol.tab[x].links
    BY <2>1 DEF Order, Form, Columns
  <2>3. Form(u)
    BY <2>1, <2>2, Zenon DEF Order, Form
  <2>4. SameNames(vol, u) /\ SameLinks(vol, u)
    BY <2>1, <2>2, Zenon DEF SameNames, SameLinks
  <2> QED
    BY <1>1, <2>3, <2>4, SameOrder, Zenon
<1> QED
  BY <1>1, StopStaged, Zenon DEF Resized, Staged

\* fs_ext4_setxattr and fs_ext4_removexattr: the attribute block only.
LEMMA AttrMovedStaged ==
  ASSUME Order(vol), NEW i, NEW x
  PROVE  Staged(AttrMoved(i, x))
<1> DEFINE w == buffer_release_xattr_block(vol, vol.tab[i].acl)
<1>1. /\ DOMAIN w = Fields /\ w.bits = vol.bits /\ w.tab = vol.tab /\ w.ents = vol.ents
      /\ w.up = vol.up /\ w.grp = vol.grp
  BY ReleaseFacts DEF Order
<1> HIDE DEF w
<1>2. ASSUME NEW u, NEW e, u.bad = "ok", DOMAIN u = Fields, u.bits = vol.bits, u.ents = vol.ents,
             u.up = vol.up, u.grp = vol.grp, u.tab = [vol.tab EXCEPT ![i].acl = e]
      PROVE  Order(u)
  <2>1. /\ DOMAIN u.tab = DOMAIN vol.tab
        /\ \A y \in Ino : /\ DOMAIN u.tab[y] = DOMAIN vol.tab[y]
                          /\ u.tab[y].kind = vol.tab[y].kind /\ u.tab[y].links = vol.tab[y].links
    BY <1>2 DEF Order, Form, Columns
  <2>2. Form(u)
    BY <1>2, <2>1, Zenon DEF Order, Form
  <2>3. SameNames(vol, u) /\ SameLinks(vol, u)
    BY <1>2, <2>1, Zenon DEF SameNames, SameLinks
  <2> QED
    BY <1>2, <2>2, <2>3, SameOrder, Zenon
<1>3. ASSUME NEW u, u = [w EXCEPT !.tab[i].acl = 0], u.bad = "ok" PROVE Order(u)
  <2>1. /\ DOMAIN u = Fields /\ u.bits = vol.bits /\ u.ents = vol.ents /\ u.up = vol.up
        /\ u.grp = vol.grp /\ u.tab = [vol.tab EXCEPT ![i].acl = 0]
    BY <1>1, <1>3, Zenon DEF Fields
  <2> QED
    BY <1>2, <1>3, <2>1, Zenon
<1>4. ASSUME NEW u, u = [w EXCEPT !.tab[i].acl = x, !.xref[x] = 1, !.sb.blocks = @ - 1], u.bad = "ok"
      PROVE  Order(u)
  <2>1. /\ DOMAIN u = Fields /\ u.bits = vol.bits /\ u.ents = vol.ents /\ u.up = vol.up
        /\ u.grp = vol.grp /\ u.tab = [vol.tab EXCEPT ![i].acl = x]
    BY <1>1, <1>4, Zenon DEF Fields
  <2> QED
    BY <1>2, <1>4, <2>1, Zenon
<1> QED
  BY <1>3, <1>4, StopStaged, Zenon DEF AttrMoved, Staged, w

\* The calls' preludes: the arguments, write_refusal and a failed read refuse.
LEMMA GuardedStaged ==
  ASSUME Order(vol), NEW arg, NEW io, NEW t, Staged(t)
  PROVE  /\ Staged(Guarded(arg, io, t)) /\ Staged(write_refusal(t))
         /\ Staged(Writing(arg, io, t))
<1>1. ASSUME NEW x, NEW y, NEW z, Staged(z) PROVE Staged(Guarded(x, y, z))
  BY <1>1, StopStaged, Zenon DEF Guarded
<1>2. ASSUME NEW z, Staged(z) PROVE Staged(write_refusal(z))
  BY <1>2, StopStaged, Zenon DEF write_refusal
<1> QED
  BY <1>1, <1>2, Zenon DEF Writing

\* Every staged volume is in order, whichever operation staged it.
LEMMA OperationsStaged ==
  ASSUME Order(vol)
  PROVE  /\ \A r, n, grow : Staged(CreateStaged(r, n, grow)) /\ Staged(MknodStaged(r, n, grow))
         /\ \A r, n, blocks, grow : Staged(SymlinkStaged(r, n, blocks, grow))
         /\ \A r, n, grow : Staged(MkdirStaged(r, n, grow))
         /\ \A target, r, n, grow : Staged(LinkStaged(target, r, n, grow))
         /\ \A r, n, slash : Staged(UnlinkStaged(r, n, slash))
         /\ \A r, n : Staged(RmdirStaged(r, n))
         /\ \A a, sn, b, dn, replace, grow : Staged(RenameStaged(a, sn, b, dn, replace, grow))
<1>1. \A r, n, blocks, grow : /\ Staged(Made(r, n, "file", blocks, grow))
                              /\ Staged(Made(r, n, "special", blocks, grow))
                              /\ Staged(Made(r, n, "link", blocks, grow))
  BY MadeOrder, Zenon DEF Staged
<1>2. /\ \A r, n, grow : Staged(CreateStaged(r, n, grow)) /\ Staged(MknodStaged(r, n, grow))
      /\ \A r, n, blocks, grow : Staged(SymlinkStaged(r, n, blocks, grow))
  BY <1>1, Zenon DEF CreateStaged, MknodStaged, SymlinkStaged
<1>3. \A r, n, grow : Staged(MkdirStaged(r, n, grow))
  BY MkdirOrder, Zenon DEF Staged
<1>4. \A target, r, n, grow : Staged(LinkStaged(target, r, n, grow))
  BY LinkOrder, Zenon DEF Staged
<1>5. \A r, n, slash : Staged(UnlinkStaged(r, n, slash))
  BY UnlinkOrder DEF Staged
<1>6. \A r, n : Staged(RmdirStaged(r, n))
  BY RmdirOrder, Zenon DEF Staged
<1>7. \A a, sn, b, dn, replace, grow : Staged(RenameStaged(a, sn, b, dn, replace, grow))
  BY RenameOrder, Zenon DEF Staged
<1> QED
  BY <1>2, <1>3, <1>4, <1>5, <1>6, <1>7, Zenon

\* ffi_guard commits what was staged, or nothing.
LEMMA EndsOrder ==
  ASSUME Order(vol), NEW th, NEW t, Staged(t), Ends(th, t)
  PROVE  Order(vol')
<1>1. vol' = vol \/ (t.bad = "ok" /\ vol' = t)
  BY Zenon DEF Ends
<1> QED
  BY <1>1, Zenon DEF Staged

\* A staged volume of a call that names a new place is never "same", which is
\* how a rename onto the same file ends.
Plain(t) == DOMAIN t = Fields /\ t.bad # "same"

\* No step of an operation that makes a name ends as "same".
LEMMA PlainSteps ==
  ASSUME NEW t, Plain(t)
  PROVE  /\ \A why : why # "same" => Plain(Stop(t, why))
         /\ \A i, kind, blocks, links : Plain(NewInode(t, i, kind, blocks, links))
         /\ \A d, n, i, grow : Plain(AddEntry(t, d, n, i, grow))
         /\ \A i, delta : Plain(patch_inode_nlink(t, i, delta))
         /\ \A i, d : Plain([t EXCEPT !.up[i] = d])
<1>1. \A why : why # "same" => Plain(Stop(t, why))
  BY Zenon DEF Plain, Stop, Fields
<1>2. ASSUME NEW i, NEW kind, NEW blocks, NEW links PROVE Plain(NewInode(t, i, kind, blocks, links))
  <2>1. \A a, b, c, d, e : Plain([t EXCEPT !.bits = a, !.grp = b, !.sb = c, !.tab = d, !.next = e])
    BY Zenon DEF Plain, Fields
  <2> QED
    BY <1>1, <2>1, Zenon DEF NewInode
<1>3. ASSUME NEW d, NEW n, NEW i, NEW grow PROVE Plain(AddEntry(t, d, n, i, grow))
  BY <1>1, Zenon DEF AddEntry, Plain, Fields
<1>4. ASSUME NEW i, NEW delta PROVE Plain(patch_inode_nlink(t, i, delta))
  BY <1>1, Zenon DEF patch_inode_nlink, Plain, Fields
<1>5. \A i, d : Plain([t EXCEPT !.up[i] = d])
  BY Zenon DEF Plain, Fields
<1> QED
  BY <1>1, <1>2, <1>3, <1>4, <1>5, Zenon

\* Nor does an operation that makes a name: create, mknod, symlink, mkdir and link.
LEMMA NewPlain ==
  ASSUME Order(vol)
  PROVE  /\ \A r, n, kind, blocks, grow : Plain(Made(r, n, kind, blocks, grow))
         /\ \A r, n, grow : Plain(MkdirStaged(r, n, grow))
         /\ \A target, r, n, grow : Plain(LinkStaged(target, r, n, grow))
<1>1. Plain(vol)
  BY Zenon DEF Order, Form, Plain
<1>2. \A why : why # "same" => Plain(Stop(vol, why))
  BY <1>1, PlainSteps, Zenon
<1>3. \A i, kind, blocks, links, d, n, j, grow :
          Plain(AddEntry(NewInode(vol, i, kind, blocks, links), d, n, j, grow))
  BY <1>1, PlainSteps, Zenon
<1>4. \A i, kind, blocks, links, d, n, j, grow, k, e, x, y :
          Plain(patch_inode_nlink([AddEntry(NewInode(vol, i, kind, blocks, links), d, n, j, grow)
                                     EXCEPT !.up[k] = e], x, y))
  <2>1. \A t : Plain(t) => \A k, e : Plain([t EXCEPT !.up[k] = e])
    BY PlainSteps, Zenon
  <2>2. \A t : Plain(t) => \A x, y : Plain(patch_inode_nlink(t, x, y))
    BY PlainSteps, Zenon
  <2>3. \A t : Plain(t) => \A k, e, x, y : Plain(patch_inode_nlink([t EXCEPT !.up[k] = e], x, y))
    <3> SUFFICES ASSUME NEW t, Plain(t), NEW k, NEW e, NEW x, NEW y
                 PROVE  Plain(patch_inode_nlink([t EXCEPT !.up[k] = e], x, y))
      BY Zenon
    <3>1. Plain([t EXCEPT !.up[k] = e])
      BY <2>1, Zenon
    <3> QED
      BY <2>2, <3>1, Zenon
  <2> QED
    BY <1>3, <2>3, Zenon
<1>5. \A i, delta, d, n, j, grow : Plain(AddEntry(patch_inode_nlink(vol, i, delta), d, n, j, grow))
  BY <1>1, PlainSteps, Zenon
<1>6. \A r, n : Plain(Stop(vol, NewRefused(r, n)))
  <2>1. \A r, n : NewRefused(r, n) # "same"
    BY Zenon DEF NewRefused, live_dir
  <2> QED
    BY <1>2, <2>1, Zenon
<1>7. /\ Plain(Stop(vol, "toomany")) /\ Plain(Stop(vol, "stale")) /\ Plain(Stop(vol, "isdir"))
  BY <1>2, Zenon
<1>8. \A r, n, kind, blocks, grow : Plain(Made(r, n, kind, blocks, grow))
  BY <1>3, <1>6, Zenon DEF Made
<1>9. \A r, n, grow : Plain(MkdirStaged(r, n, grow))
  BY <1>3, <1>4, <1>6, <1>7, Zenon DEF MkdirStaged
<1>10. \A target, r, n, grow : Plain(LinkStaged(target, r, n, grow))
  BY <1>5, <1>6, <1>7, Zenon DEF LinkStaged
<1> QED
  BY <1>8, <1>9, <1>10, Zenon

\* Nor do the checks in front of it (write_refusal, the arguments).
LEMMA WritingPlain ==
  ASSUME Order(vol), NEW arg, arg # "same", NEW io, NEW t, Plain(t)
  PROVE  Plain(Writing(arg, io, t))
<1>1. \A why : why # "same" => Plain(Stop(vol, why))
  BY PlainSteps, Zenon DEF Order, Form, Plain
<1>2. Plain(Stop(vol, arg))
  BY <1>1, Zenon
<1>3. Plain(Stop(vol, "io")) /\ Plain(Stop(vol, "readonly")) /\ Plain(Stop(vol, "notreplayed"))
  BY <1>1, Zenon
<1> QED
  BY <1>2, <1>3, Zenon DEF Writing, Guarded, write_refusal

\* The calls by handle, their attributes read after the commit or not.
LEMMA AttrOutOrder ==
  ASSUME Order(vol), NEW th, NEW t, NEW i, NEW attr, Staged(t), Plain(t), AttrOut(th, t, i, attr)
  PROVE  Order(vol')
<1>1. (Fine(t) /\ vol' = t) \/ Ends(th, t)
  BY Zenon DEF AttrOut, Returns
<1>2. Fine(t) => t.bad = "ok"
  BY Zenon DEF Fine, Plain
<1>3. CASE Fine(t) /\ vol' = t
  BY <1>2, <1>3, Zenon DEF Staged
<1>4. CASE Ends(th, t)
  BY <1>4, EndsOrder, Zenon
<1> QED
  BY <1>1, <1>3, <1>4, Zenon

\* Mounting, the calls on the volume and those that only read.
LEMMA VolumeCallsOrder ==
  ASSUME Order(vol), NEW th, NEW arg, NEW io, VolumeCalls(th, arg, io)
  PROVE  Order(vol')
<1>1. Staged(vol) /\ \A why : Staged(Stop(vol, why))
  BY StopStaged, Zenon
<1>2. \A x, y : Staged(Guarded(x, y, vol)) /\ Staged(Writing(x, y, vol))
  BY <1>1, GuardedStaged, Zenon
<1>3. \E t : Staged(t) /\ Ends(th, t)
  <2>1. CASE \E late : fs_ext4_replay_journal_if_dirty(th, arg, io, late)
    BY <1>1, <1>2, <2>1, Zenon DEF fs_ext4_replay_journal_if_dirty
  <2>2. CASE \/ fs_ext4_flush(th, arg, io) \/ fs_ext4_fresh_read(th, arg, io)
             \/ fs_ext4_get_volume_info(th, arg, io)
    BY <1>2, <2>2, Zenon DEF fs_ext4_flush, fs_ext4_fresh_read, fs_ext4_get_volume_info, Answers, Returns
  <2>3. CASE fs_ext4_set_volume_label(th, arg, io)
    BY <1>2, <2>3, Zenon DEF fs_ext4_set_volume_label, Answers, Returns
  <2>4. CASE \E replay, repair, late : fs_ext4_fsck_run(th, arg, io, replay, repair, late)
    BY <1>1, <1>2, <2>4, Zenon DEF fs_ext4_fsck_run
  <2> QED
    BY <2>1, <2>2, <2>3, <2>4, Zenon DEF VolumeCalls
<1> QED
  BY <1>3, EndsOrder, Zenon

\* The calls that read: stat, read, readlink, listing, iterators and attributes.
LEMMA ReadCallsOrder ==
  ASSUME Order(vol), NEW th, NEW arg, NEW io, ReadCalls(th, arg, io)
  PROVE  Order(vol')
<1>1. Staged(vol) /\ \A why : Staged(Stop(vol, why))
  BY StopStaged
<1>2. \A x, y, t : Staged(t) => Staged(Guarded(x, y, t))
  BY GuardedStaged, Zenon
<1>3. \A r : Staged(LiveInode(r, Unchanged))
  BY <1>1, Zenon DEF LiveInode, Unchanged
<1>4. \A r : Staged(LiveDir(r, Unchanged))
  BY <1>1, Zenon DEF LiveDir, Unchanged
<1>5. \A r : Staged(ReadInto(r))
  BY <1>1, Zenon DEF ReadInto, LiveInode
<1>6. \A i, room : Staged(ReadLink(i, room))
  BY <1>1, Zenon DEF ReadLink
<1>7. ASSUME NEW t, Staged(t), NEW r, Stats(th, arg, io, t, r)
      PROVE  \E u : Staged(u) /\ Ends(th, u)
  BY <1>2, <1>3, <1>7, Zenon DEF Stats, Returns
<1>8. ASSUME NEW t, Staged(t), NEW d, Opens(th, arg, io, t, d)
      PROVE  \E u : Staged(u) /\ Ends(th, u)
  BY <1>2, <1>8, Zenon DEF Opens
<1>9. ASSUME NEW t, Staged(t), Answers(th, Guarded(arg, io, t))
      PROVE  \E u : Staged(u) /\ Ends(th, u)
  BY <1>2, <1>9, Zenon DEF Answers, Returns
<1>10. \E u : Staged(u) /\ Ends(th, u)
  <2>1. CASE \E p, slash : fs_ext4_stat(th, arg, io, p, slash)
    BY <1>1, <1>7, <2>1, Zenon DEF fs_ext4_stat, AtPath
  <2>2. CASE \E p, slash : fs_ext4_read_file(th, arg, io, p, slash)
    BY <1>1, <1>5, <1>9, <2>2, Zenon DEF fs_ext4_read_file, AtPath
  <2>3. CASE \E p, slash : fs_ext4_listxattr(th, arg, io, p, slash)
    BY <1>1, <1>9, <2>3, Zenon DEF fs_ext4_listxattr, AtPath
  <2>4. CASE \E p, slash : fs_ext4_dir_open(th, arg, io, p, slash)
    BY <1>1, <1>4, <1>8, <2>4, Zenon DEF fs_ext4_dir_open, AtPath
  <2>5. CASE \E p, slash, room : fs_ext4_readlink(th, arg, io, p, slash, room)
    BY <1>1, <1>6, <1>9, <2>5, Zenon DEF fs_ext4_readlink, AtPath
  <2>6. CASE \E p, slash, found : fs_ext4_getxattr(th, arg, io, p, slash, found)
    BY <1>1, <1>9, <2>6, Zenon DEF fs_ext4_getxattr, AtPath
  <2>7. CASE \E h : fs_ext4_stat_ino(th, arg, io, h)
    BY <1>1, <1>7, <2>7, Zenon DEF fs_ext4_stat_ino
  <2>8. CASE \E h, n : fs_ext4_lookup_at(th, arg, io, h, n)
    BY <1>1, <1>7, <2>8, Zenon DEF fs_ext4_lookup_at, LiveDir
  <2>9. CASE \E h : fs_ext4_pread_ino(th, arg, io, h)
    BY <1>5, <1>9, <2>9, Zenon DEF fs_ext4_pread_ino
  <2>10. CASE \E h : fs_ext4_dir_open_ino(th, arg, io, h)
    BY <1>4, <1>8, <2>10, Zenon DEF fs_ext4_dir_open_ino
  <2>11. CASE \E h, room : fs_ext4_readlink_ino(th, arg, io, h, room)
    BY <1>1, <1>6, <1>9, <2>11, Zenon DEF fs_ext4_readlink_ino, LiveInode
  <2> QED
    BY <2>1, <2>2, <2>3, <2>4, <2>5, <2>6, <2>7, <2>8, <2>9, <2>10, <2>11, Zenon DEF ReadCalls
<1> QED
  BY <1>10, EndsOrder

\* The calls that change an inode and no name.
LEMMA InodeCallsOrder ==
  ASSUME Order(vol), NEW th, NEW arg, NEW io, InodeCalls(th, arg, io)
  PROVE  Order(vol')
<1>1. Staged(vol) /\ \A why : Staged(Stop(vol, why))
  BY StopStaged
<1>2. /\ \A x, y, t : Staged(t) => Staged(Guarded(x, y, t)) /\ Staged(Writing(x, y, t))
      /\ \A t : Staged(t) => Staged(write_refusal(t))
  BY GuardedStaged, Zenon
<1>3. \A r : Staged(LiveInode(r, Unchanged))
  BY <1>1, Zenon DEF LiveInode, Unchanged
<1>4. \A i, b, dirs : Staged(Written(i, b, dirs))
  <2>1. \A i, b : Staged(Resized(vol, i, b))
    BY ResizedStaged, Zenon
  <2> QED
    BY <1>1, <2>1, Zenon DEF Written
<1>5. \A i, x : Staged(AttrMoved(i, x))
  BY AttrMovedStaged, Zenon
<1>6. ASSUME NEW t, Staged(t), Answers(th, t)
      PROVE  \E u : Staged(u) /\ Ends(th, u)
  BY <1>6, Zenon DEF Answers, Returns
<1>7. ASSUME NEW t, Staged(t), NEW x, Answers(th, Guarded(x, io, t)) \/ Answers(th, Writing(x, io, t))
      PROVE  \E u : Staged(u) /\ Ends(th, u)
  BY <1>2, <1>6, <1>7, Zenon
<1>8. \E u : Staged(u) /\ Ends(th, u)
  <2>1. CASE \E p, slash, b : fs_ext4_truncate(th, arg, io, p, slash, b)
    BY <1>1, <1>2, <1>4, <1>7, <2>1, Zenon DEF fs_ext4_truncate, AtPath, LiveInode
  <2>2. CASE \E p, slash, flags, b : fs_ext4_fallocate(th, arg, io, p, slash, flags, b)
    BY <1>1, <1>2, <1>4, <1>7, <2>2, Zenon DEF fs_ext4_fallocate, AtPath
  <2>3. CASE \E p, slash, b : fs_ext4_write_file(th, arg, io, p, slash, b)
    BY <1>1, <1>2, <1>4, <1>7, <2>3, Zenon DEF fs_ext4_write_file, AtPath
  <2>4. CASE \E p, b : fs_ext4_pwrite(th, arg, io, p, b)
    BY <1>1, <1>4, <1>7, <2>4, Zenon DEF fs_ext4_pwrite, At, AtPath, LiveInode
  <2>5. CASE \E p : \/ fs_ext4_chmod(th, arg, io, p) \/ fs_ext4_chown(th, arg, io, p)
                    \/ fs_ext4_utimens(th, arg, io, p)
    <3>1. PICK p : MetaAt(th, arg, io, p)
      BY <2>5, Zenon DEF fs_ext4_chmod, fs_ext4_chown, fs_ext4_utimens
    <3> QED
      BY <1>1, <1>3, <1>7, <3>1, Zenon DEF MetaAt, At, AtPath
  <2>6. CASE \E p, managed : fs_ext4_set_flags(th, arg, io, p, managed)
    BY <1>1, <1>7, <2>6, Zenon DEF fs_ext4_set_flags, At, AtPath
  <2>7. CASE \E p : fs_ext4_setxattr(th, arg, io, p)
    BY <1>1, <1>5, <1>7, <2>7, Zenon DEF fs_ext4_setxattr, At, AtPath
  <2>8. CASE \E p, found : fs_ext4_removexattr(th, arg, io, p, found)
    BY <1>1, <1>5, <1>7, <2>8, Zenon DEF fs_ext4_removexattr, At, AtPath
  <2>9. CASE \E h, b : fs_ext4_truncate_ino(th, arg, io, h, b)
    BY <1>1, <1>4, <1>7, <2>9, Zenon DEF fs_ext4_truncate_ino, LiveInode
  <2>10. CASE \E h, b : fs_ext4_pwrite_ino(th, arg, io, h, b)
    BY <1>1, <1>4, <1>7, <2>10, Zenon DEF fs_ext4_pwrite_ino, LiveInode
  <2>11. CASE \E h : \/ fs_ext4_chmod_ino(th, io, h) \/ fs_ext4_chown_ino(th, io, h)
                     \/ fs_ext4_utimens_ino(th, io, h)
    BY <1>3, <1>7, <2>11, Zenon DEF fs_ext4_chmod_ino, fs_ext4_chown_ino, fs_ext4_utimens_ino, MetaIno
  <2> QED
    BY <2>1, <2>2, <2>3, <2>4, <2>5, <2>6, <2>7, <2>8, <2>9, <2>10, <2>11, Zenon DEF InodeCalls
<1> QED
  BY <1>8, EndsOrder

\* The calls that change names, by path.
LEMMA NameCallsOrder ==
  ASSUME Order(vol), NEW th, NEW arg, NEW io, NameCalls(th, arg, io)
  PROVE  Order(vol')
<1>1. \A why : Staged(Stop(vol, why))
  BY StopStaged, Zenon
<1>2. \A x, y, t : Staged(t) => Staged(Writing(x, y, t))
  BY GuardedStaged, Zenon
<1>3. ASSUME NEW t, Staged(t), Answers(th, Writing(arg, io, t)) \/ Makes(th, Writing(arg, io, t))
      PROVE  \E u : Staged(u) /\ Ends(th, u)
  BY <1>2, <1>3, Zenon DEF Answers, Makes, Returns
<1>4. \E u : Staged(u) /\ Ends(th, u)
  <2>1. CASE \E p, n, grow : fs_ext4_create(th, arg, io, p, n, grow) \/ fs_ext4_mknod(th, arg, io, p, n, grow)
    <3>1. \A r, n, grow : Staged(CreateStaged(r, n, grow)) /\ Staged(MknodStaged(r, n, grow))
      BY OperationsStaged, Zenon
    <3> QED
      BY <1>1, <1>3, <2>1, <3>1, Zenon DEF fs_ext4_create, fs_ext4_mknod, MakesAt, At, AtPath
  <2>2. CASE \E p, n, blocks, grow : fs_ext4_symlink(th, arg, io, p, n, blocks, grow)
    <3>1. \A r, n, blocks, grow : Staged(SymlinkStaged(r, n, blocks, grow))
      BY OperationsStaged, Zenon
    <3> QED
      BY <1>1, <1>3, <2>2, <3>1, Zenon DEF fs_ext4_symlink, MakesAt, At, AtPath
  <2>3. CASE \E p, n, grow : fs_ext4_mkdir(th, arg, io, p, n, grow)
    <3>1. \A r, n, grow : Staged(MkdirStaged(r, n, grow))
      BY OperationsStaged, Zenon
    <3> QED
      BY <1>1, <1>3, <2>3, <3>1, Zenon DEF fs_ext4_mkdir, MakesAt, At, AtPath
  <2>4. CASE \E p, n, q, grow : fs_ext4_link(th, arg, io, q, p, n, grow)
    <3>1. \A target, r, n, grow : Staged(LinkStaged(target, r, n, grow))
      BY OperationsStaged, Zenon
    <3> QED
      BY <1>1, <1>3, <2>4, <3>1, Zenon DEF fs_ext4_link, At, AtPath
  <2>5. CASE \E p, n, slash : fs_ext4_unlink(th, arg, io, p, n, slash)
    <3>1. \A r, n, slash : Staged(UnlinkStaged(r, n, slash))
      BY OperationsStaged, Zenon
    <3> QED
      BY <1>1, <1>3, <2>5, <3>1, Zenon DEF fs_ext4_unlink, At, AtPath
  <2>6. CASE \E p, n : fs_ext4_rmdir(th, arg, io, p, n)
    <3>1. \A r, n : Staged(RmdirStaged(r, n))
      BY OperationsStaged, Zenon
    <3> QED
      BY <1>1, <1>3, <2>6, <3>1, Zenon DEF fs_ext4_rmdir, At, AtPath
  <2>7. CASE \E p, q, sn, dn, replace, grow : Renames(th, arg, io, p, sn, q, dn, replace, grow)
    <3>1. \A a, sn, b, dn, replace, grow : Staged(RenameStaged(a, sn, b, dn, replace, grow))
      BY OperationsStaged, Zenon
    <3> QED
      BY <1>1, <1>3, <2>7, <3>1, Zenon DEF Renames, At, AtPath
  <2>8. CASE \/ \E p, q, sn, dn, grow : fs_ext4_rename(th, arg, io, p, sn, q, dn, grow)
             \/ \E p, q, sn, dn, replace, grow : fs_ext4_rename2(th, arg, io, p, sn, q, dn, replace, grow)
    BY <2>7, <2>8, Zenon DEF fs_ext4_rename, fs_ext4_rename2
  <2> QED
    BY <2>1, <2>2, <2>3, <2>4, <2>5, <2>6, <2>8, Zenon DEF NameCalls
<1> QED
  BY <1>4, EndsOrder

\* The calls that change names, by handle.
LEMMA NameCallsAtOrder ==
  ASSUME Order(vol), NEW th, NEW arg, arg # "same", NEW io, NameCallsAt(th, arg, io)
  PROVE  Order(vol')
<1>1. \A x, y, t : Staged(t) => Staged(Writing(x, y, t))
  BY GuardedStaged, Zenon
<1>2. ASSUME NEW t, Staged(t), Answers(th, Writing(arg, io, t)) PROVE Order(vol')
  BY <1>1, <1>2, EndsOrder, Zenon DEF Answers, Returns
<1>3. ASSUME NEW t, Staged(t), Plain(t), NEW i, NEW attr, AttrOut(th, Writing(arg, io, t), i, attr)
      PROVE  Order(vol')
  <2>1. Staged(Writing(arg, io, t)) /\ Plain(Writing(arg, io, t))
    BY <1>1, <1>3, WritingPlain, Zenon
  <2> QED
    BY <1>3, <2>1, AttrOutOrder, Zenon
<1>4. \A r, n, kind, blocks, grow : Plain(Made(r, n, kind, blocks, grow))
  BY NewPlain, Zenon
<1>5. CASE \E h, n, grow, attr : fs_ext4_create_at(th, arg, io, h, n, grow, attr)
                                 \/ fs_ext4_mknod_at(th, arg, io, h, n, grow, attr)
  <2>1. \A r, n, grow : Staged(CreateStaged(r, n, grow)) /\ Staged(MknodStaged(r, n, grow))
    BY OperationsStaged, Zenon
  <2>2. \A r, n, grow : Plain(CreateStaged(r, n, grow)) /\ Plain(MknodStaged(r, n, grow))
    BY <1>4, Zenon DEF CreateStaged, MknodStaged
  <2>3. CASE \E h, n, grow, attr : fs_ext4_create_at(th, arg, io, h, n, grow, attr)
    BY <1>3, <2>1, <2>2, <2>3, Zenon DEF fs_ext4_create_at, MakesIno
  <2>4. CASE \E h, n, grow, attr : fs_ext4_mknod_at(th, arg, io, h, n, grow, attr)
    BY <1>3, <2>1, <2>2, <2>4, Zenon DEF fs_ext4_mknod_at, MakesIno
  <2> QED
    BY <1>5, <2>3, <2>4, Zenon
<1>6. CASE \E h, n, blocks, grow, attr : fs_ext4_symlink_at(th, arg, io, h, n, blocks, grow, attr)
  <2>1. \A r, n, blocks, grow : Staged(SymlinkStaged(r, n, blocks, grow))
    BY OperationsStaged, Zenon
  <2>2. \A r, n, blocks, grow : Plain(SymlinkStaged(r, n, blocks, grow))
    BY <1>4, Zenon DEF SymlinkStaged
  <2> QED
    BY <1>3, <1>6, <2>1, <2>2, Zenon DEF fs_ext4_symlink_at, MakesIno
<1>7. CASE \E h, n, grow, attr : fs_ext4_mkdir_at(th, arg, io, h, n, grow, attr)
  <2>1. \A r, n, grow : Staged(MkdirStaged(r, n, grow)) /\ Plain(MkdirStaged(r, n, grow))
    BY OperationsStaged, NewPlain, Zenon
  <2> QED
    BY <1>3, <1>7, <2>1, Zenon DEF fs_ext4_mkdir_at, MakesIno
<1>8. CASE \E g, h, n, grow, attr : fs_ext4_link_at(th, arg, io, g, h, n, grow, attr)
  <2>1. \A target, r, n, grow : Staged(LinkStaged(target, r, n, grow)) /\ Plain(LinkStaged(target, r, n, grow))
    BY OperationsStaged, NewPlain, Zenon
  <2> QED
    BY <1>3, <1>8, <2>1, Zenon DEF fs_ext4_link_at
<1>9. CASE \E h, n : fs_ext4_unlink_at(th, arg, io, h, n) \/ fs_ext4_rmdir_at(th, arg, io, h, n)
  <2>1. (\A r, n, slash : Staged(UnlinkStaged(r, n, slash))) /\ \A r, n : Staged(RmdirStaged(r, n))
    BY OperationsStaged, Zenon
  <2> QED
    BY <1>2, <1>9, <2>1, Zenon DEF fs_ext4_unlink_at, fs_ext4_rmdir_at
<1>10. CASE \E g, h, sn, dn, replace, grow : fs_ext4_rename_at(th, arg, io, g, sn, h, dn, replace, grow)
  <2>1. \A a, sn, b, dn, replace, grow : Staged(RenameStaged(a, sn, b, dn, replace, grow))
    BY OperationsStaged, Zenon
  <2> QED
    BY <1>2, <1>10, <2>1, Zenon DEF fs_ext4_rename_at
<1> QED
  BY <1>5, <1>6, <1>7, <1>8, <1>9, <1>10, Zenon DEF NameCallsAt

\* Each step of a caller.
LEMMA StepOrder ==
  ASSUME Order(vol), [Next]_vars
  PROVE  Order(vol')
<1>1. CASE UNCHANGED vars
  <2>1. vol' = vol
    BY <1>1, Zenon DEF vars
  <2> QED
    BY <2>1, Zenon
<1>2. CASE TurnsWritable \/ fs_ext4_umount \/ fs_ext4_dir_next \/ fs_ext4_dir_close
  <2>1. vol' = vol
    BY <1>2, Zenon DEF TurnsWritable, fs_ext4_umount, fs_ext4_dir_next, fs_ext4_dir_close, IterStep
  <2> QED
    BY <2>1
<1>3. ASSUME NEW th \in Threads, NEW f \in Faults,
             \/ MountCalls(th, f[1], f[2]) \/ VolumeCalls(th, f[1], f[2]) \/ ReadCalls(th, f[1], f[2])
             \/ InodeCalls(th, f[1], f[2]) \/ NameCalls(th, f[1], f[2]) \/ NameCallsAt(th, f[1], f[2])
      PROVE  Order(vol')
  <2>1. f[1] # "same"
    <3>1. \/ f = <<"ok", FALSE>> \/ f = <<"ok", TRUE>>
          \/ f = <<"invalid", FALSE>> \/ f = <<"toolong", FALSE>>
      BY Zenon DEF Faults
    <3>2. CASE f = <<"ok", FALSE>>
      BY <3>2, Zenon
    <3>3. CASE f = <<"ok", TRUE>>
      BY <3>3, Zenon
    <3>4. CASE f = <<"invalid", FALSE>>
      BY <3>4, Zenon
    <3>5. CASE f = <<"toolong", FALSE>>
      BY <3>5, Zenon
    <3> QED
      BY <3>1, <3>2, <3>3, <3>4, <3>5, Zenon
  <2>2. CASE MountCalls(th, f[1], f[2])
    <3>1. vol' = vol
      BY <2>2, Zenon DEF MountCalls, fs_ext4_mount, fs_ext4_mount_rw, mount_with_callbacks_inner,
           mount_rw_with_callbacks_inner, mount_rw_with_callbacks_lazy_inner, mount_fs_core_handle, Mounts
    <3> QED
      BY <3>1, Zenon
  <2> QED
    BY <1>3, <2>1, <2>2, VolumeCallsOrder, ReadCallsOrder, InodeCallsOrder, NameCallsOrder, NameCallsAtOrder
<1> QED
  BY <1>1, <1>2, <1>3, Zenon DEF Next

\* Whatever the callers of the C interface do, in any number of calls, on any
\* volume that starts in order: the link count of every inode in use says what
\* it should.  A file is freed with its last name; a directory counts the
\* directories in it across moves and replacements.
THEOREM LinkCounts == Spec => []LinksExact
<1>1. Init => Order(vol)
  BY StartsAssumption, SoundOrder, Zenon DEF Init
<1>2. Order(vol) /\ [Next]_vars => Order(vol)'
  <2>1. Order(vol') => Order(vol)'
    BY Zenon DEF Order, Form, Tree, LinksRight
  <2> QED
    BY <2>1, StepOrder
<1>3. Order(vol) => LinksExact
  BY Zenon DEF Order, LinksExact
<1> QED
  BY <1>1, <1>2, <1>3, PTL DEF Spec
=============================================================================
