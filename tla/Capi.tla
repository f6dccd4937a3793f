-------------------------------- MODULE Capi --------------------------------
(* The C interface (capi.rs) over the operations on names: mounting, calls   *)
(* by path and by handle, directory iterators, the last error of each        *)
(* thread, and what the operations answer as an errno.                       *)
(*                                                                           *)
(* A call is one step.  Its arguments are fine ("ok") or refused before the  *)
(* volume is looked at: a null pointer, a bad flag or size ("invalid"), a    *)
(* string that is too long ("toolong").  A read of the device may fail in    *)
(* any call.  Where the effect of a call is another module's (Content,       *)
(* Attributes, Xattr), the step has what shows in this one: the inode's      *)
(* blocks and its attribute block.  What the log holds is already at home,   *)
(* so a replay changes only what may be written.                             *)
EXTENDS Namespace, Sequences

CONSTANTS
    Threads,
    Paths,             \* paths callers use
    Grows,             \* blocks an add may cost its directory
    VolStarts, Kept,   \* volumes, and inodes a handle may be held of, at the start
    Sizes,             \* blocks a file may have after a write
    EntryOrder,        \* the names in the order directories list them
    MaxOps, MaxHandles, MaxMounts

VARIABLES
    mode,              \* "none", "ro" or "rw": how the volume is mounted
    dirty, pending,    \* the log on the device, replay_pending of the mount
    mounts,
    err,               \* LAST_ERRNO of each thread
    it,                \* the iterator, if one is open
    handles,           \* inode numbers callers hold, with the generation they had
    ops

mount == <<mode, dirty, pending, mounts>>
vars == <<vol, counter, mode, dirty, pending, mounts, err, it, handles, ops>>

\* The volumes callers meet are in order.
ASSUME StartsAssumption == \A v \in VolStarts : SoundVolume(v)

NoIter == [open |-> FALSE]
Args == {"ok", "invalid", "toolong"}

----------------------------------------------------------------------------
(* Errors *)

\* Error::to_errno, and the codes capi.rs sets by itself.
to_errno(why) ==
    CASE why \in {"io", "corrupt"}            -> "EIO"
      [] why \in {"notfound", "noattr"}       -> "ENOENT"
      [] why = "notdir"                       -> "ENOTDIR"
      [] why = "isdir"                        -> "EISDIR"
      [] why = "exists"                       -> "EEXIST"
      [] why = "notempty"                     -> "ENOTEMPTY"
      [] why \in {"readonly", "notreplayed"}  -> "EROFS"
      [] why = "toolong"                      -> "ENAMETOOLONG"
      [] why = "nospace"                      -> "ENOSPC"
      [] why = "toomany"                      -> "EMLINK"
      [] why = "invalid"                      -> "EINVAL"
      [] why = "range"                        -> "ERANGE"
      [] why = "nosys"                        -> "ENOSYS"
      [] why = "stale"                        -> "ESTALE"

\* clear_last_error, then set_err_from or set_err_msg: LAST_ERRNO is the
\* thread's own.
LastErrno(th, e) == [err EXCEPT ![th] = e]

Fine(t) == t.bad \in {"ok", "same"}

\* The names an open iterator was opened on and that are still there.
Watched(t) ==
    IF ~ it.open THEN it
    ELSE [it EXCEPT !.stable = { n \in @ : /\ it.dir \in t.bits /\ t.tab[it.dir].id = it.id
                                           /\ find_entry(t, it.dir, n) = it.inos[n] }]

Begun == ops < MaxOps /\ ops' = ops + 1

\* ffi_guard around a call that staged t: its effect, its return value and
\* the thread's last error.
Ends(th, t) ==
    /\ Begun /\ UNCHANGED mounts
    /\ vol' = IF t.bad = "ok" THEN t ELSE vol
    /\ err' = LastErrno(th, IF Fine(t) THEN "0" ELSE to_errno(t.bad))

\* A call that leaves iterators and the mount alone.
Returns(th, t) ==
    /\ Ends(th, t)
    /\ it' = Watched(vol')
    /\ UNCHANGED <<mode, dirty, pending>>

Answers(th, t) == Returns(th, t) /\ UNCHANGED <<handles, counter>>

Handle(t, i) == [ino |-> i, gen |-> t.tab[i].gen, id |-> t.tab[i].id]

\* The caller may keep what fill_attr gave it.
MayKeep(t, i) ==
    handles' \in {handles} \cup
        (IF Fine(t) /\ Cardinality(handles) < MaxHandles
         THEN { handles \cup {Handle(t, i)} } ELSE {})

\* The arguments, then a read that may fail, then the rest.
Guarded(arg, io, t) ==
    IF arg # "ok" THEN Stop(vol, arg) ELSE IF io THEN Stop(vol, "io") ELSE t

----------------------------------------------------------------------------
(* Inodes: by path, by handle *)

\* write_refusal, for a volume whose features are maintained.
write_refusal(t) ==
    IF mode = "ro" THEN Stop(vol, "readonly") ELSE IF pending THEN Stop(vol, "notreplayed") ELSE t

\* A call that refuses to write before it reads.
Writing(arg, io, t) == Guarded(arg, FALSE, write_refusal(Guarded("ok", io, t)))

\* lookup_bytes_with_csum: the inode a path leads to, and why it leads to none.
resolve(t, p) ==
    LET step(at, n) ==
            IF at.bad # "ok" THEN at
            ELSE IF ~ IsDir(t, at.ino) THEN Stop(at, "notdir")
            ELSE IF find_entry(t, at.ino, n) = 0 THEN Stop(at, "notfound")
            ELSE [at EXCEPT !.ino = find_entry(t, at.ino, n)]
        after[k \in 0 .. Len(p)] ==
            IF k = 0 THEN [ino |-> Root, bad |-> "ok"] ELSE step(after[k - 1], p[k])
    IN  after[Len(p)]

\* resolve_path: what it refuses; a trailing slash wants a directory.
resolve_path(p, slash) ==
    LET at == resolve(vol, p)
    IN  IF at.bad = "ok" /\ slash /\ ~ IsDir(vol, at.ino) THEN "notdir" ELSE at.bad

\* What is done at the inode a path names takes any generation.
AtPath(p, slash, Do(_)) ==
    IF resolve_path(p, slash) # "ok" THEN Stop(vol, resolve_path(p, slash))
    ELSE Do(Ref(resolve(vol, p).ino, GEN_ANY))

At(p, Do(_)) == AtPath(p, FALSE, Do)

\* inode_ref: the largest generation is FS_EXT4_GEN_ANY.
inode_ref(h) == Ref(h.ino, IF h.gen = GenMod - 1 THEN GEN_ANY ELSE h.gen)

LiveInode(r, Do(_)) == IF live_inode(vol, r) THEN Do(r.ino) ELSE Stop(vol, "stale")
LiveDir(r, Do(_)) == IF live_dir(vol, r) # "ok" THEN Stop(vol, live_dir(vol, r)) ELSE Do(r.ino)

Unchanged(i) == vol

\* What a write does to the blocks of a regular file.
Resized(t, i, b) ==
    IF b > t.sb.blocks + t.tab[i].blocks THEN Stop(t, "nospace")
    ELSE [t EXCEPT !.sb.blocks = @ + t.tab[i].blocks - b, !.tab[i].blocks = b]

\* The attribute block after a set or a remove: kept, given up (0), or
\* changed for one of the inode's own where it was shared or there was none.
AttrBlocks(i) ==
    LET acl == vol.tab[i].acl
    IN  {acl, 0} \cup { x \in DOMAIN vol.xref : vol.xref[x] = 0 /\ (acl = 0 \/ vol.xref[acl] > 1) }
AttrMoved(i, x) ==
    IF x = vol.tab[i].acl THEN vol
    ELSE IF x = 0 THEN [buffer_release_xattr_block(vol, vol.tab[i].acl) EXCEPT !.tab[i].acl = 0]
    ELSE IF vol.sb.blocks = 0 THEN Stop(vol, "nospace")
    ELSE [buffer_release_xattr_block(vol, vol.tab[i].acl)
            EXCEPT !.tab[i].acl = x, !.xref[x] = 1, !.sb.blocks = @ - 1]

----------------------------------------------------------------------------
(* Mounting *)

\* Mutation: only a lazy mount says that the log is still to be replayed.
MountsEager(th, arg, io, w, lazy) ==
    LET t == Guarded(arg, io, vol)
    IN  /\ mode = "none" /\ mounts < MaxMounts
        /\ mounts' = mounts + 1
        /\ err' = LastErrno(th, IF Fine(t) THEN "0" ELSE to_errno(t.bad))
        /\ mode' = IF ~ Fine(t) THEN "none" ELSE IF w THEN "rw" ELSE "ro"
        /\ dirty' = (dirty /\ ~ (Fine(t) /\ w /\ ~ lazy))
        /\ pending' = (Fine(t) /\ dirty /\ lazy)
        /\ UNCHANGED <<vol, counter, it, handles, ops>>

\* Filesystem::mount and mount_lazy on the device a call opened: an eager one
\* replays, a lazy or read-only one leaves the log dirty and refuses writes.
Mounts(th, arg, io, w, lazy) ==
    LET t == Guarded(arg, io, vol)
    IN  /\ mode = "none" /\ mounts < MaxMounts
        /\ mounts' = mounts + 1
        /\ err' = LastErrno(th, IF Fine(t) THEN "0" ELSE to_errno(t.bad))
        /\ mode' = IF ~ Fine(t) THEN "none" ELSE IF w THEN "rw" ELSE "ro"
        /\ dirty' = (dirty /\ ~ (Fine(t) /\ w /\ ~ lazy))
        /\ pending' = (Fine(t) /\ dirty /\ (lazy \/ ~ w))
        /\ UNCHANGED <<vol, counter, it, handles, ops>>

fs_ext4_mount(th, arg, io) == Mounts(th, arg, io, FALSE, FALSE)
fs_ext4_mount_rw(th, arg, io) == Mounts(th, arg, io, TRUE, FALSE)
mount_with_callbacks_inner(th, arg, io) == arg # "toolong" /\ Mounts(th, arg, io, FALSE, FALSE)
mount_rw_with_callbacks_inner(th, arg, io) == arg # "toolong" /\ Mounts(th, arg, io, TRUE, FALSE)
mount_rw_with_callbacks_lazy_inner(th, arg, io) ==
    arg # "toolong" /\ Mounts(th, arg, io, TRUE, TRUE)
mount_fs_core_handle(th, arg, io) ==
    arg # "toolong" /\ \E w, lazy \in BOOLEAN : Mounts(th, arg, io, w, lazy)

\* The host opens the device of the mount for writing: BlockDevice::is_writable
\* is asked anew by each call.
TurnsWritable ==
    /\ mode = "ro"
    /\ mode' = "rw"
    /\ UNCHANGED <<vol, counter, dirty, pending, mounts, err, it, handles, ops>>

\* replay_journal_if_dirty; a read-only device is left as it is.
Replayed(fine) ==
    /\ pending' = (pending /\ ~ (fine /\ mode = "rw"))
    /\ dirty' = (dirty /\ ~ (fine /\ mode = "rw"))
    /\ UNCHANGED mode

\* It can fail before the log is clean and, reading the geometry again, after.
fs_ext4_replay_journal_if_dirty(th, arg, io, late) ==
    LET t == Guarded(arg, io, vol)
    IN  /\ arg # "toolong" /\ (late => Fine(t) /\ mode = "rw" /\ dirty)
        /\ Ends(th, IF late THEN Stop(vol, "io") ELSE t)
        /\ Replayed(Fine(t))
        /\ UNCHANGED <<it, handles, counter>>

\* Neither call shows here; each can fail.
fs_ext4_flush(th, arg, io) == arg # "toolong" /\ Answers(th, Guarded(arg, io, vol))
fs_ext4_fresh_read(th, arg, io) == arg # "toolong" /\ Answers(th, Guarded(arg, io, vol))
fs_ext4_get_volume_info(th, arg, io) == arg # "toolong" /\ Answers(th, Guarded(arg, io, vol))
fs_ext4_set_volume_label(th, arg, io) ==
    /\ arg # "toolong"
    /\ Answers(th, Writing(arg, io, vol))

\* The options, the replay that was asked for, whether a repair may write, and
\* the audit; these calls leave nothing to repair.
fs_ext4_fsck_run(th, arg, io, replay, repair, late) ==
    LET r == Guarded(arg, io /\ replay, vol)
        open == mode = "rw" /\ (~ pending \/ replay)
        t == IF ~ Fine(r) THEN r
             ELSE IF repair /\ ~ open
                  THEN Stop(vol, IF mode = "ro" THEN "readonly" ELSE "notreplayed")
             ELSE IF late THEN Stop(vol, "io") ELSE vol
    IN  /\ arg # "toolong"
        /\ Ends(th, t)
        /\ Replayed(replay /\ Fine(r))
        /\ UNCHANGED <<it, handles, counter>>

\* Drop; the last error stays, and so does an iterator.
fs_ext4_umount ==
    /\ mode # "none"
    /\ mode' = "none" /\ pending' = FALSE
    /\ UNCHANGED <<vol, counter, dirty, mounts, err, it, handles, ops>>

----------------------------------------------------------------------------
(* Reading *)

\* stat_into, for a caller that may keep the handle.
Stats(th, arg, io, t, r) ==
    LET u == Guarded(arg, io, IF t.bad # "ok" THEN t ELSE LiveInode(r, Unchanged))
    IN  Returns(th, u) /\ MayKeep(u, r.ino) /\ UNCHANGED counter

fs_ext4_stat(th, arg, io, p, slash) ==
    Stats(th, arg, io, AtPath(p, slash, LAMBDA r : vol), Ref(resolve(vol, p).ino, GEN_ANY))

fs_ext4_stat_ino(th, arg, io, h) == arg # "toolong" /\ Stats(th, arg, io, vol, inode_ref(h))

fs_ext4_lookup_at(th, arg, io, h, n) ==
    LET d == inode_ref(h)
        i == IF live_dir(vol, d) = "ok" THEN find_entry(vol, d.ino, n) ELSE 0
        t == LiveDir(d, LAMBDA x : IF i = 0 THEN Stop(vol, "notfound") ELSE vol)
    IN  Stats(th, arg, io, t, Ref(i, GEN_ANY))

\* read_into: the content of a regular file is Content's.
ReadInto(r) ==
    LiveInode(r, LAMBDA i : IF vol.tab[i].kind = "file" THEN vol ELSE Stop(vol, "invalid"))

fs_ext4_read_file(th, arg, io, p, slash) ==
    Answers(th, Guarded(arg, io, AtPath(p, slash, ReadInto)))
fs_ext4_pread_ino(th, arg, io, h) ==
    arg # "toolong" /\ Answers(th, Guarded(arg, io, ReadInto(inode_ref(h))))

\* readlink_into: the target with its NUL has to fit.
ReadLink(i, room) ==
    IF vol.tab[i].kind # "link" THEN Stop(vol, "invalid")
    ELSE IF ~ room THEN Stop(vol, "range") ELSE vol

fs_ext4_readlink(th, arg, io, p, slash, room) ==
    Answers(th, Guarded(arg, io, AtPath(p, slash, LAMBDA r : ReadLink(r.ino, room))))
fs_ext4_readlink_ino(th, arg, io, h, room) ==
    /\ arg # "toolong"
    /\ Answers(th, Guarded(arg, io, LiveInode(inode_ref(h), LAMBDA i : ReadLink(i, room))))

fs_ext4_listxattr(th, arg, io, p, slash) ==
    Answers(th, Guarded(arg, io, AtPath(p, slash, LAMBDA r : vol)))
fs_ext4_getxattr(th, arg, io, p, slash, found) ==
    Answers(th, Guarded(arg, io, AtPath(p, slash, LAMBDA r :
                                     IF found THEN vol ELSE Stop(vol, "noattr"))))

\* dir_iter: all the entries, copied when the iterator is made.
dir_iter(d) ==
    LET names == SelectSeq(EntryOrder, LAMBDA n : find_entry(vol, d, n) # 0)
        inos  == [n \in Range(names) |-> find_entry(vol, d, n)]
    IN  [open |-> TRUE, entries |-> names, position |-> 0, given |-> <<>>, done |-> FALSE,
         dir |-> d, id |-> vol.tab[d].id, inos |-> inos, stable |-> Range(names)]

Opens(th, arg, io, t, d) ==
    LET u == Guarded(arg, io, t)
    IN  /\ ~ it.open
        /\ Ends(th, u)
        /\ it' = IF Fine(u) THEN dir_iter(d) ELSE it
        /\ UNCHANGED <<mode, dirty, pending, handles, counter>>

fs_ext4_dir_open(th, arg, io, p, slash) ==
    Opens(th, arg, io, AtPath(p, slash, LAMBDA r : LiveDir(r, Unchanged)),
          resolve(vol, p).ino)
fs_ext4_dir_open_ino(th, arg, io, h) ==
    arg # "toolong" /\ Opens(th, arg, io, LiveDir(inode_ref(h), Unchanged), h.ino)

\* Calls on an iterator do not touch the last error.
IterStep(next) ==
    /\ it.open
    /\ it' = next
    /\ UNCHANGED <<vol, counter, mount, err, handles, ops>>

\* Mutation: the directory is read as it is now.
DirNextLive ==
    LET now == SelectSeq(EntryOrder, LAMBDA n :
                   it.dir \in vol.bits /\ find_entry(vol, it.dir, n) # 0)
    IN  IterStep(IF it.position >= Len(now) THEN [it EXCEPT !.done = TRUE]
                     ELSE [it EXCEPT !.position = @ + 1, !.given = Append(@, now[it.position + 1])])

fs_ext4_dir_next ==
    IterStep(IF it.position >= Len(it.entries) THEN [it EXCEPT !.done = TRUE]
                 ELSE [it EXCEPT !.position = @ + 1,
                                 !.given = Append(@, it.entries[it.position + 1])])

fs_ext4_dir_close == IterStep(NoIter)

----------------------------------------------------------------------------
(* Changing inodes *)

\* A write of content: refused, or the file has b blocks after it.
Written(i, b, dirs) ==
    IF IsDir(vol, i) THEN Stop(vol, dirs)
    ELSE IF vol.tab[i].kind # "file" THEN Stop(vol, "invalid") ELSE Resized(vol, i, b)

fs_ext4_truncate(th, arg, io, p, slash, b) ==
    Answers(th, Guarded(arg, io, AtPath(p, slash, LAMBDA r :
        write_refusal(LiveInode(r, LAMBDA i : Written(i, b, "isdir"))))))
fs_ext4_truncate_ino(th, arg, io, h, b) ==
    /\ arg = "ok"
    /\ Answers(th, Writing(arg, io, LiveInode(inode_ref(h), LAMBDA i :
           Written(i, b, "isdir"))))

\* flags: a mode that is served, PUNCH_HOLE alone, or another combination.
fs_ext4_fallocate(th, arg, io, p, slash, flags, b) ==
    Answers(th, Guarded(arg, io, AtPath(p, slash, LAMBDA r :
        CASE flags = "served" -> write_refusal(Written(r.ino, b, "invalid"))
          [] flags = "punch"  -> Stop(vol, "invalid")
          [] OTHER            -> Stop(vol, "nosys"))))

fs_ext4_write_file(th, arg, io, p, slash, b) ==
    Answers(th, Guarded(arg, io, AtPath(p, slash, LAMBDA r :
        IF vol.tab[r.ino].kind # "file" THEN Written(r.ino, b, "isdir")
        ELSE write_refusal(Written(r.ino, b, "isdir")))))

fs_ext4_pwrite(th, arg, io, p, b) ==
    Answers(th, Writing(arg, io, At(p, LAMBDA r : LiveInode(r, LAMBDA i :
        Written(i, b, "invalid")))))
fs_ext4_pwrite_ino(th, arg, io, h, b) ==
    /\ arg # "toolong"
    /\ Answers(th, Writing(arg, io, LiveInode(inode_ref(h), LAMBDA i :
           Written(i, b, "invalid"))))

\* Mode, owner, flags and times are Attributes'; here these calls only find
\* the inode.
MetaAt(th, arg, io, p) ==
    Answers(th, Writing(arg, io, At(p, LAMBDA r : LiveInode(r, Unchanged))))
MetaIno(th, io, h) ==
    Answers(th, Writing("ok", io, LiveInode(inode_ref(h), Unchanged)))

fs_ext4_chmod(th, arg, io, p) == MetaAt(th, arg, io, p)
fs_ext4_chown(th, arg, io, p) == MetaAt(th, arg, io, p)
fs_ext4_utimens(th, arg, io, p) == MetaAt(th, arg, io, p)
fs_ext4_chmod_ino(th, io, h) == MetaIno(th, io, h)
fs_ext4_chown_ino(th, io, h) == MetaIno(th, io, h)
fs_ext4_utimens_ino(th, io, h) == MetaIno(th, io, h)

\* Flags that the driver manages may not change.
fs_ext4_set_flags(th, arg, io, p, managed) ==
    Answers(th, Writing(arg, io, At(p, LAMBDA r :
        IF managed THEN Stop(vol, "invalid") ELSE vol)))

fs_ext4_setxattr(th, arg, io, p) ==
    \E x \in AttrBlocks(resolve(vol, p).ino) :
        Answers(th, Writing(arg, io, At(p, LAMBDA r : AttrMoved(r.ino, x))))
fs_ext4_removexattr(th, arg, io, p, found) ==
    \E x \in AttrBlocks(resolve(vol, p).ino) :
        /\ vol.tab[resolve(vol, p).ino].acl = 0 => x = 0
        /\ Answers(th, Writing(arg, io, At(p, LAMBDA r :
               IF found THEN AttrMoved(r.ino, x) ELSE Stop(vol, "notfound"))))

----------------------------------------------------------------------------
(* Changing names *)

\* A call that makes an inode has used a generation, even if it fails later.
Makes(th, t) ==
    Returns(th, t) /\ counter' = (IF t.bad \in {"ok", "nospace"} THEN counter + 1 ELSE counter)

MakesAt(th, arg, io, p, New(_)) ==
    Makes(th, Writing(arg, io, At(p, New))) /\ UNCHANGED handles

\* attr_out of the calls by handle, after the commit: the caller did not ask,
\* or may keep the new inode's handle, or the inode could not be read.
AttrOut(th, t, i, attr) ==
    IF attr = "lost" /\ Fine(t)
    THEN /\ Begun
         /\ vol' = t
         /\ err' = LastErrno(th, to_errno("io"))
         /\ it' = Watched(t)
         /\ UNCHANGED <<handles, mount>>
    ELSE Returns(th, t) /\ IF attr = "given" THEN MayKeep(t, i) ELSE UNCHANGED handles

MakesIno(th, arg, io, h, n, attr, New(_)) ==
    LET r == inode_ref(h)
        t == Writing(arg, io, New(r))
    IN  /\ AttrOut(th, t, IF Fine(t) THEN t.ents[r.ino][n] ELSE 0, attr)
        /\ counter' = IF t.bad \in {"ok", "nospace"} THEN counter + 1 ELSE counter

fs_ext4_create(th, arg, io, p, n, grow) ==
    MakesAt(th, arg, io, p, LAMBDA r : CreateStaged(r, n, grow))
fs_ext4_mknod(th, arg, io, p, n, grow) ==
    MakesAt(th, arg, io, p, LAMBDA r : MknodStaged(r, n, grow))
fs_ext4_symlink(th, arg, io, p, n, blocks, grow) ==
    MakesAt(th, arg, io, p, LAMBDA r : SymlinkStaged(r, n, blocks, grow))
fs_ext4_mkdir(th, arg, io, p, n, grow) ==
    MakesAt(th, arg, io, p, LAMBDA r : MkdirStaged(r, n, grow))

fs_ext4_create_at(th, arg, io, h, n, grow, attr) ==
    MakesIno(th, arg, io, h, n, attr, LAMBDA r : CreateStaged(r, n, grow))
fs_ext4_mknod_at(th, arg, io, h, n, grow, attr) ==
    MakesIno(th, arg, io, h, n, attr, LAMBDA r : MknodStaged(r, n, grow))
fs_ext4_symlink_at(th, arg, io, h, n, blocks, grow, attr) ==
    MakesIno(th, arg, io, h, n, attr, LAMBDA r : SymlinkStaged(r, n, blocks, grow))
fs_ext4_mkdir_at(th, arg, io, h, n, grow, attr) ==
    MakesIno(th, arg, io, h, n, attr, LAMBDA r : MkdirStaged(r, n, grow))

\* apply_link_bytes: a directory is refused before the destination is looked at.
fs_ext4_link(th, arg, io, q, p, n, grow) ==
    Answers(th, Writing(arg, io, At(q, LAMBDA s :
        IF live_inode(vol, s) /\ IsDir(vol, s.ino) THEN Stop(vol, "isdir")
        ELSE At(p, LAMBDA r : LinkStaged(s, r, n, grow)))))
fs_ext4_link_at(th, arg, io, g, h, n, grow, attr) ==
    LET t == Writing(arg, io, LinkStaged(inode_ref(g), inode_ref(h), n, grow))
    IN  AttrOut(th, t, g.ino, attr) /\ UNCHANGED counter

fs_ext4_unlink(th, arg, io, p, n, slash) ==
    Answers(th, Writing(arg, io, At(p, LAMBDA r : UnlinkStaged(r, n, slash))))
fs_ext4_unlink_at(th, arg, io, h, n) ==
    Answers(th, Writing(arg, io, UnlinkStaged(inode_ref(h), n, FALSE)))

fs_ext4_rmdir(th, arg, io, p, n) ==
    Answers(th, Writing(arg, io, At(p, LAMBDA r : RmdirStaged(r, n))))
fs_ext4_rmdir_at(th, arg, io, h, n) ==
    Answers(th, Writing(arg, io, RmdirStaged(inode_ref(h), n)))

Renames(th, arg, io, p, sn, q, dn, replace, grow) ==
    Answers(th, Writing(arg, io, At(p, LAMBDA a : At(q, LAMBDA b :
        RenameStaged(a, sn, b, dn, replace, grow)))))

fs_ext4_rename(th, arg, io, p, sn, q, dn, grow) == Renames(th, arg, io, p, sn, q, dn, FALSE, grow)

\* rename_flags: only REPLACE is known; other bits are an invalid argument.
fs_ext4_rename2(th, arg, io, p, sn, q, dn, replace, grow) ==
    Renames(th, arg, io, p, sn, q, dn, replace, grow)
fs_ext4_rename_at(th, arg, io, g, sn, h, dn, replace, grow) ==
    Answers(th, Writing(arg, io,
        RenameStaged(inode_ref(g), sn, inode_ref(h), dn, replace, grow)))

----------------------------------------------------------------------------
(* Steps *)

\* What a caller passes for an inode: a handle it holds, or a bare number.
Held == handles \cup { [ino |-> i, gen |-> GenMod - 1, id |-> 0] : i \in {0, 1, Root} }

\* Ways a call meets its arguments and the device.
Faults == { <<"ok", FALSE>>, <<"ok", TRUE>>, <<"invalid", FALSE>>, <<"toolong", FALSE>> }

AllNames == Names \cup {".."}

\* A call that fails before it looks at the rest is tried with one choice of it.
Of(S, arg, io) == IF arg = "ok" /\ ~ io THEN S ELSE {CHOOSE x \in S : TRUE}

MountCalls(th, arg, io) ==
    \/ fs_ext4_mount(th, arg, io)
    \/ fs_ext4_mount_rw(th, arg, io)
    \/ mount_with_callbacks_inner(th, arg, io)
    \/ mount_rw_with_callbacks_inner(th, arg, io)
    \/ mount_rw_with_callbacks_lazy_inner(th, arg, io)
    \/ mount_fs_core_handle(th, arg, io)

VolumeCalls(th, arg, io) ==
    LET B == Of(BOOLEAN, arg, io)
    IN  \/ \E late \in B : fs_ext4_replay_journal_if_dirty(th, arg, io, late)
        \/ fs_ext4_flush(th, arg, io)
        \/ fs_ext4_fresh_read(th, arg, io)
        \/ fs_ext4_get_volume_info(th, arg, io)
        \/ fs_ext4_set_volume_label(th, arg, io)
        \/ \E replay, repair \in BOOLEAN, late \in B :
             fs_ext4_fsck_run(th, arg, io, replay, repair, late)

ReadCalls(th, arg, io) ==
    LET P == Of(Paths, arg, io)
        H == Of(Held, arg, io)
        N == Of(AllNames, arg, io)
        B == Of(BOOLEAN, arg, io)
    IN  \/ \E p \in P, slash \in B :
             \/ fs_ext4_stat(th, arg, io, p, slash)
             \/ fs_ext4_read_file(th, arg, io, p, slash)
             \/ fs_ext4_listxattr(th, arg, io, p, slash)
             \/ fs_ext4_dir_open(th, arg, io, p, slash)
             \/ \E room \in B : fs_ext4_readlink(th, arg, io, p, slash, room)
             \/ \E found \in B : fs_ext4_getxattr(th, arg, io, p, slash, found)
        \/ \E h \in H :
             \/ fs_ext4_stat_ino(th, arg, io, h)
             \/ \E n \in N : fs_ext4_lookup_at(th, arg, io, h, n)
             \/ fs_ext4_pread_ino(th, arg, io, h)
             \/ fs_ext4_dir_open_ino(th, arg, io, h)
             \/ \E room \in B : fs_ext4_readlink_ino(th, arg, io, h, room)

InodeCalls(th, arg, io) ==
    LET P == Of(Paths, arg, io)
        H == Of(Held, arg, io)
        S == Of(Sizes, arg, io)
        B == Of(BOOLEAN, arg, io)
    IN  \/ \E p \in P :
             \/ \E slash \in B, b \in S : fs_ext4_truncate(th, arg, io, p, slash, b)
             \/ \E slash \in B, b \in S, flags \in {"served", "punch", "other"} :
                  fs_ext4_fallocate(th, arg, io, p, slash, flags, b)
             \/ \E slash \in B, b \in S : fs_ext4_write_file(th, arg, io, p, slash, b)
             \/ \E b \in S : fs_ext4_pwrite(th, arg, io, p, b)
             \/ fs_ext4_chmod(th, arg, io, p)
             \/ fs_ext4_chown(th, arg, io, p)
             \/ fs_ext4_utimens(th, arg, io, p)
             \/ \E managed \in B : fs_ext4_set_flags(th, arg, io, p, managed)
             \/ fs_ext4_setxattr(th, arg, io, p)
             \/ \E found \in B : fs_ext4_removexattr(th, arg, io, p, found)
        \/ \E h \in H :
             \/ \E b \in S : fs_ext4_truncate_ino(th, arg, io, h, b)
             \/ \E b \in S : fs_ext4_pwrite_ino(th, arg, io, h, b)
             \/ arg = "ok" /\ fs_ext4_chmod_ino(th, io, h)
             \/ arg = "ok" /\ fs_ext4_chown_ino(th, io, h)
             \/ arg = "ok" /\ fs_ext4_utimens_ino(th, io, h)

NameCalls(th, arg, io) ==
    LET P == Of(Paths, arg, io)
        N == Of(AllNames, arg, io)
        G == Of(Grows, arg, io)
        B == Of(BOOLEAN, arg, io)
    IN  \/ \E p \in P, n \in N :
             \/ \E grow \in G : fs_ext4_create(th, arg, io, p, n, grow)
             \/ \E grow \in G : fs_ext4_mknod(th, arg, io, p, n, grow)
             \/ \E blocks \in {0, 1}, grow \in G : fs_ext4_symlink(th, arg, io, p, n, blocks, grow)
             \/ \E grow \in G : fs_ext4_mkdir(th, arg, io, p, n, grow)
             \/ \E q \in P, grow \in G : n \in Names /\ fs_ext4_link(th, arg, io, q, p, n, grow)
             \/ \E slash \in B : fs_ext4_unlink(th, arg, io, p, n, slash)
             \/ fs_ext4_rmdir(th, arg, io, p, n)
        \/ \E p, q \in P, sn \in Names, dn \in N, grow \in G :
             \/ fs_ext4_rename(th, arg, io, p, sn, q, dn, grow)
             \/ \E replace \in B : fs_ext4_rename2(th, arg, io, p, sn, q, dn, replace, grow)

NameCallsAt(th, arg, io) ==
    LET H == Of(Held, arg, io)
        N == Of(AllNames, arg, io)
        G == Of(Grows, arg, io)
        B == Of(BOOLEAN, arg, io)
    IN  \/ \E h \in H, n \in N :
             \/ \E grow \in G, attr \in {"null", "given", "lost"} :
                  \/ fs_ext4_create_at(th, arg, io, h, n, grow, attr)
                  \/ fs_ext4_mknod_at(th, arg, io, h, n, grow, attr)
                  \/ \E blocks \in {0, 1} :
                       fs_ext4_symlink_at(th, arg, io, h, n, blocks, grow, attr)
                  \/ fs_ext4_mkdir_at(th, arg, io, h, n, grow, attr)
                  \/ \E g \in H : n \in Names /\ fs_ext4_link_at(th, arg, io, g, h, n, grow, attr)
             \/ fs_ext4_unlink_at(th, arg, io, h, n)
             \/ fs_ext4_rmdir_at(th, arg, io, h, n)
        \/ \E g, h \in H, sn \in Names, dn \in N, replace \in B, grow \in G :
             fs_ext4_rename_at(th, arg, io, g, sn, h, dn, replace, grow)

Init ==
    /\ vol \in VolStarts /\ counter = 1
    /\ handles \in {{}} \cup { { Handle(vol, i) } : i \in Live \cap Kept }
    /\ ops = 0
    /\ mode = "none" /\ dirty \in BOOLEAN /\ pending = FALSE /\ mounts = 0
    /\ err = [th \in Threads |-> "0"]
    /\ it = NoIter

Next ==
    \/ \E th \in Threads, f \in Faults :
         \/ MountCalls(th, f[1], f[2])
         \/ /\ mode # "none"
            /\ \/ VolumeCalls(th, f[1], f[2])
               \/ ReadCalls(th, f[1], f[2])
               \/ InodeCalls(th, f[1], f[2])
               \/ NameCalls(th, f[1], f[2])
               \/ NameCallsAt(th, f[1], f[2])
    \/ TurnsWritable
    \/ fs_ext4_umount
    \/ fs_ext4_dir_next
    \/ fs_ext4_dir_close

Spec == Init /\ [][Next]_vars

----------------------------------------------------------------------------
(* Properties *)

\* No call changes the volume while its log holds transactions that are not at
\* home: each would plan on blocks the log is about to replace.  However the
\* volume was mounted, whether its device could be written then or only since,
\* and whatever a replay or a check that failed on the way left behind.
UnreplayedUntouched == [][dirty => vol' = vol]_vars

\* The generations this process has given out.
Issued == { next_inode_generation(c) : c \in 1 .. counter - 1 }

\* A file that was there before this process.
Earlier(h) == \E v \in VolStarts : h.id < v.next

\* A handle works as long as its file exists: it survives renames, links and
\* the loss of the name it was found by.  It is refused once the file is freed,
\* and reaches no file that was given the same inode, with one exception: the
\* file was made by an earlier process, and the counter of this one has come to
\* the generation it had (next_inode_generation starts at the process id).
HandleExact ==
    \A h \in handles :
        LET there == h.ino \in Live /\ vol.tab[h.ino].id = h.id
        IN  /\ there => live_inode(vol, inode_ref(h))
            /\ live_inode(vol, inode_ref(h)) => there \/ (Earlier(h) /\ h.gen \in Issued)

\* An iterator that has reached its end has given every name that stayed in
\* the directory exactly once, and no name twice, whatever was created,
\* removed or renamed there meanwhile, the mount included.
ListingComplete ==
    it.open /\ it.done =>
        /\ it.stable \subseteq Range(it.given)
        /\ Cardinality(Range(it.given)) = Len(it.given)
=============================================================================
