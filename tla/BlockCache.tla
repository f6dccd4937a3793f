----------------------------- MODULE BlockCache ------------------------------
(***************************************************************************)
(* The buffer cache every read and write of a mount goes through:          *)
(* CachedDevice (block_cache.rs), with the three ways a mount drives it:   *)
(* replay_into_cache on a read-only device (journal_apply.rs), the later   *)
(* replay_journal_if_dirty, and fresh_read (fs.rs).                        *)
(*                                                                         *)
(* The cache's mutex covers the maps and not the inner device, so a call   *)
(* is several steps: a miss looks up, reads the device and fills; a write  *)
(* writes the device and then updates the maps.  The calls that take       *)
(* &mut self run alone.  A block image has two halves, so that a write of  *)
(* part of a block (the superblock's 1024 bytes, one inode) is seen.       *)
(***************************************************************************)
EXTENDS Naturals, Sequences, FiniteSets

CONSTANTS
  Block,     \* blocks
  Val,       \* what half a block holds
  Readers,   \* threads that read
  Writers,   \* threads that read and write, once the mount is writable
  Capacity,  \* clean blocks kept
  SBlock,    \* the block whose first half holds the superblock
  Logged     \* what the dirty journal holds: [blk, img] in log order

Half == {1, 2}
Img == [Half -> Val]
Proc == Readers \cup Writers

ASSUME CacheAssumption ==
  /\ Capacity \in Nat
  /\ SBlock \in Block
  /\ Logged \in Seq([blk : Block, img : Img])

VARIABLES
  dev,     \* the inner device
  clean,   \* CacheState.entries, by block
  order,   \* their blocks, least recently used first (the entries' seq)
  pinned,  \* CacheState.pinned
  mode,    \* how far the mount is: "pin", "ro", "replay", "unmark", "unpin", "rw"
  k,       \* loop index over Logged
  th,      \* what each thread's call has got to
  truth    \* ghost: what was last replayed or written, block by block

vars == <<dev, clean, order, pinned, mode, k, th, truth>>

Members(s) == {s[j] : j \in 1..Len(s)}

\* s, which names no block twice, without b.
Without(s, b) ==
  IF b \in Members(s)
  THEN LET j == CHOOSE j \in 1..Len(s) : s[j] = b
       IN  SubSeq(s, 1, j - 1) \o SubSeq(s, j + 1, Len(s))
  ELSE s

Idle == [op |-> "idle"]

Alone == \A p \in Proc : th[p] = Idle

-----------------------------------------------------------------------------
(* CacheState. *)

\* get: a hit on a clean entry makes it the most recently used.
Touch(b) == order' = IF b \in DOMAIN clean THEN Append(Without(order, b), b) ELSE order

\* put makes room before it looks whether b has an entry: the least recently
\* used one goes.
Room == IF Len(order) >= Capacity THEN Tail(order) ELSE order

\* A pinned block's bytes are replaced; otherwise b becomes the newest entry.
Put(b, img) ==
  IF b \in DOMAIN pinned
  THEN /\ pinned' = [pinned EXCEPT ![b] = img]
       /\ UNCHANGED <<clean, order>>
  ELSE IF Capacity = 0
  THEN UNCHANGED <<clean, order, pinned>>
  ELSE /\ order' = Append(Without(Room, b), b)
       /\ clean' = [c \in Members(Room) \cup {b} |-> IF c = b THEN img ELSE clean[c]]
       /\ UNCHANGED pinned

\* Mutation: the entry of a block that was written in part stays.
DropNothing(b) == UNCHANGED <<clean, order>>

Drop(b) ==
  /\ order' = Without(order, b)
  /\ clean' = [c \in DOMAIN clean \ {b} |-> clean[c]]

\* pin: the clean entry goes, the pinned image comes.
Pin(b, img) ==
  /\ Drop(b)
  /\ pinned' = [c \in DOMAIN pinned \cup {b} |-> IF c = b THEN img ELSE pinned[c]]

\* unpin_all moves the pinned blocks into the clean entries, in the map's
\* order; the last ones push out the first when there are too many.
UnpinAll ==
  \E s \in {s \in [1 .. Cardinality(DOMAIN pinned) -> DOMAIN pinned] :
              Members(s) = DOMAIN pinned} :
    LET all  == order \o s
        from == IF Len(all) > Capacity THEN Len(all) - Capacity + 1 ELSE 1
        kept == SubSeq(all, from, Len(all))
    IN  /\ order' = kept
        /\ clean' = [c \in Members(kept) |-> IF c \in DOMAIN pinned THEN pinned[c] ELSE clean[c]]
        /\ pinned' = [c \in {} |-> Idle]

-----------------------------------------------------------------------------
(* CachedDevice::read_at and write_at. *)

\* A single-block read looks the block up; a hit returns.
Read(p, b) ==
  /\ th[p] = Idle /\ mode \in {"ro", "rw"}
  /\ IF b \in DOMAIN pinned
     THEN UNCHANGED <<order, th>>
     ELSE /\ Touch(b)
          /\ th' = [th EXCEPT ![p] = IF b \in DOMAIN clean THEN Idle
                                     ELSE [op |-> "miss", blk |-> b]]
  /\ UNCHANGED <<dev, clean, pinned, mode, k, truth>>

\* A miss reads the device without the lock,
ReadInner(p) ==
  /\ th[p].op = "miss"
  /\ th' = [th EXCEPT ![p] = [op |-> "put", blk |-> th[p].blk, img |-> dev[th[p].blk]]]
  /\ UNCHANGED <<dev, clean, order, pinned, mode, k, truth>>

\* and fills the cache under it; so does a full-block write, after the device.
FillOrUpdate(p) ==
  /\ th[p].op = "put"
  /\ Put(th[p].blk, th[p].img)
  /\ th' = [th EXCEPT ![p] = Idle]
  /\ UNCHANGED <<dev, mode, k, truth>>

\* A write of one whole block goes to the device first.
WriteFull(p, b, img) ==
  /\ th[p] = Idle /\ p \in Writers /\ mode = "rw"
  /\ dev' = [dev EXCEPT ![b] = img]
  /\ truth' = [truth EXCEPT ![b] = img]
  /\ th' = [th EXCEPT ![p] = [op |-> "put", blk |-> b, img |-> img]]
  /\ UNCHANGED <<clean, order, pinned, mode, k>>

\* So does a write of part of one.
WritePart(p, b, h, v) ==
  /\ th[p] = Idle /\ p \in Writers /\ mode = "rw"
  /\ dev' = [dev EXCEPT ![b][h] = v]
  /\ truth' = [truth EXCEPT ![b][h] = v]
  /\ th' = [th EXCEPT ![p] = [op |-> "part", blk |-> b, half |-> h, val |-> v]]
  /\ UNCHANGED <<clean, order, pinned, mode, k>>

\* Mutation: a pinned image does not take the bytes of a partial write.
OverlayNothing(b, h, v) == UNCHANGED pinned

\* A partial write is laid over a pinned image, and a clean one is dropped.
OverlayPinned(b, h, v) ==
  pinned' = IF b \in DOMAIN pinned THEN [pinned EXCEPT ![b][h] = v] ELSE pinned

UpdatePart(p) ==
  /\ th[p].op = "part"
  /\ OverlayPinned(th[p].blk, th[p].half, th[p].val)
  /\ Drop(th[p].blk)
  /\ th' = [th EXCEPT ![p] = Idle]
  /\ UNCHANGED <<dev, mode, k, truth>>

-----------------------------------------------------------------------------
(* The mount. *)

\* A read-only mount pins what the journal holds, in log order
\* (replay_into_cache).
PinLogged ==
  /\ mode = "pin"
  /\ IF k <= Len(Logged)
     THEN /\ Pin(Logged[k].blk, Logged[k].img)
          /\ truth' = [truth EXCEPT ![Logged[k].blk] = Logged[k].img]
          /\ k' = k + 1
          /\ UNCHANGED mode
     ELSE /\ mode' = "ro"
          /\ UNCHANGED <<clean, order, pinned, truth, k>>
  /\ UNCHANGED <<dev, th>>

\* The device has become writable: replay_journal_if_dirty.
StartReplay ==
  /\ mode = "ro" /\ Alone
  /\ mode' = "replay"
  /\ k' = 1
  /\ UNCHANGED <<dev, clean, order, pinned, th, truth>>

\* apply writes each block to its place, through the cache.
ReplayWrite ==
  /\ mode = "replay"
  /\ IF k <= Len(Logged)
     THEN /\ dev' = [dev EXCEPT ![Logged[k].blk] = Logged[k].img]
          /\ Put(Logged[k].blk, Logged[k].img)
          /\ k' = k + 1
          /\ UNCHANGED mode
     ELSE /\ mode' = "unmark"
          /\ UNCHANGED <<dev, clean, order, pinned, k>>
  /\ UNCHANGED <<th, truth>>

\* Then RECOVER is cleared in the superblock (write_needs_recovery), and the
\* pinned blocks, now on the device, are released.
ReplayDone(v) ==
  /\ mode = "unmark"
  /\ dev' = [dev EXCEPT ![SBlock][1] = v]
  /\ truth' = [truth EXCEPT ![SBlock][1] = v]
  /\ OverlayPinned(SBlock, 1, v)
  /\ Drop(SBlock)
  /\ mode' = "unpin"
  /\ UNCHANGED <<k, th>>

ReplayUnpin ==
  /\ mode = "unpin"
  /\ UnpinAll
  /\ mode' = "rw"
  /\ UNCHANGED <<dev, k, th, truth>>

\* A device error ends the replay, whether or not the write it ended had
\* landed; the handle stays as it was, its blocks pinned and its writes
\* refused (replay_pending).
ReplayError ==
  /\ mode \in {"replay", "unmark"}
  /\ mode' = "ro"
  /\ \/ UNCHANGED dev
     \/ k <= Len(Logged) /\ dev' = [dev EXCEPT ![Logged[k].blk] = Logged[k].img]
  /\ UNCHANGED <<clean, order, pinned, k, th, truth>>

\* Mutation: the pinned blocks are released whether or not there is a writer.
FreshReadAlways ==
  /\ mode \in {"ro", "rw"} /\ Alone
  /\ clean' = [c \in {} |-> Idle]
  /\ order' = <<>>
  /\ pinned' = [c \in {} |-> Idle]
  /\ UNCHANGED <<dev, mode, k, th, truth>>

\* fresh_read: with a journal writer the blocks are unpinned and every entry is
\* dropped; without one invalidate_cache refuses while any block is pinned.
FreshRead ==
  /\ mode \in {"ro", "rw"} /\ Alone
  /\ mode = "rw" \/ DOMAIN pinned = {}
  /\ clean' = [c \in {} |-> Idle]
  /\ order' = <<>>
  /\ pinned' = [c \in {} |-> Idle]
  /\ UNCHANGED <<dev, mode, k, th, truth>>

\* A mount of a writable device has replayed before anything else; one of a
\* read-only device is about to replay into the cache.  Finding the journal
\* has cached at most the block that holds its inode.
Init ==
  /\ \E v \in Val : dev = [b \in Block |-> [h \in Half |-> v]]
  /\ \/ clean = [c \in {} |-> Idle] /\ order = <<>>
     \/ Capacity > 0 /\ \E b \in Block : clean = [c \in {b} |-> dev[b]] /\ order = <<b>>
  /\ pinned = [c \in {} |-> Idle]
  /\ mode \in {"pin", "rw"}
  /\ k = 1
  /\ th = [p \in Proc |-> Idle]
  /\ truth = dev

Next ==
  \/ \E p \in Proc, b \in Block : Read(p, b)
  \/ \E p \in Proc : ReadInner(p) \/ FillOrUpdate(p) \/ UpdatePart(p)
  \/ \E p \in Proc, b \in Block, img \in Img : WriteFull(p, b, img)
  \/ \E p \in Proc, b \in Block, h \in Half, v \in Val : WritePart(p, b, h, v)
  \/ PinLogged \/ StartReplay \/ ReplayWrite
  \/ \E v \in Val : ReplayDone(v)
  \/ ReplayUnpin \/ ReplayError \/ FreshRead

Spec == Init /\ [][Next]_vars

-----------------------------------------------------------------------------
(* Properties. *)

\* No call is between the device and the cache on b.
Settled(b) == \A p \in Proc : th[p].op \in {"put", "part"} => th[p].blk # b

\* "Clean LRU entries match disk by construction" (block_cache.rs): an entry no
\* call is about to update is what the device holds.  The entries are the blocks
\* in use order, no more than the capacity, and no block is both clean and pinned.
CleanMatchesDisk ==
  /\ \A b \in DOMAIN clean : Settled(b) => clean[b] = dev[b]
  /\ Members(order) = DOMAIN clean /\ DOMAIN clean \cap DOMAIN pinned = {}
  /\ Len(order) = Cardinality(DOMAIN clean) /\ Len(order) <= Capacity

\* What read_at returns for b: alone, and inside a read of several blocks.
View(b) == IF b \in DOMAIN pinned THEN pinned[b] ELSE IF b \in DOMAIN clean THEN clean[b] ELSE dev[b]
MultiView(b) == IF b \in DOMAIN pinned THEN pinned[b] ELSE dev[b]

\* A read of a mounted volume sees the journal's committed bytes and every
\* finished write, whichever way it goes: through a pin, an entry, or past the
\* cache ("reads see the committed state", replay_into_cache).
ReadsAreCurrent ==
  mode \in {"ro", "rw"} => \A b \in Block : Settled(b) => View(b) = truth[b] /\ MultiView(b) = truth[b]

\* A pinned block is the only copy outside the log: it is let go only when the
\* device holds its bytes ("NEVER evicted", CacheState).
PinnedUntilDurable ==
  [][\A b \in DOMAIN pinned \ DOMAIN pinned' : dev'[b] = truth[b]]_vars
=============================================================================
