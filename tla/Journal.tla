------------------------------- MODULE Journal -------------------------------
(***************************************************************************)
(* The journaled commit and the mount-time replay that recovers from its   *)
(* interruption: JournalWriter::commit (journal_writer.rs), the log walk   *)
(* (journal.rs) and the replay (journal_apply.rs), over a device with a    *)
(* volatile write cache.                                                   *)
(*                                                                         *)
(* vol is what a read of the device returns, disk what survives a crash.   *)
(* A write changes vol; a flush copies vol to disk; between flushes the    *)
(* device writes any block back at any time.  Block writes are atomic.     *)
(*                                                                         *)
(* The log is one this driver wrote: it has no revoke records (nothing     *)
(* calls add_revoke) and its journal declares no checksums.  Data blocks   *)
(* never parse as headers (transaction.rs escapes them).                   *)
(***************************************************************************)
EXTENDS Naturals, Sequences

CONSTANTS
  Block,        \* filesystem blocks
  SB,           \* the block that holds the primary superblock
  Val,          \* block contents, the RECOVER flag of the superblock apart
  Starts,       \* what the volume may hold when it is first mounted
  Txs,          \* the BlockBuffers callers commit: [blk, val] in block order
  MaxLen,       \* s_maxlen: journal blocks, the journal superblock included
  TagsPerDesc,  \* Transaction::tags_per_descriptor
  Settled,      \* TRUE: a replay starts on a device with nothing left to
                \* write back, the assumption the replay rests on
  MaxSeq,       \* bound: the last sequence a transaction may be begun with
  MaxFaults     \* bound: crashes and I/O errors

Slot == 1 .. MaxLen - 1

\* A block image.  rec is INCOMPAT_RECOVER in the superblock's block, FALSE
\* and unused in every other.
Content == [data : Val, rec : BOOLEAN]

ASSUME JournalAssumption ==
  /\ Block \subseteq Nat
  /\ SB \in Block
  /\ MaxLen \in Nat /\ MaxLen > 1
  /\ TagsPerDesc \in Nat \ {0}
  /\ Settled \in BOOLEAN
  /\ MaxSeq \in Nat
  /\ MaxFaults \in Nat
  /\ Val # {}
  /\ Starts \subseteq [Block -> Val]

\* BlockBuffer.dirty is a BTreeMap: blocks in order, each once.
ASSUME TxsAssumption ==
  \A w \in Txs :
    /\ w \in Seq([blk : Block, val : Val])
    /\ Len(w) > 0
    /\ \A j, k \in 1..Len(w) : j < k => w[j].blk < w[k].blk

VARIABLES
  disk,     \* durable image: [home, jsb, log]
  vol,      \* the image reads see
  pc,       \* what the one mutator or the mount is doing
  healthy,  \* JournalWriter.healthy; FALSE while there is no writer
  hold,     \* JournalWriter.hold_needs_recovery (a checked mount)
  live,     \* the replay running was asked for on a mounted handle
  marked,   \* Filesystem.marked_not_clean
  jw,       \* JournalWriter.jsb: the cursor [start, seq]
  tx,       \* the transaction committing, or in doubt until the next mount
  blocks,   \* its serialisation (Transaction::commit_for)
  i,        \* loop index of the commit's and the replay's write loops
  rp,       \* the walk's locals and ReplayPlan
  outcome,  \* what the caller knows of its last commit
  faults    \* crashes and I/O errors so far

vars == <<disk, vol, pc, healthy, hold, live, marked, jw, tx, blocks, i, rp,
          outcome, faults>>

-----------------------------------------------------------------------------
\* The log format.

NoContent == [data |-> CHOOSE v \in Val : TRUE, rec |-> FALSE]

Descriptor(s, tags) == [kind |-> "desc",   seq |-> s, tags |-> tags, val |-> NoContent]
Commit(s)           == [kind |-> "commit", seq |-> s, tags |-> <<>>, val |-> NoContent]
Data(v)             == [kind |-> "data",   seq |-> 0, tags |-> <<>>, val |-> v]
Blank               == Data(NoContent)

Entry == [kind : {"desc", "commit", "data"}, seq : Nat, tags : Seq(Block), val : Content]

\* Descriptors a transaction of n writes needs: writes.chunks(tags_per_descriptor).
Chunks(n) == (n + TagsPerDesc - 1) \div TagsPerDesc

\* The blocks the c-th descriptor names, counting from 0.
ChunkTags(w, c) ==
  LET left == Len(w) - TagsPerDesc * c
  IN  [k \in 1 .. (IF left < TagsPerDesc THEN left ELSE TagsPerDesc) |->
         w[TagsPerDesc * c + k].blk]

\* [descriptor, its data blocks]* then the commit block.
Serialize(s, w) ==
  LET n == Len(w)
      T == TagsPerDesc
  IN  [p \in 1 .. n + Chunks(n) + 1 |->
        LET c == (p - 1) \div (T + 1)
            r == (p - 1) % (T + 1)
        IN  IF p = n + Chunks(n) + 1 THEN Commit(s)
            ELSE IF r = 0 THEN Descriptor(s, ChunkTags(w, c))
            ELSE Data(w[T * c + r].val)]

\* A staged buffer's block images: its superblock block was read from the
\* device when it was staged, RECOVER flag included.
Staged(w) ==
  [k \in 1..Len(w) |->
     [blk |-> w[k].blk,
      val |-> [data |-> w[k].val, rec |-> w[k].blk = SB /\ vol.home[SB].rec]]]

\* Mutation: the superblock's logged copy keeps the flag as it was staged.
PatchNothing(w) == w

\* commit_inner sets RECOVER in every copy of the superblock's block.
PatchRecover(w) ==
  [k \in 1..Len(w) |->
     [blk |-> w[k].blk,
      val |-> [data |-> w[k].val.data, rec |-> w[k].blk = SB \/ w[k].val.rec]]]

-----------------------------------------------------------------------------
\* The device.

WriteHome(b, v)  == vol' = [vol EXCEPT !.home[b] = v]
WriteLog(p, e)   == vol' = [vol EXCEPT !.log[p] = e]
WriteJsb(j)      == vol' = [vol EXCEPT !.jsb = j]
\* journal_apply::write_needs_recovery: a read-modify-write of the superblock.
WriteRecover(on) == vol' = [vol EXCEPT !.home[SB].rec = on]
Flush            == disk' = vol /\ UNCHANGED vol

Jsb == [start : 0..1, seq : Nat]

Image == [home : [Block -> Content], jsb : Jsb, log : [Slot -> Entry]]

NoPlan == [cur |-> 1, expect |-> 0, walked |-> 0, pending |-> <<>>, writes |-> <<>>]

\* A freshly formatted volume: clean journal, first transaction 1, not mounted.
Init ==
  /\ \E s \in Starts :
       disk = [home |-> [b \in Block |-> [data |-> s[b], rec |-> FALSE]],
               jsb  |-> [start |-> 0, seq |-> 1],
               log  |-> [p \in Slot |-> Blank]]
  /\ vol = disk
  /\ pc = "down"
  /\ healthy = FALSE
  /\ hold = FALSE
  /\ live = FALSE
  /\ marked = FALSE
  /\ jw = [start |-> 0, seq |-> 1]
  /\ tx = <<>>
  /\ blocks = <<>>
  /\ i = 1
  /\ rp = NoPlan
  /\ outcome = "none"
  /\ faults = 0
-----------------------------------------------------------------------------
(* JournalWriter::commit, one device operation a step. *)

\* The first mutation of a mount clears EXT4_VALID_FS: a superblock write and
\* a flush (Filesystem::mark_not_clean_once).
MarkNotClean ==
  /\ pc = "up" /\ ~marked
  /\ marked' = TRUE
  /\ Flush
  /\ UNCHANGED <<pc, healthy, hold, live, jw, tx, blocks, i, rp, outcome, faults>>

\* begin, the checks of commit_inner that precede its first write, and the
\* unhealthy mark that stands until the last fence.  A transaction too large
\* for the journal is refused with nothing changed.
Begin(w) ==
  /\ pc = "up" /\ marked /\ healthy
  /\ jw.seq <= MaxSeq
  /\ Len(Serialize(jw.seq, w)) <= MaxLen - 1
  /\ tx' = PatchRecover(Staged(w))
  /\ blocks' = Serialize(jw.seq, tx')
  /\ healthy' = FALSE
  /\ i' = 1
  /\ pc' = "log"
  /\ outcome' = "busy"
  /\ UNCHANGED <<disk, vol, hold, live, marked, jw, rp, faults>>

\* Step 1: the transaction's blocks to journal blocks 1, 2, ...; RECOVER.
LogBlock ==
  /\ pc = "log"
  /\ WriteLog(i, blocks[i])
  /\ i' = i + 1
  /\ pc' = IF i = Len(blocks) THEN "recover" ELSE "log"
  /\ UNCHANGED <<disk, healthy, hold, live, marked, jw, tx, blocks, rp, outcome, faults>>

SetRecover ==
  /\ pc = "recover"
  /\ WriteRecover(TRUE)
  /\ pc' = "fence1"
  /\ UNCHANGED <<disk, healthy, hold, live, marked, jw, tx, blocks, i, rp, outcome, faults>>

Fence1 ==
  /\ pc = "fence1"
  /\ Flush
  /\ pc' = "dirty"
  /\ UNCHANGED <<healthy, hold, live, marked, jw, tx, blocks, i, rp, outcome, faults>>

\* Step 2: the journal becomes dirty.
MarkDirty ==
  /\ pc = "dirty"
  /\ jw' = [jw EXCEPT !.start = 1]
  /\ WriteJsb(jw')
  /\ pc' = "fence2"
  /\ UNCHANGED <<disk, healthy, hold, live, marked, tx, blocks, i, rp, outcome, faults>>

\* Mutation: the dirty mark is not flushed before the home blocks.
Fence2NoFlush ==
  /\ pc = "fence2"
  /\ i' = 1
  /\ pc' = "home"
  /\ UNCHANGED <<disk, vol, healthy, hold, live, marked, jw, tx, blocks, rp, outcome, faults>>

Fence2 ==
  /\ pc = "fence2"
  /\ Flush
  /\ i' = 1
  /\ pc' = "home"
  /\ UNCHANGED <<healthy, hold, live, marked, jw, tx, blocks, rp, outcome, faults>>

\* Step 3: every block to its final location.
HomeBlock ==
  /\ pc = "home"
  /\ WriteHome(tx[i].blk, tx[i].val)
  /\ i' = i + 1
  /\ pc' = IF i = Len(tx) THEN "fence3" ELSE "home"
  /\ UNCHANGED <<disk, healthy, hold, live, marked, jw, tx, blocks, rp, outcome, faults>>

Fence3 ==
  /\ pc = "fence3"
  /\ Flush
  /\ pc' = "clean"
  /\ UNCHANGED <<healthy, hold, live, marked, jw, tx, blocks, i, rp, outcome, faults>>

\* Step 4: the journal is clean again and the sequence moves on; RECOVER is
\* cleared unless a checked mount holds it.
MarkClean ==
  /\ pc = "clean"
  /\ jw' = [start |-> 0, seq |-> jw.seq + 1]
  /\ WriteJsb(jw')
  /\ pc' = IF hold THEN "fence4" ELSE "unrecover"
  /\ UNCHANGED <<disk, healthy, hold, live, marked, tx, blocks, i, rp, outcome, faults>>

ClearRecover ==
  /\ pc = "unrecover"
  /\ WriteRecover(FALSE)
  /\ pc' = "fence4"
  /\ UNCHANGED <<disk, healthy, hold, live, marked, jw, tx, blocks, i, rp, outcome, faults>>

\* Mutation: the commit returns before the clean journal superblock is durable.
Fence4NoFlush ==
  /\ pc = "fence4"
  /\ healthy' = TRUE
  /\ pc' = "up"
  /\ outcome' = "ok"
  /\ UNCHANGED <<disk, vol, hold, live, marked, jw, tx, blocks, i, rp, faults>>

Fence4 ==
  /\ pc = "fence4"
  /\ Flush
  /\ healthy' = TRUE
  /\ pc' = "up"
  /\ outcome' = "ok"
  /\ UNCHANGED <<hold, live, marked, jw, tx, blocks, i, rp, faults>>
-----------------------------------------------------------------------------
(* Mounting: Filesystem::mount, or mount_recovering (hold), which sets the  *)
(* RECOVER marker before and after the replay.                              *)

\* Only mount_recovering flushes before it replays; the plain mount and
\* replay_journal_if_dirty take the device as they find it.
DeviceSettled == Settled => disk = vol

StartMount(checked) ==
  /\ pc \in {"down", "refused"}
  /\ checked \/ DeviceSettled
  /\ hold' = checked
  /\ live' = FALSE
  /\ healthy' = FALSE
  /\ marked' = FALSE
  /\ pc' = IF checked THEN "mark" ELSE "replay"
  /\ UNCHANGED <<disk, vol, jw, tx, blocks, i, rp, outcome, faults>>

\* mount_recovering's refuse_write marks the volume not clean before replay.
MarkBeforeReplay ==
  /\ pc = "mark"
  /\ marked' = TRUE
  /\ Flush
  /\ pc' = "marker1"
  /\ UNCHANGED <<healthy, hold, live, jw, tx, blocks, i, rp, outcome, faults>>

\* set_recovery_marker(true): written and flushed only if not set already.
SetMarker(at, fence, done) ==
  /\ pc = at
  /\ IF vol.home[SB].rec
     THEN pc' = done /\ UNCHANGED vol
     ELSE pc' = fence /\ WriteRecover(TRUE)
  /\ UNCHANGED <<disk, healthy, hold, live, marked, jw, tx, blocks, i, rp, outcome, faults>>

MarkerFence(fence, done) ==
  /\ pc = fence
  /\ Flush
  /\ pc' = done
  /\ UNCHANGED <<healthy, hold, live, marked, jw, tx, blocks, i, rp, outcome, faults>>

\* Filesystem::replay_journal_if_dirty on a mounted handle.
StartReplay ==
  /\ pc = "up"
  /\ DeviceSettled
  /\ live' = TRUE
  /\ pc' = "replay"
  /\ UNCHANGED <<disk, vol, healthy, hold, marked, jw, tx, blocks, i, rp, outcome, faults>>

\* Where a replay that is done, or had nothing to do, returns to.
Replayed == IF live THEN "up" ELSE IF hold THEN "marker2" ELSE "open"

\* The RECOVER flag of the superblock the handle holds in memory: read at the
\* start of a mount, and re-read at its end.
RecoverInMemory == IF live THEN hold ELSE vol.home[SB].rec

\* Mutation: whether to replay is decided by RECOVER, as Linux does, and not by
\* the journal superblock.
ReadJsbIfFlagged ==
  /\ pc = "replay"
  /\ IF vol.home[SB].rec /\ vol.jsb.start # 0
     THEN /\ pc' = "walk"
          /\ rp' = [NoPlan EXCEPT !.cur = vol.jsb.start, !.expect = vol.jsb.seq]
     ELSE /\ pc' = IF RecoverInMemory THEN "munrec" ELSE Replayed
          /\ UNCHANGED rp
  /\ UNCHANGED <<disk, vol, healthy, hold, live, marked, jw, tx, blocks, i, outcome, faults>>

\* journal_apply::replay_if_dirty.
ReadJsb ==
  /\ pc = "replay"
  /\ IF vol.jsb.start # 0
     THEN /\ pc' = "walk"
          /\ rp' = [NoPlan EXCEPT !.cur = vol.jsb.start, !.expect = vol.jsb.seq]
     ELSE /\ pc' = IF RecoverInMemory THEN "munrec" ELSE Replayed
          /\ UNCHANGED rp
  /\ UNCHANGED <<disk, vol, healthy, hold, live, marked, jw, tx, blocks, i, outcome, faults>>

\* journal::advance, with s_first = 1.
Advance(cur, n) == 1 + ((cur - 1 + n) % (MaxLen - 1))

\* The ring holds MaxLen - 1 blocks; the walk visits each at most once.
Limit == MaxLen - 1

\* One block of journal::walk that carries the expected header.
WalkBlock ==
  LET e == vol.log[rp.cur]
      n == Len(e.tags)
  IN  /\ pc = "walk"
      /\ rp.walked < Limit
      /\ e.kind # "data" /\ e.seq = rp.expect
      /\ IF e.kind = "commit"
         THEN /\ rp' = [cur     |-> Advance(rp.cur, 1),
                        expect  |-> rp.expect + 1,
                        walked  |-> rp.walked + 1,
                        pending |-> <<>>,
                        writes  |-> rp.writes \o rp.pending]
              /\ UNCHANGED pc
         ELSE IF rp.walked + 1 + n > Limit
         THEN pc' = "refused" /\ UNCHANGED rp
         ELSE /\ rp' = [rp EXCEPT
                          !.cur = Advance(rp.cur, n + 1),
                          !.walked = rp.walked + 1 + n,
                          !.pending = rp.pending \o
                             [k \in 1..n |-> [blk |-> e.tags[k], src |-> Advance(rp.cur, k)]]]
              /\ UNCHANGED pc
      /\ UNCHANGED <<disk, vol, healthy, hold, live, marked, jw, tx, blocks, i, outcome, faults>>

\* The end of the log: the whole ring walked, no header, or another sequence.
WalkEnd ==
  /\ pc = "walk"
  /\ \/ rp.walked >= Limit
     \/ vol.log[rp.cur].kind = "data"
     \/ vol.log[rp.cur].seq # rp.expect
  /\ i' = 1
  /\ pc' = IF Len(rp.writes) = 0 THEN "mclean" ELSE "apply"
  /\ UNCHANGED <<disk, vol, healthy, hold, live, marked, jw, tx, blocks, rp, outcome, faults>>

\* journal_apply::apply: each logged copy to its final location, then a flush.
ApplyWrite ==
  /\ pc = "apply"
  /\ WriteHome(rp.writes[i].blk, vol.log[rp.writes[i].src].val)
  /\ i' = i + 1
  /\ pc' = IF i = Len(rp.writes) THEN "fenceA" ELSE "apply"
  /\ UNCHANGED <<disk, healthy, hold, live, marked, jw, tx, blocks, rp, outcome, faults>>

FenceA ==
  /\ pc = "fenceA"
  /\ Flush
  /\ pc' = "mclean"
  /\ UNCHANGED <<healthy, hold, live, marked, jw, tx, blocks, i, rp, outcome, faults>>

\* Mutation: the sequence starts over, as on a new journal.
MarkJournalCleanReset ==
  /\ pc = "mclean"
  /\ WriteJsb([start |-> 0, seq |-> 1])
  /\ pc' = "fenceB"
  /\ UNCHANGED <<disk, healthy, hold, live, marked, jw, tx, blocks, i, rp, outcome, faults>>

\* mark_journal_clean skips the sequence after the last committed one.
MarkJournalClean ==
  /\ pc = "mclean"
  /\ WriteJsb([start |-> 0, seq |-> rp.expect + 1])
  /\ pc' = "fenceB"
  /\ UNCHANGED <<disk, healthy, hold, live, marked, jw, tx, blocks, i, rp, outcome, faults>>

FenceB ==
  /\ pc = "fenceB"
  /\ Flush
  /\ pc' = "munrec"
  /\ UNCHANGED <<healthy, hold, live, marked, jw, tx, blocks, i, rp, outcome, faults>>

ClearRecoverAfterReplay ==
  /\ pc = "munrec"
  /\ WriteRecover(FALSE)
  /\ pc' = "fenceC"
  /\ UNCHANGED <<disk, healthy, hold, live, marked, jw, tx, blocks, i, rp, outcome, faults>>

FenceC ==
  /\ pc = "fenceC"
  /\ Flush
  /\ pc' = Replayed
  /\ UNCHANGED <<healthy, hold, live, marked, jw, tx, blocks, i, rp, outcome, faults>>

\* JournalWriter::open takes the cursor over from the journal superblock.
OpenWriter ==
  /\ pc = "open"
  /\ jw' = vol.jsb
  /\ healthy' = TRUE
  /\ outcome' = "none"
  /\ pc' = "up"
  /\ UNCHANGED <<disk, vol, hold, live, marked, tx, blocks, i, rp, faults>>
-----------------------------------------------------------------------------
(* Release, faults and the device. *)

\* Drop writes s_state back and flushes, errors ignored, unless nothing was
\* written or the journal failed.
Unmount ==
  /\ pc = "up"
  /\ pc' = "down"
  /\ \/ marked /\ healthy /\ disk' = vol
     \/ UNCHANGED disk
  /\ healthy' = FALSE
  /\ UNCHANGED <<vol, hold, live, marked, jw, tx, blocks, i, rp, outcome, faults>>

Committing == {"log", "recover", "fence1", "dirty", "fence2", "home", "fence3",
               "clean", "unrecover", "fence4"}

Mounting == {"mark", "marker1", "markerfence1", "replay", "walk", "apply", "fenceA",
             "mclean", "fenceB", "munrec", "fenceC", "marker2", "markerfence2", "open"}

\* A device operation of a commit fails: the writer stays unhealthy.  One that
\* took effect and then failed is the operation followed by this step.
CommitIoError ==
  /\ pc \in Committing
  /\ faults < MaxFaults
  /\ faults' = faults + 1
  /\ pc' = "up"
  /\ outcome' = "err"
  /\ UNCHANGED <<disk, vol, healthy, hold, live, marked, jw, tx, blocks, i, rp>>

\* A device operation of a mount, or of a replay on a mounted handle, fails.
MountIoError ==
  /\ pc \in Mounting
  /\ faults < MaxFaults
  /\ faults' = faults + 1
  /\ pc' = IF live THEN "up" ELSE "down"
  /\ UNCHANGED <<disk, vol, healthy, hold, live, marked, jw, tx, blocks, i, rp, outcome>>

Crash ==
  /\ faults < MaxFaults
  /\ faults' = faults + 1
  /\ vol' = disk
  /\ pc' = "down"
  /\ healthy' = FALSE
  /\ outcome' = IF outcome = "busy" THEN "err" ELSE outcome
  /\ UNCHANGED <<disk, hold, live, marked, jw, tx, blocks, i, rp>>

\* The device writes a cached block back.
WritebackHome(b) ==
  /\ disk' = [disk EXCEPT !.home[b] = vol.home[b]]
  /\ UNCHANGED <<vol, pc, healthy, hold, live, marked, jw, tx, blocks, i, rp, outcome, faults>>

WritebackLog(p) ==
  /\ disk' = [disk EXCEPT !.log[p] = vol.log[p]]
  /\ UNCHANGED <<vol, pc, healthy, hold, live, marked, jw, tx, blocks, i, rp, outcome, faults>>

WritebackJsb ==
  /\ disk' = [disk EXCEPT !.jsb = vol.jsb]
  /\ UNCHANGED <<vol, pc, healthy, hold, live, marked, jw, tx, blocks, i, rp, outcome, faults>>

CommitStep ==
  \/ LogBlock \/ SetRecover \/ Fence1 \/ MarkDirty \/ Fence2
  \/ HomeBlock \/ Fence3 \/ MarkClean \/ ClearRecover \/ Fence4

MountStep ==
  \/ MarkBeforeReplay
  \/ SetMarker("marker1", "markerfence1", "replay")
  \/ MarkerFence("markerfence1", "replay")
  \/ ReadJsb \/ WalkBlock \/ WalkEnd \/ ApplyWrite \/ FenceA
  \/ MarkJournalClean \/ FenceB \/ ClearRecoverAfterReplay \/ FenceC
  \/ SetMarker("marker2", "markerfence2", "open")
  \/ MarkerFence("markerfence2", "open")
  \/ OpenWriter

Environment ==
  \/ CommitIoError \/ MountIoError \/ Crash
  \/ \E b \in Block : WritebackHome(b)
  \/ \E p \in Slot : WritebackLog(p)
  \/ WritebackJsb

Next ==
  \/ MarkNotClean
  \/ \E w \in Txs : Begin(w)
  \/ CommitStep
  \/ \E checked \in BOOLEAN : StartMount(checked)
  \/ MountStep
  \/ StartReplay
  \/ Unmount
  \/ Environment

Spec == Init /\ [][Next]_vars

\* A call that has started keeps running: the driver never waits inside one.
\* The owner of a volume releases a handle whose journal failed, and mounts a
\* volume it finds unmounted.
FairSpec ==
  /\ Spec
  /\ WF_vars(CommitStep) /\ WF_vars(MountStep)
  /\ WF_vars(~healthy /\ Unmount)
  /\ WF_vars(\E checked \in BOOLEAN : StartMount(checked))

-----------------------------------------------------------------------------
(* Properties. *)

Write == [blk : Block, val : Content]

PlanEntry == [blk : Block, src : Slot]

Plan == [cur : Slot, expect : Nat, walked : 0..Limit,
         pending : Seq(PlanEntry), writes : Seq(PlanEntry)]

\* Type correctness of the writer's, the mount's and the device's state.
TypeOK ==
  /\ disk \in Image
  /\ vol \in Image
  /\ pc \in {"down", "up", "refused"} \cup Committing \cup Mounting
  /\ healthy \in BOOLEAN
  /\ hold \in BOOLEAN
  /\ live \in BOOLEAN
  /\ marked \in BOOLEAN
  /\ jw \in Jsb
  /\ tx \in Seq(Write)
  /\ blocks \in Seq(Entry)
  /\ i \in Nat \ {0}
  /\ rp \in Plan
  /\ outcome \in {"none", "busy", "ok", "err"}
  /\ faults \in 0..MaxFaults

\* The payload a sequence of writes carries, RECOVER flags apart.
Payload(w) == [k \in 1..Len(w) |-> [blk |-> w[k].blk, val |-> w[k].val.data]]

Plain(home) == [b \in Block |-> home[b].data]

\* home after the writes w: a transaction names a block once.
Overlay(home, w) ==
  [b \in Block |-> IF \E k \in 1..Len(w) : w[k].blk = b
                   THEN w[CHOOSE k \in 1..Len(w) : w[k].blk = b].val
                   ELSE home[b]]

\* What a crash now would leave after recovery: the durable home blocks, with
\* the logged transaction over them while the durable journal is dirty.
Recovered ==
  IF disk.jsb.start = 0 THEN Plain(disk.home) ELSE Overlay(Plain(disk.home), Payload(tx))

Atomic == INSTANCE AtomicStore WITH
            store <- Recovered,
            req   <- IF outcome \in {"busy", "err"} THEN Payload(tx) ELSE <<>>

\* Every commit takes effect on the recoverable state all at once, not before
\* it is asked for and, once it returned Ok, durably (the crash contract of
\* journal_writer.rs): the driver implements the atomic store.
CommitIsAtomic == Atomic!Spec

\* Linux replays the journal only when RECOVER is set and wipes it otherwise
\* (write_needs_recovery), so a durable dirty journal without the flag must
\* hold nothing the home blocks lack.
RecoverGuardsLog ==
  disk.jsb.start # 0 /\ ~disk.home[SB].rec =>
    Plain(disk.home) = Overlay(Plain(disk.home), Payload(tx))

\* What a replay is about to apply is the transaction in doubt, whole: the walk
\* neither refuses a transaction that fills the ring nor stops short of its
\* commit block, and nothing left in the log by an earlier one passes for part
\* of it.
PlanIsTransaction ==
  /\ pc # "refused"
  /\ pc \in {"apply", "fenceA", "mclean"} =>
       [k \in 1..Len(rp.writes) |-> [blk |-> rp.writes[k].blk,
                                     val |-> vol.log[rp.writes[k].src].val]] = tx

\* A replay writes home blocks only once the log it reads is durable ("the
\* single final-location pass after the journal is already on disk", apply).
LogDurableBeforeApply == pc = "apply" => disk.jsb = vol.jsb /\ disk.log = vol.log

\* A new transaction is logged only over a journal that is durably clean: the
\* flush of the mount's first write, or the replay's, has put it there.
LogIsFree == pc \in {"log", "recover", "fence1"} => disk.jsb.start = 0

\* A journal does not stay dirty on the medium ("Left dirty, every later mount
\* replayed the same log again", journal_apply.rs).  Whatever was interrupted, a
\* commit or the recovery from an earlier fault, and whichever of the journal
\* superblock and the RECOVER flag had reached the medium, a later mount replays
\* the log, marks it clean and gets that to the medium.
LogSettles == disk.jsb.start # 0 ~> disk.jsb.start = 0
=============================================================================
