-------------------------------- MODULE Mount --------------------------------
(***************************************************************************)
(* The life of a Filesystem handle (fs.rs): the eager, the lazy and the    *)
(* checked mount, replay_journal_if_dirty, writes, fresh_read, finish and  *)
(* Drop, over a volume other owners have left behind, with device errors   *)
(* and crashes between any two steps.                                      *)
(*                                                                         *)
(* The state is what the superblock and the journal superblock say.  Every *)
(* step here ends in a flush, so what is on the device is durable; the     *)
(* order of writes within a commit or a replay is the module Journal's.    *)
(***************************************************************************)
EXTENDS Naturals

CONSTANTS
  Journals,     \* what volumes have a journal: a set of BOOLEANs
  Copies,       \* EXT4_VALID_FS in the superblock copy of a log found dirty
  Flips         \* whether a device mounted read-only may become writable

ASSUME MountAssumption ==
  /\ Journals \subseteq BOOLEAN
  /\ Copies \subseteq {"none", "set", "clear"}
  /\ Flips \in BOOLEAN

VARIABLES
  disk,      \* the volume
  pc,        \* the step the handle is at; "closed" without one, "open" between calls
  h,         \* the Filesystem handle
  ret,       \* where a shared step returns to
  lost,      \* ghost: committed transactions were overwritten before replay
  released   \* ghost: finish took the last checked mount's marker down

vars == <<disk, pc, h, ret, lost, released>>

\* valid, err: s_state.  rec: INCOMPAT_RECOVER.  log, copy: the journal, and
\* the state bit of the superblock its transactions carry.  orphans:
\* s_last_orphan # 0.  torn: a direct commit was left half done.
Volume == [journal : Journals, valid : BOOLEAN, err : BOOLEAN, rec : BOOLEAN,
           log : {"clean", "dirty"}, copy : {"none", "set", "clear"},
           orphans : BOOLEAN, torn : BOOLEAN]

\* kind, w: the mount, and dev.is_writable().  jw: the journal writer.  sb: what
\* the in-memory superblock says.  dirty: a local of replay_journal_if_dirty;
\* n: whether the replay applied anything.  behind, a ghost: what was read from
\* the volume before the log it held was replayed, the superblock and
\* descriptors ("view") or the writer's position in the log ("cursor").
\* hooked, a ghost: replay_journal_if_dirty was called on a checked mount.
NoHandle == [kind |-> "none", w |-> FALSE, jw |-> "none", hold |-> FALSE, pending |-> FALSE,
             marked |-> FALSE, found |-> FALSE, managed |-> FALSE, failed |-> FALSE,
             sb |-> [valid |-> FALSE, rec |-> FALSE, orphans |-> FALSE],
             dirty |-> FALSE, n |-> FALSE, behind |-> {}, hooked |-> FALSE]

View(d) == [valid |-> d.valid, rec |-> d.rec, orphans |-> d.orphans]

Goto(next) == pc' = next
Ghosts == UNCHANGED <<lost, released>>

-----------------------------------------------------------------------------
(* Steps that several calls share. *)

\* Mutation: a pending replay does not refuse writes (#375).
WritableNow(x) == x.w /\ ~x.failed

\* write_refusal, for a volume whose features this driver maintains.
Writable(x) == x.w /\ ~x.failed /\ ~x.pending

\* mark_not_clean_once; the in-memory superblock keeps the state found.
Mark ==
  IF h.marked THEN UNCHANGED <<disk, h>>
  ELSE /\ disk' = [disk EXCEPT !.valid = FALSE]
       /\ h' = [h EXCEPT !.marked = TRUE, !.found = h.sb.valid]

\* Its write landed and its flush failed: the mount does not know it marked.
MarkLanded == ~h.marked /\ disk' = [disk EXCEPT !.valid = FALSE]

\* The superblock as the log's transactions leave it.
Applied(d) ==
  CASE d.copy = "set"   -> [d EXCEPT !.valid = TRUE]
    [] d.copy = "clear" -> [d EXCEPT !.valid = FALSE]
    [] OTHER            -> d

\* What a mount reads; a read-only one has the log's blocks pinned in its cache.
Seen(w) == View(IF w THEN disk ELSE Applied(disk))

\* replay_if_dirty: a clean journal loses a RECOVER flag left behind; a dirty
\* one is applied, its superblock copy included.
Replay ==
  /\ pc = "replay"
  /\ IF ~h.w \/ ~disk.journal \/ disk.log = "clean"
     THEN /\ disk' = IF h.w /\ disk.journal /\ h.sb.rec THEN [disk EXCEPT !.rec = FALSE] ELSE disk
          /\ h' = [h EXCEPT !.n = FALSE]
          /\ Goto(ret)
     ELSE /\ disk' = Applied(disk)
          /\ h' = [h EXCEPT !.n = TRUE]
          /\ Goto("replayed")
  /\ UNCHANGED ret /\ Ghosts

\* mark_journal_clean, then the flag.
ReplayClean ==
  /\ pc = "replayed"
  /\ disk' = [disk EXCEPT !.log = "clean", !.copy = "none"]
  /\ Goto("unflag")
  /\ UNCHANGED <<h, ret>> /\ Ghosts

ReplayUnflag ==
  /\ pc = "unflag"
  /\ disk' = [disk EXCEPT !.rec = FALSE]
  /\ Goto(ret)
  /\ UNCHANGED <<h, ret>> /\ Ghosts

\* What the commits of a call have done to the orphan chain: recover_orphans has
\* emptied it, or left it at a member it cannot read; a write has not touched it.
Effects(d) == IF ret = "refresh" THEN {d, [d EXCEPT !.orphans = FALSE]} ELSE {d}

\* commit_block_buffer.  Through the journal: RECOVER is set, the log holds the
\* transaction, with the superblock if the operation staged it.
CommitLog ==
  /\ pc = "commit" /\ h.jw = "healthy"
  /\ lost' = (lost \/ disk.log = "dirty")
  /\ \E copy \in {"none", IF disk.valid THEN "set" ELSE "clear"} :
       disk' = [disk EXCEPT !.rec = TRUE, !.log = "dirty", !.copy = copy]
  /\ h' = [h EXCEPT !.jw = "failed"]
  /\ Goto("logged")
  /\ UNCHANGED <<ret, released>>

\* Mutation: RECOVER is cleared after every commit.
HeldNever(x) == FALSE

\* holding_needs_recovery
Held(x) == x.hold

\* The blocks are at home and the journal is clean again.
CommitClean ==
  /\ pc = "logged"
  /\ disk' \in Effects([disk EXCEPT !.log = "clean", !.copy = "none", !.rec = Held(h)])
  /\ h' = [h EXCEPT !.jw = "healthy"]
  /\ Goto(ret)
  /\ UNCHANGED ret /\ Ghosts

\* A failed writer takes no further transaction.
CommitRefused ==
  /\ pc = "commit" /\ h.jw = "failed"
  /\ Goto(IF ret = "open" THEN "open" ELSE "drop")
  /\ UNCHANGED <<disk, h, ret>> /\ Ghosts

\* Without a writer the blocks go straight to their places; until they all
\* have, the volume is half written.
CommitDirect ==
  /\ pc = "commit" /\ h.jw = "none"
  /\ Goto("direct")
  /\ UNCHANGED <<disk, h, ret>> /\ Ghosts

CommitDirectDone ==
  /\ pc = "direct"
  /\ disk' \in Effects(disk)
  /\ Goto(ret)
  /\ UNCHANGED <<h, ret>> /\ Ghosts

-----------------------------------------------------------------------------
(* Mounting. *)

\* mount_inner reads the superblock; a read-only one replays into its cache.
Open(kind, w) ==
  /\ pc = "closed"
  /\ h' = [NoHandle EXCEPT !.kind = kind, !.w = w, !.sb = Seen(w),
                           !.behind = IF w /\ disk.log = "dirty" THEN {"view"} ELSE {}]
  /\ pc' = IF kind = "eager" /\ w THEN "replay" ELSE "writer"
  /\ ret' = "writer"
  /\ released' = FALSE
  /\ UNCHANGED <<disk, lost>>

\* JournalWriter::open finds a journal, on a mount that may write.
Opens(x) == disk.journal /\ Writable(x)

\* reload_geometry, when a replay has applied anything.
Reloaded(x) == IF h.n THEN [x EXCEPT !.sb = View(disk), !.behind = @ \ {"view"}] ELSE x

\* The writer starts from the journal superblock as it is now.
WithWriter(x, hold) ==
  [x EXCEPT !.jw = "healthy", !.hold = hold,
            !.behind = IF disk.log = "dirty" THEN @ \cup {"cursor"} ELSE @ \ {"cursor"}]

\* The writer is opened, and then the journal that is still dirty noted.
OpenWriter ==
  /\ pc = "writer"
  /\ LET x == Reloaded(h)
     IN  h' = [(IF Opens(x) THEN WithWriter(x, FALSE) ELSE x)
                 EXCEPT !.pending = (~h.w \/ h.kind # "eager") /\ disk.log = "dirty"]
  /\ Goto(CASE h.kind = "eager" -> "orphans" [] h.kind = "lazy" -> "open" [] OTHER -> "own")
  /\ UNCHANGED <<disk, ret>> /\ Ghosts

\* recover_orphans: refused or nothing to do, or marked and committed.
Orphans ==
  /\ pc = "orphans"
  /\ IF Writable(h) /\ h.sb.orphans
     THEN Mark /\ Goto("commit") /\ ret' = "refresh"
     ELSE UNCHANGED <<disk, h, ret>> /\ Goto("refresh")
  /\ Ghosts

\* refresh_metadata ends an eager and a checked mount.
Refresh ==
  /\ pc = "refresh"
  /\ h' = [h EXCEPT !.sb = Seen(h.w), !.managed = (h.kind = "checked")]
  /\ Goto("open")
  /\ UNCHANGED <<disk, ret>> /\ Ghosts

\* mount_recovering, once the lazy mount has returned: refuse_write,
Own ==
  /\ pc = "own"
  /\ IF h.w
     THEN /\ disk' = [disk EXCEPT !.valid = FALSE]
          /\ h' = [h EXCEPT !.pending = FALSE, !.marked = TRUE, !.found = h.sb.valid]
          /\ Goto("check")
     ELSE /\ h' = [h EXCEPT !.pending = FALSE]
          /\ UNCHANGED disk
          /\ Goto("drop")
  /\ UNCHANGED ret /\ Ghosts

\* the refusals, and the marker set over a detached writer,
Check ==
  /\ pc = "check"
  /\ IF ~disk.journal \/ disk.err
     THEN UNCHANGED <<disk, h, ret>> /\ Goto("drop")
     ELSE /\ disk' = [disk EXCEPT !.rec = TRUE]
          /\ h' = [h EXCEPT !.jw = "none", !.sb = View(disk')]
          /\ Goto("replay")
          /\ ret' = "rejoin"
  /\ Ghosts

\* and after the replay the marker again, and a writer that holds it.
Rejoin ==
  /\ pc = "rejoin"
  /\ disk' = [disk EXCEPT !.rec = TRUE]
  /\ h' = WithWriter([h EXCEPT !.sb = View(disk'), !.behind = {}], TRUE)
  /\ Goto("orphans")
  /\ UNCHANGED ret /\ Ghosts

-----------------------------------------------------------------------------
(* Calls on an open handle. *)

\* A mutating call: refuse_write, then its commit.
Write ==
  /\ pc = "open" /\ Writable(h)
  /\ Mark
  /\ Goto("commit")
  /\ ret' = "open"
  /\ Ghosts

\* replay_journal_if_dirty, "safe to call on any handle".
Hook ==
  /\ pc = "open"
  /\ h' = [h EXCEPT !.dirty = h.w /\ disk.log = "dirty", !.hooked = (h.kind = "checked")]
  /\ Goto("replay")
  /\ ret' = "hook"
  /\ UNCHANGED disk /\ Ghosts

\* The hook's end: a writer over a log that was dirty is replaced, a missing
\* one is opened, a failed one is kept.
HookEnd ==
  /\ pc = "hook"
  /\ LET x == Reloaded([h EXCEPT !.pending = @ /\ ~h.w, !.dirty = FALSE])
     IN  h' = IF (h.dirty \/ h.jw = "none") /\ h.jw # "failed" /\ Opens(x)
              THEN WithWriter(x, FALSE)
              ELSE x
  /\ Goto("open")
  /\ UNCHANGED <<disk, ret>> /\ Ghosts

\* It fails to reload, or reloads and fails to open the writer.
HookError ==
  /\ pc = "hook"
  /\ LET x == [h EXCEPT !.pending = @ /\ ~h.w, !.dirty = FALSE]
     IN  h' \in {x, Reloaded(x)}
  /\ Goto("open")
  /\ UNCHANGED <<disk, ret>> /\ Ghosts

\* The host hands the mount a device it can write.
BecomeWritable ==
  /\ pc = "open" /\ Flips /\ ~h.w
  /\ h' = [h EXCEPT !.w = TRUE]
  /\ UNCHANGED <<disk, pc, ret>> /\ Ghosts

\* flush: what finish and fresh_read refuse.
FlushFails == h.failed \/ h.jw = "failed" \/ (h.managed /\ disk.log = "dirty")

\* fresh_read: refused over a dirty journal, and without a writer by the blocks
\* a replay into the cache pinned.
FreshRead ==
  /\ pc = "open" /\ ~FlushFails
  /\ IF h.jw = "none" THEN ~h.pending ELSE disk.log = "clean"
  /\ h' = [h EXCEPT !.sb = View(disk), !.behind = @ \ {"view"}]
  /\ UNCHANGED <<disk, pc, ret>> /\ Ghosts

\* finish: the orphans a checked mount could not reclaim keep it from releasing.
Unreclaimed(d) == d.orphans

FinishFlush ==
  /\ pc = "open"
  /\ IF FlushFails \/ (h.managed /\ Unreclaimed(disk))
     THEN Goto("drop") /\ UNCHANGED h
     ELSE Goto("restore") /\ h' = IF h.managed THEN [h EXCEPT !.sb = View(disk)] ELSE h
  /\ UNCHANGED <<disk, ret>> /\ Ghosts

\* restore_state_found
FinishRestore ==
  /\ pc = "restore"
  /\ disk' = IF h.marked THEN [disk EXCEPT !.valid = h.found] ELSE disk
  /\ h' = [h EXCEPT !.marked = FALSE]
  /\ Goto(IF h.managed THEN "unmark" ELSE "drop")
  /\ UNCHANGED ret /\ Ghosts

\* The marker last: it is the release's commit point (#299).
FinishUnmark ==
  /\ pc = "unmark"
  /\ disk' = [disk EXCEPT !.rec = FALSE]
  /\ released' = TRUE
  /\ Goto("drop")
  /\ UNCHANGED <<h, ret, lost>>

\* The caller lets go of the handle.
Release ==
  /\ pc = "open"
  /\ Goto("drop")
  /\ UNCHANGED <<disk, h, ret>> /\ Ghosts

\* Mutation: Drop restores the state whatever happened before (#319).
RestoresAlways(x) == x.marked /\ x.w

\* Drop gives the state back unless a commit of this handle failed.
Restores(x) == x.marked /\ x.w /\ x.jw # "failed" /\ ~x.failed

Drop ==
  /\ pc = "drop"
  /\ disk' = IF Restores(h) THEN [disk EXCEPT !.valid = h.found] ELSE disk
  /\ h' = NoHandle
  /\ Goto("closed")
  /\ UNCHANGED ret /\ Ghosts

-----------------------------------------------------------------------------
(* Failures. *)

Mounting == {"replay", "replayed", "unflag", "writer", "orphans", "refresh", "own", "check", "rejoin"}

\* An error in a mount drops the handle being built; in the hook it returns.
\* A write whose flush failed may have landed.
MountError ==
  /\ pc \in Mounting
  /\ \/ UNCHANGED disk
     \/ pc = "own" /\ h.w /\ MarkLanded
     \/ pc = "orphans" /\ Writable(h) /\ h.sb.orphans /\ MarkLanded
     \/ pc = "replayed" /\ disk' = [disk EXCEPT !.log = "clean", !.copy = "none"]
     \/ pc = "unflag" /\ disk' = [disk EXCEPT !.rec = FALSE]
  /\ Goto(IF ret = "hook" THEN "open" ELSE "drop")
  /\ UNCHANGED <<h, ret>> /\ Ghosts

\* The mark of a mutating call fails, after its write.
WriteError ==
  /\ pc = "open" /\ Writable(h) /\ MarkLanded
  /\ UNCHANGED <<pc, h, ret>> /\ Ghosts

\* A direct commit that stops half-way leaves the volume torn.
Torn == [disk EXCEPT !.torn = @ \/ pc = "direct"]

\* An error in a commit leaves the writer failed, before the log holds the
\* transaction or after, or the mount (direct_commit_failed).
CommitError ==
  /\ \/ pc = "commit" /\ h.jw = "healthy" /\ disk' \in {disk, [disk EXCEPT !.rec = TRUE]}
     \/ pc = "logged" /\ disk' \in {disk, [disk EXCEPT !.log = "clean", !.copy = "none"]}
     \/ pc = "direct" /\ disk' = Torn
  /\ h' = [h EXCEPT !.jw = IF pc = "direct" THEN @ ELSE "failed", !.failed = @ \/ pc = "direct"]
  /\ Goto(IF ret = "open" THEN "open" ELSE "drop")
  /\ UNCHANGED ret /\ Ghosts

\* In finish the error is returned and the handle is gone; in Drop nobody is
\* told.  The write may have landed.
ReleaseError ==
  /\ \/ UNCHANGED <<disk, released>>
     \/ /\ (pc = "restore" /\ h.marked) \/ (pc = "drop" /\ Restores(h))
        /\ disk' = [disk EXCEPT !.valid = h.found]
        /\ UNCHANGED released
     \/ pc = "unmark" /\ disk' = [disk EXCEPT !.rec = FALSE] /\ released' = TRUE
  /\ pc \in {"restore", "unmark", "drop"}
  /\ Goto(IF pc = "drop" THEN "closed" ELSE "drop")
  /\ h' = IF pc = "drop" THEN NoHandle ELSE h
  /\ UNCHANGED <<ret, lost>>

Crash ==
  /\ pc # "closed"
  /\ Goto("closed")
  /\ h' = NoHandle
  /\ disk' = Torn
  /\ UNCHANGED ret /\ Ghosts

\* A volume as another owner left it, cleanly or not: a dirty log is flagged.
Init ==
  /\ disk \in Volume
  /\ ~disk.torn
  /\ disk.log = "dirty" => disk.journal /\ disk.rec /\ disk.copy \in Copies
  /\ disk.log = "clean" => disk.copy = "none"
  /\ disk.rec => disk.journal
  /\ pc = "closed" /\ h = NoHandle /\ ret = "writer"
  /\ lost = FALSE /\ released = FALSE

Next ==
  \/ Replay \/ ReplayClean \/ ReplayUnflag
  \/ CommitLog \/ CommitClean \/ CommitRefused \/ CommitDirect \/ CommitDirectDone
  \/ \E kind \in {"eager", "lazy", "checked"}, w \in BOOLEAN : Open(kind, w)
  \/ OpenWriter \/ Orphans \/ Refresh \/ Own \/ Check \/ Rejoin
  \/ Write \/ Hook \/ HookEnd \/ HookError \/ BecomeWritable \/ FreshRead
  \/ FinishFlush \/ FinishRestore \/ FinishUnmark \/ Release \/ Drop
  \/ MountError \/ WriteError \/ CommitError \/ ReleaseError \/ Crash

Spec == Init /\ [][Next]_vars

-----------------------------------------------------------------------------
(* Properties. *)

\* A volume a direct commit left half written, now or by an earlier handle, does
\* not claim to have been put away properly (mark_not_clean_once, #85, #319).
TornIsNotClean == disk.torn \/ pc = "direct" => ~disk.valid

\* No commit is logged over transactions that are not on the device yet
\* (replay_pending, #375; a failed writer).
NothingOverwritten == ~lost

\* "The filesystem RECOVER bit remains set throughout writable ownership;
\* `finish` clears it" (CHECKED-RECOVERY.md): a checked mount that is dropped,
\* fails or crashes leaves the volume flagged, and one whose marker finish took
\* down left nothing to recover, neither in the journal nor on the orphan chain.
\* One call breaks the rule and is named: replay_journal_if_dirty, which is
\* "safe to call on any handle", takes a checked mount's marker down as if it
\* were one left behind.  It does so over a clean log only, and a log with
\* anything in it is flagged again, on every mount.
MarkerHeld ==
  /\ h.managed /\ pc # "closed" /\ ~released => disk.rec \/ h.hooked
  /\ released /\ pc = "closed" => ~disk.rec /\ disk.log = "clean" /\ ~disk.orphans
  /\ disk.log = "dirty" => disk.rec

\* What CHECKED-RECOVERY.md says, without that call set apart.
MarkerAlways == h.managed /\ pc # "closed" /\ ~released => disk.rec

\* "All three are brought up to date here" (replay_journal_if_dirty: superblock,
\* descriptors, writer): a handle that accepts writes reads nothing older than
\* the log it replayed.
ViewIsCurrent == pc = "open" /\ Writable(h) => h.behind = {}
=============================================================================
