----------------------------- MODULE Attributes -----------------------------
(* The attributes of an inode that calls set one by one: mode, owner, times  *)
(* and flags (fs.rs, and the inode layout of inode.rs), composed with the    *)
(* extended attributes of Xattr, which share the inode: setxattr gives an    *)
(* inode without extra fields those fields, and changes its ctime.           *)
(*                                                                           *)
(* A time is a base field, signed, and where i_extra_isize reaches           *)
(* an extra field with the nanoseconds and two bits of era.  An owner is     *)
(* kept in two halves.                                                       *)
EXTENDS Xattr

CONSTANTS
    HalfEra,               \* half the values of a base field (2^31)
    Half,                  \* the values of half an owner (2^16)
    NsecPerSec,
    Flags, UserFlags,      \* inode flags, and the ones a caller may change
    Perms,                 \* permission bits of a mode
    Clocks,                \* what now_unix_seconds may return
    Times,                 \* arguments of utimens: pairs of [sec, nsec]
    Statted,               \* the files whose stat is changed
    Owners,                \* arguments of chown
    StatStarts             \* i_extra_isize of each file

\* An inode's fields, by name.
InodeLayout(s) ==
    /\ DOMAIN s = {"isize", "type", "perm", "flags", "uid", "gid", "base", "ext"}
    /\ DOMAIN s.base = {"a", "m", "c"}
    /\ DOMAIN s.ext = {"a", "m", "c"}
    /\ s.isize \in Nat

ASSUME Statting == Statted \subseteq Files

ASSUME Widths == HalfEra \in Nat \ {0} /\ Half \in Nat \ {0} /\ NsecPerSec \in Nat

\* What callers pass: i64 seconds, u32 nanoseconds and owners.
ASSUME Arguments ==
    /\ \A p \in Times, i \in {1, 2} : p[i].sec \in Int /\ p[i].nsec \in Nat
    /\ Owners \subseteq 0 .. Half * Half - 1

\* TimeUpdate::check: the time UTIME_NOW stands for is always storable.
ASSUME ClockStorable == Clocks \subseteq -HalfEra .. 7 * HalfEra - 1

ASSUME InodesLaidOut ==
    \A s \in StatStarts : DOMAIN s = Files /\ \A f \in Files : InodeLayout(s[f])

VARIABLES
    stat,     \* the inodes
    told,     \* what the callers may expect a stat to read
    late      \* the files whose last change of an attribute did not write ctime

allvars == <<vol, want, res, ops, stat, told, late>>

----------------------------------------------------------------------------
(* Encodings *)

Era == 2 * HalfEra
MinTime == -HalfEra
MaxTime == HalfEra - 1 + 3 * Era

\* The end of each extra field, past the 128 bytes of the base inode.
Need == [c |-> 8, m |-> 12, a |-> 16]

extra_field_fits(s, t) == s.isize >= Need[t]

\* unpack_seconds: the base as a signed number, and the era above it.
unpack_seconds(base, era) == (IF base >= HalfEra THEN base - Era ELSE base) + era * Era

\* Mutation: the era is the high bits of the seconds, as if the base were not
\* signed.
PackUnsigned(sec) == [base |-> sec % Era, era |-> (sec \div Era) % 4]

\* pack_seconds: the era is the one whose signed base is nearest.
pack_seconds(sec) == [base |-> sec % Era, era |-> ((sec \div HalfEra + 1) \div 2) % 4]

Clamp(sec, lo, hi) == IF sec < lo THEN lo ELSE IF sec > hi THEN hi ELSE sec

\* set_inode_time: with the era where the inode has the field, and the
\* nearest time the base can hold where it has not.
set_inode_time(s, t, sec) ==
    IF extra_field_fits(s, t)
    THEN LET p == pack_seconds(Clamp(sec, MinTime, MaxTime))
         IN  [s EXCEPT !.base[t] = p.base, !.ext[t] = [ns |-> 0, era |-> p.era]]
    ELSE [s EXCEPT !.base[t] = Clamp(sec, MinTime, HalfEra - 1) % Era]

\* The time t of the inode: without its extra field, of the first era and
\* whole.
TimeOf(s, t) ==
    IF extra_field_fits(s, t) THEN <<unpack_seconds(s.base[t], s.ext[t].era), s.ext[t].ns>>
    ELSE <<unpack_seconds(s.base[t], 0), 0>>

Unset == Half * Half - 1          \* u32::MAX: leave it

\* Inode::parse: what a stat of the inode returns.
Parse(s) ==
    [type |-> s.type, perm |-> s.perm, flags |-> s.flags,
     uid |-> s.uid[2] * Half + s.uid[1], gid |-> s.gid[2] * Half + s.gid[1],
     time |-> [t \in {"a", "m", "c"} |-> TimeOf(s, t)]]

----------------------------------------------------------------------------
(* Operations *)

\* A stat that is written, and what the caller is told it will read.
Write(f, s, p) ==
    /\ stat' = [stat EXCEPT ![f] = s]
    /\ told' = [told EXCEPT ![f] = p]
    /\ late' = late \ {f}
    /\ res' = "ok"

Refuse(why) == res' = why /\ UNCHANGED <<stat, told, late>>

\* The time a stat reads after set_inode_time.
Stamp(s, t, now) ==
    <<IF extra_field_fits(s, t) THEN Clamp(now, MinTime, MaxTime)
      ELSE Clamp(now, MinTime, HalfEra - 1), 0>>

\* The type bits of the argument are dropped: the inode keeps its type.
apply_chmod(f, perm, now) ==
    LET s == [stat[f] EXCEPT !.perm = perm]
    IN  /\ Begun
        /\ vol.file[f].live
        /\ Write(f, set_inode_time(s, "c", now),
                 [told[f] EXCEPT !.perm = perm, !.time["c"] = Stamp(s, "c", now)])
        /\ UNCHANGED <<vol, want>>

apply_chown(f, uid, gid, now) ==
    LET Halves(id) == <<id % Half, id \div Half>>
        s == [stat[f] EXCEPT !.uid = IF uid = Unset THEN @ ELSE Halves(uid),
                             !.gid = IF gid = Unset THEN @ ELSE Halves(gid)]
    IN  /\ Begun
        /\ vol.file[f].live
        /\ Write(f, set_inode_time(s, "c", now),
                 [told[f] EXCEPT !.uid = IF uid = Unset THEN @ ELSE uid,
                                 !.gid = IF gid = Unset THEN @ ELSE gid,
                                 !.time["c"] = Stamp(s, "c", now)])
        /\ UNCHANGED <<vol, want>>

\* Only flags a caller may change may differ.
apply_set_flags(f, flags, now) ==
    LET s == [stat[f] EXCEPT !.flags = flags]
    IN  /\ Begun
        /\ vol.file[f].live
        /\ IF ((flags \ stat[f].flags) \cup (stat[f].flags \ flags)) \subseteq UserFlags
           THEN Write(f, set_inode_time(s, "c", now),
                      [told[f] EXCEPT !.flags = flags, !.time["c"] = Stamp(s, "c", now)])
           ELSE Refuse("invalid")
        /\ UNCHANGED <<vol, want>>

\* The sentinels: a second below all others, nanoseconds above the last one.
TIME_OMIT == MinTime - 2
UTIME_OMIT == NsecPerSec + 1
UTIME_NOW == NsecPerSec + 2

\* TimeUpdate::resolve
resolve(t, now) ==
    IF t.sec = TIME_OMIT \/ t.nsec = UTIME_OMIT THEN [kind |-> "omit"]
    ELSE IF t.nsec = UTIME_NOW THEN [kind |-> "set", sec |-> now, ns |-> 0]
    ELSE IF t.nsec >= NsecPerSec \/ t.sec \notin MinTime .. MaxTime THEN [kind |-> "bad"]
    ELSE [kind |-> "set", sec |-> t.sec, ns |-> t.nsec]

\* A time past the base field, in an inode without the extra one.
Unstorable(s, t, u) ==
    u.kind = "set" /\ pack_seconds(u.sec).era # 0 /\ ~ extra_field_fits(s, t)

\* One time of utimens, written as it is.
Put(s, t, u) ==
    LET p == pack_seconds(u.sec)
        b == [s EXCEPT !.base[t] = p.base]
    IN  IF u.kind = "omit" THEN s
        ELSE IF extra_field_fits(s, t) THEN [b EXCEPT !.ext[t] = [ns |-> u.ns, era |-> p.era]]
        ELSE b

apply_utimens(f, at, mt, now) ==
    LET a == resolve(at, now)
        m == resolve(mt, now)
        s == Put(Put(stat[f], "a", a), "m", m)
        Told(t, u) == IF u.kind = "omit" THEN told[f].time[t]
                      ELSE <<u.sec, IF extra_field_fits(s, t) THEN u.ns ELSE 0>>
    IN  /\ Begun
        /\ vol.file[f].live
        /\ IF "bad" \in {a.kind, m.kind} THEN Refuse("invalid")
           ELSE IF a.kind = "omit" /\ m.kind = "omit" THEN Refuse("ok")
           ELSE IF Unstorable(stat[f], "a", a) \/ Unstorable(stat[f], "m", m)
           THEN Refuse("invalid")
           ELSE Write(f, set_inode_time(s, "c", now),
                      [told[f] EXCEPT !.time = [a |-> Told("a", a), m |-> Told("m", m),
                                                c |-> Stamp(s, "c", now)]])
        /\ UNCHANGED <<vol, want>>

----------------------------------------------------------------------------
(* The extended attributes, and what they do to the inode *)

\* Whether a successful setxattr changes ctime: it does unless the value goes
\* into the inode and the block had no copy of it.
Stamps(f, n, v) ==
    LET t == Widened(vol, f)
        r == plan_set(t.file[f].area, n, v, AreaUnits)
    IN  IF t.file[f].extra /\ r.res = "ok"
        THEN buffer_remove_from_external_block(t, f, n).found
        ELSE TRUE

\* An inode that gets its extra fields gets them cleared.
WideStat(s) ==
    [s EXCEPT !.isize = 32, !.ext = [t \in {"a", "m", "c"} |-> [ns |-> 0, era |-> 0]]]

setxattr(f, n, v, now) ==
    LET wide == Widened(vol, f).file[f].extra /\ ~ vol.file[f].extra
        s    == IF wide THEN WideStat(stat[f]) ELSE stat[f]
    IN  /\ apply_setxattr(f, n, v)
        /\ IF SetStaged(vol, f, n, v).bad # "" THEN UNCHANGED <<stat, told, late>>
           ELSE /\ stat' = [stat EXCEPT ![f] = IF Stamps(f, n, v) THEN set_inode_time(s, "c", now)
                                               ELSE s]
                /\ told' = [told EXCEPT ![f].time["c"] = Stamp(s, "c", now)]
                /\ late' = IF Stamps(f, n, v) THEN late \ {f} ELSE late \cup {f}

removexattr(f, n, now) ==
    /\ apply_removexattr(f, n)
    /\ IF RemoveStaged(vol, f, n).bad # "" THEN UNCHANGED <<stat, told, late>>
       ELSE /\ stat' = [stat EXCEPT ![f] = set_inode_time(@, "c", now)]
            /\ told' = [told EXCEPT ![f].time["c"] = Stamp(stat[f], "c", now)]
            /\ late' = late \ {f}

AllInit ==
    /\ Init
    /\ stat \in { s \in StatStarts : \A f \in Files : vol.file[f].extra <=> s[f].isize # 0 }
    /\ told = [f \in Files |-> Parse(stat[f])]
    /\ late = {}

AllNext ==
    \/ \E f \in Statted, perm \in Perms, now \in Clocks : apply_chmod(f, perm, now)
    \/ \E f \in Statted, uid, gid \in Owners, now \in Clocks : apply_chown(f, uid, gid, now)
    \/ \E f \in Statted, flags \in SUBSET Flags, now \in Clocks : apply_set_flags(f, flags, now)
    \/ \E f \in Statted, p \in Times, now \in Clocks : apply_utimens(f, p[1], p[2], now)
    \/ \E f \in Files, n \in Attrs, v \in Values, now \in Clocks : setxattr(f, n, v, now)
    \/ \E f \in Files, n \in Attrs, now \in Clocks : removexattr(f, n, now)
    \/ \E f \in Files : Delete(f) /\ UNCHANGED <<stat, told, late>>

AllSpec == AllInit /\ [][AllNext]_allvars

----------------------------------------------------------------------------
(* Properties *)

\* A stat returns what the calls set, the times included: before 1970 and
\* past 2038, in an inode with all, some or none of the extra fields, and
\* across the setxattr that adds them.  What the inode cannot hold is refused
\* and changes nothing.  Every change of an attribute shows in ctime, but for
\* one: a setxattr whose value stays in the inode leaves it, until the next
\* change (apply_setxattr stamps it on its other paths).
StatAsSet ==
    \A f \in Files : vol.file[f].live =>
        told[f] = [Parse(stat[f]) EXCEPT !.time["c"] = IF f \in late THEN told[f].time["c"] ELSE @]
=============================================================================
