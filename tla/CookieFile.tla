----------------------------- MODULE CookieFile -----------------------------
(***************************************************************************)
(* The rendezvous file at byte level (CookieFile and Cookie::extract in   *)
(* src/ipc/src/lib.rs): one handle's cursor and the file's bytes through  *)
(* open, read, write (rewind, set_len(0), write_all(cookie),              *)
(* write_all(data)) and clear, each syscall able to fail and the process  *)
(* able to die between any two of them.                                   *)
(*                                                                         *)
(* Bytes are strings.  A cookie is CookieSize bytes of CookieBytes (32 in *)
(* the code).  The address text "127.0.0.1:<port>" is Host followed by    *)
(* port digits: a prefix of it that keeps Host and a digit still parses.  *)
(***************************************************************************)
EXTENDS Naturals, Sequences, SequencesExt

CONSTANTS
    CookieSize,    \* Cookie::SIZE
    CookieBytes,   \* bytes a cookie is made of
    Digits,        \* port digits of the address text
    Host,          \* the address text before the port, as a sequence
    Hole,          \* the byte a write beyond the end leaves in the gap
    OldContents,   \* what the file may hold before the handle is opened
    AddrTexts,     \* address texts connect/bootstrap may write
    MaxRounds      \* open/.../drop rounds of the handle

Cookies == [1..CookieSize -> CookieBytes]
None    == [none |-> TRUE]
Some(k, rest) == [cookie |-> k, rest |-> rest]

VARIABLES
    disk,      \* the file's bytes
    pos,       \* the handle's cursor
    pc,        \* where the handle's owner is
    writing,   \* the cookie and data of the write in progress or last done
    got,       \* what the last read() returned
    truncated, \* set_len(0) of the current write has succeeded
    rounds     \* handles opened so far

vars == <<disk, pos, pc, writing, got, truncated, rounds>>

\* Mutant: extract with > where the code has >= (off by one).
ExtractStrict(buf) ==
    IF Len(buf) > CookieSize
      THEN Some(SubSeq(buf, 1, CookieSize), SubSeq(buf, CookieSize + 1, Len(buf)))
      ELSE None

(* Cookie::extract: split off the first Cookie::SIZE bytes, if there are. *)
Extract(buf) ==
    IF Len(buf) >= CookieSize
      THEN Some(SubSeq(buf, 1, CookieSize), SubSeq(buf, CookieSize + 1, Len(buf)))
      ELSE None

(* String::from_utf8(rest) and parse::<SocketAddr>() on the address text. *)
ParseAddr(t) ==
    /\ Len(t) > Len(Host)
    /\ SubSeq(t, 1, Len(Host)) = Host
    /\ \A i \in Len(Host) + 1 .. Len(t) : t[i] \in Digits

(* A write of bytes at offset p: a gap up to p is filled with Hole bytes. *)
WriteAt(d, p, bytes) ==
    [i \in 1 .. IF p + Len(bytes) > Len(d) THEN p + Len(bytes) ELSE Len(d) |->
        IF i <= p THEN (IF i <= Len(d) THEN d[i] ELSE Hole)
        ELSE IF i <= p + Len(bytes) THEN bytes[i - p]
        ELSE d[i]]

Bytes == CookieBytes \cup Digits \cup ToSet(Host) \cup {Hole}

TypeOK ==
    /\ disk \in Seq(Bytes)
    /\ pos \in Nat
    /\ pc \in {"closed", "open", "read", "rewound", "truncated", "cookie",
               "written", "cleared", "failed", "crashed"}
    /\ writing \in [cookie : Cookies, data : AddrTexts] \cup {None}
    /\ got \in {None} \cup [cookie : Seq(Bytes), rest : Seq(Bytes)]
    /\ truncated \in BOOLEAN
    /\ rounds \in 0..MaxRounds

Init ==
    /\ disk \in OldContents
    /\ pos = 0
    /\ pc = "closed"
    /\ writing = None
    /\ got = None
    /\ truncated = FALSE
    /\ rounds = 0

-----------------------------------------------------------------------------
(* CookieFile::open: open read+write, create if absent; the cursor is at  *)
(* the start.  Ending a previous round drops the old handle.              *)
Open ==
    /\ pc \in {"closed", "written", "cleared", "failed", "crashed"}
    /\ rounds < MaxRounds
    /\ rounds' = rounds + 1
    /\ pos' = 0
    /\ pc' = "open"
    /\ truncated' = FALSE
    /\ UNCHANGED <<disk, writing, got>>

(* CookieFile::read: read_to_end from the cursor, then Cookie::extract.   *)
Read ==
    /\ pc = "open"
    /\ got' = Extract(SubSeq(disk, pos + 1, Len(disk)))
    /\ pos' = Len(disk)
    /\ pc' = "read"
    /\ UNCHANGED <<disk, writing, truncated, rounds>>

(* CookieFile::write, first syscall: rewind.  It may fail.                *)
WriteRewind ==
    /\ pc = "read"
    /\ \E k \in Cookies, a \in AddrTexts : writing' = [cookie |-> k, data |-> a]
    /\ \/ pos' = 0 /\ pc' = "rewound"
       \/ pc' = "failed" /\ UNCHANGED pos
    /\ UNCHANGED <<disk, got, truncated, rounds>>

\* Mutant: write() without set_len(0); old bytes past the new end stay.
WriteTruncateSkipped ==
    /\ pc = "rewound"
    /\ pc' = "truncated"
    /\ truncated' = TRUE
    /\ UNCHANGED <<disk, pos, writing, got, rounds>>

(* set_len(0): truncates, leaving the cursor where it is.                 *)
WriteTruncate ==
    /\ pc = "rewound"
    /\ \/ disk' = <<>> /\ pc' = "truncated" /\ truncated' = TRUE
       \/ pc' = "failed" /\ UNCHANGED <<disk, truncated>>
    /\ UNCHANGED <<pos, writing, got, rounds>>

(* write_all(bytes) at the cursor: all of them, or an error after a      *)
(* prefix of them.                                                        *)
WriteAll(bytes, next) ==
    \E n \in 0 .. Len(bytes) :
        /\ disk' = WriteAt(disk, pos, SubSeq(bytes, 1, n))
        /\ pos' = pos + n
        /\ pc' = IF n = Len(bytes) THEN next ELSE "failed"

WriteCookie ==
    /\ pc = "truncated"
    /\ WriteAll(writing.cookie, "cookie")
    /\ UNCHANGED <<writing, got, truncated, rounds>>

WriteData ==
    /\ pc = "cookie"
    /\ WriteAll(writing.data, "written")
    /\ UNCHANGED <<writing, got, truncated, rounds>>

(* CookieFile::clear: set_len(0) without a rewind.                        *)
Clear ==
    /\ pc = "read"
    /\ \/ disk' = <<>> /\ pc' = "cleared"
       \/ pc' = "failed" /\ UNCHANGED disk
    /\ UNCHANGED <<pos, writing, got, truncated, rounds>>

(* The owning process dies between two syscalls; the bytes stay.          *)
Crash ==
    /\ pc \in {"open", "read", "rewound", "truncated", "cookie"}
    /\ pc' = "crashed"
    /\ UNCHANGED <<disk, pos, writing, got, truncated, rounds>>

Next ==
    \/ Open \/ Read \/ WriteRewind \/ WriteTruncate \/ WriteCookie
    \/ WriteData \/ Clear \/ Crash

Spec == Init /\ [][Next]_vars

-----------------------------------------------------------------------------
(* What the next CookieFile::open + read sees.                            *)
NextRead == Extract(disk)

(* Round trip (spec section 8): once write(cookie, addr) has returned Ok, *)
(* reading the file yields exactly that cookie and that address, whatever *)
(* longer or shorter content the file held before.                        *)
RoundTrip ==
    pc = "written" => NextRead = Some(writing.cookie, writing.data)

(* Cookie::extract agrees with its definition: take bytes one at a time  *)
(* until Cookie::SIZE are in hand; the rest is what is left, and a buffer *)
(* that runs out first holds no cookie.  Checked on the file's bytes in   *)
(* every state and on every short buffer around the boundary.             *)
RECURSIVE ExtractRef(_, _)
ExtractRef(acc, rest) ==
    IF Len(acc) = CookieSize THEN Some(acc, rest)
    ELSE IF rest = <<>> THEN None
    ELSE ExtractRef(Append(acc, Head(rest)), Tail(rest))
ExtractCorrect ==
    \A buf \in {disk} \cup UNION {[1..n -> CookieBytes] : n \in 0 .. CookieSize + 1} :
        Extract(buf) = ExtractRef(<<>>, buf)

(* Spec section 4.2: a write cut short leaves a file readers treat as "no *)
(* record": it reads as no cookie, or as a cookie whose rest is no        *)
(* address, or as the full record being written.                          *)
TornWriteIsNoRecord ==
    (pc \in {"failed", "crashed"} /\ truncated /\ NextRead # None) =>
        \/ ~ParseAddr(NextRead.rest)
        \/ NextRead = Some(writing.cookie, writing.data)
=============================================================================
