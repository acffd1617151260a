------------------------------- MODULE AuditLog -------------------------------
(***************************************************************************)
(* engines/audit.py: the hash-chained, append-only audit log, across       *)
(* process lives.                                                          *)
(*                                                                         *)
(* Coroutines (Writers) append records through AuditEngine._append: the    *)
(* record is built and the in-memory chain head advanced under an asyncio  *)
(* lock, then the line is appended and the high-water mark replaced, each  *)
(* in a worker thread the coroutine awaits with the lock held.  Threads    *)
(* outlive a cancelled coroutine.  The process may die at any point, and   *)
(* as nothing is fsynced the machine may take back what any file had; what *)
(* is left is judged by the next on_startup.  A process may also serve     *)
(* without on_startup: it then has no lock and resumes from nothing.       *)
(*                                                                         *)
(* chain_hash is collision free, so a record's hash is represented by its  *)
(* entry_id, drawn fresh (id); a MAC by the key that made it.              *)
(***************************************************************************)
EXTENDS Naturals, Sequences, FiniteSets

CONSTANTS
    Writers,          \* the coroutines that write records
    NoWriter,         \* the asyncio lock is free
    Keys,             \* HMAC keys an operator may deploy
    NoKey,            \* ARMOR_AUDIT_HMAC_KEY (or _PREV) is unset
    KeyConfigs,       \* the [cur, prev] pairs a boot may find in the environment
    BareConfigs,      \* those a process that never calls on_startup may find
    VerifyOnStartup,  \* chain_verify_on_startup
    RequireHmac,      \* T12.require_hmac_key, and no ARMOR_AUDIT_ALLOW_UNSIGNED
    MaxRecords,       \* bound: records ever built
    MaxIOErrors,      \* bound: failed appends and failed sidecar writes
    MaxCancels        \* bound: cancelled _append calls

Genesis == 0          \* the "0" * 64 hash before the first record
MaybeKey == Keys \cup {NoKey}
Record == [seq : Nat, id : Nat, prev : Nat, mac : MaybeKey]
NoRecord == [seq |-> 0, id |-> Genesis, prev |-> Genesis, mac |-> NoKey]
Sidecar == [count : Nat, head : Nat, mac : MaybeKey]
NoSidecar == [count |-> 0, head |-> Genesis, mac |-> NoKey]
Garbled == [count |-> 0, head |-> 1, mac |-> NoKey]  \* a sidecar that is no JSON
Job == [kind : {"append", "hwm"}, rec : Record]

ASSUME WritersAssumption == NoWriter \notin Writers
ASSUME KeysAssumption == NoKey \notin Keys
ASSUME ConfigsAssumption ==
    KeyConfigs \subseteq [cur : MaybeKey, prev : MaybeKey] /\ BareConfigs \subseteq KeyConfigs
ASSUME SwitchesAssumption == VerifyOnStartup \in BOOLEAN /\ RequireHmac \in BOOLEAN
ASSUME BoundsAssumption ==
    MaxRecords \in Nat /\ MaxIOErrors \in Nat /\ MaxCancels \in Nat

VARIABLES
    (* on disk *)
    log,        \* the lines of the log, in file order; NoRecord if unreadable
    logExists,  \* the log file exists (it may be empty)
    unended,    \* the last line has no newline: the next one is glued to it
    hwm,        \* the .hwm sidecar; NoSidecar stands for an absent file
    marker,     \* the .hmac_enabled file exists
    (* in the process *)
    proc,       \* where the process is: down, in on_startup, up, refused, or
                \* bare: it serves and never called on_startup
    conf,       \* the keys this boot read
    seq,        \* AuditEngine._seq
    prevHash,   \* AuditEngine._prev_hash
    holder,     \* who holds _async_lock
    pc,         \* where each coroutine is in _append
    pending,    \* the record each coroutine is persisting
    orphans,    \* thread jobs whose coroutine was cancelled
    (* history, read by properties only *)
    nextId,     \* the next entry_id to draw
    acked,      \* records whose _append returned
    ioErrors, cancels,
    lost,       \* what power failures have taken back: lines, mark, marker
    marks,      \* the sidecars there have been since the last power failure
    bareLife    \* some process has served without on_startup

disk == <<log, logExists, unended, hwm, marker>>
memory == <<conf, seq, prevHash, holder, pc, pending, orphans>>
faults == <<ioErrors, cancels>>
history == <<nextId, acked, lost, marks, bareLife>>
vars == <<disk, proc, memory, faults, history>>

ProcStates == {"down", "verify", "reanchor", "up", "refused", "bare"}
WriterStates == {"idle", "waiting", "append", "hwm"}

TypeOK ==
    /\ log \in Seq(Record) /\ logExists \in BOOLEAN /\ unended \in BOOLEAN
    /\ unended => log # <<>>
    /\ ~logExists => log = <<>>
    /\ hwm \in Sidecar /\ marker \in BOOLEAN
    /\ proc \in ProcStates
    /\ conf \in [cur : MaybeKey, prev : MaybeKey]
    /\ seq \in Nat /\ prevHash \in Nat
    /\ holder \in Writers \cup {NoWriter}
    /\ pc \in [Writers -> WriterStates]
    /\ pending \in [Writers -> Record]
    /\ orphans \subseteq Job
    /\ nextId \in Nat /\ acked \subseteq Record
    /\ ioErrors \in Nat /\ cancels \in Nat
    /\ lost \subseteq {"lines", "mark", "marker"} /\ marks \subseteq Sidecar
    /\ bareLife \in BOOLEAN

-------------------------------------------------------------------------------
(* Verification of what is on disk.                                        *)

HeadAt(l, i) == IF i = 0 THEN Genesis ELSE l[i].id

(* Every line of the file is a JSON record.                                *)
Legible(l) == \A i \in 1..Len(l) : l[i] # NoRecord

Continues(l, i) == l[i].seq = i - 1 /\ l[i].prev = HeadAt(l, i - 1)

ChainOK(l) == Legible(l) /\ \A i \in 1..Len(l) : Continues(l, i)

(* A MAC is checked only when a key is configured, against that key or the *)
(* previous one; a missing MAC then never passes.                          *)
MacOK(mac, c) == c.cur = NoKey \/ mac \in {c.cur, c.prev} \ {NoKey}

(* Mutant of HwmOK: a file one record short of the mark passes.            *)
HwmOKOneShort(l, h, c) ==
    IF h = NoSidecar THEN l = <<>>
    ELSE h # Garbled /\ MacOK(h.mac, c) /\ Len(l) + 1 >= h.count

(* The sidecar against the file: absent only beside an empty log, never    *)
(* ahead of the file, and naming the head of a file of its own length.     *)
HwmOK(l, h, c) ==
    IF h = NoSidecar THEN l = <<>>
    ELSE /\ h # Garbled
         /\ MacOK(h.mac, c)
         /\ Len(l) >= h.count
         /\ Len(l) = h.count => HeadAt(l, Len(l)) = h.head

(* _sync_verify_chain finds nothing wrong.  A log that was ever signed is   *)
(* not accepted without a key.                                             *)
Verifies(c) ==
    /\ marker => c.cur # NoKey
    /\ ChainOK(log)
    /\ \A i \in 1..Len(log) : MacOK(log[i].mac, c)
    /\ HwmOK(log, hwm, c)

-------------------------------------------------------------------------------
Init ==
    /\ log = <<>> /\ logExists = FALSE /\ unended = FALSE
    /\ hwm = NoSidecar /\ marker = FALSE
    /\ proc = "down"
    /\ conf = [cur |-> NoKey, prev |-> NoKey]
    /\ seq = 0 /\ prevHash = Genesis
    /\ holder = NoWriter /\ pc = [w \in Writers |-> "idle"]
    /\ pending = [w \in Writers |-> NoRecord] /\ orphans = {}
    /\ nextId = 1 /\ acked = {}
    /\ ioErrors = 0 /\ cancels = 0
    /\ lost = {} /\ marks = {NoSidecar} /\ bareLife = FALSE

-------------------------------------------------------------------------------
(* What the thread jobs do to the files.                                   *)

(* What the file has once a line, or part of one, follows a last line that *)
(* has no newline: the two are one line, and no JSON.                      *)
Glued == [log EXCEPT ![Len(log)] = NoRecord]

(* Record r and its newline reach the end of the file.                     *)
WritesLine(r) ==
    /\ logExists' = TRUE
    /\ unended' = FALSE
    /\ log' = IF unended THEN Glued ELSE Append(log, r)

(* Only part of the line does: some of the record, or all but the newline. *)
WritesPart(r) ==
    /\ logExists' = TRUE
    /\ unended' = TRUE
    /\ \/ unended /\ log' = Glued
       \/ ~unended /\ log' = Append(log, NoRecord)
       \/ ~unended /\ log' = Append(log, r)

(* A write that does not succeed: the file may have been opened, and part  *)
(* of the line may be in it.                                               *)
WriteStops(r) ==
    \/ UNCHANGED <<log, unended>> /\ logExists' \in {logExists, TRUE}
    \/ WritesPart(r)

(* The sidecar is replaced whole.                                          *)
Replaces(h) == hwm' = h /\ marks' = marks \cup {h}

-------------------------------------------------------------------------------
(* on_startup.                                                             *)

(* Mutant of MarkerAfter: the first keyed boot does not leave the marker.  *)
MarkerNotLeft(c) == marker

MarkerAfter(c) == marker \/ c.cur # NoKey

(* The synchronous checks, up to the branch that verifies or seeds.        *)
BootChecks(c) ==
    /\ proc = "down"
    /\ conf' = c
    /\ \/ /\ RequireHmac /\ c.cur = NoKey
          /\ proc' = "refused"
          /\ UNCHANGED marker
       \/ /\ ~(RequireHmac /\ c.cur = NoKey)
          /\ VerifyOnStartup /\ ~logExists /\ (hwm # NoSidecar \/ marker)
          /\ proc' = "refused"
          /\ UNCHANGED marker
       \/ /\ ~(RequireHmac /\ c.cur = NoKey)
          /\ ~(VerifyOnStartup /\ ~logExists /\ (hwm # NoSidecar \/ marker))
          /\ marker' = MarkerAfter(c)
          /\ proc' = "verify"
    /\ UNCHANGED <<log, logExists, unended, hwm, seq, prevHash, holder, pc, pending,
                   orphans, faults, history>>

(* _verify_chain_async up to the re-anchoring, in the branch that has a    *)
(* log to verify.                                                          *)
BootVerify ==
    /\ proc = "verify" /\ VerifyOnStartup /\ logExists
    /\ \/ /\ ~Verifies(conf)
          /\ proc' = "refused"
          /\ UNCHANGED <<seq, prevHash>>
       \/ /\ Verifies(conf)
          /\ seq' = Len(log) /\ prevHash' = HeadAt(log, Len(log))
          /\ proc' = IF log = <<>> THEN "up" ELSE "reanchor"
    /\ UNCHANGED <<disk, conf, holder, pc, pending, orphans, faults, history>>

(* _seed_state: count the lines and take the last hash, no verification.   *)
BootSeed ==
    /\ proc = "verify" /\ ~(VerifyOnStartup /\ logExists)
    /\ \/ /\ ~Legible(log)
          /\ proc' = "refused"
          /\ UNCHANGED <<seq, prevHash>>
       \/ /\ Legible(log)
          /\ seq' = Len(log) /\ prevHash' = HeadAt(log, Len(log))
          /\ proc' = "up"
    /\ UNCHANGED <<disk, conf, holder, pc, pending, orphans, faults, history>>

(* The verified tail is written back to the sidecar, signed with the       *)
(* current key.                                                            *)
BootReanchor ==
    /\ proc = "reanchor"
    /\ Replaces([count |-> seq, head |-> prevHash, mac |-> conf.cur])
    /\ proc' = "up"
    /\ UNCHANGED <<log, logExists, unended, marker, memory, faults, nextId, acked, lost,
                   bareLife>>

BootReanchorFails ==
    /\ proc = "reanchor" /\ ioErrors < MaxIOErrors
    /\ ioErrors' = ioErrors + 1
    /\ proc' = "refused"
    /\ UNCHANGED <<disk, memory, cancels, history>>

(* A process that serves requests and never runs on_startup: the hook, the *)
(* dispatcher, protect, a server without lifespan events.  It has read the *)
(* keys, has no _async_lock, and starts a chain of its own.                *)
StartBare(c) ==
    /\ proc = "down"
    /\ conf' = c
    /\ proc' = "bare"
    /\ bareLife' = TRUE
    /\ UNCHANGED <<disk, seq, prevHash, holder, pc, pending, orphans, faults, nextId, acked,
                   lost, marks>>

Boot ==
    \/ \E c \in KeyConfigs : BootChecks(c)
    \/ \E c \in BareConfigs : StartBare(c)
    \/ BootVerify
    \/ BootSeed
    \/ BootReanchor
    \/ BootReanchorFails

-------------------------------------------------------------------------------
(* _append, run by coroutine w.                                            *)

Serving == proc \in {"up", "bare"}
Waiting == {w \in Writers : pc[w] = "waiting"}

Call(w) ==
    /\ Serving /\ pc[w] = "idle"
    /\ nextId + Cardinality(Waiting) <= MaxRecords
    /\ pc' = [pc EXCEPT ![w] = "waiting"]
    /\ UNCHANGED <<disk, proc, conf, seq, prevHash, holder, pending, orphans, faults, history>>

(* _write: the record is built on the current head and the head moves past *)
(* it, before anything is on disk.                                         *)
WriteRecord(w) ==
    /\ pending' = [pending EXCEPT ![w] = [seq |-> seq, id |-> nextId, prev |-> prevHash,
                                          mac |-> conf.cur]]
    /\ prevHash' = nextId
    /\ seq' = seq + 1
    /\ nextId' = nextId + 1

(* The lock is taken and _write runs to its end without yielding.  Without *)
(* on_startup there is no _async_lock, and w locks one it has just made.   *)
TakeLock(w) ==
    /\ Serving /\ pc[w] = "waiting"
    /\ holder' = IF proc = "up" THEN w ELSE holder
    /\ WriteRecord(w)
    /\ pc' = [pc EXCEPT ![w] = "append"]
    /\ UNCHANGED <<disk, proc, conf, orphans, faults, acked, lost, marks, bareLife>>

(* Mutant of Acquire: _append without "async with lock".                   *)
AcquireNoLock(w) == TakeLock(w)

Acquire(w) == (proc = "up" => holder = NoWriter) /\ TakeLock(w)

(* Mutant of Release: a failed append leaves without releasing the lock.   *)
ReleaseUnlessFailed(w) ==
    /\ pc' = [pc EXCEPT ![w] = "idle"]
    /\ holder' = IF pc[w] = "append" THEN holder ELSE NoWriter
    /\ pending' = [pending EXCEPT ![w] = NoRecord]

(* _append is over for w, normally or by an exception.                     *)
Release(w) ==
    /\ pc' = [pc EXCEPT ![w] = "idle"]
    /\ holder' = NoWriter
    /\ pending' = [pending EXCEPT ![w] = NoRecord]

AppendDone(w) ==
    /\ Serving /\ pc[w] = "append"
    /\ WritesLine(pending[w])
    /\ pc' = [pc EXCEPT ![w] = "hwm"]
    /\ UNCHANGED <<hwm, marker, proc, conf, seq, prevHash, holder, pending, orphans, faults,
                   history>>

(* open() or write() raises.  The head moved by _write is not moved back.  *)
AppendFails(w) ==
    /\ Serving /\ pc[w] = "append" /\ ioErrors < MaxIOErrors
    /\ ioErrors' = ioErrors + 1
    /\ WriteStops(pending[w])
    /\ Release(w)
    /\ UNCHANGED <<hwm, marker, proc, conf, seq, prevHash, orphans, cancels, history>>

(* Mutants of Anchor: the count is not moved past the record, or too far.  *)
AnchorBehind(r) == [count |-> r.seq - 1, head |-> r.id, mac |-> r.mac]
AnchorAhead(r) == [count |-> r.seq + 2, head |-> r.id, mac |-> r.mac]

Anchor(r) == [count |-> r.seq + 1, head |-> r.id, mac |-> r.mac]

HwmDone(w) ==
    /\ Serving /\ pc[w] = "hwm"
    /\ Replaces(Anchor(pending[w]))
    /\ acked' = acked \cup {pending[w]}
    /\ Release(w)
    /\ UNCHANGED <<log, logExists, unended, marker, proc, conf, seq, prevHash, orphans, faults,
                   nextId, lost, bareLife>>

HwmFails(w) ==
    /\ Serving /\ pc[w] = "hwm" /\ ioErrors < MaxIOErrors
    /\ ioErrors' = ioErrors + 1
    /\ Release(w)
    /\ UNCHANGED <<disk, proc, conf, seq, prevHash, orphans, cancels, history>>

(* The coroutine is cancelled at an await.  Waiting for the lock, it just  *)
(* leaves; awaiting a thread, it releases the lock while the thread runs   *)
(* on, unless the thread had not started.                                  *)
CancelWaiting(w) ==
    /\ Serving /\ pc[w] = "waiting" /\ cancels < MaxCancels
    /\ cancels' = cancels + 1
    /\ pc' = [pc EXCEPT ![w] = "idle"]
    /\ UNCHANGED <<disk, proc, conf, seq, prevHash, holder, pending, orphans, ioErrors, history>>

CancelHolder(w) ==
    /\ Serving /\ pc[w] \in {"append", "hwm"} /\ cancels < MaxCancels
    /\ cancels' = cancels + 1
    /\ orphans' \in {orphans, orphans \cup {[kind |-> pc[w], rec |-> pending[w]]}}
    /\ Release(w)
    /\ UNCHANGED <<disk, proc, conf, seq, prevHash, ioErrors, history>>

OrphanAppend(j) ==
    /\ Serving /\ j \in orphans /\ j.kind = "append"
    /\ WritesLine(j.rec)
    /\ orphans' = orphans \ {j}
    /\ UNCHANGED <<hwm, marker, proc, conf, seq, prevHash, holder, pc, pending, faults, history>>

OrphanHwm(j) ==
    /\ Serving /\ j \in orphans /\ j.kind = "hwm"
    /\ Replaces(Anchor(j.rec))
    /\ orphans' = orphans \ {j}
    /\ UNCHANGED <<log, logExists, unended, marker, proc, conf, seq, prevHash, holder, pc,
                   pending, faults, nextId, acked, lost, bareLife>>

(* Its thread fails, with nobody left to be told.                          *)
OrphanFails(j) ==
    /\ Serving /\ j \in orphans /\ ioErrors < MaxIOErrors
    /\ ioErrors' = ioErrors + 1
    /\ IF j.kind = "append" THEN WriteStops(j.rec) ELSE UNCHANGED <<log, logExists, unended>>
    /\ orphans' = orphans \ {j}
    /\ UNCHANGED <<hwm, marker, proc, conf, seq, prevHash, holder, pc, pending, cancels, history>>

AppendCall(w) ==
    \/ Call(w) \/ Acquire(w)
    \/ AppendDone(w) \/ AppendFails(w)
    \/ HwmDone(w) \/ HwmFails(w)
    \/ CancelWaiting(w) \/ CancelHolder(w)

-------------------------------------------------------------------------------
(* The environment.                                                        *)

(* The records whose line a thread is writing.                             *)
Appending ==
    {pending[w] : w \in {v \in Writers : pc[v] = "append"}}
        \cup {j.rec : j \in {o \in orphans : o.kind = "append"}}

(* The process ends at any point, an append in progress with it.           *)
Crash ==
    /\ proc # "down"
    /\ proc' = "down"
    /\ conf' = [cur |-> NoKey, prev |-> NoKey]
    /\ seq' = 0 /\ prevHash' = Genesis
    /\ holder' = NoWriter /\ pc' = [w \in Writers |-> "idle"]
    /\ pending' = [w \in Writers |-> NoRecord] /\ orphans' = {}
    /\ \/ UNCHANGED <<log, logExists, unended>>
       \/ \E r \in Appending : WriteStops(r)
    /\ UNCHANGED <<hwm, marker, faults, history>>

(* The log may end anywhere: after line n, before its newline, or within   *)
(* the line that follows it.                                               *)
EndsAfter(n) ==
    \/ log' = SubSeq(log, 1, n) /\ ~unended' /\ (n = Len(log) => ~unended)
    \/ n > 0 /\ log' = SubSeq(log, 1, n) /\ unended'
    \/ n < Len(log) /\ log' = Append(SubSeq(log, 1, n), NoRecord) /\ unended'

Holds(l, r) == \E i \in 1..Len(l) : l[i] = r

(* The machine stops too.  Nothing is fsynced, so the disk may come back   *)
(* with the log cut anywhere, or gone; with any sidecar there has been     *)
(* since the last such failure, or an unreadable one; without the marker.  *)
(* From the first loss of a mark on, a record neither the mark nor the log *)
(* knows of is forgotten, and no longer asked for.                         *)
PowerFails(n) ==
    /\ proc = "down"
    /\ unended' \in BOOLEAN /\ EndsAfter(n)
    /\ logExists' \in IF log' = <<>> THEN {logExists, FALSE} ELSE {TRUE}
    /\ hwm' \in marks \cup (IF hwm = NoSidecar THEN {} ELSE {Garbled})
    /\ marks' = {hwm'}
    /\ marker' \in {marker, FALSE}
    /\ lost' = lost \cup (IF <<log', unended', logExists'>> = <<log, unended, logExists>>
                          THEN {} ELSE {"lines"})
                    \cup (IF hwm' = hwm THEN {} ELSE {"mark"})
                    \cup (IF marker' = marker THEN {} ELSE {"marker"})
    /\ acked' = {r \in acked : "mark" \in lost' => r.seq < hwm'.count \/ Holds(log', r)}
    /\ UNCHANGED <<proc, memory, faults, nextId, bareLife>>

Next ==
    \/ Boot
    \/ \E w \in Writers : AppendCall(w)
    \/ \E j \in orphans : OrphanAppend(j) \/ OrphanHwm(j) \/ OrphanFails(j)
    \/ Crash
    \/ \E n \in 0..Len(log) : PowerFails(n)

(* Threads finish and on_startup runs to its end; asyncio.Lock is FIFO, so *)
(* a coroutine that keeps waiting gets the lock.                           *)
Fairness ==
    /\ WF_vars(BootVerify \/ BootSeed \/ BootReanchor)
    /\ \A w \in Writers :
        /\ SF_vars(Acquire(w))
        /\ WF_vars(AppendDone(w) \/ AppendFails(w))
        /\ WF_vars(HwmDone(w) \/ HwmFails(w))

SafetySpec == Init /\ [][Next]_vars
Spec == SafetySpec /\ Fairness

-------------------------------------------------------------------------------
(* Properties.                                                             *)

(* The lines up to the first unreadable one are a hash chain.              *)
Sound(l) ==
    \A i \in 1..Len(l) : (\A k \in 1..i : l[k] # NoRecord) => Continues(l, i)

(* As long as no write failed and no call was cancelled, whatever the      *)
(* interleaving of writers, the crashes and the power failures, the file   *)
(* is a hash chain up to the first line a crash or a power failure spoilt: *)
(* the lock held across _write and the append makes file order the chain   *)
(* order, and every boot resumes from the file's end.  A process that      *)
(* skipped on_startup has neither, and may leave a file that is no chain;  *)
(* a process that is up has verified one even after such a process.        *)
ChainContiguous ==
    /\ ioErrors = 0 /\ cancels = 0
    /\ ~bareLife \/ (VerifyOnStartup /\ proc = "up")
    => Sound(log)

Kept == Legible(log) => \A r \in acked : Holds(log, r)

(* A record whose _append returned is in the file for good, unless a line  *)
(* has become unreadable or a power failure took lines back.  Where every  *)
(* boot verifies and no call is cancelled, the loss of lines is caught: a  *)
(* process is up only if the file has every record acknowledged in any     *)
(* earlier life, but for those a power failure forgot with their mark.     *)
AckedSurvive ==
    /\ "lines" \notin lost => Kept
    /\ VerifyOnStartup /\ cancels = 0 /\ ~bareLife /\ proc = "up" => Kept

(* From the first high-water mark on, and without a power failure, a       *)
(* verifying boot accepts what a crash at any point left, under any keys   *)
(* that cover those in use, if and only if the crash left no line cut      *)
(* short (nor a later append glued to one without newline): the mark never *)
(* runs ahead of the file.                                                 *)
Covers(c) ==
    /\ marker => c.cur # NoKey
    /\ \A i \in 1..Len(log) : MacOK(log[i].mac, c)
    /\ MacOK(hwm.mac, c)

RestartAccepted ==
    ioErrors = 0 /\ cancels = 0 /\ lost = {} /\ ~bareLife /\ hwm # NoSidecar
        => /\ logExists
           /\ \A c \in KeyConfigs : Covers(c) => (Verifies(c) <=> Legible(log))

(* Signing is sticky: no unsigned record ever follows a signed one, across *)
(* boots with any keys, because the marker outlives the process.  A power  *)
(* failure may take the marker, and a process without on_startup ignores   *)
(* it.                                                                     *)
SigningSticky ==
    VerifyOnStartup /\ ~bareLife /\ "marker" \notin lost =>
        \A i, j \in 1..Len(log) :
            i < j /\ log[i].mac # NoKey /\ log[j] # NoRecord => log[j].mac # NoKey

(* Every _append call ends, by return, exception, cancellation or the end  *)
(* of the process: no failure path keeps the lock.                         *)
CallsEnd == \A w \in Writers : pc[w] = "waiting" ~> pc[w] = "idle"

Trail == INSTANCE AuditTrail WITH
    Unreadable <- NoRecord, trail <- log, acked <- acked, open <- (proc = "up")

(* The engine implements the abstract trail.                               *)
ImplementsTrail == Trail!Spec
===============================================================================
