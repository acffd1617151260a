---------------------------- MODULE AuditLog_proofs ----------------------------
(***************************************************************************)
(* Theorems about AuditLog, for any writers, keys, bounds and switches.    *)
(***************************************************************************)
EXTENDS AuditLog, TLAPS, SequenceTheorems

-------------------------------------------------------------------------------
(* What a step does to the file.                                           *)

(* Every line of a log is a record, and so is its head hash a hash.        *)
LEMMA LogElements ==
    ASSUME NEW l \in Seq(Record)
    PROVE  /\ Len(l) \in Nat
           /\ \A i \in 1..Len(l) : l[i] \in Record
           /\ HeadAt(l, Len(l)) \in Nat
  <1>1. Len(l) \in Nat /\ \A i \in 1..Len(l) : l[i] \in Record
    BY LenProperties, ElementOfSeq
  <1>2. HeadAt(l, Len(l)) \in Nat
    BY <1>1 DEF HeadAt, Genesis, Record
  <1>. QED  BY <1>1, <1>2

LEMMA UnreadableIsRecord == NoRecord \in Record /\ NoRecord.mac = NoKey
  BY DEF NoRecord, Record, Genesis, MaybeKey

(* m begins like l up to n.                                                *)
SameUpTo(m, l, n) == \A i \in 1..n : m[i] = l[i]

(* m is l and one more line, r.                                            *)
Extends(m, l, r) == Len(m) = Len(l) + 1 /\ SameUpTo(m, l, Len(l)) /\ m[Len(l) + 1] = r

(* m ends where l does, after the first n lines of l or in an unreadable   *)
(* line put behind them.                                                   *)
CutTo(m, l, n) ==
    /\ SameUpTo(m, l, n)
    /\ Len(m) = n \/ (Len(m) = n + 1 /\ m[n + 1] = NoRecord)

(* m is l, its last line spoilt.                                           *)
Spoils(m, l) ==
    Len(l) # 0 /\ Len(m) = Len(l) /\ SameUpTo(m, l, Len(l) - 1) /\ m[Len(l)] = NoRecord

LEMMA AppendExtends ==
    ASSUME NEW l \in Seq(Record), NEW r \in Record
    PROVE  Append(l, r) \in Seq(Record) /\ Extends(Append(l, r), l, r)
    BY AppendProperties DEF Extends, SameUpTo

LEMMA GluedSpoils ==
    ASSUME log \in Seq(Record), log # <<>>
    PROVE  Glued \in Seq(Record) /\ Spoils(Glued, log)
  <1>1. Len(log) \in Nat /\ Len(log) # 0
    BY LogElements, EmptySeq
  <1>2. Len(log) \in 1..Len(log)
    BY <1>1
  <1>3. /\ Glued \in Seq(Record) /\ Len(Glued) = Len(log)
        /\ \A i \in 1..Len(log) : Glued[i] = IF i = Len(log) THEN NoRecord ELSE log[i]
    BY <1>2, UnreadableIsRecord, ExceptSeq DEF Glued
  <1>4. \A i \in 1..(Len(log) - 1) : i \in 1..Len(log) /\ i # Len(log)
    BY <1>1
  <1>. QED
    BY <1>1, <1>2, <1>3, <1>4 DEF Spoils, SameUpTo

(* A whole line goes to the end, or makes one with the unended line there. *)
LEMMA LineIsWritten ==
    ASSUME TypeOK, NEW r \in Record, WritesLine(r)
    PROVE  /\ log' \in Seq(Record) /\ log' # <<>>
           /\ logExists' = TRUE /\ unended' = FALSE
           /\ Extends(log', log, r) \/ Spoils(log', log)
           /\ log' = Append(log, r) \/ (log # <<>> /\ log' = Glued)
  <1>1. log \in Seq(Record) /\ (unended => log # <<>>)
    BY DEF TypeOK
  <1>2. CASE unended
    <2>1. log' = Glued /\ log # <<>>
      BY <1>1, <1>2 DEF WritesLine
    <2>2. Glued \in Seq(Record) /\ Spoils(Glued, log)
      BY <1>1, <2>1, GluedSpoils
    <2>3. Len(log') # 0
      BY <2>1, <2>2 DEF Spoils
    <2>. QED
      BY <2>1, <2>2, <2>3, EmptySeq DEF WritesLine
  <1>3. CASE ~unended
    <2>1. log' = Append(log, r)
      BY <1>3 DEF WritesLine
    <2>2. log' \in Seq(Record) /\ Extends(log', log, r)
      BY <1>1, <2>1, AppendExtends
    <2>3. Len(log) \in Nat /\ Len(log') = Len(log) + 1
      BY <1>1, <2>2, LogElements DEF Extends
    <2>4. log' # <<>>
      BY <2>3, EmptySeq
    <2>. QED
      BY <2>1, <2>2, <2>4 DEF WritesLine
  <1>. QED
    BY <1>2, <1>3

(* A write that stops leaves the file, or adds a line, or spoils the last. *)
LEMMA WriteIsStopped ==
    ASSUME TypeOK, NEW r \in Record, WriteStops(r)
    PROVE  /\ log' \in Seq(Record) /\ logExists' \in BOOLEAN /\ unended' \in BOOLEAN
           /\ unended' => log' # <<>>
           /\ ~logExists' => log' = <<>>
           /\ log # <<>> => log' # <<>>
           /\ \/ log' = log
              \/ Extends(log', log, r)
              \/ Extends(log', log, NoRecord)
              \/ Spoils(log', log)
           /\ \/ log' = log
              \/ log' = Append(log, r)
              \/ log' = Append(log, NoRecord)
              \/ log # <<>> /\ log' = Glued
  <1>1. /\ log \in Seq(Record) /\ logExists \in BOOLEAN /\ unended \in BOOLEAN
        /\ unended => log # <<>>
        /\ ~logExists => log = <<>>
        /\ Len(log) \in Nat
    BY LogElements DEF TypeOK
  <1>2. CASE UNCHANGED <<log, unended>> /\ logExists' \in {logExists, TRUE}
    BY <1>1, <1>2
  <1>3. CASE WritesPart(r)
    <2>1. logExists' = TRUE /\ unended' = TRUE
      BY <1>3 DEF WritesPart
    <2>2. CASE unended /\ log' = Glued
      <3>1. log # <<>> /\ log' \in Seq(Record) /\ Spoils(log', log)
        BY <1>1, <2>2, GluedSpoils
      <3>2. Len(log') # 0
        BY <3>1 DEF Spoils
      <3>. QED
        BY <2>1, <2>2, <3>1, <3>2, EmptySeq
    <2>3. ASSUME NEW x \in {r, NoRecord}, log' = Append(log, x)
          PROVE  log' \in Seq(Record) /\ Extends(log', log, x) /\ log' # <<>>
      <3>1. x \in Record
        BY UnreadableIsRecord
      <3>2. log' \in Seq(Record) /\ Extends(log', log, x)
        BY <1>1, <2>3, <3>1, AppendExtends
      <3>3. Len(log') # 0
        BY <1>1, <3>2 DEF Extends
      <3>. QED
        BY <3>2, <3>3, EmptySeq
    <2>4. log' = Append(log, r) \/ log' = Append(log, NoRecord) \/ (unended /\ log' = Glued)
      BY <1>3 DEF WritesPart
    <2>. QED
      BY <2>1, <2>2, <2>3, <2>4
  <1>. QED
    BY <1>2, <1>3 DEF WriteStops

(* A power failure cuts the log.                                           *)
LEMMA LogIsCut ==
    ASSUME log \in Seq(Record), NEW n \in 0..Len(log), EndsAfter(n)
    PROVE  log' \in Seq(Record) /\ CutTo(log', log, n)
  <1>1. /\ SubSeq(log, 1, n) \in Seq(Record)
        /\ Len(SubSeq(log, 1, n)) = n
        /\ \A i \in 1..n : SubSeq(log, 1, n)[i] = log[i]
    BY SubSeqProperties
  <1>2. CASE log' = SubSeq(log, 1, n)
    BY <1>1, <1>2 DEF CutTo, SameUpTo
  <1>3. CASE log' = Append(SubSeq(log, 1, n), NoRecord)
    <2>1. log' \in Seq(Record) /\ Extends(log', SubSeq(log, 1, n), NoRecord)
      BY <1>1, <1>3, UnreadableIsRecord, AppendExtends
    <2>. QED
      BY <1>1, <2>1 DEF CutTo, Extends, SameUpTo
  <1>. QED
    BY <1>2, <1>3 DEF EndsAfter

(* What those changes do to what a reader finds.                           *)
LEMMA ExtendedReads ==
    ASSUME NEW l \in Seq(Record), NEW m \in Seq(Record), NEW r, Extends(m, l, r)
    PROVE  /\ Legible(m) => Legible(l) /\ r # NoRecord
           /\ \A x : Holds(l, x) => Holds(m, x)
           /\ Holds(m, r)
           /\ \A i \in 1..Len(m) : (i \in 1..Len(l) /\ m[i] = l[i]) \/ m[i] = r
  <1>1. /\ Len(l) \in Nat /\ Len(m) = Len(l) + 1 /\ m[Len(l) + 1] = r
        /\ \A i \in 1..Len(l) : m[i] = l[i] /\ i \in 1..Len(m)
        /\ Len(l) + 1 \in 1..Len(m)
    BY LogElements DEF Extends, SameUpTo
  <1>2. \A i \in 1..Len(m) : i \in 1..Len(l) \/ i = Len(l) + 1
    BY <1>1
  <1>. QED
    BY <1>1, <1>2 DEF Legible, Holds

LEMMA SpoiltReads ==
    ASSUME NEW l \in Seq(Record), NEW m \in Seq(Record), Spoils(m, l)
    PROVE  /\ ~Legible(m)
           /\ \A i \in 1..Len(m) : (i \in 1..Len(l) /\ m[i] = l[i]) \/ m[i] = NoRecord
  <1>1. /\ Len(l) \in Nat /\ Len(l) # 0 /\ Len(m) = Len(l) /\ m[Len(l)] = NoRecord
        /\ \A i \in 1..(Len(l) - 1) : m[i] = l[i]
    BY LogElements DEF Spoils, SameUpTo
  <1>2. Len(m) \in 1..Len(m) /\ \A i \in 1..Len(m) : i \in 1..(Len(l) - 1) \/ i = Len(l)
    BY <1>1
  <1>. QED
    BY <1>1, <1>2 DEF Legible

LEMMA CutReads ==
    ASSUME NEW l \in Seq(Record), NEW m \in Seq(Record), NEW n \in 0..Len(l), CutTo(m, l, n)
    PROVE  \A i \in 1..Len(m) : (i \in 1..Len(l) /\ m[i] = l[i]) \/ m[i] = NoRecord
  <1>1. Len(l) \in Nat
    BY LogElements
  <1>2. \A i \in 1..Len(m) : i \in 1..n \/ (i = n + 1 /\ m[i] = NoRecord)
    BY <1>1 DEF CutTo
  <1>3. \A i \in 1..n : i \in 1..Len(l)
    BY <1>1
  <1>. QED
    BY <1>2, <1>3 DEF CutTo, SameUpTo

-------------------------------------------------------------------------------
(* The state is always well formed: in particular the in-memory head that  *)
(* a boot reads back from the file, and the sidecar it writes, are a count *)
(* and a hash, and a file that is gone has no lines.                       *)
THEOREM TypeCorrect == SafetySpec => []TypeOK
  <1>. USE DEF MaybeKey, ProcStates, WriterStates
  <1>1. Init => TypeOK
    <2>. SUFFICES ASSUME Init PROVE TypeOK
      OBVIOUS
    <2>1. log \in Seq(Record) /\ pending \in [Writers -> Record]
      BY EmptySeq, UnreadableIsRecord DEF Init
    <2>2. hwm \in Sidecar /\ marks \subseteq Sidecar
      BY DEF Init, Sidecar, NoSidecar, Genesis
    <2>3. conf \in [cur : MaybeKey, prev : MaybeKey]
      BY DEF Init
    <2>. QED
      BY <2>1, <2>2, <2>3 DEF Init, TypeOK, Genesis
  <1>2. TypeOK /\ [Next]_vars => TypeOK'
    <2>. SUFFICES ASSUME TypeOK, [Next]_vars PROVE TypeOK'
      OBVIOUS
    <2>a. \A w \in Writers : pending[w] \in Record
      BY DEF TypeOK
    <2>b. NoRecord \in Record
      BY UnreadableIsRecord
    <2>c. ASSUME NEW w \in Writers, Release(w)
          PROVE  pc' \in [Writers -> WriterStates] /\ pending' \in [Writers -> Record]
                 /\ holder' \in Writers \cup {NoWriter}
      BY <2>b, <2>c DEF Release, TypeOK
    <2>d. \A r \in Record : Anchor(r) \in Sidecar
      BY DEF Anchor, Record, Sidecar
    <2>1. ASSUME NEW c \in KeyConfigs, BootChecks(c) PROVE TypeOK'
      BY <2>1, ConfigsAssumption DEF BootChecks, MarkerAfter, faults, history, TypeOK
    <2>2. CASE BootVerify
      BY <2>2, LogElements DEF BootVerify, disk, faults, history, TypeOK
    <2>3. CASE BootSeed
      BY <2>3, LogElements DEF BootSeed, disk, faults, history, TypeOK
    <2>4. CASE BootReanchor
      <3>1. [count |-> seq, head |-> prevHash, mac |-> conf.cur] \in Sidecar
        BY DEF TypeOK, Sidecar
      <3>. QED
        BY <2>4, <3>1 DEF BootReanchor, Replaces, memory, faults, TypeOK
    <2>5. CASE BootReanchorFails
      BY <2>5 DEF BootReanchorFails, disk, memory, history, TypeOK
    <2>19. ASSUME NEW c \in BareConfigs, StartBare(c) PROVE TypeOK'
      BY <2>19, ConfigsAssumption DEF StartBare, disk, faults, TypeOK
    <2>6. ASSUME NEW w \in Writers, Call(w) PROVE TypeOK'
      BY <2>6 DEF Call, disk, faults, history, TypeOK
    <2>7. ASSUME NEW w \in Writers, Acquire(w) PROVE TypeOK'
      <3>1. [seq |-> seq, id |-> nextId, prev |-> prevHash, mac |-> conf.cur] \in Record
        BY DEF TypeOK, Record
      <3>2. pending' \in [Writers -> Record]
        BY <2>7, <3>1 DEF Acquire, TakeLock, WriteRecord, TypeOK
      <3>. QED
        BY <2>7, <3>2 DEF Acquire, TakeLock, WriteRecord, disk, faults, TypeOK
    <2>8. ASSUME NEW w \in Writers, AppendDone(w) PROVE TypeOK'
      BY <2>8, <2>a, LineIsWritten DEF AppendDone, faults, history, TypeOK
    <2>9. ASSUME NEW w \in Writers, AppendFails(w) PROVE TypeOK'
      <3>1. Release(w) /\ WriteStops(pending[w])
        BY <2>9 DEF AppendFails
      <3>2. /\ log' \in Seq(Record) /\ logExists' \in BOOLEAN /\ unended' \in BOOLEAN
            /\ unended' => log' # <<>>
            /\ ~logExists' => log' = <<>>
        BY <2>a, <3>1, WriteIsStopped
      <3>. QED
        BY <2>9, <2>c, <3>1, <3>2 DEF AppendFails, history, TypeOK
    <2>10. ASSUME NEW w \in Writers, HwmDone(w) PROVE TypeOK'
      BY <2>10, <2>a, <2>c, <2>d DEF HwmDone, Replaces, faults, TypeOK
    <2>11. ASSUME NEW w \in Writers, HwmFails(w) PROVE TypeOK'
      BY <2>11, <2>c DEF HwmFails, disk, history, TypeOK
    <2>12. ASSUME NEW w \in Writers, CancelWaiting(w) PROVE TypeOK'
      BY <2>12 DEF CancelWaiting, disk, history, TypeOK
    <2>13. ASSUME NEW w \in Writers, CancelHolder(w) PROVE TypeOK'
      <3>1. [kind |-> pc[w], rec |-> pending[w]] \in Job
        BY <2>13, <2>a DEF CancelHolder, Job
      <3>. QED
        BY <2>13, <2>c, <3>1 DEF CancelHolder, disk, history, TypeOK
    <2>14. ASSUME NEW j \in orphans, OrphanAppend(j) PROVE TypeOK'
      <3>1. j.rec \in Record
        BY DEF Job, TypeOK
      <3>. QED
        BY <2>14, <3>1, LineIsWritten DEF OrphanAppend, faults, history, TypeOK
    <2>15. ASSUME NEW j \in orphans, OrphanHwm(j) PROVE TypeOK'
      <3>1. Anchor(j.rec) \in Sidecar
        BY <2>d DEF Job, TypeOK
      <3>. QED
        BY <2>15, <3>1 DEF OrphanHwm, Replaces, faults, TypeOK
    <2>20. ASSUME NEW j \in orphans, OrphanFails(j) PROVE TypeOK'
      <3>1. j.rec \in Record
        BY DEF Job, TypeOK
      <3>2. WriteStops(j.rec) \/ UNCHANGED <<log, logExists, unended>>
        BY <2>20 DEF OrphanFails
      <3>3. /\ log' \in Seq(Record) /\ logExists' \in BOOLEAN /\ unended' \in BOOLEAN
            /\ unended' => log' # <<>>
            /\ ~logExists' => log' = <<>>
        BY <3>1, <3>2, WriteIsStopped DEF TypeOK
      <3>. QED
        BY <2>20, <3>3 DEF OrphanFails, history, TypeOK
    <2>16. CASE Crash
      <3>1. (\E r \in Record : WriteStops(r)) \/ UNCHANGED <<log, logExists, unended>>
        BY <2>16, <2>a DEF Crash, Appending, Job, TypeOK
      <3>2. /\ log' \in Seq(Record) /\ logExists' \in BOOLEAN /\ unended' \in BOOLEAN
            /\ unended' => log' # <<>>
            /\ ~logExists' => log' = <<>>
        BY <3>1, WriteIsStopped DEF TypeOK
      <3>. QED
        BY <2>16, <2>b, <3>2 DEF Crash, Genesis, faults, history, TypeOK
    <2>17. ASSUME NEW n \in 0..Len(log), PowerFails(n) PROVE TypeOK'
      <3>1. EndsAfter(n) /\ unended' \in BOOLEAN
        BY <2>17 DEF PowerFails
      <3>2. log' \in Seq(Record)
        BY <3>1, LogIsCut DEF TypeOK
      <3>3. unended' => log' # <<>>
        <4>1. Len(log) \in Nat
          BY LogElements DEF TypeOK
        <4>2. CASE n > 0 /\ log' = SubSeq(log, 1, n)
          <5>1. Len(log') = n
            BY <4>2, SubSeqProperties DEF TypeOK
          <5>. QED
            BY <4>1, <4>2, <5>1, EmptySeq
        <4>3. CASE log' = Append(SubSeq(log, 1, n), NoRecord)
          <5>1. SubSeq(log, 1, n) \in Seq(Record)
            BY SubSeqProperties DEF TypeOK
          <5>2. Extends(log', SubSeq(log, 1, n), NoRecord)
            BY <2>b, <4>3, <5>1, AppendExtends
          <5>3. Len(log') # 0
            BY <5>1, <5>2, LogElements DEF Extends
          <5>. QED
            BY <5>3, EmptySeq
        <4>. QED
          BY <3>1, <4>2, <4>3 DEF EndsAfter
      <3>4. logExists' \in BOOLEAN /\ (~logExists' => log' = <<>>)
        BY <2>17 DEF PowerFails, TypeOK
      <3>5. hwm' \in Sidecar /\ marks' \subseteq Sidecar
        <4>1. Garbled \in Sidecar
          BY DEF Garbled, Sidecar
        <4>. QED
          BY <2>17, <4>1 DEF PowerFails, TypeOK
      <3>6. marker' \in BOOLEAN /\ acked' \subseteq Record
        BY <2>17 DEF PowerFails, TypeOK
      <3>7. lost' \subseteq {"lines", "mark", "marker"}
        BY <2>17 DEF PowerFails, TypeOK
      <3>. QED
        BY <2>17, <3>1, <3>2, <3>3, <3>4, <3>5, <3>6, <3>7
        DEF PowerFails, memory, faults, TypeOK
    <2>18. CASE UNCHANGED vars
      BY <2>18 DEF vars, disk, memory, faults, history, TypeOK
    <2>. QED
      BY <2>1, <2>2, <2>3, <2>4, <2>5, <2>6, <2>7, <2>8, <2>9, <2>10, <2>11, <2>12,
         <2>13, <2>14, <2>15, <2>16, <2>17, <2>18, <2>19, <2>20
      DEF Next, Boot, AppendCall
  <1>. QED
    BY <1>1, <1>2, PTL DEF SafetySpec

(* What has happened stays so: failures, cancellations, losses and bare    *)
(* lives are only ever added.                                              *)
LEMMA HistoryGrows ==
    ASSUME TypeOK, [Next]_vars
    PROVE  /\ ioErrors' = 0 => ioErrors = 0
           /\ cancels' = 0 => cancels = 0
           /\ lost \subseteq lost'
           /\ bareLife => bareLife'
  <1>. USE DEF faults, history
  <1>1. CASE Boot
    <2>1. CASE BootReanchorFails
      BY <2>1 DEF BootReanchorFails, TypeOK
    <2>. QED
      BY <1>1, <2>1 DEF Boot, BootChecks, BootVerify, BootSeed, BootReanchor, StartBare
  <1>2. ASSUME NEW w \in Writers, AppendCall(w)
        PROVE  /\ ioErrors' = 0 => ioErrors = 0
               /\ cancels' = 0 => cancels = 0
               /\ UNCHANGED <<lost, bareLife>>
    <2>1. CASE CancelWaiting(w) \/ CancelHolder(w)
      BY <2>1 DEF CancelWaiting, CancelHolder, TypeOK
    <2>2. CASE AppendFails(w) \/ HwmFails(w)
      BY <2>2 DEF AppendFails, HwmFails, TypeOK
    <2>3. CASE Call(w) \/ Acquire(w) \/ AppendDone(w) \/ HwmDone(w)
      BY <2>3 DEF Call, Acquire, TakeLock, AppendDone, HwmDone
    <2>. QED
      BY <1>2, <2>1, <2>2, <2>3 DEF AppendCall
  <1>3. ASSUME NEW j \in orphans, OrphanAppend(j) \/ OrphanHwm(j) \/ OrphanFails(j)
        PROVE  /\ ioErrors' = 0 => ioErrors = 0
               /\ cancels' = 0 => cancels = 0
               /\ UNCHANGED <<lost, bareLife>>
    BY <1>3 DEF OrphanAppend, OrphanHwm, OrphanFails, TypeOK
  <1>4. CASE Crash
    BY <1>4 DEF Crash
  <1>5. ASSUME NEW n \in 0..Len(log), PowerFails(n)
        PROVE  UNCHANGED <<ioErrors, cancels, bareLife>> /\ lost \subseteq lost'
    BY <1>5 DEF PowerFails
  <1>6. CASE UNCHANGED vars
    BY <1>6 DEF vars
  <1>. QED
    BY <1>1, <1>2, <1>3, <1>4, <1>5, <1>6 DEF Next

-------------------------------------------------------------------------------
(* Who holds the lock.                                                     *)

(* In a process that is up exactly the holder is past the lock; a process  *)
(* that does not serve runs no call and no thread; threads without a       *)
(* coroutine come from cancellations only; a boot that re-anchors has read *)
(* its log; a line has been written before its mark is.                    *)
LockInv ==
    /\ \A w \in Writers : holder = w => pc[w] \in {"append", "hwm"}
    /\ proc = "up" => \A w \in Writers : pc[w] \in {"append", "hwm"} => holder = w
    /\ proc # "up" => holder = NoWriter
    /\ ~Serving => orphans = {} /\ \A w \in Writers : pc[w] = "idle"
    /\ cancels = 0 => orphans = {}
    /\ proc = "bare" => bareLife
    /\ proc = "reanchor" => Legible(log) /\ log # <<>>
    /\ \A w \in Writers : pc[w] = "hwm" => log # <<>>

LEMMA LockInvariant == SafetySpec => []LockInv
  <1>1. Init => LockInv
    BY WritersAssumption DEF Init, LockInv
  <1>2. TypeOK /\ LockInv /\ [Next]_vars => LockInv'
    <2>. SUFFICES ASSUME TypeOK, LockInv, [Next]_vars PROVE LockInv'
      OBVIOUS
    <2>. USE WritersAssumption DEF LockInv, WriterStates, Serving, Legible
    <2>a. /\ pc \in [Writers -> WriterStates] /\ cancels \in Nat
          /\ \A w \in Writers : pending[w] \in Record
          /\ \A j \in orphans : j.rec \in Record
      BY DEF TypeOK, Job
    <2>1. ASSUME NEW c \in KeyConfigs, BootChecks(c) PROVE LockInv'
      BY <2>1 DEF BootChecks, faults, history
    <2>2. CASE BootVerify
      <3>1. Verifies(conf) => \A i \in 1..Len(log) : log[i] # NoRecord
        BY DEF Verifies, ChainOK
      <3>. QED
        BY <2>2, <3>1 DEF BootVerify, disk, faults, history
    <2>3. CASE BootSeed
      BY <2>3 DEF BootSeed, disk, faults, history
    <2>4. CASE BootReanchor
      BY <2>4 DEF BootReanchor, memory, faults
    <2>5. CASE BootReanchorFails
      BY <2>5 DEF BootReanchorFails, disk, memory, history
    <2>19. ASSUME NEW c \in BareConfigs, StartBare(c) PROVE LockInv'
      BY <2>19 DEF StartBare, disk, faults
    <2>6. ASSUME NEW w \in Writers, Call(w) PROVE LockInv'
      BY <2>6, <2>a DEF Call, disk, faults, history
    <2>7. ASSUME NEW w \in Writers, Acquire(w) PROVE LockInv'
      BY <2>7, <2>a DEF Acquire, TakeLock, disk, faults
    <2>8. ASSUME NEW w \in Writers, AppendDone(w) PROVE LockInv'
      <3>1. log' # <<>>
        BY <2>8, <2>a, LineIsWritten DEF AppendDone
      <3>. QED
        BY <2>8, <2>a, <3>1 DEF AppendDone, faults, history
    <2>9. ASSUME NEW w \in Writers, AppendFails(w) PROVE LockInv'
      <3>1. log # <<>> => log' # <<>>
        BY <2>9, <2>a, WriteIsStopped DEF AppendFails
      <3>. QED
        BY <2>9, <2>a, <3>1 DEF AppendFails, Release, history
    <2>10. ASSUME NEW w \in Writers, HwmDone(w) PROVE LockInv'
      BY <2>10, <2>a DEF HwmDone, Release, faults
    <2>11. ASSUME NEW w \in Writers, HwmFails(w) PROVE LockInv'
      BY <2>11, <2>a DEF HwmFails, Release, disk, history
    <2>12. ASSUME NEW w \in Writers, CancelWaiting(w) PROVE LockInv'
      BY <2>12, <2>a DEF CancelWaiting, disk, history
    <2>13. ASSUME NEW w \in Writers, CancelHolder(w) PROVE LockInv'
      BY <2>13, <2>a DEF CancelHolder, Release, disk, history
    <2>14. ASSUME NEW j \in orphans, OrphanAppend(j) PROVE LockInv'
      <3>1. log' # <<>>
        BY <2>14, <2>a, LineIsWritten DEF OrphanAppend
      <3>. QED
        BY <2>14, <3>1 DEF OrphanAppend, faults, history
    <2>15. ASSUME NEW j \in orphans, OrphanHwm(j) PROVE LockInv'
      BY <2>15 DEF OrphanHwm, faults
    <2>20. ASSUME NEW j \in orphans, OrphanFails(j) PROVE LockInv'
      <3>1. log # <<>> => log' # <<>>
        BY <2>20, <2>a, WriteIsStopped DEF OrphanFails
      <3>. QED
        BY <2>20, <3>1 DEF OrphanFails, history
    <2>16. CASE Crash
      BY <2>16 DEF Crash, faults, history
    <2>17. ASSUME NEW n \in 0..Len(log), PowerFails(n) PROVE LockInv'
      BY <2>17 DEF PowerFails, memory, faults
    <2>18. CASE UNCHANGED vars
      BY <2>18 DEF vars, disk, memory, faults, history
    <2>. QED
      BY <2>1, <2>2, <2>3, <2>4, <2>5, <2>6, <2>7, <2>8, <2>9, <2>10, <2>11, <2>12,
         <2>13, <2>14, <2>15, <2>16, <2>17, <2>18, <2>19, <2>20
      DEF Next, Boot, AppendCall
  <1>. QED
    BY <1>1, <1>2, TypeCorrect, PTL DEF SafetySpec

-------------------------------------------------------------------------------
(* The readable lines at the head of the file are a hash chain.            *)

(* The in-memory head is the head of the file.                             *)
AtTail == seq = Len(log) /\ prevHash = HeadAt(log, Len(log))

(* The record w persists continues the file, and the in-memory head is     *)
(* already past it.                                                        *)
OnePast(w) ==
    /\ pending[w].seq = Len(log) /\ pending[w].prev = HeadAt(log, Len(log))
    /\ seq = Len(log) + 1 /\ prevHash = pending[w].id

(* What makes the file and the in-memory head trustworthy: either no       *)
(* process ever ran bare, or this one has verified the log.                *)
Trusted ==
    /\ ioErrors = 0 /\ cancels = 0
    /\ ~bareLife \/ (VerifyOnStartup /\ proc \in {"reanchor", "up"})

HeadInv ==
    /\ proc = "reanchor" => AtTail
    /\ proc = "up" /\ (\A w \in Writers : pc[w] # "append") => AtTail
    /\ \A w \in Writers : proc = "up" /\ pc[w] = "append" => OnePast(w)

ChainInv == Trusted => Sound(log) /\ (Legible(log) => HeadInv)

LEMMA HeadStays ==
    ASSUME NEW l \in Seq(Record), NEW m \in Seq(Record), NEW n \in 0..Len(l), SameUpTo(m, l, n)
    PROVE  \A i \in 0..n : HeadAt(m, i) = HeadAt(l, i)
  <1>1. Len(l) \in Nat
    BY LogElements
  <1>2. \A i \in 0..n : i = 0 \/ i \in 1..n
    BY <1>1
  <1>. QED
    BY <1>2 DEF HeadAt, SameUpTo

(* A log cut anywhere, or spoilt at its end, is still sound.               *)
LEMMA SoundCut ==
    ASSUME NEW l \in Seq(Record), NEW m \in Seq(Record), NEW n \in 0..Len(l),
           Sound(l), CutTo(m, l, n)
    PROVE  Sound(m)
  <1>1. Len(l) \in Nat /\ Len(m) \in Nat
    BY LogElements
  <1>2. SUFFICES ASSUME NEW i \in 1..Len(m), \A k \in 1..i : m[k] # NoRecord
                 PROVE  Continues(m, i)
    BY DEF Sound
  <1>3. i \in 1..n
    <2>1. i = n + 1 => m[i] = NoRecord
      BY <1>1 DEF CutTo
    <2>2. m[i] # NoRecord
      BY <1>2
    <2>. QED
      BY <1>1, <2>1, <2>2 DEF CutTo
  <1>4. i \in 1..Len(l) /\ i - 1 \in 0..n /\ \A k \in 1..i : k \in 1..n
    BY <1>1, <1>3
  <1>5. m[i] = l[i] /\ \A k \in 1..i : l[k] # NoRecord
    BY <1>2, <1>3, <1>4 DEF CutTo, SameUpTo
  <1>6. Continues(l, i)
    BY <1>4, <1>5 DEF Sound
  <1>7. HeadAt(m, i - 1) = HeadAt(l, i - 1)
    BY <1>4, HeadStays DEF CutTo
  <1>. QED
    BY <1>5, <1>6, <1>7 DEF Continues

LEMMA SoundSpoilt ==
    ASSUME NEW l \in Seq(Record), NEW m \in Seq(Record), Sound(l), Spoils(m, l)
    PROVE  Sound(m)
  <1>1. Len(l) \in Nat
    BY LogElements
  <1>2. Len(l) - 1 \in 0..Len(l) /\ CutTo(m, l, Len(l) - 1)
    BY <1>1 DEF Spoils, CutTo
  <1>. QED
    BY <1>2, SoundCut

(* So is one extended by an unreadable line, or by a record that continues *)
(* it if all of it can be read.                                            *)
LEMMA SoundExtended ==
    ASSUME NEW l \in Seq(Record), NEW m \in Seq(Record), NEW r, Sound(l), Extends(m, l, r),
           r = NoRecord
               \/ (Legible(l) => r.seq = Len(l) /\ r.prev = HeadAt(l, Len(l)))
    PROVE  Sound(m)
  <1>1. Len(l) \in Nat /\ Len(m) = Len(l) + 1 /\ m[Len(l) + 1] = r /\ SameUpTo(m, l, Len(l))
    BY LogElements DEF Extends
  <1>2. CASE r = NoRecord
    <2>1. Len(l) \in 0..Len(l) /\ CutTo(m, l, Len(l))
      BY <1>1, <1>2 DEF CutTo
    <2>. QED
      BY <2>1, SoundCut
  <1>3. CASE r # NoRecord
    <2>1. SUFFICES ASSUME NEW i \in 1..Len(m), \A k \in 1..i : m[k] # NoRecord
                   PROVE  Continues(m, i)
      BY DEF Sound
    <2>2. i - 1 \in 0..Len(l) /\ HeadAt(m, i - 1) = HeadAt(l, i - 1)
      <3>1. i - 1 \in 0..Len(l) /\ Len(l) \in 0..Len(l)
        BY <1>1
      <3>. QED
        BY <1>1, <3>1, HeadStays
    <2>3. CASE i \in 1..Len(l)
      <3>1. \A k \in 1..i : k \in 1..Len(l)
        BY <1>1, <2>3
      <3>2. m[i] = l[i] /\ \A k \in 1..i : l[k] # NoRecord
        BY <1>1, <2>1, <2>3, <3>1 DEF SameUpTo
      <3>3. Continues(l, i)
        BY <2>3, <3>2 DEF Sound
      <3>. QED
        BY <2>2, <3>2, <3>3 DEF Continues
    <2>4. CASE i = Len(l) + 1
      <3>1. \A k \in 1..Len(l) : k \in 1..i /\ l[k] # NoRecord
        BY <1>1, <2>1, <2>4 DEF SameUpTo
      <3>2. r.seq = Len(l) /\ r.prev = HeadAt(l, Len(l))
        BY <1>3, <3>1 DEF Legible
      <3>. QED
        BY <1>1, <2>2, <2>4, <3>2 DEF Continues
    <2>. QED
      BY <1>1, <2>3, <2>4
  <1>. QED
    BY <1>2, <1>3

(* A boot that accepts a log accepts a chain.                              *)
LEMMA AcceptedIsChain ==
    ASSUME NEW c, Verifies(c)
    PROVE  /\ Legible(log) /\ Sound(log) /\ HwmOK(log, hwm, c)
           /\ \A i \in 1..Len(log) : log[i].seq = i - 1 /\ MacOK(log[i].mac, c)
    BY DEF Verifies, ChainOK, Sound, Continues

(* An acknowledged write of a trusted process extends a chain.             *)
LEMMA ChainInvariant == SafetySpec => []ChainInv
  <1>1. Init => ChainInv
    BY EmptySeq DEF Init, ChainInv, Sound, HeadInv
  <1>2. TypeOK /\ LockInv /\ ChainInv /\ [Next]_vars => ChainInv'
    <2>. SUFFICES ASSUME TypeOK, LockInv, ChainInv, [Next]_vars, Trusted'
                  PROVE  Sound(log') /\ (Legible(log') => HeadInv')
      BY DEF ChainInv
    <2>a. /\ ioErrors = 0 /\ cancels = 0 /\ ioErrors' = 0 /\ cancels' = 0
          /\ ~bareLife' => ~bareLife
          /\ orphans = {}
      BY HistoryGrows DEF Trusted, LockInv
    <2>b. /\ log \in Seq(Record) /\ Len(log) \in Nat
          /\ pc \in [Writers -> WriterStates] /\ pending \in [Writers -> Record]
          /\ \A w \in Writers : pending[w] \in Record
      BY LogElements DEF TypeOK
    <2>c. Trusted => Sound(log) /\ (Legible(log) => HeadInv)
      BY DEF ChainInv
    <2>d. ~bareLife' => Trusted
      BY <2>a DEF Trusted
    <2>e. proc' = "bare" => bareLife'
      <3>1. proc' = "bare" /\ proc # "bare" => \E c \in BareConfigs : StartBare(c)
        BY DEF Next, Boot, BootChecks, BootVerify, BootSeed, BootReanchor, BootReanchorFails,
               AppendCall, Call, Acquire, TakeLock, AppendDone, AppendFails, HwmDone, HwmFails,
               CancelWaiting, CancelHolder, OrphanAppend, OrphanHwm, OrphanFails, Crash,
               PowerFails, vars
      <3>2. bareLife => bareLife'
        BY HistoryGrows
      <3>. QED
        BY <3>1, <3>2 DEF LockInv, StartBare
    <2>1. ASSUME NEW c \in KeyConfigs, BootChecks(c)
          PROVE  Sound(log') /\ (Legible(log') => HeadInv')
      <3>1. Trusted
        BY <2>1, <2>d DEF BootChecks, Trusted
      <3>. QED
        BY <2>1, <2>c, <3>1 DEF BootChecks, HeadInv
    <2>2. CASE BootVerify
      <3>1. CASE Verifies(conf)
        <4>1. Sound(log)
          BY <3>1, AcceptedIsChain
        <4>2. UNCHANGED log /\ AtTail'
          BY <2>2, <3>1 DEF BootVerify, disk, AtTail
        <4>3. \A w \in Writers : pc'[w] = "idle"
          BY <2>2 DEF BootVerify, LockInv, Serving
        <4>. QED
          BY <4>1, <4>2, <4>3 DEF HeadInv
      <3>2. CASE ~Verifies(conf)
        <4>1. proc' = "refused" /\ UNCHANGED log
          BY <2>2, <3>2 DEF BootVerify, disk
        <4>2. Trusted
          BY <2>d, <4>1 DEF Trusted
        <4>. QED
          BY <2>c, <4>1, <4>2 DEF HeadInv
      <3>. QED
        BY <3>1, <3>2
    <2>3. CASE BootSeed
      <3>1. UNCHANGED log /\ (proc' = "refused" \/ (proc' = "up" /\ AtTail'))
        BY <2>3 DEF BootSeed, disk, AtTail
      <3>2. \A w \in Writers : pc'[w] = "idle"
        BY <2>3 DEF BootSeed, LockInv, Serving
      <3>3. Sound(log)
        <4>1. CASE Trusted
          BY <2>c, <4>1
        <4>2. CASE ~Trusted
          <5>1. log = <<>>
            BY <2>3, <2>d, <4>2 DEF Trusted, BootSeed, TypeOK
          <5>. QED
            BY <5>1, EmptySeq DEF Sound
        <4>. QED
          BY <4>1, <4>2
      <3>. QED
        BY <3>1, <3>2, <3>3 DEF HeadInv
    <2>4. CASE BootReanchor
      <3>1. UNCHANGED <<log, seq, prevHash, pc>> /\ proc = "reanchor" /\ proc' = "up"
        BY <2>4 DEF BootReanchor, memory
      <3>2. Trusted
        BY <2>a, <2>d, <3>1 DEF Trusted
      <3>3. \A w \in Writers : pc[w] = "idle"
        BY <3>1 DEF LockInv, Serving
      <3>. QED
        BY <2>c, <3>1, <3>2, <3>3 DEF HeadInv, AtTail
    <2>5. CASE BootReanchorFails
      BY <2>5, <2>a DEF BootReanchorFails, TypeOK
    <2>19. ASSUME NEW c \in BareConfigs, StartBare(c) PROVE FALSE
      BY <2>19 DEF StartBare, Trusted
    <2>f. ASSUME proc' = proc, bareLife' = bareLife, Serving
          PROVE  Trusted /\ proc = "up"
      BY <2>a, <2>e, <2>f DEF Trusted, Serving
    <2>6. ASSUME NEW w \in Writers, Call(w)
          PROVE  Sound(log') /\ (Legible(log') => HeadInv')
      <3>1. Trusted /\ proc = "up"
        BY <2>6, <2>f DEF Call, history
      <3>. QED
        BY <2>6, <2>b, <2>c, <3>1 DEF Call, disk, HeadInv, AtTail, OnePast
    <2>7. ASSUME NEW w \in Writers, Acquire(w)
          PROVE  Sound(log') /\ (Legible(log') => HeadInv')
      <3>1. Trusted /\ proc = "up"
        BY <2>7, <2>f DEF Acquire, TakeLock
      <3>2. holder = NoWriter /\ \A v \in Writers : pc[v] # "append"
        BY <2>7, <3>1, WritersAssumption DEF Acquire, LockInv
      <3>3. UNCHANGED log /\ proc' = "up" /\ pc' = [pc EXCEPT ![w] = "append"]
            /\ pending' = [pending EXCEPT ![w] = [seq |-> seq, id |-> nextId, prev |-> prevHash,
                                                  mac |-> conf.cur]]
            /\ prevHash' = nextId /\ seq' = seq + 1
        BY <2>7, <3>1 DEF Acquire, TakeLock, WriteRecord, disk
      <3>4. Legible(log) => AtTail
        BY <2>c, <3>1, <3>2 DEF HeadInv
      <3>5. Legible(log) => OnePast(w)'
        BY <2>b, <3>3, <3>4 DEF AtTail, OnePast
      <3>6. \A v \in Writers : pc'[v] = "append" => v = w
        BY <2>b, <3>2, <3>3
      <3>7. pc'[w] = "append"
        BY <2>b, <3>3
      <3>. QED
        BY <2>c, <3>1, <3>3, <3>5, <3>6, <3>7 DEF HeadInv
    <2>8. ASSUME NEW w \in Writers, AppendDone(w)
          PROVE  Sound(log') /\ (Legible(log') => HeadInv')
      <3>1. Trusted /\ proc = "up"
        BY <2>8, <2>f DEF AppendDone, history
      <3>2. log' \in Seq(Record) /\ (Extends(log', log, pending[w]) \/ Spoils(log', log))
        BY <2>8, <2>b, LineIsWritten DEF AppendDone
      <3>3. Legible(log) => OnePast(w)
        BY <2>8, <2>c, <3>1 DEF AppendDone, HeadInv
      <3>4. CASE Spoils(log', log)
        BY <2>b, <2>c, <3>1, <3>2, <3>4, SoundSpoilt, SpoiltReads
      <3>5. CASE Extends(log', log, pending[w])
        <4>1. Sound(log')
          BY <2>b, <2>c, <3>1, <3>2, <3>3, <3>5, SoundExtended DEF OnePast
        <4>2. Legible(log') => Legible(log)
          BY <2>b, <3>2, <3>5, ExtendedReads
        <4>3. HeadAt(log', Len(log')) = pending[w].id /\ Len(log') = Len(log) + 1
          BY <2>b, <3>5 DEF Extends, HeadAt
        <4>4. Legible(log') => AtTail'
          <5>1. UNCHANGED <<seq, prevHash>>
            BY <2>8 DEF AppendDone
          <5>. QED
            BY <3>3, <4>2, <4>3, <5>1 DEF AtTail, OnePast
        <4>5. \A v \in Writers : pc'[v] # "append"
          BY <2>8, <2>b, <3>1 DEF AppendDone, LockInv
        <4>. QED
          BY <2>8, <3>1, <4>1, <4>4, <4>5 DEF AppendDone, HeadInv
      <3>. QED
        BY <3>2, <3>4, <3>5
    <2>9. ASSUME NEW w \in Writers, AppendFails(w) PROVE FALSE
      BY <2>9, <2>a DEF AppendFails, TypeOK
    <2>10. ASSUME NEW w \in Writers, HwmDone(w)
           PROVE  Sound(log') /\ (Legible(log') => HeadInv')
      <3>1. Trusted /\ proc = "up"
        BY <2>10, <2>f DEF HwmDone
      <3>2. \A v \in Writers : pc[v] # "append" /\ pc'[v] # "append"
        BY <2>10, <2>b, <3>1 DEF HwmDone, Release, LockInv
      <3>. QED
        BY <2>10, <2>c, <3>1, <3>2 DEF HwmDone, HeadInv, AtTail
    <2>11. ASSUME NEW w \in Writers, HwmFails(w) PROVE FALSE
      BY <2>11, <2>a DEF HwmFails, TypeOK
    <2>12. ASSUME NEW w \in Writers, CancelWaiting(w) \/ CancelHolder(w) PROVE FALSE
      BY <2>12, <2>a DEF CancelWaiting, CancelHolder, TypeOK
    <2>16. CASE Crash
      <3>1. Trusted /\ proc' = "down"
        BY <2>16, <2>d DEF Crash, Trusted, history
      <3>2. proc # "bare"
        BY <2>16, <3>1 DEF Crash, history, LockInv, Trusted
      <3>3. log' = log \/ \E w \in Writers : pc[w] = "append" /\ WriteStops(pending[w])
        BY <2>16, <2>a DEF Crash, Appending
      <3>4. ASSUME NEW w \in Writers, pc[w] = "append", WriteStops(pending[w])
            PROVE  Sound(log')
        <4>1. proc = "up"
          BY <3>2, <3>4 DEF LockInv, Serving
        <4>2. Legible(log) => OnePast(w)
          BY <2>c, <3>1, <3>4, <4>1 DEF HeadInv
        <4>3. /\ log' \in Seq(Record)
              /\ \/ log' = log
                 \/ Extends(log', log, pending[w])
                 \/ Extends(log', log, NoRecord)
                 \/ Spoils(log', log)
          BY <2>b, <3>4, WriteIsStopped
        <4>. QED
          BY <2>b, <2>c, <3>1, <4>2, <4>3, SoundExtended, SoundSpoilt DEF OnePast
      <3>. QED
        BY <2>c, <3>1, <3>3, <3>4 DEF HeadInv
    <2>17. ASSUME NEW n \in 0..Len(log), PowerFails(n)
           PROVE  Sound(log') /\ (Legible(log') => HeadInv')
      <3>1. Trusted /\ proc' = "down"
        BY <2>17, <2>d DEF PowerFails, Trusted
      <3>2. log' \in Seq(Record) /\ CutTo(log', log, n)
        BY <2>17, <2>b, LogIsCut DEF PowerFails
      <3>. QED
        BY <2>b, <2>c, <3>1, <3>2, SoundCut DEF HeadInv
    <2>18. CASE UNCHANGED vars
      <3>1. Trusted
        BY <2>18 DEF vars, faults, history, Trusted
      <3>. QED
        BY <2>18, <2>c, <3>1 DEF vars, disk, memory, HeadInv, AtTail, OnePast
    <2>. QED
      BY <2>a, <2>1, <2>2, <2>3, <2>4, <2>5, <2>6, <2>7, <2>8, <2>9, <2>10, <2>11, <2>12,
         <2>16, <2>17, <2>18, <2>19
      DEF Next, Boot, AppendCall
  <1>. QED
    BY <1>1, <1>2, TypeCorrect, LockInvariant, PTL DEF SafetySpec

(* Without failed writes and cancellations the file is a contiguous hash   *)
(* chain up to the first line a crash or a power failure spoilt, for any   *)
(* number of writers, crashes, restarts and losses of the file's tail: seq *)
(* assignment and the append are one unit in a process that has its lock,  *)
(* and a verifying boot makes up for one that had none.                    *)
THEOREM ChainCorrect == SafetySpec => []ChainContiguous
  <1>1. ChainInv => ChainContiguous
    BY DEF ChainInv, Trusted, ChainContiguous
  <1>. QED
    BY <1>1, ChainInvariant, PTL

-------------------------------------------------------------------------------
(* Signing is sticky.                                                      *)

(* The deployments and histories in which the marker does its work.        *)
MarkerKept == VerifyOnStartup /\ ~bareLife /\ "marker" \notin lost

(* Every record in flight carries the key of this boot.                    *)
InFlightMac ==
    /\ \A w \in Writers : pc[w] \in {"append", "hwm"} => pending[w].mac = conf.cur
    /\ \A j \in orphans : j.rec.mac = conf.cur

Signed(l) == \E i \in 1..Len(l) : l[i].mac # NoKey

NeverUnsigned(l) ==
    \A i, j \in 1..Len(l) :
        i < j /\ l[i].mac # NoKey /\ l[j] # NoRecord => l[j].mac # NoKey

SigningInv ==
    MarkerKept =>
        /\ NeverUnsigned(log)
        /\ Signed(log) => marker
        /\ proc \in {"verify", "reanchor", "up"} /\ conf.cur # NoKey => marker
        /\ proc = "verify" /\ ~logExists /\ marker => conf.cur # NoKey
        /\ proc \in {"reanchor", "up"} /\ marker => conf.cur # NoKey
        /\ InFlightMac

(* A log that loses lines, or has some spoilt, stays as it was.            *)
LEMMA SigningShrinks ==
    ASSUME NEW l \in Seq(Record), NEW m \in Seq(Record), NeverUnsigned(l),
           \A i \in 1..Len(m) : (i \in 1..Len(l) /\ m[i] = l[i]) \/ m[i] = NoRecord
    PROVE  NeverUnsigned(m) /\ (Signed(m) => Signed(l))
  <1>1. ASSUME NEW i \in 1..Len(m), NEW j \in 1..Len(m),
               i < j, m[i].mac # NoKey, m[j] # NoRecord
        PROVE  m[j].mac # NoKey
    <2>1. m[i] # NoRecord
      BY <1>1, UnreadableIsRecord
    <2>2. /\ i \in 1..Len(l) /\ m[i] = l[i]
          /\ j \in 1..Len(l) /\ m[j] = l[j]
      BY <1>1, <2>1
    <2>. QED
      BY <1>1, <2>2 DEF NeverUnsigned
  <1>2. Signed(m) => Signed(l)
    BY UnreadableIsRecord DEF Signed
  <1>. QED
    BY <1>1, <1>2 DEF NeverUnsigned

(* Adding a line that is unreadable, or signed if any before it is, keeps  *)
(* signing sticky.                                                         *)
LEMMA SigningExtends ==
    ASSUME NEW l \in Seq(Record), NEW m \in Seq(Record), NEW r \in Record,
           NeverUnsigned(l), Extends(m, l, r),
           r = NoRecord \/ (Signed(l) => r.mac # NoKey)
    PROVE  NeverUnsigned(m) /\ (Signed(m) => Signed(l) \/ r.mac # NoKey)
  <1>1. /\ Len(l) \in Nat /\ Len(m) = Len(l) + 1 /\ m[Len(l) + 1] = r
        /\ \A i \in 1..Len(l) : m[i] = l[i]
    BY LogElements DEF Extends, SameUpTo
  <1>2. ASSUME NEW i \in 1..Len(m), NEW j \in 1..Len(m),
               i < j, m[i].mac # NoKey, m[j] # NoRecord
        PROVE  m[j].mac # NoKey
    <2>1. i \in 1..Len(l) /\ l[i].mac # NoKey
      BY <1>1, <1>2
    <2>2. Signed(l)
      BY <2>1 DEF Signed
    <2>3. CASE j \in 1..Len(l)
      BY <1>1, <1>2, <2>1, <2>3 DEF NeverUnsigned
    <2>4. CASE j = Len(l) + 1
      BY <1>1, <1>2, <2>2, <2>4
    <2>. QED
      BY <1>1, <2>3, <2>4
  <1>3. Signed(m) => Signed(l) \/ r.mac # NoKey
    <2>1. \A i \in 1..Len(m) : i \in 1..Len(l) \/ i = Len(l) + 1
      BY <1>1
    <2>. QED
      BY <1>1, <2>1 DEF Signed
  <1>. QED
    BY <1>2, <1>3 DEF NeverUnsigned

(* Whatever becomes of the write of a record signed like this boot.        *)
LEMMA SigningWrites ==
    ASSUME TypeOK, SigningInv, MarkerKept, proc = "up", UNCHANGED <<marker>>,
           NEW r \in Record, r.mac = conf.cur, log' \in Seq(Record),
           \/ log' = log
           \/ Extends(log', log, r)
           \/ Extends(log', log, NoRecord)
           \/ Spoils(log', log)
    PROVE  NeverUnsigned(log') /\ (Signed(log') => marker')
  <1>1. /\ log \in Seq(Record) /\ NeverUnsigned(log)
        /\ Signed(log) => marker
        /\ marker <=> conf.cur # NoKey
    BY Zenon DEF SigningInv, TypeOK
  <1>2. CASE log' = log
    BY <1>1, <1>2
  <1>3. CASE Extends(log', log, r)
    BY <1>1, <1>3, SigningExtends
  <1>4. CASE Extends(log', log, NoRecord)
    BY <1>1, <1>4, SigningExtends, UnreadableIsRecord
  <1>5. CASE Spoils(log', log)
    BY <1>1, <1>5, SpoiltReads, SigningShrinks
  <1>. QED
    BY <1>2, <1>3, <1>4, <1>5

LEMMA SigningInvariant == SafetySpec => []SigningInv
  <1>1. Init => SigningInv
    BY EmptySeq DEF Init, SigningInv, NeverUnsigned, Signed, InFlightMac
  <1>2. TypeOK /\ LockInv /\ SigningInv /\ [Next]_vars => SigningInv'
    <2>. SUFFICES ASSUME TypeOK, LockInv, SigningInv, [Next]_vars, MarkerKept'
                  PROVE  SigningInv'
      BY DEF SigningInv
    <2>a. MarkerKept
      BY HistoryGrows DEF MarkerKept
    <2>b. /\ NeverUnsigned(log)
          /\ Signed(log) => marker
          /\ proc \in {"verify", "reanchor", "up"} /\ conf.cur # NoKey => marker
          /\ proc = "verify" /\ ~logExists /\ marker => conf.cur # NoKey
          /\ proc \in {"reanchor", "up"} /\ marker => conf.cur # NoKey
          /\ InFlightMac
      BY <2>a DEF SigningInv
    <2>c. /\ log \in Seq(Record) /\ marker \in BOOLEAN
          /\ pc \in [Writers -> WriterStates] /\ pending \in [Writers -> Record]
          /\ \A w \in Writers : pending[w] \in Record
          /\ \A j \in orphans : j.rec \in Record
      BY DEF TypeOK, Job
    <2>d. proc # "bare"
      BY <2>a DEF MarkerKept, LockInv
    <2>e. UNCHANGED log => NeverUnsigned(log') /\ (Signed(log') => marker)
      BY <2>b
    <2>f. Serving => proc = "up" /\ (marker <=> conf.cur # NoKey)
      BY <2>b, <2>c, <2>d DEF Serving
    <2>1. ASSUME NEW c \in KeyConfigs, BootChecks(c) PROVE SigningInv'
      <3>1. UNCHANGED <<log, logExists, pc, pending, orphans>> /\ proc = "down" /\ conf' = c
        BY <2>1 DEF BootChecks
      <3>2. InFlightMac'
        BY <3>1 DEF InFlightMac, LockInv, Serving
      <3>3. CASE proc' = "refused" /\ UNCHANGED marker
        BY <2>b, <2>e, <3>1, <3>2, <3>3 DEF SigningInv
      <3>4. CASE /\ proc' = "verify" /\ marker' = MarkerAfter(c)
                 /\ ~(~logExists /\ marker)
        BY <2>b, <2>e, <3>1, <3>2, <3>4 DEF MarkerAfter, SigningInv
      <3>. QED
        BY <2>1, <2>a, <3>3, <3>4, Zenon DEF BootChecks, MarkerKept
    <2>2. CASE BootVerify
      <3>1. Verifies(conf) /\ marker => conf.cur # NoKey
        BY DEF Verifies
      <3>. QED
        BY <2>2, <2>b, <3>1 DEF BootVerify, disk, InFlightMac, SigningInv
    <2>3. CASE BootSeed
      BY <2>3, <2>a, <2>b DEF BootSeed, disk, InFlightMac, SigningInv, MarkerKept
    <2>4. CASE BootReanchor
      BY <2>4, <2>b DEF BootReanchor, memory, InFlightMac, SigningInv
    <2>5. CASE BootReanchorFails
      BY <2>5, <2>b DEF BootReanchorFails, memory, disk, InFlightMac, SigningInv
    <2>19. ASSUME NEW c \in BareConfigs, StartBare(c) PROVE FALSE
      BY <2>19 DEF StartBare, MarkerKept
    <2>6. ASSUME NEW w \in Writers, Call(w) PROVE SigningInv'
      BY <2>6, <2>b, <2>c DEF Call, disk, InFlightMac, SigningInv
    <2>7. ASSUME NEW w \in Writers, Acquire(w) PROVE SigningInv'
      <3>1. InFlightMac'
        BY <2>7, <2>b, <2>c DEF Acquire, TakeLock, WriteRecord, InFlightMac
      <3>. QED
        BY <2>7, <2>b, <2>e, <3>1 DEF Acquire, TakeLock, disk, SigningInv
    <2>8. ASSUME NEW w \in Writers, AppendDone(w) PROVE SigningInv'
      <3>1. pending[w].mac = conf.cur /\ proc = "up"
        BY <2>8, <2>b, <2>f DEF AppendDone, InFlightMac
      <3>2. NeverUnsigned(log') /\ (Signed(log') => marker')
        BY <2>8, <2>a, <2>c, <3>1, LineIsWritten, SigningWrites DEF AppendDone
      <3>3. InFlightMac'
        BY <2>8, <2>b, <2>c DEF AppendDone, InFlightMac
      <3>. QED
        BY <2>8, <2>b, <3>1, <3>2, <3>3 DEF AppendDone, SigningInv
    <2>9. ASSUME NEW w \in Writers, AppendFails(w) PROVE SigningInv'
      <3>1. pending[w].mac = conf.cur /\ proc = "up"
        BY <2>9, <2>b, <2>f DEF AppendFails, InFlightMac
      <3>2. NeverUnsigned(log') /\ (Signed(log') => marker')
        BY <2>9, <2>a, <2>c, <3>1, WriteIsStopped, SigningWrites DEF AppendFails
      <3>3. InFlightMac'
        BY <2>9, <2>b, <2>c DEF AppendFails, Release, InFlightMac
      <3>. QED
        BY <2>9, <2>b, <3>1, <3>2, <3>3 DEF AppendFails, SigningInv
    <2>10. ASSUME NEW w \in Writers, HwmDone(w) PROVE SigningInv'
      <3>1. InFlightMac'
        BY <2>10, <2>b, <2>c DEF HwmDone, Release, InFlightMac
      <3>. QED
        BY <2>10, <2>b, <2>e, <3>1 DEF HwmDone, SigningInv
    <2>11. ASSUME NEW w \in Writers, HwmFails(w) PROVE SigningInv'
      <3>1. InFlightMac'
        BY <2>11, <2>b, <2>c DEF HwmFails, Release, InFlightMac
      <3>. QED
        BY <2>11, <2>b, <2>e, <3>1 DEF HwmFails, disk, SigningInv
    <2>12. ASSUME NEW w \in Writers, CancelWaiting(w) PROVE SigningInv'
      BY <2>12, <2>b, <2>c DEF CancelWaiting, disk, InFlightMac, SigningInv
    <2>13. ASSUME NEW w \in Writers, CancelHolder(w) PROVE SigningInv'
      <3>1. \A j \in orphans' : j.rec.mac = conf.cur
        BY <2>13, <2>b DEF CancelHolder, InFlightMac
      <3>2. InFlightMac'
        BY <2>13, <2>b, <2>c, <3>1 DEF CancelHolder, Release, InFlightMac
      <3>. QED
        BY <2>13, <2>b, <2>e, <3>2 DEF CancelHolder, disk, SigningInv
    <2>14. ASSUME NEW j \in orphans, OrphanAppend(j) PROVE SigningInv'
      <3>1. j.rec.mac = conf.cur /\ proc = "up"
        BY <2>14, <2>b, <2>f DEF OrphanAppend, InFlightMac
      <3>2. NeverUnsigned(log') /\ (Signed(log') => marker')
        BY <2>14, <2>a, <2>c, <3>1, LineIsWritten, SigningWrites DEF OrphanAppend
      <3>. QED
        BY <2>14, <2>b, <3>1, <3>2 DEF OrphanAppend, InFlightMac, SigningInv
    <2>15. ASSUME NEW j \in orphans, OrphanHwm(j) PROVE SigningInv'
      BY <2>15, <2>b, <2>e DEF OrphanHwm, InFlightMac, SigningInv
    <2>20. ASSUME NEW j \in orphans, OrphanFails(j) PROVE SigningInv'
      <3>1. j.rec.mac = conf.cur /\ proc = "up"
        BY <2>20, <2>b, <2>f DEF OrphanFails, InFlightMac
      <3>2. UNCHANGED marker /\ (WriteStops(j.rec) \/ UNCHANGED log)
        BY <2>20 DEF OrphanFails
      <3>3. NeverUnsigned(log') /\ (Signed(log') => marker')
        BY <2>a, <2>c, <3>1, <3>2, WriteIsStopped, SigningWrites
      <3>. QED
        BY <2>20, <2>b, <3>1, <3>3 DEF OrphanFails, InFlightMac, SigningInv
    <2>16. CASE Crash
      <3>1. UNCHANGED marker /\ proc' = "down" /\ InFlightMac'
        BY <2>16 DEF Crash, InFlightMac
      <3>2. \/ UNCHANGED log
            \/ \E r \in Record : r.mac = conf.cur /\ Serving /\ WriteStops(r)
        BY <2>16, <2>b, <2>c DEF Crash, Appending, InFlightMac, LockInv
      <3>3. NeverUnsigned(log') /\ (Signed(log') => marker')
        BY <2>a, <2>b, <2>c, <2>f, <3>1, <3>2, WriteIsStopped, SigningWrites
      <3>. QED
        BY <3>1, <3>3 DEF SigningInv
    <2>17. ASSUME NEW n \in 0..Len(log), PowerFails(n) PROVE SigningInv'
      <3>1. marker' = marker /\ proc = "down"
        BY <2>17 DEF PowerFails, MarkerKept
      <3>2. log' \in Seq(Record) /\ CutTo(log', log, n)
        BY <2>17, <2>c, LogIsCut DEF PowerFails
      <3>3. NeverUnsigned(log') /\ (Signed(log') => marker')
        BY <2>b, <2>c, <3>1, <3>2, CutReads, SigningShrinks
      <3>. QED
        BY <2>17, <2>b, <3>1, <3>3 DEF PowerFails, memory, InFlightMac, SigningInv
    <2>18. CASE UNCHANGED vars
      BY <2>18, <2>b DEF vars, disk, memory, InFlightMac, SigningInv
    <2>. QED
      BY <2>1, <2>2, <2>3, <2>4, <2>5, <2>6, <2>7, <2>8, <2>9, <2>10, <2>11, <2>12,
         <2>13, <2>14, <2>15, <2>16, <2>17, <2>18, <2>19, <2>20
      DEF Next, Boot, AppendCall
  <1>. QED
    BY <1>1, <1>2, TypeCorrect, LockInvariant, PTL DEF SafetySpec

(* Under startup verification no unsigned record ever follows a signed     *)
(* one, whatever keys the successive boots find in their environment and   *)
(* whatever fails or is cancelled in between, as long as the marker is not *)
(* lost to a power failure and no process skips on_startup.                *)
THEOREM SigningIsSticky == SafetySpec => []SigningSticky
  <1>1. SigningInv => SigningSticky
    BY DEF SigningInv, MarkerKept, NeverUnsigned, SigningSticky
  <1>. QED
    BY <1>1, SigningInvariant, PTL

-------------------------------------------------------------------------------
(* Acknowledged records survive.                                           *)

(* As long as no power failure took lines back, a file that can be read    *)
(* has every record whose append was reported done.                        *)
KeptInv ==
    "lines" \notin lost /\ Legible(log) =>
        /\ \A r \in acked : Holds(log, r)
        /\ \A w \in Writers : pc[w] = "hwm" => Holds(log, pending[w])

(* What any append, whole or not, does to the records there.               *)
LEMMA WritesKeep ==
    ASSUME NEW l \in Seq(Record), NEW m \in Seq(Record), NEW r,
           \/ m = l
           \/ Extends(m, l, r)
           \/ Extends(m, l, NoRecord)
           \/ Spoils(m, l)
    PROVE  /\ Legible(m) => Legible(l)
           /\ Legible(m) => \A x : Holds(l, x) => Holds(m, x)
  <1>1. CASE m = l
    BY <1>1
  <1>2. CASE Extends(m, l, r)
    BY <1>2, ExtendedReads
  <1>3. CASE Extends(m, l, NoRecord)
    BY <1>3, ExtendedReads
  <1>4. CASE Spoils(m, l)
    BY <1>4, SpoiltReads
  <1>. QED
    BY <1>1, <1>2, <1>3, <1>4

LEMMA KeptInvariant == SafetySpec => []KeptInv
  <1>1. Init => KeptInv
    BY DEF Init, KeptInv
  <1>2. TypeOK /\ LockInv /\ KeptInv /\ [Next]_vars => KeptInv'
    <2>. SUFFICES ASSUME TypeOK, LockInv, KeptInv, [Next]_vars,
                         "lines" \notin lost', Legible(log')
                  PROVE  /\ \A r \in acked' : Holds(log', r)
                         /\ \A w \in Writers : pc'[w] = "hwm" => Holds(log', pending'[w])
      BY DEF KeptInv
    <2>a. "lines" \notin lost
      BY HistoryGrows
    <2>b. Legible(log) => /\ \A r \in acked : Holds(log, r)
                          /\ \A w \in Writers : pc[w] = "hwm" => Holds(log, pending[w])
      BY <2>a DEF KeptInv
    <2>c. /\ log \in Seq(Record)
          /\ pc \in [Writers -> WriterStates] /\ pending \in [Writers -> Record]
          /\ \A w \in Writers : pending[w] \in Record
          /\ \A j \in orphans : j.rec \in Record
      BY DEF TypeOK, Job
    <2>1. CASE Boot
      BY <2>1, <2>b
      DEF Boot, BootChecks, BootVerify, BootSeed, BootReanchor, BootReanchorFails, StartBare,
          disk, memory, history
    <2>6. ASSUME NEW w \in Writers, Call(w) \/ Acquire(w)
          PROVE  /\ \A r \in acked' : Holds(log', r)
                 /\ \A v \in Writers : pc'[v] = "hwm" => Holds(log', pending'[v])
      BY <2>6, <2>b, <2>c DEF Call, Acquire, TakeLock, WriteRecord, disk, history
    <2>8. ASSUME NEW w \in Writers, AppendDone(w)
          PROVE  /\ \A r \in acked' : Holds(log', r)
                 /\ \A v \in Writers : pc'[v] = "hwm" => Holds(log', pending'[v])
      <3>1. log' \in Seq(Record) /\ (Extends(log', log, pending[w]) \/ Spoils(log', log))
        BY <2>8, <2>c, LineIsWritten DEF AppendDone
      <3>2. Legible(log) /\ \A x : Holds(log, x) => Holds(log', x)
        BY <2>c, <3>1, WritesKeep
      <3>3. Holds(log', pending[w])
        BY <2>c, <3>1, ExtendedReads, SpoiltReads
      <3>. QED
        BY <2>8, <2>b, <2>c, <3>2, <3>3 DEF AppendDone, history
    <2>9. ASSUME NEW w \in Writers, AppendFails(w)
          PROVE  /\ \A r \in acked' : Holds(log', r)
                 /\ \A v \in Writers : pc'[v] = "hwm" => Holds(log', pending'[v])
      <3>1. Legible(log) /\ \A x : Holds(log, x) => Holds(log', x)
        BY <2>9, <2>c, WriteIsStopped, WritesKeep DEF AppendFails
      <3>. QED
        BY <2>9, <2>b, <2>c, <3>1 DEF AppendFails, Release, history
    <2>10. ASSUME NEW w \in Writers, HwmDone(w)
           PROVE  /\ \A r \in acked' : Holds(log', r)
                  /\ \A v \in Writers : pc'[v] = "hwm" => Holds(log', pending'[v])
      BY <2>10, <2>b, <2>c DEF HwmDone, Release
    <2>11. ASSUME NEW w \in Writers, HwmFails(w)
           PROVE  /\ \A r \in acked' : Holds(log', r)
                  /\ \A v \in Writers : pc'[v] = "hwm" => Holds(log', pending'[v])
      BY <2>11, <2>b, <2>c DEF HwmFails, Release, disk, history
    <2>12. ASSUME NEW w \in Writers, CancelWaiting(w) \/ CancelHolder(w)
           PROVE  /\ \A r \in acked' : Holds(log', r)
                  /\ \A v \in Writers : pc'[v] = "hwm" => Holds(log', pending'[v])
      BY <2>12, <2>b, <2>c DEF CancelWaiting, CancelHolder, Release, disk, history
    <2>14. ASSUME NEW j \in orphans, OrphanAppend(j) \/ OrphanHwm(j) \/ OrphanFails(j)
           PROVE  /\ \A r \in acked' : Holds(log', r)
                  /\ \A v \in Writers : pc'[v] = "hwm" => Holds(log', pending'[v])
      <3>1. WritesLine(j.rec) \/ WriteStops(j.rec) \/ UNCHANGED log
        BY <2>14 DEF OrphanAppend, OrphanHwm, OrphanFails
      <3>2. Legible(log) /\ \A x : Holds(log, x) => Holds(log', x)
        BY <2>c, <3>1, LineIsWritten, WriteIsStopped, WritesKeep
      <3>. QED
        BY <2>14, <2>b, <3>2 DEF OrphanAppend, OrphanHwm, OrphanFails, history
    <2>16. CASE Crash
      <3>1. UNCHANGED log \/ \E r \in Record : WriteStops(r)
        BY <2>16, <2>c DEF Crash, Appending
      <3>2. Legible(log) /\ \A x : Holds(log, x) => Holds(log', x)
        BY <2>c, <3>1, WriteIsStopped, WritesKeep
      <3>. QED
        BY <2>16, <2>b, <3>2 DEF Crash, history
    <2>17. ASSUME NEW n \in 0..Len(log), PowerFails(n)
           PROVE  /\ \A r \in acked' : Holds(log', r)
                  /\ \A v \in Writers : pc'[v] = "hwm" => Holds(log', pending'[v])
      <3>1. UNCHANGED log /\ acked' \subseteq acked
        BY <2>17 DEF PowerFails
      <3>. QED
        BY <2>17, <2>b, <3>1 DEF PowerFails, memory
    <2>18. CASE UNCHANGED vars
      BY <2>18, <2>b DEF vars, disk, memory, history
    <2>. QED
      BY <2>1, <2>6, <2>8, <2>9, <2>10, <2>11, <2>12, <2>14, <2>16, <2>17, <2>18
      DEF Next, AppendCall
  <1>. QED
    BY <1>1, <1>2, TypeCorrect, LockInvariant, PTL DEF SafetySpec

(* The deployments and histories in which startup catches what is lost.    *)
Accounted == VerifyOnStartup /\ cancels = 0 /\ ~bareLife

InFlight(w) == pc[w] \in {"append", "hwm"}

(* The mark covers every acknowledged record of a process that is up, and  *)
(* of any, as long as no mark was lost; in a live process it never passes  *)
(* what was handed out (seq) or is being persisted (pending).              *)
AckInv ==
    Accounted =>
        /\ \A r \in acked : r.seq < hwm.count \/ Holds(log, r)
        /\ "mark" \notin lost \/ proc = "up" => \A r \in acked : r.seq < hwm.count
        /\ \A i \in 1..Len(log), r \in acked :
              log[i] # NoRecord /\ log[i].seq = r.seq => log[i] = r
        /\ proc \in {"reanchor", "up"} /\ Legible(log) => \A r \in acked : Holds(log, r)
        /\ proc = "verify" /\ ~logExists => hwm = NoSidecar
        /\ proc \in {"reanchor", "up"} =>
              /\ hwm.count <= seq
              /\ \A i \in 1..Len(log) : log[i] # NoRecord => log[i].seq < seq
        /\ \A w \in Writers : InFlight(w) => seq = pending[w].seq + 1 /\ hwm.count <= pending[w].seq
        /\ \A w \in Writers : pc[w] = "append" =>
              \A i \in 1..Len(log) : log[i] # NoRecord => log[i].seq < pending[w].seq
        /\ \A w \in Writers : pc[w] = "hwm" =>
              /\ Legible(log) => Holds(log, pending[w])
              /\ \A i \in 1..Len(log) :
                    log[i] # NoRecord /\ log[i].seq = pending[w].seq => log[i] = pending[w]

(* A file as long as the mark that is a chain holds every acknowledged     *)
(* record, at the place its sequence number says.                          *)
LEMMA AcceptedHoldsAcked ==
    ASSUME TypeOK, AckInv, Accounted, Verifies(conf)
    PROVE  /\ \A r \in acked : Holds(log, r)
           /\ hwm.count <= Len(log)
           /\ \A i \in 1..Len(log) : log[i].seq < Len(log)
           /\ log = <<>> => acked = {}
  <1>1. /\ Legible(log) /\ HwmOK(log, hwm, conf)
        /\ \A i \in 1..Len(log) : log[i].seq = i - 1
    BY AcceptedIsChain
  <1>2. Len(log) \in Nat /\ hwm.count \in Nat
    BY LogElements DEF TypeOK, Sidecar
  <1>3. hwm.count <= Len(log)
    BY <1>1, <1>2, EmptySeq DEF HwmOK, NoSidecar
  <1>4. ASSUME NEW r \in acked PROVE Holds(log, r)
    <2>1. r.seq \in Nat /\ (r.seq < hwm.count \/ Holds(log, r))
      BY <1>4 DEF TypeOK, Record, AckInv
    <2>2. CASE r.seq < hwm.count
      <3>1. r.seq + 1 \in 1..Len(log)
        BY <1>2, <1>3, <2>1, <2>2
      <3>2. log[r.seq + 1].seq = r.seq /\ log[r.seq + 1] # NoRecord
        BY <1>1, <2>1, <3>1 DEF Legible
      <3>3. log[r.seq + 1] = r
        BY <3>1, <3>2 DEF AckInv
      <3>. QED
        BY <3>1, <3>3 DEF Holds
    <2>. QED
      BY <2>1, <2>2
  <1>5. log = <<>> => acked = {}
    BY <1>4, EmptySeq DEF Holds
  <1>. QED
    BY <1>1, <1>2, <1>3, <1>4, <1>5

(* What becomes of a write of the record in flight is no other record with *)
(* an acknowledged sequence number, and nothing numbered past it.          *)
LEMMA AckedWrites ==
    ASSUME NEW l \in Seq(Record), NEW m \in Seq(Record), NEW p \in Record, NEW s \in Nat,
           \/ m = l
           \/ Extends(m, l, p)
           \/ Extends(m, l, NoRecord)
           \/ Spoils(m, l),
           \A i \in 1..Len(l) : l[i] # NoRecord => l[i].seq < p.seq, p.seq < s
    PROVE  /\ \A i \in 1..Len(m) : m[i] # NoRecord =>
                 \/ i \in 1..Len(l) /\ m[i] = l[i]
                 \/ m[i] = p
           /\ \A i \in 1..Len(m) : m[i] # NoRecord => m[i].seq < s
           /\ \A i \in 1..Len(m) : m[i] # NoRecord /\ m[i].seq = p.seq => m[i] = p
  <1>1. \A i \in 1..Len(m) : m[i] # NoRecord =>
            \/ i \in 1..Len(l) /\ m[i] = l[i]
            \/ m[i] = p
    BY ExtendedReads, SpoiltReads
  <1>2. /\ p.seq \in Nat
        /\ \A i \in 1..Len(l) : l[i].seq \in Nat
    BY LogElements DEF Record
  <1>3. ASSUME NEW i \in 1..Len(m), m[i] # NoRecord
        PROVE  m[i].seq < s /\ (m[i].seq = p.seq => m[i] = p)
    <2>1. CASE i \in 1..Len(l) /\ m[i] = l[i]
      <3>1. l[i] # NoRecord /\ l[i].seq < p.seq
        BY <1>3, <2>1
      <3>. QED
        BY <1>2, <2>1, <3>1
    <2>2. CASE m[i] = p
      BY <2>2
    <2>. QED
      BY <1>1, <1>3, <2>1, <2>2
  <1>. QED
    BY <1>1, <1>3

LEMMA AckInvariant == SafetySpec => []AckInv
  <1>1. Init => AckInv
    BY EmptySeq DEF Init, AckInv, InFlight
  <1>2. TypeOK /\ LockInv /\ AckInv /\ [Next]_vars => AckInv'
    <2>. SUFFICES ASSUME TypeOK, LockInv, AckInv, [Next]_vars, Accounted'
                  PROVE  AckInv'
      BY DEF AckInv
    <2>a. Accounted
      BY HistoryGrows DEF Accounted
    <2>b. /\ \A r \in acked : r.seq < hwm.count \/ Holds(log, r)
          /\ "mark" \notin lost \/ proc = "up" => \A r \in acked : r.seq < hwm.count
          /\ \A i \in 1..Len(log), r \in acked :
                log[i] # NoRecord /\ log[i].seq = r.seq => log[i] = r
          /\ proc \in {"reanchor", "up"} /\ Legible(log) => \A r \in acked : Holds(log, r)
          /\ proc = "verify" /\ ~logExists => hwm = NoSidecar
          /\ proc \in {"reanchor", "up"} =>
                /\ hwm.count <= seq
                /\ \A i \in 1..Len(log) : log[i] # NoRecord => log[i].seq < seq
      BY <2>a DEF AckInv
    <2>c. /\ \A w \in Writers : InFlight(w) =>
                seq = pending[w].seq + 1 /\ hwm.count <= pending[w].seq
          /\ \A w \in Writers : pc[w] = "append" =>
                \A i \in 1..Len(log) : log[i] # NoRecord => log[i].seq < pending[w].seq
          /\ \A w \in Writers : pc[w] = "hwm" =>
                /\ Legible(log) => Holds(log, pending[w])
                /\ \A i \in 1..Len(log) :
                      log[i] # NoRecord /\ log[i].seq = pending[w].seq => log[i] = pending[w]
      BY <2>a DEF AckInv
    <2>d. /\ seq \in Nat /\ hwm.count \in Nat /\ log \in Seq(Record)
          /\ Len(log) \in Nat /\ \A i \in 1..Len(log) : log[i] \in Record /\ log[i].seq \in Nat
          /\ \A r \in acked : r \in Record /\ r.seq \in Nat
          /\ pc \in [Writers -> WriterStates] /\ pending \in [Writers -> Record]
          /\ \A w \in Writers : pending[w] \in Record /\ pending[w].seq \in Nat
      BY LogElements DEF TypeOK, Sidecar, Record
    <2>e. /\ orphans = {} /\ proc # "bare"
          /\ Serving <=> proc = "up"
      BY <2>a DEF LockInv, Accounted, Serving
    <2>f. ~Serving => \A w \in Writers : pc[w] = "idle"
      BY DEF LockInv
    <2>g. ASSUME UNCHANGED <<log, hwm, acked, lost, seq, pc, pending>>,
                 proc' = proc \/ proc' \in {"down", "refused"}
          PROVE  /\ \A r \in acked' : r.seq < hwm'.count \/ Holds(log', r)
                 /\ "mark" \notin lost' \/ proc' = "up" => \A r \in acked' : r.seq < hwm'.count
                 /\ \A i \in 1..Len(log'), r \in acked' :
                       log'[i] # NoRecord /\ log'[i].seq = r.seq => log'[i] = r
                 /\ proc' \in {"reanchor", "up"} /\ Legible(log') =>
                       \A r \in acked' : Holds(log', r)
                 /\ proc' \in {"reanchor", "up"} =>
                       /\ hwm'.count <= seq'
                       /\ \A i \in 1..Len(log') : log'[i] # NoRecord => log'[i].seq < seq'
                 /\ \A w \in Writers : InFlight(w)' =>
                       seq' = pending'[w].seq + 1 /\ hwm'.count <= pending'[w].seq
                 /\ \A w \in Writers : pc'[w] = "append" =>
                       \A i \in 1..Len(log') : log'[i] # NoRecord => log'[i].seq < pending'[w].seq
                 /\ \A w \in Writers : pc'[w] = "hwm" =>
                       /\ Legible(log') => Holds(log', pending'[w])
                       /\ \A i \in 1..Len(log') :
                             log'[i] # NoRecord /\ log'[i].seq = pending'[w].seq
                                 => log'[i] = pending'[w]
      BY <2>b, <2>c, <2>g DEF InFlight
    <2>1. ASSUME NEW c \in KeyConfigs, BootChecks(c) PROVE AckInv'
      <3>1. /\ UNCHANGED <<log, logExists, hwm, acked, lost, seq, pc, pending>>
            /\ proc = "down" /\ proc' \in {"refused", "verify"}
            /\ proc' = "verify" /\ ~logExists => hwm = NoSidecar
        BY <2>1, <2>a DEF BootChecks, history, Accounted
      <3>2. \A w \in Writers : pc[w] = "idle"
        BY <2>f, <3>1 DEF Serving
      <3>. QED
        BY <2>b, <3>1, <3>2 DEF InFlight, AckInv
    <2>2. CASE BootVerify
      <3>1. /\ UNCHANGED <<log, logExists, hwm, acked, lost, pc, pending>>
            /\ \A w \in Writers : pc[w] = "idle"
            /\ proc' \in {"refused", "reanchor", "up"}
            /\ proc' = "up" => log = <<>>
        BY <2>2, <2>f DEF BootVerify, disk, history, Serving
      <3>2. CASE Verifies(conf)
        <4>1. /\ \A r \in acked : Holds(log, r)
              /\ hwm.count <= Len(log)
              /\ \A i \in 1..Len(log) : log[i].seq < Len(log)
              /\ log = <<>> => acked = {}
          BY <2>a, <3>2, AcceptedHoldsAcked
        <4>2. seq' = Len(log)
          BY <2>2, <3>2 DEF BootVerify
        <4>. QED
          BY <2>b, <3>1, <4>1, <4>2 DEF InFlight, AckInv
      <3>3. CASE ~Verifies(conf)
        <4>1. proc' = "refused"
          BY <2>2, <3>3 DEF BootVerify
        <4>. QED
          BY <2>b, <3>1, <4>1 DEF InFlight, AckInv
      <3>. QED
        BY <3>2, <3>3
    <2>3. CASE BootSeed
      <3>1. /\ UNCHANGED <<log, logExists, hwm, acked, lost, pc, pending>>
            /\ \A w \in Writers : pc[w] = "idle"
            /\ proc' \in {"refused", "up"}
            /\ seq' \in Nat
        BY <2>3, <2>d, <2>f DEF BootSeed, disk, history, Serving
      <3>2. log = <<>> /\ hwm.count = 0
        BY <2>3, <2>a, <2>b DEF BootSeed, Accounted, NoSidecar, TypeOK
      <3>3. acked = {}
        BY <2>b, <2>d, <3>2, EmptySeq DEF Holds
      <3>. QED
        BY <3>1, <3>2, <3>3, EmptySeq DEF InFlight, AckInv
    <2>4. CASE BootReanchor
      <3>1. /\ UNCHANGED <<log, logExists, acked, lost, pc, pending, seq>>
            /\ \A w \in Writers : pc[w] = "idle"
            /\ proc = "reanchor" /\ proc' = "up" /\ hwm'.count = seq
        BY <2>4, <2>f DEF BootReanchor, Replaces, memory, Serving
      <3>2. Legible(log) /\ \A r \in acked : Holds(log, r)
        BY <2>b, <3>1 DEF LockInv
      <3>3. \A r \in acked : r.seq < seq
        BY <2>b, <3>1, <3>2 DEF Holds, Legible
      <3>. QED
        BY <2>b, <2>d, <3>1, <3>2, <3>3 DEF InFlight, AckInv
    <2>5. CASE BootReanchorFails
      BY <2>5, <2>g DEF BootReanchorFails, memory, disk, history, AckInv
    <2>19. ASSUME NEW c \in BareConfigs, StartBare(c) PROVE FALSE
      BY <2>19 DEF StartBare, Accounted
    <2>6. ASSUME NEW w \in Writers, Call(w) PROVE AckInv'
      BY <2>6, <2>b, <2>c, <2>d DEF Call, disk, history, InFlight, AckInv
    <2>7. ASSUME NEW w \in Writers, Acquire(w) PROVE AckInv'
      <3>1. /\ proc = "up" /\ proc' = "up" /\ holder = NoWriter
            /\ UNCHANGED <<log, logExists, hwm, acked, lost>>
            /\ seq' = seq + 1 /\ pc' = [pc EXCEPT ![w] = "append"]
            /\ \A v \in Writers : pending'[v] = IF v = w THEN pending'[w] ELSE pending[v]
            /\ pending'[w].seq = seq
        BY <2>7, <2>d, <2>e DEF Acquire, TakeLock, WriteRecord, disk
      <3>2. \A v \in Writers : ~InFlight(v) /\ (InFlight(v)' => v = w) /\ pc'[v] # "hwm"
        BY <2>d, <3>1, WritersAssumption DEF InFlight, LockInv
      <3>3. /\ hwm'.count <= seq' /\ hwm'.count <= pending'[w].seq
            /\ \A i \in 1..Len(log') : log'[i] # NoRecord =>
                  log'[i].seq < seq' /\ log'[i].seq < pending'[w].seq
        BY <2>b, <2>d, <3>1
      <3>4. \A v \in Writers : pc'[v] = "append" => v = w
        BY <3>2 DEF InFlight
      <3>. QED
        BY <2>b, <3>1, <3>2, <3>3, <3>4 DEF AckInv
    <2>h. ASSUME NEW w \in Writers, InFlight(w), proc = "up"
          PROVE  \A v \in Writers : v # w => pc[v] \notin {"append", "hwm"}
      BY <2>h DEF InFlight, LockInv
    <2>8. ASSUME NEW w \in Writers, AppendDone(w) PROVE AckInv'
      <3>1. /\ proc = "up" /\ proc' = "up" /\ pc[w] = "append"
            /\ UNCHANGED <<hwm, acked, lost, seq, pending>>
            /\ pc' = [pc EXCEPT ![w] = "hwm"]
        BY <2>8, <2>e DEF AppendDone, history
      <3>2. log' \in Seq(Record) /\ (Extends(log', log, pending[w]) \/ Spoils(log', log))
        BY <2>8, <2>d, LineIsWritten DEF AppendDone
      <3>3. /\ seq = pending[w].seq + 1 /\ hwm.count <= pending[w].seq
            /\ \A i \in 1..Len(log) : log[i] # NoRecord => log[i].seq < pending[w].seq
        BY <2>c, <3>1 DEF InFlight
      <3>4. /\ \A i \in 1..Len(log') : log'[i] # NoRecord =>
                  (i \in 1..Len(log) /\ log'[i] = log[i]) \/ log'[i] = pending[w]
            /\ \A i \in 1..Len(log') : log'[i] # NoRecord => log'[i].seq < seq
            /\ \A i \in 1..Len(log') :
                  log'[i] # NoRecord /\ log'[i].seq = pending[w].seq => log'[i] = pending[w]
        <4>1. pending[w].seq < seq
          BY <2>d, <3>3
        <4>. QED
          BY <2>d, <3>2, <3>3, <4>1, AckedWrites
      <3>5. Legible(log') => Holds(log', pending[w]) /\ \A r \in acked : Holds(log', r)
        <4>1. Legible(log') => Legible(log) /\ \A x : Holds(log, x) => Holds(log', x)
          BY <2>d, <3>2, WritesKeep
        <4>2. Legible(log') => Holds(log', pending[w])
          BY <2>d, <3>2, ExtendedReads, SpoiltReads
        <4>. QED
          BY <2>b, <3>1, <4>1, <4>2
      <3>6. \A r \in acked : r.seq < hwm.count
        BY <2>b, <3>1
      <3>7. ASSUME NEW i \in 1..Len(log'), NEW r \in acked,
                   log'[i] # NoRecord, log'[i].seq = r.seq
            PROVE  log'[i] = r
        <4>1. r.seq < pending[w].seq
          BY <2>d, <3>3, <3>6
        <4>2. log'[i] # pending[w]
          BY <2>d, <3>7, <4>1
        <4>3. i \in 1..Len(log) /\ log'[i] = log[i]
          BY <3>4, <3>7, <4>2
        <4>. QED
          BY <2>b, <3>7, <4>3
      <3>8. \A v \in Writers : /\ pc'[v] # "append"
                               /\ pc'[v] = "hwm" => v = w
        BY <2>d, <2>h, <3>1 DEF InFlight
      <3>9. \A v \in Writers : InFlight(v)' => v = w
        BY <3>8 DEF InFlight
      <3>. QED
        BY <2>b, <3>1, <3>3, <3>4, <3>5, <3>6, <3>7, <3>8, <3>9 DEF AckInv
    <2>9. ASSUME NEW w \in Writers, AppendFails(w) PROVE AckInv'
      <3>1. /\ proc = "up" /\ proc' = "up" /\ pc[w] = "append"
            /\ UNCHANGED <<hwm, acked, lost, seq>>
            /\ pc' = [pc EXCEPT ![w] = "idle"]
        BY <2>9, <2>e DEF AppendFails, Release, history
      <3>2. /\ log' \in Seq(Record)
            /\ \/ log' = log
               \/ Extends(log', log, pending[w])
               \/ Extends(log', log, NoRecord)
               \/ Spoils(log', log)
        BY <2>9, <2>d, WriteIsStopped DEF AppendFails
      <3>3. /\ seq = pending[w].seq + 1 /\ hwm.count <= pending[w].seq
            /\ \A i \in 1..Len(log) : log[i] # NoRecord => log[i].seq < pending[w].seq
        BY <2>c, <3>1 DEF InFlight
      <3>4. /\ \A i \in 1..Len(log') : log'[i] # NoRecord =>
                  (i \in 1..Len(log) /\ log'[i] = log[i]) \/ log'[i] = pending[w]
            /\ \A i \in 1..Len(log') : log'[i] # NoRecord => log'[i].seq < seq
        <4>1. pending[w].seq < seq
          BY <2>d, <3>3
        <4>. QED
          BY <2>d, <3>2, <3>3, <4>1, AckedWrites
      <3>5. Legible(log') => \A r \in acked : Holds(log', r)
        BY <2>b, <2>d, <3>1, <3>2, WritesKeep
      <3>6. \A r \in acked : r.seq < hwm.count
        BY <2>b, <3>1
      <3>7. ASSUME NEW i \in 1..Len(log'), NEW r \in acked,
                   log'[i] # NoRecord, log'[i].seq = r.seq
            PROVE  log'[i] = r
        <4>1. r.seq < pending[w].seq
          BY <2>d, <3>3, <3>6
        <4>2. log'[i] # pending[w]
          BY <2>d, <3>7, <4>1
        <4>3. i \in 1..Len(log) /\ log'[i] = log[i]
          BY <3>4, <3>7, <4>2
        <4>. QED
          BY <2>b, <3>7, <4>3
      <3>8. \A v \in Writers : pc'[v] \notin {"append", "hwm"}
        BY <2>d, <2>h, <3>1 DEF InFlight
      <3>9. \A v \in Writers : pc'[v] # "append" /\ pc'[v] # "hwm" /\ ~InFlight(v)'
        BY <3>8 DEF InFlight
      <3>. QED
        BY <2>b, <3>1, <3>4, <3>5, <3>6, <3>7, <3>9 DEF AckInv
    <2>10. ASSUME NEW w \in Writers, HwmDone(w) PROVE AckInv'
      <3>1. /\ proc = "up" /\ proc' = "up" /\ pc[w] = "hwm"
            /\ UNCHANGED <<log, logExists, lost, seq>>
            /\ hwm'.count = pending[w].seq + 1 /\ acked' = acked \cup {pending[w]}
            /\ pc' = [pc EXCEPT ![w] = "idle"]
        BY <2>10, <2>e DEF HwmDone, Release, Replaces, Anchor
      <3>2. \A v \in Writers : pc'[v] \notin {"append", "hwm"}
        BY <2>d, <2>h, <3>1 DEF InFlight
      <3>3. \A v \in Writers : pc'[v] # "append" /\ pc'[v] # "hwm" /\ ~InFlight(v)'
        BY <3>2 DEF InFlight
      <3>4. /\ seq = pending[w].seq + 1 /\ hwm.count <= pending[w].seq
            /\ Legible(log) => Holds(log, pending[w])
            /\ \A i \in 1..Len(log) :
                  log[i] # NoRecord /\ log[i].seq = pending[w].seq => log[i] = pending[w]
        BY <2>c, <3>1 DEF InFlight
      <3>5. \A r \in acked' : r.seq < hwm'.count
        BY <2>b, <2>d, <3>1, <3>4
      <3>. QED
        BY <2>b, <2>d, <3>1, <3>3, <3>4, <3>5 DEF AckInv
    <2>11. ASSUME NEW w \in Writers, HwmFails(w) PROVE AckInv'
      <3>1. /\ proc = "up" /\ proc' = "up" /\ pc[w] = "hwm"
            /\ UNCHANGED <<log, logExists, hwm, acked, lost, seq>>
            /\ pc' = [pc EXCEPT ![w] = "idle"]
        BY <2>11, <2>e DEF HwmFails, Release, disk, history
      <3>2. \A v \in Writers : pc'[v] \notin {"append", "hwm"}
        BY <2>d, <2>h, <3>1 DEF InFlight
      <3>3. \A v \in Writers : pc'[v] # "append" /\ pc'[v] # "hwm" /\ ~InFlight(v)'
        BY <3>2 DEF InFlight
      <3>. QED
        BY <2>b, <3>1, <3>3 DEF AckInv
    <2>12. ASSUME NEW w \in Writers, CancelWaiting(w) \/ CancelHolder(w) PROVE FALSE
      BY <2>12, <2>a DEF CancelWaiting, CancelHolder, Accounted, TypeOK
    <2>16. CASE Crash
      <3>1. /\ proc' = "down" /\ UNCHANGED <<hwm, acked, lost>>
            /\ \A v \in Writers : pc'[v] = "idle"
        BY <2>16 DEF Crash, history
      <3>2. UNCHANGED log \/ \E w \in Writers : pc[w] = "append" /\ WriteStops(pending[w])
        BY <2>16, <2>e DEF Crash, Appending
      <3>3. CASE UNCHANGED log
        BY <2>b, <3>1, <3>3 DEF InFlight, AckInv
      <3>4. ASSUME NEW w \in Writers, pc[w] = "append", WriteStops(pending[w])
            PROVE  AckInv'
        <4>1. proc = "up"
          BY <2>e, <2>f, <3>4
        <4>2. /\ log' \in Seq(Record)
              /\ \/ log' = log
                 \/ Extends(log', log, pending[w])
                 \/ Extends(log', log, NoRecord)
                 \/ Spoils(log', log)
          BY <2>d, <3>4, WriteIsStopped
        <4>3. /\ seq = pending[w].seq + 1 /\ hwm.count <= pending[w].seq
              /\ \A i \in 1..Len(log) : log[i] # NoRecord => log[i].seq < pending[w].seq
          BY <2>c, <3>4 DEF InFlight
        <4>4. \A i \in 1..Len(log') : log'[i] # NoRecord =>
                  (i \in 1..Len(log) /\ log'[i] = log[i]) \/ log'[i] = pending[w]
          <5>1. pending[w].seq < seq
            BY <2>d, <4>3
          <5>. QED
            BY <2>d, <4>2, <4>3, <5>1, AckedWrites
        <4>5. \A r \in acked : r.seq < hwm.count
          BY <2>b, <4>1
        <4>6. ASSUME NEW i \in 1..Len(log'), NEW r \in acked,
                     log'[i] # NoRecord, log'[i].seq = r.seq
              PROVE  log'[i] = r
          <5>1. r.seq < pending[w].seq
            BY <2>d, <4>3, <4>5
          <5>2. log'[i] # pending[w]
            BY <2>d, <4>6, <5>1
          <5>3. i \in 1..Len(log) /\ log'[i] = log[i]
            BY <4>4, <4>6, <5>2
          <5>. QED
            BY <2>b, <4>6, <5>3
        <4>. QED
          BY <3>1, <4>5, <4>6 DEF InFlight, AckInv
      <3>. QED
        BY <3>2, <3>3, <3>4
    <2>17. ASSUME NEW n \in 0..Len(log), PowerFails(n) PROVE AckInv'
      <3>1. /\ proc' = "down" /\ pc' = pc
            /\ lost \subseteq lost'
            /\ "mark" \notin lost' => hwm' = hwm
            /\ acked' = {r \in acked : "mark" \in lost' => r.seq < hwm'.count \/ Holds(log', r)}
        BY <2>17 DEF PowerFails, memory
      <3>2. \A v \in Writers : pc'[v] = "idle"
        BY <2>17, <2>f, <3>1 DEF PowerFails, Serving
      <3>3. log' \in Seq(Record) /\ CutTo(log', log, n)
        BY <2>17, <2>d, LogIsCut DEF PowerFails
      <3>4. \A i \in 1..Len(log') : log'[i] # NoRecord => i \in 1..Len(log) /\ log'[i] = log[i]
        BY <2>d, <3>3, CutReads
      <3>5. "mark" \notin lost' => \A r \in acked' : r.seq < hwm'.count
        BY <2>b, <3>1
      <3>6. \A r \in acked' : r.seq < hwm'.count \/ Holds(log', r)
        BY <3>1, <3>5
      <3>7. \A i \in 1..Len(log'), r \in acked' :
                log'[i] # NoRecord /\ log'[i].seq = r.seq => log'[i] = r
        BY <2>b, <3>1, <3>4
      <3>. QED
        BY <3>1, <3>2, <3>5, <3>6, <3>7 DEF InFlight, AckInv
    <2>18. CASE UNCHANGED vars
      BY <2>18, <2>b, <2>g DEF vars, disk, memory, history, AckInv
    <2>. QED
      BY <2>e, <2>1, <2>2, <2>3, <2>4, <2>5, <2>6, <2>7, <2>8, <2>9, <2>10, <2>11, <2>12,
         <2>16, <2>17, <2>18, <2>19
      DEF Next, Boot, AppendCall
  <1>. QED
    BY <1>1, <1>2, TypeCorrect, LockInvariant, PTL DEF SafetySpec

(* A readable log has every record ever acknowledged unless a power        *)
(* failure took lines; and then, under startup verification and if no call *)
(* was cancelled, a process that is up has every acknowledged record that  *)
(* was not forgotten with its mark, although writes fail, the process      *)
(* crashes anywhere, and the log, the mark and the marker are lost or      *)
(* revert in any combination.                                              *)
THEOREM AckedCorrect == SafetySpec => []AckedSurvive
  <1>1. KeptInv /\ AckInv => AckedSurvive
    BY DEF KeptInv, AckInv, Accounted, AckedSurvive, Kept
  <1>. QED
    BY <1>1, KeptInvariant, AckInvariant, PTL

-------------------------------------------------------------------------------
(* What a crash leaves is accepted, unless a line cannot be read.          *)

(* The histories in which the next boot has nothing to complain of.        *)
Undamaged == ioErrors = 0 /\ cancels = 0 /\ lost = {} /\ ~bareLife

(* The mark is never ahead of a readable file, and names its head when     *)
(* level with it; the in-memory head is just past the record in flight.    *)
RestartInv ==
    /\ \A w \in Writers : proc = "up" /\ InFlight(w) =>
          seq = pending[w].seq + 1 /\ prevHash = pending[w].id
    /\ Undamaged /\ hwm # NoSidecar =>
          /\ log # <<>> /\ hwm # Garbled
          /\ Legible(log) =>
                /\ hwm.count <= Len(log)
                /\ Len(log) = hwm.count => HeadAt(log, Len(log)) = hwm.head

LEMMA RestartInvariant == SafetySpec => []RestartInv
  <1>1. Init => RestartInv
    BY DEF Init, RestartInv, InFlight
  <1>2. TypeOK /\ LockInv /\ ChainInv /\ RestartInv /\ [Next]_vars => RestartInv'
    <2>. SUFFICES ASSUME TypeOK, LockInv, ChainInv, RestartInv, [Next]_vars PROVE RestartInv'
      OBVIOUS
    <2>. DEFINE MarkOK ==
           /\ log # <<>> /\ hwm # Garbled
           /\ Legible(log) =>
                 /\ hwm.count <= Len(log)
                 /\ Len(log) = hwm.count => HeadAt(log, Len(log)) = hwm.head
    <2>a. /\ \A w \in Writers : proc = "up" /\ InFlight(w) =>
                seq = pending[w].seq + 1 /\ prevHash = pending[w].id
          /\ Undamaged /\ hwm # NoSidecar => MarkOK
      BY DEF RestartInv
    <2>b. /\ Undamaged' => Undamaged /\ Trusted /\ orphans = {}
          /\ Undamaged' => ioErrors' = 0 /\ cancels' = 0 /\ lost' = {} /\ ~bareLife'
      BY HistoryGrows DEF Undamaged, Trusted, LockInv
    <2>c. /\ pc \in [Writers -> WriterStates] /\ pending \in [Writers -> Record]
          /\ \A w \in Writers : pending[w] \in Record /\ pending[w].seq \in Nat
          /\ Len(log) \in Nat /\ log \in Seq(Record)
          /\ hwm \in Sidecar /\ hwm.count \in Nat
          /\ \A j \in orphans : j.rec \in Record
      BY LogElements DEF TypeOK, Sidecar, Record, Job
    <2>d. Undamaged => Trusted /\ (Serving <=> proc = "up")
      BY DEF Undamaged, Trusted, LockInv, Serving
    <2>e. ~Serving => \A w \in Writers : pc[w] = "idle"
      BY DEF LockInv
    <2>. HIDE DEF MarkOK
    <2>f. ASSUME \A w \in Writers : proc' = "up" /\ InFlight(w)' =>
                    seq' = pending'[w].seq + 1 /\ prevHash' = pending'[w].id,
                 Undamaged' /\ hwm' # NoSidecar => MarkOK'
          PROVE  RestartInv'
      BY <2>f DEF RestartInv, MarkOK
    <2>g. UNCHANGED <<log, hwm>> => (Undamaged' /\ hwm' # NoSidecar => MarkOK')
      BY <2>a, <2>b DEF MarkOK
    <2>h. ASSUME \A w \in Writers : pc'[w] = "idle"
          PROVE  \A w \in Writers : ~InFlight(w)'
      BY <2>h DEF InFlight
    (* A write that goes through, or stops, moves the end of the file on.  *)
    <2>i. ASSUME UNCHANGED hwm, log' \in Seq(Record), log # <<>> => log' # <<>>,
                 \/ log' = log
                 \/ \E r \in Record : Extends(log', log, r)
                 \/ Spoils(log', log)
          PROVE  Undamaged' /\ hwm' # NoSidecar => MarkOK'
      <3>. SUFFICES ASSUME Undamaged', hwm' # NoSidecar PROVE MarkOK'
        OBVIOUS
      <3>1. MarkOK
        BY <2>a, <2>b, <2>i
      <3>2. CASE log' = log
        BY <2>i, <3>1, <3>2 DEF MarkOK
      <3>3. ASSUME NEW r \in Record, Extends(log', log, r) PROVE MarkOK'
        <4>1. Legible(log') => Legible(log)
          BY <2>c, <2>i, <3>3, ExtendedReads
        <4>2. Len(log') = Len(log) + 1
          BY <3>3 DEF Extends
        <4>3. Legible(log') => hwm.count < Len(log')
          BY <2>c, <3>1, <4>1, <4>2 DEF MarkOK
        <4>. QED
          BY <2>c, <2>i, <3>1, <4>2, <4>3 DEF MarkOK
      <3>4. CASE Spoils(log', log)
        BY <2>c, <2>i, <3>1, <3>4, SpoiltReads DEF MarkOK
      <3>. QED
        BY <2>i, <3>2, <3>3, <3>4
    <2>1. ASSUME NEW c \in KeyConfigs, BootChecks(c) PROVE RestartInv'
      BY <2>1, <2>e, <2>f, <2>g, <2>h DEF BootChecks, Serving
    <2>2. CASE BootVerify
      BY <2>2, <2>e, <2>f, <2>g, <2>h DEF BootVerify, disk, Serving
    <2>3. CASE BootSeed
      BY <2>3, <2>e, <2>f, <2>g, <2>h DEF BootSeed, disk, Serving
    <2>4. CASE BootReanchor
      <3>1. /\ UNCHANGED <<log, pc>> /\ proc = "reanchor"
            /\ hwm' = [count |-> seq, head |-> prevHash, mac |-> conf.cur]
        BY <2>4 DEF BootReanchor, Replaces, memory
      <3>2. \A w \in Writers : ~InFlight(w)'
        BY <2>e, <2>h, <3>1 DEF Serving
      <3>3. Legible(log) /\ log # <<>>
        BY <3>1 DEF LockInv
      <3>4. ASSUME Undamaged' PROVE MarkOK'
        <4>1. seq = Len(log) /\ prevHash = HeadAt(log, Len(log))
          BY <2>b, <3>1, <3>3, <3>4 DEF ChainInv, HeadInv, AtTail
        <4>2. hwm' # Garbled
          BY <2>c, <3>1, <3>3, <4>1, EmptySeq DEF Garbled
        <4>. QED
          BY <2>c, <3>1, <3>3, <4>1, <4>2 DEF MarkOK
      <3>. QED
        BY <2>f, <3>2, <3>4
    <2>5. CASE BootReanchorFails
      BY <2>5, <2>e, <2>f, <2>g, <2>h DEF BootReanchorFails, memory, disk, Serving
    <2>19. ASSUME NEW c \in BareConfigs, StartBare(c) PROVE RestartInv'
      BY <2>19, <2>b, <2>e, <2>f, <2>h DEF StartBare, disk, Serving
    <2>6. ASSUME NEW w \in Writers, Call(w) PROVE RestartInv'
      BY <2>6, <2>a, <2>c, <2>f, <2>g DEF Call, disk, InFlight
    <2>j. ASSUME NEW w \in Writers, proc = "up", InFlight(w)
          PROVE  \A v \in Writers : v # w => ~InFlight(v)
      BY <2>j DEF InFlight, LockInv
    <2>7. ASSUME NEW w \in Writers, Acquire(w) PROVE RestartInv'
      <3>1. /\ UNCHANGED <<log, hwm>> /\ proc' = proc
            /\ pc' = [pc EXCEPT ![w] = "append"]
            /\ seq' = seq + 1 /\ prevHash' = nextId
            /\ pending' = [pending EXCEPT ![w] = [seq |-> seq, id |-> nextId, prev |-> prevHash,
                                                  mac |-> conf.cur]]
            /\ proc = "up" => holder = NoWriter
        BY <2>7 DEF Acquire, TakeLock, WriteRecord, disk
      <3>2. proc = "up" => \A v \in Writers : ~InFlight(v)
        BY <3>1, WritersAssumption DEF InFlight, LockInv
      <3>3. \A v \in Writers : v # w => pc'[v] = pc[v]
        BY <2>c, <3>1
      <3>4. pending'[w].seq = seq /\ pending'[w].id = nextId
        BY <2>c, <3>1
      <3>. QED
        BY <2>f, <2>g, <3>1, <3>2, <3>3, <3>4 DEF InFlight
    <2>8. ASSUME NEW w \in Writers, AppendDone(w) PROVE RestartInv'
      <3>1. /\ UNCHANGED <<hwm, proc, seq, prevHash, pending>>
            /\ pc[w] = "append" /\ pc' = [pc EXCEPT ![w] = "hwm"]
        BY <2>8 DEF AppendDone
      <3>2. Undamaged' /\ hwm' # NoSidecar => MarkOK'
        BY <2>8, <2>c, <2>i, <3>1, LineIsWritten DEF AppendDone
      <3>3. \A v \in Writers : InFlight(v)' => InFlight(v)
        BY <2>c, <3>1 DEF InFlight
      <3>. QED
        BY <2>a, <2>f, <3>1, <3>2, <3>3
    <2>k. ASSUME NEW w \in Writers, Release(w), UNCHANGED <<proc, seq, prevHash>>
          PROVE  \A v \in Writers : proc' = "up" /\ InFlight(v)' =>
                    seq' = pending'[v].seq + 1 /\ prevHash' = pending'[v].id
      <3>1. \A v \in Writers : InFlight(v)' => InFlight(v) /\ pending'[v] = pending[v]
        BY <2>c, <2>k DEF Release, InFlight
      <3>. QED
        BY <2>a, <2>k, <3>1
    <2>9. ASSUME NEW w \in Writers, AppendFails(w) PROVE RestartInv'
      <3>1. Release(w) /\ UNCHANGED <<hwm, proc, seq, prevHash>>
            /\ ioErrors' = ioErrors + 1
        BY <2>9 DEF AppendFails
      <3>2. ~Undamaged'
        BY <3>1 DEF Undamaged, TypeOK
      <3>. QED
        BY <2>f, <2>k, <3>1, <3>2
    <2>10. ASSUME NEW w \in Writers, HwmDone(w) PROVE RestartInv'
      <3>1. /\ Release(w) /\ UNCHANGED <<log, proc, seq, prevHash>>
            /\ pc[w] = "hwm" /\ hwm' = Anchor(pending[w]) /\ Serving
        BY <2>10 DEF HwmDone, Replaces
      <3>2. ASSUME Undamaged' PROVE MarkOK'
        <4>1. proc = "up" /\ Trusted
          BY <2>b, <2>d, <3>1, <3>2
        <4>2. seq = pending[w].seq + 1 /\ prevHash = pending[w].id
          BY <2>a, <3>1, <4>1 DEF InFlight
        <4>3. \A v \in Writers : pc[v] # "append"
          BY <2>j, <3>1, <4>1 DEF InFlight
        <4>4. Legible(log) => seq = Len(log) /\ prevHash = HeadAt(log, Len(log))
          BY <4>1, <4>3 DEF ChainInv, HeadInv, AtTail
        <4>5. log # <<>>
          BY <3>1 DEF LockInv
        <4>6. hwm'.count = pending[w].seq + 1 /\ hwm'.head = pending[w].id
          BY <3>1 DEF Anchor
        <4>7. hwm' # Garbled
          BY <2>c, <4>6 DEF Garbled
        <4>. QED
          BY <2>c, <3>1, <4>2, <4>4, <4>5, <4>6, <4>7 DEF MarkOK
      <3>. QED
        BY <2>f, <2>k, <3>1, <3>2
    <2>11. ASSUME NEW w \in Writers, HwmFails(w) PROVE RestartInv'
      BY <2>11, <2>f, <2>g, <2>k DEF HwmFails, disk
    <2>12. ASSUME NEW w \in Writers, CancelWaiting(w) PROVE RestartInv'
      BY <2>12, <2>a, <2>c, <2>f, <2>g DEF CancelWaiting, disk, InFlight
    <2>13. ASSUME NEW w \in Writers, CancelHolder(w) PROVE RestartInv'
      BY <2>13, <2>f, <2>g, <2>k DEF CancelHolder, disk
    <2>14. ASSUME NEW j \in orphans, OrphanAppend(j) \/ OrphanHwm(j) \/ OrphanFails(j)
           PROVE  RestartInv'
      <3>1. UNCHANGED <<proc, pc, pending, seq, prevHash>>
        BY <2>14 DEF OrphanAppend, OrphanHwm, OrphanFails
      <3>. QED
        BY <2>14, <2>a, <2>b, <2>f, <3>1 DEF InFlight
    <2>16. CASE Crash
      <3>1. proc' = "down" /\ UNCHANGED hwm
        BY <2>16 DEF Crash
      <3>2. UNCHANGED log \/ \E r \in Record : WriteStops(r)
        BY <2>16, <2>c DEF Crash, Appending
      <3>3. /\ log' \in Seq(Record) /\ (log # <<>> => log' # <<>>)
            /\ \/ log' = log
               \/ \E r \in Record : Extends(log', log, r)
               \/ Spoils(log', log)
        <4>1. CASE UNCHANGED log
          BY <2>c, <4>1
        <4>2. ASSUME NEW r \in Record, WriteStops(r)
              PROVE  /\ log' \in Seq(Record) /\ (log # <<>> => log' # <<>>)
                     /\ \/ log' = log
                        \/ \E q \in Record : Extends(log', log, q)
                        \/ Spoils(log', log)
          BY <4>2, WriteIsStopped, UnreadableIsRecord
        <4>. QED
          BY <3>2, <4>1, <4>2
      <3>4. Undamaged' /\ hwm' # NoSidecar => MarkOK'
        BY <2>i, <3>1, <3>3
      <3>. QED
        BY <2>f, <3>1, <3>4
    <2>17. ASSUME NEW n \in 0..Len(log), PowerFails(n) PROVE RestartInv'
      <3>1. proc' = "down" /\ (lost' = {} => UNCHANGED <<log, hwm>>)
        BY <2>17 DEF PowerFails
      <3>2. Undamaged' => UNCHANGED <<log, hwm>>
        BY <3>1 DEF Undamaged
      <3>. QED
        BY <2>f, <2>g, <3>1, <3>2
    <2>18. CASE UNCHANGED vars
      BY <2>18, <2>a, <2>f, <2>g DEF vars, disk, memory, InFlight
    <2>. QED
      BY <2>1, <2>2, <2>3, <2>4, <2>5, <2>6, <2>7, <2>8, <2>9, <2>10, <2>11, <2>12,
         <2>13, <2>14, <2>16, <2>17, <2>18, <2>19
      DEF Next, Boot, AppendCall
  <1>. QED
    BY <1>1, <1>2, TypeCorrect, LockInvariant, ChainInvariant, PTL DEF SafetySpec

(* Without failed writes, cancellations, power failures and processes that *)
(* skip on_startup, a log that has its sidecar is accepted by the next     *)
(* verifying boot, whatever keys cover the MACs on disk, exactly if all    *)
(* its lines can be read: a crash refuses a boot only by a line cut short. *)
THEOREM RestartCorrect == SafetySpec => []RestartAccepted
  <1>1. TypeOK /\ ChainInv /\ RestartInv => RestartAccepted
    <2>. SUFFICES ASSUME TypeOK, ChainInv, RestartInv, Undamaged, hwm # NoSidecar
                  PROVE  /\ logExists
                         /\ \A c \in KeyConfigs :
                              Covers(c) => (Verifies(c) <=> Legible(log))
      BY DEF RestartAccepted, Undamaged
    <2>1. logExists
      BY DEF RestartInv, TypeOK
    <2>2. ASSUME NEW c \in KeyConfigs, Covers(c), Legible(log) PROVE Verifies(c)
      <3>1. Sound(log)
        BY DEF ChainInv, Trusted, Undamaged
      <3>2. \A i \in 1..Len(log) : \A k \in 1..i : log[k] # NoRecord
        BY <2>2, LogElements DEF Legible, TypeOK
      <3>3. ChainOK(log)
        BY <2>2, <3>1, <3>2 DEF Sound, ChainOK
      <3>4. HwmOK(log, hwm, c)
        BY <2>2, LogElements DEF HwmOK, RestartInv, Covers, TypeOK, Sidecar
      <3>. QED
        BY <2>2, <3>3, <3>4 DEF Verifies, Covers
    <2>3. ASSUME NEW c \in KeyConfigs, Verifies(c) PROVE Legible(log)
      BY <2>3, AcceptedIsChain
    <2>. QED
      BY <2>1, <2>2, <2>3
  <1>. QED
    BY <1>1, TypeCorrect, ChainInvariant, RestartInvariant, PTL

-------------------------------------------------------------------------------
(* The engine implements the abstract trail.                               *)

(* Where no call is cancelled and every process runs on_startup, the       *)
(* faults that escape it never happen.                                     *)
LEMMA NoEscapes ==
    ASSUME VerifyOnStartup, MaxCancels = 0, BareConfigs = {}
    PROVE  SafetySpec => []Accounted
  <1>1. Init => Accounted
    BY DEF Init, Accounted
  <1>2. TypeOK /\ Accounted /\ [Next]_vars => Accounted'
    <2>. SUFFICES ASSUME TypeOK, Accounted, [Next]_vars PROVE cancels' = 0 /\ ~bareLife'
      BY DEF Accounted
    <2>. USE DEF faults, history, Accounted
    <2>1. CASE Boot
      BY <2>1
      DEF Boot, BootChecks, BootVerify, BootSeed, BootReanchor, BootReanchorFails
    <2>2. ASSUME NEW w \in Writers, AppendCall(w) PROVE cancels' = 0 /\ ~bareLife'
      <3>1. ~CancelWaiting(w) /\ ~CancelHolder(w)
        BY DEF CancelWaiting, CancelHolder
      <3>2. CASE Call(w) \/ Acquire(w) \/ AppendDone(w) \/ AppendFails(w)
        BY <3>2 DEF Call, Acquire, TakeLock, AppendDone, AppendFails
      <3>3. CASE HwmDone(w) \/ HwmFails(w)
        BY <3>3 DEF HwmDone, HwmFails
      <3>. QED
        BY <2>2, <3>1, <3>2, <3>3 DEF AppendCall
    <2>3. ASSUME NEW j \in orphans, OrphanAppend(j) \/ OrphanHwm(j) \/ OrphanFails(j)
          PROVE  cancels' = 0 /\ ~bareLife'
      BY <2>3 DEF OrphanAppend, OrphanHwm, OrphanFails
    <2>4. CASE Crash
      BY <2>4 DEF Crash
    <2>5. ASSUME NEW n \in 0..Len(log), PowerFails(n) PROVE cancels' = 0 /\ ~bareLife'
      BY <2>5 DEF PowerFails
    <2>6. CASE UNCHANGED vars
      BY <2>6 DEF vars
    <2>. QED
      BY <2>1, <2>2, <2>3, <2>4, <2>5, <2>6 DEF Next
  <1>. QED
    BY <1>1, <1>2, TypeCorrect, PTL DEF SafetySpec

(* A write, whole or not, is growth of the trail.                          *)
LEMMA LogGrows ==
    ASSUME log \in Seq(Record),
           \/ log' = log
           \/ \E x \in Record : log' = Append(log, x)
           \/ log # <<>> /\ log' = Glued
    PROVE  Trail!Grows
  <1>1. CASE log' = log
    BY <1>1 DEF Trail!Grows
  <1>2. ASSUME NEW x \in Record, log' = Append(log, x) PROVE Trail!Grows
    <2>1. Len(log') = Len(log) + 1 /\ log'[Len(log')] = x
      BY <1>2, AppendExtends DEF Extends
    <2>. QED
      BY <1>2, <2>1 DEF Trail!Grows
  <1>3. CASE log # <<>> /\ log' = Glued
    BY <1>3 DEF Glued, Trail!Grows
  <1>. QED
    BY <1>1, <1>2, <1>3

(* With startup verification, no cancelled call and no process that skips  *)
(* on_startup, every step of the engine is a step of the trail or leaves   *)
(* it alone: a boot opens a trail only if it can be read throughout and    *)
(* has every acknowledged record; an append writes at the end, or spoils   *)
(* it; the sidecar write acknowledges a record that is there; a power      *)
(* failure cuts the end, and what it forgets is no longer in the trail.    *)
THEOREM EngineImplementsTrail ==
    ASSUME VerifyOnStartup, MaxCancels = 0, BareConfigs = {}
    PROVE  SafetySpec => ImplementsTrail
  <1>1. Init => Trail!Init
    BY DEF Init, Trail!Init
  <1>2. TypeOK /\ LockInv /\ AckInv /\ AckInv' /\ Accounted /\ Accounted' /\ [Next]_vars
            => [Trail!Next]_(Trail!vars)
    <2>. SUFFICES ASSUME TypeOK, LockInv, AckInv, AckInv', Accounted, Accounted', [Next]_vars
                  PROVE  Trail!Next \/ UNCHANGED Trail!vars
      BY DEF Trail!vars
    <2>a. proc' = "up" /\ Legible(log') =>
              \A r \in acked' : \E i \in 1..Len(log') : log'[i] = r
      BY DEF AckInv, Holds
    <2>b. /\ orphans = {} /\ proc # "bare"
          /\ Serving => proc = "up"
      BY DEF LockInv, Accounted, Serving
    <2>c. ~Serving => \A w \in Writers : pc[w] = "idle"
      BY DEF LockInv
    <2>d. /\ log \in Seq(Record) /\ NoRecord \in Record
          /\ \A w \in Writers : pending[w] \in Record
      BY UnreadableIsRecord DEF TypeOK
    <2>e. ASSUME NEW w \in Writers, WritesLine(pending[w]) \/ WriteStops(pending[w])
          PROVE  Trail!Grows
      <3>1. \/ log' = log
            \/ log' = Append(log, pending[w])
            \/ log' = Append(log, NoRecord)
            \/ log # <<>> /\ log' = Glued
        BY <2>d, <2>e, LineIsWritten, WriteIsStopped
      <3>2. \/ log' = log
            \/ \E x \in Record : log' = Append(log, x)
            \/ log # <<>> /\ log' = Glued
        BY <2>d, <3>1
      <3>. QED
        BY <2>d, <3>2, LogGrows
    <2>f. ASSUME UNCHANGED <<log, acked>>, proc # "up", proc' = "up", Legible(log)
          PROVE  Trail!Next
      BY <2>a, <2>f DEF Legible, Trail!Next, Trail!Open, Trail!Present, Trail!Readable
    <2>1. ASSUME NEW c \in KeyConfigs, BootChecks(c) PROVE UNCHANGED Trail!vars
      BY <2>1 DEF BootChecks, history, Trail!vars
    <2>2. CASE BootVerify
      <3>1. UNCHANGED <<log, acked>> /\ proc = "verify"
        BY <2>2 DEF BootVerify, disk, history
      <3>2. proc' = "up" => Legible(log)
        BY <2>2 DEF BootVerify, Verifies, ChainOK
      <3>. QED
        BY <2>f, <3>1, <3>2 DEF Trail!vars
    <2>3. CASE BootSeed
      <3>1. UNCHANGED <<log, acked>> /\ proc = "verify"
        BY <2>3 DEF BootSeed, disk, history
      <3>2. proc' = "up" => Legible(log)
        BY <2>3 DEF BootSeed
      <3>. QED
        BY <2>f, <3>1, <3>2 DEF Trail!vars
    <2>4. CASE BootReanchor
      BY <2>4, <2>f DEF BootReanchor, LockInv
    <2>5. CASE BootReanchorFails
      BY <2>5 DEF BootReanchorFails, disk, history, Trail!vars
    <2>6. ASSUME NEW c \in BareConfigs, StartBare(c) PROVE FALSE
      BY <2>6
    <2>7. ASSUME NEW w \in Writers, Call(w) \/ Acquire(w) PROVE UNCHANGED Trail!vars
      BY <2>7 DEF Call, Acquire, TakeLock, disk, history, Trail!vars
    <2>8. ASSUME NEW w \in Writers, AppendDone(w) \/ AppendFails(w) PROVE Trail!Next
      <3>1. /\ proc = "up" /\ proc' = "up" /\ UNCHANGED acked
            /\ WritesLine(pending[w]) \/ WriteStops(pending[w])
        BY <2>8, <2>b DEF AppendDone, AppendFails, history
      <3>. QED
        BY <2>e, <3>1 DEF Trail!Next, Trail!Write
    <2>9. ASSUME NEW w \in Writers, HwmDone(w) PROVE Trail!Next
      <3>1. /\ proc = "up" /\ proc' = "up" /\ UNCHANGED log /\ acked \subseteq acked'
        BY <2>9, <2>b DEF HwmDone
      <3>. QED
        BY <2>a, <3>1
        DEF Legible, Trail!Next, Trail!Acknowledge, Trail!Present, Trail!Readable
    <2>10. ASSUME NEW w \in Writers, HwmFails(w) PROVE UNCHANGED Trail!vars
      BY <2>10 DEF HwmFails, disk, history, Trail!vars
    <2>11. ASSUME NEW w \in Writers, CancelWaiting(w) \/ CancelHolder(w)
           PROVE  UNCHANGED Trail!vars
      BY <2>11 DEF CancelWaiting, CancelHolder, disk, history, Trail!vars
    <2>12. CASE Crash
      <3>1. proc' = "down" /\ UNCHANGED acked
        BY <2>12 DEF Crash, history
      <3>2. UNCHANGED log \/ \E w \in Writers : pc[w] = "append" /\ WriteStops(pending[w])
        BY <2>12, <2>b DEF Crash, Appending
      <3>3. CASE proc = "up"
        <4>1. Trail!Grows
          BY <2>d, <2>e, <3>2, LogGrows
        <4>. QED
          BY <3>1, <3>3, <4>1 DEF Trail!Next, Trail!Close
      <3>4. CASE proc # "up"
        BY <2>b, <2>c, <3>1, <3>2, <3>4 DEF Trail!vars
      <3>. QED
        BY <3>3, <3>4
    <2>13. ASSUME NEW n \in 0..Len(log), PowerFails(n) PROVE Trail!Next
      <3>1. /\ proc = "down" /\ proc' = "down" /\ acked' \subseteq acked
            /\ \A r \in acked \ acked' : ~Holds(log', r)
        BY <2>13 DEF PowerFails
      <3>2. log' \in {SubSeq(log, 1, n), Append(SubSeq(log, 1, n), NoRecord)}
        BY <2>13 DEF PowerFails, EndsAfter
      <3>. QED
        BY <3>1, <3>2 DEF Holds, Trail!Next, Trail!Lose, Trail!Present
    <2>14. CASE UNCHANGED vars
      BY <2>14 DEF vars, disk, history, Trail!vars
    <2>. QED
      BY <2>b, <2>1, <2>2, <2>3, <2>4, <2>5, <2>6, <2>7, <2>8, <2>9, <2>10, <2>11, <2>12,
         <2>13, <2>14
      DEF Next, Boot, AppendCall
  <1>. QED
    BY <1>1, <1>2, TypeCorrect, LockInvariant, AckInvariant, NoEscapes, PTL
    DEF SafetySpec, ImplementsTrail, Trail!Spec
================================================================================
