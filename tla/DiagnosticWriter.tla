-------------------------- MODULE DiagnosticWriter --------------------------
(***************************************************************************)
(* The queue and the thread that write captures to a JSONL file             *)
(* (grobro/grobro/diagnostic_io.py): texts submitted by network threads,    *)
(* discarded at the limits, written by one lazily started thread, which is  *)
(* joined with a deadline at shutdown; the file, rotated through a few       *)
(* backups and repaired after a write that failed or a process that died.   *)
(* There is one file: files share the queue and nothing else.               *)
(***************************************************************************)
EXTENDS Naturals, Sequences, SequencesExt

CONSTANTS
    Text,      \* texts, each the sequence of the sizes of its records
    MaxJobs,   \* max_jobs
    MaxBytes,  \* max_bytes
    MaxFile,   \* MAX_FILE_BYTES
    Backups,   \* BACKUPS
    MaxRecord  \* bound: how many records are captured in all

NoJob == [from |-> 0, sizes |-> <<>>]

ASSUME TextAssumption ==
    /\ Text \subseteq Seq(Nat \ {0})
    /\ <<>> \notin Text
ASSUME LimitAssumption ==
    /\ MaxJobs \in Nat \ {0} /\ MaxBytes \in Nat \ {0} /\ MaxRecord \in Nat
    /\ Backups \in Nat \ {0}
    /\ MaxFile \in Nat /\ MaxFile >= MaxBytes

VARIABLES
    running,  \* the process runs
    queue,    \* _queue
    bytes,    \* _bytes
    active,   \* the job being written, NoJob if _active is False
    closed,   \* _closed
    writer,   \* the thread: "none", "ready" for the lock, "asleep", "writing", "ended"
    stopping, \* stop(): "no", "joining", then its answer "drained" or "delayed"
    file,     \* the lines of the file
    backup,   \* backup[i]: the lines of file.i, none if it does not exist
    count     \* how many records were accepted so far

memory == <<queue, bytes, active, closed, writer>>
files == <<file, backup>>
writerVars == <<running, queue, bytes, active, closed, writer, stopping, file, backup, count>>

-----------------------------------------------------------------------------
(* Texts and files.  Records are numbered in the order of their acceptance. *)

\* A line holds the whole record, all of it but the newline ("open"), or a part.
Line(id, size, kind) == [id |-> id, size |-> size, kind |-> kind]

Lines(job) == [i \in DOMAIN job.sizes |-> Line(job.from + i, job.sizes[i], "whole")]

\* The sum of some sizes
Total(sizes) ==
    LET sum[i \in 0..Len(sizes)] == IF i = 0 THEN 0 ELSE sum[i - 1] + sizes[i]
    IN  sum[Len(sizes)]
Existing(lines) == Total([i \in DOMAIN lines |-> lines[i].size])

\* A mutant of Repaired: an incomplete record stays where it is.
RepairedNever(lines) == lines

\* _repair_incomplete_tail: JSON that misses its newline is kept, else it is cut off.
Repaired(lines) ==
    IF lines = <<>> \/ Last(lines).kind = "whole" THEN lines
    ELSE IF Last(lines).kind = "open"
         THEN Append(Front(lines), [Last(lines) EXCEPT !.kind = "whole"])
         ELSE Front(lines)

Disk == [file |-> file, backup |-> backup]

Full(d, line) == d.file # <<>> /\ Existing(d.file) + line.size > MaxFile

\* A mutant of Shifted: the newest backup is replaced, the others stay.
ShiftedOnce(d) == [file |-> <<>>, backup |-> [d.backup EXCEPT ![1] = d.file]]

\* The backups after a rotation, which removes the oldest and moves the others.
Shifted(d) ==
    [file |-> <<>>,
     backup |-> [i \in 1..Backups |-> IF i = 1 THEN d.file ELSE d.backup[i - 1]]]

\* A rotation cut off after n of its steps: the removal, then moves from the oldest on.
Cut(d, n) ==
    [d EXCEPT !.backup = [i \in 1..Backups |->
        IF n = 0 \/ i < Backups - n + 1 THEN d.backup[i]
        ELSE IF i = Backups - n + 1 THEN <<>> ELSE d.backup[i - 1]]]

Room(d, line) == IF Full(d, line) THEN Shifted(d) ELSE d

Put(d, line) ==
    LET r == Room(d, line) IN [r EXCEPT !.file = Append(@, line)]

\* _write_lines, for the first n lines
Wrote(d, lines, n) ==
    LET after[i \in 0..n] ==
            IF i = 0 THEN [d EXCEPT !.file = Repaired(@)] ELSE Put(after[i - 1], lines[i])
    IN  after[n]

\* What a write leaves that stops before its end, at any point of any line.  A new file
\* that is still missing or empty is left out: what can follow is what can follow the
\* part of a line in its place, which the next write removes.
Interrupted(d, lines) ==
    {d} \cup {Wrote(d, lines, n) : n \in 0..Len(lines)} \cup
    UNION { LET w == Wrote(d, lines, n)
                next == lines[n + 1]
            IN  {Put(w, [next EXCEPT !.kind = k]) : k \in {"open", "part"}} \cup
                (IF Full(w, next) THEN {Cut(w, i) : i \in 1..Backups} ELSE {})
            : n \in 0..(Len(lines) - 1) }

DiskIs(d) == file' = d.file /\ backup' = d.backup

-----------------------------------------------------------------------------
(* The queue and its thread.                                               *)

InitWriter ==
    /\ running = TRUE
    /\ queue = <<>> /\ bytes = 0 /\ active = NoJob /\ closed = FALSE
    /\ writer = "none" /\ stopping = "no"
    /\ file = <<>> /\ backup = [i \in 1..Backups |-> <<>>]
    /\ count = 0

HasRoom(text) == Len(queue) < MaxJobs /\ bytes + Total(text) <= MaxBytes

\* A mutant of Notified: nobody wakes the thread.
NotifiedNever(w) == w

\* notify_all
Notified(w) == IF w = "asleep" THEN "ready" ELSE w

\* submit, of a text that is neither refused nor discarded
Accepted(text) ==
    /\ running /\ ~closed /\ HasRoom(text)
    /\ queue' = Append(queue, [from |-> count, sizes |-> text])
    /\ bytes' = bytes + Total(text)
    /\ count' = count + Len(text)
    /\ writer' = IF writer = "none" THEN "ready" ELSE Notified(writer)
    /\ UNCHANGED <<running, active, closed, stopping, files>>

\* A mutant of StartFails: the discarded text is still counted.
StartFailsCounted(text) ==
    /\ running /\ ~closed /\ HasRoom(text) /\ writer = "none"
    /\ bytes' = bytes + Total(text)
    /\ UNCHANGED <<running, queue, active, closed, writer, stopping, files, count>>

\* submit, when there is no thread and none can be started
StartFails(text) ==
    /\ running /\ ~closed /\ HasRoom(text) /\ writer = "none"
    /\ UNCHANGED writerVars

Submit(text) ==
    /\ count + Len(text) <= MaxRecord
    /\ Accepted(text) \/ StartFails(text)

Ends == closed /\ queue = <<>>

Takes ==
    /\ queue # <<>>
    /\ queue' = Tail(queue) /\ active' = Head(queue)
    /\ writer' = "writing"

\* _run under the lock
Looks ==
    /\ running /\ writer = "ready"
    /\ IF Ends THEN writer' = "ended" /\ UNCHANGED <<queue, active>>
       ELSE \/ Takes
            \/ queue = <<>> /\ writer' = "asleep" /\ UNCHANGED <<queue, active>>
    /\ UNCHANGED <<running, bytes, closed, stopping, files, count>>

\* The end of a write, done or failed, which leaves d on disk
Written(d) ==
    /\ running /\ writer = "writing"
    /\ DiskIs(d)
    /\ bytes' = bytes - Total(active.sizes)
    /\ active' = NoJob /\ writer' = "ready"
    /\ UNCHANGED <<running, queue, closed, stopping, count>>

WriteDone == Written(Wrote(Disk, Lines(active), Len(active.sizes)))
WriteFails == \E d \in Interrupted(Disk, Lines(active)) : Written(d)

-----------------------------------------------------------------------------
(* stop(), the end of the process and its next start.                      *)

Close ==
    /\ running /\ stopping = "no"
    /\ closed' = TRUE
    /\ writer' = Notified(writer)
    /\ stopping' = "joining"
    /\ UNCHANGED <<running, queue, bytes, active, files, count>>

\* The join ends with the thread, if there is one, or at the deadline.
StopReturns ==
    /\ running /\ stopping = "joining"
    /\ stopping' = IF writer \in {"none", "ended"} THEN "drained" ELSE "delayed"
    /\ UNCHANGED <<running, memory, files, count>>

\* The process exits after stop(), or is killed; its daemon thread dies with it.
Dies ==
    /\ running
    /\ running' = FALSE
    /\ queue' = <<>> /\ bytes' = 0 /\ active' = NoJob /\ closed' = FALSE
    /\ writer' = "none" /\ stopping' = "no"
    /\ \E d \in {Disk} \cup Interrupted(Disk, Lines(active)) : DiskIs(d)
    /\ UNCHANGED count

Restart ==
    /\ ~running
    /\ running' = TRUE
    /\ UNCHANGED <<memory, stopping, files, count>>

NextWriter ==
    \/ \E text \in Text : Submit(text)
    \/ Looks \/ WriteDone \/ WriteFails
    \/ Close \/ StopReturns \/ Dies \/ Restart

WriterSpec == InitWriter /\ [][NextWriter]_writerVars

\* The thread gets the lock, and the storage answers.
FairWriterSpec == WriterSpec /\ WF_writerVars(Looks) /\ WF_writerVars(WriteDone)

-----------------------------------------------------------------------------
\* Types.
Job == [from : Nat, sizes : Text]
LineType == [id : Nat, size : Nat, kind : {"whole", "open", "part"}]
WriterTypeOK ==
    /\ running \in BOOLEAN /\ closed \in BOOLEAN
    /\ queue \in Seq(Job) /\ active \in Job \cup {NoJob}
    /\ bytes \in Nat /\ count \in Nat
    /\ writer \in {"none", "ready", "asleep", "writing", "ended"}
    /\ stopping \in {"no", "joining", "drained", "delayed"}
    /\ file \in Seq(LineType) /\ backup \in [1..Backups -> Seq(LineType)]

\* The budget counts exactly what waits or is being written, across discarded texts,
\* threads that do not start and writes that fail: no capture is refused for bytes
\* nobody holds any more (diagnostic_io.py:125, 146, 174).
Accounted ==
    /\ bytes = Total([i \in DOMAIN queue |-> Total(queue[i].sizes)]) + Total(active.sizes)
    /\ bytes <= MaxBytes /\ Len(queue) <= MaxJobs

\* What waits has a thread that will look at it, and a thread that sleeps has not been
\* told to end: no wake-up is lost between submit, _run and stop (diagnostic_io.py:157).
NothingStranded ==
    /\ queue # <<>> => writer \in {"ready", "writing"}
    /\ writer = "asleep" => ~closed

\* stop() answers True only when every accepted capture was written, or its write
\* failed: closing the queue does not drop what is in it (diagnostic_io.py:191).
StopMeansSettled == stopping = "drained" => queue = <<>> /\ active = NoJob

\* Only the last line of the file is ever incomplete, so that nothing is appended to a
\* fragment and no fragment is rotated away; no file outgrows its limit
\* (diagnostic_io.py:33, 89).
FilesReadable ==
    /\ \A i \in 1..Backups : Existing(backup[i]) <= MaxFile
    /\ Existing(file) <= MaxFile
    /\ \A i \in 1..Backups : \A j \in DOMAIN backup[i] : backup[i][j].kind = "whole"
    /\ \A j \in 1..(Len(file) - 1) : file[j].kind = "whole"

\* The complete records of some lines, and those of all files, oldest first
Records(lines) ==
    LET ids[i \in 0..Len(lines)] ==
            IF i = 0 THEN <<>>
            ELSE IF lines[i].kind = "part" THEN ids[i - 1]
            ELSE Append(ids[i - 1], lines[i].id)
    IN  ids[Len(lines)]
History(d) ==
    LET older[i \in 0..Backups] ==
            IF i = 0 THEN <<>> ELSE older[i - 1] \o Records(d.backup[Backups - i + 1])
    IN  older[Backups] \o Records(d.file)

\* No step loses a record that is complete, but for those of the oldest backup when it
\* is rotated away; it adds those of the active text, in their order and each once,
\* however the step is interrupted (diagnostic_io.py:92).
OldestDropped ==
    [][LET old == History(Disk)
           new == History(Disk')
           oldest == Len(Records(backup[Backups]))
       IN  \E k \in {0, oldest}, n \in 0..Len(active.sizes) :
              new = SubSeq(old, k + 1, Len(old)) \o [i \in 1..n |-> active.from + i]]_writerVars

\* A text whose turn comes is settled as long as the process runs: the thread does not
\* die of a write that fails, and shutdown drains the queue.
CapturesSettle ==
    \A n \in 1..MaxRecord :
        (\E i \in DOMAIN queue : queue[i].from + 1 = n) ~>
            ~(\E i \in DOMAIN queue : queue[i].from + 1 = n)
=============================================================================
