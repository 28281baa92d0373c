---------------------------- MODULE WebInterface ----------------------------
(***************************************************************************)
(* The web server of the add-on's page (grobro/ha/battery_ingress.py) and    *)
(* the add-on options it saves at the Supervisor                            *)
(* (grobro/ha/supervisor_config.py): a bounded number of request threads,    *)
(* with deadlines for headers and bodies, saves that read, merge and write   *)
(* the options under a lock, and the restart that makes them effective.      *)
(* The Supervisor's own page is a second writer.  Choices of battery          *)
(* positions, which the server takes too, are in BatteryPosition.            *)
(***************************************************************************)
EXTENDS Naturals, FiniteSets

CONSTANTS
    Request,   \* connections
    Slots,     \* max_requests
    Option,    \* options of the add-on
    Retired,   \* those in _RETIRED_OPTIONS
    Value,     \* their values
    Change,    \* what a page saves: functions from some options to values
    MaxTimers  \* bound: sleeping restart threads when a connection is accepted

NoOne == "no one"
Absent == "absent"
NoOptions == [o \in {} |-> Absent]

ASSUME RequestAssumption == NoOne \notin Request /\ Slots \in Nat \ {0}
ASSUME OptionAssumption ==
    /\ Retired \subseteq Option /\ Absent \notin Value
    /\ \A c \in Change : DOMAIN c \subseteq Option \ Retired /\ \A o \in DOMAIN c : c[o] \in Value

VARIABLES
    request,  \* what the thread of a connection is doing
    late,     \* the deadline of its headers or of its body has passed
    change,   \* the valid changes it saves
    seen,     \* the options it has read and will merge them into
    free,     \* the tokens left in _request_slots
    lock,     \* who holds _OPTIONS_LOCK
    stored,   \* the options at the Supervisor
    foreign,  \* those the Supervisor's page has set since they were read
    timers,   \* how many restart threads sleep
    promised  \* how many pages were told of a restart that is not asked for yet

webVars == <<request, late, change, seen, free, lock, stored, foreign, timers, promised>>
readVars == <<change, seen, foreign>>
restartVars == <<timers, promised>>

-----------------------------------------------------------------------------
Options == [Option -> Value \cup {Absent}]

\* A thread reads headers or a body, asks the Supervisor for what a page shows, waits
\* for the lock, reads or writes options, answers, confirms a save, or sleeps before
\* a restart that it could start no thread for.
Stage == {"none", "headers", "body", "page", "locking", "reading", "writing",
          "answering", "confirming", "sleeping"}

Threads == {r \in Request : request[r] # "none"}

Goes(r, stage) == request' = [request EXCEPT ![r] = stage]

\* process_request_thread: whatever happened, the token is given back.
Ends(r) == Goes(r, "none") /\ free' = free + 1

InitWeb ==
    /\ request = [r \in Request |-> "none"]
    /\ late = [r \in Request |-> FALSE]
    /\ change = [r \in Request |-> NoOptions]
    /\ seen = [r \in Request |-> NoOptions]
    /\ foreign = [r \in Request |-> {}]
    /\ free = Slots /\ lock = NoOne
    /\ stored \in [Option -> Value]
    /\ timers = 0 /\ promised = 0

-----------------------------------------------------------------------------
(* Connections.                                                            *)

\* process_request.  A connection without a token is refused at once.
Connects(r) ==
    /\ request[r] = "none" /\ free > 0 /\ timers < MaxTimers
    /\ free' = free - 1
    /\ Goes(r, "headers")
    /\ UNCHANGED <<late, readVars, lock, stored, restartVars>>

\* A mutant of ThreadFails: the token is not released.
ThreadFailsKeeps(r) ==
    /\ request[r] = "none" /\ free > 0
    /\ free' = free - 1
    /\ UNCHANGED <<request, late, readVars, lock, stored, restartVars>>

\* process_request, when no thread can be started
ThreadFails(r) == request[r] = "none" /\ free > 0 /\ UNCHANGED webVars

Reads(r) == request[r] \in {"headers", "body"}

\* A mutant of Trickles: the deadline is that of the next byte.
TricklesAnew(r) ==
    /\ Reads(r)
    /\ late' = [late EXCEPT ![r] = FALSE]
    /\ UNCHANGED <<request, readVars, free, lock, stored, restartVars>>

\* A byte that completes nothing does not move the deadline (readline, read1).
Trickles(r) == Reads(r) /\ UNCHANGED webVars

DeadlinePasses(r) ==
    /\ Reads(r)
    /\ late' = [late EXCEPT ![r] = TRUE]
    /\ UNCHANGED <<request, readVars, free, lock, stored, restartVars>>

\* The deadline ends a wait for headers without an answer and one for a body with
\* 408; a client that leaves, headers that make no request do the same.
GivenUp(r) ==
    /\ IF request[r] = "headers" THEN Ends(r)
       ELSE request[r] = "body" /\ Goes(r, "answering") /\ UNCHANGED free
    /\ late' = [late EXCEPT ![r] = FALSE]
    /\ UNCHANGED <<readVars, lock, stored, restartVars>>

TimesOut(r) == late[r] /\ GivenUp(r)

\* do_GET and do_POST, up to the body
HeadersRead(r) ==
    /\ request[r] = "headers"
    /\ \E stage \in {"body", "page", "answering"} : Goes(r, stage)
    /\ late' = [late EXCEPT ![r] = FALSE]
    /\ UNCHANGED <<readVars, free, lock, stored, restartVars>>

\* The body of a save; one that does not parse or names an invalid value is refused
\* as a whole (normalize_options).
BodyRead(r) ==
    /\ request[r] = "body"
    /\ \/ \E c \in Change :
             change' = [change EXCEPT ![r] = c] /\ Goes(r, "locking")
       \/ Goes(r, "answering") /\ UNCHANGED change
    /\ late' = [late EXCEPT ![r] = FALSE]
    /\ UNCHANGED <<seen, foreign, free, lock, stored, restartVars>>

\* get_addon_options and get_current_process_logs, which end within their timeouts
PageFetched(r) ==
    /\ request[r] = "page"
    /\ Goes(r, "answering")
    /\ UNCHANGED <<late, readVars, free, lock, stored, restartVars>>

-----------------------------------------------------------------------------
(* save_addon_options.                                                     *)

\* A mutant of Lockable: saves do not exclude each other.
LockableAlways == TRUE

Lockable == lock = NoOne

Locks(r) ==
    /\ request[r] = "locking" /\ Lockable
    /\ lock' = r
    /\ Goes(r, "reading")
    /\ UNCHANGED <<late, readVars, free, stored, restartVars>>

\* Leaving the block releases the lock, also by an exception.
Leaves(r, stage) ==
    /\ Goes(r, stage)
    /\ lock' = NoOne
    /\ change' = [change EXCEPT ![r] = NoOptions]
    /\ seen' = [seen EXCEPT ![r] = NoOptions]
    /\ foreign' = [foreign EXCEPT ![r] = {}]

ReadFails(r) ==
    /\ request[r] = "reading"
    /\ Leaves(r, "answering")
    /\ UNCHANGED <<late, free, stored, restartVars>>

OptionsRead(r) ==
    /\ request[r] = "reading"
    /\ seen' = [seen EXCEPT ![r] = stored]
    /\ Goes(r, "writing")
    /\ UNCHANGED <<late, change, foreign, free, lock, stored, restartVars>>

Merged(current, c) ==
    [o \in Option |-> IF o \in DOMAIN c THEN c[o]
                      ELSE IF o \in Retired THEN Absent ELSE current[o]]

\* The POST: accepted, refused, or accepted while its answer is lost
OptionsWritten(r) ==
    /\ request[r] = "writing"
    /\ \/ /\ stored' = Merged(seen[r], change[r])
          /\ \E stage \in {"confirming", "answering"} : Leaves(r, stage)
       \/ UNCHANGED stored /\ Leaves(r, "answering")
    /\ UNCHANGED <<late, free, restartVars>>

\* An answer that is sent, or cannot be
Answered(r) ==
    /\ request[r] = "answering"
    /\ Ends(r)
    /\ UNCHANGED <<late, readVars, lock, stored, restartVars>>

-----------------------------------------------------------------------------
(* schedule_restart.                                                       *)

\* A mutant of Scheduled: a restart without a thread is given up.
ScheduledByThread(r) ==
    \/ Ends(r) /\ timers' = timers + 1
    \/ Ends(r) /\ UNCHANGED timers

\* The restart thread, or this one if none can be started
Scheduled(r) ==
    \/ Ends(r) /\ timers' = timers + 1
    \/ Goes(r, "sleeping") /\ UNCHANGED <<free, timers>>

\* The save is confirmed with the promise of a restart.  If the answer cannot be sent,
\* its exception ends the thread, and nobody was promised anything.
Confirmed(r) ==
    /\ request[r] = "confirming"
    /\ \/ promised' = promised + 1 /\ Scheduled(r)
       \/ Ends(r) /\ UNCHANGED restartVars
    /\ UNCHANGED <<late, readVars, lock, stored>>

\* The Supervisor refuses a restart, or its answer is late: there is no second attempt.
TimerRefused ==
    /\ timers > 0
    /\ timers' = timers - 1 /\ promised' = promised - 1
    /\ UNCHANGED <<request, late, readVars, free, lock, stored>>

SleeperRefused(r) ==
    /\ request[r] = "sleeping"
    /\ Ends(r) /\ promised' = promised - 1
    /\ UNCHANGED <<late, readVars, lock, stored, timers>>

\* The process ends and starts anew, because a restart was asked for or for another
\* reason; it loads the stored options.
Restarts ==
    /\ request' = [r \in Request |-> "none"]
    /\ late' = [r \in Request |-> FALSE]
    /\ change' = [r \in Request |-> NoOptions]
    /\ seen' = [r \in Request |-> NoOptions]
    /\ foreign' = [r \in Request |-> {}]
    /\ free' = Slots /\ lock' = NoOne
    /\ timers' = 0 /\ promised' = 0
    /\ UNCHANGED stored

\* The configuration page of the Supervisor
SupervisorSets(o, v) ==
    /\ stored' = [stored EXCEPT ![o] = v]
    /\ foreign' = [r \in Request |-> IF request[r] = "writing" THEN foreign[r] \cup {o}
                                     ELSE foreign[r]]
    /\ UNCHANGED <<request, late, change, seen, free, lock, restartVars>>

Serves(r) ==
    \/ HeadersRead(r) \/ BodyRead(r) \/ PageFetched(r) \/ Locks(r)
    \/ ReadFails(r) \/ OptionsRead(r) \/ OptionsWritten(r)
    \/ Answered(r) \/ Confirmed(r) \/ SleeperRefused(r)

NextWeb ==
    \/ \E r \in Request :
          \/ Connects(r) \/ ThreadFails(r) \/ Serves(r)
          \/ Trickles(r) \/ DeadlinePasses(r) \/ TimesOut(r) \/ GivenUp(r)
    \/ TimerRefused \/ Restarts
    \/ \E o \in Option \ Retired, v \in Value : SupervisorSets(o, v)

WebSpec == InitWeb /\ [][NextWeb]_webVars

\* Deadlines pass; what does not wait for the client goes on, because every call of
\* the Supervisor has a timeout; and the lock is not always given to others.
FairWebSpec ==
    /\ WebSpec
    /\ \A r \in Request :
          /\ WF_webVars(DeadlinePasses(r)) /\ WF_webVars(TimesOut(r))
          /\ WF_webVars(PageFetched(r)) /\ SF_webVars(Locks(r))
          /\ WF_webVars(ReadFails(r) \/ OptionsRead(r)) /\ WF_webVars(OptionsWritten(r))
          /\ WF_webVars(Answered(r)) /\ WF_webVars(Confirmed(r)) /\ WF_webVars(SleeperRefused(r))

-----------------------------------------------------------------------------
\* Types.
WebTypeOK ==
    /\ request \in [Request -> Stage] /\ late \in [Request -> BOOLEAN]
    /\ change \in [Request -> Change \cup {NoOptions}]
    /\ seen \in [Request -> Options \cup {NoOptions}]
    /\ foreign \in [Request -> SUBSET Option]
    /\ free \in 0..Slots /\ lock \in Request \cup {NoOne}
    /\ stored \in Options /\ timers \in Nat /\ promised \in Nat

\* Each thread has one token and no token is lost, so the server neither locks itself
\* out nor exceeds its limit, whatever fails (battery_ingress.py:1207).
SlotsHeld == WebTypeOK /\ free + Cardinality(Threads) = Slots

\* A save writes over nothing it has not read: two saves do not undo each other
\* (supervisor_config.py:337).  Only the Supervisor's page can come in between.
SavesDoNotMeet ==
    \A r \in Request : request[r] = "writing" =>
        \A o \in Option \ foreign[r] : seen[r][o] = stored[o]

\* Whoever is told of a restart gets one attempt at it, also when no thread can be
\* started ("Preserve the promised restart", supervisor_config.py:371).
PromiseKept ==
    promised = timers + Cardinality({r \in Request : request[r] = "sleeping"})

\* Every connection ends, whatever its client does, and its token is free again: a
\* client that sends a byte now and then holds it no longer than the deadline.
RequestsEnd == \A r \in Request : request[r] # "none" ~> request[r] = "none"
=============================================================================
