---------------------------- MODULE ConfigReads ----------------------------
(***************************************************************************)
(* "Read All" and the automatic config refresh of the Home Assistant       *)
(* client (grobro/ha/client.py): a queue of config registers per device,   *)
(* one read in flight, a delayed start, a 60 s timeout per read, and the   *)
(* recoveries that cut a sequence short.                                   *)
(*                                                                         *)
(* Threads.  Four kinds of thread enter this code: the paho thread of the  *)
(* Home Assistant connection (buttons, birth message, connect), the paho   *)
(* thread of the source connection (answers, telemetry, subscription       *)
(* acknowledgement), one threading.Timer thread per armed timer, and the   *)
(* main thread (stop).  All entry points take the client's runtime lock    *)
(* (guard_runtime), so each of them is one action here.  What the lock     *)
(* does not order is modelled as steps of its own: a timer thread that     *)
(* woke up and waits for the lock can no longer be cancelled, and the      *)
(* source thread raises its readiness flag before it asks for the lock.    *)
(***************************************************************************)
EXTENDS Integers, Sequences, FiniteSets

CONSTANTS
    Device,     \* MQTT device ids
    Register,   \* config register numbers
    Regs,       \* Regs[d]: config registers of d in map order; <<>> if d is
                \* of no known family or its family has none
    TimerId,    \* identities of Timer objects.  Bound: when a device has this
                \* many live timer threads, starting another one fails
    NoReg, NoTimer

ASSUME RegsAssumption == Regs \in [Device -> Seq(Register)]
ASSUME NoRegAssumption == NoReg \notin Register
ASSUME NoTimerAssumption == NoTimer \notin TimerId

VARIABLES
    reads,         \* reads[d]: the state of config reads for device d, see Reads
    known,         \* the keys of _config_cache
    sourceReady,   \* what config_reads_ready() returns
    readyPending,  \* the source thread set the flag and waits in on_ready()
    stopped        \* _stopped

vars == <<reads, known, sourceReady, readyPending, stopped>>

-----------------------------------------------------------------------------
\* A threading.Timer: cancellable until it fired, then a thread on its way to
\* the runtime lock.  A timer of kind "read" carries the register it guards.
Thread ==
    [id : TimerId, kind : {"start"}, reg : {NoReg}, fired : BOOLEAN]
        \cup [id : TimerId, kind : {"read"}, reg : Register, fired : BOOLEAN]

Reads == [queue : Seq(Register),                \* _config_read_queues[d]
          inflight : Register \cup {NoReg},     \* _config_read_inflight[d]
          active : BOOLEAN,                     \* d in _read_all_active
          refreshed : BOOLEAN,                  \* d in _config_refresh_started
          startTimer : TimerId \cup {NoTimer},  \* _read_all_start_timers[d]
          readTimer : TimerId \cup {NoTimer},   \* _config_read_timers[d]
          threads : SUBSET Thread]              \* timers that have not ended

NoReads == [queue |-> <<>>, inflight |-> NoReg, active |-> FALSE,
            refreshed |-> FALSE, startTimer |-> NoTimer, readTimer |-> NoTimer,
            threads |-> {}]

\* timer.cancel(): no effect on a timer that already fired.
WithoutTimers(threads, ids) == {t \in threads : t.fired \/ t.id \notin ids}

FreshTimers(s) ==
    {i \in TimerId : /\ i \notin {s.startTimer, s.readTimer}
                     /\ \A t \in s.threads : t.id # i}

\* __start_config_read_timer: the new Timer object enters its map and starts.
Armed(s, timerKind, r) ==
    LET id == CHOOSE i \in FreshTimers(s) : TRUE
        t == [id |-> id, kind |-> timerKind, reg |-> r, fired |-> FALSE]
    IN  IF timerKind = "start"
        THEN [s EXCEPT !.startTimer = id, !.threads = @ \cup {t}]
        ELSE [s EXCEPT !.readTimer = id, !.threads = @ \cup {t}]

\* A mutant of Cancelled: _config_refresh_started keeps the device.
CancelledKeepsRefresh(s) ==
    [NoReads EXCEPT !.threads = WithoutTimers(s.threads, {s.startTimer, s.readTimer}),
                    !.refreshed = s.refreshed]

\* __cancel_config_read_sequence, and what __reset_config_read_state and
\* cancel_runtime_timers do to each device.
Cancelled(s) ==
    [NoReads EXCEPT !.threads = WithoutTimers(s.threads, {s.startTimer, s.readTimer})]

\* __queue_all_config_reads.  A start timer whose thread cannot be started
\* (ok = FALSE) cancels the sequence.
Queued(d, s, ok) ==
    LET q == [s EXCEPT !.active = TRUE, !.queue = Regs[d], !.refreshed = TRUE]
    IN  CASE \/ Regs[d] = <<>> \/ ~sourceReady
             \/ s.active \/ s.inflight # NoReg \/ s.queue # <<>> -> s
          [] OTHER -> IF ok /\ FreshTimers(q) # {} THEN Armed(q, "start", NoReg)
                                                   ELSE Cancelled(q)

\* __refresh_config_if_needed
Refreshed(d, s, ok) == IF s.refreshed THEN s ELSE Queued(d, s, ok)

\* A mutant of KickedOff: a read whose timer or request failed is left in flight.
KickedOffNoRollback(s, ok) ==
    LET k == [s EXCEPT !.startTimer = NoTimer,
                       !.threads = WithoutTimers(@, {s.startTimer})]
        r == Head(k.queue)
        n == [k EXCEPT !.queue = Tail(k.queue), !.inflight = r]
    IN  CASE ~sourceReady -> Cancelled(s)
          [] sourceReady /\ k.inflight = NoReg /\ k.queue = <<>> ->
                [k EXCEPT !.active = FALSE]
          [] OTHER -> IF ok /\ FreshTimers(n) # {} THEN Armed(n, "read", r) ELSE n

\* A mutant of KickedOff: the register is looked at, not taken off the queue.
KickedOffPeeks(s, ok) ==
    LET k == [s EXCEPT !.startTimer = NoTimer,
                       !.threads = WithoutTimers(@, {s.startTimer})]
        r == Head(k.queue)
        n == [k EXCEPT !.inflight = r]
    IN  CASE ~sourceReady -> Cancelled(s)
          [] sourceReady /\ k.inflight = NoReg /\ k.queue = <<>> ->
                [k EXCEPT !.active = FALSE]
          [] OTHER -> IF ok /\ FreshTimers(n) # {} THEN Armed(n, "read", r)
                                                   ELSE Cancelled(n)

\* __kickoff_next_config_read.  The read's timer may fail to start, and MQTT may
\* reject the request or raise (ok = FALSE): the sequence is cancelled.
KickedOff(s, ok) ==
    LET k == [s EXCEPT !.startTimer = NoTimer,
                       !.threads = WithoutTimers(@, {s.startTimer})]
        r == Head(k.queue)
        n == [k EXCEPT !.queue = Tail(k.queue), !.inflight = r]
    IN  CASE ~sourceReady -> Cancelled(s)
          [] sourceReady /\ k.inflight # NoReg -> k
          [] sourceReady /\ k.inflight = NoReg /\ k.queue = <<>> ->
                [k EXCEPT !.active = FALSE]
          [] OTHER -> IF ok /\ FreshTimers(n) # {} THEN Armed(n, "read", r)
                                                   ELSE Cancelled(n)

\* handle_config_read_response once the answer matched the read in flight, and
\* __config_read_timeout once the timer did: the read is over, the next starts.
Settled(s) ==
    [s EXCEPT !.inflight = NoReg, !.readTimer = NoTimer,
              !.threads = WithoutTimers(@, {s.readTimer})]

-----------------------------------------------------------------------------
\* known: the config files restored before the network loops start.
Init ==
    /\ reads = [d \in Device |-> NoReads]
    /\ known \in SUBSET Device
    /\ sourceReady = FALSE
    /\ readyPending = FALSE
    /\ stopped = FALSE

\* The "read_all" button.  A rejected holding-register read (held = FALSE)
\* cancels, the config reads follow otherwise.
ReadAllPressed(d) ==
    /\ ~stopped
    /\ ~reads[d].active
    /\ \E held, ok \in BOOLEAN :
           reads' = [reads EXCEPT ![d] = IF held THEN Queued(d, @, ok) ELSE Cancelled(@)]
    /\ UNCHANGED <<known, sourceReady, readyPending, stopped>>

\* Telemetry (publish_input_register) or a config packet (set_config) of d.
DeviceActivity(d) ==
    /\ ~stopped
    /\ ~readyPending
    /\ known' = known \cup {d}
    /\ \E ok \in BOOLEAN : reads' = [reads EXCEPT ![d] = Refreshed(d, @, ok)]
    /\ UNCHANGED <<sourceReady, readyPending, stopped>>

\* A config read answer of d for register r, whoever asked: this client now or
\* before a reset, or the Growatt cloud.  handle_config_read_response.
Answer(d, r) ==
    /\ ~stopped
    /\ ~readyPending
    /\ reads[d].inflight = r
    /\ \E ok \in BOOLEAN : reads' = [reads EXCEPT ![d] = KickedOff(Settled(@), ok)]
    /\ UNCHANGED <<known, sourceReady, readyPending, stopped>>

\* A timer's delay is over and its thread heads for the runtime lock.
TimerFires(d, t) ==
    /\ t \in reads[d].threads
    /\ ~t.fired
    /\ reads' = [reads EXCEPT ![d].threads = (@ \ {t}) \cup {[t EXCEPT !.fired = TRUE]}]
    /\ UNCHANGED <<known, sourceReady, readyPending, stopped>>

\* A mutant of TimerCallback: a timeout does not go on with the next register.
TimerCallbackNoTimeout(s, t, ok) ==
    IF t.kind = "start" /\ s.startTimer = t.id THEN KickedOff(s, ok) ELSE s

\* run() of __start_config_read_timer under the lock: the callback is called
\* only for the timer its map still holds; a timeout also checks the register.
TimerCallback(s, t, ok) ==
    CASE t.kind = "start" /\ s.startTimer = t.id -> KickedOff(s, ok)
      [] t.kind = "read" /\ s.readTimer = t.id /\ s.inflight = t.reg ->
            KickedOff(Settled(s), ok)
      [] OTHER -> s

TimerRuns(d, t) ==
    /\ t \in reads[d].threads
    /\ t.fired
    /\ LET s == [reads[d] EXCEPT !.threads = @ \ {t}]
       IN  \E ok \in BOOLEAN :
               reads' = [reads EXCEPT ![d] = IF stopped THEN s ELSE TimerCallback(s, t, ok)]
    /\ UNCHANGED <<known, sourceReady, readyPending, stopped>>

\* Both recoveries: every sequence is cancelled, known devices start afresh.
ReadsRestarted ==
    \E failing \in SUBSET Device :
        reads' = [d \in Device |->
                     IF d \in known
                     THEN Refreshed(d, Cancelled(reads[d]), d \notin failing)
                     ELSE Cancelled(reads[d])]

\* The source broker acknowledged c/#: the flag is raised ...
SourceSubscribed ==
    /\ ~sourceReady
    /\ ~readyPending
    /\ sourceReady' = TRUE
    /\ readyPending' = TRUE
    /\ UNCHANGED <<reads, known, stopped>>

\* ... and on_ready() gets the runtime lock: handle_source_ready.
SourceReadyHandled ==
    /\ readyPending
    /\ readyPending' = FALSE
    /\ IF stopped THEN UNCHANGED reads ELSE ReadsRestarted
    /\ UNCHANGED <<known, sourceReady, stopped>>

\* Disconnected, connecting anew, or the subscription was rejected.
SourceLost ==
    /\ sourceReady
    /\ ~readyPending
    /\ sourceReady' = FALSE
    /\ UNCHANGED <<reads, known, readyPending, stopped>>

\* Home Assistant's birth message, or a (re)connect of its MQTT connection:
\* __recover_after_home_assistant_restart.
HomeAssistantRecovered ==
    /\ ~stopped
    /\ ReadsRestarted
    /\ UNCHANGED <<known, sourceReady, readyPending, stopped>>

Stop ==
    /\ ~stopped
    /\ stopped' = TRUE
    /\ reads' = [d \in Device |-> Cancelled(reads[d])]
    /\ UNCHANGED <<known, sourceReady, readyPending>>

Next ==
    \/ \E d \in Device : ReadAllPressed(d) \/ DeviceActivity(d)
    \/ \E d \in Device, r \in Register : Answer(d, r)
    \/ \E d \in Device : \E t \in reads[d].threads : TimerFires(d, t) \/ TimerRuns(d, t)
    \/ SourceSubscribed \/ SourceReadyHandled \/ SourceLost
    \/ HomeAssistantRecovered
    \/ Stop

Spec == Init /\ [][Next]_vars

\* Timer threads fire once their delay is over and get the runtime lock in
\* turn; so does the source thread that waits in on_ready().
ThreadsRun ==
    /\ \A d \in Device, i \in TimerId, k \in {"start", "read"} :
           WF_vars(\E t \in reads[d].threads : /\ t.id = i /\ t.kind = k
                                             /\ (TimerFires(d, t) \/ TimerRuns(d, t)))
    /\ WF_vars(SourceReadyHandled)

FairSpec == Spec /\ ThreadsRun

-----------------------------------------------------------------------------
TypeOK ==
    /\ reads \in [Device -> Reads]
    /\ known \subseteq Device
    /\ sourceReady \in BOOLEAN
    /\ readyPending \in BOOLEAN
    /\ stopped \in BOOLEAN

\* Read All is refused while a sequence is active, a read is in flight or the
\* queue is not empty, so each of these must have a timer that ends it, or the
\* next press is "treated as a duplicate forever" (client.py:663-667): an active
\* sequence has a live thread which its map still holds, of the right kind and
\* for the right register, and a device without one has nothing left over.
Waits(s, i, timerKind, r) ==
    \E t \in s.threads : t.id = i /\ t.kind = timerKind /\ t.reg = r

DeviceNotStuck(s) ==
    IF s.active
    THEN \/ /\ s.inflight = NoReg /\ s.readTimer = NoTimer /\ s.queue # <<>>
            /\ Waits(s, s.startTimer, "start", NoReg)
         \/ /\ s.inflight # NoReg /\ s.startTimer = NoTimer
            /\ Waits(s, s.readTimer, "read", s.inflight)
    ELSE s.inflight = NoReg /\ s.queue = <<>> /\ s.startTimer = NoTimer /\ s.readTimer = NoTimer

NoStuckRead == \A d \in Device : DeviceNotStuck(reads[d])

\* Only threads that woke up before they were cancelled may be orphans: every
\* timer still running belongs to the device's current read or start, so the
\* 60 s timeout of an answered read (or of a cancelled sequence) is not left to
\* run into a later one.
DeviceTimersOwned(s) ==
    \A t \in s.threads :
        ~t.fired => t.id = IF t.kind = "start" THEN s.startTimer ELSE s.readTimer

TimersOwned == \A d \in Device : DeviceTimersOwned(reads[d])

\* A sequence that ends before it asked for the last register gives the device's
\* automatic refresh back: the next activity tries again (client.py:1288-1297).
RetryAfterAbort ==
    [][\A d \in Device :
          reads[d].active /\ ~reads'[d].active
             => reads[d].queue = <<>> \/ ~reads'[d].refreshed]_vars

\* The registers asked for by a sequence are the device's, in map order, one at
\* a time, none twice and none skipped: late timeouts, duplicate answers and
\* recoveries end or restart a sequence but never make it skip or repeat.
Sweep == INSTANCE ReadSweep WITH
            step <- [d \in Device |-> IF reads[d].active
                                      THEN Len(Regs[d]) - Len(reads[d].queue) ELSE -1],
            asking <- [d \in Device |-> reads[d].inflight]

SweepInOrder == Sweep!Spec

\* Every sequence ends, answers or not, unless a recovery restarts it for ever.
SequenceEnds ==
    <>[][~(SourceReadyHandled \/ HomeAssistantRecovered)]_vars
        => \A d \in Device : reads[d].active ~> ~reads[d].active
=============================================================================
