------------------------------ MODULE Settings ------------------------------
(***************************************************************************)
(* Holding registers as numbers and switches of Home Assistant             *)
(* (grobro/ha/client.py, grobro/ha/neo_power_runtime.py): a command writes  *)
(* a register and reads it back, the answer is published and retained, a    *)
(* cache skips answers that Home Assistant shows already, and the power     *)
(* switch of NEOs is shown at once and asked for after every recovery.      *)
(*                                                                         *)
(* The runtime lock makes every handler one action.  The device is behind   *)
(* the source connection: what is published to it and what it answers is    *)
(* kept in order, and lost with the connection.                            *)
(***************************************************************************)
EXTENDS Integers, Sequences

CONSTANTS
    Setting,    \* the holding registers of devices
    Power,      \* those which are the inverter_power of a NEO
    Value,      \* values of a register
    MaxWaiting  \* bounds the messages on the way to and from a register

None == "none"

ASSUME PowerAssumption == Power \subseteq Setting
ASSUME ValueAssumption == None \notin Value
ASSUME MaxWaitingAssumption == MaxWaiting \in Nat

VARIABLES
    sets,       \* sets[s]: the setting s, see Register
    known,      \* NEOs, by their power switch, in _config_cache
    requested,  \* _neo_inverter_power_read_requested
    probe,      \* the attempt _neo_startup_probe_timer waits for
    src,        \* the source connection, see SendOutcome
    ha,         \* the MQTT connection to Home Assistant, as in Availability
    handled     \* no on_connect is outstanding

vars == <<sets, known, requested, probe, src, ha, handled>>

-----------------------------------------------------------------------------
Request == [op : {"write"}, value : Value] \cup [op : {"read"}, value : {None}]

Write(v) == [op |-> "write", value |-> v]
Read == [op |-> "read", value |-> None]

Register ==
    [actual : Value,             \* in the device
     toDevice : Seq(Request),    \* on the way to it
     back : Seq(Value),          \* its answers on the way
     shown : Value \cup {None},  \* retained for Home Assistant
     last : Value \cup {None},   \* _last_holding_state
     fresh : BOOLEAN]            \* history: a read was sent, its answer was not
                                 \* lost, and nobody else changed the register since

Idle == -1    \* no probe is due
Attempt == 0..3

\* What happens to a message for a device.  Before its subscription is in place and
\* when it is about to break, the source connection is deaf: it takes messages,
\* which may be lost, and gets no answers.
SendOutcome ==
    CASE src = "up" -> {"arrives"}
      [] src = "deaf" -> {"arrives", "lost", "rejected"}
      [] src = "down" -> {"rejected"}

ShowOutcome ==
    CASE ha = "up" -> {"arrives"}
      [] ha = "dying" -> {"lost", "rejected"}
      [] ha = "down" -> {"rejected"}

\* One place is left to the reads that are made without Home Assistant.
Room(x, n) == Len(x.toDevice) + Len(x.back) + n <= MaxWaiting

\* send_command
Sent(x, r, o) ==
    [x EXCEPT !.toDevice = IF o = "arrives" THEN Append(@, r) ELSE @,
              !.fresh = IF o = "rejected" THEN @
                        ELSE r.op = "read" /\ o = "arrives" /\ src = "up"]

\* A retained publish of v, after which the cache holds c
Showed(x, v, c, o) ==
    [x EXCEPT !.shown = IF o = "arrives" THEN v ELSE @,
              !.last = IF o = "rejected" THEN @ ELSE c]

\* A mutant of Mirrored: the cache keeps the last answer.
MirroredKeepsLast(x, v, o) == Showed(x, v, x.last, o)

\* _publish_retained_switch_state: the switch is shown as it was set, and the next
\* answer is published whatever it is.
Mirrored(x, v, o) == Showed(x, v, None, o)

\* publish_holding_register_input, for the next answer
Answered(x, o) ==
    LET v == Head(x.back)
        y == [x EXCEPT !.back = Tail(@),
                       !.fresh = @ /\ \/ ha = "up" /\ handled
                                      \/ x.toDevice # <<>> \/ Tail(x.back) # <<>>]
    IN  IF x.last = v THEN y ELSE Showed(y, v, v, o)

Becomes(s, x) == sets' = [sets EXCEPT ![s] = x]

Init ==
    /\ \E v \in [Setting -> Value] :
          sets = [s \in Setting |-> [actual |-> v[s], toDevice |-> <<>>, back |-> <<>>,
                                     shown |-> None, last |-> None, fresh |-> FALSE]]
    /\ known \in SUBSET Power
    /\ requested = {}
    /\ probe \in {0, Idle}
    /\ src = "down" /\ ha = "down"
    /\ handled = TRUE

-----------------------------------------------------------------------------
\* __handle_message for "set": the write, the read after it, and the mirror.
Set(s, v, w, r, o) ==
    LET x == Sent(Sent(sets[s], Write(v), w), Read, r)
    IN  /\ ha = "up" /\ handled
        /\ Room(sets[s], 3)
        /\ Becomes(s, IF s \in Power /\ w # "rejected" THEN Mirrored(x, v, o) ELSE x)
        /\ UNCHANGED <<known, requested, probe, src, ha, handled>>

\* The same for "read", and for each register of "read_all".
ReadPressed(s, r) ==
    /\ ha = "up" /\ handled
    /\ Room(sets[s], 2)
    /\ Becomes(s, Sent(sets[s], Read, r))
    /\ UNCHANGED <<known, requested, probe, src, ha, handled>>

\* The device answers a read, or ignores it.
Reads(s, answers) ==
    LET x == sets[s]
    IN  /\ x.toDevice # <<>> /\ Head(x.toDevice).op = "read"
        /\ Becomes(s, IF answers /\ src = "up"
                      THEN [x EXCEPT !.toDevice = Tail(@), !.back = Append(@, x.actual)]
                      ELSE [x EXCEPT !.toDevice = Tail(@),
                                     !.fresh = @ /\ Tail(x.toDevice) # <<>>])
        /\ UNCHANGED <<known, requested, probe, src, ha, handled>>

\* It takes a value, or refuses it.
Writes(s, takes) ==
    LET x == sets[s]
    IN  /\ x.toDevice # <<>> /\ Head(x.toDevice).op = "write"
        /\ Becomes(s, [x EXCEPT !.toDevice = Tail(@),
                                !.actual = IF takes THEN Head(x.toDevice).value ELSE @])
        /\ UNCHANGED <<known, requested, probe, src, ha, handled>>

\* The app or the cloud changes the setting, ...
Changes(s, v) ==
    /\ Becomes(s, [sets[s] EXCEPT !.actual = v, !.fresh = @ /\ sets[s].toDevice # <<>>])
    /\ UNCHANGED <<known, requested, probe, src, ha, handled>>

\* ... or the cloud reads it.
CloudReads(s) ==
    /\ src = "up"
    /\ Room(sets[s], 2)
    /\ Becomes(s, [sets[s] EXCEPT !.toDevice = Append(@, Read)])
    /\ UNCHANGED <<known, requested, probe, src, ha, handled>>

Answer(s, o) ==
    /\ src = "up"
    /\ sets[s].back # <<>>
    /\ Becomes(s, Answered(sets[s], o))
    /\ UNCHANGED <<known, requested, probe, src, ha, handled>>

-----------------------------------------------------------------------------
\* A mutant of Asks: only the probe asks.
AsksNever(s, due, o) == FALSE

\* publish_input_register gets to request_initial_neo_inverter_power unless it had
\* a state to publish and could not.
Asks(s, due, o) == s \notin requested /\ ~(due /\ o = "rejected")

Telemetry(s, due, o, r) ==
    /\ Room(sets[s], 1)
    /\ known' = known \cup {s}
    /\ IF Asks(s, due, o)
       THEN /\ Becomes(s, Sent(sets[s], Read, r))
            /\ requested' = IF r = "rejected" THEN requested ELSE requested \cup {s}
       ELSE UNCHANGED <<sets, requested>>
    /\ UNCHANGED <<probe, src, ha, handled>>

\* The next attempt, if its timer can be started
After(a) == IF a < 3 THEN {a + 1, Idle} ELSE {Idle}

\* run_probe, and request_known_neo_states
ProbeRuns(r) ==
    LET due == known \ requested
        now == requested \cup {s \in due : r[s] # "rejected"}
    IN  /\ probe # Idle
        /\ \A s \in due : Room(sets[s], 1)
        /\ sets' = [s \in Setting |-> IF s \in due THEN Sent(sets[s], Read, r[s]) ELSE sets[s]]
        /\ requested' = now
        /\ IF known \subseteq now THEN probe' = Idle ELSE probe' \in After(probe)
        /\ UNCHANGED <<known, src, ha, handled>>

\* clear_reconnect_caches and schedule_known_neo_state_probe
Recovered ==
    /\ sets' = [s \in Setting |-> [sets[s] EXCEPT !.last = None]]
    /\ requested' = {}
    /\ probe' \in {0, Idle}

SocketUp ==
    /\ ha = "down" /\ handled
    /\ ha' = "up"
    /\ handled' = FALSE
    /\ UNCHANGED <<sets, known, requested, probe, src>>

ConnectHandled ==
    /\ ~handled
    /\ handled' = TRUE
    /\ Recovered
    /\ UNCHANGED <<known, src, ha>>

BirthMessage ==
    /\ ha = "up" /\ handled
    /\ Recovered
    /\ UNCHANGED <<known, src, ha, handled>>

LinkDies ==
    /\ ha = "up"
    /\ ha' = "dying"
    /\ UNCHANGED <<sets, known, requested, probe, src, handled>>

LinkDown ==
    /\ ha # "down"
    /\ ha' = "down"
    /\ UNCHANGED <<sets, known, requested, probe, src, handled>>

SourceConnects ==
    /\ src = "down"
    /\ src' = "deaf"
    /\ UNCHANGED <<sets, known, requested, probe, ha, handled>>

SourceSubscribed ==
    /\ src = "deaf"
    /\ src' = "up"
    /\ UNCHANGED <<sets, known, requested, probe, ha, handled>>

\* What the source connection loses: all answers, and messages that were not sent.
Cut(x, n) ==
    [x EXCEPT !.toDevice = SubSeq(@, 1, n), !.back = <<>>,
              !.fresh = @ /\ x.toDevice = <<>> /\ x.back = <<>>]

Severed ==
    \E n \in [Setting -> 0..MaxWaiting] :
        /\ \A s \in Setting : n[s] <= Len(sets[s].toDevice)
        /\ sets' = [s \in Setting |-> Cut(sets[s], n[s])]

SourceBreaks ==
    /\ src = "up"
    /\ src' = "deaf"
    /\ Severed
    /\ UNCHANGED <<known, requested, probe, ha, handled>>

SourceDown ==
    /\ src = "deaf"
    /\ src' = "down"
    /\ Severed
    /\ UNCHANGED <<known, requested, probe, ha, handled>>

\* The process ends, and another one starts with the devices that have a config.
ProcessRestarts ==
    /\ src' = "down" /\ ha' = "down" /\ handled' = TRUE
    /\ known' \in SUBSET known
    /\ requested' = {}
    /\ probe' \in {0, Idle}
    /\ \E n \in [Setting -> 0..MaxWaiting] :
        /\ \A s \in Setting : n[s] <= Len(sets[s].toDevice)
        /\ sets' = [s \in Setting |-> [Cut(sets[s], n[s]) EXCEPT !.last = None]]

Device(s) == \E b \in BOOLEAN : Reads(s, b) \/ Writes(s, b)

TelemetryOf(s) ==
    \E due \in BOOLEAN, o \in ShowOutcome, r \in SendOutcome : Telemetry(s, due, o, r)

Probed == \E r \in [Power -> SendOutcome] : ProbeRuns(r)

AnswerOf(s) == \E o \in ShowOutcome : Answer(s, o)

Next ==
    \/ \E s \in Setting, v \in Value :
          \/ \E w, r \in SendOutcome, o \in ShowOutcome : Set(s, v, w, r, o)
          \/ Changes(s, v)
    \/ \E s \in Setting : \/ \E r \in SendOutcome : ReadPressed(s, r)
                          \/ Device(s) \/ CloudReads(s) \/ AnswerOf(s)
    \/ \E s \in Power : TelemetryOf(s)
    \/ Probed
    \/ SocketUp \/ ConnectHandled \/ BirthMessage \/ LinkDies \/ LinkDown
    \/ SourceConnects \/ SourceSubscribed \/ SourceBreaks \/ SourceDown
    \/ ProcessRestarts

Spec == Init /\ [][Next]_vars

\* Devices take what they are sent and keep sending, answers are handled, and the
\* probe's timer runs.
FairSpec ==
    /\ Spec
    /\ \A s \in Setting : WF_vars(Device(s)) /\ WF_vars(AnswerOf(s))
    /\ \A s \in Power : WF_vars(TelemetryOf(s))
    /\ WF_vars(Probed)

-----------------------------------------------------------------------------
TypeOK ==
    /\ sets \in [Setting -> Register]
    /\ known \subseteq Power
    /\ requested \subseteq Power
    /\ probe \in Attempt \cup {Idle}
    /\ src \in {"up", "deaf", "down"}
    /\ ha \in {"up", "dying", "down"}
    /\ handled \in BOOLEAN

\* "a later real readback still replaces it" (client.py:958), refused writes, stale
\* answers, the mirrored switch and reconnects included: once a read that was sent
\* last has been answered and nothing is on its way, Home Assistant shows what the
\* device has, and the cache skipped nothing that was needed for that.
Settled ==
    \A s \in Setting :
        sets[s].fresh /\ sets[s].toDevice = <<>> /\ sets[s].back = <<>>
            => sets[s].shown = sets[s].actual

\* "retry briefly if MQTT is not ready" (neo_power_runtime.py:77), and telemetry
\* after that: while both connections stay, the power of every NEO the client knows
\* has been asked for in the end, although the attempts of the probe may be over or
\* its timer cannot be started.
Calm == <>[](src = "up" /\ ha = "up") /\ <>[][~(ConnectHandled \/ BirthMessage \/ ProcessRestarts)]_vars

PowerAsked == Calm => \A s \in Power : <>[](s \in known => s \in requested)
=============================================================================
