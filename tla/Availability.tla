--------------------------- MODULE Availability ----------------------------
(***************************************************************************)
(* Device availability in Home Assistant (grobro/ha/client.py): the        *)
(* retained online/offline topic of each device, the cache that suppresses *)
(* repeated publishes, the timer that takes a silent device offline, the   *)
(* bridge's own availability with its MQTT last will, and the recoveries   *)
(* after a reconnect, a Home Assistant restart and a process restart.      *)
(*                                                                         *)
(* The client's runtime lock makes every handler one action.  A timer      *)
(* thread that woke up waits for that lock (TimerFires, TimerRuns), and so *)
(* does on_connect after the socket is up (SocketUp, ConnectHandled).      *)
(* Paho accepts a publish when it has a socket; whether it arrives is       *)
(* known only to the broker: a "dying" connection still accepts and loses. *)
(*                                                                         *)
(* Time is reduced to what the code asks of it: whether the device's       *)
(* timeout has passed since its last activity (quiet).                     *)
(***************************************************************************)
EXTENDS Naturals, FiniteSets

CONSTANTS
    Device,      \* MQTT device ids
    TimerId,     \* identities of Timer objects; bounds the threads of a device
    NoTimer,
    StartFails   \* devices whose timer threads may fail to start

ASSUME TimerIdAssumption == TimerId # {} /\ NoTimer \notin TimerId

VARIABLES
    mem,         \* mem[d]: what the process remembers of d, see Memory
    quiet,       \* quiet[d]: the timeout has passed since the last activity of d
    known,       \* the keys of _config_cache
    saved,       \* devices with a config file, which survives the process
    retained,    \* retained[d]: the broker's retained availability of d
    bridge,      \* the broker's retained availability of the bridge
    subscribed,  \* the broker holds the command subscriptions of this session
    link,        \* the MQTT connection to Home Assistant's broker
    handled,     \* no on_connect is outstanding
    pending,     \* [bridge, commands]: _bridge_online_pending, _command_subscription_pending
    running      \* the process is up and not stopped

vars == <<mem, quiet, known, saved, retained, bridge, subscribed, link, handled,
          pending, running>>
process == <<mem, known, pending, handled>>
broker == <<retained, bridge, subscribed>>

-----------------------------------------------------------------------------
State == {"none", "online", "offline"}
Thread == [id : TimerId, fired : BOOLEAN]

Memory ==
    {m \in [seen : BOOLEAN,                  \* d in _device_last_seen
            timer : TimerId \cup {NoTimer},  \* _device_timers[d]
            threads : SUBSET Thread,         \* timers that have not ended
            cached : State] :                \* _last_availability[d]
        m.timer # NoTimer => m.seen}

Nothing == [seen |-> FALSE, timer |-> NoTimer, threads |-> {}, cached |-> "none"]
NonePending == [bridge |-> FALSE, commands |-> FALSE]

\* __publish_availability: the memory after it, and what the broker retains.
Published(m, v) == IF link = "down" THEN m ELSE [m EXCEPT !.cached = v]

Retained(d, m, v) == IF m.cached = v \/ link # "up" THEN retained[d] ELSE v

\* arm_timeout: the timer in the map is replaced, or none is left if its thread
\* cannot be started.
FreshTimers(m) == {i \in TimerId : \A t \in m.threads : t.id # i}

Armed(m, ok) ==
    IF ok /\ FreshTimers(m) # {}
    THEN LET id == CHOOSE i \in FreshTimers(m) : TRUE
         IN  [m EXCEPT !.timer = id, !.threads = @ \cup {[id |-> id, fired |-> FALSE]}]
    ELSE [m EXCEPT !.timer = NoTimer]

StartOutcomes(d) == {TRUE} \cup {d \notin StartFails}

\* A mutant of Seen: a device that goes offline and comes back is not watched.
SeenOnce(m, ok) ==
    LET s == [m EXCEPT !.seen = TRUE]
    IN  IF m.seen \/ m.cached = "offline" THEN s ELSE Armed(s, ok)

\* __reset_device_timer: a timer that is alive, woken up or not, will look at
\* last_seen itself.
Seen(m, ok) ==
    LET s == [m EXCEPT !.seen = TRUE]
    IN  IF \E t \in m.threads : t.id = m.timer THEN s ELSE Armed(s, ok)

\* __publish_bridge_online and __subscribe_commands, each only if it is due:
\* pending until MQTT accepted it.
SessionAnnounced(due) ==
    /\ bridge' = IF due.bridge /\ link = "up" THEN "online" ELSE bridge
    /\ subscribed' = (subscribed \/ (due.commands /\ link = "up"))
    /\ pending' = [bridge |-> IF due.bridge THEN link = "down" ELSE pending.bridge,
                   commands |-> IF due.commands THEN link = "down" ELSE pending.commands]

-----------------------------------------------------------------------------
Init ==
    /\ saved \in SUBSET Device
    /\ known = saved
    /\ mem = [d \in Device |-> Nothing]
    /\ quiet = [d \in Device |-> TRUE]
    /\ retained = [d \in Device |-> "none"]
    /\ bridge = "none"
    /\ subscribed = FALSE
    /\ link = "down"
    /\ handled = TRUE
    /\ pending = NonePending
    /\ running = TRUE

\* __refresh_device_activity: what was pending is tried again, the device is
\* online, and its timeout starts over.
RefreshActivity(d) ==
    /\ SessionAnnounced(pending)
    /\ retained' = [retained EXCEPT ![d] = Retained(d, mem[d], "online")]
    /\ \E ok \in StartOutcomes(d) :
           mem' = [mem EXCEPT ![d] = Seen(Published(mem[d], "online"), ok)]
    /\ quiet' = [quiet EXCEPT ![d] = FALSE]

\* Telemetry or a config packet: the device's config is also put into the cache
\* and saved, which may fail and is tried again on the next packet.
Telemetry(d) ==
    /\ running
    /\ RefreshActivity(d)
    /\ known' = known \cup {d}
    /\ saved' \in {saved, saved \cup {d}}
    /\ UNCHANGED <<link, handled, running>>

\* Holding registers, smart meter values, config read answers.
OtherActivity(d) ==
    /\ running
    /\ RefreshActivity(d)
    /\ UNCHANGED <<known, saved, link, handled, running>>

\* The device's timeout passes without any activity.
BecomesQuiet(d) ==
    /\ ~quiet[d]
    /\ quiet' = [quiet EXCEPT ![d] = TRUE]
    /\ UNCHANGED <<process, saved, broker, link, running>>

TimerFires(d, t) ==
    /\ t \in mem[d].threads
    /\ ~t.fired
    /\ mem' = [mem EXCEPT ![d].threads = (@ \ {t}) \cup {[t EXCEPT !.fired = TRUE]}]
    /\ UNCHANGED <<quiet, known, saved, broker, link, handled, pending, running>>

\* A mutant of TimedOut: the time since the last activity is not looked at again.
TimedOutAnyway(d) == mem[d].seen

\* check_timeout: whether the timeout really passed since the last activity.
TimedOut(d) == mem[d].seen /\ quiet[d]

\* check_timeout for the timer that left memory m.
Checked(d, m, ok) ==
    CASE ~m.seen -> [m EXCEPT !.timer = NoTimer]
      [] TimedOut(d) -> Published([m EXCEPT !.timer = NoTimer, !.seen = FALSE], "offline")
      [] OTHER -> Armed(m, ok)

\* run() under the runtime lock: only for the timer the map still holds.
TimerRuns(d, t) ==
    /\ t \in mem[d].threads
    /\ t.fired
    /\ LET m == [mem[d] EXCEPT !.threads = @ \ {t}]
           owner == m.timer = t.id
       IN  /\ \E ok \in StartOutcomes(d) :
                  mem' = [mem EXCEPT ![d] = IF owner THEN Checked(d, m, ok) ELSE m]
           /\ retained' = [retained EXCEPT ![d] = IF owner /\ TimedOut(d)
                                                 THEN Retained(d, m, "offline") ELSE @]
    /\ UNCHANGED <<quiet, known, saved, bridge, subscribed, link, handled, pending, running>>

-----------------------------------------------------------------------------
\* A mutant of Forgotten: the reconnect keeps _last_availability.
ForgottenNot(m) == m

\* clear_reconnect_caches
Forgotten(m) == [m EXCEPT !.cached = "none"]

\* clear_reconnect_caches and __publish_offline_devices in
\* __recover_after_home_assistant_restart: known devices go offline until their
\* next activity; their timers keep running.
DevicesRecovered ==
    /\ mem' = [d \in Device |-> IF d \in known THEN Published(Forgotten(mem[d]), "offline")
                                               ELSE Forgotten(mem[d])]
    /\ retained' = [d \in Device |-> IF d \in known THEN Retained(d, Forgotten(mem[d]), "offline")
                                                    ELSE retained[d]]

SocketUp ==
    /\ running /\ handled
    /\ link = "down"
    /\ link' = "up"
    /\ handled' = FALSE
    /\ subscribed' = FALSE
    /\ UNCHANGED <<mem, quiet, known, saved, retained, bridge, pending, running>>

\* __on_connect gets the runtime lock; the connection may be gone again by then.
ConnectHandled ==
    /\ running
    /\ ~handled
    /\ handled' = TRUE
    /\ SessionAnnounced([bridge |-> TRUE, commands |-> TRUE])
    /\ DevicesRecovered
    /\ UNCHANGED <<quiet, known, saved, link, running>>

\* Home Assistant's birth message on a connection that stayed up.
BirthMessage ==
    /\ running
    /\ link = "up" /\ handled
    /\ SessionAnnounced([bridge |-> FALSE, commands |-> TRUE])
    /\ DevicesRecovered
    /\ UNCHANGED <<quiet, known, saved, link, handled, running>>

\* The peer is gone but the socket still takes packets.
LinkDies ==
    /\ link = "up"
    /\ link' = "dying"
    /\ UNCHANGED <<process, quiet, saved, broker, running>>

\* The socket is closed; the broker publishes the last will of the bridge.
LinkDown ==
    /\ link # "down"
    /\ link' = "down"
    /\ bridge' = "offline"
    /\ UNCHANGED <<process, quiet, saved, retained, subscribed, running>>

\* stop(): timers cancelled, known devices and the bridge offline, disconnect.
Stop ==
    /\ running
    /\ running' = FALSE
    /\ retained' = [d \in Device |-> IF d \in known THEN Retained(d, mem[d], "offline")
                                                    ELSE retained[d]]
    /\ bridge' = IF link = "down" THEN bridge ELSE "offline"
    /\ link' = "down"
    /\ mem' = [d \in Device |->
                  [Nothing EXCEPT !.threads = {t \in mem[d].threads : t.fired}]]
    /\ UNCHANGED <<quiet, known, saved, subscribed, handled, pending>>

\* The process is killed; the last will says so for the bridge.
Crash ==
    /\ running
    /\ running' = FALSE
    /\ bridge' = IF link = "down" THEN bridge ELSE "offline"
    /\ link' = "down"
    /\ mem' = [d \in Device |-> Nothing]
    /\ UNCHANGED <<quiet, known, saved, retained, subscribed, handled, pending>>

\* A new process knows the devices with a config file.
Restart ==
    /\ ~running
    /\ running' = TRUE
    /\ mem' = [d \in Device |-> Nothing]
    /\ known' = saved
    /\ pending' = NonePending
    /\ handled' = TRUE
    /\ UNCHANGED <<quiet, saved, broker, link>>

Next ==
    \/ \E d \in Device : Telemetry(d) \/ OtherActivity(d) \/ BecomesQuiet(d)
    \/ \E d \in Device : \E t \in mem[d].threads : TimerFires(d, t) \/ TimerRuns(d, t)
    \/ SocketUp \/ ConnectHandled \/ BirthMessage \/ LinkDies \/ LinkDown
    \/ Stop \/ Crash \/ Restart

Spec == Init /\ [][Next]_vars

\* Timer threads fire when their delay is over and get the runtime lock in turn;
\* so does the network thread that waits in on_connect.
ThreadsRun ==
    /\ \A d \in Device, i \in TimerId :
           WF_vars(\E t \in mem[d].threads : t.id = i /\ (TimerFires(d, t) \/ TimerRuns(d, t)))
    /\ WF_vars(ConnectHandled)

FairSpec == Spec /\ ThreadsRun

-----------------------------------------------------------------------------
TypeOK ==
    /\ mem \in [Device -> Memory]
    /\ quiet \in [Device -> BOOLEAN]
    /\ known \subseteq Device
    /\ saved \subseteq Device
    /\ retained \in [Device -> State]
    /\ bridge \in State
    /\ subscribed \in BOOLEAN
    /\ link \in {"up", "dying", "down"}
    /\ handled \in BOOLEAN
    /\ pending \in [bridge : BOOLEAN, commands : BOOLEAN]
    /\ running \in BOOLEAN

\* The cache that suppresses a repeated publish (client.py:1063) may only do so
\* when the broker still retains the value: on a live connection whose on_connect
\* has run, what the client remembers having announced (a device's availability,
\* the bridge, its subscriptions) is what the broker holds, whatever was lost,
\* rejected or cleared before.
CacheTellsTruth ==
    running /\ handled /\ link = "up" =>
        /\ \A d \in Device : mem[d].cached # "none" => retained[d] = mem[d].cached
        /\ ~pending.bridge => bridge = "online"
        /\ ~pending.commands => subscribed

\* On such a connection a device announced as online has a live timer that will
\* look at it again (client.py:1011-1050), unless starting a thread can fail: a
\* timeout whose offline message was rejected is made up for by the reconnect.
OnlineIsWatched ==
    running /\ handled /\ link = "up" =>
        \A d \in Device \ StartFails : mem[d].cached = "online" =>
            mem[d].seen /\ \E t \in mem[d].threads : t.id = mem[d].timer

\* Traffic of a device never piles up timers: there is at most one at any time,
\* also while one waits for the lock that the traffic holds.
OneWatcher == \A d \in Device : \A t, u \in mem[d].threads : t = u

\* Only a device whose timeout has passed is taken offline, except for the
\* recoveries and stop: a timer that fired just before new traffic does not.
LiveStaysOnline ==
    [][\A d \in Device : retained[d] = "online" /\ retained'[d] = "offline" =>
          quiet[d] \/ ConnectHandled \/ BirthMessage \/ Stop]_vars

\* "Devices become unavailable after the configured telemetry timeout"
\* (README.md:50), for every device the client knows a config of: once it stays
\* silent on a bridge that stays connected, its availability does not stay online,
\* whatever publishes, connections and processes were lost on the way.
StaysSilent(d) == running /\ link = "up" /\ quiet[d]

KnownSilentGoOffline ==
    \A d \in Device \ StartFails :
        <>[](StaysSilent(d) /\ d \in known) => <>[](retained[d] # "online")
=============================================================================
