---------------------------- MODULE CloudForward ----------------------------
(***************************************************************************)
(* Growatt Cloud forwarding (grobro/grobro/client.py): one MQTT client per *)
(* device to the cloud, made when the first packet of the device arrives,  *)
(* the way of packets to the cloud and of cloud messages to the device,    *)
(* the filters, the loop between the two brokers, and shutdown.            *)
(*                                                                         *)
(* Three kinds of threads run: the source client's network thread (src),   *)
(* the network thread of each cloud client, and the main thread that stops *)
(* the process (main) with its shutdown workers.  The lifecycle lock is    *)
(* held by src while it connects; every other use of it is one action.     *)
(***************************************************************************)
EXTENDS Naturals, FiniteSets

CONSTANTS
    Device,        \* MQTT device ids
    Allowed,       \* devices the cloud policy allows
    BlockConfig,   \* GROWATT_CLOUD_CONFIG_FILTER
    MsgId          \* identities of messages; bounds how many are sent

ASSUME AllowedAssumption == Allowed \subseteq Device
ASSUME BlockConfigAssumption == BlockConfig \in BOOLEAN

VARIABLES
    from,        \* from[i]: where message i was first published
    toSource,    \* messages on c/# for the source client
    toForward,   \* messages from the cloud for the device's cloud client
    toDevice,    \* messages published on s/33/<device>
    uploads,     \* uploads[i]: how often message i was published to the cloud
    src,         \* the source thread in __publish_to_growatt_server
    registered,  \* devices in _forward_clients
    link,        \* link[d]: the connection of the cloud client of d
    sub,         \* sub[d]: the subscription on that connection
    stopped,     \* _forward_stopped
    main,        \* the thread that runs stop()
    toStop,      \* clients stop() has still to deal with
    worker       \* worker[d]: the shutdown worker of d

vars == <<from, toSource, toForward, toDevice, uploads, src, registered, link, sub,
          stopped, main, toStop, worker>>
messages == <<from, toSource, toForward, toDevice, uploads>>
clients == <<registered, link, sub>>
shutdown == <<stopped, main, toStop, worker>>

-----------------------------------------------------------------------------
Message == [id : MsgId, dev : Device,
            way : {"c", "s"},     \* the first level of its topic
            config : BOOLEAN,     \* its type is 0x0118 or 0x0110
            forwarded : BOOLEAN]  \* it has the forwarded-for property

\* Where __publish_to_growatt_server is with a packet.
Step == [at : {"lookup", "connect", "publish"}, msg : Message]
Idle == [at |-> "idle"]

Init ==
    /\ from = [i \in MsgId |-> "unsent"]
    /\ toSource = {} /\ toForward = {} /\ toDevice = {}
    /\ uploads = [i \in MsgId |-> 0]
    /\ src = Idle
    /\ registered = {}
    /\ link = [d \in Device |-> "none"]
    /\ sub = [d \in Device |-> "no"]
    /\ stopped = FALSE
    /\ main = "up"
    /\ toStop = {}
    /\ worker = [d \in Device |-> "none"]

\* A device publishes on c/<device>, a config acknowledgement (0x0118) or data.
DevicePublishes(d, config) ==
    \E i \in MsgId :
        /\ from[i] = "unsent"
        /\ from' = [from EXCEPT ![i] = "device"]
        /\ toSource' = toSource \cup {[id |-> i, dev |-> d, way |-> "c", config |-> config,
                                      forwarded |-> FALSE]}
        /\ UNCHANGED <<toForward, toDevice, uploads, src, clients, shutdown>>

\* A mutant of Uploaded: messages that came from the cloud go back to it.
UploadedAll(m) == m.dev \in Allowed

\* The early returns and the policy before __publish_to_growatt_server.
Uploaded(m) == ~m.forwarded /\ m.dev \in Allowed

\* __on_message in the source thread, up to the forwarding.
Arrives(m) ==
    /\ src = Idle
    /\ main \notin {"joining", "stopped"}
    /\ m \in toSource
    /\ toSource' = toSource \ {m}
    /\ src' = IF ~stopped /\ Uploaded(m) THEN [at |-> "lookup", msg |-> m] ELSE Idle
    /\ UNCHANGED <<from, toForward, toDevice, uploads, clients, shutdown>>

\* A mutant of Found: the stop flag is not looked at.
FoundAnyway(d) == IF d \in registered THEN "publish" ELSE "connect"

\* __connect_to_growatt_server under the lifecycle lock: what follows for d.
Found(d) ==
    CASE stopped -> "idle"
      [] ~stopped /\ d \in registered -> "publish"
      [] OTHER -> "connect"

LooksUp ==
    /\ src.at = "lookup"
    /\ src' = IF Found(src.msg.dev) = "idle" THEN Idle
                                             ELSE [src EXCEPT !.at = Found(src.msg.dev)]
    /\ UNCHANGED <<messages, clients, shutdown>>

\* A socket, CONNECT and SUBSCRIBE, and a network thread: the client is in the map.
\* What the cloud answers to either is not waited for.
Connects ==
    /\ src.at = "connect"
    /\ registered' = registered \cup {src.msg.dev}
    /\ link' = [link EXCEPT ![src.msg.dev] = "connecting"]
    /\ sub' = [sub EXCEPT ![src.msg.dev] = "sent"]
    /\ src' = [src EXCEPT !.at = "publish"]
    /\ UNCHANGED <<messages, shutdown>>

\* connect() or loop_start() failed: the client is disconnected, the packet lost.
ConnectFails ==
    /\ src.at = "connect"
    /\ src' = Idle
    /\ UNCHANGED <<messages, clients, shutdown>>

HasSocket(d) == link[d] \in {"connecting", "up"}

\* client.publish, after the lock was released.  The cloud client is subscribed to
\* +/<device>, so the cloud may send the packet back to it.
Publishes ==
    /\ src.at = "publish"
    /\ LET m == src.msg
       IN  IF HasSocket(m.dev)
           THEN /\ uploads' = [uploads EXCEPT ![m.id] = @ + 1]
                /\ toForward' \in {toForward, toForward \cup {m}}
           ELSE UNCHANGED <<uploads, toForward>>
    /\ src' = Idle
    /\ UNCHANGED <<from, toSource, toDevice, clients, shutdown>>

-----------------------------------------------------------------------------
\* The cloud publishes on <way>/<device>.
CloudPublishes(d, way, config) ==
    /\ sub[d] = "yes"
    /\ \E i \in MsgId :
        /\ from[i] = "unsent"
        /\ from' = [from EXCEPT ![i] = "cloud"]
        /\ toForward' = toForward \cup {[id |-> i, dev |-> d, way |-> way, config |-> config,
                                        forwarded |-> FALSE]}
    /\ UNCHANGED <<toSource, toDevice, uploads, src, clients, shutdown>>

Downloaded(m) == m.dev \in Allowed /\ ~(BlockConfig /\ m.config)

\* __on_message_forward_client in the client's thread: published to the local
\* broker on <way>/33/<device>, with the forwarded-for property.
CloudMessage(m) ==
    /\ m \in toForward
    /\ link[m.dev] # "closed"
    /\ toForward' = toForward \ {m}
    /\ LET f == [m EXCEPT !.forwarded = TRUE]
           published == ~stopped /\ Downloaded(m)
       IN  /\ toSource' = IF published /\ m.way = "c" THEN toSource \cup {f} ELSE toSource
           /\ toDevice' = IF published /\ m.way = "s" THEN toDevice \cup {f} ELSE toDevice
    /\ UNCHANGED <<from, uploads, src, clients, shutdown>>

\* CONNACK; a subscription on this connection is in place.
Connacked(d) ==
    /\ link[d] = "connecting"
    /\ link' = [link EXCEPT ![d] = "up"]
    /\ sub' = [sub EXCEPT ![d] = IF @ = "sent" THEN "yes" ELSE "no"]
    /\ UNCHANGED <<messages, src, registered, shutdown>>

\* A refused or a lost connection, with its (clean) session.
ConnectionLost(d) ==
    /\ HasSocket(d)
    /\ link' = [link EXCEPT ![d] = "down"]
    /\ sub' = [sub EXCEPT ![d] = "no"]
    /\ UNCHANGED <<messages, src, registered, shutdown>>

\* Paho's network thread connects again; there is no on_connect handler.
Reconnects(d) ==
    /\ link[d] = "down"
    /\ link' = [link EXCEPT ![d] = "connecting"]
    /\ UNCHANGED <<messages, src, registered, sub, shutdown>>

-----------------------------------------------------------------------------
Snapshot == registered

\* stop(): the flag and the snapshot under the lifecycle lock.
StopBegins ==
    /\ main = "up"
    /\ src.at # "connect"
    /\ main' = "stopping"
    /\ stopped' = TRUE
    /\ toStop' = Snapshot
    /\ UNCHANGED <<messages, src, clients, worker>>

Closed(d) ==
    /\ link' = [link EXCEPT ![d] = "closed"]
    /\ sub' = [sub EXCEPT ![d] = "no"]

WorkerStarts(d) ==
    /\ main = "stopping"
    /\ d \in toStop
    /\ toStop' = toStop \ {d}
    /\ worker' = [worker EXCEPT ![d] = "disconnect"]
    /\ UNCHANGED <<messages, src, clients, stopped, main>>

\* The thread cannot be started: disconnected here, without a join.
WorkerCannotStart(d) ==
    /\ main = "stopping"
    /\ d \in toStop
    /\ toStop' = toStop \ {d}
    /\ Closed(d)
    /\ UNCHANGED <<messages, src, registered, stopped, main, worker>>

WorkerDisconnects(d) ==
    /\ worker[d] = "disconnect"
    /\ Closed(d)
    /\ worker' = [worker EXCEPT ![d] = "loop_stop"]
    /\ UNCHANGED <<messages, src, registered, stopped, main, toStop>>

WorkerEnds(d) ==
    /\ worker[d] = "loop_stop"
    /\ worker' = [worker EXCEPT ![d] = "none"]
    /\ UNCHANGED <<messages, src, clients, stopped, main, toStop>>

\* stop_client(self._client) joins the source thread, which ends its callback first.
SourceStops ==
    /\ main = "stopping"
    /\ toStop = {}
    /\ src = Idle
    /\ main' = "joining"
    /\ UNCHANGED <<messages, src, clients, stopped, toStop, worker>>

\* A mutant of Joined: workers are joined without the deadline.
JoinedAll == \A d \in Device : worker[d] = "none"

\* The workers ended or CLOUD_SHUTDOWN_TIMEOUT passed.
Joined == TRUE

StopEnds ==
    /\ main = "joining"
    /\ Joined
    /\ main' = "stopped"
    /\ registered' = {}
    /\ UNCHANGED <<messages, src, link, sub, stopped, toStop, worker>>

-----------------------------------------------------------------------------
SourceThread == (\E m \in toSource : Arrives(m)) \/ LooksUp \/ Connects \/ ConnectFails \/ Publishes

MainThread ==
    \/ \E d \in Device : WorkerStarts(d) \/ WorkerCannotStart(d)
    \/ SourceStops \/ StopEnds

Next ==
    \/ \E d \in Device, config \in BOOLEAN : DevicePublishes(d, config)
    \/ \E d \in Device, way \in {"c", "s"}, config \in BOOLEAN : CloudPublishes(d, way, config)
    \/ SourceThread
    \/ \E m \in toForward : CloudMessage(m)
    \/ \E d \in Device : Connacked(d) \/ ConnectionLost(d) \/ Reconnects(d)
    \/ StopBegins
    \/ MainThread
    \/ \E d \in Device : WorkerDisconnects(d) \/ WorkerEnds(d)

Spec == Init /\ [][Next]_vars

\* The source and the main thread run; a worker or a cloud thread may stall.
FairSpec == Spec /\ WF_vars(SourceThread) /\ WF_vars(MainThread)

-----------------------------------------------------------------------------
TypeOK ==
    /\ from \in [MsgId -> {"unsent", "device", "cloud"}]
    /\ toSource \subseteq Message /\ toForward \subseteq Message /\ toDevice \subseteq Message
    /\ uploads \in [MsgId -> Nat]
    /\ src \in Step \cup {Idle}
    /\ registered \subseteq Device
    /\ main # "stopped" => registered = {d \in Device : link[d] # "none"}
    /\ link \in [Device -> {"none", "connecting", "up", "down", "closed"}]
    /\ sub \in [Device -> {"no", "sent", "yes"}]
    /\ stopped \in BOOLEAN
    /\ main \in {"up", "stopping", "joining", "stopped"}
    /\ toStop \subseteq Device
    /\ worker \in [Device -> {"none", "disconnect", "loop_stop"}]

\* The loop between the two brokers is cut by the forwarded-for property
\* (client.py:466, 910): a packet goes to the cloud at most once, and nothing
\* that came from the cloud, by its echo or its own messages, goes there.
NoEchoLoop == \A i \in MsgId : uploads[i] <= IF from[i] = "device" THEN 1 ELSE 0

\* The config filter (client.py:895) keeps every settings change of the cloud from
\* the device, and a device that is not on the allowlist from the cloud: it has no
\* client and gets nothing.
PolicyHolds ==
    /\ \A d \in Device \ Allowed : link[d] = "none"
    /\ \A m \in toDevice : m.dev \in Allowed /\ ~(BlockConfig /\ m.config)

\* After stop() no cloud client is left connected or reconnecting, whatever packets
\* and connections were on their way: at most a shutdown worker that outlived the
\* deadline (client.py:301) is about to disconnect it.
NothingLeftConnected ==
    main = "stopped" =>
        \A d \in Device : link[d] \in {"none", "closed"} \/ worker[d] = "disconnect"

\* Shutdown ends, even if every worker stalls in a cloud client (client.py:285).
StopCompletes == main = "stopping" ~> main = "stopped"
=============================================================================
