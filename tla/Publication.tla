---------------------------- MODULE Publication -----------------------------
(***************************************************************************)
(* What Home Assistant is shown of a device (grobro/ha/client.py): the     *)
(* retained discovery config, the obsolete topics it replaces, and the     *)
(* state, which is not retained; with the caches that suppress what was     *)
(* published already, and their recovery after a reconnect, a restart of    *)
(* Home Assistant and a restart of the process.                            *)
(*                                                                         *)
(* A handler publishes in stages under the client's runtime lock, and the   *)
(* network thread may lose the connection between any two of them: Outcome  *)
(* says up to which stage Paho accepted the publishes and up to which they  *)
(* reached the broker.                                                      *)
(***************************************************************************)
EXTENDS Naturals

CONSTANTS
    Device,     \* MQTT device ids
    Signature,  \* battery slots, PV inputs and language of the discovery payload
    Identity,   \* discovery_config_data: what of a device's config discovery shows
    Firmware,   \* composed firmware versions
    State       \* prepared state payloads

None == "none"

ASSUME NoneAssumption ==
    None \notin Signature \cup Firmware \cup State

VARIABLES
    mem,      \* mem[d]: the caches of the process for d, see Memory
    cfg,      \* cfg[d]: the discovery data of _config_cache[d]
    conf,     \* conf[d]: the retained discovery config of d
    legacy,   \* legacy[d]: the retained topics of an older version
    haState,  \* haState[d]: the state Home Assistant shows
    ha,       \* Home Assistant runs
    birth,    \* its birth message is on the way
    link,     \* the MQTT connection, as in Availability
    handled   \* no on_connect is outstanding

vars == <<mem, cfg, conf, legacy, haState, ha, birth, link, handled>>

-----------------------------------------------------------------------------
Shape == [sig : Signature, ident : Identity]                       \* built payload
Payload == [sig : Signature, ident : Identity, fw : Firmware \cup {None}]  \* as cleaned and sent
NoShape == [sig |-> None]

\* What the broker retains when it is no payload.
Unset == [topic |-> "unset"]
Emptied == [topic |-> "empty"]
RepairConf == [topic |-> "repair"]

Memory ==
    [listed : BOOLEAN,                 \* d in _discovery_cache
     sig : Signature \cup {None},      \* _discovery_signature[d]
     pay : Shape \cup {NoShape},       \* _discovery_payload_cache[d]
     fw : Firmware \cup {None},        \* _composed_firmware_cache[d]
     repaired : BOOLEAN,               \* d in _better_312_discovery_repair_done
     cleaned : BOOLEAN,                \* d in _legacy_discovery_cleanup_done
     migrated : BOOLEAN,               \* d in _migration_done
     shown : State \cup {None}]        \* _last_state_payload, _state_publish_cache

Fresh == [listed |-> FALSE, sig |-> None, pay |-> NoShape, fw |-> None, repaired |-> FALSE,
          cleaned |-> FALSE, migrated |-> FALSE, shown |-> None]

\* The publishes of a handler, in order.
Migrate == 1
Clear == 2
Repair == 3
Config == 4
Cleanup == 5
Again == 6
Metadata == 7
StateMessage == 8

\* Accepted by Paho up to one stage, and arrived up to one.
Outcome ==
    LET All == StateMessage
    IN  CASE link = "down" -> {[accepted |-> 0, arrived |-> 0]}
          [] link = "dying" -> {[accepted |-> a, arrived |-> 0] : a \in 0..All}
          [] link = "up" -> {o \in [accepted : 0..All, arrived : 0..All] : o.arrived <= o.accepted}

LinkAfter(o) ==
    link' = CASE o.accepted < StateMessage -> "down"
              [] o.arrived = StateMessage -> link
              [] OTHER -> IF link = "up" THEN "dying" ELSE link

Keep(p, new, old) == IF p THEN new ELSE old

-----------------------------------------------------------------------------
\* A mutant of Invalidated: a payload that differs only in what the cleanup adds
\* to it counts as published.
InvalidatedNotPayload(m) == [m EXCEPT !.listed = FALSE, !.sig = None]

\* The caches a firmware or a config change takes the device from.
Invalidated(m) == [m EXCEPT !.listed = FALSE, !.sig = None, !.pay = NoShape]

Announced(m, s) == m.listed /\ m.sig = s

SamePayload(m, s, i) == m.pay = [sig |-> s, ident |-> i]

Rebuilt(m, s, i) == ~Announced(m, s) /\ ~SamePayload(m, s, i)

\* The last publish of _publish_discovery_message.
LastOf(m) == IF m.cleaned THEN Config ELSE Again

\* __publish_device_discovery: the memory after it.
Discovered(m, s, i, o) ==
    LET n == [m EXCEPT !.migrated = @ \/ o.accepted >= Migrate]
        sig == Keep(o.accepted >= Metadata, s, m.sig)
    IN  CASE Announced(m, s) -> n
          [] ~Announced(m, s) /\ SamePayload(m, s, i) -> [n EXCEPT !.listed = TRUE, !.sig = sig]
          [] Rebuilt(m, s, i) /\ o.accepted < LastOf(m) ->
                 [n EXCEPT !.repaired = @ \/ o.accepted >= Repair]
          [] OTHER -> [n EXCEPT !.listed = TRUE, !.sig = sig, !.repaired = TRUE, !.cleaned = TRUE,
                                !.pay = [sig |-> s, ident |-> i]]

\* What the broker retains after it.
ConfAfter(d, m, s, i, o) ==
    CASE ~Rebuilt(m, s, i) \/ o.arrived < Clear -> conf[d]
      [] Rebuilt(m, s, i) /\ o.arrived >= Config -> [sig |-> s, ident |-> i, fw |-> m.fw]
      [] Rebuilt(m, s, i) /\ o.arrived = Repair /\ ~m.repaired -> RepairConf
      [] OTHER -> Emptied

LegacyAfter(d, m, s, i, o) ==
    CASE Rebuilt(m, s, i) /\ ~m.cleaned /\ o.arrived >= Cleanup -> "gone"
      [] ~m.migrated /\ o.arrived >= Migrate /\ ~(Rebuilt(m, s, i) /\ ~m.cleaned /\ o.arrived >= Cleanup)
             -> "migrating"
      [] OTHER -> legacy[d]

Init ==
    /\ mem = [d \in Device |-> Fresh]
    /\ cfg \in [Device -> Identity]
    /\ conf = [d \in Device |-> Unset]
    /\ legacy = [d \in Device |-> "old"]
    /\ haState = [d \in Device |-> None]
    /\ ha = TRUE
    /\ birth = FALSE
    /\ link = "down"
    /\ handled = TRUE

\* The handler that uses memory m publishes discovery, and no birth message
\* survives the connection.
PublishDiscovery(d, m, s, o) ==
    /\ conf' = [conf EXCEPT ![d] = ConfAfter(d, m, s, cfg'[d], o)]
    /\ legacy' = [legacy EXCEPT ![d] = LegacyAfter(d, m, s, cfg'[d], o)]
    /\ LinkAfter(o)
    /\ birth' = (birth /\ link' = "up")

\* publish_input_register
Telemetry(d, s, f, v, o) ==
    LET m == IF mem[d].fw = f THEN mem[d] ELSE [Invalidated(mem[d]) EXCEPT !.fw = f]
        n == Discovered(m, s, cfg[d], o)
        due == m.shown # v
    IN  /\ UNCHANGED cfg
        /\ PublishDiscovery(d, m, s, o)
        /\ mem' = [mem EXCEPT ![d] = [n EXCEPT !.shown = Keep(due /\ o.accepted >= StateMessage, v, @)]]
        /\ haState' = [haState EXCEPT ![d] = Keep(due /\ ha /\ o.arrived >= StateMessage, v, @)]
        /\ UNCHANGED <<ha, handled>>

\* set_config
SetConfig(d, i, s, o) ==
    LET m == [Invalidated(mem[d]) EXCEPT !.migrated = FALSE]
    IN  /\ cfg' = [cfg EXCEPT ![d] = i]
        /\ IF i = cfg[d] /\ mem[d].listed
           THEN UNCHANGED <<mem, conf, legacy, link, birth>>
           ELSE /\ PublishDiscovery(d, m, s, o)
                /\ mem' = [mem EXCEPT ![d] = Discovered(m, s, i, o)]
        /\ UNCHANGED <<haState, ha, handled>>

-----------------------------------------------------------------------------
\* A mutant of Forgotten: the state caches survive a restart of Home Assistant.
ForgottenNotState(m) == [m EXCEPT !.listed = FALSE, !.sig = None, !.pay = NoShape]

\* clear_reconnect_caches
Forgotten(m) == [m EXCEPT !.listed = FALSE, !.sig = None, !.pay = NoShape, !.shown = None]

Recovered == mem' = [d \in Device |-> Forgotten(mem[d])]

SocketUp ==
    /\ link = "down" /\ handled
    /\ link' = "up"
    /\ handled' = FALSE
    /\ UNCHANGED <<mem, cfg, conf, legacy, haState, ha, birth>>

\* __on_connect
ConnectHandled ==
    /\ ~handled
    /\ handled' = TRUE
    /\ Recovered
    /\ UNCHANGED <<cfg, conf, legacy, haState, ha, birth, link>>

\* Home Assistant's birth message reaches __handle_message.
BirthMessage ==
    /\ birth /\ handled
    /\ birth' = FALSE
    /\ Recovered
    /\ UNCHANGED <<cfg, conf, legacy, haState, ha, link, handled>>

LinkDies ==
    /\ link = "up"
    /\ link' = "dying"
    /\ birth' = FALSE
    /\ UNCHANGED <<mem, cfg, conf, legacy, haState, ha, handled>>

LinkDown ==
    /\ link # "down"
    /\ link' = "down"
    /\ birth' = FALSE
    /\ UNCHANGED <<mem, cfg, conf, legacy, haState, ha, handled>>

\* Home Assistant forgets states that are not retained.
HomeAssistantStops ==
    /\ ha
    /\ ha' = FALSE
    /\ haState' = [d \in Device |-> None]
    /\ birth' = FALSE
    /\ UNCHANGED <<mem, cfg, conf, legacy, link, handled>>

\* It reads the retained configs, subscribes, and publishes its birth message; one
\* sent to a bridge that is not connected is made up for by the reconnect.
HomeAssistantStarts ==
    /\ ~ha
    /\ ha' = TRUE
    /\ birth' = (link = "up" /\ handled)
    /\ UNCHANGED <<mem, cfg, conf, legacy, haState, link, handled>>

\* The process is killed and started again.
ProcessRestarts ==
    /\ mem' = [d \in Device |-> Fresh]
    /\ link' = "down"
    /\ handled' = TRUE
    /\ birth' = FALSE
    /\ UNCHANGED <<cfg, conf, legacy, haState, ha>>

Packet(d) ==
    \E s \in Signature, f \in Firmware, v \in State, o \in Outcome : Telemetry(d, s, f, v, o)

Next ==
    \/ \E d \in Device : Packet(d)
    \/ \E d \in Device, i \in Identity, s \in Signature, o \in Outcome : SetConfig(d, i, s, o)
    \/ SocketUp \/ ConnectHandled \/ BirthMessage \/ LinkDies \/ LinkDown
    \/ HomeAssistantStops \/ HomeAssistantStarts \/ ProcessRestarts

Spec == Init /\ [][Next]_vars

\* Devices keep sending, and the network thread runs.
FairSpec ==
    /\ Spec
    /\ \A d \in Device : WF_vars(Packet(d))
    /\ WF_vars(ConnectHandled) /\ WF_vars(BirthMessage)

-----------------------------------------------------------------------------
\* Types, and the discovery caches of a device are filled and cleared together.
TypeOK ==
    /\ mem \in [Device -> Memory]
    /\ \A d \in Device : mem[d].listed <=> mem[d].pay # NoShape
    /\ cfg \in [Device -> Identity]
    /\ conf \in [Device -> Payload \cup {Unset, Emptied, RepairConf}]
    /\ legacy \in [Device -> {"old", "migrating", "gone"}]
    /\ haState \in [Device -> State \cup {None}]
    /\ ha \in BOOLEAN /\ birth \in BOOLEAN /\ handled \in BOOLEAN
    /\ link \in {"up", "dying", "down"}

\* Connected, with every recovery that was due done, and Home Assistant there.
Settled == link = "up" /\ handled /\ ha /\ ~birth

\* The comparison with the last published state (client.py:529, 538) may only skip
\* what Home Assistant shows: states lost with a connection, or with a Home
\* Assistant that restarted (client.py:692), are not suppressed.
StateNotSuppressed ==
    Settled => \A d \in Device : mem[d].shown # None => haState[d] = mem[d].shown

\* The discovery caches (client.py:129, 1147) may only skip a config the broker
\* retains, for the signature, the identity and the firmware of now, although the
\* cached payload lacks what the cleanup adds; a config that was cleared to force
\* a refresh (client.py:1159) is not left so.
DiscoveryNotSuppressed ==
    Settled => \A d \in Device : mem[d].listed =>
        /\ mem[d].pay = [sig |-> mem[d].sig, ident |-> cfg[d]]
        /\ conf[d] = [sig |-> mem[d].sig, ident |-> cfg[d], fw |-> mem[d].fw]

\* Whatever was lost: once things stay settled, a device that sends is discovered
\* and has a state in Home Assistant.
DeviceShown ==
    \A d \in Device : <>[]Settled => <>[](conf[d] \in Payload /\ haState[d] # None)
=============================================================================
