----------------------------- MODULE GatewayLink ----------------------------
(***************************************************************************)
(* The inverter behind one ShineWeLink gateway: _ptq_for_raq of             *)
(* grobro/grobro/client.py, its file gateway_<id>.json, and the config of   *)
(* the gateway kept by the other client of the same process                *)
(* (DeviceConfigStore), whose file restores links too.                      *)
(***************************************************************************)
EXTENDS DeviceConfigStore

CONSTANTS
    Endpoint,  \* serial numbers of inverters (PTQ...)
    Own        \* the serial number of the gateway itself (RAQ...)

ASSUME SerialAssumption == /\ Endpoint \subseteq Value
                           /\ Own \in Value \ Endpoint

VARIABLES
    link,     \* _ptq_for_raq[gateway], None if unknown
    unsaved,  \* the gateway is in _gateway_dirty
    file      \* the endpoint in gateway_<id>.json, None without a file

linkVars == <<link, unsaved, file>>
allVars == <<up, cache, dirty, snap, current, disk, link, unsaved, file>>

-----------------------------------------------------------------------------
Link == Endpoint \cup {None}
Links == [link : Link, unsaved : BOOLEAN, file : Link]

Now == [link |-> link, unsaved |-> unsaved, file |-> file]
Becomes(l) == link' = l.link /\ unsaved' = l.unsaved /\ file' = l.file

\* A mutant of Saved: a failed write is not noted.
SavedUnnoted(l, e, w) ==
    [link |-> e, unsaved |-> FALSE, file |-> IF w = "done" THEN e ELSE l.file]

Saved(l, e, w) ==
    [link |-> e, unsaved |-> (w # "done"), file |-> IF w = "done" THEN e ELSE l.file]

\* A mutant of SaveDue: a link that did not change is not saved again.
SaveDueOnChange(l, e) == l.link # e

SaveDue(l, e) == l.link # e \/ l.unsaved

\* _remember_gateway, which ignores what is not the serial number of an inverter
Remembered(l, e, w) == IF e \in Endpoint /\ SaveDue(l, e) THEN Saved(l, e, w) ELSE l

Serial(c) == IF c # NoConfig /\ c.kept \in Endpoint THEN c.kept ELSE None

\* A mutant of Restored: the config files are read last.
RestoredConfigLast(c, f) == IF Serial(c) # None THEN Serial(c) ELSE f

\* __init__ takes the links of config files, then those of gateway files.
Restored(c, f) == IF f # None THEN f ELSE Serial(c)

\* Of the config of a gateway, links depend on the serial number only.
Packet == [kept : Endpoint \cup {Own, None}, vol : {None}, secret : {FALSE}]

InitLink ==
    /\ Init
    /\ disk \in Packet \cup {NoConfig}
    /\ link = None /\ unsaved = FALSE
    /\ file \in Link

\* Both clients are made anew; each reads the config file.
RestartLink ==
    /\ Restart
    /\ \E r1, r2 \in ReadOutcome :
          link' = Restored(Parsed(r1), IF r2 THEN file ELSE None)
    /\ UNCHANGED <<unsaved, file>>

\* The memory of a process that lives on, or of none
Remains(l) == IF up' THEN Becomes(l)
              ELSE link' = None /\ unsaved' = FALSE /\ UNCHANGED file

KilledLink == Killed /\ Remains(Now)

\* A write of the link that is cut by a kill is one that fails before Killed.
LinkOutcome == {"done", "failed"}

\* A config packet of the gateway: on_config before _remember_gateway, for the
\* serial number in the TLV block c and then for e, which a ShineWeLink puts
\* before the block.
Announced(c, e, r, w, v1, v2) ==
    /\ Serial(c) \in {None, e} \/ e = None
    /\ SetConfig(c, r, w)
    /\ Remains(Remembered(Remembered(Now, c.kept, v1), e, v2))

\* The answer to a config read, of which the Wi-Fi signal, the addresses and the
\* versions become configs with the serial number of the gateway.
Readback(r, w) ==
    /\ SetConfig([kept |-> Own, vol |-> None, secret |-> FALSE], r, w)
    /\ Remains(Now)

\* Modbus data counts as data of the gateway only while no link is known.
TelemetryUnlinked(r, w) ==
    /\ link = None
    /\ Telemetry(r, w)
    /\ Remains(Now)

NextLink ==
    \/ RestartLink \/ KilledLink
    \/ \E c \in Packet, e \in Link, r \in ReadOutcome, w \in WriteOutcome,
          v1, v2 \in LinkOutcome : Announced(c, e, r, w, v1, v2)
    \/ \E r \in ReadOutcome, w \in WriteOutcome : Readback(r, w)
    \/ \E r \in ReadOutcome, w \in WriteOutcome : TelemetryUnlinked(r, w)

LinkSpec == InitLink /\ [][NextLink]_allVars

\* The gateway announces its inverter now and then while writes succeed, and the
\* process is started again.
FairLinkSpec ==
    /\ LinkSpec
    /\ WF_allVars(RestartLink)
    /\ SF_allVars(\E c \in Packet, e \in Endpoint, r \in ReadOutcome :
                     Announced(c, e, r, "done", "done", "done"))

-----------------------------------------------------------------------------
\* Types, of both clients.
TypeOKLink == TypeOK /\ link \in Link /\ unsaved \in BOOLEAN /\ file \in Link

\* A link that was saved is the one a restart finds, whatever config files, which
\* readbacks overwrite and where the loader looks first, say by then; a process knows
\* it at once, and refuses no command until the gateway announces its inverter again.
SavedLinkSurvives ==
    up /\ file # None => link # None /\ (~unsaved => file = link)

\* A link whose save failed is saved in the end, unless the process is gone.
LinkSaved == unsaved ~> ~unsaved
=============================================================================
