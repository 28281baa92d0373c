--------------------------- MODULE RegisterDebug ---------------------------
(***************************************************************************)
(* The register capture for reverse engineering                             *)
(* (grobro/grobro/register_debug.py), behind the parsers: every message and  *)
(* every 0x0103 packet of a device is compared with the values known so far, *)
(* whole blocks at a time where it can be, and what has changed is handed to  *)
(* the diagnostic writer, which may discard it (DiagnosticWriter).           *)
(***************************************************************************)
EXTENDS WireFormats

CONSTANTS
    Telegram,     \* bound: what arrives while registers are captured: formats and packets
    MaxRegister   \* REGISTER_DEBUG_MAX_REGISTER

ASSUME DebugAssumption ==
    MaxRegister \in Nat /\ Telegram \subseteq Formats \X Seq(0..255)

VARIABLES
    mode,      \* REGISTER_DEBUG and REGISTER_DEBUG_CHANGES_ONLY: "off", "all" or "changes"
    last,      \* _LAST_VALUES: from a space and a register to a value
    cached,    \* _LAST_BLOCK_VALUES: from a space, a start and an end to bytes
    pending,   \* the blocks of a message that are not captured yet
    records,   \* the values in the records of this capture
    filed,      \* the last value the file has of a register, none if one was discarded since
    reported,  \* the last value the device has sent
    missing    \* those whose last record was discarded

captureVars == <<last, cached, pending, records, filed, reported, missing>>
debugVars == <<wireVars, mode, captureVars>>

-----------------------------------------------------------------------------
NoValues == [k \in {} |-> 0]

\* The values of a block, of a function or of 0x0103
Values(space, b) ==
    [k \in {space} \X (b.start..b.end) |-> Word(b.values, 2 * (k[2] - b.start))]

\* The words of a 0x0103 packet, whose addresses are unknown
RawValues == [k \in {"raw"} \X (0..(Size \div 2) - 1) |-> Word(packet, 2 * k[2])]

Only(values, keys) == [k \in DOMAIN values \cap keys |-> values[k]]

\* The old values and the new ones, which replace those of the same keys
Updated(old, new) ==
    [k \in DOMAIN old \cup DOMAIN new |-> IF k \in DOMAIN new THEN new[k] ELSE old[k]]

Changed(values) ==
    {k \in DOMAIN values : mode = "all" \/ k \notin DOMAIN last \/ last[k] # values[k]}

\* _LAST_VALUES and the records, value by value
Compared(values) ==
    /\ last' = Updated(last, values)
    /\ records' = Updated(records, Only(values, Changed(values)))

InitDebug ==
    /\ InitWire /\ mode \in {"off", "all", "changes"}
    /\ last = NoValues /\ cached = NoValues /\ pending = <<>>
    /\ records = NoValues /\ filed = NoValues /\ reported = NoValues /\ missing = {}

-----------------------------------------------------------------------------
\* A packet of the device.  Only messages and acknowledgements have their length checked.
PacketArrives ==
    /\ \E t \in IF mode = "off" THEN Formats \X Packet ELSE Telegram :
          \E a \in IF t[1] \in Messages \cup {"ack"} THEN BOOLEAN ELSE {TRUE} :
             Arrives(t[1], t[2], a)
    /\ UNCHANGED <<mode, captureVars>>

ParserStep == Parses /\ UNCHANGED <<mode, captureVars>>

\* The packet is done with; the next one is awaited.
Forgets ==
    /\ stage' = "none" /\ format' = "none" /\ packet' = <<>>
    /\ agrees' = TRUE /\ offset' = 0 /\ found' = <<>>

\* Refused packets and those of other types are not captured.
Captures == mode # "off" /\ stage = "accepted" /\ format \in Messages \cup {"embedded"}

Ignored ==
    /\ stage \in {"accepted", "refused"} /\ ~Captures
    /\ Forgets
    /\ UNCHANGED <<mode, captureVars>>

\* capture_modbus_message: the blocks, one after the other
CaptureBegins ==
    /\ Captures /\ format \in Messages
    /\ stage' = "capture" /\ pending' = found
    /\ UNCHANGED <<format, packet, agrees, offset, found, mode, last, cached, records,
                   filed, reported, missing>>

Block0103 == IF found = <<>> THEN NoValues ELSE Values("0103", found[1])

\* capture_noah_0103: every word by its index, and the block by its registers
Capture0103 ==
    /\ Captures /\ format = "embedded"
    /\ LET block == Only(Block0103, {k \in DOMAIN Block0103 : k[2] <= MaxRegister})
           values == Updated(RawValues, block)
       IN Compared(values) /\ reported' = Updated(reported, values)
    /\ stage' = "capture"
    /\ UNCHANGED <<format, packet, agrees, offset, found, mode, cached, pending, filed,
                   missing>>

Key(b) == <<format, b.start, b.end>>

\* A mutant of Overlapping: other layouts of the same registers are kept.
OverlappingNone(b) == {}

\* Cached blocks of this function that share a register with b
Overlapping(b) ==
    {k \in DOMAIN cached : k[1] = format /\ k[2] <= b.end /\ b.start <= k[3]}

Same(b) == mode = "changes" /\ Key(b) \in DOMAIN cached /\ cached[Key(b)] = b.values

Captured(b) ==
    /\ cached' = IF mode = "changes"
                 THEN Updated(Only(cached, DOMAIN cached \ Overlapping(b)),
                              [k \in {Key(b)} |-> b.values])
                 ELSE cached
    /\ LET values == Values(format, b)
       IN Compared(Only(values, {k \in DOMAIN values : k[2] <= MaxRegister}))

\* _write_modbus_message, for one block
BlockCaptured ==
    /\ stage = "capture" /\ pending # <<>>
    /\ LET b == Head(pending)
       IN /\ IF Same(b) THEN UNCHANGED <<last, cached, records>> ELSE Captured(b)
          /\ reported' = Updated(reported, Values(format, b))
    /\ pending' = Tail(pending)
    /\ UNCHANGED <<wireVars, mode, filed, missing>>

\* _append_records: the writer has room or none.
RecordsWritten ==
    /\ stage = "capture" /\ pending = <<>>
    /\ \/ filed' = Updated(filed, records) /\ missing' = missing \ DOMAIN records
       \/ /\ filed' = Only(filed, DOMAIN filed \ DOMAIN records)
          /\ missing' = missing \cup DOMAIN records
    /\ records' = NoValues
    /\ Forgets
    /\ UNCHANGED <<mode, last, cached, pending, reported>>

NextDebug ==
    \/ PacketArrives \/ ParserStep \/ Ignored
    \/ CaptureBegins \/ Capture0103 \/ BlockCaptured \/ RecordsWritten

DebugSpec == InitDebug /\ [][NextDebug]_debugVars

-----------------------------------------------------------------------------
\* The file has the last value of every register the device has sent, though blocks
\* that look the same are skipped and layouts share registers: no change is missing but
\* those of a discarded capture (register_debug.py:95).
FileCurrent ==
    stage = "none" =>
        \A k \in DOMAIN reported : k[2] <= MaxRegister /\ k \notin missing =>
            k \in DOMAIN filed /\ filed[k] = reported[k]
=============================================================================
