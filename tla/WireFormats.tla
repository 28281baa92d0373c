---------------------------- MODULE WireFormats ----------------------------
(***************************************************************************)
(* How the lengths in a decoded packet are read: register blocks and write  *)
(* acknowledgements (grobro/model/modbus_message.py), config answers and    *)
(* device information (grobro/grobro/parser.py) and the register block      *)
(* hidden in a 0x0103 packet (grobro/grobro/noah_0103.py).  A packet is     *)
(* what follows the fixed header; each loop of a parser is an action that   *)
(* looks at one place of it.                                                *)
(***************************************************************************)
EXTENDS Integers, SequencesExt, FiniteSetsExt

CONSTANTS
    Packet,        \* byte sequences behind a header, the trailer included
    MetadataSize,  \* METADATA_SIZE
    MaxLength,     \* max_len of parse_config_type
    Parameters,    \* registers in _CONFIG_PARAM_NAMES, which are fields of DeviceConfig
    MaxCount       \* the largest embedded block

Trailer == 2  \* TRAILER_SIZE

ASSUME SizeAssumption == MetadataSize \in Nat /\ MaxLength \in Nat /\ MaxCount \in Nat
ASSUME ParameterAssumption == Parameters \subseteq Nat
ASSUME PacketAssumption == Packet \subseteq Seq(0..255)

VARIABLES
    format,    \* which parser reads
    packet,    \* what it reads
    agrees,    \* the length in the header is the one a message of that size has
    stage,     \* "none", "metadata", "walk", "accepted" or "refused"
    offset,    \* where it is
    found      \* the blocks, entries, fields, acknowledgement or command read so far

wireVars == <<format, packet, agrees, stage, offset, found>>

-----------------------------------------------------------------------------
Size == Len(packet)
Rest == Size - offset

\* s[from:to] and unpack_from(">H", s, at)
Slice(s, from, to) == SubSeq(s, from + 1, IF to < Len(s) THEN to ELSE Len(s))
Word(s, at) == 256 * s[at + 1] + s[at + 2]

\* Messages with blocks are answers of function 5 and reports of function 4, whose
\* blocks follow the metadata; a packet of 0x0103 hides one block.
Messages == {"blocks", "input"}
Formats == Messages \cup {"ack", "response", "config", "embedded"}

First == IF format = "input" THEN MetadataSize ELSE 0

InitWire ==
    /\ format = "none" /\ packet = <<>> /\ agrees = TRUE
    /\ stage = "none" /\ offset = 0 /\ found = <<>>

\* The parser gives back what it has found, or that it has found nothing.
Finishes(s) == stage' = s /\ UNCHANGED <<format, packet, agrees, offset>>
Refuses == Finishes("refused") /\ UNCHANGED found
Accepts(f) == Finishes("accepted") /\ found' = f
Judged(ok) == IF ok THEN Accepts(found) ELSE Refuses

\* An element of that size was read.
Advances(f, size) ==
    /\ found' = f
    /\ offset' = offset + size
    /\ UNCHANGED <<format, packet, agrees, stage>>

-----------------------------------------------------------------------------
(* find_config_offset and find_embedded_register_block: where to begin.     *)

\* Offset 0 stands for 0x1C, where the search begins.
ConfigOffset(p) ==
    LET plausible == {i \in 0..Len(p) - 5 : /\ Word(p, i) \in 1..999
                                            /\ Word(p, i + 2) \in 1..255}
    IN IF plausible = {} THEN 0 ELSE Min(plausible)

DataEnd == Size - Trailer

SearchStart(p) ==
    LET end == Len(p) - Trailer
        from == Max({0, end - 4 - 2 * MaxCount})
    IN from + ((end - from) % 2)

Starts(p, f) ==
    CASE f = "config" -> ConfigOffset(p)
      [] f = "embedded" -> SearchStart(p)
      [] OTHER -> 0

\* A packet with its type and function, and a length in its header
Arrives(f, p, a) ==
    /\ stage = "none"
    /\ format' = f /\ packet' = p /\ agrees' = a
    /\ offset' = Starts(p, f) /\ found' = <<>>
    /\ stage' = IF f = "input" THEN "metadata" ELSE "walk"

-----------------------------------------------------------------------------
(* GrowattModbusMessage.parse_grobro.                                       *)

\* METADATA_SIZE bytes before the blocks of an input report
MetadataRead ==
    /\ stage = "metadata"
    /\ IF agrees /\ Size >= MetadataSize
       THEN /\ stage' = "walk" /\ offset' = MetadataSize
            /\ UNCHANGED <<format, packet, agrees, found>>
       ELSE Refuses

Registers(p, at) == Word(p, at + 2) - Word(p, at) + 1

BlockSize(p, at) == 4 + 2 * Registers(p, at)

\* GrowattModbusBlock.parse_grobro
Fits(p, at) == Registers(p, at) > 0 /\ at + BlockSize(p, at) <= Len(p)

Block(p, at) ==
    [at |-> at, start |-> Word(p, at), end |-> Word(p, at + 2),
     values |-> Slice(p, at + 4, at + BlockSize(p, at))]

WalksBlocks == stage = "walk" /\ format \in Messages

\* A mutant of MinBlockSize: a block has two registers at least.
MinBlockSizeTwo == 8

MinBlockSize == 6

BlockRead ==
    /\ WalksBlocks /\ agrees /\ Rest >= MinBlockSize
    /\ IF Fits(packet, offset)
       THEN Advances(Append(found, Block(packet, offset)), BlockSize(packet, offset))
       ELSE Refuses

BlocksEnd ==
    /\ WalksBlocks
    /\ \/ ~agrees /\ Refuses
       \/ agrees /\ Rest < MinBlockSize /\ Judged(Rest \in {0, Trailer})

\* WRITE_SINGLE_ACK: register, status, value
AckRead ==
    /\ stage = "walk" /\ format = "ack"
    /\ IF agrees /\ Size \in {5, 5 + Trailer}
       THEN Accepts(<<[register |-> Word(packet, 0), status |-> packet[3],
                       value |-> Word(packet, 3)]>>)
       ELSE Refuses

\* get_data: position of a value inside the block that holds its register
Holds(b, register) == b.start <= register /\ register <= b.end

\* A mutant of Within: a value may be cut off where the block ends.
CutOff(b, from, size) ==
    IF from > Len(b.values) THEN <<>> ELSE Slice(b.values, from, from + size)

Within(b, from, size) ==
    IF from + size > Len(b.values) THEN <<>> ELSE Slice(b.values, from, from + size)

\* The first block with the register decides; << >> is None.
GetData(blocks, register, shift, size) ==
    LET i == SelectInSeq(blocks, LAMBDA b : Holds(b, register))
    IN IF i = 0 THEN <<>>
       ELSE Within(blocks[i], 2 * (register - blocks[i].start) + shift, size)

-----------------------------------------------------------------------------
(* parse_config_message and parse_config_type.                              *)

WalksEntries == stage = "walk" /\ format \in {"response", "config"}

\* A mutant of EntriesEnd: the trailer of an answer is read too.
EntriesEndLate == Size

\* Device information has no trailer to leave out.
EntriesEnd == IF format = "response" THEN Size - Trailer ELSE Size

EntrySize(p, at) == 4 + Word(p, at + 2)

\* A whole entry, not empty and no longer than the parser allows
EntryFits(p, at, end) ==
    /\ at + 4 <= end
    /\ Word(p, at + 2) > 0
    /\ format = "config" => Word(p, at + 2) <= MaxLength
    /\ at + EntrySize(p, at) <= end

Entry(p, at) ==
    [at |-> at, register |-> Word(p, at), value |-> Slice(p, at + 4, at + EntrySize(p, at))]

\* The shortest answer has a register, a length or a reserved word, and the trailer.
LongEnough == format = "response" => Size >= 4 + Trailer

\* A mutant of Assigned: the first entry of a register stays.
AssignedOnce(fields, e) ==
    [k \in DOMAIN fields \cup {e.register} |->
        IF k \in DOMAIN fields THEN fields[k] ELSE e.value]

\* Device information is a value for each register, the last one that was sent.
Assigned(fields, e) ==
    [k \in DOMAIN fields \cup {e.register} |-> IF k = e.register THEN e.value ELSE fields[k]]

EntryRead ==
    /\ WalksEntries /\ LongEnough /\ EntryFits(packet, offset, EntriesEnd)
    /\ LET e == Entry(packet, offset)
       IN Advances(IF format = "response" THEN Append(found, e) ELSE Assigned(found, e),
                   EntrySize(packet, offset))

\* The field raw, which is no register's
Raw == -1

\* Without one entry, an answer has the historic layout.
Answer ==
    IF found = <<>>
    THEN <<[at |-> 0, register |-> Word(packet, 0), value |-> Slice(packet, 4, Size - Trailer)]>>
    ELSE found

\* Without one entry, device information is raw; DeviceConfig has no other registers.
Information ==
    IF found = <<>> THEN [k \in {Raw} |-> Slice(packet, offset, Size)]
    ELSE Restrict(found, DOMAIN found \cap Parameters)

WalkEnds ==
    /\ WalksEntries
    /\ \/ ~LongEnough /\ Refuses
       \/ /\ LongEnough /\ ~EntryFits(packet, offset, EntriesEnd)
          /\ Accepts(IF format = "response" THEN Answer ELSE Information)

-----------------------------------------------------------------------------
(* find_embedded_register_block, with the best candidate in found.          *)

Searches == stage = "walk" /\ format = "embedded"
InReach == Size >= 6 + Trailer /\ offset < DataEnd - 5

ExactFit(p, at, end) ==
    /\ Registers(p, at) \in 1..MaxCount
    /\ at + BlockSize(p, at) = end

\* A mutant of Better: a later candidate replaces one found.
BetterLater(at) == TRUE

Better(at) == found = <<>> \/ Registers(packet, at) > Registers(packet, found[1].at)

CandidateTried ==
    /\ Searches /\ InReach
    /\ offset' = offset + 2
    /\ found' = IF ExactFit(packet, offset, DataEnd) /\ Better(offset)
                THEN <<Block(packet, offset)>> ELSE found
    /\ UNCHANGED <<format, packet, agrees, stage>>

SearchEnds == Searches /\ ~InReach /\ Accepts(found)

Parses ==
    \/ MetadataRead \/ BlockRead \/ BlocksEnd \/ AckRead
    \/ EntryRead \/ WalkEnds \/ CandidateTried \/ SearchEnds

-----------------------------------------------------------------------------
(* Properties.                                                             *)

\* Types.
WireTypeOK ==
    /\ format \in Formats \cup {"none"} /\ packet \in Seq(0..255)
    /\ agrees \in BOOLEAN /\ offset \in Nat
    /\ stage \in {"none", "metadata", "walk", "accepted", "refused", "capture"}

\* Whole elements of the sizes that length gives lie side by side between two places.
Tiled(length, from, to) ==
    LET tiled[i \in 0..to] ==
            \/ i = to
            \/ i + 4 <= to /\ length[i] > 4 /\ i + length[i] <= to /\ tiled[i + length[i]]
    IN from <= to /\ tiled[from]

\* build_grobro
WordBytes(w) == <<w \div 256, w % 256>>
Built(b) == WordBytes(b.start) \o WordBytes(b.end) \o b.values
EntryBuilt(e) == WordBytes(e.register) \o WordBytes(Len(e.value)) \o e.value

\* A message is accepted exactly if blocks and at most a trailer fill it, also with a
\* single register in the last block, and its blocks rebuild it: no register is read at
\* an offset it does not have (modbus_message.py:60, :319).
BlocksExact ==
    stage \in {"accepted", "refused"} /\ format \in Messages =>
        LET length == [i \in 0..Size - 4 |-> BlockSize(packet, i)]
            built == FlattenSeq([i \in DOMAIN found |-> Built(found[i])])
        IN /\ (stage = "accepted") =
                 /\ agrees
                 /\ \E to \in {Size, Size - Trailer} : Tiled(length, First, to)
           /\ stage = "accepted" =>
                 \E to \in {Size, Size - Trailer} : built = Slice(packet, First, to)

\* A value has all its bytes, from registers next to each other in one block, or there
\* is none: not a byte of another block, and no shorter number (modbus_message.py:234).
ValueExact(register, shift, size) ==
    LET data == GetData(found, register, shift, size)
        with == {i \in DOMAIN found : register \in found[i].start..found[i].end}
        octets(b) == SubSeq(packet, b.at + 5 + 2 * (register - b.start),
                            b.at + 4 + 2 * (b.end - b.start + 1))
    IN IF with = {} THEN data = <<>>
       ELSE LET all == octets(found[Min(with)])
            IN data = IF Len(all) >= shift + size
                      THEN SubSeq(all, shift + 1, shift + size) ELSE <<>>

\* Each value of up to four bytes is exact, also one that begins in a register's second
\* byte, or in no register that was sent (modbus_message.py:234).
DataExact ==
    stage = "accepted" /\ format \in Messages =>
        \A register \in 0..3, shift \in 0..2, size \in 1..4 :
            ValueExact(register, shift, size)

\* The sizes of the entries at the places of a packet, 0 where none can be
EntryLengths ==
    [i \in 0..Size - 4 |->
        IF format = "config" /\ EntrySize(packet, i) > 4 + MaxLength
        THEN 0 ELSE EntrySize(packet, i)]

\* The entries of an answer follow each other from its beginning on and none takes the
\* trailer for its value; nothing is lost of an answer of nothing but entries
\* (parser.py:128).
AnswersExact ==
    stage = "accepted" /\ format = "response" =>
        LET end == Size - Trailer
            built == FlattenSeq([i \in DOMAIN found |-> EntryBuilt(found[i])])
        IN /\ offset > 0 => offset <= end /\ built = Slice(packet, 0, offset)
           /\ Tiled(EntryLengths, 0, end) /\ 0 < end => built = Slice(packet, 0, end)

\* Where the whole entries of device information begin that follow each other from
\* where it begins
Places ==
    {i \in DOMAIN EntryLengths : /\ Tiled(EntryLengths, ConfigOffset(packet), i)
                                 /\ EntryLengths[i] > 4 /\ i + EntryLengths[i] <= Size}

\* Device information has each known register that one of its entries is for, with the
\* value of the last of them; others are dropped, and it is raw only without any entry
\* (parser.py:65, :83, :87).
FieldsExact ==
    stage = "accepted" /\ format = "config" =>
        IF Places = {}
        THEN found = [k \in {Raw} |-> Slice(packet, ConfigOffset(packet), Size)]
        ELSE /\ DOMAIN found = {Word(packet, i) : i \in Places} \cap Parameters
             /\ \A k \in DOMAIN found :
                    found[k] = Entry(packet, Max({i \in Places : Word(packet, i) = k})).value

\* Every entry of an answer and every field of device information is the one sent.
EntriesExact == AnswersExact /\ FieldsExact

\* The block taken out of a 0x0103 packet is the longest of all that end exactly at its
\* trailer, though only every other place is tried (noah_0103.py:48).
EmbeddedExact ==
    stage = "accepted" /\ format = "embedded" =>
        LET exact == {i \in 0..DataEnd - 6 : ExactFit(packet, i, DataEnd)}
        IN IF exact = {} THEN found = <<>>
           ELSE found = <<Block(packet, Min(exact))>>

\* Every register that is handed on has the bytes the packet has for it, in a message,
\* in a value taken out of a block and in the block of a 0x0103 packet.
RegistersExact == BlocksExact /\ DataExact /\ EmbeddedExact
=============================================================================
