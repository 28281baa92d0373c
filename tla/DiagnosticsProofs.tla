------------------------- MODULE DiagnosticsProofs -------------------------
(***************************************************************************)
(* Proofs about Diagnostics, for any packets, texts and limits.  Elements of  *)
(* a packet lie side by side from the first place on (Laid, EntriesLaid), so   *)
(* that they tile it and rebuild it.  The file has the last value of each       *)
(* register because a capture compares with values that it hands on, or that   *)
(* the file has already or is known to miss (OnFile), and because bytes that   *)
(* are kept of a block are those of its registers (BytesKept), which other     *)
(* layouts of these registers take away.  The writer's thread is awake while   *)
(* a text waits (ThreadInv), and what it writes is sound for the disk line by   *)
(* line (Sound, FilesInv).                                                  *)
(***************************************************************************)
EXTENDS Diagnostics, SequenceTheorems, WellFoundedInduction, TLAPS

-----------------------------------------------------------------------------
(* Blocks.                                                                 *)

Blocks == [at : Nat, start : Int, end : Int, values : Seq(0..255)]

\* The place behind the n-th block, or the first place of all
Behind(n) == IF n = 0 THEN First ELSE found[n].at + BlockSize(packet, found[n].at)

Laid ==
    \A i \in 1..Len(found) :
        /\ found[i].at = Behind(i - 1)
        /\ Fits(packet, found[i].at)
        /\ found[i] = Block(packet, found[i].at)

MessageRead ==
    format \in Messages =>
        /\ packet \in Seq(0..255) /\ offset \in Nat /\ found \in Seq(Blocks)
        /\ stage = "metadata" => format = "input" /\ found = <<>>
        /\ Laid
        /\ stage \notin {"metadata", "refused"} => offset = Behind(Len(found))
        /\ stage \in {"accepted", "capture"} =>
              agrees /\ Behind(Len(found)) \in {Size, Size - Trailer}

-----------------------------------------------------------------------------
(* Captures.                                                               *)

Capturing ==
    /\ stage = "capture" => format \in Messages \cup {"embedded"}
    /\ pending \in Seq(Blocks)
    /\ pending # <<>> => format \in Messages
    /\ stage # "capture" => pending = <<>> /\ DOMAIN records = {}

\* The values compared with are those sent last.
LastSent ==
    \A k \in DOMAIN reported :
        k[2] <= MaxRegister => k \in DOMAIN last /\ last[k] = reported[k]

BytesKept ==
    /\ mode # "changes" => DOMAIN cached = {}
    /\ \A c \in DOMAIN cached :
          /\ c \in Messages \X Int \X Int
          /\ \A r \in c[2]..c[3] :
                r <= MaxRegister =>
                    /\ <<c[1], r>> \in DOMAIN last
                    /\ last[<<c[1], r>>] = Word(cached[c], 2 * (r - c[2]))

OnFile ==
    /\ \A k \in DOMAIN records : k \in DOMAIN last /\ records[k] = last[k]
    /\ \A k \in DOMAIN last \ DOMAIN records :
          k \in missing \/ (k \in DOMAIN filed /\ filed[k] = last[k])

IInv == MessageRead /\ Capturing /\ LastSent /\ BytesKept /\ OnFile

-----------------------------------------------------------------------------
(* Places in a packet.                                                     *)

LEMMA WordIsNat ==
    ASSUME NEW p \in Seq(0..255), NEW at \in Nat, at + 2 <= Len(p)
    PROVE  Word(p, at) \in Nat
<1>1. at + 1 \in 1..Len(p) /\ at + 2 \in 1..Len(p)
  BY LenProperties
<1>2. p[at + 1] \in 0..255 /\ p[at + 2] \in 0..255
  BY <1>1, ElementOfSeq
<1>3. \A x, y \in 0..255 : 256 * x + y \in Nat
  OBVIOUS
<1> QED
  BY <1>2, <1>3 DEF Word

\* A block that fits has as many registers as its size says.
LEMMA BlockTyped ==
    ASSUME NEW p \in Seq(0..255), NEW at \in Nat, at + MinBlockSize <= Len(p), Fits(p, at)
    PROVE  /\ Block(p, at) \in Blocks /\ Block(p, at).at = at
           /\ Registers(p, at) \in Nat /\ BlockSize(p, at) \in Nat
           /\ BlockSize(p, at) >= MinBlockSize
<1>1. Word(p, at) \in Nat /\ Word(p, at + 2) \in Nat
  BY WordIsNat DEF MinBlockSize
<1>2. /\ Registers(p, at) \in Int /\ Registers(p, at) > 0
      /\ BlockSize(p, at) = 4 + 2 * Registers(p, at)
  BY <1>1 DEF Registers, Fits, BlockSize
<1>3. Registers(p, at) \in Nat /\ BlockSize(p, at) \in Nat
      /\ BlockSize(p, at) >= MinBlockSize
  BY <1>2 DEF MinBlockSize
<1>4. \A i \in 1..Len(p) : p[i] \in 0..255
  BY ElementOfSeq
<1>5. at + BlockSize(p, at) <= Len(p)
  BY DEF Fits
<1>6. Slice(p, at + 4, at + BlockSize(p, at)) \in Seq(0..255)
  <2> DEFINE to == IF at + BlockSize(p, at) < Len(p) THEN at + BlockSize(p, at) ELSE Len(p)
  <2>1. to \in Nat /\ to <= Len(p)
    BY <1>3, <1>5, LenProperties
  <2>2. \A i \in (at + 4 + 1)..to : p[i] \in 0..255
    BY <1>4, <2>1
  <2>3. SubSeq(p, at + 4 + 1, to) \in Seq(0..255)
    BY <2>1, <2>2, SubSeqProperties
  <2> QED
    BY <2>3 DEF Slice
<1> QED
  BY <1>1, <1>3, <1>6 DEF Block, Blocks

-----------------------------------------------------------------------------
(* Reading a message.                                                      *)

\* What no parser of a message does
OtherParses == AckRead \/ EntryRead \/ WalkEnds \/ CandidateTried \/ SearchEnds

LEMMA OthersKeepFormat ==
    ASSUME OtherParses PROVE format \notin Messages /\ format' = format
BY DEF OtherParses, AckRead, EntryRead, WalkEnds, CandidateTried, SearchEnds, WalksEntries,
       Searches, Messages, Accepts, Refuses, Finishes, Advances

\* The parsers neither begin nor end a capture.
LEMMA ParsersCaptureNothing ==
    ASSUME Parses PROVE stage # "capture" /\ stage' # "capture"
BY DEF Parses, MetadataRead, BlockRead, BlocksEnd, AckRead, EntryRead, WalkEnds, CandidateTried,
       SearchEnds, WalksBlocks, WalksEntries, Searches, Accepts, Refuses, Finishes, Judged,
       Advances

LEMMA PlaceIsNat ==
    ASSUME MessageRead, format \in Messages
    PROVE  First \in Nat /\ Size \in Nat
BY SizeAssumption, LenProperties DEF MessageRead, First, Size

LEMMA BlockReadKeeps ==
    ASSUME MessageRead, BlockRead PROVE MessageRead'
<1> SUFFICES ASSUME format \in Messages
             PROVE  MessageRead'
  BY DEF MessageRead, BlockRead, WalksBlocks
<1> USE DEF BlockRead, WalksBlocks
<1>0. /\ packet \in Seq(0..255) /\ offset \in Nat /\ found \in Seq(Blocks)
      /\ Laid /\ stage = "walk" /\ offset = Behind(Len(found))
  BY DEF MessageRead
<1>1. CASE Fits(packet, offset)
  <2>1. offset + MinBlockSize <= Len(packet)
    BY <1>0, LenProperties DEF Rest, Size, MinBlockSize
  <2> DEFINE b == Block(packet, offset)
  <2>2. /\ b \in Blocks /\ b.at = offset
        /\ BlockSize(packet, offset) \in Nat
    BY <1>0, <1>1, <2>1, BlockTyped
  <2>3. /\ found' = Append(found, b)
        /\ offset' = offset + BlockSize(packet, offset)
        /\ UNCHANGED <<format, packet, agrees, stage>>
    BY <1>1 DEF Advances
  <2>4. \A i \in 1..Len(found) : found[i].at = Behind(i - 1) /\ Fits(packet, found[i].at)
                                  /\ found[i] = Block(packet, found[i].at)
    BY <1>0 DEF Laid
  <2> HIDE DEF b
  <2>5. /\ found' \in Seq(Blocks) /\ Len(found') = Len(found) + 1
        /\ found'[Len(found) + 1] = b
        /\ \A i \in 1..Len(found) : found'[i] = found[i]
    BY <1>0, <2>2, <2>3, AppendProperties
  <2>6. \A n \in 0..Len(found) : Behind(n)' = Behind(n)
    BY <2>3, <2>5 DEF Behind, First
  <2>7. Laid'
    <3> SUFFICES ASSUME NEW i \in 1..Len(found')
                 PROVE  /\ found'[i].at = Behind(i - 1)'
                        /\ Fits(packet', found'[i].at)
                        /\ found'[i] = Block(packet', found'[i].at)
      BY DEF Laid
    <3>1. Len(found) \in Nat /\ Len(found') \in Nat
      BY <1>0, <2>5, LenProperties
    <3>2. CASE i \in 1..Len(found)
      <4>1. i - 1 \in 0..Len(found)
        BY <3>1, <3>2
      <4> QED
        BY <3>2, <4>1, <2>3, <2>4, <2>5, <2>6
    <3>3. CASE i = Len(found) + 1
      <4>1. i - 1 = Len(found) /\ i - 1 \in 0..Len(found)
        BY <3>1, <3>3
      <4>2. Behind(i - 1)' = offset
        BY <1>0, <2>6, <4>1
      <4>3. found'[i] = b
        BY <3>3, <2>5
      <4> QED
        BY <1>1, <2>2, <2>3, <4>2, <4>3 DEF b
    <3> QED
      BY <3>1, <3>2, <3>3, <2>5
  <2>8. Behind(Len(found))' = offset'
    <3>1. Len(found') # 0 /\ found'[Len(found')] = b
      BY <1>0, <2>5, LenProperties
    <3> QED
      BY <3>1, <2>2, <2>3 DEF Behind
  <2> QED
    BY <1>0, <2>2, <2>3, <2>5, <2>7, <2>8 DEF MessageRead
<1>2. CASE ~Fits(packet, offset)
  <2>1. stage' = "refused" /\ UNCHANGED <<format, packet, agrees, offset, found>>
    BY <1>2 DEF Refuses, Finishes
  <2> QED
    BY <2>1, <1>0 DEF MessageRead, Laid, Behind, First, Size
<1> QED
  BY <1>1, <1>2

LEMMA BlocksEndKeeps ==
    ASSUME MessageRead, BlocksEnd PROVE MessageRead'
<1>1. /\ format \in Messages => stage = "walk"
      /\ stage' \in {"accepted", "refused"}
      /\ UNCHANGED <<format, packet, agrees, offset, found>>
      /\ stage' = "accepted" => agrees /\ Rest \in {0, Trailer}
  BY DEF BlocksEnd, WalksBlocks, Judged, Refuses, Accepts, Finishes
<1>2. Laid' = Laid /\ Behind(Len(found))' = Behind(Len(found))
  BY <1>1 DEF Laid, Behind, First
<1>3. ASSUME format \in Messages, stage' = "accepted"
      PROVE  Behind(Len(found)) \in {Size, Size - Trailer}
  BY <1>1, <1>3, PlaceIsNat DEF MessageRead, Rest, Trailer
<1> QED
  BY <1>1, <1>2, <1>3 DEF MessageRead, Size

LEMMA MetadataReadKeeps ==
    ASSUME MessageRead, MetadataRead PROVE MessageRead'
<1> SUFFICES ASSUME format \in Messages
             PROVE  MessageRead'
  BY DEF MessageRead, MetadataRead, Refuses, Finishes
<1>1. /\ UNCHANGED <<format, packet, agrees, found>>
      /\ stage = "metadata"
      /\ \/ stage' = "refused" /\ offset' = offset
         \/ stage' = "walk" /\ offset' = MetadataSize
  BY DEF MetadataRead, Refuses, Finishes
<1>2. format = "input" /\ found = <<>>
  BY <1>1 DEF MessageRead
<1>3. Laid' /\ Behind(Len(found))' = MetadataSize
  BY <1>1, <1>2 DEF Laid, Behind, First
<1> QED
  BY <1>1, <1>2, <1>3, SizeAssumption DEF MessageRead

LEMMA PacketArrivesKeeps ==
    ASSUME PacketArrives PROVE MessageRead'
<1>1. PICK f \in Formats, p \in Seq(0..255), a \in BOOLEAN : Arrives(f, p, a)
  <2>1. PICK t \in IF mode = "off" THEN Formats \X Packet ELSE Telegram :
                \E a \in IF t[1] \in Messages \cup {"ack"} THEN BOOLEAN ELSE {TRUE} :
                   Arrives(t[1], t[2], a)
    BY DEF PacketArrives
  <2>2. t[1] \in Formats /\ t[2] \in Seq(0..255)
    BY PacketAssumption, DebugAssumption
  <2>3. PICK a \in BOOLEAN : Arrives(t[1], t[2], a)
    BY <2>1
  <2> QED
    BY <2>2, <2>3
<1> SUFFICES ASSUME f \in Messages
             PROVE  MessageRead'
  BY <1>1 DEF MessageRead, Arrives
<1>2. /\ format' = f /\ packet' = p /\ offset' = 0 /\ found' = <<>>
      /\ stage' = IF f = "input" THEN "metadata" ELSE "walk"
  BY <1>1 DEF Arrives, Starts, Messages
<1>3. Laid' /\ Behind(Len(found))' = First'
  BY <1>2 DEF Laid, Behind
<1>4. stage' = "walk" => First' = 0
  BY <1>2 DEF First
<1> QED
  BY <1>2, <1>3, <1>4 DEF MessageRead

LEMMA MessageStep ==
    ASSUME MessageRead, NextDebug PROVE MessageRead'
<1> USE DEF NextDebug
<1>1. CASE PacketArrives
  BY <1>1, PacketArrivesKeeps
<1>2. CASE ParserStep
  <2>1. CASE MetadataRead
    BY <2>1, MetadataReadKeeps
  <2>2. CASE BlockRead
    BY <2>2, BlockReadKeeps
  <2>3. CASE BlocksEnd
    BY <2>3, BlocksEndKeeps
  <2>4. CASE OtherParses
    BY <2>4, OthersKeepFormat DEF MessageRead
  <2> QED
    BY <1>2, <2>1, <2>2, <2>3, <2>4 DEF ParserStep, Parses, OtherParses
<1>3. CASE Ignored \/ RecordsWritten
  <2>1. format' = "none"
    BY <1>3 DEF Ignored, RecordsWritten, Forgets
  <2> QED
    BY <2>1 DEF MessageRead, Messages
<1>4. CASE CaptureBegins
  <2>1. /\ UNCHANGED <<format, packet, agrees, offset, found>>
        /\ stage = "accepted" /\ stage' = "capture"
    BY <1>4 DEF CaptureBegins, Captures
  <2>2. Laid' = Laid /\ Behind(Len(found))' = Behind(Len(found))
    BY <2>1 DEF Laid, Behind, First
  <2> QED
    BY <2>1, <2>2 DEF MessageRead, Size
<1>5. CASE Capture0103
  BY <1>5 DEF Capture0103, MessageRead, Messages
<1>6. CASE BlockCaptured
  <2>1. UNCHANGED wireVars
    BY <1>6 DEF BlockCaptured
  <2> QED
    BY <2>1 DEF wireVars, MessageRead, Laid, Behind, First, Size
<1> QED
  BY <1>1, <1>2, <1>3, <1>4, <1>5, <1>6

-----------------------------------------------------------------------------
(* Capturing.                                                              *)

LEMMA UpdatedIs ==
    ASSUME NEW old, NEW new
    PROVE  /\ DOMAIN Updated(old, new) = DOMAIN old \cup DOMAIN new
           /\ \A k \in DOMAIN new : Updated(old, new)[k] = new[k]
           /\ \A k \in DOMAIN old \ DOMAIN new : Updated(old, new)[k] = old[k]
BY DEF Updated

LEMMA OnlyIs ==
    ASSUME NEW values, NEW keys
    PROVE  /\ DOMAIN Only(values, keys) = DOMAIN values \cap keys
           /\ \A k \in DOMAIN values \cap keys : Only(values, keys)[k] = values[k]
BY DEF Only

LEMMA ValuesAre ==
    ASSUME NEW space, NEW b
    PROVE  /\ DOMAIN Values(space, b) = {space} \X (b.start..b.end)
           /\ \A k \in {space} \X (b.start..b.end) :
                 Values(space, b)[k] = Word(b.values, 2 * (k[2] - b.start))
BY DEF Values

\* What has been compared is known, and is in a record or was known already.
LEMMA ComparedKeeps ==
    ASSUME OnFile, NEW values, Compared(values), UNCHANGED <<filed, missing>>
    PROVE  /\ OnFile'
           /\ DOMAIN last' = DOMAIN last \cup DOMAIN values
           /\ \A k \in DOMAIN values : last'[k] = values[k]
           /\ \A k \in DOMAIN last \ DOMAIN values : last'[k] = last[k]
<1> DEFINE changed == Only(values, Changed(values))
<1>1. /\ DOMAIN last' = DOMAIN last \cup DOMAIN values
      /\ \A k \in DOMAIN values : last'[k] = values[k]
      /\ \A k \in DOMAIN last \ DOMAIN values : last'[k] = last[k]
  <2>1. last' = Updated(last, values)
    BY DEF Compared
  <2>2. /\ DOMAIN Updated(last, values) = DOMAIN last \cup DOMAIN values
        /\ \A k \in DOMAIN values : Updated(last, values)[k] = values[k]
        /\ \A k \in DOMAIN last \ DOMAIN values : Updated(last, values)[k] = last[k]
    BY UpdatedIs
  <2> QED
    BY <2>1, <2>2
<1>2. /\ DOMAIN changed = Changed(values) /\ Changed(values) \subseteq DOMAIN values
      /\ \A k \in Changed(values) : changed[k] = values[k]
  <2>1. Changed(values) \subseteq DOMAIN values
    BY DEF Changed
  <2>2. /\ DOMAIN changed = DOMAIN values \cap Changed(values)
        /\ \A k \in DOMAIN values \cap Changed(values) : changed[k] = values[k]
    BY OnlyIs
  <2> QED
    BY <2>1, <2>2
<1>3. /\ DOMAIN records' = DOMAIN records \cup Changed(values)
      /\ \A k \in Changed(values) : records'[k] = values[k]
      /\ \A k \in DOMAIN records \ Changed(values) : records'[k] = records[k]
  <2>1. records' = Updated(records, changed)
    BY DEF Compared
  <2> HIDE DEF changed
  <2>2. /\ DOMAIN Updated(records, changed) = DOMAIN records \cup DOMAIN changed
        /\ \A k \in DOMAIN changed : Updated(records, changed)[k] = changed[k]
        /\ \A k \in DOMAIN records \ DOMAIN changed :
              Updated(records, changed)[k] = records[k]
    BY UpdatedIs
  <2> QED
    BY <1>2, <2>1, <2>2
<1>4. \A k \in DOMAIN values \ Changed(values) : k \in DOMAIN last /\ last[k] = values[k]
  BY DEF Changed
<1>5. \A k \in DOMAIN last' :
          k \notin Changed(values) => k \in DOMAIN last /\ last'[k] = last[k]
  BY <1>1, <1>4
<1>6. \A k \in DOMAIN records' : k \in DOMAIN last' /\ records'[k] = last'[k]
  <2> SUFFICES ASSUME NEW k \in DOMAIN records'
               PROVE  k \in DOMAIN last' /\ records'[k] = last'[k]
    OBVIOUS
  <2>1. CASE k \in Changed(values)
    BY <1>1, <1>2, <1>3, <2>1
  <2>2. CASE k \notin Changed(values)
    BY <1>1, <1>3, <1>5, <2>2 DEF OnFile
  <2> QED
    BY <2>1, <2>2
<1>7. \A k \in DOMAIN last' \ DOMAIN records' :
          k \in missing' \/ (k \in DOMAIN filed' /\ filed'[k] = last'[k])
  BY <1>3, <1>5 DEF OnFile
<1> QED
  BY <1>1, <1>6, <1>7 DEF OnFile

\* Values sent are known if they were known or are compared now.
LEMMA LastSentKeeps ==
    ASSUME LastSent, NEW values,
           reported' = Updated(reported, values),
           \A k \in DOMAIN last : k \notin DOMAIN values =>
              k \in DOMAIN last' /\ last'[k] = last[k],
           \A k \in DOMAIN values : k[2] <= MaxRegister =>
              k \in DOMAIN last' /\ last'[k] = values[k]
    PROVE  LastSent'
<1>1. /\ DOMAIN reported' = DOMAIN reported \cup DOMAIN values
      /\ \A k \in DOMAIN values : reported'[k] = values[k]
      /\ \A k \in DOMAIN reported \ DOMAIN values : reported'[k] = reported[k]
  <2>1. /\ DOMAIN Updated(reported, values) = DOMAIN reported \cup DOMAIN values
        /\ \A k \in DOMAIN values : Updated(reported, values)[k] = values[k]
        /\ \A k \in DOMAIN reported \ DOMAIN values : Updated(reported, values)[k] = reported[k]
    BY UpdatedIs
  <2> QED
    BY <2>1
<1> SUFFICES ASSUME NEW k \in DOMAIN reported', k[2] <= MaxRegister
             PROVE  k \in DOMAIN last' /\ last'[k] = reported'[k]
  BY DEF LastSent
<1>2. CASE k \in DOMAIN values
  BY <1>1, <1>2
<1>3. CASE k \notin DOMAIN values
  BY <1>1, <1>3 DEF LastSent
<1> QED
  BY <1>2, <1>3

\* A 0x0103 packet has registers of its own.
LEMMA Capture0103Keeps ==
    ASSUME LastSent, BytesKept, OnFile, Capture0103
    PROVE  LastSent' /\ BytesKept' /\ OnFile'
<1> DEFINE block == Only(Block0103, {k \in DOMAIN Block0103 : k[2] <= MaxRegister})
           values == Updated(RawValues, block)
<1>1. /\ Compared(values) /\ reported' = Updated(reported, values)
      /\ UNCHANGED <<mode, cached, filed, missing>>
  BY DEF Capture0103
<1>2. \A k \in DOMAIN values : k[1] \notin Messages
  <2>1. DOMAIN values = DOMAIN RawValues \cup DOMAIN block
    BY UpdatedIs
  <2>2. \A k \in DOMAIN RawValues : k[1] = "raw"
    BY DEF RawValues
  <2>3. DOMAIN block \subseteq DOMAIN Block0103
    BY OnlyIs
  <2>4. \A k \in DOMAIN Block0103 : k[1] = "0103"
    <3>1. CASE found = <<>>
      BY <3>1 DEF Block0103, NoValues
    <3>2. CASE found # <<>>
      <4>1. DOMAIN Block0103 = {"0103"} \X (found[1].start..found[1].end)
        BY <3>2, ValuesAre DEF Block0103
      <4> QED
        BY <4>1
    <3> QED
      BY <3>1, <3>2
  <2> QED
    BY <2>1, <2>2, <2>3, <2>4 DEF Messages
<1> HIDE DEF values
<1>3. /\ OnFile'
      /\ DOMAIN last' = DOMAIN last \cup DOMAIN values
      /\ \A k \in DOMAIN values : last'[k] = values[k]
      /\ \A k \in DOMAIN last \ DOMAIN values : last'[k] = last[k]
  BY <1>1, ComparedKeeps
<1>4. LastSent'
  BY <1>1, <1>3, LastSentKeeps
<1>5. BytesKept'
  <2>1. ASSUME NEW c \in DOMAIN cached', NEW r \in c[2]..c[3], r <= MaxRegister
        PROVE  /\ <<c[1], r>> \in DOMAIN last'
               /\ last'[<<c[1], r>>] = Word(cached'[c], 2 * (r - c[2]))
    <3>1. c[1] \in Messages
      BY <1>1, <2>1 DEF BytesKept
    <3>2. <<c[1], r>> \notin DOMAIN values
      BY <1>2, <3>1
    <3> QED
      BY <1>1, <1>3, <2>1, <3>2 DEF BytesKept
  <2> QED
    BY <1>1, <2>1 DEF BytesKept
<1> QED
  BY <1>3, <1>4, <1>5

\* A block that looks the same has values that are known.
LEMMA SameKeeps ==
    ASSUME LastSent, BytesKept, NEW b \in Blocks, Same(b),
           reported' = Updated(reported, Values(format, b)), last' = last
    PROVE  LastSent'
<1> DEFINE values == Values(format, b)
<1>1. DOMAIN values = {format} \X (b.start..b.end)
  BY ValuesAre
<1>2. /\ Key(b) \in DOMAIN cached /\ cached[Key(b)] = b.values
      /\ Key(b)[1] = format /\ Key(b)[2] = b.start /\ Key(b)[3] = b.end
  BY DEF Same, Key
<1>3. ASSUME NEW k \in DOMAIN values, k[2] <= MaxRegister
      PROVE  k \in DOMAIN last' /\ last'[k] = values[k]
  <2>1. k[2] \in b.start..b.end /\ k = <<format, k[2]>>
    BY <1>1, <1>3
  <2>2. values[k] = Word(b.values, 2 * (k[2] - b.start))
    BY <1>1, <1>3, ValuesAre
  <2>3. /\ <<format, k[2]>> \in DOMAIN last
        /\ last[<<format, k[2]>>] = Word(b.values, 2 * (k[2] - b.start))
    BY <1>2, <1>3, <2>1 DEF BytesKept
  <2> QED
    BY <2>1, <2>2, <2>3
<1> HIDE DEF values
<1>4. reported' = Updated(reported, values)
  BY DEF values
<1> QED
  BY <1>3, <1>4, LastSentKeeps

\* What is compared of a block
Reached(b) ==
    Only(Values(format, b), {k \in DOMAIN Values(format, b) : k[2] <= MaxRegister})

\* The bytes of other blocks are none of the registers that are compared now.
LEMMA CapturedKeepsBytes ==
    ASSUME BytesKept, NEW b \in Blocks, format \in Messages, mode' = mode,
           cached' = IF mode = "changes"
                     THEN Updated(Only(cached, DOMAIN cached \ Overlapping(b)),
                                  [k \in {Key(b)} |-> b.values])
                     ELSE cached,
           \A k \in DOMAIN last : k \notin DOMAIN Reached(b) =>
              k \in DOMAIN last' /\ last'[k] = last[k],
           \A k \in DOMAIN Reached(b) :
              k \in DOMAIN last' /\ last'[k] = Reached(b)[k]
    PROVE  BytesKept'
<1> DEFINE values == Reached(b)
<1>1. CASE mode # "changes"
  BY <1>1 DEF BytesKept
<1>2. CASE mode = "changes"
  <2> DEFINE others == Only(cached, DOMAIN cached \ Overlapping(b))
             new == [k \in {Key(b)} |-> b.values]
  <2>1. /\ DOMAIN others = DOMAIN cached \cap (DOMAIN cached \ Overlapping(b))
        /\ \A k \in DOMAIN cached \cap (DOMAIN cached \ Overlapping(b)) : others[k] = cached[k]
    BY OnlyIs
  <2>2. DOMAIN new = {Key(b)} /\ new[Key(b)] = b.values
    OBVIOUS
  <2>3. cached' = Updated(others, new)
    BY <1>2
  <2> HIDE DEF others, new
  <2>4. /\ DOMAIN Updated(others, new) = DOMAIN others \cup DOMAIN new
        /\ \A k \in DOMAIN new : Updated(others, new)[k] = new[k]
        /\ \A k \in DOMAIN others \ DOMAIN new : Updated(others, new)[k] = others[k]
    BY UpdatedIs
  <2>5. /\ DOMAIN values = {k \in {format} \X (b.start..b.end) : k[2] <= MaxRegister}
        /\ \A k \in DOMAIN values : values[k] = Word(b.values, 2 * (k[2] - b.start))
    <3> DEFINE all == Values(format, b)
               low == {k \in DOMAIN all : k[2] <= MaxRegister}
    <3>1. /\ DOMAIN all = {format} \X (b.start..b.end)
          /\ \A k \in {format} \X (b.start..b.end) :
                all[k] = Word(b.values, 2 * (k[2] - b.start))
      BY DEF Values
    <3>2. /\ DOMAIN Only(all, low) = DOMAIN all \cap low
          /\ \A k \in DOMAIN all \cap low : Only(all, low)[k] = all[k]
      BY OnlyIs
    <3>3. values = Only(all, low)
      BY DEF Reached
    <3> QED
      BY <3>1, <3>2, <3>3
  <2>6. Key(b) \in Messages \X Int \X Int /\ Key(b)[1] = format
        /\ Key(b)[2] = b.start /\ Key(b)[3] = b.end /\ b.start \in Int /\ b.end \in Int
    BY DEF Key, Blocks
  <2>7. ASSUME NEW c \in DOMAIN cached'
        PROVE  /\ c \in Messages \X Int \X Int
               /\ \A r \in c[2]..c[3] : r <= MaxRegister =>
                     /\ <<c[1], r>> \in DOMAIN last'
                     /\ last'[<<c[1], r>>] = Word(cached'[c], 2 * (r - c[2]))
    <3>1. CASE c = Key(b)
      <4>1. cached'[c] = b.values
        BY <2>2, <2>3, <2>4, <3>1
      <4>2. ASSUME NEW r \in c[2]..c[3], r <= MaxRegister
            PROVE  /\ <<c[1], r>> \in DOMAIN values
                   /\ values[<<c[1], r>>] = Word(b.values, 2 * (r - c[2]))
        <5>1. <<c[1], r>> \in {format} \X (b.start..b.end)
          BY <2>6, <3>1, <4>2
        <5>2. <<c[1], r>> \in DOMAIN values
          BY <2>5, <4>2, <5>1
        <5> QED
          BY <2>5, <2>6, <3>1, <5>2
      <4> QED
        BY <2>6, <3>1, <4>1, <4>2
    <3>2. CASE c # Key(b)
      <4>1. c \in DOMAIN cached /\ c \notin Overlapping(b) /\ cached'[c] = cached[c]
        BY <2>1, <2>2, <2>3, <2>4, <3>2
      <4>2. c \in Messages \X Int \X Int
        BY <4>1 DEF BytesKept
      <4>3. ASSUME NEW r \in c[2]..c[3], r <= MaxRegister
            PROVE  <<c[1], r>> \notin DOMAIN values
        <5>1. ~(c[1] = format /\ c[2] <= b.end /\ b.start <= c[3])
          BY <4>1 DEF Overlapping
        <5>2. c[2] \in Int /\ c[3] \in Int /\ r \in Int
          BY <4>2
        <5>3. ASSUME c[1] = format, r \in b.start..b.end
              PROVE  c[2] <= b.end /\ b.start <= c[3]
          BY <5>2, <5>3, <2>6, <4>3
        <5>4. ~(c[1] = format /\ r \in b.start..b.end)
          BY <5>1, <5>3
        <5> QED
          BY <2>5, <5>4
      <4> QED
        BY <4>1, <4>2, <4>3 DEF BytesKept
    <3> QED
      BY <3>1, <3>2
  <2> QED
    BY <1>2, <2>7 DEF BytesKept
<1> QED
  BY <1>1, <1>2

LEMMA BlockCapturedKeeps ==
    ASSUME Capturing, LastSent, BytesKept, OnFile, BlockCaptured
    PROVE  Capturing' /\ LastSent' /\ BytesKept' /\ OnFile'
<1> DEFINE b == Head(pending)
<1>1. /\ stage = "capture" /\ pending # <<>> /\ format \in Messages
      /\ pending' = Tail(pending) /\ UNCHANGED <<format, stage, mode, filed, missing>>
      /\ reported' = Updated(reported, Values(format, b))
  BY DEF BlockCaptured, wireVars, Capturing
<1>2. b \in Blocks /\ Tail(pending) \in Seq(Blocks)
  BY <1>1, HeadTailProperties DEF Capturing
<1>3. IF Same(b) THEN UNCHANGED <<last, cached, records>> ELSE Captured(b)
  BY DEF BlockCaptured
<1> HIDE DEF b
<1>4. Capturing'
  BY <1>1, <1>2 DEF Capturing
<1>5. CASE Same(b)
  <2>1. LastSent'
    BY <1>1, <1>2, <1>3, <1>5, SameKeeps
  <2> QED
    BY <1>1, <1>3, <1>4, <1>5, <2>1 DEF BytesKept, OnFile
<1>6. CASE ~Same(b)
  <2>1. /\ Compared(Reached(b))
        /\ cached' = IF mode = "changes"
                     THEN Updated(Only(cached, DOMAIN cached \ Overlapping(b)),
                                  [k \in {Key(b)} |-> b.values])
                     ELSE cached
    BY <1>3, <1>6 DEF Captured, Reached
  <2>2. /\ OnFile'
        /\ DOMAIN last' = DOMAIN last \cup DOMAIN Reached(b)
        /\ \A k \in DOMAIN Reached(b) : last'[k] = Reached(b)[k]
        /\ \A k \in DOMAIN last \ DOMAIN Reached(b) : last'[k] = last[k]
    BY <1>1, <2>1, ComparedKeeps
  <2>3. BytesKept'
    BY <1>1, <1>2, <2>1, <2>2, CapturedKeepsBytes
  <2>4. \A k \in DOMAIN Reached(b) : k \in DOMAIN Values(format, b)
                                    /\ Reached(b)[k] = Values(format, b)[k]
    BY DEF Reached, Only
  <2>5. \A k \in DOMAIN Values(format, b) : k[2] <= MaxRegister => k \in DOMAIN Reached(b)
    BY DEF Reached, Only
  <2>6. LastSent'
    <3> DEFINE values == Values(format, b)
    <3>1. /\ \A k \in DOMAIN last : k \notin DOMAIN values =>
                k \in DOMAIN last' /\ last'[k] = last[k]
          /\ \A k \in DOMAIN values : k[2] <= MaxRegister =>
                k \in DOMAIN last' /\ last'[k] = values[k]
      BY <2>2, <2>4, <2>5
    <3>2. reported' = Updated(reported, values)
      BY <1>1
    <3> HIDE DEF values
    <3> QED
      BY <3>1, <3>2, LastSentKeeps
  <2> QED
    BY <1>4, <2>2, <2>3, <2>6
<1> QED
  BY <1>5, <1>6

LEMMA RecordsWrittenKeeps ==
    ASSUME Capturing, LastSent, BytesKept, OnFile, RecordsWritten
    PROVE  Capturing' /\ LastSent' /\ BytesKept' /\ OnFile'
<1>1. /\ stage' = "none" /\ records' = NoValues
      /\ UNCHANGED <<mode, last, cached, pending, reported>> /\ pending = <<>>
  BY DEF RecordsWritten, Forgets
<1>2. DOMAIN records' = {}
  BY <1>1 DEF NoValues
<1>3. Capturing' /\ LastSent' /\ BytesKept'
  BY <1>1, <1>2 DEF Capturing, LastSent, BytesKept
<1>4. ASSUME NEW k \in DOMAIN last
      PROVE  k \in missing' \/ (k \in DOMAIN filed' /\ filed'[k] = last[k])
  <2>1. CASE filed' = Updated(filed, records) /\ missing' = missing \ DOMAIN records
    <3>1. /\ DOMAIN Updated(filed, records) = DOMAIN filed \cup DOMAIN records
          /\ \A j \in DOMAIN records : Updated(filed, records)[j] = records[j]
          /\ \A j \in DOMAIN filed \ DOMAIN records : Updated(filed, records)[j] = filed[j]
      BY UpdatedIs
    <3> QED
      BY <1>4, <2>1, <3>1 DEF OnFile
  <2>2. CASE /\ filed' = Only(filed, DOMAIN filed \ DOMAIN records)
             /\ missing' = missing \cup DOMAIN records
    <3> DEFINE kept == DOMAIN filed \ DOMAIN records
    <3>1. /\ DOMAIN Only(filed, kept) = DOMAIN filed \cap kept
          /\ \A j \in DOMAIN filed \cap kept : Only(filed, kept)[j] = filed[j]
      BY OnlyIs
    <3> QED
      BY <1>4, <2>2, <3>1 DEF OnFile
  <2> QED
    BY <2>1, <2>2 DEF RecordsWritten
<1> QED
  BY <1>1, <1>2, <1>3, <1>4 DEF OnFile

LEMMA CaptureStep ==
    ASSUME MessageRead, Capturing, LastSent, BytesKept, OnFile, NextDebug
    PROVE  Capturing' /\ LastSent' /\ BytesKept' /\ OnFile'
<1> USE DEF NextDebug
<1>1. ASSUME stage # "capture", stage' # "capture", UNCHANGED <<mode, captureVars>>
      PROVE  Capturing' /\ LastSent' /\ BytesKept' /\ OnFile'
  <2>1. UNCHANGED <<mode, last, cached, pending, records, filed, reported, missing>>
    BY <1>1 DEF captureVars
  <2> QED
    BY <1>1, <2>1 DEF Capturing, LastSent, BytesKept, OnFile
<1>2. CASE PacketArrives
  BY <1>1, <1>2 DEF PacketArrives, Arrives
<1>3. CASE ParserStep
  BY <1>1, <1>3, ParsersCaptureNothing DEF ParserStep
<1>4. CASE Ignored
  BY <1>1, <1>4 DEF Ignored, Forgets
<1>5. CASE CaptureBegins
  <2>1. /\ stage = "accepted" /\ stage' = "capture" /\ pending' = found /\ format \in Messages
        /\ UNCHANGED <<format, mode, last, cached, records, filed, reported, missing>>
    BY <1>5 DEF CaptureBegins, Captures
  <2>2. found \in Seq(Blocks)
    BY <2>1 DEF MessageRead
  <2> QED
    BY <2>1, <2>2 DEF Capturing, LastSent, BytesKept, OnFile
<1>6. CASE Capture0103
  <2>1. LastSent' /\ BytesKept' /\ OnFile'
    BY <1>6, Capture0103Keeps
  <2>2. Capturing'
    BY <1>6 DEF Capture0103, Captures, Capturing, Messages
  <2> QED
    BY <2>1, <2>2
<1>7. CASE BlockCaptured
  BY <1>7, BlockCapturedKeeps
<1>8. CASE RecordsWritten
  BY <1>8, RecordsWrittenKeeps
<1> QED
  BY <1>2, <1>3, <1>4, <1>5, <1>6, <1>7, <1>8

LEMMA DebugInitial == InitDebug => IInv
<1>1. DOMAIN NoValues = {} /\ <<>> \in Seq(Blocks)
  BY EmptySeq DEF NoValues
<1> QED
  BY <1>1 DEF InitDebug, InitWire, IInv, MessageRead, Messages, Capturing, LastSent,
              BytesKept, OnFile

LEMMA DebugStep == IInv /\ [NextDebug]_debugVars => IInv'
<1> SUFFICES ASSUME IInv, [NextDebug]_debugVars PROVE IInv'
  OBVIOUS
<1>1. CASE NextDebug
  BY <1>1, MessageStep, CaptureStep DEF IInv
<1>2. CASE UNCHANGED debugVars
  BY <1>2 DEF debugVars, wireVars, captureVars, IInv, MessageRead, Capturing, LastSent,
              BytesKept, OnFile, Laid, Behind, First, Size
<1> QED
  BY <1>1, <1>2

\* Messages are read as far as they go, and every value is known and on its way to the
\* file, whatever the packets and the room in the writer
\* (modbus_message.py:319, register_debug.py:88).
THEOREM InductiveInvariant == DebugSpec => []IInv
<1> QED
  BY DebugInitial, DebugStep, PTL DEF DebugSpec

\* The blocks of an accepted message begin behind its header or metadata, lie side by
\* side, have the bytes of all their registers, and end with the packet or its trailer
\* (modbus_message.py:60, :319).
THEOREM BlocksFillMessages ==
    DebugSpec => [](stage = "accepted" /\ format \in Messages =>
                       agrees /\ Laid /\ Behind(Len(found)) \in {Size, Size - Trailer})
<1>1. IInv => (stage = "accepted" /\ format \in Messages =>
                  agrees /\ Laid /\ Behind(Len(found)) \in {Size, Size - Trailer})
  BY DEF IInv, MessageRead
<1> QED
  BY <1>1, InductiveInvariant, PTL

-----------------------------------------------------------------------------
(* Induction and recursion.                                                *)

\* Every set of numbers that is not empty has a least one.
LEMMA Least ==
    ASSUME NEW T, T \subseteq Nat, T # {}
    PROVE  \E n \in T : \A m \in T : n <= m
<1> DEFINE R == OpToRel(<, Nat)
<1>1. IsWellFoundedOn(R, Nat)
  BY NatLessThanWellFounded
<1>2. \A i, j \in Nat : i < j => <<i, j>> \in R
  BY DEF OpToRel
<1> HIDE DEF R
<1>3. PICK n \in T : \A m \in T : <<m, n>> \notin R
  BY <1>1, WFMin
<1>4. \A m \in T : ~(m < n)
  BY <1>2, <1>3
<1>5. \A m \in T : n <= m
  BY <1>4
<1> QED
  BY <1>5

\* Induction, for what the elements of a set have in common
LEMMA AllUpTo ==
    ASSUME NEW n \in Nat, NEW T, 0 \in T, \A i \in 0..(n - 1) : i \in T => i + 1 \in T
    PROVE  0..n \subseteq T
<1> DEFINE outside == (0..n) \ T
<1> SUFFICES ASSUME outside # {} PROVE FALSE
  OBVIOUS
<1>1. PICK m \in outside : \A i \in outside : m <= i
  <2>1. outside \subseteq Nat
    OBVIOUS
  <2> QED
    BY <2>1, Least
<1>2. m \in 0..n /\ m \notin T /\ m # 0
  BY <1>1
<1>3. m - 1 \in 0..(n - 1) /\ m - 1 \in 0..n /\ ~(m <= m - 1)
  BY <1>2
<1>4. m - 1 \in T
  BY <1>1, <1>3
<1>5. (m - 1) + 1 = m
  BY <1>2
<1> QED
  BY <1>2, <1>3, <1>4, <1>5

\* How a value follows from the one before it, and the function of all of them
Steps(n, V) == [(1..n) \X V -> V]
Recursive(g, n, V, b, step) ==
    /\ g \in [0..n -> V] /\ g[0] = b
    /\ \A i \in 1..n : g[i] = step[<<i, g[i - 1]>>]

\* A function that is defined by recursion over 0..n exists.
LEMMA RecursionExists ==
    ASSUME NEW n \in Nat, NEW V, NEW b \in V, NEW step \in Steps(n, V)
    PROVE  \E g : Recursive(g, n, V, b, step)
<1>0. step \in [(1..n) \X V -> V]
  BY DEF Steps
<1> DEFINE Defined(k, g) ==
             \A i \in 0..k : g[i] = IF i = 0 THEN b ELSE step[<<i, g[i - 1]>>]
           T == {k \in 0..n : \E g \in [0..k -> V] : Defined(k, g)}
<1>1. 0 \in T
  <2> DEFINE g == [i \in 0..0 |-> b]
  <2>1. g \in [0..0 -> V] /\ Defined(0, g)
    OBVIOUS
  <2> HIDE DEF g, Defined
  <2> QED
    BY <2>1
<1>2. ASSUME NEW k \in 0..(n - 1), k \in T
      PROVE  k + 1 \in T
  <2>1. PICK g \in [0..k -> V] : Defined(k, g)
    BY <1>2
  <2> DEFINE h == [i \in 0..(k + 1) |-> IF i = k + 1 THEN step[<<k + 1, g[k]>>] ELSE g[i]]
  <2>2. k \in Nat /\ k + 1 \in 1..n /\ k + 1 \in 0..n /\ k \in 0..k
    OBVIOUS
  <2>3. step[<<k + 1, g[k]>>] \in V
    BY <1>0, <2>2
  <2>4. \A i \in 0..(k + 1) : i # k + 1 => i \in 0..k
    BY <2>2
  <2>5. h \in [0..(k + 1) -> V]
    BY <2>3, <2>4
  <2>6. ASSUME NEW i \in 0..(k + 1)
        PROVE  h[i] = IF i = 0 THEN b ELSE step[<<i, h[i - 1]>>]
    <3>1. CASE i = k + 1
      <4>1. i # 0 /\ i - 1 = k /\ k \in 0..(k + 1) /\ k # k + 1
        BY <3>1, <2>2
      <4>2. h[k] = g[k] /\ h[i] = step[<<k + 1, g[k]>>]
        BY <3>1, <4>1
      <4> QED
        BY <3>1, <4>1, <4>2
    <3>2. CASE i # k + 1
      <4>1. i \in 0..k /\ h[i] = g[i]
        BY <2>4, <3>2
      <4>2. ASSUME i # 0
            PROVE  h[i - 1] = g[i - 1]
        <5>1. i - 1 \in 0..(k + 1) /\ i - 1 # k + 1
          BY <4>1, <4>2, <2>2
        <5> QED
          BY <5>1
      <4>3. g[i] = IF i = 0 THEN b ELSE step[<<i, g[i - 1]>>]
        BY <2>1, <4>1
      <4> HIDE DEF h
      <4> QED
        BY <4>1, <4>2, <4>3
    <3> QED
      BY <3>1, <3>2
  <2> HIDE DEF h
  <2>7. Defined(k + 1, h)
    BY <2>6
  <2> QED
    BY <2>2, <2>5, <2>7
<1> HIDE DEF T
<1>3. n \in T
  BY <1>1, <1>2, AllUpTo
<1>4. PICK g \in [0..n -> V] : Defined(n, g)
  BY <1>3 DEF T
<1>5. 0 \in 0..n /\ \A i \in 1..n : i \in 0..n /\ i # 0
  OBVIOUS
<1>6. g[0] = b /\ \A i \in 1..n : g[i] = step[<<i, g[i - 1]>>]
  BY <1>4, <1>5
<1> QED
  BY <1>6 DEF Recursive

-----------------------------------------------------------------------------
(* Sums.                                                                   *)

\* g[n] is the sum of the first n sizes.
Sums(g, s) ==
    /\ g \in [0..Len(s) -> Nat] /\ g[0] = 0 /\ Total(s) = g[Len(s)]
    /\ \A i \in 1..Len(s) : g[i] = g[i - 1] + s[i]

LEMMA TotalSums == ASSUME NEW s \in Seq(Nat) PROVE \E g : Sums(g, s)
<1> DEFINE n == Len(s)
           step == [p \in (1..n) \X Nat |-> p[2] + s[p[1]]]
           Is(g) == g = [i \in 0..n |-> IF i = 0 THEN 0 ELSE g[i - 1] + s[i]]
           sum == CHOOSE g : Is(g)
<1>1. n \in Nat /\ \A i \in 1..n : s[i] \in Nat
  BY LenProperties, ElementOfSeq
<1>2. step \in [(1..n) \X Nat -> Nat]
  BY <1>1
<1>3. PICK h : Recursive(h, n, Nat, 0, step)
  <2>1. n \in Nat /\ 0 \in Nat /\ step \in Steps(n, Nat)
    BY <1>1, <1>2 DEF Steps
  <2> HIDE DEF n, step
  <2> QED
    BY <2>1, RecursionExists
<1> HIDE DEF n
<1>4. \A i \in 1..n : i \in 0..n /\ i # 0 /\ i - 1 \in 0..n
  BY <1>1
<1>5. h \in [0..n -> Nat] /\ h[0] = 0 /\ \A i \in 1..n : h[i] = h[i - 1] + s[i]
  BY <1>3, <1>4 DEF Recursive
<1>6. Is(h)
  <2>1. \A i \in 0..n : i # 0 => i \in 1..n
    BY <1>1
  <2>2. \A i \in 0..n : h[i] = IF i = 0 THEN 0 ELSE h[i - 1] + s[i]
    BY <1>5, <2>1
  <2>3. h = [i \in 0..n |-> h[i]]
    BY <1>5
  <2> QED
    BY <2>2, <2>3
<1>7. Is(sum)
  <2> HIDE DEF Is
  <2> QED
    BY <1>6
<1>8. Total(s) = sum[n]
  BY DEF Total, n
<1> HIDE DEF sum
<1>9. 0 \in 0..n /\ n \in 0..n
  BY <1>1
<1>10. sum[0] = 0 /\ \A i \in 1..n : sum[i] = sum[i - 1] + s[i]
  BY <1>1, <1>4, <1>7, <1>9
<1>11. \A i \in 0..n : sum[i] \in Nat
  <2> DEFINE T == {i \in 0..n : sum[i] \in Nat}
  <2>1. 0 \in T
    BY <1>9, <1>10
  <2>2. ASSUME NEW i \in 0..(n - 1), i \in T PROVE i + 1 \in T
    <3>1. i + 1 \in 1..n /\ i + 1 \in 0..n /\ (i + 1) - 1 = i
      BY <1>1
    <3>2. sum[i + 1] = sum[i] + s[i + 1]
      BY <1>10, <3>1
    <3> QED
      BY <1>1, <2>2, <3>1, <3>2
  <2> HIDE DEF T
  <2>3. 0..n \subseteq T
    BY <1>1, <2>1, <2>2, AllUpTo
  <2> QED
    BY <2>3 DEF T
<1>12. sum \in [0..n -> Nat]
  BY <1>7, <1>11
<1>13. Sums(sum, s)
  BY <1>8, <1>10, <1>12 DEF n, Sums
<1> QED
  BY <1>13

LEMMA TotalType == ASSUME NEW s \in Seq(Nat) PROVE Total(s) \in Nat
<1>1. PICK g : Sums(g, s)
  BY TotalSums
<1>2. Len(s) \in 0..Len(s)
  BY LenProperties
<1> QED
  BY <1>1, <1>2 DEF Sums

LEMMA TotalEmpty == Total(<<>>) = 0
<1>1. <<>> \in Seq(Nat) /\ Len(<<>>) = 0
  BY EmptySeq
<1>2. PICK g : Sums(g, <<>>)
  BY <1>1, TotalSums
<1> QED
  BY <1>1, <1>2 DEF Sums

LEMMA TotalAppend ==
    ASSUME NEW s \in Seq(Nat), NEW x \in Nat
    PROVE  Total(Append(s, x)) = Total(s) + x
<1> DEFINE n == Len(s)
           t == Append(s, x)
<1>1. n \in Nat
  BY LenProperties
<1>2. /\ t \in Seq(Nat) /\ Len(t) = n + 1 /\ t[n + 1] = x
      /\ \A i \in 1..n : t[i] = s[i]
  BY AppendProperties
<1> HIDE DEF n, t
<1>3. PICK g : Sums(g, s)
  BY TotalSums
<1>4. PICK h : Sums(h, t)
  BY <1>2, TotalSums
<1>5. /\ g[0] = 0 /\ Total(s) = g[n] /\ \A i \in 1..n : g[i] = g[i - 1] + s[i]
      /\ h[0] = 0 /\ Total(t) = h[n + 1]
      /\ \A i \in 1..(n + 1) : h[i] = h[i - 1] + t[i]
  BY <1>2, <1>3, <1>4 DEF n, Sums
<1>6. h[n] = g[n]
  <2> DEFINE T == {i \in 0..n : h[i] = g[i]}
  <2>1. 0 \in T
    BY <1>1, <1>5
  <2>2. ASSUME NEW i \in 0..(n - 1), i \in T PROVE i + 1 \in T
    <3>1. i + 1 \in 1..n /\ i + 1 \in 1..(n + 1) /\ i + 1 \in 0..n /\ (i + 1) - 1 = i
      BY <1>1
    <3> QED
      BY <1>2, <1>5, <2>2, <3>1
  <2> HIDE DEF T
  <2>3. 0..n \subseteq T
    BY <1>1, <2>1, <2>2, AllUpTo
  <2> QED
    BY <1>1, <2>3 DEF T
<1>7. n + 1 \in 1..(n + 1) /\ (n + 1) - 1 = n
  BY <1>1
<1>8. h[n + 1] = g[n] + x
  BY <1>2, <1>5, <1>6, <1>7
<1> QED
  BY <1>5, <1>8 DEF t

\* The first size and the sum of the others
LEMMA TotalTail ==
    ASSUME NEW s \in Seq(Nat), s # <<>>
    PROVE  Total(s) = Head(s) + Total(Tail(s))
<1> DEFINE n == Len(s)
           t == Tail(s)
<1>1. n \in Nat \ {0} /\ Head(s) = s[1]
  BY EmptySeq
<1>2. /\ t \in Seq(Nat) /\ Len(t) = n - 1 /\ \A i \in 1..(n - 1) : t[i] = s[i + 1]
  BY HeadTailProperties
<1> HIDE DEF n, t
<1>3. PICK g : Sums(g, s)
  BY TotalSums
<1>4. PICK h : Sums(h, t)
  BY <1>2, TotalSums
<1>5. /\ g \in [0..n -> Nat] /\ h \in [0..(n - 1) -> Nat]
      /\ g[0] = 0 /\ Total(s) = g[n] /\ \A i \in 1..n : g[i] = g[i - 1] + s[i]
      /\ h[0] = 0 /\ Total(t) = h[n - 1]
      /\ \A i \in 1..(n - 1) : h[i] = h[i - 1] + t[i]
  BY <1>2, <1>3, <1>4 DEF n, Sums
<1>6. \A i \in 1..n : s[i] \in Nat
  BY ElementOfSeq DEF n
<1>7. g[(n - 1) + 1] = s[1] + h[n - 1]
  <2> DEFINE T == {i \in 0..(n - 1) : g[i + 1] = s[1] + h[i]}
  <2>1. 0 \in T
    <3>1. 1 \in 1..n /\ 1 - 1 = 0 /\ 0 + 1 = 1 /\ 0 \in 0..(n - 1)
      BY <1>1
    <3> QED
      BY <1>5, <1>6, <3>1
  <2>2. ASSUME NEW i \in 0..((n - 1) - 1), i \in T PROVE i + 1 \in T
    <3>1. /\ i + 1 \in 1..(n - 1) /\ i + 1 \in 0..(n - 1) /\ (i + 1) - 1 = i
          /\ (i + 1) + 1 \in 1..n /\ ((i + 1) + 1) - 1 = i + 1
          /\ 1 \in 1..n /\ i \in 0..(n - 1)
      BY <1>1
    <3>2. h[i + 1] = h[i] + s[(i + 1) + 1]
      BY <1>2, <1>5, <3>1
    <3>3. g[(i + 1) + 1] = g[i + 1] + s[(i + 1) + 1]
      BY <1>5, <3>1
    <3>4. h[i] \in Nat /\ s[1] \in Nat /\ s[(i + 1) + 1] \in Nat
      BY <1>5, <1>6, <3>1
    <3>5. \A x, y, z \in Nat : (x + y) + z = x + (y + z)
      OBVIOUS
    <3> QED
      BY <2>2, <3>1, <3>2, <3>3, <3>4, <3>5
  <2> HIDE DEF T
  <2>3. n - 1 \in Nat
    BY <1>1
  <2>4. 0..(n - 1) \subseteq T
    BY <2>1, <2>2, <2>3, AllUpTo
  <2> QED
    BY <2>3, <2>4 DEF T
<1>8. (n - 1) + 1 = n
  BY <1>1
<1> QED
  BY <1>1, <1>5, <1>7, <1>8 DEF t

\* Sums grow with every size.
LEMMA SumsGrow ==
    ASSUME NEW s \in Seq(Nat), NEW g, Sums(g, s), NEW k \in 0..Len(s)
    PROVE  /\ g[k] \in Nat /\ g[k] <= Total(s)
           /\ k # 0 => s[k] <= g[k]
<1> DEFINE n == Len(s)
           T == {i \in 0..(n - k) : g[k] <= g[k + i]}
<1>1. n \in Nat /\ k \in Nat /\ k <= n /\ n - k \in Nat
  BY LenProperties
<1>2. /\ g \in [0..n -> Nat] /\ Total(s) = g[n]
      /\ \A i \in 1..n : g[i] = g[i - 1] + s[i]
  BY DEF Sums
<1>3. \A i \in 1..n : s[i] \in Nat
  BY ElementOfSeq
<1> HIDE DEF n
<1>4. 0 \in T
  <2>1. k \in 0..n /\ k + 0 = k /\ 0 \in 0..(n - k)
    BY <1>1
  <2>2. g[k] \in Nat
    BY <1>2, <2>1
  <2> QED
    BY <2>1, <2>2
<1>5. ASSUME NEW i \in 0..((n - k) - 1), i \in T PROVE i + 1 \in T
  <2>1. /\ k + (i + 1) \in 1..n /\ (k + (i + 1)) - 1 = k + i /\ k + i \in 0..n
        /\ i + 1 \in 0..(n - k) /\ k \in 0..n
    BY <1>1
  <2>2. g[k + (i + 1)] = g[k + i] + s[k + (i + 1)]
    BY <1>2, <2>1
  <2>3. g[k] \in Nat /\ g[k + i] \in Nat /\ s[k + (i + 1)] \in Nat
    BY <1>2, <1>3, <2>1
  <2>4. g[k] <= g[k + i]
    BY <1>5
  <2>5. \A x, y, z \in Nat : x <= y => x <= y + z
    OBVIOUS
  <2> QED
    BY <2>1, <2>2, <2>3, <2>4, <2>5
<1> HIDE DEF T
<1>6. 0..(n - k) \subseteq T
  BY <1>1, <1>4, <1>5, AllUpTo
<1>7. g[k] <= g[k + (n - k)] /\ k + (n - k) = n
  BY <1>1, <1>6 DEF T
<1>8. k # 0 => s[k] <= g[k]
  <2> SUFFICES ASSUME k # 0 PROVE s[k] <= g[k]
    OBVIOUS
  <2>1. k \in 1..n /\ k - 1 \in 0..n
    BY <1>1
  <2> QED
    BY <1>2, <1>3, <2>1
<1> QED
  BY <1>1, <1>2, <1>7, <1>8

-----------------------------------------------------------------------------
(* Lines and their records.                                                *)

\* The sizes of lines, as Existing adds them up
SizesOf(lines) == [i \in DOMAIN lines |-> lines[i].size]

LEMMA SizesTyped ==
    ASSUME NEW lines \in Seq(LineType)
    PROVE  /\ SizesOf(lines) \in Seq(Nat) /\ Len(SizesOf(lines)) = Len(lines)
           /\ Existing(lines) = Total(SizesOf(lines)) /\ Existing(lines) \in Nat
<1>1. Len(lines) \in Nat /\ DOMAIN lines = 1..Len(lines)
  BY LenProperties
<1>2. \A i \in 1..Len(lines) : lines[i].size \in Nat
  <2>1. \A i \in 1..Len(lines) : lines[i] \in LineType
    BY ElementOfSeq
  <2> QED
    BY <2>1 DEF LineType
<1>3. SizesOf(lines) = [i \in 1..Len(lines) |-> lines[i].size]
  BY <1>1 DEF SizesOf
<1>4. SizesOf(lines) \in Seq(Nat) /\ Len(SizesOf(lines)) = Len(lines)
  BY <1>1, <1>2, <1>3
<1>5. Existing(lines) = Total(SizesOf(lines))
  BY DEF Existing, SizesOf
<1> QED
  BY <1>4, <1>5, TotalType

LEMMA ExistingEmpty == Existing(<<>>) = 0
<1>1. <<>> \in Seq(LineType) /\ Len(<<>>) = 0 /\ <<>> \in Seq(Nat)
  BY EmptySeq
<1>2. SizesOf(<<>>) \in Seq(Nat) /\ Len(SizesOf(<<>>)) = 0
      /\ Existing(<<>>) = Total(SizesOf(<<>>))
  BY <1>1, SizesTyped
<1>3. SizesOf(<<>>) = <<>>
  BY <1>1, <1>2, SeqEqual
<1> QED
  BY <1>2, <1>3, TotalEmpty

LEMMA ExistingAppend ==
    ASSUME NEW lines \in Seq(LineType), NEW line \in LineType
    PROVE  Existing(Append(lines, line)) = Existing(lines) + line.size
<1> DEFINE t == Append(lines, line)
<1>1. /\ t \in Seq(LineType) /\ Len(t) = Len(lines) + 1 /\ t[Len(lines) + 1] = line
      /\ \A i \in 1..Len(lines) : t[i] = lines[i]
  BY AppendProperties
<1>2. line.size \in Nat /\ Len(lines) \in Nat /\ DOMAIN lines = 1..Len(lines)
  BY LenProperties DEF LineType
<1> HIDE DEF t
<1>3. DOMAIN t = 1..(Len(lines) + 1)
  BY <1>1, LenProperties
<1>4. /\ SizesOf(lines) \in Seq(Nat) /\ Len(SizesOf(lines)) = Len(lines)
      /\ SizesOf(t) \in Seq(Nat) /\ Len(SizesOf(t)) = Len(lines) + 1
      /\ Existing(lines) = Total(SizesOf(lines)) /\ Existing(t) = Total(SizesOf(t))
  BY <1>1, SizesTyped
<1> DEFINE u == Append(SizesOf(lines), line.size)
<1>5. /\ u \in Seq(Nat) /\ Len(u) = Len(lines) + 1 /\ u[Len(lines) + 1] = line.size
      /\ \A i \in 1..Len(lines) : u[i] = SizesOf(lines)[i]
  BY <1>2, <1>4, AppendProperties
<1> HIDE DEF u
<1>6. \A i \in 1..(Len(lines) + 1) : SizesOf(t)[i] = u[i]
  <2> SUFFICES ASSUME NEW i \in 1..(Len(lines) + 1) PROVE SizesOf(t)[i] = u[i]
    OBVIOUS
  <2>1. SizesOf(t)[i] = t[i].size
    BY <1>3 DEF SizesOf
  <2>2. CASE i = Len(lines) + 1
    BY <1>1, <1>5, <2>1, <2>2
  <2>3. CASE i # Len(lines) + 1
    <3>1. i \in 1..Len(lines)
      BY <1>2, <2>3
    <3>2. SizesOf(lines)[i] = lines[i].size
      BY <1>2, <3>1 DEF SizesOf
    <3> QED
      BY <1>1, <1>5, <2>1, <3>1, <3>2
  <2> QED
    BY <2>2, <2>3
<1>7. SizesOf(t) = u
  BY <1>4, <1>5, <1>6, SeqEqual
<1>8. Total(u) = Total(SizesOf(lines)) + line.size
  BY <1>2, <1>4, TotalAppend DEF u
<1> QED
  BY <1>4, <1>7, <1>8 DEF t

-----------------------------------------------------------------------------
\* What the records of the first n lines are, one line after the other
WithLine(ids, line) == IF line.kind = "part" THEN ids ELSE Append(ids, line.id)
RecordsUpTo(g, lines) ==
    /\ g[0] = <<>> /\ Records(lines) = g[Len(lines)]
    /\ \A i \in 1..Len(lines) : g[i] = WithLine(g[i - 1], lines[i])
    /\ \A i \in 0..Len(lines) : g[i] \in Seq(Nat)

LEMMA WithLineTyped ==
    ASSUME NEW ids \in Seq(Nat), NEW line \in LineType
    PROVE  WithLine(ids, line) \in Seq(Nat)
BY AppendProperties DEF WithLine, LineType

LEMMA RecordsFunction ==
    ASSUME NEW lines \in Seq(LineType) PROVE \E g : RecordsUpTo(g, lines)
<1> DEFINE n == Len(lines)
           V == Seq(Nat)
           step == [p \in (1..n) \X V |-> WithLine(p[2], lines[p[1]])]
           Is(g) == g = [i \in 0..n |-> IF i = 0 THEN <<>>
                                        ELSE IF lines[i].kind = "part" THEN g[i - 1]
                                        ELSE Append(g[i - 1], lines[i].id)]
           ids == CHOOSE g : Is(g)
<1>1. n \in Nat /\ \A i \in 1..n : lines[i] \in LineType
  BY LenProperties, ElementOfSeq
<1>2. step \in Steps(n, V)
  BY <1>1, WithLineTyped DEF Steps
<1>3. PICK h : Recursive(h, n, V, <<>>, step)
  <2>1. <<>> \in V
    BY EmptySeq
  <2> HIDE DEF n, V, step
  <2> QED
    BY <1>1, <1>2, <2>1, RecursionExists
<1> HIDE DEF n
<1>4. \A i \in 1..n : i \in 0..n /\ i # 0 /\ i - 1 \in 0..n
  BY <1>1
<1>5. /\ h \in [0..n -> V] /\ h[0] = <<>>
      /\ \A i \in 1..n : h[i] = WithLine(h[i - 1], lines[i])
  BY <1>3, <1>4 DEF Recursive
<1>6. Is(h)
  <2>1. \A i \in 0..n : i # 0 => i \in 1..n
    BY <1>1
  <2>2. \A i \in 0..n : h[i] = IF i = 0 THEN <<>>
                               ELSE IF lines[i].kind = "part" THEN h[i - 1]
                               ELSE Append(h[i - 1], lines[i].id)
    BY <1>5, <2>1 DEF WithLine
  <2>3. h = [i \in 0..n |-> h[i]]
    BY <1>5
  <2> QED
    BY <2>2, <2>3
<1>7. Is(ids)
  <2> HIDE DEF Is
  <2> QED
    BY <1>6
<1>8. Records(lines) = ids[n]
  BY DEF Records, n
<1> HIDE DEF ids
<1>9. 0 \in 0..n
  BY <1>1
<1>10. ids[0] = <<>> /\ \A i \in 1..n : ids[i] = WithLine(ids[i - 1], lines[i])
  BY <1>4, <1>7, <1>9 DEF WithLine
<1>11. \A i \in 0..n : ids[i] \in Seq(Nat)
  <2> DEFINE T == {i \in 0..n : ids[i] \in Seq(Nat)}
  <2>1. 0 \in T
    BY <1>9, <1>10, EmptySeq
  <2>2. ASSUME NEW i \in 0..(n - 1), i \in T PROVE i + 1 \in T
    <3>1. i + 1 \in 1..n /\ i + 1 \in 0..n /\ (i + 1) - 1 = i
      BY <1>1
    <3>2. ids[i + 1] = WithLine(ids[i], lines[i + 1]) /\ ids[i] \in Seq(Nat)
      BY <1>10, <2>2, <3>1
    <3> QED
      BY <1>1, <3>1, <3>2, WithLineTyped
  <2> HIDE DEF T
  <2>3. 0..n \subseteq T
    BY <1>1, <2>1, <2>2, AllUpTo
  <2> QED
    BY <2>3 DEF T
<1>12. RecordsUpTo(ids, lines)
  BY <1>8, <1>10, <1>11 DEF n, RecordsUpTo
<1> QED
  BY <1>12

LEMMA RecordsTyped == ASSUME NEW lines \in Seq(LineType) PROVE Records(lines) \in Seq(Nat)
<1>1. PICK g : RecordsUpTo(g, lines)
  BY RecordsFunction
<1>2. Len(lines) \in 0..Len(lines)
  BY LenProperties
<1> QED
  BY <1>1, <1>2 DEF RecordsUpTo

LEMMA RecordsEmpty == Records(<<>>) = <<>>
<1>1. <<>> \in Seq(LineType) /\ Len(<<>>) = 0
  BY EmptySeq
<1>2. PICK g : RecordsUpTo(g, <<>>)
  BY <1>1, RecordsFunction
<1> QED
  BY <1>1, <1>2 DEF RecordsUpTo

LEMMA RecordsAppend ==
    ASSUME NEW lines \in Seq(LineType), NEW line \in LineType
    PROVE  Records(Append(lines, line)) = WithLine(Records(lines), line)
<1> DEFINE n == Len(lines)
           t == Append(lines, line)
<1>1. n \in Nat
  BY LenProperties
<1>2. /\ t \in Seq(LineType) /\ Len(t) = n + 1 /\ t[n + 1] = line
      /\ \A i \in 1..n : t[i] = lines[i]
  BY AppendProperties
<1> HIDE DEF n, t
<1>3. PICK g : RecordsUpTo(g, lines)
  BY RecordsFunction
<1>4. PICK h : RecordsUpTo(h, t)
  BY <1>2, RecordsFunction
<1>5. /\ g[0] = <<>> /\ Records(lines) = g[n]
      /\ \A i \in 1..n : g[i] = WithLine(g[i - 1], lines[i])
      /\ h[0] = <<>> /\ Records(t) = h[n + 1]
      /\ \A i \in 1..(n + 1) : h[i] = WithLine(h[i - 1], t[i])
  BY <1>2, <1>3, <1>4 DEF n, RecordsUpTo
<1>6. h[n] = g[n]
  <2> DEFINE T == {i \in 0..n : h[i] = g[i]}
  <2>1. 0 \in T
    BY <1>1, <1>5
  <2>2. ASSUME NEW i \in 0..(n - 1), i \in T PROVE i + 1 \in T
    <3>1. i + 1 \in 1..n /\ i + 1 \in 1..(n + 1) /\ i + 1 \in 0..n /\ (i + 1) - 1 = i
      BY <1>1
    <3> QED
      BY <1>2, <1>5, <2>2, <3>1
  <2> HIDE DEF T
  <2>3. 0..n \subseteq T
    BY <1>1, <2>1, <2>2, AllUpTo
  <2> QED
    BY <1>1, <2>3 DEF T
<1>7. n + 1 \in 1..(n + 1) /\ (n + 1) - 1 = n
  BY <1>1
<1>8. h[n + 1] = WithLine(g[n], line)
  BY <1>2, <1>5, <1>6, <1>7
<1> QED
  BY <1>5, <1>8 DEF t

-----------------------------------------------------------------------------
(* A file and its repair.                                                  *)

Whole(lines) == \A i \in DOMAIN lines : lines[i].kind = "whole"
WholeBefore(lines) == \A i \in 1..(Len(lines) - 1) : lines[i].kind = "whole"

\* A sequence that is not empty is its front and its last element.
LEMMA FrontLast ==
    ASSUME NEW S, NEW s \in Seq(S), s # <<>>
    PROVE  /\ Front(s) \in Seq(S) /\ Last(s) \in S /\ Len(Front(s)) = Len(s) - 1
           /\ \A i \in 1..(Len(s) - 1) : Front(s)[i] = s[i]
           /\ s = Append(Front(s), Last(s))
<1> DEFINE n == Len(s)
<1>1. n \in Nat /\ n > 0 /\ n \in 1..n
  BY EmptySeq
<1>2. \A i \in 1..n : s[i] \in S
  BY ElementOfSeq
<1>3. Last(s) \in S /\ Last(s) = s[n]
  BY <1>1, <1>2 DEF Last
<1> HIDE DEF n
<1>4. \A i \in 1..(n - 1) : s[i] \in S
  BY <1>1, <1>2
<1>5. /\ SubSeq(s, 1, n - 1) \in Seq(S) /\ Len(SubSeq(s, 1, n - 1)) = n - 1
      /\ \A i \in 1..(n - 1) : SubSeq(s, 1, n - 1)[i] = s[i]
  <2>1. n - 1 \in Int /\ 1 \in Int /\ (IF 1 <= n - 1 THEN (n - 1) - 1 + 1 ELSE 0) = n - 1
        /\ (n - 1) - 1 + 1 = n - 1 /\ \A i \in Int : 1 + i - 1 = i
    BY <1>1
  <2>2. /\ SubSeq(s, 1, n - 1) \in Seq(S)
        /\ Len(SubSeq(s, 1, n - 1)) = IF 1 <= n - 1 THEN (n - 1) - 1 + 1 ELSE 0
        /\ \A i \in 1..((n - 1) - 1 + 1) : SubSeq(s, 1, n - 1)[i] = s[1 + i - 1]
    BY <1>4, <2>1, SubSeqProperties
  <2> QED
    BY <2>1, <2>2
<1>6. Front(s) = SubSeq(s, 1, n - 1)
  BY DEF Front, n
<1> DEFINE f == Front(s)
           l == Last(s)
<1>7. f \in Seq(S) /\ Len(f) = n - 1 /\ \A i \in 1..(n - 1) : f[i] = s[i]
  BY <1>5, <1>6
<1> HIDE DEF f, l
<1>8. /\ Append(f, l) \in Seq(S) /\ Len(Append(f, l)) = Len(f) + 1
      /\ \A i \in 1..Len(f) : Append(f, l)[i] = f[i]
      /\ Append(f, l)[Len(f) + 1] = l
  BY <1>3, <1>7, AppendProperties DEF l
<1>9. Len(f) + 1 = n /\ \A i \in 1..n : i # n => i \in 1..(n - 1)
  BY <1>1, <1>7
<1>10. \A i \in 1..n : Append(f, l)[i] = s[i]
  BY <1>3, <1>7, <1>8, <1>9 DEF l
<1>11. Append(f, l) = s
  BY <1>8, <1>9, <1>10, SeqEqual DEF n
<1> QED
  BY <1>3, <1>7, <1>11 DEF f, l, n

\* A repaired file has the same records.
LEMMA RepairedIs ==
    ASSUME NEW lines \in Seq(LineType), WholeBefore(lines)
    PROVE  /\ Repaired(lines) \in Seq(LineType) /\ Whole(Repaired(lines))
           /\ Records(Repaired(lines)) = Records(lines)
           /\ Existing(Repaired(lines)) <= Existing(lines)
<1>1. DOMAIN lines = 1..Len(lines) /\ Len(lines) \in Nat
  BY LenProperties
<1>2. Existing(lines) \in Nat
  BY SizesTyped
<1>3. CASE lines = <<>>
  <2>1. Repaired(lines) = lines /\ DOMAIN lines = {}
    BY <1>3 DEF Repaired
  <2> QED
    BY <1>2, <2>1 DEF Whole
<1>4. CASE lines # <<>>
  <2> DEFINE f == Front(lines)
             l == Last(lines)
  <2>1. /\ f \in Seq(LineType) /\ l \in LineType /\ Len(f) = Len(lines) - 1
        /\ \A i \in 1..(Len(lines) - 1) : f[i] = lines[i]
        /\ lines = Append(f, l)
    BY <1>4, FrontLast
  <2>2. Len(lines) > 0 /\ l = lines[Len(lines)]
    BY <1>4, EmptySeq DEF Last
  <2>3. Repaired(lines) = IF l.kind = "whole" THEN lines
                          ELSE IF l.kind = "open" THEN Append(f, [l EXCEPT !.kind = "whole"])
                          ELSE f
    BY <1>4 DEF Repaired
  <2> HIDE DEF f, l
  <2>4. DOMAIN f = 1..(Len(lines) - 1) /\ Whole(f)
    <3>1. DOMAIN f = 1..(Len(lines) - 1)
      BY <2>1, LenProperties
    <3> QED
      BY <2>1, <3>1 DEF Whole, WholeBefore
  <2>5. Existing(f) \in Nat /\ l.size \in Nat /\ Existing(lines) = Existing(f) + l.size
        /\ Records(lines) = WithLine(Records(f), l)
    <3>1. Existing(f) \in Nat /\ l.size \in Nat
      BY <2>1, SizesTyped DEF LineType
    <3>2. Existing(Append(f, l)) = Existing(f) + l.size
      BY <2>1, ExistingAppend
    <3>3. Records(Append(f, l)) = WithLine(Records(f), l)
      BY <2>1, RecordsAppend
    <3> QED
      BY <2>1, <3>1, <3>2, <3>3
  <2>6. CASE l.kind = "whole"
    <3>1. Repaired(lines) = lines
      BY <2>3, <2>6
    <3>2. Whole(lines)
      <4>1. \A i \in DOMAIN lines : i = Len(lines) \/ i \in 1..(Len(lines) - 1)
        BY <1>1
      <4> QED
        BY <2>2, <2>6, <4>1 DEF Whole, WholeBefore
    <3> QED
      BY <1>2, <3>1, <3>2
  <2>7. CASE l.kind = "open"
    <3> DEFINE w == [l EXCEPT !.kind = "whole"]
    <3>1. w \in LineType /\ w.kind = "whole" /\ w.id = l.id /\ w.size = l.size
      BY <2>1 DEF LineType
    <3>2. Repaired(lines) = Append(f, w)
      BY <2>3, <2>7
    <3> HIDE DEF w
    <3>3. /\ Append(f, w) \in Seq(LineType) /\ Len(Append(f, w)) = Len(f) + 1
          /\ \A i \in 1..Len(f) : Append(f, w)[i] = f[i]
          /\ Append(f, w)[Len(f) + 1] = w
      BY <2>1, <3>1, AppendProperties
    <3>4. DOMAIN Append(f, w) = 1..Len(lines)
          /\ \A i \in 1..Len(lines) : i = Len(f) + 1 \/ i \in 1..Len(f)
      BY <1>1, <2>1, <3>3, LenProperties
    <3>5. Whole(Append(f, w))
      BY <2>1, <2>4, <3>1, <3>3, <3>4 DEF Whole
    <3>6. Records(Append(f, w)) = WithLine(Records(f), w)
      BY <2>1, <3>1, RecordsAppend
    <3>7. WithLine(Records(f), w) = WithLine(Records(f), l)
      BY <2>7, <3>1 DEF WithLine
    <3>8. Existing(Append(f, w)) = Existing(f) + w.size
      BY <2>1, <3>1, ExistingAppend
    <3>9. Existing(Append(f, w)) <= Existing(lines)
      BY <1>2, <2>5, <3>1, <3>8
    <3> QED
      BY <2>5, <3>2, <3>3, <3>5, <3>6, <3>7, <3>9
  <2>8. CASE l.kind = "part"
    <3>1. Repaired(lines) = f
      BY <2>3, <2>8
    <3>2. Records(lines) = Records(f)
      BY <2>5, <2>8 DEF WithLine
    <3>3. Existing(f) <= Existing(lines)
      BY <2>5
    <3> QED
      BY <2>1, <2>4, <3>1, <3>2, <3>3
  <2>9. l.kind \in {"whole", "open", "part"}
    BY <2>1 DEF LineType
  <2> QED
    BY <2>6, <2>7, <2>8, <2>9
<1> QED
  BY <1>3, <1>4

-----------------------------------------------------------------------------
(* The texts, and the records of the backups.                              *)

LEMMA FunctionIsSeq ==
    ASSUME NEW S, NEW n \in Nat, NEW f \in [1..n -> S]
    PROVE  f \in Seq(S) /\ Len(f) = n
OBVIOUS

Ids(job, n) == [i \in 1..n |-> job.from + i]

LEMMA JobTyped ==
    ASSUME NEW job \in Job \cup {NoJob}
    PROVE  job.from \in Nat /\ job.sizes \in Seq(Nat)
<1>1. CASE job = NoJob
  BY <1>1, EmptySeq DEF NoJob
<1>2. CASE job \in Job
  <2>1. job.from \in Nat /\ job.sizes \in Text
    BY <1>2 DEF Job
  <2>2. job.sizes \in Seq(Nat \ {0})
    BY <2>1, TextAssumption
  <2>3. job.sizes \in Seq(Nat)
    <3>1. Nat \ {0} \subseteq Nat
      OBVIOUS
    <3> QED
      BY <2>2, <3>1, SeqMonotonic
  <2> QED
    BY <2>1, <2>3
<1> QED
  BY <1>1, <1>2

LEMMA LinesTyped ==
    ASSUME NEW job \in Job \cup {NoJob}
    PROVE  /\ Len(Lines(job)) = Len(job.sizes)
           /\ \A i \in 1..Len(job.sizes) :
                 /\ Lines(job)[i] \in LineType /\ Lines(job)[i].kind = "whole"
                 /\ Lines(job)[i].id = job.from + i
                 /\ Lines(job)[i].size = job.sizes[i]
<1> DEFINE n == Len(job.sizes)
<1>1. job.from \in Nat /\ job.sizes \in Seq(Nat)
  BY JobTyped
<1>2. n \in Nat /\ DOMAIN job.sizes = 1..n /\ \A i \in 1..n : job.sizes[i] \in Nat
  BY <1>1, LenProperties, ElementOfSeq
<1>3. Lines(job) = [i \in 1..n |-> Line(job.from + i, job.sizes[i], "whole")]
  BY <1>2 DEF Lines
<1> HIDE DEF n
<1>4. \A i \in 1..n : /\ Lines(job)[i] = [id |-> job.from + i, size |-> job.sizes[i],
                                         kind |-> "whole"]
                      /\ job.from + i \in Nat
  BY <1>1, <1>2, <1>3 DEF Line
<1>5. \A i \in 1..n : /\ Lines(job)[i] \in LineType /\ Lines(job)[i].kind = "whole"
                      /\ Lines(job)[i].id = job.from + i
                      /\ Lines(job)[i].size = job.sizes[i]
  <2> SUFFICES ASSUME NEW i \in 1..n
               PROVE  /\ Lines(job)[i] \in LineType /\ Lines(job)[i].kind = "whole"
                      /\ Lines(job)[i].id = job.from + i
                      /\ Lines(job)[i].size = job.sizes[i]
    OBVIOUS
  <2> DEFINE id == job.from + i
             size == job.sizes[i]
  <2>1. id \in Nat /\ size \in Nat
        /\ Lines(job)[i] = [id |-> id, size |-> size, kind |-> "whole"]
    BY <1>2, <1>4
  <2> HIDE DEF id, size
  <2>2. /\ Lines(job)[i] \in LineType /\ Lines(job)[i].kind = "whole"
        /\ Lines(job)[i].id = id /\ Lines(job)[i].size = size
    BY <2>1 DEF LineType
  <2> QED
    BY <2>2 DEF id, size
<1>6. Len(Lines(job)) = n
  <2>1. Lines(job) \in [1..n -> LineType]
    BY <1>3, <1>5
  <2> QED
    BY <1>2, <2>1, FunctionIsSeq
<1> QED
  BY <1>5, <1>6 DEF n

LEMMA IdsGrow ==
    ASSUME NEW job \in Job \cup {NoJob}, NEW n \in Nat
    PROVE  /\ Ids(job, n) \in Seq(Nat) /\ Ids(job, 0) = <<>>
           /\ Append(Ids(job, n), job.from + (n + 1)) = Ids(job, n + 1)
<1>1. job.from \in Nat
  BY JobTyped
<1>2. \A k \in Nat : Ids(job, k) \in Seq(Nat) /\ Len(Ids(job, k)) = k
                     /\ \A i \in 1..k : Ids(job, k)[i] = job.from + i
  BY <1>1 DEF Ids
<1>3. Ids(job, 0) = <<>>
  <2>1. <<>> \in Seq(Nat) /\ Len(<<>>) = 0
    BY EmptySeq
  <2>2. Ids(job, 0) \in Seq(Nat) /\ Len(Ids(job, 0)) = 0
    BY <1>2
  <2> QED
    BY <2>1, <2>2, SeqEqual
<1> DEFINE s == Append(Ids(job, n), job.from + (n + 1))
           t == Ids(job, n + 1)
<1>4. job.from + (n + 1) \in Nat /\ n + 1 \in Nat
  BY <1>1
<1>5. /\ s \in Seq(Nat) /\ Len(s) = n + 1 /\ s[n + 1] = job.from + (n + 1)
      /\ \A i \in 1..n : s[i] = Ids(job, n)[i]
  <2>1. Ids(job, n) \in Seq(Nat) /\ Len(Ids(job, n)) = n
    BY <1>2
  <2> QED
    BY <1>4, <2>1, AppendProperties
<1>6. t \in Seq(Nat) /\ Len(t) = n + 1 /\ \A i \in 1..(n + 1) : t[i] = job.from + i
  BY <1>2, <1>4
<1> HIDE DEF s, t
<1>7. \A i \in 1..(n + 1) : s[i] = t[i]
  <2> SUFFICES ASSUME NEW i \in 1..(n + 1) PROVE s[i] = t[i]
    OBVIOUS
  <2>1. i = n + 1 \/ i \in 1..n
    OBVIOUS
  <2> QED
    BY <1>2, <1>5, <1>6, <2>1
<1>8. s = t
  BY <1>5, <1>6, <1>7, SeqEqual
<1> QED
  BY <1>2, <1>3, <1>8 DEF s, t

-----------------------------------------------------------------------------
\* The records of the backups, and of the first of them from the oldest on
Older(b) ==
    LET older[i \in 0..Backups] ==
            IF i = 0 THEN <<>> ELSE older[i - 1] \o Records(b[Backups - i + 1])
    IN  older[Backups]

OlderUpTo(g, b) ==
    /\ g[0] = <<>> /\ Older(b) = g[Backups]
    /\ \A i \in 1..Backups : g[i] = g[i - 1] \o Records(b[Backups - i + 1])
    /\ \A i \in 0..Backups : g[i] \in Seq(Nat)

Stored == [1..Backups -> Seq(LineType)]

LEMMA HistoryIs == \A d : History(d) = Older(d.backup) \o Records(d.file)
BY DEF History, Older

LEMMA OlderFunction == ASSUME NEW b \in Stored PROVE \E g : OlderUpTo(g, b)
<1> DEFINE n == Backups
           V == Seq(Nat)
           step == [p \in (1..n) \X V |-> p[2] \o Records(b[n - p[1] + 1])]
           Is(g) == g = [i \in 0..n |-> IF i = 0 THEN <<>>
                                        ELSE g[i - 1] \o Records(b[n - i + 1])]
           older == CHOOSE g : Is(g)
<1>1. n \in Nat
  BY LimitAssumption
<1> HIDE DEF n
<1>2. \A i \in 1..n : Records(b[n - i + 1]) \in Seq(Nat)
  <2> SUFFICES ASSUME NEW i \in 1..n PROVE Records(b[n - i + 1]) \in Seq(Nat)
    OBVIOUS
  <2>1. n - i + 1 \in 1..n
    BY <1>1
  <2>2. b[n - i + 1] \in Seq(LineType)
    BY <2>1 DEF n, Stored
  <2> QED
    BY <2>2, RecordsTyped
<1>3. \A i \in 1..n, v \in V : v \o Records(b[n - i + 1]) \in V
  BY <1>2, ConcatProperties
<1>4. step \in Steps(n, V)
  BY <1>3 DEF Steps
<1>5. PICK h : Recursive(h, n, V, <<>>, step)
  <2>1. <<>> \in V
    BY EmptySeq
  <2> HIDE DEF V, step
  <2> QED
    BY <1>1, <1>4, <2>1, RecursionExists
<1>6. \A i \in 1..n : i \in 0..n /\ i # 0 /\ i - 1 \in 0..n
  BY <1>1
<1>7. /\ h \in [0..n -> V] /\ h[0] = <<>>
      /\ \A i \in 1..n : h[i] = h[i - 1] \o Records(b[n - i + 1])
  BY <1>5, <1>6 DEF Recursive
<1>8. Is(h)
  <2>1. \A i \in 0..n : i # 0 => i \in 1..n
    BY <1>1
  <2>2. \A i \in 0..n : h[i] = IF i = 0 THEN <<>> ELSE h[i - 1] \o Records(b[n - i + 1])
    BY <1>7, <2>1
  <2>3. h = [i \in 0..n |-> h[i]]
    BY <1>7
  <2> QED
    BY <2>2, <2>3
<1>9. Is(older)
  <2> HIDE DEF Is
  <2> QED
    BY <1>8
<1>10. Older(b) = older[n]
  BY DEF Older, n
<1> HIDE DEF older
<1>11. 0 \in 0..n
  BY <1>1
<1>12. /\ older[0] = <<>>
       /\ \A i \in 1..n : older[i] = older[i - 1] \o Records(b[n - i + 1])
  BY <1>6, <1>9, <1>11
<1>13. \A i \in 0..n : older[i] \in Seq(Nat)
  <2> DEFINE T == {i \in 0..n : older[i] \in Seq(Nat)}
  <2>1. 0 \in T
    BY <1>11, <1>12, EmptySeq
  <2>2. ASSUME NEW i \in 0..(n - 1), i \in T PROVE i + 1 \in T
    <3>1. i + 1 \in 1..n /\ i + 1 \in 0..n /\ (i + 1) - 1 = i
      BY <1>1
    <3>2. older[i + 1] = older[i] \o Records(b[n - (i + 1) + 1]) /\ older[i] \in Seq(Nat)
      BY <1>12, <2>2, <3>1
    <3>3. older[i + 1] \in V
      BY <1>3, <3>1, <3>2
    <3> QED
      BY <3>1, <3>3
  <2> HIDE DEF T
  <2>3. 0..n \subseteq T
    BY <1>1, <2>1, <2>2, AllUpTo
  <2> QED
    BY <2>3 DEF T
<1>14. OlderUpTo(older, b)
  BY <1>10, <1>12, <1>13 DEF n, OlderUpTo
<1> QED
  BY <1>14

LEMMA OlderTyped == ASSUME NEW b \in Stored PROVE Older(b) \in Seq(Nat)
<1>1. PICK g : OlderUpTo(g, b)
  BY OlderFunction
<1> QED
  BY <1>1, LimitAssumption DEF OlderUpTo

\* The backups with those from the n-th on moved, for other lines
Gap(b, n, lines) ==
    [i \in 1..Backups |-> IF i < n THEN b[i] ELSE IF i = n THEN lines ELSE b[i - 1]]

LEMMA GapTyped ==
    ASSUME NEW b \in Stored, NEW n \in 1..Backups, NEW lines \in Seq(LineType)
    PROVE  Gap(b, n, lines) \in Stored
<1>1. ASSUME NEW i \in 1..Backups
      PROVE  (IF i < n THEN b[i] ELSE IF i = n THEN lines ELSE b[i - 1]) \in Seq(LineType)
  <2>1. ~(i < n) /\ i # n => i - 1 \in 1..Backups
    BY LimitAssumption
  <2> QED
    BY <2>1 DEF Stored
<1> QED
  BY <1>1 DEF Gap, Stored

\* No records but those of the oldest backup are lost when backups move.
LEMMA GapDropsOldest ==
    ASSUME NEW b \in Stored, NEW n \in 1..Backups, NEW lines \in Seq(LineType),
           n = 1 \/ lines = <<>>
    PROVE  Records(b[Backups]) \o Older(Gap(b, n, lines)) = Older(b) \o Records(lines)
<1> DEFINE m == Backups
           c == Gap(b, n, lines)
           o == Records(b[m])
           S == Seq(Nat)
<1>1. m \in Nat /\ m > 0 /\ n \in 1..m /\ m \in 1..m
  BY LimitAssumption
<1>2. c \in Stored
  BY GapTyped
<1>3. \A i \in 1..m : c[i] = IF i < n THEN b[i] ELSE IF i = n THEN lines ELSE b[i - 1]
  BY DEF Gap
<1>4. \A i \in 1..m : Records(b[i]) \in S
  BY RecordsTyped DEF Stored
<1>5. Records(lines) \in S /\ o \in S
  BY <1>1, <1>4, RecordsTyped
<1>6. PICK g : OlderUpTo(g, b)
  BY OlderFunction
<1> HIDE DEF c
<1>7. PICK h : OlderUpTo(h, c)
  BY <1>2, OlderFunction
<1> HIDE DEF m
<1>8. /\ g[0] = <<>> /\ Older(b) = g[m] /\ h[0] = <<>> /\ Older(c) = h[m]
      /\ \A i \in 1..m : g[i] = g[i - 1] \o Records(b[m - i + 1])
      /\ \A i \in 1..m : h[i] = h[i - 1] \o Records(c[m - i + 1])
      /\ \A i \in 0..m : g[i] \in S /\ h[i] \in S
  BY <1>6, <1>7 DEF OlderUpTo, m
<1>9. \A x, y, z \in S : (x \o y) \o z = x \o (y \o z)
  <2> SUFFICES ASSUME NEW x \in Seq(Nat), NEW y \in Seq(Nat), NEW z \in Seq(Nat)
               PROVE  (x \o y) \o z = x \o (y \o z)
    OBVIOUS
  <2> QED
    BY ConcatAssociative
<1>10. \A x \in S : x \o <<>> = x /\ <<>> \o x = x
  BY ConcatEmptySeq
<1> HIDE DEF S, o
<1>11. o \o h[m - n] = g[(m - n) + 1]
  <2> DEFINE T == {i \in 0..(m - n) : o \o h[i] = g[i + 1]}
  <2>1. 0 \in T
    <3>1. 0 + 1 \in 1..m /\ (0 + 1) - 1 = 0 /\ m - (0 + 1) + 1 = m /\ 0 \in 0..(m - n)
      BY <1>1
    <3>2. g[0 + 1] = <<>> \o o
      BY <1>8, <3>1 DEF o
    <3>3. o \o h[0] = o /\ g[0 + 1] = o
      BY <1>5, <1>8, <1>10, <3>2
    <3> QED
      BY <3>1, <3>3
  <2>2. ASSUME NEW i \in 0..((m - n) - 1), i \in T PROVE i + 1 \in T
    <3>1. /\ i + 1 \in 1..m /\ (i + 1) + 1 \in 1..m /\ i \in 0..m
          /\ (i + 1) - 1 = i /\ ((i + 1) + 1) - 1 = i + 1 /\ i + 1 \in 0..(m - n)
          /\ m - ((i + 1) + 1) + 1 = m - (i + 1) /\ (m - (i + 1) + 1) - 1 = m - (i + 1)
          /\ m - (i + 1) + 1 \in 1..m /\ m - (i + 1) \in 1..m
          /\ ~(m - (i + 1) + 1 < n) /\ m - (i + 1) + 1 # n
      BY <1>1
    <3>2. c[m - (i + 1) + 1] = b[m - (i + 1)]
      BY <1>3, <3>1
    <3> DEFINE r == Records(b[m - (i + 1)])
    <3>3. h[i + 1] = h[i] \o r /\ g[(i + 1) + 1] = g[i + 1] \o r
      BY <1>8, <3>1, <3>2
    <3>4. r \in S /\ h[i] \in S
      BY <1>4, <1>8, <3>1
    <3> HIDE DEF r
    <3>5. o \o (h[i] \o r) = (o \o h[i]) \o r
      BY <1>5, <1>9, <3>4
    <3>6. o \o h[i] = g[i + 1]
      BY <2>2
    <3> QED
      BY <3>1, <3>3, <3>5, <3>6
  <2> HIDE DEF T
  <2>3. m - n \in Nat
    BY <1>1
  <2>4. 0..(m - n) \subseteq T
    BY <2>1, <2>2, <2>3, AllUpTo
  <2> QED
    BY <2>3, <2>4 DEF T
<1>12. o \o h[(m - n) + 1] = g[(m - n) + 1] \o Records(lines)
  <2>1. /\ (m - n) + 1 \in 1..m /\ ((m - n) + 1) - 1 = m - n /\ m - n \in 0..m
        /\ m - ((m - n) + 1) + 1 = n /\ ~(n < n)
    BY <1>1
  <2>2. c[n] = lines
    BY <1>1, <1>3, <2>1
  <2>3. h[(m - n) + 1] = h[m - n] \o Records(lines) /\ h[m - n] \in S
    BY <1>8, <2>1, <2>2
  <2>4. o \o (h[m - n] \o Records(lines)) = (o \o h[m - n]) \o Records(lines)
    BY <1>5, <1>9, <2>3
  <2> QED
    BY <1>11, <2>3, <2>4
<1>13. CASE n = 1
  <2>1. (m - n) + 1 = m
    BY <1>1, <1>13
  <2> QED
    BY <1>8, <1>12, <2>1 DEF o, c, m
<1>14. CASE lines = <<>>
  <2> DEFINE k == (m - n) + 1
             T == {i \in 0..(n - 1) : o \o h[k + i] = g[k + i]}
  <2>1. k \in Nat /\ k \in 0..m /\ k + 0 = k /\ k + (n - 1) = m /\ n - 1 \in Nat
    BY <1>1
  <2>2. o \o h[k] = g[k]
    BY <1>8, <1>10, <1>12, <1>14, <2>1, RecordsEmpty
  <2> HIDE DEF k
  <2>3. 0 \in T
    BY <2>1, <2>2
  <2>4. ASSUME NEW i \in 0..((n - 1) - 1), i \in T PROVE i + 1 \in T
    <3> DEFINE j == k + (i + 1)
    <3>1. /\ j \in 1..m /\ j - 1 = k + i /\ k + i \in 0..m /\ i + 1 \in 0..(n - 1)
          /\ m - j + 1 \in 1..m /\ m - j + 1 < n
      BY <1>1, <2>1 DEF k
    <3> HIDE DEF j
    <3>2. c[m - j + 1] = b[m - j + 1]
      BY <1>3, <3>1
    <3> DEFINE r == Records(b[m - j + 1])
    <3>3. h[j] = h[k + i] \o r /\ g[j] = g[k + i] \o r
      BY <1>8, <3>1, <3>2
    <3>4. r \in S /\ h[k + i] \in S
      BY <1>4, <1>8, <3>1
    <3> HIDE DEF r
    <3>5. o \o (h[k + i] \o r) = (o \o h[k + i]) \o r
      BY <1>5, <1>9, <3>4
    <3>6. o \o h[k + i] = g[k + i]
      BY <2>4
    <3>7. o \o h[j] = g[j]
      BY <3>3, <3>5, <3>6
    <3> QED
      BY <3>1, <3>7 DEF j
  <2> HIDE DEF T
  <2>5. 0..(n - 1) \subseteq T
    BY <2>1, <2>3, <2>4, AllUpTo
  <2>6. o \o h[m] = g[m]
    <3>1. n - 1 \in 0..(n - 1)
      BY <2>1
    <3>2. o \o h[k + (n - 1)] = g[k + (n - 1)]
      BY <2>5, <3>1 DEF T
    <3> QED
      BY <2>1, <3>2
  <2>7. g[m] \o Records(lines) = g[m]
    <3>1. g[m] \in S /\ Records(lines) = <<>>
      <4>1. m \in 0..m
        BY <1>1
      <4> QED
        BY <1>8, <1>14, <4>1, RecordsEmpty
    <3>2. g[m] \o <<>> = g[m]
      BY <1>10, <3>1
    <3> QED
      BY <3>1, <3>2
  <2> QED
    BY <1>8, <2>6, <2>7 DEF o, c, m
<1> QED
  BY <1>13, <1>14

-----------------------------------------------------------------------------
(* What a line does to a disk.                                             *)

Disks == [file : Seq(LineType), backup : Stored]

Readable(d) ==
    /\ Existing(d.file) <= MaxFile /\ WholeBefore(d.file)
    /\ \A i \in 1..Backups : Existing(d.backup[i]) <= MaxFile /\ Whole(d.backup[i])

LEMMA AppendConcat ==
    ASSUME NEW s \in Seq(Nat), NEW t \in Seq(Nat), NEW x \in Nat
    PROVE  Append(s \o t, x) = s \o Append(t, x)
<1>1. s \o t \in Seq(Nat) /\ <<x>> \in Seq(Nat)
  BY ConcatProperties
<1>2. Append(s \o t, x) = (s \o t) \o <<x>> /\ Append(t, x) = t \o <<x>>
  BY <1>1, AppendIsConcat
<1>3. (s \o t) \o <<x>> = s \o (t \o <<x>>)
  BY <1>1, ConcatAssociative
<1> QED
  BY <1>2, <1>3

\* What a line does to a disk
LEMMA PutIs ==
    ASSUME NEW d \in Disks, NEW line
    PROVE  IF Full(d, line)
           THEN /\ Put(d, line).file = Append(<<>>, line)
                /\ Put(d, line).backup = Gap(d.backup, 1, d.file)
           ELSE /\ Put(d, line).file = Append(d.file, line)
                /\ Put(d, line).backup = d.backup
<1>1. Shifted(d) = [file |-> <<>>, backup |-> Gap(d.backup, 1, d.file)]
  <2>1. \A i \in 1..Backups : ~(i < 1)
    BY LimitAssumption
  <2>2. Gap(d.backup, 1, d.file)
          = [i \in 1..Backups |-> IF i = 1 THEN d.file ELSE d.backup[i - 1]]
    BY <2>1 DEF Gap
  <2> QED
    BY <2>2 DEF Shifted
<1>2. CASE Full(d, line)
  <2>1. Room(d, line) = [file |-> <<>>, backup |-> Gap(d.backup, 1, d.file)]
    BY <1>1, <1>2 DEF Room
  <2>2. Put(d, line) = [Room(d, line) EXCEPT !.file = Append(@, line)]
    BY DEF Put
  <2>3. Put(d, line) = [file |-> Append(<<>>, line), backup |-> Gap(d.backup, 1, d.file)]
    BY <2>1, <2>2
  <2> QED
    BY <1>2, <2>3
<1>3. CASE ~Full(d, line)
  <2>1. Put(d, line) = [d EXCEPT !.file = Append(@, line)]
    BY <1>3 DEF Put, Room
  <2>2. d = [file |-> d.file, backup |-> d.backup]
    BY DEF Disks
  <2>3. Put(d, line) = [file |-> Append(d.file, line), backup |-> d.backup]
    BY <2>1, <2>2
  <2> QED
    BY <1>3, <2>3
<1> QED
  BY <1>2, <1>3

LEMMA PutTyped ==
    ASSUME NEW d \in Disks, NEW line \in LineType PROVE Put(d, line) \in Disks
<1>1. d.file \in Seq(LineType) /\ d.backup \in Stored /\ <<>> \in Seq(LineType)
  BY EmptySeq DEF Disks
<1>2. 1 \in 1..Backups
  BY LimitAssumption
<1>3. /\ Append(<<>>, line) \in Seq(LineType) /\ Append(d.file, line) \in Seq(LineType)
      /\ Gap(d.backup, 1, d.file) \in Stored
  BY <1>1, <1>2, AppendProperties, GapTyped
<1>4. Put(d, line).file \in Seq(LineType) /\ Put(d, line).backup \in Stored
  BY <1>1, <1>3, PutIs
<1>5. Put(d, line) = [file |-> Put(d, line).file, backup |-> Put(d, line).backup]
  <2>1. Room(d, line) = [file |-> Room(d, line).file, backup |-> Room(d, line).backup]
    BY DEF Room, Shifted, Disks
  <2> QED
    BY <2>1 DEF Put
<1> QED
  BY <1>4, <1>5 DEF Disks

-----------------------------------------------------------------------------
\* A write that began on d and has added those records leaves w: the backups have not
\* moved, or once, and then the file has a part of the text and nothing else.
Added(d, ids, size, w) ==
    /\ w \in Disks /\ Readable(w)
    /\ \/ /\ w.backup = d.backup
          /\ Records(w.file) = Records(d.file) \o ids
       \/ /\ \E lines \in Seq(LineType) :
                /\ w.backup = Gap(d.backup, 1, lines)
                /\ Records(lines) \o Records(w.file) = Records(d.file) \o ids
          /\ Existing(w.file) <= size

\* No second rotation
LEMMA FullOnce ==
    ASSUME NEW d \in Disks, NEW ids, NEW size \in Nat, NEW w, Added(d, ids, size, w),
           NEW line \in LineType, size + line.size <= MaxFile, Full(w, line)
    PROVE  w.backup = d.backup /\ Records(w.file) = Records(d.file) \o ids
<1>1. Existing(w.file) \in Nat /\ line.size \in Nat
  <2>1. w.file \in Seq(LineType)
    BY DEF Added, Disks
  <2> QED
    BY <2>1, SizesTyped DEF LineType
<1>2. ~(Existing(w.file) <= size)
  BY <1>1, LimitAssumption DEF Full
<1> QED
  BY <1>2 DEF Added

LEMMA AddedLine ==
    ASSUME NEW d \in Disks, NEW ids \in Seq(Nat), NEW size \in Nat, NEW w,
           Added(d, ids, size, w), Whole(w.file),
           NEW line \in LineType, size + line.size <= MaxFile
    PROVE  /\ Added(d, WithLine(ids, line), size + line.size, Put(w, line))
           /\ line.kind = "whole" => Whole(Put(w, line).file)
<1> DEFINE v == Put(w, line)
<1>1. /\ w \in Disks /\ Readable(w) /\ w.file \in Seq(LineType) /\ w.backup \in Stored
      /\ d.file \in Seq(LineType) /\ line.size \in Nat /\ line.id \in Nat
  BY DEF Added, Disks, LineType
<1>2. v \in Disks
  BY <1>1, PutTyped
<1>3. /\ Records(w.file) \in Seq(Nat) /\ Records(d.file) \in Seq(Nat)
      /\ Existing(w.file) \in Nat /\ DOMAIN w.file = 1..Len(w.file) /\ Len(w.file) \in Nat
  BY <1>1, RecordsTyped, SizesTyped, LenProperties
<1>4. Existing(w.file) <= MaxFile
  BY <1>1 DEF Readable
<1>5. \A s, t \in Seq(Nat) : WithLine(s \o t, line) = s \o WithLine(t, line)
  <2> SUFFICES ASSUME NEW s \in Seq(Nat), NEW t \in Seq(Nat)
               PROVE  WithLine(s \o t, line) = s \o WithLine(t, line)
    OBVIOUS
  <2> DEFINE x == line.id
  <2>1. x \in Nat
    BY <1>1
  <2> HIDE DEF x
  <2>2. Append(s \o t, x) = s \o Append(t, x)
    BY <2>1, AppendConcat
  <2> QED
    BY <2>2 DEF WithLine, x
<1>6. CASE Full(w, line)
  <2>1. /\ v.file = Append(<<>>, line)
        /\ v.backup = Gap(w.backup, 1, w.file)
    BY <1>1, <1>6, PutIs
  <2>2. w.backup = d.backup /\ Records(w.file) = Records(d.file) \o ids
    BY <1>6, FullOnce
  <2>3. <<>> \in Seq(LineType) /\ Len(<<>>) = 0 /\ <<>> \in Seq(Nat)
    BY EmptySeq
  <2> HIDE DEF v
  <2>4. /\ v.file \in Seq(LineType) /\ Len(v.file) = 1 /\ v.file[1] = line
        /\ DOMAIN v.file = 1..1
    <3>1. /\ Append(<<>>, line) \in Seq(LineType) /\ Len(Append(<<>>, line)) = 0 + 1
          /\ Append(<<>>, line)[0 + 1] = line
      BY <2>3, AppendProperties
    <3> QED
      BY <2>1, <3>1, LenProperties
  <2>5. Records(v.file) = WithLine(<<>>, line) /\ Existing(v.file) = 0 + line.size
    <3>1. Records(Append(<<>>, line)) = WithLine(Records(<<>>), line)
      BY <2>3, RecordsAppend
    <3>2. Existing(Append(<<>>, line)) = Existing(<<>>) + line.size
      BY <2>3, ExistingAppend
    <3> QED
      BY <2>1, <3>1, <3>2, RecordsEmpty, ExistingEmpty
  <2>6. Existing(v.file) <= size + line.size /\ Existing(v.file) <= MaxFile
    BY <1>1, <2>5, LimitAssumption
  <2>7. Records(w.file) \o Records(v.file) = Records(d.file) \o WithLine(ids, line)
    <3>1. Records(w.file) \o WithLine(<<>>, line) = WithLine(Records(w.file) \o <<>>, line)
      BY <1>3, <1>5, <2>3
    <3>2. Records(w.file) \o <<>> = Records(w.file)
      BY <1>3, ConcatEmptySeq
    <3>3. WithLine(Records(d.file) \o ids, line) = Records(d.file) \o WithLine(ids, line)
      BY <1>3, <1>5
    <3> QED
      BY <2>2, <2>5, <3>1, <3>2, <3>3
  <2>8. Readable(v)
    <3>1. WholeBefore(v.file)
      BY <2>4 DEF WholeBefore
    <3>2. ASSUME NEW i \in 1..Backups
          PROVE  Existing(v.backup[i]) <= MaxFile /\ Whole(v.backup[i])
      <4>1. v.backup[i] = IF i = 1 THEN w.file ELSE w.backup[i - 1]
        BY <2>1 DEF Gap
      <4>2. CASE i = 1
        BY <1>4, <4>1, <4>2
      <4>3. CASE i # 1
        <5>1. i - 1 \in 1..Backups
          BY <4>3, LimitAssumption
        <5> QED
          BY <1>1, <4>1, <4>3, <5>1 DEF Readable
      <4> QED
        BY <4>2, <4>3
    <3> QED
      BY <2>6, <3>1, <3>2 DEF Readable
  <2>9. line.kind = "whole" => Whole(v.file)
    BY <2>4 DEF Whole
  <2> QED
    BY <1>1, <1>2, <2>1, <2>2, <2>6, <2>7, <2>8, <2>9 DEF Added, v
<1>7. CASE ~Full(w, line)
  <2>1. v.file = Append(w.file, line) /\ v.backup = w.backup
    BY <1>1, <1>7, PutIs
  <2> HIDE DEF v
  <2>2. /\ v.file \in Seq(LineType) /\ Len(v.file) = Len(w.file) + 1
        /\ v.file[Len(w.file) + 1] = line
        /\ \A i \in 1..Len(w.file) : v.file[i] = w.file[i]
    BY <1>1, <2>1, AppendProperties
  <2>3. DOMAIN v.file = 1..(Len(w.file) + 1)
    BY <2>2, LenProperties
  <2>4. Records(v.file) = WithLine(Records(w.file), line)
    BY <1>1, <2>1, RecordsAppend
  <2>5. Existing(v.file) = Existing(w.file) + line.size
    BY <1>1, <2>1, ExistingAppend
  <2>6. Existing(v.file) <= MaxFile
    <3>1. CASE w.file = <<>>
      BY <1>1, <2>5, <3>1, ExistingEmpty, LimitAssumption
    <3>2. CASE w.file # <<>>
      BY <1>1, <1>3, <1>7, <2>5, <3>2, LimitAssumption DEF Full
    <3> QED
      BY <3>1, <3>2
  <2>7. Readable(v)
    <3>1. WholeBefore(v.file)
      <4>1. \A i \in 1..(Len(v.file) - 1) : i \in 1..Len(w.file)
        BY <1>3, <2>2
      <4> QED
        BY <1>3, <2>2, <4>1 DEF Whole, WholeBefore
    <3> QED
      BY <1>1, <2>1, <2>6, <3>1 DEF Readable
  <2>8. line.kind = "whole" => Whole(v.file)
    <3>1. \A i \in 1..(Len(w.file) + 1) : i = Len(w.file) + 1 \/ i \in 1..Len(w.file)
      BY <1>3
    <3> QED
      BY <1>3, <2>2, <2>3, <3>1 DEF Whole
  <2>9. WithLine(Records(d.file) \o ids, line) = Records(d.file) \o WithLine(ids, line)
    BY <1>3, <1>5
  <2>10. CASE w.backup = d.backup /\ Records(w.file) = Records(d.file) \o ids
    <3>1. v.backup = d.backup /\ Records(v.file) = Records(d.file) \o WithLine(ids, line)
      BY <2>1, <2>4, <2>9, <2>10
    <3> QED
      BY <1>2, <2>7, <2>8, <3>1 DEF Added, v
  <2>11. CASE /\ \E lines \in Seq(LineType) :
                   /\ w.backup = Gap(d.backup, 1, lines)
                   /\ Records(lines) \o Records(w.file) = Records(d.file) \o ids
              /\ Existing(w.file) <= size
    <3>1. PICK lines \in Seq(LineType) :
                   /\ w.backup = Gap(d.backup, 1, lines)
                   /\ Records(lines) \o Records(w.file) = Records(d.file) \o ids
      BY <2>11
    <3>2. Records(lines) \in Seq(Nat)
      BY RecordsTyped
    <3>3. Records(lines) \o Records(v.file) = WithLine(Records(lines) \o Records(w.file), line)
      BY <1>3, <1>5, <2>4, <3>2
    <3>4. Records(lines) \o Records(v.file) = Records(d.file) \o WithLine(ids, line)
      BY <2>9, <3>1, <3>3
    <3>5. v.backup = Gap(d.backup, 1, lines)
      BY <2>1, <3>1
    <3>6. Existing(v.file) <= size + line.size
      BY <1>1, <1>3, <2>5, <2>11
    <3> QED
      BY <1>2, <2>7, <2>8, <3>4, <3>5, <3>6 DEF Added, v
  <2> QED
    BY <2>10, <2>11 DEF Added
<1> QED
  BY <1>6, <1>7

-----------------------------------------------------------------------------
(* What a write does.                                                      *)

\* What a write does, line after line
WroteUpTo(after, d, job, n) ==
    /\ Wrote(d, Lines(job), n) = after[n] /\ after[0] = [d EXCEPT !.file = Repaired(@)]
    /\ \A i \in 1..n : after[i] = Put(after[i - 1], Lines(job)[i])

LEMMA RepairedTyped ==
    ASSUME NEW d \in Disks, Readable(d)
    PROVE  LET r == [d EXCEPT !.file = Repaired(@)]
           IN  Added(d, <<>>, 0, r) /\ Whole(r.file)
<1> DEFINE r == [d EXCEPT !.file = Repaired(@)]
<1>1. /\ d = [file |-> d.file, backup |-> d.backup] /\ d.file \in Seq(LineType)
      /\ d.backup \in Stored /\ WholeBefore(d.file) /\ Existing(d.file) <= MaxFile
  BY DEF Disks, Readable
<1>2. r = [file |-> Repaired(d.file), backup |-> d.backup]
  BY <1>1
<1>3. r.file = Repaired(d.file) /\ r.backup = d.backup
  BY <1>2
<1> HIDE DEF r
<1>4. /\ Repaired(d.file) \in Seq(LineType) /\ Whole(Repaired(d.file))
      /\ Records(Repaired(d.file)) = Records(d.file)
      /\ Existing(Repaired(d.file)) <= Existing(d.file)
  BY <1>1, RepairedIs
<1>5. Existing(r.file) <= MaxFile
  <2>1. Existing(d.file) \in Nat /\ Existing(r.file) \in Nat
    BY <1>1, <1>3, <1>4, SizesTyped
  <2> QED
    BY <1>1, <1>3, <1>4, <2>1, LimitAssumption
<1>6. WholeBefore(r.file)
  <2>1. DOMAIN r.file = 1..Len(r.file) /\ Len(r.file) \in Nat
    BY <1>3, <1>4, LenProperties
  <2> QED
    BY <1>3, <1>4, <2>1 DEF Whole, WholeBefore
<1>7. r \in Disks /\ Readable(r)
  BY <1>1, <1>2, <1>3, <1>4, <1>5, <1>6 DEF Disks, Readable
<1>8. Records(r.file) = Records(d.file) \o <<>>
  <2>1. Records(d.file) \in Seq(Nat)
    BY <1>1, RecordsTyped
  <2> QED
    BY <1>3, <1>4, <2>1, ConcatEmptySeq
<1>9. Added(d, <<>>, 0, r) /\ Whole(r.file)
  BY <1>3, <1>4, <1>7, <1>8 DEF Added
<1> QED
  BY <1>9 DEF r

LEMMA WroteFunction ==
    ASSUME NEW d \in Disks, Readable(d), NEW job \in Job \cup {NoJob},
           NEW n \in 0..Len(job.sizes)
    PROVE  \E after : WroteUpTo(after, d, job, n)
<1> DEFINE L(i) == Lines(job)[i]
           start == [d EXCEPT !.file = Repaired(@)]
           step == [p \in (1..n) \X Disks |-> Put(p[2], L(p[1]))]
           Is(g) == g = [i \in 0..n |-> IF i = 0 THEN start ELSE Put(g[i - 1], L(i))]
           after == CHOOSE g : Is(g)
<1>1. n \in Nat /\ \A i \in 1..n : L(i) \in LineType
  <2>1. Len(job.sizes) \in Nat
    BY JobTyped, LenProperties
  <2>2. n \in Nat /\ \A i \in 1..n : i \in 1..Len(job.sizes)
    BY <2>1
  <2> QED
    BY <2>2, LinesTyped
<1>2. Wrote(d, Lines(job), n) = after[n]
  BY DEF Wrote
<1> HIDE DEF L
<1>3. start \in Disks
  BY RepairedTyped DEF Added
<1> HIDE DEF start
<1>4. step \in Steps(n, Disks)
  BY <1>1, PutTyped DEF Steps
<1>5. PICK h : Recursive(h, n, Disks, start, step)
  <2> HIDE DEF step
  <2> QED
    BY <1>1, <1>3, <1>4, RecursionExists
<1>6. \A i \in 1..n : i \in 0..n /\ i # 0 /\ i - 1 \in 0..n
  BY <1>1
<1>7. /\ h \in [0..n -> Disks] /\ h[0] = start
      /\ \A i \in 1..n : h[i] = Put(h[i - 1], L(i))
  BY <1>5, <1>6 DEF Recursive
<1>8. Is(h)
  <2>1. \A i \in 0..n : i # 0 => i \in 1..n
    BY <1>1
  <2>2. \A i \in 0..n : h[i] = IF i = 0 THEN start ELSE Put(h[i - 1], L(i))
    BY <1>7, <2>1
  <2>3. h = [i \in 0..n |-> h[i]]
    BY <1>7
  <2> QED
    BY <2>2, <2>3
<1>9. Is(after)
  <2> HIDE DEF Is
  <2> QED
    BY <1>8
<1> HIDE DEF after
<1>10. 0 \in 0..n
  BY <1>1
<1>11. after[0] = start /\ \A i \in 1..n : after[i] = Put(after[i - 1], L(i))
  BY <1>6, <1>9, <1>10
<1> QED
  BY <1>2, <1>11 DEF WroteUpTo, L, start

\* A write that stops after some lines has added their records.
LEMMA WroteAdds ==
    ASSUME NEW d \in Disks, Readable(d), NEW job \in Job \cup {NoJob},
           NEW n \in 0..Len(job.sizes), Total(job.sizes) <= MaxFile,
           NEW g, Sums(g, job.sizes)
    PROVE  /\ Added(d, Ids(job, n), g[n], Wrote(d, Lines(job), n))
           /\ Whole(Wrote(d, Lines(job), n).file)
<1>1. PICK after : WroteUpTo(after, d, job, n)
  BY WroteFunction
<1>2. n \in Nat /\ Len(job.sizes) \in Nat /\ n <= Len(job.sizes)
      /\ job.sizes \in Seq(Nat) /\ job.from \in Nat
  <2>1. Len(job.sizes) \in Nat
    BY JobTyped, LenProperties
  <2> QED
    BY <2>1, JobTyped
<1> DEFINE T == {i \in 0..n : Added(d, Ids(job, i), g[i], after[i]) /\ Whole(after[i].file)}
<1>3. 0 \in T
  <2>1. Ids(job, 0) = <<>>
    <3>1. 0 \in Nat
      OBVIOUS
    <3> QED
      BY <3>1, IdsGrow
  <2>2. g[0] = 0 /\ after[0] = [d EXCEPT !.file = Repaired(@)] /\ 0 \in 0..n
    BY <1>1, <1>2 DEF Sums, WroteUpTo
  <2>3. Added(d, <<>>, 0, after[0]) /\ Whole(after[0].file)
    BY <2>2, RepairedTyped
  <2> QED
    BY <2>1, <2>2, <2>3
<1>4. ASSUME NEW i \in 0..(n - 1), i \in T PROVE i + 1 \in T
  <2>1. /\ i \in Nat /\ i + 1 \in 1..n /\ i + 1 \in 0..n /\ (i + 1) - 1 = i
        /\ i + 1 \in 1..Len(job.sizes) /\ i \in 0..Len(job.sizes)
        /\ i + 1 \in 0..Len(job.sizes)
    BY <1>2
  <2> DEFINE line == Lines(job)[i + 1]
  <2>2. /\ line \in LineType /\ line.kind = "whole" /\ line.id = job.from + (i + 1)
        /\ line.size = job.sizes[i + 1]
    BY <2>1, LinesTyped
  <2>3. after[i + 1] = Put(after[i], line)
    BY <1>1, <2>1 DEF WroteUpTo
  <2>4. g[i + 1] = g[i] + line.size
    BY <2>1, <2>2 DEF Sums
  <2> HIDE DEF line
  <2>5. g[i] \in Nat /\ g[i] + line.size <= MaxFile
    <3>1. g[i] \in Nat /\ g[i + 1] \in Nat /\ g[i + 1] <= Total(job.sizes)
      BY <1>2, <2>1, SumsGrow
    <3>2. Total(job.sizes) \in Nat
      BY <1>2, TotalType
    <3> QED
      BY <2>4, <3>1, <3>2, LimitAssumption
  <2>6. Ids(job, i) \in Seq(Nat) /\ WithLine(Ids(job, i), line) = Ids(job, i + 1)
    BY <2>1, <2>2, IdsGrow DEF WithLine
  <2>7. Added(d, Ids(job, i), g[i], after[i]) /\ Whole(after[i].file)
    BY <1>4
  <2>8. /\ Added(d, WithLine(Ids(job, i), line), g[i] + line.size, Put(after[i], line))
        /\ Whole(Put(after[i], line).file)
    BY <2>2, <2>5, <2>6, <2>7, AddedLine
  <2> QED
    BY <2>1, <2>3, <2>4, <2>6, <2>8
<1> HIDE DEF T
<1>5. 0..n \subseteq T
  BY <1>2, <1>3, <1>4, AllUpTo
<1>6. n \in T /\ Wrote(d, Lines(job), n) = after[n]
  BY <1>1, <1>2, <1>5 DEF WroteUpTo
<1> QED
  BY <1>6 DEF T

-----------------------------------------------------------------------------
(* What a write keeps.                                                     *)

\* What sequences of numbers make of concatenation
Numbers == Seq(Nat)

LEMMA JoinTyped == \A x, y \in Numbers : x \o y \in Numbers
<1> SUFFICES ASSUME NEW x \in Seq(Nat), NEW y \in Seq(Nat) PROVE x \o y \in Seq(Nat)
  BY DEF Numbers
<1> QED
  BY ConcatProperties

LEMMA JoinAssociates == \A x, y, z \in Numbers : (x \o y) \o z = x \o (y \o z)
<1> SUFFICES ASSUME NEW x \in Seq(Nat), NEW y \in Seq(Nat), NEW z \in Seq(Nat)
             PROVE  (x \o y) \o z = x \o (y \o z)
  BY DEF Numbers
<1> QED
  BY ConcatAssociative, SMTT(60)

LEMMA JoinEmpty == \A x \in Numbers : x \o <<>> = x
<1> SUFFICES ASSUME NEW x \in Seq(Nat) PROVE x \o <<>> = x
  BY DEF Numbers
<1> QED
  BY ConcatEmptySeq

LEMMA JoinCancels == \A x, y, z \in Numbers : x \o y = x \o z => y = z
<1> SUFFICES ASSUME NEW x \in Seq(Nat), NEW y \in Seq(Nat), NEW z \in Seq(Nat),
                    x \o y = x \o z
             PROVE  y = z
  BY DEF Numbers
<1> QED
  BY ConcatSimplifications

\* What follows a prefix
LEMMA AfterPrefix ==
    ASSUME NEW x \in Numbers, NEW y \in Numbers
    PROVE  SubSeq(x \o y, Len(x) + 1, Len(x \o y)) = y
<1> DEFINE c == x \o y
           n == Len(x)
           s == SubSeq(c, n + 1, Len(c))
<1>1. /\ c \in Seq(Nat) /\ n \in Nat /\ Len(y) \in Nat /\ Len(c) = n + Len(y)
      /\ \A i \in 1..(n + Len(y)) : c[i] = IF i <= n THEN x[i] ELSE y[i - n]
      /\ y \in Seq(Nat)
  <2>1. x \in Seq(Nat) /\ y \in Seq(Nat)
    BY DEF Numbers
  <2> QED
    BY <2>1, ConcatProperties
<1> HIDE DEF c, n
<1>2. /\ n + 1 \in Int /\ Len(c) \in Int
      /\ (IF n + 1 <= Len(c) THEN Len(c) - (n + 1) + 1 ELSE 0) = Len(y)
      /\ Len(c) - (n + 1) + 1 = Len(y)
  BY <1>1
<1>3. \A i \in (n + 1)..Len(c) : c[i] \in Nat
  <2>1. \A i \in (n + 1)..Len(c) : i \in 1..Len(c)
    BY <1>1
  <2> QED
    BY <1>1, <2>1, ElementOfSeq
<1>4. /\ s \in Seq(Nat) /\ Len(s) = (IF n + 1 <= Len(c) THEN Len(c) - (n + 1) + 1 ELSE 0)
      /\ \A i \in 1..(Len(c) - (n + 1) + 1) : s[i] = c[n + 1 + i - 1]
  BY <1>2, <1>3, SubSeqProperties
<1> HIDE DEF s
<1>5. s \in Seq(Nat) /\ Len(s) = Len(y) /\ \A i \in 1..Len(y) : s[i] = c[n + 1 + i - 1]
  BY <1>2, <1>4
<1>6. ASSUME NEW i \in 1..Len(y) PROVE s[i] = y[i]
  <2>1. /\ n + 1 + i - 1 = n + i /\ n + i \in 1..(n + Len(y)) /\ ~(n + i <= n)
        /\ (n + i) - n = i
    BY <1>1
  <2>2. s[i] = c[n + i]
    BY <1>5, <2>1
  <2>3. c[n + i] = y[(n + i) - n]
    BY <1>1, <2>1
  <2> QED
    BY <2>1, <2>2, <2>3
<1>7. s = y
  BY <1>1, <1>5, <1>6, SeqEqual
<1> QED
  BY <1>7 DEF s, c, n

\* What OldestDropped says of a step that adds those records
Kept(d, ids, w) ==
    \E k \in {0, Len(Records(d.backup[Backups]))} :
        History(w) = SubSeq(History(d), k + 1, Len(History(d))) \o ids

LEMMA HistoryTyped ==
    ASSUME NEW d \in Disks
    PROVE  /\ Older(d.backup) \in Numbers /\ Records(d.file) \in Numbers
           /\ History(d) \in Numbers /\ Records(d.backup[Backups]) \in Numbers
           /\ History(d) = Older(d.backup) \o Records(d.file)
<1>1. d.file \in Seq(LineType) /\ d.backup \in Stored
  BY DEF Disks
<1>2. d.backup[Backups] \in Seq(LineType)
  <2>1. Backups \in 1..Backups
    BY LimitAssumption
  <2> QED
    BY <1>1, <2>1 DEF Stored
<1>3. Older(d.backup) \in Numbers /\ Records(d.file) \in Numbers
      /\ Records(d.backup[Backups]) \in Numbers
  BY <1>1, <1>2, OlderTyped, RecordsTyped DEF Numbers
<1>4. Older(d.backup) \o Records(d.file) \in Numbers
  BY <1>3, JoinTyped
<1> QED
  BY <1>3, <1>4, HistoryIs

\* The oldest records are those of the oldest backup.
LEMMA OldestFirst ==
    ASSUME NEW d \in Disks
    PROVE  \E rest \in Numbers : Older(d.backup) = Records(d.backup[Backups]) \o rest
<1> DEFINE rest == Older(Gap(d.backup, 1, <<>>))
<1>1. d.backup \in Stored /\ <<>> \in Seq(LineType) /\ 1 \in 1..Backups
  BY EmptySeq, LimitAssumption DEF Disks
<1>2. rest \in Numbers
  BY <1>1, GapTyped, OlderTyped DEF Numbers
<1>3. Records(d.backup[Backups]) \o rest = Older(d.backup) \o Records(<<>>)
  BY <1>1, GapDropsOldest
<1>4. Older(d.backup) \in Numbers
  BY HistoryTyped
<1>5. Older(d.backup) \o Records(<<>>) = Older(d.backup)
  BY <1>4, RecordsEmpty, JoinEmpty
<1> QED
  BY <1>2, <1>3, <1>5

\* A write that drops the oldest backup keeps everything else.
LEMMA DropKeeps ==
    ASSUME NEW d \in Disks, NEW ids \in Numbers, NEW w \in Disks,
           Records(d.backup[Backups]) \o History(w) = History(d) \o ids
    PROVE  Kept(d, ids, w)
<1> DEFINE o == Records(d.backup[Backups])
           h == History(d)
           v == History(w)
           f == Records(d.file)
<1>1. o \in Numbers /\ h \in Numbers /\ v \in Numbers /\ f \in Numbers
      /\ h = Older(d.backup) \o f
  BY HistoryTyped
<1>2. PICK rest \in Numbers : Older(d.backup) = o \o rest
  BY OldestFirst
<1>3. o \o v = h \o ids
  OBVIOUS
<1>4. Kept(d, ids, w) <=> \E k \in {0, Len(o)} : v = SubSeq(h, k + 1, Len(h)) \o ids
  BY DEF Kept
<1> HIDE DEF o, h, v, f
<1> DEFINE r == rest \o f
<1>5. r \in Numbers
  BY <1>1, <1>2, JoinTyped
<1>6. h = o \o r
  <2>1. o \in Numbers /\ rest \in Numbers /\ f \in Numbers
    BY <1>1
  <2>2. (o \o rest) \o f = o \o (rest \o f)
    BY <2>1, JoinAssociates
  <2> QED
    BY <1>1, <1>2, <2>2
<1> HIDE DEF r
<1>7. SubSeq(h, Len(o) + 1, Len(h)) = r
  BY <1>1, <1>5, <1>6, AfterPrefix
<1>8. r \o ids \in Numbers
  BY <1>5, JoinTyped
<1>9. o \o v = o \o (r \o ids)
  <2>1. o \in Numbers /\ r \in Numbers
    BY <1>1, <1>5
  <2>2. (o \o r) \o ids = o \o (r \o ids)
    BY <2>1, JoinAssociates
  <2> QED
    BY <1>3, <1>6, <2>2
<1> DEFINE t == r \o ids
<1> HIDE DEF t
<1>10. t \in Numbers /\ o \o v = o \o t
  BY <1>8, <1>9 DEF t
<1>11. v = t
  BY <1>1, <1>10, JoinCancels
<1> QED
  BY <1>4, <1>7, <1>11 DEF t

LEMMA SameHistory ==
    ASSUME NEW d \in Disks, NEW ids \in Numbers, NEW w, History(w) = History(d) \o ids
    PROVE  Kept(d, ids, w)
<1> DEFINE h == History(d)
<1>1. h \in Seq(Nat)
  BY HistoryTyped DEF Numbers
<1> HIDE DEF h
<1>2. SubSeq(h, 1, Len(h)) = h
  BY <1>1, SubSeqFull
<1>3. 0 + 1 = 1 /\ History(w) = h \o ids
  BY DEF h
<1> QED
  BY <1>2, <1>3 DEF Kept, h

LEMMA AddedKeeps ==
    ASSUME NEW d \in Disks, NEW ids \in Numbers, NEW size, NEW w, Added(d, ids, size, w)
    PROVE  Kept(d, ids, w)
<1> DEFINE o == Records(d.backup[Backups])
           b == Older(d.backup)
           f == Records(d.file)
           g == Records(w.file)
           c == Older(w.backup)
<1>1. /\ w \in Disks /\ b \in Numbers /\ f \in Numbers /\ g \in Numbers /\ o \in Numbers
      /\ c \in Numbers /\ History(d) = b \o f /\ History(w) = c \o g
  <2>1. w \in Disks
    BY DEF Added
  <2> QED
    BY <2>1, HistoryTyped
<1>2. CASE w.backup = d.backup /\ g = f \o ids
  <2>1. History(w) = b \o (f \o ids)
    BY <1>1, <1>2
  <2> HIDE DEF b, f
  <2>2. (b \o f) \o ids = b \o (f \o ids)
    BY <1>1, JoinAssociates
  <2>3. History(w) = History(d) \o ids
    BY <1>1, <2>1, <2>2
  <2> QED
    BY <2>3, SameHistory
<1>3. CASE \E lines \in Seq(LineType) :
              w.backup = Gap(d.backup, 1, lines) /\ Records(lines) \o g = f \o ids
  <2>1. PICK lines \in Seq(LineType) :
              w.backup = Gap(d.backup, 1, lines) /\ Records(lines) \o g = f \o ids
    BY <1>3
  <2> DEFINE l == Records(lines)
  <2>2. l \in Numbers
    BY RecordsTyped DEF Numbers
  <2>3. l \o g = f \o ids
    BY <2>1
  <2>4. o \o c = b \o l
    <3>1. d.backup \in Stored /\ 1 \in 1..Backups
      BY LimitAssumption DEF Disks
    <3> QED
      BY <2>1, <3>1, GapDropsOldest
  <2>5. o \o History(w) = History(d) \o ids
    <3> HIDE DEF b, f, o, l, c, g
    <3>1. (o \o c) \o g = o \o (c \o g)
      <4>1. o \in Numbers /\ c \in Numbers /\ g \in Numbers
        BY <1>1
      <4> QED
        BY <4>1, JoinAssociates
    <3>2. (b \o l) \o g = b \o (l \o g)
      <4>1. b \in Numbers /\ l \in Numbers /\ g \in Numbers
        BY <1>1, <2>2
      <4> QED
        BY <4>1, JoinAssociates
    <3>3. (b \o f) \o ids = b \o (f \o ids)
      <4>1. b \in Numbers /\ f \in Numbers
        BY <1>1
      <4> QED
        BY <4>1, JoinAssociates
    <3> QED
      BY <1>1, <2>3, <2>4, <3>1, <3>2, <3>3
  <2> QED
    BY <1>1, <2>5, DropKeeps
<1> QED
  BY <1>2, <1>3 DEF Added

-----------------------------------------------------------------------------
(* However a write ends.                                                   *)

\* What a step may leave on disk
Sound(d, job, w) ==
    /\ w \in Disks /\ Readable(w)
    /\ \E n \in 0..Len(job.sizes) : Kept(d, Ids(job, n), w)

\* A rotation that is cut off keeps everything but the oldest backup.
LEMMA CutKeeps ==
    ASSUME NEW d \in Disks, NEW ids \in Numbers, NEW size \in Nat, NEW w,
           Added(d, ids, size, w), NEW line \in LineType, size + line.size <= MaxFile,
           Full(w, line), NEW i \in 1..Backups
    PROVE  Cut(w, i) \in Disks /\ Readable(Cut(w, i)) /\ Kept(d, ids, Cut(w, i))
<1> DEFINE n == Backups - i + 1
           c == Cut(w, i)
           b == Older(d.backup)
           f == Records(d.file)
           g == Records(w.file)
           o == Records(d.backup[Backups])
           y == Older(Gap(d.backup, n, <<>>))
<1>1. n \in 1..Backups /\ i # 0
  BY LimitAssumption
<1>2. w \in Disks /\ w.backup = d.backup /\ g = f \o ids /\ Readable(w)
  <2>1. w.backup = d.backup /\ g = f \o ids
    BY FullOnce
  <2>2. w \in Disks /\ Readable(w)
    BY DEF Added
  <2> QED
    BY <2>1, <2>2
<1>3. w = [file |-> w.file, backup |-> w.backup] /\ w.file \in Seq(LineType)
      /\ d.backup \in Stored
  BY <1>2 DEF Disks
<1>4. c = [file |-> w.file, backup |-> Gap(d.backup, n, <<>>)]
  <2>1. Gap(d.backup, n, <<>>)
          = [j \in 1..Backups |->
                IF i = 0 \/ j < Backups - i + 1 THEN d.backup[j]
                ELSE IF j = Backups - i + 1 THEN <<>> ELSE d.backup[j - 1]]
    BY <1>1 DEF Gap
  <2> DEFINE cut == [j \in 1..Backups |->
                        IF i = 0 \/ j < Backups - i + 1 THEN w.backup[j]
                        ELSE IF j = Backups - i + 1 THEN <<>> ELSE w.backup[j - 1]]
  <2>2. c = [w EXCEPT !.backup = cut]
    BY DEF Cut
  <2>3. cut = Gap(d.backup, n, <<>>)
    BY <1>2, <2>1
  <2> HIDE DEF cut
  <2>4. [w EXCEPT !.backup = cut] = [file |-> w.file, backup |-> cut]
    BY <1>3
  <2> QED
    BY <2>2, <2>3, <2>4
<1>5. <<>> \in Seq(LineType) /\ DOMAIN <<>> = {}
  BY EmptySeq
<1>6. Gap(d.backup, n, <<>>) \in Stored
  BY <1>1, <1>3, <1>5, GapTyped
<1>7. c.file = w.file /\ c.backup = Gap(d.backup, n, <<>>)
  BY <1>4
<1>8. c \in Disks
  BY <1>3, <1>4, <1>6 DEF Disks
<1> HIDE DEF c
<1>9. Readable(c)
  <2>1. ASSUME NEW j \in 1..Backups
        PROVE  Existing(c.backup[j]) <= MaxFile /\ Whole(c.backup[j])
    <3>1. c.backup[j] = IF j < n THEN d.backup[j]
                        ELSE IF j = n THEN <<>> ELSE d.backup[j - 1]
      BY <1>7 DEF Gap
    <3>2. \A k \in 1..Backups : Existing(d.backup[k]) <= MaxFile /\ Whole(d.backup[k])
      BY <1>2 DEF Readable
    <3> HIDE DEF n
    <3>3. CASE j < n
      BY <3>1, <3>2, <3>3
    <3>4. CASE j = n
      <4>1. Existing(<<>>) <= MaxFile
        BY ExistingEmpty, LimitAssumption
      <4>2. ~(j < n)
        BY <1>1, <3>4
      <4>3. c.backup[j] = <<>>
        BY <3>1, <3>4, <4>2
      <4>4. Whole(<<>>)
        BY <1>5 DEF Whole
      <4> QED
        BY <4>1, <4>3, <4>4
    <3>5. CASE ~(j < n) /\ j # n
      <4>1. j - 1 \in 1..Backups
        BY <1>1, <3>5, LimitAssumption
      <4> QED
        BY <3>1, <3>2, <3>5, <4>1
    <3> QED
      BY <3>3, <3>4, <3>5
  <2> QED
    BY <1>2, <1>7, <2>1 DEF Readable
<1>10. o \o History(c) = History(d) \o ids
  <2>1. /\ o \in Numbers /\ b \in Numbers /\ f \in Numbers /\ History(d) = b \o f
    BY HistoryTyped
  <2>2. y \in Numbers /\ g \in Numbers /\ History(c) = y \o g
    BY <1>7, <1>8, HistoryTyped
  <2>3. o \o y = b
    <3>1. o \o y = b \o Records(<<>>)
      BY <1>1, <1>3, <1>5, GapDropsOldest
    <3> HIDE DEF b, o, y
    <3> QED
      BY <2>1, <3>1, RecordsEmpty, JoinEmpty
  <2> HIDE DEF o, y, b, f, g
  <2>4. (o \o y) \o g = o \o (y \o g)
    <3>1. o \in Numbers /\ y \in Numbers /\ g \in Numbers
      BY <2>1, <2>2
    <3> QED
      BY <3>1, JoinAssociates
  <2>5. (b \o f) \o ids = b \o (f \o ids)
    <3>1. b \in Numbers /\ f \in Numbers
      BY <2>1
    <3> QED
      BY <3>1, JoinAssociates
  <2> QED
    BY <1>2, <2>1, <2>2, <2>3, <2>4, <2>5
<1>11. Kept(d, ids, c)
  BY <1>8, <1>10, DropKeeps
<1> QED
  BY <1>8, <1>9, <1>11 DEF c

\* However a write ends, it keeps the records and leaves readable files.
LEMMA WritesSound ==
    ASSUME NEW d \in Disks, Readable(d), NEW job \in Job \cup {NoJob},
           Total(job.sizes) <= MaxFile
    PROVE  /\ Sound(d, job, Wrote(d, Lines(job), Len(job.sizes)))
           /\ \A w \in Interrupted(d, Lines(job)) : Sound(d, job, w)
<1> DEFINE m == Len(job.sizes)
           wrote(n) == Wrote(d, Lines(job), n)
<1>1. m \in Nat /\ job.sizes \in Seq(Nat) /\ job.from \in Nat /\ Total(job.sizes) \in Nat
  BY JobTyped, LenProperties, TotalType
<1>2. PICK g : Sums(g, job.sizes)
  BY <1>1, TotalSums
<1>3. \A n \in 0..m : /\ Added(d, Ids(job, n), g[n], wrote(n)) /\ Whole(wrote(n).file)
                      /\ g[n] \in Nat /\ Ids(job, n) \in Numbers
  <2> SUFFICES ASSUME NEW n \in 0..m
               PROVE  /\ Added(d, Ids(job, n), g[n], wrote(n)) /\ Whole(wrote(n).file)
                      /\ g[n] \in Nat /\ Ids(job, n) \in Numbers
    OBVIOUS
  <2>1. n \in Nat
    BY <1>1
  <2>2. Ids(job, n) \in Numbers
    BY <2>1, IdsGrow DEF Numbers
  <2>3. g[n] \in Nat
    BY <1>1, <1>2, SumsGrow
  <2> QED
    BY <1>2, <2>2, <2>3, WroteAdds
<1>4. \A n \in 0..m : \A w : Added(d, Ids(job, n), g[n], w) => Sound(d, job, w)
  BY <1>3, AddedKeeps DEF Sound, Added
<1>5. \A n \in 0..m : Sound(d, job, wrote(n))
  BY <1>3, <1>4
<1>6. Sound(d, job, wrote(m))
  <2>1. m \in 0..m
    BY <1>1
  <2> QED
    BY <1>5, <2>1
<1>7. Sound(d, job, d)
  <2>1. 0 \in 0..m /\ 0 \in Nat
    BY <1>1
  <2>2. Ids(job, 0) = <<>> /\ Ids(job, 0) \in Numbers
    BY <1>3, <2>1, IdsGrow
  <2>3. History(d) \o <<>> = History(d)
    BY HistoryTyped, JoinEmpty
  <2>4. Kept(d, Ids(job, 0), d)
    BY <2>2, <2>3, SameHistory
  <2> QED
    BY <2>1, <2>4 DEF Sound
<1>8. Len(Lines(job)) = m
  BY LinesTyped
<1>9. ASSUME NEW n \in 0..(m - 1)
      PROVE  LET next == Lines(job)[n + 1]
             IN  /\ \A k \in {"open", "part"} :
                       Sound(d, job, Put(wrote(n), [next EXCEPT !.kind = k]))
                 /\ Full(wrote(n), next) => \A i \in 1..Backups : Sound(d, job, Cut(wrote(n), i))
  <2> DEFINE next == Lines(job)[n + 1]
             w == wrote(n)
             size == g[n]
             ids == Ids(job, n)
  <2>1. /\ n \in Nat /\ n + 1 \in 1..m /\ n \in 0..m /\ n + 1 \in 0..m /\ (n + 1) - 1 = n
        /\ n + 1 \in Nat
    BY <1>1
  <2>2. /\ next \in LineType /\ next.id = job.from + (n + 1)
        /\ next.size = job.sizes[n + 1]
    BY <2>1, LinesTyped
  <2>3. /\ Added(d, ids, size, w) /\ Whole(w.file) /\ size \in Nat /\ ids \in Numbers
    BY <1>3, <2>1
  <2>4. g[n + 1] = size + next.size
    BY <1>2, <2>1, <2>2 DEF Sums
  <2>5. size + next.size <= MaxFile /\ g[n + 1] \in Nat
    <3>1. g[n + 1] \in Nat /\ g[n + 1] <= Total(job.sizes)
      BY <1>1, <1>2, <2>1, SumsGrow
    <3> QED
      BY <1>1, <2>4, <3>1, LimitAssumption
  <2>6. Append(ids, job.from + (n + 1)) = Ids(job, n + 1)
    BY <2>1, IdsGrow
  <2> HIDE DEF next, w, size, ids
  <2>7. ASSUME NEW k \in {"open", "part"}
        PROVE  Sound(d, job, Put(w, [next EXCEPT !.kind = k]))
    <3> DEFINE line == [next EXCEPT !.kind = k]
    <3>1. /\ line \in LineType /\ line.kind = k /\ line.id = next.id
          /\ line.size = next.size
      BY <2>2 DEF LineType
    <3> HIDE DEF line
    <3>2. Added(d, WithLine(ids, line), size + line.size, Put(w, line))
      BY <2>3, <2>5, <3>1, AddedLine DEF Numbers
    <3>3. CASE k = "open"
      <4>1. WithLine(ids, line) = Ids(job, n + 1)
        BY <2>2, <2>6, <3>1, <3>3 DEF WithLine
      <4>2. Added(d, Ids(job, n + 1), g[n + 1], Put(w, line))
        BY <2>4, <3>1, <3>2, <4>1
      <4> QED
        BY <1>4, <2>1, <4>2 DEF line
    <3>4. CASE k = "part"
      <4>1. WithLine(ids, line) = Ids(job, n)
        BY <3>1, <3>4 DEF WithLine, ids
      <4>2. Kept(d, Ids(job, n), Put(w, line))
        BY <2>3, <3>2, <4>1, AddedKeeps DEF ids
      <4>3. Put(w, line) \in Disks /\ Readable(Put(w, line))
        BY <3>2 DEF Added
      <4> QED
        BY <2>1, <4>2, <4>3 DEF Sound, line
    <3> QED
      BY <3>3, <3>4
  <2>8. ASSUME Full(w, next), NEW i \in 1..Backups
        PROVE  Sound(d, job, Cut(w, i))
    <3>1. /\ Cut(w, i) \in Disks /\ Readable(Cut(w, i)) /\ Kept(d, ids, Cut(w, i))
      BY <2>2, <2>3, <2>5, <2>8, CutKeeps
    <3> QED
      BY <2>1, <3>1 DEF Sound, ids
  <2> QED
    BY <2>7, <2>8 DEF next, w
<1> HIDE DEF m
<1>10. ASSUME NEW w \in Interrupted(d, Lines(job)) PROVE Sound(d, job, w)
  <2>1. \/ w = d
        \/ \E n \in 0..m : w = wrote(n)
        \/ \E n \in 0..(m - 1) :
              \/ \E k \in {"open", "part"} :
                    w = Put(wrote(n), [Lines(job)[n + 1] EXCEPT !.kind = k])
              \/ /\ Full(wrote(n), Lines(job)[n + 1])
                 /\ \E i \in 1..Backups : w = Cut(wrote(n), i)
    BY <1>8 DEF Interrupted
  <2> HIDE DEF wrote
  <2> QED
    BY <1>5, <1>7, <1>9, <2>1
<1> QED
  BY <1>6, <1>10 DEF m

-----------------------------------------------------------------------------
(* The writer.                                                             *)

ThreadInv ==
    /\ count \in Nat
    /\ queue \in Seq(Job) /\ Len(queue) <= MaxJobs
    /\ writer \in {"none", "ready", "asleep", "writing", "ended"}
    /\ writer # "writing" => active = NoJob
    /\ writer \in {"none", "asleep", "ended"} => queue = <<>>
    /\ writer = "asleep" => ~closed
    /\ writer = "ended" \/ stopping # "no" => closed
    /\ stopping = "drained" => writer \in {"none", "ended"}
    /\ ~running => writer = "none"

LEMMA ThreadInitial == InitWriter => ThreadInv
<1>1. <<>> \in Seq(Job) /\ Len(<<>>) = 0
  BY EmptySeq
<1> QED
  BY <1>1, LimitAssumption DEF InitWriter, ThreadInv

LEMMA SubmitKeeps ==
    ASSUME ThreadInv, NEW text \in Text, Submit(text) PROVE ThreadInv'
<1>1. CASE StartFails(text)
  BY <1>1 DEF StartFails, writerVars, memory, files, ThreadInv
<1>2. CASE Accepted(text)
  <2> DEFINE job == [from |-> count, sizes |-> text]
  <2>1. job \in Job
    BY DEF Job, ThreadInv
  <2>2. /\ queue' = Append(queue, job) /\ Len(queue) < MaxJobs /\ ~closed /\ running
        /\ UNCHANGED <<running, active, closed, stopping>>
        /\ writer' = IF writer = "none" THEN "ready" ELSE Notified(writer)
    BY <1>2 DEF Accepted, HasRoom
  <2> HIDE DEF job
  <2>3. queue' \in Seq(Job) /\ Len(queue') = Len(queue) + 1
    BY <2>1, <2>2, AppendProperties DEF ThreadInv
  <2>4. Len(queue') <= MaxJobs
    BY <2>2, <2>3, LimitAssumption, LenProperties DEF ThreadInv
  <2>5. writer' \in {"ready", "writing"} /\ (writer' = "writing" => writer = "writing")
        /\ (writer = "writing" => writer' = "writing") /\ stopping = "no"
    BY <2>2 DEF Notified, ThreadInv
  <2>6. count' \in Nat
    BY <1>2, TextAssumption, LenProperties DEF Accepted, ThreadInv
  <2> QED
    BY <2>2, <2>3, <2>4, <2>5, <2>6 DEF ThreadInv
<1> QED
  BY <1>1, <1>2 DEF Submit

LEMMA LooksKeeps == ASSUME ThreadInv, Looks PROVE ThreadInv'
<1>1. running /\ writer = "ready" /\ UNCHANGED <<running, closed, stopping, count>>
  BY DEF Looks
<1>2. CASE Takes /\ ~Ends
  <2>1. queue # <<>> /\ queue' = Tail(queue) /\ writer' = "writing"
    BY <1>2 DEF Takes
  <2>2. Tail(queue) \in Seq(Job) /\ Len(Tail(queue)) = Len(queue) - 1
    BY <2>1, HeadTailProperties DEF ThreadInv
  <2>3. Len(queue') <= MaxJobs
    BY <2>1, <2>2, LenProperties, LimitAssumption DEF ThreadInv
  <2> QED
    BY <1>1, <2>1, <2>2, <2>3 DEF ThreadInv
<1>3. CASE Ends /\ writer' = "ended" /\ UNCHANGED <<queue, active>>
  BY <1>1, <1>3 DEF Ends, ThreadInv
<1>4. CASE ~Ends /\ queue = <<>> /\ writer' = "asleep" /\ UNCHANGED <<queue, active>>
  BY <1>1, <1>4 DEF Ends, ThreadInv
<1> QED
  BY <1>2, <1>3, <1>4 DEF Looks

LEMMA ThreadStep == ThreadInv /\ [NextWriter]_writerVars => ThreadInv'
<1> SUFFICES ASSUME ThreadInv, [NextWriter]_writerVars PROVE ThreadInv'
  OBVIOUS
<1>1. ASSUME NEW text \in Text, Submit(text)
      PROVE  ThreadInv'
  BY <1>1, SubmitKeeps
<1>2. CASE Looks
  BY <1>2, LooksKeeps
<1>3. CASE WriteDone \/ WriteFails
  <2>1. PICK d : Written(d)
    BY <1>3 DEF WriteDone, WriteFails
  <2> QED
    BY <2>1 DEF Written, ThreadInv
<1>4. CASE Close
  BY <1>4 DEF Close, Notified, ThreadInv
<1>5. CASE StopReturns
  BY <1>5 DEF StopReturns, memory, files, ThreadInv
<1>6. CASE Dies
  <2>1. <<>> \in Seq(Job) /\ Len(<<>>) <= MaxJobs
    BY LimitAssumption, EmptySeq
  <2> QED
    BY <1>6, <2>1 DEF Dies, ThreadInv
<1>7. CASE Restart
  BY <1>7 DEF Restart, memory, files, ThreadInv
<1>8. CASE UNCHANGED writerVars
  BY <1>8 DEF writerVars, ThreadInv
<1> QED
  BY <1>1, <1>2, <1>3, <1>4, <1>5, <1>6, <1>7, <1>8 DEF NextWriter

\* The queue stays within its limit and has a thread at work on it
\* (diagnostic_io.py:125, :157).
THEOREM WriterInvariant == WriterSpec => []ThreadInv
<1> QED
  BY ThreadInitial, ThreadStep, PTL DEF WriterSpec

\* No wake-up is lost between submit, _run and stop, for any texts and limits
\* (diagnostic_io.py:157).
THEOREM NoWakeUpLost == WriterSpec => []NothingStranded
<1>1. ThreadInv => NothingStranded
  BY DEF ThreadInv, NothingStranded
<1> QED
  BY <1>1, WriterInvariant, PTL

\* stop() answers True only with nothing left to write, whatever the deadline and the
\* storage do (diagnostic_io.py:191).
THEOREM StopTellsTruth == WriterSpec => []StopMeansSettled
<1>1. ThreadInv => StopMeansSettled
  BY DEF ThreadInv, StopMeansSettled
<1> QED
  BY <1>1, WriterInvariant, PTL

-----------------------------------------------------------------------------
(* The budget.                                                             *)

Queued(q) == [i \in DOMAIN q |-> Total(q[i].sizes)]

FilesInv ==
    /\ queue \in Seq(Job) /\ active \in Job \cup {NoJob} /\ bytes \in Nat /\ count \in Nat
    /\ writer # "writing" => active = NoJob
    /\ Accounted
    /\ file \in Seq(LineType) /\ backup \in Stored /\ FilesReadable

LEMMA QueuedTyped ==
    ASSUME NEW q \in Seq(Job)
    PROVE  Queued(q) \in Seq(Nat) /\ Len(Queued(q)) = Len(q)
           /\ \A i \in 1..Len(q) : Queued(q)[i] = Total(q[i].sizes) /\ q[i] \in Job
<1>1. Len(q) \in Nat /\ DOMAIN q = 1..Len(q) /\ \A i \in 1..Len(q) : q[i] \in Job
  BY LenProperties, ElementOfSeq
<1>2. \A i \in 1..Len(q) : Total(q[i].sizes) \in Nat
  <2> SUFFICES ASSUME NEW i \in 1..Len(q) PROVE Total(q[i].sizes) \in Nat
    OBVIOUS
  <2>1. q[i] \in Job \cup {NoJob}
    BY <1>1
  <2> QED
    BY <2>1, JobTyped, TotalType
<1>3. Queued(q) = [i \in 1..Len(q) |-> Total(q[i].sizes)]
  BY <1>1 DEF Queued
<1>4. Queued(q) \in [1..Len(q) -> Nat]
  BY <1>2, <1>3
<1>5. Queued(q) \in Seq(Nat) /\ Len(Queued(q)) = Len(q)
  BY <1>1, <1>4, FunctionIsSeq
<1> QED
  BY <1>1, <1>3, <1>5

LEMMA QueuedAppend ==
    ASSUME NEW q \in Seq(Job), NEW job \in Job
    PROVE  Queued(Append(q, job)) = Append(Queued(q), Total(job.sizes))
<1> DEFINE t == Append(q, job)
           x == Total(job.sizes)
           u == Append(Queued(q), x)
           n == Len(q)
<1>1. t \in Seq(Job) /\ Len(t) = n + 1 /\ t[n + 1] = job /\ \A i \in 1..n : t[i] = q[i]
  BY AppendProperties
<1>2. x \in Nat
  BY JobTyped, TotalType
<1>3. /\ Queued(q) \in Seq(Nat) /\ Len(Queued(q)) = n
      /\ \A i \in 1..n : Queued(q)[i] = Total(q[i].sizes)
  BY QueuedTyped
<1>4. n \in Nat
  BY LenProperties
<1> HIDE DEF t, n
<1>5. /\ Queued(t) \in Seq(Nat) /\ Len(Queued(t)) = n + 1
      /\ \A i \in 1..(n + 1) : Queued(t)[i] = Total(t[i].sizes)
  BY <1>1, QueuedTyped
<1> HIDE DEF x
<1>6. /\ u \in Seq(Nat) /\ Len(u) = n + 1 /\ u[n + 1] = x
      /\ \A i \in 1..n : u[i] = Queued(q)[i]
  BY <1>2, <1>3, AppendProperties
<1> HIDE DEF u
<1>7. ASSUME NEW i \in 1..(n + 1) PROVE Queued(t)[i] = u[i]
  <2>1. CASE i = n + 1
    BY <1>1, <1>5, <1>6, <2>1 DEF x
  <2>2. CASE i # n + 1
    <3>1. i \in 1..n
      BY <1>4, <2>2
    <3> QED
      BY <1>1, <1>3, <1>5, <1>6, <3>1
  <2> QED
    BY <2>1, <2>2
<1>8. Queued(t) = u
  BY <1>5, <1>6, <1>7, SeqEqual
<1> QED
  BY <1>8 DEF t, u, x

LEMMA QueuedTail ==
    ASSUME NEW q \in Seq(Job), q # <<>>
    PROVE  /\ Queued(q) # <<>> /\ Head(Queued(q)) = Total(Head(q).sizes)
           /\ Tail(Queued(q)) = Queued(Tail(q))
<1> DEFINE n == Len(q)
           t == Tail(q)
           s == Queued(q)
           u == Tail(s)
<1>1. n \in Nat /\ n # 0 /\ Head(q) = q[1]
  BY EmptySeq, LenProperties
<1>2. t \in Seq(Job) /\ Len(t) = n - 1 /\ \A i \in 1..(n - 1) : t[i] = q[i + 1]
  BY HeadTailProperties
<1>3. /\ s \in Seq(Nat) /\ Len(s) = n
      /\ \A i \in 1..n : s[i] = Total(q[i].sizes)
  BY QueuedTyped
<1> HIDE DEF t, n, s
<1>4. /\ Queued(t) \in Seq(Nat) /\ Len(Queued(t)) = n - 1
      /\ \A i \in 1..(n - 1) : Queued(t)[i] = Total(t[i].sizes)
  BY <1>2, QueuedTyped
<1>5. s # <<>> /\ Head(s) = s[1]
  BY <1>1, <1>3, EmptySeq
<1>6. /\ u \in Seq(Nat) /\ Len(u) = n - 1 /\ \A i \in 1..(n - 1) : u[i] = s[i + 1]
  BY <1>3, <1>5, HeadTailProperties
<1> HIDE DEF u
<1>7. ASSUME NEW i \in 1..(n - 1) PROVE Queued(t)[i] = u[i]
  <2>1. i + 1 \in 1..n
    BY <1>1
  <2> QED
    BY <1>2, <1>3, <1>4, <1>6, <2>1
<1>8. Queued(t) = u
  BY <1>1, <1>4, <1>6, <1>7, SeqEqual
<1>9. 1 \in 1..n
  BY <1>1
<1> QED
  BY <1>1, <1>3, <1>5, <1>8, <1>9 DEF t, u, s

LEMMA DiskRead ==
    ASSUME FilesInv
    PROVE  Disk \in Disks /\ Readable(Disk) /\ Total(active.sizes) \in Nat
           /\ Total(active.sizes) <= MaxFile /\ Total(Queued(queue)) \in Nat
           /\ bytes = Total(Queued(queue)) + Total(active.sizes)
<1>1. Disk = [file |-> file, backup |-> backup]
  BY DEF Disk
<1>2. Disk \in Disks /\ Disk.file = file /\ Disk.backup = backup
  BY <1>1 DEF FilesInv, Disks
<1>3. \A i \in 1..Backups : DOMAIN backup[i] = 1..Len(backup[i])
  BY LenProperties DEF FilesInv, Stored
<1>4. Readable(Disk)
  BY <1>2 DEF FilesInv, FilesReadable, Readable, Whole, WholeBefore
<1>5. Total(active.sizes) \in Nat /\ Total(Queued(queue)) \in Nat
  BY JobTyped, QueuedTyped, TotalType DEF FilesInv
<1>6. bytes = Total(Queued(queue)) + Total(active.sizes) /\ bytes <= MaxBytes
  BY DEF FilesInv, Accounted, Queued
<1>7. \A x, y, z \in Nat : z = x + y /\ z <= MaxBytes => y <= MaxFile
  BY LimitAssumption
<1>8. bytes \in Nat
  BY DEF FilesInv
<1>9. Total(active.sizes) <= MaxFile
  BY <1>5, <1>6, <1>7, <1>8
<1> QED
  BY <1>2, <1>4, <1>5, <1>6, <1>9

\* Whatever a step does, the disk is sound after it.
LEMMA DiskSound ==
    ASSUME FilesInv, [NextWriter]_writerVars
    PROVE  Sound(Disk, active, Disk')
<1>1. \A w : w = Disk \/ w \in Interrupted(Disk, Lines(active))
             \/ w = Wrote(Disk, Lines(active), Len(active.sizes)) => Sound(Disk, active, w)
  <2>1. active \in Job \cup {NoJob}
    BY DEF FilesInv
  <2>2. Disk \in Interrupted(Disk, Lines(active))
    BY DEF Interrupted
  <2> QED
    BY <2>1, <2>2, DiskRead, WritesSound
<1>2. ASSUME NEW d, Sound(Disk, active, d), DiskIs(d) PROVE Sound(Disk, active, Disk')
  <2>1. d = [file |-> d.file, backup |-> d.backup]
    BY <1>2 DEF Sound, Disks
  <2>2. Disk' = d
    BY <1>2, <2>1 DEF DiskIs, Disk
  <2> QED
    BY <1>2, <2>2
<1>3. CASE UNCHANGED files
  BY <1>1, <1>3 DEF files, Disk
<1>4. ASSUME NEW text \in Text, Submit(text) PROVE UNCHANGED files
  BY <1>4 DEF Submit, Accepted, StartFails, writerVars, files
<1>5. CASE Looks
  BY <1>3, <1>5 DEF Looks
<1>6. CASE WriteDone
  BY <1>1, <1>2, <1>6 DEF WriteDone, Written
<1>7. CASE WriteFails
  BY <1>1, <1>2, <1>7 DEF WriteFails, Written
<1>8. CASE Close \/ StopReturns \/ Restart
  BY <1>3, <1>8 DEF Close, StopReturns, Restart
<1>9. CASE Dies
  BY <1>1, <1>2, <1>9 DEF Dies
<1>10. CASE UNCHANGED writerVars
  BY <1>3, <1>10 DEF writerVars, files
<1> QED
  BY <1>3, <1>4, <1>5, <1>6, <1>7, <1>8, <1>9, <1>10 DEF NextWriter

LEMMA SoundReadable ==
    ASSUME NEW d, NEW job, Sound(d, job, Disk')
    PROVE  file' \in Seq(LineType) /\ backup' \in Stored /\ FilesReadable'
<1>1. Disk' = [file |-> file', backup |-> backup']
  BY DEF Disk
<1> DEFINE w == Disk'
<1>2. w \in Disks /\ Readable(w) /\ w.file = file' /\ w.backup = backup'
  BY <1>1 DEF Sound
<1> HIDE DEF w
<1>3. file' \in Seq(LineType) /\ backup' \in Stored
  BY <1>2 DEF Disks
<1>4. FilesReadable'
  BY <1>2 DEF FilesReadable, Readable, Whole, WholeBefore
<1> QED
  BY <1>3, <1>4

\* What the budget is after a step
LEMMA BudgetKept ==
    ASSUME FilesInv, ThreadInv, [NextWriter]_writerVars
    PROVE  /\ queue' \in Seq(Job) /\ active' \in Job \cup {NoJob} /\ bytes' \in Nat
           /\ count' \in Nat /\ (writer' # "writing" => active' = NoJob) /\ Accounted'
<1> DEFINE total == Total(Queued(queue))
           size == Total(active.sizes)
<1>1. /\ total \in Nat /\ size \in Nat /\ bytes = total + size /\ bytes \in Nat
      /\ bytes <= MaxBytes /\ Len(queue) <= MaxJobs /\ queue \in Seq(Job)
      /\ active \in Job \cup {NoJob} /\ count \in Nat
      /\ (writer # "writing" => active = NoJob)
  BY DiskRead DEF FilesInv, Accounted
<1>2. ASSUME queue' \in Seq(Job),
             bytes' = Total(Queued(queue')) + Total(active'.sizes),
             bytes' <= MaxBytes, Len(queue') <= MaxJobs
      PROVE  Accounted'
  BY <1>2 DEF Accounted, Queued
<1>3. Total(NoJob.sizes) = 0
  BY TotalEmpty DEF NoJob
<1>4. ASSUME UNCHANGED <<queue, active, bytes, count>>, writer' = "writing" <=> writer = "writing"
      PROVE  /\ queue' \in Seq(Job) /\ active' \in Job \cup {NoJob} /\ bytes' \in Nat
             /\ count' \in Nat /\ (writer' # "writing" => active' = NoJob) /\ Accounted'
  BY <1>1, <1>2, <1>4
<1>5. ThreadInv'
  BY ThreadStep
<1>6. Len(queue') <= MaxJobs /\ queue' \in Seq(Job) /\ count' \in Nat
      /\ (writer' # "writing" => active' = NoJob)
  BY <1>5 DEF ThreadInv
<1>7. ASSUME NEW text \in Text, Accepted(text)
      PROVE  active' \in Job \cup {NoJob} /\ bytes' \in Nat /\ Accounted'
  <2> DEFINE job == [from |-> count, sizes |-> text]
             x == Total(text)
  <2>1. job \in Job /\ job.sizes = text
    BY <1>1 DEF Job
  <2>2. x \in Nat
    BY <2>1, JobTyped, TotalType
  <2>3. queue' = Append(queue, job) /\ bytes' = bytes + x /\ bytes + x <= MaxBytes
        /\ active' = active
    BY <1>7 DEF Accepted, HasRoom
  <2> HIDE DEF job, x
  <2>4. Total(Queued(queue')) = total + x
    <3>1. Queued(queue') = Append(Queued(queue), x)
      BY <1>1, <2>1, <2>3, QueuedAppend DEF x
    <3>2. Queued(queue) \in Seq(Nat)
      BY <1>1, QueuedTyped
    <3> QED
      BY <2>2, <3>1, <3>2, TotalAppend
  <2>5. bytes' = Total(Queued(queue')) + Total(active'.sizes)
    <3> HIDE DEF total, size
    <3>1. Total(active'.sizes) = size
      BY <2>3 DEF size
    <3> QED
      BY <1>1, <2>2, <2>3, <2>4, <3>1
  <2>6. bytes' \in Nat /\ bytes' <= MaxBytes
    BY <1>1, <2>2, <2>3
  <2> QED
    BY <1>1, <1>2, <1>6, <2>3, <2>5, <2>6
<1>8. CASE writer = "ready" /\ Takes /\ UNCHANGED bytes
  <2>1. queue # <<>> /\ queue' = Tail(queue) /\ active' = Head(queue) /\ bytes' = bytes
        /\ active = NoJob
    BY <1>1, <1>8 DEF Takes
  <2>2. Head(queue) \in Job
    BY <1>1, <2>1, HeadTailProperties
  <2>3. total = Total(Head(queue).sizes) + Total(Queued(Tail(queue)))
    <3>1. Queued(queue) \in Seq(Nat) /\ Queued(queue) # <<>>
          /\ Head(Queued(queue)) = Total(Head(queue).sizes)
          /\ Tail(Queued(queue)) = Queued(Tail(queue))
      BY <1>1, <2>1, QueuedTyped, QueuedTail
    <3> QED
      BY <3>1, TotalTail
  <2>4. size = 0
    BY <1>3, <2>1
  <2>5. Total(Head(queue).sizes) \in Nat /\ Total(Queued(queue')) \in Nat
    BY <1>6, <2>2, JobTyped, QueuedTyped, TotalType
  <2>6. bytes' = Total(Queued(queue')) + Total(active'.sizes)
    <3> DEFINE a == Total(Head(queue).sizes)
               b == Total(Queued(queue'))
    <3>1. a \in Nat /\ b \in Nat /\ bytes = (a + b) + 0
      BY <1>1, <2>1, <2>3, <2>4, <2>5
    <3>2. Total(active'.sizes) = a /\ bytes' = bytes
      BY <2>1
    <3> HIDE DEF a, b
    <3> QED
      BY <3>1, <3>2 DEF b
  <2> QED
    BY <1>1, <1>2, <1>4, <1>6, <2>1, <2>2, <2>6
<1>9. ASSUME NEW d, Written(d)
      PROVE  active' \in Job \cup {NoJob} /\ bytes' \in Nat /\ Accounted'
  <2>1. bytes' = bytes - size /\ active' = NoJob /\ queue' = queue
    BY <1>9 DEF Written
  <2> HIDE DEF size
  <2>2. bytes' = total + 0 /\ bytes' \in Nat /\ bytes' <= MaxBytes
    <3> HIDE DEF total
    <3> QED
      BY <1>1, <2>1, LimitAssumption
  <2>3. bytes' = Total(Queued(queue')) + Total(active'.sizes)
    BY <1>3, <2>1, <2>2
  <2> QED
    BY <1>2, <1>6, <2>1, <2>2, <2>3
<1>10. CASE Dies
  <2>1. queue' = <<>> /\ bytes' = 0 /\ active' = NoJob
    BY <1>10 DEF Dies
  <2>2. Queued(queue') = <<>>
    <3>1. queue' \in Seq(Job) /\ Len(queue') = 0
      BY <1>6, <2>1, EmptySeq
    <3>2. Queued(queue') \in Seq(Nat) /\ Len(Queued(queue')) = 0
      BY <3>1, QueuedTyped
    <3> QED
      BY <3>2, EmptySeq
  <2>3. bytes' = Total(Queued(queue')) + Total(active'.sizes) /\ bytes' <= MaxBytes
    BY <1>3, <2>1, <2>2, TotalEmpty, LimitAssumption
  <2> QED
    BY <1>2, <1>6, <2>1, <2>3
<1>11. CASE \E text \in Text : Submit(text)
  <2>1. PICK text \in Text : Submit(text)
    BY <1>11
  <2>2. CASE Accepted(text)
    BY <1>6, <1>7, <2>2
  <2>3. CASE StartFails(text)
    BY <1>4, <2>3 DEF StartFails, writerVars
  <2> QED
    BY <2>1, <2>2, <2>3 DEF Submit
<1>12. CASE Looks
  <2>1. CASE Takes
    BY <1>6, <1>8, <1>12, <2>1 DEF Looks
  <2>2. CASE ~Takes
    <3>1. UNCHANGED <<queue, active, bytes, count>> /\ writer = "ready"
          /\ writer' \in {"ended", "asleep"}
      BY <1>12, <2>2 DEF Looks
    <3> QED
      BY <1>4, <3>1
  <2> QED
    BY <2>1, <2>2
<1>13. CASE WriteDone \/ WriteFails
  <2>1. PICK d : Written(d)
    BY <1>13 DEF WriteDone, WriteFails
  <2> QED
    BY <1>6, <1>9, <2>1
<1>14. CASE Close \/ StopReturns \/ Restart
  <2>1. UNCHANGED <<queue, active, bytes, count>> /\ (writer' = "writing" <=> writer = "writing")
    BY <1>14 DEF Close, StopReturns, Restart, memory, Notified
  <2> QED
    BY <1>4, <2>1
<1>15. CASE UNCHANGED writerVars
  BY <1>4, <1>15 DEF writerVars
<1> QED
  BY <1>6, <1>10, <1>11, <1>12, <1>13, <1>14, <1>15 DEF NextWriter

LEMMA FilesStep == FilesInv /\ ThreadInv /\ [NextWriter]_writerVars => FilesInv'
<1> SUFFICES ASSUME FilesInv, ThreadInv, [NextWriter]_writerVars PROVE FilesInv'
  OBVIOUS
<1>1. file' \in Seq(LineType) /\ backup' \in Stored /\ FilesReadable'
  BY DiskSound, SoundReadable
<1> QED
  BY <1>1, BudgetKept DEF FilesInv

LEMMA FilesInitial == InitWriter => FilesInv
<1> SUFFICES ASSUME InitWriter PROVE FilesInv
  OBVIOUS
<1>1. <<>> \in Seq(Job) /\ Len(<<>>) = 0 /\ <<>> \in Seq(LineType) /\ DOMAIN <<>> = {}
  BY EmptySeq
<1>2. /\ queue = <<>> /\ bytes = 0 /\ active = NoJob /\ file = <<>> /\ count = 0
      /\ backup = [i \in 1..Backups |-> <<>>]
  BY DEF InitWriter
<1>3. file \in Seq(LineType) /\ backup \in Stored /\ FilesReadable
  <2>1. \A i \in 1..Backups : backup[i] = <<>>
    BY <1>2
  <2>2. Existing(<<>>) <= MaxFile
    BY ExistingEmpty, LimitAssumption
  <2>3. \A j \in 1..(Len(file) - 1) : FALSE
    BY <1>1, <1>2
  <2> QED
    BY <1>1, <1>2, <2>1, <2>2, <2>3 DEF Stored, FilesReadable
<1>4. Accounted
  <2>1. Queued(queue) = <<>>
    <3>1. Queued(queue) \in Seq(Nat) /\ Len(Queued(queue)) = 0
      BY <1>1, <1>2, QueuedTyped
    <3> QED
      BY <3>1, EmptySeq
  <2>2. Total([i \in DOMAIN queue |-> Total(queue[i].sizes)]) = 0
    BY <2>1, TotalEmpty DEF Queued
  <2>3. Total(active.sizes) = 0
    BY <1>2, TotalEmpty DEF NoJob
  <2> QED
    BY <1>1, <1>2, <2>2, <2>3, LimitAssumption DEF Accounted
<1> QED
  BY <1>1, <1>2, <1>3, <1>4 DEF FilesInv

LEMMA FilesInvariant == WriterSpec => []FilesInv
<1> QED
  BY FilesInitial, FilesStep, ThreadInitial, ThreadStep, PTL DEF WriterSpec

-----------------------------------------------------------------------------
(* Tilings, and bytes that are written as they were read.                  *)

\* What Tiled defines by recursion
Tiles(length, to, tiled) ==
    \A i \in 0..to :
        tiled[i] <=> \/ i = to
                     \/ i + 4 <= to /\ length[i] > 4 /\ i + length[i] <= to /\ tiled[i + length[i]]

LEMMA TiledFunction ==
    ASSUME NEW length, NEW to \in Nat,
           \A i \in 0..to : i + 4 <= to => length[i] \in Int
    PROVE  \E tiled : /\ Tiles(length, to, tiled)
                      /\ \A from : Tiled(length, from, to) <=> (from <= to /\ tiled[from])
<1> DEFINE Reach(T) == \A j \in T \ {to} : j + 4 <= to /\ length[j] > 4 /\ j + length[j] \in T
           Body(f, i) == \/ i = to
                         \/ i + 4 <= to /\ length[i] > 4 /\ i + length[i] <= to
                               /\ f[i + length[i]]
           Is(f) == f = [i \in 0..to |-> Body(f, i)]
           tiled == CHOOSE f : Is(f)
           h == [i \in 0..to |-> \E T \in SUBSET (0..to) : i \in T /\ to \in T /\ Reach(T)]
<1>1. ASSUME NEW i \in 0..to PROVE h[i] = Body(h, i)
  <2>1. ASSUME h[i] PROVE Body(h, i)
    <3>1. PICK T \in SUBSET (0..to) : i \in T /\ to \in T /\ Reach(T)
      BY <2>1
    <3>2. CASE i # to
      <4>1. i + 4 <= to /\ length[i] > 4 /\ i + length[i] \in T
        BY <3>1, <3>2
      <4>2. i + length[i] \in 0..to
        BY <3>1, <4>1
      <4>3. h[i + length[i]]
        BY <3>1, <4>1, <4>2
      <4>4. i + length[i] <= to
        BY <4>2
      <4> QED
        BY <4>1, <4>3, <4>4
    <3> QED
      BY <3>2
  <2>2. ASSUME Body(h, i) PROVE h[i]
    <3>1. CASE i = to
      <4>1. {to} \in SUBSET (0..to) /\ Reach({to})
        OBVIOUS
      <4> QED
        BY <3>1, <4>1
    <3>2. CASE i # to
      <4>1. i + 4 <= to /\ length[i] > 4 /\ i + length[i] <= to /\ h[i + length[i]]
        BY <2>2, <3>2
      <4>2. i + length[i] \in 0..to
        BY <4>1
      <4>3. PICK T \in SUBSET (0..to) : i + length[i] \in T /\ to \in T /\ Reach(T)
        BY <4>1, <4>2
      <4>4. T \cup {i} \in SUBSET (0..to) /\ Reach(T \cup {i})
        BY <4>1, <4>3
      <4> QED
        BY <4>3, <4>4
    <3> QED
      BY <3>1, <3>2
  <2> QED
    BY <2>1, <2>2
<1>2. Is(h)
  <2> HIDE DEF Body, Reach
  <2> QED
    BY <1>1
<1>3. Is(tiled)
  <2> HIDE DEF Is, h
  <2> QED
    BY <1>2
<1>4. \A from : Tiled(length, from, to) <=> (from <= to /\ tiled[from])
  BY DEF Tiled
<1> HIDE DEF tiled
<1>5. \A i \in 0..to : tiled[i] <=> Body(tiled, i)
  BY <1>3
<1>6. Tiles(length, to, tiled)
  BY <1>5 DEF Tiles
<1> QED
  BY <1>4, <1>6

\* The first whole element, and the others
LEMMA TiledStep ==
    ASSUME NEW length, NEW to \in Nat,
           \A i \in 0..to : i + 4 <= to => length[i] \in Int,
           NEW from \in 0..to
    PROVE  Tiled(length, from, to) <=>
               \/ from = to
               \/ /\ from + 4 <= to /\ length[from] > 4 /\ from + length[from] <= to
                  /\ Tiled(length, from + length[from], to)
<1>1. PICK tiled : /\ Tiles(length, to, tiled)
                   /\ \A i : Tiled(length, i, to) <=> (i <= to /\ tiled[i])
  BY TiledFunction
<1>2. from <= to
  OBVIOUS
<1> QED
  BY <1>1, <1>2 DEF Tiles

Octets == Seq(0..255)

LEMMA PartTyped ==
    ASSUME NEW p \in Octets, NEW from \in Nat, NEW to \in Nat, from <= to, to <= Len(p)
    PROVE  /\ SubSeq(p, from + 1, to) \in Octets /\ Len(SubSeq(p, from + 1, to)) = to - from
           /\ \A i \in 1..(to - from) : SubSeq(p, from + 1, to)[i] = p[from + i]
           /\ Slice(p, from, to) = SubSeq(p, from + 1, to)
<1>1. p \in Seq(0..255) /\ Len(p) \in Nat
  BY LenProperties DEF Octets
<1>2. \A i \in 1..Len(p) : p[i] \in 0..255
  BY <1>1, ElementOfSeq
<1>3. /\ from + 1 \in Int /\ to \in Int /\ \A i \in (from + 1)..to : p[i] \in 0..255
      /\ to - (from + 1) + 1 = to - from /\ \A i \in Int : from + 1 + i - 1 = from + i
      /\ (IF from + 1 <= to THEN to - (from + 1) + 1 ELSE 0) = to - from
  <2>1. \A i \in (from + 1)..to : i \in 1..Len(p)
    BY <1>1
  <2>2. \A i \in (from + 1)..to : p[i] \in 0..255
    BY <1>2, <2>1
  <2>3. to - (from + 1) + 1 = to - from /\ \A i \in Int : from + 1 + i - 1 = from + i
    OBVIOUS
  <2>4. (IF from + 1 <= to THEN to - (from + 1) + 1 ELSE 0) = to - from
    <3>1. CASE from = to
      BY <3>1
    <3>2. CASE from < to
      BY <3>2
    <3> QED
      BY <3>1, <3>2
  <2> QED
    BY <2>2, <2>3, <2>4
<1>4. /\ SubSeq(p, from + 1, to) \in Seq(0..255)
      /\ Len(SubSeq(p, from + 1, to))
            = IF from + 1 <= to THEN to - (from + 1) + 1 ELSE 0
      /\ \A i \in 1..(to - (from + 1) + 1) : SubSeq(p, from + 1, to)[i] = p[from + 1 + i - 1]
  BY <1>3, SubSeqProperties
<1>5. (IF to < Len(p) THEN to ELSE Len(p)) = to
  BY <1>1
<1>6. Slice(p, from, to) = SubSeq(p, from + 1, to)
  BY <1>5 DEF Slice
<1> QED
  BY <1>3, <1>4, <1>6 DEF Octets

\* Two parts next to each other
LEMMA PartsJoin ==
    ASSUME NEW p \in Octets, NEW a \in Nat, NEW b \in Nat, NEW c \in Nat,
           a <= b, b <= c, c <= Len(p)
    PROVE  SubSeq(p, a + 1, b) \o SubSeq(p, b + 1, c) = SubSeq(p, a + 1, c)
<1>1. p \in Seq(0..255) /\ Len(p) \in Nat
  BY LenProperties DEF Octets
<1>2. /\ a + 1 \in 1..(Len(p) + 1) /\ b \in ((a + 1) - 1)..Len(p) /\ c \in b..Len(p)
  BY <1>1
<1> QED
  BY <1>1, <1>2, ConcatAdjacentSubSeq

\* A number of two bytes is written as it was read.
LEMMA WordWritten ==
    ASSUME NEW p \in Octets, NEW at \in Nat, at + 2 <= Len(p)
    PROVE  WordBytes(Word(p, at)) = SubSeq(p, at + 1, at + 2)
<1> DEFINE x == p[at + 1]
           y == p[at + 2]
           s == SubSeq(p, at + 1, at + 2)
<1>1. x \in 0..255 /\ y \in 0..255
  <2>1. at + 1 \in 1..Len(p) /\ at + 2 \in 1..Len(p) /\ p \in Seq(0..255)
    BY LenProperties DEF Octets
  <2> QED
    BY <2>1, ElementOfSeq
<1>2. Word(p, at) = 256 * x + y
  BY DEF Word
<1>3. s \in Octets /\ Len(s) = 2 /\ s[1] = x /\ s[2] = y
  <2> DEFINE to == at + 2
  <2>1. to \in Nat /\ at <= to /\ to <= Len(p) /\ to - at = 2 /\ 1 \in 1..2 /\ 2 \in 1..2
    OBVIOUS
  <2> HIDE DEF to
  <2>2. /\ SubSeq(p, at + 1, to) \in Octets /\ Len(SubSeq(p, at + 1, to)) = to - at
        /\ \A i \in 1..(to - at) : SubSeq(p, at + 1, to)[i] = p[at + i]
    BY <2>1, PartTyped
  <2> QED
    BY <2>1, <2>2 DEF to
<1> HIDE DEF x, y, s
<1>4. (256 * x + y) \div 256 = x /\ (256 * x + y) % 256 = y
  BY <1>1
<1>5. WordBytes(Word(p, at)) = <<x, y>>
  BY <1>2, <1>4 DEF WordBytes
<1>6. <<x, y>> = s
  <2>1. <<x, y>> \in Seq(0..255) /\ Len(<<x, y>>) = 2 /\ <<x, y>>[1] = x /\ <<x, y>>[2] = y
    BY <1>1
  <2>2. \A i \in 1..2 : i = 1 \/ i = 2
    OBVIOUS
  <2>3. \A i \in 1..2 : <<x, y>>[i] = s[i]
    BY <1>3, <2>1, <2>2
  <2> HIDE DEF s
  <2> QED
    BY <1>3, <2>1, <2>3, SeqEqual DEF Octets
<1> QED
  BY <1>5, <1>6 DEF s

\* Two numbers and some bytes behind them, written
LEMMA ElementWritten ==
    ASSUME NEW p \in Octets, NEW at \in Nat, NEW size \in Nat, size >= 4, at + size <= Len(p)
    PROVE  WordBytes(Word(p, at)) \o WordBytes(Word(p, at + 2)) \o Slice(p, at + 4, at + size)
               = SubSeq(p, at + 1, at + size)
<1>1. Len(p) \in Nat
  BY LenProperties DEF Octets
<1>2. /\ at + 2 \in Nat /\ at + 4 \in Nat /\ at + size \in Nat
      /\ at <= at + 2 /\ at + 2 <= at + 4 /\ at <= at + 4 /\ at + 4 <= at + size
      /\ at + 4 <= Len(p) /\ at + 2 <= Len(p) /\ (at + 2) + 2 = at + 4
      /\ (at + 2) + 2 <= Len(p)
  BY <1>1
<1>3. WordBytes(Word(p, at)) = SubSeq(p, at + 1, at + 2)
  BY <1>2, WordWritten
<1>4. WordBytes(Word(p, at + 2)) = SubSeq(p, (at + 2) + 1, at + 4)
  BY <1>2, WordWritten
<1>5. Slice(p, at + 4, at + size) = SubSeq(p, (at + 4) + 1, at + size)
  BY <1>2, PartTyped
<1>6. SubSeq(p, at + 1, at + 2) \o SubSeq(p, (at + 2) + 1, at + 4) = SubSeq(p, at + 1, at + 4)
  BY <1>2, PartsJoin
<1>7. SubSeq(p, at + 1, at + 4) \o SubSeq(p, (at + 4) + 1, at + size)
        = SubSeq(p, at + 1, at + size)
  BY <1>2, PartsJoin
<1> DEFINE a == WordBytes(Word(p, at))
           b == WordBytes(Word(p, at + 2))
           c == Slice(p, at + 4, at + size)
<1>8. a \o b = SubSeq(p, at + 1, at + 4)
  BY <1>3, <1>4, <1>6
<1>9. (a \o b) \o c = SubSeq(p, at + 1, at + size)
  BY <1>5, <1>7, <1>8
<1> QED
  BY <1>9

\* The sequences of ss, one after the other
Joined(g, ss) ==
    /\ g[0] = <<>> /\ FlattenSeq(ss) = g[Len(ss)]
    /\ \A i \in 1..Len(ss) : g[i] = g[i - 1] \o ss[i]

LEMMA FlattenFunction ==
    ASSUME NEW ss \in Seq(Octets) PROVE \E g : Joined(g, ss)
<1> DEFINE n == Len(ss)
           V == Octets
           step == [p \in (1..n) \X V |-> p[2] \o ss[p[1]]]
           Is(g) == g = [i \in 1..n |-> IF i = 1 THEN ss[i] ELSE g[i - 1] \o ss[i]]
           flatten == CHOOSE g : Is(g)
<1>1. n \in Nat /\ \A i \in 1..n : ss[i] \in V
  BY LenProperties, ElementOfSeq
<1>2. \A v, w \in V : v \o w \in V
  <2> SUFFICES ASSUME NEW v \in Seq(0..255), NEW w \in Seq(0..255) PROVE v \o w \in Seq(0..255)
    BY DEF Octets
  <2> QED
    BY ConcatProperties
<1>3. step \in Steps(n, V)
  BY <1>1, <1>2 DEF Steps
<1>4. <<>> \in V /\ \A v \in V : <<>> \o v = v
  <2> SUFFICES ASSUME NEW v \in Seq(0..255) PROVE <<>> \o v = v
    BY EmptySeq DEF Octets
  <2> QED
    BY ConcatEmptySeq
<1>5. n = 0 => ss = <<>>
  BY EmptySeq
<1>6. FlattenSeq(ss) = IF n = 0 THEN ss ELSE flatten[n]
  BY DEF FlattenSeq
<1> HIDE DEF n, V
<1>7. PICK h : Recursive(h, n, V, <<>>, step)
  <2> HIDE DEF step
  <2> QED
    BY <1>1, <1>3, <1>4, RecursionExists
<1>8. \A i \in 1..n : i \in 0..n /\ i # 0 /\ i - 1 \in 0..n
  BY <1>1
<1>9. /\ h[0] = <<>> /\ \A i \in 1..n : h[i] = h[i - 1] \o ss[i]
      /\ \A i \in 0..n : h[i] \in V
  BY <1>7, <1>8 DEF Recursive
<1> DEFINE f == [i \in 1..n |-> h[i]]
<1>10. Is(f)
  <2>1. ASSUME NEW i \in 1..n PROVE f[i] = IF i = 1 THEN ss[i] ELSE f[i - 1] \o ss[i]
    <3>1. CASE i = 1
      <4>1. i - 1 = 0 /\ ss[i] \in V
        BY <1>1, <3>1
      <4>2. f[i] = <<>> \o ss[i]
        BY <1>9, <4>1
      <4> QED
        BY <1>4, <3>1, <4>1, <4>2
    <3>2. CASE i # 1
      <4>1. i - 1 \in 1..n
        BY <1>1, <3>2
      <4> QED
        BY <1>9, <3>2, <4>1
    <3> QED
      BY <3>1, <3>2
  <2>2. f = [i \in 1..n |-> f[i]]
    OBVIOUS
  <2> HIDE DEF f
  <2> QED
    BY <2>1, <2>2
<1>11. Is(flatten)
  <2> HIDE DEF Is, f
  <2> QED
    BY <1>10
<1> HIDE DEF flatten, f
<1> DEFINE g == [i \in 0..n |-> IF i = 0 THEN <<>> ELSE flatten[i]]
<1>12. g[0] = <<>>
  BY <1>1
<1>13. FlattenSeq(ss) = g[n]
  <2>1. n \in 0..n
    BY <1>1
  <2> QED
    BY <1>5, <1>6, <2>1
<1>14. ASSUME NEW i \in 1..n PROVE g[i] = g[i - 1] \o ss[i]
  <2>1. flatten[i] = IF i = 1 THEN ss[i] ELSE flatten[i - 1] \o ss[i]
    BY <1>11
  <2>2. g[i] = flatten[i]
    BY <1>8
  <2>3. CASE i = 1
    <3>1. g[i - 1] = <<>> /\ ss[i] \in V
      BY <1>1, <1>12, <2>3
    <3> HIDE DEF g
    <3> QED
      BY <1>4, <2>1, <2>2, <2>3, <3>1
  <2>4. CASE i # 1
    <3>1. i - 1 \in 0..n /\ i - 1 # 0
      BY <1>8, <2>4
    <3>2. g[i - 1] = flatten[i - 1]
      BY <3>1
    <3> HIDE DEF g
    <3> QED
      BY <2>1, <2>2, <2>4, <3>2
  <2> QED
    BY <2>3, <2>4
<1> HIDE DEF g
<1> QED
  BY <1>12, <1>13, <1>14 DEF Joined, n

-----------------------------------------------------------------------------
(* Blocks and values of a message.                                         *)

\* Why a message is refused
Unfit ==
    \/ ~agrees
    \/ Size < First
    \/ /\ First <= Size /\ offset = Behind(Len(found))
       /\ IF Rest >= MinBlockSize THEN ~Fits(packet, offset) ELSE Rest \notin {0, Trailer}

MessageJudged ==
    format \in Messages =>
        /\ stage \in {"walk", "accepted"} => First <= Size
        /\ stage = "refused" => Unfit

BlockLengths == [i \in 0..Size - 4 |-> BlockSize(packet, i)]
BlocksBuilt == [i \in DOMAIN found |-> Built(found[i])]

LEMMA BlockLengthsTyped ==
    ASSUME packet \in Octets, NEW to \in Nat, to <= Size
    PROVE  \A i \in 0..to : i + 4 <= to =>
               /\ BlockLengths[i] = BlockSize(packet, i) /\ BlockLengths[i] \in Int
               /\ Registers(packet, i) \in Int
               /\ BlockSize(packet, i) = 4 + 2 * Registers(packet, i)
<1> SUFFICES ASSUME NEW i \in 0..to, i + 4 <= to
             PROVE  /\ BlockLengths[i] = BlockSize(packet, i) /\ BlockLengths[i] \in Int
                    /\ Registers(packet, i) \in Int
                    /\ BlockSize(packet, i) = 4 + 2 * Registers(packet, i)
  OBVIOUS
<1>1. packet \in Seq(0..255) /\ Size = Len(packet) /\ Size \in Nat
  BY LenProperties DEF Octets, Size
<1>2. i \in Nat /\ i + 2 \in Nat /\ i + 2 <= Len(packet) /\ (i + 2) + 2 <= Len(packet)
      /\ i \in 0..(Size - 4)
  BY <1>1
<1>3. Word(packet, i) \in Nat /\ Word(packet, i + 2) \in Nat
  BY <1>1, <1>2, WordIsNat
<1>4. Registers(packet, i) \in Int
  BY <1>3 DEF Registers
<1>5. BlockSize(packet, i) = 4 + 2 * Registers(packet, i) /\ BlockSize(packet, i) \in Int
  BY <1>4 DEF BlockSize
<1>6. BlockLengths[i] = BlockSize(packet, i)
  BY <1>2 DEF BlockLengths
<1> QED
  BY <1>4, <1>5, <1>6

\* What a block that was found says of the packet
LEMMA FoundBlock ==
    ASSUME MessageRead, format \in Messages, NEW i \in 1..Len(found)
    PROVE  LET at == found[i].at
           IN  /\ at \in Nat /\ at = Behind(i - 1) /\ Behind(i) = at + BlockSize(packet, at)
               /\ found[i] = Block(packet, at) /\ Fits(packet, at)
               /\ Registers(packet, at) \in Nat \ {0}
               /\ BlockSize(packet, at) = 4 + 2 * Registers(packet, at)
               /\ at + BlockSize(packet, at) <= Size /\ at + MinBlockSize <= Size
<1> DEFINE at == found[i].at
<1>1. /\ packet \in Seq(0..255) /\ found \in Seq(Blocks) /\ Laid /\ Len(found) \in Nat
      /\ Size = Len(packet) /\ Size \in Nat
  BY LenProperties DEF MessageRead, Size
<1>2. /\ at = Behind(i - 1) /\ found[i] = Block(packet, at) /\ Fits(packet, at)
  BY <1>1 DEF Laid
<1>3. i # 0 /\ found[i] \in Blocks
  BY <1>1, ElementOfSeq
<1>4. Behind(i) = at + BlockSize(packet, at)
  BY <1>3 DEF Behind
<1>5. at \in Nat /\ found[i].start \in Int /\ found[i].end \in Int
  BY <1>3 DEF Blocks
<1> HIDE DEF at
<1>6. Word(packet, at) \in Int /\ Word(packet, at + 2) \in Int
  BY <1>2, <1>5 DEF Block
<1>7. Registers(packet, at) \in Int /\ Registers(packet, at) > 0
      /\ at + BlockSize(packet, at) <= Size
  BY <1>1, <1>2, <1>6 DEF Registers, Fits
<1>8. BlockSize(packet, at) = 4 + 2 * Registers(packet, at)
  BY DEF BlockSize
<1>9. at + MinBlockSize <= Size /\ Registers(packet, at) \in Nat \ {0}
  BY <1>1, <1>5, <1>7, <1>8 DEF MinBlockSize
<1> QED
  BY <1>2, <1>4, <1>5, <1>7, <1>8, <1>9 DEF at

\* A block is rebuilt as it was read.
LEMMA FoundBuilt ==
    ASSUME MessageRead, format \in Messages, NEW i \in 1..Len(found)
    PROVE  LET at == found[i].at
               to == at + BlockSize(packet, at)
           IN  Built(found[i]) = SubSeq(packet, at + 1, to) /\ Built(found[i]) \in Octets
<1> DEFINE at == found[i].at
           size == BlockSize(packet, at)
<1>1. packet \in Octets /\ Size = Len(packet)
  BY DEF MessageRead, Octets, Size
<1>2. /\ at \in Nat /\ found[i] = Block(packet, at)
      /\ Registers(packet, at) \in Nat \ {0} /\ size = 4 + 2 * Registers(packet, at)
      /\ at + size <= Size
  BY FoundBlock
<1>3. Built(Block(packet, at)) = WordBytes(Word(packet, at))
          \o WordBytes(Word(packet, at + 2)) \o Slice(packet, at + 4, at + size)
  BY DEF Built, Block
<1>4. Built(found[i]) = Built(Block(packet, at))
  BY <1>2
<1> HIDE DEF at, size
<1>5. size \in Nat /\ size >= 4 /\ at + size \in Nat /\ at <= at + size
  BY <1>2
<1>6. WordBytes(Word(packet, at)) \o WordBytes(Word(packet, at + 2))
          \o Slice(packet, at + 4, at + size) = SubSeq(packet, at + 1, at + size)
  BY <1>1, <1>2, <1>5, ElementWritten
<1>7. SubSeq(packet, at + 1, at + size) \in Octets
  BY <1>1, <1>2, <1>5, PartTyped
<1> QED
  BY <1>3, <1>4, <1>6, <1>7 DEF at, size

\* Blocks that were found tile what is before the place behind them, and rebuild it.
LEMMA BlocksTile ==
    ASSUME MessageRead, format \in Messages, First <= Size,
           NEW to \in {Size, Size - Trailer},
           NEW g, Joined(g, BlocksBuilt),
           NEW n \in 0..Len(found)
    PROVE  /\ Behind(n) \in Nat /\ Behind(n) <= Size /\ First <= Behind(n)
           /\ Tiled(BlockLengths, First, to) <=> Tiled(BlockLengths, Behind(n), to)
           /\ g[n] = SubSeq(packet, First + 1, Behind(n))
<1> DEFINE Ok(k) == /\ Behind(k) \in Nat /\ Behind(k) <= Size /\ First <= Behind(k)
                    /\ Tiled(BlockLengths, First, to) <=> Tiled(BlockLengths, Behind(k), to)
                    /\ g[k] = SubSeq(packet, First + 1, Behind(k))
           m == Len(found)
           T == {k \in 0..m : Ok(k)}
<1>1. /\ packet \in Octets /\ found \in Seq(Blocks) /\ m \in Nat /\ First \in Nat
      /\ Size \in Nat /\ Size = Len(packet) /\ DOMAIN found = 1..m
  BY PlaceIsNat, LenProperties DEF MessageRead, Octets, Size
<1>2. Len(BlocksBuilt) = m /\ \A i \in 1..m : BlocksBuilt[i] = Built(found[i])
  <2>1. BlocksBuilt = [i \in 1..m |-> Built(found[i])]
    BY <1>1 DEF BlocksBuilt
  <2>2. BlocksBuilt \in [1..m -> {Built(found[i]) : i \in 1..m}]
    BY <2>1
  <2>3. Len(BlocksBuilt) = m
    BY <1>1, <2>2, FunctionIsSeq
  <2> QED
    BY <2>1, <2>3
<1>3. 0 \in T
  <2>1. Behind(0) = First
    BY DEF Behind
  <2>2. g[0] = SubSeq(packet, First + 1, First)
    <3>1. SubSeq(packet, First + 1, First) = <<>>
      BY <1>1, SubSeqEmpty
    <3> QED
      BY <3>1 DEF Joined
  <2>3. First \in Nat /\ First <= Size /\ First <= First /\ 0 \in 0..m
    BY <1>1
  <2>4. Ok(0)
    BY <2>1, <2>2, <2>3
  <2> HIDE DEF Ok
  <2> QED
    BY <2>3, <2>4
<1>4. ASSUME NEW i \in 0..(m - 1), i \in T PROVE i + 1 \in T
  <2> DEFINE at == Behind(i)
             size == BlockSize(packet, at)
  <2>1. i + 1 \in 1..m /\ (i + 1) - 1 = i /\ i + 1 \in 0..m
    BY <1>1
  <2>2. /\ at \in Nat /\ Behind(i + 1) = at + size
        /\ found[i + 1] = Block(packet, at)
        /\ Registers(packet, at) \in Nat \ {0} /\ size = 4 + 2 * Registers(packet, at)
        /\ at + size <= Size /\ at + MinBlockSize <= Size
    BY <2>1, FoundBlock
  <2>0. size \in Nat /\ size > 4
    BY <2>2
  <2>3. Ok(i)
    BY <1>4
  <2> HIDE DEF at, size
  <2>4. /\ Behind(i + 1) \in Nat /\ Behind(i + 1) <= Size /\ First <= Behind(i + 1)
    <3>1. First <= at
      BY <2>3 DEF at
    <3> QED
      BY <1>1, <2>0, <2>2, <3>1
  <2>5. Tiled(BlockLengths, at, to) <=> Tiled(BlockLengths, at + size, to)
    <3>1. /\ to \in Nat /\ to <= Size /\ at \in 0..to /\ at # to /\ at + 4 <= to /\ size > 4
      BY <1>1, <2>2 DEF MinBlockSize, Trailer
    <3>2. /\ \A j \in 0..to : j + 4 <= to => BlockLengths[j] \in Int
          /\ BlockLengths[at] = size
      BY <1>1, <3>1, BlockLengthsTyped DEF size
    <3>3. Tiled(BlockLengths, at, to) <=>
               \/ at = to
               \/ /\ at + 4 <= to /\ BlockLengths[at] > 4 /\ at + BlockLengths[at] <= to
                  /\ Tiled(BlockLengths, at + BlockLengths[at], to)
      BY <3>1, <3>2, TiledStep
    <3>4. Tiled(BlockLengths, at + size, to) => at + size <= to
      BY DEF Tiled
    <3> QED
      BY <3>1, <3>2, <3>3, <3>4
  <2>6. g[i + 1] = SubSeq(packet, First + 1, at + size)
    <3>1. Built(found[i + 1]) = SubSeq(packet, at + 1, at + size)
      <4>1. found[i + 1].at = at
        BY <2>2 DEF Block
      <4>2. i + 1 \in 1..Len(found)
        BY <2>1
      <4> QED
        BY <4>1, <4>2, FoundBuilt DEF size
    <3>2. g[i + 1] = g[i] \o Built(found[i + 1])
      BY <1>2, <2>1 DEF Joined
    <3>3. g[i] = SubSeq(packet, First + 1, at)
      BY <2>3 DEF at
    <3>4. First \in Nat /\ at + size \in Nat /\ First <= at /\ at <= at + size
          /\ at + size <= Len(packet)
      <4>1. First <= at
        BY <2>3 DEF at
      <4> QED
        BY <1>1, <2>0, <2>2, <4>1
    <3>5. SubSeq(packet, First + 1, at) \o SubSeq(packet, at + 1, at + size)
            = SubSeq(packet, First + 1, at + size)
      <4> DEFINE to1 == at + size
                 from == First
      <4>1. /\ packet \in Octets /\ from \in Nat /\ at \in Nat /\ to1 \in Nat
            /\ from <= at /\ at <= to1 /\ to1 <= Len(packet)
        BY <1>1, <2>2, <3>4
      <4> HIDE DEF to1, from
      <4>2. SubSeq(packet, from + 1, at) \o SubSeq(packet, at + 1, to1)
              = SubSeq(packet, from + 1, to1)
        BY <4>1, PartsJoin
      <4> QED
        BY <4>2 DEF to1, from
    <3> QED
      BY <3>1, <3>2, <3>3, <3>5
  <2> QED
    BY <2>1, <2>2, <2>3, <2>4, <2>5, <2>6 DEF at
<1> HIDE DEF T
<1>5. 0..m \subseteq T
  BY <1>1, <1>3, <1>4, AllUpTo
<1> QED
  BY <1>5 DEF T

\* Blocks that were found, and places where no block is, tell whether blocks fill the
\* message.
LEMMA BlocksRight ==
    ASSUME MessageRead, MessageJudged
    PROVE  BlocksExact
<1> SUFFICES ASSUME stage \in {"accepted", "refused"}, format \in Messages
             PROVE  LET built == FlattenSeq(BlocksBuilt)
                    IN /\ (stage = "accepted") =
                             /\ agrees
                             /\ \E to \in {Size, Size - Trailer} :
                                   Tiled(BlockLengths, First, to)
                       /\ stage = "accepted" =>
                             \E to \in {Size, Size - Trailer} :
                                 built = Slice(packet, First, to)
  BY DEF BlocksExact, BlockLengths, BlocksBuilt
<1> DEFINE m == Len(found)
           Fill == \E to \in {Size, Size - Trailer} : Tiled(BlockLengths, First, to)
<1>1. /\ packet \in Octets /\ found \in Seq(Blocks) /\ m \in Nat /\ First \in Nat
      /\ Size \in Nat /\ Size = Len(packet) /\ DOMAIN found = 1..m /\ offset \in Nat
      /\ m \in 0..m
  BY PlaceIsNat, LenProperties DEF MessageRead, Octets, Size
<1>2. \A from, to : Tiled(BlockLengths, from, to) => from <= to
  BY DEF Tiled
<1>3. PICK g : Joined(g, BlocksBuilt)
  <2>1. \A i \in 1..m : Built(found[i]) \in Octets
    BY FoundBuilt
  <2>2. BlocksBuilt \in [1..m -> Octets]
    BY <1>1, <2>1 DEF BlocksBuilt
  <2>3. BlocksBuilt \in Seq(Octets)
    BY <1>1, <2>2, FunctionIsSeq
  <2> QED
    BY <2>3, FlattenFunction
<1>4. Len(BlocksBuilt) = m
  <2>1. BlocksBuilt \in [1..m -> {Built(found[i]) : i \in 1..m}]
    BY <1>1 DEF BlocksBuilt
  <2> QED
    BY <1>1, <2>1, FunctionIsSeq
<1>5. ASSUME First <= Size, NEW to \in {Size, Size - Trailer}
      PROVE  /\ Behind(m) \in Nat /\ Behind(m) <= Size /\ First <= Behind(m)
             /\ Tiled(BlockLengths, First, to) <=> Tiled(BlockLengths, Behind(m), to)
             /\ FlattenSeq(BlocksBuilt) = SubSeq(packet, First + 1, Behind(m))
  BY <1>1, <1>3, <1>4, <1>5, BlocksTile DEF Joined
<1>6. CASE stage = "accepted"
  <2> DEFINE to == Behind(m)
  <2>1. agrees /\ First <= Size /\ to \in {Size, Size - Trailer}
    BY <1>6 DEF MessageRead, MessageJudged
  <2>2. /\ to \in Nat /\ to <= Size /\ First <= to
        /\ Tiled(BlockLengths, First, to) <=> Tiled(BlockLengths, to, to)
        /\ FlattenSeq(BlocksBuilt) = SubSeq(packet, First + 1, to)
    BY <1>5, <2>1
  <2> HIDE DEF to
  <2>3. Tiled(BlockLengths, to, to)
    <3>1. \A i \in 0..to : i + 4 <= to => BlockLengths[i] \in Int
      BY <1>1, <2>2, BlockLengthsTyped
    <3>2. to \in 0..to
      BY <2>2
    <3> QED
      BY <2>2, <3>1, <3>2, TiledStep
  <2>4. Slice(packet, First, to) = SubSeq(packet, First + 1, to)
    BY <1>1, <2>2, PartTyped
  <2>5. Fill /\ \E t \in {Size, Size - Trailer} : FlattenSeq(BlocksBuilt) = Slice(packet, First, t)
    BY <2>1, <2>2, <2>3, <2>4
  <2> QED
    BY <1>6, <2>1, <2>5
<1>7. CASE stage = "refused"
  <2> SUFFICES ASSUME agrees, NEW to \in {Size, Size - Trailer},
                      Tiled(BlockLengths, First, to)
               PROVE  FALSE
    BY <1>7
  <2>1. First <= to /\ to \in Int /\ to <= Size /\ First <= Size
    BY <1>1, <1>2 DEF Trailer
  <2> DEFINE b == Behind(m)
  <2>2. /\ offset = b
        /\ IF Rest >= MinBlockSize THEN ~Fits(packet, offset) ELSE Rest \notin {0, Trailer}
    BY <1>1, <1>7, <2>1 DEF MessageJudged, Unfit
  <2>3. b \in Nat /\ b <= Size /\ Tiled(BlockLengths, b, to)
    BY <1>5, <2>1
  <2> HIDE DEF b
  <2>4. b <= to /\ to \in Nat /\ b \in 0..to
    BY <1>2, <2>1, <2>3
  <2>5. Rest = Size - b
    BY <2>2 DEF Rest
  <2>6. b # to
    BY <1>1, <2>2, <2>3, <2>5 DEF MinBlockSize, Trailer
  <2>7. /\ b + 4 <= to /\ BlockLengths[b] > 4 /\ b + BlockLengths[b] <= to
    <3>1. \A i \in 0..to : i + 4 <= to => BlockLengths[i] \in Int
      BY <1>1, <2>1, <2>4, BlockLengthsTyped
    <3> QED
      BY <2>3, <2>4, <2>6, <3>1, TiledStep
  <2>8. /\ BlockLengths[b] = BlockSize(packet, b) /\ Registers(packet, b) \in Int
        /\ BlockSize(packet, b) = 4 + 2 * Registers(packet, b)
    BY <1>1, <2>1, <2>4, <2>7, BlockLengthsTyped
  <2>9. Registers(packet, b) > 0 /\ b + BlockSize(packet, b) <= Size
    BY <1>1, <2>1, <2>3, <2>7, <2>8
  <2>10. Rest >= MinBlockSize
    BY <1>1, <2>3, <2>5, <2>8, <2>9 DEF MinBlockSize
  <2>11. Fits(packet, offset)
    BY <1>1, <2>2, <2>9 DEF Fits
  <2> QED
    BY <2>2, <2>10, <2>11
<1> QED
  BY <1>6, <1>7

\* A part of a part
LEMMA PartOfPart ==
    ASSUME NEW p \in Octets, NEW from \in Nat, NEW to \in Nat, from <= to, to <= Len(p),
           NEW a \in Nat, NEW b \in Nat, a <= b, from + b <= to
    PROVE  SubSeq(SubSeq(p, from + 1, to), a + 1, b) = SubSeq(p, (from + a) + 1, from + b)
<1> DEFINE s == SubSeq(p, from + 1, to)
           t == SubSeq(s, a + 1, b)
           u == SubSeq(p, (from + a) + 1, from + b)
<1>1. Len(p) \in Nat
  BY LenProperties DEF Octets
<1>2. /\ s \in Octets /\ Len(s) = to - from
      /\ \A i \in 1..(to - from) : s[i] = p[from + i]
  BY PartTyped
<1> HIDE DEF s
<1>3. b <= Len(s)
  BY <1>2
<1>4. /\ t \in Octets /\ Len(t) = b - a /\ \A i \in 1..(b - a) : t[i] = s[a + i]
  BY <1>2, <1>3, PartTyped
<1> HIDE DEF t
<1> DEFINE c == from + a
           d == from + b
<1>5. c \in Nat /\ d \in Nat /\ c <= d /\ d <= Len(p) /\ d - c = b - a
  BY <1>1
<1>6. u = SubSeq(p, c + 1, d)
  OBVIOUS
<1> HIDE DEF c, d, u
<1>7. /\ u \in Octets /\ Len(u) = d - c /\ \A i \in 1..(d - c) : u[i] = p[c + i]
  BY <1>5, <1>6, PartTyped
<1>8. ASSUME NEW i \in 1..(b - a) PROVE t[i] = u[i]
  <2>1. a + i \in 1..(to - from) /\ from + (a + i) = c + i
    BY DEF c
  <2> QED
    BY <1>2, <1>4, <1>5, <1>7, <2>1
<1>9. t = u
  <2>1. t \in Seq(0..255) /\ u \in Seq(0..255) /\ Len(t) = b - a /\ Len(u) = b - a
    BY <1>4, <1>5, <1>7 DEF Octets
  <2> QED
    BY <1>8, <2>1, SeqEqual
<1> QED
  BY <1>9 DEF t, u, s

\* A value has its bytes, or too many are asked for.
ValueIs(p, at, n, k, shift, size) ==
    LET values == Slice(p, at + 4, at + (4 + 2 * n))
        from == 2 * k + shift
        all == SubSeq(p, at + 5 + 2 * k, at + 4 + 2 * n)
    IN  (IF from + size > Len(values) THEN <<>> ELSE Slice(values, from, from + size))
            = IF Len(all) >= shift + size THEN SubSeq(all, shift + 1, shift + size) ELSE <<>>

LEMMA ValueRead ==
    ASSUME NEW p \in Octets, NEW at \in Nat, NEW n \in Nat, at + 4 + 2 * n <= Len(p),
           NEW k \in Nat, k < n, NEW shift \in Nat, NEW size \in Nat
    PROVE  ValueIs(p, at, n, k, shift, size)
<1> DEFINE c == at + 4
           d == at + 4 + 2 * n
           e == at + 4 + 2 * k
           values == SubSeq(p, c + 1, d)
           from == 2 * k + shift
           all == SubSeq(p, e + 1, d)
<1>1. /\ c \in Nat /\ d \in Nat /\ e \in Nat /\ c <= d /\ e <= d /\ d <= Len(p)
      /\ from \in Nat /\ from + size \in Nat /\ from <= from + size
      /\ at + (4 + 2 * n) = d /\ at + 5 + 2 * k = e + 1 /\ Len(p) \in Nat
      /\ d - c = 2 * n /\ d - e = 2 * (n - k) /\ e = c + 2 * k
      /\ shift + size \in Nat /\ shift <= shift + size
      /\ (c + from) = e + shift /\ c + (from + size) = e + (shift + size)
  BY LenProperties DEF Octets
<1> HIDE DEF c, d, e, from
<1>2. /\ values \in Octets /\ Len(values) = d - c /\ Slice(p, c, d) = values
  <2>1. c \in Nat /\ d \in Nat /\ c <= d /\ d <= Len(p)
    BY <1>1
  <2>2. /\ SubSeq(p, c + 1, d) \in Octets /\ Len(SubSeq(p, c + 1, d)) = d - c
        /\ Slice(p, c, d) = SubSeq(p, c + 1, d)
    BY <2>1, PartTyped
  <2> QED
    BY <2>2
<1>3. all \in Octets /\ Len(all) = d - e
  <2>1. e \in Nat /\ d \in Nat /\ e <= d /\ d <= Len(p)
    BY <1>1
  <2>2. SubSeq(p, e + 1, d) \in Octets /\ Len(SubSeq(p, e + 1, d)) = d - e
    BY <2>1, PartTyped
  <2> QED
    BY <2>2
<1>4. from + size <= Len(values) <=> Len(all) >= shift + size
  BY <1>1, <1>2, <1>3 DEF from
<1>5. ASSUME from + size <= Len(values)
      PROVE  Slice(values, from, from + size) = SubSeq(all, shift + 1, shift + size)
  <2> DEFINE x == from + size
             y == shift + size
  <2>1. x \in Nat /\ y \in Nat /\ from <= x /\ shift <= y /\ c + x <= d /\ e + y <= d
        /\ c + from = e + shift /\ c + x = e + y /\ x <= Len(values)
    BY <1>1, <1>2, <1>3, <1>4, <1>5
  <2> HIDE DEF x, y, values, all
  <2>2. Slice(values, from, x) = SubSeq(values, from + 1, x)
    <3>1. values \in Octets /\ from \in Nat /\ x \in Nat /\ from <= x /\ x <= Len(values)
      BY <1>1, <1>2, <2>1
    <3> HIDE DEF values, x, from
    <3> QED
      BY <3>1, PartTyped
  <2>3. SubSeq(values, from + 1, x) = SubSeq(p, (c + from) + 1, c + x)
    BY <1>1, <2>1, PartOfPart DEF values
  <2>4. SubSeq(all, shift + 1, y) = SubSeq(p, (e + shift) + 1, e + y)
    BY <1>1, <2>1, PartOfPart DEF all
  <2> QED
    BY <2>1, <2>2, <2>3, <2>4 DEF x, y
<1>6. /\ Slice(p, at + 4, at + (4 + 2 * n)) = values
      /\ SubSeq(p, at + 5 + 2 * k, at + 4 + 2 * n) = all
  BY <1>1, <1>2 DEF c, d
<1>7. ~(from + size <= Len(values)) <=> from + size > Len(values)
  BY <1>1, <1>2
<1> HIDE DEF values, all
<1>8. (IF from + size > Len(values) THEN <<>> ELSE Slice(values, from, from + size))
        = IF Len(all) >= shift + size THEN SubSeq(all, shift + 1, shift + size) ELSE <<>>
  <2>1. CASE from + size <= Len(values)
    BY <1>4, <1>5, <1>7, <2>1
  <2>2. CASE ~(from + size <= Len(values))
    BY <1>4, <1>7, <2>2
  <2> QED
    BY <2>1, <2>2
<1> QED
  BY <1>6, <1>8 DEF from, ValueIs

\* Whatever register, offset in it and size are asked for
LEMMA ValueRight ==
    ASSUME MessageRead, format \in Messages, stage = "accepted",
           NEW register \in Nat, NEW shift \in Nat, NEW size \in Nat
    PROVE  ValueExact(register, shift, size)
<1> SUFFICES LET data == GetData(found, register, shift, size)
                 with == {i \in DOMAIN found : register \in found[i].start..found[i].end}
                 octets(b) == SubSeq(packet, b.at + 5 + 2 * (register - b.start),
                                     b.at + 4 + 2 * (b.end - b.start + 1))
             IN IF with = {} THEN data = <<>>
                ELSE LET all == octets(found[Min(with)])
                     IN data = IF Len(all) >= shift + size
                               THEN SubSeq(all, shift + 1, shift + size) ELSE <<>>
  BY DEF ValueExact
<1> DEFINE m == Len(found)
           with == {i \in DOMAIN found : register \in found[i].start..found[i].end}
           held == {i \in 1..m : Holds(found[i], register)}
<1>1. /\ packet \in Octets /\ m \in Nat /\ DOMAIN found = 1..m /\ Size = Len(packet)
      /\ \A i \in 1..m : found[i] \in Blocks
  BY LenProperties, ElementOfSeq DEF MessageRead, Octets, Size
<1>2. held = with
  <2>1. \A i \in 1..m : found[i].start \in Int /\ found[i].end \in Int
    BY <1>1 DEF Blocks
  <2> QED
    BY <1>1, <2>1 DEF Holds
<1>3. GetData(found, register, shift, size) =
        LET i == IF held # {} THEN Min(held) ELSE 0
        IN IF i = 0 THEN <<>>
           ELSE Within(found[i], 2 * (register - found[i].start) + shift, size)
  BY DEF GetData, SelectInSeq
<1> HIDE DEF held, with
<1>4. CASE with = {}
  BY <1>2, <1>3, <1>4 DEF with
<1>5. CASE with # {}
  <2> DEFINE i == Min(with)
             b == found[i]
             at == b.at
             n == Registers(packet, at)
             k == register - b.start
             all == SubSeq(packet, b.at + 5 + 2 * (register - b.start),
                           b.at + 4 + 2 * (b.end - b.start + 1))
  <2>1. i \in with
    <3>1. with \subseteq Nat
      BY <1>1 DEF with
    <3>2. \E x \in with : \A y \in with : x <= y
      BY <1>5, <3>1, Least
    <3> QED
      BY <3>2 DEF Min
  <2> HIDE DEF i
  <2>2. i \in 1..m /\ i # 0 /\ register \in b.start..b.end
    BY <1>1, <2>1 DEF with
  <2>3. /\ at \in Nat /\ b = Block(packet, at) /\ n \in Nat \ {0}
        /\ BlockSize(packet, at) = 4 + 2 * n /\ at + BlockSize(packet, at) <= Size
    BY <2>2, FoundBlock
  <2>4. b.start \in Int /\ b.end \in Int
    BY <1>1, <2>2 DEF Blocks
  <2>5. /\ b.values = Slice(packet, at + 4, at + BlockSize(packet, at))
        /\ n = b.end - b.start + 1
    <3>1. /\ b.start = Word(packet, at) /\ b.end = Word(packet, at + 2)
          /\ b.values = Slice(packet, at + 4, at + BlockSize(packet, at))
      BY <2>3 DEF Block
    <3> QED
      BY <3>1 DEF Registers
  <2>6. GetData(found, register, shift, size) = Within(b, 2 * k + shift, size)
    BY <1>2, <1>3, <1>5, <2>2 DEF i
  <2> HIDE DEF b, at, n
  <2>7. k \in Nat /\ k < n /\ at + 4 + 2 * n <= Len(packet) /\ shift \in Nat /\ size \in Nat
    <3>1. at \in Nat /\ n \in Nat /\ at + BlockSize(packet, at) <= Len(packet)
          /\ BlockSize(packet, at) = 4 + 2 * n
      BY <1>1, <2>3
    <3>2. at + 4 + 2 * n <= Len(packet)
      BY <1>1, <3>1 DEF Size
    <3>3. register \in Int /\ b.start <= register /\ register <= b.end
      BY <2>2, <2>4
    <3>4. k = register - b.start /\ n = b.end - b.start + 1
      BY <2>5
    <3>5. k \in Nat /\ k < n
      <4> DEFINE s == b.start
                 e == b.end
      <4>1. s \in Int /\ e \in Int /\ register \in Int /\ s <= register /\ register <= e
            /\ k = register - s /\ n = e - s + 1
        BY <2>4, <3>3, <3>4
      <4> HIDE DEF s, e, k
      <4> QED
        BY <4>1
    <3> QED
      BY <3>2, <3>5
  <2>8. all = SubSeq(packet, at + 5 + 2 * k, at + 4 + 2 * n)
    BY <2>5 DEF at
  <2> HIDE DEF k, all
  <2>9. Within(b, 2 * k + shift, size)
          = IF Len(all) >= shift + size THEN SubSeq(all, shift + 1, shift + size) ELSE <<>>
    <3> DEFINE values == Slice(packet, at + 4, at + (4 + 2 * n))
               from == 2 * k + shift
    <3>1. (IF from + size > Len(values) THEN <<>> ELSE Slice(values, from, from + size))
            = IF Len(all) >= shift + size THEN SubSeq(all, shift + 1, shift + size) ELSE <<>>
      <4>1. packet \in Octets /\ at \in Nat /\ n \in Nat /\ at + 4 + 2 * n <= Len(packet)
            /\ k \in Nat /\ k < n /\ shift \in Nat /\ size \in Nat
        BY <1>1, <2>3, <2>7
      <4> HIDE DEF values, from
      <4>2. ValueIs(packet, at, n, k, shift, size)
        BY <4>1, ValueRead
      <4> QED
        BY <2>8, <4>2 DEF values, from, ValueIs
    <3>2. b.values = values
      BY <2>3, <2>5
    <3> HIDE DEF values, from
    <3>3. Within(b, from, size)
            = IF from + size > Len(values) THEN <<>> ELSE Slice(values, from, from + size)
      BY <3>2 DEF Within
    <3> QED
      BY <3>1, <3>3 DEF from
  <2>10. GetData(found, register, shift, size)
          = IF Len(all) >= shift + size THEN SubSeq(all, shift + 1, shift + size) ELSE <<>>
    BY <2>6, <2>9 DEF k
  <2> QED
    BY <1>5, <2>10 DEF all, b, i, with
<1> QED
  BY <1>4, <1>5

-----------------------------------------------------------------------------
(* Entries of an answer.                                                   *)

Entries == [at : Nat, register : Nat, value : Octets]

\* The place behind the n-th entry, or where the first one is looked for
EntryBehind(n) ==
    IF n = 0 THEN Starts(packet, format) ELSE found[n].at + EntrySize(packet, found[n].at)

EntriesLaid ==
    /\ found \in Seq(Entries) /\ offset = EntryBehind(Len(found))
    /\ \A i \in 1..Len(found) :
          /\ found[i].at = EntryBehind(i - 1)
          /\ EntryFits(packet, found[i].at, EntriesEnd)
          /\ found[i] = Entry(packet, found[i].at)

EntriesRead ==
    format = "response" =>
        /\ packet \in Octets /\ offset \in Nat /\ stage # "metadata"
        /\ stage = "walk" => EntriesLaid
        /\ stage = "accepted" =>
              /\ ~EntryFits(packet, offset, EntriesEnd)
              /\ \/ offset = Starts(packet, format)
                 \/ found # <<>> /\ EntriesLaid

\* The entries of device information that were read, and what is kept of them: the last
\* one of each register
Seen == {i \in Places : i < offset}

LastSeen(k, value) ==
    \E i \in Seen : /\ Word(packet, i) = k /\ value = Entry(packet, i).value
                    /\ \A j \in Seen : Word(packet, j) = k => j <= i

FieldsTaken ==
    /\ Tiled(EntryLengths, ConfigOffset(packet), offset)
    /\ Seen = {} => found = <<>>
    /\ DOMAIN found = {Word(packet, i) : i \in Seen}
    /\ \A k \in DOMAIN found : LastSeen(k, found[k])

FieldsRead ==
    format = "config" =>
        /\ packet \in Octets /\ offset \in Nat /\ offset <= Size /\ stage # "metadata"
        /\ stage = "walk" => FieldsTaken
        /\ FieldsExact

\* Candidates in front of the place that is tried next
Tried == {i \in 0..DataEnd - 6 : ExactFit(packet, i, DataEnd) /\ i < offset}

EmbeddedRead ==
    format = "embedded" =>
        /\ packet \in Octets /\ offset \in Nat /\ stage # "metadata"
        /\ stage \in {"walk", "accepted"} =>
              /\ (DataEnd - offset) % 2 = 0
              /\ found = IF Tried = {} THEN <<>> ELSE <<Block(packet, Min(Tried))>>
        /\ stage = "accepted" => ~InReach

ReadRight == MessageJudged /\ EntriesRead /\ FieldsRead /\ EmbeddedRead

\* Where the first whole message of a packet may begin
LEMMA LeastIsMin ==
    ASSUME NEW T, T \subseteq Nat, T # {}
    PROVE  Min(T) \in T /\ \A n \in T : Min(T) <= n
<1>1. \E x \in T : \A y \in T : x <= y
  BY Least
<1> QED
  BY <1>1 DEF Min

LEMMA StartIsNat ==
    ASSUME NEW p \in Octets, NEW f \in {"response", "config"}
    PROVE  Starts(p, f) \in Nat
<1> DEFINE plausible == {i \in 0..Len(p) - 5 : /\ Word(p, i) \in 1..999
                                              /\ Word(p, i + 2) \in 1..255}
<1>1. plausible \subseteq Nat
  OBVIOUS
<1>2. ConfigOffset(p) = IF plausible = {} THEN 0 ELSE Min(plausible)
  BY DEF ConfigOffset
<1> HIDE DEF plausible
<1>3. plausible # {} => Min(plausible) \in Nat
  <2> SUFFICES ASSUME plausible # {} PROVE Min(plausible) \in Nat
    OBVIOUS
  <2>1. Min(plausible) \in plausible
    BY <1>1, LeastIsMin
  <2> QED
    BY <1>1, <2>1
<1>4. ConfigOffset(p) \in Nat
  BY <1>2, <1>3
<1> QED
  BY <1>4 DEF Starts

\* An entry that fits is one of the lengths that tile, and the other way round.
LEMMA EntryFitting ==
    ASSUME packet \in Octets, format \in {"response", "config"}, NEW at \in Nat
    PROVE  /\ EntriesEnd \in Int /\ EntriesEnd <= Size
           /\ at + 4 <= EntriesEnd => EntrySize(packet, at) \in Nat /\ EntryLengths[at] \in Nat
                                      /\ Word(packet, at) \in Nat
           /\ EntryFits(packet, at, EntriesEnd) <=>
                 /\ at + 4 <= EntriesEnd /\ EntryLengths[at] > 4
                 /\ at + EntryLengths[at] <= EntriesEnd
           /\ EntryFits(packet, at, EntriesEnd) => EntryLengths[at] = EntrySize(packet, at)
<1>1. packet \in Seq(0..255) /\ Size = Len(packet) /\ Size \in Nat /\ MaxLength \in Nat
  BY LenProperties, SizeAssumption DEF Octets, Size
<1>2. EntriesEnd \in Int /\ EntriesEnd <= Size
  BY <1>1 DEF EntriesEnd, Trailer
<1>3. CASE at + 4 <= EntriesEnd
  <2> DEFINE w == Word(packet, at + 2)
  <2>1. at + 2 \in Nat /\ (at + 2) + 2 <= Len(packet) /\ at + 2 <= Len(packet)
        /\ at \in 0..(Size - 4)
    BY <1>1, <1>2, <1>3
  <2>2. w \in Nat /\ Word(packet, at) \in Nat
    BY <1>1, <2>1, WordIsNat
  <2>3. EntrySize(packet, at) = 4 + w
    BY DEF EntrySize
  <2>4. EntryLengths[at] = IF format = "config" /\ 4 + w > 4 + MaxLength THEN 0 ELSE 4 + w
    BY <2>1, <2>3 DEF EntryLengths
  <2>5. EntryFits(packet, at, EntriesEnd) <=>
            /\ w > 0 /\ (format = "config" => w <= MaxLength) /\ at + (4 + w) <= EntriesEnd
    BY <1>3, <2>3 DEF EntryFits
  <2> HIDE DEF w
  <2>6. CASE format = "config" /\ w > MaxLength
    BY <1>1, <1>2, <1>3, <2>2, <2>3, <2>4, <2>5, <2>6
  <2>7. CASE ~(format = "config" /\ w > MaxLength)
    <3>1. EntryLengths[at] = 4 + w
      BY <1>1, <2>2, <2>4, <2>7
    <3>2. format = "config" => w <= MaxLength
      BY <1>1, <2>2, <2>7
    <3> QED
      BY <1>1, <1>2, <1>3, <2>2, <2>3, <2>5, <3>1, <3>2
  <2> QED
    BY <2>6, <2>7
<1>4. CASE ~(at + 4 <= EntriesEnd)
  BY <1>2, <1>4 DEF EntryFits
<1> QED
  BY <1>2, <1>3, <1>4

\* What an entry says of the packet
LEMMA EntryFound ==
    ASSUME packet \in Octets, format \in {"response", "config"}, NEW at \in Nat,
           EntryFits(packet, at, EntriesEnd)
    PROVE  /\ EntrySize(packet, at) \in Nat /\ EntrySize(packet, at) > 4
           /\ at + EntrySize(packet, at) <= EntriesEnd /\ EntriesEnd <= Size
           /\ at + EntrySize(packet, at) \in Nat
           /\ Entry(packet, at) \in Entries /\ Entry(packet, at).at = at
           /\ EntryBuilt(Entry(packet, at))
                 = SubSeq(packet, at + 1, at + EntrySize(packet, at))
           /\ EntryBuilt(Entry(packet, at)) \in Octets
<1> DEFINE size == EntrySize(packet, at)
           to == at + size
           from == at + 4
           value == Slice(packet, from, to)
<1>1. /\ EntriesEnd \in Int /\ EntriesEnd <= Size /\ at + 4 <= EntriesEnd
      /\ size \in Nat /\ size > 4 /\ to <= EntriesEnd /\ Word(packet, at) \in Nat
  BY EntryFitting
<1>2. Size = Len(packet) /\ Size \in Nat
  BY LenProperties DEF Octets, Size
<1>3. /\ to \in Nat /\ from \in Nat /\ from <= to /\ to <= Len(packet) /\ at <= to
      /\ to - from = size - 4 /\ size >= 4
  BY <1>1, <1>2
<1>4. Entry(packet, at) = [at |-> at, register |-> Word(packet, at), value |-> value]
  BY DEF Entry
<1>5. size = 4 + Word(packet, at + 2)
  BY DEF EntrySize
<1> HIDE DEF size, to, from
<1>6. value \in Octets /\ Len(value) = to - from
  <2>1. /\ SubSeq(packet, from + 1, to) \in Octets /\ Len(SubSeq(packet, from + 1, to)) = to - from
        /\ Slice(packet, from, to) = SubSeq(packet, from + 1, to)
    BY <1>3, PartTyped
  <2> QED
    BY <2>1
<1>7. Len(value) = Word(packet, at + 2)
  <2>1. at + 2 \in Nat /\ (at + 2) + 2 <= Len(packet) /\ packet \in Seq(0..255)
    BY <1>1, <1>2 DEF Octets
  <2>2. Word(packet, at + 2) \in Nat
    BY <2>1, WordIsNat
  <2> QED
    BY <1>1, <1>3, <1>5, <1>6, <2>2
<1>8. EntryBuilt(Entry(packet, at)) = WordBytes(Word(packet, at))
          \o WordBytes(Word(packet, at + 2)) \o Slice(packet, at + 4, at + size)
  <2> HIDE DEF value
  <2>1. EntryBuilt(Entry(packet, at))
          = WordBytes(Word(packet, at)) \o WordBytes(Len(value)) \o value
    BY <1>4 DEF EntryBuilt
  <2> QED
    BY <1>7, <2>1 DEF value, from, to
<1>9. WordBytes(Word(packet, at)) \o WordBytes(Word(packet, at + 2))
          \o Slice(packet, at + 4, at + size) = SubSeq(packet, at + 1, at + size)
  BY <1>1, <1>3, ElementWritten DEF to
<1>10. SubSeq(packet, at + 1, to) \in Octets
  BY <1>3, PartTyped
<1>11. Entry(packet, at) \in Entries /\ Entry(packet, at).at = at
  <2> HIDE DEF value
  <2> QED
    BY <1>1, <1>4, <1>6 DEF Entries
<1> QED
  BY <1>1, <1>3, <1>8, <1>9, <1>10, <1>11 DEF size, to

EntriesBuilt == [i \in DOMAIN found |-> EntryBuilt(found[i])]

\* A length is what a packet can be tiled with.
LEMMA EntryLengthsTyped ==
    ASSUME packet \in Octets, format \in {"response", "config"}, EntriesEnd \in Nat
    PROVE  \A i \in 0..EntriesEnd : i + 4 <= EntriesEnd => EntryLengths[i] \in Int
<1> SUFFICES ASSUME NEW i \in 0..EntriesEnd, i + 4 <= EntriesEnd PROVE EntryLengths[i] \in Int
  OBVIOUS
<1>1. i \in Nat
  OBVIOUS
<1>2. EntryLengths[i] \in Nat
  BY <1>1, EntryFitting
<1> QED
  BY <1>2

\* Entries that were found tile what is before the place behind them, and rebuild it.
LEMMA EntriesTile ==
    ASSUME packet \in Octets, format = "response", EntriesLaid,
           Starts(packet, format) <= EntriesEnd,
           NEW g, Joined(g, EntriesBuilt),
           NEW n \in 0..Len(found)
    PROVE  LET from == Starts(packet, format)
           IN  /\ EntryBehind(n) \in Nat /\ EntryBehind(n) <= EntriesEnd /\ from <= EntryBehind(n)
               /\ Tiled(EntryLengths, from, EntriesEnd)
                     <=> Tiled(EntryLengths, EntryBehind(n), EntriesEnd)
               /\ g[n] = SubSeq(packet, from + 1, EntryBehind(n))
<1> DEFINE from == Starts(packet, format)
           Ok(k) == /\ EntryBehind(k) \in Nat /\ EntryBehind(k) <= EntriesEnd
                    /\ from <= EntryBehind(k)
                    /\ Tiled(EntryLengths, from, EntriesEnd)
                          <=> Tiled(EntryLengths, EntryBehind(k), EntriesEnd)
                    /\ g[k] = SubSeq(packet, from + 1, EntryBehind(k))
           m == Len(found)
           T == {k \in 0..m : Ok(k)}
<1>1. /\ found \in Seq(Entries) /\ m \in Nat /\ from \in Nat /\ Size \in Nat
      /\ Size = Len(packet) /\ DOMAIN found = 1..m
  BY StartIsNat, LenProperties DEF EntriesLaid, Octets, Size
<1>2. EntriesEnd \in Nat /\ EntriesEnd <= Size
  <2>1. EntriesEnd \in Int /\ EntriesEnd <= Size
    BY <1>1, EntryFitting
  <2> QED
    BY <1>1, <2>1
<1>3. Len(EntriesBuilt) = m /\ \A i \in 1..m : EntriesBuilt[i] = EntryBuilt(found[i])
  <2>1. EntriesBuilt = [i \in 1..m |-> EntryBuilt(found[i])]
    BY <1>1 DEF EntriesBuilt
  <2>2. EntriesBuilt \in [1..m -> {EntryBuilt(found[i]) : i \in 1..m}]
    BY <2>1
  <2>3. Len(EntriesBuilt) = m
    BY <1>1, <2>2, FunctionIsSeq
  <2> QED
    BY <2>1, <2>3
<1> HIDE DEF from
<1>4. from = Starts(packet, format)
  BY DEF from
<1>5. 0 \in T
  <2>1. EntryBehind(0) = from
    BY <1>4 DEF EntryBehind
  <2>2. g[0] = SubSeq(packet, from + 1, from)
    <3>1. SubSeq(packet, from + 1, from) = <<>>
      BY <1>1, SubSeqEmpty DEF Octets
    <3> QED
      BY <3>1 DEF Joined
  <2>3. from \in Nat /\ from <= EntriesEnd /\ from <= from /\ 0 \in 0..m
    BY <1>1, <1>4
  <2>4. Ok(0)
    BY <2>1, <2>2, <2>3
  <2> HIDE DEF Ok
  <2> QED
    BY <2>3, <2>4
<1>6. ASSUME NEW i \in 0..(m - 1), i \in T PROVE i + 1 \in T
  <2> DEFINE at == EntryBehind(i)
             size == EntrySize(packet, at)
             to == at + size
  <2>1. i + 1 \in 1..m /\ (i + 1) - 1 = i /\ i + 1 \in 0..m /\ i + 1 # 0
    BY <1>1
  <2>2. Ok(i)
    BY <1>6
  <2>3. /\ found[i + 1].at = at /\ EntryFits(packet, at, EntriesEnd)
        /\ found[i + 1] = Entry(packet, at)
    BY <2>1 DEF EntriesLaid
  <2>4. /\ at \in Nat /\ from <= at /\ at <= EntriesEnd
        /\ Tiled(EntryLengths, from, EntriesEnd) <=> Tiled(EntryLengths, at, EntriesEnd)
        /\ g[i] = SubSeq(packet, from + 1, at)
    BY <2>2
  <2>5. EntryBehind(i + 1) = to
    BY <2>1, <2>3 DEF EntryBehind
  <2> HIDE DEF at, size
  <2>6. /\ size \in Nat /\ size > 4 /\ to <= EntriesEnd /\ to \in Nat /\ from <= to /\ at <= to
        /\ EntryBuilt(found[i + 1]) = SubSeq(packet, at + 1, to)
    <3>1. /\ size \in Nat /\ size > 4 /\ to <= EntriesEnd /\ to \in Nat
          /\ EntryBuilt(Entry(packet, at)) = SubSeq(packet, at + 1, to)
      BY <2>3, <2>4, EntryFound DEF size
    <3>2. from <= to /\ at <= to
      BY <1>1, <2>4, <3>1
    <3> HIDE DEF to
    <3> QED
      BY <2>3, <3>1, <3>2
  <2>7. Tiled(EntryLengths, at, EntriesEnd) <=> Tiled(EntryLengths, to, EntriesEnd)
    <3>1. /\ EntryLengths[at] = size /\ at + 4 <= EntriesEnd
      BY <2>3, <2>4, EntryFitting DEF size
    <3>2. at \in 0..EntriesEnd /\ at # EntriesEnd
      BY <1>2, <2>4, <3>1
    <3>3. \A j \in 0..EntriesEnd : j + 4 <= EntriesEnd => EntryLengths[j] \in Int
      BY <1>2, EntryLengthsTyped
    <3>4. Tiled(EntryLengths, at, EntriesEnd) <=>
               \/ at = EntriesEnd
               \/ /\ at + 4 <= EntriesEnd /\ EntryLengths[at] > 4
                  /\ at + EntryLengths[at] <= EntriesEnd
                  /\ Tiled(EntryLengths, at + EntryLengths[at], EntriesEnd)
      BY <1>2, <3>2, <3>3, TiledStep
    <3> QED
      BY <2>6, <3>1, <3>2, <3>4
  <2>8. g[i + 1] = SubSeq(packet, from + 1, to)
    <3>1. g[i + 1] = g[i] \o EntryBuilt(found[i + 1])
      BY <1>3, <2>1 DEF Joined
    <3>2. SubSeq(packet, from + 1, at) \o SubSeq(packet, at + 1, to)
            = SubSeq(packet, from + 1, to)
      <4>1. /\ from \in Nat /\ at \in Nat /\ to \in Nat /\ from <= at /\ at <= to
            /\ to <= Len(packet)
        BY <1>1, <1>2, <2>4, <2>6
      <4> HIDE DEF to
      <4> QED
        BY <4>1, PartsJoin
    <3> HIDE DEF to
    <3> QED
      BY <2>4, <2>6, <3>1, <3>2
  <2>9. Ok(i + 1)
    <3> HIDE DEF to
    <3> QED
      BY <2>4, <2>5, <2>6, <2>7, <2>8
  <2> HIDE DEF Ok
  <2> QED
    BY <2>1, <2>9
<1> HIDE DEF T
<1>7. 0..m \subseteq T
  BY <1>1, <1>5, <1>6, AllUpTo
<1> QED
  BY <1>4, <1>7 DEF T

\* The entries of an answer rebuild what they were read from, up to the place where no
\* entry is, and there is no such place before the end of one that they fill.
LEMMA EntriesRight ==
    ASSUME EntriesRead PROVE AnswersExact
<1> SUFFICES ASSUME stage = "accepted", format = "response"
             PROVE  LET from == Starts(packet, format)
                        end == Size - Trailer
                        built == FlattenSeq(EntriesBuilt)
                    IN /\ offset > from => offset <= end /\ built = Slice(packet, from, offset)
                       /\ Tiled(EntryLengths, from, end) /\ from < end =>
                             built = Slice(packet, from, end)
  BY DEF AnswersExact, EntriesBuilt, Starts
<1> DEFINE from == Starts(packet, format)
           end == EntriesEnd
           m == Len(found)
<1>1. /\ packet \in Octets /\ offset \in Nat /\ from \in Nat /\ Size \in Nat
      /\ Size = Len(packet) /\ ~EntryFits(packet, offset, EntriesEnd)
  BY StartIsNat, LenProperties DEF EntriesRead, Octets, Size
<1>2. end \in Int /\ end <= Size /\ end = Size - Trailer
  BY <1>1 DEF EntriesEnd, Trailer
<1> HIDE DEF from, end
<1>3. from = Starts(packet, format) /\ end = EntriesEnd
  BY DEF from, end
<1>4. ASSUME NEW i \in Nat, i < end, ~EntryFits(packet, i, EntriesEnd)
      PROVE  ~Tiled(EntryLengths, i, end)
  <2>1. end \in Nat /\ i \in 0..end /\ i # end
    BY <1>2, <1>4
  <2>2. \A j \in 0..end : j + 4 <= end => EntryLengths[j] \in Int
    BY <1>1, <1>3, <2>1, EntryLengthsTyped
  <2>3. Tiled(EntryLengths, i, end) <=>
               \/ i = end
               \/ /\ i + 4 <= end /\ EntryLengths[i] > 4 /\ i + EntryLengths[i] <= end
                  /\ Tiled(EntryLengths, i + EntryLengths[i], end)
    BY <2>1, <2>2, TiledStep
  <2>4. ~(i + 4 <= end /\ EntryLengths[i] > 4 /\ i + EntryLengths[i] <= end)
    BY <1>1, <1>3, <1>4, EntryFitting
  <2> QED
    BY <2>1, <2>3, <2>4
<1>5. CASE offset = from
  <2>1. ~(offset > from)
    BY <1>1, <1>5
  <2>2. ~(Tiled(EntryLengths, from, end) /\ from < end)
    BY <1>1, <1>4, <1>5
  <2> QED
    BY <1>2, <1>3, <2>1, <2>2
<1>6. CASE found # <<>> /\ EntriesLaid
  <2>1. /\ found \in Seq(Entries) /\ m \in Nat /\ m # 0 /\ DOMAIN found = 1..m
        /\ offset = EntryBehind(m) /\ m \in 0..m /\ 1 \in 1..m
    <3>1. found \in Seq(Entries) /\ offset = EntryBehind(m)
      BY <1>6 DEF EntriesLaid
    <3>2. m \in Nat /\ m # 0 /\ DOMAIN found = 1..m
      BY <1>6, <3>1, LenProperties, EmptySeq
    <3> QED
      BY <3>1, <3>2
  <2>2. \A i \in 1..m : EntryBuilt(found[i]) \in Octets
    <3> SUFFICES ASSUME NEW i \in 1..m PROVE EntryBuilt(found[i]) \in Octets
      OBVIOUS
    <3> DEFINE at == found[i].at
    <3>1. found[i] \in Entries
      BY <2>1, ElementOfSeq
    <3>2. at \in Nat /\ EntryFits(packet, at, EntriesEnd) /\ found[i] = Entry(packet, at)
      BY <1>6, <3>1 DEF EntriesLaid, Entries
    <3> HIDE DEF at
    <3>3. EntryBuilt(Entry(packet, at)) \in Octets
      BY <1>1, <3>2, EntryFound
    <3> QED
      BY <3>2, <3>3
  <2>3. EntriesBuilt \in Seq(Octets) /\ Len(EntriesBuilt) = m
    <3>1. EntriesBuilt \in [1..m -> Octets]
      BY <2>1, <2>2 DEF EntriesBuilt
    <3> QED
      BY <2>1, <3>1, FunctionIsSeq
  <2>4. PICK g : Joined(g, EntriesBuilt)
    BY <2>3, FlattenFunction
  <2>5. from <= end
    <3>1. found[1].at = EntryBehind(0) /\ EntryFits(packet, found[1].at, EntriesEnd)
      BY <1>6, <2>1 DEF EntriesLaid
    <3>2. EntryBehind(0) = from
      BY <1>3 DEF EntryBehind
    <3>3. from + 4 <= end
      BY <1>3, <3>1, <3>2 DEF EntryFits
    <3> QED
      BY <1>1, <1>2, <3>3
  <2>6. /\ offset <= end /\ from <= offset
        /\ Tiled(EntryLengths, from, end) <=> Tiled(EntryLengths, offset, end)
        /\ FlattenSeq(EntriesBuilt) = SubSeq(packet, from + 1, offset)
    <3>1. /\ EntryBehind(m) <= EntriesEnd /\ Starts(packet, format) <= EntryBehind(m)
          /\ Tiled(EntryLengths, Starts(packet, format), EntriesEnd)
                <=> Tiled(EntryLengths, EntryBehind(m), EntriesEnd)
          /\ g[m] = SubSeq(packet, Starts(packet, format) + 1, EntryBehind(m))
      BY <1>1, <1>3, <1>6, <2>1, <2>4, <2>5, EntriesTile
    <3> QED
      BY <1>3, <2>1, <2>3, <2>4, <3>1 DEF Joined
  <2>7. Slice(packet, from, offset) = SubSeq(packet, from + 1, offset)
    <3>1. from \in Nat /\ offset \in Nat /\ from <= offset /\ offset <= Len(packet)
      BY <1>1, <1>2, <2>6
    <3> QED
      BY <1>1, <3>1, PartTyped
  <2>8. Tiled(EntryLengths, from, end) => offset = end
    <3>1. ~(offset < end) \/ ~Tiled(EntryLengths, offset, end)
      BY <1>1, <1>4
    <3> QED
      BY <1>1, <1>2, <2>6, <3>1
  <2> QED
    BY <1>2, <1>3, <2>6, <2>7, <2>8
<1> QED
  BY <1>3, <1>5, <1>6 DEF EntriesRead

-----------------------------------------------------------------------------
(* Fields of device information.                                           *)

\* What lies side by side up to a place goes on with what lies side by side behind it.
LEMMA TiledVia ==
    ASSUME NEW length, NEW to \in Nat, NEW i \in 0..to, NEW from \in 0..i,
           \A j \in 0..to : j + 4 <= to => length[j] \in Int,
           Tiled(length, from, i)
    PROVE  Tiled(length, from, to) <=> Tiled(length, i, to)
<1> DEFINE Goes(k) == \A f \in 0..i : i - f <= k /\ Tiled(length, f, i) =>
                          (Tiled(length, f, to) <=> Tiled(length, i, to))
           T == {k \in 0..i : Goes(k)}
<1>1. i \in Nat /\ i <= to /\ \A j \in 0..i : j + 4 <= i => length[j] \in Int
  OBVIOUS
<1>2. 0 \in T
  <2>1. \A f \in 0..i : i - f <= 0 => f = i
    BY <1>1
  <2> QED
    BY <1>1, <2>1
<1>3. ASSUME NEW k \in 0..(i - 1), k \in T PROVE k + 1 \in T
  <2>1. Goes(k) /\ k + 1 \in 0..i
    BY <1>1, <1>3
  <2>2. ASSUME NEW f \in 0..i, i - f <= k + 1, Tiled(length, f, i)
        PROVE  Tiled(length, f, to) <=> Tiled(length, i, to)
    <3>1. CASE f = i
      BY <3>1
    <3>2. CASE f # i
      <4> DEFINE n == f + length[f]
      <4>1. f + 4 <= i /\ length[f] > 4 /\ n <= i /\ Tiled(length, n, i)
        BY <1>1, <2>2, <3>2, TiledStep
      <4>2. length[f] \in Int /\ n \in 0..i /\ i - n <= k
        BY <1>1, <2>2, <4>1
      <4>3. Tiled(length, n, to) <=> Tiled(length, i, to)
        BY <2>1, <4>1, <4>2
      <4>4. f \in 0..to /\ f # to /\ f + 4 <= to /\ n <= to
        BY <1>1, <3>2, <4>1, <4>2
      <4>5. Tiled(length, f, to) <=> Tiled(length, n, to)
        BY <4>1, <4>4, TiledStep
      <4> QED
        BY <4>3, <4>5
    <3> QED
      BY <3>1, <3>2
  <2>3. Goes(k + 1)
    BY <2>2
  <2> QED
    BY <2>1, <2>3
<1> HIDE DEF T
<1>4. 0..i \subseteq T
  BY <1>1, <1>2, <1>3, AllUpTo
<1>5. Goes(i)
  BY <1>1, <1>4 DEF T
<1>6. from \in 0..i /\ i - from <= i
  BY <1>1
<1> QED
  BY <1>5, <1>6

LEMMA GreatestIsMax ==
    ASSUME NEW T, T \subseteq Nat, NEW m \in T, \A n \in T : n <= m PROVE Max(T) = m
<1>1. \A n \in T : m >= n
  BY DEF Max
<1>2. Max(T) \in T /\ \A n \in T : Max(T) >= n
  BY <1>1 DEF Max
<1>3. Max(T) \in Nat /\ m \in Nat /\ Max(T) >= m /\ m >= Max(T)
  BY <1>1, <1>2
<1> QED
  BY <1>3

\* Device information is read from a place inside of it on, to its end.
LEMMA FieldsBegin ==
    ASSUME NEW p \in Octets PROVE ConfigOffset(p) \in 0..Len(p)
<1> DEFINE plausible == {i \in 0..Len(p) - 5 : /\ Word(p, i) \in 1..999
                                              /\ Word(p, i + 2) \in 1..255}
<1>1. Len(p) \in Nat
  BY LenProperties DEF Octets
<1>2. plausible \subseteq 0..Len(p) /\ plausible \subseteq Nat
  BY <1>1
<1>3. ConfigOffset(p) = IF plausible = {} THEN 0 ELSE Min(plausible)
  BY DEF ConfigOffset
<1> HIDE DEF plausible
<1>4. plausible # {} => Min(plausible) \in plausible
  BY <1>2, LeastIsMin
<1>5. CASE plausible = {}
  BY <1>1, <1>3, <1>5
<1>6. CASE plausible # {}
  BY <1>2, <1>3, <1>4, <1>6
<1> QED
  BY <1>5, <1>6

LEMMA FieldLengths ==
    ASSUME packet \in Octets, format = "config"
    PROVE  /\ Size \in Nat /\ EntriesEnd = Size /\ DOMAIN EntryLengths = 0..Size - 4
           /\ ConfigOffset(packet) \in 0..Size
           /\ \A i \in Nat : i + 4 <= Size => EntryLengths[i] \in Nat
           /\ \A i \in Nat : EntryFits(packet, i, EntriesEnd) <=>
                  i + 4 <= Size /\ EntryLengths[i] > 4 /\ i + EntryLengths[i] <= Size
           /\ \A i \in Nat : EntryFits(packet, i, EntriesEnd) =>
                  EntryLengths[i] = EntrySize(packet, i)
<1>1. Size \in Nat /\ EntriesEnd = Size /\ ConfigOffset(packet) \in 0..Size
  BY FieldsBegin, LenProperties DEF Octets, Size, EntriesEnd
<1>2. DOMAIN EntryLengths = 0..Size - 4
  BY DEF EntryLengths
<1> QED
  BY <1>1, <1>2, EntryFitting

\* Behind the entries that were read, no other one begins before the next.
LEMMA NextPlace ==
    ASSUME packet \in Octets, format = "config", NEW at \in Nat, at <= Size,
           Tiled(EntryLengths, ConfigOffset(packet), at)
    PROVE  /\ \A i \in Places : ~(i < at) =>
                  /\ EntryFits(packet, at, EntriesEnd)
                  /\ i = at \/ at + EntrySize(packet, at) <= i
           /\ EntryFits(packet, at, EntriesEnd) =>
                  /\ at \in Places
                  /\ at + EntrySize(packet, at) \in Nat /\ at + EntrySize(packet, at) <= Size
                  /\ EntrySize(packet, at) \in Nat /\ EntrySize(packet, at) > 4
                  /\ Tiled(EntryLengths, ConfigOffset(packet), at + EntrySize(packet, at))
<1> DEFINE from == ConfigOffset(packet)
           L == EntryLengths
<1>1. /\ Size \in Nat /\ EntriesEnd = Size /\ DOMAIN L = 0..Size - 4 /\ from \in 0..Size
      /\ \A i \in Nat : i + 4 <= Size => L[i] \in Nat
  BY FieldLengths
<1>2. EntryFits(packet, at, EntriesEnd) <=> at + 4 <= Size /\ L[at] > 4 /\ at + L[at] <= Size
  BY FieldLengths
<1>3. EntryFits(packet, at, EntriesEnd) => L[at] = EntrySize(packet, at)
  BY FieldLengths
<1>4. Tiled(L, from, at) /\ from \in 0..at
  <2>1. from <= at
    BY DEF Tiled
  <2> QED
    BY <1>1, <2>1
<1> HIDE DEF from, L
<1>5. ASSUME NEW to \in Nat, to <= Size
      PROVE  \A j \in 0..to : j + 4 <= to => L[j] \in Int
  BY <1>1, <1>5
<1>6. ASSUME NEW i \in Places, ~(i < at)
      PROVE  EntryFits(packet, at, EntriesEnd) /\ (i = at \/ at + EntrySize(packet, at) <= i)
  <2>1. i \in 0..Size - 4 /\ Tiled(L, from, i) /\ L[i] > 4 /\ i + L[i] <= Size
    BY <1>1 DEF Places, L, from
  <2>2. i \in Nat /\ i <= Size /\ i + 4 <= Size /\ at \in 0..i
    BY <1>1, <1>6, <2>1
  <2>3. CASE i = at
    BY <1>2, <2>1, <2>2, <2>3
  <2>4. CASE i # at
    <3>1. \A j \in 0..i : j + 4 <= i => L[j] \in Int
      BY <1>5, <2>2
    <3>2. Tiled(L, at, i)
      BY <1>4, <2>1, <2>2, <3>1, TiledVia
    <3>3. at + 4 <= i /\ L[at] > 4 /\ at + L[at] <= i
      BY <2>2, <2>4, <3>1, <3>2, TiledStep
    <3>4. L[at] \in Nat /\ at + 4 <= Size /\ at + L[at] <= Size
      BY <1>1, <2>2, <3>3
    <3> QED
      BY <1>2, <1>3, <3>3, <3>4
  <2> QED
    BY <2>3, <2>4
<1>7. ASSUME EntryFits(packet, at, EntriesEnd)
      PROVE  /\ at \in Places
             /\ at + EntrySize(packet, at) \in Nat /\ at + EntrySize(packet, at) <= Size
             /\ EntrySize(packet, at) \in Nat /\ EntrySize(packet, at) > 4
             /\ Tiled(L, from, at + EntrySize(packet, at))
  <2> DEFINE n == at + L[at]
  <2>1. /\ at + 4 <= Size /\ L[at] > 4 /\ n <= Size /\ L[at] \in Nat /\ n \in Nat
        /\ L[at] = EntrySize(packet, at) /\ at \in 0..Size - 4 /\ at \in 0..n /\ at + 4 <= n
    BY <1>1, <1>2, <1>3, <1>7
  <2>2. at \in Places
    BY <1>1, <1>4, <2>1 DEF Places, L, from
  <2>3. \A j \in 0..n : j + 4 <= n => L[j] \in Int
    BY <1>5, <2>1
  <2>4. Tiled(L, n, n)
    <3>1. n \in 0..n
      BY <2>1
    <3> QED
      BY <2>1, <2>3, <3>1, TiledStep
  <2>5. Tiled(L, at, n)
    <3>1. n <= n
      BY <2>1
    <3> QED
      BY <2>1, <2>3, <2>4, <3>1, TiledStep
  <2>6. Tiled(L, from, n)
    BY <1>4, <2>1, <2>3, <2>5, TiledVia
  <2> QED
    BY <2>1, <2>2, <2>6
<1> QED
  BY <1>6, <1>7 DEF L, from

\* Without an entry read, the place is still the first one.
LEMMA NothingSeen ==
    ASSUME packet \in Octets, format = "config", offset \in Nat, offset <= Size,
           Tiled(EntryLengths, ConfigOffset(packet), offset), Seen = {}
    PROVE  offset = ConfigOffset(packet)
<1> DEFINE from == ConfigOffset(packet)
           L == EntryLengths
<1>1. /\ Size \in Nat /\ DOMAIN L = 0..Size - 4 /\ from \in 0..Size
      /\ \A i \in Nat : i + 4 <= Size => L[i] \in Nat
  BY FieldLengths
<1>2. Tiled(L, from, offset) /\ from \in 0..offset /\ from \in Nat
  <2>1. from <= offset
    BY DEF Tiled
  <2> QED
    BY <1>1, <2>1
<1>3. \A i \in 0..Size - 4 : Tiled(L, from, i) /\ L[i] > 4 /\ i + L[i] <= Size => ~(i < offset)
  BY <1>1 DEF Seen, Places
<1> HIDE DEF from, L
<1>4. ASSUME from # offset PROVE FALSE
  <2>1. \A j \in 0..offset : j + 4 <= offset => L[j] \in Int
    BY <1>1
  <2>2. from + 4 <= offset /\ L[from] > 4 /\ from + L[from] <= offset
    BY <1>2, <1>4, <2>1, TiledStep
  <2>3. /\ from \in 0..Size - 4 /\ L[from] \in Nat /\ from + L[from] <= Size
        /\ from \in 0..from /\ from < offset
    BY <1>1, <1>2, <2>2
  <2>4. \A j \in 0..from : j + 4 <= from => L[j] \in Int
    BY <1>1, <1>2
  <2>5. Tiled(L, from, from)
    BY <1>2, <2>3, <2>4, TiledStep
  <2> QED
    BY <1>3, <2>2, <2>3, <2>5
<1> QED
  BY <1>4 DEF from

\* Nothing is said of device information but of its bytes, the place and the fields.
LEMMA FieldsStay ==
    ASSUME UNCHANGED <<format, packet, stage, offset, found>>
    PROVE  (FieldsTaken' <=> FieldsTaken) /\ (FieldsExact' <=> FieldsExact)
<1>1. Size' = Size /\ EntryLengths' = EntryLengths
  BY DEF Size, EntryLengths
<1>2. Places' = Places
  BY <1>1 DEF Places
<1>3. Seen' = Seen
  BY <1>2 DEF Seen
<1>4. FieldsTaken' <=> FieldsTaken
  BY <1>1, <1>3 DEF FieldsTaken, LastSeen
<1>5. FieldsExact' <=> FieldsExact
  BY <1>1, <1>2 DEF FieldsExact
<1> QED
  BY <1>4, <1>5

-----------------------------------------------------------------------------
(* The block of a 0x0103 packet.                                           *)

LEMMA EmbeddedRight == ASSUME EmbeddedRead PROVE EmbeddedExact
<1> SUFFICES ASSUME stage = "accepted", format = "embedded"
             PROVE  LET exact == {i \in 0..DataEnd - 6 : ExactFit(packet, i, DataEnd)}
                    IN IF exact = {} THEN found = <<>> ELSE found = <<Block(packet, Min(exact))>>
  BY DEF EmbeddedExact
<1> DEFINE exact == {i \in 0..DataEnd - 6 : ExactFit(packet, i, DataEnd)}
<1>1. /\ packet \in Octets /\ offset \in Nat /\ ~InReach
      /\ found = IF Tried = {} THEN <<>> ELSE <<Block(packet, Min(Tried))>>
  BY DEF EmbeddedRead
<1>2. Size \in Nat
  BY <1>1, LenProperties DEF Octets, Size
<1>3. \A i \in 0..DataEnd - 6 : i < offset
  BY <1>1, <1>2 DEF InReach, DataEnd, Trailer
<1>4. Tried = exact
  BY <1>3 DEF Tried
<1> HIDE DEF exact
<1>5. IF exact = {} THEN found = <<>> ELSE found = <<Block(packet, Min(exact))>>
  BY <1>1, <1>4
<1> QED
  BY <1>5 DEF exact

\* A block that ends exactly at the end has an even number of bytes.
LEMMA ExactFits ==
    ASSUME NEW p \in Octets, NEW at \in 0..(Len(p) - Trailer) - 6
    PROVE  LET end == Len(p) - Trailer
           IN  /\ end \in Int /\ Registers(p, at) \in Int
               /\ ExactFit(p, at, end) =>
                     /\ end - at = 4 + 2 * Registers(p, at)
                     /\ Registers(p, at) >= 1 /\ Registers(p, at) <= MaxCount
<1> DEFINE end == Len(p) - Trailer
           r == Registers(p, at)
           fits == ExactFit(p, at, end)
<1>1. p \in Seq(0..255) /\ Len(p) \in Nat /\ MaxCount \in Nat /\ end = Len(p) - 2
  BY LenProperties, SizeAssumption DEF Octets, Trailer
<1>2. at \in Nat /\ at + 2 \in Nat /\ at + 2 <= Len(p) /\ (at + 2) + 2 <= Len(p)
  BY <1>1
<1>3. Word(p, at) \in Nat /\ Word(p, at + 2) \in Nat
  BY <1>1, <1>2, WordIsNat
<1>4. r \in Int
  BY <1>3 DEF Registers
<1>5. BlockSize(p, at) = 4 + 2 * r
  BY DEF BlockSize
<1>6. fits => r \in 1..MaxCount /\ at + BlockSize(p, at) = end
  BY DEF ExactFit
<1>7. at \in Int /\ end \in Int
  BY <1>1, <1>2
<1> HIDE DEF r, fits, end
<1>8. fits => r \in 1..MaxCount /\ at + (4 + 2 * r) = end
  BY <1>5, <1>6
<1>9. fits => end - at = 4 + 2 * r /\ r >= 1 /\ r <= MaxCount
  BY <1>1, <1>4, <1>7, <1>8
<1> QED
  BY <1>4, <1>7, <1>9 DEF r, fits, end

\* Where the search begins, no exact block is in front of it.
LEMMA SearchBegins ==
    ASSUME NEW p \in Octets
    PROVE  LET end == Len(p) - Trailer
           IN  /\ SearchStart(p) \in Nat /\ (end - SearchStart(p)) % 2 = 0
               /\ \A i \in 0..end - 6 : ExactFit(p, i, end) => ~(i < SearchStart(p))
<1> DEFINE end == Len(p) - Trailer
           start == SearchStart(p)
           low == end - 4 - 2 * MaxCount
           from == Max({0, low})
<1>1. Len(p) \in Nat /\ MaxCount \in Nat
  BY LenProperties, SizeAssumption DEF Octets
<1>2. end \in Int /\ low \in Int
  BY <1>1 DEF Trailer
<1>3. start = from + ((end - from) % 2)
  BY DEF SearchStart
<1> HIDE DEF low, end, start
<1>4. from \in {0, low} /\ 0 <= from /\ low <= from
  <2> DEFINE T == {0, low}
  <2>1. \E x \in T : \A y \in T : x >= y
    <3>1. CASE low <= 0
      BY <1>2, <3>1
    <3>2. CASE ~(low <= 0)
      BY <1>2, <3>2
    <3> QED
      BY <3>1, <3>2
  <2>2. 0 \in T /\ low \in T
    OBVIOUS
  <2> HIDE DEF T
  <2>3. Max(T) \in T /\ \A y \in T : Max(T) >= y
    BY <2>1 DEF Max
  <2>4. Max(T) >= 0 /\ Max(T) >= low
    BY <2>2, <2>3
  <2> QED
    BY <1>2, <2>3, <2>4 DEF T
<1> HIDE DEF from
<1>5. from \in Nat
  BY <1>2, <1>4
<1>6. start \in Nat /\ (end - start) % 2 = 0 /\ from <= start
      /\ (start # from => start = from + 1 /\ (end - from) % 2 = 1)
  BY <1>2, <1>3, <1>5
<1>7. ASSUME NEW i \in 0..end - 6, ExactFit(p, i, end), i < start PROVE FALSE
  <2>1. end - i = 4 + 2 * Registers(p, i)
        /\ Registers(p, i) \in Int /\ Registers(p, i) <= MaxCount
    BY <1>7, ExactFits DEF end
  <2>2. low <= i /\ (end - i) % 2 = 0
    BY <1>1, <1>2, <2>1 DEF low
  <2>3. from <= i
    BY <1>4, <2>2
  <2>4. i = from /\ start = from + 1
    BY <1>5, <1>6, <1>7, <2>3
  <2> QED
    BY <1>6, <2>2, <2>4
<1> QED
  BY <1>6, <1>7 DEF end, start

LEMMA CandidateTriedKeeps ==
    ASSUME EmbeddedRead, CandidateTried PROVE EmbeddedRead'
<1> DEFINE B(n) == {i \in 0..DataEnd - 6 : ExactFit(packet, i, DataEnd) /\ i < n}
           Best(T) == IF T = {} THEN <<>> ELSE <<Block(packet, Min(T))>>
<1>1. /\ format = "embedded" /\ stage = "walk" /\ InReach /\ offset' = offset + 2
      /\ found' = IF ExactFit(packet, offset, DataEnd) /\ Better(offset)
                  THEN <<Block(packet, offset)>> ELSE found
      /\ UNCHANGED <<format, packet, agrees, stage>>
  BY DEF CandidateTried, Searches
<1>2. /\ packet \in Octets /\ offset \in Nat /\ (DataEnd - offset) % 2 = 0
      /\ found = Best(B(offset))
  BY <1>1 DEF EmbeddedRead, Tried
<1>3. Size \in Nat /\ DataEnd = Size - 2 /\ DataEnd = Len(packet) - Trailer
  BY <1>2, LenProperties DEF Octets, Size, DataEnd, Trailer
<1>4. offset \in 0..DataEnd - 6
  BY <1>1, <1>2, <1>3 DEF InReach
<1>5. ~ExactFit(packet, offset + 1, DataEnd) \/ offset + 1 \notin 0..DataEnd - 6
  <2> SUFFICES ASSUME ExactFit(packet, offset + 1, DataEnd), offset + 1 \in 0..DataEnd - 6
               PROVE  FALSE
    OBVIOUS
  <2> DEFINE at == offset + 1
  <2>1. at \in 0..DataEnd - 6 /\ ExactFit(packet, at, DataEnd)
    OBVIOUS
  <2> HIDE DEF at
  <2>2. DataEnd - at = 4 + 2 * Registers(packet, at) /\ Registers(packet, at) \in Int
    BY <1>2, <1>3, <2>1, ExactFits
  <2>3. (DataEnd - at) % 2 = 0
    BY <2>2
  <2> QED
    BY <1>2, <1>3, <2>3 DEF at
<1>6. B(offset + 2) = IF ExactFit(packet, offset, DataEnd) THEN B(offset) \cup {offset}
                      ELSE B(offset)
  <2>1. \A i \in 0..DataEnd - 6 :
            i < offset + 2 <=> (i < offset \/ i = offset \/ i = offset + 1)
    BY <1>2, <1>3
  <2>2. \A i \in 0..DataEnd - 6 : i < offset => i # offset
    BY <1>2
  <2> QED
    BY <1>4, <1>5, <2>1, <2>2
<1>7. B(offset) \subseteq Nat /\ \A i \in B(offset) :
          i \in 0..DataEnd - 6 /\ ExactFit(packet, i, DataEnd) /\ i < offset
  OBVIOUS
<1> HIDE DEF B
<1>8. ASSUME ~ExactFit(packet, offset, DataEnd) PROVE found' = Best(B(offset + 2))
  BY <1>1, <1>2, <1>6, <1>8
<1>9. ASSUME ExactFit(packet, offset, DataEnd), B(offset) = {}
      PROVE  found' = Best(B(offset + 2))
  <2>1. Better(offset)
    BY <1>2, <1>9 DEF Better
  <2>2. B(offset + 2) = {offset}
    BY <1>6, <1>9
  <2>3. Min({offset}) = offset
    <3>1. {offset} \subseteq Nat /\ {offset} # {}
      BY <1>2
    <3>2. Min({offset}) \in {offset}
      BY <3>1, LeastIsMin
    <3> QED
      BY <3>2
  <2> QED
    BY <1>1, <1>9, <2>1, <2>2, <2>3
<1>10. ASSUME ExactFit(packet, offset, DataEnd), B(offset) # {}
       PROVE  found' = Best(B(offset + 2))
  <2> DEFINE n == Min(B(offset))
             T == B(offset) \cup {offset}
  <2>1. n \in B(offset) /\ \A i \in B(offset) : n <= i
    BY <1>7, <1>10, LeastIsMin
  <2>2. Min(T) = n
    <3>1. T \subseteq Nat /\ T # {}
      BY <1>2, <1>7
    <3> HIDE DEF n, T
    <3>2. Min(T) \in T /\ \A i \in T : Min(T) <= i
      BY <3>1, LeastIsMin
    <3>3. n \in T /\ n < offset /\ n \in Nat
      BY <1>7, <2>1 DEF T
    <3>4. \A i \in T : n <= i
      BY <1>2, <2>1, <3>3 DEF T
    <3>5. Min(T) <= n /\ n <= Min(T) /\ Min(T) \in Nat
      BY <3>1, <3>2, <3>3, <3>4
    <3> QED
      BY <3>3, <3>5
  <2>3. n \in 0..DataEnd - 6 /\ ExactFit(packet, n, DataEnd) /\ n < offset
    BY <1>7, <2>1
  <2>4. found = <<Block(packet, n)>>
    BY <1>2, <1>10
  <2> HIDE DEF n
  <2>5. ~Better(offset)
    <3>1. found # <<>> /\ found[1].at = n
      BY <2>4 DEF Block
    <3>2. DataEnd - n = 4 + 2 * Registers(packet, n) /\ Registers(packet, n) \in Int
      BY <1>2, <1>3, <2>3, ExactFits
    <3>3. DataEnd - offset = 4 + 2 * Registers(packet, offset)
          /\ Registers(packet, offset) \in Int
      BY <1>2, <1>3, <1>4, <1>10, ExactFits
    <3>4. ~(Registers(packet, offset) > Registers(packet, n))
      BY <1>2, <1>3, <2>3, <3>2, <3>3
    <3> QED
      BY <3>1, <3>4 DEF Better
  <2>6. found' = <<Block(packet, n)>>
    BY <1>1, <2>4, <2>5
  <2>7. B(offset + 2) = T /\ T # {}
    BY <1>6, <1>10
  <2> HIDE DEF T
  <2> QED
    BY <2>2, <2>6, <2>7
<1>11. found' = Best(B(offset + 2))
  BY <1>8, <1>9, <1>10
<1>12. Tried' = B(offset + 2)
  BY <1>1 DEF Tried, B, DataEnd, Size
<1>13. (DataEnd - (offset + 2)) % 2 = 0 /\ offset + 2 \in Nat
  BY <1>2, <1>3
<1>14. DataEnd' = DataEnd
  BY <1>1 DEF DataEnd, Size
<1>15. found' = IF Tried' = {} THEN <<>> ELSE <<Block(packet', Min(Tried'))>>
  BY <1>1, <1>11, <1>12
<1>16. (DataEnd' - offset') % 2 = 0 /\ offset' \in Nat
  BY <1>1, <1>13, <1>14
<1> QED
  BY <1>1, <1>2, <1>15, <1>16 DEF EmbeddedRead

-----------------------------------------------------------------------------
(* Packets are read as far as they go.                                     *)

\* An entry that is read is laid behind the others.
LEMMA EntryReadKeeps ==
    ASSUME EntriesRead, EntryRead, format = "response" PROVE EntriesRead'
<1>1. /\ format = "response" /\ stage = "walk"
      /\ EntryFits(packet, offset, EntriesEnd)
      /\ found' = Append(found, Entry(packet, offset))
      /\ offset' = offset + EntrySize(packet, offset)
      /\ UNCHANGED <<format, packet, agrees, stage>>
  BY DEF EntryRead, WalksEntries, Advances
<1>2. packet \in Octets /\ offset \in Nat /\ EntriesLaid
  BY <1>1 DEF EntriesRead
<1> DEFINE e == Entry(packet, offset)
           m == Len(found)
<1>3. e \in Entries /\ e.at = offset /\ offset + EntrySize(packet, offset) \in Nat
  BY <1>1, <1>2, EntryFound
<1>4. found \in Seq(Entries) /\ m \in Nat /\ offset = EntryBehind(m)
  BY <1>2, LenProperties DEF EntriesLaid
<1>5. /\ found' \in Seq(Entries) /\ Len(found') = m + 1 /\ found'[m + 1] = e
      /\ \A i \in 1..m : found'[i] = found[i]
  <2> HIDE DEF e
  <2> QED
    BY <1>1, <1>3, <1>4, AppendProperties DEF e
<1> HIDE DEF m
<1>6. \A n \in 0..m : EntryBehind(n)' = EntryBehind(n)
  <2> SUFFICES ASSUME NEW n \in 0..m PROVE EntryBehind(n)' = EntryBehind(n)
    OBVIOUS
  <2>1. CASE n = 0
    BY <1>1, <2>1 DEF EntryBehind
  <2>2. CASE n # 0
    <3>1. n \in 1..m
      BY <1>4, <2>2
    <3> QED
      BY <1>1, <1>5, <2>2, <3>1 DEF EntryBehind
  <2> QED
    BY <2>1, <2>2
<1>7. EntriesEnd' = EntriesEnd
  BY <1>1 DEF EntriesEnd, Size
<1>9. EntryBehind(Len(found))' = offset'
  <2>1. m + 1 # 0 /\ found'[m + 1].at = offset
    BY <1>3, <1>4, <1>5
  <2> QED
    BY <1>1, <1>5, <2>1 DEF EntryBehind
<1>10. ASSUME NEW i \in 1..Len(found')
       PROVE  /\ found'[i].at = EntryBehind(i - 1)'
              /\ EntryFits(packet, found[i].at, EntriesEnd)'
              /\ found'[i] = Entry(packet', found'[i].at)
  <2>1. i \in 1..m \/ i = m + 1
    BY <1>4, <1>5
  <2>2. CASE i \in 1..m
    <3>1. /\ found[i].at = EntryBehind(i - 1) /\ EntryFits(packet, found[i].at, EntriesEnd)
          /\ found[i] = Entry(packet, found[i].at)
      BY <1>2, <2>2 DEF EntriesLaid, m
    <3>2. i - 1 \in 0..m
      BY <1>4, <2>2
    <3>3. EntryBehind(i - 1)' = EntryBehind(i - 1)
      BY <1>6, <3>2
    <3>4. found'[i] = found[i] /\ packet' = packet
      BY <1>1, <1>5, <2>2
    <3> QED
      BY <1>1, <1>7, <3>1, <3>3, <3>4 DEF EntryFits
  <2>3. CASE i = m + 1
    <3>1. i - 1 = m /\ m \in 0..m
      BY <1>4, <2>3
    <3>2. EntryBehind(i - 1)' = offset
      BY <1>4, <1>6, <3>1
    <3>3. found'[i] = e /\ packet' = packet
      BY <1>1, <1>5, <2>3
    <3> QED
      BY <1>1, <1>3, <1>7, <3>2, <3>3 DEF EntryFits
  <2> QED
    BY <2>1, <2>2, <2>3
<1>11. EntriesLaid'
  BY <1>5, <1>9, <1>10 DEF EntriesLaid
<1> QED
  BY <1>1, <1>2, <1>3, <1>11 DEF EntriesRead

\* What is found when no entry fits is given back.
LEMMA WalkEndsKeeps ==
    ASSUME EntriesRead, WalkEnds, format = "response" PROVE EntriesRead'
<1>1. /\ format = "response" /\ stage = "walk"
      /\ UNCHANGED <<format, packet, agrees, offset>>
      /\ \/ stage' = "refused"
         \/ /\ stage' = "accepted" /\ ~EntryFits(packet, offset, EntriesEnd)
            /\ found # <<>> => found' = found
  BY DEF WalkEnds, WalksEntries, Refuses, Accepts, Finishes, Answer
<1>2. packet \in Octets /\ offset \in Nat /\ EntriesLaid
  BY <1>1 DEF EntriesRead
<1>3. CASE stage' = "refused"
  BY <1>1, <1>2, <1>3 DEF EntriesRead
<1>4. CASE stage' = "accepted" /\ found = <<>> /\ ~EntryFits(packet, offset, EntriesEnd)
  <2>1. offset = Starts(packet, format)
    <3>1. Len(found) = 0
      BY <1>4, EmptySeq
    <3> QED
      BY <1>2, <3>1 DEF EntriesLaid, EntryBehind
  <2>2. ~EntryFits(packet, offset, EntriesEnd)'
    BY <1>1, <1>4 DEF EntryFits, EntriesEnd, Size
  <2> QED
    BY <1>1, <1>2, <1>4, <2>1, <2>2 DEF EntriesRead
<1>5. CASE stage' = "accepted" /\ found # <<>> /\ found' = found
           /\ ~EntryFits(packet, offset, EntriesEnd)
  <2>1. EntriesLaid'
    BY <1>1, <1>2, <1>5 DEF EntriesLaid, EntryBehind, EntryFits, EntriesEnd, Size
  <2>2. ~EntryFits(packet, offset, EntriesEnd)'
    BY <1>1, <1>5 DEF EntryFits, EntriesEnd, Size
  <2> QED
    BY <1>1, <1>2, <1>5, <2>1, <2>2 DEF EntriesRead
<1> QED
  BY <1>1, <1>3, <1>4, <1>5

\* An entry of device information that is read is the last one of its register.
LEMMA FieldReadKeeps ==
    ASSUME FieldsRead, EntryRead, format = "config" PROVE FieldsRead'
<1> DEFINE e == Entry(packet, offset)
           size == EntrySize(packet, offset)
           key == Word(packet, offset)
<1>1. /\ stage = "walk" /\ EntryFits(packet, offset, EntriesEnd)
      /\ found' = Assigned(found, e) /\ offset' = offset + size
      /\ UNCHANGED <<format, packet, agrees, stage>>
  BY DEF EntryRead, WalksEntries, Advances
<1>2. packet \in Octets /\ offset \in Nat /\ offset <= Size /\ FieldsTaken
  BY <1>1 DEF FieldsRead
<1>3. /\ offset \in Places /\ offset + size \in Nat /\ offset + size <= Size
      /\ size \in Nat /\ size > 4
      /\ Tiled(EntryLengths, ConfigOffset(packet), offset + size)
      /\ \A i \in Places : ~(i < offset) => i = offset \/ offset + size <= i
  BY <1>1, <1>2, NextPlace DEF FieldsTaken
<1>4. Size' = Size /\ EntryLengths' = EntryLengths
  BY <1>1 DEF Size, EntryLengths
<1>5. Places' = Places
  BY <1>1, <1>4 DEF Places
<1>6. Places \subseteq Nat
  BY DEF Places, EntryLengths
<1> HIDE DEF size
<1>7. Seen' = Seen \cup {offset}
  <2>1. \A i \in Places : i < offset + size <=> i < offset \/ i = offset
    BY <1>2, <1>3, <1>6
  <2> QED
    BY <1>1, <1>3, <1>5, <2>1 DEF Seen
<1>8. /\ DOMAIN found' = DOMAIN found \cup {key} /\ found'[key] = e.value
      /\ \A k \in DOMAIN found : k # key => found'[k] = found[k]
  <2>1. e.register = key
    BY DEF Entry
  <2> HIDE DEF e, key
  <2> QED
    BY <1>1, <2>1 DEF Assigned
<1>9. DOMAIN found' = {Word(packet, i) : i \in Seen'}
  BY <1>2, <1>7, <1>8 DEF FieldsTaken
<1>10. ASSUME NEW k \in DOMAIN found'
       PROVE  \E i \in Seen' : /\ Word(packet, i) = k /\ found'[k] = Entry(packet, i).value
                               /\ \A j \in Seen' : Word(packet, j) = k => j <= i
  <2>1. \A j \in Seen : j \in Nat /\ j < offset
    BY <1>6 DEF Seen
  <2>2. CASE k = key
    <3>1. \A j \in Seen' : j <= offset
      BY <1>2, <1>7, <2>1
    <3> QED
      BY <1>7, <1>8, <2>2, <3>1
  <2>3. CASE k # key
    <3>1. k \in DOMAIN found /\ found'[k] = found[k]
      BY <1>8, <2>3
    <3>2. PICK i \in Seen : /\ Word(packet, i) = k /\ found[k] = Entry(packet, i).value
                            /\ \A j \in Seen : Word(packet, j) = k => j <= i
      BY <1>2, <3>1 DEF FieldsTaken, LastSeen
    <3> QED
      BY <1>7, <2>3, <3>1, <3>2
  <2> QED
    BY <2>2, <2>3
<1>11. FieldsTaken'
  <2>1. Seen' # {}
    BY <1>7
  <2>2. Tiled(EntryLengths', ConfigOffset(packet'), offset')
    BY <1>1, <1>3, <1>4
  <2> QED
    BY <1>1, <1>9, <1>10, <2>1, <2>2 DEF FieldsTaken, LastSeen
<1> QED
  BY <1>1, <1>2, <1>3, <1>4, <1>11 DEF FieldsRead, FieldsExact

\* Where no entry fits, all entries have been read.
LEMMA FieldsEndKeeps ==
    ASSUME FieldsRead, WalkEnds, format = "config" PROVE FieldsRead'
<1>1. /\ stage = "walk" /\ stage' = "accepted" /\ ~EntryFits(packet, offset, EntriesEnd)
      /\ found' = Information /\ UNCHANGED <<format, packet, agrees, offset>>
  BY DEF WalkEnds, WalksEntries, LongEnough, Accepts, Finishes
<1>2. packet \in Octets /\ offset \in Nat /\ offset <= Size /\ FieldsTaken
  BY <1>1 DEF FieldsRead
<1>3. Seen = Places
  <2>1. \A i \in Places : i < offset
    BY <1>1, <1>2, NextPlace DEF FieldsTaken
  <2> QED
    BY <2>1 DEF Seen
<1>4. Size' = Size /\ EntryLengths' = EntryLengths
  BY <1>1 DEF Size, EntryLengths
<1>5. Places' = Places
  BY <1>1, <1>4 DEF Places
<1>6. Places \subseteq Nat
  BY DEF Places, EntryLengths
<1>7. IF Places = {} THEN found' = [k \in {Raw} |-> Slice(packet, ConfigOffset(packet), Size)]
      ELSE /\ DOMAIN found' = {Word(packet, i) : i \in Places} \cap Parameters
           /\ \A k \in DOMAIN found' :
                  found'[k] = Entry(packet, Max({i \in Places : Word(packet, i) = k})).value
  <2>1. CASE Places = {}
    <3>1. found = <<>> /\ offset = ConfigOffset(packet)
      BY <1>2, <1>3, <2>1, NothingSeen DEF FieldsTaken
    <3> QED
      BY <1>1, <2>1, <3>1 DEF Information
  <2>2. CASE Places # {}
    <3>1. DOMAIN found = {Word(packet, i) : i \in Places} /\ DOMAIN found # {}
      BY <1>2, <1>3, <2>2 DEF FieldsTaken
    <3>2. found # <<>>
      BY <3>1
    <3>3. found' = [k \in DOMAIN found \cap Parameters |-> found[k]]
      BY <1>1, <3>2 DEF Information, Restrict
    <3>4. DOMAIN found' = {Word(packet, i) : i \in Places} \cap Parameters
      BY <3>1, <3>3
    <3>5. ASSUME NEW k \in DOMAIN found'
          PROVE  found'[k] = Entry(packet, Max({i \in Places : Word(packet, i) = k})).value
      <4> DEFINE T == {i \in Places : Word(packet, i) = k}
      <4>1. k \in DOMAIN found /\ found'[k] = found[k]
        BY <3>3
      <4>2. PICK i \in Places : /\ Word(packet, i) = k /\ found[k] = Entry(packet, i).value
                                /\ \A j \in Places : Word(packet, j) = k => j <= i
        BY <1>2, <1>3, <4>1 DEF FieldsTaken, LastSeen
      <4>3. i \in T /\ T \subseteq Nat /\ \A j \in T : j <= i
        BY <1>6, <4>2
      <4> HIDE DEF T
      <4>4. Max(T) = i
        BY <4>3, GreatestIsMax
      <4> QED
        BY <4>1, <4>2, <4>4 DEF T
    <3> QED
      BY <2>2, <3>4, <3>5
  <2> QED
    BY <2>1, <2>2
<1>8. FieldsExact'
  BY <1>1, <1>4, <1>5, <1>7 DEF FieldsExact
<1> QED
  BY <1>1, <1>2, <1>4, <1>8 DEF FieldsRead

LEMMA FieldsArrive ==
    ASSUME NEW p \in Octets, NEW a, Arrives("config", p, a) PROVE FieldsRead'
<1>1. /\ format' = "config" /\ packet' = p /\ found' = <<>> /\ stage' = "walk"
      /\ offset' = ConfigOffset(p)
  BY DEF Arrives, Starts
<1>2. Size' = Len(p) /\ offset' \in Nat /\ offset' <= Size'
  BY <1>1, FieldsBegin, LenProperties DEF Size, Octets
<1>3. Tiled(EntryLengths', offset', offset')
  <2>1. offset' \in 0..offset' /\ packet' \in Octets
    BY <1>1, <1>2
  <2>2. \A j \in 0..offset' : j + 4 <= offset' => EntryLengths'[j] \in Int
    <3> SUFFICES ASSUME NEW j \in 0..offset', j + 4 <= offset' PROVE EntryLengths'[j] \in Int
      OBVIOUS
    <3>1. j \in 0..Size' - 4 /\ j + 2 \in Nat /\ (j + 2) + 2 <= Len(p)
      BY <1>1, <1>2
    <3>2. EntryLengths'[j] \in {0, 4 + Word(p, j + 2)}
      BY <1>1, <3>1 DEF EntryLengths, EntrySize
    <3>3. Word(p, j + 2) \in Nat
      BY <3>1, WordIsNat DEF Octets
    <3> QED
      BY <3>2, <3>3
  <2> QED
    BY <1>2, <2>1, <2>2, TiledStep
<1>4. Seen' = {}
  <2>1. ASSUME NEW i \in Nat, Tiled(EntryLengths', offset', i) PROVE ~(i < offset')
    BY <1>2, <2>1 DEF Tiled
  <2> QED
    BY <1>1, <2>1 DEF Seen, Places, EntryLengths
<1>5. DOMAIN found' = {}
  BY <1>1
<1>6. FieldsTaken'
  BY <1>1, <1>3, <1>4, <1>5 DEF FieldsTaken
<1> QED
  BY <1>1, <1>2, <1>6 DEF FieldsRead, FieldsExact

LEMMA SearchEndsKeeps ==
    ASSUME EmbeddedRead, SearchEnds PROVE EmbeddedRead'
<1>1. /\ format = "embedded" /\ stage = "walk" /\ ~InReach /\ stage' = "accepted"
      /\ UNCHANGED <<format, packet, agrees, offset, found>>
  BY DEF SearchEnds, Searches, Accepts, Finishes
<1>2. /\ packet \in Octets /\ offset \in Nat /\ (DataEnd - offset) % 2 = 0
      /\ found = IF Tried = {} THEN <<>> ELSE <<Block(packet, Min(Tried))>>
  BY <1>1 DEF EmbeddedRead
<1>3. DataEnd' = DataEnd /\ Size' = Size
  BY <1>1 DEF DataEnd, Size
<1>4. Tried' = Tried
  BY <1>1, <1>3 DEF Tried
<1>5. ~InReach'
  BY <1>1, <1>3 DEF InReach
<1>6. found' = IF Tried' = {} THEN <<>> ELSE <<Block(packet', Min(Tried'))>>
  BY <1>1, <1>2, <1>4
<1> QED
  BY <1>1, <1>2, <1>3, <1>5, <1>6 DEF EmbeddedRead

\* A message is refused where its first unfit place is.
LEMMA MessageJudgedKeeps ==
    ASSUME MessageRead, MessageJudged, MetadataRead \/ BlockRead \/ BlocksEnd
    PROVE  MessageJudged'
<1> SUFFICES ASSUME format \in Messages PROVE MessageJudged'
  BY DEF MessageJudged, MetadataRead, BlockRead, BlocksEnd, WalksBlocks, Refuses, Judged,
         Accepts, Finishes, Advances
<1>1. format' = format /\ packet' = packet /\ agrees' = agrees
  BY DEF MetadataRead, BlockRead, BlocksEnd, Refuses, Judged, Accepts, Finishes, Advances
<1>2. First' = First /\ Size' = Size
  BY <1>1 DEF First, Size
<1>3. First \in Nat /\ Size \in Nat
  BY PlaceIsNat
<1>4. CASE MetadataRead
  <2>1. stage = "metadata" /\ format = "input" /\ First = MetadataSize
    BY <1>4 DEF MetadataRead, MessageRead, First
  <2>2. CASE agrees /\ Size >= MetadataSize
    <3>1. stage' = "walk" /\ First <= Size
      BY <1>3, <1>4, <2>1, <2>2 DEF MetadataRead
    <3> QED
      BY <1>2, <3>1 DEF MessageJudged
  <2>3. CASE ~(agrees /\ Size >= MetadataSize)
    <3>1. stage' = "refused" /\ (~agrees \/ Size < First)
      BY <1>3, <1>4, <2>1, <2>3 DEF MetadataRead, Refuses, Finishes
    <3>2. Unfit'
      BY <1>1, <1>2, <3>1 DEF Unfit
    <3> QED
      BY <3>1, <3>2 DEF MessageJudged
  <2> QED
    BY <2>2, <2>3
<1>5. CASE BlockRead \/ BlocksEnd
  <2>1. stage = "walk" /\ First <= Size /\ offset = Behind(Len(found))
    BY <1>5 DEF BlockRead, BlocksEnd, WalksBlocks, MessageJudged, MessageRead
  <2>2. CASE stage' # "refused"
    BY <1>1, <1>2, <2>1, <2>2 DEF MessageJudged
  <2>3. CASE stage' = "refused"
    <3>1. offset' = offset /\ found' = found
      BY <1>5, <2>1, <2>3 DEF BlockRead, BlocksEnd, Refuses, Judged, Accepts, Finishes, Advances
    <3>2. \/ ~agrees
          \/ IF Rest >= MinBlockSize THEN ~Fits(packet, offset) ELSE Rest \notin {0, Trailer}
      <4>1. Rest \in Int
        BY <1>3 DEF Rest, MessageRead
      <4>2. CASE BlockRead
        BY <4>2, <2>1, <2>3 DEF BlockRead, Refuses, Finishes, Advances
      <4>3. CASE BlocksEnd
        <5>1. ~agrees \/ (Rest < MinBlockSize /\ Rest \notin {0, Trailer})
          BY <4>3, <2>3 DEF BlocksEnd, Judged, Accepts, Finishes
        <5>2. Rest < MinBlockSize => ~(Rest >= MinBlockSize)
          BY <4>1 DEF MinBlockSize
        <5> QED
          BY <5>1, <5>2
      <4> QED
        BY <1>5, <4>2, <4>3
    <3>3. Rest' = Rest
      BY <1>2, <3>1 DEF Rest
    <3>4. Behind(Len(found))' = offset' /\ Fits(packet, offset)' = Fits(packet, offset)
      BY <1>1, <1>2, <2>1, <3>1 DEF Behind, Fits
    <3>5. Unfit'
      BY <1>1, <1>2, <2>1, <3>2, <3>3, <3>4 DEF Unfit
    <3> QED
      BY <2>3, <3>5 DEF MessageJudged
  <2> QED
    BY <2>2, <2>3
<1> QED
  BY <1>4, <1>5

LEMMA PacketArrivesRight ==
    ASSUME PacketArrives PROVE ReadRight'
<1>1. PICK f \in Formats, p \in Octets, a \in BOOLEAN : Arrives(f, p, a)
  <2>1. PICK t \in IF mode = "off" THEN Formats \X Packet ELSE Telegram :
                \E a \in IF t[1] \in Messages \cup {"ack"} THEN BOOLEAN ELSE {TRUE} :
                   Arrives(t[1], t[2], a)
    BY DEF PacketArrives
  <2>2. t[1] \in Formats /\ t[2] \in Octets
    BY PacketAssumption, DebugAssumption DEF Octets
  <2>3. PICK a \in BOOLEAN : Arrives(t[1], t[2], a)
    BY <2>1
  <2> QED
    BY <2>2, <2>3
<1>2. /\ format' = f /\ packet' = p /\ offset' = Starts(p, f) /\ found' = <<>>
      /\ stage' = IF f = "input" THEN "metadata" ELSE "walk"
  BY <1>1 DEF Arrives
<1>3. MessageJudged'
  <2> SUFFICES ASSUME f \in Messages PROVE MessageJudged'
    BY <1>2 DEF MessageJudged
  <2>1. stage' # "refused" /\ (stage' = "walk" => First' = 0) /\ stage' # "accepted"
    BY <1>2 DEF First
  <2>2. Size' \in Nat
    BY <1>1, <1>2, LenProperties DEF Size, Octets
  <2> QED
    BY <2>1, <2>2 DEF MessageJudged
<1>4. EntriesRead'
  <2> SUFFICES ASSUME f = "response" PROVE EntriesRead'
    BY <1>2 DEF EntriesRead
  <2>1. stage' = "walk" /\ offset' \in Nat
    BY <1>2, StartIsNat
  <2>2. EntriesLaid'
    <3>1. found' \in Seq(Entries) /\ Len(found') = 0 /\ 1..Len(found') = {}
      BY <1>2, EmptySeq
    <3>2. EntryBehind(Len(found))' = offset'
      BY <1>2, <3>1 DEF EntryBehind
    <3> QED
      BY <3>1, <3>2 DEF EntriesLaid
  <2> QED
    BY <1>1, <1>2, <2>1, <2>2 DEF EntriesRead
<1>5. FieldsRead'
  BY <1>1, <1>2, FieldsArrive DEF FieldsRead
<1>6. EmbeddedRead'
  <2> SUFFICES ASSUME f = "embedded" PROVE EmbeddedRead'
    BY <1>2 DEF EmbeddedRead
  <2>1. stage' = "walk" /\ offset' = SearchStart(packet')
    BY <1>2 DEF Starts
  <2>2. packet' \in Octets
    BY <1>1, <1>2
  <2>3. DataEnd' = Len(packet') - Trailer
    BY DEF DataEnd, Size
  <2>4. /\ SearchStart(packet') \in Nat /\ (DataEnd' - SearchStart(packet')) % 2 = 0
        /\ \A i \in 0..DataEnd' - 6 : ExactFit(packet', i, DataEnd') => ~(i < SearchStart(packet'))
    BY <2>2, <2>3, SearchBegins
  <2>5. Tried' = {}
    BY <2>1, <2>4 DEF Tried
  <2> QED
    BY <1>2, <2>1, <2>2, <2>4, <2>5 DEF EmbeddedRead
<1> QED
  BY <1>3, <1>4, <1>5, <1>6 DEF ReadRight

\* A parser of another format changes nothing that is said of this one.
LEMMA ParsesRight ==
    ASSUME MessageRead, ReadRight, Parses PROVE ReadRight'
<1> USE DEF ReadRight
<1>1. format' = format /\ packet' = packet
  BY DEF Parses, MetadataRead, BlockRead, BlocksEnd, AckRead, EntryRead, WalkEnds,
         CandidateTried, SearchEnds, Accepts, Refuses, Finishes, Judged, Advances
<1>2. CASE MetadataRead \/ BlockRead \/ BlocksEnd
  <2>1. MessageJudged'
    BY <1>2, MessageJudgedKeeps
  <2>2. format \notin {"response", "config", "embedded"}
    <3>1. CASE MetadataRead
      BY <3>1 DEF MetadataRead, EntriesRead, FieldsRead, EmbeddedRead
    <3>2. CASE BlockRead \/ BlocksEnd
      BY <3>2 DEF BlockRead, BlocksEnd, WalksBlocks, Messages
    <3> QED
      BY <1>2, <3>1, <3>2
  <2> QED
    BY <1>1, <2>1, <2>2 DEF EntriesRead, FieldsRead, EmbeddedRead
<1>3. CASE AckRead
  BY <1>1, <1>3 DEF AckRead, MessageJudged, EntriesRead, FieldsRead, EmbeddedRead, Messages
<1>4. CASE EntryRead \/ WalkEnds
  <2>1. format \in {"response", "config"}
    BY <1>4 DEF EntryRead, WalkEnds, WalksEntries
  <2>2. EntriesRead'
    BY <1>1, <1>4, <2>1, EntryReadKeeps, WalkEndsKeeps DEF EntriesRead
  <2>3. FieldsRead'
    BY <1>1, <1>4, <2>1, FieldReadKeeps, FieldsEndKeeps DEF FieldsRead
  <2> QED
    BY <1>1, <2>1, <2>2, <2>3 DEF MessageJudged, EmbeddedRead, Messages
<1>5. CASE CandidateTried \/ SearchEnds
  <2>1. format = "embedded"
    BY <1>5 DEF CandidateTried, SearchEnds, Searches
  <2>2. EmbeddedRead'
    BY <1>5, CandidateTriedKeeps, SearchEndsKeeps
  <2> QED
    BY <1>1, <2>1, <2>2 DEF MessageJudged, EntriesRead, FieldsRead, Messages
<1> QED
  BY <1>2, <1>3, <1>4, <1>5 DEF Parses

LEMMA ReadStep ==
    IInv /\ ReadRight /\ [NextDebug]_debugVars => ReadRight'
<1> SUFFICES ASSUME IInv, ReadRight, [NextDebug]_debugVars PROVE ReadRight'
  OBVIOUS
<1>1. CASE PacketArrives
  BY <1>1, PacketArrivesRight
<1>2. CASE ParserStep
  BY <1>2, ParsesRight DEF ParserStep, IInv
<1>3. CASE Ignored \/ RecordsWritten
  <2>1. format' = "none"
    BY <1>3 DEF Ignored, RecordsWritten, Forgets
  <2> QED
    BY <2>1 DEF ReadRight, MessageJudged, EntriesRead, FieldsRead, EmbeddedRead, Messages
<1>4. CASE CaptureBegins \/ Capture0103
  <2>1. stage' = "capture" /\ UNCHANGED <<format, packet, agrees, offset, found>>
    BY <1>4 DEF CaptureBegins, Capture0103
  <2> QED
    BY <2>1 DEF ReadRight, MessageJudged, EntriesRead, FieldsRead, FieldsExact, EmbeddedRead, Size
<1>5. CASE UNCHANGED wireVars
  <2>1. UNCHANGED <<format, packet, agrees, stage, offset, found>>
    BY <1>5 DEF wireVars
  <2>2. Size' = Size /\ First' = First /\ DataEnd' = DataEnd /\ EntriesEnd' = EntriesEnd
    BY <2>1 DEF Size, First, DataEnd, EntriesEnd
  <2>3. MessageJudged'
    BY <2>1, <2>2 DEF ReadRight, MessageJudged, Unfit, Behind, Rest
  <2>4. EntriesRead'
    BY <2>1, <2>2 DEF ReadRight, EntriesRead, EntriesLaid, EntryBehind, EntryFits
  <2>6. FieldsRead'
    <3>1. format = "config" => (FieldsTaken' <=> FieldsTaken) /\ (FieldsExact' <=> FieldsExact)
      BY <2>1, FieldsStay
    <3> QED
      BY <2>1, <2>2, <3>1 DEF ReadRight, FieldsRead
  <2>5. EmbeddedRead'
    <3>1. Tried' = Tried /\ InReach' = InReach
      BY <2>1, <2>2 DEF Tried, InReach
    <3>2. format = "embedded" /\ stage \in {"walk", "accepted"} =>
              found = IF Tried = {} THEN <<>> ELSE <<Block(packet, Min(Tried))>>
      BY DEF ReadRight, EmbeddedRead
    <3>3. format = "embedded" /\ stage \in {"walk", "accepted"} =>
              found' = IF Tried' = {} THEN <<>> ELSE <<Block(packet', Min(Tried'))>>
      BY <2>1, <3>1, <3>2
    <3> QED
      BY <2>1, <2>2, <3>1, <3>3 DEF ReadRight, EmbeddedRead
  <2> QED
    BY <2>3, <2>4, <2>5, <2>6 DEF ReadRight
<1> QED
  BY <1>1, <1>2, <1>3, <1>4, <1>5 DEF NextDebug, BlockCaptured, debugVars

LEMMA ReadInitial == InitDebug => ReadRight
BY DEF InitDebug, InitWire, ReadRight, MessageJudged, EntriesRead, FieldsRead,
       EmbeddedRead, Messages

LEMMA ReadInvariant == DebugSpec => []ReadRight
<1> QED
  BY DebugInitial, DebugStep, ReadInitial, ReadStep, PTL DEF DebugSpec

-----------------------------------------------------------------------------
(* The composition.                                                        *)

\* Parsers, capture and writer behave next to each other as they do alone.
THEOREM ImplementsParts == Spec => DebugSpec /\ WriterSpec
<1>1. Init => InitDebug /\ InitWriter
  BY DEF Init
<1>2. [Next]_vars => [NextDebug]_debugVars /\ [NextWriter]_writerVars
  BY DEF Next, vars, PacketStep, WriterStep, Alone
<1> QED
  BY <1>1, <1>2, PTL DEF Spec, DebugSpec, WriterSpec

\* The file has the last value of every register the device has sent but for those of
\* discarded captures, for any packets and modes (register_debug.py:95).
THEOREM FileIsCurrent == Spec => []FileCurrent
<1>1. IInv => FileCurrent
  <2> SUFFICES ASSUME IInv, stage = "none", NEW k \in DOMAIN reported,
                      k[2] <= MaxRegister, k \notin missing
               PROVE  k \in DOMAIN filed /\ filed[k] = reported[k]
    BY DEF FileCurrent
  <2>1. k \in DOMAIN last /\ last[k] = reported[k]
    BY DEF IInv, LastSent
  <2>2. k \notin DOMAIN records
    BY DEF IInv, Capturing
  <2> QED
    BY <2>1, <2>2 DEF IInv, OnFile
<1> QED
  BY <1>1, ImplementsParts, InductiveInvariant, PTL

\* The byte budget counts what waits and what is being written and nothing else, for any
\* texts and limits (diagnostic_io.py:125, 146, 174).
THEOREM BudgetExact == Spec => []Accounted
<1>1. FilesInv => Accounted
  BY DEF FilesInv
<1> QED
  BY <1>1, FilesInvariant, ImplementsParts, PTL

\* No file outgrows its limit and only a last line is ever incomplete, wherever a write
\* is cut off and for any number of backups (diagnostic_io.py:33, 89).
THEOREM FilesStayReadable == Spec => []FilesReadable
<1>1. FilesInv => FilesReadable
  BY DEF FilesInv
<1> QED
  BY <1>1, FilesInvariant, ImplementsParts, PTL

\* No complete record is lost but for those of the oldest backup, and those of a text are
\* added in order and once, wherever its write is cut off (diagnostic_io.py:92).
THEOREM OnlyOldestDropped == Spec => OldestDropped
<1>1. FilesInv /\ [NextWriter]_writerVars =>
          \E k \in {0, Len(Records(backup[Backups]))}, n \in 0..Len(active.sizes) :
              History(Disk') = SubSeq(History(Disk), k + 1, Len(History(Disk)))
                                   \o [i \in 1..n |-> active.from + i]
  <2> SUFFICES ASSUME FilesInv, [NextWriter]_writerVars
               PROVE  \E k \in {0, Len(Records(backup[Backups]))}, n \in 0..Len(active.sizes) :
                          History(Disk') = SubSeq(History(Disk), k + 1, Len(History(Disk)))
                                               \o [i \in 1..n |-> active.from + i]
    OBVIOUS
  <2>1. Sound(Disk, active, Disk')
    BY DiskSound
  <2>2. Disk.backup = backup
    BY DEF Disk
  <2> QED
    BY <2>1, <2>2 DEF Sound, Kept, Ids
<1> QED
  BY <1>1, FilesInvariant, ImplementsParts, PTL DEF OldestDropped, WriterSpec

\* Every register that is handed on has the bytes the packet has for it, whatever the
\* packet says of its own lengths: a message is taken exactly if blocks and at most a
\* trailer fill it, a value of any size lies in one block with all its bytes, and the
\* block of a 0x0103 packet is the longest that ends at its trailer
\* (modbus_message.py:60, 234, 319, noah_0103.py:48).
THEOREM RegistersAreExact ==
    Spec => [](/\ RegistersExact
               /\ stage = "accepted" /\ format \in Messages =>
                     \A register, shift, size \in Nat : ValueExact(register, shift, size))
<1>1. IInv => DataExact /\ (stage = "accepted" /\ format \in Messages =>
                  \A register, shift, size \in Nat : ValueExact(register, shift, size))
  <2> SUFFICES ASSUME MessageRead, stage = "accepted", format \in Messages
               PROVE  \A register, shift, size \in Nat : ValueExact(register, shift, size)
    BY DEF IInv, DataExact
  <2> QED
    BY ValueRight
<1>2. IInv /\ ReadRight => BlocksExact /\ EmbeddedExact
  BY BlocksRight, EmbeddedRight DEF IInv, ReadRight
<1>3. IInv /\ ReadRight =>
          /\ RegistersExact
          /\ stage = "accepted" /\ format \in Messages =>
                \A register, shift, size \in Nat : ValueExact(register, shift, size)
  BY <1>1, <1>2 DEF RegistersExact
<1> QED
  BY <1>3, ImplementsParts, InductiveInvariant, ReadInvariant, PTL

\* No entry of an answer takes the trailer for its value and nothing is lost of an answer
\* of nothing but entries; of device information each known register has the value of
\* its last entry, and only without an entry it is raw; for any packet, whatever lengths
\* its entries say they have, and any known registers (parser.py:65, 83, 87, 128).
THEOREM EntriesAreExact == Spec => []EntriesExact
<1>1. ReadRight => EntriesExact
  <2>1. FieldsRead => FieldsExact
    BY DEF FieldsRead, FieldsExact
  <2> QED
    BY <2>1, EntriesRight DEF ReadRight, EntriesExact
<1> QED
  BY <1>1, ImplementsParts, ReadInvariant, PTL
=============================================================================
