--------------------------- MODULE MCDiagnostics ---------------------------
(* An instance of Diagnostics for TLC. *)
EXTENDS Diagnostics

CONSTANT MaxWords  \* bound: words in a packet

Bytes(words) == FlattenSeq([i \in DOMAIN words |-> WordBytes(words[i])])

\* Texts of words 0, 1 and 2, and the shorter ones shifted by a byte
WordTexts(n) == {Bytes(w) : w \in UNION {[1..i -> 0..2] : i \in 0..n}}
\* Up to three entries, of a known and of an unknown register, with and without a trailer
Entries == {Bytes(<<k, Len(v)>>) \o v : k \in {1, 3}, v \in {<<5>>, <<5, 7>>}}
EntryTexts ==
    {FlattenSeq(e) \o t : e \in UNION {[1..i -> Entries] : i \in 1..3}, t \in {<<>>, <<0, 0>>}}

Packets ==
    WordTexts(MaxWords) \cup EntryTexts
        \cup {<<0>> \o t : t \in WordTexts(MaxWords - 1) \cup EntryTexts}

\* Messages with layouts of one and of two registers and a trailer, one with a register
\* beyond MaxRegister, a report of one of them, and packets of 0x0103 with a block
Telegrams ==
    LET pairs == {Bytes(<<0, 1, x, y, 0>>) : x, y \in {1, 2}}
        singles == {Bytes(<<i, i, x, 0>>) : i \in {0, 1}, x \in {1, 2}}
        both == {Bytes(<<0, 0, x, 0, 1, x, x, 0>>) : x \in {1, 2}}
        hidden == {Bytes(<<0, 0, x, 0>>) : x \in {1, 2}}
        beyond == Bytes(<<2, 2, 1, 0>>)
    IN {"blocks"} \X (pairs \cup singles \cup both \cup {beyond}) \cup {"embedded"} \X hidden
         \cup {"input"} \X {<<0, 0, 0>> \o Bytes(<<0, 0, 1, 0>>)}

\* One record of either size, and a text of two records
Texts == {<<1>>, <<2>>, <<1, 1>>}
=============================================================================
