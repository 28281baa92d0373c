-------------------------- MODULE BatteryPosition ---------------------------
(***************************************************************************)
(* Logical slots of the batteries 2..4 of NOAH and NEXA devices            *)
(* (grobro/ha/battery_position.py): a packet reports which battery sits in  *)
(* which physical slot, and its values are shown at the slot the user chose *)
(* for that battery or at the one the battery had first.  The choices come  *)
(* from the web server's thread through a file; the automatic slots of all  *)
(* devices are kept in another.  Both are replaced in one step, and         *)
(* _PERSISTENCE_LOCK makes a packet or a save one step.                     *)
(***************************************************************************)
EXTENDS Naturals

CONSTANTS
    Device,     \* NOAH and NEXA devices
    Serial,     \* battery serial numbers
    Picks       \* the manual choices users make (a bound for TLC)

NoSerial == "none"
AutoAssignment == "__auto__"
EmptyAssignment == "__empty__"

Slot == {2, 3, 4}
NoSlot == 0

ASSUME SerialAssumption == {NoSerial, AutoAssignment, EmptyAssignment} \cap Serial = {}

VARIABLES
    up,          \* the process runs
    keep,        \* KEEP_BATTERY_POSITION
    auto,        \* _battery_position_maps: a slot for each battery seen, by device
    dirty,       \* _battery_positions_dirty
    autoFile,    \* battery_positions.json
    manual,      \* _battery_manual_position_maps
    manualFile   \* battery_manual_positions.json

vars == <<up, keep, auto, dirty, autoFile, manual, manualFile>>

-----------------------------------------------------------------------------
\* _serials_from_payload, which lets a serial through that two slots report
Report == [Slot -> Serial \cup {NoSerial}]

NoReport == [p \in Slot |-> NoSerial]

\* A stable slot per battery, no two batteries the same.
Mapping == {m \in [Serial -> Slot \cup {NoSlot}] :
              \A a, b \in Serial : m[a] = m[b] /\ m[a] # NoSlot => a = b}

\* What _save_manual_assignments_locked and _load_manual_positions accept.
Choice == {c \in [Slot -> Serial \cup {AutoAssignment, EmptyAssignment}] :
             \A p, q \in Slot : c[p] = c[q] /\ c[p] \in Serial => p = q}

ASSUME PicksAssumption == Picks \subseteq Choice

AllAuto == [p \in Slot |-> AutoAssignment]

NoMapping == [b \in Serial |-> NoSlot]
Unread == [read |-> FALSE]    \* maps that were not read from their file yet

\* The lowest slot of a set, as the loops over _TRACKED_SLOTS find it
First(S) == IF 2 \in S THEN 2 ELSE IF 3 \in S THEN 3 ELSE IF 4 \in S THEN 4 ELSE NoSlot

Preferred(p, S) == IF p \in S THEN p ELSE First(S)

-----------------------------------------------------------------------------
\* Automatic assignment (battery_position.py:445)

Free(m) == {p \in Slot : \A b \in Serial : m[b] # p}

AssignedAt(p, r, m) ==
    IF r[p] = NoSerial \/ m[r[p]] # NoSlot THEN m
    ELSE [m EXCEPT ![r[p]] = Preferred(p, Free(m))]

Assigned(r, m) == AssignedAt(4, r, AssignedAt(3, r, AssignedAt(2, r, m)))

-----------------------------------------------------------------------------
\* Where the values of a physical slot are shown (battery_position.py:490)

Reserved(c) == {l \in Slot : c[l] # AutoAssignment}

Chosen(r, c) == [p \in Slot |-> First({l \in Slot : r[p] # NoSerial /\ c[l] = r[p]})]

Unused(c, at) == {l \in Slot : l \notin Reserved(c) /\ \A p \in Slot : at[p] # l}

\* A mutant of Own: stable slots are not looked at.
OwnPhysical(p, r, m, stable) == p

\* The slot a battery keeps, or its physical one
Own(p, r, m, stable) == IF stable THEN m[r[p]] ELSE p

\* A mutant of PlacedAt: a battery keeps its slot although the user gave it away.
PlacedAtIgnoresChoice(p, r, m, c, stable, at) ==
    IF r[p] = NoSerial \/ at[p] # NoSlot THEN at
    ELSE LET free == Unused(AllAuto, at)
             own == Own(p, r, m, stable)
         IN  [at EXCEPT ![p] = IF own \in free THEN own ELSE Preferred(p, free)]

PlacedAt(p, r, m, c, stable, at) ==
    IF r[p] = NoSerial \/ at[p] # NoSlot THEN at
    ELSE LET free == Unused(c, at)
             own == Own(p, r, m, stable)
         IN  [at EXCEPT ![p] = IF own \in free THEN own ELSE Preferred(p, free)]

Placed(r, m, c, stable) ==
    PlacedAt(4, r, m, c, stable,
             PlacedAt(3, r, m, c, stable, PlacedAt(2, r, m, c, stable, Chosen(r, c))))

\* A mutant of Shown: slots without a serial are passed on as they are.
ShownUnidentified(l, r, c, at) == {p \in Slot : at[p] = l \/ (p = l /\ r[p] = NoSerial)}

\* The physical slots whose values end at the logical slot l
Shown(l, r, c, at) ==
    {p \in Slot : \/ at[p] = l
                  \/ /\ p = l /\ r[p] = NoSerial
                     /\ l \in Unused(c, at)}

-----------------------------------------------------------------------------
Init ==
    /\ up = FALSE /\ keep = FALSE /\ dirty = FALSE
    /\ auto = Unread /\ manual = Unread
    /\ autoFile = [d \in Device |-> NoMapping]
    /\ manualFile = [d \in Device |-> AllAuto]

Restart ==
    /\ ~up
    /\ up' = TRUE
    /\ keep' \in BOOLEAN
    /\ UNCHANGED <<auto, dirty, autoFile, manual, manualFile>>

Killed ==
    /\ up
    /\ up' = FALSE
    /\ keep' = FALSE /\ dirty' = FALSE
    /\ auto' = Unread /\ manual' = Unread
    /\ UNCHANGED <<autoFile, manualFile>>

\* _manual_positions, when its file can be read and when not
Choices(readable) == IF readable THEN manualFile ELSE manual

ChoiceOf(d, readable) ==
    IF Choices(readable) = Unread THEN AllAuto ELSE Choices(readable)[d]

\* A mutant of Known: maps that cannot be read count as empty.
KnownOrEmpty(readable) ==
    IF auto # Unread THEN auto
    ELSE IF readable THEN autoFile ELSE [d \in Device |-> NoMapping]

\* _position_maps
Known(readable) == IF auto # Unread \/ ~readable THEN auto ELSE autoFile

\* Whether batteries are assigned: not while the maps cannot be read.
Stable(known) == keep /\ known # Unread

\* The maps after a packet of d that reports r
AutoAfter(d, r, known) ==
    IF Stable(known) THEN [known EXCEPT ![d] = Assigned(r, known[d])] ELSE known

SaveDue(d, r, c, known) ==
    /\ Stable(known)
    /\ r # NoReport \/ c # AllAuto
    /\ dirty \/ AutoAfter(d, r, known) # known

\* A mutant of Saved: a failed save is only logged.
SavedForgotten(maps, ok) ==
    /\ autoFile' = IF ok THEN maps ELSE autoFile
    /\ dirty' = FALSE

\* _save_all_positions, which may fail
Saved(maps, ok) ==
    /\ autoFile' = IF ok THEN maps ELSE autoFile
    /\ dirty' = ~ok

\* prepare_battery_payload for a packet of d; readManual and readAuto tell whether
\* the files can be read, ok whether a save succeeds.
Packet(d, r, readManual, readAuto, ok) ==
    LET c == ChoiceOf(d, readManual)
        known == Known(readAuto)
    IN  /\ up
        /\ manual' = Choices(readManual)
        /\ UNCHANGED <<up, keep, manualFile>>
        /\ IF ~keep /\ c = AllAuto
           THEN UNCHANGED <<auto, dirty, autoFile>>
           ELSE /\ auto' = AutoAfter(d, r, known)
                /\ IF SaveDue(d, r, c, known)
                   THEN Saved(AutoAfter(d, r, known), ok)
                   ELSE UNCHANGED <<dirty, autoFile>>

\* save_manual_assignments, when its file can be read and written
SaveChoice(d, c) ==
    /\ up
    /\ manualFile' = [manualFile EXCEPT ![d] = c]
    /\ UNCHANGED <<up, keep, auto, dirty, autoFile, manual>>

Next ==
    \/ Restart \/ Killed
    \/ \E d \in Device, r \in Report, rm, ra, ok \in BOOLEAN : Packet(d, r, rm, ra, ok)
    \/ \E d \in Device, c \in Picks : SaveChoice(d, c)

Spec == Init /\ [][Next]_vars

\* A device whose batteries can be read reports now and then while files can be
\* read and written.
FairSpec ==
    /\ Spec
    /\ SF_vars(\E d \in Device, r \in Report \ {NoReport} : Packet(d, r, TRUE, TRUE, TRUE))

-----------------------------------------------------------------------------
TypeOK ==
    /\ up \in BOOLEAN /\ keep \in BOOLEAN /\ dirty \in BOOLEAN
    /\ auto \in [Device -> Mapping] \cup {Unread}
    /\ autoFile \in [Device -> Mapping]
    /\ manual \in [Device -> Choice] \cup {Unread}
    /\ manualFile \in [Device -> Choice]

\* What the next packet of d may find: the choice c and the maps
NextChoice(d) == {ChoiceOf(d, readable) : readable \in BOOLEAN}
NextKnown == {Known(readable) : readable \in BOOLEAN}

NextMap(d, r, known) == IF Stable(known) THEN Assigned(r, known[d]) ELSE NoMapping

\* How it would be shown if it reported r
NextPlaced(d, r, c, known) == Placed(r, NextMap(d, r, known), c, Stable(known))

\* Each battery is reported in one slot.
OnceEach(r) == \A p, q \in Slot : r[p] = r[q] /\ r[p] # NoSerial => p = q

\* "An identified pack owns its logical destination. Unidentified/empty physical
\* slots must not overwrite it" (battery_position.py:585): whatever is reported
\* next, two physical slots meet at a logical one only if both report the battery the
\* user chose for it (battery_position.py:504); every other logical slot shows the
\* values of one physical slot.
OneSource ==
    \A d \in Device, r \in Report : \A c \in NextChoice(d), known \in NextKnown :
        LET at == NextPlaced(d, r, c, known)
        IN  \A l \in Slot : \A p, q \in Shown(l, r, c, at) :
                p = q \/ (c[l] = r[p] /\ c[l] = r[q])

\* "Explicit serial selections always win" (battery_position.py:503), and a slot
\* the user gave to a battery or to none shows nothing else.
ChoiceWins ==
    \A d \in Device, r \in Report : \A c \in NextChoice(d), known \in NextKnown :
        LET at == NextPlaced(d, r, c, known)
        IN  \A l \in Reserved(c) : Shown(l, r, c, at) = {p \in Slot : r[p] = c[l]}

\* "every slot-specific value is moved back to the logical slot belonging to that
\* serial number" (battery_position.py:412), as long as every battery reported has
\* one and is reported once, and the user chose nothing.
KeepsSlot ==
    \A d \in Device, r \in {s \in Report : OnceEach(s)} : \A known \in NextKnown :
        LET m == NextMap(d, r, known)
            at == NextPlaced(d, r, AllAuto, known)
            there == {p \in Slot : r[p] # NoSerial}
        IN  Stable(known) /\ (\A p \in there : m[r[p]] # NoSlot)
            => \A p \in there : at[p] = m[r[p]]

\* The same for a battery that has a slot, whatever the others have: "New
\* batteries therefore cannot steal them" (battery_position.py:447).
NeverStolen ==
    \A d \in Device, r \in {s \in Report : OnceEach(s)} : \A known \in NextKnown :
        LET m == NextMap(d, r, known)
            at == NextPlaced(d, r, AllAuto, known)
        IN  \A p \in Slot :
                Stable(known) /\ r[p] # NoSerial /\ m[r[p]] # NoSlot => at[p] = m[r[p]]

\* "The first observed serial/slot relationship becomes persistent"
\* (battery_position.py:411), across failed reads and writes, kills and restarts.
HistoryKept ==
    [][\A d \in Device, b \in Serial :
         autoFile[d][b] # NoSlot => autoFile'[d][b] = autoFile[d][b]]_vars

\* What the process assigned is in the file, or is dirty and will be saved with the
\* next assignment of any device.
AutoOnDisk == auto # Unread /\ ~dirty => auto = autoFile

\* A slot a battery was given is in the file in the end, unless the process is gone: a
\* packet that reports any battery repeats a save that failed
\* (battery_position.py:479), whichever saves and reads fail in between.
AssignmentsSaved ==
    \A d \in Device, b \in Serial, p \in Slot :
        (up /\ auto # Unread /\ auto[d][b] = p) ~> (~up \/ autoFile[d][b] = p)
=============================================================================
