----------------------------- MODULE PageProofs ------------------------------
(***************************************************************************)
(* Proofs about what users save on the page of the add-on: positions of    *)
(* batteries (BatteryPosition), for any devices and serial numbers, and    *)
(* options (WebInterface), for any connections, options and limits.        *)
(*                                                                         *)
(* Positions.  The placement of a report is a lemma about Placed, for any  *)
(* map; the maps in memory are on disk or will be saved again.             *)
(*                                                                         *)
(* Options.  Tokens and promised restarts are counted by the threads that  *)
(* hold them (Counted), and the options a save goes by are those at the    *)
(* Supervisor because it alone has the lock (Locked).                      *)
(***************************************************************************)
EXTENDS BatteryPosition, WebInterface, FiniteSetTheorems, TLAPS

-----------------------------------------------------------------------------
\* Automatic assignment

\* One slot's battery gets a free slot or none, and the others keep theirs.
LEMMA AssignedAtKeeps ==
    ASSUME NEW p \in Slot, NEW r \in Report, NEW m \in Mapping
    PROVE  /\ AssignedAt(p, r, m) \in Mapping
           /\ \A b \in Serial : m[b] # NoSlot => AssignedAt(p, r, m)[b] = m[b]
<1> DEFINE f == Preferred(p, Free(m))
           n == [m EXCEPT ![r[p]] = f]
<1>1. m \in [Serial -> Slot \cup {NoSlot}] BY DEF Mapping
<1>2. CASE r[p] = NoSerial \/ m[r[p]] # NoSlot
  BY <1>2 DEF AssignedAt
<1>3. CASE r[p] # NoSerial /\ m[r[p]] = NoSlot
  <2>1. r[p] \in Serial BY <1>3 DEF Report
  <2>2. f \in Slot \cup {NoSlot} BY DEF Preferred, First, Free, Slot, NoSlot
  <2>3. f # NoSlot => f \in Free(m) BY DEF Preferred, First, Slot, NoSlot
  <2>4. f # NoSlot => \A b \in Serial : m[b] # f BY <2>3 DEF Free
  <2>5. n \in [Serial -> Slot \cup {NoSlot}] BY <1>1, <2>2
  <2>6. n[r[p]] = f /\ \A b \in Serial : b # r[p] => n[b] = m[b] BY <1>1, <2>1
  <2> HIDE DEF f, n
  <2>7. \A a, b \in Serial : n[a] = n[b] /\ n[a] # NoSlot => a = b
    BY <2>1, <2>4, <2>6 DEF Mapping
  <2>8. n \in Mapping BY <2>5, <2>7 DEF Mapping
  <2>9. AssignedAt(p, r, m) = n BY <1>3 DEF AssignedAt, n, f
  <2>10. \A b \in Serial : m[b] # NoSlot => n[b] = m[b] BY <1>3, <2>6
  <2> QED BY <2>8, <2>9, <2>10
<1> QED BY <1>2, <1>3

LEMMA AssignedKeeps ==
    ASSUME NEW r \in Report, NEW m \in Mapping
    PROVE  /\ Assigned(r, m) \in Mapping
           /\ \A b \in Serial : m[b] # NoSlot => Assigned(r, m)[b] = m[b]
<1> DEFINE m2 == AssignedAt(2, r, m)
           m3 == AssignedAt(3, r, m2)
           m4 == AssignedAt(4, r, m3)
<1>0. 2 \in Slot /\ 3 \in Slot /\ 4 \in Slot BY DEF Slot
<1>1. m2 \in Mapping /\ \A b \in Serial : m[b] # NoSlot => m2[b] = m[b]
  BY <1>0, AssignedAtKeeps
<1> HIDE DEF m2
<1>2. m3 \in Mapping /\ \A b \in Serial : m2[b] # NoSlot => m3[b] = m2[b]
  BY <1>0, <1>1, AssignedAtKeeps
<1> HIDE DEF m3
<1>3. m4 \in Mapping /\ \A b \in Serial : m3[b] # NoSlot => m4[b] = m3[b]
  BY <1>0, <1>2, AssignedAtKeeps
<1> HIDE DEF m4
<1>4. Assigned(r, m) = m4 BY DEF Assigned, m4, m3, m2
<1>5. \A b \in Serial : m[b] # NoSlot => m4[b] = m[b] BY <1>1, <1>2, <1>3
<1> QED BY <1>3, <1>4, <1>5

LEMMA NoReportKeeps == \A m : Assigned(NoReport, m) = m
BY DEF Assigned, AssignedAt, NoReport, Slot

-----------------------------------------------------------------------------
\* Placing

\* What holds of the slots batteries were placed at, whichever were placed so far.
PlacesOK(r, c, at) ==
    /\ at \in [Slot -> Slot \cup {NoSlot}]
    /\ \A p, q \in Slot :
           at[p] = at[q] /\ at[p] # NoSlot => p = q \/ (c[at[p]] = r[p] /\ c[at[p]] = r[q])
    /\ \A p \in Slot : r[p] = NoSerial => at[p] = NoSlot
    /\ \A p \in Slot : at[p] \in Reserved(c) => c[at[p]] = r[p]
    /\ \A p, l \in Slot : r[p] # NoSerial /\ c[l] = r[p] => at[p] = l

LEMMA ChosenOK ==
    ASSUME NEW r \in Report, NEW c \in Choice
    PROVE  PlacesOK(r, c, Chosen(r, c))
<1> DEFINE at == Chosen(r, c)
           S(p) == {l \in Slot : r[p] # NoSerial /\ c[l] = r[p]}
<1>1. \A p \in Slot : at[p] = First(S(p)) BY DEF Chosen
<1>2. \A p \in Slot : First(S(p)) \in S(p) \cup {NoSlot} BY DEF First, Slot
<1>3. at \in [Slot -> Slot \cup {NoSlot}]
  <2>1. \A p \in Slot : First(S(p)) \in Slot \cup {NoSlot} BY <1>2
  <2> QED BY <2>1 DEF Chosen
<1>4. ASSUME NEW p \in Slot, at[p] # NoSlot
      PROVE  r[p] # NoSerial /\ c[at[p]] = r[p]
  BY <1>1, <1>2, <1>4
<1>5. ASSUME NEW p \in Slot, NEW l \in Slot, r[p] # NoSerial, c[l] = r[p]
      PROVE  at[p] = l
  <2>1. r[p] \in Serial BY <1>5 DEF Report
  <2>2. \A k \in Slot : c[k] = r[p] => k = l BY <1>5, <2>1 DEF Choice
  <2>3. S(p) = {l} BY <1>5, <2>2
  <2>4. First({l}) = l BY DEF First, Slot
  <2> QED BY <1>1, <2>3, <2>4
<1> HIDE DEF at, S
<1>6. \A p, q \in Slot : at[p] = at[q] /\ at[p] # NoSlot => c[at[p]] = r[p] /\ c[at[p]] = r[q]
  BY <1>4
<1>7. \A p \in Slot : at[p] \in Reserved(c) => c[at[p]] = r[p]
  <2>1. NoSlot \notin Reserved(c) BY DEF Reserved, Slot, NoSlot
  <2> QED BY <1>4, <2>1
<1>8. PlacesOK(r, c, at) BY <1>3, <1>4, <1>5, <1>6, <1>7 DEF PlacesOK
<1> QED BY <1>8 DEF at

LEMMA PlacedAtOK ==
    ASSUME NEW p \in Slot, NEW r \in Report, NEW m, NEW c \in Choice, NEW stable, NEW at,
           PlacesOK(r, c, at)
    PROVE  PlacesOK(r, c, PlacedAt(p, r, m, c, stable, at))
<1> DEFINE unused == Unused(c, at)
           own == Own(p, r, m, stable)
           l == IF own \in unused THEN own ELSE Preferred(p, unused)
           n == [at EXCEPT ![p] = l]
<1>1. CASE r[p] = NoSerial \/ at[p] # NoSlot BY <1>1 DEF PlacedAt
<1>2. CASE r[p] # NoSerial /\ at[p] = NoSlot
  <2>1. PlacedAt(p, r, m, c, stable, at) = n BY <1>2 DEF PlacedAt
  <2>2. at \in [Slot -> Slot \cup {NoSlot}] BY DEF PlacesOK
  <2>3. unused \subseteq Slot BY DEF Unused
  <2>4. l \in unused \cup {NoSlot} BY DEF Preferred, First
  <2>5. l # NoSlot => l \notin Reserved(c) /\ \A q \in Slot : at[q] # l BY <2>4 DEF Unused
  <2>6. n \in [Slot -> Slot \cup {NoSlot}] BY <2>2, <2>3, <2>4
  <2>7. n[p] = l /\ \A q \in Slot : q # p => n[q] = at[q] BY <2>2
  <2>8. \A k \in Slot : c[k] # r[p] BY <1>2 DEF PlacesOK, Slot, NoSlot
  <2>9. NoSlot \notin Reserved(c) BY DEF Reserved, Slot, NoSlot
  <2> HIDE DEF n, l, unused, own
  <2>10. \A q, k \in Slot :
             n[q] = n[k] /\ n[q] # NoSlot => q = k \/ (c[n[q]] = r[q] /\ c[n[q]] = r[k])
    BY <2>5, <2>7 DEF PlacesOK
  <2>11. \A q \in Slot : r[q] = NoSerial => n[q] = NoSlot BY <1>2, <2>7 DEF PlacesOK
  <2>12. \A q \in Slot : n[q] \in Reserved(c) => c[n[q]] = r[q]
    BY <2>5, <2>7, <2>9 DEF PlacesOK
  <2>13. \A q, k \in Slot : r[q] # NoSerial /\ c[k] = r[q] => n[q] = k
    BY <2>7, <2>8 DEF PlacesOK
  <2>14. PlacesOK(r, c, n) BY <2>6, <2>10, <2>11, <2>12, <2>13 DEF PlacesOK
  <2> QED BY <2>1, <2>14
<1> QED BY <1>1, <1>2

LEMMA PlacedOK ==
    ASSUME NEW r \in Report, NEW m, NEW c \in Choice, NEW stable
    PROVE  PlacesOK(r, c, Placed(r, m, c, stable))
<1> DEFINE a1 == Chosen(r, c)
           a2 == PlacedAt(2, r, m, c, stable, a1)
           a3 == PlacedAt(3, r, m, c, stable, a2)
           a4 == PlacedAt(4, r, m, c, stable, a3)
<1>0. 2 \in Slot /\ 3 \in Slot /\ 4 \in Slot BY DEF Slot
<1>1. PlacesOK(r, c, a1) BY ChosenOK
<1> HIDE DEF a1
<1>2. PlacesOK(r, c, a2) BY <1>0, <1>1, PlacedAtOK
<1> HIDE DEF a2
<1>3. PlacesOK(r, c, a3) BY <1>0, <1>2, PlacedAtOK
<1> HIDE DEF a3
<1>4. PlacesOK(r, c, a4) BY <1>0, <1>3, PlacedAtOK
<1> QED BY <1>4 DEF Placed, a4, a3, a2, a1

\* Batteries that all have a slot of their own are placed there, one after the other.
Partly(r, m, at) ==
    /\ at \in [Slot -> Slot \cup {NoSlot}]
    /\ \A q \in Slot : at[q] # NoSlot => r[q] # NoSerial /\ at[q] = m[r[q]]

LEMMA KeepsAt ==
    ASSUME NEW p \in Slot, NEW r \in Report, OnceEach(r), NEW m \in Mapping,
           \A q \in Slot : r[q] # NoSerial => m[r[q]] # NoSlot,
           NEW at, Partly(r, m, at)
    PROVE  /\ Partly(r, m, PlacedAt(p, r, m, AllAuto, TRUE, at))
           /\ \A q \in Slot : at[q] # NoSlot =>
                  PlacedAt(p, r, m, AllAuto, TRUE, at)[q] # NoSlot
           /\ r[p] # NoSerial => PlacedAt(p, r, m, AllAuto, TRUE, at)[p] # NoSlot
<1> DEFINE own == m[r[p]]
           n == [at EXCEPT ![p] = own]
<1>1. CASE r[p] = NoSerial \/ at[p] # NoSlot
  <2>1. PlacedAt(p, r, m, AllAuto, TRUE, at) = at BY <1>1 DEF PlacedAt
  <2> QED BY <1>1, <2>1
<1>2. CASE r[p] # NoSerial /\ at[p] = NoSlot
  <2>0. at \in [Slot -> Slot \cup {NoSlot}] BY DEF Partly
  <2>1. r[p] \in Serial /\ own # NoSlot BY <1>2 DEF Report
  <2>2. own \in Slot BY <2>1 DEF Mapping
  <2>3. \A q \in Slot : at[q] # own
    <3> SUFFICES ASSUME NEW q \in Slot, at[q] = own PROVE FALSE OBVIOUS
    <3>1. r[q] # NoSerial /\ m[r[q]] = m[r[p]] BY <2>1 DEF Partly
    <3>2. r[q] \in Serial BY <3>1 DEF Report
    <3>3. r[q] = r[p] BY <2>1, <3>1, <3>2 DEF Mapping
    <3>4. q = p BY <1>2, <3>3 DEF OnceEach
    <3> QED BY <1>2, <2>1, <3>4
  <2>4. own \in Unused(AllAuto, at) BY <2>2, <2>3 DEF Unused, Reserved, AllAuto
  <2>5. Own(p, r, m, TRUE) = own BY DEF Own
  <2>6. PlacedAt(p, r, m, AllAuto, TRUE, at) = n BY <1>2, <2>4, <2>5 DEF PlacedAt
  <2>7. n \in [Slot -> Slot \cup {NoSlot}] BY <2>0, <2>2
  <2>8. n[p] = own /\ \A q \in Slot : q # p => n[q] = at[q] BY <2>0
  <2> HIDE DEF n
  <2>9. Partly(r, m, n) BY <1>2, <2>7, <2>8 DEF Partly
  <2> QED BY <1>2, <2>1, <2>6, <2>8, <2>9
<1> QED BY <1>1, <1>2

LEMMA KeepsAll ==
    ASSUME NEW r \in Report, OnceEach(r), NEW m \in Mapping,
           \A q \in Slot : r[q] # NoSerial => m[r[q]] # NoSlot
    PROVE  \A q \in Slot : r[q] # NoSerial => Placed(r, m, AllAuto, TRUE)[q] = m[r[q]]
<1> DEFINE a1 == Chosen(r, AllAuto)
           a2 == PlacedAt(2, r, m, AllAuto, TRUE, a1)
           a3 == PlacedAt(3, r, m, AllAuto, TRUE, a2)
           a4 == PlacedAt(4, r, m, AllAuto, TRUE, a3)
<1>0. 2 \in Slot /\ 3 \in Slot /\ 4 \in Slot BY DEF Slot
<1>1. Partly(r, m, a1)
  <2>1. \A p \in Slot : r[p] # AutoAssignment \/ r[p] = NoSerial
    BY SerialAssumption DEF Report
  <2>2. \A p \in Slot : {l \in Slot : r[p] # NoSerial /\ AllAuto[l] = r[p]} = {}
    BY <2>1 DEF AllAuto
  <2>3. First({}) = NoSlot BY DEF First
  <2>4. a1 = [p \in Slot |-> NoSlot] BY <2>2, <2>3 DEF Chosen
  <2> QED BY <2>4 DEF Partly
<1> HIDE DEF a1
<1>2. Partly(r, m, a2) /\ (r[2] # NoSerial => a2[2] # NoSlot) BY <1>0, <1>1, KeepsAt
<1> HIDE DEF a2
<1>3. /\ Partly(r, m, a3)
      /\ \A q \in Slot : a2[q] # NoSlot => a3[q] # NoSlot
      /\ r[3] # NoSerial => a3[3] # NoSlot
  BY <1>0, <1>2, KeepsAt
<1> HIDE DEF a3
<1>4. /\ Partly(r, m, a4)
      /\ \A q \in Slot : a3[q] # NoSlot => a4[q] # NoSlot
      /\ r[4] # NoSerial => a4[4] # NoSlot
  BY <1>0, <1>3, KeepsAt
<1> HIDE DEF a4
<1>5. Placed(r, m, AllAuto, TRUE) = a4 BY DEF Placed, a4, a3, a2, a1
<1>6. \A q \in Slot : r[q] # NoSerial => a4[q] # NoSlot BY <1>0, <1>2, <1>3, <1>4 DEF Slot
<1> QED BY <1>4, <1>5, <1>6 DEF Partly

-----------------------------------------------------------------------------
\* What a packet finds and leaves

LEMMA Constants == AllAuto \in Choice /\ NoMapping \in Mapping
<1>1. AutoAssignment \notin Serial BY SerialAssumption
<1> QED BY <1>1 DEF AllAuto, Choice, NoMapping, Mapping

LEMMA Found ==
    ASSUME TypeOK, NEW d \in Device
    PROVE  /\ \A c \in NextChoice(d) : c \in Choice
           /\ \A known \in NextKnown : known \in [Device -> Mapping] \cup {Unread}
<1>1. ASSUME NEW readable \in BOOLEAN PROVE ChoiceOf(d, readable) \in Choice
  <2>1. CASE Choices(readable) = Unread BY <2>1, Constants DEF ChoiceOf
  <2>2. CASE Choices(readable) # Unread
    <3>1. Choices(readable) \in [Device -> Choice] BY <2>2 DEF Choices, TypeOK
    <3> QED BY <2>2, <3>1 DEF ChoiceOf
  <2> QED BY <2>1, <2>2
<1>2. \A readable \in BOOLEAN : Known(readable) \in [Device -> Mapping] \cup {Unread}
  BY DEF Known, TypeOK
<1> QED BY <1>1, <1>2 DEF NextChoice, NextKnown

LEMMA AutoAfterKeeps ==
    ASSUME NEW d \in Device, NEW r \in Report,
           NEW known \in [Device -> Mapping] \cup {Unread}
    PROVE  LET after == AutoAfter(d, r, known)
           IN  /\ after \in [Device -> Mapping] \cup {Unread}
               /\ known = Unread => after = Unread
               /\ known # Unread =>
                      /\ after \in [Device -> Mapping]
                      /\ \A e \in Device, b \in Serial :
                             known[e][b] # NoSlot => after[e][b] = known[e][b]
<1> DEFINE n == [known EXCEPT ![d] = Assigned(r, known[d])]
<1>1. CASE Stable(known)
  <2>1. known # Unread BY <1>1 DEF Stable
  <2>2. known \in [Device -> Mapping] BY <2>1
  <2>3. /\ Assigned(r, known[d]) \in Mapping
        /\ \A b \in Serial : known[d][b] # NoSlot => Assigned(r, known[d])[b] = known[d][b]
    BY <2>2, AssignedKeeps
  <2>4. n \in [Device -> Mapping] BY <2>2, <2>3
  <2>5. \A e \in Device, b \in Serial : known[e][b] # NoSlot => n[e][b] = known[e][b]
    BY <2>2, <2>3
  <2>6. AutoAfter(d, r, known) = n BY <1>1 DEF AutoAfter
  <2> HIDE DEF n
  <2> QED BY <2>1, <2>4, <2>5, <2>6
<1>2. CASE ~Stable(known)
  BY <1>2 DEF AutoAfter
<1> QED BY <1>1, <1>2

-----------------------------------------------------------------------------
\* What was assigned and saved is still assigned.
Extends ==
    auto # Unread =>
        \A d \in Device, b \in Serial : autoFile[d][b] # NoSlot => auto[d][b] = autoFile[d][b]

IInv == TypeOK /\ AutoOnDisk /\ Extends

LEMMA InitIInv == Init => IInv
BY Constants DEF Init, IInv, TypeOK, AutoOnDisk, Extends

\* What a packet does with the maps: what the file had is still there.
LEMMA PacketKeeps ==
    ASSUME IInv, NEW d \in Device, NEW r \in Report,
           NEW rm \in BOOLEAN, NEW ra \in BOOLEAN, NEW ok \in BOOLEAN,
           Packet(d, r, rm, ra, ok)
    PROVE  IInv' /\ (\A e \in Device, b \in Serial :
                        autoFile[e][b] # NoSlot => autoFile'[e][b] = autoFile[e][b])
<1> DEFINE c == ChoiceOf(d, rm)
           known == Known(ra)
           after == AutoAfter(d, r, known)
<1>1. TypeOK /\ AutoOnDisk /\ Extends BY DEF IInv
<1>2. /\ known \in [Device -> Mapping] \cup {Unread}
      /\ known # Unread => \A e \in Device, b \in Serial :
                               autoFile[e][b] # NoSlot => known[e][b] = autoFile[e][b]
      /\ known # Unread /\ ~dirty => known = autoFile
  BY <1>1 DEF TypeOK, Extends, AutoOnDisk, Known
<1>3. /\ after \in [Device -> Mapping] \cup {Unread}
      /\ known = Unread => after = Unread
      /\ known # Unread =>
             /\ after \in [Device -> Mapping]
             /\ \A e \in Device, b \in Serial :
                    known[e][b] # NoSlot => after[e][b] = known[e][b]
  BY <1>2, AutoAfterKeeps
<1>4. known # Unread => \A e \in Device, b \in Serial :
                           autoFile[e][b] # NoSlot => after[e][b] = autoFile[e][b]
  BY <1>2, <1>3
<1>5. r = NoReport => after = known
  <2> SUFFICES ASSUME r = NoReport, Stable(known) PROVE after = known BY DEF AutoAfter
  <2>1. known \in [Device -> Mapping] BY <1>2 DEF Stable
  <2>2. Assigned(r, known[d]) = known[d] BY NoReportKeeps
  <2>3. [known EXCEPT ![d] = known[d]] = known BY <2>1
  <2> QED BY <2>2, <2>3 DEF AutoAfter
<1>6. ~Stable(known) => after = known BY DEF AutoAfter
<1>7. /\ up' \in BOOLEAN /\ keep' \in BOOLEAN
      /\ manual' \in [Device -> Choice] \cup {Unread}
      /\ manualFile' \in [Device -> Choice]
  BY <1>1 DEF Packet, TypeOK, Choices
<1>8. CASE ~keep /\ c = AllAuto
  <2>1. UNCHANGED <<auto, dirty, autoFile>> BY <1>8 DEF Packet
  <2> QED BY <1>1, <1>7, <2>1 DEF IInv, TypeOK, AutoOnDisk, Extends
<1>9. CASE ~(~keep /\ c = AllAuto)
  <2>1. /\ auto' = after
        /\ IF SaveDue(d, r, c, known) THEN Saved(after, ok) ELSE UNCHANGED <<dirty, autoFile>>
    BY <1>9 DEF Packet
  <2>2. CASE SaveDue(d, r, c, known)
    <3>1. known # Unread BY <2>2 DEF SaveDue, Stable
    <3>2. /\ autoFile' = IF ok THEN after ELSE autoFile
          /\ dirty' = ~ok
      BY <2>1, <2>2 DEF Saved
    <3>3. autoFile' \in [Device -> Mapping] /\ dirty' \in BOOLEAN
      BY <1>1, <1>3, <3>1, <3>2 DEF TypeOK
    <3> HIDE DEF after, known
    <3>4. TypeOK' BY <1>3, <1>7, <2>1, <3>3 DEF TypeOK
    <3>5. AutoOnDisk' BY <2>1, <3>2 DEF AutoOnDisk
    <3>6. Extends' BY <1>4, <2>1, <3>1, <3>2 DEF Extends
    <3> QED BY <1>4, <3>1, <3>2, <3>4, <3>5, <3>6 DEF IInv
  <2>3. CASE ~SaveDue(d, r, c, known)
    <3>1. UNCHANGED <<dirty, autoFile>> BY <2>1, <2>3
    <3>2. ~dirty => after = known
      BY <1>5, <1>6, <2>3 DEF SaveDue
    <3> HIDE DEF after, known
    <3>3. TypeOK' BY <1>1, <1>3, <1>7, <2>1, <3>1 DEF TypeOK
    <3>4. AutoOnDisk' BY <1>2, <2>1, <3>1, <3>2 DEF AutoOnDisk
    <3>5. Extends' BY <1>3, <1>4, <2>1, <3>1 DEF Extends
    <3> QED BY <3>1, <3>3, <3>4, <3>5 DEF IInv
  <2> QED BY <2>2, <2>3
<1> QED BY <1>8, <1>9

LEMMA NextKeeps ==
    ASSUME IInv, [Next]_vars
    PROVE  IInv' /\ (\A e \in Device, b \in Serial :
                        autoFile[e][b] # NoSlot => autoFile'[e][b] = autoFile[e][b])
<1>1. CASE Restart
  BY <1>1 DEF Restart, IInv, TypeOK, AutoOnDisk, Extends
<1>2. CASE Killed
  BY <1>2 DEF Killed, IInv, TypeOK, AutoOnDisk, Extends
<1>3. CASE \E d \in Device, r \in Report, rm, ra, ok \in BOOLEAN : Packet(d, r, rm, ra, ok)
  BY <1>3, PacketKeeps
<1>4. CASE \E d \in Device, c \in Picks : SaveChoice(d, c)
  <2>1. manualFile' \in [Device -> Choice]
    BY <1>4, PicksAssumption DEF SaveChoice, IInv, TypeOK
  <2> QED BY <1>4, <2>1 DEF SaveChoice, IInv, TypeOK, AutoOnDisk, Extends
<1>5. CASE UNCHANGED vars
  BY <1>5 DEF vars, IInv, TypeOK, AutoOnDisk, Extends
<1> QED BY <1>1, <1>2, <1>3, <1>4, <1>5 DEF Next

-----------------------------------------------------------------------------
\* The invariant behind the others: types, maps on disk or dirty, and what the file
\* has is what the process goes on with, for every packet, choice, failed read or
\* save, kill and restart.
THEOREM InductiveInvariant == Spec => []IInv
<1>1. Init => IInv BY InitIInv
<1>2. IInv /\ [Next]_vars => IInv' BY NextKeeps
<1> QED BY <1>1, <1>2, PTL DEF Spec

\* No two batteries are ever assigned the same slot, in memory or in the file, and
\* choices stay ones that can be accepted.
THEOREM TypeCorrect == Spec => []TypeOK
<1>1. IInv => TypeOK BY DEF IInv
<1> QED BY <1>1, InductiveInvariant, PTL

\* What was assigned is in battery_positions.json or will be saved again.
THEOREM AutoIsOnDisk == Spec => []AutoOnDisk
<1>1. IInv => AutoOnDisk BY DEF IInv
<1> QED BY <1>1, InductiveInvariant, PTL

\* A battery's slot is never changed in battery_positions.json: not by a file that
\* cannot be read, a failed save, or a kill.
THEOREM HistoryIsKept == Spec => HistoryKept
<1>1. IInv /\ [Next]_vars => [\A d \in Device, b \in Serial :
                                autoFile[d][b] # NoSlot => autoFile'[d][b] = autoFile[d][b]]_vars
  BY NextKeeps
<1> QED BY <1>1, InductiveInvariant, PTL DEF Spec, HistoryKept

\* Values of two physical slots are shown at one logical slot only where both report
\* the battery the user chose for it (battery_position.py:504, :585), whatever is reported.
THEOREM OneSourceHolds == Spec => []OneSource
<1>1. ASSUME TypeOK PROVE OneSource
  <2> SUFFICES ASSUME NEW d \in Device, NEW r \in Report,
                      NEW c \in NextChoice(d), NEW known \in NextKnown, NEW l \in Slot,
                      NEW p \in Shown(l, r, c, NextPlaced(d, r, c, known)),
                      NEW q \in Shown(l, r, c, NextPlaced(d, r, c, known))
               PROVE  p = q \/ (c[l] = r[p] /\ c[l] = r[q])
    BY DEF OneSource
  <2>1. c \in Choice BY <1>1, Found
  <2>2. PlacesOK(r, c, NextPlaced(d, r, c, known)) BY <2>1, PlacedOK DEF NextPlaced
  <2>3. NoSlot \notin Slot BY DEF NoSlot, Slot
  <2> QED BY <2>2, <2>3 DEF PlacesOK, Shown, Unused
<1> QED BY <1>1, TypeCorrect, PTL

\* A slot the user gave to a battery shows that battery, and one the user emptied
\* shows nothing.
THEOREM ChoiceAlwaysWins == Spec => []ChoiceWins
<1>1. ASSUME TypeOK PROVE ChoiceWins
  <2> SUFFICES ASSUME NEW d \in Device, NEW r \in Report,
                      NEW c \in NextChoice(d), NEW known \in NextKnown, NEW l \in Reserved(c)
               PROVE  Shown(l, r, c, NextPlaced(d, r, c, known)) = {p \in Slot : r[p] = c[l]}
    BY DEF ChoiceWins
  <2> DEFINE at == NextPlaced(d, r, c, known)
  <2>1. c \in Choice BY <1>1, Found
  <2>2. PlacesOK(r, c, at) BY <2>1, PlacedOK DEF NextPlaced
  <2> HIDE DEF at
  <2>3. l \in Slot /\ l \notin Unused(c, at) BY DEF Reserved, Unused
  <2>4. Shown(l, r, c, at) = {p \in Slot : at[p] = l} BY <2>3 DEF Shown
  <2>5. c[l] # NoSerial
    BY <2>1, <2>3, SerialAssumption DEF Choice, NoSerial, AutoAssignment, EmptyAssignment
  <2>6. \A p \in Slot : at[p] = l <=> r[p] = c[l] BY <2>2, <2>3, <2>5 DEF PlacesOK
  <2> QED BY <2>4, <2>6 DEF at
<1> QED BY <1>1, TypeCorrect, PTL

\* Batteries that have stable slots, and are reported once each, are shown there
\* (battery_position.py:412).
THEOREM SlotsAreKept == Spec => []KeepsSlot
<1>1. ASSUME TypeOK PROVE KeepsSlot
  <2> SUFFICES ASSUME NEW d \in Device, NEW r \in Report, OnceEach(r),
                      NEW known \in NextKnown, Stable(known),
                      \A p \in Slot : r[p] # NoSerial => NextMap(d, r, known)[r[p]] # NoSlot
               PROVE  \A p \in Slot : r[p] # NoSerial =>
                          NextPlaced(d, r, AllAuto, known)[p] = NextMap(d, r, known)[r[p]]
    BY DEF KeepsSlot
  <2> DEFINE m == NextMap(d, r, known)
  <2>1. known \in [Device -> Mapping] BY <1>1, Found DEF Stable
  <2>2. m \in Mapping BY <2>1, AssignedKeeps DEF NextMap
  <2>3. Stable(known) = TRUE BY DEF Stable
  <2>4. NextPlaced(d, r, AllAuto, known) = Placed(r, m, AllAuto, TRUE)
    BY <2>3 DEF NextPlaced
  <2> HIDE DEF m
  <2>5. \A p \in Slot : r[p] # NoSerial => Placed(r, m, AllAuto, TRUE)[p] = m[r[p]]
    BY <2>2, KeepsAll DEF m
  <2> QED BY <2>4, <2>5 DEF m
<1> QED BY <1>1, TypeCorrect, PTL

-----------------------------------------------------------------------------
(* The page's server and the options it saves.                             *)

Sleepers == {r \in Request : request[r] = "sleeping"}

\* Tokens and promises are counted by the threads that hold them.
Counted ==
    /\ IsFiniteSet(Threads)
    /\ free + Cardinality(Threads) = Slots
    /\ promised = timers + Cardinality(Sleepers)

\* Who reads or writes options has the lock.
Locked ==
    \A r \in Request :
        /\ request[r] \in {"reading", "writing"} => lock = r
        /\ request[r] = "writing" => seen[r] \in Options

WebInv == WebTypeOK /\ Counted /\ Locked /\ SavesDoNotMeet

\* Those at work in a given stage, after one of them goes on
LEMMA Going ==
    ASSUME request \in [Request -> Stage], NEW r \in Request, NEW stage \in Stage,
           Goes(r, stage)
    PROVE  /\ request' \in [Request -> Stage] /\ request'[r] = stage
           /\ \A e \in Request \ {r} : request'[e] = request[e]
           /\ Threads' = IF stage = "none" THEN Threads \ {r} ELSE Threads \cup {r}
           /\ Sleepers' = IF stage = "sleeping" THEN Sleepers \cup {r} ELSE Sleepers \ {r}
<1>1. /\ request' \in [Request -> Stage] /\ request'[r] = stage
      /\ \A e \in Request \ {r} : request'[e] = request[e]
  BY DEF Goes
<1>2. Threads' = IF stage = "none" THEN Threads \ {r} ELSE Threads \cup {r}
  BY <1>1 DEF Threads
<1>3. Sleepers' = IF stage = "sleeping" THEN Sleepers \cup {r} ELSE Sleepers \ {r}
  BY <1>1 DEF Sleepers
<1> QED
  BY <1>1, <1>2, <1>3

\* How many they are
LEMMA Counting ==
    ASSUME WebTypeOK, Counted
    PROVE  /\ Cardinality(Threads) \in Nat /\ Cardinality(Sleepers) \in Nat
           /\ IsFiniteSet(Sleepers)
           /\ \A r \in Request :
                /\ IsFiniteSet(Threads \ {r}) /\ IsFiniteSet(Threads \cup {r})
                /\ Cardinality(Threads \ {r}) =
                     IF r \in Threads THEN Cardinality(Threads) - 1 ELSE Cardinality(Threads)
                /\ Cardinality(Threads \cup {r}) =
                     IF r \in Threads THEN Cardinality(Threads) ELSE Cardinality(Threads) + 1
                /\ Cardinality(Sleepers \ {r}) =
                     IF r \in Sleepers THEN Cardinality(Sleepers) - 1 ELSE Cardinality(Sleepers)
                /\ Cardinality(Sleepers \cup {r}) =
                     IF r \in Sleepers THEN Cardinality(Sleepers) ELSE Cardinality(Sleepers) + 1
<1>1. IsFiniteSet(Threads) /\ Sleepers \in SUBSET Threads
  BY DEF Counted, Sleepers, Threads
<1>2. IsFiniteSet(Sleepers)
  BY <1>1, FS_Subset
<1>3. Cardinality(Threads) \in Nat /\ Cardinality(Sleepers) \in Nat
  BY <1>1, <1>2, FS_CardinalityType
<1>4. ASSUME NEW r \in Request
      PROVE  /\ IsFiniteSet(Threads \ {r}) /\ IsFiniteSet(Threads \cup {r})
             /\ Cardinality(Threads \ {r}) =
                  IF r \in Threads THEN Cardinality(Threads) - 1 ELSE Cardinality(Threads)
             /\ Cardinality(Threads \cup {r}) =
                  IF r \in Threads THEN Cardinality(Threads) ELSE Cardinality(Threads) + 1
  BY <1>1, FS_RemoveElement, FS_AddElement
<1>5. ASSUME NEW r \in Request
      PROVE  /\ Cardinality(Sleepers \ {r}) =
                  IF r \in Sleepers THEN Cardinality(Sleepers) - 1 ELSE Cardinality(Sleepers)
             /\ Cardinality(Sleepers \cup {r}) =
                  IF r \in Sleepers THEN Cardinality(Sleepers) ELSE Cardinality(Sleepers) + 1
  BY <1>2, FS_RemoveElement, FS_AddElement
<1> QED
  BY <1>2, <1>3, <1>4, <1>5

\* A thread that goes on keeps its token.
LEMMA GoesCounted ==
    ASSUME WebTypeOK, Counted, NEW r \in Request, request[r] # "none",
           NEW stage \in Stage \ {"none"}, Goes(r, stage),
           UNCHANGED free,
           promised' - timers' = promised - timers
             + (IF stage = "sleeping" THEN 1 ELSE 0) - (IF request[r] = "sleeping" THEN 1 ELSE 0),
           promised' \in Int, timers' \in Nat
    PROVE  Counted'
<1>1. /\ Threads' = Threads \cup {r} /\ r \in Threads
      /\ Sleepers' = IF stage = "sleeping" THEN Sleepers \cup {r} ELSE Sleepers \ {r}
      /\ r \in Sleepers <=> request[r] = "sleeping"
  BY Going DEF WebTypeOK, Threads, Sleepers
<1>2. Threads' = Threads
  BY <1>1
<1>3. Cardinality(Sleepers') = Cardinality(Sleepers)
             + (IF stage = "sleeping" THEN 1 ELSE 0) - (IF request[r] = "sleeping" THEN 1 ELSE 0)
  <2>1. /\ Cardinality(Sleepers) \in Nat
        /\ Cardinality(Sleepers \ {r}) =
             IF r \in Sleepers THEN Cardinality(Sleepers) - 1 ELSE Cardinality(Sleepers)
        /\ Cardinality(Sleepers \cup {r}) =
             IF r \in Sleepers THEN Cardinality(Sleepers) ELSE Cardinality(Sleepers) + 1
    BY Counting
  <2>2. CASE stage = "sleeping"
    BY <1>1, <2>1, <2>2
  <2>3. CASE stage # "sleeping"
    BY <1>1, <2>1, <2>3
  <2> QED
    BY <2>2, <2>3
<1>4. promised = timers + Cardinality(Sleepers) /\ promised \in Nat /\ timers \in Nat
      /\ Cardinality(Sleepers) \in Nat
  BY Counting DEF Counted, WebTypeOK
<1>5. promised' = timers' + Cardinality(Sleepers')
  BY <1>3, <1>4
<1> QED
  BY <1>2, <1>5 DEF Counted

\* A thread that ends gives it back.
LEMMA EndsCounted ==
    ASSUME WebTypeOK, Counted, NEW r \in Request, request[r] # "none", Ends(r),
           promised' - timers' = promised - timers - (IF request[r] = "sleeping" THEN 1 ELSE 0),
           promised' \in Int, timers' \in Nat
    PROVE  Counted' /\ free' \in 0..Slots
<1>1. /\ Threads' = Threads \ {r} /\ r \in Threads /\ Sleepers' = Sleepers \ {r}
      /\ r \in Sleepers <=> request[r] = "sleeping"
  BY Going DEF WebTypeOK, Threads, Sleepers, Ends, Stage
<1>2. /\ Cardinality(Threads') = Cardinality(Threads) - 1 /\ IsFiniteSet(Threads')
      /\ Cardinality(Threads') \in Nat
  <2>1. Cardinality(Threads') = Cardinality(Threads) - 1 /\ IsFiniteSet(Threads')
    BY <1>1, Counting
  <2> QED
    BY <2>1, FS_CardinalityType
<1>3. Cardinality(Sleepers') = Cardinality(Sleepers) - (IF request[r] = "sleeping" THEN 1 ELSE 0)
  <2>1. /\ Cardinality(Sleepers) \in Nat
        /\ Cardinality(Sleepers \ {r}) =
             IF r \in Sleepers THEN Cardinality(Sleepers) - 1 ELSE Cardinality(Sleepers)
        /\ Cardinality(Sleepers \cup {r}) =
             IF r \in Sleepers THEN Cardinality(Sleepers) ELSE Cardinality(Sleepers) + 1
    BY Counting
  <2> QED
    BY <1>1, <2>1
<1>4. promised = timers + Cardinality(Sleepers) /\ promised \in Nat /\ timers \in Nat
      /\ Cardinality(Sleepers) \in Nat /\ Cardinality(Threads) \in Nat
      /\ free + Cardinality(Threads) = Slots /\ free \in Nat /\ Slots \in Nat
  BY Counting, RequestAssumption DEF Counted, WebTypeOK
<1>5. promised' = timers' + Cardinality(Sleepers')
  BY <1>3, <1>4
<1>6. free' = free + 1
  BY DEF Ends
<1>7. free' + Cardinality(Threads') = Slots /\ free' \in 0..Slots
  BY <1>2, <1>4, <1>6
<1> QED
  BY <1>2, <1>5, <1>7 DEF Counted

\* Steps of a thread that touch neither the lock nor options
LEMMA OptionsRest ==
    ASSUME WebInv, NEW r \in Request, NEW stage \in Stage \ {"reading", "writing"},
           Goes(r, stage), UNCHANGED <<seen, foreign, lock, stored>>
    PROVE  Locked' /\ SavesDoNotMeet'
<1>1. /\ request'[r] = stage /\ \A e \in Request \ {r} : request'[e] = request[e]
  BY Going DEF WebInv, WebTypeOK
<1> QED
  BY <1>1 DEF WebInv, Locked, SavesDoNotMeet, Options

LEMMA ConnectsKeeps ==
    ASSUME WebInv, NEW r \in Request, Connects(r) PROVE WebInv'
<1>1. /\ request[r] = "none" /\ free > 0 /\ free' = free - 1 /\ Goes(r, "headers")
      /\ UNCHANGED <<late, readVars, lock, stored, restartVars>>
  BY DEF Connects
<1>2. /\ request' \in [Request -> Stage] /\ Threads' = Threads \cup {r}
      /\ Sleepers' = Sleepers \ {r} /\ r \notin Threads /\ r \notin Sleepers
  <2>1. "headers" \in Stage
    BY DEF Stage
  <2> QED
    BY <1>1, <2>1, Going DEF WebInv, WebTypeOK, Threads, Sleepers
<1>3. /\ IsFiniteSet(Threads') /\ Cardinality(Threads') = Cardinality(Threads) + 1
      /\ Cardinality(Threads) \in Nat
  BY <1>2, Counting DEF WebInv
<1>4. Sleepers' = Sleepers
  BY <1>2
<1>5. free \in Nat /\ Slots \in Nat /\ free <= Slots
  BY RequestAssumption DEF WebInv, WebTypeOK
<1>6. Counted' /\ free' \in 0..Slots
  BY <1>1, <1>3, <1>4, <1>5 DEF WebInv, Counted, restartVars
<1>7. Locked' /\ SavesDoNotMeet'
  BY <1>1, OptionsRest DEF readVars, Stage
<1>8. WebTypeOK'
  BY <1>1, <1>2, <1>6 DEF WebInv, WebTypeOK, readVars, restartVars, Options
<1> QED
  BY <1>6, <1>7, <1>8 DEF WebInv

\* A thread ends, with or without a promise of a restart.
LEMMA EndsKeeps ==
    ASSUME WebInv, NEW r \in Request, request[r] # "none", Ends(r),
           late' \in [Request -> BOOLEAN], UNCHANGED <<readVars, lock, stored>>,
           promised' - timers' = promised - timers - (IF request[r] = "sleeping" THEN 1 ELSE 0),
           promised' \in Nat, timers' \in Nat
    PROVE  WebInv'
<1>1. Counted' /\ free' \in 0..Slots
  BY EndsCounted DEF WebInv
<1>2. Goes(r, "none") /\ "none" \in Stage \ {"reading", "writing"}
  BY DEF Ends, Stage
<1>3. Locked' /\ SavesDoNotMeet'
  BY <1>2, OptionsRest DEF readVars
<1>4. request' \in [Request -> Stage]
  BY <1>2, Going DEF WebInv, WebTypeOK
<1>5. WebTypeOK'
  BY <1>1, <1>4 DEF WebInv, WebTypeOK, readVars, Options
<1> QED
  BY <1>1, <1>3, <1>5 DEF WebInv

\* A thread goes on to a stage without the lock.
LEMMA GoesKeeps ==
    ASSUME WebInv, NEW r \in Request, request[r] \notin {"none", "sleeping"},
           NEW stage \in Stage \ {"none", "reading", "writing", "sleeping"}, Goes(r, stage),
           late' \in [Request -> BOOLEAN],
           change' \in [Request -> Change \cup {NoOptions}],
           UNCHANGED <<seen, foreign, free, lock, stored, restartVars>>
    PROVE  WebInv'
<1>1. Locked' /\ SavesDoNotMeet'
  BY OptionsRest
<1>2. Counted'
  <2>1. promised \in Int /\ timers \in Nat
    BY DEF WebInv, WebTypeOK
  <2> QED
    BY <2>1, GoesCounted DEF WebInv, restartVars
<1>3. request' \in [Request -> Stage]
  BY Going DEF WebInv, WebTypeOK
<1>4. WebTypeOK'
  BY <1>3 DEF WebInv, WebTypeOK, restartVars, Options
<1> QED
  BY <1>1, <1>2, <1>4 DEF WebInv

LEMMA ReadingKeeps ==
    ASSUME WebInv, NEW r \in Request,
           HeadersRead(r) \/ BodyRead(r) \/ PageFetched(r) \/ GivenUp(r) \/ Answered(r)
    PROVE  WebInv'
<1>1. /\ late \in [Request -> BOOLEAN] /\ [late EXCEPT ![r] = FALSE] \in [Request -> BOOLEAN]
      /\ change \in [Request -> Change \cup {NoOptions}]
      /\ promised \in Nat /\ timers \in Nat
  BY DEF WebInv, WebTypeOK
<1>2. CASE HeadersRead(r)
  <2>1. PICK stage \in {"body", "page", "answering"} : Goes(r, stage)
    BY <1>2 DEF HeadersRead
  <2> QED
    BY <1>1, <1>2, <2>1, GoesKeeps DEF HeadersRead, readVars, Stage
<1>3. CASE BodyRead(r)
  <2>1. PICK stage \in {"locking", "answering"} : Goes(r, stage)
    BY <1>3 DEF BodyRead
  <2>2. change' \in [Request -> Change \cup {NoOptions}]
    <3>1. ASSUME NEW c \in Change, change' = [change EXCEPT ![r] = c]
          PROVE  change' \in [Request -> Change \cup {NoOptions}]
      BY <1>1, <3>1
    <3> QED
      BY <1>1, <1>3, <3>1 DEF BodyRead
  <2> QED
    BY <1>1, <1>3, <2>1, <2>2, GoesKeeps DEF BodyRead, Stage
<1>4. CASE PageFetched(r)
  BY <1>1, <1>4, GoesKeeps DEF PageFetched, readVars, Stage
<1>5. CASE Answered(r)
  BY <1>1, <1>5, EndsKeeps DEF Answered, restartVars
<1>6. CASE GivenUp(r)
  <2>1. CASE request[r] = "headers"
    BY <1>1, <1>6, <2>1, EndsKeeps DEF GivenUp, restartVars
  <2>2. CASE request[r] # "headers"
    BY <1>1, <1>6, <2>2, GoesKeeps DEF GivenUp, readVars, Stage
  <2> QED
    BY <2>1, <2>2
<1> QED
  BY <1>2, <1>3, <1>4, <1>5, <1>6

\* Saves exclude each other.
LEMMA SavingKeeps ==
    ASSUME WebInv, NEW r \in Request,
           Locks(r) \/ OptionsRead(r) \/ ReadFails(r) \/ OptionsWritten(r)
    PROVE  WebInv'
<1> USE DEF WebInv
<1>1. /\ WebTypeOK /\ request \in [Request -> Stage]
      /\ seen \in [Request -> Options \cup {NoOptions}]
      /\ change \in [Request -> Change \cup {NoOptions}] /\ foreign \in [Request -> SUBSET Option]
      /\ stored \in Options /\ promised \in Int /\ timers \in Nat
      /\ request[r] \notin {"none", "sleeping"}
      /\ UNCHANGED <<late, free, restartVars>>
  BY DEF WebTypeOK, Locks, OptionsRead, ReadFails, OptionsWritten
<1>2. ASSUME NEW stage \in {"reading", "writing", "answering", "confirming"}, Goes(r, stage)
      PROVE  /\ Counted' /\ request' \in [Request -> Stage] /\ request'[r] = stage
             /\ \A e \in Request \ {r} : request'[e] = request[e]
  <2>1. stage \in Stage \ {"none"} /\ stage # "sleeping"
    BY DEF Stage
  <2> QED
    BY <1>1, <1>2, <2>1, GoesCounted, Going DEF restartVars
<1>3. \A e \in Request \ {r} : lock \in {NoOne, r} => request[e] \notin {"reading", "writing"}
  BY RequestAssumption DEF Locked
<1>4. CASE Locks(r)
  <2>1. lock = NoOne /\ lock' = r /\ Goes(r, "reading") /\ UNCHANGED <<readVars, stored>>
    BY <1>4 DEF Locks, Lockable
  <2>2. /\ Counted' /\ request' \in [Request -> Stage] /\ request'[r] = "reading"
        /\ \A e \in Request \ {r} : request'[e] = request[e]
    BY <1>2, <2>1
  <2>3. WebTypeOK'
    BY <1>1, <2>1, <2>2 DEF WebTypeOK, readVars, restartVars, Options
  <2>4. Locked' /\ SavesDoNotMeet'
    BY <1>3, <2>1, <2>2 DEF Locked, SavesDoNotMeet, readVars
  <2> QED
    BY <2>2, <2>3, <2>4
<1>5. CASE OptionsRead(r)
  <2>1. /\ request[r] = "reading" /\ seen' = [seen EXCEPT ![r] = stored]
        /\ Goes(r, "writing") /\ UNCHANGED <<change, foreign, lock, stored>>
    BY <1>5 DEF OptionsRead
  <2>2. /\ Counted' /\ request' \in [Request -> Stage] /\ request'[r] = "writing"
        /\ \A e \in Request \ {r} : request'[e] = request[e]
    BY <1>2, <2>1
  <2>3. /\ seen' \in [Request -> Options \cup {NoOptions}] /\ seen'[r] = stored
        /\ \A e \in Request \ {r} : seen'[e] = seen[e]
    BY <1>1, <2>1
  <2>4. WebTypeOK'
    BY <1>1, <2>1, <2>2, <2>3 DEF WebTypeOK, restartVars, Options
  <2>5. lock = r
    BY <2>1 DEF Locked
  <2>6. Locked' /\ SavesDoNotMeet'
    BY <1>1, <1>3, <2>1, <2>2, <2>3, <2>5 DEF Locked, SavesDoNotMeet, Options
  <2> QED
    BY <2>2, <2>4, <2>6
<1>6. CASE ReadFails(r) \/ OptionsWritten(r)
  <2>1. PICK stage \in {"answering", "confirming"} : Leaves(r, stage)
    BY <1>6 DEF ReadFails, OptionsWritten
  <2>2. /\ Counted' /\ request' \in [Request -> Stage] /\ request'[r] = stage
        /\ \A e \in Request \ {r} : request'[e] = request[e]
    BY <1>2, <2>1 DEF Leaves
  <2>3. lock = r /\ lock' = NoOne
    BY <1>6, <2>1 DEF ReadFails, OptionsWritten, Locked, Leaves
  <2>4. stored' \in Options
    <3>1. CASE stored' = stored
      BY <1>1, <3>1
    <3>2. CASE request[r] = "writing" /\ stored' = Merged(seen[r], change[r])
      <4>1. seen[r] \in Options /\ change[r] \in Change \cup {NoOptions}
        BY <1>1, <3>2 DEF Locked
      <4>2. \A o \in DOMAIN change[r] : change[r][o] \in Value
        BY <4>1, OptionAssumption DEF NoOptions
      <4> QED
        BY <3>2, <4>1, <4>2 DEF Merged, Options
    <3> QED
      BY <1>6, <3>1, <3>2 DEF ReadFails, OptionsWritten
  <2>5. /\ seen' \in [Request -> Options \cup {NoOptions}]
        /\ change' \in [Request -> Change \cup {NoOptions}]
        /\ foreign' \in [Request -> SUBSET Option]
    BY <1>1, <2>1 DEF Leaves
  <2>6. WebTypeOK'
    BY <1>1, <2>2, <2>3, <2>4, <2>5 DEF WebTypeOK, restartVars, Options
  <2>7. \A e \in Request : request'[e] \notin {"reading", "writing"}
    BY <1>3, <2>2, <2>3
  <2>8. Locked' /\ SavesDoNotMeet'
    BY <2>7 DEF Locked, SavesDoNotMeet
  <2> QED
    BY <2>2, <2>6, <2>8
<1> QED
  BY <1>4, <1>5, <1>6

\* A restart is promised, and its thread started or not.
LEMMA ConfirmedKeeps ==
    ASSUME WebInv, NEW r \in Request, Confirmed(r) PROVE WebInv'
<1>1. /\ request[r] = "confirming" /\ UNCHANGED <<late, readVars, lock, stored>>
      /\ late \in [Request -> BOOLEAN] /\ promised \in Nat /\ timers \in Nat /\ WebTypeOK
  BY DEF Confirmed, WebInv, WebTypeOK
<1>2. CASE Ends(r) /\ UNCHANGED restartVars
  BY <1>1, <1>2, EndsKeeps DEF restartVars
<1>3. CASE Ends(r) /\ promised' = promised + 1 /\ timers' = timers + 1
  BY <1>1, <1>3, EndsKeeps
<1>4. CASE Goes(r, "sleeping") /\ promised' = promised + 1 /\ UNCHANGED <<free, timers>>
  <2>1. "sleeping" \in Stage \ {"none", "reading", "writing"}
    BY DEF Stage
  <2>2. Counted'
    BY <1>1, <1>4, <2>1, GoesCounted DEF WebInv
  <2>3. Locked' /\ SavesDoNotMeet'
    BY <1>1, <1>4, <2>1, OptionsRest DEF readVars
  <2>4. request' \in [Request -> Stage]
    BY <1>4, <2>1, Going DEF WebInv, WebTypeOK
  <2>5. WebTypeOK'
    BY <1>1, <1>4, <2>4 DEF WebTypeOK, readVars, Options
  <2> QED
    BY <2>2, <2>3, <2>5 DEF WebInv
<1> QED
  BY <1>1, <1>2, <1>3, <1>4 DEF Confirmed, Scheduled

LEMMA RefusedKeeps ==
    ASSUME WebInv, TimerRefused \/ \E r \in Request : SleeperRefused(r) PROVE WebInv'
<1>1. /\ promised = timers + Cardinality(Sleepers) /\ Cardinality(Sleepers) \in Nat
      /\ promised \in Nat /\ timers \in Nat /\ late \in [Request -> BOOLEAN]
  BY Counting DEF WebInv, Counted, WebTypeOK
<1>2. CASE TimerRefused
  <2>1. /\ timers' \in Nat /\ promised' = timers' + Cardinality(Sleepers) /\ promised' \in Nat
        /\ UNCHANGED <<request, late, readVars, free, lock, stored>>
    BY <1>1, <1>2 DEF TimerRefused
  <2>2. Threads' = Threads /\ Sleepers' = Sleepers
    BY <2>1 DEF Threads, Sleepers
  <2> QED
    BY <2>1, <2>2 DEF WebInv, Counted, Locked, SavesDoNotMeet, WebTypeOK, readVars, Options
<1>3. ASSUME NEW r \in Request, SleeperRefused(r) PROVE WebInv'
  <2>1. /\ request[r] = "sleeping" /\ Ends(r) /\ promised' = promised - 1
        /\ UNCHANGED <<late, readVars, lock, stored, timers>>
    BY <1>3 DEF SleeperRefused
  <2>2. Sleepers # {} /\ IsFiniteSet(Sleepers)
    BY <2>1, Counting DEF WebInv, Sleepers
  <2>3. Cardinality(Sleepers) # 0
    BY <2>2, FS_EmptySet
  <2>4. promised' \in Nat
    BY <1>1, <2>1, <2>3
  <2> QED
    BY <1>1, <2>1, <2>4, EndsKeeps
<1> QED
  BY <1>2, <1>3

\* The Supervisor ends the process, or its page sets an option.
LEMMA SupervisorKeeps ==
    ASSUME WebInv, Restarts \/ \E o \in Option \ Retired, v \in Value : SupervisorSets(o, v)
    PROVE  WebInv'
<1>1. CASE Restarts
  <2>1. /\ \A r \in Request : request'[r] = "none"
        /\ free' = Slots /\ lock' = NoOne
        /\ timers' = 0 /\ promised' = 0 /\ stored' = stored
    BY <1>1 DEF Restarts
  <2>2. Threads' = {} /\ Sleepers' = {}
    BY <2>1 DEF Threads, Sleepers
  <2>3. Counted'
    <3>1. IsFiniteSet(Threads') /\ Cardinality(Threads') = 0 /\ Cardinality(Sleepers') = 0
      BY <2>2, FS_EmptySet
    <3> QED
      BY <2>1, <3>1, RequestAssumption DEF Counted
  <2>4. WebTypeOK'
    BY <1>1, RequestAssumption DEF Restarts, WebInv, WebTypeOK, Stage, Options
  <2>5. Locked' /\ SavesDoNotMeet'
    BY <2>1 DEF Locked, SavesDoNotMeet
  <2> QED
    BY <2>3, <2>4, <2>5 DEF WebInv
<1>2. ASSUME NEW o \in Option \ Retired, NEW v \in Value, SupervisorSets(o, v) PROVE WebInv'
  <2>1. /\ stored' = [stored EXCEPT ![o] = v]
        /\ foreign' = [r \in Request |-> IF request[r] = "writing" THEN foreign[r] \cup {o}
                                         ELSE foreign[r]]
        /\ UNCHANGED <<request, late, change, seen, free, lock, timers, promised>>
        /\ stored \in [Option -> Value \cup {Absent}] /\ foreign \in [Request -> SUBSET Option]
    BY <1>2 DEF SupervisorSets, restartVars, WebInv, WebTypeOK, Options
  <2>2. stored' \in [Option -> Value \cup {Absent}]
    BY <2>1
  <2>3. foreign' \in [Request -> SUBSET Option]
    BY <2>1
  <2>4. WebTypeOK'
    BY <2>1, <2>2, <2>3 DEF WebInv, WebTypeOK, Options
  <2>5. Counted' /\ Locked'
    BY <2>1 DEF WebInv, Counted, Locked, Threads, Sleepers, Options
  <2>6. ASSUME NEW r \in Request, request'[r] = "writing", NEW p \in Option \ foreign'[r]
        PROVE  seen'[r][p] = stored'[p]
    <3>1. request[r] = "writing" /\ p \in Option \ foreign[r] /\ p # o
      BY <2>1, <2>6
    <3> QED
      BY <2>1, <3>1 DEF WebInv, SavesDoNotMeet
  <2> QED
    BY <2>4, <2>5, <2>6 DEF WebInv, SavesDoNotMeet
<1> QED
  BY <1>1, <1>2

-----------------------------------------------------------------------------
LEMMA WebInitial == InitWeb => WebInv
<1> SUFFICES ASSUME InitWeb PROVE WebInv
  OBVIOUS
<1>1. \A r \in Request : request[r] = "none"
  BY DEF InitWeb
<1>2. Threads = {} /\ Sleepers = {}
  BY <1>1 DEF Threads, Sleepers
<1>3. Counted
  BY <1>2, FS_EmptySet, RequestAssumption DEF InitWeb, Counted
<1>4. WebTypeOK
  BY RequestAssumption DEF InitWeb, WebTypeOK, Stage, Options
<1>5. Locked /\ SavesDoNotMeet
  BY <1>1 DEF Locked, SavesDoNotMeet
<1> QED
  BY <1>3, <1>4, <1>5 DEF WebInv

LEMMA WebStep == WebInv /\ [NextWeb]_webVars => WebInv'
<1> SUFFICES ASSUME WebInv, [NextWeb]_webVars PROVE WebInv'
  OBVIOUS
<1>1. CASE UNCHANGED webVars
  BY <1>1 DEF webVars, WebInv, WebTypeOK, Counted, Locked, SavesDoNotMeet, Threads, Sleepers,
              Options
<1>2. ASSUME NEW r \in Request, Connects(r) PROVE WebInv'
  BY <1>2, ConnectsKeeps
<1>3. ASSUME NEW r \in Request, ThreadFails(r) \/ Trickles(r) PROVE WebInv'
  BY <1>1, <1>3 DEF ThreadFails, Trickles
<1>4. ASSUME NEW r \in Request, DeadlinePasses(r) PROVE WebInv'
  <2>1. /\ late' = [late EXCEPT ![r] = TRUE]
        /\ UNCHANGED <<request, change, seen, foreign, free, lock, stored, timers, promised>>
    BY <1>4 DEF DeadlinePasses, readVars, restartVars
  <2> QED
    BY <2>1 DEF WebInv, WebTypeOK, Counted, Locked, SavesDoNotMeet, Threads, Sleepers, Options
<1>5. ASSUME NEW r \in Request, TimesOut(r) \/ GivenUp(r) PROVE WebInv'
  BY <1>5, ReadingKeeps DEF TimesOut
<1>6. ASSUME NEW r \in Request, Serves(r) PROVE WebInv'
  BY <1>6, ReadingKeeps, SavingKeeps, ConfirmedKeeps, RefusedKeeps DEF Serves
<1>7. CASE TimerRefused
  BY <1>7, RefusedKeeps
<1>8. CASE Restarts \/ \E o \in Option \ Retired, v \in Value : SupervisorSets(o, v)
  BY <1>8, SupervisorKeeps
<1> QED
  BY <1>1, <1>2, <1>3, <1>4, <1>5, <1>6, <1>7, <1>8 DEF NextWeb

\* Tokens and promises are counted by threads, and only the holder of the lock saves.
THEOREM WebInvariant == WebSpec => []WebInv
<1> QED
  BY WebInitial, WebStep, PTL DEF WebSpec

\* No token of a request thread is lost or given twice (battery_ingress.py:1207), for any
\* limit and any connections.
THEOREM TokensComeBack == WebSpec => []SlotsHeld
<1>1. WebInv => SlotsHeld
  BY DEF WebInv, Counted, SlotsHeld
<1> QED
  BY <1>1, WebInvariant, PTL

\* Two saves do not undo each other (supervisor_config.py:337), for any options.
THEOREM SavesExclude == WebSpec => []SavesDoNotMeet
<1>1. WebInv => SavesDoNotMeet
  BY DEF WebInv
<1> QED
  BY <1>1, WebInvariant, PTL

\* Each promise of a restart has a thread that will ask for it (supervisor_config.py:371).
THEOREM PromisesAreKept == WebSpec => []PromiseKept
<1>1. WebInv => PromiseKept
  BY DEF WebInv, Counted, PromiseKept, Sleepers
<1> QED
  BY <1>1, WebInvariant, PTL
=============================================================================
