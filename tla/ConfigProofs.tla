---------------------------- MODULE ConfigProofs -----------------------------
(***************************************************************************)
(* Proofs about what is kept of the configuration of devices: the config   *)
(* files (DeviceConfigStore), the links of gateways (GatewayLink) and the  *)
(* config writes that are not acknowledged yet (ConfigWrites), for any     *)
(* field values, endpoints, devices, registers and limits.                 *)
(*                                                                         *)
(* Files.  A write of a config is saved when the snapshot equals what      *)
(* would be written, so the snapshot must be the file whenever its         *)
(* signature is (SnapIsFile); and nothing in the file is forgotten because *)
(* the cache, which is what gets written, covers it (CacheCovers).  Both   *)
(* this and that saved links survive rest on files that exist being        *)
(* readable.                                                               *)
(*                                                                         *)
(* Writes.  Which write an acknowledgement is for follows from an order:   *)
(* the pending writes of a device, those on their way to it and the        *)
(* acknowledgements on their way back are each in the order they were made,*)
(* and the write being made comes after all of them (Ordered).             *)
(***************************************************************************)
EXTENDS GatewayLink, ConfigWrites, SequenceTheorems, FiniteSetTheorems, TLAPS

-----------------------------------------------------------------------------
(* The config files.                                                       *)

SnapIsFile == current => snap # NoConfig /\ snap = disk

DirtyIsCached == dirty => up /\ cache # NoConfig

CacheCovers ==
    ~ReadsFail /\ up /\ disk # NoConfig => cache # NoConfig /\ Covers(disk, cache)

IInv == TypeOK /\ SnapIsFile /\ DirtyIsCached /\ CacheOnDisk /\ CacheCovers

Contents == Config \cup {NoConfig}

LEMMA NotConfig == NoConfig \notin Config /\ Torn \notin Config /\ Torn # NoConfig
BY DEF NoConfig, Torn, Config

\* What is read of a file is the file, or nothing when it cannot be read.
LEMMA LoadedType ==
    ASSUME IInv, NEW r \in ReadOutcome
    PROVE  /\ Parsed(r) \in {disk, NoConfig} /\ (~ReadsFail => Parsed(r) = disk)
           /\ Loaded(r) \in {disk, NoConfig} /\ (~ReadsFail => Loaded(r) = disk)
<1>1. ReadsFail \in BOOLEAN
  BY ReadsFailAssumption
<1>2. r \in BOOLEAN /\ (~ReadsFail => r)
  BY <1>1 DEF ReadOutcome
<1>3. disk # Torn
  BY NotConfig DEF IInv, TypeOK
<1> QED BY <1>2, <1>3 DEF Parsed, Loaded, IInv, SnapIsFile

\* Merging keeps what was known.
LEMMA MergedCovers ==
    ASSUME NEW old \in Contents, NEW new \in Config
    PROVE  /\ Merged(old, new) \in Config
           /\ old # NoConfig => Covers(old, Merged(old, new))
<1>1. CASE old = NoConfig
  BY <1>1 DEF Merged
<1>2. CASE old # NoConfig
  <2>1. old \in Config
    BY <1>2 DEF Contents
  <2>2. Later(old.kept, new.kept) \in Field /\ Later(old.vol, new.vol) \in Field
    BY <2>1 DEF Later, Config
  <2>3. (old.secret \/ new.secret) \in BOOLEAN
    BY <2>1 DEF Config
  <2>4. Merged(old, new) = [kept |-> Later(old.kept, new.kept), vol |-> Later(old.vol, new.vol),
                            secret |-> (old.secret \/ new.secret)]
    BY <1>2 DEF Merged
  <2> QED BY <2>2, <2>3, <2>4 DEF Config, Covers, Later
<1> QED BY <1>1, <1>2

\* Persisting a config that covers the file keeps the invariant.
LEMMA PersistKeeps ==
    ASSUME IInv, up, NEW c \in Config, NEW w \in WriteOutcome, NEW s \in Contents,
           NEW k \in BOOLEAN, Persist(c, w, s, k), k => s # NoConfig /\ s = disk,
           ~ReadsFail /\ disk # NoConfig => Covers(disk, c)
    PROVE  IInv' /\ (~ReadsFail /\ disk # NoConfig => disk' # NoConfig /\ Covers(disk, disk'))
<1>1. c # NoConfig
  BY NotConfig
<1>2. CASE w = "done"
  <2> DEFINE f == [c EXCEPT !.secret = FALSE]
  <2>1. f \in Config /\ f.kept = c.kept /\ f.vol = c.vol
    BY DEF Config
  <2>2. disk' = f
    BY <1>2 DEF Persist, Written
  <2> HIDE DEF f
  <2>3. f # NoConfig
    BY <2>1, NotConfig
  <2>4. up' = TRUE /\ cache' = c /\ dirty' = FALSE /\ snap' = s /\ current' = FALSE
    BY <1>2 DEF Persist, Failed
  <2>5. TypeOK'
    BY <2>1, <2>2, <2>4 DEF TypeOK, Contents
  <2>6. SnapIsFile' /\ DirtyIsCached' /\ CacheOnDisk' /\ CacheCovers'
    BY <2>1, <2>2, <2>3, <2>4, <1>1
       DEF SnapIsFile, DirtyIsCached, CacheOnDisk, CacheCovers, Covers
  <2> QED BY <2>1, <2>2, <2>3, <2>5, <2>6 DEF IInv, Covers
<1>3. CASE w = "failed"
  <2>1. up' = TRUE /\ cache' = c /\ dirty' = TRUE /\ snap' = s /\ current' = k /\ disk' = disk
    BY <1>3 DEF Persist, Failed, Written
  <2>2. TypeOK'
    BY <2>1 DEF IInv, TypeOK, Contents
  <2>3. SnapIsFile' /\ DirtyIsCached' /\ CacheOnDisk' /\ CacheCovers'
    BY <2>1, <1>1 DEF SnapIsFile, DirtyIsCached, CacheOnDisk, CacheCovers
  <2> QED BY <2>1, <2>2, <2>3 DEF IInv, Covers
<1>4. CASE w = "killed"
  <2>1. /\ up' = FALSE /\ cache' = NoConfig /\ dirty' = FALSE /\ snap' = NoConfig
        /\ current' = FALSE /\ disk' = disk
    BY <1>4 DEF Persist, Failed, Written
  <2> QED
    BY <2>1 DEF IInv, TypeOK, SnapIsFile, DirtyIsCached, CacheOnDisk, CacheCovers, Covers
<1> QED BY <1>2, <1>3, <1>4 DEF WriteOutcome

Kept == ~ReadsFail /\ disk # NoConfig => disk' # NoConfig /\ Covers(disk, disk')

LEMMA SetConfigKeeps ==
    ASSUME IInv, NEW c \in Config, NEW r \in ReadOutcome, NEW w \in WriteOutcome,
           SetConfig(c, r, w)
    PROVE  IInv' /\ Kept
<1> DEFINE existing == Loaded(r)
           previous == IF cache = NoConfig THEN existing ELSE cache
           effective == Effective(existing, c)
<1>1. up /\ existing \in {disk, NoConfig} /\ existing \in Contents
      /\ (~ReadsFail => existing = disk)
  BY LoadedType DEF SetConfig, IInv, TypeOK, Contents
<1>2. previous \in Contents
  BY <1>1 DEF IInv, TypeOK, Contents
<1>3. effective \in Config /\ (previous # NoConfig => Covers(previous, effective))
  BY <1>2, MergedCovers DEF Effective
<1>4. ~ReadsFail /\ disk # NoConfig => Covers(disk, effective)
  <2>1. ~ReadsFail /\ disk # NoConfig => previous # NoConfig /\ Covers(disk, previous)
    BY <1>1 DEF IInv, CacheCovers, Covers
  <2> HIDE DEF previous, effective
  <2> QED BY <2>1, <1>3 DEF Covers
<1> HIDE DEF existing, effective
<1>5. CASE WriteDue(existing, effective)
  <2>1. Persist(effective, w, existing, existing # NoConfig)
    BY <1>5 DEF SetConfig, existing, effective
  <2>2. (existing # NoConfig) \in BOOLEAN
    OBVIOUS
  <2>3. existing # NoConfig => existing = disk
    BY <1>1
  <2> QED BY <2>1, <2>2, <2>3, <1>1, <1>3, <1>4, PersistKeeps DEF Kept
<1>6. CASE ~WriteDue(existing, effective)
  <2>1. LoadedSnapshot(r) /\ cache' = effective /\ UNCHANGED <<up, dirty, disk>>
    BY <1>6 DEF SetConfig, existing, effective
  <2>2. existing # NoConfig /\ existing = disk /\ disk.kept = effective.kept
    BY <1>1, <1>6 DEF WriteDue
  <2>3. snap' = existing /\ current' = TRUE
    BY <2>1, <2>2 DEF LoadedSnapshot, existing
  <2>4. effective # NoConfig
    BY <1>3, NotConfig
  <2>5. TypeOK'
    BY <2>1, <2>3, <1>1, <1>3 DEF IInv, TypeOK, Contents
  <2>6. SnapIsFile' /\ DirtyIsCached' /\ CacheOnDisk' /\ CacheCovers'
    BY <2>1, <2>2, <2>3, <2>4, <1>1, <1>4
       DEF SnapIsFile, DirtyIsCached, CacheOnDisk, CacheCovers, IInv
  <2> QED BY <2>1, <2>5, <2>6 DEF IInv, Kept, Covers
<1> QED BY <1>5, <1>6

LEMMA TelemetryKeeps ==
    ASSUME IInv, NEW r \in ReadOutcome, NEW w \in WriteOutcome, Telemetry(r, w)
    PROVE  IInv' /\ Kept
<1>1. up /\ snap \in Contents /\ current \in BOOLEAN /\ (current => snap # NoConfig /\ snap = disk)
  BY DEF Telemetry, IInv, TypeOK, Contents, SnapIsFile
<1>2. CASE Retried(w)
  <2>1. cache \in Config
    BY <1>2 DEF Retried, IInv, TypeOK, DirtyIsCached
  <2>2. ~ReadsFail /\ disk # NoConfig => Covers(disk, cache)
    BY <1>1 DEF IInv, CacheCovers
  <2> QED BY <2>1, <2>2, <1>1, <1>2, PersistKeeps DEF Retried, Kept
<1>3. CASE ~dirty /\ cache = NoConfig /\ DeviceInfo(r, w)
  <2>1. Parsed(r) \in {disk, NoConfig} /\ (~ReadsFail => Parsed(r) = disk)
    BY LoadedType
  <2>2. CASE Parsed(r) # NoConfig
    <3>1. cache' = disk /\ disk # NoConfig /\ UNCHANGED <<up, dirty, snap, current, disk>>
      BY <1>3, <2>1, <2>2 DEF DeviceInfo
    <3> QED
      BY <3>1 DEF IInv, TypeOK, SnapIsFile, DirtyIsCached, CacheOnDisk, CacheCovers, Covers, Kept
  <2>3. CASE Parsed(r) = NoConfig
    <3>1. Persist(Minimal, w, snap, current)
      BY <1>3, <2>3 DEF DeviceInfo
    <3>2. Minimal \in Config
      BY DEF Minimal, Config, Field
    <3>3. ~(~ReadsFail /\ disk # NoConfig)
      BY <2>1, <2>3
    <3> QED BY <3>1, <3>2, <3>3, <1>1, PersistKeeps DEF Kept
  <2> QED BY <2>2, <2>3
<1> QED BY <1>2, <1>3 DEF Telemetry

LEMMA StepKeeps == IInv /\ [Next]_vars => IInv' /\ Kept
<1> SUFFICES ASSUME IInv, [Next]_vars PROVE IInv' /\ Kept
  OBVIOUS
<1>1. CASE Restart
  <2>1. PICK r \in ReadOutcome : cache' = Parsed(r)
    BY <1>1 DEF Restart
  <2>2. Parsed(r) \in {disk, NoConfig} /\ (~ReadsFail => Parsed(r) = disk)
    BY LoadedType
  <2> QED
    BY <1>1, <2>1, <2>2
       DEF Restart, IInv, TypeOK, SnapIsFile, DirtyIsCached, CacheOnDisk, CacheCovers, Covers, Kept
<1>2. CASE Killed
  BY <1>2 DEF Killed, IInv, TypeOK, SnapIsFile, DirtyIsCached, CacheOnDisk, CacheCovers, Covers, Kept
<1>3. ASSUME NEW c \in Config, NEW r \in ReadOutcome, NEW w \in WriteOutcome, SetConfig(c, r, w)
      PROVE  IInv' /\ Kept
  BY <1>3, SetConfigKeeps
<1>4. ASSUME NEW r \in ReadOutcome, NEW w \in WriteOutcome, Telemetry(r, w)
      PROVE  IInv' /\ Kept
  BY <1>4, TelemetryKeeps
<1>5. CASE UNCHANGED vars
  BY <1>5
     DEF vars, IInv, TypeOK, SnapIsFile, DirtyIsCached, CacheOnDisk, CacheCovers, Covers, Kept
<1> QED BY <1>1, <1>2, <1>3, <1>4, <1>5 DEF Next

-----------------------------------------------------------------------------
\* Typing, the snapshot that is the file, and the cache that covers it, are kept by
\* every handler, failed write and kill (config_runtime.py:88-132).
THEOREM InductiveInvariant == Spec => []IInv
<1>1. Init => IInv
  BY DEF Init, IInv, TypeOK, SnapIsFile, DirtyIsCached, CacheOnDisk, CacheCovers
<1> QED BY <1>1, StepKeeps, PTL DEF Spec

\* The state is typed; in particular a write that fails, or that the process does
\* not survive, leaves a file that parses (device_config.py:81).
THEOREM TypeCorrect == Spec => []TypeOK
<1>1. IInv => TypeOK
  BY DEF IInv
<1> QED BY <1>1, InductiveInvariant, PTL

\* Whatever the comparisons and the snapshot (client.py:307) saved, what the process
\* knows is in the file or will be retried, also when files may be unreadable.
THEOREM CacheIsOnDisk == Spec => []CacheOnDisk
<1>1. IInv => CacheOnDisk
  BY DEF IInv
<1> QED BY <1>1, InductiveInvariant, PTL

\* As long as files that exist can be read, nothing a device once told is forgotten
\* (config_runtime.py:40), through partial packets, failed writes and kills.
THEOREM KnownValuesSurvive == ASSUME ~ReadsFail PROVE Spec => KnownSurvives
<1>1. IInv /\ [Next]_vars => [disk # NoConfig => disk' # NoConfig /\ Covers(disk, disk')]_vars
  BY StepKeeps DEF Kept
<1> QED BY <1>1, InductiveInvariant, PTL DEF Spec, KnownSurvives

-----------------------------------------------------------------------------
(* The links.                                                              *)

\* The links and their files are of the right kind.
LinkTypes == link \in Link /\ unsaved \in BOOLEAN /\ file \in Link

\* What a process knows of a saved link: it is known, and nothing newer is unless
\* it is due to be saved.
LinkKnown(l) ==
    l.file # None => l.link # None /\ (~l.unsaved => l.file = l.link)

\* The conjunction is inductive: LinkKnown holds while the process runs.
LinkInv == LinkTypes /\ (up => LinkKnown(Now))

\* _remember_gateway keeps the kinds and the saved link, for any serial number
\* and any outcome of the write (grobro/client.py:335).
LEMMA RememberedKeeps ==
    ASSUME NEW l \in Links, NEW e, NEW w
    PROVE  /\ Remembered(l, e, w) \in Links
           /\ LinkKnown(l) => LinkKnown(Remembered(l, e, w))
<1>1. None \notin Endpoint
    BY ValueAssumption, SerialAssumption
<1>2. CASE e \in Endpoint /\ SaveDue(l, e)
    <2>1. Remembered(l, e, w) = Saved(l, e, w)
        BY <1>2 DEF Remembered
    <2>2. Saved(l, e, w) \in Links
        BY <1>2 DEF Saved, Links, Link
    <2>3. LinkKnown(Saved(l, e, w))
        BY <1>1, <1>2 DEF Saved, LinkKnown, Links
    <2> QED BY <2>1, <2>2, <2>3
<1>3. CASE ~(e \in Endpoint /\ SaveDue(l, e))
    BY <1>3 DEF Remembered
<1> QED BY <1>2, <1>3

\* What a step leaves in memory, given what it would leave to a living process.
LEMMA KeptKeeps ==
    ASSUME LinkTypes, up => LinkKnown(Now), up, Remains(Now) \/ UNCHANGED linkVars
    PROVE  LinkInv'
<1>1. CASE UNCHANGED linkVars
    BY <1>1 DEF linkVars, LinkInv, LinkTypes, LinkKnown, Now
<1>2. CASE Remains(Now) /\ up'
    BY <1>2 DEF Remains, Becomes, Now, LinkInv, LinkTypes, LinkKnown
<1>3. CASE Remains(Now) /\ ~up'
    BY <1>3 DEF Remains, LinkInv, LinkTypes, Link
<1> QED BY <1>1, <1>2, <1>3

\* Every step keeps the invariant, if files that exist can be read.
LEMMA LinkStep ==
    ASSUME ~ReadsFail, LinkInv, [NextLink]_allVars
    PROVE  LinkInv'
<1> USE DEF LinkInv
<1>t. Now \in Links
    BY DEF Now, Links, LinkTypes
<1>1. CASE RestartLink
    <2>1. PICK r1 \in ReadOutcome, r2 \in ReadOutcome :
              link' = Restored(Parsed(r1), IF r2 THEN file ELSE None)
        BY <1>1 DEF RestartLink
    <2>2. r2
        BY <2>1 DEF ReadOutcome
    <2>3. link' = IF file # None THEN file ELSE Serial(Parsed(r1))
        BY <2>1, <2>2 DEF Restored
    <2>4. Serial(Parsed(r1)) \in Link
        BY DEF Serial, Link
    <2>5. link' \in Link /\ unsaved' = unsaved /\ file' = file
        BY <1>1, <2>3, <2>4 DEF RestartLink, LinkTypes
    <2> QED BY <2>3, <2>5 DEF LinkTypes, LinkKnown, Now
<1>2. CASE KilledLink
    <2>1. up
        BY <1>2 DEF KilledLink, Killed
    <2> QED BY <1>2, <2>1, KeptKeeps DEF KilledLink
<1>3. ASSUME NEW c \in Packet, NEW e \in Link, NEW r \in ReadOutcome,
             NEW w \in WriteOutcome, NEW v1 \in LinkOutcome, NEW v2 \in LinkOutcome,
             Announced(c, e, r, w, v1, v2)
      PROVE  LinkInv'
    <2> DEFINE first == Remembered(Now, c.kept, v1)
               both == Remembered(first, e, v2)
    <2>1. up
        BY <1>3 DEF Announced, SetConfig
    <2>2. first \in Links /\ LinkKnown(first)
        BY <1>t, <2>1, RememberedKeeps
    <2>3. both \in Links /\ LinkKnown(both)
        BY <2>2, RememberedKeeps
    <2>4. Remains(both)
        BY <1>3 DEF Announced
    <2> HIDE DEF first, both
    <2>5. CASE up'
        <3>1. link' = both.link /\ unsaved' = both.unsaved /\ file' = both.file
            BY <2>4, <2>5 DEF Remains, Becomes
        <3>2. both.link \in Link /\ both.unsaved \in BOOLEAN /\ both.file \in Link
            BY <2>3 DEF Links
        <3> QED BY <2>3, <3>1, <3>2 DEF LinkTypes, LinkKnown, Now
    <2>6. CASE ~up'
        BY <2>4, <2>6 DEF Remains, LinkTypes, Link
    <2> QED BY <2>5, <2>6
<1>4. ASSUME NEW r \in ReadOutcome, NEW w \in WriteOutcome, Readback(r, w)
      PROVE  LinkInv'
    <2>1. up
        BY <1>4 DEF Readback, SetConfig
    <2> QED BY <1>4, <2>1, KeptKeeps DEF Readback
<1>5. ASSUME NEW r \in ReadOutcome, NEW w \in WriteOutcome, TelemetryUnlinked(r, w)
      PROVE  LinkInv'
    <2>1. up
        BY <1>5 DEF TelemetryUnlinked, Telemetry
    <2> QED BY <1>5, <2>1, KeptKeeps DEF TelemetryUnlinked
<1>6. CASE UNCHANGED allVars
    BY <1>6 DEF allVars, LinkTypes, LinkKnown, Now
<1> QED BY <1>1, <1>2, <1>3, <1>4, <1>5, <1>6 DEF NextLink

\* A process that is not running knows no link, and nothing contradicts the files.
LEMMA LinkInitial == InitLink => LinkInv
BY DEF InitLink, Init, LinkInv, LinkTypes, Link

\* The invariant holds whenever files that exist can be read.
THEOREM LinkInvariant ==
    ASSUME ~ReadsFail
    PROVE  LinkSpec => []LinkInv
<1>1. LinkInv /\ [NextLink]_allVars => LinkInv'
    BY LinkStep
<1> QED BY <1>1, LinkInitial, PTL DEF LinkSpec

\* A saved link is the one a restart finds (grobro/client.py:244), whatever the config
\* file says, for any serial numbers.
THEOREM SavedLinksSurvive ==
    ASSUME ~ReadsFail
    PROVE  LinkSpec => []SavedLinkSurvives
<1>1. LinkInv => SavedLinkSurvives
    BY DEF LinkInv, SavedLinkSurvives, LinkKnown, Now
<1> QED BY <1>1, LinkInvariant, PTL

\* The packets of a gateway are packets of a device, for the steps of its store.
LEMMA StoreStep == [NextLink]_allVars => [Next]_vars
<1>1. Packet \subseteq Config
    BY SerialAssumption DEF Packet, Config, Field
<1>2. [kept |-> Own, vol |-> None, secret |-> FALSE] \in Packet
    BY DEF Packet
<1>3. ASSUME NEW c \in Packet, NEW r \in ReadOutcome, NEW w \in WriteOutcome,
             SetConfig(c, r, w)
      PROVE  Next
    BY <1>1, <1>3 DEF Next
<1> QED BY <1>2, <1>3 DEF NextLink, RestartLink, KilledLink, Announced, Readback,
                          TelemetryUnlinked, Next, allVars, vars

\* The composition implements the store: whatever the link does, the config of a
\* gateway is persisted as that of any device.
THEOREM ImplementsStore == LinkSpec => Spec
<1>1. InitLink => Init
    BY DEF InitLink
<1> QED BY <1>1, StoreStep, PTL DEF LinkSpec, Spec

\* So what the process knows of a gateway is in its config file or will be saved
\* again (config_runtime.py:112).
THEOREM GatewayCacheOnDisk == LinkSpec => []CacheOnDisk
BY ImplementsStore, CacheIsOnDisk, PTL

\* Both clients' memory and files are of the right kind, whatever is announced.
THEOREM LinkTypeCorrect ==
    ASSUME ~ReadsFail
    PROVE  LinkSpec => []TypeOKLink
<1>1. LinkInv /\ TypeOK => TypeOKLink
    BY DEF LinkInv, LinkTypes, TypeOKLink
<1> QED BY <1>1, LinkInvariant, ImplementsStore, TypeCorrect, PTL

-----------------------------------------------------------------------------
(* Sequences of numbered writes.                                           *)

Increasing(q) == \A i, j \in 1..Len(q) : i < j => q[i].no < q[j].no

LEMMA InSequence ==
    ASSUME NEW S, NEW q \in Seq(S)
    PROVE  /\ \A i \in 1..Len(q) : q[i] \in ToSet(q)
           /\ \A x \in ToSet(q) : x \in S /\ \E i \in 1..Len(q) : q[i] = x
BY LenProperties DEF ToSet

LEMMA EmptyIncreasing == Increasing(<<>>) /\ ToSet(<<>>) = {}
BY DEF Increasing, ToSet

\* What is appended comes last.
LEMMA AppendIncreasing ==
    ASSUME NEW S, \A x \in S : x.no \in Nat, NEW q \in Seq(S), NEW w \in S, Increasing(q),
           \A x \in ToSet(q) : x.no < w.no
    PROVE  /\ Increasing(Append(q, w)) /\ Append(q, w) \in Seq(S)
           /\ Len(Append(q, w)) = Len(q) + 1
           /\ ToSet(Append(q, w)) = ToSet(q) \cup {w}
<1> DEFINE p == Append(q, w)
<1>1. /\ p \in Seq(S) /\ Len(p) = Len(q) + 1 /\ p[Len(q) + 1] = w
      /\ \A i \in 1..Len(q) : p[i] = q[i]
  BY AppendProperties
<1>2. Len(q) \in Nat /\ DOMAIN q = 1..Len(q) /\ DOMAIN p = 1..Len(q) + 1
  BY <1>1, LenProperties
<1> HIDE DEF p
<1>3. ToSet(p) = ToSet(q) \cup {w}
  <2>1. \A i \in 1..Len(q) + 1 : i \in 1..Len(q) \/ i = Len(q) + 1
    BY <1>2
  <2>2. ToSet(p) \subseteq ToSet(q) \cup {w}
    BY <1>1, <1>2, <2>1 DEF ToSet
  <2>3. \A i \in 1..Len(q) : i \in 1..Len(q) + 1
    BY <1>2
  <2>4. w \in ToSet(p)
    BY <1>1, <1>2 DEF ToSet
  <2>5. ToSet(q) \subseteq ToSet(p)
    BY <1>1, <1>2, <2>3 DEF ToSet
  <2> QED
    BY <2>2, <2>4, <2>5
<1>4. Increasing(p)
  <2> SUFFICES ASSUME NEW i \in 1..Len(p), NEW j \in 1..Len(p), i < j
               PROVE  p[i].no < p[j].no
    BY DEF Increasing
  <2>1. i \in 1..Len(q) /\ p[i] = q[i] /\ q[i] \in ToSet(q)
    BY <1>1, <1>2, InSequence
  <2>2. CASE j \in 1..Len(q)
    BY <1>1, <2>1, <2>2 DEF Increasing
  <2>3. CASE j = Len(q) + 1
    BY <1>1, <2>1, <2>3
  <2>4. j \in 1..Len(q) \/ j = Len(q) + 1
    BY <1>1, <1>2
  <2> QED
    BY <2>2, <2>3, <2>4
<1> QED
  BY <1>1, <1>3, <1>4 DEF p

\* Of a sequence whose first one is taken, later ones are left.
LEMMA TailIncreasing ==
    ASSUME NEW S, \A x \in S : x.no \in Nat, NEW q \in Seq(S), q # <<>>, Increasing(q)
    PROVE  /\ Increasing(Tail(q)) /\ Tail(q) \in Seq(S) /\ Head(q) \in ToSet(q)
           /\ ToSet(Tail(q)) \subseteq ToSet(q)
           /\ \A x \in ToSet(Tail(q)) : Head(q).no < x.no
<1> DEFINE p == Tail(q)
<1>1. /\ p \in Seq(S) /\ Len(p) = Len(q) - 1
      /\ \A i \in 1..Len(p) : p[i] = q[i + 1]
  BY HeadTailProperties
<1>2. Len(q) \in Nat /\ Len(q) # 0 /\ DOMAIN q = 1..Len(q) /\ DOMAIN p = 1..Len(p)
  BY <1>1, LenProperties, EmptySeq
<1>3. Head(q) = q[1]
  OBVIOUS
<1> HIDE DEF p
<1>4. \A i \in 1..Len(p) : i + 1 \in 1..Len(q) /\ 1 < i + 1
  BY <1>1, <1>2
<1>5. Increasing(p)
  <2> SUFFICES ASSUME NEW i \in 1..Len(p), NEW j \in 1..Len(p), i < j
               PROVE  p[i].no < p[j].no
    BY DEF Increasing
  <2>1. i + 1 \in 1..Len(q) /\ j + 1 \in 1..Len(q) /\ i + 1 < j + 1
    BY <1>4
  <2> QED
    BY <1>1, <2>1 DEF Increasing
<1>6. \A x \in ToSet(p) : x \in ToSet(q) /\ q[1].no < x.no
  <2> SUFFICES ASSUME NEW i \in 1..Len(p)
               PROVE  p[i] \in ToSet(q) /\ q[1].no < p[i].no
    BY <1>2 DEF ToSet
  <2>1. 1 \in 1..Len(q) /\ i + 1 \in 1..Len(q) /\ 1 < i + 1 /\ p[i] = q[i + 1]
    BY <1>1, <1>2, <1>4
  <2>2. q[1].no < q[i + 1].no
    BY <2>1 DEF Increasing
  <2> QED
    BY <1>2, <2>1, <2>2 DEF ToSet
<1> QED
  BY <1>1, <1>2, <1>3, <1>5, <1>6 DEF p, ToSet

\* Removing one leaves the others, in order.
LEMMA RemoveIncreasing ==
    ASSUME NEW S, \A x \in S : x.no \in Nat, NEW q \in Seq(S), NEW at \in 1..Len(q),
           Increasing(q)
    PROVE  /\ Increasing(RemoveAt(q, at)) /\ RemoveAt(q, at) \in Seq(S)
           /\ Len(RemoveAt(q, at)) = Len(q) - 1
           /\ ToSet(RemoveAt(q, at)) = ToSet(q) \ {q[at]}
<1> DEFINE low == SubSeq(q, 1, at - 1)
           high == SubSeq(q, at + 1, Len(q))
           p == low \o high
<1>1. Len(q) \in Nat /\ DOMAIN q = 1..Len(q) /\ \A i \in 1..Len(q) : q[i] \in S
  BY LenProperties, ElementOfSeq
<1>2. /\ low \in Seq(S) /\ Len(low) = at - 1
      /\ \A i \in 1..at - 1 : low[i] = q[i]
  <2>1. at - 1 \in Int /\ 1 \in Int /\ \A i \in 1..at - 1 : q[i] \in S
    BY <1>1
  <2>2. /\ SubSeq(q, 1, at - 1) \in Seq(S)
        /\ Len(SubSeq(q, 1, at - 1)) = IF 1 <= at - 1 THEN at - 1 - 1 + 1 ELSE 0
        /\ \A i \in 1..at - 1 - 1 + 1 : SubSeq(q, 1, at - 1)[i] = q[1 + i - 1]
    BY <2>1, SubSeqProperties
  <2> QED
    BY <1>1, <2>2
<1>3. /\ high \in Seq(S) /\ Len(high) = Len(q) - at
      /\ \A i \in 1..Len(q) - at : high[i] = q[at + i]
  <2>1. at + 1 \in Int /\ Len(q) \in Int /\ \A i \in at + 1..Len(q) : q[i] \in S
    BY <1>1
  <2>2. /\ SubSeq(q, at + 1, Len(q)) \in Seq(S)
        /\ Len(SubSeq(q, at + 1, Len(q))) =
             IF at + 1 <= Len(q) THEN Len(q) - (at + 1) + 1 ELSE 0
        /\ \A i \in 1..Len(q) - (at + 1) + 1 :
              SubSeq(q, at + 1, Len(q))[i] = q[at + 1 + i - 1]
    BY <2>1, SubSeqProperties
  <2>3. \A i \in 1..Len(q) - at : i \in 1..Len(q) - (at + 1) + 1 /\ at + 1 + i - 1 = at + i
    BY <1>1
  <2>4. (IF at + 1 <= Len(q) THEN Len(q) - (at + 1) + 1 ELSE 0) = Len(q) - at
    <3>1. at \in Nat /\ at <= Len(q)
      BY <1>1
    <3>2. CASE at + 1 <= Len(q)
      BY <1>1, <3>1, <3>2
    <3>3. CASE at = Len(q)
      BY <1>1, <3>1, <3>3
    <3>4. \A n \in Nat, k \in Nat : k <= n => k + 1 <= n \/ k = n
      OBVIOUS
    <3>5. at + 1 <= Len(q) \/ at = Len(q)
      BY <1>1, <3>1, <3>4
    <3> QED
      BY <3>2, <3>3, <3>5
  <2> QED
    BY <2>2, <2>3, <2>4
<1> HIDE DEF low, high
<1>4. /\ p \in Seq(S) /\ Len(p) = Len(q) - 1
      /\ \A i \in 1..Len(p) : p[i] = IF i < at THEN q[i] ELSE q[i + 1]
  <2>1. /\ p \in Seq(S) /\ Len(p) = Len(low) + Len(high)
        /\ \A i \in 1..Len(low) + Len(high) :
              p[i] = IF i <= Len(low) THEN low[i] ELSE high[i - Len(low)]
    BY <1>2, <1>3, ConcatProperties
  <2>2. Len(p) = Len(q) - 1
    BY <1>1, <1>2, <1>3, <2>1
  <2>3. ASSUME NEW i \in 1..Len(p) PROVE p[i] = IF i < at THEN q[i] ELSE q[i + 1]
    <3>1. CASE i < at
      <4>1. i \in 1..at - 1 /\ i <= Len(low) /\ i \in 1..Len(low) + Len(high)
        BY <1>1, <1>2, <2>1, <2>2, <2>3, <3>1
      <4> QED
        BY <1>2, <2>1, <3>1, <4>1
    <3>2. CASE ~(i < at)
      <4>1. /\ i - Len(low) \in 1..Len(q) - at /\ ~(i <= Len(low))
            /\ i \in 1..Len(low) + Len(high) /\ at + (i - Len(low)) = i + 1
        BY <1>1, <1>2, <2>1, <2>2, <2>3, <3>2
      <4> QED
        BY <1>3, <2>1, <3>2, <4>1
    <3> QED
      BY <3>1, <3>2
  <2> QED
    BY <2>1, <2>2, <2>3
<1>5. p = RemoveAt(q, at)
  BY DEF RemoveAt, low, high
<1> HIDE DEF p
<1>6. Increasing(p)
  <2> SUFFICES ASSUME NEW i \in 1..Len(p), NEW j \in 1..Len(p), i < j
               PROVE  p[i].no < p[j].no
    BY DEF Increasing
  <2> DEFINE k == IF i < at THEN i ELSE i + 1
             l == IF j < at THEN j ELSE j + 1
  <2>1. k \in 1..Len(q) /\ l \in 1..Len(q) /\ k < l
    BY <1>1, <1>4
  <2>2. p[i] = q[k] /\ p[j] = q[l]
    BY <1>4
  <2> QED
    BY <2>1, <2>2 DEF Increasing
<1>7. DOMAIN p = 1..Len(p)
  BY <1>4, LenProperties
<1>8. \A i, j \in 1..Len(q) : i # j => q[i] # q[j]
  <2> SUFFICES ASSUME NEW i \in 1..Len(q), NEW j \in 1..Len(q), i < j PROVE q[i] # q[j]
    BY <1>1
  <2> QED
    BY <1>1 DEF Increasing
<1>9. ToSet(p) = ToSet(q) \ {q[at]}
  <2>1. ASSUME NEW i \in 1..Len(p) PROVE p[i] \in ToSet(q) \ {q[at]}
    <3> DEFINE k == IF i < at THEN i ELSE i + 1
    <3>1. k \in 1..Len(q) /\ k # at /\ p[i] = q[k]
      BY <1>1, <1>4
    <3> QED
      BY <1>1, <1>8, <3>1 DEF ToSet
  <2>2. ASSUME NEW k \in 1..Len(q), k # at PROVE q[k] \in ToSet(p)
    <3> DEFINE i == IF k < at THEN k ELSE k - 1
    <3>1. i \in 1..Len(p) /\ p[i] = q[k]
      BY <1>1, <1>4, <2>2
    <3> QED
      BY <1>7, <3>1 DEF ToSet
  <2> QED
    BY <1>1, <1>7, <2>1, <2>2 DEF ToSet
<1> QED
  BY <1>4, <1>5, <1>6, <1>9

-----------------------------------------------------------------------------
(* Writes of config registers.                                             *)

\* A write of d is reserved and has not left.
Writing(d) == sender.at \in {"publish", "rollback"} /\ Current.dev = d

\* All that is known of d is in the order in which it was made, and the write being
\* made is later.
Ordered(d) ==
    /\ Increasing(pending[d]) /\ Increasing(toDevice[d]) /\ Increasing(acks[d])
    /\ \A w \in ToSet(pending[d]) : w.no <= made[d]
    /\ \A w \in ToSet(toDevice[d]) \cup ToSet(acks[d]) :
          w.no <= made[d] /\ (Writing(d) => w.no < made[d])
    /\ \A a \in ToSet(acks[d]), w \in ToSet(toDevice[d]) : a.no < w.no

Tracked(d) ==
    /\ Len(pending[d]) <= Limit
    /\ d \in disabled \/ stage = "stopped" => pending[d] = <<>>
    /\ d \notin disabled \cup strayed /\ stage # "stopped" =>
          /\ OnTheWay(d) \subseteq ToSet(pending[d])
          /\ sender.at = "publish" /\ Current.dev = d => Sent \in ToSet(pending[d])

Sending ==
    /\ sender.at \in {"publish", "rollback"} => made[Current.dev] >= 1
    /\ stage # "up" => sender = Idle /\ clock = "none"
    /\ ClockKept

WritesInv ==
    /\ WritesTypeOK /\ Sending /\ NamesNoLaterWrite
    /\ \A d \in Device : Ordered(d) /\ Tracked(d)

LEMMA Numbered == (\A w \in Write : w.no \in Nat) /\ (\A a \in Ack : a.no \in Nat)
BY LimitAssumption DEF Write, Ack

\* A sender that is at work has a write to make.
LEMMA AtWork ==
    ASSUME WritesTypeOK, sender.at \in {"reserve", "publish", "rollback"}
    PROVE  /\ sender.todo \in Seq(Target) /\ sender.todo # <<>>
           /\ Current \in Target /\ Current.dev \in Device /\ Current.reg \in Register
<1>1. sender.todo \in Seq(Target) /\ sender.todo # <<>>
  BY DEF WritesTypeOK
<1>2. Current \in Target
  BY <1>1, HeadTailProperties DEF Current
<1> QED
  BY <1>1, <1>2 DEF Target

LEMMA AdvanceTyped ==
    ASSUME WritesTypeOK, sender.at \in {"publish", "rollback"}, Advance
    PROVE  /\ sender' \in [at : {"idle", "reserve", "publish", "rollback", "done"},
                            todo : Seq(Target), timer : BOOLEAN]
           /\ sender'.at \in {"reserve", "done"} /\ sender'.timer = sender.timer
           /\ sender'.at \in {"idle", "done"} <=> sender'.todo = <<>>
<1>1. sender.todo \in Seq(Target) /\ sender.todo # <<>>
  BY AtWork
<1>2. Tail(sender.todo) \in Seq(Target) /\ Len(Tail(sender.todo)) = Len(sender.todo) - 1
  BY <1>1, HeadTailProperties
<1>3. /\ sender'.at = IF Len(sender.todo) = 1 THEN "done" ELSE "reserve"
      /\ sender'.todo = Tail(sender.todo) /\ sender'.timer = sender.timer
      /\ sender' \in [at : {"idle", "reserve", "publish", "rollback", "done"},
                       todo : Seq(Target), timer : BOOLEAN]
  BY <1>2 DEF Advance, WritesTypeOK
<1>4. Len(sender.todo) \in Nat /\ Len(Tail(sender.todo)) \in Nat
  BY <1>1, <1>2, LenProperties
<1>5. Tail(sender.todo) = <<>> <=> Len(sender.todo) = 1
  <2>1. \A s \in Seq(Target) : s = <<>> <=> Len(s) = 0
    BY EmptySeq
  <2>2. Tail(sender.todo) = <<>> <=> Len(Tail(sender.todo)) = 0
    BY <1>2, <2>1
  <2> QED
    BY <1>2, <1>4, <2>2
<1> QED
  BY <1>3, <1>5

\* What a step leaves alone of a device
SameDevice(d) ==
    UNCHANGED <<made[d], pending[d], toDevice[d], acks[d]>>

\* A device keeps its invariants if nothing of it changes and no write of it begins.
LEMMA DeviceKeeps ==
    ASSUME WritesInv, NEW d \in Device, SameDevice(d),
           (d \in disabled') = (d \in disabled),
           d \in strayed => d \in strayed',
           stage' = "stopped" => stage = "stopped",
           stage = "stopped" => stage' = "stopped",
           Writing(d)' => Writing(d),
           (sender.at = "publish" /\ Current.dev = d)' =>
              sender.at = "publish" /\ Current = Current' /\ Current.dev = d
    PROVE  Ordered(d)' /\ Tracked(d)'
<1>1. Ordered(d) /\ Tracked(d)
  BY DEF WritesInv
<1>2. Ordered(d)'
  BY <1>1 DEF Ordered, SameDevice
<1>3. OnTheWay(d)' = OnTheWay(d)
  BY DEF OnTheWay, SameDevice
<1>4. ASSUME (sender.at = "publish" /\ Current.dev = d)' PROVE Sent' = Sent
  BY <1>4 DEF Sent, SameDevice
<1> QED
  BY <1>1, <1>2, <1>3, <1>4 DEF Tracked, SameDevice

LEMMA ReserveKeeps ==
    ASSUME WritesInv, Reserve PROVE WritesInv'
<1>0. PICK d : d = Current.dev
  OBVIOUS
<1> DEFINE w == [no |-> made[d] + 1, reg |-> Current.reg]
<1>1. /\ WritesTypeOK /\ sender.at = "reserve" /\ made[d] < MaxWrites
      /\ made' = [made EXCEPT ![d] = @ + 1]
      /\ sender' = [sender EXCEPT !.at = "publish"]
      /\ UNCHANGED <<clock, toDevice, acks, strayed, logged, stage>>
  BY <1>0 DEF Reserve, network, WritesInv
<1>2. /\ d \in Device /\ Current.reg \in Register
      /\ sender.todo \in Seq(Target) /\ sender.todo # <<>>
  BY <1>0, <1>1, AtWork
<1>3. made[d] \in 0..MaxWrites /\ made'[d] = made[d] + 1
      /\ \A e \in Device \ {d} : made'[e] = made[e]
  BY <1>1, <1>2 DEF WritesTypeOK
<1>4. w \in Write /\ made' \in [Device -> 0..MaxWrites]
  <2>1. made[d] + 1 \in 1..MaxWrites
    BY <1>1, <1>3, LimitAssumption
  <2> QED
    BY <1>1, <1>2, <2>1 DEF Write, WritesTypeOK
<1>5. /\ sender'.at = "publish" /\ sender'.todo = sender.todo /\ sender'.timer = sender.timer
      /\ sender' \in [at : {"idle", "reserve", "publish", "rollback", "done"},
                       todo : Seq(Target), timer : BOOLEAN]
  BY <1>1, <1>2 DEF WritesTypeOK
<1>6. Current' = Current
  BY <1>5 DEF Current
<1>7. Reserved(d, w)
  BY <1>0, <1>1, <1>2, <1>3 DEF Reserve
<1>8. Sent' = w
  BY <1>0, <1>3, <1>6 DEF Sent
<1>9. Ordered(d) /\ Tracked(d) /\ pending[d] \in Seq(Write) /\ toDevice[d] \in Seq(Write)
      /\ acks[d] \in Seq(Ack)
  BY <1>1, <1>2 DEF WritesInv, WritesTypeOK
<1>10. stage = "up"
  BY <1>1 DEF WritesInv, Sending, Idle
<1>11. \A x \in ToSet(toDevice[d]) \cup ToSet(acks[d]) \cup ToSet(pending[d]) :
          x.no \in Nat /\ x.no <= made[d]
  BY <1>9, InSequence, Numbered DEF Ordered
<1> HIDE DEF w
<1>12. w.no = made[d] + 1
  BY DEF w
<1>13. /\ pending' \in [Device -> Seq(Write)] /\ disabled' \subseteq Device
       /\ \A e \in Device \ {d} : /\ pending'[e] = pending[e]
                                 /\ (e \in disabled') = (e \in disabled)
       /\ Increasing(pending'[d]) /\ Len(pending'[d]) <= Limit
       /\ \A x \in ToSet(pending'[d]) : x.no <= made[d] + 1
       /\ d \in disabled' => pending'[d] = <<>>
       /\ d \notin disabled' =>
             d \notin disabled /\ ToSet(pending'[d]) = ToSet(pending[d]) \cup {w}
  <2>1. /\ pending \in [Device -> Seq(Write)] /\ disabled \subseteq Device
        /\ Len(pending[d]) \in Nat
    BY <1>1, <1>9, LenProperties DEF WritesTypeOK
  <2>2. CASE d \in disabled
    <3>1. UNCHANGED <<pending, disabled>>
      BY <1>7, <2>2 DEF Reserved, queues
    <3> QED
      BY <1>3, <1>9, <1>11, <2>1, <2>2, <3>1 DEF Ordered, Tracked
  <2>3. CASE d \notin disabled /\ Len(pending[d]) >= Limit
    <3>1. pending' = [pending EXCEPT ![d] = <<>>] /\ disabled' = disabled \cup {d}
      BY <1>7, <2>3 DEF Reserved
    <3>2. pending'[d] = <<>> /\ \A e \in Device \ {d} : pending'[e] = pending[e]
      BY <1>2, <2>1, <3>1
    <3>3. <<>> \in Seq(Write) /\ Len(<<>>) <= Limit
      BY EmptySeq, LimitAssumption
    <3> QED
      BY <1>2, <2>1, <3>1, <3>2, <3>3, EmptyIncreasing
  <2>4. CASE d \notin disabled /\ ~(Len(pending[d]) >= Limit)
    <3>1. pending' = [pending EXCEPT ![d] = Append(@, w)] /\ disabled' = disabled
      BY <1>7, <2>4 DEF Reserved
    <3>2. pending'[d] = Append(pending[d], w)
          /\ \A e \in Device \ {d} : pending'[e] = pending[e]
      BY <1>2, <2>1, <3>1
    <3>3. \A x \in ToSet(pending[d]) : x.no < w.no
      BY <1>3, <1>11, <1>12
    <3>4. /\ Increasing(Append(pending[d], w)) /\ Append(pending[d], w) \in Seq(Write)
          /\ Len(Append(pending[d], w)) = Len(pending[d]) + 1
          /\ ToSet(Append(pending[d], w)) = ToSet(pending[d]) \cup {w}
      BY <1>4, <1>9, <3>3, AppendIncreasing, Numbered DEF Ordered
    <3>5. Len(pending'[d]) <= Limit
      BY <2>1, <2>4, <3>2, <3>4, LimitAssumption
    <3>6. pending' \in [Device -> Seq(Write)]
      BY <2>1, <3>1, <3>4
    <3>7. \A x \in ToSet(pending'[d]) : x.no <= made[d] + 1
      BY <1>3, <1>11, <1>12, <3>2, <3>4
    <3> QED
      BY <2>1, <2>4, <3>1, <3>2, <3>4, <3>5, <3>6, <3>7
  <2> QED
    BY <2>2, <2>3, <2>4
<1>14. Ordered(d)'
  <2>1. \A x \in ToSet(toDevice[d]) \cup ToSet(acks[d]) : x.no <= made[d] + 1 /\ x.no < made[d] + 1
    BY <1>3, <1>11
  <2> QED
    BY <1>1, <1>3, <1>9, <1>13, <2>1 DEF Ordered
<1>15. Tracked(d)'
  <2>1. OnTheWay(d)' = OnTheWay(d)
    BY <1>1 DEF OnTheWay
  <2>2. stage' # "stopped" /\ stage # "stopped"
    BY <1>1, <1>10
  <2>3. d \in disabled' => pending'[d] = <<>>
    BY <1>13
  <2>4. d \notin disabled' \cup strayed' => OnTheWay(d)' \subseteq ToSet(pending'[d])
                                           /\ Sent' \in ToSet(pending'[d])
    BY <1>1, <1>8, <1>9, <1>13, <2>1, <2>2 DEF Tracked
  <2> QED
    BY <1>13, <2>2, <2>3, <2>4 DEF Tracked
<1>16. ASSUME NEW e \in Device, e # d PROVE Ordered(e)' /\ Tracked(e)'
  <2>1. SameDevice(e) /\ ~Writing(e)' /\ ~(sender.at = "publish" /\ Current.dev = e)'
    BY <1>0, <1>1, <1>3, <1>6, <1>13, <1>16 DEF SameDevice, Writing
  <2> QED
    BY <1>1, <1>13, <1>16, <2>1, DeviceKeeps
<1>17. WritesTypeOK'
  BY <1>1, <1>2, <1>4, <1>5, <1>13 DEF WritesTypeOK
<1>18. Sending'
  BY <1>0, <1>1, <1>3, <1>5, <1>6, <1>10 DEF WritesInv, Sending, ClockKept
<1>19. NamesNoLaterWrite'
  BY <1>1 DEF WritesInv, NamesNoLaterWrite
<1> QED
  BY <1>14, <1>15, <1>16, <1>17, <1>18, <1>19 DEF WritesInv

\* Steps of the sender and of shutdown that leave what is known of devices alone
LEMMA QuietKeeps ==
    ASSUME WritesInv,
           UNCHANGED <<made, pending, disabled, toDevice, acks, strayed, logged>>,
           sender'.at \in {"idle", "reserve", "rollback", "done"},
           sender'.at = "rollback" => sender.at = "publish" /\ sender'.todo = sender.todo,
           stage' = "stopped" <=> stage = "stopped",
           WritesTypeOK', Sending'
    PROVE  WritesInv'
<1>1. ASSUME NEW d \in Device PROVE Ordered(d)' /\ Tracked(d)'
  <2>1. SameDevice(d) /\ (Writing(d)' => Writing(d))
        /\ ~(sender.at = "publish" /\ Current.dev = d)'
    BY DEF SameDevice, Writing, Current
  <2> QED
    BY <2>1, DeviceKeeps
<1> QED
  BY <1>1 DEF WritesInv, NamesNoLaterWrite

LEMMA CommandKeeps ==
    ASSUME WritesInv, NEW d \in Device, NEW r \in Register, Command(d, r) PROVE WritesInv'
<1>1. /\ stage = "up" /\ UNCHANGED <<made, pending, disabled, clock, toDevice, acks, strayed,
                                     logged, stage>>
      /\ sender' = [at |-> "reserve", todo |-> <<[dev |-> d, reg |-> r]>>, timer |-> FALSE]
      /\ sender = Idle
  BY DEF Command, queues, network
<1>2. <<[dev |-> d, reg |-> r]>> \in Seq(Target) /\ <<[dev |-> d, reg |-> r]>> # <<>>
  BY DEF Target
<1>3. WritesTypeOK'
  BY <1>1, <1>2 DEF WritesInv, WritesTypeOK
<1>4. Sending'
  BY <1>1 DEF WritesInv, Sending, ClockKept, Idle
<1> QED
  BY <1>1, <1>3, <1>4, QuietKeeps

LEMMA ClockRunsKeeps ==
    ASSUME WritesInv, ClockRuns PROVE WritesInv'
<1>1. PICK order \in SetToSeqs(Clocked) :
          sender' = [at |-> IF order = <<>> THEN "done" ELSE "reserve",
                     todo |-> [i \in 1..Len(order) |-> [dev |-> order[i], reg |-> SystemTime]],
                     timer |-> TRUE]
  BY DEF ClockRuns
<1>2. /\ clock = "armed" /\ clock' = "none"
      /\ UNCHANGED <<made, pending, disabled, toDevice, acks, strayed, logged, stage>>
  BY DEF ClockRuns, queues, network
<1> DEFINE todo == [i \in 1..Len(order) |-> [dev |-> order[i], reg |-> SystemTime]]
<1>3. order \in Seq(Clocked)
  <2>1. Cardinality(Clocked) \in Nat /\ order \in [1..Cardinality(Clocked) -> Clocked]
    BY ClockedAssumption, FS_CardinalityType DEF SetToSeqs
  <2> QED
    BY <2>1
<1>4. Len(order) \in Nat /\ \A i \in 1..Len(order) : order[i] \in Device
  BY <1>3, LenProperties, ElementOfSeq, ClockedAssumption
<1>5. todo \in Seq(Target) /\ Len(todo) = Len(order)
  BY <1>4, SystemTimeAssumption DEF Target
<1>6. todo = <<>> <=> order = <<>>
  <2>1. (todo = <<>> <=> Len(todo) = 0) /\ (order = <<>> <=> Len(order) = 0)
    BY <1>3, <1>5, EmptySeq
  <2> QED
    BY <1>5, <2>1
<1> HIDE DEF todo
<1>7. sender' = [at |-> IF order = <<>> THEN "done" ELSE "reserve", todo |-> todo, timer |-> TRUE]
  BY <1>1 DEF todo
<1>8. WritesTypeOK'
  BY <1>2, <1>5, <1>6, <1>7 DEF WritesInv, WritesTypeOK
<1>9. stage = "up"
  BY <1>2 DEF WritesInv, Sending
<1>10. Sending'
  BY <1>2, <1>7, <1>9 DEF WritesInv, Sending, ClockKept
<1> QED
  BY <1>2, <1>7, <1>8, <1>9, <1>10, QuietKeeps

LEMMA RejectedKeeps ==
    ASSUME WritesInv, PublishRejected PROVE WritesInv'
<1>1. /\ sender.at = "publish" /\ sender' = [sender EXCEPT !.at = "rollback"]
      /\ UNCHANGED <<made, pending, disabled, clock, toDevice, acks, strayed, logged, stage>>
      /\ WritesTypeOK
  BY DEF PublishRejected, queues, network, WritesInv
<1>2. /\ sender'.at = "rollback" /\ sender'.todo = sender.todo /\ sender'.timer = sender.timer
      /\ sender' \in [at : {"idle", "reserve", "publish", "rollback", "done"},
                       todo : Seq(Target), timer : BOOLEAN]
  BY <1>1 DEF WritesTypeOK
<1>3. WritesTypeOK'
  BY <1>1, <1>2 DEF WritesTypeOK
<1>4. Sending'
  BY <1>1, <1>2 DEF WritesInv, Sending, ClockKept, Current, Idle
<1> QED
  BY <1>1, <1>2, <1>3, <1>4, QuietKeeps

LEMMA FinishesKeeps ==
    ASSUME WritesInv, Finishes PROVE WritesInv'
<1>1. /\ sender.at = "done" /\ sender' = Idle
      /\ clock' \in IF sender.timer THEN NextClock ELSE {clock}
      /\ UNCHANGED <<made, pending, disabled, toDevice, acks, strayed, logged, stage>>
  BY DEF Finishes, queues, network
<1>2. Idle \in [at : {"idle", "reserve", "publish", "rollback", "done"},
                todo : Seq(Target), timer : BOOLEAN] /\ Idle.at = "idle" /\ Idle.todo = <<>>
      /\ Idle.timer = FALSE
  BY EmptySeq DEF Idle
<1>3. WritesTypeOK'
  BY <1>1, <1>2 DEF WritesInv, WritesTypeOK, NextClock
<1>4. Sending'
  BY <1>1, <1>2 DEF WritesInv, Sending, ClockKept, NextClock
<1> QED
  BY <1>1, <1>2, <1>3, <1>4, QuietKeeps

LEMMA StopsKeep ==
    ASSUME WritesInv, HomeAssistantStops \/ SourceStops PROVE WritesInv'
<1>1. /\ UNCHANGED <<made, pending, disabled, sender, toDevice, acks, strayed, logged>>
      /\ clock' \in {clock, "none"} /\ stage' \in {"noCommands", "stopping"}
      /\ stage \in {"up", "noCommands"} /\ sender = Idle /\ clock' = "none"
  BY DEF HomeAssistantStops, SourceStops, queues, network, WritesInv, Sending
<1>2. Idle.at = "idle"
  BY DEF Idle
<1>3. WritesTypeOK'
  BY <1>1 DEF WritesInv, WritesTypeOK
<1>4. Sending'
  BY <1>1, <1>2 DEF WritesInv, Sending, ClockKept
<1> QED
  BY <1>1, <1>2, <1>3, <1>4, QuietKeeps

LEMMA SourceStoppedKeeps ==
    ASSUME WritesInv, SourceStopped PROVE WritesInv'
<1>1. /\ stage = "stopping" /\ stage' = "stopped"
      /\ pending' = [d \in Device |-> <<>>] /\ disabled' = {}
      /\ UNCHANGED <<made, sender, clock, toDevice, acks, strayed, logged>>
  BY DEF SourceStopped, network
<1>2. ASSUME NEW d \in Device PROVE Ordered(d)' /\ Tracked(d)'
  <2>1. pending'[d] = <<>> /\ Ordered(d)
    BY <1>1 DEF WritesInv
  <2>2. Ordered(d)'
    BY <1>1, <2>1, EmptyIncreasing DEF Ordered, Writing, Current
  <2>3. Len(pending'[d]) <= Limit
    BY <2>1, EmptySeq, LimitAssumption
  <2> QED
    BY <1>1, <2>1, <2>2, <2>3 DEF Tracked
<1>3. WritesTypeOK'
  BY <1>1, EmptySeq DEF WritesInv, WritesTypeOK
<1>4. Sending'
  BY <1>1 DEF WritesInv, Sending, ClockKept, Current
<1> QED
  BY <1>1, <1>2, <1>3, <1>4 DEF WritesInv, NamesNoLaterWrite

LEMMA AcceptedKeeps ==
    ASSUME WritesInv, PublishAccepted PROVE WritesInv'
<1>0. PICK d : d = Current.dev
  OBVIOUS
<1>1. /\ sender.at = "publish" /\ WritesTypeOK /\ Advance
      /\ toDevice' = [toDevice EXCEPT ![d] = Append(@, Sent)]
      /\ UNCHANGED <<made, pending, disabled, clock, acks, strayed, logged, stage>>
  BY <1>0 DEF PublishAccepted, queues, WritesInv
<1>2. d \in Device /\ Current.reg \in Register
  BY <1>0, <1>1, AtWork
<1>3. /\ sender' \in [at : {"idle", "reserve", "publish", "rollback", "done"},
                       todo : Seq(Target), timer : BOOLEAN]
      /\ sender'.at \in {"reserve", "done"} /\ sender'.timer = sender.timer
      /\ sender'.at \in {"idle", "done"} <=> sender'.todo = <<>>
  BY <1>1, AdvanceTyped
<1>4. Ordered(d) /\ Tracked(d) /\ Sending /\ Writing(d)
  BY <1>0, <1>1, <1>2 DEF WritesInv, Writing
<1>5. Sent \in Write /\ Sent.no = made[d] /\ made[d] \in Nat
  <2>1. made[d] \in 1..MaxWrites
    BY <1>0, <1>1, <1>2, <1>4, LimitAssumption DEF Sending, WritesTypeOK
  <2> QED
    BY <1>0, <1>2, <2>1 DEF Sent, Write
<1>6. /\ toDevice[d] \in Seq(Write) /\ acks[d] \in Seq(Ack)
      /\ \A x \in ToSet(toDevice[d]) \cup ToSet(acks[d]) : x.no < Sent.no
  BY <1>1, <1>2, <1>4, <1>5 DEF Ordered, WritesTypeOK
<1>7. /\ Increasing(Append(toDevice[d], Sent)) /\ Append(toDevice[d], Sent) \in Seq(Write)
      /\ ToSet(Append(toDevice[d], Sent)) = ToSet(toDevice[d]) \cup {Sent}
  BY <1>4, <1>5, <1>6, AppendIncreasing, Numbered DEF Ordered
<1>8. /\ toDevice'[d] = Append(toDevice[d], Sent)
      /\ \A e \in Device \ {d} : toDevice'[e] = toDevice[e]
      /\ toDevice' \in [Device -> Seq(Write)]
  BY <1>1, <1>2, <1>7 DEF WritesTypeOK
<1>9. \A e \in Device : ~Writing(e)' /\ ~(sender.at = "publish" /\ Current.dev = e)'
  BY <1>3 DEF Writing
<1>10. Ordered(d)'
  <2>1. \A x \in ToSet(toDevice'[d]) \cup ToSet(acks[d]) : x.no <= made[d]
    BY <1>4, <1>5, <1>7, <1>8 DEF Ordered
  <2>2. \A a \in ToSet(acks[d]), x \in ToSet(toDevice'[d]) : a.no < x.no
    BY <1>4, <1>6, <1>7, <1>8 DEF Ordered
  <2> QED
    BY <1>1, <1>2, <1>4, <1>7, <1>8, <1>9, <2>1, <2>2 DEF Ordered
<1>11. Tracked(d)'
  <2>1. OnTheWay(d)' = OnTheWay(d) \cup {Sent}
    BY <1>1, <1>7, <1>8 DEF OnTheWay
  <2>2. ~(sender.at = "publish" /\ Current.dev = d)'
    BY <1>2, <1>9
  <2>3. d \notin disabled \cup strayed /\ stage # "stopped" =>
           OnTheWay(d) \subseteq ToSet(pending[d]) /\ Sent \in ToSet(pending[d])
    BY <1>0, <1>1, <1>4 DEF Tracked
  <2>4. d \notin disabled' \cup strayed' /\ stage' # "stopped" =>
           OnTheWay(d)' \subseteq ToSet(pending'[d])
    BY <1>1, <2>1, <2>3
  <2> QED
    BY <1>1, <1>4, <2>2, <2>4 DEF Tracked
<1>12. ASSUME NEW e \in Device, e # d PROVE Ordered(e)' /\ Tracked(e)'
  <2>1. SameDevice(e)
    BY <1>1, <1>8, <1>12 DEF SameDevice
  <2> QED
    BY <1>1, <1>9, <2>1, DeviceKeeps
<1>13. WritesTypeOK'
  BY <1>1, <1>3, <1>8 DEF WritesTypeOK
<1>14. stage = "up"
  BY <1>1, <1>4 DEF Sending, Idle
<1>15. Sending'
  BY <1>1, <1>3, <1>4, <1>14 DEF Sending, ClockKept
<1> QED
  BY <1>1, <1>10, <1>11, <1>12, <1>13, <1>15 DEF WritesInv, NamesNoLaterWrite

LEMMA RollBackKeeps ==
    ASSUME WritesInv, RollBack PROVE WritesInv'
<1>0. PICK d : d = Current.dev
  OBVIOUS
<1>1. /\ sender.at = "rollback" /\ WritesTypeOK /\ Advance
      /\ pending' = [pending EXCEPT ![d] = RolledBack(@)]
      /\ UNCHANGED <<made, disabled, clock, toDevice, acks, strayed, logged, stage>>
  BY <1>0 DEF RollBack, network, WritesInv
<1>2. d \in Device
  BY <1>0, <1>1, AtWork
<1>3. /\ sender' \in [at : {"idle", "reserve", "publish", "rollback", "done"},
                       todo : Seq(Target), timer : BOOLEAN]
      /\ sender'.at \in {"reserve", "done"} /\ sender'.timer = sender.timer
      /\ sender'.at \in {"idle", "done"} <=> sender'.todo = <<>>
  BY <1>1, AdvanceTyped
<1>4. Ordered(d) /\ Tracked(d) /\ Sending /\ Writing(d) /\ pending[d] \in Seq(Write)
  BY <1>0, <1>1, <1>2 DEF WritesInv, Writing, WritesTypeOK
<1>5. Sent.no = made[d] /\ made[d] \in Nat
  BY <1>0, <1>1, <1>2, LimitAssumption DEF Sent, WritesTypeOK
<1>6. /\ RolledBack(pending[d]) \in Seq(Write) /\ Increasing(RolledBack(pending[d]))
      /\ Len(RolledBack(pending[d])) <= Limit
      /\ ToSet(RolledBack(pending[d])) = ToSet(pending[d]) \ {Sent}
      /\ pending[d] = <<>> => RolledBack(pending[d]) = <<>>
  <2>1. CASE Sent \in ToSet(pending[d])
    <3> DEFINE at == CHOOSE i \in DOMAIN pending[d] : pending[d][i] = Sent
    <3>1. at \in DOMAIN pending[d] /\ pending[d][at] = Sent
      BY <2>1 DEF ToSet
    <3>2. at \in 1..Len(pending[d])
      BY <1>4, <3>1, LenProperties
    <3>3. RolledBack(pending[d]) = RemoveAt(pending[d], at)
      BY <2>1 DEF RolledBack
    <3> HIDE DEF at
    <3>4. /\ Increasing(RemoveAt(pending[d], at)) /\ RemoveAt(pending[d], at) \in Seq(Write)
          /\ Len(RemoveAt(pending[d], at)) = Len(pending[d]) - 1
          /\ ToSet(RemoveAt(pending[d], at)) = ToSet(pending[d]) \ {pending[d][at]}
      BY <1>4, <3>2, RemoveIncreasing, Numbered DEF Ordered
    <3>5. Len(RemoveAt(pending[d], at)) <= Limit
      BY <1>4, <3>4, LenProperties, LimitAssumption DEF Tracked
    <3>6. pending[d] # <<>>
      BY <2>1, EmptyIncreasing
    <3> QED
      BY <3>1, <3>3, <3>4, <3>5, <3>6
  <2>2. CASE Sent \notin ToSet(pending[d])
    BY <1>4, <2>2 DEF RolledBack, Ordered, Tracked
  <2> QED
    BY <2>1, <2>2
<1>7. /\ pending'[d] = RolledBack(pending[d])
      /\ \A e \in Device \ {d} : pending'[e] = pending[e]
      /\ pending' \in [Device -> Seq(Write)]
  BY <1>1, <1>2, <1>6 DEF WritesTypeOK
<1>8. \A e \in Device : ~Writing(e)' /\ ~(sender.at = "publish" /\ Current.dev = e)'
  BY <1>3 DEF Writing
<1>9. Ordered(d)'
  BY <1>1, <1>4, <1>6, <1>7, <1>8 DEF Ordered
<1>10. Tracked(d)'
  <2>1. OnTheWay(d)' = OnTheWay(d)
    BY <1>1 DEF OnTheWay
  <2>2. Sent \notin OnTheWay(d)
    <3>1. \A x \in ToSet(toDevice[d]) \cup ToSet(acks[d]) : x.no < made[d]
      BY <1>4 DEF Ordered
    <3> QED
      BY <1>5, <3>1 DEF OnTheWay
  <2> QED
    BY <1>1, <1>4, <1>6, <1>7, <1>8, <2>1, <2>2 DEF Tracked
<1>11. ASSUME NEW e \in Device, e # d PROVE Ordered(e)' /\ Tracked(e)'
  <2>1. SameDevice(e)
    BY <1>1, <1>7, <1>11 DEF SameDevice
  <2> QED
    BY <1>1, <1>8, <2>1, DeviceKeeps
<1>12. WritesTypeOK'
  BY <1>1, <1>3, <1>7 DEF WritesTypeOK
<1>13. stage = "up"
  BY <1>1, <1>4 DEF Sending, Idle
<1>14. Sending'
  BY <1>1, <1>3, <1>4, <1>13 DEF Sending, ClockKept
<1> QED
  BY <1>1, <1>9, <1>10, <1>11, <1>12, <1>14 DEF WritesInv, NamesNoLaterWrite

-----------------------------------------------------------------------------
(* Acknowledgements.                                                       *)

\* What a device sends and loses leaves the sender and what is pending alone.
LEMMA TravelKeeps ==
    ASSUME WritesInv, NEW d \in Device,
           UNCHANGED <<made, pending, disabled, sender, clock, strayed, logged, stage>>,
           toDevice' \in [Device -> Seq(Write)], acks' \in [Device -> Seq(Ack)],
           \A e \in Device \ {d} : toDevice'[e] = toDevice[e] /\ acks'[e] = acks[e],
           Increasing(toDevice'[d]), Increasing(acks'[d]),
           ToSet(toDevice'[d]) \subseteq ToSet(toDevice[d]),
           \A a \in ToSet(acks'[d]) :
              \/ a \in ToSet(acks[d])
              \/ \E w \in ToSet(toDevice[d]) : a.no = w.no /\ a.reg = w.reg,
           \A a \in ToSet(acks'[d]), w \in ToSet(toDevice'[d]) : a.no < w.no
    PROVE  WritesInv'
<1>1. Ordered(d) /\ Tracked(d) /\ WritesTypeOK /\ Sending
  BY DEF WritesInv
<1>2. \A e \in Device : Writing(e)' = Writing(e)
  BY DEF Writing, Current
<1>3. \A x \in ToSet(toDevice'[d]) \cup ToSet(acks'[d]) :
          \E y \in ToSet(toDevice[d]) \cup ToSet(acks[d]) : x.no = y.no
  OBVIOUS
<1>4. Ordered(d)'
  BY <1>1, <1>2, <1>3 DEF Ordered
<1>5. OnTheWay(d)' \subseteq OnTheWay(d)
  <2>1. ASSUME NEW a \in ToSet(acks'[d]) PROVE [no |-> a.no, reg |-> a.reg] \in OnTheWay(d)
    <3>1. CASE a \in ToSet(acks[d])
      BY <3>1 DEF OnTheWay
    <3>2. ASSUME NEW w \in ToSet(toDevice[d]), a.no = w.no, a.reg = w.reg
          PROVE  [no |-> a.no, reg |-> a.reg] \in OnTheWay(d)
      <4>1. w \in Write
        BY <1>1, <3>2, InSequence DEF WritesTypeOK
      <4>2. w = [no |-> a.no, reg |-> a.reg]
        BY <3>2, <4>1 DEF Write
      <4> QED
        BY <3>2, <4>2 DEF OnTheWay
    <3> QED
      BY <2>1, <3>1, <3>2
  <2> QED
    BY <2>1 DEF OnTheWay
<1>6. Tracked(d)'
  <2>1. Current' = Current /\ Sent' = Sent
    BY DEF Current, Sent
  <2> QED
    BY <1>1, <1>5, <2>1 DEF Tracked
<1>7. ASSUME NEW e \in Device, e # d PROVE Ordered(e)' /\ Tracked(e)'
  <2>1. SameDevice(e) /\ Current' = Current
    BY <1>7 DEF SameDevice, Current
  <2> QED
    BY <1>2, <2>1, DeviceKeeps
<1>8. WritesTypeOK'
  BY <1>1 DEF WritesTypeOK
<1>9. Sending'
  BY <1>1 DEF Sending, ClockKept, Current
<1> QED
  BY <1>4, <1>6, <1>7, <1>8, <1>9 DEF WritesInv, NamesNoLaterWrite

LEMMA DeviceAcksKeeps ==
    ASSUME WritesInv, NEW d \in Device, DeviceAcks(d) PROVE WritesInv'
<1>1. PICK names \in BOOLEAN :
          acks' = [acks EXCEPT ![d] = Append(@, [no |-> Head(toDevice[d]).no,
                                                 reg |-> Head(toDevice[d]).reg,
                                                 names |-> names])]
  BY DEF DeviceAcks
<1>2. /\ toDevice[d] # <<>> /\ toDevice' = [toDevice EXCEPT ![d] = Tail(@)]
      /\ UNCHANGED <<made, pending, disabled, sender, clock, strayed, logged, stage>>
  BY DEF DeviceAcks, queues
<1>3. /\ Ordered(d) /\ toDevice \in [Device -> Seq(Write)] /\ acks \in [Device -> Seq(Ack)]
      /\ toDevice[d] \in Seq(Write) /\ acks[d] \in Seq(Ack)
  BY DEF WritesInv, WritesTypeOK
<1> DEFINE w == Head(toDevice[d])
           a == [no |-> w.no, reg |-> w.reg, names |-> names]
<1>4. /\ Increasing(Tail(toDevice[d])) /\ Tail(toDevice[d]) \in Seq(Write)
      /\ w \in ToSet(toDevice[d]) /\ ToSet(Tail(toDevice[d])) \subseteq ToSet(toDevice[d])
      /\ \A x \in ToSet(Tail(toDevice[d])) : w.no < x.no
  BY <1>2, <1>3, TailIncreasing, Numbered DEF Ordered
<1>5. a \in Ack /\ a.no = w.no /\ a.reg = w.reg
  <2>1. w \in Write
    BY <1>3, <1>4, InSequence
  <2> QED
    BY <2>1, LimitAssumption DEF Ack, Write
<1> HIDE DEF w
<1>6. \A x \in ToSet(acks[d]) : x.no < a.no
  BY <1>3, <1>4, <1>5 DEF Ordered
<1> HIDE DEF a
<1>7. /\ Increasing(Append(acks[d], a)) /\ Append(acks[d], a) \in Seq(Ack)
      /\ ToSet(Append(acks[d], a)) = ToSet(acks[d]) \cup {a}
  BY <1>3, <1>5, <1>6, AppendIncreasing, Numbered DEF Ordered
<1>8. /\ toDevice'[d] = Tail(toDevice[d]) /\ acks'[d] = Append(acks[d], a)
      /\ toDevice' \in [Device -> Seq(Write)] /\ acks' \in [Device -> Seq(Ack)]
      /\ \A e \in Device \ {d} : toDevice'[e] = toDevice[e] /\ acks'[e] = acks[e]
  BY <1>1, <1>2, <1>3, <1>4, <1>7 DEF a, w
<1>9. \A b \in ToSet(acks'[d]), x \in ToSet(toDevice'[d]) : b.no < x.no
  BY <1>3, <1>4, <1>5, <1>7, <1>8 DEF Ordered
<1>10. \A b \in ToSet(acks'[d]) :
          b \in ToSet(acks[d]) \/ \E x \in ToSet(toDevice[d]) : b.no = x.no /\ b.reg = x.reg
  BY <1>4, <1>5, <1>7, <1>8
<1> QED
  BY <1>2, <1>4, <1>7, <1>8, <1>9, <1>10, TravelKeeps

LEMMA LostKeeps ==
    ASSUME WritesInv, NEW d \in Device, Lost(d) PROVE WritesInv'
<1>1. UNCHANGED <<made, pending, disabled, sender, clock, strayed, logged, stage>>
  BY DEF Lost, queues
<1>2. /\ Ordered(d) /\ toDevice \in [Device -> Seq(Write)] /\ acks \in [Device -> Seq(Ack)]
      /\ toDevice[d] \in Seq(Write) /\ acks[d] \in Seq(Ack)
  BY DEF WritesInv, WritesTypeOK
<1>3. CASE toDevice[d] # <<>> /\ toDevice' = [toDevice EXCEPT ![d] = Tail(@)] /\ acks' = acks
  <2>1. /\ Increasing(Tail(toDevice[d])) /\ Tail(toDevice[d]) \in Seq(Write)
        /\ ToSet(Tail(toDevice[d])) \subseteq ToSet(toDevice[d])
    BY <1>2, <1>3, TailIncreasing, Numbered DEF Ordered
  <2>2. /\ toDevice'[d] = Tail(toDevice[d]) /\ toDevice' \in [Device -> Seq(Write)]
        /\ \A e \in Device \ {d} : toDevice'[e] = toDevice[e]
    BY <1>2, <1>3, <2>1
  <2>3. \A a \in ToSet(acks'[d]), w \in ToSet(toDevice'[d]) : a.no < w.no
    BY <1>2, <1>3, <2>1, <2>2 DEF Ordered
  <2>4. Increasing(acks'[d])
    BY <1>2, <1>3 DEF Ordered
  <2> QED
    BY <1>1, <1>2, <1>3, <2>1, <2>2, <2>3, <2>4, TravelKeeps
<1>4. CASE acks[d] # <<>> /\ acks' = [acks EXCEPT ![d] = Tail(@)] /\ toDevice' = toDevice
  <2>1. /\ Increasing(Tail(acks[d])) /\ Tail(acks[d]) \in Seq(Ack)
        /\ ToSet(Tail(acks[d])) \subseteq ToSet(acks[d])
    BY <1>2, <1>4, TailIncreasing, Numbered DEF Ordered
  <2>2. /\ acks'[d] = Tail(acks[d]) /\ acks' \in [Device -> Seq(Ack)]
        /\ \A e \in Device \ {d} : acks'[e] = acks[e]
    BY <1>2, <1>4, <2>1
  <2>3. \A a \in ToSet(acks'[d]), w \in ToSet(toDevice'[d]) : a.no < w.no
    BY <1>2, <1>4, <2>1, <2>2 DEF Ordered
  <2>4. Increasing(toDevice'[d])
    BY <1>2, <1>4 DEF Ordered
  <2> QED
    BY <1>1, <1>2, <1>4, <2>1, <2>2, <2>3, <2>4, TravelKeeps
<1> QED
  BY <1>3, <1>4 DEF Lost

\* If the write of an acknowledgement is pending, no later one is taken for it.
LEMMA MatchesNoLater ==
    ASSUME NEW q \in Seq(Write), Increasing(q), NEW a, NEW at \in Matches(q, a),
           NEW w \in ToSet(q), w.no = a.no, w.reg = a.reg
    PROVE  q[at].no <= a.no
<1>1. DOMAIN q = 1..Len(q) /\ Len(q) \in Nat /\ at \in 1..Len(q)
  BY LenProperties DEF Matches
<1>2. PICK i \in 1..Len(q) : q[i] = w
  BY <1>1 DEF ToSet
<1>3. at <= i
  BY <1>1, <1>2 DEF Matches
<1>4. q[at] \in Write /\ q[i] \in Write
  BY <1>1, ElementOfSeq
<1>5. CASE at = i
  BY <1>2, <1>4, <1>5, Numbered
<1>6. CASE at < i
  BY <1>1, <1>2, <1>4, <1>6, Numbered DEF Increasing
<1> QED
  BY <1>1, <1>3, <1>5, <1>6

\* An acknowledgement takes at most one pending write away.
LEMMA AcknowledgedIs ==
    ASSUME WritesInv, NEW d \in Device, NEW a, a.no \in 0..MaxWrites, Acknowledged(d, a)
    PROVE  /\ pending' \in [Device -> Seq(Write)]
           /\ \A e \in Device \ {d} : pending'[e] = pending[e] /\ logged'[e] = logged[e]
           /\ Increasing(pending'[d]) /\ Len(pending'[d]) <= Limit
           /\ ToSet(pending'[d]) \subseteq ToSet(pending[d])
           /\ pending[d] = <<>> => pending'[d] = <<>>
           /\ logged' \in [Device -> [for : 0..MaxWrites, named : 0..MaxWrites]]
           /\ \A w \in ToSet(pending[d]) : w.no = a.no /\ w.reg = a.reg =>
                 /\ \A x \in ToSet(pending[d]) : a.no < x.no => x \in ToSet(pending'[d])
                 /\ logged'[d] = logged[d] \/ logged'[d].named <= logged'[d].for
           /\ pending[d] = <<>> =>
                 logged'[d] = logged[d] \/ logged'[d].named <= logged'[d].for
<1> DEFINE q == pending[d]
<1>1. /\ q \in Seq(Write) /\ Increasing(q) /\ Len(q) <= Limit /\ Len(q) \in Nat
      /\ pending \in [Device -> Seq(Write)] /\ WritesTypeOK
      /\ logged \in [Device -> [for : 0..MaxWrites, named : 0..MaxWrites]]
  BY LenProperties DEF WritesInv, WritesTypeOK, Ordered, Tracked
<1>2. CASE UNCHANGED <<pending, logged>>
  BY <1>1, <1>2
<1>3. CASE /\ UNCHANGED pending
           /\ logged' = [logged EXCEPT ![d] = [for |-> a.no, named |-> 0]]
  <2>1. logged'[d] = [for |-> a.no, named |-> 0] /\ 0 <= a.no
        /\ [for |-> a.no, named |-> 0] \in [for : 0..MaxWrites, named : 0..MaxWrites]
    BY <1>1, <1>3, LimitAssumption
  <2>2. \A e \in Device \ {d} : logged'[e] = logged[e]
    BY <1>1, <1>3
  <2>3. logged' \in [Device -> [for : 0..MaxWrites, named : 0..MaxWrites]]
    BY <1>1, <1>3, <2>1
  <2> QED
    BY <1>1, <1>3, <2>1, <2>2, <2>3
<1>4. ASSUME NEW at \in Matches(q, a),
             pending' = [pending EXCEPT ![d] = RemoveAt(@, at)],
             logged' = [logged EXCEPT ![d] =
                          [for |-> a.no, named |-> IF a.names THEN 0 ELSE pending[d][at].no]]
      PROVE  /\ pending' \in [Device -> Seq(Write)]
             /\ \A e \in Device \ {d} : pending'[e] = pending[e] /\ logged'[e] = logged[e]
             /\ Increasing(pending'[d]) /\ Len(pending'[d]) <= Limit
             /\ ToSet(pending'[d]) \subseteq ToSet(q)
             /\ q # <<>>
             /\ logged' \in [Device -> [for : 0..MaxWrites, named : 0..MaxWrites]]
             /\ \A w \in ToSet(q) : w.no = a.no /\ w.reg = a.reg =>
                   /\ \A x \in ToSet(q) : a.no < x.no => x \in ToSet(pending'[d])
                   /\ logged'[d].named <= logged'[d].for
  <2>1. at \in 1..Len(q) /\ q # <<>>
    <3>1. at \in DOMAIN q
      BY <1>4 DEF Matches
    <3>2. DOMAIN q = 1..Len(q)
      BY <1>1, LenProperties
    <3> QED
      BY <1>1, <3>1, <3>2, EmptySeq
  <2>2. /\ Increasing(RemoveAt(q, at)) /\ RemoveAt(q, at) \in Seq(Write)
        /\ Len(RemoveAt(q, at)) = Len(q) - 1
        /\ ToSet(RemoveAt(q, at)) = ToSet(q) \ {q[at]}
    BY <1>1, <2>1, RemoveIncreasing, Numbered
  <2>3. /\ pending'[d] = RemoveAt(q, at) /\ pending' \in [Device -> Seq(Write)]
        /\ \A e \in Device \ {d} : pending'[e] = pending[e]
    BY <1>1, <1>4, <2>2
  <2>4. q[at] \in Write /\ q[at].no \in 0..MaxWrites
    <3>1. q[at] \in Write
      BY <1>1, <2>1, ElementOfSeq
    <3>2. 1..MaxWrites \subseteq 0..MaxWrites
      BY LimitAssumption
    <3> QED
      BY <3>1, <3>2 DEF Write
  <2> DEFINE new == [for |-> a.no, named |-> IF a.names THEN 0 ELSE q[at].no]
  <2>5. new \in [for : 0..MaxWrites, named : 0..MaxWrites] /\ new.for = a.no
        /\ (new.named = 0 \/ new.named = q[at].no)
    <3>1. 0 \in 0..MaxWrites
      BY LimitAssumption
    <3> QED
      BY <2>4, <3>1
  <2>6. logged' = [logged EXCEPT ![d] = new]
    BY <1>4
  <2> HIDE DEF new
  <2>7. /\ logged'[d] = new /\ \A e \in Device \ {d} : logged'[e] = logged[e]
        /\ logged' \in [Device -> [for : 0..MaxWrites, named : 0..MaxWrites]]
    BY <1>1, <2>5, <2>6
  <2>8. Len(pending'[d]) <= Limit
    BY <1>1, <2>2, <2>3, LimitAssumption
  <2>9. ASSUME NEW w \in ToSet(q), w.no = a.no, w.reg = a.reg
        PROVE  /\ \A x \in ToSet(q) : a.no < x.no => x \in ToSet(pending'[d])
               /\ logged'[d].named <= logged'[d].for
    <3>1. q[at].no <= a.no
      BY <1>1, <1>4, <2>9, MatchesNoLater
    <3>2. \A x \in ToSet(q) : a.no < x.no => x # q[at]
      BY <2>4, <3>1
    <3>3. 0 <= a.no
      OBVIOUS
    <3> QED
      BY <2>2, <2>3, <2>5, <2>7, <3>1, <3>2, <3>3
  <2> QED
    BY <2>1, <2>2, <2>3, <2>7, <2>8, <2>9
<1> QED
  BY <1>2, <1>3, <1>4 DEF Acknowledged

LEMMA AckArrivesKeeps ==
    ASSUME WritesInv, NEW d \in Device, AckArrives(d) PROVE WritesInv'
<1> DEFINE a == Head(acks[d])
<1>1. /\ acks[d] # <<>> /\ acks' = [acks EXCEPT ![d] = Tail(@)] /\ Acknowledged(d, a)
      /\ UNCHANGED <<made, disabled, sender, clock, toDevice, strayed, stage>>
  BY DEF AckArrives
<1>2. /\ Ordered(d) /\ Tracked(d) /\ WritesTypeOK /\ Sending /\ acks \in [Device -> Seq(Ack)]
      /\ acks[d] \in Seq(Ack) /\ toDevice[d] \in Seq(Write) /\ made[d] \in Nat
      /\ pending[d] \in Seq(Write)
  BY LimitAssumption DEF WritesInv, WritesTypeOK
<1>3. /\ Increasing(Tail(acks[d])) /\ Tail(acks[d]) \in Seq(Ack) /\ a \in ToSet(acks[d])
      /\ ToSet(Tail(acks[d])) \subseteq ToSet(acks[d])
      /\ \A x \in ToSet(Tail(acks[d])) : a.no < x.no
  BY <1>1, <1>2, TailIncreasing, Numbered DEF Ordered
<1>4. a \in Ack /\ a.no \in 0..MaxWrites
  <2>1. a \in Ack
    BY <1>2, <1>3, InSequence
  <2> QED
    BY <2>1 DEF Ack
<1> HIDE DEF a
<1>5. /\ acks'[d] = Tail(acks[d]) /\ acks' \in [Device -> Seq(Ack)]
      /\ \A e \in Device \ {d} : acks'[e] = acks[e]
  BY <1>1, <1>2, <1>3
<1>6. /\ pending' \in [Device -> Seq(Write)]
      /\ \A e \in Device \ {d} : pending'[e] = pending[e] /\ logged'[e] = logged[e]
      /\ Increasing(pending'[d]) /\ Len(pending'[d]) <= Limit
      /\ ToSet(pending'[d]) \subseteq ToSet(pending[d])
      /\ pending[d] = <<>> => pending'[d] = <<>>
      /\ logged' \in [Device -> [for : 0..MaxWrites, named : 0..MaxWrites]]
      /\ \A w \in ToSet(pending[d]) : w.no = a.no /\ w.reg = a.reg =>
            /\ \A x \in ToSet(pending[d]) : a.no < x.no => x \in ToSet(pending'[d])
            /\ logged'[d] = logged[d] \/ logged'[d].named <= logged'[d].for
      /\ pending[d] = <<>> => logged'[d] = logged[d] \/ logged'[d].named <= logged'[d].for
  BY <1>1, <1>4, AcknowledgedIs
<1>7. \A e \in Device : Writing(e)' = Writing(e)
  BY <1>1 DEF Writing, Current
<1>8. Ordered(d)'
  BY <1>1, <1>2, <1>3, <1>5, <1>6, <1>7 DEF Ordered
<1>9. ASSUME d \notin disabled \cup strayed, stage # "stopped"
      PROVE  \E w \in ToSet(pending[d]) : w.no = a.no /\ w.reg = a.reg
  <2>1. [no |-> a.no, reg |-> a.reg] \in OnTheWay(d)
    BY <1>3 DEF OnTheWay
  <2>2. [no |-> a.no, reg |-> a.reg] \in ToSet(pending[d])
    BY <1>2, <1>9, <2>1 DEF Tracked
  <2> QED
    BY <2>2
<1>10. Tracked(d)'
  <2>1. ASSUME d \notin disabled \cup strayed, stage # "stopped"
        PROVE  /\ OnTheWay(d)' \subseteq ToSet(pending'[d])
               /\ sender.at = "publish" /\ Current.dev = d => Sent \in ToSet(pending'[d])
    <3>1. \A x \in ToSet(pending[d]) : a.no < x.no => x \in ToSet(pending'[d])
      BY <1>6, <1>9, <2>1
    <3>2. \A x \in ToSet(toDevice[d]) : x \in ToSet(pending'[d])
      BY <1>2, <1>3, <2>1, <3>1 DEF Ordered, Tracked, OnTheWay
    <3>3. ASSUME NEW b \in ToSet(acks'[d])
          PROVE  [no |-> b.no, reg |-> b.reg] \in ToSet(pending'[d])
      <4>1. b \in ToSet(acks[d]) /\ a.no < b.no
        BY <1>3, <1>5, <3>3
      <4>2. [no |-> b.no, reg |-> b.reg] \in ToSet(pending[d])
        BY <1>2, <2>1, <4>1 DEF Tracked, OnTheWay
      <4> QED
        BY <3>1, <4>1, <4>2
    <3>4. ASSUME sender.at = "publish", Current.dev = d PROVE Sent \in ToSet(pending'[d])
      <4>1. Sent \in ToSet(pending[d]) /\ Sent.no = made[d]
        BY <1>2, <2>1, <3>4 DEF Tracked, Sent
      <4>2. a.no < made[d]
        BY <1>2, <1>3, <3>4 DEF Ordered, Writing
      <4> QED
        BY <3>1, <4>1, <4>2
    <3> QED
      BY <1>1, <3>2, <3>3, <3>4 DEF OnTheWay
  <2>2. Current' = Current /\ Sent' = Sent
    BY <1>1 DEF Current, Sent
  <2> QED
    BY <1>1, <1>2, <1>6, <2>1, <2>2 DEF Tracked
<1>11. ASSUME NEW e \in Device, e # d PROVE Ordered(e)' /\ Tracked(e)'
  <2>1. SameDevice(e) /\ Current' = Current
    BY <1>1, <1>5, <1>6, <1>11 DEF SameDevice, Current
  <2> QED
    BY <1>1, <1>7, <2>1, DeviceKeeps
<1>12. NamesNoLaterWrite'
  <2>1. ASSUME d \notin strayed PROVE logged'[d].named <= logged'[d].for
    <3>1. logged[d].named <= logged[d].for
      BY <2>1 DEF WritesInv, NamesNoLaterWrite
    <3>2. CASE d \in disabled \/ stage = "stopped"
      BY <1>2, <1>6, <3>1, <3>2 DEF Tracked
    <3>3. CASE d \notin disabled /\ stage # "stopped"
      BY <1>6, <1>9, <2>1, <3>1, <3>3
    <3> QED
      BY <3>2, <3>3
  <2> QED
    BY <1>1, <1>6, <2>1 DEF WritesInv, NamesNoLaterWrite
<1>13. WritesTypeOK'
  BY <1>1, <1>2, <1>5, <1>6 DEF WritesTypeOK
<1>14. Sending'
  BY <1>1, <1>2 DEF Sending, ClockKept, Current
<1> QED
  BY <1>8, <1>10, <1>11, <1>12, <1>13, <1>14 DEF WritesInv

LEMMA StrayAckKeeps ==
    ASSUME WritesInv, NEW d \in Device, StrayAck(d) PROVE WritesInv'
<1>1. PICK a : a.no = 0 /\ Acknowledged(d, a)
  BY DEF StrayAck
<1>2. /\ strayed' = strayed \cup {d}
      /\ UNCHANGED <<made, disabled, sender, clock, toDevice, acks, stage>>
  BY DEF StrayAck
<1>3. a.no \in 0..MaxWrites
  BY <1>1, LimitAssumption
<1>4. /\ pending' \in [Device -> Seq(Write)]
      /\ \A e \in Device \ {d} : pending'[e] = pending[e] /\ logged'[e] = logged[e]
      /\ Increasing(pending'[d]) /\ Len(pending'[d]) <= Limit
      /\ ToSet(pending'[d]) \subseteq ToSet(pending[d])
      /\ pending[d] = <<>> => pending'[d] = <<>>
      /\ logged' \in [Device -> [for : 0..MaxWrites, named : 0..MaxWrites]]
  BY <1>1, <1>3, AcknowledgedIs
<1>5. \A e \in Device : Writing(e)' = Writing(e)
  BY <1>2 DEF Writing, Current
<1>6. Ordered(d)' /\ Tracked(d)'
  BY <1>2, <1>4, <1>5 DEF WritesInv, Ordered, Tracked
<1>7. ASSUME NEW e \in Device, e # d PROVE Ordered(e)' /\ Tracked(e)'
  <2>1. SameDevice(e) /\ Current' = Current
    BY <1>2, <1>4, <1>7 DEF SameDevice, Current
  <2> QED
    BY <1>2, <1>5, <1>7, <2>1, DeviceKeeps
<1>8. WritesTypeOK'
  BY <1>2, <1>4 DEF WritesInv, WritesTypeOK
<1>9. Sending' /\ NamesNoLaterWrite'
  BY <1>2, <1>4 DEF WritesInv, Sending, ClockKept, Current, NamesNoLaterWrite
<1> QED
  BY <1>6, <1>7, <1>8, <1>9 DEF WritesInv

-----------------------------------------------------------------------------
LEMMA WritesInitial == InitWrites => WritesInv
<1> SUFFICES ASSUME InitWrites PROVE WritesInv
  OBVIOUS
<1>1. \A S : <<>> \in Seq(S)
  BY EmptySeq
<1>2. Len(<<>>) = 0 /\ 0 <= Limit /\ 0 \in 0..MaxWrites
  BY LimitAssumption
<1>3. WritesTypeOK
  BY <1>1, <1>2 DEF InitWrites, WritesTypeOK, Idle
<1>4. Sending /\ NamesNoLaterWrite
  BY DEF InitWrites, Sending, NamesNoLaterWrite, ClockKept, Idle
<1>5. ASSUME NEW d \in Device PROVE Ordered(d) /\ Tracked(d)
  <2>1. /\ made[d] = 0 /\ pending[d] = <<>> /\ toDevice[d] = <<>> /\ acks[d] = <<>>
        /\ sender.at = "idle"
    BY DEF InitWrites, Idle
  <2> QED
    BY <1>2, <2>1, EmptyIncreasing DEF Ordered, Tracked, OnTheWay
<1> QED
  BY <1>3, <1>4, <1>5 DEF WritesInv

LEMMA WritesStep == WritesInv /\ [NextWrites]_writesVars => WritesInv'
<1> SUFFICES ASSUME WritesInv, [NextWrites]_writesVars PROVE WritesInv'
  OBVIOUS
<1>1. ASSUME NEW d \in Device, NEW r \in Register, Command(d, r) PROVE WritesInv'
  BY <1>1, CommandKeeps
<1>2. CASE ClockRuns
  BY <1>2, ClockRunsKeeps
<1>3. CASE Reserve
  BY <1>3, ReserveKeeps
<1>4. CASE PublishAccepted
  BY <1>4, AcceptedKeeps
<1>5. CASE PublishRejected
  BY <1>5, RejectedKeeps
<1>6. CASE RollBack
  BY <1>6, RollBackKeeps
<1>7. CASE Finishes
  BY <1>7, FinishesKeeps
<1>8. ASSUME NEW d \in Device, DeviceAcks(d) PROVE WritesInv'
  BY <1>8, DeviceAcksKeeps
<1>9. ASSUME NEW d \in Device, Lost(d) PROVE WritesInv'
  BY <1>9, LostKeeps
<1>10. ASSUME NEW d \in Device, AckArrives(d) PROVE WritesInv'
  BY <1>10, AckArrivesKeeps
<1>11. ASSUME NEW d \in Device, StrayAck(d) PROVE WritesInv'
  BY <1>11, StrayAckKeeps
<1>12. CASE HomeAssistantStops \/ SourceStops
  BY <1>12, StopsKeep
<1>13. CASE SourceStopped
  BY <1>13, SourceStoppedKeeps
<1>14. CASE UNCHANGED writesVars
  <2>1. /\ UNCHANGED <<made, pending, disabled, sender, clock, toDevice, acks, strayed,
                       logged, stage>>
    BY <1>14 DEF writesVars
  <2> QED
    BY <2>1 DEF WritesInv, WritesTypeOK, Sending, NamesNoLaterWrite, ClockKept, Ordered,
                Tracked, OnTheWay, Writing, Current, Sent
<1> QED
  BY <1>1, <1>2, <1>3, <1>4, <1>5, <1>6, <1>7, <1>8, <1>9, <1>10, <1>11, <1>12, <1>13,
     <1>14 DEF NextWrites

\* What is known of the writes of a device is in the order in which they were made.
THEOREM WritesInvariant == WritesSpec => []WritesInv
<1> QED
  BY WritesInitial, WritesStep, PTL DEF WritesSpec

\* What a device may still acknowledge is pending (client.py:382-423), for any number
\* of devices, registers and writes and any limit.
THEOREM UnansweredTracked == WritesSpec => []TracksUnanswered
<1>1. WritesInv => TracksUnanswered
  BY DEF WritesInv, Tracked, Ordered, Increasing, TracksUnanswered
<1> QED
  BY <1>1, WritesInvariant, PTL

\* No acknowledgement is taken for one of a later write (client.py:388).
THEOREM NoLaterWriteNamed == WritesSpec => []NamesNoLaterWrite
<1>1. WritesInv => NamesNoLaterWrite
  BY DEF WritesInv
<1> QED
  BY <1>1, WritesInvariant, PTL

\* The clock timer comes back whatever fails (time_sync_runtime.py:58).
THEOREM ClockComesBack == WritesSpec => []ClockKept
<1>1. WritesInv => ClockKept
  BY DEF WritesInv, Sending
<1> QED
  BY <1>1, WritesInvariant, PTL
=============================================================================
