-------------------------- MODULE DeviceConfigStore -------------------------
(***************************************************************************)
(* The config of one device, in _config_cache and in config_<device>.json  *)
(* (grobro/ha/config_runtime.py, grobro/model/device_config.py): partial    *)
(* packets merged into it, the comparison that saves writes, writes that    *)
(* fail and are retried, the snapshot that saves reads, and the process     *)
(* killed at any point.  Devices have a file and a cache entry each and do  *)
(* not meet.                                                               *)
(***************************************************************************)
EXTENDS Naturals

CONSTANTS
    Value,      \* values of a field
    ReadsFail   \* whether a file that exists may be unreadable for a while

None == "none"

ASSUME ValueAssumption == None \notin Value
ASSUME ReadsFailAssumption == ReadsFail \in BOOLEAN

VARIABLES
    up,       \* the process runs
    cache,    \* _config_cache[device]
    dirty,    \* the device is in _dirty_device_configs
    snap,     \* _persisted_config_snapshots: the parsed file
    current,  \* its signature is that of the file
    disk      \* config_<device>.json

vars == <<up, cache, dirty, snap, current, disk>>

-----------------------------------------------------------------------------
Field == Value \cup {None}

\* A config by what persistence does with its fields: `kept` stands for those
\* compared with the file (_PERSISTED_RUNTIME_FIELDS), `vol` for those saved with
\* them but not compared, and `secret` tells whether there is a password or raw.
Config == [kept : Field, vol : Field, secret : BOOLEAN]

NoConfig == [file |-> "none"]  \* no file, or no config read from one
Torn == [file |-> "torn"]      \* a file that does not parse

Minimal == [kept |-> None, vol |-> None, secret |-> FALSE]

Later(old, new) == IF new = None THEN old ELSE new

\* A mutant of Merged: a packet replaces what was known.
MergedReplaces(old, new) == new

\* _merge_config
Merged(old, new) ==
    IF old = NoConfig THEN new
    ELSE [kept |-> Later(old.kept, new.kept), vol |-> Later(old.vol, new.vol),
          secret |-> (old.secret \/ new.secret)]

-----------------------------------------------------------------------------
\* from_file, when the file can be read and when not
Parsed(readable) == IF readable /\ disk # Torn THEN disk ELSE NoConfig

ReadOutcome == {TRUE} \cup {~ReadsFail}
\* A mutant of Loaded: the snapshot is taken for the file whatever its signature.
LoadedStale(readable) ==
    IF readable /\ disk # NoConfig /\ snap # NoConfig THEN snap ELSE Parsed(readable)

\* load_persisted_config
Loaded(readable) ==
    IF readable /\ disk # NoConfig /\ current THEN snap ELSE Parsed(readable)

LoadedSnapshot(readable) ==
    /\ snap' = Loaded(readable)
    /\ current' = (Loaded(readable) # NoConfig)

\* The process is killed while it writes, the write fails, or it is done.
WriteOutcome == {"done", "failed", "killed"}

\* to_file: the file after it, which os.replace changes in one step
Written(c, w) == IF w = "done" THEN [c EXCEPT !.secret = FALSE] ELSE disk

\* Whether persist_device_config leaves the device for a retry.
Failed(w) == w = "failed"

\* The handler that persists c goes on, or the process is gone.  The snapshot s of
\* the file is current, if k, until the file is replaced.
Persist(c, w, s, k) ==
    /\ disk' = Written(c, w)
    /\ dirty' = Failed(w)
    /\ up' = (w # "killed")
    /\ cache' = IF w = "killed" THEN NoConfig ELSE c
    /\ snap' = IF w = "killed" THEN NoConfig ELSE s
    /\ current' = (k /\ w = "failed")

Init ==
    /\ up = FALSE
    /\ cache = NoConfig /\ snap = NoConfig
    /\ dirty = FALSE /\ current = FALSE
    /\ disk \in Config \cup {NoConfig}

\* restore_config_cache_by_filename
Restart ==
    /\ ~up
    /\ up' = TRUE
    /\ \E readable \in ReadOutcome : cache' = Parsed(readable)
    /\ UNCHANGED <<dirty, snap, current, disk>>

Killed ==
    /\ up
    /\ up' = FALSE
    /\ cache' = NoConfig /\ snap' = NoConfig
    /\ dirty' = FALSE /\ current' = FALSE
    /\ UNCHANGED disk

\* A mutant of WriteDue: what an older version left in the file is not looked at.
WriteDueKeepsSecrets(existing, c) ==
    existing = NoConfig \/ existing.kept # c.kept

WriteDue(existing, c) ==
    existing = NoConfig \/ existing.secret \/ existing.kept # c.kept

Effective(existing, c) == Merged(IF cache = NoConfig THEN existing ELSE cache, c)

\* set_config, for the incoming c
SetConfig(c, readable, w) ==
    LET existing == Loaded(readable)
        effective == Effective(existing, c)
    IN  /\ up
        /\ IF WriteDue(existing, effective)
           THEN Persist(effective, w, existing, existing # NoConfig)
           ELSE /\ LoadedSnapshot(readable)
                /\ cache' = effective
                /\ UNCHANGED <<up, dirty, disk>>

\* A mutant of Retried: nothing is retried.
RetriedNever(w) == UNCHANGED vars

\* retry_pending_device_config
Retried(w) == dirty /\ Persist(cache, w, snap, current)

\* __device_info_from_config without a config in the cache
DeviceInfo(readable, w) ==
    IF Parsed(readable) # NoConfig
    THEN cache' = Parsed(readable) /\ UNCHANGED <<up, dirty, snap, current, disk>>
    ELSE Persist(Minimal, w, snap, current)

\* publish_input_register: the retry, and device info for a discovery that is due
Telemetry(readable, w) ==
    /\ up
    /\ \/ Retried(w)
       \/ ~dirty /\ cache = NoConfig /\ DeviceInfo(readable, w)

Next ==
    \/ Restart \/ Killed
    \/ \E c \in Config, r \in ReadOutcome, w \in WriteOutcome : SetConfig(c, r, w)
    \/ \E r \in ReadOutcome, w \in WriteOutcome : Telemetry(r, w)

Spec == Init /\ [][Next]_vars

\* The device sends config and telemetry now and then while writes succeed, and
\* the process is started again.
FairSpec ==
    /\ Spec
    /\ WF_vars(Restart)
    /\ SF_vars(\E c \in Config, r \in ReadOutcome : SetConfig(c, r, "done"))
    /\ SF_vars(\E r \in ReadOutcome : Telemetry(r, "done"))

-----------------------------------------------------------------------------
\* Types: in particular, "Atomic replacement prevents a restart/power-loss during a
\* write from leaving a truncated" file (device_config.py:81).
TypeOK ==
    /\ up \in BOOLEAN /\ dirty \in BOOLEAN /\ current \in BOOLEAN
    /\ cache \in Config \cup {NoConfig}
    /\ snap \in Config \cup {NoConfig}
    /\ disk \in Config \cup {NoConfig}

\* What the process knows and a restart needs is in the file, or is dirty and will
\* be retried (config_runtime.py:112), although writes are saved by comparing with
\* a snapshot of the file (client.py:307).
CacheOnDisk ==
    up /\ cache # NoConfig /\ ~dirty => disk # NoConfig /\ disk.kept = cache.kept

\* "Preserve known values when a later device config packet is partial"
\* (config_runtime.py:40), across failed writes, kills and restarts: no step makes
\* the file forget a field it had.
Covers(old, new) == (old.kept # None => new.kept # None) /\ (old.vol # None => new.vol # None)

KnownSurvives == [][disk # NoConfig => disk' # NoConfig /\ Covers(disk, disk')]_vars

\* A write that failed is repeated (config_runtime.py:112), and what the process knows
\* is in the file in the end, unless it learns better or is gone: no write is saved that
\* is needed, although they are saved by comparing with a snapshot (client.py:307).
Knows(k) == up /\ cache # NoConfig /\ cache.kept = k

KnownSaved ==
    /\ dirty ~> ~dirty
    /\ \A k \in Field : Knows(k) ~> ~Knows(k) \/ (disk # NoConfig /\ disk.kept = k)

\* Credentials that an older version left in the file are removed (client.py:299).
SecretsLeave == <>[](disk # NoConfig => ~disk.secret)
=============================================================================
