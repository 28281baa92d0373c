------------------------ MODULE AvailabilityProofs -------------------------
(***************************************************************************)
(* Proofs about Availability, for any devices and timers.                  *)
(***************************************************************************)
EXTENDS Availability, TLAPS

\* A device's thread, if it has one, is the one its map holds (in a process that
\* was not stopped).
ThreadOwned == running => \A d \in Device : \A t \in mem[d].threads : t.id = mem[d].timer

\* What a device's memory looks like after each operation on it.
MemoryOK(m) ==
    /\ m \in Memory
    /\ \A t, u \in m.threads : t = u

Owned(m) == \A t \in m.threads : t.id = m.timer

Watched(m) == m.seen /\ \E t \in m.threads : t.id = m.timer

LEMMA ArmedOK ==
    ASSUME NEW m \in Memory, m.threads = {}, m.seen, NEW ok \in BOOLEAN
    PROVE  /\ MemoryOK(Armed(m, ok)) /\ Owned(Armed(m, ok))
           /\ Armed(m, ok).cached = m.cached
           /\ ok /\ m.seen => Watched(Armed(m, ok))
<1> DEFINE id == CHOOSE i \in FreshTimers(m) : TRUE
           t == [id |-> id, fired |-> FALSE]
<1>1. CASE ok /\ FreshTimers(m) # {}
  <2>1. id \in TimerId
    BY <1>1 DEF FreshTimers
  <2>2. Armed(m, ok) = [m EXCEPT !.timer = id, !.threads = m.threads \cup {t}]
    BY <1>1 DEF Armed
  <2> HIDE DEF id
  <2>3. t \in Thread /\ t.id = id
    BY <2>1 DEF Thread
  <2> HIDE DEF t
  <2>4. m.threads \cup {t} = {t}
    OBVIOUS
  <2>5. /\ Armed(m, ok) \in Memory /\ Armed(m, ok).threads = {t}
        /\ Armed(m, ok).timer = id /\ Armed(m, ok).cached = m.cached
        /\ Armed(m, ok).seen = m.seen
    BY <2>1, <2>2, <2>3, <2>4 DEF Memory
  <2> QED
    BY <2>3, <2>5 DEF MemoryOK, Owned, Watched
<1>2. CASE ~(ok /\ FreshTimers(m) # {})
  <2>1. Armed(m, ok) = [m EXCEPT !.timer = NoTimer]
    BY <1>2 DEF Armed
  <2>2. /\ Armed(m, ok) \in Memory /\ Armed(m, ok).threads = {}
        /\ Armed(m, ok).cached = m.cached
    BY <2>1 DEF Memory
  <2>3. ~ok
    BY <1>2, TimerIdAssumption DEF FreshTimers
  <2> QED
    BY <2>2, <2>3 DEF MemoryOK, Owned
<1> QED
  BY <1>1, <1>2

LEMMA SeenOK ==
    ASSUME NEW m, MemoryOK(m), Owned(m), NEW ok \in BOOLEAN
    PROVE  /\ MemoryOK(Seen(m, ok)) /\ Owned(Seen(m, ok))
           /\ Seen(m, ok).cached = m.cached
           /\ ok => Watched(Seen(m, ok))
<1> DEFINE s == [m EXCEPT !.seen = TRUE]
<1>1. /\ s \in Memory /\ s.threads = m.threads /\ s.timer = m.timer
      /\ s.cached = m.cached /\ s.seen
  BY DEF MemoryOK, Memory
<1>2. Seen(m, ok) = IF \E t \in m.threads : t.id = m.timer THEN s ELSE Armed(s, ok)
  BY DEF Seen
<1> HIDE DEF s
<1>3. CASE \E t \in m.threads : t.id = m.timer
  BY <1>1, <1>2, <1>3 DEF MemoryOK, Owned, Watched
<1>4. CASE ~\E t \in m.threads : t.id = m.timer
  <2>1. s.threads = {}
    BY <1>1, <1>4 DEF Owned
  <2> QED
    BY <1>1, <1>2, <1>4, <2>1, ArmedOK
<1> QED
  BY <1>3, <1>4

LEMMA PublishedOK ==
    ASSUME NEW m, MemoryOK(m), NEW v \in State
    PROVE  /\ MemoryOK(Published(m, v))
           /\ Owned(m) => Owned(Published(m, v))
           /\ Published(m, v).cached = IF link = "down" THEN m.cached ELSE v
<1> DEFINE p == [m EXCEPT !.cached = v]
<1>1. p \in Memory /\ p.threads = m.threads /\ p.timer = m.timer /\ p.cached = v
  BY DEF MemoryOK, Memory
<1> HIDE DEF p
<1>2. Published(m, v) = IF link = "down" THEN m ELSE p
  BY DEF Published, p
<1> QED
  BY <1>1, <1>2 DEF MemoryOK, Owned

LEMMA ForgottenOK ==
    ASSUME NEW m, MemoryOK(m)
    PROVE  /\ MemoryOK(Forgotten(m))
           /\ Owned(m) => Owned(Forgotten(m))
           /\ Forgotten(m).cached = "none"
  BY DEF MemoryOK, Memory, State, Forgotten, Owned

\* The thread that runs is the device's only one.
LEMMA CheckedOK ==
    ASSUME NEW d \in Device, NEW m \in Memory, m.threads = {}, NEW ok \in BOOLEAN,
           TimedOut(d) => m.seen
    PROVE  /\ MemoryOK(Checked(d, m, ok)) /\ Owned(Checked(d, m, ok))
           /\ Checked(d, m, ok).cached = IF TimedOut(d) /\ link # "down"
                                         THEN "offline" ELSE m.cached
           /\ ok /\ m.seen /\ ~TimedOut(d) => Watched(Checked(d, m, ok))
<1>1. CASE ~m.seen
  <2> DEFINE n == [m EXCEPT !.timer = NoTimer]
  <2>1. n \in Memory /\ n.threads = {} /\ n.cached = m.cached
    BY DEF Memory
  <2>2. Checked(d, m, ok) = n
    BY <1>1 DEF Checked
  <2> HIDE DEF n
  <2> QED
    BY <1>1, <2>1, <2>2 DEF MemoryOK, Owned
<1>2. CASE m.seen /\ TimedOut(d)
  <2> DEFINE gone == [m EXCEPT !.timer = NoTimer, !.seen = FALSE]
  <2>1. gone \in Memory /\ gone.threads = {} /\ gone.cached = m.cached
    BY DEF Memory
  <2>2. Checked(d, m, ok) = Published(gone, "offline")
    BY <1>2 DEF Checked
  <2> HIDE DEF gone
  <2>3. MemoryOK(gone) /\ Owned(gone) /\ "offline" \in State
    BY <2>1 DEF MemoryOK, Owned, State
  <2> QED
    BY <1>2, <2>1, <2>2, <2>3, PublishedOK
<1>3. CASE m.seen /\ ~TimedOut(d)
  BY <1>3, ArmedOK DEF Checked
<1> QED
  BY <1>1, <1>2, <1>3

-----------------------------------------------------------------------------
DownWhenStopped == ~running => link = "down"

IInv == /\ TypeOK
        /\ OneWatcher
        /\ ThreadOwned
        /\ CacheTellsTruth
        /\ OnlineIsWatched
        /\ DownWhenStopped

\* The part of IInv that is about one device.
Honest(d) ==
    running /\ handled /\ link = "up" =>
        /\ mem[d].cached # "none" => retained[d] = mem[d].cached
        /\ d \notin StartFails /\ mem[d].cached = "online" => Watched(mem[d])

DeviceOK(d) ==
    /\ MemoryOK(mem[d])
    /\ running => Owned(mem[d])
    /\ retained[d] \in State
    /\ Honest(d)

\* The part that is about the session.
SessionOK ==
    /\ quiet \in [Device -> BOOLEAN] /\ known \subseteq Device /\ saved \subseteq Device
    /\ bridge \in State /\ subscribed \in BOOLEAN /\ link \in {"up", "dying", "down"}
    /\ handled \in BOOLEAN /\ running \in BOOLEAN
    /\ pending \in [bridge : BOOLEAN, commands : BOOLEAN]
    /\ running /\ handled /\ link = "up" =>
          (~pending.bridge => bridge = "online") /\ (~pending.commands => subscribed)
    /\ DownWhenStopped

DevicesOK == \A d \in Device : DeviceOK(d)

Maps == mem = [d \in Device |-> mem[d]] /\ retained = [d \in Device |-> retained[d]]

LEMMA Parts == IInv <=> SessionOK /\ Maps /\ \A d \in Device : DeviceOK(d)
<1>1. ASSUME IInv PROVE SessionOK /\ Maps /\ \A d \in Device : DeviceOK(d)
  <2>1. SessionOK /\ Maps
    BY <1>1 DEF IInv, TypeOK, SessionOK, CacheTellsTruth, Maps
  <2>2. ASSUME NEW d \in Device PROVE DeviceOK(d)
    <3>1. mem[d] \in Memory /\ retained[d] \in State
      BY <1>1 DEF IInv, TypeOK
    <3>2. MemoryOK(mem[d]) /\ (running => Owned(mem[d]))
      BY <1>1, <3>1 DEF IInv, OneWatcher, ThreadOwned, MemoryOK, Owned
    <3>3. Honest(d)
      BY <1>1 DEF IInv, CacheTellsTruth, OnlineIsWatched, Honest, Watched
    <3> QED
      BY <3>1, <3>2, <3>3 DEF DeviceOK
  <2> QED
    BY <2>1, <2>2
<1>2. ASSUME SessionOK, Maps, \A d \in Device : DeviceOK(d) PROVE IInv
  <2>1. \A d \in Device : mem[d] \in Memory /\ retained[d] \in State
    BY <1>2 DEF DeviceOK, MemoryOK
  <2>2. mem \in [Device -> Memory] /\ retained \in [Device -> State]
    BY <2>1, <1>2 DEF Maps
  <2>3. TypeOK /\ DownWhenStopped
    BY <1>2, <2>2 DEF SessionOK, TypeOK
  <2>4. OneWatcher /\ ThreadOwned
    BY <1>2 DEF DeviceOK, MemoryOK, Owned, OneWatcher, ThreadOwned
  <2>5. CacheTellsTruth /\ OnlineIsWatched
    BY <1>2 DEF DeviceOK, Honest, SessionOK, CacheTellsTruth, OnlineIsWatched, Watched
  <2> QED
    BY <2>3, <2>4, <2>5 DEF IInv
<1> QED
  BY <1>1, <1>2

LEMMA PartsNext == IInv' <=> SessionOK' /\ Maps' /\ \A d \in Device : DeviceOK(d)'
<1>1. IInv' <=> SessionOK' /\ Maps' /\ DevicesOK'
  <2>1. IInv <=> SessionOK /\ Maps /\ DevicesOK
    BY Parts DEF DevicesOK
  <2> QED
    BY <2>1, PTL
<1> QED
  BY <1>1 DEF DevicesOK

LEMMA NothingOK == MemoryOK(Nothing) /\ Owned(Nothing) /\ Nothing.cached = "none"
  BY DEF MemoryOK, Owned, Nothing, Memory, State

LEMMA InitIInv == Init => IInv
<1> SUFFICES ASSUME Init PROVE IInv
  OBVIOUS
<1>1. SessionOK
  BY DEF Init, SessionOK, NonePending, State, DownWhenStopped
<1>2. Maps
  BY DEF Init, Maps
<1>3. ASSUME NEW d \in Device PROVE DeviceOK(d)
  BY NothingOK DEF Init, DeviceOK, Honest, State
<1> QED
  BY <1>1, <1>2, <1>3, Parts

-----------------------------------------------------------------------------
\* What SessionAnnounced and RefreshActivity do to the two parts of IInv.
LEMMA AnnouncedOK ==
    ASSUME SessionOK, NEW due \in [bridge : BOOLEAN, commands : BOOLEAN],
           SessionAnnounced(due), link' = link, running' = running,
           handled' \in BOOLEAN, handled' => handled \/ (due.bridge /\ due.commands),
           quiet' \in [Device -> BOOLEAN], known' \subseteq Device, saved' \subseteq Device
    PROVE  SessionOK'
<1>1. /\ pending' \in [bridge : BOOLEAN, commands : BOOLEAN]
      /\ pending'.bridge = IF due.bridge THEN link = "down" ELSE pending.bridge
      /\ pending'.commands = IF due.commands THEN link = "down" ELSE pending.commands
  BY DEF SessionAnnounced, SessionOK
<1>2. /\ bridge' = IF due.bridge /\ link = "up" THEN "online" ELSE bridge
      /\ subscribed' = (subscribed \/ (due.commands /\ link = "up"))
  BY DEF SessionAnnounced
<1>3. bridge' \in State /\ subscribed' \in BOOLEAN /\ handled' \in BOOLEAN
  <2>1. bridge' \in State
    BY <1>2 DEF SessionOK, State
  <2>2. subscribed' \in BOOLEAN
    BY <1>2
  <2>3. handled' \in BOOLEAN
    OBVIOUS
  <2> QED
    BY <2>1, <2>2, <2>3
<1>4. running' /\ handled' /\ link' = "up" =>
          (~pending'.bridge => bridge' = "online") /\ (~pending'.commands => subscribed')
  BY <1>1, <1>2 DEF SessionOK
<1> QED
  BY <1>1, <1>3, <1>4 DEF SessionOK, DownWhenStopped

LEMMA ActivityOK ==
    ASSUME NEW d \in Device, IInv, RefreshActivity(d), running,
           UNCHANGED <<link, handled, running>>,
           known' \subseteq Device, saved' \subseteq Device
    PROVE  IInv'
<1> USE Parts
<1>1. PICK ok \in StartOutcomes(d) :
          mem' = [mem EXCEPT ![d] = Seen(Published(mem[d], "online"), ok)]
  BY DEF RefreshActivity
<1>2. /\ retained' = [retained EXCEPT ![d] = Retained(d, mem[d], "online")]
      /\ quiet' = [quiet EXCEPT ![d] = FALSE] /\ SessionAnnounced(pending)
  BY DEF RefreshActivity
<1>3. ok \in BOOLEAN /\ (d \notin StartFails => ok)
  BY DEF StartOutcomes
<1>4. SessionOK'
  <2>1. /\ pending \in [bridge : BOOLEAN, commands : BOOLEAN]
        /\ quiet' \in [Device -> BOOLEAN]
    BY <1>2 DEF SessionOK
  <2>2. handled' = handled /\ handled \in BOOLEAN
    BY DEF SessionOK
  <2> QED
    BY <1>2, <2>1, <2>2, AnnouncedOK
<1>5. Maps'
  BY <1>1, <1>2 DEF Maps
<1>6. DeviceOK(d)'
  <2> DEFINE p == Published(mem[d], "online")
             n == Seen(p, ok)
  <2>1. mem'[d] = n /\ retained'[d] = Retained(d, mem[d], "online")
    BY <1>1, <1>2 DEF Maps
  <2>2. MemoryOK(p) /\ Owned(p) /\ p.cached = IF link = "down" THEN mem[d].cached
                                                               ELSE "online"
    BY PublishedOK DEF DeviceOK, State
  <2> HIDE DEF p
  <2>3. MemoryOK(n) /\ Owned(n) /\ n.cached = p.cached /\ (ok => Watched(n))
    BY <1>3, <2>2, SeenOK
  <2> HIDE DEF n
  <2>4. retained'[d] \in State
    BY <2>1 DEF Retained, DeviceOK, State
  <2>5. link = "up" /\ handled => retained'[d] = "online"
    BY <2>1 DEF Retained, DeviceOK, Honest
  <2> QED
    BY <1>3, <2>1, <2>2, <2>3, <2>4, <2>5 DEF DeviceOK, Honest
<1>7. ASSUME NEW e \in Device, e # d PROVE DeviceOK(e)'
  BY <1>1, <1>2, <1>7 DEF Maps, DeviceOK, Honest
<1> QED
  BY <1>4, <1>5, <1>6, <1>7, PartsNext

\* The timer's thread that runs leaves the device's memory in order.
LEMMA TimerRunsOK ==
    ASSUME NEW d \in Device, NEW t \in mem[d].threads, IInv, TimerRuns(d, t)
    PROVE  IInv'
<1> USE Parts
<1> DEFINE m == [mem[d] EXCEPT !.threads = mem[d].threads \ {t}]
           owner == m.timer = t.id
           n(ok) == IF owner THEN Checked(d, m, ok) ELSE m
<1>1. PICK ok \in StartOutcomes(d) : mem' = [mem EXCEPT ![d] = n(ok)]
  BY DEF TimerRuns
<1>2. /\ retained' = [retained EXCEPT ![d] = IF owner /\ TimedOut(d)
                                             THEN Retained(d, m, "offline")
                                             ELSE retained[d]]
      /\ UNCHANGED <<quiet, known, saved, bridge, subscribed, link, handled, pending, running>>
  BY DEF TimerRuns
<1>3. ok \in BOOLEAN /\ (d \notin StartFails => ok)
  BY DEF StartOutcomes
<1>4. SessionOK'
  BY <1>2 DEF SessionOK, DownWhenStopped
<1>5. Maps'
  BY <1>1, <1>2 DEF Maps
<1>6. /\ m \in Memory /\ m.threads = {} /\ m.cached = mem[d].cached
      /\ m.seen = mem[d].seen /\ m.timer = mem[d].timer
  <2>1. mem[d] \in Memory /\ \A u, w \in mem[d].threads : u = w
    BY DEF DeviceOK, MemoryOK
  <2>2. mem[d].threads \ {t} = {}
    BY <2>1
  <2> QED
    BY <2>1, <2>2 DEF Memory
<1>7. (running => owner) /\ (TimedOut(d) => m.seen)
  BY <1>6 DEF DeviceOK, Owned, TimedOut
<1>8. DeviceOK(d)'
  <2>1. mem'[d] = n(ok)
    BY <1>1 DEF Maps
  <2>2. retained'[d] = IF owner /\ TimedOut(d) THEN Retained(d, m, "offline")
                                               ELSE retained[d]
    BY <1>2 DEF Maps
  <2> HIDE DEF m
  <2>3. /\ MemoryOK(Checked(d, m, ok)) /\ Owned(Checked(d, m, ok))
        /\ Checked(d, m, ok).cached = IF TimedOut(d) /\ link # "down"
                                      THEN "offline" ELSE m.cached
        /\ ok /\ m.seen /\ ~TimedOut(d) => Watched(Checked(d, m, ok))
    BY <1>3, <1>6, <1>7, CheckedOK
  <2>4. MemoryOK(m) /\ Owned(m)
    BY <1>6 DEF MemoryOK, Owned
  <2>5. MemoryOK(mem'[d]) /\ Owned(mem'[d])
    BY <2>1, <2>3, <2>4
  <2>6. retained'[d] \in State
    BY <2>2 DEF Retained, DeviceOK, State
  <2>7. Honest(d)'
    <3> SUFFICES ASSUME running, handled, link = "up"
                 PROVE  /\ mem'[d].cached # "none" => retained'[d] = mem'[d].cached
                        /\ d \notin StartFails /\ mem'[d].cached = "online" => Watched(mem'[d])
      BY <1>2 DEF Honest
    <3>1. mem'[d] = Checked(d, m, ok)
      BY <1>7, <2>1
    <3>2. /\ m.cached # "none" => retained[d] = m.cached
          /\ d \notin StartFails /\ m.cached = "online" => m.seen
      BY <1>6 DEF DeviceOK, Honest, Watched
    <3>3. CASE TimedOut(d)
      BY <1>7, <2>2, <2>3, <3>1, <3>2, <3>3 DEF Retained
    <3>4. CASE ~TimedOut(d)
      BY <1>3, <2>2, <2>3, <3>1, <3>2, <3>4
    <3> QED
      BY <3>3, <3>4
  <2> QED
    BY <2>5, <2>6, <2>7 DEF DeviceOK
<1>9. ASSUME NEW e \in Device, e # d PROVE DeviceOK(e)'
  BY <1>1, <1>2, <1>9 DEF Maps, DeviceOK, Honest
<1> QED
  BY <1>4, <1>5, <1>8, <1>9, PartsNext

\* The recoveries: what they announce is what they remember.
LEMMA RecoveredOK ==
    ASSUME IInv, DevicesRecovered, running' = running, link' = link, SessionOK'
    PROVE  IInv'
<1> USE Parts
<1>1. Maps'
  BY DEF DevicesRecovered, Maps
<1>2. ASSUME NEW d \in Device PROVE DeviceOK(d)'
  <2> DEFINE f == Forgotten(mem[d])
  <2>1. /\ mem'[d] = IF d \in known THEN Published(f, "offline") ELSE f
        /\ retained'[d] = IF d \in known THEN Retained(d, f, "offline") ELSE retained[d]
    BY DEF DevicesRecovered
  <2>2. MemoryOK(f) /\ (Owned(mem[d]) => Owned(f)) /\ f.cached = "none"
    BY ForgottenOK DEF DeviceOK
  <2> HIDE DEF f
  <2>3. /\ MemoryOK(Published(f, "offline")) /\ (Owned(f) => Owned(Published(f, "offline")))
        /\ Published(f, "offline").cached = IF link = "down" THEN "none" ELSE "offline"
    BY <2>2, PublishedOK DEF State
  <2>4. retained'[d] \in State
    BY <2>1 DEF Retained, DeviceOK, State
  <2> QED
    BY <2>1, <2>2, <2>3, <2>4 DEF DeviceOK, Honest, Retained
<1> QED
  BY <1>1, <1>2, PartsNext

\* No step but these changes what IInv says of a device or of the session.
LEMMA UnchangedOK ==
    ASSUME IInv, SessionOK', UNCHANGED <<mem, retained>>,
           running' = running, handled' => handled, link' = "up" => link = "up"
    PROVE  IInv'
<1>1. Maps'
  BY Parts DEF Maps
<1>2. ASSUME NEW d \in Device PROVE DeviceOK(d)'
  BY Parts DEF DeviceOK, Honest
<1> QED
  BY <1>1, <1>2, PartsNext

LEMMA NextIInv == ASSUME IInv, [Next]_vars PROVE IInv'
<1> USE Parts
<1>1. ASSUME NEW d \in Device, Telemetry(d) PROVE IInv'
  <2>1. known' \subseteq Device /\ saved' \subseteq Device
    BY <1>1 DEF Telemetry, SessionOK
  <2> QED
    BY <1>1, <2>1, ActivityOK DEF Telemetry
<1>2. ASSUME NEW d \in Device, OtherActivity(d) PROVE IInv'
  <2>1. known' \subseteq Device /\ saved' \subseteq Device
    BY <1>2 DEF OtherActivity, SessionOK
  <2> QED
    BY <1>2, <2>1, ActivityOK DEF OtherActivity
<1>3. ASSUME NEW d \in Device, BecomesQuiet(d) PROVE IInv'
  <2>1. SessionOK'
    BY <1>3 DEF BecomesQuiet, SessionOK, DownWhenStopped, process, broker
  <2> QED
    BY <1>3, <2>1, UnchangedOK DEF BecomesQuiet, process, broker
<1>4. ASSUME NEW d \in Device, NEW t \in mem[d].threads, TimerFires(d, t) PROVE IInv'
  <2> DEFINE u == [t EXCEPT !.fired = TRUE]
             n == [mem[d] EXCEPT !.threads = (mem[d].threads \ {t}) \cup {u}]
  <2>1. mem' = [mem EXCEPT ![d] = n] /\ retained' = retained
    BY <1>4 DEF TimerFires, broker
  <2>2. mem[d] \in Memory /\ \A v, w \in mem[d].threads : v = w
    BY DEF DeviceOK, MemoryOK
  <2>3. u \in Thread /\ u.id = t.id
    BY <2>2 DEF Memory, Thread
  <2> HIDE DEF u
  <2>4. (mem[d].threads \ {t}) \cup {u} = {u}
    BY <2>2
  <2>5. /\ n \in Memory /\ n.threads = {u} /\ n.cached = mem[d].cached
        /\ n.seen = mem[d].seen /\ n.timer = mem[d].timer
    BY <2>2, <2>3, <2>4 DEF Memory
  <2> HIDE DEF n
  <2>6. MemoryOK(n) /\ (Owned(mem[d]) => Owned(n)) /\ (Watched(mem[d]) => Watched(n))
    BY <2>2, <2>3, <2>5 DEF MemoryOK, Owned, Watched
  <2>7. Maps' /\ mem'[d] = n
    BY <2>1 DEF Maps
  <2>8. SessionOK' /\ running' = running /\ handled' = handled /\ link' = link
    BY <1>4 DEF TimerFires, SessionOK, DownWhenStopped, broker
  <2>9. DeviceOK(d)'
    BY <2>1, <2>5, <2>6, <2>7, <2>8 DEF DeviceOK, Honest
  <2>10. ASSUME NEW e \in Device, e # d PROVE DeviceOK(e)'
    BY <2>1, <2>8, <2>10 DEF Maps, DeviceOK, Honest
  <2> QED
    BY <2>7, <2>8, <2>9, <2>10, PartsNext
<1>5. ASSUME NEW d \in Device, NEW t \in mem[d].threads, TimerRuns(d, t) PROVE IInv'
  BY <1>5, TimerRunsOK
<1>6. CASE SocketUp
  <2>1. SessionOK'
    BY <1>6 DEF SocketUp, SessionOK, DownWhenStopped
  <2>2. Maps' /\ \A d \in Device : DeviceOK(d)'
    BY <1>6 DEF SocketUp, Maps, DeviceOK, Honest
  <2> QED
    BY <2>1, <2>2, PartsNext
<1>7. CASE ConnectHandled
  <2> DEFINE due == [bridge |-> TRUE, commands |-> TRUE]
  <2>1. due \in [bridge : BOOLEAN, commands : BOOLEAN] /\ due.bridge /\ due.commands
    OBVIOUS
  <2>2. SessionAnnounced(due)
    BY <1>7 DEF ConnectHandled
  <2> HIDE DEF due
  <2>3. SessionOK'
    BY <1>7, <2>1, <2>2, AnnouncedOK DEF ConnectHandled, SessionOK
  <2> QED
    BY <1>7, <2>3, RecoveredOK DEF ConnectHandled
<1>8. CASE BirthMessage
  <2> DEFINE due == [bridge |-> FALSE, commands |-> TRUE]
  <2>1. due \in [bridge : BOOLEAN, commands : BOOLEAN]
    OBVIOUS
  <2>2. SessionAnnounced(due)
    BY <1>8 DEF BirthMessage
  <2> HIDE DEF due
  <2>3. SessionOK'
    BY <1>8, <2>1, <2>2, AnnouncedOK DEF BirthMessage, SessionOK
  <2> QED
    BY <1>8, <2>3, RecoveredOK DEF BirthMessage
<1>9. CASE LinkDies
  <2>1. SessionOK'
    BY <1>9 DEF LinkDies, SessionOK, DownWhenStopped, process, broker
  <2> QED
    BY <1>9, <2>1, UnchangedOK DEF LinkDies, process, broker
<1>10. CASE LinkDown
  <2>1. SessionOK'
    BY <1>10 DEF LinkDown, SessionOK, DownWhenStopped, process, State
  <2> QED
    BY <1>10, <2>1, UnchangedOK DEF LinkDown, process
<1>11. CASE Stop
  <2>1. SessionOK'
    BY <1>11 DEF Stop, SessionOK, DownWhenStopped, State
  <2>2. Maps'
    BY <1>11 DEF Stop, Maps
  <2>3. ASSUME NEW d \in Device PROVE DeviceOK(d)'
    <3> DEFINE left == {t \in mem[d].threads : t.fired}
               n == [Nothing EXCEPT !.threads = left]
    <3>1. mem'[d] = n /\ ~running'
      BY <1>11 DEF Stop
    <3>2. left \in SUBSET Thread /\ \A t, u \in left : t = u
      BY DEF DeviceOK, MemoryOK, Memory
    <3> HIDE DEF left
    <3>3. n \in Memory /\ n.threads = left
      BY <3>2 DEF Nothing, Memory, State
    <3>4. retained'[d] \in State
      BY <1>11 DEF Stop, Retained, DeviceOK, State
    <3> QED
      BY <3>1, <3>2, <3>3, <3>4 DEF DeviceOK, MemoryOK, Honest
  <2> QED
    BY <2>1, <2>2, <2>3, PartsNext
<1>12. CASE Crash
  <2>1. SessionOK'
    BY <1>12 DEF Crash, SessionOK, DownWhenStopped, State
  <2>2. Maps' /\ \A d \in Device : DeviceOK(d)'
    BY <1>12, NothingOK DEF Crash, Maps, DeviceOK, Honest
  <2> QED
    BY <2>1, <2>2, PartsNext
<1>13. CASE Restart
  <2>1. SessionOK'
    BY <1>13 DEF Restart, SessionOK, DownWhenStopped, NonePending, broker
  <2>2. Maps' /\ \A d \in Device : DeviceOK(d)'
    BY <1>13, NothingOK DEF Restart, Maps, DeviceOK, Honest, broker
  <2> QED
    BY <2>1, <2>2, PartsNext
<1>14. CASE UNCHANGED vars
  <2>1. SessionOK'
    BY <1>14 DEF vars, SessionOK, DownWhenStopped
  <2> QED
    BY <1>14, <2>1, UnchangedOK DEF vars
<1> QED
  BY <1>1, <1>2, <1>3, <1>4, <1>5, <1>6, <1>7, <1>8, <1>9, <1>10, <1>11, <1>12,
     <1>13, <1>14 DEF Next

-----------------------------------------------------------------------------
\* IInv is kept by every handler, timer, connection event and restart.
THEOREM InductiveInvariant == Spec => []IInv
  BY InitIInv, NextIInv, PTL DEF Spec

\* The state is typed.
THEOREM TypeCorrect == Spec => []TypeOK
<1>1. IInv => TypeOK
  BY DEF IInv
<1> QED
  BY <1>1, InductiveInvariant, PTL

\* The availability, bridge and subscription caches (client.py:1063, 710-722) only
\* suppress what the broker already holds.
THEOREM CachesTellTheTruth == Spec => []CacheTellsTruth
<1>1. IInv => CacheTellsTruth
  BY DEF IInv
<1> QED
  BY <1>1, InductiveInvariant, PTL

\* However timers fire, are lost or run late, an online device is watched.
THEOREM OnlineDevicesAreWatched == Spec => []OnlineIsWatched
<1>1. IInv => OnlineIsWatched
  BY DEF IInv
<1> QED
  BY <1>1, InductiveInvariant, PTL

\* Traffic does not pile up timer threads.
THEOREM AtMostOneTimer == Spec => []OneWatcher
<1>1. IInv => OneWatcher
  BY DEF IInv
<1> QED
  BY <1>1, InductiveInvariant, PTL

\* A timer that fired just before new traffic does not take its device offline.
THEOREM LiveDevicesStayOnline == Spec => LiveStaysOnline
<1> DEFINE Justified == \A d \in Device : retained[d] = "online" /\ retained'[d] = "offline" =>
                            quiet[d] \/ ConnectHandled \/ BirthMessage \/ Stop
<1>1. ASSUME TypeOK, [Next]_vars PROVE [Justified]_vars
  <2> SUFFICES ASSUME NEW d \in Device, retained[d] = "online", retained'[d] = "offline",
                      ~(ConnectHandled \/ BirthMessage \/ Stop)
               PROVE  quiet[d]
    OBVIOUS
  <2>1. ASSUME NEW e \in Device, NEW t \in mem[e].threads, TimerRuns(e, t) PROVE quiet[d]
    <3>1. retained'[d] # retained[d] => d = e /\ TimedOut(e)
      BY <2>1 DEF TimerRuns, TypeOK
    <3> QED
      BY <3>1 DEF TimedOut
  <2>2. ASSUME NEW e \in Device, RefreshActivity(e) PROVE FALSE
    BY <2>2 DEF RefreshActivity, TypeOK, Retained
  <2>3. ASSUME UNCHANGED retained PROVE FALSE
    BY <2>3
  <2> QED
    BY <1>1, <2>1, <2>2, <2>3 DEF Next, vars, broker, Telemetry, OtherActivity, BecomesQuiet,
       TimerFires, SocketUp, LinkDies, LinkDown, Crash, Restart
<1> QED
  BY <1>1, TypeCorrect, PTL DEF Spec, LiveStaysOnline
=============================================================================
