------------------------- MODULE ConfigReadsProofs -------------------------
(***************************************************************************)
(* Proofs about ConfigReads, for any devices, registers and timers.        *)
(*                                                                         *)
(* Everything a step does to one device is an operator on that device's    *)
(* record, so the argument is made per record: DeviceInv is kept by each   *)
(* operator, and every action applies one of them to each device.          *)
(***************************************************************************)
EXTENDS ConfigReads, TLAPS

\* q is what is left of full once its first elements are taken off.
IsRest(q, full) ==
    /\ Len(q) <= Len(full)
    /\ \A i \in 1..Len(q) : q[i] = full[Len(full) - Len(q) + i]

\* The queue is the rest of the device's register map.
OnCourse(d, s) == IsRest(s.queue, Regs[d])

DeviceInv(d, s) ==
    /\ s \in Reads
    /\ DeviceNotStuck(s)
    /\ DeviceTimersOwned(s)
    /\ OnCourse(d, s)

\* A sequence between two reads: what a start timer or a finished read hands to
\* __kickoff_next_config_read.
BetweenReads(d, s) ==
    /\ s \in Reads
    /\ s.active
    /\ s.inflight = NoReg
    /\ s.readTimer = NoTimer
    /\ DeviceTimersOwned(s)
    /\ OnCourse(d, s)

\* A timer that starts enters its map and the device's threads, nothing else.
LEMMA ArmedFields ==
    ASSUME NEW s \in Reads, FreshTimers(s) # {}, NEW k \in {"start", "read"},
           NEW r \in IF k = "start" THEN {NoReg} ELSE Register
    PROVE  \E id \in TimerId : \E t \in Thread :
               /\ t.id = id /\ t.kind = k /\ t.reg = r
               /\ LET a == Armed(s, k, r)
                  IN  /\ a \in Reads
                      /\ a.threads = s.threads \cup {t}
                      /\ a.startTimer = IF k = "start" THEN id ELSE s.startTimer
                      /\ a.readTimer = IF k = "read" THEN id ELSE s.readTimer
                      /\ a.queue = s.queue /\ a.inflight = s.inflight
                      /\ a.active = s.active /\ a.refreshed = s.refreshed
<1> DEFINE id == CHOOSE i \in FreshTimers(s) : TRUE
           t == [id |-> id, kind |-> k, reg |-> r, fired |-> FALSE]
           a == Armed(s, k, r)
<1>1. id \in TimerId
  BY DEF FreshTimers
<1>2. a = IF k = "start" THEN [s EXCEPT !.startTimer = id, !.threads = s.threads \cup {t}]
                         ELSE [s EXCEPT !.readTimer = id, !.threads = s.threads \cup {t}]
  BY DEF Armed
<1> HIDE DEF id, a
<1>3. t \in Thread /\ t.id = id /\ t.kind = k /\ t.reg = r
  BY <1>1 DEF Thread
<1> HIDE DEF t
<1>4. /\ a \in Reads
      /\ a.threads = s.threads \cup {t}
      /\ a.startTimer = IF k = "start" THEN id ELSE s.startTimer
      /\ a.readTimer = IF k = "read" THEN id ELSE s.readTimer
      /\ a.queue = s.queue /\ a.inflight = s.inflight
      /\ a.active = s.active /\ a.refreshed = s.refreshed
  <2>1. CASE k = "start"
    BY <1>1, <1>2, <1>3, <2>1 DEF Reads
  <2>2. CASE k = "read"
    BY <1>1, <1>2, <1>3, <2>2 DEF Reads
  <2> QED
    BY <2>1, <2>2
<1> QED
  BY <1>1, <1>3, <1>4 DEF a

\* A device that holds no timer has none running.
LEMMA NoneRunning ==
    ASSUME NEW s \in Reads, DeviceTimersOwned(s),
           s.startTimer = NoTimer, s.readTimer = NoTimer
    PROVE  \A u \in s.threads : u.fired
<1> SUFFICES ASSUME NEW u \in s.threads, ~u.fired
             PROVE  FALSE
  OBVIOUS
<1>1. u \in Thread
  BY DEF Reads
<1>2. u.id \in TimerId
  BY <1>1 DEF Thread
<1> QED
  BY <1>2, NoTimerAssumption DEF DeviceTimersOwned

LEMMA NoReadsInv ==
    ASSUME NEW d \in Device
    PROVE  DeviceInv(d, NoReads)
  BY RegsAssumption, NoRegAssumption, NoTimerAssumption
  DEF DeviceInv, NoReads, Reads, DeviceNotStuck, DeviceTimersOwned, OnCourse, IsRest

\* Cancelling drops every timer that has not fired, whatever the record held.
LEMMA CancelledInv ==
    ASSUME NEW d \in Device, NEW s \in Reads, DeviceTimersOwned(s)
    PROVE  DeviceInv(d, Cancelled(s)) /\ ~Cancelled(s).active /\ ~Cancelled(s).refreshed
<1> DEFINE c == Cancelled(s)
           left == WithoutTimers(s.threads, {s.startTimer, s.readTimer})
<1>0. left \subseteq s.threads /\ s.threads \subseteq Thread
  BY DEF WithoutTimers, Reads
<1> HIDE DEF left
<1>1. c = [NoReads EXCEPT !.threads = left]
  BY DEF Cancelled, left
<1>4. c \in Reads /\ c.threads = left
  <2>1. NoReads \in Reads
    BY DEF NoReads, Reads
  <2>2. left \in SUBSET Thread
    BY <1>0
  <2> HIDE DEF c
  <2> QED
    BY <1>1, <2>1, <2>2 DEF Reads
<1>2. \A t \in left : t.fired
  BY DEF left, WithoutTimers, DeviceTimersOwned
<1>3. /\ ~c.active /\ ~c.refreshed /\ c.inflight = NoReg /\ c.queue = <<>>
      /\ c.startTimer = NoTimer /\ c.readTimer = NoTimer
  BY <1>1 DEF NoReads
<1>5. OnCourse(d, c)
  <2>1. c.queue = <<>> /\ Regs[d] \in Seq(Register)
    BY <1>3, RegsAssumption
  <2> QED
    BY <2>1 DEF OnCourse, IsRest
<1> QED
  BY <1>2, <1>3, <1>4, <1>5 DEF DeviceInv, DeviceNotStuck, DeviceTimersOwned

LEMMA QueuedInv ==
    ASSUME NEW d \in Device, NEW s, DeviceInv(d, s), NEW ok \in BOOLEAN
    PROVE  DeviceInv(d, Queued(d, s, ok))
<1> DEFINE q == [s EXCEPT !.active = TRUE, !.queue = Regs[d], !.refreshed = TRUE]
           a == Armed(q, "start", NoReg)
<1>1. CASE \/ Regs[d] = <<>> \/ ~sourceReady
           \/ s.active \/ s.inflight # NoReg \/ s.queue # <<>>
  BY <1>1 DEF Queued
<1>2. CASE ~(\/ Regs[d] = <<>> \/ ~sourceReady
             \/ s.active \/ s.inflight # NoReg \/ s.queue # <<>>)
  <2>1. /\ q \in Reads /\ DeviceTimersOwned(q) /\ OnCourse(d, q)
        /\ q.inflight = NoReg /\ q.startTimer = NoTimer /\ q.readTimer = NoTimer
        /\ q.active /\ q.queue # <<>>
    <3>1. s \in Reads /\ Regs[d] \in Seq(Register)
      BY RegsAssumption DEF DeviceInv
    <3>2. /\ q \in Reads /\ q.queue = Regs[d] /\ q.active
          /\ q.inflight = s.inflight /\ q.threads = s.threads
          /\ q.startTimer = s.startTimer /\ q.readTimer = s.readTimer
      BY <3>1 DEF Reads
    <3>3. OnCourse(d, q)
      BY <3>1, <3>2 DEF OnCourse, IsRest
    <3> QED
      BY <1>2, <3>2, <3>3 DEF DeviceInv, DeviceNotStuck, DeviceTimersOwned
  <2>2. CASE ok /\ FreshTimers(q) # {}
    <3>1. PICK id \in TimerId, t \in Thread :
             /\ t.id = id /\ t.kind = "start" /\ t.reg = NoReg
             /\ a \in Reads
             /\ a.threads = q.threads \cup {t}
             /\ a.startTimer = id /\ a.readTimer = q.readTimer
             /\ a.queue = q.queue /\ a.inflight = q.inflight /\ a.active = q.active
      <4>1. q \in Reads /\ FreshTimers(q) # {}
        BY <2>1, <2>2
      <4> HIDE DEF q
      <4> QED
        BY <4>1, ArmedFields, "start" # "read"
    <3>2. \A u \in q.threads : u.fired
      BY <2>1, NoneRunning
    <3> HIDE DEF q, a
    <3>3. DeviceNotStuck(a) /\ DeviceTimersOwned(a)
      BY <2>1, <3>1, <3>2 DEF DeviceNotStuck, Waits, DeviceTimersOwned
    <3>4. OnCourse(d, a)
      BY <2>1, <3>1 DEF OnCourse
    <3>5. DeviceInv(d, a)
      BY <3>1, <3>3, <3>4 DEF DeviceInv
    <3> QED
      BY <1>2, <2>2, <3>5 DEF Queued, a, q
  <2>3. CASE ~(ok /\ FreshTimers(q) # {})
    BY <1>2, <2>1, <2>3, CancelledInv DEF Queued
  <2> QED
    BY <2>2, <2>3
<1> QED
  BY <1>1, <1>2

\* A register map's rest stays its rest when the first register is taken off.
LEMMA TailOfRest ==
    ASSUME NEW q \in Seq(Register), NEW full \in Seq(Register),
           q # <<>>, IsRest(q, full)
    PROVE  IsRest(Tail(q), full)
<1>1. Len(q) \in Nat /\ Len(full) \in Nat
  OBVIOUS
<1>2. /\ Len(Tail(q)) = Len(q) - 1
      /\ \A i \in 1..(Len(q) - 1) : Tail(q)[i] = q[i + 1]
  OBVIOUS
<1>3. \A x, y, j \in Int : x - y + (j + 1) = x - (y - 1) + j
  OBVIOUS
<1>4. ASSUME NEW i \in 1..(Len(q) - 1)
      PROVE  q[i + 1] = full[Len(full) - (Len(q) - 1) + i]
  <2>1. i \in Int /\ i + 1 \in 1..Len(q)
    BY <1>1
  <2>2. q[i + 1] = full[Len(full) - Len(q) + (i + 1)]
    BY <2>1 DEF IsRest
  <2>3. Len(full) - Len(q) + (i + 1) = Len(full) - (Len(q) - 1) + i
    BY <1>1, <1>3, <2>1
  <2> QED
    BY <2>2, <2>3
<1> QED
  BY <1>1, <1>2, <1>4 DEF IsRest

LEMMA RefreshedInv ==
    ASSUME NEW d \in Device, NEW s, DeviceInv(d, s), NEW ok \in BOOLEAN
    PROVE  DeviceInv(d, Refreshed(d, s, ok))
  BY QueuedInv DEF Refreshed

LEMMA KickedOffInv ==
    ASSUME NEW d \in Device, NEW s, BetweenReads(d, s), NEW ok \in BOOLEAN
    PROVE  DeviceInv(d, KickedOff(s, ok))
<1> DEFINE k == [s EXCEPT !.startTimer = NoTimer,
                          !.threads = WithoutTimers(@, {s.startTimer})]
           r == Head(k.queue)
           n == [k EXCEPT !.queue = Tail(k.queue), !.inflight = r]
           a == Armed(n, "read", r)
<1>1. /\ k \in Reads /\ k.queue = s.queue /\ k.active /\ k.inflight = NoReg
      /\ k.startTimer = NoTimer /\ k.readTimer = NoTimer
      /\ k.threads = WithoutTimers(s.threads, {s.startTimer})
  <2>1. WithoutTimers(s.threads, {s.startTimer}) \in SUBSET Thread
    BY DEF BetweenReads, Reads, WithoutTimers
  <2> QED
    BY <2>1 DEF BetweenReads, Reads
<1> HIDE DEF k
<1>2. \A u \in k.threads : u.fired
  <2> SUFFICES ASSUME NEW u \in k.threads, ~u.fired
               PROVE  FALSE
    OBVIOUS
  <2>1. u \in s.threads /\ u.id # s.startTimer
    BY <1>1 DEF WithoutTimers
  <2>2. u.id \in TimerId
    BY <1>1 DEF Reads, Thread
  <2> QED
    BY <2>1, <2>2, NoTimerAssumption DEF BetweenReads, DeviceTimersOwned
<1>3. DeviceTimersOwned(k) /\ OnCourse(d, k)
  BY <1>1, <1>2 DEF DeviceTimersOwned, OnCourse, BetweenReads
<1>4. CASE ~sourceReady
  BY <1>4, CancelledInv DEF KickedOff, BetweenReads
<1>5. CASE sourceReady /\ k.queue = <<>>
  <2> DEFINE e == [k EXCEPT !.active = FALSE]
  <2>1. /\ e \in Reads /\ e.queue = <<>> /\ ~e.active /\ e.inflight = NoReg
        /\ e.startTimer = NoTimer /\ e.readTimer = NoTimer /\ e.threads = k.threads
    BY <1>1, <1>5 DEF Reads
  <2>2. KickedOff(s, ok) = e
    BY <1>1, <1>5 DEF KickedOff, k
  <2> HIDE DEF e
  <2>3. DeviceInv(d, e)
    BY <1>1, <1>2, <1>3, <1>5, <2>1
    DEF DeviceInv, DeviceNotStuck, DeviceTimersOwned, OnCourse
  <2> QED
    BY <2>2, <2>3
<1>6. CASE sourceReady /\ k.queue # <<>>
  <2>1. r \in Register /\ Tail(k.queue) \in Seq(Register)
    BY <1>1, <1>6 DEF Reads
  <2>2. /\ n \in Reads /\ n.queue = Tail(k.queue) /\ n.active /\ n.inflight = r
        /\ n.startTimer = NoTimer /\ n.readTimer = NoTimer /\ n.threads = k.threads
    BY <1>1, <2>1 DEF Reads
  <2>3. OnCourse(d, n)
    <3>1. Regs[d] \in Seq(Register) /\ k.queue \in Seq(Register)
      BY <1>1, RegsAssumption DEF Reads
    <3> HIDE DEF n
    <3> QED
      BY <1>3, <1>6, <2>2, <3>1, TailOfRest DEF OnCourse
  <2>4. DeviceTimersOwned(n)
    BY <1>2, <2>2 DEF DeviceTimersOwned
  <2>5. KickedOff(s, ok) = IF ok /\ FreshTimers(n) # {} THEN a ELSE Cancelled(n)
    BY <1>1, <1>6 DEF KickedOff, k
  <2>6. CASE ok /\ FreshTimers(n) # {}
    <3> HIDE DEF n, r
    <3>1. PICK id \in TimerId, t \in Thread :
             /\ t.id = id /\ t.kind = "read" /\ t.reg = r
             /\ a \in Reads
             /\ a.threads = n.threads \cup {t}
             /\ a.startTimer = n.startTimer /\ a.readTimer = id
             /\ a.queue = n.queue /\ a.inflight = n.inflight /\ a.active = n.active
      <4>1. n \in Reads /\ FreshTimers(n) # {} /\ r \in Register
        BY <2>1, <2>2, <2>6
      <4> QED
        BY <4>1, ArmedFields, "start" # "read"
    <3> HIDE DEF a
    <3>2. DeviceNotStuck(a) /\ DeviceTimersOwned(a)
      BY <1>2, <2>1, <2>2, <3>1, NoRegAssumption
      DEF DeviceNotStuck, Waits, DeviceTimersOwned
    <3>3. OnCourse(d, a)
      BY <2>3, <3>1 DEF OnCourse
    <3> QED
      BY <2>5, <2>6, <3>1, <3>2, <3>3 DEF DeviceInv
  <2>7. CASE ~(ok /\ FreshTimers(n) # {})
    <3> HIDE DEF n
    <3> QED
      BY <2>2, <2>4, <2>5, <2>7, CancelledInv
  <2> QED
    BY <2>6, <2>7
<1> QED
  BY <1>4, <1>5, <1>6

\* Removing the thread that ran, then the timer the answered read was guarded by.
LEMMA SettledBetween ==
    ASSUME NEW d \in Device, NEW s, s \in Reads, s.active, DeviceTimersOwned(s),
           s.startTimer = NoTimer, OnCourse(d, s)
    PROVE  BetweenReads(d, Settled(s))
<1> DEFINE e == Settled(s)
           left == WithoutTimers(s.threads, {s.readTimer})
<1>1. left \in SUBSET Thread /\ left \subseteq s.threads
  BY DEF Reads, WithoutTimers
<1>2. \A u \in left : u.fired
  <2> SUFFICES ASSUME NEW u \in left, ~u.fired
               PROVE  FALSE
    OBVIOUS
  <2>1. u \in s.threads /\ u.id # s.readTimer
    BY DEF WithoutTimers
  <2>2. u.id \in TimerId
    BY <1>1 DEF Thread
  <2> QED
    BY <2>1, <2>2, NoTimerAssumption DEF DeviceTimersOwned
<1> HIDE DEF left
<1>3. e = [s EXCEPT !.inflight = NoReg, !.readTimer = NoTimer, !.threads = left]
  BY DEF Settled, left
<1> HIDE DEF e
<1>4. /\ e \in Reads /\ e.threads = left /\ e.active /\ e.inflight = NoReg
      /\ e.readTimer = NoTimer /\ e.queue = s.queue
  BY <1>1, <1>3 DEF Reads
<1> QED
  BY <1>2, <1>4 DEF BetweenReads, DeviceTimersOwned, OnCourse, e

\* An answer for the read in flight ends it and starts the next.
LEMMA AnswerInv ==
    ASSUME NEW d \in Device, NEW s, DeviceInv(d, s), s.inflight # NoReg,
           NEW ok \in BOOLEAN
    PROVE  DeviceInv(d, KickedOff(Settled(s), ok))
<1>1. s.active /\ s.startTimer = NoTimer
  BY DEF DeviceInv, DeviceNotStuck
<1> QED
  BY <1>1, SettledBetween, KickedOffInv DEF DeviceInv

\* A timer that woke up leaves the device's threads and calls back only if it
\* is still the one its map holds; an orphan changes nothing else.
LEMMA CallbackInv ==
    ASSUME NEW d \in Device, NEW s, DeviceInv(d, s), NEW t \in s.threads, t.fired,
           NEW ok \in BOOLEAN
    PROVE  DeviceInv(d, TimerCallback([s EXCEPT !.threads = @ \ {t}], t, ok))
<1> DEFINE g == [s EXCEPT !.threads = @ \ {t}]
<1>1. /\ g \in Reads /\ g.threads = s.threads \ {t} /\ g.queue = s.queue
      /\ g.active = s.active /\ g.inflight = s.inflight
      /\ g.startTimer = s.startTimer /\ g.readTimer = s.readTimer
  BY DEF DeviceInv, Reads
<1> HIDE DEF g
<1>2. DeviceTimersOwned(g) /\ OnCourse(d, g)
  BY <1>1 DEF DeviceInv, DeviceTimersOwned, OnCourse
<1>3. t.id \in TimerId /\ t.id # NoTimer /\ t.kind \in {"start", "read"}
  BY NoTimerAssumption DEF DeviceInv, Reads, Thread
<1>4. CASE t.kind = "start" /\ s.startTimer = t.id
  <2>1. BetweenReads(d, g)
    BY <1>1, <1>2, <1>3, <1>4 DEF DeviceInv, DeviceNotStuck, BetweenReads
  <2>2. TimerCallback(g, t, ok) = KickedOff(g, ok)
    BY <1>1, <1>4 DEF TimerCallback
  <2> QED
    BY <2>1, <2>2, KickedOffInv DEF g
<1>5. CASE t.kind = "read" /\ s.readTimer = t.id /\ s.inflight = t.reg
  <2>1. g.active /\ g.startTimer = NoTimer
    BY <1>1, <1>3, <1>5 DEF DeviceInv, DeviceNotStuck
  <2>2. TimerCallback(g, t, ok) = KickedOff(Settled(g), ok)
    BY <1>1, <1>5, "start" # "read" DEF TimerCallback
  <2> QED
    BY <1>1, <1>2, <2>1, <2>2, SettledBetween, KickedOffInv DEF g
<1>6. CASE /\ ~(t.kind = "start" /\ s.startTimer = t.id)
           /\ ~(t.kind = "read" /\ s.readTimer = t.id /\ s.inflight = t.reg)
  <2>1. TimerCallback(g, t, ok) = g
    BY <1>1, <1>6 DEF TimerCallback
  <2>2. DeviceNotStuck(g)
    BY <1>1, <1>6 DEF DeviceInv, DeviceNotStuck, Waits
  <2> QED
    BY <1>1, <1>2, <2>1, <2>2 DEF DeviceInv, g
<1> QED
  BY <1>4, <1>5, <1>6

LEMMA FiredInv ==
    ASSUME NEW d \in Device, NEW s, DeviceInv(d, s), NEW t \in s.threads, ~t.fired
    PROVE  DeviceInv(d, [s EXCEPT !.threads = (@ \ {t}) \cup {[t EXCEPT !.fired = TRUE]}])
<1> DEFINE f == [t EXCEPT !.fired = TRUE]
           g == [s EXCEPT !.threads = (@ \ {t}) \cup {f}]
<1>1. t \in Thread
  BY DEF DeviceInv, Reads
<1>2. f \in Thread /\ f.fired /\ f.id = t.id /\ f.kind = t.kind /\ f.reg = t.reg
  BY <1>1 DEF Thread
<1> HIDE DEF f
<1>3. /\ g \in Reads /\ g.threads = (s.threads \ {t}) \cup {f} /\ g.queue = s.queue
      /\ g.active = s.active /\ g.inflight = s.inflight
      /\ g.startTimer = s.startTimer /\ g.readTimer = s.readTimer
  BY <1>2 DEF DeviceInv, Reads
<1> HIDE DEF g
<1>4. DeviceTimersOwned(g) /\ OnCourse(d, g)
  BY <1>2, <1>3 DEF DeviceInv, DeviceTimersOwned, OnCourse
<1>5. ASSUME NEW i, NEW k, NEW r, Waits(s, i, k, r)
      PROVE  Waits(g, i, k, r)
  BY <1>2, <1>3, <1>5 DEF Waits
<1>6. DeviceNotStuck(g)
  BY <1>3, <1>5 DEF DeviceInv, DeviceNotStuck
<1> QED
  BY <1>3, <1>4, <1>6 DEF DeviceInv, g, f

\* An orphan's thread ends without touching an idle device.
LEMMA ThreadGoneInv ==
    ASSUME NEW d \in Device, NEW s, DeviceInv(d, s), ~s.active, NEW t
    PROVE  DeviceInv(d, [s EXCEPT !.threads = @ \ {t}])
<1> DEFINE g == [s EXCEPT !.threads = @ \ {t}]
<1>1. /\ g \in Reads /\ g.threads = s.threads \ {t} /\ g.queue = s.queue
      /\ g.active = s.active /\ g.inflight = s.inflight
      /\ g.startTimer = s.startTimer /\ g.readTimer = s.readTimer
  BY DEF DeviceInv, Reads
<1> HIDE DEF g
<1>2. DeviceNotStuck(g) /\ DeviceTimersOwned(g) /\ OnCourse(d, g)
  BY <1>1 DEF DeviceInv, DeviceNotStuck, DeviceTimersOwned, OnCourse
<1> QED
  BY <1>1, <1>2 DEF DeviceInv, g

-----------------------------------------------------------------------------
\* The inductive invariant: typing, DeviceInv for every device, and no sequence
\* left once the client stopped (whose timers no longer call back).
IInv ==
    /\ TypeOK
    /\ \A d \in Device : DeviceInv(d, reads[d])
    /\ stopped => \A d \in Device : ~reads[d].active

LEMMA InitIInv == Init => IInv
<1> SUFFICES ASSUME Init PROVE IInv
  OBVIOUS
<1>1. \A d \in Device : reads[d] = NoReads
  BY DEF Init
<1>2. \A d \in Device : DeviceInv(d, reads[d])
  BY <1>1, NoReadsInv
<1>3. reads \in [Device -> Reads]
  <2>1. NoReads \in Reads
    BY DEF NoReads, Reads
  <2> QED
    BY <2>1 DEF Init
<1> QED
  BY <1>2, <1>3 DEF IInv, TypeOK, Init

\* A step that turns one device's record into another good one.
LEMMA OneDeviceStep ==
    ASSUME IInv, NEW d \in Device, NEW s, DeviceInv(d, s),
           reads' = [reads EXCEPT ![d] = s],
           known' \subseteq Device, sourceReady' \in BOOLEAN,
           readyPending' \in BOOLEAN, stopped' \in BOOLEAN,
           stopped' => stopped /\ ~s.active
    PROVE  IInv'
<1>1. s \in Reads
  BY DEF DeviceInv
<1>2. reads' \in [Device -> Reads]
  BY <1>1 DEF IInv, TypeOK
<1>3. ASSUME NEW e \in Device PROVE DeviceInv(e, reads'[e])
  <2>1. reads'[e] = IF e = d THEN s ELSE reads[e]
    BY DEF IInv, TypeOK
  <2> QED
    BY <2>1 DEF IInv
<1>5. ASSUME stopped', NEW e \in Device PROVE ~reads'[e].active
  BY <1>5 DEF IInv, TypeOK
<1>4. \A e \in Device : DeviceInv(e, reads[e])'
  BY <1>3 DEF DeviceInv, DeviceNotStuck, Waits, DeviceTimersOwned, OnCourse
<1> QED
  BY <1>2, <1>4, <1>5 DEF IInv, TypeOK

\* A step that gives every device a good record.
LEMMA AllDevicesStep ==
    ASSUME NEW f, reads' = [d \in Device |-> f[d]],
           \A d \in Device : DeviceInv(d, f[d]),
           known' \subseteq Device, sourceReady' \in BOOLEAN,
           readyPending' \in BOOLEAN, stopped' \in BOOLEAN,
           stopped' => \A d \in Device : ~f[d].active
    PROVE  IInv'
<1>1. \A d \in Device : reads'[d] = f[d] /\ f[d] \in Reads
  BY DEF DeviceInv
<1>2. \A e \in Device : DeviceInv(e, reads[e])'
  BY <1>1 DEF DeviceInv, DeviceNotStuck, Waits, DeviceTimersOwned, OnCourse
<1> QED
  BY <1>1, <1>2 DEF IInv, TypeOK

LEMMA RestartedIInv ==
    ASSUME IInv, ReadsRestarted, known' \subseteq Device, sourceReady' \in BOOLEAN,
           readyPending' \in BOOLEAN, stopped' = FALSE
    PROVE  IInv'
<1>1. PICK failing \in SUBSET Device :
          reads' = [d \in Device |->
                       IF d \in known
                       THEN Refreshed(d, Cancelled(reads[d]), d \notin failing)
                       ELSE Cancelled(reads[d])]
  BY DEF ReadsRestarted
<1> DEFINE f == [d \in Device |->
                       IF d \in known
                       THEN Refreshed(d, Cancelled(reads[d]), d \notin failing)
                       ELSE Cancelled(reads[d])]
<1>2. ASSUME NEW d \in Device PROVE DeviceInv(d, f[d])
  <2>1. DeviceInv(d, Cancelled(reads[d]))
    BY CancelledInv DEF IInv, DeviceInv
  <2>2. DeviceInv(d, Refreshed(d, Cancelled(reads[d]), d \notin failing))
    BY <2>1, RefreshedInv
  <2> QED
    BY <2>1, <2>2
<1>3. reads' = [d \in Device |-> f[d]]
  BY <1>1
<1> HIDE DEF f
<1> QED
  BY <1>2, <1>3, AllDevicesStep

LEMMA NextIInv == IInv /\ [Next]_vars => IInv'
<1> SUFFICES ASSUME IInv, [Next]_vars PROVE IInv'
  OBVIOUS
<1>0. \A d \in Device : DeviceInv(d, reads[d]) /\ DeviceInv(d, Cancelled(reads[d]))
  BY CancelledInv DEF IInv, DeviceInv
<1>1. ASSUME NEW d \in Device, ReadAllPressed(d) PROVE IInv'
  <2>1. PICK held \in BOOLEAN, ok \in BOOLEAN :
            reads' = [reads EXCEPT ![d] = IF held THEN Queued(d, reads[d], ok)
                                                  ELSE Cancelled(reads[d])]
    BY <1>1 DEF ReadAllPressed
  <2>2. DeviceInv(d, IF held THEN Queued(d, reads[d], ok) ELSE Cancelled(reads[d]))
    BY <1>0, QueuedInv
  <2> QED
    BY <1>1, <2>1, <2>2, OneDeviceStep DEF ReadAllPressed, IInv, TypeOK
<1>2. ASSUME NEW d \in Device, DeviceActivity(d) PROVE IInv'
  <2>1. PICK ok \in BOOLEAN : reads' = [reads EXCEPT ![d] = Refreshed(d, reads[d], ok)]
    BY <1>2 DEF DeviceActivity
  <2>2. DeviceInv(d, Refreshed(d, reads[d], ok))
    BY <1>0, RefreshedInv
  <2> QED
    BY <1>2, <2>1, <2>2, OneDeviceStep DEF DeviceActivity, IInv, TypeOK
<1>3. ASSUME NEW d \in Device, NEW r \in Register, Answer(d, r) PROVE IInv'
  <2>1. PICK ok \in BOOLEAN :
            reads' = [reads EXCEPT ![d] = KickedOff(Settled(reads[d]), ok)]
    BY <1>3 DEF Answer
  <2>2. DeviceInv(d, KickedOff(Settled(reads[d]), ok))
    BY <1>0, <1>3, AnswerInv, NoRegAssumption DEF Answer
  <2> QED
    BY <1>3, <2>1, <2>2, OneDeviceStep DEF Answer, IInv, TypeOK
<1>4. ASSUME NEW d \in Device, NEW t \in reads[d].threads, TimerFires(d, t) PROVE IInv'
  <2> DEFINE g == [reads[d] EXCEPT !.threads = (@ \ {t}) \cup {[t EXCEPT !.fired = TRUE]}]
  <2>1. DeviceInv(d, g)
    BY <1>0, <1>4, FiredInv DEF TimerFires
  <2>2. reads' = [reads EXCEPT ![d] = g]
    BY <1>4 DEF TimerFires
  <2>3. g.active = reads[d].active
    BY DEF IInv, TypeOK, Reads
  <2> HIDE DEF g
  <2> QED
    BY <1>4, <2>1, <2>2, <2>3, OneDeviceStep DEF TimerFires, IInv, TypeOK
<1>5. ASSUME NEW d \in Device, NEW t \in reads[d].threads, TimerRuns(d, t) PROVE IInv'
  <2> DEFINE s == [reads[d] EXCEPT !.threads = @ \ {t}]
  <2>1. PICK ok \in BOOLEAN :
            reads' = [reads EXCEPT ![d] = IF stopped THEN s ELSE TimerCallback(s, t, ok)]
    BY <1>5 DEF TimerRuns
  <2>2. DeviceInv(d, TimerCallback(s, t, ok))
    BY <1>0, <1>5, CallbackInv DEF TimerRuns
  <2>3. stopped => DeviceInv(d, s) /\ ~s.active
    <3> SUFFICES ASSUME stopped PROVE DeviceInv(d, s) /\ ~s.active
      OBVIOUS
    <3>1. ~reads[d].active /\ reads[d] \in Reads
      BY DEF IInv, TypeOK
    <3>2. s.active = reads[d].active
      BY <3>1 DEF Reads
    <3>3. DeviceInv(d, s)
      BY <1>0, <3>1, ThreadGoneInv
    <3> QED
      BY <3>1, <3>2, <3>3
  <2> DEFINE n == IF stopped THEN s ELSE TimerCallback(s, t, ok)
  <2> HIDE DEF s
  <2>4. DeviceInv(d, n) /\ (stopped => ~n.active)
    BY <2>2, <2>3
  <2>5. reads' = [reads EXCEPT ![d] = n]
    BY <2>1
  <2> HIDE DEF n
  <2> QED
    BY <1>5, <2>4, <2>5, OneDeviceStep DEF TimerRuns, IInv, TypeOK
<1>6. ASSUME SourceSubscribed PROVE IInv'
  BY <1>6 DEF SourceSubscribed, IInv, TypeOK, DeviceInv, DeviceNotStuck, Waits,
              DeviceTimersOwned, OnCourse
<1>7. ASSUME SourceReadyHandled PROVE IInv'
  <2>1. CASE stopped
    BY <1>7, <2>1 DEF SourceReadyHandled, IInv, TypeOK, DeviceInv, DeviceNotStuck,
                      Waits, DeviceTimersOwned, OnCourse
  <2>2. CASE ~stopped
    <3>1. /\ ReadsRestarted /\ known' \subseteq Device /\ sourceReady' \in BOOLEAN
          /\ readyPending' \in BOOLEAN /\ stopped' = FALSE
      BY <1>7, <2>2 DEF SourceReadyHandled, IInv, TypeOK
    <3> QED
      BY <3>1, RestartedIInv
  <2> QED
    BY <2>1, <2>2
<1>8. ASSUME SourceLost PROVE IInv'
  BY <1>8 DEF SourceLost, IInv, TypeOK, DeviceInv, DeviceNotStuck, Waits,
              DeviceTimersOwned, OnCourse
<1>9. ASSUME HomeAssistantRecovered PROVE IInv'
  <2>1. /\ ReadsRestarted /\ known' \subseteq Device /\ sourceReady' \in BOOLEAN
        /\ readyPending' \in BOOLEAN /\ stopped' = FALSE
    BY <1>9 DEF HomeAssistantRecovered, IInv, TypeOK
  <2> QED
    BY <2>1, RestartedIInv
<1>10. ASSUME Stop PROVE IInv'
  <2> DEFINE f == [d \in Device |-> Cancelled(reads[d])]
  <2>1. \A d \in Device : DeviceInv(d, f[d]) /\ ~f[d].active
    BY <1>0, CancelledInv DEF IInv, DeviceInv
  <2>2. reads' = [d \in Device |-> f[d]]
    BY <1>10 DEF Stop
  <2> HIDE DEF f
  <2> QED
    BY <1>10, <2>1, <2>2, AllDevicesStep DEF Stop, IInv, TypeOK
<1>11. CASE UNCHANGED vars
  BY <1>11 DEF vars, IInv, TypeOK, DeviceInv, DeviceNotStuck, Waits,
               DeviceTimersOwned, OnCourse
<1> QED
  BY <1>1, <1>2, <1>3, <1>4, <1>5, <1>6, <1>7, <1>8, <1>9, <1>10, <1>11 DEF Next

THEOREM InductiveInvariant == Spec => []IInv
  BY InitIInv, NextIInv, PTL DEF Spec

\* The state of every component has its type.
THEOREM TypeCorrect == Spec => []TypeOK
<1>1. IInv => TypeOK
  BY DEF IInv
<1> QED
  BY <1>1, InductiveInvariant, PTL

\* No press of Read All is refused for ever: whatever makes the client treat it
\* as a duplicate has a live thread that will end it.
THEOREM ReadsNeverStick == Spec => []NoStuckRead
<1>1. IInv => NoStuckRead
  BY DEF IInv, DeviceInv, NoStuckRead
<1> QED
  BY <1>1, InductiveInvariant, PTL

\* A cancelled or answered read leaves no timer running.
THEOREM NoStrayTimer == Spec => []TimersOwned
<1>1. IInv => TimersOwned
  BY DEF IInv, DeviceInv, TimersOwned
<1> QED
  BY <1>1, InductiveInvariant, PTL

-----------------------------------------------------------------------------
\* What one operation may do to the sweep of a device: ask for the next register,
\* begin, end (giving the refresh back unless all registers were asked for), or
\* nothing at all.
Pos(d, s) == IF s.active THEN Len(Regs[d]) - Len(s.queue) ELSE -1

Aborts(s, n) == s.active /\ ~n.active => s.queue = <<>> \/ ~n.refreshed

SweepStep(d, s, n) ==
    /\ Aborts(s, n)
    /\ \/ Pos(d, n) = Pos(d, s) /\ n.inflight = s.inflight
       \/ Pos(d, s) = -1 /\ Pos(d, n) = 0 /\ n.inflight = s.inflight
       \/ /\ Pos(d, s) # -1 /\ Pos(d, s) < Len(Regs[d])
          /\ Pos(d, n) = Pos(d, s) + 1
          /\ n.inflight = Regs[d][Pos(d, s) + 1]
       \/ Pos(d, s) # -1 /\ Pos(d, n) = -1 /\ n.inflight = NoReg

LEMMA CancelledSweep ==
    ASSUME NEW d \in Device, NEW s, DeviceInv(d, s)
    PROVE  SweepStep(d, s, Cancelled(s))
<1>1. /\ ~Cancelled(s).active /\ Cancelled(s).inflight = NoReg
      /\ ~Cancelled(s).refreshed
  BY DEF Cancelled, NoReads
<1>2. ~s.active => s.inflight = NoReg
  BY DEF DeviceInv, DeviceNotStuck
<1>3. s.active => Pos(d, s) # -1
  BY RegsAssumption DEF DeviceInv, Reads, OnCourse, IsRest, Pos
<1> QED
  BY <1>1, <1>2, <1>3 DEF SweepStep, Aborts, Pos

LEMMA QueuedSweep ==
    ASSUME NEW d \in Device, NEW s, DeviceInv(d, s), NEW ok \in BOOLEAN
    PROVE  SweepStep(d, s, Queued(d, s, ok))
<1> DEFINE q == [s EXCEPT !.active = TRUE, !.queue = Regs[d], !.refreshed = TRUE]
           a == Armed(q, "start", NoReg)
<1>1. CASE \/ Regs[d] = <<>> \/ ~sourceReady
           \/ s.active \/ s.inflight # NoReg \/ s.queue # <<>>
  BY <1>1 DEF Queued, SweepStep, Aborts
<1>2. CASE ~(\/ Regs[d] = <<>> \/ ~sourceReady
             \/ s.active \/ s.inflight # NoReg \/ s.queue # <<>>)
  <2>1. q \in Reads /\ q.active /\ q.queue = Regs[d] /\ q.inflight = NoReg
    BY <1>2, RegsAssumption DEF DeviceInv, Reads
  <2> HIDE DEF q
  <2>2. CASE ok /\ FreshTimers(q) # {}
    <3>1. a.queue = Regs[d] /\ a.inflight = NoReg /\ a.active
      BY <2>1, <2>2, ArmedFields
    <3>2. Queued(d, s, ok) = a
      BY <1>2, <2>2 DEF Queued, q
    <3> HIDE DEF a
    <3>3. Pos(d, a) = 0 /\ Pos(d, s) = -1
      <4>1. Len(Regs[d]) \in Nat
        BY RegsAssumption
      <4> QED
        BY <1>2, <3>1, <4>1 DEF Pos
    <3> QED
      BY <1>2, <3>1, <3>2, <3>3 DEF SweepStep, Aborts
  <2>3. CASE ~(ok /\ FreshTimers(q) # {})
    <3>1. Queued(d, s, ok) = Cancelled(q)
      BY <1>2, <2>3 DEF Queued, q
    <3>2. ~Cancelled(q).active /\ Cancelled(q).inflight = NoReg
      BY DEF Cancelled, NoReads
    <3> QED
      BY <1>2, <3>1, <3>2 DEF SweepStep, Aborts, Pos
  <2> QED
    BY <2>2, <2>3
<1> QED
  BY <1>1, <1>2

LEMMA RefreshedSweep ==
    ASSUME NEW d \in Device, NEW s, DeviceInv(d, s), NEW ok \in BOOLEAN
    PROVE  SweepStep(d, s, Refreshed(d, s, ok))
  BY QueuedSweep DEF Refreshed, SweepStep, Aborts

\* s is the record before the step, b what is handed to the kick-off.
LEMMA KickedOffSweep ==
    ASSUME NEW d \in Device, NEW s, DeviceInv(d, s), s.active,
           NEW b, BetweenReads(d, b), b.queue = s.queue, NEW ok \in BOOLEAN
    PROVE  SweepStep(d, s, KickedOff(b, ok))
<1> DEFINE k == [b EXCEPT !.startTimer = NoTimer,
                          !.threads = WithoutTimers(@, {b.startTimer})]
           r == Head(k.queue)
           n == [k EXCEPT !.queue = Tail(k.queue), !.inflight = r]
           a == Armed(n, "read", r)
<1>1. k \in Reads /\ k.queue = s.queue /\ k.active /\ k.inflight = NoReg
  <2>1. WithoutTimers(b.threads, {b.startTimer}) \in SUBSET Thread
    BY DEF BetweenReads, Reads, WithoutTimers
  <2> QED
    BY <2>1 DEF BetweenReads, Reads
<1>2. /\ Pos(d, s) = Len(Regs[d]) - Len(s.queue)
      /\ Len(s.queue) \in Nat /\ Len(Regs[d]) \in Nat
      /\ Len(s.queue) <= Len(Regs[d])
      /\ Pos(d, s) \in Nat
  <2>1. s.queue \in Seq(Register) /\ Regs[d] \in Seq(Register)
    BY RegsAssumption DEF DeviceInv, Reads
  <2>2. Len(s.queue) \in Nat /\ Len(Regs[d]) \in Nat
    BY <2>1
  <2>3. Len(s.queue) <= Len(Regs[d])
    BY DEF DeviceInv, OnCourse, IsRest
  <2> QED
    BY <2>2, <2>3 DEF Pos
<1>3. \A c : SweepStep(d, s, Cancelled(c))
  <2>1. \A c : /\ ~Cancelled(c).active /\ Cancelled(c).inflight = NoReg
              /\ ~Cancelled(c).refreshed
    BY DEF Cancelled, NoReads
  <2> TAKE c
  <2>2. Pos(d, Cancelled(c)) = -1 /\ Pos(d, s) # -1
    BY <1>2, <2>1 DEF Pos
  <2> QED
    BY <2>1, <2>2 DEF SweepStep, Aborts
<1> HIDE DEF k
<1>4. CASE ~sourceReady
  BY <1>3, <1>4 DEF KickedOff
<1>5. CASE sourceReady /\ k.queue = <<>>
  <2> DEFINE e == [k EXCEPT !.active = FALSE]
  <2>1. ~e.active /\ e.inflight = NoReg
    BY <1>1 DEF Reads
  <2>2. KickedOff(b, ok) = e
    BY <1>1, <1>5 DEF KickedOff, k
  <2> HIDE DEF e
  <2>3. SweepStep(d, s, e)
    BY <1>1, <1>2, <1>5, <2>1 DEF SweepStep, Aborts, Pos
  <2> QED
    BY <2>2, <2>3
<1>6. CASE sourceReady /\ k.queue # <<>>
  <2>1. /\ r \in Register /\ r = s.queue[1] /\ Tail(k.queue) \in Seq(Register)
        /\ Len(Tail(k.queue)) = Len(s.queue) - 1 /\ Len(s.queue) > 0
    BY <1>1, <1>6 DEF Reads
  <2>2. n \in Reads /\ n.queue = Tail(k.queue) /\ n.active /\ n.inflight = r
    BY <1>1, <2>1, <1>6 DEF Reads
  <2>3. KickedOff(b, ok) = IF ok /\ FreshTimers(n) # {} THEN a ELSE Cancelled(n)
    BY <1>1, <1>6 DEF KickedOff, k
  <2> HIDE DEF n, r
  <2>4. CASE ok /\ FreshTimers(n) # {}
    <3>1. a.queue = n.queue /\ a.inflight = r /\ a.active
      BY <2>1, <2>2, <2>4, ArmedFields
    <3> HIDE DEF a
    <3>2. Pos(d, a) = Pos(d, s) + 1 /\ Pos(d, s) < Len(Regs[d])
      <4>1. Pos(d, a) = Len(Regs[d]) - (Len(s.queue) - 1)
        BY <2>1, <2>2, <3>1 DEF Pos
      <4>2. \A x, y \in Nat : y > 0 => x - (y - 1) = (x - y) + 1 /\ x - y < x
        OBVIOUS
      <4> QED
        BY <1>2, <2>1, <4>1, <4>2
    <3>3. r = Regs[d][Pos(d, s) + 1]
      <4>1. 1 \in 1..Len(s.queue)
        BY <1>2, <2>1
      <4>2. s.queue[1] = Regs[d][Len(Regs[d]) - Len(s.queue) + 1]
        BY <4>1 DEF DeviceInv, OnCourse, IsRest
      <4> QED
        BY <1>2, <2>1, <4>2
    <3>4. Pos(d, s) # -1
      BY <1>2
    <3> QED
      BY <2>3, <2>4, <3>1, <3>2, <3>3, <3>4 DEF SweepStep, Aborts
  <2>5. CASE ~(ok /\ FreshTimers(n) # {})
    BY <1>3, <2>3, <2>5
  <2> QED
    BY <2>4, <2>5
<1> QED
  BY <1>4, <1>5, <1>6

LEMMA AnswerSweep ==
    ASSUME NEW d \in Device, NEW s, DeviceInv(d, s), s.inflight # NoReg,
           NEW ok \in BOOLEAN
    PROVE  SweepStep(d, s, KickedOff(Settled(s), ok))
<1>1. s.active /\ s.startTimer = NoTimer
  BY DEF DeviceInv, DeviceNotStuck
<1>2. Settled(s).queue = s.queue
  BY DEF Settled, DeviceInv, Reads
<1> QED
  BY <1>1, <1>2, SettledBetween, KickedOffSweep DEF DeviceInv

LEMMA CallbackSweep ==
    ASSUME NEW d \in Device, NEW s, DeviceInv(d, s), NEW t \in s.threads, t.fired,
           NEW ok \in BOOLEAN
    PROVE  SweepStep(d, s, TimerCallback([s EXCEPT !.threads = @ \ {t}], t, ok))
<1> DEFINE g == [s EXCEPT !.threads = @ \ {t}]
<1>1. /\ g \in Reads /\ g.threads = s.threads \ {t} /\ g.queue = s.queue
      /\ g.active = s.active /\ g.inflight = s.inflight
      /\ g.startTimer = s.startTimer /\ g.readTimer = s.readTimer
  BY DEF DeviceInv, Reads
<1> HIDE DEF g
<1>2. DeviceTimersOwned(g) /\ OnCourse(d, g)
  BY <1>1 DEF DeviceInv, DeviceTimersOwned, OnCourse
<1>3. t.id # NoTimer
  BY NoTimerAssumption DEF DeviceInv, Reads, Thread
<1>4. CASE t.kind = "start" /\ s.startTimer = t.id
  <2>1. BetweenReads(d, g) /\ s.active
    BY <1>1, <1>2, <1>3, <1>4 DEF DeviceInv, DeviceNotStuck, BetweenReads
  <2>2. TimerCallback(g, t, ok) = KickedOff(g, ok)
    BY <1>1, <1>4 DEF TimerCallback
  <2>3. SweepStep(d, s, KickedOff(g, ok))
    BY <1>1, <2>1, KickedOffSweep
  <2> QED
    BY <2>2, <2>3 DEF g
<1>5. CASE t.kind = "read" /\ s.readTimer = t.id /\ s.inflight = t.reg
  <2>1. s.active /\ g.startTimer = NoTimer
    BY <1>1, <1>3, <1>5 DEF DeviceInv, DeviceNotStuck
  <2>2. TimerCallback(g, t, ok) = KickedOff(Settled(g), ok)
    BY <1>1, <1>5, "start" # "read" DEF TimerCallback
  <2>3. Settled(g).queue = s.queue
    BY <1>1 DEF Settled, Reads
  <2>4. BetweenReads(d, Settled(g))
    BY <1>1, <1>2, <2>1, SettledBetween
  <2> QED
    BY <2>1, <2>2, <2>3, <2>4, KickedOffSweep DEF g
<1>6. CASE /\ ~(t.kind = "start" /\ s.startTimer = t.id)
           /\ ~(t.kind = "read" /\ s.readTimer = t.id /\ s.inflight = t.reg)
  <2>1. TimerCallback(g, t, ok) = g
    BY <1>1, <1>6 DEF TimerCallback
  <2> QED
    BY <1>1, <2>1 DEF SweepStep, Aborts, Pos, g
<1> QED
  BY <1>4, <1>5, <1>6

\* A recovery begins the sweep of a device afresh, or leaves it to its next activity.
Begun(d, s, n) ==
    /\ Pos(d, n) \in {-1, 0}
    /\ n.inflight = NoReg
    /\ ~n.active => ~n.refreshed

LEMMA CancelledBegun ==
    ASSUME NEW d \in Device, NEW s
    PROVE  Begun(d, s, Cancelled(s))
  BY DEF Cancelled, NoReads, Begun, Pos

LEMMA RestartBegun ==
    ASSUME NEW d \in Device, NEW s, DeviceInv(d, s), NEW ok \in BOOLEAN
    PROVE  Begun(d, s, Refreshed(d, Cancelled(s), ok))
<1> DEFINE c == Cancelled(s)
           q == [c EXCEPT !.active = TRUE, !.queue = Regs[d], !.refreshed = TRUE]
           a == Armed(q, "start", NoReg)
<1>1. DeviceInv(d, c) /\ ~c.active /\ ~c.refreshed /\ c.inflight = NoReg
  BY CancelledInv DEF DeviceInv, Cancelled, NoReads
<1> HIDE DEF c
<1>2. q \in Reads /\ q.active /\ q.inflight = NoReg
  BY <1>1, RegsAssumption DEF DeviceInv, Reads
<1>3. \/ Refreshed(d, c, ok) \in {c, Cancelled(q)}
      \/ FreshTimers(q) # {} /\ Refreshed(d, c, ok) = a
  BY <1>1 DEF Refreshed, Queued
<1> HIDE DEF q
<1>4. FreshTimers(q) # {} => a.active /\ a.inflight = NoReg
  BY <1>2, ArmedFields
<1>5. ~Cancelled(q).active /\ ~Cancelled(q).refreshed /\ Cancelled(q).inflight = NoReg
  BY DEF Cancelled, NoReads
<1>6. SweepStep(d, c, Refreshed(d, c, ok))
  BY <1>1, RefreshedSweep
<1> HIDE DEF a
<1>7. Pos(d, c) = -1
  BY <1>1 DEF Pos
<1> QED
  BY <1>1, <1>3, <1>4, <1>5, <1>6, <1>7 DEF Begun, SweepStep, c

\* Every step moves the sweep of one device, or begins those of all of them.
LEMMA NextSweep ==
    ASSUME IInv, [Next]_vars
    PROVE  \/ \E d \in Device :
                 /\ SweepStep(d, reads[d], reads'[d])
                 /\ reads' = [reads EXCEPT ![d] = reads'[d]]
           \/ /\ \A d \in Device : Begun(d, reads[d], reads'[d])
              /\ DOMAIN reads' = Device
           \/ UNCHANGED reads
<1> DEFINE One == \E d \in Device : /\ SweepStep(d, reads[d], reads'[d])
                                    /\ reads' = [reads EXCEPT ![d] = reads'[d]]
           All == /\ \A d \in Device : Begun(d, reads[d], reads'[d])
                  /\ DOMAIN reads' = Device
<1>0. \A d \in Device : DeviceInv(d, reads[d])
  BY DEF IInv
<1>a. ASSUME NEW d \in Device, NEW s, SweepStep(d, reads[d], s),
             reads' = [reads EXCEPT ![d] = s]
      PROVE  One
  <2>1. reads'[d] = s
    BY <1>a DEF IInv, TypeOK
  <2> QED
    BY <1>a, <2>1
<1> HIDE DEF One
<1>b. ReadsRestarted => All
  <2> SUFFICES ASSUME ReadsRestarted PROVE All
    OBVIOUS
  <2>1. PICK failing \in SUBSET Device :
            reads' = [d \in Device |->
                         IF d \in known
                         THEN Refreshed(d, Cancelled(reads[d]), d \notin failing)
                         ELSE Cancelled(reads[d])]
    BY DEF ReadsRestarted
  <2>2. ASSUME NEW d \in Device PROVE Begun(d, reads[d], reads'[d])
    <3>1. Begun(d, reads[d], Cancelled(reads[d]))
      BY CancelledBegun
    <3>2. Begun(d, reads[d], Refreshed(d, Cancelled(reads[d]), d \notin failing))
      BY <1>0, RestartBegun
    <3> QED
      BY <2>1, <3>1, <3>2
  <2> QED
    BY <2>1, <2>2
<1> HIDE DEF All
<1>1. ASSUME NEW d \in Device, ReadAllPressed(d) PROVE One
  <2>1. PICK held \in BOOLEAN, ok \in BOOLEAN :
            reads' = [reads EXCEPT ![d] = IF held THEN Queued(d, reads[d], ok)
                                                  ELSE Cancelled(reads[d])]
    BY <1>1 DEF ReadAllPressed
  <2>2. SweepStep(d, reads[d], IF held THEN Queued(d, reads[d], ok)
                                       ELSE Cancelled(reads[d]))
    BY <1>0, QueuedSweep, CancelledSweep
  <2> QED
    BY <1>a, <2>1, <2>2
<1>2. ASSUME NEW d \in Device, DeviceActivity(d) PROVE One
  BY <1>0, <1>2, <1>a, RefreshedSweep DEF DeviceActivity
<1>3. ASSUME NEW d \in Device, NEW r \in Register, Answer(d, r) PROVE One
  BY <1>0, <1>3, <1>a, AnswerSweep, NoRegAssumption DEF Answer
<1>4. ASSUME NEW d \in Device, NEW t \in reads[d].threads, TimerFires(d, t) PROVE One
  <2> DEFINE g == [reads[d] EXCEPT !.threads = (@ \ {t}) \cup {[t EXCEPT !.fired = TRUE]}]
  <2>1. g.active = reads[d].active /\ g.queue = reads[d].queue
        /\ g.inflight = reads[d].inflight
    BY DEF IInv, TypeOK, Reads
  <2>2. reads' = [reads EXCEPT ![d] = g]
    BY <1>4 DEF TimerFires
  <2> HIDE DEF g
  <2>3. SweepStep(d, reads[d], g)
    BY <2>1 DEF SweepStep, Aborts, Pos
  <2> QED
    BY <1>a, <2>2, <2>3
<1>5. ASSUME NEW d \in Device, NEW t \in reads[d].threads, TimerRuns(d, t) PROVE One
  <2> DEFINE s == [reads[d] EXCEPT !.threads = @ \ {t}]
  <2>1. PICK ok \in BOOLEAN :
            reads' = [reads EXCEPT ![d] = IF stopped THEN s ELSE TimerCallback(s, t, ok)]
    BY <1>5 DEF TimerRuns
  <2>2. SweepStep(d, reads[d], TimerCallback(s, t, ok))
    BY <1>0, <1>5, CallbackSweep DEF TimerRuns
  <2>3. s.active = reads[d].active /\ s.queue = reads[d].queue
        /\ s.inflight = reads[d].inflight
    BY DEF IInv, TypeOK, Reads
  <2> HIDE DEF s
  <2>4. SweepStep(d, reads[d], s)
    BY <2>3 DEF SweepStep, Aborts, Pos
  <2> QED
    BY <1>a, <2>1, <2>2, <2>4
<1>6. CASE Stop
  <2>1. \A d \in Device : Begun(d, reads[d], Cancelled(reads[d]))
    BY CancelledBegun
  <2> QED
    BY <1>6, <2>1 DEF Stop, All
<1>7. CASE SourceReadyHandled
  BY <1>7, <1>b DEF SourceReadyHandled, All
<1>8. CASE HomeAssistantRecovered
  BY <1>8, <1>b DEF HomeAssistantRecovered, All
<1>9. CASE SourceSubscribed \/ SourceLost \/ UNCHANGED vars
  BY <1>9 DEF SourceSubscribed, SourceLost, vars
<1> QED
  BY <1>1, <1>2, <1>3, <1>4, <1>5, <1>6, <1>7, <1>8, <1>9 DEF Next, One, All

\* A sequence cut short gives the device's automatic refresh back.
THEOREM AbortedReadsRetry == Spec => RetryAfterAbort
<1>1. ASSUME IInv, [Next]_vars
      PROVE  [\A d \in Device : reads[d].active /\ ~reads'[d].active
                 => reads[d].queue = <<>> \/ ~reads'[d].refreshed]_vars
  <2>1. CASE \E d \in Device : /\ SweepStep(d, reads[d], reads'[d])
                               /\ reads' = [reads EXCEPT ![d] = reads'[d]]
    <3>1. PICK d \in Device : /\ SweepStep(d, reads[d], reads'[d])
                              /\ reads' = [reads EXCEPT ![d] = reads'[d]]
      BY <2>1
    <3>2. \A e \in Device : e # d => reads'[e] = reads[e]
      BY <1>1, <3>1 DEF IInv, TypeOK
    <3> QED
      BY <3>1, <3>2 DEF SweepStep, Aborts
  <2>2. CASE \A d \in Device : Begun(d, reads[d], reads'[d])
    BY <2>2 DEF Begun
  <2>3. CASE UNCHANGED reads
    BY <2>3
  <2> QED
    BY <1>1, <2>1, <2>2, <2>3, NextSweep
<1> QED
  BY <1>1, InductiveInvariant, PTL DEF Spec, RetryAfterAbort

\* ConfigReads implements ReadSweep: the registers are asked for one at a time, in
\* map order, none skipped and none repeated.
THEOREM ReadsSweepInOrder == Spec => SweepInOrder
<1> DEFINE step == [d \in Device |-> IF reads[d].active
                                     THEN Len(Regs[d]) - Len(reads[d].queue) ELSE -1]
           asking == [d \in Device |-> reads[d].inflight]
<1>1. Init => Sweep!Init
  BY DEF Init, NoReads, Sweep!Init, Sweep!Idle
<1>2. ASSUME IInv, [Next]_vars PROVE [Sweep!Next]_(Sweep!vars)
  <2>0. /\ \A d \in Device : step[d] = Pos(d, reads[d]) /\ step'[d] = Pos(d, reads'[d])
        /\ \A d \in Device : asking[d] = reads[d].inflight /\ asking'[d] = reads'[d].inflight
    BY DEF Pos
  <2>1. CASE \E d \in Device : /\ SweepStep(d, reads[d], reads'[d])
                               /\ reads' = [reads EXCEPT ![d] = reads'[d]]
    <3>1. PICK d \in Device : /\ SweepStep(d, reads[d], reads'[d])
                              /\ reads' = [reads EXCEPT ![d] = reads'[d]]
      BY <2>1
    <3>2. \A e \in Device : e # d => reads'[e] = reads[e]
      BY <1>2, <3>1 DEF IInv, TypeOK
    <3>3. step[d] = Pos(d, reads[d]) /\ asking[d] = reads[d].inflight
      BY <2>0
    <3>4. /\ step' = [step EXCEPT ![d] = Pos(d, reads'[d])]
          /\ asking' = [asking EXCEPT ![d] = reads'[d].inflight]
      BY <2>0, <3>2
    <3>5. /\ step = [step EXCEPT ![d] = step[d]]
          /\ asking = [asking EXCEPT ![d] = asking[d]]
      OBVIOUS
    <3>6. /\ Sweep!Begin(d) <=> /\ step[d] = -1
                               /\ step' = [step EXCEPT ![d] = 0]
                               /\ asking' = asking
          /\ Sweep!AskNext(d) <=> /\ step[d] # -1 /\ step[d] < Len(Regs[d])
                                 /\ step' = [step EXCEPT ![d] = step[d] + 1]
                                 /\ asking' = [asking EXCEPT ![d] = Regs[d][step[d] + 1]]
          /\ Sweep!End(d) <=> /\ step[d] # -1
                             /\ step' = [step EXCEPT ![d] = -1]
                             /\ asking' = [asking EXCEPT ![d] = NoReg]
          /\ UNCHANGED Sweep!vars <=> step' = step /\ asking' = asking
      BY DEF Sweep!Begin, Sweep!AskNext, Sweep!End, Sweep!Idle, Sweep!vars
    <3> HIDE DEF step, asking
    <3>7. \/ Sweep!Begin(d) \/ Sweep!AskNext(d) \/ Sweep!End(d) \/ UNCHANGED Sweep!vars
      <4>1. CASE Pos(d, reads'[d]) = step[d] /\ reads'[d].inflight = asking[d]
        BY <3>4, <3>5, <3>6, <4>1
      <4>2. CASE /\ step[d] = -1 /\ Pos(d, reads'[d]) = 0
                 /\ reads'[d].inflight = asking[d]
        BY <3>4, <3>5, <3>6, <4>2
      <4>3. CASE /\ step[d] # -1 /\ step[d] < Len(Regs[d])
                 /\ Pos(d, reads'[d]) = step[d] + 1
                 /\ reads'[d].inflight = Regs[d][step[d] + 1]
        BY <3>4, <3>6, <4>3
      <4>4. CASE step[d] # -1 /\ Pos(d, reads'[d]) = -1 /\ reads'[d].inflight = NoReg
        BY <3>4, <3>6, <4>4
      <4> QED
        BY <3>1, <3>3, <4>1, <4>2, <4>3, <4>4 DEF SweepStep
    <3> QED
      BY <3>7 DEF Sweep!Next
  <2>2. CASE /\ \A d \in Device : Begun(d, reads[d], reads'[d])
             /\ DOMAIN reads' = Device
    <3>1. Sweep!Restart
      BY <2>2 DEF Sweep!Restart, Sweep!Idle, Begun, Pos
    <3> QED
      BY <3>1 DEF Sweep!Next
  <2>3. CASE UNCHANGED reads
    BY <2>3 DEF Sweep!vars
  <2> QED
    BY <1>2, <2>1, <2>2, <2>3, NextSweep
<1> QED
  BY <1>1, <1>2, InductiveInvariant, PTL DEF Spec, SweepInOrder, Sweep!Spec
=============================================================================
