------------------------ MODULE CloudForwardProofs -------------------------
(***************************************************************************)
(* Proofs about CloudForward, for any devices, messages and policy.        *)
(***************************************************************************)
EXTENDS CloudForward, TLAPS

Busy == src # Idle

\* A packet of a device on its way to the cloud.
Fresh(m) == ~m.forwarded

\* Every packet has one fresh carrier or was uploaded once; messages of the cloud
\* are never fresh at the source client.
NoSecondWay ==
    /\ \A m \in toSource : Fresh(m) => from[m.id] = "device" /\ uploads[m.id] = 0
    /\ \A m, n \in toSource : Fresh(m) /\ Fresh(n) /\ m.id = n.id => m = n
    /\ Busy => /\ from[src.msg.id] = "device" /\ uploads[src.msg.id] = 0
               /\ \A m \in toSource : Fresh(m) => m.id # src.msg.id
    /\ \A i \in MsgId : uploads[i] = 0 \/ (uploads[i] = 1 /\ from[i] = "device")

OnlyAllowed ==
    /\ Busy => src.msg.dev \in Allowed
    /\ registered \subseteq Allowed /\ toStop \subseteq Allowed
    /\ \A d \in Device : worker[d] # "none" => d \in Allowed

\* What stop() has still to disconnect.
StopKnows ==
    /\ stopped <=> main # "up"
    /\ stopped => src.at # "connect"
    /\ stopped => \A d \in Device : \/ link[d] \in {"none", "closed"}
                                    \/ worker[d] = "disconnect"
                                    \/ d \in toStop
    /\ main \in {"joining", "stopped"} => toStop = {} /\ src = Idle
    /\ main # "stopped" => toStop \subseteq registered
    /\ \A d \in Device :
          worker[d] # "none" => stopped /\ (d \in registered \/ main = "stopped")

IInv == TypeOK /\ NoSecondWay /\ OnlyAllowed /\ PolicyHolds /\ StopKnows

LEMMA SrcType ==
    ASSUME src \in Step \cup {Idle}
    PROVE  /\ Busy <=> src.at \in {"lookup", "connect", "publish"}
           /\ Busy => src.msg \in Message /\ src \in Step
           /\ src.at # "idle" => Busy
           /\ Busy => \A a \in {"lookup", "connect", "publish"} :
                         LET n == [src EXCEPT !.at = a]
                         IN  n \in Step /\ n.msg = src.msg /\ n.at = a /\ n # Idle
<1>1. Idle.at = "idle"
  BY DEF Idle
<1>2. \A s \in Step : s.at \in {"lookup", "connect", "publish"} /\ s.msg \in Message
  BY DEF Step
<1>3. \A s \in Step : s # Idle
  BY <1>1, <1>2
<1>4. \A s \in Step : \A a \in {"lookup", "connect", "publish"} :
          LET n == [s EXCEPT !.at = a] IN n \in Step /\ n.msg = s.msg /\ n.at = a
  BY DEF Step
<1> HIDE DEF Step, Idle
<1> QED
  BY <1>1, <1>2, <1>3, <1>4 DEF Busy

LEMMA Implied == IInv => NoEchoLoop /\ NothingLeftConnected
<1> SUFFICES ASSUME IInv PROVE NoEchoLoop /\ NothingLeftConnected
  OBVIOUS
<1>1. NoEchoLoop
  BY DEF IInv, NoSecondWay, NoEchoLoop
<1>2. NothingLeftConnected
  BY DEF IInv, StopKnows, NothingLeftConnected
<1> QED
  BY <1>1, <1>2

LEMMA InitIInv == Init => IInv
<1> SUFFICES ASSUME Init PROVE IInv
  OBVIOUS
<1>1. TypeOK
  BY DEF Init, TypeOK, Message
<1>2. ~Busy /\ src.at = "idle"
  BY DEF Init, Busy, Idle
<1>3. NoSecondWay /\ OnlyAllowed /\ PolicyHolds
  BY <1>2 DEF Init, NoSecondWay, OnlyAllowed, PolicyHolds
<1>4. StopKnows
  BY <1>2 DEF Init, StopKnows
<1> QED
  BY <1>1, <1>3, <1>4 DEF IInv

-----------------------------------------------------------------------------
\* Actions that leave the messages and the source thread alone keep NoSecondWay.
LEMMA SecondWayUnchanged ==
    ASSUME NoSecondWay, UNCHANGED <<messages, src>>
    PROVE  NoSecondWay'
  BY DEF NoSecondWay, Fresh, Busy, messages

\* A new message is not fresh anywhere yet.
LEMMA SentOK ==
    ASSUME IInv, NEW m \in Message, from[m.id] = "unsent", NEW who \in {"device", "cloud"},
           from' = [from EXCEPT ![m.id] = who], UNCHANGED <<toDevice, uploads, src>>,
           UNCHANGED <<clients, shutdown>>,
           \/ /\ who = "device"
              /\ toSource' = toSource \cup {m} /\ toForward' = toForward
           \/ /\ toSource' = toSource /\ toForward' = toForward \cup {m}
    PROVE  IInv'
<1> USE DEF IInv
<1>1. TypeOK'
  <2>1. m.id \in MsgId
    BY DEF Message
  <2>2. from' \in [MsgId -> {"unsent", "device", "cloud"}]
    BY <2>1 DEF TypeOK
  <2>3. toSource' \subseteq Message /\ toForward' \subseteq Message
    BY DEF TypeOK
  <2> QED
    BY <2>2, <2>3 DEF TypeOK, clients, shutdown
<1>2. NoSecondWay'
  <2>1. m.id \in MsgId /\ \A n \in toSource : n.id \in MsgId
    BY DEF TypeOK, Message
  <2>2. from'[m.id] = who /\ \A i \in MsgId : i # m.id => from'[i] = from[i]
    BY <2>1 DEF TypeOK
  <2>3. uploads[m.id] = 0 /\ \A n \in toSource : Fresh(n) => n.id # m.id
    BY <2>1 DEF NoSecondWay
  <2>4. Busy => src.msg.id # m.id
    BY DEF NoSecondWay
  <2>5. Busy => src.msg.id \in MsgId
    BY SrcType DEF TypeOK, Message
  <2>6. \A n \in toSource' : Fresh(n) => from'[n.id] = "device" /\ uploads[n.id] = 0
    BY <2>1, <2>2, <2>3 DEF NoSecondWay
  <2>7. \A n, k \in toSource' : Fresh(n) /\ Fresh(k) /\ n.id = k.id => n = k
    BY <2>3 DEF NoSecondWay
  <2>8. Busy => /\ from'[src.msg.id] = "device" /\ uploads[src.msg.id] = 0
                /\ \A n \in toSource' : Fresh(n) => n.id # src.msg.id
    BY <2>2, <2>4, <2>5 DEF NoSecondWay
  <2>9. \A i \in MsgId : uploads[i] = 0 \/ (uploads[i] = 1 /\ from'[i] = "device")
    BY <2>2, <2>3 DEF NoSecondWay
  <2>10. Busy' <=> Busy
    BY DEF Busy
  <2> QED
    BY <2>6, <2>7, <2>8, <2>9, <2>10 DEF NoSecondWay, Fresh
<1>3. OnlyAllowed' /\ PolicyHolds' /\ StopKnows'
  BY DEF OnlyAllowed, PolicyHolds, StopKnows, Busy, clients, shutdown
<1> QED
  BY <1>1, <1>2, <1>3

LEMMA ArrivesOK == ASSUME IInv, NEW m \in toSource, Arrives(m) PROVE IInv'
<1> USE DEF IInv
<1> DEFINE n == [at |-> "lookup", msg |-> m]
<1>1. m \in Message /\ src = Idle /\ ~Busy
  BY DEF TypeOK, Arrives, Busy
<1>2. /\ n \in Step /\ n.msg = m /\ n.at = "lookup"
      /\ Idle.at = "idle" /\ n # Idle
  BY <1>1 DEF Step, Idle
<1>3. /\ toSource' = toSource \ {m} /\ main \notin {"joining", "stopped"}
      /\ src' = IF ~stopped /\ Uploaded(m) THEN n ELSE Idle
      /\ UNCHANGED <<from, toForward, toDevice, uploads, registered, link, sub,
                     stopped, main, toStop, worker>>
  BY DEF Arrives, clients, shutdown
<1> HIDE DEF n
<1>4. TypeOK'
  BY <1>1, <1>2, <1>3 DEF TypeOK
<1>5. NoSecondWay'
  <2>1. Busy' => src'.msg = m /\ Fresh(m)
    BY <1>2, <1>3 DEF Busy, Uploaded, Fresh
  <2> QED
    BY <1>3, <2>1 DEF NoSecondWay, Fresh
<1>6. OnlyAllowed' /\ PolicyHolds'
  BY <1>2, <1>3 DEF OnlyAllowed, PolicyHolds, Busy, Uploaded
<1>7. StopKnows'
  BY <1>2, <1>3 DEF StopKnows
<1> QED
  BY <1>4, <1>5, <1>6, <1>7

LEMMA LooksUpOK == ASSUME IInv, LooksUp PROVE IInv'
<1> USE DEF IInv
<1> DEFINE d == src.msg.dev
<1>1. Busy /\ src \in Step /\ src.msg \in Message
  BY SrcType DEF LooksUp, TypeOK
<1>2. /\ Found(d) \in {"idle", "publish", "connect"}
      /\ Found(d) = "connect" => ~stopped
  BY DEF Found
<1>3. /\ src' = IF Found(d) = "idle" THEN Idle ELSE [src EXCEPT !.at = Found(d)]
      /\ UNCHANGED <<messages, clients, shutdown>>
  BY DEF LooksUp
<1>4. \/ src' = Idle /\ src'.at = "idle"
      \/ /\ src' \in Step /\ src'.msg = src.msg /\ Found(d) # "idle"
         /\ src'.at = Found(d) /\ src' # Idle
  <2>1. CASE Found(d) = "idle"
    BY <1>3, <2>1 DEF Idle
  <2>2. CASE Found(d) # "idle"
    BY <1>1, <1>2, <1>3, <2>2, SrcType DEF TypeOK
  <2> QED
    BY <2>1, <2>2
<1> HIDE DEF d
<1>5. TypeOK'
  BY <1>3, <1>4 DEF TypeOK, messages, clients, shutdown
<1>6. NoSecondWay' /\ OnlyAllowed' /\ PolicyHolds'
  BY <1>1, <1>3, <1>4 DEF NoSecondWay, OnlyAllowed, PolicyHolds, Fresh, Busy, messages, clients,
     shutdown
<1>7. StopKnows'
  BY <1>1, <1>2, <1>3, <1>4 DEF StopKnows, clients, shutdown, Busy
<1> QED
  BY <1>5, <1>6, <1>7

\* A client is made for an allowed device, while stop() waits for the lock.
LEMMA ConnectsOK == ASSUME IInv, Connects PROVE IInv'
<1> USE DEF IInv
<1> DEFINE d == src.msg.dev
<1>1. Busy /\ src.msg \in Message /\ ~stopped /\ main = "up" /\ d \in Device /\ d \in Allowed
  BY SrcType DEF Connects, TypeOK, StopKnows, OnlyAllowed, Message
<1>2. src' \in Step /\ src'.msg = src.msg /\ src'.at = "publish" /\ src' # Idle
  BY <1>1, SrcType DEF Connects, TypeOK
<1>3. /\ registered' = registered \cup {d}
      /\ link' = [link EXCEPT ![d] = "connecting"] /\ sub' = [sub EXCEPT ![d] = "sent"]
      /\ UNCHANGED <<messages, shutdown>>
  BY DEF Connects
<1> HIDE DEF d
<1>4. link' \in [Device -> {"none", "connecting", "up", "down", "closed"}]
      /\ link'[d] = "connecting" /\ \A e \in Device : e # d => link'[e] = link[e]
  BY <1>1, <1>3 DEF TypeOK
<1>5. TypeOK'
  <2>1. registered' = {e \in Device : link'[e] # "none"}
    BY <1>1, <1>3, <1>4 DEF TypeOK
  <2>2. sub' \in [Device -> {"no", "sent", "yes"}]
    BY <1>1, <1>3 DEF TypeOK
  <2> QED
    BY <1>2, <1>4, <2>1, <2>2, <1>3 DEF TypeOK, messages, shutdown
<1>6. NoSecondWay'
  BY <1>1, <1>2, <1>3 DEF NoSecondWay, Fresh, Busy, messages
<1>7. OnlyAllowed' /\ PolicyHolds'
  BY <1>1, <1>2, <1>3, <1>4 DEF OnlyAllowed, PolicyHolds, Busy, d, messages, shutdown
<1>8. StopKnows'
  BY <1>1, <1>2, <1>3 DEF StopKnows, shutdown
<1> QED
  BY <1>5, <1>6, <1>7, <1>8

LEMMA ConnectFailsOK == ASSUME IInv, ConnectFails PROVE IInv'
<1> USE DEF IInv
<1>1. Busy /\ ~stopped /\ ~Busy' /\ src'.at = "idle"
  BY SrcType DEF ConnectFails, TypeOK, StopKnows, Busy, Idle
<1>2. UNCHANGED <<messages, clients, shutdown>> /\ src' = Idle
  BY DEF ConnectFails
<1>3. TypeOK'
  BY <1>2 DEF TypeOK, messages, clients, shutdown
<1>4. NoSecondWay' /\ OnlyAllowed' /\ PolicyHolds' /\ StopKnows'
  BY <1>1, <1>2 DEF NoSecondWay, OnlyAllowed, PolicyHolds, StopKnows, Fresh, Busy, messages,
     clients, shutdown
<1> QED
  BY <1>3, <1>4

\* The upload uses up the packet's only fresh carrier.
LEMMA PublishesOK == ASSUME IInv, Publishes PROVE IInv'
<1> USE DEF IInv
<1> DEFINE m == src.msg
<1>1. Busy /\ m \in Message /\ m.id \in MsgId /\ ~Busy' /\ src' = Idle /\ src'.at = "idle"
  BY SrcType DEF Publishes, TypeOK, Busy, Message, Idle
<1>2. /\ \/ /\ uploads' = [uploads EXCEPT ![m.id] = uploads[m.id] + 1]
            /\ toForward' \in {toForward, toForward \cup {m}}
         \/ UNCHANGED <<uploads, toForward>>
      /\ UNCHANGED <<from, toSource, toDevice, clients, shutdown>>
  BY DEF Publishes
<1> HIDE DEF m
<1>3. TypeOK'
  <2>1. uploads' \in [MsgId -> Nat] /\ toForward' \subseteq Message
    BY <1>1, <1>2 DEF TypeOK
  <2> QED
    BY <1>1, <1>2, <2>1 DEF TypeOK, clients, shutdown
<1>4. NoSecondWay'
  <2>1. from[m.id] = "device" /\ uploads[m.id] = 0 /\ \A n \in toSource : Fresh(n) => n.id # m.id
    BY <1>1 DEF NoSecondWay, m
  <2>2. /\ \A i \in MsgId : i # m.id => uploads'[i] = uploads[i]
        /\ uploads'[m.id] \in {0, 1}
    BY <1>1, <1>2, <2>1 DEF TypeOK
  <2>3. \A n \in toSource : n.id \in MsgId
    BY DEF TypeOK, Message
  <2>4. \A n \in toSource : Fresh(n) => from[n.id] = "device" /\ uploads'[n.id] = 0
    BY <2>1, <2>2, <2>3 DEF NoSecondWay
  <2>5. \A i \in MsgId : uploads'[i] = 0 \/ (uploads'[i] = 1 /\ from[i] = "device")
    BY <2>1, <2>2 DEF NoSecondWay
  <2> QED
    BY <1>1, <1>2, <2>4, <2>5 DEF NoSecondWay, Fresh
<1>5. OnlyAllowed' /\ PolicyHolds' /\ StopKnows'
  BY <1>1, <1>2 DEF OnlyAllowed, PolicyHolds, StopKnows, clients, shutdown
<1> QED
  BY <1>3, <1>4, <1>5

\* What comes from the cloud is published with the property, so it is never fresh.
LEMMA CloudMessageOK == ASSUME IInv, NEW m \in toForward, CloudMessage(m) PROVE IInv'
<1> USE DEF IInv
<1> DEFINE f == [m EXCEPT !.forwarded = TRUE]
<1>1. m \in Message
  BY DEF TypeOK
<1>2. /\ f \in Message /\ ~Fresh(f) /\ f.dev = m.dev /\ f.config = m.config
  BY <1>1 DEF Message, Fresh
<1>3. /\ toForward' = toForward \ {m}
      /\ toSource' \in {toSource, toSource \cup {f}}
      /\ toDevice' = toDevice \/ (toDevice' = toDevice \cup {f} /\ Downloaded(m))
      /\ UNCHANGED <<from, uploads, src, clients, shutdown>>
  BY DEF CloudMessage
<1> HIDE DEF f
<1>4. TypeOK'
  BY <1>2, <1>3 DEF TypeOK, clients, shutdown
<1>5. NoSecondWay'
  <2>1. \A n \in toSource' : Fresh(n) => n \in toSource
    BY <1>2, <1>3
  <2> QED
    BY <1>3, <2>1 DEF NoSecondWay, Fresh, Busy
<1>6. PolicyHolds'
  <2>1. \A n \in toDevice' : n.dev \in Allowed /\ ~(BlockConfig /\ n.config)
    BY <1>2, <1>3 DEF PolicyHolds, Downloaded
  <2> QED
    BY <1>3, <2>1 DEF PolicyHolds, clients
<1>7. OnlyAllowed' /\ StopKnows'
  BY <1>3 DEF OnlyAllowed, StopKnows, Busy, clients, shutdown
<1> QED
  BY <1>4, <1>5, <1>6, <1>7

\* A connection of a registered client changes; a closed or missing one does not.
LEMMA ConnectionOK ==
    ASSUME IInv, NEW d \in Device, link[d] \in {"connecting", "up", "down"},
           NEW v \in {"connecting", "up", "down"}, NEW s \in {"no", "sent", "yes"},
           link' = [link EXCEPT ![d] = v], sub' = [sub EXCEPT ![d] = s],
           UNCHANGED <<messages, src, registered, shutdown>>
    PROVE  IInv'
<1> USE DEF IInv
<1>1. /\ link' \in [Device -> {"none", "connecting", "up", "down", "closed"}]
      /\ sub' \in [Device -> {"no", "sent", "yes"}]
      /\ link'[d] = v /\ \A e \in Device : e # d => link'[e] = link[e]
  BY DEF TypeOK
<1>2. TypeOK'
  <2>1. {e \in Device : link'[e] # "none"} = {e \in Device : link[e] # "none"}
    BY <1>1
  <2> QED
    BY <1>1, <2>1 DEF TypeOK, messages, shutdown
<1>3. OnlyAllowed' /\ PolicyHolds'
  BY <1>1 DEF OnlyAllowed, PolicyHolds, Busy, messages, shutdown
<1>4. StopKnows'
  BY <1>1 DEF StopKnows, shutdown
<1> QED
  BY <1>2, <1>3, <1>4, SecondWayUnchanged

\* Disconnecting a client for good.
LEMMA ClosedOK ==
    ASSUME IInv, NEW d \in Device, Closed(d), d \in Allowed, stopped,
           main = "stopped" \/ d \in registered,
           worker' \in [Device -> {"none", "disconnect", "loop_stop"}],
           \A e \in Device : e # d => worker'[e] = worker[e],
           toStop' \subseteq toStop, \A e \in toStop : e # d => e \in toStop',
           UNCHANGED <<messages, src, registered, stopped, main>>
    PROVE  IInv'
<1> USE DEF IInv
<1>1. /\ link' \in [Device -> {"none", "connecting", "up", "down", "closed"}]
      /\ sub' \in [Device -> {"no", "sent", "yes"}]
      /\ link'[d] = "closed" /\ \A e \in Device : e # d => link'[e] = link[e]
  BY DEF Closed, TypeOK
<1>2. TypeOK'
  <2>1. main # "stopped" => registered = {e \in Device : link'[e] # "none"}
    BY <1>1 DEF TypeOK
  <2> QED
    BY <1>1, <2>1 DEF TypeOK, messages
<1>3. OnlyAllowed' /\ PolicyHolds'
  BY <1>1 DEF OnlyAllowed, PolicyHolds, Busy, messages
<1>4. StopKnows'
  <2>1. \A e \in Device : \/ link'[e] \in {"none", "closed"}
                          \/ worker'[e] = "disconnect"
                          \/ e \in toStop'
    BY <1>1 DEF StopKnows
  <2> QED
    BY <2>1 DEF StopKnows
<1> QED
  BY <1>2, <1>3, <1>4, SecondWayUnchanged

LEMMA ShutdownOK ==
    ASSUME IInv, StopBegins \/ MainThread \/ \E d \in Device : WorkerDisconnects(d) \/ WorkerEnds(d)
    PROVE  IInv'
<1> USE DEF IInv
<1>1. CASE StopBegins
  <2>1. /\ main = "up" /\ main' = "stopping" /\ stopped' = TRUE /\ toStop' = registered
        /\ src.at # "connect" /\ UNCHANGED <<messages, src, clients, worker>>
    BY <1>1 DEF StopBegins, Snapshot
  <2>2. TypeOK' /\ NoSecondWay' /\ OnlyAllowed' /\ PolicyHolds'
    BY <2>1, SecondWayUnchanged DEF TypeOK, OnlyAllowed, PolicyHolds, Busy, messages, clients
  <2>3. \A d \in Device : link[d] = "none" \/ d \in registered
    BY <2>1 DEF TypeOK
  <2>4. StopKnows'
    BY <2>1, <2>3 DEF StopKnows, clients
  <2> QED
    BY <2>2, <2>4
<1>2. ASSUME NEW d \in Device, WorkerStarts(d) PROVE IInv'
  <2>1. /\ main = "stopping" /\ d \in toStop /\ toStop' = toStop \ {d}
        /\ worker' = [worker EXCEPT ![d] = "disconnect"]
        /\ UNCHANGED <<messages, src, clients, stopped, main>>
    BY <1>2 DEF WorkerStarts
  <2>2. /\ worker' \in [Device -> {"none", "disconnect", "loop_stop"}]
        /\ worker'[d] = "disconnect" /\ \A e \in Device : e # d => worker'[e] = worker[e]
    BY <2>1 DEF TypeOK
  <2>3. TypeOK' /\ NoSecondWay' /\ PolicyHolds'
    BY <2>1, <2>2, SecondWayUnchanged DEF TypeOK, PolicyHolds, messages, clients
  <2>4. OnlyAllowed' /\ StopKnows'
    BY <2>1, <2>2 DEF OnlyAllowed, StopKnows, Busy, clients
  <2> QED
    BY <2>3, <2>4
<1>3. ASSUME NEW d \in Device, WorkerCannotStart(d) PROVE IInv'
  <2>1. /\ main = "stopping" /\ d \in toStop /\ toStop' = toStop \ {d} /\ Closed(d)
        /\ UNCHANGED <<messages, src, registered, stopped, main, worker>>
    BY <1>3 DEF WorkerCannotStart
  <2>2. stopped /\ d \in Allowed /\ worker' \in [Device -> {"none", "disconnect", "loop_stop"}]
    BY <2>1 DEF StopKnows, OnlyAllowed, TypeOK
  <2>3. d \in registered
    BY <2>1 DEF StopKnows
  <2> QED
    BY <2>1, <2>2, <2>3, ClosedOK
<1>4. ASSUME NEW d \in Device, WorkerDisconnects(d) PROVE IInv'
  <2>1. /\ worker[d] = "disconnect" /\ worker' = [worker EXCEPT ![d] = "loop_stop"] /\ Closed(d)
        /\ UNCHANGED <<messages, src, registered, stopped, main, toStop>>
    BY <1>4 DEF WorkerDisconnects
  <2>2. /\ worker' \in [Device -> {"none", "disconnect", "loop_stop"}]
        /\ \A e \in Device : e # d => worker'[e] = worker[e]
    BY <2>1 DEF TypeOK
  <2>3. d \in Allowed /\ stopped /\ (main = "stopped" \/ d \in registered)
    BY <2>1 DEF OnlyAllowed, StopKnows
  <2> QED
    BY <2>1, <2>2, <2>3, ClosedOK
<1>5. ASSUME NEW d \in Device, WorkerEnds(d) PROVE IInv'
  <2>1. /\ worker[d] = "loop_stop" /\ worker' = [worker EXCEPT ![d] = "none"]
        /\ UNCHANGED <<messages, src, clients, stopped, main, toStop>>
    BY <1>5 DEF WorkerEnds
  <2>2. /\ worker' \in [Device -> {"none", "disconnect", "loop_stop"}]
        /\ worker'[d] = "none" /\ \A e \in Device : e # d => worker'[e] = worker[e]
    BY <2>1 DEF TypeOK
  <2>3. TypeOK' /\ NoSecondWay' /\ PolicyHolds'
    BY <2>1, <2>2, SecondWayUnchanged DEF TypeOK, PolicyHolds, messages, clients
  <2>4. OnlyAllowed' /\ StopKnows'
    BY <2>1, <2>2 DEF OnlyAllowed, StopKnows, Busy, clients
  <2> QED
    BY <2>3, <2>4
<1>6. CASE SourceStops
  <2>1. /\ main = "stopping" /\ toStop = {} /\ src = Idle /\ main' = "joining"
        /\ UNCHANGED <<messages, src, clients, stopped, toStop, worker>>
    BY <1>6 DEF SourceStops
  <2> QED
    BY <2>1, SecondWayUnchanged DEF TypeOK, OnlyAllowed, PolicyHolds, StopKnows, Busy, messages,
       clients
<1>7. CASE StopEnds
  <2>1. /\ main = "joining" /\ main' = "stopped" /\ registered' = {}
        /\ UNCHANGED <<messages, src, link, sub, stopped, toStop, worker>>
    BY <1>7 DEF StopEnds
  <2> QED
    BY <2>1, SecondWayUnchanged DEF TypeOK, OnlyAllowed, PolicyHolds, StopKnows, Busy, messages
<1> QED
  BY <1>1, <1>2, <1>3, <1>4, <1>5, <1>6, <1>7 DEF MainThread

LEMMA NextIInv == ASSUME IInv, [Next]_vars PROVE IInv'
<1> USE DEF IInv
<1>1. ASSUME NEW d \in Device, NEW config \in BOOLEAN, DevicePublishes(d, config) PROVE IInv'
  <2>1. PICK i \in MsgId :
            /\ from[i] = "unsent" /\ from' = [from EXCEPT ![i] = "device"]
            /\ toSource' = toSource \cup {[id |-> i, dev |-> d, way |-> "c", config |-> config,
                                          forwarded |-> FALSE]}
            /\ UNCHANGED <<toForward, toDevice, uploads, src, clients, shutdown>>
    BY <1>1 DEF DevicePublishes
  <2> DEFINE m == [id |-> i, dev |-> d, way |-> "c", config |-> config, forwarded |-> FALSE]
  <2>2. m \in Message /\ m.id = i
    BY DEF Message
  <2> HIDE DEF m
  <2> QED
    BY <2>1, <2>2, SentOK DEF m
<1>2. ASSUME NEW d \in Device, NEW way \in {"c", "s"}, NEW config \in BOOLEAN,
             CloudPublishes(d, way, config)
      PROVE  IInv'
  <2>1. PICK i \in MsgId :
            /\ from[i] = "unsent" /\ from' = [from EXCEPT ![i] = "cloud"]
            /\ toForward' = toForward \cup {[id |-> i, dev |-> d, way |-> way, config |-> config,
                                            forwarded |-> FALSE]}
            /\ UNCHANGED <<toSource, toDevice, uploads, src, clients, shutdown>>
    BY <1>2 DEF CloudPublishes
  <2> DEFINE m == [id |-> i, dev |-> d, way |-> way, config |-> config, forwarded |-> FALSE]
  <2>2. m \in Message /\ m.id = i
    BY DEF Message
  <2> HIDE DEF m
  <2> QED
    BY <2>1, <2>2, SentOK DEF m
<1>3. CASE SourceThread
  BY <1>3, ArrivesOK, LooksUpOK, ConnectsOK, ConnectFailsOK, PublishesOK DEF SourceThread
<1>4. ASSUME NEW d \in Device, Connacked(d) PROVE IInv'
  <2>1. link[d] = "connecting" /\ link' = [link EXCEPT ![d] = "up"]
        /\ sub' = [sub EXCEPT ![d] = IF sub[d] = "sent" THEN "yes" ELSE "no"]
        /\ UNCHANGED <<messages, src, registered, shutdown>>
    BY <1>4 DEF Connacked
  <2> DEFINE s == IF sub[d] = "sent" THEN "yes" ELSE "no"
  <2>2. s \in {"no", "sent", "yes"} /\ sub' = [sub EXCEPT ![d] = s]
    BY <2>1
  <2> HIDE DEF s
  <2> QED
    BY <2>1, <2>2, ConnectionOK
<1>5. ASSUME NEW d \in Device, ConnectionLost(d) PROVE IInv'
  BY <1>5, ConnectionOK DEF ConnectionLost, HasSocket
<1>6. ASSUME NEW d \in Device, Reconnects(d) PROVE IInv'
  <2>1. /\ link[d] = "down" /\ link' = [link EXCEPT ![d] = "connecting"]
        /\ UNCHANGED <<messages, src, registered, sub, shutdown>>
    BY <1>6 DEF Reconnects
  <2>2. sub[d] \in {"no", "sent", "yes"} /\ sub' = [sub EXCEPT ![d] = sub[d]]
    BY <2>1 DEF TypeOK
  <2> QED
    BY <2>1, <2>2, ConnectionOK
<1>7. CASE UNCHANGED vars
  BY <1>7 DEF vars, TypeOK, NoSecondWay, OnlyAllowed, PolicyHolds, StopKnows, Fresh, Busy
<1> QED
  BY <1>1, <1>2, <1>3, <1>4, <1>5, <1>6, <1>7, CloudMessageOK, ShutdownOK DEF Next

-----------------------------------------------------------------------------
\* IInv is kept by every packet, connection event and shutdown step.
THEOREM InductiveInvariant == Spec => []IInv
  BY InitIInv, NextIInv, PTL DEF Spec

\* The state is typed, and the map holds exactly the clients there are.
THEOREM TypeCorrect == Spec => []TypeOK
<1>1. IInv => TypeOK
  BY DEF IInv
<1> QED
  BY <1>1, InductiveInvariant, PTL

\* Nothing goes round between the two brokers (client.py:466, 910).
THEOREM NoEchoes == Spec => []NoEchoLoop
  BY Implied, InductiveInvariant, PTL

\* The allowlist and the config filter (client.py:875, 895) hold on both ways.
THEOREM PolicyIsKept == Spec => []PolicyHolds
<1>1. IInv => PolicyHolds
  BY DEF IInv
<1> QED
  BY <1>1, InductiveInvariant, PTL

\* No cloud client survives stop() (client.py:263).
THEOREM NoClientSurvivesStop == Spec => []NothingLeftConnected
  BY Implied, InductiveInvariant, PTL
=============================================================================
