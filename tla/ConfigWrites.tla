---------------------------- MODULE ConfigWrites ----------------------------
(***************************************************************************)
(* Writes of config registers (grobro/grobro/client.py): the queue of      *)
(* writes a device has not acknowledged, which names the setting of an     *)
(* acknowledgement that does not name it itself, and the clock timer       *)
(* (ha/time_sync_runtime.py), which writes the time to every device.       *)
(*                                                                         *)
(* Writes are made under the runtime lock of the Home Assistant client, by *)
(* its network thread or the clock's timer thread: `sender' is who has it. *)
(* Acknowledgements are handled in the source thread, between any two      *)
(* steps of a write.  Writes of a device are numbered in the order they    *)
(* are made.                                                               *)
(***************************************************************************)
EXTENDS Naturals, FiniteSets, Sequences, SequencesExt

CONSTANTS
    Device,     \* devices whose config was seen
    Clocked,    \* those with the system time register (supports_time_sync)
    Register,   \* config registers
    SystemTime, \* register 31
    Limit,      \* MAX_PENDING_CONFIG_WRITES
    MaxWrites   \* bounds how many writes of a device are made

ASSUME ClockedAssumption == Clocked \subseteq Device /\ IsFiniteSet(Clocked)
ASSUME SystemTimeAssumption == SystemTime \in Register
ASSUME LimitAssumption == Limit \in Nat \ {0} /\ MaxWrites \in Nat

VARIABLES
    made,      \* made[d]: the number of the last write of d
    pending,   \* _pending_config_writes
    disabled,  \* _config_ack_tracking_disabled
    sender,    \* who holds the runtime lock, and the writes it has still to do
    clock,     \* _time_sync_timer
    toDevice,  \* toDevice[d]: writes on their way to d
    acks,      \* acks[d]: acknowledgements on their way from d
    strayed,   \* devices that acknowledged a write this process did not make
    logged,    \* logged[d]: the write the last acknowledgement is for, and the one it named
    stage      \* of shutdown

writesVars == <<made, pending, disabled, sender, clock, toDevice, acks, strayed, logged, stage>>
network == <<toDevice, acks, strayed>>
queues == <<pending, disabled>>

-----------------------------------------------------------------------------
Write == [no : 1..MaxWrites, reg : Register]

\* An acknowledgement names a register of the device's map, or an unknown one.
Ack == [no : 0..MaxWrites, reg : Register, names : BOOLEAN]
Target == [dev : Device, reg : Register]

Idle == [at |-> "idle", todo |-> <<>>, timer |-> FALSE]

InitWrites ==
    /\ made = [d \in Device |-> 0]
    /\ pending = [d \in Device |-> <<>>]
    /\ disabled = {}
    /\ sender = Idle
    /\ clock = "armed"
    /\ toDevice = [d \in Device |-> <<>>]
    /\ acks = [d \in Device |-> <<>>]
    /\ strayed = {}
    /\ logged = [d \in Device |-> [for |-> 0, named |-> 0]]
    /\ stage = "up"

\* A command config/<device>/<register>/set of Home Assistant.
Command(d, r) ==
    /\ sender = Idle
    /\ stage = "up"
    /\ sender' = [at |-> "reserve", todo |-> <<[dev |-> d, reg |-> r]>>, timer |-> FALSE]
    /\ UNCHANGED <<made, queues, clock, network, logged, stage>>

\* The timer's thread has the lock: every device with a clock, one after the other.
ClockRuns ==
    /\ sender = Idle
    /\ clock = "armed"
    /\ clock' = "none"
    /\ \E order \in SetToSeqs(Clocked) :
          sender' = [at |-> IF order = <<>> THEN "done" ELSE "reserve",
                     todo |-> [i \in 1..Len(order) |-> [dev |-> order[i], reg |-> SystemTime]],
                     timer |-> TRUE]
    /\ UNCHANGED <<made, queues, network, logged, stage>>

Current == Head(sender.todo)
Sent == [no |-> made[Current.dev], reg |-> Current.reg]

\* The write is over; the sender goes on with its next one.
Advance ==
    sender' = [sender EXCEPT !.at = IF Len(sender.todo) = 1 THEN "done" ELSE "reserve",
                             !.todo = Tail(@)]

\* A mutant of Reserved: the oldest write makes room for the new one.
ReservedForOldest(d, w) ==
    /\ pending' = [pending EXCEPT ![d] = Append(IF Len(@) >= Limit THEN Tail(@) ELSE @, w)]
    /\ UNCHANGED disabled

\* At the limit the device's writes are not tracked any more.
Reserved(d, w) ==
    IF d \in disabled
    THEN UNCHANGED queues
    ELSE IF Len(pending[d]) >= Limit
         THEN /\ pending' = [pending EXCEPT ![d] = <<>>]
              /\ disabled' = disabled \cup {d}
         ELSE /\ pending' = [pending EXCEPT ![d] = Append(@, w)]
              /\ UNCHANGED disabled

\* send_config_message, up to the publish.  It would return before if the source
\* client were stopped, which happens only after HomeAssistantStops got the lock.
Reserve ==
    /\ sender.at = "reserve"
    /\ made[Current.dev] < MaxWrites
    /\ made' = [made EXCEPT ![Current.dev] = @ + 1]
    /\ Reserved(Current.dev, [no |-> made'[Current.dev], reg |-> Current.reg])
    /\ sender' = [sender EXCEPT !.at = "publish"]
    /\ UNCHANGED <<clock, network, logged, stage>>

\* MQTT took the message: an acknowledgement may come at once.
PublishAccepted ==
    /\ sender.at = "publish"
    /\ toDevice' = [toDevice EXCEPT ![Current.dev] = Append(@, Sent)]
    /\ Advance
    /\ UNCHANGED <<made, queues, clock, acks, strayed, logged, stage>>

PublishRejected ==
    /\ sender.at = "publish"
    /\ sender' = [sender EXCEPT !.at = "rollback"]
    /\ UNCHANGED <<made, queues, clock, network, logged, stage>>

\* A mutant of RolledBack: the register is looked up instead of the reservation.
RolledBackByValue(q) == RemoveFirstMatch(q, LAMBDA w : w.reg = Sent.reg)

\* The reservation itself, if no acknowledgement has taken it.
RolledBack(q) ==
    IF Sent \in ToSet(q) THEN RemoveAt(q, CHOOSE i \in DOMAIN q : q[i] = Sent) ELSE q

RollBack ==
    /\ sender.at = "rollback"
    /\ pending' = [pending EXCEPT ![Current.dev] = RolledBack(@)]
    /\ Advance
    /\ UNCHANGED <<made, disabled, clock, network, logged, stage>>

\* A mutant of NextClock: the timer is not armed again.
NextClockNever == {"none"}

\* schedule_next_time_sync: armed, or the thread of the timer cannot start.
NextClock == {"armed", "failed"}

\* The runtime lock is released.
Finishes ==
    /\ sender.at = "done"
    /\ sender' = Idle
    /\ clock' \in IF sender.timer THEN NextClock ELSE {clock}
    /\ UNCHANGED <<made, queues, network, logged, stage>>

-----------------------------------------------------------------------------
\* The device takes the next write, and acknowledges it with or without its name.
DeviceAcks(d) ==
    /\ toDevice[d] # <<>>
    /\ toDevice' = [toDevice EXCEPT ![d] = Tail(@)]
    /\ \E names \in BOOLEAN :
          acks' = [acks EXCEPT ![d] = Append(@, [no |-> Head(toDevice[d]).no,
                                                 reg |-> Head(toDevice[d]).reg,
                                                 names |-> names])]
    /\ UNCHANGED <<made, queues, sender, clock, strayed, logged, stage>>

\* A write is lost or not acknowledged, or its acknowledgement is lost.
Lost(d) ==
    /\ \/ /\ toDevice[d] # <<>>
          /\ toDevice' = [toDevice EXCEPT ![d] = Tail(@)]
          /\ UNCHANGED acks
       \/ /\ acks[d] # <<>>
          /\ acks' = [acks EXCEPT ![d] = Tail(@)]
          /\ UNCHANGED toDevice
    /\ UNCHANGED <<made, queues, sender, clock, strayed, logged, stage>>

\* Where the pending write is that an acknowledgement is matched to: the first one of
\* its register, or the first one of all.
Matches(q, a) ==
    {i \in DOMAIN q : \A j \in DOMAIN q :
        IF a.names THEN q[i].reg = a.reg /\ (j < i => q[j].reg # a.reg) ELSE i <= j}

\* __on_message with a config acknowledgement (280), until the client is stopped.
Acknowledged(d, a) ==
    IF stage \in {"stopping", "stopped"}
    THEN UNCHANGED <<pending, logged>>
    ELSE \/ /\ Matches(pending[d], a) = {}
            /\ UNCHANGED pending
            /\ logged' = [logged EXCEPT ![d] = [for |-> a.no, named |-> 0]]
         \/ \E at \in Matches(pending[d], a) :
               /\ pending' = [pending EXCEPT ![d] = RemoveAt(@, at)]
               /\ logged' = [logged EXCEPT ![d] =
                     [for |-> a.no, named |-> IF a.names THEN 0 ELSE pending[d][at].no]]

AckArrives(d) ==
    /\ acks[d] # <<>>
    /\ acks' = [acks EXCEPT ![d] = Tail(@)]
    /\ Acknowledged(d, Head(acks[d]))
    /\ UNCHANGED <<made, disabled, sender, clock, toDevice, strayed, stage>>

\* An acknowledgement of a write of the cloud, or of an earlier process.
StrayAck(d) ==
    /\ \E r \in Register, names \in BOOLEAN :
          Acknowledged(d, [no |-> 0, reg |-> r, names |-> names])
    /\ strayed' = strayed \cup {d}
    /\ UNCHANGED <<made, disabled, sender, clock, toDevice, acks, stage>>

-----------------------------------------------------------------------------
\* ha.Client.stop under the runtime lock, with the timers.
HomeAssistantStops ==
    /\ stage = "up"
    /\ sender = Idle
    /\ stage' = "noCommands"
    /\ clock' = "none"
    /\ UNCHANGED <<made, queues, sender, network, logged>>

\* grobro.Client.stop, which follows: the flag first,
SourceStops ==
    /\ stage = "noCommands"
    /\ stage' = "stopping"
    /\ UNCHANGED <<made, queues, sender, clock, network, logged>>

\* and when the network thread has ended, the pending writes.
SourceStopped ==
    /\ stage = "stopping"
    /\ stage' = "stopped"
    /\ pending' = [d \in Device |-> <<>>]
    /\ disabled' = {}
    /\ UNCHANGED <<made, sender, clock, network, logged>>

-----------------------------------------------------------------------------
NextWrites ==
    \/ \E d \in Device, r \in Register : Command(d, r)
    \/ ClockRuns
    \/ Reserve \/ PublishAccepted \/ PublishRejected \/ RollBack \/ Finishes
    \/ \E d \in Device : DeviceAcks(d) \/ Lost(d) \/ AckArrives(d) \/ StrayAck(d)
    \/ HomeAssistantStops \/ SourceStops \/ SourceStopped

WritesSpec == InitWrites /\ [][NextWrites]_writesVars

-----------------------------------------------------------------------------
WritesTypeOK ==
    /\ made \in [Device -> 0..MaxWrites]
    /\ pending \in [Device -> Seq(Write)]
    /\ disabled \subseteq Device
    /\ sender \in [at : {"idle", "reserve", "publish", "rollback", "done"},
                   todo : Seq(Target), timer : BOOLEAN]
    /\ sender.at \in {"idle", "done"} <=> sender.todo = <<>>
    /\ clock \in {"armed", "none", "failed"}
    /\ toDevice \in [Device -> Seq(Write)]
    /\ acks \in [Device -> Seq(Ack)]
    /\ strayed \subseteq Device
    /\ logged \in [Device -> [for : 0..MaxWrites, named : 0..MaxWrites]]
    /\ stage \in {"up", "noCommands", "stopping", "stopped"}

\* What the device may still acknowledge is pending (client.py:382-423), whatever
\* was refused, lost, rolled back or acknowledged meanwhile, in the order it was
\* made and within the limit, until tracking is given up or the client is stopped.
OnTheWay(d) == ToSet(toDevice[d]) \cup {[no |-> a.no, reg |-> a.reg] : a \in ToSet(acks[d])}

TracksUnanswered ==
    WritesTypeOK /\ \A d \in Device :
        /\ Len(pending[d]) <= Limit
        /\ \A i, j \in 1..Len(pending[d]) : i < j => pending[d][i].no < pending[d][j].no
        /\ d \in disabled \/ stage = "stopped" => pending[d] = <<>>
        /\ d \notin disabled \cup strayed /\ stage # "stopped" => OnTheWay(d) \subseteq ToSet(pending[d])

\* "Dropping the oldest item would wrongly match a delayed, ambiguous ACK to a newer
\* write" (client.py:388): an acknowledgement is never taken for one of a write that
\* was made later, however many were lost, unless the device has acknowledged
\* writes of others.
NamesNoLaterWrite == \A d \in Device \ strayed : logged[d].named <= logged[d].for

\* The clocks are set again and again (time_sync_runtime.py:58), whichever writes
\* fail, until a thread cannot be started or the client stops.
ClockKept == clock = "none" => sender.timer \/ stage # "up"
=============================================================================
