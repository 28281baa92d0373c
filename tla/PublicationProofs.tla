-------------------------- MODULE PublicationProofs -------------------------
(***************************************************************************)
(* Proofs about Publication, for any devices, payloads and states: no       *)
(* suppression cache outlives what it stands for.  The invariant speaks of  *)
(* a connection on which every recovery that was due is done; a step can     *)
(* only enter that condition by ConnectHandled or BirthMessage, which empty  *)
(* the caches, and a publish that keeps it was delivered to its last stage.  *)
(***************************************************************************)
EXTENDS Publication, TLAPS

IInv == TypeOK /\ StateNotSuppressed /\ DiscoveryNotSuppressed

Outcomes ==
    {o \in [accepted : 0..StateMessage, arrived : 0..StateMessage] : o.arrived <= o.accepted}

\* A publish that leaves the connection up was accepted and delivered in full.
LEMMA OutcomeType ==
    ASSUME link \in {"up", "dying", "down"}, NEW o \in Outcome
    PROVE  /\ o \in Outcomes
           /\ LinkAfter(o) => link' \in {"up", "dying", "down"}
           /\ LinkAfter(o) /\ link' = "up" => link = "up" /\ o.accepted = 8 /\ o.arrived = 8
<1>1. o \in Outcomes
  BY DEF Outcome, Outcomes, StateMessage
<1>2. LinkAfter(o) => link' \in {"up", "dying", "down"}
  BY DEF LinkAfter
<1>3. ASSUME LinkAfter(o), link' = "up"
      PROVE  link = "up" /\ o.accepted = 8 /\ o.arrived = 8
  <2>1. o.accepted \in 0..8 /\ o.arrived \in 0..8 /\ o.arrived <= o.accepted
    BY <1>1 DEF Outcomes, StateMessage
  <2>2. CASE o.accepted < 8
    <3>1. link' = "down"
      BY <1>3, <2>1, <2>2 DEF LinkAfter, StateMessage
    <3> QED BY <3>1, <1>3
  <2>3. CASE ~(o.accepted < 8) /\ o.arrived = 8
    <3>1. link' = link
      BY <2>3 , <1>3 DEF LinkAfter, StateMessage
    <3> QED BY <3>1, <1>3, <2>1, <2>3
  <2>4. CASE ~(o.accepted < 8) /\ o.arrived # 8
    <3>1. link' = IF link = "up" THEN "dying" ELSE link
      BY <2>4, <1>3 DEF LinkAfter, StateMessage
    <3> QED BY <3>1, <1>3
  <2> QED BY <2>2, <2>3, <2>4
<1> QED BY <1>1, <1>2, <1>3

\* The discovery caches stay typed, and are filled together.
LEMMA DiscoveredType ==
    ASSUME NEW m \in Memory, NEW s \in Signature, NEW i \in Identity, NEW o \in Outcomes,
           m.listed <=> m.pay # NoShape
    PROVE  /\ Discovered(m, s, i, o) \in Memory
           /\ Discovered(m, s, i, o).listed <=> Discovered(m, s, i, o).pay # NoShape
           /\ Discovered(m, s, i, o).fw = m.fw
           /\ Discovered(m, s, i, o).shown = m.shown
<1> DEFINE n == [m EXCEPT !.migrated = @ \/ o.accepted >= Migrate]
           r == Keep(o.accepted >= Metadata, s, m.sig)
<1>1. n \in Memory /\ n.listed = m.listed /\ n.pay = m.pay /\ n.fw = m.fw /\ n.shown = m.shown
  BY DEF Memory, Outcomes
<1>2. r \in Signature \cup {None}
  BY DEF Keep, Memory
<1>3. [sig |-> s, ident |-> i] \in Shape /\ [sig |-> s, ident |-> i] # NoShape
  BY DEF Shape, NoShape
<1> DEFINE Full == [n EXCEPT !.listed = TRUE, !.sig = r, !.repaired = TRUE, !.cleaned = TRUE,
                             !.pay = [sig |-> s, ident |-> i]]
           Half == [n EXCEPT !.repaired = @ \/ o.accepted >= Repair]
           Same == [n EXCEPT !.listed = TRUE, !.sig = r]
<1> HIDE DEF n, r
<1>4. /\ Full \in Memory /\ Full.listed /\ Full.pay = [sig |-> s, ident |-> i]
      /\ Full.fw = m.fw /\ Full.shown = m.shown
  BY <1>1, <1>2, <1>3 DEF Memory
<1>5. /\ Half \in Memory /\ Half.listed = m.listed /\ Half.pay = m.pay
      /\ Half.fw = m.fw /\ Half.shown = m.shown
  BY <1>1 DEF Memory
<1>6. /\ Same \in Memory /\ Same.listed /\ Same.pay = m.pay
      /\ Same.fw = m.fw /\ Same.shown = m.shown
  BY <1>1, <1>2 DEF Memory
<1>7. CASE Announced(m, s)
  <2>1. Discovered(m, s, i, o) = n
    BY <1>7 DEF Discovered, Rebuilt, n, r
  <2> QED BY <2>1, <1>1
<1>8. CASE ~Announced(m, s) /\ SamePayload(m, s, i)
  <2>1. Discovered(m, s, i, o) = Same
    BY <1>8 DEF Discovered, Rebuilt, n, r
  <2>2. m.pay # NoShape
    BY <1>8, <1>3 DEF SamePayload
  <2> HIDE DEF Same
  <2> QED BY <2>1, <2>2, <1>6
<1>9. CASE Rebuilt(m, s, i) /\ o.accepted < LastOf(m)
  <2>1. Discovered(m, s, i, o) = Half
    BY <1>9 DEF Discovered, Rebuilt, n, r
  <2> HIDE DEF Half
  <2> QED BY <2>1, <1>5
<1>10. CASE Rebuilt(m, s, i) /\ ~(o.accepted < LastOf(m))
  <2>1. Discovered(m, s, i, o) = Full
    BY <1>10 DEF Discovered, Rebuilt, n, r
  <2> HIDE DEF Full
  <2> QED BY <2>1, <1>3, <1>4
<1> QED BY <1>7, <1>8, <1>9, <1>10 DEF Rebuilt

\* What the discovery step of a handler leaves, when all of it was delivered.
LEMMA DiscoveredInFull ==
    ASSUME NEW d \in Device, NEW m \in Memory, NEW s \in Signature, NEW i \in Identity,
           NEW o \in Outcomes, o.accepted = 8, o.arrived = 8,
           m.listed => /\ m.pay = [sig |-> m.sig, ident |-> i]
                       /\ conf[d] = [sig |-> m.sig, ident |-> i, fw |-> m.fw],
           m.listed <=> m.pay # NoShape
    PROVE  /\ Discovered(m, s, i, o).pay = [sig |-> Discovered(m, s, i, o).sig, ident |-> i]
           /\ ConfAfter(d, m, s, i, o)
                = [sig |-> Discovered(m, s, i, o).sig, ident |-> i, fw |-> m.fw]
<1> DEFINE n == [m EXCEPT !.migrated = @ \/ o.accepted >= Migrate]
           r == Keep(o.accepted >= Metadata, s, m.sig)
           Full == [n EXCEPT !.listed = TRUE, !.sig = r, !.repaired = TRUE, !.cleaned = TRUE,
                             !.pay = [sig |-> s, ident |-> i]]
           Same == [n EXCEPT !.listed = TRUE, !.sig = r]
<1>1. n \in Memory /\ n.sig = m.sig /\ n.pay = m.pay
  BY DEF Memory
<1>2. r = s
  BY DEF Keep, Metadata
<1>3. [sig |-> s, ident |-> i] # NoShape
  BY DEF NoShape
<1>4. LastOf(m) \in {4, 6}
  BY DEF LastOf, Config, Again
<1> HIDE DEF n, r
<1>5. Full.pay = [sig |-> s, ident |-> i] /\ Full.sig = s
  BY <1>1, <1>2 DEF Memory
<1>6. Same.pay = m.pay /\ Same.sig = s
  BY <1>1, <1>2 DEF Memory
<1>7. CASE Announced(m, s)
  <2>1. Discovered(m, s, i, o) = n
    BY <1>7 DEF Discovered, Rebuilt, n, r
  <2>2. ConfAfter(d, m, s, i, o) = conf[d]
    BY <1>7 DEF ConfAfter, Rebuilt
  <2> QED BY <2>1, <2>2, <1>1, <1>7 DEF Announced
<1>8. CASE ~Announced(m, s) /\ SamePayload(m, s, i)
  <2>1. Discovered(m, s, i, o) = Same
    BY <1>8 DEF Discovered, Rebuilt, n, r
  <2>2. ConfAfter(d, m, s, i, o) = conf[d]
    BY <1>8 DEF ConfAfter, Rebuilt
  <2>3. m.pay = [sig |-> s, ident |-> i] /\ m.listed
    BY <1>8, <1>3 DEF SamePayload
  <2>4. m.sig = s
    BY <2>3
  <2> HIDE DEF Same
  <2> QED BY <2>1, <2>2, <2>3, <2>4, <1>6
<1>9. CASE Rebuilt(m, s, i)
  <2>1. Discovered(m, s, i, o) = Full
    BY <1>9, <1>4 DEF Discovered, Rebuilt, n, r
  <2>2. ConfAfter(d, m, s, i, o) = [sig |-> s, ident |-> i, fw |-> m.fw]
    BY <1>9 DEF ConfAfter, Config, Clear, Repair
  <2> HIDE DEF Full
  <2> QED BY <2>1, <2>2, <1>5
<1> QED BY <1>7, <1>8, <1>9 DEF Rebuilt

Conf == Payload \cup {Unset, Emptied, RepairConf}

\* What the broker retains, and which legacy topics there are, stay typed.
LEMMA BrokerType ==
    ASSUME TypeOK, NEW d \in Device, NEW m \in Memory, NEW s \in Signature,
           NEW i \in Identity, NEW o \in Outcomes
    PROVE  /\ ConfAfter(d, m, s, i, o) \in Conf
           /\ LegacyAfter(d, m, s, i, o) \in {"old", "migrating", "gone"}
<1>1. [sig |-> s, ident |-> i, fw |-> m.fw] \in Payload
  BY DEF Memory, Payload
<1>2. conf[d] \in Conf /\ legacy[d] \in {"old", "migrating", "gone"}
  BY DEF TypeOK, Conf
<1>3. ConfAfter(d, m, s, i, o) \in Conf
  BY <1>1, <1>2 DEF ConfAfter, Conf
<1>4. LegacyAfter(d, m, s, i, o) \in {"old", "migrating", "gone"}
  BY <1>2 DEF LegacyAfter
<1> QED BY <1>3, <1>4

LEMMA FreshType ==
    Fresh \in Memory /\ ~Fresh.listed /\ Fresh.pay = NoShape /\ Fresh.shown = None
BY DEF Fresh, Memory

\* Recovery empties the caches of every device.
LEMMA RecoveredKeeps ==
    ASSUME TypeOK, Recovered, UNCHANGED <<cfg, conf, legacy, haState, ha, link>>,
           birth' \in BOOLEAN, handled' \in BOOLEAN
    PROVE  TypeOK' /\ StateNotSuppressed' /\ DiscoveryNotSuppressed'
<1>1. \A d \in Device : mem'[d] = Forgotten(mem[d]) /\ mem[d] \in Memory
  BY DEF Recovered, TypeOK
<1>2. \A d \in Device : /\ mem'[d] \in Memory /\ ~mem'[d].listed
                         /\ mem'[d].pay = NoShape /\ mem'[d].shown = None
  <2> TAKE d \in Device
  <2>1. Forgotten(mem[d]) \in Memory /\ ~Forgotten(mem[d]).listed
        /\ Forgotten(mem[d]).pay = NoShape /\ Forgotten(mem[d]).shown = None
    BY <1>1 DEF Forgotten, Memory
  <2> QED BY <1>1, <2>1
<1>3. mem' \in [Device -> Memory]
  BY <1>2 DEF Recovered
<1>4. TypeOK'
  BY <1>2, <1>3 DEF TypeOK
<1> QED BY <1>2, <1>4 DEF StateNotSuppressed, DiscoveryNotSuppressed

\* A step after which things are not settled, and which leaves the caches alone.
LEMMA UnsettledKeeps ==
    ASSUME TypeOK, UNCHANGED <<mem, cfg, conf, legacy>>, ~Settled',
           haState' \in [Device -> State \cup {None}], ha' \in BOOLEAN, birth' \in BOOLEAN,
           handled' \in BOOLEAN, link' \in {"up", "dying", "down"}
    PROVE  TypeOK' /\ StateNotSuppressed' /\ DiscoveryNotSuppressed'
BY DEF TypeOK, StateNotSuppressed, DiscoveryNotSuppressed

LEMMA TelemetryKeeps ==
    ASSUME IInv, NEW d \in Device, NEW s \in Signature, NEW f \in Firmware, NEW v \in State,
           NEW o \in Outcome, Telemetry(d, s, f, v, o)
    PROVE  IInv'
<1> DEFINE m == IF mem[d].fw = f THEN mem[d] ELSE [Invalidated(mem[d]) EXCEPT !.fw = f]
           n == Discovered(m, s, cfg[d], o)
           due == m.shown # v
           new == [n EXCEPT !.shown = Keep(due /\ o.accepted >= StateMessage, v, @)]
<1> USE DEF IInv
<1>1. cfg[d] \in Identity /\ cfg' = cfg /\ mem[d] \in Memory /\ mem \in [Device -> Memory]
  BY DEF TypeOK, Telemetry
<1>2. mem[d].listed <=> mem[d].pay # NoShape
  BY DEF TypeOK
<1>3. o \in Outcomes /\ link' \in {"up", "dying", "down"}
      /\ (link' = "up" => link = "up" /\ o.accepted = 8 /\ o.arrived = 8)
  BY OutcomeType DEF TypeOK, Telemetry, PublishDiscovery
<1>4. m \in Memory /\ (m.listed <=> m.pay # NoShape) /\ m.fw = f /\ m.shown = mem[d].shown
  BY <1>1, <1>2 DEF Invalidated, Memory
<1>5. m.listed => m = mem[d]
  BY <1>1 DEF Invalidated, Memory
<1>6. mem' = [mem EXCEPT ![d] = new]
  BY DEF Telemetry
<1>7. haState' = [haState EXCEPT ![d] = Keep(due /\ ha /\ o.arrived >= StateMessage, v, @)]
  BY DEF Telemetry
<1>8. /\ conf' = [conf EXCEPT ![d] = ConfAfter(d, m, s, cfg[d], o)]
      /\ legacy' = [legacy EXCEPT ![d] = LegacyAfter(d, m, s, cfg[d], o)]
      /\ birth' = (birth /\ link' = "up") /\ ha' = ha /\ handled' = handled
  BY <1>1 DEF Telemetry, PublishDiscovery
<1> HIDE DEF m
<1>9. /\ n \in Memory /\ (n.listed <=> n.pay # NoShape) /\ n.fw = f
      /\ n.shown = mem[d].shown
  BY <1>1, <1>3, <1>4, DiscoveredType
<1>10. /\ ConfAfter(d, m, s, cfg[d], o) \in Conf
       /\ LegacyAfter(d, m, s, cfg[d], o) \in {"old", "migrating", "gone"}
  BY <1>1, <1>3, <1>4, BrokerType
<1> HIDE DEF n
<1>11. /\ new \in Memory /\ new.listed = n.listed /\ new.pay = n.pay /\ new.fw = n.fw
       /\ new.sig = n.sig
       /\ new.shown = Keep(due /\ o.accepted >= StateMessage, v, n.shown)
  BY <1>9 DEF Memory, Keep
<1> HIDE DEF new
<1>12. TypeOK'
  <2>1. mem' \in [Device -> Memory]
    BY <1>1, <1>6, <1>11
  <2>2. \A e \in Device : mem'[e].listed <=> mem'[e].pay # NoShape
    <3> TAKE e \in Device
    <3>1. CASE e = d
      BY <3>1, <1>1, <1>6, <1>9, <1>11
    <3>2. CASE e # d
      BY <3>2, <1>1, <1>6 DEF TypeOK
    <3> QED BY <3>1, <3>2
  <2>3. haState' \in [Device -> State \cup {None}]
    BY <1>7 DEF TypeOK, Keep
  <2>4. conf' \in [Device -> Conf] /\ legacy' \in [Device -> {"old", "migrating", "gone"}]
    BY <1>8, <1>10 DEF TypeOK, Conf
  <2>5. birth' \in BOOLEAN
    BY <1>8
  <2>6. cfg' \in [Device -> Identity] /\ ha' \in BOOLEAN /\ handled' \in BOOLEAN
    BY <1>1, <1>8 DEF TypeOK
  <2> QED BY <2>1, <2>2, <2>3, <2>4, <2>5, <2>6, <1>3 DEF TypeOK, Conf
<1>13. ASSUME Settled' PROVE Settled /\ o.accepted = 8 /\ o.arrived = 8
  BY <1>13, <1>3, <1>8 DEF Settled
<1>14. StateNotSuppressed'
  <2> SUFFICES ASSUME Settled', NEW e \in Device, mem'[e].shown # None
               PROVE  haState'[e] = mem'[e].shown
    BY DEF StateNotSuppressed
  <2>1. mem[e].shown # None => haState[e] = mem[e].shown
    BY <1>13 DEF StateNotSuppressed
  <2>2. CASE e # d
    BY <2>1, <2>2, <1>1, <1>6, <1>7 DEF TypeOK
  <2>3. CASE e = d
    <3>1. mem'[d].shown = Keep(due, v, mem[d].shown)
      BY <1>1, <1>6, <1>9, <1>11, <1>13 DEF StateMessage
    <3>2. haState'[d] = Keep(due, v, haState[d])
      BY <1>7, <1>8, <1>13 DEF TypeOK, Settled, StateMessage
    <3> QED BY <3>1, <3>2, <2>1, <2>3 DEF Keep
  <2> QED BY <2>2, <2>3
<1>15. DiscoveryNotSuppressed'
  <2> SUFFICES ASSUME Settled', NEW e \in Device, mem'[e].listed
               PROVE  /\ mem'[e].pay = [sig |-> mem'[e].sig, ident |-> cfg[e]]
                      /\ conf'[e] = [sig |-> mem'[e].sig, ident |-> cfg[e], fw |-> mem'[e].fw]
    BY <1>1 DEF DiscoveryNotSuppressed
  <2>1. mem[e].listed =>
           /\ mem[e].pay = [sig |-> mem[e].sig, ident |-> cfg[e]]
           /\ conf[e] = [sig |-> mem[e].sig, ident |-> cfg[e], fw |-> mem[e].fw]
    BY <1>13 DEF DiscoveryNotSuppressed
  <2>2. CASE e # d
    BY <2>1, <2>2, <1>1, <1>6, <1>8 DEF TypeOK
  <2>3. CASE e = d
    <3>1. m.listed => /\ m.pay = [sig |-> m.sig, ident |-> cfg[d]]
                      /\ conf[d] = [sig |-> m.sig, ident |-> cfg[d], fw |-> m.fw]
      BY <2>1, <2>3, <1>5
    <3>2. /\ n.pay = [sig |-> n.sig, ident |-> cfg[d]]
          /\ ConfAfter(d, m, s, cfg[d], o) = [sig |-> n.sig, ident |-> cfg[d], fw |-> f]
      BY <3>1, <1>1, <1>3, <1>4, <1>13, DiscoveredInFull DEF n
    <3> QED BY <3>2, <2>3, <1>1, <1>6, <1>8, <1>9, <1>11 DEF TypeOK
  <2> QED BY <2>2, <2>3
<1> QED BY <1>12, <1>14, <1>15

LEMMA SetConfigKeeps ==
    ASSUME IInv, NEW d \in Device, NEW i \in Identity, NEW s \in Signature, NEW o \in Outcome,
           SetConfig(d, i, s, o)
    PROVE  IInv'
<1> DEFINE m == [Invalidated(mem[d]) EXCEPT !.migrated = FALSE]
           n == Discovered(m, s, i, o)
<1> USE DEF IInv
<1>1. /\ cfg' = [cfg EXCEPT ![d] = i] /\ haState' = haState /\ ha' = ha /\ handled' = handled
      /\ mem \in [Device -> Memory] /\ mem[d] \in Memory
  BY DEF SetConfig, TypeOK
<1>2. cfg' \in [Device -> Identity] /\ cfg'[d] = i
  BY <1>1 DEF TypeOK
<1>3. CASE i = cfg[d] /\ mem[d].listed
  <2>1. UNCHANGED vars
    BY <1>1, <1>3 DEF SetConfig, TypeOK, vars
  <2> QED BY <2>1 DEF vars, TypeOK, StateNotSuppressed, DiscoveryNotSuppressed, Settled
<1>4. CASE ~(i = cfg[d] /\ mem[d].listed)
  <2>1. PublishDiscovery(d, m, s, o) /\ mem' = [mem EXCEPT ![d] = n]
    BY <1>4 DEF SetConfig
  <2>2. o \in Outcomes /\ link' \in {"up", "dying", "down"}
        /\ (link' = "up" => link = "up" /\ o.accepted = 8 /\ o.arrived = 8)
    BY <2>1, OutcomeType DEF TypeOK, PublishDiscovery
  <2>3. m \in Memory /\ ~m.listed /\ m.pay = NoShape /\ m.shown = mem[d].shown
    BY <1>1 DEF Invalidated, Memory
  <2>4. /\ conf' = [conf EXCEPT ![d] = ConfAfter(d, m, s, i, o)]
        /\ legacy' = [legacy EXCEPT ![d] = LegacyAfter(d, m, s, i, o)]
        /\ birth' = (birth /\ link' = "up")
    BY <2>1, <1>2 DEF PublishDiscovery
  <2> HIDE DEF m
  <2>5. /\ n \in Memory /\ (n.listed <=> n.pay # NoShape) /\ n.fw = m.fw
        /\ n.shown = mem[d].shown
    BY <2>2, <2>3, DiscoveredType
  <2>6. /\ ConfAfter(d, m, s, i, o) \in Conf
        /\ LegacyAfter(d, m, s, i, o) \in {"old", "migrating", "gone"}
    BY <2>2, <2>3, BrokerType
  <2> HIDE DEF n
  <2>7. TypeOK'
    <3>1. mem' \in [Device -> Memory]
      BY <1>1, <2>1, <2>5
    <3>2. \A e \in Device : mem'[e].listed <=> mem'[e].pay # NoShape
      <4> TAKE e \in Device
      <4>1. CASE e = d
        BY <4>1, <1>1, <2>1, <2>5
      <4>2. CASE e # d
        BY <4>2, <1>1, <2>1 DEF TypeOK
      <4> QED BY <4>1, <4>2
    <3>3. conf' \in [Device -> Conf] /\ legacy' \in [Device -> {"old", "migrating", "gone"}]
      BY <2>4, <2>6 DEF TypeOK, Conf
    <3>4. birth' \in BOOLEAN
      BY <2>4
    <3>5. haState' \in [Device -> State \cup {None}] /\ ha' \in BOOLEAN /\ handled' \in BOOLEAN
      BY <1>1 DEF TypeOK
    <3> QED BY <3>1, <3>2, <3>3, <3>4, <3>5, <1>2, <2>2 DEF TypeOK, Conf
  <2>8. ASSUME Settled' PROVE Settled /\ o.accepted = 8 /\ o.arrived = 8
    BY <2>8, <2>2, <2>4, <1>1 DEF Settled
  <2>9. StateNotSuppressed'
    <3> SUFFICES ASSUME Settled', NEW e \in Device, mem'[e].shown # None
                 PROVE  haState'[e] = mem'[e].shown
      BY DEF StateNotSuppressed
    <3>1. mem'[e].shown = mem[e].shown
      BY <1>1, <2>1, <2>5
    <3> QED BY <3>1, <2>8, <1>1 DEF StateNotSuppressed
  <2>10. DiscoveryNotSuppressed'
    <3> SUFFICES ASSUME Settled', NEW e \in Device, mem'[e].listed
                 PROVE  /\ mem'[e].pay = [sig |-> mem'[e].sig, ident |-> cfg'[e]]
                        /\ conf'[e] = [sig |-> mem'[e].sig, ident |-> cfg'[e], fw |-> mem'[e].fw]
      BY DEF DiscoveryNotSuppressed
    <3>1. CASE e # d
      <4>1. mem[e].listed =>
               /\ mem[e].pay = [sig |-> mem[e].sig, ident |-> cfg[e]]
               /\ conf[e] = [sig |-> mem[e].sig, ident |-> cfg[e], fw |-> mem[e].fw]
        BY <2>8 DEF DiscoveryNotSuppressed
      <4> QED BY <4>1, <3>1, <1>1, <2>1, <2>4 DEF TypeOK
    <3>2. CASE e = d
      <4>1. /\ n.pay = [sig |-> n.sig, ident |-> i]
            /\ ConfAfter(d, m, s, i, o) = [sig |-> n.sig, ident |-> i, fw |-> m.fw]
        <5>1. (m.listed <=> m.pay # NoShape)
              /\ (m.listed => /\ m.pay = [sig |-> m.sig, ident |-> i]
                              /\ conf[d] = [sig |-> m.sig, ident |-> i, fw |-> m.fw])
          BY <2>3
        <5>2. o.accepted = 8 /\ o.arrived = 8
          BY <2>8
        <5>3. /\ Discovered(m, s, i, o).pay = [sig |-> Discovered(m, s, i, o).sig, ident |-> i]
              /\ ConfAfter(d, m, s, i, o)
                   = [sig |-> Discovered(m, s, i, o).sig, ident |-> i, fw |-> m.fw]
          <6>1. m \in Memory /\ o \in Outcomes
            BY <2>2, <2>3
          <6> QED BY <6>1, <5>1, <5>2, DiscoveredInFull
        <5> QED BY <5>3 DEF n
      <4> QED BY <4>1, <3>2, <1>1, <1>2, <2>1, <2>4, <2>5 DEF TypeOK
    <3> QED BY <3>1, <3>2
  <2> QED BY <2>7, <2>9, <2>10
<1> QED BY <1>3, <1>4

-----------------------------------------------------------------------------
\* Typing and both suppression invariants together are inductive: the caches only
\* skip what Home Assistant has, whatever order of losses and restarts came before.
THEOREM InductiveInvariant == Spec => []IInv
<1>1. Init => IInv
  <2> SUFFICES ASSUME Init PROVE IInv
    OBVIOUS
  <2>1. TypeOK
    BY FreshType DEF Init, TypeOK, Conf
  <2>2. ~Settled
    BY DEF Init, Settled
  <2> QED BY <2>1, <2>2 DEF IInv, StateNotSuppressed, DiscoveryNotSuppressed
<1>2. IInv /\ [Next]_vars => IInv'
  <2> SUFFICES ASSUME IInv, [Next]_vars PROVE IInv'
    OBVIOUS
  <2> USE DEF IInv
  <2>1. ASSUME NEW d \in Device, Packet(d) PROVE IInv'
    BY <2>1, TelemetryKeeps DEF Packet
  <2>2. ASSUME NEW d \in Device, NEW i \in Identity, NEW s \in Signature, NEW o \in Outcome,
               SetConfig(d, i, s, o)
        PROVE  IInv'
    BY <2>2, SetConfigKeeps
  <2>3. CASE SocketUp
    BY <2>3, UnsettledKeeps DEF SocketUp, Settled, TypeOK
  <2>4. CASE ConnectHandled
    BY <2>4, RecoveredKeeps DEF ConnectHandled, TypeOK
  <2>5. CASE BirthMessage
    BY <2>5, RecoveredKeeps DEF BirthMessage, TypeOK
  <2>6. CASE LinkDies
    BY <2>6, UnsettledKeeps DEF LinkDies, Settled, TypeOK
  <2>7. CASE LinkDown
    BY <2>7, UnsettledKeeps DEF LinkDown, Settled, TypeOK
  <2>8. CASE HomeAssistantStops
    BY <2>8, UnsettledKeeps DEF HomeAssistantStops, Settled, TypeOK
  <2>9. CASE HomeAssistantStarts
    <3>1. birth' = (link = "up" /\ handled) /\ birth' \in BOOLEAN
      BY <2>9 DEF HomeAssistantStarts
    <3> QED BY <2>9, <3>1, UnsettledKeeps DEF HomeAssistantStarts, Settled, TypeOK
  <2>10. CASE ProcessRestarts
    <3>1. mem' \in [Device -> Memory] /\ \A d \in Device : mem'[d] = Fresh
      BY <2>10, FreshType DEF ProcessRestarts
    <3>2. TypeOK'
      BY <2>10, <3>1, FreshType DEF ProcessRestarts, TypeOK
    <3>3. ~Settled'
      BY <2>10 DEF ProcessRestarts, Settled
    <3> QED BY <3>2, <3>3 DEF StateNotSuppressed, DiscoveryNotSuppressed
  <2>11. CASE UNCHANGED vars
    BY <2>11 DEF vars, TypeOK, StateNotSuppressed, DiscoveryNotSuppressed, Settled
  <2> QED
    BY <2>1, <2>2, <2>3, <2>4, <2>5, <2>6, <2>7, <2>8, <2>9, <2>10, <2>11 DEF Next
<1> QED BY <1>1, <1>2, PTL DEF Spec

\* The memory is typed, and the discovery caches of a device (client.py:1165)
\* are filled and cleared together.
THEOREM TypeCorrect == Spec => []TypeOK
<1>1. IInv => TypeOK
  BY DEF IInv
<1> QED BY <1>1, InductiveInvariant, PTL

\* Once every recovery is done (client.py:684), a state counts as published only if
\* Home Assistant shows it.
THEOREM StatesAreShown == Spec => []StateNotSuppressed
<1>1. IInv => StateNotSuppressed
  BY DEF IInv
<1> QED BY <1>1, InductiveInvariant, PTL

\* Likewise discovery (client.py:1129) is skipped only for the config the broker
\* retains, of the device's current identity and firmware.
THEOREM DiscoveryIsCurrent == Spec => []DiscoveryNotSuppressed
<1>1. IInv => DiscoveryNotSuppressed
  BY DEF IInv
<1> QED BY <1>1, InductiveInvariant, PTL
=============================================================================
