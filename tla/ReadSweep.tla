----------------------------- MODULE ReadSweep -----------------------------
(***************************************************************************)
(* What a config read sequence promises, without queues, timers or locks.  *)
(*                                                                         *)
(* A sweep of a device asks for the device's config registers one at a     *)
(* time, in the order of its register map, none skipped and none repeated. *)
(* A sweep may end at any point, and a recovery of either MQTT connection  *)
(* may start all sweeps afresh; nothing else moves a sweep backwards.      *)
(***************************************************************************)
EXTENDS Integers, Sequences

CONSTANTS
    Device,     \* the devices (MQTT device ids) the add-on serves
    Regs,       \* Regs[d]: the config registers of device d, in map order
    NoReg       \* "no register is being asked for"

VARIABLES
    step,       \* step[d]: how many registers the sweep of d has asked for
    asking      \* asking[d]: the register whose answer is awaited

vars == <<step, asking>>

Idle == -1

Init ==
    /\ step = [d \in Device |-> Idle]
    /\ asking = [d \in Device |-> NoReg]

Begin(d) ==
    /\ step[d] = Idle
    /\ step' = [step EXCEPT ![d] = 0]
    /\ UNCHANGED asking

AskNext(d) ==
    /\ step[d] # Idle
    /\ step[d] < Len(Regs[d])
    /\ step' = [step EXCEPT ![d] = step[d] + 1]
    /\ asking' = [asking EXCEPT ![d] = Regs[d][step[d] + 1]]

End(d) ==
    /\ step[d] # Idle
    /\ step' = [step EXCEPT ![d] = Idle]
    /\ asking' = [asking EXCEPT ![d] = NoReg]

Restart ==
    /\ step' \in [Device -> {Idle, 0}]
    /\ asking' = [d \in Device |-> NoReg]

Next ==
    \/ \E d \in Device : Begin(d) \/ AskNext(d) \/ End(d)
    \/ Restart

Spec == Init /\ [][Next]_vars
=============================================================================
