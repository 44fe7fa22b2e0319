----------------------------- MODULE TimelockedChange -----------------------------
(***************************************************************************)
(* What a timelock promises, whatever implements it: a value takes effect   *)
(* only after it has been announced for the whole delay, one announcement   *)
(* at a time, and only the value that was announced.                        *)
(***************************************************************************)
EXTENDS Naturals

CONSTANTS Values, NoValue, Delay

VARIABLES time, announced, since, inForce

lockVars == <<time, announced, since, inForce>>

LockInit ==
  /\ time = 0 /\ announced = NoValue /\ since = 0 /\ inForce \in Values

Announce ==
  /\ announced = NoValue
  /\ announced' \in Values /\ since' = time
  /\ UNCHANGED <<time, inForce>>

Retract ==
  /\ announced # NoValue
  /\ announced' = NoValue
  /\ UNCHANGED <<time, since, inForce>>

TakeEffect ==
  /\ announced # NoValue /\ time >= since + Delay
  /\ inForce' = announced /\ announced' = NoValue
  /\ UNCHANGED <<time, since>>

TimeGoesOn == time' = time + 1 /\ UNCHANGED <<announced, since, inForce>>

LockNext == Announce \/ Retract \/ TakeEffect \/ TimeGoesOn

LockSpec == LockInit /\ [][LockNext]_lockVars
================================================================================
