------------------------------ MODULE ClockAxis ------------------------------
(***************************************************************************)
(* The three axes of time of the engine (src/src/server/clock_axis.rs) and  *)
(* the conversions between them.  A device sample counts what the audio     *)
(* device has played; a transport sample counts the device samples during   *)
(* which that transport rolled; a transport position is where it stands,    *)
(* and is anchored: the position a locate put it at, and the transport      *)
(* sample the locate landed on.                                             *)
(*                                                                         *)
(* Samples are 64 bits wide in the code and start at 0 with the process, so *)
(* the naturals stand for them; the subtraction saturates at 0.             *)
(***************************************************************************)
EXTENDS Naturals

SatSub(a, b) == IF a > b THEN a - b ELSE 0

\* DeviceSample::to_transport and TransportSample::to_device.
ToTransport(device, frozen) == SatSub(device, frozen)
\* Mutant: the clock taken for the device's.
DeviceOfClock(clock, frozen) == clock
ToDevice(clock, frozen) == clock + frozen

Anchor == [position: Nat, since: Nat]

\* PositionAnchor::located (and wrapped_to, which is the same store).
Located(position, clock) == [position |-> position, since |-> clock]

\* PositionAnchor::at
PositionAt(anchor, clock) == anchor.position + SatSub(clock, anchor.since)

\* PositionAnchor::reaching: defined when the position lies ahead ...
Ahead(anchor, position, clock) == position > PositionAt(anchor, clock)

\* ... and then this is the transport sample it is reached on.
\* Mutant: one sample late.
ReachingLate(anchor, position, clock) ==
    clock + (position - PositionAt(anchor, clock)) + 1
Reaching(anchor, position, clock) ==
    clock + (position - PositionAt(anchor, clock))
=============================================================================
