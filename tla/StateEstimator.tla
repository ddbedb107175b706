---------------------------- MODULE StateEstimator ----------------------------
(***************************************************************************)
(* src/state.c: velocity and altitude integrated from the accelerometer.   *)
(* A sample arrives some time after the one before it, longer when         *)
(* datagrams were lost.  Times, accelerations and positions are integers,  *)
(* so the integrals are exact: rounding of doubles is left out.            *)
(***************************************************************************)
EXTENDS Integers, Sequences

CONSTANTS
  Accels,           \* accelerations the sensor may report, gravity included
  RollRates,        \* roll rates it may report
  Gaps,             \* times between two samples
  Gravity,          \* 9.81
  Threshold,        \* 40: what is taken for a launch
  LAUNCH_ALTITUDE,
  TimeMod,          \* 2^48: a PSAS timestamp has six bytes
  WordMod,          \* 2^64: times are uint64_t
  StartTimes,       \* when the first sample may arrive
  MaxTime,          \* bound of the model on the clock
  MaxSamples        \* bound of the model on the samples

ASSUME StateEstimatorAssumption ==
  /\ Accels \subseteq Int /\ RollRates \subseteq Int /\ Gaps \subseteq Nat
  /\ Gravity \in Nat /\ Threshold \in Nat /\ LAUNCH_ALTITUDE \in Int
  /\ TimeMod \in Nat \ {0} /\ WordMod \in Nat \ {0} /\ TimeMod <= WordMod
  /\ MaxTime \in Nat /\ StartTimes \subseteq 0 .. MaxTime /\ MaxSamples \in Nat

VARIABLES
  current_state,    \* what roll control is told
  last_time,        \* timestamp of the last sample; 0: none yet
  has_launched, launch_time,
  vste,             \* the last VSTE message
  clock,            \* true time of the next sample, if it is not delayed
  samples           \* history: the samples, with the true time of each

vars == <<current_state, last_time, has_launched, launch_time, vste, clock, samples>>

(* to_psas_time and from_psas_time: six bytes of the nanosecond count. *)
from_psas_time(t) == t % TimeMod

\* fault: the operands of the difference are swapped, and it is signed
elapsed_Signed(now, then) == then - now

(* A difference of unsigned times. *)
elapsed(now, then) == (now - then) % WordMod

OnPad == [time |-> 0, acc_up |-> 0, vel_up |-> 0, altitude |-> LAUNCH_ALTITUDE,
          roll_rate |-> 0, roll_angle |-> 0]

Init ==
  /\ current_state = OnPad /\ last_time = 0
  /\ has_launched = FALSE /\ launch_time = 0
  /\ clock \in StartTimes /\ samples = <<>>
  /\ vste = [timestamp |-> 0, data |-> OnPad]

\* fault: only one direction counts
is_launch_Upright(accel) == accel > Threshold

(* A strong acceleration in either direction (fabs). *)
is_launch(accel) == accel > Threshold \/ -accel > Threshold

(* One step of the integration. *)
integrate(state, accel, roll_rate, dt, time) ==
  LET acc == accel - Gravity
      vel == state.vel_up + acc * dt
  IN [time       |-> time,
      acc_up     |-> acc,
      vel_up     |-> vel,
      altitude   |-> state.altitude + vel * dt,
      roll_rate  |-> -roll_rate,
      roll_angle |-> state.roll_angle + roll_rate * dt]

(* The true time of the sample and what it says, for the properties. *)
Record(accel, at) ==
  /\ clock' = at
  /\ samples' = Append(samples, [at |-> at, accel |-> accel])

\* fault: the first sample's dt is counted from time 0
state_receive_imu_NoFirst(accel, roll_rate, at) ==
  LET now    == from_psas_time(at)
      launch == ~has_launched /\ is_launch(accel)
  IN /\ has_launched' = (has_launched \/ launch)
     /\ launch_time' = IF launch THEN now ELSE launch_time
     /\ current_state' =
          IF has_launched' THEN
            integrate(current_state, accel, roll_rate, elapsed(now, last_time),
                      elapsed(now, launch_time'))
          ELSE current_state
     /\ vste' = [timestamp |-> now, data |-> current_state']
     /\ last_time' = now
     /\ Record(accel, at)

\* fault: every strong sample is taken for the launch
state_receive_imu_Relaunch(accel, roll_rate, at) ==
  LET now    == from_psas_time(at)
      launch == is_launch(accel)
      last   == IF last_time = 0 THEN now ELSE last_time
  IN /\ has_launched' = (has_launched \/ launch)
     /\ launch_time' = IF launch THEN now ELSE launch_time
     /\ current_state' =
          IF has_launched' THEN
            integrate(current_state, accel, roll_rate, elapsed(now, last),
                      elapsed(now, launch_time'))
          ELSE current_state
     /\ vste' = [timestamp |-> now, data |-> current_state']
     /\ last_time' = now
     /\ Record(accel, at)

\* fault: the rocket is integrated on the pad too
state_receive_imu_Unlatched(accel, roll_rate, at) ==
  LET now    == from_psas_time(at)
      launch == ~has_launched /\ is_launch(accel)
      last   == IF last_time = 0 THEN now ELSE last_time
  IN /\ has_launched' = (has_launched \/ launch)
     /\ launch_time' = IF launch THEN now ELSE launch_time
     /\ current_state' =
          integrate(current_state, accel, roll_rate, elapsed(now, last),
                    elapsed(now, launch_time'))
     /\ vste' = [timestamp |-> now, data |-> current_state']
     /\ last_time' = now
     /\ Record(accel, at)

state_receive_imu(accel, roll_rate, at) ==
  LET now    == from_psas_time(at)
      launch == ~has_launched /\ is_launch(accel)
      last   == IF last_time = 0 THEN now ELSE last_time
  IN /\ has_launched' = (has_launched \/ launch)
     /\ launch_time' = IF launch THEN now ELSE launch_time
     /\ current_state' =
          IF has_launched' THEN
            integrate(current_state, accel, roll_rate, elapsed(now, last),
                      elapsed(now, launch_time'))
          ELSE current_state
     /\ vste' = [timestamp |-> now, data |-> current_state']
     /\ last_time' = now
     /\ Record(accel, at)

Next ==
  \E accel \in Accels, roll_rate \in RollRates, gap \in Gaps :
    /\ clock + gap <= MaxTime /\ Len(samples) < MaxSamples
    /\ state_receive_imu(accel, roll_rate, clock + gap)

Spec == Init /\ [][Next]_vars
-----------------------------------------------------------------------------
States == [time : 0 .. WordMod - 1, acc_up : Int, vel_up : Int, altitude : Int,
           roll_rate : Int, roll_angle : Int]

(* Types of state.c's statics and of the message. *)
TypeOK ==
  /\ current_state \in States /\ has_launched \in BOOLEAN
  /\ last_time \in 0 .. TimeMod - 1 /\ launch_time \in 0 .. TimeMod - 1
  /\ vste \in [timestamp : 0 .. TimeMod - 1, data : States]
  /\ clock \in 0 .. MaxTime
  /\ samples \in Seq([at : Nat, accel : Int])

Strong(i) == samples[i].accel > Threshold \/ samples[i].accel < -Threshold
FirstStrong(i) == Strong(i) /\ \A j \in 1 .. i - 1 : ~Strong(j)

(* Roll control is told of a flight, for good, from the first sample that  *)
(* shows one; until then it is told of a rocket at rest (state.c:38).      *)
LaunchDecides ==
  IF \E i \in 1 .. Len(samples) : Strong(i) THEN has_launched
  ELSE ~has_launched /\ vste.data = OnPad

(* The flight time roll control is told, by which it chooses to steer, is  *)
(* the time since the launch sample, through gaps and further shocks.      *)
FlightTimeIsTrue ==
  \A i \in 1 .. Len(samples) :
    FirstStrong(i) => vste.data.time = samples[Len(samples)].at - samples[i].at

(* The time that sample i closes. *)
Gap(i) == IF i = 1 THEN 0 ELSE samples[i].at - samples[i - 1].at

(* start, and what each of the first n has added to it. *)
Accumulated(start, added) ==
  LET total[n \in Nat] == IF n = 0 THEN start ELSE total[n - 1] + added[n]
  IN  total

(* Speed and altitude after sample n of a flight that sample first shows.  *)
InFlight(first, n) == n \in first .. Len(samples)
SpeedGained(first) ==
  [n \in Nat |-> IF InFlight(first, n)
                 THEN (samples[n].accel - Gravity) * Gap(n) ELSE 0]
Speed(first) == Accumulated(0, SpeedGained(first))

HeightGained(first) ==
  [n \in Nat |-> IF InFlight(first, n) THEN Speed(first)[n] * Gap(n) ELSE 0]
Height(first) == Accumulated(LAUNCH_ALTITUDE, HeightGained(first))

(* The speed and altitude told to roll control are the integrals, over     *)
(* true time, of what the sensor reported in flight (state.c:28), however  *)
(* the samples are spaced and whatever came before the launch.             *)
IntegratesFlight ==
  \A i \in 1 .. Len(samples) :
    FirstStrong(i) =>
      /\ vste.data.vel_up = Speed(i)[Len(samples)]
      /\ vste.data.altitude = Height(i)[Len(samples)]
=============================================================================
