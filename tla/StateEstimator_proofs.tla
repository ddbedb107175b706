------------------------- MODULE StateEstimator_proofs -------------------------
(***************************************************************************)
(* Theorems of StateEstimator for every set of sensor values and every     *)
(* spacing of the samples.                                                 *)
(***************************************************************************)
EXTENDS StateEstimator, WellFoundedInduction, TLAPS

Samples == [at : Nat, accel : Int]

LEMMA Constants ==
  /\ TimeMod \in Nat \ {0} /\ WordMod \in Nat \ {0} /\ TimeMod <= WordMod
  /\ Gravity \in Int /\ Threshold \in Nat /\ LAUNCH_ALTITUDE \in Int
  /\ MaxTime \in Nat
BY StateEstimatorAssumption

(* What Next hands to the handler. *)
LEMMA Arguments ==
  ASSUME TypeOK, Next
  PROVE  \E accel \in Int, roll_rate \in Int, at \in Nat :
           /\ clock <= at /\ at <= MaxTime
           /\ state_receive_imu(accel, roll_rate, at)
<1>1. PICK accel \in Accels, roll_rate \in RollRates, gap \in Gaps :
        /\ clock + gap <= MaxTime
        /\ state_receive_imu(accel, roll_rate, clock + gap)
  BY Zenon DEF Next
<1>2. accel \in Int /\ roll_rate \in Int /\ gap \in Nat /\ clock \in Nat
  BY StateEstimatorAssumption DEF TypeOK
<1>3. clock + gap \in Nat /\ clock <= clock + gap
  BY <1>2
<1> QED
  BY <1>1, <1>2, <1>3

LEMMA StampFacts ==
  ASSUME NEW t \in Nat
  PROVE  /\ from_psas_time(t) \in 0 .. TimeMod - 1
         /\ MaxTime < TimeMod /\ t <= MaxTime => from_psas_time(t) = t
BY Constants DEF from_psas_time

LEMMA ElapsedFacts ==
  ASSUME NEW now \in 0 .. TimeMod - 1, NEW then \in 0 .. TimeMod - 1
  PROVE  /\ elapsed(now, then) \in 0 .. WordMod - 1
         /\ then <= now => elapsed(now, then) = now - then
<1>1. now - then \in Int /\ WordMod \in Nat /\ WordMod > 0
  BY Constants
<1>2. elapsed(now, then) \in 0 .. WordMod - 1
  BY <1>1 DEF elapsed
<1>3. ASSUME then <= now PROVE elapsed(now, then) = now - then
  <2>1. now - then \in 0 .. WordMod - 1
    BY <1>3, Constants
  <2> QED
    BY <1>1, <2>1 DEF elapsed
<1> QED
  BY <1>2, <1>3

LEMMA Products ==
  ASSUME NEW a \in Int, NEW b \in Int, NEW c \in Int
  PROVE  a + b * c \in Int
OBVIOUS

LEMMA IntegrateType ==
  ASSUME NEW state \in States, NEW accel \in Int, NEW roll_rate \in Int,
         NEW dt \in Int, NEW time \in 0 .. WordMod - 1
  PROVE  /\ integrate(state, accel, roll_rate, dt, time) \in States
         /\ integrate(state, accel, roll_rate, dt, time).time = time
<1> DEFINE acc == accel - Gravity
           vel == state.vel_up + acc * dt
<1>1. /\ state.vel_up \in Int /\ state.altitude \in Int /\ state.roll_angle \in Int
  BY DEF States
<1>2. acc \in Int /\ -roll_rate \in Int
  BY Constants
<1> HIDE DEF acc
<1>3. vel \in Int
  BY <1>1, <1>2, Products
<1> HIDE DEF vel
<1>4. state.altitude + vel * dt \in Int /\ state.roll_angle + roll_rate * dt \in Int
  BY <1>1, <1>3, Products
<1>5. integrate(state, accel, roll_rate, dt, time) =
        [time |-> time, acc_up |-> acc, vel_up |-> vel,
         altitude |-> state.altitude + vel * dt, roll_rate |-> -roll_rate,
         roll_angle |-> state.roll_angle + roll_rate * dt]
  BY Zenon DEF integrate, acc, vel
<1> QED
  BY <1>2, <1>3, <1>4, <1>5 DEF States

-----------------------------------------------------------------------------
(* What a sample does, in the terms of the invariants.                     *)
LEMMA Step ==
  ASSUME TypeOK, NEW accel \in Int, NEW roll_rate \in Int, NEW at \in Nat,
         at <= MaxTime, state_receive_imu(accel, roll_rate, at)
  PROVE  /\ TypeOK'
         /\ has_launched' = (has_launched \/ is_launch(accel))
         /\ launch_time' = IF ~has_launched /\ is_launch(accel)
                           THEN from_psas_time(at) ELSE launch_time
         /\ vste'.data = current_state'
         /\ ~has_launched' => current_state' = current_state
         /\ has_launched' =>
              current_state'.time = elapsed(from_psas_time(at), launch_time')
         /\ clock' = at
         /\ samples' = Append(samples, [at |-> at, accel |-> accel])
<1> DEFINE now  == from_psas_time(at)
           last == IF last_time = 0 THEN now ELSE last_time
           time == elapsed(now, launch_time')
           dt   == elapsed(now, last)
<1>1. /\ has_launched' = (has_launched \/ (~has_launched /\ is_launch(accel)))
      /\ launch_time' = IF ~has_launched /\ is_launch(accel) THEN now ELSE launch_time
      /\ current_state' = IF has_launched'
                          THEN integrate(current_state, accel, roll_rate, dt, time)
                          ELSE current_state
      /\ vste' = [timestamp |-> now, data |-> current_state']
      /\ last_time' = now
      /\ clock' = at /\ samples' = Append(samples, [at |-> at, accel |-> accel])
  BY Zenon DEF state_receive_imu, Record
<1>2. /\ current_state \in States /\ has_launched \in BOOLEAN
      /\ last_time \in 0 .. TimeMod - 1 /\ launch_time \in 0 .. TimeMod - 1
      /\ samples \in Seq(Samples)
  BY DEF TypeOK, Samples
<1>3. now \in 0 .. TimeMod - 1
  BY StampFacts
<1> HIDE DEF now
<1>4. last \in 0 .. TimeMod - 1 /\ launch_time' \in 0 .. TimeMod - 1
  BY <1>1, <1>2, <1>3
<1> HIDE DEF last
<1>5. time \in 0 .. WordMod - 1 /\ dt \in 0 .. WordMod - 1
  BY <1>3, <1>4, ElapsedFacts
<1>6. dt \in Int
  BY <1>5, Constants
<1> HIDE DEF time, dt
<1>7. /\ current_state' \in States
      /\ has_launched' => current_state'.time = time
  BY <1>1, <1>2, <1>5, <1>6, IntegrateType
<1>8. has_launched' \in BOOLEAN /\ has_launched' = (has_launched \/ is_launch(accel))
  BY <1>1, <1>2, Zenon
<1>9. samples' \in Seq(Samples)
  <2>1. [at |-> at, accel |-> accel] \in Samples
    BY DEF Samples
  <2> QED
    BY <1>1, <1>2, <2>1
<1>10. clock' \in 0 .. MaxTime
  BY <1>1, Constants
<1>11. vste' \in [timestamp : 0 .. TimeMod - 1, data : States] /\ vste'.data = current_state'
  <2> DEFINE S == 0 .. TimeMod - 1
  <2>1. now \in S
    BY <1>3
  <2> HIDE DEF S
  <2>2. vste' \in [timestamp : S, data : States] /\ vste'.data = current_state'
    BY <1>1, <1>7, <2>1
  <2> QED
    BY <2>2 DEF S
<1>12. TypeOK'
  BY <1>1, <1>3, <1>4, <1>7, <1>8, <1>9, <1>10, <1>11, Zenon DEF TypeOK, Samples
<1> QED
  BY <1>1, <1>7, <1>8, <1>11, <1>12, Zenon DEF now, time

-----------------------------------------------------------------------------
LEMMA InitTypes == Init => TypeOK
<1> SUFFICES ASSUME Init PROVE TypeOK
  OBVIOUS
<1> DEFINE S == 0 .. TimeMod - 1
<1>1. 0 \in S /\ 0 \in 0 .. WordMod - 1
  BY Constants
<1> HIDE DEF S
<1>2. OnPad \in States
  BY <1>1, Constants DEF OnPad, States
<1>3. vste \in [timestamp : S, data : States]
  BY <1>1, <1>2 DEF Init
<1>4. clock \in 0 .. MaxTime /\ samples \in Seq([at : Nat, accel : Int])
  BY StateEstimatorAssumption DEF Init
<1> QED
  BY <1>1, <1>2, <1>3, <1>4, Zenon DEF Init, TypeOK, S

(* Times and messages keep their types, through every wrap.                *)
THEOREM TypeCorrect == Spec => []TypeOK
<1>1. TypeOK /\ [Next]_vars => TypeOK'
  <2> SUFFICES ASSUME TypeOK, [Next]_vars PROVE TypeOK'
    OBVIOUS
  <2>1. CASE Next
    BY <2>1, Arguments, Step
  <2>2. CASE UNCHANGED vars
    BY <2>2, Zenon DEF vars, TypeOK
  <2> QED
    BY <2>1, <2>2
<1> QED
  BY <1>1, InitTypes, PTL DEF Spec

-----------------------------------------------------------------------------
(* A sample is appended: what the history says afterwards.                 *)
LEMMA Appended ==
  ASSUME samples \in Seq(Samples), NEW accel \in Int, NEW at \in Nat,
         samples' = Append(samples, [at |-> at, accel |-> accel])
  PROVE  /\ Len(samples) \in Nat /\ Len(samples') = Len(samples) + 1
         /\ \A i \in 1 .. Len(samples) :
              /\ samples'[i] = samples[i]
              /\ Strong(i)' <=> Strong(i)
              /\ FirstStrong(i)' <=> FirstStrong(i)
         /\ samples'[Len(samples) + 1] = [at |-> at, accel |-> accel]
         /\ \A i : i = Len(samples) + 1 => (Strong(i)' <=> is_launch(accel))
<1>1. /\ Len(samples) \in Nat /\ Len(samples') = Len(samples) + 1
      /\ \A i \in 1 .. Len(samples) : samples'[i] = samples[i]
      /\ samples'[Len(samples) + 1] = [at |-> at, accel |-> accel]
  OBVIOUS
<1>2. \A i \in 1 .. Len(samples) : Strong(i)' <=> Strong(i)
  BY <1>1, Zenon DEF Strong
<1>3. \A i \in 1 .. Len(samples) : FirstStrong(i)' <=> FirstStrong(i)
  <2> SUFFICES ASSUME NEW i \in 1 .. Len(samples)
               PROVE  FirstStrong(i)' <=> FirstStrong(i)
    OBVIOUS
  <2>1. \A j \in 1 .. i - 1 : j \in 1 .. Len(samples)
    BY <1>1
  <2> QED
    BY <1>2, <2>1, Zenon DEF FirstStrong
<1>4. ASSUME NEW i, i = Len(samples) + 1 PROVE Strong(i)' <=> is_launch(accel)
  <2>1. samples'[i].accel = accel
    BY <1>1, <1>4
  <2>2. accel < -Threshold <=> -accel > Threshold
    BY Constants
  <2> QED
    BY <2>1, <2>2, Zenon DEF Strong, is_launch
<1> QED
  BY <1>1, <1>2, <1>3, <1>4

Launched == \E i \in 1 .. Len(samples) : Strong(i)

(* What is told of a rocket at rest is also what is remembered of it.      *)
LatchInv ==
  IF Launched THEN has_launched
  ELSE ~has_launched /\ current_state = OnPad /\ vste.data = OnPad

LEMMA LaunchedStep ==
  ASSUME samples \in Seq(Samples), NEW accel \in Int, NEW at \in Nat,
         samples' = Append(samples, [at |-> at, accel |-> accel])
  PROVE  Launched' <=> Launched \/ is_launch(accel)
<1>1. Len(samples') = Len(samples) + 1 /\ Len(samples) \in Nat
  BY Appended
<1>2. 1 .. Len(samples') = (1 .. Len(samples)) \cup {Len(samples) + 1}
  BY <1>1
<1>3. \A i \in 1 .. Len(samples) : Strong(i)' <=> Strong(i)
  BY Appended
<1>4. PICK n : n = Len(samples) + 1
  OBVIOUS
<1>5. Strong(n)' <=> is_launch(accel)
  BY <1>4, Appended
<1>6. 1 .. Len(samples') = (1 .. Len(samples)) \cup {n}
  BY <1>2, <1>4
<1> QED
  BY <1>3, <1>5, <1>6, Zenon DEF Launched

LEMMA LatchHolds == Spec => []LatchInv
<1>1. Init => LatchInv
  BY DEF Init, LatchInv, Launched
<1>2. TypeOK /\ LatchInv /\ [Next]_vars => LatchInv'
  <2> SUFFICES ASSUME TypeOK, LatchInv, [Next]_vars PROVE LatchInv'
    OBVIOUS
  <2>1. CASE Next
    <3>1. PICK accel \in Int, roll_rate \in Int, at \in Nat :
            /\ clock <= at /\ at <= MaxTime
            /\ state_receive_imu(accel, roll_rate, at)
      BY <2>1, Arguments
    <3>2. /\ has_launched' = (has_launched \/ is_launch(accel))
          /\ vste'.data = current_state'
          /\ ~has_launched' => current_state' = current_state
          /\ samples' = Append(samples, [at |-> at, accel |-> accel])
      BY <3>1, Step
    <3>3. Launched' <=> Launched \/ is_launch(accel)
      BY <3>2, LaunchedStep DEF TypeOK, Samples
    <3> QED
      BY <3>2, <3>3, Zenon DEF LatchInv
  <2>2. CASE UNCHANGED vars
    BY <2>2, Zenon DEF vars, LatchInv, Launched, Strong
  <2> QED
    BY <2>1, <2>2
<1> QED
  BY <1>1, <1>2, TypeCorrect, PTL DEF Spec

(* Roll control is told of a flight exactly from the first strong sample.  *)
THEOREM LaunchLatched == Spec => []LaunchDecides
<1>1. LatchInv => LaunchDecides
  BY Zenon DEF LatchInv, LaunchDecides, Launched
<1> QED
  BY <1>1, LatchHolds, PTL

-----------------------------------------------------------------------------
(* Without a wrap of the timestamp, launch_time is the true time of the    *)
(* launch sample, and the flight time is counted from it.                  *)
TimeInv ==
  /\ samples # <<>> => samples[Len(samples)].at = clock
  /\ \A i \in 1 .. Len(samples) :
       FirstStrong(i) =>
         /\ samples[i].at = launch_time /\ launch_time <= clock
         /\ vste.data.time = clock - launch_time

LEMMA FlightStep ==
  ASSUME MaxTime < TimeMod, TypeOK, LatchInv, TimeInv,
         NEW accel \in Int, NEW roll_rate \in Int, NEW at \in Nat,
         clock <= at, at <= MaxTime, state_receive_imu(accel, roll_rate, at)
  PROVE  TimeInv'
<1>1. /\ has_launched' = (has_launched \/ is_launch(accel))
      /\ launch_time' = IF ~has_launched /\ is_launch(accel)
                        THEN from_psas_time(at) ELSE launch_time
      /\ vste'.data = current_state'
      /\ has_launched' =>
           current_state'.time = elapsed(from_psas_time(at), launch_time')
      /\ clock' = at
      /\ samples' = Append(samples, [at |-> at, accel |-> accel])
      /\ TypeOK'
  BY Step
<1>2. /\ samples \in Seq(Samples) /\ clock \in Nat
      /\ launch_time' \in 0 .. TimeMod - 1
  BY <1>1 DEF TypeOK, Samples
<1>3. from_psas_time(at) = at /\ at \in 0 .. TimeMod - 1
  BY StampFacts, Constants
<1>4. /\ Len(samples) \in Nat /\ Len(samples') = Len(samples) + 1
      /\ samples'[Len(samples) + 1].at = at
      /\ \A i : i = Len(samples) + 1 => (Strong(i)' <=> is_launch(accel))
      /\ \A i \in 1 .. Len(samples) :
           /\ samples'[i] = samples[i]
           /\ Strong(i)' <=> Strong(i)
           /\ FirstStrong(i)' <=> FirstStrong(i)
  BY <1>1, <1>2, Appended
<1>5. ASSUME has_launched', launch_time' <= at
      PROVE  vste'.data.time = clock' - launch_time'
  BY <1>1, <1>2, <1>3, <1>5, ElapsedFacts
<1>6. samples'[Len(samples')].at = clock'
  BY <1>1, <1>4
<1>7. ASSUME NEW i \in 1 .. Len(samples'), FirstStrong(i)'
      PROVE  /\ samples'[i].at = launch_time' /\ launch_time' <= clock'
             /\ vste'.data.time = clock' - launch_time'
  <2>1. CASE i \in 1 .. Len(samples)
    <3>1. FirstStrong(i) /\ samples'[i] = samples[i]
      BY <1>4, <1>7, <2>1
    <3>2. has_launched
      BY <2>1, <3>1, Zenon DEF LatchInv, Launched, FirstStrong
    <3>3. launch_time' = launch_time /\ has_launched'
      BY <1>1, <3>2, Zenon
    <3>4. samples[i].at = launch_time /\ launch_time <= clock /\ launch_time \in Nat
      BY <2>1, <3>1 DEF TimeInv, TypeOK
    <3>5. launch_time' <= at
      BY <1>2, <3>3, <3>4
    <3> QED
      BY <1>1, <1>5, <3>1, <3>3, <3>4, <3>5
  <2>2. CASE i = Len(samples) + 1
    <3>1. \A j \in 1 .. Len(samples) : ~Strong(j)
      <4>1. 1 .. i - 1 = 1 .. Len(samples)
        BY <1>4, <2>2
      <4> QED
        BY <1>4, <1>7, <4>1, Zenon DEF FirstStrong
    <3>2. ~has_launched
      BY <3>1, Zenon DEF LatchInv, Launched
    <3>3. is_launch(accel)
      BY <1>4, <1>7, <2>2, Zenon DEF FirstStrong
    <3>4. launch_time' = at /\ has_launched'
      BY <1>1, <1>3, <3>2, <3>3, Zenon
    <3> QED
      BY <1>1, <1>4, <1>5, <2>2, <3>4
  <2> QED
    BY <1>4, <2>1, <2>2
<1> QED
  BY <1>6, <1>7, Zenon DEF TimeInv

(* The flight time roll control is told is the time since the launch       *)
(* sample, as long as the timestamp does not wrap.                         *)
THEOREM FlightClock == ASSUME MaxTime < TimeMod PROVE Spec => []FlightTimeIsTrue
<1>1. Init => TimeInv
  BY DEF Init, TimeInv
<1>2. TypeOK /\ LatchInv /\ TimeInv /\ [Next]_vars => TimeInv'
  <2> SUFFICES ASSUME TypeOK, LatchInv, TimeInv, [Next]_vars PROVE TimeInv'
    OBVIOUS
  <2>1. CASE Next
    BY <2>1, Arguments, FlightStep
  <2>2. CASE UNCHANGED vars
    BY <2>2, Zenon DEF vars, TimeInv, FirstStrong, Strong
  <2> QED
    BY <2>1, <2>2
<1>3. TypeOK /\ TimeInv => FlightTimeIsTrue
  <2> SUFFICES ASSUME TypeOK, TimeInv, NEW i \in 1 .. Len(samples), FirstStrong(i)
               PROVE  vste.data.time = samples[Len(samples)].at - samples[i].at
    BY DEF FlightTimeIsTrue
  <2>1. samples # <<>>
    BY DEF TypeOK
  <2> QED
    BY <2>1, Zenon DEF TimeInv
<1> QED
  BY <1>1, <1>2, <1>3, TypeCorrect, LatchHolds, PTL DEF Spec

-----------------------------------------------------------------------------
(* Sums over the samples are recursive functions on Nat.  Induction over   *)
(* Nat is used in the form of a statement about sets, which follows from   *)
(* the well-foundedness of <.                                              *)
LEMMA SetInduction ==
  ASSUME NEW S, 0 \in S, \A n \in Nat : n \in S => n + 1 \in S
  PROVE  Nat \subseteq S
<1> SUFFICES ASSUME NEW T, T = Nat \ S, T # {} PROVE FALSE
  OBVIOUS
<1> DEFINE Less == {p \in Nat \X Nat : p[1] < p[2]}
<1>1. IsWellFoundedOn(Less, Nat)
  BY NatLessThanWellFounded, Zenon DEF OpToRel
<1>2. \A x, y \in Nat : x < y => <<x, y>> \in Less
  OBVIOUS
<1> HIDE DEF Less
<1>3. PICK x \in T : \A y \in T : ~(<<y, x>> \in Less)
  BY <1>1, WFMin
<1>4. x \in Nat /\ x \notin S /\ x # 0
  BY <1>3
<1>5. x - 1 \in Nat /\ x - 1 < x /\ x = (x - 1) + 1
  BY <1>4
<1>6. x - 1 \notin T
  BY <1>2, <1>3, <1>4, <1>5
<1> QED
  BY <1>4, <1>5, <1>6

(* A function that sums up to n. *)
Partial(n, h, start, added) ==
  /\ h \in [0 .. n -> Int] /\ h[0] = start
  /\ \A k \in 0 .. n - 1 : h[k + 1] = h[k] + added[k + 1]

LEMMA PartialExists ==
  ASSUME NEW start \in Int, NEW added \in [Nat -> Int]
  PROVE  \A n \in Nat : \E h : Partial(n, h, start, added)
<1> DEFINE S == {n \in Nat : \E h : Partial(n, h, start, added)}
<1>1. 0 \in S
  <2>1. Partial(0, [k \in 0 .. 0 |-> start], start, added)
    BY DEF Partial
  <2> QED
    BY <2>1
<1>2. ASSUME NEW n \in Nat, n \in S PROVE n + 1 \in S
  <2>1. PICK h : Partial(n, h, start, added)
    BY <1>2
  <2> DEFINE g == [k \in 0 .. n + 1 |-> IF k <= n THEN h[k] ELSE h[n] + added[n + 1]]
  <2>2. /\ h \in [0 .. n -> Int] /\ h[0] = start
        /\ \A k \in 0 .. n - 1 : h[k + 1] = h[k] + added[k + 1]
    BY <2>1 DEF Partial
  <2>3. h[n] + added[n + 1] \in Int
    BY <2>2
  <2>4. g \in [0 .. n + 1 -> Int]
    BY <2>2, <2>3
  <2>5. \A k \in 0 .. n : g[k] = h[k] /\ (k = n => g[k + 1] = h[n] + added[n + 1])
    OBVIOUS
  <2>6. g[0] = start
    BY <2>2, <2>5
  <2> HIDE DEF g
  <2>7. ASSUME NEW k \in 0 .. (n + 1) - 1 PROVE g[k + 1] = g[k] + added[k + 1]
    <3>1. CASE k = n
      BY <2>5, <3>1
    <3>2. CASE k # n
      <4>1. k \in 0 .. n - 1 /\ k \in 0 .. n /\ k + 1 \in 0 .. n
        BY <3>2
      <4> QED
        BY <2>2, <2>5, <4>1
    <3> QED
      BY <3>1, <3>2
  <2>8. Partial(n + 1, g, start, added)
    BY <2>4, <2>6, <2>7 DEF Partial
  <2> QED
    BY <2>8
<1> HIDE DEF S
<1>3. Nat \subseteq S
  BY <1>1, <1>2, SetInduction
<1> QED
  BY <1>3 DEF S

LEMMA PartialUnique ==
  ASSUME NEW start, NEW added, NEW m \in Nat, NEW n \in Nat, NEW g, NEW h,
         Partial(m, g, start, added), Partial(n, h, start, added)
  PROVE  \A k \in Nat : k <= m /\ k <= n => g[k] = h[k]
<1> DEFINE S == {k \in Nat : k <= m /\ k <= n => g[k] = h[k]}
<1>1. 0 \in S
  BY DEF Partial
<1>2. ASSUME NEW k \in Nat, k \in S PROVE k + 1 \in S
  <2> SUFFICES ASSUME k + 1 <= m, k + 1 <= n PROVE g[k + 1] = h[k + 1]
    OBVIOUS
  <2>1. k \in 0 .. m - 1 /\ k \in 0 .. n - 1 /\ g[k] = h[k]
    BY <1>2
  <2> QED
    BY <2>1 DEF Partial
<1> HIDE DEF S
<1>3. Nat \subseteq S
  BY <1>1, <1>2, SetInduction
<1> QED
  BY <1>3 DEF S

(* The recursive definition has a solution, so it means what it says.      *)
LEMMA AccumulatedFacts ==
  ASSUME NEW start \in Int, NEW added \in [Nat -> Int]
  PROVE  /\ Accumulated(start, added) \in [Nat -> Int]
         /\ Accumulated(start, added)[0] = start
         /\ \A n \in Nat : Accumulated(start, added)[n + 1]
                            = Accumulated(start, added)[n] + added[n + 1]
<1> DEFINE Solves(t) == t = [n \in Nat |-> IF n = 0 THEN start
                                           ELSE t[n - 1] + added[n]]
           P(n) == CHOOSE h : Partial(n, h, start, added)
           f    == [n \in Nat |-> P(n)[n]]
<1>1. \A n \in Nat : Partial(n, P(n), start, added)
  BY PartialExists, Zenon
<1> HIDE DEF P
<1>2. ASSUME NEW n \in Nat, n # 0 PROVE f[n] = f[n - 1] + added[n]
  <2>1. n - 1 \in Nat /\ n - 1 \in 0 .. n - 1 /\ (n - 1) + 1 = n /\ n - 1 <= n
    BY <1>2
  <2>2. P(n)[n] = P(n)[n - 1] + added[n]
    BY <1>1, <2>1 DEF Partial
  <2>3. P(n)[n - 1] = P(n - 1)[n - 1]
    BY <1>1, <2>1, PartialUnique
  <2> QED
    BY <2>1, <2>2, <2>3
<1>3. f[0] = start
  BY <1>1 DEF Partial
<1>4. \A n \in Nat : f[n] = IF n = 0 THEN start ELSE f[n - 1] + added[n]
  BY <1>2, <1>3
<1>5. f = [n \in Nat |-> f[n]]
  OBVIOUS
<1> HIDE DEF f
<1>6. Solves(f)
  BY <1>4, <1>5
<1> DEFINE total == Accumulated(start, added)
<1>7. total = CHOOSE t : Solves(t)
  BY Zenon DEF Accumulated
<1>8. Solves(total)
  BY <1>6, <1>7, Zenon
<1> HIDE DEF total
<1>9. total[0] = start /\ \A n \in Nat : total[n + 1] = total[n] + added[n + 1]
  BY <1>8
<1>10. \A n \in Nat : total[n] \in Int
  <2> DEFINE S == {n \in Nat : total[n] \in Int}
  <2>1. 0 \in S
    BY <1>9
  <2>2. ASSUME NEW n \in Nat, n \in S PROVE n + 1 \in S
    BY <1>9, <2>2
  <2> HIDE DEF S
  <2>3. Nat \subseteq S
    BY <2>1, <2>2, SetInduction
  <2> QED
    BY <2>3 DEF S
<1>11. total \in [Nat -> Int]
  BY <1>8, <1>10
<1> QED
  BY <1>9, <1>11 DEF total

(* The first n sums depend on the first n summands only.                   *)
LEMMA SameAccumulated ==
  ASSUME NEW start \in Int, NEW c \in [Nat -> Int], NEW d \in [Nat -> Int],
         NEW n \in Nat, \A k \in 1 .. n : c[k] = d[k]
  PROVE  Accumulated(start, c)[n] = Accumulated(start, d)[n]
<1> DEFINE S == {k \in Nat : k <= n => Accumulated(start, c)[k] = Accumulated(start, d)[k]}
<1>1. 0 \in S
  BY AccumulatedFacts
<1>2. ASSUME NEW k \in Nat, k \in S PROVE k + 1 \in S
  <2> SUFFICES ASSUME k + 1 <= n
               PROVE  Accumulated(start, c)[k + 1] = Accumulated(start, d)[k + 1]
    OBVIOUS
  <2>1. k + 1 \in 1 .. n /\ Accumulated(start, c)[k] = Accumulated(start, d)[k]
    BY <1>2
  <2> QED
    BY <2>1, AccumulatedFacts
<1> HIDE DEF S
<1>3. Nat \subseteq S
  BY <1>1, <1>2, SetInduction
<1> QED
  BY <1>3 DEF S

(* Nothing is added before the flight.                                     *)
LEMMA NothingAccumulated ==
  ASSUME NEW start \in Int, NEW c \in [Nat -> Int],
         NEW n \in Nat, \A k \in 1 .. n : c[k] = 0
  PROVE  Accumulated(start, c)[n] = start
<1> DEFINE S == {k \in Nat : k <= n => Accumulated(start, c)[k] = start}
<1>1. 0 \in S
  BY AccumulatedFacts
<1>2. ASSUME NEW k \in Nat, k \in S PROVE k + 1 \in S
  <2> SUFFICES ASSUME k + 1 <= n PROVE Accumulated(start, c)[k + 1] = start
    OBVIOUS
  <2>1. k + 1 \in 1 .. n /\ Accumulated(start, c)[k] = start
    BY <1>2
  <2> QED
    BY <2>1, AccumulatedFacts
<1> HIDE DEF S
<1>3. Nat \subseteq S
  BY <1>1, <1>2, SetInduction
<1> QED
  BY <1>3 DEF S

-----------------------------------------------------------------------------
(* The sums over the history, and what one more sample does to them.       *)
LEMMA GapType ==
  ASSUME samples \in Seq(Samples), NEW n \in 1 .. Len(samples)
  PROVE  Gap(n) \in Int /\ samples[n].accel \in Int
<1>1. \A k \in 1 .. Len(samples) : samples[k] \in Samples
  OBVIOUS
<1>2. \A k \in 1 .. Len(samples) : samples[k].at \in Nat /\ samples[k].accel \in Int
  BY <1>1 DEF Samples
<1>3. n # 1 => n - 1 \in 1 .. Len(samples)
  OBVIOUS
<1> QED
  BY <1>2, <1>3 DEF Gap

SumTypes(i) ==
  /\ SpeedGained(i) \in [Nat -> Int] /\ HeightGained(i) \in [Nat -> Int]
  /\ Speed(i) \in [Nat -> Int] /\ Height(i) \in [Nat -> Int]
AllSumTypes == samples \in Seq(Samples) => \A i \in Nat \ {0} : SumTypes(i)

LEMMA SumsAreTyped == AllSumTypes
<1> SUFFICES ASSUME samples \in Seq(Samples), NEW i \in Nat \ {0}
             PROVE  SumTypes(i)
  BY DEF AllSumTypes
<1>1. ASSUME NEW n \in Nat, InFlight(i, n)
      PROVE  Gap(n) \in Int /\ samples[n].accel - Gravity \in Int
  <2>1. n \in 1 .. Len(samples)
    BY <1>1 DEF InFlight
  <2> QED
    BY <2>1, GapType, Constants
<1>2. \A a, b \in Int : a * b \in Int
  OBVIOUS
<1>3. SpeedGained(i) \in [Nat -> Int]
  <2>1. ASSUME NEW n \in Nat, InFlight(i, n)
        PROVE  (samples[n].accel - Gravity) * Gap(n) \in Int
    BY <1>1, <1>2, <2>1, Zenon
  <2>2. 0 \in Int
    OBVIOUS
  <2> QED
    BY <2>1, <2>2, Zenon DEF SpeedGained
<1>4. Speed(i) \in [Nat -> Int]
  BY <1>3, AccumulatedFacts DEF Speed
<1>5. HeightGained(i) \in [Nat -> Int]
  <2>1. ASSUME NEW n \in Nat, InFlight(i, n)
        PROVE  Speed(i)[n] * Gap(n) \in Int
    <3>1. Speed(i)[n] \in Int
      BY <1>4
    <3> QED
      BY <1>1, <1>2, <2>1, <3>1, Zenon
  <2>2. 0 \in Int
    OBVIOUS
  <2> QED
    BY <2>1, <2>2, Zenon DEF HeightGained
<1>6. Height(i) \in [Nat -> Int]
  BY <1>5, AccumulatedFacts, Constants DEF Height
<1> QED
  BY <1>3, <1>4, <1>5, <1>6 DEF SumTypes

LEMMA SumsStayTyped == AllSumTypes'
BY SumsAreTyped, PTL

LEMMA SumsAppended ==
  ASSUME samples \in Seq(Samples), NEW accel \in Int, NEW at \in Nat,
         samples' = Append(samples, [at |-> at, accel |-> accel]),
         NEW i \in 1 .. Len(samples) + 1, NEW n, n = Len(samples)
  PROVE  /\ Speed(i)'[n] = Speed(i)[n] /\ Height(i)'[n] = Height(i)[n]
         /\ Speed(i)'[n + 1] = Speed(i)'[n] + (accel - Gravity) * Gap(n + 1)'
         /\ Height(i)'[n + 1] = Height(i)'[n] + Speed(i)'[n + 1] * Gap(n + 1)'
<1>1. /\ samples' \in Seq(Samples) /\ n \in Nat /\ Len(samples') = n + 1
      /\ \A k \in 1 .. n : samples'[k] = samples[k]
      /\ samples'[n + 1].accel = accel /\ i \in Nat \ {0} /\ n + 1 \in Nat
  <2>1. [at |-> at, accel |-> accel] \in Samples
    BY DEF Samples
  <2> QED
    BY <2>1
<1>2. SumTypes(i) /\ SumTypes(i)'
  BY <1>1, SumsAreTyped, SumsStayTyped, Zenon DEF AllSumTypes
<1>3. \A k \in 1 .. n : Gap(k)' = Gap(k) /\ (InFlight(i, k)' <=> InFlight(i, k))
  <2> SUFFICES ASSUME NEW k \in 1 .. n
               PROVE  Gap(k)' = Gap(k) /\ (InFlight(i, k)' <=> InFlight(i, k))
    OBVIOUS
  <2>1. k # 1 => k - 1 \in 1 .. n
    BY <1>1
  <2>2. Gap(k)' = Gap(k)
    BY <1>1, <2>1 DEF Gap
  <2> QED
    BY <1>1, <2>2 DEF InFlight
<1>4. InFlight(i, n + 1)'
  BY <1>1 DEF InFlight
<1>5. \A k \in 1 .. n : k \in Nat
  BY <1>1
<1>6. PICK c, d, cc, dd :
        /\ c = SpeedGained(i) /\ d = HeightGained(i)
        /\ cc = SpeedGained(i)' /\ dd = HeightGained(i)'
  OBVIOUS
<1>7. /\ c \in [Nat -> Int] /\ d \in [Nat -> Int]
      /\ cc \in [Nat -> Int] /\ dd \in [Nat -> Int]
  BY <1>2, <1>6, Zenon DEF SumTypes
<1>8. /\ Speed(i) = Accumulated(0, c) /\ Speed(i)' = Accumulated(0, cc)
      /\ Height(i) = Accumulated(LAUNCH_ALTITUDE, d)
      /\ Height(i)' = Accumulated(LAUNCH_ALTITUDE, dd)
  BY <1>6, Zenon DEF Speed, Height
<1>9. /\ \A k \in 1 .. n : c[k] = cc[k]
      /\ cc[n + 1] = (accel - Gravity) * Gap(n + 1)'
  BY <1>1, <1>3, <1>4, <1>5, <1>6, Zenon DEF SpeedGained
<1>10. \A k \in 1 .. n : Speed(i)[k] = Speed(i)'[k]
  <2> SUFFICES ASSUME NEW k \in 1 .. n
               PROVE  Accumulated(0, c)[k] = Accumulated(0, cc)[k]
    BY <1>8, Zenon
  <2>1. k \in Nat /\ 0 \in Int /\ \A j \in 1 .. k : j \in 1 .. n
    BY <1>1
  <2>2. \A j \in 1 .. k : c[j] = cc[j]
    BY <1>9, <2>1, Zenon
  <2> QED
    BY <1>7, <2>1, <2>2, SameAccumulated, Zenon
<1>11. /\ \A k \in 1 .. n : d[k] = dd[k]
       /\ dd[n + 1] = Speed(i)'[n + 1] * Gap(n + 1)'
  BY <1>1, <1>3, <1>4, <1>5, <1>6, <1>10, Zenon DEF HeightGained
<1>12. /\ Accumulated(0, c)[n] = Accumulated(0, cc)[n]
       /\ Accumulated(LAUNCH_ALTITUDE, d)[n] = Accumulated(LAUNCH_ALTITUDE, dd)[n]
  <2>1. 0 \in Int /\ LAUNCH_ALTITUDE \in Int
    BY Constants
  <2>2. n \in Nat /\ (\A k \in 1 .. n : c[k] = cc[k])
    BY <1>1, <1>9
  <2>3. \A k \in 1 .. n : d[k] = dd[k]
    BY <1>11
  <2>4. Accumulated(0, c)[n] = Accumulated(0, cc)[n]
    BY <1>7, <2>1, <2>2, SameAccumulated, Zenon
  <2>5. Accumulated(LAUNCH_ALTITUDE, d)[n] = Accumulated(LAUNCH_ALTITUDE, dd)[n]
    BY <1>7, <2>1, <2>2, <2>3, SameAccumulated, Zenon
  <2> QED
    BY <2>4, <2>5
<1>13. /\ Accumulated(0, cc)[n + 1] = Accumulated(0, cc)[n] + cc[n + 1]
       /\ Accumulated(LAUNCH_ALTITUDE, dd)[n + 1]
            = Accumulated(LAUNCH_ALTITUDE, dd)[n] + dd[n + 1]
  <2>1. 0 \in Int /\ LAUNCH_ALTITUDE \in Int /\ n \in Nat
    BY <1>1, Constants
  <2>2. \A k \in Nat : Accumulated(0, cc)[k + 1]
                       = Accumulated(0, cc)[k] + cc[k + 1]
    BY <1>7, <2>1, AccumulatedFacts
  <2>3. \A k \in Nat : Accumulated(LAUNCH_ALTITUDE, dd)[k + 1]
                       = Accumulated(LAUNCH_ALTITUDE, dd)[k] + dd[k + 1]
    BY <1>7, <2>1, AccumulatedFacts
  <2> QED
    BY <2>1, <2>2, <2>3
<1> QED
  BY <1>8, <1>9, <1>11, <1>12, <1>13, Zenon

-----------------------------------------------------------------------------
(* What a sample in flight adds to speed and altitude.                     *)
LEMMA Integration ==
  ASSUME TypeOK, NEW accel \in Int, NEW roll_rate \in Int, NEW at \in Nat,
         state_receive_imu(accel, roll_rate, at), has_launched',
         NEW dt, dt = elapsed(from_psas_time(at),
                              IF last_time = 0 THEN from_psas_time(at) ELSE last_time)
  PROVE  /\ current_state'.vel_up = current_state.vel_up + (accel - Gravity) * dt
         /\ current_state'.altitude
              = current_state.altitude + current_state'.vel_up * dt
<1> DEFINE time == elapsed(from_psas_time(at), launch_time')
<1>1. current_state' = integrate(current_state, accel, roll_rate, dt, time)
  BY Zenon DEF state_receive_imu
<1> HIDE DEF time
<1>2. current_state' =
        [time |-> time, acc_up |-> accel - Gravity,
         vel_up |-> current_state.vel_up + (accel - Gravity) * dt,
         altitude |-> current_state.altitude
                        + (current_state.vel_up + (accel - Gravity) * dt) * dt,
         roll_rate |-> -roll_rate,
         roll_angle |-> current_state.roll_angle + roll_rate * dt]
  BY <1>1, Zenon DEF integrate
<1> QED
  BY <1>2, Zenon

(* last_time is the true time of the last sample, 0 before the first, and  *)
(* what is remembered is what was sent, and the integral.                  *)
IntegralInv ==
  /\ clock > 0
  /\ last_time = IF samples = <<>> THEN 0 ELSE clock
  /\ vste.data = current_state
  /\ \A i \in 1 .. Len(samples) :
       FirstStrong(i) =>
         /\ current_state.vel_up = Speed(i)[Len(samples)]
         /\ current_state.altitude = Height(i)[Len(samples)]

(* The time the code integrates over is the time between two samples.      *)
LEMMA GapIsElapsed ==
  ASSUME MaxTime < TimeMod, TypeOK, TimeInv, IntegralInv,
         NEW accel \in Int, NEW at \in Nat, clock <= at, at <= MaxTime,
         samples' = Append(samples, [at |-> at, accel |-> accel]),
         NEW n, n = Len(samples)
  PROVE  elapsed(from_psas_time(at),
                 IF last_time = 0 THEN from_psas_time(at) ELSE last_time) = Gap(n + 1)'
<1>1. samples \in Seq(Samples) /\ clock \in Nat /\ n \in Nat
  BY DEF TypeOK, Samples
<1>2. from_psas_time(at) = at /\ at \in 0 .. TimeMod - 1 /\ clock \in 0 .. TimeMod - 1
  BY <1>1, StampFacts, Constants
<1>3. samples'[n + 1].at = at /\ \A k \in 1 .. n : samples'[k] = samples[k]
  BY <1>1, Appended
<1>4. CASE samples = <<>>
  <2>1. n + 1 = 1 /\ last_time = 0
    BY <1>4 DEF IntegralInv
  <2>2. Gap(n + 1)' = 0
    BY <2>1, Zenon DEF Gap
  <2>3. elapsed(at, at) = 0
    BY <1>2, ElapsedFacts
  <2> QED
    BY <1>2, <2>1, <2>2, <2>3
<1>5. CASE samples # <<>>
  <2>1. last_time = clock /\ last_time # 0 /\ samples[n].at = clock
    BY <1>1, <1>5 DEF IntegralInv, TimeInv
  <2>2. n \in 1 .. n /\ (n + 1) - 1 = n /\ n + 1 # 1
    BY <1>1, <1>5
  <2>3. Gap(n + 1)' = samples'[n + 1].at - samples'[n].at
    BY <2>2, Zenon DEF Gap
  <2>4. elapsed(at, clock) = at - clock
    BY <1>2, ElapsedFacts
  <2> QED
    BY <1>2, <1>3, <2>1, <2>2, <2>3, <2>4
<1> QED
  BY <1>4, <1>5

(* Before the sample that first shows it, a flight has added nothing.      *)
LEMMA NothingBefore ==
  ASSUME samples \in Seq(Samples), NEW n, n = Len(samples)
  PROVE  Speed(n + 1)[n] = 0 /\ Height(n + 1)[n] = LAUNCH_ALTITUDE
<1>1. n \in Nat /\ n + 1 \in Nat \ {0}
  OBVIOUS
<1>2. SumTypes(n + 1)
  BY <1>1, SumsAreTyped DEF AllSumTypes
<1>3. \A k \in 1 .. n : k \in Nat /\ ~InFlight(n + 1, k)
  BY <1>1 DEF InFlight
<1>4. PICK c, d : c = SpeedGained(n + 1) /\ d = HeightGained(n + 1)
  OBVIOUS
<1>5. c \in [Nat -> Int] /\ d \in [Nat -> Int]
  BY <1>2, <1>4, Zenon DEF SumTypes
<1>6. \A k \in 1 .. n : c[k] = 0
  BY <1>3, <1>4, Zenon DEF SpeedGained
<1>7. \A k \in 1 .. n : d[k] = 0
  BY <1>3, <1>4, Zenon DEF HeightGained
<1>8. 0 \in Int /\ LAUNCH_ALTITUDE \in Int
  BY Constants
<1>9. Accumulated(0, c)[n] = 0
  BY <1>1, <1>5, <1>6, <1>8, NothingAccumulated, Zenon
<1>10. Accumulated(LAUNCH_ALTITUDE, d)[n] = LAUNCH_ALTITUDE
  BY <1>1, <1>5, <1>7, <1>8, NothingAccumulated, Zenon
<1> QED
  BY <1>4, <1>9, <1>10, Zenon DEF Speed, Height

LEMMA IntegralStep ==
  ASSUME MaxTime < TimeMod, TypeOK, LatchInv, TimeInv, IntegralInv,
         NEW accel \in Int, NEW roll_rate \in Int, NEW at \in Nat,
         clock <= at, at <= MaxTime, state_receive_imu(accel, roll_rate, at)
  PROVE  IntegralInv'
<1>0. PICK n : n = Len(samples)
  OBVIOUS
<1> DEFINE dt == elapsed(from_psas_time(at),
                         IF last_time = 0 THEN from_psas_time(at) ELSE last_time)
<1>1. /\ has_launched' = (has_launched \/ is_launch(accel))
      /\ vste'.data = current_state' /\ clock' = at
      /\ ~has_launched' => current_state' = current_state
      /\ samples' = Append(samples, [at |-> at, accel |-> accel])
  BY Step
<1>2. samples \in Seq(Samples) /\ n \in Nat /\ clock \in Nat
  BY <1>0 DEF TypeOK, Samples
<1>3. /\ Len(samples') = n + 1
      /\ \A i : i = n + 1 => (Strong(i)' <=> is_launch(accel))
      /\ \A i \in 1 .. n : /\ Strong(i)' <=> Strong(i)
                           /\ FirstStrong(i)' <=> FirstStrong(i)
  BY <1>0, <1>1, <1>2, Appended
<1>4. clock' > 0
  BY <1>1, <1>2 DEF IntegralInv
<1>5. last_time' = IF samples' = <<>> THEN 0 ELSE clock'
  <2>1. last_time' = at
    BY StampFacts DEF state_receive_imu
  <2>2. samples' # <<>>
    BY <1>2, <1>3
  <2> QED
    BY <1>1, <2>1, <2>2
<1>6. dt = Gap(n + 1)'
  BY <1>0, <1>1, GapIsElapsed
<1> HIDE DEF dt
<1>7. ASSUME NEW i \in 1 .. n + 1, FirstStrong(i)'
      PROVE  /\ current_state'.vel_up = Speed(i)'[n + 1]
             /\ current_state'.altitude = Height(i)'[n + 1]
  <2>1. /\ has_launched'
        /\ current_state.vel_up = Speed(i)[n] /\ current_state.altitude = Height(i)[n]
    <3>1. CASE i \in 1 .. n
      <4>1. FirstStrong(i)
        BY <1>3, <1>7, <3>1
      <4>2. has_launched
        BY <1>0, <3>1, <4>1, Zenon DEF LatchInv, Launched, FirstStrong
      <4> QED
        BY <1>0, <1>1, <3>1, <4>1, <4>2, Zenon DEF IntegralInv
    <3>2. CASE i = n + 1
      <4>1. \A j \in 1 .. n : ~Strong(j)
        <5>1. 1 .. i - 1 = 1 .. n
          BY <1>2, <3>2
        <5> QED
          BY <1>3, <1>7, <5>1, Zenon DEF FirstStrong
      <4>2. is_launch(accel)
        BY <1>3, <1>7, <3>2, Zenon DEF FirstStrong
      <4>3. current_state = OnPad
        BY <1>0, <4>1, Zenon DEF LatchInv, Launched
      <4>4. current_state.vel_up = 0 /\ current_state.altitude = LAUNCH_ALTITUDE
        BY <4>3, Zenon DEF OnPad
      <4>5. Speed(n + 1)[n] = 0 /\ Height(n + 1)[n] = LAUNCH_ALTITUDE
        BY <1>0, <1>2, NothingBefore
      <4> QED
        BY <1>1, <3>2, <4>2, <4>4, <4>5, Zenon
    <3> QED
      BY <1>2, <1>7, <3>1, <3>2
  <2>2. /\ current_state'.vel_up = current_state.vel_up + (accel - Gravity) * dt
        /\ current_state'.altitude
             = current_state.altitude + current_state'.vel_up * dt
    BY <2>1, Integration, Zenon DEF dt
  <2>3. /\ Speed(i)'[n] = Speed(i)[n] /\ Height(i)'[n] = Height(i)[n]
        /\ Speed(i)'[n + 1] = Speed(i)'[n] + (accel - Gravity) * Gap(n + 1)'
        /\ Height(i)'[n + 1] = Height(i)'[n] + Speed(i)'[n + 1] * Gap(n + 1)'
    BY <1>0, <1>1, <1>2, <1>7, SumsAppended
  <2> QED
    BY <1>6, <2>1, <2>2, <2>3, Zenon
<1>8. \A i \in 1 .. Len(samples') :
        FirstStrong(i)' => /\ current_state'.vel_up = Speed(i)'[Len(samples')]
                           /\ current_state'.altitude = Height(i)'[Len(samples')]
  <2> SUFFICES ASSUME NEW i \in 1 .. Len(samples'), FirstStrong(i)'
               PROVE  /\ current_state'.vel_up = Speed(i)'[Len(samples')]
                      /\ current_state'.altitude = Height(i)'[Len(samples')]
    OBVIOUS
  <2>1. Len(samples') = n + 1 /\ i \in 1 .. n + 1
    BY <1>3
  <2>2. /\ current_state'.vel_up = Speed(i)'[n + 1]
        /\ current_state'.altitude = Height(i)'[n + 1]
    BY <1>7, <2>1
  <2> QED
    BY <2>1, <2>2
<1> QED
  BY <1>1, <1>4, <1>5, <1>8, Zenon DEF IntegralInv

(* The speed and altitude told to roll control are the integrals over true *)
(* time of the samples in flight, for any number of samples, however they  *)
(* are spaced, as long as the timestamp does not wrap and no sample is     *)
(* stamped 0, which the code takes for "none yet" (state.c:33).            *)
THEOREM FlightIsIntegrated ==
  ASSUME MaxTime < TimeMod, 0 \notin StartTimes
  PROVE  Spec => []IntegratesFlight
<1>1. Init => TimeInv /\ IntegralInv
  <2> SUFFICES ASSUME Init PROVE TimeInv /\ IntegralInv
    OBVIOUS
  <2>1. clock > 0
    BY StateEstimatorAssumption DEF Init
  <2>2. samples = <<>> /\ last_time = 0 /\ vste.data = current_state
    BY Zenon DEF Init
  <2>3. \A i \in 1 .. Len(samples) : FALSE
    BY <2>2
  <2> QED
    BY <2>1, <2>2, <2>3, Zenon DEF TimeInv, IntegralInv
<1>2. TypeOK /\ LatchInv /\ TimeInv /\ IntegralInv /\ [Next]_vars
        => TimeInv' /\ IntegralInv'
  <2> SUFFICES ASSUME TypeOK, LatchInv, TimeInv, IntegralInv, [Next]_vars
               PROVE  TimeInv' /\ IntegralInv'
    OBVIOUS
  <2>1. CASE Next
    BY <2>1, Arguments, FlightStep, IntegralStep
  <2>2. CASE UNCHANGED vars
    <3>1. TimeInv'
      BY <2>2, Zenon DEF vars, TimeInv, FirstStrong, Strong
    <3>2. ASSUME NEW i PROVE Speed(i)' = Speed(i) /\ Height(i)' = Height(i)
      BY <2>2, Zenon DEF vars, Speed, Height, SpeedGained, HeightGained, InFlight, Gap
    <3>3. ASSUME NEW i PROVE FirstStrong(i)' <=> FirstStrong(i)
      BY <2>2, Zenon DEF vars, FirstStrong, Strong
    <3> QED
      BY <2>2, <3>1, <3>2, <3>3, Zenon DEF vars, IntegralInv
  <2> QED
    BY <2>1, <2>2
<1>3. IntegralInv => IntegratesFlight
  BY Zenon DEF IntegralInv, IntegratesFlight
<1> QED
  BY <1>1, <1>2, <1>3, TypeCorrect, LatchHolds, PTL DEF Spec
=============================================================================
