------------------------- MODULE SystemTimeBaseProofs -------------------------
(***************************************************************************)
(* Proofs about SystemTimeBase, for every set of errors of the system      *)
(* clock, and every length of a boot and a sleep that ClocksAssumption     *)
(* allows: through changes of the system clock, sleep, kills and reboots   *)
(* the continuous clock never moves untold, and what a driver vouches for  *)
(* is true.                                                                *)
(***************************************************************************)
EXTENDS SystemTimeBase, TLAPS

-----------------------------------------------------------------------------
(* The invariant: what the process of each build keeps up. *)

\* The driver vouches for a skew it has stored for this continuous clock.
Vouched == currentTimeError < Unknown /\ deltasCurrent

\* The media clock counts while the device is awake; up to the first wake-up,
\* which announces the launch, nothing can have happened.
DualInv ==
  running =>
    /\ awake => usingAlt /\ told = alt + continuousAltOffset
    /\ firstTime => awake /\ continuousOffset = 0 /\ continuousAltOffset = system - alt
    /\ awake /\ Vouched /\ ~resetQueued => contSkew = -(alt + continuousAltOffset)

IOSInv ==
  running /\ ~changePending =>
    /\ told = system
    /\ Vouched /\ ~resetQueued => contSkew = -system

\* The boot time in the preferences is that of the present boot, and with it
\* the stored skew is right ...
StoredIsCurrent ==
  /\ \E s \in Errors : prefs.bootTime = s - alt
  /\ deltasCurrent /\ prefs.timeSkewAccuracy # 0 /\ prefs.timeSkewAccuracy # Unknown =>
       prefs.contSkew = -(alt + prefs.contAltOff)

\* ... or that of an earlier one.
StoredIsPast ==
  \E s \in Errors : \E a \in MinAlt .. 0 :
    prefs.bootTime = s - a /\ alt + RebootGap <= a

TripleInv ==
  /\ prefs.bootTime = NoBootTime \/ StoredIsCurrent \/ StoredIsPast
  /\ running => /\ StoredIsCurrent /\ prefs.contAltOff = continuousAltOffset
                /\ told = alt + continuousAltOffset
                /\ Vouched => contSkew = -(alt + continuousAltOffset)

Inv ==
  /\ TypeOK
  /\ build = "dual" => DualInv
  /\ build = "iOS" => IOSInv
  /\ build = "triple" => TripleInv

-----------------------------------------------------------------------------
(* What the cases of the model come to. *)

LEMMA ContinuousBy ==
  /\ build = "triple" => Continuous = alt + continuousAltOffset
  /\ build = "dual" /\ usingAlt => Continuous = alt + continuousAltOffset
  /\ build = "dual" /\ ~usingAlt => Continuous = system + continuousOffset
  /\ build = "iOS" => Continuous = system
<1>1. "triple" # "dual" /\ "iOS" # "triple" /\ "iOS" # "dual"
  OBVIOUS
<1> QED BY <1>1, Zenon DEF Continuous

LEMMA ContinuousByNext ==
  /\ build' = "triple" => Continuous' = alt' + continuousAltOffset'
  /\ build' = "dual" /\ usingAlt' => Continuous' = alt' + continuousAltOffset'
  /\ build' = "dual" /\ ~usingAlt' => Continuous' = system' + continuousOffset'
  /\ build' = "iOS" => Continuous' = system'
<1>1. "triple" # "dual" /\ "iOS" # "triple" /\ "iOS" # "dual"
  OBVIOUS
<1> QED BY <1>1, Zenon DEF Continuous

LEMMA ContinuousType == TypeOK => Continuous \in Int
<1> SUFFICES ASSUME TypeOK PROVE Continuous \in Int
  OBVIOUS
<1>1. /\ system \in Int /\ alt + continuousAltOffset \in Int
      /\ system + continuousOffset \in Int
  BY ClocksAssumption, SMT DEF TypeOK
<1> QED BY <1>1, Zenon DEF Continuous

\* What the process of each build starts with.
LEMMA LaunchBy ==
  ASSUME Launch
  PROVE  /\ build = "triple" => InitTripleBase
         /\ build = "dual" => InitDualBase
         /\ build = "iOS" => InitSystemBase /\ firstTime' = TRUE
         /\ build = "dual" => firstTime' = TRUE
         /\ build # "triple" /\ build # "dual" => InitSystemBase
<1>1. "triple" # "dual" /\ "iOS" # "triple" /\ "iOS" # "dual"
  OBVIOUS
<1> QED BY <1>1, Zenon DEF Launch

LEMMA NewDriverBy ==
  ASSUME NewDriver
  PROVE  /\ build = "single" => contSkew' = 0
         /\ build # "single" /\ StableAtStart => contSkew' = prefs.contSkew
         /\ build # "single" /\ ~StableAtStart =>
              contSkew' = prefs.timeSkew - continuousOffset'
         /\ StableAtStart /\ prefs.timeSkewAccuracy # 0 =>
              currentTimeError' = prefs.timeSkewAccuracy
         /\ ~StableAtStart \/ prefs.timeSkewAccuracy = 0 => currentTimeError' = Unknown
<1>1. contSkew' = CASE build = "single" -> 0
                    [] StableAtStart    -> prefs.contSkew
                    [] OTHER            -> prefs.timeSkew - continuousOffset'
  BY DEF NewDriver
<1>2. currentTimeError' = IF StableAtStart /\ prefs.timeSkewAccuracy # 0
                          THEN prefs.timeSkewAccuracy ELSE Unknown
  BY DEF NewDriver
<1>3. build = "single" => ~StableAtStart
  <2>1. "single" # "triple"
    OBVIOUS
  <2> QED BY <2>1 DEF StableAtStart
<1>4. CASE build = "single"
  BY <1>1, <1>2, <1>3, <1>4, Zenon
<1>5. CASE build # "single" /\ StableAtStart
  BY <1>1, <1>2, <1>5, Zenon
<1>6. CASE build # "single" /\ ~StableAtStart
  BY <1>1, <1>2, <1>6, Zenon
<1> QED BY <1>4, <1>5, <1>6

\* A set of preferences with some of them stored anew.
LEMMA StoredBoot ==
  ASSUME NEW p \in Prefs, NEW boot \in Int,
         NEW q, q = [p EXCEPT !.contAltOff = boot, !.bootTime = boot]
  PROVE  /\ q \in Prefs /\ q.contAltOff = boot /\ q.bootTime = boot
  BY Zenon DEF Prefs

LEMMA StoredSkew ==
  ASSUME NEW p \in Prefs, NEW a \in Int, NEW e \in 0 .. Unknown, NEW k \in Int
  PROVE  [p EXCEPT !.timeSkew = a, !.timeSkewAccuracy = e, !.contSkew = k] \in Prefs
  BY Zenon DEF Prefs

LEMMA StoredTime ==
  ASSUME NEW p \in Prefs, NEW a \in Int, NEW q, q = [p EXCEPT !.timeSkew = a]
  PROVE  /\ q \in Prefs /\ q.timeSkewAccuracy = p.timeSkewAccuracy /\ q.contSkew = p.contSkew
         /\ q.bootTime = p.bootTime /\ q.contAltOff = p.contAltOff
  BY SMT DEF Prefs

-----------------------------------------------------------------------------
(* Types. *)

LEMMA Numbers ==
  ASSUME TypeOK
  PROVE  /\ system \in Int /\ alt \in Int /\ continuousOffset \in Int
         /\ continuousAltOffset \in Int /\ contSkew \in Int /\ told \in Int
         /\ currentTimeError \in Int /\ AltOffset \in Int /\ MinAlt \in Int
         /\ prefs.timeSkew \in Int /\ prefs.contSkew \in Int /\ prefs.bootTime \in Int
         /\ prefs.contAltOff \in Int /\ prefs.timeSkewAccuracy \in 0 .. Unknown
  BY ClocksAssumption, ClaimAssumption, SMT DEF TypeOK, Prefs, AltOffset

LEMMA InitType == Init => TypeOK
<1> SUFFICES ASSUME Init PROVE TypeOK
  OBVIOUS
<1>1. 0 \in MinAlt .. 0 /\ Unknown \in 1 .. Unknown /\ 0 \in 0 .. Unknown /\ 0 \in Int
      /\ NoBootTime \in Int
  BY ClocksAssumption, ClaimAssumption, SMT
<1>2. prefs \in Prefs
  BY <1>1, Zenon DEF Init, Prefs
<1> QED BY <1>1, <1>2, Zenon DEF Init, TypeOK

LEMMA LaunchType == ASSUME TypeOK, Launch PROVE TypeOK'
<1>1. /\ continuousOffset' \in Int /\ continuousAltOffset' \in Int
      /\ prefs' \in Prefs
  <2>1. CASE build = "triple"
    <3>1. InitTripleBase
      BY <2>1, LaunchBy
    <3>2. AltOffset \in Int /\ prefs.contAltOff \in Int /\ prefs \in Prefs
      BY Numbers DEF TypeOK
    <3>3. CASE StableAtStart
      BY <3>1, <3>2, <3>3, SMT DEF InitTripleBase
    <3>4. CASE ~StableAtStart
      <4>1. /\ prefs' = [prefs EXCEPT !.contAltOff = AltOffset, !.bootTime = AltOffset]
            /\ continuousAltOffset' = AltOffset
            /\ continuousOffset' = continuousAltOffset' - AltOffset
        BY <3>1, <3>4, Zenon DEF InitTripleBase
      <4>2. prefs' \in Prefs
        BY <4>1, <3>2, StoredBoot, Zenon
      <4> QED BY <4>1, <4>2, <3>2, SMT
    <3> QED BY <3>3, <3>4
  <2>2. CASE build = "dual"
    BY <2>2, LaunchBy, Numbers, SMT DEF InitDualBase, TypeOK
  <2>3. CASE build # "triple" /\ build # "dual"
    BY <2>3, LaunchBy, SMT DEF InitSystemBase, TypeOK
  <2> QED BY <2>1, <2>2, <2>3
<1>2. usingAlt' \in BOOLEAN /\ deltasCurrent' \in BOOLEAN
  <2>1. CASE build = "triple"
    BY <2>1, LaunchBy, Zenon DEF InitTripleBase, TypeOK
  <2>2. CASE build = "dual"
    BY <2>2, LaunchBy, Zenon DEF InitDualBase, TypeOK
  <2>3. CASE build # "triple" /\ build # "dual"
    BY <2>3, LaunchBy, Zenon DEF InitSystemBase, TypeOK
  <2> QED BY <2>1, <2>2, <2>3
<1>3. contSkew' \in Int /\ currentTimeError' \in 1 .. Unknown
  <2>1. NewDriver
    BY DEF Launch
  <2>2. prefs.timeSkew - continuousOffset' \in Int /\ prefs.contSkew \in Int /\ 0 \in Int
        /\ Unknown \in 1 .. Unknown
        /\ (prefs.timeSkewAccuracy # 0 => prefs.timeSkewAccuracy \in 1 .. Unknown)
    BY <1>1, Numbers, ClaimAssumption, SMT
  <2> QED BY <2>1, <2>2, NewDriverBy, Zenon
<1>4. firstTime' \in BOOLEAN /\ running' \in BOOLEAN
  <2>1. CASE build \in {"dual", "iOS"}
    BY <2>1, Zenon DEF Launch
  <2>2. CASE build \notin {"dual", "iOS"}
    BY <2>2, SMT DEF Launch
  <2> QED BY <2>1, <2>2
<1>5. UNCHANGED <<build, system, alt, awake, changePending, resetQueued>> /\ told' = Continuous'
  BY DEF Launch, deviceVars
<1>6. told' \in Int
  <2>1. build' \in Builds /\ system' \in Errors /\ alt' \in MinAlt .. 0
    BY <1>5 DEF TypeOK
  <2>2. /\ system' \in Int /\ alt' + continuousAltOffset' \in Int
        /\ system' + continuousOffset' \in Int
    BY <1>1, <2>1, ClocksAssumption, SMT
  <2> QED BY <1>5, <2>2, Zenon DEF Continuous
<1> QED BY <1>1, <1>2, <1>3, <1>4, <1>5, <1>6, Zenon DEF TypeOK

LEMMA KillType == ASSUME TypeOK, Kill PROVE TypeOK'
<1>1. 0 \in Int /\ Unknown \in 1 .. Unknown
  BY ClaimAssumption, SMT
<1> QED BY <1>1, Zenon DEF Kill, TypeOK, deviceVars

LEMMA DeviceType ==
  ASSUME TypeOK, SystemClockSet \/ AltStands \/ SleepsOrWakesAlone \/ Reboot
  PROVE  TypeOK'
<1> USE DEF TypeOK, baseVars, driverVars
<1>1. CASE SystemClockSet
  BY <1>1, Zenon DEF SystemClockSet
<1>2. CASE AltStands
  <2>1. alt' \in MinAlt .. 0
    BY <1>2, ClocksAssumption, SMT DEF AltStands
  <2> QED BY <1>2, <2>1, Zenon DEF AltStands
<1>3. CASE SleepsOrWakesAlone
  BY <1>3, Zenon DEF SleepsOrWakesAlone
<1>4. CASE Reboot
  <2>1. alt' \in MinAlt .. 0
    BY <1>4, ClocksAssumption, SMT DEF Reboot
  <2> QED BY <1>4, <2>1, Zenon DEF Reboot
<1> QED BY <1>1, <1>2, <1>3, <1>4

\* The next value of the offset to the system time, and of the stored skew.
LEMMA OffsetType == ASSUME TypeOK, OffsetFromAlt PROVE continuousOffset' \in Int
  BY Numbers, SMT DEF OffsetFromAlt

LEMMA StoreType ==
  ASSUME TypeOK, NotifyContinuousOffsetChange, continuousOffset' \in Int PROVE prefs' \in Prefs
<1>1. contSkew + continuousOffset' \in Int
  BY Numbers, SMT
<1>2. prefs \in Prefs
  BY DEF TypeOK
<1> QED BY <1>1, <1>2, StoredTime DEF NotifyContinuousOffsetChange

\* What the time base hears keeps its numbers numbers.
LEMMA BaseType ==
  ASSUME TypeOK, build' = build, system' = system, alt' = alt,
         continuousOffset' \in Int, continuousAltOffset' \in Int,
         ContinuousTimeReset \/ NoReset
  PROVE  told' \in Int /\ resetQueued' \in BOOLEAN
<1>1. CASE NoReset
  BY <1>1 DEF NoReset, TypeOK
<1>2. CASE ContinuousTimeReset
  <2>1. /\ system' \in Int /\ alt' + continuousAltOffset' \in Int
        /\ system' + continuousOffset' \in Int
    BY Numbers, SMT
  <2> QED BY <1>2, <2>1, Zenon DEF Continuous, ContinuousTimeReset
<1> QED BY <1>1, <1>2

LEMMA SystemBaseChangeType == ASSUME TypeOK, SystemBaseChange PROVE TypeOK'
<1>0. /\ UNCHANGED <<build, system, alt, awake, running, contSkew, currentTimeError,
                     deltasCurrent>>
      /\ changePending' = FALSE
  BY DEF SystemBaseChange, deviceVars, driverVars
<1> SUFFICES /\ UNCHANGED <<firstTime, usingAlt, continuousAltOffset>>
             /\ continuousOffset' \in Int /\ prefs' \in Prefs
             /\ ContinuousTimeReset \/ NoReset
  <2>1. ASSUME continuousOffset' \in Int, ContinuousTimeReset \/ NoReset,
               continuousAltOffset' = continuousAltOffset
        PROVE  told' \in Int /\ resetQueued' \in BOOLEAN
    BY <1>0, <2>1, BaseType DEF TypeOK
  <2> QED BY <1>0, <2>1, Zenon DEF TypeOK
<1>1. CASE SystemBaseChangeTriple
  BY <1>1, OffsetType, StoreType DEF SystemBaseChangeTriple
<1>2. CASE SystemBaseChangeDual
  <2>1. CASE usingAlt
    BY <1>2, <2>1, OffsetType, StoreType DEF SystemBaseChangeDual
  <2>2. CASE ~usingAlt
    BY <1>2, <2>2 DEF SystemBaseChangeDual, TypeOK
  <2> QED BY <2>1, <2>2
<1>3. CASE SystemBaseChangeIOS
  BY <1>3 DEF SystemBaseChangeIOS, TypeOK, baseVars
<1>4. CASE SystemBaseChangeSingle
  BY <1>4 DEF SystemBaseChangeSingle, TypeOK, baseVars
<1> QED BY <1>1, <1>2, <1>3, <1>4 DEF SystemBaseChange

LEMMA GoingToSleepType == ASSUME TypeOK, GoingToSleep PROVE TypeOK'
<1>1. continuousOffset' \in Int /\ usingAlt' \in BOOLEAN
  <2>1. CASE build = "dual"
    BY <2>1, OffsetType DEF GoingToSleep
  <2>2. CASE build # "dual"
    BY <2>2 DEF GoingToSleep, TypeOK
  <2> QED BY <2>1, <2>2
<1> QED BY <1>1, Zenon DEF GoingToSleep, TypeOK, driverVars

LEMMA WakingUpType == ASSUME TypeOK, WakingUp PROVE TypeOK'
<1>0. /\ UNCHANGED <<build, system, alt, changePending, running, contSkew,
                     currentTimeError, deltasCurrent>>
      /\ awake' = TRUE
  BY DEF WakingUp, driverVars
<1> SUFFICES /\ firstTime' \in BOOLEAN /\ usingAlt' \in BOOLEAN
             /\ continuousOffset' \in Int /\ continuousAltOffset' \in Int
             /\ prefs' \in Prefs
             /\ ContinuousTimeReset \/ NoReset
  <2>1. ASSUME continuousOffset' \in Int, ContinuousTimeReset \/ NoReset,
               continuousAltOffset' \in Int
        PROVE  told' \in Int /\ resetQueued' \in BOOLEAN
    BY <1>0, <2>1, BaseType
  <2> QED BY <1>0, <2>1, Zenon DEF TypeOK
<1>1. CASE WakingUpTriple
  BY <1>1, OffsetType, StoreType DEF WakingUpTriple, TypeOK
<1>2. CASE WakingUpDual
  <2>1. continuousAltOffset' \in Int
    BY <1>2, Numbers, SMT DEF WakingUpDual
  <2> QED BY <1>2, <2>1, Zenon DEF WakingUpDual, TypeOK
<1>3. CASE WakingUpIOS
  BY <1>3, Zenon DEF WakingUpIOS, TypeOK
<1>4. CASE WakingUpSingle
  BY <1>4, Zenon DEF WakingUpSingle, TypeOK, baseVars
<1> QED BY <1>1, <1>2, <1>3, <1>4 DEF WakingUp

\* A skew is stored with its error, or was before.
LEMMA SetContSkewBy ==
  ASSUME TypeOK, NEW skew \in Int, NEW error \in 1 .. Unknown, SetContSkew(skew, error)
  PROVE  /\ contSkew' = skew /\ currentTimeError' = error
         /\ \/ UNCHANGED <<prefs, deltasCurrent>> /\ skew = contSkew
               /\ error = currentTimeError
            \/ /\ deltasCurrent' = TRUE
               /\ prefs'.timeSkewAccuracy = error /\ prefs'.contSkew = skew
               /\ prefs'.bootTime = prefs.bootTime /\ prefs'.contAltOff = prefs.contAltOff
         /\ prefs' \in Prefs /\ deltasCurrent' \in BOOLEAN
<1>1. CASE skew = contSkew /\ error = currentTimeError
  BY <1>1, Zenon DEF SetContSkew, driverVars, TypeOK
<1>2. CASE ~(skew = contSkew /\ error = currentTimeError)
  <2>1. /\ contSkew' = skew /\ currentTimeError' = error /\ deltasCurrent' = TRUE
        /\ prefs' = [prefs EXCEPT !.timeSkew = skew + continuousOffset,
                                  !.timeSkewAccuracy = error, !.contSkew = skew]
    BY <1>2, Zenon DEF SetContSkew
  <2>2. prefs \in Prefs /\ skew + continuousOffset \in Int /\ error \in 0 .. Unknown
    BY Numbers, SMT DEF TypeOK
  <2>3. /\ prefs'.timeSkewAccuracy = error /\ prefs'.contSkew = skew
        /\ prefs'.bootTime = prefs.bootTime /\ prefs'.contAltOff = prefs.contAltOff
        /\ prefs' \in Prefs
    <3>1. PICK q : q = prefs'
      OBVIOUS
    <3>2. q = [prefs EXCEPT !.timeSkew = skew + continuousOffset,
                            !.timeSkewAccuracy = error, !.contSkew = skew]
      BY <2>1, <3>1
    <3>3. skew \in Int
      OBVIOUS
    <3>4. q \in Prefs
      <4>1. [prefs EXCEPT !.timeSkew = skew + continuousOffset,
                          !.timeSkewAccuracy = error, !.contSkew = skew] \in Prefs
        BY ONLY <2>2, <3>3, StoredSkew
      <4> QED BY <3>2, <4>1
    <3>5. /\ q.timeSkewAccuracy = error /\ q.contSkew = skew
          /\ q.bootTime = prefs.bootTime /\ q.contAltOff = prefs.contAltOff
      BY <2>2, <3>2, Zenon DEF Prefs
    <3> QED BY <3>1, <3>4, <3>5
  <2> QED BY <2>1, <2>3, Zenon
<1> QED BY <1>1, <1>2

LEMMA DriverType == ASSUME TypeOK, Synchronize \/ StartSyncing PROVE TypeOK'
<1>1. CASE Synchronize
  <2>1. -Continuous \in Int /\ Accurate \in 1 .. Unknown
    <3>1. Continuous \in Int
      BY ContinuousType
    <3> QED BY <3>1, ClaimAssumption, SMT
  <2>2. SetContSkew(-Continuous, Accurate)
    BY <1>1 DEF Synchronize
  <2>3. contSkew' \in Int /\ currentTimeError' \in 1 .. Unknown
        /\ prefs' \in Prefs /\ deltasCurrent' \in BOOLEAN
    BY <2>1, <2>2, SetContSkewBy
  <2> QED BY <1>1, <2>3, Zenon DEF Synchronize, TypeOK, deviceVars, baseVars
<1>2. CASE StartSyncing
  <2>1. contSkew \in Int /\ Unknown \in 1 .. Unknown
    BY ClaimAssumption, SMT DEF TypeOK
  <2>2. SetContSkew(contSkew, Unknown)
    BY <1>2 DEF StartSyncing
  <2>3. contSkew' \in Int /\ currentTimeError' \in 1 .. Unknown
        /\ prefs' \in Prefs /\ deltasCurrent' \in BOOLEAN
    BY <2>1, <2>2, SetContSkewBy
  <2> QED BY <1>2, <2>3, Zenon DEF StartSyncing, TypeOK, deviceVars, baseVars
<1> QED BY <1>1, <1>2

LEMMA NextType == TypeOK /\ Next => TypeOK'
  BY LaunchType, KillType, DeviceType, SystemBaseChangeType, GoingToSleepType,
     WakingUpType, DriverType DEF Next

-----------------------------------------------------------------------------
(* The steps, build by build. *)

LEMMA NotVouched ==
  /\ currentTimeError' = Unknown => ~Vouched'
  /\ deltasCurrent' = FALSE => ~Vouched'
<1>1. ~(Unknown < Unknown)
  BY ClaimAssumption, SMT
<1> QED BY <1>1, Zenon DEF Vouched

LEMMA BuildKept == Next => build' = build
  BY DEF Next, Launch, Kill, SystemClockSet, AltStands, SleepsOrWakesAlone, Reboot,
     SystemBaseChange, GoingToSleep, WakingUp, Synchronize, StartSyncing

\* What a driver's step leaves alone.
LEMMA DriverKeeps ==
  ASSUME Synchronize \/ StartSyncing
  PROVE  UNCHANGED <<build, system, alt, awake, changePending, running, firstTime,
                     usingAlt, continuousOffset, continuousAltOffset, told>>
  BY DEF Synchronize, StartSyncing, deviceVars, baseVars

LEMMA SynchronizeBy ==
  ASSUME TypeOK, Synchronize
  PROVE  /\ running /\ awake /\ contSkew' = -Continuous /\ resetQueued' = resetQueued
         /\ currentTimeError' = Accurate
         /\ \/ UNCHANGED <<prefs, deltasCurrent>>
            \/ /\ prefs'.timeSkewAccuracy = Accurate /\ prefs'.contSkew = -Continuous
               /\ prefs'.bootTime = prefs.bootTime /\ prefs'.contAltOff = prefs.contAltOff
<1>1. -Continuous \in Int /\ Accurate \in 1 .. Unknown
  <2>1. Continuous \in Int
    BY ContinuousType
  <2> QED BY <2>1, ClaimAssumption, SMT
<1>2. SetContSkew(-Continuous, Accurate) /\ running /\ awake /\ resetQueued' = resetQueued
  BY DEF Synchronize
<1> QED BY <1>1, <1>2, SetContSkewBy

LEMMA StartSyncingBy ==
  ASSUME TypeOK, StartSyncing
  PROVE  /\ running /\ contSkew' = contSkew /\ currentTimeError' = Unknown
         /\ \/ UNCHANGED <<prefs, deltasCurrent>>
            \/ /\ prefs'.timeSkewAccuracy = Unknown
               /\ prefs'.bootTime = prefs.bootTime /\ prefs'.contAltOff = prefs.contAltOff
<1>1. contSkew \in Int /\ Unknown \in 1 .. Unknown
  BY ClaimAssumption, SMT DEF TypeOK
<1>2. SetContSkew(contSkew, Unknown) /\ running
  BY DEF StartSyncing
<1> QED BY <1>1, <1>2, SetContSkewBy

\* Nothing of the sort happens to a process that does not run.
LEMMA AloneBy ==
  ASSUME SleepsOrWakesAlone \/ Reboot
  PROVE  ~running /\ running' = running
  BY DEF SleepsOrWakesAlone, Reboot

LEMMA DualStep == ASSUME TypeOK, DualInv, build = "dual", Next PROVE DualInv'
<1>b. build # "triple" /\ build # "iOS" /\ build # "single"
  OBVIOUS
<1>1. CASE Launch
  <2>1. InitDualBase /\ firstTime' = TRUE
    BY <1>1, LaunchBy
  <2>2. /\ UNCHANGED <<build, system, alt, awake>> /\ awake /\ told' = Continuous'
    BY <1>1 DEF Launch, deviceVars
  <2>3. usingAlt' = TRUE /\ continuousOffset' = 0 /\ deltasCurrent' = FALSE
        /\ continuousAltOffset' = system' - alt'
    BY <2>1, <2>2, Zenon DEF InitDualBase, AltOffset
  <2>4. told' = alt' + continuousAltOffset'
    BY <2>2, <2>3, ContinuousByNext
  <2>5. ~Vouched'
    BY <2>3, NotVouched
  <2> QED BY <2>1, <2>2, <2>3, <2>4, <2>5, Zenon DEF DualInv
<1>2. CASE Kill
  BY <1>2, Zenon DEF Kill, DualInv
<1>3. CASE SystemClockSet
  <2>1. /\ UNCHANGED <<build, alt, awake, running, firstTime, usingAlt, continuousOffset,
                       continuousAltOffset, contSkew, currentTimeError, resetQueued, told,
                       deltasCurrent>>
        /\ running => ~firstTime
    BY <1>3 DEF SystemClockSet, baseVars, driverVars
  <2> QED BY <2>1, Zenon DEF DualInv, Vouched
<1>4. CASE AltStands
  <2>1. /\ UNCHANGED <<build, awake, running, firstTime>> /\ ~awake
    BY <1>4 DEF AltStands, baseVars
  <2> QED BY <2>1, Zenon DEF DualInv
<1>5. CASE SleepsOrWakesAlone \/ Reboot
  BY <1>5, AloneBy, Zenon DEF DualInv
<1>6. CASE SystemBaseChange
  <2>1. SystemBaseChangeDual
    BY <1>6, <1>b, Zenon DEF SystemBaseChange, SystemBaseChangeTriple, SystemBaseChangeIOS,
       SystemBaseChangeSingle
  <2>2. /\ UNCHANGED <<build, system, alt, awake, running, contSkew, currentTimeError,
                       deltasCurrent, firstTime, usingAlt, continuousAltOffset, resetQueued,
                       told>>
    BY <1>6, <2>1 DEF SystemBaseChange, SystemBaseChangeDual, NoReset, deviceVars, driverVars
  <2>3. \/ continuousOffset' = continuousAltOffset - (system - alt)
        \/ continuousOffset' = continuousOffset
    BY <2>1, Zenon DEF SystemBaseChangeDual, OffsetFromAlt, AltOffset
  <2>4. continuousAltOffset = system - alt /\ continuousOffset = 0 => continuousOffset' = 0
    BY <2>3, Numbers, SMT
  <2> QED BY <2>2, <2>4, Zenon DEF DualInv, Vouched
<1>7. CASE GoingToSleep
  <2>1. awake' = FALSE /\ firstTime' = firstTime /\ ~firstTime
    BY <1>7 DEF GoingToSleep
  <2> QED BY <2>1, Zenon DEF DualInv
<1>8. CASE WakingUp
  <2>1. WakingUpDual
    BY <1>8, <1>b, Zenon DEF WakingUp, WakingUpTriple, WakingUpIOS, WakingUpSingle
  <2>2. /\ UNCHANGED <<build, system, alt, running, contSkew, currentTimeError,
                       deltasCurrent>>
        /\ running
    BY <1>8 DEF WakingUp, driverVars
  <2>3. usingAlt' = TRUE /\ firstTime' = FALSE
        /\ continuousAltOffset' = continuousOffset + (system - alt)
    BY <2>1, Zenon DEF WakingUpDual, AltOffset
  <2>4. CASE firstTime
    <3>1. awake /\ continuousOffset = 0 /\ continuousAltOffset = system - alt
      BY <2>2, <2>4, Zenon DEF DualInv
    <3>2. continuousAltOffset' = continuousAltOffset
      BY <2>3, <3>1, Numbers, SMT
    <3>3. UNCHANGED <<told, resetQueued>>
      BY <2>1, <2>4 DEF WakingUpDual, NoReset
    <3> QED BY <2>2, <2>3, <3>1, <3>2, <3>3, Zenon DEF DualInv, Vouched
  <2>5. CASE ~firstTime
    <3>1. resetQueued' = TRUE /\ told' = Continuous'
      BY <2>1, <2>5, Zenon DEF WakingUpDual, ContinuousTimeReset
    <3>2. told' = alt' + continuousAltOffset'
      BY <2>2, <2>3, <3>1, ContinuousByNext
    <3> QED BY <2>3, <3>1, <3>2, Zenon DEF DualInv
  <2> QED BY <2>4, <2>5
<1>9. CASE Synchronize
  <2>1. running /\ awake /\ contSkew' = -Continuous
    BY <1>9, SynchronizeBy
  <2>2. Continuous = alt + continuousAltOffset
    BY <2>1, ContinuousBy DEF DualInv
  <2> QED BY <1>9, <2>1, <2>2, DriverKeeps, Zenon DEF DualInv
<1>10. CASE StartSyncing
  <2>1. ~Vouched'
    BY <1>10, StartSyncingBy, NotVouched
  <2> QED BY <1>10, <2>1, DriverKeeps, Zenon DEF DualInv
<1> QED BY <1>1, <1>2, <1>3, <1>4, <1>5, <1>6, <1>7, <1>8, <1>9, <1>10 DEF Next

LEMMA IOSStep == ASSUME TypeOK, IOSInv, build = "iOS", Next PROVE IOSInv'
<1>b. build # "triple" /\ build # "dual" /\ build # "single"
  OBVIOUS
<1>1. CASE Launch
  <2>1. InitSystemBase
    BY <1>1, <1>b, LaunchBy
  <2>2. UNCHANGED <<build, system>> /\ told' = Continuous'
    BY <1>1 DEF Launch, deviceVars
  <2>3. told' = system'
    BY <2>2, ContinuousByNext
  <2>4. ~Vouched'
    BY <2>1, NotVouched DEF InitSystemBase
  <2> QED BY <2>3, <2>4, Zenon DEF IOSInv
<1>2. CASE Kill
  BY <1>2, Zenon DEF Kill, IOSInv
<1>3. CASE SystemClockSet
  <2>1. changePending' = running /\ running' = running
    BY <1>3 DEF SystemClockSet
  <2>2. ~(running' /\ ~changePending')
    BY <2>1, Zenon
  <2> QED BY <2>2, Zenon DEF IOSInv
<1>4. CASE AltStands
  BY <1>4, <1>b, Zenon DEF AltStands
<1>5. CASE SleepsOrWakesAlone \/ Reboot
  BY <1>5, AloneBy, Zenon DEF IOSInv
<1>6. CASE SystemBaseChange
  <2>1. SystemBaseChangeIOS
    BY <1>6, <1>b, Zenon DEF SystemBaseChange, SystemBaseChangeTriple, SystemBaseChangeDual,
       SystemBaseChangeSingle
  <2>2. resetQueued' = TRUE /\ told' = Continuous'
    BY <2>1, Zenon DEF SystemBaseChangeIOS, ContinuousTimeReset
  <2>3. build' = build
    BY <1>6 DEF SystemBaseChange
  <2>4. told' = system'
    BY <2>2, <2>3, ContinuousByNext
  <2> QED BY <2>2, <2>4, Zenon DEF IOSInv
<1>7. CASE GoingToSleep
  <2>1. UNCHANGED <<system, changePending, running, contSkew, currentTimeError,
                    deltasCurrent, resetQueued, told>>
    BY <1>7 DEF GoingToSleep, driverVars
  <2> QED BY <2>1, Zenon DEF IOSInv, Vouched
<1>8. CASE WakingUp
  <2>1. WakingUpIOS
    BY <1>8, <1>b, Zenon DEF WakingUp, WakingUpTriple, WakingUpDual, WakingUpSingle
  <2>2. UNCHANGED <<build, system, changePending, running, contSkew, currentTimeError,
                    deltasCurrent>>
    BY <1>8 DEF WakingUp, driverVars
  <2>3. CASE firstTime
    <3>1. UNCHANGED <<told, resetQueued>>
      BY <2>1, <2>3 DEF WakingUpIOS, NoReset
    <3> QED BY <2>2, <3>1, Zenon DEF IOSInv, Vouched
  <2>4. CASE ~firstTime
    <3>1. resetQueued' = TRUE /\ told' = Continuous'
      BY <2>1, <2>4, Zenon DEF WakingUpIOS, ContinuousTimeReset
    <3>2. told' = system'
      BY <2>2, <3>1, ContinuousByNext
    <3> QED BY <3>1, <3>2, Zenon DEF IOSInv
  <2> QED BY <2>3, <2>4
<1>9. CASE Synchronize
  <2>1. contSkew' = -system
    BY <1>9, SynchronizeBy, ContinuousBy
  <2> QED BY <1>9, <2>1, DriverKeeps, Zenon DEF IOSInv
<1>10. CASE StartSyncing
  <2>1. ~Vouched'
    BY <1>10, StartSyncingBy, NotVouched
  <2> QED BY <1>10, <2>1, DriverKeeps, Zenon DEF IOSInv
<1> QED BY <1>1, <1>2, <1>3, <1>4, <1>5, <1>6, <1>7, <1>8, <1>9, <1>10 DEF Next

-----------------------------------------------------------------------------
(* The triple base, and what it finds in the preferences. *)

\* The boot time of an earlier boot, or none at all, is not near.
LEMMA NearIsCurrent ==
  ASSUME TypeOK, TripleInv, StableAtStart PROVE StoredIsCurrent
<1>1. PICK sys \in Errors, al \in MinAlt .. 0, bt \in Int :
        sys = system /\ al = alt /\ bt = prefs.bootTime
  BY Numbers DEF TypeOK
<1>2. (sys - al) - bt < MaxBootTime /\ bt - (sys - al) < MaxBootTime
  BY <1>1, Zenon DEF StableAtStart, Near, AltOffset
<1>3. bt # NoBootTime
  <2>1. sys - al - NoBootTime >= MaxBootTime \/ NoBootTime - (sys - al) >= MaxBootTime
    BY ClocksAssumption
  <2>2. sys \in Int /\ al \in Int /\ NoBootTime \in Int /\ MaxBootTime \in Int
    BY ClocksAssumption, SMT
  <2> QED BY <1>2, <2>1, <2>2, SMT
<1>4. ~StoredIsPast
  <2> SUFFICES ASSUME NEW s \in Errors, NEW a \in MinAlt .. 0,
                      bt = s - a, al + RebootGap <= a
               PROVE  FALSE
    BY <1>1, Zenon DEF StoredIsPast
  <2>1. s - sys + MaxBootTime <= RebootGap
    BY ClocksAssumption
  <2>2. sys \in Int /\ s \in Int /\ RebootGap \in Int /\ MaxBootTime \in Int
        /\ al \in Int /\ a \in Int
    BY ClocksAssumption, SMT
  <2> QED BY <1>2, <2>1, <2>2, SMT
<1> QED BY <1>1, <1>3, <1>4, Zenon DEF TripleInv

LEMMA StoredKept ==
  ASSUME alt' = alt, deltasCurrent' = deltasCurrent,
         prefs'.timeSkewAccuracy = prefs.timeSkewAccuracy, prefs'.contSkew = prefs.contSkew,
         prefs'.bootTime = prefs.bootTime, prefs'.contAltOff = prefs.contAltOff
  PROVE  /\ StoredIsCurrent => StoredIsCurrent'
         /\ StoredIsPast => StoredIsPast'
  BY Zenon DEF StoredIsCurrent, StoredIsPast

\* A step that keeps the process's clock and its skew.
LEMMA TripleKept ==
  ASSUME TripleInv, UNCHANGED <<alt, deltasCurrent, continuousAltOffset, told, contSkew,
                                currentTimeError>>,
         running' => running,
         prefs'.timeSkewAccuracy = prefs.timeSkewAccuracy, prefs'.contSkew = prefs.contSkew,
         prefs'.bootTime = prefs.bootTime, prefs'.contAltOff = prefs.contAltOff
  PROVE  TripleInv'
  BY StoredKept, Zenon DEF TripleInv, Vouched

\* What the change of the offset to the system time stores.
LEMMA NotifyKeeps ==
  ASSUME TypeOK, OffsetFromAlt, NotifyContinuousOffsetChange
  PROVE  /\ prefs'.timeSkewAccuracy = prefs.timeSkewAccuracy
         /\ prefs'.contSkew = prefs.contSkew
         /\ prefs'.bootTime = prefs.bootTime /\ prefs'.contAltOff = prefs.contAltOff
<1>1. contSkew + continuousOffset' \in Int
  BY Numbers, OffsetType, SMT
<1>2. prefs \in Prefs
  BY DEF TypeOK
<1> QED BY <1>1, <1>2, StoredTime DEF NotifyContinuousOffsetChange

LEMMA TripleLaunch ==
  ASSUME TypeOK, TripleInv, build = "triple", Launch PROVE TripleInv'
<1>b. build # "single"
  OBVIOUS
<1>1. InitTripleBase /\ NewDriver
  BY LaunchBy DEF Launch
<1>2. UNCHANGED <<build, system, alt>> /\ told' = Continuous'
  BY DEF Launch, deviceVars
<1>3. told' = alt' + continuousAltOffset'
  BY <1>2, ContinuousByNext
<1>4. CASE StableAtStart
  <2>1. continuousAltOffset' = prefs.contAltOff /\ UNCHANGED <<prefs, deltasCurrent>>
    BY <1>1, <1>4, Zenon DEF InitTripleBase
  <2>2. StoredIsCurrent /\ StoredIsCurrent'
    BY <1>2, <1>4, <2>1, NearIsCurrent, StoredKept
  <2>3. contSkew' = prefs.contSkew
    BY <1>1, <1>4, <1>b, NewDriverBy
  <2>4. Vouched' => contSkew' = -(alt' + continuousAltOffset')
    <3> SUFFICES ASSUME Vouched' PROVE contSkew' = -(alt' + continuousAltOffset')
      OBVIOUS
    <3>1. currentTimeError' # Unknown /\ deltasCurrent
      BY <2>1, NotVouched DEF Vouched
    <3>2. prefs.timeSkewAccuracy # 0 /\ prefs.timeSkewAccuracy # Unknown
      BY <1>1, <1>4, <3>1, NewDriverBy
    <3>3. prefs.contSkew = -(alt + prefs.contAltOff)
      BY <2>2, <3>1, <3>2, Zenon DEF StoredIsCurrent
    <3> QED BY <1>2, <2>1, <2>3, <3>3, Zenon
  <2> QED BY <1>3, <2>1, <2>2, <2>4, Zenon DEF TripleInv
<1>5. CASE ~StableAtStart
  <2>1. /\ continuousAltOffset' = AltOffset /\ deltasCurrent' = FALSE
        /\ prefs' = [prefs EXCEPT !.contAltOff = AltOffset, !.bootTime = AltOffset]
    BY <1>1, <1>5, Zenon DEF InitTripleBase
  <2>2. AltOffset \in Int /\ prefs \in Prefs /\ system \in Errors
    BY Numbers DEF TypeOK
  <2>3. prefs'.contAltOff = AltOffset /\ prefs'.bootTime = AltOffset
    <3>1. PICK q : q = prefs'
      OBVIOUS
    <3>2. q.contAltOff = AltOffset /\ q.bootTime = AltOffset
      BY <2>1, <2>2, <3>1, StoredBoot
    <3> QED BY <3>1, <3>2
  <2>4. prefs'.bootTime = system - alt'
    BY <1>2, <2>3, Zenon DEF AltOffset
  <2>5. StoredIsCurrent'
    BY <2>1, <2>2, <2>4, Zenon DEF StoredIsCurrent
  <2>6. ~Vouched'
    BY <2>1, NotVouched
  <2> QED BY <1>3, <2>1, <2>3, <2>5, <2>6, Zenon DEF TripleInv
<1> QED BY <1>4, <1>5

LEMMA TripleReboot == ASSUME TypeOK, TripleInv, Reboot PROVE TripleInv'
<1>1. ~running /\ running' = running /\ prefs' = prefs /\ alt' = alt - RebootGap
  BY DEF Reboot
<1>2. alt \in MinAlt .. 0 /\ alt \in Int /\ RebootGap \in Nat
  BY Numbers, ClocksAssumption DEF TypeOK
<1>3. StoredIsCurrent => StoredIsPast'
  <2>1. alt' + RebootGap <= alt
    BY <1>1, <1>2, SMT
  <2> QED BY <1>1, <1>2, <2>1, Zenon DEF StoredIsCurrent, StoredIsPast
<1>4. StoredIsPast => StoredIsPast'
  <2> SUFFICES ASSUME NEW s \in Errors, NEW a \in MinAlt .. 0,
                      prefs.bootTime = s - a, alt + RebootGap <= a
               PROVE  alt' + RebootGap <= a
    BY <1>1, Zenon DEF StoredIsPast
  <2>1. a \in Int
    BY ClocksAssumption, SMT
  <2> QED BY <1>1, <1>2, <2>1, SMT
<1> QED BY <1>1, <1>3, <1>4, Zenon DEF TripleInv

LEMMA TripleSynchronize ==
  ASSUME TypeOK, TripleInv, build = "triple", Synchronize PROVE TripleInv'
<1>1. Continuous = alt + continuousAltOffset
  BY ContinuousBy
<1>2. running /\ StoredIsCurrent /\ prefs.contAltOff = continuousAltOffset
      /\ told = alt + continuousAltOffset
  BY SynchronizeBy, Zenon DEF TripleInv
<1>3. contSkew' = -(alt + continuousAltOffset)
  BY <1>1, SynchronizeBy
<1>4. UNCHANGED <<alt, continuousAltOffset, told>>
  BY DriverKeeps
<1>5. StoredIsCurrent' /\ prefs'.contAltOff = prefs.contAltOff
  <2>1. CASE UNCHANGED <<prefs, deltasCurrent>>
    BY <1>2, <1>4, <2>1, StoredKept
  <2>2. CASE /\ prefs'.timeSkewAccuracy = Accurate /\ prefs'.contSkew = -Continuous
             /\ prefs'.bootTime = prefs.bootTime /\ prefs'.contAltOff = prefs.contAltOff
    BY <1>1, <1>2, <1>4, <2>2, Zenon DEF StoredIsCurrent
  <2> QED BY <2>1, <2>2, SynchronizeBy
<1> QED BY <1>2, <1>3, <1>4, <1>5, Zenon DEF TripleInv

LEMMA TripleStartSyncing == ASSUME TypeOK, TripleInv, StartSyncing PROVE TripleInv'
<1>1. running /\ StoredIsCurrent /\ prefs.contAltOff = continuousAltOffset
      /\ told = alt + continuousAltOffset
  BY StartSyncingBy, Zenon DEF TripleInv
<1>2. UNCHANGED <<alt, continuousAltOffset, told>>
  BY DriverKeeps
<1>3. StoredIsCurrent' /\ prefs'.contAltOff = prefs.contAltOff
  <2>1. CASE UNCHANGED <<prefs, deltasCurrent>>
    BY <1>1, <1>2, <2>1, StoredKept
  <2>2. CASE /\ prefs'.timeSkewAccuracy = Unknown
             /\ prefs'.bootTime = prefs.bootTime /\ prefs'.contAltOff = prefs.contAltOff
    BY <1>1, <1>2, <2>2, Zenon DEF StoredIsCurrent
  <2> QED BY <2>1, <2>2, StartSyncingBy
<1>4. ~Vouched'
  BY StartSyncingBy, NotVouched
<1> QED BY <1>1, <1>2, <1>3, <1>4, Zenon DEF TripleInv

LEMMA TripleStep == ASSUME TypeOK, TripleInv, build = "triple", Next PROVE TripleInv'
<1>b. build # "dual" /\ build # "iOS" /\ build # "single"
  OBVIOUS
<1>1. CASE Launch
  BY <1>1, TripleLaunch
<1>2. CASE Kill
  <2>1. running' = FALSE /\ UNCHANGED <<alt, prefs, deltasCurrent>>
    BY <1>2 DEF Kill, deviceVars
  <2> QED BY <2>1, StoredKept, Zenon DEF TripleInv
<1>3. CASE SystemClockSet
  <2>1. UNCHANGED <<alt, deltasCurrent, continuousAltOffset, told, contSkew,
                    currentTimeError, running, prefs>>
    BY <1>3 DEF SystemClockSet, baseVars, driverVars
  <2> QED BY <2>1, TripleKept
<1>4. CASE AltStands
  BY <1>4, <1>b, Zenon DEF AltStands
<1>5. CASE SleepsOrWakesAlone
  <2>1. UNCHANGED <<alt, deltasCurrent, continuousAltOffset, told, contSkew,
                    currentTimeError, running, prefs>>
    BY <1>5 DEF SleepsOrWakesAlone, baseVars, driverVars
  <2> QED BY <2>1, TripleKept
<1>6. CASE Reboot
  BY <1>6, TripleReboot
<1>7. CASE SystemBaseChange
  <2>1. SystemBaseChangeTriple
    BY <1>7, <1>b, Zenon DEF SystemBaseChange, SystemBaseChangeDual, SystemBaseChangeIOS,
       SystemBaseChangeSingle
  <2>2. UNCHANGED <<alt, deltasCurrent, continuousAltOffset, told, contSkew,
                    currentTimeError, running>>
    BY <1>7, <2>1 DEF SystemBaseChange, SystemBaseChangeTriple, NoReset, deviceVars, driverVars
  <2> QED BY <2>1, <2>2, TripleKept, NotifyKeeps DEF SystemBaseChangeTriple
<1>8. CASE GoingToSleep
  <2>1. UNCHANGED <<alt, deltasCurrent, continuousAltOffset, told, contSkew,
                    currentTimeError, running, prefs>>
    BY <1>8 DEF GoingToSleep, driverVars
  <2> QED BY <2>1, TripleKept
<1>9. CASE WakingUp
  <2>1. WakingUpTriple
    BY <1>9, <1>b, Zenon DEF WakingUp, WakingUpDual, WakingUpIOS, WakingUpSingle
  <2>2. UNCHANGED <<alt, deltasCurrent, continuousAltOffset, told, contSkew,
                    currentTimeError, running>>
    BY <1>9, <2>1 DEF WakingUp, WakingUpTriple, NoReset, driverVars
  <2> QED BY <2>1, <2>2, TripleKept, NotifyKeeps DEF WakingUpTriple
<1>10. CASE Synchronize
  BY <1>10, TripleSynchronize
<1>11. CASE StartSyncing
  BY <1>11, TripleStartSyncing
<1> QED BY <1>1, <1>2, <1>3, <1>4, <1>5, <1>6, <1>7, <1>8, <1>9, <1>10, <1>11 DEF Next

-----------------------------------------------------------------------------
(* All builds together. *)

LEMMA InitInv == Init => Inv
<1> SUFFICES ASSUME Init PROVE Inv
  OBVIOUS
<1>1. TypeOK
  BY InitType
<1>2. running = FALSE /\ prefs.bootTime = NoBootTime
  BY Zenon DEF Init
<1> QED BY <1>1, <1>2, Zenon DEF Inv, DualInv, IOSInv, TripleInv

LEMMA StepInv == ASSUME Inv, Next PROVE Inv'
<1>1. TypeOK' /\ build' = build
  BY NextType, BuildKept DEF Inv
<1> QED BY <1>1, DualStep, IOSStep, TripleStep DEF Inv

LEMMA StutterInv == ASSUME Inv, UNCHANGED vars PROVE Inv'
<1>1. UNCHANGED <<build, system, alt, awake, changePending, running, firstTime, usingAlt,
                  continuousOffset, continuousAltOffset, contSkew, currentTimeError,
                  resetQueued, prefs, told, deltasCurrent>>
  BY DEF vars, deviceVars, baseVars, driverVars
<1>2. TypeOK'
  BY <1>1, Zenon DEF Inv, TypeOK
<1>3. /\ DualInv => DualInv'
      /\ IOSInv => IOSInv'
      /\ TripleInv => TripleInv'
  BY <1>1, Zenon DEF DualInv, IOSInv, TripleInv, Vouched, StoredIsCurrent, StoredIsPast
<1> QED BY <1>1, <1>2, <1>3 DEF Inv

LEMMA NextInv == Inv /\ [Next]_vars => Inv'
  BY StepInv, StutterInv

-----------------------------------------------------------------------------
(* The theorems. *)

\* The variables of the time base and the driver have their types.
THEOREM TypeCorrect == Spec => []TypeOK
<1>1. Inv => TypeOK
  BY DEF Inv
<1> QED BY InitInv, NextInv, <1>1, PTL DEF Spec

\* The continuous time never moves without continuousTimeReset being called for
\* it (ESSystemTimeBase_*.cpp), whatever the system clock, the sleep of the
\* device and the end of processes do.
THEOREM NoUntoldMove == Spec => []MovesAreTold
<1>1. Inv => MovesAreTold
  <2> SUFFICES ASSUME Inv, UpToDate, build # "single" PROVE told = Continuous
    BY DEF MovesAreTold
  <2>1. running /\ awake /\ ~changePending
    BY DEF UpToDate
  <2>2. build = "dual" \/ build = "iOS" \/ build = "triple"
    BY ClocksAssumption DEF Inv, TypeOK, AllBuilds
  <2>3. CASE build = "dual"
    BY <2>1, <2>3, ContinuousBy, Zenon DEF Inv, DualInv
  <2>4. CASE build = "iOS"
    BY <2>1, <2>4, ContinuousBy, Zenon DEF Inv, IOSInv
  <2>5. CASE build = "triple"
    BY <2>1, <2>5, ContinuousBy, Zenon DEF Inv, TripleInv
  <2> QED BY <2>2, <2>3, <2>4, <2>5
<1> QED BY InitInv, NextInv, <1>1, PTL DEF Spec

\* A skew that a driver vouches for, stored for this continuous clock, is right,
\* also after a restart that takes it from the preferences, and after a reboot,
\* which is recognized by the boot time (ESTimeSourceDriver's constructor).
THEOREM ClaimsSurvive == Spec => []ClaimSurvives
<1>1. Inv => ClaimSurvives
  <2> SUFFICES ASSUME Inv, UpToDate, build # "single", Vouched, ~resetQueued
               PROVE  contSkew = -Continuous
    BY Zenon DEF ClaimSurvives, Vouched
  <2>1. running /\ awake /\ ~changePending
    BY DEF UpToDate
  <2>2. build = "dual" \/ build = "iOS" \/ build = "triple"
    BY ClocksAssumption DEF Inv, TypeOK, AllBuilds
  <2>3. CASE build = "dual"
    BY <2>1, <2>3, ContinuousBy, Zenon DEF Inv, DualInv
  <2>4. CASE build = "iOS"
    BY <2>1, <2>4, ContinuousBy, Zenon DEF Inv, IOSInv
  <2>5. CASE build = "triple"
    BY <2>1, <2>5, ContinuousBy, Zenon DEF Inv, TripleInv
  <2> QED BY <2>2, <2>3, <2>4, <2>5
<1> QED BY InitInv, NextInv, <1>1, PTL DEF Spec

\* Going to sleep moves no continuous clock, the dual base's neither, which goes
\* from the media clock to the system clock (the assertion in its goingToSleep).
THEOREM SleepIsSmooth == Spec => SleepMovesNoClock
<1> DEFINE Smooth == awake /\ ~awake' => Continuous' = Continuous
<1>1. Inv /\ [Next]_vars => [Smooth]_vars
  <2> SUFFICES ASSUME Inv, Next, awake, ~awake' PROVE Continuous' = Continuous
    BY Zenon
  <2>1. CASE GoingToSleep
    <3>1. UNCHANGED <<build, system, alt, continuousAltOffset>> /\ running
      BY <2>1 DEF GoingToSleep
    <3>2. CASE build = "dual"
      <4>1. usingAlt' = FALSE /\ continuousOffset' = continuousAltOffset - (system - alt)
        BY <2>1, <3>2, Zenon DEF GoingToSleep, OffsetFromAlt, AltOffset
      <4>2. usingAlt
        BY <3>1, <3>2, Zenon DEF Inv, DualInv
      <4>3. Continuous = alt + continuousAltOffset
        BY <3>2, <4>2, ContinuousBy
      <4>4. Continuous' = system' + continuousOffset'
        BY <3>1, <3>2, <4>1, ContinuousByNext
      <4>5. system + (continuousAltOffset - (system - alt)) = alt + continuousAltOffset
        BY Numbers, SMT DEF Inv
      <4> QED BY <3>1, <4>1, <4>3, <4>4, <4>5
    <3>3. CASE build # "dual"
      <4>1. UNCHANGED <<usingAlt, continuousOffset>>
        BY <2>1, <3>3 DEF GoingToSleep
      <4> QED BY <3>1, <4>1, Zenon DEF Continuous
    <3> QED BY <3>2, <3>3
  <2>2. CASE SleepsOrWakesAlone
    <3>1. UNCHANGED <<build, system, alt, continuousAltOffset, usingAlt, continuousOffset>>
      BY <2>2 DEF SleepsOrWakesAlone, baseVars
    <3> QED BY <3>1, Zenon DEF Continuous
  <2>3. CASE ~(GoingToSleep \/ SleepsOrWakesAlone)
    <3>1. awake'
      BY <2>3, Zenon DEF Next, Launch, Kill, SystemClockSet, AltStands, Reboot,
         SystemBaseChange, WakingUp, Synchronize, StartSyncing, deviceVars
    <3> QED BY <3>1
  <2> QED BY <2>1, <2>2, <2>3
<1> QED BY InitInv, NextInv, <1>1, PTL DEF Spec, SleepMovesNoClock
=============================================================================
