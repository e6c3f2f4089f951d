------------------------ MODULE RuntimeTracker_proofs ------------------------
(***************************************************************************)
(* Proofs about the operating-hours counter, for any initial value, any    *)
(* values set, any save interval and any gap between updates.              *)
(***************************************************************************)
EXTENDS RuntimeTracker, TLAPS

USE RuntimeAssumption

\* What is shown and saved is a number of hours.
LEMMA HoursType == ASSUME TypeOK PROVE Hours \in Nat
  BY DEF TypeOK, Hours

\* The counter starts in its invariant: nothing stored, nothing counted.
LEMMA InitIInv == Init => IInv
<1> SUFFICES ASSUME Init
             PROVE  IInv
  OBVIOUS
<1>1. TypeOK
  <2>1. saveIn \in 0..SaveInterval /\ quiet \in 0..Gap
    BY DEF Init
  <2> QED
    BY <2>1 DEF Init, TypeOK
<1>2. CountsConfirmedTime /\ LossBounded /\ Unsaved
  BY DEF Init, CountsConfirmedTime, LossBounded, Unsaved, Shown, InHassData
<1> QED
  BY <1>1, <1>2 DEF IInv

\* Setting up, publishing and unloading the entry.
LEMMA LifecycleKeeps ==
  ASSUME IInv, Setup \/ Publish \/ BeginUnload \/ FinishUnload \/ Restart
  PROVE  IInv'
<1>1. CASE Setup
  <2>1. TypeOK'
    <3>1. total' \in Nat
      BY <1>1 DEF Setup, IInv, TypeOK
    <3>2. saveIn' \in 0..SaveInterval /\ quiet' \in 0..Gap
      BY <1>1 DEF Setup
    <3>3. store' \in Nat \cup {None} /\ truth' \in Nat
      BY <1>1, <3>1 DEF Setup, IInv, TypeOK
    <3> QED
      BY <1>1, <3>1, <3>2, <3>3 DEF Setup, IInv, TypeOK
  <2>2. CountsConfirmedTime'
    BY <1>1
       DEF Setup, IInv, TypeOK, CountsConfirmedTime, Unsaved, Shown, Hours, InHassData
  <2>3. Unsaved'
    BY <1>1
       DEF Setup, IInv, TypeOK, CountsConfirmedTime, LossBounded, Unsaved, Shown,
           Hours, InHassData
  <2>4. LossBounded'
    BY <1>1
       DEF Setup, IInv, TypeOK, CountsConfirmedTime, LossBounded, Unsaved, Shown,
           Hours, InHassData
  <2> QED
    BY <2>1, <2>2, <2>3, <2>4 DEF IInv
<1>2. CASE Publish
  <2>1. TypeOK'
    BY <1>2 DEF Publish, IInv, TypeOK, Hours
  <2>2. CountsConfirmedTime'
    BY <1>2
       DEF Publish, IInv, TypeOK, CountsConfirmedTime, Unsaved, Shown, Hours,
           InHassData
  <2>3. Unsaved'
    BY <1>2
       DEF Publish, IInv, TypeOK, CountsConfirmedTime, LossBounded, Unsaved, Shown,
           Hours, InHassData
  <2>4. LossBounded'
    BY <1>2
       DEF Publish, IInv, TypeOK, CountsConfirmedTime, LossBounded, Unsaved, Shown,
           Hours, InHassData
  <2> QED
    BY <2>1, <2>2, <2>3, <2>4 DEF IInv
<1>3. CASE BeginUnload
  <2>1. TypeOK'
    <3>1. total' \in Nat /\ store' \in Nat \cup {None}
      BY <1>3, HoursType DEF BeginUnload, Shutdown, IInv
    <3> QED
      BY <1>3, <3>1 DEF BeginUnload, Shutdown, IInv, TypeOK
  <2>2. CountsConfirmedTime'
    BY <1>3
       DEF BeginUnload, Shutdown, IInv, TypeOK, CountsConfirmedTime, Unsaved, Shown,
           Hours, InHassData
  <2>3. Unsaved'
    BY <1>3
       DEF BeginUnload, Shutdown, IInv, TypeOK, CountsConfirmedTime, LossBounded,
           Unsaved, Shown, Hours, InHassData
  <2>4. LossBounded'
    BY <1>3
       DEF BeginUnload, Shutdown, IInv, TypeOK, CountsConfirmedTime, LossBounded,
           Unsaved, Shown, Hours, InHassData
  <2> QED
    BY <2>1, <2>2, <2>3, <2>4 DEF IInv
<1>4. CASE FinishUnload
  <2>1. TypeOK'
    BY <1>4 DEF FinishUnload, IInv, TypeOK, Hours
  <2>2. CountsConfirmedTime'
    BY <1>4
       DEF FinishUnload, IInv, TypeOK, CountsConfirmedTime, Unsaved, Shown, Hours,
           InHassData
  <2>3. Unsaved'
    BY <1>4
       DEF FinishUnload, IInv, TypeOK, CountsConfirmedTime, LossBounded, Unsaved,
           Shown, Hours, InHassData
  <2>4. LossBounded'
    BY <1>4
       DEF FinishUnload, IInv, TypeOK, CountsConfirmedTime, LossBounded, Unsaved,
           Shown, Hours, InHassData
  <2> QED
    BY <2>1, <2>2, <2>3, <2>4 DEF IInv
<1>5. CASE Restart
  <2>1. TypeOK'
    BY <1>5 DEF Restart, IInv, TypeOK, Hours
  <2>2. CountsConfirmedTime'
    BY <1>5
       DEF Restart, IInv, TypeOK, CountsConfirmedTime, Unsaved, Shown, Hours,
           InHassData
  <2>3. Unsaved'
    BY <1>5
       DEF Restart, IInv, TypeOK, CountsConfirmedTime, LossBounded, Unsaved, Shown,
           Hours, InHassData
  <2>4. LossBounded'
    BY <1>5
       DEF Restart, IInv, TypeOK, CountsConfirmedTime, LossBounded, Unsaved, Shown,
           Hours, InHassData
  <2> QED
    BY <2>1, <2>2, <2>3, <2>4 DEF IInv
<1> QED
  BY <1>1, <1>2, <1>3, <1>4, <1>5

\* Reports of the coordinator and the saves they cause.
LEMMA CountingKeeps ==
  ASSUME IInv, NEW on \in BOOLEAN, UpdateRunning(on) \/ DelayedWrite
  PROVE  IInv'
<1>1. CASE UpdateRunning(on)
  <2>1. TypeOK'
    BY <1>1 DEF UpdateRunning, Accrue, SchedulePeriodicSave, IInv, TypeOK, Hours
  <2>2. CountsConfirmedTime'
    BY <1>1
       DEF UpdateRunning, Accrue, SchedulePeriodicSave, IInv, TypeOK,
           CountsConfirmedTime, Unsaved, Shown, Hours, InHassData
  <2>3. Unsaved'
    <3>1. CASE armed
      <4>1. armed' /\ entry # "unloaded" /\ UNCHANGED <<entry, store, truth>>
        BY <1>1, <3>1, Zenon DEF UpdateRunning, SchedulePeriodicSave
      <4>2. running' = on /\ total' = Hours
        BY <1>1 DEF UpdateRunning, Accrue
      <4>3. raced' = IF entry = "unloading" /\ on THEN "late" ELSE raced
        BY <1>1 DEF UpdateRunning
      <4>4. raced' = "no" => raced = "no"
        BY <4>3
      <4>5. raced = "no" /\ store # None => truth <= store + SaveInterval + Gap
        BY <3>1 DEF IInv, LossBounded
      <4> QED
        BY <4>1, <4>2, <4>3, <4>4, <4>5 DEF IInv, TypeOK, Unsaved, Hours
    <3>2. CASE ~armed /\ saveIn = 0
      <4>1. armed' /\ entry # "unloaded" /\ UNCHANGED <<entry, store, truth>>
        BY <1>1, <3>2, Zenon DEF UpdateRunning, SchedulePeriodicSave
      <4>2. running' = on /\ total' = Hours
        BY <1>1 DEF UpdateRunning, Accrue
      <4>3. raced' = IF entry = "unloading" /\ on THEN "late" ELSE raced
        BY <1>1 DEF UpdateRunning
      <4>4. raced' = "no" => raced = "no"
        BY <4>3
      <4>5. raced = "no" /\ store # None => truth <= store + SaveInterval + Gap
        BY <3>2 DEF IInv, LossBounded
      <4> QED
        BY <4>1, <4>2, <4>3, <4>4, <4>5 DEF IInv, TypeOK, Unsaved, Hours
    <3>3. CASE ~armed /\ saveIn > 0
      BY <1>1, <3>3
         DEF UpdateRunning, Accrue, SchedulePeriodicSave, IInv, TypeOK,
             CountsConfirmedTime, Unsaved, Hours
    <3> QED
      BY <3>1, <3>2, <3>3 DEF IInv, TypeOK
  <2>4. LossBounded'
    BY <1>1
       DEF UpdateRunning, Accrue, SchedulePeriodicSave, IInv, TypeOK,
           CountsConfirmedTime, LossBounded, Unsaved, Shown, Hours, InHassData
  <2> QED
    BY <2>1, <2>2, <2>3, <2>4 DEF IInv
<1>2. CASE DelayedWrite
  <2>1. TypeOK'
    <3>1. store' \in Nat \cup {None}
      BY <1>2, HoursType DEF DelayedWrite, IInv
    <3> QED
      BY <1>2, <3>1 DEF DelayedWrite, IInv, TypeOK
  <2>2. CountsConfirmedTime'
    BY <1>2
       DEF DelayedWrite, IInv, TypeOK, CountsConfirmedTime, Unsaved, Shown, Hours,
           InHassData
  <2>3. Unsaved'
    BY <1>2
       DEF DelayedWrite, IInv, TypeOK, CountsConfirmedTime, LossBounded, Unsaved,
           Shown, Hours, InHassData
  <2>4. LossBounded'
    BY <1>2
       DEF DelayedWrite, IInv, TypeOK, CountsConfirmedTime, LossBounded, Unsaved,
           Shown, Hours, InHassData
  <2> QED
    BY <2>1, <2>2, <2>3, <2>4 DEF IInv
<1> QED
  BY <1>1, <1>2

\* Values set from the options flow.
LEMMA SettingKeeps ==
  ASSUME IInv, NEW h \in SetValues, SetInMemory(h) \/ SetOnDisk(h)
  PROVE  IInv'
<1>1. CASE SetInMemory(h)
  <2>1. TypeOK'
    <3>1. total' \in Nat /\ store' \in Nat \cup {None} /\ saveIn' \in 0..SaveInterval
      BY <1>1 DEF SetInMemory, SetTotal
    <3> QED
      BY <1>1, <3>1 DEF SetInMemory, SetTotal, IInv, TypeOK
  <2>2. CountsConfirmedTime'
    BY <1>1
       DEF SetInMemory, SetTotal, IInv, TypeOK, CountsConfirmedTime, Unsaved, Shown,
           Hours, InHassData
  <2>3. Unsaved'
    BY <1>1
       DEF SetInMemory, SetTotal, IInv, TypeOK, CountsConfirmedTime, LossBounded,
           Unsaved, Shown, Hours, InHassData
  <2>4. LossBounded'
    BY <1>1
       DEF SetInMemory, SetTotal, IInv, TypeOK, CountsConfirmedTime, LossBounded,
           Unsaved, Shown, Hours, InHassData
  <2> QED
    BY <2>1, <2>2, <2>3, <2>4 DEF IInv
<1>2. CASE SetOnDisk(h)
  <2>1. TypeOK'
    BY <1>2 DEF SetOnDisk, IInv, TypeOK, Hours
  <2>2. CountsConfirmedTime'
    BY <1>2
       DEF SetOnDisk, IInv, TypeOK, CountsConfirmedTime, Unsaved, Shown, Hours,
           InHassData
  <2>3. Unsaved'
    BY <1>2
       DEF SetOnDisk, IInv, TypeOK, CountsConfirmedTime, LossBounded, Unsaved, Shown,
           Hours, InHassData
  <2>4. LossBounded'
    BY <1>2
       DEF SetOnDisk, IInv, TypeOK, CountsConfirmedTime, LossBounded, Unsaved, Shown,
           Hours, InHassData
  <2> QED
    BY <2>1, <2>2, <2>3, <2>4 DEF IInv
<1> QED
  BY <1>1, <1>2

\* Time: what is unsaved grows with it, up to the next update.
LEMMA TickKeeps ==
  ASSUME IInv, Tick
  PROVE  IInv'
<1>1. TypeOK'
  BY DEF Tick, IInv, TypeOK, Hours
<1>2. CountsConfirmedTime'
  BY DEF Tick, IInv, TypeOK, CountsConfirmedTime, Unsaved, Shown, Hours, InHassData
<1>3. Unsaved'
  BY DEF Tick, IInv, TypeOK, CountsConfirmedTime, LossBounded, Unsaved, Shown, Hours,
         InHassData
<1>4. LossBounded'
  BY DEF Tick, IInv, TypeOK, CountsConfirmedTime, LossBounded, Unsaved, Shown, Hours,
         InHassData
<1> QED
  BY <1>1, <1>2, <1>3, <1>4 DEF IInv

\* Every step keeps the invariant.
LEMMA NextKeepsIInv == IInv /\ [Next]_vars => IInv'
<1> SUFFICES ASSUME IInv, [Next]_vars
             PROVE  IInv'
  OBVIOUS
<1>1. CASE Setup \/ Publish \/ BeginUnload \/ FinishUnload \/ Restart
  BY <1>1, LifecycleKeeps
<1>2. ASSUME NEW on \in BOOLEAN, UpdateRunning(on) \/ DelayedWrite
      PROVE  IInv'
  BY <1>2, CountingKeeps
<1>3. ASSUME NEW h \in SetValues, SetInMemory(h) \/ SetOnDisk(h)
      PROVE  IInv'
  BY <1>3, SettingKeeps
<1>4. CASE Tick
  BY <1>4, TickKeeps
<1>5. CASE UNCHANGED vars
  BY <1>5 DEF vars, IInv, TypeOK, CountsConfirmedTime, LossBounded, Unsaved, Shown,
              Hours, InHassData
<1> QED
  BY <1>1, <1>2, <1>3, <1>4, <1>5 DEF Next

-----------------------------------------------------------------------------
\* The invariant holds in every reachable state, for all constants.
THEOREM InductiveInvariant == Spec => []IInv
  BY InitIInv, NextKeepsIInv, PTL DEF Spec

\* Unless a set raced a setup or a report raced an unload, the counter is the
\* value set last plus the confirmed running time since.
THEOREM CountIsExact == Spec => []CountsConfirmedTime
<1>1. IInv => CountsConfirmedTime
  BY DEF IInv
<1> QED
  BY <1>1, InductiveInvariant, PTL

\* A restart at any moment loses at most one save interval and one gap.
THEOREM LossIsBounded == Spec => []LossBounded
<1>1. IInv => LossBounded
  BY DEF IInv
<1> QED
  BY <1>1, InductiveInvariant, PTL
=============================================================================
