-------------------------- MODULE FullProbe_proofs --------------------------
(***************************************************************************)
(* Proofs about the validation tool, for any list of test speeds and any   *)
(* number of registers: every write it sends is earned, and so is the      *)
(* verdict it ends with.                                                   *)
(*                                                                         *)
(* One lemma per part of the invariant says that a step keeps it; in it,   *)
(* one case per action that the part depends on.                           *)
(***************************************************************************)
EXTENDS FullProbe, SequenceTheorems, TLAPS

USE FullProbeAssumption

(***************************************************************************)
(* Facts about the prefixes of the list of speeds.                         *)
(***************************************************************************)
\* The list is a sequence of its own speeds, and has at least one.
LEMMA SpeedsFacts ==
  /\ Len(Speeds) \in Nat \ {0}
  /\ \A i \in 1..Len(Speeds) : Speeds[i] \in Nat \ {0} /\ Speeds[i] \in SpeedSet
  /\ Speeds \in Seq(SpeedSet) /\ Speeds \in Seq(SpeedSet \cup {0})
<1>1. Len(Speeds) \in Nat \ {0}
  BY LenProperties, EmptySeq
<1>2. ASSUME NEW i \in 1..Len(Speeds)
      PROVE  Speeds[i] \in Nat \ {0} /\ Speeds[i] \in SpeedSet
  <2>1. Speeds[i] \in Nat \ {0} /\ DOMAIN Speeds = 1..Len(Speeds)
    BY ElementOfSeq, LenProperties
  <2> QED
    BY <2>1 DEF SpeedSet, ToSet
<1>3. Speeds = [i \in 1..Len(Speeds) |-> Speeds[i]]
  BY LenProperties
<1> QED
  BY <1>1, <1>2, <1>3

\* A prefix, element by element.
LEMMA ThroughFacts ==
  ASSUME NEW n \in 0..Len(Speeds)
  PROVE  /\ Through(n) \in Seq(SpeedSet) /\ Through(n) \in Seq(SpeedSet \cup {0})
         /\ Len(Through(n)) = n
         /\ \A i \in 1..n : Through(n)[i] = Speeds[i]
         /\ Through(n) \o <<>> = Through(n)
<1>1. \A i \in 1..n : Speeds[i] \in SpeedSet
  BY SpeedsFacts
<1>2. /\ Through(n) \in Seq(SpeedSet)
      /\ Len(Through(n)) = n
      /\ \A i \in 1..n : Through(n)[i] = Speeds[i]
  BY <1>1, SpeedsFacts, SubSeqProperties DEF Through
<1> QED
  BY <1>2, ConcatEmptySeq

\* Before its first speed and after its last one.
LEMMA ThroughEnds ==
  /\ Through(0) = <<>> /\ ToSet(Through(0)) = {}
  /\ Through(Len(Speeds)) = Speeds /\ ToSet(Through(Len(Speeds))) = SpeedSet
<1>1. Through(0) = <<>>
  BY ThroughFacts, SpeedsFacts, EmptySeq
<1>2. Through(Len(Speeds)) = Speeds
  BY ThroughFacts, SpeedsFacts, SeqEqual
<1> QED
  BY <1>1, <1>2, EmptySeq DEF SpeedSet, ToSet

\* One speed further.
LEMMA ThroughNext ==
  ASSUME NEW n \in 1..Len(Speeds)
  PROVE  /\ Through(n) = Append(Through(n - 1), Speeds[n])
         /\ ToSet(Through(n)) = ToSet(Through(n - 1)) \cup {Speeds[n]}
<1>1. n - 1 \in 0..Len(Speeds) /\ n \in 0..Len(Speeds)
  BY SpeedsFacts
<1>2. DOMAIN Through(n) = 1..n /\ DOMAIN Through(n - 1) = 1..(n - 1)
  BY <1>1, ThroughFacts, LenProperties
<1>3. /\ \A i \in 1..n : Through(n)[i] = Speeds[i]
      /\ \A i \in 1..(n - 1) : Through(n - 1)[i] = Speeds[i]
  BY <1>1, ThroughFacts
<1>4. ToSet(Through(n)) = ToSet(Through(n - 1)) \cup {Speeds[n]}
  <2>1. ToSet(Through(n)) = {Speeds[i] : i \in 1..n}
    BY <1>2, <1>3 DEF ToSet
  <2>2. ToSet(Through(n - 1)) = {Speeds[i] : i \in 1..(n - 1)}
    BY <1>2, <1>3 DEF ToSet
  <2>3. 1..n = 1..(n - 1) \cup {n}
    OBVIOUS
  <2> QED
    BY <2>1, <2>2, <2>3
<1>5. Through(n) = Append(Through(n - 1), Speeds[n])
  <2> DEFINE a == Append(Through(n - 1), Speeds[n])
  <2>1. Through(n - 1) \in Seq(SpeedSet) /\ Speeds[n] \in SpeedSet /\ Len(Through(n - 1)) = n - 1
    BY <1>1, ThroughFacts, SpeedsFacts
  <2>2. /\ a \in Seq(SpeedSet) /\ Len(a) = n
        /\ \A i \in 1..(n - 1) : a[i] = Through(n - 1)[i]
        /\ a[n] = Speeds[n]
    BY <2>1, AppendProperties
  <2>3. Through(n) \in Seq(SpeedSet) /\ Len(Through(n)) = n
    BY <1>1, ThroughFacts
  <2> HIDE DEF a
  <2>4. \A i \in 1..n : a[i] = Through(n)[i]
    BY <1>3, <2>2
  <2>5. a = Through(n)
    BY <2>2, <2>3, <2>4, SeqEqual
  <2> QED
    BY <2>5 DEF a
<1> QED
  BY <1>4, <1>5

\* All speeds and then OFF.
LEMMA StopFrames == ToSet(Append(Speeds, 0)) = SpeedSet \cup {0}
<1> DEFINE a == Append(Speeds, 0)
           n == Len(Speeds)
<1>1. a \in Seq(SpeedSet \cup {0}) /\ Len(a) = n + 1 /\ a[n + 1] = 0
  BY SpeedsFacts, AppendProperties
<1>2. \A i \in 1..n : a[i] = Speeds[i]
  BY SpeedsFacts, AppendProperties
<1>3. DOMAIN a = 1..(n + 1) /\ DOMAIN Speeds = 1..n /\ n \in Nat
  BY <1>1, LenProperties
<1>4. 1..(n + 1) = 1..n \cup {n + 1}
  BY <1>3
<1> HIDE DEF a
<1>5. ToSet(a) = {Speeds[i] : i \in 1..n} \cup {0}
  BY <1>1, <1>2, <1>3, <1>4 DEF ToSet
<1>6. SpeedSet = {Speeds[i] : i \in 1..n}
  BY <1>3 DEF SpeedSet, ToSet
<1> QED
  BY <1>5, <1>6 DEF a

-----------------------------------------------------------------------------
USE DEF vars, tool, history

\* A write frame keeps every type, whether or not the pump executes it.
LEMMA SendWriteTypes ==
  ASSUME IInv, NEW v \in SpeedSet \cup {0}, NEW s \in Steps, NEW b \in BOOLEAN,
         SendWrite(v, s, b)
  PROVE  TypeOK'
<1>1. frames' \in Seq(SpeedSet \cup {0})
  BY AppendProperties DEF SendWrite, IInv, TypeOK
<1>2. pump' \in Pumps
  <2>1. pump' = pump \/ pump' = [pump EXCEPT !.on = v # 0, !.capacity = v]
    BY DEF SendWrite
  <2>2. pump \in Pumps
    BY DEF IInv, TypeOK
  <2>3. (v # 0) \in BOOLEAN
    OBVIOUS
  <2> QED
    BY <2>1, <2>2, <2>3 DEF Pumps
<1>3. /\ pc' = s /\ at' = at /\ exit' = exit
      /\ UNCHANGED <<readOnly, faulty, shown, unlocked, proved, lastFault, stopped>>
  BY DEF SendWrite, Goto
<1> QED
  BY <1>1, <1>2, <1>3 DEF IInv, TypeOK

\* Types: a write frame is a speed or 0, what is remembered are speeds of the list.
LEMMA TypeStep ==
  ASSUME IInv, [Next]_vars
  PROVE  TypeOK'
<1>1. CASE TransactionFails
  BY <1>1 DEF TransactionFails, End, IInv, TypeOK, Steps, Verdicts
<1>2. CASE OperatorAborts
  BY <1>2 DEF OperatorAborts, End, IInv, TypeOK, Steps, Verdicts
<1>3. CASE InputEnds
  BY <1>3 DEF InputEnds, End, IInv, TypeOK, Steps, Verdicts
<1>4. CASE ReadBlock
  BY <1>4 DEF ReadBlock, Goto, IInv, TypeOK, Steps, Verdicts, Pumps
<1>5. CASE ReadRegister
  BY <1>5 DEF ReadRegister, Goto, End, Loop, IInv, TypeOK, Steps, Verdicts, Pumps
<1>6. CASE ManualReady
  BY <1>6 DEF ManualReady, Goto, IInv, TypeOK, Steps, Verdicts, Pumps
<1>7. CASE ReadManual
  BY <1>7 DEF ReadManual, Goto, End, Loop, IInv, TypeOK, AtInLoop, Steps, Verdicts, Pumps, RunsAt
<1>8. CASE ManualDone
  BY <1>8 DEF ManualDone, Goto, End, IInv, TypeOK, AtInLoop, Steps, Verdicts, Pumps, RunsAt
<1>9. CASE CommandReady
  BY <1>9 DEF CommandReady, Goto, IInv, TypeOK, Steps, Verdicts
<1>10. CASE ReadBefore
  BY <1>10 DEF ReadBefore, Goto, End, IInv, TypeOK, Steps, Verdicts, Pumps
<1>11. CASE Acknowledged
  BY <1>11 DEF Acknowledged, Goto, IInv, TypeOK, Steps, Verdicts, Pumps
<1>12. CASE ReadAfter
  BY <1>12 DEF ReadAfter, Goto, End, IInv, TypeOK, Steps, Verdicts, Pumps
<1>13. CASE ReadStopped
  BY <1>13 DEF ReadStopped, End, IInv, TypeOK, Steps, Verdicts, Pumps
<1>14. ASSUME NEW b \in BOOLEAN, Unlock(b)
      PROVE  TypeOK'
  <2>1. pc' \in Steps /\ at' \in 1..Len(Speeds) \cup 1..Registers /\ exit' \in Verdicts
    BY <1>14, SpeedsFacts DEF Unlock, Goto, End, Steps, Verdicts, IInv, TypeOK
  <2>2. unlocked' = unlocked \/ unlocked' = unlocked \cup {"writes"}
    BY <1>14 DEF Unlock
  <2>3. UNCHANGED <<readOnly, faulty, pump, shown, frames, proved, lastFault, stopped>>
    BY <1>14 DEF Unlock
  <2> QED
    BY <2>1, <2>2, <2>3 DEF IInv, TypeOK
<1>15. ASSUME NEW b \in BOOLEAN, WriteSpeed(b)
      PROVE  TypeOK'
  <2>1. Speeds[at] \in SpeedSet
    BY <1>15, SpeedsFacts DEF WriteSpeed, IInv, AtInLoop
  <2>2. SendWrite(Speeds[at], "written", b)
    BY <1>15 DEF WriteSpeed
  <2> QED
    BY <2>1, <2>2, SendWriteTypes DEF Steps
<1>16. ASSUME NEW b \in BOOLEAN, Confirm(b)
      PROVE  TypeOK'
  BY <1>16, SpeedsFacts DEF Confirm, Goto, End, Loop, IInv, TypeOK, AtInLoop, Steps, Verdicts
<1>17. ASSUME NEW b \in BOOLEAN, AskOff(b)
      PROVE  TypeOK'
  BY <1>17 DEF AskOff, Goto, End, IInv, TypeOK, Steps, Verdicts
<1>18. ASSUME NEW b \in BOOLEAN, UnlockStop(b)
      PROVE  TypeOK'
  <2>1. pc' \in Steps /\ at' \in 1..Len(Speeds) \cup 1..Registers /\ exit' \in Verdicts
    BY <1>18, SpeedsFacts DEF UnlockStop, Goto, End, Steps, Verdicts, IInv, TypeOK
  <2>2. unlocked' = unlocked \/ unlocked' = unlocked \cup {"stop"}
    BY <1>18 DEF UnlockStop
  <2>3. UNCHANGED <<readOnly, faulty, pump, shown, frames, proved, lastFault, stopped>>
    BY <1>18 DEF UnlockStop
  <2> QED
    BY <2>1, <2>2, <2>3 DEF IInv, TypeOK
<1>19. ASSUME NEW b \in BOOLEAN, WriteStop(b)
      PROVE  TypeOK'
  <2>1. SendWrite(0, "stopWritten", b)
    BY <1>19 DEF WriteStop
  <2> QED
    BY <2>1, SendWriteTypes DEF Steps
<1>20. ASSUME NEW p \in Pumps, PumpChanges(p)
      PROVE  TypeOK'
  BY <1>20 DEF PumpChanges, IInv, TypeOK
<1>21. CASE UNCHANGED vars
  BY <1>21 DEF IInv, TypeOK
<1> QED
  BY <1>1, <1>2, <1>3, <1>4, <1>5, <1>6, <1>7, <1>8, <1>9, <1>10, <1>11, <1>12, <1>13, <1>14,
     <1>15, <1>16, <1>17, <1>18, <1>19, <1>20, <1>21 DEF Next

\* The loops stay inside their lists: a speed is used only at a place that has one.
LEMMA LoopStep ==
  ASSUME IInv, [Next]_vars
  PROVE  AtInLoop'
<1>1. CASE TransactionFails
  BY <1>1 DEF TransactionFails, End, AtInLoop
<1>2. CASE OperatorAborts
  BY <1>2 DEF OperatorAborts, End, AtInLoop
<1>3. CASE InputEnds
  BY <1>3 DEF InputEnds, End, AtInLoop
<1>4. CASE ReadBlock
  BY <1>4 DEF ReadBlock, Goto, AtInLoop
<1>5. CASE ReadRegister
  BY <1>5 DEF ReadRegister, Goto, End, Loop, IInv, AtInLoop
<1>6. CASE ManualReady
  BY <1>6 DEF ManualReady, Goto, IInv, AtInLoop
<1>7. CASE ReadManual
  BY <1>7 DEF ReadManual, Goto, End, Loop, IInv, AtInLoop
<1>8. CASE ManualDone
  BY <1>8 DEF ManualDone, Goto, End, IInv, AtInLoop
<1>9. CASE CommandReady
  BY <1>9 DEF CommandReady, Goto, IInv, AtInLoop
<1>10. CASE ReadBefore
  BY <1>10 DEF ReadBefore, Goto, End, IInv, AtInLoop
<1>11. CASE Acknowledged
  BY <1>11 DEF Acknowledged, Goto, IInv, AtInLoop
<1>12. CASE ReadAfter
  BY <1>12 DEF ReadAfter, Goto, End, IInv, AtInLoop
<1>13. CASE ReadStopped
  BY <1>13 DEF ReadStopped, End, IInv, AtInLoop
<1>14. ASSUME NEW b \in BOOLEAN, Unlock(b)
      PROVE  AtInLoop'
  BY <1>14 DEF Unlock, Goto, End, AtInLoop
<1>15. ASSUME NEW b \in BOOLEAN, WriteSpeed(b)
      PROVE  AtInLoop'
  BY <1>15 DEF WriteSpeed, SendWrite, Goto, IInv, AtInLoop
<1>16. ASSUME NEW b \in BOOLEAN, Confirm(b)
      PROVE  AtInLoop'
  BY <1>16 DEF Confirm, Goto, End, Loop, IInv, AtInLoop
<1>17. ASSUME NEW b \in BOOLEAN, AskOff(b)
      PROVE  AtInLoop'
  BY <1>17 DEF AskOff, Goto, End, AtInLoop
<1>18. ASSUME NEW b \in BOOLEAN, UnlockStop(b)
      PROVE  AtInLoop'
  BY <1>18 DEF UnlockStop, Goto, End, AtInLoop
<1>19. ASSUME NEW b \in BOOLEAN, WriteStop(b)
      PROVE  AtInLoop'
  BY <1>19 DEF WriteStop, SendWrite, Goto, AtInLoop
<1>20. ASSUME NEW p \in Pumps, PumpChanges(p)
      PROVE  AtInLoop'
  BY <1>20 DEF PumpChanges, IInv, AtInLoop
<1>21. CASE UNCHANGED vars
  BY <1>21 DEF IInv, AtInLoop
<1> QED
  BY <1>1, <1>2, <1>3, <1>4, <1>5, <1>6, <1>7, <1>8, <1>9, <1>10, <1>11, <1>12, <1>13, <1>14,
     <1>15, <1>16, <1>17, <1>18, <1>19, <1>20, <1>21 DEF Next

\* What is on the wire: WriteSpeed and WriteStop each send the next frame, nothing
\* else sends.
LEMMA FramesStep ==
  ASSUME IInv, [Next]_vars
  PROVE  FramesSent'
<1>1. CASE TransactionFails
  BY <1>1 DEF TransactionFails, End, FramesSent
<1>2. CASE OperatorAborts
  BY <1>2 DEF OperatorAborts, End, FramesSent
<1>3. CASE InputEnds
  BY <1>3 DEF InputEnds, End, FramesSent
<1>4. CASE ReadBlock
  BY <1>4 DEF ReadBlock, Goto, IInv, Evidence, FramesSent, Writing
<1>5. CASE ReadRegister
  BY <1>5 DEF ReadRegister, Goto, End, Loop, IInv, Evidence, FramesSent, Writing
<1>6. CASE ManualReady
  BY <1>6 DEF ManualReady, Goto, IInv, Evidence, FramesSent, Writing
<1>7. CASE ReadManual
  BY <1>7 DEF ReadManual, Goto, End, Loop, IInv, Evidence, FramesSent, Writing
<1>8. CASE ManualDone
  BY <1>8 DEF ManualDone, Goto, End, IInv, Evidence, FramesSent, Writing
<1>9. CASE CommandReady
  BY <1>9 DEF CommandReady, Goto, IInv, Evidence, FramesSent, Writing
<1>10. CASE ReadBefore
  BY <1>10 DEF ReadBefore, Goto, End, IInv, Evidence, FramesSent, Writing
<1>11. CASE Acknowledged
  BY <1>11 DEF Acknowledged, Goto, IInv, Evidence, FramesSent, Writing
<1>12. CASE ReadAfter
  BY <1>12 DEF ReadAfter, Goto, End, IInv, Evidence, FramesSent, Writing
<1>13. CASE ReadStopped
  BY <1>13 DEF ReadStopped, End, IInv, Evidence, FramesSent, Writing
<1>14. ASSUME NEW b \in BOOLEAN, Unlock(b)
      PROVE  FramesSent'
  BY <1>14, ThroughEnds DEF Unlock, Goto, End, IInv, Evidence, FramesSent, Writing
<1>15. ASSUME NEW b \in BOOLEAN, WriteSpeed(b)
      PROVE  FramesSent'
  <2>1. /\ pc = "write" /\ pc' = "written" /\ at' = at
        /\ frames' = Append(frames, Speeds[at])
    BY <1>15 DEF WriteSpeed, SendWrite, Goto
  <2>2. frames = Through(at - 1) /\ at \in 1..Len(Speeds)
    BY <2>1 DEF IInv, Evidence, FramesSent, AtInLoop
  <2>3. frames' = Through(at')
    BY <2>1, <2>2, ThroughNext
  <2> QED
    BY <2>1, <2>3 DEF FramesSent, Writing
<1>16. ASSUME NEW b \in BOOLEAN, Confirm(b)
      PROVE  FramesSent'
  BY <1>16, SpeedsFacts, ThroughEnds
     DEF Confirm, Goto, End, Loop, IInv, AtInLoop, Evidence, FramesSent, Writing
<1>17. ASSUME NEW b \in BOOLEAN, AskOff(b)
      PROVE  FramesSent'
  BY <1>17 DEF AskOff, Goto, End, IInv, Evidence, FramesSent, Writing
<1>18. ASSUME NEW b \in BOOLEAN, UnlockStop(b)
      PROVE  FramesSent'
  BY <1>18 DEF UnlockStop, Goto, End, IInv, Evidence, FramesSent, Writing
<1>19. ASSUME NEW b \in BOOLEAN, WriteStop(b)
      PROVE  FramesSent'
  BY <1>19 DEF WriteStop, SendWrite, Goto, IInv, Evidence, FramesSent, Writing
<1>20. ASSUME NEW p \in Pumps, PumpChanges(p)
      PROVE  FramesSent'
  BY <1>20 DEF PumpChanges, IInv, Evidence, FramesSent, Writing
<1>21. CASE UNCHANGED vars
  BY <1>21 DEF IInv, Evidence, FramesSent, Writing
<1> QED
  BY <1>1, <1>2, <1>3, <1>4, <1>5, <1>6, <1>7, <1>8, <1>9, <1>10, <1>11, <1>12, <1>13, <1>14,
     <1>15, <1>16, <1>17, <1>18, <1>19, <1>20, <1>21 DEF Next

\* What was seen by hand: the loop ends only when every speed was.
LEMMA ShownStep ==
  ASSUME IInv, [Next]_vars
  PROVE  SpeedsShown'
<1>1. CASE TransactionFails
  BY <1>1 DEF TransactionFails, End, SpeedsShown, Writing
<1>2. CASE OperatorAborts
  BY <1>2 DEF OperatorAborts, End, SpeedsShown, Writing
<1>3. CASE InputEnds
  BY <1>3 DEF InputEnds, End, SpeedsShown, Writing
<1>4. CASE ReadBlock
  BY <1>4 DEF ReadBlock, Goto, IInv, Evidence, SpeedsShown, Writing
<1>5. CASE ReadRegister
  <2>1. shown' = {} /\ (pc' \in {"register", "done"} \/ (pc' = "askManual" /\ at' = 1))
    BY <1>5 DEF ReadRegister, Loop, Goto, End, IInv, Evidence, SpeedsShown
  <2>2. at' = 1 => at' - 1 = 0
    OBVIOUS
  <2> QED
    BY <2>1, <2>2, ThroughEnds DEF SpeedsShown, Writing
<1>6. CASE ManualReady
  BY <1>6 DEF ManualReady, Goto, IInv, Evidence, SpeedsShown, Writing
<1>7. CASE ReadManual
  <2>1. /\ pc = "readManual" /\ at \in 1..Len(Speeds)
        /\ shown = ToSet(Through(at - 1))
    BY <1>7 DEF ReadManual, IInv, AtInLoop, Evidence, SpeedsShown
  <2>2. \/ pc' = "done"
        \/ /\ shown' = shown \cup {Speeds[at]}
           /\ \/ at < Len(Speeds) /\ pc' = "askManual" /\ at' = at + 1
              \/ ~(at < Len(Speeds)) /\ pc' = "manualDone"
    BY <1>7 DEF ReadManual, Loop, Goto, End
  <2>3. shown \cup {Speeds[at]} = ToSet(Through(at))
    BY <2>1, ThroughNext
  <2>4. ~(at < Len(Speeds)) => at = Len(Speeds)
    BY <2>1, SpeedsFacts
  <2>5. at' = at + 1 => at' - 1 = at
    BY <2>1
  <2> QED
    BY <2>2, <2>3, <2>4, <2>5, ThroughEnds DEF SpeedsShown, Writing
<1>8. CASE ManualDone
  BY <1>8 DEF ManualDone, Goto, End, IInv, Evidence, SpeedsShown
<1>9. CASE CommandReady
  BY <1>9 DEF CommandReady, Goto, IInv, Evidence, SpeedsShown, Writing
<1>10. CASE ReadBefore
  BY <1>10 DEF ReadBefore, Goto, End, IInv, Evidence, SpeedsShown, Writing
<1>11. CASE Acknowledged
  BY <1>11 DEF Acknowledged, Goto, IInv, Evidence, SpeedsShown, Writing
<1>12. CASE ReadAfter
  BY <1>12 DEF ReadAfter, Goto, End, IInv, Evidence, SpeedsShown, Writing
<1>13. CASE ReadStopped
  BY <1>13 DEF ReadStopped, End, IInv, Evidence, SpeedsShown, Writing
<1>14. ASSUME NEW b \in BOOLEAN, Unlock(b)
      PROVE  SpeedsShown'
  BY <1>14 DEF Unlock, Goto, End, IInv, Evidence, SpeedsShown
<1>15. ASSUME NEW b \in BOOLEAN, WriteSpeed(b)
      PROVE  SpeedsShown'
  BY <1>15 DEF WriteSpeed, SendWrite, Goto, IInv, Evidence, SpeedsShown, Writing
<1>16. ASSUME NEW b \in BOOLEAN, Confirm(b)
      PROVE  SpeedsShown'
  BY <1>16 DEF Confirm, Goto, End, Loop, IInv, Evidence, SpeedsShown, Writing
<1>17. ASSUME NEW b \in BOOLEAN, AskOff(b)
      PROVE  SpeedsShown'
  BY <1>17 DEF AskOff, Goto, End, IInv, Evidence, SpeedsShown, Writing
<1>18. ASSUME NEW b \in BOOLEAN, UnlockStop(b)
      PROVE  SpeedsShown'
  BY <1>18 DEF UnlockStop, Goto, End, IInv, Evidence, SpeedsShown, Writing
<1>19. ASSUME NEW b \in BOOLEAN, WriteStop(b)
      PROVE  SpeedsShown'
  BY <1>19 DEF WriteStop, SendWrite, Goto, IInv, Evidence, SpeedsShown, Writing
<1>20. ASSUME NEW p \in Pumps, PumpChanges(p)
      PROVE  SpeedsShown'
  BY <1>20 DEF PumpChanges, IInv, Evidence, SpeedsShown, Writing
<1>21. CASE UNCHANGED vars
  BY <1>21 DEF IInv, Evidence, SpeedsShown, Writing
<1> QED
  BY <1>1, <1>2, <1>3, <1>4, <1>5, <1>6, <1>7, <1>8, <1>9, <1>10, <1>11, <1>12, <1>13, <1>14,
     <1>15, <1>16, <1>17, <1>18, <1>19, <1>20, <1>21 DEF Next

\* What is proved is behind what was sent by the command in progress, and catches up
\* with it when the operator confirms.
LEMMA ProvedStep ==
  ASSUME IInv, [Next]_vars
  PROVE  SpeedsProved'
<1>1. CASE TransactionFails
  BY <1>1 DEF TransactionFails, End, SpeedsProved
<1>2. CASE OperatorAborts
  BY <1>2 DEF OperatorAborts, End, SpeedsProved
<1>3. CASE InputEnds
  BY <1>3 DEF InputEnds, End, SpeedsProved
<1>4. CASE ReadBlock
  BY <1>4 DEF ReadBlock, Goto, IInv, Evidence, SpeedsProved, Writing
<1>5. CASE ReadRegister
  BY <1>5 DEF ReadRegister, Goto, End, Loop, IInv, Evidence, SpeedsProved, Writing
<1>6. CASE ManualReady
  BY <1>6 DEF ManualReady, Goto, IInv, Evidence, SpeedsProved, Writing
<1>7. CASE ReadManual
  BY <1>7 DEF ReadManual, Goto, End, Loop, IInv, Evidence, SpeedsProved, Writing
<1>8. CASE ManualDone
  BY <1>8 DEF ManualDone, Goto, End, IInv, Evidence, SpeedsProved, Writing
<1>9. CASE CommandReady
  BY <1>9 DEF CommandReady, Goto, IInv, Evidence, SpeedsProved, Writing
<1>10. CASE ReadBefore
  BY <1>10 DEF ReadBefore, Goto, End, IInv, Evidence, SpeedsProved, Writing
<1>11. CASE Acknowledged
  BY <1>11 DEF Acknowledged, Goto, IInv, Evidence, SpeedsProved, Writing
<1>12. CASE ReadAfter
  BY <1>12 DEF ReadAfter, Goto, End, IInv, Evidence, SpeedsProved, Writing
<1>13. CASE ReadStopped
  BY <1>13 DEF ReadStopped, End, IInv, Evidence, SpeedsProved, Writing
<1>14. ASSUME NEW b \in BOOLEAN, Unlock(b)
      PROVE  SpeedsProved'
  BY <1>14, ThroughEnds DEF Unlock, Goto, End, IInv, Evidence, FramesSent, SpeedsProved, Writing
<1>15. ASSUME NEW b \in BOOLEAN, WriteSpeed(b)
      PROVE  SpeedsProved'
  BY <1>15 DEF WriteSpeed, SendWrite, Goto, IInv, Evidence, FramesSent, SpeedsProved, Writing
<1>16. ASSUME NEW b \in BOOLEAN, Confirm(b)
      PROVE  SpeedsProved'
  <2>1. /\ pc = "confirm" /\ at \in 1..Len(Speeds)
        /\ frames = Through(at) /\ proved = ToSet(Through(at - 1)) /\ frames' = frames
    BY <1>16 DEF Confirm, IInv, AtInLoop, Evidence, FramesSent, SpeedsProved
  <2>2. \/ pc' = "done"
        \/ /\ proved' = proved \cup {Speeds[at]}
           /\ \/ pc' = "ready"
              \/ ~(at < Len(Speeds)) /\ pc' = "askOff"
    BY <1>16 DEF Confirm, Loop, Goto, End
  <2>3. proved \cup {Speeds[at]} = ToSet(Through(at))
    BY <2>1, ThroughNext
  <2>4. ~(at < Len(Speeds)) => at = Len(Speeds)
    BY <2>1, SpeedsFacts
  <2> QED
    BY <2>1, <2>2, <2>3, <2>4, ThroughEnds DEF SpeedsProved, Writing
<1>17. ASSUME NEW b \in BOOLEAN, AskOff(b)
      PROVE  SpeedsProved'
  BY <1>17 DEF AskOff, Goto, End, IInv, Evidence, SpeedsProved, Writing
<1>18. ASSUME NEW b \in BOOLEAN, UnlockStop(b)
      PROVE  SpeedsProved'
  BY <1>18 DEF UnlockStop, Goto, End, IInv, Evidence, SpeedsProved, Writing
<1>19. ASSUME NEW b \in BOOLEAN, WriteStop(b)
      PROVE  SpeedsProved'
  BY <1>19 DEF WriteStop, SendWrite, Goto, IInv, Evidence, SpeedsProved, Writing
<1>20. ASSUME NEW p \in Pumps, PumpChanges(p)
      PROVE  SpeedsProved'
  BY <1>20 DEF PumpChanges, IInv, Evidence, SpeedsProved, Writing
<1>21. CASE UNCHANGED vars
  BY <1>21 DEF IInv, Evidence, SpeedsProved, Writing
<1> QED
  BY <1>1, <1>2, <1>3, <1>4, <1>5, <1>6, <1>7, <1>8, <1>9, <1>10, <1>11, <1>12, <1>13, <1>14,
     <1>15, <1>16, <1>17, <1>18, <1>19, <1>20, <1>21 DEF Next

\* The phrases and the status that a write waits for.
LEMMA PermittedStep ==
  ASSUME IInv, [Next]_vars
  PROVE  Permitted'
<1>1. CASE TransactionFails
  BY <1>1 DEF TransactionFails, End, Permitted, Writing
<1>2. CASE OperatorAborts
  BY <1>2 DEF OperatorAborts, End, Permitted, Writing
<1>3. CASE InputEnds
  BY <1>3 DEF InputEnds, End, Permitted, Writing
<1>4. CASE ReadBlock
  BY <1>4 DEF ReadBlock, Goto, IInv, Evidence, Permitted, Writing
<1>5. CASE ReadRegister
  BY <1>5 DEF ReadRegister, Goto, End, Loop, IInv, Evidence, Permitted, Writing
<1>6. CASE ManualReady
  BY <1>6 DEF ManualReady, Goto, IInv, Evidence, Permitted, Writing
<1>7. CASE ReadManual
  BY <1>7 DEF ReadManual, Goto, End, Loop, IInv, Evidence, Permitted, Writing
<1>8. CASE ManualDone
  BY <1>8 DEF ManualDone, Goto, End, IInv, Evidence, Permitted, Writing
<1>9. CASE CommandReady
  BY <1>9 DEF CommandReady, Goto, IInv, Evidence, Permitted, Writing
<1>10. CASE ReadBefore
  BY <1>10 DEF ReadBefore, FaultBefore, Goto, End, IInv, Evidence, Permitted, Writing
<1>11. CASE Acknowledged
  BY <1>11 DEF Acknowledged, Goto, IInv, Evidence, Permitted, Writing
<1>12. CASE ReadAfter
  BY <1>12 DEF ReadAfter, RunsAt, Goto, End, IInv, Evidence, Permitted, Writing
<1>13. CASE ReadStopped
  BY <1>13 DEF ReadStopped, End, IInv, Evidence, Permitted, Writing
<1>14. ASSUME NEW b \in BOOLEAN, Unlock(b)
      PROVE  Permitted'
  <2>1. pc = "phrase" /\ "writes" \in unlocked \cup {"writes"}
    BY <1>14 DEF Unlock
  <2>2. \/ pc' = "ready" /\ unlocked' = unlocked \cup {"writes"} /\ exit' = exit
        \/ pc' = "done" /\ exit' = "passed"
    BY <1>14 DEF Unlock, Goto, End
  <2>3. readOnly' = readOnly /\ stopped' = stopped
    BY <1>14 DEF Unlock
  <2> QED
    BY <2>1, <2>2, <2>3 DEF IInv, Evidence, Permitted, Writing
<1>15. ASSUME NEW b \in BOOLEAN, WriteSpeed(b)
      PROVE  Permitted'
  BY <1>15 DEF WriteSpeed, SendWrite, Goto, IInv, Evidence, Permitted, Writing
<1>16. ASSUME NEW b \in BOOLEAN, Confirm(b)
      PROVE  Permitted'
  BY <1>16 DEF Confirm, Goto, End, Loop, IInv, Evidence, Permitted, Writing
<1>17. ASSUME NEW b \in BOOLEAN, AskOff(b)
      PROVE  Permitted'
  BY <1>17 DEF AskOff, Goto, End, IInv, Evidence, Permitted, Writing
<1>18. ASSUME NEW b \in BOOLEAN, UnlockStop(b)
      PROVE  Permitted'
  BY <1>18 DEF UnlockStop, Goto, End, IInv, Evidence, Permitted, Writing
<1>19. ASSUME NEW b \in BOOLEAN, WriteStop(b)
      PROVE  Permitted'
  BY <1>19 DEF WriteStop, SendWrite, Goto, IInv, Evidence, Permitted, Writing
<1>20. ASSUME NEW p \in Pumps, PumpChanges(p)
      PROVE  Permitted'
  BY <1>20 DEF PumpChanges, IInv, Evidence, Permitted, Writing
<1>21. CASE UNCHANGED vars
  BY <1>21 DEF IInv, Evidence, Permitted, Writing
<1> QED
  BY <1>1, <1>2, <1>3, <1>4, <1>5, <1>6, <1>7, <1>8, <1>9, <1>10, <1>11, <1>12, <1>13, <1>14,
     <1>15, <1>16, <1>17, <1>18, <1>19, <1>20, <1>21 DEF Next

\* The five ends that pass: --read-only, the writes or OFF not unlocked, OFF declined,
\* and the clean OFF.
LEMMA VerdictStep ==
  ASSUME IInv, [Next]_vars
  PROVE  VerdictIsEarned'
<1>1. CASE TransactionFails
  BY <1>1 DEF TransactionFails, End, VerdictIsEarned
<1>2. CASE OperatorAborts
  BY <1>2 DEF OperatorAborts, End, VerdictIsEarned
<1>3. CASE InputEnds
  BY <1>3 DEF InputEnds, End, VerdictIsEarned
<1>4. CASE ReadBlock
  BY <1>4 DEF ReadBlock, Goto, IInv, Evidence, Permitted, VerdictIsEarned
<1>5. CASE ReadRegister
  BY <1>5 DEF ReadRegister, Goto, End, Loop, IInv, Evidence, Permitted, VerdictIsEarned
<1>6. CASE ManualReady
  BY <1>6 DEF ManualReady, Goto, IInv, Evidence, Permitted, VerdictIsEarned
<1>7. CASE ReadManual
  BY <1>7 DEF ReadManual, Goto, End, Loop, IInv, Evidence, Permitted, VerdictIsEarned
<1>8. CASE ManualDone
  BY <1>8, ThroughEnds
     DEF ManualDone, Goto, End, IInv, Evidence, FramesSent, SpeedsShown, SpeedsProved,
         Permitted, VerdictIsEarned
<1>9. CASE CommandReady
  BY <1>9, ThroughEnds
     DEF CommandReady, Goto, IInv, Evidence, FramesSent, SpeedsShown, SpeedsProved, Permitted,
         VerdictIsEarned
<1>10. CASE ReadBefore
  BY <1>10 DEF ReadBefore, FaultBefore, Goto, End, IInv, VerdictIsEarned
<1>11. CASE Acknowledged
  BY <1>11 DEF Acknowledged, Goto, IInv, VerdictIsEarned
<1>12. CASE ReadAfter
  BY <1>12 DEF ReadAfter, Goto, End, IInv, Evidence, Permitted, VerdictIsEarned
<1>13. CASE ReadStopped
  <2>1. /\ pc = "stopAfter" /\ lastFault' = pump.fault
        /\ stopped' = (~pump.on /\ pump.capacity = 0)
        /\ exit' = "passed" => ~pump.fault /\ ~pump.on /\ pump.capacity = 0
        /\ UNCHANGED <<shown, frames, proved>>
    BY <1>13 DEF ReadStopped, CleanOff, End
  <2>2. shown = SpeedSet /\ frames = Append(Speeds, 0) /\ proved = SpeedSet
    BY <2>1 DEF IInv, Evidence, FramesSent, SpeedsShown, SpeedsProved, Writing
  <2> QED
    BY <2>1, <2>2, StopFrames DEF VerdictIsEarned
<1>14. ASSUME NEW b \in BOOLEAN, Unlock(b)
      PROVE  VerdictIsEarned'
  BY <1>14, ThroughEnds
     DEF Unlock, IInv, Evidence, FramesSent, SpeedsShown, SpeedsProved, Permitted,
         VerdictIsEarned, Writing
<1>15. ASSUME NEW b \in BOOLEAN, WriteSpeed(b)
      PROVE  VerdictIsEarned'
  BY <1>15 DEF WriteSpeed, SendWrite, Goto, IInv, Evidence, Permitted, VerdictIsEarned
<1>16. ASSUME NEW b \in BOOLEAN, Confirm(b)
      PROVE  VerdictIsEarned'
  BY <1>16 DEF Confirm, Goto, End, Loop, IInv, Evidence, Permitted, VerdictIsEarned
<1>17. ASSUME NEW b \in BOOLEAN, AskOff(b)
      PROVE  VerdictIsEarned'
  BY <1>17, ThroughEnds
     DEF AskOff, IInv, Evidence, FramesSent, SpeedsShown, SpeedsProved, Permitted,
         VerdictIsEarned
<1>18. ASSUME NEW b \in BOOLEAN, UnlockStop(b)
      PROVE  VerdictIsEarned'
  BY <1>18, ThroughEnds
     DEF UnlockStop, IInv, Evidence, FramesSent, SpeedsShown, SpeedsProved, Permitted,
         VerdictIsEarned
<1>19. ASSUME NEW b \in BOOLEAN, WriteStop(b)
      PROVE  VerdictIsEarned'
  BY <1>19 DEF WriteStop, SendWrite, Goto, IInv, Evidence, Permitted, VerdictIsEarned
<1>20. ASSUME NEW p \in Pumps, PumpChanges(p)
      PROVE  VerdictIsEarned'
  BY <1>20 DEF PumpChanges, IInv, VerdictIsEarned
<1>21. CASE UNCHANGED vars
  BY <1>21 DEF IInv, VerdictIsEarned
<1> QED
  BY <1>1, <1>2, <1>3, <1>4, <1>5, <1>6, <1>7, <1>8, <1>9, <1>10, <1>11, <1>12, <1>13, <1>14,
     <1>15, <1>16, <1>17, <1>18, <1>19, <1>20, <1>21 DEF Next

-----------------------------------------------------------------------------
\* The tool starts in its invariant.
LEMMA InitIInv == Init => IInv
<1> SUFFICES ASSUME Init
             PROVE  IInv
  OBVIOUS
<1>1. TypeOK
  <2>1. frames \in Seq(SpeedSet \cup {0})
    BY EmptySeq DEF Init
  <2>2. at \in 1..Len(Speeds) \cup 1..Registers
    BY SpeedsFacts DEF Init
  <2>3. /\ readOnly \in BOOLEAN /\ faulty \in BOOLEAN
        /\ lastFault \in BOOLEAN /\ stopped \in BOOLEAN
    BY Zenon DEF Init
  <2> QED
    BY <2>1, <2>2, <2>3 DEF Init, TypeOK, Steps, Verdicts
<1>2. AtInLoop
  BY DEF Init, AtInLoop
<1>3. Evidence
  BY DEF Init, Evidence, FramesSent, SpeedsShown, SpeedsProved, Permitted, Writing
<1>4. VerdictIsEarned
  BY DEF Init, VerdictIsEarned
<1> QED
  BY <1>1, <1>2, <1>3, <1>4 DEF IInv

\* Every step of tool, operator and pump keeps it.
LEMMA NextKeepsIInv == IInv /\ [Next]_vars => IInv'
<1> SUFFICES ASSUME IInv, [Next]_vars
             PROVE  IInv'
  OBVIOUS
<1>1. TypeOK' /\ AtInLoop'
  BY TypeStep, LoopStep
<1>2. Evidence'
  BY FramesStep, ShownStep, ProvedStep, PermittedStep DEF Evidence
<1>3. VerdictIsEarned'
  BY VerdictStep
<1> QED
  BY <1>1, <1>2, <1>3 DEF IInv

(***************************************************************************)
(* The invariant holds in every reachable state, for all constants: which  *)
(* frames are out, which speeds are shown and proved at each point of      *)
(* _main, and what the final "passed" stands on.                           *)
(***************************************************************************)
THEOREM InductiveInvariant == Spec => []IInv
  BY InitIInv, NextKeepsIInv, PTL DEF Spec

(***************************************************************************)
(* The tool says that all tests passed only if every speed was seen by     *)
(* hand and every frame it sent was acknowledged, read back and confirmed. *)
(***************************************************************************)
THEOREM VerdictEarned == Spec => []VerdictIsEarned
<1>1. IInv => VerdictIsEarned
  BY DEF IInv
<1> QED
  BY <1>1, InductiveInvariant, PTL

(***************************************************************************)
(* A step that sends a frame is a step of WriteSpeed or WriteStop, and is  *)
(* earned.                                                                 *)
(***************************************************************************)
Earned ==
    frames' # frames =>
        /\ ~readOnly /\ "writes" \in unlocked
        /\ shown = SpeedSet
        /\ ~lastFault
        /\ proved = ToSet(frames)
        /\ \/ Len(frames) < Len(Speeds) /\ frames' = Append(frames, Speeds[Len(frames) + 1])
           \/ frames' = Append(Speeds, 0) /\ "stop" \in unlocked

\* Only the two write actions change the frames; at both, the invariant says it all.
LEMMA WriteIsEarned ==
  ASSUME IInv, [Next]_vars
  PROVE  Earned
<1>1. ASSUME NEW b \in BOOLEAN, WriteSpeed(b)
      PROVE  Earned
  <2>1. pc = "write" /\ frames' = Append(frames, Speeds[at])
    BY <1>1 DEF WriteSpeed, SendWrite
  <2>2. /\ ~readOnly /\ "writes" \in unlocked /\ shown = SpeedSet /\ ~lastFault
        /\ proved = ToSet(frames) /\ frames = Through(at - 1) /\ at \in 1..Len(Speeds)
    BY <2>1 DEF IInv, AtInLoop, Evidence, FramesSent, SpeedsShown, SpeedsProved, Permitted,
                Writing
  <2>3. Len(frames) = at - 1
    <3>1. at - 1 \in 0..Len(Speeds)
      BY <2>2, SpeedsFacts
    <3> QED
      BY <2>2, <3>1, ThroughFacts
  <2>4. Len(frames) < Len(Speeds) /\ Len(frames) + 1 = at
    BY <2>2, <2>3, SpeedsFacts
  <2> QED
    BY <2>1, <2>2, <2>4 DEF Earned
<1>2. ASSUME NEW b \in BOOLEAN, WriteStop(b)
      PROVE  Earned
  <2>1. pc = "stopWrite" /\ frames' = Append(frames, 0)
    BY <1>2 DEF WriteStop, SendWrite
  <2>2. /\ ~readOnly /\ "writes" \in unlocked /\ shown = SpeedSet /\ ~lastFault
        /\ "stop" \in unlocked /\ frames = Speeds /\ proved = SpeedSet
    BY <2>1 DEF IInv, Evidence, FramesSent, SpeedsShown, SpeedsProved, Permitted, Writing
  <2> QED
    BY <2>1, <2>2 DEF Earned, SpeedSet
<1>3. CASE frames' = frames
  BY <1>3 DEF Earned
<1> QED
  BY <1>1, <1>2, <1>3
     DEF Next, TransactionFails, OperatorAborts, InputEnds, ReadBlock, ReadRegister,
         ManualReady, ReadManual, ManualDone, CommandReady, ReadBefore, Acknowledged,
         ReadAfter, ReadStopped, Unlock, Confirm, AskOff, UnlockStop, PumpChanges

(***************************************************************************)
(* No write frame leaves the tool unearned, in whatever way the operator,  *)
(* the connection and the pump behave.                                     *)
(***************************************************************************)
THEOREM EveryWriteEarned == Spec => WritesAreEarned
<1>1. IInv /\ [Next]_vars => [Earned]_vars
  BY WriteIsEarned
<1>2. [][Earned]_vars => WritesAreEarned
  BY PTL DEF WritesAreEarned, Earned
<1> QED
  BY <1>1, <1>2, InductiveInvariant, PTL DEF Spec
=============================================================================
