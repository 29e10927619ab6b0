----------------------------- MODULE GameProofs ------------------------------
(***************************************************************************)
(* What a game relies on once a frame: to be told that the frame has ended *)
(* (FrameSync), for any lines, line lengths and DMA length, and then to    *)
(* read the eight buttons (Controller), for every key map and every        *)
(* sequence of reports.                                                    *)
(***************************************************************************)
EXTENDS FrameSync, Controller, TLAPS

(* The CPU sees an NMI level within one DMA and one cycle, torn samples of *)
(* the line number included.                                               *)
IInv == TypeOK /\ DetectInv

LEMMA InitInv == Init => IInv
<1> SUFFICES ASSUME Init PROVE IInv
  OBVIOUS
<1>1. LineNo[1] \in 0 .. 1023 /\ 1 \in Line
  BY FrameAssumption DEF Line
<1>2. TypeOK
  <2>1. 0 \in 0 .. CplMax /\ 0 \in 0 .. MaxStall /\ 0 \in 0 .. MaxSuspended
        /\ 0 \in 0 .. MaxRaises + 1 /\ 0 \in 0 .. MaxStall + 1
    BY FrameAssumption DEF MaxSuspended
  <2>2. ppuRan \in BOOLEAN /\ nmi \in BOOLEAN /\ ctrl7 \in BOOLEAN /\ vbl \in BOOLEAN
        /\ NMI_n_o \in BOOLEAN /\ on \in BOOLEAN /\ accessed \in BOOLEAN
    BY DEF Init
  <2> QED
    BY <1>1, <2>1, <2>2 DEF Init, TypeOK
<1>3. DetectInv
  BY FrameAssumption DEF Init, DetectInv, MaxSuspended
<1> QED
  BY <1>2, <1>3 DEF IInv

LEMMA NextLineInv == IInv /\ NextLine => IInv'
<1> SUFFICES ASSUME IInv, NextLine PROVE IInv'
  OBVIOUS
<1> USE DEF IInv
<1>1. line' \in Line
  BY FrameAssumption DEF NextLine, TypeOK, Line
<1>2. DrawY \in 0 .. 1023 /\ LineNo[line'] \in 0 .. 1023
  BY <1>1, FrameAssumption DEF TypeOK, DrawY
<1>3. ppuOld' \in 0 .. 1023 /\ cpuOld' \in 0 .. 1023 /\ cyc' \in 0 .. CplMax
  BY <1>2, FrameAssumption, SMTT(30) DEF NextLine
<1>4. acts' \in Nat /\ raises' \in 0 .. MaxRaises + 1
  BY FrameAssumption DEF NextLine, TypeOK
<1>5. on' \in BOOLEAN /\ accessed' \in BOOLEAN
  BY ZenonT(30) DEF NextLine, TypeOK
<1>6. TypeOK'
  BY <1>1, <1>3, <1>4, <1>5, SMTT(30) DEF NextLine, TypeOK
<1> QED
  BY <1>6 DEF NextLine, DetectInv

LEMMA PpuEdgeInv == IInv /\ PpuEdge => IInv'
<1> SUFFICES ASSUME IInv, PpuEdge PROVE IInv'
  OBVIOUS
<1>1. DrawY \in 0 .. 1023
  BY FrameAssumption DEF IInv, TypeOK, DrawY
<1>2. nmi' \in BOOLEAN
  <2>1. PICK y : nmi' = (NmiLine(y) /\ ctrl7)
    BY DEF PpuEdge
  <2>2. (NmiLine(y) /\ ctrl7) \in BOOLEAN
    OBVIOUS
  <2> QED
    BY <2>1, <2>2
<1> QED
  BY <1>1, <1>2 DEF IInv, TypeOK, DetectInv, PpuEdge, beam, history

(* What every edge of cpu_clk keeps of TypeOK.                             *)
LEMMA EdgeType ==
  ASSUME TypeOK, NEW reg, AnyCpuEdge(reg)
  PROVE  /\ line' \in Line /\ cyc' \in 0 .. CplMax
         /\ ppuOld' \in 0 .. 1023 /\ cpuOld' \in 0 .. 1023
         /\ ppuRan' \in BOOLEAN /\ nmi' = nmi /\ nmi' \in BOOLEAN /\ vbl' \in BOOLEAN
         /\ held' \in 0 .. MaxStall + 1 /\ accessed' \in BOOLEAN
<1>1. DrawY \in 0 .. 1023
  BY FrameAssumption DEF TypeOK, DrawY
<1>2. vbl' \in BOOLEAN
  <2>1. PICK y : VblankFlag(reg, y)
    BY DEF AnyCpuEdge
  <2> QED
    BY <2>1, ZenonT(30) DEF VblankFlag, TypeOK
<1>3. held' \in 0 .. MaxStall + 1
  BY FrameAssumption DEF AnyCpuEdge, TypeOK
<1>4. accessed' \in BOOLEAN
  BY DEF AnyCpuEdge, TypeOK
<1>5. line' = line /\ ppuOld' = ppuOld /\ nmi' = nmi /\ ppuRan' = FALSE /\ cpuOld' = DrawY
  BY DEF AnyCpuEdge
<1>6. cyc' \in 0 .. CplMax
  BY FrameAssumption DEF AnyCpuEdge, TypeOK
<1>7. nmi' \in BOOLEAN
  BY <1>5, Zenon, ZenonT(30) DEF TypeOK
<1>8. line' \in Line /\ ppuOld' \in 0 .. 1023 /\ cpuOld' \in 0 .. 1023
  BY <1>1, <1>5 DEF TypeOK
<1>9. ppuRan' \in BOOLEAN
  BY <1>5
<1> QED
  BY <1>2, <1>3, <1>4, <1>5, <1>6, <1>7, <1>8, <1>9

LEMMA FreshSum ==
  \A m \in Nat : \A n \in 0 .. m : \A k \in Nat : k = 0 => k + n <= m
  OBVIOUS

LEMMA StepSum ==
  \A m, h, k, s, t \in Nat : k <= h + 1 /\ t = s - 1 /\ h + s <= m => k + t <= m
  OBVIOUS

(* A cycle in which the detector looks.                                    *)
LEMMA SampledInv ==
  ASSUME IInv, NEW reg, AnyCpuEdge(reg), SampleNmi,
         ctrl7' \in BOOLEAN, on' \in BOOLEAN, raises' \in 0 .. MaxRaises + 1,
         stall' \in 0 .. MaxStall, suspended' \in 0 .. MaxSuspended,
         stall' = 0 \/ suspended' = MaxSuspended
  PROVE  IInv'
<1> USE DEF IInv
<1>1. NMI_n_o' = ~nmi /\ acts' \in Nat
  BY DEF SampleNmi, TypeOK
<1>2. NMI_n_o' \in BOOLEAN
  BY <1>1
<1>3. TypeOK'
  BY EdgeType, <1>1, <1>2 DEF TypeOK
<1>4. NMI_n_o' => held' = 0
  BY <1>1 DEF AnyCpuEdge
<1>5. NMI_n_o' => (stall' = 0 /\ held' <= suspended')
                  \/ (suspended' = MaxSuspended /\ held' + stall' <= MaxStall)
  <2> SUFFICES ASSUME held' = 0
               PROVE  \/ stall' = 0 /\ held' <= suspended'
                      \/ suspended' = MaxSuspended /\ held' + stall' <= MaxStall
    BY <1>4
  <2>0. MaxStall \in Nat /\ held' \in Nat
    BY FrameAssumption
  <2>1. held' + stall' <= MaxStall
    BY <2>0, FreshSum
  <2>2. CASE stall' = 0
    BY <2>2 DEF MaxSuspended
  <2>3. CASE suspended' = MaxSuspended
    BY <2>1, <2>3
  <2> QED
    BY <2>2, <2>3
<1>6. DetectInv'
  BY <1>5 DEF DetectInv
<1> QED
  BY <1>3, <1>6

LEMMA BranchInv == IInv /\ BranchCycle => IInv'
<1> SUFFICES ASSUME IInv, BranchCycle PROVE IInv'
  OBVIOUS
<1> USE DEF IInv
<1>1. suspended' = suspended + 1 /\ suspended' \in 0 .. MaxSuspended
  BY DEF BranchCycle, TypeOK, MaxSuspended
<1>2. UNCHANGED <<NMI_n_o, acts, ctrl7, stall, on, raises>>
  BY DEF BranchCycle
<1>9. /\ NMI_n_o' \in BOOLEAN /\ ctrl7' \in BOOLEAN /\ on' \in BOOLEAN
      /\ acts' \in Nat /\ raises' \in 0 .. MaxRaises + 1 /\ stall' \in 0 .. MaxStall
  BY <1>2 DEF TypeOK
<1>3. AnyCpuEdge("other") /\ stall = 0
  BY DEF BranchCycle
<1>4. TypeOK'
  BY EdgeType, <1>1, <1>9, <1>3 DEF TypeOK
<1>5. held' <= held + 1
  BY <1>3, FrameAssumption DEF AnyCpuEdge, TypeOK
<1>6. NMI_n_o => held <= suspended
  BY <1>3 DEF DetectInv, TypeOK, BranchCycle
<1>7. DetectInv'
  BY <1>1, <1>2, <1>3, <1>4, <1>5, <1>6 DEF DetectInv, TypeOK
<1> QED
  BY <1>4, <1>7

LEMMA StalledInv == IInv /\ StalledCycle => IInv'
<1> SUFFICES ASSUME IInv, StalledCycle PROVE IInv'
  OBVIOUS
<1> USE DEF IInv
<1>0. AnyCpuEdge("other") /\ stall > 0 /\ stall' = stall - 1
  BY DEF StalledCycle
<1>1. stall' \in 0 .. MaxStall
  BY <1>0, FrameAssumption DEF TypeOK
<1>2. UNCHANGED <<suspended, NMI_n_o, acts, ctrl7, on, raises>>
  BY DEF StalledCycle
<1>9. /\ NMI_n_o' \in BOOLEAN /\ ctrl7' \in BOOLEAN /\ on' \in BOOLEAN
      /\ acts' \in Nat /\ raises' \in 0 .. MaxRaises + 1
      /\ suspended' \in 0 .. MaxSuspended
  BY <1>2 DEF TypeOK
<1>3. TypeOK'
  <2>1. TypeOK /\ AnyCpuEdge("other")
    BY <1>0
  <2> HIDE DEF IInv
  <2> QED
    BY EdgeType, <2>1, <1>1, <1>9 DEF TypeOK
<1>4. held' <= held + 1
  BY <1>0, FrameAssumption DEF AnyCpuEdge, TypeOK
<1>5. ASSUME NMI_n_o
      PROVE  suspended' = MaxSuspended /\ held' + stall' <= MaxStall
  <2>1. suspended = MaxSuspended /\ held + stall <= MaxStall
    BY <1>0, <1>5 DEF DetectInv
  <2>2. held \in Nat /\ held' \in Nat /\ stall \in Nat /\ stall' \in Nat /\ MaxStall \in Nat
    BY <1>3, FrameAssumption DEF TypeOK
  <2>3. suspended' = suspended
    BY <1>2
  <2>4. held' + stall' <= MaxStall
    BY <2>1, <2>2, <1>0, <1>4, StepSum
  <2> QED
    BY <2>1, <2>3, <2>4
<1>6. DetectInv'
  BY <1>2, <1>5 DEF DetectInv
<1> QED
  BY <1>3, <1>6

LEMMA CpuEdgeInv == IInv /\ CpuEdge => IInv'
<1> SUFFICES ASSUME IInv, CpuEdge PROVE IInv'
  OBVIOUS
<1> USE DEF IInv
<1>0. 0 \in 0 .. MaxStall /\ 0 \in 0 .. MaxSuspended /\ MaxSuspended \in 0 .. MaxSuspended
  BY FrameAssumption DEF MaxSuspended
<1>1. CASE OtherCycle
  BY <1>0, <1>1, SampledInv DEF OtherCycle, TypeOK
<1>2. CASE StatusCycle
  BY <1>0, <1>2, SampledInv DEF StatusCycle, TypeOK
<1>3. CASE DmaCycle
  <2>1. stall' \in 0 .. MaxStall
    BY <1>3, FrameAssumption DEF DmaCycle
  <2> QED
    BY <1>0, <1>3, <2>1, SampledInv DEF DmaCycle, TypeOK
<1>4. CASE StalledCycle
  BY <1>4, StalledInv
<1>5. CASE BranchCycle
  BY <1>5, BranchInv
<1>6. ASSUME NEW enable \in BOOLEAN, ControlCycle(enable) PROVE IInv'
  <2>1. raises' \in 0 .. MaxRaises + 1
    BY <1>6, FrameAssumption DEF ControlCycle, TypeOK
  <2>2. on' \in BOOLEAN /\ ctrl7' \in BOOLEAN
    BY <1>6 DEF ControlCycle, TypeOK
  <2>3. AnyCpuEdge("control") /\ SampleNmi /\ stall' = 0 /\ suspended' = 0
    BY <1>6 DEF ControlCycle
  <2> QED
    BY <1>0, <2>1, <2>2, <2>3, SampledInv
<1> QED
  BY <1>1, <1>2, <1>3, <1>4, <1>5, <1>6 DEF CpuEdge

THEOREM Invariance == Spec => []IInv
<1>1. IInv /\ [Next]_vars => IInv'
  <2>1. IInv /\ UNCHANGED vars => IInv'
    BY DEF IInv, TypeOK, DetectInv, vars, beam, history
  <2> QED
    BY <2>1, NextLineInv, PpuEdgeInv, CpuEdgeInv DEF Next
<1> QED
  BY InitInv, <1>1, PTL DEF Spec

LEMMA IInvSeen == IInv => TypeOK /\ SeenInTime
<1> SUFFICES ASSUME IInv, held > MaxStall, NMI_n_o PROVE FALSE
  BY DEF IInv, SeenInTime
<1> QED
  BY FrameAssumption DEF IInv, TypeOK, DetectInv, MaxSuspended

(* The NMI level is seen by the CPU before it has been high for more       *)
(* cpu_clk edges than a DMA takes, whatever the program does meanwhile.    *)
THEOREM NmiSeen == Spec => [](TypeOK /\ SeenInTime)
  BY IInvSeen, Invariance, PTL

-----------------------------------------------------------------------------
(* The rest is about samples that are not torn.  Each property needs a     *)
(* part of FrameInv.                                                       *)
FrameInv ==
    /\ TypeOK /\ SeenInTime
    /\ PulseInv /\ HeldInv /\ LowInv /\ FirstEdgeInv /\ EveryFrame
    /\ RaiseInv /\ OneNmiPerRaise
    /\ FlagInv /\ FlagTracksReads

NextNo == LineNo[IF line = NLines THEN 1 ELSE line + 1]

(* Which lines follow which: no line the code compares with is skipped.    *)
LEMMA NextLineNo ==
    ASSUME line \in Line
    PROVE  /\ DrawY \in 0 .. 524 /\ NextNo \in 0 .. 524 /\ NextNo # DrawY
           /\ DrawY = 480 <=> NextNo = 481
           /\ DrawY = 481 <=> NextNo = 482
           /\ NextNo \in 481 .. 519 => DrawY \in 480 .. 518 /\ DrawY < NextNo
           /\ DrawY \in 480 .. 519 => NextNo \in DrawY + 1 .. 520
           /\ NextNo = 480 => DrawY \notin 480 .. 519
           /\ DrawY = 520 => NextNo \notin 481 .. 520
<1> DEFINE next == IF line = NLines THEN 1 ELSE line + 1
<1>1. next \in Line /\ line \in Line /\ 1 \in Line
  BY FrameAssumption DEF Line
<1>2. \A i \in Line : LineNo[i] \in 0 .. 524
  BY FrameAssumption, LineAssumption
<1>m. \A i, j \in Line : i < j => LineNo[i] < LineNo[j]
  BY LineAssumption
<1>4. DrawY \in 0 .. 524 /\ NextNo \in 0 .. 524
  BY <1>1, <1>2 DEF DrawY, NextNo
<1>3. ASSUME NEW y \in {480, 481, 482, 520}
      PROVE  /\ DrawY < y => next = line + 1 /\ NextNo <= y /\ DrawY < NextNo
             /\ DrawY >= y /\ line # NLines => NextNo > y
             /\ line = NLines => DrawY >= y /\ NextNo <= y
  <2>1. PICK j \in Line : LineNo[j] = y
    BY LineAssumption
  <2>t. y \in Int /\ DrawY \in Int /\ NextNo \in Int
    BY <1>4
  <2>i. j \in Int /\ line \in Int /\ 1 <= j /\ j <= NLines /\ 1 <= line /\ line <= NLines /\ NLines \in Int
    BY <2>1, <1>1, FrameAssumption DEF Line
  <2>2. ASSUME DrawY < y
        PROVE  next = line + 1 /\ NextNo <= y /\ DrawY < NextNo
    <3>1. line < j
      <4>1. CASE j < line
        BY <4>1, <1>1, <1>m, <2>1, <2>2, <2>i, <2>t DEF DrawY
      <4>2. CASE j = line
        BY <4>2, <1>2, <2>1, <2>2 DEF DrawY
      <4> QED
        BY <4>1, <4>2, <2>i
    <3>2. next = line + 1 /\ next <= j
      BY <3>1, <2>i
    <3>3. NextNo <= y
      <4>1. next = j \/ next < j
        BY <3>2, <2>i, <1>1 DEF Line
      <4> QED
        BY <4>1, <1>1, <1>m, <2>1, <2>t DEF NextNo
    <3>4. DrawY < NextNo
      BY <3>2, <1>1, <1>m, <2>i DEF NextNo, DrawY
    <3> QED
      BY <3>2, <3>3, <3>4
  <2>3. ASSUME DrawY >= y, line # NLines
        PROVE  NextNo > y
    <3>1. next = line + 1 /\ line < next
      BY <2>3, <2>i
    <3>2. DrawY < NextNo
      BY <3>1, <1>1, <1>m DEF DrawY, NextNo
    <3> QED
      BY <3>2, <2>3, <2>t
  <2>4. ASSUME line = NLines
        PROVE  DrawY >= y /\ NextNo <= y
    <3>1. DrawY >= y
      <4>1. CASE j < line
        <5>1. LineNo[j] < LineNo[line]
          BY <4>1, <1>1, <1>m
        <5> QED
          BY <5>1, <2>1, <2>t DEF DrawY
      <4>2. CASE j = line
        BY <4>2, <2>1, <2>t DEF DrawY
      <4> QED
        BY <4>1, <4>2, <2>4, <2>i
    <3>2. NextNo <= y
      <4>1. next = 1
        BY <2>4
      <4>2. CASE 1 < j
        <5>1. LineNo[next] < LineNo[j]
          BY <4>1, <4>2, <1>1, <1>m
        <5> QED
          BY <5>1, <2>1, <2>t DEF NextNo
      <4>3. CASE j = 1
        BY <4>1, <4>3, <2>1, <2>t DEF NextNo
      <4> QED
        BY <4>2, <4>3, <2>i
    <3> QED
      BY <3>1, <3>2
  <2> QED
    BY <2>2, <2>3, <2>4
<1>5. /\ line # NLines => DrawY < NextNo
      /\ line = NLines => DrawY >= 520 /\ NextNo <= 480
  <2>1. line # NLines => DrawY < NextNo
    BY <1>1, <1>m, FrameAssumption DEF DrawY, NextNo, Line
  <2>2. line = NLines => DrawY >= 520 /\ NextNo <= 480
    BY <1>3
  <2> QED
    BY <2>1, <2>2
<1>6. /\ DrawY < 480 => NextNo <= 480
      /\ DrawY < 481 => NextNo <= 481
      /\ DrawY < 482 => NextNo <= 482
      /\ DrawY < 520 => NextNo <= 520
  BY <1>3
<1> QED
  BY <1>4, <1>5, <1>6

(* Without tearing every sample is of the line itself.                     *)
LEMMA TrueSample ==
    ASSUME ~Tearing, NEW old
    PROVE  Samples(old) = {DrawY}
  BY DEF Samples

(* The level belongs to the two lines of the pulse.                        *)
LEMMA PulseLines == \A y \in 0 .. 524 : NmiLine(y) <=> y \in {480, 481}
  BY DEF NmiLine

LEMMA FrameInit == Init => FrameInv
<1> SUFFICES ASSUME Init PROVE FrameInv
  OBVIOUS
<1>1. TypeOK /\ MaxStall \in Nat
  BY InitInv, FrameAssumption DEF IInv
<1>2. line \in Line /\ line = 1 /\ DrawY \in 0 .. 480
  <2>1. PICK j \in Line : LineNo[j] = 480
    BY LineAssumption
  <2>2. 1 \in Line /\ (j = 1 \/ 1 < j)
    BY <2>1, FrameAssumption DEF Line
  <2>3. LineNo[1] <= 480 /\ LineNo[1] \in Nat
    BY <2>1, <2>2, LineAssumption, FrameAssumption
  <2> QED
    BY <2>2, <2>3 DEF Init, DrawY
<1> QED
  BY <1>1, <1>2, SMTT(30) DEF Init, FrameInv, SeenInTime, PulseInv, HeldInv, LowInv, FirstEdgeInv, EveryFrame,
     RaiseInv, OneNmiPerRaise, FlagInv, FlagTracksReads, Late

(* The beam enters the next line.                                          *)
LEMMA NextLineFrame ==
    ASSUME FrameInv, NextLine, ~Tearing, TypeOK', SeenInTime'
    PROVE  FrameInv'
<1> DEFINE y == DrawY
           z == NextNo
<1>1. /\ y \in 0 .. 524 /\ z \in 0 .. 524 /\ z # y
      /\ y = 480 <=> z = 481
      /\ y = 481 <=> z = 482
      /\ z \in 481 .. 519 => y \in 480 .. 518 /\ y < z
      /\ y \in 480 .. 519 => z \in y + 1 .. 520
      /\ z = 480 => y \notin 480 .. 519
      /\ y = 520 => z \notin 481 .. 520
  BY NextLineNo DEF FrameInv, TypeOK
<1>2. DrawY' = z /\ cyc >= CplMin /\ cyc' = 0
  BY DEF NextLine, DrawY, NextNo
<1>3. UNCHANGED <<ppuRan, nmi, ctrl7, vbl, stall, suspended, NMI_n_o, held>>
  BY DEF NextLine
<1>4. /\ z = 480 => acts' = 0 /\ ~accessed' /\ on' = ctrl7 /\ raises' = IF ctrl7 THEN 1 ELSE 0
      /\ z # 480 => UNCHANGED <<acts, accessed, on, raises>>
  BY DEF NextLine, NextNo
<1>5. /\ cyc \in Nat /\ CplMin \in Nat /\ MaxStall \in Nat /\ CplMin >= 2 /\ 2 * CplMin > MaxStall + 1
      /\ MaxSuspended <= MaxStall /\ MaxSuspended \in Nat
      /\ held \in Nat /\ stall \in Nat /\ suspended \in 0 .. MaxSuspended
      /\ acts \in Nat /\ raises \in Nat
  BY FrameAssumption DEF FrameInv, TypeOK, MaxSuspended
<1>6. nmi => y \in {480, 481}
  BY <1>2, <1>5 DEF FrameInv, PulseInv, Late
<1>7. PulseInv'
  BY <1>1, <1>2, <1>3, <1>4, <1>5, <1>6 DEF FrameInv, PulseInv, Late
<1>8. HeldInv'
  BY <1>1, <1>2, <1>3, <1>4, <1>5 DEF FrameInv, HeldInv
<1>9. y \notin 480 .. 482 => NMI_n_o
  BY <1>2, <1>5 DEF FrameInv, LowInv
<1>10. LowInv'
  BY <1>1, <1>2, <1>3, <1>5, <1>9 DEF FrameInv, LowInv
<1>11. FirstEdgeInv'
  BY <1>1, <1>3, <1>4, <1>9 DEF FrameInv, FirstEdgeInv
<1>12. EveryFrame'
  <2> SUFFICES ASSUME z = 482, on' PROVE acts' >= 1
    BY <1>2 DEF EveryFrame
  <2>n. z # 480
    OBVIOUS
  <2>0. UNCHANGED <<acts, accessed, on, raises>>
    BY <1>4, <2>n, Zenon
  <2>1. y = 481 /\ on /\ acts' = acts
    BY <1>1, <2>0
  <2>2. nmi /\ held > MaxStall
    BY <1>2, <1>5, <2>1 DEF FrameInv, PulseInv, HeldInv
  <2>3. ~NMI_n_o
    BY <2>2 DEF FrameInv, SeenInTime
  <2> QED
    BY <1>5, <2>1, <2>3 DEF FrameInv, FirstEdgeInv
<1>13. RaiseInv'
  <2>1. NmiLine(z) <=> z \in {480, 481}
    BY <1>1, PulseLines
  <2>2. NmiLine(y) <=> y \in {480, 481}
    BY <1>1, PulseLines
  <2> QED
    BY <1>1, <1>2, <1>3, <1>4, <1>5, <1>6, <2>1, <2>2 DEF FrameInv, RaiseInv
<1>14. OneNmiPerRaise'
  BY <1>4, <1>5 DEF FrameInv, OneNmiPerRaise
<1>15. FlagInv'
  BY <1>2, <1>4 DEF FlagInv
<1>16. FlagTracksReads'
  <2>1. z \in 481 .. 519 => (vbl <=> ~accessed)
    BY <1>1, <1>2, <1>5 DEF FrameInv, FlagInv, FlagTracksReads
  <2>2. vbl => z \in 480 .. 520
    BY <1>1, <1>2, <1>5 DEF FrameInv, FlagTracksReads
  <2> QED
    BY <1>1, <1>2, <1>3, <1>4, <2>1, <2>2 DEF FlagTracksReads
<1> QED
  BY <1>7, <1>8, <1>10, <1>11, <1>12, <1>13, <1>14, <1>15, <1>16 DEF FrameInv

(* The level is made from the line.                                        *)
LEMMA PpuEdgeFrame ==
    ASSUME FrameInv, PpuEdge, ~Tearing, TypeOK', SeenInTime'
    PROVE  FrameInv'
<1>1. /\ nmi' = (NmiLine(DrawY) /\ ctrl7) /\ ppuRan'
      /\ DrawY' = DrawY
      /\ UNCHANGED <<line, cyc, ctrl7, vbl, stall, suspended, NMI_n_o, acts, raises, held, on, accessed>>
  BY TrueSample DEF PpuEdge, DrawY, beam, history
<1>2. DrawY \in 0 .. 524 /\ (NmiLine(DrawY) <=> DrawY \in {480, 481})
  BY NextLineNo, PulseLines DEF FrameInv, TypeOK
<1>3. PulseInv'
  BY <1>1, <1>2, ZenonT(30) DEF FrameInv, PulseInv
<1>4. HeldInv' /\ LowInv' /\ FirstEdgeInv' /\ EveryFrame' /\ OneNmiPerRaise' /\ FlagInv'
      /\ FlagTracksReads'
  BY <1>1 DEF FrameInv, HeldInv, LowInv, FirstEdgeInv, EveryFrame, OneNmiPerRaise, FlagInv,
     FlagTracksReads
<1>5. RaiseInv'
  BY <1>1 DEF FrameInv, RaiseInv
<1> QED
  BY <1>3, <1>4, <1>5 DEF FrameInv

(* What the three kinds of cpu_clk edge do to the detector: it samples, a  *)
(* branch holds it, or a DMA stops the CPU.                                *)
Sampled ==
    /\ NMI_n_o' <=> ~nmi
    /\ acts' = IF NMI_n_o /\ nmi THEN acts + 1 ELSE acts
    /\ stall' = 0 \/ suspended' = MaxSuspended
Branching ==
    /\ (NMI_n_o' <=> NMI_n_o) /\ acts' = acts /\ stall = 0 /\ stall' = 0
    /\ suspended < MaxSuspended /\ suspended' = suspended + 1
Stopped ==
    /\ (NMI_n_o' <=> NMI_n_o) /\ acts' = acts /\ stall > 0 /\ stall' = stall - 1
    /\ suspended' = suspended

(* The beam stands still and the register may change at any such edge.     *)
LEMMA EdgeFrame ==
    ASSUME FrameInv, ~Tearing, NEW reg, AnyCpuEdge(reg), TypeOK', SeenInTime',
           Sampled \/ Branching \/ Stopped,
           on' <=> on /\ ctrl7',
           raises' = IF ctrl7' /\ ~ctrl7 /\ NmiLine(DrawY) THEN raises + 1 ELSE raises
    PROVE  FrameInv'
<1> DEFINE status == reg = "status"
<1>1. /\ DrawY' = DrawY /\ (nmi' <=> nmi) /\ ppuRan /\ ~ppuRan' /\ cyc' = cyc + 1
      /\ held' = IF ~nmi THEN 0 ELSE IF held > MaxStall THEN held ELSE held + 1
  BY DEF AnyCpuEdge, DrawY
<1>a. accessed' <=> accessed \/ (status /\ DrawY > 480)
  BY Zenon DEF AnyCpuEdge
<1>2. vbl' <=> DrawY = 480 \/ (vbl /\ ~status /\ DrawY # 520)
  <2>1. VblankFlag(reg, DrawY)
    BY TrueSample, Zenon DEF AnyCpuEdge
  <2> QED
    BY <2>1, Zenon DEF VblankFlag
<1> HIDE DEF status
<1>3. DrawY \in 0 .. 524 /\ (NmiLine(DrawY) <=> DrawY \in {480, 481})
  BY NextLineNo, PulseLines DEF FrameInv, TypeOK
<1>4. /\ cyc \in Nat /\ CplMin \in Nat /\ MaxStall \in Nat /\ CplMin >= 2
      /\ MaxSuspended = 1 /\ MaxSuspended <= MaxStall
      /\ held \in Nat /\ stall \in Nat /\ suspended \in 0 .. MaxSuspended
      /\ stall' \in 0 .. MaxStall /\ suspended' \in 0 .. MaxSuspended
      /\ acts \in Nat /\ raises \in Nat
  BY FrameAssumption DEF FrameInv, TypeOK, MaxSuspended
<1>5. acts' >= acts /\ (acts' = 0 => NMI_n_o')
  BY <1>4 DEF Sampled, Branching, Stopped, FrameInv, FirstEdgeInv
<1>6. PulseInv'
  BY <1>1, <1>3, <1>4 DEF FrameInv, PulseInv, Late
<1>7. HeldInv'
  BY <1>1, <1>3, <1>4 DEF FrameInv, HeldInv, PulseInv, Late
<1>8. LowInv'
  <2>1. stall' > 0 => suspended' = MaxSuspended
    BY <1>4 DEF Sampled, Branching, Stopped, FrameInv, LowInv
  <2>2. ASSUME ~NMI_n_o', DrawY = 482, cyc + 1 > 1
        PROVE  \/ stall' = 0 /\ cyc <= suspended'
               \/ suspended' = MaxSuspended /\ cyc + stall' <= MaxStall
    <3>1. ~nmi /\ cyc > 0
      BY <1>1, <1>4, <2>2 DEF FrameInv, PulseInv, Late
    <3>2. ~Sampled /\ ~NMI_n_o
      BY <2>2, <3>1 DEF Sampled, Branching, Stopped
    <3>3. CASE Branching
      BY <1>4, <2>2, <3>1, <3>2, <3>3 DEF Branching, FrameInv, LowInv
    <3>4. CASE Stopped
      BY <1>4, <2>2, <3>1, <3>2, <3>4 DEF Stopped, FrameInv, LowInv, TypeOK
    <3> QED
      BY <3>2, <3>3, <3>4
  <2>3. ASSUME ~NMI_n_o', DrawY \notin 480 .. 482
        PROVE  \/ stall' = 0 /\ CplMin + cyc <= suspended'
               \/ suspended' = MaxSuspended /\ CplMin + cyc + stall' <= MaxStall
    <3>1. ~nmi
      BY <1>3, <2>3 DEF FrameInv, PulseInv
    <3>2. ~Sampled /\ ~NMI_n_o
      BY <2>3, <3>1 DEF Sampled, Branching, Stopped
    <3>3. CASE Branching
      BY <1>4, <2>3, <3>2, <3>3 DEF Branching, FrameInv, LowInv
    <3>4. CASE Stopped
      BY <1>4, <2>3, <3>2, <3>4 DEF Stopped, FrameInv, LowInv
    <3> QED
      BY <3>2, <3>3, <3>4
  <2>4. DrawY' = DrawY /\ cyc' = cyc + 1 /\ cyc' - 1 = cyc /\ CplMin - 1 + cyc' = CplMin + cyc
    BY <1>1, <1>4
  <2>5. ~NMI_n_o' /\ DrawY' = 482 /\ cyc' > 1 =>
              \/ stall' = 0 /\ cyc' - 1 <= suspended'
              \/ suspended' = MaxSuspended /\ cyc' - 1 + stall' <= MaxStall
    BY <2>2, <2>4
  <2>6. ~NMI_n_o' /\ DrawY' \notin 480 .. 482 =>
              \/ stall' = 0 /\ CplMin - 1 + cyc' <= suspended'
              \/ suspended' = MaxSuspended /\ CplMin - 1 + cyc' + stall' <= MaxStall
    BY <2>3, <2>4
  <2> QED
    BY <2>1, <2>5, <2>6, Zenon, SMTT(30) DEF LowInv
<1>9. FirstEdgeInv'
  BY <1>5 DEF FirstEdgeInv
<1>10. EveryFrame'
  <2>1. acts' \in Nat
    BY DEF TypeOK
  <2> QED
    BY <1>1, <1>4, <1>5, <2>1 DEF FrameInv, EveryFrame
<1>11. RaiseInv' /\ OneNmiPerRaise'
  <2>1. CASE Sampled
    BY <1>1, <1>4, <2>1 DEF Sampled, FrameInv, RaiseInv, OneNmiPerRaise
  <2>2. CASE Branching \/ Stopped
    BY <1>1, <1>4, <2>2 DEF Branching, Stopped, FrameInv, RaiseInv, OneNmiPerRaise
  <2> QED
    BY <2>1, <2>2
<1>12. FlagInv'
  BY <1>1, <1>a, <1>2, <1>4 DEF FrameInv, FlagInv
<1>13. FlagTracksReads'
  BY <1>1, <1>a, <1>2, <1>3, <1>4 DEF FrameInv, FlagTracksReads
<1> QED
  BY <1>6, <1>7, <1>8, <1>9, <1>10, <1>11, <1>12, <1>13 DEF FrameInv

LEMMA CpuEdgeFrame ==
    ASSUME FrameInv, CpuEdge, ~Tearing, TypeOK', SeenInTime'
    PROVE  FrameInv'
<1>d. ASSUME SampleNmi, stall' = 0 \/ suspended' = MaxSuspended PROVE Sampled
  <2>1. NMI_n_o' <=> ~nmi
    BY <1>d, Zenon DEF SampleNmi
  <2>2. acts' = IF NMI_n_o /\ nmi THEN acts + 1 ELSE acts
    BY <1>d DEF SampleNmi
  <2> QED
    BY <1>d, <2>1, <2>2 DEF Sampled
<1>0. /\ on => ctrl7
      /\ UNCHANGED <<ctrl7, on, raises>> =>
            /\ on' <=> on /\ ctrl7'
            /\ raises' = IF ctrl7' /\ ~ctrl7 /\ NmiLine(DrawY) THEN raises + 1 ELSE raises
  BY DEF FrameInv, PulseInv
<1>1. CASE OtherCycle
  <2>1. AnyCpuEdge("other") /\ Sampled /\ UNCHANGED <<ctrl7, on, raises>>
    BY <1>1, <1>d DEF OtherCycle
  <2> QED
    BY <1>0, <2>1, EdgeFrame, Zenon
<1>2. CASE StatusCycle
  <2>1. AnyCpuEdge("status") /\ Sampled /\ UNCHANGED <<ctrl7, on, raises>>
    BY <1>2, <1>d DEF StatusCycle
  <2> QED
    BY <1>0, <2>1, EdgeFrame, Zenon
<1>3. CASE DmaCycle
  <2>1. AnyCpuEdge("other") /\ Sampled /\ UNCHANGED <<ctrl7, on, raises>>
    BY <1>3, <1>d DEF DmaCycle
  <2> QED
    BY <1>0, <2>1, EdgeFrame, Zenon
<1>4. CASE StalledCycle
  <2>1. AnyCpuEdge("other") /\ Stopped /\ UNCHANGED <<ctrl7, on, raises>>
    BY <1>4, Zenon DEF StalledCycle, Stopped
  <2> QED
    BY <1>0, <2>1, EdgeFrame, Zenon
<1>5. CASE BranchCycle
  <2>1. AnyCpuEdge("other") /\ Branching /\ UNCHANGED <<ctrl7, on, raises>>
    BY <1>5, Zenon DEF BranchCycle, Branching
  <2> QED
    BY <1>0, <2>1, EdgeFrame, Zenon
<1>6. ASSUME NEW enable \in BOOLEAN, ControlCycle(enable) PROVE FrameInv'
  <2>1. AnyCpuEdge("control") /\ Sampled
    BY <1>6, <1>d DEF ControlCycle
  <2>2. ctrl7' = enable /\ on' = (on /\ enable)
        /\ raises' = IF enable /\ ~ctrl7 /\ NmiLine(DrawY) THEN raises + 1 ELSE raises
    BY <1>6 DEF ControlCycle
  <2>3. (on' <=> on /\ ctrl7')
        /\ raises' = IF ctrl7' /\ ~ctrl7 /\ NmiLine(DrawY) THEN raises + 1 ELSE raises
    BY <2>2, Zenon
  <2> QED
    BY <2>1, <2>3, EdgeFrame, Zenon
<1> QED
  BY <1>1, <1>2, <1>3, <1>4, <1>5, <1>6 DEF CpuEdge

(* Everything that holds of a frame as long as samples are not torn.       *)
THEOREM FrameInvariance ==
    ASSUME ~Tearing
    PROVE  Spec => []FrameInv
<1>1. IInv /\ FrameInv /\ (TypeOK /\ SeenInTime)' /\ [Next]_vars => FrameInv'
  <2>1. ASSUME FrameInv, UNCHANGED vars PROVE FrameInv'
    BY <2>1 DEF FrameInv, TypeOK, SeenInTime, PulseInv, HeldInv, LowInv, FirstEdgeInv, EveryFrame,
       RaiseInv, OneNmiPerRaise, FlagInv, FlagTracksReads, Late, vars, beam, history, DrawY, NmiLine
  <2> QED
    BY <2>1, NextLineFrame, PpuEdgeFrame, CpuEdgeFrame DEF Next
<1> QED
  BY FrameInit, Invariance, NmiSeen, <1>1, PTL DEF Spec

(* A game that keeps NMI enabled gets one in every frame: the pulse is     *)
(* longer than the DMA and the branches for which the detector does not    *)
(* look, and between two pulses it is low for as long.                     *)
THEOREM NoFrameMissed == ASSUME ~Tearing PROVE Spec => []EveryFrame
  BY FrameInvariance, PTL DEF FrameInv

(* It gets no more than one for each time the game lets the level rise.    *)
THEOREM OncePerRaise == ASSUME ~Tearing PROVE Spec => []OneNmiPerRaise
  BY FrameInvariance, PTL DEF FrameInv

(* A game that polls finds the flag set until it has read it, and clear    *)
(* after that, whichever way the accesses fall around its edges.           *)
THEOREM FlagSeenOnce == ASSUME ~Tearing PROVE Spec => []FlagTracksReads
  BY FrameInvariance, PTL DEF FrameInv

-----------------------------------------------------------------------------
(* What the reads of $4016 return: proved from ShiftInv, which says where  *)
(* the snapshot stands in the shift register.                              *)
ControllerIInv == ControllerTypeOK /\ ShiftInv /\ ReadsSnapshot

LEMMA ControllerInitInv == ControllerInit => ControllerIInv
<1> SUFFICES ASSUME ControllerInit PROVE ControllerIInv
  OBVIOUS
<1> USE DEF ControllerInit
<1>1. keycode \in [Slots -> Code] /\ settling \in [Slots -> Code]
  BY DEF NoKeys, Code
<1>2. dout \in BOOLEAN
  OBVIOUS
<1>3. Len(got) = 0 /\ got \in Seq(BOOLEAN) /\ DOMAIN got = {}
  OBVIOUS
<1>4. ShiftInv
  <2>1. dout = (7 - Len(got) \in pressed)
    <3>1. (7 - Len(got) \in pressed) = FALSE
      OBVIOUS
    <3> QED
      BY <3>1, Zenon
  <2> QED
    BY <1>3, <2>1 DEF ShiftInv
<1> QED
  BY <1>1, <1>2, <1>3, <1>4 DEF ControllerIInv, ControllerTypeOK, ReadsSnapshot

(* The buttons the controller derives from any register.                   *)
LEMMA DinType == \A code : controller_din(code) \subseteq Bits
  BY KeyAssumption DEF controller_din

LEMMA ShiftType == \A d \in SUBSET Bits : ShiftLeft(d) \subseteq Bits
<1> SUFFICES ASSUME NEW d \in SUBSET Bits, NEW b \in d, b # 7
             PROVE  b + 1 \in Bits
  BY DEF ShiftLeft
<1>1. b \in 0 .. 7
  BY DEF Bits
<1> QED  BY <1>1 DEF Bits

LEMMA WriteInv == ControllerIInv /\ Write => ControllerIInv'
<1> SUFFICES ASSUME ControllerIInv, NEW code,
                    data' = ShiftLeft(controller_din(code)),
                    dout' = (7 \in controller_din(code)),
                    got' = <<>>, pressed' = controller_din(code),
                    settling' = keycode, UNCHANGED keycode
             PROVE  ControllerIInv'
  BY DEF Write
<1>1. pressed' \subseteq Bits
  BY DinType
<1>2. ControllerTypeOK'
  <2>1. data' \subseteq Bits
    BY DinType, ShiftType
  <2>2. got' \in Seq(BOOLEAN) /\ Len(got') = 0
    OBVIOUS
  <2>3. dout' \in BOOLEAN
    <3>1. (7 \in controller_din(code)) \in BOOLEAN
      OBVIOUS
    <3> QED
      BY <3>1
  <2> QED
    BY <1>1, <2>1, <2>2, <2>3 DEF ControllerIInv, ControllerTypeOK
<1>3. ShiftInv'
  <2>1. data' = {b \in Bits : b > 0 /\ b - 1 \in pressed'}
    BY <1>1 DEF ShiftLeft, Bits
  <2>2. Len(got') = 0 /\ 7 - 0 = 7 /\ \A b \in Bits : b - 0 - 1 = b - 1
    BY DEF Bits
  <2>3. data' = {b \in Bits : b > Len(got') /\ b - Len(got') - 1 \in pressed'}
    BY <2>1, <2>2
  <2>4. dout' = (7 - Len(got') \in pressed')
    BY <2>2
  <2> QED
    BY <2>3, <2>4 DEF ShiftInv
<1>4. ReadsSnapshot'
  BY DEF ReadsSnapshot
<1> QED
  BY <1>2, <1>3, <1>4 DEF ControllerIInv

LEMMA ReadInv == ControllerIInv /\ Read => ControllerIInv'
<1> SUFFICES ASSUME ControllerIInv, Read PROVE ControllerIInv'
  OBVIOUS
<1> USE DEF ControllerIInv
<1>1. Len(got) \in Nat /\ Len(got') = Len(got) + 1 /\ got' \in Seq(BOOLEAN)
  BY DEF Read, ControllerTypeOK
<1>2. ControllerTypeOK'
  <2>1. data' \subseteq Bits
    BY ShiftType DEF Read, ControllerTypeOK
  <2>2. dout' \in BOOLEAN
    <3>1. (7 \in data) \in BOOLEAN
      OBVIOUS
    <3> QED
      BY <3>1 DEF Read
  <2> QED
    BY <1>1, <2>1, <2>2 DEF Read, ControllerTypeOK
<1>3. ShiftInv'
  <2>1. data' = {b \in Bits : b > Len(got') /\ b - Len(got') - 1 \in pressed'}
    BY <1>1, SMTT(30) DEF Read, ControllerTypeOK, ShiftInv, ShiftLeft, Bits
  <2>2. 7 \in data <=> 7 - Len(got') \in pressed
    <3>1. CASE Len(got) < 7
      BY <1>1, <3>1 DEF ShiftInv, ControllerTypeOK, Bits
    <3>2. CASE Len(got) >= 7
      BY <1>1, <3>2 DEF ShiftInv, ControllerTypeOK, Bits
    <3> QED
      BY <1>1, <3>1, <3>2
  <2> QED
    BY <2>1, <2>2 DEF ShiftInv, Read
<1>4. ReadsSnapshot'
  <2> SUFFICES ASSUME NEW n \in DOMAIN got'
               PROVE  got'[n] = (n <= 8 /\ 8 - n \in pressed)
    BY DEF ReadsSnapshot, Read
  <2>1. CASE n \in DOMAIN got
    BY <2>1, <1>1 DEF ReadsSnapshot, Read, ControllerTypeOK
  <2>2. CASE n = Len(got) + 1
    <3>1. got'[n] = dout
      BY <2>2, <1>1 DEF Read, ControllerTypeOK
    <3>2. 8 - n = 7 - Len(got)
      BY <2>2, <1>1
    <3>3. 8 - n \in pressed => n <= 8
      BY <3>2, <2>2, <1>1 DEF ControllerTypeOK, Bits
    <3> QED
      BY <3>1, <3>2, <3>3 DEF ShiftInv
  <2> QED
    BY <2>1, <2>2, <1>1 DEF Read, ControllerTypeOK
<1> QED
  BY <1>2, <1>3, <1>4

LEMMA OtherAccessInv ==
  ControllerIInv /\ (OtherAccess \/ (\E r \in Reports : SetKeycode(r))) => ControllerIInv'
<1> SUFFICES ASSUME ControllerIInv, UNCHANGED <<data, dout, got, pressed>>,
                    settling' = keycode, keycode' \in [Slots -> Code]
             PROVE  ControllerIInv'
  BY KeyAssumption DEF ControllerIInv, ControllerTypeOK, OtherAccess, SetKeycode, Slots
<1> QED
  BY DEF ControllerIInv, ControllerTypeOK, ShiftInv, ReadsSnapshot

THEOREM ControllerInvariance == ControllerSpec => []ControllerIInv
<1>1. ControllerIInv /\ [ControllerNext]_controllerVars => ControllerIInv'
  <2>1. ControllerIInv /\ UNCHANGED controllerVars => ControllerIInv'
    BY DEF ControllerIInv, controllerVars, ControllerTypeOK, ShiftInv, ReadsSnapshot
  <2> QED
    BY <2>1, WriteInv, ReadInv, OtherAccessInv DEF ControllerNext
<1> QED
  BY ControllerInitInv, <1>1, PTL DEF ControllerSpec

(* The reads after a write return the eight buttons as they were at the    *)
(* write, in order, and zeros after them: controller.sv:12-19, for every   *)
(* interleaving with the firmware's stores.                                *)
THEOREM SnapshotRead == ControllerSpec => [](ControllerTypeOK /\ ReadsSnapshot)
  BY ControllerInvariance, PTL DEF ControllerIInv

(* A byte that does not change is sampled as it is.                        *)
LEMMA TornSame == \A a : Torn(a, a) = {a}
<1> SUFFICES ASSUME NEW a PROVE Torn(a, a) = {a}
  OBVIOUS
<1>1. SUBSET ((a \cup a) \ (a \cap a)) = {{}}
  OBVIOUS
<1>2. (a \cap a) \cup {} = a
  OBVIOUS
<1> QED
  BY <1>1, <1>2 DEF Torn

LEMMA WriteShows ==
    ASSUME Write
    PROVE  /\ \A s \in Slots :
                 keycode[s] = settling[s] /\ keycode[s] \in DOMAIN ButtonOf
                     => ButtonOf[keycode[s]] \in pressed'
           /\ settling = keycode => pressed' = controller_din(keycode)
<1>1. PICK a \in Visible(1), b \in Visible(2), c \in Visible(3), d \in Visible(4) :
          pressed' = controller_din(<<a, b, c, d>>)
  BY DEF Write
<1> DEFINE code == <<a, b, c, d>>
<1>2. ASSUME NEW s \in Slots, keycode[s] = settling[s] PROVE code[s] = keycode[s]
  <2>1. code[s] \in Visible(s)
    BY DEF Slots
  <2> QED
    BY <2>1, <1>2, TornSame DEF Visible
<1>3. pressed' = {ButtonOf[code[s]] : s \in {t \in Slots : code[t] \in DOMAIN ButtonOf}}
  BY <1>1 DEF controller_din
<1> HIDE DEF code
<1>4. ASSUME NEW s \in Slots, keycode[s] = settling[s], keycode[s] \in DOMAIN ButtonOf
      PROVE  ButtonOf[keycode[s]] \in pressed'
  BY <1>2, <1>3, <1>4
<1>5. ASSUME settling = keycode PROVE pressed' = controller_din(keycode)
  <2>1. \A s \in Slots : code[s] = keycode[s]
    BY <1>2, <1>5
  <2> QED
    BY <2>1, <1>3 DEF controller_din
<1> QED
  BY <1>4, <1>5

(* A key held across a report is never lost to a torn sample, and no       *)
(* button shows without its key when nothing changes: the register in      *)
(* main.c:172-179 as controller.sv:25-61 reads it, for every key map.      *)
THEOREM HeldKeysShow == ControllerSpec => SteadyKeysShow
<1> DEFINE A ==
      got' = <<>> /\ (got # <<>> \/ pressed' # pressed) =>
        /\ \A s \in Slots :
              keycode[s] = settling[s] /\ keycode[s] \in DOMAIN ButtonOf
                  => ButtonOf[keycode[s]] \in pressed'
        /\ settling = keycode => pressed' = controller_din(keycode)
<1>1. ControllerTypeOK /\ [ControllerNext]_controllerVars => [A]_controllerVars
  <2> SUFFICES ASSUME ControllerTypeOK, ControllerNext PROVE A
    OBVIOUS
  <2>1. CASE Write
    BY <2>1, WriteShows
  <2>2. CASE Read
    <3>1. Len(got') # 0
      BY <2>2 DEF Read, ControllerTypeOK
    <3> QED
      BY <3>1
  <2>3. ASSUME UNCHANGED <<got, pressed>> PROVE A
    BY <2>3
  <2> QED
    BY <2>1, <2>2, <2>3 DEF ControllerNext, SetKeycode, OtherAccess
<1>2. ControllerSpec => []ControllerTypeOK
  BY SnapshotRead, PTL
<1> QED
  BY <1>1, <1>2, PTL DEF ControllerSpec, SteadyKeysShow
=============================================================================
