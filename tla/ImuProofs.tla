----------------------------- MODULE ImuProofs ------------------------------
(***************************************************************************)
(* Theorems about ImuParser, for every stream of bytes and every way the   *)
(* serial line may cut it into reads.                                      *)
(***************************************************************************)
EXTENDS ImuParser, SequenceTheorems, TLAPS

\* The window holds the last chrCnt bytes received.
Buffered ==
    /\ chrCnt <= Len(received)
    /\ \A i \in 0..chrCnt-1 : chrBuf[i] = received[Len(received) - chrCnt + 1 + i]

\* It starts after every frame accepted; while it is not full it starts right
\* after the last one, or at the start of the stream.
AfterFrames == \A q \in frames : q + Size <= Len(received) - chrCnt + 1

NothingSkipped ==
    chrCnt < Size - 1 =>
        \/ Len(received) = chrCnt
        \/ \E q \in frames : q + Size = Len(received) - chrCnt + 1

IInv == TypeOK /\ Buffered /\ AfterFrames /\ NothingSkipped

b == Head(r_buf)
-----------------------------------------------------------------------------
LEMMA TwosComplementType ==
    ASSUME NEW v \in Int, 0 <= v, v < 65536
    PROVE  TwosComplement(v) \in Short
<1>1. CASE v >= 32768
  BY <1>1 DEF TwosComplement, Short
<1>2. CASE ~(v >= 32768)
  BY <1>2 DEF TwosComplement, Short
<1> QED
  BY <1>1, <1>2

LEMMA WordType ==
    ASSUME NEW lo \in Byte, NEW hi \in Byte
    PROVE  TwosComplement(lo + 256 * hi) \in Short
<1>1. lo + 256 * hi \in Int /\ 0 <= lo + 256 * hi /\ lo + 256 * hi < 65536
  BY DEF Byte
<1> QED
  BY <1>1, TwosComplementType

LEMMA SDataType ==
    ASSUME NEW f \in [0..Size-1 -> Byte], NEW k \in 0..2
    PROVE  SData(f, k) \in Short
<1> DEFINE lo == f[2 + 2*k]
           hi == f[3 + 2*k]
<1>1. 2 + 2*k \in 0..Size-1 /\ 3 + 2*k \in 0..Size-1
  BY DEF Size
<1>2. lo \in Byte /\ hi \in Byte
  BY <1>1
<1>3. SData(f, k) = TwosComplement(lo + 256 * hi)
  BY DEF SData
<1> HIDE DEF lo, hi
<1> QED
  BY <1>2, <1>3, WordType

\* A call of ParseData takes one byte from r_buf to the end of received.
LEMMA ByteTaken ==
    ASSUME TypeOK, TakeByte
    PROVE  /\ b \in Byte
           /\ r_buf' \in Seq(Byte)
           /\ reads' = reads
           /\ received' \in Seq(Byte)
           /\ Len(received) \in Nat
           /\ Len(received') = Len(received) + 1
           /\ \A i \in 1..Len(received) : received'[i] = received[i]
           /\ received'[Len(received) + 1] = b
<1>1. r_buf \in Seq(Byte) /\ r_buf # <<>> /\ received \in Seq(Byte)
  BY DEF TypeOK, TakeByte
<1>2. r_buf' = Tail(r_buf) /\ received' = Append(received, b) /\ reads' = reads
  BY DEF TakeByte, b
<1>3. b \in Byte /\ Tail(r_buf) \in Seq(Byte)
  BY <1>1, HeadTailProperties, Zenon DEF b
<1>4. Len(received) \in Nat
  BY <1>1, LenProperties, Zenon
<1>5. /\ Append(received, b) \in Seq(Byte)
      /\ Len(Append(received, b)) = Len(received) + 1
      /\ \A i \in 1..Len(received) : Append(received, b)[i] = received[i]
      /\ Append(received, b)[Len(received) + 1] = b
  BY <1>1, <1>3, AppendProperties
<1> QED
  BY <1>2, <1>3, <1>4, <1>5, Zenon

LEMMA FilledType ==
    ASSUME TypeOK, TakeByte
    PROVE  /\ filled \in [0..Size-1 -> Byte]
           /\ filled[chrCnt] = b
           /\ \A i \in 0..Size-1 : i # chrCnt => filled[i] = chrBuf[i]
<1>1. b \in Byte
  BY ByteTaken
<1>2. chrBuf \in [0..Size-1 -> Byte] /\ chrCnt \in 0..Size-1
  BY DEF TypeOK
<1>3. filled = [chrBuf EXCEPT ![chrCnt] = b]
  BY DEF filled, b
<1> QED
  BY <1>1, <1>2, <1>3

\* When the window is full it is the last Size bytes of the stream.
LEMMA FullWindow ==
    ASSUME IInv, TakeByte, chrCnt + 1 >= Size
    PROVE  /\ chrCnt = Size - 1
           /\ Len(received) + 2 - Size >= 1
           /\ filled = Scan!Window(received', Len(received) + 2 - Size)
<1> DEFINE n == Len(received)
<1>1. /\ chrCnt \in 0..Size-1
      /\ n \in Nat
      /\ chrCnt <= n
      /\ \A i \in 0..chrCnt-1 : chrBuf[i] = received[n - chrCnt + 1 + i]
      /\ \A i \in 1..n : received'[i] = received[i]
      /\ received'[n + 1] = b
  BY ByteTaken, Zenon DEF IInv, TypeOK, Buffered
<1>2. /\ filled \in [0..Size-1 -> Byte]
      /\ filled[chrCnt] = b
      /\ \A i \in 0..Size-1 : i # chrCnt => filled[i] = chrBuf[i]
  BY FilledType DEF IInv
<1> HIDE DEF n
<1>3. chrCnt = Size - 1 /\ n + 2 - Size >= 1
  BY <1>1 DEF Size
<1>4. ASSUME NEW i \in 0..Size-1
      PROVE  filled[i] = received'[n + 2 - Size + i]
  <2>1. CASE i = chrCnt
    BY <1>1, <1>2, <1>3, <2>1 DEF Size
  <2>2. CASE i # chrCnt
    <3>1. i \in 0..chrCnt-1 /\ n + 2 - Size + i \in 1..n
      BY <1>1, <1>3, <2>2 DEF Size
    <3>2. n - chrCnt + 1 + i = n + 2 - Size + i
      BY <1>1, <1>3 DEF Size
    <3> QED
      BY <1>1, <1>2, <2>2, <3>1, <3>2, Zenon
  <2> QED
    BY <2>1, <2>2
<1>5. filled = [i \in 0..Size-1 |-> filled[i]]
  BY <1>2
<1>6. Scan!Window(received', n + 2 - Size) = [i \in 0..Size-1 |-> received'[n + 2 - Size + i]]
  BY DEF Scan!Window
<1> QED
  BY <1>3, <1>4, <1>5, <1>6, Zenon DEF n
-----------------------------------------------------------------------------
(***************************************************************************)
(* The inductive invariant.                                                *)
(***************************************************************************)

LEMMA InitInv == Init => IInv
<1> SUFFICES ASSUME Init PROVE IInv
  OBVIOUS
<1>1. chrBuf \in [0..Size-1 -> Byte]
  BY DEF Init, Byte
<1>2. real_data \in [0..11 -> Short]
  BY DEF Init, Short
<1>3. r_buf \in Seq(Byte) /\ received \in Seq(Byte) /\ Len(received) = 0
  BY DEF Init
<1>4. TypeOK
  BY <1>1, <1>2, <1>3, ImuAssumption DEF TypeOK, Init, ImuAssumption, Size
<1>5. Buffered /\ AfterFrames /\ NothingSkipped
  BY <1>3 DEF Init, Buffered, AfterFrames, NothingSkipped
<1> QED
  BY <1>4, <1>5 DEF IInv

LEMMA StoreByteInv ==
    ASSUME IInv, StoreByte
    PROVE  IInv'
<1> DEFINE n == Len(received)
           n1 == Len(received')
<1>1. TypeOK /\ TakeByte /\ chrCnt + 1 < Size
  BY DEF IInv, StoreByte
<1>2. /\ chrBuf' = filled /\ chrCnt' = chrCnt + 1
      /\ real_data' = real_data /\ frames' = frames
  BY DEF StoreByte
<1>3. /\ r_buf' \in Seq(Byte) /\ received' \in Seq(Byte) /\ reads' = reads
      /\ n \in Nat /\ n1 = n + 1
      /\ \A i \in 1..n : received'[i] = received[i]
      /\ received'[n + 1] = b
  BY <1>1, ByteTaken
<1>4. /\ filled \in [0..Size-1 -> Byte]
      /\ filled[chrCnt] = b
      /\ \A i \in 0..Size-1 : i # chrCnt => filled[i] = chrBuf[i]
  BY <1>1, FilledType
<1>5. /\ chrCnt \in 0..Size-1 /\ real_data \in [0..11 -> Short] /\ reads \in 0..MaxReads
      /\ frames \subseteq 1..n
  BY <1>1 DEF TypeOK
<1>6. /\ chrCnt <= n
      /\ \A i \in 0..chrCnt-1 : chrBuf[i] = received[n - chrCnt + 1 + i]
      /\ \A q \in frames : q + Size <= n - chrCnt + 1
      /\ chrCnt < Size - 1 => n = chrCnt \/ \E q \in frames : q + Size = n - chrCnt + 1
  BY DEF IInv, Buffered, AfterFrames, NothingSkipped
<1> HIDE DEF n, n1
<1>7. chrCnt' \in 0..Size-1
  BY <1>1, <1>2, <1>5 DEF Size
<1>8. frames' \subseteq 1..n1
  BY <1>2, <1>3, <1>5
<1>9. ASSUME NEW i \in 0..chrCnt'-1
      PROVE  chrBuf'[i] = received'[n1 - chrCnt' + 1 + i]
  <2>1. n1 - chrCnt' + 1 + i = n - chrCnt + 1 + i /\ i \in 0..Size-1
    BY <1>1, <1>2, <1>3, <1>5 DEF Size
  <2>2. CASE i = chrCnt
    <3>1. n - chrCnt + 1 + i = n + 1
      BY <1>3, <1>5, <2>2 DEF Size
    <3> QED
      BY <1>2, <1>3, <1>4, <2>1, <2>2, <3>1, Zenon
  <2>3. CASE i # chrCnt
    <3>1. i \in 0..chrCnt-1 /\ n - chrCnt + 1 + i \in 1..n
      BY <1>2, <1>3, <1>5, <1>6, <2>3 DEF Size
    <3> QED
      BY <1>2, <1>3, <1>4, <1>6, <2>1, <2>3, <3>1, Zenon
  <2> QED
    BY <2>2, <2>3
<1>10. TypeOK'
  BY <1>2, <1>3, <1>4, <1>5, <1>7, <1>8, Zenon DEF TypeOK, n1
<1>11. chrCnt' <= n1
  BY <1>2, <1>3, <1>5, <1>6 DEF Size
<1>12. n1 - chrCnt' + 1 = n - chrCnt + 1
  BY <1>2, <1>3, <1>5 DEF Size
<1>13. chrCnt' < Size - 1 => n1 = chrCnt' \/ \E q \in frames' : q + Size = n1 - chrCnt' + 1
  <2>1. chrCnt < Size - 1
    BY <1>1, <1>5 DEF Size
  <2>2. CASE n = chrCnt
    BY <1>2, <1>3, <2>2
  <2>3. CASE \E q \in frames : q + Size = n - chrCnt + 1
    BY <1>2, <1>12, <2>3, Zenon
  <2> QED
    BY <1>6, <2>1, <2>2, <2>3
<1>14. \A q \in frames' : q + Size <= n1 - chrCnt' + 1
  BY <1>2, <1>6, <1>12, Zenon
<1> QED
  BY <1>9, <1>10, <1>11, <1>13, <1>14, Zenon
     DEF IInv, Buffered, AfterFrames, NothingSkipped, n1

LEMMA SlideWindowInv ==
    ASSUME IInv, SlideWindow
    PROVE  IInv'
<1> DEFINE n == Len(received)
           n1 == Len(received')
<1>1. TypeOK /\ TakeByte /\ chrCnt + 1 >= Size
  BY DEF IInv, SlideWindow
<1>2. /\ chrBuf' = [i \in 0..Size-1 |-> IF i < Size-1 THEN filled[i + 1] ELSE filled[i]]
      /\ chrCnt' = Size - 1
      /\ real_data' = real_data /\ frames' = frames
  BY DEF SlideWindow
<1>3. /\ r_buf' \in Seq(Byte) /\ received' \in Seq(Byte) /\ reads' = reads
      /\ n \in Nat /\ n1 = n + 1
  BY <1>1, ByteTaken
<1>4. /\ chrCnt = Size - 1
      /\ n + 2 - Size >= 1
      /\ filled = Scan!Window(received', n + 2 - Size)
  BY <1>1, FullWindow
<1>5. filled \in [0..Size-1 -> Byte]
  BY <1>1, FilledType
<1>6. \A i \in 0..Size-1 : filled[i] = received'[n + 2 - Size + i]
  BY <1>4 DEF Scan!Window
<1>7. /\ real_data \in [0..11 -> Short] /\ reads \in 0..MaxReads
      /\ frames \subseteq 1..n
      /\ \A q \in frames : q + Size <= n - chrCnt + 1
  BY <1>1 DEF TypeOK, IInv, AfterFrames
<1> HIDE DEF n, n1
<1>8. chrBuf' \in [0..Size-1 -> Byte]
  BY <1>2, <1>5 DEF Size
<1>9. TypeOK'
  <2>1. frames' \subseteq 1..n1
    BY <1>2, <1>3, <1>7
  <2>2. chrCnt' \in 0..Size-1
    BY <1>2 DEF Size
  <2> QED
    BY <1>2, <1>3, <1>7, <1>8, <2>1, <2>2, Zenon DEF TypeOK, n1
<1>10. ASSUME NEW i \in 0..chrCnt'-1
       PROVE  chrBuf'[i] = received'[n1 - chrCnt' + 1 + i]
  <2>1. i \in 0..Size-1 /\ i < Size-1 /\ i + 1 \in 0..Size-1
    BY <1>2 DEF Size
  <2>2. chrBuf'[i] = filled[i + 1]
    BY <1>2, <2>1, Zenon
  <2>3. n + 2 - Size + (i + 1) = n1 - chrCnt' + 1 + i
    BY <1>2, <1>3, <2>1 DEF Size
  <2> QED
    BY <1>6, <2>1, <2>2, <2>3, Zenon
<1>11. chrCnt' <= n1
  BY <1>2, <1>3, <1>4 DEF Size
<1>12. \A q \in frames' : q + Size <= n1 - chrCnt' + 1
  BY <1>2, <1>3, <1>4, <1>7 DEF Size
<1>13. ~(chrCnt' < Size - 1)
  BY <1>2 DEF Size
<1> QED
  BY <1>9, <1>10, <1>11, <1>12, <1>13, Zenon
     DEF IInv, Buffered, AfterFrames, NothingSkipped, n1

LEMMA ReportType ==
    ASSUME NEW f \in [0..Size-1 -> Byte], real_data \in [0..11 -> Short]
    PROVE  Report(f) \in [0..11 -> Short]
<1>1. CASE f[1] = AngleFrame
  <2>1. \A i \in 0..11 : (IF i \in 6..8 THEN SData(f, i - 6) ELSE real_data[i]) \in Short
    <3> TAKE i \in 0..11
    <3>1. CASE i \in 6..8
      <4>1. i - 6 \in 0..2
        BY <3>1
      <4> QED
        BY <3>1, <4>1, SDataType, Zenon
    <3>2. CASE i \notin 6..8
      BY <3>2
    <3> QED
      BY <3>1, <3>2
  <2> QED
    BY <1>1, <2>1, Zenon DEF Report
<1>2. CASE f[1] # AngleFrame
  BY <1>2 DEF Report
<1> QED
  BY <1>1, <1>2

LEMMA AcceptFrameInv ==
    ASSUME IInv, AcceptFrame
    PROVE  IInv'
<1> DEFINE n == Len(received)
           n1 == Len(received')
<1>1. TypeOK /\ TakeByte /\ chrCnt + 1 >= Size
  BY DEF IInv, AcceptFrame
<1>2. /\ chrBuf' = filled /\ chrCnt' = 0
      /\ real_data' = Report(filled) /\ frames' = frames \cup {n1 + 1 - Size}
  BY DEF AcceptFrame
<1>3. /\ r_buf' \in Seq(Byte) /\ received' \in Seq(Byte) /\ reads' = reads
      /\ n \in Nat /\ n1 = n + 1
  BY <1>1, ByteTaken
<1>4. chrCnt = Size - 1 /\ n + 2 - Size >= 1
  BY <1>1, FullWindow
<1>5. filled \in [0..Size-1 -> Byte]
  BY <1>1, FilledType
<1>6. /\ real_data \in [0..11 -> Short] /\ reads \in 0..MaxReads
      /\ frames \subseteq 1..n
      /\ \A q \in frames : q + Size <= n - chrCnt + 1
  BY <1>1 DEF TypeOK, IInv, AfterFrames
<1>7. real_data' \in [0..11 -> Short]
  BY <1>2, <1>5, <1>6, ReportType
<1> HIDE DEF n, n1
<1>8. TypeOK'
  <2>1. frames' \subseteq 1..n1
    BY <1>2, <1>3, <1>4, <1>6 DEF Size
  <2>2. chrCnt' \in 0..Size-1
    BY <1>2 DEF Size
  <2> QED
    BY <1>2, <1>3, <1>5, <1>6, <1>7, <2>1, <2>2, Zenon DEF TypeOK, n1
<1>9. chrCnt' <= n1 /\ 0..chrCnt'-1 = {}
  BY <1>2, <1>3
<1>10. \A q \in frames' : q + Size <= n1 - chrCnt' + 1
  BY <1>2, <1>3, <1>4, <1>6 DEF Size
<1>11. n1 + 1 - Size \in frames' /\ (n1 + 1 - Size) + Size = n1 - chrCnt' + 1
  BY <1>2, <1>3 DEF Size
<1> QED
  BY <1>8, <1>9, <1>10, <1>11, Zenon
     DEF IInv, Buffered, AfterFrames, NothingSkipped, n1

LEMMA NextInv == IInv /\ [Next]_vars => IInv'
<1> SUFFICES ASSUME IInv, [Next]_vars PROVE IInv'
  OBVIOUS
<1> USE DEF IInv
<1>1. CASE GetData
  <2>1. r_buf' \in Seq(Byte)
    BY <1>1, ImuAssumption, Zenon DEF GetData, ImuAssumption
  <2>2. reads' \in 0..MaxReads
    BY <1>1, ImuAssumption DEF GetData, TypeOK, ImuAssumption
  <2> QED
    BY <1>1, <2>1, <2>2, Zenon
       DEF GetData, TypeOK, Buffered, AfterFrames, NothingSkipped
<1>2. CASE StoreByte
  BY <1>2, StoreByteInv
<1>3. CASE SlideWindow
  BY <1>3, SlideWindowInv
<1>4. CASE AcceptFrame
  BY <1>4, AcceptFrameInv
<1>5. CASE UNCHANGED vars
  BY <1>5, Zenon DEF vars, TypeOK, Buffered, AfterFrames, NothingSkipped
<1> QED
  BY <1>1, <1>2, <1>3, <1>4, <1>5 DEF Next

THEOREM Invariance == Spec => []IInv
BY InitInv, NextInv, PTL DEF Spec

\* ParseData never indexes chrBuf past the frame, whatever bytes arrive, and
\* the reported values stay shorts.
THEOREM ParserTypeCorrect == Spec => []TypeOK
<1>1. IInv => TypeOK
  BY DEF IInv
<1> QED
  BY <1>1, Invariance, PTL
-----------------------------------------------------------------------------
(***************************************************************************)
(* ParseData implements the greedy scan.                                   *)
(***************************************************************************)

angles == [k \in 0..2 |-> real_data[6 + k]]

LEMMA RefineInit == Init => Scan!Init
<1> SUFFICES ASSUME Init PROVE Scan!Init
  OBVIOUS
<1>1. ASSUME NEW k \in 0..2
      PROVE  real_data[6 + k] = 0
  <2>1. 6 + k \in 0..11
    OBVIOUS
  <2> QED
    BY <2>1, Zenon DEF Init
<1> QED
  BY <1>1, Zenon DEF Init, Scan!Init

\* While the window is not full, the last Size bytes overlap an accepted frame.
LEMMA RefineStore ==
    ASSUME IInv, StoreByte
    PROVE  Scan!Next
<1> DEFINE n == Len(received)
           n1 == Len(received')
<1>1. TypeOK /\ TakeByte /\ chrCnt + 1 < Size
  BY DEF IInv, StoreByte
<1>2. received' = Append(received, b) /\ frames' = frames /\ real_data' = real_data
  BY DEF StoreByte, TakeByte, b
<1>3. b \in Byte /\ n \in Nat /\ n1 = n + 1
  BY <1>1, ByteTaken
<1>4. /\ chrCnt \in 0..Size-1 /\ frames \subseteq 1..n
      /\ chrCnt < Size - 1 => n = chrCnt \/ \E q \in frames : q + Size = n - chrCnt + 1
  BY <1>1 DEF IInv, TypeOK, NothingSkipped
<1>5. Scan!LastWindow(received') = n1 + 1 - Size
  BY DEF Scan!LastWindow
<1> HIDE DEF n, n1
<1>6. ~Scan!EndsFrame(received')
  <2>1. chrCnt < Size - 1
    BY <1>1, <1>4 DEF Size
  <2>2. CASE n = chrCnt
    <3>1. ~(n1 + 1 - Size >= 1)
      BY <1>1, <1>3, <1>4, <2>2 DEF Size
    <3> QED
      BY <1>5, <3>1, Zenon DEF Scan!EndsFrame
  <2>3. ASSUME NEW q \in frames, q + Size = n - chrCnt + 1
        PROVE  ~Scan!EndsFrame(received')
    <3>1. ~(q + Size <= n1 + 1 - Size)
      BY <1>1, <1>3, <1>4, <2>3 DEF Size
    <3> QED
      BY <1>5, <3>1, Zenon DEF Scan!EndsFrame
  <2> QED
    BY <1>4, <2>1, <2>2, <2>3, Zenon
<1> QED
  BY <1>2, <1>3, <1>6, Zenon DEF Scan!Next, Scan!Receive

LEMMA RefineSlide ==
    ASSUME IInv, SlideWindow
    PROVE  Scan!Next
<1>1. TypeOK /\ TakeByte /\ chrCnt + 1 >= Size /\ ~IsFrame(filled)
  BY DEF IInv, SlideWindow
<1>2. received' = Append(received, b) /\ frames' = frames /\ real_data' = real_data
  BY DEF SlideWindow, TakeByte, b
<1>3. b \in Byte /\ Len(received) \in Nat /\ Len(received') = Len(received) + 1
  BY <1>1, ByteTaken
<1>4. Scan!LastWindow(received') = Len(received) + 2 - Size
  BY <1>3 DEF Scan!LastWindow, Size
<1>5. filled = Scan!Window(received', Scan!LastWindow(received'))
  BY <1>1, <1>4, FullWindow
<1>6. ~Scan!EndsFrame(received')
  BY <1>1, <1>5, Zenon DEF Scan!EndsFrame
<1> QED
  BY <1>2, <1>3, <1>6, Zenon DEF Scan!Next, Scan!Receive

LEMMA ReportedAngles ==
    ASSUME NEW f
    PROVE  [k \in 0..2 |-> Report(f)[6 + k]]
              = IF f[1] = AngleFrame THEN Angles(f) ELSE angles
<1>1. CASE f[1] = AngleFrame
  <2>1. ASSUME NEW k \in 0..2
        PROVE  Report(f)[6 + k] = SData(f, k)
    <3>1. 6 + k \in 0..11 /\ 6 + k \in 6..8 /\ (6 + k) - 6 = k
      OBVIOUS
    <3> QED
      BY <1>1, <3>1, Zenon DEF Report
  <2> QED
    BY <1>1, <2>1, Zenon DEF Angles
<1>2. CASE f[1] # AngleFrame
  BY <1>2, Zenon DEF Report, angles
<1> QED
  BY <1>1, <1>2

LEMMA RefineAccept ==
    ASSUME IInv, AcceptFrame
    PROVE  Scan!Next
<1>1. TypeOK /\ TakeByte /\ chrCnt + 1 >= Size /\ IsFrame(filled)
  BY DEF IInv, AcceptFrame
<1>2. /\ received' = Append(received, b)
      /\ frames' = frames \cup {Scan!LastWindow(received')}
      /\ real_data' = Report(filled)
  BY DEF AcceptFrame, TakeByte, b, Scan!LastWindow
<1>3. b \in Byte /\ Len(received) \in Nat /\ Len(received') = Len(received) + 1
  BY <1>1, ByteTaken
<1>4. Scan!LastWindow(received') = Len(received) + 2 - Size
  BY <1>3 DEF Scan!LastWindow, Size
<1>5. /\ chrCnt = Size - 1
      /\ Scan!LastWindow(received') >= 1
      /\ filled = Scan!Window(received', Scan!LastWindow(received'))
  BY <1>1, <1>4, FullWindow
<1>6. \A q \in frames : q + Size <= Scan!LastWindow(received')
  <2>1. \A q \in frames : q + Size <= Len(received) - chrCnt + 1
    BY DEF IInv, AfterFrames
  <2>2. Len(received) - chrCnt + 1 = Scan!LastWindow(received')
    BY <1>3, <1>4, <1>5 DEF Size
  <2> QED
    BY <2>1, <2>2, Zenon
<1>7. Scan!EndsFrame(received')
  BY <1>1, <1>5, <1>6, Zenon DEF Scan!EndsFrame
<1>8. angles' = IF filled[1] = AngleFrame THEN Angles(filled) ELSE angles
  BY <1>2, ReportedAngles DEF angles
<1> QED
  BY <1>2, <1>3, <1>5, <1>7, <1>8, Zenon DEF Scan!Next, Scan!Receive, angles

\* The driver recognises the frames and reports the angles of the greedy scan
\* of the stream, wherever the reads cut it and whatever it contains.
THEOREM Refinement == Spec => ImplementsScan
<1>1. IInv /\ [Next]_vars => [Scan!Next]_<<received, frames, angles>>
  <2> SUFFICES ASSUME IInv, [Next]_vars
               PROVE  [Scan!Next]_<<received, frames, angles>>
    OBVIOUS
  <2>1. CASE GetData
    BY <2>1, Zenon DEF GetData, angles
  <2>2. CASE StoreByte
    BY <2>2, RefineStore
  <2>3. CASE SlideWindow
    BY <2>3, RefineSlide
  <2>4. CASE AcceptFrame
    BY <2>4, RefineAccept
  <2>5. CASE UNCHANGED vars
    BY <2>5, Zenon DEF vars, angles
  <2> QED
    BY <2>1, <2>2, <2>3, <2>4, <2>5 DEF Next
<1>2. IInv /\ [Next]_vars => [Scan!Next]_(Scan!scanVars)
  BY <1>1, Zenon DEF angles, Scan!scanVars
<1> QED
  BY <1>2, RefineInit, Invariance, PTL DEF Spec, ImplementsScan, Scan!Spec
-----------------------------------------------------------------------------
(***************************************************************************)
(* No frame is missed.                                                     *)
(***************************************************************************)

\* What has been received does not change.
LEMMA WindowKept ==
    ASSUME TypeOK, TakeByte, NEW p \in 1..Len(received) + 1 - Size
    PROVE  Scan!Window(received', p) = Scan!Window(received, p)
<1> DEFINE n == Len(received)
<1>1. n \in Nat /\ \A i \in 1..n : received'[i] = received[i]
  BY ByteTaken
<1> HIDE DEF n
<1>2. p \in 1..n + 1 - Size
  BY DEF n
<1>3. ASSUME NEW i \in 0..Size-1
      PROVE  received'[p + i] = received[p + i]
  <2>1. p + i \in 1..n
    BY <1>1, <1>2 DEF Size
  <2> QED
    BY <1>1, <2>1, Zenon
<1> QED
  BY <1>3, Zenon DEF Scan!Window

\* The window that the new byte completes is accounted for.
LEMMA NewWindow ==
    ASSUME IInv, StoreByte \/ SlideWindow \/ AcceptFrame,
           IsFrame(Scan!Window(received', Len(received) + 2 - Size)),
           Len(received) + 2 - Size >= 1
    PROVE  \E q \in frames' : q <= Len(received) + 2 - Size
                              /\ Len(received) + 2 - Size < q + Size
<1> DEFINE n == Len(received)
<1>1. TypeOK /\ TakeByte
  BY DEF IInv, StoreByte, SlideWindow, AcceptFrame
<1>2. n \in Nat /\ Len(received') = n + 1
  BY <1>1, ByteTaken
<1>3. /\ chrCnt \in 0..Size-1 /\ frames \subseteq 1..n
      /\ chrCnt < Size - 1 => n = chrCnt \/ \E q \in frames : q + Size = n - chrCnt + 1
  BY <1>1 DEF IInv, TypeOK, NothingSkipped
<1>4. CASE StoreByte
  <2>1. chrCnt + 1 < Size /\ frames' = frames
    BY <1>4 DEF StoreByte
  <2> HIDE DEF n
  <2>2. n + 2 - Size >= 1
    BY DEF n
  <2>3. PICK q \in frames : q + Size = n - chrCnt + 1
    BY <1>2, <1>3, <2>1, <2>2 DEF Size
  <2>4. q <= n + 2 - Size /\ n + 2 - Size < q + Size
    BY <1>2, <1>3, <2>1, <2>3 DEF Size
  <2> QED
    BY <2>1, <2>4, Zenon DEF n
<1>5. CASE SlideWindow
  <2>1. chrCnt + 1 >= Size /\ ~IsFrame(filled)
    BY <1>5 DEF SlideWindow
  <2> QED
    BY <1>1, <2>1, FullWindow
<1>6. CASE AcceptFrame
  <2>1. n + 2 - Size \in frames'
    <3>1. frames' = frames \cup {Len(received') + 1 - Size}
      BY <1>6 DEF AcceptFrame
    <3>2. Len(received') + 1 - Size = n + 2 - Size
      BY <1>2 DEF Size
    <3> QED
      BY <3>1, <3>2, Zenon
  <2>2. n + 2 - Size <= n + 2 - Size /\ n + 2 - Size < (n + 2 - Size) + Size
    BY <1>2 DEF Size
  <2> QED
    BY <2>1, <2>2, Zenon
<1> QED
  BY <1>4, <1>5, <1>6

\* Every whole frame of the stream is accepted or overlaps an earlier one that
\* was: no garbage makes ParseData lose what follows it.
THEOREM Complete == Spec => []NoFrameMissed
<1>1. Init => NoFrameMissed
  BY DEF Init, NoFrameMissed, Size
<1>2. IInv /\ NoFrameMissed /\ [Next]_vars => NoFrameMissed'
  <2> SUFFICES ASSUME IInv, NoFrameMissed, [Next]_vars PROVE NoFrameMissed'
    OBVIOUS
  <2>1. CASE GetData \/ UNCHANGED vars
    BY <2>1, Zenon DEF GetData, vars, NoFrameMissed
  <2>2. CASE StoreByte \/ SlideWindow \/ AcceptFrame
    <3>1. TypeOK /\ TakeByte /\ frames \subseteq frames'
      BY <2>2 DEF IInv, StoreByte, SlideWindow, AcceptFrame
    <3>2. Len(received) \in Nat /\ Len(received') = Len(received) + 1
      BY <3>1, ByteTaken
    <3>3. ASSUME NEW p \in 1..Len(received') + 1 - Size,
                 IsFrame(Scan!Window(received', p))
          PROVE  \E q \in frames' : q <= p /\ p < q + Size
      <4>1. CASE p = Len(received) + 2 - Size
        <5>1. Len(received) + 2 - Size >= 1
          BY <4>1
        <5> QED
          BY <2>2, <3>3, <4>1, <5>1, NewWindow
      <4>2. CASE p # Len(received) + 2 - Size
        <5>1. p \in 1..Len(received) + 1 - Size
          BY <3>2, <3>3, <4>2 DEF Size
        <5>2. Scan!Window(received', p) = Scan!Window(received, p)
          BY <3>1, <5>1, WindowKept
        <5>3. PICK q \in frames : q <= p /\ p < q + Size
          BY <3>3, <5>1, <5>2, Zenon DEF NoFrameMissed
        <5> QED
          BY <3>1, <5>3, Zenon
      <4> QED
        BY <4>1, <4>2
    <3> QED
      BY <3>3, Zenon DEF NoFrameMissed
  <2> QED
    BY <2>1, <2>2 DEF Next
<1> QED
  BY <1>1, <1>2, Invariance, PTL DEF Spec
-----------------------------------------------------------------------------
(***************************************************************************)
(* The reported angles are those of one frame.                             *)
(***************************************************************************)

\* Frames accepted before a byte is taken look the same after it.
LEMMA FramesKept ==
    ASSUME IInv, TakeByte, NEW p \in frames
    PROVE  /\ received'[p + 1] = received[p + 1]
           /\ Scan!Window(received', p) = Scan!Window(received, p)
<1> DEFINE n == Len(received)
<1>1. /\ TypeOK /\ n \in Nat
      /\ \A i \in 1..n : received'[i] = received[i]
  BY ByteTaken DEF IInv
<1>2. frames \subseteq 1..n /\ chrCnt \in 0..Size-1 /\ p + Size <= n - chrCnt + 1
  BY <1>1 DEF IInv, TypeOK, AfterFrames
<1> HIDE DEF n
<1>3. p \in 1..n + 1 - Size /\ p + 1 \in 1..n
  BY <1>1, <1>2 DEF Size
<1>4. received'[p + 1] = received[p + 1]
  BY <1>1, <1>3, Zenon
<1>5. p \in 1..Len(received) + 1 - Size
  BY <1>3 DEF n
<1> QED
  BY <1>1, <1>4, <1>5, WindowKept

\* A step that accepts no angle frame keeps both sides of the property.
LEMMA SameAngles ==
    ASSUME IInv, AnglesOfLastFrame, TakeByte, angles' = angles,
           frames \subseteq frames',
           \A p \in frames' \ frames : received'[p + 1] # AngleFrame
    PROVE  AnglesOfLastFrame'
<1> SUFFICES ASSUME NEW p \in frames', LastOfType(AngleFrame, p)'
             PROVE  angles' = Angles(Scan!Window(received', p))
  BY Zenon DEF AnglesOfLastFrame, angles
<1>1. p \in frames
  BY Zenon DEF LastOfType
<1>2. LastOfType(AngleFrame, p)
  BY <1>1, FramesKept, Zenon DEF LastOfType
<1>3. angles = Angles(Scan!Window(received, p))
  BY <1>1, <1>2, Zenon DEF AnglesOfLastFrame, angles
<1> QED
  BY <1>1, <1>3, FramesKept, Zenon

\* The angles WT901_Get_data returns are always those of one checked frame,
\* the last one of the stream.
THEOREM AnglesGenuine == Spec => []AnglesOfLastFrame
<1>1. Init => AnglesOfLastFrame
  BY Zenon DEF Init, AnglesOfLastFrame
<1>2. IInv /\ AnglesOfLastFrame /\ [Next]_vars => AnglesOfLastFrame'
  <2> SUFFICES ASSUME IInv, AnglesOfLastFrame, [Next]_vars PROVE AnglesOfLastFrame'
    OBVIOUS
  <2>1. CASE GetData \/ UNCHANGED vars
    BY <2>1, Zenon DEF GetData, vars, AnglesOfLastFrame, LastOfType
  <2>2. CASE StoreByte \/ SlideWindow
    <3>1. TakeByte /\ angles' = angles /\ frames' = frames
      BY <2>2, Zenon DEF StoreByte, SlideWindow, angles
    <3> QED
      BY <3>1, SameAngles, Zenon
  <2>3. CASE AcceptFrame
    <3> DEFINE new == Len(received') + 1 - Size
    <3>1. /\ TypeOK /\ TakeByte /\ chrCnt + 1 >= Size /\ IsFrame(filled)
          /\ frames' = frames \cup {new}
          /\ real_data' = Report(filled)
      BY <2>3 DEF AcceptFrame, IInv
    <3>2. /\ Len(received) \in Nat /\ Len(received') = Len(received) + 1
          /\ received' \in Seq(Byte)
      BY <3>1, ByteTaken
    <3>3. new = Len(received) + 2 - Size
      BY <3>2 DEF Size
    <3>4. filled = Scan!Window(received', new)
      BY <3>1, <3>3, FullWindow
    <3>5. filled[1] = received'[new + 1]
      BY <3>4 DEF Scan!Window, Size
    <3>6. angles' = IF filled[1] = AngleFrame THEN Angles(filled) ELSE angles
      BY <3>1, ReportedAngles DEF angles
    <3>7. ASSUME NEW q \in frames
          PROVE  ~(new <= q)
      <4>1. q \in 1..Len(received) /\ q + Size <= Len(received) - chrCnt + 1
            /\ chrCnt \in 0..Size-1
        BY <3>1 DEF IInv, TypeOK, AfterFrames
      <4> QED
        BY <3>2, <3>3, <4>1 DEF Size
    <3> HIDE DEF new
    <3>8. CASE filled[1] = AngleFrame
      <4> SUFFICES ASSUME NEW p \in frames', LastOfType(AngleFrame, p)'
                   PROVE  angles' = Angles(Scan!Window(received', p))
        BY Zenon DEF AnglesOfLastFrame, angles
      <4>1. new <= p
        BY <3>1, <3>5, <3>8, Zenon DEF LastOfType
      <4>2. p = new
        BY <3>1, <3>7, <4>1, Zenon
      <4> QED
        BY <3>4, <3>6, <3>8, <4>2, Zenon
    <3>9. CASE filled[1] # AngleFrame
      <4>1. \A p \in frames' \ frames : received'[p + 1] # AngleFrame
        BY <3>1, <3>5, <3>9, Zenon
      <4>2. angles' = angles /\ frames \subseteq frames'
        BY <3>1, <3>6, <3>9, Zenon
      <4> QED
        BY <3>1, <4>1, <4>2, SameAngles, Zenon
    <3> QED
      BY <3>8, <3>9
  <2> QED
    BY <2>1, <2>2, <2>3 DEF Next
<1> QED
  BY <1>1, <1>2, Invariance, PTL DEF Spec
=============================================================================
