----------------------------- MODULE CodecProofs -----------------------------
(***************************************************************************)
(* The two message codecs, proved for all values that fit their types:     *)
(* what is packed is understood, what is received is returned, and what a  *)
(* float makes of an angle of a motor.                                     *)
(***************************************************************************)
EXTENDS X8Can, MotorAngles, TLAPS, SequenceTheorems
-----------------------------------------------------------------------------
(***************************************************************************)
(* Integers and their bytes.                                               *)
(***************************************************************************)
LEMMA LowByte == \A n \in Int : n % 256 \in Int /\ 0 <= n % 256 /\ n % 256 <= 255
  OBVIOUS

LEMMA LowBytes ==
  ASSUME NEW n \in Int
  PROVE  /\ \A i \in 1..2 : Low2(n)[i] \in Byte
         /\ \A i \in 1..4 : Low4(n)[i] \in Byte
  BY LowByte DEF Low2, Low4, Byte

\* The bytes of an integer that fits bring it back.
LEMMA Signed32Back == ASSUME NEW n \in Int32 PROVE Signed32(Low4(n)) = n
  BY DEF Signed32, Low4, Signed8, Int32

LEMMA Signed16Back == ASSUME NEW n \in Short PROVE Signed16(Low2(n)) = n
  BY DEF Signed16, Low2, Signed8, Short

LEMMA Unsigned16Back == ASSUME NEW n \in UShort PROVE Unsigned16(Low2(n)) = n
  BY DEF Unsigned16, Low2, UShort

LEMMA Unsigned16Range == ASSUME NEW n \in Int PROVE Unsigned16(Low2(n)) \in UShort
<1>1. /\ n % 256 \in Int /\ 0 <= n % 256 /\ n % 256 <= 255
      /\ (n \div 256) % 256 \in Int /\ 0 <= (n \div 256) % 256 /\ (n \div 256) % 256 <= 255
  OBVIOUS
<1>2. Unsigned16(Low2(n)) = (n % 256) + 256 * ((n \div 256) % 256)
  BY DEF Unsigned16, Low2
<1> QED BY <1>1, <1>2 DEF UShort

\* A division after a division is one by the product.
LEMMA QuotientTwice == \A n \in Int : Quotient(Quotient(n, 100), 6) = Quotient(n, 600)
  BY DEF Quotient
-----------------------------------------------------------------------------
(***************************************************************************)
(* x8-can: the units and the layouts of the requests.                      *)
(***************************************************************************)
LEMMA SpeedLimitUnits ==
  ASSUME NEW rpm \in UShort
  PROVE  /\ SpeedLimit(rpm) \in UShort
         /\ SpeedLimit(rpm) = rpm * 6 <=> rpm * 360 < 65536
<1>1. SpeedLimit(rpm) \in Int /\ 0 <= SpeedLimit(rpm) /\ SpeedLimit(rpm) <= 1092
  BY DEF SpeedLimit, Wrap16, UShort
<1>2. rpm * 360 < 65536 => SpeedLimit(rpm) = rpm * 6
  BY DEF SpeedLimit, Wrap16, UShort
<1>3. rpm * 360 >= 65536 => rpm * 6 > 1092
  BY DEF UShort
<1> QED BY <1>1, <1>2, <1>3 DEF UShort

LEMMA RotorAngle16Units ==
  ASSUME NEW deg \in UShort
  PROVE  /\ RotorAngle16(deg) \in UShort
         /\ RotorAngle16(deg) = deg * 600 <=> deg * 600 < 65536
<1>1. RotorAngle16(deg) \in UShort
  BY DEF RotorAngle16, Wrap16, UShort
<1>2. deg * 600 < 65536 => RotorAngle16(deg) = deg * 600
  BY DEF RotorAngle16, Wrap16, UShort
<1> QED BY <1>1, <1>2 DEF UShort

\* A product always fits, wrapped or not; one that fits is not wrapped.
LEMMA ShortHalves ==
  /\ \A i \in Int : ToInt16(i) \in Short /\ (i \in Short => ToInt16(i) = i)
  /\ \A i \in Int, j \in Int :
        0 <= j /\ j < 65536 => (i \in Short <=> i * 65536 + j \in Int32)
<1>1. \A i \in Int : ToInt16(i) \in Short /\ (i \in Short => ToInt16(i) = i)
  BY SMT DEF ToInt16, Short
<1>2. \A i \in Int, j \in Int :
         0 <= j /\ j < 65536 => (i \in Short <=> i * 65536 + j \in Int32)
  BY SMT DEF Short, Int32
<1> QED BY <1>1, <1>2

LEMMA Times32Fits ==
  ASSUME NEW n \in Int, NEW factor \in {6, 100, 360}
  PROVE  /\ Times32(n, factor) \in Int32
         /\ n * factor \in Int32 => Times32(n, factor) = n * factor
<1> DEFINE l == (n % 65536) * factor
           h == (n \div 65536) * factor + l \div 65536
           r == l % 65536
<1>1. /\ l \in Int /\ h \in Int /\ r \in Int /\ 0 <= r /\ r < 65536
      /\ n * factor = h * 65536 + r
  <2>1. n = (n \div 65536) * 65536 + (n % 65536) /\ n \div 65536 \in Int /\ n % 65536 \in Int
    BY SMT
  <2>2. l \in Int
    BY <2>1, SMT
  <2>3. n * factor = (n \div 65536) * factor * 65536 + l
    BY <2>1, SMT
  <2>4. (n \div 65536) * factor \in Int
    BY <2>1, SMT
  <2> DEFINE k == (n \div 65536) * factor
  <2> HIDE DEF l, k
  <2>5. l = (l \div 65536) * 65536 + (l % 65536) /\ l \div 65536 \in Int /\ l % 65536 \in Int
        /\ 0 <= l % 65536 /\ l % 65536 < 65536
    BY <2>2, SMT
  <2>6. k \in Int /\ n * factor = k * 65536 + l
    BY <2>3, <2>4, SMT DEF k
  <2>7. h = k + l \div 65536
    BY DEF k
  <2> QED BY <2>2, <2>5, <2>6, <2>7, SMT
<1>2. Times32(n, factor) = ToInt16(h) * 65536 + r
  BY DEF Times32
<1> HIDE DEF l, h, r
<1>3. ToInt16(h) \in Short /\ ToInt16(h) \in Int
  BY <1>1, ShortHalves DEF Short
<1>4. Times32(n, factor) \in Int32
  BY <1>1, <1>2, <1>3, ShortHalves
<1>5. ASSUME n * factor \in Int32 PROVE Times32(n, factor) = n * factor
  <2>1. h * 65536 + r \in Int32
    BY <1>1, <1>5
  <2>2. h \in Short
    BY <1>1, <2>1, SMT DEF Short, Int32
  <2>3. ToInt16(h) = h
    BY <1>1, <2>2, ShortHalves
  <2> QED BY <1>1, <1>2, <2>3
<1> QED BY <1>4, <1>5

LEMMA SpeedUnits ==
  ASSUME NEW rpm \in Int32
  PROVE  /\ Times32(DegreesPerSecond(rpm), 100) \in Int32
         /\ rpm \in Within(3579139) => Times32(DegreesPerSecond(rpm), 100) = rpm * 600
<1> DEFINE v == Times32(rpm, 360)
           q == DegreesPerSecond(rpm)
<1>1. rpm \in Int /\ v \in Int32 /\ (rpm * 360 \in Int32 => v = rpm * 360)
  BY Times32Fits DEF Int32
<1>2. q = Quotient(v, 60)
  BY DEF DegreesPerSecond
<1> HIDE DEF v, q
<1>3. q \in Int
  BY <1>1, <1>2, SMT DEF Quotient, Int32
<1>4. Times32(q, 100) \in Int32 /\ (q * 100 \in Int32 => Times32(q, 100) = q * 100)
  BY <1>3, Times32Fits
<1>5. ASSUME rpm \in Within(3579139) PROVE Times32(q, 100) = rpm * 600
  <2>1. rpm * 360 \in Int32 /\ rpm * 600 \in Int32
    BY <1>5, SMT DEF Within, Int32
  <2>2. q = rpm * 6
    BY <1>1, <1>2, <2>1, SMT DEF Quotient
  <2>3. q * 100 = rpm * 600
    BY <1>1, <2>2, SMT
  <2> QED BY <1>4, <2>1, <2>3
<1> QED BY <1>4, <1>5 DEF q

LEMMA RotorAngleUnits ==
  ASSUME NEW deg \in Int32
  PROVE  /\ RotorAngle(deg) \in Int32
         /\ deg \in Within(3579139) => RotorAngle(deg) = deg * 600
<1> DEFINE v == Times32(deg, 100)
<1>1. deg \in Int /\ v \in Int32 /\ v \in Int /\ (deg * 100 \in Int32 => v = deg * 100)
  BY Times32Fits DEF Int32
<1>2. RotorAngle(deg) = Times32(v, 6)
  BY DEF RotorAngle
<1> HIDE DEF v
<1>3. Times32(v, 6) \in Int32 /\ (v * 6 \in Int32 => Times32(v, 6) = v * 6)
  BY <1>1, Times32Fits
<1>4. ASSUME deg \in Within(3579139) PROVE Times32(v, 6) = deg * 600
  <2>1. deg * 100 \in Int32 /\ deg * 600 \in Int32
    BY <1>4, SMT DEF Within, Int32
  <2>2. v * 6 = deg * 600
    BY <1>1, <2>1, SMT
  <2> QED BY <1>3, <2>1, <2>2
<1> QED BY <1>2, <1>3, <1>4

\* A number is read where its bytes were put.
LEMMA PartsRead ==
  ASSUME NEW d, NEW b
  PROVE  /\ d[2] = b[1] /\ d[3] = b[2] => Unsigned16(SubSeq(d, 2, 3)) = Unsigned16(b)
         /\ d[4] = b[1] /\ d[5] = b[2] => Unsigned16(SubSeq(d, 4, 5)) = Unsigned16(b)
         /\ d[6] = b[1] /\ d[7] = b[2] => Unsigned16(SubSeq(d, 6, 7)) = Unsigned16(b)
         /\ d[4] = b[1] /\ d[5] = b[2] /\ d[6] = b[3] /\ d[7] = b[4]
               => Signed32(SubSeq(d, 4, 7)) = Signed32(b)
<1>1. SubSeq(d, 2, 3)[1] = d[2] /\ SubSeq(d, 2, 3)[2] = d[3]
  OBVIOUS
<1>2. SubSeq(d, 4, 5)[1] = d[4] /\ SubSeq(d, 4, 5)[2] = d[5]
  OBVIOUS
<1>3. SubSeq(d, 6, 7)[1] = d[6] /\ SubSeq(d, 6, 7)[2] = d[7]
  OBVIOUS
<1>4. /\ SubSeq(d, 4, 7)[1] = d[4] /\ SubSeq(d, 4, 7)[2] = d[5]
      /\ SubSeq(d, 4, 7)[3] = d[6] /\ SubSeq(d, 4, 7)[4] = d[7]
  OBVIOUS
<1>5. d[2] = b[1] /\ d[3] = b[2] => Unsigned16(SubSeq(d, 2, 3)) = Unsigned16(b)
  BY <1>1 DEF Unsigned16
<1>6. d[4] = b[1] /\ d[5] = b[2] => Unsigned16(SubSeq(d, 4, 5)) = Unsigned16(b)
  BY <1>2 DEF Unsigned16
<1>7. d[6] = b[1] /\ d[7] = b[2] => Unsigned16(SubSeq(d, 6, 7)) = Unsigned16(b)
  BY <1>3 DEF Unsigned16
<1>8. d[4] = b[1] /\ d[5] = b[2] /\ d[6] = b[3] /\ d[7] = b[4]
         => Signed32(SubSeq(d, 4, 7)) = Signed32(b)
  BY <1>4 DEF Signed32
<1> QED BY <1>5, <1>6, <1>7, <1>8

IsData(d) == d \in Seq(Byte) /\ Len(d) = 7

LEMMA DataFits == ASSUME NEW d, IsData(d) PROVE d \in [1..7 -> Byte]
  BY LenProperties DEF IsData

\* The layouts are seven bytes, and each number is in its place.
LEMMA Layouts ==
  ASSUME NEW n \in Int, NEW limit \in Int, NEW dir \in Directions
  PROVE  /\ LET d == PackEncoderOffset(n)
            IN  IsData(d) /\ d[6] = Low2(n)[1] /\ d[7] = Low2(n)[2]
         /\ \A d \in {PackSpeed(n), PackPosition1(n), PackPosition2(limit, n)} :
               /\ IsData(d)
               /\ d[4] = Low4(n)[1] /\ d[5] = Low4(n)[2] /\ d[6] = Low4(n)[3] /\ d[7] = Low4(n)[4]
         /\ LET d == PackPosition2(limit, n)
            IN  d[2] = Low2(limit)[1] /\ d[3] = Low2(limit)[2]
         /\ \A d \in {PackPosition3(dir, n), PackPosition4(dir, limit, n)} :
               IsData(d) /\ d[1] = dir /\ d[4] = Low2(n)[1] /\ d[5] = Low2(n)[2]
         /\ LET d == PackPosition4(dir, limit, n)
            IN  d[2] = Low2(limit)[1] /\ d[3] = Low2(limit)[2]
<1>b. 0 \in Byte /\ dir \in Byte
  BY DEF Byte, Directions
<1>m. \A i \in Int : i % 256 \in Byte
  BY LowByte DEF Byte
<1>1. IsData(PackEncoderOffset(n))
  BY <1>b, <1>m DEF IsData, PackEncoderOffset, Low2
<1>2. IsData(PackSpeed(n)) /\ IsData(PackPosition1(n))
  BY <1>b, <1>m DEF IsData, PackSpeed, PackPosition1, Low4
<1>3. IsData(PackPosition2(limit, n))
  BY <1>b, <1>m DEF IsData, PackPosition2, Low2, Low4
<1>4. IsData(PackPosition3(dir, n)) 
  BY <1>b, <1>m DEF IsData, PackPosition3, Low2
<1>5. IsData(PackPosition4(dir, limit, n))
  BY <1>b, <1>m DEF IsData, PackPosition4, Low2
<1>6. LET d == PackEncoderOffset(n)
      IN  d[6] = Low2(n)[1] /\ d[7] = Low2(n)[2]
  BY DEF PackEncoderOffset, Low2
<1>7. \A d \in {PackSpeed(n), PackPosition1(n), PackPosition2(limit, n)} :
         d[4] = Low4(n)[1] /\ d[5] = Low4(n)[2] /\ d[6] = Low4(n)[3] /\ d[7] = Low4(n)[4]
  BY DEF PackSpeed, PackPosition1, PackPosition2, Low2, Low4
<1>8. \A d \in {PackPosition2(limit, n), PackPosition4(dir, limit, n)} :
         d[2] = Low2(limit)[1] /\ d[3] = Low2(limit)[2]
  BY DEF PackPosition2, PackPosition4, Low2, Low4
<1>9. \A d \in {PackPosition3(dir, n), PackPosition4(dir, limit, n)} :
         d[1] = dir /\ d[4] = Low2(n)[1] /\ d[5] = Low2(n)[2]
  <2>1. PackPosition3(dir, n)[1] = dir /\ PackPosition4(dir, limit, n)[1] = dir
    BY DEF PackPosition3, PackPosition4, Low2
  <2>2. PackPosition3(dir, n)[4] = Low2(n)[1] /\ PackPosition3(dir, n)[5] = Low2(n)[2]
    BY DEF PackPosition3, Low2
  <2>3. PackPosition4(dir, limit, n)[4] = Low2(n)[1] /\ PackPosition4(dir, limit, n)[5] = Low2(n)[2]
    BY DEF PackPosition4, Low2
  <2> QED BY <2>1, <2>2, <2>3
<1> QED BY <1>1, <1>2, <1>3, <1>4, <1>5, <1>6, <1>7, <1>8, <1>9

\* Read back by the motor, they are the numbers that were packed.
LEMMA Layouts32 ==
  ASSUME NEW n \in Int32, NEW limit \in UShort
  PROVE  /\ \A d \in {PackSpeed(n), PackPosition1(n), PackPosition2(limit, n)} :
               IsData(d) /\ Signed32(SubSeq(d, 4, 7)) = n
         /\ Unsigned16(SubSeq(PackPosition2(limit, n), 2, 3)) = limit
<1>1. n \in Int /\ limit \in Int /\ 0 \in Directions
  BY DEF Int32, UShort, Directions
<1>2. ASSUME NEW d \in {PackSpeed(n), PackPosition1(n), PackPosition2(limit, n)}
      PROVE  IsData(d) /\ Signed32(SubSeq(d, 4, 7)) = n
  <2>1. /\ IsData(d)
        /\ d[4] = Low4(n)[1] /\ d[5] = Low4(n)[2] /\ d[6] = Low4(n)[3] /\ d[7] = Low4(n)[4]
    BY <1>1, Layouts
  <2>2. Signed32(SubSeq(d, 4, 7)) = Signed32(Low4(n))
    BY <2>1, PartsRead
  <2> QED BY <2>1, <2>2, Signed32Back
<1>3. Unsigned16(SubSeq(PackPosition2(limit, n), 2, 3)) = limit
  <2> DEFINE d == PackPosition2(limit, n)
  <2>1. d[2] = Low2(limit)[1] /\ d[3] = Low2(limit)[2]
    BY <1>1, Layouts
  <2> HIDE DEF d
  <2>2. Unsigned16(SubSeq(d, 2, 3)) = Unsigned16(Low2(limit))
    BY <2>1, PartsRead
  <2>3. Unsigned16(SubSeq(d, 2, 3)) = limit
    BY <2>2, Unsigned16Back
  <2> QED BY <2>3 DEF d
<1> QED BY <1>2, <1>3

LEMMA Layouts16 ==
  ASSUME NEW n \in UShort, NEW limit \in UShort, NEW dir \in Directions
  PROVE  /\ IsData(PackEncoderOffset(n)) /\ Unsigned16(SubSeq(PackEncoderOffset(n), 6, 7)) = n
         /\ \A d \in {PackPosition3(dir, n), PackPosition4(dir, limit, n)} :
               IsData(d) /\ d[1] = dir /\ Unsigned16(SubSeq(d, 4, 5)) = n
         /\ Unsigned16(SubSeq(PackPosition4(dir, limit, n), 2, 3)) = limit
<1>1. n \in Int /\ limit \in Int
  BY DEF UShort
<1>2. ASSUME NEW d, d = PackEncoderOffset(n)
      PROVE  IsData(d) /\ Unsigned16(SubSeq(d, 6, 7)) = n
  <2>1. IsData(d) /\ d[6] = Low2(n)[1] /\ d[7] = Low2(n)[2]
    BY <1>1, <1>2, Layouts
  <2>2. Unsigned16(SubSeq(d, 6, 7)) = Unsigned16(Low2(n))
    BY <2>1, PartsRead
  <2> QED BY <2>1, <2>2, Unsigned16Back
<1>3. ASSUME NEW d \in {PackPosition3(dir, n), PackPosition4(dir, limit, n)}
      PROVE  IsData(d) /\ d[1] = dir /\ Unsigned16(SubSeq(d, 4, 5)) = n
  <2>1. IsData(d) /\ d[1] = dir /\ d[4] = Low2(n)[1] /\ d[5] = Low2(n)[2]
    BY <1>1, Layouts
  <2>2. Unsigned16(SubSeq(d, 4, 5)) = Unsigned16(Low2(n))
    BY <2>1, PartsRead
  <2> QED BY <2>1, <2>2, Unsigned16Back
<1>4. ASSUME NEW d, d = PackPosition4(dir, limit, n)
      PROVE  Unsigned16(SubSeq(d, 2, 3)) = limit
  <2>1. d[2] = Low2(limit)[1] /\ d[3] = Low2(limit)[2]
    BY <1>1, <1>4, Layouts
  <2>2. Unsigned16(SubSeq(d, 2, 3)) = Unsigned16(Low2(limit))
    BY <2>1, PartsRead
  <2> QED BY <2>2, Unsigned16Back
<1> QED BY <1>2, <1>3, <1>4
-----------------------------------------------------------------------------
(***************************************************************************)
(* x8-can: what is sent is understood.                                     *)
(***************************************************************************)
\* A message filled in is seven bytes, and nothing else is in the buffer.
LEMMA SentData ==
  ASSUME NEW request, NEW cmd, NEW d, IsData(d), Send(request, cmd, d)
  PROVE  /\ TypeOK'
         /\ can_tx_data'.cmd = cmd /\ can_tx_data'.data = d /\ asked' = request
         /\ reported' = NoReply /\ returned' = NoReply
  BY DataFits DEF Send, TypeOK

\* The requests with numbers of 32 bits.
LEMMA SpeedUnderstood ==
  ASSUME NEW rpm \in Rpms, SendSpeed(rpm)
  PROVE  TypeOK' /\ UnderstoodIfFits'
<1> DEFINE n == Times32(DegreesPerSecond(rpm), 100)
           d == PackSpeed(n)
           request == [op |-> "speed", rpm |-> rpm]
<1>1. n \in Int32 /\ (rpm \in Within(3579139) => n = rpm * 600)
  BY X8Assumption, SpeedUnits
<1>2. Send(request, "0xA2", d)
  BY DEF SendSpeed
<1> HIDE DEF n
<1>3. IsData(d) /\ Signed32(SubSeq(d, 4, 7)) = n
  <2>1. 0 \in UShort
    BY DEF UShort
  <2> QED BY <1>1, <2>1, Layouts32
<1> HIDE DEF d
<1>4. TypeOK' /\ can_tx_data'.cmd = "0xA2" /\ can_tx_data'.data = d /\ asked' = request
  BY <1>2, <1>3, SentData
<1>5. Understood' = [op |-> "speed", speed |-> n]
  BY <1>3, <1>4 DEF Understood
<1>6. Wanted' = [op |-> "speed", speed |-> rpm * 600]
  BY <1>4 DEF Wanted, Bare
<1>7. Fits' => rpm \in Within(3579139)
  BY <1>4 DEF Fits
<1> QED BY <1>1, <1>4, <1>5, <1>6, <1>7 DEF UnderstoodIfFits

LEMMA Position1Understood ==
  ASSUME NEW deg \in Degrees, SendPosition1(deg)
  PROVE  TypeOK' /\ UnderstoodIfFits'
<1> DEFINE n == RotorAngle(deg)
           d == PackPosition1(n)
           request == [op |-> "position1", deg |-> deg]
<1>1. n \in Int32 /\ (deg \in Within(3579139) => n = deg * 600)
  BY X8Assumption, RotorAngleUnits
<1>2. Send(request, "0xA3", d)
  BY DEF SendPosition1
<1> HIDE DEF n
<1>3. IsData(d) /\ Signed32(SubSeq(d, 4, 7)) = n
  <2>1. 0 \in UShort
    BY DEF UShort
  <2> QED BY <1>1, <2>1, Layouts32
<1> HIDE DEF d
<1>4. TypeOK' /\ can_tx_data'.cmd = "0xA3" /\ can_tx_data'.data = d /\ asked' = request
  BY <1>2, <1>3, SentData
<1>5. Understood' = [op |-> "position1", angle |-> n]
  BY <1>3, <1>4 DEF Understood
<1>6. Wanted' = [op |-> "position1", angle |-> deg * 600]
  BY <1>4 DEF Wanted, Bare
<1>7. Fits' => deg \in Within(3579139)
  BY <1>4 DEF Fits
<1> QED BY <1>1, <1>4, <1>5, <1>6, <1>7 DEF UnderstoodIfFits

LEMMA Position2Understood ==
  ASSUME NEW rpm \in Rpms16, NEW deg \in Degrees, SendPosition2(rpm, deg)
  PROVE  TypeOK' /\ UnderstoodIfFits'
<1> DEFINE n == RotorAngle(deg)
           limit == SpeedLimit(rpm)
           d == PackPosition2(limit, n)
           request == [op |-> "position2", rpm |-> rpm, deg |-> deg]
<1>1. n \in Int32 /\ (deg \in Within(3579139) => n = deg * 600)
  BY X8Assumption, RotorAngleUnits
<1>r. limit \in UShort /\ (limit = rpm * 6 <=> rpm * 360 < 65536)
  BY X8Assumption, SpeedLimitUnits
<1>2. Send(request, "0xA4", d)
  BY DEF SendPosition2
<1> HIDE DEF n, limit
<1>3. /\ IsData(d) /\ Signed32(SubSeq(d, 4, 7)) = n
      /\ Unsigned16(SubSeq(d, 2, 3)) = limit
  BY <1>1, <1>r, Layouts32
<1> HIDE DEF d
<1>4. TypeOK' /\ can_tx_data'.cmd = "0xA4" /\ can_tx_data'.data = d /\ asked' = request
  BY <1>2, <1>3, SentData
<1>5. Understood' = [op |-> "position2", limit |-> limit, angle |-> n]
  BY <1>3, <1>4 DEF Understood
<1>6. Wanted' = [op |-> "position2", limit |-> rpm * 6, angle |-> deg * 600]
  BY <1>4 DEF Wanted, Bare
<1>7. Fits' => deg \in Within(3579139) /\ rpm * 360 < 65536
  BY <1>4 DEF Fits
<1> QED BY <1>1, <1>r, <1>4, <1>5, <1>6, <1>7 DEF UnderstoodIfFits

\* The requests with numbers of 16 bits.
LEMMA OffsetUnderstood ==
  ASSUME NEW offset \in Offsets, SendEncoderOffset(offset)
  PROVE  TypeOK' /\ UnderstoodIfFits'
<1> DEFINE d == PackEncoderOffset(offset)
           request == [op |-> "offset", offset |-> offset]
<1>1. IsData(d) /\ Unsigned16(SubSeq(d, 6, 7)) = offset
  <2>1. offset \in UShort /\ 0 \in UShort /\ 0 \in Directions
    BY X8Assumption DEF UShort, Directions
  <2> QED BY <2>1, Layouts16
<1>2. Send(request, "0x91", d)
  BY DEF SendEncoderOffset
<1> HIDE DEF d
<1>3. TypeOK' /\ can_tx_data'.cmd = "0x91" /\ can_tx_data'.data = d /\ asked' = request
  BY <1>1, <1>2, SentData
<1>4. Understood' = request
  BY <1>1, <1>3 DEF Understood
<1>5. asked'.op = "offset"
  BY <1>3
<1>6. Wanted' = request /\ Fits'
  BY <1>3, <1>5 DEF Wanted, Bare, Fits
<1> QED BY <1>3, <1>4, <1>6 DEF UnderstoodIfFits

LEMMA Position3Understood ==
  ASSUME NEW deg \in Degrees16, NEW dir \in Directions, SendPosition3(deg, dir)
  PROVE  TypeOK' /\ UnderstoodIfFits'
<1>1. /\ RotorAngle16(deg) \in UShort
      /\ RotorAngle16(deg) = deg * 600 <=> deg * 600 < 65536
  BY X8Assumption, RotorAngle16Units
<1> DEFINE d == PackPosition3(dir, RotorAngle16(deg))
           request == [op |-> "position3", deg |-> deg, dir |-> dir]
<1>2. IsData(d) /\ d[1] = dir /\ Unsigned16(SubSeq(d, 4, 5)) = RotorAngle16(deg)
  BY <1>1, Layouts16
<1>3. Send(request, "0xA5", d)
  BY DEF SendPosition3
<1> HIDE DEF d
<1>4. TypeOK' /\ can_tx_data'.cmd = "0xA5" /\ can_tx_data'.data = d /\ asked' = request
  BY <1>2, <1>3, SentData
<1>5. Understood' = [op |-> "position3", dir |-> dir, angle |-> RotorAngle16(deg)]
  BY <1>2, <1>4 DEF Understood
<1>6. Wanted' = [op |-> "position3", dir |-> dir, angle |-> deg * 600]
  BY <1>4 DEF Wanted, Bare
<1>7. Fits' <=> deg * 600 < 65536
  BY <1>4 DEF Fits
<1>8. Understood' = Wanted' <=> RotorAngle16(deg) = deg * 600
  BY <1>5, <1>6
<1> QED BY <1>1, <1>4, <1>7, <1>8 DEF UnderstoodIfFits

LEMMA Position4Understood ==
  ASSUME NEW deg \in Degrees16, NEW rpm \in Rpms16, NEW dir \in Directions,
         SendPosition4(deg, rpm, dir)
  PROVE  TypeOK' /\ UnderstoodIfFits'
<1>1. /\ RotorAngle16(deg) \in UShort
      /\ RotorAngle16(deg) = deg * 600 <=> deg * 600 < 65536
  BY X8Assumption, RotorAngle16Units
<1>r. /\ SpeedLimit(rpm) \in UShort
      /\ SpeedLimit(rpm) = rpm * 6 <=> rpm * 360 < 65536
  BY X8Assumption, SpeedLimitUnits
<1> DEFINE d == PackPosition4(dir, SpeedLimit(rpm), RotorAngle16(deg))
           request == [op |-> "position4", deg |-> deg, rpm |-> rpm, dir |-> dir]
<1>2. /\ IsData(d) /\ d[1] = dir /\ Unsigned16(SubSeq(d, 4, 5)) = RotorAngle16(deg)
      /\ Unsigned16(SubSeq(d, 2, 3)) = SpeedLimit(rpm)
  BY <1>1, <1>r, Layouts16
<1>3. Send(request, "0xA6", d)
  BY DEF SendPosition4
<1> HIDE DEF d
<1>4. TypeOK' /\ can_tx_data'.cmd = "0xA6" /\ can_tx_data'.data = d /\ asked' = request
  BY <1>2, <1>3, SentData
<1>5. Understood' = [op |-> "position4", dir |-> dir, limit |-> SpeedLimit(rpm),
                     angle |-> RotorAngle16(deg)]
  BY <1>2, <1>4 DEF Understood
<1>6. Wanted' = [op |-> "position4", dir |-> dir, limit |-> rpm * 6, angle |-> deg * 600]
  BY <1>4 DEF Wanted, Bare
<1>7. Fits' <=> deg * 600 < 65536 /\ rpm * 360 < 65536
  BY <1>4 DEF Fits
<1>8. Understood' = Wanted' <=> RotorAngle16(deg) = deg * 600 /\ SpeedLimit(rpm) = rpm * 6
  BY <1>5, <1>6
<1> QED BY <1>1, <1>4, <1>7, <1>8, <1>r DEF UnderstoodIfFits

\* A request without arguments is its command byte, whatever follows it.
LEMMA BareUnderstood ==
  ASSUME TypeOK, NEW op \in Bare, SendBare(op)
  PROVE  TypeOK' /\ UnderstoodIfFits'
<1>1. /\ can_tx_data'.cmd = CommandOf(op) /\ can_tx_data'.data = can_tx_data.data
      /\ asked' = [op |-> op]
  BY DEF SendBare, Send
<1>2. CommandOf(op) \notin {"0x91", "0xA1", "0xA2", "0xA3", "0xA4", "0xA5", "0xA6"}
  BY DEF CommandOf, Bare
<1>3. Understood' = [cmd |-> CommandOf(op)]
  BY <1>1, <1>2 DEF Understood
<1>4. Wanted' = [cmd |-> CommandOf(op)] /\ Fits'
  BY <1>1 DEF Wanted, Bare, Fits
<1>5. TypeOK'
  BY <1>1 DEF TypeOK
<1> QED BY <1>3, <1>4, <1>5 DEF UnderstoodIfFits

\* The torque request is sent as the bytes of the request before it.
LEMMA TorqueTyped ==
  ASSUME TypeOK, NEW n \in Currents, SendTorque(n)
  PROVE  TypeOK' /\ UnderstoodIfFits'
  BY DEF SendTorque, Send, TypeOK, UnderstoodIfFits

LEMMA RepliesKeepBuffer == Replies => UNCHANGED <<can_tx_data, asked>>
  BY DEF Replies, GetMultiTurnAngle, GetMotorStatus, GetPidData, Receive

LEMMA UnderstoodStep ==
  TypeOK /\ UnderstoodIfFits /\ [X8Next]_x8Vars => TypeOK' /\ UnderstoodIfFits'
<1> SUFFICES ASSUME TypeOK, UnderstoodIfFits, [X8Next]_x8Vars
             PROVE  TypeOK' /\ UnderstoodIfFits'
  OBVIOUS
<1>1. CASE Requests
  BY <1>1, OffsetUnderstood, TorqueTyped, SpeedUnderstood, Position1Understood,
     Position2Understood, Position3Understood, Position4Understood, BareUnderstood
     DEF Requests
<1>2. CASE UNCHANGED <<can_tx_data, asked>>
  <2>1. TypeOK'
    BY <1>2 DEF TypeOK
  <2>2. Understood' = Understood
    BY <1>2, Zenon DEF Understood
  <2>3. Wanted' = Wanted
    BY <1>2, Zenon DEF Wanted
  <2>4. Fits' <=> Fits
    <3>1. asked' = asked
      BY <1>2
    <3> QED BY <3>1, SMT DEF Fits
  <2> QED BY <1>2, <2>1, <2>2, <2>3, <2>4 DEF UnderstoodIfFits
<1> QED BY <1>1, <1>2, RepliesKeepBuffer DEF X8Next, x8Vars

LEMMA UnderstoodHolds == X8Spec => [](TypeOK /\ UnderstoodIfFits)
<1>1. X8Init => TypeOK /\ UnderstoodIfFits
  <2> SUFFICES ASSUME X8Init PROVE TypeOK /\ UnderstoodIfFits
    OBVIOUS
  <2>1. TypeOK
    BY DEF X8Init, TypeOK, Byte
  <2>2. Understood = [cmd |-> "0x00"] /\ Wanted = [cmd |-> "0x00"] /\ Fits
    BY DEF X8Init, Understood, Wanted, Fits, Bare
  <2> QED BY <2>1, <2>2 DEF UnderstoodIfFits
<1> QED BY <1>1, UnderstoodStep, PTL DEF X8Spec

\* The buffer always holds seven bytes after the command.
THEOREM X8TypeCorrect == X8Spec => []TypeOK
  BY UnderstoodHolds, PTL

\* Whatever was sent before, and for all arguments of the widths of their
\* parameters, the motor understands each request but torque as it was asked, as
\* long as its angle and its speed survive the arithmetic of 16 and 32 bits.
THEOREM X8Understood == X8Spec => []UnderstoodIfFits
  BY UnderstoodHolds, PTL
-----------------------------------------------------------------------------
(***************************************************************************)
(* x8-can: what is received is returned.                                   *)
(***************************************************************************)
\* The low two bytes of a number, and the rest.
LEMMA TwoBytes ==
  \A n \in Int : /\ n \div 65536 \in Int
                 /\ Unsigned16(Low2(n)) = n % 65536
                 /\ n = (n \div 65536) * 65536 + Unsigned16(Low2(n))
<1>1. \A n \in Int : /\ n \div 65536 \in Int
                     /\ (n % 256) + 256 * ((n \div 256) % 256) = n % 65536
                     /\ n = (n \div 65536) * 65536 + (n % 65536)
  BY SMT
<1>2. \A n \in Int : Unsigned16(Low2(n)) = (n % 256) + 256 * ((n \div 256) % 256)
  BY DEF Unsigned16, Low2
<1> QED BY <1>1, <1>2

\* The seven bytes of an angle, and the int64_t made of them.
LEMMA AngleBytes ==
  ASSUME NEW n \in Int
  PROVE  LET b == Int64(UnpackMultiTurnAngle(Low7(n)))
         IN  /\ Unsigned16(SubSeq(SubSeq(b, 1, 7), 1, 2)) = Unsigned16(Low2(n))
             /\ Unsigned16(SubSeq(SubSeq(b, 1, 7), 3, 4)) = Unsigned16(Low2(n \div 65536))
             /\ Unsigned16(SubSeq(SubSeq(b, 1, 7), 5, 6)) = Unsigned16(Low2(High(n)))
             /\ SubSeq(b, 1, 7)[7] = (High(n) \div 65536) % 256
             /\ b[7] = (High(n) \div 65536) % 256
             /\ b[8] = b[7]
<1> DEFINE a == Low7(n)
           d == UnpackMultiTurnAngle(a)
           b == Int64(d)
           c == SubSeq(b, 1, 7)
<1>1. /\ a[1] = Low2(n)[1] /\ a[2] = Low2(n)[2]
      /\ a[3] = Low2(n \div 65536)[1] /\ a[4] = Low2(n \div 65536)[2]
      /\ a[5] = Low2(High(n))[1] /\ a[6] = Low2(High(n))[2]
      /\ a[7] = (High(n) \div 65536) % 256
  BY DEF Low7, Low2
<1> HIDE DEF a
<1>2. /\ Len(d) = 7
      /\ d[1] = a[1] /\ d[2] = a[2] /\ d[3] = a[3] /\ d[4] = a[4]
      /\ d[5] = a[5] /\ d[6] = a[6] /\ d[7] = a[7]
  BY DEF UnpackMultiTurnAngle
<1>3. /\ b[1] = d[1] /\ b[2] = d[2] /\ b[3] = d[3] /\ b[4] = d[4]
      /\ b[5] = d[5] /\ b[6] = d[6] /\ b[7] = d[7] /\ b[8] = d[7]
  BY <1>2 DEF Int64, UnpackMultiTurnAngle
<1> HIDE DEF d, b
<1>4. /\ c[1] = b[1] /\ c[2] = b[2] /\ c[3] = b[3] /\ c[4] = b[4]
      /\ c[5] = b[5] /\ c[6] = b[6] /\ c[7] = b[7]
  OBVIOUS
<1> HIDE DEF c
<1>5. /\ SubSeq(c, 1, 2)[1] = c[1] /\ SubSeq(c, 1, 2)[2] = c[2]
      /\ SubSeq(c, 3, 4)[1] = c[3] /\ SubSeq(c, 3, 4)[2] = c[4]
      /\ SubSeq(c, 5, 6)[1] = c[5] /\ SubSeq(c, 5, 6)[2] = c[6]
  OBVIOUS
<1>6. Unsigned16(SubSeq(c, 1, 2)) = Unsigned16(Low2(n))
  BY <1>1, <1>2, <1>3, <1>4, <1>5 DEF Unsigned16
<1>7. Unsigned16(SubSeq(c, 3, 4)) = Unsigned16(Low2(n \div 65536))
  BY <1>1, <1>2, <1>3, <1>4, <1>5 DEF Unsigned16
<1>8. Unsigned16(SubSeq(c, 5, 6)) = Unsigned16(Low2(High(n)))
  BY <1>1, <1>2, <1>3, <1>4, <1>5 DEF Unsigned16
<1>9. c[7] = (High(n) \div 65536) % 256 /\ b[7] = (High(n) \div 65536) % 256 /\ b[8] = b[7]
  BY <1>1, <1>2, <1>3, <1>4
<1> QED BY <1>6, <1>7, <1>8, <1>9 DEF c, b, d, a

\* The int64_t is the angle, unless the seventh byte is more than its sign.
LEMMA AngleBack ==
  ASSUME NEW n \in Int56, n \in SixBytes
  PROVE  Value64(Int64(UnpackMultiTurnAngle(Low7(n)))) = n
<1> DEFINE b == Int64(UnpackMultiTurnAngle(Low7(n)))
           c == SubSeq(b, 1, 7)
           m == n \div 65536
           h == High(n)
           t == h \div 65536
<1>1. n \in Int /\ 0 <= h + 65536 /\ h < 65536
  BY DEF SixBytes
<1>2. /\ m \in Int /\ h \in Int /\ t \in Int
      /\ n = m * 65536 + Unsigned16(Low2(n))
      /\ m = h * 65536 + Unsigned16(Low2(m))
      /\ h = t * 65536 + Unsigned16(Low2(h))
  <2>1. m \in Int /\ n = m * 65536 + Unsigned16(Low2(n))
    BY <1>1, TwoBytes
  <2>2. h = m \div 65536
    BY DEF High
  <2> HIDE DEF m, h
  <2>3. h \in Int /\ m = h * 65536 + Unsigned16(Low2(m))
    BY <2>1, <2>2, TwoBytes
  <2>4. t \in Int /\ h = t * 65536 + Unsigned16(Low2(h))
    BY <2>3, TwoBytes
  <2> QED BY <2>1, <2>3, <2>4
<1>3. /\ Unsigned16(SubSeq(c, 1, 2)) = Unsigned16(Low2(n))
      /\ Unsigned16(SubSeq(c, 3, 4)) = Unsigned16(Low2(m))
      /\ Unsigned16(SubSeq(c, 5, 6)) = Unsigned16(Low2(h))
      /\ c[7] = t % 256 /\ b[7] = t % 256 /\ b[8] = b[7]
  BY <1>1, AngleBytes
<1>4. t = 0 \/ t = -1
  <2> HIDE DEF h
  <2> QED BY <1>1, <1>2, SMT
<1> HIDE DEF b, c, m, h, t
<1>5. Signed8(t % 256) = t /\ (t % 256 = IF t % 256 < 128 THEN 0 ELSE 255)
  BY <1>4, SMT DEF Signed8
<1>6. Signed56(c) = ((Unsigned16(Low2(h)) + 65536 * t) * 65536 + Unsigned16(Low2(m))) * 65536
                       + Unsigned16(Low2(n))
  <2>1. Signed8(c[7]) = t
    BY <1>3, <1>5
  <2>2. Signed56(c) = ((Unsigned16(SubSeq(c, 5, 6)) + 65536 * Signed8(c[7])) * 65536
                          + Unsigned16(SubSeq(c, 3, 4))) * 65536 + Unsigned16(SubSeq(c, 1, 2))
    BY DEF Signed56
  <2> QED BY <1>3, <2>1, <2>2
<1>7. Unsigned16(Low2(h)) \in Int
  BY <1>2, Unsigned16Range DEF UShort
<1>8. Unsigned16(Low2(h)) + 65536 * t = h
  BY <1>2, <1>7, SMT
<1>9. Value64(b) = Signed56(c)
  BY <1>3, <1>5, Zenon DEF Value64, c
<1> QED BY <1>2, <1>6, <1>8, <1>9 DEF b

LEMMA AngleReturned ==
  ASSUME NEW n \in Angles, GetMultiTurnAngle(n)
  PROVE  ReturnedRight'
<1> DEFINE v == ToDegrees(Value64(Int64(UnpackMultiTurnAngle(Low7(n)))))
<1>1. n \in SixBytes => v = Quotient(n, 600)
  <2> SUFFICES ASSUME n \in SixBytes PROVE v = Quotient(n, 600)
    OBVIOUS
  <2>1. n \in Int56 /\ n \in Int
    BY X8Assumption DEF Int56
  <2>2. Quotient(Quotient(n, 100), 6) = Quotient(n, 600)
    BY <2>1, QuotientTwice
  <2> QED BY <2>1, <2>2, AngleBack DEF ToDegrees
<1>2. reported' = [op |-> "angle", angle |-> n] /\ returned' = [op |-> "angle", angle |-> v]
  BY DEF GetMultiTurnAngle, Receive
<1> HIDE DEF v
<1> QED BY <1>1, <1>2 DEF ReturnedRight

\* The bytes of a status are read back as what they were made of.
LEMMA StatusBack ==
  ASSUME NEW t \in {-20, 20}, NEW iq \in Short, NEW speed \in Short, NEW encoder \in UShort
  PROVE  LET msg == UnpackMotorStatus(StatusData(t, iq, speed, encoder))
         IN  /\ Signed8(msg.temperature) = t /\ Signed16(msg.iq) = iq
             /\ Signed16(msg.speed) = speed /\ Unsigned16(msg.encoder) = encoder
<1> DEFINE d == StatusData(t, iq, speed, encoder)
           msg == UnpackMotorStatus(d)
<1>1. /\ d[1] = t % 256 /\ d[2] = Low2(iq)[1] /\ d[3] = Low2(iq)[2]
      /\ d[4] = Low2(speed)[1] /\ d[5] = Low2(speed)[2]
      /\ d[6] = Low2(encoder)[1] /\ d[7] = Low2(encoder)[2]
  BY DEF StatusData, Low2
<1> HIDE DEF d
<1>2. /\ msg.temperature = d[1] /\ msg.iq = SubSeq(d, 2, 3) /\ msg.speed = SubSeq(d, 4, 5)
      /\ msg.encoder = SubSeq(d, 6, 7)
  BY DEF UnpackMotorStatus
<1> HIDE DEF msg
<1>3. Signed8(msg.temperature) = t
  BY <1>1, <1>2 DEF Signed8
<1>4. Signed16(msg.iq) = Signed16(Low2(iq))
  <2>1. msg.iq[1] = d[2] /\ msg.iq[2] = d[3]
    BY <1>2
  <2> QED BY <1>1, <2>1 DEF Signed16
<1>5. Signed16(msg.speed) = Signed16(Low2(speed))
  <2>1. msg.speed[1] = d[4] /\ msg.speed[2] = d[5]
    BY <1>2
  <2> QED BY <1>1, <2>1 DEF Signed16
<1>6. Unsigned16(msg.encoder) = Unsigned16(Low2(encoder))
  <2>1. msg.encoder[1] = d[6] /\ msg.encoder[2] = d[7]
    BY <1>2
  <2> QED BY <1>1, <2>1 DEF Unsigned16
<1> QED BY <1>3, <1>4, <1>5, <1>6, Signed16Back, Unsigned16Back DEF msg, d

\* Six times a speed up to 546 degrees per second leaves sixteen bits alone.
LEMMA RpmOfSpeed == \A speed \in Within(546) : ToRpm(speed) = Quotient(speed, 6)
  BY DEF ToRpm, Quotient, ToInt16, Within

LEMMA StatusReturned ==
  ASSUME NEW t \in {-20, 20}, NEW iq \in Currents, NEW speed \in Speeds, NEW encoder \in Offsets,
         GetMotorStatus(t, iq, speed, encoder)
  PROVE  ReturnedRight'
<1>1. iq \in Short /\ speed \in Short /\ encoder \in UShort
  BY X8Assumption
<1>2. /\ reported' = [op |-> "status", temperature |-> t, iq |-> iq, speed |-> speed,
                      encoder |-> encoder]
      /\ returned' = [op |-> "status", temperature |-> t, iq |-> iq, speed |-> ToRpm(speed),
                      encoder |-> encoder]
  BY <1>1, StatusBack DEF GetMotorStatus, Receive
<1> QED BY <1>2, RpmOfSpeed DEF ReturnedRight

LEMMA PidReturned ==
  ASSUME NEW gains \in Gains, GetPidData(gains)
  PROVE  ReturnedRight'
<1>1. gains \in [1..6 -> Byte]
  BY X8Assumption
<1>2. gains \in Seq(Byte) /\ Len(gains) = 6
  <2>1. gains \in UNION {[1..i -> Byte] : i \in Nat}
    BY <1>1, Zenon
  <2>2. gains \in Seq(Byte)
    BY <2>1, SeqDef, Zenon
  <2>3. Len(gains) \in Nat /\ DOMAIN gains = 1..Len(gains)
    BY <2>2, LenProperties
  <2> QED BY <1>1, <2>2, <2>3
<1> DEFINE d == <<0>> \o gains
<1>3. /\ d \in Seq(Byte) /\ Len(d) = 7
      /\ \A i \in 1..6 : d[i + 1] = gains[i]
  <2>1. 0 \in Byte
    BY DEF Byte
  <2>2. <<0>> \in Seq(Byte) /\ Len(<<0>>) = 1
    BY <2>1
  <2>3. /\ d \in Seq(Byte) /\ Len(d) = Len(<<0>>) + Len(gains)
        /\ \A i \in 1..(Len(<<0>>) + Len(gains)) :
              d[i] = IF i <= Len(<<0>>) THEN <<0>>[i] ELSE gains[i - Len(<<0>>)]
    BY <1>2, <2>2, ConcatProperties, Zenon
  <2> HIDE DEF d
  <2>4. Len(d) = 7
    BY <1>2, <2>2, <2>3
  <2>5. ASSUME NEW i \in 1..6 PROVE d[i + 1] = gains[i]
    <3>1. i + 1 \in 1..(Len(<<0>>) + Len(gains)) /\ ~(i + 1 <= 1) /\ (i + 1) - 1 = i
      BY <1>2, <2>2
    <3> QED BY <2>2, <2>3, <3>1
  <2> QED BY <2>3, <2>4, <2>5
<1> HIDE DEF d
<1>4. /\ SubSeq(d, 2, 7) \in Seq(Byte) /\ Len(SubSeq(d, 2, 7)) = 6
      /\ \A i \in 1..6 : SubSeq(d, 2, 7)[i] = gains[i]
  <2>1. \A i \in 2..7 : d[i] \in Byte
    <3>1. d \in [1..7 -> Byte]
      BY <1>3, LenProperties
    <3> QED BY <3>1
  <2>2. /\ SubSeq(d, 2, 7) \in Seq(Byte) /\ Len(SubSeq(d, 2, 7)) = 6
        /\ \A i \in 1..6 : SubSeq(d, 2, 7)[i] = d[2 + i - 1]
    BY <2>1, SubSeqProperties
  <2> QED BY <1>3, <2>2
<1>5. UnpackPid(d) = gains
  BY <1>2, <1>4, SeqEqual DEF UnpackPid
<1>6. reported' = [op |-> "pid", gains |-> gains] /\ returned' = [op |-> "pid", gains |-> gains]
  BY <1>5, Zenon DEF GetPidData, Receive, d
<1> QED BY <1>6 DEF ReturnedRight

LEMMA SentForgets == Requests => reported' = NoReply /\ returned' = NoReply
  BY DEF Requests, SendEncoderOffset, SendTorque, SendSpeed, SendPosition1, SendPosition2,
     SendPosition3, SendPosition4, SendBare, Send

\* What x8_can_get_xxx returns is what the motor reported, in the units of the
\* requests and with its sign.
THEOREM X8Returned == X8Spec => []ReturnedRight
<1>1. X8Init => ReturnedRight
  BY DEF X8Init, NoReply, ReturnedRight
<1>2. ReturnedRight /\ [X8Next]_x8Vars => ReturnedRight'
  <2> SUFFICES ASSUME ReturnedRight, [X8Next]_x8Vars PROVE ReturnedRight'
    OBVIOUS
  <2>1. CASE Requests
    BY <2>1, SentForgets DEF NoReply, ReturnedRight
  <2>2. CASE Replies
    BY <2>2, AngleReturned, StatusReturned, PidReturned DEF Replies
  <2>3. CASE UNCHANGED x8Vars
    BY <2>3, Zenon DEF x8Vars, ReturnedRight
  <2> QED BY <2>1, <2>2, <2>3 DEF X8Next
<1> QED BY <1>1, <1>2, PTL DEF X8Spec
-----------------------------------------------------------------------------
(***************************************************************************)
(* motor: what a float makes of an angle.                                  *)
(***************************************************************************)
LEMMA Powers ==
  /\ 2^0 = 1 /\ 2^1 = 2 /\ 2^2 = 4 /\ 2^3 = 8 /\ 2^4 = 16 /\ 2^5 = 32 /\ 2^6 = 64 /\ 2^7 = 128
  /\ 2^8 = 256 /\ 2^9 = 512 /\ 2^10 = 1024 /\ 2^11 = 2048 /\ 2^12 = 4096 /\ 2^13 = 8192
  /\ 2^14 = 16384 /\ 2^15 = 32768 /\ 2^16 = 65536 /\ 2^17 = 131072 /\ 2^18 = 262144
  /\ 2^19 = 524288 /\ 2^20 = 1048576 /\ 2^21 = 2097152 /\ 2^22 = 4194304 /\ 2^23 = 8388608
  /\ 2^24 = 16777216 /\ 2^25 = 33554432 /\ 2^26 = 67108864 /\ 2^27 = 134217728
  /\ 2^28 = 268435456 /\ 2^29 = 536870912 /\ 2^30 = 1073741824
  BY SMT

\* The scales, each with the sizes it is for.
LEMMA HasScales ==
  ASSUME NEW n \in Int
  PROVE  /\ HasScale(n, 4) <=> 52428799 < n /\ n <= 104857599
         /\ HasScale(n, 5) <=> 26214399 < n /\ n <= 52428799
         /\ HasScale(n, 6) <=> 13107199 < n /\ n <= 26214399
         /\ HasScale(n, 7) <=> 6553599 < n /\ n <= 13107199
         /\ HasScale(n, 8) <=> 3276799 < n /\ n <= 6553599
         /\ HasScale(n, 9) <=> 1638399 < n /\ n <= 3276799
         /\ HasScale(n, 10) <=> 819199 < n /\ n <= 1638399
         /\ HasScale(n, 11) <=> 409599 < n /\ n <= 819199
         /\ HasScale(n, 12) <=> 204799 < n /\ n <= 409599
         /\ HasScale(n, 13) <=> 102399 < n /\ n <= 204799
         /\ HasScale(n, 14) <=> 51199 < n /\ n <= 102399
         /\ HasScale(n, 15) <=> 25599 < n /\ n <= 51199
         /\ HasScale(n, 16) <=> 12799 < n /\ n <= 25599
         /\ HasScale(n, 17) <=> 6399 < n /\ n <= 12799
         /\ HasScale(n, 18) <=> 3199 < n /\ n <= 6399
         /\ HasScale(n, 19) <=> 1599 < n /\ n <= 3199
         /\ HasScale(n, 20) <=> 799 < n /\ n <= 1599
         /\ HasScale(n, 21) <=> 399 < n /\ n <= 799
         /\ HasScale(n, 22) <=> 199 < n /\ n <= 399
         /\ HasScale(n, 23) <=> 99 < n /\ n <= 199
         /\ HasScale(n, 24) <=> 49 < n /\ n <= 99
         /\ HasScale(n, 25) <=> 24 < n /\ n <= 49
         /\ HasScale(n, 26) <=> 12 < n /\ n <= 24
         /\ HasScale(n, 27) <=> 6 < n /\ n <= 12
         /\ HasScale(n, 28) <=> 3 < n /\ n <= 6
         /\ HasScale(n, 29) <=> 1 < n /\ n <= 3
         /\ HasScale(n, 30) <=> 0 < n /\ n <= 1
<1> USE Powers DEF HasScale, MaxAngle
<1>1. /\ HasScale(n, 4) <=> 52428799 < n /\ n <= 104857599
      /\ HasScale(n, 5) <=> 26214399 < n /\ n <= 52428799
  BY SMT
<1> QED BY <1>1, SMT

LEMMA PowerOfTwo ==
  ASSUME NEW k \in 0..30
  PROVE  /\ 2^k \in Int /\ 2^k >= 1
         /\ 2^k > 8 => 2^k >= 16
         /\ 2^k > 64 => 2^k >= 128
<1> DEFINE f == [i \in 0..30 |-> 2^i]
<1>1. \/ k = 0 \/ k = 1 \/ k = 2 \/ k = 3 \/ k = 4 \/ k = 5 \/ k = 6 \/ k = 7 \/ k = 8 \/ k = 9
      \/ k = 10 \/ k = 11 \/ k = 12 \/ k = 13 \/ k = 14 \/ k = 15 \/ k = 16 \/ k = 17 \/ k = 18
      \/ k = 19 \/ k = 20 \/ k = 21 \/ k = 22 \/ k = 23 \/ k = 24 \/ k = 25 \/ k = 26 \/ k = 27
      \/ k = 28 \/ k = 29 \/ k = 30
  BY SMT
<1>2. /\ f[0] = 1 /\ f[1] = 2 /\ f[2] = 4 /\ f[3] = 8 /\ f[4] = 16
      /\ f[5] = 32 /\ f[6] = 64 /\ f[7] = 128 /\ f[8] = 256 /\ f[9] = 512
      /\ f[10] = 1024 /\ f[11] = 2048 /\ f[12] = 4096 /\ f[13] = 8192 /\ f[14] = 16384
      /\ f[15] = 32768 /\ f[16] = 65536 /\ f[17] = 131072 /\ f[18] = 262144 /\ f[19] = 524288
      /\ f[20] = 1048576 /\ f[21] = 2097152 /\ f[22] = 4194304 /\ f[23] = 8388608 /\ f[24] = 16777216
      /\ f[25] = 33554432 /\ f[26] = 67108864 /\ f[27] = 134217728 /\ f[28] = 268435456 /\ f[29] = 536870912
      /\ f[30] = 1073741824
  BY SMT
<1>3. 2^k = f[k]
  BY Zenon
<1> HIDE DEF f
<1>4. f[k] \in Int /\ f[k] >= 1 /\ (f[k] > 8 => f[k] >= 16) /\ (f[k] > 64 => f[k] >= 128)
  BY <1>1, <1>2, SMT
<1> QED BY <1>3, <1>4, Zenon

\* A number beyond a quotient, times the divisor, is beyond the dividend.
LEMMA Beyond ==
  ASSUME NEW n \in Int, NEW a \in Int, NEW p \in Int, p >= 1
  PROVE  /\ n > a \div p => n * p > a
         /\ n <= a \div p => n * p <= a
  BY SMT

LEMMA Monotone ==
  ASSUME NEW a \in Int, NEW b \in Int, NEW p \in Int, p >= 0, a <= b
  PROVE  a * p <= b * p
  BY SMT

\* Every size up to MaxAngle has a scale, which leaves a significand of 24 bits.
LEMMA ScaleFits ==
  ASSUME NEW n \in Int, 1 <= n, n <= MaxAngle
  PROVE  LET p == 2^ScaleOf(n)
         IN  /\ p \in Int /\ p >= 16
             /\ 838860799 < n * p /\ n * p <= 1677721599
             /\ n <= ExactAngle => p >= 128
             /\ n <= 9000 => p >= 1024
<1>1. \E k \in 0..30 : HasScale(n, k)
  BY HasScales, SMT DEF MaxAngle
<1> DEFINE p == 2^ScaleOf(n)
<1>2. ScaleOf(n) \in 0..30 /\ HasScale(n, ScaleOf(n))
  BY <1>1, Zenon DEF ScaleOf
<1>3. p \in Int /\ p >= 1 /\ (p > 8 => p >= 16) /\ (p > 64 => p >= 128)
  BY <1>2, PowerOfTwo
<1>4. n > 838860799 \div p /\ n <= 1677721599 \div p
  BY <1>2, SMT DEF HasScale
<1> HIDE DEF p
<1>5. 838860799 < n * p /\ n * p <= 1677721599
  BY <1>3, <1>4, Beyond, SMT
<1>6. p <= 8 => n * p <= 800000000
  BY <1>3, SMT DEF MaxAngle
<1>7. p <= 64 /\ n <= ExactAngle => n * p <= 838860736
  BY <1>3, SMT DEF ExactAngle
<1>8. p <= 1023 /\ n <= 9000 => n * p <= 9207000
  BY <1>3, SMT
<1>9. p >= 16 /\ (n <= ExactAngle => p >= 128) /\ (n <= 9000 => p >= 1024)
  BY <1>3, <1>5, <1>6, <1>7, <1>8, SMT DEF ExactAngle
<1> QED BY <1>3, <1>5, <1>9, SMT DEF p

\* Rounding goes to a nearest multiple.
LEMMA RoundedNear ==
  ASSUME NEW n \in Int, NEW d \in Int, d > 0
  PROVE  LET r == Rounded(n, d) IN r \in Int /\ 2 * (r * d - n) <= d /\ 2 * (n - r * d) <= d
  BY SMT DEF Rounded

Size(n) == IF n < 0 THEN -n ELSE n

LEMMA FloatOf ==
  ASSUME NEW n \in Within(MaxAngle), n # 0
  PROVE  LET x == Float(n)
             p == 2^x.scale
         IN  /\ x.negative <=> n < 0
             /\ Size(n) \in Int /\ 1 <= Size(n) /\ Size(n) <= MaxAngle
             /\ p \in Int /\ p >= 16
             /\ Size(n) <= ExactAngle => p >= 128
             /\ Size(n) <= 9000 => p >= 1024
             /\ x.significand \in Int
             /\ x.significand * 100 - Size(n) * p <= 50 /\ Size(n) * p - x.significand * 100 <= 50
             /\ 838860799 < Size(n) * p /\ Size(n) * p <= 1677721599
<1> DEFINE s == Size(n)
           k == ScaleOf(s)
           x == Float(n)
<1>1. s \in Int /\ 1 <= s /\ s <= MaxAngle
  BY SMT DEF Within, Size, MaxAngle
<1>2. x = [negative |-> n < 0, significand |-> Rounded(s * 2^k, 100), scale |-> k]
  BY Zenon DEF Float, Size
<1> HIDE DEF s
<1>3. /\ 2^k \in Int /\ 2^k >= 16
      /\ 838860799 < s * 2^k /\ s * 2^k <= 1677721599
      /\ s <= ExactAngle => 2^k >= 128
      /\ s <= 9000 => 2^k >= 1024
  BY <1>1, ScaleFits
<1> HIDE DEF k, x
<1>4. (x.negative <=> n < 0) /\ x.significand = Rounded(s * 2^k, 100) /\ x.scale = k
  <2>1. x.negative = (n < 0) /\ x.significand = Rounded(s * 2^k, 100) /\ x.scale = k
    BY <1>2, Zenon
  <2> QED BY <2>1, Zenon
<1> DEFINE m == s * 2^k
<1>5. m \in Int
  BY <1>1, <1>3, SMT
<1>6. 838860799 < m /\ m <= 1677721599
  BY <1>3, SMT
<1> HIDE DEF m
<1>7. LET r == Rounded(m, 100) IN r \in Int /\ 2 * (r * 100 - m) <= 100 /\ 2 * (m - r * 100) <= 100
  BY <1>5, RoundedNear, SMT
<1>8. x.significand = Rounded(m, 100)
  BY <1>4, Zenon DEF m
<1>9. x.significand \in Int /\ x.significand * 100 - m <= 50 /\ m - x.significand * 100 <= 50
  BY <1>5, <1>7, <1>8, SMT
<1> QED BY <1>1, <1>3, <1>4, <1>6, <1>9, SMT DEF m, s, x

\* A significand that is off by half a hundredth is printed off by three at most.
LEMMA PrintedNear ==
  ASSUME NEW s \in Int, NEW p \in Int, p >= 16, NEW g \in Int,
         g * 100 - s * p <= 50, s * p - g * 100 <= 50
  PROVE  LET r == Rounded(g * 100, p)
         IN  /\ r \in Int /\ r - s <= 3 /\ s - r <= 3
             /\ p >= 128 => r = s
<1> DEFINE r == Rounded(g * 100, p)
           e == r - s
<1>1. r \in Int /\ 2 * (r * p - g * 100) <= p /\ 2 * (g * 100 - r * p) <= p
  BY RoundedNear, SMT
<1> HIDE DEF r
<1>2. e \in Int /\ r * p = s * p + e * p
  BY <1>1, SMT
<1>3. e * p <= 50 + p \div 2 /\ -(e * p) <= 50 + p \div 2
  BY <1>1, <1>2, SMT
<1>4. (e >= 4 => e * p >= 4 * p) /\ (e >= 1 => e * p >= p)
      /\ (-e >= 4 => (-e) * p >= 4 * p) /\ (-e >= 1 => (-e) * p >= p)
  BY <1>2, Monotone, SMT
<1>5. (-e) * p = -(e * p)
  BY <1>2, SMT
<1>6. e <= 3 /\ -e <= 3 /\ (p >= 128 => e = 0)
  <2> DEFINE m == e * p
  <2>1. m \in Int /\ e \in Int
    BY <1>2, SMT
  <2>2. m <= 50 + p \div 2 /\ -m <= 50 + p \div 2
    BY <1>3
  <2>3. (e >= 4 => m >= 4 * p) /\ (e >= 1 => m >= p)
        /\ (-e >= 4 => -m >= 4 * p) /\ (-e >= 1 => -m >= p)
    BY <1>4, <1>5, SMT
  <2> HIDE DEF m, e
  <2> QED BY <2>1, <2>2, <2>3, SMT
<1> QED BY <1>1, <1>6, SMT DEF e, r

LEMMA FloatPrinted ==
  ASSUME NEW n \in Within(MaxAngle)
  PROVE  /\ Printed(Float(n)) \in Int
         /\ Printed(Float(n)) - n <= 3 /\ n - Printed(Float(n)) <= 3
         /\ n \in Within(ExactAngle) => Printed(Float(n)) = n
<1>1. CASE n = 0
  <2>1. Float(n) = Zero
    BY <1>1, Zenon DEF Float
  <2>2. Printed(Zero) = 0
    BY Powers, SMT DEF Printed, Zero, WithSign, Rounded
  <2> QED BY <1>1, <2>1, <2>2, SMT
<1>2. CASE n # 0
  <2> DEFINE x == Float(n)
             p == 2^x.scale
             s == Size(n)
             r == Rounded(x.significand * 100, p)
  <2>1. /\ x.negative <=> n < 0
        /\ s \in Int /\ 1 <= s /\ s <= MaxAngle
        /\ p \in Int /\ p >= 16
        /\ s <= ExactAngle => p >= 128
        /\ x.significand \in Int
        /\ x.significand * 100 - s * p <= 50 /\ s * p - x.significand * 100 <= 50
    BY <1>2, FloatOf
  <2>2. Printed(x) = IF x.negative THEN -r ELSE r
    BY Zenon DEF Printed, WithSign
  <2>3. n \in Int /\ s = IF n < 0 THEN -n ELSE n
    BY SMT DEF Size, Within
  <2>4. n \in Within(ExactAngle) => s <= ExactAngle
    BY SMT DEF Size, Within, ExactAngle
  <2> HIDE DEF x, p, s
  <2>5. r \in Int /\ r - s <= 3 /\ s - r <= 3 /\ (p >= 128 => r = s)
    BY <2>1, PrintedNear
  <2> HIDE DEF r
  <2>6. r \in Int /\ r - s <= 3 /\ s - r <= 3 /\ (n \in Within(ExactAngle) => r = s)
    BY <2>1, <2>4, <2>5, Zenon
  <2> QED BY <2>1, <2>2, <2>3, <2>6, SMT DEF x
<1> QED BY <1>1, <1>2

\* A quotient is at most 90 after rounding up, exactly if the dividend allows it.
LEMMA CeilingBound ==
  ASSUME NEW g \in Int, g >= 0, NEW p \in Int, p >= 1
  PROVE  LET c == -((-g) \div p) IN c \in Int /\ c >= 0 /\ (c <= 90 <=> g <= 90 * p)
<1> DEFINE c == -((-g) \div p)
<1>1. c \in Int /\ g <= c * p /\ c * p < g + p
  BY SMT
<1> HIDE DEF c
<1>2. (c <= 90 => c * p <= 90 * p) /\ (c >= 91 => c * p >= 91 * p) /\ (c <= -1 => c * p <= -p)
  BY <1>1, Monotone, SMT
<1>3. c >= 0 /\ (c <= 90 <=> g <= 90 * p)
  <2> DEFINE m == c * p
  <2>1. m \in Int
    BY <1>1, SMT
  <2>2. /\ g <= m /\ m < g + p
        /\ (c <= 90 => m <= 90 * p) /\ (c >= 91 => m >= 91 * p) /\ (c <= -1 => m <= -p)
    BY <1>1, <1>2
  <2> HIDE DEF m
  <2> QED BY <1>1, <2>1, <2>2, SMT
<1> QED BY <1>1, <1>3 DEF c

\* The significand is at most 90 degrees, exactly if the hundredths are.
LEMMA RangeBound ==
  ASSUME NEW s \in Int, NEW p \in Int, p >= 16, s <= ExactAngle => p >= 128,
         NEW g \in Int, g * 100 - s * p <= 50, s * p - g * 100 <= 50
  PROVE  g <= 90 * p <=> s <= 9000
<1> DEFINE m == s * p
<1>1. /\ m \in Int
      /\ s <= 9000 => m <= 9000 * p
      /\ s >= 9001 => m >= 9001 * p
      /\ s >= 9004 => m >= 9004 * p
  BY Monotone, SMT
<1>2. g * 100 - m <= 50 /\ m - g * 100 <= 50
  OBVIOUS
<1> HIDE DEF m
<1>3. s >= 9001 => s >= 9004 \/ p >= 128
  BY SMT DEF ExactAngle
<1> QED BY <1>1, <1>2, <1>3, SMT

LEMMA QuotientNear ==
  ASSUME NEW r \in Int, NEW s \in Int, NEW p \in Int, p >= 1, -p <= r - s * p, r - s * p < p
  PROVE  r \div p \in {s - 1, s}
<1> DEFINE q == r \div p
<1>1. q \in Int /\ q * p <= r /\ r < q * p + p
  BY SMT
<1> HIDE DEF q
<1>2. (q >= s + 1 => q * p >= s * p + p) /\ (q <= s - 2 => q * p <= s * p - 2 * p)
  BY <1>1, Monotone, SMT
<1>3. q = s - 1 \/ q = s
  <2> DEFINE m == q * p
             t == s * p
  <2>1. m \in Int /\ t \in Int
    BY <1>1, SMT
  <2>2. /\ m <= r /\ r < m + p /\ -p <= r - t /\ r - t < p
        /\ (q >= s + 1 => m >= t + p) /\ (q <= s - 2 => m <= t - 2 * p)
    BY <1>1, <1>2
  <2> HIDE DEF m, t
  <2> QED BY <1>1, <2>1, <2>2, SMT
<1> QED BY <1>3 DEF q

\* Rounding the product to 24 bits loses a hundredth at most.
LEMMA ScaledNear ==
  ASSUME NEW s \in Int, s >= 1, NEW p \in Int, p >= 1024,
         NEW g \in Int, g * 100 - s * p <= 50, s * p - g * 100 <= 50,
         NEW unit \in {64, 128}
  PROVE  (Rounded(g * 100, unit) * unit) \div p \in {s - 1, s}
<1> DEFINE r == Rounded(g * 100, unit)
           m == s * p
<1>1. r \in Int /\ 2 * (r * unit - g * 100) <= unit /\ 2 * (g * 100 - r * unit) <= unit
  BY RoundedNear, SMT
<1>2. m \in Int /\ g * 100 - m <= 50 /\ m - g * 100 <= 50
  BY SMT
<1> HIDE DEF r, m
<1>3. r * unit \in Int /\ -p <= r * unit - m /\ r * unit - m < p
  BY <1>1, <1>2, SMT
<1> QED BY <1>3, QuotientNear DEF r, m

InRange(a) == -9000 <= a /\ a <= 9000

\* What set_position makes of an angle: refused beyond 90 degrees, and within
\* them sent as it is or one hundredth nearer to zero.
LEMMA AngleScaled ==
  ASSUME NEW n \in Within(MaxAngle)
  PROVE  LET x == Float(n)
         IN  /\ Printed(x) \in Int
             /\ in_range(x) <=> InRange(n)
             /\ InRange(Printed(x)) <=> InRange(n)
             /\ InRange(n) => /\ Printed(x) = n
                              /\ Scaled(x) \in Int
                              /\ n >= 0 => Scaled(x) \in {n - 1, n} /\ Scaled(x) >= 0
                              /\ n < 0 => Scaled(x) \in {n, n + 1} /\ Scaled(x) <= 0
<1>1. CASE n = 0
  <2>1. Float(n) = Zero
    BY <1>1, Zenon DEF Float
  <2>2. Printed(Zero) = 0 /\ Scaled(Zero) = 0 /\ Ceiling(Zero) = 0
    <3>1. 0 * position_scale = 0 /\ 0 < 2^30
      BY Powers, SMT DEF position_scale
    <3>2. Rounded(0, 1) = 0 /\ Rounded(0, 64) = 0
      BY SMT DEF Rounded
    <3>3. Zero.negative = FALSE /\ Zero.significand = 0 /\ Zero.scale = 0 /\ 2^0 = 1
      BY Powers, SMT DEF Zero
    <3> HIDE DEF Zero
    <3>4. Printed(Zero) = 0
      BY <3>2, <3>3, SMT DEF Printed, WithSign
    <3>5. Scaled(Zero) = 0
      BY <3>1, <3>2, <3>3, SMT DEF Scaled, WithSign
    <3>6. Ceiling(Zero) = 0
      <4>1. \A i \in Int : -((-i) \div 1) = i
        BY SMT
      <4>2. Ceiling(Zero) = -((-0) \div 1)
        BY <3>3, Zenon DEF Ceiling, WithSign
      <4>3. 0 \in Int
        BY SMT
      <4> QED BY <4>1, <4>2, <4>3, Zenon
    <3> QED BY <3>4, <3>5, <3>6
  <2> QED BY <1>1, <2>1, <2>2, SMT DEF in_range, InRange, min_position, max_position
<1>2. CASE n # 0
  <2> DEFINE x == Float(n)
             p == 2^x.scale
             s == Size(n)
             g == x.significand
             c == -((-g) \div p)
             unit == IF g * position_scale < 2^30 THEN 64 ELSE 128
             q == (Rounded(g * position_scale, unit) * unit) \div p
  <2>1. /\ x.negative <=> n < 0
        /\ s \in Int /\ 1 <= s /\ s <= MaxAngle
        /\ p \in Int /\ p >= 16
        /\ s <= ExactAngle => p >= 128
        /\ s <= 9000 => p >= 1024
        /\ g \in Int /\ g * 100 - s * p <= 50 /\ s * p - g * 100 <= 50
    BY <1>2, FloatOf
  <2>2. /\ Ceiling(x) = IF x.negative THEN -c ELSE c
        /\ Scaled(x) = IF x.negative THEN -q ELSE q
    BY Zenon DEF Ceiling, Scaled, WithSign
  <2>3. n \in Int /\ s = IF n < 0 THEN -n ELSE n
    BY SMT DEF Size, Within
  <2>4. unit \in {64, 128}
    BY Zenon
  <2>5. InRange(n) <=> s <= 9000
    BY <2>3, SMT DEF InRange
  <2>6. /\ Printed(x) \in Int /\ Printed(x) - n <= 3 /\ n - Printed(x) <= 3
        /\ s <= ExactAngle => Printed(x) = n
    <3>1. s <= ExactAngle => n \in Within(ExactAngle)
      BY <2>3, SMT DEF Within, ExactAngle
    <3> QED BY <3>1, FloatPrinted
  <2> HIDE DEF x, p, s, unit
  <2>7. g >= 0
    <3>1. s * p >= 1 * p
      BY <2>1, Monotone, SMT
    <3> QED BY <2>1, <3>1, SMT
  <2>8. g <= 90 * p <=> s <= 9000
    BY <2>1, RangeBound
  <2>9. c \in Int /\ c >= 0 /\ (c <= 90 <=> g <= 90 * p)
    <3>1. p >= 1
      BY <2>1, SMT
    <3> QED BY <2>1, <2>7, <3>1, CeilingBound, Zenon
  <2>10. s <= 9000 => q \in {s - 1, s}
    BY <2>1, <2>4, ScaledNear DEF position_scale
  <2> HIDE DEF c, q, g
  <2>11. in_range(x) <=> s <= 9000
    BY <2>1, <2>2, <2>8, <2>9, SMT DEF in_range, min_position, max_position
  <2>12. InRange(Printed(x)) <=> InRange(n)
    BY <2>3, <2>6, SMT DEF InRange, ExactAngle
  <2>13. s <= 9000 => Printed(x) = n
    BY <2>1, <2>6, SMT DEF ExactAngle
  <2>14. s <= 9000 => /\ Scaled(x) \in Int
                      /\ n >= 0 => (Scaled(x) = n - 1 \/ Scaled(x) = n) /\ Scaled(x) >= 0
                      /\ n < 0 => (Scaled(x) = n \/ Scaled(x) = n + 1) /\ Scaled(x) <= 0
    BY <2>1, <2>2, <2>3, <2>10, SMT
  <2>15. in_range(x) <=> InRange(n)
    BY <2>5, <2>11, SMT
  <2>16. InRange(n) => /\ Printed(x) = n
                       /\ Scaled(x) \in Int
                       /\ n >= 0 => Scaled(x) \in {n - 1, n} /\ Scaled(x) >= 0
                       /\ n < 0 => Scaled(x) \in {n, n + 1} /\ Scaled(x) <= 0
    BY <2>3, <2>5, <2>13, <2>14, SMT
  <2> QED BY <2>6, <2>12, <2>15, <2>16, Zenon DEF x
<1> QED BY <1>1, <1>2
-----------------------------------------------------------------------------
(***************************************************************************)
(* motor: read_position and set_position.                                  *)
(***************************************************************************)
\* The last four of seven bytes are the number they were made of.
LEMMA TailRead ==
  ASSUME NEW n \in Int32, NEW a
  PROVE  LET d == <<0, a, 0>> \o Low4(n) IN d # <<>> /\ Signed32(SubSeq(d, 4, 7)) = n
<1> DEFINE d == <<0, a, 0>> \o Low4(n)
<1>1. d # <<>>
  BY DEF Low4
<1>2. d[4] = Low4(n)[1] /\ d[5] = Low4(n)[2] /\ d[6] = Low4(n)[3] /\ d[7] = Low4(n)[4]
  BY DEF Low4
<1> HIDE DEF d
<1>3. Signed32(SubSeq(d, 4, 7)) = Signed32(Low4(n))
  BY <1>2, PartsRead
<1>4. Signed32(SubSeq(d, 4, 7)) = n
  BY <1>3, Signed32Back
<1> QED BY <1>1, <1>4 DEF d

LEMMA AngleIsInt32 == \A n \in Within(MaxAngle) : n \in Int /\ n \in Int32
  BY SMT DEF Within, MaxAngle, Int32

LEMMA ReplyBack == \A n \in Within(MaxAngle) : PositionOf(PositionReply(n)) = Float(n)
  BY TailRead, AngleIsInt32, Zenon DEF PositionOf, PositionReply

LEMMA RangeIs == \A a \in Int : a \in (min_position * 100)..(max_position * 100) <=> InRange(a)
  BY SMT DEF min_position, max_position, InRange

\* What is sent for an angle: its hundredths as scaled, or 0.
LEMMA SentAngle ==
  ASSUME NEW n \in Within(MaxAngle), InRange(n), NEW d \in SetPositionData(Float(n))
  PROVE  /\ d # <<>>
         /\ \/ n >= 0 /\ CommandedAngle(d) \in {n - 1, n} /\ CommandedAngle(d) >= 0
            \/ n < 0 /\ CommandedAngle(d) \in {n, n + 1, 0}
<1> DEFINE x == Float(n)
<1>1. /\ Scaled(x) \in Int
      /\ n >= 0 => Scaled(x) \in {n - 1, n} /\ Scaled(x) >= 0
      /\ n < 0 => Scaled(x) \in {n, n + 1} /\ Scaled(x) <= 0
  BY AngleScaled
<1>2. PICK b \in ScaledBytes(x) : d = <<0, 10, 0>> \o b
  BY Zenon DEF SetPositionData
<1>3. \/ b = Low4(Scaled(x))
      \/ Scaled(x) < 0 /\ b = Low4(0)
  BY <1>2, Zenon DEF ScaledBytes
<1> HIDE DEF x
<1>4. n \in Int /\ -9000 <= n /\ n <= 9000
  BY SMT DEF Within, InRange
<1>5. Scaled(x) \in Int32 /\ 0 \in Int32
  BY <1>1, <1>4, SMT DEF Int32
<1>6. PICK m \in Int32 : b = Low4(m) /\ (m = Scaled(x) \/ (Scaled(x) < 0 /\ m = 0))
  BY <1>3, <1>5, Zenon
<1>7. d # <<>> /\ CommandedAngle(d) = m
  BY <1>2, <1>6, TailRead, Zenon DEF CommandedAngle
<1>8. \/ n >= 0 /\ m \in {n - 1, n} /\ m >= 0
      \/ n < 0 /\ m \in {n, n + 1, 0}
  BY <1>1, <1>4, <1>6, SMT
<1> QED BY <1>7, <1>8, Zenon

LEMMA SetObeyed ==
  ASSUME NEW n \in Within(MaxAngle), set_position(Float(n)), angle \in Within(MaxAngle)
  PROVE  CommandsObeyed' /\ angle' \in Within(MaxAngle) /\ position_' = position_
<1> DEFINE x == Float(n)
           a == Printed(x)
<1>1. /\ a \in Int
      /\ in_range(x) <=> InRange(n)
      /\ InRange(a) <=> InRange(n)
      /\ InRange(n) => a = n
  BY AngleScaled
<1>2. target' = <<x>> /\ position_' = position_
  BY DEF set_position
<1>3. target'[1] = x
  BY <1>2
<1>4. CASE ~InRange(n)
  <2>1. sent' = <<>> /\ angle' = angle
    BY <1>1, <1>4 DEF set_position
  <2>2. a \notin (min_position * 100)..(max_position * 100)
    BY <1>1, <1>4, RangeIs, Zenon
  <2> QED BY <1>2, <1>3, <2>1, <2>2, Zenon DEF CommandsObeyed
<1>5. CASE InRange(n)
  <2>1. sent' \in SetPositionData(x) /\ angle' = CommandedAngle(sent')
    BY <1>1, <1>5 DEF set_position
  <2>2. /\ sent' # <<>>
        /\ \/ n >= 0 /\ CommandedAngle(sent') \in {n - 1, n} /\ CommandedAngle(sent') >= 0
           \/ n < 0 /\ CommandedAngle(sent') \in {n, n + 1, 0}
    BY <1>5, <2>1, SentAngle
  <2>3. n \in Int /\ -9000 <= n /\ n <= 9000
    BY <1>5, SMT DEF Within, InRange
  <2>4. CommandedAngle(sent') \in Int /\ angle' \in Within(MaxAngle)
    BY <2>1, <2>2, <2>3, SMT DEF Within, MaxAngle
  <2>5. n >= 0 /\ CommandedAngle(sent') \in {n - 1, n} /\ CommandedAngle(sent') >= 0
           => CommandedAngle(sent') \in {n - 1, n} \cap Nat
    BY <2>3, <2>4, SMT
  <2>6. a \in (min_position * 100)..(max_position * 100) /\ a = n
    BY <1>1, <1>5, RangeIs, Zenon
  <2>7. CommandsObeyed'
    BY <1>3, <2>2, <2>5, <2>6, Zenon DEF CommandsObeyed
  <2> QED BY <1>2, <2>4, <2>7
<1> QED BY <1>4, <1>5

\* position_ is the float of an angle a motor may have; where the motor stands is one.
FloatsOfAngles ==
    /\ angle \in Within(MaxAngle)
    /\ \E n \in Within(MaxAngle) : position_ = Float(n)

MotorIInv == FloatsOfAngles /\ CommandsObeyed

LEMMA MotorStep ==
  MotorIInv /\ [MotorNext]_motorVars => MotorIInv'
<1> SUFFICES ASSUME MotorIInv, [MotorNext]_motorVars
             PROVE  MotorIInv'
  OBVIOUS
<1>1. PICK m \in Within(MaxAngle) : position_ = Float(m)
  BY Zenon DEF MotorIInv, FloatsOfAngles
<1>2. angle \in Within(MaxAngle)
  BY Zenon DEF MotorIInv, FloatsOfAngles
<1>3. CASE read_position
  <2>1. position_' = Float(angle) /\ angle' = angle /\ target' = <<>>
    BY <1>2, <1>3, ReplyBack DEF read_position
  <2>2. CommandsObeyed'
    BY <2>1, Zenon DEF CommandsObeyed
  <2> QED BY <1>2, <2>1, <2>2, Zenon DEF MotorIInv, FloatsOfAngles
<1>4. ASSUME NEW a \in SetAngles, set_position(Float(a))
      PROVE  MotorIInv'
  <2>1. a \in Within(MaxAngle)
    BY MotorAnglesAssumption
  <2> QED BY <1>1, <1>2, <1>4, <2>1, SetObeyed, Zenon DEF MotorIInv, FloatsOfAngles
<1>5. CASE set_position(position_)
  <2>1. set_position(Float(m))
    BY <1>1, <1>5
  <2> QED BY <1>1, <1>2, <2>1, SetObeyed, Zenon DEF MotorIInv, FloatsOfAngles
<1>6. CASE UNCHANGED motorVars
  BY <1>6, Zenon DEF motorVars, MotorIInv, FloatsOfAngles, CommandsObeyed
<1> QED BY <1>3, <1>4, <1>5, <1>6 DEF MotorNext

LEMMA MotorHolds == MotorSpec => []MotorIInv
<1>1. MotorInit => MotorIInv
  <2> SUFFICES ASSUME MotorInit PROVE MotorIInv
    OBVIOUS
  <2>1. angle \in Within(MaxAngle)
    BY MotorAnglesAssumption DEF MotorInit
  <2>2. 0 \in Within(MaxAngle)
    BY SMT DEF Within, MaxAngle
  <2>3. position_ = Float(0)
    BY Zenon DEF MotorInit, Float
  <2> QED BY <2>1, <2>2, <2>3, Zenon DEF MotorInit, MotorIInv, FloatsOfAngles, CommandsObeyed
<1> QED BY <1>1, MotorStep, PTL DEF MotorSpec

\* Angles asked of a motor are refused beyond 90 degrees and obeyed within them,
\* but for a hundredth that the float loses towards zero, and but for the negative
\* ones that the undefined conversion may turn into 0.
THEOREM MotorObeys == MotorSpec => []CommandsObeyed
  BY MotorHolds, PTL DEF MotorIInv

\* What a motor reports is what get_position gives: to the hundredth up to 131072
\* degrees, and three off at most up to a million.
THEOREM MotorReadBack == MotorSpec => AnglesReadBack
<1>1. MotorIInv /\ [MotorNext]_motorVars =>
        [read_position =>
            LET off == Printed(position_') - angle
            IN  off \in Within(IF angle \in Within(ExactAngle) THEN 0 ELSE 3)]_motorVars
  <2> SUFFICES ASSUME MotorIInv, read_position
               PROVE  LET off == Printed(position_') - angle
                      IN  off \in Within(IF angle \in Within(ExactAngle) THEN 0 ELSE 3)
    BY Zenon
  <2>1. angle \in Within(MaxAngle) /\ angle \in Int
    BY AngleIsInt32, Zenon DEF MotorIInv, FloatsOfAngles
  <2>2. position_' = Float(angle)
    BY <2>1, ReplyBack DEF read_position
  <2> DEFINE r == Printed(Float(angle))
  <2>3. /\ r \in Int /\ r - angle <= 3 /\ angle - r <= 3
        /\ angle \in Within(ExactAngle) => r = angle
    BY <2>1, FloatPrinted
  <2> HIDE DEF r
  <2>4. CASE angle \in Within(ExactAngle)
    <3>1. r - angle \in Within(0)
      BY <2>1, <2>3, <2>4, SMT DEF Within
    <3> QED BY <2>2, <2>4, <3>1, Zenon DEF r
  <2>5. CASE angle \notin Within(ExactAngle)
    <3>1. r - angle \in Within(3)
      BY <2>1, <2>3, SMT DEF Within
    <3> QED BY <2>2, <2>5, <3>1, Zenon DEF r
  <2> QED BY <2>4, <2>5
<1> QED BY <1>1, MotorHolds, PTL DEF MotorSpec, AnglesReadBack
=============================================================================
