----------------------------- MODULE ImuParser ------------------------------
(***************************************************************************)
(* The IMU driver of IMU_WT901.c: WT901_Get_data reads what the serial     *)
(* line has and hands it byte by byte to ParseData, which keeps a window   *)
(* of the last bytes and slides it until the window is a frame.            *)
(*                                                                         *)
(* received and frames are history: the code does not keep them.  The      *)
(* angles are kept as the shorts they are computed from (180/32768 degree).*)
(* A "Fault" is a wrong version of the definition after it.                *)
(***************************************************************************)
EXTENDS ImuFrame

CONSTANTS
    Reads,      \* what one read() of the serial line may return
    MaxReads    \* bound: calls of WT901_Get_data that get bytes

\* WT901_Get_data asks for 44 bytes; a read() that returns none or fails
\* changes nothing.
ASSUME ImuAssumption ==
    /\ Reads \subseteq Seq(Byte)
    /\ \A s \in Reads : Len(s) \in 1..44
    /\ MaxReads \in Nat

VARIABLES
    chrBuf,     \* the window; bytes from chrCnt on are left over
    chrCnt,     \* how many bytes of the window are in use
    real_data,  \* what WT901_Get_data returns a pointer to
    r_buf,      \* the bytes of the last read() not parsed yet
    reads,      \* calls of WT901_Get_data so far
    received,   \* history: the bytes handed to ParseData
    frames      \* history: where in received the accepted frames start

vars == <<chrBuf, chrCnt, real_data, r_buf, reads, received, frames>>

TypeOK ==
    /\ chrBuf \in [0..Size-1 -> Byte]
    /\ chrCnt \in 0..Size-1
    /\ real_data \in [0..11 -> Short]
    /\ r_buf \in Seq(Byte)
    /\ reads \in 0..MaxReads
    /\ received \in Seq(Byte)
    /\ frames \subseteq 1..Len(received)

Init ==
    /\ chrBuf = [i \in 0..Size-1 |-> 0]
    /\ chrCnt = 0
    /\ real_data = [i \in 0..11 |-> 0]
    /\ r_buf = <<>>
    /\ reads = 0
    /\ received = <<>>
    /\ frames = {}
-----------------------------------------------------------------------------
\* recv_data: the bytes that have arrived since the last call.
GetData ==
    /\ r_buf = <<>>
    /\ reads < MaxReads
    /\ reads' = reads + 1
    /\ r_buf' \in Reads
    /\ UNCHANGED <<chrBuf, chrCnt, real_data, received, frames>>

\* ParseData is called with the next byte; filled is chrBuf with it.
filled == [chrBuf EXCEPT ![chrCnt] = Head(r_buf)]

TakeByte ==
    /\ r_buf # <<>>
    /\ r_buf' = Tail(r_buf)
    /\ received' = Append(received, Head(r_buf))
    /\ UNCHANGED reads

StoreByte ==
    /\ TakeByte
    /\ chrCnt + 1 < Size
    /\ chrBuf' = filled
    /\ chrCnt' = chrCnt + 1
    /\ UNCHANGED <<real_data, frames>>

\* Fault: no chrCnt-- after the window has moved.
SlideWindowUncounted ==
    /\ TakeByte
    /\ chrCnt + 1 >= Size
    /\ ~IsFrame(filled)
    /\ chrBuf' = [i \in 0..Size-1 |-> IF i < Size-1 THEN filled[i + 1] ELSE filled[i]]
    /\ chrCnt' = chrCnt + 1
    /\ UNCHANGED <<real_data, frames>>

\* Fault: a bad window is dropped whole.
DropWindow ==
    /\ TakeByte
    /\ chrCnt + 1 >= Size
    /\ ~IsFrame(filled)
    /\ chrBuf' = filled
    /\ chrCnt' = 0
    /\ UNCHANGED <<real_data, frames>>

\* The window is no frame: it moves on by one byte.  The memcpy overlaps, but
\* copies downwards by one byte, which the library's copies of ten bytes do.
SlideWindow ==
    /\ TakeByte
    /\ chrCnt + 1 >= Size
    /\ ~IsFrame(filled)
    /\ chrBuf' = [i \in 0..Size-1 |-> IF i < Size-1 THEN filled[i + 1] ELSE filled[i]]
    /\ chrCnt' = Size - 1
    /\ UNCHANGED <<real_data, frames>>

\* Fault: a case of the switch runs on into the next one.
ReportFallThrough(f) ==
    IF f[1] \in {AccelFrame, GyroFrame, AngleFrame}
    THEN [i \in 0..11 |-> IF i \in 6..8 THEN SData(f, i - 6) ELSE real_data[i]]
    ELSE real_data

\* The switch: the bodies of all its cases but the angles' are commented out.
Report(f) ==
    IF f[1] = AngleFrame
    THEN [i \in 0..11 |-> IF i \in 6..8 THEN SData(f, i - 6) ELSE real_data[i]]
    ELSE real_data

\* Fault: the window is not emptied after a frame.
AcceptFrameKept ==
    /\ TakeByte
    /\ chrCnt + 1 >= Size
    /\ IsFrame(filled)
    /\ real_data' = Report(filled)
    /\ frames' = frames \cup {Len(received') + 1 - Size}
    /\ chrBuf' = [i \in 0..Size-1 |-> IF i < Size-1 THEN filled[i + 1] ELSE filled[i]]
    /\ chrCnt' = Size - 1

AcceptFrame ==
    /\ TakeByte
    /\ chrCnt + 1 >= Size
    /\ IsFrame(filled)
    /\ real_data' = Report(filled)
    /\ frames' = frames \cup {Len(received') + 1 - Size}
    /\ chrBuf' = filled
    /\ chrCnt' = 0

Next == GetData \/ StoreByte \/ SlideWindow \/ AcceptFrame

Spec == Init /\ [][Next]_vars
-----------------------------------------------------------------------------
\* The abstract scan, over the frames of ImuFrame.
Scan == INSTANCE ImuScan WITH angle <- [k \in 0..2 |-> real_data[6 + k]]

\* ParseData implements the greedy scan: however the bytes are spread over
\* read()s and whatever stood in the window before, it recognises the same
\* frames as a scan of the whole stream and reports the same angles.
ImplementsScan == Scan!Spec

\* A frame that was received whole is lost only to a frame that started before
\* it and overlaps it: garbage in front of it, a truncated frame or a bad
\* checksum never costs the frames that follow.
NoFrameMissed ==
    \A p \in 1..Len(received) + 1 - Size :
        IsFrame(Scan!Window(received, p)) => \E q \in frames : q <= p /\ p < q + Size

\* p is the last frame of that type accepted so far.
LastOfType(type, p) ==
    /\ p \in frames /\ received[p + 1] = type
    /\ \A q \in frames : received[q + 1] = type => q <= p

\* The reported angles are those of the last angle frame accepted, never a
\* mixture of two frames nor the data of a frame of another type.
AnglesOfLastFrame ==
    \A p \in frames :
        LastOfType(AngleFrame, p) =>
            [k \in 0..2 |-> real_data[6 + k]] = Angles(Scan!Window(received, p))
=============================================================================
