---------------------------- MODULE MCImuParser -----------------------------
(***************************************************************************)
(* Instances of ImuParser for TLC.  A read() returns one of a few pieces:  *)
(* whole frames, a frame cut short, one with a byte changed, and noise     *)
(* that looks like the start of a frame.                                   *)
(***************************************************************************)
EXTENDS ImuParser

\* The frame of a type with a payload of eight bytes.
MakeFrame(type, payload) ==
    LET body == <<Header, type>> \o payload
    IN  Append(body, Checksum([i \in 0..Size-2 |-> body[i + 1]]))

angleFrame == MakeFrame(AngleFrame, <<1, 0, 0, 128, 255, 127, 7, 7>>)
gyroFrame == MakeFrame(GyroFrame, <<2, 0, 3, 0, 4, 0, 9, 9>>)
accelFrame == MakeFrame(AccelFrame, <<5, 1, 6, 1, 8, 1, 9, 9>>)

\* An angle frame that, after the noise <<0x55, 0x53>>, completes a false frame
\* with its first nine bytes: the ninth is the checksum of the false frame.
trapFrame ==
    LET values == <<9, 0, 9, 0, 9, 0>>
        false == <<Header, AngleFrame, Header, AngleFrame>> \o values
        sum == Checksum([i \in 0..Size-2 |-> false[i + 1]])
    IN  MakeFrame(AngleFrame, values \o <<sum, 0>>)

MCReads ==
    { angleFrame, gyroFrame, accelFrame, trapFrame,
      <<Header, AngleFrame>>,                     \* noise like a frame's start
      <<Header>>,
      SubSeq(angleFrame, 1, 6),                   \* a frame cut short
      [angleFrame EXCEPT ![4] = 1],               \* one with a byte changed
      angleFrame \o SubSeq(gyroFrame, 1, 3),      \* a read ends within a frame
      SubSeq(gyroFrame, 4, 11) }
=============================================================================
