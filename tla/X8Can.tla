-------------------------------- MODULE X8Can --------------------------------
(***************************************************************************)
(* x8-can.cpp: the messages of an RMD-X8 motor.  Every x8_can_send_xxx     *)
(* function fills in a message, packs it into the static buffer            *)
(* can_tx_data and sends that buffer; x8_can_get_xxx functions unpack a    *)
(* reply.  A request without arguments overwrites the command byte only,   *)
(* so that the other bytes are those of the message before.                *)
(*                                                                         *)
(* The motor is outside the repository: it reads a message by the layout   *)
(* of the structures in x8_can.h.                                          *)
(*                                                                         *)
(* A "Fault" is a wrong version of the definition after it.                *)
(***************************************************************************)
EXTENDS Bytes

CONSTANTS
    Degrees,     \* angles asked with 32 bits
    Degrees16,   \* angles asked with 16 bits
    Rpms,        \* speeds asked with 32 bits
    Rpms16,      \* speed limits, 16 bits
    Currents,    \* torque currents, 16 bits
    Offsets,     \* encoder offsets, 16 bits
    Angles,      \* angles the motor may report, 0.01 degree at its rotor
    Speeds,      \* speeds the motor may report, degrees per second
    Gains        \* control gains the motor may report, six bytes

ASSUME X8Assumption ==
    /\ Degrees \subseteq Int32 /\ Rpms \subseteq Int32
    /\ Angles \subseteq Int56
    /\ Degrees16 \subseteq UShort /\ Rpms16 \subseteq UShort /\ Offsets \subseteq UShort
    /\ Currents \subseteq Short /\ Speeds \subseteq Short
    /\ Gains \subseteq [1..6 -> Byte]

Directions == {0, 1}  \* X8_CLOCKWISE, X8_COUNTER_CLOCKWISE

\* The requests without arguments.
Bare == {"off", "stop", "run", "status", "angle", "pid"}

CommandOf(op) ==
    CASE op = "off" -> "0x80"
      [] op = "stop" -> "0x81"
      [] op = "run" -> "0x88"
      [] op = "status" -> "0x9C"
      [] op = "angle" -> "0x92"
      [] op = "pid" -> "0x30"

VARIABLES
    can_tx_data,  \* the command byte and the seven bytes after it
    asked,        \* the last request
    reported,     \* what the motor's reply to it says
    returned      \* what x8_can_get_xxx made of it

x8Vars == <<can_tx_data, asked, reported, returned>>

NoReply == [op |-> "nothing"]

X8Init ==
    /\ can_tx_data = [cmd |-> "0x00", data |-> <<0, 0, 0, 0, 0, 0, 0>>]
    /\ asked = [op |-> "nothing"]
    /\ reported = NoReply
    /\ returned = NoReply

\* m_x8_can_send_msg after the message has been packed.
Send(request, cmd, data) ==
    /\ asked' = request
    /\ can_tx_data' = [cmd |-> cmd, data |-> data]
    /\ reported' = NoReply
    /\ returned' = NoReply
-----------------------------------------------------------------------------
(***************************************************************************)
(* Requests.  Arguments are converted to the units of the motor in         *)
(* variables of their own width.  A product that leaves 32 bits is         *)
(* undefined; it wraps, as the multiplication of the machine does.         *)
(***************************************************************************)

\* rpm to degrees per second in a uint16_t, and in an int32_t.
SpeedLimit(rpm) == Wrap16(rpm * 360) \div 60
DegreesPerSecond(rpm) == Quotient(Times32(rpm, 360), 60)

\* Degrees to hundredths at the rotor, before a gear of 6.
RotorAngle(deg) == Times32(Times32(deg, 100), 6)

\* Fault: no room for the gear.
RotorAngle16Ungeared(deg) == Wrap16(deg * 100)
RotorAngle16(deg) == Wrap16(Wrap16(deg * 100) * 6)

\* The layouts.
PackEncoderOffset(n) == <<0, 0, 0, 0, 0>> \o Low2(n)
PackSpeed(n) == <<0, 0, 0>> \o Low4(n)
PackPosition1(n) == <<0, 0, 0>> \o Low4(n)
PackPosition2(limit, n) == <<0>> \o Low2(limit) \o Low4(n)
PackPosition3(dir, n) == <<dir, 0, 0>> \o Low2(n) \o <<0, 0>>
PackPosition4(dir, limit, n) == <<dir>> \o Low2(limit) \o Low2(n) \o <<0, 0>>

SendEncoderOffset(offset) ==
    Send([op |-> "offset", offset |-> offset], "0x91", PackEncoderOffset(offset))

SendSpeed(rpm) ==
    Send([op |-> "speed", rpm |-> rpm], "0xA2",
         PackSpeed(Times32(DegreesPerSecond(rpm), 100)))

SendPosition1(deg) ==
    Send([op |-> "position1", deg |-> deg], "0xA3", PackPosition1(RotorAngle(deg)))

SendPosition2(rpm, deg) ==
    Send([op |-> "position2", rpm |-> rpm, deg |-> deg], "0xA4",
         PackPosition2(SpeedLimit(rpm), RotorAngle(deg)))

SendPosition3(deg, dir) ==
    Send([op |-> "position3", deg |-> deg, dir |-> dir], "0xA5",
         PackPosition3(dir, RotorAngle16(deg)))

SendPosition4(deg, rpm, dir) ==
    Send([op |-> "position4", deg |-> deg, rpm |-> rpm, dir |-> dir], "0xA6",
         PackPosition4(dir, SpeedLimit(rpm), RotorAngle16(deg)))

\* m_x8_can_send_msg has no case for the torque message: the message filled in
\* is not packed, and the buffer goes out as the request before left it.
SendTorque(current) ==
    Send([op |-> "torque", current |-> current], can_tx_data.cmd, can_tx_data.data)

SendBare(op) == Send([op |-> op], CommandOf(op), can_tx_data.data)

Requests ==
    \/ \E n \in Offsets : SendEncoderOffset(n)
    \/ \E rpm \in Rpms : SendSpeed(rpm)
    \/ \E deg \in Degrees : SendPosition1(deg)
    \/ \E rpm \in Rpms16, deg \in Degrees : SendPosition2(rpm, deg)
    \/ \E deg \in Degrees16, dir \in Directions : SendPosition3(deg, dir)
    \/ \E deg \in Degrees16, rpm \in Rpms16, dir \in Directions :
          SendPosition4(deg, rpm, dir)
    \/ \E op \in Bare : SendBare(op)
    \/ \E n \in Currents : SendTorque(n)
-----------------------------------------------------------------------------
(***************************************************************************)
(* Replies.                                                                *)
(***************************************************************************)

\* x8_can_get_xxx makes result of a reply to its request.
Receive(report, result) ==
    /\ asked.op = report.op
    /\ reported' = report
    /\ returned' = result
    /\ UNCHANGED <<can_tx_data, asked>>

\* Fault: an angle of seven bytes is not extended to eight.
Int64Unextended(d) == d \o <<0>>

\* The bytes of the int64_t: the seventh byte is used twice.
Int64(d) == d \o <<d[7]>>

\* Its value, as far as the model counts: Large is any beyond 56 bits.
Large == 2147483647
Value64(b) ==
    IF b[8] = IF b[7] < 128 THEN 0 ELSE 255 THEN Signed56(SubSeq(b, 1, 7)) ELSE Large

\* Hundredths to degrees, rotor to shaft.
ToDegrees(v) == Quotient(Quotient(v, 100), 6)

\* The seven bytes after the command, and what x8_can_get_xxx looks at.
UnpackMultiTurnAngle(d) == SubSeq(d, 1, 7)
UnpackMotorStatus(d) ==
    [temperature |-> d[1], iq |-> SubSeq(d, 2, 3), speed |-> SubSeq(d, 4, 5),
     encoder |-> SubSeq(d, 6, 7)]
UnpackPid(d) == SubSeq(d, 2, 7)

GetMultiTurnAngle(angle) ==
    LET d == UnpackMultiTurnAngle(Low7(angle))
    IN  Receive([op |-> "angle", angle |-> angle],
                [op |-> "angle", angle |-> ToDegrees(Value64(Int64(d)))])

\* The speed is kept in an int16_t between its two conversions.
ToRpm(speed) == Quotient(ToInt16(speed * 60), 360)

\* Bytes of the status: temperature, torque current, speed, encoder.
StatusData(temperature, iq, speed, encoder) ==
    <<temperature % 256>> \o Low2(iq) \o Low2(speed) \o Low2(encoder)

GetMotorStatus(temperature, iq, speed, encoder) ==
    LET msg == UnpackMotorStatus(StatusData(temperature, iq, speed, encoder))
    IN  Receive([op |-> "status", temperature |-> temperature, iq |-> iq,
                 speed |-> speed, encoder |-> encoder],
                [op |-> "status", temperature |-> Signed8(msg.temperature),
                 iq |-> Signed16(msg.iq), speed |-> ToRpm(Signed16(msg.speed)),
                 encoder |-> Unsigned16(msg.encoder)])

GetPidData(gains) ==
    Receive([op |-> "pid", gains |-> gains], [op |-> "pid", gains |-> UnpackPid(<<0>> \o gains)])

Replies ==
    \/ \E angle \in Angles : GetMultiTurnAngle(angle)
    \/ \E t \in {-20, 20}, iq \in Currents, speed \in Speeds, encoder \in Offsets :
          GetMotorStatus(t, iq, speed, encoder)
    \/ \E gains \in Gains : GetPidData(gains)

X8Next == Requests \/ Replies

X8Spec == X8Init /\ [][X8Next]_x8Vars
-----------------------------------------------------------------------------
(***************************************************************************)
(* Properties.                                                             *)
(***************************************************************************)

TypeOK == can_tx_data.data \in [1..7 -> Byte]

\* What the motor understands, by the structures of x8_can.h.
Understood ==
    LET d == can_tx_data.data
        D(i, j) == SubSeq(d, i, j)
    IN  CASE can_tx_data.cmd = "0x91" -> [op |-> "offset", offset |-> Unsigned16(D(6, 7))]
          [] can_tx_data.cmd = "0xA1" -> [op |-> "torque", current |-> Signed16(D(4, 5))]
          [] can_tx_data.cmd = "0xA2" -> [op |-> "speed", speed |-> Signed32(D(4, 7))]
          [] can_tx_data.cmd = "0xA3" -> [op |-> "position1", angle |-> Signed32(D(4, 7))]
          [] can_tx_data.cmd = "0xA4" ->
                [op |-> "position2", limit |-> Unsigned16(D(2, 3)), angle |-> Signed32(D(4, 7))]
          [] can_tx_data.cmd = "0xA5" ->
                [op |-> "position3", dir |-> d[1], angle |-> Unsigned16(D(4, 5))]
          [] can_tx_data.cmd = "0xA6" ->
                [op |-> "position4", dir |-> d[1], limit |-> Unsigned16(D(2, 3)),
                 angle |-> Unsigned16(D(4, 5))]
          [] OTHER -> [cmd |-> can_tx_data.cmd]

\* What it should understand, by the units x8_can.h gives the arguments.
Wanted ==
    CASE asked.op = "offset" -> asked
      [] asked.op = "torque" -> asked
      [] asked.op = "speed" -> [op |-> "speed", speed |-> asked.rpm * 600]
      [] asked.op = "position1" -> [op |-> "position1", angle |-> asked.deg * 600]
      [] asked.op = "position2" ->
            [op |-> "position2", limit |-> asked.rpm * 6, angle |-> asked.deg * 600]
      [] asked.op = "position3" ->
            [op |-> "position3", dir |-> asked.dir, angle |-> asked.deg * 600]
      [] asked.op = "position4" ->
            [op |-> "position4", dir |-> asked.dir, limit |-> asked.rpm * 6,
             angle |-> asked.deg * 600]
      [] asked.op \in Bare -> [cmd |-> CommandOf(asked.op)]
      [] asked.op = "nothing" -> [cmd |-> "0x00"]

\* The arguments whose conversions fit their variables: angles up to 109
\* degrees and speed limits up to 182 rpm in 16 bits, 3579139 in 32.
Fits ==
    /\ asked.op \in {"position1", "position2"} => asked.deg \in Within(3579139)
    /\ asked.op = "speed" => asked.rpm \in Within(3579139)
    /\ asked.op \in {"position3", "position4"} => asked.deg * 600 < 65536
    /\ asked.op \in {"position2", "position4"} => asked.rpm * 360 < 65536

\* Whatever was sent before, and whatever it left in the buffer, the motor
\* understands what is asked of it, as long as its conversions fit; only the
\* torque request is excepted.
UnderstoodIfFits == asked.op # "torque" /\ Fits => Understood = Wanted

\* The angles in six bytes and a sign, the seventh: using it twice is no harm.
SixBytes == {n \in Int : 0 <= High(n) + 65536 /\ High(n) < 65536}

\* The angle and the status come back in the units of the requests, with their
\* sign, for angles of six bytes and speeds up to 546 degrees per second.
ReturnedRight ==
    /\ reported.op = returned.op
    /\ reported.op = "angle" /\ reported.angle \in SixBytes =>
          returned.angle = Quotient(reported.angle, 600)
    /\ reported.op = "status" =>
          /\ returned.temperature = reported.temperature
          /\ returned.iq = reported.iq
          /\ returned.encoder = reported.encoder
          /\ reported.speed \in Within(546) => returned.speed = Quotient(reported.speed, 6)
    /\ reported.op = "pid" => returned.gains = reported.gains

\* What the two properties above except, though the repository documents it.  The
\* torque request has no case in m_x8_can_send_msg; request 3 multiplies its degrees
\* by 600 in a uint16_t, which holds 109; the speed of the status is multiplied by
\* 60 in an int16_t, and changes its sign from 547 degrees per second on.

\* x8_can.h:315: "Can send torque close loop cmd".
TorqueIsSent == asked.op = "torque" => Understood = Wanted

\* x8_can.h:354 and 367: "1=> 1 degree; 360 => 360 degree (1 circle)".
FullTurnUnderstood ==
    asked.op \in {"position2", "position3"} /\ asked.deg \in {1, 360}
        => Understood.angle = Wanted.angle

\* x8-can.cpp:247: "Cover dps to rpm".
SpeedConverted ==
    reported.op = "status" => returned.speed = Quotient(reported.speed, 6)

\* Requests reach the motor, and reports the program, as x8_can.h and x8-can.cpp
\* say they do.
AsDocumented == FullTurnUnderstood /\ TorqueIsSent /\ SpeedConverted
=============================================================================
