------------------------------ MODULE ImuScan -------------------------------
(***************************************************************************)
(* What the IMU driver promises, without its buffer: of the bytes received *)
(* so far, the frames are cut out greedily from the left, and the angles   *)
(* are those of the last angle frame.                                      *)
(***************************************************************************)
EXTENDS Integers, Sequences

CONSTANTS
    Byte,
    Size,           \* of a frame, a function from 0..Size-1 to bytes
    IsFrame(_),     \* does such a function make a frame?
    AngleFrame,     \* the type byte of an angle frame
    Angles(_)       \* the angles it holds

VARIABLES
    received,   \* the bytes received since the start
    frames,     \* where in received the frames recognised so far start
    angle       \* the three angles last reported, in 180/32768 degrees

scanVars == <<received, frames, angle>>

\* The Size bytes of s from position p on.
Window(s, p) == [i \in 0..Size-1 |-> s[p + i]]

Init ==
    /\ received = <<>>
    /\ frames = {}
    /\ angle = [k \in 0..2 |-> 0]

\* The last Size bytes of s are a frame that overlaps none recognised before.
LastWindow(s) == Len(s) + 1 - Size

EndsFrame(s) ==
    /\ LastWindow(s) >= 1
    /\ IsFrame(Window(s, LastWindow(s)))
    /\ \A q \in frames : q + Size <= LastWindow(s)

\* A byte arrives.  If it completes a frame, the frame is recognised, and
\* reported if it is an angle frame.
Receive(b) ==
    /\ received' = Append(received, b)
    /\ \/ ~EndsFrame(received') /\ UNCHANGED <<frames, angle>>
       \/ /\ EndsFrame(received')
          /\ frames' = frames \cup {LastWindow(received')}
          /\ LET w == Window(received', LastWindow(received'))
             IN  angle' = IF w[1] = AngleFrame THEN Angles(w) ELSE angle

Next == \E b \in Byte : Receive(b)

Spec == Init /\ [][Next]_scanVars
=============================================================================
