------------------------------ MODULE Joystick ------------------------------
(***************************************************************************)
(* joystick_thread (main.cpp) with Joystick::sample (joystick.cc): every   *)
(* 50 ms one event is read from the non-blocking device, if there is one,  *)
(* and the last event read is turned into the values that Timer_IRQ shows, *)
(* again if there was no new one.                                          *)
(*                                                                         *)
(* The device (/dev/input/js0 of Linux) is outside the repository.  It     *)
(* announces the present value of every control with the JS_EVENT_INIT     *)
(* flag when it has been opened, and after that queues an event for every  *)
(* change.  The thread may be slower than the operator: when the queue is  *)
(* full the device throws it away and announces all controls again.  A     *)
(* change that comes while it announces gets no event of its own; it is    *)
(* lost if the control has already been announced.                         *)
(*                                                                         *)
(* A "Fault" is a wrong version of the definition after it.                *)
(***************************************************************************)
EXTENDS Bytes

CONSTANTS
    NumButtons, NumAxes,  \* controls of the device
    AxisValues,           \* values of an axis
    QueueSize             \* slots of the device's queue, 64 in Linux

ASSUME JoystickAssumption ==
    /\ NumButtons \in Nat
    /\ NumAxes \in Nat \ {0, 1}
    /\ AxisValues \subseteq Short
    /\ 0 \in AxisValues
    /\ QueueSize \in Nat \ {0, 1}

\* The device numbers buttons and axes each from 0.
Buttons == {[kind |-> "button", number |-> n] : n \in 0..(NumButtons - 1)}
Axes == {[kind |-> "axis", number |-> n] : n \in 0..(NumAxes - 1)}
Controls == Buttons \cup Axes
XAxis == [kind |-> "axis", number |-> 0]
YAxis == [kind |-> "axis", number |-> 1]
Values(c) == IF c \in Buttons THEN {0, 1} ELSE AxisValues

\* JoystickEvent: type (split into its kind and JS_EVENT_INIT), number, value.
NoEvent == [kind |-> "none", init |-> FALSE, number |-> 0, value |-> 0]
Event(c, v, init) ==
    [kind |-> c.kind, init |-> init, number |-> c.number, value |-> v]

VARIABLES
    device,           \* where the controls are
    announced,        \* the controls announced since the queue was last emptied
    queue,            \* the changes not read yet
    lost,             \* the controls whose last change got no event
    joyEvent,         \* the last event read
    joy_x_value, joy_y_value,  \* what Timer_IRQ scales and shows
    joy_value, joy_number      \* the last button event

deviceVars == <<device, announced, queue, lost>>
joyVars == <<joyEvent, joy_x_value, joy_y_value, joy_value, joy_number>>
joystickVars == <<deviceVars, joyVars>>

Announcing == announced # Controls

JoystickInit ==
    /\ device \in {d \in [Controls -> {0, 1} \cup AxisValues] :
                      \A c \in Controls : d[c] \in Values(c)}
    /\ announced = {}
    /\ queue = <<>>
    /\ lost = {}
    /\ joyEvent = NoEvent
    /\ joy_x_value = 0 /\ joy_y_value = 0
    /\ joy_value = 0 /\ joy_number = 0
-----------------------------------------------------------------------------
(***************************************************************************)
(* The operator and the device (external).                                 *)
(***************************************************************************)
Move(c) ==
    \E v \in Values(c) \ {device[c]} :
        /\ device' = [device EXCEPT ![c] = v]
        /\ IF Announcing
           THEN /\ lost' = IF c \in announced THEN lost \cup {c} ELSE lost
                /\ UNCHANGED <<announced, queue>>
           ELSE IF Len(queue) + 1 < QueueSize
           THEN /\ queue' = Append(queue, Event(c, v, FALSE))
                /\ lost' = lost \ {c}
                /\ UNCHANGED announced
           ELSE /\ queue' = <<>>
                /\ announced' = {}
                /\ lost' = {}
        /\ UNCHANGED joyVars

Operate == \E c \in Controls : Move(c)

\* The device announces buttons before axes, each in the order of its number.
NextToAnnounce(c) ==
    /\ c \in Controls \ announced
    /\ \A d \in Controls \ announced :
          \/ c.kind = "button" /\ d.kind = "axis"
          \/ c.kind = d.kind /\ c.number <= d.number
-----------------------------------------------------------------------------
(***************************************************************************)
(* What joystick_thread does with joyEvent, which is read in the same      *)
(* iteration: the thread is the only one that touches it.                  *)
(***************************************************************************)

\* Fault: announcements are no button or axis events.
IsAxisExactly(e) == e.kind = "axis" /\ ~e.init

\* isAxis tests one bit of the type, whatever JS_EVENT_INIT is.
IsAxis(e) == e.kind = "axis"
IsButton(e) == e.kind = "button"

\* Fault: the negated value is kept in a short.
OppositeShort(v) == ToInt16(-v)

\* joyEvent.value*-1 is an int: 32768 when the event's short is -32768.
Opposite(v) == -v

ProcessEvent ==
    LET e == joyEvent'
    IN  /\ joy_value' = IF IsButton(e) THEN e.value ELSE joy_value
        /\ joy_number' = IF IsButton(e) THEN e.number ELSE joy_number
        /\ joy_x_value' =
              IF IsAxis(e) /\ e.number = 0 THEN Opposite(e.value) ELSE joy_x_value
        /\ joy_y_value' =
              IF IsAxis(e) /\ e.number = 1 THEN Opposite(e.value) ELSE joy_y_value

\* read() hands out what is still to be announced,
SampleAnnouncement ==
    \E c \in Controls :
        /\ NextToAnnounce(c)
        /\ announced' = announced \cup {c}
        /\ joyEvent' = Event(c, device[c], TRUE)
        /\ ProcessEvent
        /\ UNCHANGED <<device, queue, lost>>

\* or the oldest change,
SampleChange ==
    /\ ~Announcing
    /\ queue # <<>>
    /\ joyEvent' = Head(queue)
    /\ queue' = Tail(queue)
    /\ ProcessEvent
    /\ UNCHANGED <<device, announced, lost>>

\* or fails: the thread does not look at the result of sample.
SampleNothing ==
    /\ ~Announcing
    /\ queue = <<>>
    /\ joyEvent' = joyEvent
    /\ ProcessEvent
    /\ UNCHANGED deviceVars

\* Fault: one event of a burst is read and the rest is dropped.
JoystickThreadFlushing ==
    \/ SampleAnnouncement
    \/ /\ ~Announcing
       /\ queue # <<>>
       /\ joyEvent' = Head(queue)
       /\ queue' = <<>>
       /\ ProcessEvent
       /\ UNCHANGED <<device, announced, lost>>
    \/ SampleNothing

JoystickThread == SampleAnnouncement \/ SampleChange \/ SampleNothing
-----------------------------------------------------------------------------
(***************************************************************************)
(* Properties.  What the operator is shown in the end is in Display.       *)
(***************************************************************************)
Events == [kind : {"button", "axis"}, init : BOOLEAN, number : Nat, value : Short]

\* What negating a short gives, which only an int can hold: up to 32768.
Opposites == {n \in Int : -n \in Short}

\* Controls are where they can be, the device's queue never takes its last slot,
\* and what is kept of an axis is the opposite of a short.
JoystickTypeOK ==
    /\ DOMAIN device = Controls /\ \A c \in Controls : device[c] \in Values(c)
    /\ announced \subseteq Controls /\ lost \subseteq Controls
    /\ queue \in Seq(Events) /\ Len(queue) < QueueSize
    /\ joyEvent \in Events \cup {NoEvent}
    /\ {joy_x_value, joy_y_value} \subseteq Opposites
    /\ joy_value \in Short /\ joy_number \in Nat

ShownRight(c) ==
    /\ c = XAxis => joy_x_value = -device[c]
    /\ c = YAxis => joy_y_value = -device[c]
    /\ c.kind = "button" /\ joy_number = c.number => joy_value = device[c]

\* When the device has nothing more to read, the thread shows every control
\* where it is, but for a change lost while the device announced: no event is
\* skipped, taken twice or out of order, though the result of sample is ignored
\* and the queue may have overflowed in between.
AtRestRight ==
    ~Announcing /\ queue = <<>> =>
        \A c \in Controls \ lost : ShownRight(c)
=============================================================================
