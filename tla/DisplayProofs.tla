---------------------------- MODULE DisplayProofs ----------------------------
(***************************************************************************)
(* The display, proved for any number of callbacks, any angles, controls,  *)
(* values of an axis and size of the device's queue: only overlapping      *)
(* callbacks tear a pair of coordinates, at rest the stick is shown where  *)
(* it is, and every variable keeps its type.                               *)
(***************************************************************************)
EXTENDS Display, TLAPS
-----------------------------------------------------------------------------
(***************************************************************************)
(* The callbacks.                                                          *)
(***************************************************************************)
\* While a callback is the last that ran alone, no other is running.
OthersReturned ==
    \A c, d \in Callbacks : alone = c /\ d # c => at[d] = "returned"

\* Its copy of the angles is all that is stored: x is of them before y is
\* stored, and the two are of the same when it has returned.
StoredAlone ==
    \A c \in Callbacks : alone = c =>
        /\ at[c] = "store_y" => arm_x_pos = joints[c]
        /\ at[c] = "returned" => arm_x_pos = arm_y_pos

AloneInv ==
    /\ at \in [Callbacks -> Places]
    /\ OthersReturned
    /\ StoredAlone

\* No callback has run, and Nobody is none of them.
LEMMA AloneInit == DisplayInit => AloneInv
<1> SUFFICES ASSUME DisplayInit PROVE AloneInv
  OBVIOUS
<1>1. at = [c \in Callbacks |-> "returned"] /\ alone = Nobody
  BY DEF DisplayInit
<1>2. \A c \in Callbacks : alone # c
  BY <1>1, DisplayAssumption
<1>3. at \in [Callbacks -> Places]
  BY <1>1 DEF Places
<1> QED BY <1>1, <1>2, <1>3 DEF AloneInv, OthersReturned, StoredAlone

\* A callback that expires while no other runs finds the pair as any callback
\* left it; it is not looked at before it has stored both.
LEMMA ExpireAlone ==
  ASSUME AloneInv, NEW c \in Callbacks, Expire(c)
  PROVE  AloneInv'
<1>1. at' \in [Callbacks -> Places] /\ at'[c] = "print_coordinates"
  BY DEF AloneInv, Expire, Places
<1>2. \A d \in Callbacks \ {c} : at'[d] = at[d]
  BY DEF AloneInv, Expire
<1>3. CASE \A d \in Callbacks : at[d] = "returned"
  <2>1. alone' = c
    BY <1>3 DEF Expire
  <2> QED BY <1>1, <1>2, <1>3, <2>1 DEF AloneInv, OthersReturned, StoredAlone
<1>4. CASE ~(\A d \in Callbacks : at[d] = "returned")
  <2>1. alone' = Nobody
    BY <1>4 DEF Expire
  <2> QED BY <1>1, <2>1, DisplayAssumption DEF AloneInv, OthersReturned, StoredAlone
<1> QED BY <1>3, <1>4

\* Before it stores, a callback changes neither coordinate.
LEMMA BeforeStores ==
  ASSUME AloneInv, NEW c \in Callbacks, NEW next \in Places,
         next \notin {"returned", "store_y"},
         at[c] # "returned",
         at' = [at EXCEPT ![c] = next],
         UNCHANGED <<arm_x_pos, arm_y_pos, alone>>
  PROVE  AloneInv'
<1>1. at' \in [Callbacks -> Places] /\ at'[c] = next
  BY DEF AloneInv
<1>2. \A d \in Callbacks \ {c} : at'[d] = at[d]
  BY DEF AloneInv
<1>3. OthersReturned'
  BY <1>2 DEF AloneInv, OthersReturned
<1>4. \A d \in Callbacks : alone = d => d = c
  BY DEF AloneInv, OthersReturned
<1>5. StoredAlone'
  BY <1>1, <1>4 DEF StoredAlone
<1> QED BY <1>1, <1>3, <1>5 DEF AloneInv

\* A step of a callback: the one that is alone is the one that steps.
LEMMA CallbackAlone ==
  ASSUME AloneInv, NEW c \in Callbacks, Timer_IRQ(c)
  PROVE  AloneInv'
<1>1. CASE Show(c)
  <2>1. at[c] \in {"print_coordinates", "print_angles", "print_stick"}
    BY <1>1 DEF Show, After
  <2>2. After[at[c]] \in {"print_angles", "print_stick", "load_joints"}
    BY <2>1 DEF After
  <2>3. After[at[c]] \in Places
    BY <2>2 DEF Places
  <2>4. at' = [at EXCEPT ![c] = After[at[c]]] /\ UNCHANGED <<arm_x_pos, arm_y_pos, alone>>
    BY <1>1 DEF Show
  <2> QED BY <2>1, <2>2, <2>3, <2>4, BeforeStores
<1>2. CASE LoadJoints(c)
  <2>1. PICK v \in {"elbow_pos", "shoulder_pos", "store_x"} :
           /\ at' = [at EXCEPT ![c] = v]
           /\ at[c] \in {"load_joints", "elbow_pos", "shoulder_pos"}
           /\ UNCHANGED <<arm_x_pos, arm_y_pos, alone>>
    BY <1>2 DEF LoadJoints, LoadFirst, LoadSecond
  <2>2. v \in Places /\ v \notin {"returned", "store_y"} /\ at[c] # "returned"
    BY <2>1 DEF Places
  <2> QED BY <2>1, <2>2, BeforeStores
<1>3. CASE StoreX(c)
  <2>1. at' \in [Callbacks -> Places] /\ at'[c] = "store_y"
    BY <1>3 DEF AloneInv, StoreX, Places
  <2>2. \A d \in Callbacks \ {c} : at'[d] = at[d]
    BY <1>3 DEF AloneInv, StoreX
  <2>3. \A d \in Callbacks : alone = d => d = c
    BY <1>3 DEF AloneInv, OthersReturned, StoreX
  <2> QED BY <1>3, <2>1, <2>2, <2>3 DEF AloneInv, OthersReturned, StoredAlone, StoreX
<1>4. CASE StoreY(c)
  <2>1. at' \in [Callbacks -> Places] /\ at'[c] = "returned"
    BY <1>4 DEF AloneInv, StoreY, Places
  <2>2. \A d \in Callbacks \ {c} : at'[d] = at[d]
    BY <1>4 DEF AloneInv, StoreY
  <2>3. \A d \in Callbacks : alone = d => d = c
    BY <1>4 DEF AloneInv, OthersReturned, StoreY
  <2>4. alone = c => arm_x_pos = joints[c]
    BY <1>4 DEF AloneInv, StoredAlone, StoreY
  <2>5. arm_y_pos' = joints[c] /\ UNCHANGED <<arm_x_pos, alone>>
    BY <1>4 DEF StoreY, AnglesOfY
  <2> QED BY <2>1, <2>2, <2>3, <2>4, <2>5 DEF AloneInv, OthersReturned, StoredAlone
<1> QED BY <1>1, <1>2, <1>3, <1>4 DEF Timer_IRQ

\* The other threads do not touch what the callbacks store.
LEMMA AloneStep == AloneInv /\ [DisplayNext]_displayVars => AloneInv'
<1> SUFFICES ASSUME AloneInv, [DisplayNext]_displayVars PROVE AloneInv'
  OBVIOUS
<1>1. CASE UNCHANGED timerVars
  BY <1>1 DEF timerVars, AloneInv, OthersReturned, StoredAlone
<1>2. CASE Expiration
  BY <1>2, ExpireAlone DEF Expiration
<1>3. CASE \E c \in Callbacks : Timer_IRQ(c)
  BY <1>3, CallbackAlone
<1>4. StickMoves \/ joystick_thread \/ ArmMoves \/ Control_thread => UNCHANGED timerVars
  BY DEF StickMoves, joystick_thread, ArmMoves, Control_thread
<1> QED BY <1>1, <1>2, <1>3, <1>4 DEF DisplayNext, displayVars

\* A callback beside which no other ran leaves x and y of the same angles,
\* though Control_thread may change them at any step of it: the arguments of
\* forward_kinematics are copies, and nobody else stores.
THEOREM OnlyOverlapTears == DisplaySpec => []TornOnlyByOverlap
<1>1. AloneInv => TornOnlyByOverlap
  BY DEF AloneInv, StoredAlone, TornOnlyByOverlap
<1> QED BY AloneInit, AloneStep, <1>1, PTL DEF DisplaySpec
-----------------------------------------------------------------------------
(***************************************************************************)
(* The stick.                                                              *)
(***************************************************************************)
Changes == [kind : {"button", "axis"}, init : BOOLEAN, number : Nat, value : Int]

IsOf(e, c) == e.kind = c.kind /\ e.number = c.number

\* The queue holds a change of c after place i.
ComesAgain(q, i, c) == \E j \in 1..Len(q) : j > i /\ IsOf(q[j], c)

\* The last change of c in the queue is to where c is.
QueueLeadsTo(q, c, value) ==
    \A i \in 1..Len(q) : IsOf(q[i], c) /\ ~ComesAgain(q, i, c) => q[i].value = value

\* What the thread made of its last event is still there, so that it may do
\* it again.
Processed ==
    /\ IsButton(joyEvent) => joy_value = joyEvent.value /\ joy_number = joyEvent.number
    /\ IsAxis(joyEvent) /\ joyEvent.number = 0 => joy_x_value = Opposite(joyEvent.value)
    /\ IsAxis(joyEvent) /\ joyEvent.number = 1 => joy_y_value = Opposite(joyEvent.value)

\* A control that was announced, and of which no change was lost, is shown where
\* it is, or will be when the queue has been read.
WillBeShown ==
    \A c \in announced \ lost :
        /\ QueueLeadsTo(queue, c, device[c])
        /\ ComesAgain(queue, 0, c) \/ ShownRight(c)

JoystickInv ==
    /\ queue \in Seq(Changes)
    /\ device \in [Controls -> Int]
    /\ announced \subseteq Controls
    /\ Announcing => queue = <<>>
    /\ Processed
    /\ WillBeShown

\* Controls differ in their kind or in their number.
LEMMA ControlsDiffer ==
  /\ \A c, d \in Controls : c.kind = d.kind /\ c.number = d.number => c = d
  /\ \A c \in Controls : c.kind \in {"button", "axis"} /\ c.number \in Nat
  /\ \A c \in Controls : c = XAxis <=> c.kind = "axis" /\ c.number = 0
  /\ \A c \in Controls : c = YAxis <=> c.kind = "axis" /\ c.number = 1
<1>1. \A c \in Controls : \E k \in {"button", "axis"}, n \in Nat : c = [kind |-> k, number |-> n]
  <2> DEFINE B == 0..(NumButtons - 1)
             A == 0..(NumAxes - 1)
  <2>1. B \subseteq Nat /\ A \subseteq Nat
    <3>1. NumButtons \in Nat /\ NumAxes \in Nat
      BY JoystickAssumption
    <3> QED BY <3>1
  <2>2. /\ Buttons = {[kind |-> "button", number |-> n] : n \in B}
        /\ Axes = {[kind |-> "axis", number |-> n] : n \in A}
    BY DEF Buttons, Axes
  <2> HIDE DEF A, B
  <2>3. \A c \in Buttons : \E n \in Nat : c = [kind |-> "button", number |-> n]
    BY <2>1, <2>2
  <2>4. \A c \in Axes : \E n \in Nat : c = [kind |-> "axis", number |-> n]
    BY <2>1, <2>2
  <2> QED BY <2>3, <2>4 DEF Controls
<1>2. \A c, d \in Controls : c.kind = d.kind /\ c.number = d.number => c = d
  BY <1>1
<1>3. \A c \in Controls : c.kind \in {"button", "axis"} /\ c.number \in Nat
  BY <1>1
<1>4. \A c \in Controls : c = [kind |-> c.kind, number |-> c.number]
  BY <1>1
<1>5. \A c \in Controls : c = XAxis <=> c.kind = "axis" /\ c.number = 0
  BY <1>4 DEF XAxis
<1>6. \A c \in Controls : c = YAxis <=> c.kind = "axis" /\ c.number = 1
  BY <1>4 DEF YAxis
<1> QED BY <1>2, <1>3, <1>5, <1>6

\* What Append and Tail make of a sequence.
LEMMA Appended ==
  ASSUME NEW S, NEW q \in Seq(S), NEW e \in S, NEW r, r = Append(q, e)
  PROVE  /\ r \in Seq(S)
         /\ Len(r) = Len(q) + 1 /\ Len(q) \in Nat
         /\ r[Len(q) + 1] = e
         /\ \A i \in 1..Len(q) : r[i] = q[i]
  OBVIOUS

LEMMA Removed ==
  ASSUME NEW S, NEW q \in Seq(S), NEW r, q # <<>>, r = Tail(q)
  PROVE  /\ r \in Seq(S)
         /\ Len(q) \in Nat \ {0} /\ Len(r) = Len(q) - 1
         /\ Head(q) = q[1] /\ q[1] \in S
         /\ \A i \in 1..Len(r) : r[i] = q[i + 1]
<1>1. Len(q) \in Nat \ {0} /\ Head(q) = q[1] /\ q[1] \in S
  OBVIOUS
<1>2. r \in Seq(S) /\ Len(r) = Len(q) - 1
  OBVIOUS
<1>3. \A i \in 1..Len(r) : r[i] = q[i + 1]
  BY <1>1, <1>2
<1> QED BY <1>1, <1>2, <1>3

LEMMA JoystickInvInit == JoystickInit => JoystickInv
<1> SUFFICES ASSUME JoystickInit PROVE JoystickInv
  OBVIOUS
<1>1. announced = {} /\ queue = <<>> /\ joyEvent.kind = "none"
  BY DEF JoystickInit, NoEvent
<1>2. device \in [Controls -> Int]
  <2>1. {0, 1} \cup AxisValues \subseteq Int
    BY JoystickAssumption DEF Short
  <2>2. device \in [Controls -> {0, 1} \cup AxisValues]
    BY DEF JoystickInit
  <2> QED BY <2>1, <2>2
<1>3. Processed
  BY <1>1 DEF Processed, IsButton, IsAxis
<1> QED BY <1>1, <1>2, <1>3 DEF JoystickInv, WillBeShown

\* An event shows its own control, and leaves what is shown of the others.
LEMMA ProcessShows ==
  ASSUME ProcessEvent, joyEvent'.kind \in {"button", "axis"}
  PROVE  \A c \in Controls :
            (IF IsOf(joyEvent', c) THEN joyEvent'.value = device'[c]
             ELSE ShownRight(c) /\ device'[c] = device[c])
            => ShownRight(c)'
  BY ControlsDiffer DEF ProcessEvent, ShownRight, IsOf, IsButton, IsAxis, Opposite, XAxis, YAxis

LEMMA ProcessedAfter == ProcessEvent => Processed'
  BY DEF ProcessEvent, Processed, IsButton, IsAxis

\* A change is queued, or lost, or makes the device announce all controls.
LEMMA MoveShown ==
  ASSUME JoystickInv, NEW c \in Controls, Move(c)
  PROVE  JoystickInv'
<1>1. PICK v \in Values(c) \ {device[c]} : Move(c)!(v)
  BY DEF Move
<1>2. v \in Int
  BY JoystickAssumption DEF Values
<1>3. device' = [device EXCEPT ![c] = v] /\ UNCHANGED joyVars
  BY <1>1
<1>4. device' \in [Controls -> Int] /\ device'[c] = v /\ \A d \in Controls \ {c} : device'[d] = device[d]
  BY <1>2, <1>3 DEF JoystickInv
<1>5. Processed'
  BY <1>3 DEF JoystickInv, Processed, IsButton, IsAxis, joyVars
<1>6. \A d \in Controls \ {c} : ShownRight(d) => ShownRight(d)'
  BY <1>3, <1>4 DEF ShownRight, joyVars
<1>7. CASE Announcing
  <2>1. UNCHANGED <<announced, queue>> /\ lost' = (IF c \in announced THEN lost \cup {c} ELSE lost)
    BY <1>1, <1>7
  <2>2. announced' \ lost' \subseteq (announced \ lost) \ {c}
    BY <2>1
  <2>3. WillBeShown'
    BY <1>4, <1>6, <2>1, <2>2 DEF JoystickInv, WillBeShown
  <2> QED BY <1>4, <1>5, <2>1, <2>3 DEF JoystickInv, Announcing
<1>8. CASE ~Announcing /\ Len(queue) + 1 < QueueSize
  <2> DEFINE e == Event(c, v, FALSE)
  <2>1. queue' = Append(queue, e) /\ lost' = lost \ {c} /\ announced' = announced
    BY <1>1, <1>8
  <2>2. e \in Changes
    BY <1>2, ControlsDiffer DEF Event, Changes
  <2>3. /\ queue' \in Seq(Changes)
        /\ Len(queue') = Len(queue) + 1 /\ Len(queue) \in Nat
        /\ queue'[Len(queue) + 1] = e
        /\ \A i \in 1..Len(queue) : queue'[i] = queue[i]
    <3>1. queue \in Seq(Changes)
      BY DEF JoystickInv
    <3>2. queue' = Append(queue, e)
      BY <2>1
    <3> HIDE DEF e
    <3> QED BY <2>2, <3>1, <3>2, Appended
  <2>4. \A d \in Controls : IsOf(e, d) <=> d = c
    BY ControlsDiffer DEF IsOf, Event
  <2>5. e.value = v
    BY DEF Event
  <2> HIDE DEF e
  <2>6. QueueLeadsTo(queue, c, device[c])' /\ ComesAgain(queue, 0, c)'
    <3>1. ComesAgain(queue, 0, c)'
      BY <2>3, <2>4 DEF ComesAgain
    <3>2. \A i \in 1..Len(queue) : ComesAgain(queue, i, c)'
      BY <2>3, <2>4 DEF ComesAgain
    <3> QED BY <1>4, <2>3, <2>5, <3>1, <3>2 DEF QueueLeadsTo
  <2>7. ASSUME NEW d \in Controls \ {c}
        PROVE  /\ QueueLeadsTo(queue, d, device[d]) => QueueLeadsTo(queue, d, device[d])'
               /\ ComesAgain(queue, 0, d) => ComesAgain(queue, 0, d)'
    <3>1. \A i \in 0..Len(queue) : ComesAgain(queue, i, d) => ComesAgain(queue, i, d)'
      BY <2>3 DEF ComesAgain
    <3>2. ASSUME NEW i \in 1..Len(queue), IsOf(queue'[i], d), ~ComesAgain(queue, i, d)',
                 QueueLeadsTo(queue, d, device[d])
          PROVE  queue'[i].value = device[d]
      BY <2>3, <3>1, <3>2 DEF QueueLeadsTo
    <3>3. ~IsOf(queue'[Len(queue) + 1], d)
      BY <2>3, <2>4
    <3> QED BY <1>4, <2>3, <3>1, <3>2, <3>3 DEF QueueLeadsTo
  <2>8. WillBeShown'
    BY <1>6, <2>1, <2>6, <2>7 DEF JoystickInv, WillBeShown
  <2> QED BY <1>4, <1>5, <1>8, <2>1, <2>3, <2>8 DEF JoystickInv, Announcing
<1>9. CASE ~Announcing /\ ~(Len(queue) + 1 < QueueSize)
  <2>1. queue' = <<>> /\ announced' = {}
    BY <1>1, <1>9
  <2> QED BY <1>4, <1>5, <2>1 DEF JoystickInv, WillBeShown
<1> QED BY <1>7, <1>8, <1>9

\* While the device announces, its queue is empty.
LEMMA AnnouncementShown ==
  ASSUME JoystickInv, SampleAnnouncement
  PROVE  JoystickInv'
<1>1. PICK c \in Controls : SampleAnnouncement!(c)
  BY DEF SampleAnnouncement
<1>2. c \notin announced /\ queue = <<>>
  BY <1>1 DEF JoystickInv, NextToAnnounce, Announcing
<1>3. UNCHANGED <<device, queue, lost>> /\ announced' = announced \cup {c} /\ ProcessEvent
  BY <1>1
<1>4. joyEvent'.kind = c.kind /\ joyEvent'.number = c.number /\ joyEvent'.value = device[c]
  BY <1>1 DEF Event
<1>5. \A d \in Controls : IsOf(joyEvent', d) <=> d = c
  BY <1>4, ControlsDiffer DEF IsOf
<1>6. ASSUME NEW d \in announced' \ lost' PROVE ShownRight(d)'
  <2>1. d \in Controls /\ (d = c \/ d \in announced \ lost)
    BY <1>3 DEF JoystickInv
  <2>2. d # c => ShownRight(d)
    BY <1>2, <2>1 DEF JoystickInv, WillBeShown, ComesAgain
  <2> QED BY <1>3, <1>4, <1>5, <2>1, <2>2, ProcessShows, ControlsDiffer
<1>7. WillBeShown'
  BY <1>2, <1>3, <1>6 DEF WillBeShown, QueueLeadsTo
<1> QED BY <1>2, <1>3, <1>7, ProcessedAfter DEF JoystickInv

\* The oldest change is shown; it is where its control is, or comes again.
LEMMA ChangeShown ==
  ASSUME JoystickInv, SampleChange
  PROVE  JoystickInv'
<1>1. /\ queue # <<>> /\ joyEvent' = Head(queue) /\ queue' = Tail(queue) /\ ProcessEvent
      /\ UNCHANGED <<device, announced, lost>> /\ ~Announcing
  BY DEF SampleChange
<1>2. /\ queue' \in Seq(Changes)
      /\ Len(queue) \in Nat \ {0} /\ Len(queue') = Len(queue) - 1
      /\ joyEvent' = queue[1] /\ joyEvent'.kind \in {"button", "axis"}
      /\ \A i \in 1..Len(queue') : queue'[i] = queue[i + 1]
  <2>1. queue \in Seq(Changes)
    BY DEF JoystickInv
  <2>2. /\ queue' \in Seq(Changes)
        /\ Len(queue) \in Nat \ {0} /\ Len(queue') = Len(queue) - 1
        /\ Head(queue) = queue[1] /\ queue[1] \in Changes
        /\ \A i \in 1..Len(queue') : queue'[i] = queue[i + 1]
    BY <1>1, <2>1, Removed
  <2>3. joyEvent' = queue[1] /\ queue[1].kind \in {"button", "axis"}
    BY <1>1, <2>2 DEF Changes
  <2> QED BY <2>2, <2>3
<1>3. ASSUME NEW c, NEW i \in Nat
      PROVE  ComesAgain(queue', i, c) <=> ComesAgain(queue, i + 1, c)
  <2>1. ASSUME NEW j \in 1..Len(queue'), j > i, IsOf(queue'[j], c)
        PROVE  ComesAgain(queue, i + 1, c)
    <3>1. j + 1 \in 1..Len(queue) /\ queue[j + 1] = queue'[j] /\ j + 1 > i + 1
      BY <1>2, <2>1
    <3> QED BY <2>1, <3>1 DEF ComesAgain
  <2>2. ASSUME NEW j \in 1..Len(queue), j > i + 1, IsOf(queue[j], c)
        PROVE  ComesAgain(queue', i, c)
    <3>1. j - 1 \in 1..Len(queue') /\ queue'[j - 1] = queue[j] /\ j - 1 > i
      <4>1. j - 1 \in 1..Len(queue') /\ j - 1 > i
        BY <1>2, <2>2
      <4>2. (j - 1) + 1 = j
        OBVIOUS
      <4> QED BY <1>2, <4>1, <4>2
    <3> QED BY <2>2, <3>1 DEF ComesAgain
  <2> QED BY <2>1, <2>2 DEF ComesAgain
<1>4. ASSUME NEW c \in announced \ lost
      PROVE  /\ QueueLeadsTo(queue, c, device[c])'
             /\ ComesAgain(queue, 0, c)' \/ ShownRight(c)'
  <2>1. c \in Controls /\ QueueLeadsTo(queue, c, device[c]) /\ (ComesAgain(queue, 0, c) \/ ShownRight(c))
    BY DEF JoystickInv, WillBeShown
  <2>2. QueueLeadsTo(queue, c, device[c])'
    BY <1>1, <1>2, <1>3, <2>1 DEF QueueLeadsTo
  <2>3. CASE ~ComesAgain(queue, 1, c)
    <3>1. IsOf(joyEvent', c) => joyEvent'.value = device'[c]
      BY <1>1, <1>2, <2>1, <2>3 DEF QueueLeadsTo
    <3>2. ~IsOf(joyEvent', c) => ~ComesAgain(queue, 0, c)
      BY <1>2, <2>3 DEF ComesAgain
    <3>3. device'[c] = device[c] /\ ProcessEvent /\ joyEvent'.kind \in {"button", "axis"}
      BY <1>1, <1>2
    <3>4. IF IsOf(joyEvent', c) THEN joyEvent'.value = device'[c]
          ELSE ShownRight(c) /\ device'[c] = device[c]
      BY <2>1, <3>1, <3>2, <3>3
    <3>5. ShownRight(c)'
      BY <2>1, <3>3, <3>4, ProcessShows
    <3> QED BY <2>2, <3>5
  <2>4. CASE ComesAgain(queue, 1, c)
    <3>1. ComesAgain(queue', 0, c) <=> ComesAgain(queue, 0 + 1, c)
      BY <1>3
    <3>2. ComesAgain(queue', 0, c) <=> ComesAgain(queue, 0, c)'
      BY DEF ComesAgain, IsOf
    <3> QED BY <2>2, <2>4, <3>1, <3>2
  <2> QED BY <2>2, <2>3, <2>4
<1>5. WillBeShown'
  BY <1>1, <1>4 DEF WillBeShown
<1> QED BY <1>1, <1>2, <1>5, ProcessedAfter DEF JoystickInv, Announcing

\* Without an event the thread does what it has done already.
LEMMA NothingShown ==
  ASSUME JoystickInv, SampleNothing
  PROVE  JoystickInv'
<1>1. UNCHANGED deviceVars /\ joyEvent' = joyEvent /\ ProcessEvent
  BY DEF SampleNothing
<1>2. UNCHANGED <<joy_x_value, joy_y_value, joy_value, joy_number>>
  BY <1>1 DEF JoystickInv, Processed, ProcessEvent
<1>3. \A c \in Controls : ShownRight(c) => ShownRight(c)'
  BY <1>1, <1>2 DEF ShownRight, deviceVars
<1>4. WillBeShown'
  BY <1>1, <1>3 DEF JoystickInv, WillBeShown, deviceVars
<1> QED BY <1>1, <1>4, ProcessedAfter DEF JoystickInv, deviceVars, Announcing

LEMMA JoystickInvStep == JoystickInv /\ [DisplayNext]_displayVars => JoystickInv'
<1> SUFFICES ASSUME JoystickInv, [DisplayNext]_displayVars PROVE JoystickInv'
  OBVIOUS
<1>1. CASE UNCHANGED joystickVars
  BY <1>1 DEF joystickVars, deviceVars, joyVars, JoystickInv, Announcing, Processed, WillBeShown,
              ShownRight
<1>2. CASE StickMoves
  BY <1>2, MoveShown DEF StickMoves, Operate
<1>3. CASE joystick_thread
  BY <1>3, AnnouncementShown, ChangeShown, NothingShown DEF joystick_thread, JoystickThread
<1>4. ArmMoves \/ Control_thread \/ Expiration => UNCHANGED joystickVars
  BY DEF ArmMoves, Control_thread, Expiration
<1>5. (\E c \in Callbacks : Timer_IRQ(c)) => UNCHANGED joystickVars
  BY DEF Timer_IRQ
<1> QED BY <1>1, <1>2, <1>3, <1>4, <1>5 DEF DisplayNext, displayVars

\* When the device has nothing more to read, every control is shown where it is
\* but for changes the device lost: whatever bursts, overflows and fruitless
\* samples came before.
THEOREM StickAtRest == DisplaySpec => []AtRestRight
<1>1. JoystickInv => AtRestRight
  BY DEF JoystickInv, WillBeShown, AtRestRight, Announcing, ComesAgain
<1>2. DisplayInit => JoystickInv
  BY JoystickInvInit DEF DisplayInit
<1> QED BY <1>1, <1>2, JoystickInvStep, PTL DEF DisplaySpec
-----------------------------------------------------------------------------
(***************************************************************************)
(* The types.                                                              *)
(***************************************************************************)
LEMMA ValuesShort == \A c : \A v \in Values(c) : v \in Short
<1>1. AxisValues \subseteq Short
  BY JoystickAssumption
<1>2. 0 \in Short /\ 1 \in Short
  BY DEF Short
<1> QED BY <1>1, <1>2 DEF Values

LEMMA EventTyped ==
  ASSUME NEW c \in Controls, NEW v \in Short, NEW init \in BOOLEAN
  PROVE  Event(c, v, init) \in Events
<1>1. c.kind \in {"button", "axis"} /\ c.number \in Nat
  BY ControlsDiffer
<1> DEFINE kind == c.kind
           number == c.number
<1>2. Event(c, v, init) = [kind |-> kind, init |-> init, number |-> number, value |-> v]
  BY DEF Event
<1> HIDE DEF kind, number
<1>3. kind \in {"button", "axis"} /\ number \in Nat
  BY <1>1 DEF kind, number
<1> QED BY <1>2, <1>3 DEF Events

LEMMA EventParts ==
  \A e \in Events \cup {NoEvent} :
     /\ e.value \in Short /\ e.number \in Nat
     /\ -e.value \in Opposites
<1>1. 0 \in Short
  BY DEF Short
<1>2. \A e \in Events \cup {NoEvent} : e.value \in Short /\ e.number \in Nat
  BY <1>1 DEF Events, NoEvent
<1>3. \A v \in Short : -v \in Opposites
  BY DEF Opposites, Short
<1> QED BY <1>2, <1>3

LEMMA StickInit == JoystickInit => JoystickTypeOK
<1> SUFFICES ASSUME JoystickInit PROVE JoystickTypeOK
  OBVIOUS
<1>1. DOMAIN device = Controls /\ \A c \in Controls : device[c] \in Values(c)
  BY DEF JoystickInit
<1>2. announced = {} /\ lost = {} /\ queue = <<>> /\ joyEvent = NoEvent
  BY DEF JoystickInit
<1>3. 0 \in Short /\ 0 \in Opposites
  BY DEF Opposites, Short
<1>4. joy_x_value = 0 /\ joy_y_value = 0 /\ joy_value = 0 /\ joy_number = 0
  BY DEF JoystickInit
<1>5. Len(<<>>) < QueueSize /\ <<>> \in Seq(Events)
  BY JoystickAssumption
<1> QED BY <1>1, <1>2, <1>3, <1>4, <1>5 DEF JoystickTypeOK

\* An event that is processed leaves a short's opposite behind, or what was there.
LEMMA ProcessTyped ==
  ASSUME JoystickTypeOK, ProcessEvent, joyEvent' \in Events \cup {NoEvent}
  PROVE  /\ {joy_x_value, joy_y_value}' \subseteq Opposites
         /\ joy_value' \in Short /\ joy_number' \in Nat
  BY EventParts DEF JoystickTypeOK, ProcessEvent, Opposite

LEMMA MoveTyped ==
  ASSUME JoystickTypeOK, NEW c \in Controls, Move(c)
  PROVE  JoystickTypeOK'
<1>1. PICK v \in Values(c) \ {device[c]} : Move(c)!(v)
  BY DEF Move
<1>2. DOMAIN device' = Controls /\ \A d \in Controls : device'[d] \in Values(d)
  BY <1>1 DEF JoystickTypeOK
<1>3. UNCHANGED joyVars
  BY <1>1
<1>4. announced' \subseteq Controls /\ lost' \subseteq Controls
  BY <1>1 DEF JoystickTypeOK
<1>5. queue' \in Seq(Events) /\ Len(queue') < QueueSize
  <2>1. CASE queue' = queue
    BY <2>1 DEF JoystickTypeOK
  <2>2. CASE queue' = <<>>
    BY <2>2, JoystickAssumption
  <2>3. CASE ~Announcing /\ Len(queue) + 1 < QueueSize
    <3> DEFINE e == Event(c, v, FALSE)
    <3>1. queue' = Append(queue, e)
      BY <1>1, <2>3
    <3>2. e \in Events /\ queue \in Seq(Events)
      BY ValuesShort, EventTyped DEF JoystickTypeOK
    <3> HIDE DEF e
    <3>3. queue' \in Seq(Events) /\ Len(queue') = Len(queue) + 1
      BY <3>1, <3>2, Appended
    <3> QED BY <2>3, <3>3
  <2> QED BY <1>1, <2>1, <2>2, <2>3
<1> QED BY <1>2, <1>3, <1>4, <1>5 DEF JoystickTypeOK, joyVars

LEMMA ThreadTyped ==
  ASSUME JoystickTypeOK, JoystickThread
  PROVE  JoystickTypeOK'
<1>1. ProcessEvent /\ device' = device /\ lost' = lost /\ announced' \subseteq Controls
  BY DEF JoystickThread, SampleAnnouncement, SampleChange, SampleNothing, deviceVars,
         JoystickTypeOK
<1>2. CASE SampleAnnouncement
  <2>1. queue' = queue
    BY <1>2 DEF SampleAnnouncement
  <2>2. PICK c \in Controls : joyEvent' = Event(c, device[c], TRUE)
    BY <1>2 DEF SampleAnnouncement
  <2>3. joyEvent' \in Events
    BY <2>2, ValuesShort, EventTyped DEF JoystickTypeOK
  <2> QED BY <1>1, <2>1, <2>3, ProcessTyped DEF JoystickTypeOK
<1>3. CASE SampleNothing
  <2>1. queue' = queue /\ joyEvent' = joyEvent
    BY <1>3 DEF SampleNothing, deviceVars
  <2> QED BY <1>1, <2>1, ProcessTyped DEF JoystickTypeOK
<1>4. CASE SampleChange
  <2>1. queue \in Seq(Events) /\ queue # <<>> /\ queue' = Tail(queue) /\ joyEvent' = Head(queue)
    BY <1>4 DEF SampleChange, JoystickTypeOK
  <2>2. /\ queue' \in Seq(Events) /\ joyEvent' \in Events
        /\ Len(queue) \in Nat \ {0} /\ Len(queue') = Len(queue) - 1
    BY <2>1, Removed
  <2>3. Len(queue') < QueueSize
    <3>1. QueueSize \in Int /\ Len(queue) < QueueSize
      BY JoystickAssumption DEF JoystickTypeOK
    <3> QED BY <2>2, <3>1
  <2> QED BY <1>1, <2>2, <2>3, ProcessTyped DEF JoystickTypeOK
<1> QED BY <1>2, <1>3, <1>4 DEF JoystickThread

\* The six variables of the line, of the types of their places.
LEMMA GlobalTyped ==
  ASSUME JoystickTypeOK, {elbow_pos, shoulder_pos} \subseteq Readings,
         {arm_x_pos, arm_y_pos} \subseteq Coordinates
  PROVE  \A v \in DOMAIN Global : Global[v] \in Printable(v)
<1>1. \A v \in {"arm_x_pos", "arm_y_pos"} : Global[v] \in Printable(v)
  BY DEF Global, PrintedBy, Printable
<1>2. \A v \in {"elbow_pos", "shoulder_pos"} : Global[v] \in Printable(v)
  BY DEF Global, PrintedBy, Printable
<1>3. \A v \in {"joy_x_current", "joy_y_current"} : Global[v] \in Printable(v)
  BY DEF Global, PrintedBy, Printable, JoystickTypeOK
<1> QED BY <1>1, <1>2, <1>3 DEF Global

LEMMA TypeInit == DisplayInit => TypeOK
<1> SUFFICES ASSUME DisplayInit PROVE TypeOK
  OBVIOUS
<1>1. JoystickTypeOK
  BY StickInit DEF DisplayInit
<1>2. Zero \in Readings /\ Origin \in Coordinates
  BY DEF Readings, Coordinates, Origin
<1>3. at \in [Callbacks -> Places]
  BY DEF DisplayInit, Places
<1>4. /\ {elbow_pos, shoulder_pos} \subseteq Readings
      /\ {arm_x_pos, arm_y_pos} \subseteq Coordinates
  BY <1>2 DEF DisplayInit
<1>5. line = Global
  BY DEF DisplayInit
<1>6. DOMAIN line = DOMAIN Global /\ \A v \in DOMAIN line : line[v] \in Printable(v)
  BY <1>1, <1>4, <1>5, GlobalTyped
<1> QED BY <1>1, <1>2, <1>3, <1>4, <1>6 DEF DisplayInit, TypeOK

\* Control_thread passes on what the motors report.
LEMMA ControlTyped ==
  ASSUME TypeOK, Control_thread
  PROVE  TypeOK'
<1>1. UNCHANGED <<joystickVars, arm, timerVars>>
  BY DEF Control_thread
<1>2. /\ position_' \in [Motors -> Readings]
      /\ ctl' \in {"read_elbow", "read_shoulder", "get_elbow", "get_shoulder"}
      /\ {elbow_pos, shoulder_pos}' \subseteq Readings
  <2>1. ASSUME NEW m \in Motors, NEW next \in {"read_shoulder", "get_elbow"},
               read_position(m, next)
        PROVE  <1>2!:
    <3>1. PositionOf(PositionReply(arm[m])) \in Readings
      BY DEF TypeOK, Readings
    <3> QED BY <2>1, <3>1 DEF TypeOK, read_position, Goto
  <2>2. CASE get_elbow \/ get_shoulder
    BY <2>2 DEF TypeOK, get_elbow, get_shoulder, Goto, Motors
  <2> QED BY <2>1, <2>2 DEF Control_thread, Motors
<1>3. JoystickTypeOK'
  BY <1>1 DEF TypeOK, JoystickTypeOK, joystickVars, deviceVars, joyVars
<1>4. DOMAIN Global' = DOMAIN Global
  BY DEF Global
<1> QED BY <1>1, <1>2, <1>3, <1>4 DEF TypeOK, timerVars

\* A callback copies what Control_thread and joystick_thread keep.
LEMMA CallbackTyped ==
  ASSUME TypeOK, NEW c \in Callbacks, Timer_IRQ(c), at' \in [Callbacks -> Places]
  PROVE  TypeOK'
<1>1. UNCHANGED <<joystickVars, arm, controlVars>>
  BY DEF Timer_IRQ
<1>2. /\ {arm_x_pos, arm_y_pos}' \subseteq Coordinates
      /\ joints' \in [Callbacks -> Coordinates]
      /\ alone' = alone
  <2>1. CASE Show(c)
    BY <2>1 DEF Show, TypeOK
  <2>2. ASSUME NEW v \in {"elbow_pos", "shoulder_pos"}, LoadJoint(c, v)
        PROVE  joints' \in [Callbacks -> Coordinates]
    <3>1. Global[v] \in Readings
      BY DEF Global, TypeOK
    <3>2. joints[c] \in Coordinates
      BY DEF TypeOK
    <3> DEFINE j == [joints[c] EXCEPT ![v] = Global[v]]
    <3>3. j \in Coordinates
      BY <3>1, <3>2 DEF Coordinates
    <3>4. joints' = [joints EXCEPT ![c] = j]
      BY <2>2 DEF LoadJoint
    <3> HIDE DEF j
    <3> QED BY <3>3, <3>4 DEF TypeOK
  <2>3. CASE LoadJoints(c)
    BY <2>2, <2>3 DEF LoadJoints, LoadFirst, LoadSecond, TypeOK
  <2>4. CASE StoreX(c)
    BY <2>4 DEF StoreX, TypeOK
  <2>5. CASE StoreY(c)
    <3>1. Origin \in Coordinates
      BY DEF Origin, Coordinates
    <3> QED BY <2>5, <3>1 DEF StoreY, AnglesOfY, TypeOK
  <2> QED BY <2>1, <2>3, <2>4, <2>5 DEF Timer_IRQ
<1>3. DOMAIN line' = DOMAIN line /\ \A v \in DOMAIN line : line'[v] \in Printable(v)
  <2>1. CASE Show(c)
    <3>1. \A v \in DOMAIN Global : Global[v] \in Printable(v)
      BY GlobalTyped DEF TypeOK
    <3>2. /\ DOMAIN line' = DOMAIN line
          /\ \A v \in DOMAIN line : line'[v] = line[v] \/ line'[v] = Global[v]
      BY <2>1 DEF Show
    <3> QED BY <3>1, <3>2 DEF TypeOK
  <2>2. ~Show(c) => line' = line
    BY DEF Timer_IRQ, LoadJoints, LoadFirst, LoadSecond, StoreX, StoreY
  <2> QED BY <2>1, <2>2 DEF TypeOK
<1>4. JoystickTypeOK'
  BY <1>1 DEF TypeOK, JoystickTypeOK, joystickVars, deviceVars, joyVars
<1>5. DOMAIN Global' = DOMAIN Global
  BY DEF Global
<1>6. DOMAIN line' = DOMAIN Global' /\ \A v \in DOMAIN line' : line'[v] \in Printable(v)
  BY <1>3, <1>5 DEF TypeOK
<1> QED BY <1>1, <1>2, <1>4, <1>6 DEF TypeOK, controlVars

LEMMA TypeStep == TypeOK /\ AloneInv' /\ [DisplayNext]_displayVars => TypeOK'
<1> SUFFICES ASSUME TypeOK, AloneInv', [DisplayNext]_displayVars PROVE TypeOK'
  OBVIOUS
<1>a. at' \in [Callbacks -> Places]
  BY DEF AloneInv
<1>g. DOMAIN Global' = DOMAIN Global
  BY DEF Global
<1>1. CASE StickMoves \/ joystick_thread
  <2>1. JoystickTypeOK'
    BY <1>1, MoveTyped, ThreadTyped DEF StickMoves, Operate, joystick_thread, TypeOK
  <2>2. UNCHANGED <<arm, controlVars, timerVars>>
    BY <1>1 DEF StickMoves, joystick_thread
  <2> QED BY <1>g, <2>1, <2>2 DEF TypeOK, controlVars, timerVars
<1>2. CASE ArmMoves \/ Expiration \/ UNCHANGED displayVars
  <2>1. JoystickTypeOK' /\ UNCHANGED controlVars
    BY <1>2 DEF ArmMoves, Expiration, displayVars, TypeOK, JoystickTypeOK, joystickVars,
                deviceVars, joyVars
  <2>2. arm' \in [Motors -> ArmAngles]
    BY <1>2 DEF ArmMoves, Expiration, displayVars, TypeOK
  <2>3. UNCHANGED <<arm_x_pos, arm_y_pos, joints, line>>
    BY <1>2 DEF ArmMoves, Expiration, Expire, displayVars, timerVars
  <2>4. alone' \in Callbacks \cup {Nobody}
    BY <1>2 DEF ArmMoves, Expiration, Expire, displayVars, timerVars, TypeOK
  <2> QED BY <1>a, <1>g, <2>1, <2>2, <2>3, <2>4 DEF TypeOK, controlVars
<1>3. CASE Control_thread
  BY <1>3, ControlTyped
<1>4. CASE \E c \in Callbacks : Timer_IRQ(c)
  BY <1>4, <1>a, CallbackTyped
<1> QED BY <1>1, <1>2, <1>3, <1>4 DEF DisplayNext

\* Every variable keeps its type: the device's queue never takes its last slot, the
\* stick's values stay within what negating a short gives, -32767 to 32768, and every
\* angle shown, or that a coordinate is computed of, is one that a motor reported or
\* none yet.
THEOREM TypeCorrect == DisplaySpec => []TypeOK
<1>1. DisplayInit => TypeOK /\ AloneInv
  BY TypeInit, AloneInit
<1>2. TypeOK /\ AloneInv /\ [DisplayNext]_displayVars => (TypeOK /\ AloneInv)'
  BY TypeStep, AloneStep
<1> QED BY <1>1, <1>2, PTL DEF DisplaySpec
=============================================================================
