--------------------------- MODULE ArmElbowProofs ---------------------------
(***************************************************************************)
(* The locked read of the elbow: its angle is genuine, and on a punctual   *)
(* bus the read succeeds, for all values of the bounds and all keys.       *)
(***************************************************************************)
EXTENDS ArmBalanceProofs

ElbowAngle == [of |-> Elbow, cmd |-> "0x92"]
ElbowReply == [motor |-> Elbow, cmd |-> "0x92", body |-> ElbowAngle]

\* The bytes of a frame are those its motor sent with its command byte.
Genuine(f) == f.body = [of |-> f.motor, cmd |-> f.cmd]

\* Control_thread is in its elbow read, at one of these places of the call.
ControlIn(places) == ctl = "unlock" /\ at[Control] \in places

\* What the locked read finds in the shared buffers is its own answer.
ReadsElbowAngle ==
    /\ ControlIn({"check"}) /\ nbytes_recv > 0 => Genuine(frame_recv)
    /\ ControlIn({"head", "body"}) =>
          Genuine(frame_recv) /\ frame_recv.motor = Elbow /\ frame_recv.cmd = "0x92"
    /\ ControlIn({"clear", "return_buf"}) => receive_buf.body = ElbowAngle
    /\ ControlIn({"test", "copy"}) /\ can_reply => receive_buf.body = ElbowAngle

ControlCallInv ==
    at[Control] # "idle" =>
        \/ ctl = "unlock" /\ call[Control].motor = Elbow
        \/ ctl = "get_elbow" /\ call[Control].motor = Shoulder

SocketGenuine == \A i \in 1..Len(rxq) : Genuine(rxq[i])

GenuineInv ==
    /\ SocketGenuine
    /\ at[Keyboard] \notin {"test", "copy"}
    /\ ~ShuttingDown =>
          /\ position[Elbow] \in {ZeroBody, ElbowAngle}
          /\ ControlCallInv
          /\ ReadsElbowAngle

ElbowIInv == IInv /\ MutexInv /\ GenuineInv
-----------------------------------------------------------------------------
LEMMA FrameUpdates ==
    ASSUME NEW f \in Frame
    PROVE  /\ \A m, c : /\ [f EXCEPT !.motor = m, !.cmd = c].motor = m
                        /\ [f EXCEPT !.motor = m, !.cmd = c].cmd = c
                        /\ [f EXCEPT !.motor = m, !.cmd = c].body = f.body
           /\ \A b : /\ [f EXCEPT !.body = b].body = b
                     /\ [f EXCEPT !.body = b].motor = f.motor
                     /\ [f EXCEPT !.body = b].cmd = f.cmd
BY DEF Frame

\* close_all does not return.
LEMMA ShuttingDownStays == TypeInv /\ [Next]_vars /\ ShuttingDown => ShuttingDown'
<1> SUFFICES ASSUME TypeInv, [Next]_vars, ShuttingDown PROVE ShuttingDown'
  OBVIOUS
<1> USE DEF ShuttingDown, Quitting
<1>1. CASE key' = key
  BY <1>1
<1>2. CASE QuitElbow \/ QuitShoulder \/ CancelIMU \/ CancelControl \/ QuitProbe \/ CloseBus
  BY <1>2 DEF QuitElbow, QuitShoulder, CancelIMU, CancelControl, QuitProbe, CloseBus
<1>3. CASE \/ KeyLock \/ KeyRelock \/ SpuriousWakeup \/ KeyWait \/ KeyElbow \/ KeyShoulder
           \/ KeyUnlock \/ Operator \/ KeyPressed
  BY <1>3 DEF KeyLock, KeyRelock, SpuriousWakeup, KeyWait, KeyElbow, KeyShoulder,
              KeyUnlock, Operator, PressMove, PressZero, PressEscape, PressOther, KeyPressed
<1>4. ControlLock \/ ControlStep => key' = key
  BY DEF ControlLock, ControlStep, ControlReadElbow, ControlUnlock, ControlSignal,
         ControlReadShoulder, ControlGetElbow, ControlGetShoulder, ControlCancelled,
         ControlCall, armVars
<1>5. Exit \/ KeyCall \/ (\E m \in Motors : Bus(m)) \/ UNCHANGED vars => key' = key
  BY DEF Exit, KeyCall, Bus, armVars, vars
<1> QED
  BY <1>1, <1>2, <1>3, <1>4, <1>5 DEF Next, Running, Ended, KeyStep

\* During the elbow's read the keyboard thread is in no call and can begin none
\* but those of close_all.
LEMMA ElbowReadAlone ==
    ASSUME IInv, MutexInv, ~ShuttingDown, ctl = "unlock"
    PROVE  at[Keyboard] = "idle" /\ key \notin {"elbow", "shoulder", "unlock"}
BY CanBusAssumption DEF IInv, CallInv, MutexInv, ShuttingDown, Quitting, CanBusAssumption

\* What the motors put into the socket is genuine, and stays so.
LEMMA SocketStep ==
    ASSUME TypeInv, SocketGenuine, [Next]_vars
    PROVE  SocketGenuine'
<1>1. CASE UNCHANGED rxq
  BY <1>1 DEF SocketGenuine
<1>r. rxq \in Seq(Frame)
  BY DEF TypeInv, TypeOK, CanTypeOK
<1>2. CASE \E t \in Threads : ReadSocket(t)
  <2>1. rxq' = rxq \/ (rxq # <<>> /\ rxq' = Tail(rxq))
    BY <1>2 DEF ReadSocket
  <2>2. rxq # <<>> => \A i \in 1..Len(Tail(rxq)) : i + 1 \in 1..Len(rxq) /\ Tail(rxq)[i] = rxq[i + 1]
    BY <1>r
  <2> QED
    BY <2>1, <2>2 DEF SocketGenuine
<1>3. CASE \E m \in Motors : Bus(m)
  <2>1. PICK m \in Motors : Bus(m)
    BY <1>3
  <2>2. CASE Answer(m)
    <3> DEFINE c == Head(wire[m]).cmd
               e == [motor |-> m, cmd |-> c, body |-> [of |-> m, cmd |-> c]]
    <3>1. rxq' = Append(rxq, e) /\ Genuine(e)
      BY <2>2 DEF Answer, Genuine
    <3> HIDE DEF e
    <3>2. \A i \in 1..Len(rxq') : (i \in 1..Len(rxq) /\ rxq'[i] = rxq[i]) \/ rxq'[i] = e
      BY <1>r, <3>1
    <3> QED
      BY <3>1, <3>2 DEF SocketGenuine
  <2>3. CASE Lose(m)
    BY <1>1, <2>3 DEF Lose
  <2> QED
    BY <2>1, <2>2, <2>3 DEF Bus
<1>4. ASSUME NEW t \in Threads, MemoryStep(t) \/ SendWrite(t)
      PROVE  UNCHANGED rxq
  <2>1. MemoryStep(t) => UNCHANGED rxq
    BY MemoryStepsMoveNoFrame DEF busVars
  <2> QED
    BY <1>4, <2>1 DEF SendWrite
<1>5. CASE ControlCall \/ KeyCall
  BY <1>1, <1>2, <1>4, <1>5 DEF ControlCall, KeyCall, SystemCall, Threads
<1>6. CASE \/ ControlReadElbow \/ ControlReadShoulder \/ KeyElbow \/ KeyShoulder
           \/ QuitElbow \/ QuitShoulder \/ QuitProbe
  BY <1>1, <1>6 DEF ControlReadElbow, ControlReadShoulder, KeyElbow, KeyShoulder,
                    QuitElbow, QuitShoulder, QuitProbe, Begin, busVars
<1>7. CASE \/ ControlLock \/ ControlUnlock \/ ControlSignal \/ ControlGetElbow
           \/ ControlGetShoulder \/ ControlCancelled
           \/ KeyLock \/ KeyWait \/ SpuriousWakeup \/ KeyRelock \/ KeyUnlock
           \/ Operator \/ KeyPressed \/ CancelIMU \/ CancelControl \/ CloseBus \/ Exit
           \/ UNCHANGED vars
  BY <1>1, <1>7, OutsideCalls DEF busVars
<1> QED
  BY <1>3, <1>5, <1>6, <1>7 DEF Next, Running, Ended, ControlStep, KeyStep
-----------------------------------------------------------------------------
(***************************************************************************)
(* The angle is genuine.                                                   *)
(***************************************************************************)
LEMMA ControlCallGenuine ==
    ASSUME ElbowIInv, ~ShuttingDown, ControlCall
    PROVE  /\ position'[Elbow] \in {ZeroBody, ElbowAngle}
           /\ ControlCallInv'
           /\ ReadsElbowAngle'
<1>0. /\ TypeInv /\ CanTypeOK /\ ControlCallInv /\ ReadsElbowAngle /\ SocketGenuine
      /\ position[Elbow] \in {ZeroBody, ElbowAngle}
  BY DEF ElbowIInv, IInv, GenuineInv, TypeInv, TypeOK
<1>t. Control \in Threads /\ Elbow \in Motors /\ Shoulder \in Motors /\ Elbow # Shoulder
  BY CanBusAssumption DEF Threads, Motors, CanBusAssumption
<1>1. UNCHANGED armVars /\ (MemoryStep(Control) \/ SystemCall(Control))
  BY DEF ControlCall
<1>2. at[Control] # "idle" /\ call' = call
  BY <1>0, <1>t, <1>1, CallStepIsOwn
<1>3. ctl' = ctl /\ (ctl = "unlock" => call[Control].motor = Elbow)
      /\ call[Control].motor \in Motors
      /\ (ctl = "unlock" => call[Control].op = "read_position")
  BY <1>0, <1>1, <1>2, <1>t DEF armVars, ControlCallInv, Motors, ElbowIInv, IInv, CallInv
<1>4. ControlCallInv'
  BY <1>0, <1>1, <1>2 DEF ControlCallInv, armVars
<1>5. position'[Elbow] \in {ZeroBody, ElbowAngle}
  <2>1. CASE AcceptReply(Control)
    <3>1. at[Control] = "copy" /\ can_reply
          /\ position' = [position EXCEPT ![call[Control].motor] = receive_buf.body]
      BY <2>1 DEF AcceptReply
    <3>2. CASE ctl = "unlock"
      <4>1. receive_buf.body = ElbowAngle
        BY <1>0, <3>1, <3>2 DEF ReadsElbowAngle, ControlIn
      <4> QED
        BY <1>0, <1>3, <1>t, <3>1, <3>2, <4>1 DEF CanTypeOK
    <3>3. CASE ctl # "unlock"
      <4>1. call[Control].motor = Shoulder
        BY <1>0, <1>2, <3>3 DEF ControlCallInv
      <4> QED
        BY <1>0, <1>t, <3>1, <4>1 DEF CanTypeOK
    <3> QED
      BY <3>2, <3>3
  <2>2. ~AcceptReply(Control) => UNCHANGED position
    BY <1>1 DEF MemoryStep, SystemCall, SendCommand, SendArgs, CheckFrame, Reject,
                FillHead, FillBody, ClearFrame, StoreReply, TestReply, CopyFromNull,
                IgnoreReply, SendWrite, ReadSocket
  <2> QED
    BY <1>0, <2>1, <2>2
<1>6. ReadsElbowAngle'
  <2> SUFFICES ASSUME ctl = "unlock" PROVE ReadsElbowAngle'
    BY <1>3 DEF ReadsElbowAngle, ControlIn
  <2> USE <1>0, <1>3, <1>t DEF ReadsElbowAngle, ControlIn, CanTypeOK, Goto
  <2>1. CASE SendCommand(Control) \/ SendArgs(Control) \/ SendWrite(Control)
    BY <2>1 DEF SendCommand, SendArgs, SendWrite
  <2>2. CASE ReadSocket(Control)
    <3>1. rxq # <<>> => Genuine(Head(rxq))
      BY DEF SocketGenuine
    <3> QED
      BY <2>2, <3>1 DEF ReadSocket
  <2>3. CASE CheckFrame(Control)
    BY <2>3 DEF CheckFrame, Matches, ExpectedReply, CommandOf, buffers
  <2>4. CASE Reject(Control)
    BY <2>4 DEF Reject
  <2>5. CASE FillHead(Control)
    BY <2>5 DEF FillHead
  <2>6. CASE FillBody(Control)
    <3>1. frame_recv.body = ElbowAngle
      BY <2>6 DEF FillBody, Genuine, ElbowAngle
    <3>2. receive_buf'.body = frame_recv.body
      BY <2>6, FrameUpdates DEF FillBody
    <3> QED
      BY <2>6, <3>1, <3>2 DEF FillBody
  <2>7. CASE ClearFrame(Control)
    BY <2>7 DEF ClearFrame
  <2>8. CASE StoreReply(Control)
    BY <2>8 DEF StoreReply
  <2>9. CASE TestReply(Control)
    BY <2>9 DEF TestReply, buffers
  <2>10. CASE CopyFromNull(Control)
    BY <2>10 DEF CopyFromNull, buffers
  <2>11. CASE AcceptReply(Control) \/ IgnoreReply(Control)
    BY <2>11 DEF AcceptReply, IgnoreReply
  <2> QED
    BY <1>1, <2>1, <2>2, <2>3, <2>4, <2>5, <2>6, <2>7, <2>8, <2>9, <2>10, <2>11
       DEF MemoryStep, SystemCall
<1> QED
  BY <1>4, <1>5, <1>6

\* The keyboard thread never gets to the part of a method that uses the answer.
LEMMA KeyCallUsesNoReply ==
    ASSUME IInv, at[Keyboard] \notin {"test", "copy"}, KeyCall
    PROVE  at'[Keyboard] \notin {"test", "copy"} /\ UNCHANGED <<position, fresh>>
<1>0. CanTypeOK /\ Keyboard \in Threads
  BY DEF IInv, TypeInv, TypeOK, Threads
<1>1. call[Keyboard].op # "read_position"
  <2>1. at[Keyboard] # "idle"
    BY <1>0, CallStepIsOwn DEF KeyCall, IInv
  <2> QED
    BY <2>1 DEF IInv, CallInv
<1> USE <1>0 DEF CanTypeOK, Goto
<1>2. CASE \/ SendCommand(Keyboard) \/ SendArgs(Keyboard) \/ CheckFrame(Keyboard)
           \/ Reject(Keyboard) \/ FillHead(Keyboard)
  BY <1>2 DEF SendCommand, SendArgs, CheckFrame, Reject, FillHead
<1>3. CASE FillBody(Keyboard) \/ ClearFrame(Keyboard) \/ StoreReply(Keyboard)
  BY <1>1, <1>3 DEF FillBody, ClearFrame, StoreReply
<1>4. CASE SendWrite(Keyboard) \/ ReadSocket(Keyboard)
  BY <1>4 DEF SendWrite, ReadSocket
<1> QED
  BY <1>2, <1>3, <1>4
     DEF KeyCall, MemoryStep, SystemCall, TestReply, CopyFromNull, AcceptReply, IgnoreReply

LEMMA GenuineStep == ElbowIInv /\ [Next]_vars => GenuineInv'
<1> SUFFICES ASSUME ElbowIInv, [Next]_vars PROVE GenuineInv'
  OBVIOUS
<1>0. IInv /\ MutexInv /\ GenuineInv /\ TypeInv /\ CanTypeOK /\ CallInv
  BY DEF ElbowIInv, IInv, TypeInv, TypeOK
<1>t. /\ Control \in Threads /\ Keyboard \in Threads /\ Control # Keyboard
      /\ Elbow \in Motors /\ Shoulder \in Motors
  BY CanBusAssumption DEF Threads, Motors, CanBusAssumption
<1>o. /\ {"read_position", "shutdown_cmd", "probe"} \subseteq Ops /\ "zeros" \in Args
      /\ job \in Ops /\ JobArgs \in Args
  BY <1>0 DEF Ops, Args, TypeInv, TypeOK, JobArgs
<1>s. SocketGenuine'
  BY <1>0, SocketStep DEF GenuineInv
<1>d. ~ShuttingDown' => ~ShuttingDown
  BY <1>0, ShuttingDownStays
\* A step outside the buffers leaves an elbow read as it is.
<1>u. ASSUME UNCHANGED <<at, call, buffers, position, ctl>>, ~ShuttingDown
      PROVE  GenuineInv'
  BY <1>0, <1>s, <1>u DEF GenuineInv, ControlCallInv, ReadsElbowAngle, ControlIn, buffers
\* A call of the keyboard thread runs while there is no elbow read.
<1>k. ASSUME UNCHANGED <<ctl, position, fresh>>, at'[Control] = at[Control],
             call'[Control] = call[Control], ctl # "unlock" \/ ShuttingDown',
             at'[Keyboard] \notin {"test", "copy"}
      PROVE  GenuineInv'
  BY <1>0, <1>s, <1>d, <1>k DEF GenuineInv, ControlCallInv, ReadsElbowAngle, ControlIn
<1>1. CASE ControlReadElbow \/ ControlReadShoulder
  <2>1. /\ at'[Control] = "cmd" /\ at'[Keyboard] = at[Keyboard] /\ UNCHANGED <<position, key>>
        /\ \/ ctl' = "unlock" /\ call'[Control].motor = Elbow
           \/ ctl' = "get_elbow" /\ call'[Control].motor = Shoulder
    BY <1>0, <1>t, <1>o, <1>1
       DEF ControlReadElbow, ControlReadShoulder, Begin, Goto, CanTypeOK
  <2> QED
    BY <1>0, <1>s, <1>d, <2>1 DEF GenuineInv, ControlCallInv, ReadsElbowAngle, ControlIn
<1>2. CASE KeyElbow \/ KeyShoulder \/ QuitElbow \/ QuitShoulder \/ QuitProbe
  <2>1. /\ UNCHANGED <<ctl, position>> /\ at' = [at EXCEPT ![Keyboard] = "cmd"]
        /\ call'[Control] = call[Control]
    BY <1>0, <1>t, <1>2
       DEF KeyElbow, KeyShoulder, QuitElbow, QuitShoulder, QuitProbe, Begin, Goto, CanTypeOK
  <2>2. at'[Control] = at[Control] /\ at'[Keyboard] = "cmd"
    BY <1>0, <1>t, <2>1 DEF CanTypeOK
  <2>3. ctl # "unlock" \/ ShuttingDown'
    BY <1>0, <1>t, <1>2
       DEF KeyElbow, KeyShoulder, QuitElbow, QuitShoulder, QuitProbe, MutexInv,
           ShuttingDown, Quitting
  <2> QED
    BY <1>0, <1>s, <1>d, <2>1, <2>2, <2>3
       DEF GenuineInv, ControlCallInv, ReadsElbowAngle, ControlIn
<1>3. CASE ControlCall
  <2>1. at'[Keyboard] = at[Keyboard]
    BY <1>0, <1>t, <1>3, CallStepIsOwn DEF ControlCall
  <2> QED
    BY <1>0, <1>3, <1>s, <1>d, <2>1, ControlCallGenuine DEF GenuineInv
<1>4. CASE KeyCall
  <2>1. at'[Keyboard] \notin {"test", "copy"} /\ UNCHANGED <<position, fresh>>
    BY <1>0, <1>4, KeyCallUsesNoReply DEF GenuineInv
  <2>2. at'[Control] = at[Control] /\ call' = call /\ at[Keyboard] # "idle"
    BY <1>0, <1>t, <1>4, CallStepIsOwn DEF KeyCall
  <2>3. UNCHANGED armVars
    BY <1>4 DEF KeyCall
  <2>4. ctl # "unlock" \/ ShuttingDown
    BY <1>0, <2>2, ElbowReadAlone
  <2>5. ctl' = ctl /\ (ShuttingDown => ShuttingDown')
    BY <2>3 DEF armVars, ShuttingDown
  <2> QED
    BY <1>k, <2>1, <2>2, <2>4, <2>5
<1>5. CASE \E m \in Motors : Bus(m)
  <2>1. UNCHANGED <<at, call, buffers, armVars, position>>
    BY <1>5, BusOutsideCalls DEF Bus, Answer, Lose
  <2>2. UNCHANGED <<ctl, key>>
    BY <2>1 DEF armVars
  <2> QED
    BY <1>0, <1>s, <1>d, <2>1, <2>2
       DEF GenuineInv, ControlCallInv, ReadsElbowAngle, ControlIn, buffers
<1>6. CASE \/ ControlLock \/ ControlUnlock \/ ControlSignal \/ ControlGetElbow
           \/ ControlGetShoulder \/ ControlCancelled
           \/ KeyLock \/ KeyWait \/ SpuriousWakeup \/ KeyRelock \/ KeyUnlock
           \/ Operator \/ KeyPressed \/ CancelIMU \/ CancelControl \/ CloseBus \/ Exit
           \/ UNCHANGED vars
  <2>1. UNCHANGED <<at, call, buffers>>
    BY <1>6, OutsideCalls
  <2>2. UNCHANGED position
    <3>1. CASE UNCHANGED canVars
      BY <3>1 DEF canVars
    <3>2. CASE CancelIMU \/ Exit
      BY <3>2 DEF CancelIMU, Exit
    <3> QED
      BY <1>6, <3>1, <3>2
         DEF ControlLock, ControlUnlock, ControlSignal, ControlGetElbow,
             ControlGetShoulder, ControlCancelled, KeyLock, KeyWait, SpuriousWakeup,
             KeyRelock, KeyUnlock, Operator, PressMove, PressZero, PressEscape, PressOther, KeyPressed,
             CancelControl, CloseBus, vars
  <2>3. CASE ctl' = ctl
    BY <1>0, <1>s, <1>d, <2>1, <2>2, <2>3
       DEF GenuineInv, ControlCallInv, ReadsElbowAngle, ControlIn, buffers
  <2>4. CASE at[Control] = "idle" /\ ctl' # "unlock"
    BY <1>0, <1>s, <1>d, <2>1, <2>2, <2>4
       DEF GenuineInv, ControlCallInv, ReadsElbowAngle, ControlIn
  <2>5. CASE ControlCancelled
    <3>1. ShuttingDown /\ key' = key
      BY <1>0, <2>5 DEF ControlCancelled, IInv, CloseInv, ShuttingDown, Quitting
    <3>2. ShuttingDown'
      BY <3>1 DEF ShuttingDown
    <3> QED
      BY <1>0, <1>s, <2>1, <3>2 DEF GenuineInv
  <2>6. CASE ControlLock \/ ControlSignal \/ ControlGetShoulder
    <3>1. ctl \in {"lock", "signal", "get_shoulder"} /\ ctl' # "unlock" /\ key \in Quitting <=> key' \in Quitting
      BY <2>6 DEF ControlLock, ControlSignal, ControlGetShoulder, Quitting
    <3>2. ~ShuttingDown => at[Control] = "idle"
      BY <1>0, <2>6 DEF GenuineInv, ControlCallInv, ControlLock, ControlSignal, ControlGetShoulder
    <3> QED
      BY <1>0, <1>s, <1>d, <2>1, <2>2, <3>1, <3>2
         DEF GenuineInv, ControlCallInv, ReadsElbowAngle, ControlIn
  <2>7. CASE ControlUnlock \/ ControlGetElbow
    BY <2>4, <2>7 DEF ControlUnlock, ControlGetElbow, Idle
  <2> QED
    BY <1>6, <2>3, <2>5, <2>6, <2>7
       DEF KeyLock, KeyWait, SpuriousWakeup, KeyRelock, KeyUnlock, Operator, PressMove,
           PressZero, PressEscape, PressOther, KeyPressed, CancelIMU, CancelControl, CloseBus, Exit, armVars, vars
<1> QED
  BY <1>1, <1>2, <1>3, <1>4, <1>5, <1>6 DEF Next, Running, Ended, ControlStep, KeyStep

LEMMA ElbowIInvHolds == Spec => []ElbowIInv
<1>1. Init => ElbowIInv
  <2>1. Init => MutexInv /\ GenuineInv
    BY DEF Init, CanInit, MutexInv, GenuineInv, SocketGenuine, ControlCallInv,
           ReadsElbowAngle, ControlIn, Threads, Motors
  <2> QED
    BY <2>1, InitIInv DEF ElbowIInv
<1>2. ElbowIInv /\ [Next]_vars => ElbowIInv'
  BY IInvStep, MutexStep, GenuineStep DEF ElbowIInv
<1> QED
  BY <1>1, <1>2, PTL DEF Spec

\* Until close_all starts, position_ of the elbow's Motor is decoded from an answer
\* of the elbow to a get-position request: what the unlocked shoulder read, late
\* answers and lost frames leave behind is refused by the tests on the frame.
THEOREM ElbowGenuine == Spec => []ElbowAngleGenuine
<1>1. ElbowIInv => ElbowAngleGenuine
  BY DEF ElbowIInv, GenuineInv, ElbowAngleGenuine, ElbowAngle
<1> QED
  BY <1>1, ElbowIInvHolds, PTL
-----------------------------------------------------------------------------
(***************************************************************************)
(* The read succeeds, as long as no answer was late or lost.               *)
(***************************************************************************)
Punctual == ~ShuttingDown /\ late = 0 /\ lost = 0

\* A thread has a request on the wire only while it waits to read the answer,
\* and then only one.
OneRequestEach ==
    /\ \A m \in Motors : \A i \in 1..Len(wire[m]) : at[wire[m][i].by] = "read"
    /\ \A m, n \in Motors : \A i \in 1..Len(wire[m]), j \in 1..Len(wire[n]) :
          wire[m][i].by = wire[n][j].by => m = n /\ i = j

\* The elbow's read sends its own request; while it waits, what is on the wire is
\* that request and what is in the socket is its answer.
ElbowRequestSent ==
    /\ ControlIn({"cmd", "args", "write"}) => frame_send.motor = Elbow
    /\ ControlIn({"args", "write"}) => frame_send.cmd = "0x92"
    /\ ControlIn({"read"}) =>
          /\ \A m \in Motors : \A i \in 1..Len(wire[m]) : m = Elbow /\ wire[m][i].cmd = "0x92"
          /\ \A i \in 1..Len(rxq) : rxq[i] = ElbowReply

\* It takes that answer and no other, up to the end.
ElbowReplyTaken ==
    /\ ControlIn({"check"}) => nbytes_recv = 16 /\ frame_recv = ElbowReply
    /\ ~ControlIn({"reject", "return_null"})
    /\ ControlIn({"head", "body"}) => frame_recv.cmd = "0x92"
    /\ ControlIn({"body", "clear", "return_buf", "test", "copy"}) =>
          receive_buf.motor = Elbow /\ receive_buf.cmd = "0x92"
    /\ ControlIn({"test", "copy"}) => can_reply
    /\ ControlIn({"idle"}) => fresh[Elbow]

PunctualInv ==
    Punctual => missed = 0 /\ OneRequestEach /\ ElbowRequestSent /\ ElbowReplyTaken

PunctualIInv == ElbowIInv /\ RepliesBalance /\ PunctualInv

\* Late answers and losses are counted for good.
LEMMA PunctualSoFar == TypeInv /\ [Next]_vars /\ Punctual' => Punctual
<1> SUFFICES ASSUME TypeInv, [Next]_vars, Punctual' PROVE late = 0 /\ lost = 0
  BY ShuttingDownStays DEF Punctual
<1>n. late \in Nat /\ lost \in Nat /\ late' = 0 /\ lost' = 0
  BY CanBusAssumption DEF TypeInv, TypeOK, CanTypeOK, CanBusAssumption, Punctual
<1>1. CASE UNCHANGED <<late, lost>>
  BY <1>1, <1>n
<1>2. CASE ControlCall \/ KeyCall
  <2>1. PICK t \in Threads : MemoryStep(t) \/ SystemCall(t)
    BY <1>2 DEF ControlCall, KeyCall, Threads
  <2>2. MemoryStep(t) => UNCHANGED <<late, lost>>
    BY MemoryStepsMoveNoFrame DEF busVars
  <2>3. ReadSocket(t) => late' \in {late, late + 1} /\ lost' = lost
    BY DEF ReadSocket
  <2> QED
    BY <1>1, <1>n, <2>1, <2>2, <2>3 DEF SystemCall, SendWrite
<1>3. CASE \E m \in Motors : Bus(m)
  BY <1>3, <1>n DEF Bus, Answer, Lose
<1>4. CASE \/ ControlReadElbow \/ ControlReadShoulder \/ KeyElbow \/ KeyShoulder
           \/ QuitElbow \/ QuitShoulder \/ QuitProbe
  BY <1>1, <1>4 DEF ControlReadElbow, ControlReadShoulder, KeyElbow, KeyShoulder,
                    QuitElbow, QuitShoulder, QuitProbe, Begin, busVars
<1>5. CASE \/ ControlLock \/ ControlUnlock \/ ControlSignal \/ ControlGetElbow
           \/ ControlGetShoulder \/ ControlCancelled
           \/ KeyLock \/ KeyWait \/ SpuriousWakeup \/ KeyRelock \/ KeyUnlock
           \/ Operator \/ KeyPressed \/ CancelIMU \/ CancelControl \/ CloseBus \/ Exit
           \/ UNCHANGED vars
  BY <1>1, <1>5, OutsideCalls DEF busVars
<1> QED
  BY <1>2, <1>3, <1>4, <1>5 DEF Next, Running, Ended, ControlStep, KeyStep

\* The balance on a punctual bus: what is in flight is what is still to be read.
LEMMA PunctualBalance ==
    ASSUME PunctualIInv, Punctual
    PROVE  /\ OnWire(Elbow) + OnWire(Shoulder) + Len(rxq) = Owed
           /\ OnWire(Elbow) \in Nat /\ OnWire(Shoulder) \in Nat /\ Len(rxq) \in Nat
<1>1. missed = 0 /\ lost = 0
  BY DEF PunctualIInv, PunctualInv, Punctual
<1>2. Unclaimed = 0
  BY DEF Punctual, ShuttingDown, Quitting, Unclaimed
<1>3. Counts
  BY CountsAreNumbers DEF PunctualIInv, ElbowIInv, IInv
<1> QED
  BY <1>1, <1>2, <1>3 DEF PunctualIInv, RepliesBalance, InFlight, Counts

\* A thread whose request has been answered finds an answer in the socket: the
\* other's request may still be on the wire, but then its answer is not taken.
LEMMA AnsweredFindsOne ==
    ASSUME PunctualIInv, Punctual, NEW t \in Threads, at[t] = "read", ~Outstanding(t)
    PROVE  rxq # <<>>
<1>0. /\ wire \in [Motors -> Seq(Request)] /\ rxq \in Seq(Frame) /\ OneRequestEach
      /\ Motors = {Elbow, Shoulder} /\ Elbow # Shoulder
      /\ Threads = {Control, Keyboard} /\ Control # Keyboard
  BY CanBusAssumption
     DEF PunctualIInv, PunctualInv, ElbowIInv, IInv, TypeInv, TypeOK, CanTypeOK, Motors,
         Threads, CanBusAssumption
<1>1. PICK u \in Threads : u # t /\ Threads = {t, u}
  BY <1>0
<1>2. \A m \in Motors : \A i \in 1..Len(wire[m]) : wire[m][i].by = u /\ at[u] = "read"
  <2>1. ASSUME NEW m \in Motors, NEW i \in 1..Len(wire[m])
        PROVE  wire[m][i].by = u /\ at[u] = "read"
    <3>1. wire[m] \in Seq(Request)
      BY <1>0
    <3>2. wire[m][i] \in Request /\ i \in DOMAIN wire[m]
      BY <3>1
    <3>3. wire[m][i].by \in Threads /\ wire[m][i].by # t
      BY <3>2 DEF Request, Outstanding
    <3> QED
      BY <1>0, <1>1, <3>3 DEF OneRequestEach
  <2> QED
    BY <2>1
<1>3. \A m, n \in Motors : \A i \in 1..Len(wire[m]), j \in 1..Len(wire[n]) : m = n /\ i = j
  BY <1>0, <1>2 DEF OneRequestEach
<1>4. /\ OnWire(Elbow) + OnWire(Shoulder) + Len(rxq) = Owed
      /\ OnWire(Elbow) \in Nat /\ OnWire(Shoulder) \in Nat /\ Len(rxq) \in Nat
  BY PunctualBalance
<1>5. OnWire(Elbow) <= 1 /\ OnWire(Shoulder) <= 1 /\ ~(OnWire(Elbow) = 1 /\ OnWire(Shoulder) = 1)
  <2>1. \A m \in Motors : Len(wire[m]) \in Nat /\ Len(wire[m]) <= 1
    <3> SUFFICES ASSUME NEW m \in Motors, Len(wire[m]) \in Nat, Len(wire[m]) > 1 PROVE FALSE
      BY <1>0
    <3>1. 1 \in 1..Len(wire[m]) /\ 2 \in 1..Len(wire[m])
      OBVIOUS
    <3> QED
      BY <1>3, <3>1
  <2>2. ~(Len(wire[Elbow]) = 1 /\ Len(wire[Shoulder]) = 1)
    BY <1>0, <1>3
  <2> QED
    BY <1>0, <2>1, <2>2 DEF OnWire
<1>6. OnWire(Elbow) + OnWire(Shoulder) = 1 => at[u] = "read"
  BY <1>0, <1>2, <1>4, <1>5 DEF OnWire
<1>7. Owed = IF at[u] = "read" THEN 2 ELSE 1
  BY <1>0, <1>1 DEF Owed
<1>8. Len(rxq) > 0
  BY <1>4, <1>5, <1>6, <1>7
<1> QED
  BY <1>0, <1>8

\* Steps that leave the wire alone; a thread that stops waiting has no request left.
LEMMA RequestsKept ==
    ASSUME OneRequestEach, UNCHANGED wire, TypeInv,
           \A t \in Threads : at[t] = "read" => at'[t] = "read" \/ ~Outstanding(t)
    PROVE  OneRequestEach'
<1>1. ASSUME NEW m \in Motors, NEW i \in 1..Len(wire[m])
      PROVE  at'[wire[m][i].by] = "read"
  <2>1. wire[m] \in Seq(Request)
    BY DEF TypeInv, TypeOK, CanTypeOK
  <2>2. i \in DOMAIN wire[m] /\ wire[m][i] \in Request
    BY <2>1
  <2>3. wire[m][i].by \in Threads
    BY <2>2 DEF Request
  <2>4. Outstanding(wire[m][i].by)
    BY <2>2 DEF Outstanding
  <2> QED
    BY <2>3, <2>4 DEF OneRequestEach
<1> QED
  BY <1>1 DEF OneRequestEach

\* A thread that writes has no request on the wire yet.
LEMMA RequestWritten ==
    ASSUME OneRequestEach, TypeInv, NEW t \in Threads, SendWrite(t), call[t].op # "probe"
    PROVE  OneRequestEach'
<1> DEFINE d == frame_send.motor
           r == [by |-> t, cmd |-> frame_send.cmd, args |-> frame_send.args]
<1>1. wire \in [Motors -> Seq(Request)] /\ at \in [Threads -> Places] /\ d \in Motors
  BY DEF TypeInv, TypeOK, CanTypeOK, FrameAddressed, SendWrite
<1>2. at[t] = "write" /\ at' = [at EXCEPT ![t] = "read"] /\ wire' = [wire EXCEPT ![d] = Append(@, r)]
  BY DEF SendWrite, Goto
<1>3. r.by = t
  OBVIOUS
<1> HIDE DEF d, r
<1>4. /\ wire'[d] = Append(wire[d], r) /\ wire[d] \in Seq(Request)
      /\ \A m \in Motors \ {d} : wire'[m] = wire[m]
  BY <1>1, <1>2
<1>5. /\ Len(wire'[d]) = Len(wire[d]) + 1 /\ Len(wire[d]) \in Nat
      /\ wire'[d][Len(wire[d]) + 1] = r
      /\ \A i \in 1..Len(wire[d]) : wire'[d][i] = wire[d][i]
  BY <1>4
<1>6. at'[t] = "read" /\ \A u : u # t => at'[u] = at[u]
  BY <1>1, <1>2
\* Every request is an old one, of another thread, or the new one.
<1>7. ASSUME NEW m \in Motors, NEW i \in 1..Len(wire'[m])
      PROVE  \/ i \in 1..Len(wire[m]) /\ wire'[m][i] = wire[m][i] /\ wire'[m][i].by # t
             \/ m = d /\ i = Len(wire[d]) + 1 /\ wire'[m][i].by = t
  <2>1. CASE m = d /\ i = Len(wire[d]) + 1
    BY <1>3, <1>5, <2>1
  <2>2. CASE ~(m = d /\ i = Len(wire[d]) + 1)
    <3>1. i \in 1..Len(wire[m]) /\ wire'[m][i] = wire[m][i]
      BY <1>4, <1>5, <2>2
    <3>2. at[wire[m][i].by] = "read"
      BY <3>1 DEF OneRequestEach
    <3> QED
      BY <1>2, <3>1, <3>2
  <2> QED
    BY <2>1, <2>2
<1>8. \A m \in Motors : \A i \in 1..Len(wire'[m]) : at'[wire'[m][i].by] = "read"
  BY <1>6, <1>7 DEF OneRequestEach
<1>9. ASSUME NEW m \in Motors, NEW n \in Motors, NEW i \in 1..Len(wire'[m]),
             NEW j \in 1..Len(wire'[n]), wire'[m][i].by = wire'[n][j].by
      PROVE  m = n /\ i = j
  <2>1. CASE wire'[m][i].by = t
    BY <1>7, <1>9, <2>1
  <2>2. CASE wire'[m][i].by # t
    <3>1. /\ i \in 1..Len(wire[m]) /\ wire'[m][i] = wire[m][i]
          /\ j \in 1..Len(wire[n]) /\ wire'[n][j] = wire[n][j]
      BY <1>7, <1>9, <2>2
    <3> QED
      BY <1>9, <3>1 DEF OneRequestEach
  <2> QED
    BY <2>1, <2>2
<1> QED
  BY <1>8, <1>9 DEF OneRequestEach

\* An answer or a loss takes the oldest request off the wire.
LEMMA RequestTaken ==
    ASSUME OneRequestEach, TypeInv, NEW d \in Motors, Bus(d)
    PROVE  /\ OneRequestEach'
           /\ \A m \in Motors : \A i \in 1..Len(wire'[m]) :
                 \E j \in 1..Len(wire[m]) : wire'[m][i] = wire[m][j]
<1>1. /\ wire \in [Motors -> Seq(Request)] /\ wire[d] # <<>> /\ UNCHANGED at
      /\ wire' = [wire EXCEPT ![d] = Tail(@)]
  BY DEF Bus, Answer, Lose, TypeInv, TypeOK, CanTypeOK
<1>2. /\ wire'[d] = Tail(wire[d]) /\ wire[d] \in Seq(Request)
      /\ \A m \in Motors \ {d} : wire'[m] = wire[m]
  BY <1>1
<1>3. \A i \in 1..Len(wire'[d]) : i \in Int /\ i + 1 \in 1..Len(wire[d]) /\ wire'[d][i] = wire[d][i + 1]
  BY <1>1, <1>2
<1>4. ASSUME NEW m \in Motors
      PROVE  \E k \in {0, 1} : \A i \in 1..Len(wire'[m]) :
                i \in Int /\ i + k \in 1..Len(wire[m]) /\ wire'[m][i] = wire[m][i + k]
  <2>1. CASE m = d
    <3> WITNESS 1 \in {0, 1}
    <3> QED
      BY <1>3, <2>1
  <2>2. CASE m # d
    <3>1. \A i \in 1..Len(wire'[m]) : i \in Int /\ i + 0 = i
      OBVIOUS
    <3> WITNESS 0 \in {0, 1}
    <3> QED
      BY <1>2, <2>2, <3>1
  <2> QED
    BY <2>1, <2>2
<1>5. \A m \in Motors : \A i \in 1..Len(wire'[m]) : at'[wire'[m][i].by] = "read"
  BY <1>1, <1>4 DEF OneRequestEach
<1>6. ASSUME NEW m \in Motors, NEW n \in Motors, NEW i \in 1..Len(wire'[m]),
             NEW j \in 1..Len(wire'[n]), wire'[m][i].by = wire'[n][j].by
      PROVE  m = n /\ i = j
  <2>1. PICK k \in {0, 1} : \A e \in 1..Len(wire'[m]) :
           e \in Int /\ e + k \in 1..Len(wire[m]) /\ wire'[m][e] = wire[m][e + k]
    BY <1>4
  <2>2. PICK l \in {0, 1} : \A e \in 1..Len(wire'[n]) :
           e \in Int /\ e + l \in 1..Len(wire[n]) /\ wire'[n][e] = wire[n][e + l]
    BY <1>4
  <2>3. m = n
    <3>1. /\ wire[m][i + k].by = wire[n][j + l].by
          /\ i + k \in 1..Len(wire[m]) /\ j + l \in 1..Len(wire[n])
      BY <1>6, <2>1, <2>2
    <3> QED
      BY <3>1 DEF OneRequestEach
  <2>5. i + k = j + k
    <3>1. wire[m][i + k].by = wire[m][j + k].by /\ i + k \in 1..Len(wire[m])
          /\ j + k \in 1..Len(wire[m])
      BY <1>6, <2>1, <2>3
    <3> QED
      BY <3>1 DEF OneRequestEach
  <2>6. i \in Int /\ j \in Int
    BY <2>1, <2>2
  <2> QED
    BY <2>3, <2>5, <2>6
<1>7. \A m, n \in Motors : \A i \in 1..Len(wire'[m]), j \in 1..Len(wire'[n]) :
         wire'[m][i].by = wire'[n][j].by => m = n /\ i = j
  BY <1>6
<1>8. OneRequestEach'
  BY <1>5, <1>7 DEF OneRequestEach
<1>9. \A m \in Motors : \A i \in 1..Len(wire'[m]) :
         \E j \in 1..Len(wire[m]) : wire'[m][i] = wire[m][j]
  BY <1>4
<1> QED
  BY <1>8, <1>9

\* A step of a call, on a bus that stays punctual.
LEMMA CallKeepsOneRequest ==
    ASSUME PunctualIInv, Punctual, late' = 0, NEW t \in Threads,
           MemoryStep(t) \/ SystemCall(t), call[t].op # "probe"
    PROVE  missed' = 0 /\ OneRequestEach'
<1>0. TypeInv /\ CanTypeOK /\ OneRequestEach /\ missed = 0 /\ late = 0
  BY DEF PunctualIInv, PunctualInv, Punctual, ElbowIInv, IInv, TypeInv, TypeOK
<1>1. \A u \in Threads \ {t} : at'[u] = at[u]
  BY <1>0, CallStepIsOwn
<1>2. CASE MemoryStep(t)
  <2>1. UNCHANGED <<wire, missed>> /\ at[t] # "read"
    BY <1>0, <1>2, MemoryStepsMoveNoFrame DEF busVars
  <2> QED
    BY <1>0, <1>1, <2>1, RequestsKept
<1>3. CASE SendWrite(t)
  BY <1>0, <1>3, RequestWritten DEF SendWrite
<1>4. CASE ReadSocket(t)
  <2>1. at[t] = "read" /\ ~Outstanding(t) /\ UNCHANGED wire
    BY <1>0, <1>4 DEF ReadSocket
  <2>2. rxq # <<>>
    BY <2>1, AnsweredFindsOne
  <2>3. missed' = 0
    BY <1>0, <1>4, <2>2 DEF ReadSocket
  <2> QED
    BY <1>0, <1>1, <2>1, <2>3, RequestsKept
<1> QED
  BY <1>2, <1>3, <1>4 DEF SystemCall

LEMMA OneRequestStep ==
    ASSUME PunctualIInv, Punctual, Punctual', [Next]_vars
    PROVE  missed' = 0 /\ OneRequestEach'
<1>0. TypeInv /\ CanTypeOK /\ CallInv /\ OneRequestEach /\ missed = 0 /\ late' = 0
  BY DEF PunctualIInv, PunctualInv, Punctual, ElbowIInv, IInv, TypeInv, TypeOK
<1>t. /\ Control \in Threads /\ Keyboard \in Threads
      /\ Elbow \in Motors /\ Shoulder \in Motors
  BY DEF Threads, Motors
<1>1. CASE ControlCall \/ KeyCall
  <2>1. PICK t \in Threads : MemoryStep(t) \/ SystemCall(t)
    BY <1>1, <1>t DEF ControlCall, KeyCall
  <2>2. call[t].op # "probe"
    <3>1. at[t] # "idle"
      BY <1>0, <2>1, CallStepIsOwn
    <3> QED
      BY <1>0, <3>1 DEF CallInv, Punctual, ShuttingDown, Quitting, Threads
  <2> QED
    BY <1>0, <2>1, <2>2, CallKeepsOneRequest
<1>2. CASE \E m \in Motors : Bus(m)
  <2>1. PICK m \in Motors : Bus(m)
    BY <1>2
  <2>2. missed' = missed
    BY <2>1 DEF Bus, Answer, Lose
  <2> QED
    BY <1>0, <2>1, <2>2, RequestTaken
<1>3. CASE \/ ControlReadElbow \/ ControlReadShoulder \/ KeyElbow \/ KeyShoulder
           \/ QuitElbow \/ QuitShoulder \/ QuitProbe
  <2>1. PICK t \in Threads : at[t] = "idle" /\ at' = [at EXCEPT ![t] = "cmd"]
    BY <1>3, <1>t DEF ControlReadElbow, ControlReadShoulder, KeyElbow, KeyShoulder,
                      QuitElbow, QuitShoulder, QuitProbe, Begin, Goto
  <2>2. UNCHANGED <<wire, missed>>
    BY <1>3 DEF ControlReadElbow, ControlReadShoulder, KeyElbow, KeyShoulder,
                QuitElbow, QuitShoulder, QuitProbe, Begin, busVars
  <2>3. \A u \in Threads : at[u] = "read" => at'[u] = "read"
    BY <1>0, <2>1 DEF CanTypeOK
  <2> QED
    BY <1>0, <2>2, <2>3, RequestsKept
<1>4. CASE \/ ControlLock \/ ControlUnlock \/ ControlSignal \/ ControlGetElbow
           \/ ControlGetShoulder \/ ControlCancelled
           \/ KeyLock \/ KeyWait \/ SpuriousWakeup \/ KeyRelock \/ KeyUnlock
           \/ Operator \/ KeyPressed \/ CancelIMU \/ CancelControl \/ CloseBus \/ Exit
           \/ UNCHANGED vars
  <2>1. UNCHANGED <<at, wire, missed>>
    BY <1>4, OutsideCalls DEF busVars
  <2> QED
    BY <1>0, <2>1, RequestsKept
<1> QED
  BY <1>1, <1>2, <1>3, <1>4 DEF Next, Running, Ended, ControlStep, KeyStep

\* The elbow's read itself: it is alone with the bus.
LEMMA ElbowCallSucceeds ==
    ASSUME PunctualIInv, Punctual, late' = 0, ControlCall, ctl = "unlock"
    PROVE  ElbowRequestSent' /\ ElbowReplyTaken'
<1>0. /\ TypeInv /\ CanTypeOK /\ FrameAddressed /\ ElbowRequestSent /\ ElbowReplyTaken
      /\ OneRequestEach /\ IInv /\ MutexInv /\ late = 0 /\ ~ShuttingDown
  BY DEF PunctualIInv, PunctualInv, Punctual, ElbowIInv, IInv, TypeInv, TypeOK
<1>t. /\ Control \in Threads /\ Threads = {Control, Keyboard} /\ Control # Keyboard
      /\ Elbow \in Motors /\ Shoulder \in Motors /\ Elbow # Shoulder
      /\ Motors = {Elbow, Shoulder}
  BY CanBusAssumption DEF Threads, Motors, CanBusAssumption
<1>1. UNCHANGED armVars /\ (MemoryStep(Control) \/ SystemCall(Control))
  BY DEF ControlCall
<1>2. at[Control] # "idle" /\ at[Keyboard] = "idle" /\ ctl' = "unlock"
  BY <1>0, <1>t, <1>1, CallStepIsOwn, ElbowReadAlone DEF armVars
<1>3. call[Control].op = "read_position" /\ call[Control].motor = Elbow
  BY <1>0, <1>2 DEF IInv, CallInv, PunctualIInv, ElbowIInv, GenuineInv, ControlCallInv
<1>m. MemoryStep(Control) => UNCHANGED <<wire, rxq>>
  BY <1>0, <1>t, MemoryStepsMoveNoFrame DEF busVars
<1> USE <1>0, <1>2, <1>3, <1>t DEF ControlIn, CanTypeOK, Goto
<1>4. CASE SendWrite(Control)
  <2>1. at[Control] = "write" /\ at'[Control] = "read" /\ frame_send.motor = Elbow
        /\ frame_send.cmd = "0x92"
    BY <1>4 DEF SendWrite, ElbowRequestSent
  <2>2. Owed = 0
    BY <2>1 DEF Owed
  <2>3. Len(wire[Elbow]) = 0 /\ Len(wire[Shoulder]) = 0 /\ Len(rxq) = 0
    BY <2>2, PunctualBalance DEF OnWire
  <2>4. wire[Elbow] = <<>> /\ wire[Shoulder] = <<>> /\ rxq = <<>>
    BY <2>3
  <2> DEFINE r == [by |-> Control, cmd |-> frame_send.cmd, args |-> frame_send.args]
  <2>5. wire' = [wire EXCEPT ![Elbow] = Append(<<>>, r)] /\ UNCHANGED rxq
    BY <1>4, <2>1, <2>4 DEF SendWrite
  <2>6. r.cmd = "0x92"
    BY <2>1
  <2> HIDE DEF r
  <2>7. wire'[Elbow] = <<r>> /\ wire'[Shoulder] = <<>>
    BY <2>4, <2>5
  <2>8. \A m \in Motors : \A i \in 1..Len(wire'[m]) : m = Elbow /\ wire'[m][i].cmd = "0x92"
    BY <2>6, <2>7
  <2>9. \A i \in 1..Len(rxq') : rxq'[i] = ElbowReply
    BY <2>4, <2>5
  <2> QED
    BY <2>1, <2>8, <2>9 DEF ElbowRequestSent, ElbowReplyTaken
<1>5. CASE ReadSocket(Control)
  <2>1. at[Control] = "read" /\ ~Outstanding(Control) /\ at'[Control] = "check"
    BY <1>5 DEF ReadSocket
  <2>2. rxq # <<>>
    BY <2>1, AnsweredFindsOne
  <2>3. Head(rxq) = ElbowReply
    <3>1. 1 \in 1..Len(rxq) /\ Head(rxq) = rxq[1]
      BY <2>2
    <3> QED
      BY <2>1, <3>1 DEF ElbowRequestSent
  <2> QED
    BY <1>5, <2>1, <2>2, <2>3 DEF ReadSocket, ElbowRequestSent, ElbowReplyTaken
<1>6. CASE SendCommand(Control)
  <2>1. frame_send'.motor = frame_send.motor /\ frame_send'.cmd = "0x92"
    <3>1. CommandOf(call[Control].op) = "0x92" /\ "0x92" \in Cmds
      BY DEF CommandOf, Cmds
    <3>2. frame_send' = [frame_send EXCEPT !.cmd = "0x92"]
      BY <1>6, <3>1 DEF SendCommand
    <3> QED
      BY <3>2 DEF SendFrame
  <2> QED
    BY <1>6, <2>1 DEF SendCommand, ElbowRequestSent, ElbowReplyTaken
<1>7. CASE SendArgs(Control)
  <2>1. frame_send'.motor = frame_send.motor /\ frame_send'.cmd = frame_send.cmd
    BY <1>7 DEF SendArgs, SendFrame
  <2> QED
    BY <1>7, <2>1 DEF SendArgs, ElbowRequestSent, ElbowReplyTaken
<1>8. CASE CheckFrame(Control)
  <2>1. Matches(Control)
    BY <1>8 DEF CheckFrame, Matches, ExpectedReply, CommandOf, ElbowReplyTaken, ElbowReply
  <2>2. frame_recv.cmd = "0x92"
    BY <1>8 DEF CheckFrame, ElbowReplyTaken, ElbowReply
  <2> QED
    BY <1>8, <2>1, <2>2 DEF CheckFrame, ElbowRequestSent, ElbowReplyTaken, buffers
<1>9. CASE Reject(Control)
  BY <1>9 DEF Reject, ElbowReplyTaken
<1>10. CASE FillHead(Control)
  <2>1. receive_buf'.motor = Elbow /\ receive_buf'.cmd = "0x92"
    BY <1>10, FrameUpdates DEF FillHead, ElbowReplyTaken
  <2> QED
    BY <1>10, <2>1 DEF FillHead, ElbowRequestSent, ElbowReplyTaken
<1>11. CASE FillBody(Control)
  <2>1. receive_buf'.motor = receive_buf.motor /\ receive_buf'.cmd = receive_buf.cmd
    BY <1>11, FrameUpdates DEF FillBody
  <2> QED
    BY <1>11, <2>1 DEF FillBody, ElbowRequestSent, ElbowReplyTaken
<1>12. CASE ClearFrame(Control)
  BY <1>12 DEF ClearFrame, ElbowRequestSent, ElbowReplyTaken
<1>13. CASE StoreReply(Control)
  BY <1>13 DEF StoreReply, ElbowRequestSent, ElbowReplyTaken
<1>14. CASE TestReply(Control)
  BY <1>14 DEF TestReply, ElbowRequestSent, ElbowReplyTaken, buffers
<1>15. CASE CopyFromNull(Control) \/ IgnoreReply(Control)
  BY <1>15 DEF CopyFromNull, IgnoreReply, ForThisCall, ElbowReplyTaken
<1>16. CASE AcceptReply(Control)
  BY <1>16 DEF AcceptReply, ElbowRequestSent, ElbowReplyTaken
<1> QED
  BY <1>1, <1>4, <1>5, <1>6, <1>7, <1>8, <1>9, <1>10, <1>11, <1>12, <1>13, <1>14, <1>15,
     <1>16 DEF MemoryStep, SystemCall

\* What the motors do while the elbow's read waits, or is elsewhere.
LEMMA BusKeepsReadPunctual ==
    ASSUME PunctualIInv, Punctual, lost' = 0, NEW d \in Motors, Bus(d)
    PROVE  ElbowRequestSent' /\ ElbowReplyTaken'
<1>0. /\ CanTypeOK /\ TypeInv /\ OneRequestEach /\ ElbowRequestSent /\ ElbowReplyTaken
      /\ lost = 0
  BY DEF PunctualIInv, PunctualInv, Punctual, ElbowIInv, IInv, TypeInv, TypeOK
<1>1. UNCHANGED <<buffers, at, fresh, ctl>>
  BY DEF Bus, Answer, Lose, armVars
<1>2. ElbowReplyTaken'
  BY <1>0, <1>1 DEF ElbowReplyTaken, ControlIn, buffers
<1>3. Answer(d)
  BY <1>0 DEF Bus, Lose
<1>4. ASSUME ControlIn({"read"})
      PROVE  /\ \A m \in Motors : \A i \in 1..Len(wire'[m]) :
                   m = Elbow /\ wire'[m][i].cmd = "0x92"
             /\ \A i \in 1..Len(rxq') : rxq'[i] = ElbowReply
  <2>1. \A m \in Motors : \A i \in 1..Len(wire[m]) : m = Elbow /\ wire[m][i].cmd = "0x92"
    BY <1>0, <1>4 DEF ElbowRequestSent
  <2>2. \A m \in Motors : \A i \in 1..Len(wire'[m]) : m = Elbow /\ wire'[m][i].cmd = "0x92"
    BY <1>0, <2>1, RequestTaken
  <2>3. wire[d] \in Seq(Request) /\ wire[d] # <<>> /\ rxq \in Seq(Frame)
    BY <1>0, <1>3 DEF CanTypeOK, Answer
  <2>4. 1 \in 1..Len(wire[d]) /\ Head(wire[d]) = wire[d][1]
    BY <2>3
  <2>5. d = Elbow /\ Head(wire[d]).cmd = "0x92"
    BY <2>1, <2>4
  <2>6. rxq' = Append(rxq, ElbowReply)
    BY <1>3, <2>5 DEF Answer, ElbowReply, ElbowAngle
  <2>7. \A i \in 1..Len(rxq) : rxq[i] = ElbowReply
    BY <1>0, <1>4 DEF ElbowRequestSent
  <2>8. \A i \in 1..Len(rxq') : rxq'[i] = ElbowReply
    BY <2>3, <2>6, <2>7
  <2> QED
    BY <2>2, <2>8
<1>5. ElbowRequestSent'
  BY <1>0, <1>1, <1>4 DEF ElbowRequestSent, ControlIn, buffers
<1> QED
  BY <1>2, <1>5

LEMMA PunctualStep == PunctualIInv /\ [Next]_vars => PunctualInv'
<1> SUFFICES ASSUME PunctualIInv, [Next]_vars, Punctual'
             PROVE  missed' = 0 /\ OneRequestEach' /\ ElbowRequestSent' /\ ElbowReplyTaken'
  BY DEF PunctualInv
<1>0. /\ TypeInv /\ CanTypeOK /\ CallInv /\ IInv /\ MutexInv /\ GenuineInv
  BY DEF PunctualIInv, ElbowIInv, IInv, TypeInv, TypeOK
<1>p. Punctual /\ late' = 0 /\ lost' = 0 /\ ~ShuttingDown /\ ~ShuttingDown'
  BY <1>0, PunctualSoFar DEF Punctual
<1>r. ElbowRequestSent /\ ElbowReplyTaken
  BY <1>p DEF PunctualIInv, PunctualInv
<1>t. /\ Control \in Threads /\ Keyboard \in Threads /\ Control # Keyboard
      /\ Elbow \in Motors /\ Shoulder \in Motors
  BY CanBusAssumption DEF Threads, Motors, CanBusAssumption
<1>s. missed' = 0 /\ OneRequestEach'
  BY <1>p, OneRequestStep
\* A step after which Control_thread is not in its elbow read.
<1>n. ASSUME ctl' # "unlock" PROVE ElbowRequestSent' /\ ElbowReplyTaken'
  BY <1>n DEF ElbowRequestSent, ElbowReplyTaken, ControlIn
<1>1. ElbowRequestSent' /\ ElbowReplyTaken'
  <2>1. CASE ControlReadElbow
    <3>1. ctl' = "unlock" /\ at'[Control] = "cmd"
      BY <1>0, <1>t, <2>1 DEF ControlReadElbow, Begin, Goto, CanTypeOK
    <3>2. frame_send'.motor = Elbow
      BY <1>0, <1>t, <2>1, SendFrameFields DEF ControlReadElbow, Begin, CanTypeOK
    <3> QED
      BY <3>1, <3>2 DEF ElbowRequestSent, ElbowReplyTaken, ControlIn
  <2>2. CASE ControlReadShoulder
    BY <1>n, <2>2 DEF ControlReadShoulder
  <2>3. CASE ControlCall
    <3>1. ctl' = ctl
      BY <2>3 DEF ControlCall, armVars
    <3> QED
      BY <1>n, <1>p, <2>3, <3>1, ElbowCallSucceeds
  <2>4. CASE KeyCall
    <3>1. at[Keyboard] # "idle" /\ ctl' = ctl
      BY <1>0, <1>t, <2>4, CallStepIsOwn DEF KeyCall, armVars
    <3> QED
      BY <1>0, <1>n, <1>p, <3>1, ElbowReadAlone
  <2>5. CASE KeyElbow \/ KeyShoulder
    <3>1. key \in {"elbow", "shoulder"} /\ ctl' = ctl
      BY <2>5 DEF KeyElbow, KeyShoulder
    <3> QED
      BY <1>0, <1>n, <1>p, <3>1, ElbowReadAlone
  <2>6. CASE QuitElbow \/ QuitShoulder \/ QuitProbe
    BY <1>p, <2>6 DEF QuitElbow, QuitShoulder, QuitProbe, ShuttingDown, Quitting
  <2>7. CASE \E m \in Motors : Bus(m)
    BY <1>p, <2>7, BusKeepsReadPunctual
  <2>8. CASE \/ ControlLock \/ ControlUnlock \/ ControlSignal \/ ControlGetElbow
             \/ ControlGetShoulder \/ ControlCancelled
    BY <1>n, <2>8 DEF ControlLock, ControlUnlock, ControlSignal, ControlGetElbow,
                      ControlGetShoulder, ControlCancelled
  <2>9. CASE \/ KeyLock \/ KeyWait \/ SpuriousWakeup \/ KeyRelock \/ KeyUnlock
             \/ Operator \/ KeyPressed \/ CancelIMU \/ CancelControl \/ CloseBus \/ Exit
             \/ UNCHANGED vars
    <3>1. UNCHANGED <<at, call, buffers, busVars>>
      BY <2>9, OutsideCalls
    <3>2. UNCHANGED <<ctl, fresh>>
      BY <2>9 DEF KeyLock, KeyWait, SpuriousWakeup, KeyRelock, KeyUnlock, Operator,
                  PressMove, PressZero, PressEscape, PressOther, KeyPressed, CancelIMU, CancelControl, CloseBus,
                  Exit, armVars, vars, canVars
    <3>3. UNCHANGED <<frame_send, frame_recv, nbytes_recv, receive_buf, can_reply, wire, rxq>>
      BY <3>1 DEF buffers, busVars
    <3> QED
      BY <1>r, <3>1, <3>2, <3>3 DEF ElbowRequestSent, ElbowReplyTaken, ControlIn
  <2> QED
    BY <2>1, <2>2, <2>3, <2>4, <2>5, <2>6, <2>7, <2>8, <2>9
       DEF Next, Running, Ended, ControlStep, KeyStep
<1> QED
  BY <1>1, <1>s

LEMMA PunctualIInvHolds == Spec => []PunctualIInv
<1>1. Init => PunctualInv
  BY DEF Init, CanInit, PunctualInv, OneRequestEach, ElbowRequestSent, ElbowReplyTaken,
         ControlIn, Threads, Motors
<1>2. PunctualInv /\ ElbowIInv /\ RepliesBalance => PunctualIInv
  BY DEF PunctualIInv
<1>3. PunctualIInv /\ [Next]_vars => PunctualInv'
  BY PunctualStep
<1>4. PunctualIInv => ElbowIInv /\ RepliesBalance
  BY DEF PunctualIInv
<1> QED
  BY <1>1, <1>2, <1>3, <1>4, ElbowIInvHolds, Balance, PTL DEF Spec

\* While every answer arrives within its delay and none is lost, and until close_all
\* starts, each call of read_position that Control_thread makes for the elbow while it
\* holds the mutex returns with a new angle in position_: the requests of the other
\* calls never leave an answer behind that it would read instead of its own.
THEOREM ReadSucceeds == Spec => []ElbowReadSucceeds
<1>1. PunctualIInv => ElbowReadSucceeds
  BY DEF PunctualIInv, PunctualInv, ElbowReplyTaken, ControlIn, Punctual,
         ElbowReadSucceeds, Idle
<1> QED
  BY <1>1, PunctualIInvHolds, PTL
=============================================================================
