------------------------- MODULE ArmShutdownProofs -------------------------
(***************************************************************************)
(* Theorems about close_all, for all values of the bounds and all keys.    *)
(***************************************************************************)
EXTENDS ArmControlProofs

\* What a thread inside a Motor method is doing there: Control_thread only
\* reads, and the keyboard thread is in the call of the statement before `key'.
CallInv ==
    /\ at[Control] # "idle" => call[Control].op = "read_position"
    /\ at[Keyboard] # "idle" =>
          \/ /\ key \in {"shoulder", "unlock"}
             /\ call[Keyboard].op \in {"set_position", "set_zero_cmd"}
          \/ /\ key \in {"off_shoulder", "cancel_imu"}
             /\ call[Keyboard].op = "shutdown_cmd"
          \/ /\ key = "close"
             /\ call[Keyboard].op = "probe"
             /\ at[Keyboard] \in {"cmd", "args", "write"}

\* close_all cancels Control_thread before it closes the bus.
CloseInv ==
    /\ ctl = "dead" => cancelled
    /\ cancelled <=> key \in {"probe", "close", "exit"}
    /\ ~can_open => key = "exit"

\* The frame under construction is no set-position frame any more.
MotionInv ==
    (\/ key = "off_shoulder" /\ at[Keyboard] # "cmd"
     \/ key \in Quitting \ {"off_elbow", "off_shoulder"})
        => frame_send.cmd # "0xA4"

IInv == TypeInv /\ CallInv /\ CloseInv
-----------------------------------------------------------------------------
(***************************************************************************)
(* A step of one thread's call leaves the other thread's alone.            *)
(***************************************************************************)

LEMMA CallStepIsOwn ==
    ASSUME NEW t \in Threads, TypeInv, MemoryStep(t) \/ SystemCall(t)
    PROVE  /\ at[t] # "idle" /\ call' = call
           /\ \A u \in Threads \ {t} : at'[u] = at[u]
<1> USE DEF TypeInv, TypeOK, CanTypeOK, Goto
<1>1. CASE SendCommand(t) \/ SendArgs(t) \/ CheckFrame(t) \/ Reject(t) \/ FillHead(t)
  BY <1>1 DEF SendCommand, SendArgs, CheckFrame, Reject, FillHead
<1>2. CASE FillBody(t) \/ ClearFrame(t) \/ StoreReply(t) \/ TestReply(t)
  BY <1>2 DEF FillBody, ClearFrame, StoreReply, TestReply
<1>3. CASE CopyFromNull(t) \/ AcceptReply(t) \/ IgnoreReply(t)
  BY <1>3 DEF CopyFromNull, AcceptReply, IgnoreReply
<1>4. CASE SendWrite(t) \/ ReadSocket(t)
  BY <1>4 DEF SendWrite, ReadSocket
<1> QED
  BY <1>1, <1>2, <1>3, <1>4 DEF MemoryStep, SystemCall

\* The probe of close_all is written, and no answer is read for it.
LEMMA ProbeOnlySends ==
    ASSUME NEW t \in Threads, TypeInv, call[t].op = "probe",
           at[t] \in {"cmd", "args", "write"}, MemoryStep(t) \/ SystemCall(t)
    PROVE  at'[t] \in IF at[t] = "write" THEN {"idle"} ELSE {"args", "write"}
<1> USE DEF TypeInv, TypeOK, CanTypeOK, Goto
<1>1. CASE SendCommand(t) \/ SendArgs(t) \/ SendWrite(t)
  BY <1>1 DEF SendCommand, SendArgs, SendWrite
<1> QED
  BY <1>1
     DEF MemoryStep, SystemCall, ReadSocket, CheckFrame, Reject, FillHead, FillBody,
         ClearFrame, StoreReply, TestReply, CopyFromNull, AcceptReply, IgnoreReply

LEMMA BeginIsOwn ==
    ASSUME NEW t \in Threads, NEW op \in Ops, NEW m \in Motors, NEW args \in Args,
           TypeInv, Begin(t, op, m, args)
    PROVE  /\ at[t] = "idle" /\ at'[t] = "cmd" /\ call'[t].op = op
           /\ \A u \in Threads \ {t} : at'[u] = at[u] /\ call'[u] = call[u]
BY DEF TypeInv, TypeOK, CanTypeOK, Goto, Begin

\* The steps outside Motor calls leave the calls alone.
LEMMA OutsideCalls ==
    ASSUME \/ ControlLock \/ ControlUnlock \/ ControlSignal \/ ControlGetElbow
           \/ ControlGetShoulder \/ ControlCancelled
           \/ KeyLock \/ KeyWait \/ SpuriousWakeup \/ KeyRelock \/ KeyUnlock
           \/ Operator \/ KeyPressed \/ CancelIMU \/ CancelControl \/ CloseBus \/ Exit
           \/ UNCHANGED vars
    PROVE  UNCHANGED <<at, call, buffers, busVars>>
<1>1. CASE \/ ControlLock \/ ControlUnlock \/ ControlSignal \/ ControlGetElbow
           \/ ControlGetShoulder \/ ControlCancelled \/ UNCHANGED vars
  BY <1>1 DEF ControlLock, ControlUnlock, ControlSignal, ControlGetElbow,
              ControlGetShoulder, ControlCancelled, vars, canVars
<1>2. CASE KeyLock \/ KeyWait \/ SpuriousWakeup \/ KeyRelock \/ KeyUnlock \/ Operator \/ KeyPressed
  BY <1>2 DEF KeyLock, KeyWait, SpuriousWakeup, KeyRelock, KeyUnlock, Operator,
              PressMove, PressZero, PressEscape, PressOther, KeyPressed, canVars
<1>3. CASE CancelIMU \/ CancelControl \/ CloseBus \/ Exit
  BY <1>3 DEF CancelIMU, CancelControl, CloseBus, Exit, canVars
<1> QED
  BY <1>1, <1>2, <1>3

LEMMA BusOutsideCalls ==
    ASSUME NEW m \in Motors, Bus(m)
    PROVE  UNCHANGED <<at, call, buffers, armVars>>
BY DEF Bus, Answer, Lose
-----------------------------------------------------------------------------
LEMMA InitIInv == Init => IInv
<1>1. Init => CallInv /\ CloseInv
  BY DEF Init, CanInit, CallInv, CloseInv, Threads
<1> QED
  BY <1>1, InitTyped DEF IInv

LEMMA CallStep == IInv /\ [Next]_vars => CallInv'
<1> SUFFICES ASSUME IInv, [Next]_vars PROVE CallInv'
  OBVIOUS
<1> USE DEF CallInv
<1>0. TypeInv /\ CallInv /\ CloseInv
  BY DEF IInv
<1>t. Control \in Threads /\ Keyboard \in Threads /\ Control # Keyboard
  BY CanBusAssumption DEF Threads, CanBusAssumption
<1>m. Elbow \in Motors /\ Shoulder \in Motors
  BY DEF Motors
<1>o. /\ {"read_position", "shutdown_cmd", "probe"} \subseteq Ops /\ "zeros" \in Args
      /\ job \in {"set_position", "set_zero_cmd"} /\ job \in Ops /\ JobArgs \in Args
  BY <1>0 DEF Ops, Args, TypeInv, TypeOK, JobArgs
<1>1. CASE ControlReadElbow \/ ControlReadShoulder
  BY <1>0, <1>t, <1>m, <1>o, <1>1, BeginIsOwn DEF ControlReadElbow, ControlReadShoulder
<1>2. CASE KeyElbow \/ KeyShoulder
  BY <1>0, <1>t, <1>m, <1>o, <1>2, BeginIsOwn DEF KeyElbow, KeyShoulder
<1>3. CASE QuitElbow \/ QuitShoulder \/ QuitProbe
  BY <1>0, <1>t, <1>m, <1>o, <1>3, BeginIsOwn DEF QuitElbow, QuitShoulder, QuitProbe
<1>4. CASE ControlCall
  BY <1>0, <1>t, <1>4, CallStepIsOwn DEF ControlCall, armVars
<1>5. CASE KeyCall
  BY <1>0, <1>t, <1>5, CallStepIsOwn, ProbeOnlySends DEF KeyCall, armVars
<1>6. CASE \E m \in Motors : Bus(m)
  BY <1>0, <1>6, BusOutsideCalls DEF armVars
<1>7. CASE ControlLock \/ ControlUnlock \/ ControlGetElbow \/ ControlGetShoulder
           \/ ControlCancelled \/ Exit \/ UNCHANGED vars
  BY <1>0, <1>7, OutsideCalls
     DEF ControlLock, ControlUnlock, ControlGetElbow, ControlGetShoulder,
         ControlCancelled, Exit, vars, armVars
<1>8. CASE ControlSignal \/ KeyLock \/ KeyWait \/ SpuriousWakeup \/ KeyRelock \/ Operator \/ KeyPressed
  BY <1>0, <1>8, OutsideCalls
     DEF ControlSignal, KeyLock, KeyWait, SpuriousWakeup, KeyRelock, Operator,
         PressMove, PressZero, PressEscape, PressOther, KeyPressed
<1>9. CASE KeyUnlock \/ CancelIMU \/ CancelControl \/ CloseBus
  BY <1>0, <1>9, OutsideCalls DEF KeyUnlock, CancelIMU, CancelControl, CloseBus, Idle
<1> QED
  BY <1>1, <1>2, <1>3, <1>4, <1>5, <1>6, <1>7, <1>8, <1>9
     DEF Next, Running, Ended, ControlStep, KeyStep

LEMMA CloseStep == CloseInv /\ [Next]_vars => CloseInv'
<1> SUFFICES ASSUME CloseInv, [Next]_vars PROVE CloseInv'
  OBVIOUS
<1> USE DEF CloseInv
<1>1. CASE ControlLock \/ ControlReadElbow \/ ControlUnlock \/ ControlSignal
  BY <1>1 DEF ControlLock, ControlReadElbow, ControlUnlock, ControlSignal
<1>2. CASE ControlReadShoulder \/ ControlGetElbow \/ ControlGetShoulder
           \/ ControlCancelled
  BY <1>2 DEF ControlReadShoulder, ControlGetElbow, ControlGetShoulder,
              ControlCancelled
<1>3. CASE ControlCall \/ KeyCall \/ (\E m \in Motors : Bus(m)) \/ UNCHANGED vars
           \/ Exit
  BY <1>3 DEF ControlCall, KeyCall, Bus, vars, armVars, Exit
<1>4. CASE KeyLock \/ KeyWait \/ SpuriousWakeup \/ KeyRelock
  BY <1>4 DEF KeyLock, KeyWait, SpuriousWakeup, KeyRelock
<1>5. CASE KeyElbow \/ KeyShoulder \/ KeyUnlock
  BY <1>5 DEF KeyElbow, KeyShoulder, KeyUnlock
<1>6. CASE Operator \/ KeyPressed
  BY <1>6 DEF Operator, PressMove, PressZero, PressEscape, PressOther, KeyPressed
<1>7. CASE QuitElbow \/ QuitShoulder \/ CancelIMU \/ CancelControl \/ QuitProbe
           \/ CloseBus
  BY <1>7 DEF QuitElbow, QuitShoulder, CancelIMU, CancelControl, QuitProbe, CloseBus
<1> QED
  BY <1>1, <1>2, <1>3, <1>4, <1>5, <1>6, <1>7
     DEF Next, Running, Ended, ControlStep, KeyStep

LEMMA IInvStep == IInv /\ [Next]_vars => IInv'
BY TypeStep, CallStep, CloseStep DEF IInv

LEMMA IInvHolds == Spec => []IInv
BY InitIInv, IInvStep, PTL DEF Spec

\* The cancellation precedes CAN_BUS_Close, and write() and read() honour it:
\* no thread gets through a system call on the closed sockets.
THEOREM BusClosedForGood == Spec => NoBusUseAfterClose
<1> DEFINE Quiet == \A t \in Threads : at[t] \in {"write", "read"} => at'[t] = at[t]
<1>1. IInv /\ [Next]_vars => [~can_open => Quiet]_vars
  <2> SUFFICES ASSUME IInv, [Next]_vars, ~can_open
               PROVE  Quiet
    OBVIOUS
  <2>0. TypeInv /\ key = "exit" /\ cancelled /\ at[Keyboard] = "idle"
    BY DEF IInv, CloseInv, CallInv
  <2>t. Threads = {Control, Keyboard} /\ Control # Keyboard
    BY CanBusAssumption DEF Threads, CanBusAssumption
  <2> SUFFICES at[Control] \in {"write", "read"} => at'[Control] = at[Control]
    BY <2>0, <2>t
  <2>1. CASE ControlReadElbow \/ ControlReadShoulder
    BY <2>1 DEF ControlReadElbow, ControlReadShoulder, Begin
  <2>2. CASE ControlCall
    BY <2>0, <2>2
       DEF ControlCall, MemoryStep, SendCommand, SendArgs, CheckFrame, Reject,
           FillHead, FillBody, ClearFrame, StoreReply, TestReply, CopyFromNull,
           AcceptReply, IgnoreReply
  <2>3. CASE KeyCall
    BY <2>0, <2>3, <2>t, CallStepIsOwn DEF KeyCall
  <2>4. CASE \E m \in Motors : Bus(m)
    BY <2>4, BusOutsideCalls
  <2>5. CASE KeyElbow \/ KeyShoulder \/ QuitElbow \/ QuitShoulder \/ QuitProbe
    BY <2>0, <2>5 DEF KeyElbow, KeyShoulder, QuitElbow, QuitShoulder, QuitProbe
  <2> QED
    BY <2>1, <2>2, <2>3, <2>4, <2>5, OutsideCalls
       DEF Next, Running, Ended, ControlStep, KeyStep
<1> QED
  BY <1>1, IInvHolds, PTL DEF Spec, NoBusUseAfterClose
-----------------------------------------------------------------------------
(***************************************************************************)
(* Nothing sets the arm in motion once close_all has begun.                *)
(***************************************************************************)

\* The command byte of the frame under construction, after a step of a call.
LEMMA CommandByte ==
    ASSUME NEW t \in Threads, TypeInv, MemoryStep(t) \/ SystemCall(t)
    PROVE  \/ frame_send'.cmd = frame_send.cmd /\ at[t] # "cmd"
           \/ frame_send'.cmd = CommandOf(call[t].op) /\ at[t] = "cmd"
<1> USE DEF TypeInv, TypeOK, CanTypeOK
<1>1. CASE SendCommand(t)
  BY <1>1 DEF SendCommand, SendFrame
<1>2. CASE SendArgs(t)
  BY <1>2 DEF SendArgs, SendFrame
<1>3. CASE CheckFrame(t) \/ Reject(t) \/ FillHead(t) \/ FillBody(t) \/ ClearFrame(t)
  BY <1>3 DEF CheckFrame, Reject, FillHead, FillBody, ClearFrame, buffers
<1>4. CASE StoreReply(t) \/ TestReply(t) \/ CopyFromNull(t) \/ AcceptReply(t)
           \/ IgnoreReply(t)
  BY <1>4 DEF StoreReply, TestReply, CopyFromNull, AcceptReply, IgnoreReply, buffers
<1>5. CASE SendWrite(t) \/ ReadSocket(t)
  BY <1>5 DEF SendWrite, ReadSocket, buffers
<1> QED
  BY <1>1, <1>2, <1>3, <1>4, <1>5 DEF MemoryStep, SystemCall

LEMMA MotionStep == IInv /\ MotionInv /\ [Next]_vars => MotionInv'
<1> SUFFICES ASSUME IInv, MotionInv, [Next]_vars PROVE MotionInv'
  OBVIOUS
<1> USE DEF MotionInv
<1>0. TypeInv /\ CallInv /\ frame_send \in SendFrame
  BY DEF IInv, TypeInv, TypeOK, CanTypeOK
<1>t. Control \in Threads /\ Keyboard \in Threads /\ Control # Keyboard
  BY CanBusAssumption DEF Threads, CanBusAssumption
<1>m. Elbow \in Motors /\ Shoulder \in Motors
  BY DEF Motors
<1>o. /\ {"read_position", "shutdown_cmd", "probe"} \subseteq Ops /\ "zeros" \in Args
      /\ job \in Ops /\ JobArgs \in Args
  BY <1>0 DEF Ops, Args, TypeInv, TypeOK, JobArgs
<1>b. ASSUME NEW t \in Threads, NEW op \in Ops, NEW m \in Motors, NEW args \in Args,
             Begin(t, op, m, args)
      PROVE  frame_send'.cmd = frame_send.cmd
  BY <1>0, <1>b DEF Begin, SendFrame
<1>q. ShuttingDown => key # "poll" /\ key \notin {"lock", "cond_wait", "waiting",
                           "woken", "elbow", "shoulder", "unlock"}
  BY DEF ShuttingDown, Quitting
<1>1. CASE ControlReadElbow \/ ControlReadShoulder
  BY <1>0, <1>t, <1>m, <1>o, <1>b, <1>1, BeginIsOwn
     DEF ControlReadElbow, ControlReadShoulder
<1>2. CASE KeyElbow \/ KeyShoulder
  BY <1>2 DEF KeyElbow, KeyShoulder, Quitting
<1>3. CASE QuitElbow \/ QuitShoulder \/ QuitProbe
  BY <1>0, <1>t, <1>m, <1>o, <1>b, <1>3, BeginIsOwn
     DEF QuitElbow, QuitShoulder, QuitProbe, Quitting
<1>4. CASE ControlCall
  <2>1. at'[Keyboard] = at[Keyboard] /\ key' = key
    BY <1>0, <1>t, <1>4, CallStepIsOwn DEF ControlCall, armVars
  <2>2. frame_send'.cmd \in {frame_send.cmd, CommandOf("read_position")}
    BY <1>0, <1>t, <1>4, CommandByte, CallStepIsOwn DEF ControlCall, CallInv
  <2> QED
    BY <2>1, <2>2 DEF CommandOf
<1>5. CASE KeyCall
  <2>1. key' = key
    BY <1>5 DEF KeyCall, armVars
  <2>2. at[Keyboard] # "cmd" => frame_send'.cmd = frame_send.cmd
    BY <1>0, <1>t, <1>5, CommandByte DEF KeyCall
  <2>3. at[Keyboard] = "cmd" =>
           frame_send'.cmd = CommandOf(call[Keyboard].op)
    BY <1>0, <1>t, <1>5, CommandByte DEF KeyCall
  <2>4. key \in Quitting /\ at[Keyboard] = "cmd" => frame_send'.cmd # "0xA4"
    BY <1>0, <2>3 DEF CallInv, CommandOf, Quitting
  <2> QED
    BY <2>1, <2>2, <2>4 DEF Quitting
<1>6. CASE \E m \in Motors : Bus(m)
  BY <1>6, BusOutsideCalls DEF armVars, buffers
<1>7. CASE ControlLock \/ ControlUnlock \/ ControlGetElbow \/ ControlGetShoulder
           \/ ControlCancelled \/ Exit \/ UNCHANGED vars
  BY <1>7, OutsideCalls
     DEF ControlLock, ControlUnlock, ControlGetElbow, ControlGetShoulder,
         ControlCancelled, Exit, vars, armVars, buffers
<1>8. CASE ControlSignal \/ KeyLock \/ KeyWait \/ SpuriousWakeup \/ KeyRelock
           \/ KeyUnlock \/ Operator \/ KeyPressed
  <2>1. key' = key \/ key' \notin Quitting \/ (key' = "off_elbow")
    BY <1>8 DEF ControlSignal, KeyLock, KeyWait, SpuriousWakeup, KeyRelock, KeyUnlock,
                Operator, PressMove, PressZero, PressEscape, PressOther, KeyPressed, Quitting
  <2> QED
    BY <1>8, <2>1, OutsideCalls DEF Quitting, buffers
<1>9. CASE CancelIMU \/ CancelControl \/ CloseBus
  BY <1>9, OutsideCalls DEF CancelIMU, CancelControl, CloseBus, Quitting, buffers
<1> QED
  BY <1>1, <1>2, <1>3, <1>4, <1>5, <1>6, <1>7, <1>8, <1>9
     DEF Next, Running, Ended, ControlStep, KeyStep

\* A frame longer queue on the wire ends with the frame under construction.
LEMMA OnlyWritesLengthen ==
    ASSUME TypeInv, [Next]_vars, NEW m \in Motors, Len(wire'[m]) > Len(wire[m])
    PROVE  wire'[m][Len(wire'[m])].cmd = frame_send.cmd
<1> USE DEF TypeInv, TypeOK, CanTypeOK
<1>1. PICK t \in Threads : SendWrite(t)
  <2>0. wire' # wire
    OBVIOUS
  <2>1. CASE \E t \in Threads : SystemCall(t)
    BY <2>0, <2>1 DEF SystemCall, ReadSocket
  <2>2. ~ (\E t \in Threads : MemoryStep(t))
    BY <2>0 DEF MemoryStep, SendCommand, SendArgs, CheckFrame, Reject, FillHead,
                FillBody, ClearFrame, StoreReply, TestReply, CopyFromNull, AcceptReply,
                IgnoreReply, busVars
  <2>3. ~ (\E n \in Motors : Bus(n))
    <3> SUFFICES ASSUME NEW n \in Motors, Answer(n) \/ Lose(n) PROVE FALSE
      BY DEF Bus
    <3>1. wire[n] \in Seq(Request) /\ wire[n] # <<>>
      BY DEF Answer, Lose
    <3>2. Len(Tail(wire[n])) = Len(wire[n]) - 1 /\ Len(wire[n]) \in Nat
      BY <3>1
    <3>3. wire' = [wire EXCEPT ![n] = Tail(@)]
      BY DEF Answer, Lose
    <3> QED
      BY <3>2, <3>3
  <2>4. ~ (ControlReadElbow \/ ControlReadShoulder \/ KeyElbow \/ KeyShoulder
           \/ QuitElbow \/ QuitShoulder \/ QuitProbe)
    BY <2>0 DEF ControlReadElbow, ControlReadShoulder, KeyElbow, KeyShoulder, QuitElbow,
                QuitShoulder, QuitProbe, Begin, busVars
  <2> QED
    BY <2>0, <2>1, <2>2, <2>3, <2>4, OutsideCalls
       DEF Next, Running, Ended, ControlStep, KeyStep, ControlCall, KeyCall, Threads,
           busVars
<1>2. frame_send.motor = m
  BY <1>1 DEF SendWrite
<1>3. wire'[m] = Append(wire[m], [by |-> t, cmd |-> frame_send.cmd,
                                   args |-> frame_send.args])
  BY <1>1, <1>2 DEF SendWrite
<1> QED
  BY <1>3

\* After the first shutdown frame no set-position frame is written, whatever
\* Control_thread still writes into the shared frame.
THEOREM ShutdownStopsMotion == Spec => NoMotionAfterShutdown
<1> DEFINE NoMotion ==
      \A m \in Motors :
          Len(wire'[m]) > Len(wire[m]) => wire'[m][Len(wire'[m])].cmd # "0xA4"
<1>1. IInv /\ MotionInv /\ [Next]_vars => [ShutdownBegun => NoMotion]_vars
  <2> SUFFICES ASSUME IInv, MotionInv, [Next]_vars, ShutdownBegun
               PROVE  NoMotion
    OBVIOUS
  <2>1. frame_send.cmd # "0xA4"
    BY DEF MotionInv, ShutdownBegun
  <2> QED
    BY <2>1, OnlyWritesLengthen DEF IInv
<1>2. Init => MotionInv
  BY DEF Init, CanInit, MotionInv, Quitting
<1> QED
  BY <1>1, <1>2, MotionStep, IInvHolds, PTL DEF Spec, NoMotionAfterShutdown
=============================================================================
