-------------------------- MODULE ArmControlProofs --------------------------
(***************************************************************************)
(* Theorems about ArmControl, for all values of the bounds and all keys.   *)
(***************************************************************************)
EXTENDS ArmControl, TLAPS

\* The frame being sent bears the address of a motor: the zero address of the
\* fresh buffer is overwritten by the first call, and never comes back.
FrameAddressed == \A t \in Threads : at[t] # "idle" => frame_send.motor \in Motors

CanInv == CanTypeOK /\ FrameAddressed

TypeInv == TypeOK /\ FrameAddressed
-----------------------------------------------------------------------------
(***************************************************************************)
(* The records that the driver's buffers hold, field by field.             *)
(***************************************************************************)

LEMMA SendFrameFields ==
    ASSUME NEW f \in SendFrame
    PROVE  /\ f.motor \in Motors \cup {NoMotor} /\ f.cmd \in Cmds /\ f.args \in Args
           /\ \A m \in Motors : /\ [f EXCEPT !.motor = m] \in SendFrame
                                /\ [f EXCEPT !.motor = m].motor = m
           /\ \A c \in Cmds : /\ [f EXCEPT !.cmd = c] \in SendFrame
                              /\ [f EXCEPT !.cmd = c].motor = f.motor
           /\ \A a \in Args : /\ [f EXCEPT !.args = a] \in SendFrame
                              /\ [f EXCEPT !.args = a].motor = f.motor
BY SMT DEF SendFrame

LEMMA FrameFields ==
    ASSUME NEW f \in Frame
    PROVE  /\ f.motor \in Motors \cup {NoMotor} /\ f.cmd \in Cmds /\ f.body \in Body
           /\ \A m \in Motors, c \in Cmds :
                 [f EXCEPT !.motor = m, !.cmd = c] \in Frame
           /\ \A b \in Body : [f EXCEPT !.body = b] \in Frame
<1>1. /\ f.motor \in Motors \cup {NoMotor} /\ f.cmd \in Cmds /\ f.body \in Body
      /\ \A b \in Body : [f EXCEPT !.body = b] \in Frame
  BY SMT DEF Frame
<1>2. ASSUME NEW m \in Motors
      PROVE  [f EXCEPT !.motor = m] \in Frame
  BY SMT DEF Frame
<1>3. ASSUME NEW g \in Frame, NEW c \in Cmds
      PROVE  [g EXCEPT !.cmd = c] \in Frame
  BY SMT DEF Frame
<1>4. \A m \in Motors, c \in Cmds : [f EXCEPT !.motor = m, !.cmd = c] \in Frame
  BY <1>2, <1>3, Zenon
<1> QED
  BY <1>1, <1>4

LEMMA CallFields ==
    ASSUME NEW c \in Call
    PROVE  c.op \in Ops /\ c.motor \in Motors /\ c.args \in Args
BY SMT DEF Call

LEMMA ZeroFrameType == ZeroFrame \in Frame /\ ZeroBody \in Body
BY SMT DEF ZeroFrame, ZeroBody, Frame, Body, Cmds

LEMMA CommandOfType == \A op \in Ops : CommandOf(op) \in Cmds
BY SMT DEF Ops, Cmds, CommandOf
-----------------------------------------------------------------------------
(***************************************************************************)
(* The steps of a call keep the driver's state well typed.                 *)
(***************************************************************************)

LEMMA BeginKeepsType ==
    ASSUME NEW t \in Threads, NEW op \in Ops, NEW m \in Motors, NEW args \in Args,
           CanInv, Begin(t, op, m, args)
    PROVE  CanInv'
<1> USE DEF CanInv, CanTypeOK, FrameAddressed
<1>1. frame_send' \in SendFrame /\ frame_send'.motor = m
  BY SendFrameFields DEF Begin
<1>2. call' \in [Threads -> Call]
  <2>1. [op |-> op, motor |-> m, args |-> args] \in Call
    BY DEF Call
  <2> QED
    BY <2>1 DEF Begin
<1>3. at' \in [Threads -> Places]
  BY DEF Begin, Goto, Places
<1>4. fresh' \in [Motors -> BOOLEAN]
  BY Zenon DEF Begin
<1> QED
  BY <1>1, <1>2, <1>3, <1>4 DEF Begin, busVars

LEMMA MemoryStepKeepsType ==
    ASSUME NEW t \in Threads, CanInv, MemoryStep(t)
    PROVE  CanInv'
<1> USE DEF CanInv, CanTypeOK, FrameAddressed, Goto, busVars, buffers
<1>0. /\ call[t] \in Call /\ call[t].op \in Ops /\ call[t].motor \in Motors
      /\ call[t].args \in Args
  BY CallFields
<1>p. Places = Places \cup {"args", "write", "head", "reject", "return_null", "body",
                            "clear", "return_buf", "test", "idle", "copy"}
  BY DEF Places
<1>1. CASE SendCommand(t)
  BY <1>0, <1>1, <1>p, SendFrameFields, CommandOfType DEF SendCommand
<1>2. CASE SendArgs(t)
  BY <1>0, <1>2, <1>p, SendFrameFields DEF SendArgs
<1>3. CASE CheckFrame(t)
  BY <1>3, <1>p DEF CheckFrame
<1>4. CASE Reject(t)
  BY <1>4, <1>p, ZeroFrameType DEF Reject
<1>5. CASE FillHead(t)
  <2>1. receive_buf' \in Frame
    BY <1>0, <1>5, FrameFields DEF FillHead
  <2> QED
    BY <1>5, <1>p, <2>1 DEF FillHead
<1>6. CASE FillBody(t)
  <2>1. receive_buf' \in Frame
    BY <1>6, FrameFields DEF FillBody
  <2> QED
    BY <1>6, <1>p, <2>1 DEF FillBody
<1>7. CASE ClearFrame(t)
  BY <1>7, <1>p, ZeroFrameType DEF ClearFrame
<1>8. CASE StoreReply(t)
  BY <1>8, <1>p DEF StoreReply
<1>9. CASE TestReply(t)
  BY <1>9, <1>p DEF TestReply
<1>10. CASE CopyFromNull(t)
  BY <1>10 DEF CopyFromNull
<1>11. CASE AcceptReply(t)
  BY <1>0, <1>11, <1>p, FrameFields DEF AcceptReply
<1>12. CASE IgnoreReply(t)
  BY <1>12, <1>p DEF IgnoreReply
<1> QED
  BY MemoryStep(t), <1>1, <1>2, <1>3, <1>4, <1>5, <1>6, <1>7, <1>8, <1>9, <1>10,
     <1>11, <1>12 DEF MemoryStep

LEMMA ReadResult ==
    ASSUME NEW t, ReadSocket(t)
    PROVE  nbytes_recv' \in {-1, 0, 16}
<1>1. nbytes_recv' = 16 \/ nbytes_recv' = -1
  BY Zenon DEF ReadSocket
<1> QED
  BY <1>1, Zenon

LEMMA SystemCallKeepsType ==
    ASSUME NEW t \in Threads, CanInv, SystemCall(t)
    PROVE  CanInv'
<1>0. ReadSocket(t) => nbytes_recv' \in {-1, 0, 16}
  BY ReadResult
<1> USE DEF CanInv, CanTypeOK, FrameAddressed, Goto, busVars, buffers
<1>p. Places = Places \cup {"idle", "read", "check"}
  BY DEF Places
<1>1. CASE SendWrite(t)
  <2>1. frame_send.motor \in Motors
    BY <1>1 DEF SendWrite
  <2>2. [by |-> t, cmd |-> frame_send.cmd, args |-> frame_send.args] \in Request
    BY SendFrameFields DEF Request
  <2>3. wire' \in [Motors -> Seq(Request)]
    BY <1>1, <2>1, <2>2 DEF SendWrite
  <2> QED
    BY <1>1, <1>p, <2>3 DEF SendWrite
<1>2. CASE ReadSocket(t)
  <2>1. late' \in 0..MaxLate
    BY <1>2, CanBusAssumption, SMT DEF ReadSocket, CanBusAssumption
  <2>2. rxq' \in Seq(Frame) /\ frame_recv' \in Frame
    <3>1. rxq # <<>> => Head(rxq) \in Frame /\ Tail(rxq) \in Seq(Frame)
      BY SMT
    <3> QED
      BY <1>2, <3>1, Zenon DEF ReadSocket
  <2>3. nbytes_recv' \in {-1, 0, 16}
    BY <1>0, <1>2, Zenon
  <2>4. missed' \in Nat
    BY <1>2, SMT DEF ReadSocket
  <2> QED
    BY <1>2, <1>p, <2>1, <2>2, <2>3, <2>4 DEF ReadSocket
<1> QED
  BY SystemCall(t), <1>1, <1>2 DEF SystemCall

LEMMA BusKeepsType ==
    ASSUME NEW m \in Motors, CanInv, Answer(m) \/ Lose(m)
    PROVE  CanInv'
<1> USE DEF CanInv, CanTypeOK, FrameAddressed, buffers
<1>1. wire' \in [Motors -> Seq(Request)]
  <2>1. wire[m] \in Seq(Request) /\ wire[m] # <<>>
    BY DEF Answer, Lose
  <2>2. Tail(wire[m]) \in Seq(Request)
    BY <2>1
  <2> QED
    BY <2>2 DEF Answer, Lose
<1>2. CASE Answer(m)
  <2>1. Head(wire[m]) \in Request
    BY <1>2 DEF Answer
  <2>2. Head(wire[m]).cmd \in Cmds
    BY <2>1 DEF Request
  <2>3. \A c \in Cmds :
           [motor |-> m, cmd |-> c, body |-> [of |-> m, cmd |-> c]] \in Frame
    BY DEF Frame, Body
  <2> QED
    BY <1>1, <1>2, <2>2, <2>3 DEF Answer
<1>3. CASE Lose(m)
  BY <1>1, <1>3, CanBusAssumption DEF Lose, CanBusAssumption
<1> QED
  BY <1>2, <1>3
-----------------------------------------------------------------------------
(***************************************************************************)
(* Type correctness of the whole program.                                  *)
(***************************************************************************)

LEMMA InitTyped == Init => TypeInv
<1> SUFFICES ASSUME Init PROVE TypeInv
  OBVIOUS
<1>1. CanTypeOK
  <2>1. frame_send \in SendFrame
    BY DEF Init, CanInit, SendFrame, Cmds, Args
  <2>2. call \in [Threads -> Call] /\ at \in [Threads -> Places]
    <3>1. [op |-> "probe", motor |-> Shoulder, args |-> "zeros"] \in Call
      BY DEF Call, Ops, Args, Motors
    <3>2. "idle" \in Places
      BY DEF Places
    <3> QED
      BY <3>1, <3>2 DEF Init, CanInit
  <2>3. wire \in [Motors -> Seq(Request)] /\ rxq \in Seq(Frame)
    BY DEF Init, CanInit
  <2>4. late \in 0..MaxLate /\ lost \in 0..MaxLost /\ missed \in Nat
    BY CanBusAssumption DEF Init, CanInit, CanBusAssumption
  <2>5. can_reply \in BOOLEAN /\ fresh \in [Motors -> BOOLEAN]
    BY Zenon DEF Init, CanInit
  <2> QED
    BY <2>1, <2>2, <2>3, <2>4, <2>5, ZeroFrameType DEF Init, CanInit, CanTypeOK
<1>2. untyped \in Seq(Keys) /\ terminal \in Seq(Keys) /\ stdin \in Seq(Keys)
  BY ArmAssumption DEF Init, ArmAssumption
<1>3. flip \in BOOLEAN /\ cancelled \in BOOLEAN /\ can_open \in BOOLEAN
  BY Zenon DEF Init
<1>4. FrameAddressed
  BY DEF Init, CanInit, FrameAddressed
<1> QED
  BY <1>1, <1>2, <1>3, <1>4, ZeroFrameType
     DEF Init, CanInit, TypeInv, TypeOK, ControlPlaces, KeyPlaces

LEMMA CanUnchanged == CanInv /\ UNCHANGED canVars => CanInv'
BY DEF CanInv, CanTypeOK, FrameAddressed, canVars, buffers, busVars

\* The steps that leave the driver alone.
LEMMA ControlKeepsType ==
    ASSUME TypeInv, CanInv',
           \/ ControlLock \/ ControlReadElbow \/ ControlUnlock \/ ControlSignal
           \/ ControlReadShoulder \/ ControlGetElbow \/ ControlGetShoulder
           \/ ControlCancelled \/ ControlCall
    PROVE  TypeInv'
<1> USE DEF TypeInv, TypeOK, CanInv, Acquire, Release, inputVars
<1>p. {"lock", "read_elbow", "unlock", "signal", "read_shoulder", "get_elbow",
       "get_shoulder", "dead"} \subseteq ControlPlaces /\ "woken" \in KeyPlaces
  BY DEF ControlPlaces, KeyPlaces
<1>1. CASE ControlLock
  <2>1. mutex' \in Threads \cup {NoThread}
    BY <1>1, Zenon DEF ControlLock, Threads
  <2> QED
    BY <1>1, <1>p, <2>1 DEF ControlLock
<1>2. CASE ControlReadElbow
  BY <1>2, <1>p DEF ControlReadElbow
<1>3. CASE ControlUnlock
  BY <1>3, <1>p DEF ControlUnlock
<1>4. CASE ControlSignal
  BY <1>4, <1>p DEF ControlSignal
<1>5. CASE ControlReadShoulder
  BY <1>5, <1>p DEF ControlReadShoulder
<1>6. CASE ControlGetElbow
  <2>1. shown' \in [Motors -> Body]
    BY <1>6 DEF ControlGetElbow, CanTypeOK
  <2> QED
    BY <1>6, <1>p, <2>1 DEF ControlGetElbow
<1>7. CASE ControlGetShoulder
  <2>1. shown' \in [Motors -> Body]
    BY <1>7 DEF ControlGetShoulder, CanTypeOK
  <2> QED
    BY <1>7, <1>p, <2>1 DEF ControlGetShoulder
<1>8. CASE ControlCancelled
  BY <1>8, <1>p DEF ControlCancelled
<1>9. CASE ControlCall
  BY <1>9 DEF ControlCall, armVars
<1> QED
  BY <1>1, <1>2, <1>3, <1>4, <1>5, <1>6, <1>7, <1>8, <1>9

\* What is typed, and what getchar leaves of it, are keys.
InputTyped == untyped \in Seq(Keys) /\ terminal \in Seq(Keys) /\ stdin \in Seq(Keys)

LEMMA InputKeepsType ==
    ASSUME TypeInv,
           \/ KeyLock \/ KeyWait \/ SpuriousWakeup \/ KeyRelock \/ KeyElbow
           \/ KeyShoulder \/ KeyUnlock \/ KeyCall
           \/ KeyPressed \/ Operator
    PROVE  InputTyped'
<1>0. InputTyped
  BY DEF TypeInv, TypeOK, InputTyped
<1>1. \A s \in Seq(Keys) : s # <<>> => Head(s) \in Keys /\ Tail(s) \in Seq(Keys)
  OBVIOUS
<1>2. CASE Operator
  BY <1>0, <1>1, <1>2 DEF Operator, InputTyped
<1>3. ASSUME NEW k \in Keys, Getchar(k) PROVE InputTyped'
  BY <1>0, <1>1, <1>3 DEF Getchar, InputTyped
<1>4. CASE KeyPressed
  BY <1>3, <1>4 DEF KeyPressed, PressMove, PressZero, PressEscape, PressOther, Keys
<1>5. CASE UNCHANGED inputVars
  BY <1>0, <1>5 DEF inputVars, InputTyped
<1> QED
  BY <1>2, <1>4, <1>5
     DEF KeyLock, KeyWait, SpuriousWakeup, KeyRelock, KeyElbow, KeyShoulder, KeyUnlock,
         KeyCall, armVars

LEMMA KeyKeepsType ==
    ASSUME TypeInv, CanInv',
           \/ KeyLock \/ KeyWait \/ SpuriousWakeup \/ KeyRelock \/ KeyElbow
           \/ KeyShoulder \/ KeyUnlock \/ KeyCall
           \/ KeyPressed \/ Operator
    PROVE  TypeInv'
<1> USE DEF TypeInv, TypeOK, CanInv, Acquire, Release
<1>i. InputTyped'
  BY InputKeepsType
<1> USE DEF InputTyped, inputVars
<1>p. {"poll", "lock", "cond_wait", "waiting", "woken", "elbow", "shoulder", "unlock",
       "off_elbow"} \subseteq KeyPlaces
  BY DEF KeyPlaces, Quitting
<1>1. CASE KeyLock
  <2>1. mutex' \in Threads \cup {NoThread}
    BY <1>1, Zenon DEF KeyLock, Threads
  <2> QED
    BY <1>1, <1>p, <2>1 DEF KeyLock
<1>2. CASE KeyWait
  BY <1>2, <1>p DEF KeyWait
<1>3. CASE SpuriousWakeup
  BY <1>3, <1>p DEF SpuriousWakeup
<1>4. CASE KeyRelock
  <2>1. mutex' \in Threads \cup {NoThread}
    BY <1>4, Zenon DEF KeyRelock, Threads
  <2> QED
    BY <1>4, <1>p, <2>1 DEF KeyRelock
<1>5. CASE KeyElbow
  BY <1>5, <1>p DEF KeyElbow
<1>6. CASE KeyShoulder
  BY <1>6, <1>p DEF KeyShoulder
<1>7. CASE KeyUnlock
  BY <1>7, <1>p DEF KeyUnlock
<1>8. CASE KeyCall
  BY <1>8 DEF KeyCall, armVars
<1>9. CASE PressMove
  <2>1. flip' \in BOOLEAN
    BY <1>9, Zenon DEF PressMove
  <2> QED
    BY <1>9, <1>i, <1>p, <2>1 DEF PressMove
<1>10. CASE PressZero
  BY <1>10, <1>i, <1>p DEF PressZero
<1>11. CASE PressEscape \/ PressOther
  BY <1>11, <1>i, <1>p DEF PressEscape, PressOther
<1>12. CASE Operator
  BY <1>12, <1>i DEF Operator
<1> QED
  BY <1>1, <1>2, <1>3, <1>4, <1>5, <1>6, <1>7, <1>8, <1>9, <1>10, <1>11, <1>12
     DEF KeyPressed

LEMMA QuitKeepsType ==
    ASSUME TypeInv, CanInv',
           \/ QuitElbow \/ QuitShoulder \/ CancelIMU \/ CancelControl \/ QuitProbe
           \/ CloseBus \/ Exit
    PROVE  TypeInv'
<1> USE DEF TypeInv, TypeOK, CanInv, inputVars
<1>p. Quitting \subseteq KeyPlaces
  BY DEF KeyPlaces
<1>1. CASE QuitElbow
  BY <1>1, <1>p DEF QuitElbow, Quitting
<1>2. CASE QuitShoulder
  BY <1>2, <1>p DEF QuitShoulder, Quitting
<1>3. CASE CancelIMU
  BY <1>3, <1>p DEF CancelIMU, Quitting
<1>4. CASE CancelControl
  BY <1>4, <1>p DEF CancelControl, Quitting
<1>5. CASE QuitProbe
  BY <1>5, <1>p DEF QuitProbe, Quitting
<1>6. CASE CloseBus
  BY <1>6, <1>p DEF CloseBus, Quitting
<1>7. CASE Exit
  BY <1>7 DEF Exit, armVars
<1> QED
  BY <1>1, <1>2, <1>3, <1>4, <1>5, <1>6, <1>7

LEMMA CanStep ==
    ASSUME TypeInv, [Next]_vars
    PROVE  CanInv'
<1> USE DEF TypeInv, TypeOK
<1>0. CanInv
  BY DEF CanInv
<1>1. CASE UNCHANGED canVars
  BY <1>0, <1>1, CanUnchanged
<1>2. ASSUME NEW t \in Threads, NEW op \in Ops, NEW m \in Motors, NEW args \in Args,
             Begin(t, op, m, args)
      PROVE  CanInv'
  BY <1>0, <1>2, BeginKeepsType
<1>3. ASSUME NEW t \in Threads, MemoryStep(t) \/ SystemCall(t)
      PROVE  CanInv'
  BY <1>0, <1>3, MemoryStepKeepsType, SystemCallKeepsType
<1>4. CASE UNCHANGED <<buffers, position, call, at, busVars, fresh>>
           /\ process' \in {"running", "crashed", "exited"}
  BY <1>0, <1>4 DEF CanInv, CanTypeOK, FrameAddressed, buffers, busVars
<1>5. CASE ControlReadElbow \/ ControlReadShoulder \/ QuitElbow \/ QuitShoulder
           \/ QuitProbe
  BY <1>2, <1>5 DEF ControlReadElbow, ControlReadShoulder, QuitElbow, QuitShoulder,
                    QuitProbe, Threads, Motors, Ops, Args
<1>6. CASE KeyElbow \/ KeyShoulder
  <2>1. JobArgs \in Args /\ job \in Ops
    BY DEF JobArgs, Args, Ops
  <2> QED
    BY <1>2, <1>6, <2>1 DEF KeyElbow, KeyShoulder, Threads, Motors
<1>7. CASE ControlCall \/ KeyCall
  BY <1>3, <1>7 DEF ControlCall, KeyCall, Threads
<1>8. CASE CancelIMU \/ Exit
  <2>1. UNCHANGED <<buffers, position, call, at, busVars, fresh>>
    BY <1>8 DEF CancelIMU, Exit
  <2>2. process' \in {"running", "crashed", "exited"}
    BY <1>8 DEF CancelIMU, Exit, CanTypeOK
  <2> QED
    BY <1>4, <2>1, <2>2
<1>9. CASE \E m \in Motors : Bus(m)
  BY <1>0, <1>9, BusKeepsType DEF Bus
<1>10. CASE ControlLock \/ ControlUnlock \/ ControlSignal \/ ControlGetElbow
            \/ ControlGetShoulder \/ ControlCancelled
  BY <1>1, <1>10 DEF ControlLock, ControlUnlock, ControlSignal, ControlGetElbow,
                     ControlGetShoulder, ControlCancelled
<1>11. CASE KeyLock \/ KeyWait \/ SpuriousWakeup \/ KeyRelock \/ KeyUnlock \/ Operator \/ KeyPressed
  BY <1>1, <1>11 DEF KeyLock, KeyWait, SpuriousWakeup, KeyRelock, KeyUnlock,
                     Operator, PressMove, PressZero, PressEscape, PressOther, KeyPressed
<1>12. CASE CancelControl \/ CloseBus
  BY <1>1, <1>12 DEF CancelControl, CloseBus
<1>13. CASE UNCHANGED vars
  BY <1>1, <1>13 DEF vars
<1> QED
  BY <1>5, <1>6, <1>7, <1>8, <1>9, <1>10, <1>11, <1>12, <1>13
     DEF Next, Running, Ended, ControlStep, KeyStep

LEMMA TypeStep == TypeInv /\ [Next]_vars => TypeInv'
<1> SUFFICES ASSUME TypeInv, [Next]_vars PROVE TypeInv'
  OBVIOUS
<1>0. CanInv'
  BY CanStep
<1>1. CASE ControlLock \/ ControlStep
  BY <1>0, <1>1, ControlKeepsType DEF ControlStep
<1>2. CASE KeyLock \/ KeyRelock \/ SpuriousWakeup \/ KeyStep \/ Operator \/ KeyPressed
  BY <1>0, <1>2, KeyKeepsType, QuitKeepsType DEF KeyStep
<1>3. CASE (\E m \in Motors : Bus(m)) \/ UNCHANGED vars
  <2>1. UNCHANGED armVars
    BY <1>3 DEF Bus, vars
  <2> QED
    BY <1>0, <2>1 DEF TypeInv, TypeOK, CanInv, armVars, inputVars
<1> QED
  BY <1>1, <1>2, <1>3 DEF Next, Running, Ended

\* Every variable stays in its type: in particular every frame written is for
\* one of the two motors, and no more late or lost answers are counted than
\* the bounds allow.
THEOREM TypeCorrect == Spec => []TypeOK
<1>1. TypeInv => TypeOK
  BY DEF TypeInv
<1> QED
  BY <1>1, InitTyped, TypeStep, PTL DEF Spec
-----------------------------------------------------------------------------
(***************************************************************************)
(* The mutex.  Holding it is not visible in the places of the threads       *)
(* alone: the invariant says which places its owner may be in.             *)
(***************************************************************************)
MutexInv ==
    /\ ctl \in {"read_elbow", "unlock"} => mutex = Control
    /\ key \in {"cond_wait", "elbow", "shoulder", "unlock"} => mutex = Keyboard

LEMMA MutexStep == MutexInv /\ [Next]_vars => MutexInv'
<1> SUFFICES ASSUME MutexInv, [Next]_vars PROVE MutexInv'
  OBVIOUS
<1> USE DEF MutexInv, Acquire, Release
<1>k. Control # Keyboard /\ NoThread # Control /\ NoThread # Keyboard
  BY CanBusAssumption, ArmAssumption DEF CanBusAssumption, ArmAssumption
<1>1. CASE ControlLock \/ ControlReadElbow \/ ControlUnlock \/ ControlSignal
  BY <1>1, <1>k DEF ControlLock, ControlReadElbow, ControlUnlock, ControlSignal
<1>2. CASE ControlReadShoulder \/ ControlGetElbow \/ ControlGetShoulder
           \/ ControlCancelled
  BY <1>2 DEF ControlReadShoulder, ControlGetElbow, ControlGetShoulder,
              ControlCancelled
<1>3. CASE ControlCall \/ KeyCall \/ (\E m \in Motors : Bus(m)) \/ UNCHANGED vars
           \/ Exit
  BY <1>3 DEF ControlCall, KeyCall, Bus, vars, armVars, Exit
<1>4. CASE KeyLock \/ KeyWait \/ SpuriousWakeup \/ KeyRelock
  BY <1>4, <1>k DEF KeyLock, KeyWait, SpuriousWakeup, KeyRelock
<1>5. CASE KeyElbow \/ KeyShoulder \/ KeyUnlock
  BY <1>5, <1>k DEF KeyElbow, KeyShoulder, KeyUnlock
<1>6. CASE Operator \/ KeyPressed
  BY <1>6 DEF Operator, PressMove, PressZero, PressEscape, PressOther, KeyPressed
<1>7. CASE QuitElbow \/ QuitShoulder \/ CancelIMU \/ CancelControl \/ QuitProbe
           \/ CloseBus
  BY <1>7 DEF QuitElbow, QuitShoulder, CancelIMU, CancelControl, QuitProbe, CloseBus
<1> QED
  BY <1>1, <1>2, <1>3, <1>4, <1>5, <1>6, <1>7
     DEF Next, Running, Ended, ControlStep, KeyStep

\* A key's commands and the elbow's read never overlap, however the wait ended
\* and whoever got the mutex first; a thread cancelled inside its section keeps
\* the others out for ever.
THEOREM Exclusion == Spec => []CommandsExcludeElbowRead
<1>1. Init => MutexInv
  BY DEF Init, MutexInv
<1>2. MutexInv => CommandsExcludeElbowRead
  BY CanBusAssumption DEF MutexInv, CommandsExcludeElbowRead, ElbowReadSection,
                          CommandSection, CanBusAssumption
<1> QED
  BY <1>1, <1>2, MutexStep, PTL DEF Spec
=============================================================================
