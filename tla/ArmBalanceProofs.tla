-------------------------- MODULE ArmBalanceProofs --------------------------
(***************************************************************************)
(* The balance of frames sent and frames read, for all values of the       *)
(* bounds and all keys.                                                    *)
(***************************************************************************)
EXTENDS ArmShutdownProofs

Counts ==
    /\ OnWire(Elbow) \in Nat /\ OnWire(Shoulder) \in Nat /\ Len(rxq) \in Nat
    /\ InFlight \in Nat /\ lost \in Nat /\ missed \in Nat
    /\ Owed \in Nat /\ Unclaimed \in Nat

LEMMA CountsAreNumbers == TypeInv => Counts
<1> SUFFICES ASSUME TypeInv PROVE Counts
  OBVIOUS
<1>1. lost \in Nat
  BY CanBusAssumption DEF TypeInv, TypeOK, CanTypeOK, CanBusAssumption
<1>2. OnWire(Elbow) \in Nat /\ OnWire(Shoulder) \in Nat /\ Len(rxq) \in Nat
  BY DEF TypeInv, TypeOK, CanTypeOK, Motors, OnWire
<1>3. Owed \in Nat
  BY DEF Owed
<1>4. Unclaimed \in Nat
  BY DEF Unclaimed
<1>5. missed \in Nat
  BY DEF TypeInv, TypeOK, CanTypeOK
<1> QED
  BY <1>1, <1>2, <1>3, <1>4, <1>5 DEF Counts, InFlight

LEMMA MemoryStepsMoveNoFrame ==
    ASSUME NEW t \in Threads, TypeInv, MemoryStep(t)
    PROVE  /\ UNCHANGED busVars
           /\ at[t] \notin {"idle", "read"} /\ at'[t] # "read"
           /\ at[t] # "write" /\ (at'[t] = "write" => at[t] = "args")
<1> USE DEF TypeInv, TypeOK, CanTypeOK, Goto
<1>1. CASE SendCommand(t) \/ SendArgs(t) \/ CheckFrame(t) \/ Reject(t) \/ FillHead(t)
  BY <1>1 DEF SendCommand, SendArgs, CheckFrame, Reject, FillHead
<1>2. CASE FillBody(t) \/ ClearFrame(t) \/ StoreReply(t) \/ TestReply(t)
  BY <1>2 DEF FillBody, ClearFrame, StoreReply, TestReply
<1>3. CASE CopyFromNull(t) \/ AcceptReply(t) \/ IgnoreReply(t)
  BY <1>3 DEF CopyFromNull, AcceptReply, IgnoreReply
<1> QED
  BY <1>1, <1>2, <1>3 DEF MemoryStep

LEMMA WriteAddsOne ==
    ASSUME NEW t \in Threads, TypeInv, SendWrite(t)
    PROVE  /\ InFlight' = InFlight + 1 /\ UNCHANGED <<lost, missed>>
           /\ at[t] = "write"
           /\ at'[t] = IF call[t].op = "probe" THEN "idle" ELSE "read"
<1>1. frame_send.motor \in Motors /\ Elbow # Shoulder /\ Motors = {Elbow, Shoulder}
  BY CanBusAssumption DEF TypeInv, FrameAddressed, Motors, CanBusAssumption, SendWrite
<1>2. /\ OnWire(frame_send.motor)' = OnWire(frame_send.motor) + 1
      /\ \A m \in Motors \ {frame_send.motor} : OnWire(m)' = OnWire(m)
  <2>1. wire[frame_send.motor] \in Seq(Request) /\ wire \in [Motors -> Seq(Request)]
    BY <1>1 DEF TypeInv, TypeOK, CanTypeOK
  <2>2. PICK r : wire' = [wire EXCEPT ![frame_send.motor] = Append(@, r)]
    BY DEF SendWrite
  <2>3. Len(Append(wire[frame_send.motor], r)) = Len(wire[frame_send.motor]) + 1
    BY <2>1
  <2>4. wire'[frame_send.motor] = Append(wire[frame_send.motor], r)
    BY <1>1, <2>1, <2>2
  <2>5. frame_send' = frame_send
    BY DEF SendWrite, buffers
  <2> QED
    BY <1>1, <2>1, <2>2, <2>3, <2>4, <2>5 DEF OnWire
<1>3. UNCHANGED <<rxq, lost, missed, frame_send>>
  BY DEF SendWrite, buffers
<1>4. InFlight' = InFlight + 1
  <2> Counts
    BY CountsAreNumbers
  <2>1. CASE frame_send.motor = Elbow
    BY <1>1, <1>2, <1>3, <2>1 DEF Counts, InFlight
  <2>2. CASE frame_send.motor = Shoulder
    BY <1>1, <1>2, <1>3, <2>2 DEF Counts, InFlight
  <2> QED
    BY <1>1, <2>1, <2>2
<1> QED
  BY <1>3, <1>4 DEF SendWrite, Goto, TypeInv, TypeOK, CanTypeOK

LEMMA ReadTakesOneOrMisses ==
    ASSUME NEW t \in Threads, TypeInv, ReadSocket(t)
    PROVE  /\ InFlight' + missed + 1 = InFlight + missed' /\ UNCHANGED lost
           /\ at[t] = "read" /\ at'[t] = "check"
<1>1. at[t] = "read" /\ at'[t] = "check"
  BY DEF ReadSocket, Goto, TypeInv, TypeOK, CanTypeOK
<1>2. UNCHANGED <<wire, lost>> /\ OnWire(Elbow)' = OnWire(Elbow)
      /\ OnWire(Shoulder)' = OnWire(Shoulder)
  BY DEF ReadSocket, OnWire
<1>3. Counts
  BY CountsAreNumbers
<1>4. CASE rxq # <<>> /\ rxq' = Tail(rxq) /\ missed' = missed
  <2>1. Len(rxq') = Len(rxq) - 1
    BY <1>4 DEF TypeInv, TypeOK, CanTypeOK
  <2> QED
    BY <1>1, <1>2, <1>3, <1>4, <2>1 DEF InFlight, Counts
<1>5. CASE rxq' = rxq /\ missed' = missed + 1
  BY <1>1, <1>2, <1>3, <1>5 DEF InFlight, Counts
<1> QED
  BY <1>4, <1>5 DEF ReadSocket

LEMMA BusMovesOrLoses ==
    ASSUME NEW m \in Motors, TypeInv, Bus(m)
    PROVE  InFlight' + lost' = InFlight + lost /\ missed' = missed
<1>1. Elbow # Shoulder /\ Motors = {Elbow, Shoulder}
  BY CanBusAssumption DEF CanBusAssumption, Motors
<1>2. OnWire(m)' = OnWire(m) - 1 /\ \A n \in Motors \ {m} : OnWire(n)' = OnWire(n)
  <2>1. wire[m] \in Seq(Request) /\ wire[m] # <<>> /\ wire \in [Motors -> Seq(Request)]
    BY DEF Bus, Answer, Lose, TypeInv, TypeOK, CanTypeOK
  <2>2. wire' = [wire EXCEPT ![m] = Tail(@)]
    BY DEF Bus, Answer, Lose
  <2>3. wire'[m] = Tail(wire[m]) /\ Len(Tail(wire[m])) = Len(wire[m]) - 1
    BY <2>1, <2>2
  <2> QED
    BY <2>1, <2>2, <2>3 DEF OnWire
<1>3. Counts
  BY CountsAreNumbers
<1>4. \/ Len(rxq') = Len(rxq) + 1 /\ UNCHANGED <<lost, missed>>
      \/ rxq' = rxq /\ lost' = lost + 1 /\ missed' = missed
  BY DEF Bus, Answer, Lose, TypeInv, TypeOK, CanTypeOK
<1>5. CASE m = Elbow
  BY <1>1, <1>2, <1>3, <1>4, <1>5 DEF InFlight, Counts
<1>6. CASE m = Shoulder
  BY <1>1, <1>2, <1>3, <1>4, <1>6 DEF InFlight, Counts
<1> QED
  BY <1>1, <1>5, <1>6

LEMMA BalanceStep == IInv /\ RepliesBalance /\ [Next]_vars => RepliesBalance'
<1> SUFFICES ASSUME IInv, RepliesBalance, [Next]_vars PROVE RepliesBalance'
  OBVIOUS
<1>0. TypeInv /\ CallInv /\ TypeInv' /\ CallInv'
  BY IInvStep DEF IInv
<1>c. /\ InFlight \in Nat /\ lost \in Nat /\ missed \in Nat /\ Owed \in Nat
      /\ Unclaimed \in Nat
      /\ InFlight' \in Nat /\ lost' \in Nat /\ missed' \in Nat /\ Owed' \in Nat
      /\ Unclaimed' \in Nat
  <2>1. Counts /\ Counts'
    BY <1>0, CountsAreNumbers, PTL
  <2> QED
    BY <2>1 DEF Counts
<1>b. InFlight + lost = Owed + missed + Unclaimed
  BY DEF RepliesBalance
<1> SUFFICES InFlight' + lost' = Owed' + missed' + Unclaimed'
  BY DEF RepliesBalance
<1>t. Threads = {Control, Keyboard} /\ Control # Keyboard
  BY CanBusAssumption DEF Threads, CanBusAssumption
<1>m. /\ Motors = {Elbow, Shoulder}
      /\ {"read_position", "shutdown_cmd", "probe"} \subseteq Ops /\ "zeros" \in Args
      /\ job \in Ops /\ JobArgs \in Args
  BY <1>0 DEF Motors, Ops, Args, TypeInv, TypeOK, JobArgs
\* A call that begins moves no frame and owes none yet.
<1>g. ASSUME NEW t \in Threads, NEW op \in Ops, NEW m \in Motors, NEW args \in Args,
             Begin(t, op, m, args)
      PROVE  UNCHANGED <<Owed, InFlight, lost, missed>>
  <2>1. UNCHANGED <<InFlight, lost, missed>>
    BY <1>g DEF Begin, busVars, InFlight, OnWire
  <2> QED
    BY <1>0, <1>t, <1>g, <2>1, BeginIsOwn DEF Owed
<1>s. CASE UNCHANGED <<Owed, InFlight, lost, missed, Unclaimed>>
  BY <1>b, <1>s
<1>1. CASE ControlReadElbow \/ ControlReadShoulder
  <2>1. at'[Keyboard] = at[Keyboard] /\ key' = key
    BY <1>0, <1>t, <1>m, <1>1, BeginIsOwn DEF ControlReadElbow, ControlReadShoulder
  <2>2. Unclaimed' = Unclaimed
    BY <2>1 DEF Unclaimed, Idle
  <2> QED
    BY <1>t, <1>m, <1>g, <1>s, <1>1, <2>2 DEF ControlReadElbow, ControlReadShoulder
<1>2. CASE KeyElbow \/ KeyShoulder \/ QuitElbow \/ QuitShoulder
  <2>1. Unclaimed' = Unclaimed
    BY <1>2 DEF Unclaimed, KeyElbow, KeyShoulder, QuitElbow, QuitShoulder
  <2> QED
    BY <1>t, <1>m, <1>g, <1>s, <1>2, <2>1
       DEF KeyElbow, KeyShoulder, QuitElbow, QuitShoulder
<1>3. CASE QuitProbe
  <2>1. at'[Keyboard] = "cmd"
    BY <1>0, <1>t, <1>m, <1>3, BeginIsOwn DEF QuitProbe
  <2>2. Unclaimed' = Unclaimed
    BY <1>3, <2>1 DEF Unclaimed, Idle, QuitProbe
  <2> QED
    BY <1>t, <1>m, <1>g, <1>s, <1>3, <2>2 DEF QuitProbe
<1>4. CASE ControlCall
  <2>1. at'[Keyboard] = at[Keyboard] /\ key' = key
    BY <1>0, <1>t, <1>4, CallStepIsOwn DEF ControlCall, armVars
  <2>2. Unclaimed' = Unclaimed
    BY <2>1 DEF Unclaimed, Idle
  <2>3. CASE MemoryStep(Control)
    <3>1. UNCHANGED <<Owed, InFlight, lost, missed>>
      BY <1>0, <1>t, <2>1, <2>3, MemoryStepsMoveNoFrame DEF Owed, InFlight, OnWire, busVars
    <3> QED
      BY <1>s, <2>2, <3>1
  <2>4. CASE SendWrite(Control)
    <3>1. Owed' = Owed + 1
      BY <1>0, <1>t, <2>1, <2>4, WriteAddsOne DEF Owed, CallInv
    <3>2. InFlight' = InFlight + 1 /\ UNCHANGED <<lost, missed>>
      BY <1>0, <1>t, <2>4, WriteAddsOne
    <3> QED
      BY <1>b, <1>c, <2>2, <3>1, <3>2
  <2>5. CASE ReadSocket(Control)
    <3>1. Owed' = Owed - 1
      BY <1>0, <1>t, <2>1, <2>5, ReadTakesOneOrMisses DEF Owed
    <3>2. InFlight' + missed + 1 = InFlight + missed' /\ UNCHANGED lost
      BY <1>0, <1>t, <2>5, ReadTakesOneOrMisses
    <3> QED
      BY <1>b, <1>c, <2>2, <3>1, <3>2
  <2> QED
    BY <1>4, <2>3, <2>4, <2>5 DEF ControlCall, SystemCall
<1>5. CASE KeyCall
  <2>1. at'[Control] = at[Control] /\ key' = key /\ at[Keyboard] # "idle"
    BY <1>0, <1>t, <1>5, CallStepIsOwn DEF KeyCall, armVars
  <2>2. key # "exit" /\ (call[Keyboard].op = "probe" <=> key = "close")
    BY <1>0, <2>1 DEF CallInv
  <2>3. CASE MemoryStep(Keyboard)
    <3>1. UNCHANGED <<Owed, InFlight, lost, missed>>
      BY <1>0, <1>t, <2>1, <2>3, MemoryStepsMoveNoFrame DEF Owed, InFlight, OnWire, busVars
    <3>2. at'[Keyboard] = "idle" => key # "close"
      BY <1>0, <1>t, <2>1, <2>2, <2>3, ProbeOnlySends, MemoryStepsMoveNoFrame
         DEF CallInv
    <3> QED
      BY <1>s, <2>1, <2>2, <3>1, <3>2 DEF Unclaimed, Idle
  <2>4. CASE SendWrite(Keyboard)
    <3>1. InFlight' = InFlight + 1 /\ UNCHANGED <<lost, missed>> /\ at[Keyboard] = "write"
          /\ at'[Keyboard] = IF key = "close" THEN "idle" ELSE "read"
      BY <1>0, <1>t, <2>2, <2>4, WriteAddsOne
    <3>2. \/ Owed' = Owed /\ Unclaimed' = Unclaimed + 1
          \/ Owed' = Owed + 1 /\ Unclaimed' = Unclaimed
      BY <1>t, <2>1, <2>2, <3>1 DEF Owed, Unclaimed, Idle
    <3>3. InFlight' = InFlight + 1 /\ lost' = lost /\ missed' = missed
      BY <3>1
    <3>4. CASE Owed' = Owed /\ Unclaimed' = Unclaimed + 1
      BY <1>b, <1>c, <3>3, <3>4
    <3>5. CASE Owed' = Owed + 1 /\ Unclaimed' = Unclaimed
      BY <1>b, <1>c, <3>3, <3>5
    <3> QED
      BY <3>2, <3>4, <3>5
  <2>5. CASE ReadSocket(Keyboard)
    <3>1. Owed' = Owed - 1 /\ Unclaimed' = Unclaimed
      BY <1>0, <1>t, <2>1, <2>2, <2>5, ReadTakesOneOrMisses DEF Owed, Unclaimed, Idle
    <3>2. InFlight' + missed + 1 = InFlight + missed' /\ UNCHANGED lost
      BY <1>0, <1>t, <2>5, ReadTakesOneOrMisses
    <3> QED
      BY <1>b, <1>c, <3>1, <3>2
  <2> QED
    BY <1>5, <2>3, <2>4, <2>5 DEF KeyCall, SystemCall
<1>6. CASE \E m \in Motors : Bus(m)
  <2>1. PICK m \in Motors : Bus(m)
    BY <1>6
  <2>2. UNCHANGED <<Owed, Unclaimed>>
    BY <2>1, BusOutsideCalls DEF Owed, Unclaimed, Idle, armVars
  <2>3. InFlight' + lost' = InFlight + lost /\ missed' = missed
    BY <1>0, <2>1, BusMovesOrLoses
  <2> QED
    BY <1>b, <1>c, <2>2, <2>3
<1>7. CASE \/ ControlLock \/ ControlUnlock \/ ControlSignal \/ ControlGetElbow
           \/ ControlGetShoulder \/ ControlCancelled
           \/ KeyLock \/ KeyWait \/ SpuriousWakeup \/ KeyRelock \/ KeyUnlock
           \/ Operator \/ KeyPressed \/ CancelIMU \/ CancelControl \/ CloseBus \/ Exit
           \/ UNCHANGED vars
  <2>1. UNCHANGED <<at, Owed, InFlight, lost, missed>>
    BY <1>7, OutsideCalls DEF Owed, InFlight, OnWire, busVars
  <2>2. CASE key' = key \/ (key # "close" /\ key # "exit" /\ key' # "close" /\ key' # "exit")
    BY <1>s, <2>1, <2>2 DEF Unclaimed, Idle
  <2>3. CASE CloseBus
    BY <1>s, <2>1, <2>3 DEF CloseBus, Unclaimed, Idle
  <2> QED
    BY <1>7, <2>2, <2>3
       DEF ControlLock, ControlUnlock, ControlSignal, ControlGetElbow,
           ControlGetShoulder, ControlCancelled, KeyLock, KeyWait, SpuriousWakeup,
           KeyRelock, KeyUnlock, Operator, PressMove, PressZero, PressEscape, PressOther, KeyPressed,
           CancelIMU, CancelControl, Exit, armVars, vars
<1> QED
  BY <1>1, <1>2, <1>3, <1>4, <1>5, <1>6, <1>7
     DEF Next, Running, Ended, ControlStep, KeyStep

\* Whatever the interleaving, late answers and losses: frames sent and frames
\* read stay in balance, so that what a receive misses is never made up for.
THEOREM Balance == Spec => []RepliesBalance
<1>1. Init => RepliesBalance
  BY DEF Init, CanInit, RepliesBalance, InFlight, OnWire, Owed, Unclaimed,
         Motors, Threads
<1> QED
  BY <1>1, BalanceStep, IInvHolds, PTL DEF Spec
=============================================================================
