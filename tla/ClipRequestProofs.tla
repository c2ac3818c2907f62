--------------------------- MODULE ClipRequestProofs ---------------------------
(***************************************************************************)
(* Theorems about AvatarSession, for any number of connections and calls,  *)
(* and about ClipRequest, the program that is composed with it, for an     *)
(* answer of any length.                                                   *)
(***************************************************************************)
EXTENDS ClipRequest, SequenceTheorems, TLAPS

\* start() has a socket of its own at these points.
DialledPCs == StartPCs \ {"st_dial"}
Dialled    == pc[User] \in DialledPCs => dials \in Sockets

TypeInv == TypeOK /\ Dialled

LEMMA ProcFacts ==
    /\ User \in Procs /\ nil \in Nat /\ nil \notin Sockets
    /\ Loops = Procs \ {User} /\ Sockets = Loops
    /\ \A c \in 0..MaxDials : c # nil => c \in Sockets
    /\ nil \in 0..MaxDials
BY BoundsAssumption DEF User, nil, Procs, Loops, Sockets

--------------------------------------------------------------------------------
(* A move of one process keeps the types of the control state when the label  *)
(* it moves to is one of its own and finds what it needs.                     *)

LEMMA GotoType ==
    ASSUME TypeInv, NEW p \in Procs, NEW to \in PcOf(p), Goto(p, to),
           panic' = panic, dials' = dials,
           \A q \in Procs : mine'[q] = mine[q] \/ mine'[q] \in Sockets,
           to \in HoldingPCs => mine'[p] \in Sockets,
           p = User /\ to \in DialledPCs => dials \in Sockets
    PROVE  PcType' /\ Dialled'
BY ProcFacts DEF TypeInv, TypeOK, PcType, Dialled, PcOf, Goto

LEMMA MoveType ==
    ASSUME TypeInv, NEW p \in Procs, NEW from, NEW to \in PcOf(p), Move(p, from, to),
           to \in HoldingPCs => mine[p] \in Sockets,
           p = User /\ to \in DialledPCs => dials \in Sockets
    PROVE  TypeInv'
<1>1. PcType' /\ Dialled'
  BY GotoType DEF Move, Ghosts
<1>2. DataType'
  BY DEF TypeInv, TypeOK, DataType, Move, SocketState, Ghosts
<1> QED
  BY <1>1, <1>2 DEF TypeInv, TypeOK

LEMMA ClearType ==
    ASSUME TypeInv, NEW p \in Procs, NEW from, NEW to \in PcOf(p), ClearConn(p, from, to),
           to \notin HoldingPCs, to \notin DialledPCs
    PROVE  TypeInv'
<1>1. PcType' /\ Dialled'
  BY GotoType DEF ClearConn, Ghosts
<1>2. DataType'
  BY ProcFacts DEF TypeInv, TypeOK, DataType, ClearConn, SocketState, Ghosts
<1> QED
  BY <1>1, <1>2 DEF TypeInv, TypeOK

LEMMA PanicType ==
    ASSUME TypeInv, NEW p \in Procs, Panics(p)
    PROVE  TypeInv'
<1>1. pc[p] \in UserPCs \cup LoopPCs
  BY DEF TypeInv, TypeOK, PcType
<1> QED
  BY <1>1 DEF TypeInv, TypeOK, DataType, PcType, Dialled, PcOf, Panics

LEMMA BeginWriteType ==
    ASSUME TypeInv, NEW p \in Procs, NEW from, NEW to \in PcOf(p), BeginWrite(p, from, to),
           p = User /\ to \in DialledPCs => dials \in Sockets
    PROVE  TypeInv'
<1>1. conn \in Sockets
  BY ProcFacts DEF BeginWrite, TypeInv, TypeOK, DataType
<1>2. PcType' /\ Dialled'
  BY <1>1, GotoType DEF BeginWrite, TypeInv, TypeOK, DataType
<1>3. DataType'
  BY <1>1, ProcFacts DEF TypeInv, TypeOK, DataType, BeginWrite
<1> QED
  BY <1>2, <1>3 DEF TypeInv, TypeOK

LEMMA EndWriteType ==
    ASSUME TypeInv, NEW p \in Procs, NEW from, NEW to \in PcOf(p), NEW b \in BOOLEAN,
           WriteOk(p, from, to, b) \/ WriteFails(p, from, to),
           to \notin HoldingPCs,
           p = User /\ to \in DialledPCs => dials \in Sockets
    PROVE  TypeInv'
<1>1. PcType' /\ Dialled'
  BY GotoType DEF WriteOk, WriteFails
<1>2. DataType'
  <2>1. \E e \in BOOLEAN : writeErr' = [writeErr EXCEPT ![mine[p]] = e]
    BY DEF WriteOk, WriteFails
  <2>2. writeErr' \in [Sockets -> BOOLEAN]
    BY <2>1 DEF TypeInv, TypeOK, DataType
  <2>3. writing' \in [Procs -> 0..MaxDials]
    BY ProcFacts DEF TypeInv, TypeOK, DataType, WriteOk, WriteFails
  <2> QED
    BY <2>2, <2>3 DEF TypeInv, TypeOK, DataType, WriteOk, WriteFails
<1> QED
  BY <1>1, <1>2 DEF TypeInv, TypeOK

LEMMA ShutType ==
    ASSUME TypeInv, NEW p \in Procs, NEW from, NEW to \in PcOf(p), ShutConn(p, from, to),
           to \notin HoldingPCs, to \notin DialledPCs
    PROVE  TypeInv'
<1>1. PcType' /\ Dialled'
  BY GotoType DEF ShutConn, Ghosts
<1>2. DataType'
  BY ProcFacts DEF TypeInv, TypeOK, DataType, ShutConn, Ghosts
<1> QED
  BY <1>1, <1>2 DEF TypeInv, TypeOK

--------------------------------------------------------------------------------

LEMMA TypeInit == Init => TypeInv
<1> SUFFICES ASSUME Init
             PROVE  TypeInv
  OBVIOUS
<1>1. "idle" \in UserPCs /\ "off" \in LoopPCs /\ "idle" \notin HoldingPCs
      /\ "off" \notin HoldingPCs /\ "idle" \notin StartPCs
  BY DEF UserPCs, LoopPCs, HoldingPCs, StartPCs
<1>2. DataType
  <2>1. /\ conn \in 0..MaxDials /\ dials \in 0..MaxDials /\ onClose \in Nat
        /\ closes \in 0..MaxCloses
        /\ mine \in [Procs -> 0..MaxDials] /\ writing \in [Procs -> 0..MaxDials]
    BY BoundsAssumption, ProcFacts DEF Init
  <2>2. /\ local \in [Sockets -> {"none", "open", "closed"}]
        /\ peer \in [Sockets -> {"up", "goodbye", "failed"}]
    BY DEF Init
  <2>3. /\ writeErr \in [Sockets -> BOOLEAN] /\ deadline \in [Sockets -> BOOLEAN]
        /\ cancelled \in [Sockets -> BOOLEAN] /\ reported \in [Loops -> BOOLEAN]
        /\ overlapped \in BOOLEAN
    BY Zenon DEF Init
  <2> QED
    BY <2>1, <2>2, <2>3 DEF DataType
<1>3. PcType /\ Dialled
  BY <1>1, ProcFacts DEF Init, PcType, PcOf, Dialled, DialledPCs
<1> QED
  BY <1>2, <1>3 DEF TypeInv, TypeOK

\* A process is where its next step starts from.
LEMMA FromType ==
    ASSUME TypeInv, NEW p \in Procs, NEW from, At(p, from)
    PROVE  /\ from \in PcOf(p)
           /\ from \in HoldingPCs => mine[p] \in Sockets
           /\ p = User /\ from \in DialledPCs => dials \in Sockets
BY DEF TypeInv, TypeOK, PcType, Dialled, At

LEMMA CloseStepType == ASSUME TypeInv, NEW p \in Procs, CloseStep(p) PROVE TypeInv'
<1> USE DEF PcOf, UserPCs, LoopPCs, ClosePCs, StartPCs, HoldingPCs, DialledPCs
<1>0. Returned(p) \in PcOf(p) \ HoldingPCs /\ Returned(p) \notin DialledPCs
  BY DEF Returned
<1>1. CASE CloseCheck(p)
  BY <1>1, MoveType DEF CloseCheck
<1>2. CASE CloseFrameBegin(p)
  BY <1>2, PanicType, BeginWriteType DEF CloseFrameBegin, LoadsNil, WriteCollides
<1>3. CASE CloseFrameEnd(p)
  <2>1. CASE WriteOk(p, "cl_frame", "cl_shut", TRUE)
    BY <2>1, EndWriteType
  <2>2. CASE WriteFails(p, "cl_frame", "cl_abort")
    BY <2>2, EndWriteType
  <2> QED
    BY <1>3, <2>1, <2>2 DEF CloseFrameEnd
<1>4. CASE CloseAbort(p)
  BY <1>4, PanicType, ShutType DEF CloseAbort, LoadsNil
<1>5. CASE CloseShut(p)
  BY <1>5, PanicType, ShutType DEF CloseShut, ShutOk, ShutFails, LoadsNil
<1>6. CASE CloseAbortClear(p)
  BY <1>0, <1>6, ClearType DEF CloseAbortClear
<1>7. CASE CloseClear(p)
  BY <1>7, ClearType DEF CloseClear
<1>8. CASE CloseNotify(p)
  <2>1. PcType' /\ Dialled'
    BY <1>0, <1>8, GotoType DEF CloseNotify
  <2>2. DataType'
    BY <1>8 DEF TypeInv, TypeOK, DataType, CloseNotify, SocketState
  <2> QED
    BY <2>1, <2>2 DEF TypeInv, TypeOK
<1> QED
  BY <1>1, <1>2, <1>3, <1>4, <1>5, <1>6, <1>7, <1>8 DEF CloseStep

LEMMA StartStepType ==
    ASSUME TypeInv,
           \/ CallStart \/ DialFails \/ DialSucceeds
           \/ ConfigureCheck \/ ConfigureBegin \/ ConfigureEnd
           \/ AwaitCheck \/ AwaitBegin \/ AwaitFails \/ AwaitConfirmed \/ AwaitRejected
           \/ StartFail \/ StartClear \/ SpawnReadLoop
    PROVE  TypeInv'
<1> USE DEF PcOf, UserPCs, StartPCs, HoldingPCs, DialledPCs
<1>0. User \in Procs
  BY ProcFacts
<1>1. CASE CallStart
  <2>1. PcType' /\ Dialled'
    BY <1>0, <1>1, GotoType DEF CallStart
  <2>2. overlapped' \in BOOLEAN
    BY <1>1 DEF CallStart
  <2>3. DataType'
    BY <1>1, <2>2 DEF TypeInv, TypeOK, DataType, CallStart, SocketState
  <2> QED
    BY <2>1, <2>3 DEF TypeInv, TypeOK
<1>12. CASE DialFails
  BY <1>0, <1>12, MoveType DEF DialFails
<1>2. CASE DialSucceeds
  <2>1. dials + 1 \in Sockets
    BY <1>2, BoundsAssumption DEF DialSucceeds, Sockets, TypeInv, TypeOK, DataType
  <2>2. PcType' /\ Dialled'
    <3>1. PcType'
      BY <1>0, <1>2, ProcFacts DEF TypeInv, TypeOK, PcType, DialSucceeds, Goto, Ghosts
    <3> QED
      BY <1>2, <2>1, <3>1 DEF Dialled, DialSucceeds
  <2>3. DataType'
    BY <1>2, <2>1, BoundsAssumption DEF TypeInv, TypeOK, DataType, DialSucceeds, Ghosts, Sockets
  <2> QED
    BY <2>2, <2>3 DEF TypeInv, TypeOK
<1>3. CASE ConfigureCheck \/ AwaitCheck
  BY <1>0, <1>3, MoveType, FromType DEF ConfigureCheck, AwaitCheck, ChecksConn, Move
<1>4. CASE ConfigureBegin
  BY <1>0, <1>4, PanicType, BeginWriteType, FromType
     DEF ConfigureBegin, LoadsNil, WriteCollides, BeginWrite
<1>5. CASE ConfigureEnd
  <2>0. dials \in Sockets
    BY <1>0, <1>5, FromType DEF ConfigureEnd, WriteOk, WriteFails
  <2>1. CASE WriteOk(User, "st_conf_wire", "st_await", FALSE)
    BY <1>0, <2>0, <2>1, EndWriteType
  <2>2. CASE WriteFails(User, "st_conf_wire", "st_fail")
    BY <1>0, <2>0, <2>2, EndWriteType
  <2> QED
    BY <1>5, <2>1, <2>2 DEF ConfigureEnd
<1>6. CASE AwaitBegin
  <2>1. CASE LoadsNil(User, "st_arm") \/ LoadsNil(User, "st_load")
    BY <1>0, <2>1, PanicType DEF LoadsNil
  <2>2. CASE ArmDeadline
    <3>1. dials \in Sockets
      BY <1>0, <2>2, FromType DEF ArmDeadline
    <3>2. DataType'
      <4>1. deadline' \in [Sockets -> BOOLEAN]
        BY <2>2 DEF ArmDeadline, TypeInv, TypeOK, DataType
      <4> QED
        BY <2>2, <4>1 DEF ArmDeadline, TypeInv, TypeOK, DataType, Ghosts
    <3>3. PICK to \in {"st_defer", "st_fail"} : Goto(User, to)
      BY <2>2 DEF ArmDeadline
    <3>4. UNCHANGED <<panic, dials, mine>>
      BY <2>2 DEF ArmDeadline, Ghosts
    <3> QED
      BY <1>0, <3>1, <3>2, <3>3, <3>4, GotoType DEF TypeInv, TypeOK
  <2>3. CASE DeferDisarm
    <3>1. dials \in Sockets
      BY <1>0, <2>3, FromType DEF DeferDisarm
    <3>2. DataType'
      BY <2>3 DEF DeferDisarm, TypeInv, TypeOK, DataType, SocketState, Ghosts
    <3>3. PcType'
      BY <1>0, <2>3, ProcFacts DEF DeferDisarm, At, Goto, TypeInv, TypeOK, PcType, DataType, Ghosts
    <3> QED
      BY <2>3, <3>1, <3>2, <3>3 DEF TypeInv, TypeOK, Dialled, DeferDisarm
  <2>4. CASE BeginRead
    <3>1. conn \in Sockets /\ dials \in Sockets
      BY <1>0, <2>4, ProcFacts, FromType DEF BeginRead, TypeInv, TypeOK, DataType
    <3>2. DataType'
      BY <2>4 DEF BeginRead, TypeInv, TypeOK, DataType, SocketState, Ghosts
    <3>3. mine' = [mine EXCEPT ![User] = conn] /\ Goto(User, "st_read") /\ UNCHANGED <<panic, dials>>
      BY <2>4 DEF BeginRead, Ghosts
    <3>4. \A q \in Procs : mine'[q] = mine[q] \/ mine'[q] \in Sockets
      BY <3>1, <3>3 DEF TypeInv, TypeOK, DataType
    <3>5. mine'[User] \in Sockets
      BY <1>0, <3>1, <3>3 DEF TypeInv, TypeOK, DataType
    <3> QED
      BY <1>0, <3>1, <3>2, <3>3, <3>4, <3>5, GotoType DEF TypeInv, TypeOK
  <2> QED
    BY <1>6, <2>1, <2>2, <2>3, <2>4 DEF AwaitBegin
<1>7. CASE AwaitFails \/ AwaitConfirmed \/ AwaitRejected
  <2>1. PICK to \in {"st_fail", "st_spawn"} : AwaitReturns(to)
    BY <1>7 DEF AwaitFails, AwaitConfirmed, AwaitRejected
  <2>2. At(User, "st_read")
    BY <1>7 DEF AwaitFails, AwaitConfirmed, AwaitRejected
  <2>3. dials \in Sockets
    BY <1>0, <2>2, FromType
  <2>4. PcType' /\ Dialled'
    BY <1>0, <2>1, <2>3, GotoType DEF AwaitReturns, Ghosts
  <2>5. DataType'
    BY <2>1 DEF AwaitReturns, TypeInv, TypeOK, DataType, Ghosts
  <2> QED
    BY <2>4, <2>5 DEF TypeInv, TypeOK
<1>8. CASE StartFail
  <2>1. dials \in Sockets
    BY <1>0, <1>8, FromType DEF StartFail
  <2>2. PcType' /\ Dialled'
    BY <1>0, <1>8, <2>1, GotoType DEF StartFail, Ghosts
  <2>3. DataType'
    BY <1>8 DEF StartFail, TypeInv, TypeOK, DataType, Ghosts
  <2> QED
    BY <2>2, <2>3 DEF TypeInv, TypeOK
<1>9. CASE StartClear
  BY <1>0, <1>9, ClearType DEF StartClear
<1>10. CASE SpawnReadLoop
  <2>1. dials \in Sockets
    BY <1>0, <1>10, FromType DEF SpawnReadLoop
  <2>2. PcType'
    BY <1>10, <2>1, ProcFacts DEF SpawnReadLoop, TypeInv, TypeOK, PcType, LoopPCs, Ghosts
  <2>3. DataType' /\ Dialled'
    BY <1>10, <2>1 DEF SpawnReadLoop, TypeInv, TypeOK, DataType, Dialled, SocketState, Ghosts
  <2> QED
    BY <2>2, <2>3 DEF TypeInv, TypeOK
<1> QED
  BY <1>1, <1>2, <1>3, <1>4, <1>5, <1>6, <1>7, <1>8, <1>9, <1>10, <1>12

LEMMA LoopStepType == ASSUME TypeInv, NEW i \in Loops, LoopStep(i) \/ LoopFrame(i) PROVE TypeInv'
<1> USE DEF PcOf, LoopPCs, HoldingPCs
<1>0. i \in Procs /\ i # User
  BY ProcFacts
<1>1. CASE LoopBegin(i)
  <2>1. conn # nil => conn \in Sockets
    BY ProcFacts DEF TypeInv, TypeOK, DataType
  <2>2. mine' = [mine EXCEPT ![i] = conn]
    BY <1>1 DEF LoopBegin
  <2>3. PcType' /\ Dialled'
    <3>1. CASE conn = nil
      BY <1>0, <1>1, <2>2, <3>1, ProcFacts
         DEF LoopBegin, Ghosts, Goto, TypeInv, TypeOK, DataType, PcType, Dialled
    <3>2. CASE conn # nil
      BY <1>0, <1>1, <2>1, <2>2, <3>2, GotoType DEF LoopBegin, Ghosts, TypeInv, TypeOK, DataType
    <3> QED
      BY <3>1, <3>2
  <2>4. DataType'
    BY <1>0, <1>1 DEF LoopBegin, Ghosts, SocketState, TypeInv, TypeOK, DataType
  <2> QED
    BY <2>3, <2>4 DEF TypeInv, TypeOK
<1>2. CASE LoopCheckCtx(i)
  BY <1>0, <1>2, MoveType, FromType DEF LoopCheckCtx, Move
<1>3. CASE LoopLeaves(i)
  <2>1. PcType' /\ Dialled'
    BY <1>0, <1>3, GotoType DEF LoopLeaves, Ghosts
  <2>2. \E e \in BOOLEAN : writeErr' = [writeErr EXCEPT ![mine[i]] = e]
    BY <1>0, <1>3, FromType, ProcFacts DEF LoopLeaves, TypeInv, TypeOK, DataType
  <2>3. DataType'
    BY <1>3, <2>2 DEF LoopLeaves, Ghosts, TypeInv, TypeOK, DataType
  <2> QED
    BY <2>1, <2>3 DEF TypeInv, TypeOK
<1>4. CASE LoopBroken(i)
  <2>1. PcType' /\ Dialled'
    BY <1>0, <1>4, GotoType DEF LoopBroken, ClosePCs
  <2>2. DataType'
    BY <1>4 DEF LoopBroken, SocketState, TypeInv, TypeOK, DataType
  <2> QED
    BY <2>1, <2>2 DEF TypeInv, TypeOK
<1>5. CASE LoopFrame(i)
  BY <1>0, <1>5, MoveType, FromType DEF LoopFrame, Move
<1>6. CASE CloseStep(i)
  BY <1>0, <1>6, CloseStepType
<1> QED
  BY <1>1, <1>2, <1>3, <1>4, <1>5, <1>6 DEF LoopStep

LEMMA WriteStepType == ASSUME TypeInv, CallWrite \/ WriteBegin \/ WriteEnd PROVE TypeInv'
<1> USE DEF PcOf, UserPCs, WritePCs, HoldingPCs, DialledPCs, StartPCs
<1>0. User \in Procs
  BY ProcFacts
<1>1. CASE CallWrite
  BY <1>0, <1>1, MoveType DEF CallWrite
<1>2. CASE WriteBegin
  BY <1>0, <1>2, PanicType, BeginWriteType DEF WriteBegin, LoadsNil, WriteCollides
<1>3. CASE WriteOk(User, "wr_wire", "idle", FALSE)
  BY <1>0, <1>3, EndWriteType
<1>4. CASE WriteFails(User, "wr_wire", "idle")
  BY <1>0, <1>4, EndWriteType
<1> QED
  BY <1>1, <1>2, <1>3, <1>4 DEF WriteEnd

LEMMA CallCloseType == ASSUME TypeInv, CallClose PROVE TypeInv'
<1>1. PcType' /\ Dialled'
  BY ProcFacts, GotoType
     DEF CallClose, PcOf, UserPCs, ClosePCs, HoldingPCs, DialledPCs, StartPCs
<1>2. DataType'
  BY BoundsAssumption DEF CallClose, SocketState, TypeInv, TypeOK, DataType
<1> QED
  BY <1>1, <1>2 DEF TypeInv, TypeOK

LEMMA EnvironmentType ==
    ASSUME TypeInv, \/ \E c \in Sockets : PeerLeaves(c) \/ Cancel(c)
                    \/ Rest \/ UNCHANGED vars
    PROVE  TypeInv'
<1>1. CASE \E c \in Sockets : PeerLeaves(c) \/ Cancel(c)
  BY <1>1 DEF PeerLeaves, Cancel, TypeInv, TypeOK, DataType, PcType, Dialled, PcOf, Ghosts
<1>2. CASE Rest \/ UNCHANGED vars
  BY <1>2 DEF Rest, vars, TypeInv, TypeOK, DataType, PcType, Dialled, PcOf
<1> QED
  BY <1>1, <1>2

LEMMA TypeStep == TypeInv /\ [Next]_vars => TypeInv'
BY StartStepType, WriteStepType, CallCloseType, CloseStepType, LoopStepType,
   EnvironmentType, ProcFacts DEF Next, UserStep

\* Every variable keeps its type, and no process works on a connection it has
\* not loaded.
THEOREM TypeCorrect == Spec => []TypeOK
<1>1. Spec => []TypeInv
  BY TypeInit, TypeStep, PTL DEF Spec
<1> QED
  BY <1>1, PTL DEF TypeInv

--------------------------------------------------------------------------------
(* Panics need a teardown.  While no loop has met a broken read, no loop is    *)
(* in Close, so the user's nil checks of s.conn stay true until s.conn is used *)
(* and nobody else writes.                                                     *)

UserAction == \/ CallStart \/ CallWrite \/ CallClose \/ DialSucceeds
              \/ AwaitConfirmed \/ AwaitRejected \/ UserStep

SomeReported == \E i \in Loops : reported[i]

\* The user has checked that s.conn is not nil and is going to use it.
CheckedPCs == {"st_conf", "st_arm", "st_defer", "st_load", "wr_load", "cl_load", "cl_frame", "cl_shut", "cl_abort"}

ClosersReported == \A i \in Loops : pc[i] \in ClosePCs => reported[i]
WritersReported == \A i \in Loops : writing[i] # nil => reported[i]
CheckHolds      == panic = "none" /\ (pc[User] \in CheckedPCs => conn # nil)

PanicInv == ClosersReported /\ WritersReported /\ (SomeReported \/ CheckHolds)

\* What a step of the user leaves alone in the read loops.
LEMMA UserFrame ==
    ASSUME TypeInv, UserAction
    PROVE  /\ reported' = reported
           /\ \A i \in Loops :
                /\ writing'[i] = writing[i]
                /\ \/ pc'[i] = pc[i]
                   \/ pc'[i] = "rl_begin" /\ i = dials /\ pc[User] = "st_spawn"
<1> USE ProcFacts DEF TypeInv, TypeOK, DataType, PcType, Goto, Ghosts
<1>1. CASE CallStart \/ CallWrite \/ CallClose \/ DialSucceeds \/ DialFails
           \/ ConfigureCheck \/ AwaitCheck \/ StartFail \/ StartClear \/ SpawnReadLoop
  BY <1>1 DEF CallStart, CallWrite, CallClose, DialSucceeds, DialFails, ConfigureCheck,
     AwaitCheck, ChecksConn, StartFail, StartClear, SpawnReadLoop, Move, ClearConn, At
<1>2. CASE ConfigureBegin \/ ConfigureEnd \/ WriteBegin \/ WriteEnd
  BY <1>2 DEF ConfigureBegin, ConfigureEnd, WriteBegin, WriteEnd, LoadsNil, WriteCollides,
     Panics, BeginWrite, WriteOk, WriteFails
<1>3. CASE AwaitBegin \/ AwaitConfirmed \/ AwaitRejected \/ AwaitFails
  BY <1>3 DEF AwaitBegin, LoadsNil, Panics, ArmDeadline, DeferDisarm, BeginRead, AwaitConfirmed, AwaitRejected,
     AwaitFails, AwaitReturns
<1>4. CASE CloseStep(User)
  BY <1>4 DEF CloseStep, CloseCheck, CloseFrameBegin, CloseFrameEnd, CloseAbort, CloseShut,
     ShutOk, ShutFails, CloseAbortClear, CloseClear, CloseNotify, LoadsNil, WriteCollides,
     Panics, BeginWrite, WriteOk, WriteFails, ShutConn, Move, ClearConn
<1> QED
  BY <1>1, <1>2, <1>3, <1>4 DEF UserAction, UserStep

\* What a step of a read loop leaves alone in the other processes.
LEMMA LoopFrameLemma ==
    ASSUME TypeInv, NEW i \in Loops, LoopStep(i) \/ LoopFrame(i)
    PROVE  /\ \A j \in Loops : reported[j] => reported'[j]
           /\ \A q \in Procs \ {i} : writing'[q] = writing[q] /\ pc'[q] = pc[q]
           /\ \/ CloseStep(i)
              \/ LoopBroken(i)
              \/ /\ UNCHANGED <<conn, panic, local, dials, writing, reported>>
                 /\ pc'[i] \in {"done", "rl_ctx", "rl_read"}
<1> USE ProcFacts DEF TypeInv, TypeOK, DataType, PcType, Goto, Ghosts, SocketState
<1>1. CASE LoopBegin(i) \/ LoopCheckCtx(i) \/ LoopLeaves(i) \/ LoopFrame(i)
  BY <1>1 DEF LoopBegin, LoopCheckCtx, LoopLeaves, LoopFrame, Move
<1>2. CASE LoopBroken(i)
  BY <1>2 DEF LoopBroken
<1>3. CASE CloseStep(i)
  BY <1>3 DEF CloseStep, CloseCheck, CloseFrameBegin, CloseFrameEnd, CloseAbort, CloseShut,
     ShutOk, ShutFails, CloseAbortClear, CloseClear, CloseNotify, LoadsNil, WriteCollides,
     Panics, BeginWrite, WriteOk, WriteFails, ShutConn, Move, ClearConn
<1> QED
  BY <1>1, <1>2, <1>3 DEF LoopStep

LEMMA CloseStepAt == ASSUME NEW p \in Procs, CloseStep(p) PROVE panic = "none" /\ pc[p] \in ClosePCs
BY DEF CloseStep, CloseCheck, CloseFrameBegin, CloseFrameEnd, CloseAbort, CloseShut, ShutOk,
   ShutFails, CloseAbortClear, CloseClear, CloseNotify, LoadsNil, WriteCollides, BeginWrite,
   WriteOk, WriteFails, ShutConn, Move, ClearConn, At, ClosePCs

\* While nothing is reported a step of the user keeps its nil checks valid.
LEMMA UserCheck ==
    ASSUME TypeInv, PanicInv, ~SomeReported, UserAction
    PROVE  CheckHolds'
<1>1. CheckHolds /\ \A q \in Procs \ {User} : writing[q] = nil
  BY ProcFacts DEF PanicInv, WritersReported, SomeReported
<1>2. pc \in [Procs -> UserPCs \cup LoopPCs] /\ User \in Procs /\ User \notin Loops
  BY ProcFacts DEF TypeInv, TypeOK, PcType
<1>3. ASSUME NEW from \in CheckedPCs
      PROVE  ~LoadsNil(User, from) /\ ~WriteCollides(User, from)
  BY <1>1 DEF LoadsNil, WriteCollides, At, CheckHolds
<1> USE <1>1, <1>2 DEF CheckHolds, CheckedPCs, Goto, At, Ghosts
<1>4. CASE CallStart \/ CallWrite \/ CallClose \/ DialSucceeds \/ DialFails
           \/ ConfigureCheck \/ AwaitCheck \/ StartFail \/ StartClear
  BY <1>4 DEF CallStart, CallWrite, CallClose, DialSucceeds, DialFails, ConfigureCheck,
     AwaitCheck, ChecksConn, StartFail, StartClear, Move, ClearConn
<1>5. CASE SpawnReadLoop
  <2>1. dials \in Loops
    BY <1>5, FromType, ProcFacts DEF SpawnReadLoop, DialledPCs, StartPCs
  <2> QED
    BY <1>5, <2>1 DEF SpawnReadLoop
<1>6. CASE ConfigureBegin \/ ConfigureEnd \/ WriteBegin \/ WriteEnd
  BY <1>6, <1>3 DEF ConfigureBegin, ConfigureEnd, WriteBegin, WriteEnd, BeginWrite, WriteOk, WriteFails
<1>7. CASE AwaitBegin \/ AwaitConfirmed \/ AwaitRejected \/ AwaitFails
  BY <1>7, <1>3 DEF AwaitBegin, ArmDeadline, DeferDisarm, BeginRead, AwaitConfirmed, AwaitRejected, AwaitFails, AwaitReturns
<1>8. CASE CloseStep(User)
  <2>1. CASE CloseCheck(User) \/ CloseAbortClear(User) \/ CloseClear(User) \/ CloseNotify(User)
    BY <2>1 DEF CloseCheck, CloseAbortClear, CloseClear, CloseNotify, Move, ClearConn, Returned
  <2>2. CASE CloseFrameBegin(User) \/ CloseFrameEnd(User)
    BY <2>2, <1>3 DEF CloseFrameBegin, CloseFrameEnd, BeginWrite, WriteOk, WriteFails
  <2>3. CASE CloseAbort(User) \/ CloseShut(User)
    BY <2>3, <1>3 DEF CloseAbort, CloseShut, ShutOk, ShutFails, ShutConn
  <2> QED
    BY <1>8, <2>1, <2>2, <2>3 DEF CloseStep
<1> QED
  BY <1>4, <1>5, <1>6, <1>7, <1>8 DEF UserAction, UserStep

LEMMA PanicStep == TypeInv /\ PanicInv /\ [Next]_vars => PanicInv'
<1> SUFFICES ASSUME TypeInv, PanicInv, [Next]_vars
             PROVE  PanicInv'
  OBVIOUS
<1>1. CASE UserAction
  <2>1. ClosersReported' /\ WritersReported'
    BY <1>1, UserFrame DEF PanicInv, ClosersReported, WritersReported, ClosePCs
  <2>2. SomeReported => SomeReported'
    BY <1>1, UserFrame DEF SomeReported
  <2> QED
    BY <1>1, <2>1, <2>2, UserCheck DEF PanicInv
<1>2. ASSUME NEW i \in Loops, LoopStep(i) \/ LoopFrame(i)
      PROVE  PanicInv'
  <2>1. SomeReported => SomeReported'
    BY <1>2, LoopFrameLemma DEF SomeReported
  <2>2. \/ reported'[i] /\ (CloseStep(i) \/ LoopBroken(i))
        \/ /\ UNCHANGED <<conn, panic, writing, reported>>
           /\ pc'[i] \notin ClosePCs
    BY <1>2, LoopFrameLemma, CloseStepAt, ProcFacts
       DEF PanicInv, ClosersReported, ClosePCs, LoopBroken, TypeInv, TypeOK, DataType
  <2>3. ClosersReported' /\ WritersReported'
    BY <1>2, <2>2, LoopFrameLemma, ProcFacts DEF PanicInv, ClosersReported, WritersReported
  <2>4. ~SomeReported' => CheckHolds'
    BY <1>2, <2>1, <2>2, LoopFrameLemma, ProcFacts DEF PanicInv, CheckHolds, SomeReported
  <2> QED
    BY <2>3, <2>4 DEF PanicInv
<1>3. CASE \/ \E c \in Sockets : PeerLeaves(c) \/ Cancel(c)
           \/ Rest \/ UNCHANGED vars
  BY <1>3 DEF PeerLeaves, Cancel, Rest, vars, Ghosts, PanicInv, ClosersReported,
     WritersReported, SomeReported, CheckHolds
<1> QED
  BY <1>1, <1>2, <1>3 DEF Next, UserAction

LEMMA PanicHolds == Spec => [](TypeInv /\ PanicInv)
<1>1. Init => PanicInv
  BY ProcFacts DEF Init, PanicInv, ClosersReported, WritersReported, CheckHolds, CheckedPCs,
     ClosePCs, nil
<1> QED
  BY <1>1, TypeInit, TypeStep, PanicStep, PTL DEF Spec

\* The program panics on s.conn only after a read loop has met a broken
\* connection: neither the handshake, nor a send, nor the user's Close can panic
\* before, for any number of connections and however Start and Close are called.
THEOREM PanicOnlyInTeardown == Spec => []PanicNeedsTeardown
<1>1. PanicInv => PanicNeedsTeardown
  BY DEF PanicInv, SomeReported, CheckHolds, PanicNeedsTeardown
<1> QED
  BY <1>1, PanicHolds, PTL

--------------------------------------------------------------------------------
(* Sockets are owned, for a user who restarts only after the read loops are    *)
(* done.  Then no loop runs during Start, only the newest socket can be open,  *)
(* and whoever is about to clear s.conn has closed that socket before.         *)

ClearingPCs == {"st_nil", "cl_abort_nil", "cl_clear"}

NoneOpen       == \A c \in Sockets : local[c] # "open"
NewestOpen     == \A c \in Sockets : local[c] = "open" => c = dials /\ conn = c
ConnNewest     == conn = nil \/ conn = dials
StartAlone     == pc[User] \in StartPCs => \A i \in Loops : pc[i] \in {"off", "done"}
DialFromNil    == pc[User] = "st_dial" => conn = nil
ClearAfterShut == \A p \in Procs : pc[p] \in ClearingPCs => NoneOpen

OwnInv == NewestOpen /\ ConnNewest /\ StartAlone /\ DialFromNil /\ ClearAfterShut

\* A process that moves, off the points where s.conn is about to be cleared,
\* while connections stay as they are.
LEMMA OwnMove ==
    ASSUME TypeInv, OwnInv, NEW p \in Procs, NEW to, Goto(p, to),
           UNCHANGED <<conn, dials, local>>, to \notin ClearingPCs,
           p = User => \/ to \notin StartPCs
                       \/ pc[User] \in StartPCs /\ to # "st_dial",
           p # User => pc[User] \notin StartPCs
    PROVE  OwnInv'
BY ProcFacts
   DEF TypeInv, TypeOK, PcType, OwnInv, NewestOpen, ConnNewest, StartAlone, DialFromNil,
       ClearAfterShut, NoneOpen, Goto, StartPCs

\* A process that has just closed the newest socket.
LEMMA OwnShut ==
    ASSUME TypeInv, OwnInv, NEW p \in Procs, NEW to, Goto(p, to), dials \in Sockets,
           local' = [local EXCEPT ![dials] = "closed"], UNCHANGED <<conn, dials>>,
           p = User => \/ to \notin StartPCs
                       \/ pc[User] \in StartPCs /\ to # "st_dial",
           p # User => pc[User] \notin StartPCs
    PROVE  OwnInv'
<1>1. NoneOpen' /\ NewestOpen'
  BY DEF TypeInv, TypeOK, DataType, OwnInv, NewestOpen, NoneOpen
<1> QED
  BY <1>1, ProcFacts
     DEF TypeInv, TypeOK, PcType, OwnInv, ConnNewest, StartAlone, DialFromNil,
         ClearAfterShut, Goto, StartPCs

\* A process that clears s.conn.
LEMMA OwnClear ==
    ASSUME TypeInv, OwnInv, NEW p \in Procs, NEW from \in ClearingPCs, NEW to,
           ClearConn(p, from, to), to \notin ClearingPCs \cup StartPCs,
           p # User => pc[User] \notin StartPCs
    PROVE  OwnInv'
<1>1. NoneOpen
  BY DEF OwnInv, ClearAfterShut, ClearConn, At
<1> QED
  BY <1>1, ProcFacts
     DEF TypeInv, TypeOK, PcType, OwnInv, NewestOpen, ConnNewest, StartAlone, DialFromNil,
         ClearAfterShut, NoneOpen, ClearConn, Goto, SocketState, StartPCs

LEMMA OwnPanic == ASSUME OwnInv, NEW p \in Procs, Panics(p) PROVE OwnInv'
BY DEF OwnInv, NewestOpen, ConnNewest, StartAlone, DialFromNil, ClearAfterShut, NoneOpen, Panics

LEMMA OwnClose ==
    ASSUME TypeInv, OwnInv, NEW p \in Procs, CloseStep(p),
           p # User => pc[User] \notin StartPCs
    PROVE  OwnInv'
<1> USE DEF ClearingPCs, StartPCs, Returned, Ghosts, SocketState
<1>1. CASE CloseCheck(p)
  BY <1>1, OwnMove DEF CloseCheck, Move
<1>2. CASE CloseFrameBegin(p)
  BY <1>2, OwnMove, OwnPanic DEF CloseFrameBegin, LoadsNil, WriteCollides, BeginWrite
<1>3. CASE CloseFrameEnd(p)
  BY <1>3, OwnMove DEF CloseFrameEnd, WriteOk, WriteFails
<1>4. ASSUME NEW from, NEW to, ShutConn(p, from, to), to \in {"cl_abort_nil", "cl_clear"}
      PROVE  OwnInv'
  <2>1. conn = dials /\ dials \in Sockets
    BY <1>4, ProcFacts DEF ShutConn, OwnInv, ConnNewest, TypeInv, TypeOK, DataType
  <2> QED
    BY <1>4, <2>1, OwnShut DEF ShutConn
<1>5. CASE CloseAbort(p)
  BY <1>5, <1>4, OwnPanic DEF CloseAbort, LoadsNil
<1>6. CASE CloseShut(p)
  BY <1>6, <1>4, OwnPanic DEF CloseShut, ShutOk, ShutFails, LoadsNil
<1>7. CASE CloseAbortClear(p) \/ CloseClear(p)
  BY <1>7, OwnClear DEF CloseAbortClear, CloseClear
<1>8. CASE CloseNotify(p)
  BY <1>8, OwnMove DEF CloseNotify
<1> QED
  BY <1>1, <1>2, <1>3, <1>5, <1>6, <1>7, <1>8 DEF CloseStep

LEMMA OwnUser == ASSUME TypeInv, OwnInv, UserAction, ~overlapped' PROVE OwnInv'
<1> USE DEF ClearingPCs, StartPCs, Ghosts, SocketState
<1>0. User \in Procs
  BY ProcFacts
<1>1. CASE CallStart
  <2>1. \A i \in Loops : pc'[i] \in {"off", "done"}
    BY <1>1, ProcFacts DEF CallStart, Goto, TypeInv, TypeOK, PcType
  <2> QED
    BY <1>0, <1>1, <2>1, ProcFacts
       DEF CallStart, At, Goto, TypeInv, TypeOK, PcType, OwnInv, NewestOpen, ConnNewest,
           StartAlone, DialFromNil, ClearAfterShut, NoneOpen
<1>2. CASE DialSucceeds
  <2>1. NoneOpen /\ \A i \in Loops : pc[i] \in {"off", "done"}
    BY <1>2, ProcFacts
       DEF DialSucceeds, At, OwnInv, NewestOpen, NoneOpen, StartAlone, DialFromNil
  <2>2. \A p \in Procs : pc'[p] \notin ClearingPCs
    BY <1>0, <1>2, <2>1, ProcFacts DEF DialSucceeds, Goto, TypeInv, TypeOK, PcType
  <2>3. NewestOpen' /\ ConnNewest'
    BY <1>2, <2>1, BoundsAssumption
       DEF DialSucceeds, NewestOpen, ConnNewest, NoneOpen, TypeInv, TypeOK, DataType, Sockets
  <2> QED
    BY <1>0, <1>2, <2>1, <2>2, <2>3, ProcFacts
       DEF DialSucceeds, Goto, TypeInv, TypeOK, PcType, OwnInv, StartAlone, DialFromNil,
           ClearAfterShut
<1>3. CASE DialFails \/ CallWrite \/ CallClose
  BY <1>0, <1>3, OwnMove DEF DialFails, CallWrite, CallClose, Move
<1>4. CASE ConfigureCheck \/ AwaitCheck
  BY <1>0, <1>4, OwnMove DEF ConfigureCheck, AwaitCheck, ChecksConn, Move, At
<1>5. CASE ConfigureBegin \/ WriteBegin
  BY <1>0, <1>5, OwnMove, OwnPanic
     DEF ConfigureBegin, WriteBegin, LoadsNil, WriteCollides, BeginWrite, At
<1>6. CASE ConfigureEnd \/ WriteEnd
  BY <1>0, <1>6, OwnMove DEF ConfigureEnd, WriteEnd, WriteOk, WriteFails, At
<1>7. CASE AwaitBegin
  BY <1>0, <1>7, OwnMove, OwnPanic DEF AwaitBegin, LoadsNil, ArmDeadline, DeferDisarm, BeginRead, At
<1>8. CASE AwaitConfirmed \/ AwaitRejected \/ AwaitFails
  BY <1>0, <1>8, OwnMove DEF AwaitConfirmed, AwaitRejected, AwaitFails, AwaitReturns, At
<1>9. CASE StartFail
  <2>1. dials \in Sockets
    BY <1>0, <1>9, FromType DEF StartFail, DialledPCs
  <2> QED
    BY <1>0, <1>9, <2>1, OwnShut DEF StartFail, At
<1>10. CASE StartClear
  BY <1>0, <1>10, OwnClear DEF StartClear
<1>11. CASE SpawnReadLoop
  <2>1. dials \in Loops
    BY <1>0, <1>11, FromType, ProcFacts DEF SpawnReadLoop, DialledPCs
  <2> QED
    BY <1>11, <2>1, ProcFacts
       DEF SpawnReadLoop, TypeInv, TypeOK, PcType, OwnInv, NewestOpen, ConnNewest,
           StartAlone, DialFromNil, ClearAfterShut, NoneOpen
<1>12. CASE CloseStep(User)
  BY <1>0, <1>12, OwnClose
<1> QED
  BY <1>1, <1>2, <1>3, <1>4, <1>5, <1>6, <1>7, <1>8, <1>9, <1>10, <1>11, <1>12
     DEF UserAction, UserStep

LEMMA OwnLoop == ASSUME TypeInv, OwnInv, NEW i \in Loops, LoopStep(i) \/ LoopFrame(i) PROVE OwnInv'
<1>0. i \in Procs /\ i # User
  BY ProcFacts
<1>1. pc[i] \notin {"off", "done"}
  BY <1>0, CloseStepAt
     DEF LoopStep, LoopFrame, LoopBegin, LoopCheckCtx, LoopLeaves, LoopBroken, Move, At, ClosePCs
<1>2. pc[User] \notin StartPCs
  BY <1>1 DEF OwnInv, StartAlone
<1> USE DEF ClearingPCs, SocketState, Ghosts
<1>3. CASE LoopBegin(i) \/ LoopCheckCtx(i) \/ LoopLeaves(i) \/ LoopBroken(i) \/ LoopFrame(i)
  BY <1>0, <1>2, <1>3, OwnMove
     DEF LoopBegin, LoopCheckCtx, LoopLeaves, LoopBroken, LoopFrame, Move
<1>4. CASE CloseStep(i)
  BY <1>0, <1>2, <1>4, OwnClose
<1> QED
  BY <1>3, <1>4 DEF LoopStep

\* `overlapped` is a history variable: once set, it stays.
LEMMA OverlapStays == ASSUME [Next]_vars, overlapped PROVE overlapped'
<1> USE DEF Ghosts, Move, ClearConn, Panics, LoadsNil, BeginWrite, WriteCollides, WriteOk, WriteFails
<1>1. ASSUME NEW p, CloseStep(p) PROVE overlapped'
  BY <1>1 DEF CloseStep, CloseCheck, CloseFrameBegin, CloseFrameEnd, CloseAbort, CloseShut,
              ShutOk, ShutFails, ShutConn, CloseAbortClear, CloseClear, CloseNotify
<1>2. CASE CallStart \/ CallWrite \/ CallClose \/ DialSucceeds \/ AwaitConfirmed \/ AwaitRejected
  BY <1>2 DEF CallStart, CallWrite, CallClose, DialSucceeds, AwaitConfirmed, AwaitRejected, AwaitReturns
<1>3. CASE UserStep
  BY <1>1, <1>3 DEF UserStep, DialFails, ConfigureCheck, ConfigureBegin, ConfigureEnd, AwaitCheck,
     ChecksConn, AwaitBegin, ArmDeadline, DeferDisarm, BeginRead, AwaitFails, AwaitReturns, StartFail, StartClear,
     SpawnReadLoop, WriteBegin, WriteEnd
<1>4. ASSUME NEW i \in Loops, LoopStep(i) \/ LoopFrame(i) PROVE overlapped'
  BY <1>1, <1>4 DEF LoopStep, LoopBegin, LoopCheckCtx, LoopLeaves, LoopBroken, LoopFrame
<1>5. CASE \/ \E c \in Sockets : PeerLeaves(c) \/ Cancel(c)
           \/ Rest \/ UNCHANGED vars
  BY <1>5 DEF PeerLeaves, Cancel, Rest, vars
<1> QED
  BY <1>2, <1>3, <1>4, <1>5 DEF Next

LEMMA OwnHolds == Spec => [](TypeInv /\ (overlapped \/ OwnInv))
<1>1. Init => OwnInv
  BY ProcFacts DEF Init, OwnInv, NewestOpen, ConnNewest, StartAlone, DialFromNil,
     ClearAfterShut, NoneOpen, ClearingPCs, StartPCs
<1>2. TypeInv /\ (overlapped \/ OwnInv) /\ [Next]_vars => (overlapped \/ OwnInv)'
  <2> SUFFICES ASSUME TypeInv, overlapped \/ OwnInv, [Next]_vars, ~overlapped'
               PROVE  OwnInv'
    OBVIOUS
  <2>0. OwnInv
    BY OverlapStays
  <2>1. CASE UserAction
    BY <2>0, <2>1, OwnUser
  <2>2. CASE \E i \in Loops : LoopStep(i) \/ LoopFrame(i)
    BY <2>0, <2>2, OwnLoop
  <2>3. CASE \/ \E c \in Sockets : PeerLeaves(c) \/ Cancel(c)
             \/ Rest \/ UNCHANGED vars
    BY <2>0, <2>3 DEF PeerLeaves, Cancel, Rest, vars, Ghosts, OwnInv, NewestOpen, ConnNewest,
       StartAlone, DialFromNil, ClearAfterShut, NoneOpen
  <2> QED
    BY <2>1, <2>2, <2>3 DEF Next, UserAction
<1> QED
  BY <1>1, <1>2, TypeInit, TypeStep, PTL DEF Spec

--------------------------------------------------------------------------------
(* Sockets are owned, however the user restarts, while no read loop but the    *)
(* socket's own has met the end of its connection: only such a loop would      *)
(* clear s.conn under a socket it did not read.                                *)

Alone(c) == \A i \in Loops \ {c} : ~reported[i]

Unstarted == \A i \in Loops : i > dials => pc[i] = "off"

Kept == \A c \in Sockets : Alone(c) /\ local[c] = "open" =>
            /\ conn = c
            /\ pc[User] \notin ClearingPCs \cup {"cl_notify"}
            /\ pc[c] \notin ClearingPCs

KeptInv == ConnNewest /\ DialFromNil /\ Unstarted /\ Kept

NoLoss == \A i \in Loops : reported[i] => reported'[i]

\* A process that moves, while connections stay as they are.
LEMMA KeptMove ==
    ASSUME TypeInv, KeptInv, NEW p \in Procs, NEW to, Goto(p, to), NoLoss,
           UNCHANGED <<conn, dials, local>>, to \notin ClearingPCs,
           to \in {"st_dial", "cl_notify"} => p # User \/ conn = nil,
           p # User => pc[p] # "off"
    PROVE  KeptInv'
<1>1. Kept'
  BY ProcFacts DEF TypeInv, TypeOK, DataType, PcType, KeptInv, Kept, Alone, NoLoss, Goto
<1>2. ConnNewest' /\ DialFromNil' /\ Unstarted'
  BY ProcFacts DEF TypeInv, TypeOK, DataType, PcType, KeptInv, ConnNewest, DialFromNil, Unstarted, Goto
<1> QED
  BY <1>1, <1>2 DEF KeptInv

\* A process that closes the newest socket: no other was kept open.
LEMMA KeptShut ==
    ASSUME TypeInv, KeptInv, NEW p \in Procs, NEW to, Goto(p, to), NoLoss, dials \in Sockets,
           local' = [local EXCEPT ![dials] = "closed"], UNCHANGED <<conn, dials>>,
           to # "st_dial", p # User => pc[p] # "off"
    PROVE  KeptInv'
<1>1. \A c \in Sockets : Alone(c)' => local'[c] # "open"
  BY ProcFacts DEF TypeInv, TypeOK, DataType, KeptInv, Kept, ConnNewest, Alone, NoLoss
<1>2. ConnNewest' /\ DialFromNil' /\ Unstarted'
  BY ProcFacts DEF TypeInv, TypeOK, DataType, PcType, KeptInv, ConnNewest, DialFromNil, Unstarted, Goto
<1> QED
  BY <1>1, <1>2 DEF KeptInv, Kept

\* A process that clears s.conn: no socket was kept open.
LEMMA KeptClear ==
    ASSUME TypeInv, PanicInv, KeptInv, NEW p \in Procs, NEW from \in ClearingPCs, NEW to,
           ClearConn(p, from, to), to # "st_dial"
    PROVE  KeptInv'
<1>1. p # User => from \in ClosePCs /\ reported[p] /\ pc[p] # "off"
  BY ProcFacts DEF ClearConn, At, PanicInv, ClosersReported, ClearingPCs, ClosePCs, LoopPCs,
     PcOf, TypeInv, TypeOK, PcType
<1>2. \A c \in Sockets : Alone(c) => local[c] # "open"
  BY <1>1, ProcFacts DEF KeptInv, Kept, Alone, ClearConn, At
<1>3. \A c \in Sockets : Alone(c)' => local'[c] # "open"
  BY <1>2 DEF ClearConn, SocketState, Ghosts, Alone
<1>4. ConnNewest' /\ DialFromNil' /\ Unstarted'
  BY <1>1, ProcFacts DEF TypeInv, TypeOK, DataType, PcType, KeptInv, ConnNewest, DialFromNil,
     Unstarted, ClearConn, Goto
<1> QED
  BY <1>3, <1>4 DEF KeptInv, Kept

LEMMA KeptPanic == ASSUME KeptInv, NEW p \in Procs, Panics(p) PROVE KeptInv'
BY DEF KeptInv, Kept, Alone, ConnNewest, DialFromNil, Unstarted, Panics

LEMMA KeptClose ==
    ASSUME TypeInv, PanicInv, KeptInv, NEW p \in Procs, CloseStep(p)
    PROVE  KeptInv'
<1>0. p # User => pc[p] # "off"
  BY CloseStepAt DEF ClosePCs
<1> USE <1>0 DEF ClearingPCs, Returned, Ghosts, SocketState, NoLoss
<1>1. CASE CloseCheck(p)
  BY <1>1, KeptMove DEF CloseCheck, Move
<1>2. CASE CloseFrameBegin(p)
  BY <1>2, KeptMove, KeptPanic DEF CloseFrameBegin, LoadsNil, WriteCollides, BeginWrite
<1>3. CASE CloseFrameEnd(p)
  BY <1>3, KeptMove DEF CloseFrameEnd, WriteOk, WriteFails
<1>4. ASSUME NEW from, NEW to, ShutConn(p, from, to), to \in {"cl_abort_nil", "cl_clear"}
      PROVE  KeptInv'
  <2>1. conn = dials /\ dials \in Sockets
    BY <1>4, ProcFacts DEF ShutConn, KeptInv, ConnNewest, TypeInv, TypeOK, DataType
  <2> QED
    BY <1>4, <2>1, KeptShut DEF ShutConn
<1>5. CASE CloseAbort(p)
  BY <1>5, <1>4, KeptPanic DEF CloseAbort, LoadsNil
<1>6. CASE CloseShut(p)
  BY <1>6, <1>4, KeptPanic DEF CloseShut, ShutOk, ShutFails, LoadsNil
<1>7. CASE CloseAbortClear(p) \/ CloseClear(p)
  BY <1>7, KeptClear DEF CloseAbortClear, CloseClear
<1>8. CASE CloseNotify(p)
  BY <1>8, KeptMove DEF CloseNotify
<1> QED
  BY <1>1, <1>2, <1>3, <1>5, <1>6, <1>7, <1>8 DEF CloseStep

LEMMA KeptUser == ASSUME TypeInv, PanicInv, KeptInv, UserAction PROVE KeptInv'
<1>0. User \in Procs /\ NoLoss
  BY ProcFacts, UserFrame DEF NoLoss
<1> USE DEF ClearingPCs, Ghosts, SocketState
<1>1. CASE CallStart
  BY <1>0, <1>1, KeptMove DEF CallStart
<1>2. CASE DialSucceeds
  <2>0. dials \in 0..MaxDials /\ dials < MaxDials /\ conn = nil /\ MaxDials \in Nat
    BY <1>2, BoundsAssumption DEF DialSucceeds, At, TypeInv, TypeOK, DataType, KeptInv, DialFromNil
  <2>1. dials + 1 \in Sockets /\ dials + 1 > dials /\ dials + 1 # User /\ dials + 1 # nil
    BY <2>0 DEF Sockets, User, nil
  <2>6. pc[dials + 1] = "off"
    BY <2>1 DEF KeptInv, Unstarted, Loops
  <2>2. \A c \in Sockets : Alone(c) => local[c] # "open"
    BY <2>0, ProcFacts DEF KeptInv, Kept
  <2>3. conn' = dials + 1 /\ pc' = [pc EXCEPT ![User] = "st_check"] /\ dials' = dials + 1
        /\ local' = [local EXCEPT ![dials + 1] = "open"] /\ reported' = reported
    BY <1>2 DEF DialSucceeds, Goto
  <2>7. pc \in [Procs -> UserPCs \cup LoopPCs] /\ local \in [Sockets -> {"none", "open", "closed"}]
    BY DEF TypeInv, TypeOK, DataType, PcType
  <2>8. pc'[User] = "st_check" /\ \A i \in Loops : pc'[i] = pc[i]
    BY <1>0, <2>3, <2>7, ProcFacts
  <2>4. Kept'
    <3>1. ASSUME NEW c \in Sockets, Alone(c)', local'[c] = "open" PROVE c = dials + 1
      BY <2>2, <2>3, <2>7, <3>1 DEF Alone
    <3> QED
      BY <2>1, <2>3, <2>6, <2>8, <3>1 DEF Kept, Loops
  <2>5. ConnNewest' /\ DialFromNil' /\ Unstarted'
    <3>1. ASSUME NEW i \in Loops, i > dials + 1 PROVE pc[i] = "off"
      BY <2>0, <3>1 DEF KeptInv, Unstarted, Loops, Sockets
    <3> QED
      BY <2>3, <2>8, <3>1 DEF ConnNewest, DialFromNil, Unstarted
  <2> QED
    BY <2>4, <2>5 DEF KeptInv
<1>3. CASE CallWrite \/ CallClose \/ DialFails \/ ConfigureCheck \/ AwaitCheck
  BY <1>0, <1>3, KeptMove
     DEF CallWrite, CallClose, DialFails, ConfigureCheck, AwaitCheck, ChecksConn, Move
<1>4. CASE StartFail
  <2>1. dials \in Sockets
    BY <1>0, <1>4, FromType DEF StartFail, DialledPCs, StartPCs
  <2> QED
    BY <1>0, <1>4, <2>1, KeptShut DEF StartFail
<1>5. CASE StartClear
  BY <1>0, <1>5, KeptClear DEF StartClear
<1>6. CASE SpawnReadLoop
  <2>1. dials \in Loops
    BY <1>6, FromType, ProcFacts DEF SpawnReadLoop, DialledPCs, StartPCs
  <2>2. pc' = [pc EXCEPT ![User] = "idle", ![dials] = "rl_begin"]
        /\ UNCHANGED <<conn, dials, local, reported>>
    BY <1>6 DEF SpawnReadLoop
  <2>3. Kept'
    BY <2>1, <2>2, ProcFacts DEF Kept, KeptInv, Alone, TypeInv, TypeOK, PcType
  <2>4. ConnNewest' /\ DialFromNil' /\ Unstarted'
    BY <2>1, <2>2, ProcFacts DEF KeptInv, ConnNewest, DialFromNil, Unstarted, TypeInv, TypeOK,
       DataType, PcType, Loops
  <2> QED
    BY <2>3, <2>4 DEF KeptInv
<1>7. CASE ConfigureBegin \/ ConfigureEnd \/ WriteBegin \/ WriteEnd
  BY <1>0, <1>7, KeptMove, KeptPanic DEF ConfigureBegin, ConfigureEnd, WriteBegin, WriteEnd,
     LoadsNil, WriteCollides, BeginWrite, WriteOk, WriteFails
<1>8. CASE AwaitBegin \/ AwaitConfirmed \/ AwaitRejected \/ AwaitFails
  BY <1>0, <1>8, KeptMove, KeptPanic DEF AwaitBegin, LoadsNil, ArmDeadline, DeferDisarm,
     BeginRead, AwaitConfirmed, AwaitRejected, AwaitFails, AwaitReturns
<1>9. CASE CloseStep(User)
  BY <1>0, <1>9, KeptClose
<1> QED
  BY <1>1, <1>2, <1>3, <1>4, <1>5, <1>6, <1>7, <1>8, <1>9 DEF UserAction, UserStep

LEMMA KeptLoop ==
    ASSUME TypeInv, PanicInv, KeptInv, NEW i \in Loops, LoopStep(i) \/ LoopFrame(i)
    PROVE  KeptInv'
<1>0. i \in Procs /\ i # User /\ NoLoss
  BY ProcFacts, LoopFrameLemma DEF NoLoss
<1> USE DEF ClearingPCs, SocketState, Ghosts
<1>1. CASE LoopBegin(i) \/ LoopCheckCtx(i) \/ LoopLeaves(i) \/ LoopBroken(i) \/ LoopFrame(i)
  BY <1>0, <1>1, KeptMove
     DEF LoopBegin, LoopCheckCtx, LoopLeaves, LoopBroken, LoopFrame, Move, At
<1>2. CASE CloseStep(i)
  BY <1>0, <1>2, KeptClose
<1> QED
  BY <1>1, <1>2 DEF LoopStep

LEMMA KeptStep == TypeInv /\ PanicInv /\ KeptInv /\ [Next]_vars => KeptInv'
<1> SUFFICES ASSUME TypeInv, PanicInv, KeptInv, [Next]_vars PROVE KeptInv'
  OBVIOUS
<1>1. CASE \/ \E c \in Sockets : PeerLeaves(c) \/ Cancel(c)
           \/ Rest \/ UNCHANGED vars
  BY <1>1 DEF PeerLeaves, Cancel, Rest, vars, Ghosts, KeptInv, Kept, Alone, ConnNewest,
     DialFromNil, Unstarted
<1> QED
  BY <1>1, KeptUser, KeptLoop DEF Next, UserAction

LEMMA KeptHolds == Spec => [](TypeInv /\ KeptInv)
<1>1. Init => KeptInv
  BY ProcFacts DEF Init, KeptInv, Kept, Alone, ConnNewest, DialFromNil, Unstarted
<1> QED
  BY <1>1, KeptStep, PanicHolds, PTL DEF Spec

\* A user who restarts a session only after its read loop is done never loses a
\* socket, and one who restarts earlier loses one only to an older loop that met
\* the end of its own connection, for any number of starts.
THEOREM SocketsOwned == Spec => []SocketOwned
<1>1. (overlapped \/ OwnInv) /\ KeptInv => SocketOwned
  BY DEF OwnInv, NewestOpen, KeptInv, Kept, Alone, SocketOwned, TakenOver
<1> QED
  BY <1>1, OwnHolds, KeptHolds, PTL

--------------------------------------------------------------------------------
(* Close cleans up.  The user's Close returns from two places, and no socket   *)
(* is open when it gets to either.                                             *)

NotifyInv == pc[User] = "cl_notify" => NoneOpen

\* Only a dial opens a socket.
LEMMA SocketsStayShut ==
    ASSUME TypeInv, [Next]_vars, pc[User] # "st_dial"
    PROVE  \A c \in Sockets : local'[c] = "open" => local[c] = "open"
<1> USE DEF Ghosts, SocketState, Move, ClearConn, Panics, LoadsNil, BeginWrite, WriteCollides,
            WriteOk, WriteFails, At, TypeInv, TypeOK, DataType
<1> DEFINE StayShut == \A c \in Sockets : local'[c] = "open" => local[c] = "open"
<1>1. ASSUME NEW p, CloseStep(p) PROVE StayShut
  BY <1>1 DEF CloseStep, CloseCheck, CloseFrameBegin, CloseFrameEnd, CloseAbort, CloseShut,
              ShutOk, ShutFails, ShutConn, CloseAbortClear, CloseClear, CloseNotify
<1>2. CASE CallStart \/ CallWrite \/ CallClose \/ DialSucceeds \/ AwaitConfirmed \/ AwaitRejected
  BY <1>2 DEF CallStart, CallWrite, CallClose, DialSucceeds, AwaitConfirmed, AwaitRejected, AwaitReturns
<1>3. CASE UserStep
  BY <1>1, <1>3 DEF UserStep, DialFails, ConfigureCheck, ConfigureBegin, ConfigureEnd, AwaitCheck,
     ChecksConn, AwaitBegin, ArmDeadline, DeferDisarm, BeginRead, AwaitFails, AwaitReturns, StartFail, StartClear,
     SpawnReadLoop, WriteBegin, WriteEnd
<1>4. ASSUME NEW i \in Loops, LoopStep(i) \/ LoopFrame(i) PROVE StayShut
  BY <1>1, <1>4 DEF LoopStep, LoopBegin, LoopCheckCtx, LoopLeaves, LoopBroken, LoopFrame
<1>5. CASE \/ \E c \in Sockets : PeerLeaves(c) \/ Cancel(c)
           \/ Rest \/ UNCHANGED vars
  BY <1>5 DEF PeerLeaves, Cancel, Rest, vars
<1> QED
  BY <1>2, <1>3, <1>4, <1>5 DEF Next

\* Where the user is, and goes, in the last steps of Close.
LEMMA UserNotifies ==
    ASSUME TypeInv, UserAction
    PROVE  /\ pc'[User] = "cl_notify" /\ pc[User] # "cl_notify" =>
                 pc[User] = "cl_clear" \/ (pc[User] = "cl_check" /\ conn = nil)
           /\ pc[User] \in ClosePCs /\ pc'[User] = "idle" =>
                 local' = local /\ pc[User] \in {"cl_notify", "cl_abort_nil"}
<1> USE ProcFacts DEF TypeInv, TypeOK, PcType, Goto, At, ClosePCs, Ghosts, SocketState
<1>1. CASE CallStart \/ CallWrite \/ CallClose \/ DialSucceeds \/ DialFails
           \/ ConfigureCheck \/ AwaitCheck \/ StartFail \/ StartClear
  BY <1>1 DEF CallStart, CallWrite, CallClose, DialSucceeds, DialFails, ConfigureCheck,
     AwaitCheck, ChecksConn, StartFail, StartClear, Move, ClearConn
<1>2. CASE SpawnReadLoop
  <2>1. dials \in Loops
    BY <1>2, FromType, ProcFacts DEF SpawnReadLoop, DialledPCs, StartPCs
  <2> QED
    BY <1>2, <2>1 DEF SpawnReadLoop
<1>3. CASE ConfigureBegin \/ ConfigureEnd \/ WriteBegin \/ WriteEnd
  BY <1>3 DEF ConfigureBegin, ConfigureEnd, WriteBegin, WriteEnd, LoadsNil, WriteCollides,
     Panics, BeginWrite, WriteOk, WriteFails
<1>4. CASE AwaitBegin \/ AwaitConfirmed \/ AwaitRejected \/ AwaitFails
  BY <1>4 DEF AwaitBegin, LoadsNil, Panics, ArmDeadline, DeferDisarm, BeginRead, AwaitConfirmed, AwaitRejected,
     AwaitFails, AwaitReturns
<1>5. CASE CloseStep(User)
  BY <1>5 DEF CloseStep, CloseCheck, CloseFrameBegin, CloseFrameEnd, CloseAbort, CloseShut,
     ShutOk, ShutFails, CloseAbortClear, CloseClear, CloseNotify, LoadsNil, WriteCollides,
     Panics, BeginWrite, WriteOk, WriteFails, ShutConn, Move, ClearConn, Returned
<1> QED
  BY <1>1, <1>2, <1>3, <1>4, <1>5 DEF UserAction, UserStep

\* Nobody else moves the user.
LEMMA OthersStay ==
    ASSUME TypeInv, [Next]_vars, ~UserAction
    PROVE  pc'[User] = pc[User]
<1>1. ASSUME NEW i \in Loops, LoopStep(i) \/ LoopFrame(i) PROVE pc'[User] = pc[User]
  BY <1>1, LoopFrameLemma, ProcFacts
<1>2. CASE \/ \E c \in Sockets : PeerLeaves(c) \/ Cancel(c)
           \/ Rest \/ UNCHANGED vars
  BY <1>2 DEF PeerLeaves, Cancel, Rest, vars
<1> QED
  BY <1>1, <1>2 DEF Next, UserAction

LEMMA NotifyStep ==
    ASSUME TypeInv, OwnInv, NotifyInv, [Next]_vars
    PROVE  NotifyInv'
<1> SUFFICES ASSUME pc'[User] = "cl_notify"
             PROVE  NoneOpen'
  BY DEF NotifyInv
<1>1. CASE pc[User] = "cl_notify"
  BY <1>1, SocketsStayShut DEF NotifyInv, NoneOpen
<1>2. CASE pc[User] # "cl_notify"
  <2>1. UserAction
    BY <1>2, OthersStay
  <2>2. pc[User] = "cl_clear" \/ (pc[User] = "cl_check" /\ conn = nil)
    BY <1>2, <2>1, UserNotifies
  <2>3. NoneOpen
    BY <2>2, ProcFacts DEF OwnInv, NewestOpen, ClearAfterShut, ClearingPCs, NoneOpen
  <2> QED
    BY <2>2, <2>3, SocketsStayShut DEF NoneOpen
<1> QED
  BY <1>1, <1>2

LEMMA NotifyHolds == Spec => [](TypeInv /\ (overlapped \/ OwnInv) /\ (overlapped \/ NotifyInv))
<1>1. Init => NotifyInv
  BY ProcFacts DEF Init, NotifyInv
<1>2. TypeInv /\ (overlapped \/ OwnInv) /\ (overlapped \/ NotifyInv) /\ [Next]_vars
        => (overlapped \/ NotifyInv)'
  BY NotifyStep, OverlapStays
<1> QED
  BY <1>1, <1>2, OwnHolds, PTL DEF Spec

LEMMA CloseLeavesNone ==
    ASSUME TypeInv, OwnInv, NotifyInv, [Next]_vars, pc[User] \in ClosePCs, pc'[User] = "idle"
    PROVE  \A c \in Sockets : local'[c] # "open"
<1>1. UserAction
  BY OthersStay DEF ClosePCs
<1>2. local' = local /\ pc[User] \in {"cl_notify", "cl_abort_nil"}
  BY <1>1, UserNotifies
<1>3. NoneOpen
  BY <1>2, ProcFacts DEF NotifyInv, OwnInv, ClearAfterShut, ClearingPCs
<1> QED
  BY <1>2, <1>3 DEF NoneOpen

\* When the user's Close returns, with or without an error, no socket is open but
\* one that an older read loop took over, for any number of starts and Closes.
THEOREM ClosesClean == Spec => CloseCleansUp
<1> DEFINE Inv == TypeInv /\ KeptInv /\ (overlapped \/ OwnInv) /\ (overlapped \/ NotifyInv)
           Clean == pc[User] \in ClosePCs /\ pc'[User] = "idle"
                      => \A c \in Sockets : local'[c] = "open" => TakenOver(c)
<1>1. ASSUME Inv, [Next]_vars, pc[User] \in ClosePCs, pc'[User] = "idle", NEW c \in Sockets,
             local'[c] = "open"
      PROVE  TakenOver(c)
  <2>1. overlapped
    BY <1>1, CloseLeavesNone
  <2>2. UserAction
    BY <1>1, OthersStay DEF ClosePCs
  <2>3. local[c] = "open" /\ pc[User] \in {"cl_notify", "cl_abort_nil"}
    BY <1>1, <2>2, UserNotifies
  <2> QED
    BY <1>1, <2>1, <2>3 DEF KeptInv, Kept, Alone, ClearingPCs, TakenOver
<1>2. Inv /\ [Next]_vars => [Clean]_vars
  BY <1>1
<1>3. Spec => []Inv
  BY NotifyHolds, KeptHolds, PTL
<1> QED
  BY <1>2, <1>3, PTL DEF Spec, CloseCleansUp

--------------------------------------------------------------------------------
(* Teardowns have a cause.  A loop that reads shares its connection with      *)
(* nobody, and no read deadline is armed outside the handshake.               *)

OneLoop  == \A i, j \in Loops : pc[i] \notin {"off", "done"} /\ pc[j] \notin {"off", "done"} => i = j
DeadlineInHandshake ==
    \A c \in Sockets : deadline[c] =>
        \/ pc[User] \in {"st_defer", "st_load"} /\ c = dials
        \/ pc[User] = "st_read" /\ mine[User] = c

\* What arms and disarms a deadline, and what the others leave alone.
LEMMA DeadlineFrame ==
    ASSUME TypeInv, [Next]_vars
    PROVE  \/ ArmDeadline
           \/ BeginRead
           \/ \E to \in {"st_spawn", "st_fail"} : At(User, "st_read") /\ AwaitReturns(to)
           \/ /\ deadline' = deadline
              /\ pc[User] = "st_read" => pc'[User] = "st_read" /\ mine'[User] = mine[User]
              /\ pc[User] \in {"st_defer", "st_load"} =>
                    pc'[User] \in {"st_defer", "st_load"} /\ dials' = dials
<1> USE ProcFacts DEF Ghosts, SocketState, Move, ClearConn, Panics, LoadsNil, BeginWrite, WriteCollides,
            WriteOk, WriteFails, At, Goto, TypeInv, TypeOK, DataType, PcType
<1> DEFINE Same == /\ deadline' = deadline
                   /\ pc[User] = "st_read" => pc'[User] = "st_read" /\ mine'[User] = mine[User]
                   /\ pc[User] \in {"st_defer", "st_load"} =>
                         pc'[User] \in {"st_defer", "st_load"} /\ dials' = dials
<1>1. ASSUME NEW p \in Procs, CloseStep(p) PROVE Same
  BY <1>1 DEF CloseStep, CloseCheck, CloseFrameBegin, CloseFrameEnd, CloseAbort, CloseShut,
              ShutOk, ShutFails, ShutConn, CloseAbortClear, CloseClear, CloseNotify
<1>2. CASE CallStart \/ CallWrite \/ CallClose \/ DialSucceeds
  BY <1>2 DEF CallStart, CallWrite, CallClose, DialSucceeds
<1>3. CASE AwaitConfirmed \/ AwaitRejected \/ AwaitFails
  BY <1>3 DEF AwaitConfirmed, AwaitRejected, AwaitFails
<1>4. CASE AwaitBegin
  BY <1>4 DEF AwaitBegin, DeferDisarm
<1>5. CASE \/ DialFails \/ ConfigureCheck \/ ConfigureBegin \/ ConfigureEnd \/ AwaitCheck
           \/ StartFail \/ StartClear \/ SpawnReadLoop \/ WriteBegin \/ WriteEnd
  BY <1>5 DEF DialFails, ConfigureCheck, ConfigureBegin, ConfigureEnd, AwaitCheck,
     ChecksConn, StartFail, StartClear, SpawnReadLoop, WriteBegin, WriteEnd
<1>6. ASSUME NEW i \in Loops, LoopStep(i) \/ LoopFrame(i) PROVE Same
  BY <1>1, <1>6 DEF LoopStep, LoopBegin, LoopCheckCtx, LoopLeaves, LoopBroken, LoopFrame
<1>7. CASE \/ \E c \in Sockets : PeerLeaves(c) \/ Cancel(c)
           \/ Rest \/ UNCHANGED vars
  BY <1>7 DEF PeerLeaves, Cancel, Rest, vars
<1> QED
  BY <1>1, <1>2, <1>3, <1>4, <1>5, <1>6, <1>7 DEF Next, UserStep

LEMMA DeadlineStep == TypeInv /\ KeptInv /\ DeadlineInHandshake /\ [Next]_vars => DeadlineInHandshake'
<1> SUFFICES ASSUME TypeInv, KeptInv, DeadlineInHandshake, [Next]_vars PROVE DeadlineInHandshake'
  OBVIOUS
<1>0. ConnNewest
  BY DEF KeptInv
<1> USE ProcFacts DEF DeadlineInHandshake, TypeInv, TypeOK, DataType, PcType, At, Goto
<1>1. CASE ArmDeadline
  <2>1. \A c \in Sockets : ~deadline[c]
    BY <1>1 DEF ArmDeadline
  <2> QED
    BY <1>0, <1>1, <2>1 DEF ArmDeadline, ConnNewest
<1>2. CASE BeginRead
  BY <1>0, <1>2 DEF BeginRead, SocketState, ConnNewest
<1>3. ASSUME NEW to, At(User, "st_read"), AwaitReturns(to) PROVE DeadlineInHandshake'
  BY <1>3 DEF AwaitReturns
<1> QED
  BY <1>1, <1>2, <1>3, DeadlineFrame

\* A loop that is not running is put to work by Start only.
LEMMA LoopsStart ==
    ASSUME TypeInv, OwnInv, [Next]_vars, NEW i \in Loops,
           pc[i] \in {"off", "done"}, pc'[i] \notin {"off", "done"}
    PROVE  \A j \in Loops : j # i => pc'[j] \in {"off", "done"}
<1>1. ASSUME NEW j \in Loops, LoopStep(j) \/ LoopFrame(j) PROVE FALSE
  <2>1. pc[j] \notin {"off", "done"}
    BY <1>1, CloseStepAt, ProcFacts
       DEF LoopStep, LoopFrame, LoopBegin, LoopCheckCtx, LoopLeaves, LoopBroken, Move, At, ClosePCs
  <2>2. pc'[i] = pc[i]
    BY <1>1, <2>1, LoopFrameLemma, ProcFacts
  <2> QED
    BY <2>2
<1>2. CASE UserAction
  BY <1>2, UserFrame DEF OwnInv, StartAlone, StartPCs
<1>3. CASE \/ \E c \in Sockets : PeerLeaves(c) \/ Cancel(c)
           \/ Rest \/ UNCHANGED vars
  BY <1>3 DEF PeerLeaves, Cancel, Rest, vars
<1> QED
  BY <1>1, <1>2, <1>3 DEF Next, UserAction

LEMMA OneLoopStep ==
    ASSUME TypeInv, OwnInv, OneLoop, [Next]_vars
    PROVE  OneLoop'
BY LoopsStart DEF OneLoop

\* Who is reported has met its broken read in this step.
LEMMA ReportsAreBreaks ==
    ASSUME TypeInv, [Next]_vars, NEW i \in Loops, reported'[i] # reported[i]
    PROVE  LoopBroken(i)
<1>1. ~UserAction
  BY UserFrame
<1>2. ~(\/ \E c \in Sockets : PeerLeaves(c) \/ Cancel(c)
        \/ Rest \/ UNCHANGED vars)
  BY DEF PeerLeaves, Cancel, Rest, vars, Ghosts
<1>3. PICK j \in Loops : LoopStep(j) \/ LoopFrame(j)
  BY <1>1, <1>2 DEF Next, UserAction
<1>4. ASSUME CloseStep(j) PROVE reported' = reported
  BY <1>4 DEF CloseStep, CloseCheck, CloseFrameBegin, CloseFrameEnd, CloseAbort, CloseShut,
     ShutOk, ShutFails, CloseAbortClear, CloseClear, CloseNotify, LoadsNil, WriteCollides,
     Panics, BeginWrite, WriteOk, WriteFails, ShutConn, Move, ClearConn, Ghosts
<1>5. LoopBroken(j)
  BY <1>3, <1>4, LoopFrameLemma
<1> QED
  BY <1>5 DEF LoopBroken, TypeInv, TypeOK, DataType

LEMMA DeadlinesHold == Spec => []DeadlineInHandshake
<1>1. Init => DeadlineInHandshake
  BY ProcFacts DEF Init, DeadlineInHandshake
<1> QED
  BY <1>1, DeadlineStep, KeptHolds, PTL DEF Spec

TeardownInv == OneLoop /\ DeadlineInHandshake

\* A read loop gives up only on a connection that ended, for any number of starts of a user who
\* waits for the loop before: neither the deadline of a handshake nor a second reader reaches it.
THEOREM TeardownsHaveCause == Spec => TeardownHasCause
<1>1. Init => OneLoop
  BY ProcFacts DEF Init, OneLoop
<1>2. TypeInv /\ (overlapped \/ OwnInv) /\ (overlapped \/ OneLoop) /\ [Next]_vars
        => (overlapped \/ OneLoop)'
  BY OneLoopStep, OverlapStays
<1>3. Spec => [](TypeInv /\ (overlapped \/ OwnInv) /\ (overlapped \/ TeardownInv))
  BY <1>1, <1>2, OwnHolds, DeadlinesHold, PTL DEF Spec, TeardownInv
<1>4. ASSUME TypeInv, OwnInv, TeardownInv, NEW i \in Loops, LoopBroken(i)
      PROVE  local[mine[i]] = "closed" \/ peer[mine[i]] = "failed"
  <2>1. pc[i] = "rl_read" /\ mine[i] \in Sockets
    BY <1>4, ProcFacts DEF LoopBroken, At, TypeInv, TypeOK, PcType, HoldingPCs
  <2>2. pc[User] \notin {"st_defer", "st_load", "st_read"}
    BY <2>1, <1>4 DEF OwnInv, StartAlone, StartPCs
  <2>3. ~deadline[mine[i]]
    BY <1>4, <2>1, <2>2 DEF TeardownInv, DeadlineInHandshake
  <2>4. ~ReadRaces(i)
    <3>1. SUFFICES ASSUME NEW q \in Procs \ {i}, pc[q] \in {"st_read", "rl_read"} PROVE FALSE
      BY DEF ReadRaces
    <3>2. q = User
      BY <1>4, <2>1, <3>1, ProcFacts DEF TeardownInv, OneLoop
    <3> QED
      BY <2>2, <3>1, <3>2, <1>4, ProcFacts DEF TypeInv, TypeOK, PcType, PcOf, UserPCs, StartPCs, WritePCs, ClosePCs
  <2> QED
    BY <1>4, <2>3, <2>4 DEF LoopBroken
<1>5. TypeInv /\ (overlapped \/ OwnInv) /\ (overlapped \/ TeardownInv) /\ [Next]_vars
        => [\A i \in Loops : reported'[i] # reported[i] /\ ~overlapped
              => local[mine[i]] = "closed" \/ peer[mine[i]] = "failed"]_vars
  BY <1>4, ReportsAreBreaks
<1> QED
  BY <1>3, <1>5, PTL DEF Spec, TeardownHasCause

--------------------------------------------------------------------------------
(* The program uses the session as AvatarSession says: all of the above holds *)
(* of it.                                                                     *)

LEMMA LoopFacts == Loop \in Loops /\ Loop \in Sockets /\ Loop \in Procs /\ Loop # User /\ User \in Procs
BY BoundsAssumption DEF Loop, Loops, Sockets, Procs, User

\* The program sends one clip.
Single == program # "other"

LEMMA OneShotUses == [OneShot]_clipVars => [Next]_vars
<1> SUFFICES ASSUME [OneShot]_clipVars PROVE Next \/ UNCHANGED vars
  OBVIOUS
<1> USE LoopFacts DEF Next
<1>1. CASE CheckRequest \/ InitReturns \/ WaitSelects \/ WaitReads \/ Respond
  BY <1>1 DEF CheckRequest, InitReturns, WaitSelects, WaitReads, Respond
<1>2. CASE CallsStart \/ CallsSendAudio \/ CallsClose
  BY <1>2 DEF CallsStart, CallsSendAudio, CallsClose
<1>3. CASE InCall \/ StartDone \/ SendDone \/ Closing
  BY <1>3 DEF InCall, StartDone, SendDone, Closing, UserStep, WriteEnd
<1>4. CASE CancelContext
  BY <1>4 DEF CancelContext
<1>5. CASE ReadLoop \/ ReadsFrame \/ ReadsError \/ ReadsOther
  BY <1>5 DEF ReadLoop, ReadsFrame, ReadsError, ReadsOther
<1>6. CASE Worker \/ \E p \in Procs : OnClose(p)
  BY <1>6 DEF Worker, TransportFrames, LastFrame, OnError, OnClose, OnCloseReads, OnCloseFinishes
<1>7. CASE Connects \/ ServerLeaves \/ ContextDone
  BY <1>7 DEF Connects, ServerLeaves, ContextDone
<1>8. CASE UNCHANGED clipVars
  BY <1>8 DEF clipVars
<1> QED
  BY <1>1, <1>2, <1>3, <1>4, <1>5, <1>6, <1>7, <1>8 DEF OneShot, Program

\* Each step is one of a one-shot program, or of the session of another program.
LEMMA ByProgram ==
    ASSUME [ClipNext]_clipVars
    PROVE  /\ [OneShot]_clipVars \/ (~Single /\ UNCHANGED clip)
           /\ [Next]_vars
           /\ Single' = Single
<1>1. [OneShot]_clipVars \/ (~Single /\ UNCHANGED clip /\ Next)
  BY DEF ClipNext, Other, Single
<1>2. ASSUME OneShot PROVE program' = program
  BY <1>2 DEF OneShot, Program, Worker, CheckRequest, InitReturns, CallsStart, CallsSendAudio, InCall, StartDone,
     SendDone, WaitSelects, WaitReads, Respond, CallsClose, Closing, CancelContext, ReadLoop,
     ReadsFrame, ReadsError, ReadsOther, TransportFrames, LastFrame, OnError, OnClose, OnCloseReads,
     OnCloseFinishes, Connects, ServerLeaves, ContextDone, clip
<1>3. [Next]_vars
  BY <1>1, OneShotUses
<1>4. program' = program
  BY <1>1, <1>2 DEF clip, clipVars
<1> QED
  BY <1>1, <1>3, <1>4 DEF Single

LEMMA SessionStep == [ClipNext]_clipVars => [Next]_vars
BY ByProgram

\* Whatever the programs do, they use a session as AvatarSession describes, so that each
\* theorem about AvatarSession is one about them.
THEOREM ClipUsesSession == ClipSpec => Spec
<1>1. ClipInit => Init
  BY DEF ClipInit
<1> QED
  BY <1>1, SessionStep, PTL DEF ClipSpec, Spec

--------------------------------------------------------------------------------
(* Types. *)

CollectorType ==
    /\ queue \in Seq(Frames \cup {Error}) /\ worker \in {"idle", "finish"}
    /\ closers \in [Procs -> {"none", "begin", "last", "early", "gone"}]
    /\ frames \in Seq(Frames) /\ last \in BOOLEAN /\ err \in BOOLEAN
    /\ done \in {0, 1}

ProgramType ==
    /\ program \in Programs /\ step \in Steps
    /\ response \in {"none", "refused", "failed", "ok"}
    /\ arrived \in 0..Answer /\ rejected \in BOOLEAN

ClipTypes == ProgramType /\ CollectorType

LEMMA GivesUp == ASSUME ProgramType, GiveUp, UNCHANGED <<program, server>> PROVE ProgramType'
BY DEF ProgramType, GiveUp, server, Steps, Before

LEMMA Goes == ASSUME ProgramType, NEW s \in Steps, Go(s), UNCHANGED <<program, server>> PROVE ProgramType'
BY DEF ProgramType, Go, server

LEMMA ProgramTypes ==
    ASSUME ClipTypes, Program
    PROVE  ClipTypes'
<1> USE DEF Steps, Before, ClipTypes
<1>1. CASE CheckRequest \/ InitReturns \/ CallsStart \/ CallsSendAudio \/ StartDone \/ SendDone \/ WaitSelects \/ WaitReads
  <2>1. CollectorType'
    BY <1>1 DEF CollectorType, CheckRequest, InitReturns, CallsStart, CallsSendAudio, StartDone, SendDone, WaitSelects, WaitReads, callbacks, collector
  <2>2. CASE CheckRequest
    BY <2>1, <2>2, Goes DEF CheckRequest, ProgramType, server
  <2>3. CASE ~CheckRequest
    BY <1>1, <2>1, <2>3, Goes, GivesUp DEF InitReturns, CallsStart, CallsSendAudio, StartDone, SendDone, WaitSelects, WaitReads
  <2> QED
    BY <2>2, <2>3
<1>2. CASE InCall
  BY <1>2 DEF InCall, clip, server, callbacks, collector, ProgramType, CollectorType
<1>3. CASE Respond
  BY <1>3 DEF Respond, server, callbacks, collector, ProgramType, CollectorType
<1>4. CASE CallsClose \/ CancelContext
  BY <1>4, Goes DEF CallsClose, CancelContext, callbacks, collector, CollectorType
<1>5. CASE Closing
  <2>1. ProgramType'
    BY <1>5, Goes DEF Closing
  <2>2. CollectorType'
    BY <1>5, LoopFacts DEF Closing, collector, CollectorType, LaunchOnClose
  <2> QED
    BY <2>1, <2>2
<1> QED
  BY <1>1, <1>2, <1>3, <1>4, <1>5 DEF Program

LEMMA ClipTypesStep == ClipTypes /\ [OneShot]_clipVars => ClipTypes'
<1> SUFFICES ASSUME ClipTypes, [OneShot]_clipVars PROVE ClipTypes'
  OBVIOUS
<1> USE LoopFacts, AnswerAssumption DEF ClipTypes, ProgramType, CollectorType, server, callbacks, collector
<1>1. CASE Program
  BY <1>1, ProgramTypes
<1>2. CASE ReadLoop
  <2>1. queue' \in Seq(Frames \cup {Error})
    BY <1>2 DEF ReadLoop
  <2>2. closers' \in [Procs -> {"none", "begin", "last", "early", "gone"}]
    BY <1>2 DEF ReadLoop, LaunchOnClose
  <2> QED
    BY <1>2, <2>1, <2>2 DEF ReadLoop
<1>3. CASE ReadsFrame
  <2>1. arrived' \in 0..Answer /\ arrived' \in Frames
    BY <1>3 DEF ReadsFrame, Frames
  <2>2. queue' \in Seq(Frames \cup {Error})
    BY <1>3, <2>1 DEF ReadsFrame
  <2> QED
    BY <1>3, <2>1, <2>2 DEF ReadsFrame
<1>4. CASE ReadsError
  <2>1. queue' \in Seq(Frames \cup {Error})
    BY <1>4 DEF ReadsError
  <2> QED
    BY <1>4, <2>1 DEF ReadsError
<1>5. CASE TransportFrames
  <2>1. Head(queue) \in Frames /\ Tail(queue) \in Seq(Frames \cup {Error})
    BY <1>5 DEF TransportFrames
  <2>2. frames' \in Seq(Frames)
    BY <1>5, <2>1 DEF TransportFrames
  <2> QED
    BY <1>5, <2>1, <2>2 DEF TransportFrames
<1>6. CASE LastFrame
  BY <1>6 DEF LastFrame, Finish
<1>7. CASE OnError
  <2>1. Tail(queue) \in Seq(Frames \cup {Error})
    BY <1>7 DEF OnError
  <2> QED
    BY <1>7, <2>1 DEF OnError, Finish
<1>8. ASSUME NEW p \in Procs, OnClose(p) PROVE ClipTypes'
  <2>1. closers' \in [Procs -> {"none", "begin", "last", "early", "gone"}]
    BY <1>8 DEF OnClose, OnCloseReads, OnCloseFinishes
  <2>2. err' \in BOOLEAN /\ done' \in {0, 1}
    BY <1>8 DEF OnClose, OnCloseReads, OnCloseFinishes, Finish
  <2> QED
    BY <1>8, <2>1, <2>2 DEF OnClose, OnCloseReads, OnCloseFinishes
<1>9. CASE ReadsOther \/ Connects \/ ServerLeaves \/ ContextDone \/ UNCHANGED clipVars
  BY <1>9 DEF ReadsOther, Connects, ServerLeaves, ContextDone, clipVars, clip
<1> QED
  BY <1>1, <1>2, <1>3, <1>4, <1>5, <1>6, <1>7, <1>8, <1>9 DEF OneShot, Worker

\* Other programs leave all of it alone.
LEMMA ClipTypesKeep == ClipTypes /\ UNCHANGED clip => ClipTypes'
BY DEF clip, server, callbacks, collector, ClipTypes, ProgramType, CollectorType

LEMMA ClipTypesHold == ClipSpec => []ClipTypes
<1>1. ASSUME ClipInit PROVE ClipTypes
  <2>1. ProgramType
    <3>1. program \in Programs /\ step = "check" /\ response = "none" /\ arrived = 0
      BY <1>1 DEF ClipInit
    <3>2. rejected \in BOOLEAN
      BY <1>1 DEF ClipInit
    <3> QED
      BY <3>1, <3>2, AnswerAssumption DEF ProgramType, Steps, Before
  <2>2. queue \in Seq(Frames \cup {Error}) /\ frames \in Seq(Frames)
    BY <1>1 DEF ClipInit
  <2>3. closers \in [Procs -> {"none", "begin", "last", "early", "gone"}]
    BY <1>1 DEF ClipInit
  <2>4. worker \in {"idle", "finish"} /\ last \in BOOLEAN /\ err \in BOOLEAN /\ done \in {0, 1}
    BY <1>1 DEF ClipInit
  <2> QED
    BY <2>1, <2>2, <2>3, <2>4 DEF ClipTypes, CollectorType
<1> QED
  BY <1>1, ClipTypesStep, ClipTypesKeep, ByProgram, PTL DEF ClipSpec

\* Every variable of the program and of its collector keeps its type; the collector's channel is
\* closed at most once, whatever finishes it.
THEOREM ClipTypeCorrect == ClipSpec => []ClipTypeOK
<1>1. TypeOK /\ ClipTypes => ClipTypeOK
  BY DEF ClipTypes, ProgramType, CollectorType, ClipTypeOK
<1> QED
  BY <1>1, ClipUsesSession, TypeCorrect, ClipTypesHold, PTL

--------------------------------------------------------------------------------
(* Success is complete.  What the read loop has read reaches the collector in *)
(* order, and nothing but an error or the last frame ends the wait.           *)

\* The frames n + 1 to a wait in the queue q, in order.
Ordered(q, n, a) ==
    /\ { q[k] : k \in DOMAIN q } \ {Error} = n + 1..a
    /\ \A j, k \in DOMAIN q : j < k /\ q[j] # Error /\ q[k] # Error => q[j] < q[k]

InOrder ==
    /\ Len(frames) <= arrived
    /\ \A k \in 1..Len(frames) : frames[k] = k
    /\ Ordered(queue, Len(frames), arrived)

\* Whoever ends the wait without an error has seen the last frame collected.
EndsAfterLast ==
    /\ last <=> Len(frames) = Answer
    /\ worker = "finish" => last
    /\ \A p \in Procs : closers[p] = "last" => last
    /\ done > 0 => err \/ last
    /\ step = "read" => done > 0
    /\ step = "respond" => last

LEMMA Appends ==
    ASSUME NEW S, NEW q \in Seq(S), NEW e \in S
    PROVE  /\ Append(q, e) \in Seq(S) /\ Len(Append(q, e)) = Len(q) + 1 /\ Len(q) \in Nat
           /\ DOMAIN q = 1..Len(q) /\ DOMAIN Append(q, e) = 1..Len(q) + 1
           /\ Append(q, e)[Len(q) + 1] = e
           /\ \A k \in 1..Len(q) : Append(q, e)[k] = q[k]
OBVIOUS

LEMMA Tails ==
    ASSUME NEW S, NEW q \in Seq(S), q # <<>>
    PROVE  /\ Len(q) \in Nat /\ Len(q) >= 1 /\ Head(q) = q[1] /\ Tail(q) \in Seq(S)
           /\ DOMAIN q = 1..Len(q) /\ DOMAIN Tail(q) = 1..Len(q) - 1
           /\ \A k \in 1..Len(q) - 1 : Tail(q)[k] = q[k + 1]
OBVIOUS

LEMMA OrderedError ==
    ASSUME NEW q \in Seq(Nat), NEW n, NEW a, Ordered(q, n, a)
    PROVE  Ordered(Append(q, Error), n, a)
<1> DEFINE r == Append(q, Error)
<1>1. /\ Len(q) \in Nat /\ DOMAIN q = 1..Len(q) /\ DOMAIN r = 1..Len(q) + 1
      /\ r[Len(q) + 1] = Error /\ \A k \in 1..Len(q) : r[k] = q[k]
  BY Appends DEF Error
<1> HIDE DEF r
<1>2. { r[k] : k \in DOMAIN r } \ {Error} = { q[k] : k \in DOMAIN q } \ {Error}
  BY <1>1
<1> QED
  BY <1>1, <1>2 DEF Ordered, r

LEMMA OrderedAppend ==
    ASSUME NEW q \in Seq(Nat), NEW n \in Nat, NEW a \in Nat, n <= a, Ordered(q, n, a)
    PROVE  Ordered(Append(q, a + 1), n, a + 1)
<1> DEFINE r == Append(q, a + 1)
<1>1. /\ Len(q) \in Nat /\ DOMAIN q = 1..Len(q) /\ DOMAIN r = 1..Len(q) + 1
      /\ r[Len(q) + 1] = a + 1 /\ \A k \in 1..Len(q) : r[k] = q[k]
  BY Appends
<1> HIDE DEF r
<1>2. \A k \in DOMAIN q : q[k] # Error => q[k] \in n + 1..a
  BY DEF Ordered
<1>3. { r[k] : k \in DOMAIN r } = { q[k] : k \in DOMAIN q } \cup {a + 1}
  BY <1>1
<1>4. { r[k] : k \in DOMAIN r } \ {Error} = n + 1..a + 1
  <2>1. a + 1 # Error /\ n + 1..a + 1 = n + 1..a \cup {a + 1}
    BY DEF Error
  <2>2. { q[k] : k \in DOMAIN q } \ {Error} = n + 1..a
    BY DEF Ordered
  <2> QED
    BY <1>3, <2>1, <2>2
<1>5. \A j, k \in DOMAIN r : j < k /\ r[j] # Error /\ r[k] # Error => r[j] < r[k]
  <2> SUFFICES ASSUME NEW j \in DOMAIN r, NEW k \in DOMAIN r, j < k, r[j] # Error, r[k] # Error
               PROVE  r[j] < r[k]
    OBVIOUS
  <2>1. j \in DOMAIN q /\ r[j] = q[j]
    BY <1>1
  <2>2. CASE k = Len(q) + 1
    BY <1>1, <1>2, <2>1, <2>2
  <2>3. CASE k # Len(q) + 1
    BY <1>1, <2>1, <2>3 DEF Ordered
  <2> QED
    BY <2>2, <2>3
<1> QED
  BY <1>4, <1>5 DEF Ordered, r

LEMMA OrderedTail ==
    ASSUME NEW q \in Seq(Nat), q # <<>>, NEW n \in Nat, NEW a \in Nat, Ordered(q, n, a)
    PROVE  /\ Head(q) = Error => Ordered(Tail(q), n, a)
           /\ Head(q) # Error => Head(q) = n + 1 /\ n < a /\ Ordered(Tail(q), n + 1, a)
<1> DEFINE t == Tail(q)
<1>1. /\ Len(q) \in Nat /\ Len(q) >= 1 /\ Head(q) = q[1] /\ DOMAIN q = 1..Len(q)
      /\ DOMAIN t = 1..Len(q) - 1 /\ \A k \in 1..Len(q) - 1 : t[k] = q[k + 1]
  BY Tails
<1> HIDE DEF t
<1>2. { q[k] : k \in DOMAIN q } = { t[k] : k \in DOMAIN t } \cup {q[1]}
  <2>1. ASSUME NEW k \in DOMAIN q, k # 1 PROVE k - 1 \in DOMAIN t /\ t[k - 1] = q[k]
    BY <1>1, <2>1
  <2>2. 1 \in DOMAIN q
    BY <1>1
  <2>3. ASSUME NEW k \in DOMAIN t PROVE k + 1 \in DOMAIN q /\ t[k] = q[k + 1]
    BY <1>1
  <2> QED
    BY <2>1, <2>2, <2>3
<1>a. ASSUME NEW j \in DOMAIN q, NEW k \in DOMAIN q, j < k, q[j] # Error, q[k] # Error
      PROVE  q[j] < q[k]
  BY <1>a DEF Ordered
<1>3. ASSUME NEW j \in DOMAIN t, NEW k \in DOMAIN t, j < k, t[j] # Error, t[k] # Error
      PROVE  t[j] < t[k]
  <2>1. j + 1 \in DOMAIN q /\ k + 1 \in DOMAIN q /\ j + 1 < k + 1
    BY <1>1, <1>3
  <2>2. t[j] = q[j + 1] /\ t[k] = q[k + 1]
    BY <1>1
  <2> QED
    BY <1>a, <1>3, <2>1, <2>2
<1>4. CASE Head(q) = Error
  BY <1>1, <1>2, <1>3, <1>4 DEF Ordered, t
<1>5. CASE Head(q) # Error
  <2>1. q[1] \in n + 1..a
    BY <1>1, <1>5 DEF Ordered
  <2>2. ASSUME NEW k \in DOMAIN t, t[k] # Error PROVE q[1] < t[k]
    <3>1. k + 1 \in DOMAIN q /\ 1 \in DOMAIN q /\ 1 < k + 1 /\ t[k] = q[k + 1]
      BY <1>1
    <3> QED
      BY <1>1, <1>5, <1>a, <2>2, <3>1
  <2>3. q[1] = n + 1
    <3>1. n + 1 \in { t[k] : k \in DOMAIN t } \cup {q[1]}
      <4>1. n + 1 \in n + 1..a
        BY <2>1
      <4>2. n + 1 \in { q[k] : k \in DOMAIN q }
        BY <4>1 DEF Ordered
      <4> QED
        BY <1>2, <4>2
    <3>2. n + 1 # Error
      BY DEF Error
    <3> QED
      BY <2>1, <2>2, <3>1, <3>2
  <2>4. { t[k] : k \in DOMAIN t } \ {Error} = n + 2..a
    <3>1. { t[k] : k \in DOMAIN t } \ {Error} \subseteq n + 1..a
      BY <1>2 DEF Ordered
    <3>2. n + 1 \notin { t[k] : k \in DOMAIN t } \ {Error}
      BY <2>2, <2>3
    <3>3. n + 1..a \ {n + 1} \subseteq { t[k] : k \in DOMAIN t } \ {Error}
      BY <1>2, <2>3 DEF Ordered
    <3> QED
      BY <3>1, <3>2, <3>3
  <2> QED
    BY <1>1, <1>3, <2>1, <2>3, <2>4 DEF Ordered, t
<1> QED
  BY <1>4, <1>5

LEMMA SequenceFacts ==
    ASSUME ClipTypes
    PROVE  /\ queue \in Seq(Nat) /\ frames \in Seq(Frames) /\ Len(frames) \in Nat /\ arrived \in Nat
           /\ arrived <= Answer /\ Answer \in Nat /\ Answer > 0 /\ Error \in Nat
<1>1. Frames \cup {Error} \subseteq Nat
  BY DEF Frames, Error
<1>2. queue \in Seq(Nat)
  <2>1. /\ queue = [k \in 1..Len(queue) |-> queue[k]] /\ Len(queue) \in Nat
        /\ \A k \in 1..Len(queue) : queue[k] \in Frames \cup {Error}
    BY DEF ClipTypes, CollectorType
  <2>2. \A k \in 1..Len(queue) : queue[k] \in Nat
    BY <1>1, <2>1
  <2> QED
    BY <2>1, <2>2, IsASeq
<1> QED
  BY <1>2, AnswerAssumption DEF ClipTypes, CollectorType, ProgramType, Error

\* The frames are read, dispatched and collected by three actions; no other touches their order.
LEMMA OrderStep == ClipTypes /\ InOrder /\ [OneShot]_clipVars => InOrder'
<1> SUFFICES ASSUME ClipTypes, InOrder, [OneShot]_clipVars PROVE InOrder'
  OBVIOUS
<1> USE SequenceFacts DEF InOrder
<1>1. ASSUME UNCHANGED <<frames, arrived>>, queue' = queue \/ queue' = Append(queue, Error) PROVE InOrder'
  BY <1>1, OrderedError
<1>2. CASE ReadsFrame
  <2>1. Ordered(Append(queue, arrived + 1), Len(frames), arrived + 1)
    BY OrderedAppend
  <2> QED
    BY <1>2, <2>1 DEF ReadsFrame, collector
<1>3. CASE TransportFrames
  <2>1. Head(queue) = Len(frames) + 1 /\ Len(frames) < arrived /\ Ordered(Tail(queue), Len(frames) + 1, arrived)
    BY <1>3, OrderedTail DEF TransportFrames
  <2>2. Head(queue) \in Frames
    BY <2>1 DEF Frames
  <2>3. /\ Len(frames') = Len(frames) + 1 /\ frames'[Len(frames) + 1] = Len(frames) + 1
        /\ \A k \in 1..Len(frames) : frames'[k] = k
    BY <1>3, <2>1, <2>2, Appends DEF TransportFrames
  <2>4. queue' = Tail(queue) /\ arrived' = arrived
    BY <1>3 DEF TransportFrames, server
  <2> QED
    BY <2>1, <2>3, <2>4
<1>4. CASE OnError
  BY <1>4, OrderedTail DEF OnError, server
<1>5. CASE Program
  BY <1>1, <1>5 DEF Program, CheckRequest, InitReturns, CallsStart, CallsSendAudio, InCall, StartDone, SendDone,
     WaitSelects, WaitReads, Respond, CallsClose, Closing, CancelContext, clip, server, callbacks, collector
<1>6. CASE ReadLoop \/ ReadsError \/ ReadsOther
  BY <1>1, <1>6 DEF ReadLoop, ReadsError, ReadsOther, clip, server, callbacks, collector
<1>7. CASE LastFrame \/ \E p \in Procs : OnClose(p)
  BY <1>1, <1>7 DEF LastFrame, OnClose, OnCloseReads, OnCloseFinishes, server, callbacks, collector
<1>8. CASE Connects \/ ServerLeaves \/ ContextDone \/ UNCHANGED clipVars
  BY <1>1, <1>8 DEF Connects, ServerLeaves, ContextDone, clipVars, clip, server, callbacks, collector
<1> QED
  BY <1>2, <1>3, <1>4, <1>5, <1>6, <1>7, <1>8 DEF OneShot, Worker

LEMMA EndStep == ClipTypes /\ InOrder /\ EndsAfterLast /\ [OneShot]_clipVars => EndsAfterLast'
<1> SUFFICES ASSUME ClipTypes, InOrder, EndsAfterLast, [OneShot]_clipVars PROVE EndsAfterLast'
  OBVIOUS
<1> USE SequenceFacts, LoopFacts DEF EndsAfterLast
\* Steps that leave the collector alone, and may launch an OnClose.
<1>1. ASSUME UNCHANGED <<collector, worker>>, NEW p \in Procs, LaunchOnClose(p) \/ closers' = closers,
             step' = "read" => step = "read" \/ done > 0, step' = "respond" => step = "respond" \/ last
      PROVE  EndsAfterLast'
  <2>1. \A q \in Procs : closers'[q] = "last" => closers[q] = "last"
    BY <1>1 DEF LaunchOnClose, ClipTypes, CollectorType
  <2> QED
    BY <1>1, <2>1 DEF collector
<1>2. CASE CheckRequest \/ InitReturns \/ CallsStart \/ CallsSendAudio \/ StartDone \/ SendDone
  BY <1>1, <1>2 DEF CheckRequest, InitReturns, CallsStart, CallsSendAudio, StartDone, SendDone, Go, GiveUp, callbacks
<1>3. CASE InCall
  BY <1>1, <1>3 DEF InCall, clip, callbacks
<1>4. CASE WaitSelects
  BY <1>1, <1>4 DEF WaitSelects, Go, GiveUp, callbacks
<1>5. CASE WaitReads
  BY <1>1, <1>5 DEF WaitReads, Go, GiveUp, callbacks, AtStep
<1>6. CASE Respond \/ CallsClose \/ CancelContext
  BY <1>1, <1>6 DEF Respond, CallsClose, CancelContext, Go, callbacks
<1>7. CASE Closing
  BY <1>1, <1>7 DEF Closing, Go
<1>8. CASE ReadLoop \/ ReadsFrame \/ ReadsError \/ ReadsOther \/ Connects \/ ServerLeaves \/ ContextDone
           \/ UNCHANGED clipVars
  BY <1>1, <1>8 DEF ReadLoop, ReadsFrame, ReadsError, ReadsOther, Connects, ServerLeaves, ContextDone,
     clipVars, clip, callbacks
<1>9. CASE TransportFrames
  <2>1. Head(queue) = Len(frames) + 1 /\ Len(frames) < arrived
    BY <1>9, OrderedTail DEF TransportFrames, InOrder
  <2>2. Len(frames') = Len(frames) + 1
    BY <1>9 DEF TransportFrames
  <2>3. ~last
    BY <2>1
  <2> QED
    BY <1>9, <2>1, <2>2, <2>3 DEF TransportFrames
<1>10. CASE LastFrame
  BY <1>10 DEF LastFrame, Finish
<1>11. CASE OnError
  <2>1. err' /\ done' = 1
    BY <1>11 DEF OnError, Finish
  <2> QED
    BY <1>11, <2>1 DEF OnError
<1>12. ASSUME NEW p \in Procs, OnCloseReads(p) PROVE EndsAfterLast'
  BY <1>12 DEF OnCloseReads, collector, ClipTypes, CollectorType
<1>13. ASSUME NEW p \in Procs, OnCloseFinishes(p) PROVE EndsAfterLast'
  <2>1. closers[p] = "last" \/ closers[p] = "early"
    BY <1>13 DEF OnCloseFinishes
  <2>2. err' = (err \/ closers[p] = "early") /\ done' = 1
    BY <1>13 DEF OnCloseFinishes, Finish
  <2>3. err' \/ last
    BY <2>1, <2>2
  <2>4. \A q \in Procs : closers'[q] = "last" => closers[q] = "last"
    BY <1>13 DEF OnCloseFinishes, ClipTypes, CollectorType
  <2> QED
    BY <1>13, <2>2, <2>3, <2>4 DEF OnCloseFinishes
<1> QED
  BY <1>2, <1>3, <1>4, <1>5, <1>6, <1>7, <1>8, <1>9, <1>10, <1>11, <1>12, <1>13
     DEF OneShot, Program, Worker, OnClose

LEMMA CompleteHolds == ClipSpec => [](ClipTypes /\ InOrder /\ EndsAfterLast)
<1>1. ASSUME ClipInit PROVE InOrder /\ EndsAfterLast
  <2>1. Len(frames) = 0 /\ arrived = 0 /\ DOMAIN queue = {} /\ 0..0 = {0} /\ 1..0 = {}
    BY <1>1 DEF ClipInit
  <2>2. InOrder
    BY <2>1 DEF InOrder, Ordered
  <2> QED
    BY <1>1, <2>1, <2>2, AnswerAssumption DEF ClipInit, EndsAfterLast
<1>2. (InOrder /\ EndsAfterLast) /\ UNCHANGED clip => (InOrder /\ EndsAfterLast)'
  BY DEF clip, server, callbacks, collector, InOrder, EndsAfterLast
<1>3. ClipTypes /\ InOrder /\ EndsAfterLast /\ [ClipNext]_clipVars => (InOrder /\ EndsAfterLast)'
  BY <1>2, ByProgram, OrderStep, EndStep
<1> QED
  BY <1>1, <1>3, ClipTypesHold, PTL DEF ClipSpec

\* A caller that is told of success gets the whole answer in order, for an answer of any length and
\* whatever the read loop, the dispatcher and the goroutines of OnClose do meanwhile.
THEOREM SuccessesAreComplete == ClipSpec => SuccessIsComplete
<1>1. ClipTypes /\ InOrder /\ EndsAfterLast /\ [ClipNext]_clipVars
        => [response # "ok" /\ response' = "ok" => frames = [i \in Frames |-> i]]_clipVars
  <2> SUFFICES ASSUME ClipTypes, InOrder, EndsAfterLast, [ClipNext]_clipVars,
                      response # "ok", response' = "ok"
               PROVE  frames = [i \in Frames |-> i]
    OBVIOUS
  <2>0. [OneShot]_clipVars
    BY ByProgram DEF clip
  <2>1. Respond
    BY <2>0 DEF OneShot, Program, Worker, CheckRequest, InitReturns, CallsStart, CallsSendAudio, InCall, StartDone,
       SendDone, WaitSelects, WaitReads, CallsClose, Closing, CancelContext, Go, GiveUp, ReadLoop,
       ReadsFrame, ReadsError, ReadsOther, TransportFrames, LastFrame, OnError, OnClose, OnCloseReads,
       OnCloseFinishes, Connects, ServerLeaves, ContextDone, clipVars, clip
  <2>2. Len(frames) = Answer
    BY <2>1 DEF Respond, AtStep, EndsAfterLast
  <2> QED
    BY <2>2, SequenceFacts DEF InOrder, Frames
<1> QED
  BY <1>1, CompleteHolds, PTL DEF ClipSpec, SuccessIsComplete

--------------------------------------------------------------------------------
(* A failure has a cause.  The program is in one call of the session at a     *)
(* time; as long as neither the server, the network nor the context has ended *)
(* the request, its connection stays usable and no failure is under way.      *)

InCallPCs(s) == CASE s = "starting" -> StartPCs
                  [] s = "sending"  -> WritePCs
                  [] s = "closing"  -> ClosePCs
                  [] OTHER          -> {"idle"}

CallsMatch == pc[User] \in InCallPCs(step)

\* Where a step of the user leaves the user.
LEMMA UserStays ==
    ASSUME TypeInv, UserStep
    PROVE  /\ pc[User] \in StartPCs => pc'[User] \in StartPCs \cup {"idle"}
           /\ pc[User] \in WritePCs => pc'[User] \in WritePCs \cup {"idle"}
           /\ pc[User] # "idle"
<1> USE ProcFacts DEF TypeInv, TypeOK, PcType, Goto, At, StartPCs, WritePCs, Ghosts
<1>1. CASE DialFails \/ ConfigureCheck \/ AwaitCheck \/ StartFail \/ StartClear
  BY <1>1 DEF DialFails, ConfigureCheck, AwaitCheck, ChecksConn, StartFail, StartClear, Move, ClearConn
<1>2. CASE SpawnReadLoop
  <2>1. dials \in Loops
    BY <1>2, FromType, ProcFacts DEF SpawnReadLoop, DialledPCs
  <2> QED
    BY <1>2, <2>1 DEF SpawnReadLoop
<1>3. CASE ConfigureBegin \/ ConfigureEnd \/ WriteBegin \/ WriteEnd
  BY <1>3 DEF ConfigureBegin, ConfigureEnd, WriteBegin, WriteEnd, LoadsNil, WriteCollides,
     Panics, BeginWrite, WriteOk, WriteFails
<1>4. CASE AwaitBegin \/ AwaitFails
  BY <1>4 DEF AwaitBegin, LoadsNil, Panics, ArmDeadline, DeferDisarm, BeginRead, AwaitFails, AwaitReturns
<1>5. CASE CloseStep(User)
  BY <1>5, CloseStepAt DEF ClosePCs
<1> QED
  BY <1>1, <1>2, <1>3, <1>4, <1>5 DEF UserStep

\* Where a step of Close leaves the user.
LEMMA CloserStays ==
    ASSUME TypeInv, CloseStep(User)
    PROVE  pc'[User] \in ClosePCs \cup {"idle"}
BY ProcFacts DEF TypeInv, TypeOK, PcType, Goto, At, ClosePCs, CloseStep, CloseCheck, CloseFrameBegin, CloseFrameEnd,
   CloseAbort, CloseShut, ShutOk, ShutFails, CloseAbortClear, CloseClear, CloseNotify, LoadsNil, WriteCollides,
   Panics, BeginWrite, WriteOk, WriteFails, ShutConn, Move, ClearConn, Returned

LEMMA MatchStep == TypeInv /\ ClipTypes /\ CallsMatch /\ [OneShot]_clipVars => CallsMatch'
<1> SUFFICES ASSUME TypeInv, ClipTypes, CallsMatch, [OneShot]_clipVars PROVE CallsMatch'
  OBVIOUS
<1> USE LoopFacts DEF CallsMatch
<1>0. pc \in [Procs -> UserPCs \cup LoopPCs]
  BY DEF TypeInv, TypeOK, PcType
\* Between two calls the program moves on, or waits.
<1>1. ASSUME pc' = pc, pc[User] = "idle", step' \notin {"starting", "sending", "closing"} PROVE CallsMatch'
  BY <1>1 DEF InCallPCs
<1>2. ASSUME pc'[User] = pc[User], step' = step PROVE CallsMatch'
  BY <1>2
<1>3. CASE CheckRequest \/ InitReturns \/ WaitSelects \/ WaitReads \/ Respond
  BY <1>1, <1>3 DEF CheckRequest, InitReturns, WaitSelects, WaitReads, Respond, AtStep, Go, GiveUp, vars, InCallPCs
<1>4. CASE CancelContext
  BY <1>1, <1>4 DEF CancelContext, AtStep, Go, vars, InCallPCs, Cancel
<1>5. CASE CallsStart
  BY <1>0, <1>1, <1>5 DEF CallsStart, CallStart, AtStep, Goto, Go, GiveUp, vars, InCallPCs, StartPCs
<1>6. CASE CallsSendAudio
  BY <1>0, <1>1, <1>6 DEF CallsSendAudio, CallWrite, Move, AtStep, Goto, Go, GiveUp, vars, InCallPCs, WritePCs
<1>7. CASE CallsClose
  BY <1>0, <1>7 DEF CallsClose, CallClose, AtStep, Goto, Go, InCallPCs, ClosePCs
<1>8. CASE InCall
  BY <1>8, UserStays DEF InCall, InCallPCs, clip
<1>9. CASE StartDone
  <2>1. pc'[User] = "idle"
    <3>1. CASE SpawnReadLoop
      <4>1. dials \in Loops
        BY <3>1, FromType, ProcFacts DEF SpawnReadLoop, DialledPCs, StartPCs
      <4> QED
        BY <1>0, <3>1, <4>1, ProcFacts DEF SpawnReadLoop
    <3>2. CASE DialFails \/ StartClear
      BY <1>0, <3>2 DEF DialFails, StartClear, Move, ClearConn, Goto
    <3> QED
      BY <1>9, <3>1, <3>2 DEF StartDone
  <2> QED
    BY <1>9, <2>1 DEF StartDone, Go, GiveUp, InCallPCs
<1>10. CASE SendDone
  <2>1. pc'[User] = "idle"
    BY <1>0, <1>10 DEF SendDone, WriteOk, WriteFails, Goto
  <2> QED
    BY <1>10, <2>1 DEF SendDone, Go, GiveUp, InCallPCs
<1>11. CASE Closing
  BY <1>11, CloserStays DEF Closing, Go, InCallPCs
<1>12. CASE ReadLoop \/ ReadsFrame \/ ReadsError \/ ReadsOther
  <2>1. pc'[User] = pc[User]
    BY <1>12, LoopFrameLemma DEF ReadLoop, ReadsFrame, ReadsError, ReadsOther
  <2> QED
    BY <1>2, <1>12, <2>1 DEF ReadLoop, ReadsFrame, ReadsError, ReadsOther, clip
<1>13. CASE Worker \/ \E p \in Procs : OnClose(p)
  BY <1>2, <1>13 DEF Worker, TransportFrames, LastFrame, OnError, OnClose, OnCloseReads, OnCloseFinishes, vars
<1>14. CASE Connects
  BY <1>0, <1>14 DEF Connects, DialSucceeds, AwaitConfirmed, AwaitRejected, AwaitReturns, Goto, At, InCallPCs, StartPCs,
     WritePCs, ClosePCs, clip
<1>15. CASE ServerLeaves \/ ContextDone \/ UNCHANGED clipVars
  BY <1>2, <1>15 DEF ServerLeaves, ContextDone, PeerLeaves, Cancel, clipVars, vars, clip
<1> QED
  BY <1>3, <1>4, <1>5, <1>6, <1>7, <1>8, <1>9, <1>10, <1>11, <1>12, <1>13, <1>14, <1>15 DEF OneShot, Program

LEMMA MatchHolds == ClipSpec => [](TypeInv /\ ClipTypes /\ (Single => CallsMatch))
<1>1. ClipInit => TypeInv /\ CallsMatch
  BY LoopFacts, TypeInit DEF ClipInit, Init, CallsMatch, InCallPCs
<1>2. TypeInv /\ [ClipNext]_clipVars => TypeInv'
  BY SessionStep, TypeStep
<1>3. TypeInv /\ ClipTypes /\ (Single => CallsMatch) /\ [ClipNext]_clipVars => (Single => CallsMatch)'
  BY ByProgram, MatchStep
<1> QED
  BY <1>1, <1>2, <1>3, ClipTypesHold, PTL DEF ClipSpec

--------------------------------------------------------------------------------

Cause    == cancelled[Loop] \/ peer[Loop] # "up" \/ rejected
Open     == {"send", "sending", "wait", "read"}
Awaiting == Before \cup {"wait", "read"}

NoFailure ==
    /\ ~err
    /\ \A k \in DOMAIN queue : queue[k] # Error
    /\ \A p \in Procs : closers[p] = "none"

\* The connection of the program is the one of s.conn, and takes writes.
Usable == dials = Loop /\ conn = Loop /\ local[Loop] = "open" /\ ~writeErr[Loop]

NotDialled == conn = nil /\ dials = 0 /\ ~writeErr[Loop]

Connected ==
    /\ step \in {"check", "init", "start"} \/ pc[User] = "st_dial" => NotDialled
    /\ step \in Open \/ pc[User] \in DialledPCs \ {"st_fail", "st_nil"} => Usable
    /\ \A p \in {User, Loop} : pc[p] \in HoldingPCs => mine[p] = Loop

Reading ==
    /\ \A i \in Loops \ {Loop} : pc[i] = "off"
    /\ pc[Loop] \in IF step \in Open THEN {"rl_begin", "rl_ctx", "rl_read"} ELSE {"off"}

Healthy == NoFailure /\ Connected /\ Reading

\* Until the program has its answer or a failure, nothing has gone wrong that has no cause.
FailureInv == step \in Awaiting /\ ~Cause => Healthy

\* What has ended a connection does not go away.
LEMMA EndsStay ==
    ASSUME TypeInv, [Next]_vars, NEW c \in Sockets
    PROVE  (cancelled[c] => cancelled'[c]) /\ (peer[c] # "up" => peer'[c] # "up")
<1> USE DEF Ghosts, SocketState, Move, ClearConn, Panics, LoadsNil, BeginWrite, WriteCollides,
            WriteOk, WriteFails
<1> DEFINE Same == UNCHANGED <<cancelled, peer>>
<1>1. ASSUME NEW p, CloseStep(p) PROVE Same
  BY <1>1 DEF CloseStep, CloseCheck, CloseFrameBegin, CloseFrameEnd, CloseAbort, CloseShut,
              ShutOk, ShutFails, ShutConn, CloseAbortClear, CloseClear, CloseNotify
<1>2. CASE CallStart \/ CallWrite \/ CallClose \/ DialSucceeds \/ AwaitConfirmed \/ AwaitRejected
  BY <1>2 DEF CallStart, CallWrite, CallClose, DialSucceeds, AwaitConfirmed, AwaitRejected, AwaitReturns
<1>3. CASE UserStep
  BY <1>1, <1>3 DEF UserStep, DialFails, ConfigureCheck, ConfigureBegin, ConfigureEnd, AwaitCheck,
     ChecksConn, AwaitBegin, ArmDeadline, DeferDisarm, BeginRead, AwaitFails, AwaitReturns, StartFail, StartClear,
     SpawnReadLoop, WriteBegin, WriteEnd
<1>4. ASSUME NEW i \in Loops, LoopStep(i) \/ LoopFrame(i) PROVE Same
  BY <1>1, <1>4 DEF LoopStep, LoopBegin, LoopCheckCtx, LoopLeaves, LoopBroken, LoopFrame
<1>5. CASE Rest \/ UNCHANGED vars
  BY <1>5 DEF Rest, vars
<1>6. CASE \E d \in Sockets : PeerLeaves(d) \/ Cancel(d)
  BY <1>6 DEF PeerLeaves, Cancel, Readable, TypeInv, TypeOK, DataType
<1> QED
  BY <1>2, <1>3, <1>4, <1>5, <1>6 DEF Next

LEMMA CauseStays ==
    ASSUME TypeInv, [OneShot]_clipVars, ~Cause'
    PROVE  ~Cause
<1>1. rejected => rejected'
  BY DEF OneShot, Program, Worker, CheckRequest, InitReturns, CallsStart, CallsSendAudio, InCall, StartDone,
     SendDone, WaitSelects, WaitReads, Respond, CallsClose, Closing, CancelContext, ReadLoop,
     ReadsFrame, ReadsError, ReadsOther, TransportFrames, LastFrame, OnError, OnClose, OnCloseReads,
     OnCloseFinishes, Connects, ServerLeaves, ContextDone, clipVars, clip, server
<1> QED
  BY <1>1, OneShotUses, EndsStay, LoopFacts DEF Cause

\* A step of the program that changes no more than where it is.
LEMMA HealthyMove ==
    ASSUME TypeInv, Healthy, UNCHANGED <<vars, callbacks, collector>>, pc[User] = "idle",
           step \in Open <=> step' \in Open,
           step' \in {"check", "init", "start"} => step \in {"check", "init", "start"}
    PROVE  Healthy'
BY DEF Healthy, NoFailure, Connected, NotDialled, Usable, Reading, vars, callbacks, collector, DialledPCs, StartPCs

\* A step of the user that moves it to `to`.
LEMMA HealthyUser ==
    ASSUME TypeInv, Healthy, UNCHANGED <<callbacks, collector>>, NEW to, pc' = [pc EXCEPT ![User] = to],
           step \in Open <=> step' \in Open,
           step' \in {"check", "init", "start"} \/ to = "st_dial" => NotDialled',
           step' \in Open \/ to \in DialledPCs \ {"st_fail", "st_nil"} => Usable',
           to \in HoldingPCs => mine'[User] = Loop,
           mine' = mine \/ (mine'[Loop] = mine[Loop])
    PROVE  Healthy'
<1>1. NoFailure'
  BY DEF Healthy, NoFailure, callbacks, collector
<1>2. pc'[User] = to /\ \A i \in Loops : pc'[i] = pc[i]
  <2>1. pc \in [Procs -> UserPCs \cup LoopPCs] /\ User \in Procs /\ \A i \in Loops : i # User /\ i \in Procs
    BY ProcFacts DEF TypeInv, TypeOK, PcType
  <2> QED
    BY <2>1
<1>3. Reading'
  BY <1>2, LoopFacts DEF Healthy, Reading
<1>4. \A p \in {User, Loop} : pc'[p] \in HoldingPCs => mine'[p] = Loop
  BY <1>2, LoopFacts DEF Healthy, Connected
<1>5. Connected'
  BY <1>2, <1>4 DEF Connected
<1> QED
  BY <1>1, <1>3, <1>5 DEF Healthy

LEMMA HealthyStart ==
    ASSUME TypeInv, ClipTypes, CallsMatch, Healthy, ~Cause, CallsStart \/ CallsSendAudio, step' \in Awaiting
    PROVE  Healthy'
<1>1. ~GiveUp
  BY DEF GiveUp, Awaiting, Before
<1>2. CASE CallsStart
  <2>1. step = "start" /\ step' = "starting" /\ CallStart /\ UNCHANGED <<callbacks, collector>>
    BY <1>1, <1>2 DEF CallsStart, AtStep, Go
  <2>2. pc' = [pc EXCEPT ![User] = "st_dial"] /\ UNCHANGED <<conn, dials, writeErr, mine>>
    BY <2>1 DEF CallStart, Goto, SocketState
  <2>3. NotDialled'
    BY <2>1, <2>2 DEF Healthy, Connected, NotDialled
  <2> QED
    BY <2>1, <2>2, <2>3, HealthyUser DEF Open, DialledPCs, HoldingPCs
<1>3. CASE CallsSendAudio
  <2>1. step = "send" /\ step' = "sending" /\ CallWrite /\ UNCHANGED <<callbacks, collector>>
    BY <1>1, <1>3 DEF CallsSendAudio, AtStep, Go
  <2>2. pc' = [pc EXCEPT ![User] = "wr_load"] /\ UNCHANGED <<conn, dials, local, writeErr, mine>>
    BY <2>1 DEF CallWrite, Move, Goto, SocketState
  <2>3. Usable'
    BY <2>1, <2>2 DEF Healthy, Connected, Usable, Open
  <2> QED
    BY <2>1, <2>2, <2>3, HealthyUser DEF Open, DialledPCs, HoldingPCs
<1> QED
  BY <1>2, <1>3

LEMMA HealthyStarting ==
    ASSUME TypeInv, ClipTypes, CallsMatch, Healthy, ~Cause, InCall, step = "starting"
    PROVE  Healthy'
<1>1. /\ UNCHANGED <<step, callbacks, collector>> /\ step \notin Open \cup {"check", "init", "start"}
      /\ UserStep /\ pc[User] \in StartPCs /\ pc'[User] # "idle"
  BY DEF InCall, clip, CallsMatch, InCallPCs, Open
<1>2. /\ pc[User] \in DialledPCs \ {"st_fail", "st_nil"} => Usable
      /\ pc[User] \in HoldingPCs => mine[User] = Loop
  BY DEF Healthy, Connected
<1>3. User \in Procs /\ pc \in [Procs -> UserPCs \cup LoopPCs] /\ mine \in [Procs -> 0..MaxDials]
      /\ writeErr \in [Sockets -> BOOLEAN] /\ Loop # User /\ Loop \in Procs /\ Loop \in Sockets
  BY LoopFacts DEF TypeInv, TypeOK, DataType, PcType
<1>4. ASSUME NEW to, Move(User, pc[User], to),
             to \in {"st_fail", "st_nil"} \/ (to \notin HoldingPCs /\ to # "st_dial" /\ Usable)
      PROVE  Healthy'
  <2>1. pc' = [pc EXCEPT ![User] = to] /\ UNCHANGED <<conn, dials, local, writeErr, mine>>
    BY <1>4 DEF Move, Goto, SocketState
  <2> QED
    BY <1>1, <1>4, <2>1, HealthyUser DEF Usable, HoldingPCs, DialledPCs, StartPCs
<1>5. CASE DialFails \/ StartClear \/ SpawnReadLoop
  <2>1. pc'[User] = "idle"
    <3>1. CASE SpawnReadLoop
      <4>1. dials \in Loops
        BY <3>1, FromType, ProcFacts DEF SpawnReadLoop, DialledPCs, StartPCs
      <4> QED
        BY <1>3, <3>1, <4>1, ProcFacts DEF SpawnReadLoop
    <3>2. CASE DialFails \/ StartClear
      BY <1>3, <3>2 DEF DialFails, StartClear, Move, ClearConn, Goto
    <3> QED
      BY <1>5, <3>1, <3>2
  <2> QED
    BY <1>1, <2>1
<1>6. ~WriteBegin /\ ~WriteEnd /\ ~CloseStep(User)
  BY <1>1, <1>3, CloseStepAt DEF WriteBegin, WriteEnd, LoadsNil, WriteCollides, BeginWrite, WriteOk, WriteFails, At,
     StartPCs, ClosePCs
<1>7. CASE ConfigureCheck \/ AwaitCheck
  <2>1. Usable /\ Loop # nil
    BY <1>2, <1>7 DEF ConfigureCheck, AwaitCheck, ChecksConn, Move, At, DialledPCs, StartPCs, Loop, nil
  <2>2. \E to \in {"st_conf", "st_arm"} : Move(User, pc[User], to)
    BY <1>7, <2>1 DEF ConfigureCheck, AwaitCheck, ChecksConn, Move, At, Usable
  <2> QED
    BY <1>4, <2>1, <2>2 DEF HoldingPCs
<1>8. CASE StartFail
  BY <1>1, <1>8, HealthyUser DEF StartFail, Goto, HoldingPCs, DialledPCs
<1>9. CASE ConfigureBegin \/ AwaitBegin
  <2>1. Usable /\ Loop # nil
    BY <1>2, <1>9 DEF ConfigureBegin, AwaitBegin, LoadsNil, ArmDeadline, DeferDisarm, BeginRead, WriteCollides,
       BeginWrite, At, DialledPCs, StartPCs, Loop, nil
  <2>2. CASE UNCHANGED <<conn, dials, local, writeErr, pc, mine>>
    <3>1. Healthy' <=> Healthy
      BY <1>1, <2>2 DEF Healthy, NoFailure, Connected, Reading, Usable, NotDialled, callbacks, collector
    <3> QED
      BY <3>1
  <2>3. CASE /\ UNCHANGED <<conn, dials, local, writeErr>>
             /\ mine' = [mine EXCEPT ![User] = conn]
             /\ \E to \in {"st_conf_wire", "st_load", "st_read"} : pc' = [pc EXCEPT ![User] = to]
    <3>1. Usable' /\ mine'[User] = Loop /\ mine'[Loop] = mine[Loop]
      BY <1>3, <2>1, <2>3 DEF Usable
    <3> QED
      BY <1>1, <2>3, <3>1, HealthyUser
  <2>4. CASE UNCHANGED <<conn, dials, local, writeErr, mine>> /\ pc' = [pc EXCEPT ![User] = "st_defer"]
    <3>1. Usable'
      BY <2>1, <2>4 DEF Usable
    <3> QED
      BY <1>1, <2>4, <3>1, HealthyUser DEF HoldingPCs
  <2>5. CASE ConfigureBegin
    BY <2>2, <2>3, <2>5 DEF ConfigureBegin, LoadsNil, WriteCollides, BeginWrite, Panics, Goto
  <2>6. CASE LoadsNil(User, "st_arm") \/ LoadsNil(User, "st_load")
    BY <2>2, <2>6 DEF LoadsNil, Panics
  <2>7. CASE ArmDeadline
    <3>1. local[conn] = "open"
      BY <2>1 DEF Usable
    <3> QED
      BY <2>4, <2>7, <3>1 DEF ArmDeadline, Goto
  <2>8. CASE DeferDisarm \/ BeginRead
    BY <2>3, <2>8 DEF DeferDisarm, BeginRead, Goto, SocketState
  <2> QED
    BY <1>9, <2>5, <2>6, <2>7, <2>8 DEF AwaitBegin
<1>10. CASE ConfigureEnd
  <2>1. Usable /\ mine[User] = Loop
    BY <1>2, <1>10 DEF ConfigureEnd, WriteOk, WriteFails, At, HoldingPCs, DialledPCs, StartPCs
  <2>2. CASE WriteOk(User, "st_conf_wire", "st_await", FALSE)
    <3>1. /\ UNCHANGED <<conn, dials, local, mine>> /\ writeErr' = [writeErr EXCEPT ![Loop] = FALSE]
          /\ pc' = [pc EXCEPT ![User] = "st_await"]
      BY <2>1, <2>2 DEF WriteOk, Goto
    <3>2. Usable'
      BY <1>3, <2>1, <3>1 DEF Usable
    <3> QED
      BY <1>1, <3>1, <3>2, HealthyUser DEF HoldingPCs
  <2>3. ~WriteFails(User, "st_conf_wire", "st_fail")
    BY <2>1 DEF WriteFails, MayFail, CanWrite, Usable, Cause
  <2> QED
    BY <1>10, <2>2, <2>3 DEF ConfigureEnd
<1>11. CASE AwaitFails
  BY <1>1, <1>11, HealthyUser DEF AwaitFails, AwaitReturns, Goto, HoldingPCs, DialledPCs
<1> QED
  BY <1>1, <1>5, <1>6, <1>7, <1>8, <1>9, <1>10, <1>11 DEF UserStep

LEMMA HealthySending ==
    ASSUME TypeInv, ClipTypes, CallsMatch, Healthy, ~Cause, InCall, step = "sending"
    PROVE  Healthy'
<1>1. /\ pc \in [Procs -> UserPCs \cup LoopPCs] /\ User \notin Loops
      /\ pc[User] \in {"wr_load", "wr_wire"} /\ pc'[User] # "idle"
  BY LoopFacts, ProcFacts DEF TypeInv, TypeOK, PcType, CallsMatch, InCallPCs, InCall, WritePCs
<1>2. UNCHANGED clip /\ UserStep
  BY DEF InCall
<1>3. mine \in [Procs -> 0..MaxDials]
  BY DEF TypeInv, TypeOK, DataType
<1>4. NoFailure' /\ step' = step
  BY <1>2 DEF clip, callbacks, collector, Healthy, NoFailure
<1>5. WriteBegin
  <2>1. ~WriteEnd
    BY <1>1, LoopFacts DEF WriteEnd, WriteOk, WriteFails, Goto
  <2>2. ~CloseStep(User)
    BY <1>1, CloseStepAt, LoopFacts DEF ClosePCs
  <2>3. ~(DialFails \/ ConfigureCheck \/ ConfigureBegin \/ ConfigureEnd \/ AwaitCheck \/ AwaitBegin \/ AwaitFails
          \/ StartFail \/ StartClear \/ SpawnReadLoop)
    BY <1>1 DEF DialFails, ConfigureCheck, ConfigureBegin, ConfigureEnd, AwaitCheck, ChecksConn, AwaitBegin,
       ArmDeadline, DeferDisarm, BeginRead, AwaitFails, StartFail, StartClear, SpawnReadLoop, LoadsNil, WriteCollides, BeginWrite, WriteOk,
       WriteFails, Move, ClearConn, At
  <2> QED
    BY <1>2, <2>1, <2>2, <2>3 DEF UserStep
<1>6. Usable /\ step \in Open /\ pc[User] = "wr_load" /\ Loop # nil /\ conn = Loop
  BY <1>1, <1>5 DEF WriteBegin, LoadsNil, WriteCollides, BeginWrite, At, Healthy, Connected, Open, Usable, Loop, nil
<1>7. Reading /\ \A p \in {User, Loop} : pc[p] \in HoldingPCs => mine[p] = Loop
  BY DEF Healthy, Connected
<1>8. \/ UNCHANGED <<conn, dials, local, writeErr, pc, mine>>
      \/ /\ UNCHANGED <<conn, dials, local, writeErr>>
         /\ mine' = [mine EXCEPT ![User] = conn] /\ pc' = [pc EXCEPT ![User] = "wr_wire"]
  BY <1>5 DEF WriteBegin, LoadsNil, WriteCollides, Panics, BeginWrite, Goto
<1>9. Usable'
  BY <1>6, <1>8 DEF Usable
<1>10. pc'[User] \in {"wr_load", "wr_wire"} /\ \A i \in Loops : pc'[i] = pc[i]
  <2>1. User \in Procs /\ \A i \in Loops : i # User /\ i \in Procs
    BY LoopFacts, ProcFacts
  <2> QED
    BY <1>1, <1>6, <1>8, <2>1
<1>11. Reading'
  BY <1>4, <1>7, <1>10, LoopFacts DEF Reading
<1>12. \A p \in {User, Loop} : pc'[p] \in HoldingPCs => mine'[p] = Loop
  BY <1>1, <1>3, <1>6, <1>7, <1>8, LoopFacts
<1>13. Connected'
  BY <1>4, <1>6, <1>9, <1>10, <1>12 DEF Connected, Open
<1> QED
  BY <1>4, <1>11, <1>13 DEF Healthy

LEMMA HealthyReturns ==
    ASSUME TypeInv, ClipTypes, CallsMatch, Healthy, ~Cause, StartDone \/ SendDone, step' \in Awaiting
    PROVE  Healthy'
<1>1. pc \in [Procs -> UserPCs \cup LoopPCs] /\ writeErr \in [Sockets -> BOOLEAN]
  BY DEF TypeInv, TypeOK, PcType, DataType
<1>2. User \in Procs /\ Loop \in Loops /\ Loop \in Sockets /\ User \notin Loops /\ Loops \subseteq Procs
  BY LoopFacts, ProcFacts
<1>3. ~GiveUp
  BY DEF GiveUp, Awaiting, Before
<1>4. NoFailure'
  <2>1. UNCHANGED <<callbacks, collector>>
    BY DEF StartDone, SendDone
  <2> QED
    BY <2>1 DEF callbacks, collector, Healthy, NoFailure
<1>5. \A p \in {User, Loop} : pc[p] \in HoldingPCs => mine[p] = Loop
  BY DEF Healthy, Connected
<1>6. CASE StartDone
  <2>1. /\ pc[User] = "st_spawn" /\ step' = "send" /\ step = "starting"
        /\ pc' = [pc EXCEPT ![User] = "idle", ![dials] = "rl_begin"]
        /\ UNCHANGED <<conn, dials, local, writeErr, mine>>
    BY <1>3, <1>6 DEF StartDone, SpawnReadLoop, At, AtStep, Go, SocketState
  <2>2. Usable
    BY <2>1 DEF Healthy, Connected, DialledPCs, StartPCs
  <2>3. Usable'
    BY <2>1, <2>2 DEF Usable
  <2>4. pc'[User] = "idle" /\ pc'[Loop] = "rl_begin" /\ \A i \in Loops \ {Loop} : pc'[i] = pc[i]
    BY <1>1, <1>2, <2>1, <2>2 DEF Usable
  <2>5. Connected'
    BY <2>1, <2>3, <2>4 DEF Connected, HoldingPCs
  <2>6. Reading'
    <3>1. \A i \in Loops \ {Loop} : pc'[i] = "off"
      BY <2>4 DEF Reading, Healthy
    <3>2. step' \in Open
      BY <2>1 DEF Open
    <3> QED
      BY <2>4, <3>1, <3>2 DEF Reading
  <2> QED
    BY <1>4, <2>5, <2>6 DEF Healthy
<1>7. CASE SendDone
  <2>1. /\ pc[User] = "wr_wire" /\ step' = "wait" /\ step = "sending"
        /\ pc' = [pc EXCEPT ![User] = "idle"]
        /\ writeErr' = [writeErr EXCEPT ![mine[User]] = FALSE]
        /\ UNCHANGED <<conn, dials, local, mine>>
    BY <1>3, <1>7 DEF SendDone, WriteOk, At, AtStep, Go, Goto
  <2>2. Usable /\ mine[User] = Loop
    BY <1>5, <2>1 DEF Healthy, Connected, Open, HoldingPCs
  <2>3. Usable'
    BY <1>1, <1>2, <2>1, <2>2 DEF Usable
  <2>4. pc'[User] = "idle" /\ \A i \in Loops : pc'[i] = pc[i]
    BY <1>1, <1>2, <2>1
  <2>5. Connected'
    BY <1>2, <1>5, <2>1, <2>3, <2>4 DEF Connected, HoldingPCs
  <2>6. Reading'
    BY <1>2, <2>1, <2>4 DEF Reading, Healthy, Open
  <2> QED
    BY <1>4, <2>5, <2>6 DEF Healthy
<1> QED
  BY <1>6, <1>7

\* A step of the read loop that leaves the connection as it is.
LEMMA HealthyLoopMove ==
    ASSUME TypeInv, Healthy, NoFailure', step \in Open, UNCHANGED <<step, conn, dials, local, writeErr>>,
           NEW to \in {"rl_ctx", "rl_read"}, pc' = [pc EXCEPT ![Loop] = to],
           mine'[Loop] = Loop, mine'[User] = mine[User]
    PROVE  Healthy'
<1>1. pc'[Loop] = to /\ pc'[User] = pc[User] /\ \A i \in Loops \ {Loop} : pc'[i] = pc[i]
  <2>1. pc \in [Procs -> UserPCs \cup LoopPCs] /\ \A i \in Loops : i \in Procs
    BY ProcFacts DEF TypeInv, TypeOK, PcType
  <2> QED
    BY <2>1, LoopFacts
<1>2. Reading'
  BY <1>1 DEF Healthy, Reading
<1>3. Usable /\ Usable'
  BY DEF Healthy, Connected, Usable
<1>4. step \notin {"check", "init", "start"} /\ pc[User] # "st_dial"
  <2>1. Loop # nil
    BY DEF Loop, nil
  <2> QED
    BY <1>3, <2>1 DEF Healthy, Connected, Usable, NotDialled, Open
<1>5. Connected'
  BY <1>1, <1>3, <1>4 DEF Healthy, Connected
<1> QED
  BY <1>2, <1>5 DEF Healthy

\* Where the read loop is in a healthy request, and that its read does not fail.
LEMMA LoopReads ==
    ASSUME TypeInv, DeadlineInHandshake, CallsMatch, Healthy, ~Cause, pc[Loop] # "off"
    PROVE  /\ step \in Open /\ Usable /\ pc[Loop] \in {"rl_begin", "rl_ctx", "rl_read"}
           /\ pc[Loop] = "rl_read" => ~ReadFails(Loop)
<1>1. step \in Open /\ pc[Loop] \in {"rl_begin", "rl_ctx", "rl_read"}
  BY DEF Healthy, Reading
<1>2. Usable
  BY <1>1 DEF Healthy, Connected
<1>3. ASSUME pc[Loop] = "rl_read" PROVE ~ReadFails(Loop)
  <2>1. mine[Loop] = Loop
    BY <1>3 DEF Healthy, Connected, HoldingPCs
  <2>2. pc[User] \notin {"st_defer", "st_load", "st_read", "rl_read"}
    BY <1>1 DEF CallsMatch, InCallPCs, Open, WritePCs
  <2>3. ~deadline[Loop] /\ Readable(Loop)
    BY <1>2, <2>2, LoopFacts DEF DeadlineInHandshake, Readable, Usable, Cause
  <2>4. ~ReadRaces(Loop)
    <3>1. \A q \in Procs \ {Loop} : q = User \/ q \in Loops \ {Loop}
      BY ProcFacts
    <3> QED
      BY <2>2, <3>1 DEF ReadRaces, Healthy, Reading
  <2> QED
    BY <2>1, <2>3, <2>4 DEF ReadFails
<1> QED
  BY <1>1, <1>2, <1>3

LEMMA HealthyLoop ==
    ASSUME TypeInv, DeadlineInHandshake, ClipTypes, CallsMatch, Healthy, ~Cause,
           ReadLoop \/ ReadsFrame \/ ReadsOther
    PROVE  Healthy'
<1>0. mine \in [Procs -> 0..MaxDials] /\ Loop \in Procs /\ User \in Procs /\ Loop # User
  BY LoopFacts DEF TypeInv, TypeOK, DataType
<1>1. CASE ReadLoop
  <2>1. ~CloseStep(Loop)
    BY CloseStepAt, LoopFacts DEF Healthy, Reading, ClosePCs
  <2>2. ~LoopLeaves(Loop) /\ ~LoopBroken(Loop)
    BY LoopReads DEF LoopLeaves, LoopBroken, At, ReadFails, Readable
  <2>3. ASSUME UNCHANGED <<reported, onClose>> PROVE NoFailure' /\ step' = step
    BY <1>1, <2>3 DEF ReadLoop, LaunchOnClose, collector, Healthy, NoFailure
  <2>4. CASE LoopBegin(Loop)
    <3>1. Usable /\ step \in Open /\ Loop # nil
      BY <2>4, LoopReads DEF LoopBegin, At, Loop, nil
    <3>2. /\ pc' = [pc EXCEPT ![Loop] = "rl_ctx"] /\ mine' = [mine EXCEPT ![Loop] = Loop]
          /\ UNCHANGED <<conn, dials, local, writeErr, reported, onClose>>
      BY <2>4, <3>1 DEF LoopBegin, Goto, Usable, SocketState, Ghosts
    <3> QED
      BY <1>0, <2>3, <3>1, <3>2, HealthyLoopMove
  <2>5. CASE LoopCheckCtx(Loop)
    <3>1. step \in Open /\ mine[Loop] = Loop
      BY <2>5, LoopReads DEF LoopCheckCtx, Move, At, Healthy, Connected, HoldingPCs
    <3>2. pc' = [pc EXCEPT ![Loop] = "rl_read"] /\ UNCHANGED <<conn, dials, local, writeErr, mine, reported, onClose>>
      BY <2>5 DEF LoopCheckCtx, Move, Goto, Cause, SocketState, Ghosts
    <3> QED
      BY <2>3, <3>1, <3>2, HealthyLoopMove
  <2> QED
    BY <1>1, <2>1, <2>2, <2>4, <2>5 DEF ReadLoop, LoopStep
<1>2. CASE ReadsFrame \/ ReadsOther
  <2>1. LoopFrame(Loop)
    BY <1>2 DEF ReadsFrame, ReadsOther
  <2>2. step \in Open /\ mine[Loop] = Loop
    BY <2>1, LoopReads DEF LoopFrame, Move, At, Healthy, Connected, HoldingPCs
  <2>3. pc' = [pc EXCEPT ![Loop] = "rl_ctx"] /\ UNCHANGED <<conn, dials, local, writeErr, mine>>
    BY <2>1 DEF LoopFrame, Move, Goto, SocketState, Ghosts
  <2>4. NoFailure' /\ step' = step
    <3>1. CASE ReadsOther
      BY <3>1 DEF ReadsOther, clip, callbacks, collector, Healthy, NoFailure
    <3>2. CASE ReadsFrame
      <4>1. queue \in Seq(Nat) /\ arrived + 1 \in Nat /\ arrived + 1 # Error
        BY SequenceFacts DEF Error
      <4>2. \A k \in DOMAIN Append(queue, arrived + 1) : Append(queue, arrived + 1)[k] # Error
        <5>1. /\ Len(queue) \in Nat /\ DOMAIN queue = 1..Len(queue)
              /\ DOMAIN Append(queue, arrived + 1) = 1..Len(queue) + 1
              /\ Append(queue, arrived + 1)[Len(queue) + 1] = arrived + 1
              /\ \A k \in 1..Len(queue) : Append(queue, arrived + 1)[k] = queue[k]
          BY <4>1, Appends
        <5>2. \A k \in 1..Len(queue) + 1 : k = Len(queue) + 1 \/ k \in 1..Len(queue)
          BY <5>1
        <5> QED
          BY <4>1, <5>1, <5>2 DEF Healthy, NoFailure
      <4>3. queue' = Append(queue, arrived + 1) /\ UNCHANGED <<step, err, closers>>
        BY <3>2 DEF ReadsFrame, collector
      <4> QED
        BY <4>2, <4>3 DEF Healthy, NoFailure
    <3> QED
      BY <1>2, <3>1, <3>2
  <2> QED
    BY <2>2, <2>3, <2>4, HealthyLoopMove
<1> QED
  BY <1>1, <1>2

\* The callbacks of a healthy request: frames only.
LEMMA HealthyCallbacks ==
    ASSUME TypeInv, ClipTypes, Healthy, Worker \/ \E p \in Procs : OnClose(p)
    PROVE  Healthy'
<1>1. \A p \in Procs : ~OnClose(p)
  BY DEF OnClose, OnCloseReads, OnCloseFinishes, Healthy, NoFailure
<1>2. ~OnError
  <2>1. ASSUME OnError PROVE FALSE
    <3>1. queue \in Seq(Nat) /\ queue # <<>> /\ Head(queue) = Error
      BY <2>1, SequenceFacts DEF OnError
    <3>2. 1 \in DOMAIN queue /\ queue[1] = Error
      BY <3>1, Tails
    <3> QED
      BY <3>2 DEF Healthy, NoFailure
  <2> QED
    BY <2>1
<1>3. ASSUME NoFailure', UNCHANGED <<vars, step>> PROVE Healthy'
  BY <1>3 DEF Healthy, Connected, Reading, Usable, NotDialled, vars
<1>4. CASE LastFrame
  <2>1. err' = err
    <3>1. err \in BOOLEAN /\ err' = (err \/ FALSE)
      BY <1>4 DEF LastFrame, Finish, ClipTypes, CollectorType
    <3> QED
      BY <3>1
  <2>2. UNCHANGED <<queue, closers, step, vars>>
    BY <1>4 DEF LastFrame
  <2> QED
    BY <1>3, <2>1, <2>2 DEF Healthy, NoFailure
<1>5. CASE TransportFrames
  <2>1. queue \in Seq(Nat) /\ queue # <<>> /\ queue' = Tail(queue) /\ UNCHANGED <<err, closers, step, vars>>
    BY <1>5, SequenceFacts DEF TransportFrames
  <2>2. \A k \in DOMAIN Tail(queue) : Tail(queue)[k] # Error
    <3>1. /\ Len(queue) \in Nat /\ DOMAIN queue = 1..Len(queue) /\ DOMAIN Tail(queue) = 1..Len(queue) - 1
          /\ \A k \in 1..Len(queue) - 1 : Tail(queue)[k] = queue[k + 1]
      BY <2>1, Tails
    <3>2. \A k \in 1..Len(queue) - 1 : k + 1 \in DOMAIN queue
      BY <3>1
    <3> QED
      BY <3>1, <3>2 DEF Healthy, NoFailure
  <2> QED
    BY <1>3, <2>1, <2>2 DEF Healthy, NoFailure
<1> QED
  BY <1>1, <1>2, <1>4, <1>5 DEF Worker

LEMMA HealthyConnects ==
    ASSUME TypeInv, ClipTypes, CallsMatch, Healthy, Connects
    PROVE  Healthy'
<1>1. UNCHANGED <<step, callbacks, collector>> /\ local \in [Sockets -> {"none", "open", "closed"}]
  BY DEF Connects, clip, TypeInv, TypeOK, DataType
<1>2. pc[User] \in StartPCs
  BY DEF Connects, DialSucceeds, AwaitConfirmed, AwaitRejected, At, StartPCs
<1>3. step \notin Open \cup {"check", "init", "start"}
  BY <1>2 DEF CallsMatch, InCallPCs, StartPCs, WritePCs, ClosePCs, Open
<1>4. CASE DialSucceeds
  <2>1. NotDialled
    BY <1>4 DEF DialSucceeds, At, Healthy, Connected
  <2>2. dials + 1 = Loop
    BY <2>1 DEF NotDialled, Loop
  <2>3. /\ pc' = [pc EXCEPT ![User] = "st_check"] /\ dials' = Loop /\ conn' = Loop
        /\ local' = [local EXCEPT ![Loop] = "open"] /\ UNCHANGED <<writeErr, mine>>
    BY <1>4, <2>2 DEF DialSucceeds, Goto
  <2>4. Usable'
    BY <1>1, <2>1, <2>3, LoopFacts DEF Usable, NotDialled
  <2> QED
    BY <1>1, <1>3, <2>3, <2>4, HealthyUser DEF HoldingPCs
<1>5. CASE AwaitConfirmed \/ AwaitRejected
  <2>1. pc[User] = "st_read" /\ \E to \in {"st_spawn", "st_fail"} : AwaitReturns(to)
    BY <1>5 DEF AwaitConfirmed, AwaitRejected, At
  <2>2. Usable
    BY <2>1 DEF Healthy, Connected, DialledPCs, StartPCs
  <2>3. PICK to \in {"st_spawn", "st_fail"} : AwaitReturns(to)
    BY <2>1
  <2>4. pc' = [pc EXCEPT ![User] = to] /\ UNCHANGED <<conn, dials, local, writeErr, mine>>
    BY <2>3 DEF AwaitReturns, Goto
  <2>5. Usable'
    BY <2>2, <2>4 DEF Usable
  <2> QED
    BY <1>1, <1>3, <2>4, <2>5, HealthyUser DEF HoldingPCs
<1> QED
  BY <1>4, <1>5 DEF Connects

\* A program that is past its request does not come back to it.
LEMMA AwaitingEnds == ASSUME ClipTypes, [OneShot]_clipVars, step' \in Awaiting PROVE step \in Awaiting
<1> USE DEF Awaiting, Before
<1>1. CASE Program
  BY <1>1 DEF Program, CheckRequest, InitReturns, CallsStart, CallsSendAudio, InCall, StartDone, SendDone, WaitSelects,
     WaitReads, Respond, CallsClose, Closing, CancelContext, AtStep, Go, GiveUp, clip
<1>2. CASE ~Program
  BY <1>2 DEF OneShot, Worker, ReadLoop, ReadsFrame, ReadsError, ReadsOther, TransportFrames, LastFrame, OnError,
     OnClose, OnCloseReads, OnCloseFinishes, Connects, ServerLeaves, ContextDone, clipVars, clip
<1> QED
  BY <1>1, <1>2

LEMMA FailureStep ==
    TypeInv /\ KeptInv /\ DeadlineInHandshake /\ ClipTypes /\ CallsMatch /\ FailureInv /\ [OneShot]_clipVars => FailureInv'
<1> SUFFICES ASSUME TypeInv, KeptInv, DeadlineInHandshake, ClipTypes, CallsMatch, FailureInv, [OneShot]_clipVars,
                    step' \in Awaiting, ~Cause'
             PROVE  Healthy'
  BY DEF FailureInv
<1>1. ~Cause /\ step \in Awaiting /\ Healthy
  BY CauseStays, AwaitingEnds DEF FailureInv
<1>2. CASE CheckRequest \/ InitReturns \/ WaitSelects \/ WaitReads
  <2>1. UNCHANGED <<vars, callbacks, collector>>
    BY <1>2 DEF CheckRequest, InitReturns, WaitSelects, WaitReads
  <2>2. pc[User] = "idle"
    BY <1>2 DEF CallsMatch, InCallPCs, CheckRequest, InitReturns, WaitSelects, WaitReads, AtStep
  <2>3. /\ step \in Open <=> step' \in Open
        /\ step' \in {"check", "init", "start"} => step \in {"check", "init", "start"}
    BY <1>2 DEF CheckRequest, InitReturns, WaitSelects, WaitReads, AtStep, Go, GiveUp, Open, Awaiting, Before
  <2> QED
    BY <1>1, <2>1, <2>2, <2>3, HealthyMove
<1>3. CASE CallsStart \/ CallsSendAudio
  BY <1>1, <1>3, HealthyStart
<1>4. CASE InCall
  BY <1>1, <1>4, HealthyStarting, HealthySending DEF InCall
<1>5. CASE StartDone \/ SendDone
  BY <1>1, <1>5, HealthyReturns
<1>6. ~(Respond \/ CallsClose \/ Closing \/ CancelContext)
  BY DEF Respond, CallsClose, Closing, CancelContext, Go, Awaiting, Before
<1>7. CASE ReadLoop \/ ReadsFrame \/ ReadsOther
  BY <1>1, <1>7, HealthyLoop
<1>8. ~ReadsError
  BY DEF ReadsError, Cause
<1>9. CASE Worker \/ \E p \in Procs : OnClose(p)
  BY <1>1, <1>9, HealthyCallbacks
<1>10. CASE Connects
  BY <1>1, <1>10, HealthyConnects
<1>11. ~ServerLeaves /\ ~ContextDone
  BY LoopFacts DEF ServerLeaves, ContextDone, PeerLeaves, Cancel, Cause, TypeInv, TypeOK, DataType
<1>12. CASE UNCHANGED clipVars
  BY <1>1, <1>12 DEF clipVars, clip, vars, callbacks, collector, Healthy, NoFailure, Connected, Reading, Usable, NotDialled
<1> QED
  BY <1>2, <1>3, <1>4, <1>5, <1>6, <1>7, <1>8, <1>9, <1>10, <1>11, <1>12 DEF OneShot, Program

\* Once the session is up, a request fails only because its context ended, the connection ended, the
\* server sent an error or no request id could be made: FailureHasCause.
THEOREM FailuresHaveCause == ClipSpec => FailureHasCause
<1>1. ClipInit => FailureInv
  BY LoopFacts, ProcFacts DEF ClipInit, Init, FailureInv, Healthy, NoFailure, Connected, Reading,
     NotDialled, Open, DialledPCs, StartPCs, HoldingPCs
<1>2. TypeInv /\ KeptInv /\ DeadlineInHandshake /\ ClipTypes /\ (Single => CallsMatch /\ FailureInv)
        /\ [ClipNext]_clipVars => (Single => FailureInv)'
  BY ByProgram, FailureStep
<1>3. TypeInv /\ ClipTypes /\ (Single => CallsMatch /\ FailureInv) /\ [ClipNext]_clipVars
        => [response # "failed" /\ response' = "failed" /\ step \in {"send", "sending", "wait", "read"}
              => cancelled[Loop] \/ peer[Loop] # "up" \/ rejected \/ NoRequestId]_clipVars
  <2> SUFFICES ASSUME TypeInv, Single => CallsMatch /\ FailureInv, [ClipNext]_clipVars,
                      response # "failed", response' = "failed", step \in Open, ~Cause, ~NoRequestId
               PROVE  FALSE
    BY DEF Open, Cause
  <2>0. OneShot /\ Single
    <3>1. OneShot
      BY ByProgram DEF clipVars, clip
    <3>2. OneShot => Single
      BY DEF OneShot, Single, Program, Worker, CheckRequest, InitReturns, CallsStart, CallsSendAudio, InCall,
         StartDone, SendDone, WaitSelects, WaitReads, Respond, CallsClose, Closing, CancelContext, ReadLoop,
         ReadsFrame, ReadsError, ReadsOther, TransportFrames, LastFrame, OnError, OnClose, OnCloseReads,
         OnCloseFinishes, Connects, ServerLeaves, ContextDone, AtStep, Live
    <3> QED
      BY <3>1, <3>2
  <2>1. Healthy /\ Usable /\ Loop # nil
    <3>1. Healthy
      BY <2>0 DEF FailureInv, Awaiting, Before, Open
    <3>2. Usable
      BY <3>1 DEF Healthy, Connected
    <3> QED
      BY <3>1, <3>2 DEF Loop, nil
  <2>2. CallsSendAudio \/ SendDone \/ WaitSelects \/ WaitReads
    BY <2>0 DEF OneShot, Program, CheckRequest, InitReturns, CallsStart, CallsSendAudio, InCall, StartDone,
     SendDone, WaitSelects, WaitReads, Respond, CallsClose, Closing, CancelContext, AtStep, Go, ReadLoop, Worker,
     ReadsFrame, ReadsError, ReadsOther, TransportFrames, LastFrame, OnError, OnClose, OnCloseReads,
     OnCloseFinishes, Connects, ServerLeaves, ContextDone, clip, Open
  <2>3. ~CallsSendAudio
    BY <2>1 DEF CallsSendAudio, AtStep, NoRequestId, Usable
  <2>4. ~SendDone
    <3>1. ASSUME SendDone PROVE FALSE
      <4>1. WriteFails(User, "wr_wire", "idle")
        BY <3>1 DEF SendDone, Go
      <4>2. mine[User] = Loop
        BY <2>1, <4>1 DEF WriteFails, At, Healthy, Connected, HoldingPCs
      <4> QED
        BY <2>1, <4>1, <4>2 DEF WriteFails, MayFail, CanWrite, Usable, Cause
    <3> QED
      BY <3>1
  <2>5. ~WaitSelects /\ ~WaitReads
    BY <2>1 DEF WaitSelects, WaitReads, Go, Cause, Healthy, NoFailure
  <2> QED
    BY <2>2, <2>3, <2>4, <2>5
<1>4. ClipSpec => [](TypeInv /\ KeptInv /\ DeadlineInHandshake)
  BY ClipUsesSession, KeptHolds, DeadlinesHold, PTL
<1> QED
  BY <1>1, <1>2, <1>3, <1>4, MatchHolds, PTL DEF ClipSpec, FailureHasCause

--------------------------------------------------------------------------------
(* A service that has returned has no socket open, whichever way it went. *)

ReturnsShut == step \in {"cancel", "returned"} => \A c \in Sockets : local[c] # "open"

\* Nothing is dialled, and no read loop runs, before the one Start.
FirstStart == step \in {"check", "init", "start"} => dials = 0 /\ \A i \in Loops : pc[i] = "off"

ShutInv == OwnInv /\ NotifyInv /\ ~overlapped /\ FirstStart /\ ReturnsShut

\* A read loop that is off does nothing, and nothing is dialled but in Start.
LEMMA OffStays ==
    ASSUME TypeInv, NEW i \in Loops, LoopStep(i) \/ LoopFrame(i)
    PROVE  pc[i] # "off" /\ dials' = dials
<1> USE DEF Ghosts, SocketState, Move, ClearConn, Panics, LoadsNil, BeginWrite, WriteCollides,
            WriteOk, WriteFails
<1>1. i \in Procs
  BY ProcFacts
<1>2. pc[i] # "off"
  BY <1>1, CloseStepAt DEF LoopStep, LoopFrame, LoopBegin, LoopCheckCtx, LoopLeaves, LoopBroken, At, ClosePCs
<1>3. ASSUME CloseStep(i) PROVE dials' = dials
  BY <1>3 DEF CloseStep, CloseCheck, CloseFrameBegin, CloseFrameEnd, CloseAbort, CloseShut,
              ShutOk, ShutFails, ShutConn, CloseAbortClear, CloseClear, CloseNotify
<1> QED
  BY <1>2, <1>3 DEF LoopStep, LoopBegin, LoopCheckCtx, LoopLeaves, LoopBroken, LoopFrame

LEMMA FirstStep ==
    ASSUME TypeInv, ClipTypes, CallsMatch, FirstStart, [OneShot]_clipVars
    PROVE  FirstStart'
<1> SUFFICES ASSUME step' \in {"check", "init", "start"} PROVE dials' = 0 /\ \A i \in Loops : pc'[i] = "off"
  BY DEF FirstStart
<1>1. step \in {"check", "init", "start"} /\ ~InCall /\ ~Closing
  BY DEF OneShot, Program, CheckRequest, InitReturns, CallsStart, CallsSendAudio, InCall, StartDone,
     SendDone, WaitSelects, WaitReads, Respond, CallsClose, Closing, CancelContext, AtStep, Go, GiveUp, ReadLoop,
     Worker, ReadsFrame, ReadsError, ReadsOther, TransportFrames, LastFrame, OnError, OnClose, OnCloseReads,
     OnCloseFinishes, Connects, ServerLeaves, ContextDone, clipVars, clip
<1>2. dials = 0 /\ (\A i \in Loops : pc[i] = "off") /\ pc[User] = "idle"
  BY <1>1 DEF FirstStart, CallsMatch, InCallPCs
<1>3. ~ReadLoop /\ ~ReadsFrame /\ ~ReadsError /\ ~ReadsOther
  BY <1>2, OffStays, LoopFacts DEF ReadLoop, ReadsFrame, ReadsError, ReadsOther
<1>4. ~Connects
  BY <1>2 DEF Connects, DialSucceeds, AwaitConfirmed, AwaitRejected, AwaitReturns, At
<1>5. UNCHANGED <<pc, dials>>
  BY <1>1, <1>3, <1>4 DEF OneShot, Program, CheckRequest, InitReturns, CallsStart, CallsSendAudio, StartDone,
     SendDone, WaitSelects, WaitReads, Respond, CallsClose, CancelContext, AtStep, Go, GiveUp,
     Worker, TransportFrames, LastFrame, OnError, OnClose, OnCloseReads,
     OnCloseFinishes, ServerLeaves, ContextDone, PeerLeaves, Cancel, clipVars, vars
<1> QED
  BY <1>2, <1>5

\* The one Start runs beside no read loop.
LEMMA StaysSingle ==
    ASSUME TypeInv, FirstStart, ~overlapped, [OneShot]_clipVars
    PROVE  ~overlapped'
<1> USE DEF Ghosts, Move, ClearConn, Panics, LoadsNil, BeginWrite, WriteCollides, WriteOk, WriteFails
<1>1. ASSUME NEW p, CloseStep(p) PROVE ~overlapped'
  BY <1>1 DEF CloseStep, CloseCheck, CloseFrameBegin, CloseFrameEnd, CloseAbort, CloseShut,
              ShutOk, ShutFails, ShutConn, CloseAbortClear, CloseClear, CloseNotify
<1>2. CASE UserStep
  BY <1>1, <1>2 DEF UserStep, DialFails, ConfigureCheck, ConfigureBegin, ConfigureEnd, AwaitCheck,
     ChecksConn, AwaitBegin, ArmDeadline, DeferDisarm, BeginRead, AwaitFails, AwaitReturns, StartFail, StartClear,
     SpawnReadLoop, WriteBegin, WriteEnd
<1>3. ASSUME NEW i \in Loops, LoopStep(i) \/ LoopFrame(i) PROVE ~overlapped'
  BY <1>1, <1>3 DEF LoopStep, LoopBegin, LoopCheckCtx, LoopLeaves, LoopBroken, LoopFrame
<1>4. CASE DialSucceeds \/ AwaitConfirmed \/ AwaitRejected \/ CallWrite \/ CallClose \/ UNCHANGED vars
  BY <1>4 DEF DialSucceeds, AwaitConfirmed, AwaitRejected, AwaitReturns, CallWrite, CallClose, vars
<1>5. CASE CallsStart
  BY <1>4, <1>5 DEF CallsStart, CallStart, FirstStart, AtStep
<1>6. CASE \/ InCall \/ StartDone \/ SendDone \/ Closing
  BY <1>1, <1>2, <1>6 DEF InCall, StartDone, SendDone, Closing, UserStep, WriteEnd
<1>7. CASE CheckRequest \/ InitReturns \/ WaitSelects \/ WaitReads \/ Respond \/ Worker \/ \E p \in Procs : OnClose(p)
  BY <1>4, <1>7 DEF CheckRequest, InitReturns, WaitSelects, WaitReads, Respond, Worker, TransportFrames, LastFrame,
     OnError, OnClose, OnCloseReads, OnCloseFinishes
<1>8. CASE CallsSendAudio \/ CallsClose \/ Connects
  BY <1>4, <1>8 DEF CallsSendAudio, CallsClose, Connects
<1>9. CASE CancelContext \/ ServerLeaves \/ ContextDone
  BY <1>4, <1>9 DEF CancelContext, ServerLeaves, ContextDone, PeerLeaves, Cancel
<1>10. CASE ReadLoop \/ ReadsFrame \/ ReadsError \/ ReadsOther
  BY <1>3, <1>10, LoopFacts DEF ReadLoop, ReadsFrame, ReadsError, ReadsOther
<1>11. CASE UNCHANGED clipVars
  BY <1>4, <1>11 DEF clipVars
<1> QED
  BY <1>5, <1>6, <1>7, <1>8, <1>9, <1>10, <1>11 DEF OneShot, Program

\* Where the service gets to its last steps: from Close, or from a request it refused.
LEMMA ReturnsFrom ==
    ASSUME ClipTypes, [OneShot]_clipVars, step' \in {"cancel", "returned"}
    PROVE  \/ step \in {"cancel", "returned"}
           \/ step = "check" /\ UNCHANGED vars
           \/ step = "closing" /\ pc'[User] = "idle"
BY DEF OneShot, Program, CheckRequest, InitReturns, CallsStart, CallsSendAudio, InCall, StartDone,
   SendDone, WaitSelects, WaitReads, Respond, CallsClose, Closing, CancelContext, AtStep, Go, GiveUp, ReadLoop,
   Worker, ReadsFrame, ReadsError, ReadsOther, TransportFrames, LastFrame, OnError, OnClose, OnCloseReads,
   OnCloseFinishes, Connects, ServerLeaves, ContextDone, clipVars, clip

LEMMA ShutStep ==
    ASSUME TypeInv, ClipTypes, CallsMatch, ShutInv, [OneShot]_clipVars
    PROVE  ReturnsShut'
<1> SUFFICES ASSUME step' \in {"cancel", "returned"} PROVE \A c \in Sockets : local'[c] # "open"
  BY DEF ReturnsShut
<1>1. [Next]_vars
  BY OneShotUses
<1>2. CASE step \in {"cancel", "returned"}
  <2>1. pc[User] = "idle"
    BY <1>2 DEF CallsMatch, InCallPCs
  <2> QED
    BY <1>1, <1>2, <2>1, SocketsStayShut DEF ShutInv, ReturnsShut
<1>3. CASE step = "check" /\ UNCHANGED vars
  <2>1. dials = 0 /\ dials \notin Sockets
    BY <1>3 DEF ShutInv, FirstStart, Sockets
  <2> QED
    BY <1>3, <2>1 DEF ShutInv, OwnInv, NewestOpen, vars
<1>4. CASE step = "closing" /\ pc'[User] = "idle"
  <2>1. pc[User] \in ClosePCs
    BY <1>4 DEF CallsMatch, InCallPCs
  <2> QED
    BY <1>1, <1>4, <2>1, CloseLeavesNone DEF ShutInv
<1> QED
  BY <1>2, <1>3, <1>4, ReturnsFrom

\* When the handler has returned, from whichever of its steps, no websocket is left
\* open: the safety in RequestEnds.  (Its deferred Close runs on every path that
\* made a session, and the session's loops do not open another one.)
THEOREM ReturnsClean == ClipSpec => [](Single => ReturnsShut)
<1> DEFINE Once == Single => ~overlapped /\ FirstStart /\ ReturnsShut
<1>1. ClipInit => Once
  BY ProcFacts, LoopFacts DEF ClipInit, Init, FirstStart, ReturnsShut
<1>2. TypeInv /\ ClipTypes /\ (Single => CallsMatch) /\ (overlapped \/ OwnInv) /\ (overlapped \/ NotifyInv)
        /\ Once /\ [ClipNext]_clipVars => Once'
  BY ByProgram, FirstStep, StaysSingle, ShutStep DEF ShutInv
<1>3. ClipSpec => []((overlapped \/ OwnInv) /\ (overlapped \/ NotifyInv))
  BY OwnHolds, NotifyHolds, ClipUsesSession, PTL
<1>4. ClipSpec => []Once
  BY <1>1, <1>2, <1>3, MatchHolds, PTL DEF ClipSpec
<1>5. Once => (Single => ReturnsShut)
  OBVIOUS
<1> QED
  BY <1>4, <1>5, PTL
================================================================================
