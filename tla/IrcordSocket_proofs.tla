------------------------ MODULE IrcordSocket_proofs ------------------------
(***************************************************************************)
(* Proofs about IrcordSocket, for any number of tasks, sockets and         *)
(* attempts. The type invariant is inductive as it stands, and so is       *)
(* DialIsOwned beside it: each label in it hands the dial to another one   *)
(* of them until the state is set. RetryIsPlanned is not: a task at        *)
(* "create" may fail and find in handleDisconnect() that the state is      *)
(* DISCONNECTED already. RetryInv leaves such tasks out.                   *)
(***************************************************************************)
EXTENDS IrcordSocket, TLAPS

USE EntriesAssumption, MaxAttemptsAssumption, NoSocketAssumption

LEMMA InitTypeOK == Init => TypeOK
<1> SUFFICES ASSUME Init PROVE TypeOK
  OBVIOUS
<1>1. /\ shouldReconnect \in BOOLEAN /\ hasHost \in BOOLEAN
      /\ abandoned \in BOOLEAN /\ crashed \in BOOLEAN
  BY Zenon DEF Init
<1>2. attempt \in Nat /\ seen \in [Tasks -> Nat]
  BY SMT DEF Init
<1>3. /\ state \in ConnectionState
      /\ socket \in Sockets \cup {NoSocket}
      /\ output \in Sockets \cup {NoSocket}
      /\ open \subseteq Sockets
      /\ ui \in UiPC
  BY SMT DEF Init, ConnectionState, UiPC
<1>4. pc \in [Tasks -> PC] /\ own \in [Tasks -> Sockets \cup {NoSocket}]
  BY SMT DEF Init, PC
<1> QED
  BY <1>1, <1>2, <1>3, <1>4 DEF TypeOK

LEMMA StepTypeOK == TypeOK /\ [Next]_vars => TypeOK'
<1> SUFFICES ASSUME TypeOK, [Next]_vars PROVE TypeOK'
  OBVIOUS
<1> USE DEF TypeOK, ConnectionState, UiPC, PC, shared, SetState, Goto, Finish
<1>1. CASE Calls
  <2>1. CASE UiConnect BY <2>1 DEF UiConnect
  <2>2. CASE UiDisconnect
    <3>1. shouldReconnect' \in BOOLEAN BY <2>2, Zenon DEF UiDisconnect
    <3>2. attempt' \in Nat BY <2>2, SMT DEF UiDisconnect
    <3> QED BY <2>2, <3>1, <3>2 DEF UiDisconnect
  <2>3. ASSUME NEW t \in Tasks, Start(t) PROVE TypeOK' BY <2>3 DEF Start
  <2>4. ASSUME NEW t \in Tasks, Send(t) PROVE TypeOK' BY <2>4 DEF Send
  <2>5. ASSUME NEW t \in Tasks, Cancelled(t) PROVE TypeOK'
    <3>1. abandoned' \in BOOLEAN BY <2>5, Zenon DEF Cancelled
    <3> QED BY <2>5, <3>1 DEF Cancelled
  <2> QED BY <1>1, <2>1, <2>2, <2>3, <2>4, <2>5 DEF Calls
<1>2. CASE UiStep
  BY <1>2 DEF UiStep, UiArm, UiClaim, UiClose, UiMark, closeSocket
<1>3. ASSUME NEW t \in Tasks, Connecting(t) PROVE TypeOK'
  <2>1. CASE ConnectCheck(t) BY <2>1 DEF ConnectCheck
  <2>2. CASE ConnectArm(t) BY <2>2 DEF ConnectArm
  <2>3. CASE ConnectClaim(t) BY <2>3 DEF ConnectClaim
  <2>4. CASE ConnectCreated(t) BY <2>4 DEF ConnectCreated, Unreferenced
  <2>5. CASE ConnectFailed(t) BY <2>5 DEF ConnectFailed
  <2>6. CASE ConnectWire(t) BY <2>6 DEF ConnectWire
  <2>7. CASE ConnectUp(t) BY <2>7 DEF ConnectUp
  <2>8. CASE Dispatched(t) BY <2>8 DEF Dispatched
  <2> QED BY <1>3, <2>1, <2>2, <2>3, <2>4, <2>5, <2>6, <2>7, <2>8 DEF Connecting
<1>4. ASSUME NEW t \in Tasks, Reading(t) PROVE TypeOK'
  <2>1. CASE LoopOpen(t) BY <2>1 DEF LoopOpen
  <2>2. CASE LoopHead(t) BY <2>2 DEF LoopHead
  <2>3. CASE LoopFrame(t) BY <2>3 DEF LoopFrame
  <2>4. CASE LoopBreak(t) BY <2>4 DEF LoopBreak
  <2> QED BY <1>4, <2>1, <2>2, <2>3, <2>4 DEF Reading
<1>5. ASSUME NEW t \in Tasks, Sending(t) PROVE TypeOK'
  BY <1>5 DEF Sending, SendWritten, SendFailed
<1>6. ASSUME NEW t \in Tasks, Losing(t) PROVE TypeOK'
  <2>1. CASE HandleCheck(t) BY <2>1 DEF HandleCheck
  <2>2. CASE HandleClose(t) BY <2>2 DEF HandleClose, closeSocket
  <2>3. CASE HandleMark(t) BY <2>3 DEF HandleMark
  <2>4. CASE scheduleReconnect(t) BY <2>4 DEF scheduleReconnect
  <2> QED BY <1>6, <2>1, <2>2, <2>3, <2>4 DEF Losing
<1>7. ASSUME NEW t \in Tasks, Waiting(t) PROVE TypeOK'
  <2>1. CASE NextDelayRead(t) BY <2>1 DEF NextDelayRead
  <2>2. CASE NextDelayWrite(t) BY <2>2 DEF NextDelayWrite
  <2>3. CASE TimerFires(t) BY <2>3 DEF TimerFires
  <2> QED BY <1>7, <2>1, <2>2, <2>3 DEF Waiting
<1>8. CASE Restart                \* into the initial values again
  <2>1. Init'
    BY <1>8, Zenon DEF Restart, Init
  <2> QED
    BY <2>1, InitTypeOK, PTL
<1>9. CASE UNCHANGED vars
  BY <1>9 DEF vars
<1> QED
  BY <1>1, <1>2, <1>3, <1>4, <1>5, <1>6, <1>7, <1>8, <1>9 DEF Next, TaskStep

\* Every reachable state of the transport is well formed. The counter has no
\* upper bound: timers that pass hasAttemptsLeft() together all count, and the
\* lost updates of attempt++ mix with the resets.
THEOREM TypeCorrect == Spec => []TypeOK
BY InitTypeOK, StepTypeOK, PTL DEF Spec
-----------------------------------------------------------------------------
Owners == {"queued", "create", "wire", "up", "hdCheck", "hdClose", "hdMark"}

LEMMA StepDialIsOwned == TypeOK /\ DialIsOwned /\ [Next]_vars => DialIsOwned'
<1> SUFFICES ASSUME TypeOK, DialIsOwned, [Next]_vars,
                    state' = "CONNECTING", ~abandoned'
             PROVE  \E t \in Tasks : pc'[t] \in Owners
  BY DEF DialIsOwned, At, Owners
<1> USE DEF TypeOK, Owners, shared, SetState, Goto, Finish
<1>0. state = "CONNECTING" /\ ~abandoned => \E t \in Tasks : pc[t] \in Owners
  BY DEF DialIsOwned, At
<1>1. CASE Calls
  BY <1>0, <1>1 DEF Calls, UiConnect, UiDisconnect, Start, Cancelled, Send
<1>2. CASE UiStep
  BY <1>0, <1>2 DEF UiStep, UiArm, UiClaim, UiClose, UiMark
<1>3. ASSUME NEW t \in Tasks, Connecting(t) PROVE \E u \in Tasks : pc'[u] \in Owners
  BY <1>0, <1>3 DEF Connecting, ConnectCheck, ConnectArm, ConnectClaim,
     Dispatched, ConnectCreated, ConnectFailed, ConnectWire, ConnectUp
<1>4. ASSUME NEW t \in Tasks, Reading(t) PROVE \E u \in Tasks : pc'[u] \in Owners
  BY <1>0, <1>4 DEF Reading, LoopOpen, LoopHead, LoopFrame, LoopBreak
<1>5. ASSUME NEW t \in Tasks, Sending(t) PROVE \E u \in Tasks : pc'[u] \in Owners
  BY <1>0, <1>5 DEF Sending, SendWritten, SendFailed
<1>6. ASSUME NEW t \in Tasks, Losing(t) PROVE \E u \in Tasks : pc'[u] \in Owners
  BY <1>0, <1>6 DEF Losing, HandleCheck, HandleClose, HandleMark, scheduleReconnect
<1>7. ASSUME NEW t \in Tasks, Waiting(t) PROVE \E u \in Tasks : pc'[u] \in Owners
  BY <1>0, <1>7 DEF Waiting, NextDelayRead, NextDelayWrite, TimerFires
<1>8. CASE Restart
  BY <1>8 DEF Restart
<1>9. CASE UNCHANGED vars
  BY <1>0, <1>9 DEF vars
<1> QED
  BY <1>1, <1>2, <1>3, <1>4, <1>5, <1>6, <1>7, <1>8, <1>9 DEF Next, TaskStep

\* CONNECTING, which makes connect() refuse, always has a thread that will
\* leave it, but for a call that was cancelled before its dial began: that is
\* the only way in which the client locks itself out.
THEOREM DialOwned == Spec => []DialIsOwned
<1>1. Init => DialIsOwned
  BY DEF Init, DialIsOwned
<1> QED
  BY <1>1, InitTypeOK, StepTypeOK, StepDialIsOwned, PTL DEF Spec
-----------------------------------------------------------------------------
Readers == {"loopOpen", "loopHead", "loopRead", "hdCheck", "hdClose", "hdMark"}

\* CONNECTED is what send() and the screens go by: whoever set it reads on, or is
\* in the handleDisconnect() that takes it back, though another dial, read loop
\* or disconnect() may have closed its socket.
ConnectionIsRead == state = "CONNECTED" => At(Readers) # {}

LEMMA StepConnectionIsRead == TypeOK /\ ConnectionIsRead /\ [Next]_vars => ConnectionIsRead'
<1> SUFFICES ASSUME TypeOK, ConnectionIsRead, [Next]_vars, state' = "CONNECTED"
             PROVE  \E t \in Tasks : pc'[t] \in Readers
  BY DEF ConnectionIsRead, At, Readers
<1> USE DEF TypeOK, Readers, shared, SetState, Goto, Finish
<1>0. state = "CONNECTED" => \E t \in Tasks : pc[t] \in Readers
  BY DEF ConnectionIsRead, At
<1>1. CASE Calls
  BY <1>0, <1>1 DEF Calls, UiConnect, UiDisconnect, Start, Cancelled, Send
<1>2. CASE UiStep
  BY <1>0, <1>2 DEF UiStep, UiArm, UiClaim, UiClose, UiMark
<1>3. ASSUME NEW t \in Tasks, Connecting(t) PROVE \E u \in Tasks : pc'[u] \in Readers
  BY <1>0, <1>3 DEF Connecting, ConnectCheck, ConnectArm, ConnectClaim,
     Dispatched, ConnectCreated, ConnectFailed, ConnectWire, ConnectUp
<1>4. ASSUME NEW t \in Tasks, Reading(t) PROVE \E u \in Tasks : pc'[u] \in Readers
  BY <1>0, <1>4 DEF Reading, LoopOpen, LoopHead, LoopFrame, LoopBreak
<1>5. ASSUME NEW t \in Tasks, Sending(t) PROVE \E u \in Tasks : pc'[u] \in Readers
  BY <1>0, <1>5 DEF Sending, SendWritten, SendFailed
<1>6. ASSUME NEW t \in Tasks, Losing(t) PROVE \E u \in Tasks : pc'[u] \in Readers
  BY <1>0, <1>6 DEF Losing, HandleCheck, HandleClose, HandleMark, scheduleReconnect
<1>7. ASSUME NEW t \in Tasks, Waiting(t) PROVE \E u \in Tasks : pc'[u] \in Readers
  BY <1>0, <1>7 DEF Waiting, NextDelayRead, NextDelayWrite, TimerFires
<1>8. CASE Restart
  BY <1>8 DEF Restart
<1>9. CASE UNCHANGED vars
  BY <1>0, <1>9 DEF vars
<1> QED
  BY <1>1, <1>2, <1>3, <1>4, <1>5, <1>6, <1>7, <1>8, <1>9 DEF Next, TaskStep

\* A client that says it is connected has a thread that will find out when it
\* is not: with DialOwned, no state but DISCONNECTED is left without a thread.
THEOREM ConnectionRead == Spec => []ConnectionIsRead
<1>1. Init => ConnectionIsRead
  BY DEF Init, ConnectionIsRead
<1> QED
  BY <1>1, InitTypeOK, StepTypeOK, StepConnectionIsRead, PTL DEF Spec
-----------------------------------------------------------------------------
\* While stopped, a step leaves the client stopped unless somebody calls in.
LEMMA StepStopIsFinal ==
  ASSUME TypeOK, [Next]_vars, Stopped, ~Stopped'
  PROVE  \/ UiConnect \/ UiDisconnect
         \/ \E t \in Tasks : Start(t)
         \/ crashed'
<1> USE DEF Stopped, At, DialLabels, TypeOK, shared, SetState, Goto, Finish
<1>1. CASE Calls
  BY <1>1 DEF Calls, Cancelled, Send
<1>2. CASE UiStep
  BY <1>2 DEF UiStep, UiArm, UiClaim, UiClose, UiMark
<1>3. ASSUME NEW t \in Tasks, Connecting(t) PROVE FALSE
  BY <1>3 DEF Connecting, ConnectCheck, ConnectArm, ConnectClaim,
     Dispatched, ConnectCreated, ConnectFailed, ConnectWire, ConnectUp
<1>4. ASSUME NEW t \in Tasks, Reading(t) PROVE crashed'
  <2>1. CASE LoopOpen(t) BY <1>4, <2>1 DEF LoopOpen
  <2>2. CASE LoopHead(t) BY <1>4, <2>2 DEF LoopHead
  <2>3. CASE LoopFrame(t) BY <1>4, <2>3 DEF LoopFrame
  <2>4. CASE LoopBreak(t) BY <1>4, <2>4 DEF LoopBreak
  <2> QED BY <1>4, <2>1, <2>2, <2>3, <2>4 DEF Reading
<1>5. ASSUME NEW t \in Tasks, Sending(t) PROVE FALSE
  BY <1>5 DEF Sending, SendWritten, SendFailed
<1>6. ASSUME NEW t \in Tasks, Losing(t) PROVE FALSE
  BY <1>6 DEF Losing, HandleCheck, HandleClose, HandleMark, scheduleReconnect
<1>7. ASSUME NEW t \in Tasks, Waiting(t) PROVE FALSE
  BY <1>7 DEF Waiting, NextDelayRead, NextDelayWrite, TimerFires
<1>8. CASE Restart
  BY <1>8 DEF Restart
<1>9. CASE UNCHANGED vars
  BY <1>9 DEF vars
<1> QED
  BY <1>1, <1>2, <1>3, <1>4, <1>5, <1>6, <1>7, <1>8, <1>9 DEF Next, TaskStep

\* No timer and no read loop that outlives disconnect() dials again.
THEOREM StopFinal == Spec => StopIsFinal
<1>1. TypeOK /\ [Next]_vars =>
        [Stopped /\ ~Stopped' =>
           \/ UiConnect \/ UiDisconnect
           \/ \E t \in Tasks : Start(t)
           \/ crashed']_vars
  BY StepStopIsFinal
<1> QED
  BY <1>1, TypeCorrect, PTL DEF Spec, StopIsFinal
-----------------------------------------------------------------------------
\* What RetryIsPlanned rests on: the tasks that will dial for certain. One at
\* "create" is not among them.
Planners == {"check", "arm", "claim", "hdSchedule", "delayRead", "delayWrite", "delay"}
MustRetry == /\ state = "DISCONNECTED"
             /\ shouldReconnect /\ hasHost /\ ~crashed
             /\ hasAttemptsLeft
RetryInv == /\ ui \notin {"close", "mark"}
            /\ MustRetry => ui \in {"arm", "claim"} \/ \E t \in Tasks : pc[t] \in Planners

LEMMA StepRetryInv ==
  ASSUME "disconnect" \notin Entries, TypeOK, RetryInv, [Next]_vars
  PROVE  RetryInv'
<1>1. ui' \notin {"close", "mark"}
  BY DEF RetryInv, Next, Calls, UiConnect, UiDisconnect, Start, Cancelled, Send,
     UiStep, UiArm, UiClaim, UiClose, UiMark, TaskStep,
     Connecting, ConnectCheck, ConnectArm, ConnectClaim, Dispatched, ConnectCreated,
     ConnectFailed, ConnectWire, ConnectUp, Reading, LoopOpen, LoopHead,
     LoopFrame, LoopBreak, Sending, SendWritten, SendFailed, Losing,
     HandleCheck, HandleClose, HandleMark, scheduleReconnect, Waiting,
     NextDelayRead, NextDelayWrite, TimerFires, Restart, vars
<1> DEFINE Planned == ui \in {"arm", "claim"} \/ \E u \in Tasks : pc[u] \in Planners
<1>2. MustRetry => Planned
  BY DEF RetryInv
<1> HIDE DEF Planned
<1>3. ASSUME MustRetry' PROVE Planned'
  <2> USE DEF TypeOK, Planners, MustRetry, hasAttemptsLeft, Planned, shared, SetState, Goto, Finish
  <2>1. CASE Calls
    BY <1>2, <1>3, <2>1 DEF Calls, UiConnect, UiDisconnect, Start, Cancelled, Send
  <2>2. CASE UiStep
    BY <1>1, <1>2, <1>3, <2>2 DEF RetryInv, UiStep, UiArm, UiClaim, UiClose, UiMark
  <2>3. ASSUME NEW t \in Tasks, Connecting(t) PROVE Planned'
    <3>1. CASE ConnectCheck(t) BY <1>2, <1>3, <3>1 DEF ConnectCheck
    <3>2. CASE ConnectArm(t) BY <1>3, <3>2 DEF ConnectArm
    <3>3. CASE ConnectClaim(t) BY <1>3, <3>3 DEF ConnectClaim
    <3>4. CASE ConnectCreated(t) BY <1>2, <1>3, <3>4 DEF ConnectCreated
    <3>5. CASE ConnectFailed(t) BY <1>2, <1>3, <3>5 DEF ConnectFailed
    <3>6. CASE ConnectWire(t) BY <1>2, <1>3, <3>6 DEF ConnectWire
    <3>7. CASE ConnectUp(t) BY <1>3, <3>7 DEF ConnectUp
    <3>8. CASE Dispatched(t) BY <1>2, <1>3, <3>8 DEF Dispatched
    <3> QED BY <2>3, <3>1, <3>2, <3>3, <3>4, <3>5, <3>6, <3>7, <3>8 DEF Connecting
  <2>4. ASSUME NEW t \in Tasks, Reading(t) PROVE Planned'
    BY <1>2, <1>3, <2>4 DEF Reading, LoopOpen, LoopHead, LoopFrame, LoopBreak
  <2>5. ASSUME NEW t \in Tasks, Sending(t) PROVE Planned'
    BY <1>2, <1>3, <2>5 DEF Sending, SendWritten, SendFailed
  <2>6. ASSUME NEW t \in Tasks, Losing(t) PROVE Planned'
    <3>1. CASE HandleCheck(t) BY <1>2, <1>3, <3>1 DEF HandleCheck
    <3>2. CASE HandleClose(t) BY <1>2, <1>3, <3>2 DEF HandleClose
    <3>3. CASE HandleMark(t) BY <1>3, <3>3 DEF HandleMark
    <3>4. CASE scheduleReconnect(t) BY <1>2, <1>3, <3>4 DEF scheduleReconnect
    <3> QED BY <2>6, <3>1, <3>2, <3>3, <3>4 DEF Losing
  <2>7. ASSUME NEW t \in Tasks, Waiting(t) PROVE Planned'
    <3>1. CASE NextDelayRead(t) BY <1>2, <1>3, <3>1 DEF NextDelayRead
    <3>2. CASE NextDelayWrite(t) BY <1>3, <3>2 DEF NextDelayWrite
    <3>3. CASE TimerFires(t) BY <1>2, <1>3, <3>3 DEF TimerFires
    <3> QED BY <2>7, <3>1, <3>2, <3>3 DEF Waiting
  <2>8. CASE Restart
    BY <1>3, <2>8 DEF Restart
  <2>9. CASE UNCHANGED vars
    BY <1>2, <1>3, <2>9 DEF vars
  <2> QED
    BY <2>1, <2>2, <2>3, <2>4, <2>5, <2>6, <2>7, <2>8, <2>9 DEF Next, TaskStep
<1> QED
  BY <1>1, <1>3 DEF RetryInv, Planned

\* As long as no screen calls disconnect(), a lost connection is never
\* forgotten, whatever races its handlers run.
THEOREM RetryPlanned ==
  ASSUME "disconnect" \notin Entries
  PROVE  Spec => []RetryIsPlanned
<1>1. Init => RetryInv
  BY DEF Init, RetryInv, MustRetry
<1>2. TypeOK /\ RetryInv /\ [Next]_vars => RetryInv'
  BY StepRetryInv
<1>3. RetryInv => RetryIsPlanned
  BY DEF RetryInv, MustRetry, RetryIsPlanned, Planners, At, DialLabels
<1> QED
  BY <1>1, <1>2, <1>3, TypeCorrect, PTL DEF Spec
=============================================================================
