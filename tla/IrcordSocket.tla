---------------------------- MODULE IrcordSocket ----------------------------
(***************************************************************************)
(* The client's one transport: IrcordSocket.kt with its ReconnectPolicy.   *)
(*                                                                         *)
(* The object has no lock around its lifecycle. The main thread runs       *)
(* disconnect() and the first lines of connect(); every other line runs on *)
(* threads of Dispatchers.IO: the rest of connect(), the read loop of each *)
(* connection, the reconnect timers and the callers of send(). A thread of *)
(* that pool is an element of Tasks, and its program counter is its next   *)
(* access to the shared fields. A read loop takes the task of the          *)
(* connect() that launched it, a timer the task of the handleDisconnect()  *)
(* that scheduled it: both launches are the last thing their caller does.  *)
(***************************************************************************)
EXTENDS Integers, FiniteSets

CONSTANTS Tasks,        \* coroutines on Dispatchers.IO (bound: how many at once)
          Sockets,      \* identities of java.net.Socket objects, recycled
          NoSocket,     \* the null reference
          MaxAttempts,  \* ReconnectPolicy.MAX_ATTEMPTS
          Tls,          \* useTls: the dial ends with a handshake
          Entries       \* the entry points the rest of the app calls

ASSUME EntriesAssumption ==
  Entries \subseteq {"start", "connect", "leave", "disconnect", "send"}
ASSUME MaxAttemptsAssumption == MaxAttempts \in Nat \ {0}
ASSUME NoSocketAssumption == NoSocket \notin Sockets

ConnectionState == {"DISCONNECTED", "CONNECTING", "CONNECTED"}

VARIABLES
  state,            \* _connectionState
  shouldReconnect,
  hasHost,          \* currentHost # null
  socket, output,   \* the two fields that closeSocket() closes and clears
  attempt,          \* ReconnectPolicy.attempt
  open,             \* sockets that are connected and not closed by this side
  ui,               \* program counter of the main thread
  pc, own, seen,    \* per task: program counter, its socket, attempt it read
  abandoned,        \* history: the call whose CONNECTING this is was cancelled
  crashed           \* an exception left a coroutine: Android ends the process

shared == <<state, shouldReconnect, hasHost, socket, output, attempt, open>>
vars == <<shared, ui, pc, own, seen, abandoned, crashed>>

UiPC == {"idle", "arm", "claim", "close", "mark"}
PC == {"idle", "check", "arm", "claim", "queued", "create", "wire", "up", \* connect
       "loopOpen", "loopHead", "loopRead",                           \* readLoop
       "sendWrite",                                     \* send
       "hdCheck", "hdClose", "hdMark", "hdSchedule",       \* handleDisconnect
       "delayRead", "delayWrite", "delay"}                 \* scheduleReconnect

Init ==
  /\ state = "DISCONNECTED"
  /\ shouldReconnect = TRUE
  /\ hasHost = FALSE
  /\ socket = NoSocket
  /\ output = NoSocket
  /\ attempt = 0
  /\ open = {}
  /\ ui = "idle"
  /\ pc = [t \in Tasks |-> "idle"]
  /\ own = [t \in Tasks |-> NoSocket]
  /\ seen = [t \in Tasks |-> 0]
  /\ abandoned = FALSE
  /\ crashed = FALSE

Goto(t, l) == pc' = [pc EXCEPT ![t] = l]
\* The task ends: what it held is garbage.
Finish(t) == /\ Goto(t, "idle")
             /\ own' = [own EXCEPT ![t] = NoSocket]
             /\ seen' = [seen EXCEPT ![t] = 0]

SetState(s) == state' = s /\ abandoned' = FALSE

closeSocket == /\ open' = open \ {socket, output}
               /\ socket' = NoSocket
               /\ output' = NoSocket

hasAttemptsLeft == attempt < MaxAttempts

\* Objects nothing refers to any more.
Unreferenced == Sockets \ (open \cup {socket, output} \cup {own[t] : t \in Tasks})
-----------------------------------------------------------------------------
(* connect() on a task: IrcordConnectionManager.start(), or a timer.        *)

Start(t) ==                                     \* start() calls connect()
  /\ "start" \in Entries
  /\ pc[t] = "idle"
  /\ Goto(t, "check")
  /\ UNCHANGED <<shared, ui, own, seen, abandoned, crashed>>

ConnectCheck(t) ==                              \* the early return
  /\ pc[t] = "check"
  /\ IF state = "DISCONNECTED" THEN Goto(t, "arm") /\ UNCHANGED <<own, seen>>
                               ELSE Finish(t)
  /\ UNCHANGED <<shared, ui, abandoned, crashed>>

ConnectArm(t) ==                                \* host, port, shouldReconnect
  /\ pc[t] = "arm"
  /\ hasHost' = TRUE
  /\ shouldReconnect' = TRUE
  /\ Goto(t, "claim")
  /\ UNCHANGED <<state, socket, output, attempt, open, ui, own, seen, abandoned, crashed>>

ConnectClaim(t) ==
  /\ pc[t] = "claim"
  /\ SetState("CONNECTING")
  /\ Goto(t, "create")
  /\ UNCHANGED <<shouldReconnect, hasHost, socket, output, attempt, open, ui,
                 own, seen, crashed>>

\* createPlainSocket / createTlsSocket return, and the field is assigned.
ConnectCreated(t) ==
  /\ pc[t] = "create"
  /\ \E s \in Unreferenced :
       /\ own' = [own EXCEPT ![t] = s]
       /\ open' = open \cup {s}
       /\ socket' = s
  /\ Goto(t, "wire")
  /\ UNCHANGED <<state, shouldReconnect, hasHost, output, attempt, ui, seen, abandoned, crashed>>

\* Mutant of ConnectFailed: the exception is logged and forgotten.
ConnectFailedQuietly(t) ==
  /\ pc[t] = "create"
  /\ Finish(t)
  /\ UNCHANGED <<shared, ui, abandoned, crashed>>

\* Unknown host, refused, timed out, TLS error.
ConnectFailed(t) ==
  /\ pc[t] = "create"
  /\ Goto(t, "hdCheck")
  /\ UNCHANGED <<shared, ui, own, seen, abandoned, crashed>>

\* getOutputStream() of a socket that was closed meanwhile throws.
ConnectWire(t) ==
  /\ pc[t] = "wire"
  /\ IF own[t] \in open THEN output' = own[t] /\ Goto(t, "up")
                        ELSE UNCHANGED output /\ Goto(t, "hdCheck")
  /\ UNCHANGED <<state, shouldReconnect, hasHost, socket, attempt, open, ui,
                 own, seen, abandoned, crashed>>

ConnectUp(t) ==                     \* CONNECTED, reset(), launch the read loop
  /\ pc[t] = "up"
  /\ SetState("CONNECTED")
  /\ attempt' = 0
  /\ Goto(t, "loopOpen")
  /\ UNCHANGED <<shouldReconnect, hasHost, socket, output, open, ui, own, seen, crashed>>
-----------------------------------------------------------------------------
(* The main thread: the settings screen's reconnect() and disconnect().     *)

UiConnect ==
  /\ "connect" \in Entries
  /\ ui = "idle"
  /\ state = "DISCONNECTED"
  /\ ui' = "arm"
  /\ UNCHANGED <<shared, pc, own, seen, abandoned, crashed>>

UiArm ==
  /\ ui = "arm"
  /\ hasHost' = TRUE
  /\ shouldReconnect' = TRUE
  /\ ui' = "claim"
  /\ UNCHANGED <<state, socket, output, attempt, open, pc, own, seen, abandoned, crashed>>

\* The end of the main thread's part: withContext queues the dial for the pool.
UiClaim(t) ==
  /\ ui = "claim"
  /\ pc[t] = "idle"
  /\ SetState("CONNECTING")
  /\ ui' = "idle"
  /\ Goto(t, "queued")
  /\ UNCHANGED <<shouldReconnect, hasHost, socket, output, attempt, open,
                 own, seen, crashed>>

Dispatched(t) ==                                \* a thread of the pool takes it
  /\ pc[t] = "queued"
  /\ Goto(t, "create")
  /\ UNCHANGED <<shared, ui, own, seen, abandoned, crashed>>

\* The settings screen is left: onCleared() cancels viewModelScope. A dial that
\* no thread has taken yet is dropped, one that runs blocks in its socket calls
\* and does not notice.
Cancelled(t) ==
  /\ "leave" \in Entries
  /\ ui = "idle"
  /\ pc[t] = "queued"
  /\ Finish(t)
  /\ abandoned' = (state = "CONNECTING")
  /\ UNCHANGED <<shared, ui, crashed>>

UiDisconnect ==
  /\ "disconnect" \in Entries
  /\ ui = "idle"
  /\ shouldReconnect' = FALSE
  /\ attempt' = 0
  /\ ui' = "close"
  /\ UNCHANGED <<state, hasHost, socket, output, open, pc, own, seen, abandoned, crashed>>

UiClose ==
  /\ ui = "close"
  /\ closeSocket
  /\ ui' = "mark"
  /\ UNCHANGED <<state, shouldReconnect, hasHost, attempt, pc, own, seen, abandoned, crashed>>

UiMark ==
  /\ ui = "mark"
  /\ SetState("DISCONNECTED")
  /\ ui' = "idle"
  /\ UNCHANGED <<shouldReconnect, hasHost, socket, output, attempt, open, pc,
                 own, seen, crashed>>
-----------------------------------------------------------------------------
(* readLoop                                                                 *)

\* getInputStream() stands before the try block: on a closed socket it throws
\* out of the coroutine.
LoopOpen(t) ==
  /\ pc[t] = "loopOpen"
  /\ IF own[t] \in open THEN Goto(t, "loopHead") /\ UNCHANGED crashed
                        ELSE crashed' = TRUE /\ UNCHANGED pc
  /\ UNCHANGED <<shared, ui, own, seen, abandoned>>

LoopHead(t) ==
  /\ pc[t] = "loopHead"
  /\ Goto(t, IF state = "CONNECTED" THEN "loopRead" ELSE "hdCheck")
  /\ UNCHANGED <<shared, ui, own, seen, abandoned, crashed>>

LoopFrame(t) ==                                 \* a frame arrives and is emitted
  /\ pc[t] = "loopRead"
  /\ own[t] \in open
  /\ Goto(t, "loopHead")
  /\ UNCHANGED <<shared, ui, own, seen, abandoned, crashed>>

\* End of stream, reset, bad length; certain once this side closed the socket.
LoopBreak(t) ==
  /\ pc[t] = "loopRead"
  /\ Goto(t, "hdCheck")
  /\ UNCHANGED <<shared, ui, own, seen, abandoned, crashed>>
-----------------------------------------------------------------------------
(* send                                                                     *)

Send(t) ==
  /\ "send" \in Entries
  /\ pc[t] = "idle"
  /\ state = "CONNECTED"
  /\ Goto(t, "sendWrite")
  /\ UNCHANGED <<shared, ui, own, seen, abandoned, crashed>>

\* A null output writes nothing and still returns true.
SendWritten(t) ==
  /\ pc[t] = "sendWrite"
  /\ output \in open \cup {NoSocket}
  /\ Finish(t)
  /\ UNCHANGED <<shared, ui, abandoned, crashed>>

SendFailed(t) ==                                \* IOException
  /\ pc[t] = "sendWrite"
  /\ output # NoSocket
  /\ Goto(t, "hdCheck")
  /\ UNCHANGED <<shared, ui, own, seen, abandoned, crashed>>
-----------------------------------------------------------------------------
(* handleDisconnect and scheduleReconnect                                   *)

HandleCheck(t) ==
  /\ pc[t] = "hdCheck"
  /\ IF state = "DISCONNECTED" THEN Finish(t)
                               ELSE Goto(t, "hdClose") /\ UNCHANGED <<own, seen>>
  /\ UNCHANGED <<shared, ui, abandoned, crashed>>

HandleClose(t) ==
  /\ pc[t] = "hdClose"
  /\ closeSocket
  /\ Goto(t, "hdMark")
  /\ UNCHANGED <<state, shouldReconnect, hasHost, attempt, ui, own, seen, abandoned, crashed>>

HandleMark(t) ==
  /\ pc[t] = "hdMark"
  /\ SetState("DISCONNECTED")
  /\ Goto(t, "hdSchedule")
  /\ UNCHANGED <<shouldReconnect, hasHost, socket, output, attempt, open, ui,
                 own, seen, crashed>>

\* Mutant of scheduleReconnect: one retry, not MaxAttempts of them.
scheduleReconnectOnce(t) ==
  /\ pc[t] = "hdSchedule"
  /\ IF shouldReconnect /\ attempt = 0
     THEN /\ Goto(t, "delayRead")
          /\ own' = [own EXCEPT ![t] = NoSocket]
          /\ UNCHANGED seen
     ELSE Finish(t)
  /\ UNCHANGED <<shared, ui, abandoned, crashed>>

scheduleReconnect(t) ==
  /\ pc[t] = "hdSchedule"
  /\ IF shouldReconnect /\ hasAttemptsLeft
     THEN /\ Goto(t, "delayRead")
          /\ own' = [own EXCEPT ![t] = NoSocket]
          /\ UNCHANGED seen
     ELSE Finish(t)
  /\ UNCHANGED <<shared, ui, abandoned, crashed>>

\* nextDelayMs: attempt++ is a read and a write, and nothing is volatile. No
\* line of the code stops the counter at MAX_ATTEMPTS.
NextDelayRead(t) ==
  /\ pc[t] = "delayRead"
  /\ seen' = [seen EXCEPT ![t] = attempt]
  /\ Goto(t, "delayWrite")
  /\ UNCHANGED <<shared, ui, own, abandoned, crashed>>

\* Mutant of NextDelayWrite: counts the attempts that are left.
NextDelayWriteDown(t) ==
  /\ pc[t] = "delayWrite"
  /\ attempt' = seen[t] - 1
  /\ seen' = [seen EXCEPT ![t] = 0]
  /\ Goto(t, "delay")
  /\ UNCHANGED <<state, shouldReconnect, hasHost, socket, output, open, ui, own,
                 abandoned, crashed>>

NextDelayWrite(t) ==
  /\ pc[t] = "delayWrite"
  /\ attempt' = seen[t] + 1
  /\ seen' = [seen EXCEPT ![t] = 0]
  /\ Goto(t, "delay")
  /\ UNCHANGED <<state, shouldReconnect, hasHost, socket, output, open, ui, own,
                 abandoned, crashed>>

\* Mutant of TimerFires: forgets that disconnect() may have been called.
TimerFiresAnyway(t) ==
  /\ pc[t] = "delay"
  /\ IF state = "DISCONNECTED" /\ hasHost
     THEN Goto(t, "check") /\ UNCHANGED <<own, seen>>
     ELSE Finish(t)
  /\ UNCHANGED <<shared, ui, abandoned, crashed>>

TimerFires(t) ==
  /\ pc[t] = "delay"
  /\ IF shouldReconnect /\ state = "DISCONNECTED" /\ hasHost
     THEN Goto(t, "check") /\ UNCHANGED <<own, seen>>
     ELSE Finish(t)
  /\ UNCHANGED <<shared, ui, abandoned, crashed>>
-----------------------------------------------------------------------------
\* Android ends a process with an uncaught exception; the user opens it again.
Restart ==
  /\ crashed
  /\ state' = "DISCONNECTED"
  /\ shouldReconnect' = TRUE
  /\ hasHost' = FALSE
  /\ socket' = NoSocket
  /\ output' = NoSocket
  /\ attempt' = 0
  /\ open' = {}
  /\ ui' = "idle"
  /\ pc' = [t \in Tasks |-> "idle"]
  /\ own' = [t \in Tasks |-> NoSocket]
  /\ seen' = [t \in Tasks |-> 0]
  /\ abandoned' = FALSE
  /\ crashed' = FALSE

Connecting(t) == \/ ConnectCheck(t) \/ ConnectArm(t) \/ ConnectClaim(t)
                 \/ Dispatched(t) \/ ConnectCreated(t) \/ ConnectFailed(t)
                 \/ ConnectWire(t) \/ ConnectUp(t)
Reading(t) == LoopOpen(t) \/ LoopHead(t) \/ LoopFrame(t) \/ LoopBreak(t)
Sending(t) == SendWritten(t) \/ SendFailed(t)
Losing(t) == HandleCheck(t) \/ HandleClose(t) \/ HandleMark(t) \/ scheduleReconnect(t)
Waiting(t) == NextDelayRead(t) \/ NextDelayWrite(t) \/ TimerFires(t)

UiStep == UiArm \/ (\E t \in Tasks : UiClaim(t)) \/ UiClose \/ UiMark
Calls == UiConnect \/ UiDisconnect \/ \E t \in Tasks : Start(t) \/ Cancelled(t) \/ Send(t)

TaskStep(t) == Connecting(t) \/ Reading(t) \/ Sending(t) \/ Losing(t) \/ Waiting(t)

Next == \/ ~crashed /\ (Calls \/ UiStep \/ \E t \in Tasks : TaskStep(t))
        \/ Restart

Spec == Init /\ [][Next]_vars

\* The dispatcher runs every ready coroutine and the main thread its queue,
\* first come first served (hence SF for the one that waits for a task), and a
\* delay elapses. A dial without TLS ends by the 30 s timeout of connect(); the
\* handshake has none (soTimeout = 0), so nothing makes a dial with TLS end.
\* Nor does anything oblige a screen to call in, a server to answer, or a user
\* to relaunch.
MustRun(t) == ~crashed /\ ~(Tls /\ pc[t] = "create") /\ TaskStep(t)
Fairness == /\ WF_vars(~crashed /\ UiStep)
            /\ SF_vars(~crashed /\ \E t \in Tasks : UiClaim(t))
            /\ \A t \in Tasks : WF_vars(MustRun(t))
FairSpec == Spec /\ Fairness
-----------------------------------------------------------------------------
At(labels) == {t \in Tasks : pc[t] \in labels}

DialLabels == {"check", "arm", "claim", "queued", "create", "wire", "up"}

\* The types of the fields of IrcordSocket and of its threads; attempt has no
\* limit (nextDelayMs counts without looking).
TypeOK ==
  /\ state \in ConnectionState
  /\ shouldReconnect \in BOOLEAN
  /\ hasHost \in BOOLEAN
  /\ socket \in Sockets \cup {NoSocket}
  /\ output \in Sockets \cup {NoSocket}
  /\ attempt \in Nat
  /\ open \subseteq Sockets
  /\ ui \in UiPC
  /\ pc \in [Tasks -> PC]
  /\ own \in [Tasks -> Sockets \cup {NoSocket}]
  /\ seen \in [Tasks -> Nat]
  /\ abandoned \in BOOLEAN
  /\ crashed \in BOOLEAN

\* CONNECTING is left behind in one way only. connect() refuses to run while
\* the state is CONNECTING, so a dial that ended without resetting it would lock
\* the client out of its server until somebody disconnects: as long as the call
\* that set it was not cancelled before its dial began, some thread still has to
\* create the socket, announce it, or run handleDisconnect() over the failed one.
DialIsOwned ==
  state = "CONNECTING" /\ ~abandoned =>
    At({"queued", "create", "wire", "up", "hdCheck", "hdClose", "hdMark"}) # {}

\* The user has disconnected, and no connect() was in flight at that time.
Stopped == /\ ~crashed
           /\ ~shouldReconnect
           /\ ui = "idle"
           /\ At(DialLabels) = {}

\* disconnect() is final: read loops that end late and timers that were
\* already counting down never dial again, only a new call does.
StopIsFinal ==
  [][Stopped /\ ~Stopped' =>
       \/ UiConnect \/ UiDisconnect
       \/ \E t \in Tasks : Start(t)
       \/ crashed']_vars

\* While nobody calls disconnect(), a lost connection is never forgotten:
\* whoever wins the races in handleDisconnect(), a DISCONNECTED client with
\* attempts left has a thread that dials, is about to, or waits to.
RetryIsPlanned ==
  state = "DISCONNECTED" /\ shouldReconnect /\ hasHost /\ hasAttemptsLeft /\ ~crashed =>
    \/ ui # "idle"
    \/ At(DialLabels \cup {"hdSchedule", "delayRead", "delayWrite", "delay"}) # {}

\* Reconnection does its work over a plain connection: a client that was told to
\* connect gets connected, uses up its attempts and stops dialling, is told to
\* stop, dies, or sits in the CONNECTING of a cancelled call. With TLS nothing
\* of the kind is promised: a server that stalls the handshake keeps the client
\* CONNECTING.
Recovers ==
  (hasHost /\ shouldReconnect)
    ~> \/ state = "CONNECTED"
       \/ state = "DISCONNECTED" /\ ~hasAttemptsLeft
       \/ abandoned
       \/ ~shouldReconnect \/ crashed
=============================================================================
