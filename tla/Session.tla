------------------------------- MODULE Session -------------------------------
(***************************************************************************)
(* Login over one connection after another: IrcordConnectionManager.kt,    *)
(* from start() to the dispatch of a frame.                                *)
(*                                                                         *)
(* Every call of start() launches two coroutines that never end: one       *)
(* collects the socket's frames and dispatches them, one collects its      *)
(* connection state and says HELLO. Screens call start() whenever they are *)
(* opened (ChatViewModel.kt:92) and on "reconnect" (ChatViewModel.kt:211), *)
(* so several of both may run: an element of Starts is one call.           *)
(*                                                                         *)
(* The socket appears as what it tells its users: up or down, and frames   *)
(* in order while it is up (module IrcordSocket has its inside). The       *)
(* server is external: a state per connection, as the client addresses it. *)
(***************************************************************************)
EXTENDS Naturals, Sequences, SequencesExt

CONSTANTS Starts,      \* calls of start() in the life of the process
          Buffer,      \* extraBufferCapacity of _incomingFrames
          MaxChats,    \* bound: chat messages the server relays to this client
          MaxDrops,    \* bound: connections lost
          ServerMayRefuse   \* whether the server may answer AUTH_FAIL

ASSUME StartsAssumption == Starts # {}
ASSUME BufferAssumption == Buffer \in Nat \ {0}
ASSUME BoundsAssumption == MaxChats \in Nat /\ MaxDrops \in Nat
ASSUME ServerAssumption == ServerMayRefuse \in BOOLEAN

AuthState == {"NONE", "HELLO_SENT", "CHALLENGE_RECEIVED", "AUTH_SENT", "AUTHENTICATED"}
ServerState == {"none", "hello", "auth_pending", "established", "dead"}
Request == {"KEY_UPLOAD", "CHAT"}            \* what a job sends
NeedsAccount == Request \cup {"FILE"}        \* what the server wants a login for
ToServer == {"HELLO", "AUTH_RESPONSE"} \cup NeedsAccount
LoginFrame == {"AUTH_CHALLENGE", "AUTH_OK", "AUTH_FAIL"}
ToClient == LoginFrame \cup {"CHAT", "ERROR"}

VARIABLES
  link,        \* socket.connectionState: "down" or "up" (CONNECTED)
  authState,   \* _authState
  watcher,     \* start() -> the coroutine that collects connectionState
  lastSeen,    \* start() -> the last link state that coroutine collected
  handler,     \* start() -> the coroutine that dispatches frames
  inbox,       \* start() -> frames emitted and not yet collected by it
  jobs,        \* coroutines on Dispatchers.Default about to send a Request
  server,      \* the server's state for the current connection
  sent, reply, \* frames in flight on the current connection, either way
  relayed,     \* chat messages the server has relayed
  rows,        \* messages inserted in the local database
  refused,     \* traffic that reached the server before it authenticated us
  missed,      \* history: a frame of the login that no collector got
  drops,       \* connections lost so far
  canSign      \* the crypto engine holds a private key

linkVars == <<link, server, sent, reply, drops>>
clientVars == <<authState, watcher, lastSeen, handler, inbox, jobs, rows>>
vars == <<linkVars, clientVars, relayed, refused, missed, canSign>>

Init ==
  /\ link = "down"
  /\ authState = "NONE"
  /\ watcher = [c \in Starts |-> "off"]
  /\ lastSeen = [c \in Starts |-> "none"]
  /\ handler = [c \in Starts |-> "off"]
  /\ inbox = [c \in Starts |-> <<>>]
  /\ jobs = [r \in Request |-> 0]
  /\ server = "none"
  /\ sent = <<>>
  /\ reply = <<>>
  /\ relayed = 0
  /\ rows = 0
  /\ refused = {}
  /\ missed = FALSE
  /\ drops = 0
  /\ canSign \in BOOLEAN

\* sendEnvelope: false, and nothing else, when the socket is not CONNECTED.
sendEnvelope(type) == sent' = IF link = "up" THEN Append(sent, type) ELSE sent
-----------------------------------------------------------------------------
(* The socket and the network, as seen from outside IrcordSocket.           *)

LinkUp ==
  /\ link = "down"
  /\ \E c \in Starts : watcher[c] # "off"        \* someone called connect()
  /\ link' = "up"
  /\ server' = "hello"
  /\ UNCHANGED <<sent, reply, drops, clientVars, relayed, refused, missed, canSign>>

\* Loss of the connection takes the frames in flight with it.
LinkDown ==
  /\ link = "up"
  /\ drops < MaxDrops
  /\ link' = "down"
  /\ server' = "none"
  /\ sent' = <<>>
  /\ reply' = <<>>
  /\ drops' = drops + 1
  /\ UNCHANGED <<clientVars, relayed, refused, missed, canSign>>

\* Who collects frames by now; a coroutine that start() has launched may not.
Subscribers == {c \in Starts : handler[c] \notin {"off", "launched"}}

Emitted == [c \in Starts |-> IF c \in Subscribers THEN Append(inbox[c], Head(reply))
                                                ELSE inbox[c]]

\* Mutant of Emit: an unbounded buffer.
EmitUnbounded ==
  /\ reply # <<>>
  /\ reply' = Tail(reply)
  /\ inbox' = Emitted
  /\ UNCHANGED <<link, server, sent, drops, authState, watcher, lastSeen,
                 handler, jobs, rows, relayed, refused, missed, canSign>>

\* The read loop's tryEmit: every collector gets the frame, or, when one of
\* them is a full buffer behind, none does. The flow replays nothing: a frame
\* that comes while nobody collects is gone too.
Emit ==
  /\ reply # <<>>
  /\ reply' = Tail(reply)
  /\ LET heard == /\ Subscribers # {}
                  /\ \A c \in Subscribers : Len(inbox[c]) < Buffer
     IN /\ inbox' = IF heard THEN Emitted ELSE inbox
        /\ missed' = (missed \/ (~heard /\ Head(reply) \in LoginFrame))
  /\ UNCHANGED <<link, server, sent, drops, authState, watcher, lastSeen,
                 handler, jobs, rows, relayed, refused, canSign>>
-----------------------------------------------------------------------------
(* The server (external).                                                   *)

ServerTakes(type) == sent # <<>> /\ Head(sent) = type /\ sent' = Tail(sent)
Answer(type) == reply' = Append(reply, type)

\* HELLO is answered by a nonce, once.
ServerHello ==
  /\ ServerTakes("HELLO")
  /\ IF server = "hello" THEN server' = "auth_pending" /\ Answer("AUTH_CHALLENGE")
                         ELSE UNCHANGED <<server, reply>>
  /\ UNCHANGED <<link, drops, clientVars, relayed, refused, missed, canSign>>

ServerAccepts ==
  /\ ServerTakes("AUTH_RESPONSE")
  /\ IF server = "auth_pending" THEN server' = "established" /\ Answer("AUTH_OK")
                                ELSE UNCHANGED <<server, reply>>
  /\ UNCHANGED <<link, drops, clientVars, relayed, refused, missed, canSign>>

ServerRefuses ==
  /\ ServerMayRefuse
  /\ ServerTakes("AUTH_RESPONSE")
  /\ server = "auth_pending"
  /\ Answer("AUTH_FAIL")
  /\ server' = "dead"
  /\ UNCHANGED <<link, drops, clientVars, relayed, refused, missed, canSign>>

\* Whatever needs an account is refused before the login is complete, with an
\* MT_ERROR (bound: one on its way) or without a word.
ServerRequest(type) ==
  /\ ServerTakes(type)
  /\ IF server = "established"
     THEN UNCHANGED <<refused, reply>>
     ELSE /\ refused' = refused \cup {type}
          /\ \/ UNCHANGED reply
             \/ ~Contains(reply, "ERROR") /\ Answer("ERROR")
  /\ UNCHANGED <<link, server, drops, clientVars, relayed, missed, canSign>>

ServerRelays ==
  /\ server = "established"
  /\ relayed < MaxChats
  /\ relayed' = relayed + 1
  /\ Answer("CHAT")
  /\ UNCHANGED <<link, server, sent, drops, clientVars, refused, missed, canSign>>
-----------------------------------------------------------------------------
(* start() and its two coroutines.                                          *)

\* Launches the collector of frames, then connects without waiting for it.
start(c) ==
  /\ watcher[c] = "off"
  /\ watcher' = [watcher EXCEPT ![c] = "collect"]
  /\ handler' = [handler EXCEPT ![c] = "launched"]
  /\ UNCHANGED <<linkVars, authState, lastSeen, inbox, jobs, rows, relayed, refused, missed, canSign>>

\* collectFrames() gets its turn and subscribes.
Subscribe(c) ==
  /\ handler[c] = "launched"
  /\ handler' = [handler EXCEPT ![c] = "collect"]
  /\ UNCHANGED <<linkVars, authState, watcher, lastSeen, inbox, jobs, rows,
                 relayed, refused, missed, canSign>>

\* Mutant of SeeState: says HELLO only to the state it starts with.
SeeStateOnce(c) ==
  /\ watcher[c] = "collect"
  /\ lastSeen[c] # link
  /\ lastSeen' = [lastSeen EXCEPT ![c] = link]
  /\ watcher' = IF lastSeen[c] = "none" /\ link = "up" /\ authState = "NONE"
                THEN [watcher EXCEPT ![c] = "hello"] ELSE watcher
  /\ UNCHANGED <<linkVars, authState, handler, inbox, jobs, rows, relayed, refused, missed, canSign>>

\* A StateFlow is conflated: the collector sees its latest value, if that
\* differs from the one it saw before.
SeeState(c) ==
  /\ watcher[c] = "collect"
  /\ lastSeen[c] # link
  /\ lastSeen' = [lastSeen EXCEPT ![c] = link]
  /\ watcher' = IF link = "up" /\ authState = "NONE"
                THEN [watcher EXCEPT ![c] = "hello"] ELSE watcher
  /\ UNCHANGED <<linkVars, authState, handler, inbox, jobs, rows, relayed, refused, missed, canSign>>

\* sendHello: the frame first, the new state afterwards, whatever send said.
SendHello(c) ==
  /\ watcher[c] = "hello"
  /\ sendEnvelope("HELLO")
  /\ watcher' = [watcher EXCEPT ![c] = "helloSent"]
  /\ UNCHANGED <<link, server, reply, drops, authState, lastSeen, handler,
                 inbox, jobs, rows, relayed, refused, missed, canSign>>

HelloSent(c) ==
  /\ watcher[c] = "helloSent"
  /\ authState' = "HELLO_SENT"
  /\ watcher' = [watcher EXCEPT ![c] = "collect"]
  /\ UNCHANGED <<linkVars, lastSeen, handler, inbox, jobs, rows, relayed, refused, missed, canSign>>

\* dispatch(): the next frame of this collector.
Collects(c, type) ==
  /\ handler[c] = "collect"
  /\ inbox[c] # <<>>
  /\ Head(inbox[c]) = type
  /\ inbox' = [inbox EXCEPT ![c] = Tail(@)]

handleAuthChallenge(c) ==
  /\ Collects(c, "AUTH_CHALLENGE")
  /\ authState' = "CHALLENGE_RECEIVED"
  /\ handler' = [handler EXCEPT ![c] = "challenged"]
  /\ UNCHANGED <<linkVars, watcher, lastSeen, jobs, rows, relayed, refused, missed, canSign>>

SendAuthResponse(c) ==
  /\ canSign
  /\ handler[c] = "challenged"
  /\ sendEnvelope("AUTH_RESPONSE")
  /\ handler' = [handler EXCEPT ![c] = "responded"]
  /\ UNCHANGED <<link, server, reply, drops, authState, watcher, lastSeen,
                 inbox, jobs, rows, relayed, refused, missed, canSign>>

\* signChallenge or identityPub returned null: nothing is sent.
CannotSign(c) ==
  /\ ~canSign
  /\ handler[c] = "challenged"
  /\ handler' = [handler EXCEPT ![c] = "collect"]
  /\ UNCHANGED <<linkVars, authState, watcher, lastSeen, inbox, jobs, rows,
                 relayed, refused, missed, canSign>>

AuthSent(c) ==
  /\ handler[c] = "responded"
  /\ authState' = "AUTH_SENT"
  /\ handler' = [handler EXCEPT ![c] = "collect"]
  /\ UNCHANGED <<linkVars, watcher, lastSeen, inbox, jobs, rows, relayed, refused, missed, canSign>>

handleAuthOk(c) ==
  /\ Collects(c, "AUTH_OK")
  /\ authState' = "AUTHENTICATED"
  /\ jobs' = [jobs EXCEPT !["KEY_UPLOAD"] = @ + 1]
  /\ UNCHANGED <<linkVars, watcher, lastSeen, handler, rows, relayed, refused, missed, canSign>>

handleAuthFail(c) ==
  /\ Collects(c, "AUTH_FAIL")
  /\ authState' = "NONE"
  /\ UNCHANGED <<linkVars, watcher, lastSeen, handler, jobs, rows, relayed, refused, missed, canSign>>

handleError(c) ==                               \* logged, and shown
  /\ Collects(c, "ERROR")
  /\ UNCHANGED <<linkVars, authState, watcher, lastSeen, handler, jobs, rows,
                 relayed, refused, missed, canSign>>

\* Mutant of handleIncomingChat: the frame stays at the head of the buffer.
handleIncomingChatTwice(c) ==
  /\ handler[c] = "collect"
  /\ inbox[c] # <<>> /\ Head(inbox[c]) = "CHAT"
  /\ rows <= MaxChats
  /\ rows' = rows + 1
  /\ UNCHANGED <<linkVars, authState, watcher, lastSeen, handler, inbox, jobs,
                 relayed, refused, missed, canSign>>

\* handleIncomingChat: decrypts and inserts a row.
handleIncomingChat(c) ==
  /\ Collects(c, "CHAT")
  /\ rows' = rows + 1
  /\ UNCHANGED <<linkVars, authState, watcher, lastSeen, handler, jobs,
                 relayed, refused, missed, canSign>>

\* Mutant of sendChat: the socket is up, so send.
sendChatUnauthenticated ==
  /\ link = "up"
  /\ jobs["CHAT"] = 0
  /\ ~Contains(sent, "CHAT")
  /\ "CHAT" \notin refused
  /\ jobs' = [jobs EXCEPT !["CHAT"] = 1]
  /\ UNCHANGED <<linkVars, authState, watcher, lastSeen, handler, inbox, rows,
                 relayed, refused, missed, canSign>>

\* sendChat and sendCommand look at both states, then leave the frame to a
\* coroutine (bound: one at a time, until the server has refused one).
sendChat ==
  /\ link = "up"
  /\ authState = "AUTHENTICATED"
  /\ jobs["CHAT"] = 0
  /\ ~Contains(sent, "CHAT")
  /\ "CHAT" \notin refused
  /\ jobs' = [jobs EXCEPT !["CHAT"] = 1]
  /\ UNCHANGED <<linkVars, authState, watcher, lastSeen, handler, inbox, rows,
                 relayed, refused, missed, canSign>>

\* sendFileUploadRequest, sendFileUploadChunk and sendFileDownloadRequest look at
\* no state, they leave it to the socket (bound: one frame at a time, on the
\* first connection, until the server has refused one).
sendFile ==
  /\ ~Contains(sent, "FILE")
  /\ drops = 0 /\ "FILE" \notin refused
  /\ sendEnvelope("FILE")
  /\ UNCHANGED <<link, server, reply, drops, clientVars, relayed, refused, missed, canSign>>

\* On Dispatchers.Default: prepareRegistration(100) and KEY_UPLOAD, or a
\* message or command.
SendRequest(type) ==
  /\ jobs[type] > 0
  /\ jobs' = [jobs EXCEPT ![type] = @ - 1]
  /\ sendEnvelope(type)
  /\ UNCHANGED <<link, server, reply, drops, authState, watcher, lastSeen,
                 handler, inbox, rows, relayed, refused, missed, canSign>>
-----------------------------------------------------------------------------
Watch(c) == SeeState(c) \/ SendHello(c) \/ HelloSent(c)
Handle(c) == \/ Subscribe(c) \/ handleAuthChallenge(c) \/ SendAuthResponse(c) \/ CannotSign(c)
             \/ AuthSent(c) \/ handleAuthOk(c) \/ handleAuthFail(c)
             \/ handleIncomingChat(c) \/ handleError(c)
Serve == \/ ServerHello \/ ServerAccepts \/ ServerRefuses
         \/ \E type \in NeedsAccount : ServerRequest(type)

Next == \/ LinkUp \/ LinkDown \/ Emit \/ Serve \/ ServerRelays
        \/ sendChat \/ sendFile
        \/ \E type \in Request : SendRequest(type)
        \/ \E c \in Starts : start(c) \/ Watch(c) \/ Handle(c)

Spec == Init /\ [][Next]_vars

\* Coroutines run, frames travel, the server answers; nobody has to call
\* start(), to write a message, or to lose a connection.
Fairness == /\ WF_vars(LinkUp) /\ WF_vars(Emit) /\ WF_vars(Serve)
            /\ WF_vars(\E type \in Request : SendRequest(type))
            /\ \A c \in Starts : WF_vars(Watch(c)) /\ WF_vars(Handle(c))
FairSpec == Spec /\ Fairness
-----------------------------------------------------------------------------
\* The types of the variables; no collector has more frames than its buffer takes.
TypeOK ==
  /\ link \in {"down", "up"}
  /\ authState \in AuthState
  /\ watcher \in [Starts -> {"off", "collect", "hello", "helloSent"}]
  /\ lastSeen \in [Starts -> {"none", "down", "up"}]
  /\ handler \in [Starts -> {"off", "launched", "collect", "challenged", "responded"}]
  /\ inbox \in [Starts -> Seq(ToClient)]
  /\ \A c \in Starts : Len(inbox[c]) <= Buffer
  /\ jobs \in [Request -> Nat]
  /\ server \in ServerState
  /\ sent \in Seq(ToServer)
  /\ reply \in Seq(ToClient)
  /\ relayed \in 0..MaxChats
  /\ rows \in Nat
  /\ refused \subseteq NeedsAccount
  /\ missed \in BOOLEAN
  /\ drops \in 0..MaxDrops
  /\ canSign \in BOOLEAN

\* On the first connection no key, message or command reaches the server before
\* it has authenticated this client, whichever of the coroutines of several
\* start() calls said HELLO, signed, or uploaded the keys. The frames of file
\* transfers are the exception: nothing holds them back until the login.
FirstLoginInOrder == drops = 0 => refused \subseteq {"FILE"}

\* Each collector of frames stores a message once at most, whenever the others
\* were started and whatever the connection did: a message that is there twice
\* was stored by two collectors, that is after two calls of start().
OncePerCollector ==
  rows <= relayed * Cardinality({c \in Starts : handler[c] # "off"})

\* Nothing is in flight and no coroutine has anything left to do.
AtRest == /\ sent = <<>> /\ reply = <<>>
          /\ \A c \in Starts : /\ watcher[c] \in {"off", "collect"}
                               /\ watcher[c] = "collect" => lastSeen[c] = link
                               /\ handler[c] \in {"off", "collect"}
                               /\ inbox[c] = <<>>

\* However the coroutines of several start() calls share the work, the first
\* connection of a client that can sign comes to no rest before it is logged
\* in, or refused, or lost. One thing stops it for good: a frame of the login
\* that comes before the first collector has subscribed, or when its buffer is
\* full of errors, is not sent again.
FirstLogin ==
  (AtRest /\ link = "up" /\ drops = 0 /\ canSign /\ ~missed) => server \in {"established", "dead"}

\* The lifecycle the class comment gives, "connect -> HELLO -> AUTH_CHALLENGE
\* -> ...": every connection gets its HELLO.
HelloOnEveryConnection == (link = "up") ~> (server # "hello")
==============================================================================
