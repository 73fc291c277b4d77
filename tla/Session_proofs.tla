--------------------------- MODULE Session_proofs ---------------------------
(***************************************************************************)
(* On the first connection no key, message or command reaches the server   *)
(* before it has authenticated the client: for any number of calls of      *)
(* start(), any buffer, and any number of messages. A first login whose    *)
(* frames were heard is not left without an answer, and a message is       *)
(* stored once per collector.                                              *)
(*                                                                         *)
(* The argument: whatever lets the client send such a frame (AUTH_OK on    *)
(* its way or in a buffer, AUTHENTICATED, a coroutine that is about to     *)
(* send) goes back to an AUTH_OK, after which the server stays             *)
(* "established" for as long as the connection lasts. On that connection   *)
(* every step of the login hands the next one to somebody: a frame on its  *)
(* way, a job, or a collector that has it in its buffer (LoginInv). What   *)
(* collectors have stored and have in their buffers of one message is at   *)
(* most one for each of them (Counted).                                    *)
(***************************************************************************)
EXTENDS Session, SequenceTheorems, FiniteSetTheorems, TLAPS

Carries(frames, type) == \E i \in 1 .. Len(frames) : frames[i] = type

\* What the client has that lets it send a request, and the requests under way.
AuthOkComes == \/ Carries(reply, "AUTH_OK")
               \/ \E c \in Starts : Carries(inbox[c], "AUTH_OK")
RequestComes == \E r \in Request : jobs[r] > 0 \/ Carries(sent, r)

Cause == AuthOkComes \/ authState = "AUTHENTICATED" \/ RequestComes

\* On the first connection all of it is the server's doing.
LoggedIn == drops = 0 =>
  /\ Cause => server = "established"
  /\ refused \subseteq {"FILE"}
  /\ link = "down" => server = "none"

IInv == TypeOK /\ LoggedIn
-----------------------------------------------------------------------------
(* Frames in order                                                          *)

\* A frame more carries what the others do, and itself.
LEMMA CarriesAppend ==
  ASSUME NEW S, NEW s \in Seq(S), NEW e \in S, NEW x
  PROVE  Append(s, e) \in Seq(S) /\ (Carries(Append(s, e), x) => Carries(s, x) \/ e = x)
<1>1. Append(s, e) \in Seq(S) /\ Len(Append(s, e)) = Len(s) + 1
  BY AppendProperties
<1>2. \A i \in 1 .. Len(s) : Append(s, e)[i] = s[i]
  BY AppendProperties
<1>3. Append(s, e)[Len(s) + 1] = e
  BY AppendProperties
<1>4. Len(s) \in Nat
  BY LenProperties
<1>5. ASSUME NEW i \in 1 .. Len(Append(s, e)), Append(s, e)[i] = x
      PROVE  Carries(s, x) \/ e = x
  <2>1. i \in 1 .. Len(s) \/ i = Len(s) + 1
    BY <1>1, <1>4
  <2> QED BY <2>1, <1>2, <1>3, <1>5 DEF Carries
<1> QED BY <1>1, <1>5 DEF Carries

\* The rest carries what the whole does, and the first frame is one of the whole.
LEMMA CarriesTail ==
  ASSUME NEW S, NEW s \in Seq(S), s # << >>, NEW x
  PROVE  /\ Tail(s) \in Seq(S) /\ Head(s) \in S
         /\ Len(Tail(s)) = Len(s) - 1
         /\ Carries(Tail(s), x) => Carries(s, x)
         /\ Head(s) = x => Carries(s, x)
<1>1. /\ Head(s) \in S /\ Tail(s) \in Seq(S) /\ Len(Tail(s)) = Len(s) - 1
      /\ \A i \in 1 .. Len(Tail(s)) : Tail(s)[i] = s[i + 1]
  BY HeadTailProperties
<1>2. Len(s) \in Nat /\ Len(s) > 0 /\ Head(s) = s[1]
  BY EmptySeq, LenProperties
<1>3. Head(s) = x => Carries(s, x)
  BY <1>2 DEF Carries
<1>4. ASSUME NEW i \in 1 .. Len(Tail(s)), Tail(s)[i] = x PROVE Carries(s, x)
  <2>1. i + 1 \in 1 .. Len(s) /\ s[i + 1] = x
    BY <1>1, <1>2, <1>4
  <2> QED BY <2>1 DEF Carries
<1> QED BY <1>1, <1>3, <1>4 DEF Carries

\* No frame, nothing carried.
LEMMA CarriesEmpty == \A x : ~Carries(<< >>, x)
BY DEF Carries
-----------------------------------------------------------------------------
(* Types                                                                    *)

LEMMA InitIInv == Init => IInv
<1> SUFFICES ASSUME Init PROVE IInv
  OBVIOUS
<1>1. TypeOK
  <2>1. << >> \in Seq(ToServer) /\ << >> \in Seq(ToClient) /\ Len(<< >>) = 0
    BY EmptySeq
  <2>2. refused \subseteq NeedsAccount /\ missed \in BOOLEAN
    BY DEF Init
  <2> QED BY BufferAssumption, BoundsAssumption, <2>1, <2>2
          DEF Init, TypeOK, AuthState, ServerState
<1>2. ~Cause
  BY CarriesEmpty DEF Init, Cause, AuthOkComes, RequestComes, Request
<1>3. LoggedIn
  BY <1>2 DEF Init, LoggedIn
<1> QED BY <1>1, <1>3 DEF IInv

\* What leaves is a frame of the client, if the link is up.
LEMMA SendType ==
  ASSUME TypeOK, NEW type \in ToServer, sendEnvelope(type)
  PROVE  /\ sent' \in Seq(ToServer)
         /\ \A r \in Request : Carries(sent', r) => Carries(sent, r) \/ type = r
<1>1. sent \in Seq(ToServer)
  BY DEF TypeOK
<1>2. CASE link = "up"
  BY <1>1, <1>2, CarriesAppend DEF sendEnvelope
<1>3. CASE link # "up"
  BY <1>1, <1>3 DEF sendEnvelope
<1> QED BY <1>2, <1>3

\* An answer is a frame of the server.
LEMMA AnswerType ==
  ASSUME TypeOK, NEW type \in ToClient, Answer(type)
  PROVE  /\ reply' \in Seq(ToClient)
         /\ \A x : Carries(reply', x) => Carries(reply, x) \/ type = x
BY CarriesAppend DEF TypeOK, Answer

\* The server takes what was sent.
LEMMA TakeType ==
  ASSUME TypeOK, NEW type, ServerTakes(type)
  PROVE  /\ sent' \in Seq(ToServer) /\ Carries(sent, type)
         /\ \A r \in Request : Carries(sent', r) => Carries(sent, r)
BY CarriesTail DEF TypeOK, ServerTakes

\* A collector takes what was emitted.
LEMMA CollectType ==
  ASSUME TypeOK, NEW c \in Starts, NEW type, Collects(c, type)
  PROVE  /\ inbox' \in [Starts -> Seq(ToClient)]
         /\ \A d \in Starts : Len(inbox'[d]) <= Buffer
         /\ Carries(inbox[c], type)
         /\ \A d \in Starts, x \in ToClient : Carries(inbox'[d], x) => Carries(inbox[d], x)
<1> DEFINE rest == Tail(inbox[c])
<1>1. /\ inbox \in [Starts -> Seq(ToClient)] /\ inbox[c] \in Seq(ToClient) /\ inbox[c] # << >>
      /\ inbox' = [inbox EXCEPT ![c] = rest] /\ Head(inbox[c]) = type
      /\ \A d \in Starts : Len(inbox[d]) <= Buffer
  BY DEF TypeOK, Collects
<1>2. /\ rest \in Seq(ToClient) /\ Len(rest) = Len(inbox[c]) - 1
      /\ \A x \in ToClient : Carries(rest, x) => Carries(inbox[c], x)
      /\ Carries(inbox[c], type)
  BY <1>1, CarriesTail
<1>3. \A d \in Starts : inbox'[d] = IF d = c THEN rest ELSE inbox[d]
  BY <1>1
<1>4. Len(inbox[c]) \in Nat /\ Len(rest) <= Buffer
  BY <1>1, <1>2, LenProperties, BufferAssumption
<1> HIDE DEF rest
<1> QED BY <1>1, <1>2, <1>3, <1>4

\* A frame that is emitted was a reply.
LEMMA EmitType ==
  ASSUME TypeOK, Emit
  PROVE  /\ inbox' \in [Starts -> Seq(ToClient)] /\ reply' \in Seq(ToClient)
         /\ \A d \in Starts : Len(inbox'[d]) <= Buffer
         /\ \A x : Carries(reply', x) => Carries(reply, x)
         /\ \A d \in Starts, x \in ToClient :
              Carries(inbox'[d], x) => Carries(inbox[d], x) \/ Carries(reply, x)
<1>1. /\ reply \in Seq(ToClient) /\ reply # << >> /\ reply' = Tail(reply)
      /\ inbox \in [Starts -> Seq(ToClient)] /\ \A d \in Starts : Len(inbox[d]) <= Buffer
  BY DEF TypeOK, Emit
<1>2. /\ Head(reply) \in ToClient /\ reply' \in Seq(ToClient)
      /\ \A x : Carries(reply', x) => Carries(reply, x)
      /\ \A x : Head(reply) = x => Carries(reply, x)
  BY <1>1, CarriesTail
<1>3. CASE inbox' = inbox
  BY <1>3, <1>1, <1>2
<1>4. CASE inbox' = Emitted /\ \A c \in Subscribers : Len(inbox[c]) < Buffer
  <2>2. ASSUME NEW d \in Starts
        PROVE  /\ inbox'[d] \in Seq(ToClient) /\ Len(inbox'[d]) <= Buffer
               /\ \A x \in ToClient : Carries(inbox'[d], x) => Carries(inbox[d], x) \/ Carries(reply, x)
    <3>1. CASE d \in Subscribers
      <4>1. inbox'[d] = Append(inbox[d], Head(reply)) /\ inbox[d] \in Seq(ToClient)
        BY <3>1, <1>1, <1>4 DEF Emitted
      <4>2. Len(inbox[d]) \in Nat /\ Len(inbox[d]) < Buffer
        BY <4>1, <3>1, <1>4, LenProperties
      <4>3. Len(inbox'[d]) = Len(inbox[d]) + 1
        BY <4>1, <1>2, AppendProperties
      <4>4. Len(inbox'[d]) <= Buffer
        BY <4>2, <4>3, BufferAssumption
      <4> QED BY <4>1, <4>4, <1>2, CarriesAppend
    <3>2. CASE d \notin Subscribers
      <4>1. inbox'[d] = inbox[d]
        BY <3>2, <1>4 DEF Emitted
      <4> QED BY <4>1, <1>1
    <3> QED BY <3>1, <3>2
  <2>3. inbox' \in [Starts -> Seq(ToClient)]
    BY <2>2, <1>4 DEF Emitted
  <2> QED BY <2>2, <2>3, <1>2
<1> QED BY <1>3, <1>4 DEF Emit
-----------------------------------------------------------------------------
(* Steps                                                                    *)

\* Every step keeps the types.
LEMMA NextTypeOK == TypeOK /\ [Next]_vars => TypeOK'
<1> SUFFICES ASSUME TypeOK, [Next]_vars PROVE TypeOK'
  OBVIOUS
<1> USE BufferAssumption, BoundsAssumption
<1> USE DEF linkVars, clientVars
<1>a. /\ "HELLO" \in ToServer /\ "AUTH_RESPONSE" \in ToServer
      /\ Request \subseteq ToServer /\ "FILE" \in ToServer
      /\ {"AUTH_CHALLENGE", "AUTH_OK", "AUTH_FAIL", "CHAT", "ERROR"} \subseteq ToClient
  BY DEF ToServer, NeedsAccount, ToClient, LoginFrame
<1>b. << >> \in Seq(ToServer) /\ << >> \in Seq(ToClient)
  BY EmptySeq
<1>1. CASE LinkUp
  BY <1>1 DEF LinkUp, TypeOK, ServerState
<1>2. CASE LinkDown
  BY <1>2, <1>b DEF LinkDown, TypeOK, ServerState
<1>3. CASE Emit
  <2>1. missed' \in BOOLEAN
    BY <1>3, Zenon DEF Emit, TypeOK
  <2> QED BY <1>3, <2>1, EmitType DEF Emit, TypeOK
<1>4. CASE ServerHello
  BY <1>4, <1>a, TakeType, AnswerType DEF ServerHello, TypeOK, ServerState
<1>5. CASE ServerAccepts
  BY <1>5, <1>a, TakeType, AnswerType DEF ServerAccepts, TypeOK, ServerState
<1>6. CASE ServerRefuses
  BY <1>6, <1>a, TakeType, AnswerType DEF ServerRefuses, TypeOK, ServerState
<1>7. ASSUME NEW type \in NeedsAccount, ServerRequest(type) PROVE TypeOK'
  BY <1>7, <1>a, TakeType, AnswerType DEF ServerRequest, TypeOK
<1>8. CASE ServerRelays
  BY <1>8, <1>a, AnswerType DEF ServerRelays, TypeOK
<1>9. CASE sendChat \/ sendFile
  BY <1>9, <1>a, SendType DEF sendChat, sendFile, TypeOK, Request
<1>10. ASSUME NEW type \in Request, SendRequest(type) PROVE TypeOK'
  <2>1. sent' \in Seq(ToServer)
    BY <1>10, <1>a, SendType DEF SendRequest
  <2>2. jobs' \in [Request -> Nat]
    BY <1>10 DEF SendRequest, TypeOK
  <2> QED BY <1>10, <2>1, <2>2 DEF SendRequest, TypeOK
<1>11. ASSUME NEW c \in Starts, start(c) PROVE TypeOK'
  BY <1>11 DEF start, TypeOK
<1>12. ASSUME NEW c \in Starts, Watch(c) PROVE TypeOK'
  <2>1. CASE SeeState(c)
    BY <2>1 DEF SeeState, TypeOK
  <2>2. CASE SendHello(c)
    BY <2>2, <1>a, SendType DEF SendHello, TypeOK
  <2>3. CASE HelloSent(c)
    BY <2>3 DEF HelloSent, TypeOK, AuthState
  <2> QED BY <1>12, <2>1, <2>2, <2>3 DEF Watch
<1>13. ASSUME NEW c \in Starts, Handle(c) PROVE TypeOK'
  <2>1. CASE handleAuthChallenge(c)
    BY <2>1, CollectType DEF handleAuthChallenge, TypeOK, AuthState
  <2>2. CASE SendAuthResponse(c)
    BY <2>2, <1>a, SendType DEF SendAuthResponse, TypeOK
  <2>3. CASE CannotSign(c)
    BY <2>3 DEF CannotSign, TypeOK
  <2>4. CASE AuthSent(c)
    BY <2>4 DEF AuthSent, TypeOK, AuthState
  <2>5. CASE handleAuthOk(c)
    <3>1. jobs' \in [Request -> Nat]
      BY <2>5 DEF handleAuthOk, TypeOK, Request
    <3> QED BY <2>5, <3>1, CollectType DEF handleAuthOk, TypeOK, AuthState
  <2>6. CASE handleAuthFail(c)
    BY <2>6, CollectType DEF handleAuthFail, TypeOK, AuthState
  <2>7. CASE handleIncomingChat(c) \/ handleError(c)
    BY <2>7, CollectType DEF handleIncomingChat, handleError, TypeOK
  <2>8. CASE Subscribe(c)
    BY <2>8 DEF Subscribe, TypeOK
  <2> QED BY <1>13, <2>1, <2>2, <2>3, <2>4, <2>5, <2>6, <2>7, <2>8 DEF Handle
<1>14. CASE UNCHANGED vars
  BY <1>14 DEF vars, TypeOK
<1> QED BY <1>1, <1>2, <1>3, <1>4, <1>5, <1>6, <1>7, <1>8, <1>9, <1>10, <1>11,
           <1>12, <1>13, <1>14 DEF Next, Serve

\* A step that gives the client no new cause to send, and keeps the server where
\* it is once it is "established".
LEMMA Quiet ==
  ASSUME LoggedIn, drops' = drops, refused' = refused, Cause' => Cause,
         server = "established" => server' = "established" \/ ~Cause',
         link' = "down" => link = "down" /\ server' = server
  PROVE  LoggedIn'
BY DEF LoggedIn

\* Every step keeps what is said of the first connection.
LEMMA NextLoggedIn == IInv /\ [Next]_vars => LoggedIn'
<1> SUFFICES ASSUME TypeOK, LoggedIn, [Next]_vars PROVE LoggedIn'
  BY DEF IInv
<1> USE DEF linkVars, clientVars, Cause, AuthOkComes, RequestComes
<1>a. {"HELLO", "AUTH_RESPONSE", "FILE"} \subseteq ToServer /\ Request \subseteq ToServer
  BY DEF ToServer, NeedsAccount
<1>b. {"AUTH_CHALLENGE", "AUTH_OK", "AUTH_FAIL", "CHAT", "ERROR"} \subseteq ToClient
  BY DEF ToClient, LoginFrame
<1>c. "HELLO" \notin Request /\ "AUTH_RESPONSE" \notin Request /\ "FILE" \notin Request
  BY DEF Request
<1>1. CASE LinkUp
  <2>1. Cause' => Cause
    BY <1>1 DEF LinkUp
  <2>2. drops = 0 => ~Cause
    BY <1>1 DEF LinkUp, LoggedIn
  <2> HIDE DEF Cause
  <2> QED BY <1>1, <2>1, <2>2 DEF LinkUp, LoggedIn
<1>2. CASE LinkDown
  <2>1. drops' # 0
    BY <1>2, BoundsAssumption DEF LinkDown, TypeOK
  <2> QED BY <2>1 DEF LoggedIn
<1>3. CASE Emit
  <2>1. Cause' => Cause
    BY <1>3, <1>b, EmitType DEF Emit
  <2> QED BY <1>3, <2>1, Quiet DEF Emit
<1>4. CASE ServerHello
  <2>1. ServerTakes("HELLO")
    BY <1>4 DEF ServerHello
  <2>2. Carries(reply', "AUTH_OK") => Carries(reply, "AUTH_OK")
    BY <1>4, <1>b, AnswerType DEF ServerHello
  <2>3. Cause' => Cause
    BY <1>4, <2>1, <2>2, TakeType DEF ServerHello
  <2>4. server = "established" => server' = "established"
    BY <1>4 DEF ServerHello
  <2> HIDE DEF Cause
  <2>5. CASE server = "hello"
    BY <1>4, <2>3, <2>5 DEF ServerHello, LoggedIn
  <2>6. CASE server # "hello"
    BY <1>4, <2>3, <2>6 DEF ServerHello, LoggedIn
  <2> QED BY <2>5, <2>6
<1>5. CASE ServerAccepts
  <2>1. CASE server = "auth_pending"
    BY <1>5, <2>1 DEF ServerAccepts, LoggedIn
  <2>2. CASE server # "auth_pending"
    <3>1. Cause' => Cause
      BY <1>5, <2>2, TakeType DEF ServerAccepts
    <3> QED BY <1>5, <2>2, <3>1, Quiet DEF ServerAccepts
  <2> QED BY <2>1, <2>2
<1>6. CASE ServerRefuses
  <2>1. Carries(reply', "AUTH_OK") => Carries(reply, "AUTH_OK")
    BY <1>6, <1>b, AnswerType DEF ServerRefuses
  <2>2. Cause' => Cause
    BY <1>6, <2>1, TakeType DEF ServerRefuses
  <2> QED BY <1>6, <2>2 DEF ServerRefuses, LoggedIn
<1>7. ASSUME NEW type \in NeedsAccount, ServerRequest(type) PROVE LoggedIn'
  <2>1. /\ Carries(sent, type) /\ \A r \in Request : Carries(sent', r) => Carries(sent, r)
        /\ UNCHANGED <<link, server, drops, authState, inbox, jobs>>
    BY <1>7, TakeType DEF ServerRequest
  <2>2. Carries(reply', "AUTH_OK") => Carries(reply, "AUTH_OK")
    BY <1>7, <1>b, AnswerType DEF ServerRequest
  <2>3. Cause' => Cause
    BY <2>1, <2>2
  <2>4. drops = 0 => server = "established" \/ type = "FILE"
    BY <2>1 DEF LoggedIn, NeedsAccount
  <2>5. refused' = IF server = "established" THEN refused ELSE refused \cup {type}
    BY <1>7 DEF ServerRequest
  <2> HIDE DEF Cause
  <2> QED BY <2>1, <2>3, <2>4, <2>5 DEF LoggedIn
<1>8. CASE ServerRelays
  <2>1. Carries(reply', "AUTH_OK") => Carries(reply, "AUTH_OK")
    BY <1>8, <1>b, AnswerType DEF ServerRelays
  <2>2. Cause' => Cause
    BY <1>8, <2>1 DEF ServerRelays
  <2> QED BY <1>8, <2>2, Quiet DEF ServerRelays
<1>9. CASE sendChat \/ sendFile
  <2>1. CASE sendChat BY <2>1, Quiet DEF sendChat
  <2>2. CASE sendFile
    <3>1. Cause' => Cause
      BY <2>2, <1>a, <1>c, SendType DEF sendFile
    <3> QED BY <2>2, <3>1, Quiet DEF sendFile
  <2> QED BY <1>9, <2>1, <2>2
<1>10. ASSUME NEW type \in Request, SendRequest(type) PROVE LoggedIn'
  BY <1>10, Quiet DEF SendRequest
<1>11. ASSUME NEW c \in Starts, start(c) PROVE LoggedIn'
  BY <1>11, Quiet DEF start
<1>12. ASSUME NEW c \in Starts, Watch(c) PROVE LoggedIn'
  <2>1. CASE SeeState(c)
    BY <2>1, Quiet DEF SeeState
  <2>2. CASE SendHello(c)
    <3>1. Cause' => Cause
      BY <2>2, <1>a, <1>c, SendType DEF SendHello
    <3> QED BY <2>2, <3>1, Quiet DEF SendHello
  <2>3. CASE HelloSent(c)
    BY <2>3, Quiet DEF HelloSent
  <2> QED BY <1>12, <2>1, <2>2, <2>3 DEF Watch
<1>13. ASSUME NEW c \in Starts, Handle(c) PROVE LoggedIn'
  <2> USE <1>b
  <2>1. CASE handleAuthChallenge(c)
    BY <2>1, CollectType, Quiet DEF handleAuthChallenge
  <2>2. CASE SendAuthResponse(c)
    <3>1. Cause' => Cause
      BY <2>2, <1>a, <1>c, SendType DEF SendAuthResponse
    <3> QED BY <2>2, <3>1, Quiet DEF SendAuthResponse
  <2>3. CASE CannotSign(c)
    BY <2>3, Quiet DEF CannotSign
  <2>4. CASE AuthSent(c)
    BY <2>4, Quiet DEF AuthSent
  <2>5. CASE handleAuthOk(c)
    <3>1. Cause
      BY <2>5, CollectType DEF handleAuthOk
    <3> HIDE DEF Cause
    <3> QED BY <2>5, <3>1, Quiet DEF handleAuthOk
  <2>6. CASE handleAuthFail(c)
    BY <2>6, CollectType, Quiet DEF handleAuthFail
  <2>7. CASE handleIncomingChat(c)
    BY <2>7, CollectType, Quiet DEF handleIncomingChat
  <2>8. CASE handleError(c)
    BY <2>8, CollectType, Quiet DEF handleError
  <2>9. CASE Subscribe(c)
    BY <2>9, Quiet DEF Subscribe
  <2> QED BY <1>13, <2>1, <2>2, <2>3, <2>4, <2>5, <2>6, <2>7, <2>8, <2>9 DEF Handle
<1>14. CASE UNCHANGED vars
  BY <1>14, Quiet DEF vars
<1> QED BY <1>1, <1>2, <1>3, <1>4, <1>5, <1>6, <1>7, <1>8, <1>9, <1>10, <1>11,
           <1>12, <1>13, <1>14 DEF Next, Serve
-----------------------------------------------------------------------------
(* The first connection comes to no rest before the login is through        *)

\* A call of start() launches both coroutines.
Paired == \A c \in Starts : watcher[c] = "off" <=> handler[c] = "off"

\* A connection is one that a caller of start() has asked for.
Connected == link = "up" => server # "none" /\ \E c \in Starts : watcher[c] # "off"

\* Until the server has had a HELLO it says nothing of the login, and the client,
\* which has nothing to answer, sees no connection that there is not.
Silent == server \in {"none", "hello"} =>
            /\ \A x \in LoginFrame : /\ ~Carries(reply, x)
                                     /\ \A c \in Starts : ~Carries(inbox[c], x)
            /\ \A c \in Starts : handler[c] \notin {"challenged", "responded"}
Unconnected == server = "none" =>
                 /\ authState = "NONE"
                 /\ \A c \in Starts : watcher[c] \in {"off", "collect"} /\ lastSeen[c] # "up"

\* A HELLO is on its way, or a watcher is going to send one; once a watcher has,
\* the others may rely on it.
Said == authState # "NONE" \/ \E c \in Starts : watcher[c] = "helloSent"
Sees(c) == watcher[c] = "collect" /\ lastSeen[c] # "up"
HelloComes == \/ Carries(sent, "HELLO")
              \/ ~Said /\ \E c \in Starts : watcher[c] = "hello" \/ Sees(c)
Greeted == server = "hello" => HelloComes

\* As long as no frame of the login was missed, the nonce is on its way to a
\* collector, or whoever has it answers, or has.
AnswerComes == server = "auth_pending" /\ canSign /\ ~missed =>
  \/ Carries(reply, "AUTH_CHALLENGE")
  \/ \E c \in Starts : Carries(inbox[c], "AUTH_CHALLENGE") \/ handler[c] = "challenged"
  \/ Carries(sent, "AUTH_RESPONSE")

Unfinished == drops = 0 => Silent /\ Unconnected /\ Greeted /\ AnswerComes

LoginInv == Paired /\ Connected /\ Unfinished

\* A frame more carries what was carried, and the new frame.
LEMMA CarriesMore ==
  ASSUME NEW S, NEW s \in Seq(S), NEW e \in S
  PROVE  Carries(Append(s, e), e) /\ \A x : Carries(s, x) => Carries(Append(s, e), x)
<1>1. Append(s, e) \in Seq(S) /\ Len(Append(s, e)) = Len(s) + 1 /\ Append(s, e)[Len(s) + 1] = e
  BY AppendProperties
<1>2. \A i \in 1 .. Len(s) : Append(s, e)[i] = s[i]
  BY AppendProperties
<1>3. Len(s) \in Nat
  BY LenProperties
<1>4. 1 .. Len(s) \subseteq 1 .. Len(Append(s, e)) /\ Len(s) + 1 \in 1 .. Len(Append(s, e))
  BY <1>1, <1>3
<1> QED BY <1>1, <1>2, <1>4 DEF Carries

\* What is carried behind the first frame is left when that is taken.
LEMMA CarriesRest ==
  ASSUME NEW S, NEW s \in Seq(S), s # << >>, NEW x, Carries(s, x), Head(s) # x
  PROVE  Carries(Tail(s), x)
<1>1. /\ Tail(s) \in Seq(S) /\ Len(Tail(s)) = Len(s) - 1
      /\ \A i \in 1 .. Len(Tail(s)) : Tail(s)[i] = s[i + 1]
  BY HeadTailProperties
<1>2. Len(s) \in Nat /\ Len(s) > 0 /\ Head(s) = s[1]
  BY EmptySeq, LenProperties
<1>3. PICK i \in 1 .. Len(s) : s[i] = x
  BY DEF Carries
<1>4. i # 1
  BY <1>2, <1>3
<1>5. i - 1 \in 1 .. Len(Tail(s)) /\ (i - 1) + 1 = i
  BY <1>1, <1>2, <1>4
<1>6. Tail(s)[i - 1] = x
  BY <1>1, <1>3, <1>5
<1> QED BY <1>5, <1>6 DEF Carries

LEMMA InitLoginInv == Init => LoginInv
BY CarriesEmpty DEF Init, LoginInv, Paired, Connected, Unfinished, Silent, Unconnected, Greeted,
                    AnswerComes

\* What a step does to Greeted once a HELLO is on its way, or does nothing of
\* what Greeted is about.
LEMMA GreetedKept ==
  ASSUME Greeted, server' = server, lastSeen' = lastSeen, authState' = authState, watcher' = watcher,
         Carries(sent, "HELLO") => Carries(sent', "HELLO")
  PROVE  Greeted'
BY DEF Greeted, HelloComes, Said, Sees

LEMMA NextPaired == ASSUME TypeOK, Paired, [Next]_vars PROVE Paired'
<1> USE DEF Paired, TypeOK
<1>2. ASSUME NEW c \in Starts, start(c) PROVE Paired'
  BY <1>2 DEF start, linkVars
<1>3. ASSUME NEW c \in Starts, Watch(c) PROVE Paired'
  BY <1>3 DEF Watch, SeeState, SendHello, HelloSent, linkVars
<1>4. ASSUME NEW c \in Starts, Handle(c) PROVE Paired'
  BY <1>4 DEF Handle, handleAuthChallenge, SendAuthResponse, CannotSign, AuthSent, handleAuthOk,
              handleAuthFail, handleIncomingChat, handleError, Subscribe, Collects, linkVars
<1>5. CASE UNCHANGED <<watcher, handler>>
  BY <1>5
<1> QED BY <1>2, <1>3, <1>4, <1>5
        DEF Next, Serve, LinkUp, LinkDown, Emit, ServerHello, ServerAccepts, ServerRefuses, ServerRequest,
            ServerRelays, sendChat, sendFile, SendRequest, vars, linkVars, clientVars

LEMMA NextConnected == ASSUME TypeOK, Connected, [Next]_vars PROVE Connected'
<1> USE DEF Connected, TypeOK
<1>1. CASE LinkUp
  BY <1>1 DEF LinkUp, clientVars
<1>2. CASE LinkDown
  BY <1>2 DEF LinkDown
<1>3. CASE Serve
  BY <1>3 DEF Serve, ServerHello, ServerAccepts, ServerRefuses, ServerRequest, clientVars
<1>4. ASSUME NEW c \in Starts, start(c) PROVE Connected'
  BY <1>4 DEF start, linkVars
<1>5. ASSUME NEW c \in Starts, Watch(c) PROVE Connected'
  BY <1>5 DEF Watch, SeeState, SendHello, HelloSent, linkVars
<1>6. ASSUME NEW c \in Starts, Handle(c) PROVE Connected'
  BY <1>6 DEF Handle, handleAuthChallenge, SendAuthResponse, CannotSign, AuthSent, handleAuthOk,
              handleAuthFail, handleIncomingChat, handleError, Subscribe, linkVars
<1>7. CASE UNCHANGED <<watcher, link, server>>
  BY <1>7
<1> QED BY <1>1, <1>2, <1>3, <1>4, <1>5, <1>6, <1>7
        DEF Next, Emit, ServerRelays, sendChat, sendFile, SendRequest, vars, linkVars, clientVars

\* A frame that the server takes for nothing leaves the others.
LEMMA TakeRest ==
  ASSUME TypeOK, NEW type, ServerTakes(type), NEW x, x # type, Carries(sent, x)
  PROVE  Carries(sent', x)
BY CarriesRest DEF TypeOK, ServerTakes

\* What was sent stays sent, and the frame is with it if the link is up.
LEMMA SendMore ==
  ASSUME TypeOK, NEW type \in ToServer, sendEnvelope(type)
  PROVE  /\ link = "up" => Carries(sent', type)
         /\ \A x : Carries(sent, x) => Carries(sent', x)
<1>1. CASE link = "up"
  BY <1>1, CarriesMore DEF TypeOK, sendEnvelope
<1>2. CASE link # "up"
  BY <1>2 DEF sendEnvelope
<1> QED BY <1>1, <1>2

\* What a collector has not taken it still has.
LEMMA CollectRest ==
  ASSUME TypeOK, NEW c \in Starts, NEW type, Collects(c, type), NEW x, x # type,
         NEW d \in Starts, Carries(inbox[d], x)
  PROVE  Carries(inbox'[d], x)
<1>1. /\ inbox \in [Starts -> Seq(ToClient)] /\ inbox[c] # << >> /\ Head(inbox[c]) = type
      /\ inbox' = [inbox EXCEPT ![c] = Tail(inbox[c])]
  BY DEF TypeOK, Collects
<1>2. CASE d = c
  <2>1. Carries(Tail(inbox[c]), x)
    BY <1>1, <1>2, CarriesRest
  <2> QED BY <1>1, <1>2, <2>1
<1>3. CASE d # c
  BY <1>1, <1>3
<1> QED BY <1>2, <1>3

\* A challenge that is emitted is in a buffer, or missed; one that waits stays.
LEMMA EmitChallenge ==
  ASSUME TypeOK, Emit, ~missed'
  PROVE  /\ ~missed
         /\ Carries(reply, "AUTH_CHALLENGE") =>
              \/ Carries(reply', "AUTH_CHALLENGE")
              \/ \E c \in Starts : Carries(inbox'[c], "AUTH_CHALLENGE")
         /\ \A c \in Starts : Carries(inbox[c], "AUTH_CHALLENGE") => Carries(inbox'[c], "AUTH_CHALLENGE")
<1>1. /\ reply \in Seq(ToClient) /\ reply # << >> /\ reply' = Tail(reply)
      /\ inbox \in [Starts -> Seq(ToClient)] /\ Head(reply) \in ToClient
  BY CarriesTail DEF TypeOK, Emit
<1> DEFINE heard == /\ Subscribers # {}
                    /\ \A c \in Subscribers : Len(inbox[c]) < Buffer
<1>2. inbox' = IF heard THEN Emitted ELSE inbox
  BY DEF Emit
<1>3. ~missed /\ (heard \/ Head(reply) \notin LoginFrame)
  <2>1. missed' = (missed \/ (~heard /\ Head(reply) \in LoginFrame))
    BY DEF Emit
  <2> QED BY <2>1, Zenon
<1> HIDE DEF heard
<1>4. ASSUME NEW c \in Starts, Carries(inbox[c], "AUTH_CHALLENGE")
      PROVE  Carries(inbox'[c], "AUTH_CHALLENGE")
  <2>1. inbox'[c] = inbox[c] \/ inbox'[c] = Append(inbox[c], Head(reply))
    BY <1>1, <1>2 DEF Emitted
  <2>2. inbox[c] \in Seq(ToClient)
    BY <1>1
  <2>3. Carries(Append(inbox[c], Head(reply)), "AUTH_CHALLENGE")
    BY <1>1, <1>4, <2>2, CarriesMore
  <2> QED BY <1>4, <2>1, <2>3
<1>5. ASSUME Carries(reply, "AUTH_CHALLENGE"), ~Carries(reply', "AUTH_CHALLENGE")
      PROVE  \E c \in Starts : Carries(inbox'[c], "AUTH_CHALLENGE")
  <2>1. Head(reply) = "AUTH_CHALLENGE"
    BY <1>1, <1>5, CarriesRest
  <2>2. heard
    BY <1>3, <2>1 DEF LoginFrame
  <2>3. PICK c \in Starts : c \in Subscribers
    BY <2>2 DEF heard, Subscribers
  <2>4. inbox'[c] = Append(inbox[c], Head(reply))
    BY <1>2, <2>2, <2>3 DEF Emitted
  <2>5. inbox[c] \in Seq(ToClient)
    BY <1>1, <2>3
  <2>6. Carries(Append(inbox[c], Head(reply)), Head(reply))
    BY <1>1, <2>5, CarriesMore
  <2> QED BY <2>1, <2>3, <2>4, <2>6
<1> QED BY <1>3, <1>4, <1>5

\* Of the first connection: what its end, its start, and the server do.
LEMMA LinkUnfinished ==
  ASSUME IInv, LoginInv, drops = 0, LinkUp \/ Emit \/ Serve \/ ServerRelays
  PROVE  Unfinished'
<1> USE DEF IInv, LoginInv, Unfinished
<1>a. /\ link \in {"up", "down"} /\ server \in ServerState
      /\ link = "down" <=> server = "none"
  BY DEF TypeOK, LoggedIn, Connected
<1>b. LoginFrame \subseteq ToClient /\ "CHAT" \notin LoginFrame /\ "ERROR" \in ToClient \ LoginFrame
      /\ "AUTH_CHALLENGE" \in LoginFrame
  BY DEF ToClient, LoginFrame
<1>1. CASE LinkUp
  <2>1. /\ server = "none" /\ server' = "hello" /\ reply' = reply /\ inbox' = inbox
        /\ handler' = handler /\ watcher' = watcher /\ lastSeen' = lastSeen
        /\ authState' = authState
    BY <1>1, <1>a DEF LinkUp, clientVars
  <2>2. PICK c \in Starts : watcher[c] # "off"
    BY <1>1 DEF LinkUp
  <2>3. ~Said' /\ Sees(c)'
    BY <2>1, <2>2 DEF Unconnected, Said, Sees
  <2> QED BY <2>1, <2>3 DEF Silent, Unconnected, Greeted, HelloComes, AnswerComes
<1>2. CASE Emit
  <2>1. UNCHANGED <<server, authState, watcher, lastSeen, handler, sent, canSign>>
    BY <1>2 DEF Emit
  <2>2. Silent'
    BY <1>2, <1>b, <2>1, EmitType DEF Silent
  <2>3. AnswerComes'
    BY <1>2, <2>1, EmitChallenge DEF AnswerComes
  <2> QED BY <2>1, <2>2, <2>3 DEF Unconnected, Greeted, HelloComes, Said, Sees
<1>3. CASE ServerHello
  <2>1. ServerTakes("HELLO") /\ UNCHANGED <<clientVars, missed, canSign>>
    BY <1>3 DEF ServerHello
  <2>2. CASE server = "hello"
    <3>1. server' = "auth_pending" /\ Answer("AUTH_CHALLENGE")
      BY <1>3, <2>2 DEF ServerHello
    <3>2. Carries(reply', "AUTH_CHALLENGE")
      BY <1>b, <3>1, CarriesMore DEF Answer, TypeOK
    <3> QED BY <3>1, <3>2 DEF Silent, Unconnected, Greeted, AnswerComes
  <2>3. CASE server # "hello"
    <3>1. UNCHANGED <<server, reply>>
      BY <1>3, <2>3 DEF ServerHello
    <3>2. Carries(sent, "AUTH_RESPONSE") => Carries(sent', "AUTH_RESPONSE")
      BY <2>1, TakeRest
    <3> QED BY <2>1, <2>3, <3>1, <3>2
            DEF Silent, Unconnected, Greeted, AnswerComes, clientVars
  <2> QED BY <2>2, <2>3
<1>4. CASE ServerAccepts
  <2>1. ServerTakes("AUTH_RESPONSE") /\ UNCHANGED <<clientVars, missed, canSign>>
    BY <1>4 DEF ServerAccepts
  <2>2. CASE server = "auth_pending"
    <3>1. server' = "established"
      BY <1>4, <2>2 DEF ServerAccepts
    <3> QED BY <3>1 DEF Silent, Unconnected, Greeted, AnswerComes
  <2>3. CASE server # "auth_pending"
    <3>1. UNCHANGED <<server, reply>>
      BY <1>4, <2>3 DEF ServerAccepts
    <3>2. Carries(sent, "HELLO") => Carries(sent', "HELLO")
      BY <2>1, TakeRest
    <3>3. Greeted'
      BY <2>1, <3>1, <3>2, GreetedKept DEF clientVars
    <3> QED BY <2>1, <2>3, <3>1, <3>3 DEF Silent, Unconnected, AnswerComes, clientVars
  <2> QED BY <2>2, <2>3
<1>5. CASE ServerRefuses
  <2>1. server' = "dead"
    BY <1>5 DEF ServerRefuses
  <2> QED BY <2>1 DEF Silent, Unconnected, Greeted, AnswerComes
<1>6. ASSUME NEW type \in NeedsAccount, ServerRequest(type) PROVE Unfinished'
  <2>1. /\ ServerTakes(type) /\ UNCHANGED <<server, clientVars, missed, canSign>>
        /\ reply' = reply \/ Answer("ERROR")
    BY <1>6 DEF ServerRequest
  <2>2. \A x \in {"HELLO", "AUTH_RESPONSE"} : Carries(sent, x) => Carries(sent', x)
    BY <2>1, TakeRest DEF Request, NeedsAccount
  <2>3. Greeted'
    BY <2>1, <2>2, GreetedKept DEF clientVars
  <2>4. \A x : Carries(reply, x) => Carries(reply', x)
    <3>1. CASE reply' = reply BY <3>1
    <3>2. CASE Answer("ERROR")
      <4>1. reply \in Seq(ToClient) /\ "ERROR" \in ToClient /\ reply' = Append(reply, "ERROR")
        BY <1>b, <3>2 DEF TypeOK, Answer
      <4> QED BY <4>1, CarriesMore
    <3> QED BY <2>1, <3>1, <3>2
  <2>5. \A x \in LoginFrame : Carries(reply', x) => Carries(reply, x)
    BY <1>b, <2>1, AnswerType
  <2>6. Silent'
    BY <2>1, <2>5 DEF Silent, clientVars
  <2>7. AnswerComes'
    BY <1>b, <2>1, <2>2, <2>4 DEF AnswerComes, clientVars
  <2> QED BY <2>1, <2>3, <2>6, <2>7 DEF Unconnected, clientVars
<1>7. CASE ServerRelays
  <2>1. server = "established" /\ server' = server
    BY <1>7 DEF ServerRelays
  <2> QED BY <2>1 DEF Silent, Unconnected, Greeted, AnswerComes
<1> QED BY <1>1, <1>2, <1>3, <1>4, <1>5, <1>6, <1>7 DEF Serve

\* What the coroutines that send requests and say HELLO do.
LEMMA WatchUnfinished ==
  ASSUME IInv, LoginInv, drops = 0, NEW c \in Starts, start(c) \/ Watch(c)
  PROVE  Unfinished'
<1> USE DEF IInv, LoginInv, Unfinished
<1>a. /\ link \in {"up", "down"} /\ server \in ServerState
      /\ link = "down" <=> server = "none"
      /\ watcher \in [Starts -> {"off", "collect", "hello", "helloSent"}]
      /\ lastSeen \in [Starts -> {"none", "down", "up"}]
      /\ handler \in [Starts -> {"off", "launched", "collect", "challenged", "responded"}]
  BY DEF TypeOK, LoggedIn, Connected
<1>b. "HELLO" \in ToServer
  BY DEF ToServer
<1>1. CASE start(c)
  <2>1. /\ watcher[c] = "off" /\ watcher' = [watcher EXCEPT ![c] = "collect"]
        /\ handler[c] = "off" /\ handler' = [handler EXCEPT ![c] = "launched"]
        /\ UNCHANGED <<server, sent, reply, authState, lastSeen, inbox, missed, canSign>>
    BY <1>1 DEF start, Paired, linkVars
  <2>2. Said' <=> Said
    BY <1>a, <2>1 DEF Said
  <2>3. \A d \in Starts : /\ watcher[d] = "hello" => watcher'[d] = "hello"
                          /\ Sees(d) => Sees(d)'
    BY <1>a, <2>1 DEF Sees
  <2>4. Greeted'
    BY <2>1, <2>2, <2>3 DEF Greeted, HelloComes
  <2>5. Silent' /\ Unconnected'
    BY <1>a, <2>1 DEF Silent, Unconnected
  <2>6. \A d \in Starts : handler[d] = "challenged" => handler'[d] = "challenged"
    BY <1>a, <2>1
  <2>7. AnswerComes'
    BY <2>1, <2>6 DEF AnswerComes
  <2> QED BY <2>4, <2>5, <2>7
<1>2. CASE SeeState(c)
  <2>1. /\ watcher[c] = "collect" /\ lastSeen[c] # link
        /\ lastSeen' = [lastSeen EXCEPT ![c] = link]
        /\ watcher' = IF link = "up" /\ authState = "NONE"
                      THEN [watcher EXCEPT ![c] = "hello"] ELSE watcher
        /\ UNCHANGED <<server, sent, reply, authState, handler, inbox, missed, canSign>>
    BY <1>2 DEF SeeState, linkVars
  <2>2. Silent' /\ AnswerComes'
    BY <2>1 DEF Silent, AnswerComes
  <2>3. Unconnected'
    BY <1>a, <2>1 DEF Unconnected
  <2>4. Greeted'
    <3>1. SUFFICES ASSUME server = "hello", ~Carries(sent, "HELLO") PROVE HelloComes'
      BY <2>1 DEF Greeted, HelloComes
    <3>2. link = "up" /\ ~Said /\ authState = "NONE"
      BY <1>a, <3>1 DEF Greeted, HelloComes, Said
    <3>3. watcher'[c] = "hello" /\ ~Said'
      BY <1>a, <2>1, <3>2 DEF Said
    <3> QED BY <3>3 DEF HelloComes
  <2> QED BY <2>2, <2>3, <2>4
<1>3. CASE SendHello(c)
  <2>1. /\ watcher[c] = "hello" /\ sendEnvelope("HELLO")
        /\ UNCHANGED <<server, reply, authState, lastSeen, handler, inbox, missed, canSign>>
    BY <1>3 DEF SendHello
  <2>2. server # "none" /\ link = "up"
    BY <1>a, <2>1 DEF Unconnected
  <2>3. Carries(sent', "HELLO") /\ (Carries(sent, "AUTH_RESPONSE") => Carries(sent', "AUTH_RESPONSE"))
    BY <1>b, <2>1, <2>2, SendMore
  <2> QED BY <2>1, <2>2, <2>3
          DEF Silent, Unconnected, Greeted, HelloComes, AnswerComes
<1>4. CASE HelloSent(c)
  <2>1. /\ watcher[c] = "helloSent"
        /\ UNCHANGED <<server, sent, reply, lastSeen, handler, inbox, missed, canSign>>
    BY <1>4 DEF HelloSent, linkVars
  <2>2. server # "none" /\ Said
    BY <2>1 DEF Unconnected, Said
  <2> QED BY <2>1, <2>2 DEF Silent, Unconnected, Greeted, HelloComes, AnswerComes
<1> QED BY <1>1, <1>2, <1>3, <1>4 DEF Watch

\* What a coroutine that dispatches frames does.
LEMMA HandleUnfinished ==
  ASSUME IInv, LoginInv, drops = 0, NEW c \in Starts, Handle(c)
  PROVE  Unfinished'
<1> USE DEF IInv, LoginInv, Unfinished
<1>a. /\ link \in {"up", "down"} /\ server \in ServerState
      /\ link = "down" <=> server = "none"
      /\ handler \in [Starts -> {"off", "launched", "collect", "challenged", "responded"}]
      /\ inbox \in [Starts -> Seq(ToClient)]
  BY DEF TypeOK, LoggedIn, Connected
<1>b. "AUTH_RESPONSE" \in ToServer /\ LoginFrame \subseteq ToClient
  BY DEF ToServer, ToClient
<1>c. ASSUME NEW type \in LoginFrame, Collects(c, type)
      PROVE  server \notin {"none", "hello"}
  BY <1>b, <1>c, CollectType DEF Silent
<1>1. CASE handleAuthChallenge(c)
  <2>1. /\ Collects(c, "AUTH_CHALLENGE")
        /\ handler' = [handler EXCEPT ![c] = "challenged"]
        /\ UNCHANGED <<server, sent, reply, canSign>>
    BY <1>1 DEF handleAuthChallenge, linkVars
  <2>2. server \notin {"none", "hello"}
    BY <1>c, <2>1 DEF LoginFrame
  <2>3. AnswerComes'
    BY <1>a, <2>1 DEF AnswerComes
  <2> QED BY <2>1, <2>2, <2>3 DEF Silent, Unconnected, Greeted
<1>2. CASE SendAuthResponse(c)
  <2>1. /\ handler[c] = "challenged" /\ sendEnvelope("AUTH_RESPONSE")
        /\ UNCHANGED <<server, reply, inbox, canSign>>
    BY <1>2 DEF SendAuthResponse
  <2>2. server \notin {"none", "hello"} /\ link = "up"
    BY <1>a, <2>1 DEF Silent
  <2>3. Carries(sent', "AUTH_RESPONSE")
    BY <1>b, <2>1, <2>2, SendMore
  <2> QED BY <2>1, <2>2, <2>3 DEF Silent, Unconnected, Greeted, AnswerComes
<1>3. CASE CannotSign(c)
  <2>1. handler[c] = "challenged" /\ UNCHANGED <<server, canSign>> /\ ~canSign
    BY <1>3 DEF CannotSign, linkVars
  <2>2. server \notin {"none", "hello"}
    BY <2>1 DEF Silent
  <2> QED BY <2>1, <2>2 DEF Silent, Unconnected, Greeted, AnswerComes
<1>4. CASE AuthSent(c)
  <2>1. /\ handler[c] = "responded" /\ handler' = [handler EXCEPT ![c] = "collect"]
        /\ UNCHANGED <<server, sent, reply, inbox, missed, canSign>>
    BY <1>4 DEF AuthSent, linkVars
  <2>2. server \notin {"none", "hello"}
    BY <2>1 DEF Silent
  <2>3. \A d \in Starts : handler[d] = "challenged" => handler'[d] = "challenged"
    BY <1>a, <2>1
  <2> QED BY <2>1, <2>2, <2>3 DEF Silent, Unconnected, Greeted, AnswerComes
<1>5. CASE handleAuthOk(c) \/ handleAuthFail(c)
  <2>1. /\ Collects(c, "AUTH_OK") \/ Collects(c, "AUTH_FAIL")
        /\ UNCHANGED <<server, sent, reply, handler, missed, canSign>>
    BY <1>5 DEF handleAuthOk, handleAuthFail, linkVars
  <2>2. server \notin {"none", "hello"}
    BY <1>c, <2>1 DEF LoginFrame
  <2>3. \A d \in Starts : Carries(inbox[d], "AUTH_CHALLENGE") => Carries(inbox'[d], "AUTH_CHALLENGE")
    BY <2>1, CollectRest
  <2> QED BY <2>1, <2>2, <2>3 DEF Silent, Unconnected, Greeted, AnswerComes
<1>6. CASE handleIncomingChat(c) \/ handleError(c)
  <2>1. /\ Collects(c, "CHAT") \/ Collects(c, "ERROR")
        /\ UNCHANGED <<server, sent, reply, authState, watcher, lastSeen, handler, missed, canSign>>
    BY <1>6 DEF handleIncomingChat, handleError, linkVars
  <2>2. \A d \in Starts : Carries(inbox[d], "AUTH_CHALLENGE") => Carries(inbox'[d], "AUTH_CHALLENGE")
    BY <2>1, CollectRest
  <2>3. \A d \in Starts, x \in LoginFrame : Carries(inbox'[d], x) => Carries(inbox[d], x)
    BY <1>b, <2>1, CollectType
  <2>4. Silent'
    BY <2>1, <2>3 DEF Silent
  <2>5. AnswerComes'
    BY <2>1, <2>2 DEF AnswerComes
  <2>6. Greeted'
    BY <2>1, GreetedKept
  <2> QED BY <2>1, <2>4, <2>5, <2>6 DEF Unconnected
<1>7. CASE Subscribe(c)
  <2>1. /\ handler[c] = "launched" /\ handler' = [handler EXCEPT ![c] = "collect"]
        /\ UNCHANGED <<server, sent, reply, authState, watcher, lastSeen, inbox, missed, canSign>>
    BY <1>7 DEF Subscribe, linkVars
  <2>2. \A d \in Starts : handler[d] = "challenged" <=> handler'[d] = "challenged"
    BY <1>a, <2>1
  <2>3. Silent'
    BY <1>a, <2>1, <2>2 DEF Silent
  <2>4. AnswerComes'
    BY <2>1, <2>2 DEF AnswerComes
  <2>5. Greeted'
    BY <2>1, GreetedKept
  <2> QED BY <2>1, <2>3, <2>4, <2>5 DEF Unconnected
<1> QED BY <1>1, <1>2, <1>3, <1>4, <1>5, <1>6, <1>7 DEF Handle

\* Every step keeps what brings the first login to its end.
LEMMA NextLoginInv == ASSUME IInv, LoginInv, [Next]_vars PROVE LoginInv'
<1>1. Paired' /\ Connected'
  BY NextPaired, NextConnected DEF IInv, LoginInv
<1>2. Unfinished'
  <2>1. CASE LinkDown
    <3>1. drops' # 0
      BY <2>1, BoundsAssumption DEF IInv, TypeOK, LinkDown
    <3> QED BY <3>1 DEF Unfinished
  <2>2. CASE ~LinkDown
    <3>1. SUFFICES ASSUME drops' = 0 PROVE Unfinished'
      BY DEF Unfinished
    <3>2. drops = 0
      BY <2>2, <3>1
         DEF Next, Emit, LinkUp, Serve, ServerHello, ServerAccepts, ServerRefuses, ServerRequest,
             ServerRelays, sendChat, sendFile, SendRequest, start, Watch, SeeState, SendHello, HelloSent,
             Handle, handleAuthChallenge, SendAuthResponse, CannotSign, AuthSent, handleAuthOk,
             handleAuthFail, handleIncomingChat, handleError, Subscribe, vars, linkVars
    <3>3. Silent /\ Unconnected /\ Greeted /\ AnswerComes
      BY <3>2 DEF LoginInv, Unfinished
    <3>4. CASE sendChat \/ UNCHANGED vars
      <4>1. UNCHANGED <<server, sent, reply, authState, watcher, lastSeen, handler, inbox, missed, canSign>>
        BY <3>4 DEF sendChat, vars, linkVars, clientVars
      <4> QED BY <3>3, <4>1 DEF Unfinished, Silent, Unconnected, Greeted, HelloComes, Said, Sees,
                                AnswerComes
    <3>5. ASSUME NEW type \in Request, SendRequest(type) \/ sendFile PROVE Unfinished'
      <4>1. UNCHANGED <<server, reply, authState, watcher, lastSeen, handler, inbox, missed, canSign>>
        BY <3>5 DEF SendRequest, sendFile, clientVars
      <4>2. \A x : Carries(sent, x) => Carries(sent', x)
        BY <3>5, SendMore DEF SendRequest, sendFile, IInv, Request, NeedsAccount, ToServer
      <4>3. Greeted'
        BY <3>3, <4>1, <4>2, GreetedKept
      <4> QED BY <3>3, <4>1, <4>2, <4>3 DEF Unfinished, Silent, Unconnected, AnswerComes
    <3>6. "CHAT" \in Request
      BY DEF Request
    <3> QED BY <2>2, <3>2, <3>4, <3>5, <3>6, LinkUnfinished, WatchUnfinished, HandleUnfinished DEF Next
  <2> QED BY <2>1, <2>2
<1> QED BY <1>1, <1>2 DEF LoginInv
-----------------------------------------------------------------------------
(* What each collector has stored                                           *)

Collectors == {c \in Starts : handler[c] # "off"}
Chats(frames) == {i \in 1 .. Len(frames) : frames[i] = "CHAT"}
NumChats(frames) == Cardinality(Chats(frames))

\* A row is one collector's copy of one relayed message: "stored" says which
\* collector stored how many. What is still to come to a collector is counted
\* with what it stored, so nobody is owed more than was relayed.
Copies == Collectors \X (1 .. relayed)
Of(stored, c) == {i \in 1 .. relayed : << c, i >> \in stored}
Ledger(stored) ==
  /\ stored \subseteq Copies
  /\ rows = Cardinality(stored)
  /\ \A c \in Starts :
       Cardinality(Of(stored, c)) + NumChats(inbox[c]) + NumChats(reply) <= relayed
Counted == IsFiniteSet(Collectors) /\ \E stored : Ledger(stored)

\* Frames are finitely many.
LEMMA ChatsFinite ==
  ASSUME NEW s \in Seq(ToClient)
  PROVE  IsFiniteSet(Chats(s)) /\ NumChats(s) \in Nat
<1>1. Len(s) \in Nat
  BY LenProperties
<1>2. IsFiniteSet(1 .. Len(s))
  BY <1>1, FS_Interval
<1>3. Chats(s) \in SUBSET (1 .. Len(s))
  BY DEF Chats
<1> QED BY <1>2, <1>3, FS_Subset, FS_CardinalityType DEF NumChats

\* A frame more is one chat more, or none.
LEMMA ChatsAppend ==
  ASSUME NEW s \in Seq(ToClient), NEW e \in ToClient
  PROVE  NumChats(Append(s, e)) = IF e = "CHAT" THEN NumChats(s) + 1 ELSE NumChats(s)
<1>1. /\ Len(Append(s, e)) = Len(s) + 1 /\ Append(s, e)[Len(s) + 1] = e
      /\ \A i \in 1 .. Len(s) : Append(s, e)[i] = s[i]
  BY AppendProperties
<1>2. Len(s) \in Nat
  BY LenProperties
<1>3. 1 .. (Len(s) + 1) = (1 .. Len(s)) \cup {Len(s) + 1} /\ Len(s) + 1 \notin 1 .. Len(s)
  BY <1>2
<1>4. CASE e = "CHAT"
  <2>1. Chats(Append(s, e)) = Chats(s) \cup {Len(s) + 1} /\ Len(s) + 1 \notin Chats(s)
    BY <1>1, <1>3, <1>4 DEF Chats
  <2> QED BY <2>1, <1>4, ChatsFinite, FS_AddElement DEF NumChats
<1>5. CASE e # "CHAT"
  <2>1. Chats(Append(s, e)) = Chats(s)
    BY <1>1, <1>3, <1>5 DEF Chats
  <2> QED BY <2>1, <1>5 DEF NumChats
<1> QED BY <1>4, <1>5

\* The rest has one chat less, if the first frame was one.
LEMMA ChatsTail ==
  ASSUME NEW s \in Seq(ToClient), s # << >>
  PROVE  NumChats(Tail(s)) = IF Head(s) = "CHAT" THEN NumChats(s) - 1 ELSE NumChats(s)
<1> DEFINE later == Chats(s) \ {1}
           shift == [i \in Chats(Tail(s)) |-> i + 1]
<1>1. /\ Tail(s) \in Seq(ToClient) /\ Len(Tail(s)) = Len(s) - 1
      /\ \A i \in 1 .. Len(Tail(s)) : Tail(s)[i] = s[i + 1]
  BY HeadTailProperties
<1>2. Len(s) \in Nat /\ Len(s) > 0 /\ Head(s) = s[1]
  BY EmptySeq, LenProperties
<1>3. \A i \in Chats(Tail(s)) : i \in Int /\ i + 1 \in later
  BY <1>1, <1>2 DEF Chats
<1>4. \A j \in later : j - 1 \in Chats(Tail(s)) /\ (j - 1) + 1 = j
  BY <1>1, <1>2 DEF Chats
<1>5. shift \in Injection(Chats(Tail(s)), later)
  BY <1>3 DEF Injection, IsInjective
<1>6. shift \in Surjection(Chats(Tail(s)), later)
  BY <1>3, <1>4 DEF Surjection
<1>7. ExistsBijection(Chats(Tail(s)), later)
  BY <1>5, <1>6 DEF ExistsBijection, Bijection
<1>8. Cardinality(later) = NumChats(Tail(s))
  BY <1>1, <1>7, ChatsFinite, FS_Bijection DEF NumChats
<1>9. Cardinality(later) = IF 1 \in Chats(s) THEN NumChats(s) - 1 ELSE NumChats(s)
  BY ChatsFinite, FS_RemoveElement DEF NumChats
<1>10. 1 \in Chats(s) <=> Head(s) = "CHAT"
  BY <1>2 DEF Chats
<1> QED BY <1>8, <1>9, <1>10

LEMMA ChatsEmpty == NumChats(<< >>) = 0
<1>1. Chats(<< >>) = {}
  BY DEF Chats
<1> QED BY <1>1, FS_EmptySet DEF NumChats

\* The copies one collector stored are finitely many.
LEMMA OfFinite ==
  ASSUME TypeOK, NEW stored, NEW c
  PROVE  Of(stored, c) \subseteq 1 .. relayed /\ IsFiniteSet(Of(stored, c)) /\ Cardinality(Of(stored, c)) \in Nat
<1>1. relayed \in Nat
  BY BoundsAssumption DEF TypeOK
<1>2. IsFiniteSet(1 .. relayed)
  BY <1>1, FS_Interval
<1>3. Of(stored, c) \in SUBSET (1 .. relayed)
  BY DEF Of
<1> QED BY <1>2, <1>3, FS_Subset, FS_CardinalityType

LEMMA InitCounted == Init => Counted
<1> SUFFICES ASSUME Init PROVE Counted
  OBVIOUS
<1>1. Collectors = {} /\ IsFiniteSet(Collectors)
  BY FS_EmptySet DEF Init, Collectors
<1>2. \A c \in Starts : Of({}, c) = {} /\ inbox[c] = << >>
  BY DEF Of, Init
<1>3. {} \subseteq Copies /\ rows = Cardinality({}) /\ reply = << >> /\ relayed = 0
  BY FS_EmptySet DEF Init
<1>4. \A c \in Starts : Cardinality(Of({}, c)) = 0 /\ NumChats(inbox[c]) = 0 /\ NumChats(reply) = 0
  BY <1>2, <1>3, FS_EmptySet, ChatsEmpty
<1>5. Ledger({})
  BY <1>3, <1>4 DEF Ledger
<1> QED BY <1>1, <1>5 DEF Counted

\* Nothing is stored, nobody is owed more, and collectors are only added.
LEMMA CountedKept ==
  ASSUME TypeOK, TypeOK', Counted, rows' = rows, relayed' = relayed,
         Collectors' = Collectors,
         \A c \in Starts : NumChats(inbox'[c]) + NumChats(reply') <= NumChats(inbox[c]) + NumChats(reply)
  PROVE  Counted'
<1>1. PICK stored : Ledger(stored)
  BY DEF Counted
<1>2. \A c \in Starts : Of(stored, c)' = Of(stored, c)
  BY DEF Of
<1>3. \A c \in Starts : /\ Cardinality(Of(stored, c)) \in Nat
                        /\ NumChats(inbox[c]) \in Nat /\ NumChats(reply) \in Nat
                        /\ NumChats(inbox'[c]) \in Nat /\ NumChats(reply') \in Nat
  BY OfFinite, ChatsFinite DEF TypeOK
<1>4. relayed \in Nat
  BY BoundsAssumption DEF TypeOK
<1>5. Ledger(stored)'
  BY <1>1, <1>2, <1>3, <1>4 DEF Ledger, Copies
<1> QED BY <1>2, <1>5 DEF Counted

\* A coroutine that collects goes on to do so.
LEMMA StillCollecting ==
  ASSUME TypeOK, NEW c \in Starts, handler[c] # "off", NEW h, h # "off",
         handler' = [handler EXCEPT ![c] = h]
  PROVE  Collectors' = Collectors
BY DEF TypeOK, Collectors

\* What a collector takes is no longer owed to it.
LEMMA CollectOwed ==
  ASSUME TypeOK, NEW c \in Starts, NEW type, Collects(c, type)
  PROVE  /\ NumChats(inbox'[c]) = IF type = "CHAT" THEN NumChats(inbox[c]) - 1 ELSE NumChats(inbox[c])
         /\ \A d \in Starts \ {c} : inbox'[d] = inbox[d]
         /\ \A d \in Starts : NumChats(inbox'[d]) <= NumChats(inbox[d])
<1>1. /\ inbox[c] \in Seq(ToClient) /\ inbox[c] # << >> /\ Head(inbox[c]) = type
      /\ inbox'[c] = Tail(inbox[c])
      /\ \A d \in Starts \ {c} : inbox'[d] = inbox[d]
  BY DEF TypeOK, Collects
<1>2. \A d \in Starts : NumChats(inbox[d]) \in Nat
  BY ChatsFinite DEF TypeOK
<1>3. NumChats(inbox'[c]) = IF type = "CHAT" THEN NumChats(inbox[c]) - 1 ELSE NumChats(inbox[c])
  BY <1>1, ChatsTail
<1> QED BY <1>1, <1>2, <1>3

\* What the server says of the login is not a message.
LEMMA AnswerOwed ==
  ASSUME TypeOK, NEW type \in ToClient \ {"CHAT"}, Answer(type)
  PROVE  NumChats(reply') = NumChats(reply)
BY ChatsAppend DEF TypeOK, Answer

\* A frame that every collector gets, or none, leaves no one more than before.
LEMMA EmitOwed ==
  ASSUME TypeOK, Emit
  PROVE  \A c \in Starts : NumChats(inbox'[c]) + NumChats(reply') <= NumChats(inbox[c]) + NumChats(reply)
<1> DEFINE frame == Head(reply)
<1>1. /\ reply \in Seq(ToClient) /\ reply # << >> /\ reply' = Tail(reply)
      /\ inbox \in [Starts -> Seq(ToClient)]
  BY DEF TypeOK, Emit
<1>2. frame \in ToClient
  BY <1>1, CarriesTail
<1>3. NumChats(reply') = IF frame = "CHAT" THEN NumChats(reply) - 1 ELSE NumChats(reply)
  BY <1>1, ChatsTail
<1>4. ASSUME NEW c \in Starts
      PROVE  NumChats(inbox'[c]) + NumChats(reply') <= NumChats(inbox[c]) + NumChats(reply)
  <2>1. inbox'[c] = inbox[c] \/ inbox'[c] = Append(inbox[c], frame)
    BY <1>1 DEF Emit, Emitted
  <2>2. NumChats(Append(inbox[c], frame)) = IF frame = "CHAT" THEN NumChats(inbox[c]) + 1
                                                             ELSE NumChats(inbox[c])
    BY <1>1, <1>2, ChatsAppend
  <2>3. NumChats(inbox[c]) \in Nat /\ NumChats(reply) \in Nat
    BY <1>1, ChatsFinite
  <2>4. NumChats(inbox'[c]) \in {NumChats(inbox[c]), NumChats(Append(inbox[c], frame))}
    BY <2>1
  <2> HIDE DEF frame
  <2>5. CASE frame = "CHAT"
    BY <2>2, <2>3, <2>4, <2>5, <1>3
  <2>6. CASE frame # "CHAT"
    BY <2>2, <2>3, <2>4, <2>6, <1>3
  <2> QED BY <2>5, <2>6
<1> QED BY <1>4

\* A message is relayed: it is owed to everyone.
LEMMA RelayCounted ==
  ASSUME TypeOK, Counted, ServerRelays
  PROVE  Counted'
<1>1. PICK stored : Ledger(stored)
  BY DEF Counted
<1>2. /\ relayed' = relayed + 1 /\ UNCHANGED <<rows, handler, inbox>>
      /\ Answer("CHAT") /\ "CHAT" \in ToClient
  BY DEF ServerRelays, clientVars, ToClient
<1>3. relayed \in Nat /\ NumChats(reply) \in Nat /\ NumChats(reply') = NumChats(reply) + 1
  BY <1>2, BoundsAssumption, ChatsFinite, ChatsAppend DEF TypeOK, Answer
<1>4. Collectors' = Collectors /\ 1 .. relayed \subseteq 1 .. relayed'
  BY <1>2, <1>3 DEF Collectors
<1>5. stored \subseteq Copies'
  BY <1>1, <1>4 DEF Ledger, Copies
<1>6. \A c \in Starts : Of(stored, c)' = Of(stored, c)
  <2>1. \A c, i : << c, i >> \in stored => i \in 1 .. relayed
    BY <1>1 DEF Ledger, Copies
  <2> QED BY <2>1, <1>4 DEF Of
<1>7. \A c \in Starts : Cardinality(Of(stored, c)) \in Nat /\ NumChats(inbox[c]) \in Nat
  BY OfFinite, ChatsFinite DEF TypeOK
<1>8. Ledger(stored)'
  BY <1>1, <1>2, <1>3, <1>5, <1>6, <1>7 DEF Ledger
<1> QED BY <1>4, <1>8 DEF Counted

\* A call of start(): one collector more, which has stored nothing.
LEMMA StartCounted ==
  ASSUME TypeOK, Counted, NEW c \in Starts, start(c)
  PROVE  Counted'
<1>1. PICK stored : Ledger(stored)
  BY DEF Counted
<1>2. /\ UNCHANGED <<rows, relayed, inbox, reply>>
      /\ Collectors' = Collectors \cup {c}
  BY DEF start, linkVars, TypeOK, Collectors
<1>3. IsFiniteSet(Collectors') /\ Copies \subseteq Copies'
  BY <1>2, FS_AddElement DEF Counted, Copies
<1>4. Ledger(stored)'
  BY <1>1, <1>2, <1>3 DEF Ledger, Of
<1> QED BY <1>3, <1>4 DEF Counted

\* A row is inserted: it is a copy its collector did not have.
LEMMA ChatCounted ==
  ASSUME TypeOK, Counted, NEW c \in Starts, handleIncomingChat(c)
  PROVE  Counted'
<1>1. PICK stored : Ledger(stored)
  BY DEF Counted
<1>2. /\ Collects(c, "CHAT") /\ rows' = rows + 1 /\ handler[c] # "off"
      /\ UNCHANGED <<relayed, handler, reply>>
  BY DEF handleIncomingChat, Collects, linkVars
<1>3. /\ NumChats(inbox'[c]) = NumChats(inbox[c]) - 1
      /\ \A d \in Starts \ {c} : inbox'[d] = inbox[d]
  BY <1>2, CollectOwed
<1>4. /\ relayed \in Nat /\ NumChats(reply) \in Nat
      /\ \A d \in Starts : NumChats(inbox[d]) \in Nat /\ NumChats(inbox'[d]) \in Nat
  BY <1>2, CollectType, BoundsAssumption, ChatsFinite DEF TypeOK
<1>5. \A d \in Starts : /\ Of(stored, d) \subseteq 1 .. relayed /\ IsFiniteSet(Of(stored, d))
                        /\ Cardinality(Of(stored, d)) \in Nat
  BY OfFinite
<1>6. PICK i \in 1 .. relayed : << c, i >> \notin stored
  <2>1. Cardinality(Of(stored, c)) < relayed
    <3>1. Cardinality(Of(stored, c)) + NumChats(inbox[c]) + NumChats(reply) <= relayed
      BY <1>1 DEF Ledger
    <3>2. NumChats(inbox[c]) > 0
      BY <1>3, <1>4
    <3> QED BY <3>1, <3>2, <1>4, <1>5
  <2>2. Cardinality(1 .. relayed) = relayed
    BY <1>4, FS_Interval
  <2>3. Of(stored, c) # 1 .. relayed
    BY <2>1, <2>2, <1>4
  <2> QED BY <2>3, <1>5 DEF Of
<1> DEFINE more == stored \cup {<< c, i >>}
<1>7. /\ Collectors' = Collectors /\ c \in Collectors /\ << c, i >> \in Copies
  BY <1>2, <1>6 DEF Collectors, Copies
<1>8. more \subseteq Copies'
  BY <1>1, <1>2, <1>7 DEF Ledger, Copies
<1>9. rows' = Cardinality(more)
  <2>1. IsFiniteSet(1 .. relayed)
    BY <1>4, FS_Interval
  <2>2. IsFiniteSet(Copies)
    BY <2>1, FS_Product DEF Counted, Copies
  <2>3. IsFiniteSet(stored)
    BY <1>1, <2>2, FS_Subset DEF Ledger
  <2> QED BY <1>1, <1>2, <1>6, <2>3, FS_AddElement DEF Ledger
<1>10. Of(more, c) = Of(stored, c) \cup {i} /\ i \notin Of(stored, c)
  BY <1>6 DEF Of
<1>11. Cardinality(Of(more, c)) = Cardinality(Of(stored, c)) + 1
  BY <1>5, <1>10, FS_AddElement
<1>12. \A d \in Starts \ {c} : Of(more, d) = Of(stored, d)
  BY DEF Of
<1>13. \A d \in Starts : Of(more, d)' = Of(more, d)
  BY <1>2 DEF Of
<1> HIDE DEF more
<1>14. \A d \in Starts :
         Cardinality(Of(more, d)) + NumChats(inbox'[d]) + NumChats(reply) <= relayed
  <2> SUFFICES ASSUME NEW d \in Starts
               PROVE  Cardinality(Of(more, d)) + NumChats(inbox'[d]) + NumChats(reply) <= relayed
    OBVIOUS
  <2>1. Cardinality(Of(stored, d)) + NumChats(inbox[d]) + NumChats(reply) <= relayed
    BY <1>1 DEF Ledger
  <2>2. CASE d = c
    BY <2>1, <2>2, <1>3, <1>4, <1>5, <1>11
  <2>3. CASE d # c
    BY <2>1, <2>3, <1>3, <1>12
  <2> QED BY <2>2, <2>3
<1>15. Ledger(more)'
  BY <1>2, <1>8, <1>9, <1>13, <1>14 DEF Ledger
<1>16. IsFiniteSet(Collectors')
  BY <1>7 DEF Counted
<1> QED BY <1>15, <1>16 DEF Counted

\* Every step keeps the account.
LEMMA NextCounted == ASSUME TypeOK, TypeOK', Counted, [Next]_vars PROVE Counted'
<1>a. {"AUTH_CHALLENGE", "AUTH_OK", "AUTH_FAIL", "ERROR"} \subseteq ToClient \ {"CHAT"}
  BY DEF ToClient, LoginFrame
<1>b. /\ \A c \in Starts : NumChats(inbox[c]) \in Nat
      /\ NumChats(reply) \in Nat
  BY ChatsFinite DEF TypeOK
<1>1. CASE LinkDown
  <2>1. reply' = << >> /\ UNCHANGED clientVars /\ relayed' = relayed
    BY <1>1 DEF LinkDown
  <2>2. Collectors' = Collectors
    BY <2>1 DEF Collectors, clientVars
  <2> QED BY <1>b, <2>1, <2>2, ChatsEmpty, CountedKept DEF clientVars
<1>2. CASE Emit
  <2>1. UNCHANGED <<rows, relayed, handler>>
    BY <1>2 DEF Emit
  <2> QED BY <1>2, <2>1, EmitOwed, CountedKept DEF Collectors
<1>3. CASE Serve
  <2>1. UNCHANGED clientVars /\ relayed' = relayed
    BY <1>3 DEF Serve, ServerHello, ServerAccepts, ServerRefuses, ServerRequest
  <2>2. \/ reply' = reply
        \/ Answer("AUTH_CHALLENGE") \/ Answer("AUTH_OK") \/ Answer("AUTH_FAIL") \/ Answer("ERROR")
    BY <1>3 DEF Serve, ServerHello, ServerAccepts, ServerRefuses, ServerRequest
  <2>3. NumChats(reply') = NumChats(reply)
    BY <1>a, <2>2, AnswerOwed
  <2>4. Collectors' = Collectors
    BY <2>1 DEF Collectors, clientVars
  <2> QED BY <1>b, <2>1, <2>3, <2>4, CountedKept DEF clientVars
<1>4. CASE ServerRelays
  BY <1>4, RelayCounted
<1>5. ASSUME NEW c \in Starts, start(c) PROVE Counted'
  BY <1>5, StartCounted
<1>6. ASSUME NEW c \in Starts, Handle(c) PROVE Counted'
  <2>1. CASE handleAuthChallenge(c)
    <3>1. /\ Collects(c, "AUTH_CHALLENGE") /\ UNCHANGED <<rows, relayed, reply>>
          /\ handler' = [handler EXCEPT ![c] = "challenged"] /\ handler[c] # "off"
      BY <2>1 DEF handleAuthChallenge, Collects, linkVars
    <3>2. Collectors' = Collectors
      BY <3>1, StillCollecting
    <3>3. \A d \in Starts : NumChats(inbox'[d]) <= NumChats(inbox[d])
      BY <3>1, CollectOwed
    <3>4. \A d \in Starts : NumChats(inbox'[d]) \in Nat
      BY ChatsFinite DEF TypeOK
    <3>5. \A d \in Starts : NumChats(inbox'[d]) + NumChats(reply') <= NumChats(inbox[d]) + NumChats(reply)
      BY <1>b, <3>1, <3>3, <3>4
    <3> QED BY <3>1, <3>2, <3>5, CountedKept
  <2>2. CASE SendAuthResponse(c) \/ CannotSign(c) \/ AuthSent(c) \/ Subscribe(c)
    <3>1. /\ UNCHANGED <<rows, relayed, reply, inbox>> /\ handler[c] # "off"
          /\ \E h \in {"responded", "collect"} : handler' = [handler EXCEPT ![c] = h]
      BY <2>2 DEF SendAuthResponse, CannotSign, AuthSent, Subscribe, linkVars
    <3>2. Collectors' = Collectors
      BY <3>1, StillCollecting
    <3> QED BY <1>b, <3>1, <3>2, CountedKept
  <2>3. CASE handleAuthOk(c) \/ handleAuthFail(c) \/ handleError(c)
    <3>1. /\ Collects(c, "AUTH_OK") \/ Collects(c, "AUTH_FAIL") \/ Collects(c, "ERROR")
          /\ UNCHANGED <<rows, relayed, reply, handler>>
      BY <2>3 DEF handleAuthOk, handleAuthFail, handleError, linkVars
    <3>2. \A d \in Starts : NumChats(inbox'[d]) <= NumChats(inbox[d])
      BY <3>1, CollectOwed
    <3>3. \A d \in Starts : NumChats(inbox'[d]) \in Nat
      BY ChatsFinite DEF TypeOK
    <3>4. \A d \in Starts : NumChats(inbox'[d]) + NumChats(reply') <= NumChats(inbox[d]) + NumChats(reply)
      BY <1>b, <3>1, <3>2, <3>3
    <3> QED BY <3>1, <3>4, CountedKept DEF Collectors
  <2>4. CASE handleIncomingChat(c)
    BY <2>4, ChatCounted
  <2> QED BY <1>6, <2>1, <2>2, <2>3, <2>4 DEF Handle
<1>7. CASE UNCHANGED <<rows, relayed, handler, inbox, reply>>
  BY <1>b, <1>7, CountedKept DEF Collectors
<1> QED BY <1>1, <1>2, <1>3, <1>4, <1>5, <1>6, <1>7
        DEF Next, LinkUp, sendChat, sendFile, SendRequest, Watch, SeeState, SendHello, HelloSent, vars,
            linkVars, clientVars
-----------------------------------------------------------------------------
\* The variables of the session keep their types, its buffers their bound.
THEOREM TypeCorrect == Spec => []TypeOK
<1>1. Init => TypeOK
  BY InitIInv DEF IInv
<1> QED BY <1>1, NextTypeOK, PTL DEF Spec

\* On the first connection no key, message or command reaches a server that has
\* not authenticated the client, however many start() calls share the login;
\* only frames of file transfers do.
THEOREM FirstLoginOrdered == Spec => []FirstLoginInOrder
<1>1. IInv /\ [Next]_vars => IInv'
  BY NextTypeOK, NextLoggedIn DEF IInv
<1>2. IInv => FirstLoginInOrder
  BY DEF IInv, LoggedIn, FirstLoginInOrder
<1> QED BY InitIInv, <1>1, <1>2, PTL DEF Spec

\* A first connection does not come to rest, in any interleaving of the
\* coroutines of any number of start() calls, before the client that can sign is
\* logged in or refused, unless a frame of the login found no collector or a
\* full buffer: a HELLO, the nonce or the answer to it is always on its way, or
\* in the hands of a coroutine that will send it.
THEOREM FirstLoginEnds == Spec => []FirstLogin
<1>1. IInv /\ LoginInv /\ [Next]_vars => (IInv /\ LoginInv)'
  BY NextTypeOK, NextLoggedIn, NextLoginInv DEF IInv
<1>2. IInv /\ LoginInv => FirstLogin
  <2> SUFFICES ASSUME IInv, LoginInv, AtRest, link = "up", drops = 0, canSign, ~missed
               PROVE  server \in {"established", "dead"}
    BY DEF FirstLogin
  <2>1. server \in ServerState /\ server # "none"
    BY DEF IInv, TypeOK, LoginInv, Connected
  <2>2. server # "hello"
    BY CarriesEmpty DEF LoginInv, Unfinished, Greeted, HelloComes, Sees, AtRest
  <2>3. server # "auth_pending"
    BY CarriesEmpty DEF LoginInv, Unfinished, AnswerComes, AtRest
  <2> QED BY <2>1, <2>2, <2>3 DEF ServerState
<1> QED BY InitIInv, InitLoginInv, <1>1, <1>2, PTL DEF Spec

\* A collector stores each message once at most: what all of them stored is
\* no more than one copy of each message for each call of start(), for any
\* number of calls and messages, through any number of lost connections.
THEOREM StoredOnce == Spec => []OncePerCollector
<1>1. TypeOK /\ Counted /\ [Next]_vars => (TypeOK /\ Counted)'
  BY NextTypeOK, NextCounted
<1>2. TypeOK /\ Counted => OncePerCollector
  <2> SUFFICES ASSUME TypeOK, Counted PROVE OncePerCollector
    OBVIOUS
  <2>1. PICK stored : stored \subseteq Copies /\ rows = Cardinality(stored)
    BY DEF Counted, Ledger
  <2>2. relayed \in Nat
    BY BoundsAssumption DEF TypeOK
  <2>3. IsFiniteSet(1 .. relayed) /\ Cardinality(1 .. relayed) = relayed
    BY <2>2, FS_Interval
  <2>4. IsFiniteSet(Collectors) /\ Cardinality(Collectors) \in Nat
    BY FS_CardinalityType DEF Counted
  <2>5. IsFiniteSet(Copies) /\ Cardinality(Copies) = Cardinality(Collectors) * relayed
    BY <2>3, <2>4, FS_Product DEF Copies
  <2>6. rows <= Cardinality(Collectors) * relayed
    BY <2>1, <2>5, FS_Subset
  <2>7. Cardinality(Collectors) * relayed = relayed * Cardinality(Collectors)
    BY <2>2, <2>4
  <2> QED BY <2>6, <2>7 DEF OncePerCollector, Collectors
<1> QED BY InitIInv, InitCounted, <1>1, <1>2, PTL DEF Spec, IInv
=============================================================================
