------------------------------ MODULE VoiceCalls ------------------------------
(***************************************************************************)
(* Voice rooms and private calls: the operations and signal handlers of    *)
(* VoiceEngine (voice_engine.cpp) and the state VoiceRepository.kt keeps   *)
(* for the screens. Connections and audio are stubs in the code; what is   *)
(* modelled is which of them exist. The engine is not told which thread    *)
(* calls it and each operation is taken as one step.                       *)
(*                                                                         *)
(* The JNI layer registers no callback for incoming, accepted and declined *)
(* calls and for the connection state, so signals do not reach the         *)
(* repository, and the engine never reports that a peer joined, so that no *)
(* participants are shown; and the names it exports are those of a package *)
(* "native", while the Kotlin object is in "ndk". Which signals come is    *)
(* external. Deafening is muting with another flag, and left out.          *)
(***************************************************************************)
EXTENDS Naturals

CONSTANTS Channels, Peers, None

VARIABLES engine,  \* the fields of VoiceEngine
          view,    \* VoiceState of the repository
          stray    \* history: what is held was answered when nobody was there

vars == <<engine, view, stray>>

ConnectionState == {"DISCONNECTED", "CONNECTING", "CONNECTED"}
CallState == {"IDLE", "CALLING", "RINGING", "CONNECTED"}

Fresh == [initialized |-> FALSE, room |-> None, peer |-> None, private |-> FALSE,
          call |-> "IDLE", conn |-> "DISCONNECTED", audio |-> FALSE, muted |-> FALSE, peers |-> {}]
NoVoice == [inVoice |-> FALSE, room |-> None, peer |-> None, private |-> FALSE, muted |-> FALSE]

Init == engine = Fresh /\ view = NoVoice /\ stray = FALSE

\* The call made by an answer to nobody is one like any other when somebody is
\* there, and forgotten when it is over.
Settled == stray' = IF engine'.call = "IDLE" \/ engine'.peer # None THEN FALSE ELSE stray

InRoom(e) == e.room # None \/ e.peer # None

\* leaveRoom(): returns early outside of a room.
Left(e) ==
  IF InRoom(e)
  THEN [Fresh EXCEPT !.initialized = e.initialized, !.muted = e.muted]
  ELSE e
-----------------------------------------------------------------------------
(* What the user does                                                       *)

initialize ==
  /\ engine' = [engine EXCEPT !.initialized = TRUE]
  /\ Settled
  /\ UNCHANGED view

\* destroyVoiceEngine(): the next call makes a new engine.
destroy ==
  /\ engine' = Fresh
  /\ Settled
  /\ UNCHANGED view

Joined(e, c) == [e EXCEPT !.room = c, !.private = FALSE, !.conn = "CONNECTED", !.audio = TRUE]

\* Mutant of joinRoom: what was there is not left first.
joinRoomOver(c) ==
  /\ engine' = IF engine.initialized THEN Joined(engine, c) ELSE engine
  /\ view' = [view EXCEPT !.inVoice = TRUE, !.room = c, !.peer = None, !.private = FALSE]
  /\ Settled

joinRoom(c) ==
  /\ engine' = IF engine.initialized THEN Joined(Left(engine), c) ELSE engine
  /\ view' = [view EXCEPT !.inVoice = TRUE, !.room = c, !.peer = None, !.private = FALSE]
  /\ Settled

leaveRoom ==
  /\ engine' = Left(engine)
  /\ view' = NoVoice
  /\ Settled

call(p) ==
  /\ engine' = IF engine.initialized /\ ~InRoom(engine)
               THEN [engine EXCEPT !.peer = p, !.private = TRUE, !.call = "CALLING",
                                   !.conn = "CONNECTING", !.peers = @ \cup {p}, !.audio = TRUE]
               ELSE engine
  /\ view' = [view EXCEPT !.inVoice = TRUE, !.room = None, !.peer = p, !.private = TRUE]
  /\ Settled

acceptCall ==
  /\ engine' = IF engine.call = "RINGING"
               THEN [engine EXCEPT !.call = "CONNECTED", !.conn = "CONNECTED", !.audio = TRUE]
               ELSE engine
  /\ view' = [view EXCEPT !.private = TRUE]
  /\ Settled

\* The room stays what the request said.
declineCall ==
  /\ engine' = IF engine.call = "RINGING"
               THEN [engine EXCEPT !.call = "IDLE", !.peer = None]
               ELSE engine
  /\ view' = [view EXCEPT !.private = FALSE, !.peer = None]
  /\ Settled

hangup ==
  /\ engine' = IF engine.call = "IDLE" THEN engine ELSE Left(engine)
  /\ view' = [view EXCEPT !.private = FALSE, !.peer = None]
  /\ Settled

\* Of the device, which there is from initialize() on; leaving resets the view only.
toggleMute ==
  /\ view' = [view EXCEPT !.muted = ~@]
  /\ engine' = IF engine.initialized THEN [engine EXCEPT !.muted = ~view.muted] ELSE engine
  /\ Settled
-----------------------------------------------------------------------------
(* Signals from a user p                                                    *)

Signal(e) == /\ engine.initialized
             /\ engine' = e
             /\ UNCHANGED view

handleOffer(p) ==
  /\ Signal([engine EXCEPT !.peers = @ \cup {p}, !.peer = p, !.conn = "CONNECTING"])
  /\ Settled

handleBye(p) ==
  LET e == [engine EXCEPT !.peers = @ \ {p}]
  IN  /\ Signal(IF e.private /\ p = e.peer THEN Left(e) ELSE e)
      /\ Settled

\* c is None when the request names no channel. A call that is held, made or
\* rings already is overwritten.
handleCallRequest(p, c) ==
  /\ Signal([engine EXCEPT !.peer = p, !.room = c, !.private = TRUE, !.call = "RINGING"])
  /\ Settled

\* Nothing tells whether there is a call to answer, and the user who answers is
\* not compared with the other end.
Answered == stray' = IF engine.peer = None THEN TRUE ELSE stray

handleAnswer(p) ==
  /\ p \in engine.peers
  /\ Signal([engine EXCEPT !.conn = "CONNECTED", !.call = "CONNECTED"])
  /\ Answered

handleCallAccept(p) ==
  /\ Signal([engine EXCEPT !.call = "CONNECTED"])
  /\ Answered

\* Mutant of handleCallDecline: the call goes on ringing out.
handleCallDeclineCalling(p) ==
  /\ Signal([engine EXCEPT !.peer = None, !.room = None])
  /\ Settled

\* Neither the connection nor the audio is touched.
handleCallDecline(p) ==
  /\ Signal([engine EXCEPT !.call = "IDLE", !.peer = None, !.room = None])
  /\ Settled
-----------------------------------------------------------------------------
Next ==
  \/ initialize \/ destroy \/ leaveRoom \/ acceptCall \/ declineCall \/ hangup \/ toggleMute
  \/ \E c \in Channels : joinRoom(c)
  \/ \E p \in Peers : \/ call(p)
                      \/ handleOffer(p) \/ handleAnswer(p) \/ handleBye(p)
                      \/ handleCallAccept(p) \/ handleCallDecline(p)
                      \/ \E c \in Channels \cup {None} : handleCallRequest(p, c)

Spec == Init /\ [][Next]_vars
-----------------------------------------------------------------------------
\* The types of the two records.
TypeOK ==
  /\ engine \in [initialized : BOOLEAN, room : Channels \cup {None}, peer : Peers \cup {None},
                 private : BOOLEAN, call : CallState, conn : ConnectionState,
                 audio : BOOLEAN, muted : BOOLEAN, peers : SUBSET Peers]
  /\ view \in [inVoice : BOOLEAN, room : Channels \cup {None}, peer : Peers \cup {None},
               private : BOOLEAN, muted : BOOLEAN]
  /\ stray \in BOOLEAN

\* A call that rings, is made or is held has somebody at its other end, whatever
\* rooms, offers, hang-ups, other calls and answers of other users came in
\* between: declineCall and handleBye rely on it. The one exception: an answer
\* that comes when nobody is there, after the call was over, makes a call with
\* nobody, until somebody calls or that is over too (handleCallAccept looks at no
\* state).
CallHasPeer == ~stray /\ engine.call # "IDLE" => engine.peer # None

\* What ends a call ends it whole, whatever was there before: a call that was
\* made, held or rang, an offer, a request that was declined and left its channel
\* and its mark behind. "Hang up the current call" leaves neither call nor open
\* microphone, though hangup() relies on isInRoom(), which knows nothing of the
\* call; "Already in a room, leaving first" leaves nothing but the room. A call
\* that was made by an answer to nobody is not hung up, as it is in no room.
CallsEnd ==
  [][/\ hangup /\ ~stray /\ engine.call # "IDLE" => engine'.call = "IDLE" /\ ~engine'.audio
     /\ \A c \in Channels : joinRoom(c) /\ ~stray /\ engine.initialized =>
          engine'.call = "IDLE" /\ engine'.peer = None /\ ~engine'.private /\ engine'.room = c]_vars
=============================================================================
