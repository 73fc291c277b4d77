--------------------------- MODULE DirectMessages ---------------------------
(***************************************************************************)
(* One-to-one messages: sendDmMessage and handleKeyBundle of               *)
(* IrcordConnectionManager.kt over encrypt, onKeyBundle and decrypt of the *)
(* native engine.                                                          *)
(*                                                                         *)
(* A peer we have no Signal session with costs a round trip: the plaintext *)
(* waits in pendingSends, one slot per peer, for the KEY_BUNDLE that       *)
(* answers a KEY_REQUEST. Every send and every bundle runs in a coroutine  *)
(* of its own on Dispatchers.Default (an element of Tasks), and nothing    *)
(* orders them. The server (external) answers a KEY_REQUEST with a bundle  *)
(* or with an error, which the app only logs; a bundle may be useless, and *)
(* when start() ran twice each bundle is handled by two collectors.        *)
(***************************************************************************)
EXTENDS Naturals, FiniteSets

CONSTANTS Peers, Messages, None,
          Tasks,         \* coroutines (bound: how many at once)
          MaxDrops,      \* bound: connections lost
          MaxEchoes,     \* bound: bundles a second collector handles again
          PeersInitiate  \* whether a peer may write to us first

ASSUME NoneAssumption == None \notin Peers \cup Messages
ASSUME MaxDropsAssumption == MaxDrops \in Nat
ASSUME MaxEchoesAssumption == MaxEchoes \in Nat
ASSUME PeersInitiateAssumption == PeersInitiate \in BOOLEAN

VARIABLES
  session,          \* peers with a session record in the store
  pendingSends,     \* peer -> plaintext, or None
  pc, peer, text,   \* per task: program counter, its peer, the plaintext it holds
  requests,         \* peer -> KEY_REQUESTs on their way to the server
  bundles,          \* peer -> KEY_BUNDLEs on their way back
  inbound,          \* peers whose first (pre-key) message is on its way to us
  submitted, sent,  \* messages the user wrote; how often each went out
  drops,
  echoes,
  spoilt,           \* peers whose last answer brought no keys (history)
  replaced          \* messages another one pushed out of its slot (history)

taskVars == <<pc, peer, text>>
netVars == <<requests, bundles, inbound>>
history == <<spoilt, replaced>>
counts == <<drops, echoes>>
vars == <<session, pendingSends, taskVars, netVars, submitted, sent, counts, history>>

PC == {"idle", "encrypt", "queue", "request", "chat", "bundle", "flush"}

Init ==
  /\ session = {}
  /\ pendingSends = [p \in Peers |-> None]
  /\ pc = [t \in Tasks |-> "idle"]
  /\ peer = [t \in Tasks |-> None]
  /\ text = [t \in Tasks |-> None]
  /\ requests = [p \in Peers |-> 0]
  /\ bundles = [p \in Peers |-> 0]
  /\ inbound = {}
  /\ submitted = {}
  /\ sent = [m \in Messages |-> 0]
  /\ drops = 0
  /\ echoes = 0
  /\ spoilt = {}
  /\ replaced = {}

Goto(t, l) == pc' = [pc EXCEPT ![t] = l]
Finish(t) == /\ Goto(t, "idle")
             /\ peer' = [peer EXCEPT ![t] = None]
             /\ text' = [text EXCEPT ![t] = None]
-----------------------------------------------------------------------------
(* Sending                                                                  *)

sendChat(t, p, m) ==
  /\ pc[t] = "idle"
  /\ m \notin submitted
  /\ submitted' = submitted \cup {m}
  /\ Goto(t, "encrypt")
  /\ peer' = [peer EXCEPT ![t] = p]
  /\ text' = [text EXCEPT ![t] = m]
  /\ UNCHANGED <<session, pendingSends, netVars, sent, counts, history>>

\* NativeCrypto.encrypt: null without a session record.
Encrypt(t) ==
  /\ pc[t] = "encrypt"
  /\ Goto(t, IF peer[t] \in session THEN "chat" ELSE "queue")
  /\ UNCHANGED <<session, pendingSends, peer, text, netVars, submitted, sent, counts, history>>

\* Mutant of Queue: key and value of the map are swapped.
QueueSwapped(t) ==
  /\ pc[t] = "queue"
  /\ pendingSends' = [pendingSends EXCEPT ![peer[t]] = peer[t]]
  /\ text' = [text EXCEPT ![t] = None]
  /\ Goto(t, "request")
  /\ UNCHANGED <<session, peer, netVars, submitted, sent, counts, history>>

\* What waits for the same peer is replaced.
Queue(t) ==
  /\ pc[t] = "queue"
  /\ replaced' = replaced \cup ({pendingSends[peer[t]]} \ {None})
  /\ pendingSends' = [pendingSends EXCEPT ![peer[t]] = text[t]]
  /\ text' = [text EXCEPT ![t] = None]
  /\ Goto(t, "request")
  /\ UNCHANGED <<session, peer, netVars, submitted, sent, counts, spoilt>>

RequestKeys(t) ==
  /\ pc[t] = "request"
  /\ requests' = [requests EXCEPT ![peer[t]] = @ + 1]
  /\ spoilt' = spoilt \ {peer[t]}
  /\ Finish(t)
  /\ UNCHANGED <<session, pendingSends, bundles, inbound, submitted, sent, counts, replaced>>

SendCiphertext(t) ==
  /\ pc[t] = "chat"
  /\ sent' = [sent EXCEPT ![text[t]] = @ + 1]
  /\ Finish(t)
  /\ UNCHANGED <<session, pendingSends, netVars, submitted, counts, history>>

\* The connection is down: send() returns false and nobody looks at it.
SendInVain(t) ==
  /\ drops < MaxDrops
  /\ pc[t] \in {"request", "chat"}
  /\ Finish(t)
  /\ drops' = drops + 1
  /\ UNCHANGED <<session, pendingSends, netVars, submitted, sent, echoes, history>>
-----------------------------------------------------------------------------
(* Receiving                                                                *)

ServerAnswers(p) ==
  /\ requests[p] > 0
  /\ requests' = [requests EXCEPT ![p] = @ - 1]
  /\ bundles' = [bundles EXCEPT ![p] = @ + 1]
  /\ UNCHANGED <<session, pendingSends, taskVars, inbound, submitted, sent, counts, history>>

\* An error (a rate limit, say) in the place of the bundle: handleError logs
\* it, and what waits for p is not told.
ServerRefuses(p) ==
  /\ requests[p] > 0
  /\ requests' = [requests EXCEPT ![p] = @ - 1]
  /\ spoilt' = spoilt \cup {p}
  /\ UNCHANGED <<session, pendingSends, taskVars, bundles, inbound, submitted, sent, counts,
                 replaced>>

\* Two collectors see the frame of a bundle, and each launches a handler.
SecondCollector(p) ==
  /\ bundles[p] > 0
  /\ echoes < MaxEchoes
  /\ echoes' = echoes + 1
  /\ bundles' = [bundles EXCEPT ![p] = @ + 1]
  /\ UNCHANGED <<session, pendingSends, taskVars, requests, inbound, submitted, sent, drops,
                 history>>

handleKeyBundle(t, p) ==
  /\ bundles[p] > 0
  /\ pc[t] = "idle"
  /\ bundles' = [bundles EXCEPT ![p] = @ - 1]
  /\ Goto(t, "bundle")
  /\ peer' = [peer EXCEPT ![t] = p]
  /\ UNCHANGED <<session, pendingSends, text, requests, inbound, submitted, sent, counts, history>>

\* CryptoEngine::onKeyBundle creates a session builder and frees it again:
\* processing the bundle is a TODO, and no session comes of it.
OnKeyBundle(t) ==
  /\ pc[t] = "bundle"
  /\ Goto(t, "flush")
  /\ UNCHANGED <<session, pendingSends, peer, text, netVars, submitted, sent, counts, history>>

\* The bundle names no recipient_for, or an exception ends its handling.
UselessBundle(t) ==
  /\ pc[t] = "bundle"
  /\ spoilt' = spoilt \cup {peer[t]}
  /\ Finish(t)
  /\ UNCHANGED <<session, pendingSends, netVars, submitted, sent, counts, replaced>>

\* Mutant of Flush: get() in the place of remove().
FlushKeeps(t) ==
  /\ pc[t] = "flush"
  /\ IF pendingSends[peer[t]] = None
     THEN Finish(t)
     ELSE /\ text' = [text EXCEPT ![t] = pendingSends[peer[t]]]
          /\ Goto(t, "encrypt")
          /\ UNCHANGED peer
  /\ UNCHANGED <<session, pendingSends, netVars, submitted, sent, counts, history>>

\* Mutant of Flush: tries once, and not again if there is no session yet.
FlushOnce(t) ==
  /\ pc[t] = "flush"
  /\ IF pendingSends[peer[t]] = None \/ peer[t] \notin session
     THEN Finish(t) /\ UNCHANGED pendingSends
     ELSE /\ text' = [text EXCEPT ![t] = pendingSends[peer[t]]]
          /\ pendingSends' = [pendingSends EXCEPT ![peer[t]] = None]
          /\ Goto(t, "encrypt")
          /\ UNCHANGED peer
  /\ UNCHANGED <<session, netVars, submitted, sent, counts, history>>

\* pendingSends.remove(), and sendDmMessage once more.
Flush(t) ==
  /\ pc[t] = "flush"
  /\ IF pendingSends[peer[t]] = None
     THEN Finish(t) /\ UNCHANGED pendingSends
     ELSE /\ text' = [text EXCEPT ![t] = pendingSends[peer[t]]]
          /\ pendingSends' = [pendingSends EXCEPT ![peer[t]] = None]
          /\ Goto(t, "encrypt")
          /\ UNCHANGED peer
  /\ UNCHANGED <<session, netVars, submitted, sent, counts, history>>

\* A peer writes first (external).
PeerWrites(p) ==
  /\ PeersInitiate
  /\ p \notin session
  /\ inbound' = inbound \cup {p}
  /\ UNCHANGED <<session, pendingSends, taskVars, requests, bundles, submitted, sent, counts, history>>

\* decrypt() of a pre-key message: libsignal stores the session it builds.
Decrypt(p) ==
  /\ p \in inbound
  /\ inbound' = inbound \ {p}
  /\ session' = session \cup {p}
  /\ UNCHANGED <<pendingSends, taskVars, requests, bundles, submitted, sent, counts, history>>

\* The connection is lost with all that was on its way.
LinkDown ==
  /\ drops < MaxDrops
  /\ drops' = drops + 1
  /\ requests' = [p \in Peers |-> 0]
  /\ bundles' = [p \in Peers |-> 0]
  /\ inbound' = {}
  /\ UNCHANGED <<session, pendingSends, taskVars, submitted, sent, echoes, history>>
-----------------------------------------------------------------------------
SendStep(t) == Encrypt(t) \/ Queue(t) \/ RequestKeys(t) \/ SendCiphertext(t)
BundleStep(t) == OnKeyBundle(t) \/ UselessBundle(t) \/ Flush(t)
Answer(p) == ServerAnswers(p) \/ ServerRefuses(p)
Receive(p) == \E t \in Tasks : handleKeyBundle(t, p)

Next ==
  \/ \E t \in Tasks : \/ \E p \in Peers, m \in Messages : sendChat(t, p, m)
                      \/ SendStep(t) \/ SendInVain(t) \/ BundleStep(t)
  \/ \E p \in Peers : \/ Answer(p) \/ SecondCollector(p) \/ Receive(p)
                      \/ PeerWrites(p) \/ Decrypt(p)
  \/ LinkDown

Spec == Init /\ [][Next]_vars

\* Coroutines run, and the server answers somehow; a frame that arrived is dispatched
\* even when other messages compete for a thread. Users, peers and the
\* network are free.
Fairness == /\ \A t \in Tasks : WF_vars(SendStep(t) \/ BundleStep(t))
            /\ \A p \in Peers : WF_vars(Answer(p)) /\ SF_vars(Receive(p))
                                /\ WF_vars(Decrypt(p))
FairSpec == Spec /\ Fairness
-----------------------------------------------------------------------------
\* The types of the slots, the coroutines and the frames on their way.
TypeOK ==
  /\ session \subseteq Peers
  /\ pendingSends \in [Peers -> Messages \cup {None}]
  /\ pc \in [Tasks -> PC]
  /\ peer \in [Tasks -> Peers \cup {None}]
  /\ text \in [Tasks -> Messages \cup {None}]
  /\ requests \in [Peers -> Nat]
  /\ bundles \in [Peers -> Nat]
  /\ inbound \subseteq Peers
  /\ submitted \subseteq Messages
  /\ sent \in [Messages -> Nat]
  /\ drops \in 0..MaxDrops
  /\ echoes \in 0..MaxEchoes
  /\ spoilt \subseteq Peers
  /\ replaced \subseteq Messages

\* However many bundles for one peer are handled at once, and whatever is
\* queued meanwhile, no message goes out twice.
AtMostOnce == \A m \in Messages : sent[m] <= 1

\* Keys for p have been asked for, and the answer has not been used up.
Asked(p) == \/ requests[p] > 0
            \/ bundles[p] > 0
            \/ \E t \in Tasks : peer[t] = p /\ pc[t] \in {"request", "bundle", "flush"}

\* A message that waits for keys waits for an answer that is still to come.
\* It is stranded only by a lost connection, or by an answer without keys
\* (an error, a useless bundle) to the last request for its peer.
WaitsForAnAnswer ==
  drops = 0 =>
    \A p \in Peers : pendingSends[p] # None => Asked(p) \/ p \in spoilt

\* A message that waits for a peer with whom there is a session by now does
\* go out, by the handler of a bundle that was asked for without one; unless
\* a later message to the peer takes its slot, an answer brings no keys, or
\* the connection is lost.
PendingDrains ==
  \A p \in Peers, m \in Messages :
    (drops = 0 /\ pendingSends[p] = m /\ p \in session)
      ~> (sent[m] > 0 \/ m \in replaced \/ p \in spoilt \/ drops > 0)
=============================================================================
