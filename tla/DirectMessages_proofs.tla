----------------------- MODULE DirectMessages_proofs -----------------------
(***************************************************************************)
(* AtMostOnce for any number of peers, messages and coroutines. Its        *)
(* strengthening says that a message is in one place: in the hands of one  *)
(* task, or in one slot of pendingSends, or sent.                          *)
(***************************************************************************)
EXTENDS DirectMessages, TLAPS

USE NoneAssumption, MaxDropsAssumption, MaxEchoesAssumption, PeersInitiateAssumption

\* A running task has a peer, and one that sends has something to send.
TasksOK == \A t \in Tasks :
             /\ pc[t] # "idle" => peer[t] \in Peers
             /\ pc[t] \in {"encrypt", "queue", "chat"} => text[t] \in Messages
Shape == TypeOK /\ TasksOK

LEMMA StepShape == Shape /\ [Next]_vars => Shape'
<1> SUFFICES ASSUME Shape, [Next]_vars PROVE Shape'
  OBVIOUS
<1> USE DEF Shape, TypeOK, TasksOK, PC, taskVars, netVars, counts, history, Goto, Finish
<1>1. ASSUME NEW t \in Tasks, NEW p \in Peers, NEW m \in Messages, sendChat(t, p, m)
      PROVE  Shape'
  BY <1>1 DEF sendChat
<1>2. ASSUME NEW t \in Tasks, SendStep(t) PROVE Shape'
  <2>1. CASE Encrypt(t) BY <2>1 DEF Encrypt
  <2>2. CASE Queue(t) BY <2>2 DEF Queue
  <2>3. CASE RequestKeys(t) BY <2>3 DEF RequestKeys
  <2>4. CASE SendCiphertext(t) BY <2>4 DEF SendCiphertext
  <2> QED BY <1>2, <2>1, <2>2, <2>3, <2>4 DEF SendStep
<1>3. ASSUME NEW t \in Tasks, SendInVain(t) PROVE Shape'
  BY <1>3 DEF SendInVain
<1>4. ASSUME NEW t \in Tasks, BundleStep(t) PROVE Shape'
  <2>1. CASE OnKeyBundle(t) BY <2>1 DEF OnKeyBundle
  <2>2. CASE UselessBundle(t) BY <2>2 DEF UselessBundle
  <2>3. CASE Flush(t) BY <2>3 DEF Flush
  <2> QED BY <1>4, <2>1, <2>2, <2>3 DEF BundleStep
<1>5. ASSUME NEW p \in Peers, Answer(p) PROVE Shape'
  <2>1. CASE ServerAnswers(p) BY <2>1 DEF ServerAnswers
  <2>2. CASE ServerRefuses(p) BY <2>2 DEF ServerRefuses
  <2> QED BY <1>5, <2>1, <2>2 DEF Answer
<1>6. ASSUME NEW p \in Peers, NEW t \in Tasks, handleKeyBundle(t, p) PROVE Shape'
  BY <1>6 DEF handleKeyBundle
<1>7. ASSUME NEW p \in Peers, PeerWrites(p) PROVE Shape'
  BY <1>7 DEF PeerWrites
<1>8. ASSUME NEW p \in Peers, Decrypt(p) PROVE Shape'
  BY <1>8 DEF Decrypt
<1>9. CASE LinkDown
  BY <1>9 DEF LinkDown
<1>10. CASE UNCHANGED vars
  BY <1>10 DEF vars
<1>11. ASSUME NEW p \in Peers, SecondCollector(p) PROVE Shape'
  BY <1>11 DEF SecondCollector
<1> QED
  BY <1>1, <1>2, <1>3, <1>4, <1>5, <1>6, <1>7, <1>8, <1>9, <1>10, <1>11 DEF Next, Receive

LEMMA ShapeInvariant == Spec => []Shape
<1>1. Init => Shape
  BY DEF Init, Shape, TypeOK, TasksOK, PC
<1> QED
  BY <1>1, StepShape, PTL DEF Spec

\* The state of the direct-message path is well formed.
THEOREM TypeCorrect == Spec => []TypeOK
<1>1. Shape => TypeOK
  BY DEF Shape
<1> QED
  BY <1>1, ShapeInvariant, PTL
-----------------------------------------------------------------------------
\* Whatever is held or waits was submitted and has not been sent.
Unsent(m) == m = None \/ (m \in submitted /\ sent[m] = 0)

OnePlace ==
  /\ \A t, u \in Tasks : text[t] = text[u] /\ text[t] # None => t = u
  /\ \A p, q \in Peers : pendingSends[p] = pendingSends[q] /\ pendingSends[p] # None => p = q
  /\ \A t \in Tasks, p \in Peers : text[t] = pendingSends[p] => text[t] = None
  /\ \A t \in Tasks : Unsent(text[t])
  /\ \A p \in Peers : Unsent(pendingSends[p])
  /\ \A m \in Messages : m \notin submitted => sent[m] = 0
  /\ AtMostOnce

LEMMA StepOnePlace == Shape /\ OnePlace /\ [Next]_vars => OnePlace'
<1> SUFFICES ASSUME Shape, OnePlace, [Next]_vars PROVE OnePlace'
  OBVIOUS
<1> USE DEF Shape, TypeOK, TasksOK, OnePlace, Unsent, AtMostOnce, taskVars, netVars, counts, history, Goto, Finish
<1>1. ASSUME NEW t \in Tasks, NEW p \in Peers, NEW m \in Messages, sendChat(t, p, m)
      PROVE  OnePlace'
  BY <1>1 DEF sendChat
<1>2. ASSUME NEW t \in Tasks, SendStep(t) PROVE OnePlace'
  <2>1. CASE Encrypt(t) BY <2>1 DEF Encrypt
  <2>2. CASE Queue(t) BY <2>2 DEF Queue
  <2>3. CASE RequestKeys(t) BY <2>3 DEF RequestKeys
  <2>4. CASE SendCiphertext(t) BY <2>4 DEF SendCiphertext
  <2> QED BY <1>2, <2>1, <2>2, <2>3, <2>4 DEF SendStep
<1>3. ASSUME NEW t \in Tasks, SendInVain(t) PROVE OnePlace'
  BY <1>3 DEF SendInVain
<1>4. ASSUME NEW t \in Tasks, BundleStep(t) PROVE OnePlace'
  <2>1. CASE OnKeyBundle(t) BY <2>1 DEF OnKeyBundle
  <2>2. CASE UselessBundle(t) BY <2>2 DEF UselessBundle
  <2>3. CASE Flush(t) BY <2>3 DEF Flush
  <2> QED BY <1>4, <2>1, <2>2, <2>3 DEF BundleStep
<1>5. ASSUME NEW p \in Peers, Answer(p) PROVE OnePlace'
  <2>1. CASE ServerAnswers(p) BY <2>1 DEF ServerAnswers
  <2>2. CASE ServerRefuses(p) BY <2>2 DEF ServerRefuses
  <2> QED BY <1>5, <2>1, <2>2 DEF Answer
<1>6. ASSUME NEW p \in Peers, NEW t \in Tasks, handleKeyBundle(t, p) PROVE OnePlace'
  BY <1>6 DEF handleKeyBundle
<1>7. ASSUME NEW p \in Peers, PeerWrites(p) PROVE OnePlace'
  BY <1>7 DEF PeerWrites
<1>8. ASSUME NEW p \in Peers, Decrypt(p) PROVE OnePlace'
  BY <1>8 DEF Decrypt
<1>9. CASE LinkDown
  BY <1>9 DEF LinkDown
<1>10. CASE UNCHANGED vars
  BY <1>10 DEF vars
<1>11. ASSUME NEW p \in Peers, SecondCollector(p) PROVE OnePlace'
  BY <1>11 DEF SecondCollector
<1> QED
  BY <1>1, <1>2, <1>3, <1>4, <1>5, <1>6, <1>7, <1>8, <1>9, <1>10, <1>11 DEF Next, Receive

\* No interleaving of sends and key bundles sends a message twice.
THEOREM SentAtMostOnce == Spec => []AtMostOnce
<1>1. Init => OnePlace
  BY DEF Init, OnePlace, Unsent, AtMostOnce
<1>2. OnePlace => AtMostOnce
  BY DEF OnePlace
<1> QED
  BY <1>1, <1>2, ShapeInvariant, StepOnePlace, PTL DEF Spec
-----------------------------------------------------------------------------
\* An answer for p is to come, or the last one brought no keys.
Covered(p) == Asked(p) \/ p \in spoilt

LEMMA StepWaits == Shape /\ WaitsForAnAnswer /\ [Next]_vars => WaitsForAnAnswer'
<1> SUFFICES ASSUME Shape, WaitsForAnAnswer, [Next]_vars,
                    drops' = 0, NEW p \in Peers, pendingSends'[p] # None
             PROVE  Covered(p)'
  BY DEF WaitsForAnAnswer, Covered
<1> USE DEF Shape, TypeOK, TasksOK, Covered, Asked, taskVars, netVars, counts, history, Goto, Finish
<1>0. drops = 0 /\ pendingSends[p] # None => Covered(p)
  BY DEF WaitsForAnAnswer
<1>1. ASSUME NEW t \in Tasks, NEW q \in Peers, NEW m \in Messages, sendChat(t, q, m)
      PROVE  Covered(p)'
  BY <1>0, <1>1 DEF sendChat
<1>2. ASSUME NEW t \in Tasks, SendStep(t) PROVE Covered(p)'
  <2>1. CASE Encrypt(t) BY <1>0, <2>1 DEF Encrypt
  <2>2. CASE Queue(t) BY <1>0, <2>2 DEF Queue
  <2>3. CASE RequestKeys(t) BY <1>0, <2>3 DEF RequestKeys
  <2>4. CASE SendCiphertext(t) BY <1>0, <2>4 DEF SendCiphertext
  <2> QED BY <1>2, <2>1, <2>2, <2>3, <2>4 DEF SendStep
<1>3. ASSUME NEW t \in Tasks, SendInVain(t) PROVE FALSE
  BY <1>3 DEF SendInVain
<1>4. ASSUME NEW t \in Tasks, BundleStep(t) PROVE Covered(p)'
  <2>1. CASE OnKeyBundle(t) BY <1>0, <2>1 DEF OnKeyBundle
  <2>2. CASE UselessBundle(t) BY <1>0, <2>2 DEF UselessBundle
  <2>3. CASE Flush(t) BY <1>0, <2>3 DEF Flush
  <2> QED BY <1>4, <2>1, <2>2, <2>3 DEF BundleStep
<1>5. ASSUME NEW q \in Peers, Answer(q) PROVE Covered(p)'
  <2>1. CASE ServerAnswers(q) BY <1>0, <2>1 DEF ServerAnswers
  <2>2. CASE ServerRefuses(q) BY <1>0, <2>2 DEF ServerRefuses
  <2> QED BY <1>5, <2>1, <2>2 DEF Answer
<1>6. ASSUME NEW q \in Peers, NEW t \in Tasks, handleKeyBundle(t, q) PROVE Covered(p)'
  BY <1>0, <1>6 DEF handleKeyBundle
<1>7. ASSUME NEW q \in Peers, PeerWrites(q) PROVE Covered(p)'
  BY <1>0, <1>7 DEF PeerWrites
<1>8. ASSUME NEW q \in Peers, Decrypt(q) PROVE Covered(p)'
  BY <1>0, <1>8 DEF Decrypt
<1>9. ~LinkDown
  BY DEF LinkDown
<1>10. CASE UNCHANGED vars
  BY <1>0, <1>10 DEF vars
<1>11. ASSUME NEW q \in Peers, SecondCollector(q) PROVE Covered(p)'
  BY <1>0, <1>11 DEF SecondCollector
<1> QED
  BY <1>1, <1>2, <1>3, <1>4, <1>5, <1>6, <1>7, <1>8, <1>9, <1>10, <1>11 DEF Next, Receive

\* While the connection holds, no queued message is stranded without a
\* request for the keys it waits for, unless the last answer brought none.
THEOREM NeverStranded == Spec => []WaitsForAnAnswer
<1>1. Init => WaitsForAnAnswer
  BY DEF Init, WaitsForAnAnswer
<1> QED
  BY <1>1, ShapeInvariant, StepWaits, PTL DEF Spec
=============================================================================
