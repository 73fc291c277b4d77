---------------------------- MODULE GroupMessages ----------------------------
(***************************************************************************)
(* Channel messages under sender keys: sendChannelMessage and              *)
(* decryptIncomingGroupMessage of IrcordConnectionManager.kt over          *)
(* encryptGroup and decryptGroup of the native engine, and the sender-key  *)
(* records of NativeStore.                                                 *)
(*                                                                         *)
(* One device writes to one channel, another one reads it. The first       *)
(* message of a process carries the distribution message (SKDM) of its     *)
(* sender key. What libsignal does between its load and its store of a     *)
(* record is external; the engine installs no locks in it, so coroutines   *)
(* interleave there. SharedPreferences.apply() changes memory at once and  *)
(* the disk later. The reader has a coroutine for each message, and when   *)
(* start() ran twice a second collector dispatches each message again.     *)
(***************************************************************************)
EXTENDS Naturals, Sequences, FiniteSets

CONSTANTS Messages, None,
          Tasks,       \* sending coroutines (bound: how many at once)
          Jobs,        \* receiving coroutines (bound: how many at once)
          MaxCrashes,  \* bound: ends of the sending process
          MaxDrops,    \* bound: losses of a connection
          LateJoin,    \* whether the reader may join after the first messages
          SecondCollector  \* whether start() of the reader ran twice

ASSUME NoneAssumption == None \notin Messages \cup [key : Nat, iter : Nat]
                                        \cup [iter : Nat, skipped : SUBSET Nat]
ASSUME FiniteAssumption == IsFiniteSet(Messages) /\ IsFiniteSet(Tasks)
ASSUME BoundsAssumption == MaxCrashes \in Nat /\ MaxDrops \in Nat
ASSUME JobsAssumption == Jobs # {}
ASSUME FlagsAssumption == LateJoin \in BOOLEAN /\ SecondCollector \in BOOLEAN

MaxKeys == Cardinality(Tasks) * (MaxCrashes + 1)  \* no more are ever generated
Keys == 1..MaxKeys
Iterations == 0..Cardinality(Messages)

VARIABLES
  mem, disk,         \* our sender-key record [key, iter], in memory and on disk
  initialized,       \* group_sessions_initialized_[channel]
  keys,              \* sender keys generated so far
  pc, msg, rec, skdm,  \* per task: its message, the record it loaded, its SKDM
  submitted,         \* messages the user wrote
  wire, read,        \* what the server relayed to the reader; how much it took
  member,            \* whether the reader is in the channel
  chain,             \* the reader's records: name of the channel -> key -> chain
  jpc, jmsg, jname, jrec,  \* per job: its message, the name it tries, its copy
  shown, failed,     \* messages shown, in order; messages reported unreadable
  crashes, drops,
  second,            \* how much a second collector of frames took
  overlapped         \* two coroutines read at once, or a message twice (history)

senderVars == <<mem, disk, initialized, keys, pc, msg, rec, skdm, submitted>>
readerVars == <<chain, jpc, jmsg, jname, jrec, shown, failed>>
boundVars == <<crashes, drops>>
raceVars == <<second, overlapped>>
vars == <<senderVars, wire, read, member, readerVars, boundVars, raceVars>>

Record == [key : Keys, iter : Iterations]
Packet == [id : Messages, key : Keys, iter : Iterations, skdm : Record \cup {None},
           life : 0..MaxCrashes]  \* life: which process sent it, for the properties
Chain == [iter : Iterations \cup {Cardinality(Messages) + 1}, skipped : SUBSET Iterations]

\* "#general" first, and then "general".
Names == {"hash", "bare"}

Init ==
  /\ mem = None /\ disk = None
  /\ initialized = FALSE
  /\ keys = 0
  /\ pc = [t \in Tasks |-> "idle"]
  /\ msg = [t \in Tasks |-> None]
  /\ rec = [t \in Tasks |-> None]
  /\ skdm = [t \in Tasks |-> None]
  /\ submitted = {}
  /\ wire = <<>> /\ read = 0
  /\ member = ~LateJoin
  /\ chain = [n \in Names |-> [k \in Keys |-> None]]
  /\ jpc = [j \in Jobs |-> "idle"]
  /\ jmsg = [j \in Jobs |-> None]
  /\ jname = [j \in Jobs |-> "hash"]
  /\ jrec = [j \in Jobs |-> None]
  /\ shown = <<>> /\ failed = {}
  /\ crashes = 0 /\ drops = 0
  /\ second = 0 /\ overlapped = FALSE
-----------------------------------------------------------------------------
(* The sender. Every step of a task leaves the reader alone.                *)

Goto(t, l) == pc' = [pc EXCEPT ![t] = l]

sendChannelMessage(t, m) ==
  /\ pc[t] = "idle"
  /\ m \notin submitted
  /\ submitted' = submitted \cup {m}
  /\ msg' = [msg EXCEPT ![t] = m]
  /\ Goto(t, "check")
  /\ UNCHANGED <<mem, disk, initialized, keys, rec, skdm, wire, read, member, readerVars, boundVars, raceVars>>

\* Mutant of CheckFirst: a stored record counts as a distributed one.
CheckStored(t) ==
  /\ pc[t] = "check"
  /\ Goto(t, IF initialized \/ mem # None THEN "load" ELSE "create")
  /\ UNCHANGED <<mem, disk, initialized, keys, msg, rec, skdm, submitted, wire, read, member, readerVars, boundVars, raceVars>>

\* is_first: whether this process has made the SKDM yet.
CheckFirst(t) ==
  /\ pc[t] = "check"
  /\ Goto(t, IF initialized THEN "load" ELSE "create")
  /\ UNCHANGED <<mem, disk, initialized, keys, msg, rec, skdm, submitted, wire, read, member, readerVars, boundVars, raceVars>>

\* group_session_builder_create_session: a stored record is used as it is.
CreateLoad(t) ==
  /\ pc[t] = "create"
  /\ IF mem = None
     THEN Goto(t, "generate") /\ UNCHANGED skdm
     ELSE Goto(t, "mark") /\ skdm' = [skdm EXCEPT ![t] = mem]
  /\ UNCHANGED <<mem, disk, initialized, keys, msg, rec, submitted, wire, read, member, readerVars, boundVars, raceVars>>

CreateStore(t) ==
  /\ pc[t] = "generate"
  /\ keys' = keys + 1
  /\ mem' = [key |-> keys + 1, iter |-> 0]
  /\ skdm' = [skdm EXCEPT ![t] = mem']
  /\ Goto(t, "mark")
  /\ UNCHANGED <<disk, initialized, msg, rec, submitted, wire, read, member, readerVars, boundVars, raceVars>>

MarkInitialized(t) ==
  /\ pc[t] = "mark"
  /\ initialized' = TRUE
  /\ Goto(t, "load")
  /\ UNCHANGED <<mem, disk, keys, msg, rec, skdm, submitted, wire, read, member, readerVars, boundVars, raceVars>>

\* group_cipher_encrypt: the key of one iteration, and the next one stored.
EncryptLoad(t) ==
  /\ pc[t] = "load"
  /\ rec' = [rec EXCEPT ![t] = mem]
  /\ Goto(t, "store")
  /\ UNCHANGED <<mem, disk, initialized, keys, msg, skdm, submitted, wire, read, member, readerVars, boundVars, raceVars>>

EncryptStore(t) ==
  /\ pc[t] = "store"
  /\ mem' = [rec[t] EXCEPT !.iter = @ + 1]
  /\ Goto(t, "send")
  /\ UNCHANGED <<disk, initialized, keys, msg, rec, skdm, submitted, wire, read, member, readerVars, boundVars, raceVars>>

Finish(t) ==
  /\ Goto(t, "idle")
  /\ msg' = [msg EXCEPT ![t] = None]
  /\ rec' = [rec EXCEPT ![t] = None]
  /\ skdm' = [skdm EXCEPT ![t] = None]

\* Mutant of packet: the SKDM is made after the message is encrypted.
packetLate(t) == [id |-> msg[t], key |-> rec[t].key, iter |-> rec[t].iter,
                  skdm |-> IF skdm[t] = None THEN None ELSE mem, life |-> crashes]

packet(t) == [id |-> msg[t], key |-> rec[t].key, iter |-> rec[t].iter, skdm |-> skdm[t],
              life |-> crashes]

\* The server relays it to the members of the channel (external).
SendPacket(t) ==
  /\ pc[t] = "send"
  /\ wire' = IF member THEN Append(wire, packet(t)) ELSE wire
  /\ Finish(t)
  /\ UNCHANGED <<mem, disk, initialized, keys, submitted, read, member, readerVars, boundVars, raceVars>>

\* sendEnvelope() returns false, which is logged; the SKDM is not made again.
SendInVain(t) ==
  /\ drops < MaxDrops
  /\ pc[t] = "send"
  /\ drops' = drops + 1
  /\ Finish(t)
  /\ UNCHANGED <<mem, disk, initialized, keys, submitted, wire, read, member, readerVars, crashes, raceVars>>

\* apply() reaches the disk.
Persist ==
  /\ disk # mem
  /\ disk' = mem
  /\ UNCHANGED <<mem, initialized, keys, pc, msg, rec, skdm, submitted, wire, read, member, readerVars, boundVars, raceVars>>

\* The sending process ends and starts again: the engine's map is empty, the
\* records are as old as the last write to the disk.
Crash ==
  /\ crashes < MaxCrashes
  /\ crashes' = crashes + 1
  /\ mem' = disk
  /\ initialized' = FALSE
  /\ pc' = [t \in Tasks |-> "idle"]
  /\ msg' = [t \in Tasks |-> None]
  /\ rec' = [t \in Tasks |-> None]
  /\ skdm' = [t \in Tasks |-> None]
  /\ UNCHANGED <<disk, keys, submitted, wire, read, member, readerVars, drops, raceVars>>
-----------------------------------------------------------------------------
(* The reader. Every step of a job leaves the sender alone.                 *)

JGoto(j, l) == jpc' = [jpc EXCEPT ![j] = l]
FirstStep(m) == IF m.skdm = None THEN "open" ELSE "learn"

Take(j, m) ==
  /\ jpc[j] = "idle"
  /\ jmsg' = [jmsg EXCEPT ![j] = m]
  /\ jname' = [jname EXCEPT ![j] = "hash"]
  /\ JGoto(j, FirstStep(m))

\* Some coroutine is at work on a message.
Reading == \E j \in Jobs : jpc[j] # "idle"

\* A coroutine for each message, launched in the order of the wire; nothing
\* makes it wait for those that were launched before.
handleIncomingChat(j) ==
  /\ read < Len(wire)
  /\ read' = read + 1
  /\ Take(j, wire[read + 1])
  /\ overlapped' = (overlapped \/ Reading)
  /\ UNCHANGED <<senderVars, wire, member, chain, jrec, shown, failed, boundVars, second>>

\* The collector of another start() comes to a message that one has dispatched.
handleAgain(j) ==
  /\ SecondCollector
  /\ second < read
  /\ second' = second + 1
  /\ Take(j, wire[second + 1])
  /\ overlapped' = TRUE
  /\ UNCHANGED <<senderVars, wire, read, member, chain, jrec, shown, failed, boundVars>>

\* process_sender_key_distribution
LearnLoad(j) ==
  /\ jpc[j] = "learn"
  /\ jrec' = [jrec EXCEPT ![j] = chain[jname[j]]]
  /\ JGoto(j, "learned")
  /\ UNCHANGED <<senderVars, wire, read, member, chain, jmsg, jname, shown, failed, boundVars, raceVars>>

\* Mutant of LearnStore: the SKDM itself is stored as the chain.
LearnStoreRaw(j) ==
  /\ jpc[j] = "learned"
  /\ LET s == jmsg[j].skdm
     IN chain' = [chain EXCEPT ![jname[j]] = [jrec[j] EXCEPT ![s.key] = s]]
  /\ JGoto(j, "open")
  /\ UNCHANGED <<senderVars, wire, read, member, jmsg, jname, jrec, shown, failed, boundVars, raceVars>>

\* Mutant of LearnStore: a chain that is known already is kept.
LearnStoreOnce(j) ==
  /\ jpc[j] = "learned"
  /\ LET s == jmsg[j].skdm
     IN chain' = IF jrec[j][s.key] # None THEN chain
                 ELSE [chain EXCEPT ![jname[j]] =
                         [jrec[j] EXCEPT ![s.key] = [iter |-> s.iter, skipped |-> {}]]]
  /\ JGoto(j, "open")
  /\ UNCHANGED <<senderVars, wire, read, member, jmsg, jname, jrec, shown, failed, boundVars, raceVars>>

LearnStore(j) ==
  /\ jpc[j] = "learned"
  /\ LET s == jmsg[j].skdm
     IN chain' = [chain EXCEPT ![jname[j]] =
                    [jrec[j] EXCEPT ![s.key] = [iter |-> s.iter, skipped |-> {}]]]
  /\ JGoto(j, "open")
  /\ UNCHANGED <<senderVars, wire, read, member, jmsg, jname, jrec, shown, failed, boundVars, raceVars>>

\* group_cipher_decrypt: the chain moves past the iteration of the message,
\* and the keys it skips are kept. What cannot be read changes nothing.
Readable(c, i) == c # None /\ (i >= c.iter \/ i \in c.skipped)
Advance(c, i) == IF i >= c.iter
                 THEN [iter |-> i + 1, skipped |-> c.skipped \cup (c.iter..(i - 1))]
                 ELSE [c EXCEPT !.skipped = @ \ {i}]

DecryptLoad(j) ==
  /\ jpc[j] = "open"
  /\ jrec' = [jrec EXCEPT ![j] = chain[jname[j]]]
  /\ JGoto(j, "opened")
  /\ UNCHANGED <<senderVars, wire, read, member, chain, jmsg, jname, shown, failed, boundVars, raceVars>>

JFinish(j) ==
  /\ JGoto(j, "idle")
  /\ jmsg' = [jmsg EXCEPT ![j] = None]
  /\ jrec' = [jrec EXCEPT ![j] = None]
  /\ jname' = [jname EXCEPT ![j] = "hash"]

DecryptStore(j) ==
  LET m == jmsg[j] IN
  /\ jpc[j] = "opened"
  /\ Readable(jrec[j][m.key], m.iter)
  /\ chain' = [chain EXCEPT ![jname[j]] =
                 [jrec[j] EXCEPT ![m.key] = Advance(@, m.iter)]]
  /\ shown' = Append(shown, m.id)
  /\ JFinish(j)
  /\ UNCHANGED <<senderVars, wire, read, member, failed, boundVars, raceVars>>

\* Mutant of DecryptFails: nothing is stored for what cannot be read.
DecryptFailsQuietly(j) ==
  LET m == jmsg[j] IN
  /\ jpc[j] = "opened"
  /\ ~Readable(jrec[j][m.key], m.iter)
  /\ IF jname[j] = "hash"
     THEN /\ jname' = [jname EXCEPT ![j] = "bare"]
          /\ JGoto(j, FirstStep(m))
          /\ UNCHANGED <<jmsg, jrec>>
     ELSE JFinish(j)
  /\ UNCHANGED <<senderVars, wire, read, member, chain, shown, failed, boundVars, raceVars>>

\* Another name of the channel is tried; then persistGroupDecryptFailure.
DecryptFails(j) ==
  LET m == jmsg[j] IN
  /\ jpc[j] = "opened"
  /\ ~Readable(jrec[j][m.key], m.iter)
  /\ IF jname[j] = "hash"
     THEN /\ jname' = [jname EXCEPT ![j] = "bare"]
          /\ JGoto(j, FirstStep(m))
          /\ UNCHANGED <<jmsg, jrec, failed>>
     ELSE JFinish(j) /\ failed' = failed \cup {m.id}
  /\ UNCHANGED <<senderVars, wire, read, member, chain, shown, boundVars, raceVars>>

\* The connection of the reader is lost with what was on its way.
LinkDown ==
  /\ drops < MaxDrops
  /\ drops' = drops + 1
  /\ wire' = SubSeq(wire, 1, read)
  /\ UNCHANGED <<senderVars, read, member, readerVars, crashes, raceVars>>

Join ==
  /\ ~member
  /\ member' = TRUE
  /\ UNCHANGED <<senderVars, wire, read, readerVars, boundVars, raceVars>>
-----------------------------------------------------------------------------
SendStep(t) ==
  \/ CheckFirst(t) \/ CreateLoad(t) \/ CreateStore(t) \/ MarkInitialized(t)
  \/ EncryptLoad(t) \/ EncryptStore(t) \/ SendPacket(t)
ReadStep(j) ==
  \/ handleIncomingChat(j) \/ handleAgain(j) \/ LearnLoad(j) \/ LearnStore(j)
  \/ DecryptLoad(j) \/ DecryptStore(j) \/ DecryptFails(j)

Next ==
  \/ \E t \in Tasks : \/ \E m \in Messages : sendChannelMessage(t, m)
                      \/ SendStep(t) \/ SendInVain(t)
  \/ \E j \in Jobs : ReadStep(j)
  \/ Persist \/ Crash \/ LinkDown \/ Join

Spec == Init /\ [][Next]_vars

\* Coroutines run. Users, the network and the end of a process are free.
Fairness == /\ \A t \in Tasks : WF_vars(SendStep(t))
            /\ \A j \in Jobs : WF_vars(ReadStep(j))
FairSpec == Spec /\ Fairness
-----------------------------------------------------------------------------
\* The two ends, the wire, and the bounds.
EndsOK ==
  /\ mem \in Record \cup {None} /\ disk \in Record \cup {None}
  /\ initialized \in BOOLEAN
  /\ keys \in 0..MaxKeys
  /\ pc \in [Tasks -> {"idle", "check", "create", "generate", "mark", "load", "store", "send"}]
  /\ msg \in [Tasks -> Messages \cup {None}]
  /\ rec \in [Tasks -> Record \cup {None}]
  /\ skdm \in [Tasks -> Record \cup {None}]
  /\ submitted \subseteq Messages
  /\ wire \in Seq(Packet)
  /\ read \in 0..Len(wire)
  /\ member \in BOOLEAN
  /\ chain \in [Names -> [Keys -> Chain \cup {None}]]
  /\ jpc \in [Jobs -> {"idle", "learn", "learned", "open", "opened"}]
  /\ jmsg \in [Jobs -> Packet \cup {None}]
  /\ jname \in [Jobs -> Names]
  /\ jrec \in [Jobs -> [Keys -> Chain \cup {None}] \cup {None}]
  /\ shown \in Seq(Messages)
  /\ failed \subseteq Messages
  /\ crashes \in 0..MaxCrashes /\ drops \in 0..MaxDrops

\* The state is well formed; a second collector is behind the first.
TypeOK == EndsOK /\ second \in 0..read /\ overlapped \in BOOLEAN

\* Packet d brings the key that opens packet i.
Opens(d, i) == /\ wire[d].life = wire[i].life
               /\ wire[d].skdm # None
               /\ wire[d].skdm.key = wire[i].key
               /\ wire[d].skdm.iter <= wire[i].iter

\* The key of a message is on the wire no later than the message, at an
\* iteration from which the reader can reach it, whatever a restart rolled back.
KeyBeforeUse == \A i \in DOMAIN wire : \E d \in 1..i : Opens(d, i)

\* Two coroutines loaded one record and encrypted with one key.
SharesKey(i) == \E k \in DOMAIN wire \ {i} : /\ wire[k].life = wire[i].life
                                            /\ wire[k].key = wire[i].key
                                            /\ wire[k].iter = wire[i].iter

\* The last SKDM of its key that reached the reader before message i opens it.
HasKey(i) == \E d \in 1..i :
               /\ Opens(d, i)
               /\ \A e \in (d + 1)..i : wire[e].skdm = None \/ wire[e].skdm.key # wire[i].key

\* Losses, late joins and two senders at once hide a message only by hiding
\* its key, by moving past it, or by using it twice: what a process sends
\* after its key arrived can be read, though another process of the same
\* sender, rolled back, may have used the same key before. The code keeps this
\* only until two coroutines of the reader have overlapped: one may then store
\* its copy of the chains over what the other learnt.
OnlyForWantOfKey ==
  ~overlapped =>
    \A i \in DOMAIN wire : wire[i].id \in failed => SharesKey(i) \/ ~HasKey(i)

Ids == [i \in DOMAIN wire |-> wire[i].id]
Channel == INSTANCE ReliableChannel WITH log <- Ids, disturbed <- overlapped

\* Messages are shown in the order of the wire, each once, and all of them,
\* until coroutines of the reader overlap; and what is shown was sent even then.
InOrder == Channel!Spec

\* Without crashes everything that is written is read in the end; coroutines
\* that overlapped may have reported it unreadable instead, but do not lose it
\* without a word.
AllRead == \A m \in Messages :
             (m \in submitted) ~> \/ crashes > 0
                                  \/ \E i \in DOMAIN shown : shown[i] = m
                                  \/ overlapped /\ m \in failed
=============================================================================
