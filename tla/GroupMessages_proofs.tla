------------------------ MODULE GroupMessages_proofs ------------------------
(***************************************************************************)
(* Four theorems, each through any number of crashes and for any messages. *)
(*                                                                         *)
(* KeysComeFirst: with one sending coroutine, no lost connection and a     *)
(* reader who is in the channel from the start, the key of every message   *)
(* is on the wire before the message. From the moment the engine takes the *)
(* channel for initialized, an SKDM from which the stored record can be    *)
(* reached is either on the wire, sent by this process, or in the hands of *)
(* the task (IInv).                                                        *)
(*                                                                         *)
(* TypeCorrect: the types, with any number of coroutines at either end. A  *)
(* key is made by a task that has not made one in its process, and a chain *)
(* moves on once for each message (TInv).                                  *)
(*                                                                         *)
(* UnreadForCause: any number of senders, losses, a late join, and any     *)
(* coroutines that read, until two of them overlap. What the reader's      *)
(* chain cannot open came before its key, or shares key and iteration with *)
(* what was opened before (WInv, of the one who reads: Reader).            *)
(*                                                                         *)
(* ShowsInOrder: one sending coroutine, no losses. The app takes the steps *)
(* of ReliableChannel, or none: with the three above, no message is        *)
(* excused, so each read shows the next one, until coroutines overlap      *)
(* (CInv).                                                                 *)
(***************************************************************************)
EXTENDS GroupMessages, SequenceTheorems, FiniteSetTheorems, TLAPS

Rec == [key : Nat, iter : Nat]
PacketShape == [id : Messages \cup {None}, key : Nat, iter : Nat,
                skdm : Rec \cup {None}, life : Nat]

OneSender(t) == Tasks = {t} /\ MaxDrops = 0 /\ LateJoin = FALSE

\* An SKDM of this process from which r can be reached is on the wire.
OnWire(r) == \E d \in DOMAIN wire : /\ wire[d].life = crashes
                                    /\ wire[d].skdm # None
                                    /\ wire[d].skdm.key = r.key
                                    /\ wire[d].skdm.iter <= r.iter
InHand(t, r) == /\ skdm[t] # None
                /\ skdm[t].key = r.key
                /\ skdm[t].iter <= r.iter

Shape(t) == /\ mem \in Rec \cup {None}
            /\ disk \in Rec \cup {None}
            /\ initialized \in BOOLEAN
            /\ keys \in Nat
            /\ pc \in [{t} -> {"idle", "check", "create", "generate", "mark",
                               "load", "store", "send"}]
            /\ msg \in [{t} -> Messages \cup {None}]
            /\ rec \in [{t} -> Rec \cup {None}]
            /\ skdm \in [{t} -> Rec \cup {None}]
            /\ wire \in Seq(PacketShape)
            /\ member = TRUE
            /\ crashes \in Nat
            /\ drops = 0

Settled(t) == pc[t] \in {"idle", "check"} =>
                /\ skdm[t] = None
                /\ initialized => mem # None /\ OnWire(mem)
Creating(t) == /\ pc[t] \in {"create", "generate"} => ~initialized /\ skdm[t] = None
               /\ pc[t] = "mark" => mem # None /\ InHand(t, mem)
Loading(t) == pc[t] = "load" => initialized /\ mem # None /\ (InHand(t, mem) \/ OnWire(mem))
Storing(t) == pc[t] = "store" =>
                /\ initialized /\ rec[t] # None /\ mem = rec[t]
                /\ InHand(t, rec[t]) \/ OnWire(rec[t])
Sending(t) == pc[t] = "send" =>
                /\ initialized /\ rec[t] # None
                /\ mem = [key |-> rec[t].key, iter |-> rec[t].iter + 1]
                /\ InHand(t, rec[t]) \/ OnWire(rec[t])

Phases(t) == Settled(t) /\ Creating(t) /\ Loading(t) /\ Storing(t) /\ Sending(t)
IInv(t) == Shape(t) /\ Phases(t) /\ KeyBeforeUse

LEMMA InitIInv == ASSUME NEW t, OneSender(t), Init PROVE IInv(t)
  <1>1. initialized = FALSE /\ initialized \in BOOLEAN /\ member = TRUE
    BY Zenon DEF OneSender, Init
  <1>2. wire = <<>> /\ wire \in Seq(PacketShape) /\ DOMAIN wire = {}
    BY DEF Init
  <1>3. Shape(t)
    BY <1>1, <1>2 DEF OneSender, Init, Shape
  <1>4. pc[t] = "idle" /\ skdm[t] = None
    BY DEF OneSender, Init
  <1>5. Phases(t)
    BY <1>1, <1>4 DEF Phases, Settled, Creating, Loading, Storing, Sending
  <1>6. KeyBeforeUse
    BY <1>2 DEF KeyBeforeUse
  <1> QED BY <1>3, <1>5, <1>6 DEF IInv

\* What the reader does, and what the bounds rule out, leaves the sender alone.
LEMMA Untouched ==
  ASSUME NEW t, IInv(t),
         UNCHANGED <<mem, disk, initialized, keys, pc, msg, rec, skdm, wire, member, boundVars>>
  PROVE  IInv(t)'
  BY DEF IInv, Shape, Phases, Settled, Creating, Loading, Storing, Sending, OnWire, InHand,
         KeyBeforeUse, Opens, boundVars

LEMMA CrashIInv == ASSUME NEW t, OneSender(t), IInv(t), Crash PROVE IInv(t)'
  <1>0. initialized' = FALSE /\ initialized' \in BOOLEAN
    BY Zenon DEF Crash
  <1>a. /\ mem' = disk /\ crashes' = crashes + 1
        /\ pc' = [u \in {t} |-> "idle"] /\ msg' = [u \in {t} |-> None]
        /\ rec' = [u \in {t} |-> None] /\ skdm' = [u \in {t} |-> None]
        /\ UNCHANGED <<disk, keys, wire, member, drops>>
    BY DEF OneSender, Crash
  <1>1. Shape(t)'
    BY <1>0, <1>a DEF IInv, Shape
  <1>2. pc'[t] = "idle" /\ skdm'[t] = None /\ ~initialized'
    BY DEF OneSender, Crash
  <1>3. Phases(t)'
    BY <1>2 DEF Phases, Settled, Creating, Loading, Storing, Sending
  <1>4. KeyBeforeUse'
    BY DEF IInv, KeyBeforeUse, Opens, Crash
  <1> QED BY <1>1, <1>3, <1>4 DEF IInv

\* A step of the task that sends nothing.
LEMMA QuietStep ==
  ASSUME NEW t, OneSender(t), IInv(t),
         \/ \E m \in Messages : sendChannelMessage(t, m)
         \/ CheckFirst(t) \/ CreateLoad(t) \/ CreateStore(t) \/ MarkInitialized(t)
         \/ EncryptLoad(t) \/ EncryptStore(t) \/ Persist
  PROVE  IInv(t)'
  <1> USE DEF IInv, Shape, Goto
  <1>1. wire' = wire /\ crashes' = crashes /\ drops' = drops /\ member' = member
    BY DEF sendChannelMessage, CheckFirst, CreateLoad, CreateStore, MarkInitialized,
           EncryptLoad, EncryptStore, Persist, boundVars
  <1>2. KeyBeforeUse'
    BY <1>1 DEF KeyBeforeUse, Opens
  <1>3. \A r : OnWire(r)' <=> OnWire(r)
    BY <1>1 DEF OnWire
  <1>4. CASE \E m \in Messages : sendChannelMessage(t, m)
    <2>1. Shape(t)'
      BY <1>1, <1>4 DEF sendChannelMessage
    <2>2. Phases(t)'
      BY <1>3, <1>4 DEF sendChannelMessage, Phases, Settled, Creating, Loading, Storing, Sending
    <2> QED BY <1>2, <2>1, <2>2
  <1>5. CASE CheckFirst(t)
    <2>1. Shape(t)'
      BY <1>1, <1>5 DEF CheckFirst
    <2>2. Phases(t)'
      BY <1>3, <1>5 DEF CheckFirst, Phases, Settled, Creating, Loading, Storing, Sending, InHand
    <2> QED BY <1>2, <2>1, <2>2
  <1>6. CASE CreateLoad(t)
    <2>1. Shape(t)'
      BY <1>1, <1>6 DEF CreateLoad
    <2>2. Phases(t)'
      BY <1>3, <1>6 DEF CreateLoad, Phases, Settled, Creating, Loading, Storing, Sending, InHand, Rec
    <2> QED BY <1>2, <2>1, <2>2
  <1>7. CASE CreateStore(t)
    <2>0. mem' \in Rec /\ mem' # None /\ skdm' = [skdm EXCEPT ![t] = mem']
      BY <1>7, NoneAssumption DEF CreateStore, Rec
    <2>1. Shape(t)'
      BY <1>1, <1>7, <2>0 DEF CreateStore
    <2>2. Phases(t)'
      BY <1>7, <2>0 DEF CreateStore, Phases, Settled, Creating, Loading, Storing, Sending, InHand, Rec
    <2> QED BY <1>2, <2>1, <2>2
  <1>8. CASE MarkInitialized(t)
    <2>1. Shape(t)'
      BY <1>1, <1>8 DEF MarkInitialized
    <2>2. Phases(t)'
      BY <1>8 DEF MarkInitialized, Phases, Settled, Creating, Loading, Storing, Sending, InHand
    <2> QED BY <1>2, <2>1, <2>2
  <1>9. CASE EncryptLoad(t)
    <2>1. Shape(t)'
      BY <1>1, <1>9 DEF EncryptLoad
    <2>2. Phases(t)'
      BY <1>3, <1>9 DEF EncryptLoad, Phases, Settled, Creating, Loading, Storing, Sending, InHand
    <2> QED BY <1>2, <2>1, <2>2
  <1>10. CASE EncryptStore(t)
    <2>0. rec[t] \in Rec /\ mem' = [key |-> rec[t].key, iter |-> rec[t].iter + 1] /\ mem' \in Rec
      BY <1>10 DEF EncryptStore, Rec, Phases, Storing
    <2>1. Shape(t)'
      BY <1>1, <1>10, <2>0 DEF EncryptStore
    <2>2. Phases(t)'
      BY <1>3, <1>10, <2>0 DEF EncryptStore, Phases, Settled, Creating, Loading, Storing, Sending, InHand
    <2> QED BY <1>2, <2>1, <2>2
  <1>11. CASE Persist
    <2>1. Shape(t)'
      BY <1>1, <1>11 DEF Persist
    <2>2. Phases(t)'
      BY <1>3, <1>11 DEF Persist, Phases, Settled, Creating, Loading, Storing, Sending, InHand
    <2> QED BY <1>2, <2>1, <2>2
  <1> QED BY <1>4, <1>5, <1>6, <1>7, <1>8, <1>9, <1>10, <1>11

\* The packet is on the wire, and with it or before it its key.
LEMMA SendIInv == ASSUME NEW t, OneSender(t), IInv(t), SendPacket(t) PROVE IInv(t)'
  <1> DEFINE n == Len(wire)
             p == packet(t)
  <1> USE DEF IInv, Shape
  <1>1. /\ rec[t] \in Rec /\ skdm[t] \in Rec \cup {None}
        /\ initialized
        /\ mem = [key |-> rec[t].key, iter |-> rec[t].iter + 1]
        /\ InHand(t, rec[t]) \/ OnWire(rec[t])
    BY DEF SendPacket, Phases, Sending
  <1>2. p \in PacketShape
    BY <1>1 DEF packet, PacketShape, Rec
  <1>3. wire' = Append(wire, p) /\ n \in Nat
    BY DEF SendPacket
  <1>4. /\ wire' \in Seq(PacketShape)
        /\ DOMAIN wire = 1..n /\ DOMAIN wire' = 1..(n + 1)
        /\ \A i \in 1..n : wire'[i] = wire[i]
        /\ wire'[n + 1] = p
    BY <1>2, <1>3
  <1>5. /\ pc' = [pc EXCEPT ![t] = "idle"] /\ skdm' = [skdm EXCEPT ![t] = None]
        /\ msg' = [msg EXCEPT ![t] = None] /\ rec' = [rec EXCEPT ![t] = None]
        /\ UNCHANGED <<mem, disk, initialized, keys, member, crashes, drops>>
    BY DEF SendPacket, Finish, Goto, boundVars
  <1>6. Shape(t)'
    BY <1>4, <1>5
  <1>7. /\ p.life = crashes /\ p.key = rec[t].key /\ p.iter = rec[t].iter /\ p.skdm = skdm[t]
    BY DEF packet
  <1>8. \E d \in 1..(n + 1) : /\ wire'[d].life = crashes
                              /\ wire'[d].skdm # None
                              /\ wire'[d].skdm.key = rec[t].key
                              /\ wire'[d].skdm.iter <= rec[t].iter
    <2>1. CASE InHand(t, rec[t])
      <3> WITNESS n + 1 \in 1..(n + 1)
      <3> QED BY <1>4, <1>7, <2>1 DEF InHand
    <2>2. CASE OnWire(rec[t])
      <3>1. PICK d \in 1..n : /\ wire[d].life = crashes
                              /\ wire[d].skdm # None
                              /\ wire[d].skdm.key = rec[t].key
                              /\ wire[d].skdm.iter <= rec[t].iter
        BY <1>4, <2>2 DEF OnWire
      <3>2. d \in 1..(n + 1) /\ wire'[d] = wire[d]
        BY <1>3, <1>4, <3>1
      <3> QED BY <3>1, <3>2
    <2> QED BY <1>1, <2>1, <2>2
  <1>9. KeyBeforeUse'
    <2> SUFFICES ASSUME NEW i \in 1..(n + 1)
                 PROVE  \E d \in 1..i : Opens(d, i)'
      BY <1>4 DEF KeyBeforeUse
    <2>1. CASE i = n + 1
      BY <1>4, <1>7, <1>8, <2>1 DEF Opens
    <2>2. CASE i # n + 1
      <3>1. i \in 1..n
        BY <1>3, <2>2
      <3>2. PICK d \in 1..i : Opens(d, i)
        BY <1>4, <3>1 DEF KeyBeforeUse
      <3>3. d \in 1..n
        BY <1>3, <3>1, <3>2
      <3> QED BY <1>4, <3>1, <3>2, <3>3 DEF Opens
    <2> QED BY <2>1, <2>2
  <1>10. OnWire(mem)'
    <2>1. PICK d \in 1..(n + 1) : /\ wire'[d].life = crashes
                                  /\ wire'[d].skdm # None
                                  /\ wire'[d].skdm.key = rec[t].key
                                  /\ wire'[d].skdm.iter <= rec[t].iter
      BY <1>8
    <2>0. wire'[d] \in PacketShape
      BY <1>4
    <2>2. wire'[d].skdm \in Rec
      BY <2>0, <2>1 DEF PacketShape
    <2>3. wire'[d].skdm.iter <= rec[t].iter + 1
      BY <1>1, <2>1, <2>2 DEF Rec
    <2> QED BY <1>1, <1>4, <1>5, <2>1, <2>3 DEF OnWire
  <1>11. pc'[t] = "idle" /\ skdm'[t] = None /\ mem' # None
    BY <1>1, <1>5, NoneAssumption DEF Rec
  <1>12. Phases(t)'
    BY <1>10, <1>11 DEF Phases, Settled, Creating, Loading, Storing, Sending
  <1> QED BY <1>6, <1>9, <1>12

LEMMA StepIInv == ASSUME NEW t, OneSender(t), IInv(t), [Next]_vars PROVE IInv(t)'
  <1>1. drops = 0 /\ member = TRUE /\ MaxDrops = 0 /\ Tasks = {t}
    BY DEF IInv, Shape, OneSender
  <1>2. ~SendInVain(t) /\ ~LinkDown /\ ~Join
    BY <1>1 DEF SendInVain, LinkDown, Join
  <1>3. CASE \E m \in Messages : sendChannelMessage(t, m)
    BY <1>3, QuietStep
  <1>4. CASE CheckFirst(t) \/ CreateLoad(t) \/ CreateStore(t) \/ MarkInitialized(t)
             \/ EncryptLoad(t) \/ EncryptStore(t)
    BY <1>4, QuietStep
  <1>5. CASE SendPacket(t)
    BY <1>5, SendIInv
  <1>6. CASE \E j \in Jobs : ReadStep(j)
    <2>1. UNCHANGED <<mem, disk, initialized, keys, pc, msg, rec, skdm, wire, member, boundVars>>
      BY <1>6 DEF ReadStep, handleIncomingChat, handleAgain, LearnLoad, LearnStore, DecryptLoad, DecryptStore,
                  DecryptFails, senderVars
    <2> QED BY <2>1, Untouched
  <1>7. CASE Persist
    BY <1>7, QuietStep
  <1>8. CASE Crash
    BY <1>8, CrashIInv
  <1>9. CASE UNCHANGED vars
    <2>1. UNCHANGED <<mem, disk, initialized, keys, pc, msg, rec, skdm, wire, member, boundVars>>
      BY <1>9 DEF vars, senderVars
    <2> QED BY <2>1, Untouched
  <1> QED BY <1>1, <1>2, <1>3, <1>4, <1>5, <1>6, <1>7, <1>8, <1>9 DEF Next, SendStep

\* One sender, no losses: the key of every message is on the wire no later
\* than the message, whatever encryptGroup, the store and crashes interleave.
THEOREM KeysComeFirst ==
  ASSUME NEW t, OneSender(t) PROVE Spec => []KeyBeforeUse
  <1>1. Init => IInv(t)
    BY InitIInv
  <1>2. IInv(t) /\ [Next]_vars => IInv(t)'
    BY StepIInv
  <1>3. IInv(t) => KeyBeforeUse
    BY DEF IInv
  <1> QED BY <1>1, <1>2, <1>3, PTL DEF Spec
-----------------------------------------------------------------------------
(* Types. Neither the keys nor their iterations are bounded by a guard:     *)
(* they stay in their sets because a process generates at most one key for  *)
(* each of its tasks, and because each iteration takes a message of its own.*)

\* Messages that are encrypted, or lost with their process.
Spent == {m \in submitted : \A t \in Tasks : msg[t] = m => pc[t] = "send"}
Young(r) == r # None => r.iter <= Cardinality(Spent)
Aged == /\ Young(mem) /\ Young(disk)
        /\ \A t \in Tasks : Young(rec[t]) /\ Young(skdm[t])

\* A task has a message of its own while it is at work.
Owned == \A t \in Tasks :
  /\ pc[t] = "idle" <=> msg[t] = None
  /\ msg[t] # None => msg[t] \in submitted /\ \A u \in Tasks \ {t} : msg[u] # msg[t]

\* What a task finds when it loads.
Loaded == /\ initialized => mem # None
          /\ \A t \in Tasks : /\ pc[t] \in {"mark", "load"} => mem # None
                              /\ pc[t] \in {"store", "send"} => rec[t] # None

\* The tasks that generated a key in the life of this process do it once.
Quota == \E done \in SUBSET Tasks :
  /\ keys <= crashes * Cardinality(Tasks) + Cardinality(done)
  /\ \A t \in done : pc[t] # "generate"
  /\ done # {} => mem # None

\* What a job holds.
Holding == \A j \in Jobs :
  /\ jpc[j] # "idle" => jmsg[j] \in Packet
  /\ jpc[j] \in {"learn", "learned"} => jmsg[j].skdm # None
  /\ jpc[j] \in {"learned", "opened"} => jrec[j] \in [Keys -> Chain \cup {None}]

TInv == EndsOK /\ Aged /\ Owned /\ Loaded /\ Quota /\ Holding

LEMMA Bounds ==
  /\ Cardinality(Messages) \in Nat /\ Cardinality(Tasks) \in Nat
  /\ MaxCrashes \in Nat /\ MaxDrops \in Nat /\ MaxKeys \in Nat
  /\ Keys \subseteq Nat /\ 0 \in Iterations /\ Iterations \subseteq Nat
  /\ None \notin Record /\ None \notin Messages
<1>1. Cardinality(Messages) \in Nat /\ Cardinality(Tasks) \in Nat
  BY FiniteAssumption, FS_CardinalityType
<1>2. MaxKeys \in Nat
  BY <1>1, BoundsAssumption DEF MaxKeys
<1>3. Keys \subseteq Nat /\ 0 \in Iterations /\ Iterations \subseteq Nat
  BY <1>1, <1>2 DEF Keys, Iterations
<1>4. Record \subseteq [key : Nat, iter : Nat]
  BY <1>3 DEF Record
<1> QED BY <1>1, <1>2, <1>3, <1>4, BoundsAssumption, NoneAssumption

LEMMA InitTInv == Init => TInv
<1> SUFFICES ASSUME Init PROVE TInv
  OBVIOUS
<1>0. initialized = FALSE /\ initialized \in BOOLEAN
  BY Zenon DEF Init
<1>00. member \in BOOLEAN
  BY FlagsAssumption, Zenon DEF Init
<1>a. /\ wire \in Seq(Packet) /\ shown \in Seq(Messages) /\ read \in 0..Len(wire)
  BY EmptySeq DEF Init
<1>b. /\ chain \in [Names -> [Keys -> Chain \cup {None}]] /\ jname \in [Jobs -> Names]
      /\ jrec \in [Jobs -> [Keys -> Chain \cup {None}] \cup {None}]
      /\ jmsg \in [Jobs -> Packet \cup {None}]
      /\ jpc \in [Jobs -> {"idle", "learn", "learned", "open", "opened"}]
  BY DEF Init, Names
<1>c. /\ keys \in 0..MaxKeys /\ crashes \in 0..MaxCrashes /\ drops \in 0..MaxDrops
  BY Bounds DEF Init
<1>d. /\ mem = None /\ disk = None /\ submitted = {} /\ failed = {}
      /\ pc = [t \in Tasks |-> "idle"]
      /\ msg = [t \in Tasks |-> None] /\ rec = [t \in Tasks |-> None]
      /\ skdm = [t \in Tasks |-> None]
  BY DEF Init
<1>1. EndsOK
  BY <1>0, <1>00, <1>a, <1>b, <1>c, <1>d DEF EndsOK
<1>2. Aged /\ Owned /\ Loaded
  BY <1>0 DEF Init, Aged, Young, Owned, Loaded
<1>3. Quota
  <2>1. keys <= crashes * Cardinality(Tasks) + Cardinality({})
    BY Bounds, FS_EmptySet DEF Init
  <2> QED BY <2>1 DEF Quota
<1>4. Holding
  BY DEF Init, Holding
<1> QED BY <1>1, <1>2, <1>3, <1>4 DEF TInv

\* Messages are finitely many.
LEMMA SpentBound ==
  ASSUME submitted \subseteq Messages
  PROVE  /\ Spent \subseteq Messages /\ IsFiniteSet(Spent)
         /\ Cardinality(Spent) \in Nat /\ Cardinality(Spent) <= Cardinality(Messages)
<1>1. Spent \in SUBSET Messages
  BY DEF Spent
<1> QED BY <1>1, FiniteAssumption, FS_Subset, FS_CardinalityType

\* Messages that were spent stay so, and with them the age of the records.
LEMMA AgedKept ==
  ASSUME EndsOK, submitted' \subseteq Messages, Spent \subseteq Spent', Aged,
         mem' \in {mem, disk}, disk' \in {disk, mem},
         \A t \in Tasks : rec'[t] \in {rec[t], mem, None} /\ skdm'[t] \in {skdm[t], mem, None}
  PROVE  Aged'
<1>1. Cardinality(Spent) \in Nat /\ submitted \subseteq Messages
  BY SpentBound DEF EndsOK
<1>0. Spent' \in SUBSET Messages
  BY DEF Spent
<1>2. IsFiniteSet(Spent') /\ Cardinality(Spent') \in Nat
  BY <1>0, FiniteAssumption, FS_Subset, FS_CardinalityType
<1>3. Cardinality(Spent) <= Cardinality(Spent')
  BY <1>2, FS_Subset
<1>4. \A r \in Record : r.iter \in Nat
  BY Bounds DEF Record
<1>5. \A r \in Record \cup {None} : Young(r) => Young(r)'
  BY <1>1, <1>2, <1>3, <1>4 DEF Young
<1>6. Young(None)
  BY DEF Young
<1> QED BY <1>5, <1>6 DEF Aged, EndsOK

\* The sender's share of EndsOK, and the rest.
SenderTypes ==
  /\ mem \in Record \cup {None} /\ disk \in Record \cup {None}
  /\ keys \in 0..MaxKeys
  /\ pc \in [Tasks -> {"idle", "check", "create", "generate", "mark", "load", "store", "send"}]
  /\ msg \in [Tasks -> Messages \cup {None}]
  /\ rec \in [Tasks -> Record \cup {None}]
  /\ skdm \in [Tasks -> Record \cup {None}]
  /\ submitted \subseteq Messages
ReaderTypes ==
  /\ read \in 0..Len(wire)
  /\ chain \in [Names -> [Keys -> Chain \cup {None}]]
  /\ jpc \in [Jobs -> {"idle", "learn", "learned", "open", "opened"}]
  /\ jmsg \in [Jobs -> Packet \cup {None}]
  /\ jname \in [Jobs -> Names]
  /\ jrec \in [Jobs -> [Keys -> Chain \cup {None}] \cup {None}]
  /\ shown \in Seq(Messages)
  /\ failed \subseteq Messages
Flags == initialized \in BOOLEAN /\ member \in BOOLEAN
Counts == crashes \in 0..MaxCrashes /\ drops \in 0..MaxDrops

LEMMA EndsOKParts == EndsOK <=> /\ SenderTypes /\ ReaderTypes /\ Flags /\ Counts
                                /\ wire \in Seq(Packet)
BY DEF EndsOK, SenderTypes, ReaderTypes, Flags, Counts

\* No key is generated, and no task gets to do so again: the quota stands.
LEMMA QuotaKept ==
  ASSUME EndsOK, Quota, keys' = keys, crashes' = crashes, mem # None => mem' # None,
         \A t \in Tasks : pc'[t] = "generate" => pc[t] = "generate" \/ mem = None
  PROVE  Quota'
<1>1. PICK done \in SUBSET Tasks :
        /\ keys <= crashes * Cardinality(Tasks) + Cardinality(done)
        /\ \A t \in done : pc[t] # "generate"
        /\ done # {} => mem # None
  BY DEF Quota
<1>2. /\ keys' <= crashes' * Cardinality(Tasks) + Cardinality(done)
      /\ \A t \in done : pc'[t] # "generate"
      /\ done # {} => mem' # None
  BY <1>1
<1> QED BY <1>2 DEF Quota

\* A task at work goes on with its message.
LEMMA OwnedKept ==
  ASSUME EndsOK, Owned, NEW t \in Tasks, pc[t] # "idle", NEW l, l # "idle",
         pc' = [pc EXCEPT ![t] = l], msg' = msg, submitted' = submitted
  PROVE  Owned'
BY DEF EndsOK, Owned

\* A task that goes on short of sending leaves the spent messages as they are.
LEMMA SpentKept ==
  ASSUME EndsOK, NEW t \in Tasks, pc[t] # "send", NEW l,
         pc' = [pc EXCEPT ![t] = l], msg' = msg, submitted' = submitted
  PROVE  Spent \subseteq Spent'
BY DEF EndsOK, Spent

\* Steps of a task that leave the reader alone.
LEMMA StepTInv ==
  ASSUME TInv, NEW t \in Tasks, CheckFirst(t) \/ CreateLoad(t) \/ MarkInitialized(t) \/ EncryptLoad(t)
  PROVE  TInv'
<1> DEFINE next == CASE pc[t] = "check" -> IF initialized THEN "load" ELSE "create"
                     [] pc[t] = "create" -> IF mem = None THEN "generate" ELSE "mark"
                     [] pc[t] = "mark" -> "load"
                     [] pc[t] = "load" -> "store"
<1> USE DEF TInv, Goto
<1>1. /\ pc[t] \in {"check", "create", "mark", "load"}
      /\ pc' = [pc EXCEPT ![t] = next]
  BY DEF CheckFirst, CreateLoad, MarkInitialized, EncryptLoad
<1>2. /\ next \in {"create", "generate", "mark", "load", "store"}
      /\ next = "generate" => mem = None
      /\ next \in {"mark", "load"} => mem # None
      /\ next = "store" <=> pc[t] = "load"
  BY <1>1 DEF Loaded
<1>3. /\ UNCHANGED <<mem, disk, keys, msg, submitted, wire, read, member, readerVars, boundVars>>
      /\ rec' = rec \/ (pc[t] = "load" /\ rec' = [rec EXCEPT ![t] = mem])
      /\ skdm' = skdm \/ skdm' = [skdm EXCEPT ![t] = mem]
      /\ pc[t] = "load" => rec' = [rec EXCEPT ![t] = mem]
  BY DEF CheckFirst, CreateLoad, MarkInitialized, EncryptLoad
<1>4. initialized' = TRUE \/ initialized' = initialized
  BY DEF CheckFirst, CreateLoad, MarkInitialized, EncryptLoad
<1>5. Flags'
  BY <1>3, <1>4, Zenon DEF EndsOK, Flags
<1>6. initialized' => mem # None
  BY <1>1 DEF CheckFirst, CreateLoad, MarkInitialized, EncryptLoad, Loaded
<1> HIDE DEF next
<1>7. EndsOK'
  <2>a. SenderTypes
    BY EndsOKParts
  <2>b. pc' \in [Tasks -> {"idle", "check", "create", "generate", "mark", "load", "store", "send"}]
    BY <1>1, <1>2, <2>a DEF SenderTypes
  <2>c. rec' \in [Tasks -> Record \cup {None}] /\ skdm' \in [Tasks -> Record \cup {None}]
    BY <1>3, <2>a DEF SenderTypes
  <2>1. SenderTypes'
    BY <1>3, <2>a, <2>b, <2>c DEF SenderTypes
  <2>2. ReaderTypes' /\ Counts' /\ wire' \in Seq(Packet)
    BY <1>3 DEF EndsOK, ReaderTypes, Counts, readerVars, boundVars
  <2> QED BY <2>1, <2>2, <1>5, EndsOKParts DEF EndsOK, SenderTypes, ReaderTypes, Flags, Counts
<1>8. Aged'
  <2>1. Spent \subseteq Spent'
    BY <1>1, <1>3, SpentKept
  <2> QED BY <2>1, <1>3, AgedKept DEF EndsOK
<1>9. Owned'
  BY <1>1, <1>2, <1>3, OwnedKept
<1>10. Loaded'
  BY <1>1, <1>2, <1>3, <1>6 DEF Loaded, EndsOK
<1>11. Quota'
  BY <1>1, <1>2, <1>3, QuotaKept DEF EndsOK, boundVars
<1>12. Holding'
  BY <1>3 DEF Holding, readerVars
<1> QED BY <1>7, <1>8, <1>9, <1>10, <1>11, <1>12

\* The user's message: a task gets one that is nobody else's.
LEMMA SubmitTInv ==
  ASSUME TInv, NEW t \in Tasks, NEW m \in Messages, sendChannelMessage(t, m)
  PROVE  TInv'
<1> USE DEF TInv, Goto
<1>1. /\ pc[t] = "idle" /\ m \notin submitted /\ submitted' = submitted \cup {m}
      /\ msg' = [msg EXCEPT ![t] = m] /\ pc' = [pc EXCEPT ![t] = "check"]
      /\ UNCHANGED <<mem, disk, initialized, keys, rec, skdm, wire, read, member, readerVars, boundVars>>
  BY DEF sendChannelMessage
<1>2. SenderTypes
  BY EndsOKParts
<1>3. EndsOK'
  <2>1. SenderTypes'
    BY <1>1, <1>2 DEF SenderTypes
  <2> QED BY <1>1, <2>1 DEF EndsOK, SenderTypes, readerVars, boundVars
<1>4. Aged'
  <2>1. Spent \subseteq Spent'
    BY <1>1, <1>2 DEF Spent, SenderTypes
  <2> QED BY <1>1, <1>2, <2>1, AgedKept DEF SenderTypes
<1>5. Owned'
  BY <1>1, <1>2, Bounds DEF Owned, SenderTypes
<1>6. Loaded' /\ Holding'
  BY <1>1, <1>2 DEF Loaded, Holding, SenderTypes, readerVars
<1>7. Quota'
  BY <1>1, <1>2, QuotaKept DEF SenderTypes, boundVars
<1> QED BY <1>3, <1>4, <1>5, <1>6, <1>7

\* A key is generated: by a task that had not done so in this life.
LEMMA GenerateTInv ==
  ASSUME TInv, NEW t \in Tasks, CreateStore(t)
  PROVE  TInv'
<1> USE DEF TInv, Goto
<1>1. /\ pc[t] = "generate" /\ keys' = keys + 1 /\ mem' = [key |-> keys + 1, iter |-> 0]
      /\ skdm' = [skdm EXCEPT ![t] = mem'] /\ pc' = [pc EXCEPT ![t] = "mark"]
      /\ UNCHANGED <<disk, initialized, msg, rec, submitted, wire, read, member, readerVars, boundVars>>
  BY DEF CreateStore
<1>2. SenderTypes /\ Counts
  BY EndsOKParts
<1>3. PICK done \in SUBSET Tasks :
        /\ keys <= crashes * Cardinality(Tasks) + Cardinality(done)
        /\ \A u \in done : pc[u] # "generate"
        /\ done # {} => mem # None
  BY DEF Quota
<1> DEFINE more == done \cup {t}
<1>4. /\ keys \in Nat /\ crashes \in Nat /\ crashes <= MaxCrashes
      /\ Cardinality(Tasks) \in Nat /\ MaxCrashes \in Nat /\ crashes * Cardinality(Tasks) \in Nat
  BY <1>2, Bounds DEF SenderTypes, Counts
<1>5. t \notin done /\ more \subseteq Tasks
  BY <1>1, <1>3
<1>6. /\ IsFiniteSet(done) /\ Cardinality(done) \in Nat
      /\ Cardinality(more) = Cardinality(done) + 1 /\ Cardinality(more) <= Cardinality(Tasks)
  <2>1. IsFiniteSet(done) /\ Cardinality(done) \in Nat
    BY FiniteAssumption, FS_Subset, FS_CardinalityType
  <2>2. Cardinality(more) <= Cardinality(Tasks)
    BY <1>5, FiniteAssumption, FS_Subset
  <2> QED BY <1>5, <2>1, <2>2, FS_AddElement
<1>7. keys + 1 <= crashes * Cardinality(Tasks) + Cardinality(more)
  BY <1>3, <1>4, <1>6
<1>8. keys + 1 <= MaxKeys
  <2> DEFINE n == Cardinality(Tasks)
             left == MaxCrashes - crashes
  <2>1. keys + 1 <= crashes * n + n
    BY <1>3, <1>4, <1>6
  <2>2. left \in Nat /\ left * n \in Nat
    BY <1>4
  <2>3. n * (MaxCrashes + 1) = crashes * n + n + left * n
    BY <1>4
  <2>4. MaxKeys = n * (MaxCrashes + 1)
    BY DEF MaxKeys
  <2> HIDE DEF n, left
  <2>5. n \in Nat /\ crashes * n \in Nat
    BY <1>4 DEF n
  <2> QED BY <1>4, <2>1, <2>2, <2>3, <2>4, <2>5
<1>9. mem' \in Record /\ keys' \in 0..MaxKeys /\ mem' # None /\ mem'.iter = 0
  <2>1. keys + 1 \in Keys /\ keys + 1 \in 0..MaxKeys
    BY <1>4, <1>8, Bounds DEF Keys
  <2>2. mem' \in Record
    BY <1>1, <2>1, Bounds DEF Record
  <2> QED BY <1>1, <2>1, <2>2, Bounds
<1>10. EndsOK'
  <2>1. SenderTypes'
    BY <1>1, <1>2, <1>9 DEF SenderTypes
  <2> QED BY <1>1, <2>1 DEF EndsOK, SenderTypes, readerVars, boundVars
<1>11. Aged'
  <2>1. Spent' = Spent
    BY <1>1, <1>2 DEF Spent, SenderTypes
  <2>2. 0 <= Cardinality(Spent')
    BY <2>1, <1>2, SpentBound DEF SenderTypes
  <2>3. mem'.iter <= Cardinality(Spent')
    BY <1>9, <2>2
  <2> QED BY <1>1, <1>2, <2>1, <2>3 DEF Aged, Young, SenderTypes
<1>12. Owned'
  BY <1>1, OwnedKept
<1>13. Loaded' /\ Holding'
  BY <1>1, <1>2, <1>9 DEF Loaded, Holding, SenderTypes, readerVars
<1>14. Quota'
  <2>1. \A u \in more : pc'[u] # "generate"
    BY <1>1, <1>2, <1>3 DEF SenderTypes
  <2>2. keys' <= crashes' * Cardinality(Tasks) + Cardinality(more)
    BY <1>1, <1>7 DEF boundVars
  <2> QED BY <1>5, <1>9, <2>1, <2>2 DEF Quota
<1> QED BY <1>10, <1>11, <1>12, <1>13, <1>14

\* A message is encrypted: the iteration is one more, and so are the messages spent.
LEMMA EncryptTInv ==
  ASSUME TInv, NEW t \in Tasks, EncryptStore(t)
  PROVE  TInv'
<1> USE DEF TInv, Goto
<1>1. /\ pc[t] = "store" /\ mem' = [rec[t] EXCEPT !.iter = @ + 1]
      /\ pc' = [pc EXCEPT ![t] = "send"]
      /\ UNCHANGED <<disk, initialized, keys, msg, rec, skdm, submitted, wire, read, member, readerVars, boundVars>>
  BY DEF EncryptStore
<1>2. SenderTypes
  BY EndsOKParts
<1>3. rec[t] \in Record /\ rec[t] # None /\ rec[t].iter \in Nat /\ rec[t].key \in Keys
  <2>1. rec[t] \in Record
    BY <1>1, <1>2 DEF Loaded, SenderTypes
  <2> QED BY <2>1, Bounds DEF Record
<1>4. /\ msg[t] \in submitted /\ msg[t] # None
      /\ \A u \in Tasks \ {t} : msg[u] # msg[t]
  BY <1>1 DEF Owned
<1>5. Spent' = Spent \cup {msg[t]} /\ msg[t] \notin Spent
  BY <1>1, <1>2, <1>4 DEF Spent, SenderTypes
<1>6. /\ Cardinality(Spent) \in Nat /\ Cardinality(Spent') = Cardinality(Spent) + 1
      /\ Cardinality(Spent') <= Cardinality(Messages)
  <2>1. IsFiniteSet(Spent) /\ Cardinality(Spent) \in Nat
    BY <1>2, SpentBound DEF SenderTypes
  <2>2. Spent' \in SUBSET Messages
    BY <1>1, <1>2 DEF Spent, SenderTypes
  <2>3. Cardinality(Spent') <= Cardinality(Messages)
    BY <2>2, FiniteAssumption, FS_Subset
  <2> QED BY <1>5, <2>1, <2>3, FS_AddElement
<1>7. rec[t].iter <= Cardinality(Spent)
  BY <1>3 DEF Aged, Young
<1>8. rec[t].iter + 1 \in Iterations /\ rec[t].iter + 1 <= Cardinality(Spent')
  BY <1>3, <1>6, <1>7, Bounds DEF Iterations
<1>9. mem' = [key |-> rec[t].key, iter |-> rec[t].iter + 1]
  BY <1>1, <1>3 DEF Record
<1>10. mem' \in Record /\ mem' # None /\ mem'.iter = rec[t].iter + 1
  <2>1. mem' \in Record
    BY <1>3, <1>8, <1>9 DEF Record
  <2> QED BY <1>9, <2>1, Bounds
<1>11. EndsOK'
  <2>1. SenderTypes'
    BY <1>1, <1>2, <1>10 DEF SenderTypes
  <2> QED BY <1>1, <2>1 DEF EndsOK, SenderTypes, readerVars, boundVars
<1>12. Aged'
  <2>1. \A r \in Record : r.iter \in Nat
    BY Bounds DEF Record
  <2>2. \A r \in Record : Young(r) => r.iter <= Cardinality(Spent')
    BY <1>6, <2>1, Bounds DEF Young
  <2>3. mem'.iter <= Cardinality(Spent')
    BY <1>8, <1>10
  <2>4. Young(mem)' /\ Young(disk)'
    BY <1>1, <1>2, <2>2, <2>3 DEF Aged, Young, SenderTypes
  <2>5. \A u \in Tasks : Young(rec[u])' /\ Young(skdm[u])'
    BY <1>1, <1>2, <2>2 DEF Aged, Young, SenderTypes
  <2> QED BY <2>4, <2>5 DEF Aged
<1>13. Owned'
  BY <1>1, OwnedKept
<1>14. Loaded' /\ Holding'
  BY <1>1, <1>2, <1>3, <1>10 DEF Loaded, Holding, SenderTypes, readerVars
<1>15. Quota'
  BY <1>1, <1>2, <1>10, QuotaKept DEF SenderTypes, boundVars
<1> QED BY <1>11, <1>12, <1>13, <1>14, <1>15

\* The packet leaves, or does not.
LEMMA SendTInv ==
  ASSUME TInv, NEW t \in Tasks, SendPacket(t) \/ SendInVain(t)
  PROVE  TInv'
<1> USE DEF TInv, Goto
<1>1. /\ pc[t] = "send" /\ pc' = [pc EXCEPT ![t] = "idle"]
      /\ msg' = [msg EXCEPT ![t] = None] /\ rec' = [rec EXCEPT ![t] = None]
      /\ skdm' = [skdm EXCEPT ![t] = None]
      /\ UNCHANGED <<mem, disk, initialized, keys, submitted, read, member, readerVars, crashes>>
  BY DEF SendPacket, SendInVain, Finish, boundVars
<1>2. SenderTypes /\ ReaderTypes /\ Flags /\ Counts /\ wire \in Seq(Packet)
  BY EndsOKParts
<1>3. drops' \in 0..MaxDrops
  BY <1>2, Bounds DEF SendPacket, SendInVain, Counts, boundVars
<1>4. packet(t) \in Packet
  <2>1. rec[t] \in Record /\ skdm[t] \in Record \cup {None} /\ msg[t] \in Messages
    BY <1>1, <1>2 DEF Loaded, Owned, SenderTypes
  <2>2. rec[t].key \in Keys /\ rec[t].iter \in Iterations /\ crashes \in 0..MaxCrashes
    BY <1>2, <2>1 DEF Record, Counts
  <2> QED BY <2>1, <2>2 DEF packet, Packet
<1>5. wire' \in Seq(Packet) /\ Len(wire') \in Nat /\ Len(wire) \in Nat /\ Len(wire) <= Len(wire')
  <2>1. CASE wire' = wire
    BY <1>2, <2>1, LenProperties
  <2>2. CASE wire' = Append(wire, packet(t))
    BY <1>2, <1>4, <2>2, AppendProperties, LenProperties
  <2> QED BY <2>1, <2>2 DEF SendPacket, SendInVain
<1>6. EndsOK'
  <2>1. SenderTypes'
    BY <1>1, <1>2 DEF SenderTypes
  <2>2. ReaderTypes'
    BY <1>1, <1>2, <1>5 DEF ReaderTypes, readerVars
  <2> QED BY <1>1, <1>2, <1>3, <1>5, <2>1, <2>2
          DEF EndsOK, SenderTypes, ReaderTypes, Flags, Counts
<1>7. Aged'
  <2>1. Spent \subseteq Spent'
    BY <1>1, <1>2, <1>4, Bounds DEF Spent, SenderTypes
  <2> QED BY <1>1, <1>2, <2>1, AgedKept DEF SenderTypes
<1>8. Owned'
  BY <1>1, <1>2 DEF Owned, SenderTypes
<1>9. Loaded' /\ Holding'
  BY <1>1, <1>2 DEF Loaded, Holding, SenderTypes, readerVars
<1>10. Quota'
  BY <1>1, <1>2, QuotaKept DEF SenderTypes
<1> QED BY <1>6, <1>7, <1>8, <1>9, <1>10

\* The disk, and the end of the process.
LEMMA ProcessTInv ==
  ASSUME TInv, Persist \/ Crash
  PROVE  TInv'
<1> USE DEF TInv
<1>2. SenderTypes /\ ReaderTypes /\ Flags /\ Counts /\ wire \in Seq(Packet)
  BY EndsOKParts
<1>3. CASE Persist
  <2>1. /\ disk' = mem
        /\ UNCHANGED <<mem, initialized, keys, pc, msg, rec, skdm, submitted, wire, read, member,
                       readerVars, boundVars>>
    BY <1>3 DEF Persist
  <2>2. EndsOK'
    BY <2>1 DEF EndsOK, readerVars, boundVars
  <2>3. Spent' = Spent
    BY <2>1 DEF Spent
  <2>4. Aged'
    BY <1>2, <2>1, <2>3, AgedKept DEF SenderTypes
  <2>5. Owned' /\ Loaded' /\ Holding' /\ Quota'
    BY <1>2, <2>1, QuotaKept DEF Owned, Loaded, Holding, readerVars, boundVars
  <2> QED BY <2>2, <2>4, <2>5
<1>4. CASE Crash
  <2>1. /\ crashes < MaxCrashes /\ crashes' = crashes + 1 /\ mem' = disk
        /\ pc' = [t \in Tasks |-> "idle"] /\ msg' = [t \in Tasks |-> None]
        /\ rec' = [t \in Tasks |-> None] /\ skdm' = [t \in Tasks |-> None]
        /\ UNCHANGED <<disk, keys, submitted, wire, read, member, readerVars, drops>>
    BY <1>4 DEF Crash
  <2>2. initialized' = FALSE
    BY <1>4 DEF Crash
  <2>3. Flags'
    BY <1>2, <2>1, <2>2, Zenon DEF Flags
  <2>4. SenderTypes' /\ ReaderTypes' /\ wire' \in Seq(Packet)
    BY <1>2, <2>1 DEF SenderTypes, ReaderTypes, readerVars
  <2>5. Counts'
    BY <1>2, <2>1, Bounds DEF Counts
  <2>6. EndsOK'
    BY <2>3, <2>4, <2>5 DEF EndsOK, SenderTypes, ReaderTypes, Flags, Counts
  <2>7. Spent \subseteq Spent'
    BY <1>2, <2>1, Bounds DEF Spent, SenderTypes
  <2>8. Aged'
    BY <1>2, <2>1, <2>7, AgedKept DEF SenderTypes
  <2>9. Owned' /\ Loaded' /\ Holding'
    BY <2>1, <2>2 DEF Owned, Loaded, Holding, readerVars
  <2>10. Quota'
    <3>1. PICK done \in SUBSET Tasks :
            keys <= crashes * Cardinality(Tasks) + Cardinality(done)
      BY DEF Quota
    <3>2. Cardinality(done) \in Nat /\ Cardinality(done) <= Cardinality(Tasks)
      BY FiniteAssumption, FS_Subset, FS_CardinalityType
    <3>3. /\ keys \in Nat /\ crashes \in Nat /\ Cardinality(Tasks) \in Nat
          /\ crashes * Cardinality(Tasks) \in Nat
          /\ crashes' * Cardinality(Tasks) = crashes * Cardinality(Tasks) + Cardinality(Tasks)
      BY <1>2, <2>1, Bounds DEF SenderTypes, Counts
    <3>4. keys' <= crashes' * Cardinality(Tasks) + Cardinality({})
      BY <2>1, <3>1, <3>2, <3>3, FS_EmptySet
    <3> QED BY <3>4 DEF Quota
  <2> QED BY <2>6, <2>8, <2>9, <2>10
<1> QED BY <1>3, <1>4

\* Steps of the reader and of the network leave the sender as it is.
LEMMA SenderKept ==
  ASSUME TInv, UNCHANGED senderVars, crashes' = crashes
  PROVE  SenderTypes' /\ Aged' /\ Owned' /\ Loaded' /\ Quota' /\ initialized' \in BOOLEAN
<1> USE DEF TInv
<1>1. UNCHANGED <<mem, disk, initialized, keys, pc, msg, rec, skdm, submitted>>
  BY DEF senderVars
<1>2. SenderTypes
  BY EndsOKParts
<1>3. SenderTypes' /\ initialized' \in BOOLEAN
  BY <1>1, <1>2 DEF SenderTypes, EndsOK
<1>4. Spent' = Spent
  BY <1>1 DEF Spent
<1>5. Aged' /\ Owned' /\ Loaded' /\ Quota'
  BY <1>1, <1>2, <1>4, AgedKept, QuotaKept DEF SenderTypes, Owned, Loaded
<1> QED BY <1>3, <1>5

\* A chain moves on within the iterations there are.
LEMMA AdvanceType ==
  ASSUME NEW c \in Chain, NEW i \in Iterations, Readable(c, i)
  PROVE  Advance(c, i) \in Chain
<1> DEFINE n == Cardinality(Messages)
<1>1. n \in Nat /\ Iterations = 0..n /\ Chain = [iter : (0..n) \cup {n + 1}, skipped : SUBSET (0..n)]
  BY Bounds DEF Iterations, Chain
<1> HIDE DEF n
<1>2. c.iter \in (0..n) \cup {n + 1} /\ c.skipped \subseteq 0..n /\ i \in 0..n
  BY <1>1
<1>3. CASE i >= c.iter
  <2>1. i + 1 \in (0..n) \cup {n + 1} /\ c.iter..(i - 1) \subseteq 0..n
    BY <1>1, <1>2, <1>3
  <2> QED BY <1>1, <1>2, <1>3, <2>1 DEF Advance
<1>4. CASE ~(i >= c.iter)
  <2>1. Advance(c, i) = [iter |-> c.iter, skipped |-> c.skipped \ {i}]
    BY <1>1, <1>4 DEF Advance
  <2> QED BY <1>1, <1>2, <2>1
<1> QED BY <1>3, <1>4

\* What a job takes from the wire, by either collector.
LEMMA TakeTInv ==
  ASSUME TInv, NEW j \in Jobs, NEW i \in 1..Len(wire), Take(j, wire[i]),
         read' \in 0..Len(wire),
         UNCHANGED <<senderVars, wire, member, chain, jrec, shown, failed, boundVars>>
  PROVE  TInv'
<1> USE DEF TInv, JGoto
<1> DEFINE p == wire[i]
<1>1. /\ jpc[j] = "idle" /\ jmsg' = [jmsg EXCEPT ![j] = p]
      /\ jname' = [jname EXCEPT ![j] = "hash"] /\ jpc' = [jpc EXCEPT ![j] = FirstStep(p)]
      /\ UNCHANGED <<senderVars, wire, member, chain, jrec, shown, failed, boundVars>>
  BY DEF Take
<1>2. ReaderTypes /\ Flags /\ Counts /\ wire \in Seq(Packet)
  BY EndsOKParts
<1>4. p \in Packet
  BY <1>2, ElementOfSeq
<1> HIDE DEF p
<1>5. FirstStep(p) \in {"open", "learn"} /\ (FirstStep(p) = "learn" => p.skdm # None)
  BY DEF FirstStep
<1>6. ReaderTypes'
  <2>1. read' \in 0..Len(wire')
    BY <1>1
  <2>2. jpc' \in [Jobs -> {"idle", "learn", "learned", "open", "opened"}]
    BY <1>1, <1>2, <1>5 DEF ReaderTypes
  <2>3. jmsg' \in [Jobs -> Packet \cup {None}] /\ jname' \in [Jobs -> Names]
    BY <1>1, <1>2, <1>4 DEF ReaderTypes, Names
  <2> QED BY <1>1, <1>2, <2>1, <2>2, <2>3 DEF ReaderTypes
<1>7. EndsOK' /\ Aged' /\ Owned' /\ Loaded' /\ Quota'
  <2>1. SenderTypes' /\ Aged' /\ Owned' /\ Loaded' /\ Quota' /\ initialized' \in BOOLEAN
    BY <1>1, SenderKept DEF boundVars
  <2>2. member' \in BOOLEAN /\ Counts'
    BY <1>1, <1>2 DEF Flags, Counts, boundVars
  <2> QED BY <1>1, <1>2, <1>6, <2>1, <2>2 DEF EndsOK, SenderTypes, ReaderTypes, Counts
<1>8. Holding'
  BY <1>1, <1>2, <1>4, <1>5 DEF Holding, ReaderTypes
<1> QED BY <1>7, <1>8

\* What a job does with its message: the chains keep their shape.
LEMMA ReadTInv ==
  ASSUME TInv, NEW j \in Jobs,
         LearnLoad(j) \/ LearnStore(j) \/ DecryptLoad(j) \/ DecryptStore(j) \/ DecryptFails(j)
  PROVE  TInv'
<1> USE DEF TInv, JGoto
<1>1. /\ jpc[j] \in {"learn", "learned", "open", "opened"}
      /\ UNCHANGED <<senderVars, wire, read, member, boundVars>>
  BY DEF LearnLoad, LearnStore, DecryptLoad, DecryptStore, DecryptFails
<1>2. ReaderTypes /\ Flags /\ Counts /\ wire \in Seq(Packet)
  BY EndsOKParts
<1>3. /\ jmsg[j] \in Packet
      /\ jpc[j] \in {"learn", "learned"} => jmsg[j].skdm # None
      /\ jpc[j] \in {"learned", "opened"} => jrec[j] \in [Keys -> Chain \cup {None}]
  BY <1>1 DEF Holding
<1>4. /\ jmsg[j].id \in Messages /\ jmsg[j].key \in Keys /\ jmsg[j].iter \in Iterations
      /\ jmsg[j].skdm \in Record \cup {None}
  BY <1>3 DEF Packet
<1>5. jname[j] \in Names /\ chain[jname[j]] \in [Keys -> Chain \cup {None}]
  BY <1>2 DEF ReaderTypes
<1>6. ReaderTypes' /\ Holding'
  <2>1. CASE LearnLoad(j) \/ DecryptLoad(j)
    <3>1. /\ jrec' = [jrec EXCEPT ![j] = chain[jname[j]]]
          /\ \/ jpc[j] = "learn" /\ jpc' = [jpc EXCEPT ![j] = "learned"]
             \/ jpc[j] = "open" /\ jpc' = [jpc EXCEPT ![j] = "opened"]
          /\ UNCHANGED <<chain, jmsg, jname, shown, failed>>
      BY <2>1 DEF LearnLoad, DecryptLoad
    <3>2. jpc' \in [Jobs -> {"idle", "learn", "learned", "open", "opened"}]
      BY <1>2, <3>1 DEF ReaderTypes
    <3>3. jrec' \in [Jobs -> [Keys -> Chain \cup {None}] \cup {None}]
      BY <1>2, <1>5, <3>1 DEF ReaderTypes
    <3>4. ReaderTypes'
      BY <1>1, <1>2, <3>1, <3>2, <3>3 DEF ReaderTypes
    <3>5. Holding'
      BY <1>2, <1>3, <1>5, <3>1 DEF Holding, ReaderTypes
    <3> QED BY <3>4, <3>5
  <2>2. CASE LearnStore(j)
    <3> DEFINE new == [jrec[j] EXCEPT ![jmsg[j].skdm.key] = [iter |-> jmsg[j].skdm.iter, skipped |-> {}]]
    <3>1. /\ jpc[j] = "learned" /\ chain' = [chain EXCEPT ![jname[j]] = new]
          /\ jpc' = [jpc EXCEPT ![j] = "open"]
          /\ UNCHANGED <<jmsg, jname, jrec, shown, failed>>
      BY <2>2 DEF LearnStore
    <3>2. jmsg[j].skdm.iter \in Iterations
      BY <1>3, <1>4, <3>1 DEF Record
    <3>3. [iter |-> jmsg[j].skdm.iter, skipped |-> {}] \in Chain
      BY <3>2 DEF Chain
    <3>4. new \in [Keys -> Chain \cup {None}]
      BY <1>3, <3>1, <3>3
    <3> HIDE DEF new
    <3>5. chain' \in [Names -> [Keys -> Chain \cup {None}]]
      BY <1>2, <3>1, <3>4 DEF ReaderTypes
    <3>6. jpc' \in [Jobs -> {"idle", "learn", "learned", "open", "opened"}]
      BY <1>2, <3>1 DEF ReaderTypes
    <3>7. ReaderTypes'
      BY <1>1, <1>2, <3>1, <3>5, <3>6 DEF ReaderTypes
    <3>8. Holding'
      BY <1>2, <3>1 DEF Holding, ReaderTypes
    <3> QED BY <3>7, <3>8
  <2>3. CASE DecryptStore(j)
    <3> DEFINE key == jmsg[j].key
               moved == Advance(jrec[j][key], jmsg[j].iter)
               new == [jrec[j] EXCEPT ![key] = moved]
    <3>1. /\ jpc[j] = "opened" /\ Readable(jrec[j][key], jmsg[j].iter)
          /\ chain' = [chain EXCEPT ![jname[j]] = new]
          /\ shown' = Append(shown, jmsg[j].id) /\ failed' = failed
      BY <2>3 DEF DecryptStore
    <3>2. /\ jpc' = [jpc EXCEPT ![j] = "idle"] /\ jmsg' = [jmsg EXCEPT ![j] = None]
          /\ jrec' = [jrec EXCEPT ![j] = None] /\ jname' = [jname EXCEPT ![j] = "hash"]
      BY <2>3 DEF DecryptStore, JFinish
    <3>3. jrec[j] \in [Keys -> Chain \cup {None}] /\ jrec[j][key] \in Chain
      BY <1>3, <1>4, <3>1 DEF Readable
    <3>4. moved \in Chain
      BY <1>4, <3>1, <3>3, AdvanceType
    <3> HIDE DEF moved
    <3>5. new \in [Keys -> Chain \cup {None}]
      BY <3>3, <3>4
    <3> HIDE DEF new, key
    <3>6. chain' \in [Names -> [Keys -> Chain \cup {None}]]
      BY <1>2, <3>1, <3>5 DEF ReaderTypes
    <3>7. shown' \in Seq(Messages)
      BY <1>2, <1>4, <3>1, AppendProperties DEF ReaderTypes
    <3>8. /\ jpc' \in [Jobs -> {"idle", "learn", "learned", "open", "opened"}]
          /\ jmsg' \in [Jobs -> Packet \cup {None}] /\ jname' \in [Jobs -> Names]
          /\ jrec' \in [Jobs -> [Keys -> Chain \cup {None}] \cup {None}]
      BY <1>2, <3>2 DEF ReaderTypes, Names
    <3>9. ReaderTypes'
      BY <1>1, <1>2, <3>1, <3>6, <3>7, <3>8 DEF ReaderTypes
    <3>10. Holding'
      BY <1>2, <3>2 DEF Holding, ReaderTypes
    <3> QED BY <3>9, <3>10
  <2>4. CASE DecryptFails(j) /\ jname[j] = "hash"
    <3>1. /\ jname' = [jname EXCEPT ![j] = "bare"] /\ jpc' = [jpc EXCEPT ![j] = FirstStep(jmsg[j])]
          /\ UNCHANGED <<jmsg, jrec, failed, chain, shown>>
      BY <2>4 DEF DecryptFails
    <3>2. /\ FirstStep(jmsg[j]) \in {"open", "learn"}
          /\ FirstStep(jmsg[j]) = "learn" => jmsg[j].skdm # None
      BY DEF FirstStep
    <3>3. ReaderTypes'
      BY <1>1, <1>2, <3>1, <3>2 DEF ReaderTypes, Names
    <3>4. Holding'
      BY <1>2, <1>3, <3>1, <3>2 DEF Holding, ReaderTypes
    <3> QED BY <3>3, <3>4
  <2>5. CASE DecryptFails(j) /\ jname[j] # "hash"
    <3>1. /\ jpc' = [jpc EXCEPT ![j] = "idle"] /\ jmsg' = [jmsg EXCEPT ![j] = None]
          /\ jrec' = [jrec EXCEPT ![j] = None] /\ jname' = [jname EXCEPT ![j] = "hash"]
          /\ failed' = failed \cup {jmsg[j].id} /\ UNCHANGED <<chain, shown>>
      BY <2>5 DEF DecryptFails, JFinish
    <3>2. /\ jpc' \in [Jobs -> {"idle", "learn", "learned", "open", "opened"}]
          /\ jmsg' \in [Jobs -> Packet \cup {None}] /\ jname' \in [Jobs -> Names]
          /\ jrec' \in [Jobs -> [Keys -> Chain \cup {None}] \cup {None}]
      BY <1>2, <3>1 DEF ReaderTypes, Names
    <3>3. ReaderTypes'
      BY <1>1, <1>2, <1>4, <3>1, <3>2 DEF ReaderTypes
    <3>4. Holding'
      BY <1>2, <3>1 DEF Holding, ReaderTypes
    <3> QED BY <3>3, <3>4
  <2> QED BY <2>1, <2>2, <2>3, <2>4, <2>5
<1>7. EndsOK' /\ Aged' /\ Owned' /\ Loaded' /\ Quota'
  <2>1. SenderTypes' /\ Aged' /\ Owned' /\ Loaded' /\ Quota' /\ initialized' \in BOOLEAN
    BY <1>1, SenderKept DEF boundVars
  <2>2. member' \in BOOLEAN /\ Counts'
    BY <1>1, <1>2 DEF Flags, Counts, boundVars
  <2> QED BY <1>1, <1>2, <1>6, <2>1, <2>2 DEF EndsOK, SenderTypes, ReaderTypes, Counts
<1> QED BY <1>6, <1>7

\* What has been read is the beginning of the wire.
LEMMA CutWire ==
  ASSUME NEW S, NEW s \in Seq(S), NEW n \in 0..Len(s)
  PROVE  /\ SubSeq(s, 1, n) \in Seq(S) /\ Len(SubSeq(s, 1, n)) = n
         /\ \A i \in 1..n : SubSeq(s, 1, n)[i] = s[i]
<1>1. Len(s) \in Nat /\ n \in Nat
  BY LenProperties
<1>2. \A i \in 1..n : s[i] \in S
  BY <1>1, ElementOfSeq
<1> QED BY <1>1, <1>2

LEMMA NetworkTInv ==
  ASSUME TInv, LinkDown \/ Join
  PROVE  TInv'
<1> USE DEF TInv
<1>2. ReaderTypes /\ Flags /\ Counts /\ wire \in Seq(Packet)
  BY EndsOKParts
<1>1. SenderTypes' /\ Aged' /\ Owned' /\ Loaded' /\ Quota' /\ initialized' \in BOOLEAN
  BY SenderKept DEF LinkDown, Join, boundVars
<1>3. UNCHANGED readerVars /\ read' = read
  BY DEF LinkDown, Join
<1>4. Holding'
  BY <1>3 DEF Holding, readerVars
<1>5. wire' \in Seq(Packet) /\ read' \in 0..Len(wire')
  <2>1. CASE LinkDown
    BY <1>2, <1>3, <2>1, CutWire DEF LinkDown, ReaderTypes
  <2>2. CASE Join
    BY <1>2, <1>3, <2>2 DEF Join, ReaderTypes
  <2> QED BY <2>1, <2>2
<1>a. member' = member \/ member' = TRUE
  BY DEF LinkDown, Join
<1>b. member' \in BOOLEAN
  BY <1>2, <1>a, Zenon DEF Flags
<1>c. crashes' = crashes /\ (drops' = drops \/ (drops < MaxDrops /\ drops' = drops + 1))
  BY DEF LinkDown, Join, boundVars
<1>d. Counts'
  BY <1>2, <1>c, Bounds DEF Counts
<1>6. member' \in BOOLEAN /\ Counts'
  BY <1>b, <1>d
<1>7. EndsOK'
  BY <1>1, <1>2, <1>3, <1>5, <1>6 DEF EndsOK, SenderTypes, ReaderTypes, Counts, readerVars
<1> QED BY <1>1, <1>4, <1>7

\* A second collector is behind the first, and an overlap is not forgotten.
RaceOK == second \in 0..read /\ overlapped \in BOOLEAN

LEMMA InitRace == Init => RaceOK
<1> SUFFICES ASSUME Init PROVE RaceOK
  OBVIOUS
<1>1. second \in 0..read
  BY DEF Init
<1>2. overlapped \in BOOLEAN
  BY Zenon DEF Init
<1> QED BY <1>1, <1>2 DEF RaceOK

\* What the steps of a job do to the positions and to the history.
LEMMA TakeSteps ==
  ASSUME NEW j \in Jobs, ReadStep(j)
  PROVE  \/ /\ handleIncomingChat(j) /\ read' = read + 1 /\ second' = second
            /\ overlapped' = (overlapped \/ Reading)
         \/ /\ handleAgain(j) /\ read' = read /\ second < read /\ second' = second + 1
            /\ overlapped' = TRUE
         \/ /\ LearnLoad(j) \/ LearnStore(j) \/ DecryptLoad(j) \/ DecryptStore(j)
               \/ DecryptFails(j)
            /\ read' = read /\ second' = second /\ overlapped' = overlapped
<1>1. CASE handleIncomingChat(j)
  BY <1>1, Zenon DEF handleIncomingChat
<1>2. CASE handleAgain(j)
  BY <1>2, Zenon DEF handleAgain
<1>3. CASE LearnLoad(j) \/ LearnStore(j) \/ DecryptLoad(j) \/ DecryptStore(j) \/ DecryptFails(j)
  <2>1. read' = read /\ second' = second /\ overlapped' = overlapped
    BY <1>3 DEF LearnLoad, LearnStore, DecryptLoad, DecryptStore, DecryptFails, raceVars
  <2> QED BY <1>3, <2>1, Zenon
<1> QED BY <1>1, <1>2, <1>3 DEF ReadStep

\* The other steps leave the reader alone.
LEMMA OtherSteps ==
  ASSUME [Next]_vars
  PROVE  \/ UNCHANGED <<readerVars, read, raceVars>>
         \/ \E j \in Jobs : ReadStep(j)
<1>1. ASSUME NEW t \in Tasks, NEW m \in Messages, sendChannelMessage(t, m)
      PROVE  UNCHANGED <<readerVars, read, raceVars>>
  BY <1>1 DEF sendChannelMessage
<1>2. ASSUME NEW t \in Tasks, SendStep(t) \/ SendInVain(t)
      PROVE  UNCHANGED <<readerVars, read, raceVars>>
  BY <1>2 DEF SendStep, SendInVain, CheckFirst, CreateLoad, CreateStore, MarkInitialized,
              EncryptLoad, EncryptStore, SendPacket
<1>3. CASE Persist \/ Crash \/ LinkDown \/ Join
  BY <1>3 DEF Persist, Crash, LinkDown, Join
<1>4. CASE UNCHANGED vars
  BY <1>4 DEF vars
<1> QED BY <1>1, <1>2, <1>3, <1>4 DEF Next

LEMMA NextRace ==
  ASSUME TInv, RaceOK, [Next]_vars PROVE RaceOK'
<1>1. read \in Nat /\ second \in 0..read
  BY LenProperties DEF TInv, EndsOK, RaceOK
<1>2. CASE UNCHANGED <<readerVars, read, raceVars>>
  BY <1>2 DEF RaceOK, raceVars
<1>3. ASSUME NEW j \in Jobs, ReadStep(j) PROVE RaceOK'
  <2>1. \/ read' = read + 1 /\ second' = second
        \/ read' = read /\ second < read /\ second' = second + 1
        \/ read' = read /\ second' = second
    BY <1>3, TakeSteps, Zenon
  <2>2. second' \in 0..read'
    BY <1>1, <2>1
  <2>3. \/ overlapped' = (overlapped \/ Reading)
        \/ overlapped' = TRUE
        \/ overlapped' = overlapped
    BY <1>3, TakeSteps, Zenon
  <2>4. overlapped' \in BOOLEAN
    BY <2>3, Zenon DEF RaceOK
  <2> QED BY <2>2, <2>4 DEF RaceOK
<1> QED BY <1>2, <1>3, OtherSteps

LEMMA NextTInv == TInv /\ RaceOK /\ [Next]_vars => TInv'
<1> SUFFICES ASSUME TInv, RaceOK, [Next]_vars PROVE TInv'
  OBVIOUS
<1>1. ASSUME NEW t \in Tasks, \/ \E m \in Messages : sendChannelMessage(t, m)
                              \/ SendStep(t) \/ SendInVain(t)
      PROVE  TInv'
  BY <1>1, SubmitTInv, StepTInv, GenerateTInv, EncryptTInv, SendTInv DEF SendStep
<1>2. ASSUME NEW j \in Jobs, ReadStep(j) PROVE TInv'
  <2>0. read \in 0..Len(wire) /\ Len(wire) \in Nat /\ second \in 0..read
    BY LenProperties DEF TInv, EndsOK, RaceOK
  <2>1. CASE handleIncomingChat(j)
    <3>1. /\ read + 1 \in 1..Len(wire) /\ read' \in 0..Len(wire) /\ Take(j, wire[read + 1])
          /\ UNCHANGED <<senderVars, wire, member, chain, jrec, shown, failed, boundVars>>
      BY <2>0, <2>1 DEF handleIncomingChat
    <3> QED BY <3>1, TakeTInv
  <2>2. CASE handleAgain(j)
    <3>1. /\ second + 1 \in 1..Len(wire) /\ read' \in 0..Len(wire) /\ Take(j, wire[second + 1])
          /\ UNCHANGED <<senderVars, wire, member, chain, jrec, shown, failed, boundVars>>
      BY <2>0, <2>2 DEF handleAgain
    <3> QED BY <3>1, TakeTInv
  <2> QED BY <1>2, <2>1, <2>2, ReadTInv DEF ReadStep
<1>3. CASE Persist \/ Crash
  BY <1>3, ProcessTInv
<1>4. CASE LinkDown \/ Join
  BY <1>4, NetworkTInv
<1>5. CASE UNCHANGED vars
  <2>1. SenderTypes' /\ Aged' /\ Owned' /\ Loaded' /\ Quota'
    BY <1>5, SenderKept DEF vars, boundVars
  <2> QED BY <1>5, <2>1 DEF vars, TInv, EndsOK, Holding, senderVars, readerVars, boundVars
<1> QED BY <1>1, <1>2, <1>3, <1>4, <1>5 DEF Next

\* The variables keep their types, for any number of tasks, jobs, messages and
\* crashes: no process generates more keys than it has tasks, and no chain is
\* longer than the messages that were written, though nothing bounds either.
THEOREM TypeCorrect == Spec => []TypeOK
<1>1. TInv /\ RaceOK => TypeOK
  BY DEF TInv, RaceOK, TypeOK
<1> QED BY InitTInv, InitRace, NextTInv, NextRace, <1>1, PTL DEF Spec
-----------------------------------------------------------------------------
(* Unreadable messages. As long as no two coroutines have overlapped, there *)
(* is one who reads, or may be next (Reader), and the chain under the first *)
(* name of the channel can read whatever the last distribution of a key     *)
(* opens, save what it has read since; so what it cannot read has no such   *)
(* distribution, or shares its key with a message read before.              *)

\* A message is written once, and is with one task or on the wire once.
WireIds == \A i \in 1..Len(wire) :
  /\ wire[i].id \in submitted
  /\ \A t \in Tasks : msg[t] # wire[i].id
  /\ \A k \in 1..Len(wire) : wire[k].id = wire[i].id => k = i

\* The processes of the sender come one after another.
Lives == \A i \in 1..Len(wire) : /\ wire[i].life <= crashes
                                 /\ \A k \in 1..i : wire[k].life <= wire[i].life

\* The job has the packet read last, and the record it loaded is still the one stored.
Follows(j) ==
  /\ jpc[j] = "idle" => jname[j] = "hash"
  /\ jpc[j] # "idle" => read > 0 /\ jmsg[j] = wire[read]
  /\ jpc[j] \in {"learned", "opened"} => jrec[j] = chain[jname[j]]

\* How many packets the chain "hash" has learned from, and has been tried on.
Learnt(j) == IF jpc[j] \in {"learn", "learned"} /\ jname[j] = "hash" THEN read - 1 ELSE read
Tried(j) == IF jpc[j] # "idle" /\ jname[j] = "hash" THEN read - 1 ELSE read

Distributes(d, key) == wire[d].skdm # None /\ wire[d].skdm.key = key
LastOf(d, key, n) == d \in 1..n /\ Distributes(d, key) /\ \A e \in (d + 1)..n : ~Distributes(e, key)
Used(d, n, key, x) == \E e \in d..n : wire[e].key = key /\ wire[e].iter = x
Reaches(j) == \A key \in Keys, d \in 1..read :
  LastOf(d, key, Learnt(j)) =>
    \A x \in Iterations : x >= wire[d].skdm.iter =>
      Readable(chain["hash"][key], x) \/ Used(d, Tried(j), key, x)

Excused(i) == \/ ~HasKey(i)
              \/ \E k \in 1..(i - 1) : /\ wire[k].life = wire[i].life
                                       /\ wire[k].key = wire[i].key
                                       /\ wire[k].iter = wire[i].iter
FailedIds == \A m \in failed : \E i \in 1..read : wire[i].id = m
Failing(j) == \A i \in 1..read :
  wire[i].id \in failed \/ (i = read /\ jpc[j] # "idle" /\ jname[j] = "bare") => Excused(i)

WInv(j) == WireIds /\ Lives /\ Follows(j) /\ Reaches(j) /\ FailedIds /\ Failing(j)

LEMMA InitWInv == ASSUME NEW j \in Jobs, Init PROVE WInv(j)
<1>1. /\ wire = << >> /\ Len(wire) = 0 /\ read = 0 /\ failed = {}
      /\ jpc[j] = "idle" /\ jname[j] = "hash"
  BY DEF Init
<1>2. 1..Len(wire) = {} /\ 1..read = {}
  BY <1>1
<1> QED BY <1>1, <1>2 DEF WInv, WireIds, Lives, Follows, Reaches, FailedIds, Failing

\* What is written, sent or lost behind what was read changes nothing for the reader.
LEMMA BehindRead ==
  ASSUME TInv, NEW j \in Jobs, WInv(j), UNCHANGED readerVars, read' = read,
         wire' \in Seq(Packet), read <= Len(wire'), \A i \in 1..read : wire'[i] = wire[i],
         WireIds', Lives'
  PROVE  WInv(j)'
<1> USE DEF WInv
<1>1. /\ UNCHANGED <<chain, jpc, jmsg, jname, jrec, failed>>
      /\ read \in Nat /\ Len(wire) \in Nat /\ read <= Len(wire)
  BY LenProperties DEF readerVars, TInv, EndsOK
<1>2. Learnt(j)' = Learnt(j) /\ Tried(j)' = Tried(j) /\ Learnt(j) \in {read, read - 1}
      /\ Tried(j) \in {read, read - 1}
  BY <1>1 DEF Learnt, Tried
<1>3. Follows(j)'
  BY <1>1 DEF Follows
<1>4. ASSUME NEW key \in Keys, NEW d \in 1..read, LastOf(d, key, Learnt(j))',
             NEW x \in Iterations, x >= wire'[d].skdm.iter
      PROVE  Readable(chain["hash"][key], x)' \/ Used(d, Tried(j), key, x)'
  <2>1. \A e \in 1..read : Distributes(e, key)' <=> Distributes(e, key)
    BY DEF Distributes
  <2>2. LastOf(d, key, Learnt(j))
    BY <1>1, <1>2, <1>4, <2>1 DEF LastOf
  <2>3. Readable(chain["hash"][key], x) \/ Used(d, Tried(j), key, x)
    BY <1>4, <2>2 DEF Reaches
  <2>4. Used(d, Tried(j), key, x) => Used(d, Tried(j), key, x)'
    BY <1>1, <1>2 DEF Used
  <2> QED BY <1>1, <2>3, <2>4 DEF Readable
<1>5. Reaches(j)'
  BY <1>1, <1>4 DEF Reaches
<1>6. FailedIds'
  BY <1>1 DEF FailedIds
<1>7. \A i \in 1..read : Excused(i) => Excused(i)'
  <2> SUFFICES ASSUME NEW i \in 1..read PROVE Excused(i) => Excused(i)'
    OBVIOUS
  <2>1. \A k \in 1..i : wire'[k] = wire[k]
    BY <1>1
  <2>2. i \in 1..i /\ 1..(i - 1) \subseteq 1..i /\ \A d \in 1..i : (d + 1)..i \subseteq 1..i
    BY <1>1
  <2>3. HasKey(i)' => HasKey(i)
    BY <2>1, <2>2 DEF HasKey, Opens
  <2> QED BY <2>1, <2>2, <2>3 DEF Excused
<1>8. Failing(j)'
  BY <1>1, <1>7 DEF Failing
<1> QED BY <1>3, <1>5, <1>6, <1>8

\* The wire is as it was, and no task has a message that is on it.
LEMMA WireKept ==
  ASSUME TInv, WireIds, Lives, wire' = wire, submitted \subseteq submitted',
         crashes' \in Nat, crashes <= crashes',
         \A t \in Tasks : \/ msg'[t] = msg[t] \/ msg'[t] = None \/ msg'[t] \notin submitted
  PROVE  WireIds' /\ Lives'
<1>1. /\ wire \in Seq(Packet) /\ crashes \in Nat /\ Len(wire) \in Nat
  BY Bounds, LenProperties DEF TInv, EndsOK
<1>2. \A i \in 1..Len(wire) : wire[i] \in Packet
  BY <1>1, ElementOfSeq
<1>3. \A i \in 1..Len(wire) : wire[i].id # None /\ wire[i].life \in Nat
  BY <1>2, Bounds DEF Packet
<1>4. WireIds'
  BY <1>3 DEF WireIds
<1>5. Lives'
  BY <1>1, <1>3 DEF Lives
<1> QED BY <1>4, <1>5

\* A packet is added: its message was with the task alone.
LEMMA WireGrows ==
  ASSUME TInv, WireIds, Lives, NEW t \in Tasks, SendPacket(t), wire' = Append(wire, packet(t))
  PROVE  /\ WireIds' /\ Lives' /\ wire' \in Seq(Packet) /\ Len(wire) <= Len(wire')
         /\ \A i \in 1..Len(wire) : wire'[i] = wire[i]
<1> DEFINE n == Len(wire)
           p == packet(t)
<1>1. /\ wire \in Seq(Packet) /\ crashes \in Nat /\ n \in Nat
      /\ rec[t] \in Record /\ skdm[t] \in Record \cup {None} /\ msg[t] \in Messages
      /\ msg[t] \in submitted /\ \A u \in Tasks \ {t} : msg[u] # msg[t]
      /\ pc[t] = "send" /\ crashes \in 0..MaxCrashes
  BY Bounds, LenProperties DEF TInv, EndsOK, SendPacket, Owned, Loaded
<1>2. p \in Packet /\ p.id = msg[t] /\ p.life = crashes
  BY <1>1 DEF packet, Packet, Record
<1>3. /\ msg' = [msg EXCEPT ![t] = None] /\ submitted' = submitted /\ crashes' = crashes
  BY DEF SendPacket, Finish, boundVars
<1> HIDE DEF p
<1>4. /\ wire' \in Seq(Packet) /\ Len(wire') = n + 1 /\ wire'[n + 1] = p
      /\ \A i \in 1..n : wire'[i] = wire[i]
  BY <1>1, <1>2, AppendProperties DEF p
<1>5. \A i \in 1..n : wire[i] \in Packet
  BY <1>1, ElementOfSeq
<1>6. \A i \in 1..n : wire[i].id \in Messages /\ wire[i].life \in Nat
  BY <1>5, Bounds DEF Packet
<1>7. \A i \in 1..(n + 1) : i \in 1..n \/ i = n + 1
  BY <1>1
<1>8. \A u \in Tasks : msg'[u] = IF u = t THEN None ELSE msg[u]
  BY <1>1, <1>3 DEF TInv, EndsOK
<1>9. WireIds'
  <2> SUFFICES ASSUME NEW i \in 1..(n + 1)
               PROVE  /\ wire'[i].id \in submitted
                      /\ \A u \in Tasks : msg'[u] # wire'[i].id
                      /\ \A k \in 1..(n + 1) : wire'[k].id = wire'[i].id => k = i
    BY <1>3, <1>4 DEF WireIds
  <2>1. CASE i \in 1..n
    <3>1. /\ wire'[i].id \in submitted /\ \A u \in Tasks : msg[u] # wire[i].id
          /\ \A k \in 1..n : wire[k].id = wire[i].id => k = i
      BY <2>1, <1>4 DEF WireIds
    <3>2. wire'[i].id # None
      BY <2>1, <1>4, <1>6, Bounds
    <3>3. wire'[n + 1].id # wire'[i].id
      BY <2>1, <3>1, <1>2, <1>4
    <3> QED BY <2>1, <3>1, <3>2, <3>3, <1>4, <1>7, <1>8
  <2>2. CASE i = n + 1
    <3>1. \A k \in 1..n : wire[k].id # msg[t]
      BY DEF WireIds
    <3> QED BY <2>2, <3>1, <1>1, <1>2, <1>4, <1>7, <1>8, Bounds
  <2> QED BY <1>7, <2>1, <2>2
<1>10. Lives'
  <2> SUFFICES ASSUME NEW i \in 1..(n + 1)
               PROVE  wire'[i].life <= crashes /\ \A k \in 1..i : wire'[k].life <= wire'[i].life
    BY <1>3, <1>4 DEF Lives
  <2>1. CASE i \in 1..n
    <3>1. \A k \in 1..i : k \in 1..n
      BY <1>1, <2>1
    <3> QED BY <2>1, <3>1, <1>4 DEF Lives
  <2>2. CASE i = n + 1
    <3>1. \A k \in 1..n : wire'[k].life <= crashes
      BY <1>4 DEF Lives
    <3> QED BY <2>2, <3>1, <1>1, <1>2, <1>4, <1>7
  <2> QED BY <1>7, <2>1, <2>2
<1> QED BY <1>1, <1>4, <1>9, <1>10

\* The sender, its process, and the network.
LEMMA SenderWInv ==
  ASSUME TInv, TInv', NEW j \in Jobs, WInv(j), [Next]_vars, UNCHANGED readerVars, read' = read
  PROVE  WInv(j)'
<1>1. /\ WireIds /\ Lives
      /\ wire \in Seq(Packet) /\ wire' \in Seq(Packet) /\ read \in 0..Len(wire)
      /\ Len(wire) \in Nat /\ crashes \in Nat /\ crashes' \in Nat
      /\ submitted \subseteq Messages /\ msg \in [Tasks -> Messages \cup {None}]
  BY LenProperties, Bounds DEF WInv, TInv, EndsOK
<1>2. CASE /\ wire' = wire /\ submitted \subseteq submitted' /\ crashes <= crashes'
           /\ \A t \in Tasks : \/ msg'[t] = msg[t] \/ msg'[t] = None \/ msg'[t] \notin submitted
  <2>1. WireIds' /\ Lives'
    BY <1>1, <1>2, WireKept
  <2> QED BY <1>1, <1>2, <2>1, BehindRead
<1>3. ASSUME NEW t \in Tasks, SendPacket(t), wire' = Append(wire, packet(t)) PROVE WInv(j)'
  <2>1. /\ WireIds' /\ Lives' /\ Len(wire) <= Len(wire')
        /\ \A i \in 1..Len(wire) : wire'[i] = wire[i]
    BY <1>1, <1>3, WireGrows
  <2>2. Len(wire') \in Nat
    BY <1>1, LenProperties
  <2>3. read <= Len(wire') /\ \A i \in 1..read : wire'[i] = wire[i]
    BY <1>1, <2>1, <2>2
  <2> QED BY <1>1, <2>1, <2>3, BehindRead
<1>4. CASE LinkDown
  <2>1. /\ wire' = SubSeq(wire, 1, read) /\ UNCHANGED <<submitted, msg, crashes>>
    BY <1>4 DEF LinkDown, senderVars
  <2>2. Len(wire') = read /\ \A i \in 1..read : wire'[i] = wire[i]
    BY <1>1, <2>1, CutWire
  <2>3. \A i \in 1..read : i \in 1..Len(wire) /\ 1..i \subseteq 1..read
    BY <1>1
  <2>4. WireIds'
    BY <1>1, <2>1, <2>2, <2>3 DEF WireIds
  <2>5. Lives'
    BY <1>1, <2>1, <2>2, <2>3 DEF Lives
  <2> QED BY <1>1, <2>2, <2>4, <2>5, BehindRead
<1>5. ASSUME NEW t \in Tasks, NEW m \in Messages, sendChannelMessage(t, m) PROVE WInv(j)'
  BY <1>1, <1>2, <1>5 DEF sendChannelMessage, boundVars
<1>6. ASSUME NEW t \in Tasks, SendStep(t) PROVE WInv(j)'
  <2>1. CASE SendPacket(t)
    <3>1. /\ msg' = [msg EXCEPT ![t] = None] /\ submitted' = submitted /\ crashes' = crashes
      BY <2>1 DEF SendPacket, Finish, boundVars
    <3>2. wire' = wire \/ wire' = Append(wire, packet(t))
      BY <2>1 DEF SendPacket
    <3> QED BY <1>1, <1>2, <1>3, <2>1, <3>1, <3>2
  <2>2. CASE CheckFirst(t) \/ CreateLoad(t) \/ CreateStore(t) \/ MarkInitialized(t)
             \/ EncryptLoad(t) \/ EncryptStore(t)
    BY <1>1, <1>2, <2>2 DEF CheckFirst, CreateLoad, CreateStore, MarkInitialized, EncryptLoad,
                            EncryptStore, boundVars
  <2> QED BY <1>6, <2>1, <2>2 DEF SendStep
<1>7. ASSUME NEW t \in Tasks, SendInVain(t) PROVE WInv(j)'
  BY <1>1, <1>2, <1>7 DEF SendInVain, Finish
<1>8. CASE Persist \/ Crash \/ Join \/ UNCHANGED vars
  BY <1>1, <1>2, <1>8 DEF Persist, Crash, Join, vars, senderVars, boundVars
<1>9. ASSUME NEW k \in Jobs, ReadStep(k) PROVE WInv(j)'
  BY <1>1, <1>2, <1>9 DEF ReadStep, handleIncomingChat, handleAgain, LearnLoad, LearnStore, DecryptLoad,
                          DecryptStore, DecryptFails, senderVars, boundVars
<1> QED BY <1>4, <1>5, <1>6, <1>7, <1>8, <1>9 DEF Next

LEMMA ChainsAreNotNone == None \notin Chain
<1>1. Cardinality(Messages) + 1 \in Nat /\ Iterations \subseteq Nat
  BY Bounds
<1>2. Chain \subseteq [iter : Nat, skipped : SUBSET Nat]
  BY <1>1 DEF Chain
<1> QED BY <1>2, NoneAssumption

\* Whoever reads an iteration can still read every other one.
LEMMA AdvanceReads ==
  ASSUME NEW c \in Chain, NEW i \in Iterations, NEW x \in Iterations, x # i,
         Readable(c, i), Readable(c, x)
  PROVE  Readable(Advance(c, i), x)
<1>1. Advance(c, i) # None
  BY AdvanceType, ChainsAreNotNone
<1>2. i \in Nat /\ x \in Nat /\ c.iter \in Nat
  <2>1. Iterations \subseteq Nat /\ Cardinality(Messages) + 1 \in Nat
    BY Bounds
  <2> QED BY <2>1 DEF Chain
<1>3. x >= c.iter \/ x \in c.skipped
  BY DEF Readable
<1>4. CASE i >= c.iter
  <2>1. /\ Advance(c, i).iter = i + 1
        /\ Advance(c, i).skipped = c.skipped \cup (c.iter..(i - 1))
    BY <1>4 DEF Advance
  <2>2. x >= i + 1 \/ x \in c.iter..(i - 1) \/ x \in c.skipped
    BY <1>2, <1>3
  <2> QED BY <1>1, <2>1, <2>2 DEF Readable
<1>5. CASE ~(i >= c.iter)
  <2>1. Advance(c, i) = [iter |-> c.iter, skipped |-> c.skipped \ {i}]
    BY <1>5 DEF Advance, Chain
  <2> QED BY <1>1, <1>3, <2>1 DEF Readable
<1> QED BY <1>4, <1>5

\* What a step of the job finds.
LEMMA JobFacts ==
  ASSUME TInv, NEW j \in Jobs, WInv(j)
  PROVE  /\ read \in Nat /\ Len(wire) \in Nat /\ 1..read \subseteq 1..Len(wire)
         /\ \A i \in 1..Len(wire) : /\ wire[i] \in Packet
                                    /\ wire[i].key \in Keys /\ wire[i].iter \in Iterations
         /\ jpc[j] \in {"idle", "learn", "learned", "open", "opened"}
         /\ jname[j] \in {"hash", "bare"}
         /\ jpc[j] = "idle" => jname[j] = "hash"
         /\ jpc[j] # "idle" => read \in 1..read /\ jmsg[j] = wire[read]
         /\ jpc[j] \in {"learn", "learned"} => Distributes(read, wire[read].skdm.key)
         /\ jpc[j] \in {"learned", "opened"} => jrec[j] = chain[jname[j]]
         /\ DOMAIN chain = {"hash", "bare"}
         /\ chain["hash"] \in [Keys -> Chain \cup {None}]
<1>1. /\ wire \in Seq(Packet) /\ read \in 0..Len(wire) /\ Len(wire) \in Nat
      /\ jpc[j] \in {"idle", "learn", "learned", "open", "opened"} /\ jname[j] \in Names
      /\ chain \in [Names -> [Keys -> Chain \cup {None}]]
  BY LenProperties DEF TInv, EndsOK
<1>2. \A i \in 1..Len(wire) : wire[i] \in Packet
  BY <1>1, ElementOfSeq
<1>3. read \in Nat /\ 1..read \subseteq 1..Len(wire)
  BY <1>1
<1>4. Follows(j)
  BY DEF WInv
<1>5. jpc[j] # "idle" => read \in 1..read
  BY <1>3, <1>4 DEF Follows
<1>6. jpc[j] \in {"learn", "learned"} => Distributes(read, wire[read].skdm.key)
  BY <1>4 DEF Follows, TInv, Holding, Distributes
<1> QED BY <1>1, <1>2, <1>3, <1>4, <1>5, <1>6 DEF Follows, Names, Packet

\* What is on the wire stays, whoever reads it; only the new failures are of interest.
LEMMA FailingKept ==
  ASSUME TInv, NEW j \in Jobs, WInv(j), wire' = wire, failed' = failed,
         read' = read \/ read' = read + 1, read' <= Len(wire),
         \/ jpc'[j] = "idle" \/ jname'[j] = "hash"
         \/ (read' = read /\ jpc[j] # "idle" /\ jname[j] = "bare")
  PROVE  FailedIds' /\ Failing(j)'
<1>1. read \in Nat /\ Len(wire) \in Nat /\ 1..read \subseteq 1..Len(wire)
  BY JobFacts
<1>2. /\ read' \in Nat /\ 1..read \subseteq 1..read'
      /\ 1..read' \subseteq 1..Len(wire)
  BY <1>1
<1>3. FailedIds'
  BY <1>2 DEF WInv, FailedIds
<1>4. \A i : Excused(i)' <=> Excused(i)
  BY DEF Excused, HasKey, Opens
<1>5. ASSUME NEW i \in 1..read', wire[i].id \in failed PROVE Excused(i)
  <2>1. PICK k \in 1..read : wire[k].id = wire[i].id
    BY <1>5 DEF WInv, FailedIds
  <2>2. k = i
    BY <1>1, <1>2, <2>1 DEF WInv, WireIds
  <2> QED BY <1>5, <2>1, <2>2 DEF WInv, Failing
<1>6. ASSUME NEW i \in 1..read', i = read', jpc'[j] # "idle", jname'[j] = "bare"
      PROVE  Excused(i)
  BY <1>6 DEF WInv, Failing
<1> QED BY <1>3, <1>4, <1>5, <1>6 DEF Failing

\* A job takes the next message.
LEMMA TakeWInv ==
  ASSUME TInv, NEW j \in Jobs, WInv(j), handleIncomingChat(j), WireIds', Lives'
  PROVE  WInv(j)'
<1>1. /\ jpc[j] = "idle" /\ read < Len(wire) /\ read' = read + 1 /\ wire' = wire
      /\ jmsg' = [jmsg EXCEPT ![j] = wire[read + 1]] /\ jname' = [jname EXCEPT ![j] = "hash"]
      /\ jpc' = [jpc EXCEPT ![j] = FirstStep(wire[read + 1])]
      /\ chain' = chain /\ failed' = failed
  BY DEF handleIncomingChat, Take, JGoto
<1>2. /\ jmsg'[j] = wire[read + 1] /\ jname'[j] = "hash"
      /\ jpc'[j] = FirstStep(wire[read + 1]) /\ jpc'[j] \in {"learn", "open"}
      /\ jpc'[j] = "open" => wire[read + 1].skdm = None
  BY <1>1 DEF TInv, EndsOK, FirstStep
<1>3. /\ read \in Nat /\ Len(wire) \in Nat /\ jname[j] = "hash"
      /\ read' \in Nat /\ read' - 1 = read /\ read' > 0 /\ 1..read \subseteq 1..read'
      /\ \A i \in 1..read' : i \in 1..read \/ i = read + 1
  BY <1>1, JobFacts
<1>4. Follows(j)'
  BY <1>1, <1>2, <1>3 DEF Follows
<1>5. Learnt(j) = read /\ Tried(j) = read /\ Tried(j)' = read
  BY <1>1, <1>2, <1>3 DEF Learnt, Tried
<1>6. ASSUME NEW key \in Keys, NEW d \in 1..read', LastOf(d, key, Learnt(j)')
      PROVE  d \in 1..read /\ LastOf(d, key, read)
  <2>1. CASE jpc'[j] = "learn"
    BY <1>1, <1>2, <1>3, <1>6, <2>1 DEF Learnt, LastOf
  <2>2. CASE jpc'[j] = "open"
    <3>1. Learnt(j)' = read + 1 /\ ~Distributes(read + 1, key)
      BY <1>1, <1>2, <2>2 DEF Learnt, Distributes
    <3>2. d # read + 1 /\ d \in 1..read
      BY <1>3, <1>6, <3>1 DEF LastOf
    <3>3. \A e \in (d + 1)..read : e \in (d + 1)..(read + 1)
      BY <1>3
    <3> QED BY <1>6, <3>1, <3>2, <3>3 DEF LastOf
  <2> QED BY <1>2, <2>1, <2>2
<1>7. ASSUME NEW key \in Keys, NEW d \in 1..read', LastOf(d, key, Learnt(j))',
             NEW x \in Iterations, x >= wire'[d].skdm.iter
      PROVE  Readable(chain["hash"][key], x)' \/ Used(d, Tried(j), key, x)'
  <2>1. d \in 1..read /\ LastOf(d, key, read)
    BY <1>1, <1>6, <1>7 DEF LastOf, Distributes
  <2>2. Readable(chain["hash"][key], x) \/ Used(d, read, key, x)
    BY <1>1, <1>5, <1>7, <2>1 DEF WInv, Reaches
  <2> QED BY <1>1, <1>5, <2>2 DEF Readable, Used
<1>8. Reaches(j)'
  BY <1>1, <1>7 DEF Reaches
<1>9. FailedIds' /\ Failing(j)'
  BY <1>1, <1>2, <1>3, FailingKept
<1> QED BY <1>4, <1>8, <1>9 DEF WInv

\* A job loads a record.
LEMMA LoadWInv ==
  ASSUME TInv, NEW j \in Jobs, WInv(j), LearnLoad(j) \/ DecryptLoad(j), WireIds', Lives'
  PROVE  WInv(j)'
<1>1. /\ jrec' = [jrec EXCEPT ![j] = chain[jname[j]]]
      /\ UNCHANGED <<wire, read, chain, jmsg, jname, failed>>
      /\ \/ jpc[j] = "learn" /\ jpc' = [jpc EXCEPT ![j] = "learned"]
         \/ jpc[j] = "open" /\ jpc' = [jpc EXCEPT ![j] = "opened"]
  BY DEF LearnLoad, DecryptLoad, JGoto
<1>2. /\ jrec'[j] = chain[jname[j]]
      /\ \/ jpc[j] = "learn" /\ jpc'[j] = "learned"
         \/ jpc[j] = "open" /\ jpc'[j] = "opened"
  BY <1>1 DEF TInv, EndsOK
<1>3. Follows(j)'
  BY <1>1, <1>2 DEF WInv, Follows
<1>4. Learnt(j)' = Learnt(j) /\ Tried(j)' = Tried(j)
  BY <1>1, <1>2 DEF Learnt, Tried
<1>5. Reaches(j)'
  BY <1>1, <1>4 DEF WInv, Reaches, Readable, LastOf, Distributes, Used
<1>6. FailedIds' /\ Failing(j)'
  BY <1>1, <1>2, JobFacts, FailingKept
<1> QED BY <1>3, <1>5, <1>6 DEF WInv

\* A job stores the chain that an SKDM begins.
LEMMA LearnWInv ==
  ASSUME TInv, NEW j \in Jobs, WInv(j), LearnStore(j), WireIds', Lives'
  PROVE  WInv(j)'
<1> DEFINE s == wire[read].skdm
           new == [iter |-> s.iter, skipped |-> {}]
<1>1. /\ jpc[j] = "learned" /\ jpc' = [jpc EXCEPT ![j] = "open"]
      /\ UNCHANGED <<wire, read, jmsg, jname, jrec, failed>>
  BY DEF LearnStore, JGoto
<1>2. jpc'[j] = "open"
  BY <1>1 DEF TInv, EndsOK
<1>3. /\ jmsg[j] = wire[read] /\ jrec[j] = chain[jname[j]] /\ read \in 1..read /\ read \in Nat
      /\ jname[j] \in {"hash", "bare"} /\ Distributes(read, s.key)
      /\ DOMAIN chain = {"hash", "bare"} /\ chain["hash"] \in [Keys -> Chain \cup {None}]
      /\ wire[read] \in Packet
  BY <1>1, JobFacts
<1>4. chain' = [chain EXCEPT ![jname[j]] = [chain[jname[j]] EXCEPT ![s.key] = new]]
  BY <1>3 DEF LearnStore
<1>5. s \in Record /\ s.key \in Keys /\ s.iter \in Iterations /\ s # None
  BY <1>3 DEF Packet, Distributes, Record
<1>6. new # None
  <2>1. new \in Chain
    BY <1>5 DEF Chain
  <2> QED BY <2>1, ChainsAreNotNone
<1>7. Follows(j)'
  BY <1>1, <1>2 DEF WInv, Follows
<1>8. FailedIds' /\ Failing(j)'
  BY <1>1, <1>2, <1>3, JobFacts, FailingKept
<1>9. CASE jname[j] = "hash"
  <2>1. Learnt(j) = read - 1 /\ Tried(j) = read - 1 /\ Learnt(j)' = read /\ Tried(j)' = read - 1
    BY <1>1, <1>2, <1>9 DEF Learnt, Tried
  <2>2. \A key \in Keys : chain'["hash"][key] = IF key = s.key THEN new ELSE chain["hash"][key]
    BY <1>3, <1>4, <1>9
  <2>3. ASSUME NEW key \in Keys, NEW d \in 1..read, LastOf(d, key, read),
               NEW x \in Iterations, x >= wire[d].skdm.iter
        PROVE  Readable(chain'["hash"][key], x) \/ Used(d, read - 1, key, x)
    <3>1. CASE key = s.key
      <4>1. d = read
        <5>1. d < read => read \in (d + 1)..read
          BY <1>3
        <5> QED BY <1>3, <2>3, <3>1, <5>1 DEF LastOf
      <4> HIDE DEF s
      <4>2. x >= new.iter
        BY <2>3, <4>1 DEF s
      <4> QED BY <1>6, <2>2, <3>1, <4>2 DEF Readable
    <3>2. CASE key # s.key
      <4>1. d # read
        BY <1>3, <2>3, <3>2 DEF LastOf, Distributes
      <4>2. d \in 1..(read - 1) /\ \A e \in (d + 1)..(read - 1) : e \in (d + 1)..read
        BY <1>3, <4>1
      <4>3. LastOf(d, key, read - 1)
        BY <2>3, <4>2 DEF LastOf
      <4>4. Readable(chain["hash"][key], x) \/ Used(d, read - 1, key, x)
        BY <2>1, <2>3, <4>3 DEF WInv, Reaches
      <4> QED BY <2>2, <3>2, <4>4
    <3> QED BY <3>1, <3>2
  <2>4. Reaches(j)'
    BY <1>1, <2>1, <2>3 DEF Reaches, LastOf, Distributes, Readable, Used
  <2> QED BY <1>7, <1>8, <2>4 DEF WInv
<1>10. CASE jname[j] = "bare"
  <2>1. Learnt(j)' = Learnt(j) /\ Tried(j)' = Tried(j)
    BY <1>1, <1>2, <1>10 DEF Learnt, Tried
  <2>2. chain'["hash"] = chain["hash"]
    BY <1>3, <1>4, <1>10
  <2>3. Reaches(j)'
    BY <1>1, <2>1, <2>2 DEF WInv, Reaches, LastOf, Distributes, Readable, Used
  <2> QED BY <1>7, <1>8, <2>3 DEF WInv
<1> QED BY <1>3, <1>9, <1>10

\* A job reads its message.
LEMMA ReadWInv ==
  ASSUME TInv, NEW j \in Jobs, WInv(j), DecryptStore(j), WireIds', Lives'
  PROVE  WInv(j)'
<1> DEFINE m == wire[read]
<1>1. /\ jpc[j] = "opened" /\ jpc' = [jpc EXCEPT ![j] = "idle"]
      /\ jname' = [jname EXCEPT ![j] = "hash"]
      /\ UNCHANGED <<wire, read, failed>>
  BY DEF DecryptStore, JFinish, JGoto
<1>2. jpc'[j] = "idle" /\ jname'[j] = "hash"
  BY <1>1 DEF TInv, EndsOK
<1>3. /\ jmsg[j] = m /\ jrec[j] = chain[jname[j]] /\ read \in 1..read /\ read \in Nat
      /\ jname[j] \in {"hash", "bare"} /\ m.key \in Keys /\ m.iter \in Iterations
      /\ DOMAIN chain = {"hash", "bare"} /\ chain["hash"] \in [Keys -> Chain \cup {None}]
  BY <1>1, JobFacts
<1>4. /\ Readable(chain[jname[j]][m.key], m.iter)
      /\ chain' = [chain EXCEPT ![jname[j]] =
                     [chain[jname[j]] EXCEPT ![m.key] = Advance(@, m.iter)]]
  BY <1>3 DEF DecryptStore
<1> HIDE DEF m
<1>5. Follows(j)'
  BY <1>1, <1>2 DEF Follows
<1>6. FailedIds' /\ Failing(j)'
  BY <1>1, <1>2, <1>3, JobFacts, FailingKept
<1>7. CASE jname[j] = "hash"
  <2>1. Learnt(j) = read /\ Tried(j) = read - 1 /\ Learnt(j)' = read /\ Tried(j)' = read
    BY <1>1, <1>2, <1>7 DEF Learnt, Tried
  <2>2. \A key \in Keys : chain'["hash"][key] = IF key = m.key
                                                THEN Advance(chain["hash"][key], m.iter)
                                                ELSE chain["hash"][key]
    BY <1>3, <1>4, <1>7
  <2>3. ASSUME NEW key \in Keys, NEW d \in 1..read, LastOf(d, key, read),
               NEW x \in Iterations, x >= wire[d].skdm.iter
        PROVE  Readable(chain'["hash"][key], x) \/ Used(d, read, key, x)
    <3>1. Readable(chain["hash"][key], x) \/ Used(d, read - 1, key, x)
      BY <2>1, <2>3 DEF WInv, Reaches
    <3>2. read \in d..read /\ \A e \in d..(read - 1) : e \in d..read
      BY <1>3
    <3>3. CASE Used(d, read - 1, key, x)
      BY <3>2, <3>3 DEF Used
    <3>4. CASE key = m.key /\ x = m.iter
      BY <3>2, <3>4 DEF Used, m
    <3>5. CASE key = m.key /\ x # m.iter /\ Readable(chain["hash"][key], x)
      <4>1. /\ chain["hash"][key] \in Chain /\ Readable(chain["hash"][key], m.iter)
        BY <1>3, <1>4, <1>7, <3>5 DEF Readable
      <4>2. Readable(Advance(chain["hash"][key], m.iter), x)
        BY <1>3, <3>5, <4>1, AdvanceReads
      <4> QED BY <2>2, <3>5, <4>2
    <3>6. CASE key # m.key /\ Readable(chain["hash"][key], x)
      BY <2>2, <3>6
    <3> QED BY <3>1, <3>3, <3>4, <3>5, <3>6
  <2>4. Reaches(j)'
    BY <1>1, <2>1, <2>3 DEF Reaches, LastOf, Distributes, Readable, Used
  <2> QED BY <1>5, <1>6, <2>4 DEF WInv
<1>8. CASE jname[j] = "bare"
  <2>1. Learnt(j)' = Learnt(j) /\ Tried(j)' = Tried(j)
    BY <1>1, <1>2, <1>8 DEF Learnt, Tried
  <2>2. chain'["hash"] = chain["hash"]
    BY <1>3, <1>4, <1>8
  <2>3. Reaches(j)'
    BY <1>1, <2>1, <2>2 DEF WInv, Reaches, LastOf, Distributes, Readable, Used
  <2> QED BY <1>5, <1>6, <2>3 DEF WInv
<1> QED BY <1>3, <1>7, <1>8

\* What the chain of the first name cannot read has no key, or one that was used before:
\* the message that used it was sent by the same process, which sends after its SKDM.
LEMMA UnreadableIsExcused ==
  ASSUME TInv, NEW j \in Jobs, WInv(j), jpc[j] = "opened", jname[j] = "hash",
         ~Readable(chain["hash"][wire[read].key], wire[read].iter)
  PROVE  Excused(read)
<1> DEFINE m == wire[read]
<1>1. /\ read \in 1..read /\ read \in Nat /\ read \in 1..Len(wire)
      /\ m.key \in Keys /\ m.iter \in Iterations
      /\ \A i \in 1..read : i \in 1..Len(wire) /\ wire[i] \in Packet
  BY JobFacts
<1>2. SUFFICES ASSUME HasKey(read)
               PROVE  \E k \in 1..(read - 1) : /\ wire[k].life = m.life
                                               /\ wire[k].key = m.key
                                               /\ wire[k].iter = m.iter
  BY DEF Excused
<1>3. PICK d \in 1..read : /\ Opens(d, read)
                           /\ \A e \in (d + 1)..read : \/ wire[e].skdm = None
                                                       \/ wire[e].skdm.key # m.key
  BY <1>2 DEF HasKey
<1>4. LastOf(d, m.key, Learnt(j)) /\ m.iter >= wire[d].skdm.iter
  <2>1. wire[d].skdm \in Record /\ m.iter \in Nat
    BY <1>1, <1>3, Bounds DEF Opens, Packet
  <2>2. wire[d].skdm.iter \in Nat
    BY <2>1, Bounds DEF Record
  <2>3. m.iter >= wire[d].skdm.iter
    BY <1>3, <2>1, <2>2 DEF Opens
  <2> QED BY <1>3, <2>3 DEF LastOf, Distributes, Opens, Learnt
<1>5. Used(d, read - 1, m.key, m.iter)
  BY <1>1, <1>4 DEF WInv, Reaches, Tried
<1>6. PICK k \in d..(read - 1) : wire[k].key = m.key /\ wire[k].iter = m.iter
  BY <1>5 DEF Used
<1>7. k \in 1..(read - 1) /\ k \in 1..read /\ d \in 1..k
  BY <1>1
<1>8. wire[d].life <= wire[k].life /\ wire[k].life <= m.life /\ wire[d].life = m.life
  BY <1>1, <1>3, <1>7 DEF WInv, Lives, Opens
<1>9. wire[d].life \in Nat /\ wire[k].life \in Nat
  BY <1>1, <1>7, Bounds DEF Packet
<1>10. wire[k].life = m.life
  BY <1>8, <1>9
<1> QED BY <1>6, <1>7, <1>10

\* A job cannot read its message.
LEMMA FailWInv ==
  ASSUME TInv, NEW j \in Jobs, WInv(j), DecryptFails(j), WireIds', Lives'
  PROVE  WInv(j)'
<1> DEFINE m == wire[read]
<1>1. jpc[j] = "opened" /\ UNCHANGED <<wire, read, chain>>
  BY DEF DecryptFails
<1>2. /\ jmsg[j] = m /\ jrec[j] = chain[jname[j]] /\ read \in 1..read /\ read \in Nat
      /\ jname[j] \in {"hash", "bare"} /\ read \in 1..Len(wire) /\ 1..read \subseteq 1..Len(wire)
  BY <1>1, JobFacts
<1>3. ~Readable(chain[jname[j]][m.key], m.iter)
  BY <1>2 DEF DecryptFails
<1>4. \A i : Excused(i)' <=> Excused(i)
  BY <1>1 DEF Excused, HasKey, Opens
<1>5. CASE jname[j] = "hash"
  <2>1. /\ jname' = [jname EXCEPT ![j] = "bare"] /\ jpc' = [jpc EXCEPT ![j] = FirstStep(m)]
        /\ jmsg' = jmsg /\ jrec' = jrec /\ failed' = failed
    BY <1>2, <1>5 DEF DecryptFails, JGoto
  <2>2. jname'[j] = "bare" /\ jpc'[j] \in {"learn", "open"}
    BY <2>1 DEF TInv, EndsOK, FirstStep
  <2>3. Follows(j)'
    BY <1>1, <1>2, <2>1, <2>2 DEF Follows
  <2>4. Learnt(j)' = Learnt(j) /\ Tried(j) = read - 1 /\ Tried(j)' = read
    BY <1>1, <1>5, <2>2 DEF Learnt, Tried
  <2>5. \A d \in 1..read : \A key, x : Used(d, read - 1, key, x) => Used(d, read, key, x)
    <3>1. \A d \in 1..read : d..(read - 1) \subseteq d..read
      BY <1>2
    <3> QED BY <3>1 DEF Used
  <2>6. Reaches(j)'
    BY <1>1, <2>4, <2>5 DEF WInv, Reaches, LastOf, Distributes, Readable, Used
  <2>7. Excused(read)
    BY <1>1, <1>3, <1>5, UnreadableIsExcused
  <2>8. FailedIds' /\ Failing(j)'
    BY <1>1, <1>4, <2>1, <2>7 DEF WInv, FailedIds, Failing
  <2> QED BY <2>3, <2>6, <2>8 DEF WInv
<1>6. CASE jname[j] = "bare"
  <2>1. /\ jname' = [jname EXCEPT ![j] = "hash"] /\ jpc' = [jpc EXCEPT ![j] = "idle"]
        /\ failed' = failed \cup {m.id}
    BY <1>2, <1>6 DEF DecryptFails, JFinish, JGoto
  <2>2. jname'[j] = "hash" /\ jpc'[j] = "idle"
    BY <2>1 DEF TInv, EndsOK
  <2>3. Follows(j)'
    BY <2>2 DEF Follows
  <2>4. Learnt(j)' = Learnt(j) /\ Tried(j)' = Tried(j)
    BY <1>1, <1>6, <2>2 DEF Learnt, Tried
  <2>5. Reaches(j)'
    BY <1>1, <2>4 DEF WInv, Reaches, LastOf, Distributes, Readable, Used
  <2>6. FailedIds'
    BY <1>1, <1>2, <2>1 DEF WInv, FailedIds
  <2>7. \A i \in 1..read : wire[i].id = m.id => i = read
    BY <1>2 DEF WInv, WireIds
  <2>8. Excused(read)
    BY <1>1, <1>2, <1>6 DEF WInv, Failing
  <2>9. Failing(j)'
    BY <1>1, <1>4, <2>1, <2>2, <2>7, <2>8 DEF WInv, Failing
  <2> QED BY <2>3, <2>5, <2>6, <2>9 DEF WInv
<1> QED BY <1>2, <1>5, <1>6

\* The step of the job itself.
LEMMA OwnWInv ==
  ASSUME TInv, TInv', NEW j \in Jobs, WInv(j), ReadStep(j), ~handleAgain(j)
  PROVE  WInv(j)'
<1>1. wire' = wire /\ UNCHANGED <<senderVars, boundVars>>
  BY DEF ReadStep, handleIncomingChat, LearnLoad, LearnStore, DecryptLoad, DecryptStore,
         DecryptFails
<1>2. WireIds' /\ Lives'
  <2>1. crashes' \in Nat /\ crashes <= crashes'
    BY <1>1, Bounds DEF TInv, EndsOK, boundVars
  <2> QED BY <1>1, <2>1, WireKept DEF WInv, senderVars
<1> QED BY <1>2, TakeWInv, LoadWInv, LearnWInv, ReadWInv, FailWInv DEF ReadStep

\* The others are idle.
Alone(j) == \A k \in Jobs \ {j} : jpc[k] = "idle" /\ jname[k] = "hash"
Reader(j) == Alone(j) /\ WInv(j)

\* Any idle job may be the next reader when nobody reads.
LEMMA NextReader ==
  ASSUME TInv, NEW j \in Jobs, Reader(j), jpc[j] = "idle", NEW k \in Jobs
  PROVE  Reader(k)
<1>1. /\ jpc[k] = "idle" /\ jname[k] = "hash"
      /\ \A i \in Jobs : jpc[i] = "idle" /\ jname[i] = "hash"
  BY DEF Reader, Alone, WInv, Follows
<1>2. Learnt(k) = Learnt(j) /\ Tried(k) = Tried(j)
  BY <1>1 DEF Learnt, Tried
<1>3. Follows(k)
  BY <1>1 DEF Follows
<1>4. Reaches(k)
  BY <1>2 DEF Reader, WInv, Reaches
<1>5. Failing(k)
  BY <1>1 DEF Reader, WInv, Failing
<1> QED BY <1>1, <1>3, <1>4, <1>5 DEF Reader, Alone, WInv

\* While nothing overlaps, a reader takes the step, or the reader's end is left alone.
LEMMA ReaderSteps ==
  ASSUME TInv, TInv', NEW j \in Jobs, Reader(j), [Next]_vars, ~overlapped'
  PROVE  \E k \in Jobs : /\ Reader(k) /\ Reader(k)'
                        /\ \/ UNCHANGED <<readerVars, read, raceVars>>
                           \/ ReadStep(k) /\ ~handleAgain(k)
<1>1. CASE UNCHANGED <<readerVars, read, raceVars>>
  <2>1. WInv(j)'
    BY <1>1, SenderWInv DEF Reader
  <2>2. Alone(j)'
    BY <1>1 DEF Reader, Alone, readerVars
  <2> QED BY <1>1, <2>1, <2>2 DEF Reader
<1>2. ASSUME NEW k \in Jobs, ReadStep(k)
      PROVE  Reader(k) /\ Reader(k)' /\ ReadStep(k) /\ ~handleAgain(k)
  <2>1. ~handleAgain(k)
    BY Zenon DEF handleAgain
  <2>2. handleIncomingChat(k) => ~Reading
    <3>1. handleIncomingChat(k) => overlapped' = (overlapped \/ Reading)
      BY Zenon DEF handleIncomingChat
    <3> QED BY <3>1, Zenon
  <2>3. ASSUME k = j PROVE Reader(k)
    BY <2>3
  <2>4. ASSUME k # j PROVE Reader(k)
    <3>1. jpc[k] = "idle"
      BY <2>4 DEF Reader, Alone
    <3>2. handleIncomingChat(k)
      BY <1>2, <2>1, <3>1 DEF ReadStep, LearnLoad, LearnStore, DecryptLoad, DecryptStore,
                              DecryptFails
    <3>3. jpc[j] = "idle"
      BY <2>2, <3>2 DEF Reading
    <3> QED BY <3>3, NextReader
  <2>5. Reader(k)
    BY <2>3, <2>4
  <2>6. WInv(k)'
    BY <1>2, <2>1, <2>5, OwnWInv DEF Reader
  <2>7. \A i \in Jobs \ {k} : jpc'[i] = jpc[i] /\ jname'[i] = jname[i]
    BY <1>2, <2>1 DEF ReadStep, handleIncomingChat, Take, LearnLoad, LearnStore, DecryptLoad,
                      DecryptStore, DecryptFails, JFinish, JGoto, TInv, EndsOK
  <2> QED BY <1>2, <2>1, <2>5, <2>6, <2>7 DEF Reader, Alone
<1> QED BY <1>1, <1>2, OtherSteps

\* There is a reader until coroutines overlap, which they do for good.
RInv == ~overlapped => \E j \in Jobs : Reader(j)

LEMMA InitRInv == Init => RInv
<1> SUFFICES ASSUME Init PROVE \E j \in Jobs : Reader(j)
  BY DEF RInv
<1>1. PICK j \in Jobs : TRUE
  BY JobsAssumption
<1>2. Alone(j)
  BY DEF Init, Alone
<1> QED BY <1>1, <1>2, InitWInv DEF Reader

LEMMA StaysOverlapped == ASSUME [Next]_vars, overlapped PROVE overlapped'
<1>1. CASE UNCHANGED <<readerVars, read, raceVars>>
  <2>1. overlapped' = overlapped
    BY <1>1 DEF raceVars
  <2> QED BY <2>1
<1>2. ASSUME NEW j \in Jobs, ReadStep(j) PROVE overlapped'
  <2>1. \/ overlapped' = (overlapped \/ Reading)
        \/ overlapped' = TRUE
        \/ overlapped' = overlapped
    BY <1>2, TakeSteps, Zenon
  <2> QED BY <2>1, Zenon
<1> QED BY <1>1, <1>2, OtherSteps

LEMMA NextRInv == TInv /\ TInv' /\ RInv /\ [Next]_vars => RInv'
<1> SUFFICES ASSUME TInv, TInv', RInv, [Next]_vars, ~overlapped'
             PROVE  \E j \in Jobs : Reader(j)'
  BY DEF RInv
<1>1. ~overlapped
  BY StaysOverlapped
<1>2. PICK j \in Jobs : Reader(j)
  BY <1>1 DEF RInv
<1> QED BY <1>2, ReaderSteps

\* Until coroutines of the reader overlap, a message that arrived is reported
\* unreadable only if its key did not arrive, was replaced before it, or was
\* used by two senders at once: through any number of crashes and losses, for
\* any messages, and however many coroutines and collectors take turns.
THEOREM UnreadForCause == Spec => []OnlyForWantOfKey
<1>1. Init => TInv /\ RaceOK /\ RInv
  BY InitTInv, InitRace, InitRInv
<1>2. TInv /\ RaceOK /\ RInv /\ [Next]_vars => (TInv /\ RaceOK /\ RInv)'
  BY NextTInv, NextRace, NextRInv
<1>3. TInv /\ RInv => OnlyForWantOfKey
  <2> SUFFICES ASSUME TInv, RInv, ~overlapped,
                      NEW i \in DOMAIN wire, wire[i].id \in failed, HasKey(i)
               PROVE  SharesKey(i)
    BY DEF OnlyForWantOfKey
  <2>0. PICK j \in Jobs : WInv(j)
    BY DEF RInv, Reader
  <2>1. /\ i \in 1..Len(wire) /\ DOMAIN wire = 1..Len(wire)
        /\ 1..read \subseteq 1..Len(wire) /\ Len(wire) \in Nat
    BY <2>0, JobFacts, LenProperties DEF TInv, EndsOK
  <2>2. PICK k \in 1..read : wire[k].id = wire[i].id
    BY <2>0 DEF WInv, FailedIds
  <2>3. k = i
    BY <2>0, <2>1, <2>2 DEF WInv, WireIds
  <2>4. Excused(i)
    BY <2>0, <2>2, <2>3 DEF WInv, Failing
  <2>5. 1..(i - 1) \subseteq DOMAIN wire \ {i}
    BY <2>1
  <2> QED BY <2>4, <2>5 DEF Excused, SharesKey
<1> QED BY <1>1, <1>2, <1>3, PTL DEF Spec
-----------------------------------------------------------------------------
(* The channel promised to the reader. With one sending coroutine, no lost  *)
(* connection and a reader who is in the channel from the start, each step  *)
(* of the app is a step of ReliableChannel, however many coroutines and     *)
(* collectors read. A process distributes one key, with its first message,  *)
(* and no iteration of it twice, so while nothing overlaps no message is    *)
(* excused: all of them are shown. What overlaps is the disturbance.        *)

\* What this process has sent: its key is the stored one, which has moved on.
Fresh(t) == \A k \in 1..Len(wire) : wire[k].life = crashes =>
  /\ initialized /\ skdm[t] = None
  /\ mem # None /\ wire[k].key = mem.key /\ wire[k].iter < mem.iter
  /\ pc[t] = "send" => wire[k].key = rec[t].key /\ wire[k].iter < rec[t].iter

\* What one process has sent after another message of its own.
Orderly == \A i \in 1..Len(wire) : \A k \in 1..(i - 1) : wire[k].life = wire[i].life =>
  wire[i].skdm = None /\ wire[k].key = wire[i].key /\ wire[k].iter < wire[i].iter

Done(j) == IF jpc[j] = "idle" THEN read ELSE read - 1
ShownSoFar(j) == Len(shown) = Done(j) /\ \A i \in 1..Done(j) : shown[i] = wire[i].id

Ordered(t) == Fresh(t) /\ Orderly /\ \A j \in Jobs : Reader(j) => ShownSoFar(j)

\* What a job has is on the wire.
Held == \A j \in Jobs : jpc[j] # "idle" => \E i \in 1..Len(wire) : jmsg[j] = wire[i]

CInv(t) == TInv /\ RaceOK /\ RInv /\ IInv(t) /\ Held /\ (~overlapped => Ordered(t))

LEMMA InitCInv ==
  ASSUME NEW t, OneSender(t), Init PROVE CInv(t)
<1>1. TInv /\ RaceOK /\ RInv /\ IInv(t)
  BY InitTInv, InitRace, InitRInv, InitIInv
<1>2. /\ wire = << >> /\ Len(wire) = 0 /\ shown = << >> /\ Len(shown) = 0 /\ read = 0
      /\ \A j \in Jobs : jpc[j] = "idle"
  BY DEF Init
<1>3. 1..Len(wire) = {} /\ \A j \in Jobs : 1..Done(j) = {} /\ Done(j) = 0
  BY <1>2 DEF Done
<1> QED BY <1>1, <1>2, <1>3 DEF CInv, Ordered, Held, Fresh, Orderly, ShownSoFar

LEMMA WireNumbers ==
  ASSUME TInv, NEW k \in 1..Len(wire) PROVE wire[k].life \in Nat /\ wire[k].iter \in Nat
<1>1. wire[k] \in Packet
  BY ElementOfSeq DEF TInv, EndsOK
<1>2. wire[k].life \in 0..MaxCrashes /\ wire[k].iter \in Iterations
  BY <1>1 DEF Packet
<1>3. wire[k].life \in Nat
  BY <1>2
<1>4. Iterations \subseteq Nat
  BY Bounds
<1> QED BY <1>2, <1>3, <1>4

\* The key of a message is there, and nobody else has used it.
LEMMA NoExcuse ==
  ASSUME TInv, NEW j \in Jobs, WInv(j), KeyBeforeUse, Orderly, NEW i \in 1..Len(wire)
  PROVE  ~Excused(i)
<1>1. /\ Len(wire) \in Nat /\ DOMAIN wire = 1..Len(wire)
      /\ \A k \in 1..Len(wire) : wire[k].life \in Nat /\ wire[k].iter \in Nat
  <2>1. Len(wire) \in Nat /\ DOMAIN wire = 1..Len(wire)
    BY LenProperties DEF TInv, EndsOK
  <2> QED BY <2>1, WireNumbers
<1>2. PICK d \in 1..i : Opens(d, i)
  BY <1>1 DEF KeyBeforeUse
<1>3. ASSUME NEW e \in (d + 1)..i PROVE wire[e].skdm = None
  <2>1. e \in 1..i /\ d \in 1..(e - 1) /\ e \in 1..Len(wire) /\ d \in 1..e /\ d \in 1..Len(wire)
    BY <1>1
  <2>2. wire[d].life <= wire[e].life /\ wire[e].life <= wire[i].life
    BY <2>1 DEF WInv, Lives
  <2>3. wire[d].life \in Nat /\ wire[e].life \in Nat /\ wire[d].life = wire[i].life
    BY <1>1, <1>2, <2>1 DEF Opens
  <2>4. wire[d].life = wire[e].life
    BY <2>2, <2>3
  <2> QED BY <2>1, <2>4 DEF Orderly
<1>4. HasKey(i)
  BY <1>2, <1>3 DEF HasKey
<1>5. ASSUME NEW k \in 1..(i - 1), wire[k].life = wire[i].life PROVE wire[k].iter # wire[i].iter
  <2>1. wire[k].iter < wire[i].iter /\ k \in 1..Len(wire)
    BY <1>1, <1>5 DEF Orderly
  <2>2. wire[k].iter \in Nat /\ wire[i].iter \in Nat
    BY <1>1, <2>1
  <2> QED BY <2>1, <2>2
<1> QED BY <1>4, <1>5 DEF Excused

\* A step that sends nothing.
LEMMA QuietFresh ==
  ASSUME NEW t, OneSender(t), TInv, IInv(t), Lives, Fresh(t), Orderly, [Next]_vars, wire' = wire
  PROVE  Fresh(t)' /\ Orderly'
<1>1. SUFFICES Fresh(t)'
  BY DEF Orderly
<1>2. /\ t \in Tasks /\ Tasks = {t} /\ MaxDrops = 0 /\ drops = 0
  BY DEF OneSender, IInv, Shape
<1>3. /\ pc \in [{t} -> {"idle", "check", "create", "generate", "mark", "load", "store", "send"}]
      /\ rec \in [{t} -> Rec \cup {None}] /\ skdm \in [{t} -> Rec \cup {None}]
      /\ mem \in Rec \cup {None} /\ crashes \in Nat /\ initialized \in BOOLEAN
  BY DEF IInv, Shape
<1>4. Settled(t) /\ Creating(t) /\ Storing(t)
  BY DEF IInv, Phases
<1>5. CASE UNCHANGED <<mem, initialized, pc, rec, skdm, crashes>>
  BY <1>5 DEF Fresh
<1>6. CASE \E m \in Messages : sendChannelMessage(t, m)
  BY <1>3, <1>6 DEF sendChannelMessage, Goto, Fresh, boundVars
<1>7. CASE CheckFirst(t)
  BY <1>3, <1>7 DEF CheckFirst, Goto, Fresh, boundVars
<1>8. CASE CreateLoad(t) \/ CreateStore(t)
  <2>1. pc[t] \in {"create", "generate"} /\ crashes' = crashes /\ initialized' = initialized
    BY <1>8 DEF CreateLoad, CreateStore, boundVars
  <2>2. ~initialized
    BY <1>4, <2>1 DEF Creating
  <2> QED BY <2>1, <2>2 DEF Fresh
<1>9. CASE MarkInitialized(t)
  <2>1. initialized'
    BY <1>9 DEF MarkInitialized
  <2> QED BY <1>3, <1>9, <2>1 DEF MarkInitialized, Goto, Fresh, boundVars
<1>10. CASE EncryptLoad(t)
  BY <1>3, <1>10 DEF EncryptLoad, Goto, Fresh, boundVars
<1>11. CASE EncryptStore(t)
  <2>1. /\ mem = rec[t] /\ mem # None /\ mem' = [rec[t] EXCEPT !.iter = @ + 1]
        /\ UNCHANGED <<initialized, rec, skdm, crashes>>
    BY <1>4, <1>11 DEF EncryptStore, Storing, boundVars
  <2>2. mem' \in Rec /\ mem'.key = mem.key /\ mem'.iter = mem.iter + 1 /\ mem.iter \in Nat
    BY <1>3, <2>1 DEF Rec
  <2>3. mem' # None
    BY <2>2, NoneAssumption DEF Rec
  <2>4. \A k \in 1..Len(wire) : wire[k].iter \in Nat
    BY WireNumbers
  <2>5. \A k \in 1..Len(wire) : wire[k].life = crashes =>
          /\ initialized /\ skdm[t] = None /\ wire[k].key = mem.key /\ wire[k].iter < mem.iter
    BY DEF Fresh
  <2>6. \A k \in 1..Len(wire) : wire[k].iter < mem.iter => wire[k].iter < mem.iter + 1
    BY <2>2, <2>4
  <2> QED BY <2>1, <2>2, <2>3, <2>5, <2>6 DEF Fresh
<1>12. CASE SendPacket(t)
  BY <1>2, <1>3, <1>12 DEF SendPacket, Finish, Goto, Fresh, boundVars
<1>13. CASE Persist
  BY <1>5, <1>13 DEF Persist, boundVars
<1>14. CASE Crash
  <2>1. crashes' = crashes + 1
    BY <1>14 DEF Crash
  <2>2. \A k \in 1..Len(wire) : wire[k].life \in Nat /\ wire[k].life <= crashes
    BY WireNumbers DEF Lives
  <2>3. \A k \in 1..Len(wire) : wire[k].life # crashes'
    BY <1>3, <2>1, <2>2
  <2> QED BY <2>3 DEF Fresh
<1>15. CASE \E j \in Jobs : ReadStep(j)
  BY <1>5, <1>15 DEF ReadStep, handleIncomingChat, handleAgain, LearnLoad, LearnStore, DecryptLoad,
                     DecryptStore, DecryptFails, senderVars, boundVars
<1>16. ~SendInVain(t) /\ ~LinkDown
  BY <1>2 DEF SendInVain, LinkDown
<1>17. CASE Join \/ UNCHANGED vars
  BY <1>5, <1>17 DEF Join, vars, senderVars, boundVars
<1> QED BY <1>2, <1>6, <1>7, <1>8, <1>9, <1>10, <1>11, <1>12, <1>13, <1>14, <1>15, <1>16,
           <1>17 DEF Next, SendStep

\* A message is sent: the first of its process, or after the others.
LEMMA SendFresh ==
  ASSUME NEW t, OneSender(t), TInv, IInv(t), Lives, Fresh(t), Orderly, SendPacket(t),
         wire' = Append(wire, packet(t))
  PROVE  Fresh(t)' /\ Orderly'
<1> DEFINE n == Len(wire)
           p == packet(t)
<1>1. /\ wire \in Seq(PacketShape) /\ n \in Nat /\ rec[t] \in Rec /\ skdm[t] \in Rec \cup {None}
      /\ mem = [key |-> rec[t].key, iter |-> rec[t].iter + 1] /\ pc[t] = "send"
      /\ pc \in [{t} -> {"idle", "check", "create", "generate", "mark", "load", "store", "send"}]
      /\ skdm \in [{t} -> Rec \cup {None}]
  BY LenProperties DEF IInv, Shape, Phases, Sending, SendPacket
<1>2. initialized /\ initialized' = initialized
  BY DEF IInv, Phases, Sending, SendPacket
<1>3. /\ p \in PacketShape /\ p.life = crashes /\ p.skdm = skdm[t]
      /\ p.key = mem.key /\ p.iter + 1 = mem.iter /\ p.key = rec[t].key /\ p.iter = rec[t].iter
      /\ p.iter \in Nat /\ mem # None
  <2>1. /\ rec[t].key \in Nat /\ rec[t].iter \in Nat /\ crashes \in Nat
        /\ msg[t] \in Messages \cup {None}
    BY <1>1 DEF Rec, IInv, Shape, OneSender
  <2>2. mem \in Rec
    BY <1>1, <2>1 DEF Rec
  <2>3. mem # None
    BY <2>2, NoneAssumption DEF Rec
  <2> QED BY <1>1, <2>1, <2>3 DEF packet, PacketShape
<1>4. /\ mem' = mem /\ crashes' = crashes /\ pc'[t] = "idle" /\ skdm'[t] = None
  BY <1>1 DEF SendPacket, Finish, Goto, boundVars
<1> HIDE DEF p
<1>5. /\ Len(wire') = n + 1 /\ wire'[n + 1] = p /\ \A i \in 1..n : wire'[i] = wire[i]
  BY <1>1, <1>3, AppendProperties DEF p
<1>6. \A k \in 1..(n + 1) : k \in 1..n \/ k = n + 1
  BY <1>1
<1>7. Fresh(t)'
  <2> SUFFICES ASSUME NEW k \in 1..(n + 1), wire'[k].life = crashes
               PROVE  wire'[k].key = mem.key /\ wire'[k].iter < mem.iter
    BY <1>2, <1>3, <1>4, <1>5 DEF Fresh
  <2>1. CASE k \in 1..n
    BY <1>5, <2>1 DEF Fresh
  <2>2. CASE k = n + 1
    BY <1>3, <1>5, <2>2
  <2> QED BY <1>6, <2>1, <2>2
<1>8. Orderly'
  <2> SUFFICES ASSUME NEW i \in 1..(n + 1), NEW k \in 1..(i - 1), wire'[k].life = wire'[i].life
               PROVE  /\ wire'[i].skdm = None /\ wire'[k].key = wire'[i].key
                      /\ wire'[k].iter < wire'[i].iter
    BY <1>5 DEF Orderly
  <2>1. k \in 1..n
    BY <1>1
  <2>2. CASE i \in 1..n
    BY <1>5, <2>1, <2>2 DEF Orderly
  <2>3. CASE i = n + 1
    <3>1. wire[k].life = crashes
      BY <1>3, <1>5, <2>1, <2>3
    <3> QED BY <1>1, <1>3, <1>5, <2>1, <2>3, <3>1 DEF Fresh
  <2> QED BY <1>6, <2>2, <2>3
<1> QED BY <1>7, <1>8

\* The sender keeps its part.
LEMMA FreshKept ==
  ASSUME NEW t, OneSender(t), TInv, IInv(t), Lives, Fresh(t), Orderly, [Next]_vars
  PROVE  Fresh(t)' /\ Orderly'
<1>1. member = TRUE /\ drops = 0 /\ MaxDrops = 0 /\ Tasks = {t}
  BY DEF IInv, Shape, OneSender
<1>2. CASE SendPacket(t)
  <2>1. wire' = Append(wire, packet(t))
    BY <1>1, <1>2 DEF SendPacket
  <2> QED BY <1>2, <2>1, SendFresh
<1>3. wire' = wire \/ SendPacket(t)
  <2>1. ~LinkDown
    BY <1>1 DEF LinkDown
  <2> QED BY <1>1, <2>1 DEF Next, SendStep, ReadStep, sendChannelMessage, CheckFirst, CreateLoad,
         CreateStore, MarkInitialized, EncryptLoad, EncryptStore, SendInVain, Persist, Crash,
         Join, handleIncomingChat, handleAgain, LearnLoad, LearnStore, DecryptLoad, DecryptStore, DecryptFails,
         vars
<1> QED BY <1>2, <1>3, QuietFresh

LEMMA IdsOf ==
  ASSUME NEW w \in Seq(Packet)
  PROVE  /\ [i \in DOMAIN w |-> w[i].id] \in Seq(Messages)
         /\ Len([i \in DOMAIN w |-> w[i].id]) = Len(w)
<1> DEFINE n == Len(w)
           ids == [i \in DOMAIN w |-> w[i].id]
<1>1. n \in Nat /\ DOMAIN w = 1..n /\ \A i \in 1..n : w[i] \in Packet
  BY LenProperties, ElementOfSeq
<1>2. ids \in [1..n -> Messages]
  BY <1>1 DEF Packet
<1> HIDE DEF ids, n
<1>3. ids \in Seq(Messages)
  BY <1>1, <1>2, SeqDef
<1>4. DOMAIN ids = 1..n /\ DOMAIN ids = 1..Len(ids) /\ Len(ids) \in Nat
  BY <1>2, <1>3, LenProperties
<1>5. Len(ids) = n
  <2>1. CASE n > Len(ids)
    BY <1>1, <1>4, <2>1
  <2>2. CASE n < Len(ids)
    BY <1>1, <1>4, <2>2
  <2> QED BY <1>1, <1>4, <2>1, <2>2
<1> QED BY <1>3, <1>5 DEF ids, n

\* What the task sends is a packet.
LEMMA PacketSent ==
  ASSUME TInv, NEW t, OneSender(t), SendPacket(t)
  PROVE  packet(t) \in Packet /\ packet(t).id = msg[t] /\ msg[t] \in Messages
<1>1. pc[t] = "send" /\ t \in Tasks
  BY DEF SendPacket, OneSender
<1>2. msg[t] \in Messages
  BY <1>1 DEF TInv, EndsOK, Owned
<1>3. /\ rec[t] \in Record /\ skdm[t] \in Record \cup {None} /\ crashes \in 0..MaxCrashes
  BY <1>1 DEF TInv, EndsOK, Loaded
<1> QED BY <1>2, <1>3 DEF packet, Packet, Record

\* The wire of this instance only grows.
LEMMA WireSteps ==
  ASSUME NEW t, OneSender(t), IInv(t), [Next]_vars
  PROVE  \/ wire' = wire
         \/ /\ SendPacket(t) /\ wire' = Append(wire, packet(t))
            /\ UNCHANGED <<readerVars, read, raceVars>>
<1>1. member = TRUE /\ drops = 0 /\ MaxDrops = 0 /\ Tasks = {t}
  BY DEF IInv, Shape, OneSender
<1>2. CASE SendPacket(t)
  BY <1>1, <1>2 DEF SendPacket
<1>3. ~LinkDown
  BY <1>1 DEF LinkDown
<1> QED BY <1>1, <1>2, <1>3 DEF Next, SendStep, ReadStep, sendChannelMessage, CheckFirst,
         CreateLoad, CreateStore, MarkInitialized, EncryptLoad, EncryptStore, SendInVain, Persist,
         Crash, Join, handleIncomingChat, handleAgain, LearnLoad, LearnStore, DecryptLoad,
         DecryptStore, DecryptFails, vars

LEMMA HeldKept ==
  ASSUME TInv, RaceOK, NEW t, OneSender(t), IInv(t), Held, [Next]_vars PROVE Held'
<1>0. /\ wire \in Seq(Packet) /\ Len(wire) \in Nat /\ read \in 0..Len(wire)
      /\ second \in 0..read /\ jpc \in [Jobs -> {"idle", "learn", "learned", "open", "opened"}]
      /\ jmsg \in [Jobs -> Packet \cup {None}]
  BY LenProperties DEF TInv, EndsOK, RaceOK
<1>1. CASE SendPacket(t) /\ wire' = Append(wire, packet(t)) /\ UNCHANGED <<readerVars, read, raceVars>>
  <2>1. Len(wire') = Len(wire) + 1 /\ \A i \in 1..Len(wire) : wire'[i] = wire[i]
    BY <1>0, <1>1, PacketSent, AppendProperties
  <2>2. \A i \in 1..Len(wire) : i \in 1..Len(wire')
    BY <1>0, <2>1
  <2> QED BY <1>1, <2>1, <2>2 DEF Held, readerVars
<1>2. CASE wire' = wire /\ UNCHANGED <<readerVars, read, raceVars>>
  BY <1>2 DEF Held, readerVars
<1>3. ASSUME NEW j \in Jobs, ReadStep(j), wire' = wire PROVE Held'
  <2>1. CASE handleIncomingChat(j)
    <3>1. read + 1 \in 1..Len(wire) /\ jmsg' = [jmsg EXCEPT ![j] = wire[read + 1]]
          /\ jpc' = [jpc EXCEPT ![j] = FirstStep(wire[read + 1])]
      BY <1>0, <2>1 DEF handleIncomingChat, Take, JGoto
    <3> QED BY <1>0, <1>3, <3>1 DEF Held
  <2>2. CASE handleAgain(j)
    <3>1. second + 1 \in 1..Len(wire) /\ jmsg' = [jmsg EXCEPT ![j] = wire[second + 1]]
          /\ jpc' = [jpc EXCEPT ![j] = FirstStep(wire[second + 1])]
      BY <1>0, <2>2 DEF handleAgain, Take, JGoto
    <3> QED BY <1>0, <1>3, <3>1 DEF Held
  <2>3. CASE LearnLoad(j) \/ LearnStore(j) \/ DecryptLoad(j) \/ DecryptStore(j) \/ DecryptFails(j)
    <3>1. /\ jpc[j] # "idle"
          /\ \/ jmsg' = jmsg
             \/ jmsg' = [jmsg EXCEPT ![j] = None] /\ jpc' = [jpc EXCEPT ![j] = "idle"]
          /\ \E l : jpc' = [jpc EXCEPT ![j] = l]
      BY <2>3 DEF LearnLoad, LearnStore, DecryptLoad, DecryptStore, DecryptFails, JFinish, JGoto
    <3> QED BY <1>0, <1>3, <3>1 DEF Held
  <2> QED BY <1>3, <2>1, <2>2, <2>3 DEF ReadStep
<1>4. ASSUME NEW j \in Jobs, ReadStep(j) PROVE wire' = wire
  BY <1>4 DEF ReadStep, handleIncomingChat, handleAgain, LearnLoad, LearnStore, DecryptLoad,
              DecryptStore, DecryptFails
<1> QED BY <1>1, <1>2, <1>3, <1>4, WireSteps, OtherSteps

\* A message is sent to the channel.
LEMMA SendIsSend ==
  ASSUME TInv, TInv', NEW t, OneSender(t), SendPacket(t), wire' = Append(wire, packet(t))
  PROVE  Channel!Send
<1> DEFINE w == wire
           v == wire'
           m == msg[t]
           a == [i \in DOMAIN w |-> w[i].id]
           b == [i \in DOMAIN v |-> v[i].id]
<1>1. /\ w \in Seq(Packet) /\ v \in Seq(Packet) /\ m \in Messages /\ shown' = shown
      /\ overlapped' = overlapped
  BY PacketSent DEF SendPacket, readerVars, raceVars, TInv, EndsOK
<1>2. packet(t) \in Packet /\ packet(t).id = m
  BY PacketSent
<1>3. /\ Len(w) \in Nat /\ Len(v) = Len(w) + 1 /\ v[Len(w) + 1] = packet(t)
      /\ \A i \in 1..Len(w) : v[i] = w[i]
      /\ DOMAIN w = 1..Len(w) /\ DOMAIN v = 1..Len(v)
  BY <1>1, <1>2, AppendProperties, LenProperties
<1>4. /\ a \in Seq(Messages) /\ Len(a) = Len(w) /\ b \in Seq(Messages) /\ Len(b) = Len(v)
  BY <1>1, IdsOf
<1>5. /\ \A i \in 1..Len(w) : a[i] = w[i].id
      /\ \A i \in 1..(Len(w) + 1) : b[i] = v[i].id
  BY <1>3
<1>6. /\ Append(a, m) \in Seq(Messages) /\ Len(Append(a, m)) = Len(w) + 1
      /\ \A i \in 1..Len(w) : Append(a, m)[i] = a[i]
      /\ Append(a, m)[Len(w) + 1] = m
  BY <1>1, <1>4, AppendProperties
<1> HIDE DEF w, v, m, a, b
<1>7. \A i \in 1..(Len(w) + 1) : b[i] = Append(a, m)[i]
  <2> SUFFICES ASSUME NEW i \in 1..(Len(w) + 1) PROVE b[i] = Append(a, m)[i]
    OBVIOUS
  <2>1. CASE i \in 1..Len(w)
    BY <1>3, <1>5, <1>6, <2>1
  <2>2. CASE i = Len(w) + 1
    BY <1>2, <1>3, <1>5, <1>6, <2>2
  <2>3. Len(w) \in Nat
    BY <1>3
  <2>4. i \in 1..Len(w) \/ i = Len(w) + 1
    BY <2>3
  <2> QED BY <2>1, <2>2, <2>4
<1>8. b = Append(a, m)
  BY <1>3, <1>4, <1>6, <1>7, SeqEqual
<1>9. a = Ids /\ b = Ids'
  BY DEF a, b, w, v, Ids
<1> QED BY <1>1, <1>8, <1>9 DEF Channel!Send

\* A message is shown: the one that follows.
LEMMA ReadIsShow ==
  ASSUME TInv, NEW j \in Jobs, Reader(j), ShownSoFar(j), ~overlapped, DecryptStore(j)
  PROVE  Channel!Show /\ ShownSoFar(j)'
<1> DEFINE m == wire[read].id
<1>1. /\ jpc[j] = "opened" /\ jpc' = [jpc EXCEPT ![j] = "idle"] /\ wire' = wire /\ read' = read
      /\ shown' = Append(shown, jmsg[j].id)
  BY DEF DecryptStore, JFinish, JGoto
<1>2. /\ jpc'[j] = "idle" /\ jmsg[j] = wire[read] /\ read \in 1..read /\ read \in Nat
      /\ read \in 1..Len(wire) /\ wire[read] \in Packet
      /\ DOMAIN wire = 1..Len(wire) /\ wire \in Seq(Packet) /\ shown \in Seq(Messages)
  BY <1>1, JobFacts, LenProperties DEF TInv, EndsOK, Reader
<1>3. Done(j) = read - 1 /\ Done(j)' = read
  BY <1>1, <1>2 DEF Done
<1>4. /\ Len(shown) = read - 1 /\ \A i \in 1..(read - 1) : shown[i] = wire[i].id
  BY <1>3 DEF ShownSoFar
<1>5. m \in Messages /\ m = jmsg[j].id
  BY <1>2 DEF Packet
<1> HIDE DEF m
<1>6. /\ shown' = Append(shown, m) /\ Len(shown') = read /\ shown'[read] = m
      /\ \A i \in 1..(read - 1) : shown'[i] = shown[i]
  BY <1>1, <1>2, <1>4, <1>5, AppendProperties
<1>7. \A i \in 1..read : i \in 1..(read - 1) \/ i = read
  BY <1>2
<1>8. ShownSoFar(j)'
  BY <1>1, <1>3, <1>4, <1>6, <1>7 DEF ShownSoFar, m
<1>9. Len(Ids) = Len(wire) /\ Ids[read] = m /\ Ids' = Ids
  BY <1>1, <1>2, IdsOf DEF Ids, m
<1>10. Channel!Show
  <2>1. Len(shown) + 1 = read /\ Len(shown) < Len(Ids)
    BY <1>2, <1>4, <1>9
  <2>2. overlapped' = overlapped
    BY DEF DecryptStore, raceVars
  <2> QED BY <1>6, <1>9, <2>1, <2>2 DEF Channel!Show
<1> QED BY <1>8, <1>10

\* What the reader does while nothing overlaps is a step of the channel, or none.
LEMMA ReaderRefines ==
  ASSUME TInv, TInv', RaceOK, NEW t, OneSender(t), IInv(t), Orderly, NEW j \in Jobs, Reader(j),
         ShownSoFar(j), ~overlapped, ~overlapped', [Next]_vars,
         \/ UNCHANGED <<readerVars, read, raceVars>>
         \/ ReadStep(j) /\ ~handleAgain(j)
  PROVE  ShownSoFar(j)' /\ [Channel!Next]_<<Ids, shown, overlapped>>
<1>1. WInv(j) /\ KeyBeforeUse /\ overlapped' = overlapped
  <2>1. CASE UNCHANGED <<readerVars, read, raceVars>>
    BY <2>1 DEF raceVars, Reader, IInv
  <2>2. CASE ReadStep(j)
    <3>1. overlapped \in BOOLEAN /\ overlapped' \in BOOLEAN
      BY NextRace DEF RaceOK
    <3> QED BY <3>1 DEF Reader, IInv
  <2> QED BY <2>1, <2>2
<1>2. /\ read \in Nat /\ Len(wire) \in Nat /\ 1..read \subseteq 1..Len(wire)
      /\ jpc[j] # "idle" => jmsg[j] = wire[read] /\ read \in 1..read
      /\ jpc[j] \in {"idle", "learn", "learned", "open", "opened"}
      /\ jname[j] \in {"hash", "bare"}
      /\ jpc \in [Jobs -> {"idle", "learn", "learned", "open", "opened"}]
      /\ wire \in Seq(Packet)
  BY <1>1, JobFacts DEF TInv, EndsOK
<1>3. CASE UNCHANGED <<wire, shown>> /\ Done(j)' = Done(j)
  BY <1>1, <1>3 DEF ShownSoFar, Ids
<1>4. CASE UNCHANGED <<readerVars, read, raceVars>> /\ wire' = wire
  BY <1>3, <1>4 DEF readerVars, Done
<1>5. CASE SendPacket(t) /\ wire' = Append(wire, packet(t)) /\ UNCHANGED <<readerVars, read, raceVars>>
  <2>1. Channel!Send
    BY <1>5, SendIsSend
  <2>2. \A i \in 1..Len(wire) : wire'[i] = wire[i]
    BY <1>2, <1>5, PacketSent, AppendProperties
  <2>3. Done(j)' = Done(j) /\ shown' = shown
    BY <1>5 DEF Done, readerVars
  <2>4. \A i \in 1..Done(j) : i \in 1..Len(wire)
    BY <1>2 DEF Done
  <2>5. ShownSoFar(j)'
    BY <2>2, <2>3, <2>4 DEF ShownSoFar
  <2> QED BY <2>1, <2>5 DEF Channel!Next
<1>6. CASE handleIncomingChat(j)
  <2>1. /\ jpc[j] = "idle" /\ jpc'[j] # "idle" /\ read' = read + 1 /\ UNCHANGED <<wire, shown>>
    BY <1>2, <1>6 DEF handleIncomingChat, Take, JGoto, FirstStep
  <2> QED BY <1>2, <1>3, <2>1 DEF Done
<1>7. CASE LearnLoad(j) \/ LearnStore(j) \/ DecryptLoad(j)
  <2>1. /\ jpc[j] # "idle" /\ jpc'[j] # "idle" /\ read' = read /\ UNCHANGED <<wire, shown>>
    BY <1>2, <1>7 DEF LearnLoad, LearnStore, DecryptLoad, JGoto
  <2> QED BY <1>3, <2>1 DEF Done
<1>8. CASE DecryptStore(j)
  BY <1>8, ReadIsShow DEF Channel!Next
<1>9. CASE DecryptFails(j)
  <2>1. jname[j] = "hash"
    <3>1. jpc[j] = "opened" /\ read \in 1..read /\ read \in 1..Len(wire)
      BY <1>2, <1>9 DEF DecryptFails
    <3>2. jname[j] = "bare" => Excused(read)
      BY <1>1, <3>1 DEF WInv, Failing
    <3>3. ~Excused(read)
      BY <1>1, <3>1, NoExcuse
    <3> QED BY <1>2, <3>2, <3>3
  <2>2. /\ jpc[j] # "idle" /\ jpc'[j] # "idle" /\ read' = read /\ UNCHANGED <<wire, shown>>
    BY <1>2, <1>9, <2>1 DEF DecryptFails, JGoto, FirstStep
  <2> QED BY <1>3, <2>2 DEF Done
<1> QED BY <1>4, <1>5, <1>6, <1>7, <1>8, <1>9, WireSteps DEF ReadStep

LEMMA NextOrdered ==
  ASSUME NEW t, OneSender(t), CInv(t), TInv', [Next]_vars, ~overlapped'
  PROVE  Ordered(t)' /\ [Channel!Next]_<<Ids, shown, overlapped>>
<1>1. ~overlapped
  BY StaysOverlapped
<1>2. TInv /\ RaceOK /\ IInv(t) /\ Ordered(t) /\ RInv
  BY <1>1 DEF CInv
<1>3. PICK i \in Jobs : Reader(i)
  BY <1>1, <1>2 DEF RInv
<1>4. PICK k \in Jobs : /\ Reader(k) /\ Reader(k)'
                       /\ \/ UNCHANGED <<readerVars, read, raceVars>>
                          \/ ReadStep(k) /\ ~handleAgain(k)
  BY <1>2, <1>3, ReaderSteps
<1>5. ShownSoFar(k)' /\ [Channel!Next]_<<Ids, shown, overlapped>>
  BY <1>1, <1>2, <1>4, ReaderRefines DEF Ordered
<1>6. ASSUME NEW j \in Jobs, Reader(j)' PROVE ShownSoFar(j)'
  <2>1. j # k => jpc'[j] = "idle" /\ jpc'[k] = "idle"
    BY <1>4, <1>6 DEF Reader, Alone
  <2> QED BY <1>5, <2>1 DEF ShownSoFar, Done
<1>7. Fresh(t)' /\ Orderly'
  BY <1>2, <1>3, FreshKept DEF Ordered, Reader, WInv
<1> QED BY <1>5, <1>6, <1>7 DEF Ordered

\* Once coroutines overlap, what is shown has been sent.
LEMMA DisturbedRefines ==
  ASSUME NEW t, OneSender(t), CInv(t), TInv', [Next]_vars, overlapped'
  PROVE  [Channel!Next]_<<Ids, shown, overlapped>>
<1>1. TInv /\ RaceOK /\ IInv(t) /\ Held /\ overlapped \in BOOLEAN
  BY DEF CInv, RaceOK
<1>2. CASE UNCHANGED <<readerVars, read, raceVars>>
  <2>0. shown' = shown /\ overlapped' = overlapped
    BY <1>2 DEF readerVars, raceVars
  <2>1. CASE wire' = wire
    <3>1. Ids' = Ids
      BY <2>1 DEF Ids
    <3> QED BY <2>0, <3>1
  <2>2. CASE SendPacket(t) /\ wire' = Append(wire, packet(t))
    BY <1>1, <2>2, SendIsSend DEF Channel!Next
  <2> QED BY <1>1, <2>1, <2>2, WireSteps
<1>3. ASSUME NEW j \in Jobs, ReadStep(j), shown' = shown
      PROVE  [Channel!Next]_<<Ids, shown, overlapped>>
  <2>1. wire' = wire /\ Ids' = Ids
    BY <1>3 DEF Ids, ReadStep, handleIncomingChat, handleAgain, LearnLoad, LearnStore,
                DecryptLoad, DecryptStore, DecryptFails
  <2>2. overlapped' = TRUE
    <3>1. \/ overlapped' = (overlapped \/ Reading)
          \/ overlapped' = TRUE
          \/ overlapped' = overlapped
      BY <1>3, TakeSteps, Zenon
    <3> QED BY <1>1, <3>1, Zenon
  <2> QED BY <1>3, <2>1, <2>2 DEF Channel!Next, Channel!Disturb
<1>4. ASSUME NEW j \in Jobs, DecryptStore(j) PROVE [Channel!Next]_<<Ids, shown, overlapped>>
  <2>1. /\ jpc[j] = "opened" /\ shown' = Append(shown, jmsg[j].id) /\ wire' = wire
        /\ overlapped' = overlapped
    BY <1>4 DEF DecryptStore, raceVars
  <2>2. PICK i \in 1..Len(wire) : jmsg[j] = wire[i]
    BY <1>1, <2>1 DEF Held
  <2>3. i \in DOMAIN wire /\ DOMAIN Ids = DOMAIN wire /\ Ids[i] = jmsg[j].id /\ Ids' = Ids
    BY <1>1, <2>1, <2>2, LenProperties DEF Ids, TInv, EndsOK
  <2> QED BY <2>1, <2>3 DEF Channel!Next, Channel!ShowSome
<1>5. ASSUME NEW j \in Jobs, ReadStep(j) PROVE DecryptStore(j) \/ shown' = shown
  BY <1>5 DEF ReadStep, handleIncomingChat, handleAgain, LearnLoad, LearnStore, DecryptLoad,
              DecryptFails
<1> QED BY <1>2, <1>3, <1>4, <1>5, OtherSteps

\* With one sending coroutine, whatever crashes roll back and however many
\* coroutines and collectors read, the channel of the app is one that shows
\* what was sent in its order, each message once and none left out, until two
\* coroutines of the reader overlap; and only what was sent even then: the
\* safety of InOrder, for any messages and any number of crashes.
THEOREM ShowsInOrder ==
  ASSUME NEW t, OneSender(t)
  PROVE  Spec => Channel!Init /\ [][Channel!Next]_<<Ids, shown, overlapped>>
<1>1. Init => CInv(t)
  BY InitCInv
<1>2. CInv(t) /\ [Next]_vars => CInv(t)'
  <2> SUFFICES ASSUME CInv(t), [Next]_vars PROVE CInv(t)'
    OBVIOUS
  <2>1. TInv /\ RaceOK /\ RInv /\ IInv(t) /\ Held
    BY DEF CInv
  <2>2. TInv' /\ RaceOK'
    BY <2>1, NextTInv, NextRace
  <2>3. IInv(t)'
    BY <2>1, StepIInv
  <2>4. RInv'
    BY <2>1, <2>2, NextRInv
  <2>5. Held'
    BY <2>1, HeldKept
  <2>6. ~overlapped' => Ordered(t)'
    BY <2>2, NextOrdered
  <2> QED BY <2>2, <2>3, <2>4, <2>5, <2>6 DEF CInv
<1>3. Init => Channel!Init
  <2> SUFFICES ASSUME Init PROVE Channel!Init
    OBVIOUS
  <2>1. wire = << >> /\ shown = << >> /\ DOMAIN wire = {}
    BY DEF Init
  <2>2. Ids = << >>
    BY <2>1 DEF Ids
  <2>3. overlapped = FALSE
    BY Zenon DEF Init
  <2> QED BY <2>1, <2>2, <2>3 DEF Channel!Init
<1>4. CInv(t) /\ CInv(t)' /\ [Next]_vars => [Channel!Next]_<<Ids, shown, overlapped>>
  <2> SUFFICES ASSUME CInv(t), CInv(t)', [Next]_vars
               PROVE  [Channel!Next]_<<Ids, shown, overlapped>>
    OBVIOUS
  <2>1. TInv'
    BY DEF CInv
  <2> QED BY <2>1, NextOrdered, DisturbedRefines
<1> QED BY <1>1, <1>2, <1>3, <1>4, PTL DEF Spec
=============================================================================
