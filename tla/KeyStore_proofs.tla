--------------------------- MODULE KeyStore_proofs ---------------------------
(***************************************************************************)
(* The identity the server knows is the one in the store, and the one-time *)
(* keys it publishes with the signed key in the store are there as well:   *)
(* for any number of preparations, keys, calls of start(), kills and lost  *)
(* connections. No preparation leaves the ids there are for those of its   *)
(* process.                                                                *)
(*                                                                         *)
(* The argument for the second: a signed key is new when it is saved, so   *)
(* nothing published has it yet. The one-time keys of a preparation stay   *)
(* in the store until they are uploaded, as those that run beside it have  *)
(* other ids (Apart); and then, because the counter of the engine is past  *)
(* all ids that were uploaded with the signed key in the store, unless     *)
(* everybody who runs still has a signed key to save (Behind). The counter *)
(* is among the ids of the one preparation that has some left, and past    *)
(* those that are saved (Ahead). For the types: the next preparation       *)
(* begins at most as many ids further on as preparations have taken theirs *)
(* (Counted).                                                              *)
(***************************************************************************)
EXTENDS KeyStore, SequenceTheorems, FiniteSetTheorems, TLAPS

States == {"idle", "make", "spk", "opks", "save", "done"}
JobSet == [pc : States, key : Nat, ids : SUBSET Int, saved : SUBSET Int]
Uploads == [spk : Nat, key : Nat, ids : SUBSET Int]

Types ==
  /\ mem \in Keys /\ disk \in Keys /\ server \in Keys
  /\ engine \in [identity : Nat, spk : Nat, next : Nat]
  /\ job \in [AllJobs -> JobSet]
  /\ wire \in Seq(Uploads)
  /\ starter \in [Starts -> {"idle", "init", "set"}]
  /\ made \in Nat

\* The engine works with the identity of the store, the server knows no other.
Identities == ~lost =>
  /\ engine.identity \in {0, mem.identity}
  /\ server.identity \in {0, mem.identity}

\* Nothing is made for a server before the first screen is through.
FirstScreen ==
  /\ registered => ~Running(Setup)
  /\ ~registered => /\ \A c \in Starts : starter[c] = "idle"
                    /\ ~started /\ ~online
                    /\ \A j \in Jobs : job[j].pc = "idle"
  /\ online => registered

\* The ids of a preparation follow each other. Of two that run, each has its own,
\* unless they crossed; then the counter is where the one that has ids left has got to.
Apart == ~crossed => \A j, k \in AllJobs :
  j # k /\ At(j, "save") /\ At(k, "save") => job[j].ids \cap job[k].ids = {}
Ahead == ~crossed => \A j \in AllJobs : At(j, "save") =>
  /\ \E a \in Int : job[j].ids = a .. a + Opks - 1
  /\ job[j].saved = {i \in job[j].ids : i < engine.next}
  /\ job[j].saved # job[j].ids => engine.next \in job[j].ids

\* Keys are numbered as they are made.
Made ==
  /\ \A i \in Ids : server.opk[i] <= made
  /\ \A n \in 1 .. Len(wire) : wire[n].key <= made
  /\ \A j \in AllJobs : job[j].key <= made

\* Each preparation has a signed key of its own.
HasKey(j) == job[j].pc \in {"spk", "opks", "save"}
OwnKeys == \A j, k \in AllJobs : HasKey(j) /\ HasKey(k) /\ job[j].key = job[k].key => j = k

\* One-time keys are saved after they are made.
NothingSaved == \A j \in AllJobs : job[j].pc \in {"make", "spk", "opks"} => job[j].saved = {}

\* What is published of the signed key in the store is in the store, and so is
\* what is on its way; a key that is not saved yet has not been sent. Who goes on
\* to save one-time keys saves none over those.
Held == ~lost /\ ~crossed =>
  /\ \A i \in Ids : server.opk[i] = mem.spk => mem.opk[i] = mem.spk
  /\ \A n \in 1 .. Len(wire) : wire[n].key = mem.spk =>
       \A i \in Ids \cap wire[n].ids : mem.opk[i] = mem.spk
  /\ \A j \in AllJobs : job[j].pc = "spk" =>
       /\ \A i \in Ids : server.opk[i] # job[j].key
       /\ \A n \in 1 .. Len(wire) : wire[n].key # job[j].key
  /\ \A j \in AllJobs : job[j].pc = "save" =>
       \A i \in Ids \cap job[j].saved : mem.opk[i] = job[j].key
  /\ \A j \in AllJobs : job[j].pc \in {"opks", "save"} =>
       /\ \A i \in Ids : server.opk[i] = mem.spk => i < engine.next
       /\ \A n \in 1 .. Len(wire) : wire[n].key = mem.spk =>
            \A i \in Ids \cap wire[n].ids : i < engine.next

IInv == Types /\ Identities /\ FirstScreen /\ Apart /\ Ahead /\ Made /\ OwnKeys
          /\ NothingSaved /\ Held
-----------------------------------------------------------------------------
LEMMA InitIInv == Init => IInv
<1> SUFFICES ASSUME Init PROVE IInv
  OBVIOUS
<1>1. NoKeys \in Keys /\ NoEngine \in [identity : Nat, spk : Nat, next : Nat] /\ Idle \in JobSet
  BY DEF NoKeys, Keys, NoEngine, Idle, JobSet, States
<1>2. Types
  BY <1>1, EmptySeq DEF Init, Types
<1>3. /\ \A i \in Ids : server.opk[i] = 0 /\ mem.opk[i] = 0
      /\ mem.spk = 0 /\ engine.identity = 0 /\ server.identity = 0
  BY DEF Init, NoKeys, NoEngine
<1>4. \A j \in AllJobs : job[j] = Idle /\ Idle.pc = "idle" /\ Idle.key = 0
  BY DEF Init, Idle
<1>5. Setup \in AllJobs /\ Jobs \subseteq AllJobs
  BY DEF AllJobs
<1>6. Identities /\ FirstScreen /\ Apart /\ Ahead
  BY <1>3, <1>4, <1>5 DEF Init, Identities, FirstScreen, Apart, Ahead, At, Running
<1>7. Made /\ OwnKeys /\ NothingSaved /\ Held
  BY <1>3, <1>4 DEF Init, Made, OwnKeys, HasKey, NothingSaved, Held
<1> QED BY <1>2, <1>6, <1>7 DEF IInv

\* A new engine and its identity.
LEMMA InitEngine ==
  ASSUME Types, nativeInit
  PROVE  /\ mem' \in Keys /\ engine' \in [identity : Nat, spk : Nat, next : Nat] /\ made' \in Nat
         /\ engine'.identity = mem'.identity
         /\ mem.identity # 0 => mem'.identity = mem.identity
         /\ mem'.spk = mem.spk /\ mem'.opk = mem.opk /\ made <= made'
<1>a. \A k \in Nat : [NoEngine EXCEPT !.identity = k] = [identity |-> k, spk |-> 0, next |-> 1]
  BY DEF NoEngine
<1>1. CASE mem.identity # 0
  <2>1. mem.identity \in Nat /\ engine' = [identity |-> mem.identity, spk |-> 0, next |-> 1]
    BY <1>a, <1>1 DEF Types, nativeInit, Keys
  <2> QED BY <1>1, <2>1 DEF Types, nativeInit
<1>2. CASE mem.identity = 0
  <2>1. made + 1 \in Nat /\ made <= made + 1
    BY DEF Types
  <2>2. made' = made + 1 /\ mem' = [mem EXCEPT !.identity = made + 1]
    BY <1>2 DEF nativeInit
  <2>3. engine' = [identity |-> made + 1, spk |-> 0, next |-> 1]
    BY <1>a, <1>2, <2>1 DEF nativeInit
  <2>4. mem' \in Keys /\ mem'.identity = made + 1 /\ mem'.spk = mem.spk /\ mem'.opk = mem.opk
    BY <2>1, <2>2 DEF Types, Keys
  <2> QED BY <1>2, <2>1, <2>2, <2>3, <2>4
<1> QED BY <1>1, <1>2

\* Every step keeps the types.
LEMMA NextTypes == IInv /\ [Next]_vars => Types'
<1> SUFFICES ASSUME Types, [Next]_vars PROVE Types'
  BY DEF IInv
<1>a. \A s \in States : [Idle EXCEPT !.pc = s] \in JobSet
  BY DEF Idle, JobSet, States
<1>b. Idle \in JobSet /\ NoEngine \in [identity : Nat, spk : Nat, next : Nat]
  BY DEF Idle, JobSet, States, NoEngine
<1>c. {"idle", "make", "spk", "opks", "save", "done"} \subseteq States
  BY DEF States
<1>d. Setup \in AllJobs /\ Jobs \subseteq AllJobs
  BY DEF AllJobs
<1>1. CASE generateKeysAndJoin
  BY <1>1, <1>a, <1>c, <1>d, InitEngine DEF generateKeysAndJoin, Begin, Types
<1>2. ASSUME NEW c \in Starts, start(c) PROVE Types'
  BY <1>2 DEF start, Types
<1>3. ASSUME NEW c \in Starts, StartEngine(c) PROVE Types'
  BY <1>3, InitEngine DEF StartEngine, Types
<1>4. ASSUME NEW c \in Starts, Started(c) PROVE Types'
  BY <1>4 DEF Started, Types
<1>5. CASE Login
  BY <1>5 DEF Login, Types, Keys
<1>6. ASSUME NEW j \in Jobs, handleAuthOk(j) PROVE Types'
  BY <1>6, <1>a, <1>c, <1>d DEF handleAuthOk, Begin, Types
<1>7. ASSUME NEW j \in AllJobs, MakeSpk(j) PROVE Types'
  <2>a. made + 1 \in Nat /\ job[j] \in JobSet
    BY DEF Types
  <2>1. made + 1 \in Nat /\ [job[j] EXCEPT !.pc = "spk", !.key = made + 1] \in JobSet
    BY <1>c, <2>a DEF JobSet
  <2> QED BY <1>7, <2>1 DEF MakeSpk, Work, Types
<1>8. ASSUME NEW j \in AllJobs, SaveSpk(j) PROVE Types'
  <2>1. [job[j] EXCEPT !.pc = "opks"] \in JobSet /\ [mem EXCEPT !.spk = job[j].key] \in Keys
    BY <1>c DEF Types, JobSet, Keys
  <2> QED BY <1>8, <2>1 DEF SaveSpk, Work, Types
<1>9. ASSUME NEW j \in AllJobs, MakeOpks(j) PROVE Types'
  <2>1. engine.next .. engine.next + Opks - 1 \in SUBSET Int
    OBVIOUS
  <2>2. [job[j] EXCEPT !.pc = "save", !.ids = engine.next .. engine.next + Opks - 1] \in JobSet
    BY <1>c, <2>1 DEF Types, JobSet
  <2> QED BY <1>9, <2>2 DEF MakeOpks, Work, Types
<1>10. ASSUME NEW j \in AllJobs, NEW i \in Ids, SaveOpk(j, i) PROVE Types'
  <2>1. i \in Nat /\ job[j] \in JobSet /\ job[j].saved \cup {i} \in SUBSET Int
    BY DEF Ids, Types, JobSet
  <2>2. [job[j] EXCEPT !.saved = @ \cup {i}] \in JobSet
    BY <2>1 DEF JobSet
  <2>3. [mem EXCEPT !.opk[i] = job[j].key] \in Keys
    BY DEF Types, JobSet, Keys
  <2>4. [engine EXCEPT !.next = i + 1] \in [identity : Nat, spk : Nat, next : Nat]
    BY <2>1 DEF Types
  <2> QED BY <1>10, <2>2, <2>3, <2>4 DEF SaveOpk, Work, Types
<1>11. ASSUME NEW j \in Jobs, SendUpload(j) PROVE Types'
  <2>1. Upload(j) \in Uploads
    BY <1>d DEF Upload, Uploads, Types, JobSet
  <2>2. [job[j] EXCEPT !.pc = "done"] \in JobSet
    BY <1>c, <1>d DEF Types, JobSet
  <2>3. wire' \in Seq(Uploads)
    BY <1>11, <2>1, AppendProperties DEF SendUpload, Types
  <2> QED BY <1>11, <1>d, <2>2, <2>3 DEF SendUpload, Finish, Types
<1>12. CASE SetRegistered
  <2>1. [job[Setup] EXCEPT !.pc = "done"] \in JobSet
    BY <1>c, <1>d DEF Types, JobSet
  <2> QED BY <1>12, <1>d, <2>1 DEF SetRegistered, Finish, Types
<1>13. CASE ServerTakes
  <2>1. wire' \in Seq(Uploads) /\ Head(wire) \in Uploads
    BY <1>13, HeadTailProperties DEF ServerTakes, Types
  <2>2. server' \in Keys
    BY <1>13, <2>1 DEF ServerTakes, Types, Keys, Uploads
  <2> QED BY <1>13, <2>1, <2>2 DEF ServerTakes, Types
<1>14. CASE LinkDown
  BY <1>14, EmptySeq DEF LinkDown, Types
<1>15. CASE Persist
  BY <1>15 DEF Persist, Types
<1>16. CASE Crash
  BY <1>16, <1>b DEF Crash, Types
<1>17. CASE UNCHANGED vars
  BY <1>17 DEF vars, Types
<1> QED BY <1>1, <1>2, <1>3, <1>4, <1>5, <1>6, <1>7, <1>8, <1>9, <1>10, <1>11, <1>12, <1>13,
           <1>14, <1>15, <1>16, <1>17 DEF Next, Step
-----------------------------------------------------------------------------
\* Once there is an identity every engine has it, and the server another never.
LEMMA NextIdentities == IInv /\ [Next]_vars => Identities'
<1> SUFFICES ASSUME Types, Identities, [Next]_vars, ~lost' PROVE Identities'
  BY DEF IInv, Identities
<1> USE DEF Identities
<1>1. CASE generateKeysAndJoin
  BY <1>1, InitEngine DEF generateKeysAndJoin
<1>2. ASSUME NEW c \in Starts, start(c) \/ StartEngine(c) \/ Started(c) PROVE Identities'
  BY <1>2, InitEngine DEF start, StartEngine, Started
<1>3. CASE Login
  BY <1>3 DEF Login, Types, Keys
<1>4. ASSUME NEW j \in Jobs, handleAuthOk(j) \/ SendUpload(j) PROVE Identities'
  BY <1>4 DEF handleAuthOk, SendUpload
<1>5. ASSUME NEW j \in AllJobs, Step(j) PROVE Identities'
  <2>1. ASSUME MakeSpk(j) PROVE Identities'
    BY <2>1 DEF MakeSpk, Work, Types
  <2>2. ASSUME SaveSpk(j) PROVE Identities'
    BY <2>2 DEF SaveSpk, Work, Types, Keys
  <2>3. ASSUME MakeOpks(j) PROVE Identities'
    BY <2>3 DEF MakeOpks, Work
  <2>4. ASSUME NEW i \in Ids, SaveOpk(j, i) PROVE Identities'
    BY <2>4 DEF SaveOpk, Work, Types, Keys
  <2> QED BY <1>5, <2>1, <2>2, <2>3, <2>4 DEF Step
<1>6. CASE ServerTakes
  BY <1>6 DEF ServerTakes, Types, Keys
<1>7. CASE SetRegistered \/ LinkDown \/ Persist \/ UNCHANGED vars
  BY <1>7 DEF SetRegistered, LinkDown, Persist, vars
<1>8. CASE Crash
  BY <1>8 DEF Crash, NoEngine
<1> QED BY <1>1, <1>2, <1>3, <1>4, <1>5, <1>6, <1>7, <1>8 DEF Next

\* A step of a preparation: it goes on, and no other does.
LEMMA StepsOn ==
  ASSUME Types, NEW j \in AllJobs, Step(j)
  PROVE  /\ job' = [job EXCEPT ![j] = job'[j]]
         /\ Running(j) /\ job'[j].pc \in {"spk", "opks", "save"}
         /\ UNCHANGED <<registered, started, starter, online, wire, server, lost>>
         /\ made <= made'
<1>1. CASE MakeSpk(j)
  BY <1>1 DEF MakeSpk, Work, Types, JobSet, At, Running
<1>2. CASE SaveSpk(j)
  BY <1>2 DEF SaveSpk, Work, Types, JobSet, At, Running
<1>3. CASE MakeOpks(j)
  BY <1>3 DEF MakeOpks, Work, Types, JobSet, At, Running
<1>4. ASSUME NEW i \in Ids, SaveOpk(j, i)
      PROVE  /\ job' = [job EXCEPT ![j] = job'[j]]
             /\ Running(j) /\ job'[j].pc \in {"spk", "opks", "save"}
             /\ UNCHANGED <<registered, started, starter, online, wire, server, lost>>
             /\ made <= made'
  BY <1>4 DEF SaveOpk, NextId, Work, Types, JobSet, At, Running
<1> QED BY <1>1, <1>2, <1>3, <1>4 DEF Step

LEMMA NextScreen == IInv /\ [Next]_vars => FirstScreen'
<1> SUFFICES ASSUME Types, FirstScreen, [Next]_vars PROVE FirstScreen'
  BY DEF IInv
<1> USE DEF FirstScreen, Running
<1>a. Setup \in AllJobs /\ Jobs \subseteq AllJobs /\ Setup \notin Jobs
  BY KeyAssumption DEF AllJobs
<1>b. Idle.pc = "idle" /\ [Idle EXCEPT !.pc = "make"].pc = "make"
  BY DEF Idle
<1>1. CASE generateKeysAndJoin
  BY <1>1, <1>a, <1>b DEF generateKeysAndJoin, Begin, Types
<1>2. ASSUME NEW c \in Starts, start(c) \/ StartEngine(c) \/ Started(c)
      PROVE  FirstScreen'
  BY <1>2 DEF start, StartEngine, Started, Types
<1>3. CASE Login
  BY <1>3 DEF Login
<1>4. ASSUME NEW j \in Jobs, handleAuthOk(j) PROVE FirstScreen'
  <2>1. /\ job' = [job EXCEPT ![j] = [Idle EXCEPT !.pc = "make"]] /\ online
        /\ UNCHANGED <<registered, started, starter, online>> /\ job[j].pc = "idle"
    BY <1>4 DEF handleAuthOk, Begin
  <2>2. \A k \in AllJobs : k # j => job'[k] = job[k]
    BY <1>a, <2>1 DEF Types
  <2> QED BY <1>a, <2>1, <2>2
<1>5. ASSUME NEW j \in AllJobs, Step(j) PROVE FirstScreen'
  <2>1. /\ \A k \in AllJobs : k # j => job'[k] = job[k]
        /\ Running(j) /\ UNCHANGED <<registered, started, starter, online>>
    BY <1>5, StepsOn DEF Types
  <2>2. \A k \in AllJobs : job'[k].pc \notin {"idle", "done"} => Running(k)
    BY <2>1
  <2> QED BY <1>a, <2>1, <2>2
<1>6. ASSUME NEW j \in Jobs, SendUpload(j) PROVE FirstScreen'
  <2>1. /\ \A k \in AllJobs : k # j => job'[k] = job[k]
        /\ job'[j].pc = "done" /\ job[j].pc = "save"
        /\ UNCHANGED <<registered, started, starter, online>>
    BY <1>6, <1>a DEF SendUpload, Finish, Ready, At, Types, JobSet
  <2> QED BY <1>a, <2>1
<1>7. CASE SetRegistered
  <2>1. /\ \A k \in AllJobs : k # Setup => job'[k] = job[k]
        /\ job'[Setup].pc = "done" /\ registered'
        /\ UNCHANGED <<started, starter, online>>
    BY <1>7, <1>a DEF SetRegistered, Finish, Types, JobSet
  <2> QED BY <1>a, <2>1
<1>8. CASE ServerTakes \/ LinkDown \/ Persist \/ UNCHANGED vars
  BY <1>8 DEF ServerTakes, LinkDown, Persist, vars
<1>9. CASE Crash
  BY <1>9, <1>a, <1>b DEF Crash
<1> QED BY <1>1, <1>2, <1>3, <1>4, <1>5, <1>6, <1>7, <1>8, <1>9 DEF Next

-----------------------------------------------------------------------------
\* The frame the server takes, and those that follow it.
LEMMA Taken ==
  ASSUME Types, ServerTakes
  PROVE  /\ 1 \in 1 .. Len(wire) /\ Head(wire) = wire[1]
         /\ \A n \in 1 .. Len(wire') : n + 1 \in 1 .. Len(wire) /\ wire'[n] = wire[n + 1]
         /\ \A i \in Ids : server'.opk[i] =
              IF i \in wire[1].ids THEN wire[1].key ELSE server.opk[i]
<1>1. /\ Len(wire) \in Nat \ {0} /\ Len(wire') = Len(wire) - 1 /\ Head(wire) = wire[1]
      /\ \A n \in 1 .. Len(wire') : wire'[n] = wire[n + 1]
  BY HeadTailProperties, EmptySeq DEF ServerTakes, Types
<1>2. \A i \in Ids : server'.opk[i] = IF i \in wire[1].ids THEN wire[1].key ELSE server.opk[i]
  BY <1>1 DEF ServerTakes, Types, Keys
<1> QED BY <1>1, <1>2

\* The frame that is sent, behind the others.
LEMMA Sent ==
  ASSUME Types, NEW j \in Jobs, SendUpload(j)
  PROVE  /\ Len(wire') = Len(wire) + 1 /\ Len(wire) \in Nat
         /\ \A n \in 1 .. Len(wire) : wire'[n] = wire[n]
         /\ wire'[Len(wire) + 1].key = job[j].key /\ wire'[Len(wire) + 1].ids = job[j].saved
         /\ job[j].pc = "save" /\ job'[j].pc = "done" /\ job'[j].key = job[j].key
         /\ \A k \in AllJobs : k # j => job'[k] = job[k]
<1>1. j \in AllJobs /\ Upload(j) \in Uploads
  BY DEF Upload, Uploads, Types, JobSet, AllJobs
<1>2. wire' = Append(wire, Upload(j)) /\ job[j].pc = "save" /\ job[j].saved = job[j].ids
  BY DEF SendUpload, Ready, At
<1>3. /\ Len(wire') = Len(wire) + 1 /\ Len(wire) \in Nat /\ wire'[Len(wire) + 1] = Upload(j)
      /\ \A n \in 1 .. Len(wire) : wire'[n] = wire[n]
  BY <1>1, <1>2, AppendProperties, LenProperties DEF Types
<1>4. /\ job'[j].pc = "done" /\ job'[j].key = job[j].key
      /\ \A k \in AllJobs : k # j => job'[k] = job[k]
  BY <1>1 DEF SendUpload, Finish, Types, JobSet
<1> QED BY <1>2, <1>3, <1>4 DEF Upload

LEMMA NextMade == IInv /\ [Next]_vars => Made'
<1> SUFFICES ASSUME Types, Made, [Next]_vars PROVE Made'
  BY DEF IInv
<1> USE DEF Made
<1>a. Setup \in AllJobs /\ Jobs \subseteq AllJobs
  BY DEF AllJobs
<1>b. /\ made \in Nat /\ \A i \in Ids : server.opk[i] \in Nat
      /\ \A j \in AllJobs : job[j].key \in Nat
      /\ \A n \in 1 .. Len(wire) : wire[n].key \in Nat
  <2>1. /\ made \in Nat /\ \A i \in Ids : server.opk[i] \in Nat
        /\ \A j \in AllJobs : job[j].key \in Nat
    BY DEF Types, Keys, JobSet
  <2>2. \A n \in 1 .. Len(wire) : wire[n] \in Uploads
    BY LenProperties DEF Types
  <2> QED BY <2>1, <2>2 DEF Uploads
<1>c. Idle.key = 0 /\ [Idle EXCEPT !.pc = "make"].key = 0
  BY DEF Idle
<1>1. CASE generateKeysAndJoin
  <2>1. /\ UNCHANGED <<server, wire>> /\ made' \in Nat /\ made <= made'
        /\ \A j \in AllJobs : job'[j].key \in {0, job[j].key}
    BY <1>1, <1>a, <1>c, InitEngine DEF generateKeysAndJoin, Begin, Types
  <2> QED BY <1>b, <2>1
<1>2. ASSUME NEW c \in Starts, start(c) \/ StartEngine(c) \/ Started(c) PROVE Made'
  <2>1. UNCHANGED <<server, wire, job>> /\ made' \in Nat /\ made <= made'
    BY <1>2, <1>b, InitEngine DEF start, StartEngine, Started
  <2> QED BY <1>b, <2>1
<1>3. CASE Login
  BY <1>3 DEF Login, Types, Keys
<1>4. ASSUME NEW j \in Jobs, handleAuthOk(j) PROVE Made'
  <2>1. /\ UNCHANGED <<server, wire, made>>
        /\ \A k \in AllJobs : job'[k].key \in {0, job[k].key}
    BY <1>4, <1>a, <1>c DEF handleAuthOk, Begin, Types
  <2> QED BY <1>b, <2>1
<1>5. ASSUME NEW j \in AllJobs, MakeSpk(j) PROVE Made'
  <2>1. /\ UNCHANGED <<server, wire>> /\ made' = made + 1
        /\ \A k \in AllJobs : job'[k].key \in {made + 1, job[k].key}
    BY <1>5 DEF MakeSpk, Work, Types, JobSet
  <2> QED BY <1>b, <2>1
<1>6. ASSUME NEW j \in AllJobs, SaveSpk(j) \/ MakeOpks(j) \/ \E i \in Ids : SaveOpk(j, i) PROVE Made'
  <2>1. UNCHANGED <<server, wire, made>>
    BY <1>6 DEF SaveSpk, MakeOpks, SaveOpk, Work
  <2>2. SaveSpk(j) => job'[j].key = job[j].key /\ \A k \in AllJobs : k # j => job'[k] = job[k]
    BY DEF SaveSpk, Work, Types, JobSet
  <2>3. MakeOpks(j) => job'[j].key = job[j].key /\ \A k \in AllJobs : k # j => job'[k] = job[k]
    BY DEF MakeOpks, Work, Types, JobSet
  <2>4. ASSUME NEW i \in Ids, SaveOpk(j, i)
        PROVE  job'[j].key = job[j].key /\ \A k \in AllJobs : k # j => job'[k] = job[k]
    BY <2>4 DEF SaveOpk, Work, Types, JobSet
  <2> QED BY <1>6, <2>1, <2>2, <2>3, <2>4
<1>7. ASSUME NEW j \in Jobs, SendUpload(j) PROVE Made'
  <2>1. UNCHANGED <<server, made>> /\ \A k \in AllJobs : job'[k].key = job[k].key
    BY <1>7, Sent DEF SendUpload
  <2>2. \A n \in 1 .. Len(wire') : n \in 1 .. Len(wire) \/ n = Len(wire) + 1
    BY <1>7, Sent
  <2> QED BY <1>7, <1>a, <2>1, <2>2, Sent
<1>8. CASE SetRegistered
  <2>1. UNCHANGED <<server, wire, made>> /\ \A k \in AllJobs : job'[k].key = job[k].key
    BY <1>8 DEF SetRegistered, Finish, Types, JobSet
  <2> QED BY <2>1
<1>9. CASE ServerTakes
  <2>1. UNCHANGED <<job, made>>
    BY <1>9 DEF ServerTakes
  <2> QED BY <1>9, <2>1, Taken
<1>10. CASE LinkDown
  BY <1>10 DEF LinkDown
<1>11. CASE Persist \/ UNCHANGED vars
  BY <1>11 DEF Persist, vars
<1>12. CASE Crash
  BY <1>12, <1>b, <1>c DEF Crash
<1> QED BY <1>1, <1>2, <1>3, <1>4, <1>5, <1>6, <1>7, <1>8, <1>9, <1>10, <1>11, <1>12 DEF Next, Step

LEMMA NextNothingSaved == IInv /\ [Next]_vars => NothingSaved'
<1> SUFFICES ASSUME Types, NothingSaved, [Next]_vars PROVE NothingSaved'
  BY DEF IInv
<1> USE DEF NothingSaved
<1>a. Setup \in AllJobs /\ Jobs \subseteq AllJobs
  BY DEF AllJobs
<1>b. Idle.saved = {} /\ [Idle EXCEPT !.pc = "make"].saved = {}
  BY DEF Idle
<1>1. ASSUME NEW j \in AllJobs, Begin(j) PROVE NothingSaved'
  BY <1>1, <1>b DEF Begin, Types
<1>2. ASSUME NEW j \in AllJobs, Finish(j) PROVE NothingSaved'
  <2>1. job'[j].pc = "done" /\ \A k \in AllJobs : k # j => job'[k] = job[k]
    BY <1>2 DEF Finish, Types, JobSet
  <2> QED BY <2>1
<1>3. ASSUME NEW j \in AllJobs, MakeSpk(j) PROVE NothingSaved'
  <2>1. /\ job[j].pc = "make" /\ job'[j].saved = job[j].saved
        /\ \A k \in AllJobs : k # j => job'[k] = job[k]
    BY <1>3 DEF MakeSpk, Work, At, Types, JobSet
  <2> QED BY <2>1
<1>4. ASSUME NEW j \in AllJobs, SaveSpk(j) PROVE NothingSaved'
  <2>1. /\ job[j].pc = "spk" /\ job'[j].saved = job[j].saved
        /\ \A k \in AllJobs : k # j => job'[k] = job[k]
    BY <1>4 DEF SaveSpk, Work, At, Types, JobSet
  <2> QED BY <2>1
<1>5. ASSUME NEW j \in AllJobs, MakeOpks(j) \/ \E i \in Ids : SaveOpk(j, i) PROVE NothingSaved'
  <2>1. MakeOpks(j) => job'[j].pc = "save" /\ \A k \in AllJobs : k # j => job'[k] = job[k]
    BY DEF MakeOpks, Work, Types, JobSet
  <2>2. ASSUME NEW i \in Ids, SaveOpk(j, i)
        PROVE  job'[j].pc = "save" /\ \A k \in AllJobs : k # j => job'[k] = job[k]
    BY <2>2 DEF SaveOpk, NextId, At, Work, Types, JobSet
  <2> QED BY <1>5, <2>1, <2>2
<1>6. CASE Crash
  BY <1>6, <1>b DEF Crash
<1>7. CASE UNCHANGED job
  BY <1>7
<1>8. ASSUME NEW c \in Starts, start(c) \/ StartEngine(c) \/ Started(c) PROVE UNCHANGED job
  BY <1>8 DEF start, StartEngine, Started
<1>9. CASE Login \/ ServerTakes \/ LinkDown \/ Persist \/ UNCHANGED vars
  BY <1>7, <1>9 DEF Login, ServerTakes, LinkDown, Persist, vars
<1> QED BY <1>a, <1>1, <1>2, <1>3, <1>4, <1>5, <1>6, <1>7, <1>8, <1>9
        DEF Next, Step, generateKeysAndJoin, handleAuthOk, SendUpload, SetRegistered

\* Nothing that happened is undone.
LEMMA StillNot ==
  ASSUME [Next]_vars
  PROVE  (~crossed' => ~crossed) /\ (~lost' => ~lost)
<1>1. ASSUME NEW j \in AllJobs, Step(j) PROVE (crossed => crossed') /\ lost' = lost
  <2>1. MakeSpk(j) => crossed' = crossed /\ lost' = lost
    BY DEF MakeSpk, Work
  <2>2. SaveSpk(j) => crossed' = crossed /\ lost' = lost
    BY DEF SaveSpk, Work
  <2>3. MakeOpks(j) => (crossed => crossed') /\ lost' = lost
    BY Zenon DEF MakeOpks, Work
  <2>4. ASSUME NEW i \in Ids, SaveOpk(j, i) PROVE crossed' = crossed /\ lost' = lost
    BY <2>4 DEF SaveOpk, Work
  <2> QED BY <1>1, <2>1, <2>2, <2>3, <2>4 DEF Step
<1>2. ASSUME NEW j \in Jobs, handleAuthOk(j) \/ SendUpload(j) PROVE crossed' = crossed /\ lost' = lost
  BY <1>2 DEF handleAuthOk, SendUpload
<1>3. ASSUME NEW c \in Starts, start(c) \/ StartEngine(c) \/ Started(c)
      PROVE  crossed' = crossed /\ lost' = lost
  BY <1>3 DEF start, StartEngine, Started
<1>4. CASE generateKeysAndJoin \/ Login \/ SetRegistered \/ UNCHANGED vars
  BY <1>4 DEF generateKeysAndJoin, Login, SetRegistered, vars
<1>5. CASE ServerTakes \/ LinkDown \/ Persist
  BY <1>5 DEF ServerTakes, LinkDown, Persist
<1>6. CASE Crash
  <2>1. crossed' = crossed /\ (lost => lost')
    BY <1>6, Zenon DEF Crash
  <2> QED BY <2>1
<1> QED BY <1>1, <1>2, <1>3, <1>4, <1>5, <1>6 DEF Next

\* What each step of a preparation does.
LEMMA SpkMade ==
  ASSUME Types, NEW j \in AllJobs, MakeSpk(j)
  PROVE  /\ UNCHANGED <<mem, server, wire>> /\ engine'.next = engine.next
         /\ job[j].pc = "make" /\ job'[j].pc = "spk" /\ job'[j].key = made + 1
         /\ \A k \in AllJobs : k # j => job'[k] = job[k]
BY DEF MakeSpk, Work, At, Types, JobSet

LEMMA SpkSaved ==
  ASSUME Types, NEW j \in AllJobs, SaveSpk(j)
  PROVE  /\ UNCHANGED <<server, wire, engine>> /\ mem'.spk = job[j].key /\ mem'.opk = mem.opk
         /\ job[j].pc = "spk" /\ job'[j].pc = "opks" /\ job'[j].key = job[j].key
         /\ \A k \in AllJobs : k # j => job'[k] = job[k]
BY DEF SaveSpk, Work, At, Types, JobSet, Keys

LEMMA OpksMade ==
  ASSUME Types, NEW j \in AllJobs, MakeOpks(j)
  PROVE  /\ UNCHANGED <<mem, server, wire, engine>>
         /\ job[j].pc = "opks" /\ job'[j].pc = "save"
         /\ job'[j].key = job[j].key /\ job'[j].saved = job[j].saved
         /\ job'[j].ids = engine.next .. engine.next + Opks - 1
         /\ \A k \in AllJobs : k # j => job'[k] = job[k]
         /\ ~crossed' => \A k \in AllJobs : k # j /\ At(k, "save") =>
              (engine.next .. engine.next + Opks - 1) \cap job[k].ids = {}
<1>1. ~crossed' => ~Shares(j, engine.next .. engine.next + Opks - 1)
  BY Zenon DEF MakeOpks
<1> QED BY <1>1 DEF MakeOpks, Shares, Work, At, Types, JobSet

LEMMA OpkSaved ==
  ASSUME Types, NEW j \in AllJobs, NEW i \in Ids, SaveOpk(j, i)
  PROVE  /\ UNCHANGED <<server, wire>> /\ engine'.next = i + 1 /\ i \in Nat
         /\ mem'.spk = mem.spk /\ mem'.opk[i] = job[j].key
         /\ \A k \in Ids : k # i => mem'.opk[k] = mem.opk[k]
         /\ job[j].pc = "save" /\ job'[j].pc = "save"
         /\ job'[j].key = job[j].key /\ job'[j].ids = job[j].ids
         /\ job'[j].saved = job[j].saved \cup {i}
         /\ i \in job[j].ids /\ i \notin job[j].saved
         /\ \A k \in job[j].ids \ job[j].saved : i <= k
         /\ \A k \in AllJobs : k # j => job'[k] = job[k]
<1>1. /\ UNCHANGED <<server, wire>> /\ engine'.next = i + 1 /\ i \in Nat
      /\ mem' = [mem EXCEPT !.opk[i] = job[j].key] /\ NextId(j, i)
      /\ job' = [job EXCEPT ![j] = [job[j] EXCEPT !.saved = @ \cup {i}]]
  BY DEF SaveOpk, Work, Types, Ids
<1>2. /\ mem'.spk = mem.spk /\ mem'.opk[i] = job[j].key
      /\ \A k \in Ids : k # i => mem'.opk[k] = mem.opk[k]
  BY <1>1 DEF Types, Keys
<1>3. /\ job'[j].pc = job[j].pc /\ job'[j].key = job[j].key /\ job'[j].ids = job[j].ids
      /\ job'[j].saved = job[j].saved \cup {i}
      /\ \A k \in AllJobs : k # j => job'[k] = job[k]
  BY <1>1 DEF Types, JobSet
<1> QED BY <1>1, <1>2, <1>3 DEF NextId, At

\* Steps that no preparation takes leave it alone, or end it, or begin it.
LEMMA Elsewhere ==
  ASSUME IInv, [Next]_vars, ~ \E j \in AllJobs : Step(j)
  PROVE  /\ \A j \in AllJobs : job'[j] = job[j] \/ job'[j].pc \in {"idle", "make", "done"}
         /\ \/ engine'.next = engine.next
            \/ \A j \in AllJobs : job'[j].pc \in {"idle", "make", "done"}
<1> DEFINE Goal == /\ \A j \in AllJobs : job'[j] = job[j] \/ job'[j].pc \in {"idle", "make", "done"}
                   /\ \/ engine'.next = engine.next
                      \/ \A j \in AllJobs : job'[j].pc \in {"idle", "make", "done"}
<1>a. Setup \in AllJobs /\ Jobs \subseteq AllJobs /\ Types /\ FirstScreen
  BY DEF AllJobs, IInv
<1>b. Idle.pc = "idle" /\ [Idle EXCEPT !.pc = "make"].pc = "make"
  BY DEF Idle
<1>1. CASE generateKeysAndJoin
  <2>1. job'[Setup].pc = "make" /\ \A j \in AllJobs : j # Setup => job'[j] = job[j]
    BY <1>1, <1>a, <1>b DEF generateKeysAndJoin, Begin, Types
  <2>2. \A j \in AllJobs : j # Setup => job[j].pc = "idle"
    BY <1>1, <1>a DEF generateKeysAndJoin, FirstScreen, AllJobs
  <2> QED BY <2>1, <2>2
<1>2. ASSUME NEW c \in Starts, start(c) \/ Started(c) PROVE Goal
  BY <1>2 DEF start, Started
<1>3. ASSUME NEW c \in Starts, StartEngine(c) PROVE Goal
  BY <1>3 DEF StartEngine, Running
<1>4. ASSUME NEW j \in Jobs, handleAuthOk(j) PROVE Goal
  BY <1>4, <1>a, <1>b DEF handleAuthOk, Begin, Types
<1>5. ASSUME NEW j \in Jobs, SendUpload(j) PROVE Goal
  BY <1>5, <1>a, Sent DEF SendUpload
<1>6. CASE SetRegistered
  BY <1>6, <1>a DEF SetRegistered, Finish, Types, JobSet
<1>7. CASE Login \/ ServerTakes \/ LinkDown \/ Persist \/ UNCHANGED vars
  BY <1>7 DEF Login, ServerTakes, LinkDown, Persist, vars
<1>8. CASE Crash
  BY <1>8, <1>b DEF Crash
<1> QED BY <1>1, <1>2, <1>3, <1>4, <1>5, <1>6, <1>7, <1>8 DEF Next

LEMMA NextApart == IInv /\ [Next]_vars => Apart'
<1> SUFFICES ASSUME IInv, [Next]_vars, ~crossed',
                    NEW j \in AllJobs, NEW k \in AllJobs, j # k,
                    job'[j].pc = "save", job'[k].pc = "save"
             PROVE  job'[j].ids \cap job'[k].ids = {}
  BY DEF Apart, At
<1>1. /\ Types /\ \A m, n \in AllJobs : m # n /\ job[m].pc = "save" /\ job[n].pc = "save" =>
           job[m].ids \cap job[n].ids = {}
  BY StillNot DEF IInv, Apart, At
<1>2. CASE ~ \E m \in AllJobs : Step(m)
  BY <1>1, <1>2, Elsewhere
<1>3. ASSUME NEW m \in AllJobs, MakeSpk(m) PROVE job'[j].ids \cap job'[k].ids = {}
  BY <1>1, <1>3, SpkMade
<1>4. ASSUME NEW m \in AllJobs, SaveSpk(m) PROVE job'[j].ids \cap job'[k].ids = {}
  BY <1>1, <1>4, SpkSaved
<1>5. ASSUME NEW m \in AllJobs, MakeOpks(m) PROVE job'[j].ids \cap job'[k].ids = {}
  <2>1. \A n \in AllJobs : n # m /\ job[n].pc = "save" => job'[m].ids \cap job[n].ids = {}
    BY <1>1, <1>5, OpksMade DEF At
  <2> QED BY <1>1, <1>5, <2>1, OpksMade
<1>6. ASSUME NEW m \in AllJobs, NEW i \in Ids, SaveOpk(m, i) PROVE job'[j].ids \cap job'[k].ids = {}
  <2>1. \A n \in AllJobs : job'[n].ids = job[n].ids /\ job'[n].pc = job[n].pc
    BY <1>1, <1>6, OpkSaved
  <2> QED BY <1>1, <2>1
<1> QED BY <1>2, <1>3, <1>4, <1>5, <1>6 DEF Step

\* The preparation that has ids left, and where it has got to.
LEMMA NextAhead == IInv /\ [Next]_vars => Ahead'
<1> DEFINE Good(j) == /\ \E a \in Int : job[j].ids = a .. a + Opks - 1
                      /\ job[j].saved = {i \in job[j].ids : i < engine.next}
                      /\ job[j].saved # job[j].ids => engine.next \in job[j].ids
<1> SUFFICES ASSUME IInv, [Next]_vars, ~crossed', NEW j \in AllJobs, job'[j].pc = "save"
             PROVE  Good(j)'
  BY DEF Ahead, At
<1>1. /\ Types /\ Apart /\ ~crossed /\ \A m \in AllJobs : job[m].pc = "save" => Good(m)
  BY StillNot DEF IInv, Ahead, At
<1>2. CASE ~ \E m \in AllJobs : Step(m)
  <2>1. job'[j] = job[j] /\ engine'.next = engine.next
    BY <1>2, Elsewhere
  <2>2. Good(j)
    BY <1>1, <2>1
  <2> QED BY <2>1, <2>2
<1>3. ASSUME NEW m \in AllJobs, MakeSpk(m) PROVE Good(j)'
  <2>1. job'[j] = job[j] /\ engine'.next = engine.next
    BY <1>1, <1>3, SpkMade
  <2>2. Good(j)
    BY <1>1, <2>1
  <2> QED BY <2>1, <2>2
<1>4. ASSUME NEW m \in AllJobs, SaveSpk(m) PROVE Good(j)'
  <2>1. job'[j] = job[j] /\ engine'.next = engine.next
    BY <1>1, <1>4, SpkSaved
  <2>2. Good(j)
    BY <1>1, <2>1
  <2> QED BY <2>1, <2>2
<1>5. ASSUME NEW m \in AllJobs, MakeOpks(m) PROVE Good(j)'
  <2>1. CASE j # m
    <3>1. job'[j] = job[j] /\ engine'.next = engine.next
      BY <1>1, <1>5, <2>1, OpksMade
    <3>2. Good(j)
      BY <1>1, <3>1
    <3> QED BY <3>1, <3>2
  <2>2. CASE j = m
    <3>1. /\ engine.next \in Int /\ engine'.next = engine.next /\ Opks \in Nat \ {0}
          /\ job'[j].ids = engine.next .. engine.next + Opks - 1
          /\ job'[j].saved = {}
      BY <1>1, <1>5, <2>2, OpksMade, KeyAssumption DEF Types, IInv, NothingSaved
    <3>2. engine.next \in job'[j].ids /\ {i \in job'[j].ids : i < engine.next} = {}
      BY <3>1
    <3> QED BY <3>1, <3>2
  <2> QED BY <2>1, <2>2
<1>6. ASSUME NEW m \in AllJobs, NEW i \in Ids, SaveOpk(m, i) PROVE Good(j)'
  <2>1. /\ job[m].pc = "save" /\ i \in job[m].ids /\ i \notin job[m].saved /\ i \in Nat
        /\ \A k \in job[m].ids \ job[m].saved : i <= k
        /\ engine'.next = i + 1 /\ job'[m].ids = job[m].ids /\ job'[m].saved = job[m].saved \cup {i}
        /\ \A k \in AllJobs : k # m => job'[k] = job[k]
    BY <1>1, <1>6, OpkSaved
  <2>2. Good(m)
    BY <1>1, <2>1
  <2>3. engine.next = i
    <3>1. job[m].saved # job[m].ids /\ engine.next \in job[m].ids /\ engine.next \in Int
      BY <1>1, <2>1, <2>2 DEF Types
    <3>2. engine.next \notin job[m].saved /\ ~(i < engine.next)
      BY <2>1, <2>2, <3>1
    <3> QED BY <2>1, <3>1, <3>2
  <2>4. CASE j = m
    <3>1. PICK a \in Int : job[m].ids = a .. a + Opks - 1
      BY <2>2
    <3>2. job'[m].saved = {k \in job[m].ids : k < i + 1}
      BY <2>1, <2>2, <2>3, <3>1
    <3>3. ASSUME job'[m].saved # job[m].ids PROVE i + 1 \in job[m].ids
      <4>1. PICK k \in job[m].ids : ~(k < i + 1)
        BY <3>2, <3>3
      <4> QED BY <2>1, <3>1, <4>1, KeyAssumption
    <3> QED BY <2>1, <2>4, <3>1, <3>2, <3>3
  <2>5. CASE j # m
    <3>1. job'[j] = job[j] /\ Good(j) /\ i \notin job[j].ids
      <4>1. job'[j] = job[j] /\ Good(j)
        BY <1>1, <2>1, <2>5
      <4>2. job[j].ids \cap job[m].ids = {}
        BY <1>1, <2>1, <2>5, <4>1 DEF Apart, At
      <4> QED BY <2>1, <4>1, <4>2
    <3>2. job[j].saved = job[j].ids
      BY <2>3, <3>1
    <3>3. {k \in job[j].ids : k < i + 1} = job[j].ids
      <4>1. \A k \in job[j].ids : k < i /\ k \in Int
        BY <2>3, <3>1, <3>2
      <4> QED BY <2>1, <4>1
    <3> QED BY <2>1, <3>1, <3>2, <3>3
  <2> QED BY <2>4, <2>5
<1> QED BY <1>2, <1>3, <1>4, <1>5, <1>6 DEF Step

LEMMA NextOwnKeys == IInv /\ [Next]_vars => OwnKeys'
<1> SUFFICES ASSUME IInv, [Next]_vars PROVE OwnKeys'
  OBVIOUS
<1>1. /\ Types /\ OwnKeys /\ made \in Nat
      /\ \A j \in AllJobs : job[j].key \in Nat /\ job[j].key <= made
  BY DEF IInv, Made, Types, JobSet
<1> USE DEF OwnKeys, HasKey
<1>2. CASE ~ \E m \in AllJobs : Step(m)
  BY <1>1, <1>2, Elsewhere
<1>3. ASSUME NEW m \in AllJobs, MakeSpk(m) PROVE OwnKeys'
  <2>1. \A k \in AllJobs : job[k].key # made + 1
    BY <1>1
  <2> QED BY <1>1, <1>3, <2>1, SpkMade
<1>4. ASSUME NEW m \in AllJobs, SaveSpk(m) PROVE OwnKeys'
  BY <1>1, <1>4, SpkSaved
<1>5. ASSUME NEW m \in AllJobs, MakeOpks(m) PROVE OwnKeys'
  BY <1>1, <1>5, OpksMade
<1>6. ASSUME NEW m \in AllJobs, NEW i \in Ids, SaveOpk(m, i) PROVE OwnKeys'
  <2>1. \A n \in AllJobs : job'[n].key = job[n].key /\ job'[n].pc = job[n].pc
    BY <1>1, <1>6, OpkSaved
  <2> QED BY <1>1, <2>1
<1> QED BY <1>2, <1>3, <1>4, <1>5, <1>6 DEF Step

LEMMA NextHeld == IInv /\ [Next]_vars => Held'
<1> DEFINE
      Stored == \A i \in Ids : server.opk[i] = mem.spk => mem.opk[i] = mem.spk
      Coming == \A n \in 1 .. Len(wire) : wire[n].key = mem.spk =>
                  \A i \in Ids \cap wire[n].ids : mem.opk[i] = mem.spk
      Unsent(j) == job[j].pc = "spk" =>
                     /\ \A i \in Ids : server.opk[i] # job[j].key
                     /\ \A n \in 1 .. Len(wire) : wire[n].key # job[j].key
      Saved(j) == job[j].pc = "save" => \A i \in Ids \cap job[j].saved : mem.opk[i] = job[j].key
      Passed == /\ \A i \in Ids : server.opk[i] = mem.spk => i < engine.next
                /\ \A n \in 1 .. Len(wire) : wire[n].key = mem.spk =>
                     \A i \in Ids \cap wire[n].ids : i < engine.next
      Behind(j) == job[j].pc \in {"opks", "save"} => Passed
      Goal == Stored' /\ Coming' /\ \A j \in AllJobs : Unsent(j)' /\ Saved(j)' /\ Behind(j)'
<1> SUFFICES ASSUME IInv, [Next]_vars, ~lost', ~crossed' PROVE Goal
  BY DEF Held
<1>a. Setup \in AllJobs /\ Jobs \subseteq AllJobs /\ Types /\ Made /\ FirstScreen /\ OwnKeys
  BY DEF AllJobs, IInv
<1>b. ~lost /\ ~crossed
  BY StillNot
<1>c. Stored /\ Coming /\ \A j \in AllJobs : Unsent(j) /\ Saved(j) /\ Behind(j)
  BY <1>b DEF IInv, Held
<1>e. /\ made \in Nat /\ mem.spk \in Nat /\ (\A i \in Ids : server.opk[i] \in Nat)
      /\ \A n \in 1 .. Len(wire) : wire[n] \in Uploads
  BY <1>a, LenProperties DEF Types, Keys
<1>g. Ids \subseteq Nat /\ engine.next \in Nat
  BY <1>a DEF Ids, Types
\* Nothing is saved or sent, and no preparation goes on but to its end or its start.
<1>f. ASSUME mem'.spk = mem.spk, mem'.opk = mem.opk, server'.opk = server.opk, wire' = wire,
             ~ \E j \in AllJobs : Step(j)
      PROVE  Goal
  BY <1>c, <1>f, Elsewhere
<1>5. ASSUME NEW j \in AllJobs, MakeSpk(j) PROVE Goal
  <2>1. /\ UNCHANGED <<mem, server, wire>> /\ job'[j].pc = "spk" /\ job'[j].key = made + 1
        /\ \A k \in AllJobs : k # j => job'[k] = job[k]
        /\ engine'.next = engine.next
    BY <1>5, <1>a, SpkMade
  <2>2. made + 1 > made /\ (\A i \in Ids : server.opk[i] # made + 1)
    BY <1>a, <1>e DEF Made
  <2>3. \A n \in 1 .. Len(wire) : wire[n].key # made + 1
    BY <1>a, <1>e DEF Made, Uploads
  <2> QED BY <1>c, <2>1, <2>2, <2>3
<1>6. ASSUME NEW j \in AllJobs, SaveSpk(j) PROVE Goal
  <2>1. /\ UNCHANGED <<server, wire>> /\ mem'.spk = job[j].key /\ mem'.opk = mem.opk
        /\ job[j].pc = "spk" /\ job'[j].pc = "opks"
        /\ \A k \in AllJobs : k # j => job'[k] = job[k]
    BY <1>6, <1>a, SpkSaved
  <2>2. Unsent(j)
    BY <1>c
  <2>3. Stored' /\ Coming' /\ Passed'
    BY <2>1, <2>2
  <2> QED BY <1>c, <2>1, <2>3
<1>7. ASSUME NEW j \in AllJobs, MakeOpks(j) PROVE Goal
  <2>1. /\ UNCHANGED <<mem, server, wire, engine>> /\ job[j].pc = "opks" /\ job'[j].pc = "save"
        /\ job'[j].key = job[j].key /\ job'[j].saved = job[j].saved
        /\ \A k \in AllJobs : k # j => job'[k] = job[k]
    BY <1>7, <1>a, OpksMade
  <2>2. job[j].saved = {}
    BY <2>1 DEF IInv, NothingSaved
  <2> QED BY <1>c, <2>1, <2>2
<1>8. ASSUME NEW j \in AllJobs, NEW i \in Ids, SaveOpk(j, i) PROVE Goal
  <2>1. /\ UNCHANGED <<server, wire>> /\ job[j].pc = "save" /\ job'[j].pc = "save"
        /\ job'[j].key = job[j].key /\ job'[j].saved = job[j].saved \cup {i}
        /\ \A k \in AllJobs : k # j => job'[k] = job[k]
        /\ i \in job[j].ids /\ i \notin job[j].saved
        /\ engine'.next = i + 1
        /\ mem'.spk = mem.spk /\ mem'.opk[i] = job[j].key
        /\ \A k \in Ids : k # i => mem'.opk[k] = mem.opk[k]
    BY <1>8, <1>a, OpkSaved
  <2>2. ~(i < engine.next) /\ i \in Nat
    <3>1. job[j].saved = {k \in job[j].ids : k < engine.next}
      BY <1>b, <2>1 DEF IInv, Ahead, At
    <3> QED BY <1>g, <2>1, <3>1
  <2>3. Passed /\ Passed'
    <3>1. Passed
      BY <1>c, <2>1
    <3> QED BY <1>g, <2>1, <2>2, <3>1
  <2>4. Stored' /\ Coming'
    BY <1>c, <2>1, <2>2, <2>3
  <2>5. ASSUME NEW k \in AllJobs, k # j, job[k].pc = "save" PROVE i \notin job[k].saved
    <3>1. job[k].ids \cap job[j].ids = {} /\ job[k].saved \subseteq job[k].ids
      BY <1>b, <2>1, <2>5 DEF IInv, Apart, Ahead, At
    <3> QED BY <2>1, <3>1
  <2> QED BY <1>c, <2>1, <2>3, <2>4, <2>5
<1>9. ASSUME NEW j \in Jobs, SendUpload(j) PROVE Goal
  <2>1. /\ UNCHANGED <<mem, server, engine>> /\ Saved(j) /\ j \in AllJobs /\ job[j].pc = "save"
    BY <1>9, <1>a, <1>c, Sent DEF SendUpload
  <2>2. \A n \in 1 .. Len(wire') : n \in 1 .. Len(wire) \/ n = Len(wire) + 1
    BY <1>9, <1>a, Sent
  <2>3. \A i \in job[j].saved : i < engine.next
    BY <1>b, <2>1 DEF IInv, Ahead, At
  <2>4. Coming'
    BY <1>9, <1>a, <1>c, <2>1, <2>2, Sent
  <2>5. Passed'
    <3>1. Passed
      BY <1>c, <2>1
    <3> QED BY <1>9, <1>a, <2>1, <2>2, <2>3, <3>1, Sent
  <2>6. ASSUME NEW k \in AllJobs, job'[k].pc = "spk"
        PROVE  \A n \in 1 .. Len(wire') : wire'[n].key # job'[k].key
    <3>1. k # j /\ job'[k] = job[k]
      BY <1>9, <1>a, <2>6, Sent
    <3>2. job[j].key # job[k].key
      BY <1>a, <2>1, <2>6, <3>1 DEF OwnKeys, HasKey
    <3> QED BY <1>9, <1>a, <1>c, <2>2, <2>6, <3>1, <3>2, Sent
  <2>7. \A k \in AllJobs : job'[k].pc = "save" => job'[k] = job[k]
    BY <1>9, <1>a, Sent
  <2>8. \A k \in AllJobs : job'[k].pc = "spk" => job'[k] = job[k]
    BY <1>9, <1>a, Sent
  <2> QED BY <1>c, <2>1, <2>4, <2>5, <2>6, <2>7, <2>8
<1>11. CASE ServerTakes
  <2>1. UNCHANGED <<mem, job, engine>>
    BY <1>11 DEF ServerTakes
  <2>2. Stored'
    BY <1>11, <1>a, <1>c, <2>1, Taken
  <2>3. Coming'
    BY <1>11, <1>a, <1>c, <2>1, Taken
  <2>4. ASSUME NEW j \in AllJobs, job[j].pc = "spk"
        PROVE  /\ \A i \in Ids : server'.opk[i] # job[j].key
               /\ \A n \in 1 .. Len(wire') : wire'[n].key # job[j].key
    <3>1. /\ \A i \in Ids : server.opk[i] # job[j].key
          /\ \A n \in 1 .. Len(wire) : wire[n].key # job[j].key
      BY <1>c, <2>4
    <3> QED BY <1>11, <1>a, <3>1, Taken
  <2>5. Passed => Passed'
    BY <1>11, <1>a, <2>1, Taken
  <2> QED BY <1>c, <2>1, <2>2, <2>3, <2>4, <2>5
<1>12. CASE LinkDown
  <2>1. UNCHANGED <<mem, job, server, engine>> /\ Len(wire') = 0
    BY <1>12 DEF LinkDown
  <2> QED BY <1>c, <2>1
<1>13. ASSUME ~ \E j \in AllJobs : Step(j), ~ \E j \in Jobs : SendUpload(j), ~ServerTakes, ~LinkDown
       PROVE  Goal
  <2> DEFINE Same == /\ mem'.spk = mem.spk /\ mem'.opk = mem.opk
                     /\ server'.opk = server.opk /\ wire' = wire
  <2>1. CASE generateKeysAndJoin
    BY <2>1, <1>a, <1>f, <1>13, InitEngine DEF generateKeysAndJoin
  <2>2. ASSUME NEW c \in Starts, start(c) \/ StartEngine(c) \/ Started(c) PROVE Same
    BY <2>2, <1>a, InitEngine DEF start, StartEngine, Started
  <2>3. CASE Login
    <3>1. Same
      BY <2>3, <1>a DEF Login, Types, Keys
    <3> QED BY <1>f, <1>13, <3>1
  <2>4. ASSUME NEW j \in Jobs, handleAuthOk(j) PROVE Same
    BY <2>4 DEF handleAuthOk
  <2>5. CASE SetRegistered \/ Persist \/ UNCHANGED vars
    <3>1. Same
      BY <2>5 DEF SetRegistered, Persist, vars
    <3> QED BY <1>f, <1>13, <3>1
  <2>6. CASE Crash
    <3>1. /\ UNCHANGED <<server, wire>> /\ mem' = disk
          /\ lost' = (lost \/ mem # disk)
          /\ \A j \in AllJobs : job'[j] = Idle
      BY <2>6 DEF Crash
    <3>2. mem' = mem
      BY <3>1, Zenon
    <3> QED BY <1>f, <1>13, <3>1, <3>2
  <2>7. ASSUME Same PROVE Goal
    BY <1>f, <1>13, <2>7
  <2> HIDE DEF Goal, Same
  <2> QED BY <1>13, <2>1, <2>2, <2>3, <2>4, <2>5, <2>6, <2>7 DEF Next
<1> QED BY <1>5, <1>6, <1>7, <1>8, <1>9, <1>11, <1>12, <1>13 DEF Step
-----------------------------------------------------------------------------
LEMMA Safe == Spec => []IInv
<1>1. IInv /\ [Next]_vars => IInv'
  BY NextTypes, NextIdentities, NextScreen, NextApart, NextAhead, NextMade, NextOwnKeys,
     NextNothingSaved, NextHeld DEF IInv
<1> QED BY InitIInv, <1>1, PTL DEF Spec

\* As long as no kill undid a save, the store has the identity that the server
\* knows, and an engine has it too (loadOrGenerateIdentity).
THEOREM IdentityStays == Spec => []SignsAsRegistered
<1>1. IInv => SignsAsRegistered
  BY DEF IInv, Identities, SignsAsRegistered
<1> QED BY Safe, <1>1, PTL

\* The one-time keys that are published with the signed key in the store are in
\* the store (prepareKeyUpload).
THEOREM KeysAreHeld == Spec => []PublishedIsHeld
<1>1. IInv => PublishedIsHeld
  BY DEF IInv, Held, PublishedIsHeld
<1> QED BY Safe, <1>1, PTL
-----------------------------------------------------------------------------
(* The ids: an engine counts on from those its process has given away.      *)

\* The preparations of handleAuthOk that took their ids, and the ids they have room in.
Took == {j \in Jobs : job[j].pc \in {"save", "done"}}
Given == Opks * Cardinality(Took)

\* The preparations run in a process that has its engine, which counts from where
\* they have got to. That of the first screen has an engine of its own.
Counted ==
  /\ \A j \in Jobs : job[j].pc # "idle" => online
  /\ online => started
  /\ \A j \in Jobs : job[j].ids \subseteq 1 .. Given
  /\ started \/ (\E c \in Starts : starter[c] = "set") => engine.next \in 1 .. Given + 1
  /\ job[Setup].pc \in {"make", "spk", "opks"} => engine.next = 1
  /\ job[Setup].ids \subseteq 1 .. Opks

TypeInv == IInv /\ Counted /\ TypeOK

\* There is room for each of them.
LEMMA Room ==
  /\ IsFiniteSet(Took) /\ Cardinality(Took) \in Nat /\ Given \in Nat
  /\ 1 .. Given \subseteq Ids /\ 1 .. Opks \subseteq Ids
<1>1. Opks \in Nat \ {0} /\ IsFiniteSet(Jobs) /\ Jobs # {} /\ Took \subseteq Jobs
  BY KeyAssumption DEF Took
<1>2. /\ IsFiniteSet(Took) /\ Cardinality(Took) \in Nat /\ Cardinality(Jobs) \in Nat
      /\ Cardinality(Took) <= Cardinality(Jobs)
  BY <1>1, FS_Subset, FS_CardinalityType
<1>3. Cardinality(Jobs) >= 1
  BY <1>1, <1>2, FS_EmptySet
<1>4. ASSUME NEW o \in Nat, NEW m \in Nat, NEW n \in Nat, m <= n
      PROVE  o * m \in Nat /\ o * n \in Nat /\ o * m <= o * n
  BY <1>4, SMT
<1>5. /\ Given \in Nat /\ Opks * Cardinality(Jobs) \in Nat
      /\ Given <= Opks * Cardinality(Jobs)
  BY <1>1, <1>2, <1>4 DEF Given
<1>6. Opks <= Opks * Cardinality(Jobs)
  BY <1>1, <1>2, <1>3, <1>4
<1> QED BY <1>1, <1>2, <1>5, <1>6 DEF Ids

LEMMA GivenInside == 1 .. Given \subseteq Ids
BY Room

\* Who takes his ids makes room for as many.
LEMMA OneMore ==
  ASSUME NEW j \in Jobs, j \notin Took, Took' = Took \cup {j}
  PROVE  Given' = Given + Opks
<1>1. Cardinality(Took') = Cardinality(Took) + 1 /\ Cardinality(Took) \in Nat
  BY FS_AddElement, Room
<1>2. \A o, n \in Nat : o * (n + 1) = o * n + o
  BY SMT
<1> QED BY <1>1, <1>2, KeyAssumption DEF Given

LEMMA NextCounted == IInv /\ Counted /\ [Next]_vars => Counted'
<1> SUFFICES ASSUME IInv, Counted, [Next]_vars PROVE Counted'
  OBVIOUS
<1> USE DEF Counted
<1>a. /\ Setup \in AllJobs /\ Jobs \subseteq AllJobs /\ Setup \notin Jobs /\ Opks \in Nat \ {0}
      /\ Types /\ FirstScreen /\ Given \in Nat
  BY KeyAssumption, Room DEF AllJobs, IInv
<1>b. /\ Idle.pc = "idle" /\ Idle.ids = {} /\ [Idle EXCEPT !.pc = "make"].pc = "make"
      /\ [Idle EXCEPT !.pc = "make"].ids = {}
  BY DEF Idle
<1>c. ASSUME \A j \in Jobs : job'[j].pc \in {"save", "done"} <=> job[j].pc \in {"save", "done"}
      PROVE  Took' = Took /\ Given' = Given
  <2>1. Took' = Took
    BY <1>c DEF Took
  <2> QED BY <2>1 DEF Given
<1>d. nativeInit => engine'.next = 1
  BY DEF nativeInit, NoEngine
<1>1. CASE generateKeysAndJoin
  <2>1. /\ engine'.next = 1 /\ UNCHANGED <<online, started, starter>>
        /\ job'[Setup].pc = "make" /\ job'[Setup].ids = {}
        /\ \A j \in Jobs : job'[j] = job[j]
    BY <1>1, <1>a, <1>b, <1>d DEF generateKeysAndJoin, Begin, Types
  <2> QED BY <1>a, <1>c, <2>1
<1>2. ASSUME NEW c \in Starts, start(c) PROVE Counted'
  <2>1. /\ UNCHANGED <<online, started, engine, job>>
        /\ \A d \in Starts : starter'[d] = "set" => starter[d] = "set"
    BY <1>2, <1>a DEF start, Types
  <2> QED BY <1>c, <2>1
<1>3. ASSUME NEW c \in Starts, StartEngine(c) PROVE Counted'
  <2>1. /\ UNCHANGED <<online, started, job>> /\ engine'.next = 1
    BY <1>3, <1>d DEF StartEngine
  <2> QED BY <1>a, <1>c, <2>1
<1>4. ASSUME NEW c \in Starts, Started(c) PROVE Counted'
  <2>1. UNCHANGED <<online, engine, job>> /\ starter[c] = "set" /\ started'
    BY <1>4 DEF Started
  <2> QED BY <1>a, <1>c, <2>1
<1>5. CASE Login
  <2>1. UNCHANGED <<started, starter, engine, job>> /\ started /\ online'
    BY <1>5 DEF Login
  <2> QED BY <1>c, <2>1
<1>6. ASSUME NEW j \in Jobs, handleAuthOk(j) PROVE Counted'
  <2>1. /\ UNCHANGED <<online, started, starter, engine>> /\ online
        /\ job[j].pc = "idle" /\ job'[j].pc = "make" /\ job'[j].ids = {}
        /\ \A k \in AllJobs : k # j => job'[k] = job[k]
    BY <1>6, <1>a, <1>b DEF handleAuthOk, Begin, Types
  <2> QED BY <1>a, <1>c, <2>1
<1>7. ASSUME NEW j \in AllJobs, MakeSpk(j) \/ SaveSpk(j) PROVE Counted'
  <2>1. MakeSpk(j) => /\ UNCHANGED <<online, started, starter>> /\ engine'.next = engine.next
                      /\ job[j].pc = "make" /\ job'[j].pc = "spk" /\ job'[j].ids = job[j].ids
                      /\ \A k \in AllJobs : k # j => job'[k] = job[k]
    BY <1>a DEF MakeSpk, Work, At, Types, JobSet
  <2>2. SaveSpk(j) => /\ UNCHANGED <<online, started, starter, engine>>
                      /\ job[j].pc = "spk" /\ job'[j].pc = "opks" /\ job'[j].ids = job[j].ids
                      /\ \A k \in AllJobs : k # j => job'[k] = job[k]
    BY <1>a DEF SaveSpk, Work, At, Types, JobSet
  <2> QED BY <1>7, <1>a, <1>c, <2>1, <2>2
<1>8. ASSUME NEW j \in AllJobs, MakeOpks(j) PROVE Counted'
  <2>1. /\ UNCHANGED <<online, started, starter, engine>>
        /\ job[j].pc = "opks" /\ job'[j].pc = "save"
        /\ job'[j].ids = engine.next .. engine.next + Opks - 1
        /\ \A k \in AllJobs : k # j => job'[k] = job[k]
    BY <1>8, <1>a DEF MakeOpks, Work, At, Types, JobSet
  <2>2. CASE j = Setup
    <3>1. engine.next = 1 /\ job'[Setup].ids = 1 .. Opks
      BY <1>a, <2>1, <2>2
    <3> QED BY <1>a, <1>c, <2>1, <2>2, <3>1
  <2>3. CASE j \in Jobs
    <3>1. j \notin Took /\ Took' = Took \cup {j}
      BY <1>a, <2>1, <2>3 DEF Took
    <3>2. Given' = Given + Opks
      BY <2>3, <3>1, OneMore
    <3>3. engine.next \in 1 .. Given + 1 /\ job'[j].ids \subseteq 1 .. Given'
      BY <1>a, <2>1, <2>3, <3>2
    <3>4. 1 .. Given \subseteq 1 .. Given' /\ engine.next \in 1 .. Given' + 1
      BY <1>a, <3>2, <3>3
    <3>5. \A k \in Jobs : job'[k].ids \subseteq 1 .. Given'
      BY <1>a, <2>1, <3>3, <3>4
    <3> QED BY <1>a, <2>1, <2>3, <3>4, <3>5
  <2> QED BY <2>2, <2>3 DEF AllJobs
<1>9. ASSUME NEW j \in AllJobs, NEW i \in Ids, SaveOpk(j, i) PROVE Counted'
  <2>1. /\ UNCHANGED <<online, started, starter>> /\ engine'.next = i + 1 /\ i \in job[j].ids
        /\ job[j].pc = "save" /\ job'[j].pc = "save" /\ job'[j].ids = job[j].ids
        /\ \A k \in AllJobs : k # j => job'[k] = job[k]
    BY <1>9, <1>a DEF SaveOpk, NextId, Work, At, Types, JobSet
  <2>2. Given' = Given /\ \A k \in AllJobs : job'[k].ids = job[k].ids /\ job'[k].pc = job[k].pc
    BY <1>a, <1>c, <2>1
  <2>3. CASE j = Setup
    <3>1. ~registered
      BY <1>a, <2>1, <2>3 DEF FirstScreen, Running
    <3>2. ~started /\ \A c \in Starts : starter[c] = "idle"
      BY <1>a, <3>1 DEF FirstScreen
    <3> QED BY <1>a, <2>1, <2>2, <2>3, <3>2
  <2>4. CASE j \in Jobs
    <3>1. engine'.next \in 1 .. Given + 1
      BY <1>a, <2>1, <2>4
    <3>2. job[Setup].pc \notin {"make", "spk", "opks"}
      <4>1. registered
        BY <1>a, <2>1, <2>4 DEF FirstScreen
      <4> QED BY <1>a, <4>1 DEF FirstScreen, Running
    <3> QED BY <1>a, <2>1, <2>2, <2>4, <3>1, <3>2
  <2> QED BY <2>3, <2>4 DEF AllJobs
<1>10. ASSUME NEW j \in Jobs, SendUpload(j) PROVE Counted'
  <2>1. /\ UNCHANGED <<online, started, starter, engine>>
        /\ job[j].pc = "save" /\ job'[j].pc = "done" /\ job'[j].ids = job[j].ids
        /\ \A k \in AllJobs : k # j => job'[k] = job[k]
    BY <1>10, <1>a DEF SendUpload, Finish, Ready, At, Types, JobSet
  <2> QED BY <1>a, <1>c, <2>1
<1>11. CASE SetRegistered
  <2>1. /\ UNCHANGED <<online, started, starter, engine>>
        /\ job'[Setup].pc = "done" /\ job'[Setup].ids = job[Setup].ids
        /\ \A k \in AllJobs : k # Setup => job'[k] = job[k]
    BY <1>11, <1>a DEF SetRegistered, Finish, Types, JobSet
  <2> QED BY <1>a, <1>c, <2>1
<1>12. CASE ServerTakes \/ LinkDown \/ Persist \/ UNCHANGED vars
  <2>1. UNCHANGED <<online, started, starter, engine, job>>
    BY <1>12 DEF ServerTakes, LinkDown, Persist, vars
  <2> QED BY <1>c, <2>1
<1>13. CASE Crash
  <2>1. /\ \A j \in AllJobs : job'[j].pc = "idle" /\ job'[j].ids = {}
        /\ ~online' /\ ~started' /\ \A c \in Starts : starter'[c] = "idle"
    BY <1>13, <1>b DEF Crash
  <2> QED BY <1>a, <2>1
<1> QED BY <1>1, <1>2, <1>3, <1>4, <1>5, <1>6, <1>7, <1>8, <1>9, <1>10, <1>11, <1>12, <1>13
        DEF Next, Step

\* So the ids that are taken are among those the types allow.
LEMMA NextTypeOK == TypeInv /\ IInv' /\ Counted' /\ [Next]_vars => TypeOK'
<1> SUFFICES ASSUME TypeInv, IInv', Counted', [Next]_vars PROVE TypeOK'
  OBVIOUS
<1> DEFINE Frames == [spk : Nat, key : Nat, ids : SUBSET Ids]
           Prep == [pc : States, key : Nat, ids : SUBSET Ids, saved : SUBSET Ids]
<1>a. /\ Types /\ Types' /\ Counted /\ Setup \in AllJobs /\ Jobs \subseteq AllJobs
      /\ job \in [AllJobs -> Prep] /\ wire \in Seq(Frames)
      /\ {registered, started, online, lost, crossed} \subseteq BOOLEAN
  BY DEF AllJobs, TypeInv, IInv, TypeOK, States
<1>1. \A j \in AllJobs : job'[j].ids \subseteq Ids
  <2>1. (1 .. Given \subseteq Ids)'
    BY GivenInside, PTL
  <2>2. 1 .. Opks \subseteq Ids' /\ Ids' = Ids
    BY Room DEF Ids
  <2> QED BY <2>1, <2>2 DEF Counted, AllJobs
<1>2. \A j \in AllJobs : job'[j].saved \subseteq Ids
  <2>1. Idle.saved = {} /\ [Idle EXCEPT !.pc = "make"].saved = {}
    BY DEF Idle
  <2> DEFINE Inside == \A j \in AllJobs : job[j].saved \subseteq Ids
  <2>a. Inside
    BY <1>a
  <2>2. ASSUME NEW j \in AllJobs, Begin(j) PROVE Inside'
    BY <1>a, <2>1, <2>2, <2>a DEF Begin, Types
  <2>3. ASSUME NEW j \in AllJobs, Finish(j) PROVE Inside'
    <3>1. \A k \in AllJobs : job'[k].saved = job[k].saved
      BY <1>a, <2>3 DEF Finish, Types, JobSet
    <3> QED BY <2>a, <3>1
  <2>4. ASSUME NEW j \in AllJobs, Step(j) PROVE Inside'
    <3>1. MakeSpk(j) => \A k \in AllJobs : job'[k].saved = job[k].saved
      BY <1>a DEF MakeSpk, Work, Types, JobSet
    <3>2. SaveSpk(j) => \A k \in AllJobs : job'[k].saved = job[k].saved
      BY <1>a DEF SaveSpk, Work, Types, JobSet
    <3>3. MakeOpks(j) => \A k \in AllJobs : job'[k].saved = job[k].saved
      BY <1>a DEF MakeOpks, Work, Types, JobSet
    <3>4. ASSUME NEW i \in Ids, SaveOpk(j, i)
          PROVE  \A k \in AllJobs : job'[k].saved \subseteq job[k].saved \cup {i}
      BY <1>a, <3>4 DEF SaveOpk, Work, Types, JobSet
    <3> QED BY <2>4, <2>a, <3>1, <3>2, <3>3, <3>4 DEF Step
  <2>5. ASSUME NEW c \in Starts, start(c) \/ StartEngine(c) \/ Started(c) PROVE Inside'
    BY <2>5, <2>a DEF start, StartEngine, Started
  <2>6. CASE Login \/ ServerTakes \/ LinkDown \/ Persist \/ UNCHANGED vars
    BY <2>6, <2>a DEF Login, ServerTakes, LinkDown, Persist, vars
  <2>7. CASE Crash
    BY <2>1, <2>7 DEF Crash
  <2>8. CASE generateKeysAndJoin \/ SetRegistered
    BY <1>a, <2>2, <2>3, <2>8 DEF generateKeysAndJoin, SetRegistered
  <2>9. ASSUME NEW j \in Jobs, handleAuthOk(j) \/ SendUpload(j) PROVE Inside'
    BY <1>a, <2>2, <2>3, <2>9 DEF handleAuthOk, SendUpload
  <2> QED BY <2>4, <2>5, <2>6, <2>7, <2>8, <2>9 DEF Next
<1>3. job' \in [AllJobs -> Prep]
  BY <1>a, <1>1, <1>2 DEF Types, JobSet
<1>4. wire' \in Seq(Frames)
  <2>1. ASSUME NEW j \in Jobs, SendUpload(j) PROVE wire' \in Seq(Frames)
    <3>1. Upload(j) \in Frames
      BY <1>a DEF Upload, Types
    <3> QED BY <1>a, <2>1, <3>1, AppendProperties DEF SendUpload
  <2>2. CASE ServerTakes
    BY <1>a, <2>2, HeadTailProperties DEF ServerTakes
  <2>3. CASE LinkDown
    BY <2>3, EmptySeq DEF LinkDown
  <2>4. ASSUME wire' = wire PROVE wire' \in Seq(Frames)
    BY <1>a, <2>4
  <2> HIDE DEF Frames
  <2>5. ASSUME NEW j \in AllJobs, Step(j) PROVE wire' \in Seq(Frames)
    BY <1>a, <2>4, <2>5, StepsOn
  <2>6. ASSUME NEW c \in Starts, start(c) \/ StartEngine(c) \/ Started(c)
        PROVE  wire' \in Seq(Frames)
    BY <2>4, <2>6 DEF start, StartEngine, Started
  <2>7. ASSUME NEW j \in Jobs, handleAuthOk(j) PROVE wire' \in Seq(Frames)
    BY <2>4, <2>7 DEF handleAuthOk
  <2>8. CASE generateKeysAndJoin \/ Login \/ SetRegistered
    BY <2>4, <2>8 DEF generateKeysAndJoin, Login, SetRegistered
  <2>9. CASE Persist \/ Crash \/ UNCHANGED vars
    BY <2>4, <2>9 DEF Persist, Crash, vars
  <2> QED BY <2>1, <2>2, <2>3, <2>5, <2>6, <2>7, <2>8, <2>9 DEF Next
<1>5. {registered, started, online, lost, crossed}' \subseteq BOOLEAN
  <2>1. ASSUME NEW j \in AllJobs, Step(j)
        PROVE  crossed' \in BOOLEAN /\ UNCHANGED <<registered, started, online, lost>>
    <3>1. UNCHANGED <<registered, started, online, lost>>
      BY <1>a, <2>1, StepsOn
    <3>2. MakeOpks(j) => crossed' \in BOOLEAN
      BY Zenon DEF MakeOpks
    <3>3. ASSUME MakeSpk(j) \/ SaveSpk(j) \/ \E i \in Ids : SaveOpk(j, i) PROVE crossed' = crossed
      BY <3>3 DEF MakeSpk, SaveSpk, SaveOpk
    <3> QED BY <1>a, <2>1, <3>1, <3>2, <3>3 DEF Step
  <2>2. ASSUME NEW c \in Starts, start(c) \/ StartEngine(c) \/ Started(c)
        PROVE  started' \in {started, TRUE} /\ UNCHANGED <<registered, online, lost, crossed>>
    BY <2>2 DEF start, StartEngine, Started
  <2>3. ASSUME NEW j \in Jobs, handleAuthOk(j)
        PROVE  UNCHANGED <<registered, started, online, lost, crossed>>
    BY <2>3 DEF handleAuthOk
  <2>4. ASSUME NEW j \in Jobs, SendUpload(j)
        PROVE  UNCHANGED <<registered, started, online, lost, crossed>>
    BY <2>4 DEF SendUpload
  <2>5. CASE Login \/ SetRegistered
    BY <1>a, <2>5 DEF Login, SetRegistered
  <2>6. CASE Crash
    <3>1. lost' \in BOOLEAN /\ started' = FALSE /\ online' = FALSE /\ UNCHANGED <<registered, crossed>>
      BY <2>6 DEF Crash
    <3> QED BY <1>a, <3>1
  <2>7. CASE generateKeysAndJoin \/ ServerTakes \/ LinkDown \/ Persist \/ UNCHANGED vars
    <3>1. UNCHANGED <<registered, started, online, lost, crossed>>
      BY <2>7 DEF generateKeysAndJoin, ServerTakes, LinkDown, Persist, vars
    <3> QED BY <1>a, <3>1
  <2> QED BY <1>a, <2>1, <2>2, <2>3, <2>4, <2>5, <2>6, <2>7 DEF Next
<1>6. crashes' \in 0 .. MaxCrashes /\ drops' \in 0 .. MaxDrops
  <2>1. crashes \in 0 .. MaxCrashes /\ drops \in 0 .. MaxDrops /\ MaxCrashes \in Nat /\ MaxDrops \in Nat
    BY KeyAssumption DEF TypeInv, TypeOK
  <2>2. CASE LinkDown
    BY <2>1, <2>2 DEF LinkDown
  <2>3. CASE Crash
    <3>1. crashes < MaxCrashes /\ crashes' = crashes + 1 /\ drops' = drops
      BY <2>3 DEF Crash
    <3> QED BY <2>1, <3>1
  <2>4. ASSUME NEW j \in AllJobs, Step(j) PROVE UNCHANGED <<crashes, drops>>
    BY <2>4 DEF Step, MakeSpk, SaveSpk, MakeOpks, SaveOpk, Work
  <2>5. ASSUME NEW c \in Starts, start(c) \/ StartEngine(c) \/ Started(c)
        PROVE  UNCHANGED <<crashes, drops>>
    BY <2>5 DEF start, StartEngine, Started
  <2>6. ASSUME NEW j \in Jobs, handleAuthOk(j) \/ SendUpload(j) PROVE UNCHANGED <<crashes, drops>>
    <3>1. handleAuthOk(j) => crashes' = crashes /\ drops' = drops
      BY Zenon DEF handleAuthOk
    <3>2. SendUpload(j) => crashes' = crashes /\ drops' = drops
      BY DEF SendUpload
    <3> QED BY <2>6, <3>1, <3>2
  <2>7. CASE generateKeysAndJoin
    BY <2>1, <2>7 DEF generateKeysAndJoin
  <2>8. CASE Login \/ SetRegistered \/ ServerTakes \/ Persist \/ UNCHANGED vars
    BY <2>1, <2>8 DEF Login, SetRegistered, ServerTakes, Persist, vars
  <2> QED BY <2>1, <2>2, <2>3, <2>4, <2>5, <2>6, <2>7, <2>8 DEF Next
<1> QED BY <1>a, <1>3, <1>4, <1>5, <1>6 DEF TypeOK, Types, States

\* The variables keep their types, and no preparation leaves the ids that are its
\* process's to give (KeyManager's counter of the one-time keys).
THEOREM TypeCorrect == Spec => []TypeOK
<1>1. Init => Counted /\ TypeOK
  <2> SUFFICES ASSUME Init PROVE Counted /\ TypeOK
    OBVIOUS
  <2>1. /\ \A j \in AllJobs : job[j] = Idle
        /\ Idle.pc = "idle" /\ Idle.ids = {} /\ Idle.saved = {} /\ Idle.key = 0
        /\ Setup \in AllJobs /\ Jobs \subseteq AllJobs
    BY DEF Init, Idle, AllJobs
  <2>2. Counted
    BY <2>1 DEF Init, Counted
  <2>3. NoKeys \in Keys /\ NoEngine \in [identity : Nat, spk : Nat, next : Nat]
        /\ Idle \in [pc : {"idle", "make", "spk", "opks", "save", "done"}, key : Nat,
                     ids : SUBSET Ids, saved : SUBSET Ids]
    BY DEF NoKeys, Keys, NoEngine, Idle
  <2>4. /\ mem \in Keys /\ disk \in Keys /\ server \in Keys
        /\ engine \in [identity : Nat, spk : Nat, next : Nat]
        /\ job \in [AllJobs -> [pc : {"idle", "make", "spk", "opks", "save", "done"}, key : Nat,
                                ids : SUBSET Ids, saved : SUBSET Ids]]
        /\ starter \in [Starts -> {"idle", "init", "set"}]
    BY <2>3 DEF Init
  <2>5. wire \in Seq([spk : Nat, key : Nat, ids : SUBSET Ids])
    BY EmptySeq DEF Init
  <2>6. /\ {registered, started, online, lost, crossed} \subseteq BOOLEAN
        /\ made \in Nat /\ crashes \in 0 .. MaxCrashes /\ drops \in 0 .. MaxDrops
    <3>1. /\ registered = FALSE /\ started = FALSE /\ online = FALSE /\ lost = FALSE
          /\ crossed = FALSE /\ made = 0 /\ crashes = 0 /\ drops = 0
      BY DEF Init
    <3>2. MaxCrashes \in Nat /\ MaxDrops \in Nat
      BY KeyAssumption
    <3>3. {registered, started, online, lost, crossed} \subseteq {FALSE}
      BY <3>1, Zenon
    <3>4. {registered, started, online, lost, crossed} \subseteq BOOLEAN
      BY <3>3, Zenon
    <3> QED BY <3>1, <3>2, <3>4
  <2>7. TypeOK
    BY <2>4, <2>5, <2>6 DEF TypeOK
  <2> QED BY <2>2, <2>7
<1>2. TypeInv /\ [Next]_vars => TypeInv'
  <2>1. IInv /\ [Next]_vars => IInv'
    BY NextTypes, NextIdentities, NextScreen, NextApart, NextAhead, NextMade, NextOwnKeys,
     NextNothingSaved, NextHeld DEF IInv
  <2> QED BY <2>1, NextCounted, NextTypeOK DEF TypeInv
<1>3. Init => TypeInv
  BY <1>1, InitIInv DEF TypeInv
<1>4. TypeInv => TypeOK
  BY DEF TypeInv
<1> QED BY <1>2, <1>3, <1>4, PTL DEF Spec
=============================================================================
