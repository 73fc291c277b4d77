------------------------------- MODULE KeyStore -------------------------------
(***************************************************************************)
(* The keys of this device: the identity and the pre-keys that             *)
(* CryptoEngine makes, the preferences NativeStore.kt keeps them in, and   *)
(* what the server publishes of them. SharedPreferences.apply() changes    *)
(* memory at once and the disk later, so a process that is killed may wake *)
(* with an earlier state. prepareKeyUpload() runs without a lock in a      *)
(* coroutine per AUTH_OK seen, that is per collector of the session. Calls *)
(* of start() may find that there is no engine yet, make one each, and so  *)
(* replace each other's. To replace an engine that is in a call, or to be  *)
(* in its making, is undefined and not modelled.                           *)
(*                                                                         *)
(* A key is the number of the preparation that made it, 0 for none; its    *)
(* encoding is left out. One login succeeds per process: the session asks  *)
(* for no second one. Passphrases are "" in all calls that a screen makes. *)
(***************************************************************************)
EXTENDS Integers, Sequences, FiniteSets

CONSTANTS Setup,      \* the preparation of SetupViewModel
          Jobs,       \* the preparations of handleAuthOk
          Starts,     \* calls of start() in a process
          Opks,       \* one-time pre-keys in a preparation
          MaxCrashes, \* bound: how often the process is killed
          MaxDrops    \* bound: how often a connection is lost

ASSUME KeyAssumption == /\ Setup \notin Jobs
                        /\ Jobs # {} /\ IsFiniteSet(Jobs)
                        /\ Opks \in Nat \ {0}
                        /\ MaxCrashes \in Nat
                        /\ MaxDrops \in Nat

VARIABLES mem,        \* the preferences in memory
          disk,       \* and on the disk
          engine,     \* g_engine; identity 0 when there is none
          job,        \* the preparations under way and done
          registered, \* "is registered" of the user preferences
          started,    \* cryptoInitialized of the connection manager
          starter,    \* the calls of start()
          online,     \* AUTH_OK came in this process
          wire,       \* KEY_UPLOADs on their way
          server,     \* what the server knows
          made,       \* how many keys were made
          crashes, drops,
          lost,       \* history: a crash undid saves
          crossed     \* history: two preparations took the same ids at once

vars == <<mem, disk, engine, job, registered, started, starter, online, wire, server, made,
          crashes, drops, lost, crossed>>

\* Each job of a process takes its own ids, unless two take the same.
Ids == 1 .. Opks * Cardinality(Jobs)
NoKeys == [identity |-> 0, spk |-> 0, opk |-> [i \in Ids |-> 0]]
NoEngine == [identity |-> 0, spk |-> 0, next |-> 1]
Idle == [pc |-> "idle", key |-> 0, ids |-> {}, saved |-> {}]
AllJobs == Jobs \cup {Setup}

Init ==
  /\ mem = NoKeys /\ disk = NoKeys /\ server = NoKeys
  /\ engine = NoEngine
  /\ job = [j \in AllJobs |-> Idle]
  /\ registered = FALSE /\ started = FALSE /\ online = FALSE
  /\ starter = [c \in Starts |-> "idle"]
  /\ wire = <<>>
  /\ made = 0 /\ crashes = 0 /\ drops = 0
  /\ lost = FALSE /\ crossed = FALSE

Running(j) == job[j].pc \notin {"idle", "done"}
-----------------------------------------------------------------------------
\* Mutant of nativeInit: it does not look for the identity that was saved.
nativeInitAnew ==
  /\ made' = made + 1
  /\ mem' = [mem EXCEPT !.identity = made + 1]
  /\ engine' = [NoEngine EXCEPT !.identity = made + 1]

\* A new engine, with the saved identity or a new one.
nativeInit ==
  IF mem.identity # 0
  THEN engine' = [NoEngine EXCEPT !.identity = mem.identity] /\ UNCHANGED <<mem, made>>
  ELSE /\ made' = made + 1
       /\ mem' = [mem EXCEPT !.identity = made + 1]
       /\ engine' = [NoEngine EXCEPT !.identity = made + 1]

Begin(j) == job' = [job EXCEPT ![j] = [Idle EXCEPT !.pc = "make"]]

\* The first screen, after the engine: it keeps what it prepares to itself.
generateKeysAndJoin ==
  /\ ~registered /\ ~Running(Setup)
  /\ nativeInit
  /\ Begin(Setup)
  /\ UNCHANGED <<disk, registered, started, starter, online, wire, server, crashes, drops, lost, crossed>>

\* start() tests whether there is an engine (once there is, a call has no more to do here) ...
start(c) ==
  /\ registered /\ ~started /\ starter[c] = "idle"
  /\ starter' = [starter EXCEPT ![c] = "init"]
  /\ UNCHANGED <<mem, disk, engine, job, registered, started, online, wire, server, made,
                 crashes, drops, lost, crossed>>

\* ... makes one, in place of that of the first screen or of another call ...
StartEngine(c) ==
  /\ starter[c] = "init" /\ \A j \in AllJobs : ~Running(j)
  /\ starter' = [starter EXCEPT ![c] = "set"]
  /\ nativeInit
  /\ UNCHANGED <<disk, job, registered, started, online, wire, server, crashes, drops, lost, crossed>>

\* ... notes that, and connects.
Started(c) ==
  /\ starter[c] = "set"
  /\ starter' = [starter EXCEPT ![c] = "idle"]
  /\ started' = TRUE
  /\ UNCHANGED <<mem, disk, engine, job, registered, online, wire, server, made,
                 crashes, drops, lost, crossed>>

\* The server keeps the identity it sees first, and refuses another.
Login ==
  /\ ~online /\ started
  /\ server.identity \in {0, engine.identity}
  /\ server' = [server EXCEPT !.identity = engine.identity]
  /\ online' = TRUE
  /\ UNCHANGED <<mem, disk, engine, job, registered, started, starter, wire, made,
                 crashes, drops, lost, crossed>>

handleAuthOk(j) ==
  /\ online /\ job[j].pc = "idle"
  /\ Begin(j)
  /\ UNCHANGED <<mem, disk, engine, registered, started, starter, online, wire, server, made, crashes, drops, lost, crossed>>
-----------------------------------------------------------------------------
(* prepareKeyUpload()                                                       *)

At(j, pc) == job[j].pc = pc
Work(j, r) == /\ job' = [job EXCEPT ![j] = r]
              /\ UNCHANGED <<disk, registered, started, starter, online, wire, server, crashes, drops, lost>>

MakeSpk(j) ==
  /\ At(j, "make")
  /\ made' = made + 1
  /\ engine' = [engine EXCEPT !.spk = made + 1]
  /\ Work(j, [job[j] EXCEPT !.pc = "spk", !.key = made + 1])
  /\ UNCHANGED <<mem, crossed>>

SaveSpk(j) ==
  /\ At(j, "spk")
  /\ mem' = [mem EXCEPT !.spk = job[j].key]
  /\ Work(j, [job[j] EXCEPT !.pc = "opks"])
  /\ UNCHANGED <<engine, made, crossed>>

\* The ids another preparation has not done with: the counter moves with each save.
Shares(j, ids) == \E k \in AllJobs \ {j} : At(k, "save") /\ ids \cap job[k].ids # {}

\* Mutant of MakeOpks: one key too many.
MakeOpksOneMore(j) ==
  /\ At(j, "opks")
  /\ LET ids == engine.next .. engine.next + Opks
     IN  /\ Work(j, [job[j] EXCEPT !.pc = "save", !.ids = ids])
         /\ crossed' = (crossed \/ Shares(j, ids))
  /\ UNCHANGED <<mem, engine, made>>

MakeOpks(j) ==
  /\ At(j, "opks")
  /\ LET ids == engine.next .. engine.next + Opks - 1
     IN  /\ Work(j, [job[j] EXCEPT !.pc = "save", !.ids = ids])
         /\ crossed' = (crossed \/ Shares(j, ids))
  /\ UNCHANGED <<mem, engine, made>>

NextId(j, i) == /\ At(j, "save")
                /\ i \in job[j].ids \ job[j].saved
                /\ \A k \in job[j].ids \ job[j].saved : i <= k

SaveOpk(j, i) ==
  /\ NextId(j, i)
  /\ mem' = [mem EXCEPT !.opk[i] = job[j].key]
  /\ engine' = [engine EXCEPT !.next = i + 1]
  /\ Work(j, [job[j] EXCEPT !.saved = @ \cup {i}])
  /\ UNCHANGED <<made, crossed>>

Ready(j) == At(j, "save") /\ job[j].saved = job[j].ids

\* The signed key is that of the engine, whoever made it.
Upload(j) == [spk |-> engine.spk, key |-> job[j].key, ids |-> job[j].ids]
Finish(j) == job' = [job EXCEPT ![j].pc = "done"]

\* Mutant of SendUpload: the upload is sent as soon as the keys are made.
SendUploadEarly(j) ==
  /\ At(j, "save")
  /\ Finish(j)
  /\ wire' = Append(wire, Upload(j))
  /\ UNCHANGED <<mem, disk, engine, registered, started, starter, online, server, made, crashes, drops, lost, crossed>>

SendUpload(j) ==
  /\ Ready(j)
  /\ Finish(j)
  /\ wire' = Append(wire, Upload(j))
  /\ UNCHANGED <<mem, disk, engine, registered, started, starter, online, server, made, crashes, drops, lost, crossed>>

\* The first screen drops what it prepared. DataStore.edit() waits for the disk.
SetRegistered ==
  /\ Ready(Setup)
  /\ Finish(Setup)
  /\ registered' = TRUE
  /\ UNCHANGED <<mem, disk, engine, started, starter, online, wire, server, made, crashes, drops, lost, crossed>>
-----------------------------------------------------------------------------
(* The server, the disk and the process                                     *)

\* One row for the signed key of a user and one for each of the ids.
ServerTakes ==
  /\ wire # <<>>
  /\ server' = [server EXCEPT
       !.spk = Head(wire).spk,
       !.opk = [i \in Ids |-> IF i \in Head(wire).ids THEN Head(wire).key ELSE server.opk[i]]]
  /\ wire' = Tail(wire)
  /\ UNCHANGED <<mem, disk, engine, job, registered, started, starter, online, made, crashes, drops, lost, crossed>>

LinkDown ==
  /\ wire # <<>> /\ drops < MaxDrops
  /\ wire' = <<>>
  /\ drops' = drops + 1
  /\ UNCHANGED <<mem, disk, engine, job, registered, started, starter, online, server, made, crashes, lost, crossed>>

Persist ==
  /\ disk # mem
  /\ disk' = mem
  /\ UNCHANGED <<mem, engine, job, registered, started, starter, online, wire, server, made, crashes, drops, lost, crossed>>

\* What was sent may still arrive.
Crash ==
  /\ crashes < MaxCrashes
  /\ crashes' = crashes + 1
  /\ mem' = disk
  /\ lost' = (lost \/ mem # disk)
  /\ engine' = NoEngine
  /\ job' = [j \in AllJobs |-> Idle]
  /\ started' = FALSE /\ online' = FALSE
  /\ starter' = [c \in Starts |-> "idle"]
  /\ UNCHANGED <<disk, registered, wire, server, made, drops, crossed>>

Step(j) == MakeSpk(j) \/ SaveSpk(j) \/ MakeOpks(j) \/ \E i \in Ids : SaveOpk(j, i)

Next ==
  \/ generateKeysAndJoin \/ Login \/ SetRegistered
  \/ \E c \in Starts : start(c) \/ StartEngine(c) \/ Started(c)
  \/ \E j \in AllJobs : Step(j)
  \/ \E j \in Jobs : handleAuthOk(j) \/ SendUpload(j)
  \/ ServerTakes \/ LinkDown \/ Persist \/ Crash

Spec == Init /\ [][Next]_vars
-----------------------------------------------------------------------------
Keys == [identity : Nat, spk : Nat, opk : [Ids -> Nat]]

\* The types of the variables: no preparation leaves the ids it may use.
TypeOK ==
  /\ mem \in Keys /\ disk \in Keys /\ server \in Keys
  /\ engine \in [identity : Nat, spk : Nat, next : Nat]
  /\ job \in [AllJobs -> [pc : {"idle", "make", "spk", "opks", "save", "done"}, key : Nat,
                          ids : SUBSET Ids, saved : SUBSET Ids]]
  /\ wire \in Seq([spk : Nat, key : Nat, ids : SUBSET Ids])
  /\ starter \in [Starts -> {"idle", "init", "set"}]
  /\ {registered, started, online, lost, crossed} \subseteq BOOLEAN
  /\ made \in Nat /\ crashes \in 0 .. MaxCrashes /\ drops \in 0 .. MaxDrops

\* Whatever starts an engine anew - the first screen, two calls of start() that
\* both find none, a new process - goes on with the identity the server knows,
\* as long as no crash undid its save (loadOrGenerateIdentity).
SignsAsRegistered ==
  ~lost /\ server.identity # 0 => /\ mem.identity = server.identity
                                  /\ engine.identity \in {0, server.identity}

\* While the signed key the server publishes is the one in the store, so are the
\* one-time keys that were uploaded with it: also after uploads that were lost,
\* or cut short by a crash, whatever ids earlier engines and the first screen
\* used, and when preparations overlap, save one over the other's signed key, and
\* upload it (prepareKeyUpload saves all keys before it returns them). Unless two
\* read the counter of the engine so that they have an id in common; nothing
\* keeps them from that, and the keys of one are then saved over the other's.
PublishedIsHeld ==
  ~lost /\ ~crossed /\ server.spk = mem.spk =>
    \A i \in Ids : server.opk[i] = server.spk => mem.opk[i] = server.spk
=============================================================================
