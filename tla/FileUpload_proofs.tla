-------------------------- MODULE FileUpload_proofs --------------------------
(***************************************************************************)
(* The invariants of an upload, and what a completed one may become, for   *)
(* files, chunks, frames and buffers of any size, and any number of        *)
(* collectors, faults and answers.                                         *)
(*                                                                         *)
(* The argument about the numbers of chunks: index counts the attempts to  *)
(* send and pos the bytes, so that both are where the last chunk the       *)
(* server has left them, or both are past it. The arguments about the      *)
(* entry: only a collector of frames writes COMPLETED, and it has no older *)
(* copy in hand then; if another one has, that is what overtaken records.  *)
(***************************************************************************)
EXTENDS FileUpload, SequenceTheorems, TLAPS

Chunk == [index : Nat, size : 1..ChunkSize, last : BOOLEAN, end : 1..FileSize]

\* The bytes of the chunks that were tried.
tried == IF pc \in {"check", "send"} THEN pos - n ELSE pos

\* Every attempt took a byte at least.
Counted ==
  /\ pc \in {"check", "send"} => n \in 1..ChunkSize /\ n <= pos
  /\ index <= tried
  /\ pc \in {"idle", "start", "request"} => pos = 0 /\ index = 0 /\ server = <<>>

\* What the next chunk has if none is lost.
nextIndex == IF server = <<>> THEN 0 ELSE server[Len(server)].index + 1
nextStart == IF server = <<>> THEN 0 ELSE server[Len(server)].end

Numbered ==
  pc \in {"idle", "start", "request", "read", "check", "send", "progress"} =>
    \/ index = nextIndex /\ tried = nextStart
    \/ index > nextIndex /\ tried > nextStart

\* A loop that was refused a chunk ends; without an answer nothing is handled.
Failing ==
  /\ refused => pc \in {"fail", "return", "done"}
  /\ replied = 0 => \A c \in Collectors : replies[c] = <<>> /\ hpc[c] = None

\* A collector that is subscribed holds a copy of an entry, and no unfinished
\* one of a complete entry unless that was overtaken.
Copied ==
  /\ \A c \in Collectors : replies[c] # <<>> \/ hpc[c] # None => c \in readers
  /\ \A c \in Collectors : hpc[c] # None => hcopy[c] # None
  /\ entry = "COMPLETED" /\ ~overtaken => \A c \in Collectors : ~Overtakes(c)

\* One collector does not overtake itself.
ByAnother == overtaken => \E c, d \in readers : c # d

IInv == TypeOK /\ Counted /\ Numbered /\ GapsShow /\ Failing /\ RefusalIsFailure /\ Copied
        /\ ByAnother
-----------------------------------------------------------------------------
\* The steps of the collectors.
Collecting == \E c \in Collectors : Subscribe(c) \/ Handle(c)

LEMMA InitIInv == Init => IInv
<1> SUFFICES ASSUME Init PROVE IInv
  OBVIOUS
<1>1. TypeOK
  <2>1. updates \in Seq(Statuses) /\ Len(updates) <= MaxUpdates
    BY BoundsAssumption, EmptySeq DEF Init
  <2>2. server \in Seq(Chunk) /\ replies \in [Collectors -> Seq(Replies)]
    BY EmptySeq DEF Init
  <2>3. /\ pos \in 0..FileSize /\ n \in 0..ChunkSize /\ index \in 0..FileSize
        /\ replied \in 0..MaxReplies /\ faults \in 0..MaxFaults
    BY SizesAssumption, BoundsAssumption DEF Init
  <2>4. /\ entry \in Statuses \cup {None} /\ listed \in Statuses \cup {None}
        /\ pc = "idle" /\ hpc \in [Collectors -> Replies \cup {None}]
        /\ hcopy \in [Collectors -> Statuses \cup {None}]
        /\ open \in BOOLEAN /\ refused \in BOOLEAN /\ overtaken \in BOOLEAN
        /\ readers \subseteq Collectors
    BY DEF Init
  <2> QED BY <2>1, <2>2, <2>3, <2>4 DEF TypeOK, Chunk
<1>2. Counted /\ Numbered /\ Failing
  BY DEF Init, Counted, Numbered, Failing, tried, nextIndex, nextStart
<1>4. Copied /\ ByAnother
  BY NoneAssumption DEF Init, Copied, ByAnother, Overtakes, Replies, Statuses
<1>3. GapsShow /\ RefusalIsFailure
  BY DEF Init, GapsShow, RefusalIsFailure
<1> QED BY <1>1, <1>2, <1>3, <1>4 DEF IInv

\* The entry and the buffer of updates keep their types.
LEMMA UpdateType ==
  ASSUME TypeOK, NEW s \in Statuses, updateTransfer(s)
  PROVE  entry' = s /\ updates' \in Seq(Statuses) /\ Len(updates') <= MaxUpdates
<1>1. updates \in Seq(Statuses) /\ Len(updates) <= MaxUpdates /\ Len(updates) \in Nat
  BY LenProperties DEF TypeOK
<1>2. CASE open /\ Len(updates) < MaxUpdates
  <2>1. updates' = Append(updates, s)
    BY <1>2 DEF updateTransfer
  <2>2. updates' \in Seq(Statuses) /\ Len(updates') = Len(updates) + 1
    BY <1>1, <2>1, AppendProperties
  <2> QED BY <2>2, <1>1, <1>2, BoundsAssumption DEF updateTransfer
<1>3. CASE ~(open /\ Len(updates) < MaxUpdates)
  BY <1>1, <1>3 DEF updateTransfer
<1> QED BY <1>2, <1>3

\* What a collector writes is a status; it is the one it read, or the last one.
LEMMA AnsweredType ==
  ASSUME TypeOK, Copied, NEW c \in Collectors, hpc[c] # None
  PROVE  /\ Answered(c) \in Statuses
         /\ Answered(c) \in Terminal \/ (hpc[c] = "progress" /\ Answered(c) = hcopy[c])
<1>1. hpc[c] \in Replies /\ hcopy[c] \in Statuses
  BY DEF TypeOK, Copied
<1> QED BY <1>1 DEF Answered, Replies, Statuses, Terminal

\* Every step keeps the types.
LEMMA NextTypeOK == IInv /\ [Next]_vars => TypeOK'
<1> SUFFICES ASSUME TypeOK, Counted, Copied, [Next]_vars PROVE TypeOK'
  BY DEF IInv
<1> USE SizesAssumption, BoundsAssumption
<1> USE DEF loopVars, netVars, handlerVars
<1>a. {"PENDING", "UPLOADING", "FAILED", "CANCELLED"} \subseteq Statuses
  BY DEF Statuses
<1>1. CASE uploadFile
  BY <1>1, <1>a DEF uploadFile, TypeOK
<1>2. CASE Start
  BY <1>2, <1>a, UpdateType DEF Start, TypeOK
<1>3. CASE SendRequest
  BY <1>3 DEF SendRequest, TypeOK
<1>4. CASE Read
  <2>1. CASE Available = 0
    BY <1>4, <2>1 DEF Read, TypeOK
  <2>2. CASE Available # 0
    <3>1. PICK k \in 1..Available : n' = k /\ pos' = pos + k /\ pc' = "check"
      BY <1>4, <2>2 DEF Read
    <3>2. n' \in 0..ChunkSize /\ pos' \in 0..FileSize
      BY <3>1 DEF Available, TypeOK
    <3> QED BY <1>4, <3>1, <3>2 DEF Read, TypeOK
  <2> QED BY <2>1, <2>2
<1>5. CASE ReadFails
  BY <1>5 DEF ReadFails, TypeOK
<1>6. CASE CheckCancelled
  BY <1>6 DEF CheckCancelled, TypeOK
<1>7. CASE SendChunk
  <2>1. index' \in 0..FileSize
    BY <1>7 DEF SendChunk, TypeOK, Counted, tried
  <2>2. chunk \in Chunk
    BY <1>7 DEF SendChunk, TypeOK, Counted, tried, chunk, Chunk
  <2>3. server' = server \/ server' = Append(server, chunk)
    BY <1>7 DEF SendChunk
  <2>4. server \in Seq(Chunk)
    BY DEF TypeOK, Chunk
  <2> HIDE DEF chunk
  <2>5. server' \in Seq(Chunk)
    BY <2>2, <2>3, <2>4, AppendProperties
  <2> QED BY <1>7, <2>1, <2>5 DEF SendChunk, TypeOK, Chunk
<1>8. CASE SendInVain
  <2>1. index' \in 0..FileSize
    BY <1>8 DEF SendInVain, TypeOK, Counted, tried
  <2> QED BY <1>8, <2>1 DEF SendInVain, TypeOK
<1>9. CASE Progress
  BY <1>9, <1>a, UpdateType DEF Progress, TypeOK
<1>10. CASE Fail
  BY <1>10, <1>a, UpdateType DEF Fail, TypeOK
<1>11. CASE Return
  BY <1>11, <1>a DEF Return, TypeOK
<1>12. CASE ServerReplies
  <2>1. PICK r \in Replies :
          replies' = [c \in Collectors |-> IF c \in readers THEN Append(replies[c], r)
                                                             ELSE replies[c]]
    BY <1>12 DEF ServerReplies
  <2>2. \A c \in Collectors : Append(replies[c], r) \in Seq(Replies)
    BY AppendProperties DEF TypeOK
  <2>3. replies' \in [Collectors -> Seq(Replies)]
    BY <2>1, <2>2 DEF TypeOK
  <2> QED BY <1>12, <2>3 DEF ServerReplies, TypeOK
<1>13. ASSUME NEW c \in Collectors, HandleRead(c) PROVE TypeOK'
  <2>1. replies[c] \in Seq(Replies) /\ replies[c] # <<>>
    BY <1>13 DEF HandleRead, TypeOK
  <2>2. Tail(replies[c]) \in Seq(Replies) /\ Head(replies[c]) \in Replies
    BY <2>1, HeadTailProperties
  <2>3. replies' \in [Collectors -> Seq(Replies)]
    BY <1>13, <2>2 DEF HandleRead, TypeOK
  <2>4. /\ hpc' \in [Collectors -> Replies \cup {None}]
        /\ hcopy' \in [Collectors -> Statuses \cup {None}]
    BY <1>13, <2>2 DEF HandleRead, TypeOK
  <2> QED BY <1>13, <2>3, <2>4 DEF HandleRead, TypeOK
<1>14. ASSUME NEW c \in Collectors, HandleWrite(c) PROVE TypeOK'
  <2>1. overtaken' \in BOOLEAN
    BY <1>14, Zenon DEF HandleWrite, TypeOK
  <2>2. Answered(c) \in Statuses /\ updateTransfer(Answered(c))
    BY <1>14, AnsweredType DEF HandleWrite
  <2>3. entry' \in Statuses /\ updates' \in Seq(Statuses) /\ Len(updates') <= MaxUpdates
    BY <2>2, UpdateType
  <2> HIDE DEF Answered
  <2>4. /\ hpc' \in [Collectors -> Replies \cup {None}]
        /\ hcopy' \in [Collectors -> Statuses \cup {None}]
    BY <1>14 DEF HandleWrite, TypeOK
  <2> QED BY <1>14, <2>1, <2>3, <2>4 DEF HandleWrite, TypeOK
<1>15. CASE Collect
  <2>1. /\ updates' \in Seq(Statuses) /\ Len(updates') = Len(updates) - 1
        /\ Head(updates) \in Statuses
    BY <1>15, HeadTailProperties DEF Collect, TypeOK
  <2>2. Len(updates') <= MaxUpdates
    BY <2>1, LenProperties DEF TypeOK
  <2> QED BY <1>15, <2>1, <2>2 DEF Collect, TypeOK
<1>16. CASE CloseScreen
  <2>1. updates' \in Seq(Statuses) /\ Len(updates') <= MaxUpdates
    BY <1>16, EmptySeq DEF CloseScreen
  <2> QED BY <1>16, <2>1 DEF CloseScreen, TypeOK
<1>17. CASE cancelTransfer
  BY <1>17, <1>a, UpdateType DEF cancelTransfer, TypeOK
<1>18. CASE clearCompletedTransfers
  BY <1>18 DEF clearCompletedTransfers, TypeOK
<1>19. CASE UNCHANGED vars
  BY <1>19 DEF vars, TypeOK
<1>20. ASSUME NEW c \in Collectors, Subscribe(c) PROVE TypeOK'
  BY <1>20 DEF Subscribe, TypeOK
<1> QED BY <1>1, <1>2, <1>3, <1>4, <1>5, <1>6, <1>7, <1>8, <1>9, <1>10, <1>11, <1>12,
           <1>13, <1>14, <1>15, <1>16, <1>17, <1>18, <1>19, <1>20 DEF Next, Loop, Handle
-----------------------------------------------------------------------------
\* Every step keeps the count of attempts and bytes.
LEMMA NextCounted == IInv /\ [Next]_vars => Counted'
<1> SUFFICES ASSUME TypeOK, Counted, Failing, [Next]_vars PROVE Counted'
  BY DEF IInv
<1> USE SizesAssumption DEF Counted, tried, TypeOK
<1> USE DEF loopVars, netVars, handlerVars
<1>1. CASE uploadFile
  BY <1>1 DEF uploadFile
<1>2. CASE Start
  BY <1>2 DEF Start
<1>3. CASE SendRequest
  BY <1>3 DEF SendRequest
<1>4. CASE Read
  <2>1. CASE Available = 0
    BY <1>4, <2>1 DEF Read
  <2>2. CASE Available # 0
    <3>1. PICK k \in 1..Available : n' = k /\ pos' = pos + k /\ pc' = "check"
      BY <1>4, <2>2 DEF Read
    <3>2. k \in 1..ChunkSize
      BY <3>1 DEF Available
    <3> QED BY <1>4, <3>1, <3>2 DEF Read
  <2> QED BY <2>1, <2>2
<1>5. CASE ReadFails
  BY <1>5 DEF ReadFails
<1>6. CASE CheckCancelled
  BY <1>6 DEF CheckCancelled
<1>7. CASE SendChunk
  BY <1>7 DEF SendChunk
<1>8. CASE SendInVain
  BY <1>8 DEF SendInVain
<1>9. CASE Progress
  BY <1>9 DEF Progress
<1>10. CASE Fail
  BY <1>10 DEF Fail
<1>11. CASE Return
  BY <1>11 DEF Return
<1>12. CASE UNCHANGED <<loopVars, server>>
  BY <1>12
<1>13. CASE ServerReplies \/ Collecting \/ Collect \/ CloseScreen \/ cancelTransfer
            \/ clearCompletedTransfers \/ UNCHANGED vars
  BY <1>12, <1>13 DEF ServerReplies, Collecting, Subscribe, Handle, HandleRead, HandleWrite,
                      Collect, CloseScreen, cancelTransfer, clearCompletedTransfers, vars
<1> QED BY <1>1, <1>2, <1>3, <1>4, <1>5, <1>6, <1>7, <1>8, <1>9, <1>10, <1>11, <1>13
           DEF Next, Loop, Collecting

\* Every step but a sent chunk leaves the server's chunks as they are, and the
\* attempts and bytes where they are or past it.
LEMMA NextNumbered == IInv /\ [Next]_vars => Numbered'
<1> SUFFICES ASSUME TypeOK, Counted, Numbered, [Next]_vars PROVE Numbered'
  BY DEF IInv
<1> USE SizesAssumption DEF Numbered, tried
<1> USE DEF loopVars, netVars, handlerVars
<1>a. server \in Seq(Chunk)
  BY DEF TypeOK, Chunk
<1>b. nextIndex \in Nat /\ nextStart \in Nat
  <2>1. CASE server = <<>>
    BY <2>1 DEF nextIndex, nextStart
  <2>2. CASE server # <<>>
    <3>1. server[Len(server)] \in Chunk
      BY <1>a, <2>2, EmptySeq, LenProperties, ElementOfSeq
    <3> QED BY <2>2, <3>1 DEF nextIndex, nextStart, Chunk
  <2> QED BY <2>1, <2>2
<1>c. UNCHANGED server => nextIndex' = nextIndex /\ nextStart' = nextStart
  BY DEF nextIndex, nextStart
<1>d. pos \in Nat /\ index \in Nat /\ n \in Nat
  BY DEF TypeOK
<1>1. CASE uploadFile
  BY <1>1, <1>c DEF uploadFile
<1>2. CASE Start
  BY <1>2, <1>c DEF Start
<1>3. CASE SendRequest
  BY <1>3, <1>c DEF SendRequest
<1>4. CASE Read
  <2>1. CASE Available = 0
    BY <1>4, <2>1 DEF Read
  <2>2. CASE Available # 0
    <3>1. PICK k \in 1..Available : n' = k /\ pos' = pos + k /\ pc' = "check"
      BY <1>4, <2>2 DEF Read
    <3>2. k \in Nat
      BY <3>1 DEF Available
    <3>3. tried' = tried
      BY <1>4, <3>1, <3>2, <1>d DEF Read
    <3> QED BY <1>4, <3>1, <3>3, <1>c DEF Read
  <2> QED BY <2>1, <2>2
<1>5. CASE ReadFails
  BY <1>5 DEF ReadFails
<1>6. CASE CheckCancelled
  BY <1>6, <1>c DEF CheckCancelled
<1>7. CASE SendChunk
  <2>1. CASE n > MaxPayload
    BY <1>7, <2>1, <1>d DEF SendChunk
  <2>2. CASE n <= MaxPayload
    <3>1. server' = Append(server, chunk) /\ index' = index + 1 /\ pos' = pos /\ pc' = "progress"
      BY <1>7, <2>2 DEF SendChunk
    <3>2. chunk \in Chunk /\ chunk.index = index /\ chunk.end = pos
      BY <1>7, <1>d DEF SendChunk, TypeOK, Counted, chunk, Chunk
    <3> HIDE DEF chunk
    <3>3. server' # <<>> /\ server'[Len(server')] = chunk
      BY <3>1, <3>2, <1>a, AppendProperties, LenProperties
    <3> QED BY <3>1, <3>2, <3>3 DEF nextIndex, nextStart
  <2> QED BY <2>1, <2>2, <1>d, SizesAssumption
<1>8. CASE SendInVain
  <2>1. index' = index + 1 /\ tried' = tried + n /\ n >= 1 /\ pc' = "progress" /\ UNCHANGED server
    BY <1>8, <1>d DEF SendInVain, Counted
  <2>2. tried \in Nat
    BY <1>8, <1>d DEF SendInVain, Counted
  <2>3. index >= nextIndex /\ tried >= nextStart
    BY <1>8, <1>b, <1>d, <2>2 DEF SendInVain
  <2>4. index' > nextIndex' /\ tried' > nextStart'
    BY <2>1, <2>2, <2>3, <1>b, <1>c, <1>d
  <2> QED BY <2>4
<1>9. CASE Progress
  BY <1>9, <1>c DEF Progress
<1>10. CASE Fail \/ Return
  BY <1>10 DEF Fail, Return
<1>11. CASE UNCHANGED <<loopVars, server>>
  BY <1>11, <1>c
<1>12. CASE ServerReplies \/ Collecting \/ Collect \/ CloseScreen \/ cancelTransfer
            \/ clearCompletedTransfers \/ UNCHANGED vars
  BY <1>11, <1>12 DEF ServerReplies, Collecting, Subscribe, Handle, HandleRead, HandleWrite,
                      Collect, CloseScreen, cancelTransfer, clearCompletedTransfers, vars
<1> QED BY <1>1, <1>2, <1>3, <1>4, <1>5, <1>6, <1>7, <1>8, <1>9, <1>10, <1>12
           DEF Next, Loop, Collecting

\* A chunk that is sent shows what came before it.
LEMMA NextGapsShow == IInv /\ [Next]_vars => GapsShow'
<1> SUFFICES ASSUME TypeOK, Counted, Numbered, GapsShow, [Next]_vars PROVE GapsShow'
  BY DEF IInv
<1> USE DEF loopVars, netVars, handlerVars
<1>1. CASE SendChunk /\ server' # server
  <2>1. /\ server' = Append(server, chunk) /\ chunk.index = index
        /\ chunk.end = pos /\ chunk.size = n
    BY <1>1 DEF SendChunk, chunk
  <2>2. chunk \in Chunk
    BY <1>1, SizesAssumption DEF SendChunk, TypeOK, Counted, tried, chunk, Chunk
  <2> HIDE DEF chunk
  <2>3. server \in Seq(Chunk) /\ Len(server) \in Nat /\ DOMAIN server = 1 .. Len(server)
    BY LenProperties DEF TypeOK, Chunk
  <2>4. /\ Len(server') = Len(server) + 1 /\ DOMAIN server' = 1 .. Len(server) + 1
        /\ \A i \in 1 .. Len(server) : server'[i] = server[i]
        /\ server'[Len(server) + 1] = chunk
    BY <2>1, <2>2, <2>3, AppendProperties, LenProperties
  <2>5. server = <<>> <=> Len(server) = 0
    BY <2>3, EmptySeq
  <2>6. index = nextIndex <=> pos - n = nextStart
    <3>1. tried = pos - n /\ tried \in Nat /\ index \in Nat
      BY <1>1 DEF SendChunk, TypeOK, Counted, tried
    <3>2. nextIndex \in Nat /\ nextStart \in Nat
      <4>1. CASE server # <<>>
        <5>1. server[Len(server)] \in Chunk
          BY <2>3, <2>5, <4>1, ElementOfSeq
        <5> QED BY <4>1, <5>1 DEF nextIndex, nextStart, Chunk
      <4>2. CASE server = <<>>
        BY <4>2 DEF nextIndex, nextStart
      <4> QED BY <4>1, <4>2
    <3>3. \/ index = nextIndex /\ tried = nextStart
          \/ index > nextIndex /\ tried > nextStart
      BY <1>1 DEF SendChunk, Numbered
    <3> QED BY <3>1, <3>2, <3>3
  <2>7. ASSUME NEW i \in DOMAIN server'
        PROVE  LET before == IF i = 1 THEN [index |-> 0, end |-> 0]
                             ELSE [index |-> server'[i - 1].index + 1, end |-> server'[i - 1].end]
               IN  (server'[i].index = before.index) <=> (server'[i].end - server'[i].size = before.end)
    <3>1. CASE i = Len(server) + 1
      <4>1. CASE i = 1
        <5>1. server'[i] = chunk /\ server = <<>>
          BY <3>1, <4>1, <2>3, <2>4, <2>5
        <5>2. nextIndex = 0 /\ nextStart = 0
          BY <5>1 DEF nextIndex, nextStart
        <5> QED BY <4>1, <5>1, <5>2, <2>1, <2>6
      <4>2. CASE i # 1
        <5>1. server'[i - 1] = server[Len(server)] /\ server # <<>> /\ server'[i] = chunk
          BY <3>1, <4>2, <2>3, <2>4, <2>5
        <5> QED BY <4>2, <5>1, <2>1, <2>6 DEF nextIndex, nextStart
      <4> QED BY <4>1, <4>2
    <3>2. CASE i \in 1 .. Len(server)
      <4>1. server'[i] = server[i] /\ (i # 1 => server'[i - 1] = server[i - 1])
        BY <3>2, <2>3, <2>4
      <4> QED BY <4>1, <3>2, <2>3 DEF GapsShow
    <3> QED BY <3>1, <3>2, <2>3, <2>4
  <2> QED BY <2>7 DEF GapsShow
<1>2. CASE UNCHANGED server
  BY <1>2 DEF GapsShow
<1>3. UNCHANGED server \/ SendChunk
  BY DEF Next, uploadFile, Loop, Start, SendRequest, Read, CheckCancelled, Progress, Fail, Return,
         ReadFails, SendInVain, ServerReplies, Subscribe, Handle, HandleRead, HandleWrite, Collect,
         CloseScreen, cancelTransfer, clearCompletedTransfers, vars
<1> QED BY <1>1, <1>2, <1>3

\* A refusal stays a failure until the server or the user says something.
LEMMA NextFailing == IInv /\ [Next]_vars => Failing' /\ RefusalIsFailure'
<1> SUFFICES ASSUME TypeOK, Failing, RefusalIsFailure, [Next]_vars
             PROVE  Failing' /\ RefusalIsFailure'
  BY DEF IInv
<1> USE DEF Failing, RefusalIsFailure, updateTransfer
<1> USE DEF loopVars, netVars, handlerVars
<1>1. CASE uploadFile \/ Start \/ SendRequest \/ Read \/ ReadFails \/ CheckCancelled
           \/ SendInVain \/ Progress
  BY <1>1 DEF uploadFile, Start, SendRequest, Read, ReadFails, CheckCancelled, SendInVain, Progress
<1>2. CASE SendChunk \/ Fail \/ Return
  BY <1>2 DEF SendChunk, Fail, Return
<1>3. CASE ServerReplies
  BY <1>3 DEF ServerReplies, TypeOK
<1>4. ASSUME NEW c \in Collectors, HandleRead(c) PROVE Failing' /\ RefusalIsFailure'
  BY <1>4 DEF HandleRead
<1>5. ASSUME NEW c \in Collectors, HandleWrite(c) PROVE Failing' /\ RefusalIsFailure'
  BY <1>5 DEF HandleWrite
<1>6. CASE Collect \/ CloseScreen \/ cancelTransfer \/ clearCompletedTransfers
  BY <1>6 DEF Collect, CloseScreen, cancelTransfer, clearCompletedTransfers
<1>7. CASE UNCHANGED vars
  BY <1>7 DEF vars
<1>8. ASSUME NEW c \in Collectors, Subscribe(c) PROVE Failing' /\ RefusalIsFailure'
  BY <1>8 DEF Subscribe
<1> QED BY <1>1, <1>2, <1>3, <1>4, <1>5, <1>6, <1>7, <1>8 DEF Next, Loop, Handle

\* No step but a collector's completes an entry, and that one marks the copies
\* it overtakes.
LEMMA NextCopied == IInv /\ [Next]_vars => Copied'
<1> SUFFICES ASSUME TypeOK, Copied, [Next]_vars PROVE Copied'
  BY DEF IInv
<1> USE NoneAssumption DEF Copied, Overtakes, updateTransfer, Statuses, Terminal
<1> USE DEF loopVars, netVars, handlerVars
<1>1. CASE uploadFile \/ Start \/ SendRequest \/ Read \/ ReadFails \/ CheckCancelled
           \/ SendChunk \/ SendInVain \/ Progress \/ Fail \/ Return
  BY <1>1 DEF uploadFile, Start, SendRequest, Read, ReadFails, CheckCancelled,
              SendChunk, SendInVain, Progress, Fail, Return
<1>2. CASE ServerReplies
  BY <1>2 DEF ServerReplies
<1>3. ASSUME NEW c \in Collectors, HandleRead(c) PROVE Copied'
  BY <1>3 DEF HandleRead, TypeOK
<1>4. ASSUME NEW c \in Collectors, HandleWrite(c) PROVE Copied'
  <2>1. /\ hpc' = [hpc EXCEPT ![c] = None] /\ hcopy' = [hcopy EXCEPT ![c] = None]
        /\ UNCHANGED <<replies, readers>> /\ entry' = Answered(c) /\ hpc[c] # None
    BY <1>4 DEF HandleWrite
  <2>2. \A d \in Collectors : Overtakes(d)' => Overtakes(d)
    BY <2>1 DEF TypeOK, Replies
  <2>3. ~overtaken' => ~overtaken
    BY <1>4, Zenon DEF HandleWrite
  <2>4. ~overtaken' /\ Answered(c) = "COMPLETED" => \A d \in Collectors : ~Overtakes(d)
    BY <1>4, Zenon DEF HandleWrite
  <2> HIDE DEF Overtakes
  <2>5. entry' = "COMPLETED" /\ ~overtaken' => \A d \in Collectors : ~Overtakes(d)'
    BY <2>1, <2>2, <2>4
  <2>6. \A d \in Collectors : /\ replies'[d] # <<>> \/ hpc'[d] # None => d \in readers'
                              /\ hpc'[d] # None => hcopy'[d] # None
    BY <2>1 DEF TypeOK
  <2> QED BY <2>5, <2>6
<1>5. CASE Collect \/ CloseScreen \/ cancelTransfer \/ clearCompletedTransfers
  BY <1>5 DEF Collect, CloseScreen, cancelTransfer, clearCompletedTransfers
<1>6. CASE UNCHANGED vars
  BY <1>6 DEF vars
<1>7. ASSUME NEW c \in Collectors, Subscribe(c) PROVE Copied'
  BY <1>7 DEF Subscribe
<1> QED BY <1>1, <1>2, <1>3, <1>4, <1>5, <1>6, <1>7 DEF Next, Loop, Handle

\* The collector that completes holds no unfinished copy itself, so the one it
\* overtakes is another; both are subscribed, and stay so.
LEMMA NextByAnother == IInv /\ [Next]_vars => ByAnother'
<1> SUFFICES ASSUME TypeOK, Copied, ByAnother, [Next]_vars PROVE ByAnother'
  BY DEF IInv
<1> USE DEF handlerVars
<1>1. ASSUME NEW c \in Collectors, HandleWrite(c) PROVE ByAnother'
  <2>1. CASE overtaken
    BY <1>1, <2>1 DEF HandleWrite, ByAnother
  <2>2. CASE ~overtaken /\ overtaken'
    <3>1. PICK d \in Collectors : Answered(c) = "COMPLETED" /\ Overtakes(d)
      BY <1>1, <2>2, Zenon DEF HandleWrite
    <3>2. hpc[c] # None /\ hpc[d] # None /\ c # d
      BY <1>1, <3>1, NoneAssumption DEF HandleWrite, Answered, Overtakes, Replies, Terminal
    <3>3. c \in readers /\ d \in readers
      BY <3>2 DEF Copied
    <3> QED BY <1>1, <3>2, <3>3 DEF HandleWrite, ByAnother
  <2>3. CASE ~overtaken'
    BY <2>3 DEF ByAnother
  <2> QED BY <2>1, <2>2, <2>3
<1>2. ASSUME NEW c \in Collectors, Subscribe(c) \/ HandleRead(c) PROVE ByAnother'
  BY <1>2 DEF Subscribe, HandleRead, ByAnother
<1>3. CASE UNCHANGED <<readers, overtaken>>
  BY <1>3 DEF ByAnother
<1>4. UNCHANGED <<readers, overtaken>> \/ Collecting
  BY DEF Next, Collecting, uploadFile, Loop, Start, SendRequest, Read, CheckCancelled, SendChunk,
         Progress, Fail, Return, ReadFails, SendInVain, ServerReplies, Collect,
         CloseScreen, cancelTransfer, clearCompletedTransfers, vars
<1> QED BY <1>1, <1>2, <1>3, <1>4 DEF Collecting, Handle

LEMMA NextIInv == IInv /\ [Next]_vars => IInv'
BY NextTypeOK, NextCounted, NextNumbered, NextGapsShow, NextFailing, NextCopied, NextByAnother DEF IInv
-----------------------------------------------------------------------------
\* The variables of an upload keep their types, its buffer of updates its bound.
THEOREM TypeCorrect == Spec => []TypeOK
<1>1. IInv => TypeOK
  BY DEF IInv
<1> QED BY InitIInv, NextIInv, <1>1, PTL DEF Spec

\* The numbers of the chunks a server has show every chunk that is missing
\* (uploadFileInternal).
THEOREM NumbersShowGaps == Spec => []GapsShow
<1>1. IInv => GapsShow
  BY DEF IInv
<1> QED BY InitIInv, NextIInv, <1>1, PTL DEF Spec

\* An upload of which a chunk was refused does not look like anything but a
\* failure by the doing of this client (sendFileChunk, the catch of the loop).
THEOREM RefusedFails == Spec => []RefusalIsFailure
<1>1. IInv => RefusalIsFailure
  BY DEF IInv
<1> QED BY InitIInv, NextIInv, <1>1, PTL DEF Spec

\* A completed upload does not look unfinished again (handleFileProgress),
\* unless two collectors of frames held copies of it.
THEOREM CompletedStays == Spec => CompletedIsKept
<1>1. IInv /\ [Next]_vars =>
        [pc = "done" /\ entry = "COMPLETED" /\ ~overtaken => entry' \in Terminal \cup {None}]_vars
  <2> SUFFICES ASSUME TypeOK, Copied, Next, pc = "done", entry = "COMPLETED", ~overtaken
               PROVE  entry' \in Terminal \cup {None}
    BY DEF IInv
  <2> USE DEF loopVars, netVars, handlerVars
  <2>1. ASSUME NEW c \in Collectors, HandleWrite(c) PROVE entry' \in Terminal
    <3>1. entry' = Answered(c) /\ hpc[c] # None
      BY <2>1 DEF HandleWrite, updateTransfer
    <3> QED BY <3>1, AnsweredType DEF Copied, Overtakes
  <2>2. CASE cancelTransfer \/ clearCompletedTransfers
    BY <2>2 DEF cancelTransfer, clearCompletedTransfers, updateTransfer, Terminal
  <2>3. CASE uploadFile \/ Loop \/ ReadFails \/ SendInVain
    BY <2>3 DEF uploadFile, Loop, Start, SendRequest, Read, CheckCancelled, SendChunk,
                Progress, Fail, Return, ReadFails, SendInVain, Terminal
  <2>4. CASE ServerReplies \/ (\E c \in Collectors : Subscribe(c) \/ HandleRead(c)) \/ Collect \/ CloseScreen
    BY <2>4 DEF ServerReplies, Subscribe, HandleRead, Collect, CloseScreen, Terminal
  <2> QED BY <2>1, <2>2, <2>3, <2>4 DEF Next, Handle
<1> QED BY InitIInv, NextIInv, <1>1, PTL DEF Spec, CompletedIsKept

\* That exception takes a second call of start(): one collector handles its
\* frames one by one, and completes nothing with an older copy in hand.
THEOREM OvertakenByAnother == Spec => [](overtaken => \E c, d \in readers : c # d)
<1>1. IInv => ByAnother
  BY DEF IInv
<1> QED BY InitIInv, NextIInv, <1>1, PTL DEF Spec, ByAnother
=============================================================================
