------------------------- MODULE FileDownload_proofs -------------------------
(***************************************************************************)
(* The local file of a download is a beginning of the file, and of a       *)
(* completed one it has the end: for files of any number of chunks, and    *)
(* any number of collectors, writers, faults, reports and retries.         *)
(*                                                                         *)
(* The argument for the first: as long as nothing disturbs it, the chunks  *)
(* in the file, the one being written, those one collector has to handle   *)
(* and those still to be streamed are one sequence without a gap. For the second: only the *)
(* last chunk completes an entry, after it was appended, and the file      *)
(* never shrinks.                                                          *)
(***************************************************************************)
EXTENDS FileDownload, SequenceTheorems, TLAPS

Frames == [chunk : 1..Chunks] \cup [report : Reports]
Carries(frame) == "chunk" \in DOMAIN frame
HasEnd == \E i \in DOMAIN file : file[i] = Chunks

\* What the collectors and the jobs have in hand; only who has subscribed gets frames.
InHand ==
  /\ \A c \in Collectors : hpc[c] # None => hcopy[c] # None
  /\ \A c \in Collectors : incoming[c] # <<>> => c \in readers
  /\ DOMAIN jchunk = Jobs
  /\ \A j \in Jobs : jpc[j] # "idle" => jchunk[j] \in 1..Chunks

\* A job that has written is told apart by its chunk being in the file; a copy
\* that says COMPLETED was taken of an entry that did.
EndIsWritten ==
  /\ \A j \in Jobs : jpc[j] = "update" => \E i \in DOMAIN file : file[i] = jchunk[j]
  /\ \A c \in Collectors :
       hpc[c] # None /\ hcopy[c].status = "COMPLETED" /\ ~confirmed => HasEnd

EndInv == TypeOK /\ InHand /\ EndIsWritten /\ CompletedHasEnd
-----------------------------------------------------------------------------
(* Frames and the file                                                      *)

LEMMA FrameKinds ==
  /\ \A frame \in Frames : IF Carries(frame) THEN frame \in [chunk : 1..Chunks]
                                             ELSE frame \in [report : Reports]
  /\ \A k \in 1..Chunks : [chunk |-> k] \in Frames /\ Carries([chunk |-> k])
  /\ \A r \in Reports : [report |-> r] \in Frames /\ ~Carries([report |-> r])
BY DEF Frames, Carries

\* What is appended is in the file, with all that was there before.
LEMMA Appended ==
  ASSUME file \in Seq(1..Chunks), NEW k \in 1..Chunks, file' = Append(file, k)
  PROVE  /\ file' \in Seq(1..Chunks) /\ Len(file') = Len(file) + 1
         /\ DOMAIN file = 1 .. Len(file) /\ DOMAIN file' = 1 .. Len(file) + 1
         /\ \A i \in DOMAIN file : i \in DOMAIN file' /\ file'[i] = file[i]
         /\ Len(file) + 1 \in DOMAIN file' /\ file'[Len(file) + 1] = k
<1>1. file' \in Seq(1..Chunks) /\ Len(file') = Len(file) + 1
  BY AppendProperties
<1>2. Len(file) \in Nat /\ DOMAIN file = 1 .. Len(file) /\ DOMAIN file' = 1 .. Len(file')
  BY <1>1, LenProperties
<1>3. (\A i \in 1 .. Len(file) : file'[i] = file[i]) /\ file'[Len(file) + 1] = k
  BY AppendProperties
<1> QED BY <1>1, <1>2, <1>3

\* The frame that is collected, and the rest.
LEMMA Collected ==
  ASSUME TypeOK, NEW c \in Collectors, Collects(c)
  PROVE  /\ incoming' \in [Collectors -> Seq(Frames)]
         /\ incoming[c] \in Seq(Frames) /\ incoming[c] # <<>> /\ incoming'[c] = Tail(incoming[c])
         /\ \A d \in Collectors : d # c => incoming'[d] = incoming[d]
         /\ Head(incoming[c]) \in Frames
         /\ IsChunk(c) <=> Carries(Head(incoming[c]))
<1>1. incoming \in [Collectors -> Seq(Frames)]
  BY DEF TypeOK, Frames
<1>2. incoming[c] \in Seq(Frames) /\ incoming[c] # <<>>
  BY <1>1 DEF Collects
<1>3. Tail(incoming[c]) \in Seq(Frames) /\ Head(incoming[c]) \in Frames
  BY <1>2, HeadTailProperties
<1>4. incoming' = [incoming EXCEPT ![c] = Tail(incoming[c])]
  BY DEF Collects
<1> QED BY <1>1, <1>2, <1>3, <1>4 DEF IsChunk, Carries

\* A frame goes to those who have subscribed, or to nobody.
LEMMA Emitted ==
  ASSUME TypeOK, InHand, NEW frame \in Frames, Emit(frame)
  PROVE  /\ incoming' \in [Collectors -> Seq(Frames)]
         /\ \A c \in Collectors : incoming'[c] # <<>> => c \in readers
         /\ \A c \in Collectors : incoming[c] \in Seq(Frames)
         /\ \A c \in readers : incoming'[c] = IF Room THEN Append(incoming[c], frame) ELSE incoming[c]
<1>1. incoming \in [Collectors -> Seq(Frames)] /\ readers \subseteq Collectors
  BY DEF TypeOK, Frames
<1>2. \A c \in Collectors : Append(incoming[c], frame) \in Seq(Frames)
  BY <1>1, AppendProperties
<1>3. incoming' = [c \in Collectors |-> IF c \in readers /\ Room THEN Append(incoming[c], frame)
                                                                ELSE incoming[c]]
  BY DEF Emit
<1> QED BY <1>1, <1>2, <1>3 DEF InHand
-----------------------------------------------------------------------------
LEMMA InitEnd == Init => EndInv
<1> SUFFICES ASSUME Init PROVE EndInv
  OBVIOUS
<1>1. TypeOK
  <2>1. /\ file \in Seq(1..Chunks)
        /\ incoming \in [Collectors -> Seq([chunk : 1..Chunks] \cup [report : Reports])]
    BY EmptySeq DEF Init
  <2>2. retries \in 0..MaxExtras /\ faults \in 0..MaxFaults /\ reports \in 0..MaxExtras
    BY BoundsAssumption DEF Init
  <2> QED BY <2>1, <2>2 DEF Init, TypeOK
<1>2. InHand /\ EndIsWritten /\ CompletedHasEnd
  BY DEF Init, InHand, EndIsWritten, CompletedHasEnd, Completed
<1> QED BY <1>1, <1>2 DEF EndInv

\* What is written is an entry.
LEMMA AnsweredType ==
  ASSUME TypeOK, InHand, NEW c \in Collectors, hpc[c] # None
  PROVE  /\ [hcopy[c] EXCEPT !.status = Answered(c)] \in Entries
         /\ [hcopy[c] EXCEPT !.status = Answered(c)].status = Answered(c)
         /\ Answered(c) = "COMPLETED" => hpc[c] = "complete" \/ hcopy[c].status = "COMPLETED"
<1>1. hpc[c] \in Reports /\ hcopy[c] \in Entries
  BY DEF TypeOK, InHand
<1> QED BY <1>1 DEF Answered, Reports, Entries, Statuses

\* Every step keeps the types and what is in hand.
LEMMA NextTypeOK == EndInv /\ [Next]_vars => TypeOK' /\ InHand'
<1> SUFFICES ASSUME TypeOK, InHand, [Next]_vars PROVE TypeOK' /\ InHand'
  BY DEF EndInv
<1> USE ChunksAssumption, BoundsAssumption, NoneAssumption
<1> USE DEF jobVars, handlerVars, bounds, history
<1>a. \A s \in Statuses, u \in BOOLEAN : [status |-> s, uri |-> u] \in Entries
  BY DEF Entries
<1>b. {"PENDING", "DOWNLOADING", "COMPLETED", "FAILED", "CANCELLED"} \subseteq Statuses
  BY DEF Statuses
<1>c. incoming \in [Collectors -> Seq(Frames)]
  BY DEF TypeOK, Frames
<1>1. CASE downloadFile \/ Start \/ SetUri \/ StartFails \/ Retry \/ SendRequest
           \/ clearCompletedTransfers
  <2>1. CASE downloadFile \/ Start \/ SetUri
    BY <2>1, <1>a, <1>b DEF downloadFile, Start, SetUri, TypeOK, InHand
  <2>2. CASE StartFails
    <3>1. faults' \in 0..MaxFaults
      BY <2>2 DEF StartFails, TypeOK
    <3>2. entry' \in Entries
      BY <2>2, <1>a, <1>b DEF StartFails
    <3> QED BY <2>2, <3>1, <3>2 DEF StartFails, TypeOK, InHand
  <2>3. CASE Retry
    <3>1. retries' \in 0..MaxExtras
      BY <2>3 DEF Retry, TypeOK
    <3>2. entry' \in Entries
      BY <2>3, <1>a, <1>b DEF Retry
    <3> QED BY <2>3, <3>1, <3>2 DEF Retry, TypeOK, InHand
  <2>4. CASE SendRequest \/ clearCompletedTransfers
    BY <2>4 DEF SendRequest, clearCompletedTransfers, TypeOK, InHand
  <2> QED BY <1>1, <2>1, <2>2, <2>3, <2>4
<1>2. CASE cancelTransfer
  <2>1. entry' \in Entries
    BY <1>2 DEF cancelTransfer, TypeOK, Entries, Statuses
  <2> QED BY <1>2, <2>1 DEF cancelTransfer, TypeOK, InHand
<1>3. CASE Stream
  <2>1. streamed + 1 \in 1..Chunks
    BY <1>3 DEF Stream, TypeOK
  <2>2. /\ incoming' \in [Collectors -> Seq(Frames)]
        /\ \A c \in Collectors : incoming'[c] # <<>> => c \in readers
    BY <1>3, <2>1, FrameKinds, Emitted DEF Stream
  <2>3. lost' \in BOOLEAN
    BY <1>3, Zenon DEF Stream, TypeOK
  <2> QED BY <1>3, <2>1, <2>2, <2>3 DEF Stream, TypeOK, InHand, Frames
<1>4. ASSUME NEW r \in Reports, ServerReports(r) PROVE TypeOK' /\ InHand'
  <2>1. /\ incoming' \in [Collectors -> Seq(Frames)]
        /\ \A c \in Collectors : incoming'[c] # <<>> => c \in readers
    BY <1>4, FrameKinds, Emitted DEF ServerReports
  <2> QED BY <1>4, <2>1 DEF ServerReports, TypeOK, InHand, Frames
<1>5. CASE ServerFails
  <2>1. /\ incoming' \in [Collectors -> Seq(Frames)]
        /\ \A c \in Collectors : incoming'[c] # <<>> => c \in readers
    BY <1>5, FrameKinds, Emitted DEF ServerFails, Reports
  <2> QED BY <1>5, <2>1 DEF ServerFails, TypeOK, InHand, Frames
<1>6. CASE LinkDown
  BY <1>6 DEF LinkDown, TypeOK, InHand
<1>7. ASSUME NEW c \in Collectors, Ignore(c) PROVE TypeOK' /\ InHand'
  BY <1>7, Collected DEF Ignore, TypeOK, InHand, Frames
<1>8. ASSUME NEW c \in Collectors, NEW j \in Jobs, handleFileChunk(c, j) PROVE TypeOK' /\ InHand'
  <2>0. Collects(c) /\ IsChunk(c)
    BY <1>8 DEF handleFileChunk
  <2>1. Head(incoming[c]) \in [chunk : 1..Chunks] /\ incoming' \in [Collectors -> Seq(Frames)]
    BY <2>0, Collected, FrameKinds
  <2>2. Head(incoming[c]).chunk \in 1..Chunks
    BY <2>1
  <2>3. entry.uri \in BOOLEAN
    BY <1>8 DEF handleFileChunk, TypeOK, Entries
  <2>4. jpc' \in [Jobs -> {"idle", "write", "update"}] /\ juri' \in [Jobs -> BOOLEAN]
    BY <1>8, <2>3 DEF handleFileChunk, TypeOK
  <2>5. /\ DOMAIN jchunk' = Jobs /\ jchunk'[j] \in 1..Chunks
        /\ \A k \in Jobs : k # j => jchunk'[k] = jchunk[k] /\ jpc'[k] = jpc[k]
    BY <1>8, <2>2 DEF handleFileChunk, InHand, TypeOK
  <2>6. UNCHANGED <<entry, pc, file, streamed, readers, hpc, hcopy, retries, faults, reports,
                    lost, writeFailed, confirmed>>
    BY <1>8 DEF handleFileChunk
  <2>7. orderly' \in BOOLEAN /\ twice' \in BOOLEAN
    BY <1>8, Zenon DEF handleFileChunk, TypeOK
  <2>8. \A d \in Collectors : incoming'[d] # <<>> => incoming[d] # <<>>
    BY <2>0, Collected
  <2> QED BY <2>1, <2>4, <2>5, <2>6, <2>7, <2>8 DEF TypeOK, InHand, Frames
<1>9. ASSUME NEW c \in Collectors, HandleRead(c) PROVE TypeOK' /\ InHand'
  <2>0. Collects(c) /\ ~IsChunk(c)
    BY <1>9 DEF HandleRead
  <2>1. Head(incoming[c]) \in [report : Reports] /\ incoming' \in [Collectors -> Seq(Frames)]
    BY <2>0, Collected, FrameKinds
  <2>2. Head(incoming[c]).report \in Reports /\ entry \in Entries
    BY <1>9, <2>1 DEF HandleRead, TypeOK
  <2>3. /\ hpc' \in [Collectors -> Reports \cup {None}] /\ DOMAIN hcopy' = Collectors
        /\ \A d \in Collectors : hcopy'[d] = IF d = c THEN entry ELSE hcopy[d]
        /\ \A d \in Collectors : d # c => hpc'[d] = hpc[d]
    BY <1>9, <2>2 DEF HandleRead, TypeOK
  <2>4. /\ UNCHANGED <<entry, pc, file, streamed, readers, jpc, jchunk, juri, retries, faults,
                       reports, lost, twice, writeFailed, confirmed>>
        /\ orderly' \in BOOLEAN /\ entry # None
    BY <1>9 DEF HandleRead, TypeOK
  <2>5. \A d \in Collectors : incoming'[d] # <<>> => incoming[d] # <<>>
    BY <2>0, Collected
  <2> QED BY <2>1, <2>2, <2>3, <2>4, <2>5 DEF TypeOK, InHand, Frames
<1>10. ASSUME NEW c \in Collectors, HandleWrite(c) PROVE TypeOK' /\ InHand'
  <2>1. entry' \in Entries
    BY <1>10, AnsweredType DEF HandleWrite
  <2>2. confirmed' \in BOOLEAN
    BY <1>10, Zenon DEF HandleWrite, TypeOK
  <2>3. /\ hpc' \in [Collectors -> Reports \cup {None}] /\ DOMAIN hcopy' = Collectors
        /\ \A d \in Collectors : hcopy'[d] = IF d = c THEN None ELSE hcopy[d]
        /\ \A d \in Collectors : hpc'[d] = IF d = c THEN None ELSE hpc[d]
    BY <1>10 DEF HandleWrite, TypeOK
  <2>4. UNCHANGED <<pc, file, streamed, incoming, readers, jobVars, bounds, orderly, lost, twice,
                    writeFailed>>
    BY <1>10 DEF HandleWrite
  <2> QED BY <2>1, <2>2, <2>3, <2>4 DEF TypeOK, InHand
<1>16. ASSUME NEW c \in Collectors, Subscribe(c) PROVE TypeOK' /\ InHand'
  BY <1>16 DEF Subscribe, TypeOK, InHand
<1>11. ASSUME NEW j \in Jobs, Drop(j) PROVE TypeOK' /\ InHand'
  BY <1>11 DEF Drop, JobEnds, TypeOK, InHand
<1>12. ASSUME NEW j \in Jobs, AppendChunk(j) PROVE TypeOK' /\ InHand'
  <2>1. file' \in Seq(1..Chunks)
    BY <1>12, Appended DEF AppendChunk, TypeOK, InHand
  <2> QED BY <1>12, <2>1 DEF AppendChunk, TypeOK, InHand
<1>13. ASSUME NEW j \in Jobs, WriteFails(j) PROVE TypeOK' /\ InHand'
  <2>1. faults' \in 0..MaxFaults
    BY <1>13 DEF WriteFails, TypeOK
  <2>2. entry' \in Entries
    BY <1>13, <1>a, <1>b DEF WriteFails
  <2> QED BY <1>13, <2>1, <2>2 DEF WriteFails, JobEnds, TypeOK, InHand
<1>14. ASSUME NEW j \in Jobs, Update(j) PROVE TypeOK' /\ InHand'
  BY <1>14, <1>a, <1>b DEF Update, Written, JobEnds, TypeOK, InHand
<1>15. CASE UNCHANGED vars
  BY <1>15 DEF vars, TypeOK, InHand
<1> QED BY <1>1, <1>2, <1>3, <1>4, <1>5, <1>6, <1>7, <1>8, <1>9, <1>10, <1>11, <1>12, <1>13,
           <1>14, <1>15, <1>16 DEF Next, Caller, Dispatch, JobStep, Reports

\* Every step keeps the end of a completed download in the file.
LEMMA NextEnd == EndInv /\ [Next]_vars => EndIsWritten' /\ CompletedHasEnd'
<1> SUFFICES ASSUME TypeOK, InHand, EndIsWritten, CompletedHasEnd, [Next]_vars
             PROVE  EndIsWritten' /\ CompletedHasEnd'
  BY DEF EndInv
<1> USE NoneAssumption
<1> USE DEF jobVars, handlerVars, bounds, history, EndIsWritten, CompletedHasEnd, Completed, HasEnd
<1>1. CASE downloadFile \/ Start \/ SetUri \/ StartFails \/ Retry \/ clearCompletedTransfers
  BY <1>1 DEF downloadFile, Start, SetUri, StartFails, Retry, clearCompletedTransfers
<1>2. CASE cancelTransfer
  <2>1. entry'.status = "CANCELLED"
    BY <1>2 DEF cancelTransfer, TypeOK, Entries
  <2> QED BY <1>2, <2>1 DEF cancelTransfer
<1>3. CASE SendRequest \/ Stream \/ ServerReports("progress") \/ ServerReports("complete")
           \/ ServerFails \/ LinkDown \/ \E c \in Collectors : Subscribe(c) \/ Ignore(c)
  BY <1>3 DEF SendRequest, Stream, ServerReports, ServerFails, LinkDown, Subscribe, Ignore
<1>4. ASSUME NEW c \in Collectors, NEW j \in Jobs, handleFileChunk(c, j)
      PROVE  EndIsWritten' /\ CompletedHasEnd'
  <2>1. \A k \in Jobs : jpc'[k] = "update" => jpc[k] = "update" /\ jchunk'[k] = jchunk[k]
    BY <1>4 DEF handleFileChunk, TypeOK, InHand
  <2> QED BY <1>4, <2>1 DEF handleFileChunk
<1>5. ASSUME NEW c \in Collectors, HandleRead(c) PROVE EndIsWritten' /\ CompletedHasEnd'
  <2>1. \A d \in Collectors : /\ hpc'[d] # None => hpc[d] # None \/ d = c
                              /\ hcopy'[d] = IF d = c THEN entry ELSE hcopy[d]
    BY <1>5 DEF HandleRead, TypeOK
  <2> QED BY <1>5, <2>1 DEF HandleRead
<1>6. ASSUME NEW c \in Collectors, HandleWrite(c) PROVE EndIsWritten' /\ CompletedHasEnd'
  <2>1. \A d \in Collectors : hpc'[d] # None => hpc[d] # None /\ hcopy'[d] = hcopy[d]
    BY <1>6 DEF HandleWrite, TypeOK
  <2>2. entry'.status = "COMPLETED" => hpc[c] = "complete" \/ hcopy[c].status = "COMPLETED"
    BY <1>6, AnsweredType DEF HandleWrite
  <2>3. ~confirmed' => ~confirmed /\ hpc[c] # "complete"
    BY <1>6, Zenon DEF HandleWrite
  <2> QED BY <1>6, <2>1, <2>2, <2>3 DEF HandleWrite
<1>7. ASSUME NEW j \in Jobs, Drop(j) PROVE EndIsWritten' /\ CompletedHasEnd'
  <2>1. \A k \in Jobs : jpc'[k] = "update" => jpc[k] = "update" /\ jchunk'[k] = jchunk[k]
    BY <1>7 DEF Drop, JobEnds, TypeOK, InHand
  <2> QED BY <1>7, <2>1 DEF Drop
<1>8. ASSUME NEW j \in Jobs, AppendChunk(j) PROVE EndIsWritten' /\ CompletedHasEnd'
  <2>1. /\ \A i \in DOMAIN file : i \in DOMAIN file' /\ file'[i] = file[i]
        /\ Len(file) + 1 \in DOMAIN file' /\ file'[Len(file) + 1] = jchunk[j]
    BY <1>8, Appended DEF AppendChunk, TypeOK, InHand
  <2>2. \A k \in Jobs : /\ jpc'[k] = "update" => jpc[k] = "update" \/ k = j
                        /\ jchunk'[k] = jchunk[k]
    BY <1>8 DEF AppendChunk, TypeOK
  <2> QED BY <1>8, <2>1, <2>2 DEF AppendChunk
<1>9. ASSUME NEW j \in Jobs, WriteFails(j) PROVE EndIsWritten' /\ CompletedHasEnd'
  <2>1. \A k \in Jobs : jpc'[k] = "update" => jpc[k] = "update" /\ jchunk'[k] = jchunk[k]
    BY <1>9 DEF WriteFails, JobEnds, TypeOK, InHand
  <2> QED BY <1>9, <2>1 DEF WriteFails
<1>10. ASSUME NEW j \in Jobs, Update(j) PROVE EndIsWritten' /\ CompletedHasEnd'
  <2>1. \A k \in Jobs : jpc'[k] = "update" => jpc[k] = "update" /\ jchunk'[k] = jchunk[k]
    BY <1>10 DEF Update, Written, JobEnds, TypeOK, InHand
  <2>2. entry'.status = "COMPLETED" => HasEnd
    BY <1>10 DEF Update, Written
  <2> QED BY <1>10, <2>1, <2>2 DEF Update, Written
<1>11. CASE UNCHANGED vars
  BY <1>11 DEF vars
<1> QED BY <1>1, <1>2, <1>3, <1>4, <1>5, <1>6, <1>7, <1>8, <1>9, <1>10, <1>11
        DEF Next, Caller, Dispatch, JobStep
-----------------------------------------------------------------------------
LEMMA EndSafe == Spec => []EndInv
<1>1. EndInv /\ [Next]_vars => EndInv'
  BY NextTypeOK, NextEnd DEF EndInv
<1> QED BY InitEnd, <1>1, PTL DEF Spec

\* The variables of a download keep their types.
THEOREM TypeCorrect == Spec => []TypeOK
<1>1. EndInv => TypeOK
  BY DEF EndInv
<1> QED BY EndSafe, <1>1, PTL

\* A download that is completed, and not by the server's own word, has the end of
\* the file in its local file (handleFileChunk, handleFileComplete).
THEOREM CompletedHolds == Spec => []CompletedHasEnd
<1>1. EndInv => CompletedHasEnd
  BY DEF EndInv
<1> QED BY EndSafe, <1>1, PTL
-----------------------------------------------------------------------------
(* An undisturbed download: one writer at a time, and the numbers of the    *)
(* chunks go on without a gap from the file to the writer, to the frames on *)
(* their way, and to what is streamed next.                                 *)

Writing == \E j \in Jobs : jpc[j] = "write"
Taken == IF Writing THEN Len(file) + 1 ELSE Len(file)

\* count[i] is the number of the last chunk up to frame i.
Counts(count, frames, taken, next) ==
  /\ count \in [0 .. Len(frames) -> Nat]
  /\ count[0] = taken
  /\ \A i \in 1 .. Len(frames) :
       IF Carries(frames[i]) THEN count[i] = count[i - 1] + 1 /\ frames[i].chunk = count[i]
                             ELSE count[i] = count[i - 1]
  /\ next # None => next = count[Len(frames)]

Gapless(frames, taken, next) ==
  \E count \in [0 .. Len(frames) -> Nat] : Counts(count, frames, taken, next)

OneWriter == \A j, k \in Jobs : jpc[j] # "idle" /\ jpc[k] # "idle" => j = k
WriterIsNext == \A j \in Jobs : jpc[j] = "write" => jchunk[j] = Len(file) + 1
Idle == file = <<>> /\ \A j \in Jobs : jpc[j] = "idle"
Empty == \A c \in Collectors : incoming[c] = <<>>
NotBegun == streamed = None /\ Empty /\ Idle

Orderly == Undisturbed =>
  /\ pc \in {"idle", "start", "request"} => NotBegun
  /\ OneWriter /\ WriterIsNext
  /\ readers = {} => Empty /\ Idle /\ streamed \in {None, 0}
  /\ \A c \in Collectors : readers = {c} => Gapless(incoming[c], Taken, streamed)

PrefixInv == EndInv /\ Orderly /\ FileIsPrefix

LEMMA GaplessEmpty ==
  ASSUME NEW taken \in Nat, NEW next, next = None \/ next = taken
  PROVE  Gapless(<<>>, taken, next)
<1> DEFINE count == [i \in 0 .. 0 |-> taken]
<1>1. Len(<<>>) = 0
  OBVIOUS
<1>2. count \in [0 .. Len(<<>>) -> Nat] /\ Counts(count, <<>>, taken, next)
  BY <1>1 DEF Counts
<1> QED BY <1>2 DEF Gapless

\* A gapless sequence stays so when its server sends the next chunk or a report,
LEMMA GaplessAppend ==
  ASSUME NEW frames \in Seq(Frames), NEW taken, NEW next, NEW later, NEW frame \in Frames,
         Gapless(frames, taken, next),
         IF Carries(frame) THEN next # None /\ frame.chunk = next + 1 /\ later = next + 1
                           ELSE later = None \/ later = next
  PROVE  Gapless(Append(frames, frame), taken, later)
<1> DEFINE longer == Append(frames, frame)
           len == Len(frames)
<1>1. PICK count \in [0 .. len -> Nat] : Counts(count, frames, taken, next)
  BY DEF Gapless
<1>2. /\ len \in Nat /\ Len(longer) = len + 1 /\ longer[len + 1] = frame
      /\ \A i \in 1 .. len : longer[i] = frames[i]
  BY AppendProperties, LenProperties
<1> DEFINE last == IF Carries(frame) THEN count[len] + 1 ELSE count[len]
           more == [i \in 0 .. len + 1 |-> IF i = len + 1 THEN last ELSE count[i]]
<1>3. last \in Nat /\ count[len] \in Nat
  BY <1>2
<1>4. more \in [0 .. len + 1 -> Nat]
  BY <1>2, <1>3
<1>5. /\ more[len + 1] = last /\ \A i \in 0 .. len : more[i] = count[i]
  BY <1>2
<1> HIDE DEF longer, len, more
<1>6. more[0] = taken
  BY <1>1, <1>2, <1>5 DEF Counts, len
<1>7. ASSUME NEW i \in 1 .. len + 1
      PROVE  IF Carries(longer[i]) THEN more[i] = more[i - 1] + 1 /\ longer[i].chunk = more[i]
                                   ELSE more[i] = more[i - 1]
  <2>1. CASE i \in 1 .. len
    BY <1>1, <1>2, <1>5, <2>1 DEF Counts, len
  <2>2. CASE i = len + 1
    BY <1>1, <1>2, <1>5, <2>2 DEF Counts, len
  <2> QED BY <1>2, <2>1, <2>2
<1>8. later # None => later = more[len + 1]
  BY <1>1, <1>5 DEF Counts, len
<1>9. Counts(more, longer, taken, later)
  BY <1>2, <1>4, <1>6, <1>7, <1>8 DEF Counts
<1> QED BY <1>2, <1>4, <1>9 DEF Gapless, longer

\* when the server stops,
LEMMA GaplessStop ==
  ASSUME NEW frames, NEW taken, NEW next, Gapless(frames, taken, next)
  PROVE  Gapless(frames, taken, None)
BY DEF Gapless, Counts

\* and when its first frame is taken: a chunk is the next one.
LEMMA GaplessTail ==
  ASSUME NEW frames \in Seq(Frames), frames # <<>>, NEW taken, NEW next,
         Gapless(frames, taken, next)
  PROVE  IF Carries(Head(frames))
         THEN Head(frames).chunk = taken + 1 /\ Gapless(Tail(frames), taken + 1, next)
         ELSE Gapless(Tail(frames), taken, next)
<1> DEFINE rest == Tail(frames)
           len == Len(rest)
<1>1. PICK count \in [0 .. Len(frames) -> Nat] : Counts(count, frames, taken, next)
  BY DEF Gapless
<1>2. /\ Len(frames) \in Nat \ {0} /\ len = Len(frames) - 1 /\ Head(frames) = frames[1]
      /\ \A i \in 1 .. len : rest[i] = frames[i + 1]
  BY HeadTailProperties, EmptySeq
<1> DEFINE fewer == [i \in 0 .. len |-> count[i + 1]]
<1>3. fewer \in [0 .. len -> Nat] /\ \A i \in 0 .. len : fewer[i] = count[i + 1]
  BY <1>2
<1> HIDE DEF rest, len, fewer
<1>4. ASSUME NEW i \in 1 .. len
      PROVE  IF Carries(rest[i]) THEN fewer[i] = fewer[i - 1] + 1 /\ rest[i].chunk = fewer[i]
                                 ELSE fewer[i] = fewer[i - 1]
  <2>1. i + 1 \in 1 .. Len(frames) /\ i - 1 \in 0 .. len /\ i \in 0 .. len
    BY <1>2
  <2>2. fewer[i] = count[i + 1] /\ fewer[i - 1] = count[i] /\ rest[i] = frames[i + 1]
    BY <1>2, <1>3, <2>1
  <2> QED BY <1>1, <2>1, <2>2 DEF Counts
<1>5. next # None => next = fewer[len]
  BY <1>1, <1>2, <1>3 DEF Counts
<1>6. Counts(fewer, rest, fewer[0], next)
  BY <1>3, <1>4, <1>5 DEF Counts, len
<1>7. Gapless(rest, fewer[0], next)
  BY <1>3, <1>6 DEF Gapless, len
<1>8. fewer[0] = count[1] /\ 1 \in 1 .. Len(frames)
  BY <1>2, <1>3
<1>9. IF Carries(frames[1]) THEN count[1] = taken + 1 /\ frames[1].chunk = count[1]
                            ELSE count[1] = taken
  BY <1>1, <1>8 DEF Counts
<1> QED BY <1>2, <1>7, <1>8, <1>9 DEF rest

LEMMA InitPrefix == Init => PrefixInv
<1> SUFFICES ASSUME Init PROVE PrefixInv
  OBVIOUS
<1>1. NotBegun /\ Empty /\ Idle /\ OneWriter /\ WriterIsNext /\ FileIsPrefix /\ readers = {}
  BY DEF Init, NotBegun, Empty, Idle, OneWriter, WriterIsNext, FileIsPrefix
<1> QED BY <1>1, InitEnd DEF Orderly, PrefixInv, NotBegun

\* Every step of an undisturbed download keeps its order.
LEMMA NextPrefix == PrefixInv /\ [Next]_vars => Orderly' /\ FileIsPrefix'
<1> DEFINE Ordered == /\ pc \in {"idle", "start", "request"} => NotBegun
                      /\ OneWriter /\ WriterIsNext
                      /\ readers = {} => Empty /\ Idle /\ streamed \in {None, 0}
                      /\ \A c \in Collectors : readers = {c} => Gapless(incoming[c], Taken, streamed)
           Goal == Ordered' /\ \A i \in DOMAIN file' : file'[i] = i
<1> SUFFICES ASSUME EndInv, Orderly, FileIsPrefix, [Next]_vars, Undisturbed' PROVE Goal
  BY DEF PrefixInv, Orderly, FileIsPrefix
<1> USE DEF jobVars, handlerVars, bounds, history
<1>a. TypeOK /\ InHand /\ Len(file) \in Nat /\ Taken \in Nat
  BY LenProperties DEF EndInv, TypeOK, Taken
<1>b. Undisturbed
  <2>1. retries \in Nat
    BY <1>a, BoundsAssumption DEF TypeOK
  <2>2. retries' = retries \/ retries' = retries + 1
    BY DEF Next, Caller, Dispatch, JobStep, vars, downloadFile, Start, SendRequest, SetUri,
           StartFails, Retry, cancelTransfer, clearCompletedTransfers, Stream, ServerReports,
           ServerFails, LinkDown, Subscribe, Ignore, handleFileChunk, HandleRead, HandleWrite, Drop,
           AppendChunk, WriteFails, Update, Written
  <2> DEFINE Sticks == /\ writeFailed => writeFailed'
                       /\ lost => lost'
                       /\ twice => twice'
                       /\ orderly' => orderly
  <2>3. Sticks
    <3>1. CASE Stream
      BY <3>1, Zenon DEF Stream
    <3>2. ASSUME NEW c \in Collectors, Dispatch(c) PROVE Sticks
      <4>1. CASE Ignore(c) \/ HandleWrite(c)
        BY <4>1 DEF Ignore, HandleWrite
      <4>2. CASE HandleRead(c)
        <5>1. UNCHANGED <<lost, twice, writeFailed>> /\ orderly' = (orderly /\ ~Busy)
          BY <4>2, Zenon DEF HandleRead
        <5> QED BY <5>1, Zenon
      <4>3. CASE \E j \in Jobs : handleFileChunk(c, j)
        <5>1. UNCHANGED <<lost, writeFailed>> /\ orderly' = (orderly /\ ~Busy)
          BY <4>3, Zenon DEF handleFileChunk
        <5>2. twice' = (twice \/ readers # {c})
          BY <4>3, Zenon DEF handleFileChunk
        <5> QED BY <5>1, <5>2, Zenon
      <4> QED BY <3>2, <4>1, <4>2, <4>3 DEF Dispatch
    <3>3. ASSUME NEW j \in Jobs, JobStep(j) \/ WriteFails(j) PROVE Sticks
      BY <3>3 DEF JobStep, Drop, AppendChunk, Update, Written, WriteFails
    <3>4. CASE UNCHANGED history
      BY <3>4
    <3>5. CASE \/ downloadFile \/ Caller \/ StartFails \/ Retry \/ cancelTransfer
               \/ clearCompletedTransfers
               \/ ServerReports("progress") \/ ServerReports("complete") \/ ServerFails
               \/ LinkDown \/ (\E c \in Collectors : Subscribe(c)) \/ UNCHANGED vars
      BY <3>4, <3>5 DEF vars, Caller, downloadFile, Start, SendRequest, SetUri, StartFails, Retry,
           cancelTransfer, clearCompletedTransfers, ServerReports, ServerFails, LinkDown, Subscribe
    <3> QED BY <3>1, <3>2, <3>3, <3>5 DEF Next
  <2> QED BY <2>1, <2>2, <2>3 DEF Undisturbed
<1>c. Ordered /\ \A i \in DOMAIN file : file[i] = i
  BY <1>b DEF Orderly, FileIsPrefix
<1>d. ASSUME UNCHANGED <<file, jobVars>>
      PROVE  /\ Taken' = Taken /\ OneWriter' /\ WriterIsNext' /\ (Idle => Idle')
             /\ \A i \in DOMAIN file' : file'[i] = i
  BY <1>c, <1>d DEF Taken, Writing, OneWriter, WriterIsNext, Idle
<1>1. CASE downloadFile \/ Start \/ SetUri \/ StartFails \/ cancelTransfer
           \/ clearCompletedTransfers \/ (\E c \in Collectors : HandleWrite(c)) \/ UNCHANGED vars
  <2>1. UNCHANGED <<file, jobVars, incoming, streamed, readers>>
    BY <1>1 DEF downloadFile, Start, SetUri, StartFails, cancelTransfer,
                clearCompletedTransfers, HandleWrite, vars
  <2>2. pc' \in {"idle", "start", "request"} => pc \in {"idle", "start", "request"}
    BY <1>1 DEF downloadFile, Start, SetUri, StartFails, cancelTransfer,
                clearCompletedTransfers, HandleWrite, vars
  <2> QED BY <1>c, <1>d, <2>1, <2>2 DEF NotBegun, Empty
<1>2. CASE SendRequest
  <2>1. UNCHANGED <<file, jobVars, incoming, readers>> /\ pc' = "uri" /\ NotBegun /\ streamed' = 0
    BY <1>2, <1>c DEF SendRequest
  <2>2. Taken = 0 /\ \A c \in Collectors : incoming'[c] = <<>>
    BY <2>1 DEF NotBegun, Empty, Idle, Taken, Writing
  <2>3. \A c \in Collectors : Gapless(incoming'[c], Taken', streamed')
    BY <1>d, <2>1, <2>2, GaplessEmpty
  <2> QED BY <1>d, <2>1, <2>2, <2>3 DEF NotBegun, Empty
<1>3. CASE Stream
  <2>1. /\ UNCHANGED <<file, jobVars, pc, readers>>
        /\ Emit([chunk |-> streamed + 1]) /\ streamed' = streamed + 1
        /\ streamed # None /\ streamed + 1 \in 1..Chunks
    BY <1>3, <1>a, ChunksAssumption DEF Stream, TypeOK
  <2>2. readers # {} /\ Room
    BY <1>3, Zenon DEF Stream, Undisturbed
  <2>3. [chunk |-> streamed + 1] \in Frames /\ Carries([chunk |-> streamed + 1])
    BY <2>1, FrameKinds
  <2>4. ASSUME NEW c \in Collectors, readers = {c} PROVE Gapless(incoming'[c], Taken', streamed')
    <3>1. incoming'[c] = Append(incoming[c], [chunk |-> streamed + 1]) /\ incoming[c] \in Seq(Frames)
      BY <1>a, <2>1, <2>2, <2>3, <2>4, Emitted
    <3> QED BY <1>a, <1>c, <1>d, <2>1, <2>3, <2>4, <3>1, GaplessAppend
  <2> QED BY <1>c, <1>d, <2>1, <2>2, <2>4 DEF NotBegun
<1>4. ASSUME NEW r \in Reports, Emit([report |-> r]), UNCHANGED <<file, jobVars, pc, readers>>,
             streamed # None, streamed' = streamed \/ streamed' = None
      PROVE  Goal
  <2>1. [report |-> r] \in Frames /\ ~Carries([report |-> r])
    BY FrameKinds
  <2>2. ASSUME NEW c \in Collectors, readers = {c} PROVE Gapless(incoming'[c], Taken', streamed')
    <3>1. /\ incoming[c] \in Seq(Frames)
          /\ incoming'[c] = Append(incoming[c], [report |-> r]) \/ incoming'[c] = incoming[c]
      BY <1>4, <1>a, <2>1, <2>2, Emitted
    <3>2. CASE incoming'[c] = Append(incoming[c], [report |-> r])
      BY <1>4, <1>a, <1>c, <1>d, <2>1, <2>2, <3>1, <3>2, GaplessAppend
    <3>3. CASE incoming'[c] = incoming[c]
      BY <1>4, <1>c, <1>d, <2>2, <3>3, GaplessStop
    <3> QED BY <3>1, <3>2, <3>3
  <2>3. readers = {} => Empty'
    BY <1>4, <1>a, <2>1, Emitted DEF Empty
  <2> QED BY <1>4, <1>c, <1>d, <2>2, <2>3 DEF NotBegun
<1>5. CASE (\E r \in Reports : ServerReports(r)) \/ ServerFails
  BY <1>4, <1>5 DEF ServerReports, ServerFails, Reports
<1>6. CASE LinkDown
  <2>1. UNCHANGED <<file, jobVars, pc, incoming, readers>> /\ streamed' = None
    BY <1>6 DEF LinkDown
  <2>2. \A c \in Collectors : readers = {c} => Gapless(incoming'[c], Taken', streamed')
    BY <1>c, <1>d, <2>1, GaplessStop
  <2> QED BY <1>c, <1>d, <2>1, <2>2 DEF NotBegun, Empty
<1>7. ASSUME NEW c \in Collectors, HandleRead(c) PROVE Goal
  <2>1. UNCHANGED <<file, jobVars, pc, streamed, readers>> /\ Collects(c) /\ ~IsChunk(c)
    BY <1>7 DEF HandleRead
  <2>2. /\ incoming[c] \in Seq(Frames) /\ incoming[c] # <<>> /\ c \in readers
        /\ incoming'[c] = Tail(incoming[c]) /\ ~Carries(Head(incoming[c]))
    BY <1>a, <2>1, Collected DEF InHand
  <2>3. ASSUME NEW d \in Collectors, readers = {d} PROVE Gapless(incoming'[d], Taken', streamed')
    <3>1. d = c /\ Gapless(incoming[c], Taken, streamed)
      BY <1>c, <2>2, <2>3
    <3>2. Gapless(Tail(incoming[c]), Taken, streamed)
      BY <1>a, <2>2, <3>1, GaplessTail
    <3> QED BY <1>d, <2>1, <2>2, <3>1, <3>2
  <2> QED BY <1>c, <1>d, <2>1, <2>2, <2>3 DEF NotBegun, Empty
<1>8. ASSUME NEW c \in Collectors, NEW j \in Jobs, handleFileChunk(c, j) PROVE Goal
  <2>0. readers = {c} /\ ~Busy
    BY <1>8, Zenon DEF handleFileChunk, Undisturbed
  <2>1. /\ UNCHANGED <<file, pc, streamed, readers>> /\ Collects(c) /\ IsChunk(c)
        /\ \A k \in Jobs : jpc[k] = "idle"
    BY <1>8, <2>0 DEF handleFileChunk, Busy
  <2>2. /\ incoming[c] \in Seq(Frames) /\ incoming[c] # <<>>
        /\ incoming'[c] = Tail(incoming[c]) /\ Carries(Head(incoming[c]))
    BY <1>a, <2>1, Collected
  <2>3. /\ jpc'[j] = "write" /\ jchunk'[j] = Head(incoming[c]).chunk
        /\ \A k \in Jobs : k # j => jpc'[k] = "idle"
    BY <1>8, <1>a, <2>1 DEF handleFileChunk, TypeOK, InHand
  <2>4. Taken = Len(file) /\ Taken' = Len(file) + 1
    BY <2>1, <2>3 DEF Taken, Writing
  <2>5. Head(incoming[c]).chunk = Len(file) + 1 /\ Gapless(incoming'[c], Taken', streamed')
    BY <1>a, <1>c, <2>0, <2>1, <2>2, <2>4, GaplessTail
  <2>6. pc \notin {"idle", "start", "request"}
    BY <1>c, <2>2 DEF NotBegun, Empty
  <2>7. OneWriter' /\ WriterIsNext'
    BY <2>1, <2>3, <2>5 DEF OneWriter, WriterIsNext
  <2> QED BY <1>c, <2>0, <2>1, <2>5, <2>6, <2>7
<1>9. ASSUME NEW j \in Jobs, AppendChunk(j) PROVE Goal
  <2>1. /\ UNCHANGED <<pc, streamed, incoming, readers, jchunk>>
        /\ jpc[j] = "write" /\ jpc'[j] = "update" /\ file' = Append(file, jchunk[j])
        /\ \A k \in Jobs : k # j => jpc[k] = "idle" /\ jpc'[k] = "idle"
    BY <1>9, <1>a, <1>c DEF AppendChunk, TypeOK, OneWriter
  <2>2. jchunk[j] = Len(file) + 1 /\ jchunk[j] \in 1..Chunks
    BY <1>a, <1>c, <2>1 DEF WriterIsNext, InHand
  <2>3. /\ Len(file') = Len(file) + 1
        /\ DOMAIN file = 1 .. Len(file) /\ DOMAIN file' = 1 .. Len(file) + 1
        /\ \A i \in DOMAIN file : file'[i] = file[i]
        /\ file'[Len(file) + 1] = Len(file) + 1
    BY <1>a, <2>1, <2>2, Appended DEF TypeOK
  <2>4. \A i \in DOMAIN file' : file'[i] = i
    BY <1>a, <1>c, <2>3
  <2>5. Taken = Len(file) + 1 /\ Taken' = Len(file')
    BY <2>1 DEF Taken, Writing
  <2>6. OneWriter' /\ WriterIsNext'
    BY <2>1 DEF OneWriter, WriterIsNext
  <2>7. pc \notin {"idle", "start", "request"} /\ readers # {}
    BY <1>c, <2>1 DEF NotBegun, Idle
  <2> QED BY <1>c, <2>1, <2>3, <2>4, <2>5, <2>6, <2>7
<1>10. ASSUME NEW j \in Jobs, Update(j) PROVE Goal
  <2>1. /\ UNCHANGED <<file, pc, streamed, incoming, readers>> /\ jpc[j] = "update" /\ jpc'[j] = "idle"
        /\ \A k \in Jobs : k # j => jpc[k] = "idle" /\ jpc'[k] = "idle"
    BY <1>10, <1>a, <1>c DEF Update, Written, JobEnds, TypeOK, OneWriter
  <2>2. Taken = Len(file) /\ Taken' = Len(file)
    BY <2>1 DEF Taken, Writing
  <2>3. OneWriter' /\ WriterIsNext'
    BY <2>1 DEF OneWriter, WriterIsNext
  <2>4. pc \notin {"idle", "start", "request"} /\ readers # {}
    BY <1>c, <2>1 DEF NotBegun, Idle
  <2> QED BY <1>c, <2>1, <2>2, <2>3, <2>4
<1>11. CASE Retry
  BY <1>11, <1>a, BoundsAssumption DEF Retry, Undisturbed, TypeOK
<1>12. ASSUME NEW j \in Jobs, Drop(j) \/ WriteFails(j) PROVE Goal
  BY <1>12 DEF Drop, WriteFails, Undisturbed
<1>13. ASSUME NEW c \in Collectors, Ignore(c) PROVE Goal
  BY <1>13 DEF Ignore, Undisturbed
<1>14. ASSUME NEW c \in Collectors, Subscribe(c) PROVE Goal
  <2>1. UNCHANGED <<file, jobVars, pc, streamed, incoming>> /\ readers' = readers \cup {c} /\ c \notin readers
    BY <1>14 DEF Subscribe
  <2>2. ASSUME NEW d \in Collectors, readers' = {d} PROVE Gapless(incoming'[d], Taken', streamed')
    <3>1. readers = {}
      BY <2>1, <2>2
    <3>2. incoming'[d] = <<>> /\ Taken = 0 /\ streamed \in {None, 0}
      BY <1>c, <2>1, <3>1 DEF Empty, Idle, Taken, Writing
    <3> QED BY <1>d, <2>1, <3>2, GaplessEmpty
  <2> QED BY <1>c, <1>d, <2>1, <2>2 DEF NotBegun, Empty
<1> QED BY <1>1, <1>2, <1>3, <1>5, <1>6, <1>7, <1>8, <1>9, <1>10, <1>11, <1>12, <1>13, <1>14
        DEF Next, Caller, Dispatch, JobStep, Reports

\* The local file is a beginning of the file, as long as no chunk was lost to a
\* full buffer, dropped, overtaken, handled by two collectors, tried again or
\* failed to be written (handleFileChunk).
THEOREM PrefixKept == Spec => []FileIsPrefix
<1>1. PrefixInv /\ [Next]_vars => PrefixInv'
  BY NextTypeOK, NextEnd, NextPrefix DEF EndInv, PrefixInv
<1>2. PrefixInv => FileIsPrefix
  BY DEF PrefixInv
<1> QED BY InitPrefix, <1>1, <1>2, PTL DEF Spec
=============================================================================
