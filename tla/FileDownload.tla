---------------------------- MODULE FileDownload ----------------------------
(***************************************************************************)
(* The download of one file: downloadFile, downloadFileInternal and        *)
(* handleFileChunk of FileRepository.kt.                                   *)
(*                                                                         *)
(* The server answers the request by the chunks in order. Every call of    *)
(* start() adds a collector of frames, and every collector handles every   *)
(* frame; a frame that finds the buffer of one of them full is lost to     *)
(* all. A collector starts a coroutine on Dispatchers.IO for each chunk,   *)
(* which appends to the file and writes the entry from the copy the        *)
(* collector took; the place of the file is part of that copy. Frames of   *)
(* progress, completion and error are handled by the collector itself,     *)
(* which reads the entry and then writes a copy of it. The server is       *)
(* external.                                                               *)
(***************************************************************************)
EXTENDS Naturals, Sequences

CONSTANTS
  None,
  Chunks,        \* number of chunks of the file
  Collectors,    \* of frames (bound: calls of start())
  Buffer,        \* of the flow of frames, what other frames leave of it
  Jobs,          \* coroutines that write (bound: how many at once)
  MaxFaults,     \* bound: errors of the server, lost connections, failed writes
  MaxExtras      \* bound: frames of progress and completion, further calls of downloadFile

ASSUME ChunksAssumption == Chunks \in Nat \ {0}
ASSUME BufferAssumption == Buffer \in Nat
ASSUME BoundsAssumption == MaxFaults \in Nat /\ MaxExtras \in Nat

Statuses == {"PENDING", "DOWNLOADING", "COMPLETED", "FAILED", "CANCELLED"}
Terminal == {"COMPLETED", "FAILED", "CANCELLED"}
Reports == {"progress", "complete", "error"}
ASSUME NoneAssumption == None \notin Reports

VARIABLES
  entry,    \* [status, uri] in activeTransfers, or None; uri: the place is known
  pc,       \* downloadFile
  file,     \* the numbers of the chunks appended to the local file, in order
  streamed, \* what the server has streamed of this request, None before it
  readers,  \* the collectors that have subscribed
  incoming, \* per collector: frames to handle, [chunk |-> i] or [report |-> r]
  hpc, hcopy, \* per collector: the report it handles, the entry it read
  jpc, jchunk, juri,  \* per job: its chunk, and whether its copy knew the place
  retries, faults, reports,
  orderly,  \* history: no chunk was dropped, or handled beside another writer
  lost,     \* history: a chunk found a full buffer, or no collector
  twice,    \* history: a chunk was handled that more than one collector handles
  writeFailed, \* history: a chunk could not be written
  confirmed \* history: the server said itself that the transfer is complete

jobVars == <<jpc, jchunk, juri>>
handlerVars == <<readers, hpc, hcopy>>
bounds == <<retries, faults, reports>>
history == <<orderly, lost, twice, writeFailed, confirmed>>
vars == <<entry, pc, file, streamed, incoming, handlerVars, jobVars, bounds, history>>

Init ==
  /\ entry = None /\ pc = "idle" /\ file = <<>>
  /\ streamed = None /\ readers = {} /\ incoming = [c \in Collectors |-> <<>>]
  /\ jpc = [j \in Jobs |-> "idle"]
  /\ jchunk = [j \in Jobs |-> None]
  /\ juri = [j \in Jobs |-> FALSE]
  /\ hpc = [c \in Collectors |-> None] /\ hcopy = [c \in Collectors |-> None]
  /\ retries = 0 /\ faults = 0 /\ reports = 0
  /\ orderly = TRUE /\ lost = FALSE /\ twice = FALSE /\ writeFailed = FALSE /\ confirmed = FALSE
-----------------------------------------------------------------------------
(* The caller                                                               *)

\* By a caller that has the metadata: for want of them it changes nothing, since
\* fetchFileMetadata() always returns null.
downloadFile ==
  /\ pc = "idle"
  /\ entry' = [status |-> "PENDING", uri |-> FALSE]
  /\ pc' = "start"
  /\ UNCHANGED <<file, streamed, incoming, handlerVars, jobVars, bounds, history>>

Start ==
  /\ pc = "start"
  /\ entry' = [status |-> "DOWNLOADING", uri |-> FALSE]
  /\ pc' = "request"
  /\ UNCHANGED <<file, streamed, incoming, handlerVars, jobVars, bounds, history>>

SendRequest ==
  /\ pc = "request"
  /\ streamed' = 0
  /\ pc' = "uri"
  /\ UNCHANGED <<entry, file, incoming, handlerVars, jobVars, bounds, history>>

\* A copy of the PENDING object again.
SetUri ==
  /\ pc = "uri"
  /\ entry' = [status |-> "PENDING", uri |-> TRUE]
  /\ pc' = "done"
  /\ UNCHANGED <<file, streamed, incoming, handlerVars, jobVars, bounds, history>>

\* No place for the file: nothing is requested.
StartFails ==
  /\ faults < MaxFaults
  /\ pc = "request"
  /\ faults' = faults + 1
  /\ entry' = [status |-> "FAILED", uri |-> FALSE]
  /\ pc' = "done"
  /\ UNCHANGED <<file, streamed, incoming, handlerVars, jobVars, retries, reports, history>>

\* downloadFile once more: the same file ID, and so the same local file.
Retry ==
  /\ retries + reports < MaxExtras
  /\ pc = "done" /\ entry # None /\ entry.status = "FAILED"
  /\ retries' = retries + 1
  /\ entry' = [status |-> "PENDING", uri |-> FALSE]
  /\ pc' = "start"
  /\ UNCHANGED <<file, streamed, incoming, handlerVars, jobVars, faults, reports, history>>

cancelTransfer ==
  /\ entry # None /\ entry.status # "CANCELLED"
  /\ entry' = [entry EXCEPT !.status = "CANCELLED"]
  /\ UNCHANGED <<pc, file, streamed, incoming, handlerVars, jobVars, bounds, history>>

\* What a job or the collector writes later is an entry again.
clearCompletedTransfers ==
  /\ entry # None /\ entry.status \in Terminal
  /\ entry' = None
  /\ UNCHANGED <<pc, file, streamed, incoming, handlerVars, jobVars, bounds, history>>
-----------------------------------------------------------------------------
(* The server: its chunks may come before the sender of the request goes on. *)

Room == \A c \in readers : Len(incoming[c]) < Buffer

\* tryEmit: all collectors get the frame, or none.
Emit(frame) ==
  incoming' = [c \in Collectors |-> IF c \in readers /\ Room THEN Append(incoming[c], frame)
                                                             ELSE incoming[c]]

Stream ==
  /\ streamed # None /\ streamed < Chunks
  /\ streamed' = streamed + 1
  /\ Emit([chunk |-> streamed + 1])
  /\ lost' = (lost \/ readers = {} \/ ~Room)
  /\ UNCHANGED <<entry, pc, file, handlerVars, jobVars, bounds, orderly, twice, writeFailed, confirmed>>

\* "Upload/download progress", "Transfer complete" (ircord.proto).
ServerReports(r) ==
  /\ retries + reports < MaxExtras
  /\ streamed # None /\ (r = "complete" => streamed = Chunks)
  /\ reports' = reports + 1
  /\ Emit([report |-> r])
  /\ UNCHANGED <<entry, pc, file, streamed, handlerVars, jobVars, retries, faults, history>>

ServerFails ==
  /\ faults < MaxFaults
  /\ streamed # None
  /\ faults' = faults + 1
  /\ streamed' = None
  /\ Emit([report |-> "error"])
  /\ UNCHANGED <<entry, pc, file, handlerVars, jobVars, retries, reports, history>>

\* What was received before is handled still.
LinkDown ==
  /\ faults < MaxFaults
  /\ faults' = faults + 1
  /\ streamed' = None
  /\ UNCHANGED <<entry, pc, file, incoming, handlerVars, jobVars, retries, reports, history>>
-----------------------------------------------------------------------------
(* The frames: each collector ignores those without an entry                *)

\* start() is called by every ChatViewModel that is made.
Subscribe(c) ==
  /\ c \notin readers
  /\ readers' = readers \cup {c}
  /\ UNCHANGED <<entry, pc, file, streamed, incoming, hpc, hcopy, jobVars, bounds, history>>

Collects(c) == /\ hpc[c] = None /\ incoming[c] # <<>>
               /\ incoming' = [incoming EXCEPT ![c] = Tail(@)]
IsChunk(c) == "chunk" \in DOMAIN Head(incoming[c])
Busy == (\E c \in Collectors : hpc[c] # None) \/ (\E j \in Jobs : jpc[j] # "idle")

Ignore(c) ==
  /\ Collects(c) /\ entry = None
  /\ orderly' = FALSE
  /\ UNCHANGED <<entry, pc, file, streamed, handlerVars, jobVars, bounds, lost, twice, writeFailed,
                 confirmed>>

handleFileChunk(c, j) ==
  /\ Collects(c) /\ IsChunk(c) /\ entry # None
  /\ jpc[j] = "idle"
  /\ jpc' = [jpc EXCEPT ![j] = "write"]
  /\ jchunk' = [jchunk EXCEPT ![j] = Head(incoming[c]).chunk]
  /\ juri' = [juri EXCEPT ![j] = entry.uri]
  /\ orderly' = (orderly /\ ~Busy)
  /\ twice' = (twice \/ readers # {c})
  /\ UNCHANGED <<entry, pc, file, streamed, handlerVars, bounds, lost, writeFailed, confirmed>>

\* handleFileProgress, handleFileComplete, handleFileError read the entry ...
HandleRead(c) ==
  /\ Collects(c) /\ ~IsChunk(c) /\ entry # None
  /\ hpc' = [hpc EXCEPT ![c] = Head(incoming[c]).report]
  /\ hcopy' = [hcopy EXCEPT ![c] = entry]
  /\ orderly' = (orderly /\ ~Busy)
  /\ UNCHANGED <<entry, pc, file, streamed, readers, jobVars, bounds, lost, twice, writeFailed, confirmed>>

\* Mutant of Answered: the status is the name of the frame.
AnsweredByName(c) == hpc[c]

\* ... and write a copy of it. Progress leaves the status of the copy.
Answered(c) == CASE hpc[c] = "progress" -> hcopy[c].status
                 [] hpc[c] = "complete" -> "COMPLETED"
                 [] hpc[c] = "error"    -> "FAILED"

HandleWrite(c) ==
  /\ hpc[c] # None
  /\ entry' = [hcopy[c] EXCEPT !.status = Answered(c)]
  /\ confirmed' = (confirmed \/ hpc[c] = "complete")
  /\ hpc' = [hpc EXCEPT ![c] = None] /\ hcopy' = [hcopy EXCEPT ![c] = None]
  /\ UNCHANGED <<pc, file, streamed, incoming, readers, jobVars, bounds, orderly, lost, twice, writeFailed>>

JobEnds(j) == /\ jpc' = [jpc EXCEPT ![j] = "idle"]
              /\ jchunk' = [jchunk EXCEPT ![j] = None]
              /\ juri' = [juri EXCEPT ![j] = FALSE]

\* A copy without the place of the file: return@launch.
Drop(j) ==
  /\ jpc[j] = "write" /\ ~juri[j]
  /\ JobEnds(j)
  /\ orderly' = FALSE
  /\ UNCHANGED <<entry, pc, file, streamed, incoming, handlerVars, bounds, lost, twice, writeFailed,
                 confirmed>>

\* Mutant of AppendChunk: the file is opened without the append flag.
AppendChunkTruncates(j) ==
  /\ jpc[j] = "write" /\ juri[j]
  /\ file' = <<jchunk[j]>>
  /\ jpc' = [jpc EXCEPT ![j] = "update"]
  /\ UNCHANGED <<entry, pc, streamed, incoming, handlerVars, jchunk, juri, bounds, history>>

AppendChunk(j) ==
  /\ jpc[j] = "write" /\ juri[j]
  /\ file' = Append(file, jchunk[j])
  /\ jpc' = [jpc EXCEPT ![j] = "update"]
  /\ UNCHANGED <<entry, pc, streamed, incoming, handlerVars, jchunk, juri, bounds, history>>

WriteFails(j) ==
  /\ faults < MaxFaults
  /\ jpc[j] = "write" /\ juri[j]
  /\ faults' = faults + 1 /\ writeFailed' = TRUE
  /\ entry' = [status |-> "FAILED", uri |-> TRUE]
  /\ JobEnds(j)
  /\ UNCHANGED <<pc, file, streamed, incoming, handlerVars, retries, reports, orderly, lost, twice,
                 confirmed>>

Written(j, status) ==
  /\ jpc[j] = "update"
  /\ entry' = [status |-> status, uri |-> TRUE]
  /\ JobEnds(j)
  /\ UNCHANGED <<pc, file, streamed, incoming, handlerVars, bounds, history>>

\* Mutant of Update: the number of the chunk is compared with the size.
UpdateNeverLast(j) == Written(j, IF jchunk[j] > Chunks THEN "COMPLETED" ELSE "DOWNLOADING")

\* Mutant of Update: complete one chunk too early.
UpdateEarly(j) == Written(j, IF jchunk[j] + 1 >= Chunks THEN "COMPLETED" ELSE "DOWNLOADING")

\* is_last completes the transfer.
Update(j) == Written(j, IF jchunk[j] = Chunks THEN "COMPLETED" ELSE "DOWNLOADING")
-----------------------------------------------------------------------------
Caller == Start \/ SendRequest \/ SetUri
JobStep(j) == Drop(j) \/ AppendChunk(j) \/ Update(j)
Dispatch(c) == \/ Ignore(c) \/ HandleRead(c) \/ HandleWrite(c)
               \/ \E j \in Jobs : handleFileChunk(c, j)

Next == \/ downloadFile \/ Caller \/ StartFails \/ Retry \/ cancelTransfer \/ clearCompletedTransfers
        \/ Stream \/ ServerReports("progress") \/ ServerReports("complete")
        \/ ServerFails \/ LinkDown
        \/ \E c \in Collectors : Subscribe(c) \/ Dispatch(c)
        \/ \E j \in Jobs : JobStep(j) \/ WriteFails(j)

Spec == Init /\ [][Next]_vars

\* The caller, the jobs, the collectors and the server run.
FairSpec == /\ Spec
            /\ WF_vars(Caller) /\ WF_vars(Stream)
            /\ \A c \in Collectors : WF_vars(Dispatch(c))
            /\ \A j \in Jobs : WF_vars(JobStep(j))
-----------------------------------------------------------------------------
Entries == [status : Statuses, uri : BOOLEAN]

\* The types of the variables: a copy of the entry is as complete as the entry.
TypeOK ==
  /\ entry = None \/ entry \in Entries
  /\ pc \in {"idle", "start", "request", "uri", "done"}
  /\ file \in Seq(1..Chunks)
  /\ streamed = None \/ streamed \in 0..Chunks
  /\ readers \subseteq Collectors
  /\ incoming \in [Collectors -> Seq([chunk : 1..Chunks] \cup [report : Reports])]
  /\ hpc \in [Collectors -> Reports \cup {None}]
  /\ DOMAIN hcopy = Collectors /\ \A c \in Collectors : hcopy[c] = None \/ hcopy[c] \in Entries
  /\ jpc \in [Jobs -> {"idle", "write", "update"}]
  /\ \A j \in Jobs : jchunk[j] = None \/ jchunk[j] \in 1..Chunks
  /\ juri \in [Jobs -> BOOLEAN]
  /\ {orderly, lost, twice, writeFailed, confirmed} \subseteq BOOLEAN
  /\ retries \in 0..MaxExtras /\ faults \in 0..MaxFaults /\ reports \in 0..MaxExtras

Completed == entry # None /\ entry.status = "COMPLETED"

\* Nothing has happened that makes a chunk be missed, overtaken or doubled.
Undisturbed == orderly /\ ~lost /\ ~twice /\ retries = 0 /\ ~writeFailed

\* The local file is a beginning of the file: no chunk is missing, none is
\* there twice, and none before its turn, whatever is cancelled, reported or
\* fails, as long as every chunk was delivered, to one collector, which had
\* nothing else in hand.
FileIsPrefix == Undisturbed => \A i \in DOMAIN file : file[i] = i

\* Whatever fails, is retried, reported or overtaken: a download is not completed
\* before the end of the file has been written, unless by the server's own word
\* (handleFileComplete looks at no file). With FileIsPrefix: an undisturbed one is
\* the whole file ("Transfer finished successfully").
CompletedHasEnd == Completed /\ ~confirmed => \E i \in DOMAIN file : file[i] = Chunks

\* An answered request ends, be there one collector or more, unless something
\* fails, a chunk is lost to a full buffer, or one is dropped or overtaken by
\* another writer.
DownloadEnds ==
  (pc = "start") ~> Completed \/ faults > 0 \/ lost \/ ~orderly
=============================================================================
