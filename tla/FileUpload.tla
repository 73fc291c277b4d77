----------------------------- MODULE FileUpload -----------------------------
(***************************************************************************)
(* The upload of one file: uploadFile and uploadFileInternal of            *)
(* FileRepository.kt, the handlers of the server's answers, the user's     *)
(* cancelTransfer and clearCompletedTransfers, and the list that           *)
(* ChatViewModel shows.                                                    *)
(*                                                                         *)
(* Several threads write the entry of activeTransfers, each from a copy of *)
(* its own: the upload loop from the PENDING object it was started with,   *)
(* the frame collectors from what they read, and the main thread. Every    *)
(* call of start() adds a collector, and each of them handles every frame  *)
(* of the server. The loop is over before uploadFile returns the transfer  *)
(* to the screen. The server is external: it may answer what it has        *)
(* received in any way.                                                    *)
(*                                                                         *)
(* The coroutine belongs to the screen, but nothing in the loop suspends:  *)
(* of a screen that is closed meanwhile the loop learns at its end, when   *)
(* withContext does not return to it any more.                             *)
(***************************************************************************)
EXTENDS Naturals, Sequences

CONSTANTS
  None,
  Collectors,           \* of frames (bound: calls of start())
  FileSize, ChunkSize,  \* in units of some bytes
  MaxPayload,           \* what fits in a frame beside the fields of a chunk
  MaxUpdates,           \* extraBufferCapacity of transferUpdates
  MaxFaults,            \* bound: failed sends and failed reads
  MaxReplies            \* bound: frames the server sends

ASSUME SizesAssumption == /\ FileSize \in Nat /\ ChunkSize \in Nat \ {0}
                          /\ MaxPayload \in Nat /\ MaxPayload < ChunkSize
ASSUME BoundsAssumption == MaxUpdates \in Nat /\ MaxFaults \in Nat /\ MaxReplies \in Nat

Statuses == {"PENDING", "UPLOADING", "COMPLETED", "FAILED", "CANCELLED"}
Terminal == {"COMPLETED", "FAILED", "CANCELLED"}
Replies == {"progress", "complete", "error"}
ASSUME NoneAssumption == None \notin Statuses \cup Replies

VARIABLES
  entry,      \* status in activeTransfers, None without an entry
  updates,    \* transferUpdates, what the screen has not collected yet
  open,       \* the screen that started the upload is open
  listed,     \* status in the list of that screen, None while not in it
  pc,         \* the upload loop
  pos, n,     \* bytes read so far, and by the last read()
  index,      \* chunkIndex
  server,     \* the chunks the server received
  replied,    \* how many frames it has sent
  readers,    \* the collectors that have subscribed
  replies,    \* per collector: the frames it has not yet handled
  hpc, hcopy, \* per collector: the frame it handles, the entry it read
  overtaken,  \* history: completed while a collector held an unfinished copy
  refused,    \* whether a chunk did not fit into a frame
  faults

loopVars == <<pc, pos, n, index>>
netVars == <<server, replies, replied>>
handlerVars == <<readers, hpc, hcopy, overtaken>>
vars == <<entry, updates, open, listed, loopVars, netVars, handlerVars, refused, faults>>

Init ==
  /\ entry = None /\ updates = <<>> /\ open = TRUE /\ listed = None
  /\ pc = "idle" /\ pos = 0 /\ n = 0 /\ index = 0
  /\ server = <<>> /\ replied = 0
  /\ readers = {} /\ replies = [c \in Collectors |-> <<>>]
  /\ hpc = [c \in Collectors |-> None] /\ hcopy = [c \in Collectors |-> None]
  /\ overtaken = FALSE
  /\ refused = FALSE /\ faults = 0

\* The map takes whatever comes; tryEmit drops the update if the buffer is full,
\* and it goes nowhere when there is nobody to collect it.
updateTransfer(s) ==
  /\ entry' = s
  /\ updates' = IF open /\ Len(updates) < MaxUpdates THEN Append(updates, s) ELSE updates
-----------------------------------------------------------------------------
(* The upload loop                                                          *)

uploadFile ==
  /\ open
  /\ pc = "idle"
  /\ entry' = "PENDING"
  /\ pc' = "start"
  /\ UNCHANGED <<open, updates, listed, pos, n, index, netVars, handlerVars, refused, faults>>

Start ==
  /\ pc = "start"
  /\ updateTransfer("UPLOADING")
  /\ pc' = "request"
  /\ UNCHANGED <<open, listed, pos, n, index, netVars, handlerVars, refused, faults>>

\* The result of sendFileUploadRequest is not looked at.
SendRequest ==
  /\ pc = "request"
  /\ pc' = "read"
  /\ UNCHANGED <<open, entry, updates, listed, pos, n, index, netVars, handlerVars, refused, faults>>

Available == IF FileSize - pos < ChunkSize THEN FileSize - pos ELSE ChunkSize

\* read() may return less than it could.
Read ==
  /\ pc = "read"
  /\ IF Available = 0
     THEN pc' = "return" /\ UNCHANGED <<pos, n>>
     ELSE \E k \in 1..Available :
            n' = k /\ pos' = pos + k /\ pc' = "check"
  /\ UNCHANGED <<open, entry, updates, listed, index, netVars, handlerVars, refused, faults>>

ReadFails ==
  /\ faults < MaxFaults
  /\ pc = "read"
  /\ faults' = faults + 1
  /\ pc' = "fail"
  /\ UNCHANGED <<open, entry, updates, listed, pos, n, index, netVars, handlerVars, refused>>

\* Mutant of CheckCancelled: a cancelled upload waits instead of ending.
CheckCancelledWaits ==
  /\ pc = "check"
  /\ pc' = IF entry = "CANCELLED" THEN "check" ELSE "send"
  /\ UNCHANGED <<open, entry, updates, listed, pos, n, index, netVars, handlerVars, refused, faults>>

CheckCancelled ==
  /\ pc = "check"
  /\ pc' = IF entry = "CANCELLED" THEN "return" ELSE "send"
  /\ UNCHANGED <<open, entry, updates, listed, pos, n, index, netVars, handlerVars, refused, faults>>

chunk == [index |-> index, size |-> n, last |-> n < ChunkSize, end |-> pos]

\* FrameCodec.encode throws when the chunk does not fit.
SendChunk ==
  /\ pc = "send"
  /\ index' = index + 1
  /\ IF n <= MaxPayload
     THEN server' = Append(server, chunk) /\ pc' = "progress" /\ UNCHANGED refused
     ELSE refused' = TRUE /\ pc' = "fail" /\ UNCHANGED server
  /\ UNCHANGED <<open, entry, updates, listed, pos, n, replies, replied, handlerVars, faults>>

\* Mutant of SendInVain: only what was sent is counted.
SendInVainUncounted ==
  /\ faults < MaxFaults
  /\ pc = "send"
  /\ faults' = faults + 1
  /\ pc' = "progress"
  /\ UNCHANGED <<open, entry, updates, listed, pos, n, index, netVars, handlerVars, refused>>

\* Without a connection send() returns false, and the loop goes on.
SendInVain ==
  /\ faults < MaxFaults
  /\ pc = "send"
  /\ faults' = faults + 1
  /\ index' = index + 1
  /\ pc' = "progress"
  /\ UNCHANGED <<open, entry, updates, listed, pos, n, netVars, handlerVars, refused>>

\* A copy of the object the loop was started with, which is PENDING.
Progress ==
  /\ pc = "progress"
  /\ updateTransfer("PENDING")
  /\ pc' = "read"
  /\ UNCHANGED <<open, listed, pos, n, index, netVars, handlerVars, refused, faults>>

\* Mutant of Fail: the exception is logged only.
FailQuietly ==
  /\ pc = "fail"
  /\ pc' = "return"
  /\ UNCHANGED <<open, entry, updates, listed, pos, n, index, netVars, handlerVars, refused, faults>>

Fail ==
  /\ pc = "fail"
  /\ updateTransfer("FAILED")
  /\ pc' = "return"
  /\ UNCHANGED <<open, listed, pos, n, index, netVars, handlerVars, refused, faults>>

\* onSuccess: the PENDING object joins the list, if there still is one.
Return ==
  /\ pc = "return"
  /\ listed' = IF open THEN "PENDING" ELSE None
  /\ pc' = "done"
  /\ UNCHANGED <<open, entry, updates, pos, n, index, netVars, handlerVars, refused, faults>>
-----------------------------------------------------------------------------
(* The server's answers, the screen, the user                               *)

\* start() is called again by every ChatViewModel that is made.
Subscribe(c) ==
  /\ c \notin readers
  /\ readers' = readers \cup {c}
  /\ UNCHANGED <<open, entry, updates, listed, loopVars, netVars, hpc, hcopy, overtaken, refused, faults>>

\* External. The upload is complete for the server when it has the last byte.
ServerReplies ==
  /\ replied < MaxReplies
  /\ server # <<>>
  /\ \E r \in Replies :
       /\ r = "complete" => server[Len(server)].end = FileSize
       /\ replies' = [c \in Collectors |-> IF c \in readers THEN Append(replies[c], r)
                                                            ELSE replies[c]]
  /\ replied' = replied + 1
  /\ UNCHANGED <<open, entry, updates, listed, loopVars, server, handlerVars, refused, faults>>

\* handleFileProgress, handleFileComplete, handleFileError: read the entry ...
HandleRead(c) ==
  /\ hpc[c] = None /\ replies[c] # <<>>
  /\ replies' = [replies EXCEPT ![c] = Tail(@)]
  /\ IF entry = None THEN UNCHANGED <<hpc, hcopy>>
     ELSE /\ hpc' = [hpc EXCEPT ![c] = Head(replies[c])]
          /\ hcopy' = [hcopy EXCEPT ![c] = entry]
  /\ UNCHANGED <<open, entry, updates, listed, loopVars, server, replied, readers, overtaken,
                 refused, faults>>

\* Mutant of Answered: progress means that the upload is running.
AnsweredUploading(c) == CASE hpc[c] = "progress" -> "UPLOADING"
                          [] hpc[c] = "complete" -> "COMPLETED"
                          [] hpc[c] = "error"    -> "FAILED"

\* Mutant of Answered: a server that is done is told by the status of the frame.
AnsweredByName(c) == hpc[c]

\* ... and write a copy of it.
Answered(c) == CASE hpc[c] = "progress" -> hcopy[c]
                 [] hpc[c] = "complete" -> "COMPLETED"
                 [] hpc[c] = "error"    -> "FAILED"

\* A progress frame that d handles will undo what is written now.
Overtakes(d) == hpc[d] = "progress" /\ hcopy[d] \notin Terminal

HandleWrite(c) ==
  /\ hpc[c] # None
  /\ updateTransfer(Answered(c))
  /\ overtaken' = (overtaken \/ (Answered(c) = "COMPLETED" /\ \E d \in Collectors : Overtakes(d)))
  /\ hpc' = [hpc EXCEPT ![c] = None] /\ hcopy' = [hcopy EXCEPT ![c] = None]
  /\ UNCHANGED <<open, listed, loopVars, netVars, readers, refused, faults>>

\* The screen knows only the transfers in its list.
Collect ==
  /\ updates # <<>>
  /\ updates' = Tail(updates)
  /\ listed' = IF listed = None THEN None ELSE Head(updates)
  /\ UNCHANGED <<open, entry, loopVars, netVars, handlerVars, refused, faults>>

\* viewModelScope ends with the screen, its list and its collector. A screen
\* opened later has a list of its own, where this upload never is.
CloseScreen ==
  /\ open
  /\ open' = FALSE
  /\ updates' = <<>> /\ listed' = None
  /\ UNCHANGED <<entry, loopVars, netVars, handlerVars, refused, faults>>

cancelTransfer ==
  /\ entry # None /\ entry # "CANCELLED"
  /\ updateTransfer("CANCELLED")
  /\ UNCHANGED <<open, listed, loopVars, netVars, handlerVars, refused, faults>>

clearCompletedTransfers ==
  /\ entry \in Terminal \/ listed \in Terminal
  /\ entry' = IF entry \in Terminal THEN None ELSE entry
  /\ listed' = IF listed \in Terminal THEN None ELSE listed
  /\ UNCHANGED <<open, updates, loopVars, netVars, handlerVars, refused, faults>>
-----------------------------------------------------------------------------
Loop == \/ Start \/ SendRequest \/ Read \/ CheckCancelled \/ SendChunk
        \/ Progress \/ Fail \/ Return
Handle(c) == HandleRead(c) \/ HandleWrite(c)

Next == \/ uploadFile \/ Loop \/ ReadFails \/ SendInVain
        \/ ServerReplies \/ \E c \in Collectors : Subscribe(c) \/ Handle(c)
        \/ Collect \/ CloseScreen \/ cancelTransfer \/ clearCompletedTransfers

Spec == Init /\ [][Next]_vars

\* The loop, the collectors and the server run; the user and faults are free.
FairSpec == /\ Spec /\ WF_vars(Loop) /\ WF_vars(Collect)
            /\ \A c \in Collectors : WF_vars(Handle(c))
-----------------------------------------------------------------------------
\* The types of the variables; a buffer of updates and a chunk have their limits.
TypeOK ==
  /\ entry \in Statuses \cup {None}
  /\ updates \in Seq(Statuses) /\ Len(updates) <= MaxUpdates
  /\ open \in BOOLEAN /\ listed \in Statuses \cup {None}
  /\ pc \in {"idle", "start", "request", "read", "check", "send", "progress",
             "fail", "return", "done"}
  /\ pos \in 0..FileSize /\ n \in 0..ChunkSize /\ index \in 0..FileSize
  /\ server \in Seq([index : Nat, size : 1..ChunkSize, last : BOOLEAN, end : 1..FileSize])
  /\ readers \subseteq Collectors
  /\ replies \in [Collectors -> Seq(Replies)] /\ replied \in 0..MaxReplies
  /\ hpc \in [Collectors -> Replies \cup {None}] /\ hcopy \in [Collectors -> Statuses \cup {None}]
  /\ overtaken \in BOOLEAN
  /\ refused \in BOOLEAN /\ faults \in 0..MaxFaults

\* The loop takes no end of turns: it is over whatever read() returns, and
\* whatever the user, the server and the network do meanwhile; also when the
\* screen it belongs to is closed.
UploadEnds == (pc = "start") ~> (pc = "done")

\* The server can tell a gap from the end: chunks carry consecutive numbers as
\* long as none is lost, and a number that is missing is a chunk that is missing.
GapsShow ==
  \A i \in DOMAIN server :
    LET before == IF i = 1 THEN [index |-> 0, end |-> 0]
                  ELSE [index |-> server[i - 1].index + 1, end |-> server[i - 1].end]
    IN  (server[i].index = before.index) <=> (server[i].end - server[i].size = before.end)

\* A refused chunk ends the upload, and no thread but the server's or the
\* user's can make it look like anything but a failure.
RefusalIsFailure ==
  (refused /\ pc \in {"return", "done"} /\ replied = 0)
    => entry \in {"FAILED", "CANCELLED", None}

\* Once the loop is over, what the server completed does not look unfinished
\* again, although progress frames are answered from a copy of the entry. The
\* one exception: a collector still held a copy from before the completion, which
\* another collector handled meanwhile; one collector alone cannot.
CompletedIsKept ==
  [][(pc = "done" /\ entry = "COMPLETED" /\ ~overtaken) => entry' \in Terminal \cup {None}]_vars
=============================================================================
