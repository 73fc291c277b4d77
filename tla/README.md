# A formal model of the IRCord Android client

This directory holds TLA+ modules that model the core of the client under
`src/app/src/main`, TLC configurations that check them on small instances, and
proofs that TLAPS checks for every value of the constants. `PROJECT.json` lists
the components, the runs, the mutants that show a property can fail, the lines
each definition translates, the hazards of the code and the theorems.

Every definition is translated from the code; where the code and a comment or a
document disagree, the model follows the code and the section "Known deviations"
says so. Names of operators are those of the functions they model, or name the
step of a function that is taken between two accesses of shared state.

## 1. Inventory

Paths are relative to `src/app/src/main/java/fi/ircord/android` (Kotlin) and
`src/app/src/main/cpp` (C++).

| Component | Code | State it keeps | Operations |
|---|---|---|---|
| Transport | `data/remote/IrcordSocket.kt`, `ReconnectPolicy.kt` | connection state, socket, output stream, host, `shouldReconnect`, attempts | connect, disconnect, send, read loop, handleDisconnect, retry timer |
| Session | `data/remote/IrcordConnectionManager.kt` | `authState`, collectors of frames | start, sendHello, challenge, AUTH_OK, AUTH_FAIL, dispatch, sendChat, commands |
| Direct messages | same, `crypto/crypto_engine.cpp` | `pendingSends`, sessions of libsignal | sendDmMessage, handleKeyBundle, encrypt, decrypt, onKeyBundle |
| Group messages | same, `crypto/group_session.cpp` | sender-key records (memory and disk), `group_sessions_initialized_` | sendChannelMessage, encryptGroup, decryptGroup, distribution messages (SKDM) |
| File transfer | `data/repository/FileRepository.kt`, `domain/model/FileTransfer.kt`, `ui/screen/chat/ChatViewModel.kt`, `ui/screen/filetransfer` | a map of transfers, an event flow, local files, lists of the screens | upload, download, cancel, retry, clear, frames of the server |
| Voice | `voice/voice_engine.cpp`, `data/repository/VoiceRepository.kt`, `ndk/NativeVoice.kt` | room, peer, call state, connections, audio device | join, leave, call, accept, decline, hang up, signals |
| Key store | `crypto/crypto_engine.cpp`, `crypto/NativeStore.kt`, `ui/screen/auth/SetupViewModel.kt` | identity, pre-keys, signed key (memory and disk), next id | nativeInit, prepareKeyUpload, signChallenge, first screen |
| Peer trust | `NativeStore.kt`, `KeyRepository.kt`, `SafetyNumberViewModel.kt` | peer identities and their trust | save, verify |
| Channel members | `data/repository/ChannelMemberRepository.kt` | a table of Room | sync of NAMES |
| Link previews | `data/repository/LinkPreviewRepository.kt`, `ChatViewModel.kt` | a table of Room, previews of each screen | fetch, cache with expiry |
| Push tokens | `fcm`, `NotificationSettingsViewModel.kt` | the stored token, `tokenState` | refresh, register, delete, topics |
| Local database | `security/database/DatabaseEncryptionManager.kt`, `data/local` | the key (memory and disk), the file and its version | get or create the key, open, migrate |
| Biometric gate, pins | `security` | preferences | prompts, pins |
| Wire format | `FrameCodec.kt`, `ProtobufExt.kt`, `ircord.proto` | none | framing, parsing |
| Screens, theme, services, DI, preferences | `ui`, `service`, `di`, `data/local` | what is shown | presentation |

How they interact. Screens call the repositories and the connection manager;
the connection manager calls the transport and, through JNI, the crypto engine,
and is called by the transport's flows; the crypto engine calls back into
`NativeStore`. There is no lock in the Kotlin code and none in the crypto engine:
coroutines on `Dispatchers.IO` and `Dispatchers.Default` run at once and share
the fields above. That makes interleavings the main difficulty; the others are
lost connections and retries, writes that reach the disk after `apply()` has
returned, frames handled by a coroutine each, and signals that come when nobody
waits for them.

What makes each correct is said with its module below. All hazards, with their
lines, are in `PROJECT.json`.

## 2. Modules

| Module | Models | State and actions |
|---|---|---|
| `IrcordSocket` | Transport | Fields of the class as variables; threads of the pool as `Tasks` with a program counter, the UI thread apart. An action is the code between two accesses of shared fields; `connect()` is `ConnectCheck`, `ConnectArm`, ... , `ConnectUp`. The dial of the settings screen waits in `queued` for a thread; until one takes it, leaving the screen cancels it (`Cancelled`). |
| `Session` | Session | `watcher` and `handler` are the two coroutines of each `start()`; frames travel in `sent` and `reply`; the server is an automaton of its session and external. A handler is `launched` before it subscribes; a frame goes to the buffers of those that have, or to none when one is full (`Emit`). `LinkUp` and `LinkDown` are what the session sees of the transport. |
| `DirectMessages` | Direct messages | Coroutines (`Tasks`) run `sendDmMessage` and `handleKeyBundle` in the steps `Queue`, `RequestKeys`, `Flush`, `SendCiphertext`; `UselessBundle` is what `handleKeyBundle` does when it returns early or catches, `ServerRefuses` an error in the place of a bundle, `SecondCollector` the frame of a bundle handled once more. |
| `GroupMessages` | Group messages | Sending coroutines, a reading coroutine for each message (`handleIncomingChat`) and once more for each when there is a second collector (`handleAgain`), and the records they load and store, in memory and on disk; `Crash` rolls back to the disk. |
| `ReliableChannel` | abstract | What a channel promises: until a disturbance messages are shown in the order of the log, each once. `GroupMessages` implements it through `Ids`; the disturbance is that two reading coroutines overlap (`InOrder`). |
| `FileUpload` | Upload | The loop of `uploadFileInternal`, the handlers of the answers, one in each collector of frames, the list of the screen, which may be closed and opened again. |
| `FileDownload` | Download | The request, its retries, the place of the file, and the coroutine of each frame: of a chunk (`Dispatch`, `AppendChunk`, `Update`) and of a report of the server, which reads the transfer in one step and replaces it in another. Each collector has a buffer of frames and dispatches all of them. |
| `VoiceCalls` | Voice | The record `engine` holds the fields of `VoiceEngine`, `view` what the screen keeps; one action per operation and per kind of signal. |
| `KeyStore` | Key store | `mem` and `disk` hold the preferences, `job` the uploads under way, `server` what is published; keys are numbers of preparations. `starter` is where each call of `start()` is, as several may pass the test of `cryptoInitialized` and initialize the engine. |
| `ChannelScreens` | Joining channels | `stack` holds the open screens, `slot` whose `onCommandResponse` is called; each JOIN is a `request` that goes from the dialog through the wire to the row in the table, or gets no answer (`Unanswered`). |
| `MemberList` | Channel members | The two transactions of `syncMemberList`, for several answers at once; a closed screen cancels them. |
| `PeerTrust` | Peer trust | The check (`IsTrusted`) and the save (`savePeerIdentity`) of the key of a message, and the mark of the user. |
| `PushTokens` | Push tokens | `job` holds what each coroutine of the screen and of the messaging service does; closing the screen cancels its own, and `catch (e: Exception)` goes on from there. |
| `LinkPreviews` | Link previews | `row` is the row of one link, `fetch` the calls of `getLinkPreview()`; a screen asks again whenever its flow emits (`Combine`). |
| `LocalDatabase` | Local database | `prefs` and `disk` hold the saved key, `master` the key of the Keystore it is encrypted with, `file` the database; a schema is what the migrations add to it. |
| `Parts` | the product of the small parts | `VoiceCalls`, `ChannelScreens`, `MemberList`, `PeerTrust`, `PushTokens`, `LinkPreviews` and `LocalDatabase`, which share no variable; `part` says which of them moves. |
| `MC...` | | Instances for TLC and symmetry sets. |
| `..._proofs` | | Theorems and lemmas. |

### Transport
Correct means: `CONNECTING` is ended by somebody, unless the call that set it was
cancelled before its dial began (`DialIsOwned`; `abandoned` is the history of that), a lost connection is retried (`RetryIsPlanned`, `Recovers`), and a
client that was told to stop stays stopped (`StopIsFinal`). The first is what
`connect()` relies on when it refuses to run in any state but `DISCONNECTED`.

### Session
Correct means: on the first connection no key, message or command is sent to a
server that has not authenticated us (`FirstLoginInOrder`; the frames of files are,
as the code sends them without looking at `authState`), the login completes
whatever several `start()` calls do, unless one of its frames came when no collector
had subscribed, or to a full buffer (`FirstLogin`, `missed`), a message is stored at most once by each
collector (`OncePerCollector`), and every connection is logged in
(`HelloOnEveryConnection`, which the code violates).

### Direct messages
Correct means: no message goes out twice (`AtMostOnce`), a message that waits
for keys waits for an answer that will come (`WaitsForAnAnswer`), and goes out
once there is a session (`PendingDrains`). Three things strand it, and nothing else:
a lost connection, an answer that brings no keys (`spoilt`: an error, or a bundle on
which `handleKeyBundle` gives up), and for the second a later message in its slot
(`replaced`).

### Group messages
Correct means: the key of a message precedes it (`KeyBeforeUse`), messages are
read in order, each once (`InOrder`, a refinement), none is unreadable
(`AllRead`); and with losses, several senders and late joins,
only for want of the key (`OnlyForWantOfKey`). The code starts a coroutine for
each message, and nothing orders them: once two have been at work together
(`overlapped`), what is left is that what is shown was sent (`InOrder`) and that
nothing is lost without a word (`AllRead`). A second collector always overlaps, as it
decrypts again.

### Files
Correct means, for uploads: numbers show gaps (`GapsShow`), a chunk that was
refused makes a failed upload (`RefusalIsFailure`), a completed upload stays so
(`CompletedIsKept`; unless one collector writes a copy from before the completion
that another one handled, `overtaken`), the loop ends (`UploadEnds`). For downloads: the local file
is a beginning of the file (`FileIsPrefix`) as long as chunks are handled by one
collector, one by one and after the place is set, none is dropped by a full buffer,
nothing is retried and every write succeeds (`Undisturbed`); in
any case a completed download has its end (`CompletedHasEnd`), unless it is completed
by the word of the server, so that an
undisturbed one is whole, and an answered request ends, unless a chunk was lost or
overtaken (`DownloadEnds`).

### Voice
Correct means: a call has a peer (`CallHasPeer`), and hanging up, or joining a
room, ends it with its connections and the microphone (`CallsEnd`). Answers and
acceptances may come in any state, from anybody. One that comes when nobody is at
the other end makes a call with nobody (`stray`); until that call is over, or somebody
calls, the properties leave it out, and no longer.

### Keys
Correct means: the identity on the disk is the one the server knows unless a
crash undid a save (`SignsAsRegistered`), and published one-time keys have their
private halves in the store (`PublishedIsHeld`), also when two calls of `start()`
prepare at once and save over the signed key of each other. The exception is two
preparations that have read the counter `next_opk_id_` so that they take an id in
common (`crossed`): the private half of one of them is then saved over that of the
other, and the code publishes a key it does not hold.

### The small parts
Screens and members: a dialog that cannot be closed has a command of its own that
is not answered, or whose answer was lost, dropped or an error (`JoiningAwaits`; it then
stays); no member survives the list that replaces it
(`NoStaleMembers`). Trust: a verified peer has the key that was verified
(`VerifiedKeyIsCurrent`), and after the first use no message brings a new one
(`FirstUseOnly`). Push: "Registering" has a coroutine that will end it
(`RegisteringHasOwner`), which cancelled coroutines owe to a `catch` that
catches the cancellation too. Previews: one in the table lasts its day, unless two
calls went to the network at once (`PreviewKept`). Database: the file can be read by
every later process and no update empties it, as long as the Keystore works and
a kill undid no save of the key (`DataKept`); a file of an earlier version opens
(`UpgradeOpens`, which the code violates). These parts, and voice, share no
variable: `Parts` joins them, and `MCParts` explores each alone, in one run.

## 3. Runs and bounds

A run is one configuration, named like its file.

| Run | Instance | Checks |
|---|---|---|
| `socket_safety` | 3 pool threads and the UI, 2 sockets, 2 attempts, TLS, all entry points | `TypeOK`, `DialIsOwned`, `StopIsFinal` |
| `socket_recovers` | 2 pool threads, plain connections, no `disconnect()` | `RetryIsPlanned`, `Recovers` |
| `session_safety` | 2 `start()` calls, a buffer of 1 frame, 1 loss, refusals, errors | `TypeOK`, `FirstLoginInOrder`, `OncePerCollector`, `FirstLogin` |
| `session_hello` | 1 `start()`, 2 losses | `HelloOnEveryConnection`, violated |
| `dm_messages` | 2 peers, 2 messages, 2 coroutines, 1 loss, 1 bundle handled twice, useless answers | `TypeOK`, `AtMostOnce`, `WaitsForAnAnswer`, `PendingDrains` |
| `group_losses` | 3 messages, 2 senders, 1 reader, a second collector, 1 crash, 1 loss, a late join | `TypeOK`, `OnlyForWantOfKey` |
| `group_in_order` | 3 messages, 1 sender, 2 readers, 1 crash | `KeyBeforeUse`, `InOrder`, `AllRead` |
| `upload_loop` | a file of 2 units, read short or whole, 2 collectors, 1 fault, 2 answers, a buffer of 1 update, a screen that closes and opens | `TypeOK`, `GapsShow`, `RefusalIsFailure`, `CompletedIsKept`, `UploadEnds` |
| `download_chunks` | 2 chunks, 2 collectors with a buffer of 1 frame, 2 coroutines, 1 fault (an error of the server, a lost connection, a failed write), 1 report or retry | `TypeOK`, `FileIsPrefix`, `CompletedHasEnd`, `DownloadEnds` |
| `key_store` | 2 uploads per process, 2 `start()` calls, 2 keys each, 1 kill, 1 loss | `TypeOK`, `SignsAsRegistered`, `PublishedIsHeld` |
| `small_parts` | 2 lists, 2 chats, 2 joins, 1 loss; 3 answers to NAMES, 2 users, 2 roles; 3 messages, 2 keys; 2 rooms, 2 peers; 3 coroutines for the token; 2 calls for a preview, 2 screens; 3 processes, 1 failure of the Keystore, every earlier version of the file | `PartsTypeOK`, `JoiningAwaits`, `NoStaleMembers`, `VerifiedKeyIsCurrent`, `FirstUseOnly`, `CallHasPeer`, `CallsEnd`, `RegisteringHasOwner`, `PreviewKept`, `DataKept` |
| `database_upgrade` | 2 processes | `UpgradeOpens`, violated |

Why the bounds are enough to be of use. Races in this code are between two
threads over one field, with a third that changes the field in between; the
transport has three and the UI. Two sockets let an old read loop meet a new
connection. Two messages may be to one peer or to two, so that queues of different
peers, and two messages of one, meet; a bundle that is handled twice while one of them
flushes is what a second collector adds. Three messages let the first, which carries
the key, be followed by two that race; one reader with a second collector decrypts
all of them twice, two readers overtake each other. Two units give a chunk that is
whole and does not fit into a frame, two short ones, and a last one. Two chunks in a
buffer of one, seen by two collectors, are lost, doubled and swapped. Two screens of each kind let an answer reach one that did not ask, open or
closed; three lists of members let two mix after a third. Two keys per upload let a crash fall between them. The bounds on crashes
and losses let each happen before, during and after every other step once.
Bounds of counters are the constants whose names start with `Max`; `Buffer` is
the 64 of the code in small. `MaxAttempts` is no bound of the model but the limit of
`ReconnectPolicy`: the counter itself grows as it does in the code (`attempt++`). What
keeps its values few is the `VIEW` of `MCIrcordSocket`: from the limit on no step and
no property tells two values apart, so that such states are one. The `VIEW` of
`MCFileDownload` leaves out flags of the history that differ in nothing a property
looks at.

`CHECK_DEADLOCK FALSE` is set where the modelled system may come to rest: all
messages sent, all faults used up. The transport never does.

### Fairness
`FairSpec` of a module gives weak fairness to the steps of coroutines that have
begun (a dispatcher runs what is runnable, and each step is finite), to the
connection coming up where the run is about what follows, and to answers of the
server where the property is conditional on it. Users, faults, losses, crashes
and peers that write of their own accord have no fairness. A dial over a plain
connection ends by the 30 s of its `connect()`. The handshake of TLS has no
timeout (`IrcordSocket.kt:119`, `:124`), so a dial with TLS has no fairness
(`MustRun`), and `Recovers` is claimed and checked for plain connections only.

## 4. Proofs

| Theorem | Says |
|---|---|
| `IrcordSocket_proofs!TypeCorrect` | `Spec => []TypeOK` |
| `IrcordSocket_proofs!DialOwned` | `Spec => []DialIsOwned`: a cancelled call is the only way to leave CONNECTING to nobody |
| `IrcordSocket_proofs!ConnectionRead` | `Spec => []ConnectionIsRead`: while the state is CONNECTED, a thread reads or is about to take it back |
| `IrcordSocket_proofs!StopFinal` | `Spec => StopIsFinal` |
| `IrcordSocket_proofs!RetryPlanned` | `Spec => []RetryIsPlanned`, where nobody calls `disconnect()` |
| `DirectMessages_proofs!TypeCorrect`, `SentAtMostOnce`, `NeverStranded` | the three invariants of the module |
| `Session_proofs!TypeCorrect`, `FirstLoginOrdered`, `FirstLoginEnds`, `StoredOnce` | `TypeOK`, `FirstLoginInOrder`, `FirstLogin` and `OncePerCollector`: all but the claim that is false |
| `FileUpload_proofs!TypeCorrect`, `NumbersShowGaps`, `RefusedFails`, `CompletedStays` | `TypeOK`, `GapsShow`, `RefusalIsFailure` and `CompletedIsKept`, for any number of collectors: all but the liveness of uploads |
| `FileUpload_proofs!OvertakenByAnother` | the exception of `CompletedIsKept` takes two collectors |
| `FileDownload_proofs!TypeCorrect`, `PrefixKept`, `CompletedHolds` | `TypeOK`, `FileIsPrefix` and `CompletedHasEnd`: all but the liveness of downloads |
| `KeyStore_proofs!TypeCorrect`, `IdentityStays`, `KeysAreHeld` | the three invariants of the module |
| `Parts_proofs!TrustTypeCorrect`, `VerifiedIsCurrent`, `FirstUse` | the three invariants of `PeerTrust` |
| `Parts_proofs!CallsHavePeers`, `CallsEndWhole` | `SpecParts => []CallHasPeer`, `SpecParts => CallsEnd` |
| `Parts_proofs!RegisteringOwned`, `PreviewsKept`, `MembersReplaced` | `RegisteringHasOwner`, `PreviewKept` and `NoStaleMembers` of `SpecParts` |
| `Parts_proofs!JoiningAnswered` | `SpecParts => []JoiningAwaits`, for any number of screens and commands, answered or not |
| `Parts_proofs!PartsTypeCorrect` | `SpecParts => []PartsTypeOK`: the types of all seven small parts |
| `Parts_proofs!KeptReadable` | `SpecParts => []DataKept`, for any number of processes, kills and failures |
| `GroupMessages_proofs!KeysComeFirst` | `Spec => []KeyBeforeUse` with one sender, no loss, no late join, and any number of crashes |
| `GroupMessages_proofs!TypeCorrect` | `Spec => []TypeOK`, for any number of coroutines at either end |
| `GroupMessages_proofs!UnreadForCause` | `Spec => []OnlyForWantOfKey`, for any number of receiving coroutines, collectors' repetitions, senders, losses, crashes and late joins |
| `GroupMessages_proofs!ShowsInOrder` | the initial states and the steps of `GroupMessages` are those of `ReliableChannel` or stutters (the safety of `InOrder`), with one sending coroutine, no loss, no late join, any number of receiving coroutines and any number of crashes |

They hold for any numbers of threads, sockets, peers, messages, chunks and faults, from the named
assumptions of the modules. The argument in each case is an inductive invariant,
whose consequences the runs check on their instances.

*Transport.* `DialIsOwned` is inductive beside `TypeOK`, which says what the program
counters may be: each label in it hands the dial to another one of them, until the
state is set; a cancelled call sets `abandoned` instead. A step of a thread changes its own counter, and the proof goes through
the actions one by one. `ConnectionIsRead` is its counterpart for `CONNECTED`, so that
`DISCONNECTED` is the one state that may be left without a thread.
`StopIsFinal` is an action property: no action other than the
calls the property names can leave `Stopped`, as each guard that would dial
tests `shouldReconnect`. `RetryIsPlanned` strengthens the state with who will
schedule the retry.

*Direct messages.* `AtMostOnce` needs that each message is in one place only:
still with the user, in one coroutine, in `pendingSends`, or sent. The invariant
says that these places are disjoint, however often a bundle is handled.
`WaitsForAnAnswer` needs that a coroutine
which queued a message asks for keys before it ends, and that an answer which leaves
a message in its slot is one that brought no keys.

*Group messages.* `KeyBeforeUse` with crashes needs to relate the record in
memory, the record on disk, and what the wire carries of each life of the
process: a record that was announced is never behind its announcement, and an
initialized channel has announced its key or is about to, in the message that
the one sender holds. With two senders the property is false.
`TypeOK` bounds the keys and the length of the chains by what the tasks can do, which
no guard tests: each task makes one key per process at most (`Quota`), and each
iteration of a record is paid for with a message that was written (`Aged`, `Owned`,
`Loaded`). It is proved for any number of coroutines. `OnlyForWantOfKey` follows
the one coroutine that reads (`Alone`; until two overlap there is at most one, though
each message has its own): its chain under the hash of the channel can open whatever the last
distribution of a key that it learned opens, save the iterations it has used
(`Reaches`), so a packet it fails on has no such distribution before it, or shares its
iteration with an earlier one (`Failing`). Two that overlap may load the same record,
and the one that stores last undoes the step of the other: that is why the property
ends there. For `ShowsInOrder` the invariants of both ends are joined. What a
process has sent is behind its record (`Fresh`), so that it distributes its key with
the first message alone and uses no iteration twice (`Orderly`); then neither excuse
for an unread message is left, and what is shown is the read part of the log
(`ShownSoFar`).

*Session.* Whatever needs an account is sent by somebody who was told AUTH_OK on
the first connection, or by the user once the state says so; the invariant follows
that cause back, through the frames in the buffers of the collectors, to the
server's own session, which is the first one as long as no connection was lost.
`FirstLogin` reads the other way: while the server waits, the frame it waits for
is on its way, or a coroutine is bound to send it. For HELLO that is a watcher that
has not yet seen the connection (`Greeted`), and all of them may rely on the one that
saw it first; for the answer it is the collector with the challenge in its buffer,
as the nonce has found a collector with room; if it has not, `missed` says so
(`AnswerComes`).
`OncePerCollector` counts rows, and rows have no owner: `Counted` says that they can be
shared out among the collectors (`Ledger`) so that what one has stored, what is
in its buffer and what is on its way are together no more than was relayed.

*Upload.* `index` counts the attempts to send a chunk and `pos` the bytes read, so
that both are where the last chunk the server has left them, or both are past it
(`Numbered`): a gap in the bytes is one in the numbers. A chunk that was refused
leaves the loop for its `catch`, and what the collector writes after that needs an
answer of the server (`Failing`). Only a collector writes `COMPLETED`, and none has
an older copy in hand then (`Copied`), unless another one does (`overtaken`, which
`ByAnother` says takes two collectors).

*Download.* As long as nothing disturbs a download, the chunks in the file, the one
that is written, those on their way and the next to be streamed are one sequence
without a gap, for the one collector there is (`Gapless`); `Counts` numbers the frames
that are on their way for that, as reports come between the chunks. `CompletedHasEnd` needs that the chunk of a job that has
written is in the file, and that a copy that says `COMPLETED` was taken of an entry
with its end in the file (`EndIsWritten`): the file never shrinks.

*Keys.* The identities follow from those of the store alone. A signed key is new when
it is saved, so nothing published has it. Preparations may overlap, and save their
signed keys over each other's: each has its own key (`OwnKeys`), has saved nothing
before its signed key (`NothingSaved`), and shares no id with another that saves
(`Apart`), so that what one has saved under its ids stays until its keys are published
(`Held`). The counter of an engine is where the preparation that has ids left has got to
(`Ahead`), past whatever is published of the signed key in the store. That
the signed key published is the one of the upload is not needed. `TypeOK` says that
no preparation leaves the `Opks` ids there are for each of its process: an engine counts
on from the last id that was saved, so it is never further than the preparations that
have taken their ids (`Counted`), whichever of them save at once; the first screen's
preparation has an engine of its own, which is replaced before the first login.

*The small parts.* A step of the product is for each part its own step or none
(`Separate`), so that an invariant of a part is one of the product. With the types,
`CallHasPeer` and `RegisteringHasOwner` are inductive: leaving a room leaves no call
behind (`LeftEnds`), and every way out of `registerToken()`, the cancelled one
included, changes the state. `PreviewKept` needs that at most one call is past its
test of the table unless two crossed (`OneFetches`); `NoStaleMembers` that each
answer between its transactions is of the batch (`InsertsOfBatch`). `JoiningAwaits`
rests on the stack of screens: a list has nothing above it and, on top, is the screen
whose `onCommandResponse` is called (`ListsOnTop`); a dialog that is shown is on top
(`ShownOnTop`). So whatever answer comes ends it, and while none comes its own command
is on its way or lost; an error takes the command it answers off the wire and leaves
the dialog.

*Peer trust.* Between the check of a message and its save the row may change, so
neither invariant follows from the row alone: `CheckedIsFirst` says that what
passed the check was let in as a first key, or equals one that was.

*Local database.* `DataKept` speaks of the file and of the process; what keeps it
is that the key of the file is the saved one (`KeyOfFile`), and that both the key
in memory and the one on disk can be decrypted with the master key
(`Decryptable`): a kill makes the one on disk the saved one. That no update empties
the file follows from the list of migrations having no gap.

*Assumptions.* The theorems rest on the named assumptions of the modules, which TLC
evaluates on every run: bounds are numbers, values that stand for "none" are none of the
others (`NoneAssumption` says so of messages, records and chains), one coroutine is not
another (`KeyAssumption`), and the sets that are counted (`Messages` and `Tasks` of
`GroupMessages`, `Jobs` of `KeyStore`) are finite. What the theorems of
`GroupMessages` assume beyond that (`OneSender`: one sending coroutine, no loss, no late
join) is in their statements, and is what the run `group_in_order` is configured with.

Every invariant and every action property of the passing runs is proved. What is only model-checked is
liveness (`Recovers`, `PendingDrains`, `AllRead`, `UploadEnds`, `DownloadEnds`) and the
fairness that `InOrder` asks of the channel, `WF(Show)`: both are out of the prover's
reach.

## 5. Known deviations of the code

The code does these things; the models contain them, and the properties are
stated so that they say what still holds.

* A reconnected client sends no HELLO (`IrcordConnectionManager.kt:119`): run
  `session_hello` shows it.
* `sendHello` may overwrite `AUTHENTICATED` (`:137`); a second `start()` doubles
  the collectors, and every message is stored twice (`ChatViewModel.kt:211`).
* `connect()` called twice at once opens two connections (`IrcordSocket.kt:58`,
  `:73`); `disconnect()` during a dial is overwritten by `CONNECTED`. Leaving the settings
  screen may cancel `reconnect()` between `:73` and the dial (`SettingsViewModel.kt:162`),
  and a server that stalls the handshake of TLS (`:124`) never fails the dial: either way the
  client stays `CONNECTING`.
* `start()` launches its collector and connects without waiting for it
  (`IrcordConnectionManager.kt:112`): a challenge that comes first is lost, and with it the
  login. A full buffer drops frames for all collectors (`IrcordSocket.kt:182`). Frames of files are
  sent before the login (`IrcordConnectionManager.kt:567`).
* A second message to a peer without session replaces the first
  (`IrcordConnectionManager.kt:252`); `onKeyBundle` makes no session
  (`crypto_engine.cpp:1428`), so keys are asked for again without end. An error in
  the place of a bundle, and a bundle without `recipient_for`, leave the message
  waiting (`IrcordConnectionManager.kt:456`, `:469`, `:507`).
* Two messages sent at once can overtake the key or share it
  (`crypto_engine.cpp:1478`); with a coroutine per incoming message the key may be
  stored too late, messages are shown out of order, and with a second collector each
  is decrypted twice, in vain the second time (`IrcordConnectionManager.kt:348`); a lost first message, or a
  late join, leaves readers without the key (`crypto_engine.cpp:1484`).
* The upload loop overwrites cancellations and confirmations
  (`FileRepository.kt:237`), marks short reads as last (`:230`), and cuts chunks
  that do not fit into a frame: a chunk of 64 KB and its header are more than
  the 64 KB of a frame (`FileTransfer.kt:183`, `FrameCodec.kt:20`), so that files
  of more than one chunk cannot be uploaded; the screen misses updates
  (`ChatViewModel.kt:445`).
* Two collectors overwrite each other's changes of a transfer, a completion included
  (`FileRepository.kt:346`), and append each chunk twice (`:314`).
* A download drops early chunks (`FileRepository.kt:311`), appends in any order
  (`:307`), does not notice a chunk the buffer dropped (`IrcordSocket.kt:182`) and then never ends, forgets failed writes (`:327`), appends to earlier attempts (`:314`),
  and does not start without metadata (`:412`).
* A late acceptance makes a call that cannot be hung up (`voice_engine.cpp:472`);
  a declined call leaves the microphone on (`:485`); declining leaves the channel
  of the request (`:317`). After an offer, a request without a channel and a
  refusal, joining a room keeps the peers of the call. Leaving resets the mute of
  the screen and not that of the device (`VoiceRepository.kt`). The exported names of the voice functions do not match
  the Kotlin package (`jni_voice_bridge.cpp:123`).
* Keys: two collectors that prepare at once may take the same ids, and publish keys whose
  private half was replaced (`crypto_engine.cpp:1133`); ids restart with each engine (`crypto_engine.hpp:180`), saves are undone
  by a kill (`NativeStore.kt:80`), the signed key is signed by a throw-away key
  (`crypto_engine.cpp:1076`), and keys are published without their last byte
  (`:1110`).

* Joining: a lost answer, an ERROR, and any command after a reconnect (which does not log
  in) leave the dialog in "Joining", which no key closes (`JoinChannelDialog.kt:173`,
  `IrcordConnectionManager.kt:507`); "Joined #a-b" lists "#a"
  (`ChannelListViewModel.kt:77`); "a#b" is taken for a name and refused
  (`JoinChannelDialog.kt:91`). Answers go to the screen opened last, so lists of
  members and topics may land under another channel (`ChatViewModel.kt:106`).
* Nobody calls `onUserJoined` and `onUserLeft`: members change with NAMES only.
  Lists handled at once may mix (`ChannelMemberRepository.kt:58`).
* Saving an identity resets the trust at each message, and the number shown is
  always the placeholder, as no row has a safety number (`NativeStore.kt:182`,
  `SafetyNumberViewModel.kt:50`). Two first uses that race can replace each other's
  key for as long as both are under way (`crypto_engine.cpp:524`).
* The screen marks a message as sent though `sendChat` may drop it
  (`ChatViewModel.kt:254`).
* Comments on link previews ("skip if already fetching", `ChatViewModel.kt:501`;
  "avoid repeated failed fetches", `LinkPreviewRepository.kt:49`) say more than the
  code does: overlapping calls can replace a preview by an error, and a row with an
  error stops no fetch. A preview that has come is shown only when the messages
  are mapped again (`ChatViewModel.kt:470`).
* A database of version 1 to 5 does not open after an update: the migrations leave
  columns nullable (`Migrations.kt:38`) and an index not unique (`:81`) that the
  entities declare otherwise. Run `database_upgrade` shows it.
* The key of the database is saved with `apply()`: a kill may undo the save when the
  file exists already (`DatabaseEncryptionManager.kt:97`). Any failure of the
  Keystore replaces the key (`:69`), and the file is lost.
* Push: the token may be deleted while it is registered, so that the state says
  "Registered" with nothing stored; a cancellation between the two steps of a
  deletion leaves a state without its token; the failure of a topic is not caught
  (`NotificationSettingsViewModel.kt:52`). The screen goes on showing "registering" when
  Firebase gives no token (`:98`). The server is never told of a token.
* The online users are read, changed and written by a coroutine per frame
  (`IrcordConnectionManager.kt:479`), so that one change may undo another.

## 6. What is not modelled

Formats and cryptography: a ciphertext is its message, a key a number. Memory
safety: replacing the engine while another thread uses it (`jni_bridge.cpp:314`),
and data races on C++ maps, are undefined and left out. The server is external
and modelled from the frames the client handles. Also left out:

* the wire format: `FrameCodec` and `ProtobufExt` are functions of one frame,
  without state; what matters of them, the limit of a frame, is in `FileUpload`;
* certificate pins: a list that nobody fills and one test of equality;
* the biometric gate: its prompt belongs to the platform, and no screen uses
  what it would unlock;
* presence (the online users above) and the list of participants of a call, which
  nothing else depends on;
* `FileTransferViewModel`: no screen shows it; its `cleanup()` would cancel the
  scope of the repository that all screens share;
* theme, navigation, dependency injection, notifications and services: they show
  state or pass calls on;
* the headers of OpenSSL, the artifacts and the documents.

`PROJECT.json` gives the reason for each component.

## 7. Plan

Written so far, in order of importance: transport, session, direct and group
messages, files, voice, keys, joining channels, members, trust, the local
database, the token for push messages, link previews. Next:

1. The composition of transport and session: `Session`'s `LinkUp`/`LinkDown`
   implemented by `IrcordSocket`, so that a login rests on a dial.
2. Proofs about receiving coroutines of one channel that overlap: which of the messages
   that two of them read at once may be lost.
3. Presence, with the online users of the session.

The number of runs is kept to about a dozen: a new question joins the run of its
module unless it needs other bounds.
