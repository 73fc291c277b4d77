--------------------------- MODULE ChannelScreens ---------------------------
(***************************************************************************)
(* Joining channels from the screens: ChannelListViewModel with its dialog *)
(* and ChatViewModel. Both register for the answers to commands, in the    *)
(* one field onCommandResponse of the connection manager, when they are    *)
(* created: the screen opened last takes all answers, also after it was    *)
(* closed. The main thread runs the screens, another one the answers.      *)
(*                                                                         *)
(* pendingJoins and currentJoinChannel are left out, as nothing but each   *)
(* other depends on them; so are topics. Nobody calls clearJoinError().    *)
(* Members are in MemberList.                                              *)
(***************************************************************************)
EXTENDS Sequences, Naturals, SequencesExt

CONSTANTS Lists, Chats, \* instances of the two kinds of screen
          FirstChat,    \* the chat that the app opens with
          Requests,     \* JOIN commands; bound on their number
          Names, Stem,  \* channels, and what "#\w+" finds of a name
          General,      \* the channel "#general"
          MaxLosses     \* bound: how often the connection is lost

VARIABLES stack,     \* the screens that are open, the visible one last
          opened,    \* history: the screens that were created
          slot,      \* whose onCommandResponse is called
          dialog,    \* joinDialogState of each list
          shown,     \* showJoinDialog
          request,   \* what became of each command
          wire,      \* commands the server has not answered
          online,    \* CONNECTED and AUTHENTICATED, as the client sees it
          channels,  \* the table of channels
          losses,
          seen       \* lists that found the table of channels empty

vars == <<stack, opened, slot, dialog, shown, request, wire, online, channels, losses,
          seen>>

Screens == Lists \cup Chats
Top == Last(stack)
Alive(v) == v \in ToSet(stack)
Unused == [pc |-> "unused", view |-> FirstChat, name |-> General]
At(r, pc) == request[r].pc = pc
Go(r, pc) == request' = [request EXCEPT ![r].pc = pc]

\* An open dialog takes all input, the back key included.
NoDialog == Top \in Lists => ~shown[Top]

\* The server answers the connection that logged in. authState stays AUTHENTICATED
\* when that is lost, so that the next one logs in no more (see Session).
Served == online /\ losses = 0

\* joinChannel() does not suspend: the main thread does nothing else meanwhile.
Free == \A r \in Requests : ~At(r, "marked")

Init ==
  /\ stack = <<FirstChat>> /\ opened = {FirstChat} /\ slot = FirstChat
  /\ dialog = [l \in Lists |-> "Idle"] /\ shown = [l \in Lists |-> FALSE]
  /\ request = [r \in Requests |-> Unused]
  /\ wire = <<>> /\ online = FALSE
  /\ channels = {} /\ losses = 0 /\ seen = {}
-----------------------------------------------------------------------------
(* Navigation. A screen that is closed cancels its coroutines.              *)

OpenScreen(v, below) ==
  /\ Free /\ v \notin opened
  /\ stack' = Append(below, v)
  /\ opened' = opened \cup {v}
  /\ slot' = v

OpenDrawer(l) ==
  /\ Top \in Chats
  /\ OpenScreen(l, stack)
  /\ UNCHANGED <<dialog, shown, request, wire, online, channels, losses, seen>>

CancelFor(v) ==
  /\ seen' = seen \ {v}
  /\ request' = [r \in Requests |->
       IF request[r].view = v /\ request[r].pc \in {"checking", "inserting"}
       THEN [request[r] EXCEPT !.pc = "done"] ELSE request[r]]

SelectChannel(c) ==
  /\ Top \in Lists /\ NoDialog
  /\ OpenScreen(c, Front(stack))
  /\ CancelFor(Top)
  /\ UNCHANGED <<dialog, shown, wire, online, channels, losses>>

Back ==
  /\ Free /\ NoDialog /\ Len(stack) > 1
  /\ stack' = Front(stack)
  /\ CancelFor(Top)
  /\ UNCHANGED <<opened, slot, dialog, shown, wire, online, channels, losses>>
-----------------------------------------------------------------------------
(* The dialog of the list                                                   *)

Show(l, s, visible) ==
  /\ dialog' = [dialog EXCEPT ![l] = s]
  /\ shown' = [shown EXCEPT ![l] = visible]

Dialog(l, s, visible) ==
  /\ Free
  /\ Show(l, s, visible)
  /\ UNCHANGED <<stack, opened, slot, request, wire, online, channels, losses>>

showJoinDialog(l) == Top = l /\ ~shown[l] /\ UNCHANGED seen /\ Dialog(l, "Idle", TRUE)

hideJoinDialog(l) ==
  /\ Top = l /\ shown[l] /\ dialog[l] # "Joining"
  /\ UNCHANGED seen
  /\ Dialog(l, "Idle", FALSE)

\* When authState says AUTHENTICATED, a list looks for channels, then joins.
FindNoChannels(l) ==
  /\ Free /\ Alive(l) /\ online /\ channels = {}
  /\ seen' = seen \cup {l}
  /\ UNCHANGED <<stack, opened, slot, dialog, shown, request, wire, online, channels,
                 losses>>

\* The dialog submits no empty name.
Typed(l) == Top = l /\ shown[l] /\ dialog[l] # "Joining" /\ UNCHANGED seen
AutoJoined(l, n) == l \in seen /\ n = General /\ seen' = seen \ {l}
Wanted(l, n) == Typed(l) \/ AutoJoined(l, n)

\* What is typed as "a#b" stays so and is not valid.
joinInvalid(l) == Typed(l) /\ Dialog(l, "Error", TRUE)

joinRefused(l, n) ==
  /\ Wanted(l, n) /\ ~online
  /\ Dialog(l, "Error", shown[l])

joinChannel(l, n, r) ==
  /\ Free /\ Wanted(l, n) /\ online
  /\ At(r, "unused")
  /\ request' = [request EXCEPT ![r] = [pc |-> "marked", view |-> l, name |-> n]]
  /\ Show(l, "Joining", shown[l])
  /\ UNCHANGED <<stack, opened, slot, wire, online, channels, losses>>

\* Mutant of sendCommand: a command that is not accepted is not noticed.
sendCommandUnchecked(r) ==
  /\ At(r, "marked")
  /\ Go(r, IF online THEN "launched" ELSE "done")
  /\ UNCHANGED <<stack, opened, slot, dialog, shown, wire, online, channels,
                 losses, seen>>

\* The connection may be gone since the test of joinChannel().
sendCommand(r) ==
  /\ At(r, "marked")
  /\ IF online
     THEN Go(r, "launched") /\ UNCHANGED <<dialog, shown>>
     ELSE Go(r, "done") /\ Show(request[r].view, "Error", shown[request[r].view])
  /\ UNCHANGED <<stack, opened, slot, wire, online, channels, losses, seen>>

\* A chat joins its channel by itself, and other ones on "/join".
joinFromChat(c, n, r) ==
  /\ Free /\ Alive(c) /\ online
  /\ At(r, "unused")
  /\ request' = [request EXCEPT ![r] = [pc |-> "launched", view |-> c, name |-> n]]
  /\ UNCHANGED <<stack, opened, slot, dialog, shown, wire, online, channels,
                 losses, seen>>

\* Mutant of SendEnvelope: the coroutine does not end, and sends again.
SendEnvelopeAgain(r) ==
  /\ At(r, "launched")
  /\ IF online THEN UNCHANGED request /\ wire' = Append(wire, r)
               ELSE Go(r, "lost") /\ UNCHANGED wire
  /\ UNCHANGED <<stack, opened, slot, dialog, shown, online, channels,
                 losses, seen>>

SendEnvelope(r) ==
  /\ At(r, "launched")
  /\ IF online THEN Go(r, "wire") /\ wire' = Append(wire, r)
               ELSE Go(r, "lost") /\ UNCHANGED wire
  /\ UNCHANGED <<stack, opened, slot, dialog, shown, online, channels,
                 losses, seen>>
-----------------------------------------------------------------------------
(* Answers                                                                  *)

\* The next frame of the server answers the command sent first.
AnswerTo(r) ==
  /\ wire # <<>> /\ r = Head(wire)
  /\ wire' = Tail(wire)

\* It is a COMMAND_RESPONSE; the row is added for the screen that was called.
Answered(r, pc) ==
  /\ Served /\ AnswerTo(r)
  /\ request' = [request EXCEPT ![r].pc = pc, ![r].view = slot]
  /\ UNCHANGED <<stack, opened, slot, online, channels, losses, seen>>

\* A closed list still changes its dialog, but starts no coroutine.
JoinSucceeds(r) ==
  /\ Answered(r, IF slot \in Lists /\ Alive(slot) THEN "checking" ELSE "done")
  /\ IF slot \in Lists THEN Show(slot, "Success", FALSE) ELSE UNCHANGED <<dialog, shown>>

JoinFails(r) ==
  /\ Answered(r, "done")
  /\ IF slot \in Lists THEN Show(slot, "Error", shown[slot]) ELSE UNCHANGED <<dialog, shown>>

\* It is an ERROR, as for every command of a connection that did not log in, which
\* is only logged; or the buffer of frames is full, and it is dropped.
Unanswered(r) ==
  /\ AnswerTo(r)
  /\ Go(r, "lost")
  /\ UNCHANGED <<stack, opened, slot, dialog, shown, online, channels, losses, seen>>

\* addJoinedChannel() looks for the row before it inserts one.
CheckChannel(r) ==
  /\ At(r, "checking")
  /\ Go(r, IF Stem[request[r].name] \in channels THEN "done" ELSE "inserting")
  /\ UNCHANGED <<stack, opened, slot, dialog, shown, wire, online, channels,
                 losses, seen>>

InsertChannel(r) ==
  /\ At(r, "inserting")
  /\ channels' = channels \cup {Stem[request[r].name]}
  /\ Go(r, "done")
  /\ UNCHANGED <<stack, opened, slot, dialog, shown, wire, online, losses, seen>>

LinkUp ==
  /\ ~online
  /\ online' = TRUE
  /\ UNCHANGED <<stack, opened, slot, dialog, shown, request, wire, channels,
                 losses, seen>>

LinkDown ==
  /\ online /\ losses < MaxLosses
  /\ online' = FALSE /\ losses' = losses + 1
  /\ wire' = <<>>
  /\ request' = [r \in Requests |->
       IF At(r, "wire") THEN [request[r] EXCEPT !.pc = "lost"] ELSE request[r]]
  /\ UNCHANGED <<stack, opened, slot, dialog, shown, channels, seen>>

Handle(r) ==
  \/ sendCommand(r) \/ SendEnvelope(r)
  \/ JoinSucceeds(r) \/ JoinFails(r) \/ Unanswered(r)
  \/ CheckChannel(r) \/ InsertChannel(r)

Next ==
  \/ \E l \in Lists : OpenDrawer(l) \/ showJoinDialog(l) \/ hideJoinDialog(l)
                        \/ FindNoChannels(l) \/ joinInvalid(l)
  \/ \E c \in Chats : SelectChannel(c)
  \/ Back
  \/ \E l \in Lists, n \in Names :
       joinRefused(l, n) \/ \E r \in Requests : joinChannel(l, n, r)
  \/ \E c \in Chats, n \in Names, r \in Requests : joinFromChat(c, n, r)
  \/ \E r \in Requests : Handle(r)
  \/ LinkUp \/ LinkDown

Spec == Init /\ [][Next]_vars
-----------------------------------------------------------------------------
\* The types of the variables; a command is on the wire once.
TypeOK ==
  /\ stack \in Seq(Screens) /\ opened \subseteq Screens /\ slot \in opened
  /\ dialog \in [Lists -> {"Idle", "Joining", "Error", "Success"}]
  /\ shown \in [Lists -> BOOLEAN]
  /\ request \in [Requests -> [pc : {"unused", "marked", "launched", "wire", "lost",
                                     "checking", "inserting", "done"},
                               view : Screens, name : Names]]
  /\ wire \in Seq(Requests) /\ IsInjective(wire)
  /\ online \in BOOLEAN /\ seen \subseteq Lists /\ losses \in 0 .. MaxLosses
  /\ channels \subseteq Names

\* A dialog that is shown and says "Joining", which no key closes, waits for a
\* command of its own that is not answered yet, though screens come and go, one
\* callback takes the answers of all screens, answers to other commands end the
\* dialog too, and the connection may go between the test and the send. Or that
\* command was lost: with the connection, with the frame of its answer, or because
\* its answer was an ERROR; then the dialog stays for good (joinChannel,
\* sendCommand, handleCommandResponse).
JoiningAwaits ==
  \A l \in Lists : shown[l] /\ dialog[l] = "Joining" =>
    \E r \in Requests : /\ request[r].view = l
                          /\ request[r].pc \in {"marked", "launched", "wire", "lost"}
=============================================================================
