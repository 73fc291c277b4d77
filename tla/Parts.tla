-------------------------------- MODULE Parts --------------------------------
(***************************************************************************)
(* Parts of the client that share no variable: the trust in a peer, the    *)
(* screens that join channels, the members of a channel, voice calls, the  *)
(* token for push messages, the previews of links, and the local database. *)
(* Their product has the invariants of its factors, so each part is        *)
(* explored alone; "part" says which. PeerTrust is extended, the others    *)
(* are instantiated.                                                       *)
(***************************************************************************)
EXTENDS PeerTrust, Naturals

CONSTANTS Lists, Chats, FirstChat, Requests, General, Dashed, MaxLosses,
          Users, Roles, Syncs,
          Channels, Peers, None,
          Jobs, Fetches,
          MaxStarts, MaxFaults

\* "None" stands for the absence of a room or a peer.
ASSUME NoneAssumption == None \notin Channels \cup Peers
ASSUME ScreensAssumption == FirstChat \in Chats /\ Lists \cap Chats = {}
ASSUME LossesAssumption == MaxLosses \in Nat

Names == {General, Dashed}
\* "Joined (#\w+)" finds "#general" in "#general-talk" as well.
Stem == [n \in Names |-> General]

VARIABLES part,
          stack, opened, slot, dialog, shown, request, wire, online, channels, losses,
          seen,
          members, sync, batch,
          engine, view, stray,
          tokenState, stored, enabled, open, isRegistering, job,
          displaying, known, previewed, cache, fetch, crossed,
          prefs, disk, master, file, pc, key, made, starts, faults, wiped, undone, failed

Screens == INSTANCE ChannelScreens
List == INSTANCE MemberList
Voice == INSTANCE VoiceCalls
Push == INSTANCE PushTokens
Previews == INSTANCE LinkPreviews WITH open <- displaying, shown <- previewed, row <- cache
Database == INSTANCE LocalDatabase

screens == <<stack, opened, slot, dialog, shown, request, wire, online, channels,
             losses, seen>>
list == <<members, sync, batch>>
voice == <<engine, view, stray>>
push == <<tokenState, stored, enabled, open, isRegistering, job>>
previews == <<displaying, known, previewed, cache, fetch, crossed>>
database == <<prefs, disk, master, file, pc, key, made, starts, faults, wiped, undone, failed>>
parts == <<part, screens, list, voice, push, previews, database, vars>>

\* The parts that do not take part stay as they are made first.
InitParts ==
  /\ part \in {"screens", "list", "trust", "voice", "push", "previews", "database"}
  /\ Init /\ Screens!Init /\ List!Init /\ Voice!Init /\ Previews!Init
  /\ Push!Init /\ (part # "push" => ~stored /\ ~enabled)
  /\ Database!Init /\ (part # "database" => file.key = 0)

NextParts ==
  \/ part = "screens" /\ Screens!Next
     /\ UNCHANGED <<part, list, voice, push, previews, database, vars>>
  \/ part = "list" /\ List!Next
     /\ UNCHANGED <<part, screens, voice, push, previews, database, vars>>
  \/ part = "voice" /\ Voice!Next
     /\ UNCHANGED <<part, screens, list, push, previews, database, vars>>
  \/ part = "push" /\ Push!Next
     /\ UNCHANGED <<part, screens, list, voice, previews, database, vars>>
  \/ part = "previews" /\ Previews!Next
     /\ UNCHANGED <<part, screens, list, voice, push, database, vars>>
  \/ part = "database" /\ Database!Next
     /\ UNCHANGED <<part, screens, list, voice, push, previews, vars>>
  \/ part = "trust" /\ Next
     /\ UNCHANGED <<part, screens, list, voice, push, previews, database>>

SpecParts == InitParts /\ [][NextParts]_parts
-----------------------------------------------------------------------------
\* The types of the variables of all parts.
PartsTypeOK == /\ TypeOK /\ Screens!TypeOK /\ List!TypeOK /\ Voice!TypeOK
               /\ Push!TypeOK /\ Previews!TypeOK /\ Database!TypeOK

\* A dialog that cannot be closed waits for a command of its own that is not
\* answered, or was lost (ChannelListViewModel.joinChannel).
JoiningAwaits == Screens!JoiningAwaits

\* No row survives the answer that replaces it (syncMemberList).
NoStaleMembers == List!NoStaleMembers

\* A call has somebody at its other end (VoiceEngine).
CallHasPeer == Voice!CallHasPeer

\* Hanging up and joining a room end a call whole (VoiceEngine::hangup, joinRoom).
CallsEnd == Voice!CallsEnd

\* "Registering" has a coroutine that will end it (FcmRepository.registerToken).
RegisteringHasOwner == Push!RegisteringHasOwner

\* A preview in the table lasts its day (LinkPreviewRepository.getLinkPreview).
PreviewKept == Previews!PreviewKept

\* The file can be read with the key of every later process, and is not emptied
\* (DatabaseEncryptionManager.getOrCreateKey).
DataKept == Database!DataKept
=============================================================================
