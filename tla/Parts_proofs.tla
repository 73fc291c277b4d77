----------------------------- MODULE Parts_proofs -----------------------------
(***************************************************************************)
(* The invariants of the small parts, each alone and in their composition, *)
(* for any number of screens, coroutines, answers, messages, processes and *)
(* failures. The parts share no variable: a step of one of them leaves     *)
(* those of the others as they are (Separate), so that an inductive        *)
(* invariant of a part is one of all of them.                              *)
(***************************************************************************)
EXTENDS Parts, SequenceTheorems, TLAPS

\* A step of the parts is for each of them its own step, or none.
LEMMA Separate ==
  ASSUME [NextParts]_parts
  PROVE  /\ [Screens!Next]_screens /\ [List!Next]_list /\ [Voice!Next]_voice
         /\ [Push!Next]_push /\ [Previews!Next]_previews /\ [Database!Next]_database
<1>1. CASE NextParts
  BY <1>1 DEF NextParts
<1>2. CASE UNCHANGED parts
  BY <1>2 DEF parts
<1> QED BY <1>1, <1>2
-----------------------------------------------------------------------------
(* Peer trust. Between the check of a message and its save the key is a     *)
(* first one: that is what makes the two invariants inductive.              *)

\* What passed the check was stored, or nothing was.
CheckedIsFirst == \A u \in Uses : use[u].pc = "trusted" => use[u].key \in firsts

TrustInv == TypeOK /\ VerifiedKeyIsCurrent /\ FirstUseOnly /\ CheckedIsFirst

LEMMA InitTrust == Init => TrustInv
BY DEF Init, TrustInv, TypeOK, VerifiedKeyIsCurrent, FirstUseOnly, CheckedIsFirst, NoRow, Idle, NoKey

LEMMA NextTrust == TrustInv /\ [Next]_vars => TrustInv'
<1> SUFFICES ASSUME TrustInv, [Next]_vars PROVE TrustInv'
  OBVIOUS
<1> USE DEF TrustInv, TypeOK, VerifiedKeyIsCurrent, FirstUseOnly, CheckedIsFirst
<1>1. ASSUME NEW u \in Uses, savePeerIdentity(u) PROVE TrustInv'
  <2>1. use[u].key \in Keys \cup {NoKey} /\ use[u].key \in firsts
    BY <1>1 DEF savePeerIdentity
  <2>2. \A v \in Uses : use'[v].pc = "trusted" => use'[v] = use[v]
    BY <1>1 DEF savePeerIdentity, Idle
  <2> QED BY <1>1, <2>1, <2>2 DEF savePeerIdentity, Idle
<1>2. ASSUME NEW u \in Uses, Fails(u) PROVE TrustInv'
  BY <1>2 DEF Fails, Idle
<1>3. ASSUME NEW u \in Uses, NEW k \in Keys, IsTrusted(u, k) PROVE TrustInv'
  <2>1. k \in firsts' /\ firsts \subseteq firsts' /\ firsts' \subseteq Keys
    BY <1>3 DEF IsTrusted, LetIn
  <2>2. \A v \in Uses : use'[v] = use[v] \/ use'[v] = [pc |-> "trusted", key |-> k]
    BY <1>3 DEF IsTrusted
  <2> QED BY <1>3, <2>1, <2>2 DEF IsTrusted
<1>4. CASE markAsVerified
  BY <1>4 DEF markAsVerified, NoKey
<1>5. CASE UNCHANGED vars
  BY <1>5 DEF vars
<1> QED BY <1>1, <1>2, <1>3, <1>4, <1>5 DEF Next

\* The variables of the trust in a peer keep their types.
THEOREM TrustTypeCorrect == Spec => []TypeOK
<1>1. TrustInv => TypeOK BY DEF TrustInv
<1> QED BY InitTrust, NextTrust, <1>1, PTL DEF Spec

\* A peer that counts as verified has the key that the user verified, however
\* many messages are between their check and their save (savePeerIdentity).
THEOREM VerifiedIsCurrent == Spec => []VerifiedKeyIsCurrent
<1>1. TrustInv => VerifiedKeyIsCurrent BY DEF TrustInv
<1> QED BY InitTrust, NextTrust, <1>1, PTL DEF Spec

\* No key is stored that was not let in while there was none (IsTrusted).
THEOREM FirstUse == Spec => []FirstUseOnly
<1>1. TrustInv => FirstUseOnly BY DEF TrustInv
<1> QED BY InitTrust, NextTrust, <1>1, PTL DEF Spec
-----------------------------------------------------------------------------
(* Channel screens. A list is only ever the screen on top, and there it is  *)
(* the one whose onCommandResponse is called; as an open dialog takes the   *)
(* back key, a dialog that is shown is the one on top. So an answer, also   *)
(* one to the command of another screen, ends a shown dialog, and while     *)
(* none comes the command of the dialog is on its way, or lost.             *)

\* A list has nothing above it.
ListsOnTop == /\ Len(stack) > 0
              /\ \A i \in 1..(Len(stack) - 1) : stack[i] \in Chats
              /\ Screens!Top \in Lists => slot = Screens!Top
ShownOnTop == \A l \in Lists : shown[l] => Screens!Top = l
WireWaits == \A i \in 1..Len(wire) : request[wire[i]].pc = "wire"

ScreensInv == Screens!TypeOK /\ ListsOnTop /\ ShownOnTop /\ WireWaits /\ JoiningAwaits

Command == [pc : {"unused", "marked", "launched", "wire", "lost", "checking", "inserting", "done"},
            view : Screens!Screens, name : Names]

LEMMA StemType == General \in Names /\ \A n \in Names : Stem[n] \in Names
BY DEF Names, Stem

LEMMA InitScreens == InitParts => ScreensInv
<1> SUFFICES ASSUME Screens!Init PROVE ScreensInv
  BY DEF InitParts
<1>1. /\ stack = <<FirstChat>> /\ opened = {FirstChat} /\ slot = FirstChat /\ wire = << >>
      /\ dialog = [l \in Lists |-> "Idle"] /\ request = [r \in Requests |-> Screens!Unused]
      /\ channels = {} /\ losses = 0 /\ seen = {}
  BY DEF Screens!Init
<1>2. shown \in [Lists -> BOOLEAN] /\ \A l \in Lists : ~shown[l]
  BY Zenon DEF Screens!Init
<1>3. online \in BOOLEAN
  BY Zenon DEF Screens!Init
<1>4. /\ stack \in Seq(Screens!Screens) /\ Len(stack) = 1 /\ Screens!Top = FirstChat
      /\ FirstChat \in Chats /\ FirstChat \notin Lists
  BY <1>1, ScreensAssumption DEF Screens!Screens, Screens!Top, Screens!Last
<1>5. wire \in Seq(Requests) /\ Len(wire) = 0 /\ Screens!IsInjective(wire)
  BY <1>1 DEF Screens!IsInjective
<1>6. Screens!TypeOK
  <2>1. request \in [Requests -> [pc : {"unused", "marked", "launched", "wire", "lost",
                                        "checking", "inserting", "done"},
                                  view : Screens!Screens, name : Names]]
    BY <1>1, <1>4, StemType DEF Screens!Unused, Screens!Screens
  <2> QED BY <1>1, <1>2, <1>3, <1>4, <1>5, <2>1, LossesAssumption DEF Screens!TypeOK, Screens!Screens
<1>7. ListsOnTop /\ ShownOnTop /\ WireWaits /\ JoiningAwaits
  BY <1>2, <1>4, <1>5 DEF ListsOnTop, ShownOnTop, WireWaits, JoiningAwaits, Screens!JoiningAwaits
<1> QED BY <1>6, <1>7 DEF ScreensInv

\* Where the screens are.
LEMMA StackFacts ==
  ASSUME ScreensInv
  PROVE  /\ stack \in Seq(Screens!Screens) /\ Len(stack) \in Nat /\ Len(stack) \in 1..Len(stack)
         /\ Screens!Top = stack[Len(stack)] /\ Screens!Top \in Lists \cup Chats
         /\ \A i \in 1..Len(stack) : i \in 1..(Len(stack) - 1) \/ i = Len(stack)
         /\ Screens!Top \in Chats \/ Screens!NoDialog => \A l \in Lists : ~shown[l]
<1>1. stack \in Seq(Screens!Screens) /\ Len(stack) \in Nat /\ Len(stack) > 0
  BY LenProperties DEF ScreensInv, Screens!TypeOK, ListsOnTop
<1>2. Len(stack) \in 1..Len(stack) /\ \A i \in 1..Len(stack) : i \in 1..(Len(stack) - 1) \/ i = Len(stack)
  BY <1>1
<1>3. Screens!Top = stack[Len(stack)]
  BY DEF Screens!Top, Screens!Last
<1>4. Screens!Top \in Lists \cup Chats
  BY <1>1, <1>2, <1>3, ElementOfSeq DEF Screens!Screens
<1>5. Screens!Top \in Chats \/ Screens!NoDialog => \A l \in Lists : ~shown[l]
  BY ScreensAssumption DEF ScreensInv, ShownOnTop, Screens!NoDialog
<1> QED BY <1>1, <1>2, <1>3, <1>4, <1>5

\* A screen is opened above chats.
LEMMA OpensOnTop ==
  ASSUME ScreensInv, NEW v \in Screens!Screens, NEW below \in Seq(Screens!Screens),
         \A i \in 1..Len(below) : below[i] \in Chats, Screens!OpenScreen(v, below)
  PROVE  stack' \in Seq(Screens!Screens) /\ opened' \subseteq Screens!Screens /\ slot' \in opened'
         /\ ListsOnTop'
<1>1. stack' = Append(below, v) /\ opened' = opened \cup {v} /\ slot' = v
  BY DEF Screens!OpenScreen
<1>2. /\ Len(below) \in Nat /\ stack' \in Seq(Screens!Screens) /\ Len(stack') = Len(below) + 1
      /\ stack'[Len(below) + 1] = v /\ \A i \in 1..Len(below) : stack'[i] = below[i]
  BY <1>1, AppendProperties, LenProperties
<1>3. Len(stack') > 0 /\ \A i \in 1..(Len(stack') - 1) : i \in 1..Len(below)
  BY <1>2
<1>4. Screens!Top' = v
  BY <1>2 DEF Screens!Top, Screens!Last
<1> QED BY <1>1, <1>2, <1>3, <1>4 DEF ListsOnTop, ScreensInv, Screens!TypeOK

LEMMA NavigationKeeps ==
  ASSUME ScreensInv,
         \/ \E l \in Lists : Screens!OpenDrawer(l)
         \/ \E c \in Chats : Screens!SelectChannel(c)
         \/ Screens!Back
  PROVE  ScreensInv'
<1> DEFINE below == Screens!Front(stack)
<1>1. /\ UNCHANGED <<dialog, shown, wire, online, channels, losses>>
      /\ Screens!Top \in Chats \/ Screens!NoDialog
  BY DEF Screens!OpenDrawer, Screens!SelectChannel, Screens!Back
<1>2. \A l \in Lists : ~shown[l]
  BY <1>1, StackFacts
<1>3. /\ below \in Seq(Screens!Screens) /\ Len(below) = Len(stack) - 1
      /\ \A i \in 1..Len(below) : below[i] = stack[i] /\ below[i] \in Chats
  <2>1. /\ stack \in Seq(Screens!Screens) /\ Len(stack) \in Nat /\ Len(stack) > 0
        /\ \A i \in 1..(Len(stack) - 1) : stack[i] \in Chats /\ i \in 1..Len(stack)
    BY StackFacts DEF ScreensInv, ListsOnTop
  <2>2. \A i \in 1..(Len(stack) - 1) : stack[i] \in Screens!Screens
    BY <2>1 DEF Screens!Screens
  <2>3. /\ below \in Seq(Screens!Screens)
        /\ Len(below) = IF 1 <= Len(stack) - 1 THEN Len(stack) - 1 - 1 + 1 ELSE 0
        /\ \A i \in 1..(Len(stack) - 1 - 1 + 1) : below[i] = stack[1 + i - 1]
    BY <2>1, <2>2, SubSeqProperties DEF Screens!Front
  <2> HIDE DEF below
  <2>4. Len(below) = Len(stack) - 1
    <3>1. /\ Len(stack) \in Nat /\ Len(stack) > 0
          /\ Len(below) = IF 1 <= Len(stack) - 1 THEN Len(stack) - 1 - 1 + 1 ELSE 0
      BY <2>1, <2>3
    <3>2. CASE Len(stack) = 1
      BY <3>1, <3>2
    <3>3. CASE Len(stack) > 1
      BY <3>1, <3>3
    <3>4. Len(stack) \in Nat /\ Len(stack) > 0
      BY <2>1
    <3>5. Len(stack) = 1 \/ Len(stack) > 1
      BY <3>4
    <3> QED BY <3>2, <3>3, <3>5
  <2>5. ASSUME NEW i \in 1..(Len(stack) - 1) PROVE below[i] = stack[i]
    <3>1. Len(stack) \in Nat
      BY <2>1
    <3>2. i \in 1..(Len(stack) - 1 - 1 + 1) /\ 1 + i - 1 = i
      BY <3>1
    <3> QED BY <2>3, <3>2
  <2> QED BY <2>1, <2>3, <2>4, <2>5
<1> HIDE DEF below
<1>4. stack' \in Seq(Screens!Screens) /\ opened' \subseteq Screens!Screens /\ slot' \in opened'
      /\ ListsOnTop'
  <2>1. ASSUME NEW l \in Lists, Screens!OpenDrawer(l)
        PROVE  stack' \in Seq(Screens!Screens) /\ opened' \subseteq Screens!Screens
               /\ slot' \in opened' /\ ListsOnTop'
    <3>1. Screens!Top \in Chats /\ Screens!OpenScreen(l, stack) /\ l \in Screens!Screens
      BY <2>1 DEF Screens!OpenDrawer, Screens!Screens
    <3>2. \A i \in 1..Len(stack) : stack[i] \in Chats
      BY <3>1, StackFacts DEF ScreensInv, ListsOnTop
    <3> QED BY <3>1, <3>2, StackFacts, OpensOnTop
  <2>2. ASSUME NEW c \in Chats, Screens!SelectChannel(c)
        PROVE  stack' \in Seq(Screens!Screens) /\ opened' \subseteq Screens!Screens
               /\ slot' \in opened' /\ ListsOnTop'
    <3>1. Screens!OpenScreen(c, below) /\ c \in Screens!Screens
      BY <2>2 DEF Screens!SelectChannel, Screens!Screens, below
    <3> QED BY <3>1, <1>3, OpensOnTop
  <2>3. CASE Screens!Back
    <3>1. stack' = below /\ opened' = opened /\ slot' = slot /\ Len(stack) > 1
      BY <2>3 DEF Screens!Back, below
    <3>2. Len(stack) \in Nat
      BY StackFacts
    <3>3. Len(below) > 0 /\ Len(below) \in 1..Len(below)
          /\ \A i \in 1..(Len(below) - 1) : i \in 1..Len(below)
      BY <1>3, <3>1, <3>2
    <3>4. Screens!Top' = below[Len(below)]
      BY <3>1 DEF Screens!Top, Screens!Last
    <3>5. Screens!Top' \notin Lists
      BY <1>3, <3>3, <3>4, ScreensAssumption
    <3> QED BY <1>3, <3>1, <3>3, <3>5 DEF ListsOnTop, ScreensInv, Screens!TypeOK
  <2> QED BY <2>1, <2>2, <2>3
<1>5. ShownOnTop' /\ JoiningAwaits'
  BY <1>1, <1>2 DEF ShownOnTop, JoiningAwaits, Screens!JoiningAwaits
<1>6. /\ seen' \subseteq seen
      /\ \/ request' = request
         \/ \E v : request' = [r \in Requests |->
              IF request[r].view = v /\ request[r].pc \in {"checking", "inserting"}
              THEN [request[r] EXCEPT !.pc = "done"] ELSE request[r]]
  BY DEF Screens!OpenDrawer, Screens!SelectChannel, Screens!Back, Screens!CancelFor
<1>7. /\ request' \in [Requests -> [pc : {"unused", "marked", "launched", "wire", "lost",
                                         "checking", "inserting", "done"},
                                   view : Screens!Screens, name : Names]]
      /\ \A r \in Requests : request[r].pc = "wire" => request'[r].pc = "wire"
  <2>1. request \in [Requests -> Command]
    BY DEF ScreensInv, Screens!TypeOK, Command
  <2>2. CASE request' = request
    BY <2>1, <2>2 DEF Command
  <2>3. ASSUME NEW v,
               request' = [r \in Requests |->
                 IF request[r].view = v /\ request[r].pc \in {"checking", "inserting"}
                 THEN [request[r] EXCEPT !.pc = "done"] ELSE request[r]]
        PROVE  /\ request' \in [Requests -> Command]
               /\ \A r \in Requests : request[r].pc = "wire" => request'[r].pc = "wire"
    <3>1. \A r \in Requests : [request[r] EXCEPT !.pc = "done"] \in Command
      BY <2>1 DEF Command
    <3>2. request' \in [Requests -> Command]
      BY <2>1, <2>3, <3>1
    <3> QED BY <2>3, <3>2
  <2> QED BY <1>6, <2>2, <2>3 DEF Command
<1>8. WireWaits'
  <2>1. \A i \in 1..Len(wire) : wire[i] \in Requests
    BY ElementOfSeq DEF ScreensInv, Screens!TypeOK
  <2> QED BY <1>1, <1>7, <2>1 DEF ScreensInv, WireWaits
<1>9. Screens!TypeOK'
  <2>1. online' \in BOOLEAN /\ shown' \in [Lists -> BOOLEAN]
    BY <1>1 DEF ScreensInv, Screens!TypeOK
  <2>2. wire' \in Seq(Requests) /\ Screens!IsInjective(wire')
    BY <1>1 DEF ScreensInv, Screens!TypeOK
  <2> QED BY <1>1, <1>4, <1>6, <1>7, <2>1, <2>2 DEF ScreensInv, Screens!TypeOK
<1> QED BY <1>4, <1>5, <1>8, <1>9 DEF ScreensInv

\* Commands change, and dialogs: the screens stay where they are.
LEMMA StayOpen ==
  ASSUME ScreensInv, UNCHANGED <<stack, opened, slot>>,
         \A l \in Lists : shown'[l] => shown[l] \/ Screens!Top = l
  PROVE  ListsOnTop' /\ ShownOnTop'
BY DEF ScreensInv, ListsOnTop, ShownOnTop, Screens!Top

\* The dialog of the list on top is opened or closed, or any list says what it found.
LEMMA DialogKeeps ==
  ASSUME ScreensInv,
         \/ \E l \in Lists : \/ Screens!showJoinDialog(l) \/ Screens!hideJoinDialog(l)
                             \/ Screens!FindNoChannels(l) \/ Screens!joinInvalid(l)
         \/ \E l \in Lists, n \in Names : Screens!joinRefused(l, n)
  PROVE  ScreensInv'
<1>1. /\ UNCHANGED <<stack, opened, slot, request, wire, online, channels, losses>>
      /\ seen' \subseteq Lists
  BY DEF Screens!showJoinDialog, Screens!hideJoinDialog, Screens!FindNoChannels,
         Screens!joinInvalid, Screens!joinRefused, Screens!Dialog, Screens!Wanted, Screens!Typed,
         Screens!AutoJoined, ScreensInv, Screens!TypeOK
<1>2. CASE UNCHANGED <<dialog, shown>>
  <2>1. ListsOnTop' /\ ShownOnTop'
    BY <1>1, <1>2, StayOpen
  <2> QED BY <1>1, <1>2, <2>1 DEF ScreensInv, Screens!TypeOK, WireWaits, JoiningAwaits,
                                  Screens!JoiningAwaits
<1>3. ASSUME NEW l \in Lists, NEW s \in {"Idle", "Error"}, NEW visible \in BOOLEAN,
             Screens!Show(l, s, visible), visible => shown[l] \/ Screens!Top = l
      PROVE  ScreensInv'
  <2>1. /\ dialog' \in [Lists -> {"Idle", "Joining", "Error", "Success"}]
        /\ shown' \in [Lists -> BOOLEAN]
        /\ \A k \in Lists : k # l => dialog'[k] = dialog[k] /\ shown'[k] = shown[k]
        /\ dialog'[l] # "Joining" /\ shown'[l] = visible
    BY <1>3 DEF Screens!Show, ScreensInv, Screens!TypeOK
  <2>2. ListsOnTop' /\ ShownOnTop'
    BY <1>1, <1>3, <2>1, StayOpen
  <2>3. JoiningAwaits'
    BY <1>1, <2>1 DEF ScreensInv, JoiningAwaits, Screens!JoiningAwaits
  <2> QED BY <1>1, <2>1, <2>2, <2>3 DEF ScreensInv, Screens!TypeOK, WireWaits
<1>4. ASSUME NEW l \in Lists PROVE shown[l] \in BOOLEAN
  BY DEF ScreensInv, Screens!TypeOK
<1> QED BY <1>2, <1>3, <1>4 DEF Screens!showJoinDialog, Screens!hideJoinDialog,
         Screens!FindNoChannels, Screens!joinInvalid, Screens!joinRefused, Screens!Dialog, Screens!Typed

\* A command is entered, sent, or carried out: the screens stay, and no shown dialog
\* loses its command without being told so.
LEMMA CommandKeeps ==
  ASSUME ScreensInv, UNCHANGED <<stack, opened, slot, wire, losses, online>>,
         seen' \subseteq seen, channels' \subseteq Names,
         request' \in [Requests -> Command], NEW r \in Requests,
         request[r].pc \notin {"wire", "lost"},
         \A q \in Requests : q # r => request'[q] = request[q],
         \/ UNCHANGED <<dialog, shown>>
         \/ \E l \in Lists, s \in {"Joining", "Error"} : Screens!Show(l, s, shown[l]),
         \A l \in Lists :
           /\ shown[l] /\ dialog[l] = "Joining" /\ dialog'[l] = "Joining" =>
                \/ request[r].pc = "unused"
                \/ request[r].pc \in {"checking", "inserting"}
                \/ request[r].view = l => /\ request'[r].view = l
                                          /\ request'[r].pc \in {"launched", "wire", "lost"}
           /\ dialog[l] # "Joining" /\ dialog'[l] = "Joining" =>
                request'[r].pc = "marked" /\ request'[r].view = l
  PROVE  ScreensInv'
<1>1. /\ dialog' \in [Lists -> {"Idle", "Joining", "Error", "Success"}]
      /\ shown' = shown
  <2>1. shown \in [Lists -> BOOLEAN]
    BY DEF ScreensInv, Screens!TypeOK
  <2>2. ASSUME NEW l \in Lists PROVE [shown EXCEPT ![l] = shown[l]] = shown
    BY <2>1
  <2>3. dialog \in [Lists -> {"Idle", "Joining", "Error", "Success"}]
    BY DEF ScreensInv, Screens!TypeOK
  <2>4. ASSUME NEW l \in Lists, NEW s \in {"Joining", "Error"}
        PROVE  [dialog EXCEPT ![l] = s] \in [Lists -> {"Idle", "Joining", "Error", "Success"}]
    BY <2>3
  <2> QED BY <2>2, <2>3, <2>4 DEF Screens!Show
<1>2. ListsOnTop' /\ ShownOnTop'
  BY <1>1, StayOpen
<1>3. WireWaits'
  <2>1. \A i \in 1..Len(wire) : wire[i] \in Requests
    BY ElementOfSeq DEF ScreensInv, Screens!TypeOK
  <2> QED BY <2>1 DEF ScreensInv, WireWaits
<1>4. JoiningAwaits'
  <2> SUFFICES ASSUME NEW l \in Lists, shown[l], dialog'[l] = "Joining"
               PROVE  \E q \in Requests :
                        /\ request'[q].view = l
                        /\ request'[q].pc \in {"marked", "launched", "wire", "lost"}
    BY <1>1 DEF JoiningAwaits, Screens!JoiningAwaits
  <2>1. CASE dialog[l] # "Joining"
    BY <2>1
  <2>2. CASE dialog[l] = "Joining"
    <3>1. PICK q \in Requests : /\ request[q].view = l
                                /\ request[q].pc \in {"marked", "launched", "wire", "lost"}
      BY <2>2 DEF ScreensInv, JoiningAwaits, Screens!JoiningAwaits
    <3> QED BY <2>2, <3>1
  <2> QED BY <2>1, <2>2
<1>5. Screens!TypeOK'
  <2>1. online' \in BOOLEAN /\ shown' \in [Lists -> BOOLEAN]
    BY <1>1 DEF ScreensInv, Screens!TypeOK
  <2> QED BY <1>1, <2>1 DEF ScreensInv, Screens!TypeOK, Command
<1> QED BY <1>2, <1>3, <1>4, <1>5 DEF ScreensInv

LEMMA CommandFacts ==
  ASSUME ScreensInv
  PROVE  /\ request \in [Requests -> Command] /\ channels \subseteq Names
         /\ dialog \in [Lists -> {"Idle", "Joining", "Error", "Success"}]
         /\ shown \in [Lists -> BOOLEAN]
BY DEF ScreensInv, Screens!TypeOK, Command

LEMMA EntersKeep ==
  ASSUME ScreensInv, NEW n \in Names, NEW r \in Requests,
         \/ \E l \in Lists : Screens!joinChannel(l, n, r)
         \/ \E c \in Chats : Screens!joinFromChat(c, n, r)
  PROVE  ScreensInv'
<1>1. /\ UNCHANGED <<stack, opened, slot, wire, online, channels, losses>> /\ seen' \subseteq seen
      /\ request[r].pc = "unused" /\ channels' \subseteq Names
  BY CommandFacts DEF Screens!joinChannel, Screens!joinFromChat, Screens!Wanted, Screens!Typed,
                      Screens!AutoJoined, Screens!At
<1>2. ASSUME NEW l \in Lists, Screens!joinChannel(l, n, r) PROVE ScreensInv'
  <2>1. /\ request' = [request EXCEPT ![r] = [pc |-> "marked", view |-> l, name |-> n]]
        /\ Screens!Show(l, "Joining", shown[l])
    BY <1>2 DEF Screens!joinChannel
  <2>2. [pc |-> "marked", view |-> l, name |-> n] \in Command
    BY DEF Command, Screens!Screens
  <2>3. /\ request' \in [Requests -> Command] /\ \A q \in Requests : q # r => request'[q] = request[q]
        /\ request'[r].pc = "marked" /\ request'[r].view = l
    BY <2>1, <2>2, CommandFacts
  <2>4. \A k \in Lists : k # l => dialog'[k] = dialog[k]
    BY <2>1, CommandFacts DEF Screens!Show
  <2> QED BY <1>1, <2>1, <2>3, <2>4, CommandKeeps
<1>3. ASSUME NEW c \in Chats, Screens!joinFromChat(c, n, r) PROVE ScreensInv'
  <2>1. /\ request' = [request EXCEPT ![r] = [pc |-> "launched", view |-> c, name |-> n]]
        /\ UNCHANGED <<dialog, shown>>
    BY <1>3 DEF Screens!joinFromChat
  <2>2. [pc |-> "launched", view |-> c, name |-> n] \in Command
    BY DEF Command, Screens!Screens
  <2>3. request' \in [Requests -> Command] /\ \A q \in Requests : q # r => request'[q] = request[q]
    BY <2>1, <2>2, CommandFacts
  <2> QED BY <1>1, <2>1, <2>3, CommandKeeps
<1> QED BY <1>2, <1>3

LEMMA StepsKeep ==
  ASSUME ScreensInv, NEW r \in Requests,
         Screens!sendCommand(r) \/ Screens!CheckChannel(r) \/ Screens!InsertChannel(r)
  PROVE  ScreensInv'
<1>1. /\ UNCHANGED <<stack, opened, slot, wire, online, losses, seen>>
      /\ request[r].pc \in {"marked", "checking", "inserting"}
  BY DEF Screens!sendCommand, Screens!CheckChannel, Screens!InsertChannel, Screens!At
<1>2. /\ request[r] \in Command /\ Stem[request[r].name] \in Names /\ channels \subseteq Names
  BY CommandFacts, StemType DEF Command
<1>3. channels' \subseteq Names
  BY <1>2 DEF Screens!sendCommand, Screens!CheckChannel, Screens!InsertChannel
<1>4. \E s \in {"launched", "done", "inserting"} : Screens!Go(r, s)
  BY DEF Screens!sendCommand, Screens!CheckChannel, Screens!InsertChannel
<1>5. /\ request' \in [Requests -> Command] /\ \A q \in Requests : q # r => request'[q] = request[q]
      /\ request'[r].view = request[r].view
  <2>1. PICK s \in {"launched", "done", "inserting"} :
          request' = [request EXCEPT ![r] = [request[r] EXCEPT !.pc = s]]
    BY <1>4 DEF Screens!Go
  <2>2. [request[r] EXCEPT !.pc = s] \in Command /\ [request[r] EXCEPT !.pc = s].view = request[r].view
    BY <1>2 DEF Command
  <2> QED BY <2>1, <2>2, CommandFacts
<1>6. CASE request[r].pc # "marked"
  <2>1. UNCHANGED <<dialog, shown>>
    BY <1>6 DEF Screens!sendCommand, Screens!CheckChannel, Screens!InsertChannel, Screens!At
  <2> QED BY <1>1, <1>3, <1>5, <1>6, <2>1, CommandKeeps
<1>7. CASE request[r].pc = "marked"
  <2>1. Screens!sendCommand(r)
    BY <1>7 DEF Screens!sendCommand, Screens!CheckChannel, Screens!InsertChannel, Screens!At
  <2>2. CASE request'[r].pc = "launched" /\ UNCHANGED <<dialog, shown>>
    BY <1>1, <1>3, <1>5, <2>2, CommandKeeps
  <2>3. CASE Screens!Show(request[r].view, "Error", shown[request[r].view])
    <3>1. CASE request[r].view \in Lists
      <4>1. /\ dialog'[request[r].view] = "Error"
            /\ \A k \in Lists : k # request[r].view => dialog'[k] = dialog[k]
        BY <2>3, <3>1, CommandFacts DEF Screens!Show
      <4> QED BY <1>1, <1>3, <1>5, <2>3, <3>1, <4>1, CommandKeeps
    <3>2. CASE request[r].view \notin Lists
      <4>1. UNCHANGED <<dialog, shown>>
        BY <2>3, <3>2, CommandFacts DEF Screens!Show
      <4> QED BY <1>1, <1>3, <1>5, <3>2, <4>1, CommandKeeps
    <3> QED BY <3>1, <3>2
  <2>4. online => request' = [request EXCEPT ![r] = [request[r] EXCEPT !.pc = "launched"]]
    BY <2>1 DEF Screens!sendCommand, Screens!Go
  <2>5. online => request'[r].pc = "launched"
    BY <2>4, CommandFacts DEF Command
  <2> QED BY <2>1, <2>2, <2>3, <2>5 DEF Screens!sendCommand
<1> QED BY <1>6, <1>7

\* What is on the wire is there once.
LEMMA WireFacts ==
  ASSUME ScreensInv
  PROVE  /\ wire \in Seq(Requests) /\ Len(wire) \in Nat /\ DOMAIN wire = 1..Len(wire)
         /\ \A i \in 1..Len(wire) : wire[i] \in Requests /\ request[wire[i]].pc = "wire"
         /\ \A i, k \in 1..Len(wire) : wire[i] = wire[k] => i = k
<1>1. wire \in Seq(Requests) /\ Len(wire) \in Nat /\ DOMAIN wire = 1..Len(wire)
  BY LenProperties DEF ScreensInv, Screens!TypeOK
<1>2. \A i \in 1..Len(wire) : wire[i] \in Requests
  BY <1>1, ElementOfSeq
<1> QED BY <1>1, <1>2 DEF ScreensInv, WireWaits, Screens!TypeOK, Screens!IsInjective

LEMMA SendKeeps ==
  ASSUME ScreensInv, NEW r \in Requests, Screens!SendEnvelope(r)
  PROVE  ScreensInv'
<1> DEFINE n == Len(wire)
<1>1. /\ UNCHANGED <<stack, opened, slot, dialog, shown, online, channels, losses, seen>>
      /\ request[r].pc = "launched"
      /\ \/ Screens!Go(r, "wire") /\ wire' = Append(wire, r)
         \/ Screens!Go(r, "lost") /\ wire' = wire
  BY DEF Screens!SendEnvelope, Screens!At
<1>2. ListsOnTop' /\ ShownOnTop'
  BY <1>1, StayOpen
<1>3. PICK s \in {"wire", "lost"} :
        /\ request' = [request EXCEPT ![r] = [request[r] EXCEPT !.pc = s]]
        /\ wire' = IF s = "wire" THEN Append(wire, r) ELSE wire
  BY <1>1 DEF Screens!Go
<1>4. /\ request' \in [Requests -> Command] /\ \A q \in Requests : q # r => request'[q] = request[q]
      /\ request'[r].view = request[r].view /\ request'[r].pc = s
  <2>1. /\ [request[r] EXCEPT !.pc = s] \in Command /\ [request[r] EXCEPT !.pc = s].pc = s
        /\ [request[r] EXCEPT !.pc = s].view = request[r].view
    BY CommandFacts DEF Command
  <2> QED BY <1>3, <2>1, CommandFacts
<1>5. JoiningAwaits'
  BY <1>1, <1>4 DEF ScreensInv, JoiningAwaits, Screens!JoiningAwaits
<1>6. wire' \in Seq(Requests) /\ WireWaits' /\ Screens!IsInjective(wire')
  <2>1. CASE wire' = wire
    <3>1. WireWaits'
      BY <1>1, <1>4, <2>1, WireFacts DEF WireWaits
    <3> QED BY <2>1, <3>1, WireFacts DEF ScreensInv, Screens!TypeOK
  <2>2. CASE wire' = Append(wire, r) /\ s = "wire"
    <3>1. /\ wire' \in Seq(Requests) /\ Len(wire') = n + 1 /\ wire'[n + 1] = r
          /\ \A i \in 1..n : wire'[i] = wire[i]
      BY <2>2, WireFacts, AppendProperties
    <3>2. DOMAIN wire' = 1..(n + 1)
      BY <3>1, LenProperties
    <3>3. n \in Nat
      BY WireFacts
    <3>4. \A i \in 1..(n + 1) : i \in 1..n \/ i = n + 1
      BY <3>3
    <3>5. \A i \in 1..n : wire[i] # r
      BY <1>1, WireFacts
    <3>6. WireWaits'
      BY <1>4, <2>2, <3>1, <3>4, <3>5, WireFacts DEF WireWaits
    <3>7. Screens!IsInjective(wire')
      BY <3>1, <3>2, <3>4, <3>5, WireFacts DEF Screens!IsInjective
    <3> QED BY <3>1, <3>6, <3>7
  <2> QED BY <1>3, <2>1, <2>2
<1>7. Screens!TypeOK'
  <2>1. online' \in BOOLEAN /\ shown' \in [Lists -> BOOLEAN]
    BY <1>1 DEF ScreensInv, Screens!TypeOK
  <2> QED BY <1>1, <1>4, <1>6, <2>1 DEF ScreensInv, Screens!TypeOK, Command
<1> QED BY <1>2, <1>5, <1>6, <1>7 DEF ScreensInv

\* What is still on the wire when the command sent first was answered.
LEMMA WireKeeps ==
  ASSUME ScreensInv, NEW r \in Requests, Screens!AnswerTo(r),
         \A q \in Requests : q # r => request'[q] = request[q]
  PROVE  WireWaits' /\ wire' \in Seq(Requests) /\ Screens!IsInjective(wire')
<1> DEFINE n == Len(wire)
<1>1. wire # << >> /\ r = Head(wire) /\ wire' = Tail(wire)
  BY DEF Screens!AnswerTo
<1>2. /\ wire' \in Seq(Requests) /\ Len(wire') = n - 1 /\ n \in Nat /\ n > 0 /\ r = wire[1]
      /\ \A i \in 1..(n - 1) : wire'[i] = wire[i + 1]
  <2>1. /\ wire' \in Seq(Requests) /\ Len(wire') = n - 1
        /\ \A i \in 1..Len(wire') : wire'[i] = wire[i + 1]
    BY <1>1, WireFacts, HeadTailProperties
  <2>2. n \in Nat \ {0}
    BY <1>1, WireFacts, EmptySeq
  <2> QED BY <1>1, <2>1, <2>2
<1> HIDE DEF n
<1>3. /\ \A i \in 1..(n - 1) : i + 1 \in 1..n /\ i + 1 # 1
      /\ \A i, k \in 1..(n - 1) : i + 1 = k + 1 => i = k
      /\ 1 \in 1..n
  BY <1>2
<1>4. WireWaits'
  <2> SUFFICES ASSUME NEW i \in 1..(n - 1) PROVE request'[wire[i + 1]].pc = "wire"
    BY <1>2 DEF WireWaits
  <2>1. wire[i + 1] # r
    BY <1>2, <1>3, WireFacts DEF n
  <2> QED BY <1>3, <2>1, WireFacts DEF n
<1>5. Screens!IsInjective(wire')
  <2>1. DOMAIN wire' = 1..(n - 1)
    BY <1>2, LenProperties
  <2> QED BY <1>2, <1>3, <2>1, WireFacts DEF n, Screens!IsInjective
<1> QED BY <1>2, <1>4, <1>5

\* An answer is for the screen opened last: for the shown dialog, if there is one.
LEMMA AnswersKeep ==
  ASSUME ScreensInv, NEW r \in Requests, Screens!JoinSucceeds(r) \/ Screens!JoinFails(r)
  PROVE  ScreensInv'
<1>1. /\ UNCHANGED <<stack, opened, slot, online, channels, losses, seen>>
      /\ Screens!AnswerTo(r)
      /\ \E s \in {"checking", "done"} :
           request' = [request EXCEPT ![r].pc = s, ![r].view = slot]
  BY DEF Screens!JoinSucceeds, Screens!JoinFails, Screens!Answered
<1>2. /\ request' \in [Requests -> Command] /\ \A q \in Requests : q # r => request'[q] = request[q]
  <2> DEFINE told(s) == [[request[r] EXCEPT !.pc = s] EXCEPT !.view = slot]
  <2>1. PICK s \in {"checking", "done"} :
          request' = [request EXCEPT ![r].pc = s, ![r].view = slot]
    BY <1>1
  <2>2. request' = [q \in Requests |-> IF q = r THEN told(s) ELSE request[q]]
    BY <2>1, CommandFacts
  <2>3. told(s) \in Command
    BY CommandFacts DEF Command, ScreensInv, Screens!TypeOK
  <2> HIDE DEF told
  <2> QED BY <2>2, <2>3, CommandFacts
<1>3. /\ dialog' \in [Lists -> {"Idle", "Joining", "Error", "Success"}]
      /\ shown' \in [Lists -> BOOLEAN]
      /\ \A l \in Lists : shown'[l] => shown[l]
      /\ slot \in Lists => dialog'[slot] # "Joining"
  <2>1. CASE slot \in Lists /\ Screens!Show(slot, "Success", FALSE)
    BY <2>1, CommandFacts DEF Screens!Show
  <2>2. CASE slot \in Lists /\ Screens!Show(slot, "Error", shown[slot])
    BY <2>2, CommandFacts DEF Screens!Show
  <2>3. CASE slot \notin Lists /\ UNCHANGED <<dialog, shown>>
    BY <2>3, CommandFacts
  <2> QED BY <2>1, <2>2, <2>3 DEF Screens!JoinSucceeds, Screens!JoinFails
<1>4. ListsOnTop' /\ ShownOnTop'
  BY <1>1, <1>3, StayOpen
<1>5. JoiningAwaits'
  BY <1>3 DEF ScreensInv, ShownOnTop, ListsOnTop, JoiningAwaits, Screens!JoiningAwaits
<1>6. WireWaits' /\ wire' \in Seq(Requests) /\ Screens!IsInjective(wire')
  BY <1>1, <1>2, WireKeeps
<1>7. Screens!TypeOK'
  <2>1. online' \in BOOLEAN
    BY <1>1 DEF ScreensInv, Screens!TypeOK
  <2> QED BY <1>1, <1>2, <1>3, <1>6, <2>1 DEF ScreensInv, Screens!TypeOK, Command
<1> QED BY <1>4, <1>5, <1>6, <1>7 DEF ScreensInv

\* A command whose answer no screen is told of is lost, and its dialog stays.
LEMMA UnansweredKeeps ==
  ASSUME ScreensInv, NEW r \in Requests, Screens!Unanswered(r)
  PROVE  ScreensInv'
<1>1. /\ UNCHANGED <<stack, opened, slot, dialog, shown, online, channels, losses, seen>>
      /\ Screens!AnswerTo(r)
      /\ request' = [request EXCEPT ![r] = [request[r] EXCEPT !.pc = "lost"]]
  BY DEF Screens!Unanswered, Screens!Go
<1>2. /\ request' \in [Requests -> Command] /\ \A q \in Requests : q # r => request'[q] = request[q]
      /\ request'[r].view = request[r].view /\ request'[r].pc = "lost"
  <2>1. /\ [request[r] EXCEPT !.pc = "lost"] \in Command
        /\ [request[r] EXCEPT !.pc = "lost"].pc = "lost"
        /\ [request[r] EXCEPT !.pc = "lost"].view = request[r].view
    BY CommandFacts DEF Command
  <2> QED BY <1>1, <2>1, CommandFacts
<1>3. ListsOnTop' /\ ShownOnTop'
  BY <1>1, StayOpen
<1>4. JoiningAwaits'
  BY <1>1, <1>2 DEF ScreensInv, JoiningAwaits, Screens!JoiningAwaits
<1>5. WireWaits' /\ wire' \in Seq(Requests) /\ Screens!IsInjective(wire')
  BY <1>1, <1>2, WireKeeps
<1>6. Screens!TypeOK'
  <2>1. online' \in BOOLEAN /\ shown' \in [Lists -> BOOLEAN]
    BY <1>1 DEF ScreensInv, Screens!TypeOK
  <2> QED BY <1>1, <1>2, <1>5, <2>1 DEF ScreensInv, Screens!TypeOK, Command
<1> QED BY <1>3, <1>4, <1>5, <1>6 DEF ScreensInv

LEMMA LinkKeeps ==
  ASSUME ScreensInv, Screens!LinkUp \/ Screens!LinkDown
  PROVE  ScreensInv'
<1>1. UNCHANGED <<stack, opened, slot, dialog, shown, channels, seen>>
  BY DEF Screens!LinkUp, Screens!LinkDown
<1>2. ListsOnTop' /\ ShownOnTop'
  BY <1>1, StayOpen
<1>3. CASE Screens!LinkUp
  <2>1. UNCHANGED <<request, wire, losses>>
    BY <1>3 DEF Screens!LinkUp
  <2>2. online' \in BOOLEAN
    BY <1>3, Zenon DEF Screens!LinkUp
  <2>3. WireWaits' /\ JoiningAwaits'
    BY <1>1, <2>1 DEF ScreensInv, WireWaits, JoiningAwaits, Screens!JoiningAwaits
  <2>4. shown' \in [Lists -> BOOLEAN]
    BY <1>1 DEF ScreensInv, Screens!TypeOK
  <2> QED BY <1>1, <1>2, <2>1, <2>2, <2>3, <2>4 DEF ScreensInv, Screens!TypeOK
<1>4. CASE Screens!LinkDown
  <2>1. /\ losses < MaxLosses /\ losses' = losses + 1 /\ wire' = << >>
        /\ request' = [r \in Requests |-> IF request[r].pc = "wire"
                                          THEN [request[r] EXCEPT !.pc = "lost"] ELSE request[r]]
    BY <1>4 DEF Screens!LinkDown, Screens!At
  <2>2. online' \in BOOLEAN
    BY <1>4, Zenon DEF Screens!LinkDown
  <2>3. \A r \in Requests : [request[r] EXCEPT !.pc = "lost"] \in Command
    BY CommandFacts DEF Command
  <2>4. request' \in [Requests -> Command]
    BY <2>1, <2>3, CommandFacts
  <2>5. \A r \in Requests : \/ request'[r] = request[r]
                            \/ /\ request[r].pc = "wire" /\ request'[r].pc = "lost"
                               /\ request'[r].view = request[r].view
    BY <2>1, CommandFacts DEF Command
  <2>6. JoiningAwaits'
    BY <1>1, <2>5 DEF ScreensInv, JoiningAwaits, Screens!JoiningAwaits
  <2>7. wire' \in Seq(Requests) /\ Len(wire') = 0 /\ Screens!IsInjective(wire')
    BY <2>1 DEF Screens!IsInjective
  <2>8. WireWaits'
    BY <2>7 DEF WireWaits
  <2>9. losses' \in 0..MaxLosses
    BY <2>1, LossesAssumption DEF ScreensInv, Screens!TypeOK
  <2>10. shown' \in [Lists -> BOOLEAN]
    BY <1>1 DEF ScreensInv, Screens!TypeOK
  <2> QED BY <1>1, <1>2, <2>2, <2>4, <2>6, <2>7, <2>8, <2>9, <2>10
          DEF ScreensInv, Screens!TypeOK, Command
<1> QED BY <1>3, <1>4

LEMMA NextScreens == ScreensInv /\ [Screens!Next]_screens => ScreensInv'
<1> SUFFICES ASSUME ScreensInv, [Screens!Next]_screens PROVE ScreensInv'
  OBVIOUS
<1>1. ASSUME NEW r \in Requests, Screens!Handle(r) PROVE ScreensInv'
  BY <1>1, StepsKeep, SendKeeps, AnswersKeep, UnansweredKeeps DEF Screens!Handle
<1>2. CASE UNCHANGED screens
  <2>1. ListsOnTop' /\ ShownOnTop'
    BY <1>2, StayOpen DEF screens
  <2>2. WireWaits' /\ JoiningAwaits'
    BY <1>2 DEF screens, ScreensInv, WireWaits, JoiningAwaits, Screens!JoiningAwaits
  <2>3. Screens!TypeOK'
    BY <1>2 DEF screens, ScreensInv, Screens!TypeOK
  <2> QED BY <2>1, <2>2, <2>3 DEF ScreensInv
<1>3. CASE Screens!Next
  BY <1>1, <1>3, NavigationKeeps, DialogKeeps, EntersKeep, LinkKeeps DEF Screens!Next
<1> QED BY <1>2, <1>3

\* A shown dialog that says "Joining" waits for a command of its own, whatever screens are
\* opened and closed meanwhile and whichever answers come, unless that command was lost
\* or its answer was (ChannelListViewModel.joinChannel).
THEOREM JoiningAnswered == SpecParts => []JoiningAwaits
<1>1. ScreensInv /\ [NextParts]_parts => ScreensInv'
  BY Separate, NextScreens
<1>2. ScreensInv => JoiningAwaits
  BY DEF ScreensInv
<1> QED BY InitScreens, <1>1, <1>2, PTL DEF SpecParts
-----------------------------------------------------------------------------
(* Members of a channel. While answers are between their transactions,      *)
(* every row is of one of them, and each that still has to insert is one of *)
(* the batch. Closing a screen then adds an empty list to the batch.        *)

InsertsOfBatch == \A s \in Syncs : sync[s].pc = "insert" => sync[s].list \in batch
RowsOfBatch ==
  \A u \in DOMAIN members : \E rows \in batch : u \in DOMAIN rows /\ rows[u] = members[u]
InAllIsIn ==
  List!AtRest => \A u \in Users : (\A rows \in batch : u \in DOMAIN rows) => u \in DOMAIN members

SyncsShape == sync = [s \in Syncs |-> [pc |-> sync[s].pc, list |-> sync[s].list]]
ListInv == SyncsShape /\ InsertsOfBatch /\ RowsOfBatch /\ InAllIsIn

LEMMA InitList == InitParts => ListInv
BY DEF InitParts, List!Init, ListInv, SyncsShape, InsertsOfBatch, RowsOfBatch, InAllIsIn, List!NoMembers

LEMMA NextList == ListInv /\ [List!Next]_list => ListInv'
<1> SUFFICES ASSUME ListInv, [List!Next]_list PROVE ListInv'
  OBVIOUS
<1> USE DEF ListInv, SyncsShape, InsertsOfBatch, RowsOfBatch, InAllIsIn, List!AtRest
<1>1. ASSUME NEW s \in Syncs, NEW rows, List!handleCommandResponse(s, rows) PROVE ListInv'
  <2>1. /\ \A r \in Syncs : sync'[r].pc = "insert" <=> sync[r].pc = "insert"
        /\ \A r \in Syncs : sync[r].pc = "insert" => sync'[r] = sync[r]
    BY <1>1 DEF List!handleCommandResponse
  <2>2. SyncsShape'
    BY <1>1 DEF List!handleCommandResponse
  <2> QED BY <1>1, <2>1, <2>2 DEF List!handleCommandResponse
<1>2. ASSUME NEW s \in Syncs, List!deleteAllForChannel(s) PROVE ListInv'
  <2>1. /\ \A r \in Syncs : sync'[r].list = sync[r].list
        /\ \A r \in Syncs : r # s => sync'[r].pc = sync[r].pc
        /\ sync'[s].pc = "insert" /\ SyncsShape'
    BY <1>2 DEF List!deleteAllForChannel, List!Go
  <2>2. InsertsOfBatch'
    BY <1>2, <2>1 DEF List!deleteAllForChannel, List!Began
  <2>3. members' = [u \in {} |-> {}]
    BY <1>2 DEF List!deleteAllForChannel, List!NoMembers
  <2>4. RowsOfBatch'
    BY <2>3
  <2> QED BY <2>1, <2>2, <2>4
<1>3. ASSUME NEW s \in Syncs, List!insertAll(s) PROVE ListInv'
  <2>1. /\ \A r \in Syncs : sync'[r].list = sync[r].list
        /\ \A r \in Syncs : sync'[r].pc = "insert" => sync[r].pc = "insert"
        /\ batch' = batch /\ sync[s].list \in batch /\ SyncsShape'
    BY <1>3 DEF List!insertAll, List!Go
  <2>2. /\ DOMAIN members' = DOMAIN members \cup DOMAIN sync[s].list
        /\ \A u \in DOMAIN members' :
             members'[u] = IF u \in DOMAIN sync[s].list THEN sync[s].list[u] ELSE members[u]
    BY <1>3 DEF List!insertAll
  <2>3. RowsOfBatch'
    BY <2>1, <2>2
  <2>4. InAllIsIn'
    BY <2>1, <2>2
  <2> QED BY <2>1, <2>3, <2>4
<1>4. CASE List!CloseScreen
  <2>1. /\ \A r \in Syncs : sync'[r].pc # "insert"
        /\ members' = members /\ SyncsShape'
    BY <1>4 DEF List!CloseScreen, List!Running
  <2>2. batch \subseteq batch' /\ (List!AtRest => batch' = batch)
    BY <1>4 DEF List!CloseScreen
  <2>3. ~List!AtRest => List!NoMembers \in batch' /\ DOMAIN List!NoMembers = {}
    BY <1>4 DEF List!CloseScreen, List!NoMembers
  <2> QED BY <2>1, <2>2, <2>3
<1>5. CASE UNCHANGED list
  BY <1>5 DEF list
<1> QED BY <1>1, <1>2, <1>3, <1>4, <1>5 DEF List!Next

\* No row survives the answer that replaces it, however the transactions of the
\* answers interleave and wherever a screen is closed (syncMemberList).
THEOREM MembersReplaced == SpecParts => []NoStaleMembers
<1>1. ListInv /\ [NextParts]_parts => ListInv'
  BY Separate, NextList
<1>2. ListInv => NoStaleMembers
  BY DEF ListInv, RowsOfBatch, InAllIsIn, NoStaleMembers, List!NoStaleMembers
<1> QED BY InitList, <1>1, <1>2, PTL DEF SpecParts
-----------------------------------------------------------------------------
(* Voice calls. What the engine was not asked for has a peer at its other   *)
(* end, so that being in a room is known whenever there is a call.          *)

VoiceInv == Voice!TypeOK /\ CallHasPeer

LEMMA InitVoice == InitParts => VoiceInv
<1> SUFFICES ASSUME Voice!Init PROVE VoiceInv
  BY DEF InitParts
<1>1. Voice!TypeOK
  BY DEF Voice!Init, Voice!TypeOK, Voice!Fresh, Voice!NoVoice, Voice!CallState, Voice!ConnectionState
<1>2. CallHasPeer
  BY DEF Voice!Init, CallHasPeer, Voice!CallHasPeer, Voice!Fresh
<1> QED BY <1>1, <1>2 DEF VoiceInv

\* Leaving leaves nothing of a call.
LEMMA LeftEnds ==
  ASSUME VoiceInv
  PROVE  LET e == Voice!Left(engine) IN
           /\ e \in [initialized : BOOLEAN, room : {None}, peer : {None},
                     private : BOOLEAN, call : Voice!CallState, conn : Voice!ConnectionState,
                     audio : BOOLEAN, muted : BOOLEAN, peers : SUBSET Peers]
           /\ ~stray => e.call = "IDLE"
<1>1. CASE Voice!InRoom(engine)
  BY <1>1 DEF VoiceInv, Voice!TypeOK, Voice!Left, Voice!Fresh, Voice!CallState, Voice!ConnectionState
<1>2. CASE ~Voice!InRoom(engine)
  BY <1>2 DEF VoiceInv, CallHasPeer, Voice!TypeOK, Voice!CallHasPeer, Voice!Left, Voice!InRoom
<1> QED BY <1>1, <1>2

\* Every step of the user and every signal keeps it.
LEMMA NextVoice == VoiceInv /\ [Voice!Next]_voice => VoiceInv'
<1> SUFFICES ASSUME VoiceInv, [Voice!Next]_voice PROVE VoiceInv'
  OBVIOUS
<1> DEFINE Engine == [initialized : BOOLEAN, room : Channels \cup {None}, peer : Peers \cup {None},
                      private : BOOLEAN, call : Voice!CallState, conn : Voice!ConnectionState,
                      audio : BOOLEAN, muted : BOOLEAN, peers : SUBSET Peers]
           View == [inVoice : BOOLEAN, room : Channels \cup {None}, peer : Peers \cup {None},
                    private : BOOLEAN, muted : BOOLEAN]
           Good(e, v, s) == /\ e \in Engine /\ v \in View /\ s \in BOOLEAN
                            /\ ~s /\ e.call # "IDLE" => e.peer # None
<1>a. VoiceInv <=> Good(engine, view, stray)
  BY DEF VoiceInv, Voice!TypeOK, CallHasPeer, Voice!CallHasPeer
<1>b. VoiceInv' <=> Good(engine', view', stray')
  BY DEF VoiceInv, Voice!TypeOK, CallHasPeer, Voice!CallHasPeer
<1>c. Good(engine, view, stray)
  BY <1>a
<1>d. Good(Voice!Left(engine), view, stray)
  BY <1>c, LeftEnds
<1>e. Voice!Fresh \in Engine /\ Voice!Fresh.call = "IDLE" /\ Voice!NoVoice \in View
  BY DEF Voice!Fresh, Voice!NoVoice, Voice!CallState, Voice!ConnectionState
<1>f. {"IDLE", "CALLING", "RINGING", "CONNECTED"} \subseteq Voice!CallState
  BY DEF Voice!CallState
<1>g. {"CONNECTING", "CONNECTED"} \subseteq Voice!ConnectionState
  BY DEF Voice!ConnectionState
<1> SUFFICES Good(engine', view', stray')
  BY <1>b
<1> HIDE DEF Engine, View
<1>1. CASE Voice!initialize
  BY <1>1, <1>c DEF Voice!Settled, Voice!initialize, Engine
<1>2. CASE Voice!destroy
  BY <1>2, <1>c, <1>e DEF Voice!Settled, Voice!destroy
<1>3. CASE Voice!leaveRoom
  BY <1>3, <1>c, <1>d, <1>e DEF Voice!Settled, Voice!leaveRoom
<1>4. CASE Voice!acceptCall
  BY <1>4, <1>c, <1>f, <1>g DEF Voice!Settled, Voice!acceptCall, Engine, View
<1>5. CASE Voice!declineCall
  BY <1>5, <1>c, <1>f DEF Voice!Settled, Voice!declineCall, Engine, View
<1>6. CASE Voice!hangup
  BY <1>6, <1>c, <1>d DEF Voice!Settled, Voice!hangup, View
<1>7. CASE Voice!toggleMute
  BY <1>7, <1>c DEF Voice!Settled, Voice!toggleMute, Engine, View
<1>8. ASSUME NEW c \in Channels, Voice!joinRoom(c) PROVE Good(engine', view', stray')
  BY <1>8, <1>c, <1>d, <1>g, LeftEnds DEF Voice!Settled, Voice!joinRoom, Voice!Joined, Engine, View
<1>9. ASSUME NEW p \in Peers, Voice!call(p) PROVE Good(engine', view', stray')
  BY <1>9, <1>c, <1>f, <1>g, NoneAssumption DEF Voice!Settled, Voice!call, Engine, View
<1>10. ASSUME NEW p \in Peers, Voice!handleOffer(p) PROVE Good(engine', view', stray')
  BY <1>10, <1>c, <1>g, NoneAssumption DEF Voice!Settled, Voice!handleOffer, Voice!Signal, Engine
<1>11. ASSUME NEW p \in Peers, Voice!handleBye(p) PROVE Good(engine', view', stray')
  <2> DEFINE e == [engine EXCEPT !.peers = @ \ {p}]
  <2>1. e \in Engine /\ e.call = engine.call /\ e.peer = engine.peer /\ e.private = engine.private
    BY <1>c DEF Engine
  <2>2. CASE e.private /\ p = e.peer
    <3>1. Voice!InRoom(e)
      BY <2>2, NoneAssumption DEF Voice!InRoom
    <3>2. engine' = [Voice!Fresh EXCEPT !.initialized = e.initialized, !.muted = e.muted]
      BY <1>11, <2>2, <3>1 DEF Voice!handleBye, Voice!Signal, Voice!Left
    <3>3. engine' \in Engine /\ engine'.call = "IDLE"
      BY <2>1, <3>2, <1>e DEF Engine
    <3> QED BY <1>11, <3>3, <1>c DEF Voice!handleBye, Voice!Signal, Voice!Settled
  <2>3. CASE ~(e.private /\ p = e.peer)
    <3>1. engine' = e /\ view' = view /\ Voice!Settled
      BY <1>11, <2>3 DEF Voice!handleBye, Voice!Signal
    <3> HIDE DEF e
    <3> QED BY <2>1, <3>1, <1>c DEF Voice!Settled
  <2> QED BY <2>2, <2>3
<1>12. ASSUME NEW p \in Peers, NEW c \in Channels \cup {None}, Voice!handleCallRequest(p, c)
       PROVE  Good(engine', view', stray')
  BY <1>12, <1>c, <1>f, NoneAssumption
     DEF Voice!Settled, Voice!handleCallRequest, Voice!Signal, Engine
<1>13. ASSUME NEW p \in Peers, Voice!handleAnswer(p) \/ Voice!handleCallAccept(p)
       PROVE  Good(engine', view', stray')
  BY <1>13, <1>c, <1>f, <1>g, NoneAssumption
     DEF Voice!handleAnswer, Voice!handleCallAccept, Voice!Answered, Voice!Signal, Engine
<1>14. ASSUME NEW p \in Peers, Voice!handleCallDecline(p) PROVE Good(engine', view', stray')
  BY <1>14, <1>c, <1>f DEF Voice!handleCallDecline, Voice!Signal, Voice!Settled, Engine
<1>15. CASE UNCHANGED voice
  BY <1>15, <1>c DEF voice
<1> QED BY <1>1, <1>2, <1>3, <1>4, <1>5, <1>6, <1>7, <1>8, <1>9, <1>10, <1>11, <1>12, <1>13,
           <1>14, <1>15 DEF Voice!Next

LEMMA VoiceSafe == SpecParts => []VoiceInv
<1>1. VoiceInv /\ [NextParts]_parts => VoiceInv'
  BY Separate, NextVoice
<1> QED BY InitVoice, <1>1, PTL DEF SpecParts

\* A call has somebody at its other end, unless it was made by an answer that came
\* when nobody was there, and is held still (VoiceEngine).
THEOREM CallsHavePeers == SpecParts => []CallHasPeer
<1>1. VoiceInv => CallHasPeer
  BY DEF VoiceInv
<1> QED BY VoiceSafe, <1>1, PTL

\* Hanging up and joining a room end a call whole (VoiceEngine::hangup, joinRoom).
THEOREM CallsEndWhole == SpecParts => CallsEnd
<1>1. VoiceInv /\ [NextParts]_parts =>
        [/\ Voice!hangup /\ ~stray /\ engine.call # "IDLE" => engine'.call = "IDLE" /\ ~engine'.audio
         /\ \A c \in Channels : Voice!joinRoom(c) /\ ~stray /\ engine.initialized =>
              engine'.call = "IDLE" /\ engine'.peer = None /\ ~engine'.private /\ engine'.room = c]_voice
  <2>1. ASSUME VoiceInv, Voice!hangup, ~stray, engine.call # "IDLE"
        PROVE  engine'.call = "IDLE" /\ ~engine'.audio
    BY <2>1 DEF Voice!hangup, VoiceInv, CallHasPeer, Voice!CallHasPeer, Voice!Left, Voice!InRoom, Voice!Fresh
  <2>2. ASSUME VoiceInv, NEW c \in Channels, Voice!joinRoom(c), ~stray, engine.initialized
        PROVE  engine'.call = "IDLE" /\ engine'.peer = None /\ ~engine'.private /\ engine'.room = c
    <3>1. engine' = [Voice!Left(engine) EXCEPT !.room = c, !.private = FALSE, !.conn = "CONNECTED", !.audio = TRUE]
      BY <2>2 DEF Voice!joinRoom, Voice!Joined
    <3> QED BY <2>2, <3>1, LeftEnds
  <2> QED BY <2>1, <2>2
<1> QED BY VoiceSafe, <1>1, PTL DEF SpecParts, CallsEnd, Voice!CallsEnd, Voice!vars, voice
-----------------------------------------------------------------------------
(* Push tokens. A coroutine that has said "Registering" stays in the hands  *)
(* of registerToken(), cancelled or not, until it says something else.      *)

PushInv == Push!TypeOK /\ RegisteringHasOwner

Owner(j) == job[j].pc \in {"save", "mark", "caught"}

LEMMA InitPush == InitParts => PushInv
<1> SUFFICES ASSUME Push!Init PROVE PushInv
  BY DEF InitParts
<1>1. {stored, enabled, open, isRegistering} \subseteq BOOLEAN
  BY DEF Push!Init
<1>2. tokenState = "NotRegistered" /\ job = [j \in Jobs |-> [pc |-> "unused", by |-> "screen"]]
  BY DEF Push!Init, Push!Unused
<1>3. Push!TypeOK
  BY <1>1, <1>2 DEF Push!TypeOK, Push!TokenState
<1> QED BY <1>2, <1>3 DEF PushInv, RegisteringHasOwner, Push!RegisteringHasOwner

LEMMA NextPush == PushInv /\ [Push!Next]_push => PushInv'
<1> SUFFICES ASSUME PushInv, [Push!Next]_push PROVE PushInv'
  OBVIOUS
<1>a. /\ Push!TypeOK /\ (tokenState = "Registering" => \E j \in Jobs : Owner(j))
  BY DEF PushInv, RegisteringHasOwner, Push!RegisteringHasOwner, Push!At, Owner
<1> SUFFICES Push!TypeOK' /\ (tokenState' = "Registering" => \E j \in Jobs : Owner(j)')
  BY DEF PushInv, RegisteringHasOwner, Push!RegisteringHasOwner, Push!At, Owner
<1> USE <1>a DEF Push!TypeOK, Push!TokenState, Push!At, Push!Goto, Push!Unused, Owner
<1>1. CASE Push!OpenScreen
  BY <1>1 DEF Push!OpenScreen
<1>2. CASE Push!CloseScreen
  <2>1. \A j \in Jobs : /\ job'[j] = IF job[j].by = "screen" /\ job[j].pc # "unused"
                                      THEN [job[j] EXCEPT !.pc = Push!Cancelled(j)] ELSE job[j]
                        /\ Push!Cancelled(j) \in {"caught", "over"}
                        /\ Owner(j) => Push!Cancelled(j) = "caught"
    BY <1>2 DEF Push!CloseScreen, Push!Cancelled
  <2>2. \A j \in Jobs : Owner(j) => Owner(j)'
    BY <2>1
  <2>3. \A j \in Jobs : job'[j] \in [pc : {job[j].pc, "caught", "over"}, by : {"screen", "service"}]
    BY <2>1
  <2>4. job' = [j \in Jobs |-> job'[j]]
    BY <1>2 DEF Push!CloseScreen
  <2>5. Push!TypeOK'
    BY <1>2, <2>3, <2>4 DEF Push!CloseScreen
  <2>6. tokenState' = tokenState
    BY <1>2 DEF Push!CloseScreen
  <2> QED BY <2>2, <2>5, <2>6
<1>3. ASSUME NEW j \in Jobs, Push!refreshToken(j) \/ Push!onNewToken(j)
      PROVE  Push!TypeOK' /\ (tokenState' = "Registering" => \E k \in Jobs : Owner(k)')
  <2>1. {stored', enabled', open', isRegistering'} \subseteq BOOLEAN
    BY <1>3 DEF Push!refreshToken, Push!onNewToken
  <2> QED BY <1>3, <2>1 DEF Push!refreshToken, Push!onNewToken, Push!Launch
<1>4. ASSUME NEW j \in Jobs, NEW e \in BOOLEAN, Push!setNotificationsEnabled(j, e)
      PROVE  Push!TypeOK' /\ (tokenState' = "Registering" => \E k \in Jobs : Owner(k)')
  BY <1>4 DEF Push!setNotificationsEnabled, Push!Launch
<1>5. ASSUME NEW j \in Jobs, Push!Step(j)
      PROVE  Push!TypeOK' /\ (tokenState' = "Registering" => \E k \in Jobs : Owner(k)')
  <2>1. CASE Push!Topic(j)
    BY <2>1 DEF Push!Topic
  <2>2. CASE Push!TopicFails(j)
    BY <2>2 DEF Push!TopicFails, Push!Dies
  <2>3. CASE Push!requestNewToken(j)
    BY <2>3 DEF Push!requestNewToken
  <2>4. CASE Push!registerToken(j)
    BY <2>4 DEF Push!registerToken
  <2>5. CASE Push!saveTokenLocally(j)
    BY <2>5 DEF Push!saveTokenLocally
  <2>6. CASE Push!Registered(j)
    BY <2>6 DEF Push!Registered
  <2>7. CASE Push!Caught(j)
    BY <2>7 DEF Push!Caught
  <2>8. CASE Push!SaveAgain(j)
    <3>1. CASE Push!Dies
      <4>1. /\ tokenState' = "NotRegistered" /\ stored' = stored /\ enabled' = enabled
            /\ open' = FALSE /\ isRegistering' = FALSE
            /\ job' = [k \in Jobs |-> [pc |-> "unused", by |-> "screen"]]
        BY <3>1 DEF Push!Dies
      <4> QED BY <4>1
    <3>2. CASE ~Push!Dies
      BY <2>8, <3>2 DEF Push!SaveAgain
    <3> QED BY <3>1, <3>2
  <2>9. CASE Push!deleteToken(j)
    BY <2>9 DEF Push!deleteToken
  <2>10. CASE Push!clearStoredToken(j)
    BY <2>10 DEF Push!clearStoredToken
  <2>11. CASE Push!NotRegistered(j)
    BY <2>11 DEF Push!NotRegistered
  <2>12. CASE Push!Over(j)
    BY <2>12 DEF Push!Over
  <2> QED BY <1>5, <2>1, <2>2, <2>3, <2>4, <2>5, <2>6, <2>7, <2>8, <2>9, <2>10, <2>11, <2>12
          DEF Push!Step
<1>6. CASE Push!Combine
  <2>1. isRegistering' \in BOOLEAN
    BY <1>6, Zenon DEF Push!Combine
  <2>2. UNCHANGED <<tokenState, stored, enabled, open, job>>
    BY <1>6 DEF Push!Combine
  <2> QED BY <2>1, <2>2
<1>7. CASE UNCHANGED push
  BY <1>7 DEF push
<1> QED BY <1>1, <1>2, <1>3, <1>4, <1>5, <1>6, <1>7 DEF Push!Next

\* "Registering" has a coroutine that will end it, also when screens are closed
\* and saves fail (FcmRepository.registerToken).
THEOREM RegisteringOwned == SpecParts => []RegisteringHasOwner
<1>1. PushInv /\ [NextParts]_parts => PushInv'
  BY Separate, NextPush
<1>2. PushInv => RegisteringHasOwner
  BY DEF PushInv
<1> QED BY InitPush, <1>1, <1>2, PTL DEF SpecParts
-----------------------------------------------------------------------------
(* Link previews. Unless two calls went to the network at once, the one     *)
(* that did found no fresh row, and nobody else has made one since.         *)

OneFetches ==
  ~crossed => /\ \A f, g \in Previews!Loading : f = g
              /\ Previews!Loading # {} => cache # "fresh"

PreviewInv == Previews!TypeOK /\ OneFetches

LEMMA InitPreviews == InitParts => PreviewInv
<1> SUFFICES ASSUME Previews!Init PROVE PreviewInv
  BY DEF InitParts
<1>1. Previews!Loading = {}
  BY DEF Previews!Init, Previews!Loading, Previews!At, Previews!Unused
<1>2. Previews!Unused.view \in Chats
  BY ScreensAssumption DEF Previews!Unused
<1>3. Previews!TypeOK
  BY <1>2 DEF Previews!Init, Previews!TypeOK, Previews!Unused, Previews!Row
<1> QED BY <1>1, <1>3 DEF PreviewInv, OneFetches

LEMMA NextPreviews == PreviewInv /\ [Previews!Next]_previews => PreviewInv'
<1> SUFFICES ASSUME Previews!TypeOK, OneFetches, [Previews!Next]_previews PROVE PreviewInv'
  BY DEF PreviewInv
<1> USE DEF PreviewInv, OneFetches, Previews!TypeOK, Previews!Loading, Previews!At, Previews!Goto, Previews!Row
<1>1. CASE Previews!isExpired
  BY <1>1 DEF Previews!isExpired
<1>2. ASSUME NEW v \in Chats, Previews!OpenScreen(v) PROVE PreviewInv'
  BY <1>2 DEF Previews!OpenScreen
<1>3. ASSUME NEW v \in Chats, Previews!CloseScreen(v) PROVE PreviewInv'
  <2>1. \A f \in Fetches : fetch'[f] = fetch[f] \/ fetch'[f].pc = "over"
    BY <1>3 DEF Previews!CloseScreen
  <2>2. Previews!Loading' \subseteq Previews!Loading
    BY <2>1
  <2>3. Previews!TypeOK'
    BY <1>3 DEF Previews!CloseScreen
  <2> HIDE DEF Previews!Loading, Previews!TypeOK
  <2> QED BY <1>3, <2>2, <2>3 DEF Previews!CloseScreen
<1>4. ASSUME NEW v \in Chats, Previews!Combine(v) PROVE PreviewInv'
  <2>1. Previews!Loading' \subseteq Previews!Loading
    BY <1>4 DEF Previews!Combine
  <2>2. Previews!TypeOK'
    BY <1>4 DEF Previews!Combine
  <2> HIDE DEF Previews!Loading, Previews!TypeOK
  <2> QED BY <1>4, <2>1, <2>2 DEF Previews!Combine
<1>5. ASSUME NEW f \in Fetches, Previews!getByUrl(f) PROVE PreviewInv'
  <2>1. CASE cache = "fresh"
    BY <1>5, <2>1 DEF Previews!getByUrl
  <2>2. CASE cache # "fresh"
    <3>1. /\ Previews!Loading' = Previews!Loading \cup {f} /\ cache' = cache
          /\ crossed' = (crossed \/ Previews!Loading # {}) /\ Previews!TypeOK'
      BY <1>5, <2>2 DEF Previews!getByUrl
    <3> HIDE DEF Previews!Loading, Previews!TypeOK
    <3> QED BY <2>2, <3>1
  <2> QED BY <2>1, <2>2
<1>6. ASSUME NEW f \in Fetches, Previews!fetchOgMetadata(f) PROVE PreviewInv'
  BY <1>6 DEF Previews!fetchOgMetadata
<1>7. ASSUME NEW f \in Fetches, Previews!insert(f) PROVE PreviewInv'
  <2>1. Previews!Loading' = Previews!Loading \ {f} /\ f \in Previews!Loading /\ crossed' = crossed
    BY <1>7 DEF Previews!insert
  <2>2. Previews!TypeOK'
    BY <1>7 DEF Previews!insert
  <2>3. ~crossed => Previews!Loading' = {}
    BY <2>1
  <2> HIDE DEF Previews!Loading, Previews!TypeOK
  <2> QED BY <2>1, <2>2, <2>3
<1>8. ASSUME NEW f \in Fetches, Previews!Answer(f) \/ Previews!Over(f) PROVE PreviewInv'
  BY <1>8 DEF Previews!Answer, Previews!Over
<1>9. CASE UNCHANGED previews
  BY <1>9 DEF previews
<1> QED BY <1>1, <1>2, <1>3, <1>4, <1>5, <1>6, <1>7, <1>8, <1>9 DEF Previews!Next

\* A preview in the table lasts its day, unless two calls went to the network at
\* once (LinkPreviewRepository.getLinkPreview).
THEOREM PreviewsKept == SpecParts => PreviewKept
<1>1. PreviewInv /\ [NextParts]_parts => PreviewInv'
  BY Separate, NextPreviews
<1>2. PreviewInv /\ [NextParts]_parts =>
        [~crossed' /\ cache = "fresh" => cache' \in {"fresh", "expired"}]_previews
  <2> SUFFICES ASSUME PreviewInv, Previews!Next, ~crossed', cache = "fresh"
               PROVE  cache' \in {"fresh", "expired"}
    BY Separate
  <2>1. ~crossed
    BY DEF Previews!Next, Previews!isExpired, Previews!OpenScreen, Previews!CloseScreen, Previews!Combine,
           Previews!getByUrl, Previews!fetchOgMetadata, Previews!insert, Previews!Answer, Previews!Over
  <2>2. \A f \in Fetches : ~Previews!At(f, "error") /\ ~Previews!At(f, "success")
    BY <2>1 DEF PreviewInv, OneFetches, Previews!Loading
  <2> QED BY <2>2 DEF Previews!Next, Previews!isExpired, Previews!OpenScreen, Previews!CloseScreen,
           Previews!Combine, Previews!getByUrl, Previews!fetchOgMetadata, Previews!insert,
           Previews!Answer, Previews!Over
<1> QED BY InitPreviews, <1>1, <1>2, PTL
        DEF SpecParts, PreviewKept, Previews!PreviewKept, Previews!vars, previews
-----------------------------------------------------------------------------
(* Local database. The key of the file is the saved one, and can be         *)
(* decrypted in memory and on the disk: a kill makes the one on the disk    *)
(* the saved one. No update empties the file, as no migration is missing.   *)

\* Nothing has gone wrong that DataKept allows for.
Sound == ~undone /\ ~failed

\* A file has a version and a key; whoever holds a key holds a real one.
FileHasKey == /\ file.key = 0 <=> file = Database!NoFile
              /\ file.key # 0 => file.version >= 1
              /\ pc = "built" => key # 0

\* A saved key can be decrypted, in memory and on the disk.
Decryptable == ~failed => /\ prefs.key # 0 => prefs.master = master /\ master # 0
                          /\ disk.key # 0 => disk.master = master /\ master # 0

\* The key of the file is the saved one, and the process uses it.
KeyOfFile == Sound => /\ file.key # 0 => prefs.key = file.key
                      /\ pc = "built" => key = prefs.key
                      /\ pc = "new" => file.key = 0
                      /\ pc # "unreadable"

DatabaseInv == Database!TypeOK /\ FileHasKey /\ Decryptable /\ KeyOfFile /\ ~wiped

\* The initial states satisfy the invariant: a file that is there has its key.
LEMMA InitDatabase == Database!Init => DatabaseInv
<1> SUFFICES ASSUME Database!Init PROVE DatabaseInv
  OBVIOUS
<1>1. Database!TypeOK
  <2>1. /\ prefs \in Database!SavedKey /\ disk \in Database!SavedKey /\ master \in Nat /\ made \in Nat
        /\ file \in [key : Nat, version : 0 .. Database!Version]
    <3>1. CASE file = Database!NoFile /\ prefs = Database!NoKey /\ master = 0 /\ made = 0
      BY <3>1 DEF Database!Init, Database!SavedKey, Database!NoFile, Database!NoKey, Database!Version
    <3>2. CASE /\ file \in [key : {1}, version : 1 .. Database!Version]
               /\ prefs = [key |-> 1, master |-> 1] /\ master = 1 /\ made = 1
      BY <3>2 DEF Database!Init, Database!SavedKey, Database!Version
    <3> QED BY <3>1, <3>2 DEF Database!Init
  <2>2. /\ key \in Nat /\ starts \in Nat /\ faults \in Nat
        /\ pc \in {"off", "get", "new", "built", "open", "unreadable", "invalid"}
    BY DEF Database!Init
  <2>3. {wiped, undone, failed} \subseteq BOOLEAN
    <3>1. wiped = FALSE /\ undone = FALSE /\ failed = FALSE
      BY DEF Database!Init
    <3> QED BY <3>1
  <2> QED BY <2>1, <2>2, <2>3 DEF Database!TypeOK
<1>2. FileHasKey /\ Decryptable /\ KeyOfFile /\ ~wiped
  BY DEF Database!Init, FileHasKey, Decryptable, KeyOfFile, Sound, Database!NoFile, Database!NoKey, Database!Version
<1> QED BY <1>1, <1>2 DEF DatabaseInv

\* Every step keeps it.
LEMMA NextDatabase == DatabaseInv /\ [Database!Next]_database => DatabaseInv'
<1> SUFFICES ASSUME DatabaseInv, [Database!Next]_database PROVE DatabaseInv'
  OBVIOUS
<1> USE DEF DatabaseInv, Database!TypeOK, FileHasKey, Decryptable, KeyOfFile, Sound,
        Database!SavedKey, Database!NoFile, Database!NoKey, Database!Version
<1>1. CASE Database!StartProcess
  BY <1>1 DEF Database!StartProcess
<1>2. CASE Database!getExistingKey
  <2>1. key' = 0 <=> pc' = "new"
    BY <1>2 DEF Database!getExistingKey, Database!Get
  <2>2. Sound => key' = prefs.key
    BY <1>2 DEF Database!getExistingKey, Database!Get
  <2>3. ~failed => master' = master
    BY <1>2 DEF Database!getExistingKey
  <2>4. key' \in Nat /\ pc' \in {"new", "built"}
    BY <1>2 DEF Database!getExistingKey, Database!Get
  <2> QED BY <1>2, <2>1, <2>2, <2>3, <2>4 DEF Database!getExistingKey
<1>3. CASE Database!KeystoreFails
  BY <1>3 DEF Database!KeystoreFails, Database!Get
<1>4. CASE Database!KeystoreForgets
  BY <1>4 DEF Database!KeystoreForgets
<1>5. CASE Database!storeKey
  <2>1. /\ prefs' = [key |-> made + 1, master |-> master']
        /\ key' = made + 1 /\ pc' = "built" /\ master' \in Nat /\ master' # 0
    BY <1>5 DEF Database!storeKey
  <2>2. ~failed /\ disk.key # 0 => master' = master
    BY <1>5 DEF Database!storeKey
  <2> QED BY <1>5, <2>1, <2>2 DEF Database!storeKey
<1>6. CASE Database!Open
  <2>1. CASE file = Database!NoFile /\ Database!Opens([key |-> key, version |-> Database!Version], "open") /\ UNCHANGED wiped
    BY <1>6, <2>1 DEF Database!Open, Database!Opens
  <2>2. CASE file # Database!NoFile /\ file.key # key /\ Database!Opens(file, "unreadable") /\ UNCHANGED wiped
    BY <1>6, <2>2 DEF Database!Open, Database!Opens
  <2>3. CASE /\ file.key = key /\ Database!HasPath /\ UNCHANGED wiped
             /\ IF Database!Valid THEN Database!Opens([file EXCEPT !.version = Database!Version], "open")
                         ELSE Database!Opens(file, "invalid")
    BY <1>6, <2>3 DEF Database!Open, Database!Opens
  <2>4. ASSUME file.key = key, ~Database!HasPath PROVE FALSE
    <3>1. file.version \in 1 .. Database!Version
      BY <1>6, <2>4 DEF Database!Open
    <3>2. Database!HasPath
      BY <3>1 DEF Database!HasPath, Database!ALL_MIGRATIONS
    <3> QED BY <2>4, <3>2
  <2> QED BY <1>6, <2>1, <2>2, <2>3, <2>4 DEF Database!Open
<1>7. CASE Database!Persist
  BY <1>7 DEF Database!Persist
<1>8. CASE Database!Kill
  BY <1>8 DEF Database!Kill
<1>9. CASE UNCHANGED database
  BY <1>9 DEF database
<1> QED BY <1>1, <1>2, <1>3, <1>4, <1>5, <1>6, <1>7, <1>8, <1>9 DEF Database!Next

\* The file can be read by every later process, and no update empties it
\* (DatabaseEncryptionManager.getOrCreateKey, EncryptedDatabaseFactory.create).
THEOREM KeptReadable == SpecParts => []DataKept
<1>1. InitParts => DatabaseInv
  BY InitDatabase DEF InitParts
<1>2. DatabaseInv /\ [NextParts]_parts => DatabaseInv'
  BY Separate, NextDatabase
<1>3. DatabaseInv => DataKept
  BY DEF DatabaseInv, KeyOfFile, Sound, DataKept, Database!DataKept
<1> QED BY <1>1, <1>2, <1>3, PTL DEF SpecParts
-----------------------------------------------------------------------------
(* Types of all parts.                                                      *)

LEMMA InitListTypes == InitParts => List!TypeOK
<1> SUFFICES ASSUME List!Init PROVE List!TypeOK
  BY DEF InitParts
<1>1. List!NoMembers \in [{} -> Roles] /\ {} \in SUBSET Users
  BY DEF List!NoMembers
<1>2. List!NoMembers \in List!MemberLists
  BY <1>1 DEF List!MemberLists
<1> QED BY <1>2 DEF List!Init, List!TypeOK

LEMMA NextListTypes == List!TypeOK /\ [List!Next]_list => List!TypeOK'
<1> SUFFICES ASSUME List!TypeOK, [List!Next]_list PROVE List!TypeOK'
  OBVIOUS
<1> DEFINE M == List!MemberLists
           Sync == [pc : {"unused", "delete", "insert", "done"}, list : M]
<1>1. members \in M /\ batch \subseteq M /\ sync \in [Syncs -> Sync]
  BY DEF List!TypeOK
<1>2. List!NoMembers \in M
  <2>1. List!NoMembers \in [{} -> Roles] /\ {} \in SUBSET Users
    BY DEF List!NoMembers
  <2> QED BY <2>1 DEF List!MemberLists
<1> SUFFICES members' \in M /\ batch' \subseteq M /\ sync' \in [Syncs -> Sync]
  BY DEF List!TypeOK
<1> HIDE DEF M
<1>3. ASSUME NEW s \in Syncs, NEW rows \in List!MemberLists, List!handleCommandResponse(s, rows)
      PROVE  members' \in M /\ batch' \subseteq M /\ sync' \in [Syncs -> Sync]
  BY <1>1, <1>3 DEF List!handleCommandResponse, M
<1>4. ASSUME NEW s \in Syncs, NEW pc1 \in {"insert", "done"}, List!Go(s, pc1)
      PROVE  sync' \in [Syncs -> Sync]
  BY <1>1, <1>4 DEF List!Go
<1>5. ASSUME NEW s \in Syncs, List!deleteAllForChannel(s)
      PROVE  members' \in M /\ batch' \subseteq M /\ sync' \in [Syncs -> Sync]
  <2>1. sync[s].list \in M
    BY <1>1
  <2> QED BY <1>1, <1>2, <1>4, <1>5, <2>1 DEF List!deleteAllForChannel, List!Began
<1>6. ASSUME NEW s \in Syncs, List!insertAll(s)
      PROVE  members' \in M /\ batch' \subseteq M /\ sync' \in [Syncs -> Sync]
  <2>1. sync[s].list \in M /\ batch' = batch /\ sync' \in [Syncs -> Sync]
    BY <1>1, <1>4, <1>6 DEF List!insertAll
  <2>2. PICK A \in SUBSET Users : members \in [A -> Roles]
    BY <1>1 DEF M, List!MemberLists
  <2>3. PICK B \in SUBSET Users : sync[s].list \in [B -> Roles]
    BY <2>1 DEF M, List!MemberLists
  <2>4. members' \in [A \cup B -> Roles] /\ A \cup B \in SUBSET Users
    BY <1>6, <2>2, <2>3 DEF List!insertAll
  <2>5. members' \in M
    BY <2>4 DEF M, List!MemberLists
  <2> QED BY <1>1, <2>1, <2>5
<1>7. CASE List!CloseScreen
  <2>1. \A s \in Syncs : [sync[s] EXCEPT !.pc = "done"] \in Sync
    BY <1>1
  <2> HIDE DEF Sync
  <2>2. sync' \in [Syncs -> Sync]
    BY <1>1, <1>7, <2>1 DEF List!CloseScreen
  <2> QED BY <1>1, <1>2, <1>7, <2>2 DEF List!CloseScreen
<1>8. CASE UNCHANGED list
  BY <1>1, <1>8 DEF list
<1> QED BY <1>3, <1>5, <1>6, <1>7, <1>8 DEF List!Next

\* The variables of all parts keep their types, in every part and for any bound.
THEOREM PartsTypeCorrect == SpecParts => []PartsTypeOK
<1> DEFINE Inv == /\ TrustInv /\ ScreensInv /\ List!TypeOK /\ VoiceInv
                  /\ PushInv /\ PreviewInv /\ DatabaseInv
<1>1. InitParts => Inv
  <2>1. InitParts => Init /\ Database!Init
    BY DEF InitParts
  <2> QED BY <2>1, InitTrust, InitScreens, InitListTypes, InitVoice, InitPush, InitPreviews,
             InitDatabase
<1>2. [NextParts]_parts => [Next]_vars
  BY DEF NextParts, parts
<1>3. Inv /\ [NextParts]_parts => Inv'
  BY <1>2, Separate, NextTrust, NextScreens, NextListTypes, NextVoice, NextPush, NextPreviews,
     NextDatabase
<1>4. Inv => PartsTypeOK
  BY DEF PartsTypeOK, TrustInv, ScreensInv, VoiceInv, PushInv, PreviewInv, DatabaseInv
<1> HIDE DEF Inv
<1> QED BY <1>1, <1>3, <1>4, PTL DEF SpecParts
=============================================================================
