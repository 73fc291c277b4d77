---------------------------- MODULE LinkPreviews ----------------------------
(***************************************************************************)
(* The preview of one link: getLinkPreview() of LinkPreviewRepository.kt   *)
(* with its table, and the chat screens that fetch previews for their      *)
(* messages. A screen asks for a preview whenever its messages, the        *)
(* connection or the voice state change and it has none yet, also while it *)
(* waits for one. The switch for previews is on.                           *)
(*                                                                         *)
(* What a preview says is left out; parsing a page succeeds or throws,     *)
(* which is a failed fetch. A screen shows a preview with messages that    *)
(* were mapped after it had come: nothing maps them when it comes.         *)
(***************************************************************************)
EXTENDS FiniteSets

CONSTANTS Chats,    \* chat screens
          Fetches   \* calls of getLinkPreview(); bound on their number

VARIABLES open,     \* the screens that are open
          known,    \* screens with the preview in uiState.linkPreviews
          shown,    \* screens that show it with their messages
          row,      \* the row of the link in the table
          fetch,    \* what each call does, and for whom
          crossed   \* history: two calls went to the network at once

vars == <<open, known, shown, row, fetch, crossed>>

Unused == [pc |-> "unused", view |-> CHOOSE v \in Chats : TRUE]
Row == {"none", "fresh", "expired", "error"}

Init ==
  /\ open = {} /\ known = {} /\ shown = {}
  /\ row = "none"
  /\ fetch = [f \in Fetches |-> Unused]
  /\ crossed = FALSE

At(f, pc) == fetch[f].pc = pc
Goto(f, pc) == fetch' = [fetch EXCEPT ![f].pc = pc]
-----------------------------------------------------------------------------
OpenScreen(v) ==
  /\ v \notin open
  /\ open' = open \cup {v}
  /\ known' = known \ {v} /\ shown' = shown \ {v}
  /\ UNCHANGED <<row, fetch, crossed>>

\* Its coroutines end where they wait, so that they write nothing any more.
CloseScreen(v) ==
  /\ v \in open
  /\ open' = open \ {v}
  /\ fetch' = [f \in Fetches |-> IF fetch[f].view = v /\ ~At(f, "unused")
                                 THEN [fetch[f] EXCEPT !.pc = "over"] ELSE fetch[f]]
  /\ UNCHANGED <<known, shown, row, crossed>>

\* The flow of messages, connection and voice emits: messages are mapped first.
\* fetchLinkPreview() looks for a preview, and not for a coroutine that fetches it.
Combine(v) ==
  /\ v \in open
  /\ shown' = IF v \in known THEN shown \cup {v} ELSE shown
  /\ IF v \in known THEN UNCHANGED fetch
     ELSE \E f \in Fetches : At(f, "unused") /\ fetch' = [fetch EXCEPT ![f] = [pc |-> "look", view |-> v]]
  /\ UNCHANGED <<open, known, row, crossed>>

Loading == {f \in Fetches : At(f, "fetch") \/ At(f, "success") \/ At(f, "error")}

\* Mutant of getByUrl: the table is not looked at.
getByUrlNever(f) ==
  /\ At(f, "look")
  /\ Goto(f, "fetch")
  /\ crossed' = (crossed \/ Loading # {})
  /\ UNCHANGED <<open, known, shown, row>>

\* A row with an error is as good as none.
getByUrl(f) ==
  /\ At(f, "look")
  /\ IF row = "fresh" THEN Goto(f, "answer") /\ UNCHANGED crossed
                      ELSE Goto(f, "fetch") /\ crossed' = (crossed \/ Loading # {})
  /\ UNCHANGED <<open, known, shown, row>>

fetchOgMetadata(f) ==
  /\ At(f, "fetch")
  /\ \E result \in {"success", "error"} : Goto(f, result)
  /\ UNCHANGED <<open, known, shown, row, crossed>>

\* insert() replaces the row.
insert(f) ==
  /\ \/ At(f, "success") /\ row' = "fresh" /\ Goto(f, "answer")
     \/ At(f, "error") /\ row' = "error" /\ Goto(f, "over")
  /\ UNCHANGED <<open, known, shown, crossed>>

Answer(f) ==
  /\ At(f, "answer")
  /\ known' = known \cup {fetch[f].view}
  /\ Goto(f, "over")
  /\ UNCHANGED <<open, shown, row, crossed>>

\* A day has passed.
isExpired ==
  /\ row = "fresh" /\ row' = "expired"
  /\ UNCHANGED <<open, known, shown, fetch, crossed>>

\* A place for another call.
Over(f) == At(f, "over") /\ Goto(f, "unused") /\ UNCHANGED <<open, known, shown, row, crossed>>

Next ==
  \/ isExpired
  \/ \E v \in Chats : OpenScreen(v) \/ CloseScreen(v) \/ Combine(v)
  \/ \E f \in Fetches : getByUrl(f) \/ fetchOgMetadata(f) \/ insert(f) \/ Answer(f) \/ Over(f)

Spec == Init /\ [][Next]_vars
-----------------------------------------------------------------------------
\* The types of the variables.
TypeOK ==
  /\ open \subseteq Chats /\ known \subseteq Chats /\ shown \subseteq Chats
  /\ row \in Row /\ crossed \in BOOLEAN
  /\ fetch \in [Fetches -> [pc : {"unused", "look", "fetch", "success", "error", "answer", "over"},
                            view : Chats]]

\* A preview in the table lasts its day: no site that has become unreachable
\* replaces it by an error, whatever screens ask for it, are closed while they
\* wait and ask again; unless two of them went to the network at once.
PreviewKept == [][~crossed' /\ row = "fresh" => row' \in {"fresh", "expired"}]_vars
=============================================================================
