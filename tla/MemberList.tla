----------------------------- MODULE MemberList -----------------------------
(***************************************************************************)
(* The members of one channel in the local database. Each answer to NAMES  *)
(* replaces them, in two transactions of a coroutine that the chat screen  *)
(* starts: several answers may be at it at once, and a screen that is      *)
(* closed cancels its coroutines between the two. Nothing else writes:     *)
(* onUserJoined and onUserLeft are called by nobody.                       *)
(***************************************************************************)
EXTENDS FiniteSets

CONSTANTS Users, Roles,
          Syncs          \* answers to NAMES; bound on their number

VARIABLES members, \* the table: the role of each member
          sync,    \* what each answer has come to
          batch    \* history: the lists of the answers that were between their
                  \* transactions together, or of the last one

vars == <<members, sync, batch>>

NoMembers == [u \in {} |-> {}]
MemberLists == UNION {[S -> Roles] : S \in SUBSET Users}
Running(s) == sync[s].pc \in {"delete", "insert"}
AtRest == \A s \in Syncs : sync[s].pc # "insert"
Go(s, pc) == sync' = [sync EXCEPT ![s].pc = pc]

Init ==
  /\ members = NoMembers
  /\ sync = [s \in Syncs |-> [pc |-> "unused", list |-> NoMembers]]
  /\ batch = {NoMembers}

handleCommandResponse(s, list) ==
  /\ sync[s].pc = "unused"
  /\ sync' = [sync EXCEPT ![s] = [pc |-> "delete", list |-> list]]
  /\ UNCHANGED <<members, batch>>

Began(s) == batch' = {sync[s].list} \cup (IF AtRest THEN {} ELSE batch)

\* Mutant of deleteAllForChannel: nothing is deleted.
deleteNone(s) ==
  /\ sync[s].pc = "delete"
  /\ Go(s, "insert")
  /\ Began(s)
  /\ UNCHANGED members

deleteAllForChannel(s) ==
  /\ sync[s].pc = "delete"
  /\ members' = NoMembers
  /\ Go(s, "insert")
  /\ Began(s)

\* REPLACE on the user.
insertAll(s) ==
  /\ sync[s].pc = "insert"
  /\ members' = [u \in DOMAIN members \cup DOMAIN sync[s].list |->
                   IF u \in DOMAIN sync[s].list THEN sync[s].list[u] ELSE members[u]]
  /\ Go(s, "done")
  /\ UNCHANGED batch

\* The screen is closed: what is cut in the middle counts as an empty list.
CloseScreen ==
  /\ \E s \in Syncs : Running(s)
  /\ sync' = [s \in Syncs |-> IF Running(s) THEN [sync[s] EXCEPT !.pc = "done"] ELSE sync[s]]
  /\ batch' = batch \cup (IF AtRest THEN {} ELSE {NoMembers})
  /\ UNCHANGED members

Next ==
  \/ \E s \in Syncs : deleteAllForChannel(s) \/ insertAll(s)
                        \/ \E list \in MemberLists : handleCommandResponse(s, list)
  \/ CloseScreen

Spec == Init /\ [][Next]_vars
-----------------------------------------------------------------------------
\* The types of the variables.
TypeOK ==
  /\ members \in MemberLists /\ batch \subseteq MemberLists
  /\ sync \in [Syncs -> [pc : {"unused", "delete", "insert", "done"}, list : MemberLists]]

\* Outside the two transactions, every row is of the answer handled last, or of
\* those that were handled at the same time, and whoever is in all of them is in
\* the table: no row of an earlier answer survives, however the transactions
\* interleave and wherever a screen is closed (syncMemberList clears first).
NoStaleMembers ==
  AtRest => /\ \A u \in DOMAIN members :
                 \E list \in batch : u \in DOMAIN list /\ list[u] = members[u]
            /\ \A u \in Users : (\A list \in batch : u \in DOMAIN list) => u \in DOMAIN members
=============================================================================
