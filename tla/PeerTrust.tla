------------------------------ MODULE PeerTrust ------------------------------
(***************************************************************************)
(* The identity key this client keeps of one peer, and whether the user    *)
(* marked the peer as verified. libsignal asks is_trusted_identity for the *)
(* key of a message and calls save_identity later, without a lock between  *)
(* them, in the coroutine of that message. Saving replaces the whole row.  *)
(* Presence, in the same row, is left out; so is the number the screen     *)
(* shows, which depends on the name of the peer alone, as no row has a     *)
(* safety number.                                                          *)
(***************************************************************************)
CONSTANTS Keys,    \* identity keys that messages of the peer name
          Uses     \* messages that are handled at once

VARIABLES row,     \* the row of peer_identities: its key and its trust
          use,     \* the messages under way
          marked,  \* history: the key in the row when it was last marked
          firsts   \* history: the keys let in while there was no row

vars == <<row, use, marked, firsts>>

NoKey == "none"
NoRow == [key |-> NoKey, trust |-> "unverified"]
Idle == [pc |-> "idle", key |-> NoKey]

Init == row = NoRow /\ use = [u \in Uses |-> Idle] /\ marked = NoKey /\ firsts = {}

LetIn(k) == firsts' = firsts \cup (IF row.key = NoKey THEN {k} ELSE {})

\* Mutant of IsTrusted: any key will do.
IsTrustedAny(u, k) ==
  /\ use[u].pc = "idle"
  /\ use' = [use EXCEPT ![u] = [pc |-> "trusted", key |-> k]]
  /\ LetIn(k)
  /\ UNCHANGED <<row, marked>>

\* Trust on first use; a message with another key is refused.
IsTrusted(u, k) ==
  /\ use[u].pc = "idle"
  /\ row.key \in {NoKey, k}
  /\ use' = [use EXCEPT ![u] = [pc |-> "trusted", key |-> k]]
  /\ LetIn(k)
  /\ UNCHANGED <<row, marked>>

\* Mutant of savePeerIdentity: the trust of the row is kept.
savePeerIdentityKeeping(u) ==
  /\ use[u].pc = "trusted"
  /\ row' = [row EXCEPT !.key = use[u].key]
  /\ use' = [use EXCEPT ![u] = Idle]
  /\ UNCHANGED <<marked, firsts>>

savePeerIdentity(u) ==
  /\ use[u].pc = "trusted"
  /\ row' = [key |-> use[u].key, trust |-> "unverified"]
  /\ use' = [use EXCEPT ![u] = Idle]
  /\ UNCHANGED <<marked, firsts>>

\* The message fails for another reason.
Fails(u) ==
  /\ use[u].pc = "trusted"
  /\ use' = [use EXCEPT ![u] = Idle]
  /\ UNCHANGED <<row, marked, firsts>>

\* An UPDATE: without a row it does nothing.
markAsVerified ==
  /\ row.key # NoKey
  /\ row' = [row EXCEPT !.trust = "verified"]
  /\ marked' = row.key
  /\ UNCHANGED <<use, firsts>>

Next ==
  \/ \E u \in Uses : savePeerIdentity(u) \/ Fails(u) \/ \E k \in Keys : IsTrusted(u, k)
  \/ markAsVerified

Spec == Init /\ [][Next]_vars
-----------------------------------------------------------------------------
\* The types of the variables.
TypeOK ==
  /\ row \in [key : Keys \cup {NoKey}, trust : {"unverified", "verified"}]
  /\ use \in [Uses -> [pc : {"idle", "trusted"}, key : Keys \cup {NoKey}]]
  /\ marked \in Keys \cup {NoKey} /\ firsts \subseteq Keys

\* A peer that counts as verified has the key it had when the user verified it,
\* also where two first messages with different keys passed the check together
\* and were saved one after the other (savePeerIdentity resets the trust).
VerifiedKeyIsCurrent == row.trust = "verified" => row.key = marked

\* Every key that is ever stored was let in while there was none: after the first
\* use no message brings a new key, whatever passed the check together. Where two
\* keys did, they may still replace each other (is_trusted_identity).
FirstUseOnly == row.key \in firsts \cup {NoKey}
=============================================================================
