--------------------------- MODULE MCIrcordSocket ---------------------------
(* TLC's instance of IrcordSocket: a dial or a read loop, a sender and a     *)
(* timer at the same time, on two sockets.                                   *)
EXTENDS IrcordSocket, TLC

Symmetry == Permutations(Tasks) \cup Permutations(Sockets)

\* attempt is read by hasAttemptsLeft alone, and seen only to write attempt, so
\* all values from MaxAttempts on are one to every step and to every property:
\* states that differ in nothing else are explored once.
Counted(n) == IF n < MaxAttempts THEN n ELSE MaxAttempts
View == <<state, shouldReconnect, hasHost, socket, output, Counted(attempt), open,
          ui, pc, own, [t \in Tasks |-> Counted(seen[t])], abandoned, crashed>>
=============================================================================
