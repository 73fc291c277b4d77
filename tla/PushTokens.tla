----------------------------- MODULE PushTokens -----------------------------
(***************************************************************************)
(* The token for push messages: FcmRepository.kt, the messaging service    *)
(* that is told of a new token, and the screen with the switch for         *)
(* notifications. Each call runs in a coroutine; those of the screen are   *)
(* cancelled with it, and "catch (e: Exception)" catches that as well.     *)
(*                                                                         *)
(* Which token it is is left out, and so are the switches for mentions and *)
(* calls and what is shown. The server is told nothing: the calls are yet  *)
(* to be written. Firebase is external: it answers or fails.               *)
(***************************************************************************)
EXTENDS FiniteSets

CONSTANTS Jobs        \* coroutines; bound on those of a process

VARIABLES tokenState, \* _tokenState
          stored,     \* there is a token in the data store
          enabled,    \* notifications_enabled
          open,       \* the screen
          isRegistering, \* of the screen's state
          job         \* what each coroutine does, and whose it is

vars == <<tokenState, stored, enabled, open, isRegistering, job>>

TokenState == {"NotRegistered", "Registering", "Registered", "Error"}
Unused == [pc |-> "unused", by |-> "screen"]

Init ==
  /\ tokenState = "NotRegistered"
  /\ stored \in BOOLEAN /\ enabled \in BOOLEAN
  /\ open = FALSE /\ isRegistering = FALSE
  /\ job = [j \in Jobs |-> Unused]

At(j, pc) == job[j].pc = pc
Goto(j, pc) == job' = [job EXCEPT ![j].pc = pc]
Launch(j, by, pc) == At(j, "unused") /\ job' = [job EXCEPT ![j] = [pc |-> pc, by |-> by]]

\* The process dies of an exception nobody catches.
Dies == /\ tokenState' = "NotRegistered" /\ open' = FALSE /\ isRegistering' = FALSE
        /\ job' = [j \in Jobs |-> Unused]
        /\ UNCHANGED <<stored, enabled>>
-----------------------------------------------------------------------------
(* The screen and the service                                               *)

OpenScreen == /\ ~open /\ open' = TRUE
              /\ UNCHANGED <<tokenState, stored, enabled, isRegistering, job>>

\* The screen is told of the state of the token, and of every change in the data
\* store, the switches that are left out included.
Combine ==
  /\ open
  /\ isRegistering' = (tokenState = "Registering")
  /\ UNCHANGED <<tokenState, stored, enabled, open, job>>

setNotificationsEnabled(j, e) ==
  /\ open
  /\ Launch(j, "screen", IF e THEN "subscribe" ELSE "unsubscribe")
  /\ enabled' = e
  /\ UNCHANGED <<tokenState, stored, open, isRegistering>>

\* The topic "all"; its failure is not caught.
Topic(j) ==
  /\ \/ At(j, "subscribe") /\ Goto(j, "request")
     \/ At(j, "unsubscribe") /\ Goto(j, "delete")
  /\ UNCHANGED <<tokenState, stored, enabled, open, isRegistering>>

TopicFails(j) == (At(j, "subscribe") \/ At(j, "unsubscribe")) /\ Dies

refreshToken(j) ==
  /\ open
  /\ Launch(j, "screen", "request")
  /\ isRegistering' = TRUE
  /\ UNCHANGED <<tokenState, stored, enabled, open>>

onNewToken(j) ==
  /\ Launch(j, "service", "register")
  /\ UNCHANGED <<tokenState, stored, enabled, open, isRegistering>>

\* Mutant of Cancelled: a cancellation is no failure to register.
CancelledIsOver(j) == IF At(j, "caught") THEN "caught" ELSE "over"

\* Where a cancelled coroutine goes on: in the catch of registerToken(), or nowhere.
Cancelled(j) == IF At(j, "save") \/ At(j, "mark") \/ At(j, "caught") THEN "caught" ELSE "over"

CloseScreen ==
  /\ open /\ open' = FALSE /\ isRegistering' = FALSE
  /\ job' = [j \in Jobs |-> IF job[j].by = "screen" /\ ~At(j, "unused")
                            THEN [job[j] EXCEPT !.pc = Cancelled(j)] ELSE job[j]]
  /\ UNCHANGED <<tokenState, stored, enabled>>
-----------------------------------------------------------------------------
(* FcmRepository                                                            *)

\* requestNewToken(): saves what Firebase answers, and returns null if it fails.
requestNewToken(j) ==
  /\ At(j, "request")
  /\ \/ Goto(j, "register") /\ stored' = TRUE
     \/ Goto(j, "over") /\ UNCHANGED stored
  /\ UNCHANGED <<tokenState, enabled, open, isRegistering>>

registerToken(j) ==
  /\ At(j, "register")
  /\ tokenState' = "Registering"
  /\ Goto(j, "save")
  /\ UNCHANGED <<stored, enabled, open, isRegistering>>

saveTokenLocally(j) ==
  /\ At(j, "save")
  /\ \/ Goto(j, "mark") /\ stored' = TRUE
     \/ Goto(j, "caught") /\ UNCHANGED stored
  /\ UNCHANGED <<tokenState, enabled, open, isRegistering>>

Registered(j) ==
  /\ At(j, "mark")
  /\ tokenState' = "Registered"
  /\ Goto(j, "over")
  /\ UNCHANGED <<stored, enabled, open, isRegistering>>

\* The exception goes on to the caller: the service saves the token once more.
Caught(j) ==
  /\ At(j, "caught")
  /\ tokenState' = "Error"
  /\ Goto(j, IF job[j].by = "service" THEN "again" ELSE "over")
  /\ UNCHANGED <<stored, enabled, open, isRegistering>>

SaveAgain(j) == At(j, "again") /\ \/ /\ Goto(j, "over") /\ stored' = TRUE
                                     /\ UNCHANGED <<tokenState, enabled, open, isRegistering>>
                                  \/ Dies

\* deleteToken(): nothing else happens if Firebase fails.
deleteToken(j) ==
  /\ At(j, "delete")
  /\ \E next \in {"clear", "over"} : Goto(j, next)
  /\ UNCHANGED <<tokenState, stored, enabled, open, isRegistering>>

clearStoredToken(j) ==
  /\ At(j, "clear")
  /\ stored' = FALSE
  /\ Goto(j, "forget")
  /\ UNCHANGED <<tokenState, enabled, open, isRegistering>>

NotRegistered(j) ==
  /\ At(j, "forget")
  /\ tokenState' = "NotRegistered"
  /\ Goto(j, "over")
  /\ UNCHANGED <<stored, enabled, open, isRegistering>>

\* A place for another coroutine.
Over(j) == At(j, "over") /\ job' = [job EXCEPT ![j] = Unused]
           /\ UNCHANGED <<tokenState, stored, enabled, open, isRegistering>>

Step(j) == \/ Topic(j) \/ TopicFails(j) \/ requestNewToken(j) \/ registerToken(j)
           \/ saveTokenLocally(j) \/ Registered(j) \/ Caught(j) \/ SaveAgain(j)
           \/ deleteToken(j) \/ clearStoredToken(j) \/ NotRegistered(j) \/ Over(j)

Next ==
  \/ OpenScreen \/ CloseScreen \/ Combine
  \/ \E j \in Jobs : \/ refreshToken(j) \/ onNewToken(j) \/ Step(j)
                     \/ \E e \in BOOLEAN : setNotificationsEnabled(j, e)

Spec == Init /\ [][Next]_vars
-----------------------------------------------------------------------------
\* The types of the variables.
TypeOK ==
  /\ tokenState \in TokenState
  /\ {stored, enabled, open, isRegistering} \subseteq BOOLEAN
  /\ job \in [Jobs -> [pc : {"unused", "subscribe", "unsubscribe", "request", "register",
                             "save", "mark", "caught", "again", "delete", "clear", "forget",
                             "over"},
                       by : {"screen", "service"}]]

\* "Registering" does not stay: some coroutine that is still running will set
\* another state, whatever screens are closed, saves fail or coroutines of the
\* screen and the service overtake each other. This is the state of the token:
\* isRegistering of the screen, which refreshToken sets by itself, also stays when
\* Firebase gives no token, until the screen is told of something else.
RegisteringHasOwner ==
  tokenState = "Registering" => \E j \in Jobs : At(j, "save") \/ At(j, "mark") \/ At(j, "caught")
=============================================================================
