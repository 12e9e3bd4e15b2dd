------------------------------- MODULE Turns -------------------------------
(***************************************************************************)
(* What models.Gate promises to its users, without mutexes or channels:    *)
(* the emulator and the debugger clients take turns.  A client may give    *)
(* its turn back and ask for another one; the emulator's next turn then    *)
(* starts, and once it ends every client that asked is due: the emulator   *)
(* takes no further turn before each of them has had its own.              *)
(***************************************************************************)

CONSTANTS Clients, Main, NoOne

VARIABLES owner,   \* whose turn it is: Main, a client or NoOne
          asked,   \* clients that want a turn when Main's next one ends
          due      \* clients that Main owes a turn before its next one

turns == <<owner, asked, due>>

TurnsInit == owner = NoOne /\ asked = {} /\ due = {}

MainTakes ==
  /\ owner = NoOne
  /\ due = {}
  /\ owner' = Main
  /\ UNCHANGED <<asked, due>>

MainGives ==
  /\ owner = Main
  /\ owner' = NoOne
  /\ due' = asked
  /\ asked' = {}

ClientTakes(c) ==
  /\ owner = NoOne
  /\ c \notin asked
  /\ owner' = c
  /\ due' = due \ {c}
  /\ UNCHANGED asked

ClientGives(c) ==
  /\ owner = c
  /\ owner' = NoOne
  /\ asked' \in {asked, asked \cup {c}}
  /\ UNCHANGED due

\* A client that holds nothing asks for the turn after the one Main has now.
ClientAsks(c) ==
  /\ owner = Main
  /\ c \notin due
  /\ asked' = asked \cup {c}
  /\ UNCHANGED <<owner, due>>

TurnsNext ==
  \/ MainTakes
  \/ MainGives
  \/ \E c \in Clients : ClientTakes(c) \/ ClientGives(c) \/ ClientAsks(c)

TurnsSpec == TurnsInit /\ [][TurnsNext]_turns
============================================================================
