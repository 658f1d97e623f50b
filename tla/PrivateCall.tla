----------------------------- MODULE PrivateCall -----------------------------
(***************************************************************************)
(* What a private call promises, whatever the pages, the server and the    *)
(* network do: "A call is exactly two people - either one leaving (or      *)
(* disconnecting) ends it for both."                                       *)
(***************************************************************************)
EXTENDS Naturals, FiniteSets

CONSTANTS
  Person,  \* who may be in a call
  Call     \* the calls

VARIABLE people  \* people[c]: who is in call c

Free(s) == \A c \in Call : s \notin people[c]

Init == people = [c \in Call |-> {}]

\* Somebody who is in no call starts one.
Start(c, s) ==
  /\ people[c] = {}
  /\ Free(s)
  /\ people' = [people EXCEPT ![c] = {s}]

\* Somebody who is in no call joins one that has a single person in it.
Enter(c, s) ==
  /\ Cardinality(people[c]) = 1
  /\ Free(s)
  /\ people' = [people EXCEPT ![c] = @ \cup {s}]

\* It ends for everybody in it at once.
End(c) ==
  /\ people[c] # {}
  /\ people' = [people EXCEPT ![c] = {}]

Next == \E c \in Call : End(c) \/ \E s \in Person : Start(c, s) \/ Enter(c, s)

Spec == Init /\ [][Next]_people
=============================================================================
