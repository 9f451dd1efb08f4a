---------------------------- MODULE MCWsServer ------------------------------
(***************************************************************************)
(* Three sockets, two users, who authenticate on any of them, the two user *)
(* channels and one channel that anybody may subscribe to.                 *)
(***************************************************************************)
EXTENDS WsServer, TLC

CONSTANTS s1, s2, s3, alice, bob, forAlice, forBob, shared

MCSocket == {s1, s2, s3}
MCUser == {alice, bob}
MCChannel == {forAlice, forBob, shared}
MCOwn == alice :> forAlice @@ bob :> forBob
\* Bounds: the search stops where a channel has been raced for (channels do
\* not affect each other).  With three sockets it follows one authenticate
\* message or one socket closed too early, and with two sockets two of these:
\* two such messages, of one socket or of both, or a message and a socket closed
\* too early.
\* Every socket may authenticate by its cookie.
Attempts == {<<s, n>> \in MCSocket \X (1..MaxAttempts) : n <= attempts[s]}
Few ==
  /\ raced = {}
  /\ \/ Cardinality(late) + Cardinality(Attempts) <= 1
     \/ /\ \E s \in MCSocket : phase[s] = "new"
        /\ Cardinality(late) <= 1 /\ Cardinality(late) + Cardinality(Attempts) <= 2

\* The sockets are alike, and so are the users with their channels.
Same == [x \in MCUser \cup {forAlice, forBob} |-> x]
Swap == alice :> bob @@ bob :> alice @@ forAlice :> forBob @@ forBob :> forAlice
Alike == {p @@ q : p \in Permutations(MCSocket), q \in {Same, Swap}}
=============================================================================
