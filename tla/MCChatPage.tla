------------------------------- MODULE MCChatPage -------------------------------
EXTENDS ChatPage

(* The user, and a peer who has logged in under two names with one key.    *)
CONSTANTS me, c1, c2, mine, theirs

MCKeyOf == [c \in Contact |-> IF c = me THEN mine ELSE theirs]

(* Threads and texts are interchangeable.                                  *)
Symmetry == Permutations(Worker) \cup Permutations(Text)
=============================================================================
