------------------------------ MODULE Releases ------------------------------
(* What latest/airymaxrt promises to whoever starts the program: releases    *)
(* that become ready once, and a link that goes from a ready one to a ready  *)
(* one in a single step. No processes, locks, intents, deaths or times here, *)
(* and nothing of what is inside a release. The promise is made as long as   *)
(* updates were kept apart and every release could be marked.                *)

CONSTANTS Release,   \* what may be put under releases/
          Initial    \* the one that is there at the start

VARIABLES ready,     \* releases that may be started
          current,   \* the one that is started
          kept       \* updates were kept apart and their marks were written

vars == <<ready, current, kept>>

Init == ready = {Initial} /\ current = Initial /\ kept = TRUE

\* A release is published once, under a name that nothing ready has
Publish(n) == /\ kept /\ n \notin ready /\ ready' = ready \cup {n}
              /\ UNCHANGED <<current, kept>>

Switch(n) == /\ kept /\ n \in ready /\ current' = n
             /\ UNCHANGED <<ready, kept>>

\* What is started is never withdrawn
Withdraw(n) == /\ kept /\ n \in ready \ {current} /\ ready' = ready \ {n}
               /\ UNCHANGED <<current, kept>>

Collide == kept /\ kept' = FALSE /\ UNCHANGED <<ready, current>>

\* Nothing is promised any more
Apart == ~kept /\ ~kept'

Next == Collide \/ Apart \/ \E n \in Release : Publish(n) \/ Switch(n) \/ Withdraw(n)

Spec == Init /\ [][Next]_vars
=============================================================================
