---------------------------- MODULE TaskLifecycle ----------------------------
(* What airy_cli promises about a turn, without threads, calls or flags: a   *)
(* turn opens, closes early or launches the DAG sched_d holds for it, judges *)
(* that DAG once, truthfully, and only a judged result is ever learned.      *)
EXTENDS Naturals

CONSTANT MaxTurns

VARIABLES cur,       \* the current turn
          phase,     \* "idle", "open", "executing" or "closing"
          dag,       \* sched_d's DAG of each turn
          verdict,   \* what the user was told
          absorbed   \* what sched_d learned

vars == <<cur, phase, dag, verdict, absorbed>>

Turns  == 1..MaxTurns
Failed == {"failed", "canceled"}
Early  == {"replayed", "answered", "chatFail", "planFail", "submitFail"}
Judged == {"aborted", "success", "bad", "noResult"}

Init == /\ cur = 0 /\ phase = "idle"
        /\ dag = [t \in Turns |-> "none"]
        /\ verdict = [t \in Turns |-> "none"]
        /\ absorbed = [t \in Turns |-> "none"]

Open == /\ phase = "idle" /\ cur < MaxTurns
        /\ phase' = "open" /\ cur' = cur + 1
        /\ UNCHANGED <<dag, verdict, absorbed>>

\* A verdict is given once
Decide(v) == verdict[cur] = "none" /\ verdict' = [verdict EXCEPT ![cur] = v]

CloseEarly(v) == /\ phase = "open" /\ phase' = "idle"
                 /\ Decide(v)
                 /\ UNCHANGED <<cur, dag, absorbed>>

Launch == /\ phase = "open" /\ dag[cur] # "none"
          /\ phase' = "executing"
          /\ UNCHANGED <<cur, dag, verdict, absorbed>>

Judge(v) == /\ phase = "executing" /\ phase' = "closing"
            /\ (v = "success" => dag[cur] = "completed")
            /\ (v = "bad" => dag[cur] \in Failed)
            /\ Decide(v)
            /\ UNCHANGED <<cur, dag, absorbed>>

Finish == /\ phase = "closing" /\ phase' = "idle"
          /\ UNCHANGED <<cur, dag, verdict, absorbed>>

\* At most one DAG per turn, and its end is final
Start(t) == /\ t <= cur /\ dag[t] = "none"
            /\ dag' = [dag EXCEPT ![t] = "running"]
            /\ UNCHANGED <<cur, phase, verdict, absorbed>>

End(t, s) == /\ dag[t] = "running"
             /\ dag' = [dag EXCEPT ![t] = s]
             /\ UNCHANGED <<cur, phase, verdict, absorbed>>

Learn(t, fact) == /\ absorbed[t] = "none"
                  /\ verdict[t] = IF fact = "good" THEN "success" ELSE "bad"
                  /\ absorbed' = [absorbed EXCEPT ![t] = fact]
                  /\ UNCHANGED <<cur, phase, dag, verdict>>

Next == \/ Open \/ Launch \/ Finish
        \/ \E v \in Early : CloseEarly(v)
        \/ \E v \in Judged : Judge(v)
        \/ \E t \in Turns : Start(t)
        \/ \E t \in Turns, s \in Failed \cup {"completed"} : End(t, s)
        \/ \E t \in Turns, fact \in {"good", "bad"} : Learn(t, fact)

Spec == Init /\ [][Next]_vars
=============================================================================
