---------------------------- MODULE MCEventQueue -----------------------------
(***************************************************************************)
(* Two callers, one event thread, at most two events on their way; and one *)
(* of the queue's users, Psi, for which the queue is the FIFO that it      *)
(* implements.  A behaviour is of the one or of the other.                 *)
(***************************************************************************)
EXTENDS EventQueue, Psi

CONSTANTS c1, c2, thread, play, exit

VARIABLE part           \* which of the two

MCCallers == {c1, c2}
MCEvents == {play, exit}
MCWaitTimes == {0, 5}

QueueInit == part \in {"queue", "psi"} /\ Init /\ PsiInit

QueueNext ==
    /\ UNCHANGED part
    /\ \/ part = "queue" /\ Next /\ UNCHANGED psiVars
       \/ part = "psi" /\ PsiNext /\ UNCHANGED vars

QueueSpec ==
    /\ QueueInit /\ [][QueueNext]_<<part, vars, psiVars>>
    /\ part = "queue" => Fairness
    /\ part = "psi" => PsiFairness
==============================================================================
