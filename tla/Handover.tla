------------------------------ MODULE Handover ------------------------------
(***************************************************************************)
(* What a sender may conclude from its queue, without processes, network   *)
(* or store: each item is posted once, run by the receiver, and settled    *)
(* for good by the sender.                                                 *)
(*                                                                         *)
(* An item confirmed has been run.  Of an item refused or abandoned        *)
(* nothing follows: it may have been run, may yet be, or never be.  An     *)
(* item is not run a second time before it lapses.                         *)
(***************************************************************************)
CONSTANT Items

VARIABLES
    status,     \* status[i]: what the sender made of i
    run,        \* items the receiver has run
    rerun,      \* items it has run more than once
    answered,   \* items it has answered, whatever the answer
    lapsed      \* items whose time is over

vars == <<status, run, rerun, answered, lapsed>>

Statuses == {"new", "queued", "confirmed", "refused", "abandoned"}

Init ==
    /\ status = [i \in Items |-> "new"]
    /\ run = {} /\ rerun = {} /\ answered = {}
    /\ lapsed \in SUBSET Items

Post(i) ==
    /\ status[i] = "new"
    /\ status' = [status EXCEPT ![i] = "queued"]
    /\ UNCHANGED <<run, rerun, answered, lapsed>>

\* Also after the sender has settled i: a request may be under way for long.
Run(i) ==
    /\ status[i] # "new"
    /\ IF i \in run THEN i \in lapsed /\ rerun' = rerun \cup {i} /\ run' = run
                    ELSE run' = run \cup {i} /\ rerun' = rerun
    /\ UNCHANGED <<status, answered, lapsed>>

Answer(i) ==
    /\ status[i] = "queued"
    /\ answered' = answered \cup {i}
    /\ UNCHANGED <<status, run, rerun, lapsed>>

Confirm(i) ==
    /\ status[i] = "queued" /\ i \in run /\ i \in answered
    /\ status' = [status EXCEPT ![i] = "confirmed"]
    /\ UNCHANGED <<run, rerun, answered, lapsed>>

Refuse(i) ==
    /\ status[i] = "queued" /\ i \in answered
    /\ status' = [status EXCEPT ![i] = "refused"]
    /\ UNCHANGED <<run, rerun, answered, lapsed>>

Abandon(i) ==
    /\ status[i] = "queued"
    /\ status' = [status EXCEPT ![i] = "abandoned"]
    /\ UNCHANGED <<run, rerun, answered, lapsed>>

Lapse ==
    /\ lapsed \subseteq lapsed' /\ lapsed' \subseteq Items
    /\ UNCHANGED <<status, run, rerun, answered>>

Next ==
    \/ \E i \in Items : \/ Post(i) \/ Run(i) \/ Answer(i)
                        \/ Confirm(i) \/ Refuse(i) \/ Abandon(i)
    \/ Lapse

Spec == Init /\ [][Next]_vars
=============================================================================
