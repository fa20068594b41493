----------------------------- MODULE DeathNotice -----------------------------
(***************************************************************************)
(* What on_child_death promises (main.c): the function registered for a    *)
(* child is called once, after the child has died, and is called whatever  *)
(* else is going on.                                                       *)
(***************************************************************************)
CONSTANT Child

VARIABLES
    watched,  \* the children a function is registered for
    over      \* those of them that have died and are still to be told of

nvars == <<watched, over>>

Init == watched = {} /\ over = {}

(* A child may have died before its function is registered. *)
Watch(c) == /\ c \notin watched
            /\ watched' = watched \cup {c}
            /\ over' \in {over, over \cup {c}}

Die(c) == /\ c \in watched \ over
          /\ over' = over \cup {c}
          /\ UNCHANGED watched

Tell(c) == /\ c \in over
           /\ watched' = watched \ {c}
           /\ over' = over \ {c}

Next == \E c \in Child : Watch(c) \/ Die(c) \/ Tell(c)

Spec == Init /\ [][Next]_nvars /\ \A c \in Child : WF_nvars(Tell(c))
=============================================================================
