----------------------------- MODULE ChildDeath -----------------------------
(***************************************************************************)
(* The table of children and the pipe that brings a SIGCHLD to the main    *)
(* loop (main.c).  The signal handler may run between any two steps of the *)
(* main program, and one signal may stand for many deaths: it only raises a*)
(* flag and writes a byte.  The main loop wakes up for the byte, looks at  *)
(* the flag and then asks waitpid for every child that has died.           *)
(***************************************************************************)
EXTENDS Naturals, FiniteSets

CONSTANTS
    Child,     \* the process numbers
    BufLen,    \* BUFLEN, the bytes one wake-up reads
    MaxForks   \* bound: children that are forked

ASSUME ChildDeathAssumption == BufLen \in Nat \ {0} /\ MaxForks \in Nat

VARIABLES
    proc,   \* each process: none, running or zombie
    table,  \* death_callbacks
    signal, \* SIGCHLD is pending
    flag,   \* child_died_flag
    pipe,   \* the bytes in the wake-up pipe
    pc,     \* where the main program is
    fresh,  \* the child just forked, not yet registered
    forks

deathVars == <<proc, table, signal, flag, pipe, pc, fresh, forks>>

Zombies == {c \in Child : proc[c] = "zombie"}

DeathInit ==
    /\ proc = [c \in Child |-> "none"]
    /\ table = {}
    /\ signal = FALSE /\ flag = FALSE
    /\ pipe = 0
    /\ pc = "loop"
    /\ fresh = {}
    /\ forks = 0

(* Something the main loop runs forks a child. *)
Fork(c) ==
    /\ pc = "loop" /\ proc[c] = "none" /\ forks < MaxForks
    /\ proc' = [proc EXCEPT ![c] = "running"]
    /\ pc' = "forked" /\ fresh' = {c} /\ forks' = forks + 1
    /\ UNCHANGED <<table, signal, flag, pipe>>

(* on_child_death; children nobody asks about are not registered. *)
Register ==
    /\ pc = "forked"
    /\ UNCHANGED table \/ \E c \in fresh : table' = table \cup {c}
    /\ pc' = "loop" /\ fresh' = {}
    /\ UNCHANGED <<proc, signal, flag, pipe, forks>>

ChildExits(c) ==
    /\ proc[c] = "running"
    /\ proc' = [proc EXCEPT ![c] = "zombie"]
    /\ signal' = TRUE
    /\ UNCHANGED <<table, flag, pipe, pc, fresh, forks>>

(* The signal handler child_died. *)
ChildDied ==
    /\ signal
    /\ signal' = FALSE /\ flag' = TRUE /\ pipe' = pipe + 1
    /\ UNCHANGED <<proc, table, pc, fresh, forks>>

(* wake_up_cb reads what is in the pipe... *)
WakeUp ==
    /\ pc = "loop" /\ pipe > 0
    /\ pipe' = IF pipe > BufLen THEN pipe - BufLen ELSE 0
    /\ pc' = "woken"
    /\ UNCHANGED <<proc, table, signal, flag, fresh, forks>>

(* ... and tests the flag. *)
TestFlag ==
    /\ pc = "woken"
    /\ pc' = IF flag THEN "died" ELSE "loop"
    /\ UNCHANGED <<proc, table, signal, flag, pipe, fresh, forks>>

(* child_died_callback takes the flag down before it looks... *)
ClearFlag ==
    /\ pc = "died"
    /\ flag' = FALSE /\ pc' = "reaping"
    /\ UNCHANGED <<proc, table, signal, pipe, fresh, forks>>

(* Mutant: one death for each wake-up. *)
ReapOnly(c) ==
    /\ pc = "reaping" /\ proc[c] = "zombie"
    /\ proc' = [proc EXCEPT ![c] = "none"]
    /\ table' = table \ {c}
    /\ pc' = "loop"
    /\ UNCHANGED <<signal, flag, pipe, fresh, forks>>

(* ... and asks for one child after another, calling what is registered. *)
Reap(c) ==
    /\ pc = "reaping" /\ proc[c] = "zombie"
    /\ proc' = [proc EXCEPT ![c] = "none"]
    /\ table' = table \ {c}
    /\ UNCHANGED <<signal, flag, pipe, pc, fresh, forks>>

ReapNone ==
    /\ pc = "reaping" /\ Zombies = {}
    /\ pc' = "loop"
    /\ UNCHANGED <<proc, table, signal, flag, pipe, fresh, forks>>

MainStep == Register \/ WakeUp \/ TestFlag \/ ClearFlag \/ ReapNone \/ \E c \in Child : Reap(c)

DeathNext ==
    \/ MainStep
    \/ ChildDied
    \/ \E c \in Child : Fork(c) \/ ChildExits(c)

(* The main loop goes on and a signal is delivered. *)
DeathFairness == WF_deathVars(MainStep) /\ WF_deathVars(ChildDied)

DeathSpec == DeathInit /\ [][DeathNext]_deathVars /\ DeathFairness

--------------------
DeathTypeOK ==
    /\ proc \in [Child -> {"none", "running", "zombie"}]
    /\ table \subseteq Child /\ fresh \subseteq Child
    /\ signal \in BOOLEAN /\ flag \in BOOLEAN
    /\ pipe \in Nat /\ forks \in Nat
    /\ pc \in {"loop", "forked", "woken", "died", "reaping"}

(* While a child waits to be reaped something will make the main loop look:*)
(* the signal has not come yet, or the flag is up and a byte is there or   *)
(* has just been read, or the main loop is looking already.                *)
NoLostWakeUp == Zombies # {} =>
    \/ signal
    \/ flag /\ (pipe > 0 \/ pc = "woken")
    \/ pc \in {"died", "reaping"}

(* on_child_death keeps its promise. *)
Notice == INSTANCE DeathNotice WITH watched <- table, over <- {c \in table : proc[c] = "zombie"}
NoticeSpec == Notice!Spec
=============================================================================
