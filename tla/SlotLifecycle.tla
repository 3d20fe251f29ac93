--------------------------- MODULE SlotLifecycle ---------------------------
(***************************************************************************)
(* What the resource manager promises about connection slots              *)
(* (src/src/resource.rs): a counting semaphore with MaxConnections        *)
(* permits backs admission; acquire_connection_slot never blocks and       *)
(* either hands out one permit or refuses; the ConnectionSlot handle       *)
(* releases exactly one permit when it is dropped; the number of free      *)
(* permits is the ground truth for the number of admitted connections.     *)
(* The process may halt (runtime shutdown), which drops every handle at    *)
(* once and ends the behaviour.                                            *)
(***************************************************************************)
EXTENDS Naturals

CONSTANTS Conns,          \* the connections that may ask for a slot
          MaxConnections  \* config.server.max_connections

ASSUME MaxConnections \in Nat \ {0}

VARIABLES holders,  \* connections that currently own a permit
          released, \* connections whose permit has been given back
          free,     \* permits available in the semaphore
          halted    \* the runtime has shut down

vars == <<holders, released, free, halted>>

TypeOK ==
    /\ holders \subseteq Conns
    /\ released \subseteq Conns
    /\ free \in 0..MaxConnections
    /\ halted \in BOOLEAN

Init ==
    /\ holders = {}
    /\ released = {}
    /\ free = MaxConnections
    /\ halted = FALSE

\* try_acquire_owned succeeds: one permit moves to the new handle.
Acquire(c) ==
    /\ ~halted
    /\ c \notin holders \cup released
    /\ free > 0
    /\ holders' = holders \cup {c}
    /\ free' = free - 1
    /\ UNCHANGED <<released, halted>>

\* The ConnectionSlot is dropped: exactly its one permit returns.
Release(c) ==
    /\ ~halted
    /\ c \in holders
    /\ holders' = holders \ {c}
    /\ released' = released \cup {c}
    /\ free' = free + 1
    /\ UNCHANGED halted

\* The runtime is dropped; nothing happens afterwards.
Halt ==
    /\ ~halted
    /\ halted' = TRUE
    /\ UNCHANGED <<holders, released, free>>

Next ==
    \/ \E c \in Conns : Acquire(c) \/ Release(c)
    \/ Halt

Spec == Init /\ [][Next]_vars
=============================================================================
