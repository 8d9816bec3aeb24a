------------------------------ MODULE RecordHistory ----------------------------
(***************************************************************************)
(* What a record store promises of the power: a write or a deletion is     *)
(* seen at once; a loss of power takes the store back to how an earlier    *)
(* operation left it, never to a mixture, and never to before the last     *)
(* write-through or the last start.  Only a change that the loss cuts off  *)
(* may also be found made, on top of all before it.                        *)
(***************************************************************************)
EXTENDS Sequences

CONSTANTS
    Keys, Values, None,
    NoChange    \* what cut is otherwise

VARIABLES
    store,      \* what is read: a value of each key, or None
    behind,     \* the stores that a loss of power may leave, oldest first
    cut         \* the change that a loss of power, the step before, cut off but left made

vars == <<store, behind, cut>>

Changes == Keys \X (Values \cup {None})

Init ==
    /\ store \in [Keys -> Values \cup {None}]
    /\ behind = <<store>>
    /\ cut = NoChange

\* A write, or the deletion of a record that exists.
CanBeMade(c) == c[2] # None \/ store[c[1]] # None

Made(c) == [store EXCEPT ![c[1]] = c[2]]

Change(c) ==
    /\ CanBeMade(c)
    /\ store' = Made(c)
    /\ behind' = Append(behind, store')
    /\ cut' = NoChange

WriteThrough == behind' = <<store>> /\ cut' = NoChange /\ UNCHANGED store

\* Only of the change under way can the outcome be new: whoever refines this says in
\* cut which one that was.
PowerLoss ==
    /\ \/ \E i \in DOMAIN behind : store' = behind[i] /\ cut' = NoChange
       \/ \E c \in Changes : CanBeMade(c) /\ store' = Made(c) /\ cut' = c
    /\ behind' = <<store'>>

Next ==
    \/ \E c \in Changes : Change(c)
    \/ WriteThrough
    \/ PowerLoss

Spec == Init /\ [][Next]_vars
================================================================================
