------------------------------ MODULE ThreadLog ------------------------------
(***************************************************************************)
(* What the session store promises of the threads' histories, without      *)
(* files, workers or an index: a thread grows in memory, or falls back     *)
(* when a turn fails, and is saved now and then; what is kept of it is one *)
(* of its saves and only moves forward to later ones; and opening it       *)
(* again, after a quit or a crash, gives exactly what was kept.            *)
(* SessionStore implements it.                                             *)
(***************************************************************************)
EXTENDS Naturals, Sequences

CONSTANT Threads

VARIABLES live,  \* the length of the history that the running program has of a thread
          log,   \* the histories it has asked to save, in order
          kept   \* the number of the save that outlives it; Nothing: none yet

Nothing == 0

Init == /\ live = [t \in Threads |-> 0]
        /\ log = [t \in Threads |-> <<>>]
        /\ kept = [t \in Threads |-> Nothing]

Grow(t) == /\ live' = [live EXCEPT ![t] = @ + 1]
           /\ UNCHANGED <<log, kept>>

\* With a message more, or fewer, or as it is.
Save(t) == \E n \in 0..(live[t] + 1) :
             /\ live' = [live EXCEPT ![t] = n]
             /\ log' = [log EXCEPT ![t] = Append(@, n)]
             /\ UNCHANGED kept

Keep(t) == \E n \in (kept[t] + 1)..Len(log[t]) :
             /\ kept' = [kept EXCEPT ![t] = n]
             /\ UNCHANGED <<live, log>>

Reopen == \E S \in SUBSET Threads :
            /\ live' = [t \in Threads |->
                          IF t \notin S THEN live[t]
                          ELSE IF kept[t] = Nothing THEN 0 ELSE log[t][kept[t]]]
            /\ UNCHANGED <<log, kept>>

Next == Reopen \/ \E t \in Threads : Grow(t) \/ Save(t) \/ Keep(t)

Spec == Init /\ [][Next]_<<live, log, kept>>
=============================================================================
