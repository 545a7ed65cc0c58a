---------------------------- MODULE MCSessionStore ----------------------------
(* One window with two threads, of which one runs turns.                    *)
EXTENDS SessionStore
CONSTANTS p1, t1, t2
OneWindow == [t \in Threads |-> p1]
MCMaxLen == [t \in Threads |-> IF t = t1 THEN 2 ELSE 0]
MCMaxSaves == [t \in Threads |-> IF t = t1 THEN 3 ELSE 1]
=============================================================================
