---------------------------- MODULE MCDispatcher ----------------------------
(* An instance of Dispatcher: two events of one card, decided by two         *)
(* processes, with the delays of the code.                                   *)
EXTENDS Dispatcher

CONSTANTS approved, declined, p1, p2

OwnProcess == [e \in Events |-> IF e = approved THEN p1 ELSE p2]
Delays == <<1, 10, 60>>
=============================================================================
