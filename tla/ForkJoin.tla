------------------------------ MODULE ForkJoin ------------------------------
(***************************************************************************)
(* What a task system promises to the functions that launch tasks: a       *)
(* client launches tasks, each of them is run once, by anybody and in any  *)
(* order, and the client goes on when all of them have been run.           *)
(*                                                                         *)
(* runs[c] holds one number for each task that client c has launched since *)
(* its last join: how often the task has been run.                         *)
(***************************************************************************)
EXTENDS Naturals, Sequences

CONSTANTS Clients,  \* the functions that launch tasks
          Counts    \* how many tasks a launch may ask for

VARIABLE runs

Init == runs = [c \in Clients |-> << >>]

Fork(c) == \E n \in Counts :
             runs' = [runs EXCEPT ![c] = @ \o [x \in 1 .. n |-> 0]]

Run(c) == \E x \in DOMAIN runs[c] :
            /\ runs[c][x] = 0
            /\ runs' = [runs EXCEPT ![c][x] = 1]

Join(c) == /\ \A x \in DOMAIN runs[c] : runs[c][x] = 1
           /\ runs' = [runs EXCEPT ![c] = << >>]

Next == \E c \in Clients : Fork(c) \/ Run(c) \/ Join(c)

Spec == Init /\ [][Next]_runs
=============================================================================
