------------------------------- MODULE MCWorker --------------------------------
(***************************************************************************)
(* Small instances of Worker for TLC.                                      *)
(***************************************************************************)
EXTENDS Worker, TLC

CONSTANTS t1, t2,    \* tasks
          w1, w2,    \* workers
          l1, l2,    \* lanes: slots of a worker
          main, high \* queues: main is the default one

Symmetry == Permutations({w1, w2}) \cup Permutations({l1, l2})

OneOfEach == [t \in {t1, t2} |-> IF t = t1 THEN ALO ELSE AMO]
BothALO == [t \in {t1, t2} |-> ALO]
OnlyALO == [t \in {t1} |-> ALO]
OnlyAMO == [t \in {t1} |-> AMO]

\* Everything on the default queue.
AllMain == [w \in {w1, w2} |-> main]
OneMain == [t \in Tasks |-> main]

\* Everything on a queue of its own.
AllHigh == [w \in {w1, w2} |-> high]
OneHigh == [t \in Tasks |-> high]
================================================================================
