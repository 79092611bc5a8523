--------------------------- MODULE MCTokenProvider ---------------------------
(***************************************************************************)
(* Instances of TokenProvider for TLC: two processes with one thread each  *)
(* (the server and `doctor`), named alike, or one server with one or two   *)
(* worker threads.                                                         *)
(***************************************************************************)
EXTENDS TokenProvider, TLC

CONSTANTS serve, doctor, w1, w2

OneEach    == [t \in {serve, doctor} |-> t]
OneWorker  == [t \in {w1} |-> serve]
TwoWorkers == [t \in {w1, w2} |-> serve]

ProcessSymmetry == Permutations({serve, doctor})
==============================================================================
