---------------------------- MODULE MCThreadPool ----------------------------
(***************************************************************************)
(* Instances of ThreadPool for TLC.                                        *)
(***************************************************************************)
EXTENDS ThreadPool, TLC

\* Workers and clients are interchangeable; descriptors are not, because
\* accept picks the lowest.
Symmetry == Permutations(Worker) \union Permutations(Conn)
=============================================================================
