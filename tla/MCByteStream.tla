---------------------------- MODULE MCByteStream ----------------------------
(* ByteStream for TLC: the ends of the trains, which a configuration cannot *)
(* express.                                                                 *)
EXTENDS ByteStream

\* Data of one unit, of none, and of two.
Ends == [k \in 0..3 |-> CASE k = 0 -> 0 [] k = 1 -> 3 [] k = 2 -> 5 [] k = 3 -> 9]
=============================================================================
