------------------------------ MODULE MCConfig ------------------------------
(* A small instance of Config for TLC: int64 ends at 31. *)
EXTENDS Config

\* Every number that Atoi may return, and a few at the edges.
MCAll == Int64
MCEdges == {-1, 0, 5, 6, 15, 31}

\* Seconds: three of them wrap, 11 to no limit, 31 and -11 to some limit.
MCSeconds == {-11, -1, 0, 10, 11, 31}
=============================================================================
