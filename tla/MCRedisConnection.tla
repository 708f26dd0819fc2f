-------------------------- MODULE MCRedisConnection --------------------------
(***************************************************************************)
(* Instances of RedisConnection for TLC.                                   *)
(***************************************************************************)
EXTENDS RedisConnection, TLC

\* Commands are interchangeable.
Symmetry == Permutations(Cmds)
=============================================================================
