------------------------------ MODULE MCRedisQueue ------------------------------
(* Small instances of RedisQueue. *)
EXTENDS RedisQueue, TLC

CONSTANTS d1, d2, e1

OneEndpoint == [d \in Delivery |-> e1]

\* A deleted delivery's next attempt was due at the end of a lease.
LastLeftover == {<<2, d2>>}

\* Steps of the worker and of the claim before which no due key was removed.
BeforeRemoval == {"sending", "log", "pop_entry", "pop_record", "pop_write", "pop_del"}

Symmetry == Permutations(Dispatcher)
=================================================================================
