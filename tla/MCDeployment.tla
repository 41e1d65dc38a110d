----------------------------- MODULE MCDeployment -----------------------------
(* Two processes: a panel beside a split worker, another panel or a command. *)
EXTENDS Deployment

CONSTANTS panel, other

MCHostOf == [c \in Caller |-> panel]

Env(command, storage, queue, dispatcher) ==
    [command |-> command, storage |-> storage, queue |-> queue, dispatcher |-> dispatcher]

Setup(a, b) == [p \in Process |-> IF p = panel THEN a ELSE b]

\* A panel that dispatches and a publisher, a replay or a listing in the shell;
\* a panel that only publishes and a split worker, which misses the control
\* plane in one of them; two processes that keep everything in memory.
MCSetups ==
    {Setup(Env("serve", "file", "unset", TRUE), Env("publish", "file", "unset", TRUE)),
     Setup(Env("serve", "redis", "redis", TRUE), Env("retry", "redis", "redis", TRUE)),
     Setup(Env("serve", "file", "unset", TRUE), Env("list-apps", "file", "unset", TRUE)),
     Setup(Env("serve", "redis", "redis", FALSE), Env("dispatch", "file", "redis", FALSE)),
     Setup(Env("serve", "file", "unset", TRUE), Env("dispatch", "file", "unset", FALSE)),
     Setup(Env("serve", "memory", "unset", TRUE), Env("publish", "memory", "unset", TRUE))}
==============================================================================
