------------------------------ MODULE RedisQueue ------------------------------
(***************************************************************************)
(* The delivery queue on Redis (src/storage/redis.ts): every due key is    *)
(* mirrored into a sorted set by a second command, and claimDue pops       *)
(* members of that set with a script, then claims each delivery command    *)
(* by command. Everything after the claim, and the control-plane calls,    *)
(* are those of DeliveryQueue, each of whose writes of the due index       *)
(* leaves one command of its mirror still to be sent.                      *)
(***************************************************************************)
EXTENDS DeliveryQueue

CONSTANTS
    MirrorCrashPoints,  \* steps whose mirror command may fail after them
    Leftover            \* due keys of applications deleted before

ASSUME MirrorAssumption == MirrorCrashPoints \subseteq JobPc /\ "off" \notin CrashPoints
ASSUME LeftoverAssumption == Leftover \subseteq Nat \X Delivery /\ IsFiniteSet(Leftover)
ASSUME ActorsAssumption == Dispatcher \cap Caller = {}

VARIABLES
    zset,               \* the sorted set: due keys and their scores
    mirror,             \* per actor and delivery: the second command, not sent yet
    pop                 \* per dispatcher: the claimDue it is in

redisVars == <<vars, zset, mirror, pop>>

Actor == Dispatcher \cup Caller
Key == Nat \X Delivery

NoCommand == [op |-> "none"]
Zadd(k) == [op |-> "zadd", key |-> k]
Zrem(k) == [op |-> "zrem", key |-> k]

PopPc == {"off", "pop_entry", "pop_record", "pop_write", "pop_del", "pop_zrem", "pop_set", "pop_zadd",
          "pop_sweep_del", "pop_sweep_zrem"}

NoPop == [pc |-> "off", now |-> 0, todo |-> {}, key |-> <<>>,
          seen |-> AbsentRecord, claimed |-> {}]

\* What the variables of this module can hold, beside those of DeliveryQueue.
RedisTypeOK ==
    /\ TypeOK
    /\ zset \subseteq [key : Key, score : Nat]
    /\ mirror \in [Actor -> [Delivery -> {NoCommand} \cup
                    [op : {"zadd", "zrem"}, key : TimeOrNone \X Delivery]]]
    /\ \A p \in Dispatcher : pop[p].pc \in PopPc /\ pop[p].claimed \subseteq Delivery

\* deleteApplication removed the Leftover keys, and the process died before it removed
\* their members. Nothing else is left of their deliveries, and no id is used again.
Deleted == {k[2] : k \in Leftover}

RedisInit ==
    /\ Init
    /\ zset = {[key |-> k, score |-> k[1]] : k \in Leftover}
    /\ mirror = [a \in Actor |-> [d \in Delivery |-> NoCommand]]
    /\ pop = [p \in Dispatcher |-> NoPop]

------------------------------------------------------------------------------
(* The sorted set beside the due keys: setItem and removeItem *)

Members == {m.key : m \in zset}

\* Mutants: nothing is added; the member surfaces at once.
PutNothing(k, score) == zset
PutAtZero(k, score) == {m \in zset : m.key # k} \cup {[key |-> k, score |-> 0]}

Put(k, score) == {m \in zset : m.key # k} \cup {[key |-> k, score |-> score]}

Drop(k) == {m \in zset : m.key # k}

\* The due key a worker writes or removes in its next step, if it is such a step.
WorkerCommand(p, d) ==
    CASE pc[p][d] \in {"hold_unindex", "unindex_lease"} -> Zrem(<<snap[p][d].leaseUntil, d>>)
      [] pc[p][d] = "unindex_next" -> Zrem(<<snap[p][d].nextAttemptAt, d>>)
      [] pc[p][d] \in {"hold_index", "index"} -> Zadd(<<plan[p][d].next, d>>)
      [] OTHER -> NoCommand

CallCommand(c, d) ==
    IF CallAt(c, d, "call_index") THEN Zadd(<<call[c][d].at, d>>) ELSE NoCommand

\* The first command of setItem or removeItem is sent: the mirror's is next.
Leaves(a, d, command) ==
    /\ mirror[a][d] = NoCommand
    /\ mirror' = [mirror EXCEPT ![a][d] = command]

\* ZADD with the time in the key as its score, or ZREM.
MirrorSent(a, d) ==
    /\ mirror[a][d] # NoCommand
    /\ zset' = IF mirror[a][d].op = "zadd"
               THEN Put(mirror[a][d].key, mirror[a][d].key[1])
               ELSE Drop(mirror[a][d].key)
    /\ mirror' = [mirror EXCEPT ![a][d] = NoCommand]
    /\ UNCHANGED <<vars, pop>>

\* The connection is lost between the two commands: the worker drops the claim.
MirrorLost(p, d) ==
    /\ mirror[p][d] # NoCommand
    /\ pc[p][d] \in MirrorCrashPoints
    /\ Finish(p, d)
    /\ mirror' = [mirror EXCEPT ![p][d] = NoCommand]
    /\ UNCHANGED <<clock, rec, due, attempts, endpoint, call, requeues, zset, pop>>

------------------------------------------------------------------------------
(* claimDue *)

Popping(p, step) == pop[p].pc = step
Popped(p) == pop[p].key[2]

\* Only the claim moves.
PopOnly == UNCHANGED <<clock, attempts, endpoint, plan, begun, call, requeues, mirror>>

PopGoto(p, step, seen) ==
    pop' = [pop EXCEPT ![p] = [@ EXCEPT !.pc = step, !.seen = seen]]

\* The loop takes the next member, or ends with what it has claimed.
PopContinue(p, todo, claimed) ==
    IF todo = {}
    THEN /\ pop' = [pop EXCEPT ![p] = NoPop]
         /\ pc' = [pc EXCEPT ![p] = [d \in Delivery |->
                        IF d \in claimed THEN "queued" ELSE "idle"]]
    ELSE /\ \E k \in todo :
            pop' = [pop EXCEPT ![p] = [@ EXCEPT !.pc = "pop_entry", !.todo = todo \ {k}, !.key = k,
                                               !.claimed = claimed]]
         /\ UNCHANGED pc

\* Mutant: the popped members stay where they are.
RepositionedNot(popped, score) == zset

\* The script moves what it pops to the lease expiry.
Repositioned(popped, score) ==
    {m \in zset : m \notin popped} \cup {[key |-> m.key, score |-> score] : m \in popped}

\* CLAIM_SCRIPT: up to BatchSize members not later than now, lowest scores first.
\* (Members of one score come by key, which is left open here.)
RunScript(p) ==
    /\ \A d \in Delivery : pc[p][d] = "idle" /\ mirror[p][d] = NoCommand
    /\ Popping(p, "off")
    /\ \E nowMs \in IF Prompt THEN {clock} ELSE 0 .. clock :
        LET ripe == {m \in zset : m.score <= nowMs} IN
        /\ ripe # {}
        /\ \E popped \in SUBSET ripe :
            /\ Cardinality(popped) <= BatchSize
            /\ popped # ripe => Cardinality(popped) = BatchSize
            /\ \A m \in popped, n \in ripe \ popped : m.score <= n.score
            /\ zset' = Repositioned(popped, nowMs + leaseMs)
            /\ \E m \in popped :
                pop' = [pop EXCEPT ![p] =
                    [NoPop EXCEPT !.pc = "pop_entry", !.now = nowMs, !.key = m.key,
                                  !.todo = {n.key : n \in popped} \ {m.key}]]
    /\ UNCHANGED <<rec, due, pc, snap>>
    /\ PopOnly

\* The due key behind the member; without one the member is swept.
PopEntry(p) ==
    /\ Popping(p, "pop_entry")
    /\ PopGoto(p, IF pop[p].key \in due THEN "pop_record" ELSE "pop_sweep_zrem", AbsentRecord)
    /\ UNCHANGED <<rec, due, zset, pc, snap>>
    /\ PopOnly

\* The record: swept, skipped or claimed.
PopRecord(p) ==
    LET r == rec[Popped(p)] IN
    /\ Popping(p, "pop_record")
    /\ IF ~NonTerminal(r)
       THEN PopGoto(p, "pop_sweep_del", AbsentRecord) /\ UNCHANGED pc
       ELSE IF r.status = "pending" \/ r.leaseUntil <= pop[p].now
       THEN PopGoto(p, "pop_write", r) /\ UNCHANGED pc
       ELSE PopContinue(p, pop[p].todo, pop[p].claimed)
    /\ UNCHANGED <<rec, due, zset, snap>>
    /\ PopOnly

\* The record is written whatever it has become since.
PopWrite(p) ==
    LET d == Popped(p)
        next == [pop[p].seen EXCEPT !.status = "delivering",
                                    !.leaseUntil = pop[p].now + leaseMs] IN
    /\ Popping(p, "pop_write")
    /\ rec' = [rec EXCEPT ![d] = next]
    /\ snap' = [snap EXCEPT ![p][d] = next]
    /\ PopGoto(p, "pop_del", AbsentRecord)
    /\ UNCHANGED <<due, zset, pc>>
    /\ PopOnly

PopDel(p) ==
    /\ pop[p].pc \in {"pop_del", "pop_sweep_del"}
    /\ due' = due \ {pop[p].key}
    /\ PopGoto(p, IF Popping(p, "pop_del") THEN "pop_zrem" ELSE "pop_sweep_zrem", AbsentRecord)
    /\ UNCHANGED <<rec, zset, pc, snap>>
    /\ PopOnly

\* Mutant: the member of the claimed key is left behind.
PopZremSkipped(p) ==
    /\ Popping(p, "pop_zrem")
    /\ PopGoto(p, "pop_set", AbsentRecord)
    /\ UNCHANGED <<rec, due, zset, pc, snap>>
    /\ PopOnly

PopZrem(p) ==
    /\ Popping(p, "pop_zrem")
    /\ zset' = Drop(pop[p].key)
    /\ PopGoto(p, "pop_set", AbsentRecord)
    /\ UNCHANGED <<rec, due, pc, snap>>
    /\ PopOnly

SweepZrem(p) ==
    /\ Popping(p, "pop_sweep_zrem")
    /\ zset' = Drop(pop[p].key)
    /\ PopContinue(p, pop[p].todo, pop[p].claimed)
    /\ UNCHANGED <<rec, due, snap>>
    /\ PopOnly

\* The due key at the lease expiry, then its member.
PopSet(p) ==
    /\ Popping(p, "pop_set")
    /\ due' = due \cup {<<pop[p].now + leaseMs, Popped(p)>>}
    /\ PopGoto(p, "pop_zadd", AbsentRecord)
    /\ UNCHANGED <<rec, zset, pc, snap>>
    /\ PopOnly

PopZadd(p) ==
    /\ Popping(p, "pop_zadd")
    /\ LET expiry == pop[p].now + leaseMs IN zset' = Put(<<expiry, Popped(p)>>, expiry)
    /\ PopContinue(p, pop[p].todo, pop[p].claimed \cup {Popped(p)})
    /\ UNCHANGED <<rec, due, snap>>
    /\ PopOnly

\* A command is rejected or the process dies: the claims made so far are
\* forgotten, and stay leased.
PopFails(p) ==
    /\ pop[p].pc \in CrashPoints
    /\ pop' = [pop EXCEPT ![p] = NoPop]
    /\ snap' = [snap EXCEPT ![p] = [d \in Delivery |-> AbsentRecord]]
    /\ UNCHANGED <<rec, due, zset, pc>>
    /\ PopOnly

ClaimDue(p) ==
    \/ RunScript(p) \/ PopEntry(p) \/ PopRecord(p) \/ PopWrite(p) \/ PopDel(p) \/ PopZrem(p)
    \/ SweepZrem(p) \/ PopSet(p) \/ PopZadd(p) \/ PopFails(p)

\* Prompt: a claim is over, and a mirror command sent, before the clock moves on.
RedisTick ==
    /\ Prompt =>
        /\ \A p \in Dispatcher : Popping(p, "off")
        /\ \A a \in Actor, d \in Delivery : mirror[a][d] = NoCommand
    /\ Tick

\* Milliseconds are finer than this clock: no two writers use the same due key.
FreshKey(c, d) ==
    call'[c][d].pc = "call_index" =>
        /\ <<call'[c][d].at, d>> \notin due \cup Members
        /\ \A p \in Dispatcher : Popping(p, "off") \/ pop[p].key # <<call'[c][d].at, d>>

Idle(a, d) == mirror[a][d] = NoCommand

RedisNext ==
    \/ \E p \in Dispatcher : ClaimDue(p)
    \/ RedisTick /\ UNCHANGED <<zset, mirror, pop>>
    \/ \E p \in Dispatcher :
        /\ \A d \in Delivery : Idle(p, d)
        /\ Crash(p)
        /\ UNCHANGED <<zset, mirror, pop>>
    \/ \E p \in Dispatcher, d \in Delivery :
        /\ ProcessClaim(p, d)
        /\ Leaves(p, d, IF StepFails(p, d) THEN NoCommand ELSE WorkerCommand(p, d))
        /\ UNCHANGED <<zset, pop>>
    \/ \E c \in Caller, d \in Delivery \ Deleted :
        /\ ControlPlane(c, d) /\ FreshKey(c, d)
        /\ Leaves(c, d, IF CallFails(c, d) THEN NoCommand ELSE CallCommand(c, d))
        /\ UNCHANGED <<zset, pop>>
    \/ \E e \in Endpoint, state \in {"enabled", "disabled", "deleted"} :
        SetEndpoint(e, state) /\ UNCHANGED <<zset, mirror, pop>>
    \/ \E a \in Actor, d \in Delivery : MirrorSent(a, d)
    \/ \E p \in Dispatcher, d \in Delivery : MirrorLost(p, d)

RedisSpec == RedisInit /\ [][RedisNext]_redisVars

------------------------------------------------------------------------------
(* Properties *)

\* Somebody has a command for d under way.
AtWork(d) ==
    \/ InHand(d)
    \/ \E a \in Actor : mirror[a][d] # NoCommand
    \/ \E p \in Dispatcher : pop[p].pc \in {"pop_zrem", "pop_set", "pop_zadd"} /\ Popped(p) = d

\* A claim only ever pops the sorted set: a delivery that is not terminal has a
\* member there with a due key behind it, whatever died between two commands
\* before the first removal ("a crashed claimer's members re-surface").
MemberCoverage ==
    \A d \in Delivery : NonTerminal(rec[d]) =>
        AtWork(d) \/ \E m \in zset : m.key \in due /\ m.key[2] = d

\* "keeping the zset and the plain keys consistent": while nobody moves d, the
\* set and the keys hold the same entries of it, and no member surfaces before
\* the time in its key.
MirrorAgrees ==
    \A d \in Delivery \ Deleted : ~AtWork(d) /\ (\A p \in Dispatcher : Popping(p, "off")) =>
        /\ {k \in Members : k[2] = d} = DueOf(d)
        /\ \A m \in zset : m.key[2] = d => m.score >= m.key[1]

RedisOwns(p, d) ==
    \/ pc[p][d] \notin {"idle", "index", "hold_index", "note"}
    \/ d \in pop[p].claimed
    \/ pop[p].pc \in {"pop_write", "pop_del", "pop_zrem", "pop_set", "pop_zadd"} /\ Popped(p) = d

\* "never a duplicate": the claim writes the record without comparing it, so
\* that the script alone has to keep two claimers off one delivery until its
\* outcome is recorded.
RedisOneOwner ==
    \A d \in Delivery, p, q \in Dispatcher : RedisOwns(p, d) /\ RedisOwns(q, d) => p = q
==============================================================================
