-------------------------------- MODULE KvQueue --------------------------------
(***************************************************************************)
(* The delivery queue on a storage without a native queue: claiming is the *)
(* scan of the due index in claimDueDeliveries (core.ts), one storage call *)
(* per step, with compareAndSwap when the storage has it and with a plain  *)
(* write when not. Everything after the claim, and the control-plane       *)
(* calls, are those of DeliveryQueue.                                      *)
(***************************************************************************)
EXTENDS DeliveryQueue

CONSTANT HasCompareAndSwap      \* isCompareAndSwap(queueStorage)

ASSUME CasAssumption == HasCompareAndSwap \in BOOLEAN
ASSUME ScanAssumption == "off" \notin CrashPoints

VARIABLE scan                   \* per dispatcher: the scan it is in

kvVars == <<vars, scan>>

ScanPc == {"off", "scan_entry", "scan_record", "scan_sweep", "scan_claim", "scan_unindex",
           "scan_index"}

\* The scan: now() as it began, the due keys still to visit, the one being
\* visited with the record read for it, and what was claimed.
Scan == [pc: ScanPc, now: Nat, todo: SUBSET (Nat \X Delivery), key: Nat \X Delivery,
         seen: Record, claimed: SUBSET Delivery]

NoScan == [pc |-> "off", now |-> 0, todo |-> {}, key |-> <<0, CHOOSE d \in Delivery : TRUE>>,
           seen |-> AbsentRecord, claimed |-> {}]

KvTypeOK == TypeOK /\ scan \in [Dispatcher -> Scan]

KvInit == Init /\ scan = [p \in Dispatcher |-> NoScan]

------------------------------------------------------------------------------
(* claimDueDeliveries *)

Scanning(p, step) == scan[p].pc = step

\* The delivery being visited.
Visited(p) == scan[p].key[2]

\* Only the scan moves.
ScanOnly == UNCHANGED <<clock, rec, due, attempts, endpoint, plan, begun, call, requeues>>

\* Keys are visited in the order of their times. (By id within a time, which is
\* left open here.)
Earliest(keys) == {k \in keys : \A l \in keys : k[1] <= l[1]}

\* The loop goes on to the next due key, or ends with what it has claimed: the
\* workers of the tick start, each claim with the record that was written.
Continue(p, claimed) ==
    LET rest == scan[p].todo \ {scan[p].key} IN
    IF rest = {} \/ Cardinality(claimed) = BatchSize
    THEN /\ scan' = [scan EXCEPT ![p] = NoScan]
         /\ pc' = [pc EXCEPT ![p] = [d \in Delivery |->
                        IF d \in claimed THEN "queued" ELSE "idle"]]
    ELSE /\ \E k \in Earliest(rest) :
            scan' = [scan EXCEPT ![p] =
                        [@ EXCEPT !.pc = "scan_entry", !.todo = rest, !.key = k,
                                  !.seen = AbsentRecord, !.claimed = claimed]]
         /\ UNCHANGED pc

ScanGoto(p, step, seen) ==
    scan' = [scan EXCEPT ![p] = [@ EXCEPT !.pc = step, !.seen = seen]]

\* getKeys: the due keys not later than now().
ScanKeys(p) ==
    /\ \A d \in Delivery : pc[p][d] = "idle"
    /\ Scanning(p, "off")
    /\ \E nowMs \in 0 .. clock :
        LET ripe == {k \in due : k[1] <= nowMs} IN
        /\ Prompt => nowMs = clock
        /\ \E k \in Earliest(ripe) :
            scan' = [scan EXCEPT ![p] =
                        [@ EXCEPT !.pc = "scan_entry", !.now = nowMs, !.todo = ripe, !.key = k]]
    /\ UNCHANGED <<pc, snap>>
    /\ ScanOnly

\* The entry is read: somebody else may have moved it since the keys were listed.
ScanEntry(p) ==
    /\ Scanning(p, "scan_entry")
    /\ IF scan[p].key \in due
       THEN ScanGoto(p, "scan_record", AbsentRecord) /\ UNCHANGED pc
       ELSE Continue(p, scan[p].claimed)
    /\ UNCHANGED snap
    /\ ScanOnly

\* Mutant: a terminal record is claimed like any other.
KvClaimableTerminal(r, nowMs) ==
    r.status \in {"pending", "failed"} \/ (r.status = "delivering" /\ r.leaseUntil <= nowMs)

KvClaimable(r, nowMs) ==
    r.status = "pending" \/ (r.status = "delivering" /\ r.leaseUntil <= nowMs)

\* The record is read: swept, skipped or claimed.
ScanRecord(p) ==
    LET r == rec[Visited(p)] IN
    /\ Scanning(p, "scan_record")
    /\ IF KvClaimable(r, scan[p].now)
       THEN ScanGoto(p, "scan_claim", r) /\ UNCHANGED pc
       ELSE IF NonTerminal(r)
       THEN Continue(p, scan[p].claimed)
       ELSE ScanGoto(p, "scan_sweep", AbsentRecord) /\ UNCHANGED pc
    /\ UNCHANGED snap
    /\ ScanOnly

\* The entry of a missing or terminal delivery is removed.
ScanSweep(p) ==
    /\ Scanning(p, "scan_sweep")
    /\ due' = due \ {scan[p].key}
    /\ Continue(p, scan[p].claimed)
    /\ UNCHANGED <<clock, rec, attempts, endpoint, snap, plan, begun, call, requeues>>

\* Mutant: the record is written whatever it has become.
WinsAlways(p) == TRUE

\* compareAndSwap succeeds on the record that was read; a plain write always does.
Wins(p) == HasCompareAndSwap => rec[Visited(p)] = scan[p].seen

ScanClaim(p) ==
    LET d == Visited(p)
        next == [scan[p].seen EXCEPT !.status = "delivering",
                                     !.leaseUntil = scan[p].now + leaseMs] IN
    /\ Scanning(p, "scan_claim")
    /\ IF Wins(p)
       THEN /\ rec' = [rec EXCEPT ![d] = next]
            /\ snap' = [snap EXCEPT ![p][d] = next]
            /\ ScanGoto(p, "scan_unindex", AbsentRecord)
            /\ UNCHANGED pc
       ELSE Continue(p, scan[p].claimed) /\ UNCHANGED <<rec, snap>>
    /\ UNCHANGED <<clock, due, attempts, endpoint, plan, begun, call, requeues>>

ScanUnindex(p) ==
    /\ Scanning(p, "scan_unindex")
    /\ due' = due \ {scan[p].key}
    /\ ScanGoto(p, "scan_index", AbsentRecord)
    /\ UNCHANGED <<clock, rec, attempts, endpoint, pc, snap, plan, begun, call, requeues>>

\* Mutant: the delivery is handed out without an entry at its lease.
ScanIndexSkipped(p) ==
    /\ Scanning(p, "scan_index")
    /\ Continue(p, scan[p].claimed \cup {Visited(p)})
    /\ UNCHANGED <<clock, rec, due, attempts, endpoint, snap, plan, begun, call, requeues>>

ScanIndex(p) ==
    /\ Scanning(p, "scan_index")
    /\ due' = due \cup {<<scan[p].now + leaseMs, Visited(p)>>}
    /\ Continue(p, scan[p].claimed \cup {Visited(p)})
    /\ UNCHANGED <<clock, rec, attempts, endpoint, snap, plan, begun, call, requeues>>

\* A storage call rejects or the process dies: the tick ends, and what it had
\* claimed stays leased.
ScanFails(p) ==
    /\ scan[p].pc \in CrashPoints
    /\ scan' = [scan EXCEPT ![p] = NoScan]
    /\ snap' = [snap EXCEPT ![p] = [d \in Delivery |-> AbsentRecord]]
    /\ UNCHANGED pc
    /\ UNCHANGED <<clock, rec, due, attempts, endpoint, plan, begun, call, requeues>>

KvClaim(p) ==
    \/ ScanKeys(p)
    \/ ScanEntry(p)
    \/ ScanRecord(p)
    \/ ScanSweep(p)
    \/ ScanClaim(p)
    \/ ScanUnindex(p)
    \/ ScanIndex(p)
    \/ ScanFails(p)

\* Prompt: a scan is over before the clock moves on.
KvTick ==
    /\ Prompt => \A p \in Dispatcher : Scanning(p, "off")
    /\ Tick

\* A due key holds milliseconds, of which a tick of this clock is many: a replay
\* does not write the very key that a scan is looking at.
DistinctMillis(c, d) ==
    \A p \in Dispatcher : scan[p].key = <<call'[c][d].at, d>> => Scanning(p, "off")

KvNext ==
    \/ \E p \in Dispatcher : KvClaim(p)
    \/ KvTick /\ UNCHANGED scan
    \/ \E p \in Dispatcher : Crash(p) /\ UNCHANGED scan
    \/ \E p \in Dispatcher, d \in Delivery : ProcessClaim(p, d) /\ UNCHANGED scan
    \/ \E c \in Caller, d \in Delivery :
        ControlPlane(c, d) /\ DistinctMillis(c, d) /\ UNCHANGED scan
    \/ \E e \in Endpoint, state \in {"enabled", "disabled", "deleted"} :
        SetEndpoint(e, state) /\ UNCHANGED scan

KvSpec == KvInit /\ [][KvNext]_kvVars

------------------------------------------------------------------------------
(* Properties *)

\* No delivery is stranded on a KV storage either: the scan removes the entry it
\* found before it writes the one at the lease (core.ts claimDueDeliveries).
KvDueCoverage ==
    \A d \in Delivery : NonTerminal(rec[d]) =>
        \/ InHand(d)
        \/ DueOf(d) # {}
        \/ \E p \in Dispatcher : Scanning(p, "scan_index") /\ Visited(p) = d

\* p has claimed d and will still write its record. (Between the write of the
\* record and that of the next due entry another scan may already claim it, by an
\* entry it read before.)
Owns(p, d) ==
    \/ pc[p][d] \notin {"idle", "index", "hold_index", "note"}
    \/ d \in scan[p].claimed
    \/ scan[p].pc \in {"scan_unindex", "scan_index"} /\ Visited(p) = d

\* docs/DELIVERY.md: with compareAndSwap the scan is safe with several
\* dispatchers: of all that saw a delivery claimable, one owns it, and nobody else
\* does until its outcome is in the record.
KvOneOwner == \A d \in Delivery, p, q \in Dispatcher : Owns(p, d) /\ Owns(q, d) => p = q

===============================================================================
