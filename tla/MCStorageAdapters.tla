-------------------------- MODULE MCStorageAdapters --------------------------
(* Three applications: two whose names differ in case only, and a third that a name's wildcard  *)
(* would match; one key of each. Both clients read, write, remove and swap the first key, one   *)
(* of them lists its application, and the other keys come and go.                               *)
EXTENDS StorageAdapters, TLC

CONSTANTS c1, c2, v1

Apps == {"ac_e", "Ac_e", "acme"}
Keys == {"ac_e/1", "Ac_e/1", "acme/1"}
KeyApp == [k \in Keys |-> CASE k = "ac_e/1" -> "ac_e" [] k = "Ac_e/1" -> "Ac_e" [] k = "acme/1" -> "acme"]
UpToCase == [a \in Apps |-> IF a = "acme" THEN {a} ELSE {"ac_e", "Ac_e"}]
AsWildcards == [a \in Apps |-> {a} \cup (IF a = "ac_e" THEN {"acme"} ELSE {})]

Writes(k) == {[op |-> "setItem", key |-> k, value |-> v1], [op |-> "removeItem", key |-> k]}
Swaps(k) == {[op |-> "compareAndSwap", key |-> k, expected |-> e, value |-> v1] : e \in {Absent, v1}}
Reads(k) == {[op |-> "getItem", key |-> k]}
Lists(a) == {[op |-> "getKeys", app |-> a]}
ClientAsks ==
    (c1 :> Writes("ac_e/1") \cup Swaps("ac_e/1") \cup Reads("ac_e/1") \cup Writes("acme/1"))
    @@ (c2 :> Writes("ac_e/1") \cup Swaps("ac_e/1") \cup Lists("ac_e") \cup Writes("Ac_e/1"))

==============================================================================
