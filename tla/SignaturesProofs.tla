--------------------------- MODULE SignaturesProofs ---------------------------
(***************************************************************************)
(* Theorems about Signatures: for every grace, tolerance and clock skew,   *)
(* any number of rotations and attempts, whatever the network repeats,     *)
(* delays or changes.                                                      *)
(***************************************************************************)
EXTENDS Signatures, TLAPS

------------------------------------------------------------------------------
(* The invariant *)

\* The grace of a secret that has been replaced is over at this instant.
GraceEnd(k) == mintedAt[k + 1] + Grace

Clocks ==
    /\ time \in 0 .. MaxTime
    /\ skew \in (0 - MaxSkew) .. MaxSkew
    /\ mintedAt \in Seq(Nat) /\ Newest \in Nat \ {0}
    /\ \A k \in 1 .. Newest : mintedAt[k] \in Nat /\ mintedAt[k] <= time
    /\ holds \in 1 .. Newest

\* The receiver's operator was in time.
InstalledInTime == holds < Newest => time < GraceEnd(holds)

\* A list of secrets read when the n-th was the newest, and what it signs with at any
\* instant from then on: the newest, and every older one within its grace.
ListOf(list, n, at) ==
    /\ n \in 1 .. Newest
    /\ [key |-> n, expiresAt |-> Never] \in list
    /\ \A k \in 1 .. n - 1 : GraceEnd(k) > at => [key |-> k, expiresAt |-> GraceEnd(k)] \in list
    /\ list \subseteq [key : 1 .. n, expiresAt : Nat]

ListsComplete ==
    /\ ListOf(secrets, Newest, time)
    /\ attempt.pc = "read" => \E n \in Nat : ListOf(attempt.copy, n, time)

\* What is on the wire was signed, entry by entry, as it is ...
Genuine(r) ==
    /\ r.content \in signed
    /\ r.content \in [id : {"msg", "other"}, timestamp : Int, body : {"envelope", "other"}]
    /\ \A e \in r.entries : e.version = "v1" /\ e.content = r.content

\* ... and a message carries an entry of every secret that was active then, and of none younger.
Covers(r) ==
    /\ r.content.timestamp <= time
    /\ \E n \in 1 .. Newest :
        /\ \A e \in r.entries : e.key \in 1 .. n
        /\ \A k \in 1 .. n : k = n \/ GraceEnd(k) > r.content.timestamp
                                => Entry(k, r.content) \in r.entries

WireSound == \A r \in wire : Genuine(r) /\ (r.content.id = "msg" => Covers(r))

IInv ==
    /\ Clocks
    /\ InstalledInTime
    /\ ListsComplete
    /\ WireSound
    /\ SeamlessRotation
    /\ AcceptedIsGenuine

LEMMA InitHolds == Init => IInv
<1> SUFFICES ASSUME Init PROVE IInv
  OBVIOUS
<1>1. MaxTime \in Nat /\ Grace \in Nat /\ MaxSkew \in Nat
  BY SignaturesAssumption
<1>2. Clocks /\ InstalledInTime
  BY <1>1 DEF Init, Clocks, InstalledInTime, Newest
<1>3. ListsComplete
  BY <1>1 DEF Init, ListsComplete, ListOf, Newest, Idle, Never
<1>4. WireSound /\ SeamlessRotation /\ AcceptedIsGenuine
  BY DEF Init, WireSound, SeamlessRotation, AcceptedIsGenuine, Silence
<1> QED
  BY <1>2, <1>3, <1>4 DEF IInv

------------------------------------------------------------------------------
(* The lists of secrets *)

\* A rotation keeps every secret whose grace is not over; the one it replaces begins its own.
LEMMA RotationKeeps ==
    ASSUME IInv, RotateSecret
    PROVE  Clocks' /\ InstalledInTime' /\ ListOf(secrets, Newest, time)'
<1> DEFINE n == Newest
<1>0. n \in Nat \ {0} /\ time \in Nat /\ Grace \in Nat /\ Grace > 0
  BY SignaturesAssumption DEF IInv, Clocks
<1>1. /\ mintedAt' \in Seq(Nat) /\ Newest' = n + 1 /\ mintedAt'[n + 1] = time
      /\ \A k \in 1 .. n : mintedAt'[k] = mintedAt[k]
  BY DEF RotateSecret, IInv, Clocks, Newest
<1>2. secrets' = Rotated(secrets, n + 1, time) /\ time' = time /\ skew' = skew /\ holds' = holds
  BY DEF RotateSecret
<1>3. Clocks'
  <2>1. \A k \in 1 .. n : mintedAt[k] \in Nat /\ mintedAt[k] <= time
    BY DEF IInv, Clocks
  <2>2. \A k \in 1 .. n + 1 : mintedAt'[k] \in Nat /\ mintedAt'[k] <= time
    <3> SUFFICES ASSUME NEW k \in 1 .. n + 1 PROVE mintedAt'[k] \in Nat /\ mintedAt'[k] <= time
      OBVIOUS
    <3>1. CASE k = n + 1
      BY <1>0, <1>1, <3>1
    <3>2. CASE k # n + 1
      <4>1. k \in 1 .. n
        BY <1>0, <3>2
      <4> QED
        BY <1>1, <2>1, <4>1
    <3> QED
      BY <3>1, <3>2
  <2> QED
    BY <1>0, <1>1, <1>2, <2>2 DEF IInv, Clocks
<1>4. InstalledInTime'
  BY <1>0, <1>1, <1>2 DEF IInv, Clocks, InstalledInTime, GraceEnd
<1>5. [key |-> n + 1, expiresAt |-> Never] \in secrets'
  BY <1>2 DEF Rotated
<1>6. \A k \in 1 .. n - 1 : GraceEnd(k)' = GraceEnd(k)
  BY <1>0, <1>1 DEF GraceEnd
<1>7. ListOf(secrets, n, time)
  BY DEF IInv, ListsComplete
<1>8. ASSUME NEW k \in 1 .. n, GraceEnd(k)' > time
      PROVE  [key |-> k, expiresAt |-> GraceEnd(k)'] \in secrets'
  <2>1. CASE k = n
    <3> DEFINE old == [key |-> n, expiresAt |-> Never]
    <3>1. old \in Previous(secrets, n + 1)
      BY <1>0, <1>7 DEF ListOf, Previous
    <3>2. [old EXCEPT !.expiresAt = time + Grace] \in secrets'
      BY <1>2, <3>1 DEF Rotated
    <3>3. [old EXCEPT !.expiresAt = time + Grace] = [key |-> n, expiresAt |-> time + Grace]
      OBVIOUS
    <3>4. GraceEnd(k)' = time + Grace
      BY <1>1, <2>1 DEF GraceEnd
    <3> QED
      BY <2>1, <3>2, <3>3, <3>4
  <2>2. CASE k # n
    <3> DEFINE s == [key |-> k, expiresAt |-> GraceEnd(k)]
    <3>1. k \in 1 .. n - 1
      BY <1>0, <2>2
    <3>2. s \in secrets /\ s.expiresAt > time
      BY <1>6, <1>7, <1>8, <3>1 DEF ListOf
    <3>3. s \notin Previous(secrets, n + 1)
      BY <1>0, <3>1 DEF Previous
    <3>4. s \in secrets'
      BY <1>2, <3>2, <3>3 DEF Rotated
    <3> QED
      BY <1>6, <3>1, <3>4
  <2> QED
    BY <2>1, <2>2
<1>9. ASSUME NEW s \in secrets' PROVE s \in [key : 1 .. n + 1, expiresAt : Nat]
  <2>1. \A x \in secrets : x \in [key : 1 .. n, expiresAt : Nat]
    BY <1>7 DEF ListOf
  <2>2. CASE s = [key |-> n + 1, expiresAt |-> Never]
    BY <1>0, <2>2, SignaturesAssumption DEF Never
  <2>3. ASSUME NEW x \in Previous(secrets, n + 1), s = [x EXCEPT !.expiresAt = time + Grace]
        PROVE  s \in [key : 1 .. n + 1, expiresAt : Nat]
    <3>1. x \in [key : 1 .. n, expiresAt : Nat]
      BY <2>1 DEF Previous
    <3> QED
      BY <1>0, <2>3, <3>1
  <2>4. CASE s \in secrets
    BY <1>0, <2>1, <2>4
  <2> QED
    BY <1>2, <2>2, <2>3, <2>4 DEF Rotated
<1> QED
  BY <1>0, <1>1, <1>2, <1>3, <1>4, <1>5, <1>8, <1>9 DEF ListOf

\* Secrets are only ever added, and time only goes on.
Onward ==
    /\ time' \in Nat /\ time <= time'
    /\ Newest' \in Nat /\ Newest <= Newest'
    /\ \A k \in 1 .. Newest : mintedAt'[k] = mintedAt[k]

\* A list that was read stays what it was.
LEMMA ListStays ==
    ASSUME IInv, Onward, NEW list, NEW n \in Nat, ListOf(list, n, time)
    PROVE  ListOf(list, n, time)'
<1>1. n \in 1 .. Newest /\ Newest \in Nat /\ time \in Nat
  BY DEF ListOf, IInv, Clocks
<1>2. \A k \in 1 .. n - 1 : k + 1 \in 1 .. Newest
  BY <1>1
<1>3. \A k \in 1 .. n - 1 : GraceEnd(k)' = GraceEnd(k) /\ GraceEnd(k) \in Nat
  <2> SUFFICES ASSUME NEW k \in 1 .. n - 1
               PROVE  GraceEnd(k)' = GraceEnd(k) /\ GraceEnd(k) \in Nat
    OBVIOUS
  <2>1. k + 1 \in 1 .. Newest
    BY <1>2
  <2>2. mintedAt'[k + 1] = mintedAt[k + 1] /\ mintedAt[k + 1] \in Nat /\ Grace \in Nat
    BY <2>1, SignaturesAssumption DEF Onward, IInv, Clocks
  <2> QED
    BY <2>2 DEF GraceEnd
<1>4. \A k \in 1 .. n - 1 : GraceEnd(k)' > time' => GraceEnd(k) > time
  BY <1>1, <1>3 DEF Onward
<1> QED
  BY <1>1, <1>3, <1>4 DEF ListOf, Onward

\* So does a request, wherever it is.
LEMMA RequestStays ==
    ASSUME IInv, Onward, signed \subseteq signed', NEW r \in wire
    PROVE  Genuine(r)' /\ (r.content.id = "msg" => Covers(r)')
<1>1. Genuine(r)'
  BY DEF IInv, WireSound, Genuine
<1>2. ASSUME r.content.id = "msg" PROVE Covers(r)'
  <2>1. PICK n \in 1 .. Newest :
          /\ \A e \in r.entries : e.key \in 1 .. n
          /\ \A k \in 1 .. n : k = n \/ GraceEnd(k) > r.content.timestamp
                                => Entry(k, r.content) \in r.entries
    BY <1>2 DEF IInv, WireSound, Covers
  <2>2. Newest \in Nat /\ time \in Nat /\ r.content.timestamp \in Int /\ r.content.timestamp <= time
    BY <1>2 DEF IInv, WireSound, Genuine, Covers, Clocks
  <2>3. \A k \in 1 .. n : k # n => GraceEnd(k)' = GraceEnd(k)
    BY <2>2 DEF Onward, GraceEnd
  <2>4. r.content.timestamp <= time'
    BY <2>2 DEF Onward
  <2>5. n \in 1 .. Newest'
    BY <2>2 DEF Onward
  <2> QED
    BY <2>1, <2>3, <2>4, <2>5 DEF Covers
<1> QED
  BY <1>1, <1>2

------------------------------------------------------------------------------
(* The steps of the sender *)

\* A step that hears nothing and keeps what is known of secrets, lists and requests.
LEMMA QuietStep ==
    ASSUME IInv, Onward, Clocks', InstalledInTime', ListOf(secrets, Newest, time)',
           heard' = Silence, signed \subseteq signed',
           attempt'.pc = "read" => \E n \in Nat : ListOf(attempt'.copy, n, time),
           \A r \in wire' \ wire : Genuine(r)' /\ (r.content.id = "msg" => Covers(r)')
    PROVE  IInv'
<1>1. ListsComplete'
  BY ListStays DEF ListsComplete
<1>2. WireSound'
  BY RequestStays DEF WireSound
<1>3. SeamlessRotation' /\ AcceptedIsGenuine'
  BY DEF SeamlessRotation, AcceptedIsGenuine, Silence
<1> QED
  BY <1>1, <1>2, <1>3 DEF IInv

\* The lists are as they were.
LEMMA SecretsStay ==
    ASSUME IInv, UNCHANGED <<time, skew, secrets, holds, mintedAt>>
    PROVE  Onward /\ Clocks' /\ InstalledInTime' /\ ListOf(secrets, Newest, time)'
<1>1. Onward
  BY DEF Onward, IInv, Clocks, Newest
<1> QED
  BY <1>1 DEF IInv, Clocks, InstalledInTime, ListsComplete, ListOf, GraceEnd, Newest

LEMMA RotateStep == ASSUME IInv, RotateSecret PROVE IInv'
<1>1. Onward
  BY DEF RotateSecret, Onward, IInv, Clocks, Newest
<1>2. UNCHANGED <<attempt, wire, signed>> /\ heard' = Silence
  BY DEF RotateSecret
<1>3. attempt'.pc = "read" => \E n \in Nat : ListOf(attempt'.copy, n, time)
  BY <1>2 DEF IInv, ListsComplete
<1> QED
  BY <1>1, <1>2, <1>3, RotationKeeps, QuietStep

LEMMA ReadStep == ASSUME IInv, ReadEndpoint PROVE IInv'
<1>1. UNCHANGED <<time, skew, secrets, holds, mintedAt, wire, signed>> /\ heard' = Silence
  BY DEF ReadEndpoint
<1>2. attempt'.copy = secrets
  BY DEF ReadEndpoint, Idle
<1>3. \E n \in Nat : ListOf(attempt'.copy, n, time)
  BY <1>2 DEF IInv, ListsComplete, Clocks
<1> QED
  BY <1>1, <1>3, SecretsStay, QuietStep

\* The request carries an entry of every secret of the copy that is active, which is every
\* one that was replaced before the copy was read and is within its grace, and the newest then.
LEMMA SendStep == ASSUME IInv, Send PROVE IInv'
<1>a. PICK content : content = [id |-> "msg", timestamp |-> time, body |-> "envelope"]
  OBVIOUS
<1>b. PICK request : request = Signed(attempt.copy, time)
  OBVIOUS
<1>1. /\ UNCHANGED <<time, skew, secrets, holds, mintedAt>> /\ heard' = Silence
      /\ attempt.pc = "read" /\ wire' = wire \cup {request} /\ signed' = signed \cup {request.content}
  BY <1>b DEF Send
<1>2. attempt'.pc # "read"
  <2>1. attempt' = [attempt EXCEPT !.pc = "sent"]
    BY DEF Send
  <2> QED
    BY <2>1
<1>3. request.content = content /\ request.entries = {Entry(k, content) : k \in activeSecrets(attempt.copy, time)}
  BY <1>a, <1>b DEF Signed
<1>4. Genuine(request)'
  <2>1. content \in [id : {"msg", "other"}, timestamp : Int, body : {"envelope", "other"}]
    BY <1>a DEF IInv, Clocks
  <2>2. \A e \in request.entries : e.version = "v1" /\ e.content = content
    BY <1>3 DEF Entry
  <2> QED
    BY <1>1, <1>3, <2>1, <2>2 DEF Genuine
<1>5. Covers(request)'
  <2>1. PICK n \in Nat : ListOf(attempt.copy, n, time)
    BY <1>1 DEF IInv, ListsComplete
  <2>2. \A e \in request.entries : e.key \in 1 .. n
    BY <1>3, <2>1 DEF ListOf, activeSecrets, Entry
  <2>3. ASSUME NEW k \in 1 .. n, k = n \/ GraceEnd(k) > time
        PROVE  Entry(k, content) \in request.entries
    <3>1. time < Never
      BY SignaturesAssumption DEF Never, IInv, Clocks
    <3>2. \E s \in attempt.copy : s.key = k /\ s.expiresAt > time
      <4>1. CASE k = n
        <5>1. [key |-> n, expiresAt |-> Never] \in attempt.copy
          BY <2>1 DEF ListOf
        <5> QED
          BY <3>1, <4>1, <5>1 DEF IInv, Clocks, Never
      <4>2. CASE k # n
        <5>1. k \in 1 .. n - 1
          BY <4>2
        <5>2. [key |-> k, expiresAt |-> GraceEnd(k)] \in attempt.copy
          BY <2>1, <2>3, <4>2, <5>1 DEF ListOf
        <5> QED
          BY <2>3, <4>2, <5>2
      <4> QED
        BY <4>1, <4>2
    <3>3. k \in activeSecrets(attempt.copy, time)
      BY <3>2 DEF activeSecrets
    <3> QED
      BY <1>3, <3>3
  <2>4. n \in 1 .. Newest'
    BY <1>1, <2>1 DEF ListOf, Newest
  <2>5. content.timestamp = time /\ time \in Nat
    BY <1>a DEF IInv, Clocks
  <2>6. \A k \in 1 .. n : GraceEnd(k)' = GraceEnd(k)
    BY <1>1 DEF GraceEnd
  <2>7. \A k \in 1 .. n : k = n \/ GraceEnd(k)' > request.content.timestamp
                              => Entry(k, request.content) \in request.entries
    BY <1>3, <2>3, <2>5, <2>6
  <2>8. request.content.timestamp <= time'
    BY <1>1, <1>3, <2>5
  <2> QED
    BY <2>2, <2>4, <2>7, <2>8 DEF Covers
<1>6. \A r \in wire' \ wire : Genuine(r)' /\ (r.content.id = "msg" => Covers(r)')
  BY <1>1, <1>4, <1>5
<1>7. signed \subseteq signed'
  BY <1>1
<1> QED
  BY <1>1, <1>2, <1>6, <1>7, SecretsStay, QuietStep

LEMMA EndStep == ASSUME IInv, Ends PROVE IInv'
<1>1. UNCHANGED <<time, skew, secrets, holds, mintedAt, wire, signed>> /\ heard' = Silence
      /\ attempt'.pc # "read"
  BY DEF Ends, Idle
<1> QED
  BY <1>1, SecretsStay, QuietStep

LEMMA PlaygroundStep == ASSUME IInv, Playground PROVE IInv'
<1>1. UNCHANGED <<time, skew, secrets, holds, mintedAt, attempt>> /\ heard' = Silence
  BY DEF Playground
<1>2. PICK at \in 0 .. MaxTime, key \in 1 .. Newest :
        LET content == [id |-> "other", timestamp |-> at, body |-> "envelope"]
        IN  /\ wire' = wire \cup {[content |-> content, entries |-> {Entry(key, content)}]}
            /\ signed' = signed \cup {content}
  BY DEF Playground
<1>3. at \in Int
  BY SignaturesAssumption DEF IInv, Clocks
<1>4. \A r \in wire' \ wire : Genuine(r)' /\ r.content.id # "msg"
  BY <1>2, <1>3 DEF Genuine, Entry
<1>5. attempt'.pc = "read" => \E n \in Nat : ListOf(attempt'.copy, n, time)
  BY <1>1 DEF IInv, ListsComplete
<1>6. signed \subseteq signed'
  BY <1>2
<1> QED
  BY <1>1, <1>4, <1>5, <1>6, SecretsStay, QuietStep

------------------------------------------------------------------------------
(* The steps of the receiver *)

LEMMA InstallStep == ASSUME IInv, Install PROVE IInv'
<1>1. UNCHANGED <<time, skew, secrets, mintedAt, attempt, wire, signed>> /\ heard' = Silence
      /\ holds' = Newest
  BY DEF Install
<1>2. Onward
  BY <1>1 DEF Onward, IInv, Clocks, Newest
<1>3. Clocks' /\ InstalledInTime' /\ ListOf(secrets, Newest, time)'
  BY <1>1 DEF IInv, Clocks, InstalledInTime, ListsComplete, ListOf, GraceEnd, Newest
<1>4. attempt'.pc = "read" => \E n \in Nat : ListOf(attempt'.copy, n, time)
  BY <1>1 DEF IInv, ListsComplete
<1> QED
  BY <1>1, <1>2, <1>3, <1>4, QuietStep

LEMMA TickStep == ASSUME IInv, Tick PROVE IInv'
<1>1. UNCHANGED <<skew, secrets, holds, mintedAt, attempt, wire, signed>> /\ heard' = Silence
      /\ time' = time + 1 /\ time < MaxTime /\ (holds < Newest => time' < GraceEnd(holds))
  BY DEF Tick, GraceEnd
<1>2. Onward
  BY <1>1 DEF Onward, IInv, Clocks, Newest
<1>3. Clocks' /\ InstalledInTime'
  <2>1. /\ time' \in 0 .. MaxTime /\ Newest' = Newest
        /\ \A k \in 1 .. Newest : mintedAt[k] <= time'
    BY <1>1, SignaturesAssumption DEF IInv, Clocks, Newest
  <2>2. Clocks'
    BY <1>1, <2>1 DEF IInv, Clocks
  <2>3. InstalledInTime'
    BY <1>1, <2>1 DEF InstalledInTime, GraceEnd
  <2> QED
    BY <2>2, <2>3
<1>4. ListOf(secrets, Newest, time)'
  <2>1. Newest \in Nat /\ Newest' = Newest
    BY <1>1 DEF IInv, Clocks, Newest
  <2> QED
    BY <1>1, <1>2, <2>1, ListStays DEF IInv, ListsComplete
<1>5. attempt'.pc = "read" => \E n \in Nat : ListOf(attempt'.copy, n, time)
  BY <1>1 DEF IInv, ListsComplete
<1> QED
  BY <1>1, <1>2, <1>3, <1>4, <1>5, QuietStep

\* Whatever arrives has the entries that were sent, and one beside them that verifies under no key.
LEMMA Arrived ==
    ASSUME NEW sent, NEW r \in Arrivals(sent), NEW e \in r.entries, e.key # Malformed
    PROVE  e \in sent.entries
BY DEF Arrivals, Entry

\* The decision: the key the receiver holds is one of those that signed.
LEMMA DecideStep ==
    ASSUME IInv, NEW sent \in wire, NEW r \in Arrivals(sent), Decides(r),
           attempt' = attempt \/ attempt'.pc # "read"
    PROVE  IInv'
<1>1. UNCHANGED <<time, skew, secrets, holds, wire, mintedAt, signed>>
  BY DEF Decides
<1> DEFINE verdict == IF Accepts(r, {holds}, time + skew) THEN "accepted" ELSE "rejected"
<1>2. heard'.request = r /\ heard'.at = time /\ heard'.key = holds /\ heard'.verdict = verdict
  BY DEF Decides
<1>3. /\ time \in Nat /\ skew \in (0 - MaxSkew) .. MaxSkew /\ MaxSkew \in Nat /\ Tolerance \in Nat
      /\ holds \in 1 .. Newest /\ Newest \in Nat
  BY SignaturesAssumption DEF IInv, Clocks
<1>4. Genuine(sent) /\ sent.content.timestamp \in Int
  BY DEF IInv, WireSound, Genuine
<1>5. r.content.timestamp \in Int
  <2> DEFINE c == sent.content
  <2>1. c \in [id : {"msg", "other"}, timestamp : Int, body : {"envelope", "other"}]
    BY <1>4 DEF Genuine
  <2>2. r.content \in {c, [c EXCEPT !.id = "other"], [c EXCEPT !.body = "other"],
                       [c EXCEPT !.timestamp = time]}
    BY DEF Arrivals
  <2>3. \A x \in {c, [c EXCEPT !.id = "other"], [c EXCEPT !.body = "other"],
                  [c EXCEPT !.timestamp = time]} : x.timestamp \in Int
    BY <1>3, <2>1
  <2> QED
    BY <2>2, <2>3
<1>6. \A e \in r.entries : e.key # Malformed => e \in sent.entries /\ e.content = sent.content
                                                /\ e.version = "v1"
  BY <1>4, Arrived DEF Genuine
<1>7. AcceptedIsGenuine'
  <2> SUFFICES ASSUME Accepts(r, {holds}, time + skew)
               PROVE  /\ r.content \in signed
                      /\ time - r.content.timestamp \in
                            (0 - Tolerance - MaxSkew) .. (Tolerance + MaxSkew)
    BY <1>1, <1>2 DEF AcceptedIsGenuine
  <2>1. PICK e \in r.entries : e.key = holds /\ e.content = r.content
    BY DEF Accepts, Matches
  <2>2. e.key # Malformed
    BY <1>3, <2>1 DEF Malformed
  <2>3. r.content \in signed
    BY <1>4, <1>6, <2>1, <2>2 DEF Genuine
  <2> QED
    BY <1>3, <1>5, <2>3 DEF Accepts, Fresh
<1>8. SeamlessRotation'
  <2> SUFFICES ASSUME Intact(r), r.content.id = "msg",
                      time - r.content.timestamp \in 0 .. Tolerance - MaxSkew,
                      NEW e \in r.entries, e.key >= holds
               PROVE  Accepts(r, {holds}, time + skew)
    BY <1>2 DEF SeamlessRotation
  <2>0. e.key # Malformed
    BY <1>3 DEF Malformed
  <2>1. e \in sent.entries /\ sent.content = r.content
    BY <1>6, <2>0 DEF Intact
  <2>2. PICK n \in 1 .. Newest :
          /\ \A f \in sent.entries : f.key \in 1 .. n
          /\ \A k \in 1 .. n : k = n \/ GraceEnd(k) > sent.content.timestamp
                                => Entry(k, sent.content) \in sent.entries
    BY <2>1 DEF IInv, WireSound, Covers
  <2>3. holds \in 1 .. n
    BY <1>3, <2>1, <2>2
  <2>4. holds = n \/ GraceEnd(holds) > sent.content.timestamp
    <3>1. CASE holds = n
      BY <3>1
    <3>2. CASE holds # n
      <4>1. holds < Newest
        BY <1>3, <2>3, <3>2
      <4>2. holds + 1 \in 1 .. Newest
        BY <1>3, <4>1
      <4>3. mintedAt[holds + 1] \in Nat /\ Grace \in Nat
        BY <4>2, SignaturesAssumption DEF IInv, Clocks
      <4>4. time < GraceEnd(holds) /\ GraceEnd(holds) \in Nat
        BY <4>1, <4>3 DEF IInv, InstalledInTime, GraceEnd
      <4>5. sent.content.timestamp <= time
        BY <1>3, <1>4, <2>1
      <4> QED
        BY <1>3, <1>4, <4>4, <4>5
    <3> QED
      BY <3>1, <3>2
  <2>5. Entry(holds, r.content) \in sent.entries
    BY <2>1, <2>2, <2>3, <2>4
  <2>6. sent.entries \subseteq r.entries
    BY DEF Arrivals
  <2>7. Matches(r, {holds})
    BY <2>5, <2>6 DEF Matches, Entry
  <2>8. Fresh(r.content.timestamp, time + skew)
    BY <1>3, <1>5 DEF Fresh
  <2> QED
    BY <2>7, <2>8 DEF Accepts
<1>9. Onward /\ Clocks' /\ InstalledInTime' /\ ListOf(secrets, Newest, time)'
  BY <1>1, SecretsStay
<1>10. attempt'.pc = "read" => \E n \in Nat : ListOf(attempt'.copy, n, time)
  BY DEF IInv, ListsComplete
<1>11. ListsComplete'
  BY <1>9, <1>10, ListStays DEF ListsComplete
<1>12. WireSound'
  BY <1>1, <1>9, RequestStays DEF WireSound
<1> QED
  BY <1>7, <1>8, <1>9, <1>11, <1>12 DEF IInv

------------------------------------------------------------------------------
(* The theorems *)

LEMMA StepHolds == IInv /\ [Next]_vars => IInv'
<1> SUFFICES ASSUME IInv, [Next]_vars PROVE IInv'
  OBVIOUS
<1>1. CASE RotateSecret \/ ReadEndpoint \/ Send \/ Ends
  BY <1>1, RotateStep, ReadStep, SendStep, EndStep
<1>2. CASE Playground \/ Install \/ Tick
  BY <1>2, PlaygroundStep, InstallStep, TickStep
<1>3. CASE Receive
  BY <1>3, DecideStep DEF Receive
<1>4. CASE Listen
  BY <1>4, DecideStep DEF Listen, Idle
<1>5. CASE VerifyFiles
  <2>1. \A r \in wire : r \in Arrivals(r)
    BY DEF Arrivals
  <2> QED
    BY <1>5, <2>1, DecideStep DEF VerifyFiles
<1>6. CASE UNCHANGED vars
  BY <1>6 DEF vars, IInv, Clocks, InstalledInTime, ListsComplete, ListOf, GraceEnd, Newest, WireSound,
     Genuine, Covers, SeamlessRotation, AcceptedIsGenuine
<1> QED
  BY <1>1, <1>2, <1>3, <1>4, <1>5, <1>6 DEF Next

LEMMA InvHolds == Spec => []IInv
<1> QED
  BY InitHolds, StepHolds, PTL DEF Spec

\* What a receiver accepts (verify of src/signing.ts) was signed as it arrived by a holder of a
\* secret, and lately: whatever is changed, pasted or recorded on the way is refused.
THEOREM OnlyGenuineIsAccepted == Spec => []AcceptedIsGenuine
<1>1. IInv => AcceptedIsGenuine
  BY DEF IInv
<1> QED
  BY <1>1, InvHolds, PTL

\* However many rotations fall into one grace (rotateSecret), an intact request that arrives in
\* time is accepted by a receiver whose secret is not younger than the attempt's copy of the
\* endpoint and which installs the current one before the grace of its own is over.
THEOREM RotationIsSeamless == Spec => []SeamlessRotation
<1>1. IInv => SeamlessRotation
  BY DEF IInv
<1> QED
  BY <1>1, InvHolds, PTL
==============================================================================
