------------------------------ MODULE Signatures ------------------------------
(***************************************************************************)
(* One endpoint and its receiver while the signing secret is rotated:      *)
(* rotateSecret (src/core.ts), the signed attempt (src/deliver.ts), the    *)
(* signature (src/signing.ts) and the receiver that verifies it            *)
(* (src/receiver.ts; the listen, verify and sign commands of src/cli.ts).  *)
(*                                                                         *)
(* A secret is the number of its mint, and the list of an endpoint's       *)
(* secrets, newest first, the set of them.  An HMAC is external: it is the *)
(* record of the key and of what was signed.  Requests are delayed,        *)
(* repeated, reordered, and changed on the way by those who hold no secret.*)
(***************************************************************************)
EXTENDS Integers, Sequences, FiniteSets

CONSTANTS
    Grace,              \* secretRotationGrace
    Tolerance,          \* toleranceSeconds
    MaxSkew,            \* how far the receiver's clock may be off
    CopyAge,            \* how long an attempt holds the endpoint it read
    MaxTime, MaxRotations, MaxAttempts,
    MaxSamples          \* requests made with the sign command

ASSUME SignaturesAssumption ==
    /\ {Grace, Tolerance, MaxSkew, CopyAge, MaxTime,
        MaxRotations, MaxAttempts, MaxSamples} \subseteq Nat
    /\ CopyAge < Grace

VARIABLES
    time,
    skew,               \* the receiver's clock less the sender's
    secrets,            \* the endpoint's secrets: the current one is the newest
    holds,              \* the secret the receiver verifies with
    attempt,            \* the attempt: the endpoint it read, when, what it sent
    wire,               \* every request on its way, or already received once
    heard,              \* what the receiver decided in the last step, if it did
    mintedAt,           \* when each secret was minted
    signed,             \* everything a holder of a secret has signed
    attempts            \* attempts so far

vars == <<time, skew, secrets, holds, attempt, wire, heard, mintedAt, signed, attempts>>

------------------------------------------------------------------------------
(* Signing *)

Never == MaxTime + Grace + 1        \* expiresAt is not set
Secret == [key : 1 .. MaxRotations + 1, expiresAt : 0 .. Never]

Content == [id : {"msg", "other"}, timestamp : 0 .. MaxTime + MaxSkew, body : {"envelope", "other"}]

\* A v1 entry of the header; a malformed one verifies under no key.
Malformed == 0
Entry(key, content) == [version |-> "v1", key |-> key, content |-> content]

\* activeSecrets: those that have not expired at the instant of signing.
activeSecrets(list, at) == {s.key : s \in {x \in list : x.expiresAt > at}}

\* buildSignedRequest: one entry per active secret, over what the headers say.
Signed(list, at) ==
    LET content == [id |-> "msg", timestamp |-> at, body |-> "envelope"]
    IN  [content |-> content, entries |-> {Entry(k, content) : k \in activeSecrets(list, at)}]

\* Mutant: a timestamp of the future is not looked at.
FreshPast(timestamp, clock) == timestamp >= clock - Tolerance

\* The tolerance, both ways and inclusive.
Fresh(timestamp, clock) ==
    timestamp >= clock - Tolerance /\ timestamp <= clock + Tolerance

\* Any v1 entry under any of the receiver's secrets, over the content received.
Matches(request, keys) ==
    \E e \in request.entries :
        e.version = "v1" /\ e.key \in keys /\ e.content = request.content

\* verify
Accepts(request, keys, clock) ==
    Fresh(request.content.timestamp, clock) /\ Matches(request, keys)

------------------------------------------------------------------------------
(* The sender *)

Newest == Len(mintedAt)
Idle == [pc |-> "idle", copy |-> {}, since |-> 0]

Silence == [verdict |-> "none"]

Init ==
    /\ time = 0
    /\ skew \in (0 - MaxSkew) .. MaxSkew
    /\ secrets = {[key |-> 1, expiresAt |-> Never]}
    /\ holds = 1
    /\ attempt = Idle
    /\ wire = {}
    /\ heard = Silence
    /\ mintedAt = <<0>>
    /\ signed = {}
    /\ attempts = 0

\* The secret that was current when this one was minted.
Previous(list, key) == {s \in list : s.key = key - 1}

\* Mutant: a rotation keeps the current secret and the one before it.
RotatedKeepsOne(list, key, at) ==
    {[key |-> key, expiresAt |-> Never]}
        \cup {[s EXCEPT !.expiresAt = at + Grace] : s \in Previous(list, key)}

\* The new secret, the previous one for its grace, older ones for what is left
\* of theirs.
Rotated(list, key, at) ==
    {[key |-> key, expiresAt |-> Never]}
        \cup {[s EXCEPT !.expiresAt = at + Grace] : s \in Previous(list, key)}
        \cup {s \in list \ Previous(list, key) : s.expiresAt > at}

RotateSecret ==
    /\ Newest <= MaxRotations
    /\ mintedAt' = Append(mintedAt, time)
    /\ secrets' = Rotated(secrets, Newest + 1, time)
    /\ heard' = Silence
    /\ UNCHANGED <<time, skew, holds, attempt, wire, signed, attempts>>

\* processClaim reads the endpoint ...
ReadEndpoint ==
    /\ attempt.pc = "idle" /\ attempts < MaxAttempts
    /\ attempts' = attempts + 1
    /\ attempt' = [Idle EXCEPT !.pc = "read", !.copy = secrets, !.since = time]
    /\ heard' = Silence
    /\ UNCHANGED <<time, skew, secrets, holds, wire, mintedAt, signed>>

\* ... and attemptDelivery signs and sends what that copy says.
Send ==
    /\ attempt.pc = "read"
    /\ LET request == Signed(attempt.copy, time)
       IN  /\ wire' = wire \cup {request}
           /\ signed' = signed \cup {request.content}
           /\ attempt' = [attempt EXCEPT !.pc = "sent"]
    /\ heard' = Silence
    /\ UNCHANGED <<time, skew, secrets, holds, mintedAt, attempts>>

\* The answer, a network error, or the timeout: the attempt is over.
Ends ==
    /\ attempt.pc = "sent"
    /\ attempt' = Idle
    /\ heard' = Silence
    /\ UNCHANGED <<time, skew, secrets, holds, wire, mintedAt, signed, attempts>>

------------------------------------------------------------------------------
(* The receiver and the network *)

\* What the sign command signs, for whoever holds a secret and for any --timestamp.
Playground ==
    /\ Cardinality({c \in signed : c.id = "other"}) < MaxSamples
    /\ \E at \in 0 .. MaxTime, key \in 1 .. Newest :
        LET content == [id |-> "other", timestamp |-> at, body |-> "envelope"]
        IN  /\ wire' = wire \cup {[content |-> content, entries |-> {Entry(key, content)}]}
            /\ signed' = signed \cup {content}
    /\ heard' = Silence
    /\ UNCHANGED <<time, skew, secrets, holds, attempt, mintedAt, attempts>>

\* What may arrive of a request: itself, or something changed on the way - the
\* entries stay, and one nobody signed may join them.
Arrivals(r) ==
    {r} \cup {[content |-> c, entries |-> r.entries \cup {Entry(Malformed, r.content)}] :
                c \in {r.content, [r.content EXCEPT !.id = "other"],
                       [r.content EXCEPT !.body = "other"],
                       [r.content EXCEPT !.timestamp = time]}}

Decides(r) ==
    LET verdict == IF Accepts(r, {holds}, time + skew) THEN "accepted" ELSE "rejected"
    IN  /\ heard' = [request |-> r, at |-> time, key |-> holds, verdict |-> verdict]
        /\ UNCHANGED <<time, skew, secrets, holds, wire, mintedAt, signed, attempts>>

\* A request arrives, first or again, and verifyWebhook decides.
Receive == \E sent \in wire : \E r \in Arrivals(sent) : Decides(r) /\ UNCHANGED attempt

\* The listen command does with its --secret, and answers: 401, or the --status it is given.
Listen == \E sent \in wire : \E r \in Arrivals(sent) :
            Decides(r) /\ attempt.pc = "sent" /\ attempt' = Idle

\* The verify command decides on a request saved in files, by the clock of its own machine.
VerifyFiles == \E r \in wire : Decides(r) /\ UNCHANGED attempt

\* The receiver's operator installs the current secret ...
Install ==
    /\ holds # Newest
    /\ holds' = Newest
    /\ heard' = Silence
    /\ UNCHANGED <<time, skew, secrets, attempt, wire, mintedAt, signed, attempts>>

\* ... before the grace of the one it replaces is over; an attempt sends soon
\* after it read the endpoint.
Tick ==
    /\ time < MaxTime
    /\ holds < Newest => time + 1 < mintedAt[holds + 1] + Grace
    /\ attempt.pc = "read" => time + 1 <= attempt.since + CopyAge
    /\ time' = time + 1
    /\ heard' = Silence
    /\ UNCHANGED <<skew, secrets, holds, attempt, wire, mintedAt, signed, attempts>>

Next ==
    \/ RotateSecret \/ ReadEndpoint \/ Send \/ Ends
    \/ Playground \/ Receive \/ Listen \/ VerifyFiles \/ Install \/ Tick

Spec == Init /\ [][Next]_vars

------------------------------------------------------------------------------
(* Properties *)

\* What each variable can hold.
SignaturesTypeOK ==
    /\ time \in 0 .. MaxTime /\ skew \in (0 - MaxSkew) .. MaxSkew
    /\ secrets \in SUBSET Secret \ {{}}
    /\ holds \in 1 .. Newest
    /\ \A r \in wire : r.content \in Content
    /\ heard.verdict \in {"none", "accepted", "rejected"}
    /\ signed \subseteq Content

Intact(request) == \A e \in request.entries : e.content = request.content

\* A rotation is seamless, and so are two within one grace: an unchanged request
\* that arrives in time is rejected only if the receiver's secret was minted
\* after the attempt had read the endpoint - and that secret then signs the retry.
\* A receiver that installs the current secret before the grace of its own is
\* over needs no second one.
\* (rotateSecret prunes by expiry, activeSecrets filters by it, verify tries all.)
SeamlessRotation ==
    /\ heard.verdict # "none"
    /\ Intact(heard.request) /\ heard.request.content.id = "msg"
    /\ heard.at - heard.request.content.timestamp \in 0 .. Tolerance - MaxSkew
    /\ \E e \in heard.request.entries : e.key >= heard.key
    => heard.verdict = "accepted"

\* What the receiver takes for a message was signed as it arrived - its id, its
\* instant and its body - by somebody who had a secret, at an instant no further
\* than the tolerance and the clocks' difference away: nothing changed on the
\* way passes, and nothing recorded passes again later.
AcceptedIsGenuine ==
    heard.verdict = "accepted" =>
        /\ heard.request.content \in signed
        /\ heard.at - heard.request.content.timestamp \in
                (0 - Tolerance - MaxSkew) .. (Tolerance + MaxSkew)

=============================================================================
