----------------------------- MODULE UploadLimit ----------------------------
(***************************************************************************)
(* The rate limit of uploads on top of the settings: a session may ask for *)
(* a rate before its shell request, the shell request fixes the rate of    *)
(* the upload, and rateLimitedReader hands out bytes from a token bucket   *)
(* while the settings may change.  Tokens are counted in TicksPerSecond-ths*)
(* of a byte, so that a tick adds a whole number of them.  time.Now has a  *)
(* monotonic reading: refill never sees the clock go back.                 *)
(***************************************************************************)
EXTENDS AppSettings

CONSTANTS
    Uploads,          \* SSH sessions
    BufferSizes,      \* bound: len(p) of a read
    Arrivals,         \* bound: bytes the channel has ready
    TicksPerSecond,   \* resolution of the clock
    MaxTime           \* bound: ticks

ASSUME LimitAssumption ==
    /\ BufferSizes \subseteq Nat \ {0} /\ Arrivals \subseteq Nat
    /\ TicksPerSecond \in Nat \ {0} /\ MaxTime \in Nat

VARIABLES
    now,
    pc,           \* where the session is
    asked, bad,   \* sessionOptions: the requested rate (NoText: none) and err
    configured,   \* the server's rate at the shell request
    rate,         \* the effective rate
    tokens, lastRefill,
    want,         \* allowed: bytes a read in progress may return
    began, received   \* history: when the upload began, what it has read

options == <<asked, bad>>
bucket  == <<tokens, lastRefill, want>>
upload  == <<pc, options, configured, rate, bucket, began, received>>
vars    == <<settings, now, upload>>

\* One type for both modules.
TypeOK ==
    /\ SettingsTypeOK
    /\ now \in 0 .. MaxTime
    /\ pc \in [Uploads -> {"open", "refused", "command", "free", "limited", "reading", "closed"}]
    /\ asked \in [Uploads -> Int \cup {NoText}] /\ bad \in [Uploads -> BOOLEAN]
    /\ configured \in [Uploads -> Int] /\ rate \in [Uploads -> Int]
    /\ tokens \in [Uploads -> Nat] /\ want \in [Uploads -> Nat]
    /\ lastRefill \in [Uploads -> 0 .. MaxTime] /\ began \in [Uploads -> 0 .. MaxTime]
    /\ received \in [Uploads -> Nat]

Init ==
    /\ SettingsInit
    /\ now = 0
    /\ pc = [u \in Uploads |-> "open"]
    /\ asked = [u \in Uploads |-> NoText] /\ bad = [u \in Uploads |-> FALSE]
    /\ configured = [u \in Uploads |-> 0] /\ rate = [u \in Uploads |-> 0]
    /\ tokens = [u \in Uploads |-> 0] /\ lastRefill = [u \in Uploads |-> 0]
    /\ want = [u \in Uploads |-> 0]
    /\ began = [u \in Uploads |-> 0] /\ received = [u \in Uploads |-> 0]

AtMost(a, b) == IF a <= b THEN a ELSE b

-----------------------------------------------------------------------------
(* The session's requests.                                                 *)

\* handleSession, "env": one valid rate, or the session is spoilt.
RequestRate(u, t) ==
    /\ up /\ pc[u] = "open"
    /\ IF asked[u] # NoText
       THEN bad' = [bad EXCEPT ![u] = TRUE] /\ UNCHANGED asked
       ELSE /\ asked' = [asked EXCEPT ![u] =
                            IF ValidRate(t) THEN ParseThroughputLimitMbps(t) ELSE 0]
            /\ bad' = [bad EXCEPT ![u] = ~ValidRate(t)]
    /\ UNCHANGED <<settings, now, pc, configured, rate, bucket, began, received>>

\* "exec": a session that asked for a rate is turned away.
Exec(u) ==
    /\ up /\ pc[u] = "open"
    /\ pc' = [pc EXCEPT ![u] = IF asked[u] # NoText THEN "refused" ELSE "command"]
    /\ UNCHANGED <<settings, now, options, configured, rate, bucket, began, received>>

\* effectiveUploadRate: c is the server's rate, r the client's; 0 is no limit.
EffectiveUploadRate(c, r) ==
    IF c <= 0 THEN (IF r = NoText THEN 0 ELSE r)
    ELSE IF r = NoText \/ r <= 0 \/ r >= c THEN c ELSE r

MinBurst == 32 * 1024
MaxBurst == 1024 * 1024

\* A quarter of a second, within limits.
Burst(r) ==
    IF r \div 4 < MinBurst THEN MinBurst ELSE AtMost(r \div 4, MaxBurst)

\* "shell" and runAutoReceive up to newRateLimitedReader: the rate is taken
\* from the settings once.
Shell(u) ==
    LET r == EffectiveUploadRate(current["rate"], asked[u]) IN
    /\ up /\ pc[u] = "open" /\ ~bad[u]
    /\ pc' = [pc EXCEPT ![u] = IF r > 0 THEN "limited" ELSE "free"]
    /\ configured' = [configured EXCEPT ![u] = current["rate"]]
    /\ rate' = [rate EXCEPT ![u] = r]
    /\ tokens' = [tokens EXCEPT ![u] = IF r > 0 THEN Burst(r) * TicksPerSecond ELSE 0]
    /\ lastRefill' = [lastRefill EXCEPT ![u] = now]
    /\ began' = [began EXCEPT ![u] = now]
    /\ UNCHANGED <<settings, now, options, want, received>>

ShellRefused(u) ==
    /\ up /\ pc[u] = "open" /\ bad[u]
    /\ pc' = [pc EXCEPT ![u] = "refused"]
    /\ UNCHANGED <<settings, now, options, configured, rate, bucket, began, received>>

-----------------------------------------------------------------------------
(* rateLimitedReader.                                                      *)

\* Mutant of Refilled: the tokens are not capped at the burst.
RefilledUncapped(u) == tokens[u] + (now - lastRefill[u]) * rate[u]

\* refill.
Refilled(u) ==
    AtMost(Burst(rate[u]) * TicksPerSecond, tokens[u] + (now - lastRefill[u]) * rate[u])

\* Mutant of TakeTokens: the whole buffer is offered to the reader below.
TakeTokensWholeBuffer(u, size) ==
    /\ up /\ pc[u] = "limited" /\ Refilled(u) >= TicksPerSecond
    /\ tokens' = [tokens EXCEPT ![u] = Refilled(u) - size * TicksPerSecond]
    /\ lastRefill' = [lastRefill EXCEPT ![u] = now]
    /\ want' = [want EXCEPT ![u] = size]
    /\ pc' = [pc EXCEPT ![u] = "reading"]
    /\ UNCHANGED <<settings, now, options, configured, rate, began, received>>

\* Mutant of TakeTokens: refill forgets to move lastRefill.
TakeTokensRefillAgain(u, size) ==
    LET allowed == AtMost(size, Refilled(u) \div TicksPerSecond) IN
    /\ up /\ pc[u] = "limited" /\ Refilled(u) >= TicksPerSecond
    /\ tokens' = [tokens EXCEPT ![u] = Refilled(u) - allowed * TicksPerSecond]
    /\ want' = [want EXCEPT ![u] = allowed]
    /\ pc' = [pc EXCEPT ![u] = "reading"]
    /\ UNCHANGED <<settings, now, options, configured, rate, lastRefill, began, received>>

\* Read, before it calls the reader below: the tokens of the bytes it may
\* return are taken in advance.
TakeTokens(u, size) ==
    LET allowed == AtMost(size, Refilled(u) \div TicksPerSecond) IN
    /\ up /\ pc[u] = "limited" /\ Refilled(u) >= TicksPerSecond
    /\ tokens' = [tokens EXCEPT ![u] = Refilled(u) - allowed * TicksPerSecond]
    /\ lastRefill' = [lastRefill EXCEPT ![u] = now]
    /\ want' = [want EXCEPT ![u] = allowed]
    /\ pc' = [pc EXCEPT ![u] = "reading"]
    /\ UNCHANGED <<settings, now, options, configured, rate, began, received>>

\* Less than a byte: the refill is kept, and Read sleeps until there is one.
WaitForTokens(u) ==
    /\ up /\ pc[u] = "limited" /\ Refilled(u) < TicksPerSecond
    /\ tokens' = [tokens EXCEPT ![u] = Refilled(u)]
    /\ lastRefill' = [lastRefill EXCEPT ![u] = now]
    /\ UNCHANGED <<settings, now, pc, options, configured, rate, want, began, received>>

\* The reader below returns n bytes, however much later; what was not used is
\* given back.
ReadReturns(u, ready) ==
    LET n == AtMost(ready, want[u]) IN
    /\ up /\ pc[u] = "reading"
    /\ received' = [received EXCEPT ![u] = @ + n]
    /\ tokens' = [tokens EXCEPT ![u] =
                    IF n < want[u]
                    THEN AtMost(Burst(rate[u]) * TicksPerSecond,
                                @ + (want[u] - n) * TicksPerSecond)
                    ELSE @]
    /\ want' = [want EXCEPT ![u] = 0]
    /\ pc' = [pc EXCEPT ![u] = "limited"]
    /\ UNCHANGED <<settings, now, options, configured, rate, lastRefill, began>>

\* The end of the stream, an error, a cancelled context.
Close(u) ==
    /\ pc[u] \in {"free", "limited", "reading", "command"}
    /\ pc' = [pc EXCEPT ![u] = "closed"]
    /\ UNCHANGED <<settings, now, options, configured, rate, bucket, began, received>>

-----------------------------------------------------------------------------

Tick ==
    /\ now < MaxTime
    /\ now' = now + 1
    /\ UNCHANGED <<settings, upload>>

\* The settings change, or the process ends and its sessions with it.
SettingsStep ==
    /\ SettingsNext
    /\ pc' = IF up' THEN pc
             ELSE [u \in Uploads |-> IF pc[u] = "open" /\ asked[u] = NoText
                                     THEN "open" ELSE "closed"]
    /\ UNCHANGED <<now, options, configured, rate, bucket, began, received>>

Session(u) ==
    \/ \E t \in Texts : RequestRate(u, t)
    \/ Exec(u) \/ Shell(u) \/ ShellRefused(u)
    \/ \E size \in BufferSizes : TakeTokens(u, size)
    \/ WaitForTokens(u)
    \/ \E ready \in Arrivals : ReadReturns(u, ready)
    \/ Close(u)

Next == SettingsStep \/ Tick \/ \E u \in Uploads : Session(u)

Spec == Init /\ [][Next]_vars

-----------------------------------------------------------------------------
(* Properties.                                                             *)

\* In all, an upload gets no more than one burst and the rate that the server's
\* settings had when it began, whatever the client asks for, however reads
\* block, and however the settings change.
ServerLimitHolds ==
    \A u \in Uploads : configured[u] > 0 =>
        TicksPerSecond * received[u]
            <= TicksPerSecond * Burst(configured[u]) + configured[u] * (now - began[u])

\* What an upload can still be handed at this instant: the bytes of the read in
\* progress, and those of the next one after its refill.
Credit(u) == TicksPerSecond * want[u] + Refilled(u)

\* The credit is at most two bursts (two when a read is blocked long enough for
\* the bucket to fill again behind it), bytes are paid for with it, and only
\* time adds to it, at the server's rate: over any interval an upload gets at
\* most two bursts and the rate times its length.
IntervalLimitHolds ==
    [][\A u \in Uploads : configured[u] > 0 /\ pc[u] \in {"limited", "reading"} =>
        /\ Credit(u) <= 2 * TicksPerSecond * Burst(configured[u])
        /\ TicksPerSecond * (received'[u] - received[u]) + (Credit(u)' - Credit(u))
             <= configured[u] * (now' - now)]_vars

=============================================================================
