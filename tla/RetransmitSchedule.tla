------------------------- MODULE RetransmitSchedule -------------------------
(***************************************************************************)
(* When a call that hears nothing transmits and gives up: client.Config,   *)
(* RetransmitPolicy and the timing of exchangeWithRetransmit, against a    *)
(* server that never answers.  Durations are integers of Width bits, and a *)
(* Jitter is a number of hundredths.                                       *)
(***************************************************************************)
EXTENDS Integers

CONSTANTS
    Width,          \* bits of a time.Duration
    Attempts,       \* values of RetransmitPolicy.MaxAttempts
    Durations,      \* values of Initial and Max
    Jitters,        \* values of Jitter
    Timeouts,       \* values of Config.Timeout
    DefaultPolicy   \* DefaultRetransmitPolicy()

ASSUME WidthIsNat == Width \in Nat /\ Width > 1

\* Powers of two.
Pow2[n \in Nat] == IF n = 0 THEN 1 ELSE 2 * Pow2[n - 1]

MaxDuration == Pow2[Width - 1] - 1
MinDuration == -Pow2[Width - 1]

ASSUME DurationsFit == Durations \cup Timeouts \subseteq MinDuration..MaxDuration
ASSUME PoliciesAreIntegers ==
    /\ Attempts \cup Jitters \subseteq Int
    /\ DefaultPolicy \in [n : Nat \ {0}, initial : Int, max : Int, jitter : Int]

VARIABLES
    sphase,     \* "idle", "send", "read", "last read", "backoff", "failed", "stuck"
    config,     \* Config.Retransmit and Config.Timeout
    policy,     \* the protocol client's policy
    attempt,    \* transmissions made
    left,       \* time until the call's deadline, if Timeout gives it one
    delay       \* the deadline of the attempt whose reply is awaited, or 0

scheduleVars == <<sphase, config, policy, attempt, left, delay>>

ZeroPolicy == [n |-> 0, initial |-> 0, max |-> 0, jitter |-> 0]

\* x << k in two's complement.
Wrap(x) ==
    LET m == x % Pow2[Width] IN IF m >= Pow2[Width - 1] THEN m - Pow2[Width] ELSE m
Shifted(x, k) == IF k >= Width THEN 0 ELSE Wrap(x * Pow2[k])

\* Slip: only an overflow is cut to the maximum.
BaseUncappedSlip(p, k) ==
    LET base == Shifted(p.initial, k) IN IF base <= 0 THEN p.max ELSE base

\* Initial << attempt, capped at Max.
Base(p, k) ==
    LET base == Shifted(p.initial, k) IN IF base <= 0 \/ base > p.max THEN p.max ELSE base

\* A hundredth of x, towards zero as a conversion to Duration rounds.
Hundredth(x) == IF x >= 0 THEN x \div 100 ELSE -((-x) \div 100)

\* RetransmitPolicy.NextDelay: what it may draw.  A float64 that is no
\* Duration becomes the least one or the greatest, as the processor has it.
NextDelay(p, k) ==
    LET base == Base(p, k)
        from == Hundredth(base * (100 - p.jitter))
        to == Hundredth(base * (100 + p.jitter))
        drawn == (from..to) \cup (to..from)
    IN  IF p.jitter <= 0 THEN {base}
        ELSE (drawn \cap (MinDuration..MaxDuration))
             \cup (IF drawn \subseteq MinDuration..MaxDuration THEN {} ELSE {MinDuration, MaxDuration})

\* RetransmitPolicy.Attempts.
AttemptsOf(p) == IF p.n <= 0 THEN DefaultPolicy.n ELSE p.n

ScheduleInit ==
    /\ sphase = "idle" /\ policy = ZeroPolicy /\ attempt = 0 /\ left = 0 /\ delay = 0
    /\ config = [retransmit |-> ZeroPolicy, timeout |-> 0]

\* retransmitOrZero.
RetransmitOrZero(p) == IF p = ZeroPolicy THEN DefaultPolicy ELSE p

Call(c, p) ==
    /\ sphase = "idle" /\ sphase' = "send"
    /\ config' = c /\ policy' = p
    /\ left' = (IF c.timeout > 0 THEN c.timeout ELSE 0)
    /\ UNCHANGED <<attempt, delay>>

\* A call of a client made by NewUDPClient, and one made by NewTCPClient.
CallUDP ==
    \E p \in [n : Attempts, initial : Durations, max : Durations, jitter : Jitters], t \in Timeouts :
        Call([retransmit |-> p, timeout |-> t], RetransmitOrZero(p))
CallTCP ==
    \E t \in Timeouts :
        Call([retransmit |-> ZeroPolicy, timeout |-> t], [ZeroPolicy EXCEPT !.n = 1])

\* d units pass, and the call ends if its deadline is within them.
Passes(d, next) ==
    /\ UNCHANGED <<config, policy, attempt>>
    /\ delay' = 0
    /\ IF config.timeout > 0 /\ d >= left
       THEN sphase' = "failed" /\ left' = 0
       ELSE sphase' = next /\ left' = (IF config.timeout > 0 THEN left - d ELSE left)

\* An attempt is sent, under a deadline of its own unless it is the last or
\* the delay is not positive.
Transmit ==
    /\ sphase = "send"
    /\ attempt' = attempt + 1
    /\ \/ /\ attempt' < AttemptsOf(policy)
          /\ \E d \in NextDelay(policy, attempt) :
                IF d > 0 THEN sphase' = "read" /\ delay' = d
                ELSE sphase' = "last read" /\ delay' = delay
       \/ /\ attempt' >= AttemptsOf(policy)
          /\ sphase' = "last read" /\ delay' = delay
    /\ UNCHANGED <<config, policy, left>>

\* Nothing is heard: the attempt's deadline passes, or the call's.
ReadTimesOut == sphase = "read" /\ Passes(delay, "backoff")

\* time.After of a delay that is not positive fires at once.  The delay is
\* drawn anew.
BackOff ==
    /\ sphase = "backoff"
    /\ \E d \in NextDelay(policy, attempt - 1) : Passes(IF d > 0 THEN d ELSE 0, "send")

\* A read without a deadline of its own ends with the call's, if it has one.
LastRead ==
    /\ sphase = "last read"
    /\ sphase' = (IF config.timeout > 0 THEN "failed" ELSE "stuck")
    /\ left' = 0
    /\ UNCHANGED <<config, policy, attempt, delay>>

ScheduleNext == CallUDP \/ CallTCP \/ Transmit \/ ReadTimesOut \/ BackOff \/ LastRead

ScheduleSpec == ScheduleInit /\ [][ScheduleNext]_scheduleVars

-----------------------------------------------------------------------------
JitterOf(p) == IF p.jitter > 0 THEN p.jitter ELSE 0

\* The call that waits for ever is one without a timeout, and it has made
\* every attempt of its policy, or one of them had no deadline
\* (client.go:506): the maximum is not positive, or jitter brings a delay of
\* a few nanoseconds to zero, or one near the greatest Duration over it.
StuckOnlyWithoutTimeout ==
    sphase = "stuck" =>
        /\ config.timeout <= 0
        /\ attempt < AttemptsOf(policy) =>
              \/ policy.max <= 0
              \/ (100 - JitterOf(policy)) * Base(policy, attempt - 1) < 100
              \/ (100 + JitterOf(policy)) * policy.max > 100 * MaxDuration

\* The deadlines double up to the maximum for as long as doubling fits a
\* Duration, within what a jitter of up to 100% adds or takes
\* (retransmit_test.go:65), and no overflow of the shift makes one longer
\* than the jittered maximum or negative.  The maximum itself is no bound.
BackoffDoubles ==
    LET j == JitterOf(policy)
        exact == policy.initial * Pow2[attempt - 1]
        due == IF exact > policy.max THEN policy.max ELSE exact
        jittered == (100 + j) * policy.max
    IN  sphase = "read" /\ j <= 100 /\ jittered \in 1..(100 * MaxDuration) =>
            /\ delay > 0 /\ 100 * delay <= jittered
            /\ exact \in 1..MaxDuration =>
                  /\ 100 * (delay + 1) > (100 - j) * due
                  /\ 100 * delay <= (100 + j) * due
=============================================================================
