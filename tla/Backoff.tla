------------------------------ MODULE Backoff ------------------------------
(***************************************************************************)
(* The retry delay of internal/backoff/backoff.go, shared by the reconnect *)
(* loops of the connection and of the channel manager.                     *)
(*                                                                         *)
(* A time.Duration is a signed integer and a Go shift wraps silently, so   *)
(* the width is a parameter: durations range over -Limit .. Limit - 1,     *)
(* where Limit is 2^63 in the program.                                     *)
(***************************************************************************)
EXTENDS Integers

CONSTANT Limit

ASSUME LimitAssumption == Limit \in Nat \ {0}

\* The values of a time.Duration.
Durations == -Limit .. Limit - 1

\* The rung at which exponential growth stops.
maxAttempt == 4

Capped(n) == IF n < maxAttempt THEN n ELSE maxAttempt

\* The multiplier of `base << k` for the shifts the cap lets through.
Pow2 == [k \in 0..maxAttempt |-> CASE k = 0 -> 1 [] k = 1 -> 2 [] k = 2 -> 4
                                   [] k = 3 -> 8 [] OTHER -> 16]

\* Two's complement wrap-around at the width of a duration.
Wrap(x) == ((x + Limit) % (2 * Limit)) - Limit

Shifted(base, n) == Wrap(base * Pow2[Capped(n)])

\* Go's division by four, which truncates towards zero.
Quarter(d) == IF d >= 0 THEN d \div 4 ELSE -((-d) \div 4)

\* A plausible slip: the jitter is drawn below half of the delay.
DelaysHalfJitter(base, n) ==
    IF base <= 0 THEN {0}
    ELSE {Shifted(base, n) - jitter : jitter \in 0..(Shifted(base, n) \div 2)}

\* Every value Delay(base, n) may return: the shifted interval minus a jitter
\* of at most a quarter of it. The set is empty when the shift wrapped to a
\* duration of -4 or less: rand.Int64N panics on the non-positive bound.
Delays(base, n) ==
    IF base <= 0 THEN {0}
    ELSE {Shifted(base, n) - jitter : jitter \in 0..Quarter(Shifted(base, n))}

============================================================================
