---------------------------- MODULE PoolStrategy ----------------------------
(***************************************************************************)
(* The arithmetic of the two reconnection strategies a pool can use        *)
(* (connector/pool_strategy.hpp and connector/impl/pool_strategy.ipp): how *)
(* many sessions one refill() call tries to open, and how long the         *)
(* conservative strategy backs off after a refill() that opened none.      *)
(* The threads refill() starts are steps of ConnectionPool, which uses     *)
(* these operators.                                                        *)
(***************************************************************************)
EXTENDS Integers, FiniteSetsExt

CONSTANTS
    InitialDelay,       \* initial_delay_ms_, first_delay_ms of the constructor
    DelayMultiplier,    \* delay_multiplier_
    MaxBackoff          \* kMaxBackoffMs

\* The constructor throws on a multiplier below 1; the other two are unsigned.
ASSUME DelayAssumption ==
    /\ InitialDelay \in Nat
    /\ DelayMultiplier \in Nat \ {0}
    /\ MaxBackoff \in Nat

Strategies == {"greedy", "conservative"}

\* Threads the conservative strategy starts beside its own attempt.  The
\* subtraction is on size_t: refill() is only called with vacant > 0.
Parallel(vacant) == (vacant + 2) \div 3 - 1

ConservativeAttempts(vacant, delay) ==
    IF delay = 0 THEN Parallel(vacant) + 1 ELSE 1

\* Sessions one refill() call tries to open, concurrently.
Attempts(strategy, vacant, delay) ==
    IF strategy = "greedy" THEN vacant ELSE ConservativeAttempts(vacant, delay)

Raised(delay) ==
    IF delay = 0 THEN InitialDelay ELSE delay * DelayMultiplier

\* Mutant: the delay is not capped.
NextDelays_NoCap(delay) == 0..Raised(delay)

\* current_delay_ms_ after a failed refill(): the raised delay times a random
\* factor of [0, 1], truncated to an integer, and capped.
NextDelays(delay) ==
    {Min({MaxBackoff, d}) : d \in 0..Raised(delay)}

=============================================================================
