-------------------------- MODULE PgCircuitBreaker --------------------------
(***************************************************************************)
(* The class PgCircuitBreaker of core/circuit-breaker.ts as operators on   *)
(* its private fields, for the modules that own one: LpCircuit (lpCircuit, *)
(* which refuses) and SoulOutbox (soulCircuit, which diverts).             *)
(*                                                                         *)
(* openedAt and Date.now() are one number, the ticks left of the cooldown. *)
(***************************************************************************)
EXTENDS Integers

CONSTANTS
  FailThreshold,   \* AGENT_PG_CIRCUIT_FAIL_THRESHOLD
  ProbeInterval    \* AGENT_PG_CIRCUIT_PROBE_MS, in ticks

ASSUME BreakerAssumption == FailThreshold \in Nat /\ ProbeInterval \in Nat

CircuitState == {"closed", "open", "half-open"}

Breaker == [state : CircuitState, failures : Nat, cooldown : 0 .. ProbeInterval,
            probing : BOOLEAN]

Fresh == [state |-> "closed", failures |-> 0, cooldown |-> 0, probing |-> FALSE]

\* What allowRequest() returns.
Allows(b) ==
  \/ b.state = "closed"
  \/ b.state = "open" /\ b.cooldown = 0
  \/ b.state = "half-open" /\ ~b.probing

\* Mutant of AfterRequest: the caller that half-opens does not claim the slot.
AfterRequestUnclaimed(b) ==
  IF b.state = "open" /\ b.cooldown = 0 THEN [b EXCEPT !.state = "half-open"]
  ELSE IF b.state = "half-open" THEN [b EXCEPT !.probing = TRUE]
  ELSE b

\* Mutant of AfterRequest: nobody half-opens a breaker that has cooled down.
AfterRequestStuck(b) ==
  IF b.state = "half-open" THEN [b EXCEPT !.probing = TRUE] ELSE b

\* What allowRequest() leaves behind.
AfterRequest(b) ==
  IF b.state # "closed" /\ Allows(b)
    THEN [b EXCEPT !.state = "half-open", !.probing = TRUE]
    ELSE b

\* Mutant of AfterSuccess: an open breaker waits for its own probe.
AfterSuccessOfProbe(b) ==
  IF b.state = "open" THEN b
  ELSE [b EXCEPT !.state = "closed", !.failures = 0, !.probing = FALSE]

\* recordSuccess(): closes from any state.
AfterSuccess(b) ==
  [b EXCEPT !.state = "closed", !.failures = 0, !.probing = FALSE]

Opened(b) == [b EXCEPT !.state = "open", !.cooldown = ProbeInterval]

\* recordFailure(): a failure shouldCountAsCircuitFailure has let through.
AfterFailure(b) ==
  CASE b.state = "open" -> b
    [] b.state = "half-open" -> [Opened(b) EXCEPT !.probing = FALSE]
    [] OTHER -> IF b.failures + 1 >= FailThreshold
                  THEN [Opened(b) EXCEPT !.failures = @ + 1]
                  ELSE [b EXCEPT !.failures = @ + 1]

\* Time passes.
AfterTick(b) == [b EXCEPT !.cooldown = @ - 1]
=============================================================================
