----------------------------- MODULE SanitizedKey -----------------------------
(***************************************************************************)
(* The validators of include/safe-shm/sanitized_key.hpp.  A validator is the *)
(* set of the raw keys it accepts.                                           *)
(***************************************************************************)
EXTENDS Integers

CONSTANTS Keys,     \* the raw keys, uint64_t
          MIN_NS,   \* one second after boot
          MAX_NS    \* 100 years of uptime

NoKey == -1

RangeValidator(min_val, max_val) == {v \in Keys : v >= min_val /\ v <= max_val}

\* Mutant: a signed difference, without the case of a smaller key.
ProximityOneSided(reference, tolerance) ==
  {v \in Keys : v - reference <= tolerance}

\* The larger minus the smaller: unsigned subtraction must not wrap.
ProximityValidator(reference, tolerance) ==
  {v \in Keys :
     (IF v > reference THEN v - reference ELSE reference - v) <= tolerance}

MonotonicNsValidator == RangeValidator(MIN_NS, MAX_NS)

AllOf(validators) == {v \in Keys : \A V \in validators : v \in V}

\* A SanitizedKey, or nullopt (NoKey).
Sanitize(raw, validator) == IF raw \in validator THEN raw ELSE NoKey
=============================================================================
