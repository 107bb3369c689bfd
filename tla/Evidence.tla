------------------------------ MODULE Evidence ------------------------------
(***************************************************************************)
(* What the figures of usage are worth (internal/usage): which source the  *)
(* readings of a run come from, and what a decision may use them for.      *)
(*                                                                         *)
(* An answer gives for each resource a function from the pods that have a  *)
(* reading, numbers, to the reading.  Amounts are in the units of the      *)
(* requests.                                                               *)
(*                                                                         *)
(* A definition X_Fault is X with one plausible mistake; no specification  *)
(* uses it.                                                                *)
(***************************************************************************)
EXTENDS Integers, FiniteSets

Source == {"auto", "prometheus", "instant"}

\* A name that is not known is the weakest source, and none is the default.
Mode(name) == IF name = "" THEN "auto" ELSE IF name \in Source THEN name ELSE "instant"

Actionable(fidelity) == fidelity \in {"historical_p95", "recommender", "sampled_rollup"}

\* The pods of a set of readings: one figure is enough.
Read(readings) == UNION {DOMAIN readings[d] : d \in DOMAIN readings}

NoUsage(readings) ==
  [fidelity |-> "none", readings |-> [d \in DOMAIN readings |-> <<>>]]

\* Coverage: four pods in five, or there are none to ask about.
Covers(readings, keys) ==
  keys = {} \/ 5 * Cardinality(keys \cap Read(readings)) >= 4 * Cardinality(keys)

Usable_Fault(readings, keys) == Read(readings) # {}

\* tryProvider: a source without a reading fails, and so does one that knows
\* too few of the pods.
Usable(readings, keys) == Read(readings) # {} /\ Covers(readings, keys)

\* PrometheusProvider: both queries must answer.
PercentilesUsable(e, keys) == e.url /\ e.answers /\ Usable(e.p95, keys)

\* A percentile that was asked for by name is not replaced by a sample.
Resolve(e, keys) ==
  LET mode == Mode(e.mode) IN
  IF mode # "instant" /\ PercentilesUsable(e, keys)
    THEN [fidelity |-> "historical_p95", readings |-> e.p95]
  ELSE IF mode # "prometheus" /\ Usable(e.live, keys)
    THEN [fidelity |-> "instant", readings |-> e.live]
  ELSE NoUsage(e.live)

\* A pod without a reading is taken to use nothing.
Reading(u, p, d) == IF p \in DOMAIN u.readings[d] THEN u.readings[d][p] ELSE 0

\* What a pod is counted with: usage, and headroom over it, can only add to a
\* request, and weak evidence not even that.
EffectiveAmount(request, u, p, d, headroom) ==
  LET scaled == Reading(u, p, d) + (Reading(u, p, d) * headroom) \div 100 IN
  IF Actionable(u.fidelity) /\ scaled > request THEN scaled ELSE request

=============================================================================
