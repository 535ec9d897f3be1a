---------------------------- MODULE StreamParams ----------------------------
(***************************************************************************)
(* The pure functions of src/soundio.c that choose the parameters of a     *)
(* stream from what a device supports.  Rates are in kHz, a format or a    *)
(* channel layout is a value; the channels of a layout matter only by      *)
(* their number.                                                           *)
(***************************************************************************)
EXTENDS Integers, Sequences, SequencesExt

CONSTANTS MaxRate,     \* bound: the rates the reference is compared over
          MaxChannels  \* SOUNDIO_MAX_CHANNELS

ASSUME RatesAssumption == MaxRate \in Nat /\ MaxChannels \in Nat

soundio_int_clamp(min_value, value, max_value) ==
  LET low == IF value <= max_value THEN value ELSE max_value
  IN  IF low >= min_value THEN low ELSE min_value

abs_diff_int(a, b) == IF a >= b THEN a - b ELSE b - a

\* Mutant: takes whatever is nearer, even if it is below the rate wanted.
better_rate_nearer(best_rate, range, sample_rate) ==
  LET candidate_rate == soundio_int_clamp(range.min, sample_rate, range.max)
  IN  IF \/ best_rate = -1
         \/ abs_diff_int(candidate_rate, sample_rate) < abs_diff_int(best_rate, sample_rate)
      THEN candidate_rate ELSE best_rate

\* One round of the loop of soundio_device_nearest_sample_rate; a candidate that
\* is the rate wanted is returned, whatever ranges follow.
better_rate(best_rate, range, sample_rate) ==
  LET candidate_rate == soundio_int_clamp(range.min, sample_rate, range.max)
      delta == abs_diff_int(candidate_rate, sample_rate)
      best_delta == abs_diff_int(best_rate, sample_rate)
      best_rate_too_small == best_rate < sample_rate
      candidate_rate_too_small == candidate_rate < sample_rate
  IN  IF \/ best_rate # sample_rate /\ candidate_rate = sample_rate
         \/ best_rate = -1
         \/ best_rate_too_small /\ ~candidate_rate_too_small
         \/ (best_rate_too_small \/ ~candidate_rate_too_small) /\ delta < best_delta
      THEN candidate_rate ELSE best_rate

\* The loop over the device's ranges: best_rate after each of its rounds.
soundio_device_nearest_sample_rate(sample_rates, sample_rate) ==
  LET best_rate[i \in 0..Len(sample_rates)] ==
        IF i = 0 THEN -1 ELSE better_rate(best_rate[i - 1], sample_rates[i], sample_rate)
  IN  best_rate[Len(sample_rates)]

supports(values, value) == \E i \in DOMAIN values : values[i] = value

supports_sample_rate(sample_rates, rate) ==
  \E i \in DOMAIN sample_rates : rate >= sample_rates[i].min /\ rate <= sample_rates[i].max

\* The default formats and layouts of open: the preferred one if the device has
\* it, otherwise the device's first.
default_of(values, preferred) == IF supports(values, preferred) THEN preferred ELSE values[1]

\* compare_layouts takes the layouts it is given for pointers to layouts, so that
\* what it compares are not the channel counts but bytes of the layouts' names:
\* some key.  qsort orders by it, descending.
Sorts(layouts, sorted) ==
  /\ sorted \in SetToSeqs(ToSet(layouts))
  /\ \E key \in [ToSet(layouts) -> 1..Len(layouts)] :
       \A i, j \in DOMAIN sorted : i < j => key[sorted[i]] >= key[sorted[j]]

-----------------------------------------------------------------------------
Ranges == {r \in [min : 1..MaxRate, max : 1..MaxRate] : r.min <= r.max}

\* The reference: the lowest supported rate that is not below the one wanted and,
\* if there is none, the highest supported.
NearestRate(sample_rates, rate) ==
  LET supported == {r \in 1..MaxRate : supports_sample_rate(sample_rates, r)}
      above == {r \in supported : r >= rate}
  IN  IF above # {} THEN CHOOSE r \in above : \A s \in above : r <= s
      ELSE CHOOSE r \in supported : \A s \in supported : r >= s
=============================================================================
