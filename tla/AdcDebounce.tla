---------------------------- MODULE AdcDebounce ----------------------------
(***************************************************************************)
(* What the ADC keypad's debouncing promises, told by the samples alone:   *)
(* AdcKeypad extends this module and its timer writes the two variables.   *)
(***************************************************************************)
EXTENDS Naturals, Sequences

CONSTANTS
  Key,      \* the indices of mAdcKeys
  NoKey,    \* NewIdx = -1
  Samples   \* DEBOUNCE_SAMPLES (3)

VARIABLES
  samples,   \* ghost: the last Samples + 1 samples
  injected   \* ghost: the key injected by the last tick, or NoKey

AllEqual(q, n) ==
  Len(q) >= n /\ \A i \in (Len(q) - n + 1)..Len(q) : q[i] = q[Len(q)]

\* "Debounce: require DEBOUNCE_SAMPLES consecutive reads of same state"
\* (AdcKeypadDxe.c:288): a key is injected by the tick that completes
\* exactly Samples equal readings of it, never earlier, later or twice.
InjectedWhenStable ==
  samples # <<>> =>
    LET k == samples[Len(samples)] IN
    injected = IF /\ k # NoKey
                  /\ AllEqual(samples, Samples)
                  /\ ~AllEqual(samples, Samples + 1)
               THEN k ELSE NoKey
=============================================================================
