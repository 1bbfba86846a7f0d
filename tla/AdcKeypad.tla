----------------------------- MODULE AdcKeypad -----------------------------
(***************************************************************************)
(* The SARADC keypad driver (AdcKeypadDxe): every 50 ms a timer samples    *)
(* the resistor ladder, debounces the key and injects a press and a        *)
(* release into the key FIFO (KeyRing).                                    *)
(***************************************************************************)
EXTENDS KeyRing, AdcDebounce

ASSUME KeypadAssumption ==
  /\ NoKey \notin Key /\ Samples \in Nat \ {0, 1}
  /\ Stroke = [key : Key, down : BOOLEAN]

VARIABLES
  prevKey,   \* mPrevKeyIdx
  stable     \* mStableCnt, counted up to Samples + 1

debounce == <<prevKey, stable>>
ghosts == <<samples, injected>>
vars == <<ring, readerVars, debounce, ghosts>>

\* Longer runs of one sample are all alike.
Capped(n) == IF n > Samples + 1 THEN Samples + 1 ELSE n

Suffix(q, n) ==
  IF Len(q) <= n THEN q ELSE SubSeq(q, Len(q) - n + 1, Len(q))

\* AdcKeypadTimer, which injects a press and a release when press holds; a
\* conversion that does not finish in time is no sample.
Sample(k, press) ==
  /\ prevKey' = k
  /\ stable' = Capped(IF k = prevKey THEN stable + 1 ELSE 1)
  /\ IF press
       THEN PushAll(Push(Push(Now, [key |-> k, down |-> TRUE]),
                         [key |-> k, down |-> FALSE]))
       ELSE UNCHANGED <<tail, slot>>
  /\ samples' = Suffix(Append(samples, k), Samples + 1)
  /\ injected' = IF press THEN k ELSE NoKey
  /\ UNCHANGED <<head, readerVars>>

TickRepeats(k) ==  \* ">=" for "==": a key held is injected again and again
  Sample(k, k = prevKey /\ stable + 1 >= Samples /\ k # NoKey)

Tick(k) == Sample(k, k = prevKey /\ stable + 1 = Samples /\ k # NoKey)

Init ==
  /\ RingInit
  /\ prevKey = NoKey /\ stable = 0
  /\ samples = <<>> /\ injected = NoKey

Caller == (Read \/ ReadEmpty \/ Reset) /\ UNCHANGED <<debounce, ghosts>>

Next == (\E k \in Key \cup {NoKey} : Tick(k)) \/ Caller

Spec == Init /\ [][Next]_vars

-----------------------------------------------------------------------------
\* The indices stay within the ring and the debounce counter within its cap.
TypeOK ==
  /\ RingTypeOK
  /\ {prevKey, injected} \subseteq Key \cup {NoKey}
  /\ stable \in 0..(Samples + 1)
  /\ samples \in Seq(Key \cup {NoKey}) /\ Len(samples) <= Samples + 1
=============================================================================
