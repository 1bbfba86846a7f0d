--------------------------- MODULE Keypads_proofs ---------------------------
(***************************************************************************)
(* The two keypad drivers, for a ring of any depth.  GpioKeypad: its       *)
(* types, that no wake-up is lost, and that a keystroke is a debounced     *)
(* change.  AdcKeypad, as Adc: its types, and that a key is injected once  *)
(* it is stable and then only once.  Of both: that the ring, shared        *)
(* without a lock, is a queue.                                             *)
(***************************************************************************)
EXTENDS GpioKeypad, AdcDebounce, Integers, SequenceTheorems, TLAPS

CONSTANT AdcStroke

VARIABLES prevKey, stable

Adc == INSTANCE AdcKeypad WITH Stroke <- AdcStroke

\* What a slot holds, and the ring as the timer sees it.
Strokes(S) == {NoStroke} \cup {{s} : s \in S}

Rings(S) == [tail : Slots, slot : [Slots -> Strokes(S)]]

\* PushKey keeps the indices within the ring, however full it is.
LEMMA PushTyped ==
  ASSUME NEW S, NEW r \in Rings(S), NEW s \in S
  PROVE  Push(r, s) \in Rings(S)
<1>1. (r.tail + 1) % Depth \in Slots
  BY DepthAssumption DEF Rings, Slots
<1>2. [r.slot EXCEPT ![r.tail] = {s}] \in [Slots -> Strokes(S)]
  BY DEF Rings, Strokes
<1> QED
  BY <1>1, <1>2 DEF Push, Rings

\* The last n elements of a sequence are a sequence.
LEMMA SuffixTyped ==
  ASSUME NEW S, NEW q \in Seq(S), NEW n \in Nat
  PROVE  Suffix(q, n) \in Seq(S)
<1>1. CASE Len(q) <= n
  BY <1>1 DEF Suffix
<1>2. CASE ~(Len(q) <= n)
  <2>1. Len(q) - n + 1 \in 1..(Len(q) + 1) /\ Len(q) \in Nat
    BY <1>2
  <2>2. SubSeq(q, Len(q) - n + 1, Len(q)) \in Seq(S)
    BY <2>1
  <2> QED
    BY <1>2, <2>2 DEF Suffix
<1> QED
  BY <1>1, <1>2

\* One tick of the timer keeps the types: the debounce counter stays below
\* Polls because it is reset when it gets there.
LEMMA TickTyped ==
  ASSUME TypeOK, NEW level \in [Pin -> BOOLEAN], Tick(level)
  PROVE  TypeOK'
<1> USE KeypadAssumption, DepthAssumption
<1>1. Play \in Stroke /\ VolDn \in Stroke /\ Now \in Rings(Stroke)
  BY DEF TypeOK, RingTypeOK, Rings, Now, Pin, Strokes
<1> DEFINE first == PushIf(Pressed(level, Play), Now, Play)
           after == PushIf(Pressed(level, VolDn), first, VolDn)
<1>2. first \in Rings(Stroke)
  BY <1>1, PushTyped DEF PushIf
<1>3. after \in Rings(Stroke)
  BY <1>1, <1>2, PushTyped DEF PushIf
<1>4. tail' \in Slots /\ slot' \in [Slots -> Strokes(Stroke)]
  <2>1. tail' = after.tail /\ slot' = after.slot
    BY DEF Tick, PushAll
  <2> QED
    BY <1>3, <2>1 DEF Rings
<1>5. RingTypeOK'
  BY <1>4 DEF TypeOK, RingTypeOK, Tick, readerVars, Strokes
<1>6. prev' \in [Pin -> BOOLEAN] /\ cur' \in [Pin -> BOOLEAN]
  BY DEF Tick, TypeOK
<1>7. cnt' \in [Pin -> 0..(Polls - 1)]
  BY DEF Tick, TypeOK, Stable
<1>8. signalled' \in BOOLEAN /\ asleep' \in BOOLEAN
  BY DEF Tick, TypeOK
<1>9. recent' \in [Pin -> Seq(BOOLEAN)]
  <2>1. ASSUME NEW p \in Pin
        PROVE  Suffix(Append(recent[p], level[p]), Polls + 1) \in Seq(BOOLEAN)
    <3>1. Append(recent[p], level[p]) \in Seq(BOOLEAN)
      BY DEF TypeOK
    <3>2. Polls + 1 \in Nat
      OBVIOUS
    <3> QED
      BY <3>1, <3>2, SuffixTyped
  <2> QED
    BY <2>1 DEF Tick
<1> QED
  BY <1>5, <1>6, <1>7, <1>8, <1>9 DEF TypeOK

\* Every variable keeps its type: the two indices stay within a ring of any
\* depth although timer and reader move them independently (Push 41-45,
\* RdKEx, RstEx 48-52, Tmr 63-71).
THEOREM TypeCorrect == Spec => []TypeOK
<1> USE KeypadAssumption, DepthAssumption
<1>1. Init => TypeOK
  <2> SUFFICES ASSUME Init PROVE TypeOK
    OBVIOUS
  <2>1. RingTypeOK
    BY DEF Init, RingInit, RingTypeOK, Slots
  <2>2. prev \in [Pin -> BOOLEAN] /\ cur \in [Pin -> BOOLEAN]
    BY DEF Init
  <2>3. recent \in [Pin -> Seq(BOOLEAN)]
    BY DEF Init
  <2>4. cnt \in [Pin -> 0..(Polls - 1)]
    BY DEF Init
  <2>5. signalled \in BOOLEAN /\ asleep \in BOOLEAN
    BY DEF Init
  <2> QED
    BY <2>1, <2>2, <2>3, <2>4, <2>5 DEF TypeOK
<1>2. TypeOK /\ [Next]_vars => TypeOK'
  <2> SUFFICES ASSUME TypeOK, [Next]_vars PROVE TypeOK'
    OBVIOUS
  <2>1. ASSUME NEW level \in [Pin -> BOOLEAN], Tick(level) PROVE TypeOK'
    BY <2>1, TickTyped
  <2>2. CASE Wake
    BY <2>2 DEF Wake, TypeOK, RingTypeOK, ring, readerVars, debounce
  <2>3. CASE Sleep
    BY <2>3 DEF Sleep, ReadEmpty, TypeOK, RingTypeOK, ring, readerVars, debounce
  <2>4. CASE ReadKey
    <3>1. (head + 1) % Depth \in Slots
      BY DEF TypeOK, RingTypeOK, Slots
    <3>2. ASSUME ReadBegin PROVE RingTypeOK'
      BY <3>2 DEF ReadBegin, TypeOK, RingTypeOK, ring
    <3>3. ASSUME ReadCopy PROVE RingTypeOK'
      BY <3>3 DEF ReadCopy, TypeOK, RingTypeOK, ring
    <3>4. ASSUME ReadAdvance PROVE RingTypeOK'
      BY <3>1, <3>4 DEF ReadAdvance, TypeOK, RingTypeOK
    <3>5. RingTypeOK'
      BY <2>4, <3>2, <3>3, <3>4 DEF ReadKey, Read
    <3> QED
      BY <2>4, <3>5 DEF ReadKey, TypeOK, debounce
  <2>5. CASE ResetKeys
    <3>1. 0 \in Slots
      BY DEF Slots
    <3>2. ASSUME ResetTail PROVE RingTypeOK'
      BY <3>1, <3>2 DEF ResetTail, TypeOK, RingTypeOK
    <3>3. ASSUME ResetHead PROVE RingTypeOK'
      BY <3>1, <3>3 DEF ResetHead, TypeOK, RingTypeOK
    <3>4. RingTypeOK'
      BY <2>5, <3>2, <3>3 DEF ResetKeys, Reset
    <3> QED
      BY <2>5, <3>4 DEF ResetKeys, TypeOK, debounce
  <2>6. CASE UNCHANGED vars
    BY <2>6 DEF vars, TypeOK, RingTypeOK, ring, readerVars
  <2> QED
    BY <2>1, <2>2, <2>3, <2>4, <2>5, <2>6 DEF Next
<1> QED
  BY <1>1, <1>2, PTL DEF Spec

\* A caller that waits is not in the middle of a read or a reset.
Awake == asleep => reader = "idle"

\* No wake-up is lost, whatever the depth of the ring: PushKey moves the tail
\* and signals in one handler at TPL_NOTIFY, and only the reader, who does
\* not sleep then, moves the head (Push 41-45, Tmr 63-71).
THEOREM NoWakeupLost == Spec => []NoLostWakeup
<1> DEFINE IInv == NoLostWakeup /\ Awake
<1>1. Init => IInv
  BY DEF Init, RingInit, NoLostWakeup, Awake
<1>2. IInv /\ [Next]_vars => IInv'
  <2> SUFFICES ASSUME NoLostWakeup, Awake, [Next]_vars
               PROVE  NoLostWakeup' /\ Awake'
    OBVIOUS
  <2>1. ASSUME NEW level \in [Pin -> BOOLEAN], Tick(level)
        PROVE  NoLostWakeup' /\ Awake'
    <3> DEFINE after == PushIf(Pressed(level, VolDn),
                          PushIf(Pressed(level, Play), Now, Play), VolDn)
    <3>1. /\ tail' = after.tail
          /\ signalled' = (signalled \/ after # Now)
          /\ UNCHANGED <<head, readerVars, asleep>>
      BY <2>1 DEF Tick, PushAll
    <3> HIDE DEF after
    <3>2. after = Now => tail' = tail
      BY <3>1 DEF Now
    <3> QED
      BY <3>1, <3>2 DEF NoLostWakeup, Awake, readerVars
  <2>2. CASE Wake
    BY <2>2 DEF Wake, NoLostWakeup, Awake
  <2>3. CASE Sleep
    BY <2>3 DEF Sleep, ReadEmpty, ring, readerVars, NoLostWakeup, Awake
  <2>4. CASE ReadKey
    BY <2>4 DEF ReadKey, NoLostWakeup, Awake
  <2>5. CASE ResetKeys
    BY <2>5 DEF ResetKeys, NoLostWakeup, Awake
  <2>6. CASE UNCHANGED vars
    BY <2>6 DEF vars, ring, readerVars, NoLostWakeup, Awake
  <2> QED
    BY <2>1, <2>2, <2>3, <2>4, <2>5, <2>6 DEF Next
<1> QED
  BY <1>1, <1>2, PTL DEF Spec

(***************************************************************************)
(* The debouncing.                                                         *)
(***************************************************************************)
\* What the ghost history is after one more sample: the sample is its last
\* element, the others are those before, less the oldest if it was full.
LEMMA OneMoreSample ==
  ASSUME NEW S, NEW q \in Seq(S), NEW l \in S, NEW n \in Nat \ {0},
         Len(q) <= n, NEW r, r = Suffix(Append(q, l), n)
  PROVE  /\ Len(r) = IF Len(q) < n THEN Len(q) + 1 ELSE n
         /\ r[Len(r)] = l
         /\ \A i \in 1..(Len(r) - 1) : r[i] = q[i + Len(q) + 1 - Len(r)]
<1> DEFINE a == Append(q, l)
<1>1. /\ a \in Seq(S) /\ Len(q) \in Nat /\ Len(a) = Len(q) + 1
      /\ a[Len(q) + 1] = l
      /\ \A i \in 1..Len(q) : a[i] = q[i]
  OBVIOUS
<1> HIDE DEF a
<1>2. CASE Len(q) < n
  <2>1. r = a
    BY <1>1, <1>2 DEF Suffix, a
  <2> QED
    BY <1>1, <1>2, <2>1
<1>3. CASE Len(q) = n
  <2>1. r = SubSeq(a, 2, n + 1)
    BY <1>1, <1>3 DEF Suffix, a
  <2>2. /\ Len(r) = n
        /\ \A i \in 1..n : r[i] = a[i + 1]
    BY <1>1, <1>3, <2>1
  <2> QED
    BY <1>1, <1>3, <2>2
<1> QED
  BY <1>1, <1>2, <1>3

\* mCnt counts the readings since the level last changed, up to the one that
\* takes it over; as long as it was not taken over, there was such a change.
Debounced ==
  \A p \in Pin :
    LET q == recent[p] IN
    /\ Len(q) \in (cnt[p] + 1)..(Polls + 1)
    /\ \A i \in (Len(q) - cnt[p])..Len(q) : q[i] = prev[p]
    /\ cur[p] # prev[p] =>
         Len(q) > cnt[p] + 1 /\ q[Len(q) - cnt[p] - 1] # prev[p]

\* One tick, as one pin sees it.
LEMMA TickDebounces ==
  ASSUME TypeOK, Debounced, NEW level \in [Pin -> BOOLEAN], Tick(level),
         NEW p \in Pin
  PROVE  /\ Len(recent'[p]) \in (cnt'[p] + 1)..(Polls + 1)
         /\ \A i \in (Len(recent'[p]) - cnt'[p])..Len(recent'[p]) :
              recent'[p][i] = prev'[p]
         /\ cur'[p] # prev'[p] =>
              /\ Len(recent'[p]) > cnt'[p] + 1
              /\ recent'[p][Len(recent'[p]) - cnt'[p] - 1] # prev'[p]
         /\ cur'[p] # cur[p] => SameFor(p, Polls + 1)'
         /\ SameFor(p, Polls + 1)' => cur'[p] = prev'[p]
<1> DEFINE q == recent[p]
           r == recent'[p]
           c == cnt[p]
           l == level[p]
<1>1. /\ Polls \in Nat \ {0} /\ q \in Seq(BOOLEAN) /\ Len(q) \in Nat
      /\ c \in 0..(Polls - 1) /\ l \in BOOLEAN
      /\ prev[p] \in BOOLEAN /\ cur[p] \in BOOLEAN
  BY KeypadAssumption DEF TypeOK
<1>2. /\ Len(q) >= c + 1 /\ Len(q) <= Polls + 1
      /\ \A i \in (Len(q) - c)..Len(q) : q[i] = prev[p]
      /\ cur[p] # prev[p] => Len(q) > c + 1 /\ q[Len(q) - c - 1] # prev[p]
  BY <1>1 DEF Debounced
<1>3. /\ prev'[p] = l
      /\ cur'[p] = IF Stable(level, p) THEN l ELSE cur[p]
      /\ cnt'[p] = IF l = prev[p] /\ ~Stable(level, p) THEN c + 1 ELSE 0
      /\ r = Suffix(Append(q, l), Polls + 1)
  BY DEF Tick, TypeOK
<1>4. Stable(level, p) <=> l = prev[p] /\ c + 1 >= Polls
  BY DEF Stable
<1>5. SameFor(p, Polls + 1)' <=>
        Len(r) = Polls + 1 /\ \A i \in 1..(Polls + 1) : r[i] = r[Polls + 1]
  BY DEF SameFor
<1> HIDE DEF q, r, c, l
<1>6. /\ Len(r) = IF Len(q) < Polls + 1 THEN Len(q) + 1 ELSE Polls + 1
      /\ r[Len(r)] = l
      /\ \A i \in 1..(Len(r) - 1) : r[i] = q[i + Len(q) + 1 - Len(r)]
  <2> DEFINE n == Polls + 1
  <2>1. /\ n \in Nat \ {0} /\ Len(q) <= n /\ r = Suffix(Append(q, l), n)
        /\ q \in Seq(BOOLEAN) /\ l \in BOOLEAN
    BY <1>1, <1>2, <1>3
  <2> HIDE DEF n
  <2>2. /\ Len(r) = IF Len(q) < n THEN Len(q) + 1 ELSE n
        /\ r[Len(r)] = l
        /\ \A i \in 1..(Len(r) - 1) : r[i] = q[i + Len(q) + 1 - Len(r)]
    BY <2>1, OneMoreSample
  <2> QED
    BY <2>2 DEF n
<1>7. Len(r) \in Nat /\ Len(r) >= 2 /\ Len(r) <= Polls + 1
  BY <1>1, <1>2, <1>6
\* The reading before.
<1>8. r[Len(r) - 1] = prev[p]
  <2>1. /\ Len(r) - 1 \in 1..(Len(r) - 1)
        /\ Len(r) - 1 + Len(q) + 1 - Len(r) = Len(q)
    BY <1>1, <1>7
  <2>2. Len(q) \in (Len(q) - c)..Len(q)
    BY <1>1
  <2> QED
    BY <1>2, <1>6, <2>1, <2>2
<1>9. CASE l # prev[p]
  <2>1. cnt'[p] = 0 /\ cur'[p] = cur[p]
    BY <1>3, <1>4, <1>9
  <2>2. \A i \in (Len(r) - 0)..Len(r) : r[i] = l
    BY <1>6, <1>7
  <2>3. ~SameFor(p, Polls + 1)'
    BY <1>1, <1>5, <1>6, <1>7, <1>8, <1>9
  <2> QED
    BY <1>3, <1>7, <1>8, <1>9, <2>1, <2>2, <2>3 DEF r
<1>10. CASE l = prev[p]
  \* The readings since the level changed, and this one.
  <2>1. /\ Len(r) >= c + 2
        /\ \A i \in (Len(r) - c - 1)..Len(r) : r[i] = l
    <3>1. Len(r) >= c + 2
      BY <1>1, <1>2, <1>6
    <3>2. ASSUME NEW i \in (Len(r) - c - 1)..Len(r)
          PROVE  r[i] = l
      <4>1. CASE i = Len(r)
        BY <1>6, <4>1
      <4>2. CASE i # Len(r)
        <5>1. i \in 1..(Len(r) - 1)
          BY <1>1, <1>7, <3>1, <4>2
        <5>2. i + Len(q) + 1 - Len(r) \in (Len(q) - c)..Len(q)
          BY <1>1, <1>7, <4>2
        <5> QED
          BY <1>2, <1>6, <1>10, <5>1, <5>2
      <4> QED
        BY <4>1, <4>2
    <3> QED
      BY <3>1, <3>2
  <2>2. CASE c + 1 >= Polls
    <3>1. cnt'[p] = 0 /\ cur'[p] = l /\ c = Polls - 1
      BY <1>1, <1>3, <1>4, <1>10, <2>2
    <3>2. Len(r) = Polls + 1
      BY <1>1, <1>7, <2>1, <3>1
    <3>3. \A i \in 1..(Polls + 1) : r[i] = l
      BY <1>1, <2>1, <3>1, <3>2
    <3>4. SameFor(p, Polls + 1)'
      BY <1>1, <1>5, <3>2, <3>3
    <3> QED
      BY <1>1, <1>3, <3>1, <3>2, <3>3, <3>4 DEF r
  <2>3. CASE ~(c + 1 >= Polls)
    <3>1. cnt'[p] = c + 1 /\ cur'[p] = cur[p] /\ c + 1 < Polls
      BY <1>1, <1>3, <1>4, <1>10, <2>3
    <3>2. ASSUME cur[p] # l
          PROVE  Len(r) > c + 2 /\ r[Len(r) - (c + 1) - 1] # l
      <4>1. Len(q) > c + 1 /\ q[Len(q) - c - 1] # l
        BY <1>2, <1>10, <3>2
      <4>2. Len(r) > c + 2
        BY <1>1, <1>6, <3>1, <4>1
      <4>3. Len(r) - c - 2 \in 1..(Len(r) - 1)
        BY <1>1, <1>7, <4>2
      <4>4. r[Len(r) - c - 2] = q[Len(r) - c - 2 + Len(q) + 1 - Len(r)]
        BY <1>6, <4>3
      <4>5. Len(r) - c - 2 + Len(q) + 1 - Len(r) = Len(q) - c - 1
            /\ Len(r) - (c + 1) - 1 = Len(r) - c - 2
        BY <1>1, <1>7
      <4> QED
        BY <4>1, <4>2, <4>4, <4>5
    <3>3. cur[p] # l => ~SameFor(p, Polls + 1)'
      <4> SUFFICES ASSUME cur[p] # l, SameFor(p, Polls + 1)'
                   PROVE  FALSE
        OBVIOUS
      <4>1. Len(r) - (c + 1) - 1 \in 1..(Polls + 1)
        BY <1>1, <1>7, <3>2
      <4> QED
        BY <1>5, <1>6, <3>2, <4>1
    <3>4. Len(r) - (c + 1) = Len(r) - c - 1
      BY <1>1, <1>7
    <3> QED
      BY <1>1, <1>3, <1>7, <2>1, <3>1, <3>2, <3>3, <3>4 DEF r
  <2> QED
    BY <2>2, <2>3
<1> QED
  BY <1>9, <1>10

\* A pin's level changes only after DB_MS of equal readings, and follows
\* these; nothing is injected but for a change to low (Tmr 63-71, Push 41-45).
THEOREM PressesAreDebounced == Spec => PressIsDebouncedChange
<1> DEFINE Kept ==
      /\ \A p \in Pin : cur'[p] # cur[p] => SameFor(p, Polls + 1)'
      /\ \A p \in Pin : SameFor(p, Polls + 1)' => cur'[p] = prev'[p]
      /\ tail' # tail /\ reader' = reader
           => \E p \in Pin : cur[p] /\ ~cur'[p]
<1>1. Init => Debounced
  <2> SUFFICES ASSUME Init, NEW p \in Pin
               PROVE  /\ Len(recent[p]) \in (cnt[p] + 1)..(Polls + 1)
                      /\ \A i \in (Len(recent[p]) - cnt[p])..Len(recent[p]) :
                           recent[p][i] = prev[p]
                      /\ cur[p] = prev[p]
    BY DEF Debounced
  <2>1. recent[p] = <<prev[p]>> /\ cnt[p] = 0 /\ cur[p] = prev[p]
    BY DEF Init
  <2>2. Len(<<prev[p]>>) = 1 /\ <<prev[p]>>[1] = prev[p]
    OBVIOUS
  <2> QED
    BY <2>1, <2>2, KeypadAssumption
<1>2. TypeOK /\ Debounced /\ [Next]_vars => Debounced' /\ [Kept]_vars
  <2> SUFFICES ASSUME TypeOK, Debounced, [Next]_vars
               PROVE  Debounced' /\ [Kept]_vars
    OBVIOUS
  <2>1. ASSUME NEW level \in [Pin -> BOOLEAN], Tick(level)
        PROVE  Debounced' /\ Kept
    <3>1. Debounced'
      BY <2>1, TickDebounces DEF Debounced
    <3>2. \A p \in Pin : /\ cur'[p] # cur[p] => SameFor(p, Polls + 1)'
                         /\ SameFor(p, Polls + 1)' => cur'[p] = prev'[p]
      BY <2>1, TickDebounces
    <3>3. ASSUME tail' # tail
          PROVE  \E p \in Pin : cur[p] /\ ~cur'[p]
      <4>1. \/ Pressed(level, Play) \/ Pressed(level, VolDn)
        BY <2>1, <3>3 DEF Tick, PushAll, PushIf, Now
      <4>2. ASSUME NEW p \in Pin, Pressed(level, p)
            PROVE  cur[p] /\ ~cur'[p]
        BY <2>1, <4>2 DEF Tick, Pressed, TypeOK
      <4> QED
        BY <4>1, <4>2 DEF Pin
    <3> QED
      BY <3>1, <3>2, <3>3
  <2>2. ASSUME UNCHANGED debounce, (tail' = tail \/ reader' # reader)
        PROVE  Debounced' /\ Kept
    <3>1. Debounced'
      BY <2>2 DEF debounce, Debounced
    <3>2. \A p \in Pin : SameFor(p, Polls + 1)' => cur'[p] = prev'[p]
      <4> SUFFICES ASSUME NEW p \in Pin, SameFor(p, Polls + 1)
                   PROVE  cur[p] = prev[p]
        BY <2>2 DEF debounce, SameFor
      <4>1. /\ Len(recent[p]) = Polls + 1 /\ cnt[p] \in 0..(Polls - 1)
            /\ Polls \in Nat \ {0}
            /\ \A i \in 1..(Polls + 1) : recent[p][i] = recent[p][Polls + 1]
        BY KeypadAssumption DEF SameFor, TypeOK
      <4>2. \A i \in (Polls + 1 - cnt[p])..(Polls + 1) : recent[p][i] = prev[p]
        BY <4>1 DEF Debounced
      <4>3. recent[p][Polls + 1] = prev[p]
        BY <4>1, <4>2
      <4>4. Polls + 1 - cnt[p] - 1 \in 1..(Polls + 1)
        BY <4>1
      <4>5. recent[p][Polls + 1 - cnt[p] - 1] = prev[p]
        BY <4>1, <4>3, <4>4
      <4> QED
        BY <4>1, <4>5 DEF Debounced
    <3> QED
      BY <2>2, <3>1, <3>2 DEF debounce
  <2>3. CASE Wake \/ Sleep
    BY <2>2, <2>3 DEF Wake, Sleep, ReadEmpty, ring
  <2>4. CASE ReadKey
    BY <2>2, <2>4 DEF ReadKey, Read, ReadBegin, ReadCopy, ReadAdvance, ring
  <2>5. CASE ResetKeys
    BY <2>2, <2>5 DEF ResetKeys, Reset, ResetTail, ResetHead
  <2>6. CASE UNCHANGED vars
    <3>1. Debounced'
      BY <2>6 DEF vars, Debounced
    <3> QED
      BY <2>6, <3>1
  <2> QED
    BY <2>1, <2>3, <2>4, <2>5, <2>6 DEF Next
<1> QED
  BY <1>1, <1>2, TypeCorrect, PTL DEF Spec, PressIsDebouncedChange

(***************************************************************************)
(* The ADC keypad: its types, and when it injects.                         *)
(***************************************************************************)
\* mStableCnt is the length of the run of equal samples that ends the
\* history, up to its cap.
Counted ==
  /\ Len(samples) >= stable
  /\ \A i \in (Len(samples) - stable + 1)..Len(samples) : samples[i] = prevKey
  /\ stable = 0 => Len(samples) = 0
  /\ stable <= Samples =>
       Len(samples) = stable \/ samples[Len(samples) - stable] # prevKey

AdcInv == Adc!TypeOK /\ Counted /\ InjectedWhenStable

\* What AllEqual says of a history with such a run.
LEMMA RunLength ==
  ASSUME NEW q \in Seq(Key \cup {NoKey}), NEW n \in Nat, NEW m \in Nat,
         n > 0, m > 0, Len(q) >= n,
         NEW k, \A i \in (Len(q) - n + 1)..Len(q) : q[i] = k,
         n >= m \/ Len(q) = n \/ q[Len(q) - n] # k
  PROVE  AllEqual(q, m) <=> n >= m
<1>1. Len(q) \in Nat /\ q[Len(q)] = k
  OBVIOUS
<1>2. ASSUME n >= m
      PROVE  AllEqual(q, m)
  BY <1>1, <1>2 DEF AllEqual
<1>3. ASSUME ~(n >= m), AllEqual(q, m)
      PROVE  FALSE
  <2>1. Len(q) >= m /\ \A i \in (Len(q) - m + 1)..Len(q) : q[i] = q[Len(q)]
    BY <1>3 DEF AllEqual
  <2>2. Len(q) - n \in (Len(q) - m + 1)..Len(q) /\ Len(q) # n
    BY <1>1, <1>3, <2>1
  <2> QED
    BY <1>1, <1>3, <2>1, <2>2
<1> QED
  BY <1>2, <1>3

LEMMA AdcTick ==
  ASSUME Adc!KeypadAssumption, AdcInv, NEW k \in Key \cup {NoKey}, Adc!Tick(k)
  PROVE  AdcInv'
<1> DEFINE press == k = prevKey /\ stable + 1 = Samples /\ k # NoKey
           q == samples
           r == samples'
           n == Samples + 1
<1>1. /\ Samples \in Nat \ {0, 1} /\ NoKey \notin Key
      /\ AdcStroke = [key : Key, down : BOOLEAN]
  BY DEF Adc!KeypadAssumption
<1>2. /\ q \in Seq(Key \cup {NoKey}) /\ Len(q) \in Nat /\ Len(q) <= n
      /\ stable \in 0..n /\ Len(q) >= stable
      /\ \A i \in (Len(q) - stable + 1)..Len(q) : q[i] = prevKey
      /\ stable = 0 => Len(q) = 0
      /\ stable <= Samples => Len(q) = stable \/ q[Len(q) - stable] # prevKey
      /\ prevKey \in Key \cup {NoKey}
  BY DEF AdcInv, Adc!TypeOK, Counted
<1>3. /\ prevKey' = k
      /\ stable' = Adc!Capped(IF k = prevKey THEN stable + 1 ELSE 1)
      /\ r = Adc!Suffix(Append(q, k), Samples + 1)
      /\ injected' = IF press THEN k ELSE NoKey
      /\ UNCHANGED <<head, reader, copied, got>>
      /\ IF press
           THEN Adc!PushAll(
                  Adc!Push(Adc!Push(Adc!Now, [key |-> k, down |-> TRUE]),
                           [key |-> k, down |-> FALSE]))
           ELSE UNCHANGED <<tail, slot>>
  BY DEF Adc!Tick, Adc!Sample, Adc!readerVars
<1>4. tail' \in Slots /\ slot' \in [Slots -> Strokes(AdcStroke)]
  <2>1. tail \in Slots /\ slot \in [Slots -> Strokes(AdcStroke)]
    BY DEF AdcInv, Adc!TypeOK, Adc!RingTypeOK, Adc!Slots, Slots, Adc!NoStroke,
       NoStroke, Strokes
  <2>2. CASE ~press
    BY <1>3, <2>1, <2>2
  <2>3. CASE press
    <3> DEFINE a == [key |-> k, down |-> TRUE]
               b == [key |-> k, down |-> FALSE]
               one == Push(Now, a)
               two == Push(one, b)
    <3>1. a \in AdcStroke /\ b \in AdcStroke
      BY <1>1, <2>3
    <3>2. Now \in Rings(AdcStroke)
      BY <2>1 DEF Now, Rings
    <3> HIDE DEF a, b
    <3>3. one \in Rings(AdcStroke)
      BY <3>1, <3>2, PushTyped
    <3>4. two \in Rings(AdcStroke)
      BY <3>1, <3>3, PushTyped
    <3>5. Adc!PushAll(two)
      BY <1>3, <2>3 DEF a, b, Adc!Push, Push, Adc!Now, Now
    <3> QED
      BY <3>4, <3>5 DEF Adc!PushAll, Rings
  <2> QED
    BY <2>2, <2>3
<1> HIDE DEF press, q, r, n
<1>5. /\ Len(r) = IF Len(q) < n THEN Len(q) + 1 ELSE n
      /\ r[Len(r)] = k
      /\ \A i \in 1..(Len(r) - 1) : r[i] = q[i + Len(q) + 1 - Len(r)]
  <2>1. n \in Nat \ {0}
    BY <1>1 DEF n
  <2>2. r = Suffix(Append(q, k), n)
    BY <1>3 DEF Adc!Suffix, Suffix, n
  <2> QED
    <3>1. q \in Seq(Key \cup {NoKey}) /\ Len(q) <= n
      BY <1>2
    <3> QED
      BY <2>1, <2>2, <3>1, OneMoreSample
<1>6. r \in Seq(Key \cup {NoKey})
  <2>1. Append(q, k) \in Seq(Key \cup {NoKey}) /\ n \in Nat
    BY <1>1, <1>2 DEF n
  <2>2. r = Suffix(Append(q, k), n)
    BY <1>3 DEF Adc!Suffix, Suffix, n
  <2> QED
    BY <2>1, <2>2, SuffixTyped
<1>7. n = Samples + 1 /\ n \in Nat /\ n >= 3
  BY <1>1 DEF n
<1>8. stable' = IF k # prevKey THEN 1
                ELSE IF stable + 1 > n THEN n ELSE stable + 1
  BY <1>1, <1>2, <1>3 DEF Adc!Capped, n
<1>9. stable' \in 1..n /\ Len(r) \in Nat /\ Len(r) >= stable' /\ Len(r) <= n
      /\ Len(r) >= 1
  BY <1>2, <1>5, <1>7, <1>8
<1>10. \A i \in (Len(r) - stable' + 1)..Len(r) : r[i] = k
  <2> SUFFICES ASSUME NEW i \in (Len(r) - stable' + 1)..Len(r), i # Len(r)
               PROVE  r[i] = k
    BY <1>5
  <2>1. k = prevKey /\ i \in 1..(Len(r) - 1)
    BY <1>8, <1>9
  <2>2. i + Len(q) + 1 - Len(r) \in (Len(q) - stable + 1)..Len(q)
    <3>1. /\ i \in Nat /\ i >= Len(r) - stable' + 1 /\ i <= Len(r) - 1
          /\ stable' = IF stable + 1 > n THEN n ELSE stable + 1
          /\ stable \in 0..n /\ n \in Nat /\ Len(q) \in Nat /\ Len(q) <= n
          /\ Len(q) >= stable /\ Len(r) \in Nat
          /\ Len(r) = IF Len(q) < n THEN Len(q) + 1 ELSE n
      BY <1>2, <1>5, <1>7, <1>8, <1>9, <2>1
    <3>2. CASE Len(q) < n
      BY <3>1, <3>2
    <3>3. CASE Len(q) = n
      <4>1. Len(r) = n /\ i + Len(q) + 1 - Len(r) = i + 1
        BY <3>1, <3>3
      <4>2. i + 1 >= n - stable + 1 /\ i + 1 <= n
        BY <3>1, <4>1
      <4> QED
        BY <3>1, <3>3, <4>1, <4>2
    <3>4. Len(q) < n \/ Len(q) = n
      BY <3>1
    <3> QED
      BY <3>2, <3>3, <3>4
  <2> QED
    BY <1>2, <1>5, <2>1, <2>2
<1>11. stable' <= Samples => Len(r) = stable' \/ r[Len(r) - stable'] # k
  <2> SUFFICES ASSUME stable' <= Samples, Len(r) # stable'
               PROVE  r[Len(r) - stable'] # k
    OBVIOUS
  <2>1. Len(r) - stable' \in 1..(Len(r) - 1)
    BY <1>9
  <2>2. r[Len(r) - stable'] = q[Len(q) + 1 - stable']
    <3>1. Len(r) - stable' + Len(q) + 1 - Len(r) = Len(q) + 1 - stable'
      BY <1>2, <1>9
    <3> QED
      BY <1>5, <2>1, <3>1
  <2>3. CASE k = prevKey
    <3>1. stable' = stable + 1 /\ Len(q) + 1 - stable' = Len(q) - stable
          /\ stable <= Samples
      BY <1>2, <1>7, <1>8, <1>9, <2>3
    <3>2. Len(q) # stable
      BY <1>2, <1>5, <1>7, <1>9, <3>1
    <3> QED
      BY <1>2, <2>2, <2>3, <3>1, <3>2
  <2>4. CASE k # prevKey
    <3>1. stable' = 1 /\ Len(q) + 1 - stable' = Len(q) /\ Len(q) >= 1
      BY <1>2, <1>5, <1>7, <1>8, <1>9, <2>4
    <3>2. Len(q) \in (Len(q) - stable + 1)..Len(q)
      <4>1. stable \in Nat /\ stable # 0 /\ Len(q) \in Nat
        <5>1. /\ stable \in 0..n /\ Len(q) \in Nat
              /\ stable = 0 => Len(q) = 0
          BY <1>2
        <5> QED
          BY <1>7, <3>1, <5>1
      <4> QED
        BY <4>1
    <3>3. q[Len(q)] = prevKey
      BY <1>2, <3>2
    <3> QED
      BY <2>2, <2>4, <3>1, <3>3
  <2> QED
    BY <2>3, <2>4
<1>12. Counted'
  <2>1. stable' # 0
    BY <1>7, <1>9
  <2> QED
    BY <1>3, <1>9, <1>10, <1>11, <2>1 DEF Counted, r
<1>13. Adc!TypeOK'
  <2>1. Adc!RingTypeOK'
    BY <1>3, <1>4 DEF AdcInv, Adc!TypeOK, Adc!RingTypeOK, Adc!Slots, Slots,
       Adc!NoStroke, NoStroke, Strokes
  <2>2. {prevKey', injected'} \subseteq Key \cup {NoKey}
    BY <1>3
  <2> QED
    BY <1>6, <1>7, <1>9, <2>1, <2>2 DEF Adc!TypeOK, r
<1>14. InjectedWhenStable'
  <2>1. AllEqual(r, Samples) <=> stable' >= Samples
    BY <1>1, <1>6, <1>7, <1>9, <1>10, <1>11, RunLength
  <2>2. AllEqual(r, Samples + 1) <=> stable' >= Samples + 1
    <3>1. /\ Samples + 1 \in Nat /\ Samples + 1 > 0
          /\ stable' \in Nat /\ stable' > 0 /\ Len(r) >= stable'
          /\ stable' >= Samples + 1 \/ stable' <= Samples
      BY <1>1, <1>7, <1>9
    <3> QED
      BY <1>6, <1>10, <1>11, <3>1, RunLength
  <2>3. stable' = Samples <=> k = prevKey /\ stable + 1 = Samples
    BY <1>1, <1>2, <1>7, <1>8
  <2>4. press <=> /\ k # NoKey
                  /\ AllEqual(r, Samples)
                  /\ ~AllEqual(r, Samples + 1)
    BY <1>1, <1>7, <1>9, <2>1, <2>2, <2>3 DEF press
  <2>5. injected' = IF press THEN k ELSE NoKey
    BY <1>3
  <2> QED
    BY <1>5, <2>4, <2>5 DEF InjectedWhenStable, AllEqual, r
<1> QED
  BY <1>12, <1>13, <1>14 DEF AdcInv

\* A step of the caller, who touches neither counter nor history.
LEMMA AdcCaller ==
  ASSUME AdcInv, Adc!Caller
  PROVE  AdcInv'
<1> USE DepthAssumption
<1>1. UNCHANGED <<prevKey, stable, samples, injected>>
  BY DEF Adc!Caller, Adc!debounce, Adc!ghosts
<1>2. Adc!RingTypeOK'
  <2> USE DEF Adc!RingTypeOK, Adc!Slots, Adc!ring, Adc!NoStroke
  <2>1. Adc!RingTypeOK
    BY DEF AdcInv, Adc!TypeOK
  <2>2. (head + 1) % Depth \in 0..(Depth - 1) /\ 0 \in 0..(Depth - 1)
    BY <2>1
  <2>3. CASE Adc!ReadBegin \/ Adc!ReadCopy \/ Adc!ReadAdvance
    BY <2>1, <2>2, <2>3 DEF Adc!ReadBegin, Adc!ReadCopy, Adc!ReadAdvance
  <2>4. CASE Adc!ResetTail \/ Adc!ResetHead
    BY <2>1, <2>2, <2>4 DEF Adc!ResetTail, Adc!ResetHead
  <2>5. CASE Adc!ReadEmpty
    BY <2>1, <2>5 DEF Adc!ReadEmpty, Adc!readerVars
  <2> QED
    BY <2>3, <2>4, <2>5 DEF Adc!Caller, Adc!Read, Adc!Reset
<1>3. Adc!TypeOK' /\ Counted'
  BY <1>1, <1>2 DEF AdcInv, Adc!TypeOK, Counted
<1>4. InjectedWhenStable'
  BY <1>1 DEF AdcInv, InjectedWhenStable, AllEqual
<1> QED
  BY <1>3, <1>4 DEF AdcInv

LEMMA AdcInductive ==
  ASSUME Adc!KeypadAssumption
  PROVE  Adc!Spec => []AdcInv
<1>1. Adc!Init => AdcInv
  <2> SUFFICES ASSUME Adc!Init PROVE AdcInv
    OBVIOUS
  <2>1. /\ head = 0 /\ tail = 0 /\ slot = [i \in Slots |-> {}]
        /\ reader = "idle" /\ copied = {} /\ got = {}
        /\ prevKey = NoKey /\ stable = 0 /\ samples = <<>> /\ injected = NoKey
    BY DEF Adc!Init, Adc!RingInit, Adc!Slots, Slots, Adc!NoStroke
  <2>2. Adc!RingTypeOK
    BY <2>1, DepthAssumption DEF Adc!RingTypeOK, Adc!Slots, Slots, Adc!NoStroke
  <2>3. samples \in Seq(Key \cup {NoKey}) /\ Len(samples) = 0
    BY <2>1
  <2>4. Samples \in Nat
    BY DEF Adc!KeypadAssumption
  <2> QED
    BY <2>1, <2>2, <2>3, <2>4 DEF AdcInv, Adc!TypeOK, Counted,
       InjectedWhenStable
<1>2. AdcInv /\ [Adc!Next]_(Adc!vars) => AdcInv'
  <2> SUFFICES ASSUME AdcInv, [Adc!Next]_(Adc!vars) PROVE AdcInv'
    OBVIOUS
  <2>1. CASE UNCHANGED Adc!vars
    <3>1. UNCHANGED <<head, tail, slot, reader, copied, got, prevKey, stable,
                      samples, injected>>
      BY <2>1 DEF Adc!vars, Adc!ring, Adc!readerVars, Adc!debounce, Adc!ghosts
    <3> QED
      BY <3>1 DEF AdcInv, Adc!TypeOK, Adc!RingTypeOK, Counted,
         InjectedWhenStable, AllEqual
  <2> QED
    BY <2>1, AdcTick, AdcCaller DEF Adc!Next
<1> QED
  BY <1>1, <1>2, PTL DEF Adc!Spec

\* Every variable of the ADC keypad keeps its type: the indices stay within
\* the ring, and the history within its Samples + 1 (AdcKeypadDxe.c:257-310).
THEOREM AdcTypeCorrect ==
  ASSUME Adc!KeypadAssumption
  PROVE  Adc!Spec => []Adc!TypeOK
<1>1. AdcInv => Adc!TypeOK
  BY DEF AdcInv
<1> QED
  BY <1>1, AdcInductive, PTL

\* AdcKeypadTimer (AdcKeypadDxe.c:257-310) injects a key in the tick that
\* completes DEBOUNCE_SAMPLES equal readings of it and in no other, for any
\* number of readings to require and any keys.
THEOREM InjectsWhenStable ==
  ASSUME Adc!KeypadAssumption
  PROVE  Adc!Spec => []InjectedWhenStable
<1>1. AdcInv => InjectedWhenStable
  BY DEF AdcInv
<1> QED
  BY <1>1, AdcInductive, PTL

(***************************************************************************)
(* The ring is a queue.  r is a ring, [tail, slot]; f is where it begins:  *)
(* the head, or 0 while a reset has moved the tail only.                   *)
(***************************************************************************)
Place(f, i) == (f + i) % Depth
Held(f, r) == (r.tail + Depth - f) % Depth
The(S, x) == CHOOSE s \in S : x = {s}
Items(S, f, r) ==
  [i \in 1..Held(f, r) |-> The(S, r.slot[(f + i - 1) % Depth])]

\* Every slot that is held has a keystroke; a reset that has moved the tail
\* only lets it come up to the old head again, not around the ring.
Filled(S, f, r) ==
  /\ r \in Rings(S)
  /\ \A i \in 0..(Held(f, r) - 1) : r.slot[Place(f, i)] # NoStroke
  /\ f # head => f = 0 /\ r.tail < head

\* Less than twice around the ring.
LEMMA Around ==
  ASSUME NEW a \in Nat, a < 2 * Depth
  PROVE  a % Depth = IF a < Depth THEN a ELSE a - Depth
<1>1. Depth \in Nat \ {0}
  BY DepthAssumption
<1>2. CASE a < Depth
  BY <1>1, <1>2
<1>3. CASE a >= Depth
  BY <1>1, <1>3
<1> QED
  BY <1>1, <1>2, <1>3

\* The ring in numbers.
LEMMA RingNumbers ==
  ASSUME NEW S, NEW f \in Slots, NEW r \in Rings(S)
  PROVE  /\ Depth \in Nat /\ Depth >= 2
         /\ f \in Nat /\ f < Depth /\ r.tail \in Nat /\ r.tail < Depth
         /\ Held(f, r) \in 0..(Depth - 1)
         /\ Held(f, r) = IF r.tail >= f THEN r.tail - f ELSE r.tail + Depth - f
         /\ (r.tail + 1) % Depth = IF r.tail + 1 = Depth THEN 0 ELSE r.tail + 1
         /\ \A i \in 0..(Depth - 1) :
              /\ Place(f, i) = IF f + i < Depth THEN f + i ELSE f + i - Depth
              /\ Place(f, i) \in Slots
         /\ \A i \in 1..(Depth - 1) : (f + i - 1) % Depth = Place(f, i - 1)
<1>1. Depth \in Nat /\ Depth >= 2
  BY DepthAssumption
<1>2. f \in Nat /\ f < Depth /\ r.tail \in Nat /\ r.tail < Depth
  BY <1>1 DEF Rings, Slots
<1>3. Held(f, r) = IF r.tail >= f THEN r.tail - f ELSE r.tail + Depth - f
  <2> DEFINE a == r.tail + Depth - f
  <2>1. a \in Nat /\ a < 2 * Depth /\ Held(f, r) = a % Depth
    BY <1>1, <1>2 DEF Held
  <2> HIDE DEF a
  <2>2. Held(f, r) = IF a < Depth THEN a ELSE a - Depth
    BY <2>1, Around
  <2> QED
    BY <1>1, <1>2, <2>2 DEF a
<1>4. (r.tail + 1) % Depth = IF r.tail + 1 = Depth THEN 0 ELSE r.tail + 1
  <2>1. r.tail + 1 \in Nat /\ r.tail + 1 < 2 * Depth
    BY <1>1, <1>2
  <2> QED
    BY <1>1, <1>2, <2>1, Around
<1>5. ASSUME NEW i \in 0..(Depth - 1)
      PROVE  /\ Place(f, i) = IF f + i < Depth THEN f + i ELSE f + i - Depth
             /\ Place(f, i) \in Slots
  <2> DEFINE a == f + i
  <2>1. a \in Nat /\ a < 2 * Depth /\ Place(f, i) = a % Depth
    BY <1>1, <1>2 DEF Place
  <2> HIDE DEF a
  <2>2. Place(f, i) = IF a < Depth THEN a ELSE a - Depth
    BY <2>1, Around
  <2> QED
    BY <1>1, <1>2, <2>1, <2>2 DEF Slots, a
<1>6. ASSUME NEW i \in 1..(Depth - 1)
      PROVE  (f + i - 1) % Depth = Place(f, i - 1)
  <2>1. f + i - 1 = f + (i - 1)
    BY <1>1, <1>2
  <2> QED
    BY <2>1 DEF Place
<1>7. Held(f, r) \in 0..(Depth - 1)
  BY <1>1, <1>2, <1>3
<1> QED
  BY <1>1, <1>2, <1>3, <1>4, <1>5, <1>6, <1>7

\* The keystrokes in a ring, as a sequence.
LEMMA ItemsHold ==
  ASSUME NEW S, NEW f \in Slots, NEW r, Filled(S, f, r)
  PROVE  /\ Items(S, f, r) \in Seq(S)
         /\ Len(Items(S, f, r)) = Held(f, r)
         /\ \A i \in 1..Held(f, r) :
              /\ Items(S, f, r)[i] = The(S, r.slot[Place(f, i - 1)])
              /\ r.slot[Place(f, i - 1)] = {Items(S, f, r)[i]}
<1>1. r \in Rings(S)
  BY DEF Filled
<1>2. Held(f, r) \in Nat /\ Held(f, r) <= Depth - 1
  BY <1>1, RingNumbers
<1>3. ASSUME NEW i \in 1..Held(f, r)
      PROVE  /\ The(S, r.slot[(f + i - 1) % Depth]) \in S
             /\ (f + i - 1) % Depth = Place(f, i - 1)
             /\ r.slot[Place(f, i - 1)] = {The(S, r.slot[Place(f, i - 1)])}
  <2>1. (f + i - 1) % Depth = Place(f, i - 1) /\ Place(f, i - 1) \in Slots
    <3>1. i \in 1..(Depth - 1) /\ i - 1 \in 0..(Depth - 1)
      BY <1>1, <1>2, RingNumbers
    <3> QED
      BY <1>1, <3>1, RingNumbers
  <2>2. r.slot[Place(f, i - 1)] # NoStroke
    BY <1>2 DEF Filled
  <2>3. PICK s \in S : r.slot[Place(f, i - 1)] = {s}
    BY <1>1, <2>1, <2>2 DEF Rings, Strokes
  <2>4. The(S, r.slot[Place(f, i - 1)]) \in S
        /\ r.slot[Place(f, i - 1)] = {The(S, r.slot[Place(f, i - 1)])}
    BY <2>3 DEF The
  <2> QED
    BY <2>1, <2>4
<1>4. Items(S, f, r) \in [1..Held(f, r) -> S]
  BY <1>3 DEF Items
<1>5. \A i \in 1..Held(f, r) :
        Items(S, f, r)[i] = The(S, r.slot[(f + i - 1) % Depth])
  BY DEF Items
<1>6. Items(S, f, r) \in Seq(S) /\ Len(Items(S, f, r)) = Held(f, r)
  BY <1>2, <1>4
<1> QED
  BY <1>3, <1>5, <1>6

\* PushKey on a ring r, which is p then: it appends to the queue, or finds no
\* room; no slot that is held changes.
Pushed(S, f, r, s, p) ==
  /\ Filled(S, f, p)
  /\ \A i \in 0..(Held(f, r) - 1) : p.slot[Place(f, i)] = r.slot[Place(f, i)]
  /\ \/ p = r /\ (f = head => Held(f, r) = Depth - 1)
        /\ (r.tail + 1) % Depth = head
     \/ Held(f, p) = Held(f, r) + 1
        /\ Items(S, f, p) = Append(Items(S, f, r), s)

LEMMA PushAppends ==
  ASSUME NEW S, NEW f \in Slots, head \in Slots, NEW r, Filled(S, f, r),
         NEW s \in S, NEW p, p = Push(r, s)
  PROVE  Pushed(S, f, r, s, p)
<1> DEFINE n == Held(f, r)
<1>1. r \in Rings(S) /\ p \in Rings(S)
  BY PushTyped DEF Filled
<1>2. /\ Depth \in Nat /\ Depth >= 2 /\ head \in Nat /\ head < Depth
      /\ f \in Nat /\ f < Depth /\ r.tail \in Nat /\ r.tail < Depth
      /\ n = IF r.tail >= f THEN r.tail - f ELSE r.tail + Depth - f
      /\ (r.tail + 1) % Depth = IF r.tail + 1 = Depth THEN 0 ELSE r.tail + 1
      /\ n \in 0..(Depth - 1)
  BY <1>1, RingNumbers DEF Slots
<1>3. CASE (r.tail + 1) % Depth = head
  <2>1. p = r
    BY <1>3 DEF Push
  <2>2. f = head => n = Depth - 1
    BY <1>2, <1>3
  <2> QED
    BY <1>3, <2>1, <2>2 DEF Pushed
<1>4. CASE (r.tail + 1) % Depth # head
  <2>1. p = [tail |-> (r.tail + 1) % Depth,
             slot |-> [r.slot EXCEPT ![r.tail] = {s}]]
    BY <1>4 DEF Push
  <2>2. /\ p.tail = (r.tail + 1) % Depth
        /\ p.slot = [r.slot EXCEPT ![r.tail] = {s}]
        /\ r.slot \in [Slots -> Strokes(S)] /\ r.tail \in Slots
    BY <1>1, <2>1 DEF Rings
  <2>3. /\ p.slot[r.tail] = {s}
        /\ \A j \in Slots : j # r.tail => p.slot[j] = r.slot[j]
    BY <2>2
  <2>4. f # head => f = 0 /\ r.tail < head
    BY DEF Filled
  <2>5. /\ p.tail \in Nat /\ p.tail < Depth
        /\ Held(f, p) = IF p.tail >= f THEN p.tail - f ELSE p.tail + Depth - f
    BY <1>1, RingNumbers
  <2>6. Held(f, p) = n + 1
    BY <1>2, <1>4, <2>2, <2>4, <2>5
  <2>7. f # head => f = 0 /\ p.tail < head
    BY <1>2, <1>4, <2>2, <2>4
  <2>8. n + 1 <= Depth - 1
    BY <1>1, <1>2, <2>6, RingNumbers
  <2>9. ASSUME NEW i \in 0..(n - 1)
        PROVE  Place(f, i) \in Slots /\ Place(f, i) # r.tail
    <3>1. i \in 0..(Depth - 1)
      BY <1>2
    <3>2. Place(f, i) = (IF f + i < Depth THEN f + i ELSE f + i - Depth)
          /\ Place(f, i) \in Slots
      BY <1>1, <3>1, RingNumbers
    <3> QED
      BY <1>2, <3>1, <3>2
  <2>10. Place(f, n) = r.tail
    <3>1. n \in 0..(Depth - 1)
      BY <1>2
    <3>2. Place(f, n) = IF f + n < Depth THEN f + n ELSE f + n - Depth
      BY <1>1, <3>1, RingNumbers
    <3> QED
      BY <1>2, <3>2
  <2>11. \A i \in 0..(n - 1) : p.slot[Place(f, i)] = r.slot[Place(f, i)]
    BY <2>3, <2>9
  <2>12. \A i \in 0..(Held(f, p) - 1) : p.slot[Place(f, i)] # NoStroke
    <3> SUFFICES ASSUME NEW i \in 0..n PROVE p.slot[Place(f, i)] # NoStroke
      BY <1>2, <2>6
    <3>1. CASE i = n
      BY <2>3, <2>10, <3>1 DEF NoStroke
    <3>2. CASE i \in 0..(n - 1)
      BY <2>11, <3>2 DEF Filled
    <3> QED
      BY <1>2, <3>1, <3>2
  <2>13. Filled(S, f, p)
    BY <1>1, <2>7, <2>12 DEF Filled
  <2>14. Items(S, f, p) = Append(Items(S, f, r), s)
    <3> DEFINE u == Items(S, f, p)
               v == Items(S, f, r)
    <3>1. /\ u \in Seq(S) /\ Len(u) = n + 1
          /\ \A i \in 1..(n + 1) : /\ u[i] = The(S, p.slot[Place(f, i - 1)])
                                  /\ p.slot[Place(f, i - 1)] = {u[i]}
      BY <2>6, <2>13, ItemsHold
    <3>2. /\ v \in Seq(S) /\ Len(v) = n
          /\ \A i \in 1..n : v[i] = The(S, r.slot[Place(f, i - 1)])
      BY <1>2, ItemsHold
    <3> HIDE DEF u, v
    <3>3. u[n + 1] = s
      <4>1. n + 1 - 1 = n /\ n + 1 \in 1..(n + 1)
        BY <1>2
      <4>2. p.slot[Place(f, n)] = {u[n + 1]}
        <5>1. n \in Nat
          BY <1>2
        <5> HIDE DEF n
        <5>2. p.slot[Place(f, n + 1 - 1)] = {u[n + 1]}
          BY <3>1, <4>1, <5>1
        <5> QED
          BY <4>1, <5>2
      <4>3. p.slot[Place(f, n)] = {s}
        BY <2>3, <2>10
      <4> QED
        BY <4>2, <4>3
    <3>4. ASSUME NEW i \in 1..n
          PROVE  u[i] = v[i]
      <4>1. i - 1 \in 0..(n - 1) /\ i \in 1..(n + 1)
        BY <1>2
      <4> QED
        BY <2>11, <3>1, <3>2, <4>1
    <3>5. /\ Append(v, s) \in Seq(S) /\ Len(Append(v, s)) = n + 1
          /\ Append(v, s)[n + 1] = s
          /\ \A i \in 1..n : Append(v, s)[i] = v[i]
      BY <3>2, AppendProperties
    <3>6. \A i \in 1..(n + 1) : u[i] = Append(v, s)[i]
      <4> TAKE i \in 1..(n + 1)
      <4>1. i = n + 1 \/ i \in 1..n
        BY <1>2
      <4> QED
        BY <3>3, <3>4, <3>5, <4>1
    <3>7. u = Append(v, s)
      BY <3>1, <3>5, <3>6, SeqEqual
    <3> QED
      BY <3>7 DEF u, v
  <2> QED
    BY <2>6, <2>11, <2>13, <2>14 DEF Pushed
<1> QED
  BY <1>3, <1>4

\* Taking the head's keystroke leaves the rest of the queue.
LEMMA AdvanceTakes ==
  ASSUME NEW S, head \in Slots, NEW r, Filled(S, head, r), r.tail # head,
         NEW h, h = (head + 1) % Depth
  PROVE  /\ h \in Slots
         /\ \A i \in 0..(Held(h, r) - 1) : r.slot[Place(h, i)] # NoStroke
         /\ Items(S, head, r) # <<>>
         /\ r.slot[head] = {Head(Items(S, head, r))}
         /\ Items(S, h, r) = Tail(Items(S, head, r))
<1> DEFINE n == Held(head, r)
           u == Items(S, head, r)
           w == Items(S, h, r)
<1>1. r \in Rings(S)
  BY DEF Filled
<1>2. /\ Depth \in Nat /\ Depth >= 2 /\ head \in Nat /\ head < Depth
      /\ r.tail \in Nat /\ r.tail < Depth
      /\ n = IF r.tail >= head THEN r.tail - head ELSE r.tail + Depth - head
      /\ n \in 0..(Depth - 1)
  BY <1>1, RingNumbers
<1>3. h = IF head + 1 = Depth THEN 0 ELSE head + 1
  <2> DEFINE a == head + 1
  <2>1. a \in Nat /\ a < 2 * Depth /\ h = a % Depth
    BY <1>2
  <2> HIDE DEF a
  <2>2. h = IF a < Depth THEN a ELSE a - Depth
    BY <2>1, Around
  <2> QED
    BY <1>2, <2>2 DEF a
<1>4. h \in Slots
  BY <1>2, <1>3 DEF Slots
<1>5. Held(h, r) = n - 1 /\ n >= 1
  <2>1. Held(h, r) = IF r.tail >= h THEN r.tail - h ELSE r.tail + Depth - h
    BY <1>1, <1>4, RingNumbers
  <2> QED
    BY <1>2, <1>3, <2>1
<1>6. ASSUME NEW i \in 0..(n - 2)
      PROVE  Place(h, i) = Place(head, i + 1)
  <2>1. i \in 0..(Depth - 1) /\ i + 1 \in 0..(Depth - 1)
    BY <1>2
  <2>2. /\ Place(h, i) = IF h + i < Depth THEN h + i ELSE h + i - Depth
        /\ Place(head, i + 1) = IF head + (i + 1) < Depth THEN head + (i + 1)
                                ELSE head + (i + 1) - Depth
    BY <1>1, <1>4, <2>1, RingNumbers
  <2>3. CASE head + 1 = Depth
    <3>1. /\ h = 0 /\ h + i < Depth
          /\ head + (i + 1) = Depth + i /\ ~(head + (i + 1) < Depth)
          /\ h + i = i /\ head + (i + 1) - Depth = i
      BY <1>2, <1>3, <2>1, <2>3
    <3>2. Place(h, i) = i
      BY <2>2, <3>1
    <3>3. Place(head, i + 1) = i
      BY <2>2, <3>1
    <3> QED
      BY <3>2, <3>3
  <2>4. CASE head + 1 # Depth
    <3>1. h = head + 1 /\ h + i = head + (i + 1) /\ i \in Nat /\ h \in Nat
          /\ head \in Nat /\ Depth \in Nat
      BY <1>2, <1>3, <2>1, <2>4
    <3>2. Place(h, i) = IF head + (i + 1) < Depth THEN head + (i + 1)
                        ELSE head + (i + 1) - Depth
      BY <2>2, <3>1
    <3> QED
      BY <2>2, <3>2
  <2> QED
    BY <2>3, <2>4
<1>7. \A i \in 0..(Held(h, r) - 1) : r.slot[Place(h, i)] # NoStroke
  <2> SUFFICES ASSUME NEW i \in 0..(n - 2) PROVE r.slot[Place(h, i)] # NoStroke
    BY <1>2, <1>5
  <2>1. i + 1 \in 0..(n - 1)
    BY <1>2
  <2> QED
    BY <1>6, <2>1 DEF Filled
<1>8. /\ u \in Seq(S) /\ Len(u) = n
      /\ \A i \in 1..n : /\ u[i] = The(S, r.slot[Place(head, i - 1)])
                         /\ r.slot[Place(head, i - 1)] = {u[i]}
  BY ItemsHold
<1>9. u # <<>> /\ Head(u) = u[1]
  BY <1>5, <1>8
<1>10. Place(head, 0) = head
  <2>1. 0 \in 0..(Depth - 1)
    BY <1>2
  <2> QED
    BY <1>1, <1>2, <2>1, RingNumbers
<1>11. r.slot[head] = {Head(u)}
  <2>1. 1 \in 1..n /\ 1 - 1 = 0
    BY <1>2, <1>5
  <2>2. r.slot[Place(head, 0)] = {u[1]}
    BY <1>8, <2>1
  <2> QED
    BY <1>9, <1>10, <2>2
<1>12. w = [i \in 1..(n - 1) |-> The(S, r.slot[(h + i - 1) % Depth])]
  BY <1>5 DEF Items
<1>13. ASSUME NEW i \in 1..(n - 1)
       PROVE  The(S, r.slot[(h + i - 1) % Depth]) = u[i + 1]
  <2>1. i \in 1..(Depth - 1) /\ i - 1 \in 0..(n - 2) /\ i + 1 \in 1..n
        /\ i - 1 + 1 = i + 1 - 1
    BY <1>2
  <2>2. (h + i - 1) % Depth = Place(h, i - 1)
    BY <1>1, <1>4, <2>1, RingNumbers
  <2>3. Place(h, i - 1) = Place(head, i + 1 - 1)
    BY <1>6, <2>1
  <2> QED
    BY <1>8, <2>1, <2>2, <2>3
<1> HIDE DEF u, w
<1>14. /\ Tail(u) \in Seq(S) /\ Len(Tail(u)) = n - 1
       /\ \A i \in 1..(n - 1) : Tail(u)[i] = u[i + 1]
  BY <1>8, <1>9, HeadTailProperties
<1>15. w = Tail(u)
  <2>1. Tail(u) = [i \in 1..(n - 1) |-> Tail(u)[i]]
    <3>1. Tail(u) \in [1..Len(Tail(u)) -> S]
      BY <1>14, LenProperties
    <3>2. Tail(u) \in [1..(n - 1) -> S]
      BY <1>14, <3>1
    <3> QED
      BY <3>2
  <2> QED
    BY <1>12, <1>13, <1>14, <2>1
<1> QED
  BY <1>4, <1>7, <1>9, <1>11, <1>15 DEF u, w

\* How many strokes of a press and its release find room.
LEMMA BurstHolds ==
  ASSUME NEW S, NEW c \in Seq(S), NEW a \in S, NEW b \in S,
         NEW p, p = <<a, b>>
  PROVE  /\ p \in Seq(S) /\ Len(p) = 2
         /\ c \o SubSeq(p, 1, 0) = c
         /\ c \o SubSeq(p, 1, 1) = Append(c, a)
         /\ c \o SubSeq(p, 1, 2) = Append(Append(c, a), b)
<1>0. /\ <<a, b>> \in Seq(S) /\ Len(<<a, b>>) = 2
      /\ <<a, b>>[1] = a /\ <<a, b>>[2] = b
      /\ <<a>> \in Seq(S) /\ Len(<<a>>) = 1 /\ <<a>>[1] = a /\ <<b>> \in Seq(S)
  OBVIOUS
<1>1. /\ SubSeq(<<a, b>>, 1, 0) = <<>>
      /\ SubSeq(<<a, b>>, 1, 1) = <<a>>
      /\ SubSeq(<<a, b>>, 1, 2) = <<a, b>>
  <2> DEFINE q == SubSeq(<<a, b>>, 1, 1)
  <2>1. q \in Seq(S) /\ Len(q) = 1 /\ q[1] = a
    OBVIOUS
  <2> HIDE DEF q
  <2>2. \A i \in 1..Len(q) : q[i] = <<a>>[i]
    BY <1>0, <2>1
  <2>3. q = <<a>>
    BY <1>0, <2>1, <2>2, SeqEqual
  <2>4. SubSeq(<<a, b>>, 1, 2) = <<a, b>>
    BY <1>0, SubSeqFull
  <2>5. SubSeq(<<a, b>>, 1, 0) = <<>>
    BY SubSeqEmpty
  <2> QED
    BY <2>3, <2>4, <2>5 DEF q
<1>2. c \o <<>> = c
  BY ConcatEmptySeq
<1>3. c \o <<a>> = Append(c, a)
  BY AppendIsConcat
<1>4. c \o <<a, b>> = Append(Append(c, a), b)
  <2> DEFINE q == Append(<<a>>, b)
  <2>1. q = <<a, b>> /\ q = <<a>> \o <<b>>
    <3>1. q \in Seq(S) /\ Len(q) = 2 /\ q[1] = a /\ q[2] = b
      BY <1>0, AppendProperties
    <3>2. q = <<a>> \o <<b>>
      BY <1>0, AppendIsConcat
    <3> HIDE DEF q
    <3>3. \A i \in 1..Len(q) : q[i] = <<a, b>>[i]
      BY <1>0, <3>1
    <3> QED
      BY <1>0, <3>1, <3>2, <3>3, SeqEqual
  <2>2. Append(c, a) \in Seq(S) /\ <<a>> \in Seq(S) /\ <<b>> \in Seq(S)
        /\ <<a, b>> = <<a>> \o <<b>>
    BY <1>0, <2>1, AppendProperties
  <2>3. (c \o <<a>>) \o <<b>> = c \o (<<a>> \o <<b>>)
    BY <2>2, ConcatAssociative
  <2>4. Append(Append(c, a), b) = Append(c, a) \o <<b>>
    BY <2>2, AppendIsConcat
  <2> QED
    BY <1>3, <2>2, <2>3, <2>4
<1>5. <<a, b>> \in Seq(S) /\ Len(<<a, b>>) = 2
  OBVIOUS
<1> QED
  BY <1>1, <1>2, <1>3, <1>4, <1>5

\* The ring at any time: what is held is there, and what the reader has
\* copied is still what it will take.
Served(S) ==
  /\ head \in Slots
  /\ Filled(S, First, Now)
  /\ reader \in {"copy", "advance"} => head # tail
  /\ reader = "advance" => copied = slot[head]

\* The keystrokes that wait.
Waits(S) == Items(S, First, Now)

\* The ring in the terms of these lemmas.
LEMMA Terms ==
  ASSUME NEW S, Served(S)
  PROVE  /\ First \in Slots /\ tail \in Slots
         /\ Now.tail = tail /\ Now.slot = slot
         /\ reader # "reset" => First = head
<1>1. Now = [tail |-> tail, slot |-> slot]
  BY DEF Now
<1>2. Now \in Rings(S) /\ head \in Slots
  BY DEF Served, Filled
<1> QED
  BY <1>1, <1>2, DepthAssumption DEF First, Rings, Slots

\* A tick that leaves the ring p has injected the burst, of which it kept as
\* much as there is room for, and disturbed nothing that was held.
Injects(S, p, burst) ==
  /\ Filled(S, First, p)
  /\ Held(First, p) >= Held(First, Now)
  /\ \A i \in 0..(Held(First, Now) - 1) :
       p.slot[Place(First, i)] = Now.slot[Place(First, i)]
  /\ \E n \in 0..Len(burst) :
       /\ Items(S, First, p) = Waits(S) \o SubSeq(burst, 1, n)
       /\ n < Len(burst) => \/ reader = "reset"
                            \/ Len(Items(S, First, p)) = Depth - 1

LEMMA OnePushed ==
  ASSUME NEW S, Served(S), NEW a \in S, NEW p, p = Push(Now, a)
  PROVE  Injects(S, p, <<a>>)
<1> DEFINE f == First
           r == Now
           c == Items(S, f, r)
<1>1. /\ head \in Slots /\ f \in Slots /\ Filled(S, f, r)
      /\ reader # "reset" => f = head
      /\ p = Push(r, a) /\ a \in S
  BY Terms DEF Served
<1> HIDE DEF f, r, c
<1>2. Pushed(S, f, r, a, p)
  BY <1>1, PushAppends
<1>3. /\ Filled(S, f, p)
      /\ \A i \in 0..(Held(f, r) - 1) :
           p.slot[Place(f, i)] = r.slot[Place(f, i)]
      /\ \/ p = r /\ (f = head => Held(f, r) = Depth - 1)
         \/ Held(f, p) = Held(f, r) + 1
            /\ Items(S, f, p) = Append(Items(S, f, r), a)
  BY <1>2 DEF Pushed
<1>4. Held(f, r) \in Nat /\ Held(f, p) \in Nat /\ Held(f, p) >= Held(f, r)
  <2>1. r \in Rings(S) /\ p \in Rings(S)
    BY <1>1, <1>3 DEF Filled
  <2>2. Held(f, r) \in 0..(Depth - 1) /\ Held(f, p) \in 0..(Depth - 1)
        /\ Depth \in Nat
    BY <1>1, <2>1, RingNumbers
  <2> QED
    BY <1>3, <2>2
<1>5. c \in Seq(S) /\ Len(Items(S, f, p)) = Held(f, p)
  BY <1>1, <1>3, ItemsHold DEF c
<1>6. c \o SubSeq(<<a>>, 1, 0) = c /\ c \o SubSeq(<<a>>, 1, 1) = Append(c, a)
  <2> DEFINE q == <<a>>
  <2>1. q \in Seq(S) /\ Len(q) = 1 /\ Append(c, a) = c \o q
    BY <1>5, AppendIsConcat
  <2> HIDE DEF q
  <2>2. SubSeq(q, 1, 0) = <<>> /\ SubSeq(q, 1, 1) = q
    BY <2>1, SubSeqEmpty, SubSeqFull
  <2>3. c \o <<>> = c
    BY <1>5, ConcatEmptySeq
  <2>4. c \o SubSeq(q, 1, 0) = c /\ c \o SubSeq(q, 1, 1) = Append(c, a)
    BY <2>1, <2>2, <2>3
  <2> QED
    BY <2>4 DEF q
<1>7. \E n \in 0..1 :
        /\ Items(S, f, p) = c \o SubSeq(<<a>>, 1, n)
        /\ n < 1 => reader = "reset" \/ Len(Items(S, f, p)) = Depth - 1
  <2>1. CASE p = r /\ (f = head => Held(f, r) = Depth - 1)
    <3>1. reader = "reset" \/ Len(Items(S, f, p)) = Depth - 1
      BY <1>1, <1>5, <2>1
    <3>2. Items(S, f, p) = c \o SubSeq(<<a>>, 1, 0)
      BY <1>6, <2>1 DEF c
    <3> QED
      BY <3>1, <3>2
  <2>2. CASE Items(S, f, p) = Append(c, a)
    <3>1. Items(S, f, p) = c \o SubSeq(<<a>>, 1, 1)
      BY <1>6, <2>2
    <3> QED
      BY <3>1
  <2> QED
    BY <1>3, <2>1, <2>2 DEF c
<1>8. Len(<<a>>) = 1
  OBVIOUS
<1> QED
  BY <1>3, <1>4, <1>7, <1>8 DEF f, r, c, Waits, Injects

LEMMA TwoPushed ==
  ASSUME NEW S, Served(S), NEW a \in S, NEW b \in S,
         NEW one, one = Push(Now, a), NEW p, p = Push(one, b)
  PROVE  Injects(S, p, <<a, b>>)
<1> DEFINE f == First
           r == Now
           c == Items(S, f, r)
           burst == <<a, b>>
<1>1. /\ head \in Slots /\ f \in Slots /\ Filled(S, f, r)
      /\ reader # "reset" => f = head
      /\ one = Push(r, a) /\ p = Push(one, b) /\ a \in S /\ b \in S
  BY Terms DEF Served
<1>2. burst = <<a, b>>
  OBVIOUS
<1> HIDE DEF f, r, c, burst
<1>3. Pushed(S, f, r, a, one)
  BY <1>1, PushAppends
<1>4. Pushed(S, f, one, b, p)
  <2>1. Filled(S, f, one)
    BY <1>3 DEF Pushed
  <2> QED
    BY <1>1, <2>1, PushAppends
<1>5. /\ Filled(S, f, one)
      /\ \A i \in 0..(Held(f, r) - 1) :
           one.slot[Place(f, i)] = r.slot[Place(f, i)]
      /\ \/ one = r /\ (f = head => Held(f, r) = Depth - 1)
            /\ (r.tail + 1) % Depth = head
         \/ Held(f, one) = Held(f, r) + 1
            /\ Items(S, f, one) = Append(Items(S, f, r), a)
  BY <1>3 DEF Pushed
<1>6. /\ Filled(S, f, p)
      /\ \A i \in 0..(Held(f, one) - 1) :
           p.slot[Place(f, i)] = one.slot[Place(f, i)]
      /\ \/ p = one /\ (f = head => Held(f, one) = Depth - 1)
         \/ Held(f, p) = Held(f, one) + 1
            /\ Items(S, f, p) = Append(Items(S, f, one), b)
  BY <1>4 DEF Pushed
<1>7. /\ Depth \in Nat /\ Held(f, r) \in Nat /\ Held(f, one) \in Nat
      /\ Held(f, p) \in Nat
      /\ Held(f, one) >= Held(f, r) /\ Held(f, p) >= Held(f, r)
  <2>1. r \in Rings(S) /\ one \in Rings(S) /\ p \in Rings(S)
    BY <1>1, <1>5, <1>6 DEF Filled
  <2>2. Held(f, r) \in 0..(Depth - 1) /\ Held(f, one) \in 0..(Depth - 1)
        /\ Held(f, p) \in 0..(Depth - 1) /\ Depth \in Nat
    BY <1>1, <2>1, RingNumbers
  <2> QED
    BY <1>5, <1>6, <2>2
<1>8. \A i \in 0..(Held(f, r) - 1) : p.slot[Place(f, i)] = r.slot[Place(f, i)]
  <2> TAKE i \in 0..(Held(f, r) - 1)
  <2>1. i \in 0..(Held(f, one) - 1)
    BY <1>7
  <2> QED
    BY <1>5, <1>6, <2>1
<1>9. c \in Seq(S) /\ Len(Items(S, f, p)) = Held(f, p)
  BY <1>1, <1>6, ItemsHold DEF c
<1>10. /\ c \o SubSeq(burst, 1, 0) = c
      /\ c \o SubSeq(burst, 1, 1) = Append(c, a)
      /\ c \o SubSeq(burst, 1, 2) = Append(Append(c, a), b)
  BY <1>2, <1>9, BurstHolds
<1>11. \E n \in 0..2 :
        /\ Items(S, f, p) = c \o SubSeq(burst, 1, n)
        /\ n < 2 => reader = "reset" \/ Len(Items(S, f, p)) = Depth - 1
  <2>1. CASE one = r /\ p = one
    <3>1. reader = "reset" \/ Len(Items(S, f, p)) = Depth - 1
      BY <1>1, <1>5, <1>6, <1>7, <1>9, <2>1
    <3>2. Items(S, f, p) = c \o SubSeq(burst, 1, 0)
      BY <1>10, <2>1 DEF c
    <3> QED
      BY <3>1, <3>2
  <2>2. CASE /\ Held(f, one) = Held(f, r) + 1
             /\ Items(S, f, one) = Append(c, a) /\ p = one
    <3>1. reader = "reset" \/ Len(Items(S, f, p)) = Depth - 1
      BY <1>1, <1>6, <1>7, <1>9, <2>2
    <3>2. Items(S, f, p) = c \o SubSeq(burst, 1, 1)
      BY <1>10, <2>2
    <3> QED
      BY <3>1, <3>2
  <2>3. CASE Items(S, f, one) = Append(c, a)
             /\ Items(S, f, p) = Append(Items(S, f, one), b)
    <3>1. Items(S, f, p) = c \o SubSeq(burst, 1, 2)
      BY <1>10, <2>3
    <3> QED
      BY <3>1
  <2>4. CASE one = r /\ (r.tail + 1) % Depth = head
    <3>1. p = one
      BY <2>4 DEF Push
    <3> QED
      BY <2>1, <2>4, <3>1
  <2>5. p = one \/ Items(S, f, p) = Append(Items(S, f, one), b)
    BY <1>6
  <2>6. \/ one = r /\ (r.tail + 1) % Depth = head
        \/ Held(f, one) = Held(f, r) + 1 /\ Items(S, f, one) = Append(c, a)
    BY <1>5 DEF c
  <2> QED
    BY <2>2, <2>3, <2>4, <2>5, <2>6
<1>12. Len(<<a, b>>) = 2
  OBVIOUS
<1> QED
  BY <1>6, <1>7, <1>8, <1>11, <1>12 DEF f, r, c, burst, Waits, Injects

\* What such a tick is to the queue; the reader still finds what it copied.
LEMMA TickServes ==
  ASSUME NEW S, Served(S), NEW p, NEW burst, Injects(S, p, burst), Now' = p,
         UNCHANGED <<head, reader, copied>>
  PROVE  /\ Served(S)'
         /\ \E n \in 0..Len(burst) :
              /\ Waits(S)' = Waits(S) \o SubSeq(burst, 1, n)
              /\ n < Len(burst) => \/ reader = "reset"
                                   \/ Len(Waits(S)') = Depth - 1
         /\ Len(Waits(S)') <= Depth - 1
<1> DEFINE f == First
<1>1. /\ head \in Slots /\ f \in Slots /\ Filled(S, f, Now)
      /\ Now.tail = tail /\ Now.slot = slot
      /\ reader \in {"copy", "advance"} => head # tail
      /\ reader = "advance" => copied = slot[head]
      /\ reader # "reset" => f = head
  BY Terms DEF Served
<1>2. f' = f
  BY DEF First
<1> HIDE DEF f
<1>3. /\ Filled(S, f, p) /\ Held(f, p) >= Held(f, Now)
      /\ \A i \in 0..(Held(f, Now) - 1) :
           p.slot[Place(f, i)] = Now.slot[Place(f, i)]
  BY DEF f, Injects
<1>4. tail' = p.tail /\ slot' = p.slot
  <2>1. Now'.tail = tail' /\ Now'.slot = slot'
    BY DEF Now
  <2> QED
    BY <2>1
<1>5. /\ Depth \in Nat /\ Held(f, Now) \in 0..(Depth - 1)
      /\ Held(f, p) \in 0..(Depth - 1)
  BY <1>1, <1>3, RingNumbers DEF Filled
<1>6. ASSUME reader \in {"copy", "advance"}
      PROVE  f = head /\ Held(f, Now) >= 1
  <2>1. f = head /\ head # Now.tail
    BY <1>1, <1>6
  <2>2. /\ f \in Nat /\ f < Depth /\ Now.tail \in Nat /\ Now.tail < Depth
        /\ Held(f, Now) = IF Now.tail >= f THEN Now.tail - f
                          ELSE Now.tail + Depth - f
    BY <1>1, RingNumbers DEF Filled
  <2> QED
    BY <1>5, <2>1, <2>2
<1>7. ASSUME reader \in {"copy", "advance"}
      PROVE  head # tail'
  <2> SUFFICES ASSUME head = tail' PROVE FALSE
    OBVIOUS
  <2>1. /\ f \in Nat /\ f < Depth
        /\ Held(f, p) = IF p.tail >= f THEN p.tail - f ELSE p.tail + Depth - f
    BY <1>1, <1>3, RingNumbers DEF Filled
  <2>2. p.tail = f
    BY <1>4, <1>6, <1>7
  <2> QED
    BY <1>3, <1>5, <1>6, <1>7, <2>1, <2>2
<1>8. ASSUME reader \in {"copy", "advance"}
      PROVE  slot'[head] = slot[head]
  <2>1. f = head /\ 0 \in 0..(Held(f, Now) - 1) /\ 0 \in 0..(Depth - 1)
    BY <1>5, <1>6, <1>8
  <2>2. Place(f, 0) = f
    <3>1. /\ f \in Nat /\ f < Depth
          /\ Place(f, 0) = IF f + 0 < Depth THEN f + 0 ELSE f + 0 - Depth
      BY <1>1, <2>1, RingNumbers DEF Filled
    <3> QED
      BY <3>1
  <2>3. p.slot[f] = Now.slot[f]
    BY <1>3, <2>1, <2>2
  <2> QED
    BY <1>1, <1>4, <2>1, <2>3
<1>9. Filled(S, First, Now)'
  BY <1>2, <1>3 DEF Filled, Rings, Held, Place, f
<1>10. Served(S)'
  BY <1>1, <1>7, <1>8, <1>9 DEF Served
<1>11. Waits(S)' = Items(S, f, p)
  BY <1>2 DEF Waits, Items, Held, The, f
<1>12. Len(Items(S, f, p)) <= Depth - 1
  <2>1. f \in Slots /\ Filled(S, f, p)
    BY <1>1, <1>3
  <2>2. Len(Items(S, f, p)) = Held(f, p)
    BY <2>1, ItemsHold, Zenon
  <2> QED
    BY <1>5, <2>2
<1> QED
  BY <1>10, <1>11, <1>12 DEF f, Injects

\* What the steps of a reader are to the queue: it takes the oldest keystroke
\* when it moves the head, and a reset begins and ends a clearing.
Takes(S) ==
  /\ Waits(S) # <<>>
  /\ got' = {Head(Waits(S))} /\ Waits(S)' = Tail(Waits(S))
  /\ reader # "reset" /\ reader' # "reset"

Clears(S) == Waits(S)' = <<>> /\ got' = got /\ reader' = "reset"

Cleared(S) == Waits(S)' = Waits(S) /\ got' = got /\ reader' # "reset"

Leaves(S) ==
  /\ Waits(S)' = Waits(S) /\ got' = got
  /\ \/ reader' = reader
     \/ reader # "reset" /\ reader' # "reset"

LEMMA Untouched ==
  ASSUME NEW S, Served(S), UNCHANGED <<head, tail, slot>>, First' = First
  PROVE  Filled(S, First, Now)' /\ Waits(S)' = Waits(S)
<1>1. Now' = Now
  BY DEF Now
<1>2. Filled(S, First, Now)'
  BY <1>1 DEF Served, Filled, Rings, Held, Place
<1>3. Waits(S)' = Waits(S)
  BY <1>1 DEF Waits, Items, Held, The
<1> QED
  BY <1>2, <1>3

\* With nothing of the ring changed nothing changes of the queue.
LEMMA RingRests ==
  ASSUME NEW S, Served(S), UNCHANGED <<head, tail, slot, reader, copied, got>>
  PROVE  Served(S)' /\ Leaves(S)
<1>1. First' = First
  BY DEF First
<1>2. Filled(S, First, Now)' /\ Waits(S)' = Waits(S)
  BY <1>1, Untouched
<1>3. Served(S)'
  <2>1. /\ head' = head /\ tail' = tail /\ slot' = slot /\ reader' = reader
        /\ copied' = copied
    OBVIOUS
  <2>2. /\ head \in Slots
        /\ reader \in {"copy", "advance"} => head # tail
        /\ reader = "advance" => copied = slot[head]
    BY DEF Served
  <2>3. /\ (head \in Slots)'
        /\ (reader \in {"copy", "advance"} => head # tail)'
        /\ (reader = "advance" => copied = slot[head])'
    BY <2>1, <2>2 DEF Slots
  <2> QED
    BY <1>2, <2>3 DEF Served
<1>4. Leaves(S)
  BY <1>2 DEF Leaves
<1> QED
  BY <1>3, <1>4

LEMMA ReadServes ==
  ASSUME NEW S, Served(S), Read \/ ReadEmpty
  PROVE  Served(S)' /\ (Leaves(S) \/ Takes(S))
<1>1. /\ head \in Slots /\ Filled(S, First, Now)
      /\ reader \in {"copy", "advance"} => head # tail
      /\ reader = "advance" => copied = slot[head]
  BY DEF Served
<1>2. CASE ReadEmpty
  <2>1. UNCHANGED <<head, tail, slot, reader, copied, got>>
    BY <1>2 DEF ReadEmpty, ring, readerVars
  <2> QED
    BY <2>1, RingRests
<1>3. CASE ReadBegin
  <2>1. /\ UNCHANGED <<head, tail, slot, copied, got>>
        /\ reader = "idle" /\ reader' = "copy" /\ head # tail
    BY <1>3 DEF ReadBegin, ring
  <2>2. First' = First
    BY <2>1 DEF First
  <2>3. Filled(S, First, Now)' /\ Waits(S)' = Waits(S)
    BY <2>1, <2>2, Untouched
  <2> QED
    BY <1>1, <2>1, <2>3 DEF Served, Leaves
<1>4. CASE ReadCopy
  <2>1. /\ UNCHANGED <<head, tail, slot, got>>
        /\ reader = "copy" /\ reader' = "advance" /\ copied' = slot[head]
    BY <1>4 DEF ReadCopy, ring
  <2>2. First' = First
    BY <2>1 DEF First
  <2>3. Filled(S, First, Now)' /\ Waits(S)' = Waits(S)
    BY <2>1, <2>2, Untouched
  <2> QED
    BY <1>1, <2>1, <2>3 DEF Served, Leaves
<1>5. CASE ReadAdvance
  <2>1. /\ UNCHANGED <<tail, slot>>
        /\ reader = "advance" /\ reader' = "idle"
        /\ head' = (head + 1) % Depth /\ got' = copied
    BY <1>5 DEF ReadAdvance
  <2>2. Now' = Now /\ First = head /\ First' = head'
    BY <2>1 DEF Now, First
  <2>3. Filled(S, head, Now) /\ Now.tail # head /\ copied = Now.slot[head]
    BY <1>1, <2>1, <2>2, Terms
  <2>4. /\ head' \in Slots
        /\ \A i \in 0..(Held(head', Now) - 1) :
             Now.slot[Place(head', i)] # NoStroke
        /\ Items(S, head, Now) # <<>>
        /\ Now.slot[head] = {Head(Items(S, head, Now))}
        /\ Items(S, head', Now) = Tail(Items(S, head, Now))
    BY <1>1, <2>1, <2>3, AdvanceTakes
  <2>5. Filled(S, First, Now)'
    <3>1. Now \in Rings(S)
      BY <2>3 DEF Filled
    <3> QED
      BY <2>2, <2>4, <3>1 DEF Filled, Rings, Held, Place
  <2>6. Served(S)'
    BY <2>1, <2>4, <2>5 DEF Served
  <2>7. Waits(S) = Items(S, head, Now) /\ Waits(S)' = Items(S, head', Now)
    BY <2>2 DEF Waits, Items, Held, The
  <2> QED
    BY <2>1, <2>3, <2>4, <2>6, <2>7 DEF Takes
<1> QED
  BY <1>2, <1>3, <1>4, <1>5 DEF Read

LEMMA ResetServes ==
  ASSUME NEW S, Served(S), Reset
  PROVE  Served(S)' /\ (Clears(S) \/ Cleared(S))
<1>1. /\ head \in Slots /\ Filled(S, First, Now)
  BY DEF Served
<1>2. CASE ResetTail
  <2>1. /\ UNCHANGED <<head, slot, copied, got>>
        /\ tail' = 0 /\ reader' = "reset"
    BY <1>2 DEF ResetTail
  <2> DEFINE r == [tail |-> 0, slot |-> slot]
  <2>2. First' = 0 /\ Now' = r /\ r.tail = 0
    BY <2>1 DEF First, Now
  <2>3. r \in Rings(S) /\ 0 \in Slots
    BY <1>1, DepthAssumption DEF Filled, Rings, Now, Slots
  <2> HIDE DEF r
  <2>4. Held(0, r) = 0
    <3>1. Held(0, r) = IF r.tail >= 0 THEN r.tail - 0 ELSE r.tail + Depth - 0
      BY <2>3, RingNumbers
    <3> QED
      BY <2>2, <3>1
  <2>5. Filled(S, First, Now)'
    <3>1. head' # 0 => 0 < head'
      BY <1>1, <2>1, DepthAssumption DEF Slots
    <3>2. \A i \in 0..(Held(0, r) - 1) : r.slot[Place(0, i)] # NoStroke
      BY <2>4
    <3> QED
      BY <2>2, <2>3, <3>1, <3>2 DEF Filled, Rings, Held, Place
  <2>6. Waits(S)' = <<>>
    <3>1. Waits(S)' = Items(S, 0, r)
      BY <2>2 DEF Waits, Items, Held, The
    <3> QED
      BY <2>4, <3>1 DEF Items
  <2> QED
    BY <1>1, <2>1, <2>5, <2>6 DEF Served, Clears
<1>3. CASE ResetHead
  <2>1. /\ UNCHANGED <<tail, slot, copied, got>>
        /\ reader = "reset" /\ reader' = "idle" /\ head' = 0
    BY <1>3 DEF ResetHead
  <2>2. First = 0 /\ First' = 0 /\ Now' = Now /\ 0 \in Slots
    BY <2>1, DepthAssumption DEF First, Now, Slots
  <2>3. Filled(S, First, Now)'
    BY <1>1, <2>1, <2>2 DEF Filled, Rings, Held, Place
  <2>4. Waits(S)' = Waits(S)
    BY <2>2 DEF Waits, Items, Held, The
  <2> QED
    BY <2>1, <2>2, <2>3, <2>4 DEF Served, Cleared
<1> QED
  BY <1>2, <1>3 DEF Reset

\* The ring is empty at first.
LEMMA RingBegins ==
  ASSUME NEW S, RingInit
  PROVE  Served(S) /\ Waits(S) = <<>> /\ got = {} /\ reader = "idle"
<1>1. /\ head = 0 /\ tail = 0 /\ reader = "idle" /\ got = {}
      /\ slot = [i \in Slots |-> NoStroke]
  BY DEF RingInit, NoStroke
<1>2. First = 0 /\ Now = [tail |-> 0, slot |-> slot]
  BY <1>1 DEF First, Now
<1>3. 0 \in Slots /\ Now \in Rings(S) /\ Now.tail = 0
  BY <1>1, <1>2, DepthAssumption DEF Slots, Rings, Strokes
<1>4. Held(0, Now) = 0
  <2>1. Held(0, Now) = IF Now.tail >= 0 THEN Now.tail - 0
                       ELSE Now.tail + Depth - 0
    BY <1>3, RingNumbers
  <2> QED
    BY <1>3, <2>1
<1>5. Filled(S, First, Now)
  <2>1. \A i \in 0..(Held(0, Now) - 1) : Now.slot[Place(0, i)] # NoStroke
    BY <1>4
  <2> QED
    BY <1>1, <1>2, <1>3, <2>1 DEF Filled
<1>6. Waits(S) = <<>>
  BY <1>2, <1>4 DEF Waits, Items
<1> QED
  BY <1>1, <1>3, <1>5, <1>6 DEF Served

(***************************************************************************)
(* The GPIO keypad's queue.                                                *)
(***************************************************************************)
LEMMA GpioContents == Contents = Waits(Stroke) /\ Contents' = Waits(Stroke)'
BY DEF Contents, Waiting, Waits, Items, Held, The, Now

\* What a reader does.
LEMMA GpioCaller ==
  ASSUME Leaves(Stroke) \/ Takes(Stroke) \/ Clears(Stroke) \/ Cleared(Stroke)
  PROVE  Queue!Next \/ UNCHANGED Queue!vars
<1>1. CASE Leaves(Stroke)
  BY <1>1, GpioContents DEF Leaves, Queue!vars
<1>2. CASE Takes(Stroke)
  <2>1. Queue!Take
    BY <1>2, GpioContents DEF Takes, Queue!Take
  <2> QED
    BY <2>1 DEF Queue!Next
<1>3. CASE Clears(Stroke)
  <2>1. Queue!BeginClear
    BY <1>3, GpioContents DEF Clears, Queue!BeginClear
  <2> QED
    BY <2>1 DEF Queue!Next
<1>4. CASE Cleared(Stroke)
  <2>1. Queue!EndClear
    BY <1>4, GpioContents DEF Cleared, Queue!EndClear
  <2> QED
    BY <2>1 DEF Queue!Next
<1> QED
  BY <1>1, <1>2, <1>3, <1>4

\* A tick injects what is pressed: nothing, the one pin, the other, or both.
LEMMA GpioTick ==
  ASSUME Served(Stroke), NEW level \in [Pin -> BOOLEAN], Tick(level)
  PROVE  Served(Stroke)' /\ (Queue!Next \/ UNCHANGED Queue!vars)
<1>1. Served(Stroke) /\ Play \in Stroke /\ VolDn \in Stroke
  BY KeypadAssumption DEF Pin
<1> DEFINE one == Push(Now, Play)
           both == Push(one, VolDn)
           other == Push(Now, VolDn)
<1>2. /\ UNCHANGED <<head, reader, copied, got>>
      /\ PushAll(PushIf(Pressed(level, VolDn),
                        PushIf(Pressed(level, Play), Now, Play), VolDn))
  BY DEF Tick, readerVars
<1>3. ASSUME NEW p, p \in Rings(Stroke), PushAll(p)
      PROVE  Now' = p
  <2>1. p = [tail |-> p.tail, slot |-> p.slot]
    BY <1>3 DEF Rings
  <2> QED
    BY <1>3, <2>1 DEF PushAll, Now
<1>4. ASSUME NEW p, NEW burst \in Queue!Bursts, Injects(Stroke, p, burst),
             PushAll(p)
      PROVE  Served(Stroke)' /\ (Queue!Next \/ UNCHANGED Queue!vars)
  <2>1. p \in Rings(Stroke)
    BY <1>4 DEF Injects, Filled
  <2>2. Now' = p
    BY <1>3, <1>4, <2>1
  <2>3. /\ Served(Stroke)'
        /\ \E n \in 0..Len(burst) :
             /\ Waits(Stroke)' = Waits(Stroke) \o SubSeq(burst, 1, n)
             /\ n < Len(burst) => \/ reader = "reset"
                                  \/ Len(Waits(Stroke)') = Depth - 1
        /\ Len(Waits(Stroke)') <= Depth - 1
    BY <1>1, <1>2, <1>4, <2>2, TickServes
  <2>4. Queue!Inject(burst)
    BY <1>2, <2>3, GpioContents DEF Queue!Inject
  <2> QED
    BY <1>4, <2>3, <2>4 DEF Queue!Next
<1>5. CASE ~Pressed(level, Play) /\ ~Pressed(level, VolDn)
  <2>1. UNCHANGED <<head, tail, slot, reader, copied, got>>
    BY <1>2, <1>5 DEF PushIf, PushAll, Now
  <2> QED
    BY <1>1, <2>1, RingRests, GpioCaller
<1>6. CASE Pressed(level, Play) /\ ~Pressed(level, VolDn)
  <2>1. Injects(Stroke, one, <<Play>>)
    BY <1>1, OnePushed
  <2>2. PushAll(one)
    BY <1>2, <1>6 DEF PushIf
  <2>3. <<Play>> \in Queue!Bursts
    BY <1>1 DEF Queue!Bursts
  <2> QED
    BY <1>4, <2>1, <2>2, <2>3
<1>7. CASE ~Pressed(level, Play) /\ Pressed(level, VolDn)
  <2>1. Injects(Stroke, other, <<VolDn>>)
    BY <1>1, OnePushed
  <2>2. PushAll(other)
    BY <1>2, <1>7 DEF PushIf
  <2>3. <<VolDn>> \in Queue!Bursts
    BY <1>1 DEF Queue!Bursts
  <2> QED
    BY <1>4, <2>1, <2>2, <2>3
<1>8. CASE Pressed(level, Play) /\ Pressed(level, VolDn)
  <2>1. Injects(Stroke, both, <<Play, VolDn>>)
    BY <1>1, TwoPushed
  <2>2. PushAll(both)
    BY <1>2, <1>8 DEF PushIf
  <2>3. <<Play, VolDn>> \in Queue!Bursts
    BY <1>1 DEF Queue!Bursts
  <2> QED
    BY <1>4, <2>1, <2>2, <2>3
<1> QED
  BY <1>5, <1>6, <1>7, <1>8

\* The ring the GPIO keypad's timer and its reader share without a lock is a
\* queue, of any depth: keystrokes are read in the order they were injected,
\* each at most once, and one is dropped only when Depth - 1 of them wait or
\* while a reset is under way (GpioKeypadDxe.c:41-52).
THEOREM GpioRingIsQueue == Spec => ImplementsKeyQueue
<1>1. Init => Served(Stroke) /\ Queue!Init
  <2> SUFFICES ASSUME Init PROVE Served(Stroke) /\ Queue!Init
    OBVIOUS
  <2>1. RingInit
    BY DEF Init
  <2>2. /\ Served(Stroke) /\ Waits(Stroke) = <<>> /\ got = {}
        /\ reader = "idle"
    BY <2>1, RingBegins
  <2> QED
    BY <2>2, GpioContents DEF Queue!Init
<1>2. Served(Stroke) /\ [Next]_vars
      => Served(Stroke)' /\ [Queue!Next]_(Queue!vars)
  <2> SUFFICES ASSUME Served(Stroke), [Next]_vars
               PROVE  Served(Stroke)' /\ (Queue!Next \/ UNCHANGED Queue!vars)
    OBVIOUS
  <2>1. ASSUME NEW level \in [Pin -> BOOLEAN], Tick(level)
        PROVE  Served(Stroke)' /\ (Queue!Next \/ UNCHANGED Queue!vars)
    BY <2>1, GpioTick
  <2>2. CASE Wake \/ UNCHANGED vars
    <3>1. UNCHANGED <<head, tail, slot, reader, copied, got>>
      BY <2>2 DEF Wake, vars, ring, readerVars
    <3> QED
      BY <3>1, RingRests, GpioCaller
  <2>3. CASE Sleep \/ ReadKey
    <3>1. Read \/ ReadEmpty
      BY <2>3 DEF Sleep, ReadKey
    <3> QED
      BY <3>1, ReadServes, GpioCaller
  <2>4. CASE ResetKeys
    <3>1. Reset
      BY <2>4 DEF ResetKeys
    <3> QED
      BY <3>1, ResetServes, GpioCaller
  <2> QED
    BY <2>1, <2>2, <2>3, <2>4 DEF Next
<1> QED
  BY <1>1, <1>2, PTL DEF Spec, ImplementsKeyQueue, Queue!Spec

(***************************************************************************)
(* The ADC keypad's queue.                                                 *)
(***************************************************************************)
LEMMA AdcContents ==
  /\ Adc!Contents = Waits(AdcStroke)
  /\ (Adc!Contents)' = Waits(AdcStroke)'
BY DEF Adc!Contents, Adc!Waiting, Adc!First, First, Waits, Items, Held, The, Now

LEMMA AdcReader ==
  ASSUME Leaves(AdcStroke) \/ Takes(AdcStroke) \/ Clears(AdcStroke)
           \/ Cleared(AdcStroke)
  PROVE  Adc!Queue!Next \/ UNCHANGED Adc!Queue!vars
<1>1. CASE Leaves(AdcStroke)
  BY <1>1, AdcContents DEF Leaves, Adc!Queue!vars
<1>2. CASE Takes(AdcStroke)
  <2>1. Adc!Queue!Take
    BY <1>2, AdcContents DEF Takes, Adc!Queue!Take
  <2> QED
    BY <2>1 DEF Adc!Queue!Next
<1>3. CASE Clears(AdcStroke)
  <2>1. Adc!Queue!BeginClear
    BY <1>3, AdcContents DEF Clears, Adc!Queue!BeginClear
  <2> QED
    BY <2>1 DEF Adc!Queue!Next
<1>4. CASE Cleared(AdcStroke)
  <2>1. Adc!Queue!EndClear
    BY <1>4, AdcContents DEF Cleared, Adc!Queue!EndClear
  <2> QED
    BY <2>1 DEF Adc!Queue!Next
<1> QED
  BY <1>1, <1>2, <1>3, <1>4

\* A tick injects a press and its release, or nothing.
LEMMA AdcInjects ==
  ASSUME Adc!KeypadAssumption, Served(AdcStroke), NEW k \in Key \cup {NoKey},
         Adc!Tick(k)
  PROVE  /\ Served(AdcStroke)'
         /\ Adc!Queue!Next \/ UNCHANGED Adc!Queue!vars
<1> DEFINE press == k = prevKey /\ stable + 1 = Samples /\ k # NoKey
           a == [key |-> k, down |-> TRUE]
           b == [key |-> k, down |-> FALSE]
           one == Push(Now, a)
           two == Push(one, b)
           burst == <<a, b>>
<1>1. /\ UNCHANGED <<head, reader, copied, got>>
      /\ IF press
           THEN Adc!PushAll(Adc!Push(Adc!Push(Adc!Now, a), b))
           ELSE UNCHANGED <<tail, slot>>
  BY DEF Adc!Tick, Adc!Sample, Adc!readerVars
<1>2. CASE ~press
  <2>1. UNCHANGED <<head, tail, slot, reader, copied, got>>
    BY <1>1, <1>2
  <2> QED
    BY <2>1, RingRests, AdcReader
<1>3. CASE press
  <2>1. a \in AdcStroke /\ b \in AdcStroke
    <3>1. k \in Key /\ AdcStroke = [key : Key, down : BOOLEAN]
      BY <1>3 DEF Adc!KeypadAssumption
    <3> QED
      BY <3>1
  <2>2. Adc!PushAll(two)
    BY <1>1, <1>3 DEF Adc!Push, Push, Adc!Now, Now
  <2> HIDE DEF a, b
  <2>3. Injects(AdcStroke, two, burst)
    BY <2>1, TwoPushed
  <2>4. burst \in Adc!Queue!Bursts
    BY <2>1 DEF Adc!Queue!Bursts
  <2> HIDE DEF one, two, burst
  <2>5. Now' = two
    <3>1. two \in Rings(AdcStroke)
      BY <2>3 DEF Injects, Filled
    <3>2. two = [tail |-> two.tail, slot |-> two.slot]
      BY <3>1 DEF Rings
    <3> QED
      BY <2>2, <3>2 DEF Adc!PushAll, Now
  <2>6. /\ Served(AdcStroke)'
        /\ \E n \in 0..Len(burst) :
             /\ Waits(AdcStroke)' = Waits(AdcStroke) \o SubSeq(burst, 1, n)
             /\ n < Len(burst) => \/ reader = "reset"
                                  \/ Len(Waits(AdcStroke)') = Depth - 1
        /\ Len(Waits(AdcStroke)') <= Depth - 1
    BY <1>1, <2>3, <2>5, TickServes
  <2>7. Adc!Queue!Inject(burst)
    BY <1>1, <2>6, AdcContents DEF Adc!Queue!Inject
  <2> QED
    BY <2>4, <2>6, <2>7 DEF Adc!Queue!Next
<1> QED
  BY <1>2, <1>3

\* The ring the ADC keypad's timer and its readers share without a lock
\* (AdcKeypadDxe.c:153-170, 237-246) is a queue, of any depth: keystrokes are
\* read in the order they were injected, each at most once, and one is
\* dropped only when Depth - 1 of them wait or while a reset is under way.
THEOREM AdcRingIsQueue ==
  ASSUME Adc!KeypadAssumption
  PROVE  Adc!Spec => Adc!ImplementsKeyQueue
<1>1. Adc!Init => Served(AdcStroke) /\ Adc!Queue!Init
  <2> SUFFICES ASSUME Adc!Init PROVE Served(AdcStroke) /\ Adc!Queue!Init
    OBVIOUS
  <2>1. RingInit
    BY DEF Adc!Init, Adc!RingInit, RingInit, Adc!NoStroke, NoStroke, Adc!Slots,
       Slots
  <2>2. /\ Served(AdcStroke) /\ Waits(AdcStroke) = <<>> /\ got = {}
        /\ reader = "idle"
    BY <2>1, RingBegins
  <2> QED
    BY <2>2, AdcContents DEF Adc!Queue!Init
<1>2. Served(AdcStroke) /\ [Adc!Next]_(Adc!vars)
      => Served(AdcStroke)' /\ [Adc!Queue!Next]_(Adc!Queue!vars)
  <2> SUFFICES ASSUME Served(AdcStroke), [Adc!Next]_(Adc!vars)
               PROVE  /\ Served(AdcStroke)'
                      /\ Adc!Queue!Next \/ UNCHANGED Adc!Queue!vars
    OBVIOUS
  <2>1. CASE UNCHANGED Adc!vars
    <3>1. UNCHANGED <<head, tail, slot, reader, copied, got>>
      BY <2>1 DEF Adc!vars, Adc!ring, Adc!readerVars
    <3> QED
      BY <3>1, RingRests, AdcReader
  <2>2. CASE Adc!Read \/ Adc!ReadEmpty
    <3>1. Read \/ ReadEmpty
      BY <2>2 DEF Adc!Read, Read, Adc!ReadEmpty, ReadEmpty, Adc!ReadBegin,
         ReadBegin, Adc!ReadCopy, ReadCopy, Adc!ReadAdvance, ReadAdvance,
         Adc!ring, ring, Adc!readerVars, readerVars, Adc!NoStroke, NoStroke
    <3> QED
      BY <3>1, ReadServes, AdcReader
  <2>3. CASE Adc!Reset
    <3>1. Reset
      BY <2>3 DEF Adc!Reset, Reset, Adc!ResetTail, ResetTail, Adc!ResetHead,
         ResetHead
    <3> QED
      BY <3>1, ResetServes, AdcReader
  <2> QED
    BY <2>1, <2>2, <2>3, AdcInjects DEF Adc!Next, Adc!Caller
<1> QED
  BY <1>1, <1>2, PTL DEF Adc!Spec, Adc!ImplementsKeyQueue, Adc!Queue!Spec
=============================================================================
