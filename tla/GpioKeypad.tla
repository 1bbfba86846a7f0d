----------------------------- MODULE GpioKeypad -----------------------------
(***************************************************************************)
(* The GPIO keypad driver (GpioKeypadDxe): every 20 ms a timer reads two   *)
(* active-low pins, debounces each and injects one keystroke per press     *)
(* into the key FIFO (KeyRing).  Its WaitForKeyEx is an event that every   *)
(* injection signals and every wait clears.                                *)
(***************************************************************************)
EXTENDS KeyRing

CONSTANTS
  Play, VolDn,  \* the pins of mK, in this order
  Polls         \* DB_MS / POLL_MS (2)

Pin == {Play, VolDn}

ASSUME KeypadAssumption ==
  Play # VolDn /\ Polls \in Nat \ {0} /\ Stroke = Pin

VARIABLES
  prev,      \* mPrev: the level read last; TRUE is high, released
  cur,       \* mCur: the debounced level
  cnt,       \* mCnt
  signalled, \* mWait
  asleep,    \* the caller waits for the event
  recent     \* ghost: the last Polls + 1 levels of each pin

debounce == <<prev, cur, cnt, recent>>
vars == <<ring, readerVars, prev, cur, cnt, signalled, asleep, recent>>

Suffix(q, n) ==
  IF Len(q) <= n THEN q ELSE SubSeq(q, Len(q) - n + 1, Len(q))

(***************************************************************************)
(* Tmr: both pins in one handler at TPL_NOTIFY.  A level is taken over     *)
(* when it was read Polls + 1 times; taking over a low level is a press.   *)
(***************************************************************************)
StableEarly(level, p) == level[p] = prev[p] /\ cnt[p] + 2 >= Polls
Stable(level, p) == level[p] = prev[p] /\ cnt[p] + 1 >= Polls
Pressed(level, p) == Stable(level, p) /\ level[p] # cur[p] /\ ~level[p]
PushIf(press, r, p) == IF press THEN Push(r, p) ELSE r

TickWithoutSignal(level) ==  \* the event is not signalled
  LET after == PushIf(Pressed(level, VolDn),
                      PushIf(Pressed(level, Play), Now, Play), VolDn)
  IN
  /\ prev' = level
  /\ cur' = [p \in Pin |-> IF Stable(level, p) THEN level[p] ELSE cur[p]]
  /\ cnt' = [p \in Pin |-> IF level[p] = prev[p] /\ ~Stable(level, p)
                             THEN cnt[p] + 1 ELSE 0]
  /\ PushAll(after)
  /\ recent' = [p \in Pin |-> Suffix(Append(recent[p], level[p]), Polls + 1)]
  /\ UNCHANGED <<head, readerVars, asleep, signalled>>

Tick(level) ==
  LET after == PushIf(Pressed(level, VolDn),
                      PushIf(Pressed(level, Play), Now, Play), VolDn)
  IN
  /\ prev' = level
  /\ cur' = [p \in Pin |-> IF Stable(level, p) THEN level[p] ELSE cur[p]]
  /\ cnt' = [p \in Pin |-> IF level[p] = prev[p] /\ ~Stable(level, p)
                             THEN cnt[p] + 1 ELSE 0]
  /\ PushAll(after)
  /\ signalled' = (signalled \/ after # Now)
  /\ recent' = [p \in Pin |-> Suffix(Append(recent[p], level[p]), Polls + 1)]
  /\ UNCHANGED <<head, readerVars, asleep>>

(***************************************************************************)
(* The caller waits for the event, which clears it, and then reads until   *)
(* EFI_NOT_READY; it may also reset the device.                            *)
(***************************************************************************)
Wake ==
  /\ asleep /\ signalled
  /\ asleep' = FALSE /\ signalled' = FALSE
  /\ UNCHANGED <<ring, readerVars, debounce>>

Sleep ==
  /\ ~asleep
  /\ ReadEmpty
  /\ asleep' = TRUE
  /\ UNCHANGED <<debounce, signalled>>

ReadKey == ~asleep /\ Read /\ UNCHANGED <<debounce, signalled, asleep>>
ResetKeys == ~asleep /\ Reset /\ UNCHANGED <<debounce, signalled, asleep>>

\* The pins were read before the timer was started.
Init ==
  /\ RingInit
  /\ prev \in [Pin -> BOOLEAN] /\ cur = prev
  /\ cnt = [p \in Pin |-> 0]
  /\ signalled = FALSE /\ asleep = TRUE
  /\ recent = [p \in Pin |-> <<prev[p]>>]

Next ==
  \/ \E level \in [Pin -> BOOLEAN] : Tick(level)
  \/ Wake \/ Sleep \/ ReadKey \/ ResetKeys

Spec == Init /\ [][Next]_vars

\* The caller goes on with what it has begun.
FairSpec == Spec /\ WF_vars(Wake \/ Sleep \/ ReadKey)

-----------------------------------------------------------------------------
\* The indices stay within the ring; mCnt is reset when it reaches Polls.
TypeOK ==
  /\ RingTypeOK
  /\ prev \in [Pin -> BOOLEAN] /\ cur \in [Pin -> BOOLEAN]
  /\ cnt \in [Pin -> 0..(Polls - 1)]
  /\ signalled \in BOOLEAN /\ asleep \in BOOLEAN
  /\ recent \in [Pin -> Seq(BOOLEAN)]

SameFor(p, n) ==
  /\ Len(recent[p]) = n
  /\ \A i \in 1..n : recent[p][i] = recent[p][n]

\* The level changes only on Polls + 1 equal readings, and follows these
\* whatever bounced before; the timer injects only when some level changes to
\* low: a glitch during a press does not repeat the keystroke.
PressIsDebouncedChange ==
  [][/\ \A p \in Pin : cur'[p] # cur[p] => SameFor(p, Polls + 1)'
     /\ \A p \in Pin : SameFor(p, Polls + 1)' => cur'[p] = prev'[p]
     /\ tail' # tail /\ reader' = reader
          => \E p \in Pin : cur[p] /\ ~cur'[p]]_vars

\* No wake-up is lost: when the caller waits while keystrokes are in the
\* ring, the event is signalled (Push moves the tail, then signals; the
\* caller found the ring empty, then waits).
NoLostWakeup == asleep /\ head # tail => signalled

\* What is in the ring is read, or removed by a reset, whatever the timer
\* does meanwhile.
StrokesAreRead ==
  head # tail ~> (reader = "advance" \/ head = tail \/ reader = "reset")
=============================================================================
