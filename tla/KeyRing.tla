------------------------------ MODULE KeyRing ------------------------------
(***************************************************************************)
(* The key FIFO of the keypad drivers: a ring written by a timer at        *)
(* TPL_NOTIFY and read and reset by a caller at a lower TPL without a      *)
(* lock, so that the timer runs between any two accesses of the caller.    *)
(***************************************************************************)
EXTENDS Naturals, Sequences

CONSTANTS
  Depth,   \* FIFO_DEPTH: 8 slots, one of which stays free
  Stroke   \* EFI_KEY_DATA

ASSUME DepthAssumption == Depth \in Nat /\ Depth >= 2

VARIABLES
  head,    \* mFifoHead: moved by the reader
  tail,    \* mFifoTail: moved by the timer
  slot,    \* mFifo
  reader,  \* where the caller is in ReadKeyStrokeEx or Reset
  copied,  \* KeyData, once copied and until the call returns
  got      \* ghost: the keystroke the last successful read returned

ring == <<head, tail, slot>>
readerVars == <<reader, copied, got>>

Slots == 0..(Depth - 1)
NoStroke == {}

RingInit ==
  /\ head = 0 /\ tail = 0 /\ slot = [i \in Slots |-> NoStroke]
  /\ reader = "idle" /\ copied = NoStroke /\ got = NoStroke

PushWithoutWrap(r, s) ==  \* the tail is not reduced modulo the depth
  IF (r.tail + 1) % Depth = head THEN r
  ELSE [tail |-> r.tail + 1, slot |-> [r.slot EXCEPT ![r.tail] = {s}]]

PushUnchecked(r, s) ==  \* a full ring is not recognised
  [tail |-> (r.tail + 1) % Depth,
   slot |-> [r.slot EXCEPT ![r.tail] = {s}]]

\* PushKey, on a ring r: [tail, slot].
Push(r, s) ==
  IF (r.tail + 1) % Depth = head THEN r
  ELSE [tail |-> (r.tail + 1) % Depth,
        slot |-> [r.slot EXCEPT ![r.tail] = {s}]]

PushAll(r) == tail' = r.tail /\ slot' = r.slot

Now == [tail |-> tail, slot |-> slot]

(***************************************************************************)
(* ReadKeyStrokeEx: EFI_NOT_READY if the ring is empty; copy; move head.   *)
(***************************************************************************)
ReadEmpty ==
  /\ reader = "idle" /\ head = tail
  /\ UNCHANGED <<ring, readerVars>>

ReadBegin ==
  /\ reader = "idle" /\ head # tail
  /\ reader' = "copy"
  /\ UNCHANGED <<ring, copied, got>>

ReadCopy ==
  /\ reader = "copy"
  /\ copied' = slot[head]
  /\ reader' = "advance"
  /\ UNCHANGED <<ring, got>>

ReadAdvance ==
  /\ reader = "advance"
  /\ head' = (head + 1) % Depth
  /\ got' = copied
  /\ copied' = NoStroke
  /\ reader' = "idle"
  /\ UNCHANGED <<tail, slot>>

\* mFifoHead = mFifoTail = 0: the tail first.
ResetTail ==
  /\ reader = "idle"
  /\ tail' = 0
  /\ reader' = "reset"
  /\ UNCHANGED <<head, slot, copied, got>>

ResetHead ==
  /\ reader = "reset"
  /\ head' = 0
  /\ reader' = "idle"
  /\ UNCHANGED <<tail, slot, copied, got>>

Read == ReadBegin \/ ReadCopy \/ ReadAdvance
Reset == ResetTail \/ ResetHead

(***************************************************************************)
(* The keystrokes that wait: from head to tail, or from slot 0 while a     *)
(* reset has not yet moved the head.                                       *)
(***************************************************************************)
First == IF reader = "reset" THEN 0 ELSE head
Waiting == (tail + Depth - First) % Depth

Contents ==
  [i \in 1..Waiting |->
     CHOOSE s \in Stroke : slot[(First + i - 1) % Depth] = {s}]

\* Part of the type invariants of both drivers.
RingTypeOK ==
  /\ head \in Slots /\ tail \in Slots
  /\ slot \in [Slots -> {NoStroke} \cup {{s} : s \in Stroke}]
  /\ reader \in {"idle", "copy", "advance", "reset"}
  /\ copied \in {NoStroke} \cup {{s} : s \in Stroke}
  /\ got \in {NoStroke} \cup {{s} : s \in Stroke}

Queue == INSTANCE KeyQueue WITH
           items    <- Contents,
           clearing <- (reader = "reset"),
           Capacity <- Depth - 1

\* The ring is a queue, although reader and timer share it without a lock
\* and a reset moves the two indices one after the other.
ImplementsKeyQueue == Queue!Spec
=============================================================================
