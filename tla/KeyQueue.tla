------------------------------ MODULE KeyQueue ------------------------------
(***************************************************************************)
(* What a keypad driver promises its reader: keystrokes are read in the    *)
(* order they were injected, each at most once, and one is dropped only    *)
(* when Capacity of them wait, or while the queue is being cleared.        *)
(***************************************************************************)
EXTENDS Naturals, Sequences

CONSTANTS Stroke, Capacity

VARIABLES
  items,     \* the keystrokes waiting, oldest first
  got,       \* the keystroke read last
  clearing   \* a reset is under way

vars == <<items, got, clearing>>

Init == items = <<>> /\ got = {} /\ clearing = FALSE

\* A burst of keystrokes; each that finds no room is dropped.
Inject(burst) ==
  /\ \E n \in 0..Len(burst) :
       /\ items' = items \o SubSeq(burst, 1, n)
       /\ n < Len(burst) => clearing \/ Len(items') = Capacity
  /\ Len(items') <= Capacity
  /\ UNCHANGED <<got, clearing>>

Take ==
  /\ items # <<>>
  /\ got' = {Head(items)}
  /\ items' = Tail(items)
  /\ UNCHANGED clearing

BeginClear == items' = <<>> /\ clearing' = TRUE /\ UNCHANGED got
EndClear == clearing' = FALSE /\ UNCHANGED <<items, got>>

Bursts == {<<s>> : s \in Stroke} \cup {<<s, t>> : s, t \in Stroke}

Next ==
  \/ \E b \in Bursts : Inject(b)
  \/ Take \/ BeginClear \/ EndClear

Spec == Init /\ [][Next]_vars
=============================================================================
