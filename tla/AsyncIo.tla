------------------------------ MODULE AsyncIo ------------------------------
(***************************************************************************)
(* What the SD/MMC pass-through protocol promises a caller that submits a  *)
(* command packet with an event (nonblocking I/O): packets complete in the *)
(* order they were accepted, each exactly once, with one status that never *)
(* changes, and every accepted packet completes.  A removal, a reset of    *)
(* the device or the stop of the driver completes all of them together.    *)
(***************************************************************************)
EXTENDS Sequences, FiniteSets, Naturals

CONSTANTS
  Req,      \* the packets of the callers
  Outcomes  \* the statuses a packet may complete with

VARIABLES
  pending,  \* the accepted packets that have not completed, oldest first
  outcome   \* the status of every packet, "none" until it completes

vars == <<pending, outcome>>

Outstanding == {pending[i] : i \in 1..Len(pending)}

Init ==
  /\ pending = <<>>
  /\ outcome = [r \in Req |-> "none"]

Accept(r) ==
  /\ r \notin Outstanding
  /\ outcome[r] = "none"
  /\ pending' = Append(pending, r)
  /\ UNCHANGED outcome

Complete(s) ==
  /\ pending # <<>>
  /\ outcome[Head(pending)] = "none"
  /\ pending' = Tail(pending)
  /\ outcome' = [outcome EXCEPT ![Head(pending)] = s]

CompleteAll(s) ==
  /\ pending # <<>>
  /\ \A r \in Outstanding : outcome[r] = "none"
  /\ pending' = <<>>
  /\ outcome' = [r \in Req |-> IF r \in Outstanding THEN s ELSE outcome[r]]

Finish == \E s \in Outcomes : Complete(s) \/ CompleteAll(s)

Next == (\E r \in Req : Accept(r)) \/ Finish

Spec == Init /\ [][Next]_vars /\ WF_vars(Finish)
=============================================================================
