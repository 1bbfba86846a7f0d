---------------------------- MODULE HostCommand ----------------------------
(***************************************************************************)
(* What SendCommand of the PX30 eMMC driver promises its callers, without  *)
(* registers and polls.  A command is asked for, sent, answered by the     *)
(* card and returned.  A result tells what became of the command, unless   *)
(* an earlier command, given up before the controller was done with it,    *)
(* meddled; and only what was given up can meddle.  Px30Command implements *)
(* it.  The clients clear what is left by CMD12, or by the reset before a  *)
(* transfer, so that a result that matters to them is about its command.   *)
(***************************************************************************)

VARIABLES
  stage,   \* "idle", "asked" or "sent"
  data,    \* the command has a data phase
  answer,  \* the card's response, while the command is known to be its own
  block,   \* the data phase, likewise
  left,    \* a command that was given up is still in the controller
  own,     \* what the host sees is about the command it sent
  result   \* the EFI_STATUS last returned

vars == <<stage, data, answer, block, left, own, result>>

Results == {"SUCCESS", "DEVICE_ERROR", "TIMEOUT"}

Init ==
  /\ stage = "idle" /\ data = FALSE
  /\ answer = "none" /\ block = "none"
  /\ left = FALSE /\ own = TRUE /\ result = "none"

Ask(d) ==
  /\ stage = "idle"
  /\ stage' = "asked" /\ data' = d
  /\ UNCHANGED <<answer, block, left, own, result>>

Send ==
  /\ stage = "asked"
  /\ stage' = "sent" /\ result' = "none"
  /\ answer' = "due" /\ block' = (IF data THEN "due" ELSE "none")
  /\ UNCHANGED <<data, left, own>>

\* The controller still holds a command and refuses another.
SendRefused ==
  /\ stage = "asked" /\ left
  /\ stage' = "sent" /\ result' = "none"
  /\ own' = FALSE /\ left' \in BOOLEAN
  /\ UNCHANGED <<data, answer, block>>

Answer(a) ==
  /\ answer = "due" /\ answer' = a
  /\ UNCHANGED <<stage, data, block, left, own, result>>

\* The data follow an answer, sound or not; none follow a lost one.
Block(b) ==
  /\ block = "due" /\ answer \in {"good", "corrupt"}
  /\ block' = b
  /\ UNCHANGED <<stage, data, answer, left, own, result>>

\* The end of a command given up earlier is seen by the one that was sent.
Meddle ==
  /\ stage = "sent" /\ left
  /\ left' = FALSE /\ own' = FALSE
  /\ answer' = "none" /\ block' = "none"
  /\ UNCHANGED <<stage, data, result>>

\* It is seen by nobody.
Settle ==
  /\ stage # "sent" /\ left
  /\ left' = FALSE
  /\ UNCHANGED <<stage, data, answer, block, own, result>>

\* Success: the command is over, its data included, and data came with an
\* answer.  Error: answer or data really went wrong.  A timeout says nothing.
Justified(s) ==
  CASE s = "SUCCESS" ->
         /\ answer # "due"
         /\ data => answer # "lost" /\ block \in {"good", "damaged"}
    [] s = "DEVICE_ERROR" ->
         answer \in {"corrupt", "lost"} \/ block \in {"damaged", "stalled"}
    [] s = "TIMEOUT" -> TRUE

\* The controller is not done with the command.
Unfinished == answer = "due" \/ (block = "due" /\ answer # "lost")

Return(s) ==
  /\ stage = "sent" /\ stage' = "idle" /\ result' = s
  /\ own => Justified(s) /\ left' = (left \/ Unfinished)
  /\ ~own => left' \in BOOLEAN /\ (left => left')
  /\ own' = TRUE /\ answer' = "none" /\ block' = "none"
  /\ UNCHANGED data

Next ==
  \/ \E d \in BOOLEAN : Ask(d)
  \/ Send \/ SendRefused
  \/ \E a \in {"good", "corrupt", "lost"} : Answer(a)
  \/ \E b \in {"good", "damaged", "stalled"} : Block(b)
  \/ Meddle \/ Settle
  \/ \E s \in Results : Return(s)

Spec == Init /\ [][Next]_vars
=============================================================================
