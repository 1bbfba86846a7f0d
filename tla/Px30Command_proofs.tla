------------------------ MODULE Px30Command_proofs ------------------------
(***************************************************************************)
(* Proofs about SendCommand of the PX30 eMMC driver: type correctness and  *)
(* the four result properties, for every bound on the polls.               *)
(***************************************************************************)
EXTENDS Px30Command, TLAPS

\* What the bits of RINTSTS say about the command being polled for, as long
\* as no abandoned command meddles.
Connected ==
  pc = "poll" /\ ~mixed =>
    /\ resp # "none"
    /\ "CD" \in rint <=> resp \in {"arrived", "crc", "lost"}
    /\ "DTO" \in rint => xfer \in {"good", "bad", "overrun"}
    /\ {"HLE", "SBE"} \cap rint = {}
    /\ "RCRC" \in rint => resp = "crc"
    /\ "DCRC" \in rint <=> xfer = "bad"
    /\ "DRT" \in rint => xfer = "stalled"
    /\ {"RTO", "EBE", "HTO"} \cap rint # {} => "CD" \in rint
    /\ {"EBE", "HTO"} \cap rint # {} => kind = "data"
    /\ kind = "data" <=> xfer # "none"
    /\ xfer \in {"good", "bad", "overrun", "stalled"} =>
         resp \in {"arrived", "crc"}

IInv ==
  /\ TypeOK
  /\ Connected
  /\ SuccessMeansFinished
  /\ NoFalseError
  /\ DataNeedsResponse
  /\ BadDataOnlyMasked
-----------------------------------------------------------------------------
\* Every variable stays in its domain: in particular PollCount never passes
\* its limit, and no action invents a RINTSTS bit.
THEOREM TypeCorrect == Spec => []TypeOK
<1>1. Init => TypeOK
  <2> SUFFICES ASSUME Init
               PROVE  TypeOK
    OBVIOUS
  <2>1. polls \in 0..MaxPolls /\ idleTries \in 0..(MaxIdle + 1)
    BY BoundsAssumption DEF Init
  <2>2. orphan \in BOOLEAN /\ mixed \in BOOLEAN /\ busy \in BOOLEAN
    BY Zenon DEF Init
  <2>3. QED
    BY <2>1, <2>2, Zenon DEF Init, TypeOK, Kinds, Bits
<1>2. TypeOK /\ [Next]_vars => TypeOK'
  <2> SUFFICES ASSUME TypeOK, [Next]_vars
               PROVE  TypeOK'
    OBVIOUS
  <2> USE BoundsAssumption
  <2>1. ASSUME NEW k \in Kinds, Submit(k)
        PROVE  TypeOK'
    BY <2>1 DEF Submit, TypeOK, ctlVars
  <2>2. CASE WaitIdleBusy
    BY <2>2 DEF WaitIdleBusy, TypeOK, ctlVars
  <2>3. CASE WaitIdleStuck
    BY <2>3 DEF WaitIdleStuck, TypeOK, ctlVars
  <2>4. CASE StartCommand
    <3>1. idleTries' \in 0..(MaxIdle + 1)
      BY <2>4 DEF StartCommand, TypeOK
    <3>2. orphan' \in BOOLEAN /\ mixed' \in BOOLEAN
      BY <2>4, Zenon DEF StartCommand, Issue, TypeOK
    <3>3. polls' \in 0..MaxPolls /\ kind' \in Kinds /\ sample' \in SUBSET Bits
      BY <2>4 DEF StartCommand, Issue, TypeOK
    <3>4. polls' < MaxPolls
      BY <2>4 DEF StartCommand, Issue
    <3>5. rint' \in SUBSET Bits
      BY <2>4 DEF StartCommand, Issue, Bits
    <3>6. /\ resp' \in {"none", "pending", "arrived", "crc", "lost"}
          /\ xfer' \in {"none", "pending", "good", "bad", "overrun", "stalled"}
      BY <2>4 DEF StartCommand, Issue, TypeOK
    <3>7. QED
      BY <2>4, <3>1, <3>2, <3>3, <3>4, <3>5, <3>6, Zenon
         DEF StartCommand, Issue, TypeOK
  <2>5. CASE Poll
    <3>1. /\ polls' \in 0..MaxPolls /\ sample' \in SUBSET Bits
          /\ pc' = "poll" => polls' < MaxPolls
      BY <2>5 DEF Poll, TypeOK, PollExhausted, PollClean, PollForgive,
                  PollFail, Return
    <3>2. rint' \in SUBSET Bits
      BY <2>5 DEF Poll, TypeOK, PollExhausted, PollClean, PollForgive, PollFail
    <3>3. pc' \in {"idle", "waitIdle", "poll"}
          /\ status' \in {"none", "SUCCESS", "TIMEOUT", "DEVICE_ERROR"}
      BY <2>5 DEF Poll, TypeOK, PollExhausted, PollClean, PollForgive,
                  PollFail, Return
    <3>4. QED
      BY <2>5, <3>1, <3>2, <3>3 DEF Poll, TypeOK
  <2>6. CASE CtlEarlyRE
    BY <2>6 DEF CtlEarlyRE, TypeOK, hostVars, Bits
  <2>7. ASSUME NEW r \in {"arrived", "crc", "lost"},
               NEW s \in SUBSET {"RE", "RTO"}, CtlResponse(r, s)
        PROVE  TypeOK'
    BY <2>7 DEF CtlResponse, TypeOK, hostVars, Bits
  <2>8. CASE CtlReceive
    BY <2>8 DEF CtlReceive, TypeOK, hostVars
  <2>9. ASSUME NEW x \in {"good", "bad", "overrun", "stalled"},
               NEW s \in SUBSET {"EBE", "FRUN", "HTO"}, CtlData(x, s)
        PROVE  TypeOK'
    BY <2>9 DEF CtlData, TypeOK, hostVars, Bits
  <2>10. ASSUME NEW x \in {"good", "bad"}, CtlOrphan(x)
         PROVE  TypeOK'
    BY <2>10 DEF CtlOrphan, TypeOK, hostVars, Bits
  <2>11. CASE CardReady
    <3>1. busy' \in BOOLEAN
      BY <2>11, Zenon DEF CardReady
    <3>2. QED
      BY <2>11, <3>1 DEF CardReady, TypeOK, hostVars
  <2>12. CASE UNCHANGED vars
    BY <2>12 DEF TypeOK, vars
  <2>13. QED
    BY <2>1, <2>2, <2>3, <2>4, <2>5, <2>6, <2>7, <2>8, <2>9, <2>10, <2>11,
       <2>12 DEF Next, Host, Controller
<1>3. QED
  BY <1>1, <1>2, PTL DEF Spec

-----------------------------------------------------------------------------
\* What one poll iteration does to the results it may return.
LEMMA PollResults ==
  ASSUME TypeOK, Connected, Poll
  PROVE  /\ Connected'
         /\ SuccessMeansFinished' /\ NoFalseError'
         /\ DataNeedsResponse' /\ BadDataOnlyMasked'
<1> USE DEF Poll, TypeOK, Connected
<1>1. CASE PollExhausted
  BY <1>1 DEF PollExhausted, Return, Returned, SuccessMeansFinished,
              NoFalseError, DataNeedsResponse, BadDataOnlyMasked
<1>2. CASE PollClean
  <2>1. "DCRC" \notin rint
    BY <1>2 DEF PollClean, ErrMask
  <2>2. CASE "DTO" \in rint \/ ~LoopAgain(rint, kind)
    BY <1>2, <2>1, <2>2 DEF PollClean, LoopAgain, Return, Returned,
       SuccessMeansFinished, NoFalseError, DataNeedsResponse, BadDataOnlyMasked
  <2>3. CASE ~("DTO" \in rint \/ ~LoopAgain(rint, kind))
    BY <1>2, <2>3 DEF PollClean, Returned,
       SuccessMeansFinished, NoFalseError, DataNeedsResponse, BadDataOnlyMasked
  <2>4. QED
    BY <2>2, <2>3
<1>3. ASSUME NEW b \in Quirks, PollForgive(b)
      PROVE  /\ Connected'
             /\ SuccessMeansFinished' /\ NoFalseError'
             /\ DataNeedsResponse' /\ BadDataOnlyMasked'
  <2>1. b \in rint /\ b \in {"RE", "EBE", "RTO", "FRUN", "HTO"}
    BY <1>3 DEF PollForgive, Forgiven, Applies, Quirks
  <2>2. CASE Captured(b, rint, kind) \/ ~LoopAgain(rint, kind)
    BY <1>3, <2>1, <2>2 DEF PollForgive, Captured, LoopAgain, Return, Returned,
       SuccessMeansFinished, NoFalseError, DataNeedsResponse, BadDataOnlyMasked
  <2>3. CASE ~(Captured(b, rint, kind) \/ ~LoopAgain(rint, kind))
    BY <1>3, <2>1, <2>3 DEF PollForgive, Returned,
       SuccessMeansFinished, NoFalseError, DataNeedsResponse, BadDataOnlyMasked
  <2>4. QED
    BY <2>2, <2>3
<1>4. CASE PollFail
  <2>1. ASSUME ~mixed
        PROVE  resp \in {"crc", "lost"} \/ xfer \in {"bad", "overrun", "stalled"}
    <3>1. PICK e \in ErrMask : e \in rint
      BY <1>4 DEF PollFail
    <3>2. e \notin {"RE", "RTO", "EBE", "HTO"}
      BY <1>4, <2>1, <3>1 DEF PollFail, Applies, Quirks
    <3>3. e \in {"RCRC", "DCRC", "DRT"}
      BY <2>1, <3>1, <3>2 DEF ErrMask
    <3>4. QED
      BY <2>1, <3>1, <3>3
  <2>2. QED
    BY <1>4, <2>1 DEF PollFail, Return, Returned,
       SuccessMeansFinished, NoFalseError, DataNeedsResponse, BadDataOnlyMasked
<1>5. QED
  BY <1>1, <1>2, <1>3, <1>4

-----------------------------------------------------------------------------
\* The invariant that carries the four result properties through every step
\* of the host, the controller and the card.
THEOREM ResultsCorrect == Spec => []IInv
<1>1. Init /\ TypeOK => IInv
  BY DEF Init, IInv, Connected, Returned,
     SuccessMeansFinished, NoFalseError, DataNeedsResponse, BadDataOnlyMasked
<1>2. IInv /\ TypeOK' /\ [Next]_vars => IInv'
  <2> SUFFICES ASSUME IInv, TypeOK', [Next]_vars
               PROVE  IInv'
    OBVIOUS
  <2> USE DEF IInv
  <2>1. ASSUME NEW k \in Kinds, Submit(k)
        PROVE  IInv'
    BY <2>1 DEF Submit, Connected, Returned, ctlVars, SuccessMeansFinished,
       NoFalseError, DataNeedsResponse, BadDataOnlyMasked
  <2>2. CASE WaitIdleBusy
    BY <2>2 DEF WaitIdleBusy, Connected, Returned, ctlVars,
       SuccessMeansFinished, NoFalseError, DataNeedsResponse, BadDataOnlyMasked
  <2>3. CASE WaitIdleStuck
    BY <2>3 DEF WaitIdleStuck, Connected, Returned, ctlVars,
       SuccessMeansFinished, NoFalseError, DataNeedsResponse, BadDataOnlyMasked
  <2>4. CASE StartCommand
    BY <2>4 DEF StartCommand, Issue, Connected, Returned,
       SuccessMeansFinished, NoFalseError, DataNeedsResponse, BadDataOnlyMasked
  <2>5. CASE Poll
    BY <2>5, PollResults
  <2>6. CASE CtlEarlyRE
    BY <2>6 DEF CtlEarlyRE, hostVars, Connected, Returned, TypeOK,
       SuccessMeansFinished, NoFalseError, DataNeedsResponse, BadDataOnlyMasked
  <2>7. ASSUME NEW r \in {"arrived", "crc", "lost"},
               NEW s \in SUBSET {"RE", "RTO"}, CtlResponse(r, s)
        PROVE  IInv'
    <3>1. CASE r = "arrived"
      BY <2>7, <3>1 DEF CtlResponse, hostVars, Connected, Returned, TypeOK,
         SuccessMeansFinished, NoFalseError, DataNeedsResponse, BadDataOnlyMasked
    <3>2. CASE r = "crc"
      BY <2>7, <3>2 DEF CtlResponse, hostVars, Connected, Returned, TypeOK,
         SuccessMeansFinished, NoFalseError, DataNeedsResponse, BadDataOnlyMasked
    <3>3. CASE r = "lost"
      BY <2>7, <3>3 DEF CtlResponse, hostVars, Connected, Returned, TypeOK,
         SuccessMeansFinished, NoFalseError, DataNeedsResponse, BadDataOnlyMasked
    <3>4. QED
      BY <3>1, <3>2, <3>3
  <2>8. CASE CtlReceive
    BY <2>8 DEF CtlReceive, hostVars, Connected, Returned,
       SuccessMeansFinished, NoFalseError, DataNeedsResponse, BadDataOnlyMasked
  <2>9. ASSUME NEW x \in {"good", "bad", "overrun", "stalled"},
               NEW s \in SUBSET {"EBE", "FRUN", "HTO"}, CtlData(x, s)
        PROVE  IInv'
    <3> USE DEF CtlData, hostVars, Connected, Returned, TypeOK,
         SuccessMeansFinished, NoFalseError, DataNeedsResponse, BadDataOnlyMasked
    <3>1. CASE x = "good"
      BY <2>9, <3>1
    <3>2. CASE x = "bad"
      BY <2>9, <3>2
    <3>3. CASE x = "overrun"
      BY <2>9, <3>3
    <3>4. CASE x = "stalled"
      BY <2>9, <3>4
    <3>5. QED
      BY <3>1, <3>2, <3>3, <3>4
  <2>10. ASSUME NEW x \in {"good", "bad"}, CtlOrphan(x)
         PROVE  IInv'
    BY <2>10 DEF CtlOrphan, hostVars, Connected, Returned, TypeOK,
       SuccessMeansFinished, NoFalseError, DataNeedsResponse, BadDataOnlyMasked
  <2>11. CASE CardReady
    BY <2>11 DEF CardReady, hostVars, Connected, Returned,
       SuccessMeansFinished, NoFalseError, DataNeedsResponse, BadDataOnlyMasked
  <2>12. CASE UNCHANGED vars
    BY <2>12 DEF vars, Connected, Returned,
       SuccessMeansFinished, NoFalseError, DataNeedsResponse, BadDataOnlyMasked
  <2>13. QED
    BY <2>1, <2>2, <2>3, <2>4, <2>5, <2>6, <2>7, <2>8, <2>9, <2>10, <2>11,
       <2>12 DEF Next, Host, Controller
<1>3. QED
  BY <1>1, <1>2, TypeCorrect, PTL DEF Spec

\* A successful SendCommand has finished its command, and its data phase.
THEOREM SuccessIsFinished == Spec => []SuccessMeansFinished
  BY ResultsCorrect, PTL DEF IInv

\* EFI_DEVICE_ERROR is never returned for spurious bits alone.
THEOREM ErrorsAreReal == Spec => []NoFalseError
  BY ResultsCorrect, PTL DEF IInv

\* A data command that succeeds was answered by the card.
THEOREM DataIsAnswered == Spec => []DataNeedsResponse
  BY ResultsCorrect, PTL DEF IInv

\* A CRC error of the data is lost only behind a forgiven bit.
THEOREM BadDataIsReported == Spec => []BadDataOnlyMasked
  BY ResultsCorrect, PTL DEF IInv
-----------------------------------------------------------------------------
\* The states of a command as its callers see them, one by one.
LEMMA SeenAs ==
  ASSUME TypeOK
  PROVE  /\ Stage = "idle" <=> pc = "idle"
         /\ Stage = "asked" <=> pc = "waitIdle"
         /\ Stage = "sent" <=> pc = "poll"
         /\ AnswerSeen = "due" <=> Seen /\ resp = "pending"
         /\ AnswerSeen = "good" <=> Seen /\ resp = "arrived"
         /\ AnswerSeen = "corrupt" <=> Seen /\ resp = "crc"
         /\ AnswerSeen = "lost" <=> Seen /\ resp = "lost"
         /\ BlockSeen = "due" <=> Seen /\ xfer = "pending"
         /\ BlockSeen = "good" <=> Seen /\ xfer = "good"
         /\ BlockSeen = "damaged" <=> Seen /\ xfer \in {"bad", "overrun"}
         /\ BlockSeen = "stalled" <=> Seen /\ xfer = "stalled"
<1>1. /\ pc \in {"idle", "waitIdle", "poll"}
      /\ resp \in {"none", "pending", "arrived", "crc", "lost"}
      /\ xfer \in {"none", "pending", "good", "bad", "overrun", "stalled"}
  BY DEF TypeOK
<1> QED
  BY <1>1 DEF Stage, AnswerSeen, BlockSeen

\* A poll that returns keeps the promise.
LEMMA ReturnKeepsPromise ==
  ASSUME IInv, Poll, NEW s \in Command!Results, pc' = "idle", status' = s
  PROVE  Command!Return(s)
<1>1. UNCHANGED <<kind, resp, xfer, orphan, mixed>> /\ pc = "poll"
  BY DEF Poll
<1>2. /\ SuccessMeansFinished' /\ NoFalseError' /\ DataNeedsResponse'
      /\ TypeOK /\ Connected
  BY PollResults DEF IInv
<1>3. ASSUME Seen
      PROVE  Command!Justified(s)
  <2>1. CASE s = "SUCCESS"
    <3>1. /\ resp \in {"arrived", "crc", "lost"}
          /\ kind = "data" => xfer \in {"good", "bad", "overrun"}
                              /\ resp # "lost"
      BY <1>1, <1>2, <1>3, <2>1
         DEF Seen, Returned, SuccessMeansFinished, DataNeedsResponse
    <3> QED
      BY <1>2, <1>3, <2>1, <3>1, SeenAs DEF Command!Justified
  <2>2. CASE s = "DEVICE_ERROR"
    <3>1. resp \in {"crc", "lost"} \/ xfer \in {"bad", "overrun", "stalled"}
      BY <1>1, <1>2, <1>3, <2>2 DEF Seen, Returned, NoFalseError
    <3> QED
      BY <1>2, <1>3, <2>2, <3>1, SeenAs DEF Command!Justified
  <2>3. CASE s = "TIMEOUT"
    BY <2>3 DEF Command!Justified
  <2> QED
    BY <2>1, <2>2, <2>3 DEF Command!Results
<1>4. Seen => (Left' <=> Left \/ Command!Unfinished)
  BY <1>1, <1>2, SeenAs DEF Command!Unfinished, Left
<1>5. /\ Stage = "sent" /\ Stage' = "idle"
      /\ AnswerSeen' = "none" /\ BlockSeen' = "none"
  BY <1>1 DEF Stage, AnswerSeen, BlockSeen, Seen
<1>6. Left => Left'
  BY <1>1 DEF Left
<1> QED
  BY <1>1, <1>3, <1>4, <1>5, <1>6 DEF Command!Return, Left, Seen

\* What StartCommand sends, or is refused, by what the controller holds.
LEMMA StartKeepsPromise ==
  ASSUME TypeOK, StartCommand
  PROVE  Command!Send \/ Command!SendRefused
<1>1. pc = "waitIdle" /\ pc' = "poll" /\ status' = "none" /\ kind' = kind
  BY DEF StartCommand, Issue
<1>2. Stage = "asked" /\ Stage' = "sent"
  BY <1>1 DEF Stage
<1>3. AnswerSeen = "none" /\ BlockSeen = "none"
  BY <1>1 DEF AnswerSeen, BlockSeen, Seen
<1>4. CASE resp = "pending"
  <2>1. mixed' /\ Left
    BY <1>1, <1>4 DEF StartCommand, Issue, Left
  <2>2. AnswerSeen' = "none" /\ BlockSeen' = "none"
    BY <2>1 DEF AnswerSeen, BlockSeen, Seen
  <2> QED
    BY <1>1, <1>2, <1>3, <2>1, <2>2 DEF Command!SendRefused, Left
<1>5. CASE resp # "pending"
  <2>1. /\ ~mixed' /\ resp' = "pending"
        /\ xfer' = IF kind = "data" THEN "pending" ELSE "none"
        /\ orphan' <=> orphan \/ (xfer = "pending" /\ resp # "lost")
    BY <1>5 DEF StartCommand, Issue
  <2>2. AnswerSeen' = "due"
        /\ BlockSeen' = IF kind = "data" THEN "due" ELSE "none"
    BY <1>1, <2>1 DEF AnswerSeen, BlockSeen, Seen
  <2>3. Left' <=> Left
    BY <1>1, <1>5, <2>1 DEF Left
  <2> QED
    BY <1>1, <1>2, <2>1, <2>2, <2>3 DEF Command!Send, Left
<1> QED
  BY <1>4, <1>5

\* What the controller and the card do is an answer, a block, an end of what
\* was left over, or not seen at all.
LEMMA ControllerKeepsPromise ==
  ASSUME TypeOK, TypeOK', Connected, Controller
  PROVE  Command!Next \/ UNCHANGED Command!vars
<1>1. UNCHANGED hostVars
  BY DEF Controller, CtlEarlyRE, CtlResponse, CtlReceive, CtlData, CtlOrphan,
         CardReady
<1>2. UNCHANGED <<pc, kind, status, Stage>>
  BY <1>1 DEF hostVars, Stage
<1>3. CASE UNCHANGED <<resp, xfer, orphan, mixed>>
  <2>1. UNCHANGED <<AnswerSeen, BlockSeen>> /\ (Left' <=> Left)
    BY <1>2, <1>3 DEF AnswerSeen, BlockSeen, Seen, Left
  <2> QED
    BY <1>2, <1>3, <2>1 DEF Command!vars, Left
<1>4. ASSUME NEW r \in {"arrived", "crc", "lost"},
             NEW s \in SUBSET {"RE", "RTO"}, CtlResponse(r, s)
      PROVE  Command!Next \/ UNCHANGED Command!vars
  <2>1. resp = "pending" /\ resp' = r /\ UNCHANGED <<xfer, orphan, mixed>>
    BY <1>4 DEF CtlResponse
  <2>2. CASE Seen
    <3>1. AnswerSeen = "due" /\ AnswerSeen' \in {"good", "corrupt", "lost"}
          /\ BlockSeen' = BlockSeen /\ (Left' <=> Left)
      BY <1>2, <2>1, <2>2 DEF AnswerSeen, BlockSeen, Seen, Left
    <3>2. Command!Answer(AnswerSeen')
      BY <1>2, <2>1, <3>1 DEF Command!Answer, Left
    <3> QED
      BY <3>1, <3>2 DEF Command!Next
  <2>3. CASE ~Seen
    <3>1. UNCHANGED <<AnswerSeen, BlockSeen>>
      BY <1>2, <2>1, <2>3 DEF AnswerSeen, BlockSeen, Seen
    <3>2. CASE Left' <=> Left
      BY <1>2, <2>1, <3>1, <3>2 DEF Command!vars, Left
    <3>3. CASE Left /\ ~Left'
      <4>1. pc # "poll"
        BY <1>2, <2>1, <3>3 DEF Left
      <4>2. Stage # "sent"
        BY <4>1, SeenAs
      <4>3. Command!Settle
        BY <1>2, <2>1, <3>1, <3>3, <4>2 DEF Command!Settle, Left
      <4> QED
        BY <4>3 DEF Command!Next
    <3>4. Left' => Left
      BY <1>2, <2>1 DEF Left
    <3> QED
      BY <3>2, <3>3, <3>4
  <2> QED
    BY <2>2, <2>3
<1>5. ASSUME NEW x \in {"good", "bad", "overrun", "stalled"},
             NEW s \in SUBSET {"EBE", "FRUN", "HTO"}, CtlData(x, s)
      PROVE  Command!Next \/ UNCHANGED Command!vars
  <2>1. /\ xfer = "pending" /\ xfer' = x /\ resp \in {"arrived", "crc"}
        /\ UNCHANGED <<resp, orphan, mixed>>
    BY <1>5 DEF CtlData
  <2>2. CASE Seen
    <3>1. /\ BlockSeen = "due" /\ BlockSeen' \in {"good", "damaged", "stalled"}
          /\ AnswerSeen' = AnswerSeen /\ AnswerSeen \in {"good", "corrupt"}
          /\ Left' <=> Left
      BY <1>2, <2>1, <2>2 DEF AnswerSeen, BlockSeen, Seen, Left
    <3>2. Command!Block(BlockSeen')
      BY <1>2, <2>1, <3>1 DEF Command!Block, Left
    <3> QED
      BY <3>1, <3>2 DEF Command!Next
  <2>3. CASE ~Seen
    <3>1. UNCHANGED <<AnswerSeen, BlockSeen>>
      BY <1>2, <2>1, <2>3 DEF AnswerSeen, BlockSeen, Seen
    <3>2. CASE Left' <=> Left
      BY <1>2, <2>1, <3>1, <3>2 DEF Command!vars, Left
    <3>3. CASE Left /\ ~Left'
      <4>1. pc # "poll"
        BY <1>2, <2>1, <3>3 DEF Left
      <4>2. Stage # "sent"
        BY <4>1, SeenAs
      <4>3. Command!Settle
        BY <1>2, <2>1, <3>1, <3>3, <4>2 DEF Command!Settle, Left
      <4> QED
        BY <4>3 DEF Command!Next
    <3>4. Left' => Left
      BY <1>2, <2>1 DEF Left
    <3> QED
      BY <3>2, <3>3, <3>4
  <2> QED
    BY <2>2, <2>3
<1>6. ASSUME NEW x \in {"good", "bad"}, CtlOrphan(x)
      PROVE  Command!Next \/ UNCHANGED Command!vars
  <2>1. /\ orphan /\ ~orphan' /\ UNCHANGED <<resp, xfer>>
        /\ mixed' <=> mixed \/ pc = "poll"
    BY <1>6 DEF CtlOrphan
  <2>2. Left
    BY <2>1 DEF Left
  <2>3. CASE pc = "poll"
    <3>1. /\ ~Seen' /\ ~Left'
          /\ AnswerSeen' = "none" /\ BlockSeen' = "none" /\ Stage = "sent"
      BY <1>2, <2>1, <2>3 DEF Seen, Left, AnswerSeen, BlockSeen, Stage
    <3>2. Command!Meddle
      BY <1>2, <2>1, <2>2, <2>3, <3>1 DEF Command!Meddle, Seen, Left
    <3> QED
      BY <3>2 DEF Command!Next
  <2>4. CASE pc # "poll"
    <3>1. UNCHANGED <<AnswerSeen, BlockSeen>> /\ Stage # "sent"
      BY <1>2, <2>1, <2>4, SeenAs DEF AnswerSeen, BlockSeen, Seen
    <3>2. CASE Left'
      BY <1>2, <2>1, <2>2, <2>4, <3>1, <3>2 DEF Command!vars, Left
    <3>3. CASE ~Left'
      <4>1. Command!Settle
        BY <1>2, <2>1, <2>2, <2>4, <3>1, <3>3 DEF Command!Settle, Left
      <4> QED
        BY <4>1 DEF Command!Next
    <3> QED
      BY <3>2, <3>3
  <2> QED
    BY <2>3, <2>4
<1>7. CASE CtlEarlyRE \/ CtlReceive \/ CardReady
  BY <1>3, <1>7 DEF CtlEarlyRE, CtlReceive, CardReady
<1> QED
  BY <1>4, <1>5, <1>6, <1>7 DEF Controller

\* The steps of the host before and between the results.
LEMMA HostKeepsPromise ==
  ASSUME IInv, TypeOK', Host \/ (\E k \in Kinds : Submit(k))
  PROVE  Command!Next \/ UNCHANGED Command!vars
<1>1. TypeOK
  BY DEF IInv
<1>2. ASSUME UNCHANGED <<resp, xfer, orphan, mixed, pc, kind, status>>
      PROVE  UNCHANGED Command!vars
  BY <1>2 DEF Command!vars, Stage, AnswerSeen, BlockSeen, Seen, Left
<1>3. ASSUME NEW k \in Kinds, Submit(k)
      PROVE  Command!Next
  <2>1. /\ pc = "idle" /\ pc' = "waitIdle" /\ kind' = k
        /\ UNCHANGED <<resp, xfer, orphan, mixed, status>>
    BY <1>3 DEF Submit, ctlVars
  <2>2. /\ Stage = "idle" /\ Stage' = "asked"
        /\ UNCHANGED <<AnswerSeen, BlockSeen>> /\ (Left' <=> Left)
    BY <2>1 DEF Stage, AnswerSeen, BlockSeen, Seen, Left
  <2>3. Command!Ask(k = "data")
    BY <2>1, <2>2 DEF Command!Ask, Left
  <2> QED
    BY <2>3 DEF Command!Next
<1>4. CASE WaitIdleBusy \/ WaitIdleStuck
  BY <1>2, <1>4 DEF WaitIdleBusy, WaitIdleStuck, ctlVars
<1>5. CASE StartCommand
  BY <1>1, <1>5, StartKeepsPromise DEF Command!Next
<1>6. CASE Poll
  <2>1. CASE pc' = "idle"
    <3>1. status' \in Command!Results
      BY <1>6, <2>1 DEF Poll, PollExhausted, PollClean, PollForgive, PollFail,
                        Return, Command!Results
    <3> QED
      BY <1>6, <2>1, <3>1, ReturnKeepsPromise DEF Command!Next
  <2>2. CASE pc' # "idle"
    BY <1>2, <1>6, <2>2 DEF Poll, PollExhausted, PollClean, PollForgive,
                            PollFail, Return
  <2> QED
    BY <2>1, <2>2
<1> QED
  BY <1>3, <1>4, <1>5, <1>6 DEF Host

\* SendCommand keeps its promise, step by step: the invariant of the results,
\* through every interleaving of host, controller and card.
THEOREM KeepsPromise == Spec => ImplementsHostCommand
<1>1. Init => Command!Init
  BY DEF Init, Command!Init, Stage, AnswerSeen, BlockSeen, Seen, Left
<1>2. IInv /\ TypeOK' /\ [Next]_vars => [Command!Next]_(Command!vars)
  <2> SUFFICES ASSUME IInv, TypeOK', [Next]_vars
               PROVE  Command!Next \/ UNCHANGED Command!vars
    OBVIOUS
  <2>1. CASE UNCHANGED vars
    BY <2>1 DEF vars, Command!vars, Stage, AnswerSeen, BlockSeen, Seen, Left
  <2>2. CASE Controller
    BY <2>2, ControllerKeepsPromise DEF IInv
  <2>3. CASE Host \/ \E k \in Kinds : Submit(k)
    BY <2>3, HostKeepsPromise
  <2> QED
    BY <2>1, <2>2, <2>3 DEF Next
<1> QED
  BY <1>1, <1>2, ResultsCorrect, TypeCorrect, PTL
     DEF Spec, ImplementsHostCommand, Command!Spec
=============================================================================
