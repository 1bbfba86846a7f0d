---------------------------- MODULE Px30Command ----------------------------
(***************************************************************************)
(* One command on the PX30 DesignWare eMMC controller: SendCommand of      *)
(* Px30EmmcDxe.c, run against the controller and the card.                 *)
(*                                                                         *)
(* The host is a single thread that busy-waits; everything concurrent is   *)
(* in the hardware, which raises bits of RINTSTS in its own time.  The     *)
(* host waits for an idle data path, clears RINTSTS, writes CMD, and polls *)
(* RINTSTS, forgiving the error bits the v2.70a controller is known to     *)
(* raise without cause.  What can go wrong is a forgiven bit that hides a  *)
(* real fault, a spurious bit reported as a fault, and the data phase of   *)
(* an abandoned command that ends while a later command is polled for.     *)
(***************************************************************************)
EXTENDS Naturals

CONSTANTS
  MaxPolls,  \* polls of RINTSTS before EFI_TIMEOUT (5000 in the code)
  MaxIdle    \* polls of a stuck DAT_FSM before the FIFO is reset (10)

ASSUME BoundsAssumption == MaxPolls \in Nat \ {0} /\ MaxIdle \in Nat

VARIABLES
  pc,         \* where the host is in SendCommand
  kind,       \* the command being sent, by the flags that matter to the loop
  polls,      \* PollCount
  idleTries,  \* IdleRetries
  sample,     \* Data: the last value of RINTSTS the host read
  status,     \* the EFI_STATUS last returned
  rint,       \* RINTSTS of the controller: a set of raised bits
  resp,       \* response phase of the command the controller executes
  xfer,       \* data phase of that command
  orphan,     \* a data phase of an abandoned command is still running
  mixed,      \* ghost: the poll saw events of an abandoned command
  fsm,        \* DAT_FSM: "quiet" (IDLE or WAIT) or "active" (RECEIVE, BUSY)
  busy        \* DATA_BUSY: the card holds DAT0 low

hostVars == <<pc, kind, polls, idleTries, sample, status>>
ctlVars  == <<rint, resp, xfer, orphan, mixed, fsm, busy>>
vars     == <<pc, kind, polls, idleTries, sample, status,
              rint, resp, xfer, orphan, mixed, fsm, busy>>

(***************************************************************************)
(* The RINTSTS bits.  CD is CMD_DONE.                                      *)
(***************************************************************************)
Bits == {"CD", "DTO", "RE", "RCRC", "RTO", "DCRC", "DRT", "HTO", "FRUN",
         "HLE", "SBE", "EBE"}

ErrMaskNoDcrc == {"EBE", "HLE", "RTO", "RCRC", "RE", "DRT", "SBE", "HTO"}

ErrMask == {"EBE", "HLE", "RTO", "RCRC", "RE", "DCRC", "DRT", "SBE", "HTO"}

\* "data": DATA_EXPECTED; "plain": no data, waits for previous data;
\* "stop": CMD0 and CMD12, sent at once (no WAIT_PRVDATA_COMPLETE).
Kinds == {"data", "plain", "stop"}

(***************************************************************************)
(* The error bits an iteration forgives, in the order the code tests them. *)
(* Only the first that applies is cleared.                                 *)
(***************************************************************************)
Quirks == {"RE", "EBE", "RTO", "FRUN", "HTO"}

Rank == [b \in Quirks |-> CASE b = "RE" -> 1 [] b = "EBE" -> 2 [] b = "RTO" -> 3
                            [] b = "FRUN" -> 4 [] b = "HTO" -> 5]

AppliesAfterCmdDone(b, d, k) ==  \* an early RE is not forgiven
  /\ {b, "CD"} \subseteq d
  /\ b \in {"RE", "RTO"} \/ k = "data"

Applies(b, d, k) ==
  /\ b \in d
  /\ b = "RE" \/ "CD" \in d
  /\ b \in {"RE", "RTO"} \/ k = "data"

Forgiven(b, d, k) ==
  /\ Applies(b, d, k)
  /\ \A c \in Quirks : Applies(c, d, k) => Rank[b] <= Rank[c]

\* "goto LogResponse": without a data phase CMD_DONE ends the command.
Captured(b, d, k) == "CD" \in d /\ k # "data"

LoopAgainWithoutDto(d, k) == "CD" \notin d  \* DTO is not waited for

\* The condition of the do-while; `continue` evaluates it on the Data
\* that was read before the bit was cleared.
LoopAgain(d, k) ==
  \/ "CD" \notin d
  \/ k = "data" /\ "DTO" \notin d

(***************************************************************************)
(* Host.                                                                   *)
(***************************************************************************)
Submit(k) ==
  /\ pc = "idle"
  /\ pc' = "waitIdle"
  /\ kind' = k
  /\ idleTries' = 0
  /\ UNCHANGED <<polls, sample, status, ctlVars>>

IssueWithoutClear ==  \* RINTSTS keeps what the last command left
  /\ pc' = "poll"
  /\ polls' = 0
  /\ sample' = {}
  /\ status' = "none"
  /\ UNCHANGED <<kind, fsm, busy>>
  /\ rint' = rint
  /\ mixed' = FALSE
  /\ resp' = "pending"
  /\ orphan' = (orphan \/ (xfer = "pending" /\ resp # "lost"))
  /\ xfer' = IF kind = "data" THEN "pending" ELSE "none"

\* RINTSTS cleared, CMDARG and CMD written.  A controller that still holds
\* an unanswered command refuses the new one with HLE.
Issue ==
  /\ pc' = "poll"
  /\ polls' = 0
  /\ sample' = {}
  /\ status' = "none"
  /\ UNCHANGED <<kind, fsm, busy>>
  /\ \/ /\ resp = "pending"
        /\ rint' = {"HLE"}
        /\ mixed' = TRUE
        /\ UNCHANGED <<resp, xfer, orphan>>
     \/ /\ resp # "pending"
        /\ rint' = {}
        /\ mixed' = FALSE
        /\ resp' = "pending"
        /\ orphan' = (orphan \/ (xfer = "pending" /\ resp # "lost"))
        /\ xfer' = IF kind = "data" THEN "pending" ELSE "none"

WaitIdleBusy ==
  /\ pc = "waitIdle"
  /\ busy
  /\ idleTries' = 0
  /\ UNCHANGED <<pc, kind, polls, sample, status, ctlVars>>

WaitIdleStuck ==
  /\ pc = "waitIdle"
  /\ ~busy
  /\ fsm = "active"
  /\ idleTries < MaxIdle
  /\ idleTries' = idleTries + 1
  /\ UNCHANGED <<pc, kind, polls, sample, status, ctlVars>>

StartWhenQuiet ==  \* no FIFO reset, no way out
  /\ pc = "waitIdle"
  /\ ~busy
  /\ fsm = "quiet"
  /\ UNCHANGED idleTries
  /\ Issue

\* The FSM is quiet, or the retries ran out and FIFO_RESET was written
\* (without waiting for it to complete).
StartCommand ==
  /\ pc = "waitIdle"
  /\ ~busy
  /\ fsm = "quiet" \/ idleTries = MaxIdle
  /\ idleTries' = IF fsm = "quiet" THEN idleTries ELSE idleTries + 1
  /\ Issue

Return(s) == pc' = "idle" /\ status' = s

\* One iteration of the poll loop: read RINTSTS, decide, clear at most one
\* bit.  PollCount is tested before the bits are looked at.
PollExhausted ==
  /\ polls + 1 >= MaxPolls
  /\ Return("TIMEOUT")
  /\ UNCHANGED rint

PollClean ==
  /\ rint \cap ErrMask = {}
  /\ UNCHANGED rint
  /\ IF "DTO" \in rint \/ ~LoopAgain(rint, kind)
       THEN Return("SUCCESS")
       ELSE UNCHANGED <<pc, status>>

PollForgive(b) ==
  /\ rint \cap ErrMask # {}
  /\ Forgiven(b, rint, kind)
  /\ rint' = IF b = "RE" /\ Captured(b, rint, kind) THEN rint ELSE rint \ {b}
  /\ IF Captured(b, rint, kind) \/ ~LoopAgain(rint, kind)
       THEN Return("SUCCESS")
       ELSE UNCHANGED <<pc, status>>

PollFail ==
  /\ rint \cap ErrMask # {}
  /\ \A b \in Quirks : ~Applies(b, rint, kind)
  /\ Return("DEVICE_ERROR")
  /\ UNCHANGED rint

Poll ==
  /\ pc = "poll"
  /\ polls' = polls + 1
  /\ sample' = rint
  /\ \/ PollExhausted
     \/ /\ polls + 1 < MaxPolls
        /\ \/ PollClean
           \/ \E b \in Quirks : PollForgive(b)
           \/ PollFail
  /\ UNCHANGED <<kind, idleTries, resp, xfer, orphan, mixed, fsm, busy>>

(***************************************************************************)
(* Controller and card, as the driver's comments and the debug log         *)
(* describe them.  Spurious bits come with CMD_DONE, except an early RE.   *)
(***************************************************************************)
CtlEarlyRE ==
  /\ resp = "pending"
  /\ rint' = rint \cup {"RE"}
  /\ UNCHANGED <<hostVars, resp, xfer, orphan, mixed, fsm, busy>>

\* A command with WAIT_PRVDATA_COMPLETE is held until the data path is free.
CtlResponse(r, spurious) ==
  /\ resp = "pending"
  /\ kind = "stop" \/ ~orphan
  /\ resp' = r
  /\ rint' = rint \cup {"CD"} \cup spurious \cup
             (CASE r = "arrived" -> {}
                [] r = "crc"     -> {"RCRC"}
                [] r = "lost"    -> {"RTO"})
  /\ UNCHANGED <<hostVars, xfer, orphan, mixed, fsm, busy>>

CtlReceive ==
  /\ xfer = "pending" \/ orphan
  /\ fsm' = "active"
  /\ UNCHANGED <<hostVars, rint, resp, xfer, orphan, mixed, busy>>

\* The data phase ends.  DAT_FSM may stay active, and a card that was
\* written to may pull DAT0 low.
CtlData(x, spurious) ==
  /\ xfer = "pending"
  /\ resp \in {"arrived", "crc"}
  /\ xfer' = x
  /\ rint' = rint \cup spurious \cup
             (CASE x = "good"    -> {"DTO"}
                [] x = "bad"     -> {"DCRC", "DTO"}
                [] x = "overrun" -> {"FRUN", "DTO"}
                [] x = "stalled" -> {"HTO", "DRT"})
  /\ fsm' \in {"quiet", "active"}
  /\ busy' \in {busy, x = "good"}
  /\ UNCHANGED <<hostVars, resp, orphan, mixed>>

\* The data phase of an abandoned command ends, well or badly.
CtlOrphan(x) ==
  /\ orphan
  /\ orphan' = FALSE
  /\ rint' = rint \cup (IF x = "good" THEN {"DTO"} ELSE {"DCRC", "DTO"})
  /\ mixed' = (mixed \/ pc = "poll")
  /\ fsm' \in {"quiet", "active"}
  /\ UNCHANGED <<hostVars, resp, xfer, busy>>

CardReady ==
  /\ busy
  /\ busy' = FALSE
  /\ UNCHANGED <<hostVars, rint, resp, xfer, orphan, mixed, fsm>>

Init ==
  /\ pc = "idle" /\ kind = "stop" /\ polls = 0 /\ idleTries = 0
  /\ sample = {} /\ status = "none"
  /\ rint = {} /\ resp = "none" /\ xfer = "none"
  /\ orphan = FALSE /\ mixed = FALSE /\ fsm = "quiet" /\ busy = FALSE

Host == WaitIdleBusy \/ WaitIdleStuck \/ StartCommand \/ Poll

Controller ==
  \/ CtlEarlyRE
  \/ \E r \in {"arrived", "crc", "lost"}, s \in SUBSET {"RE", "RTO"} :
       CtlResponse(r, s)
  \/ CtlReceive
  \/ \E x \in {"good", "bad", "overrun", "stalled"},
        s \in SUBSET {"EBE", "FRUN", "HTO"} : CtlData(x, s)
  \/ \E x \in {"good", "bad"} : CtlOrphan(x)
  \/ CardReady

Next == (\E k \in Kinds : Submit(k)) \/ Host \/ Controller

Spec == Init /\ [][Next]_vars

(***************************************************************************)
(* The firmware thread keeps polling, and a card stops holding DAT0 low    *)
(* some time after it was written.  Nothing is assumed of the controller:  *)
(* it may never answer.                                                    *)
(***************************************************************************)
FairSpec == Spec /\ WF_vars(Host) /\ WF_vars(CardReady)

(***************************************************************************)
(* Properties.                                                             *)
(***************************************************************************)
\* The type of every variable; PollCount stays below its limit while polling.
TypeOK ==
  /\ pc \in {"idle", "waitIdle", "poll"}
  /\ kind \in Kinds
  /\ polls \in 0..MaxPolls
  /\ pc = "poll" => polls < MaxPolls
  /\ idleTries \in 0..(MaxIdle + 1)
  /\ sample \in SUBSET Bits
  /\ status \in {"none", "SUCCESS", "TIMEOUT", "DEVICE_ERROR"}
  /\ rint \in SUBSET Bits
  /\ resp \in {"none", "pending", "arrived", "crc", "lost"}
  /\ xfer \in {"none", "pending", "good", "bad", "overrun", "stalled"}
  /\ orphan \in BOOLEAN
  /\ mixed \in BOOLEAN
  /\ fsm \in {"quiet", "active"}
  /\ busy \in BOOLEAN

Returned(s) == pc = "idle" /\ status = s

\* SendCommand (636-772): a command that returns success without meddling
\* from an abandoned one has finished: the controller reported CMD_DONE,
\* and DTO as well when the command has a data phase, however many error
\* bits were forgiven on the way.
SuccessMeansFinished ==
  Returned("SUCCESS") /\ ~mixed =>
    /\ resp \in {"arrived", "crc", "lost"}
    /\ kind = "data" => xfer \in {"good", "bad", "overrun"}

\* The quirk branches (648-755) exist so that a sound transfer is never
\* reported as failed: EFI_DEVICE_ERROR is returned only if the response
\* or the data really went wrong, or an abandoned command interfered.
NoFalseError ==
  Returned("DEVICE_ERROR") /\ ~mixed =>
    resp \in {"crc", "lost"} \/ xfer \in {"bad", "overrun", "stalled"}

\* Data commands never succeed without the card's answer: a lost response
\* leaves no DTO to wait for, although RTO itself is forgiven.
DataNeedsResponse ==
  Returned("SUCCESS") /\ kind = "data" /\ ~mixed => resp # "lost"

\* A block that failed its CRC (DCRC, not forgiven) is reported, unless a
\* forgiven bit stood in the same sample: `continue` then leaves the loop
\* with CMD_DONE and DTO set before DCRC is looked at (648-773).
BadDataOnlyMasked ==
  Returned("SUCCESS") /\ kind = "data" /\ ~mixed /\ xfer = "bad" =>
    sample \cap Quirks # {}

\* Every command that is submitted returns: the poll count ends the second
\* loop, and the first ends because cards leave the busy state.
CommandReturns == (pc # "idle") ~> (pc = "idle")

-----------------------------------------------------------------------------
(***************************************************************************)
(* The promise to the callers.  Answer and block are those of the command  *)
(* that is polled for, unless an abandoned one has meddled.                *)
(***************************************************************************)
Seen == pc = "poll" /\ ~mixed

Stage == [idle |-> "idle", waitIdle |-> "asked", poll |-> "sent"][pc]

AnswerSeen ==
  IF ~Seen THEN "none"
  ELSE [none |-> "none", pending |-> "due", arrived |-> "good",
        crc |-> "corrupt", lost |-> "lost"][resp]

BlockSeen ==
  IF ~Seen THEN "none"
  ELSE [none |-> "none", pending |-> "due", good |-> "good", bad |-> "damaged",
        overrun |-> "damaged", stalled |-> "stalled"][xfer]

Left ==
  \/ orphan
  \/ /\ pc # "poll"
     /\ resp = "pending" \/ (xfer = "pending" /\ resp # "lost")

Command == INSTANCE HostCommand WITH
  stage <- Stage, data <- (kind = "data"), answer <- AnswerSeen,
  block <- BlockSeen, left <- Left, own <- (pc = "poll" => ~mixed),
  result <- status

\* SendCommand (571-772), with everything the controller does in its own time,
\* keeps the promise: results are justified, however many error bits were
\* forgiven; what a command leaves behind was given up by it, with an error
\* or a timeout; and nothing else can disturb a later one.
ImplementsHostCommand == Command!Spec
=============================================================================
