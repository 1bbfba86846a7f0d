--------------------------- MODULE DwMmcTransfer ---------------------------
(***************************************************************************)
(* The data of one synchronous command of DwMmcHcDxe: from DwMmcCreateTrb  *)
(* to the status DwMmcWaitTrbResult gives back, beside the controller and  *)
(* the card, which take steps of their own and need not take any.          *)
(*                                                                         *)
(* A card of type SdCardType moves its data through the FIFO, by hand      *)
(* (TransferFifo); EmmcCardType by the internal DMA engine, over a table   *)
(* of descriptors.  A tuning command is in neither: it is created as PIO   *)
(* and no code moves its data.                                             *)
(*                                                                         *)
(* Data are words: word i of the card's (or the buffer's) data is i, a     *)
(* word byte-swapped is -i, 0 is the zeroed buffer, Stale a word another   *)
(* command left in the FIFO.  Lengths are in words; the marks are FIFOTH's *)
(* reset values, which the driver never writes.                            *)
(***************************************************************************)
EXTENDS Integers, Sequences

CONSTANTS
  Lens,        \* Trb->DataLen
  BlockWords,  \* DW_MMC_BLOCK_SIZE
  BufWords,    \* DWMMC_DMA_BUF_SIZE
  Depth,       \* words the FIFO holds
  RxMark,      \* RXDR: more than this many words in the FIFO
  TxMark,      \* TXDR: at most this many
  MaxPolls,    \* the Timeout of DwSdExecTrb's loop
  MaxWait,     \* DW_MMC_HC_GENERIC_TIMEOUT in TransferFifo
  Timeouts     \* Packet->Timeout; 0 waits for ever

ASSUME SizesAssumption ==
  /\ Lens \subseteq Nat /\ Timeouts \subseteq Nat
  /\ BlockWords \in Nat \ {0} /\ BufWords \in Nat \ {0}
  /\ Depth \in Nat \ {0}
  /\ RxMark \in 0..Depth - 1 /\ TxMark \in 0..Depth - 1
  /\ MaxPolls \in Nat \ {0, 1} /\ MaxWait \in Nat \ {0, 1}

VARIABLES
  pc,        \* where the driver is
  cmd,       \* the command, and what DwMmcCreateTrb makes of it
  received,  \* Received: words TransferFifo has moved
  intsts,    \* the last value of RINTSTS whose error bits were looked at
  polls,     \* Timeout of DwSdExecTrb
  wait,      \* Timeout of TransferFifo
  left,      \* Timeout of DwMmcWaitTrbResult
  status,
  mem,       \* Trb->Data
  busy,      \* DATA_BUSY
  rint,      \* RINTSTS
  fifo,
  sent,      \* words the card's side of the FIFO has moved
  judged,    \* how many of these had their CRC checked
  media,     \* the words a write brought to the card
  dma,       \* the IDMAC: descriptor, position in it, IDSTS shows RI or TI
  bad,       \* ghost: words moved at the first failed CRC, 0 for none
  excuse     \* ghost: the FIFO held words of another command at CMD

hostVars == <<received, intsts, polls, wait, left, status>>
ctrlVars == <<busy, rint, fifo, sent, judged, media, dma, bad>>
vars == <<pc, cmd, received, intsts, polls, wait, left, status, mem,
          busy, rint, fifo, sent, judged, media, dma, bad, excuse>>

Least(a, b) == IF a < b THEN a ELSE b
Stale == -1000

\* RINTSTS.  RESP_ERR: RTO, RCRC, RE.  DATA_ERR: DCRC, DRT, EBE, SBE, HLE.
\* STARVED: HTO, FRUN.
Flags == {"CMD_DONE", "RESP_ERR", "DATA_ERR", "STARVED", "RXDR", "TXDR",
          "DTO", "ACD"}
ExecErr == {"RESP_ERR", "DATA_ERR"}     \* ErrMask of the ExecTrb functions
DataErr == {"DATA_ERR", "STARVED"}      \* DW_MMC_INT_DATA_ERR

\* SEND_SCR is a read of an SD card; its data are big endian.
Commands ==
  {c \in [sd : BOOLEAN, tuning : BOOLEAN, read : BOOLEAN, len : Lens,
          be : BOOLEAN, timeout : Timeouts] :
     /\ c.be => c.sd /\ c.read /\ ~c.tuning /\ c.len > 0
     /\ c.tuning => c.read /\ c.len > 0
     /\ c.len = 0 => c.read}

UseFifo == cmd.sd /\ ~cmd.tuning
UseDma == ~cmd.sd /\ ~cmd.tuning /\ cmd.len > 0

(***************************************************************************)
(* BuildDmaDescTable.  BYTCNT is rounded up to blocks.                     *)
(***************************************************************************)
Blocks(len) == (len + BlockWords - 1) \div BlockWords
Bytcnt(len) == IF len < BlockWords THEN len ELSE BlockWords * Blocks(len)
Entries(len) == (len + BufWords - 1) \div BufWords

\* Descriptor i: chained and without interrupt, except the last.
Desc(len, i) ==
  [addr  |-> BufWords * (i - 1),
   words |-> IF i < Entries(len) THEN BufWords
             ELSE Bytcnt(len) - BufWords * (Entries(len) - 1),
   last  |-> i = Entries(len),
   dic   |-> i < Entries(len)]

\* What the controller was told to move: BYTCNT.
Total == IF UseDma THEN Bytcnt(cmd.len) ELSE cmd.len

Idle == [sd |-> TRUE, tuning |-> FALSE, read |-> TRUE, len |-> 0,
         be |-> FALSE, timeout |-> 0]

Init ==
  /\ pc = "create" /\ cmd = Idle
  /\ received = 0 /\ intsts = {} /\ polls = MaxPolls /\ wait = MaxWait
  /\ left = 0 /\ status = "PENDING" /\ mem = <<>>
  /\ busy \in BOOLEAN /\ rint = {}
  /\ fifo \in {<<>>, <<Stale>>}    \* a transfer given up before may leave words
  /\ sent = 0 /\ judged = 0 /\ media = <<>>
  /\ dma = [at |-> 0, pos |-> 0, done |-> FALSE]
  /\ bad = 0 /\ excuse = FALSE

(***************************************************************************)
(* The driver.                                                             *)
(***************************************************************************)
\* DwMmcCreateTrb: a read's buffer is zeroed; with DMA the table is built,
\* IDSTS cleared and the IDMAC started at its first descriptor.
Create(c) ==
  /\ pc = "create"
  /\ cmd' = c
  /\ mem' = [i \in 1..Bytcnt(c.len) |-> IF c.read THEN 0 ELSE i]
  /\ dma' = [at |-> IF ~c.sd /\ ~c.tuning /\ c.len > 0 THEN 1 ELSE 0,
             pos |-> 0, done |-> FALSE]
  /\ pc' = "exec"
  /\ UNCHANGED <<hostVars, busy, rint, fifo, sent, judged, media, bad, excuse>>

\* The head of DwSdExecTrb and DwEmmcExecTrb: wait for DATA_BUSY without a
\* limit, clear RINTSTS, reset the FIFO if it will be used (a reset that
\* times out is only logged), write CMD.
StartNoReset ==  \* the FIFO is not reset
  /\ pc = "exec" /\ ~busy
  /\ rint' = {}
  /\ excuse' = (~UseFifo /\ fifo # <<>>)
  /\ pc' = "poll"
  /\ UNCHANGED <<cmd, hostVars, mem, busy, fifo, sent, judged, media, dma, bad>>

Start ==
  /\ pc = "exec" /\ ~busy
  /\ rint' = {}
  /\ \/ /\ UseFifo /\ cmd.len > 0
        /\ fifo' = <<>> /\ excuse' = FALSE
     \/ fifo' = fifo /\ excuse' = (fifo # <<>>)
  /\ pc' = "poll"
  /\ UNCHANGED <<cmd, hostVars, mem, busy, sent, judged, media, dma, bad>>

Return(s) == pc' = "done" /\ status' = s

\* The status is looked at once the loop has ended, with the last sample.
SdJudge(sample) ==
  IF sample \cap ExecErr # {}
    THEN Return("DEVICE_ERROR")
    ELSE /\ pc' = IF cmd.len > 0 /\ UseFifo THEN "sample" ELSE "result"
         /\ UNCHANGED status

\* DwSdExecTrb polls for CMD_DONE; at --Timeout == 0 it goes on as if it had
\* come.
PollSd ==
  /\ pc = "poll" /\ cmd.sd
  /\ polls' = polls - 1
  /\ \/ /\ polls > 1
        /\ intsts' = rint
        /\ IF "CMD_DONE" \in rint THEN SdJudge(rint) ELSE UNCHANGED <<pc, status>>
     \/ /\ polls = 1
        /\ SdJudge(intsts)
        /\ UNCHANGED intsts
  /\ left' = cmd.timeout
  /\ UNCHANGED <<cmd, received, wait, mem, ctrlVars, excuse>>

\* DwEmmcExecTrb sets its Timeout anew in each turn, so the loop only ends
\* with an error or CMD_DONE; `continue' jumps to that condition too, so data
\* still under way do not keep it.
PollEmmc ==
  /\ pc = "poll" /\ ~cmd.sd
  /\ intsts' = rint
  /\ \/ rint \cap ExecErr # {} /\ Return("DEVICE_ERROR")
     \/ rint \cap ExecErr = {} /\ "CMD_DONE" \in rint
        /\ pc' = "result" /\ UNCHANGED status
  /\ left' = cmd.timeout
  /\ UNCHANGED <<cmd, received, polls, wait, mem, ctrlVars, excuse>>

\* TransferFifo, the head of a turn: what to do follows from one sample.
Sample ==
  /\ pc = "sample"
  /\ intsts' = rint
  /\ pc' = IF ~cmd.read /\ "TXDR" \in rint THEN "put"
           ELSE IF cmd.read /\ rint \cap {"RXDR", "DTO"} # {} THEN "count"
           ELSE "verify"
  /\ UNCHANGED <<cmd, received, polls, wait, left, status, mem, ctrlVars, excuse>>

CanPut == Len(fifo) < Depth /\ received < cmd.len /\ "TXDR" \in intsts

PutKeepsTxdr ==  \* TXDR is not cleared after a word
  /\ pc = "put"
  /\ \/ /\ CanPut
        /\ received' = received + 1
        /\ fifo' = Append(fifo, mem[received'])
        /\ rint' = rint /\ intsts' = rint
        /\ UNCHANGED <<pc, wait>>
     \/ /\ ~CanPut
        /\ wait' = MaxWait /\ pc' = "verify"
        /\ UNCHANGED <<received, fifo, rint, intsts>>
  /\ UNCHANGED <<cmd, polls, left, status, mem, busy, sent, judged, media,
                 dma, bad, excuse>>

\* A write: words go out while there is room, each clears TXDR and reads
\* RINTSTS again.  The controller raises TXDR again at once if the FIFO is
\* still below its mark.
Put ==
  /\ pc = "put"
  /\ \/ /\ CanPut
        /\ received' = received + 1
        /\ fifo' = Append(fifo, mem[received'])
        /\ \/ rint' = rint \ {"TXDR"}
           \/ rint' = rint /\ Len(fifo') <= TxMark
        /\ intsts' = rint'
        /\ UNCHANGED <<pc, wait>>
     \/ /\ ~CanPut
        /\ wait' = MaxWait /\ pc' = "verify"
        /\ UNCHANGED <<received, fifo, rint, intsts>>
  /\ UNCHANGED <<cmd, polls, left, status, mem, busy, sent, judged, media,
                 dma, bad, excuse>>

\* Where word number i that leaves the FIFO goes, and how.
Place(i) == IF cmd.be THEN cmd.len + 1 - i ELSE i
Stored(w) == IF cmd.be /\ w # Stale THEN -w ELSE w

\* A read: the level of the FIFO is read after RINTSTS, and at most DataLen
\* words (not: those still missing) are taken.
Drain ==
  /\ pc = "count"
  /\ \/ /\ Len(fifo) = 0
        /\ UNCHANGED <<received, mem, fifo, wait>>
     \/ /\ Len(fifo) > 0
        /\ LET n == Least(Len(fifo), cmd.len) IN
           /\ received' = received + n
           /\ mem' = [i \in DOMAIN mem |->
                        IF Place(i) - received \in 1..n
                          THEN Stored(fifo[Place(i) - received]) ELSE mem[i]]
           /\ fifo' = SubSeq(fifo, n + 1, Len(fifo))
        /\ wait' = MaxWait
  /\ pc' = "verify"
  /\ UNCHANGED <<cmd, intsts, polls, left, status, busy, rint, sent, judged,
                 media, dma, bad, excuse>>

VerifyNothing ==  \* the error bits are not looked at
  /\ pc = "verify"
  /\ wait' = wait - 1
  /\ \/ wait = 1 /\ Return("TIMEOUT")
     \/ wait > 1 /\ pc' = (IF received < cmd.len THEN "sample" ELSE "result")
        /\ UNCHANGED status
  /\ UNCHANGED <<cmd, received, intsts, polls, left, mem, ctrlVars, excuse>>

\* Verify: the sample the turn began with (after a write: the last one) is
\* tested for errors, then the time, then the length.
Verify ==
  /\ pc = "verify"
  /\ \/ /\ intsts \cap DataErr # {}
        /\ Return("DEVICE_ERROR") /\ UNCHANGED wait
     \/ /\ intsts \cap DataErr = {}
        /\ wait' = wait - 1
        /\ \/ wait = 1 /\ Return("TIMEOUT")
           \/ wait > 1
              /\ pc' = (IF received < cmd.len THEN "sample" ELSE "result")
              /\ UNCHANGED status
  /\ UNCHANGED <<cmd, received, intsts, polls, left, mem, ctrlVars, excuse>>

Complete ==
  \/ cmd.len = 0
  \/ UseFifo /\ {"ACD", "DTO"} \subseteq rint
  \/ ~UseFifo /\ dma.done

ResultAtOnce ==  \* what the FIFO path handed over counts as transferred
  /\ pc = "result"
  /\ \/ (Complete \/ UseFifo) /\ Return("SUCCESS") /\ UNCHANGED left
     \/ /\ ~Complete /\ UseFifo /\ cmd.timeout # 0
        /\ left' = left - 1
        /\ IF left = 1 THEN Return("TIMEOUT") ELSE UNCHANGED <<pc, status>>
  /\ UNCHANGED <<cmd, received, intsts, polls, wait, mem, ctrlVars, excuse>>

\* DwMmcWaitTrbResult over DwMmcCheckTrbResult, which looks at ACD and DTO
\* (FIFO) or spins on IDSTS without coming back (all else), and at no error.
Result ==
  /\ pc = "result"
  /\ \/ Complete /\ Return("SUCCESS") /\ UNCHANGED left
     \/ /\ ~Complete /\ UseFifo /\ cmd.timeout # 0
        /\ left' = left - 1
        /\ IF left = 1 THEN Return("TIMEOUT") ELSE UNCHANGED <<pc, status>>
  /\ UNCHANGED <<cmd, received, intsts, polls, wait, mem, ctrlVars, excuse>>

(***************************************************************************)
(* The controller and the card, while the command is under way.            *)
(***************************************************************************)
Running == pc \notin {"create", "exec", "done"}

BlockEnd(n) == n = Total \/ n % BlockWords = 0

\* The block moved last has been checked (or the next has begun).
MayMove == sent < Total /\ "DTO" \notin rint /\ (BlockEnd(sent) => judged = sent)

Release == busy /\ busy' = FALSE
           /\ UNCHANGED <<pc, cmd, hostVars, mem, rint, fifo, sent, judged,
                          media, dma, bad, excuse>>

Raise(f) ==
  /\ rint' = rint \cup f
  /\ UNCHANGED <<pc, cmd, hostVars, mem, busy, fifo, sent, judged, media, dma,
                 bad, excuse>>

\* The response: none, damaged, or good.
Respond ==
  /\ Running /\ "CMD_DONE" \notin rint
  /\ \E e \in {{}, {"RESP_ERR"}} : Raise({"CMD_DONE"} \cup e)

\* A word of a read arrives; a word of a write leaves once the card answered.
CardSends ==
  /\ Running /\ cmd.read /\ MayMove /\ Len(fifo) < Depth
  /\ fifo' = Append(fifo, sent + 1)
  /\ sent' = sent + 1
  /\ rint' = IF Len(fifo') > RxMark THEN rint \cup {"RXDR"} ELSE rint
  /\ UNCHANGED <<pc, cmd, hostVars, mem, busy, judged, media, dma, bad, excuse>>

CardTakes ==
  /\ Running /\ ~cmd.read /\ MayMove /\ fifo # <<>>
  /\ "CMD_DONE" \in rint /\ "RESP_ERR" \notin rint
  /\ media' = Append(media, Head(fifo))
  /\ fifo' = Tail(fifo)
  /\ sent' = sent + 1
  /\ UNCHANGED <<pc, cmd, hostVars, mem, busy, rint, judged, dma, bad, excuse>>

\* CRC of a block, or the CRC status the card answers to it.
Judge ==
  /\ Running /\ judged < sent /\ BlockEnd(sent)
  /\ judged' = sent
  /\ \/ UNCHANGED <<rint, bad>>
     \/ /\ rint' = rint \cup {"DATA_ERR"}
        /\ bad' = IF bad = 0 THEN sent ELSE bad
  /\ UNCHANGED <<pc, cmd, hostVars, mem, busy, fifo, sent, media, dma, excuse>>

\* DRT ends a read that does not come; HTO: the driver let the FIFO fill up
\* or run dry.
Silence ==
  /\ Running /\ cmd.read /\ cmd.len > 0 /\ sent < Total /\ "DTO" \notin rint
  /\ Raise({"DATA_ERR", "DTO"})

Starve ==
  /\ Running /\ cmd.len > 0 /\ sent < Total /\ "STARVED" \notin rint
  /\ Len(fifo) = IF cmd.read THEN Depth ELSE 0
  /\ ~cmd.read => "CMD_DONE" \in rint
  /\ Raise({"STARVED"})

AskForWords ==
  /\ Running /\ ~cmd.read /\ Len(fifo) <= TxMark /\ "TXDR" \notin rint
  /\ Raise({"TXDR"})

Moved == cmd.len > 0 /\ sent = Total /\ judged = Total

Over == Running /\ Moved /\ "DTO" \notin rint /\ Raise({"DTO"})

\* SEND_AUTO_STOP: CMD12 follows the data.
AutoStop ==
  /\ Running /\ Moved /\ cmd.sd /\ {"CMD_DONE", "ACD"} \cap rint = {"CMD_DONE"}
  /\ Raise({"ACD"})

\* The IDMAC moves a word; it closes a full descriptor and follows the chain.
\* RI or TI comes with the one that does not disable it.
DmaStep(d) ==
  dma' = IF dma.pos + 1 < d.words THEN [dma EXCEPT !.pos = @ + 1]
         ELSE [at |-> IF d.last THEN 0 ELSE dma.at + 1, pos |-> 0,
               done |-> dma.done \/ ~d.dic]

DmaMoves ==
  LET d == Desc(cmd.len, dma.at)
      i == d.addr + dma.pos + 1 IN
  /\ Running /\ dma.at > 0
  /\ DmaStep(d)
  /\ \/ /\ cmd.read /\ fifo # <<>>
        /\ mem' = [mem EXCEPT ![i] = Head(fifo)] /\ fifo' = Tail(fifo)
     \/ /\ ~cmd.read /\ Len(fifo) < Depth
        /\ fifo' = Append(fifo, mem[i]) /\ UNCHANGED mem
  /\ UNCHANGED <<pc, cmd, hostVars, busy, rint, sent, judged, media, bad,
                 excuse>>

Driver ==
  (\E c \in Commands : Create(c)) \/ Start \/ PollSd \/ PollEmmc
  \/ Sample \/ Put \/ Drain \/ Verify \/ Result

Hardware ==
  Release \/ Respond \/ CardSends \/ CardTakes \/ Judge \/ Silence \/ Starve
  \/ AskForWords \/ Over \/ AutoStop \/ DmaMoves

Next == Driver \/ Hardware

Spec == Init /\ [][Next]_vars

\* The driver runs on the CPU and its loops are not left; the controller and
\* the card owe nothing.
FairSpec == Spec /\ WF_vars(Driver)

TypeOK ==
  /\ pc \in {"create", "exec", "poll", "sample", "put", "count", "verify",
             "result", "done"}
  /\ cmd \in Commands \cup {Idle}
  /\ received \in Nat
  /\ sent \in 0..Total /\ judged \in 0..sent
  /\ intsts \subseteq Flags /\ rint \subseteq Flags
  /\ polls \in 0..MaxPolls /\ wait \in 0..MaxWait /\ left \in Nat
  /\ status \in {"PENDING", "SUCCESS", "DEVICE_ERROR", "TIMEOUT"}
  /\ Len(fifo) <= Depth /\ busy \in BOOLEAN
  /\ bad \in 0..Total /\ excuse \in BOOLEAN
  /\ dma.at \in 0..Entries(cmd.len) /\ dma.done \in BOOLEAN

\* A command that succeeded moved every word to its place: a read fills the
\* buffer in order, from its end and swapped for SEND_SCR, the IDMAC by its
\* table; a write reaches the card in order, and whole if it went through the
\* FIFO (TI comes before the card has the last words).  Only words that
\* another command left in the FIFO can spoil this, where the reset of the
\* FIFO timed out or, with DMA, is not made.
MovedInOrder ==
  status = "SUCCESS" /\ ~cmd.tuning /\ ~excuse =>
    IF cmd.read
      THEN \A i \in 1..cmd.len : mem[Place(i)] = Stored(i)
      ELSE /\ \A i \in DOMAIN media : media[i] = i
           /\ UseFifo => Len(media) = cmd.len

\* TransferFifo tests for errors before the last words move, and nothing
\* tests after it.  What it may miss is bounded by the FIFO: a transfer that
\* succeeded with a failed CRC failed no earlier than Depth words before its
\* end.
MissesOnlyTheTail ==
  status = "SUCCESS" /\ UseFifo /\ ~excuse /\ bad # 0 => bad >= cmd.len - Depth

Answered == "CMD_DONE" \in rint /\ "RESP_ERR" \notin rint

\* DwSdExecTrb's loop ended at its limit; nothing looks at the response then.
PolledInVain == cmd.sd /\ polls = 0

\* A command reported as successful had a response without error, unless
\* DwSdExecTrb polled in vain.  Behind that only a write, whose data wait for
\* the response, is sure of one; of a read it is only known that the command
\* ended (with RTO, RCRC or RE, perhaps), of a command without data nothing.
SuccessWasAnswered ==
  status = "SUCCESS" =>
    \/ Answered
    \/ PolledInVain /\ cmd.read /\ (cmd.len > 0 => "CMD_DONE" \in rint)

\* The waits that have no limit, each with the event that would end it.
Starved ==
  \/ pc = "exec" /\ busy
  \/ pc = "poll" /\ ~cmd.sd /\ rint \cap (ExecErr \cup {"CMD_DONE"}) = {}
  \/ pc = "result" /\ ~Complete /\ (UseFifo => cmd.timeout = 0)

\* The driver comes back from every command, or waits for ever in one of
\* three places: for DATA_BUSY, for the answer of an eMMC command, for the
\* end of the data (DMA, tuning or Timeout = 0).  TransferFifo, whose Timeout
\* starts anew whenever words move, always ends.
ExecReturns == <>(status # "PENDING") \/ <>[]Starved

\* What a comment of DwMmcCheckTrbResult says of the FIFO path.
ValidatedInTransferFifo ==
  status = "SUCCESS" /\ UseFifo /\ ~excuse => bad = 0

=============================================================================
