--------------------------- MODULE Px30Transfer ---------------------------
(***************************************************************************)
(* Block transfers of the PX30 eMMC host driver (Px30EmmcDxe): a data      *)
(* command is only stored by SendCommand and is executed by ReadBlockData  *)
(* or WriteBlockData, which reset and arm the internal DMA engine (IDMAC); *)
(* CMD6 carries its data block inline; the client is MmcTransferBlock of   *)
(* the block I/O driver, one block at a time.                              *)
(*                                                                         *)
(* The controller and the card run beside the driver.  Px30Command has the *)
(* details of one command; here a command reports success only after its   *)
(* data phase, and an error at any time: the data phase of a command that  *)
(* failed may still take place, until a reset drops it.                    *)
(***************************************************************************)
EXTENDS Naturals, FiniteSets

CONSTANTS
  Lba,          \* block numbers
  Critical,     \* blocks 0 and 1: their contents are checked for a signature
  Buf,          \* the buffers of the clients
  CallbackLba,  \* the blocks that clients at TPL_CALLBACK ask for
  CallbackBuf,  \* and their buffers
  Private,      \* mDmaBuffer
  Cmd6Buf,      \* the pool buffer of CMD6
  Data,         \* what a block may hold
  Signed,       \* contents that bear the MBR or GPT signature
  Stale,        \* what a transfer that went wrong unnoticed delivers
  None,
  MaxRetries    \* re-reads of a critical block (5 in the code)

ASSUME ConstantsAssumption ==
  /\ Critical \subseteq Lba /\ Signed \subseteq Data
  /\ Private # Cmd6Buf /\ Private \notin Buf /\ Cmd6Buf \notin Buf
  /\ Stale \notin Data /\ None \notin Data \cup {Stale} /\ None \notin Lba
  /\ CallbackLba \subseteq Lba /\ CallbackBuf \subseteq Buf
  /\ MaxRetries \in Nat \ {0}

VARIABLES
  at,      \* where the driver is
  op,      \* the request of the client: kind, lba, buf
  pend,    \* mEmmcCommand and mEmmcArgument: the stored data command
  status,  \* of the request: "SUCCESS" or "ERROR"
  retry,   \* re-reads of a critical block
  bmod,    \* BMOD.IDMAC_ENABLE
  dmaEn,   \* CTRL.DMA_EN and IDMAC_EN
  dbaddr,  \* DBADDR: the descriptor table the engine uses
  desc,    \* the tables: ownership and buffer
  xfer,    \* the data phase the controller and the card are in
  dto,     \* RINTSTS.DTO
  prg,     \* the card programs; STATUS.DATA_BUSY
  mem,     \* contents of the buffers
  card,    \* contents of the card
  outer,   \* the application's call that a client at TPL_CALLBACK preempted
  late,    \* ghost: buffers of requests that failed since the engine was reset
  harmed,  \* ghost: the request was preempted, and goes on
  wrote    \* ghost: a write preempted the application's call

eng  == <<bmod, dmaEn, dbaddr, desc>>
turn == <<outer, harmed, wrote>>
drv  == <<at, op, pend, status, retry, turn>>
vars == <<at, op, pend, status, retry, bmod, dmaEn, dbaddr, desc,
          xfer, dto, prg, mem, card, outer, late, harmed, wrote>>

Tables == {"warm", "main"}
Values == Data \cup {Stale, None}

NoOp == [kind |-> "none", lba |-> None, buf |-> None]
Ops == {NoOp} \cup [kind : {"read", "write"}, lba : Lba, buf : Buf]
       \cup {[kind |-> "switch", lba |-> None, buf |-> Cmd6Buf]}

\* No call is preempted while the frame that is kept aside is idle.
NoFrame == [at |-> "idle", op |-> NoOp, status |-> "none", retry |-> 0]
Preempted == outer.at # "idle"

Phases == [dir : {"read", "write"}, lba : Lba \cup {None}]

(***************************************************************************)
(* The client: MmcTransferBlock sends CMD17 or CMD24, which the host       *)
(* driver only stores, and then asks for the data.                         *)
(***************************************************************************)
Ask(kind, l, b, v) ==
  /\ op' = [kind |-> kind, lba |-> l, buf |-> b]
  /\ pend' = [dir |-> kind, lba |-> l]
  /\ mem' = [mem EXCEPT ![b] = v]
  /\ at' = IF kind = "read" THEN "readBusy" ELSE "writeBusy"
  /\ retry' = 0 /\ status' = "none"
  /\ harmed' = FALSE
  /\ UNCHANGED <<eng, xfer, dto, prg, card, late>>

Request(kind, l, b, v) ==
  /\ at = "idle" /\ ~Preempted
  /\ Ask(kind, l, b, v)
  /\ wrote' = FALSE
  /\ UNCHANGED outer

\* A read is asked for with an empty buffer, so that what it holds later
\* was delivered.
RequestRead ==
  \E l \in Lba, b \in Buf \ CallbackBuf : Request("read", l, b, None)
RequestWrite ==
  \E l \in Lba, b \in Buf \ CallbackBuf, v \in Data : Request("write", l, b, v)

\* CMD6 during the life of the card: cache or timing settings.
RequestSwitch ==
  /\ at = "idle" /\ ~Preempted
  /\ op' = [kind |-> "switch", lba |-> None, buf |-> Cmd6Buf]
  /\ at' = "switchBusy"
  /\ status' = "none" /\ retry' = 0
  /\ harmed' = FALSE /\ wrote' = FALSE
  /\ UNCHANGED <<pend, eng, xfer, dto, prg, mem, card, outer, late>>

(***************************************************************************)
(* No lock keeps a client at TPL_CALLBACK out: it may preempt the driver,  *)
(* run a transfer of its own to the end with the same globals, engine and  *)
(* card, and return to a driver that knows nothing of it.                  *)
(***************************************************************************)
Preempt(kind, l, b, v) ==
  /\ at # "idle" /\ ~Preempted
  /\ Ask(kind, l, b, v)
  /\ outer' = [at |-> at, op |-> op, status |-> status, retry |-> retry]
  /\ wrote' = (wrote \/ kind = "write")

PreemptRead ==
  \E l \in CallbackLba, b \in CallbackBuf : Preempt("read", l, b, None)
PreemptWrite ==
  \E l \in CallbackLba, b \in CallbackBuf, v \in Data :
    Preempt("write", l, b, v)

Resume ==
  /\ at = "idle" /\ Preempted
  /\ at' = outer.at /\ op' = outer.op
  /\ status' = outer.status /\ retry' = outer.retry
  /\ outer' = NoFrame /\ harmed' = TRUE
  /\ UNCHANGED <<pend, eng, xfer, dto, prg, mem, card, late, wrote>>

(***************************************************************************)
(* Arming the engine: FIFO and DMA reset, which drops a data phase left    *)
(* over, descriptors owned by the engine, DBADDR, enable bits.             *)
(***************************************************************************)
ArmWithoutReset(t, b) ==  \* no FIFO and DMA reset before arming
  /\ UNCHANGED <<xfer, late>>
  /\ desc' = [desc EXCEPT ![t] = [own |-> TRUE, buf |-> b]]
  /\ dbaddr' = t
  /\ bmod' = TRUE /\ dmaEn' = TRUE

Arm(t, b) ==
  /\ xfer' = None /\ late' = {}
  /\ desc' = [desc EXCEPT ![t] = [own |-> TRUE, buf |-> b]]
  /\ dbaddr' = t
  /\ bmod' = TRUE /\ dmaEn' = TRUE

ReadWarmIntoCaller ==  \* the warm-up read with the caller's descriptors
  /\ at = "readBusy" /\ ~prg
  /\ Arm("main", op.buf)
  /\ at' = "warmCmd"
  /\ UNCHANGED <<op, pend, status, retry, dto, prg, mem, card, turn>>

\* DATA_BUSY is waited for, the IDMAC reset through BMOD, and armed to read
\* one block into the private buffer.
ReadWarm ==
  /\ at = "readBusy" /\ ~prg
  /\ Arm("warm", Private)
  /\ at' = "warmCmd"
  /\ UNCHANGED <<op, pend, status, retry, dto, prg, mem, card, turn>>

\* The same reset again, and descriptors for the buffer of the caller.
ReadArm ==
  /\ at = "readReal"
  /\ Arm("main", op.buf)
  /\ at' = "readCmd"
  /\ UNCHANGED <<op, pend, status, retry, dto, prg, mem, card, turn>>

ReadCheckWithoutArm ==  \* ownership is not given back before a re-read
  /\ at = "check"
  /\ at' = IF mem[op.buf] \in Signed THEN "done" ELSE "retryCmd"
  /\ UNCHANGED <<eng, xfer, late>>
  /\ UNCHANGED <<op, pend, status, retry, dto, prg, mem, card, turn>>

\* A critical block must bear its signature: otherwise it is read again, with
\* new descriptors ("ownership consumed by previous read"), five times.
ReadCheck ==
  /\ at = "check"
  /\ IF mem[op.buf] \in Signed
       THEN at' = "done" /\ UNCHANGED <<eng, xfer, late>>
       ELSE Arm("main", op.buf) /\ at' = "retryCmd"
  /\ UNCHANGED <<op, pend, status, retry, dto, prg, mem, card, turn>>

WriteArm ==
  /\ at = "writeBusy" /\ ~prg
  /\ Arm("main", op.buf)
  /\ at' = "writeCmd"
  /\ UNCHANGED <<op, pend, status, retry, dto, prg, mem, card, turn>>

SwitchArm ==
  /\ at = "switchBusy" /\ ~prg
  /\ Arm("main", Cmd6Buf)
  /\ at' = "switchCmd"
  /\ UNCHANGED <<op, pend, status, retry, dto, prg, mem, card, turn>>

\* Out of memory: CMD6 is not sent.
SwitchNoMemory ==
  /\ at = "switchBusy"
  /\ at' = "idle" /\ status' = "ERROR"
  /\ UNCHANGED <<op, pend, retry, eng, xfer, dto, prg, mem, card, late, turn>>

(***************************************************************************)
(* SendCommand: wait until DATA_BUSY is clear, clear RINTSTS, write CMD.   *)
(* The card may not hear it.                                               *)
(***************************************************************************)
Sending == [warmCmd |-> "warmWait", readCmd |-> "readWait",
            retryCmd |-> "retryWait", writeCmd |-> "writeWait",
            switchCmd |-> "switchWait", stopCmd |-> "stopWait"]

Phase == IF at = "switchCmd" THEN [dir |-> "write", lba |-> None] ELSE pend

IssueKeepsDto(heard) ==  \* RINTSTS is not cleared before CMD is written
  /\ at \in DOMAIN Sending /\ ~prg
  /\ at' = Sending[at]
  /\ xfer' = IF at = "stopCmd" THEN (IF heard THEN None ELSE xfer)
             ELSE IF heard THEN Phase ELSE None
  /\ UNCHANGED <<op, pend, status, retry, eng, dto, prg, mem, card, late,
                 turn>>

Issue(heard) ==
  /\ at \in DOMAIN Sending /\ ~prg
  /\ at' = Sending[at]
  /\ dto' = FALSE
  /\ xfer' = IF at = "stopCmd" THEN (IF heard THEN None ELSE xfer)
             ELSE IF heard THEN Phase ELSE None
  /\ UNCHANGED <<op, pend, status, retry, eng, prg, mem, card, late, turn>>

CommandOver(s) == s = "ERROR" \/ dto

ReturnWarm(s) ==
  /\ at = "warmWait" /\ CommandOver(s)
  /\ at' = "readReal"
  /\ UNCHANGED <<op, pend, status, retry, eng, xfer, dto, prg, mem, card, late,
                 turn>>

\* What is checked is the block asked for, if the stored command is (still) a
\* CMD17.
ReturnRead(s) ==
  /\ at = "readWait" /\ CommandOver(s)
  /\ status' = s
  /\ at' = IF s = "SUCCESS" /\ op.lba \in Critical /\ pend.dir = "read"
             THEN "check" ELSE "done"
  /\ UNCHANGED <<op, pend, retry, eng, xfer, dto, prg, mem, card, late, turn>>

ReturnRetryOnce(s) ==  \* the re-read block is not checked
  /\ at = "retryWait" /\ CommandOver(s)
  /\ status' = s
  /\ retry' = retry + 1
  /\ at' = "done"
  /\ UNCHANGED <<op, pend, eng, xfer, dto, prg, mem, card, late, turn>>

ReturnRetry(s) ==
  /\ at = "retryWait" /\ CommandOver(s)
  /\ status' = s
  /\ retry' = retry + 1
  /\ at' = IF retry' < MaxRetries THEN "check" ELSE "done"
  /\ UNCHANGED <<op, pend, eng, xfer, dto, prg, mem, card, late, turn>>

ReturnWrite(s) ==
  /\ at = "writeWait" /\ CommandOver(s)
  /\ status' = s
  /\ at' = "done"
  /\ UNCHANGED <<op, pend, retry, eng, xfer, dto, prg, mem, card, late, turn>>

\* Cmd6Buf goes back to the pool whatever the status.
ReturnSwitch(s) ==
  /\ at = "switchWait" /\ CommandOver(s)
  /\ status' = s
  /\ late' = IF s = "ERROR" THEN late \cup {Cmd6Buf} ELSE late
  /\ at' = "idle"
  /\ UNCHANGED <<op, pend, retry, eng, xfer, dto, prg, mem, card, turn>>

\* MmcTransferBlock: an error is followed by CMD12, whose own result is
\* ignored.  After a success the loop that polls CMD13 is not entered
\* (MMC_R0_CURRENTSTATE of a zero response, compared without parentheses).
Finish ==
  /\ at = "done"
  /\ IF status = "SUCCESS"
       THEN at' = "idle" /\ UNCHANGED late
       ELSE at' = "stopCmd" /\ late' = late \cup {op.buf}
  /\ UNCHANGED <<op, pend, status, retry, eng, xfer, dto, prg, mem, card, turn>>

ReturnStop ==
  /\ at = "stopWait"
  /\ at' = "idle"
  /\ UNCHANGED <<op, pend, status, retry, eng, xfer, dto, prg, mem, card, late,
                 turn>>

(***************************************************************************)
(* The engine, the controller and the card.  Data move only while the      *)
(* engine is enabled and owns the descriptor DBADDR points to; a transfer  *)
(* takes the ownership away.                                               *)
(***************************************************************************)
Moves(dir) ==
  /\ xfer # None /\ xfer.dir = dir
  /\ bmod /\ dmaEn /\ dbaddr # "none" /\ desc[dbaddr].own
  /\ desc' = [desc EXCEPT ![dbaddr].own = FALSE]
  /\ xfer' = None /\ dto' = TRUE
  /\ UNCHANGED <<drv, bmod, dmaEn, dbaddr, late>>

\* "v2.70a DMA may occasionally return stale data."
CardToMemory ==
  /\ Moves("read")
  /\ \E v \in {card[xfer.lba], Stale} :
       mem' = [mem EXCEPT ![desc[dbaddr].buf] = v]
  /\ UNCHANGED <<prg, card>>

MemoryToCard ==
  /\ Moves("write")
  /\ card' = IF xfer.lba = None THEN card
             ELSE [card EXCEPT ![xfer.lba] = mem[desc[dbaddr].buf]]
  /\ prg' = TRUE
  /\ UNCHANGED mem

Programmed ==
  /\ prg
  /\ prg' = FALSE
  /\ UNCHANGED <<drv, eng, xfer, dto, mem, card, late>>

Init ==
  /\ at = "idle" /\ op = NoOp /\ pend = None /\ status = "none" /\ retry = 0
  /\ bmod = FALSE /\ dmaEn = FALSE /\ dbaddr = "none"
  /\ desc = [t \in Tables |-> [own |-> FALSE, buf |-> None]]
  /\ xfer = None /\ dto = FALSE /\ prg = FALSE
  /\ mem = [b \in Buf \cup {Private, Cmd6Buf} |-> None]
  /\ card \in [Lba -> Data]
  /\ late = {} /\ outer = NoFrame /\ harmed = FALSE /\ wrote = FALSE

Client ==
  RequestRead \/ RequestWrite \/ RequestSwitch
  \/ PreemptRead \/ PreemptWrite \/ Resume

Driver ==
  \/ ReadWarm \/ ReadArm \/ ReadCheck \/ WriteArm
  \/ SwitchArm \/ SwitchNoMemory
  \/ \E heard \in BOOLEAN : Issue(heard)
  \/ \E s \in {"SUCCESS", "ERROR"} :
       ReturnWarm(s) \/ ReturnRead(s) \/ ReturnRetry(s)
       \/ ReturnWrite(s) \/ ReturnSwitch(s)
  \/ Finish \/ ReturnStop

Hardware == CardToMemory \/ MemoryToCard \/ Programmed

Next == Client \/ Driver \/ Hardware

Spec == Init /\ [][Next]_vars

-----------------------------------------------------------------------------
(***************************************************************************)
(* Properties.                                                             *)
(***************************************************************************)
Waiting == {Sending[a] : a \in DOMAIN Sending}

Locations ==
  {"idle", "readBusy", "readReal", "check", "writeBusy", "switchBusy", "done"}
    \cup DOMAIN Sending \cup Waiting
Statuses == {"none", "SUCCESS", "ERROR"}
Frames == [at : Locations, op : Ops, status : Statuses, retry : 0..MaxRetries]

\* The type of every variable; a critical block is re-read MaxRetries times.
TypeOK ==
  /\ at \in Locations
  /\ op \in Ops
  /\ pend \in Phases \cup {None}
  /\ status \in Statuses
  /\ retry \in 0..MaxRetries
  /\ bmod \in BOOLEAN /\ dmaEn \in BOOLEAN /\ dto \in BOOLEAN /\ prg \in BOOLEAN
  /\ dbaddr \in Tables \cup {"none"}
  /\ desc \in [Tables -> [own : BOOLEAN,
                          buf : Buf \cup {Private, Cmd6Buf, None}]]
  /\ xfer \in Phases \cup {None}
  /\ mem \in [Buf \cup {Private, Cmd6Buf} -> Values]
  /\ card \in [Lba -> Values]
  /\ late \subseteq Buf \cup {Cmd6Buf}
  /\ harmed \in BOOLEAN /\ wrote \in BOOLEAN
  /\ outer \in Frames

\* Where the data of the next command are to go.
Target == IF at = "warmCmd" THEN Private ELSE op.buf

\* Every data command is issued to an enabled engine that owns a descriptor
\* for the right buffer, the re-reads of a critical block included
\* ("Re-init descriptors (ownership consumed by previous read)"); also by a
\* client that preempted a transfer, whatever it found the engine doing.
ArmedAtIssue ==
  ~harmed /\ at \in DOMAIN Sending \ {"stopCmd"} =>
    /\ bmod /\ dmaEn /\ dbaddr # "none"
    /\ desc[dbaddr] = [own |-> TRUE, buf |-> Target]

\* No data phase survives into the next transfer: once a transfer is armed,
\* the controller moves only data of its own command, whatever failed or was
\* preempted before.
PhaseIsCurrent ==
  /\ ~harmed /\ xfer # None
  /\ at \notin {"idle", "readBusy", "writeBusy", "switchBusy"}
  => /\ xfer.lba = op.lba
     /\ xfer.dir = (IF op.kind = "read" THEN "read" ELSE "write")

\* A read that succeeds delivered its own block (or the stale data of the
\* hardware bug) into the buffer of the caller, although the command was
\* stored in one call and executed in another; a write that succeeds is on
\* the card.  Of a request that was preempted and went on neither is true:
\* it executes the command the other client stored (PX 957-961).
SuccessMovedTheBlock ==
  ~harmed /\ at = "done" /\ status = "SUCCESS" =>
    /\ op.kind = "read" => mem[op.buf] \in {card[op.lba], Stale}
    /\ op.kind = "write" => card[op.lba] = mem[op.buf]

\* Stale data of a critical block are returned with success only after all
\* re-reads, by a call that reads preempted as well.  A call that a write
\* preempted finds CMD24 stored and returns its block unchecked (PX 1232).
StaleCriticalOnlyAfterRetries ==
  /\ at = "done" /\ op.kind = "read" /\ status = "SUCCESS"
  /\ op.lba \in Critical /\ mem[op.buf] = Stale
  => retry = MaxRetries \/ (harmed /\ wrote)

\* The engine writes to a buffer of a client only while that buffer is being
\* read into, the warm-up read never ("not the caller's buffer!"), or after
\* its read failed or was preempted.
CallerBufferSpared ==
  [][\A b \in Buf :
       mem'[b] # mem[b] =>
         \/ (at = "idle" \/ outer' # outer) /\ op'.buf = b
         \/ /\ at \in {"readWait", "retryWait", "readCmd", "retryCmd", "check"}
            /\ op.buf = b /\ op.kind = "read"
         \/ b \in late
         \/ at = "done" /\ status = "ERROR" /\ op.buf = b
         \/ harmed /\ op.buf = b
         \/ /\ Preempted /\ outer.op.buf = b
            /\ at \in {"readBusy", "writeBusy"}]_vars

=============================================================================
