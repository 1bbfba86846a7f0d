------------------------ MODULE Px30Transfer_proofs ------------------------
(***************************************************************************)
(* Block transfers of Px30EmmcDxe, for any number of blocks and buffers:   *)
(* the engine is armed for the request at hand, moves its data phase and   *)
(* no other, and a success means that the block was moved.                 *)
(***************************************************************************)
EXTENDS Px30Transfer, TLAPS

\* The places of the driver, by the request they belong to.
Reads == {"readBusy", "warmCmd", "warmWait", "readReal", "readCmd",
          "readWait", "check", "retryCmd", "retryWait"}
Writes == {"writeBusy", "writeCmd", "writeWait"}
Switches == {"switchBusy", "switchCmd", "switchWait"}
Ends == {"done", "stopCmd", "stopWait"}
DataCmds == {"warmCmd", "readCmd", "retryCmd", "writeCmd", "switchCmd"}
DataWaits == {"warmWait", "readWait", "retryWait", "writeWait", "switchWait"}
Unarmed == {"idle", "readBusy", "writeBusy", "switchBusy"}

\* The buffers the engine may be given.
Buffers == Buf \cup {Private, Cmd6Buf}

\* What may still be delivered is the business of an earlier request there.
Past == Unarmed \cup {"stopCmd", "stopWait"}

\* The types, and which blocks and buffers a phase or a table may name.
Types ==
  /\ TypeOK
  /\ at \in Reads => retry < MaxRetries
  /\ outer.at \in Reads => outer.retry < MaxRetries
  /\ \A t \in Tables : desc[t].own => desc[t].buf \in Buffers
  /\ pend # None => pend.lba \in Lba
  /\ xfer # None => xfer.lba \in Lba \/ xfer.dir = "write"

\* The place a of a call and its request o agree.
Fits(a, o) ==
  /\ a \in Reads => o.kind = "read"
  /\ a \in Writes => o.kind = "write"
  /\ a \in Switches => o.kind = "switch"
  /\ a \in Ends => o.kind \in {"read", "write"}

\* What is asked for, in the call that runs and in the one it preempted; the
\* stored command is that of the request unless another client came between.
Asked ==
  /\ Fits(at, op) /\ Fits(outer.at, outer.op)
  /\ ~harmed /\ at \in Reads \cup Writes \cup Ends =>
       pend = [dir |-> op.kind, lba |-> op.lba]

\* A call that preempted another one works on a buffer of its own and is not
\* preempted itself.
Nested ==
  /\ Preempted =>
       /\ op.kind \in {"read", "write"} /\ op.buf \in CallbackBuf /\ ~harmed
       /\ outer.op.buf \notin CallbackBuf
  /\ ~Preempted /\ at # "idle" => op.buf \notin CallbackBuf

\* What the engine is armed for while nobody interferes.
Armed ==
  /\ ArmedAtIssue
  /\ at \in {"warmCmd", "warmWait", "readReal"} =>
       dbaddr = "warm" /\ desc["warm"].buf = Private
  /\ at \in (Reads \cup Writes \cup Switches \cup Ends) \
             (Unarmed \cup {"warmCmd", "warmWait", "readReal"}) =>
       dbaddr = "main" /\ desc["main"].buf = op.buf
  /\ at \in DataCmds => xfer = None

\* What has arrived: DTO ends the phase, and the block is where it belongs.
Arrived ==
  /\ at \in DataWaits /\ dto => xfer = None
  /\ at \in {"check", "done"} /\ status # "ERROR" => xfer = None
  /\ at \in {"check", "retryCmd", "retryWait"} \/ (at = "readWait" /\ dto) =>
       mem[op.buf] \in {card[op.lba], Stale}
  /\ at = "writeWait" /\ dto => card[op.lba] = mem[op.buf]

\* The buffer of a call that has armed the engine is not one of a failed
\* request any more: arming dropped the phase of that one.
Fresh(a, o) == a \notin Past => o.buf \notin late
LateIsPast == Fresh(at, op) /\ Fresh(outer.at, outer.op)

\* The command at hand may still deliver into the buffer of the request.
Reaching ==
  \/ at \in DataCmds \ {"warmCmd"}
  \/ at \in DataWaits \ {"warmWait"} /\ ~dto
  \/ at \in {"check", "done"} /\ status # "SUCCESS"

\* Where a table that the engine still owns leads to: to the buffer of a
\* request that failed, to none of a client, to the one at hand, or to that
\* of the call preempted a moment ago, unless it was about to succeed.
Owned ==
  dbaddr # "none" /\ desc[dbaddr].own =>
    \/ desc[dbaddr].buf \in late \/ desc[dbaddr].buf \notin Buf
    \/ Reaching /\ desc[dbaddr].buf = op.buf
    \/ /\ Preempted /\ at \in {"readBusy", "writeBusy"}
       /\ desc[dbaddr].buf = outer.op.buf
       /\ ~(outer.at = "done" /\ outer.status = "SUCCESS")

\* CMD17 stays stored for the application's read while no write preempts it.
StoredRead ==
  ~wrote =>
    /\ op.kind = "read" => pend.dir = "read"
    /\ Preempted /\ outer.op.kind = "read" => pend.dir = "read"

\* A critical block delivered stale at the end of a call that was checked.
StaleLast(a, o, s, r, checked) ==
  checked /\ a = "done" /\ o.kind = "read" /\ s = "SUCCESS"
    /\ o.lba \in Critical /\ mem[o.buf] = Stale => r = MaxRetries

StaleIsLast ==
  /\ StaleLast(at, op, status, retry, ~(harmed /\ wrote))
  /\ StaleLast(outer.at, outer.op, outer.status, outer.retry, ~wrote)

IInv ==
  /\ Types /\ Asked /\ Nested /\ LateIsPast /\ Owned /\ StoredRead
  /\ StaleIsLast
  /\ ~harmed => Armed /\ Arrived
  /\ PhaseIsCurrent /\ SuccessMovedTheBlock

LEMMA SendingIs ==
  /\ DOMAIN Sending = DataCmds \cup {"stopCmd"}
  /\ Sending["warmCmd"] = "warmWait" /\ Sending["readCmd"] = "readWait"
  /\ Sending["retryCmd"] = "retryWait" /\ Sending["writeCmd"] = "writeWait"
  /\ Sending["switchCmd"] = "switchWait" /\ Sending["stopCmd"] = "stopWait"
BY DEF Sending, DataCmds

LEMMA WaitingIs == Waiting = DataWaits \cup {"stopWait"}
BY SendingIs DEF Waiting, DataCmds, DataWaits

Places == {"idle", "done", "stopCmd", "stopWait"}
            \cup Reads \cup Writes \cup Switches

LEMMA PlacesAre == Locations = Places
BY SendingIs, WaitingIs
   DEF Locations, Places, Reads, Writes, Switches, DataCmds, DataWaits

\* Only a client preempts a call or takes one up again.
LEMMA TurnKept ==
  Driver \/ Hardware \/ UNCHANGED vars => UNCHANGED <<outer, harmed, wrote>>
BY DEF Driver, Hardware, vars, turn, drv, ReadWarm, ReadArm, ReadCheck,
   WriteArm, SwitchArm, SwitchNoMemory, Issue, ReturnWarm, ReturnRead, ReturnRetry,
   ReturnWrite, ReturnSwitch, Finish, ReturnStop, CardToMemory, MemoryToCard,
   Moves, Programmed

\* So a request that is not disturbed was not before such a step.
LEMMA Undisturbed ==
  ASSUME IInv, Driver \/ Hardware \/ UNCHANGED vars, ~harmed'
  PROVE  /\ ~harmed /\ outer' = outer
         /\ Types /\ Asked /\ Armed /\ Arrived /\ PhaseIsCurrent
         /\ SuccessMovedTheBlock
BY TurnKept DEF IInv

LEMMA InitHolds == Init => IInv
<1> SUFFICES ASSUME Init PROVE IInv
  OBVIOUS
<1>1. /\ at = "idle" /\ op = NoOp /\ pend = None /\ status = "none" /\ retry = 0
      /\ bmod = FALSE /\ dmaEn = FALSE /\ dbaddr = "none"
      /\ desc = [t \in Tables |-> [own |-> FALSE, buf |-> None]]
      /\ xfer = None /\ dto = FALSE /\ prg = FALSE
      /\ mem = [b \in Buffers |-> None]
      /\ card \in [Lba -> Data] /\ late = {}
      /\ outer = NoFrame /\ harmed = FALSE /\ wrote = FALSE
  BY DEF Init, Buffers
<1>2. TypeOK
  <2>1. at \in Places /\ op \in Ops /\ retry \in 0..MaxRetries
    BY <1>1, ConstantsAssumption DEF Places, Ops
  <2>2. desc \in [Tables -> [own : BOOLEAN, buf : Buffers \cup {None}]]
    BY <1>1
  <2>3. mem \in [Buffers -> Values] /\ card \in [Lba -> Values]
    BY <1>1 DEF Values
  <2>4. outer \in Frames
    BY <1>1, PlacesAre, ConstantsAssumption
       DEF NoFrame, Frames, Places, Ops, Statuses
  <2> QED
    BY <1>1, <2>1, <2>2, <2>3, <2>4, PlacesAre DEF TypeOK, Buffers, Statuses
<1>3. Types
  BY <1>1, <1>2, ConstantsAssumption DEF Types, NoFrame, Reads
<1>4. Asked /\ Nested /\ LateIsPast /\ Owned /\ StoredRead /\ StaleIsLast
  BY <1>1 DEF Asked, Fits, StoredRead, NoOp, Nested, Preempted, NoFrame, LateIsPast, Fresh, Past,
     Owned, StaleIsLast, StaleLast, Reads, Writes, Switches, Ends, Unarmed
<1>5. Armed /\ PhaseIsCurrent
  BY <1>1, SendingIs DEF Armed, ArmedAtIssue, PhaseIsCurrent,
     Reads, Writes, Switches, Ends, DataCmds, Unarmed
<1>6. Arrived /\ SuccessMovedTheBlock
  BY <1>1 DEF Arrived, SuccessMovedTheBlock, DataWaits
<1> QED
  BY <1>3, <1>4, <1>5, <1>6 DEF IInv

\* Arming hands the engine one table with one buffer.
LEMMA ArmHolds ==
  ASSUME Types, NEW t \in Tables, NEW b \in Buffers, Arm(t, b)
  PROVE  /\ desc' \in [Tables -> [own : BOOLEAN, buf : Buffers \cup {None}]]
         /\ \A u \in Tables : desc'[u].own => desc'[u].buf \in Buffers
         /\ dbaddr' = t /\ desc'[t] = [own |-> TRUE, buf |-> b]
         /\ bmod' = TRUE /\ dmaEn' = TRUE /\ xfer' = None /\ late' = {}
<1>1. desc \in [Tables -> [own : BOOLEAN, buf : Buffers \cup {None}]]
  BY DEF Types, TypeOK, Buffers
<1>2. desc' = [desc EXCEPT ![t] = [own |-> TRUE, buf |-> b]]
  BY DEF Arm
<1>3. \A u \in Tables : desc'[u] = IF u = t THEN [own |-> TRUE, buf |-> b] ELSE desc[u]
  BY <1>1, <1>2
<1> QED
  BY <1>1, <1>2, <1>3 DEF Arm, Types

LEMMA TypesHold == IInv /\ [Next]_vars => Types'
<1> SUFFICES ASSUME IInv, [Next]_vars PROVE Types'
  OBVIOUS
<1>1. Types /\ Asked
  BY DEF IInv
<1>2. /\ at \in Places /\ op \in Ops /\ pend \in Phases \cup {None}
      /\ status \in {"none", "SUCCESS", "ERROR"} /\ retry \in 0..MaxRetries
      /\ bmod \in BOOLEAN /\ dmaEn \in BOOLEAN /\ dto \in BOOLEAN /\ prg \in BOOLEAN
      /\ dbaddr \in Tables \cup {"none"}
      /\ desc \in [Tables -> [own : BOOLEAN, buf : Buffers \cup {None}]]
      /\ xfer \in Phases \cup {None}
      /\ mem \in [Buffers -> Values] /\ card \in [Lba -> Values]
      /\ late \subseteq Buf \cup {Cmd6Buf}
      /\ harmed \in BOOLEAN /\ wrote \in BOOLEAN /\ outer \in Frames
  BY <1>1, PlacesAre DEF Types, TypeOK, Buffers, Statuses
<1> DEFINE Typed ==
      /\ at \in Places /\ op \in Ops /\ pend \in Phases \cup {None}
      /\ status \in {"none", "SUCCESS", "ERROR"} /\ retry \in 0..MaxRetries
      /\ bmod \in BOOLEAN /\ dmaEn \in BOOLEAN /\ dto \in BOOLEAN /\ prg \in BOOLEAN
      /\ dbaddr \in Tables \cup {"none"}
      /\ desc \in [Tables -> [own : BOOLEAN, buf : Buffers \cup {None}]]
      /\ xfer \in Phases \cup {None}
      /\ mem \in [Buffers -> Values] /\ card \in [Lba -> Values]
      /\ late \subseteq Buf \cup {Cmd6Buf}
      /\ harmed \in BOOLEAN /\ wrote \in BOOLEAN /\ outer \in Frames
      /\ at \in Reads => retry < MaxRetries
      /\ outer.at \in Reads => outer.retry < MaxRetries
      /\ \A t \in Tables : desc[t].own => desc[t].buf \in Buffers
      /\ pend # None => pend.lba \in Lba
      /\ xfer # None => xfer.lba \in Lba \/ xfer.dir = "write"
<1>3. Typed' => Types'
  BY PlacesAre DEF Types, TypeOK, Buffers, Statuses
<1>4. Typed
  BY <1>1, <1>2 DEF Types
<1>5. op.buf \in Buffers \cup {None}
  BY <1>2 DEF Ops, NoOp, Buffers
<1> SUFFICES Typed'
  BY <1>3
<1> HIDE DEF Typed
<1>6. ASSUME NEW k \in {"read", "write"}, NEW l \in Lba, NEW b \in Buf,
             NEW v \in Data \cup {None}, Ask(k, l, b, v), outer' \in Frames,
             wrote' \in BOOLEAN, outer'.at \in Reads => outer'.retry < MaxRetries
      PROVE  Typed'
  <2>1. op' \in Ops /\ pend' \in Phases /\ pend'.lba \in Lba
    BY <1>6 DEF Ask, Ops, Phases
  <2>2. mem' \in [Buffers -> Values]
    BY <1>2, <1>6 DEF Ask, Buffers, Values
  <2>3. at' \in Places /\ retry' = 0 /\ harmed' \in BOOLEAN
    BY <1>6 DEF Ask, Places, Reads, Writes
  <2> QED
    BY <1>4, <1>6, <2>1, <2>2, <2>3, ConstantsAssumption DEF Typed, Ask, eng
<1>7. CASE RequestRead \/ RequestWrite
  <2>1. PICK k \in {"read", "write"}, l \in Lba, b \in Buf,
             v \in Data \cup {None} :
          Ask(k, l, b, v) /\ outer' = outer /\ wrote' \in BOOLEAN
    BY <1>7 DEF RequestRead, RequestWrite, Request
  <2> QED
    BY <1>4, <1>6, <2>1 DEF Typed
<1>8. CASE RequestSwitch
  <2>1. op' \in Ops
    BY <1>8 DEF RequestSwitch, Ops
  <2>2. at' \in Places /\ at' \notin Reads /\ retry' \in 0..MaxRetries
    BY <1>8, ConstantsAssumption DEF RequestSwitch, Places, Switches, Reads
  <2> QED
    BY <1>4, <1>8, <2>1, <2>2 DEF Typed, RequestSwitch, eng
<1>25. CASE PreemptRead \/ PreemptWrite
  <2>1. PICK k \in {"read", "write"}, l \in Lba, b \in Buf,
             v \in Data \cup {None} :
          Preempt(k, l, b, v)
    BY <1>25, ConstantsAssumption DEF PreemptRead, PreemptWrite
  <2>2. outer' = [at |-> at, op |-> op, status |-> status, retry |-> retry]
    BY <2>1 DEF Preempt
  <2>3. outer' \in Frames /\ (outer'.at \in Reads => outer'.retry < MaxRetries)
    BY <1>1, <1>2, <2>2, PlacesAre DEF Frames, Types, Statuses
  <2>4. wrote' \in BOOLEAN
    BY <1>2, <2>1 DEF Preempt
  <2> QED
    BY <1>6, <2>1, <2>3, <2>4 DEF Preempt
<1>26. CASE Resume
  <2>1. /\ at' \in Places /\ op' \in Ops /\ status' \in {"none", "SUCCESS", "ERROR"}
        /\ retry' \in 0..MaxRetries /\ (at' \in Reads => retry' < MaxRetries)
    BY <1>1, <1>2, <1>26, PlacesAre DEF Resume, Frames, Types, Statuses
  <2>2. outer' \in Frames /\ outer'.at \notin Reads
    BY <1>26, PlacesAre, ConstantsAssumption
       DEF Resume, NoFrame, Frames, Places, Ops, Statuses, Reads
  <2> QED
    BY <1>4, <1>26, <2>1, <2>2 DEF Typed, Resume, eng
<1>9. ASSUME NEW t \in Tables, NEW b \in Buffers, Arm(t, b), at' \in Places,
             at' \in Reads => at \in Reads,
             UNCHANGED <<op, pend, status, retry, dto, prg, mem, card, turn>>
      PROVE  Typed'
  <2>1. desc' \in [Tables -> [own : BOOLEAN, buf : Buffers \cup {None}]]
        /\ (\A u \in Tables : desc'[u].own => desc'[u].buf \in Buffers)
        /\ dbaddr' = t /\ bmod' = TRUE /\ dmaEn' = TRUE /\ xfer' = None /\ late' = {}
    BY <1>1, <1>9, ArmHolds
  <2> QED
    BY <1>4, <1>9, <2>1 DEF Typed, turn
<1>10. op.kind = "read" \/ op.kind = "write" => op.buf \in Buffers
  BY <1>2 DEF Ops, NoOp, Buffers
<1>11. CASE ReadWarm \/ SwitchArm
  BY <1>9, <1>11
     DEF ReadWarm, SwitchArm, Buffers, Tables, Places, Reads, Switches
<1>12. CASE ReadArm \/ WriteArm
  BY <1>1, <1>9, <1>10, <1>12
     DEF ReadArm, WriteArm, Asked, Fits, Tables, Places, Reads, Writes
<1>13. CASE ReadCheck
  <2>1. CASE mem[op.buf] \in Signed
    BY <1>4, <1>13, <2>1 DEF ReadCheck, Typed, eng, turn, Places, Reads
  <2>2. CASE mem[op.buf] \notin Signed
    BY <1>1, <1>9, <1>10, <1>13, <2>2
       DEF ReadCheck, Asked, Fits, Tables, Places, Reads
  <2> QED
    BY <2>1, <2>2
<1>14. ASSUME NEW heard \in BOOLEAN, Issue(heard)
       PROVE  Typed'
  <2>1. at \in DataCmds \cup {"stopCmd"} /\ at' \in Places
        /\ (at' \in Reads => at \in Reads)
    BY <1>14, SendingIs
       DEF Issue, DataCmds, Places, Reads, Writes, Switches
  <2>2. Phase \in Phases \cup {None}
        /\ (Phase # None => Phase.lba \in Lba \/ Phase.dir = "write")
    BY <1>4 DEF Typed, Phase, Phases
  <2>3. xfer' \in {None, xfer, Phase} /\ dto' = FALSE
        /\ UNCHANGED <<op, pend, status, retry, bmod, dmaEn, dbaddr, desc, prg,
                       mem, card, late, outer, harmed, wrote>>
    BY <1>14 DEF Issue, eng, turn
  <2>4. xfer' \in Phases \cup {None}
        /\ (xfer' # None => xfer'.lba \in Lba \/ xfer'.dir = "write")
    BY <1>4, <2>2, <2>3 DEF Typed
  <2>5. (at' \in Reads => retry' < MaxRetries)
        /\ (outer'.at \in Reads => outer'.retry < MaxRetries)
    BY <1>4, <2>1, <2>3 DEF Typed
  <2> QED
    BY <1>4, <2>1, <2>3, <2>4, <2>5 DEF Typed
<1>15. ASSUME NEW s \in {"SUCCESS", "ERROR"},
              ReturnWarm(s) \/ ReturnRead(s) \/ ReturnWrite(s)
       PROVE  Typed'
  BY <1>4, <1>15
     DEF Typed, ReturnWarm, ReturnRead, ReturnWrite, eng, turn, Places, Reads
<1>16. ASSUME NEW s \in {"SUCCESS", "ERROR"}, ReturnRetry(s)
       PROVE  Typed'
  BY <1>4, <1>16, ConstantsAssumption
     DEF Typed, ReturnRetry, eng, turn, Places, Reads
<1>17. ASSUME NEW s \in {"SUCCESS", "ERROR"}, ReturnSwitch(s)
       PROVE  Typed'
  BY <1>4, <1>17 DEF Typed, ReturnSwitch, eng, turn, Places, Reads
<1>18. CASE SwitchNoMemory \/ ReturnStop
  BY <1>4, <1>18 DEF Typed, SwitchNoMemory, ReturnStop, eng, turn, Places, Reads
<1>19. CASE Finish
  <2>1. op.buf \in Buf
    BY <1>1, <1>2, <1>19 DEF Finish, Asked, Fits, Ends, Ops, NoOp
  <2> QED
    BY <1>4, <1>19, <2>1 DEF Typed, Finish, eng, turn, Places, Reads
<1>20. ASSUME NEW d \in {"read", "write"}, Moves(d)
       PROVE  /\ xfer # None /\ xfer.dir = d
              /\ dbaddr \in Tables /\ desc[dbaddr].buf \in Buffers
              /\ desc' \in [Tables -> [own : BOOLEAN, buf : Buffers \cup {None}]]
              /\ \A u \in Tables : desc'[u].own => desc'[u].buf \in Buffers
              /\ xfer' = None /\ dto' = TRUE
              /\ UNCHANGED <<at, op, pend, status, retry, bmod, dmaEn, dbaddr,
                             late, outer, harmed, wrote>>
  <2>1. dbaddr \in Tables /\ desc[dbaddr].own
    BY <1>2, <1>20 DEF Moves
  <2>2. desc[dbaddr].buf \in Buffers
    BY <1>4, <2>1 DEF Typed
  <2>3. desc' = [desc EXCEPT ![dbaddr].own = FALSE]
    BY <1>20 DEF Moves
  <2>4. desc' \in [Tables -> [own : BOOLEAN, buf : Buffers \cup {None}]]
    BY <1>2, <2>1, <2>3
  <2>5. \A u \in Tables : desc'[u].own => desc'[u].buf \in Buffers
    BY <1>2, <1>4, <2>1, <2>3 DEF Typed
  <2> QED
    BY <1>20, <2>1, <2>2, <2>4, <2>5 DEF Moves, drv, turn
<1>21. CASE CardToMemory
  <2>1. Moves("read")
    BY <1>21 DEF CardToMemory
  <2>2. xfer.lba \in Lba
    BY <1>4, <1>20, <2>1 DEF Typed
  <2>3. mem' \in [Buffers -> Values]
    BY <1>2, <1>20, <1>21, <2>1, <2>2 DEF CardToMemory, Values
  <2> QED
    BY <1>4, <1>20, <1>21, <2>1, <2>3 DEF Typed, CardToMemory
<1>22. CASE MemoryToCard
  <2>1. Moves("write")
    BY <1>22 DEF MemoryToCard
  <2>2. card' \in [Lba -> Values]
    BY <1>2, <1>20, <1>22, <2>1 DEF MemoryToCard
  <2> QED
    BY <1>4, <1>20, <1>22, <2>1, <2>2 DEF Typed, MemoryToCard
<1>23. CASE Programmed
  <2>1. /\ UNCHANGED <<at, op, pend, status, retry, bmod, dmaEn, dbaddr, desc,
                       xfer, dto, mem, card, late, outer, harmed, wrote>>
        /\ prg' \in BOOLEAN
    BY <1>23 DEF Programmed, drv, eng, turn
  <2> QED
    BY <1>4, <2>1 DEF Typed
<1>24. CASE UNCHANGED vars
  BY <1>4, <1>24 DEF Typed, vars
<1> QED
  BY <1>7, <1>8, <1>11, <1>12, <1>13, <1>14, <1>15, <1>16, <1>17, <1>18, <1>19,
     <1>21, <1>22, <1>23, <1>24, <1>25, <1>26 DEF Next, Client, Driver, Hardware

\* A command that is sent moves the driver from its place to the wait.
LEMMA IssuePlaces ==
  ASSUME NEW heard \in BOOLEAN, Issue(heard)
  PROVE  \/ at = "warmCmd" /\ at' = "warmWait"
         \/ at = "readCmd" /\ at' = "readWait"
         \/ at = "retryCmd" /\ at' = "retryWait"
         \/ at = "writeCmd" /\ at' = "writeWait"
         \/ at = "switchCmd" /\ at' = "switchWait"
         \/ at = "stopCmd" /\ at' = "stopWait"
BY SendingIs DEF Issue, DataCmds

\* Request, stored command and place go together.
LEMMA AskedHolds == IInv /\ [Next]_vars => Asked'
<1> SUFFICES ASSUME IInv, [Next]_vars PROVE Asked'
  OBVIOUS
<1>1. Asked
  BY DEF IInv
<1>2. CASE RequestRead \/ RequestWrite \/ PreemptRead \/ PreemptWrite
  <2>1. PICK k \in {"read", "write"}, l \in Lba, b \in Buf,
             v \in Data \cup {None} :
          Ask(k, l, b, v)
    BY <1>2, ConstantsAssumption
       DEF RequestRead, RequestWrite, Request, PreemptRead, PreemptWrite,
       Preempt
  <2>2. Fits(at', op') /\ pend' = [dir |-> op'.kind, lba |-> op'.lba]
    BY <2>1 DEF Ask, Fits, Reads, Writes, Switches, Ends
  <2>3. \/ outer' = outer
        \/ outer' = [at |-> at, op |-> op, status |-> status, retry |-> retry]
    BY <1>2 DEF RequestRead, RequestWrite, Request, PreemptRead, PreemptWrite,
       Preempt
  <2>4. Fits(outer'.at, outer'.op)
    BY <1>1, <2>3 DEF Asked
  <2> QED
    BY <2>2, <2>4 DEF Asked
<1>3. CASE RequestSwitch
  BY <1>1, <1>3 DEF RequestSwitch, Asked, Fits, Reads, Writes, Switches, Ends
<1>4. CASE Resume
  BY <1>1, <1>4 DEF Resume, NoFrame, NoOp, Asked, Fits, Reads, Writes,
     Switches, Ends
<1>5. CASE ReadWarm \/ ReadArm \/ ReadCheck \/ WriteArm \/ SwitchArm
  BY <1>1, <1>5 DEF ReadWarm, ReadArm, ReadCheck, WriteArm, SwitchArm, turn,
     Asked, Fits, Reads, Writes, Switches, Ends
<1>6. ASSUME NEW heard \in BOOLEAN, Issue(heard)
      PROVE  Asked'
  <2>1. op' = op /\ pend' = pend /\ outer' = outer /\ harmed' = harmed
    BY <1>6 DEF Issue, turn
  <2> QED
    BY <1>1, <1>6, <2>1, IssuePlaces
       DEF Asked, Fits, Reads, Writes, Switches, Ends
<1>7. ASSUME NEW s \in {"SUCCESS", "ERROR"},
             ReturnWarm(s) \/ ReturnRead(s) \/ ReturnRetry(s)
      PROVE  Asked'
  BY <1>1, <1>7 DEF ReturnWarm, ReturnRead, ReturnRetry, turn, Asked, Fits,
     Reads, Writes, Switches, Ends
<1>8. ASSUME NEW s \in {"SUCCESS", "ERROR"}, ReturnWrite(s) \/ ReturnSwitch(s)
      PROVE  Asked'
  BY <1>1, <1>8 DEF ReturnWrite, ReturnSwitch, turn, Asked, Fits,
     Reads, Writes, Switches, Ends
<1>9. CASE SwitchNoMemory \/ Finish \/ ReturnStop
  BY <1>1, <1>9 DEF SwitchNoMemory, Finish, ReturnStop, turn, Asked, Fits,
     Reads, Writes, Switches, Ends
<1>10. CASE Hardware \/ UNCHANGED vars
  <2>1. UNCHANGED <<at, op, pend, outer, harmed>>
    BY <1>10, TurnKept DEF Hardware, CardToMemory, MemoryToCard, Programmed,
       Moves, drv, vars
  <2> QED
    BY <1>1, <2>1 DEF Asked
<1> QED
  BY <1>2, <1>3, <1>4, <1>5, <1>6, <1>7, <1>8, <1>9, <1>10
     DEF Next, Client, Driver

\* The buffer of a request, by its kind.
LEMMA RequestBuffer ==
  ASSUME Types
  PROVE  /\ op.kind \in {"read", "write"} => op.lba \in Lba /\ op.buf \in Buf
         /\ op.kind = "switch" => op.lba = None /\ op.buf = Cmd6Buf
BY DEF Types, TypeOK, Ops, NoOp

\* The call that runs and the one it preempted keep to their buffers.
LEMMA NestedHolds == IInv /\ [Next]_vars => Nested'
<1> SUFFICES ASSUME IInv, [Next]_vars PROVE Nested'
  OBVIOUS
<1>1. Types /\ Asked /\ Nested
  BY DEF IInv
<1>2. CASE RequestRead \/ RequestWrite
  <2>1. PICK k \in {"read", "write"}, l \in Lba, b \in Buf \ CallbackBuf,
             v \in Data \cup {None} : Request(k, l, b, v)
    BY <1>2 DEF RequestRead, RequestWrite
  <2> QED
    BY <2>1 DEF Request, Ask, Nested, Preempted
<1>3. CASE RequestSwitch
  BY <1>3, ConstantsAssumption DEF RequestSwitch, Nested, Preempted
<1>4. CASE PreemptRead \/ PreemptWrite
  <2>1. PICK k \in {"read", "write"}, l \in Lba, b \in CallbackBuf,
             v \in Data \cup {None} : Preempt(k, l, b, v)
    BY <1>4, ConstantsAssumption DEF PreemptRead, PreemptWrite
  <2> QED
    BY <1>1, <2>1 DEF Preempt, Ask, Nested, Preempted
<1>5. CASE Resume
  BY <1>1, <1>5 DEF Resume, NoFrame, Nested, Preempted
<1>6. CASE Driver \/ Hardware \/ UNCHANGED vars
  <2>1. op' = op /\ outer' = outer /\ harmed' = harmed
    BY <1>6, TurnKept DEF Driver, Hardware, vars, drv, ReadWarm, ReadArm,
       ReadCheck, WriteArm, SwitchArm, SwitchNoMemory, Issue, ReturnWarm,
       ReturnRead, ReturnRetry, ReturnWrite, ReturnSwitch, Finish, ReturnStop,
       CardToMemory, MemoryToCard, Moves, Programmed
  <2>2. at' # "idle" => at # "idle"
    BY <1>6, IssuePlaces DEF Driver, Hardware, vars, drv, ReadWarm, ReadArm,
       ReadCheck, WriteArm, SwitchArm, SwitchNoMemory, ReturnWarm,
       ReturnRead, ReturnRetry, ReturnWrite, ReturnSwitch, Finish, ReturnStop,
       CardToMemory, MemoryToCard, Moves, Programmed
  <2> QED
    BY <1>1, <2>1, <2>2 DEF Nested, Preempted
<1> QED
  BY <1>2, <1>3, <1>4, <1>5, <1>6 DEF Next, Client

\* A block that moves takes the descriptor, ends the phase and sets DTO.
LEMMA MovesHold ==
  ASSUME Types, NEW d \in {"read", "write"}, Moves(d)
  PROVE  /\ xfer # None /\ xfer.dir = d /\ xfer' = None /\ dto' = TRUE
         /\ dbaddr \in Tables /\ desc[dbaddr].buf \in Buffers
         /\ \A t \in Tables : desc'[t].buf = desc[t].buf
         /\ desc[dbaddr].own /\ ~desc'[dbaddr].own
         /\ UNCHANGED <<at, op, pend, status, retry, bmod, dmaEn, dbaddr, late,
                        outer, harmed>>
<1>1. dbaddr \in Tables /\ desc[dbaddr].own
  BY DEF Moves, Types, TypeOK
<1>2. desc \in [Tables -> [own : BOOLEAN, buf : Buffers \cup {None}]]
  BY DEF Types, TypeOK, Buffers
<1>3. desc' = [desc EXCEPT ![dbaddr].own = FALSE]
  BY DEF Moves
<1>4. (\A t \in Tables : desc'[t].buf = desc[t].buf) /\ ~desc'[dbaddr].own
  BY <1>1, <1>2, <1>3
<1> QED
  BY <1>1, <1>4 DEF Moves, Types, drv, turn

\* The engine stays armed for the request at hand.
LEMMA ArmedHolds == IInv /\ [Next]_vars /\ ~harmed' => Armed'
<1> SUFFICES ASSUME IInv, [Next]_vars, ~harmed' PROVE Armed'
  OBVIOUS
<1> DEFINE Still == UNCHANGED <<desc, dbaddr, bmod, dmaEn>>
<1>2. DOMAIN Sending \ {"stopCmd"} = DataCmds
  BY SendingIs DEF DataCmds
<1>3. ASSUME at' \in Unarmed \cup {"stopCmd", "stopWait", "done"},
             at' \in {"stopCmd", "stopWait", "done"} =>
               dbaddr' = "main" /\ desc'["main"].buf = op'.buf
      PROVE  Armed'
  BY <1>2, <1>3 DEF Armed, ArmedAtIssue, Unarmed, DataCmds,
     Reads, Writes, Switches, Ends
<1>4. CASE Client
  <2>1. ~Resume
    BY DEF Resume
  <2> QED
    BY <1>3, <1>4, <2>1 DEF Client, RequestRead, RequestWrite, Request, Ask,
       RequestSwitch, PreemptRead, PreemptWrite, Preempt, Unarmed
<1> SUFFICES ASSUME Driver \/ Hardware \/ UNCHANGED vars PROVE Armed'
  BY <1>4 DEF Next
<1>1. Types /\ Asked /\ Armed /\ ~harmed
  BY Undisturbed
<1>5. CASE ReadWarm
  <2>1. /\ dbaddr' = "warm" /\ desc'["warm"] = [own |-> TRUE, buf |-> Private]
        /\ bmod' = TRUE /\ dmaEn' = TRUE /\ xfer' = None
    BY <1>1, <1>5, ArmHolds DEF ReadWarm, Tables, Buffers
  <2> QED
    BY <1>2, <1>5, <2>1 DEF ReadWarm, Armed, ArmedAtIssue, Target, Unarmed,
       DataCmds, Reads, Writes, Switches, Ends
<1>6. ASSUME Arm("main", op.buf), op.buf \in Buffers, op' = op,
             at' \in {"readCmd", "retryCmd", "writeCmd", "switchCmd"}
      PROVE  Armed'
  <2>1. /\ dbaddr' = "main" /\ desc'["main"] = [own |-> TRUE, buf |-> op.buf]
        /\ bmod' = TRUE /\ dmaEn' = TRUE /\ xfer' = None
    BY <1>1, <1>6, ArmHolds DEF Tables
  <2>2. ArmedAtIssue'
    BY <1>6, <2>1 DEF ArmedAtIssue, Target
  <2> QED
    BY <1>6, <2>1, <2>2 DEF Armed, DataCmds
<1>7. CASE ReadArm \/ WriteArm
  BY <1>1, <1>6, <1>7, RequestBuffer
     DEF ReadArm, WriteArm, Asked, Fits, Reads, Writes, Buffers
<1>8. CASE SwitchArm
  BY <1>1, <1>6, <1>8, RequestBuffer
     DEF SwitchArm, Asked, Fits, Switches, Buffers
<1>9. CASE ReadCheck
  <2>1. CASE mem[op.buf] \in Signed
    BY <1>1, <1>3, <1>9, <2>1 DEF ReadCheck, Armed, eng, Unarmed, Reads
  <2>2. CASE mem[op.buf] \notin Signed
    BY <1>1, <1>6, <1>9, <2>2, RequestBuffer
       DEF ReadCheck, Asked, Fits, Reads, Buffers
  <2> QED
    BY <2>1, <2>2
<1>10. CASE SwitchNoMemory
  BY <1>3, <1>10 DEF SwitchNoMemory, Unarmed
<1>11. ASSUME NEW heard \in BOOLEAN, Issue(heard)
       PROVE  Armed'
  <2>1. UNCHANGED <<op, desc, dbaddr, bmod, dmaEn>>
    BY <1>11 DEF Issue, eng
  <2> QED
    BY <1>1, <1>2, <1>11, <2>1, IssuePlaces DEF Armed, ArmedAtIssue, Unarmed,
       DataCmds, Reads, Writes, Switches, Ends
<1>12. ASSUME NEW s \in {"SUCCESS", "ERROR"}, ReturnWarm(s)
       PROVE  Armed'
  BY <1>1, <1>2, <1>12 DEF ReturnWarm, eng, Armed, ArmedAtIssue, Unarmed,
     DataCmds, Reads, Writes, Switches, Ends
<1>13. ASSUME NEW s \in {"SUCCESS", "ERROR"},
              ReturnRead(s) \/ ReturnRetry(s) \/ ReturnWrite(s)
       PROVE  Armed'
  <2>1. at' \in {"check", "done"} /\ UNCHANGED <<op, desc, dbaddr, bmod, dmaEn>>
    BY <1>13 DEF ReturnRead, ReturnRetry, ReturnWrite, eng
  <2>2. dbaddr = "main" /\ desc["main"].buf = op.buf
    BY <1>1, <1>13 DEF ReturnRead, ReturnRetry, ReturnWrite, Armed, Unarmed,
       Reads, Writes
  <2> QED
    BY <1>2, <2>1, <2>2 DEF Armed, ArmedAtIssue, DataCmds
<1>14. ASSUME NEW s \in {"SUCCESS", "ERROR"}, ReturnSwitch(s)
       PROVE  Armed'
  BY <1>3, <1>14 DEF ReturnSwitch, Unarmed
<1>15. CASE Finish \/ ReturnStop
  BY <1>1, <1>3, <1>15 DEF Finish, ReturnStop, eng, Armed, Unarmed, Ends
<1>16. ASSUME NEW d \in {"read", "write"}, Moves(d)
       PROVE  Armed'
  <2>1. /\ UNCHANGED <<at, op, dbaddr, bmod, dmaEn>> /\ xfer # None
        /\ desc'["warm"].buf = desc["warm"].buf
        /\ desc'["main"].buf = desc["main"].buf
    BY <1>1, <1>16, MovesHold DEF Tables
  <2>2. at \notin DataCmds
    BY <1>1, <2>1 DEF Armed
  <2>3. ArmedAtIssue'
    BY <1>2, <2>1, <2>2 DEF ArmedAtIssue
  <2> QED
    BY <1>1, <2>1, <2>2, <2>3 DEF Armed
<1>17. CASE Hardware
  <2>1. CASE CardToMemory \/ MemoryToCard
    BY <1>16, <2>1 DEF CardToMemory, MemoryToCard
  <2>2. CASE Programmed
    BY <1>1, <2>2 DEF Programmed, drv, eng, Armed, ArmedAtIssue, Target
  <2> QED
    BY <1>17, <2>1, <2>2 DEF Hardware
<1>18. CASE UNCHANGED vars
  BY <1>1, <1>18 DEF vars, Armed, ArmedAtIssue, Target
<1> QED
  BY <1>5, <1>7, <1>8, <1>9, <1>10, <1>11, <1>12, <1>13, <1>14, <1>15,
     <1>17, <1>18 DEF Driver

\* The phase under way is the one of the command at hand.
LEMMA PhaseHolds == IInv /\ [Next]_vars => PhaseIsCurrent'
<1> SUFFICES ASSUME IInv, [Next]_vars, ~harmed' PROVE PhaseIsCurrent'
  BY DEF PhaseIsCurrent
<1>2. ASSUME xfer' = None \/ at' \in Unarmed
      PROVE  PhaseIsCurrent'
  BY <1>2 DEF PhaseIsCurrent, Unarmed
<1>4. CASE Client
  <2>1. ~Resume
    BY DEF Resume
  <2> QED
    BY <1>2, <1>4, <2>1 DEF Client, RequestRead, RequestWrite, Request, Ask,
       RequestSwitch, PreemptRead, PreemptWrite, Preempt, Unarmed
<1> SUFFICES ASSUME Driver \/ Hardware \/ UNCHANGED vars PROVE PhaseIsCurrent'
  BY <1>4 DEF Next
<1>1. Types /\ Asked /\ Armed /\ PhaseIsCurrent /\ ~harmed
  BY Undisturbed
<1>3. ASSUME xfer' = xfer, op' = op, at \notin Unarmed
      PROVE  PhaseIsCurrent'
  BY <1>1, <1>3 DEF PhaseIsCurrent, Unarmed
<1>5. CASE ReadWarm \/ ReadArm \/ WriteArm \/ SwitchArm
  BY <1>2, <1>5 DEF ReadWarm, ReadArm, WriteArm, SwitchArm, Arm
<1>6. CASE ReadCheck
  BY <1>2, <1>3, <1>6 DEF ReadCheck, Arm, Unarmed
<1>7. ASSUME NEW heard \in BOOLEAN, Issue(heard)
      PROVE  PhaseIsCurrent'
  <2>1. op' = op
    BY <1>7 DEF Issue
  <2>2. CASE at = "stopCmd"
    BY <1>2, <1>3, <1>7, <2>1, <2>2 DEF Issue, Unarmed
  <2>3. CASE at = "switchCmd"
    <3>1. op.kind = "switch" /\ op.lba = None
      BY <1>1, <2>3, RequestBuffer DEF Asked, Fits, Switches
    <3>2. xfer' \in {None, [dir |-> "write", lba |-> None]}
      BY <1>7, <2>3 DEF Issue, Phase
    <3> QED
      BY <2>1, <3>1, <3>2 DEF PhaseIsCurrent
  <2>4. CASE at \notin {"stopCmd", "switchCmd"}
    <3>1. op.kind \in {"read", "write"} /\ pend = [dir |-> op.kind, lba |-> op.lba]
      BY <1>1, <1>7, <2>4, IssuePlaces DEF Asked, Fits, Reads, Writes
    <3>2. xfer' \in {None, pend}
      BY <1>7, <2>4 DEF Issue, Phase
    <3> QED
      BY <2>1, <3>1, <3>2 DEF PhaseIsCurrent
  <2> QED
    BY <2>2, <2>3, <2>4
<1>8. ASSUME NEW s \in {"SUCCESS", "ERROR"},
             ReturnWarm(s) \/ ReturnRead(s) \/ ReturnRetry(s) \/ ReturnWrite(s)
      PROVE  PhaseIsCurrent'
  BY <1>3, <1>8
     DEF ReturnWarm, ReturnRead, ReturnRetry, ReturnWrite, Unarmed
<1>9. ASSUME NEW s \in {"SUCCESS", "ERROR"}, ReturnSwitch(s)
      PROVE  PhaseIsCurrent'
  BY <1>2, <1>9 DEF ReturnSwitch, Unarmed
<1>10. CASE SwitchNoMemory \/ ReturnStop
  BY <1>2, <1>10 DEF SwitchNoMemory, ReturnStop, Unarmed
<1>11. CASE Finish
  BY <1>3, <1>11 DEF Finish, Unarmed
<1>12. CASE CardToMemory \/ MemoryToCard
  BY <1>2, <1>12 DEF CardToMemory, MemoryToCard, Moves
<1>13. CASE Programmed \/ UNCHANGED vars
  BY <1>1, <1>13 DEF Programmed, drv, vars, PhaseIsCurrent
<1> QED
  BY <1>5, <1>6, <1>7, <1>8, <1>9, <1>10, <1>11, <1>12, <1>13
     DEF Driver, Hardware

\* A phase under way while the driver waits or is done is the request's own:
\* a read fills its buffer from its block, a write puts its buffer there.
LEMMA OwnPhase ==
  ASSUME Types, Asked, Armed, PhaseIsCurrent, ~harmed,
         NEW d \in {"read", "write"}, Moves(d)
  PROVE  /\ at \in {"readWait", "check", "retryWait"} =>
              d = "read" /\ desc[dbaddr].buf = op.buf /\ xfer.lba = op.lba
         /\ at = "writeWait" =>
              /\ d = "write" /\ desc[dbaddr].buf = op.buf
              /\ xfer.lba = op.lba /\ xfer.lba \in Lba
         /\ at = "switchWait" => d = "write"
         /\ at \notin DataCmds
<1>1. xfer # None /\ xfer.dir = d
  BY MovesHold
<1>2. at \notin DataCmds
  BY <1>1 DEF Armed
<1>3. ASSUME at \in {"readWait", "check", "retryWait", "writeWait", "switchWait"}
      PROVE  /\ desc[dbaddr].buf = op.buf /\ xfer.lba = op.lba
             /\ d = (IF op.kind = "read" THEN "read" ELSE "write")
  BY <1>1, <1>3 DEF PhaseIsCurrent, Armed, Unarmed, Reads, Writes, Switches, Ends
<1> QED
  BY <1>1, <1>2, <1>3, RequestBuffer DEF Asked, Fits, Reads, Writes, Switches

\* The block is where it belongs once DTO is set.
LEMMA ArrivedHolds == IInv /\ [Next]_vars /\ ~harmed' => Arrived'
<1> SUFFICES ASSUME IInv, [Next]_vars, ~harmed' PROVE Arrived'
  OBVIOUS
<1>2. ASSUME at' \notin DataWaits \cup {"check", "done", "retryCmd"}
      PROVE  Arrived'
  BY <1>2 DEF Arrived, DataWaits
<1>11. CASE Client
  <2>1. ~Resume
    BY DEF Resume
  <2>2. at' \in {"readBusy", "writeBusy", "switchBusy"}
    BY <1>11, <2>1 DEF Client, RequestRead, RequestWrite, Request, Ask,
       RequestSwitch, PreemptRead, PreemptWrite, Preempt
  <2> QED
    BY <1>2, <2>2 DEF DataWaits
<1> SUFFICES ASSUME Driver \/ Hardware \/ UNCHANGED vars PROVE Arrived'
  BY <1>11 DEF Next
<1>1. Types /\ Asked /\ Armed /\ PhaseIsCurrent /\ Arrived /\ ~harmed
  BY Undisturbed
<1>3. CASE ReadWarm \/ ReadArm \/ WriteArm \/ SwitchArm \/ SwitchNoMemory
  <2>1. at' \in {"warmCmd", "readCmd", "writeCmd", "switchCmd", "idle"}
    BY <1>3 DEF ReadWarm, ReadArm, WriteArm, SwitchArm, SwitchNoMemory
  <2> QED
    BY <1>2, <2>1 DEF DataWaits
<1>4. CASE ReadCheck
  BY <1>1, <1>4 DEF ReadCheck, Arm, Arrived, DataWaits
<1>5. ASSUME NEW heard \in BOOLEAN, Issue(heard)
      PROVE  Arrived'
  <2>1. dto' = FALSE /\ UNCHANGED <<op, mem, card>>
    BY <1>5 DEF Issue
  <2> QED
    BY <1>1, <1>5, <2>1, IssuePlaces DEF Arrived, DataWaits
<1>6. ASSUME NEW s \in {"SUCCESS", "ERROR"},
             ReturnWarm(s) \/ ReturnSwitch(s) \/ Finish \/ ReturnStop
      PROVE  Arrived'
  <2>1. at' \in {"readReal", "idle", "stopCmd"}
    BY <1>6 DEF ReturnWarm, ReturnSwitch, Finish, ReturnStop
  <2> QED
    BY <1>2, <2>1 DEF DataWaits
<1>7. ASSUME NEW s \in {"SUCCESS", "ERROR"},
             ReturnRead(s) \/ ReturnRetry(s) \/ ReturnWrite(s)
      PROVE  Arrived'
  <2>1. /\ at' \in {"check", "done"} /\ status' = s /\ (s = "ERROR" \/ dto)
        /\ UNCHANGED <<op, xfer, mem, card>>
    BY <1>7 DEF ReturnRead, ReturnRetry, ReturnWrite, CommandOver
  <2>2. status' # "ERROR" => xfer' = None
    BY <1>1, <1>7, <2>1
       DEF ReturnRead, ReturnRetry, ReturnWrite, Arrived, DataWaits
  <2>3. at' = "check" => mem[op.buf] \in {card[op.lba], Stale}
    BY <1>1, <1>7
       DEF ReturnRead, ReturnRetry, ReturnWrite, CommandOver, Arrived
  <2> QED
    BY <2>1, <2>2, <2>3 DEF Arrived, DataWaits
<1>8. CASE CardToMemory
  <2>1. Moves("read")
    BY <1>8 DEF CardToMemory
  <2>2. /\ xfer' = None /\ UNCHANGED <<at, op, card>>
        /\ at \notin DataCmds /\ at # "writeWait"
        /\ at \in {"readWait", "check", "retryWait"} =>
             desc[dbaddr].buf = op.buf /\ xfer.lba = op.lba
    BY <1>1, <1>8, <2>1, MovesHold, OwnPhase DEF CardToMemory
  <2>3. at \in {"readWait", "check", "retryWait"} => op.buf \in DOMAIN mem
    BY <1>1, RequestBuffer DEF Asked, Fits, Reads, Types, TypeOK
  <2>4. at \in {"readWait", "check", "retryWait"} =>
          mem'[op.buf] \in {card[op.lba], Stale}
    BY <1>8, <2>2, <2>3 DEF CardToMemory
  <2> QED
    BY <2>2, <2>4 DEF Arrived, DataCmds
<1>9. CASE MemoryToCard
  <2>1. Moves("write")
    BY <1>9 DEF MemoryToCard
  <2>2. /\ xfer' = None /\ UNCHANGED <<at, op, mem>>
        /\ at \notin DataCmds /\ at \notin {"readWait", "check", "retryWait"}
        /\ at = "writeWait" => /\ desc[dbaddr].buf = op.buf
                              /\ xfer.lba = op.lba /\ xfer.lba \in Lba
    BY <1>1, <1>9, <2>1, MovesHold, OwnPhase DEF MemoryToCard
  <2>3. at = "writeWait" => card'[op.lba] = mem[op.buf]
    BY <1>1, <1>9, <2>2, ConstantsAssumption DEF MemoryToCard, Types, TypeOK
  <2> QED
    BY <2>2, <2>3 DEF Arrived, DataCmds
<1>10. CASE Programmed \/ UNCHANGED vars
  BY <1>1, <1>10 DEF Programmed, drv, vars, Arrived
<1> QED
  BY <1>3, <1>4, <1>5, <1>6, <1>7, <1>8, <1>9, <1>10
     DEF Driver, Hardware

\* A step inside "done" with a success moves nothing.
LEMMA NothingMoves ==
  ASSUME Types, Arrived, at = "done", status = "SUCCESS",
         NEW d \in {"read", "write"}
  PROVE  ~Moves(d)
BY MovesHold DEF Arrived

\* A request that ends with success, and was not preempted, has moved its
\* block.
LEMMA SuccessHolds == IInv /\ [Next]_vars => SuccessMovedTheBlock'
<1> SUFFICES ASSUME IInv, [Next]_vars, ~harmed' PROVE SuccessMovedTheBlock'
  BY DEF SuccessMovedTheBlock
<1>2. ASSUME at' # "done"
      PROVE  SuccessMovedTheBlock'
  BY <1>2 DEF SuccessMovedTheBlock
<1>12. CASE Client
  <2>1. ~Resume
    BY DEF Resume
  <2> QED
    BY <1>2, <1>12, <2>1 DEF Client, RequestRead, RequestWrite, Request, Ask,
       RequestSwitch, PreemptRead, PreemptWrite, Preempt
<1> SUFFICES ASSUME Driver \/ Hardware \/ UNCHANGED vars
             PROVE  SuccessMovedTheBlock'
  BY <1>12 DEF Next
<1>1. Types /\ Asked /\ Arrived /\ SuccessMovedTheBlock /\ ~harmed
  BY Undisturbed
<1>3. CASE ReadWarm \/ ReadArm \/ WriteArm \/ SwitchArm \/ SwitchNoMemory
  BY <1>2, <1>3 DEF ReadWarm, ReadArm, WriteArm, SwitchArm, SwitchNoMemory
<1>4. CASE ReadCheck
  <2>1. CASE mem[op.buf] \in Signed
    <3>1. op.kind = "read" /\ mem[op.buf] \in {card[op.lba], Stale}
      BY <1>1, <1>4 DEF ReadCheck, Asked, Fits, Reads, Arrived
    <3> QED
      BY <1>4, <3>1 DEF ReadCheck, SuccessMovedTheBlock
  <2>2. CASE mem[op.buf] \notin Signed
    BY <1>2, <1>4, <2>2 DEF ReadCheck
  <2> QED
    BY <2>1, <2>2
<1>5. ASSUME NEW heard \in BOOLEAN, Issue(heard)
      PROVE  SuccessMovedTheBlock'
  BY <1>2, <1>5, IssuePlaces
<1>6. ASSUME NEW s \in {"SUCCESS", "ERROR"},
             ReturnWarm(s) \/ ReturnSwitch(s) \/ Finish \/ ReturnStop
      PROVE  SuccessMovedTheBlock'
  BY <1>2, <1>6 DEF ReturnWarm, ReturnSwitch, Finish, ReturnStop
<1>7. ASSUME NEW s \in {"SUCCESS", "ERROR"}, ReturnRead(s)
      PROVE  SuccessMovedTheBlock'
  <2>1. op.kind = "read" /\ (dto => mem[op.buf] \in {card[op.lba], Stale})
    BY <1>1, <1>7 DEF ReturnRead, Asked, Fits, Reads, Arrived
  <2> QED
    BY <1>7, <2>1 DEF ReturnRead, CommandOver, SuccessMovedTheBlock
<1>8. ASSUME NEW s \in {"SUCCESS", "ERROR"}, ReturnRetry(s)
      PROVE  SuccessMovedTheBlock'
  <2>1. op.kind = "read" /\ mem[op.buf] \in {card[op.lba], Stale}
    BY <1>1, <1>8 DEF ReturnRetry, Asked, Fits, Reads, Arrived
  <2> QED
    BY <1>8, <2>1 DEF ReturnRetry, SuccessMovedTheBlock
<1>9. ASSUME NEW s \in {"SUCCESS", "ERROR"}, ReturnWrite(s)
      PROVE  SuccessMovedTheBlock'
  <2>1. op.kind = "write" /\ (dto => card[op.lba] = mem[op.buf])
    BY <1>1, <1>9 DEF ReturnWrite, Asked, Fits, Writes, Arrived
  <2> QED
    BY <1>9, <2>1 DEF ReturnWrite, CommandOver, SuccessMovedTheBlock
<1>10. CASE CardToMemory \/ MemoryToCard
  <2>1. PICK d \in {"read", "write"} : Moves(d)
    BY <1>10 DEF CardToMemory, MemoryToCard
  <2>2. at' = at /\ status' = status
    BY <1>1, <2>1, MovesHold
  <2>3. ~(at = "done" /\ status = "SUCCESS")
    BY <1>1, <2>1, NothingMoves
  <2> QED
    BY <2>2, <2>3 DEF SuccessMovedTheBlock
<1>11. CASE Programmed \/ UNCHANGED vars
  BY <1>1, <1>11 DEF Programmed, drv, vars, SuccessMovedTheBlock
<1> QED
  BY <1>3, <1>4, <1>5, <1>6, <1>7, <1>8, <1>9, <1>10, <1>11
     DEF Driver, Hardware

\* Arming clears what is late; only a request that fails adds to it, and it
\* never adds the buffer of the call it preempted.
LEMMA LateHolds == IInv /\ [Next]_vars => LateIsPast'
<1> SUFFICES ASSUME IInv, [Next]_vars PROVE LateIsPast'
  OBVIOUS
<1>1. Types /\ Asked /\ Nested /\ LateIsPast
  BY DEF IInv
<1>2. CASE RequestRead \/ RequestWrite \/ RequestSwitch
  <2>1. at' \in Past /\ UNCHANGED <<outer, late>>
    BY <1>2 DEF RequestRead, RequestWrite, Request, Ask, RequestSwitch,
       Past, Unarmed
  <2> QED
    BY <1>1, <2>1 DEF LateIsPast, Fresh
<1>3. CASE PreemptRead \/ PreemptWrite
  <2>1. /\ at' \in Past /\ late' = late
        /\ outer' = [at |-> at, op |-> op, status |-> status, retry |-> retry]
    BY <1>3 DEF PreemptRead, PreemptWrite, Preempt, Ask, Past, Unarmed
  <2> QED
    BY <1>1, <2>1 DEF LateIsPast, Fresh
<1>4. CASE Resume
  BY <1>1, <1>4 DEF Resume, NoFrame, LateIsPast, Fresh, Past, Unarmed
<1>5. ASSUME late' = {}
      PROVE  LateIsPast'
  BY <1>5 DEF LateIsPast, Fresh
<1>6. ASSUME UNCHANGED <<op, outer, late>>, at' \in Past \/ at \notin Past
      PROVE  LateIsPast'
  BY <1>1, <1>6 DEF LateIsPast, Fresh
<1>7. CASE ReadWarm \/ ReadArm \/ WriteArm \/ SwitchArm
  BY <1>5, <1>7 DEF ReadWarm, ReadArm, WriteArm, SwitchArm, Arm
<1>8. CASE ReadCheck
  BY <1>5, <1>6, <1>8 DEF ReadCheck, Arm, turn, Past, Unarmed
<1>9. CASE SwitchNoMemory \/ ReturnStop
  BY <1>6, <1>9 DEF SwitchNoMemory, ReturnStop, turn, Past, Unarmed
<1>10. ASSUME NEW heard \in BOOLEAN, Issue(heard)
       PROVE  LateIsPast'
  <2>1. UNCHANGED <<op, outer, late>>
    BY <1>10 DEF Issue, turn
  <2> QED
    BY <1>6, <1>10, <2>1, IssuePlaces DEF Past, Unarmed
<1>11. ASSUME NEW s \in {"SUCCESS", "ERROR"},
              ReturnWarm(s) \/ ReturnRead(s) \/ ReturnRetry(s) \/ ReturnWrite(s)
       PROVE  LateIsPast'
  BY <1>6, <1>11
     DEF ReturnWarm, ReturnRead, ReturnRetry, ReturnWrite, turn, Past, Unarmed
<1>12. ASSUME NEW s \in {"SUCCESS", "ERROR"}, ReturnSwitch(s)
       PROVE  LateIsPast'
  <2>1. op.kind = "switch"
    BY <1>1, <1>12 DEF ReturnSwitch, Asked, Fits, Switches
  <2>2. outer.at = "idle"
    BY <1>1, <2>1 DEF Nested, Preempted
  <2> QED
    BY <1>12, <2>2 DEF ReturnSwitch, turn, LateIsPast, Fresh, Past, Unarmed
<1>13. CASE Finish
  <2>1. outer.at = "idle" \/ op.buf # outer.op.buf
    BY <1>1 DEF Nested, Preempted
  <2> QED
    BY <1>1, <1>13, <2>1 DEF Finish, turn, LateIsPast, Fresh, Past, Unarmed
<1>14. CASE Hardware \/ UNCHANGED vars
  <2>1. UNCHANGED <<at, op, outer, late>>
    BY <1>14, TurnKept DEF Hardware, CardToMemory, MemoryToCard, Programmed,
       Moves, drv, vars
  <2> QED
    BY <1>6, <2>1
<1> QED
  BY <1>2, <1>3, <1>4, <1>7, <1>8, <1>9, <1>10, <1>11, <1>12, <1>13, <1>14
     DEF Next, Client, Driver

\* Where a table leads to once the driver has armed it.
LEMMA ArmedIsOwned ==
  ASSUME Types, NEW t \in Tables, NEW b \in Buffers, Arm(t, b), op' = op,
         \/ b = Private /\ at' = "warmCmd"
         \/ b = op.buf /\ at' \in DataCmds \ {"warmCmd"}
  PROVE  Owned'
<1>1. dbaddr' = t /\ desc'[t] = [own |-> TRUE, buf |-> b]
  BY ArmHolds
<1>2. desc'[dbaddr'].buf = b
  BY <1>1
<1> QED
  BY <1>2, ConstantsAssumption DEF Owned, Reaching

\* The engine never owns a table that leads anywhere else.
LEMMA OwnedHolds == IInv /\ [Next]_vars => Owned'
<1> SUFFICES ASSUME IInv, [Next]_vars PROVE Owned'
  OBVIOUS
<1>1. Types /\ Asked /\ Nested /\ Owned
  BY DEF IInv
<1>2. CASE RequestRead \/ RequestWrite \/ RequestSwitch
  <2>1. at = "idle" /\ UNCHANGED <<desc, dbaddr, late>>
    BY <1>2 DEF RequestRead, RequestWrite, Request, Ask, RequestSwitch, eng
  <2>2. ~Reaching
    BY <2>1 DEF Reaching, DataCmds, DataWaits
  <2> QED
    BY <1>1, <2>1, <2>2 DEF Owned
<1>3. CASE PreemptRead \/ PreemptWrite
  <2>1. /\ at # "idle" /\ ~Preempted /\ at' \in {"readBusy", "writeBusy"}
        /\ outer' = [at |-> at, op |-> op, status |-> status, retry |-> retry]
        /\ UNCHANGED <<desc, dbaddr, late>>
    BY <1>3 DEF PreemptRead, PreemptWrite, Preempt, Ask, eng
  <2>2. Preempted'
    BY <2>1 DEF Preempted
  <2>3. Reaching => ~(at = "done" /\ status = "SUCCESS")
    BY DEF Reaching, DataCmds, DataWaits
  <2> QED
    BY <1>1, <2>1, <2>2, <2>3 DEF Owned
<1>4. CASE Resume
  <2>1. at = "idle" /\ UNCHANGED <<desc, dbaddr, late>>
    BY <1>4 DEF Resume, eng
  <2>2. ~Reaching
    BY <2>1 DEF Reaching, DataCmds, DataWaits
  <2> QED
    BY <1>1, <2>1, <2>2 DEF Owned
<1>5. CASE ReadWarm
  BY <1>1, <1>5, ArmedIsOwned DEF ReadWarm, Tables, Buffers
<1>6. CASE ReadArm \/ WriteArm
  BY <1>1, <1>6, ArmedIsOwned, RequestBuffer
     DEF ReadArm, WriteArm, Asked, Fits, Reads, Writes, Buffers, Tables,
     DataCmds
<1>7. CASE SwitchArm
  BY <1>1, <1>7, ArmedIsOwned, RequestBuffer
     DEF SwitchArm, Asked, Fits, Switches, Buffers, Tables, DataCmds
\* Steps after which no more than before can reach the buffer at hand.
<1>8. ASSUME UNCHANGED <<op, desc, dbaddr, outer>>, late \subseteq late',
             at \notin {"readBusy", "writeBusy"}, Reaching => Reaching'
      PROVE  Owned'
  BY <1>1, <1>8 DEF Owned
<1>9. CASE ReadCheck
  <2>1. CASE mem[op.buf] \in Signed
    BY <1>8, <1>9, <2>1
       DEF ReadCheck, turn, eng, Reaching, DataCmds, DataWaits
  <2>2. CASE mem[op.buf] \notin Signed
    BY <1>1, <1>9, <2>2, ArmedIsOwned, RequestBuffer
       DEF ReadCheck, Asked, Fits, Reads, Buffers, Tables, DataCmds
  <2> QED
    BY <2>1, <2>2
<1>10. CASE SwitchNoMemory \/ ReturnStop
  BY <1>8, <1>10
     DEF SwitchNoMemory, ReturnStop, turn, eng, Reaching, DataCmds, DataWaits
<1>11. ASSUME NEW heard \in BOOLEAN, Issue(heard)
       PROVE  Owned'
  <2>1. UNCHANGED <<op, desc, dbaddr, outer, late>> /\ dto' = FALSE
    BY <1>11 DEF Issue, turn, eng
  <2>2. Reaching => Reaching'
    BY <1>11, <2>1, IssuePlaces DEF Reaching, DataCmds, DataWaits
  <2> QED
    BY <1>8, <1>11, <2>1, <2>2, IssuePlaces
<1>12. ASSUME NEW s \in {"SUCCESS", "ERROR"},
              ReturnWarm(s) \/ ReturnRead(s) \/ ReturnRetry(s) \/ ReturnWrite(s)
       PROVE  Owned'
  BY <1>8, <1>12
     DEF ReturnWarm, ReturnRead, ReturnRetry, ReturnWrite, CommandOver, turn,
     eng, Reaching, DataCmds, DataWaits
<1>13. ASSUME NEW s \in {"SUCCESS", "ERROR"}, ReturnSwitch(s)
       PROVE  Owned'
  <2>1. op.buf \notin Buf
    BY <1>1, <1>13, RequestBuffer, ConstantsAssumption
       DEF ReturnSwitch, Asked, Fits, Switches
  <2> QED
    BY <1>1, <1>13, <2>1 DEF ReturnSwitch, turn, eng, Owned
<1>14. CASE Finish
  <2>1. CASE status = "SUCCESS"
    BY <1>8, <1>14, <2>1
       DEF Finish, turn, eng, Reaching, DataCmds, DataWaits
  <2>2. CASE status # "SUCCESS"
    BY <1>1, <1>14, <2>2 DEF Finish, turn, eng, Owned
  <2> QED
    BY <2>1, <2>2
<1>15. CASE CardToMemory \/ MemoryToCard
  <2>1. PICK d \in {"read", "write"} : Moves(d)
    BY <1>15 DEF CardToMemory, MemoryToCard
  <2> QED
    BY <1>1, <2>1, MovesHold DEF Owned
<1>16. CASE Programmed \/ UNCHANGED vars
  BY <1>1, <1>16
     DEF Programmed, drv, turn, eng, vars, Owned, Reaching, Preempted
<1> QED
  BY <1>2, <1>3, <1>4, <1>5, <1>6, <1>7, <1>9, <1>10, <1>11, <1>12, <1>13,
     <1>14, <1>15, <1>16 DEF Next, Client, Driver, Hardware

\* What the engine may write to when it moves a block to memory.
LEMMA EngineWrites ==
  ASSUME Types, Owned, CardToMemory, NEW b \in Buffers, mem'[b] # mem[b]
  PROVE  /\ desc[dbaddr].buf = b /\ xfer # None /\ xfer.dir = "read"
         /\ Moves("read")
         /\ \/ b \in late \/ b \notin Buf
            \/ Reaching /\ b = op.buf
            \/ /\ Preempted /\ at \in {"readBusy", "writeBusy"}
               /\ b = outer.op.buf
               /\ ~(outer.at = "done" /\ outer.status = "SUCCESS")
<1>1. Moves("read") /\ mem \in [Buffers -> Values]
  BY DEF CardToMemory, Types, TypeOK, Buffers
<1>2. xfer # None /\ xfer.dir = "read" /\ dbaddr \in Tables /\ desc[dbaddr].own
  BY <1>1, MovesHold
<1>3. b = desc[dbaddr].buf
  BY <1>1 DEF CardToMemory
<1> QED
  BY <1>1, <1>2, <1>3 DEF Owned, Tables

\* The buffer of a read that was successful, and of a preempted call that was
\* to report success, keeps what it holds.
LEMMA DoneIsQuiet ==
  ASSUME IInv, [Next]_vars
  PROVE  /\ at = "done" /\ status = "SUCCESS" /\ op.kind = "read" =>
              mem'[op.buf] = mem[op.buf]
         /\ outer.at = "done" /\ outer.status = "SUCCESS"
            /\ outer.op.kind = "read" => mem'[outer.op.buf] = mem[outer.op.buf]
<1>1. /\ Types /\ Asked /\ Nested /\ LateIsPast /\ Owned
      /\ mem \in [Buffers -> Values]
  BY DEF IInv, Types, TypeOK, Buffers
<1>2. CASE RequestRead \/ RequestWrite
  BY <1>2 DEF RequestRead, RequestWrite, Request, Preempted
<1>3. CASE PreemptRead \/ PreemptWrite
  <2>1. PICK k \in {"read", "write"}, l \in Lba, c \in CallbackBuf,
             v \in Data \cup {None} : Preempt(k, l, c, v)
    BY <1>3, ConstantsAssumption DEF PreemptRead, PreemptWrite
  <2>2. op.buf # c /\ outer.at = "idle" /\ mem' = [mem EXCEPT ![c] = v]
    BY <1>1, <2>1 DEF Preempt, Ask, Nested, Preempted
  <2> QED
    BY <1>1, <2>2
<1>4. CASE CardToMemory
  <2>1. ASSUME at = "done", status = "SUCCESS", op.kind = "read",
               mem'[op.buf] # mem[op.buf]
        PROVE  FALSE
    <3>1. op.buf \in Buf /\ op.buf \notin late /\ ~Reaching
      BY <1>1, <2>1, RequestBuffer
         DEF LateIsPast, Fresh, Past, Unarmed, Reaching, DataCmds, DataWaits
    <3> QED
      BY <1>1, <1>4, <2>1, <3>1, EngineWrites DEF Buffers
  <2>2. ASSUME outer.at = "done", outer.status = "SUCCESS",
               outer.op.kind = "read", mem'[outer.op.buf] # mem[outer.op.buf]
        PROVE  FALSE
    <3>1. outer.op.buf \in Buf
      BY <1>1, <2>2 DEF Types, TypeOK, Frames, Ops, NoOp
    <3>2. outer.op.buf \notin late /\ outer.op.buf # op.buf
      BY <1>1, <2>2 DEF LateIsPast, Fresh, Past, Unarmed, Nested, Preempted
    <3> QED
      BY <1>1, <1>4, <2>2, <3>1, <3>2, EngineWrites DEF Buffers
  <2> QED
    BY <2>1, <2>2
<1>5. CASE RequestSwitch \/ Resume \/ Driver \/ MemoryToCard \/ Programmed
           \/ UNCHANGED vars
  BY <1>5 DEF RequestSwitch, Resume, MemoryToCard, Programmed, vars, Driver,
     ReadWarm, ReadArm, ReadCheck, WriteArm, SwitchArm, SwitchNoMemory, Issue,
     ReturnWarm, ReturnRead, ReturnRetry, ReturnWrite, ReturnSwitch, Finish,
     ReturnStop
<1> QED
  BY <1>2, <1>3, <1>4, <1>5 DEF Next, Client, Hardware

\* Only clients store a command.
LEMMA StoredReadHolds == IInv /\ [Next]_vars => StoredRead'
<1> SUFFICES ASSUME IInv, [Next]_vars PROVE StoredRead'
  OBVIOUS
<1>1. StoredRead
  BY DEF IInv
<1>2. CASE RequestRead \/ RequestWrite
  BY <1>1, <1>2 DEF RequestRead, RequestWrite, Request, Ask, StoredRead,
     Preempted
<1>3. CASE RequestSwitch
  BY <1>1, <1>3 DEF RequestSwitch, StoredRead, Preempted
<1>4. CASE PreemptRead \/ PreemptWrite
  <2>1. PICK k \in {"read", "write"}, l \in Lba, c \in CallbackBuf,
             v \in Data \cup {None} : Preempt(k, l, c, v)
    BY <1>4, ConstantsAssumption DEF PreemptRead, PreemptWrite
  <2>2. pend'.dir = k /\ (~wrote' => k = "read")
    BY <2>1 DEF Preempt, Ask
  <2> QED
    BY <2>2 DEF StoredRead
<1>5. CASE Resume
  BY <1>1, <1>5 DEF Resume, StoredRead, NoFrame, Preempted
<1>6. CASE Driver \/ Hardware \/ UNCHANGED vars
  <2>1. UNCHANGED <<op, pend, outer, wrote>>
    BY <1>6, TurnKept DEF Driver, Hardware, vars, drv, ReadWarm, ReadArm,
       ReadCheck, WriteArm, SwitchArm, SwitchNoMemory, Issue, ReturnWarm,
       ReturnRead, ReturnRetry, ReturnWrite, ReturnSwitch, Finish, ReturnStop,
       CardToMemory, MemoryToCard, Moves, Programmed
  <2> QED
    BY <1>1, <2>1 DEF StoredRead, Preempted
<1> QED
  BY <1>2, <1>3, <1>4, <1>5, <1>6 DEF Next, Client

\* A critical block that stayed stale was read MaxRetries times more, unless a
\* write preempted the call.
LEMMA StaleHolds == IInv /\ [Next]_vars => StaleIsLast'
<1> SUFFICES ASSUME IInv, [Next]_vars PROVE StaleIsLast'
  OBVIOUS
<1>1. Types /\ Asked /\ StoredRead /\ StaleIsLast
  BY DEF IInv
<1> DEFINE Mine == StaleLast(at, op, status, retry, ~(harmed /\ wrote))
           Outers == StaleLast(outer.at, outer.op, outer.status, outer.retry,
                               ~wrote)
<1>2. StaleIsLast = (Mine /\ Outers) /\ StaleIsLast' = (Mine' /\ Outers')
  BY DEF StaleIsLast
<1>3. ASSUME at' # "done" \/ UNCHANGED <<at, op, status, retry, turn>>
      PROVE  Mine'
  BY <1>1, <1>2, <1>3, DoneIsQuiet DEF StaleLast, turn
<1>4. ASSUME outer' = outer, wrote' = wrote \/ outer.at # "done"
      PROVE  Outers'
  BY <1>1, <1>2, <1>4, DoneIsQuiet DEF StaleLast
<1>5. CASE RequestRead \/ RequestWrite \/ RequestSwitch
  BY <1>2, <1>3, <1>4, <1>5
     DEF RequestRead, RequestWrite, Request, Ask, RequestSwitch, Preempted
<1>6. CASE PreemptRead \/ PreemptWrite
  <2>1. /\ at' # "done" /\ (wrote => wrote')
        /\ outer' = [at |-> at, op |-> op, status |-> status, retry |-> retry]
    BY <1>6 DEF PreemptRead, PreemptWrite, Preempt, Ask
  <2>2. Outers'
    BY <1>1, <1>2, <2>1, DoneIsQuiet DEF StaleLast
  <2> QED
    BY <1>2, <1>3, <2>1, <2>2
<1>7. CASE Resume
  <2>1. /\ at' = outer.at /\ op' = outer.op /\ status' = outer.status
        /\ retry' = outer.retry /\ mem' = mem /\ outer'.at # "done"
        /\ wrote' = wrote /\ harmed'
    BY <1>7 DEF Resume, NoFrame
  <2> QED
    BY <1>1, <1>2, <2>1 DEF StaleLast
<1> SUFFICES ASSUME Driver \/ Hardware \/ UNCHANGED vars PROVE Mine'
  BY <1>2, <1>4, <1>5, <1>6, <1>7, TurnKept DEF Next, Client
<1>8. CASE ReadWarm \/ ReadArm \/ WriteArm \/ SwitchArm \/ SwitchNoMemory
  BY <1>3, <1>8 DEF ReadWarm, ReadArm, WriteArm, SwitchArm, SwitchNoMemory
<1>9. CASE ReadCheck
  <2>1. mem[op.buf] \in Signed => mem[op.buf] # Stale
    BY ConstantsAssumption
  <2> QED
    BY <1>3, <1>9, <2>1 DEF ReadCheck, StaleLast
<1>10. ASSUME NEW heard \in BOOLEAN, Issue(heard)
       PROVE  Mine'
  BY <1>3, <1>10, IssuePlaces
<1>11. ASSUME NEW s \in {"SUCCESS", "ERROR"},
              ReturnWarm(s) \/ ReturnSwitch(s) \/ Finish \/ ReturnStop
       PROVE  Mine'
  BY <1>3, <1>11 DEF ReturnWarm, ReturnSwitch, Finish, ReturnStop
<1>12. ASSUME NEW s \in {"SUCCESS", "ERROR"}, ReturnRead(s)
       PROVE  Mine'
  <2>1. op.kind = "read" /\ (~harmed => pend.dir = "read")
    BY <1>1, <1>12 DEF ReturnRead, Asked, Fits, Reads
  <2>2. ~(harmed /\ wrote) => pend.dir = "read"
    BY <1>1, <2>1 DEF StoredRead
  <2>3. /\ UNCHANGED <<op, harmed, wrote>> /\ status' = s
        /\ at' = IF s = "SUCCESS" /\ op.lba \in Critical /\ pend.dir = "read"
                   THEN "check" ELSE "done"
    BY <1>12 DEF ReturnRead, turn
  <2> QED
    BY <2>2, <2>3 DEF StaleLast
<1>13. ASSUME NEW s \in {"SUCCESS", "ERROR"}, ReturnRetry(s)
       PROVE  Mine'
  <2>1. at' = "done" => retry' = MaxRetries
    BY <1>1, <1>13, ConstantsAssumption DEF ReturnRetry, Types, TypeOK, Reads
  <2> QED
    BY <2>1 DEF StaleLast
<1>14. ASSUME NEW s \in {"SUCCESS", "ERROR"}, ReturnWrite(s)
       PROVE  Mine'
  <2>1. op'.kind # "read"
    BY <1>1, <1>14 DEF ReturnWrite, Asked, Fits, Writes
  <2> QED
    BY <2>1 DEF StaleLast
<1>15. CASE Hardware \/ UNCHANGED vars
  <2>1. UNCHANGED <<at, op, status, retry, turn>>
    BY <1>15 DEF Hardware, CardToMemory, MemoryToCard, Programmed, Moves, drv,
       turn, vars
  <2> QED
    BY <1>3, <2>1
<1> QED
  BY <1>8, <1>9, <1>10, <1>11, <1>12, <1>13, <1>14, <1>15 DEF Driver

\* One step of CallerBufferSpared.
Spared ==
  \A b \in Buf :
    mem'[b] # mem[b] =>
      \/ (at = "idle" \/ outer' # outer) /\ op'.buf = b
      \/ /\ at \in {"readWait", "retryWait", "readCmd", "retryCmd", "check"}
         /\ op.buf = b /\ op.kind = "read"
      \/ b \in late
      \/ at = "done" /\ status = "ERROR" /\ op.buf = b
      \/ harmed /\ op.buf = b
      \/ /\ Preempted /\ outer.op.buf = b
         /\ at \in {"readBusy", "writeBusy"}

\* Only a request and the engine write to a buffer of a client.
LEMMA StepSpares == IInv /\ [Next]_vars => Spared
<1> SUFFICES ASSUME IInv, [Next]_vars, NEW b \in Buf, mem'[b] # mem[b]
             PROVE  \/ (at = "idle" \/ outer' # outer) /\ op'.buf = b
                    \/ /\ at \in {"readWait", "retryWait", "readCmd", "retryCmd",
                                  "check"}
                       /\ op.buf = b /\ op.kind = "read"
                    \/ b \in late
                    \/ at = "done" /\ status = "ERROR" /\ op.buf = b
                    \/ harmed /\ op.buf = b
                    \/ /\ Preempted /\ outer.op.buf = b
                       /\ at \in {"readBusy", "writeBusy"}
  BY DEF Spared
<1>1. /\ Types /\ Asked /\ Nested /\ Owned
      /\ mem \in [Buffers -> Values]
  BY DEF IInv, Types, TypeOK, Buffers
<1>2. CASE RequestRead \/ RequestWrite
  <2>1. PICK k \in {"read", "write"}, l \in Lba, c \in Buf,
             v \in Data \cup {None} :
          Request(k, l, c, v)
    BY <1>2 DEF RequestRead, RequestWrite
  <2>2. b = c
    BY <1>1, <2>1 DEF Request, Ask, Buffers
  <2> QED
    BY <2>1, <2>2 DEF Request, Ask
<1>3. CASE PreemptRead \/ PreemptWrite
  <2>1. PICK k \in {"read", "write"}, l \in Lba, c \in Buf,
             v \in Data \cup {None} :
          Preempt(k, l, c, v)
    BY <1>3, ConstantsAssumption DEF PreemptRead, PreemptWrite
  <2>2. b = c
    BY <1>1, <2>1 DEF Preempt, Ask, Buffers
  <2>3. outer'.at # outer.at
    BY <2>1 DEF Preempt, Preempted
  <2> QED
    BY <2>1, <2>2, <2>3 DEF Preempt, Ask
<1>4. CASE CardToMemory
  <2>1. /\ desc[dbaddr].buf = b /\ xfer # None /\ xfer.dir = "read"
        /\ Moves("read")
        /\ \/ b \in late
           \/ Reaching /\ b = op.buf
           \/ /\ Preempted /\ at \in {"readBusy", "writeBusy"}
              /\ b = outer.op.buf
    BY <1>1, <1>4, EngineWrites DEF Buffers
  <2>2. ASSUME Reaching, b = op.buf, ~harmed
        PROVE  \/ at \in {"readWait", "retryWait", "check"} /\ op.kind = "read"
               \/ at = "done" /\ status = "ERROR"
    <3>1. Armed /\ Arrived /\ PhaseIsCurrent
      BY <2>2 DEF IInv
    <3>2. at \notin DataCmds \cup {"writeWait", "switchWait"}
      BY <1>1, <2>1, <2>2, <3>1, OwnPhase
    <3>3. at = "done" => status = "ERROR"
      BY <2>1, <3>1 DEF Arrived
    <3> QED
      BY <1>1, <2>2, <3>2, <3>3 DEF Reaching, DataWaits, Asked, Fits, Reads
  <2> QED
    BY <2>1, <2>2
<1>5. CASE RequestSwitch \/ Resume \/ Driver \/ MemoryToCard \/ Programmed
           \/ UNCHANGED vars
  BY <1>5 DEF RequestSwitch, Resume, MemoryToCard, Programmed, vars, Driver,
     ReadWarm, ReadArm, ReadCheck, WriteArm, SwitchArm, SwitchNoMemory, Issue,
     ReturnWarm, ReturnRead, ReturnRetry, ReturnWrite, ReturnSwitch, Finish,
     ReturnStop
<1> QED
  BY <1>2, <1>3, <1>4, <1>5 DEF Next, Client, Hardware

\* The inductive invariant holds in every reachable state: what the engine is
\* armed for, which phase is under way and where the blocks are; and, whoever
\* preempted whom, where a table the engine owns can lead to.
THEOREM Inductive == Spec => []IInv
<1>1. Init => IInv
  BY InitHolds
<1>2. IInv /\ [Next]_vars => IInv'
  BY TypesHold, AskedHolds, NestedHolds, ArmedHolds, PhaseHolds, ArrivedHolds,
     SuccessHolds, LateHolds, OwnedHolds, StoredReadHolds, StaleHolds DEF IInv
<1> QED
  BY <1>1, <1>2, PTL DEF Spec

\* Type correctness; the check of a critical block reads it again MaxRetries
\* times and never more.
THEOREM TypeCorrect == Spec => []TypeOK
<1>1. IInv => TypeOK
  BY DEF IInv, Types
<1> QED
  BY <1>1, Inductive, PTL

\* Every data command finds the engine enabled and owning a descriptor for
\* its buffer, the re-reads of a critical block included, and also in a call
\* that preempted another one wherever that one stood.
THEOREM EngineArmed == Spec => []ArmedAtIssue
<1>1. IInv => ArmedAtIssue
  BY DEF IInv, Armed, ArmedAtIssue
<1> QED
  BY <1>1, Inductive, PTL

\* The data phase of a command that failed or was preempted never runs into
\* the next transfer.
THEOREM PhasesAreCurrent == Spec => []PhaseIsCurrent
<1>1. IInv => PhaseIsCurrent
  BY DEF IInv
<1> QED
  BY <1>1, Inductive, PTL

\* Success of ReadBlockData or WriteBlockData, of a call that nobody
\* preempted, means that the block of the command stored before was moved.
THEOREM SuccessIsMoved == Spec => []SuccessMovedTheBlock
<1>1. IInv => SuccessMovedTheBlock
  BY DEF IInv
<1> QED
  BY <1>1, Inductive, PTL

\* A critical block is returned stale only when all re-reads were spent
\* (Px30EmmcDxe.c:1230-1305), by a call that reads preempted too; a write that
\* preempted it leaves CMD24 stored, which suppresses the check.
THEOREM StaleOnlyAfterRetries == Spec => []StaleCriticalOnlyAfterRetries
<1>1. IInv => StaleCriticalOnlyAfterRetries
  BY DEF IInv, StaleIsLast, StaleLast, StaleCriticalOnlyAfterRetries
<1> QED
  BY <1>1, Inductive, PTL

\* The engine writes to a buffer of a client only for the read that asked
\* for it, or after the request on that buffer failed or was preempted.
THEOREM BuffersAreSpared == Spec => CallerBufferSpared
<1>1. IInv /\ [Next]_vars => [Spared]_vars
  BY StepSpares
<1>2. CallerBufferSpared <=> [][Spared]_vars
  BY DEF CallerBufferSpared, Spared
<1> QED
  BY <1>1, <1>2, Inductive, PTL DEF Spec
=============================================================================
