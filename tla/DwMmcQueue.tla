---------------------------- MODULE DwMmcQueue ----------------------------
(***************************************************************************)
(* The DesignWare SD/MMC host controller driver (DwMmcHcDxe): synchronous  *)
(* and asynchronous pass-through commands, the 1 ms timer that executes    *)
(* the asynchronous queue, the 100 ms timer that watches for cards, device *)
(* reset and driver stop.                                                  *)
(*                                                                         *)
(* Firmware has one CPU and preemption by task priority level (TPL):       *)
(*   TPL_NOTIFY       ProcessAsyncTaskList, and every RaiseTPL section:    *)
(*                    nothing preempts these, each is one atomic action;   *)
(*   TPL_CALLBACK     DwMmcHcEnumerateDevice, or a client's event handler; *)
(*                    several steps, the TPL_NOTIFY timer runs between;    *)
(*   TPL_APPLICATION  the application; runs only while no callback does.   *)
(* The controller runs beside them.  RINTSTS is one register: a completion *)
(* is seen by whoever polls next, whichever command it belongs to.         *)
(***************************************************************************)
EXTENDS Naturals, Sequences, FiniteSets

CONSTANTS
  Req,              \* the packets callers submit, each once
  Ident,            \* the commands of card identification
  None,             \* no command
  Timeouts,         \* values of Packet->Timeout; 0 waits for ever
  Slots,            \* kinds of slot: "sd" (RkSdmmcDxe), "emmc" (RkEmmcDxe)
  CallbackClients,  \* handlers at TPL_CALLBACK submit packets too
  StopMayFail,      \* UninstallProtocolInterface may refuse in Stop
  MaxPlugs          \* bound on insertions and removals of the card

ASSUME ConstantsAssumption ==
  /\ Ident \notin Req /\ None \notin Req \cup {Ident}
  /\ Timeouts \subseteq Nat
  /\ Slots \subseteq {"sd", "emmc"}
  /\ {CallbackClients, StopMayFail} \subseteq BOOLEAN
  /\ MaxPlugs \in Nat

VARIABLES
  st,         \* life of a packet: see States
  async,      \* the packets submitted with an event
  ticks,      \* Trb->Timeout, or the Timeout of DwMmcWaitTrbResult
  forever,    \* the packets with Packet->Timeout = 0 (InfiniteWait)
  result,     \* TransactionStatus, or the status PassThru returned
  queue,      \* Private->Queue
  started,    \* Trb->Started
  pc,         \* where each calling context is in PassThru
  cur,        \* the packet it is passing through
  enum,       \* where DwMmcHcEnumerateDevice is
  media,      \* Private->Slot[0].MediaPresent
  stopped,    \* driver binding: "no", "half" (Stop failed), "yes"
  spin,       \* the timer handler spins on IDSTS at TPL_NOTIFY
  slot,       \* SlotType and CardType of the platform, chosen once
  cardIn,     \* a card is in the slot
  plugs,      \* insertions and removals so far
  flight,     \* commands the controller and the card still execute
  over,       \* the command whose completion RINTSTS (IDSTS) shows, or None
  dma,        \* the packet whose descriptors DBADDR points to
  abandoned,  \* ghost: the driver gave up a command that was not over
  tainted,    \* ghost: commands that shared the controller with another
  foreign     \* ghost: packets that took another command's completion

reqVars == <<st, async, ticks, forever, result, queue, started>>
ctxVars == <<pc, cur, enum, media, stopped, spin>>
hwVars  == <<slot, cardIn, plugs, flight, over, dma>>
ghosts  == <<abandoned, tainted, foreign>>
vars == <<st, async, ticks, forever, result, queue, started,
          pc, cur, enum, media, stopped, spin,
          slot, cardIn, plugs, flight, over, dma, abandoned, tainted, foreign>>

Ctx == {"app", "cb"}

\* SdCardType: data go through the FIFO, by programmed I/O; EmmcCardType: by
\* the internal DMA engine.
Fifo == slot = "sd"

\* RemovableSlot: the card may come and go.
Removable == slot = "sd"

\* idle: not submitted; called: PassThru checked its arguments; trb: the TRB
\* exists; queued: in Private->Queue; failed: no TRB could be made.
States == {"idle", "called", "trb", "queued", "done", "failed"}

Statuses == {"SUCCESS", "TIMEOUT", "DEVICE_ERROR", "NO_MEDIA", "ABORTED"}

Elems(q) == {q[i] : i \in 1..Len(q)}
Distinct(q) == \A i, j \in 1..Len(q) : q[i] = q[j] => i = j

Queued == Elems(queue)

\* A context runs when nothing at a higher TPL does.
CanRun(c) ==
  /\ ~spin
  /\ c = "app" => pc["cb"] = "idle" /\ enum = "idle"

\* Commands somebody waits for.
Active ==
  started \cup {cur[c] : c \in {d \in Ctx : pc[d] = "result"}}
          \cup (IF enum = "identRun" THEN {Ident} ELSE {})

(***************************************************************************)
(* DwMmcExecTrb: wait for DATA_BUSY to clear, clear RINTSTS, write CMD.    *)
(* An error leaves the command in the controller.                          *)
(***************************************************************************)
ExecKeepsStatus(x) ==  \* RINTSTS is not cleared before CMD is written
  /\ over' = over
  /\ flight' = IF cardIn THEN flight \cup {x} ELSE flight
  /\ tainted' = IF Active \cup flight = {} THEN tainted
                ELSE tainted \cup Active \cup flight \cup {x}

Exec(x) ==
  /\ over' = IF Fifo THEN None ELSE over
  /\ flight' = IF cardIn THEN flight \cup {x} ELSE flight
  /\ tainted' = IF Active \cup flight = {} THEN tainted
                ELSE tainted \cup Active \cup flight \cup {x}

\* Packets S complete with status s: out of the queue, TRBs freed, events
\* signalled.
Settle(S, s) ==
  /\ st' = [r \in Req |-> IF r \in S THEN "done" ELSE st[r]]
  /\ result' = [r \in Req |-> IF r \in S THEN s ELSE result[r]]

\* DwMmcCheckTrbResult saw the completion of a command and takes it for r's.
\* The DMA path then clears IDSTS.
TakeSuccess(r) ==
  /\ over # None
  /\ foreign' = IF over = r THEN foreign ELSE foreign \cup {r}
  /\ over' = IF Fifo THEN over ELSE None

(***************************************************************************)
(* PassThru.                                                               *)
(***************************************************************************)
Submit(c, r, t, a) ==
  /\ pc[c] = "idle" /\ CanRun(c) /\ enum = "idle"
  /\ c = "cb" => CallbackClients /\ a
  /\ stopped # "yes" /\ media
  /\ st[r] = "idle"
  /\ pc' = [pc EXCEPT ![c] = "create"]
  /\ cur' = [cur EXCEPT ![c] = r]
  /\ st' = [st EXCEPT ![r] = "called"]
  /\ ticks' = [ticks EXCEPT ![r] = t]
  /\ forever' = IF t = 0 THEN forever \cup {r} ELSE forever
  /\ async' = IF a THEN async \cup {r} ELSE async
  /\ UNCHANGED <<result, queue, started, enum, media, stopped, spin,
                 hwVars, ghosts>>

\* DwMmcCreateTrb.  With DMA it writes DBADDR and BYTCNT, clears IDSTS and
\* starts the IDMAC at once, whatever the queue holds.
Create(c) ==
  /\ pc[c] = "create" /\ CanRun(c)
  /\ st' = [st EXCEPT ![cur[c]] = "trb"]
  /\ pc' = [pc EXCEPT ![c] = IF cur[c] \in async THEN "insert" ELSE "wait"]
  /\ IF Fifo THEN UNCHANGED <<dma, over>>
             ELSE dma' = cur[c] /\ over' = None
  /\ UNCHANGED <<async, ticks, forever, result, queue, started, cur, enum,
                 media, stopped, spin, slot, cardIn, plugs, flight, ghosts>>

CreateFails(c) ==
  /\ pc[c] = "create" /\ CanRun(c)
  /\ st' = [st EXCEPT ![cur[c]] = "failed"]
  /\ pc' = [pc EXCEPT ![c] = "idle"]
  /\ UNCHANGED <<async, ticks, forever, result, queue, started, cur, enum,
                 media, stopped, spin, hwVars, ghosts>>

InsertFirst(c) ==  \* InsertHeadList for InsertTailList
  /\ pc[c] = "insert" /\ CanRun(c)
  /\ queue' = <<cur[c]>> \o queue
  /\ st' = [st EXCEPT ![cur[c]] = "queued"]
  /\ pc' = [pc EXCEPT ![c] = "idle"]
  /\ UNCHANGED <<async, ticks, forever, result, started, cur, enum, media,
                 stopped, spin, hwVars, ghosts>>

InsertLost(c) ==  \* the TRB is not linked into the list
  /\ pc[c] = "insert" /\ CanRun(c)
  /\ st' = [st EXCEPT ![cur[c]] = "queued"]
  /\ pc' = [pc EXCEPT ![c] = "idle"]
  /\ UNCHANGED <<async, ticks, forever, result, queue, started, cur, enum,
                 media, stopped, spin, hwVars, ghosts>>

Insert(c) ==
  /\ pc[c] = "insert" /\ CanRun(c)
  /\ queue' = Append(queue, cur[c])
  /\ st' = [st EXCEPT ![cur[c]] = "queued"]
  /\ pc' = [pc EXCEPT ![c] = "idle"]
  /\ UNCHANGED <<async, ticks, forever, result, started, cur, enum, media,
                 stopped, spin, hwVars, ghosts>>

SyncDoesNotLook(c) ==  \* the list is not looked at
  /\ pc[c] = "wait" /\ CanRun(c)
  /\ pc' = [pc EXCEPT ![c] = "exec"]
  /\ UNCHANGED <<reqVars, cur, enum, media, stopped, spin, hwVars, ghosts>>

\* "Wait async I/O list is empty before execute sync I/O operation": the
\* list is looked at under TPL_NOTIFY, the TPL is restored before executing.
SyncSeesEmpty(c) ==
  /\ pc[c] = "wait" /\ CanRun(c)
  /\ queue = <<>>
  /\ pc' = [pc EXCEPT ![c] = "exec"]
  /\ UNCHANGED <<reqVars, cur, enum, media, stopped, spin, hwVars, ghosts>>

SyncReturn(c, s) ==
  /\ Settle({cur[c]}, s)
  /\ pc' = [pc EXCEPT ![c] = "idle"]

SyncExec(c, ok) ==
  /\ pc[c] = "exec" /\ CanRun(c)
  /\ ok => cardIn
  /\ Exec(cur[c])
  /\ IF ok THEN pc' = [pc EXCEPT ![c] = "result"] /\ UNCHANGED <<st, result>>
           ELSE SyncReturn(c, "DEVICE_ERROR")
  /\ abandoned' = (abandoned \/ ~ok)
  /\ UNCHANGED <<async, ticks, forever, queue, started, cur, enum, media,
                 stopped, spin, slot, cardIn, plugs, dma, foreign>>

SyncSuccess(c) ==
  /\ pc[c] = "result" /\ CanRun(c)
  /\ TakeSuccess(cur[c])
  /\ SyncReturn(c, "SUCCESS")
  /\ UNCHANGED <<async, ticks, forever, queue, started, cur, enum, media,
                 stopped, spin, slot, cardIn, plugs, flight, dma,
                 abandoned, tainted>>

\* One turn of the DwMmcWaitTrbResult loop.  The DMA path does not come
\* back from DwMmcCheckTrbResult, so its timeout never counts.
SyncNotReady(c) ==
  /\ pc[c] = "result" /\ CanRun(c)
  /\ Fifo /\ over = None /\ cur[c] \notin forever
  /\ ticks' = [ticks EXCEPT ![cur[c]] = @ - 1]
  /\ IF ticks[cur[c]] = 1
       THEN SyncReturn(c, "TIMEOUT") /\ abandoned' = TRUE
       ELSE UNCHANGED <<st, result, pc, abandoned>>
  /\ UNCHANGED <<async, forever, queue, started, cur, enum, media, stopped,
                 spin, hwVars, tainted, foreign>>

(***************************************************************************)
(* ProcessAsyncTaskList: one tick works on the head of the queue.          *)
(***************************************************************************)
TimerRuns == stopped = "no" /\ ~spin /\ queue # <<>>

HeadDoneUnlinksLast(s) ==  \* the last TRB of the list is unlinked
  /\ Settle({Head(queue)}, s)
  /\ queue' = SubSeq(queue, 1, Len(queue) - 1)
  /\ started' = started \ {Head(queue)}

HeadDone(s) ==
  /\ Settle({Head(queue)}, s)
  /\ queue' = Tail(queue)
  /\ started' = started \ {Head(queue)}

TimerNoMedia ==
  /\ TimerRuns /\ ~media
  /\ HeadDone("NO_MEDIA")
  /\ abandoned' = (abandoned \/ Head(queue) \in flight)
  /\ UNCHANGED <<async, ticks, forever, ctxVars, hwVars, tainted, foreign>>

TimerExecFails ==
  /\ TimerRuns /\ media /\ Head(queue) \notin started
  /\ Exec(Head(queue))
  /\ HeadDone("DEVICE_ERROR")
  /\ abandoned' = TRUE
  /\ UNCHANGED <<async, ticks, forever, ctxVars, slot, cardIn, plugs, dma,
                 foreign>>

\* EFI_NOT_READY: Trb->Timeout-- == 0 ends the packet, InfiniteWait does not.
HeadNotReady ==
  LET r == Head(queue) IN
  \/ /\ r \in forever
     /\ started' = started \cup {r}
     /\ UNCHANGED <<st, result, queue, ticks, abandoned>>
  \/ /\ r \notin forever /\ ticks[r] > 0
     /\ started' = started \cup {r}
     /\ ticks' = [ticks EXCEPT ![r] = @ - 1]
     /\ UNCHANGED <<st, result, queue, abandoned>>
  \/ /\ r \notin forever /\ ticks[r] = 0
     /\ HeadDone("TIMEOUT")
     /\ abandoned' = TRUE
     /\ UNCHANGED ticks

\* The head is executed and its result checked in the same tick: not over
\* yet (the FIFO path returns, the DMA path starts to spin) ...
TimerStart ==
  /\ TimerRuns /\ media /\ Head(queue) \notin started
  /\ cardIn
  /\ Exec(Head(queue))
  /\ IF Fifo
       THEN HeadNotReady /\ UNCHANGED spin
       ELSE /\ started' = started \cup {Head(queue)}
            /\ spin' = TRUE
            /\ UNCHANGED <<st, result, queue, ticks, abandoned>>
  /\ UNCHANGED <<async, forever, pc, cur, enum, media, stopped, slot, cardIn,
                 plugs, dma, foreign>>

\* ... or over before the check.
TimerStartAndFinish ==
  /\ TimerRuns /\ media /\ Head(queue) \notin started
  /\ cardIn
  /\ tainted' = IF Active \cup flight = {} THEN tainted
                ELSE tainted \cup Active \cup flight \cup {Head(queue)}
  /\ over' = IF Fifo THEN Head(queue) ELSE None
  /\ HeadDone("SUCCESS")
  /\ UNCHANGED <<async, ticks, forever, ctxVars, slot, cardIn, plugs, flight,
                 dma, abandoned, foreign>>

TimerFinish ==
  /\ spin \/ (TimerRuns /\ media /\ Head(queue) \in started)
  /\ TakeSuccess(Head(queue))
  /\ HeadDone("SUCCESS")
  /\ spin' = FALSE
  /\ abandoned' = (abandoned \/ Head(queue) \in flight)
  /\ UNCHANGED <<async, ticks, forever, pc, cur, enum, media, stopped,
                 slot, cardIn, plugs, flight, dma, tainted>>

TimerNotReady ==
  /\ TimerRuns /\ media /\ Head(queue) \in started
  /\ over = None
  /\ HeadNotReady
  /\ UNCHANGED <<async, forever, ctxVars, hwVars, tainted, foreign>>

Timer ==
  TimerNoMedia \/ TimerExecFails \/ TimerStart \/ TimerStartAndFinish
  \/ TimerFinish \/ TimerNotReady

(***************************************************************************)
(* Flushing the queue, and DwMmcHcEnumerateDevice.                         *)
(***************************************************************************)
FlushSilently(s) ==  \* the packets are unlinked, their events not signalled
  /\ queue' = <<>>
  /\ started' = {}
  /\ abandoned' = (abandoned \/ Queued \cap flight # {})
  /\ UNCHANGED <<st, result>>

Flush(s) ==
  /\ Settle(Queued, s)
  /\ queue' = <<>>
  /\ started' = {}
  /\ abandoned' = (abandoned \/ Queued \cap flight # {})

RemovalKeepsMedia ==  \* MediaPresent is not cleared
  /\ Removable /\ stopped = "no" /\ ~spin
  /\ enum = "idle" /\ pc["cb"] = "idle"
  /\ media /\ ~cardIn
  /\ enum' = "removed"
  /\ UNCHANGED <<reqVars, pc, cur, media, stopped, spin, hwVars, ghosts>>

EnumRemoval ==
  /\ Removable /\ stopped = "no" /\ ~spin
  /\ enum = "idle" /\ pc["cb"] = "idle"
  /\ media /\ ~cardIn
  /\ media' = FALSE
  /\ enum' = "removed"
  /\ UNCHANGED <<reqVars, pc, cur, stopped, spin, hwVars, ghosts>>

\* The flush is done at TPL_NOTIFY; the protocol is then reinstalled to
\* tell the upper layers.
EnumFlush ==
  /\ enum = "removed" /\ ~spin
  /\ Flush("NO_MEDIA")
  /\ enum' = "idle"
  /\ UNCHANGED <<async, ticks, forever, pc, cur, media, stopped, spin,
                 hwVars, tainted, foreign>>

EnumInsertion ==
  /\ Removable /\ stopped = "no" /\ ~spin
  /\ enum = "idle" /\ pc["cb"] = "idle"
  /\ ~media /\ cardIn
  /\ enum' = "inserted"
  /\ UNCHANGED <<reqVars, pc, cur, media, stopped, spin, hwVars, ghosts>>

\* DwMmcHcInitHost resets the controller; it or DwMmcHcReset may fail, and
\* the next tick tries again.
EnumInit(ok) ==
  /\ enum = "inserted" /\ ~spin
  /\ flight' = {} /\ over' = None
  /\ abandoned' = (abandoned \/ Active \cup flight # {})
  /\ media' = ok
  /\ enum' = IF ok THEN "identWait" ELSE "idle"
  /\ UNCHANGED <<reqVars, pc, cur, stopped, spin, slot, cardIn, plugs, dma,
                 tainted, foreign>>

\* The identification routines pass their commands through synchronously;
\* one command stands for them all.
IdentStart ==
  /\ enum = "identWait" /\ ~spin
  /\ queue = <<>>
  /\ Exec(Ident)
  /\ enum' = "identRun"
  /\ UNCHANGED <<reqVars, pc, cur, media, stopped, spin, slot, cardIn, plugs,
                 dma, abandoned, foreign>>

\* A card that no routine recognises stays MediaPresent and is not tried
\* again until it is removed.
IdentEnd(ok) ==
  /\ enum = "identRun" /\ ~spin
  /\ ok => over # None
  /\ enum' = "idle"
  /\ over' = IF ok /\ ~Fifo THEN None ELSE over
  /\ abandoned' = (abandoned \/ Ident \in flight)
  /\ UNCHANGED <<reqVars, pc, cur, media, stopped, spin, slot, cardIn, plugs,
                 flight, dma, tainted, foreign>>

(***************************************************************************)
(* DwMmcPassThruResetDevice and DwMmcHcDriverBindingStop.                  *)
(***************************************************************************)
ResetDevice ==
  /\ pc["app"] = "idle" /\ CanRun("app")
  /\ stopped # "yes" /\ media
  /\ Flush("ABORTED")
  /\ UNCHANGED <<async, ticks, forever, ctxVars, hwVars, tainted, foreign>>

\* Both timer events are closed first; if the protocol cannot be
\* uninstalled the driver stays installed without them.
Stop(ok) ==
  /\ pc["app"] = "idle" /\ CanRun("app")
  /\ stopped # "yes"
  /\ ok \/ StopMayFail
  /\ stopped' = IF ok THEN "yes" ELSE "half"
  /\ Flush("ABORTED")
  /\ UNCHANGED <<async, ticks, forever, pc, cur, enum, media, spin, hwVars,
                 tainted, foreign>>

(***************************************************************************)
(* The controller and the card.                                            *)
(***************************************************************************)
HwFinish(x) ==
  /\ x \in flight
  /\ flight' = flight \ {x}
  /\ over' = x
  /\ UNCHANGED <<reqVars, ctxVars, slot, cardIn, plugs, dma, ghosts>>

\* A card that is pulled out takes the commands it was executing with it.
Plug ==
  /\ Removable /\ plugs < MaxPlugs
  /\ plugs' = plugs + 1
  /\ cardIn' = ~cardIn
  /\ flight' = {}
  /\ UNCHANGED <<reqVars, ctxVars, slot, over, dma, ghosts>>

(***************************************************************************)
(* The driver was started on a slot with an identified card.               *)
(***************************************************************************)
Init ==
  /\ st = [r \in Req |-> "idle"]
  /\ async = {} /\ forever = {} /\ started = {}
  /\ ticks = [r \in Req |-> 0]
  /\ result = [r \in Req |-> "none"]
  /\ queue = <<>>
  /\ pc = [c \in Ctx |-> "idle"] /\ cur = [c \in Ctx |-> None]
  /\ enum = "idle" /\ media = TRUE /\ stopped = "no" /\ spin = FALSE
  /\ slot \in Slots /\ cardIn = TRUE /\ plugs = 0
  /\ flight = {} /\ over = None /\ dma = None
  /\ abandoned = FALSE /\ tainted = {} /\ foreign = {}

Call(c) ==
  \/ Create(c) \/ CreateFails(c) \/ Insert(c)
  \/ SyncSeesEmpty(c) \/ (\E ok \in BOOLEAN : SyncExec(c, ok))
  \/ SyncSuccess(c) \/ SyncNotReady(c)

Enumerate ==
  \/ EnumRemoval \/ EnumFlush \/ EnumInsertion
  \/ (\E ok \in BOOLEAN : EnumInit(ok))
  \/ IdentStart \/ (\E ok \in BOOLEAN : IdentEnd(ok))

Next ==
  \/ \E c \in Ctx, r \in Req, t \in Timeouts, a \in BOOLEAN :
       Submit(c, r, t, a)
  \/ \E c \in Ctx : Call(c)
  \/ Timer
  \/ Enumerate
  \/ ResetDevice
  \/ \E ok \in BOOLEAN : Stop(ok)
  \/ \E x \in Req \cup {Ident} : HwFinish(x)
  \/ Plug

Spec == Init /\ [][Next]_vars

(***************************************************************************)
(* Fairness.  The periodic timers fire for ever, a call that was begun     *)
(* goes on whenever the CPU is left to it (callbacks are finite, so it is, *)
(* again and again: strong fairness), initialisation of a good card        *)
(* succeeds at last, and a present card finishes what it was asked to do.  *)
(***************************************************************************)
FairSpec ==
  /\ Spec
  /\ WF_vars(Timer)
  /\ \A c \in Ctx : SF_vars(Call(c))
  /\ WF_vars(EnumRemoval) /\ WF_vars(EnumFlush) /\ WF_vars(EnumInsertion)
  /\ SF_vars(EnumInit(TRUE)) /\ WF_vars(IdentStart)
  /\ WF_vars(\E ok \in BOOLEAN : IdentEnd(ok))
  /\ \A x \in Req \cup {Ident} : WF_vars(HwFinish(x))

-----------------------------------------------------------------------------
(***************************************************************************)
(* Properties.                                                             *)
(***************************************************************************)
Cmds == Req \cup {Ident}

\* The type of every variable.
TypeOK ==
  /\ st \in [Req -> States]
  /\ async \subseteq Req /\ forever \subseteq Req /\ started \subseteq Req
  /\ ticks \in [Req -> Nat]
  /\ result \in [Req -> Statuses \cup {"none"}]
  /\ queue \in Seq(Req)
  /\ pc \in [Ctx -> {"idle", "create", "insert", "wait", "exec", "result"}]
  /\ cur \in [Ctx -> Req \cup {None}]
  /\ enum \in {"idle", "removed", "inserted", "identWait", "identRun"}
  /\ media \in BOOLEAN /\ spin \in BOOLEAN /\ cardIn \in BOOLEAN
  /\ stopped \in {"no", "half", "yes"}
  /\ slot \in Slots /\ plugs \in Nat
  /\ flight \subseteq Cmds /\ tainted \subseteq Cmds /\ foreign \subseteq Cmds
  /\ over \in Cmds \cup {None} /\ dma \in Req \cup {None}
  /\ abandoned \in BOOLEAN

\* Private->Queue holds every accepted asynchronous packet that has not
\* completed, once, and nothing else; only its head was ever executed.  Four
\* handlers at three priority levels unlink packets from the list.
QueueExact ==
  /\ Distinct(queue)
  /\ Queued = {r \in async : st[r] = "queued"}
  /\ started # {} => queue # <<>> /\ started = {Head(queue)}

\* A packet completes with success on a completion that is not its own only
\* if its command shared the controller with another one (DwMmcExecTrb
\* clears RINTSTS before CMD, so what an earlier command left is not seen).
\* The FIFO path only: with DMA the completion is read from IDSTS, which
\* DwMmcExecTrb does not clear.
SuccessIsOwn == Fifo => foreign \subseteq tainted

\* Two commands are in the controller together only after the driver gave
\* one up (time out, reset of the device, a new card): while all callers
\* run at one priority level, the queue check of PassThru suffices.
SharedOnlyIfAbandoned == tainted # {} => abandoned

\* "nonblocking I/O is performed, and Event will be signaled when the Packet
\* completes" (DwMmcHcDxe.h:189-191): the data of a packet that is executed
\* go to or from its own buffer, so DBADDR is its descriptor table.
OwnDma == [][\A r \in Req : r \in started' \ started => dma' = r]_vars

\* What callers are promised: see AsyncIo.  Packets complete in the order
\* they were queued, once, and always, whatever is removed or reset.
Abs == INSTANCE AsyncIo WITH
         pending  <- queue,
         outcome  <- [r \in Req |-> IF r \in async THEN result[r] ELSE "none"],
         Outcomes <- Statuses

ImplementsAsyncIo == Abs!Spec

\* The safety half of ImplementsAsyncIo: every step of the driver, the
\* controller or the slot is a step of AsyncIo or leaves it alone.
AsyncIoSteps == Abs!Init /\ [][Abs!Next]_(Abs!vars)

\* Every call of PassThru ends: a synchronous one is not kept out for ever
\* by the asynchronous queue, an asynchronous one is executed or flushed.
EveryRequestCompletes ==
  \A r \in Req : st[r] = "called" ~> st[r] \in {"done", "failed"}

\* Once cards are no longer swapped, MediaPresent agrees with the slot for
\* good, unless the driver was stopped.
MediaFollowsCard == <>[](media = cardIn \/ stopped # "no")
=============================================================================
