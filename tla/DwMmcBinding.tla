---------------------------- MODULE DwMmcBinding ----------------------------
(***************************************************************************)
(* The life of one instance of DwMmcHcDxe: DwMmcHcDriverBindingSupported,  *)
(* Start and Stop on one controller handle, every step of Start failing or *)
(* not, against the two timers and the clients of the pass-through         *)
(* protocol.  DwMmcQueue starts where Start has ended well and takes Stop  *)
(* as one step; here both are cut where something else may run.            *)
(*                                                                         *)
(* Start and Stop run at TPL_APPLICATION, as does a client that submits a  *)
(* packet in two steps (the check of MediaPresent, the insertion).  The    *)
(* media timer, and a client's event handler, run at TPL_CALLBACK between  *)
(* these; the queue timer runs at TPL_NOTIFY between everything.           *)
(***************************************************************************)
EXTENDS Naturals, Sequences

CONSTANTS
  Req,       \* the packets of the clients, each submitted once
  End,       \* the list head, where a walk over Private->Queue ends
  MaxCalls,  \* bound on calls of Start and Stop
  MaxPlugs   \* bound on insertions and removals of the card

ASSUME ConstantsAssumption ==
  End \notin Req /\ MaxCalls \in Nat /\ MaxPlugs \in Nat

VARIABLES
  pc,         \* where the application is in Start, Stop or PassThru
  calls,      \* calls of Start and Stop so far
  opened,     \* the protocols of the handle this driver has open BY_DRIVER
  priv,       \* Private: "none", "live", "freed"
  timer,      \* Private->TimerEvent: "none", "created", "armed"
  connect,    \* Private->ConnectEvent
  installed,  \* the pass-through protocol is on the handle
  media,      \* Private->Slot[0].MediaPresent
  enum,       \* the media timer's handler: "idle", "ident"
  queue,      \* Private->Queue
  st,         \* life of a packet: "idle", "called", "queued", "done"
  link,       \* Link of Stop's loop over the queue
  cardIn, plugs,
  noClock,    \* ghost: BaseClkFreq was 0
  refused,    \* ghost: an uninstallation was refused
  late        \* ghost: packets submitted after Stop's walk had reached End

binding == <<pc, calls, opened, priv, timer, connect, installed>>
slot    == <<cardIn, plugs>>
ghosts  == <<noClock, refused, late>>
vars == <<pc, calls, opened, priv, timer, connect, installed, media, enum,
          queue, st, link, cardIn, plugs, noClock, refused, late>>

\* The steps of Start after the protocols are open, in their order.
After == [alloc |-> "prepare", prepare |-> "createTimer",
          createTimer |-> "setTimer", setTimer |-> "createConnect",
          createConnect |-> "setConnect", setConnect |-> "install",
          install |-> "idle"]

Undoing == {"undoTimer", "undoConnect", "undoFree"}
Stopping == {"closeTimer", "closeConnect", "flush", "free"}

\* The application runs when no callback does.
AppRuns == enum = "idle"

Init ==
  /\ pc = "idle" /\ calls = 0 /\ opened = {} /\ priv = "none"
  /\ timer = "none" /\ connect = "none" /\ installed = FALSE
  /\ media = FALSE /\ enum = "idle"
  /\ queue = <<>> /\ st = [r \in Req |-> "idle"] /\ link = End
  /\ cardIn \in BOOLEAN /\ plugs = 0
  /\ noClock = FALSE /\ refused = FALSE /\ late = {}

(***************************************************************************)
(* Start.                                                                  *)
(***************************************************************************)
\* ConnectController calls Start when Supported succeeded: it opens the
\* device BY_DRIVER for a moment, so not while this driver has it open.
CallStart ==
  /\ pc = "idle" /\ AppRuns /\ calls < MaxCalls
  /\ "device" \notin opened
  /\ calls' = calls + 1
  /\ pc' = "openPlatform"
  /\ UNCHANGED <<opened, priv, timer, connect, installed, media, enum, queue,
                 st, link, slot, ghosts>>

\* A protocol this driver has open is not opened again.  A return from here
\* closes nothing.
Open(here, p, next, ok) ==
  /\ pc = here /\ AppRuns
  /\ ok => p \notin opened
  /\ opened' = IF ok THEN opened \cup {p} ELSE opened
  /\ pc' = IF ok THEN next ELSE "idle"
  /\ UNCHANGED <<calls, priv, timer, connect, installed, media, enum, queue,
                 st, link, slot, ghosts>>

OpenPlatform(ok) == Open("openPlatform", "platform", "openDevice", ok)
OpenDevice(ok) == Open("openDevice", "device", "alloc", ok)

\* The label Done is reached with an error, or Start goes on.
Goes(here, ok) ==
  /\ pc = here /\ AppRuns
  /\ pc' = IF ok THEN After[here] ELSE "undoTimer"
  /\ UNCHANGED <<calls, opened, enum, queue, st, link, slot, refused, late>>

Allocate(ok) ==
  /\ Goes("alloc", ok)
  /\ priv' = IF ok THEN "live" ELSE priv
  /\ UNCHANGED <<timer, connect, installed, media, noClock>>

\* GetCapability, CardDetect (its status is not looked at), DwMmcHcInitHost,
\* DwMmcHcReset, and the card-type routines, whose status CreateEvent's
\* replaces.
Prepare(ok) ==
  /\ Goes("prepare", ok)
  /\ media' \in {media, cardIn}
  /\ UNCHANGED <<priv, timer, connect, installed, noClock>>

\* BaseClkFreq = 0 jumps to Done with the success of GetCapability.
PrepareNoClock ==
  /\ pc = "prepare" /\ AppRuns
  /\ pc' = "idle" /\ noClock' = TRUE
  /\ UNCHANGED <<calls, opened, priv, timer, connect, installed, media, enum,
                 queue, st, link, slot, refused, late>>

CreateTimer(ok) ==
  /\ Goes("createTimer", ok)
  /\ timer' = IF ok THEN "created" ELSE timer
  /\ UNCHANGED <<priv, connect, installed, media, noClock>>

SetTimer(ok) ==
  /\ Goes("setTimer", ok)
  /\ timer' = IF ok THEN "armed" ELSE timer
  /\ UNCHANGED <<priv, connect, installed, media, noClock>>

CreateConnect(ok) ==
  /\ Goes("createConnect", ok)
  /\ connect' = IF ok THEN "created" ELSE connect
  /\ UNCHANGED <<priv, timer, installed, media, noClock>>

SetConnect(ok) ==
  /\ Goes("setConnect", ok)
  /\ connect' = IF ok THEN "armed" ELSE connect
  /\ UNCHANGED <<priv, timer, installed, media, noClock>>

Install(ok) ==
  /\ Goes("install", ok)
  /\ installed' = ok
  /\ UNCHANGED <<priv, timer, connect, media, noClock>>

\* Done, with an error: the events are closed, Private is freed; the two
\* protocols stay open.
Undo(here, next) ==
  /\ pc = here /\ AppRuns
  /\ pc' = next
  /\ UNCHANGED <<calls, opened, installed, media, enum, queue, st, link, slot,
                 ghosts>>

UndoTimer ==
  /\ Undo("undoTimer", "undoConnect")
  /\ timer' = "none"
  /\ UNCHANGED <<connect, priv>>

UndoConnectLeft ==  \* the media timer is not closed
  /\ Undo("undoConnect", "undoFree")
  /\ UNCHANGED <<timer, connect, priv>>

UndoConnect ==
  /\ Undo("undoConnect", "undoFree")
  /\ connect' = "none"
  /\ UNCHANGED <<timer, priv>>

UndoFree ==
  /\ Undo("undoFree", "idle")
  /\ priv' = IF priv = "live" THEN "freed" ELSE priv
  /\ UNCHANGED <<timer, connect>>

StartStep ==
  \/ \E ok \in BOOLEAN :
       \/ OpenPlatform(ok) \/ OpenDevice(ok) \/ Allocate(ok) \/ Prepare(ok)
       \/ CreateTimer(ok) \/ SetTimer(ok) \/ CreateConnect(ok)
       \/ SetConnect(ok) \/ Install(ok)
  \/ PrepareNoClock \/ UndoTimer \/ UndoConnect \/ UndoFree

(***************************************************************************)
(* Stop.                                                                   *)
(***************************************************************************)
\* Stop finds Private through the protocol, so it needs it installed.
CallStop ==
  /\ pc = "idle" /\ AppRuns /\ calls < MaxCalls
  /\ installed
  /\ calls' = calls + 1
  /\ pc' = "closeTimer"
  /\ UNCHANGED <<opened, priv, timer, connect, installed, media, enum, queue,
                 st, link, slot, ghosts>>

CloseTimer ==
  /\ pc = "closeTimer" /\ AppRuns
  /\ timer' = "none"
  /\ pc' = "closeConnect"
  /\ UNCHANGED <<calls, opened, priv, connect, installed, media, enum, queue,
                 st, link, slot, ghosts>>

CloseConnect ==
  /\ pc = "closeConnect" /\ AppRuns
  /\ connect' = "none"
  /\ link' = IF queue = <<>> THEN End ELSE Head(queue)
  /\ pc' = "flush"
  /\ UNCHANGED <<calls, opened, priv, timer, installed, media, enum, queue,
                 st, slot, ghosts>>

FlushFirst ==  \* the walk ends after one packet
  /\ pc = "flush" /\ AppRuns /\ link # End
  /\ link' = End
  /\ queue' = Tail(queue)
  /\ st' = [st EXCEPT ![link] = "done"]
  /\ UNCHANGED <<binding, media, enum, slot, ghosts>>

\* One turn of the loop, at the TPL of the caller: NextLink is read, the
\* packet unlinked and completed.  Its event's handler runs after that, and
\* may submit again; NextLink stays what it was.
Flush ==
  /\ pc = "flush" /\ AppRuns /\ link # End
  /\ link' = IF Len(queue) > 1 THEN queue[2] ELSE End
  /\ queue' = Tail(queue)
  /\ st' = [st EXCEPT ![link] = "done"]
  /\ UNCHANGED <<binding, media, enum, slot, ghosts>>

\* A refusal returns at once: both timers are gone, the protocol stays.
Uninstall(ok) ==
  /\ pc = "flush" /\ AppRuns /\ link = End
  /\ installed' = ~ok
  /\ refused' = (refused \/ ~ok)
  /\ pc' = IF ok THEN "free" ELSE "idle"
  /\ UNCHANGED <<calls, opened, priv, timer, connect, media, enum, queue, st,
                 link, slot, noClock, late>>

\* CloseProtocol names the PCI I/O protocol, which was never opened: what
\* Start opened stays open.
Free ==
  /\ pc = "free" /\ AppRuns
  /\ priv' = "freed"
  /\ pc' = "idle"
  /\ UNCHANGED <<calls, opened, timer, connect, installed, media, enum, queue,
                 st, link, slot, ghosts>>

StopStep ==
  CloseTimer \/ CloseConnect \/ Flush \/ (\E ok \in BOOLEAN : Uninstall(ok))
  \/ Free

(***************************************************************************)
(* The clients.                                                            *)
(***************************************************************************)
Enqueue(r) ==
  /\ queue' = Append(queue, r)
  /\ late' = IF pc = "flush" /\ link = End THEN late \cup {r} ELSE late

\* The application: PassThru checks MediaPresent, then inserts the TRB.
CallPassThru(r) ==
  /\ pc = "idle" /\ AppRuns /\ installed /\ media /\ st[r] = "idle"
  /\ st' = [st EXCEPT ![r] = "called"]
  /\ pc' = "insert"
  /\ UNCHANGED <<calls, opened, priv, timer, connect, installed, media, enum,
                 queue, link, slot, ghosts>>

Insert ==
  \E r \in Req :
  /\ pc = "insert" /\ AppRuns /\ st[r] = "called"
  /\ Enqueue(r)
  /\ st' = [st EXCEPT ![r] = "queued"]
  /\ pc' = "idle"
  /\ UNCHANGED <<calls, opened, priv, timer, connect, installed, media, enum,
                 link, slot, noClock, refused>>

\* A handler at TPL_CALLBACK, which neither the application nor the media
\* timer interrupts.
Resubmit(r) ==
  /\ enum = "idle" /\ installed /\ media /\ st[r] = "idle"
  /\ Enqueue(r)
  /\ st' = [st EXCEPT ![r] = "queued"]
  /\ UNCHANGED <<binding, media, enum, link, slot, noClock, refused>>

(***************************************************************************)
(* The timers and the card.                                                *)
(***************************************************************************)
TickOnlyWithMedia ==  \* a packet without a card is left alone
  /\ timer = "armed" /\ queue # <<>> /\ media
  /\ queue' = Tail(queue)
  /\ st' = [st EXCEPT ![Head(queue)] = "done"]
  /\ UNCHANGED <<binding, media, enum, link, slot, ghosts>>

\* ProcessAsyncTaskList ends the head of the queue, in one tick or several,
\* with EFI_NO_MEDIA if the card is gone.
Tick ==
  /\ timer = "armed" /\ queue # <<>>
  /\ queue' = Tail(queue)
  /\ st' = [st EXCEPT ![Head(queue)] = "done"]
  /\ UNCHANGED <<binding, media, enum, link, slot, ghosts>>

Pending == {r \in Req : st[r] = "queued"}

\* DwMmcHcEnumerateDevice: a removal flushes the queue at TPL_NOTIFY, ...
Removal ==
  /\ connect = "armed" /\ enum = "idle" /\ media /\ ~cardIn
  /\ media' = FALSE
  /\ queue' = <<>>
  /\ st' = [r \in Req |-> IF r \in Pending THEN "done" ELSE st[r]]
  /\ UNCHANGED <<binding, enum, link, slot, ghosts>>

\* ... an insertion initialises the host, which may fail and is then tried
\* again, and identifies the card: synchronous commands, which wait until
\* the queue is empty.
Insertion ==
  /\ connect = "armed" /\ enum = "idle" /\ ~media /\ cardIn
  /\ media' = TRUE /\ enum' = "ident"
  /\ UNCHANGED <<binding, queue, st, link, slot, ghosts>>

Identified ==
  /\ enum = "ident" /\ queue = <<>>
  /\ enum' = "idle"
  /\ UNCHANGED <<binding, media, queue, st, link, slot, ghosts>>

Plug ==
  /\ plugs < MaxPlugs
  /\ plugs' = plugs + 1 /\ cardIn' = ~cardIn
  /\ UNCHANGED <<binding, media, enum, queue, st, link, ghosts>>

Next ==
  \/ CallStart \/ StartStep \/ CallStop \/ StopStep
  \/ (\E r \in Req : CallPassThru(r) \/ Resubmit(r)) \/ Insert
  \/ Tick \/ Removal \/ Insertion \/ Identified
  \/ Plug

Spec == Init /\ [][Next]_vars

\* The periodic timers fire for ever; a call that has begun goes on whenever
\* no callback runs (strong fairness: callbacks interrupt it again and
\* again); identification goes on once the queue is empty.
FairSpec ==
  /\ Spec
  /\ WF_vars(Tick) /\ WF_vars(Identified)
  /\ SF_vars(StartStep \/ StopStep \/ Insert)

-----------------------------------------------------------------------------
TypeOK ==
  /\ pc \in {"idle", "insert", "openPlatform", "openDevice"}
              \cup DOMAIN After \cup Undoing \cup Stopping
  /\ calls \in 0..MaxCalls /\ plugs \in 0..MaxPlugs
  /\ opened \subseteq {"platform", "device"}
  /\ priv \in {"none", "live", "freed"}
  /\ timer \in {"none", "created", "armed"}
  /\ connect \in {"none", "created", "armed"}
  /\ installed \in BOOLEAN /\ media \in BOOLEAN /\ cardIn \in BOOLEAN
  /\ noClock \in BOOLEAN /\ refused \in BOOLEAN
  /\ enum \in {"idle", "ident"}
  /\ queue \in Seq(Req) /\ link \in Req \cup {End}
  /\ st \in [Req -> {"idle", "called", "queued", "done"}]
  /\ late \subseteq Req

\* Whatever step of Start fails: no event that could still call its handler,
\* and no installed protocol, stands on freed memory; Private is freed unless
\* the protocol is installed, or BaseClkFreq was 0; and an installed protocol
\* has both timers, unless a refused uninstallation took them.
ResourcesHeld ==
  /\ timer # "none" \/ connect # "none" \/ installed => priv = "live"
  /\ pc = "idle" /\ priv = "live" => installed \/ noClock
  /\ installed /\ pc \notin Stopping /\ ~refused =>
       timer = "armed" /\ connect = "armed"

\* "As the timer is closed, there is no needs to use TPL lock to protect the
\* critical region queue" (DwMmcHcDxe.c:880) holds but for packets submitted
\* once the walk has passed the last entry, by the handler of the packet just
\* completed for instance: every other packet is completed before Private is
\* freed.
LostOnlyBehindTheWalk == priv = "freed" => Pending \subseteq late

\* Nobody works on the queue any more: the driver was stopped, or half
\* stopped (a refused uninstallation), or the media timer fired between the
\* closing of the two timers and waits, for a card to be identified, until a
\* queue is empty that nobody empties.
Unserved ==
  /\ timer # "armed"
  /\ pc = "idle" \/ enum = "ident"

\* Every packet a client got accepted is completed, unless Unserved for good.
PacketsServed ==
  \A r \in Req : [](st[r] = "queued" => <>(st[r] = "done") \/ <>[]Unserved)
=============================================================================
