------------------------ MODULE DwMmcBinding_proofs ------------------------
(***************************************************************************)
(* The life of the driver instance, for any number of packets, calls and   *)
(* swaps of the card: what is held at every step of Start and Stop, and    *)
(* what of the queue Stop leaves behind.                                   *)
(***************************************************************************)
EXTENDS DwMmcBinding, TLAPS

\* Nothing but protocols and, after a failed or ended life, freed memory.
Fresh == timer = "none" /\ connect = "none" /\ ~installed /\ priv # "live"

\* What is held at each step: Start adds one thing after the other, Done and
\* Stop take them away.
Steps ==
  /\ "device" \notin opened => Fresh
  /\ pc \in {"openPlatform", "openDevice"} => "device" \notin opened
  /\ pc \notin {"idle", "insert", "openPlatform", "openDevice"} =>
       "device" \in opened
  /\ pc = "alloc" => Fresh
  /\ pc \in {"prepare", "createTimer", "setTimer", "createConnect",
             "setConnect", "install"} => priv = "live" /\ ~installed
  /\ pc \in {"prepare", "createTimer"} => timer = "none"
  /\ pc \in {"prepare", "createTimer", "setTimer", "createConnect"} =>
       connect = "none"
  /\ pc \in {"createConnect", "setConnect", "install"} => timer = "armed"
  /\ pc = "install" => connect = "armed"
  /\ pc \in Undoing =>
       ~installed /\ (timer # "none" \/ connect # "none" => priv = "live")
  /\ pc \in {"undoConnect", "undoFree"} => timer = "none"
  /\ pc = "undoFree" => connect = "none"
  /\ pc \in Stopping => priv = "live"
  /\ pc \in {"closeTimer", "closeConnect", "flush"} => installed
  /\ pc \in {"closeConnect", "flush", "free"} => timer = "none"
  /\ pc \in {"flush", "free"} => connect = "none"
  /\ pc = "free" => ~installed
  /\ pc = "insert" => installed
  /\ pc \in {"idle", "insert"} =>
       IF installed
         THEN /\ priv = "live"
              /\ ~refused => timer = "armed" /\ connect = "armed"
         ELSE /\ timer = "none" /\ connect = "none"
              /\ priv = "live" => noClock

\* Where the accepted packets are: in the queue; while Stop walks over it,
\* behind the link it has reached, or too late for it.
Walk ==
  /\ \A r \in Req : st[r] = "queued" => \E i \in 1..Len(queue) : queue[i] = r
  /\ pc = "flush" /\ link # End => queue # <<>> /\ link = Head(queue)
  /\ pc = "flush" /\ link = End => Pending \subseteq late
  /\ ~installed => Pending \subseteq late

IInv == TypeOK /\ Steps /\ Walk

\* What unlinking the head, and linking at the tail, leave in a list.
LEMMA TailHolds ==
  ASSUME NEW S, NEW q \in Seq(S), q # <<>>
  PROVE  /\ Tail(q) \in Seq(S) /\ Head(q) \in S
         /\ Len(q) > 1 => q[2] \in S /\ Tail(q) # <<>> /\ Head(Tail(q)) = q[2]
         /\ ~(Len(q) > 1) => Len(Tail(q)) = 0
         /\ \A i \in 1..Len(q) : q[i] # Head(q) =>
              \E j \in 1..Len(Tail(q)) : Tail(q)[j] = q[i]
<1>1. Tail(q) \in Seq(S) /\ Head(q) = q[1] /\ Head(q) \in S
      /\ Len(Tail(q)) = Len(q) - 1
      /\ \A j \in 1..Len(Tail(q)) : Tail(q)[j] = q[j + 1]
  OBVIOUS
<1>2. ASSUME NEW i \in 1..Len(q), q[i] # Head(q)
      PROVE  \E j \in 1..Len(Tail(q)) : Tail(q)[j] = q[i]
  <2>1. i - 1 \in 1..Len(Tail(q))
    BY <1>1, <1>2
  <2>2. Tail(q)[i - 1] = q[i]
    BY <1>1, <2>1
  <2> QED
    BY <2>1, <2>2
<1>3. ASSUME Len(q) > 1
      PROVE  q[2] \in S /\ Tail(q) # <<>> /\ Head(Tail(q)) = q[2]
  <2>1. Len(Tail(q)) \in Nat /\ Len(Tail(q)) > 0 /\ 1 \in 1..Len(Tail(q))
    BY <1>1, <1>3
  <2>2. Tail(q) # <<>> /\ Head(Tail(q)) = Tail(q)[1]
    <3>1. \A s \in Seq(S) : Len(s) > 0 => s # <<>> /\ Head(s) = s[1]
      OBVIOUS
    <3> QED
      BY <1>1, <2>1, <3>1
  <2>3. Tail(q)[1] = q[2]
    BY <1>1, <2>1
  <2>4. q[2] \in S
    BY <1>3
  <2> QED
    BY <2>2, <2>3, <2>4
<1>4. ~(Len(q) > 1) => Len(Tail(q)) = 0
  BY <1>1
<1> QED
  BY <1>1, <1>2, <1>3, <1>4

LEMMA AppendHolds ==
  ASSUME NEW S, NEW q \in Seq(S), NEW e \in S
  PROVE  /\ Append(q, e) \in Seq(S) /\ Append(q, e) # <<>>
         /\ q # <<>> => Head(Append(q, e)) = Head(q)
         /\ \E j \in 1..Len(Append(q, e)) : Append(q, e)[j] = e
         /\ \A i \in 1..Len(q) :
              \E j \in 1..Len(Append(q, e)) : Append(q, e)[j] = q[i]
<1>1. Append(q, e) \in Seq(S) /\ Append(q, e) # <<>>
      /\ Len(Append(q, e)) = Len(q) + 1
      /\ Append(q, e)[Len(q) + 1] = e
      /\ \A i \in 1..Len(q) : Append(q, e)[i] = q[i]
  OBVIOUS
<1>2. Len(q) + 1 \in 1..Len(Append(q, e))
      /\ \A i \in 1..Len(q) : i \in 1..Len(Append(q, e))
  BY <1>1
<1>3. q # <<>> => Head(Append(q, e)) = Head(q)
  BY <1>1
<1> QED
  BY <1>1, <1>2, <1>3

LEMMA AfterIs ==
  /\ DOMAIN After = {"alloc", "prepare", "createTimer", "setTimer",
                     "createConnect", "setConnect", "install"}
  /\ After["alloc"] = "prepare" /\ After["prepare"] = "createTimer"
  /\ After["createTimer"] = "setTimer" /\ After["setTimer"] = "createConnect"
  /\ After["createConnect"] = "setConnect" /\ After["setConnect"] = "install"
  /\ After["install"] = "idle"
BY DEF After

LEMMA InitHolds == Init => IInv
<1> SUFFICES ASSUME Init PROVE IInv
  OBVIOUS
<1>1. TypeOK
  <2>1. /\ queue \in Seq(Req) /\ calls \in 0..MaxCalls /\ plugs \in 0..MaxPlugs
    BY ConstantsAssumption DEF Init
  <2>2. st \in [Req -> {"idle", "called", "queued", "done"}]
    BY Zenon DEF Init
  <2>3. /\ pc = "idle" /\ opened = {} /\ late = {} /\ link \in Req \cup {End}
        /\ cardIn \in BOOLEAN
    BY DEF Init
  <2> QED
    BY <2>1, <2>2, <2>3 DEF Init, TypeOK
<1>2. Steps
  BY DEF Init, Steps, Fresh, Undoing, Stopping
<1>3. Pending = {}
  BY DEF Init, Pending
<1>4. Walk
  BY <1>3 DEF Init, Walk, Pending
<1> QED
  BY <1>1, <1>2, <1>4 DEF IInv

LEMMA StepsHold ==
  ASSUME TypeOK, Steps, [Next]_vars
  PROVE  Steps'
<1> USE DEF Steps, Fresh, Undoing, Stopping, binding, slot, ghosts, AppRuns
<1>1. CASE CallStart
  BY <1>1 DEF CallStart
<1>2. CASE StartStep
  <2>1. ASSUME NEW ok \in BOOLEAN, OpenPlatform(ok)
        PROVE  Steps'
    BY <2>1 DEF OpenPlatform, Open
  <2>2. ASSUME NEW ok \in BOOLEAN, OpenDevice(ok)
        PROVE  Steps'
    BY <2>2 DEF OpenDevice, Open
  <2>3. ASSUME NEW ok \in BOOLEAN, Allocate(ok)
        PROVE  Steps'
    BY <2>3, AfterIs DEF Allocate, Goes
  <2>4. ASSUME NEW ok \in BOOLEAN, Prepare(ok)
        PROVE  Steps'
    BY <2>4, AfterIs DEF Prepare, Goes
  <2>5. ASSUME NEW ok \in BOOLEAN, CreateTimer(ok)
        PROVE  Steps'
    BY <2>5, AfterIs DEF CreateTimer, Goes
  <2>6. ASSUME NEW ok \in BOOLEAN, SetTimer(ok)
        PROVE  Steps'
    BY <2>6, AfterIs DEF SetTimer, Goes
  <2>7. ASSUME NEW ok \in BOOLEAN, CreateConnect(ok)
        PROVE  Steps'
    BY <2>7, AfterIs DEF CreateConnect, Goes
  <2>8. ASSUME NEW ok \in BOOLEAN, SetConnect(ok)
        PROVE  Steps'
    BY <2>8, AfterIs DEF SetConnect, Goes
  <2>9. ASSUME NEW ok \in BOOLEAN, Install(ok)
        PROVE  Steps'
    BY <2>9, AfterIs DEF Install, Goes
  <2>10. CASE PrepareNoClock
    BY <2>10 DEF PrepareNoClock
  <2>11. CASE UndoTimer
    BY <2>11 DEF UndoTimer, Undo
  <2>12. CASE UndoConnect
    BY <2>12 DEF UndoConnect, Undo
  <2>13. CASE UndoFree
    BY <2>13 DEF UndoFree, Undo, TypeOK
  <2> QED
    BY <1>2, <2>1, <2>2, <2>3, <2>4, <2>5, <2>6, <2>7, <2>8, <2>9, <2>10,
       <2>11, <2>12, <2>13 DEF StartStep
<1>3. CASE CallStop
  BY <1>3 DEF CallStop
<1>4. CASE StopStep
  <2>1. CASE CloseTimer
    BY <2>1 DEF CloseTimer
  <2>2. CASE CloseConnect
    BY <2>2 DEF CloseConnect
  <2>3. CASE Flush
    BY <2>3 DEF Flush
  <2>4. ASSUME NEW ok \in BOOLEAN, Uninstall(ok)
        PROVE  Steps'
    BY <2>4 DEF Uninstall
  <2>5. CASE Free
    BY <2>5 DEF Free
  <2> QED
    BY <1>4, <2>1, <2>2, <2>3, <2>4, <2>5 DEF StopStep
<1>5. ASSUME NEW r \in Req, CallPassThru(r)
      PROVE  Steps'
  BY <1>5 DEF CallPassThru
<1>6. ASSUME NEW r \in Req, Resubmit(r)
      PROVE  Steps'
  BY <1>6 DEF Resubmit
<1>7. CASE Insert
  BY <1>7 DEF Insert
<1>8. CASE Tick
  BY <1>8 DEF Tick
<1>9. CASE Removal \/ Insertion \/ Identified \/ Plug
  BY <1>9 DEF Removal, Insertion, Identified, Plug
<1>10. CASE UNCHANGED vars
  BY <1>10 DEF vars
<1> QED
  BY <1>1, <1>2, <1>3, <1>4, <1>5, <1>6, <1>7, <1>8, <1>9, <1>10 DEF Next

\* The lists, as opposed to the flags and program counters of TypeOK.
Lists ==
  /\ queue \in Seq(Req) /\ link \in Req \cup {End}
  /\ st \in [Req -> {"idle", "called", "queued", "done"}]
  /\ late \subseteq Req

LEMMA MarkHolds ==
  ASSUME NEW f \in [Req -> {"idle", "called", "queued", "done"}], NEW r \in Req,
         NEW v \in {"idle", "called", "queued", "done"}
  PROVE  [f EXCEPT ![r] = v] \in [Req -> {"idle", "called", "queued", "done"}]
BY Zenon

LEMMA UnlinkHolds ==
  ASSUME Lists, queue # <<>>, queue' = Tail(queue),
         st' = [st EXCEPT ![Head(queue)] = "done"]
  PROVE  /\ queue' \in Seq(Req)
         /\ st' \in [Req -> {"idle", "called", "queued", "done"}]
         /\ Pending' \subseteq Pending
         /\ (\A r \in Req : st[r] = "queued" =>
               \E i \in 1..Len(queue) : queue[i] = r) =>
            \A r \in Req : st'[r] = "queued" =>
               \E i \in 1..Len(queue') : queue'[i] = r
<1>1. Tail(queue) \in Seq(Req) /\ Head(queue) \in Req
  BY TailHolds DEF Lists
<1>2. st' \in [Req -> {"idle", "called", "queued", "done"}]
  BY <1>1, MarkHolds DEF Lists
<1>3. \A r \in Req : st'[r] = "queued" => st[r] = "queued" /\ r # Head(queue)
  BY <1>1 DEF Lists
<1>4. ASSUME \A r \in Req : st[r] = "queued" =>
               \E i \in 1..Len(queue) : queue[i] = r,
             NEW r \in Req, st'[r] = "queued"
      PROVE  \E i \in 1..Len(queue') : queue'[i] = r
  <2>1. PICK i \in 1..Len(queue) : queue[i] = r
    BY <1>3, <1>4
  <2>2. queue[i] # Head(queue)
    BY <1>3, <1>4, <2>1
  <2> QED
    BY <2>1, <2>2, TailHolds DEF Lists
<1> QED
  BY <1>1, <1>2, <1>3, <1>4 DEF Pending

LEMMA ListsHold ==
  ASSUME TypeOK, Steps, Walk, [Next]_vars
  PROVE  Lists'
<1> USE DEF binding, slot, ghosts
<1> Lists
  BY DEF TypeOK, Lists
<1>1. CASE UNCHANGED <<queue, st, link, late>>
  BY <1>1 DEF Lists
<1>2. CASE CloseConnect
  <2>1. queue # <<>> => Head(queue) \in Req
    BY TailHolds DEF Lists
  <2> QED
    BY <1>2, <2>1 DEF CloseConnect, Lists
<1>3. CASE Flush
  <2>1. queue # <<>> /\ link = Head(queue)
    BY <1>3 DEF Flush, Walk
  <2>2. Len(queue) > 1 => queue[2] \in Req
    BY DEF Lists
  <2>3. link' \in Req \cup {End}
    BY <1>3, <2>2 DEF Flush
  <2> QED
    BY <1>3, <2>1, <2>3, UnlinkHolds DEF Flush, Lists
<1>4. CASE Tick
  BY <1>4, UnlinkHolds DEF Tick, Lists
<1>5. CASE Removal
  <2>1. st' \in [Req -> {"idle", "called", "queued", "done"}]
    BY <1>5 DEF Removal, Lists
  <2>2. queue' \in Seq(Req)
    BY <1>5 DEF Removal
  <2> QED
    BY <1>5, <2>1, <2>2 DEF Removal, Lists
<1>6. ASSUME NEW r \in Req, CallPassThru(r)
      PROVE  Lists'
  BY <1>6, MarkHolds DEF CallPassThru, Lists
<1>7. ASSUME NEW r \in Req, Enqueue(r), st' = [st EXCEPT ![r] = "queued"],
             link' = link
      PROVE  Lists'
  BY <1>7, MarkHolds, AppendHolds DEF Enqueue, Lists
<1>8. CASE StartStep \/ CallStart \/ CallStop
  BY <1>1, <1>8 DEF StartStep, CallStart, CallStop, OpenPlatform, OpenDevice,
     Open, Allocate, Prepare, CreateTimer, SetTimer, CreateConnect, SetConnect,
     Install, Goes, PrepareNoClock, UndoTimer, UndoConnect, UndoFree, Undo
<1>9. CASE CloseTimer \/ Free \/ (\E ok \in BOOLEAN : Uninstall(ok))
  BY <1>1, <1>9 DEF CloseTimer, Free, Uninstall
<1>10. CASE Insertion \/ Identified \/ Plug
  BY <1>1, <1>10 DEF Insertion, Identified, Plug
<1>11. CASE Insert
  BY <1>7, <1>11 DEF Insert
<1>12. CASE \E r \in Req : Resubmit(r)
  BY <1>7, <1>12 DEF Resubmit
<1> QED
  BY <1>1, <1>2, <1>3, <1>4, <1>5, <1>6, <1>8, <1>9, <1>10, <1>11, <1>12
     DEF Next, StopStep, vars

LEMMA TypeHolds ==
  ASSUME TypeOK, Steps, Walk, [Next]_vars
  PROVE  TypeOK'
<1> USE DEF binding, slot, ghosts, Undoing, Stopping, Enqueue
<1> DEFINE Flags ==
      /\ pc \in {"idle", "insert", "openPlatform", "openDevice"}
                  \cup DOMAIN After \cup Undoing \cup Stopping
      /\ calls \in 0..MaxCalls /\ plugs \in 0..MaxPlugs
      /\ opened \subseteq {"platform", "device"}
      /\ priv \in {"none", "live", "freed"}
      /\ timer \in {"none", "created", "armed"}
      /\ connect \in {"none", "created", "armed"}
      /\ installed \in BOOLEAN /\ media \in BOOLEAN /\ cardIn \in BOOLEAN
      /\ noClock \in BOOLEAN /\ refused \in BOOLEAN
      /\ enum \in {"idle", "ident"}
<1> Flags
  BY DEF TypeOK
<1>1. Flags'
  <2>1. CASE CallStart \/ CallStop
    <3>1. calls' \in 0..MaxCalls
      BY <2>1, ConstantsAssumption DEF CallStart, CallStop
    <3> QED
      BY <2>1, <3>1, AfterIs DEF CallStart, CallStop
  <2>2. CASE \E ok \in BOOLEAN : OpenPlatform(ok) \/ OpenDevice(ok)
    BY <2>2, AfterIs DEF OpenPlatform, OpenDevice, Open
  <2>3. CASE \E ok \in BOOLEAN : Allocate(ok) \/ Prepare(ok) \/ CreateTimer(ok)
                                 \/ SetTimer(ok)
    BY <2>3, AfterIs DEF Allocate, Prepare, CreateTimer, SetTimer, Goes
  <2>4. CASE \E ok \in BOOLEAN : CreateConnect(ok) \/ SetConnect(ok) \/ Install(ok)
    BY <2>4, AfterIs DEF CreateConnect, SetConnect, Install, Goes
  <2>5. CASE PrepareNoClock \/ UndoTimer \/ UndoConnect \/ UndoFree
    BY <2>5, AfterIs DEF PrepareNoClock, UndoTimer, UndoConnect, UndoFree, Undo
  <2>6. CASE StopStep
    BY <2>6, AfterIs DEF StopStep, CloseTimer, CloseConnect, Flush, Uninstall, Free
  <2>7. CASE Insert \/ \E r \in Req : CallPassThru(r) \/ Resubmit(r)
    BY <2>7, AfterIs DEF Insert, CallPassThru, Resubmit
  <2>8. CASE Tick \/ Removal \/ Insertion \/ Identified
    BY <2>8, AfterIs DEF Tick, Removal, Insertion, Identified
  <2>9. CASE Plug
    BY <2>9, AfterIs, ConstantsAssumption DEF Plug
  <2>10. CASE UNCHANGED vars
    BY <2>10, AfterIs DEF vars
  <2> QED
    BY <2>1, <2>2, <2>3, <2>4, <2>5, <2>6, <2>7, <2>8, <2>9, <2>10
       DEF Next, StartStep
<1> QED
  BY <1>1, ListsHold DEF Lists, TypeOK

LEMMA WalkHolds ==
  ASSUME TypeOK, Steps, Walk, [Next]_vars
  PROVE  Walk'
<1> USE DEF binding, slot, ghosts
<1> Lists
  BY DEF TypeOK, Lists
<1> DEFINE Listed ==
      \A r \in Req : st[r] = "queued" => \E i \in 1..Len(queue) : queue[i] = r
<1> Listed
  BY DEF Walk
\* Steps that leave the queue alone: only the place in Stop can change.
<1>1. ASSUME UNCHANGED <<queue, st, link, late>>,
             pc' = "flush" => pc = "flush", ~installed' => ~installed
      PROVE  Walk'
  BY <1>1 DEF Walk, Pending
<1>2. CASE StartStep
  <2>1. UNCHANGED <<queue, st, link, late>> /\ pc' # "flush"
    BY <1>2, AfterIs DEF StartStep, OpenPlatform, OpenDevice, Open, Allocate,
       Prepare, CreateTimer, SetTimer, CreateConnect, SetConnect, Install,
       Goes, PrepareNoClock, UndoTimer, UndoConnect, UndoFree, Undo
  <2>2. ~installed
    BY <1>2 DEF StartStep, OpenPlatform, OpenDevice, Open, Allocate, Prepare,
       CreateTimer, SetTimer, CreateConnect, SetConnect, Install, Goes,
       PrepareNoClock, UndoTimer, UndoConnect, UndoFree, Undo, Steps, Fresh,
       Undoing
  <2> QED
    BY <2>1, <2>2 DEF Walk, Pending
<1>3. CASE CallStart \/ CallStop \/ CloseTimer
  BY <1>1, <1>3 DEF CallStart, CallStop, CloseTimer
<1>4. CASE CloseConnect
  <2>1. queue = <<>> => Pending = {}
    BY DEF Pending
  <2>2. installed /\ UNCHANGED <<queue, st, late, installed>>
    BY <1>4 DEF CloseConnect, Steps
  <2>3. link' = IF queue = <<>> THEN End ELSE Head(queue)
    BY <1>4 DEF CloseConnect
  <2>4. queue # <<>> => link' # End
    BY <2>3, TailHolds, ConstantsAssumption DEF Lists
  <2> QED
    BY <2>1, <2>2, <2>3, <2>4 DEF Walk, Pending
<1>5. CASE Flush
  <2>1. queue # <<>> /\ link = Head(queue) /\ pc = "flush" /\ installed
        /\ UNCHANGED <<pc, installed, late>>
    BY <1>5 DEF Flush, Walk, Steps
  <2>2. Listed'
    BY <1>5, <2>1, UnlinkHolds DEF Flush
  <2>3. CASE Len(queue) > 1
    <3>1. queue' # <<>> /\ Head(queue') = queue[2] /\ queue[2] \in Req
      <4>1. queue' = Tail(queue) /\ queue \in Seq(Req)
        BY <1>5 DEF Flush, Lists
      <4> QED
        BY <2>1, <2>3, <4>1, TailHolds
    <3>2. link' = Head(queue') /\ link' # End
      BY <1>5, <2>3, <3>1, ConstantsAssumption DEF Flush
    <3> QED
      BY <2>1, <2>2, <3>1, <3>2 DEF Walk
  <2>4. CASE ~(Len(queue) > 1)
    <3>1. Len(queue') = 0
      <4>1. queue' = Tail(queue) /\ queue \in Seq(Req) /\ queue # <<>>
        BY <1>5, <2>1 DEF Flush, Lists
      <4> QED
        BY <4>1, <2>4, TailHolds
    <3>2. Pending' = {}
      BY <2>2, <3>1 DEF Pending
    <3>3. link' = End
      BY <1>5, <2>4 DEF Flush
    <3> QED
      BY <2>1, <2>2, <3>2, <3>3 DEF Walk
  <2> QED
    BY <2>3, <2>4
<1>6. ASSUME NEW ok \in BOOLEAN, Uninstall(ok)
      PROVE  Walk'
  BY <1>6 DEF Uninstall, Walk, Pending
<1>7. CASE Free
  BY <1>1, <1>7 DEF Free
<1>8. CASE Tick
  <2>1. pc # "flush" /\ UNCHANGED <<pc, installed, late>>
    BY <1>8 DEF Tick, Steps
  <2>2. Listed' /\ Pending' \subseteq Pending
    BY <1>8, UnlinkHolds DEF Tick
  <2> QED
    BY <2>1, <2>2 DEF Walk
<1>9. CASE Removal
  <2>1. pc # "flush" /\ UNCHANGED <<pc, installed, late>>
    BY <1>9 DEF Removal, Steps
  <2>2. \A r \in Req : st'[r] # "queued"
    BY <1>9 DEF Removal, Pending
  <2>3. Pending' = {}
    BY <2>2 DEF Pending
  <2> QED
    BY <2>1, <2>2, <2>3 DEF Walk
<1>10. ASSUME NEW r \in Req, CallPassThru(r)
       PROVE  Walk'
  <2>1. \A s \in Req : st'[s] = "queued" => st[s] = "queued"
    BY <1>10 DEF CallPassThru, Lists
  <2> QED
    BY <1>10, <2>1 DEF CallPassThru, Walk, Pending
<1>11. ASSUME NEW r \in Req, Enqueue(r), st' = [st EXCEPT ![r] = "queued"],
              installed, UNCHANGED <<installed, link>>, pc' = "flush" => pc' = pc
       PROVE  Walk'
  <2>1. /\ queue' # <<>> /\ (queue # <<>> => Head(queue') = Head(queue))
        /\ \E j \in 1..Len(queue') : queue'[j] = r
        /\ \A i \in 1..Len(queue) :
             \E j \in 1..Len(queue') : queue'[j] = queue[i]
    BY <1>11, AppendHolds DEF Enqueue, Lists
  <2>2. \A s \in Req : st'[s] = "queued" => s = r \/ st[s] = "queued"
    BY <1>11 DEF Lists
  <2>3. Listed'
    BY <2>1, <2>2
  <2>4. Pending' \subseteq Pending \cup {r}
    BY <2>2 DEF Pending
  <2>5. pc' = "flush" /\ link' = End => Pending' \subseteq late'
    BY <1>11, <2>4 DEF Enqueue, Walk
  <2>6. pc' = "flush" /\ link' # End => link' = Head(queue')
    BY <1>11, <2>1 DEF Walk
  <2> QED
    BY <1>11, <2>1, <2>3, <2>5, <2>6 DEF Walk
<1>12. CASE Insert
  BY <1>11, <1>12 DEF Insert, Steps
<1>13. ASSUME NEW r \in Req, Resubmit(r)
       PROVE  Walk'
  BY <1>11, <1>13 DEF Resubmit
<1>14. CASE Insertion \/ Identified \/ Plug
  BY <1>1, <1>14 DEF Insertion, Identified, Plug
<1>15. CASE UNCHANGED vars
  BY <1>1, <1>15 DEF vars
<1> QED
  BY <1>2, <1>3, <1>4, <1>5, <1>6, <1>7, <1>8, <1>9, <1>10, <1>12, <1>13, <1>14,
     <1>15 DEF Next, StopStep

\* The inductive invariant: the types, at every step of Start and Stop what
\* the driver holds by then (DwMmcHcDxe.c:639-919), and what Stop's walk of
\* the queue still has before it.
THEOREM Inductive == Spec => []IInv
<1>1. Init => IInv
  BY InitHolds
<1>2. IInv /\ [Next]_vars => IInv'
  BY TypeHolds, StepsHold, WalkHolds DEF IInv
<1> QED
  BY <1>1, <1>2, PTL DEF Spec

\* Every variable keeps its type, for any number of packets, calls and swaps
\* of the card.
THEOREM TypeCorrect == Spec => []TypeOK
<1>1. IInv => TypeOK
  BY DEF IInv
<1> QED
  BY <1>1, Inductive, PTL

\* Whatever step of Start fails (DwMmcHcDxe.c:639-800), and wherever Stop is
\* (837-919), nothing that can still be called stands on freed memory.
THEOREM ResourcesAreHeld == Spec => []ResourcesHeld
<1>1. IInv => ResourcesHeld
  <2> SUFFICES ASSUME IInv PROVE ResourcesHeld
    OBVIOUS
  <2>1. timer # "none" \/ connect # "none" \/ installed => priv = "live"
    BY AfterIs DEF IInv, TypeOK, Steps, Fresh, Undoing, Stopping
  <2>2. pc = "idle" /\ priv = "live" => installed \/ noClock
    BY DEF IInv, Steps
  <2>3. installed /\ pc \notin Stopping /\ ~refused =>
          timer = "armed" /\ connect = "armed"
    BY AfterIs DEF IInv, TypeOK, Steps, Fresh, Undoing, Stopping
  <2> QED
    BY <2>1, <2>2, <2>3 DEF ResourcesHeld
<1> QED
  BY <1>1, Inductive, PTL

\* Stop (DwMmcHcDxe.c:880-899) loses no packet but those submitted once its
\* walk had passed the last entry.
THEOREM OnlyLatePacketsLost == Spec => []LostOnlyBehindTheWalk
<1>1. IInv => LostOnlyBehindTheWalk
  <2>1. IInv /\ priv = "freed" => ~installed
    BY AfterIs DEF IInv, TypeOK, Steps, Fresh, Undoing, Stopping
  <2> QED
    BY <2>1 DEF IInv, Walk, LostOnlyBehindTheWalk
<1> QED
  BY <1>1, Inductive, PTL
=============================================================================
