------------------------- MODULE DwMmcQueue_proofs -------------------------
(***************************************************************************)
(* Proofs about DwMmcQueue, for every set of packets, any timeouts, any    *)
(* number of card swaps, FIFO or DMA.                                      *)
(***************************************************************************)
EXTENDS DwMmcQueue, TLAPS

\* Where each call is in PassThru tells how far its packet is; the queue is
\* not empty while the timer handler spins; a finite timeout is not used up
\* before the packet is queued or its result waited for.
Calls ==
  /\ \A c \in Ctx :
       /\ pc[c] # "idle" => cur[c] \in Req
       /\ pc[c] = "create" => st[cur[c]] = "called"
       /\ pc[c] = "insert" => st[cur[c]] = "trb" /\ cur[c] \in async
       /\ pc[c] \in {"wait", "exec", "result"} =>
            st[cur[c]] = "trb" /\ cur[c] \notin async
  /\ pc["app"] # "idle" /\ pc["cb"] # "idle" => cur["app"] # cur["cb"]
  /\ spin => queue # <<>>
  /\ \A r \in Req : st[r] \in {"called", "trb"} =>
                      r \in forever \/ ticks[r] > 0
  /\ \A r \in Req : st[r] # "done" => result[r] = "none"

IInv == TypeOK /\ QueueExact /\ Calls

\* Taking the head off a queue, and adding a packet to its end.
LEMMA TailQueue ==
  ASSUME NEW q \in Seq(Req), q # <<>>, Distinct(q)
  PROVE  /\ Head(q) \in Req /\ Head(q) \in Elems(q)
         /\ Tail(q) \in Seq(Req)
         /\ Elems(Tail(q)) = Elems(q) \ {Head(q)}
         /\ Distinct(Tail(q))
<1>1. Len(q) \in Nat \ {0} /\ Head(q) = q[1] /\ Head(q) \in Req
  OBVIOUS
<1>2. Tail(q) \in Seq(Req) /\ Len(Tail(q)) = Len(q) - 1
  OBVIOUS
<1>3. \A i \in 1..Len(q) - 1 : Tail(q)[i] = q[i + 1]
  OBVIOUS
<1>4. Distinct(Tail(q))
  BY <1>1, <1>2, <1>3 DEF Distinct
<1>5. Elems(Tail(q)) \subseteq Elems(q) \ {Head(q)}
  BY <1>1, <1>2, <1>3 DEF Distinct, Elems
<1>6. ASSUME NEW x \in Elems(q) \ {Head(q)}
      PROVE  x \in Elems(Tail(q))
  <2>1. PICK i \in 1..Len(q) : x = q[i]
    BY DEF Elems
  <2>2. i # 1 /\ i - 1 \in 1..Len(q) - 1
    BY <2>1, <1>1
  <2>3. Tail(q)[i - 1] = x
    BY <2>1, <2>2, <1>1, <1>3
  <2> QED
    BY <2>2, <2>3, <1>2 DEF Elems
<1>7. Head(q) \in Elems(q)
  BY <1>1 DEF Elems
<1> QED
  BY <1>1, <1>2, <1>4, <1>5, <1>6, <1>7

\* A packet that is not in the queue may be appended: the queue stays free of
\* duplicates (InsertTailList in DwMmcCreateTrb).
LEMMA AppendQueue ==
  ASSUME NEW q \in Seq(Req), Distinct(q), NEW x \in Req, x \notin Elems(q)
  PROVE  /\ Append(q, x) \in Seq(Req)
         /\ Append(q, x) # <<>>
         /\ Elems(Append(q, x)) = Elems(q) \cup {x}
         /\ Distinct(Append(q, x))
         /\ q # <<>> => Head(Append(q, x)) = Head(q)
<1>1. Append(q, x) \in Seq(Req) /\ Len(Append(q, x)) = Len(q) + 1
  OBVIOUS
<1>2. /\ Append(q, x)[Len(q) + 1] = x
      /\ \A i \in 1..Len(q) : Append(q, x)[i] = q[i]
  OBVIOUS
<1>3. Elems(Append(q, x)) = Elems(q) \cup {x}
  BY <1>1, <1>2 DEF Elems
<1>4. Distinct(Append(q, x))
  BY <1>1, <1>2 DEF Elems, Distinct
<1>5. Append(q, x) # <<>> /\ (q # <<>> => Head(Append(q, x)) = Head(q))
  BY <1>1, <1>2
<1> QED
  BY <1>1, <1>3, <1>4, <1>5

\* DwMmcHcDriverBindingStart leaves an empty queue and no call under way.
LEMMA InitInv == Init => IInv
<1> SUFFICES ASSUME Init PROVE IInv
  OBVIOUS
<1>1. TypeOK
  <2>1. <<>> \in Seq(Req)
    OBVIOUS
  <2> QED
    BY <2>1 DEF Init, TypeOK, Ctx, States, Statuses, Cmds
<1>2. QueueExact
  BY DEF Init, QueueExact, Distinct, Elems, Queued
<1>3. Calls
  BY DEF Init, Calls, Ctx
<1> QED
  BY <1>1, <1>2, <1>3 DEF IInv

\* The invariant survives every action: one step of the proof for each.
LEMMA StepInv == IInv /\ [Next]_vars => IInv'
<1> SUFFICES ASSUME IInv, [Next]_vars PROVE IInv'
  OBVIOUS
<1> USE DEF IInv, TypeOK, QueueExact, Calls, Queued, Ctx, States, Statuses, Cmds,
            reqVars, ctxVars, hwVars, ghosts, CanRun
<1>t. queue # <<>> =>
        /\ Head(queue) \in Req /\ Head(queue) \in Elems(queue)
        /\ Tail(queue) \in Seq(Req)
        /\ Elems(Tail(queue)) = Elems(queue) \ {Head(queue)}
        /\ Distinct(Tail(queue))
  BY TailQueue
<1>x. ASSUME NEW x \in Cmds, Exec(x)
      PROVE  flight' \subseteq Cmds /\ tainted' \subseteq Cmds
             /\ over' \in Cmds \cup {None}
  <2>1. Active \subseteq Cmds
    BY DEF Active
  <2>2. flight' \subseteq Cmds
    BY <1>x DEF Exec
  <2>3. tainted' = tainted \/ tainted' = tainted \cup Active \cup flight \cup {x}
    BY <1>x DEF Exec
  <2>4. tainted' \subseteq Cmds
    BY <2>1, <2>3
  <2>5. over' = None \/ over' = over
    BY <1>x DEF Exec
  <2> QED
    BY <2>2, <2>4, <2>5
<1>e. Elems(<<>>) = {} /\ Distinct(<<>>)
  BY DEF Elems, Distinct
<1>n. ASSUME HeadNotReady, queue # <<>>, ~spin,
             UNCHANGED <<async, forever, pc, cur, spin>>
      PROVE  /\ ticks' \in [Req -> Nat]
             /\ st' \in [Req -> States]
             /\ result' \in [Req -> Statuses \cup {"none"}]
             /\ queue' \in Seq(Req)
             /\ started' \subseteq Req
             /\ abandoned' \in BOOLEAN
             /\ QueueExact' /\ Calls'
  <2> DEFINE r == Head(queue)
  <2>0. r \in Req /\ Tail(queue) \in Seq(Req) /\ st[r] = "queued"
    BY <1>n, <1>t
  <2>1. CASE /\ r \in forever
             /\ started' = started \cup {r}
             /\ UNCHANGED <<st, result, queue, ticks, abandoned>>
    BY <2>0, <2>1, <1>n
  <2>2. CASE /\ r \notin forever /\ ticks[r] > 0
             /\ started' = started \cup {r}
             /\ ticks' = [ticks EXCEPT ![r] = @ - 1]
             /\ UNCHANGED <<st, result, queue, abandoned>>
    <3>1. ticks' \in [Req -> Nat] /\ started' \subseteq Req
      BY <2>0, <2>2
    <3>2. QueueExact'
      BY <2>0, <2>2, <1>n
    <3>3. \A q \in Req : q # r => ticks'[q] = ticks[q]
      BY <2>2
    <3>4. Calls'
      BY <2>0, <2>2, <3>3, <1>n
    <3> QED
      BY <2>2, <3>1, <3>2, <3>4
  <2>3. CASE /\ HeadDone("TIMEOUT")
             /\ abandoned' = TRUE
             /\ UNCHANGED ticks
    <3> USE DEF HeadDone, Settle
    <3>1. /\ st' \in [Req -> States]
          /\ result' \in [Req -> Statuses \cup {"none"}]
          /\ started' \subseteq Req
      BY <2>0, <2>3
    <3>2. QueueExact'
      BY <2>0, <2>3, <1>n, <1>t
    <3>3. Calls'
      BY <2>0, <2>3, <1>n, <1>t
    <3> QED
      BY <2>0, <2>3, <3>1, <3>2, <3>3
  <2> QED
    BY <1>n, <2>1, <2>2, <2>3 DEF HeadNotReady
<1>1. ASSUME NEW c \in Ctx, NEW r \in Req, NEW t \in Timeouts, NEW a \in BOOLEAN,
              Submit(c, r, t, a) PROVE IInv'
  <2>1. TypeOK'
    BY <1>1, ConstantsAssumption DEF Submit
  <2>2. QueueExact'
    BY <1>1, ConstantsAssumption DEF Submit
  <2>3. Calls'
    BY <1>1, ConstantsAssumption DEF Submit
  <2> QED
    BY <2>1, <2>2, <2>3
<1>2. ASSUME NEW c \in Ctx, Create(c) PROVE IInv'
  <2>1. TypeOK'
    BY <1>2, ConstantsAssumption DEF Create
  <2>2. QueueExact'
    BY <1>2, ConstantsAssumption DEF Create
  <2>3. Calls'
    BY <1>2, ConstantsAssumption DEF Create
  <2> QED
    BY <2>1, <2>2, <2>3
<1>3. ASSUME NEW c \in Ctx, CreateFails(c) PROVE IInv'
  <2>1. TypeOK'
    BY <1>3, ConstantsAssumption DEF CreateFails
  <2>2. QueueExact'
    BY <1>3, ConstantsAssumption DEF CreateFails
  <2>3. Calls'
    BY <1>3, ConstantsAssumption DEF CreateFails
  <2> QED
    BY <2>1, <2>2, <2>3
<1>4. ASSUME NEW c \in Ctx, Insert(c) PROVE IInv'
  <2>1. TypeOK'
    <3>1. cur[c] \in Req /\ st[cur[c]] = "trb"
      BY <1>4 DEF Insert
    <3>2. queue' \in Seq(Req)
      BY <1>4, <3>1, AppendQueue DEF Insert
    <3> QED
      BY <1>4, <3>1, <3>2 DEF Insert
  <2>2. QueueExact'
    <3>1. cur[c] \in Req /\ st[cur[c]] = "trb" /\ cur[c] \in async
      BY <1>4 DEF Insert
    <3>2. cur[c] \notin Elems(queue)
      BY <3>1
    <3>3. /\ queue' # <<>> /\ Distinct(queue')
          /\ Elems(queue') = Elems(queue) \cup {cur[c]}
          /\ queue # <<>> => Head(queue') = Head(queue)
      BY <1>4, <3>1, <3>2, AppendQueue DEF Insert
    <3> QED
      BY <1>4, <3>1, <3>3 DEF Insert
  <2>3. Calls'
    BY <1>4, ConstantsAssumption DEF Insert
  <2> QED
    BY <2>1, <2>2, <2>3
<1>5. ASSUME NEW c \in Ctx, SyncSeesEmpty(c) PROVE IInv'
  <2>1. TypeOK'
    BY <1>5, ConstantsAssumption DEF SyncSeesEmpty
  <2>2. QueueExact'
    BY <1>5, ConstantsAssumption DEF SyncSeesEmpty
  <2>3. Calls'
    BY <1>5, ConstantsAssumption DEF SyncSeesEmpty
  <2> QED
    BY <2>1, <2>2, <2>3
<1>6. ASSUME NEW c \in Ctx, NEW ok \in BOOLEAN, SyncExec(c, ok) PROVE IInv'
  <2>1. TypeOK'
    <3>1. cur[c] \in Cmds
      BY <1>6 DEF SyncExec
    <3>2. /\ flight' \subseteq Cmds /\ tainted' \subseteq Cmds
          /\ over' \in Cmds \cup {None}
      BY <1>6, <3>1, <1>x DEF SyncExec
    <3>3. CASE ok
      BY <1>6, <3>2, <3>3 DEF SyncExec
    <3>4. CASE ~ok
      BY <1>6, <3>2, <3>4 DEF SyncExec, SyncReturn, Settle
    <3> QED
      BY <3>3, <3>4
  <2>2. QueueExact'
    BY <1>6, ConstantsAssumption, <1>t, <1>e DEF SyncExec, SyncReturn, Settle, Exec
  <2>3. Calls'
    BY <1>6, ConstantsAssumption, <1>t, <1>e DEF SyncExec, SyncReturn, Settle, Exec
  <2> QED
    BY <2>1, <2>2, <2>3
<1>7. ASSUME NEW c \in Ctx, SyncSuccess(c) PROVE IInv'
  <2>1. TypeOK'
    BY <1>7, ConstantsAssumption, <1>t, <1>e DEF SyncSuccess, SyncReturn, Settle, TakeSuccess
  <2>2. QueueExact'
    BY <1>7, ConstantsAssumption, <1>t, <1>e DEF SyncSuccess, SyncReturn, Settle, TakeSuccess
  <2>3. Calls'
    BY <1>7, ConstantsAssumption, <1>t, <1>e DEF SyncSuccess, SyncReturn, Settle, TakeSuccess
  <2> QED
    BY <2>1, <2>2, <2>3
<1>8. ASSUME NEW c \in Ctx, SyncNotReady(c) PROVE IInv'
  <2>1. TypeOK'
    <3>1. cur[c] \in Req /\ ticks[cur[c]] > 0
      BY <1>8 DEF SyncNotReady
    <3>2. ticks' \in [Req -> Nat]
      BY <1>8, <3>1 DEF SyncNotReady
    <3>3. CASE ticks[cur[c]] = 1
      BY <1>8, <3>2, <3>3 DEF SyncNotReady, SyncReturn, Settle
    <3>4. CASE ticks[cur[c]] # 1
      BY <1>8, <3>2, <3>4 DEF SyncNotReady
    <3> QED
      BY <3>3, <3>4
  <2>2. QueueExact'
    BY <1>8, ConstantsAssumption, <1>t, <1>e DEF SyncNotReady, SyncReturn, Settle
  <2>3. Calls'
    BY <1>8, ConstantsAssumption, <1>t, <1>e DEF SyncNotReady, SyncReturn, Settle
  <2> QED
    BY <2>1, <2>2, <2>3
<1>9. ASSUME TimerNoMedia PROVE IInv'
  <2>1. TypeOK'
    BY <1>9, ConstantsAssumption, <1>t, <1>e DEF TimerNoMedia, TimerRuns, HeadDone, Settle
  <2>2. QueueExact'
    BY <1>9, ConstantsAssumption, <1>t, <1>e DEF TimerNoMedia, TimerRuns, HeadDone, Settle
  <2>3. Calls'
    BY <1>9, ConstantsAssumption, <1>t, <1>e DEF TimerNoMedia, TimerRuns, HeadDone, Settle
  <2> QED
    BY <2>1, <2>2, <2>3
<1>10. ASSUME TimerExecFails PROVE IInv'
  <2>1. TypeOK'
    <3>1. Head(queue) \in Cmds /\ Tail(queue) \in Seq(Req)
      BY <1>10, <1>t DEF TimerExecFails, TimerRuns
    <3>2. /\ flight' \subseteq Cmds /\ tainted' \subseteq Cmds
          /\ over' \in Cmds \cup {None}
      BY <1>10, <3>1, <1>x DEF TimerExecFails
    <3> QED
      BY <1>10, <3>1, <3>2 DEF TimerExecFails, HeadDone, Settle
  <2>2. QueueExact'
    BY <1>10, ConstantsAssumption, <1>t, <1>e DEF TimerExecFails, TimerRuns, HeadDone, Settle, Exec
  <2>3. Calls'
    BY <1>10, ConstantsAssumption, <1>t, <1>e DEF TimerExecFails, TimerRuns, HeadDone, Settle, Exec
  <2> QED
    BY <2>1, <2>2, <2>3
<1>11. ASSUME TimerStart PROVE IInv'
  <2>1. TypeOK'
    <3>1. Head(queue) \in Req /\ queue # <<>> /\ ~spin
      BY <1>11, <1>t DEF TimerStart, TimerRuns
    <3>2. /\ flight' \subseteq Cmds /\ tainted' \subseteq Cmds
          /\ over' \in Cmds \cup {None}
      BY <1>11, <3>1, <1>x DEF TimerStart
    <3>3. CASE Fifo
      BY <1>11, <3>1, <3>2, <3>3, <1>n DEF TimerStart
    <3>4. CASE ~Fifo
      BY <1>11, <3>1, <3>2, <3>4 DEF TimerStart
    <3> QED
      BY <3>3, <3>4
  <2>2. QueueExact'
    <3>1. Head(queue) \in Req /\ queue # <<>> /\ ~spin
      BY <1>11, <1>t DEF TimerStart, TimerRuns
    <3>2. CASE Fifo
      BY <1>11, <3>1, <3>2, <1>n DEF TimerStart
    <3>3. CASE ~Fifo
      BY <1>11, <3>1, <3>3 DEF TimerStart
    <3> QED
      BY <3>2, <3>3
  <2>3. Calls'
    <3>1. Head(queue) \in Req /\ queue # <<>> /\ ~spin
      BY <1>11, <1>t DEF TimerStart, TimerRuns
    <3>2. CASE Fifo
      BY <1>11, <3>1, <3>2, <1>n DEF TimerStart
    <3>3. CASE ~Fifo
      BY <1>11, <3>1, <3>3 DEF TimerStart
    <3> QED
      BY <3>2, <3>3
  <2> QED
    BY <2>1, <2>2, <2>3
<1>12. ASSUME TimerStartAndFinish PROVE IInv'
  <2>1. TypeOK'
    <3>1. Head(queue) \in Cmds /\ Tail(queue) \in Seq(Req)
      BY <1>12, <1>t DEF TimerStartAndFinish, TimerRuns
    <3>2. tainted' \subseteq Cmds
      <4>1. Active \subseteq Cmds
        BY DEF Active
      <4>2. \/ tainted' = tainted
            \/ tainted' = tainted \cup Active \cup flight \cup {Head(queue)}
        BY <1>12 DEF TimerStartAndFinish
      <4> QED
        BY <3>1, <4>1, <4>2
    <3>3. over' \in Cmds \cup {None}
      BY <1>12, <3>1 DEF TimerStartAndFinish
    <3> QED
      BY <1>12, <3>1, <3>2, <3>3 DEF TimerStartAndFinish, HeadDone, Settle
  <2>2. QueueExact'
    BY <1>12, ConstantsAssumption, <1>t, <1>e DEF TimerStartAndFinish, TimerRuns, HeadDone, Settle
  <2>3. Calls'
    BY <1>12, ConstantsAssumption, <1>t, <1>e DEF TimerStartAndFinish, TimerRuns, HeadDone, Settle
  <2> QED
    BY <2>1, <2>2, <2>3
<1>13. ASSUME TimerFinish PROVE IInv'
  <2>1. TypeOK'
    BY <1>13, ConstantsAssumption, <1>t, <1>e DEF TimerFinish, TimerRuns, TakeSuccess, HeadDone, Settle
  <2>2. QueueExact'
    BY <1>13, ConstantsAssumption, <1>t, <1>e DEF TimerFinish, TimerRuns, TakeSuccess, HeadDone, Settle
  <2>3. Calls'
    BY <1>13, ConstantsAssumption, <1>t, <1>e DEF TimerFinish, TimerRuns, TakeSuccess, HeadDone, Settle
  <2> QED
    BY <2>1, <2>2, <2>3
<1>14. ASSUME TimerNotReady PROVE IInv'
  <2>1. TypeOK'
    BY <1>14, <1>n DEF TimerNotReady, TimerRuns
  <2>2. QueueExact'
    BY <1>14, <1>n DEF TimerNotReady, TimerRuns
  <2>3. Calls'
    BY <1>14, <1>n DEF TimerNotReady, TimerRuns
  <2> QED
    BY <2>1, <2>2, <2>3
<1>15. ASSUME EnumRemoval PROVE IInv'
  <2>1. TypeOK'
    BY <1>15, ConstantsAssumption DEF EnumRemoval
  <2>2. QueueExact'
    BY <1>15, ConstantsAssumption DEF EnumRemoval
  <2>3. Calls'
    BY <1>15, ConstantsAssumption DEF EnumRemoval
  <2> QED
    BY <2>1, <2>2, <2>3
<1>16. ASSUME EnumFlush PROVE IInv'
  <2>1. TypeOK'
    BY <1>16, ConstantsAssumption, <1>t, <1>e DEF EnumFlush, Flush, Settle
  <2>2. QueueExact'
    BY <1>16, ConstantsAssumption, <1>t, <1>e DEF EnumFlush, Flush, Settle
  <2>3. Calls'
    BY <1>16, ConstantsAssumption, <1>t, <1>e DEF EnumFlush, Flush, Settle
  <2> QED
    BY <2>1, <2>2, <2>3
<1>17. ASSUME EnumInsertion PROVE IInv'
  <2>1. TypeOK'
    BY <1>17, ConstantsAssumption DEF EnumInsertion
  <2>2. QueueExact'
    BY <1>17, ConstantsAssumption DEF EnumInsertion
  <2>3. Calls'
    BY <1>17, ConstantsAssumption DEF EnumInsertion
  <2> QED
    BY <2>1, <2>2, <2>3
<1>18. ASSUME NEW ok \in BOOLEAN, EnumInit(ok) PROVE IInv'
  <2>1. TypeOK'
    BY <1>18, ConstantsAssumption DEF EnumInit
  <2>2. QueueExact'
    BY <1>18, ConstantsAssumption DEF EnumInit
  <2>3. Calls'
    BY <1>18, ConstantsAssumption DEF EnumInit
  <2> QED
    BY <2>1, <2>2, <2>3
<1>19. ASSUME IdentStart PROVE IInv'
  <2>1. TypeOK'
    <3>1. /\ flight' \subseteq Cmds /\ tainted' \subseteq Cmds
          /\ over' \in Cmds \cup {None}
      BY <1>19, <1>x DEF IdentStart
    <3> QED
      BY <1>19, <3>1 DEF IdentStart
  <2>2. QueueExact'
    BY <1>19, ConstantsAssumption DEF IdentStart, Exec
  <2>3. Calls'
    BY <1>19, ConstantsAssumption DEF IdentStart, Exec
  <2> QED
    BY <2>1, <2>2, <2>3
<1>20. ASSUME NEW ok \in BOOLEAN, IdentEnd(ok) PROVE IInv'
  <2>1. TypeOK'
    BY <1>20, ConstantsAssumption DEF IdentEnd
  <2>2. QueueExact'
    BY <1>20, ConstantsAssumption DEF IdentEnd
  <2>3. Calls'
    BY <1>20, ConstantsAssumption DEF IdentEnd
  <2> QED
    BY <2>1, <2>2, <2>3
<1>21. ASSUME ResetDevice PROVE IInv'
  <2>1. TypeOK'
    BY <1>21, ConstantsAssumption, <1>t, <1>e DEF ResetDevice, Flush, Settle
  <2>2. QueueExact'
    BY <1>21, ConstantsAssumption, <1>t, <1>e DEF ResetDevice, Flush, Settle
  <2>3. Calls'
    BY <1>21, ConstantsAssumption, <1>t, <1>e DEF ResetDevice, Flush, Settle
  <2> QED
    BY <2>1, <2>2, <2>3
<1>22. ASSUME NEW ok \in BOOLEAN, Stop(ok) PROVE IInv'
  <2>1. TypeOK'
    BY <1>22, ConstantsAssumption, <1>t, <1>e DEF Stop, Flush, Settle
  <2>2. QueueExact'
    BY <1>22, ConstantsAssumption, <1>t, <1>e DEF Stop, Flush, Settle
  <2>3. Calls'
    BY <1>22, ConstantsAssumption, <1>t, <1>e DEF Stop, Flush, Settle
  <2> QED
    BY <2>1, <2>2, <2>3
<1>23. ASSUME NEW x \in Cmds, HwFinish(x) PROVE IInv'
  <2>1. TypeOK'
    BY <1>23, ConstantsAssumption DEF HwFinish
  <2>2. QueueExact'
    BY <1>23, ConstantsAssumption DEF HwFinish
  <2>3. Calls'
    BY <1>23, ConstantsAssumption DEF HwFinish
  <2> QED
    BY <2>1, <2>2, <2>3
<1>24. ASSUME Plug PROVE IInv'
  <2>1. TypeOK'
    BY <1>24, ConstantsAssumption DEF Plug
  <2>2. QueueExact'
    BY <1>24, ConstantsAssumption DEF Plug
  <2>3. Calls'
    BY <1>24, ConstantsAssumption DEF Plug
  <2> QED
    BY <2>1, <2>2, <2>3
<1>25. CASE UNCHANGED vars
  BY <1>25 DEF vars, Distinct, Elems
<1> HIDE DEF IInv, TypeOK, QueueExact, Calls, Queued, States, Statuses, Ctx,
             reqVars, ctxVars, hwVars, ghosts, CanRun
<1>26. ASSUME NEW c \in Ctx, Call(c) PROVE IInv'
  BY <1>26, <1>2, <1>3, <1>4, <1>5, <1>6, <1>7, <1>8 DEF Call
<1>27. CASE Timer
  BY <1>27, <1>9, <1>10, <1>11, <1>12, <1>13, <1>14 DEF Timer
<1>28. CASE Enumerate
  BY <1>28, <1>15, <1>16, <1>17, <1>18, <1>19, <1>20 DEF Enumerate
<1> QED
  BY <1>1, <1>21, <1>22, <1>23, <1>24, <1>25, <1>26, <1>27, <1>28 DEF Next

\* The state of the driver, the controller and the slot has the types TypeOK
\* gives it, whatever interrupts whatever.
THEOREM TypeCorrect == Spec => []TypeOK
<1>1. IInv => TypeOK
  BY DEF IInv
<1> QED
  BY <1>1, InitInv, StepInv, PTL DEF Spec

\* Private->Queue is always exactly the accepted asynchronous packets that
\* have not completed, and only its head was started.
THEOREM QueueCorrect == Spec => []QueueExact
<1>1. IInv => QueueExact
  BY DEF IInv
<1> QED
  BY <1>1, InitInv, StepInv, PTL DEF Spec

-----------------------------------------------------------------------------
(***************************************************************************)
(* The driver implements AsyncIo.                                          *)
(***************************************************************************)
outcomeMap == [r \in Req |-> IF r \in async THEN result[r] ELSE "none"]

\* A head that completes is a Complete step, a flush a CompleteAll step; a
\* synchronous packet that returns is none of AsyncIo's business.
LEMMA HeadDoneMaps ==
  ASSUME IInv, queue # <<>>, NEW s \in Statuses, HeadDone(s), async' = async
  PROVE  Abs!Next
<1>1. /\ Head(queue) \in Req /\ Head(queue) \in async
      /\ result[Head(queue)] = "none"
  BY TailQueue DEF IInv, TypeOK, QueueExact, Calls, Queued
<1>2. outcomeMap' = [outcomeMap EXCEPT ![Head(queue)] = s]
  BY <1>1 DEF HeadDone, Settle, outcomeMap
<1>3. Abs!Complete(s)
  BY <1>1, <1>2 DEF Abs!Complete, outcomeMap, HeadDone
<1> QED
  BY <1>3 DEF Abs!Next, Abs!Finish

\* A flush (removal, reset, stop) completes all outstanding packets at once,
\* and is nothing to AsyncIo when the queue is empty.
LEMMA FlushMaps ==
  ASSUME IInv, NEW s \in Statuses, Flush(s), async' = async
  PROVE  [Abs!Next]_(Abs!vars)
<1>1. /\ Queued \subseteq async
      /\ \A r \in Queued : result[r] = "none"
      /\ Abs!Outstanding = Queued
  BY DEF IInv, TypeOK, QueueExact, Calls, Queued, Abs!Outstanding, Elems
<1>2. outcomeMap' = [r \in Req |-> IF r \in Queued THEN s ELSE outcomeMap[r]]
  BY <1>1 DEF Flush, Settle, outcomeMap, IInv, TypeOK
<1>3. CASE queue # <<>>
  <2>1. Abs!CompleteAll(s)
    BY <1>1, <1>2, <1>3 DEF Abs!CompleteAll, outcomeMap, Flush, IInv, TypeOK
  <2> QED
    BY <2>1 DEF Abs!Next, Abs!Finish
<1>4. CASE queue = <<>>
  <2>1. Queued = {}
    BY <1>4 DEF Queued, Elems
  <2>2. outcomeMap' = outcomeMap
    BY <1>2, <2>1 DEF outcomeMap
  <2> QED
    BY <1>4, <2>2 DEF Flush, Abs!vars, outcomeMap
<1> QED
  BY <1>3, <1>4

\* The return of a synchronous packet changes no asynchronous outcome.
LEMMA SyncReturnMaps ==
  ASSUME IInv, NEW c \in Ctx, cur[c] \in Req, cur[c] \notin async,
         NEW s, SyncReturn(c, s), UNCHANGED <<async, queue>>
  PROVE  UNCHANGED Abs!vars
<1>1. outcomeMap' = outcomeMap
  BY DEF outcomeMap, SyncReturn, Settle, IInv, TypeOK
<1> QED
  BY <1>1 DEF Abs!vars, outcomeMap

\* Every step of the driver is a step of AsyncIo or a stutter.
LEMMA StepMaps == IInv /\ [Next]_vars => [Abs!Next]_(Abs!vars)
<1> SUFFICES ASSUME IInv, [Next]_vars PROVE [Abs!Next]_(Abs!vars)
  OBVIOUS
<1>u. UNCHANGED <<async, result, queue>> => UNCHANGED Abs!vars
  BY DEF Abs!vars
<1>s. {"SUCCESS", "TIMEOUT", "DEVICE_ERROR", "NO_MEDIA", "ABORTED"} = Statuses
  BY DEF Statuses
<1>c. ASSUME NEW c \in Ctx, pc[c] \in {"exec", "result"}
      PROVE  cur[c] \in Req /\ cur[c] \notin async
  BY <1>c DEF IInv, Calls
<1>1. ASSUME NEW c \in Ctx, NEW r \in Req, NEW t \in Timeouts,
             NEW a \in BOOLEAN, Submit(c, r, t, a)
      PROVE  UNCHANGED Abs!vars
  <2>1. result[r] = "none" /\ UNCHANGED <<queue, result>>
    BY <1>1 DEF IInv, Calls, Submit
  <2>2. outcomeMap' = outcomeMap
    BY <1>1, <2>1 DEF Submit, outcomeMap
  <2> QED
    BY <2>1, <2>2 DEF Abs!vars, outcomeMap
<1>2. ASSUME NEW c \in Ctx, Insert(c) PROVE Abs!Next
  <2>1. cur[c] \in Req /\ cur[c] \in async /\ st[cur[c]] = "trb"
    BY <1>2 DEF Insert, IInv, Calls
  <2>2. result[cur[c]] = "none" /\ cur[c] \notin Queued
    BY <2>1 DEF IInv, Calls, QueueExact
  <2>3. Abs!Accept(cur[c])
    BY <1>2, <2>1, <2>2 DEF Insert, Abs!Accept, Abs!Outstanding, Queued, Elems
  <2> QED
    BY <2>1, <2>3 DEF Abs!Next
<1>3. ASSUME NEW c \in Ctx, NEW ok \in BOOLEAN, SyncExec(c, ok)
      PROVE  UNCHANGED Abs!vars
  <2>1. CASE ok
    BY <1>3, <2>1, <1>u DEF SyncExec
  <2>2. CASE ~ok
    BY <1>3, <2>2, <1>c, SyncReturnMaps DEF SyncExec
  <2> QED
    BY <2>1, <2>2
<1>4. ASSUME NEW c \in Ctx, SyncSuccess(c) PROVE UNCHANGED Abs!vars
  BY <1>4, <1>c, SyncReturnMaps DEF SyncSuccess
<1>5. ASSUME NEW c \in Ctx, SyncNotReady(c) PROVE UNCHANGED Abs!vars
  <2>1. CASE ticks[cur[c]] = 1
    BY <1>5, <2>1, <1>c, SyncReturnMaps DEF SyncNotReady
  <2>2. CASE ticks[cur[c]] # 1
    BY <1>5, <2>2, <1>u DEF SyncNotReady
  <2> QED
    BY <2>1, <2>2
<1>6. ASSUME NEW c \in Ctx, Call(c) PROVE [Abs!Next]_(Abs!vars)
  <2>1. CASE Create(c) \/ CreateFails(c) \/ SyncSeesEmpty(c)
    BY <2>1, <1>u DEF Create, CreateFails, SyncSeesEmpty, reqVars
  <2> QED
    BY <1>6, <1>2, <1>3, <1>4, <1>5, <2>1 DEF Call
<1>7. ASSUME HeadNotReady, queue # <<>>, async' = async
      PROVE  [Abs!Next]_(Abs!vars)
  <2>1. CASE HeadDone("TIMEOUT")
    BY <1>7, <2>1, <1>s, HeadDoneMaps
  <2>2. CASE UNCHANGED <<result, queue>>
    BY <1>7, <2>2, <1>u
  <2> QED
    BY <1>7, <2>1, <2>2 DEF HeadNotReady
<1>8. CASE Timer
  <2>1. CASE TimerNoMedia
    BY <2>1, <1>s, HeadDoneMaps DEF TimerNoMedia, TimerRuns
  <2>2. CASE TimerExecFails
    BY <2>2, <1>s, HeadDoneMaps DEF TimerExecFails, TimerRuns
  <2>3. CASE TimerStart
    <3>1. CASE Fifo
      BY <2>3, <3>1, <1>7 DEF TimerStart, TimerRuns
    <3>2. CASE ~Fifo
      BY <2>3, <3>2, <1>u DEF TimerStart
    <3> QED
      BY <3>1, <3>2
  <2>4. CASE TimerStartAndFinish
    BY <2>4, <1>s, HeadDoneMaps DEF TimerStartAndFinish, TimerRuns
  <2>5. CASE TimerFinish
    BY <2>5, <1>s, HeadDoneMaps DEF TimerFinish, TimerRuns, IInv, Calls
  <2>6. CASE TimerNotReady
    BY <2>6, <1>7 DEF TimerNotReady, TimerRuns
  <2> QED
    BY <1>8, <2>1, <2>2, <2>3, <2>4, <2>5, <2>6 DEF Timer
<1>9. CASE Enumerate
  <2>1. CASE EnumFlush
    BY <2>1, <1>s, FlushMaps DEF EnumFlush
  <2>2. CASE EnumRemoval \/ EnumInsertion \/ IdentStart
    BY <2>2, <1>u DEF EnumRemoval, EnumInsertion, IdentStart, reqVars
  <2>3. ASSUME NEW ok \in BOOLEAN, EnumInit(ok) \/ IdentEnd(ok)
        PROVE  UNCHANGED Abs!vars
    BY <2>3, <1>u DEF EnumInit, IdentEnd, reqVars
  <2> QED
    BY <1>9, <2>1, <2>2, <2>3 DEF Enumerate
<1>10. CASE ResetDevice
  BY <1>10, <1>s, FlushMaps DEF ResetDevice
<1>11. ASSUME NEW ok \in BOOLEAN, Stop(ok) PROVE [Abs!Next]_(Abs!vars)
  BY <1>11, <1>s, FlushMaps DEF Stop
<1>12. ASSUME NEW x \in Req \cup {Ident}, HwFinish(x) PROVE UNCHANGED Abs!vars
  BY <1>12, <1>u DEF HwFinish, reqVars
<1>13. CASE Plug \/ UNCHANGED vars
  BY <1>13, <1>u DEF Plug, reqVars, vars
<1> QED
  BY <1>1, <1>6, <1>8, <1>9, <1>10, <1>11, <1>12, <1>13 DEF Next

\* Asynchronous packets complete in the order they were queued, each exactly
\* once and with one status that never changes, through time outs, removals,
\* resets, synchronous traffic and Stop: every step is one of AsyncIo.
THEOREM ImplementsAsyncIoSteps == Spec => AsyncIoSteps
<1>1. Init => Abs!Init
  BY DEF Init, Abs!Init
<1>2. IInv /\ [Next]_vars => [Abs!Next]_(Abs!vars)
  BY StepMaps
<1> QED
  BY <1>1, <1>2, InitInv, StepInv, PTL DEF Spec, AsyncIoSteps

(***************************************************************************)
(* Whose completion a packet takes.  RINTSTS is one register: what keeps   *)
(* the packets apart is that DwMmcExecTrb clears it before CMD is written. *)
(***************************************************************************)
\* With the FIFO: a command somebody waits for is the only one that can show
\* or bring a completion, or it shared the controller with another.
Owned ==
  Fifo =>
    /\ ~spin
    /\ \A x \in Active :
         \/ x \in tainted
         \/ over \in {None, x} /\ flight \subseteq {x}

\* Nobody begins to wait but for the command that is executed.
LEMMA ActiveShrinks ==
  ASSUME started' \subseteq started,
         \A c \in Ctx : pc'[c] = "result" => pc[c] = "result" /\ cur'[c] = cur[c],
         enum' = "identRun" => enum = "identRun"
  PROVE  Active' \subseteq Active
BY DEF Active

\* Without a new command nothing is taken over: a completion is that of a
\* command in flight.
LEMMA OwnedKept ==
  ASSUME Owned, Active' \subseteq Active, flight' \subseteq flight,
         over' \in {over, None} \cup flight, tainted \subseteq tainted',
         UNCHANGED <<slot, spin>>
  PROVE  Owned'
BY DEF Owned, Fifo

\* DwMmcExecTrb finds the controller at rest, and clears RINTSTS, or taints.
LEMMA ExecOwned ==
  ASSUME Owned, NEW x, Exec(x), Active' \subseteq Active \cup {x},
         UNCHANGED slot, Fifo => ~spin'
  PROVE  Owned'
BY DEF Owned, Exec, Fifo

\* What each step does to Owned, and to the packets that took a completion.
LEMMA OwnedStep ==
  ASSUME IInv, Owned, SuccessIsOwn, [Next]_vars
  PROVE  Owned' /\ SuccessIsOwn'
<1>s. ASSUME foreign' = foreign, tainted \subseteq tainted', slot' = slot
      PROVE  SuccessIsOwn'
  BY <1>s DEF SuccessIsOwn, Fifo
<1>e. ASSUME NEW x, Exec(x) PROVE tainted \subseteq tainted'
  BY <1>e DEF Exec
<1>t. ASSUME NEW x \in Active, TakeSuccess(x), tainted' = tainted, slot' = slot
      PROVE  SuccessIsOwn'
  BY <1>t DEF TakeSuccess, Owned, SuccessIsOwn, Fifo
<1>p. pc \in [Ctx -> {"idle", "create", "insert", "wait", "exec", "result"}]
  BY DEF IInv, TypeOK
<1>h. ASSUME HeadNotReady PROVE started' \subseteq started \cup {Head(queue)}
  BY <1>h DEF HeadNotReady, HeadDone
<1>1. ASSUME NEW c \in Ctx, NEW r \in Req, NEW t \in Timeouts, NEW a \in BOOLEAN,
             Submit(c, r, t, a)
      PROVE  Owned' /\ SuccessIsOwn'
  <2>1. Active' \subseteq Active
    BY <1>1, <1>p, ActiveShrinks DEF Submit
  <2> QED
    BY <1>1, <1>s, <2>1, OwnedKept DEF Submit, hwVars, ghosts
<1>2. ASSUME NEW c \in Ctx,
             Create(c) \/ CreateFails(c) \/ Insert(c) \/ SyncSeesEmpty(c)
      PROVE  Owned' /\ SuccessIsOwn'
  <2>1. Active' \subseteq Active
    BY <1>2, <1>p, ActiveShrinks
    DEF Create, CreateFails, Insert, SyncSeesEmpty, reqVars
  <2>2. /\ flight' = flight /\ over' \in {over, None}
        /\ UNCHANGED <<slot, spin, tainted, foreign>>
    BY <1>2 DEF Create, CreateFails, Insert, SyncSeesEmpty, hwVars, ghosts
  <2> QED
    BY <1>s, <2>1, <2>2, OwnedKept
<1>3. ASSUME NEW c \in Ctx, NEW ok \in BOOLEAN, SyncExec(c, ok)
      PROVE  Owned' /\ SuccessIsOwn'
  <2>1. Active' \subseteq Active \cup {cur[c]}
    BY <1>3, <1>p DEF SyncExec, SyncReturn, Active
  <2> QED
    BY <1>3, <1>s, <1>e, <2>1, ExecOwned DEF SyncExec, Owned
<1>4. ASSUME NEW c \in Ctx, SyncSuccess(c) PROVE Owned' /\ SuccessIsOwn'
  <2>1. Active' \subseteq Active
    BY <1>4, <1>p, ActiveShrinks DEF SyncSuccess, SyncReturn
  <2>2. cur[c] \in Active
    BY <1>4 DEF SyncSuccess, Active
  <2> QED
    BY <1>4, <1>t, <2>1, <2>2, OwnedKept DEF SyncSuccess, TakeSuccess
<1>5. ASSUME NEW c \in Ctx, SyncNotReady(c) PROVE Owned' /\ SuccessIsOwn'
  <2>1. Active' \subseteq Active
    BY <1>5, <1>p, ActiveShrinks DEF SyncNotReady, SyncReturn
  <2> QED
    BY <1>5, <1>s, <2>1, OwnedKept DEF SyncNotReady, hwVars
<1>6. CASE TimerExecFails
  <2>1. Active' \subseteq Active
    BY <1>6, ActiveShrinks DEF TimerExecFails, HeadDone, ctxVars
  <2> QED
    BY <1>6, <1>s, <1>e, <2>1, ExecOwned DEF TimerExecFails, ctxVars, Owned
<1>7. CASE TimerStart
  <2>1. started' \subseteq started \cup {Head(queue)}
    BY <1>7, <1>h DEF TimerStart
  <2>2. Active' \subseteq Active \cup {Head(queue)}
    BY <1>7, <2>1 DEF TimerStart, Active
  <2>3. Fifo => ~spin'
    BY <1>7 DEF TimerStart, Owned
  <2> QED
    BY <1>7, <1>s, <1>e, <2>2, <2>3, ExecOwned DEF TimerStart
<1>8. CASE TimerStartAndFinish
  <2>1. Active' \subseteq Active
    BY <1>8, ActiveShrinks DEF TimerStartAndFinish, HeadDone, ctxVars
  <2>2. Active \subseteq tainted' /\ tainted \subseteq tainted'
    BY <1>8 DEF TimerStartAndFinish
  <2> QED
    BY <1>8, <1>s, <2>1, <2>2 DEF TimerStartAndFinish, Owned, ctxVars, Fifo
<1>9. CASE TimerFinish
  <2>1. Active' \subseteq Active
    BY <1>9, ActiveShrinks DEF TimerFinish, HeadDone
  <2>2. Fifo => Head(queue) \in Active
    BY <1>9 DEF TimerFinish, Owned, Active
  <2>3. Owned'
    BY <1>9, <2>1 DEF TimerFinish, TakeSuccess, Owned, Fifo
  <2>4. SuccessIsOwn'
    BY <1>9, <1>t, <2>2 DEF TimerFinish, SuccessIsOwn, Fifo
  <2> QED
    BY <2>3, <2>4
<1>10. CASE TimerNoMedia \/ TimerNotReady
  <2>1. Active' \subseteq Active
    BY <1>10, <1>h, ActiveShrinks
    DEF TimerNoMedia, TimerNotReady, HeadDone, ctxVars
  <2>2. UNCHANGED <<slot, spin, flight, over, tainted, foreign>>
    BY <1>10 DEF TimerNoMedia, TimerNotReady, hwVars, ctxVars
  <2> QED
    BY <1>s, <2>1, <2>2, OwnedKept
<1>11. ASSUME EnumRemoval \/ EnumFlush \/ EnumInsertion
       PROVE  Owned' /\ SuccessIsOwn'
  <2>1. Active' \subseteq Active
    BY <1>11, ActiveShrinks
    DEF EnumRemoval, EnumFlush, EnumInsertion, Flush, reqVars
  <2>2. UNCHANGED <<slot, spin, flight, over, tainted, foreign>>
    BY <1>11 DEF EnumRemoval, EnumFlush, EnumInsertion, hwVars, ghosts
  <2> QED
    BY <1>s, <2>1, <2>2, OwnedKept
<1>12. ASSUME NEW ok \in BOOLEAN, EnumInit(ok) \/ IdentEnd(ok)
       PROVE  Owned' /\ SuccessIsOwn'
  <2>1. Active' \subseteq Active
    BY <1>12, ActiveShrinks DEF EnumInit, IdentEnd, reqVars
  <2>2. /\ flight' \subseteq flight /\ over' \in {over, None}
        /\ UNCHANGED <<slot, spin, tainted, foreign>>
    BY <1>12 DEF EnumInit, IdentEnd
  <2> QED
    BY <1>s, <2>1, <2>2, OwnedKept
<1>13. CASE IdentStart
  <2>1. Active' \subseteq Active \cup {Ident}
    BY <1>13 DEF IdentStart, Active, reqVars
  <2> QED
    BY <1>13, <1>s, <1>e, <2>1, ExecOwned DEF IdentStart, Owned
<1>14. ASSUME NEW ok \in BOOLEAN, ResetDevice \/ Stop(ok)
       PROVE  Owned' /\ SuccessIsOwn'
  <2>1. Active' \subseteq Active
    BY <1>14, ActiveShrinks DEF ResetDevice, Stop, Flush, ctxVars
  <2>2. UNCHANGED <<slot, spin, flight, over, tainted, foreign>>
    BY <1>14 DEF ResetDevice, Stop, hwVars, ctxVars
  <2> QED
    BY <1>s, <2>1, <2>2, OwnedKept
<1>15. ASSUME NEW x \in Cmds, HwFinish(x) PROVE Owned' /\ SuccessIsOwn'
  <2>1. Active' \subseteq Active
    BY <1>15, ActiveShrinks DEF HwFinish, reqVars, ctxVars
  <2> QED
    BY <1>15, <1>s, <2>1, OwnedKept DEF HwFinish, ghosts, ctxVars
<1>16. CASE Plug \/ UNCHANGED vars
  <2>1. Active' \subseteq Active
    BY <1>16, ActiveShrinks DEF Plug, vars, reqVars, ctxVars
  <2>2. flight' \subseteq flight /\ UNCHANGED <<slot, spin, over, tainted, foreign>>
    BY <1>16 DEF Plug, vars, ctxVars, ghosts
  <2> QED
    BY <1>s, <2>1, <2>2, OwnedKept
<1> QED
  BY <1>1, <1>2, <1>3, <1>4, <1>5, <1>6, <1>7, <1>8, <1>9, <1>10, <1>11, <1>12,
     <1>13, <1>14, <1>15, <1>16 DEF Next, Call, Timer, Enumerate, Cmds

\* With the FIFO a packet that completes with success took its own command's
\* completion, unless its command shared the controller with another:
\* whatever was given up before, and whoever polls (DwMmcHci.c, RINTSTS).
THEOREM SuccessesAreOwn == Spec => []SuccessIsOwn
<1> DEFINE OwnInv == IInv /\ Owned /\ SuccessIsOwn
<1>1. Init => OwnInv
  <2>1. Init => Owned /\ SuccessIsOwn
    BY DEF Init, Owned, SuccessIsOwn, Active
  <2> QED
    BY <2>1, InitInv
<1>2. OwnInv /\ [Next]_vars => OwnInv'
  BY StepInv, OwnedStep
<1> QED
  BY <1>1, <1>2, PTL DEF Spec

(***************************************************************************)
(* Two commands in the controller.  PassThru looks at the queue before it  *)
(* executes a synchronous command, but not at the commands that others     *)
(* executed: that suffices while every client runs at one priority level.  *)
(***************************************************************************)
\* A command is executed only when nobody waits for another one: the queue
\* is empty while the application's command is, and while a card is being
\* identified, and stays so, for only the application fills it.  As long as
\* no command was given up, one in flight is also waited for, and a
\* completion means that nothing is in flight.
Alone ==
  /\ pc["cb"] = "idle"
  /\ pc["app"] \in {"exec", "result"} \/ enum = "identRun" => queue = <<>>
  /\ ~Fifo => enum = "idle" /\ media
  /\ started # {} => Fifo \/ spin
  /\ spin => ~Fifo /\ started # {}
  /\ ~abandoned =>
       /\ tainted = {} /\ flight \subseteq Active
       /\ over # None => flight = {} /\ (Fifo \/ over \in Active)
       /\ enum \in {"identWait", "identRun"} => pc["app"] # "result"

\* Who waits for a command, when no handler is in PassThru.
LEMMA ActiveIs ==
  ASSUME pc["cb"] = "idle"
  PROVE  Active = started \cup (IF pc["app"] = "result" THEN {cur["app"]} ELSE {})
                          \cup (IF enum = "identRun" THEN {Ident} ELSE {})
BY DEF Active, Ctx

\* DwMmcExecTrb on a controller at rest.
LEMMA ExecAlone ==
  ASSUME NEW x, Exec(x), Active = {}, flight = {}, tainted = {},
         over = None \/ Fifo
  PROVE  tainted' = {} /\ flight' \subseteq {x} /\ over' = None
BY DEF Exec

\* Every step keeps Alone, when no handler at TPL_CALLBACK submits packets.
LEMMA AloneStep ==
  ASSUME ~CallbackClients, IInv, Alone, [Next]_vars
  PROVE  Alone'
<1>p. /\ pc \in [Ctx -> {"idle", "create", "insert", "wait", "exec", "result"}]
      /\ Ctx = {"app", "cb"} /\ cur \in [Ctx -> Req \cup {None}]
      /\ spin \in BOOLEAN /\ started \subseteq Req /\ slot' = slot
  <2>1. slot' = slot
    BY DEF Next, Submit, Call, Create, CreateFails, Insert, SyncSeesEmpty,
       SyncExec, SyncSuccess, SyncNotReady, Timer, TimerNoMedia, TimerExecFails,
       TimerStart, TimerStartAndFinish, TimerFinish, TimerNotReady, Enumerate,
       EnumRemoval, EnumFlush, EnumInsertion, EnumInit, IdentStart, IdentEnd,
       ResetDevice, Stop, HwFinish, Plug, vars, hwVars
  <2> QED
    BY <2>1 DEF IInv, TypeOK, Ctx
<1>a. Active = started \cup (IF pc["app"] = "result" THEN {cur["app"]} ELSE {})
                       \cup (IF enum = "identRun" THEN {Ident} ELSE {})
  BY ActiveIs DEF Alone
<1>b. pc'["cb"] = "idle" =>
        Active' = started' \cup (IF pc'["app"] = "result" THEN {cur'["app"]} ELSE {})
                           \cup (IF enum' = "identRun" THEN {Ident} ELSE {})
  BY <1>p DEF Active
<1>q. /\ started \subseteq {Head(queue)} /\ started \subseteq Queued
      /\ queue = <<>> => started = {} /\ Queued = {}
  <2>1. queue = <<>> => Queued = {}
    BY DEF Queued, Elems
  <2>2. started # {} => started = {Head(queue)} /\ Head(queue) \in Queued
    BY TailQueue DEF IInv, QueueExact, TypeOK, Queued
  <2> QED
    BY <2>1, <2>2 DEF IInv, QueueExact
<1>x. Fifo' = Fifo
  BY <1>p DEF Fifo
<1>1. ASSUME NEW c \in Ctx, NEW r \in Req, NEW t \in Timeouts, NEW a \in BOOLEAN,
             Submit(c, r, t, a)
      PROVE  Alone'
  BY <1>1, <1>p, <1>a, <1>b, <1>x DEF Submit, Alone, hwVars, ghosts, CanRun
<1>2. ASSUME NEW c \in Ctx,
             Create(c) \/ CreateFails(c) \/ Insert(c) \/ SyncSeesEmpty(c)
      PROVE  Alone'
  <2>1. c = "app" /\ enum = "idle" /\ ~spin /\ pc["app"] \in {"create", "insert", "wait"}
    BY <1>2, <1>p DEF Create, CreateFails, Insert, SyncSeesEmpty, Alone, CanRun
  <2>2. /\ pc'["cb"] = "idle" /\ pc'["app"] # "result"
        /\ pc'["app"] = "exec" => queue' = <<>>
        /\ over' \in {over, None}
        /\ UNCHANGED <<started, enum, spin, media, flight, tainted, abandoned>>
    BY <1>2, <1>p, <2>1
    DEF Create, CreateFails, Insert, SyncSeesEmpty, reqVars, hwVars, ghosts, Alone
  <2> QED
    BY <1>a, <1>b, <1>x, <2>1, <2>2 DEF Alone
<1>3. ASSUME NEW c \in Ctx, NEW ok \in BOOLEAN, SyncExec(c, ok)
      PROVE  Alone'
  <2>1. c = "app" /\ enum = "idle" /\ ~spin /\ pc["app"] = "exec" /\ queue = <<>>
    BY <1>3, <1>p DEF SyncExec, Alone, CanRun
  <2>2. Active = {}
    BY <1>a, <1>q, <2>1
  <2>3. /\ pc'["cb"] = "idle" /\ pc'["app"] = IF ok THEN "result" ELSE "idle"
        /\ UNCHANGED <<cur, queue, started, enum, spin, media>>
        /\ abandoned' = (abandoned \/ ~ok)
    BY <1>3, <1>p, <2>1 DEF SyncExec, SyncReturn, Alone
  <2>4. ~abandoned => tainted' = {} /\ flight' \subseteq {cur["app"]} /\ over' = None
    BY <1>3, <2>1, <2>2, ExecAlone DEF SyncExec, Alone
  <2> QED
    BY <1>b, <1>q, <1>x, <2>1, <2>3, <2>4 DEF Alone
<1>4. ASSUME NEW c \in Ctx, SyncSuccess(c) \/ SyncNotReady(c)
      PROVE  Alone'
  <2>1. c = "app" /\ enum = "idle" /\ ~spin /\ pc["app"] = "result" /\ queue = <<>>
    BY <1>4, <1>p DEF SyncSuccess, SyncNotReady, Alone, CanRun
  <2>2. CASE SyncSuccess(c)
    <3>1. /\ pc'["cb"] = "idle" /\ pc'["app"] = "idle"
          /\ UNCHANGED <<queue, started, enum, spin, media, flight, tainted, abandoned>>
          /\ over # None /\ over' = IF Fifo THEN over ELSE None
      BY <2>1, <2>2, <1>p DEF SyncSuccess, SyncReturn, TakeSuccess, Alone
    <3> QED
      BY <1>a, <1>b, <1>q, <1>x, <2>1, <3>1 DEF Alone
  <2>3. CASE SyncNotReady(c)
    <3>1. /\ pc'["cb"] = "idle" /\ pc'["app"] \in {"idle", "result"} /\ Fifo
          /\ UNCHANGED <<cur, queue, started, enum, spin, media, flight, tainted, over>>
          /\ abandoned' \/ (abandoned' = abandoned /\ pc' = pc)
      BY <2>1, <2>3, <1>p DEF SyncNotReady, SyncReturn, Alone, hwVars
    <3> QED
      BY <1>a, <1>b, <1>q, <1>x, <2>1, <3>1 DEF Alone
  <2> QED
    BY <1>4, <2>2, <2>3
<1>5. CASE Timer
  <2>1. queue # <<>> /\ pc["app"] \notin {"exec", "result"} /\ enum # "identRun"
    BY <1>5 DEF Timer, TimerNoMedia, TimerExecFails, TimerStart, TimerRuns,
       TimerStartAndFinish, TimerFinish, TimerNotReady, Alone, IInv, Calls
  <2>2. /\ UNCHANGED <<pc, cur, enum, media>> /\ pc'["cb"] = "idle"
        /\ Active = started /\ Active' = started'
    <3>1. UNCHANGED <<pc, cur, enum, media>>
      BY <1>5 DEF Timer, TimerNoMedia, TimerExecFails, TimerStart, ctxVars,
         TimerStartAndFinish, TimerFinish, TimerNotReady
    <3> QED
      BY <1>a, <1>b, <2>1, <3>1 DEF Alone
  <2>3. CASE TimerNoMedia \/ TimerExecFails
    <3>1. started' = {} /\ spin' = FALSE /\ ~spin
      BY <2>3, <1>p, <1>q DEF TimerNoMedia, TimerExecFails, TimerRuns, HeadDone, ctxVars
    <3>2. TimerNoMedia => /\ Fifo /\ UNCHANGED <<flight, over, tainted>>
                          /\ abandoned' = (abandoned \/ Head(queue) \in flight)
      BY DEF TimerNoMedia, hwVars, Alone
    <3>3. TimerExecFails => abandoned'
      BY DEF TimerExecFails
    <3> QED
      BY <1>q, <1>x, <2>1, <2>2, <2>3, <3>1, <3>2, <3>3 DEF Alone
  <2>4. CASE TimerStart \/ TimerStartAndFinish
    <3>1. started = {} /\ ~spin
      BY <2>4, <1>q, <2>1 DEF TimerStart, TimerStartAndFinish, TimerRuns
    <3>2. ~abandoned => flight = {} /\ (over = None \/ Fifo)
      BY <2>2, <3>1 DEF Alone
    <3>3. CASE TimerStart
      <4>1. ~abandoned => /\ tainted' = {} /\ flight' \subseteq {Head(queue)}
                          /\ over' = None
        BY <2>2, <3>1, <3>2, <3>3, ExecAlone DEF TimerStart, Alone
      <4>2. IF Fifo THEN ~spin' ELSE spin'
        BY <3>1, <3>3 DEF TimerStart
      <4>3. \/ started' = {Head(queue)} /\ abandoned' = abandoned
            \/ Fifo /\ started' = {} /\ abandoned'
        BY <3>1, <3>3 DEF TimerStart, HeadNotReady, HeadDone
      <4> QED
        BY <1>p, <1>x, <2>1, <2>2, <4>1, <4>2, <4>3 DEF Alone
    <3>4. CASE TimerStartAndFinish
      <4>1. /\ started' = {} /\ spin' = FALSE
            /\ over' = IF Fifo THEN Head(queue) ELSE None
            /\ UNCHANGED <<flight, abandoned>>
            /\ ~abandoned => tainted' = {}
        BY <1>p, <2>2, <3>1, <3>2, <3>4
        DEF TimerStartAndFinish, HeadDone, ctxVars, Alone
      <4> QED
        BY <1>x, <2>1, <2>2, <3>2, <4>1 DEF Alone
    <3> QED
      BY <2>4, <3>3, <3>4
  <2>5. CASE TimerFinish
    <3>1. /\ started' = {} /\ spin' = FALSE /\ UNCHANGED <<flight, tainted>>
          /\ over # None /\ over' = IF Fifo THEN over ELSE None
          /\ abandoned' = (abandoned \/ Head(queue) \in flight)
      BY <2>5, <1>q DEF TimerFinish, TakeSuccess, HeadDone
    <3> QED
      BY <1>q, <1>x, <2>1, <2>2, <3>1 DEF Alone
  <2>6. CASE TimerNotReady
    <3>1. /\ Fifo /\ ~spin /\ UNCHANGED <<spin, flight, over, tainted>>
          /\ Head(queue) \in started
      BY <2>6, <1>p DEF TimerNotReady, TimerRuns, ctxVars, hwVars, Alone
    <3>2. \/ started' = started /\ abandoned' = abandoned
          \/ started' = {} /\ abandoned'
      BY <2>6, <1>q, <3>1 DEF TimerNotReady, HeadNotReady, HeadDone
    <3> QED
      BY <1>x, <2>1, <2>2, <3>1, <3>2 DEF Alone
  <2> QED
    BY <1>5, <2>3, <2>4, <2>5, <2>6 DEF Timer
<1>6. CASE EnumRemoval \/ EnumInsertion
  <2>1. /\ Fifo /\ enum = "idle" /\ enum' \in {"removed", "inserted"}
        /\ UNCHANGED <<pc, cur, queue, started, spin, flight, over, tainted, abandoned>>
    BY <1>6 DEF EnumRemoval, EnumInsertion, reqVars, hwVars, ghosts, Removable, Fifo
  <2> QED
    BY <1>a, <1>b, <1>x, <2>1 DEF Alone
<1>7. ASSUME NEW ok \in BOOLEAN, EnumFlush \/ ResetDevice \/ Stop(ok)
      PROVE  Alone'
  <2>1. /\ queue' = <<>> /\ started' = {} /\ ~spin
        /\ abandoned' = (abandoned \/ Queued \cap flight # {})
        /\ UNCHANGED <<pc, cur, media, spin, flight, over, tainted>>
        /\ enum' = enum \/ (enum' = "idle" /\ enum = "removed")
    BY <1>7 DEF EnumFlush, ResetDevice, Stop, Flush, hwVars, ctxVars, CanRun
  <2>2. pc["app"] # "result" \/ queue = <<>>
    BY DEF Alone
  <2> QED
    BY <1>a, <1>b, <1>q, <1>x, <2>1, <2>2 DEF Alone
<1>8. ASSUME NEW ok \in BOOLEAN, EnumInit(ok) PROVE Alone'
  <2>1. /\ enum = "inserted" /\ enum' \in {"identWait", "idle"} /\ Fifo
        /\ flight' = {} /\ over' = None
        /\ abandoned' = (abandoned \/ Active \cup flight # {})
        /\ UNCHANGED <<pc, cur, queue, started, spin, tainted>>
    BY <1>8 DEF EnumInit, reqVars, Alone
  <2> QED
    BY <1>a, <1>b, <1>x, <2>1 DEF Alone
<1>9. CASE IdentStart
  <2>1. /\ enum = "identWait" /\ enum' = "identRun" /\ Fifo /\ queue = <<>>
        /\ UNCHANGED <<pc, cur, queue, started, spin, abandoned>>
    BY <1>9 DEF IdentStart, reqVars, Alone
  <2>2. ~abandoned => Active = {} /\ flight = {}
    BY <1>a, <1>q, <2>1 DEF Alone
  <2>3. ~abandoned => tainted' = {} /\ flight' \subseteq {Ident} /\ over' = None
    BY <1>9, <2>1, <2>2, ExecAlone DEF IdentStart, Alone
  <2> QED
    BY <1>b, <1>q, <1>x, <2>1, <2>2, <2>3 DEF Alone
<1>10. ASSUME NEW ok \in BOOLEAN, IdentEnd(ok) PROVE Alone'
  <2>1. /\ enum = "identRun" /\ enum' = "idle" /\ Fifo /\ queue = <<>>
        /\ abandoned' = (abandoned \/ Ident \in flight)
        /\ UNCHANGED <<pc, cur, queue, started, spin, flight, over, tainted>>
    BY <1>10 DEF IdentEnd, reqVars, Alone
  <2> QED
    BY <1>a, <1>b, <1>q, <1>x, <2>1 DEF Alone
<1>11. ASSUME NEW x \in Cmds, HwFinish(x) PROVE Alone'
  <2>1. /\ x \in flight /\ flight' = flight \ {x} /\ over' = x
        /\ UNCHANGED <<pc, cur, queue, started, enum, media, spin, tainted, abandoned>>
    BY <1>11 DEF HwFinish, reqVars, ctxVars, ghosts
  <2>2. ~abandoned => \E y : Active \subseteq {y}
    BY <1>a, <1>q DEF Alone
  <2> QED
    BY <1>a, <1>b, <1>x, <2>1, <2>2 DEF Alone
<1>12. CASE Plug \/ UNCHANGED vars
  <2>1. /\ flight' \in {flight, {}}
        /\ UNCHANGED <<pc, cur, queue, started, enum, media, spin, over, tainted, abandoned>>
    BY <1>12 DEF Plug, vars, reqVars, ctxVars, ghosts
  <2> QED
    BY <1>a, <1>b, <1>x, <2>1 DEF Alone
<1> QED
  BY <1>1, <1>2, <1>3, <1>4, <1>5, <1>6, <1>7, <1>8, <1>9, <1>10, <1>11, <1>12
  DEF Next, Call, Enumerate, Cmds

\* While all clients run at one priority level, two commands are in the
\* controller together only after the driver gave one up: a time out, a
\* reset of the device, a new card (DwMmcHcDxe.c, DwMmcPassThruPassThru).
\* Handlers at TPL_CALLBACK that submit packets break this.
THEOREM SharedOnlyBehindAbandoned ==
  ~CallbackClients => (Spec => []SharedOnlyIfAbandoned)
<1> SUFFICES ASSUME ~CallbackClients PROVE Spec => []SharedOnlyIfAbandoned
  OBVIOUS
<1> DEFINE AloneInv == IInv /\ Alone
<1>1. Init => AloneInv
  <2>1. Init => Alone
    BY DEF Init, Alone, Ctx, Active
  <2> QED
    BY <2>1, InitInv
<1>2. AloneInv /\ [Next]_vars => AloneInv'
  BY StepInv, AloneStep
<1>3. AloneInv => SharedOnlyIfAbandoned
  BY DEF Alone, SharedOnlyIfAbandoned
<1> QED
  BY <1>1, <1>2, <1>3, PTL DEF Spec
=============================================================================
