------------------------ MODULE EmmcBringUp_proofs ------------------------
(***************************************************************************)
(* What EmmcBringUp guarantees whatever the number of retries, the clocks  *)
(* and the bounds are: an interface that stays installed has a selected    *)
(* card behind it, and the host does not change the bus under a card that  *)
(* programs unless it was left without an answer.                          *)
(***************************************************************************)
EXTENDS EmmcBringUp, TLAPS

Buses == {"sdr1", "sdr8", "ddr8"}
Cards == [state : States, bus : Buses, hs : BOOLEAN]

\* What the argument needs of the types.  The frequency is not said to be a
\* number: it is one only if some divider of 1..255 fits the request.
IsHost(h) == \E w, d, k : h = [width |-> w, ddr |-> d, khz |-> k]
Shapes == card \in Cards /\ IsHost(host)

Identified ==
  /\ media /\ cardType = "EMMC"
  /\ card.state \in {"tran", "data", "prg"}

\* How far the bring-up has come: reading EXT_CSD proves the card selected,
\* and nothing after it deselects the card.
Progress ==
  /\ at = "dataPoll" => card.state \in {"tran", "data"}
  /\ at \in {"deviceType", "hsSwitch", "hsPoll", "setIos", "setClock",
             "busSwitch", "busPoll"} => Identified
  /\ at = "end" => (installed => Identified /\ ioState = "transfer")

\* Before the bus is changed the card was seen not to program.
Quiet ==
  at = "setIos" =>
    card.state # "prg" \/ faults \cap {"switch", "lost", "exhausted"} # {}

IInv == Shapes /\ Progress /\ Quiet

\* The three outcomes of DwEmmcSetClock touch the clock only.
LEMMA ClockOnly ==
  ASSUME NEW h, IsHost(h), NEW khz, NEW o \in ClockOutcomes
  PROVE  /\ IsHost(SetClock(h, khz, o))
         /\ SetClock(h, khz, o).width = h.width
         /\ SetClock(h, khz, o).ddr = h.ddr
<1>1. PICK w, d, k : h = [width |-> w, ddr |-> d, khz |-> k]
  BY DEF IsHost
<1>2. ASSUME NEW v PROVE [h EXCEPT !.khz = v] = [width |-> w, ddr |-> d, khz |-> v]
  BY <1>1
<1>3. CASE o = "ok"
  BY <1>1, <1>2, <1>3 DEF SetClock, IsHost
<1>4. CASE o = "refused"
  BY <1>4 DEF SetClock
<1>5. CASE o = "stopped"
  BY <1>1, <1>2, <1>5 DEF SetClock, IsHost
<1> QED
  BY <1>3, <1>4, <1>5 DEF ClockOutcomes

\* Nothing is installed before the bring-up begins.
LEMMA InitHolds == Init => IInv
<1> SUFFICES ASSUME Init PROVE IInv
  OBVIOUS
<1> DEFINE First == [state : {"idle", "tran"}, bus : {"sdr1", "sdr8"}, hs : {FALSE}]
           h == [width |-> 8, ddr |-> TRUE, khz |-> BootKHz]
<1>0. card \in First /\ host = h
  BY Zenon DEF Init
<1>1. card \in Cards
  <2>1. PICK s \in {"idle", "tran"}, b \in {"sdr1", "sdr8"}, f \in {FALSE} :
          card = [state |-> s, bus |-> b, hs |-> f]
    BY <1>0
  <2>2. s \in States /\ b \in Buses /\ f \in BOOLEAN
    BY <2>1 DEF States, Buses
  <2> QED
    BY <2>1, <2>2 DEF Cards
<1>2. IsHost(host)
  <2>1. IsHost(h)
    BY DEF IsHost
  <2> QED
    BY <1>0, <2>1
<1>3. at = "create"
  BY DEF Init
<1> QED
  BY <1>1, <1>2, <1>3 DEF IInv, Shapes, Progress, Quiet

\* The invariant survives every step of MmcDxe, the host driver and the card.
LEMMA StepHolds == IInv /\ [Next]_vars => IInv'
<1> SUFFICES ASSUME IInv, [Next]_vars PROVE IInv'
  OBVIOUS
<1>c. card \in Cards /\ Progress /\ Quiet
  BY DEF IInv, Shapes
<1>p. IsHost(host)
  BY DEF IInv, Shapes
<1> USE DEF Identified, Cards
<1>1. ASSUME UNCHANGED host PROVE (card \in Cards)' => Shapes'
  BY <1>1, <1>p DEF Shapes, IsHost
<1>2. CASE ProbeOthers
  BY <1>1, <1>2, <1>c DEF ProbeOthers, Fail, IInv, Progress, Quiet
<1>3. CASE SetBus
  <2>1. PICK w, d, k : host = [width |-> w, ddr |-> d, khz |-> k]
    BY <1>p DEF IsHost
  <2>2. host' = [width |-> 8, ddr |-> Ddr(idx), khz |-> k]
    BY <1>3, <2>1 DEF SetBus
  <2>3. Shapes'
    BY <1>3, <1>c, <2>2 DEF SetBus, Shapes, IsHost
  <2> QED
    BY <1>3, <1>c, <2>3 DEF SetBus, drv, IInv, Progress, Quiet
<1>4. ASSUME NEW o \in ClockOutcomes, HwInit(o) PROVE IInv'
  <2> DEFINE h == [width |-> 1, ddr |-> FALSE, khz |-> 0]
  <2>1. IsHost(h)
    BY DEF IsHost
  <2>2. host' = SetClock(h, 400, o)
    BY <1>4 DEF HwInit
  <2>3. IsHost(host')
    <3> HIDE DEF h
    <3> QED
      BY <1>4, <2>1, <2>2, ClockOnly
  <2>4. Shapes'
    BY <1>4, <1>c, <2>3 DEF HwInit, Shapes, IsHost
  <2> QED
    BY <1>4, <1>c, <2>4 DEF HwInit, Fail, IInv, Progress, Quiet
<1>5. ASSUME NEW o \in ClockOutcomes, SetIosClock(o) PROVE IInv'
  <2>1. host' = SetClock(host, FreqKHz(idx), o)
    BY <1>5 DEF SetIosClock
  <2>2. IsHost(host')
    BY <1>5, <1>p, <2>1, ClockOnly
  <2>3. Shapes'
    BY <1>5, <1>c, <2>2 DEF SetIosClock, Shapes, IsHost
  <2> QED
    BY <1>5, <1>c, <2>3 DEF SetIosClock, Up, IInv, Progress, Quiet
<1>6. ASSUME NEW ok \in BOOLEAN,
             Create(ok) \/ ReadExtCsd(ok) \/ ReadDeviceType(ok)
      PROVE  IInv'
  <2>1. CASE Create(ok)
    BY <1>1, <1>c, <2>1 DEF Create, IInv, Progress, Quiet
  <2>2. CASE ReadExtCsd(ok)
    <3>1. CASE ok
      <4>1. PICK s \in {"tran", "data"} : card' = [card EXCEPT !.state = s]
        BY <2>2, <3>1 DEF ReadExtCsd
      <4>2. card' \in Cards /\ card'.state = s
        BY <1>c, <4>1 DEF States
      <4> QED
        BY <1>1, <2>2, <3>1, <4>2 DEF ReadExtCsd, IInv, Progress, Quiet
    <3>2. CASE ~ok
      BY <1>1, <1>c, <2>2, <3>2 DEF ReadExtCsd, Fail, IInv, Progress, Quiet
    <3> QED
      BY <3>1, <3>2
  <2>3. CASE ReadDeviceType(ok)
    BY <1>1, <1>c, <2>3 DEF ReadDeviceType, Up, IInv, Progress, Quiet
  <2> QED
    BY <1>6, <2>1, <2>2, <2>3
<1>7. ASSUME NEW answered \in BOOLEAN, NEW ok \in BOOLEAN,
             GoIdle(answered, ok) \/ Identify(answered, ok)
      PROVE  IInv'
  <2>1. CASE GoIdle(answered, ok)
    <3>1. card' \in Cards
      BY <1>c, <2>1 DEF GoIdle, States, Buses
    <3> QED
      BY <1>1, <2>1, <3>1 DEF GoIdle, Fail, IInv, Progress, Quiet
  <2>2. CASE Identify(answered, ok)
    <3>1. at \in DOMAIN After /\ After[at] \in {"CMD3", "CMD9", "CMD7", "extCsd"}
      BY <2>2 DEF Identify, After
    <3>2. card' \in Cards
      BY <1>c, <2>2, <3>1 DEF Identify, Send, Becomes, After, States
    <3> QED
      BY <1>1, <2>2, <3>1, <3>2 DEF Identify, Fail, IInv, Progress, Quiet
  <2> QED
    BY <1>7, <2>1, <2>2
<1>8. ASSUME NEW answered \in BOOLEAN, NEW ok \in BOOLEAN, DataPoll(answered, ok)
      PROVE  IInv'
  <2>1. UNCHANGED <<card, host>> /\ at = "dataPoll"
    BY <1>8 DEF DataPoll
  <2>2. at' # "setIos" /\ Progress'
    BY <1>8, <1>c, <2>1 DEF DataPoll, Fail, Progress
  <2> QED
    BY <1>1, <1>c, <2>1, <2>2 DEF IInv, Quiet
<1>9. ASSUME NEW answered \in BOOLEAN, NEW ok \in BOOLEAN,
             SwitchPoll(answered, ok)
      PROVE  IInv'
  <2>1. UNCHANGED <<card, host, media, cardType, installed>>
        /\ at \in {"hsPoll", "busPoll"}
    BY <1>9 DEF SwitchPoll
  <2>2. Progress'
    <3>1. CASE ~PollOver(ok)
      BY <1>9, <1>c, <2>1, <3>1 DEF SwitchPoll, Progress
    <3>2. CASE PollOver(ok) /\ at = "hsPoll"
      BY <1>9, <1>c, <2>1, <3>2 DEF SwitchPoll, Progress
    <3>3. CASE PollOver(ok) /\ at = "busPoll"
      BY <1>9, <1>c, <2>1, <3>3 DEF SwitchPoll, Up, Progress
    <3> QED
      BY <2>1, <3>1, <3>2, <3>3
  <2>3. Quiet'
    <3> SUFFICES ASSUME at' = "setIos"
                 PROVE  card'.state # "prg"
                        \/ faults' \cap {"switch", "lost", "exhausted"} # {}
      BY DEF Quiet
    <3>1. PollOver(ok)
      BY <1>9, <2>1 DEF SwitchPoll
    <3>2. CASE ~ok
      <4>1. "switch" \in faults'
        BY <1>9, <3>2 DEF SwitchPoll
      <4> QED
        BY <4>1
    <3>3. CASE ok /\ ~answered
      <4>1. "lost" \in faults'
        BY <1>9, <3>3 DEF SwitchPoll
      <4> QED
        BY <4>1
    <3>4. CASE ok /\ answered /\ resp' = "prg"
      <4>1. "exhausted" \in faults'
        BY <1>9, <3>1, <3>4 DEF SwitchPoll, PollOver
      <4> QED
        BY <4>1
    <3>5. CASE ok /\ answered /\ resp' # "prg"
      BY <1>9, <2>1, <3>5 DEF SwitchPoll
    <3> QED
      BY <3>2, <3>3, <3>4, <3>5
  <2> QED
    BY <1>1, <1>c, <2>1, <2>2, <2>3 DEF IInv
<1>10. ASSUME NEW answered \in BOOLEAN, NEW ok \in BOOLEAN, NEW up \in BOOLEAN,
              OpCond(answered, ok, up)
       PROVE  IInv'
  <2>1. card' \in Cards
    BY <1>10, <1>c DEF OpCond, States
  <2> QED
    BY <1>1, <1>10, <2>1 DEF OpCond, IInv, Progress, Quiet
<1>11. ASSUME NEW ok \in BOOLEAN, NEW obeyed \in BOOLEAN, HsSwitch(ok, obeyed)
       PROVE  IInv'
  <2>1. card' \in Cards /\ card'.state \in {card.state, "prg"}
    BY <1>11, <1>c DEF HsSwitch, Switch, States
  <2>2. at' = "setIos" => "switch" \in faults'
    BY <1>11 DEF HsSwitch, Switch
  <2>3. Quiet'
    BY <2>2 DEF Quiet
  <2> QED
    BY <1>1, <1>11, <1>c, <2>1, <2>3 DEF HsSwitch, drv, IInv, Progress
<1>12. ASSUME NEW ok \in BOOLEAN, NEW obeyed \in BOOLEAN, BusSwitch(ok, obeyed)
       PROVE  IInv'
  <2>1. card' \in Cards /\ card'.state \in {card.state, "prg"}
    BY <1>12, <1>c DEF BusSwitch, Switch, CardBus, States, Buses
  <2>2. at' # "setIos"
    BY <1>12 DEF BusSwitch, Up
  <2> QED
    BY <1>1, <1>12, <1>c, <2>1, <2>2 DEF BusSwitch, Up, IInv, Progress, Quiet
<1>13. CASE CardSettles
  <2>1. card' \in Cards /\ card'.state = "tran"
    BY <1>13, <1>c DEF CardSettles, States
  <2> QED
    BY <1>1, <1>13, <1>c, <2>1 DEF CardSettles, drv, IInv, Progress, Quiet
<1>14. CASE UNCHANGED vars
  BY <1>1, <1>14, <1>c DEF vars, IInv, Progress, Quiet
<1>15. ASSUME Next PROVE IInv'
  <2>1. CASE CardSettles
    BY <2>1, <1>13
  <2>2. CASE Driver
    BY <2>2, <1>2, <1>3, <1>4, <1>5, <1>6, <1>7, <1>8, <1>9, <1>10, <1>11,
       <1>12 DEF Driver
  <2> QED
    BY <1>15, <2>1, <2>2 DEF Next
<1> QED
  BY <1>14, <1>15

\* The interfaces stay installed only over a card that was identified and is
\* selected, for any number of retries: every response on the way may be
\* lost unnoticed, and reading EXT_CSD still shows it (MmcIdentification.c
\* 86-150, 442-488, Mmc.c 57-120).
THEOREM UpIsSelected == Spec => []UpMeansSelected
<1>1. IInv => UpMeansSelected
  BY DEF IInv, Progress, Identified, UpMeansSelected, IsUp
<1> QED
  BY <1>1, InitHolds, StepHolds, PTL DEF Spec

\* Width and data rate of the bus change only while the card does not
\* program, or after a failed switch, a lost response or exhausted polls
\* (MmcIdentification.c 156-187, 255-287, Px30EmmcDxe.c 1419-1479).
THEOREM BusChangesAreQuiet == Spec => QuietBusChange
<1> DEFINE Step == host'.width # host.width \/ host'.ddr # host.ddr =>
                     \/ at \in {"hwInit", "hwInit2"}
                     \/ card.state # "prg"
                     \/ faults \cap {"switch", "lost", "exhausted"} # {}
<1>1. IInv /\ [Next]_vars => [Step]_vars
  <2> SUFFICES ASSUME IInv, Next PROVE Step
    OBVIOUS
  <2>1. ASSUME NEW o \in ClockOutcomes, SetIosClock(o) PROVE Step
    <3>1. host' = SetClock(host, FreqKHz(idx), o)
      BY <2>1 DEF SetIosClock
    <3>2. host'.width = host.width /\ host'.ddr = host.ddr
      BY <2>1, <3>1, ClockOnly DEF IInv, Shapes
    <3> QED
      BY <3>2
  <2>2. ASSUME NEW o \in ClockOutcomes, HwInit(o) PROVE Step
    BY <2>2 DEF HwInit
  <2>3. CASE SetBus
    BY <2>3 DEF SetBus, IInv, Quiet
  <2>4. ASSUME UNCHANGED host PROVE Step
    BY <2>4
  <2>5. CASE CardSettles
    BY <2>4, <2>5 DEF CardSettles
  <2>6. CASE Driver
    <3>1. CASE ProbeOthers
      BY <2>4, <3>1 DEF ProbeOthers
    <3>2. ASSUME NEW ok \in BOOLEAN,
                 Create(ok) \/ ReadExtCsd(ok) \/ ReadDeviceType(ok)
          PROVE  Step
      BY <2>4, <3>2 DEF Create, ReadExtCsd, ReadDeviceType
    <3>3. ASSUME NEW answered \in BOOLEAN, NEW ok \in BOOLEAN,
                 \/ GoIdle(answered, ok) \/ Identify(answered, ok)
                 \/ DataPoll(answered, ok) \/ SwitchPoll(answered, ok)
                 \/ \E up \in BOOLEAN : OpCond(answered, ok, up)
          PROVE  Step
      BY <2>4, <3>3 DEF GoIdle, Identify, DataPoll, SwitchPoll, OpCond
    <3>4. ASSUME NEW ok \in BOOLEAN, NEW obeyed \in BOOLEAN,
                 HsSwitch(ok, obeyed) \/ BusSwitch(ok, obeyed)
          PROVE  Step
      BY <2>4, <3>4 DEF HsSwitch, BusSwitch
    <3> QED
      BY <2>6, <2>1, <2>2, <2>3, <3>1, <3>2, <3>3, <3>4 DEF Driver
  <2> QED
    BY <2>5, <2>6 DEF Next
<1> QED
  BY <1>1, InitHolds, StepHolds, PTL DEF Spec, QuietBusChange

(***************************************************************************)
(* The types: the clock is a number, as a divider is found for it.         *)
(***************************************************************************)
Hosts == [width : {1, 8}, ddr : BOOLEAN, khz : Nat]

LEMMA HostSet ==
  ASSUME NEW h \in Hosts, NEW khz \in {400, 26000, 52000}, NEW o \in ClockOutcomes
  PROVE  SetClock(h, khz, o) \in Hosts
<1>1. Divider(khz) \in Nat \ {0}
  BY BoundsAssumption DEF Divider
<1>2. SrcKHz \div (2 * Divider(khz)) \in Nat
  <2>1. ASSUME NEW a \in Nat, NEW b \in Nat \ {0} PROVE a \div (2 * b) \in Nat
    OBVIOUS
  <2> QED
    BY <1>1, <2>1, BoundsAssumption
<1>3. ASSUME NEW k \in Nat PROVE [h EXCEPT !.khz = k] \in Hosts
  BY <1>3 DEF Hosts
<1>4. CASE o = "ok"
  BY <1>2, <1>3, <1>4 DEF SetClock
<1>5. CASE o = "refused"
  BY <1>5 DEF SetClock
<1>6. CASE o = "stopped"
  BY <1>3, <1>6 DEF SetClock
<1> QED
  BY <1>4, <1>5, <1>6 DEF ClockOutcomes

\* TypeOK but for what each action changes least: the bus and state.
Rest ==
  /\ at \in {"create", "hwInit", "hwInit2", "CMD0", "CMD1", "probe", "extCsd",
             "dataPoll", "deviceType", "hsSwitch", "hsPoll", "setIos",
             "setClock", "busSwitch", "busPoll", "end"} \cup DOMAIN After
  /\ installed \in BOOLEAN /\ media \in BOOLEAN /\ powerUp \in BOOLEAN
  /\ cardType \in {"none", "EMMC"}
  /\ ioState \in {"none", "hwInit", "idle", "transfer"}
  /\ resp \in States
  /\ tries \in Nat /\ idx \in 0..4
  /\ deviceType \subseteq {"hs", "ddr"}
  /\ faults \subseteq Faults

LEMMA Parts ==
  /\ TypeOK <=> Rest /\ host \in Hosts /\ card \in Cards
  /\ TypeOK' <=> Rest' /\ host' \in Hosts /\ card' \in Cards
BY DEF TypeOK, Rest, Hosts, Cards, Buses

LEMMA TypeStep == TypeOK /\ [Next]_vars => TypeOK'
<1> SUFFICES ASSUME Rest, host \in Hosts, card \in Cards, [Next]_vars
             PROVE  Rest' /\ host' \in Hosts /\ card' \in Cards
  BY Parts
<1>a. DOMAIN After = {"CMD2", "CMD3", "CMD9", "CMD7"}
      /\ \A c \in DOMAIN After : After[c] \in {"CMD3", "CMD9", "CMD7", "extCsd"}
  BY DEF After
<1>b. ASSUME NEW s \in States PROVE [card EXCEPT !.state = s] \in Cards
  BY <1>b DEF Cards
<1>c. ASSUME NEW s \in States, NEW b \in Buses
      PROVE  [[card EXCEPT !.bus = b] EXCEPT !.state = s] \in Cards
  BY <1>c DEF Cards
<1>d. [[card EXCEPT !.hs = TRUE] EXCEPT !.state = "prg"] \in Cards
  BY DEF Cards, States
<1> USE DEF Rest, drv, Faults
<1>1. CASE ProbeOthers
  BY <1>1, <1>a DEF ProbeOthers, Fail
<1>2. CASE SetBus
  <2>1. host' \in Hosts
    <3>1. ASSUME NEW d \in BOOLEAN
          PROVE  [host EXCEPT !.ddr = d, !.width = 8] \in Hosts
      BY <3>1 DEF Hosts
    <3>2. Ddr(idx) \in BOOLEAN
      BY DEF Ddr
    <3> QED
      BY <1>2, <3>1, <3>2 DEF SetBus
  <2> QED
    BY <1>2, <2>1, <1>a DEF SetBus
<1>3. ASSUME NEW o \in ClockOutcomes, HwInit(o)
      PROVE  Rest' /\ host' \in Hosts /\ card' \in Cards
  <2>1. host' \in Hosts
    <3> DEFINE h == [width |-> 1, ddr |-> FALSE, khz |-> 0]
    <3>1. h \in Hosts
      BY DEF Hosts
    <3>2. host' = SetClock(h, 400, o)
      BY <1>3 DEF HwInit
    <3> HIDE DEF h
    <3> QED
      BY <3>1, <3>2, HostSet
  <2> QED
    BY <1>3, <2>1, <1>a DEF HwInit, Fail, ClockFault
<1>4. ASSUME NEW o \in ClockOutcomes, SetIosClock(o)
      PROVE  Rest' /\ host' \in Hosts /\ card' \in Cards
  <2>1. host' \in Hosts
    <3>1. FreqKHz(idx) \in {400, 26000, 52000}
      BY DEF FreqKHz
    <3> QED
      BY <1>4, <3>1, HostSet DEF SetIosClock
  <2> QED
    BY <1>4, <2>1, <1>a DEF SetIosClock, Up, ClockFault
<1>5. ASSUME NEW ok \in BOOLEAN,
             Create(ok) \/ ReadExtCsd(ok) \/ ReadDeviceType(ok)
      PROVE  Rest' /\ host' \in Hosts /\ card' \in Cards
  <2>1. CASE Create(ok)
    BY <2>1, <1>a DEF Create
  <2>2. CASE ReadExtCsd(ok)
    <3>1. card' \in Cards
      BY <2>2, <1>b DEF ReadExtCsd, States
    <3> QED
      BY <2>2, <3>1, <1>a DEF ReadExtCsd, Fail, States
  <2>3. CASE ReadDeviceType(ok)
    BY <2>3, <1>a DEF ReadDeviceType, Up
  <2> QED
    BY <1>5, <2>1, <2>2, <2>3
<1>6. ASSUME NEW answered \in BOOLEAN, NEW ok \in BOOLEAN
      PROVE  GoIdle(answered, ok) \/ Identify(answered, ok)
               => Rest' /\ host' \in Hosts /\ card' \in Cards
  <2>1. CASE GoIdle(answered, ok)
    <3>1. card' \in Cards
      BY <2>1 DEF GoIdle, Cards, States, Buses
    <3> QED
      BY <2>1, <3>1, <1>a DEF GoIdle, Fail
  <2>2. CASE Identify(answered, ok)
    <3>1. card' \in Cards
      BY <2>2, <1>a, <1>b DEF Identify, Send, Becomes, States
    <3> QED
      BY <2>2, <3>1, <1>a DEF Identify, Send, Fail
  <2> QED
    BY <2>1, <2>2
<1>7. ASSUME NEW answered \in BOOLEAN, NEW ok \in BOOLEAN
      PROVE  DataPoll(answered, ok) \/ SwitchPoll(answered, ok)
               => Rest' /\ host' \in Hosts /\ card' \in Cards
  <2>0. card.state \in States
    BY DEF Cards
  <2>1. CASE DataPoll(answered, ok)
    <3>1. resp' \in States /\ faults' \subseteq Faults
      BY <2>0, <2>1 DEF DataPoll, SendStatus
    <3>2. tries' \in Nat
      BY <2>1 DEF DataPoll
    <3> QED
      BY <2>1, <3>1, <3>2, <1>a DEF DataPoll, Fail
  <2>2. CASE SwitchPoll(answered, ok)
    BY <2>0, <2>2, <1>a DEF SwitchPoll, Up
  <2> QED
    BY <2>1, <2>2
<1>8. ASSUME NEW answered \in BOOLEAN, NEW ok \in BOOLEAN, NEW up \in BOOLEAN,
             OpCond(answered, ok, up)
      PROVE  Rest' /\ host' \in Hosts /\ card' \in Cards
  BY <1>8, <1>a, <1>b DEF OpCond, States
<1>9. ASSUME NEW ok \in BOOLEAN, NEW obeyed \in BOOLEAN
      PROVE  HsSwitch(ok, obeyed) \/ BusSwitch(ok, obeyed)
               => Rest' /\ host' \in Hosts /\ card' \in Cards
  <2>1. CASE HsSwitch(ok, obeyed)
    <3>1. card' \in Cards
      BY <2>1, <1>d DEF HsSwitch, Switch
    <3> QED
      BY <2>1, <3>1, <1>a DEF HsSwitch, Switch, States
  <2>2. CASE BusSwitch(ok, obeyed)
    <3>1. card' \in Cards
      BY <2>2, <1>c DEF BusSwitch, Switch, CardBus, Buses, States
    <3> QED
      BY <2>2, <3>1, <1>a DEF BusSwitch, Switch, Up, States
  <2> QED
    BY <2>1, <2>2
<1>10. CASE CardSettles
  BY <1>10, <1>b DEF CardSettles, States
<1>11. CASE UNCHANGED vars
  BY <1>11 DEF vars
<1> QED
  BY <1>1, <1>2, <1>3, <1>4, <1>5, <1>6, <1>7, <1>8, <1>9, <1>10, <1>11
     DEF Next, Driver

\* Bring-up begins with its variables in their types.
LEMMA TypeAtInit == Init => TypeOK
<1> SUFFICES ASSUME Init PROVE Rest /\ host \in Hosts /\ card \in Cards
  BY Parts
<1>1. card \in Cards
  BY InitHolds DEF IInv, Shapes
<1>2. host \in Hosts
  BY DEF Init, Hosts, BootKHz
<1>3. deviceType \subseteq {"hs", "ddr"}
  BY Zenon DEF Init
<1>4. /\ at = "create" /\ installed = FALSE /\ media = FALSE
      /\ cardType = "none" /\ ioState = "none" /\ powerUp = FALSE
      /\ resp = "idle" /\ tries = 0 /\ idx = 0 /\ faults = {}
  BY Zenon DEF Init
<1>5. resp \in States /\ tries \in Nat /\ idx \in 0..4 /\ faults \subseteq Faults
  BY <1>4 DEF States
<1>6. Rest
  BY <1>3, <1>4, <1>5 DEF Rest
<1> QED
  BY <1>1, <1>2, <1>6

\* The types of bring-up for every bound and clock: only the four modes of
\* the table are tried (MmcIdentification.c 250-287), and the card clock is a
\* number since DwEmmcSetClock finds a divider (Px30EmmcDxe.c 225-235).
THEOREM TypeCorrect == Spec => []TypeOK
<1> QED
  BY TypeAtInit, TypeStep, PTL DEF Spec

(***************************************************************************)
(* Where host and card agree on bus and clock.                             *)
(***************************************************************************)
\* What is known of the bus at each place.  Reading EXT_CSD shows that both
\* sides agree, whatever CMD0 did; behind it only SetBus and BusSwitch change
\* a side, and a switch the card can follow brings them together again.
BusKnown ==
  /\ at \in {"dataPoll", "deviceType", "hsSwitch", "hsPoll"} => card.bus = HostBus
  /\ at \in {"setClock", "busSwitch"} => host.width = 8 /\ host.ddr = Ddr(idx)
  /\ at = "busPoll" => card.bus = HostBus \/ "refused" \in faults
  /\ IsUp /\ card.bus # HostBus =>
       faults # {} /\ (idx # 0 => "refused" \in faults)

\* From the second HwInit on the clock runs, or SetClock is known to have
\* failed.
ClockKnown ==
  at \notin {"create", "hwInit", "end"} \/ IsUp => host.khz > 0 \/ faults # {}

AgreeInv == TypeOK /\ BusKnown /\ ClockKnown

\* SetClock leaves the bus alone, and a clock that was set runs: no divider
\* DwEmmcSetClock may choose brings the source clock below 1 kHz.
LEMMA ClockRuns ==
  ASSUME NEW h \in Hosts, NEW khz \in {400, 26000, 52000}, NEW o \in ClockOutcomes
  PROVE  /\ SetClock(h, khz, o).width = h.width
         /\ SetClock(h, khz, o).ddr = h.ddr
         /\ o = "ok" => SetClock(h, khz, o).khz > 0
<1>1. Divider(khz) \in 1..255
  <2>1. ASSUME NEW a \in Nat, a <= 204509 PROVE a \div 802 + 1 \in 1..255
    BY <2>1
  <2>2. ASSUME NEW a \in Nat, a <= 204509 PROVE a \div 52002 + 1 \in 1..255
    BY <2>2
  <2>3. ASSUME NEW a \in Nat, a <= 204509 PROVE a \div 104002 + 1 \in 1..255
    BY <2>3
  <2>4. /\ PcdKHz \in Nat /\ PcdKHz <= 204509
        /\ 2 * (400 + 1) = 802 /\ 2 * (26000 + 1) = 52002 /\ 2 * (52000 + 1) = 104002
    BY BoundsAssumption
  <2>5. \/ Divider(khz) = PcdKHz \div 802 + 1
        \/ Divider(khz) = PcdKHz \div 52002 + 1
        \/ Divider(khz) = PcdKHz \div 104002 + 1
    BY <2>4 DEF Divider
  <2> QED
    BY <2>1, <2>2, <2>3, <2>4, <2>5
<1>2. SrcKHz \div (2 * Divider(khz)) \in Nat /\ SrcKHz \div (2 * Divider(khz)) > 0
  <2>1. ASSUME NEW a \in Nat, NEW b \in Nat \ {0}, a >= b
        PROVE  a \div b \in Nat /\ a \div b > 0
    BY <2>1
  <2>2. 2 * Divider(khz) \in Nat \ {0} /\ SrcKHz >= 2 * Divider(khz) /\ SrcKHz \in Nat
    BY <1>1, BoundsAssumption
  <2> QED
    BY <2>1, <2>2
<1>3. ASSUME NEW r, NEW k \in Nat, r = [h EXCEPT !.khz = k]
      PROVE  r.width = h.width /\ r.ddr = h.ddr /\ r.khz = k
  BY <1>3 DEF Hosts
<1> DEFINE s == SetClock(h, khz, o)
<1>4. CASE o = "ok"
  <2>1. s = [h EXCEPT !.khz = SrcKHz \div (2 * Divider(khz))]
    BY <1>4 DEF SetClock
  <2> HIDE DEF s
  <2>2. s.width = h.width /\ s.ddr = h.ddr /\ s.khz > 0
    BY <1>2, <1>3, <2>1
  <2> QED
    BY <2>2 DEF s
<1>5. CASE o = "refused"
  BY <1>5 DEF SetClock
<1>6. CASE o = "stopped"
  <2>1. s = [h EXCEPT !.khz = 0] /\ o # "ok"
    BY <1>6 DEF SetClock
  <2> HIDE DEF s
  <2>2. s.width = h.width /\ s.ddr = h.ddr
    BY <1>3, <2>1
  <2> QED
    BY <2>1, <2>2 DEF s
<1> QED
  BY <1>4, <1>5, <1>6 DEF ClockOutcomes

\* Every step keeps what is known of bus and clock.
LEMMA AgreeStep == AgreeInv /\ [Next]_vars => AgreeInv'
<1> SUFFICES ASSUME AgreeInv, [Next]_vars PROVE BusKnown' /\ ClockKnown'
  BY TypeStep DEF AgreeInv
<1>t. /\ host \in Hosts /\ card \in Cards /\ faults \subseteq Faults
      /\ TypeOK' /\ host' \in Hosts
  BY TypeStep, Parts DEF AgreeInv, TypeOK
<1>b. UNCHANGED <<host, card>> => (card.bus = HostBus <=> card'.bus = HostBus')
  BY DEF HostBus
<1>c. host'.width = host.width /\ host'.ddr = host.ddr => HostBus' = HostBus
  BY DEF HostBus
<1>k. BusKnown /\ ClockKnown
  BY DEF AgreeInv
<1>f. faults # {} /\ faults \subseteq faults' => faults' # {}
  OBVIOUS
<1>1. CASE ProbeOthers
  BY <1>1, <1>k DEF ProbeOthers, Fail, BusKnown, ClockKnown, IsUp
<1>2. CASE SetBus
  <2>1. host'.width = 8 /\ host'.ddr = Ddr(idx) /\ host'.khz = host.khz
    BY <1>2, <1>t DEF SetBus, Hosts
  <2> QED
    BY <1>2, <1>k, <2>1 DEF SetBus, drv, BusKnown, ClockKnown, IsUp
<1>3. ASSUME NEW o \in ClockOutcomes, HwInit(o) PROVE BusKnown' /\ ClockKnown'
  <2> DEFINE h == [width |-> 1, ddr |-> FALSE, khz |-> 0]
  <2>1. h \in Hosts /\ host' = SetClock(h, 400, o)
    BY <1>3 DEF HwInit, Hosts
  <2>2. o = "ok" => host'.khz > 0
    <3> HIDE DEF h
    <3> QED
      BY <2>1, ClockRuns
  <2> QED
    BY <1>3, <2>2 DEF HwInit, Fail, BusKnown, ClockKnown, IsUp
<1>4. ASSUME NEW o \in ClockOutcomes, SetIosClock(o)
      PROVE  BusKnown' /\ ClockKnown'
  <2>1. FreqKHz(idx) \in {400, 26000, 52000} /\ host' = SetClock(host, FreqKHz(idx), o)
    BY <1>4 DEF SetIosClock, FreqKHz
  <2>2. /\ host'.width = host.width /\ host'.ddr = host.ddr
        /\ o = "ok" => host'.khz > 0
    BY <1>t, <2>1, ClockRuns
  <2>3. /\ o # "ok" => faults' # {}
        /\ at = "setClock" /\ card' = card
    BY <1>4 DEF SetIosClock, ClockFault
  <2>4. /\ o = "ok" => at' = "busSwitch" /\ idx' = idx
        /\ o # "ok" => at' = "setIos" \/ (at' = "end" /\ idx' = 0)
    BY <1>4 DEF SetIosClock, Up
  <2> QED
    BY <1>k, <2>2, <2>3, <2>4 DEF BusKnown, ClockKnown, IsUp
<1>5. ASSUME NEW ok \in BOOLEAN, Create(ok) \/ ReadExtCsd(ok) \/ ReadDeviceType(ok)
      PROVE  BusKnown' /\ ClockKnown'
  <2>1. CASE Create(ok)
    BY <2>1 DEF Create, BusKnown, ClockKnown, IsUp
  <2>2. CASE ReadExtCsd(ok)
    <3>1. ok => card.bus = HostBus /\ card'.bus = card.bus
      BY <2>2, <1>t DEF ReadExtCsd, Cards
    <3> QED
      BY <2>2, <3>1, <1>c, <1>k DEF ReadExtCsd, Fail, BusKnown, ClockKnown, IsUp
  <2>3. CASE ReadDeviceType(ok)
    BY <2>3, <1>b, <1>k DEF ReadDeviceType, Up, BusKnown, ClockKnown, IsUp
  <2> QED
    BY <1>5, <2>1, <2>2, <2>3
<1>6. ASSUME NEW answered \in BOOLEAN, NEW ok \in BOOLEAN,
             GoIdle(answered, ok) \/ Identify(answered, ok)
      PROVE  BusKnown' /\ ClockKnown'
  <2>1. /\ at' \in {"CMD1", "CMD3", "CMD9", "CMD7", "extCsd"} \/ (at' = "end" /\ ~installed')
        /\ host' = host /\ faults \subseteq faults'
        /\ at \in {"CMD0", "CMD2", "CMD3", "CMD9", "CMD7"}
    BY <1>6 DEF GoIdle, Identify, Send, Fail, After
  <2> QED
    BY <1>f, <1>k, <2>1 DEF BusKnown, ClockKnown, IsUp
<1>7. ASSUME NEW answered \in BOOLEAN, NEW ok \in BOOLEAN, DataPoll(answered, ok)
      PROVE  BusKnown' /\ ClockKnown'
  <2>1. /\ UNCHANGED <<host, card>> /\ faults \subseteq faults' /\ at = "dataPoll"
        /\ at' \in {"dataPoll", "deviceType"} \/ (at' = "end" /\ ~installed')
    BY <1>7 DEF DataPoll, SendStatus, Fail
  <2> QED
    BY <1>b, <1>f, <1>k, <2>1 DEF BusKnown, ClockKnown, IsUp
<1>8. ASSUME NEW answered \in BOOLEAN, NEW ok \in BOOLEAN, SwitchPoll(answered, ok)
      PROVE  BusKnown' /\ ClockKnown'
  <2>1. UNCHANGED <<host, card>> /\ faults \subseteq faults'
    BY <1>8 DEF SwitchPoll
  <2>2. \/ at \in {"hsPoll", "busPoll"} /\ at' = at
        \/ at = "hsPoll" /\ at' = "setIos"
        \/ at = "busPoll" /\ at' = "end" /\ (ok \/ (idx' = 0 /\ "switch" \in faults'))
    BY <1>8 DEF SwitchPoll, Up
  <2> QED
    BY <1>b, <1>f, <1>k, <2>1, <2>2 DEF BusKnown, ClockKnown, IsUp
<1>9. ASSUME NEW answered \in BOOLEAN, NEW ok \in BOOLEAN, NEW up \in BOOLEAN,
             OpCond(answered, ok, up)
      PROVE  BusKnown' /\ ClockKnown'
  <2>1. /\ host' = host /\ faults \subseteq faults' /\ at = "CMD1"
        /\ at' \in {"probe", "CMD1", "CMD2"}
    BY <1>9 DEF OpCond
  <2> QED
    BY <1>f, <1>k, <2>1 DEF BusKnown, ClockKnown, IsUp
<1>10. ASSUME NEW ok \in BOOLEAN, NEW obeyed \in BOOLEAN, HsSwitch(ok, obeyed)
       PROVE  BusKnown' /\ ClockKnown'
  <2>1. /\ host' = host /\ card'.bus = card.bus /\ faults \subseteq faults'
        /\ at = "hsSwitch" /\ at' \in {"hsPoll", "setIos"}
    BY <1>10, <1>t DEF HsSwitch, Switch, Cards
  <2> QED
    BY <1>c, <1>f, <1>k, <2>1 DEF BusKnown, ClockKnown, IsUp
<1>11. ASSUME NEW ok \in BOOLEAN, NEW obeyed \in BOOLEAN, BusSwitch(ok, obeyed)
       PROVE  BusKnown' /\ ClockKnown'
  <2>1. /\ host' = host /\ faults \subseteq faults' /\ at = "busSwitch"
        /\ IF ok THEN at' = "busPoll" ELSE at' = "end" /\ idx' = 0 /\ faults' # {}
    BY <1>11 DEF BusSwitch, Switch, Up
  <2>2. ok => card'.bus = CardBus(idx) \/ "refused" \in faults'
    BY <1>11, <1>t DEF BusSwitch, Switch, Cards
  <2>3. HostBus' = CardBus(idx)
    <3>1. host'.width = 8 /\ (host'.ddr <=> idx \in {1, 2})
      BY <1>k, <1>t, <2>1 DEF BusKnown, Ddr, Hosts
    <3> QED
      BY <3>1 DEF HostBus, CardBus
  <2> QED
    BY <1>f, <1>k, <2>1, <2>2, <2>3 DEF BusKnown, ClockKnown, IsUp
<1>12. CASE CardSettles
  <2>1. card'.bus = card.bus /\ UNCHANGED <<at, installed, idx, host, faults>>
    BY <1>12, <1>t DEF CardSettles, Cards, drv
  <2> QED
    BY <1>c, <1>k, <2>1 DEF BusKnown, ClockKnown, IsUp
<1>13. CASE UNCHANGED vars
  BY <1>13, <1>b, <1>k DEF vars, BusKnown, ClockKnown, IsUp
<1> QED
  BY <1>1, <1>2, <1>3, <1>4, <1>5, <1>6, <1>7, <1>8, <1>9, <1>10, <1>11, <1>12,
     <1>13 DEF Next, Driver

\* When bring-up has ended, host and card are in one bus mode and the clock
\* runs unless something was refused or lost on the way; once the bus was
\* raised, unless the card refused the very mode (MmcIdentification.c
\* 250-300, 476-520, Px30EmmcDxe.c 225-290, 1419-1479).
THEOREM DisagreementIsCaused == Spec => []DisagreementHasCause
<1>1. Init => AgreeInv
  <2>1. Init => TypeOK
    BY TypeAtInit
  <2>2. Init => BusKnown /\ ClockKnown
    BY DEF Init, BusKnown, ClockKnown, IsUp
  <2> QED
    BY <2>1, <2>2 DEF AgreeInv
<1>2. AgreeInv => DisagreementHasCause
  BY DEF AgreeInv, BusKnown, ClockKnown, DisagreementHasCause, IsUp
<1> QED
  BY <1>1, <1>2, AgreeStep, PTL DEF Spec
=============================================================================
