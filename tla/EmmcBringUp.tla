---------------------------- MODULE EmmcBringUp ----------------------------
(***************************************************************************)
(* Bringing the eMMC up: MmcDxeInitialize of the local MmcDxe creates the  *)
(* instance, identifies the card and raises the bus mode, through          *)
(* NotifyState, SendCommand and SetIos of the Px30EmmcDxe host driver.     *)
(*                                                                         *)
(* One thread; what is hard is partial failure.  Host and card each have a *)
(* bus mode, changed by separate steps that may fail separately.  A        *)
(* command without data may report success although the card never         *)
(* answered (Px30Command: RTO is forgiven), and RESP0 then still holds the *)
(* response before it; a data command succeeds only if the card answered.  *)
(***************************************************************************)
EXTENDS Naturals

CONSTANTS
  PcdKHz,      \* PcdPx30EmmcClockFrequency, the assumed source clock
  SrcKHz,      \* the source clock PlatformInit selects: GPLL / 11
  MaxOcr,      \* MAX_RETRY_COUNT: CMD1 until the card is powered up (200)
  MaxPrg       \* CMD13 until a switch is programmed (200)

ASSUME BoundsAssumption ==
  /\ {PcdKHz, SrcKHz, MaxOcr} \subseteq Nat \ {0}
  /\ MaxPrg \in Nat
  /\ PcdKHz < 2 * 255 * 401   \* a divider below 256 gives the 400 kHz
  /\ SrcKHz >= 2 * 255        \* and none of them less than 1 kHz

VARIABLES
  at,         \* where the thread is
  installed,  \* BlockIo and DiskIo are installed
  media,      \* Media->MediaPresent
  cardType,   \* CardInfo.CardType: "none" or "EMMC"
  ioState,    \* MmcHostInstance->State
  powerUp,    \* the power-up bit of the last OCR response
  resp,       \* card state in the last R1 response (RESP0)
  tries,      \* turns of the loop the thread is in
  idx,        \* the timing mode being tried, or set
  deviceType, \* EXT_CSD[196]: the modes of the card
  host,       \* CTYPE, UHSREG and the card clock
  card,       \* state and bus mode of the card
  faults      \* ghost: what went wrong, see Faults

drv  == <<installed, media, cardType, ioState>>
vars == <<at, installed, media, cardType, ioState, powerUp, resp, tries, idx,
          deviceType, host, card, faults>>

States == {"idle", "ready", "ident", "stby", "tran", "data", "prg"}
Modes == 1..4

\* TimingMode, BusClockFreq and BusMode of the four attempts.
Ddr(i) == i \in {1, 2}
FreqKHz(i) == IF i = 4 THEN 26000 ELSE 52000
CardBus(i) == IF i \in {1, 2} THEN "ddr8" ELSE "sdr8"

\* lost: a command succeeded unanswered; clock: SetClock failed; switch: CMD6
\* failed; refused: the card does not have the mode; exhausted: still
\* programming after MaxPrg polls.
Faults == {"lost", "clock", "switch", "refused", "exhausted"}

\* The bus mode CTYPE and UHSREG stand for.
HostBus ==
  IF host.width = 1 THEN "sdr1" ELSE IF host.ddr THEN "ddr8" ELSE "sdr8"

(***************************************************************************)
(* DwEmmcSetClock: the divider is computed from the PCD.                   *)
(***************************************************************************)
\* The loop takes the first divider with PcdKHz \div (2 * Divider) <= khz,
\* which is the first above PcdKHz / (2 * (khz + 1)).
Divider(khz) == PcdKHz \div (2 * (khz + 1)) + 1

\* DATA_BUSY is waited for; then the clock is stopped, divided and started,
\* each step confirmed by the controller or refused with HLE.
SetClock(h, khz, outcome) ==
  CASE outcome = "ok"      -> [h EXCEPT !.khz = SrcKHz \div (2 * Divider(khz))]
    [] outcome = "refused" -> h
    [] outcome = "stopped" -> [h EXCEPT !.khz = 0]

ClockOutcomes == {"ok", "refused", "stopped"}
ClockFault(outcome) == IF outcome = "ok" THEN {} ELSE {"clock"}

(***************************************************************************)
(* SendCommand, without data: the card hears the command or not, and the   *)
(* host sees success or not.  The card obeys only in the right state.      *)
(***************************************************************************)
Moves == [CMD0 |-> States, CMD2 |-> {"ready"}, CMD3 |-> {"ident"},
          CMD9 |-> {"stby"}, CMD7 |-> {"stby"}]
Becomes == [CMD0 |-> "idle", CMD2 |-> "ident", CMD3 |-> "stby",
            CMD9 |-> "stby", CMD7 |-> "tran"]

Send(cmd, answered, ok) ==
  /\ answered => card.state \in Moves[cmd]
  /\ card' = IF answered THEN [card EXCEPT !.state = Becomes[cmd]] ELSE card
  /\ faults' = IF ok /\ ~answered THEN faults \cup {"lost"} ELSE faults

FailKeepsInterfaces == at' = "end" /\ UNCHANGED installed  \* no cleanup

Fail == at' = "end" /\ installed' = FALSE

(***************************************************************************)
(* MmcDxeInitialize and InitializeMmcDevice.                               *)
(***************************************************************************)
\* The interfaces are installed before the card is looked for.
Create(ok) ==
  /\ at = "create"
  /\ at' = IF ok THEN "hwInit" ELSE "end"
  /\ installed' = ok
  /\ ioState' = IF ok THEN "hwInit" ELSE ioState
  /\ UNCHANGED <<media, cardType, powerUp, resp, tries, idx, deviceType, host,
                 card, faults>>

\* DwEmmcHwInit, twice: in InitializeMmcDevice and, as State says so, again
\* in MmcIdentificationMode.  The reset clears CTYPE and UHSREG.
HwInit(outcome) ==
  /\ at \in {"hwInit", "hwInit2"}
  /\ LET h == SetClock([width |-> 1, ddr |-> FALSE, khz |-> 0], 400, outcome)
     IN  host' = h
  /\ faults' = faults \cup ClockFault(outcome)
  /\ IF outcome = "ok"
       THEN at' = (IF at = "hwInit" THEN "hwInit2" ELSE "CMD0")
            /\ UNCHANGED installed
       ELSE Fail
  /\ powerUp' = FALSE
  /\ UNCHANGED <<media, cardType, ioState, resp, tries, idx, deviceType, card>>

\* Card and bus go back to the legacy mode.
GoIdle(answered, ok) ==
  /\ at = "CMD0"
  /\ card' = IF answered THEN [state |-> "idle", bus |-> "sdr1", hs |-> FALSE]
                         ELSE card
  /\ faults' = IF ok /\ ~answered THEN faults \cup {"lost"} ELSE faults
  /\ IF ok THEN at' = "CMD1" /\ ioState' = "idle" /\ UNCHANGED installed
           ELSE Fail /\ UNCHANGED ioState
  /\ tries' = 0
  /\ UNCHANGED <<media, cardType, powerUp, resp, idx, deviceType, host>>

\* CMD1 until the OCR shows the card powered up; an error, or no answer in
\* time, leads to the probe for other cards.
OpCond(answered, ok, up) ==
  /\ at = "CMD1"
  /\ answered => card.state \in {"idle", "ready"}
  /\ up => answered
  /\ faults' = IF ok /\ ~answered THEN faults \cup {"lost"} ELSE faults
  /\ card' = IF up THEN [card EXCEPT !.state = "ready"] ELSE card
  /\ powerUp' = IF ok /\ answered THEN up ELSE powerUp
  /\ tries' = tries + 1
  /\ at' = IF ~ok THEN "probe"
           ELSE IF powerUp' THEN "CMD2"
           ELSE IF tries + 1 < MaxOcr THEN "CMD1" ELSE "probe"
  /\ UNCHANGED <<drv, resp, idx, deviceType, host>>

\* CMD5 either succeeds, "SDIO", or CMD8 is sent: the host only stores it,
\* so that RESP0 cannot hold its echo.  Both end the identification.
ProbeOthers ==
  /\ at = "probe"
  /\ Fail
  /\ UNCHANGED <<media, cardType, ioState, powerUp, resp, tries, idx,
                 deviceType, host, card, faults>>

(***************************************************************************)
(* EmmcIdentificationMode.                                                 *)
(***************************************************************************)
After == [CMD2 |-> "CMD3", CMD3 |-> "CMD9", CMD9 |-> "CMD7",
          CMD7 |-> "extCsd"]

Identify(answered, ok) ==
  /\ at \in DOMAIN After
  /\ Send(at, answered, ok)
  /\ IF ok THEN at' = After[at] /\ UNCHANGED installed ELSE Fail
  /\ UNCHANGED <<media, cardType, ioState, powerUp, resp, tries, idx,
                 deviceType, host>>

\* CMD8 is stored, ReadBlockData executes it: when it succeeds the card has
\* answered, and sent its block on the same bus.
ReadExtCsd(ok) ==
  /\ at = "extCsd"
  /\ ok => card.state = "tran" /\ card.bus = HostBus
  /\ IF ok THEN /\ at' = "dataPoll"
                /\ \E s \in {"tran", "data"} : card' = [card EXCEPT !.state = s]
                /\ resp' = "tran"
                /\ UNCHANGED installed
           ELSE Fail /\ UNCHANGED <<card, resp>>
  /\ tries' = 0
  /\ UNCHANGED <<media, cardType, ioState, powerUp, idx, deviceType, host,
                 faults>>

\* CMD13: the state of the card, or the response before if it is lost.
SendStatus(answered, ok) ==
  /\ resp' = IF ok /\ answered THEN card.state ELSE resp
  /\ faults' = IF ok /\ ~answered THEN faults \cup {"lost"} ELSE faults

\* Until RESP0 no longer says "data"; there is no limit.
DataPoll(answered, ok) ==
  /\ at = "dataPoll"
  /\ SendStatus(answered, ok)
  /\ IF ~ok THEN Fail /\ UNCHANGED <<media, cardType>>
     ELSE IF resp' = "data" THEN UNCHANGED <<at, installed, media, cardType>>
     ELSE /\ at' = "deviceType"
          /\ media' = TRUE /\ cardType' = "EMMC"
          /\ UNCHANGED installed
  /\ UNCHANGED <<ioState, powerUp, tries, idx, deviceType, host, card>>

(***************************************************************************)
(* InitializeEmmcDevice: its failure is ignored by InitializeMmcDevice.    *)
(***************************************************************************)
Up(i) == at' = "end" /\ ioState' = "transfer" /\ idx' = i

ReadDeviceType(ok) ==
  /\ at = "deviceType"
  /\ ok => card.state = "tran" /\ card.bus = HostBus
  /\ IF ok /\ deviceType # {} THEN at' = "hsSwitch" /\ UNCHANGED <<ioState, idx>>
                              ELSE Up(0)
  /\ UNCHANGED <<installed, media, cardType, powerUp, resp, tries, deviceType,
                 host, card, faults>>

\* CMD6: success only if answered; when it fails the card may have obeyed.
\* SWITCH_ERROR in the response is not looked at.
Switch(ok, obeyed, possible, c) ==
  /\ ok => card.state = "tran"
  /\ obeyed => card.state = "tran" /\ possible
  /\ ok /\ possible => obeyed
  /\ card' = IF obeyed THEN [c EXCEPT !.state = "prg"] ELSE card
  /\ resp' = IF ok THEN "tran" ELSE resp
  /\ faults' = faults \cup (IF ok THEN {} ELSE {"switch"})
                      \cup (IF possible THEN {} ELSE {"refused"})

HsSwitchWithoutPoll(ok, obeyed) ==  \* the end of the switch is not polled for
  /\ at = "hsSwitch"
  /\ Switch(ok, obeyed, TRUE, [card EXCEPT !.hs = TRUE])
  /\ at' = "setIos"
  /\ tries' = 0 /\ idx' = 1
  /\ UNCHANGED <<drv, powerUp, deviceType, host>>

HsSwitch(ok, obeyed) ==
  /\ at = "hsSwitch"
  /\ Switch(ok, obeyed, TRUE, [card EXCEPT !.hs = TRUE])
  /\ at' = IF ok THEN "hsPoll" ELSE "setIos"
  /\ tries' = 0 /\ idx' = 1
  /\ UNCHANGED <<drv, powerUp, deviceType, host>>

\* CMD13 until the card is no longer programming, at most MaxPrg + 1 times.
PollOver(ok) == ~ok \/ resp' # "prg" \/ tries = MaxPrg

SwitchPoll(answered, ok) ==
  /\ at \in {"hsPoll", "busPoll"}
  /\ resp' = IF ok /\ answered THEN card.state ELSE resp
  /\ faults' = faults \cup (IF ok /\ ~answered THEN {"lost"} ELSE {})
                      \cup (IF ok /\ resp' = "prg" /\ tries = MaxPrg
                              THEN {"exhausted"} ELSE {})
                      \cup (IF ok THEN {} ELSE {"switch"})
  /\ tries' = IF PollOver(ok) THEN tries ELSE tries + 1
  /\ IF ~PollOver(ok) THEN UNCHANGED <<at, ioState, idx>>
     ELSE IF at = "hsPoll" THEN at' = "setIos" /\ UNCHANGED <<ioState, idx>>
     ELSE Up(IF ok THEN idx ELSE 0)
  /\ UNCHANGED <<installed, media, cardType, powerUp, deviceType, host, card>>

SetBusWithoutUhsreg ==  \* the data rate is not set
  /\ at = "setIos"
  /\ host' = [host EXCEPT !.width = 8]
  /\ at' = "setClock"
  /\ UNCHANGED <<drv, powerUp, resp, tries, idx, deviceType, card, faults>>

\* Px30EmmcSetIos: UHSREG and CTYPE at once, then the clock, which waits for
\* DATA_BUSY to clear.  The first mode whose SetIos succeeds is taken.
SetBus ==
  /\ at = "setIos"
  /\ host' = [host EXCEPT !.ddr = Ddr(idx), !.width = 8]
  /\ at' = "setClock"
  /\ UNCHANGED <<drv, powerUp, resp, tries, idx, deviceType, card, faults>>


SetIosClock(outcome) ==
  /\ at = "setClock"
  /\ card.state # "prg"
  /\ host' = SetClock(host, FreqKHz(idx), outcome)
  /\ faults' = faults \cup ClockFault(outcome)
  /\ IF outcome = "ok" THEN at' = "busSwitch" /\ UNCHANGED <<ioState, idx>>
     ELSE IF idx < 4
       THEN at' = "setIos" /\ idx' = idx + 1 /\ UNCHANGED ioState
       ELSE Up(0)
  /\ UNCHANGED <<installed, media, cardType, powerUp, resp, tries, deviceType,
                 card>>

BusSwitch(ok, obeyed) ==
  /\ at = "busSwitch"
  /\ Switch(ok, obeyed, ~Ddr(idx) \/ "ddr" \in deviceType,
            [card EXCEPT !.bus = CardBus(idx)])
  /\ tries' = 0
  /\ IF ok THEN at' = "busPoll" /\ UNCHANGED <<ioState, idx>>
           ELSE Up(0)
  /\ UNCHANGED <<installed, media, cardType, powerUp, deviceType, host>>

(***************************************************************************)
(* The card sends out its block, or ends programming.                      *)
(***************************************************************************)
CardSettles ==
  /\ card.state \in {"data", "prg"}
  /\ card' = [card EXCEPT !.state = "tran"]
  /\ UNCHANGED <<at, drv, powerUp, resp, tries, idx, deviceType, host, faults>>

\* The card is in one of the modes a boot loader may have left it in; what
\* the host was left with does not matter, HwInit overwrites all of it.
BootKHz == 52000

Init ==
  /\ at = "create" /\ installed = FALSE /\ media = FALSE /\ cardType = "none"
  /\ ioState = "none" /\ powerUp = FALSE /\ resp = "idle"
  /\ tries = 0 /\ idx = 0
  /\ deviceType \in SUBSET {"hs", "ddr"}
  /\ host = [width |-> 8, ddr |-> TRUE, khz |-> BootKHz]
  /\ card \in [state : {"idle", "tran"}, bus : {"sdr1", "sdr8"}, hs : {FALSE}]
  /\ faults = {}

Driver ==
  \/ ProbeOthers \/ SetBus
  \/ \E o \in ClockOutcomes : HwInit(o) \/ SetIosClock(o)
  \/ \E ok \in BOOLEAN : Create(ok) \/ ReadExtCsd(ok) \/ ReadDeviceType(ok)
  \/ \E answered, ok \in BOOLEAN :
       \/ GoIdle(answered, ok) \/ Identify(answered, ok)
       \/ DataPoll(answered, ok) \/ SwitchPoll(answered, ok)
       \/ \E up \in BOOLEAN : OpCond(answered, ok, up)
  \/ \E ok, obeyed \in BOOLEAN : HsSwitch(ok, obeyed) \/ BusSwitch(ok, obeyed)

Next == Driver \/ CardSettles

Spec == Init /\ [][Next]_vars

\* The loop on the data state has no limit: an answer that says "data" keeps
\* it, and so does every CMD13 that succeeds unanswered behind it.
PollsForEver == at = "dataPoll" /\ resp = "data"

\* SetClock waits without a limit for DATA_BUSY to clear.
HeldBusy == at = "setClock" /\ card.state = "prg"

\* The thread runs on.  In PollsForEver a turn that changes nothing is a turn
\* too, so no answer is forced there; and the card owes nothing.
FairSpec == Spec /\ WF_vars(~PollsForEver /\ Driver)

-----------------------------------------------------------------------------
(***************************************************************************)
(* Properties.                                                             *)
(***************************************************************************)
\* The type of every variable; only the four modes of the table are tried.
TypeOK ==
  /\ at \in {"create", "hwInit", "hwInit2", "CMD0", "CMD1", "probe", "extCsd",
             "dataPoll", "deviceType", "hsSwitch", "hsPoll", "setIos",
             "setClock", "busSwitch", "busPoll", "end"} \cup DOMAIN After
  /\ {installed, media, powerUp} \subseteq BOOLEAN
  /\ cardType \in {"none", "EMMC"}
  /\ ioState \in {"none", "hwInit", "idle", "transfer"}
  /\ resp \in States
  /\ tries \in Nat /\ idx \in 0..4
  /\ deviceType \subseteq {"hs", "ddr"}
  /\ host \in [width : {1, 8}, ddr : BOOLEAN, khz : Nat]
  /\ card \in [state : States, bus : {"sdr1", "sdr8", "ddr8"}, hs : BOOLEAN]
  /\ faults \subseteq Faults

IsUp == at = "end" /\ installed

\* The interfaces stay installed only over a card that was identified, and
\* such a card is selected, although each of CMD2, CMD3, CMD9 and CMD7 may
\* have been lost unnoticed: reading EXT_CSD is what shows it.
UpMeansSelected ==
  IsUp => /\ media /\ cardType = "EMMC" /\ ioState = "transfer"
          /\ card.state \in {"tran", "data", "prg"}

\* Host and card end in different bus modes, or the clock stopped, only if
\* something was refused or lost on the way.  Once the bus was raised, only
\* the card's refusal of the mode it was switched to leads there: responses
\* and clock changes that were lost, and switches that failed, do not.
DisagreementHasCause ==
  IsUp =>
    /\ card.bus # HostBus \/ host.khz = 0 => faults # {}
    /\ idx # 0 /\ card.bus # HostBus => "refused" \in faults

\* The host does not change width or data rate of a bus on which the card
\* still signals programming, except when it could not find out: a switch
\* failed, an answer was lost, or the card exceeded the polls.
QuietBusChange ==
  [][host'.width # host.width \/ host'.ddr # host.ddr =>
       \/ at \in {"hwInit", "hwInit2"}
       \/ card.state # "prg"
       \/ faults \cap {"switch", "lost", "exhausted"} # {}]_vars


=============================================================================
