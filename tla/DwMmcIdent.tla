---------------------------- MODULE DwMmcIdent -----------------------------
(***************************************************************************)
(* Identification of the card in the DesignWare slot: DriverBindingStart   *)
(* and EnumerateDevice of DwMmcHcDxe reset the host and try the routines   *)
(* of mCardTypeDetectRoutineTable, EmmcIdentification (steps "e...") and   *)
(* then SdCardIdentification ("s..."), over PassThru.                      *)
(*                                                                         *)
(* What is hard: state outlives the card it was meant for.  Slot.CardType, *)
(* left by the card before, chooses the code that executes the commands,   *)
(* and host and card change their bus mode in separate steps.              *)
(***************************************************************************)
EXTENDS Naturals

CONSTANTS
  Capabilities,  \* what GetCapability may report, records of Capability
  MaxOcr,        \* CMD1 until the card is powered up (100)
  MaxCards       \* bound on the cards put into the slot

CardTypes == {"emmc", "sd"}

\* The fields of DW_MMC_HC_SLOT_CAP that are looked at; s18 says that 1.8 V
\* is the only voltage, which makes S18r TRUE.
Capability ==
  [removable : BOOLEAN, cardType : CardTypes, width : {1, 4, 8},
   highSpeed : BOOLEAN, ddr50 : BOOLEAN, sdr50 : BOOLEAN, sdr104 : BOOLEAN,
   s18 : BOOLEAN, baseKHz : Nat]

\* Every clock asked for has a divisor of eight bits, and a slot with one data
\* line is not declared to have a double data rate.
ASSUME CapabilitiesAssumption ==
  /\ Capabilities \subseteq Capability
  /\ \A c \in Capabilities :
       /\ c.baseKHz \in Nat \ {0} /\ c.baseKHz <= 204000
       /\ c.ddr50 => c.width # 1

ASSUME BoundsAssumption == MaxOcr \in Nat \ {0} /\ MaxCards \in Nat \ {0}

VARIABLES
  at,        \* where the thread is
  cap,       \* Private->Capability[0]
  slot,      \* MediaPresent, CardType and Initialized of Private->Slot[0]
  mode,      \* the timing chosen: ClockFreq, HsTiming, AccessMode
  sd,        \* SdVersion1, and whether Rca is the card's address
  tries,     \* CMD1 sent so far
  host,      \* CTYPE, UHSREG and the card clock
  card,      \* the card in the slot
  inserted,  \* cards so far
  lost,      \* ghost: a command or its answer was lost since the host reset
  result     \* ghost: how the last run of the routines ended

vars == <<at, cap, slot, mode, sd, tries, host, card, inserted, lost, result>>

SdCards == {"sd1", "sd2", "sdhc"}    \* version 1, version 2, high capacity
Kinds == SdCards \cup {"emmc"}
TypeOf(kind) == IF kind = "emmc" THEN "emmc" ELSE "sd"
States == {"idle", "ready", "ident", "stby", "tran", "prg"}
EmmcModes == {"hs26", "hs52", "ddr52", "hs200"}
SdModes == {"hs", "sdr50", "ddr50", "sdr104"}

\* error: the status shows an error; refused (ghost): a switch was refused.
NoCard ==
  [kind |-> "none", offers |-> {}, state |-> "idle", up |-> FALSE,
   sawCmd8 |-> FALSE, width |-> 1, ddr |-> FALSE, timing |-> "default",
   error |-> FALSE, refused |-> FALSE]

\* Devices advertise the modes below the one they reach; UHS modes are
\* advertised by cards that have the high-speed one.
Offers(kind) ==
  CASE kind = "emmc" -> {{}, {"hs26"}, {"hs26", "hs52"},
                         {"hs26", "hs52", "ddr52"}, EmmcModes}
    [] kind = "sd1" -> {{}}
    [] OTHER -> {{}, {"hs"}, SdModes}

FreshCards ==
  UNION {{[NoCard EXCEPT !.kind = k, !.offers = o] : o \in Offers(k)} : k \in Kinds}

(***************************************************************************)
(* The host: ClockSupply, SetBusWidth and Reset.                           *)
(***************************************************************************)
Divisor(khz) ==
  IF khz >= cap.baseKHz THEN 0
  ELSE CHOOSE d \in 1..255 : /\ cap.baseKHz <= 2 * d * khz
                             /\ \A e \in 1..(d - 1) : cap.baseKHz > 2 * e * khz

\* StopClock and UpdateClock are repeated until the controller takes them.
ClockSupply(h, khz) ==
  [h EXCEPT !.khz = IF Divisor(khz) = 0 THEN cap.baseKHz
                    ELSE cap.baseKHz \div (2 * Divisor(khz))]

SetBusWidthWithoutUhsreg(h, ddr, width) ==  \* the data rate is not set
  [h EXCEPT !.width = width]

SetBusWidth(h, ddr, width) == [h EXCEPT !.width = width, !.ddr = ddr]

ResetKeepsBus == ClockSupply(host, 400)  \* CTYPE and UHSREG are not reset

\* InitClockFreq, then SetBusWidth (FALSE, 1).
Reset == SetBusWidth(ClockSupply(host, 400), FALSE, 1)

(***************************************************************************)
(* The card: the states a command is obeyed in, and what it does.          *)
(***************************************************************************)
Legal ==
  [CMD0 |-> States, CMD1 |-> {"idle"}, CMD8 |-> {"idle"}, ACMD41 |-> {"idle"},
   CMD2 |-> {"ready"}, CMD3 |-> {"ident"}, CMD9 |-> {"stby"},
   CMD7 |-> {"stby"}, CMD13 |-> {"stby", "tran", "prg"},
   EXT_CSD |-> {"tran"}, SWITCH |-> {"tran"}, ACMD51 |-> {"tran"},
   ACMD6 |-> {"tran"}, CMD6 |-> {"tran"}]

KindsOf(cmd) ==
  CASE cmd \in {"CMD1", "EXT_CSD", "SWITCH"} -> {"emmc"}
    [] cmd \in {"CMD8", "CMD6"} -> {"sd2", "sdhc"}
    [] cmd \in {"ACMD41", "ACMD51", "ACMD6"} -> SdCards
    [] OTHER -> Kinds

Addressed == {"CMD9", "CMD7", "CMD13", "ACMD51", "ACMD6"}
Reads == {"EXT_CSD", "ACMD51", "CMD6"}

BusAgrees == card.width = host.width /\ card.ddr = host.ddr

\* The card obeys, and the block it may send can be received.
Reaches(cmd) ==
  /\ card.kind \in KindsOf(cmd) /\ card.state \in Legal[cmd]
  /\ cmd \in Addressed /\ card.kind \in SdCards => sd.rca
  /\ cmd \in Reads => BusAgrees

Moved(to) == [card EXCEPT !.state = to]
Idle == [NoCard EXCEPT !.kind = card.kind, !.offers = card.offers,
                       !.refused = card.refused]
PoweredUp == IF card.up THEN Moved("ready") ELSE card

\* A switch is taken, or refused: then the next status shows an error.
Switched(taken, c) ==
  IF taken THEN c ELSE [card EXCEPT !.error = TRUE, !.refused = TRUE]
StatusRead == [card EXCEPT !.error = FALSE]

(***************************************************************************)
(* PassThru: how one command goes.  "silent": no card is meant or MediaPre-*)
(* sent is FALSE; "unheard", "garbled": the command or its answer is lost. *)
(***************************************************************************)
Outcomes == {"answered", "silent", "unheard", "garbled"}

\* The responses DwEmmcExecTrb and DwSdExecTrb ask the controller for.  For
\* others the command succeeds unanswered and Resp0 stays 0.
EmmcExecReads == {"R1", "R1b", "R2", "R3"}
SdExecReads == EmmcExecReads \cup {"R6", "R7"}

\* DwMmcExecTrb: the slot's CardType chooses, not the routine.
Expects(resp) ==
  resp \in IF slot.cardType = "emmc" THEN EmmcExecReads ELSE SdExecReads

Ok(resp, o) == slot.media /\ (Expects(resp) => o = "answered")

SendWithoutBusyWait(cmd, o, c) ==  \* DATA_BUSY is not waited for
  /\ o = "silent" <=> ~(slot.media /\ Reaches(cmd))
  /\ card' = IF o \in {"answered", "garbled"} THEN c ELSE card
  /\ lost' = (lost \/ o \in {"unheard", "garbled"})

\* Either ExecTrb first waits for DATA_BUSY to clear.
Send(cmd, o, c) ==
  /\ card.state # "prg"
  /\ o = "silent" <=> ~(slot.media /\ Reaches(cmd))
  /\ card' = IF o \in {"answered", "garbled"} THEN c ELSE card
  /\ lost' = (lost \/ o \in {"unheard", "garbled"})

\* The commands of EmmcDevice.c.
EmmcReset(o) == Send("CMD0", o, Idle)
EmmcGetOcr(o) == Send("CMD1", o, PoweredUp)
EmmcGetAllCid(o) == Send("CMD2", o, Moved("ident"))
EmmcSetRca(o) == Send("CMD3", o, Moved("stby"))
EmmcGetCsd(o) == Send("CMD9", o, card)
EmmcSelect(o) == Send("CMD7", o, Moved("tran"))
EmmcGetExtCsd(o) == Send("EXT_CSD", o, card)
EmmcSwitch(o, c) == Send("SWITCH", o, [c EXCEPT !.state = "prg"])
EmmcSendStatus(o) == Send("CMD13", o, StatusRead)

\* The commands of SdDevice.c, CMD55 included: ACMDs fail if either does.
SdCardReset(o) == Send("CMD0", o, Idle)
SdCardVoltageCheck(o) == Send("CMD8", o, [card EXCEPT !.sawCmd8 = TRUE])
SdCardSendOpCond(o, c) == Send("ACMD41", o, c)
SdCardAllSendCid(o) == Send("CMD2", o, Moved("ident"))
SdCardSetRca(o) == Send("CMD3", o, Moved("stby"))
SdCardGetCsd(o) == Send("CMD9", o, card)
SdCardSelect(o) == Send("CMD7", o, Moved("tran"))
SdCardGetScr(o) == Send("ACMD51", o, card)
SdCardSetBusWidth(o, c) == Send("ACMD6", o, c)
SdCardSendStatus(o) == Send("CMD13", o, StatusRead)
SdCardSwitch(o, c) == Send("CMD6", o, c)

(***************************************************************************)
(* The loop over the routines.                                             *)
(***************************************************************************)
EmmcSteps == {"eReset", "eOcr", "eCid", "eRca", "eCsd", "eSelect", "eTran",
              "eWidth1", "eWidth1Set", "eExtCsd", "eTiming", "eTimingCheck",
              "eWidth", "eWidthSet", "eFinal"}
SdSteps == {"sReset", "sVoltage", "sInquiry", "sOcr", "sCid", "sRca", "sCsd",
            "sSelect", "sScr", "sWidth", "sWidthSet", "sInquireMode",
            "sSetMode", "sVersion1"}

\* A routine that fails gives way to the next one.
GoOn(ok, next) ==
  IF ok THEN at' = next /\ UNCHANGED result
  ELSE IF at \in EmmcSteps THEN at' = "sReset" /\ UNCHANGED result
  ELSE at' = "idle" /\ result' = "failed"

Identified == at' = "idle" /\ result' = "identified"

ResetHost ==
  /\ card.state # "prg"
  /\ host' = Reset
  /\ at' = "eReset"
  /\ tries' = 0 /\ lost' = FALSE /\ result' = "none"

\* DriverBindingStart: the routines run whether or not a card was detected.
\* InitHost may time out; in an embedded slot CardDetect returns TRUE.
Start(ok) ==
  /\ at = "boot"
  /\ slot' = [slot EXCEPT !.media = card.kind # "none" \/ ~cap.removable,
                          !.cardType = cap.cardType]
  /\ IF ok THEN ResetHost
     ELSE at' = "stopped" /\ UNCHANGED <<tries, host, lost, result>>
  /\ UNCHANGED <<cap, mode, sd, card, inserted>>

\* EnumerateDevice, every 100 ms.  When InitHost times out MediaPresent stays
\* FALSE and nothing is lost; CardType and Initialized stay what they were.
EnumRemoval ==
  /\ at = "idle" /\ cap.removable
  /\ slot.media /\ card.kind = "none"
  /\ slot' = [slot EXCEPT !.media = FALSE]
  /\ result' = "none"
  /\ UNCHANGED <<at, cap, mode, sd, tries, host, card, inserted, lost>>

EnumInsertion ==
  /\ at = "idle" /\ cap.removable
  /\ ~slot.media /\ card.kind # "none"
  /\ ResetHost
  /\ slot' = [slot EXCEPT !.media = TRUE]
  /\ UNCHANGED <<cap, mode, sd, card, inserted>>

(***************************************************************************)
(* EmmcIdentification.                                                     *)
(***************************************************************************)
EmmcPlainSkipsSelect(o) ==  \* the card is not selected
  /\ \/ at = "eReset" /\ EmmcReset(o) /\ GoOn(Ok("none", o), "eOcr")
     \/ at = "eCid" /\ EmmcGetAllCid(o) /\ GoOn(Ok("R2", o), "eRca")
     \/ at = "eCsd" /\ EmmcGetCsd(o) /\ GoOn(Ok("R2", o), "eTran")
  /\ UNCHANGED <<cap, slot, mode, sd, tries, host, inserted>>

EmmcPlain(o) ==
  /\ \/ at = "eReset" /\ EmmcReset(o) /\ GoOn(Ok("none", o), "eOcr")
     \/ at = "eCid" /\ EmmcGetAllCid(o) /\ GoOn(Ok("R2", o), "eRca")
     \/ at = "eCsd" /\ EmmcGetCsd(o) /\ GoOn(Ok("R2", o), "eSelect")
     \/ at = "eSelect" /\ EmmcSelect(o) /\ GoOn(Ok("R1", o), "eTran")
  /\ UNCHANGED <<cap, slot, mode, sd, tries, host, inserted>>

EmmcOcrUnlimited(o) ==  \* the tries are not limited
  /\ at = "eOcr"
  /\ EmmcGetOcr(o)
  /\ tries' = IF Ok("R3", o) THEN tries + 1 ELSE tries
  /\ IF Ok("R3", o) /\ ~card.up
       THEN UNCHANGED <<at, result>>
       ELSE GoOn(Ok("R3", o), "eCid")
  /\ UNCHANGED <<cap, slot, mode, sd, host, inserted>>

\* The MaxOcr-th answer fails, even if it says that the card is powered up.
EmmcOcr(o) ==
  /\ at = "eOcr"
  /\ EmmcGetOcr(o)
  /\ tries' = IF Ok("R3", o) THEN tries + 1 ELSE tries
  /\ IF tries' < MaxOcr /\ Ok("R3", o) /\ ~card.up
       THEN UNCHANGED <<at, result>>
       ELSE GoOn(tries' < MaxOcr /\ Ok("R3", o), "eCid")
  /\ UNCHANGED <<cap, slot, mode, sd, host, inserted>>

\* From here on the slot holds an eMMC, also when the routine fails.
EmmcFound(o) ==
  /\ at = "eRca"
  /\ EmmcSetRca(o)
  /\ GoOn(Ok("R1", o), "eCsd")
  /\ slot' = IF Ok("R1", o) THEN [slot EXCEPT !.cardType = "emmc"] ELSE slot
  /\ UNCHANGED <<cap, mode, sd, tries, host, inserted>>

\* EmmcSetBusMode waits for the transfer state.
EmmcTran(o) ==
  /\ at = "eTran"
  /\ EmmcSendStatus(o)
  /\ IF Ok("R1", o) /\ card.state # "tran" THEN UNCHANGED <<at, result>>
     ELSE GoOn(Ok("R1", o), "eWidth1")
  /\ UNCHANGED <<cap, slot, mode, sd, tries, host, inserted>>

\* EmmcSwitchBusWidth, first to one bit and at the end to the slot's width.
\* Its poll masks DevStatus with 0xf, where the status has no state: it ends
\* at once.  DATA_BUSY is what the end of the switch is waited for with.
Width == IF at \in {"eWidth1", "eWidth1Set"} THEN 1 ELSE cap.width
Ddr == at \in {"eWidth", "eWidthSet"} /\ mode = "ddr52"

EmmcSwitchWidth(o, taken) ==
  /\ at \in {"eWidth1", "eWidth"}
  /\ EmmcSwitch(o, Switched(taken, [card EXCEPT !.width = Width,
                                                !.ddr = Ddr /\ Width # 1]))
  /\ GoOn(Ok("R1b", o), IF at = "eWidth1" THEN "eWidth1Set" ELSE "eWidthSet")
  /\ UNCHANGED <<cap, slot, mode, sd, tries, host, inserted>>

EmmcSetWidth(o) ==
  /\ at \in {"eWidth1Set", "eWidthSet"}
  /\ EmmcSendStatus(o)
  /\ host' = IF Ok("R1", o) THEN SetBusWidth(host, Ddr, Width) ELSE host
  /\ GoOn(Ok("R1", o), IF at = "eWidth1Set" THEN "eExtCsd" ELSE "eFinal")
  /\ UNCHANGED <<cap, slot, mode, sd, tries, inserted>>

\* The best timing both sides have; for HS200 nothing is done.
EmmcTiming ==
  IF "hs200" \in card.offers /\ cap.sdr104 THEN "hs200"
  ELSE IF "ddr52" \in card.offers /\ cap.ddr50 THEN "ddr52"
  ELSE IF "hs52" \in card.offers /\ cap.highSpeed THEN "hs52"
  ELSE IF "hs26" \in card.offers /\ cap.highSpeed THEN "hs26"
  ELSE "default"

EmmcReadExtCsd(o) ==
  /\ at = "eExtCsd"
  /\ EmmcGetExtCsd(o)
  /\ mode' = IF Ok("R1", o) THEN EmmcTiming ELSE mode
  /\ GoOn(Ok("R1", o),
          IF mode' \in {"default", "hs200"} THEN "eFinal" ELSE "eTiming")
  /\ UNCHANGED <<cap, slot, sd, tries, host, inserted>>

\* The response arrived and the data do not: CheckTrbResult polls IDSTS with
\* no bound.
EmmcDataMissing ==
  /\ at = "eExtCsd"
  /\ card.kind = "emmc" /\ card.state = "tran"
  /\ at' = "spin" /\ lost' = TRUE
  /\ UNCHANGED <<cap, slot, mode, sd, tries, host, card, inserted, result>>

\* EmmcSwitchToHighSpeed: HS_TIMING and the clock, then the bus width.
EmmcSwitchTiming(o, taken) ==
  /\ at = "eTiming"
  /\ EmmcSwitch(o, Switched(taken, [card EXCEPT !.timing = "hs"]))
  /\ GoOn(Ok("R1b", o), "eTimingCheck")
  /\ UNCHANGED <<cap, slot, mode, sd, tries, host, inserted>>

EmmcSwitchClockUnchecked(o) ==  \* SWITCH_ERROR is not looked at
  /\ at = "eTimingCheck"
  /\ EmmcSendStatus(o)
  /\ host' = IF Ok("R1", o)
               THEN ClockSupply(host, IF mode = "hs26" THEN 26000 ELSE 52000)
               ELSE host
  /\ GoOn(Ok("R1", o), "eWidth")
  /\ UNCHANGED <<cap, slot, mode, sd, tries, inserted>>

EmmcSwitchClock(o) ==
  /\ at = "eTimingCheck"
  /\ EmmcSendStatus(o)
  /\ LET ok == Ok("R1", o) /\ ~card.error
     IN  /\ host' = IF ok
                      THEN ClockSupply(host, IF mode = "hs26" THEN 26000
                                                              ELSE 52000)
                      ELSE host
         /\ GoOn(ok, "eWidth")
  /\ UNCHANGED <<cap, slot, mode, sd, tries, inserted>>

EmmcFinal(o) ==
  /\ at = "eFinal"
  /\ EmmcSendStatus(o)
  /\ IF Ok("R1", o) THEN Identified ELSE GoOn(FALSE, "idle")
  /\ UNCHANGED <<cap, slot, mode, sd, tries, host, inserted>>

(***************************************************************************)
(* SdCardIdentification.                                                   *)
(***************************************************************************)
SdPlain(o) ==
  /\ \/ at = "sReset" /\ SdCardReset(o) /\ GoOn(Ok("none", o), "sVoltage")
     \/ at = "sInquiry" /\ SdCardSendOpCond(o, card)
          /\ GoOn(Ok("R3", o), "sOcr")
     \/ at = "sCid" /\ SdCardAllSendCid(o) /\ GoOn(Ok("R2", o), "sRca")
     \/ at = "sCsd" /\ SdCardGetCsd(o) /\ GoOn(Ok("R2", o), "sSelect")
     \/ at = "sSelect" /\ SdCardSelect(o) /\ GoOn(Ok("R1b", o), "sScr")
  /\ UNCHANGED <<cap, slot, mode, sd, tries, host, inserted>>

\* CMD8: whatever goes wrong makes the card a version 1 card; so does an echo
\* that is not read.
SdVoltage(o) ==
  /\ at = "sVoltage"
  /\ SdCardVoltageCheck(o)
  /\ sd' = [sd EXCEPT !.v1 = ~(Ok("R7", o) /\ Expects("R7"))]
  /\ at' = "sInquiry"
  /\ UNCHANGED <<cap, slot, mode, tries, host, inserted, result>>

\* ACMD41 until the card is powered up, with no bound.
SdOcr(o) ==
  /\ at = "sOcr"
  /\ SdCardSendOpCond(o, PoweredUp)
  /\ IF Ok("R3", o) /\ ~card.up THEN UNCHANGED <<at, result>>
     ELSE GoOn(Ok("R3", o), "sCid")
  /\ UNCHANGED <<cap, slot, mode, sd, tries, host, inserted>>

\* CMD3: Rca is taken from Resp0, which is 0 if the response is not read.
SdRca(o) ==
  /\ at = "sRca"
  /\ SdCardSetRca(o)
  /\ sd' = [sd EXCEPT !.rca = Ok("R6", o) /\ Expects("R6")]
  /\ GoOn(Ok("R6", o), "sCsd")
  /\ UNCHANGED <<cap, slot, mode, tries, host, inserted>>

\* The card is an SD card; its widths are masked with the slot's, which must
\* be 1 or 4.
SdFound(o) ==
  /\ at = "sScr"
  /\ SdCardGetScr(o)
  /\ slot' = IF Ok("R1", o) THEN [slot EXCEPT !.cardType = "sd"] ELSE slot
  /\ GoOn(Ok("R1", o) /\ cap.width # 8, "sWidth")
  /\ UNCHANGED <<cap, mode, sd, tries, host, inserted>>

\* SdCardSwitchBusWidth; the host's data rate follows the slot's Ddr50.
SdSwitchWidth(o, taken) ==
  /\ at = "sWidth"
  /\ SdCardSetBusWidth(o, Switched(taken, [card EXCEPT !.width = cap.width]))
  /\ GoOn(Ok("R1", o), "sWidthSet")
  /\ UNCHANGED <<cap, slot, mode, sd, tries, host, inserted>>

SdSetWidth(o) ==
  /\ at = "sWidthSet"
  /\ SdCardSendStatus(o)
  /\ LET ok == Ok("R1", o) /\ ~card.error
     IN  /\ host' = IF ok THEN SetBusWidth(host, cap.ddr50, cap.width)
                          ELSE host
         /\ GoOn(ok, IF sd.v1 THEN "sVersion1" ELSE "sInquireMode")
  /\ UNCHANGED <<cap, slot, mode, sd, tries, inserted>>

\* The best access mode of SwitchResp.
AccessMode(offered) ==
  IF cap.s18 /\ cap.sdr104 /\ "sdr104" \in offered THEN "sdr104"
  ELSE IF cap.s18 /\ cap.sdr50 /\ "sdr50" \in offered THEN "sdr50"
  ELSE IF cap.s18 /\ cap.ddr50 /\ "ddr50" \in offered THEN "ddr50"
  ELSE IF "hs" \in offered THEN "hs"
  ELSE "default"

SdKHz(m) ==
  CASE m = "sdr104" -> 208000 [] m = "sdr50" -> 100000
    [] m \in {"ddr50", "hs"} -> 50000 [] OTHER -> 25000

SdInquireMode(o) ==
  /\ at = "sInquireMode"
  /\ SdCardSwitch(o, card)
  /\ mode' = IF Ok("R1", o) THEN AccessMode(card.offers) ELSE mode
  /\ GoOn(Ok("R1", o), "sSetMode")
  /\ UNCHANGED <<cap, slot, sd, tries, host, inserted>>

\* ClockSupply and Initialized, if SwitchResp echoes the mode asked for.
Finish(ok, m) ==
  /\ IF ok THEN Identified ELSE GoOn(FALSE, "idle")
  /\ host' = IF ok THEN ClockSupply(host, SdKHz(m)) ELSE host
  /\ slot' = IF ok THEN [slot EXCEPT !.initialized = TRUE] ELSE slot

SdSetMode(o, taken) ==
  /\ at = "sSetMode"
  /\ SdCardSwitch(o, IF taken THEN [card EXCEPT !.timing = mode,
                                                !.ddr = mode = "ddr50"]
                              ELSE [card EXCEPT !.refused = TRUE])
  /\ Finish(Ok("R1", o) /\ taken, mode)
  /\ UNCHANGED <<cap, mode, sd, tries, inserted>>

\* For a version 1 card SwitchResp was never written: any mode, any echo.
SdVersion1(offered, echoed) ==
  /\ at = "sVersion1"
  /\ card.state # "prg"
  /\ mode' = AccessMode(offered)
  /\ Finish(echoed, mode')
  /\ UNCHANGED <<cap, sd, tries, card, inserted, lost>>

(***************************************************************************)
(* The card on its own, and the user.                                      *)
(***************************************************************************)
\* A high-capacity card stays busy if it saw no CMD8.
PowerUp ==
  /\ card.kind # "none" /\ card.state = "idle" /\ ~card.up
  /\ card.kind = "sdhc" => card.sawCmd8
  /\ card' = [card EXCEPT !.up = TRUE]
  /\ UNCHANGED <<at, cap, slot, mode, sd, tries, host, inserted, lost, result>>

SwitchEnds ==
  /\ card.state = "prg"
  /\ card' = [card EXCEPT !.state = "tran"]
  /\ UNCHANGED <<at, cap, slot, mode, sd, tries, host, inserted, lost, result>>

\* A card is put in no sooner than the removal was noticed (100 ms).
Insert ==
  /\ cap.removable /\ card.kind = "none" /\ ~slot.media
  /\ inserted < MaxCards
  /\ card' \in FreshCards
  /\ inserted' = inserted + 1
  /\ UNCHANGED <<at, cap, slot, mode, sd, tries, host, lost, result>>

Remove ==
  /\ cap.removable /\ card.kind # "none"
  /\ card' = NoCard
  /\ UNCHANGED <<at, cap, slot, mode, sd, tries, host, inserted, lost, result>>

\* A soldered card may be in use by the boot loader.
Init ==
  /\ cap \in Capabilities
  /\ at = "boot" /\ mode = "default" /\ tries = 0
  /\ slot = [media |-> FALSE, cardType |-> "emmc", initialized |-> FALSE]
  /\ sd = [v1 |-> FALSE, rca |-> FALSE]
  /\ host = [width |-> 1, ddr |-> FALSE, khz |-> 0]
  /\ \E c \in FreshCards :
       card \in {c, [c EXCEPT !.state = "tran"]}
                 \cup (IF cap.removable THEN {NoCard} ELSE {})
  /\ inserted = 1 /\ lost = FALSE /\ result = "none"

Driver(o) ==
  \/ EmmcPlain(o) \/ EmmcOcr(o) \/ EmmcFound(o) \/ EmmcTran(o)
  \/ EmmcSetWidth(o) \/ EmmcReadExtCsd(o) \/ EmmcSwitchClock(o)
  \/ EmmcFinal(o)
  \/ SdPlain(o) \/ SdVoltage(o) \/ SdOcr(o) \/ SdRca(o) \/ SdFound(o)
  \/ SdSetWidth(o) \/ SdInquireMode(o)
  \/ \E taken \in BOOLEAN :
       \/ EmmcSwitchWidth(o, taken) \/ EmmcSwitchTiming(o, taken)
       \/ SdSwitchWidth(o, taken) \/ SdSetMode(o, taken)

Host ==
  \/ EnumRemoval \/ EnumInsertion
  \/ \E ok \in BOOLEAN : Start(ok)
  \/ \E offered \in {{}, {"hs"}, SdModes}, echoed \in BOOLEAN :
       SdVersion1(offered, echoed)

Next ==
  \/ Host \/ \E o \in Outcomes : Driver(o)
  \/ EmmcDataMissing \/ PowerUp \/ SwitchEnds \/ Insert \/ Remove

Spec == Init /\ [][Next]_vars

\* The thread runs on with the commands that are not lost, and cards get on.
FairSpec ==
  /\ Spec
  /\ WF_vars(Host \/ Driver("answered") \/ Driver("silent"))
  /\ WF_vars(PowerUp) /\ WF_vars(SwitchEnds)

-----------------------------------------------------------------------------
(***************************************************************************)
(* Properties.                                                             *)
(***************************************************************************)
\* The type of every variable; CMD1 is sent at most MaxOcr times.
TypeOK ==
  /\ at \in {"boot", "stopped", "idle", "spin"} \cup EmmcSteps \cup SdSteps
  /\ cap \in Capabilities
  /\ slot \in [media : BOOLEAN, cardType : CardTypes, initialized : BOOLEAN]
  /\ mode \in {"default"} \cup EmmcModes \cup SdModes
  /\ sd \in [v1 : BOOLEAN, rca : BOOLEAN]
  /\ tries \in 0..MaxOcr
  /\ host \in [width : {1, 4, 8}, ddr : BOOLEAN, khz : Nat]
  /\ card \in [kind : Kinds \cup {"none"},
               offers : SUBSET (EmmcModes \cup SdModes),
               state : States, up : BOOLEAN, sawCmd8 : BOOLEAN,
               width : {1, 4, 8}, ddr : BOOLEAN,
               timing : {"default"} \cup SdModes,
               error : BOOLEAN, refused : BOOLEAN]
  /\ inserted \in 1..MaxCards
  /\ {lost} \subseteq BOOLEAN
  /\ result \in {"none", "failed", "identified"}

\* When the routines end with success, the card is selected, CardType chooses
\* the code for that card, and both sides have the same bus; except that a
\* version 1 card in a slot with Ddr50, or an eMMC that refused a switch, may
\* be on another bus than the host.
IdentifiedMeansReady ==
  result = "identified" /\ card.kind # "none" =>
    /\ card.state = "tran"
    /\ slot.cardType = TypeOf(card.kind)
    /\ \/ BusAgrees
       \/ card.kind = "emmc" /\ card.refused
       \/ card.kind \in SdCards /\ cap.ddr50 /\ sd.v1

\* The fastest clock of the card's timing.
MaxKHz ==
  IF card.kind # "emmc" THEN SdKHz(card.timing)
  ELSE IF card.timing # "default" /\ card.offers \cap {"hs52", "ddr52"} # {}
    THEN 52000
  ELSE 26000

\* A selected card is never clocked faster than its timing allows, whatever
\* the cards before it, refusals and lost commands left behind; except for
\* version 1 cards, whose clock comes from the uninitialised SwitchResp.
ClockWithinTiming ==
  /\ card.state \in {"tran", "prg"}
  /\ ~(card.kind \in SdCards /\ sd.v1)
  => host.khz <= MaxKHz

\* A card that took every switch, and with which no command was lost, is not
\* identified only if it was too slow for CMD1, or it is an SD card in a slot
\* whose CardType is eMMC (from the platform, or from the card before), whose
\* bus is 8 bits or Ddr50, or for which SwitchResp was not initialised.
HealthyCardIdentified ==
  /\ result = "failed" /\ slot.media /\ ~lost
  /\ card.kind # "none" /\ ~card.refused
  => \/ tries = MaxOcr
     \/ /\ card.kind \in SdCards
        /\ slot.cardType = "emmc" \/ cap.width = 8 \/ cap.ddr50 \/ sd.v1

\* The host changes its bus and clock only while the card is not signalling
\* that it is busy, although the poll of EmmcSwitchBusWidth sees nothing.
QuietBusChange == [][host' # host => card.state # "prg"]_vars

\* Identification ends, whatever card is put in or taken out; except that it
\* hangs when the data of EXT_CSD do not arrive, and when a high-capacity card
\* missed CMD8 and stays busy through the unbounded loop of ACMD41.
IdentificationEnds ==
  at \in EmmcSteps \cup SdSteps ~>
    \/ at = "idle" \/ at = "spin"
    \/ at = "sOcr" /\ card.kind = "sdhc" /\ ~card.sawCmd8
=============================================================================
