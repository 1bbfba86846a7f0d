------------------------- MODULE DwMmcIdent_proofs -------------------------
(***************************************************************************)
(* Identification, for every capability of the slot and any number of      *)
(* cards: what is known of host and card at each step of the two routines, *)
(* although either may have been left behind by the card, or the routine,  *)
(* before.                                                                 *)
(***************************************************************************)
EXTENDS DwMmcIdent, Integers, TLAPS

\* The steps behind the one that tells an eMMC from an SD card.
EmmcOnly == EmmcSteps \ {"eReset", "eOcr"}
SdOnly == SdSteps \ {"sReset", "sVoltage", "sInquiry"}

\* Of these, the steps on a selected card, and those on the slot's bus.
EmmcSelected == EmmcOnly \ {"eCid", "eRca", "eCsd", "eSelect"}
SdOnBus == {"sInquireMode", "sSetMode", "sVersion1"}
SdSelected == {"sScr", "sWidth", "sWidthSet"} \cup SdOnBus

Selected == card.state \in {"tran", "prg"}

\* The host as Reset leaves it, and a card no switch was sent to.
HostReset == host.width = 1 /\ ~host.ddr /\ host.khz <= 400
Bare == card.width = 1 /\ ~card.ddr /\ card.timing = "default" /\ ~card.error

\* The thread: with no medium nothing is sent, so that nothing changes.
Thread ==
  /\ card.kind = "none" => card = NoCard
  /\ at # "idle" => result = "none"
  /\ result = "identified" => slot.media
  /\ at \in EmmcOnly \cup (SdSteps \ {"sReset"}) => slot.media
  /\ at = "boot" => HostReset
  /\ at = "boot" \/ ~slot.media => Bare
  /\ at # "boot" /\ ~slot.media => card.state = "idle"
  /\ at = "sReset" /\ ~slot.media => HostReset
  /\ at \in {"eReset", "eOcr"} => HostReset /\ Bare /\ tries < MaxOcr

\* What is known of a card during EmmcIdentification, and of the host.
EmmcCard ==
  at \in EmmcOnly /\ card.kind # "none" =>
    /\ card.kind = "emmc"
    /\ at = "eCid" => card.state = "ready"
    /\ at = "eRca" => card.state = "ident"
    /\ at \in {"eCsd", "eSelect"} => card.state = "stby"
    /\ at \in EmmcSelected => Selected
    /\ at \in EmmcOnly \ {"eCid", "eRca"} => slot.cardType = "emmc"
    /\ at = "eTimingCheck" => card.error \/ card.timing # "default"
    /\ at \in {"eTiming", "eTimingCheck"} /\ mode # "hs26" =>
         card.offers \cap {"hs52", "ddr52"} # {}
    /\ at \notin {"eWidthSet", "eFinal"} /\ ~card.refused => card.width = 1 /\ ~card.ddr
    /\ at = "eWidthSet" /\ ~card.refused =>
         card.width = cap.width /\ card.ddr = (mode = "ddr52")
    /\ at = "eFinal" /\ ~card.refused => BusAgrees

EmmcHost ==
  /\ at \in EmmcOnly \ {"eFinal", "eWidth", "eWidthSet"} => HostReset
  /\ at \in {"eWidth", "eWidthSet"} => host.width = 1 /\ ~host.ddr
  /\ at \in {"eTiming", "eTimingCheck", "eWidth", "eWidthSet"} /\ mode = "ddr52" =>
       cap.ddr50

\* What is known of an SD card during SdCardIdentification, and of the host.
SdCard ==
  at \in SdSteps /\ card.kind \in SdCards =>
    /\ host.khz <= 400 /\ ~card.ddr /\ card.timing = "default"
    /\ at \notin SdOnBus => HostReset
    /\ at \notin SdOnBus \cup {"sWidthSet"} => Bare
    /\ at = "sCid" => card.state = "ready"
    /\ at = "sRca" => card.state = "ident"
    /\ at = "sCsd" /\ sd.rca => card.state = "stby" /\ slot.cardType = "sd"
    /\ at = "sSelect" => card.state = "stby"
    /\ at \in SdSelected => Selected
    /\ at \in SdSelected \cup {"sSelect"} => slot.cardType = "sd" /\ sd.rca
    /\ at \in SdOnBus \cup {"sWidthSet"} => card.error \/ card.width = cap.width
    /\ at \in SdOnBus =>
         ~card.error /\ host.width = cap.width /\ host.ddr = cap.ddr50
    /\ at = "sSetMode" => ~cap.ddr50 /\ mode # "ddr50"

SdPlace ==
  /\ at \in SdOnly => card.kind \in SdCards \cup {"none"}
  /\ at = "sVersion1" => sd.v1
  /\ at \in {"sInquireMode", "sSetMode"} => ~sd.v1
  /\ at = "sSetMode" => mode \in {"default"} \cup SdModes

IInv ==
  /\ TypeOK /\ Thread /\ EmmcCard /\ EmmcHost /\ SdCard /\ SdPlace
  /\ ClockWithinTiming /\ IdentifiedMeansReady

\* A card that took every switch and with which no command was lost: no
\* command to it stays silent, so that only the named causes are left.
Fit == slot.media /\ ~lost /\ card.kind # "none" /\ ~card.refused

FitCard ==
  Fit =>
    /\ at = "eOcr" => card.state = "idle"
    /\ at \in EmmcOnly => ~card.error
    /\ at \in SdSteps /\ card.kind = "emmc" => tries = MaxOcr
    /\ at \in SdSteps /\ card.kind \in SdCards =>
         /\ at \in {"sVoltage", "sInquiry", "sOcr"} => card.state = "idle"
         /\ at = "sCsd" /\ slot.cardType = "sd" => sd.rca
         /\ at \notin {"sReset", "sVoltage"} /\ card.kind = "sd1"
              /\ slot.cardType = "sd" => sd.v1
         /\ ~card.error
         /\ at \in SdSelected \ {"sScr"} => cap.width # 8

FitInv == IInv /\ FitCard /\ HealthyCardIdentified

Places == {"boot", "stopped", "idle", "spin"} \cup EmmcSteps \cup SdSteps

CardRec ==
  [kind : Kinds \cup {"none"}, offers : SUBSET (EmmcModes \cup SdModes),
   state : States, up : BOOLEAN, sawCmd8 : BOOLEAN,
   width : {1, 4, 8}, ddr : BOOLEAN, timing : {"default"} \cup SdModes,
   error : BOOLEAN, refused : BOOLEAN]

\* The type invariant, with the type of the card named.
LEMMA TypesAre ==
  TypeOK <=>
    /\ at \in Places /\ cap \in Capabilities
    /\ slot \in [media : BOOLEAN, cardType : CardTypes, initialized : BOOLEAN]
    /\ mode \in {"default"} \cup EmmcModes \cup SdModes
    /\ sd \in [v1 : BOOLEAN, rca : BOOLEAN]
    /\ tries \in 0..MaxOcr
    /\ host \in [width : {1, 4, 8}, ddr : BOOLEAN, khz : Nat]
    /\ card \in CardRec
    /\ inserted \in 1..MaxCards /\ lost \in BOOLEAN
    /\ result \in {"none", "failed", "identified"}
BY DEF TypeOK, Places, CardRec

(***************************************************************************)
(* The clock.                                                              *)
(***************************************************************************)
\* A quotient rounded down is no more than a bound on the dividend allows.
LEMMA DivideDown ==
  ASSUME NEW a \in Nat, NEW m \in Nat \ {0}, NEW k \in Nat, a <= m * k
  PROVE  a \div m \in Nat /\ a \div m <= k
<1> DEFINE q == a \div m
<1>1. q \in Int /\ m * q <= a /\ a < m * q + m
  OBVIOUS
<1>2. q >= 0
  BY <1>1
<1>3. m * q <= m * k
  BY <1>1
<1> HIDE DEF q
<1>4. q <= k
  <2> SUFFICES ASSUME q >= k + 1 PROVE FALSE
    BY <1>1
  <2>1. m * q >= m * (k + 1)
    BY <1>1, <1>2
  <2>2. m * (k + 1) = m * k + m
    OBVIOUS
  <2> QED
    BY <1>1, <1>3, <2>1, <2>2
<1> QED
  BY <1>1, <1>2, <1>4 DEF q

\* ClockSupply (DwMmcHci.c:291-375) never gives more than it is asked for.
LEMMA ClockHolds ==
  ASSUME cap \in Capabilities, NEW h \in [width : {1, 4, 8}, ddr : BOOLEAN,
         khz : Nat],
         NEW k \in Nat, k >= 400
  PROVE  /\ ClockSupply(h, k) \in [width : {1, 4, 8}, ddr : BOOLEAN, khz : Nat]
         /\ ClockSupply(h, k).width = h.width /\ ClockSupply(h, k).ddr = h.ddr
         /\ ClockSupply(h, k).khz <= k
<1> DEFINE b == cap.baseKHz
           m == 2 * k
           d == (b + m - 1) \div m
           Fits(e) == /\ b <= 2 * e * k
                      /\ \A f \in 1..(e - 1) : b > 2 * f * k
<1>1. b \in Nat /\ 1 <= b /\ b <= 204000 /\ m \in Nat /\ m >= 800
  BY CapabilitiesAssumption
<1> HIDE DEF b
<1>2. CASE k >= b
  <2>1. Divisor(k) = 0
    BY <1>2 DEF Divisor, b
  <2> QED
    BY <1>1, <1>2, <2>1 DEF ClockSupply, b
<1>3. CASE k < b
  <2> HIDE DEF m
  <2>1. d \in Int /\ m * d <= b + m - 1 /\ b + m - 1 < m * d + m
    BY <1>1
  <2> HIDE DEF d
  <2>2. d >= 1
    <3> SUFFICES ASSUME d <= 0 PROVE FALSE
      BY <2>1
    <3>1. m * d <= 0
      BY <1>1, <2>1
    <3> QED
      BY <1>1, <2>1, <3>1
  <2>3. d <= 255
    <3> SUFFICES ASSUME d >= 256 PROVE FALSE
      BY <2>1
    <3>1. m * d >= m * 256
      BY <1>1, <2>1
    <3> QED
      BY <1>1, <2>1, <3>1
  <2>4. \A f \in Int : 2 * f * k = m * f
    BY DEF m
  <2>5. Fits(d)
    <3>1. \A f \in 1..(d - 1) : b > m * f
      <4> SUFFICES ASSUME NEW f \in 1..(d - 1) PROVE b > m * f
        OBVIOUS
      <4>1. f \in Int /\ f <= d - 1
        BY <2>1
      <4>2. m * f <= m * (d - 1)
        BY <1>1, <2>1, <4>1
      <4>3. m * (d - 1) = m * d - m
        BY <1>1, <2>1
      <4> QED
        BY <1>1, <2>1, <4>1, <4>2, <4>3
    <3>2. \A f \in 1..(d - 1) : f \in Int
      BY <2>1
    <3> QED
      BY <1>1, <2>1, <2>4, <3>1, <3>2
  <2>6. Divisor(k) \in 1..255 /\ Fits(Divisor(k))
    <3>1. Divisor(k) = CHOOSE e \in 1..255 : Fits(e)
      <4>1. ~(k >= b)
        BY <1>1, <1>3
      <4> QED
        BY <4>1, Zenon DEF Divisor, b
    <3>2. d \in 1..255
      BY <2>1, <2>2, <2>3
    <3> HIDE DEF Fits
    <3> QED
      BY <2>5, <3>1, <3>2
  <2> DEFINE v == Divisor(k)
  <2>7. v \in Nat /\ v > 0 /\ b <= (2 * v) * k
    BY <2>6
  <2>8. b \div (2 * v) \in Nat /\ b \div (2 * v) <= k
    <3> HIDE DEF v
    <3> QED
      BY <1>1, <2>7, DivideDown
  <2>9. ClockSupply(h, k) = [h EXCEPT !.khz = b \div (2 * v)]
    BY <2>7 DEF ClockSupply, b
  <2> QED
    BY <2>8, <2>9
<1> QED
  BY <1>1, <1>2, <1>3

\* Every timing stands at least the 25 MHz of the default one.
LEMMA MaxKHzHolds ==
  ASSUME TypeOK
  PROVE  /\ MaxKHz \in Nat /\ MaxKHz >= 25000
         /\ card.kind = "emmc" /\ card.timing # "default" =>
              /\ MaxKHz >= 26000
              /\ card.offers \cap {"hs52", "ddr52"} # {} => MaxKHz = 52000
         /\ card.kind \in SdCards => MaxKHz = SdKHz(card.timing)
BY DEF MaxKHz, SdKHz, SdCards

\* Every SD access mode runs at 25 MHz or more (SdCardSetBusMode).
LEMMA SdKHzHolds == \A m : SdKHz(m) \in Nat /\ SdKHz(m) >= 25000
BY DEF SdKHz

\* Reset (DwMmcHcDxe.c:1312-1356) leaves one data line, no DDR, 400 kHz.
LEMMA ResetHolds ==
  ASSUME TypeOK
  PROVE  /\ Reset \in [width : {1, 4, 8}, ddr : BOOLEAN, khz : Nat]
         /\ Reset.width = 1 /\ Reset.ddr = FALSE /\ Reset.khz <= 400
<1>1. ClockSupply(host, 400) \in [width : {1, 4, 8}, ddr : BOOLEAN, khz : Nat]
      /\ ClockSupply(host, 400).khz <= 400
  BY ClockHolds, TypesAre
<1> QED
  BY <1>1 DEF Reset, SetBusWidth

(***************************************************************************)
(* One command.                                                            *)
(***************************************************************************)
\* What the routine sees of a command, by the response it asks for.
LEMMA OkHolds ==
  ASSUME TypeOK, NEW o \in Outcomes
  PROVE  /\ \A r \in EmmcExecReads : Ok(r, o) <=> slot.media /\ o = "answered"
         /\ Ok("none", o) <=> slot.media
         /\ \A r \in {"R6", "R7"} :
              /\ Expects(r) <=> slot.cardType = "sd"
              /\ Ok(r, o) <=> slot.media /\ (slot.cardType = "sd" => o = "answered")
<1>1. slot.cardType \in {"emmc", "sd"}
  BY TypesAre DEF CardTypes
<1> QED
  BY <1>1 DEF Ok, Expects, EmmcExecReads, SdExecReads

\* The card behind each command that changes it.
WidthSwitched(taken) ==
  [Switched(taken, [card EXCEPT !.width = Width, !.ddr = Ddr /\ Width # 1])
     EXCEPT !.state = "prg"]
TimingSwitched(taken) ==
  [Switched(taken, [card EXCEPT !.timing = "hs"]) EXCEPT !.state = "prg"]
SdWidthSwitched(taken) == Switched(taken, [card EXCEPT !.width = cap.width])
ModeTaken(taken) ==
  IF taken THEN [card EXCEPT !.timing = mode, !.ddr = mode = "ddr50"]
           ELSE [card EXCEPT !.refused = TRUE]

\* A command with the card's address is for the card.
CardIsAddressed == card.kind # "none" /\ (card.kind \in SdCards => sd.rca)

\* Which card obeys a command, and when.
LEMMA ReachesHolds ==
  ASSUME TypeOK
  PROVE  /\ Reaches("CMD0") <=> card.kind # "none"
         /\ Reaches("CMD1") <=> card.kind = "emmc" /\ card.state = "idle"
         /\ Reaches("CMD8") <=> card.kind \in {"sd2", "sdhc"} /\ card.state = "idle"
         /\ Reaches("ACMD41") <=> card.kind \in SdCards /\ card.state = "idle"
         /\ Reaches("CMD2") <=> card.kind # "none" /\ card.state = "ready"
         /\ Reaches("CMD3") <=> card.kind # "none" /\ card.state = "ident"
         /\ Reaches("CMD9") <=> CardIsAddressed /\ card.state = "stby"
         /\ Reaches("CMD7") <=> CardIsAddressed /\ card.state = "stby"
         /\ Reaches("CMD13") <=>
              CardIsAddressed /\ card.state \in {"stby", "tran", "prg"}
         /\ Reaches("EXT_CSD") <=> card.kind = "emmc" /\ card.state = "tran" /\ BusAgrees
         /\ Reaches("SWITCH") <=> card.kind = "emmc" /\ card.state = "tran"
         /\ Reaches("ACMD51") <=>
              card.kind \in SdCards /\ card.state = "tran" /\ sd.rca /\ BusAgrees
         /\ Reaches("ACMD6") <=>
              card.kind \in SdCards /\ card.state = "tran" /\ sd.rca
         /\ Reaches("CMD6") <=>
              card.kind \in {"sd2", "sdhc"} /\ card.state = "tran" /\ BusAgrees
<1>1. card.kind \in Kinds \cup {"none"} /\ card.state \in States
  BY TypesAre DEF CardRec
<1>2. Kinds = {"sd1", "sd2", "sdhc", "emmc"} /\ SdCards = {"sd1", "sd2", "sdhc"}
  BY DEF Kinds, SdCards
<1>3. /\ Reaches("CMD0") <=> card.kind # "none"
      /\ Reaches("CMD1") <=> card.kind = "emmc" /\ card.state = "idle"
      /\ Reaches("CMD8") <=> card.kind \in {"sd2", "sdhc"} /\ card.state = "idle"
      /\ Reaches("ACMD41") <=> card.kind \in SdCards /\ card.state = "idle"
      /\ Reaches("CMD2") <=> card.kind # "none" /\ card.state = "ready"
      /\ Reaches("CMD3") <=> card.kind # "none" /\ card.state = "ident"
  BY <1>1, <1>2 DEF Reaches, KindsOf, Legal, Addressed, Reads
<1>4. /\ Reaches("CMD9") <=> CardIsAddressed /\ card.state = "stby"
      /\ Reaches("CMD7") <=> CardIsAddressed /\ card.state = "stby"
      /\ Reaches("CMD13") <=>
           CardIsAddressed /\ card.state \in {"stby", "tran", "prg"}
  <2>1. /\ KindsOf("CMD9") = Kinds /\ KindsOf("CMD7") = Kinds
        /\ KindsOf("CMD13") = Kinds
    BY DEF KindsOf
  <2>2. /\ Legal["CMD9"] = {"stby"} /\ Legal["CMD7"] = {"stby"}
        /\ Legal["CMD13"] = {"stby", "tran", "prg"}
    BY DEF Legal
  <2>3. /\ {"CMD9", "CMD7", "CMD13"} \subseteq Addressed
        /\ \A cmd \in {"CMD9", "CMD7", "CMD13"} : cmd \notin Reads
    BY DEF Addressed, Reads
  <2>4. card.kind \in Kinds <=> card.kind # "none"
    BY <1>1, <1>2
  <2> QED
    BY <2>1, <2>2, <2>3, <2>4 DEF Reaches, CardIsAddressed
<1>5. /\ Reaches("EXT_CSD") <=> card.kind = "emmc" /\ card.state = "tran" /\ BusAgrees
      /\ Reaches("SWITCH") <=> card.kind = "emmc" /\ card.state = "tran"
  BY <1>1, <1>2 DEF Reaches, KindsOf, Legal, Addressed, Reads
<1>6. /\ Reaches("ACMD51") <=>
           card.kind \in SdCards /\ card.state = "tran" /\ sd.rca /\ BusAgrees
      /\ Reaches("ACMD6") <=>
           card.kind \in SdCards /\ card.state = "tran" /\ sd.rca
      /\ Reaches("CMD6") <=>
           card.kind \in {"sd2", "sdhc"} /\ card.state = "tran" /\ BusAgrees
  BY <1>1, <1>2 DEF Reaches, KindsOf, Legal, Addressed, Reads
<1> QED
  BY <1>3, <1>4, <1>5, <1>6

\* How a command goes: it is obeyed, or nothing changes; and with nothing
\* lost a card that can obey it does, and answers.
LEMMA SendHolds ==
  ASSUME NEW cmd, NEW o \in Outcomes, NEW c, Send(cmd, o, c)
  PROVE  /\ card.state # "prg"
         /\ \/ card' = card
            \/ card' = c /\ slot.media /\ Reaches(cmd)
         /\ o = "answered" => card' = c /\ slot.media /\ Reaches(cmd)
         /\ ~lost' => /\ ~lost
                      /\ IF slot.media /\ Reaches(cmd) THEN o = "answered"
                                                       ELSE card' = card /\ o = "silent"
         /\ lost \in BOOLEAN => lost' \in BOOLEAN
BY DEF Send, Outcomes

\* The cards commands make of a card.
LEMMA CardsTyped ==
  ASSUME TypeOK
  PROVE  /\ NoCard \in CardRec /\ Idle \in CardRec /\ PoweredUp \in CardRec
         /\ StatusRead \in CardRec
         /\ \A s \in States : Moved(s) \in CardRec
         /\ \A taken \in BOOLEAN, c \in CardRec : Switched(taken, c) \in CardRec
         /\ [card EXCEPT !.sawCmd8 = TRUE] \in CardRec
         /\ [card EXCEPT !.refused = TRUE] \in CardRec
         /\ \A w \in {1, 4, 8}, d \in BOOLEAN :
              [card EXCEPT !.width = w, !.ddr = d] \in CardRec
         /\ \A t \in {"default"} \cup SdModes, d \in BOOLEAN :
              [card EXCEPT !.timing = t, !.ddr = d] \in CardRec
<1>1. card \in CardRec
  BY TypesAre
<1>2. NoCard \in CardRec
  BY DEF NoCard, CardRec, States
<1>3. Idle = [NoCard EXCEPT !.kind = card.kind, !.offers = card.offers,
                            !.refused = card.refused]
  BY DEF Idle
<1>4. Idle \in CardRec
  BY <1>1, <1>2, <1>3 DEF CardRec
<1>5. \A s \in States : Moved(s) \in CardRec
  BY <1>1 DEF Moved, CardRec
<1>6. PoweredUp \in CardRec
  BY <1>1, <1>5 DEF PoweredUp, States
<1>7. StatusRead \in CardRec
  BY <1>1 DEF StatusRead, CardRec
<1>8. \A taken \in BOOLEAN, c \in CardRec : Switched(taken, c) \in CardRec
  <2>1. [card EXCEPT !.error = TRUE, !.refused = TRUE] \in CardRec
    BY <1>1 DEF CardRec
  <2> QED
    BY <2>1 DEF Switched
<1>9. /\ [card EXCEPT !.sawCmd8 = TRUE] \in CardRec
      /\ [card EXCEPT !.refused = TRUE] \in CardRec
  BY <1>1 DEF CardRec
<1>10. \A w \in {1, 4, 8}, d \in BOOLEAN :
         [card EXCEPT !.width = w, !.ddr = d] \in CardRec
  BY <1>1 DEF CardRec
<1>11. \A t \in {"default"} \cup SdModes, d \in BOOLEAN :
         [card EXCEPT !.timing = t, !.ddr = d] \in CardRec
  BY <1>1 DEF CardRec
<1> QED
  BY <1>2, <1>4, <1>5, <1>6, <1>7, <1>8, <1>9, <1>10, <1>11

\* A card that is put in is idle, on the default bus, and refused nothing.
LEMMA NewCardsHold ==
  \A c \in FreshCards :
    /\ c \in CardRec /\ c.kind # "none" /\ c.state = "idle" /\ c.width = 1
    /\ ~c.ddr /\ c.timing = "default" /\ ~c.error /\ ~c.refused
<1> SUFFICES ASSUME NEW c \in FreshCards
    PROVE /\ c \in CardRec /\ c.kind # "none" /\ c.state = "idle" /\ c.width = 1
          /\ ~c.ddr /\ c.timing = "default" /\ ~c.error /\ ~c.refused
  OBVIOUS
<1>1. PICK k \in Kinds : \E o \in Offers(k) :
        c = [NoCard EXCEPT !.kind = k, !.offers = o]
  BY DEF FreshCards
<1>. PICK of \in Offers(k) : c = [NoCard EXCEPT !.kind = k, !.offers = of]
  BY <1>1
<1>2. of \in SUBSET (EmmcModes \cup SdModes)
  BY <1>1 DEF Offers, EmmcModes, SdModes
<1>3. NoCard \in CardRec /\ k # "none"
  BY <1>1 DEF NoCard, CardRec, States, Kinds, SdCards
<1>4. c \in CardRec
  BY <1>1, <1>2, <1>3 DEF CardRec
<1> QED
  BY <1>1, <1>3, <1>4 DEF NoCard

(***************************************************************************)
(* The types.                                                              *)
(***************************************************************************)
HostRec == [width : {1, 4, 8}, ddr : BOOLEAN, khz : Nat]
SlotRec == [media : BOOLEAN, cardType : CardTypes, initialized : BOOLEAN]
Results == {"none", "failed", "identified"}
AllModes == {"default"} \cup EmmcModes \cup SdModes

\* A command leaves a card a card.
LEMMA SendTyped ==
  ASSUME TypeOK, NEW cmd, NEW o \in Outcomes, NEW c \in CardRec, Send(cmd, o, c)
  PROVE  card' \in CardRec /\ lost' \in BOOLEAN
BY SendHolds, TypesAre

\* The next place of the thread is a place.
LEMMA GoOnTyped ==
  ASSUME TypeOK, NEW ok, NEW next \in Places, GoOn(ok, next)
  PROVE  at' \in Places /\ result' \in Results
<1>1. at \in Places /\ result \in Results
  BY TypesAre DEF Results
<1> QED
  BY <1>1 DEF GoOn, Places, SdSteps, Results

\* The end of SdCardSetBusMode keeps the types of host and slot.
LEMMA FinishTyped ==
  ASSUME TypeOK, NEW ok, NEW m, Finish(ok, m)
  PROVE  /\ at' \in Places /\ result' \in Results
         /\ host' \in HostRec /\ slot' \in SlotRec
<1>1. at \in Places /\ result \in Results /\ host \in HostRec /\ slot \in SlotRec
  BY TypesAre DEF Results, HostRec, SlotRec
<1>2. at' \in Places /\ result' \in Results
  <2>1. ASSUME GoOn(FALSE, "idle") PROVE at' \in Places /\ result' \in Results
    BY <2>1, GoOnTyped DEF Places
  <2> QED
    BY <2>1 DEF Finish, Identified, Places, Results
<1>3. ClockSupply(host, SdKHz(m)) \in HostRec
  <2>1. SdKHz(m) \in Nat /\ SdKHz(m) >= 25000
    BY SdKHzHolds
  <2>2. SdKHz(m) >= 400
    BY <2>1
  <2> QED
    BY <2>1, <2>2, ClockHolds, TypesAre DEF HostRec
<1>4. [slot EXCEPT !.initialized = TRUE] \in SlotRec
  BY <1>1 DEF SlotRec
<1> QED
  BY <1>1, <1>2, <1>3, <1>4 DEF Finish

\* The types, with the bounds of the model.
LEMMA Retyped ==
  ASSUME at' \in Places, cap' \in Capabilities, slot' \in SlotRec,
         mode' \in AllModes, sd' \in [v1 : BOOLEAN, rca : BOOLEAN],
         tries' \in 0..MaxOcr, host' \in HostRec, card' \in CardRec,
         inserted' \in 1..MaxCards, lost' \in BOOLEAN, result' \in Results
  PROVE  TypeOK'
BY DEF TypeOK, Places, SlotRec, AllModes, HostRec, CardRec, Results

\* SetBusWidth keeps the type of the host.
LEMMA HostTyped ==
  ASSUME TypeOK, NEW h \in HostRec, NEW w \in {1, 4, 8}, NEW d \in BOOLEAN
  PROVE  SetBusWidth(h, d, w) \in HostRec
BY DEF SetBusWidth, HostRec

\* What the capability of the slot is known to be.
LEMMA CapTyped ==
  ASSUME TypeOK
  PROVE  /\ cap \in Capabilities /\ cap.width \in {1, 4, 8} /\ cap.ddr50 \in BOOLEAN
         /\ cap.removable \in BOOLEAN /\ cap.cardType \in CardTypes
         /\ cap.ddr50 => cap.width # 1
BY TypesAre, CapabilitiesAssumption DEF Capability

\* The timing chosen is one of the timings.
LEMMA ModesTyped ==
  ASSUME TypeOK
  PROVE  EmmcTiming \in AllModes /\ \A q : AccessMode(q) \in {"default"} \cup SdModes
BY DEF EmmcTiming, AccessMode, AllModes, EmmcModes, SdModes

\* Every step keeps the types.
LEMMA TypesHold == IInv /\ [Next]_vars => TypeOK'
<1> SUFFICES ASSUME IInv, TypeOK, [Next]_vars PROVE TypeOK'
  BY DEF IInv
<1> DEFINE SdRec == [v1 : BOOLEAN, rca : BOOLEAN]
<1>1. /\ at \in Places /\ cap \in Capabilities /\ slot \in SlotRec
      /\ mode \in AllModes /\ sd \in SdRec /\ tries \in 0..MaxOcr
      /\ host \in HostRec /\ card \in CardRec
      /\ inserted \in 1..MaxCards /\ lost \in BOOLEAN /\ result \in Results
  BY TypesAre DEF SlotRec, AllModes, HostRec, Results
<1>2. MaxOcr \in Nat \ {0} /\ MaxCards \in Nat \ {0}
  BY BoundsAssumption
<1>3. EmmcSteps \subseteq Places /\ SdSteps \subseteq Places /\ "idle" \in Places
  BY DEF Places
<1>4. /\ {"eOcr", "eCid", "eRca", "eCsd", "eSelect", "eTran", "eWidth1",
           "eWidth1Set", "eExtCsd", "eTiming", "eTimingCheck", "eWidth",
           "eWidthSet", "eFinal"} \subseteq Places
      /\ {"sVoltage", "sInquiry", "sOcr", "sCid", "sRca", "sCsd",
           "sSelect", "sScr", "sWidth", "sWidthSet", "sInquireMode",
           "sSetMode", "sVersion1"} \subseteq Places
  BY DEF Places, EmmcSteps, SdSteps
<1>5. /\ Idle \in CardRec /\ PoweredUp \in CardRec /\ StatusRead \in CardRec
      /\ \A s \in States : Moved(s) \in CardRec
      /\ [card EXCEPT !.sawCmd8 = TRUE] \in CardRec /\ NoCard \in CardRec
      /\ \A taken \in BOOLEAN, c \in CardRec : Switched(taken, c) \in CardRec
  BY CardsTyped
<1>6. /\ {"idle", "ready", "ident", "stby", "tran", "prg"} = States
  BY DEF States
<1>7. /\ cap.width \in {1, 4, 8} /\ cap.ddr50 \in BOOLEAN
      /\ cap.removable \in BOOLEAN /\ cap.cardType \in CardTypes
  BY CapTyped
<1>8. Reset \in HostRec
  BY ResetHolds DEF HostRec
<1>9. ASSUME ResetHost
      PROVE  /\ at' \in Places /\ host' \in HostRec /\ tries' \in 0..MaxOcr
             /\ lost' \in BOOLEAN /\ result' \in Results
  <2>1. 0 \in 0..MaxOcr /\ "eReset" \in Places /\ "none" \in Results
    BY <1>2 DEF Places, EmmcSteps, Results
  <2> QED
    BY <1>8, <1>9, <2>1 DEF ResetHost
<1>10. CASE Host
  <2>1. CASE EnumRemoval
    <3>1. slot' \in SlotRec /\ result' \in Results
      BY <1>1, <2>1 DEF EnumRemoval, SlotRec, Results
    <3> QED
      BY <1>1, <2>1, <3>1, Retyped DEF EnumRemoval
  <2>2. CASE EnumInsertion
    <3>1. slot' \in SlotRec
      BY <1>1, <2>2 DEF EnumInsertion, SlotRec
    <3> QED
      BY <1>1, <1>9, <2>2, <3>1, Retyped DEF EnumInsertion
  <2>3. ASSUME NEW ok \in BOOLEAN, Start(ok) PROVE TypeOK'
    <3>1. slot' \in SlotRec
      BY <1>1, <1>7, <2>3 DEF Start, SlotRec
    <3>2. /\ at' \in Places /\ host' \in HostRec /\ tries' \in 0..MaxOcr
          /\ lost' \in BOOLEAN /\ result' \in Results
      BY <1>1, <1>9, <2>3 DEF Start, Places
    <3> QED
      BY <1>1, <2>3, <3>1, <3>2, Retyped DEF Start
  <2>4. ASSUME NEW q, NEW echoed, SdVersion1(q, echoed) PROVE TypeOK'
    <3>1. mode' \in AllModes
      BY <2>4, ModesTyped DEF SdVersion1, AllModes
    <3> QED
      BY <1>1, <2>4, <3>1, FinishTyped, Retyped DEF SdVersion1
  <2> QED
    BY <1>10, <2>1, <2>2, <2>3, <2>4 DEF Host
<1>11. ASSUME NEW o \in Outcomes, Driver(o) PROVE TypeOK'
  <2>1. CASE EmmcPlain(o)
    <3>1. card' \in CardRec /\ lost' \in BOOLEAN
      BY <1>1, <1>5, <1>6, <2>1, SendTyped DEF EmmcPlain, EmmcReset,
         EmmcGetAllCid, EmmcGetCsd, EmmcSelect
    <3>2. at' \in Places /\ result' \in Results
      BY <1>4, <2>1, GoOnTyped DEF EmmcPlain
    <3> QED
      BY <1>1, <2>1, <3>1, <3>2, Retyped DEF EmmcPlain
  <2>2. CASE EmmcOcr(o)
    <3>1. card' \in CardRec /\ lost' \in BOOLEAN
      BY <1>5, <2>2, SendTyped DEF EmmcOcr, EmmcGetOcr
    <3>2. at' \in Places /\ result' \in Results
      BY <1>1, <1>4, <2>2, GoOnTyped DEF EmmcOcr
    <3>3. tries' \in 0..MaxOcr
      <4>1. tries < MaxOcr
        BY <2>2 DEF EmmcOcr, IInv, Thread
      <4> QED
        BY <1>1, <1>2, <2>2, <4>1 DEF EmmcOcr
    <3> QED
      BY <1>1, <2>2, <3>1, <3>2, <3>3, Retyped DEF EmmcOcr
  <2>3. CASE EmmcFound(o)
    <3>1. card' \in CardRec /\ lost' \in BOOLEAN
      BY <1>1, <1>5, <1>6, <2>3, SendTyped DEF EmmcFound, EmmcSetRca
    <3>2. at' \in Places /\ result' \in Results
      BY <1>1, <1>4, <2>3, GoOnTyped DEF EmmcFound
    <3>3. slot' \in SlotRec
      BY <1>1, <2>3 DEF EmmcFound, SlotRec, CardTypes
    <3> QED
      BY <1>1, <2>3, <3>1, <3>2, <3>3, Retyped DEF EmmcFound
  <2>4. CASE EmmcTran(o)
    <3>1. card' \in CardRec /\ lost' \in BOOLEAN
      BY <1>1, <1>5, <1>6, <2>4, SendTyped DEF EmmcTran, EmmcSendStatus
    <3>2. at' \in Places /\ result' \in Results
      BY <1>1, <1>4, <2>4, GoOnTyped DEF EmmcTran
    <3> QED
      BY <1>1, <2>4, <3>1, <3>2, Retyped DEF EmmcTran
  <2>5. CASE EmmcSetWidth(o)
    <3>1. card' \in CardRec /\ lost' \in BOOLEAN
      BY <1>1, <1>5, <1>6, <2>5, SendTyped DEF EmmcSetWidth, EmmcSendStatus
    <3>2. at' \in Places /\ result' \in Results
      BY <1>1, <1>4, <2>5, GoOnTyped DEF EmmcSetWidth
    <3>3. host' \in HostRec
      <4>1. Width \in {1, 4, 8} /\ Ddr \in BOOLEAN
        BY <1>7 DEF Width, Ddr
      <4> QED
        BY <1>1, <2>5, <4>1, HostTyped DEF EmmcSetWidth
    <3> QED
      BY <1>1, <2>5, <3>1, <3>2, <3>3, Retyped DEF EmmcSetWidth
  <2>6. CASE EmmcReadExtCsd(o)
    <3>1. card' \in CardRec /\ lost' \in BOOLEAN
      BY <1>1, <1>5, <1>6, <2>6, SendTyped DEF EmmcReadExtCsd, EmmcGetExtCsd
    <3>2. at' \in Places /\ result' \in Results
      BY <1>1, <1>4, <2>6, GoOnTyped DEF EmmcReadExtCsd
    <3>3. mode' \in AllModes
      BY <1>1, <2>6, ModesTyped DEF EmmcReadExtCsd
    <3> QED
      BY <1>1, <2>6, <3>1, <3>2, <3>3, Retyped DEF EmmcReadExtCsd
  <2>7. CASE EmmcSwitchClock(o)
    <3>1. card' \in CardRec /\ lost' \in BOOLEAN
      BY <1>1, <1>5, <1>6, <2>7, SendTyped DEF EmmcSwitchClock, EmmcSendStatus
    <3>2. at' \in Places /\ result' \in Results
      BY <1>1, <1>4, <2>7, GoOnTyped DEF EmmcSwitchClock
    <3>3. host' \in HostRec
      <4>1. \A k \in {26000, 52000} : ClockSupply(host, k) \in HostRec
        BY <1>1, ClockHolds DEF HostRec
      <4> QED
        BY <1>1, <2>7, <4>1 DEF EmmcSwitchClock
    <3> QED
      BY <1>1, <2>7, <3>1, <3>2, <3>3, Retyped DEF EmmcSwitchClock
  <2>8. CASE EmmcFinal(o)
    <3>1. card' \in CardRec /\ lost' \in BOOLEAN
      BY <1>1, <1>5, <1>6, <2>8, SendTyped DEF EmmcFinal, EmmcSendStatus
    <3>2. at' \in Places /\ result' \in Results
      BY <1>1, <1>3, <2>8, GoOnTyped DEF EmmcFinal, Identified, Results
    <3> QED
      BY <1>1, <2>8, <3>1, <3>2, Retyped DEF EmmcFinal
  <2>9. CASE SdPlain(o)
    <3>1. card' \in CardRec /\ lost' \in BOOLEAN
      BY <1>1, <1>5, <1>6, <2>9, SendTyped DEF SdPlain, SdCardReset,
         SdCardSendOpCond, SdCardAllSendCid, SdCardGetCsd, SdCardSelect
    <3>2. at' \in Places /\ result' \in Results
      BY <1>1, <1>4, <2>9, GoOnTyped DEF SdPlain
    <3> QED
      BY <1>1, <2>9, <3>1, <3>2, Retyped DEF SdPlain
  <2>10. CASE SdVoltage(o)
    <3>1. card' \in CardRec /\ lost' \in BOOLEAN
      BY <1>1, <1>5, <1>6, <2>10, SendTyped DEF SdVoltage, SdCardVoltageCheck
    <3>2. at' \in Places /\ result' \in Results
      BY <1>1, <1>4, <2>10, GoOnTyped DEF SdVoltage
    <3>3. sd' \in SdRec
      BY <1>1, <2>10 DEF SdVoltage
    <3> QED
      BY <1>1, <2>10, <3>1, <3>2, <3>3, Retyped DEF SdVoltage
  <2>11. CASE SdOcr(o)
    <3>1. card' \in CardRec /\ lost' \in BOOLEAN
      BY <1>1, <1>5, <1>6, <2>11, SendTyped DEF SdOcr, SdCardSendOpCond
    <3>2. at' \in Places /\ result' \in Results
      BY <1>1, <1>4, <2>11, GoOnTyped DEF SdOcr
    <3> QED
      BY <1>1, <2>11, <3>1, <3>2, Retyped DEF SdOcr
  <2>12. CASE SdRca(o)
    <3>1. card' \in CardRec /\ lost' \in BOOLEAN
      BY <1>1, <1>5, <1>6, <2>12, SendTyped DEF SdRca, SdCardSetRca
    <3>2. at' \in Places /\ result' \in Results
      BY <1>1, <1>4, <2>12, GoOnTyped DEF SdRca
    <3>3. sd' \in SdRec
      BY <1>1, <2>12 DEF SdRca
    <3> QED
      BY <1>1, <2>12, <3>1, <3>2, <3>3, Retyped DEF SdRca
  <2>13. CASE SdFound(o)
    <3>1. card' \in CardRec /\ lost' \in BOOLEAN
      BY <1>1, <1>5, <1>6, <2>13, SendTyped DEF SdFound, SdCardGetScr
    <3>2. at' \in Places /\ result' \in Results
      BY <1>1, <1>4, <2>13, GoOnTyped DEF SdFound
    <3>3. slot' \in SlotRec
      BY <1>1, <2>13 DEF SdFound, SlotRec, CardTypes
    <3> QED
      BY <1>1, <2>13, <3>1, <3>2, <3>3, Retyped DEF SdFound
  <2>14. CASE SdSetWidth(o)
    <3>1. card' \in CardRec /\ lost' \in BOOLEAN
      BY <1>1, <1>5, <1>6, <2>14, SendTyped DEF SdSetWidth, SdCardSendStatus
    <3>2. at' \in Places /\ result' \in Results
      BY <1>1, <1>4, <2>14, GoOnTyped DEF SdSetWidth
    <3>3. host' \in HostRec
      BY <1>1, <1>7, <2>14, HostTyped DEF SdSetWidth
    <3> QED
      BY <1>1, <2>14, <3>1, <3>2, <3>3, Retyped DEF SdSetWidth
  <2>15. CASE SdInquireMode(o)
    <3>1. card' \in CardRec /\ lost' \in BOOLEAN
      BY <1>1, <1>5, <1>6, <2>15, SendTyped DEF SdInquireMode, SdCardSwitch
    <3>2. at' \in Places /\ result' \in Results
      BY <1>1, <1>4, <2>15, GoOnTyped DEF SdInquireMode
    <3>3. mode' \in AllModes
      BY <1>1, <2>15, ModesTyped DEF SdInquireMode, AllModes
    <3> QED
      BY <1>1, <2>15, <3>1, <3>2, <3>3, Retyped DEF SdInquireMode
  <2>16. ASSUME NEW taken \in BOOLEAN, EmmcSwitchWidth(o, taken) PROVE TypeOK'
    <3>1. Width \in {1, 4, 8} /\ (Ddr /\ Width # 1) \in BOOLEAN
      BY <1>7 DEF Width, Ddr
    <3>2. card' \in CardRec /\ lost' \in BOOLEAN
      <4> DEFINE c == Switched(taken, [card EXCEPT !.width = Width,
                                                   !.ddr = Ddr /\ Width # 1])
      <4>1. c \in CardRec
        BY <1>5, <3>1, CardsTyped
      <4>2. [c EXCEPT !.state = "prg"] \in CardRec
        BY <4>1 DEF CardRec, States
      <4> QED
        BY <2>16, <4>2, SendTyped DEF EmmcSwitchWidth, EmmcSwitch
    <3>3. at' \in Places /\ result' \in Results
      BY <1>4, <2>16, GoOnTyped DEF EmmcSwitchWidth
    <3> QED
      BY <1>1, <2>16, <3>2, <3>3, Retyped DEF EmmcSwitchWidth
  <2>17. ASSUME NEW taken \in BOOLEAN, EmmcSwitchTiming(o, taken) PROVE TypeOK'
    <3>1. card' \in CardRec /\ lost' \in BOOLEAN
      <4> DEFINE c == Switched(taken, [card EXCEPT !.timing = "hs"])
      <4>1. [card EXCEPT !.timing = "hs"] \in CardRec
        BY <1>1 DEF CardRec, SdModes
      <4>2. c \in CardRec
        BY <1>5, <4>1
      <4>3. [c EXCEPT !.state = "prg"] \in CardRec
        BY <4>2 DEF CardRec, States
      <4> QED
        BY <2>17, <4>3, SendTyped DEF EmmcSwitchTiming, EmmcSwitch
    <3>2. at' \in Places /\ result' \in Results
      BY <1>4, <2>17, GoOnTyped DEF EmmcSwitchTiming
    <3> QED
      BY <1>1, <2>17, <3>1, <3>2, Retyped DEF EmmcSwitchTiming
  <2>18. ASSUME NEW taken \in BOOLEAN, SdSwitchWidth(o, taken) PROVE TypeOK'
    <3>1. card' \in CardRec /\ lost' \in BOOLEAN
      <4>1. [card EXCEPT !.width = cap.width] \in CardRec
        BY <1>1, <1>7 DEF CardRec
      <4>2. Switched(taken, [card EXCEPT !.width = cap.width]) \in CardRec
        BY <1>5, <4>1
      <4> QED
        BY <2>18, <4>2, SendTyped DEF SdSwitchWidth, SdCardSetBusWidth
    <3>2. at' \in Places /\ result' \in Results
      BY <1>4, <2>18, GoOnTyped DEF SdSwitchWidth
    <3> QED
      BY <1>1, <2>18, <3>1, <3>2, Retyped DEF SdSwitchWidth
  <2>19. ASSUME NEW taken \in BOOLEAN, SdSetMode(o, taken) PROVE TypeOK'
    <3>1. card' \in CardRec /\ lost' \in BOOLEAN
      <4>1. mode \in {"default"} \cup SdModes
        BY <2>19 DEF SdSetMode, IInv, SdPlace
      <4>2. /\ [card EXCEPT !.timing = mode, !.ddr = mode = "ddr50"] \in CardRec
            /\ [card EXCEPT !.refused = TRUE] \in CardRec
        BY <1>1, <4>1 DEF CardRec
      <4> QED
        BY <2>19, <4>2, SendTyped DEF SdSetMode, SdCardSwitch
    <3> QED
      BY <1>1, <2>19, <3>1, FinishTyped, Retyped DEF SdSetMode
  <2> QED
    BY <1>11, <2>1, <2>2, <2>3, <2>4, <2>5, <2>6, <2>7, <2>8, <2>9, <2>10,
       <2>11, <2>12, <2>13, <2>14, <2>15, <2>16, <2>17, <2>18, <2>19 DEF Driver
<1>12. CASE EmmcDataMissing
  BY <1>1, <1>12, Retyped DEF EmmcDataMissing, Places
<1>13. CASE PowerUp
  <2>1. [card EXCEPT !.up = TRUE] \in CardRec
    BY <1>1 DEF CardRec
  <2> QED
    BY <1>1, <1>13, <2>1, Retyped DEF PowerUp
<1>14. CASE SwitchEnds
  <2>1. [card EXCEPT !.state = "tran"] \in CardRec
    BY <1>1 DEF CardRec, States
  <2> QED
    BY <1>1, <1>14, <2>1, Retyped DEF SwitchEnds
<1>15. CASE Insert
  <2>1. card' \in CardRec
    BY <1>15, NewCardsHold DEF Insert
  <2>2. inserted' \in 1..MaxCards
    BY <1>1, <1>2, <1>15 DEF Insert
  <2> QED
    BY <1>1, <1>15, <2>1, <2>2, Retyped DEF Insert
<1>16. CASE Remove
  BY <1>1, <1>5, <1>16, Retyped DEF Remove
<1>17. CASE UNCHANGED vars
  BY <1>1, <1>17, Retyped DEF vars
<1> QED
  BY <1>10, <1>11, <1>12, <1>13, <1>14, <1>15, <1>16, <1>17 DEF Next

(***************************************************************************)
(* The steps.                                                              *)
(***************************************************************************)
\* The invariant, but for the types.
Known ==
  Thread /\ EmmcCard /\ EmmcHost /\ SdCard /\ SdPlace
    /\ ClockWithinTiming /\ IdentifiedMeansReady

\* The clock of a card stays within its timing when neither changes and no
\* card is newly selected, unless the clock is still the one of identification.
LEMMA ClockKept ==
  ASSUME TypeOK, TypeOK', ClockWithinTiming, host'.khz = host.khz,
         card'.kind = card.kind, card'.offers = card.offers,
         card'.timing = card.timing,
         Selected' => Selected \/ host.khz <= 400,
         sd'.v1 = sd.v1 \/ host.khz <= 400 \/ card.kind \notin SdCards
  PROVE  ClockWithinTiming'
<1>1. MaxKHz' = MaxKHz
  BY DEF MaxKHz, SdKHz
<1>2. MaxKHz \in Nat /\ MaxKHz >= 25000 /\ host.khz \in Nat
  BY MaxKHzHolds, TypesAre
<1>3. CASE host.khz <= 400
  BY <1>1, <1>2, <1>3 DEF ClockWithinTiming
<1>4. CASE ~(host.khz <= 400)
  BY <1>1, <1>4 DEF ClockWithinTiming, Selected
<1> QED
  BY <1>3, <1>4

\* CMD0 of EmmcIdentification.
LEMMA EmmcResetHolds ==
  ASSUME IInv, TypeOK', NEW o \in Outcomes, EmmcPlain(o), at = "eReset"
  PROVE  Known'
<1>1. TypeOK /\ Known /\ card \in CardRec
  BY TypesAre DEF IInv, Known
<1>2. /\ at = "eReset" /\ card.state # "prg"
      /\ card' = card \/ (card' = Idle /\ slot.media /\ card.kind # "none")
      /\ Ok("none", o) <=> slot.media
      /\ UNCHANGED <<cap, slot, mode, sd, tries, host, inserted>>
  <2>1. /\ Send("CMD0", o, Idle)
        /\ Ok("none", o) <=> slot.media
    BY <1>1, OkHolds DEF EmmcPlain, EmmcReset, EmmcExecReads
  <2> QED
    BY <1>1, <2>1, SendHolds, ReachesHolds DEF EmmcPlain, CardIsAddressed
<1>3. /\ card'.kind = card.kind
      /\ card'.offers = card.offers
      /\ card'.refused = card.refused
      /\ \/ card' = card
         \/ /\ card'.state = "idle" /\ card'.width = 1 /\ card'.ddr = FALSE
            /\ card'.timing = "default" /\ card'.error = FALSE
  BY <1>1, <1>2 DEF Idle, CardRec, NoCard
<1>4. \/ at' = "eOcr" /\ result' = result /\ slot.media
      \/ at' = "sReset" /\ result' = result /\ ~slot.media
  BY <1>1, <1>2, <1>3, TypesAre DEF EmmcPlain, GoOn, EmmcSteps
<1>5. ClockWithinTiming'
  BY <1>1, <1>2, <1>3, ClockKept DEF ClockWithinTiming, Selected, Known
<1>6. IdentifiedMeansReady'
  BY <1>1, <1>2, <1>4 DEF Known, Thread, IdentifiedMeansReady
<1>7. Thread'
  BY <1>1, <1>2, <1>3, <1>4 DEF Known, Thread, NoCard, HostReset, Bare,
     EmmcOnly, SdOnly, EmmcSteps, SdSteps, EmmcSelected, SdOnBus, SdSelected
<1>8. EmmcCard'
  BY <1>1, <1>2, <1>3, <1>4 DEF Known, EmmcCard, Thread, Bare, Selected,
     BusAgrees, EmmcOnly, SdOnly, EmmcSteps, SdSteps, EmmcSelected, SdOnBus,
     SdSelected
<1>9. EmmcHost'
  BY <1>1, <1>2, <1>3, <1>4 DEF Known, EmmcHost, Thread, HostReset, EmmcOnly,
     SdOnly, EmmcSteps, SdSteps, EmmcSelected, SdOnBus, SdSelected
<1>10. SdCard' /\ SdPlace'
  BY <1>1, <1>2, <1>3, <1>4
  DEF Known, SdCard, SdPlace, EmmcCard, Thread, HostReset, Bare, SdCards,
      Selected, EmmcOnly, SdOnly, EmmcSteps, SdSteps, EmmcSelected, SdOnBus,
      SdSelected
<1> QED
  BY <1>5, <1>6, <1>7, <1>8, <1>9, <1>10 DEF Known

\* CMD1, repeated until the card is powered up.
LEMMA EmmcOcrHolds ==
  ASSUME IInv, TypeOK', NEW o \in Outcomes, EmmcOcr(o)
  PROVE  Known'
<1>1. TypeOK /\ Known /\ card \in CardRec
  BY TypesAre DEF IInv, Known
<1>2. /\ at = "eOcr" /\ card.state # "prg"
      /\ card' = card \/ (card' = PoweredUp /\ slot.media /\ card.kind = "emmc")
      /\ Ok("R3", o) => card' = PoweredUp /\ slot.media /\ card.kind = "emmc"
      /\ UNCHANGED <<cap, slot, mode, sd, host, inserted>>
  <2>1. /\ Send("CMD1", o, PoweredUp)
        /\ Ok("R3", o) <=> slot.media /\ o = "answered"
    BY <1>1, OkHolds DEF EmmcOcr, EmmcGetOcr, EmmcExecReads
  <2> QED
    BY <1>1, <2>1, SendHolds, ReachesHolds DEF EmmcOcr, CardIsAddressed
<1>3. /\ card'.kind = card.kind
      /\ card'.offers = card.offers
      /\ card'.width = card.width
      /\ card'.ddr = card.ddr
      /\ card'.timing = card.timing
      /\ card'.error = card.error
      /\ card'.refused = card.refused
      /\ card'.state = card.state \/ card'.state = "ready"
  BY <1>1, <1>2 DEF PoweredUp, Moved, CardRec, NoCard
<1>4. \/ at' = at /\ result' = result /\ tries' < MaxOcr
      \/ /\ at' = "eCid" /\ result' = result /\ card'.state = "ready"
         /\ card.kind = "emmc" /\ slot.media
      \/ at' = "sReset" /\ result' = result
  BY <1>1, <1>2, <1>3, TypesAre DEF EmmcOcr, GoOn, PoweredUp, Moved, CardRec,
     EmmcSteps
<1>5. ClockWithinTiming'
  BY <1>1, <1>2, <1>3, ClockKept DEF Selected, Known, Thread, HostReset
<1>6. IdentifiedMeansReady'
  BY <1>1, <1>2, <1>4 DEF Known, Thread, IdentifiedMeansReady
<1>7. Thread'
  BY <1>1, <1>2, <1>3, <1>4 DEF Known, Thread, NoCard, HostReset, Bare,
     EmmcOnly, SdOnly, EmmcSteps, SdSteps, EmmcSelected, SdOnBus, SdSelected
<1>8. EmmcCard'
  BY <1>1, <1>2, <1>3, <1>4 DEF Known, EmmcCard, Thread, Bare, Selected,
     BusAgrees, EmmcOnly, SdOnly, EmmcSteps, SdSteps, EmmcSelected, SdOnBus,
     SdSelected
<1>9. EmmcHost'
  BY <1>1, <1>2, <1>3, <1>4 DEF Known, EmmcHost, Thread, HostReset, EmmcOnly,
     SdOnly, EmmcSteps, SdSteps, EmmcSelected, SdOnBus, SdSelected
<1>10. SdCard' /\ SdPlace'
  BY <1>1, <1>2, <1>3, <1>4
  DEF Known, SdCard, SdPlace, EmmcCard, Thread, HostReset, Bare, SdCards,
      Selected, EmmcOnly, SdOnly, EmmcSteps, SdSteps, EmmcSelected, SdOnBus,
      SdSelected
<1> QED
  BY <1>5, <1>6, <1>7, <1>8, <1>9, <1>10 DEF Known

\* CMD2 of EmmcIdentification.
LEMMA EmmcCidHolds ==
  ASSUME IInv, TypeOK', NEW o \in Outcomes, EmmcPlain(o), at = "eCid"
  PROVE  Known'
<1>1. TypeOK /\ Known /\ card \in CardRec
  BY TypesAre DEF IInv, Known
<1>2. /\ at = "eCid" /\ card.state # "prg"
      /\ \/ card' = card
         \/ /\ card' = Moved("ident") /\ slot.media /\ card.kind # "none"
      /\ Ok("R2", o) =>
           /\ card' = Moved("ident") /\ slot.media /\ card.kind # "none"
      /\ UNCHANGED <<cap, slot, mode, sd, tries, host, inserted>>
  <2>1. /\ Send("CMD2", o, Moved("ident"))
        /\ Ok("R2", o) <=> slot.media /\ o = "answered"
    BY <1>1, OkHolds DEF EmmcPlain, EmmcGetAllCid, EmmcExecReads
  <2> QED
    BY <1>1, <2>1, SendHolds, ReachesHolds DEF EmmcPlain, CardIsAddressed
<1>3. /\ card'.kind = card.kind
      /\ card'.offers = card.offers
      /\ card'.width = card.width
      /\ card'.ddr = card.ddr
      /\ card'.timing = card.timing
      /\ card'.error = card.error
      /\ card'.refused = card.refused
      /\ card'.state \in {card.state, "ident"}
  BY <1>1, <1>2 DEF Moved, CardRec, NoCard
<1>4. \/ at' = "eRca" /\ result' = result /\ card'.state = "ident"
      \/ at' = "sReset" /\ result' = result
  BY <1>1, <1>2, <1>3, TypesAre DEF EmmcPlain, GoOn, Moved, CardRec, EmmcSteps
<1>5. ClockWithinTiming'
  BY <1>1, <1>2, <1>3, ClockKept DEF Selected, Known
<1>6. IdentifiedMeansReady'
  BY <1>1, <1>2, <1>4 DEF Known, Thread, IdentifiedMeansReady
<1>7. Thread'
  BY <1>1, <1>2, <1>3, <1>4 DEF Known, Thread, NoCard, HostReset, Bare,
     EmmcOnly, SdOnly, EmmcSteps, SdSteps, EmmcSelected, SdOnBus, SdSelected
<1>8. EmmcCard'
  BY <1>1, <1>2, <1>3, <1>4 DEF Known, EmmcCard, Thread, Bare, Selected,
     BusAgrees, EmmcOnly, SdOnly, EmmcSteps, SdSteps, EmmcSelected, SdOnBus,
     SdSelected
<1>9. EmmcHost'
  BY <1>1, <1>2, <1>3, <1>4 DEF Known, EmmcHost, Thread, HostReset, EmmcOnly,
     SdOnly, EmmcSteps, SdSteps, EmmcSelected, SdOnBus, SdSelected
<1>10. SdCard' /\ SdPlace'
  BY <1>1, <1>2, <1>3, <1>4
  DEF Known, SdCard, SdPlace, EmmcCard, Thread, HostReset, Bare, SdCards,
      Selected, EmmcOnly, SdOnly, EmmcSteps, SdSteps, EmmcSelected, SdOnBus,
      SdSelected
<1> QED
  BY <1>5, <1>6, <1>7, <1>8, <1>9, <1>10 DEF Known

\* CMD3: the slot becomes an eMMC slot.
LEMMA EmmcFoundHolds ==
  ASSUME IInv, TypeOK', NEW o \in Outcomes, EmmcFound(o)
  PROVE  Known'
<1>1. TypeOK /\ Known /\ card \in CardRec
  BY TypesAre DEF IInv, Known
<1>2. /\ at = "eRca" /\ card.state # "prg"
      /\ \/ card' = card
         \/ /\ card' = Moved("stby") /\ slot.media /\ card.kind # "none"
      /\ Ok("R1", o) =>
           /\ card' = Moved("stby") /\ slot.media /\ card.kind # "none"
      /\ UNCHANGED <<cap, mode, sd, tries, host, inserted>>
  <2>1. /\ Send("CMD3", o, Moved("stby"))
        /\ Ok("R1", o) <=> slot.media /\ o = "answered"
    BY <1>1, OkHolds DEF EmmcFound, EmmcSetRca, EmmcExecReads
  <2> QED
    BY <1>1, <2>1, SendHolds, ReachesHolds DEF EmmcFound, CardIsAddressed
<1>3. /\ card'.kind = card.kind
      /\ card'.offers = card.offers
      /\ card'.width = card.width
      /\ card'.ddr = card.ddr
      /\ card'.timing = card.timing
      /\ card'.error = card.error
      /\ card'.refused = card.refused
      /\ card'.state = card.state \/ card'.state = "stby"
  BY <1>1, <1>2 DEF Moved, CardRec, NoCard
<1>4. \/ /\ at' = "eCsd" /\ result' = result /\ card'.state = "stby"
         /\ slot'.cardType = "emmc" /\ slot'.media = slot.media /\ slot.media
      \/ at' = "sReset" /\ result' = result /\ slot' = slot
  BY <1>1, <1>2, <1>3, TypesAre DEF EmmcFound, GoOn, Moved, CardRec, EmmcSteps
<1>5. ClockWithinTiming'
  BY <1>1, <1>2, <1>3, ClockKept DEF Selected, Known
<1>6. IdentifiedMeansReady'
  BY <1>1, <1>2, <1>4 DEF Known, Thread, IdentifiedMeansReady
<1>7. Thread'
  BY <1>1, <1>2, <1>3, <1>4 DEF Known, Thread, NoCard, HostReset, Bare,
     EmmcOnly, SdOnly, EmmcSteps, SdSteps, EmmcSelected, SdOnBus, SdSelected
<1>8. EmmcCard'
  BY <1>1, <1>2, <1>3, <1>4 DEF Known, EmmcCard, Thread, Bare, Selected,
     BusAgrees, EmmcOnly, SdOnly, EmmcSteps, SdSteps, EmmcSelected, SdOnBus,
     SdSelected
<1>9. EmmcHost'
  BY <1>1, <1>2, <1>3, <1>4 DEF Known, EmmcHost, Thread, HostReset, EmmcOnly,
     SdOnly, EmmcSteps, SdSteps, EmmcSelected, SdOnBus, SdSelected
<1>10. SdCard' /\ SdPlace'
  BY <1>1, <1>2, <1>3, <1>4
  DEF Known, SdCard, SdPlace, EmmcCard, Thread, HostReset, Bare, SdCards,
      Selected, EmmcOnly, SdOnly, EmmcSteps, SdSteps, EmmcSelected, SdOnBus,
      SdSelected
<1> QED
  BY <1>5, <1>6, <1>7, <1>8, <1>9, <1>10 DEF Known

\* CMD9 of EmmcIdentification.
LEMMA EmmcCsdHolds ==
  ASSUME IInv, TypeOK', NEW o \in Outcomes, EmmcPlain(o), at = "eCsd"
  PROVE  Known'
<1>1. TypeOK /\ Known /\ card \in CardRec
  BY TypesAre DEF IInv, Known
<1>2. /\ at = "eCsd" /\ card.state # "prg"
      /\ card' = card \/ (card' = card /\ slot.media /\ card.kind # "none")
      /\ Ok("R2", o) => card' = card /\ slot.media /\ card.kind # "none"
      /\ UNCHANGED <<cap, slot, mode, sd, tries, host, inserted>>
  <2>1. /\ Send("CMD9", o, card)
        /\ Ok("R2", o) <=> slot.media /\ o = "answered"
    BY <1>1, OkHolds DEF EmmcPlain, EmmcGetCsd, EmmcExecReads
  <2> QED
    BY <1>1, <2>1, SendHolds, ReachesHolds DEF EmmcPlain, CardIsAddressed
<1>3. /\ card'.kind = card.kind
      /\ card'.offers = card.offers
      /\ card'.state = card.state
      /\ card'.width = card.width
      /\ card'.ddr = card.ddr
      /\ card'.timing = card.timing
      /\ card'.error = card.error
      /\ card'.refused = card.refused
  BY <1>1, <1>2 DEF CardRec, NoCard
<1>4. \/ at' = "eSelect" /\ result' = result
      \/ at' = "sReset" /\ result' = result
  BY <1>1, <1>2, <1>3, TypesAre DEF EmmcPlain, GoOn, EmmcSteps
<1>5. ClockWithinTiming'
  BY <1>1, <1>2, <1>3, ClockKept DEF Selected, Known
<1>6. IdentifiedMeansReady'
  BY <1>1, <1>2, <1>4 DEF Known, Thread, IdentifiedMeansReady
<1>7. Thread'
  BY <1>1, <1>2, <1>3, <1>4 DEF Known, Thread, NoCard, HostReset, Bare,
     EmmcOnly, SdOnly, EmmcSteps, SdSteps, EmmcSelected, SdOnBus, SdSelected
<1>8. EmmcCard'
  BY <1>1, <1>2, <1>3, <1>4 DEF Known, EmmcCard, Thread, Bare, Selected,
     BusAgrees, EmmcOnly, SdOnly, EmmcSteps, SdSteps, EmmcSelected, SdOnBus,
     SdSelected
<1>9. EmmcHost'
  BY <1>1, <1>2, <1>3, <1>4 DEF Known, EmmcHost, Thread, HostReset, EmmcOnly,
     SdOnly, EmmcSteps, SdSteps, EmmcSelected, SdOnBus, SdSelected
<1>10. SdCard' /\ SdPlace'
  BY <1>1, <1>2, <1>3, <1>4
  DEF Known, SdCard, SdPlace, EmmcCard, Thread, HostReset, Bare, SdCards,
      Selected, EmmcOnly, SdOnly, EmmcSteps, SdSteps, EmmcSelected, SdOnBus,
      SdSelected
<1> QED
  BY <1>5, <1>6, <1>7, <1>8, <1>9, <1>10 DEF Known

\* CMD7 of EmmcIdentification: the card is selected at the slow clock.
LEMMA EmmcSelectHolds ==
  ASSUME IInv, TypeOK', NEW o \in Outcomes, EmmcPlain(o), at = "eSelect"
  PROVE  Known'
<1>1. TypeOK /\ Known /\ card \in CardRec
  BY TypesAre DEF IInv, Known
<1>2. /\ at = "eSelect" /\ card.state # "prg"
      /\ \/ card' = card
         \/ /\ card' = Moved("tran") /\ slot.media /\ card.kind # "none"
      /\ Ok("R1", o) =>
           /\ card' = Moved("tran") /\ slot.media /\ card.kind # "none"
      /\ UNCHANGED <<cap, slot, mode, sd, tries, host, inserted>>
  <2>1. /\ Send("CMD7", o, Moved("tran"))
        /\ Ok("R1", o) <=> slot.media /\ o = "answered"
    BY <1>1, OkHolds DEF EmmcPlain, EmmcSelect, EmmcExecReads
  <2> QED
    BY <1>1, <2>1, SendHolds, ReachesHolds DEF EmmcPlain, CardIsAddressed
<1>3. /\ card'.kind = card.kind
      /\ card'.offers = card.offers
      /\ card'.width = card.width
      /\ card'.ddr = card.ddr
      /\ card'.timing = card.timing
      /\ card'.error = card.error
      /\ card'.refused = card.refused
      /\ card'.state \in {card.state, "tran"}
  BY <1>1, <1>2 DEF Moved, CardRec, NoCard
<1>4. \/ at' = "eTran" /\ result' = result /\ card'.state = "tran"
      \/ at' = "sReset" /\ result' = result
  BY <1>1, <1>2, <1>3, TypesAre DEF EmmcPlain, GoOn, Moved, CardRec, EmmcSteps
<1>5. ClockWithinTiming'
  BY <1>1, <1>2, <1>3, ClockKept DEF Selected, Known, EmmcHost, HostReset,
     EmmcOnly, EmmcSteps
<1>6. IdentifiedMeansReady'
  BY <1>1, <1>2, <1>4 DEF Known, Thread, IdentifiedMeansReady
<1>7. Thread'
  BY <1>1, <1>2, <1>3, <1>4 DEF Known, Thread, NoCard, HostReset, Bare,
     EmmcOnly, SdOnly, EmmcSteps, SdSteps, EmmcSelected, SdOnBus, SdSelected
<1>8. EmmcCard'
  BY <1>1, <1>2, <1>3, <1>4 DEF Known, EmmcCard, Thread, Bare, Selected,
     BusAgrees, EmmcOnly, SdOnly, EmmcSteps, SdSteps, EmmcSelected, SdOnBus,
     SdSelected
<1>9. EmmcHost'
  BY <1>1, <1>2, <1>3, <1>4 DEF Known, EmmcHost, Thread, HostReset, EmmcOnly,
     SdOnly, EmmcSteps, SdSteps, EmmcSelected, SdOnBus, SdSelected
<1>10. SdCard' /\ SdPlace'
  BY <1>1, <1>2, <1>3, <1>4
  DEF Known, SdCard, SdPlace, EmmcCard, Thread, HostReset, Bare, SdCards,
      Selected, EmmcOnly, SdOnly, EmmcSteps, SdSteps, EmmcSelected, SdOnBus,
      SdSelected
<1> QED
  BY <1>5, <1>6, <1>7, <1>8, <1>9, <1>10 DEF Known

\* The wait for the transfer state.
LEMMA EmmcTranHolds ==
  ASSUME IInv, TypeOK', NEW o \in Outcomes, EmmcTran(o)
  PROVE  Known'
<1>1. TypeOK /\ Known /\ card \in CardRec
  BY TypesAre DEF IInv, Known
<1>2. /\ at = "eTran" /\ card.state # "prg"
      /\ \/ card' = card
         \/ /\ card' = StatusRead /\ slot.media /\ card.kind # "none"
      /\ Ok("R1", o) => card' = StatusRead /\ slot.media /\ card.kind # "none"
      /\ UNCHANGED <<cap, slot, mode, sd, tries, host, inserted>>
  <2>1. /\ Send("CMD13", o, StatusRead)
        /\ Ok("R1", o) <=> slot.media /\ o = "answered"
    BY <1>1, OkHolds DEF EmmcTran, EmmcSendStatus, EmmcExecReads
  <2> QED
    BY <1>1, <2>1, SendHolds, ReachesHolds DEF EmmcTran, CardIsAddressed
<1>3. /\ card'.kind = card.kind
      /\ card'.offers = card.offers
      /\ card'.state = card.state
      /\ card'.width = card.width
      /\ card'.ddr = card.ddr
      /\ card'.timing = card.timing
      /\ card'.refused = card.refused
      /\ card'.error => card.error
  BY <1>1, <1>2 DEF StatusRead, CardRec, NoCard
<1>4. \/ at' = at /\ result' = result
      \/ at' = "eWidth1" /\ result' = result /\ card'.state = "tran"
      \/ at' = "sReset" /\ result' = result
  BY <1>1, <1>2, <1>3, TypesAre DEF EmmcTran, GoOn, EmmcSteps
<1>5. ClockWithinTiming'
  BY <1>1, <1>2, <1>3, ClockKept DEF Selected, Known
<1>6. IdentifiedMeansReady'
  BY <1>1, <1>2, <1>4 DEF Known, Thread, IdentifiedMeansReady
<1>7. Thread'
  BY <1>1, <1>2, <1>3, <1>4 DEF Known, Thread, NoCard, HostReset, Bare,
     EmmcOnly, SdOnly, EmmcSteps, SdSteps, EmmcSelected, SdOnBus, SdSelected
<1>8. EmmcCard'
  BY <1>1, <1>2, <1>3, <1>4 DEF Known, EmmcCard, Thread, Bare, Selected,
     BusAgrees, EmmcOnly, SdOnly, EmmcSteps, SdSteps, EmmcSelected, SdOnBus,
     SdSelected
<1>9. EmmcHost'
  BY <1>1, <1>2, <1>3, <1>4 DEF Known, EmmcHost, Thread, HostReset, EmmcOnly,
     SdOnly, EmmcSteps, SdSteps, EmmcSelected, SdOnBus, SdSelected
<1>10. SdCard' /\ SdPlace'
  BY <1>1, <1>2, <1>3, <1>4
  DEF Known, SdCard, SdPlace, EmmcCard, Thread, HostReset, Bare, SdCards,
      Selected, EmmcOnly, SdOnly, EmmcSteps, SdSteps, EmmcSelected, SdOnBus,
      SdSelected
<1> QED
  BY <1>5, <1>6, <1>7, <1>8, <1>9, <1>10 DEF Known

\* CMD6 of EmmcSwitchBusWidth: the card changes its bus first.
LEMMA EmmcSwitchWidthHolds ==
  ASSUME IInv, TypeOK', NEW o \in Outcomes, NEW taken \in BOOLEAN,
         EmmcSwitchWidth(o, taken)
  PROVE  Known'
<1>1. TypeOK /\ Known /\ card \in CardRec
  BY TypesAre DEF IInv, Known
<1>2. /\ at \in {"eWidth1", "eWidth"} /\ card.state # "prg"
      /\ \/ card' = card
         \/ /\ card' = WidthSwitched(taken) /\ slot.media /\ card.kind = "emmc"
            /\ card.state = "tran"
      /\ Ok("R1b", o) =>
           /\ card' = WidthSwitched(taken) /\ slot.media /\ card.kind = "emmc"
           /\ card.state = "tran"
      /\ UNCHANGED <<cap, slot, mode, sd, tries, host, inserted>>
  <2>1. /\ Send("SWITCH", o, WidthSwitched(taken))
        /\ Ok("R1b", o) <=> slot.media /\ o = "answered"
    BY <1>1, OkHolds DEF WidthSwitched, EmmcSwitchWidth, EmmcSwitch,
       EmmcExecReads
  <2> QED
    BY <1>1, <2>1, SendHolds, ReachesHolds DEF EmmcSwitchWidth, CardIsAddressed
<1>3. /\ card'.kind = card.kind
      /\ card'.offers = card.offers
      /\ card'.timing = card.timing
      /\ card' = card \/ (card.state = "tran" /\ card'.state = "prg")
      /\ card'.refused \/ (card'.refused = card.refused /\ card'.error = card.error)
      /\ \/ card'.refused \/ card' = card
         \/ card'.width = Width /\ card'.ddr = (Ddr /\ Width # 1)
  BY <1>1, <1>2 DEF WidthSwitched, Switched, CardRec, NoCard
<1>4. \/ at = "eWidth1" /\ at' = "eWidth1Set" /\ result' = result
      \/ /\ at = "eWidth" /\ at' = "eWidthSet" /\ result' = result
         /\ \/ card'.refused
            \/ card'.width = cap.width /\ card'.ddr = (mode = "ddr52")
      \/ at' = "sReset" /\ result' = result
  <2>1. mode = "ddr52" /\ at = "eWidth" => cap.width # 1
    BY <1>1, <1>2, CapTyped DEF Known, EmmcHost
  <2>2. Ok("R1b", o) /\ at = "eWidth" /\ ~card'.refused =>
          card'.width = cap.width /\ card'.ddr = (mode = "ddr52")
    <3>1. at = "eWidth" => Width = cap.width /\ (Ddr /\ Width # 1) = (mode = "ddr52")
      BY <2>1 DEF Width, Ddr
    <3>2. Ok("R1b", o) => card' # card
      BY <1>1, <1>2 DEF WidthSwitched, Switched, CardRec
    <3> QED
      BY <1>3, <3>1, <3>2
  <2> QED
    BY <1>1, <1>2, <1>3, <2>2 DEF EmmcSwitchWidth, GoOn, EmmcSteps
<1>5. ClockWithinTiming'
  BY <1>1, <1>2, <1>3, ClockKept DEF Selected, Known
<1>6. IdentifiedMeansReady'
  BY <1>1, <1>2, <1>4 DEF Known, Thread, IdentifiedMeansReady
<1>7. Thread'
  BY <1>1, <1>2, <1>3, <1>4 DEF Known, Thread, NoCard, HostReset, Bare,
     EmmcOnly, SdOnly, EmmcSteps, SdSteps, EmmcSelected, SdOnBus, SdSelected
<1>8. EmmcCard'
  BY <1>1, <1>2, <1>3, <1>4
  DEF Known, EmmcCard, Thread, Bare, Selected, BusAgrees, EmmcOnly, SdOnly,
      EmmcSteps, SdSteps, EmmcSelected, SdOnBus, SdSelected, Width, Ddr
<1>9. EmmcHost'
  BY <1>1, <1>2, <1>3, <1>4 DEF Known, EmmcHost, Thread, HostReset, EmmcOnly,
     SdOnly, EmmcSteps, SdSteps, EmmcSelected, SdOnBus, SdSelected
<1>10. SdCard' /\ SdPlace'
  BY <1>1, <1>2, <1>3, <1>4
  DEF Known, SdCard, SdPlace, EmmcCard, Thread, HostReset, Bare, SdCards,
      Selected, EmmcOnly, SdOnly, EmmcSteps, SdSteps, EmmcSelected, SdOnBus,
      SdSelected
<1> QED
  BY <1>5, <1>6, <1>7, <1>8, <1>9, <1>10 DEF Known

\* The status behind that switch, and the bus of the host.
LEMMA EmmcSetWidthHolds ==
  ASSUME IInv, TypeOK', NEW o \in Outcomes, EmmcSetWidth(o)
  PROVE  Known'
<1>1. TypeOK /\ Known /\ card \in CardRec
  BY TypesAre DEF IInv, Known
<1>2. /\ at \in {"eWidth1Set", "eWidthSet"} /\ card.state # "prg"
      /\ \/ card' = card
         \/ /\ card' = StatusRead /\ slot.media /\ card.kind # "none"
      /\ Ok("R1", o) => card' = StatusRead /\ slot.media /\ card.kind # "none"
      /\ UNCHANGED <<cap, slot, mode, sd, tries, inserted>>
  <2>1. /\ Send("CMD13", o, StatusRead)
        /\ Ok("R1", o) <=> slot.media /\ o = "answered"
    BY <1>1, OkHolds DEF EmmcSetWidth, EmmcSendStatus, EmmcExecReads
  <2> QED
    BY <1>1, <2>1, SendHolds, ReachesHolds DEF EmmcSetWidth, CardIsAddressed
<1>3. /\ card'.kind = card.kind
      /\ card'.offers = card.offers
      /\ card'.state = card.state
      /\ card'.width = card.width
      /\ card'.ddr = card.ddr
      /\ card'.timing = card.timing
      /\ card'.refused = card.refused
      /\ card'.error => card.error
  BY <1>1, <1>2 DEF StatusRead, CardRec, NoCard
<1>4. \/ /\ at = "eWidth1Set" /\ at' = "eExtCsd" /\ host'.width = 1
         /\ host'.ddr = FALSE /\ host'.khz = host.khz /\ result' = result
      \/ /\ at = "eWidthSet" /\ at' = "eFinal" /\ host'.width = cap.width
         /\ host'.ddr = (mode = "ddr52") /\ host'.khz = host.khz
         /\ result' = result
      \/ at' = "sReset" /\ host' = host /\ result' = result
  BY <1>1, <1>2, <1>3, TypesAre DEF EmmcSetWidth, GoOn, SetBusWidth, Width, Ddr,
     EmmcSteps
<1>5. ClockWithinTiming'
  BY <1>1, <1>2, <1>3, <1>4, TypesAre, ClockKept DEF Selected, Known
<1>6. IdentifiedMeansReady'
  BY <1>1, <1>2, <1>4 DEF Known, Thread, IdentifiedMeansReady
<1>7. Thread'
  BY <1>1, <1>2, <1>3, <1>4 DEF Known, Thread, NoCard, HostReset, Bare,
     EmmcOnly, SdOnly, EmmcSteps, SdSteps, EmmcSelected, SdOnBus, SdSelected,
     EmmcHost
<1>8. EmmcCard'
  BY <1>1, <1>2, <1>3, <1>4
  DEF Known, EmmcCard, Thread, Bare, Selected, BusAgrees, EmmcOnly, SdOnly,
      EmmcSteps, SdSteps, EmmcSelected, SdOnBus, SdSelected, EmmcHost
<1>9. EmmcHost'
  BY <1>1, <1>2, <1>3, <1>4 DEF Known, EmmcHost, Thread, HostReset, EmmcOnly,
     SdOnly, EmmcSteps, SdSteps, EmmcSelected, SdOnBus, SdSelected
<1>10. SdCard' /\ SdPlace'
  BY <1>1, <1>2, <1>3, <1>4
  DEF Known, SdCard, SdPlace, EmmcCard, Thread, HostReset, Bare, SdCards,
      Selected, EmmcOnly, SdOnly, EmmcSteps, SdSteps, EmmcSelected, SdOnBus,
      SdSelected
<1> QED
  BY <1>5, <1>6, <1>7, <1>8, <1>9, <1>10 DEF Known

\* CMD8 of EmmcSetBusMode, and the choice of the timing.
LEMMA EmmcReadExtCsdHolds ==
  ASSUME IInv, TypeOK', NEW o \in Outcomes, EmmcReadExtCsd(o)
  PROVE  Known'
<1>1. TypeOK /\ Known /\ card \in CardRec
  BY TypesAre DEF IInv, Known
<1>2. /\ at = "eExtCsd" /\ card.state # "prg"
      /\ \/ card' = card
         \/ /\ card' = card /\ slot.media /\ card.kind = "emmc" /\ BusAgrees
      /\ Ok("R1", o) =>
           /\ card' = card /\ slot.media /\ card.kind = "emmc" /\ BusAgrees
      /\ UNCHANGED <<cap, slot, sd, tries, host, inserted>>
  <2>1. /\ Send("EXT_CSD", o, card)
        /\ Ok("R1", o) <=> slot.media /\ o = "answered"
    BY <1>1, OkHolds DEF EmmcReadExtCsd, EmmcGetExtCsd, EmmcExecReads
  <2> QED
    BY <1>1, <2>1, SendHolds, ReachesHolds DEF EmmcReadExtCsd, CardIsAddressed
<1>3. /\ card'.kind = card.kind
      /\ card'.offers = card.offers
      /\ card'.state = card.state
      /\ card'.width = card.width
      /\ card'.ddr = card.ddr
      /\ card'.timing = card.timing
      /\ card'.error = card.error
      /\ card'.refused = card.refused
  BY <1>1, <1>2 DEF CardRec, NoCard
<1>4. \/ at' = "eFinal" /\ result' = result /\ BusAgrees
      \/ /\ at' = "eTiming" /\ result' = result
         /\ mode' \in {"ddr52", "hs52", "hs26"}
         /\ (mode' = "ddr52" => cap.ddr50)
         /\ (mode' # "hs26" => card.offers \cap {"hs52", "ddr52"} # {})
      \/ at' = "sReset" /\ result' = result
  BY <1>1, <1>2, <1>3, TypesAre DEF EmmcReadExtCsd, GoOn, EmmcTiming, EmmcSteps
<1>5. ClockWithinTiming'
  BY <1>1, <1>2, <1>3, ClockKept DEF Selected, Known
<1>6. IdentifiedMeansReady'
  BY <1>1, <1>2, <1>4 DEF Known, Thread, IdentifiedMeansReady
<1>7. Thread'
  BY <1>1, <1>2, <1>3, <1>4 DEF Known, Thread, NoCard, HostReset, Bare,
     EmmcOnly, SdOnly, EmmcSteps, SdSteps, EmmcSelected, SdOnBus, SdSelected
<1>8. EmmcCard'
  BY <1>1, <1>2, <1>3, <1>4 DEF Known, EmmcCard, Thread, Bare, Selected,
     BusAgrees, EmmcOnly, SdOnly, EmmcSteps, SdSteps, EmmcSelected, SdOnBus,
     SdSelected
<1>9. EmmcHost'
  BY <1>1, <1>2, <1>3, <1>4 DEF Known, EmmcHost, Thread, HostReset, EmmcOnly,
     SdOnly, EmmcSteps, SdSteps, EmmcSelected, SdOnBus, SdSelected
<1>10. SdCard' /\ SdPlace'
  BY <1>1, <1>2, <1>3, <1>4
  DEF Known, SdCard, SdPlace, EmmcCard, Thread, HostReset, Bare, SdCards,
      Selected, EmmcOnly, SdOnly, EmmcSteps, SdSteps, EmmcSelected, SdOnBus,
      SdSelected
<1> QED
  BY <1>5, <1>6, <1>7, <1>8, <1>9, <1>10 DEF Known

\* CMD6 of EmmcSwitchToHighSpeed: the card changes its timing.
LEMMA EmmcSwitchTimingHolds ==
  ASSUME IInv, TypeOK', NEW o \in Outcomes, NEW taken \in BOOLEAN,
         EmmcSwitchTiming(o, taken)
  PROVE  Known'
<1>1. TypeOK /\ Known /\ card \in CardRec
  BY TypesAre DEF IInv, Known
<1>2. /\ at = "eTiming" /\ card.state # "prg"
      /\ \/ card' = card
         \/ /\ card' = TimingSwitched(taken) /\ slot.media /\ card.kind = "emmc"
            /\ card.state = "tran"
      /\ Ok("R1b", o) =>
           /\ card' = TimingSwitched(taken) /\ slot.media /\ card.kind = "emmc"
           /\ card.state = "tran"
      /\ UNCHANGED <<cap, slot, mode, sd, tries, host, inserted>>
  <2>1. /\ Send("SWITCH", o, TimingSwitched(taken))
        /\ Ok("R1b", o) <=> slot.media /\ o = "answered"
    BY <1>1, OkHolds DEF TimingSwitched, EmmcSwitchTiming, EmmcSwitch,
       EmmcExecReads
  <2> QED
    BY <1>1, <2>1, SendHolds, ReachesHolds DEF EmmcSwitchTiming, CardIsAddressed
<1>3. /\ card'.kind = card.kind
      /\ card'.offers = card.offers
      /\ card'.width = card.width
      /\ card'.ddr = card.ddr
      /\ \/ card' = card
         \/ /\ card.state = "tran" /\ card'.state = "prg"
            /\ card'.timing = "hs" \/ card'.error
      /\ card'.timing = card.timing \/ card'.timing = "hs"
      /\ card'.refused \/ (card'.refused = card.refused /\ card'.error = card.error)
  BY <1>1, <1>2 DEF TimingSwitched, Switched, CardRec, NoCard
<1>4. \/ /\ at' = "eTimingCheck" /\ result' = result
         /\ (card'.timing = "hs" \/ card'.error)
      \/ at' = "sReset" /\ result' = result
  BY <1>1, <1>2, <1>3, TypesAre DEF EmmcSwitchTiming, GoOn, TimingSwitched,
     Switched, CardRec, EmmcSteps
<1>5. ClockWithinTiming'
  <2>1. CASE card'.timing = card.timing
    BY <1>1, <1>2, <1>3, <2>1, ClockKept DEF Selected, Known
  <2>2. CASE card'.timing # card.timing
    <3>1. card.kind = "emmc" /\ card'.kind = "emmc" /\ Selected
      BY <1>2, <1>3, <2>2 DEF Selected
    <3>2. MaxKHz' \in Nat /\ MaxKHz' >= 26000
      BY <1>3, <2>2, <3>1, MaxKHzHolds DEF MaxKHz
    <3>3. CASE card.timing = "default"
      <4>1. host.khz <= MaxKHz
        BY <1>1, <3>1 DEF Known, ClockWithinTiming, SdCards, Selected
      <4>2. MaxKHz = 26000 /\ host.khz \in Nat
        BY <1>1, <3>1, <3>3, TypesAre DEF MaxKHz
      <4> QED
        BY <1>2, <3>2, <4>1, <4>2 DEF ClockWithinTiming
    <3>4. CASE card.timing # "default"
      BY <1>1, <1>2, <1>3, <2>2, <3>1, <3>4 DEF Known, ClockWithinTiming,
         MaxKHz, SdCards, Selected
    <3> QED
      BY <3>3, <3>4
  <2> QED
    BY <2>1, <2>2
<1>6. IdentifiedMeansReady'
  BY <1>1, <1>2, <1>4 DEF Known, Thread, IdentifiedMeansReady
<1>7. Thread'
  BY <1>1, <1>2, <1>3, <1>4 DEF Known, Thread, NoCard, HostReset, Bare,
     EmmcOnly, SdOnly, EmmcSteps, SdSteps, EmmcSelected, SdOnBus, SdSelected
<1>8. EmmcCard'
  BY <1>1, <1>2, <1>3, <1>4 DEF Known, EmmcCard, Thread, Bare, Selected,
     BusAgrees, EmmcOnly, SdOnly, EmmcSteps, SdSteps, EmmcSelected, SdOnBus,
     SdSelected
<1>9. EmmcHost'
  BY <1>1, <1>2, <1>3, <1>4 DEF Known, EmmcHost, Thread, HostReset, EmmcOnly,
     SdOnly, EmmcSteps, SdSteps, EmmcSelected, SdOnBus, SdSelected
<1>10. SdCard' /\ SdPlace'
  BY <1>1, <1>2, <1>3, <1>4
  DEF Known, SdCard, SdPlace, EmmcCard, Thread, HostReset, Bare, SdCards,
      Selected, EmmcOnly, SdOnly, EmmcSteps, SdSteps, EmmcSelected, SdOnBus,
      SdSelected
<1> QED
  BY <1>5, <1>6, <1>7, <1>8, <1>9, <1>10 DEF Known

\* The status behind that switch, and the clock of the host.
LEMMA EmmcSwitchClockHolds ==
  ASSUME IInv, TypeOK', NEW o \in Outcomes, EmmcSwitchClock(o)
  PROVE  Known'
<1>1. TypeOK /\ Known /\ card \in CardRec
  BY TypesAre DEF IInv, Known
<1>2. /\ at = "eTimingCheck" /\ card.state # "prg"
      /\ \/ card' = card
         \/ /\ card' = StatusRead /\ slot.media /\ card.kind # "none"
      /\ Ok("R1", o) => card' = StatusRead /\ slot.media /\ card.kind # "none"
      /\ UNCHANGED <<cap, slot, mode, sd, tries, inserted>>
  <2>1. /\ Send("CMD13", o, StatusRead)
        /\ Ok("R1", o) <=> slot.media /\ o = "answered"
    BY <1>1, OkHolds DEF EmmcSwitchClock, EmmcSendStatus, EmmcExecReads
  <2> QED
    BY <1>1, <2>1, SendHolds, ReachesHolds DEF EmmcSwitchClock, CardIsAddressed
<1>3. /\ card'.kind = card.kind
      /\ card'.offers = card.offers
      /\ card'.state = card.state
      /\ card'.width = card.width
      /\ card'.ddr = card.ddr
      /\ card'.timing = card.timing
      /\ card'.refused = card.refused
      /\ card'.error => card.error
  BY <1>1, <1>2 DEF StatusRead, CardRec, NoCard
<1>4. \/ /\ at' = "eWidth" /\ result' = result /\ ~card.error
         /\ host'.width = host.width /\ host'.ddr = host.ddr
         /\ host'.khz <= IF mode = "hs26" THEN 26000 ELSE 52000
      \/ at' = "sReset" /\ result' = result /\ host' = host
  <2>1. \A k \in {26000, 52000} :
          LET h == ClockSupply(host, k) IN
          h.width = host.width /\ h.ddr = host.ddr /\ h.khz <= k
    BY <1>1, TypesAre, ClockHolds
  <2> QED
    BY <1>1, <1>2, <1>3, <2>1 DEF EmmcSwitchClock, GoOn, EmmcSteps
<1>5. ClockWithinTiming'
  <2>1. CASE host' = host
    BY <1>1, <1>2, <1>3, <2>1, ClockKept DEF Selected, Known
  <2>2. CASE card.kind = "none"
    BY <1>1, <1>2, <1>3, <2>2 DEF ClockWithinTiming, Known, Thread, NoCard
  <2>3. CASE host' # host /\ card.kind # "none"
    <3>1. /\ card.kind = "emmc" /\ card.timing # "default"
          /\ mode # "hs26" => card.offers \cap {"hs52", "ddr52"} # {}
      BY <1>1, <1>2, <1>4, <2>3 DEF Known, EmmcCard, EmmcOnly, EmmcSteps
    <3>2. MaxKHz' >= 26000 /\ (mode # "hs26" => MaxKHz' = 52000) /\ MaxKHz' \in Nat
      <4>1. MaxKHz' = MaxKHz
        BY <1>3 DEF MaxKHz, SdKHz
      <4> QED
        BY <1>1, <3>1, <4>1, MaxKHzHolds
    <3>3. host'.khz \in Nat /\ host'.khz <= IF mode = "hs26" THEN 26000 ELSE 52000
      BY <1>4, <2>3 DEF TypeOK
    <3> QED
      BY <3>2, <3>3 DEF ClockWithinTiming
  <2> QED
    BY <2>1, <2>2, <2>3
<1>6. IdentifiedMeansReady'
  BY <1>1, <1>2, <1>4 DEF Known, Thread, IdentifiedMeansReady
<1>7. Thread'
  BY <1>1, <1>2, <1>3, <1>4 DEF Known, Thread, NoCard, HostReset, Bare,
     EmmcOnly, SdOnly, EmmcSteps, SdSteps, EmmcSelected, SdOnBus, SdSelected
<1>8. EmmcCard'
  BY <1>1, <1>2, <1>3, <1>4 DEF Known, EmmcCard, Thread, Bare, Selected,
     BusAgrees, EmmcOnly, SdOnly, EmmcSteps, SdSteps, EmmcSelected, SdOnBus,
     SdSelected
<1>9. EmmcHost'
  BY <1>1, <1>2, <1>3, <1>4 DEF Known, EmmcHost, Thread, HostReset, EmmcOnly,
     SdOnly, EmmcSteps, SdSteps, EmmcSelected, SdOnBus, SdSelected
<1>10. SdCard' /\ SdPlace'
  BY <1>1, <1>2, <1>3, <1>4
  DEF Known, SdCard, SdPlace, EmmcCard, Thread, HostReset, Bare, SdCards,
      Selected, EmmcOnly, SdOnly, EmmcSteps, SdSteps, EmmcSelected, SdOnBus,
      SdSelected
<1> QED
  BY <1>5, <1>6, <1>7, <1>8, <1>9, <1>10 DEF Known

\* The last status of EmmcSwitchToHighSpeed.
LEMMA EmmcFinalHolds ==
  ASSUME IInv, TypeOK', NEW o \in Outcomes, EmmcFinal(o)
  PROVE  Known'
<1>1. TypeOK /\ Known /\ card \in CardRec
  BY TypesAre DEF IInv, Known
<1>2. /\ at = "eFinal" /\ card.state # "prg"
      /\ \/ card' = card
         \/ /\ card' = StatusRead /\ slot.media /\ card.kind # "none"
      /\ Ok("R1", o) => card' = StatusRead /\ slot.media /\ card.kind # "none"
      /\ UNCHANGED <<cap, slot, mode, sd, tries, host, inserted>>
  <2>1. /\ Send("CMD13", o, StatusRead)
        /\ Ok("R1", o) <=> slot.media /\ o = "answered"
    BY <1>1, OkHolds DEF EmmcFinal, EmmcSendStatus, EmmcExecReads
  <2> QED
    BY <1>1, <2>1, SendHolds, ReachesHolds DEF EmmcFinal, CardIsAddressed
<1>3. /\ card'.kind = card.kind
      /\ card'.offers = card.offers
      /\ card'.state = card.state
      /\ card'.width = card.width
      /\ card'.ddr = card.ddr
      /\ card'.timing = card.timing
      /\ card'.refused = card.refused
      /\ card'.error => card.error
  BY <1>1, <1>2 DEF StatusRead, CardRec, NoCard
<1>4. \/ at' = "idle" /\ result' = "identified" /\ slot.media
      \/ at' = "sReset" /\ result' = result
  BY <1>1, <1>2, <1>3, TypesAre DEF EmmcFinal, GoOn, Identified, EmmcSteps
<1>5. ClockWithinTiming'
  BY <1>1, <1>2, <1>3, ClockKept DEF Selected, Known
<1>6. IdentifiedMeansReady'
  BY <1>1, <1>2, <1>3, <1>4 DEF Known, Thread, EmmcCard, EmmcOnly, EmmcSelected,
     EmmcSteps, IdentifiedMeansReady, TypeOf, BusAgrees, Selected
<1>7. Thread'
  BY <1>1, <1>2, <1>3, <1>4 DEF Known, Thread, NoCard, HostReset, Bare,
     EmmcOnly, SdOnly, EmmcSteps, SdSteps, EmmcSelected, SdOnBus, SdSelected
<1>8. EmmcCard'
  BY <1>1, <1>2, <1>3, <1>4 DEF Known, EmmcCard, Thread, Bare, Selected,
     BusAgrees, EmmcOnly, SdOnly, EmmcSteps, SdSteps, EmmcSelected, SdOnBus,
     SdSelected
<1>9. EmmcHost'
  BY <1>1, <1>2, <1>3, <1>4 DEF Known, EmmcHost, Thread, HostReset, EmmcOnly,
     SdOnly, EmmcSteps, SdSteps, EmmcSelected, SdOnBus, SdSelected
<1>10. SdCard' /\ SdPlace'
  BY <1>1, <1>2, <1>3, <1>4
  DEF Known, SdCard, SdPlace, EmmcCard, Thread, HostReset, Bare, SdCards,
      Selected, EmmcOnly, SdOnly, EmmcSteps, SdSteps, EmmcSelected, SdOnBus,
      SdSelected
<1> QED
  BY <1>5, <1>6, <1>7, <1>8, <1>9, <1>10 DEF Known

\* CMD0 of SdCardIdentification.
LEMMA SdResetHolds ==
  ASSUME IInv, TypeOK', NEW o \in Outcomes, SdPlain(o), at = "sReset"
  PROVE  Known'
<1>1. TypeOK /\ Known /\ card \in CardRec
  BY TypesAre DEF IInv, Known
<1>2. /\ at = "sReset" /\ card.state # "prg"
      /\ card' = card \/ (card' = Idle /\ slot.media /\ card.kind # "none")
      /\ Ok("none", o) <=> slot.media
      /\ UNCHANGED <<cap, slot, mode, sd, tries, host, inserted>>
  <2>1. /\ Send("CMD0", o, Idle)
        /\ Ok("none", o) <=> slot.media
    BY <1>1, OkHolds DEF SdPlain, SdCardReset, EmmcExecReads
  <2> QED
    BY <1>1, <2>1, SendHolds, ReachesHolds DEF SdPlain, CardIsAddressed
<1>3. /\ card'.kind = card.kind
      /\ card'.offers = card.offers
      /\ card'.refused = card.refused
      /\ \/ card' = card
         \/ /\ card'.state = "idle" /\ card'.width = 1 /\ card'.ddr = FALSE
            /\ card'.timing = "default" /\ card'.error = FALSE
  BY <1>1, <1>2 DEF Idle, CardRec, NoCard
<1>4. \/ at' = "sVoltage" /\ result' = result /\ slot.media
      \/ at' = "idle" /\ result' = "failed" /\ ~slot.media
  BY <1>1, <1>2, <1>3, TypesAre DEF SdPlain, GoOn, SdSteps, EmmcSteps
<1>5. ClockWithinTiming'
  BY <1>1, <1>2, <1>3, ClockKept DEF ClockWithinTiming, Selected, Known
<1>6. IdentifiedMeansReady'
  BY <1>1, <1>2, <1>4 DEF Known, Thread, IdentifiedMeansReady
<1>7. Thread'
  BY <1>1, <1>2, <1>3, <1>4 DEF Known, Thread, NoCard, HostReset, Bare,
     EmmcOnly, SdOnly, EmmcSteps, SdSteps, EmmcSelected, SdOnBus, SdSelected
<1>8. EmmcCard'
  BY <1>1, <1>2, <1>3, <1>4 DEF Known, EmmcCard, Thread, Bare, Selected,
     BusAgrees, EmmcOnly, SdOnly, EmmcSteps, SdSteps, EmmcSelected, SdOnBus,
     SdSelected
<1>9. EmmcHost'
  BY <1>1, <1>2, <1>3, <1>4 DEF Known, EmmcHost, Thread, HostReset, EmmcOnly,
     SdOnly, EmmcSteps, SdSteps, EmmcSelected, SdOnBus, SdSelected
<1>10. SdCard' /\ SdPlace'
  BY <1>1, <1>2, <1>3, <1>4
  DEF Known, SdCard, SdPlace, EmmcCard, Thread, HostReset, Bare, SdCards,
      Selected, EmmcOnly, SdOnly, EmmcSteps, SdSteps, EmmcSelected, SdOnBus,
      SdSelected
<1> QED
  BY <1>5, <1>6, <1>7, <1>8, <1>9, <1>10 DEF Known

\* CMD8 of SdCardIdentification.
LEMMA SdVoltageHolds ==
  ASSUME IInv, TypeOK', NEW o \in Outcomes, SdVoltage(o)
  PROVE  Known'
<1>1. TypeOK /\ Known /\ card \in CardRec
  BY TypesAre DEF IInv, Known
<1>2. /\ at = "sVoltage" /\ card.state # "prg"
      /\ \/ card' = card
         \/ /\ card' = [card EXCEPT !.sawCmd8 = TRUE] /\ slot.media
            /\ card.kind \in SdCards
      /\ Ok("R1", o) =>
           /\ card' = [card EXCEPT !.sawCmd8 = TRUE] /\ slot.media
           /\ card.kind \in SdCards
      /\ UNCHANGED <<cap, slot, mode, tries, host, inserted, result>>
  <2>1. /\ Send("CMD8", o, [card EXCEPT !.sawCmd8 = TRUE])
        /\ Ok("R1", o) <=> slot.media /\ o = "answered"
    BY <1>1, OkHolds DEF SdVoltage, SdCardVoltageCheck, EmmcExecReads
  <2> QED
    BY <1>1, <2>1, SendHolds, ReachesHolds, TypesAre DEF SdVoltage, SdCards
<1>3. /\ card'.kind = card.kind
      /\ card'.offers = card.offers
      /\ card'.state = card.state
      /\ card'.width = card.width
      /\ card'.ddr = card.ddr
      /\ card'.timing = card.timing
      /\ card'.error = card.error
      /\ card'.refused = card.refused
  BY <1>1, <1>2 DEF CardRec, NoCard
<1>4. \/ at' = "sInquiry" /\ result' = result
  BY <1>1, <1>2, <1>3, TypesAre DEF SdVoltage, GoOn, SdSteps, EmmcSteps
<1>5. ClockWithinTiming'
  BY <1>1, <1>2, <1>3, ClockKept DEF Selected, Known, SdCard, SdSteps
<1>6. IdentifiedMeansReady'
  BY <1>1, <1>2, <1>4 DEF Known, Thread, IdentifiedMeansReady
<1>7. Thread'
  BY <1>1, <1>2, <1>3, <1>4 DEF Known, Thread, NoCard, HostReset, Bare,
     EmmcOnly, SdOnly, EmmcSteps, SdSteps, EmmcSelected, SdOnBus, SdSelected,
     SdCards
<1>8. EmmcCard'
  BY <1>1, <1>2, <1>3, <1>4 DEF Known, EmmcCard, Thread, Bare, Selected,
     BusAgrees, EmmcOnly, SdOnly, EmmcSteps, SdSteps, EmmcSelected, SdOnBus,
     SdSelected
<1>9. EmmcHost'
  BY <1>1, <1>2, <1>3, <1>4 DEF Known, EmmcHost, Thread, HostReset, EmmcOnly,
     SdOnly, EmmcSteps, SdSteps, EmmcSelected, SdOnBus, SdSelected
<1>10. SdCard' /\ SdPlace'
  BY <1>1, <1>2, <1>3, <1>4
  DEF Known, SdCard, SdPlace, EmmcCard, Thread, HostReset, Bare, SdCards,
      Selected, EmmcOnly, SdOnly, EmmcSteps, SdSteps, EmmcSelected, SdOnBus,
      SdSelected
<1> QED
  BY <1>5, <1>6, <1>7, <1>8, <1>9, <1>10 DEF Known

\* ACMD41 with argument 0.
LEMMA SdInquiryHolds ==
  ASSUME IInv, TypeOK', NEW o \in Outcomes, SdPlain(o), at = "sInquiry"
  PROVE  Known'
<1>1. TypeOK /\ Known /\ card \in CardRec
  BY TypesAre DEF IInv, Known
<1>2. /\ at = "sInquiry" /\ card.state # "prg"
      /\ card' = card \/ (card' = card /\ slot.media /\ card.kind \in SdCards)
      /\ Ok("R3", o) => card' = card /\ slot.media /\ card.kind \in SdCards
      /\ UNCHANGED <<cap, slot, mode, sd, tries, host, inserted>>
  <2>1. /\ Send("ACMD41", o, card)
        /\ Ok("R3", o) <=> slot.media /\ o = "answered"
    BY <1>1, OkHolds DEF SdPlain, SdCardSendOpCond, EmmcExecReads
  <2> QED
    BY <1>1, <2>1, SendHolds, ReachesHolds DEF SdPlain, CardIsAddressed
<1>3. /\ card'.kind = card.kind
      /\ card'.offers = card.offers
      /\ card'.state = card.state
      /\ card'.width = card.width
      /\ card'.ddr = card.ddr
      /\ card'.timing = card.timing
      /\ card'.error = card.error
      /\ card'.refused = card.refused
  BY <1>1, <1>2 DEF CardRec, NoCard
<1>4. \/ at' = "sOcr" /\ card.kind \in SdCards /\ slot.media /\ result' = result
      \/ at' = "idle" /\ result' = "failed"
  BY <1>1, <1>2, <1>3, TypesAre DEF SdPlain, GoOn, SdSteps, EmmcSteps
<1>5. ClockWithinTiming'
  BY <1>1, <1>2, <1>3, ClockKept DEF Selected, Known
<1>6. IdentifiedMeansReady'
  BY <1>1, <1>2, <1>4 DEF Known, Thread, IdentifiedMeansReady
<1>7. Thread'
  BY <1>1, <1>2, <1>3, <1>4 DEF Known, Thread, NoCard, HostReset, Bare,
     EmmcOnly, SdOnly, EmmcSteps, SdSteps, EmmcSelected, SdOnBus, SdSelected
<1>8. EmmcCard'
  BY <1>1, <1>2, <1>3, <1>4 DEF Known, EmmcCard, Thread, Bare, Selected,
     BusAgrees, EmmcOnly, SdOnly, EmmcSteps, SdSteps, EmmcSelected, SdOnBus,
     SdSelected
<1>9. EmmcHost'
  BY <1>1, <1>2, <1>3, <1>4 DEF Known, EmmcHost, Thread, HostReset, EmmcOnly,
     SdOnly, EmmcSteps, SdSteps, EmmcSelected, SdOnBus, SdSelected
<1>10. SdCard' /\ SdPlace'
  BY <1>1, <1>2, <1>3, <1>4
  DEF Known, SdCard, SdPlace, EmmcCard, Thread, HostReset, Bare, SdCards,
      Selected, EmmcOnly, SdOnly, EmmcSteps, SdSteps, EmmcSelected, SdOnBus,
      SdSelected
<1> QED
  BY <1>5, <1>6, <1>7, <1>8, <1>9, <1>10 DEF Known

\* ACMD41, repeated until the card is powered up.
LEMMA SdOcrHolds ==
  ASSUME IInv, TypeOK', NEW o \in Outcomes, SdOcr(o)
  PROVE  Known'
<1>1. TypeOK /\ Known /\ card \in CardRec
  BY TypesAre DEF IInv, Known
<1>2. /\ at = "sOcr" /\ card.state # "prg"
      /\ \/ card' = card
         \/ /\ card' = PoweredUp /\ slot.media /\ card.kind \in SdCards
      /\ Ok("R3", o) => card' = PoweredUp /\ slot.media /\ card.kind \in SdCards
      /\ UNCHANGED <<cap, slot, mode, sd, tries, host, inserted>>
  <2>1. /\ Send("ACMD41", o, PoweredUp)
        /\ Ok("R3", o) <=> slot.media /\ o = "answered"
    BY <1>1, OkHolds DEF SdOcr, SdCardSendOpCond, EmmcExecReads
  <2> QED
    BY <1>1, <2>1, SendHolds, ReachesHolds DEF SdOcr, CardIsAddressed
<1>3. /\ card'.kind = card.kind
      /\ card'.offers = card.offers
      /\ card'.width = card.width
      /\ card'.ddr = card.ddr
      /\ card'.timing = card.timing
      /\ card'.error = card.error
      /\ card'.refused = card.refused
      /\ card'.state = card.state \/ card'.state = "ready"
  BY <1>1, <1>2 DEF PoweredUp, Moved, CardRec, NoCard
<1>4. \/ at' = at /\ result' = result
      \/ at' = "sCid" /\ card'.state = "ready" /\ result' = result
      \/ at' = "idle" /\ result' = "failed"
  BY <1>1, <1>2, <1>3, TypesAre DEF SdOcr, GoOn, PoweredUp, Moved, CardRec,
     SdSteps, EmmcSteps
<1>5. ClockWithinTiming'
  BY <1>1, <1>2, <1>3, ClockKept DEF Selected, Known
<1>6. IdentifiedMeansReady'
  BY <1>1, <1>2, <1>4 DEF Known, Thread, IdentifiedMeansReady
<1>7. Thread'
  BY <1>1, <1>2, <1>3, <1>4 DEF Known, Thread, NoCard, HostReset, Bare,
     EmmcOnly, SdOnly, EmmcSteps, SdSteps, EmmcSelected, SdOnBus, SdSelected,
     SdCards
<1>8. EmmcCard'
  BY <1>1, <1>2, <1>3, <1>4 DEF Known, EmmcCard, Thread, Bare, Selected,
     BusAgrees, EmmcOnly, SdOnly, EmmcSteps, SdSteps, EmmcSelected, SdOnBus,
     SdSelected
<1>9. EmmcHost'
  BY <1>1, <1>2, <1>3, <1>4 DEF Known, EmmcHost, Thread, HostReset, EmmcOnly,
     SdOnly, EmmcSteps, SdSteps, EmmcSelected, SdOnBus, SdSelected
<1>10. SdCard' /\ SdPlace'
  BY <1>1, <1>2, <1>3, <1>4
  DEF Known, SdCard, SdPlace, EmmcCard, Thread, HostReset, Bare, SdCards,
      Selected, EmmcOnly, SdOnly, EmmcSteps, SdSteps, EmmcSelected, SdOnBus,
      SdSelected
<1> QED
  BY <1>5, <1>6, <1>7, <1>8, <1>9, <1>10 DEF Known

\* CMD2 of SdCardIdentification.
LEMMA SdCidHolds ==
  ASSUME IInv, TypeOK', NEW o \in Outcomes, SdPlain(o), at = "sCid"
  PROVE  Known'
<1>1. TypeOK /\ Known /\ card \in CardRec
  BY TypesAre DEF IInv, Known
<1>2. /\ at = "sCid" /\ card.state # "prg"
      /\ \/ card' = card
         \/ /\ card' = Moved("ident") /\ slot.media /\ card.kind # "none"
      /\ Ok("R2", o) =>
           /\ card' = Moved("ident") /\ slot.media /\ card.kind # "none"
      /\ UNCHANGED <<cap, slot, mode, sd, tries, host, inserted>>
  <2>1. /\ Send("CMD2", o, Moved("ident"))
        /\ Ok("R2", o) <=> slot.media /\ o = "answered"
    BY <1>1, OkHolds DEF SdPlain, SdCardAllSendCid, EmmcExecReads
  <2> QED
    BY <1>1, <2>1, SendHolds, ReachesHolds DEF SdPlain, CardIsAddressed
<1>3. /\ card'.kind = card.kind
      /\ card'.offers = card.offers
      /\ card'.width = card.width
      /\ card'.ddr = card.ddr
      /\ card'.timing = card.timing
      /\ card'.error = card.error
      /\ card'.refused = card.refused
      /\ card'.state \in {card.state, "ident"}
  BY <1>1, <1>2 DEF Moved, CardRec, NoCard
<1>4. \/ at' = "sRca" /\ card'.state = "ident" /\ result' = result
      \/ at' = "idle" /\ result' = "failed"
  BY <1>1, <1>2, <1>3, TypesAre DEF SdPlain, GoOn, Moved, CardRec, SdSteps,
     EmmcSteps
<1>5. ClockWithinTiming'
  BY <1>1, <1>2, <1>3, ClockKept DEF Selected, Known
<1>6. IdentifiedMeansReady'
  BY <1>1, <1>2, <1>4 DEF Known, Thread, IdentifiedMeansReady
<1>7. Thread'
  BY <1>1, <1>2, <1>3, <1>4 DEF Known, Thread, NoCard, HostReset, Bare,
     EmmcOnly, SdOnly, EmmcSteps, SdSteps, EmmcSelected, SdOnBus, SdSelected
<1>8. EmmcCard'
  BY <1>1, <1>2, <1>3, <1>4 DEF Known, EmmcCard, Thread, Bare, Selected,
     BusAgrees, EmmcOnly, SdOnly, EmmcSteps, SdSteps, EmmcSelected, SdOnBus,
     SdSelected
<1>9. EmmcHost'
  BY <1>1, <1>2, <1>3, <1>4 DEF Known, EmmcHost, Thread, HostReset, EmmcOnly,
     SdOnly, EmmcSteps, SdSteps, EmmcSelected, SdOnBus, SdSelected
<1>10. SdCard' /\ SdPlace'
  BY <1>1, <1>2, <1>3, <1>4
  DEF Known, SdCard, SdPlace, EmmcCard, Thread, HostReset, Bare, SdCards,
      Selected, EmmcOnly, SdOnly, EmmcSteps, SdSteps, EmmcSelected, SdOnBus,
      SdSelected
<1> QED
  BY <1>5, <1>6, <1>7, <1>8, <1>9, <1>10 DEF Known

\* CMD3, whose response only an SD slot reads.
LEMMA SdRcaHolds ==
  ASSUME IInv, TypeOK', NEW o \in Outcomes, SdRca(o)
  PROVE  Known'
<1>1. TypeOK /\ Known /\ card \in CardRec
  BY TypesAre DEF IInv, Known
<1>2. /\ at = "sRca" /\ card.state # "prg"
      /\ \/ card' = card
         \/ /\ card' = Moved("stby") /\ slot.media /\ card.kind # "none"
      /\ (Ok("R6", o) => slot.media) /\ sd'.v1 = sd.v1
      /\ (sd'.rca => slot.cardType = "sd" /\ card' = Moved("stby"))
      /\ UNCHANGED <<cap, slot, mode, tries, host, inserted>>
  <2>1. /\ Send("CMD3", o, Moved("stby"))
        /\ Expects("R6") <=> slot.cardType = "sd"
        /\ Ok("R6", o) <=> slot.media /\ (slot.cardType = "sd" => o = "answered")
    BY <1>1, OkHolds DEF SdRca, SdCardSetRca, EmmcExecReads
  <2> QED
    BY <1>1, <2>1, SendHolds, ReachesHolds, TypesAre DEF SdRca
<1>3. /\ card'.kind = card.kind
      /\ card'.offers = card.offers
      /\ card'.width = card.width
      /\ card'.ddr = card.ddr
      /\ card'.timing = card.timing
      /\ card'.error = card.error
      /\ card'.refused = card.refused
      /\ card'.state = card.state \/ card'.state = "stby"
  BY <1>1, <1>2 DEF Moved, CardRec, NoCard
<1>4. \/ /\ at' = "sCsd" /\ slot.media /\ result' = result
         /\ (sd'.rca => slot.cardType = "sd" /\ card'.state = "stby")
      \/ at' = "idle" /\ result' = "failed"
  BY <1>1, <1>2, <1>3, TypesAre DEF SdRca, GoOn, Moved, CardRec, SdSteps,
     EmmcSteps
<1>5. ClockWithinTiming'
  BY <1>1, <1>2, <1>3, ClockKept DEF Selected, Known
<1>6. IdentifiedMeansReady'
  BY <1>1, <1>2, <1>4 DEF Known, Thread, IdentifiedMeansReady
<1>7. Thread'
  BY <1>1, <1>2, <1>3, <1>4 DEF Known, Thread, NoCard, HostReset, Bare,
     EmmcOnly, SdOnly, EmmcSteps, SdSteps, EmmcSelected, SdOnBus, SdSelected
<1>8. EmmcCard'
  BY <1>1, <1>2, <1>3, <1>4 DEF Known, EmmcCard, Thread, Bare, Selected,
     BusAgrees, EmmcOnly, SdOnly, EmmcSteps, SdSteps, EmmcSelected, SdOnBus,
     SdSelected
<1>9. EmmcHost'
  BY <1>1, <1>2, <1>3, <1>4 DEF Known, EmmcHost, Thread, HostReset, EmmcOnly,
     SdOnly, EmmcSteps, SdSteps, EmmcSelected, SdOnBus, SdSelected
<1>10. SdCard' /\ SdPlace'
  BY <1>1, <1>2, <1>3, <1>4
  DEF Known, SdCard, SdPlace, EmmcCard, Thread, HostReset, Bare, SdCards,
      Selected, EmmcOnly, SdOnly, EmmcSteps, SdSteps, EmmcSelected, SdOnBus,
      SdSelected
<1> QED
  BY <1>5, <1>6, <1>7, <1>8, <1>9, <1>10 DEF Known

\* CMD9 of SdCardIdentification.
LEMMA SdCsdHolds ==
  ASSUME IInv, TypeOK', NEW o \in Outcomes, SdPlain(o), at = "sCsd"
  PROVE  Known'
<1>1. TypeOK /\ Known /\ card \in CardRec
  BY TypesAre DEF IInv, Known
<1>2. /\ at = "sCsd" /\ card.state # "prg"
      /\ card' = card \/ (card' = card /\ slot.media /\ CardIsAddressed)
      /\ Ok("R2", o) => card' = card /\ slot.media /\ CardIsAddressed
      /\ UNCHANGED <<cap, slot, mode, sd, tries, host, inserted>>
  <2>1. /\ Send("CMD9", o, card)
        /\ Ok("R2", o) <=> slot.media /\ o = "answered"
    BY <1>1, OkHolds DEF SdPlain, SdCardGetCsd, EmmcExecReads
  <2> QED
    BY <1>1, <2>1, SendHolds, ReachesHolds DEF SdPlain, CardIsAddressed
<1>3. /\ card'.kind = card.kind
      /\ card'.offers = card.offers
      /\ card'.state = card.state
      /\ card'.width = card.width
      /\ card'.ddr = card.ddr
      /\ card'.timing = card.timing
      /\ card'.error = card.error
      /\ card'.refused = card.refused
  BY <1>1, <1>2 DEF CardRec, NoCard
<1>4. \/ at' = "sSelect" /\ result' = result /\ (card.kind \in SdCards => sd.rca)
      \/ at' = "idle" /\ result' = "failed"
  BY <1>1, <1>2, <1>3, TypesAre DEF SdPlain, GoOn, CardIsAddressed, SdSteps,
     EmmcSteps
<1>5. ClockWithinTiming'
  BY <1>1, <1>2, <1>3, ClockKept DEF Selected, Known
<1>6. IdentifiedMeansReady'
  BY <1>1, <1>2, <1>4 DEF Known, Thread, IdentifiedMeansReady
<1>7. Thread'
  BY <1>1, <1>2, <1>3, <1>4 DEF Known, Thread, NoCard, HostReset, Bare,
     EmmcOnly, SdOnly, EmmcSteps, SdSteps, EmmcSelected, SdOnBus, SdSelected
<1>8. EmmcCard'
  BY <1>1, <1>2, <1>3, <1>4 DEF Known, EmmcCard, Thread, Bare, Selected,
     BusAgrees, EmmcOnly, SdOnly, EmmcSteps, SdSteps, EmmcSelected, SdOnBus,
     SdSelected
<1>9. EmmcHost'
  BY <1>1, <1>2, <1>3, <1>4 DEF Known, EmmcHost, Thread, HostReset, EmmcOnly,
     SdOnly, EmmcSteps, SdSteps, EmmcSelected, SdOnBus, SdSelected
<1>10. SdCard' /\ SdPlace'
  BY <1>1, <1>2, <1>3, <1>4
  DEF Known, SdCard, SdPlace, EmmcCard, Thread, HostReset, Bare, SdCards,
      Selected, EmmcOnly, SdOnly, EmmcSteps, SdSteps, EmmcSelected, SdOnBus,
      SdSelected
<1> QED
  BY <1>5, <1>6, <1>7, <1>8, <1>9, <1>10 DEF Known

\* CMD7 of SdCardIdentification: the card is selected at the slow clock.
LEMMA SdSelectHolds ==
  ASSUME IInv, TypeOK', NEW o \in Outcomes, SdPlain(o), at = "sSelect"
  PROVE  Known'
<1>1. TypeOK /\ Known /\ card \in CardRec
  BY TypesAre DEF IInv, Known
<1>2. /\ at = "sSelect" /\ card.state # "prg"
      /\ \/ card' = card
         \/ /\ card' = Moved("tran") /\ slot.media /\ card.kind # "none"
      /\ Ok("R1b", o) =>
           /\ card' = Moved("tran") /\ slot.media /\ card.kind # "none"
      /\ UNCHANGED <<cap, slot, mode, sd, tries, host, inserted>>
  <2>1. /\ Send("CMD7", o, Moved("tran"))
        /\ Ok("R1b", o) <=> slot.media /\ o = "answered"
    BY <1>1, OkHolds DEF SdPlain, SdCardSelect, EmmcExecReads
  <2> QED
    BY <1>1, <2>1, SendHolds, ReachesHolds DEF SdPlain, CardIsAddressed
<1>3. /\ card'.kind = card.kind
      /\ card'.offers = card.offers
      /\ card'.width = card.width
      /\ card'.ddr = card.ddr
      /\ card'.timing = card.timing
      /\ card'.error = card.error
      /\ card'.refused = card.refused
      /\ card'.state \in {card.state, "tran"}
  BY <1>1, <1>2 DEF Moved, CardRec, NoCard
<1>4. \/ at' = "sScr" /\ card'.state = "tran" /\ result' = result
      \/ at' = "idle" /\ result' = "failed"
  BY <1>1, <1>2, <1>3, TypesAre DEF SdPlain, GoOn, Moved, CardRec, SdSteps,
     EmmcSteps
<1>5. ClockWithinTiming'
  BY <1>1, <1>2, <1>3, ClockKept DEF Selected, Known, SdCard, SdPlace, SdCards,
     SdSteps, SdOnly, ClockWithinTiming, Thread, NoCard
<1>6. IdentifiedMeansReady'
  BY <1>1, <1>2, <1>4 DEF Known, Thread, IdentifiedMeansReady
<1>7. Thread'
  BY <1>1, <1>2, <1>3, <1>4 DEF Known, Thread, NoCard, HostReset, Bare,
     EmmcOnly, SdOnly, EmmcSteps, SdSteps, EmmcSelected, SdOnBus, SdSelected
<1>8. EmmcCard'
  BY <1>1, <1>2, <1>3, <1>4 DEF Known, EmmcCard, Thread, Bare, Selected,
     BusAgrees, EmmcOnly, SdOnly, EmmcSteps, SdSteps, EmmcSelected, SdOnBus,
     SdSelected
<1>9. EmmcHost'
  BY <1>1, <1>2, <1>3, <1>4 DEF Known, EmmcHost, Thread, HostReset, EmmcOnly,
     SdOnly, EmmcSteps, SdSteps, EmmcSelected, SdOnBus, SdSelected
<1>10. SdCard' /\ SdPlace'
  BY <1>1, <1>2, <1>3, <1>4
  DEF Known, SdCard, SdPlace, EmmcCard, Thread, HostReset, Bare, SdCards,
      Selected, EmmcOnly, SdOnly, EmmcSteps, SdSteps, EmmcSelected, SdOnBus,
      SdSelected
<1> QED
  BY <1>5, <1>6, <1>7, <1>8, <1>9, <1>10 DEF Known

\* ACMD51: the slot becomes an SD slot.
LEMMA SdFoundHolds ==
  ASSUME IInv, TypeOK', NEW o \in Outcomes, SdFound(o)
  PROVE  Known'
<1>1. TypeOK /\ Known /\ card \in CardRec
  BY TypesAre DEF IInv, Known
<1>2. /\ at = "sScr" /\ card.state # "prg"
      /\ card' = card \/ (card' = card /\ slot.media /\ card.kind \in SdCards)
      /\ Ok("R1", o) => card' = card /\ slot.media /\ card.kind \in SdCards
      /\ UNCHANGED <<cap, mode, sd, tries, host, inserted>>
  <2>1. /\ Send("ACMD51", o, card)
        /\ Ok("R1", o) <=> slot.media /\ o = "answered"
    BY <1>1, OkHolds DEF SdFound, SdCardGetScr, EmmcExecReads
  <2> QED
    BY <1>1, <2>1, SendHolds, ReachesHolds DEF SdFound, CardIsAddressed
<1>3. /\ card'.kind = card.kind
      /\ card'.offers = card.offers
      /\ card'.state = card.state
      /\ card'.width = card.width
      /\ card'.ddr = card.ddr
      /\ card'.timing = card.timing
      /\ card'.error = card.error
      /\ card'.refused = card.refused
  BY <1>1, <1>2 DEF CardRec, NoCard
<1>4. \/ /\ at' = "sWidth" /\ cap.width # 8 /\ slot'.cardType = "sd"
         /\ slot'.media = slot.media /\ result' = result
      \/ at' = "idle" /\ result' = "failed" /\ slot'.media = slot.media
  BY <1>1, <1>2, <1>3, TypesAre DEF SdFound, GoOn, SdSteps, EmmcSteps
<1>5. ClockWithinTiming'
  BY <1>1, <1>2, <1>3, ClockKept DEF Selected, Known
<1>6. IdentifiedMeansReady'
  BY <1>1, <1>2, <1>4 DEF Known, Thread, IdentifiedMeansReady
<1>7. Thread'
  BY <1>1, <1>2, <1>3, <1>4 DEF Known, Thread, NoCard, HostReset, Bare,
     EmmcOnly, SdOnly, EmmcSteps, SdSteps, EmmcSelected, SdOnBus, SdSelected
<1>8. EmmcCard'
  BY <1>1, <1>2, <1>3, <1>4 DEF Known, EmmcCard, Thread, Bare, Selected,
     BusAgrees, EmmcOnly, SdOnly, EmmcSteps, SdSteps, EmmcSelected, SdOnBus,
     SdSelected
<1>9. EmmcHost'
  BY <1>1, <1>2, <1>3, <1>4 DEF Known, EmmcHost, Thread, HostReset, EmmcOnly,
     SdOnly, EmmcSteps, SdSteps, EmmcSelected, SdOnBus, SdSelected
<1>10. SdCard' /\ SdPlace'
  BY <1>1, <1>2, <1>3, <1>4
  DEF Known, SdCard, SdPlace, EmmcCard, Thread, HostReset, Bare, SdCards,
      Selected, EmmcOnly, SdOnly, EmmcSteps, SdSteps, EmmcSelected, SdOnBus,
      SdSelected
<1> QED
  BY <1>5, <1>6, <1>7, <1>8, <1>9, <1>10 DEF Known

\* ACMD6: the card changes its bus first.
LEMMA SdSwitchWidthHolds ==
  ASSUME IInv, TypeOK', NEW o \in Outcomes, NEW taken \in BOOLEAN,
         SdSwitchWidth(o, taken)
  PROVE  Known'
<1>1. TypeOK /\ Known /\ card \in CardRec
  BY TypesAre DEF IInv, Known
<1>2. /\ at = "sWidth" /\ card.state # "prg"
      /\ \/ card' = card
         \/ /\ card' = SdWidthSwitched(taken) /\ slot.media
            /\ card.kind \in SdCards
      /\ Ok("R1", o) =>
           /\ card' = SdWidthSwitched(taken) /\ slot.media
           /\ card.kind \in SdCards
      /\ UNCHANGED <<cap, slot, mode, sd, tries, host, inserted>>
  <2>1. /\ Send("ACMD6", o, SdWidthSwitched(taken))
        /\ Ok("R1", o) <=> slot.media /\ o = "answered"
    BY <1>1, OkHolds DEF SdWidthSwitched, SdSwitchWidth, SdCardSetBusWidth,
       EmmcExecReads
  <2> QED
    BY <1>1, <2>1, SendHolds, ReachesHolds DEF SdSwitchWidth, CardIsAddressed
<1>3. /\ card'.kind = card.kind
      /\ card'.offers = card.offers
      /\ card'.state = card.state
      /\ card'.timing = card.timing
      /\ card'.ddr = card.ddr
  BY <1>1, <1>2 DEF SdWidthSwitched, Switched, CardRec, NoCard
<1>4. \/ /\ at' = "sWidthSet" /\ (card'.error \/ card'.width = cap.width)
         /\ result' = result
      \/ at' = "idle" /\ result' = "failed"
  BY <1>1, <1>2, <1>3, TypesAre DEF SdSwitchWidth, GoOn, SdWidthSwitched,
     Switched, CardRec, SdSteps, EmmcSteps
<1>5. ClockWithinTiming'
  BY <1>1, <1>2, <1>3, ClockKept DEF Selected, Known
<1>6. IdentifiedMeansReady'
  BY <1>1, <1>2, <1>4 DEF Known, Thread, IdentifiedMeansReady
<1>7. Thread'
  BY <1>1, <1>2, <1>3, <1>4 DEF Known, Thread, NoCard, HostReset, Bare,
     EmmcOnly, SdOnly, EmmcSteps, SdSteps, EmmcSelected, SdOnBus, SdSelected,
     SdCards
<1>8. EmmcCard'
  BY <1>1, <1>2, <1>3, <1>4 DEF Known, EmmcCard, Thread, Bare, Selected,
     BusAgrees, EmmcOnly, SdOnly, EmmcSteps, SdSteps, EmmcSelected, SdOnBus,
     SdSelected
<1>9. EmmcHost'
  BY <1>1, <1>2, <1>3, <1>4 DEF Known, EmmcHost, Thread, HostReset, EmmcOnly,
     SdOnly, EmmcSteps, SdSteps, EmmcSelected, SdOnBus, SdSelected
<1>10. SdCard' /\ SdPlace'
  BY <1>1, <1>2, <1>3, <1>4
  DEF Known, SdCard, SdPlace, EmmcCard, Thread, HostReset, Bare, SdCards,
      Selected, EmmcOnly, SdOnly, EmmcSteps, SdSteps, EmmcSelected, SdOnBus,
      SdSelected
<1> QED
  BY <1>5, <1>6, <1>7, <1>8, <1>9, <1>10 DEF Known

\* The status behind that switch, and the bus of the host.
LEMMA SdSetWidthHolds ==
  ASSUME IInv, TypeOK', NEW o \in Outcomes, SdSetWidth(o)
  PROVE  Known'
<1>1. TypeOK /\ Known /\ card \in CardRec
  BY TypesAre DEF IInv, Known
<1>2. /\ at = "sWidthSet" /\ card.state # "prg"
      /\ \/ card' = card
         \/ /\ card' = StatusRead /\ slot.media /\ card.kind # "none"
      /\ Ok("R1", o) => card' = StatusRead /\ slot.media /\ card.kind # "none"
      /\ UNCHANGED <<cap, slot, mode, sd, tries, inserted>>
  <2>1. /\ Send("CMD13", o, StatusRead)
        /\ Ok("R1", o) <=> slot.media /\ o = "answered"
    BY <1>1, OkHolds DEF SdSetWidth, SdCardSendStatus, EmmcExecReads
  <2> QED
    BY <1>1, <2>1, SendHolds, ReachesHolds DEF SdSetWidth, CardIsAddressed
<1>3. /\ card'.kind = card.kind
      /\ card'.offers = card.offers
      /\ card'.state = card.state
      /\ card'.width = card.width
      /\ card'.ddr = card.ddr
      /\ card'.timing = card.timing
      /\ card'.refused = card.refused
      /\ card'.error => card.error
  BY <1>1, <1>2 DEF StatusRead, CardRec, NoCard
<1>4. \/ /\ at' = "sVersion1" /\ sd.v1 /\ ~card.error /\ host'.width = cap.width
         /\ host'.ddr = cap.ddr50 /\ host'.khz = host.khz /\ result' = result
      \/ /\ at' = "sInquireMode" /\ ~sd.v1 /\ ~card.error
         /\ host'.width = cap.width /\ host'.ddr = cap.ddr50
         /\ host'.khz = host.khz /\ result' = result
      \/ at' = "idle" /\ result' = "failed" /\ host' = host
  BY <1>1, <1>2, <1>3, TypesAre DEF SdSetWidth, GoOn, SetBusWidth, SdSteps,
     EmmcSteps
<1>5. ClockWithinTiming'
  BY <1>1, <1>2, <1>3, <1>4, ClockKept DEF Selected, Known
<1>6. IdentifiedMeansReady'
  BY <1>1, <1>2, <1>4 DEF Known, Thread, IdentifiedMeansReady
<1>7. Thread'
  BY <1>1, <1>2, <1>3, <1>4 DEF Known, Thread, NoCard, HostReset, Bare,
     EmmcOnly, SdOnly, EmmcSteps, SdSteps, EmmcSelected, SdOnBus, SdSelected
<1>8. EmmcCard'
  BY <1>1, <1>2, <1>3, <1>4 DEF Known, EmmcCard, Thread, Bare, Selected,
     BusAgrees, EmmcOnly, SdOnly, EmmcSteps, SdSteps, EmmcSelected, SdOnBus,
     SdSelected
<1>9. EmmcHost'
  BY <1>1, <1>2, <1>3, <1>4 DEF Known, EmmcHost, Thread, HostReset, EmmcOnly,
     SdOnly, EmmcSteps, SdSteps, EmmcSelected, SdOnBus, SdSelected
<1>10. SdCard' /\ SdPlace'
  BY <1>1, <1>2, <1>3, <1>4
  DEF Known, SdCard, SdPlace, EmmcCard, Thread, HostReset, Bare, SdCards,
      Selected, EmmcOnly, SdOnly, EmmcSteps, SdSteps, EmmcSelected, SdOnBus,
      SdSelected
<1> QED
  BY <1>5, <1>6, <1>7, <1>8, <1>9, <1>10 DEF Known

\* CMD6 that reads the access modes.
LEMMA SdInquireModeHolds ==
  ASSUME IInv, TypeOK', NEW o \in Outcomes, SdInquireMode(o)
  PROVE  Known'
<1>1. TypeOK /\ Known /\ card \in CardRec
  BY TypesAre DEF IInv, Known
<1>2. /\ at = "sInquireMode" /\ card.state # "prg"
      /\ \/ card' = card
         \/ /\ card' = card /\ slot.media /\ card.kind \in SdCards /\ BusAgrees
      /\ Ok("R1", o) =>
           /\ card' = card /\ slot.media /\ card.kind \in SdCards /\ BusAgrees
      /\ UNCHANGED <<cap, slot, sd, tries, host, inserted>>
  <2>1. /\ Send("CMD6", o, card)
        /\ Ok("R1", o) <=> slot.media /\ o = "answered"
    BY <1>1, OkHolds DEF SdInquireMode, SdCardSwitch, EmmcExecReads
  <2> QED
    BY <1>1, <2>1, SendHolds, ReachesHolds DEF SdInquireMode, SdCards
<1>3. /\ card'.kind = card.kind
      /\ card'.offers = card.offers
      /\ card'.state = card.state
      /\ card'.width = card.width
      /\ card'.ddr = card.ddr
      /\ card'.timing = card.timing
      /\ card'.error = card.error
      /\ card'.refused = card.refused
  BY <1>1, <1>2 DEF CardRec, NoCard
<1>4. \/ /\ at' = "sSetMode" /\ BusAgrees /\ mode' = AccessMode(card.offers)
         /\ mode' \in {"default"} \cup SdModes /\ (mode' = "ddr50" => cap.ddr50)
         /\ result' = result
      \/ at' = "idle" /\ result' = "failed"
  BY <1>1, <1>2, <1>3, TypesAre DEF SdInquireMode, GoOn, AccessMode, SdModes,
     SdSteps, EmmcSteps
<1>5. ClockWithinTiming'
  BY <1>1, <1>2, <1>3, ClockKept DEF Selected, Known
<1>6. IdentifiedMeansReady'
  BY <1>1, <1>2, <1>4 DEF Known, Thread, IdentifiedMeansReady
<1>7. Thread'
  BY <1>1, <1>2, <1>3, <1>4 DEF Known, Thread, NoCard, HostReset, Bare,
     EmmcOnly, SdOnly, EmmcSteps, SdSteps, EmmcSelected, SdOnBus, SdSelected
<1>8. EmmcCard'
  BY <1>1, <1>2, <1>3, <1>4 DEF Known, EmmcCard, Thread, Bare, Selected,
     BusAgrees, EmmcOnly, SdOnly, EmmcSteps, SdSteps, EmmcSelected, SdOnBus,
     SdSelected
<1>9. EmmcHost'
  BY <1>1, <1>2, <1>3, <1>4 DEF Known, EmmcHost, Thread, HostReset, EmmcOnly,
     SdOnly, EmmcSteps, SdSteps, EmmcSelected, SdOnBus, SdSelected
<1>10. SdCard' /\ SdPlace'
  BY <1>1, <1>2, <1>3, <1>4
  DEF Known, SdCard, SdPlace, EmmcCard, Thread, HostReset, Bare, SdCards,
      Selected, EmmcOnly, SdOnly, EmmcSteps, SdSteps, EmmcSelected, SdOnBus,
      SdSelected, BusAgrees
<1> QED
  BY <1>5, <1>6, <1>7, <1>8, <1>9, <1>10 DEF Known

\* CMD6 that sets the access mode, and the clock.
LEMMA SdSetModeHolds ==
  ASSUME IInv, TypeOK', NEW o \in Outcomes, NEW taken \in BOOLEAN, SdSetMode(o,
         taken)
  PROVE  Known'
<1>1. TypeOK /\ Known /\ card \in CardRec
  BY TypesAre DEF IInv, Known
<1>2. /\ at = "sSetMode" /\ card.state # "prg"
      /\ \/ card' = card
         \/ /\ card' = ModeTaken(taken) /\ slot.media /\ card.kind \in SdCards
      /\ Ok("R1", o) =>
           /\ card' = ModeTaken(taken) /\ slot.media /\ card.kind \in SdCards
      /\ UNCHANGED <<cap, mode, sd, tries, inserted>>
  <2>1. /\ Send("CMD6", o, ModeTaken(taken))
        /\ Ok("R1", o) <=> slot.media /\ o = "answered"
    BY <1>1, OkHolds DEF SdSetMode, SdCardSwitch, ModeTaken, EmmcExecReads
  <2> QED
    BY <1>1, <2>1, SendHolds, ReachesHolds DEF SdSetMode, SdCards
<1>3. /\ card'.kind = card.kind
      /\ card'.offers = card.offers
      /\ card'.state = card.state
      /\ card'.width = card.width
      /\ card'.error = card.error
      /\ card'.timing \in {card.timing, mode}
  BY <1>1, <1>2 DEF ModeTaken, CardRec, NoCard
<1>4. \/ /\ at' = "idle" /\ result' = "identified" /\ slot'.media = slot.media
         /\ slot'.cardType = slot.cardType /\ card'.timing = mode
         /\ card'.ddr = (mode = "ddr50") /\ card.kind \in SdCards /\ slot.media
         /\ host'.width = host.width /\ host'.ddr = host.ddr
         /\ host'.khz <= SdKHz(mode)
      \/ at' = "idle" /\ result' = "failed" /\ host' = host /\ slot' = slot
  <2>1. /\ ClockSupply(host, SdKHz(mode)).width = host.width
        /\ ClockSupply(host, SdKHz(mode)).ddr = host.ddr
        /\ ClockSupply(host, SdKHz(mode)).khz <= SdKHz(mode)
    <3>1. SdKHz(mode) \in Nat /\ SdKHz(mode) >= 400
      BY SdKHzHolds
    <3> QED
      BY <1>1, <3>1, TypesAre, ClockHolds
  <2>2. Finish(Ok("R1", o) /\ taken, mode) /\ slot \in SlotRec
    BY <1>1, TypesAre DEF SdSetMode, SlotRec
  <2>3. CASE Ok("R1", o) /\ taken
    <3>1. card' = [card EXCEPT !.timing = mode, !.ddr = mode = "ddr50"]
      BY <1>2, <2>3 DEF ModeTaken
    <3>2. card'.timing = mode /\ card'.ddr = (mode = "ddr50")
      BY <1>1, <3>1 DEF CardRec
    <3>3. /\ slot'.media = slot.media /\ slot'.cardType = slot.cardType
          /\ host' = ClockSupply(host, SdKHz(mode))
          /\ at' = "idle" /\ result' = "identified"
      BY <2>2, <2>3 DEF Finish, Identified, SlotRec
    <3> QED
      BY <1>2, <2>1, <2>3, <3>2, <3>3
  <2>4. CASE ~(Ok("R1", o) /\ taken)
    BY <1>2, <2>2, <2>4 DEF Finish, GoOn, EmmcSteps
  <2> QED
    BY <2>3, <2>4
<1>5. ClockWithinTiming'
  <2>1. /\ card.kind \in SdCards => host.khz <= 400
        /\ card'.kind \in SdCards => MaxKHz' = SdKHz(card'.timing)
        /\ host.khz \in Nat /\ host'.khz \in Nat
    <3>1. card.kind \in SdCards => host.khz <= 400
      BY <1>1, <1>2 DEF Known, SdCard, SdSteps
    <3>2. card'.kind \in SdCards => MaxKHz' = SdKHz(card'.timing)
      BY DEF MaxKHz, SdKHz, SdCards
    <3> QED
      BY <1>1, <3>1, <3>2 DEF TypeOK
  <2>2. /\ card.kind \in SdCards \cup {"none"}
        /\ card.kind = "none" => card.state = "idle"
    BY <1>1, <1>2 DEF Known, SdPlace, SdOnly, SdSteps, Thread, NoCard
  <2>3. SdKHz(card'.timing) \in Nat /\ SdKHz(card'.timing) >= 25000
    BY SdKHzHolds
  <2> QED
    BY <1>3, <1>4, <2>1, <2>2, <2>3 DEF ClockWithinTiming
<1>6. IdentifiedMeansReady'
  BY <1>1, <1>2, <1>3, <1>4, CapTyped DEF Known, SdCard, IdentifiedMeansReady,
     TypeOf, SdCards, BusAgrees, Selected, SdSteps, SdOnBus, SdSelected
<1>7. Thread'
  BY <1>1, <1>2, <1>3, <1>4 DEF Known, Thread, NoCard, HostReset, Bare,
     EmmcOnly, SdOnly, EmmcSteps, SdSteps, EmmcSelected, SdOnBus, SdSelected,
     SdCards
<1>8. EmmcCard'
  BY <1>1, <1>2, <1>3, <1>4 DEF Known, EmmcCard, Thread, Bare, Selected,
     BusAgrees, EmmcOnly, SdOnly, EmmcSteps, SdSteps, EmmcSelected, SdOnBus,
     SdSelected
<1>9. EmmcHost'
  BY <1>1, <1>2, <1>3, <1>4 DEF Known, EmmcHost, Thread, HostReset, EmmcOnly,
     SdOnly, EmmcSteps, SdSteps, EmmcSelected, SdOnBus, SdSelected
<1>10. SdCard' /\ SdPlace'
  BY <1>1, <1>2, <1>3, <1>4
  DEF Known, SdCard, SdPlace, EmmcCard, Thread, HostReset, Bare, SdCards,
      Selected, EmmcOnly, SdOnly, EmmcSteps, SdSteps, EmmcSelected, SdOnBus,
      SdSelected
<1> QED
  BY <1>5, <1>6, <1>7, <1>8, <1>9, <1>10 DEF Known

\* A version 1 card: mode and clock from bytes never written.
LEMMA SdVersion1Holds ==
  ASSUME IInv, TypeOK', NEW offered, NEW echoed, SdVersion1(offered, echoed)
  PROVE  Known'
<1>1. TypeOK /\ Known /\ card \in CardRec /\ slot \in SlotRec
  BY TypesAre DEF IInv, Known, SlotRec
<1>2. /\ at = "sVersion1" /\ card.state # "prg"
      /\ UNCHANGED <<cap, sd, tries, card, inserted, lost>>
      /\ Finish(echoed, mode')
  BY DEF SdVersion1
<1>3. /\ ClockSupply(host, SdKHz(mode')).width = host.width
      /\ ClockSupply(host, SdKHz(mode')).ddr = host.ddr
  <2>1. SdKHz(mode') \in Nat /\ SdKHz(mode') >= 25000
    BY SdKHzHolds
  <2>2. SdKHz(mode') >= 400
    BY <2>1
  <2> QED
    BY <1>1, <2>1, <2>2, TypesAre, ClockHolds
<1>4. /\ slot'.media = slot.media /\ slot'.cardType = slot.cardType
      /\ host'.width = host.width /\ host'.ddr = host.ddr
      /\ at' = "idle" /\ result' \in {"identified", "failed"}
  BY <1>1, <1>2, <1>3 DEF Finish, Identified, GoOn, SlotRec, EmmcSteps
<1>5. ClockWithinTiming'
  BY <1>1, <1>2 DEF Known, ClockWithinTiming, SdPlace, SdOnly, SdSteps, Thread,
     NoCard
<1>6. IdentifiedMeansReady'
  BY <1>1, <1>2, <1>4, CapTyped
  DEF Known, SdCard, SdPlace, SdOnly, IdentifiedMeansReady, CardRec, TypeOf,
      SdCards, BusAgrees, Selected, SdSteps, SdOnBus, SdSelected
<1>7. Thread'
  BY <1>1, <1>2, <1>4 DEF Known, Thread, EmmcOnly, SdOnly, EmmcSteps, SdSteps
<1>8. EmmcCard' /\ EmmcHost'
  BY <1>4 DEF EmmcCard, EmmcHost, EmmcOnly, EmmcSteps, EmmcSelected
<1>9. SdCard' /\ SdPlace'
  BY <1>4 DEF SdCard, SdPlace, SdOnly, SdSteps, SdOnBus, SdSelected
<1> QED
  BY <1>5, <1>6, <1>7, <1>8, <1>9 DEF Known

\* The host as a reset leaves it is slow enough for every card.
LEMMA ClockHostReset ==
  ASSUME TypeOK', host'.khz <= 400 PROVE ClockWithinTiming'
<1>1. MaxKHz' \in Nat /\ MaxKHz' >= 25000
  BY DEF MaxKHz, SdKHz
<1>2. host'.khz \in Nat
  BY DEF TypeOK
<1> QED
  BY <1>1, <1>2 DEF ClockWithinTiming

\* DriverBindingStart, with the card the boot loader may have left selected.
LEMMA StartHolds ==
  ASSUME IInv, TypeOK', NEW ok \in BOOLEAN, Start(ok)
  PROVE  Known'
<1>1. TypeOK /\ Known /\ card \in CardRec /\ host \in HostRec /\ slot \in SlotRec
  BY TypesAre DEF IInv, Known, HostRec, SlotRec
<1>2. /\ at = "boot" /\ UNCHANGED <<cap, mode, sd, card, inserted>>
      /\ slot'.media = (card.kind # "none" \/ ~cap.removable)
      /\ \/ /\ at' = "eReset" /\ result' = "none" /\ tries' = 0
            /\ host'.width = 1 /\ host'.ddr = FALSE /\ host'.khz <= 400
         \/ at' = "stopped" /\ host' = host /\ result' = result
      /\ MaxOcr > 0
  <2>1. slot' = [slot EXCEPT !.media = card.kind # "none" \/ ~cap.removable,
                             !.cardType = cap.cardType]
    BY DEF Start
  <2>2. slot'.media = (card.kind # "none" \/ ~cap.removable)
    BY <1>1, <2>1 DEF SlotRec
  <2>3. Reset.width = 1 /\ Reset.ddr = FALSE /\ Reset.khz <= 400 /\ MaxOcr > 0
    <3>1. MaxOcr > 0
      BY BoundsAssumption
    <3> QED
      BY <1>1, <3>1, ResetHolds
  <2> QED
    BY <2>2, <2>3 DEF Start, ResetHost
<1>3. ClockWithinTiming'
  BY <1>1, <1>2, ClockHostReset DEF HostReset, Known, Thread
<1>4. IdentifiedMeansReady'
  BY <1>1, <1>2 DEF Known, Thread, IdentifiedMeansReady
<1>5. Thread'
  <2>1. Bare /\ HostReset /\ result = "none" /\ card' = card /\ cap' = cap
    BY <1>1, <1>2 DEF Known, Thread
  <2>2. card.kind = "none" => card = NoCard
    BY <1>1 DEF Known, Thread
  <2>3. HostReset' /\ Bare'
    BY <1>2, <2>1 DEF HostReset, Bare
  <2>4. ~slot'.media => card.state = "idle"
    <3>1. CASE card.kind = "none"
      BY <2>2, <3>1 DEF NoCard
    <3>2. CASE card.kind # "none"
      <4>1. slot'.media = TRUE
        BY <1>2, <3>2
      <4> QED
        BY <4>1
    <3> QED
      BY <3>1, <3>2
  <2> QED
    BY <1>2, <2>1, <2>2, <2>3, <2>4 DEF Thread, NoCard, EmmcOnly, SdSteps,
       EmmcSteps
<1>6. EmmcCard'
  BY <1>1, <1>2 DEF Known, EmmcCard, Thread, Bare, Selected, BusAgrees,
     EmmcOnly, SdOnly, EmmcSteps, SdSteps, EmmcSelected, SdOnBus, SdSelected
<1>7. EmmcHost'
  BY <1>1, <1>2 DEF Known, EmmcHost, Thread, HostReset, EmmcOnly, SdOnly,
     EmmcSteps, SdSteps, EmmcSelected, SdOnBus, SdSelected
<1>8. SdCard' /\ SdPlace'
  BY <1>1, <1>2
  DEF Known, SdCard, SdPlace, EmmcCard, Thread, HostReset, Bare, SdCards,
      Selected, EmmcOnly, SdOnly, EmmcSteps, SdSteps, EmmcSelected, SdOnBus,
      SdSelected
<1> QED
  BY <1>3, <1>4, <1>5, <1>6, <1>7, <1>8 DEF Known

\* EnumerateDevice finds the card gone.
LEMMA EnumRemovalHolds ==
  ASSUME IInv, TypeOK', EnumRemoval
  PROVE  Known'
<1>1. TypeOK /\ Known /\ card \in CardRec /\ host \in HostRec /\ slot \in SlotRec
  BY TypesAre DEF IInv, Known, HostRec, SlotRec
<1>2. /\ at = "idle" /\ slot'.media = FALSE /\ card.kind = "none"
      /\ result' = "none"
      /\ UNCHANGED <<at, cap, mode, sd, tries, host, card, inserted>>
  BY <1>1 DEF EnumRemoval, SlotRec
<1>3. ClockWithinTiming'
  BY <1>1, <1>2 DEF Known, Thread, NoCard, ClockWithinTiming
<1>4. IdentifiedMeansReady'
  BY <1>1, <1>2 DEF Known, Thread, IdentifiedMeansReady, BusAgrees
<1>5. Thread'
  BY <1>1, <1>2 DEF Known, Thread, NoCard, HostReset, Bare, EmmcOnly, SdOnly,
     EmmcSteps, SdSteps, EmmcSelected, SdOnBus, SdSelected
<1>6. EmmcCard'
  BY <1>1, <1>2 DEF Known, EmmcCard, Thread, Bare, Selected, BusAgrees,
     EmmcOnly, SdOnly, EmmcSteps, SdSteps, EmmcSelected, SdOnBus, SdSelected
<1>7. EmmcHost'
  BY <1>1, <1>2 DEF Known, EmmcHost, Thread, HostReset, EmmcOnly, SdOnly,
     EmmcSteps, SdSteps, EmmcSelected, SdOnBus, SdSelected
<1>8. SdCard' /\ SdPlace'
  BY <1>1, <1>2
  DEF Known, SdCard, SdPlace, EmmcCard, Thread, HostReset, Bare, SdCards,
      Selected, EmmcOnly, SdOnly, EmmcSteps, SdSteps, EmmcSelected, SdOnBus,
      SdSelected
<1> QED
  BY <1>3, <1>4, <1>5, <1>6, <1>7, <1>8 DEF Known

\* EnumerateDevice finds a new card.
LEMMA EnumInsertionHolds ==
  ASSUME IInv, TypeOK', EnumInsertion
  PROVE  Known'
<1>1. TypeOK /\ Known /\ card \in CardRec /\ host \in HostRec /\ slot \in SlotRec
  BY TypesAre DEF IInv, Known, HostRec, SlotRec
<1>2. /\ at = "idle" /\ ~slot.media /\ slot'.media = TRUE /\ card.kind # "none"
      /\ at' = "eReset" /\ result' = "none" /\ tries' = 0
      /\ host'.width = 1 /\ host'.ddr = FALSE /\ host'.khz <= 400
      /\ MaxOcr > 0 /\ UNCHANGED <<cap, mode, sd, card, inserted>>
  <2>1. Reset.width = 1 /\ Reset.ddr = FALSE /\ Reset.khz <= 400 /\ MaxOcr > 0
    <3>1. MaxOcr > 0
      BY BoundsAssumption
    <3> QED
      BY <1>1, <3>1, ResetHolds
  <2>2. slot'.media = TRUE
    BY <1>1 DEF EnumInsertion, SlotRec
  <2> QED
    BY <2>1, <2>2 DEF EnumInsertion, ResetHost
<1>3. ClockWithinTiming'
  BY <1>1, <1>2, ClockHostReset DEF HostReset, Known, Thread
<1>4. IdentifiedMeansReady'
  BY <1>1, <1>2 DEF Known, Thread, IdentifiedMeansReady, BusAgrees
<1>5. Thread'
  BY <1>1, <1>2 DEF Known, Thread, NoCard, HostReset, Bare, EmmcOnly, SdOnly,
     EmmcSteps, SdSteps, EmmcSelected, SdOnBus, SdSelected
<1>6. EmmcCard'
  BY <1>1, <1>2 DEF Known, EmmcCard, Thread, Bare, Selected, BusAgrees,
     EmmcOnly, SdOnly, EmmcSteps, SdSteps, EmmcSelected, SdOnBus, SdSelected
<1>7. EmmcHost'
  BY <1>1, <1>2 DEF Known, EmmcHost, Thread, HostReset, EmmcOnly, SdOnly,
     EmmcSteps, SdSteps, EmmcSelected, SdOnBus, SdSelected
<1>8. SdCard' /\ SdPlace'
  BY <1>1, <1>2
  DEF Known, SdCard, SdPlace, EmmcCard, Thread, HostReset, Bare, SdCards,
      Selected, EmmcOnly, SdOnly, EmmcSteps, SdSteps, EmmcSelected, SdOnBus,
      SdSelected
<1> QED
  BY <1>3, <1>4, <1>5, <1>6, <1>7, <1>8 DEF Known

\* The thread hangs in CheckTrbResult.
LEMMA EmmcDataMissingHolds ==
  ASSUME IInv, TypeOK', EmmcDataMissing
  PROVE  Known'
<1>1. TypeOK /\ Known /\ card \in CardRec /\ host \in HostRec /\ slot \in SlotRec
  BY TypesAre DEF IInv, Known, HostRec, SlotRec
<1>2. /\ at = "eExtCsd" /\ at' = "spin"
      /\ UNCHANGED <<cap, slot, mode, sd, tries, host, card, inserted, result>>
  BY <1>1 DEF EmmcDataMissing
<1>3. ClockWithinTiming'
  BY <1>1, <1>2, ClockKept DEF Selected, Known
<1>4. IdentifiedMeansReady'
  BY <1>1, <1>2 DEF Known, Thread, IdentifiedMeansReady, BusAgrees
<1>5. Thread'
  BY <1>1, <1>2 DEF Known, Thread, NoCard, HostReset, Bare, EmmcOnly, SdOnly,
     EmmcSteps, SdSteps, EmmcSelected, SdOnBus, SdSelected
<1>6. EmmcCard'
  BY <1>1, <1>2 DEF Known, EmmcCard, Thread, Bare, Selected, BusAgrees,
     EmmcOnly, SdOnly, EmmcSteps, SdSteps, EmmcSelected, SdOnBus, SdSelected
<1>7. EmmcHost'
  BY <1>1, <1>2 DEF Known, EmmcHost, Thread, HostReset, EmmcOnly, SdOnly,
     EmmcSteps, SdSteps, EmmcSelected, SdOnBus, SdSelected
<1>8. SdCard' /\ SdPlace'
  BY <1>1, <1>2
  DEF Known, SdCard, SdPlace, EmmcCard, Thread, HostReset, Bare, SdCards,
      Selected, EmmcOnly, SdOnly, EmmcSteps, SdSteps, EmmcSelected, SdOnBus,
      SdSelected
<1> QED
  BY <1>3, <1>4, <1>5, <1>6, <1>7, <1>8 DEF Known

\* A card gets ready for ACMD41 or CMD1.
LEMMA PowerUpHolds ==
  ASSUME IInv, TypeOK', PowerUp
  PROVE  Known'
<1>1. TypeOK /\ Known /\ card \in CardRec /\ host \in HostRec /\ slot \in SlotRec
  BY TypesAre DEF IInv, Known, HostRec, SlotRec
<1>2. /\ card'.kind = card.kind
      /\ card'.offers = card.offers
      /\ card'.state = card.state
      /\ card'.width = card.width
      /\ card'.ddr = card.ddr
      /\ card'.timing = card.timing
      /\ card'.error = card.error
      /\ card'.refused = card.refused
      /\ UNCHANGED <<at, cap, slot, mode, sd, tries, host, inserted, lost, result>>
      /\ card.kind # "none"
  BY <1>1 DEF PowerUp, CardRec
<1>3. ClockWithinTiming'
  BY <1>1, <1>2, ClockKept DEF Selected, Known
<1>4. IdentifiedMeansReady'
  BY <1>1, <1>2 DEF Known, Thread, IdentifiedMeansReady, BusAgrees
<1>5. Thread'
  BY <1>1, <1>2 DEF Known, Thread, NoCard, HostReset, Bare, EmmcOnly, SdOnly,
     EmmcSteps, SdSteps, EmmcSelected, SdOnBus, SdSelected
<1>6. EmmcCard'
  BY <1>1, <1>2 DEF Known, EmmcCard, Thread, Bare, Selected, BusAgrees,
     EmmcOnly, SdOnly, EmmcSteps, SdSteps, EmmcSelected, SdOnBus, SdSelected
<1>7. EmmcHost'
  BY <1>1, <1>2 DEF Known, EmmcHost, Thread, HostReset, EmmcOnly, SdOnly,
     EmmcSteps, SdSteps, EmmcSelected, SdOnBus, SdSelected
<1>8. SdCard' /\ SdPlace'
  BY <1>1, <1>2
  DEF Known, SdCard, SdPlace, EmmcCard, Thread, HostReset, Bare, SdCards,
      Selected, EmmcOnly, SdOnly, EmmcSteps, SdSteps, EmmcSelected, SdOnBus,
      SdSelected
<1> QED
  BY <1>3, <1>4, <1>5, <1>6, <1>7, <1>8 DEF Known

\* A card ends a switch.
LEMMA SwitchEndsHolds ==
  ASSUME IInv, TypeOK', SwitchEnds
  PROVE  Known'
<1>1. TypeOK /\ Known /\ card \in CardRec /\ host \in HostRec /\ slot \in SlotRec
  BY TypesAre DEF IInv, Known, HostRec, SlotRec
<1>2. /\ card'.kind = card.kind
      /\ card'.offers = card.offers
      /\ card'.width = card.width
      /\ card'.ddr = card.ddr
      /\ card'.timing = card.timing
      /\ card'.error = card.error
      /\ card'.refused = card.refused
      /\ card.state = "prg" /\ card'.state = "tran"
      /\ UNCHANGED <<at, cap, slot, mode, sd, tries, host, inserted, lost, result>>
  BY <1>1 DEF SwitchEnds, CardRec
<1>3. ClockWithinTiming'
  BY <1>1, <1>2, ClockKept DEF Selected, Known
<1>4. IdentifiedMeansReady'
  BY <1>1, <1>2 DEF Known, Thread, IdentifiedMeansReady, BusAgrees
<1>5. Thread'
  BY <1>1, <1>2 DEF Known, Thread, NoCard, HostReset, Bare, EmmcOnly, SdOnly,
     EmmcSteps, SdSteps, EmmcSelected, SdOnBus, SdSelected, CardRec
<1>6. EmmcCard'
  BY <1>1, <1>2 DEF Known, EmmcCard, Thread, Bare, Selected, BusAgrees,
     EmmcOnly, SdOnly, EmmcSteps, SdSteps, EmmcSelected, SdOnBus, SdSelected
<1>7. EmmcHost'
  BY <1>1, <1>2 DEF Known, EmmcHost, Thread, HostReset, EmmcOnly, SdOnly,
     EmmcSteps, SdSteps, EmmcSelected, SdOnBus, SdSelected
<1>8. SdCard' /\ SdPlace'
  BY <1>1, <1>2
  DEF Known, SdCard, SdPlace, EmmcCard, Thread, HostReset, Bare, SdCards,
      Selected, EmmcOnly, SdOnly, EmmcSteps, SdSteps, EmmcSelected, SdOnBus,
      SdSelected
<1> QED
  BY <1>3, <1>4, <1>5, <1>6, <1>7, <1>8 DEF Known

\* A card is put in.
LEMMA InsertHolds ==
  ASSUME IInv, TypeOK', Insert
  PROVE  Known'
<1>1. TypeOK /\ Known /\ card \in CardRec /\ host \in HostRec /\ slot \in SlotRec
  BY TypesAre DEF IInv, Known, HostRec, SlotRec
<1>2. /\ card'.kind # "none" /\ card'.state = "idle" /\ card'.width = 1
      /\ card'.ddr = FALSE /\ card'.timing = "default" /\ card'.error = FALSE
      /\ card'.refused = FALSE /\ card.kind = "none" /\ ~slot.media
      /\ UNCHANGED <<at, cap, slot, mode, sd, tries, host, lost, result>>
  BY <1>1, NewCardsHold DEF Insert, CardRec
<1>3. ClockWithinTiming'
  BY <1>2 DEF ClockWithinTiming
<1>4. IdentifiedMeansReady'
  BY <1>1, <1>2 DEF Known, Thread, IdentifiedMeansReady, BusAgrees
<1>5. Thread'
  BY <1>1, <1>2 DEF Known, Thread, NoCard, HostReset, Bare, EmmcOnly, SdOnly,
     EmmcSteps, SdSteps, EmmcSelected, SdOnBus, SdSelected
<1>6. EmmcCard'
  BY <1>1, <1>2 DEF Known, EmmcCard, Thread, Bare, Selected, BusAgrees,
     EmmcOnly, SdOnly, EmmcSteps, SdSteps, EmmcSelected, SdOnBus, SdSelected
<1>7. EmmcHost'
  BY <1>1, <1>2 DEF Known, EmmcHost, Thread, HostReset, EmmcOnly, SdOnly,
     EmmcSteps, SdSteps, EmmcSelected, SdOnBus, SdSelected
<1>8. SdCard' /\ SdPlace'
  BY <1>1, <1>2
  DEF Known, SdCard, SdPlace, EmmcCard, Thread, HostReset, Bare, SdCards,
      Selected, EmmcOnly, SdOnly, EmmcSteps, SdSteps, EmmcSelected, SdOnBus,
      SdSelected
<1> QED
  BY <1>3, <1>4, <1>5, <1>6, <1>7, <1>8 DEF Known

\* The card is taken out, at any step.
LEMMA RemoveHolds ==
  ASSUME IInv, TypeOK', Remove
  PROVE  Known'
<1>1. TypeOK /\ Known /\ card \in CardRec /\ host \in HostRec /\ slot \in SlotRec
  BY TypesAre DEF IInv, Known, HostRec, SlotRec
<1>2. /\ card' = NoCard
      /\ UNCHANGED <<at, cap, slot, mode, sd, tries, host, inserted, lost, result>>
  BY <1>1 DEF Remove
<1>3. ClockWithinTiming'
  BY <1>2 DEF NoCard, ClockWithinTiming
<1>4. IdentifiedMeansReady'
  BY <1>2 DEF NoCard, IdentifiedMeansReady
<1>5. Thread'
  BY <1>1, <1>2 DEF Known, Thread, NoCard, HostReset, Bare, EmmcOnly, SdOnly,
     EmmcSteps, SdSteps, EmmcSelected, SdOnBus, SdSelected
<1>6. EmmcCard'
  BY <1>2 DEF NoCard, EmmcCard
<1>7. EmmcHost'
  BY <1>1, <1>2 DEF Known, EmmcHost, Thread, HostReset, EmmcOnly, SdOnly,
     EmmcSteps, SdSteps, EmmcSelected, SdOnBus, SdSelected
<1>8. SdCard' /\ SdPlace'
  BY <1>1, <1>2 DEF Known, NoCard, SdCard, SdPlace, SdCards
<1> QED
  BY <1>3, <1>4, <1>5, <1>6, <1>7, <1>8 DEF Known

(***************************************************************************)
(* The theorems.                                                           *)
(***************************************************************************)

\* The invariant holds at boot.
LEMMA InitHolds == Init => IInv
<1> SUFFICES ASSUME Init PROVE IInv
  OBVIOUS
<1>1. PICK c \in FreshCards :
        card \in {c, [c EXCEPT !.state = "tran"]}
                   \cup (IF cap.removable THEN {NoCard} ELSE {})
  BY DEF Init
<1>2. /\ c \in CardRec /\ c.kind # "none" /\ c.state = "idle" /\ c.width = 1
      /\ ~c.ddr /\ c.timing = "default" /\ ~c.error /\ ~c.refused
  BY NewCardsHold
<1>3. /\ [c EXCEPT !.state = "tran"] \in CardRec
      /\ NoCard \in CardRec
  BY <1>2 DEF CardRec, NoCard, States
<1>4. card = NoCard \/ card = c \/ card = [c EXCEPT !.state = "tran"]
  BY <1>1
<1>5. /\ card \in CardRec /\ card.width = 1 /\ ~card.ddr
      /\ card.timing = "default" /\ ~card.error
      /\ card.kind = "none" => card = NoCard
  <2>1. CASE card = NoCard
    BY <1>3, <2>1 DEF NoCard
  <2>2. CASE card = c
    BY <1>2, <2>2
  <2>3. CASE card = [c EXCEPT !.state = "tran"]
    <3>1. /\ card.width = c.width /\ card.ddr = c.ddr /\ card.kind = c.kind
          /\ card.timing = c.timing /\ card.error = c.error
      BY <1>2, <2>3 DEF CardRec
    <3> QED
      BY <1>2, <1>3, <2>3, <3>1
  <2> QED
    BY <1>4, <2>1, <2>2, <2>3
<1>6. /\ at = "boot" /\ mode = "default" /\ tries = 0 /\ cap \in Capabilities
      /\ slot = [media |-> FALSE, cardType |-> "emmc", initialized |-> FALSE]
      /\ sd = [v1 |-> FALSE, rca |-> FALSE]
      /\ host = [width |-> 1, ddr |-> FALSE, khz |-> 0]
      /\ inserted = 1 /\ lost = FALSE /\ result = "none"
  BY DEF Init
<1>7. TypeOK
  <2>1. /\ slot \in [media : BOOLEAN, cardType : CardTypes, initialized : BOOLEAN]
        /\ sd \in [v1 : BOOLEAN, rca : BOOLEAN]
        /\ host \in [width : {1, 4, 8}, ddr : BOOLEAN, khz : Nat]
    BY <1>6 DEF CardTypes
  <2>2. tries \in 0..MaxOcr /\ inserted \in 1..MaxCards
    BY <1>6, BoundsAssumption
  <2> QED
    BY <1>5, <1>6, <2>1, <2>2, TypesAre DEF Places
<1>8. Thread
  BY <1>5, <1>6 DEF Thread, EmmcOnly, EmmcSteps, SdSteps, HostReset, Bare
<1>9. EmmcCard /\ EmmcHost /\ SdCard /\ SdPlace
  BY <1>6 DEF EmmcCard, EmmcHost, SdCard, SdPlace, EmmcOnly, SdOnly, EmmcSteps,
     SdSteps, EmmcSelected, SdOnBus, SdSelected
<1>10. ClockWithinTiming
  <2>1. MaxKHz \in Nat /\ MaxKHz >= 25000 /\ host.khz = 0
    BY <1>6, <1>7, MaxKHzHolds
  <2> QED
    BY <2>1 DEF ClockWithinTiming
<1>11. IdentifiedMeansReady
  BY <1>6 DEF IdentifiedMeansReady
<1> QED
  BY <1>7, <1>8, <1>9, <1>10, <1>11 DEF IInv

\* Every step keeps the invariant.
LEMMA StepHolds == IInv /\ [Next]_vars => IInv'
<1> SUFFICES ASSUME IInv, [Next]_vars PROVE IInv'
  OBVIOUS
<1>1. TypeOK'
  BY TypesHold
<1>2. CASE Host
  <2>1. ASSUME EnumRemoval PROVE Known'
    BY <1>1, <2>1, EnumRemovalHolds
  <2>2. ASSUME EnumInsertion PROVE Known'
    BY <1>1, <2>2, EnumInsertionHolds
  <2>3. ASSUME NEW ok \in BOOLEAN, Start(ok) PROVE Known'
    BY <1>1, <2>3, StartHolds
  <2>4. ASSUME NEW q, NEW echoed, SdVersion1(q, echoed) PROVE Known'
    BY <1>1, <2>4, SdVersion1Holds
  <2>5. Known'
    BY <1>2, <2>1, <2>2, <2>3, <2>4 DEF Host
  <2> QED
    BY <1>1, <2>5 DEF IInv, Known
<1>3. ASSUME NEW o \in Outcomes, Driver(o) PROVE Known'
  <2>1. CASE EmmcPlain(o)
    <3>1. at \in {"eReset", "eCid", "eCsd", "eSelect"}
      BY <2>1 DEF EmmcPlain
    <3> QED
      BY <1>1, <2>1, <3>1, EmmcResetHolds, EmmcCidHolds, EmmcCsdHolds,
         EmmcSelectHolds
  <2>2. CASE SdPlain(o)
    <3>1. at \in {"sReset", "sInquiry", "sCid", "sCsd", "sSelect"}
      BY <2>2 DEF SdPlain
    <3> QED
      BY <1>1, <2>2, <3>1, SdResetHolds, SdInquiryHolds, SdCidHolds, SdCsdHolds,
         SdSelectHolds
  <2>3. CASE EmmcOcr(o) \/ EmmcFound(o) \/ EmmcTran(o) \/ EmmcSetWidth(o)
    BY <1>1, <2>3, EmmcOcrHolds, EmmcFoundHolds, EmmcTranHolds,
       EmmcSetWidthHolds
  <2>4. CASE EmmcReadExtCsd(o) \/ EmmcSwitchClock(o) \/ EmmcFinal(o)
    BY <1>1, <2>4, EmmcReadExtCsdHolds, EmmcSwitchClockHolds, EmmcFinalHolds
  <2>5. CASE SdVoltage(o) \/ SdOcr(o) \/ SdRca(o) \/ SdFound(o)
    BY <1>1, <2>5, SdVoltageHolds, SdOcrHolds, SdRcaHolds, SdFoundHolds
  <2>6. CASE SdSetWidth(o) \/ SdInquireMode(o)
    BY <1>1, <2>6, SdSetWidthHolds, SdInquireModeHolds
  <2>7. ASSUME NEW taken \in BOOLEAN,
               EmmcSwitchWidth(o, taken) \/ EmmcSwitchTiming(o, taken)
                 \/ SdSwitchWidth(o, taken) \/ SdSetMode(o, taken)
        PROVE  Known'
    BY <1>1, <2>7, EmmcSwitchWidthHolds, EmmcSwitchTimingHolds,
       SdSwitchWidthHolds, SdSetModeHolds
  <2> QED
    BY <1>3, <2>1, <2>2, <2>3, <2>4, <2>5, <2>6, <2>7 DEF Driver
<1>4. CASE EmmcDataMissing \/ PowerUp \/ SwitchEnds \/ Insert \/ Remove
  <2>1. Known'
    BY <1>1, <1>4, EmmcDataMissingHolds, PowerUpHolds, SwitchEndsHolds,
       InsertHolds, RemoveHolds
  <2> QED
    BY <1>1, <2>1 DEF IInv, Known
<1>5. CASE UNCHANGED vars
  BY <1>1, <1>5
  DEF vars, IInv, Thread, EmmcCard, EmmcHost, SdCard, SdPlace,
      ClockWithinTiming, IdentifiedMeansReady, MaxKHz, SdKHz, BusAgrees,
      Selected, HostReset, Bare
<1> QED
  BY <1>1, <1>2, <1>3, <1>4, <1>5 DEF Next, IInv, Known

\* What the two routines know of host and card at each of their steps, with
\* commands lost at any of them and cards taken out and put in at any time
\* (EmmcDevice.c:797-1047, SdDevice.c:814-1116, DwMmcHcDxe.c:284-410).
THEOREM Inductive == Spec => []IInv
<1>1. Init => IInv
  BY InitHolds
<1>2. IInv /\ [Next]_vars => IInv'
  BY StepHolds
<1> QED
  BY <1>1, <1>2, PTL DEF Spec

\* Every variable keeps its type; CMD1 is sent at most MaxOcr times.
THEOREM TypeCorrect == Spec => []TypeOK
<1>1. IInv => TypeOK
  BY DEF IInv
<1> QED
  BY <1>1, Inductive, PTL

\* Identification that succeeds leaves a card that is selected, known by its
\* type to DwMmcExecTrb, and on the host's bus, but for the named cases.
THEOREM ReadyWhenIdentified == Spec => []IdentifiedMeansReady
<1>1. IInv => IdentifiedMeansReady
  BY DEF IInv
<1> QED
  BY <1>1, Inductive, PTL

\* No selected card is clocked faster than its timing allows: for every base
\* clock, with the divisor as ClockSupply computes it (DwMmcHci.c:291-375).
THEOREM ClockStaysWithin == Spec => []ClockWithinTiming
<1>1. IInv => ClockWithinTiming
  BY DEF IInv
<1> QED
  BY <1>1, Inductive, PTL

\* Bus width and clock of the host change only while the card is not busy
\* (EmmcDevice.c:550-706): every change follows a command that waited for
\* DATA_BUSY, although the poll for the programming state reads wrong bits.
THEOREM BusChangesAreQuiet == Spec => QuietBusChange
<1>1. [Next]_vars => [host' # host => card.state # "prg"]_vars
  <2> SUFFICES ASSUME [Next]_vars, host' # host PROVE card.state # "prg"
    BY DEF vars
  <2>1. CASE Host
    BY <2>1 DEF Host, EnumRemoval, EnumInsertion, Start, ResetHost, SdVersion1
  <2>2. ASSUME NEW o \in Outcomes, Driver(o) PROVE card.state # "prg"
    <3>1. CASE EmmcSetWidth(o) \/ EmmcSwitchClock(o) \/ SdSetWidth(o)
      BY <3>1 DEF EmmcSetWidth, EmmcSwitchClock, SdSetWidth, EmmcSendStatus,
         SdCardSendStatus, Send
    <3>2. ASSUME NEW taken \in BOOLEAN, SdSetMode(o, taken)
          PROVE  card.state # "prg"
      BY <3>2 DEF SdSetMode, SdCardSwitch, Send
    <3>3. \/ EmmcSetWidth(o) \/ EmmcSwitchClock(o) \/ SdSetWidth(o)
          \/ \E taken \in BOOLEAN : SdSetMode(o, taken)
      BY <2>2
      DEF Driver, EmmcPlain, EmmcOcr, EmmcFound, EmmcTran, EmmcReadExtCsd,
          EmmcFinal, SdPlain, SdVoltage, SdOcr, SdRca, SdFound, SdInquireMode,
          EmmcSwitchWidth, EmmcSwitchTiming, SdSwitchWidth
    <3> QED
      BY <3>1, <3>2, <3>3
  <2>3. CASE EmmcDataMissing \/ PowerUp \/ SwitchEnds \/ Insert \/ Remove
    BY <2>3 DEF EmmcDataMissing, PowerUp, SwitchEnds, Insert, Remove
  <2> QED
    BY <2>1, <2>2, <2>3 DEF Next, vars
<1> QED
  BY <1>1, PTL DEF Spec, QuietBusChange

(***************************************************************************)
(* A card that is fit.                                                     *)
(***************************************************************************)

\* CMD0 of EmmcIdentification.
LEMMA EmmcResetFits ==
  ASSUME IInv, IInv', FitCard, NEW o \in Outcomes, EmmcPlain(o), at = "eReset"
  PROVE  FitCard' /\ HealthyCardIdentified'
<1>1. TypeOK /\ Known /\ card \in CardRec
  BY TypesAre DEF IInv, Known
<1> SUFFICES ASSUME Fit' PROVE FitCard' /\ HealthyCardIdentified'
  BY DEF FitCard, HealthyCardIdentified, Fit
<1>2. /\ at = "eReset" /\ card.state # "prg" /\ ~lost
      /\ UNCHANGED <<cap, slot, mode, sd, tries, host, inserted>>
      /\ slot'.media = slot.media
      /\ Ok("none", o) <=> slot.media
      /\ IF Reaches("CMD0") THEN o = "answered" /\ card' = Idle
                            ELSE o = "silent" /\ card' = card
  <2>1. /\ Send("CMD0", o, Idle) /\ ~lost'
        /\ slot'.media /\ slot'.media = slot.media
        /\ Ok("none", o) <=> slot.media
    BY <1>1, OkHolds, TypesAre DEF Fit, EmmcPlain, EmmcReset, EmmcExecReads
  <2> QED
    BY <1>1, <2>1, SendHolds DEF EmmcPlain
<1>3. /\ card'.kind = card.kind
      /\ card'.refused = card.refused
  BY <1>1, <1>2 DEF Idle, CardRec, NoCard
<1>4. Fit
  BY <1>2, <1>3 DEF Fit
<1>5. Reaches("CMD0")
  BY <1>1, <1>2, <1>3, <1>4, ReachesHolds, TypesAre
  DEF Known, FitCard, Fit, Thread, EmmcCard, EmmcHost, SdCard, SdPlace,
      BusAgrees, HostReset, Bare, Selected, SdCards, CardIsAddressed, CardRec,
      EmmcOnly, SdOnly, EmmcSteps, SdSteps, EmmcSelected, SdOnBus, SdSelected
<1>6. \/ at' = "eOcr" /\ card'.state = "idle" /\ result' = result
  BY <1>1, <1>2, <1>3, <1>4, <1>5 DEF EmmcPlain, Fit, FitCard, GoOn, Idle,
     NoCard, EmmcSteps, SdSteps
<1> QED
  BY <1>1, <1>2, <1>3, <1>4, <1>5, <1>6
  DEF Known, Fit, FitCard, HealthyCardIdentified, Thread, EmmcCard, SdPlace,
      SdCards, Bare, EmmcOnly, SdOnly, EmmcSteps, SdSteps, EmmcSelected,
      SdOnBus, SdSelected

\* CMD1, repeated until the card is powered up.
LEMMA EmmcOcrFits ==
  ASSUME IInv, IInv', FitCard, NEW o \in Outcomes, EmmcOcr(o)
  PROVE  FitCard' /\ HealthyCardIdentified'
<1>1. TypeOK /\ Known /\ card \in CardRec
  BY TypesAre DEF IInv, Known
<1> SUFFICES ASSUME Fit' PROVE FitCard' /\ HealthyCardIdentified'
  BY DEF FitCard, HealthyCardIdentified, Fit
<1>2. /\ at = "eOcr" /\ card.state # "prg" /\ ~lost
      /\ UNCHANGED <<cap, slot, mode, sd, host, inserted>>
      /\ slot'.media = slot.media
      /\ Ok("R3", o) <=> slot.media /\ o = "answered"
      /\ IF Reaches("CMD1") THEN o = "answered" /\ card' = PoweredUp
                            ELSE o = "silent" /\ card' = card
  <2>1. /\ Send("CMD1", o, PoweredUp) /\ ~lost'
        /\ slot'.media /\ slot'.media = slot.media
        /\ Ok("R3", o) <=> slot.media /\ o = "answered"
    BY <1>1, OkHolds, TypesAre DEF Fit, EmmcOcr, EmmcGetOcr, EmmcExecReads
  <2> QED
    BY <1>1, <2>1, SendHolds DEF EmmcOcr
<1>3. /\ card'.kind = card.kind
      /\ card'.refused = card.refused
      /\ card'.error = card.error
  BY <1>1, <1>2 DEF PoweredUp, Moved, CardRec, NoCard
<1>4. Fit
  BY <1>2, <1>3 DEF Fit
<1>5. Reaches("CMD1") <=> card.kind = "emmc"
  BY <1>1, <1>2, <1>3, <1>4, ReachesHolds, TypesAre
  DEF Known, FitCard, Fit, Thread, EmmcCard, EmmcHost, SdCard, SdPlace,
      BusAgrees, HostReset, Bare, Selected, SdCards, CardIsAddressed, CardRec,
      EmmcOnly, SdOnly, EmmcSteps, SdSteps, EmmcSelected, SdOnBus, SdSelected
<1>0. tries \in Nat /\ tries < MaxOcr /\ MaxOcr \in Nat /\ card.state = "idle"
  BY <1>1, <1>2, <1>4, BoundsAssumption, TypesAre DEF Known, Thread, FitCard
<1>6. \/ at' = "eOcr" /\ card'.state = "idle" /\ result' = result
      \/ at' = "eCid" /\ result' = result
      \/ /\ at' = "sReset" /\ (card.kind = "emmc" => tries' = MaxOcr)
         /\ result' = result
  BY <1>1, <1>2, <1>3, <1>4, <1>5, <1>0 DEF EmmcOcr, PoweredUp, Fit, FitCard,
     GoOn, EmmcSteps, SdSteps
<1> QED
  BY <1>1, <1>2, <1>3, <1>4, <1>5, <1>6
  DEF Known, Fit, FitCard, HealthyCardIdentified, Thread, EmmcCard, SdPlace,
      SdCards, Bare, EmmcOnly, SdOnly, EmmcSteps, SdSteps, EmmcSelected,
      SdOnBus, SdSelected

\* CMD2 of EmmcIdentification.
LEMMA EmmcCidFits ==
  ASSUME IInv, IInv', FitCard, NEW o \in Outcomes, EmmcPlain(o), at = "eCid"
  PROVE  FitCard' /\ HealthyCardIdentified'
<1>1. TypeOK /\ Known /\ card \in CardRec
  BY TypesAre DEF IInv, Known
<1> SUFFICES ASSUME Fit' PROVE FitCard' /\ HealthyCardIdentified'
  BY DEF FitCard, HealthyCardIdentified, Fit
<1>2. /\ at = "eCid" /\ card.state # "prg" /\ ~lost
      /\ UNCHANGED <<cap, slot, mode, sd, tries, host, inserted>>
      /\ slot'.media = slot.media
      /\ Ok("R2", o) <=> slot.media /\ o = "answered"
      /\ IF Reaches("CMD2") THEN o = "answered" /\ card' = Moved("ident")
                            ELSE o = "silent" /\ card' = card
  <2>1. /\ Send("CMD2", o, Moved("ident")) /\ ~lost'
        /\ slot'.media /\ slot'.media = slot.media
        /\ Ok("R2", o) <=> slot.media /\ o = "answered"
    BY <1>1, OkHolds, TypesAre DEF Fit, EmmcPlain, EmmcGetAllCid, EmmcExecReads
  <2> QED
    BY <1>1, <2>1, SendHolds DEF EmmcPlain
<1>3. /\ card'.kind = card.kind
      /\ card'.refused = card.refused
      /\ card'.error = card.error
  BY <1>1, <1>2 DEF Moved, CardRec, NoCard
<1>4. Fit
  BY <1>2, <1>3 DEF Fit
<1>5. Reaches("CMD2")
  BY <1>1, <1>2, <1>3, <1>4, ReachesHolds, TypesAre
  DEF Known, FitCard, Fit, Thread, EmmcCard, EmmcHost, SdCard, SdPlace,
      BusAgrees, HostReset, Bare, Selected, SdCards, CardIsAddressed, CardRec,
      EmmcOnly, SdOnly, EmmcSteps, SdSteps, EmmcSelected, SdOnBus, SdSelected
<1>6. \/ at' = "eRca" /\ result' = result
  BY <1>1, <1>2, <1>3, <1>4, <1>5 DEF EmmcPlain, Fit, FitCard, GoOn, EmmcSteps,
     SdSteps
<1> QED
  BY <1>1, <1>2, <1>3, <1>4, <1>5, <1>6
  DEF Known, Fit, FitCard, HealthyCardIdentified, Thread, EmmcCard, SdPlace,
      SdCards, Bare, EmmcOnly, SdOnly, EmmcSteps, SdSteps, EmmcSelected,
      SdOnBus, SdSelected

\* CMD3: the slot becomes an eMMC slot.
LEMMA EmmcFoundFits ==
  ASSUME IInv, IInv', FitCard, NEW o \in Outcomes, EmmcFound(o)
  PROVE  FitCard' /\ HealthyCardIdentified'
<1>1. TypeOK /\ Known /\ card \in CardRec
  BY TypesAre DEF IInv, Known
<1> SUFFICES ASSUME Fit' PROVE FitCard' /\ HealthyCardIdentified'
  BY DEF FitCard, HealthyCardIdentified, Fit
<1>2. /\ at = "eRca" /\ card.state # "prg" /\ ~lost
      /\ UNCHANGED <<cap, mode, sd, tries, host, inserted>>
      /\ slot'.media = slot.media
      /\ Ok("R1", o) <=> slot.media /\ o = "answered"
      /\ IF Reaches("CMD3") THEN o = "answered" /\ card' = Moved("stby")
                            ELSE o = "silent" /\ card' = card
  <2>1. /\ Send("CMD3", o, Moved("stby")) /\ ~lost'
        /\ slot'.media /\ slot'.media = slot.media
        /\ Ok("R1", o) <=> slot.media /\ o = "answered"
    BY <1>1, OkHolds, TypesAre DEF Fit, EmmcFound, EmmcSetRca, EmmcExecReads
  <2> QED
    BY <1>1, <2>1, SendHolds DEF EmmcFound
<1>3. /\ card'.kind = card.kind
      /\ card'.refused = card.refused
      /\ card'.error = card.error
  BY <1>1, <1>2 DEF Moved, CardRec, NoCard
<1>4. Fit
  BY <1>2, <1>3 DEF Fit
<1>5. Reaches("CMD3")
  BY <1>1, <1>2, <1>3, <1>4, ReachesHolds, TypesAre
  DEF Known, FitCard, Fit, Thread, EmmcCard, EmmcHost, SdCard, SdPlace,
      BusAgrees, HostReset, Bare, Selected, SdCards, CardIsAddressed, CardRec,
      EmmcOnly, SdOnly, EmmcSteps, SdSteps, EmmcSelected, SdOnBus, SdSelected
<1>6. \/ at' = "eCsd" /\ result' = result
  BY <1>1, <1>2, <1>3, <1>4, <1>5 DEF EmmcFound, Fit, FitCard, GoOn, EmmcSteps,
     SdSteps
<1> QED
  BY <1>1, <1>2, <1>3, <1>4, <1>5, <1>6
  DEF Known, Fit, FitCard, HealthyCardIdentified, Thread, EmmcCard, SdPlace,
      SdCards, Bare, EmmcOnly, SdOnly, EmmcSteps, SdSteps, EmmcSelected,
      SdOnBus, SdSelected

\* CMD9 of EmmcIdentification.
LEMMA EmmcCsdFits ==
  ASSUME IInv, IInv', FitCard, NEW o \in Outcomes, EmmcPlain(o), at = "eCsd"
  PROVE  FitCard' /\ HealthyCardIdentified'
<1>1. TypeOK /\ Known /\ card \in CardRec
  BY TypesAre DEF IInv, Known
<1> SUFFICES ASSUME Fit' PROVE FitCard' /\ HealthyCardIdentified'
  BY DEF FitCard, HealthyCardIdentified, Fit
<1>2. /\ at = "eCsd" /\ card.state # "prg" /\ ~lost
      /\ UNCHANGED <<cap, slot, mode, sd, tries, host, inserted>>
      /\ slot'.media = slot.media
      /\ Ok("R2", o) <=> slot.media /\ o = "answered"
      /\ IF Reaches("CMD9") THEN o = "answered" /\ card' = card
                            ELSE o = "silent" /\ card' = card
  <2>1. /\ Send("CMD9", o, card) /\ ~lost'
        /\ slot'.media /\ slot'.media = slot.media
        /\ Ok("R2", o) <=> slot.media /\ o = "answered"
    BY <1>1, OkHolds, TypesAre DEF Fit, EmmcPlain, EmmcGetCsd, EmmcExecReads
  <2> QED
    BY <1>1, <2>1, SendHolds DEF EmmcPlain
<1>3. /\ card'.kind = card.kind
      /\ card'.refused = card.refused
      /\ card'.error = card.error
  BY <1>1, <1>2 DEF CardRec, NoCard
<1>4. Fit
  BY <1>2, <1>3 DEF Fit
<1>5. Reaches("CMD9")
  BY <1>1, <1>2, <1>3, <1>4, ReachesHolds, TypesAre
  DEF Known, FitCard, Fit, Thread, EmmcCard, EmmcHost, SdCard, SdPlace,
      BusAgrees, HostReset, Bare, Selected, SdCards, CardIsAddressed, CardRec,
      EmmcOnly, SdOnly, EmmcSteps, SdSteps, EmmcSelected, SdOnBus, SdSelected
<1>6. \/ at' = "eSelect" /\ result' = result
  BY <1>1, <1>2, <1>3, <1>4, <1>5 DEF EmmcPlain, Fit, FitCard, GoOn, EmmcSteps,
     SdSteps
<1> QED
  BY <1>1, <1>2, <1>3, <1>4, <1>5, <1>6
  DEF Known, Fit, FitCard, HealthyCardIdentified, Thread, EmmcCard, SdPlace,
      SdCards, Bare, EmmcOnly, SdOnly, EmmcSteps, SdSteps, EmmcSelected,
      SdOnBus, SdSelected

\* CMD7 of EmmcIdentification: the card is selected at the slow clock.
LEMMA EmmcSelectFits ==
  ASSUME IInv, IInv', FitCard, NEW o \in Outcomes, EmmcPlain(o), at = "eSelect"
  PROVE  FitCard' /\ HealthyCardIdentified'
<1>1. TypeOK /\ Known /\ card \in CardRec
  BY TypesAre DEF IInv, Known
<1> SUFFICES ASSUME Fit' PROVE FitCard' /\ HealthyCardIdentified'
  BY DEF FitCard, HealthyCardIdentified, Fit
<1>2. /\ at = "eSelect" /\ card.state # "prg" /\ ~lost
      /\ UNCHANGED <<cap, slot, mode, sd, tries, host, inserted>>
      /\ slot'.media = slot.media
      /\ Ok("R1", o) <=> slot.media /\ o = "answered"
      /\ IF Reaches("CMD7") THEN o = "answered" /\ card' = Moved("tran")
                            ELSE o = "silent" /\ card' = card
  <2>1. /\ Send("CMD7", o, Moved("tran")) /\ ~lost'
        /\ slot'.media /\ slot'.media = slot.media
        /\ Ok("R1", o) <=> slot.media /\ o = "answered"
    BY <1>1, OkHolds, TypesAre DEF Fit, EmmcPlain, EmmcSelect, EmmcExecReads
  <2> QED
    BY <1>1, <2>1, SendHolds DEF EmmcPlain
<1>3. /\ card'.kind = card.kind
      /\ card'.refused = card.refused
      /\ card'.error = card.error
  BY <1>1, <1>2 DEF Moved, CardRec, NoCard
<1>4. Fit
  BY <1>2, <1>3 DEF Fit
<1>5. Reaches("CMD7")
  BY <1>1, <1>2, <1>3, <1>4, ReachesHolds, TypesAre
  DEF Known, FitCard, Fit, Thread, EmmcCard, EmmcHost, SdCard, SdPlace,
      BusAgrees, HostReset, Bare, Selected, SdCards, CardIsAddressed, CardRec,
      EmmcOnly, SdOnly, EmmcSteps, SdSteps, EmmcSelected, SdOnBus, SdSelected
<1>6. \/ at' = "eTran" /\ result' = result
  BY <1>1, <1>2, <1>3, <1>4, <1>5 DEF EmmcPlain, Fit, FitCard, GoOn, EmmcSteps,
     SdSteps
<1> QED
  BY <1>1, <1>2, <1>3, <1>4, <1>5, <1>6
  DEF Known, Fit, FitCard, HealthyCardIdentified, Thread, EmmcCard, SdPlace,
      SdCards, Bare, EmmcOnly, SdOnly, EmmcSteps, SdSteps, EmmcSelected,
      SdOnBus, SdSelected

\* The wait for the transfer state.
LEMMA EmmcTranFits ==
  ASSUME IInv, IInv', FitCard, NEW o \in Outcomes, EmmcTran(o)
  PROVE  FitCard' /\ HealthyCardIdentified'
<1>1. TypeOK /\ Known /\ card \in CardRec
  BY TypesAre DEF IInv, Known
<1> SUFFICES ASSUME Fit' PROVE FitCard' /\ HealthyCardIdentified'
  BY DEF FitCard, HealthyCardIdentified, Fit
<1>2. /\ at = "eTran" /\ card.state # "prg" /\ ~lost
      /\ UNCHANGED <<cap, slot, mode, sd, tries, host, inserted>>
      /\ slot'.media = slot.media
      /\ Ok("R1", o) <=> slot.media /\ o = "answered"
      /\ IF Reaches("CMD13") THEN o = "answered" /\ card' = StatusRead
                            ELSE o = "silent" /\ card' = card
  <2>1. /\ Send("CMD13", o, StatusRead) /\ ~lost'
        /\ slot'.media /\ slot'.media = slot.media
        /\ Ok("R1", o) <=> slot.media /\ o = "answered"
    BY <1>1, OkHolds, TypesAre DEF Fit, EmmcTran, EmmcSendStatus, EmmcExecReads
  <2> QED
    BY <1>1, <2>1, SendHolds DEF EmmcTran
<1>3. /\ card'.kind = card.kind
      /\ card'.refused = card.refused
      /\ card'.error => card.error
  BY <1>1, <1>2 DEF StatusRead, CardRec, NoCard
<1>4. Fit
  BY <1>2, <1>3 DEF Fit
<1>5. Reaches("CMD13")
  BY <1>1, <1>2, <1>3, <1>4, ReachesHolds, TypesAre
  DEF Known, FitCard, Fit, Thread, EmmcCard, EmmcHost, SdCard, SdPlace,
      BusAgrees, HostReset, Bare, Selected, SdCards, CardIsAddressed, CardRec,
      EmmcOnly, SdOnly, EmmcSteps, SdSteps, EmmcSelected, SdOnBus, SdSelected
<1>6. \/ at' \in {"eTran", "eWidth1"} /\ result' = result
  BY <1>1, <1>2, <1>3, <1>4, <1>5 DEF EmmcTran, Fit, FitCard, GoOn, EmmcSteps,
     SdSteps
<1> QED
  BY <1>1, <1>2, <1>3, <1>4, <1>5, <1>6
  DEF Known, Fit, FitCard, HealthyCardIdentified, Thread, EmmcCard, SdPlace,
      SdCards, Bare, EmmcOnly, SdOnly, EmmcSteps, SdSteps, EmmcSelected,
      SdOnBus, SdSelected

\* CMD6 of EmmcSwitchBusWidth: the card changes its bus first.
LEMMA EmmcSwitchWidthFits ==
  ASSUME IInv, IInv', FitCard, NEW o \in Outcomes, NEW taken \in BOOLEAN,
         EmmcSwitchWidth(o, taken)
  PROVE  FitCard' /\ HealthyCardIdentified'
<1>1. TypeOK /\ Known /\ card \in CardRec
  BY TypesAre DEF IInv, Known
<1> SUFFICES ASSUME Fit' PROVE FitCard' /\ HealthyCardIdentified'
  BY DEF FitCard, HealthyCardIdentified, Fit
<1>2. /\ at \in {"eWidth1", "eWidth"} /\ card.state # "prg" /\ ~lost
      /\ UNCHANGED <<cap, slot, mode, sd, tries, host, inserted>>
      /\ slot'.media = slot.media
      /\ Ok("R1b", o) <=> slot.media /\ o = "answered"
      /\ IF Reaches("SWITCH") THEN o = "answered" /\ card' = WidthSwitched(taken)
                            ELSE o = "silent" /\ card' = card
  <2>1. /\ Send("SWITCH", o, WidthSwitched(taken)) /\ ~lost'
        /\ slot'.media /\ slot'.media = slot.media
        /\ Ok("R1b", o) <=> slot.media /\ o = "answered"
    BY <1>1, OkHolds, TypesAre DEF WidthSwitched, Fit, EmmcSwitchWidth,
       EmmcSwitch, EmmcExecReads
  <2> QED
    BY <1>1, <2>1, SendHolds DEF EmmcSwitchWidth
<1>3. /\ card'.kind = card.kind
      /\ ~card'.refused => card'.error = card.error /\ ~card.refused
  BY <1>1, <1>2 DEF WidthSwitched, Switched, CardRec, NoCard
<1>4. Fit
  BY <1>2, <1>3 DEF Fit
<1>5. Reaches("SWITCH")
  BY <1>1, <1>2, <1>3, <1>4, ReachesHolds, TypesAre
  DEF Known, FitCard, Fit, Thread, EmmcCard, EmmcHost, SdCard, SdPlace,
      BusAgrees, HostReset, Bare, Selected, SdCards, CardIsAddressed, CardRec,
      EmmcOnly, SdOnly, EmmcSteps, SdSteps, EmmcSelected, SdOnBus, SdSelected
<1>6. \/ at' \in {"eWidth1Set", "eWidthSet"} /\ result' = result
  BY <1>1, <1>2, <1>3, <1>4, <1>5 DEF EmmcSwitchWidth, Fit, FitCard, GoOn,
     EmmcSteps, SdSteps
<1> QED
  BY <1>1, <1>2, <1>3, <1>4, <1>5, <1>6
  DEF Known, Fit, FitCard, HealthyCardIdentified, Thread, EmmcCard, SdPlace,
      SdCards, Bare, EmmcOnly, SdOnly, EmmcSteps, SdSteps, EmmcSelected,
      SdOnBus, SdSelected

\* The status behind that switch, and the bus of the host.
LEMMA EmmcSetWidthFits ==
  ASSUME IInv, IInv', FitCard, NEW o \in Outcomes, EmmcSetWidth(o)
  PROVE  FitCard' /\ HealthyCardIdentified'
<1>1. TypeOK /\ Known /\ card \in CardRec
  BY TypesAre DEF IInv, Known
<1> SUFFICES ASSUME Fit' PROVE FitCard' /\ HealthyCardIdentified'
  BY DEF FitCard, HealthyCardIdentified, Fit
<1>2. /\ at \in {"eWidth1Set", "eWidthSet"} /\ card.state # "prg" /\ ~lost
      /\ UNCHANGED <<cap, slot, mode, sd, tries, inserted>>
      /\ slot'.media = slot.media
      /\ Ok("R1", o) <=> slot.media /\ o = "answered"
      /\ IF Reaches("CMD13") THEN o = "answered" /\ card' = StatusRead
                            ELSE o = "silent" /\ card' = card
  <2>1. /\ Send("CMD13", o, StatusRead) /\ ~lost'
        /\ slot'.media /\ slot'.media = slot.media
        /\ Ok("R1", o) <=> slot.media /\ o = "answered"
    BY <1>1, OkHolds, TypesAre DEF Fit, EmmcSetWidth, EmmcSendStatus,
       EmmcExecReads
  <2> QED
    BY <1>1, <2>1, SendHolds DEF EmmcSetWidth
<1>3. /\ card'.kind = card.kind
      /\ card'.refused = card.refused
      /\ card'.error => card.error
  BY <1>1, <1>2 DEF StatusRead, CardRec, NoCard
<1>4. Fit
  BY <1>2, <1>3 DEF Fit
<1>5. Reaches("CMD13")
  BY <1>1, <1>2, <1>3, <1>4, ReachesHolds, TypesAre
  DEF Known, FitCard, Fit, Thread, EmmcCard, EmmcHost, SdCard, SdPlace,
      BusAgrees, HostReset, Bare, Selected, SdCards, CardIsAddressed, CardRec,
      EmmcOnly, SdOnly, EmmcSteps, SdSteps, EmmcSelected, SdOnBus, SdSelected
<1>6. \/ at' \in {"eExtCsd", "eFinal"} /\ result' = result
  BY <1>1, <1>2, <1>3, <1>4, <1>5 DEF EmmcSetWidth, Fit, FitCard, GoOn,
     EmmcSteps, SdSteps
<1> QED
  BY <1>1, <1>2, <1>3, <1>4, <1>5, <1>6
  DEF Known, Fit, FitCard, HealthyCardIdentified, Thread, EmmcCard, SdPlace,
      SdCards, Bare, EmmcOnly, SdOnly, EmmcSteps, SdSteps, EmmcSelected,
      SdOnBus, SdSelected

\* CMD8 of EmmcSetBusMode, and the choice of the timing.
LEMMA EmmcReadExtCsdFits ==
  ASSUME IInv, IInv', FitCard, NEW o \in Outcomes, EmmcReadExtCsd(o)
  PROVE  FitCard' /\ HealthyCardIdentified'
<1>1. TypeOK /\ Known /\ card \in CardRec
  BY TypesAre DEF IInv, Known
<1> SUFFICES ASSUME Fit' PROVE FitCard' /\ HealthyCardIdentified'
  BY DEF FitCard, HealthyCardIdentified, Fit
<1>2. /\ at = "eExtCsd" /\ card.state # "prg" /\ ~lost
      /\ UNCHANGED <<cap, slot, sd, tries, host, inserted>>
      /\ slot'.media = slot.media
      /\ Ok("R1", o) <=> slot.media /\ o = "answered"
      /\ IF Reaches("EXT_CSD") THEN o = "answered" /\ card' = card
                            ELSE o = "silent" /\ card' = card
  <2>1. /\ Send("EXT_CSD", o, card) /\ ~lost'
        /\ slot'.media /\ slot'.media = slot.media
        /\ Ok("R1", o) <=> slot.media /\ o = "answered"
    BY <1>1, OkHolds, TypesAre DEF Fit, EmmcReadExtCsd, EmmcGetExtCsd,
       EmmcExecReads
  <2> QED
    BY <1>1, <2>1, SendHolds DEF EmmcReadExtCsd
<1>3. /\ card'.kind = card.kind
      /\ card'.refused = card.refused
      /\ card'.error = card.error
  BY <1>1, <1>2 DEF CardRec, NoCard
<1>4. Fit
  BY <1>2, <1>3 DEF Fit
<1>5. Reaches("EXT_CSD")
  BY <1>1, <1>2, <1>3, <1>4, ReachesHolds, TypesAre
  DEF Known, FitCard, Fit, Thread, EmmcCard, EmmcHost, SdCard, SdPlace,
      BusAgrees, HostReset, Bare, Selected, SdCards, CardIsAddressed, CardRec,
      EmmcOnly, SdOnly, EmmcSteps, SdSteps, EmmcSelected, SdOnBus, SdSelected
<1>6. \/ at' \in {"eFinal", "eTiming"} /\ result' = result
  BY <1>1, <1>2, <1>3, <1>4, <1>5 DEF EmmcReadExtCsd, Fit, FitCard, GoOn,
     EmmcSteps, SdSteps
<1> QED
  BY <1>1, <1>2, <1>3, <1>4, <1>5, <1>6
  DEF Known, Fit, FitCard, HealthyCardIdentified, Thread, EmmcCard, SdPlace,
      SdCards, Bare, EmmcOnly, SdOnly, EmmcSteps, SdSteps, EmmcSelected,
      SdOnBus, SdSelected

\* CMD6 of EmmcSwitchToHighSpeed: the card changes its timing.
LEMMA EmmcSwitchTimingFits ==
  ASSUME IInv, IInv', FitCard, NEW o \in Outcomes, NEW taken \in BOOLEAN,
         EmmcSwitchTiming(o, taken)
  PROVE  FitCard' /\ HealthyCardIdentified'
<1>1. TypeOK /\ Known /\ card \in CardRec
  BY TypesAre DEF IInv, Known
<1> SUFFICES ASSUME Fit' PROVE FitCard' /\ HealthyCardIdentified'
  BY DEF FitCard, HealthyCardIdentified, Fit
<1>2. /\ at = "eTiming" /\ card.state # "prg" /\ ~lost
      /\ UNCHANGED <<cap, slot, mode, sd, tries, host, inserted>>
      /\ slot'.media = slot.media
      /\ Ok("R1b", o) <=> slot.media /\ o = "answered"
      /\ IF Reaches("SWITCH") THEN o = "answered" /\ card' = TimingSwitched(taken)
                            ELSE o = "silent" /\ card' = card
  <2>1. /\ Send("SWITCH", o, TimingSwitched(taken)) /\ ~lost'
        /\ slot'.media /\ slot'.media = slot.media
        /\ Ok("R1b", o) <=> slot.media /\ o = "answered"
    BY <1>1, OkHolds, TypesAre DEF TimingSwitched, Fit, EmmcSwitchTiming,
       EmmcSwitch, EmmcExecReads
  <2> QED
    BY <1>1, <2>1, SendHolds DEF EmmcSwitchTiming
<1>3. /\ card'.kind = card.kind
      /\ ~card'.refused => card'.error = card.error /\ ~card.refused
  BY <1>1, <1>2 DEF TimingSwitched, Switched, CardRec, NoCard
<1>4. Fit
  BY <1>2, <1>3 DEF Fit
<1>5. Reaches("SWITCH")
  BY <1>1, <1>2, <1>3, <1>4, ReachesHolds, TypesAre
  DEF Known, FitCard, Fit, Thread, EmmcCard, EmmcHost, SdCard, SdPlace,
      BusAgrees, HostReset, Bare, Selected, SdCards, CardIsAddressed, CardRec,
      EmmcOnly, SdOnly, EmmcSteps, SdSteps, EmmcSelected, SdOnBus, SdSelected
<1>6. \/ at' = "eTimingCheck" /\ result' = result
  BY <1>1, <1>2, <1>3, <1>4, <1>5 DEF EmmcSwitchTiming, Fit, FitCard, GoOn,
     EmmcSteps, SdSteps
<1> QED
  BY <1>1, <1>2, <1>3, <1>4, <1>5, <1>6
  DEF Known, Fit, FitCard, HealthyCardIdentified, Thread, EmmcCard, SdPlace,
      SdCards, Bare, EmmcOnly, SdOnly, EmmcSteps, SdSteps, EmmcSelected,
      SdOnBus, SdSelected

\* The status behind that switch, and the clock of the host.
LEMMA EmmcSwitchClockFits ==
  ASSUME IInv, IInv', FitCard, NEW o \in Outcomes, EmmcSwitchClock(o)
  PROVE  FitCard' /\ HealthyCardIdentified'
<1>1. TypeOK /\ Known /\ card \in CardRec
  BY TypesAre DEF IInv, Known
<1> SUFFICES ASSUME Fit' PROVE FitCard' /\ HealthyCardIdentified'
  BY DEF FitCard, HealthyCardIdentified, Fit
<1>2. /\ at = "eTimingCheck" /\ card.state # "prg" /\ ~lost
      /\ UNCHANGED <<cap, slot, mode, sd, tries, inserted>>
      /\ slot'.media = slot.media
      /\ Ok("R1", o) <=> slot.media /\ o = "answered"
      /\ IF Reaches("CMD13") THEN o = "answered" /\ card' = StatusRead
                            ELSE o = "silent" /\ card' = card
  <2>1. /\ Send("CMD13", o, StatusRead) /\ ~lost'
        /\ slot'.media /\ slot'.media = slot.media
        /\ Ok("R1", o) <=> slot.media /\ o = "answered"
    BY <1>1, OkHolds, TypesAre DEF Fit, EmmcSwitchClock, EmmcSendStatus,
       EmmcExecReads
  <2> QED
    BY <1>1, <2>1, SendHolds DEF EmmcSwitchClock
<1>3. /\ card'.kind = card.kind
      /\ card'.refused = card.refused
      /\ card'.error => card.error
  BY <1>1, <1>2 DEF StatusRead, CardRec, NoCard
<1>4. Fit
  BY <1>2, <1>3 DEF Fit
<1>5. Reaches("CMD13") /\ ~card.error
  BY <1>1, <1>2, <1>3, <1>4, ReachesHolds, TypesAre
  DEF Known, FitCard, Fit, Thread, EmmcCard, EmmcHost, SdCard, SdPlace,
      BusAgrees, HostReset, Bare, Selected, SdCards, CardIsAddressed, CardRec,
      EmmcOnly, SdOnly, EmmcSteps, SdSteps, EmmcSelected, SdOnBus, SdSelected
<1>6. \/ at' = "eWidth" /\ result' = result
  BY <1>1, <1>2, <1>3, <1>4, <1>5 DEF EmmcSwitchClock, Fit, FitCard, GoOn,
     EmmcSteps, SdSteps
<1> QED
  BY <1>1, <1>2, <1>3, <1>4, <1>5, <1>6
  DEF Known, Fit, FitCard, HealthyCardIdentified, Thread, EmmcCard, SdPlace,
      SdCards, Bare, EmmcOnly, SdOnly, EmmcSteps, SdSteps, EmmcSelected,
      SdOnBus, SdSelected

\* The last status of EmmcSwitchToHighSpeed.
LEMMA EmmcFinalFits ==
  ASSUME IInv, IInv', FitCard, NEW o \in Outcomes, EmmcFinal(o)
  PROVE  FitCard' /\ HealthyCardIdentified'
<1>1. TypeOK /\ Known /\ card \in CardRec
  BY TypesAre DEF IInv, Known
<1> SUFFICES ASSUME Fit' PROVE FitCard' /\ HealthyCardIdentified'
  BY DEF FitCard, HealthyCardIdentified, Fit
<1>2. /\ at = "eFinal" /\ card.state # "prg" /\ ~lost
      /\ UNCHANGED <<cap, slot, mode, sd, tries, host, inserted>>
      /\ slot'.media = slot.media
      /\ Ok("R1", o) <=> slot.media /\ o = "answered"
      /\ IF Reaches("CMD13") THEN o = "answered" /\ card' = StatusRead
                            ELSE o = "silent" /\ card' = card
  <2>1. /\ Send("CMD13", o, StatusRead) /\ ~lost'
        /\ slot'.media /\ slot'.media = slot.media
        /\ Ok("R1", o) <=> slot.media /\ o = "answered"
    BY <1>1, OkHolds, TypesAre DEF Fit, EmmcFinal, EmmcSendStatus, EmmcExecReads
  <2> QED
    BY <1>1, <2>1, SendHolds DEF EmmcFinal
<1>3. /\ card'.kind = card.kind
      /\ card'.refused = card.refused
      /\ card'.error => card.error
  BY <1>1, <1>2 DEF StatusRead, CardRec, NoCard
<1>4. Fit
  BY <1>2, <1>3 DEF Fit
<1>5. Reaches("CMD13")
  BY <1>1, <1>2, <1>3, <1>4, ReachesHolds, TypesAre
  DEF Known, FitCard, Fit, Thread, EmmcCard, EmmcHost, SdCard, SdPlace,
      BusAgrees, HostReset, Bare, Selected, SdCards, CardIsAddressed, CardRec,
      EmmcOnly, SdOnly, EmmcSteps, SdSteps, EmmcSelected, SdOnBus, SdSelected
<1>6. \/ at' = "idle" /\ result' = "identified"
  BY <1>1, <1>2, <1>3, <1>4, <1>5 DEF EmmcFinal, Fit, FitCard, GoOn, Identified,
     EmmcSteps, SdSteps
<1> QED
  BY <1>1, <1>2, <1>3, <1>4, <1>5, <1>6
  DEF Known, Fit, FitCard, HealthyCardIdentified, Thread, EmmcCard, SdPlace,
      SdCards, Bare, EmmcOnly, SdOnly, EmmcSteps, SdSteps, EmmcSelected,
      SdOnBus, SdSelected

\* CMD0 of SdCardIdentification.
LEMMA SdResetFits ==
  ASSUME IInv, IInv', FitCard, NEW o \in Outcomes, SdPlain(o), at = "sReset"
  PROVE  FitCard' /\ HealthyCardIdentified'
<1>1. TypeOK /\ Known /\ card \in CardRec
  BY TypesAre DEF IInv, Known
<1> SUFFICES ASSUME Fit' PROVE FitCard' /\ HealthyCardIdentified'
  BY DEF FitCard, HealthyCardIdentified, Fit
<1>2. /\ at = "sReset" /\ card.state # "prg" /\ ~lost
      /\ UNCHANGED <<cap, slot, mode, sd, tries, host, inserted>>
      /\ slot'.media = slot.media
      /\ Ok("none", o) <=> slot.media
      /\ IF Reaches("CMD0") THEN o = "answered" /\ card' = Idle
                            ELSE o = "silent" /\ card' = card
  <2>1. /\ Send("CMD0", o, Idle) /\ ~lost'
        /\ slot'.media /\ slot'.media = slot.media
        /\ Ok("none", o) <=> slot.media
    BY <1>1, OkHolds, TypesAre DEF Fit, SdPlain, SdCardReset, EmmcExecReads
  <2> QED
    BY <1>1, <2>1, SendHolds DEF SdPlain
<1>3. /\ card'.kind = card.kind
      /\ card'.refused = card.refused
      /\ card' = card \/ (card'.state = "idle" /\ ~card'.error)
  BY <1>1, <1>2 DEF Idle, CardRec, NoCard
<1>4. Fit
  BY <1>2, <1>3 DEF Fit
<1>5. Reaches("CMD0")
  BY <1>1, <1>2, <1>3, <1>4, ReachesHolds, TypesAre
  DEF Known, FitCard, Fit, Thread, EmmcCard, EmmcHost, SdCard, SdPlace,
      BusAgrees, HostReset, Bare, Selected, SdCards, CardIsAddressed, CardRec,
      EmmcOnly, SdOnly, EmmcSteps, SdSteps, EmmcSelected, SdOnBus, SdSelected
<1>6. \/ /\ at' = "sVoltage" /\ card'.state = "idle" /\ ~card'.error
         /\ result' = result
  BY <1>1, <1>2, <1>3, <1>4, <1>5 DEF SdPlain, Fit, FitCard, GoOn, Idle, NoCard,
     EmmcSteps, SdSteps
<1> QED
  BY <1>1, <1>2, <1>3, <1>4, <1>5, <1>6
  DEF Known, Fit, FitCard, HealthyCardIdentified, Thread, EmmcCard, SdPlace,
      SdCards, Bare, EmmcOnly, SdOnly, EmmcSteps, SdSteps, EmmcSelected,
      SdOnBus, SdSelected

\* CMD8 of SdCardIdentification.
LEMMA SdVoltageFits ==
  ASSUME IInv, IInv', FitCard, NEW o \in Outcomes, SdVoltage(o)
  PROVE  FitCard' /\ HealthyCardIdentified'
<1>1. TypeOK /\ Known /\ card \in CardRec
  BY TypesAre DEF IInv, Known
<1> SUFFICES ASSUME Fit' PROVE FitCard' /\ HealthyCardIdentified'
  BY DEF FitCard, HealthyCardIdentified, Fit
<1>2. /\ at = "sVoltage" /\ card.state # "prg" /\ ~lost
      /\ UNCHANGED <<cap, slot, mode, tries, host, inserted, result>>
      /\ slot'.media = slot.media
      /\ Expects("R7") <=> slot.cardType = "sd"
      /\ Ok("R7", o) <=> slot.media /\ (slot.cardType = "sd" => o = "answered")
      /\ sd \in [v1 : BOOLEAN, rca : BOOLEAN]
      /\ IF Reaches("CMD8") THEN o = "answered" /\ card' = [card EXCEPT !.sawCmd8 = TRUE]
                            ELSE o = "silent" /\ card' = card
  <2>1. /\ Send("CMD8", o, [card EXCEPT !.sawCmd8 = TRUE]) /\ ~lost'
        /\ slot'.media /\ slot'.media = slot.media
        /\ Expects("R7") <=> slot.cardType = "sd"
        /\ Ok("R7", o) <=> slot.media /\ (slot.cardType = "sd" => o = "answered")
        /\ sd \in [v1 : BOOLEAN, rca : BOOLEAN]
    BY <1>1, OkHolds, TypesAre DEF Fit, SdVoltage, SdCardVoltageCheck,
       EmmcExecReads
  <2> QED
    BY <1>1, <2>1, SendHolds DEF SdVoltage
<1>3. /\ card'.kind = card.kind
      /\ card'.refused = card.refused
      /\ card'.error = card.error
      /\ card'.state = card.state
  BY <1>1, <1>2 DEF CardRec, NoCard
<1>4. Fit
  BY <1>2, <1>3 DEF Fit
<1>5. /\ card.kind \in SdCards => card.state = "idle"
      /\ card.kind = "sd1" => ~Reaches("CMD8")
  BY <1>1, <1>2, <1>3, <1>4, ReachesHolds, TypesAre
  DEF Known, FitCard, Fit, Thread, EmmcCard, EmmcHost, SdCard, SdPlace,
      BusAgrees, HostReset, Bare, Selected, SdCards, CardIsAddressed, CardRec,
      EmmcOnly, SdOnly, EmmcSteps, SdSteps, EmmcSelected, SdOnBus, SdSelected
<1>6. \/ at' = "sInquiry" /\ (card.kind = "sd1" => sd'.v1)
  BY <1>1, <1>2, <1>3, <1>4, <1>5 DEF SdVoltage, Fit, FitCard, GoOn, EmmcSteps,
     SdSteps
<1> QED
  BY <1>1, <1>2, <1>3, <1>4, <1>5, <1>6
  DEF Known, Fit, FitCard, HealthyCardIdentified, Thread, EmmcCard, SdPlace,
      SdCards, Bare, EmmcOnly, SdOnly, EmmcSteps, SdSteps, EmmcSelected,
      SdOnBus, SdSelected

\* ACMD41 with argument 0.
LEMMA SdInquiryFits ==
  ASSUME IInv, IInv', FitCard, NEW o \in Outcomes, SdPlain(o), at = "sInquiry"
  PROVE  FitCard' /\ HealthyCardIdentified'
<1>1. TypeOK /\ Known /\ card \in CardRec
  BY TypesAre DEF IInv, Known
<1> SUFFICES ASSUME Fit' PROVE FitCard' /\ HealthyCardIdentified'
  BY DEF FitCard, HealthyCardIdentified, Fit
<1>2. /\ at = "sInquiry" /\ card.state # "prg" /\ ~lost
      /\ UNCHANGED <<cap, slot, mode, sd, tries, host, inserted>>
      /\ slot'.media = slot.media
      /\ Ok("R3", o) <=> slot.media /\ o = "answered"
      /\ IF Reaches("ACMD41") THEN o = "answered" /\ card' = card
                            ELSE o = "silent" /\ card' = card
  <2>1. /\ Send("ACMD41", o, card) /\ ~lost'
        /\ slot'.media /\ slot'.media = slot.media
        /\ Ok("R3", o) <=> slot.media /\ o = "answered"
    BY <1>1, OkHolds, TypesAre DEF Fit, SdPlain, SdCardSendOpCond, EmmcExecReads
  <2> QED
    BY <1>1, <2>1, SendHolds DEF SdPlain
<1>3. /\ card'.kind = card.kind
      /\ card'.refused = card.refused
      /\ card'.error = card.error
  BY <1>1, <1>2 DEF CardRec, NoCard
<1>4. Fit
  BY <1>2, <1>3 DEF Fit
<1>5. /\ Reaches("ACMD41") <=> card.kind \in SdCards
      /\ card.kind \in SdCards \cup {"emmc"}
  BY <1>1, <1>2, <1>3, <1>4, ReachesHolds, TypesAre
  DEF Known, FitCard, Fit, Thread, EmmcCard, EmmcHost, SdCard, SdPlace, Kinds,
      BusAgrees, HostReset, Bare, Selected, SdCards, CardIsAddressed, CardRec,
      EmmcOnly, SdOnly, EmmcSteps, SdSteps, EmmcSelected, SdOnBus, SdSelected
<1>6. \/ at' = "sOcr" /\ card.kind \in SdCards /\ result' = result
      \/ at' = "idle" /\ result' = "failed" /\ (card.kind = "emmc")
  BY <1>1, <1>2, <1>3, <1>4, <1>5 DEF SdPlain, Fit, FitCard, GoOn, EmmcSteps,
     SdSteps
<1> QED
  BY <1>1, <1>2, <1>3, <1>4, <1>5, <1>6
  DEF Known, Fit, FitCard, HealthyCardIdentified, Thread, EmmcCard, SdPlace,
      SdCards, Bare, EmmcOnly, SdOnly, EmmcSteps, SdSteps, EmmcSelected,
      SdOnBus, SdSelected

\* ACMD41, repeated until the card is powered up.
LEMMA SdOcrFits ==
  ASSUME IInv, IInv', FitCard, NEW o \in Outcomes, SdOcr(o)
  PROVE  FitCard' /\ HealthyCardIdentified'
<1>1. TypeOK /\ Known /\ card \in CardRec
  BY TypesAre DEF IInv, Known
<1> SUFFICES ASSUME Fit' PROVE FitCard' /\ HealthyCardIdentified'
  BY DEF FitCard, HealthyCardIdentified, Fit
<1>2. /\ at = "sOcr" /\ card.state # "prg" /\ ~lost
      /\ UNCHANGED <<cap, slot, mode, sd, tries, host, inserted>>
      /\ slot'.media = slot.media
      /\ Ok("R3", o) <=> slot.media /\ o = "answered"
      /\ IF Reaches("ACMD41") THEN o = "answered" /\ card' = PoweredUp
                            ELSE o = "silent" /\ card' = card
  <2>1. /\ Send("ACMD41", o, PoweredUp) /\ ~lost'
        /\ slot'.media /\ slot'.media = slot.media
        /\ Ok("R3", o) <=> slot.media /\ o = "answered"
    BY <1>1, OkHolds, TypesAre DEF Fit, SdOcr, SdCardSendOpCond, EmmcExecReads
  <2> QED
    BY <1>1, <2>1, SendHolds DEF SdOcr
<1>3. /\ card'.kind = card.kind
      /\ card'.refused = card.refused
      /\ card'.error = card.error
  BY <1>1, <1>2 DEF PoweredUp, Moved, CardRec, NoCard
<1>4. Fit
  BY <1>2, <1>3 DEF Fit
<1>5. Reaches("ACMD41") /\ card.state = "idle"
  BY <1>1, <1>2, <1>3, <1>4, ReachesHolds, TypesAre
  DEF Known, FitCard, Fit, Thread, EmmcCard, EmmcHost, SdCard, SdPlace,
      BusAgrees, HostReset, Bare, Selected, SdCards, CardIsAddressed, CardRec,
      EmmcOnly, SdOnly, EmmcSteps, SdSteps, EmmcSelected, SdOnBus, SdSelected
<1>6. \/ at' = "sOcr" /\ card'.state = "idle" /\ result' = result
      \/ at' = "sCid" /\ result' = result
  BY <1>1, <1>2, <1>3, <1>4, <1>5 DEF SdOcr, Fit, FitCard, GoOn, PoweredUp,
     EmmcSteps, SdSteps
<1> QED
  BY <1>1, <1>2, <1>3, <1>4, <1>5, <1>6
  DEF Known, Fit, FitCard, HealthyCardIdentified, Thread, EmmcCard, SdPlace,
      SdCards, Bare, EmmcOnly, SdOnly, EmmcSteps, SdSteps, EmmcSelected,
      SdOnBus, SdSelected

\* CMD2 of SdCardIdentification.
LEMMA SdCidFits ==
  ASSUME IInv, IInv', FitCard, NEW o \in Outcomes, SdPlain(o), at = "sCid"
  PROVE  FitCard' /\ HealthyCardIdentified'
<1>1. TypeOK /\ Known /\ card \in CardRec
  BY TypesAre DEF IInv, Known
<1> SUFFICES ASSUME Fit' PROVE FitCard' /\ HealthyCardIdentified'
  BY DEF FitCard, HealthyCardIdentified, Fit
<1>2. /\ at = "sCid" /\ card.state # "prg" /\ ~lost
      /\ UNCHANGED <<cap, slot, mode, sd, tries, host, inserted>>
      /\ slot'.media = slot.media
      /\ Ok("R2", o) <=> slot.media /\ o = "answered"
      /\ IF Reaches("CMD2") THEN o = "answered" /\ card' = Moved("ident")
                            ELSE o = "silent" /\ card' = card
  <2>1. /\ Send("CMD2", o, Moved("ident")) /\ ~lost'
        /\ slot'.media /\ slot'.media = slot.media
        /\ Ok("R2", o) <=> slot.media /\ o = "answered"
    BY <1>1, OkHolds, TypesAre DEF Fit, SdPlain, SdCardAllSendCid, EmmcExecReads
  <2> QED
    BY <1>1, <2>1, SendHolds DEF SdPlain
<1>3. /\ card'.kind = card.kind
      /\ card'.refused = card.refused
      /\ card'.error = card.error
  BY <1>1, <1>2 DEF Moved, CardRec, NoCard
<1>4. Fit
  BY <1>2, <1>3 DEF Fit
<1>5. Reaches("CMD2")
  BY <1>1, <1>2, <1>3, <1>4, ReachesHolds, TypesAre
  DEF Known, FitCard, Fit, Thread, EmmcCard, EmmcHost, SdCard, SdPlace,
      BusAgrees, HostReset, Bare, Selected, SdCards, CardIsAddressed, CardRec,
      EmmcOnly, SdOnly, EmmcSteps, SdSteps, EmmcSelected, SdOnBus, SdSelected
<1>6. \/ at' = "sRca" /\ result' = result
  BY <1>1, <1>2, <1>3, <1>4, <1>5 DEF SdPlain, Fit, FitCard, GoOn, EmmcSteps,
     SdSteps
<1> QED
  BY <1>1, <1>2, <1>3, <1>4, <1>5, <1>6
  DEF Known, Fit, FitCard, HealthyCardIdentified, Thread, EmmcCard, SdPlace,
      SdCards, Bare, EmmcOnly, SdOnly, EmmcSteps, SdSteps, EmmcSelected,
      SdOnBus, SdSelected

\* CMD3, whose response only an SD slot reads.
LEMMA SdRcaFits ==
  ASSUME IInv, IInv', FitCard, NEW o \in Outcomes, SdRca(o)
  PROVE  FitCard' /\ HealthyCardIdentified'
<1>1. TypeOK /\ Known /\ card \in CardRec
  BY TypesAre DEF IInv, Known
<1> SUFFICES ASSUME Fit' PROVE FitCard' /\ HealthyCardIdentified'
  BY DEF FitCard, HealthyCardIdentified, Fit
<1>2. /\ at = "sRca" /\ card.state # "prg" /\ ~lost
      /\ UNCHANGED <<cap, slot, mode, tries, host, inserted>>
      /\ slot'.media = slot.media
      /\ Expects("R6") <=> slot.cardType = "sd"
      /\ Ok("R6", o) <=> slot.media /\ (slot.cardType = "sd" => o = "answered")
      /\ sd \in [v1 : BOOLEAN, rca : BOOLEAN]
      /\ IF Reaches("CMD3") THEN o = "answered" /\ card' = Moved("stby")
                            ELSE o = "silent" /\ card' = card
  <2>1. /\ Send("CMD3", o, Moved("stby")) /\ ~lost'
        /\ slot'.media /\ slot'.media = slot.media
        /\ Expects("R6") <=> slot.cardType = "sd"
        /\ Ok("R6", o) <=> slot.media /\ (slot.cardType = "sd" => o = "answered")
        /\ sd \in [v1 : BOOLEAN, rca : BOOLEAN]
    BY <1>1, OkHolds, TypesAre DEF Fit, SdRca, SdCardSetRca, EmmcExecReads
  <2> QED
    BY <1>1, <2>1, SendHolds DEF SdRca
<1>3. /\ card'.kind = card.kind
      /\ card'.refused = card.refused
      /\ card'.error = card.error
  BY <1>1, <1>2 DEF Moved, CardRec, NoCard
<1>4. Fit
  BY <1>2, <1>3 DEF Fit
<1>5. Reaches("CMD3")
  BY <1>1, <1>2, <1>3, <1>4, ReachesHolds, TypesAre
  DEF Known, FitCard, Fit, Thread, EmmcCard, EmmcHost, SdCard, SdPlace,
      BusAgrees, HostReset, Bare, Selected, SdCards, CardIsAddressed, CardRec,
      EmmcOnly, SdOnly, EmmcSteps, SdSteps, EmmcSelected, SdOnBus, SdSelected
<1>6. \/ /\ at' = "sCsd" /\ (slot.cardType = "sd" => sd'.rca) /\ sd'.v1 = sd.v1
         /\ result' = result
  BY <1>1, <1>2, <1>3, <1>4, <1>5 DEF SdRca, Fit, FitCard, GoOn, EmmcSteps,
     SdSteps
<1> QED
  BY <1>1, <1>2, <1>3, <1>4, <1>5, <1>6
  DEF Known, Fit, FitCard, HealthyCardIdentified, Thread, EmmcCard, SdPlace,
      SdCards, Bare, EmmcOnly, SdOnly, EmmcSteps, SdSteps, EmmcSelected,
      SdOnBus, SdSelected

\* CMD9 of SdCardIdentification.
LEMMA SdCsdFits ==
  ASSUME IInv, IInv', FitCard, NEW o \in Outcomes, SdPlain(o), at = "sCsd"
  PROVE  FitCard' /\ HealthyCardIdentified'
<1>1. TypeOK /\ Known /\ card \in CardRec
  BY TypesAre DEF IInv, Known
<1> SUFFICES ASSUME Fit' PROVE FitCard' /\ HealthyCardIdentified'
  BY DEF FitCard, HealthyCardIdentified, Fit
<1>2. /\ at = "sCsd" /\ card.state # "prg" /\ ~lost
      /\ UNCHANGED <<cap, slot, mode, sd, tries, host, inserted>>
      /\ slot'.media = slot.media
      /\ Ok("R2", o) <=> slot.media /\ o = "answered"
      /\ IF Reaches("CMD9") THEN o = "answered" /\ card' = card
                            ELSE o = "silent" /\ card' = card
  <2>1. /\ Send("CMD9", o, card) /\ ~lost'
        /\ slot'.media /\ slot'.media = slot.media
        /\ Ok("R2", o) <=> slot.media /\ o = "answered"
    BY <1>1, OkHolds, TypesAre DEF Fit, SdPlain, SdCardGetCsd, EmmcExecReads
  <2> QED
    BY <1>1, <2>1, SendHolds DEF SdPlain
<1>3. /\ card'.kind = card.kind
      /\ card'.refused = card.refused
      /\ card'.error = card.error
  BY <1>1, <1>2 DEF CardRec, NoCard
<1>4. Fit
  BY <1>2, <1>3 DEF Fit
<1>5. card.kind \in SdCards /\ (slot.cardType = "emmc" \/ Reaches("CMD9"))
  BY <1>1, <1>2, <1>3, <1>4, ReachesHolds, TypesAre
  DEF Known, FitCard, Fit, Thread, EmmcCard, EmmcHost, SdCard, SdPlace,
      CardTypes, BusAgrees, HostReset, Bare, Selected, SdCards, CardIsAddressed,
      CardRec, EmmcOnly, SdOnly, EmmcSteps, SdSteps, EmmcSelected, SdOnBus,
      SdSelected
<1>6. \/ at' = "sSelect" /\ result' = result
      \/ /\ at' = "idle" /\ result' = "failed"
         /\ (card.kind \in SdCards /\ slot.cardType = "emmc")
  BY <1>1, <1>2, <1>3, <1>4, <1>5 DEF SdPlain, Fit, FitCard, GoOn, CardTypes,
     EmmcSteps, SdSteps
<1> QED
  BY <1>1, <1>2, <1>3, <1>4, <1>5, <1>6
  DEF Known, Fit, FitCard, HealthyCardIdentified, Thread, EmmcCard, SdPlace,
      SdCards, Bare, EmmcOnly, SdOnly, EmmcSteps, SdSteps, EmmcSelected,
      SdOnBus, SdSelected

\* CMD7 of SdCardIdentification: the card is selected at the slow clock.
LEMMA SdSelectFits ==
  ASSUME IInv, IInv', FitCard, NEW o \in Outcomes, SdPlain(o), at = "sSelect"
  PROVE  FitCard' /\ HealthyCardIdentified'
<1>1. TypeOK /\ Known /\ card \in CardRec
  BY TypesAre DEF IInv, Known
<1> SUFFICES ASSUME Fit' PROVE FitCard' /\ HealthyCardIdentified'
  BY DEF FitCard, HealthyCardIdentified, Fit
<1>2. /\ at = "sSelect" /\ card.state # "prg" /\ ~lost
      /\ UNCHANGED <<cap, slot, mode, sd, tries, host, inserted>>
      /\ slot'.media = slot.media
      /\ Ok("R1b", o) <=> slot.media /\ o = "answered"
      /\ IF Reaches("CMD7") THEN o = "answered" /\ card' = Moved("tran")
                            ELSE o = "silent" /\ card' = card
  <2>1. /\ Send("CMD7", o, Moved("tran")) /\ ~lost'
        /\ slot'.media /\ slot'.media = slot.media
        /\ Ok("R1b", o) <=> slot.media /\ o = "answered"
    BY <1>1, OkHolds, TypesAre DEF Fit, SdPlain, SdCardSelect, EmmcExecReads
  <2> QED
    BY <1>1, <2>1, SendHolds DEF SdPlain
<1>3. /\ card'.kind = card.kind
      /\ card'.refused = card.refused
      /\ card'.error = card.error
  BY <1>1, <1>2 DEF Moved, CardRec, NoCard
<1>4. Fit
  BY <1>2, <1>3 DEF Fit
<1>5. Reaches("CMD7")
  BY <1>1, <1>2, <1>3, <1>4, ReachesHolds, TypesAre
  DEF Known, FitCard, Fit, Thread, EmmcCard, EmmcHost, SdCard, SdPlace,
      BusAgrees, HostReset, Bare, Selected, SdCards, CardIsAddressed, CardRec,
      EmmcOnly, SdOnly, EmmcSteps, SdSteps, EmmcSelected, SdOnBus, SdSelected
<1>6. \/ at' = "sScr" /\ result' = result
  BY <1>1, <1>2, <1>3, <1>4, <1>5 DEF SdPlain, Fit, FitCard, GoOn, EmmcSteps,
     SdSteps
<1> QED
  BY <1>1, <1>2, <1>3, <1>4, <1>5, <1>6
  DEF Known, Fit, FitCard, HealthyCardIdentified, Thread, EmmcCard, SdPlace,
      SdCards, Bare, EmmcOnly, SdOnly, EmmcSteps, SdSteps, EmmcSelected,
      SdOnBus, SdSelected

\* ACMD51: the slot becomes an SD slot.
LEMMA SdFoundFits ==
  ASSUME IInv, IInv', FitCard, NEW o \in Outcomes, SdFound(o)
  PROVE  FitCard' /\ HealthyCardIdentified'
<1>1. TypeOK /\ Known /\ card \in CardRec
  BY TypesAre DEF IInv, Known
<1> SUFFICES ASSUME Fit' PROVE FitCard' /\ HealthyCardIdentified'
  BY DEF FitCard, HealthyCardIdentified, Fit
<1>2. /\ at = "sScr" /\ card.state # "prg" /\ ~lost
      /\ UNCHANGED <<cap, mode, sd, tries, host, inserted>>
      /\ slot'.media = slot.media
      /\ Ok("R1", o) <=> slot.media /\ o = "answered"
      /\ IF Reaches("ACMD51") THEN o = "answered" /\ card' = card
                            ELSE o = "silent" /\ card' = card
  <2>1. /\ Send("ACMD51", o, card) /\ ~lost'
        /\ slot'.media /\ slot'.media = slot.media
        /\ Ok("R1", o) <=> slot.media /\ o = "answered"
    BY <1>1, OkHolds, TypesAre DEF Fit, SdFound, SdCardGetScr, EmmcExecReads
  <2> QED
    BY <1>1, <2>1, SendHolds DEF SdFound
<1>3. /\ card'.kind = card.kind
      /\ card'.refused = card.refused
      /\ card'.error = card.error
  BY <1>1, <1>2 DEF CardRec, NoCard
<1>4. Fit
  BY <1>2, <1>3 DEF Fit
<1>5. Reaches("ACMD51") /\ card.kind \in SdCards
  BY <1>1, <1>2, <1>3, <1>4, ReachesHolds, TypesAre
  DEF Known, FitCard, Fit, Thread, EmmcCard, EmmcHost, SdCard, SdPlace,
      BusAgrees, HostReset, Bare, Selected, SdCards, CardIsAddressed, CardRec,
      EmmcOnly, SdOnly, EmmcSteps, SdSteps, EmmcSelected, SdOnBus, SdSelected
<1>6. \/ at' = "sWidth" /\ cap.width # 8 /\ result' = result
      \/ at' = "idle" /\ result' = "failed" /\ (cap.width = 8)
  BY <1>1, <1>2, <1>3, <1>4, <1>5 DEF SdFound, Fit, FitCard, GoOn, EmmcSteps,
     SdSteps
<1> QED
  BY <1>1, <1>2, <1>3, <1>4, <1>5, <1>6
  DEF Known, Fit, FitCard, HealthyCardIdentified, Thread, SdCard, EmmcCard,
      SdPlace, SdCards, Bare, EmmcOnly, SdOnly, EmmcSteps, SdSteps,
      EmmcSelected, SdOnBus, SdSelected

\* ACMD6: the card changes its bus first.
LEMMA SdSwitchWidthFits ==
  ASSUME IInv, IInv', FitCard, NEW o \in Outcomes, NEW taken \in BOOLEAN,
         SdSwitchWidth(o, taken)
  PROVE  FitCard' /\ HealthyCardIdentified'
<1>1. TypeOK /\ Known /\ card \in CardRec
  BY TypesAre DEF IInv, Known
<1> SUFFICES ASSUME Fit' PROVE FitCard' /\ HealthyCardIdentified'
  BY DEF FitCard, HealthyCardIdentified, Fit
<1>2. /\ at = "sWidth" /\ card.state # "prg" /\ ~lost
      /\ UNCHANGED <<cap, slot, mode, sd, tries, host, inserted>>
      /\ slot'.media = slot.media
      /\ Ok("R1", o) <=> slot.media /\ o = "answered"
      /\ IF Reaches("ACMD6") THEN o = "answered" /\ card' = SdWidthSwitched(taken)
                            ELSE o = "silent" /\ card' = card
  <2>1. /\ Send("ACMD6", o, SdWidthSwitched(taken)) /\ ~lost'
        /\ slot'.media /\ slot'.media = slot.media
        /\ Ok("R1", o) <=> slot.media /\ o = "answered"
    BY <1>1, OkHolds, TypesAre DEF SdWidthSwitched, Fit, SdSwitchWidth,
       SdCardSetBusWidth, EmmcExecReads
  <2> QED
    BY <1>1, <2>1, SendHolds DEF SdSwitchWidth
<1>3. /\ card'.kind = card.kind
      /\ ~card'.refused => card'.error = card.error /\ ~card.refused
  BY <1>1, <1>2 DEF SdWidthSwitched, Switched, CardRec, NoCard
<1>4. Fit
  BY <1>2, <1>3 DEF Fit
<1>5. Reaches("ACMD6")
  BY <1>1, <1>2, <1>3, <1>4, ReachesHolds, TypesAre
  DEF Known, FitCard, Fit, Thread, EmmcCard, EmmcHost, SdCard, SdPlace,
      BusAgrees, HostReset, Bare, Selected, SdCards, CardIsAddressed, CardRec,
      EmmcOnly, SdOnly, EmmcSteps, SdSteps, EmmcSelected, SdOnBus, SdSelected
<1>6. \/ at' = "sWidthSet" /\ result' = result
  BY <1>1, <1>2, <1>3, <1>4, <1>5 DEF SdSwitchWidth, Fit, FitCard, GoOn,
     EmmcSteps, SdSteps
<1> QED
  BY <1>1, <1>2, <1>3, <1>4, <1>5, <1>6
  DEF Known, Fit, FitCard, HealthyCardIdentified, Thread, EmmcCard, SdPlace,
      SdCards, Bare, EmmcOnly, SdOnly, EmmcSteps, SdSteps, EmmcSelected,
      SdOnBus, SdSelected

\* The status behind that switch, and the bus of the host.
LEMMA SdSetWidthFits ==
  ASSUME IInv, IInv', FitCard, NEW o \in Outcomes, SdSetWidth(o)
  PROVE  FitCard' /\ HealthyCardIdentified'
<1>1. TypeOK /\ Known /\ card \in CardRec
  BY TypesAre DEF IInv, Known
<1> SUFFICES ASSUME Fit' PROVE FitCard' /\ HealthyCardIdentified'
  BY DEF FitCard, HealthyCardIdentified, Fit
<1>2. /\ at = "sWidthSet" /\ card.state # "prg" /\ ~lost
      /\ UNCHANGED <<cap, slot, mode, sd, tries, inserted>>
      /\ slot'.media = slot.media
      /\ Ok("R1", o) <=> slot.media /\ o = "answered"
      /\ IF Reaches("CMD13") THEN o = "answered" /\ card' = StatusRead
                            ELSE o = "silent" /\ card' = card
  <2>1. /\ Send("CMD13", o, StatusRead) /\ ~lost'
        /\ slot'.media /\ slot'.media = slot.media
        /\ Ok("R1", o) <=> slot.media /\ o = "answered"
    BY <1>1, OkHolds, TypesAre DEF Fit, SdSetWidth, SdCardSendStatus,
       EmmcExecReads
  <2> QED
    BY <1>1, <2>1, SendHolds DEF SdSetWidth
<1>3. /\ card'.kind = card.kind
      /\ card'.refused = card.refused
      /\ card'.error => card.error
  BY <1>1, <1>2 DEF StatusRead, CardRec, NoCard
<1>4. Fit
  BY <1>2, <1>3 DEF Fit
<1>5. Reaches("CMD13") /\ ~card.error
  BY <1>1, <1>2, <1>3, <1>4, ReachesHolds, TypesAre
  DEF Known, FitCard, Fit, Thread, EmmcCard, EmmcHost, SdCard, SdPlace,
      BusAgrees, HostReset, Bare, Selected, SdCards, CardIsAddressed, CardRec,
      EmmcOnly, SdOnly, EmmcSteps, SdSteps, EmmcSelected, SdOnBus, SdSelected
<1>6. \/ at' = "sVersion1" /\ result' = result
      \/ at' = "sInquireMode" /\ result' = result
  BY <1>1, <1>2, <1>3, <1>4, <1>5 DEF SdSetWidth, Fit, FitCard, GoOn, EmmcSteps,
     SdSteps
<1> QED
  BY <1>1, <1>2, <1>3, <1>4, <1>5, <1>6
  DEF Known, Fit, FitCard, HealthyCardIdentified, Thread, EmmcCard, SdPlace,
      SdCards, Bare, EmmcOnly, SdOnly, EmmcSteps, SdSteps, EmmcSelected,
      SdOnBus, SdSelected

\* CMD6 that reads the access modes.
LEMMA SdInquireModeFits ==
  ASSUME IInv, IInv', FitCard, NEW o \in Outcomes, SdInquireMode(o)
  PROVE  FitCard' /\ HealthyCardIdentified'
<1>1. TypeOK /\ Known /\ card \in CardRec
  BY TypesAre DEF IInv, Known
<1> SUFFICES ASSUME Fit' PROVE FitCard' /\ HealthyCardIdentified'
  BY DEF FitCard, HealthyCardIdentified, Fit
<1>2. /\ at = "sInquireMode" /\ card.state # "prg" /\ ~lost
      /\ UNCHANGED <<cap, slot, sd, tries, host, inserted>>
      /\ slot'.media = slot.media
      /\ Ok("R1", o) <=> slot.media /\ o = "answered"
      /\ IF Reaches("CMD6") THEN o = "answered" /\ card' = card
                            ELSE o = "silent" /\ card' = card
  <2>1. /\ Send("CMD6", o, card) /\ ~lost'
        /\ slot'.media /\ slot'.media = slot.media
        /\ Ok("R1", o) <=> slot.media /\ o = "answered"
    BY <1>1, OkHolds, TypesAre DEF Fit, SdInquireMode, SdCardSwitch,
       EmmcExecReads
  <2> QED
    BY <1>1, <2>1, SendHolds DEF SdInquireMode
<1>3. /\ card'.kind = card.kind
      /\ card'.refused = card.refused
      /\ card'.error = card.error
  BY <1>1, <1>2 DEF CardRec, NoCard
<1>4. Fit
  BY <1>2, <1>3 DEF Fit
<1>5. card.kind \in SdCards /\ (cap.ddr50 \/ Reaches("CMD6"))
  BY <1>1, <1>2, <1>3, <1>4, ReachesHolds, TypesAre
  DEF Known, FitCard, Fit, Thread, EmmcCard, EmmcHost, SdCard, SdPlace,
      BusAgrees, HostReset, Bare, Selected, SdCards, CardIsAddressed, CardRec,
      EmmcOnly, SdOnly, EmmcSteps, SdSteps, EmmcSelected, SdOnBus, SdSelected
<1>6. \/ at' = "sSetMode" /\ result' = result
      \/ at' = "idle" /\ result' = "failed" /\ (cap.ddr50)
  BY <1>1, <1>2, <1>3, <1>4, <1>5 DEF SdInquireMode, Fit, FitCard, GoOn,
     EmmcSteps, SdSteps
<1> QED
  BY <1>1, <1>2, <1>3, <1>4, <1>5, <1>6
  DEF Known, Fit, FitCard, HealthyCardIdentified, Thread, EmmcCard, SdPlace,
      SdCards, Bare, EmmcOnly, SdOnly, EmmcSteps, SdSteps, EmmcSelected,
      SdOnBus, SdSelected

\* CMD6 that sets the access mode, and the clock.
LEMMA SdSetModeFits ==
  ASSUME IInv, IInv', FitCard, NEW o \in Outcomes, NEW taken \in BOOLEAN,
         SdSetMode(o, taken)
  PROVE  FitCard' /\ HealthyCardIdentified'
<1>1. TypeOK /\ Known /\ card \in CardRec
  BY TypesAre DEF IInv, Known
<1> SUFFICES ASSUME Fit' PROVE FitCard' /\ HealthyCardIdentified'
  BY DEF FitCard, HealthyCardIdentified, Fit
<1>2. /\ at = "sSetMode" /\ card.state # "prg" /\ ~lost
      /\ UNCHANGED <<cap, mode, sd, tries, inserted>>
      /\ slot'.media = slot.media
      /\ Ok("R1", o) <=> slot.media /\ o = "answered"
      /\ IF Reaches("CMD6") THEN o = "answered" /\ card' = ModeTaken(taken)
                            ELSE o = "silent" /\ card' = card
  <2>1. /\ Send("CMD6", o, ModeTaken(taken)) /\ ~lost'
        /\ slot'.media /\ slot'.media = slot.media
        /\ Ok("R1", o) <=> slot.media /\ o = "answered"
    BY <1>1, OkHolds, TypesAre DEF Fit, SdSetMode, SdCardSwitch, ModeTaken,
       Finish, EmmcExecReads
  <2> QED
    BY <1>1, <2>1, SendHolds DEF SdSetMode
<1>3. /\ card'.kind = card.kind
      /\ ~card'.refused => ~card.refused /\ card'.error = card.error
      /\ (taken \/ card'.refused \/ card' = card)
  BY <1>1, <1>2 DEF ModeTaken, CardRec, NoCard
<1>4. Fit
  BY <1>2, <1>3 DEF Fit
<1>5. card.kind \in SdCards /\ Reaches("CMD6")
  BY <1>1, <1>2, <1>3, <1>4, ReachesHolds, TypesAre
  DEF Known, FitCard, Fit, Thread, EmmcCard, EmmcHost, SdCard, SdPlace,
      BusAgrees, HostReset, Bare, Selected, SdCards, CardIsAddressed, CardRec,
      EmmcOnly, SdOnly, EmmcSteps, SdSteps, EmmcSelected, SdOnBus, SdSelected
<1>6. \/ at' = "idle" /\ result' = "identified"
  BY <1>1, <1>2, <1>3, <1>4, <1>5 DEF SdSetMode, ModeTaken, CardRec, Fit,
     FitCard, GoOn, Finish, Identified, EmmcSteps, SdSteps
<1> QED
  BY <1>1, <1>2, <1>3, <1>4, <1>5, <1>6
  DEF Known, Fit, FitCard, HealthyCardIdentified, Thread, EmmcCard, SdPlace,
      SdCards, Bare, EmmcOnly, SdOnly, EmmcSteps, SdSteps, EmmcSelected,
      SdOnBus, SdSelected

\* What changes the card or the host without a command.
LEMMA OthersFit ==
  ASSUME IInv, IInv', FitCard, HealthyCardIdentified,
         \/ Host \/ EmmcDataMissing \/ PowerUp \/ SwitchEnds \/ Insert \/ Remove
         \/ UNCHANGED vars
  PROVE  FitCard' /\ HealthyCardIdentified'
<1>1. /\ TypeOK /\ Known /\ card \in CardRec /\ slot \in SlotRec
      /\ Thread' /\ SdPlace
  BY TypesAre DEF IInv, Known, SlotRec
<1> SUFFICES ASSUME Fit' PROVE FitCard' /\ HealthyCardIdentified'
  BY DEF FitCard, HealthyCardIdentified, Fit
<1>2. CASE EnumRemoval
  BY <1>1, <1>2 DEF EnumRemoval, Fit, SlotRec
<1>3. CASE EnumInsertion
  BY <1>1, <1>3 DEF EnumInsertion, ResetHost, Known, Thread, Bare, FitCard,
     HealthyCardIdentified, EmmcOnly, EmmcSteps, SdSteps, SdSelected, SdOnBus
<1>4. ASSUME NEW ok \in BOOLEAN, Start(ok)
      PROVE  FitCard' /\ HealthyCardIdentified'
  BY <1>1, <1>4 DEF Start, ResetHost, Known, Thread, Bare, FitCard,
     HealthyCardIdentified, EmmcOnly, EmmcSteps, SdSteps, SdSelected, SdOnBus
<1>5. ASSUME NEW offered, NEW echoed, SdVersion1(offered, echoed)
      PROVE  FitCard' /\ HealthyCardIdentified'
  <2>1. /\ at = "sVersion1" /\ at' = "idle" /\ sd.v1
        /\ UNCHANGED <<cap, sd, tries, card, lost>>
        /\ card.kind \in SdCards
    BY <1>1, <1>5 DEF SdVersion1, Finish, Identified, GoOn, EmmcSteps, SdPlace,
       SdOnly, SdSteps, Fit
  <2> QED
    BY <2>1 DEF FitCard, HealthyCardIdentified, EmmcOnly, EmmcSteps, SdSteps,
       SdSelected, SdOnBus
<1>6. CASE EmmcDataMissing
  BY <1>6 DEF EmmcDataMissing, Fit
<1>7. CASE PowerUp \/ SwitchEnds
  <2>1. /\ card'.kind = card.kind /\ card'.refused = card.refused
        /\ card'.error = card.error
        /\ card'.state = card.state \/ card.state = "prg"
        /\ UNCHANGED <<at, cap, slot, mode, sd, tries, lost, result>>
    BY <1>1, <1>7 DEF PowerUp, SwitchEnds, CardRec
  <2> QED
    BY <2>1 DEF Fit, FitCard, HealthyCardIdentified
<1>8. CASE Insert
  BY <1>8 DEF Insert, Fit
<1>9. CASE Remove
  BY <1>9 DEF Remove, Fit, NoCard
<1>10. CASE UNCHANGED vars
  BY <1>10 DEF vars, Fit, FitCard, HealthyCardIdentified
<1> QED
  BY <1>2, <1>3, <1>4, <1>5, <1>6, <1>7, <1>8, <1>9, <1>10 DEF Host

\* Every step keeps the invariant of fit cards.
LEMMA FitSteps == FitInv /\ IInv' /\ [Next]_vars => FitInv'
<1> SUFFICES ASSUME IInv, IInv', FitCard, HealthyCardIdentified, [Next]_vars
    PROVE  FitCard' /\ HealthyCardIdentified'
  BY DEF FitInv
<1>1. ASSUME NEW o \in Outcomes, Driver(o)
      PROVE  FitCard' /\ HealthyCardIdentified'
  <2>1. CASE EmmcPlain(o)
    <3>1. at \in {"eReset", "eCid", "eCsd", "eSelect"}
      BY <2>1 DEF EmmcPlain
    <3> QED
      BY <2>1, <3>1, EmmcResetFits, EmmcCidFits, EmmcCsdFits, EmmcSelectFits
  <2>2. CASE SdPlain(o)
    <3>1. at \in {"sReset", "sInquiry", "sCid", "sCsd", "sSelect"}
      BY <2>2 DEF SdPlain
    <3> QED
      BY <2>2, <3>1, SdResetFits, SdInquiryFits, SdCidFits, SdCsdFits,
         SdSelectFits
  <2>3. CASE EmmcOcr(o) \/ EmmcFound(o) \/ EmmcTran(o) \/ EmmcSetWidth(o)
    BY <2>3, EmmcOcrFits, EmmcFoundFits, EmmcTranFits, EmmcSetWidthFits
  <2>4. CASE EmmcReadExtCsd(o) \/ EmmcSwitchClock(o) \/ EmmcFinal(o)
    BY <2>4, EmmcReadExtCsdFits, EmmcSwitchClockFits, EmmcFinalFits
  <2>5. CASE SdVoltage(o) \/ SdOcr(o) \/ SdRca(o) \/ SdFound(o)
    BY <2>5, SdVoltageFits, SdOcrFits, SdRcaFits, SdFoundFits
  <2>6. CASE SdSetWidth(o) \/ SdInquireMode(o)
    BY <2>6, SdSetWidthFits, SdInquireModeFits
  <2>7. ASSUME NEW taken \in BOOLEAN,
               EmmcSwitchWidth(o, taken) \/ EmmcSwitchTiming(o, taken)
                 \/ SdSwitchWidth(o, taken) \/ SdSetMode(o, taken)
        PROVE  FitCard' /\ HealthyCardIdentified'
    BY <2>7, EmmcSwitchWidthFits, EmmcSwitchTimingFits, SdSwitchWidthFits,
       SdSetModeFits
  <2> QED
    BY <1>1, <2>1, <2>2, <2>3, <2>4, <2>5, <2>6, <2>7 DEF Driver
<1> QED
  BY <1>1, OthersFit DEF Next

\* A card that took every switch, and with which no command was lost, fails
\* identification only for the causes named: no other sequence of cards,
\* removals and retries makes a routine give up on a card that is fit.
THEOREM FitCardIdentified == Spec => []HealthyCardIdentified
<1>1. Init => FitInv
  <2>1. Init => FitCard /\ HealthyCardIdentified
    BY DEF Init, FitCard, HealthyCardIdentified, EmmcOnly, EmmcSteps, SdSteps,
       SdSelected, SdOnBus
  <2> QED
    BY <2>1, InitHolds DEF FitInv
<1>2. FitInv /\ [Next]_vars => FitInv'
  BY StepHolds, FitSteps DEF FitInv
<1>3. FitInv => HealthyCardIdentified
  BY DEF FitInv
<1> QED
  BY <1>1, <1>2, <1>3, PTL DEF Spec
=============================================================================
