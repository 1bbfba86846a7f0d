------------------------ MODULE DwMmcTransfer_proofs ------------------------
(***************************************************************************)
(* One command of DwMmcHcDxe, for any length, FIFO depth, mark and         *)
(* timeout: its types, the descriptor table of the IDMAC, that a success   *)
(* was answered, how far a failed CRC may go unnoticed, and that every     *)
(* word comes to its place.                                                *)
(***************************************************************************)
EXTENDS DwMmcTransfer, TLAPS

Pcs == {"create", "exec", "poll", "sample", "put", "count", "verify", "result",
        "done"}

\* The variables one by one; a word is an integer.
Types ==
  /\ pc \in Pcs
  /\ cmd \in Commands \cup {Idle}
  /\ received \in Nat /\ sent \in Nat /\ judged \in Nat /\ bad \in Nat
  /\ sent <= Total /\ judged <= sent /\ bad <= sent
  /\ intsts \subseteq Flags /\ rint \subseteq Flags
  /\ polls \in 0..MaxPolls /\ wait \in 0..MaxWait /\ left \in Nat
  /\ status \in {"PENDING", "SUCCESS", "DEVICE_ERROR", "TIMEOUT"}
  /\ busy \in BOOLEAN /\ excuse \in BOOLEAN
  /\ fifo \in Seq(Int) /\ Len(fifo) <= Depth
  /\ pc # "create" => mem \in [1..Bytcnt(cmd.len) -> Int]

\* The IDMAC: in the table, and within the descriptor it is at.
InTable ==
  /\ dma \in [at : Nat, pos : Nat, done : BOOLEAN]
  /\ dma.at > 0 => /\ ~cmd.sd /\ dma.at <= Entries(cmd.len)
                   /\ dma.pos < Desc(cmd.len, dma.at).words
  /\ cmd.sd => ~dma.done

\* Nothing has happened before CMD is written, and no Timeout has run out
\* while its loop goes on.
Early ==
  /\ pc = "create" => cmd = Idle
  /\ pc \in {"create", "exec"} =>
       /\ received = 0 /\ sent = 0 /\ judged = 0 /\ bad = 0
       /\ polls = MaxPolls /\ excuse = FALSE
  /\ pc = "poll" => polls > 0 /\ received = 0
  /\ pc # "done" => wait > 0 /\ status = "PENDING"
  /\ pc \in {"sample", "put", "count", "verify", "result"} /\ cmd.timeout # 0 =>
       left > 0

\* The FIFO path, and the answer that led there; words of a write leave only
\* behind a sound response.
Path ==
  /\ pc \in {"sample", "put", "count", "verify"} => UseFifo
  /\ pc = "put" => ~cmd.read
  /\ pc = "count" => cmd.read
  /\ "ACD" \in rint => "CMD_DONE" \in rint
  /\ pc \in {"sample", "put", "count", "verify", "result"} =>
       Answered \/ PolledInVain
  /\ pc \notin {"create", "exec"} /\ ~cmd.read
     /\ (sent > 0 \/ "ACD" \in rint) => Answered
  /\ SuccessWasAnswered

\* Words are conserved: what the card's side moved, the FIFO holds or the
\* driver moved.
Conserved ==
  pc \notin {"create", "exec"} /\ UseFifo /\ ~excuse =>
    IF cmd.read THEN received + Len(fifo) = sent
                ELSE sent + Len(fifo) = received /\ received <= cmd.len

\* How far behind the words already moved the first failed CRC can be while
\* the driver has not seen it.
Unseen ==
  /\ bad # 0 => "DATA_ERR" \in rint
  /\ UseFifo /\ ~excuse /\ bad # 0 =>
       /\ pc = "count" /\ "DATA_ERR" \notin intsts => bad >= received
       /\ pc \in {"put", "verify"} /\ "DATA_ERR" \notin intsts =>
            bad >= received - Depth
       /\ pc \in {"poll", "sample", "result"} => bad >= received - Depth
       /\ status = "SUCCESS" => bad >= cmd.len - Depth
  /\ pc = "result" /\ UseFifo => received >= cmd.len

IInv == Types /\ InTable /\ Early /\ Path /\ Conserved /\ Unseen

(***************************************************************************)
(* Sizes.                                                                  *)
(***************************************************************************)
\* Rounding up to multiples.
LEMMA RoundUp ==
  ASSUME NEW a \in Nat, NEW b \in Nat \ {0}
  PROVE  /\ (a + b - 1) \div b \in Nat
         /\ b * ((a + b - 1) \div b) \in Nat
         /\ b * ((a + b - 1) \div b) >= a
         /\ b * ((a + b - 1) \div b) < a + b
<1> DEFINE q == (a + b - 1) \div b
<1>1. q \in Int /\ b * q <= a + b - 1 /\ a + b - 1 < b * q + b
  OBVIOUS
<1>2. q >= 0
  OBVIOUS
<1> QED
  BY <1>1, <1>2

LEMMA SizesHold ==
  ASSUME NEW len \in Nat
  PROVE  /\ Bytcnt(len) \in Nat /\ Bytcnt(len) >= len
         /\ Entries(len) \in Nat
         /\ BufWords * Entries(len) \in Nat
         /\ BufWords * Entries(len) >= len
         /\ BufWords * Entries(len) < len + BufWords
         /\ len > 0 => Entries(len) > 0
<1>1. BlockWords \in Nat \ {0} /\ BufWords \in Nat \ {0}
  BY SizesAssumption
<1>2. /\ Blocks(len) \in Nat
      /\ BlockWords * Blocks(len) \in Nat
      /\ BlockWords * Blocks(len) >= len
  BY <1>1, RoundUp DEF Blocks
<1>3. /\ Entries(len) \in Nat
      /\ BufWords * Entries(len) \in Nat
      /\ BufWords * Entries(len) >= len
      /\ BufWords * Entries(len) < len + BufWords
  BY <1>1, RoundUp DEF Entries
<1>4. Entries(len) = 0 => BufWords * Entries(len) = 0
  BY <1>1
<1> QED
  BY <1>1, <1>2, <1>3, <1>4 DEF Bytcnt

\* The table BuildDmaDescTable makes (DwMmcHci.c:689-861): the descriptors
\* follow each other without a gap, none is empty, the last ends at BYTCNT,
\* and it alone raises the interrupt.
THEOREM DescTable ==
  ASSUME NEW len \in Nat, NEW i \in 1..Entries(len)
  PROVE  /\ Desc(len, i).addr \in Nat
         /\ Desc(len, i).words \in Nat \ {0}
         /\ Desc(len, i).addr + Desc(len, i).words <= Bytcnt(len)
         /\ i = 1 => Desc(len, i).addr = 0
         /\ i < Entries(len) =>
              /\ Desc(len, i + 1).addr = Desc(len, i).addr + Desc(len, i).words
              /\ Desc(len, i).dic /\ ~Desc(len, i).last
         /\ i = Entries(len) =>
              /\ Desc(len, i).addr + Desc(len, i).words = Bytcnt(len)
              /\ ~Desc(len, i).dic /\ Desc(len, i).last
<1> DEFINE e == Entries(len)
           B == BufWords
<1>1. B \in Nat \ {0} /\ Bytcnt(len) \in Nat /\ Bytcnt(len) >= len
      /\ e \in Nat /\ B * e < len + B /\ B * e \in Nat
  BY SizesAssumption, SizesHold
<1>2. i \in Nat /\ i >= 1 /\ i <= e
  BY <1>1
<1> HIDE DEF e, B
<1>3. B * (i - 1) \in Nat /\ B * (e - 1) \in Nat
  BY <1>1, <1>2
<1>4. B * (e - 1) = B * e - B /\ B * (i + 1 - 1) = B * (i - 1) + B
  BY <1>1, <1>2
<1>5. i < e => B * i <= B * (e - 1) /\ B * i = B * (i - 1) + B
  <2> SUFFICES ASSUME i < e
               PROVE  B * i <= B * (e - 1) /\ B * i = B * (i - 1) + B
    OBVIOUS
  <2>1. PICK d \in Nat : e - 1 = i + d
    <3>1. e - 1 - i \in Nat /\ e - 1 = i + (e - 1 - i)
      BY <1>1, <1>2
    <3> QED
      BY <3>1
  <2>2. B * (i + d) = B * i + B * d /\ B * d \in Nat /\ B * i \in Nat
    BY <1>1, <1>2
  <2> QED
    BY <1>1, <1>2, <2>1, <2>2
<1>6. B * (e - 1) < len
  BY <1>1, <1>3, <1>4
<1> DEFINE p == B * (i - 1)
           l == B * (e - 1)
           n == Bytcnt(len)
<1>7. /\ Desc(len, i).addr = p
      /\ i < e => Desc(len, i).words = B
      /\ ~(i < e) => Desc(len, i).words = n - l
      /\ Desc(len, i).last <=> i = e
      /\ Desc(len, i).dic <=> i < e
  BY DEF Desc, e, B
<1>8. Desc(len, i + 1).addr = p + B
  BY <1>4 DEF Desc, B
<1>9. /\ p \in Nat /\ l \in Nat /\ n \in Nat /\ l < n /\ B \in Nat \ {0}
      /\ i = 1 => p = 0
      /\ i < e => p + B <= l
      /\ i = e => p = l
  BY <1>1, <1>2, <1>3, <1>5, <1>6
<1> HIDE DEF p, l, n
<1>10. CASE i < e
  <2>1. Desc(len, i).addr = p /\ Desc(len, i).words = B
        /\ Desc(len, i).dic /\ ~Desc(len, i).last
    BY <1>2, <1>7, <1>10
  <2>2. p + B \in Nat /\ p + B <= n
    BY <1>9, <1>10
  <2>3. i < Entries(len) /\ i # Entries(len)
    BY <1>1, <1>2, <1>10 DEF e
  <2> QED
    BY <1>8, <1>9, <2>1, <2>2, <2>3 DEF n
<1>11. CASE i = e
  <2>1. Desc(len, i).addr = p /\ Desc(len, i).words = n - l
        /\ ~Desc(len, i).dic /\ Desc(len, i).last
    BY <1>2, <1>7, <1>11
  <2>2. n - l \in Nat \ {0} /\ p + (n - l) = n
    BY <1>9, <1>11
  <2>3. ~(i < Entries(len)) /\ i = Entries(len)
    BY <1>1, <1>2, <1>11 DEF e
  <2> QED
    BY <1>9, <2>1, <2>2, <2>3 DEF n
<1> QED
  BY <1>1, <1>2, <1>10, <1>11

\* The fields of the command.
LEMMA CmdHolds ==
  ASSUME NEW c \in Commands \cup {Idle}
  PROVE  /\ c.sd \in BOOLEAN /\ c.tuning \in BOOLEAN /\ c.read \in BOOLEAN
         /\ c.len \in Nat /\ c.timeout \in Nat
         /\ Bytcnt(c.len) \in Nat /\ Bytcnt(c.len) >= c.len
<1>1. CASE c = Idle
  BY <1>1, SizesHold DEF Idle
<1>2. CASE c \in Commands
  <2>1. c \in [sd : BOOLEAN, tuning : BOOLEAN, read : BOOLEAN, len : Lens,
               be : BOOLEAN, timeout : Timeouts]
    BY <1>2 DEF Commands
  <2>2. c.sd \in BOOLEAN /\ c.tuning \in BOOLEAN /\ c.read \in BOOLEAN
        /\ c.len \in Nat /\ c.timeout \in Nat
    BY <2>1, SizesAssumption
  <2> QED
    BY <2>2, SizesHold
<1> QED
  BY <1>1, <1>2

LEMMA TotalHolds ==
  ASSUME Types
  PROVE  /\ Total \in Nat /\ Total <= Bytcnt(cmd.len)
         /\ UseFifo => Total = cmd.len
BY CmdHolds DEF Types, Total, UseFifo, UseDma

(***************************************************************************)
(* The invariant.                                                          *)
(***************************************************************************)
LEMMA InitHolds == Init => IInv
<1> SUFFICES ASSUME Init PROVE IInv
  OBVIOUS
<1>1. fifo \in Seq(Int) /\ Len(fifo) <= Depth
  <2>1. Stale \in Int
    BY DEF Stale
  <2>2. <<Stale>> \in Seq(Int) /\ Len(<<Stale>>) = 1
    BY <2>1
  <2>3. <<>> \in Seq(Int) /\ Len(<<>>) = 0
    OBVIOUS
  <2>4. fifo = <<>> \/ fifo = <<Stale>>
    BY DEF Init
  <2>5. 0 <= Depth /\ 1 <= Depth
    BY SizesAssumption
  <2> QED
    BY <2>2, <2>3, <2>4, <2>5, Zenon
<1>2. Total \in Nat
  BY SizesHold DEF Init, Total, UseDma, Idle
<1>3. Types
  <2>1. /\ polls \in 0..MaxPolls /\ wait \in 0..MaxWait /\ busy \in BOOLEAN
        /\ sent <= Total /\ cmd \in Commands \cup {Idle}
    BY <1>2, SizesAssumption DEF Init
  <2>2. /\ received = 0 /\ sent = 0 /\ judged = 0 /\ bad = 0 /\ left = 0
        /\ pc = "create" /\ intsts = {} /\ rint = {} /\ status = "PENDING"
        /\ excuse = FALSE
    BY DEF Init
  <2>3. /\ received \in Nat /\ sent \in Nat /\ judged \in Nat /\ bad \in Nat
        /\ left \in Nat /\ judged <= sent /\ bad <= sent
    BY <2>2
  <2>6. excuse \in BOOLEAN
    BY <2>2, Zenon
  <2>4. /\ intsts \subseteq Flags /\ rint \subseteq Flags
        /\ pc \in Pcs
        /\ status \in {"PENDING", "SUCCESS", "DEVICE_ERROR", "TIMEOUT"}
    <3>1. intsts \subseteq Flags /\ rint \subseteq Flags
      BY <2>2
    <3>2. pc \in Pcs
      BY <2>2, Zenon DEF Pcs
    <3> QED
      BY <2>2, <3>1, <3>2
  <2>5. pc # "create" => mem \in [1..Bytcnt(cmd.len) -> Int]
    BY <2>2
  <2> QED
    BY <1>1, <2>1, <2>3, <2>4, <2>5, <2>6, Zenon DEF Types
<1>4. InTable
  <2>1. dma \in [at : Nat, pos : Nat, done : BOOLEAN]
    BY DEF Init
  <2> QED
    BY <2>1 DEF Init, InTable
<1>5. Early
  BY SizesAssumption DEF Init, Early
<1>6. Path /\ Conserved /\ Unseen
  BY DEF Init, Path, SuccessWasAnswered, Conserved, Unseen
<1> QED
  BY <1>3, <1>4, <1>5, <1>6 DEF IInv

LEMMA EarlyHolds ==
  ASSUME IInv, [Next]_vars
  PROVE  Early'
<1> USE DEF Early, Types, IInv, hostVars, ctrlVars, Running
<1>1. ASSUME NEW c \in Commands, Create(c)
      PROVE  Early'
  BY <1>1, SizesAssumption, CmdHolds DEF Create
<1>2. CASE Start
  BY <1>2, SizesAssumption, CmdHolds DEF Start
<1>3. CASE PollSd
  BY <1>3, SizesAssumption, CmdHolds DEF PollSd, SdJudge, Return
<1>4. CASE PollEmmc
  BY <1>4, SizesAssumption, CmdHolds DEF PollEmmc, Return
<1>5. CASE Sample \/ Put \/ Drain
  BY <1>5, SizesAssumption, CmdHolds DEF Sample, Put, CanPut, Drain, Least
<1>6. CASE Verify
  BY <1>6, SizesAssumption, CmdHolds DEF Verify, Return
<1>7. CASE Result
  BY <1>7, SizesAssumption, CmdHolds DEF Result, Complete, Return
<1>8. CASE Release \/ UNCHANGED vars
  BY <1>8, SizesAssumption, CmdHolds DEF Release, vars
<1>9. CASE Respond \/ CardSends \/ CardTakes \/ Judge \/ Silence \/ Starve \/
   AskForWords \/ Over \/ AutoStop \/ DmaMoves
  BY <1>9, SizesAssumption, CmdHolds DEF Respond, Raise, CardSends, MayMove,
     CardTakes, Judge, Silence, Starve, AskForWords, Over, AutoStop, DmaMoves
<1> QED
  BY <1>1, <1>2, <1>3, <1>4, <1>5, <1>6, <1>7, <1>8, <1>9 DEF Next, Driver,
     Hardware

LEMMA PathHolds ==
  ASSUME IInv, [Next]_vars
  PROVE  Path'
<1> USE DEF Path, SuccessWasAnswered, Answered, PolledInVain, UseFifo, Early,
   Types, IInv, hostVars, ctrlVars, Running
<1>1. ASSUME NEW c \in Commands, Create(c)
      PROVE  Path'
  BY <1>1, CmdHolds DEF Create
<1>2. CASE Start
  <2>1. /\ sent = 0 /\ sent' = sent /\ rint' = {} /\ pc' = "poll"
        /\ status = "PENDING" /\ status' = status
    BY <1>2 DEF Start
  <2> QED
    BY <2>1
<1>3. CASE PollSd
  <2>1. UNCHANGED <<cmd, rint, sent>> /\ cmd.sd /\ pc = "poll"
    BY <1>3 DEF PollSd
  <2>2. \/ pc' = "poll" /\ status' = status
        \/ pc' = "done" /\ status' # "SUCCESS"
        \/ /\ pc' \in {"sample", "result"} /\ status' = status
           /\ pc' = "sample" => UseFifo
           /\ (Answered \/ polls' = 0)
    BY <1>3 DEF PollSd, SdJudge, Return, ExecErr
  <2>3. status = "PENDING"
    BY <1>3 DEF PollSd
  <2> QED
    BY <2>1, <2>2, <2>3
<1>4. CASE PollEmmc
  <2>1. UNCHANGED <<cmd, rint, sent>> /\ pc = "poll" /\ status = "PENDING"
    BY <1>4 DEF PollEmmc
  <2>2. \/ pc' = "done" /\ status' # "SUCCESS"
        \/ pc' = "result" /\ status' = status /\ Answered
    BY <1>4 DEF PollEmmc, Return, ExecErr
  <2> QED
    BY <2>1, <2>2
<1>5. CASE Sample
  BY <1>5, CmdHolds DEF Sample
<1>6. CASE Put
  BY <1>6, CmdHolds DEF Put, CanPut
<1>7. CASE Drain
  BY <1>7, CmdHolds DEF Drain, Least
<1>8. CASE Verify
  BY <1>8, CmdHolds DEF Verify, Return
<1>9. CASE Result
  <2>1. UNCHANGED <<cmd, rint, sent, polls>> /\ pc = "result"
    BY <1>9 DEF Result
  <2>2. status = "PENDING" /\ pc' \in {"result", "done"}
    BY <1>9 DEF Result, Return
  <2>3. ASSUME status' = "SUCCESS"
        PROVE  \/ Answered
               \/ PolledInVain /\ cmd.read /\ (cmd.len > 0 => "CMD_DONE" \in rint)
    <3>1. Complete
      BY <1>9, <2>2, <2>3 DEF Result, Return
    <3>2. Answered \/ PolledInVain
      BY <2>1
    <3>3. cmd.sd /\ cmd.len > 0 => "ACD" \in rint
      <4>1. cmd.sd => ~dma.done
        BY DEF InTable
      <4> QED
        BY <3>1, <4>1, CmdHolds DEF Complete
    <3>4. cmd.len = 0 => cmd.read
      BY CmdHolds DEF Commands, Idle
    <3>5. cmd.len \in Nat /\ cmd.read \in BOOLEAN
      BY CmdHolds
    <3>6. cmd.len > 0 => "CMD_DONE" \in rint /\ (~cmd.read => Answered)
      BY <2>1, <3>2, <3>3, <3>5
    <3> QED
      BY <3>2, <3>4, <3>5, <3>6
  <2> QED
    BY <2>1, <2>2, <2>3
<1>10. CASE Release \/ UNCHANGED vars
  BY <1>10, CmdHolds DEF Release, vars
<1>11. CASE Respond
  BY <1>11, CmdHolds DEF Respond, Raise
<1>12. CASE CardSends
  BY <1>12, CmdHolds DEF CardSends, MayMove
<1>13. CASE CardTakes \/ Judge
  BY <1>13, CmdHolds DEF CardTakes, MayMove, Judge
<1>14. CASE Silence \/ Starve \/ AskForWords
  BY <1>14, CmdHolds DEF Silence, Raise, Starve, AskForWords
<1>15. CASE Over
  BY <1>15, CmdHolds DEF Over, Raise
<1>16. CASE AutoStop
  <2>1. /\ UNCHANGED <<pc, cmd, polls, sent, status>> /\ sent > 0
        /\ rint' = rint \cup {"ACD"} /\ "CMD_DONE" \in rint
    BY <1>16, CmdHolds, TotalHolds DEF AutoStop, Moved, Raise, Total, UseDma
  <2> QED
    BY <2>1
<1>17. CASE DmaMoves
  BY <1>17, CmdHolds DEF DmaMoves
<1> QED
  BY <1>1, <1>2, <1>3, <1>4, <1>5, <1>6, <1>7, <1>8, <1>9, <1>10, <1>11, <1>12,
     <1>13, <1>14, <1>15, <1>16, <1>17 DEF Next, Driver, Hardware

\* The words that a step of the driver or of the card's side moves.
LEMMA FifoHolds ==
  ASSUME NEW q \in Seq(Int)
  PROVE  /\ Len(q) \in Nat
         /\ \A w \in Int : Append(q, w) \in Seq(Int)
                           /\ Len(Append(q, w)) = Len(q) + 1
         /\ q # <<>> => /\ Len(q) > 0 /\ Head(q) \in Int
                        /\ Tail(q) \in Seq(Int) /\ Len(Tail(q)) = Len(q) - 1
         /\ q = <<>> => Len(q) = 0
         /\ \A n \in 1..Len(q) : /\ SubSeq(q, n + 1, Len(q)) \in Seq(Int)
                                 /\ Len(SubSeq(q, n + 1, Len(q))) = Len(q) - n
         /\ \A i \in 1..Len(q) : q[i] \in Int
<1>1. \A w \in Int : Append(q, w) \in Seq(Int)
                     /\ Len(Append(q, w)) = Len(q) + 1
  OBVIOUS
<1>2. q # <<>> => /\ Len(q) > 0 /\ Head(q) \in Int
                  /\ Tail(q) \in Seq(Int) /\ Len(Tail(q)) = Len(q) - 1
  OBVIOUS
<1>3. \A n \in 1..Len(q) : /\ SubSeq(q, n + 1, Len(q)) \in Seq(Int)
                           /\ Len(SubSeq(q, n + 1, Len(q))) = Len(q) - n
  OBVIOUS
<1> QED
  BY <1>1, <1>2, <1>3

LEMMA ConservedHolds ==
  ASSUME IInv, [Next]_vars
  PROVE  Conserved'
<1> USE DEF Conserved, UseFifo, hostVars, ctrlVars
<1> /\ received \in Nat /\ sent \in Nat /\ fifo \in Seq(Int)
    /\ Len(fifo) \in Nat /\ cmd.len \in Nat /\ Bytcnt(cmd.len) \in Nat
    /\ cmd.len <= Bytcnt(cmd.len) /\ sent <= Total /\ Total \in Nat
    /\ (UseFifo => Total = cmd.len)
    /\ pc # "create" => mem \in [1..Bytcnt(cmd.len) -> Int]
    /\ Conserved
  BY CmdHolds, TotalHolds, FifoHolds DEF Types, IInv
<1>1. ASSUME NEW c \in Commands, Create(c)
      PROVE  Conserved'
  BY <1>1 DEF Create
<1>2. CASE Start
  <2>1. received = 0 /\ sent = 0 /\ UNCHANGED <<received, sent, cmd>>
    BY <1>2 DEF Start, IInv, Early
  <2>2. ~excuse' => fifo' = <<>>
    BY <1>2 DEF Start
  <2>3. Len(<<>>) = 0
    OBVIOUS
  <2> QED
    BY <2>1, <2>2, <2>3
<1>3. CASE PollSd
  BY <1>3 DEF PollSd, SdJudge, Return
<1>4. CASE PollEmmc
  BY <1>4 DEF PollEmmc, Return
<1>5. CASE Sample
  BY <1>5 DEF Sample
<1>6. CASE Put
  <2>1. ~cmd.read /\ UseFifo /\ UNCHANGED <<cmd, sent, excuse>> /\ pc = "put"
    BY <1>6 DEF Put, IInv, Path
  <2>2. CASE CanPut /\ received' = received + 1
             /\ fifo' = Append(fifo, mem[received'])
    <3>1. received + 1 \in 1..Bytcnt(cmd.len) /\ received + 1 <= cmd.len
      BY <2>2 DEF CanPut
    <3>2. mem[received + 1] \in Int
      BY <2>1, <3>1
    <3>3. Len(fifo') = Len(fifo) + 1
      BY <2>2, <3>2, FifoHolds
    <3> QED
      BY <2>1, <2>2, <3>1, <3>3
  <2>3. CASE UNCHANGED <<received, fifo>>
    BY <2>1, <2>3
  <2> QED
    BY <1>6, <2>2, <2>3 DEF Put
<1>7. CASE Drain
  <2>1. cmd.read /\ pc = "count" /\ UNCHANGED <<cmd, sent, excuse>>
    BY <1>7 DEF Drain, IInv, Path
  <2> SUFFICES ASSUME UseFifo, ~excuse
               PROVE  received' + Len(fifo') = sent
    BY <2>1
  <2>2. received + Len(fifo) = sent
    BY <2>1
  <2>3. CASE Len(fifo) > 0
    <3>1. Least(Len(fifo), cmd.len) = Len(fifo)
      BY <2>2 DEF Least
    <3>2. received' = received + Len(fifo)
          /\ fifo' = SubSeq(fifo, Len(fifo) + 1, Len(fifo))
      BY <1>7, <2>3, <3>1 DEF Drain
    <3>3. Len(fifo') = 0
      BY <2>3, <3>2, FifoHolds
    <3> QED
      BY <2>2, <3>2, <3>3
  <2>4. CASE ~(Len(fifo) > 0)
    BY <1>7, <2>2, <2>4 DEF Drain
  <2> QED
    BY <2>3, <2>4
<1>8. CASE Verify \/ Result
  BY <1>8 DEF Verify, Return, Result, Complete
<1>9. CASE Release \/ UNCHANGED vars
  BY <1>9 DEF Release, vars
<1>10. CASE Respond \/ Judge \/ Silence \/ Starve \/ AskForWords \/ Over \/
   AutoStop
  BY <1>10 DEF Respond, Raise, Judge, Silence, Starve, AskForWords, Over,
     AutoStop
<1>11. CASE CardSends
  <2>1. /\ cmd.read /\ pc \notin {"create", "exec", "done"}
        /\ sent' = sent + 1 /\ fifo' = Append(fifo, sent + 1)
        /\ UNCHANGED <<cmd, received, excuse, pc>>
    BY <1>11 DEF CardSends, Running
  <2>2. Len(fifo') = Len(fifo) + 1
    BY <2>1, FifoHolds
  <2>3. UseFifo /\ ~excuse => received + Len(fifo) = sent
    BY <2>1
  <2>4. UseFifo /\ ~excuse => received' + Len(fifo') = sent'
    <3>1. received' = received /\ sent' = sent + 1
      BY <2>1
    <3> QED
      BY <2>2, <2>3, <3>1
  <2> QED
    BY <2>1, <2>4
<1>12. CASE CardTakes
  <2>1. /\ ~cmd.read /\ pc \notin {"create", "exec", "done"} /\ fifo # <<>>
        /\ sent' = sent + 1 /\ fifo' = Tail(fifo)
        /\ UNCHANGED <<cmd, received, excuse, pc>>
    BY <1>12 DEF CardTakes, Running
  <2>2. Len(fifo') = Len(fifo) - 1 /\ Len(fifo) > 0
    BY <2>1, FifoHolds
  <2> QED
    BY <2>1, <2>2
<1>13. CASE DmaMoves
  <2>1. ~UseFifo /\ UNCHANGED <<cmd>>
    BY <1>13 DEF DmaMoves, IInv, InTable
  <2> QED
    BY <2>1
<1> QED
  BY <1>1, <1>2, <1>3, <1>4, <1>5, <1>6, <1>7, <1>8, <1>9, <1>10, <1>11, <1>12,
     <1>13 DEF Next, Driver, Hardware

\* Types, apart from the words and their numbers.
Control ==
  /\ pc \in Pcs
  /\ cmd \in Commands \cup {Idle}
  /\ intsts \subseteq Flags /\ rint \subseteq Flags
  /\ polls \in 0..MaxPolls /\ wait \in 0..MaxWait /\ left \in Nat
  /\ status \in {"PENDING", "SUCCESS", "DEVICE_ERROR", "TIMEOUT"}
  /\ busy \in BOOLEAN /\ excuse \in BOOLEAN

LEMMA ControlHolds ==
  ASSUME IInv, [Next]_vars
  PROVE  Control'
<1> USE DEF Control, Early, Pcs, Flags, hostVars, ctrlVars
<1> /\ Control /\ Early /\ cmd.timeout \in Nat
    /\ MaxPolls \in Nat \ {0, 1} /\ MaxWait \in Nat \ {0, 1}
  BY CmdHolds, SizesAssumption DEF IInv, Types, Control
<1>1. ASSUME NEW c \in Commands, Create(c)
      PROVE  Control'
  BY <1>1 DEF Create
<1>2. CASE Start
  BY <1>2 DEF Start
<1>3. CASE PollSd
  <2>1. polls' \in 0..MaxPolls /\ left' \in Nat
    BY <1>3 DEF PollSd
  <2>2. intsts' \subseteq Flags
    BY <1>3 DEF PollSd
  <2>3. /\ pc' \in {"poll", "done", "sample", "result"}
        /\ status' \in {"DEVICE_ERROR", status}
    BY <1>3 DEF PollSd, SdJudge, Return
  <2>4. UNCHANGED <<cmd, rint, wait, busy, excuse>>
    BY <1>3 DEF PollSd
  <2> QED
    BY <2>1, <2>2, <2>3, <2>4
<1>4. CASE PollEmmc
  BY <1>4 DEF PollEmmc, Return
<1>5. CASE Sample
  BY <1>5 DEF Sample
<1>6. CASE Put
  <2>1. rint' \subseteq Flags /\ intsts' \subseteq Flags
    BY <1>6 DEF Put
  <2>2. pc' \in {"put", "verify"} /\ wait' \in {wait, MaxWait}
    BY <1>6 DEF Put
  <2>3. UNCHANGED <<cmd, polls, left, status, busy, excuse>>
    BY <1>6 DEF Put
  <2> QED
    BY <2>1, <2>2, <2>3
<1>7. CASE Drain
  BY <1>7 DEF Drain, Least
<1>8. CASE Verify
  BY <1>8 DEF Verify, Return
<1>9. CASE Result
  BY <1>9 DEF Result, Complete, Return
<1>10. CASE Release \/ UNCHANGED vars
  BY <1>10 DEF Release, vars
<1>11. CASE Respond \/ Silence \/ Starve \/ AskForWords \/ Over \/ AutoStop
  BY <1>11 DEF Respond, Raise, Silence, Starve, AskForWords, Over, AutoStop
<1>12. CASE CardSends
  BY <1>12 DEF CardSends, MayMove
<1>13. CASE CardTakes
  BY <1>13 DEF CardTakes, MayMove
<1>14. CASE Judge
  BY <1>14 DEF Judge
<1>15. CASE DmaMoves
  BY <1>15 DEF DmaMoves
<1> QED
  BY <1>1, <1>2, <1>3, <1>4, <1>5, <1>6, <1>7, <1>8, <1>9, <1>10, <1>11, <1>12,
     <1>13, <1>14, <1>15 DEF Next, Driver, Hardware

\* The words and their numbers.
Data ==
  /\ received \in Nat /\ sent \in Nat /\ judged \in Nat /\ bad \in Nat
  /\ sent <= Total /\ judged <= sent /\ bad <= sent
  /\ fifo \in Seq(Int) /\ Len(fifo) <= Depth
  /\ pc # "create" => mem \in [1..Bytcnt(cmd.len) -> Int]

LEMMA DataHolds ==
  ASSUME IInv, [Next]_vars
  PROVE  Data'
<1> USE DEF Data, hostVars, ctrlVars
<1> /\ Data /\ Total \in Nat /\ Total <= Bytcnt(cmd.len) /\ Depth \in Nat
    /\ cmd.len \in Nat /\ Bytcnt(cmd.len) \in Nat /\ cmd.len <= Bytcnt(cmd.len)
    /\ Len(fifo) \in Nat
  BY CmdHolds, TotalHolds, SizesAssumption, FifoHolds DEF IInv, Types, Data
<1>0. UNCHANGED cmd => Total' = Total /\ Bytcnt(cmd.len)' = Bytcnt(cmd.len)
  BY DEF Total, UseDma
<1>1. ASSUME NEW c \in Commands, Create(c)
      PROVE  Data'
  <2>1. c.len \in Nat /\ Bytcnt(c.len) \in Nat
    BY CmdHolds
  <2>2. /\ cmd' = c /\ mem' = [i \in 1..Bytcnt(c.len) |-> IF c.read THEN 0 ELSE i]
        /\ UNCHANGED <<received, sent, judged, bad, fifo>>
    BY <1>1 DEF Create
  <2>3. mem' \in [1..Bytcnt(c.len) -> Int]
    BY <2>1, <2>2
  <2>4. sent = 0 /\ Total' \in Nat
    BY <1>1, <2>1, <2>2 DEF Create, IInv, Early, Total, UseDma
  <2> QED
    BY <2>2, <2>3, <2>4
<1>2. CASE Start
  <2>1. fifo' = fifo \/ fifo' = <<>>
    BY <1>2 DEF Start
  <2>2. fifo' \in Seq(Int) /\ Len(fifo') <= Depth
    <3>1. <<>> \in Seq(Int) /\ Len(<<>>) = 0 /\ 0 <= Depth
      OBVIOUS
    <3> QED
      BY <2>1, <3>1, Zenon
  <2>3. UNCHANGED <<received, sent, judged, bad, mem, cmd>> /\ pc = "exec"
    BY <1>2 DEF Start
  <2> QED
    BY <1>0, <2>2, <2>3
<1>3. CASE PollSd
  BY <1>3, <1>0 DEF PollSd, SdJudge, Return
<1>4. CASE PollEmmc
  BY <1>4, <1>0 DEF PollEmmc, Return
<1>5. CASE Sample \/ Verify
  BY <1>5, <1>0 DEF Sample, Verify, Return
<1>6. CASE Result
  BY <1>6, <1>0 DEF Result, Complete, Return
<1>7. CASE Put
  <2>1. /\ pc = "put" /\ pc' # "create"
        /\ UNCHANGED <<cmd, sent, judged, bad, mem>>
    BY <1>7 DEF Put
  <2>2. CASE CanPut /\ received' = received + 1
             /\ fifo' = Append(fifo, mem[received'])
    <3>1. received + 1 \in 1..Bytcnt(cmd.len) /\ Len(fifo) + 1 <= Depth
      BY <2>2 DEF CanPut
    <3>2. mem[received + 1] \in Int
      BY <2>1, <3>1
    <3>3. fifo' \in Seq(Int) /\ Len(fifo') <= Depth
      BY <2>2, <3>1, <3>2, FifoHolds
    <3> QED
      BY <1>0, <2>1, <2>2, <3>3
  <2>3. CASE UNCHANGED <<received, fifo>>
    BY <1>0, <2>1, <2>3
  <2> QED
    BY <1>7, <2>2, <2>3 DEF Put
<1>8. CASE Drain
  <2>1. /\ pc = "count" /\ pc' = "verify"
        /\ UNCHANGED <<cmd, sent, judged, bad>>
    BY <1>8 DEF Drain
  <2>2. CASE Len(fifo) = 0
    <3>1. UNCHANGED <<received, fifo, mem>>
      BY <1>8, <2>2 DEF Drain
    <3> QED
      BY <1>0, <2>1, <3>1
  <2>3. CASE Len(fifo) > 0
    <3> DEFINE n == Least(Len(fifo), cmd.len)
    <3>1. n \in 0..Len(fifo)
      BY DEF Least
    <3>2. /\ received' = received + n
          /\ fifo' = SubSeq(fifo, n + 1, Len(fifo))
          /\ mem' = [i \in DOMAIN mem |->
                       IF Place(i) - received \in 1..n
                         THEN Stored(fifo[Place(i) - received]) ELSE mem[i]]
      BY <1>8, <2>3 DEF Drain
    <3> HIDE DEF n
    <3>3. ASSUME NEW i \in 1..Len(fifo)
          PROVE  Stored(fifo[i]) \in Int
      <4>1. fifo[i] \in Int
        BY FifoHolds
      <4> QED
        BY <4>1 DEF Stored
    <3>4. ASSUME NEW i \in 1..Bytcnt(cmd.len)
          PROVE  (IF Place(i) - received \in 1..n
                    THEN Stored(fifo[Place(i) - received]) ELSE mem[i]) \in Int
      <4>1. mem[i] \in Int
        BY <2>1
      <4>2. Place(i) - received \in 1..n => Place(i) - received \in 1..Len(fifo)
        BY <3>1
      <4> QED
        BY <3>3, <4>1, <4>2
    <3>5. mem' \in [1..Bytcnt(cmd.len) -> Int]
      BY <2>1, <3>2, <3>4
    <3>6. fifo' \in Seq(Int) /\ Len(fifo') <= Depth
      <4>1. CASE n = 0
        <5>1. SubSeq(fifo, 1, Len(fifo)) \in Seq(Int)
              /\ Len(SubSeq(fifo, 1, Len(fifo))) = Len(fifo)
          OBVIOUS
        <5> QED
          BY <3>2, <4>1, <5>1
      <4>2. CASE n \in 1..Len(fifo)
        BY <3>2, <4>2, FifoHolds
      <4> QED
        BY <3>1, <4>1, <4>2
    <3> QED
      BY <1>0, <2>1, <3>1, <3>2, <3>5, <3>6
  <2> QED
    BY <2>2, <2>3
<1>9. CASE Release \/ UNCHANGED vars
  BY <1>9, <1>0 DEF Release, vars
<1>10. CASE Respond \/ Silence \/ Starve \/ AskForWords \/ Over \/ AutoStop
  BY <1>10, <1>0 DEF Respond, Raise, Silence, Starve, AskForWords, Over,
     AutoStop
<1>11. CASE CardSends
  <2>1. /\ sent' = sent + 1 /\ fifo' = Append(fifo, sent + 1)
        /\ sent < Total /\ Len(fifo) < Depth
        /\ UNCHANGED <<cmd, received, judged, bad, mem, pc>>
    BY <1>11 DEF CardSends, MayMove
  <2>2. fifo' \in Seq(Int) /\ Len(fifo') <= Depth
    BY <2>1, FifoHolds
  <2>3. sent + 1 \in Nat /\ sent + 1 <= Total /\ judged <= sent + 1 /\ bad <= sent + 1
    BY <2>1
  <2> QED
    BY <1>0, <2>1, <2>2, <2>3
<1>12. CASE CardTakes
  <2>1. /\ sent' = sent + 1 /\ fifo' = Tail(fifo)
        /\ sent < Total /\ fifo # <<>>
        /\ UNCHANGED <<cmd, received, judged, bad, mem, pc>>
    BY <1>12 DEF CardTakes, MayMove
  <2>2. fifo' \in Seq(Int) /\ Len(fifo') <= Depth
    BY <2>1, FifoHolds
  <2> QED
    BY <1>0, <2>1, <2>2
<1>13. CASE Judge
  BY <1>13, <1>0 DEF Judge
<1>14. CASE DmaMoves
  <2>1. UNCHANGED <<cmd, received, sent, judged, bad, pc>>
    BY <1>14 DEF DmaMoves
  <2> DEFINE d == Desc(cmd.len, dma.at)
             i == d.addr + dma.pos + 1
  <2>2. /\ dma.at \in 1..Entries(cmd.len) /\ dma.pos \in Nat
        /\ dma.pos < d.words /\ pc # "create"
    BY <1>14, SizesHold DEF DmaMoves, IInv, InTable, Running
  <2>3. d.addr \in Nat /\ d.words \in Nat /\ d.addr + d.words <= Bytcnt(cmd.len)
    BY <2>2, DescTable
  <2> HIDE DEF d
  <2>4. i \in 1..Bytcnt(cmd.len)
    BY <2>2, <2>3
  <2>5. \/ fifo # <<>> /\ mem' = [mem EXCEPT ![i] = Head(fifo)]
           /\ fifo' = Tail(fifo)
        \/ Len(fifo) < Depth /\ fifo' = Append(fifo, mem[i]) /\ UNCHANGED mem
    BY <1>14 DEF DmaMoves, d
  <2> HIDE DEF i
  <2>6. CASE fifo # <<>> /\ mem' = [mem EXCEPT ![i] = Head(fifo)]
             /\ fifo' = Tail(fifo)
    <3>1. Head(fifo) \in Int /\ fifo' \in Seq(Int) /\ Len(fifo') <= Depth
      BY <2>6, FifoHolds
    <3>2. mem' \in [1..Bytcnt(cmd.len) -> Int]
      BY <2>2, <2>6, <3>1
    <3> QED
      BY <1>0, <2>1, <3>1, <3>2
  <2>7. CASE Len(fifo) < Depth /\ fifo' = Append(fifo, mem[i]) /\ UNCHANGED mem
    <3>1. mem[i] \in Int
      BY <2>2, <2>4
    <3>2. fifo' \in Seq(Int) /\ Len(fifo') <= Depth
      BY <2>7, <3>1, FifoHolds
    <3> QED
      BY <1>0, <2>1, <2>7, <3>2
  <2> QED
    BY <2>5, <2>6, <2>7
<1> QED
  BY <1>1, <1>2, <1>3, <1>4, <1>5, <1>6, <1>7, <1>8, <1>9, <1>10, <1>11, <1>12,
     <1>13, <1>14 DEF Next, Driver, Hardware

LEMMA TypesHold == IInv /\ [Next]_vars => Types'
BY ControlHolds, DataHolds DEF Control, Data, Types

LEMMA InTableHolds ==
  ASSUME IInv, [Next]_vars
  PROVE  InTable'
<1> USE DEF hostVars, ctrlVars
<1> InTable /\ cmd.len \in Nat /\ Entries(cmd.len) \in Nat
  BY CmdHolds, SizesHold DEF IInv, Types
<1>0. UNCHANGED <<cmd, dma>> => InTable'
  BY DEF InTable
<1>1. ASSUME NEW c \in Commands, Create(c)
      PROVE  InTable'
  <2>1. c.len \in Nat /\ c.len > 0 => 1 \in 1..Entries(c.len)
    BY SizesHold
  <2>2. c.len \in Nat /\ c.len > 0 => Desc(c.len, 1).words \in Nat \ {0}
    BY <2>1, DescTable
  <2>3. cmd' = c /\ dma'.pos = 0 /\ dma'.done = FALSE
        /\ dma'.at = IF ~c.sd /\ ~c.tuning /\ c.len > 0 THEN 1 ELSE 0
    BY <1>1 DEF Create
  <2>4. dma' \in [at : Nat, pos : Nat, done : BOOLEAN]
    BY <1>1 DEF Create
  <2>5. c.len \in Nat
    BY CmdHolds
  <2> QED
    BY <2>1, <2>2, <2>3, <2>4, <2>5 DEF InTable
<1>2. CASE Start
  BY <1>2, <1>0 DEF Start
<1>3. CASE PollSd
  BY <1>3, <1>0 DEF PollSd, SdJudge, Return
<1>4. CASE PollEmmc
  BY <1>4, <1>0 DEF PollEmmc, Return
<1>5. CASE Sample \/ Put \/ Drain
  BY <1>5, <1>0 DEF Sample, Put, CanPut, Drain, Least
<1>6. CASE Verify \/ Result
  BY <1>6, <1>0 DEF Verify, Return, Result, Complete
<1>7. CASE Release \/ Respond \/ Silence \/ Starve \/ AskForWords \/ Over \/
   AutoStop
  BY <1>7, <1>0 DEF Release, Respond, Raise, Silence, Starve, AskForWords,
     Over, AutoStop
<1>8. CASE CardSends \/ CardTakes \/ Judge \/ UNCHANGED vars
  BY <1>8, <1>0 DEF CardSends, MayMove, CardTakes, Judge, vars
<1>9. CASE DmaMoves
  <2> DEFINE d == Desc(cmd.len, dma.at)
  <2>1. /\ dma.at \in 1..Entries(cmd.len) /\ dma.pos \in Nat
        /\ dma.pos < d.words /\ ~cmd.sd /\ dma.done \in BOOLEAN
        /\ dma \in [at : Nat, pos : Nat, done : BOOLEAN]
        /\ UNCHANGED cmd /\ DmaStep(d)
    BY <1>9 DEF DmaMoves, InTable
  <2>2. CASE dma.pos + 1 < d.words
    <3>1. dma' = [dma EXCEPT !.pos = @ + 1]
      BY <2>1, <2>2 DEF DmaStep
    <3>2. dma'.at = dma.at /\ dma'.pos = dma.pos + 1
          /\ dma' \in [at : Nat, pos : Nat, done : BOOLEAN]
      BY <2>1, <3>1
    <3> HIDE DEF d
    <3> QED
      BY <2>1, <2>2, <3>2 DEF InTable, d
  <2>3. CASE ~(dma.pos + 1 < d.words)
    <3>1. dma' = [at |-> IF d.last THEN 0 ELSE dma.at + 1, pos |-> 0,
                  done |-> dma.done \/ ~d.dic]
      BY <2>1, <2>3 DEF DmaStep
    <3>2. dma' \in [at : Nat, pos : Nat, done : BOOLEAN]
      BY <2>1, <3>1
    <3>3. CASE d.last
      BY <2>1, <3>1, <3>2, <3>3 DEF InTable
    <3>4. CASE ~d.last
      <4>1. dma.at < Entries(cmd.len)
        <5>1. dma.at = Entries(cmd.len) => d.last
          BY <2>1, DescTable
        <5> QED
          BY <2>1, <3>4, <5>1
      <4>2. dma.at + 1 \in 1..Entries(cmd.len)
        BY <2>1, <4>1
      <4>3. Desc(cmd.len, dma.at + 1).words \in Nat \ {0}
        BY <4>2, DescTable
      <4>4. dma'.at = dma.at + 1 /\ dma'.pos = 0
        BY <3>1, <3>4
      <4> QED
        BY <2>1, <3>2, <4>2, <4>3, <4>4 DEF InTable
    <3> QED
      BY <3>3, <3>4
  <2> QED
    BY <2>2, <2>3
<1> QED
  BY <1>1, <1>2, <1>3, <1>4, <1>5, <1>6, <1>7, <1>8, <1>9 DEF Next, Driver,
     Hardware

LEMMA UnseenHolds ==
  ASSUME IInv, [Next]_vars
  PROVE  Unseen'
<1> USE DEF Unseen, Path, Early, Conserved, UseFifo, hostVars, ctrlVars
<1> /\ received \in Nat /\ sent \in Nat /\ bad \in Nat /\ Depth \in Nat
    /\ Len(fifo) \in Nat /\ Len(fifo) <= Depth /\ cmd.len \in Nat
    /\ Unseen /\ Conserved /\ Path /\ Early
  BY CmdHolds, SizesAssumption, FifoHolds DEF Types, IInv
<1>1. ASSUME NEW c \in Commands, Create(c)
      PROVE  Unseen'
  BY <1>1 DEF Create
<1>2. CASE Start
  BY <1>2 DEF Start
<1>3. CASE PollSd
  BY <1>3 DEF PollSd, SdJudge, Return
<1>4. CASE PollEmmc
  BY <1>4 DEF PollEmmc, Return
<1>5. CASE Sample
  BY <1>5 DEF Sample
<1>6. CASE Put
  BY <1>6 DEF Put, CanPut
<1>7. CASE Drain
  BY <1>7 DEF Drain, Least
<1>8. CASE Verify
  <2>1. /\ pc = "verify" /\ UNCHANGED <<cmd, received, intsts, rint, bad, excuse>>
        /\ \/ pc' = "done" /\ status' \in {"DEVICE_ERROR", "TIMEOUT"}
           \/ /\ pc' = (IF received < cmd.len THEN "sample" ELSE "result")
              /\ UNCHANGED status /\ "DATA_ERR" \notin intsts
    BY <1>8 DEF Verify, Return, DataErr
  <2> QED
    BY <2>1
<1>9. CASE Result
  BY <1>9 DEF Result, Complete, Return
<1>10. CASE Release \/ UNCHANGED vars
  BY <1>10 DEF Release, vars
<1>11. CASE Respond \/ Silence \/ Starve \/ AskForWords \/ Over \/ AutoStop
  BY <1>11 DEF Respond, Raise, Silence, Starve, AskForWords, Over, AutoStop
<1>12. CASE CardSends
  BY <1>12 DEF CardSends, MayMove
<1>13. CASE CardTakes
  BY <1>13 DEF CardTakes, MayMove
<1>14. CASE Judge
  <2>1. /\ pc \notin {"create", "exec", "done"}
        /\ UNCHANGED <<pc, cmd, received, intsts, status, excuse>>
        /\ \/ UNCHANGED <<rint, bad>>
           \/ rint' = rint \cup {"DATA_ERR"} /\ bad' = IF bad = 0 THEN sent ELSE bad
    BY <1>14 DEF Judge, Running
  <2>2. CASE UNCHANGED <<rint, bad>>
    BY <2>1, <2>2
  <2>3. CASE rint' = rint \cup {"DATA_ERR"}
             /\ bad' = IF bad = 0 THEN sent ELSE bad
    <3>1. UseFifo /\ ~excuse => sent >= received - Depth
      BY <2>1
    <3>2. UseFifo /\ ~excuse /\ pc = "count" => sent >= received
      BY <2>1
    <3>3. status' = "PENDING"
      BY <2>1
    <3> QED
      BY <2>1, <2>3, <3>1, <3>2, <3>3
  <2> QED
    BY <2>1, <2>2, <2>3
<1>15. CASE DmaMoves
  BY <1>15 DEF DmaMoves
<1> QED
  BY <1>1, <1>2, <1>3, <1>4, <1>5, <1>6, <1>7, <1>8, <1>9, <1>10, <1>11, <1>12,
     <1>13, <1>14, <1>15 DEF Next, Driver, Hardware

\* The inductive invariant of one command's data (DwMmcHci.c:865-1743): the
\* types, the IDMAC inside its table, what has not happened before CMD, how
\* the driver came to where it is, that no word is lost between card, FIFO
\* and driver, and which failed CRC the driver has not seen.
THEOREM Inductive == Spec => []IInv
<1>1. Init => IInv
  BY InitHolds
<1>2. IInv /\ [Next]_vars => IInv'
  BY TypesHold, InTableHolds, EarlyHolds, PathHolds, ConservedHolds,
     UnseenHolds DEF IInv
<1> QED
  BY <1>1, <1>2, PTL DEF Spec

\* Every variable keeps its type: TransferFifo never puts more into the FIFO
\* than it holds, and the IDMAC never leaves the table of descriptors.
THEOREM TypeCorrect == Spec => []TypeOK
<1>1. IInv => TypeOK
  <2> SUFFICES ASSUME IInv PROVE TypeOK
    OBVIOUS
  <2>1. /\ sent \in 0..Total /\ judged \in 0..sent /\ bad \in 0..Total
        /\ received \in Nat /\ Len(fifo) <= Depth
    <3>1. Types /\ Total \in Nat
      BY TotalHolds DEF IInv
    <3>2. /\ received \in Nat /\ sent \in Nat /\ judged \in Nat /\ bad \in Nat
          /\ sent <= Total /\ judged <= sent /\ bad <= sent /\ Len(fifo) <= Depth
      BY <3>1 DEF Types
    <3> QED
      BY <3>1, <3>2
  <2>2. dma.at \in 0..Entries(cmd.len) /\ dma.done \in BOOLEAN
    <3>1. cmd \in Commands \cup {Idle} /\ InTable
      BY DEF IInv, Types
    <3>2. Entries(cmd.len) \in Nat
      BY <3>1, CmdHolds, SizesHold
    <3>3. dma.at \in Nat /\ dma.done \in BOOLEAN
          /\ (dma.at > 0 => dma.at <= Entries(cmd.len))
      BY <3>1 DEF InTable
    <3> QED
      BY <3>2, <3>3
  <2> QED
    BY <2>1, <2>2 DEF IInv, Types, Pcs, TypeOK
<1> QED
  BY <1>1, Inductive, PTL

\* A command reported as successful had a response without error, unless
\* DwSdExecTrb polled in vain (DwMmcHci.c:1491-1530): a write had one even then,
\* a read at least ended, perhaps with a response error that TransferFifo
\* (DwMmcHci.c:889) does not test.
THEOREM SuccessAnswered == Spec => []SuccessWasAnswered
<1>1. IInv => SuccessWasAnswered
  BY DEF IInv, Path
<1> QED
  BY <1>1, Inductive, PTL

\* What TransferFifo (DwMmcHci.c:865-984) may miss is bounded by the FIFO: a
\* transfer that succeeded failed no CRC earlier than Depth words before its
\* end.
THEOREM OnlyTailMissed == Spec => []MissesOnlyTheTail
<1>1. IInv => MissesOnlyTheTail
  BY DEF IInv, Unseen, MissesOnlyTheTail
<1> QED
  BY <1>1, Inductive, PTL

(***************************************************************************)
(* The words.                                                              *)
(***************************************************************************)
\* How many words the host's side of the FIFO has moved: TransferFifo by its
\* counter, the IDMAC by its place in the table.
DmaMoved ==
  IF ~UseDma THEN 0
  ELSE IF dma.at = 0 THEN Bytcnt(cmd.len)
  ELSE Desc(cmd.len, dma.at).addr + dma.pos

HostMoved == IF UseFifo THEN received ELSE DmaMoved

\* The IDMAC starts at the head of its table and is done only past its end;
\* the data of a write are over only when every word was moved, and the
\* buffer of a write is not touched.
Ends ==
  /\ pc \in {"create", "exec"} =>
       rint = {} /\ (UseDma => dma.at = 1 /\ dma.pos = 0 /\ ~dma.done)
  /\ dma.at > 0 => UseDma
  /\ dma.done => dma.at = 0
  /\ ~cmd.read /\ "DTO" \in rint => sent = Total
  /\ ~cmd.read /\ pc # "create" => \A i \in 1..Bytcnt(cmd.len) : mem[i] = i
  /\ media \in Seq(Int) /\ Len(media) = IF cmd.read THEN 0 ELSE sent

\* The FIFO is a window on the words in their order, between the card's side
\* of it and the host's.
InOrder ==
  pc \notin {"create", "exec"} /\ ~excuse /\ ~cmd.tuning =>
    IF cmd.read
      THEN /\ HostMoved + Len(fifo) = sent
           /\ \A i \in 1..Len(fifo) : fifo[i] = HostMoved + i
           /\ \A i \in 1..HostMoved : mem[Place(i)] = Stored(i)
      ELSE /\ sent + Len(fifo) = HostMoved
           /\ \A i \in 1..Len(fifo) : fifo[i] = sent + i
           /\ \A i \in 1..sent : media[i] = i

WInv == IInv /\ Ends /\ InOrder /\ MovedInOrder

LEMMA DmaMovedHolds ==
  ASSUME IInv
  PROVE  DmaMoved \in Nat /\ HostMoved \in Nat
<1>1. cmd.len \in Nat /\ Bytcnt(cmd.len) \in Nat /\ Entries(cmd.len) \in Nat
      /\ received \in Nat
  BY CmdHolds, SizesHold DEF IInv, Types
<1>2. dma.at \in Nat /\ dma.pos \in Nat
      /\ (dma.at > 0 => dma.at <= Entries(cmd.len))
  BY DEF IInv, InTable
<1>3. dma.at # 0 => Desc(cmd.len, dma.at).addr \in Nat
  <2> SUFFICES ASSUME dma.at # 0 PROVE Desc(cmd.len, dma.at).addr \in Nat
    OBVIOUS
  <2>1. dma.at \in 1..Entries(cmd.len)
    BY <1>1, <1>2
  <2> QED
    BY <1>1, <2>1, DescTable
<1> QED
  BY <1>1, <1>2, <1>3 DEF DmaMoved, HostMoved

\* One step of the IDMAC: it is at the word after those it moved, and has
\* then moved one more; it is done with the last descriptor.
LEMMA DmaAdvances ==
  ASSUME IInv, dma.at > 0, UseDma, ~dma.done,
         DmaStep(Desc(cmd.len, dma.at)), UNCHANGED cmd
  PROVE  /\ DmaMoved = Desc(cmd.len, dma.at).addr + dma.pos
         /\ DmaMoved + 1 \in 1..Bytcnt(cmd.len)
         /\ DmaMoved' = DmaMoved + 1
         /\ dma'.done => dma'.at = 0
<1> DEFINE d == Desc(cmd.len, dma.at)
           e == Entries(cmd.len)
           n == Bytcnt(cmd.len)
<1>1. cmd.len \in Nat /\ n \in Nat /\ e \in Nat
  BY CmdHolds, SizesHold DEF IInv, Types
<1>2. /\ dma.at \in 1..e /\ dma.pos \in Nat /\ dma.pos < d.words
      /\ dma \in [at : Nat, pos : Nat, done : BOOLEAN]
  BY <1>1 DEF IInv, InTable
<1>3. /\ d.addr \in Nat /\ d.words \in Nat \ {0}
      /\ d.addr + d.words <= n
      /\ dma.at < e =>
           /\ Desc(cmd.len, dma.at + 1).addr = d.addr + d.words
           /\ d.dic /\ ~d.last
      /\ dma.at = e => d.addr + d.words = n /\ ~d.dic /\ d.last
  BY <1>1, <1>2, DescTable
<1>4. UseDma' /\ UNCHANGED <<cmd>>
  BY DEF UseDma
<1>5. /\ dma.pos + 1 < d.words => dma' = [dma EXCEPT !.pos = @ + 1]
      /\ ~(dma.pos + 1 < d.words) =>
           dma' = [at |-> IF d.last THEN 0 ELSE dma.at + 1, pos |-> 0,
                   done |-> dma.done \/ ~d.dic]
  BY DEF DmaStep
<1>6. DmaMoved = d.addr + dma.pos
  BY <1>2 DEF DmaMoved
<1>7. DmaMoved' = IF dma'.at = 0 THEN n
                  ELSE Desc(cmd.len, dma'.at).addr + dma'.pos
  BY <1>4 DEF DmaMoved
<1> HIDE DEF d, e, n
<1>8. DmaMoved + 1 \in 1..n
  BY <1>1, <1>2, <1>3, <1>6
<1>9. CASE dma.pos + 1 < d.words
  <2>1. dma'.at = dma.at /\ dma'.pos = dma.pos + 1 /\ (dma'.done <=> dma.done)
    BY <1>2, <1>5, <1>9
  <2>2. DmaMoved' = d.addr + (dma.pos + 1)
    BY <1>2, <1>7, <2>1 DEF d
  <2> QED
    BY <1>2, <1>3, <1>6, <1>8, <2>1, <2>2 DEF d, n
<1>10. CASE ~(dma.pos + 1 < d.words)
  <2>1. d.words = dma.pos + 1
    BY <1>2, <1>3, <1>10
  <2>2. /\ dma'.at = IF d.last THEN 0 ELSE dma.at + 1
        /\ dma'.pos = 0
        /\ dma'.done <=> (dma.done \/ ~d.dic)
    <3>1. dma'.at = (IF d.last THEN 0 ELSE dma.at + 1) /\ dma'.pos = 0
      BY <1>5, <1>10
    <3>2. dma'.done = (dma.done \/ ~d.dic)
      BY <1>5, <1>10
    <3> QED
      BY <3>1, <3>2
  <2>3. CASE dma.at = e
    BY <1>2, <1>3, <1>6, <1>7, <1>8, <2>1, <2>2, <2>3 DEF d, n
  <2>4. CASE dma.at < e
    <3>1. dma'.at = dma.at + 1 /\ dma'.at # 0 /\ ~dma'.done
      BY <1>2, <1>3, <2>2, <2>4
    <3>2. DmaMoved' = d.addr + d.words + 0
      BY <1>3, <1>7, <2>2, <2>4, <3>1
    <3> QED
      BY <1>2, <1>3, <1>6, <1>8, <2>1, <3>1, <3>2 DEF d, n
  <2> QED
    BY <1>1, <1>2, <2>3, <2>4
<1> QED
  BY <1>9, <1>10

\* Where a word of a read goes is a place of the buffer, and no other word's.
LEMMA PlaceHolds ==
  ASSUME cmd \in Commands \cup {Idle}, NEW i \in 1..cmd.len
  PROVE  /\ Place(i) \in 1..Bytcnt(cmd.len)
         /\ Place(Place(i)) = i
         /\ ~cmd.sd => Place(i) = i /\ Stored(i) = i
<1>1. cmd.len \in Nat /\ Bytcnt(cmd.len) \in Nat /\ cmd.len <= Bytcnt(cmd.len)
  BY CmdHolds
<1>2. cmd.be => cmd.sd
  BY DEF Commands, Idle
<1> QED
  BY <1>1, <1>2 DEF Place, Stored

LEMMA EndsHold ==
  ASSUME IInv, Ends, [Next]_vars
  PROVE  Ends'
<1> USE DEF hostVars, ctrlVars
<1> DEFINE n == Bytcnt(cmd.len)
<1> /\ Ends /\ cmd \in Commands \cup {Idle} /\ n \in Nat /\ sent \in Nat
    /\ fifo \in Seq(Int)
    /\ pc \in Pcs
  BY CmdHolds DEF IInv, Types
<1> HIDE DEF n
<1>0. UNCHANGED cmd => UNCHANGED <<UseDma, Total, n>>
  BY DEF UseDma, Total, n
\* Most steps leave the words and the IDMAC alone.
<1>1. ASSUME UNCHANGED <<cmd, mem, dma, media, sent>>,
             pc = "create" <=> pc' = "create",
             pc' \in {"create", "exec"} =>
               pc \in {"create", "exec"} /\ UNCHANGED rint,
             ~cmd.read /\ "DTO" \in rint' => "DTO" \in rint \/ sent = Total
      PROVE  Ends'
  BY <1>0, <1>1 DEF Ends, n
<1>2. ASSUME NEW c \in Commands, Create(c)
      PROVE  Ends'
  <2>1. /\ pc = "create" /\ pc' = "exec" /\ cmd' = c /\ cmd = Idle
        /\ dma' = [at |-> IF ~c.sd /\ ~c.tuning /\ c.len > 0 THEN 1 ELSE 0,
                   pos |-> 0, done |-> FALSE]
        /\ mem' = [i \in 1..Bytcnt(c.len) |-> IF c.read THEN 0 ELSE i]
        /\ UNCHANGED <<rint, media, sent>>
    BY <1>2 DEF Create, IInv, Early
  <2>2. rint = {} /\ sent = 0 /\ media = <<>> /\ media \in Seq(Int)
    <3>1. rint = {} /\ sent = 0 /\ media \in Seq(Int) /\ cmd.read
          /\ Len(media) = 0
      BY <2>1 DEF Ends, IInv, Early, Idle
    <3> QED
      BY <3>1
  <2>3. UseDma' <=> (~c.sd /\ ~c.tuning /\ c.len > 0)
    BY <2>1 DEF UseDma
  <2>4. dma'.at = (IF ~c.sd /\ ~c.tuning /\ c.len > 0 THEN 1 ELSE 0)
        /\ dma'.pos = 0 /\ dma'.done = FALSE
    BY <2>1
  <2>5. ~c.read => \A i \in 1..Bytcnt(c.len) : mem'[i] = i
    BY <2>1
  <2>6. media' \in Seq(Int) /\ Len(media') = 0 /\ sent' = 0 /\ rint' = {}
    BY <2>1, <2>2
  <2> QED
    BY <2>1, <2>3, <2>4, <2>5, <2>6 DEF Ends
<1>3. CASE Start
  <2>1. UNCHANGED <<cmd, mem, dma, media, sent>> /\ pc = "exec" /\ pc' = "poll"
        /\ rint' = {}
    BY <1>3 DEF Start
  <2> QED
    BY <1>1, <2>1
<1>4. CASE PollSd
  <2>1. UNCHANGED <<cmd, mem, dma, media, sent, rint>> /\ pc = "poll"
        /\ pc' \notin {"create", "exec"}
    BY <1>4 DEF PollSd, SdJudge, Return
  <2> QED
    BY <1>1, <2>1
<1>5. CASE PollEmmc
  <2>1. UNCHANGED <<cmd, mem, dma, media, sent, rint>> /\ pc = "poll"
        /\ pc' \notin {"create", "exec"}
    BY <1>5 DEF PollEmmc, Return
  <2> QED
    BY <1>1, <2>1
<1>6. CASE Sample \/ Verify \/ Result
  <2>1. UNCHANGED <<cmd, mem, dma, media, sent, rint>>
        /\ pc \notin {"create", "exec"} /\ pc' \notin {"create", "exec"}
    BY <1>6 DEF Sample, Verify, Result, Return
  <2> QED
    BY <1>1, <2>1
<1>7. CASE Put
  <2>1. UNCHANGED <<cmd, mem, dma, media, sent>> /\ rint' \subseteq rint
        /\ pc \notin {"create", "exec"} /\ pc' \notin {"create", "exec"}
    BY <1>7 DEF Put
  <2> QED
    BY <1>1, <2>1
<1>8. CASE Drain
  <2>1. UNCHANGED <<cmd, dma, media, sent, rint>> /\ cmd.read
        /\ pc \notin {"create", "exec"} /\ pc' \notin {"create", "exec"}
    BY <1>8 DEF Drain, IInv, Path
  <2> QED
    BY <1>0, <2>1 DEF Ends
<1>9. CASE Release \/ UNCHANGED vars
  <2>1. UNCHANGED <<cmd, mem, dma, media, sent, rint, pc>>
    BY <1>9 DEF Release, vars
  <2> QED
    BY <1>1, <2>1
<1>10. CASE Respond \/ Starve \/ AskForWords \/ AutoStop \/ Judge
  <2>1. UNCHANGED <<cmd, mem, dma, media, sent, pc>>
        /\ pc \notin {"create", "exec"}
        /\ ("DTO" \in rint' => "DTO" \in rint)
    BY <1>10 DEF Respond, Raise, Starve, AskForWords, AutoStop, Judge, Running
  <2> QED
    BY <1>1, <2>1
<1>11. CASE Silence \/ Over
  <2>1. UNCHANGED <<cmd, mem, dma, media, sent, pc>>
        /\ pc \notin {"create", "exec"}
        /\ (cmd.read \/ sent = Total)
    BY <1>11 DEF Silence, Over, Moved, Raise, Running
  <2> QED
    BY <1>1, <2>1
<1>12. CASE CardSends
  <2>1. /\ UNCHANGED <<cmd, dma, media, pc, mem>> /\ cmd.read
        /\ pc \notin {"create", "exec"}
    BY <1>12 DEF CardSends, Running
  <2> QED
    BY <1>0, <2>1 DEF Ends
<1>13. CASE CardTakes
  <2>1. /\ UNCHANGED <<cmd, dma, pc, mem, rint>> /\ ~cmd.read
        /\ pc \notin {"create", "exec"} /\ "DTO" \notin rint
        /\ media' = Append(media, Head(fifo)) /\ sent' = sent + 1
        /\ fifo # <<>>
    BY <1>13 DEF CardTakes, Running, MayMove
  <2>2. media' \in Seq(Int) /\ Len(media') = sent'
    <3>1. media \in Seq(Int) /\ Len(media) = sent /\ Head(fifo) \in Int
      BY <2>1, FifoHolds DEF Ends
    <3> QED
      BY <2>1, <3>1, FifoHolds
  <2>3. \A i \in 1..Bytcnt(cmd.len) : mem[i] = i
    BY <2>1 DEF Ends
  <2> QED
    BY <1>0, <2>1, <2>2, <2>3 DEF Ends, n
<1>14. CASE DmaMoves
  <2>1. /\ UNCHANGED <<cmd, pc, media, sent, rint>>
        /\ pc \notin {"create", "exec"} /\ dma.at > 0 /\ UseDma
        /\ ~dma.done /\ DmaStep(Desc(cmd.len, dma.at))
        /\ (~cmd.read => UNCHANGED mem)
    BY <1>14 DEF DmaMoves, Running, Ends, IInv, InTable
  <2>2. dma'.done => dma'.at = 0
    BY <2>1, DmaAdvances
  <2> QED
    BY <1>0, <2>1, <2>2 DEF Ends, n
<1> QED
  BY <1>2, <1>3, <1>4, <1>5, <1>6, <1>7, <1>8, <1>9, <1>10, <1>11, <1>12,
     <1>13, <1>14 DEF Next, Driver, Hardware

\* The elements of the FIFO after a step.
LEMMA Elements ==
  ASSUME NEW q \in Seq(Int)
  PROVE  /\ Len(q) \in Nat
         /\ \A w \in Int : /\ Append(q, w) \in Seq(Int)
                           /\ Len(Append(q, w)) = Len(q) + 1
                           /\ Append(q, w)[Len(q) + 1] = w
                           /\ \A i \in 1..Len(q) : Append(q, w)[i] = q[i]
         /\ q # <<>> => /\ Len(q) > 0 /\ Head(q) = q[1]
                        /\ Tail(q) \in Seq(Int) /\ Len(Tail(q)) = Len(q) - 1
                        /\ \A i \in 1..Len(q) - 1 : Tail(q)[i] = q[i + 1]
<1>1. ASSUME NEW w \in Int
      PROVE  /\ Append(q, w) \in Seq(Int)
             /\ Len(Append(q, w)) = Len(q) + 1
             /\ Append(q, w)[Len(q) + 1] = w
             /\ \A i \in 1..Len(q) : Append(q, w)[i] = q[i]
  OBVIOUS
<1>2. q # <<>> => /\ Len(q) > 0 /\ Head(q) = q[1]
                  /\ Tail(q) \in Seq(Int) /\ Len(Tail(q)) = Len(q) - 1
                  /\ \A i \in 1..Len(q) - 1 : Tail(q)[i] = q[i + 1]
  OBVIOUS
<1> QED
  BY <1>1, <1>2

LEMMA InOrderHolds ==
  ASSUME IInv, Ends, InOrder, [Next]_vars
  PROVE  InOrder'
<1> USE DEF hostVars, ctrlVars
<1> DEFINE n == Bytcnt(cmd.len)
<1>t. /\ cmd \in Commands \cup {Idle} /\ n \in Nat /\ sent \in Nat
      /\ cmd.len \in Nat /\ cmd.len <= n /\ received \in Nat
      /\ fifo \in Seq(Int) /\ Len(fifo) \in Nat /\ pc \in Pcs
      /\ HostMoved \in Nat /\ Total \in Nat /\ sent <= Total /\ Total <= n
      /\ (UseFifo => Total = cmd.len)
  BY CmdHolds, TotalHolds, DmaMovedHolds, FifoHolds DEF IInv, Types
<1> HIDE DEF n
<1>0. UNCHANGED <<cmd, dma, received>> => UNCHANGED <<UseDma, UseFifo, HostMoved>>
  BY DEF UseDma, UseFifo, HostMoved, DmaMoved
<1>s. UNCHANGED cmd => \A i : Place(i)' = Place(i) /\ Stored(i)' = Stored(i)
  BY DEF Place, Stored
\* Most steps leave the words and the IDMAC alone.
<1>1. ASSUME UNCHANGED <<cmd, mem, dma, fifo, media, sent, received, excuse>>,
             pc \in {"create", "exec"} => pc' \in {"create", "exec"}
      PROVE  InOrder'
  BY <1>0, <1>s, <1>1 DEF InOrder
<1>2. ASSUME NEW c \in Commands, Create(c)
      PROVE  InOrder'
  BY <1>2 DEF Create, InOrder
<1>3. CASE Start
  <2>1. /\ UNCHANGED <<cmd, mem, dma, media, sent, received>> /\ pc = "exec"
        /\ sent = 0 /\ received = 0 /\ (~excuse' => fifo' = <<>>)
    BY <1>3 DEF Start, IInv, Early
  <2>2. HostMoved = 0
    <3>1. UseDma => /\ dma.at = 1 /\ dma.pos = 0
                    /\ Desc(cmd.len, 1).addr = 0
      <4> SUFFICES ASSUME UseDma
                   PROVE  /\ dma.at = 1 /\ dma.pos = 0
                          /\ Desc(cmd.len, 1).addr = 0
        OBVIOUS
      <4>1. dma.at = 1 /\ dma.pos = 0 /\ cmd.len > 0
        BY <2>1 DEF Ends, UseDma
      <4>2. 1 \in 1..Entries(cmd.len)
        <5>1. Entries(cmd.len) \in Nat /\ Entries(cmd.len) > 0
          BY <1>t, <4>1, SizesHold
        <5> QED
          BY <5>1
      <4> QED
        BY <1>t, <4>1, <4>2, DescTable
    <3> QED
      BY <2>1, <3>1 DEF HostMoved, DmaMoved
  <2>3. HostMoved' = 0 /\ sent' = 0 /\ (~excuse' => Len(fifo') = 0)
    BY <1>0, <2>1, <2>2
  <2> QED
    BY <2>3 DEF InOrder
<1>4. CASE PollSd
  <2>1. UNCHANGED <<cmd, mem, dma, fifo, media, sent, received, excuse>>
        /\ pc = "poll"
    BY <1>4 DEF PollSd
  <2> QED
    BY <1>1, <2>1
<1>5. CASE PollEmmc
  <2>1. UNCHANGED <<cmd, mem, dma, fifo, media, sent, received, excuse>>
        /\ pc = "poll"
    BY <1>5 DEF PollEmmc
  <2> QED
    BY <1>1, <2>1
<1>6. CASE Sample \/ Verify \/ Result
  <2>1. UNCHANGED <<cmd, mem, dma, fifo, media, sent, received, excuse>>
        /\ pc \notin {"create", "exec"}
    BY <1>6 DEF Sample, Verify, Result
  <2> QED
    BY <1>1, <2>1
<1>7. CASE Put
  <2>1. /\ UNCHANGED <<cmd, mem, dma, media, sent, excuse>>
        /\ pc = "put" /\ ~cmd.read /\ UseFifo /\ UseFifo'
    BY <1>7 DEF Put, IInv, Path, UseFifo
  <2>2. CASE UNCHANGED <<received, fifo>>
    BY <1>1, <2>1, <2>2
  <2>3. CASE CanPut /\ received' = received + 1
             /\ fifo' = Append(fifo, mem[received'])
    <3> SUFFICES ASSUME ~excuse, ~cmd.tuning
                 PROVE  /\ sent' + Len(fifo') = HostMoved'
                        /\ \A i \in 1..Len(fifo') : fifo'[i] = sent' + i
                        /\ \A i \in 1..sent' : media'[i] = i
      BY <2>1 DEF InOrder
    <3>1. /\ sent + Len(fifo) = received
          /\ \A i \in 1..Len(fifo) : fifo[i] = sent + i
          /\ \A i \in 1..sent : media[i] = i
      BY <2>1 DEF InOrder, HostMoved
    <3>2. received + 1 \in 1..n
      BY <1>t, <2>3 DEF CanPut
    <3>3. mem[received + 1] = received + 1
      BY <2>1, <3>2 DEF Ends, n
    <3>4. fifo' = Append(fifo, received + 1)
      BY <2>3, <3>3
    <3>5. HostMoved' = received + 1
      BY <2>1, <2>3 DEF HostMoved
    <3>6. /\ Len(fifo') = Len(fifo) + 1
          /\ fifo'[Len(fifo) + 1] = received + 1
          /\ \A i \in 1..Len(fifo) : fifo'[i] = fifo[i]
      BY <1>t, <3>2, <3>4, Elements
    <3>7. \A i \in 1..Len(fifo') : fifo'[i] = sent + i
      <4> TAKE i \in 1..Len(fifo')
      <4>1. CASE i \in 1..Len(fifo)
        BY <3>1, <3>6, <4>1
      <4>2. CASE i = Len(fifo) + 1
        BY <1>t, <3>1, <3>6, <4>2
      <4> QED
        BY <1>t, <3>6, <4>1, <4>2
    <3> QED
      BY <1>t, <2>1, <3>1, <3>5, <3>6, <3>7
  <2> QED
    BY <1>7, <2>2, <2>3 DEF Put
<1>8. CASE Drain
  <2>1. /\ UNCHANGED <<cmd, dma, media, sent, excuse>>
        /\ pc = "count" /\ cmd.read /\ UseFifo /\ UseFifo'
    BY <1>8 DEF Drain, IInv, Path, UseFifo
  <2>2. CASE UNCHANGED <<received, fifo, mem>>
    BY <1>1, <2>1, <2>2
  <2>3. CASE Len(fifo) > 0
    <3> SUFFICES ASSUME ~excuse, ~cmd.tuning
                 PROVE  /\ HostMoved' + Len(fifo') = sent'
                        /\ \A i \in 1..Len(fifo') : fifo'[i] = HostMoved' + i
                        /\ \A i \in 1..HostMoved' : mem'[Place(i)'] = Stored(i)'
      BY <2>1 DEF InOrder
    <3>1. /\ received + Len(fifo) = sent
          /\ \A i \in 1..Len(fifo) : fifo[i] = received + i
          /\ \A i \in 1..received : mem[Place(i)] = Stored(i)
      BY <2>1 DEF InOrder, HostMoved
    <3>2. Least(Len(fifo), cmd.len) = Len(fifo)
      BY <1>t, <2>1, <3>1 DEF Least
    <3>3. /\ received' = received + Len(fifo)
          /\ mem' = [i \in DOMAIN mem |->
                       IF Place(i) - received \in 1..Len(fifo)
                         THEN Stored(fifo[Place(i) - received]) ELSE mem[i]]
          /\ fifo' = SubSeq(fifo, Len(fifo) + 1, Len(fifo))
      BY <1>8, <2>3, <3>2 DEF Drain
    <3>4. Len(fifo') = 0
      BY <1>t, <2>3, <3>3, FifoHolds
    <3>5. HostMoved' = received + Len(fifo) /\ sent <= cmd.len
      BY <1>t, <2>1, <3>3 DEF HostMoved
    <3>6. ASSUME NEW i \in 1..received + Len(fifo)
          PROVE  mem'[Place(i)] = Stored(i)
      <4>1. i \in 1..cmd.len
        BY <1>t, <3>1, <3>5
      <4>2. Place(i) \in DOMAIN mem /\ Place(Place(i)) = i
        <5>1. mem \in [1..n -> Int]
          BY <2>1 DEF IInv, Types, n
        <5> QED
          BY <1>t, <4>1, <5>1, PlaceHolds DEF n
      <4>3. mem'[Place(i)] = IF i - received \in 1..Len(fifo)
                               THEN Stored(fifo[i - received]) ELSE mem[Place(i)]
        BY <3>3, <4>2
      <4>4. CASE i \in 1..received
        BY <1>t, <3>1, <4>3, <4>4
      <4>5. CASE i - received \in 1..Len(fifo)
        <5>1. fifo[i - received] = received + (i - received)
          BY <3>1, <4>5
        <5>2. received + (i - received) = i
          BY <1>t, <4>1
        <5> QED
          BY <4>3, <4>5, <5>1, <5>2
      <4> QED
        BY <1>t, <4>4, <4>5
    <3> QED
      BY <1>t, <1>s, <2>1, <3>1, <3>4, <3>5, <3>6
  <2> QED
    BY <1>8, <1>t, <2>2, <2>3 DEF Drain
<1>9. CASE Release \/ UNCHANGED vars
  <2>1. UNCHANGED <<pc, cmd, mem, dma, fifo, media, sent, received, excuse>>
    BY <1>9 DEF Release, vars
  <2> QED
    BY <1>1, <2>1
<1>10. CASE Respond \/ Starve \/ AskForWords \/ AutoStop \/ Silence \/ Over \/
   Judge
  <2>1. UNCHANGED <<pc, cmd, mem, dma, fifo, media, sent, received, excuse>>
    BY <1>10 DEF Respond, Raise, Starve, AskForWords, AutoStop, Silence, Over,
       Judge
  <2> QED
    BY <1>1, <2>1
<1>11. CASE CardSends
  <2>1. /\ UNCHANGED <<cmd, mem, dma, media, received, excuse, pc>> /\ cmd.read
        /\ fifo' = Append(fifo, sent + 1) /\ sent' = sent + 1
        /\ pc \notin {"create", "exec"}
    BY <1>11 DEF CardSends, Running
  <2> SUFFICES ASSUME ~excuse, ~cmd.tuning
               PROVE  /\ HostMoved' + Len(fifo') = sent'
                      /\ \A i \in 1..Len(fifo') : fifo'[i] = HostMoved' + i
                      /\ \A i \in 1..HostMoved' : mem'[Place(i)'] = Stored(i)'
    BY <2>1 DEF InOrder
  <2>2. /\ HostMoved + Len(fifo) = sent
        /\ \A i \in 1..Len(fifo) : fifo[i] = HostMoved + i
        /\ \A i \in 1..HostMoved : mem[Place(i)] = Stored(i)
    BY <2>1 DEF InOrder
  <2>3. /\ Len(fifo') = Len(fifo) + 1
        /\ fifo'[Len(fifo) + 1] = sent + 1
        /\ \A i \in 1..Len(fifo) : fifo'[i] = fifo[i]
    BY <1>t, <2>1, Elements
  <2>4. \A i \in 1..Len(fifo') : fifo'[i] = HostMoved + i
    <3> TAKE i \in 1..Len(fifo')
    <3>1. CASE i \in 1..Len(fifo)
      BY <2>2, <2>3, <3>1
    <3>2. CASE i = Len(fifo) + 1
      BY <1>t, <2>2, <2>3, <3>2
    <3> QED
      BY <1>t, <2>3, <3>1, <3>2
  <2> QED
    <3>1. HostMoved' = HostMoved
      BY <1>0, <2>1
    <3>2. HostMoved + Len(fifo') = sent + 1
      BY <1>t, <2>2, <2>3
    <3>3. \A i \in 1..HostMoved : mem'[Place(i)'] = Stored(i)'
      BY <1>s, <2>1, <2>2
    <3> QED
      BY <2>1, <2>4, <3>1, <3>2, <3>3
<1>12. CASE CardTakes
  <2>1. /\ UNCHANGED <<cmd, mem, dma, received, excuse, pc>> /\ ~cmd.read
        /\ fifo' = Tail(fifo) /\ sent' = sent + 1 /\ fifo # <<>>
        /\ media' = Append(media, Head(fifo))
        /\ pc \notin {"create", "exec"}
    BY <1>12 DEF CardTakes, Running
  <2> SUFFICES ASSUME ~excuse, ~cmd.tuning
               PROVE  /\ sent' + Len(fifo') = HostMoved'
                      /\ \A i \in 1..Len(fifo') : fifo'[i] = sent' + i
                      /\ \A i \in 1..sent' : media'[i] = i
    BY <2>1 DEF InOrder
  <2>2. /\ sent + Len(fifo) = HostMoved
        /\ \A i \in 1..Len(fifo) : fifo[i] = sent + i
        /\ \A i \in 1..sent : media[i] = i
        /\ media \in Seq(Int) /\ Len(media) = sent
    BY <2>1 DEF InOrder, Ends
  <2>3. /\ Len(fifo) > 0 /\ Head(fifo) = fifo[1] /\ Len(fifo') = Len(fifo) - 1
        /\ \A i \in 1..Len(fifo) - 1 : fifo'[i] = fifo[i + 1]
    BY <1>t, <2>1, Elements
  <2>4. Head(fifo) = sent + 1
    BY <1>t, <2>2, <2>3
  <2>5. /\ media'[sent + 1] = sent + 1
        /\ \A i \in 1..sent : media'[i] = media[i]
    BY <1>t, <2>1, <2>2, <2>4, Elements
  <2>6. \A i \in 1..sent + 1 : media'[i] = i
    <3> TAKE i \in 1..sent + 1
    <3>1. CASE i \in 1..sent
      BY <2>2, <2>5, <3>1
    <3>2. CASE i = sent + 1
      BY <2>5, <3>2
    <3> QED
      BY <1>t, <3>1, <3>2
  <2>7. \A i \in 1..Len(fifo') : fifo'[i] = sent + 1 + i
    <3> TAKE i \in 1..Len(fifo')
    <3>1. i \in 1..Len(fifo) - 1 /\ i + 1 \in 1..Len(fifo)
      BY <1>t, <2>3
    <3>2. fifo'[i] = sent + (i + 1)
      BY <2>2, <2>3, <3>1
    <3> QED
      BY <1>t, <3>1, <3>2
  <2> QED
    <3>1. HostMoved' = HostMoved
      BY <1>0, <2>1
    <3>2. sent + 1 + Len(fifo') = HostMoved
      <4>1. /\ sent \in Nat /\ Len(fifo) \in Nat
            /\ sent + Len(fifo) = HostMoved /\ Len(fifo') = Len(fifo) - 1
        BY <1>t, <2>2, <2>3, Zenon
      <4> QED
        BY <4>1
    <3> QED
      BY <2>1, <2>6, <2>7, <3>1, <3>2
<1>13. CASE DmaMoves
  <2> DEFINE k == DmaMoved + 1
  <2>1. /\ UNCHANGED <<cmd, pc, media, sent, received, excuse>>
        /\ dma.at > 0 /\ UseDma /\ ~dma.done
        /\ DmaStep(Desc(cmd.len, dma.at)) /\ ~UseFifo /\ ~UseFifo' /\ ~cmd.sd
        /\ pc \notin {"create", "exec"}
    BY <1>13 DEF DmaMoves, Running, Ends, UseFifo, UseDma
  <2>2. /\ Desc(cmd.len, dma.at).addr + dma.pos + 1 = k
        /\ k \in 1..n /\ DmaMoved' = k
    BY <2>1, DmaAdvances DEF n
  <2>3. HostMoved = DmaMoved /\ HostMoved' = k /\ DmaMoved \in Nat
    BY <2>1, <2>2, DmaMovedHolds DEF HostMoved
  <2>4. \/ /\ cmd.read /\ fifo # <<>>
           /\ mem' = [mem EXCEPT ![k] = Head(fifo)] /\ fifo' = Tail(fifo)
        \/ ~cmd.read /\ fifo' = Append(fifo, mem[k]) /\ UNCHANGED mem
    BY <1>13, <2>2 DEF DmaMoves
  <2> HIDE DEF k
  <2>5. CASE cmd.read /\ fifo # <<>>
             /\ mem' = [mem EXCEPT ![k] = Head(fifo)] /\ fifo' = Tail(fifo)
    <3> SUFFICES ASSUME ~excuse, ~cmd.tuning
                 PROVE  /\ k + Len(fifo') = sent
                        /\ \A i \in 1..Len(fifo') : fifo'[i] = k + i
                        /\ \A i \in 1..k : mem'[Place(i)'] = Stored(i)'
      BY <2>1, <2>3, <2>5 DEF InOrder
    <3>1. /\ DmaMoved + Len(fifo) = sent
          /\ \A i \in 1..Len(fifo) : fifo[i] = DmaMoved + i
          /\ \A i \in 1..DmaMoved : mem[Place(i)] = Stored(i)
      BY <2>1, <2>3, <2>5 DEF InOrder
    <3>2. /\ Len(fifo) > 0 /\ Head(fifo) = fifo[1] /\ Len(fifo') = Len(fifo) - 1
          /\ \A i \in 1..Len(fifo) - 1 : fifo'[i] = fifo[i + 1]
      BY <1>t, <2>5, Elements
    <3>3. Head(fifo) = k
      BY <1>t, <3>1, <3>2 DEF k
    <3>4. \A i : Place(i) = i /\ Stored(i) = i
      <4>1. ~cmd.be
        BY <1>t, <2>1 DEF Commands, Idle
      <4> QED
        BY <4>1 DEF Place, Stored
    <3>5. mem \in [1..n -> Int]
      BY <2>1 DEF IInv, Types, n
    <3>6. \A i \in 1..k : mem'[i] = i
      <4> TAKE i \in 1..k
      <4>1. i \in 1..n
        BY <1>t, <2>2
      <4>2. CASE i = k
        BY <2>5, <3>3, <3>5, <4>1, <4>2
      <4>3. CASE i \in 1..DmaMoved
        <5>1. mem[i] = i
          BY <3>1, <3>4, <4>3
        <5>2. i # k
          BY <2>3, <4>3 DEF k
        <5> QED
          BY <2>5, <3>5, <4>1, <5>1, <5>2
      <4> QED
        BY <2>3, <4>2, <4>3 DEF k
    <3>7. \A i \in 1..Len(fifo') : fifo'[i] = k + i
      <4> TAKE i \in 1..Len(fifo')
      <4>1. i \in 1..Len(fifo) - 1 /\ i + 1 \in 1..Len(fifo)
        BY <1>t, <3>2
      <4>2. fifo'[i] = DmaMoved + (i + 1)
        BY <3>1, <3>2, <4>1
      <4> QED
        BY <2>3, <4>1, <4>2 DEF k
    <3>8. k + Len(fifo') = sent
      <4>1. Len(fifo) \in Nat
        BY <1>t
      <4> QED
        BY <2>3, <3>1, <3>2, <4>1 DEF k
    <3> QED
      BY <1>s, <2>1, <3>4, <3>6, <3>7, <3>8
  <2>6. CASE ~cmd.read /\ fifo' = Append(fifo, mem[k]) /\ UNCHANGED mem
    <3> SUFFICES ASSUME ~excuse, ~cmd.tuning
                 PROVE  /\ sent + Len(fifo') = k
                        /\ \A i \in 1..Len(fifo') : fifo'[i] = sent + i
                        /\ \A i \in 1..sent : media[i] = i
      BY <2>1, <2>3, <2>6 DEF InOrder
    <3>1. /\ sent + Len(fifo) = DmaMoved
          /\ \A i \in 1..Len(fifo) : fifo[i] = sent + i
          /\ \A i \in 1..sent : media[i] = i
      BY <2>1, <2>3, <2>6 DEF InOrder
    <3>2. mem[k] = k /\ k \in Int
      BY <2>1, <2>2, <2>6 DEF Ends, n
    <3>3. /\ Len(fifo') = Len(fifo) + 1
          /\ fifo'[Len(fifo) + 1] = k
          /\ \A i \in 1..Len(fifo) : fifo'[i] = fifo[i]
      BY <1>t, <2>6, <3>2, Elements
    <3>4. \A i \in 1..Len(fifo') : fifo'[i] = sent + i
      <4> TAKE i \in 1..Len(fifo')
      <4>1. CASE i \in 1..Len(fifo)
        BY <3>1, <3>3, <4>1
      <4>2. CASE i = Len(fifo) + 1
        BY <1>t, <3>1, <3>3, <4>2 DEF k
      <4> QED
        BY <1>t, <3>3, <4>1, <4>2
    <3> QED
      BY <1>t, <3>1, <3>3, <3>4 DEF k
  <2> QED
    BY <2>4, <2>5, <2>6
<1> QED
  BY <1>2, <1>3, <1>4, <1>5, <1>6, <1>7, <1>8, <1>9, <1>10, <1>11, <1>12,
     <1>13 DEF Next, Driver, Hardware

\* Success is only said in DwMmcWaitTrbResult, and what the words are then
\* nothing changes any more.
LEMMA MovedHolds ==
  ASSUME WInv, [Next]_vars
  PROVE  MovedInOrder'
<1> USE DEF hostVars, ctrlVars
<1>t. /\ cmd \in Commands \cup {Idle} /\ cmd.len \in Nat
      /\ cmd.len <= Bytcnt(cmd.len) /\ received \in Nat /\ sent \in Nat
      /\ Bytcnt(cmd.len) \in Nat /\ HostMoved \in Nat
      /\ (UseFifo => Total = cmd.len)
      /\ Early /\ InOrder /\ Ends /\ MovedInOrder
  BY CmdHolds, TotalHolds, DmaMovedHolds DEF WInv, IInv, Types
<1>1. CASE UNCHANGED <<status, cmd, excuse, mem, media>>
  BY <1>t, <1>1 DEF MovedInOrder, Place, Stored, UseFifo
<1>2. ASSUME pc # "done", status' # "SUCCESS"
      PROVE  MovedInOrder'
  BY <1>2 DEF MovedInOrder
<1>3. CASE Result
  <2>1. /\ UNCHANGED <<cmd, excuse, mem, media>> /\ pc = "result"
        /\ (status' = "SUCCESS" => Complete)
    BY <1>3, <1>t DEF Result, Return, Early
  <2> SUFFICES ASSUME Complete, ~cmd.tuning, ~excuse
               PROVE  MovedInOrder'
    BY <2>1 DEF MovedInOrder
  <2>2. UseFifo => received >= cmd.len
    BY <2>1 DEF WInv, IInv, Unseen
  <2>3. HostMoved >= cmd.len
    <3>1. CASE UseFifo
      BY <2>2, <3>1 DEF HostMoved
    <3>2. CASE ~UseFifo /\ cmd.len > 0
      <4>1. dma.done /\ UseDma
        BY <3>2 DEF Complete, UseFifo, UseDma
      <4>2. dma.at = 0
        BY <1>t, <4>1 DEF Ends
      <4> QED
        BY <1>t, <3>2, <4>1, <4>2 DEF HostMoved, DmaMoved
    <3>3. CASE cmd.len = 0
      BY <1>t, <3>3
    <3> QED
      BY <1>t, <3>1, <3>2, <3>3
  <2>4. CASE cmd.read
    <3>1. \A i \in 1..HostMoved : mem[Place(i)] = Stored(i)
      BY <1>t, <2>1, <2>4 DEF InOrder
    <3>2. \A i \in 1..cmd.len : mem[Place(i)] = Stored(i)
      BY <1>t, <2>3, <3>1
    <3> QED
      BY <2>1, <2>4, <3>2 DEF MovedInOrder, Place, Stored
  <2>5. CASE ~cmd.read
    <3>1. (\A i \in 1..sent : media[i] = i) /\ media \in Seq(Int)
          /\ Len(media) = sent
      BY <1>t, <2>1, <2>5 DEF InOrder, Ends
    <3>2. cmd.len # 0
      BY <1>t, <2>5 DEF Commands, Idle
    <3>3. UseFifo => sent = cmd.len
      BY <1>t, <2>5, <3>2 DEF Complete, Ends
    <3>4. DOMAIN media = 1..sent
      BY <3>1
    <3> QED
      BY <2>1, <2>5, <3>1, <3>3, <3>4 DEF MovedInOrder, UseFifo
  <2> QED
    BY <2>4, <2>5
<1>4. ASSUME NEW c \in Commands, Create(c)
      PROVE  MovedInOrder'
  BY <1>2, <1>4, <1>t DEF Create, Early
<1>5. CASE Start
  BY <1>2, <1>5, <1>t DEF Start, Early
<1>6. CASE PollSd
  BY <1>2, <1>6, <1>t DEF PollSd, SdJudge, Return, Early
<1>7. CASE PollEmmc
  BY <1>2, <1>7, <1>t DEF PollEmmc, Return, Early
<1>8. CASE Sample \/ Put \/ Drain
  BY <1>2, <1>8, <1>t DEF Sample, Put, Drain, Early
<1>9. CASE Verify
  BY <1>2, <1>9, <1>t DEF Verify, Return, Early
<1>10. CASE Release \/ UNCHANGED vars
  BY <1>1, <1>10 DEF Release, vars
<1>11. CASE Respond \/ Starve \/ AskForWords \/ AutoStop \/ Silence \/ Over \/
   Judge
  BY <1>1, <1>11 DEF Respond, Raise, Starve, AskForWords, AutoStop, Silence,
     Over, Judge
<1>12. CASE CardSends \/ CardTakes \/ DmaMoves
  BY <1>2, <1>12, <1>t DEF CardSends, CardTakes, DmaMoves, Running, Early
<1> QED
  BY <1>3, <1>4, <1>5, <1>6, <1>7, <1>8, <1>9, <1>10, <1>11, <1>12 DEF Next,
     Driver, Hardware

\* A command that succeeded moved every word to its place, for every length,
\* FIFO depth and mark: TransferFifo (DwMmcHci.c:865-984) in order and, for
\* SEND_SCR, from the buffer's end; the IDMAC by BuildDmaDescTable's chain
\* (DwMmcHci.c:689-861), which is done only past its last descriptor.
THEOREM WordsInPlace == Spec => []MovedInOrder
<1>1. Init => WInv
  <2> SUFFICES ASSUME Init PROVE WInv
    OBVIOUS
  <2>1. IInv
    BY InitHolds
  <2>2. Ends
    <3>1. media = <<>> /\ <<>> \in Seq(Int) /\ Len(<<>>) = 0
      BY DEF Init
    <3>2. /\ pc = "create" /\ cmd = Idle /\ rint = {} /\ sent = 0
          /\ dma = [at |-> 0, pos |-> 0, done |-> FALSE]
      BY DEF Init
    <3>3. ~UseDma /\ cmd.read /\ dma.at = 0
      BY <3>2 DEF UseDma, Idle
    <3> QED
      BY <3>1, <3>2, <3>3 DEF Ends
  <2>3. InOrder /\ MovedInOrder
    BY DEF Init, InOrder, MovedInOrder
  <2> QED
    BY <2>1, <2>2, <2>3 DEF WInv
<1>2. WInv /\ [Next]_vars => WInv'
  <2> SUFFICES ASSUME WInv, [Next]_vars PROVE WInv'
    OBVIOUS
  <2>1. IInv'
    BY TypesHold, InTableHolds, EarlyHolds, PathHolds, ConservedHolds,
       UnseenHolds DEF WInv, IInv
  <2> QED
    BY <2>1, EndsHold, InOrderHolds, MovedHolds DEF WInv
<1>3. WInv => MovedInOrder
  BY DEF WInv
<1> QED
  BY <1>1, <1>2, <1>3, PTL DEF Spec
=============================================================================
