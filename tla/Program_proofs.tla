--------------------------- MODULE Program_proofs ---------------------------
(***************************************************************************)
(* The two programs, for every pair of command lines: the safety that      *)
(* AppTransfer has for packets of a given size holds while the options are *)
(* still being read, and Program implements AppTransfer with the sizes     *)
(* that the command lines ask for.                                         *)
(***************************************************************************)
EXTENDS ProgramInv, AppTransfer_proofs, WellFoundedInduction

-----------------------------------------------------------------------------
(* Sets of numbers *)

Below == {pair \in Nat \X Nat : pair[1] < pair[2]}

\* A set of natural numbers that is not empty has a least element.
LEMMA LeastNumber ==
    ASSUME NEW S, S \subseteq Nat, S # {}
    PROVE  \E n \in S : \A k \in S : n <= k
<1>1. IsWellFoundedOn(Below, Nat)
    <2>1. OpToRel(<, Nat) = Below
        BY DEF OpToRel, Below
    <2> QED BY <2>1, NatLessThanWellFounded
<1>2. PICK n \in S : \A k \in S : ~(<<k, n>> \in Below)
    BY <1>1, WFMin
<1>3. n \in Nat /\ \A k \in S : k \in Nat /\ ~(k < n)
    BY <1>2 DEF Below
<1> QED BY <1>3

\* One that is bounded has a greatest.
LEMMA GreatestNumber ==
    ASSUME NEW n \in Nat, NEW S, S \subseteq 0..n, S # {}
    PROVE  \E i \in S : \A j \in S : j <= i
<1> DEFINE gaps == {d \in Nat : n - d \in S}
<1>1. \A i \in S : n - i \in gaps
    <2>1. \A i \in 0..n : n - i \in Nat /\ n - (n - i) = i
        OBVIOUS
    <2> QED BY <2>1
<1>2. PICK d \in gaps : \A k \in gaps : d <= k
    <2>1. gaps \subseteq Nat /\ gaps # {}
        BY <1>1
    <2> HIDE DEF gaps
    <2> QED BY <2>1, LeastNumber
<1>3. n - d \in S /\ d \in Nat
    BY <1>2
<1>4. ASSUME NEW j \in S PROVE j <= n - d
    <2>1. d <= n - j
        BY <1>1, <1>2
    <2> QED BY <1>3, <2>1
<1> QED BY <1>3, <1>4

-----------------------------------------------------------------------------
(* Options *)

\* The two ends of a line and what they are given.
LEMMA OptionTyped ==
    ASSUME ArgTypes, NEW e \in Ends
    PROVE  /\ given[e].options \in Seq(Options) /\ Len(given[e].options) \in Nat
           /\ read[e] \in Nat /\ read[e] <= Len(given[e].options)
           /\ \A i \in 1..Len(given[e].options) :
                 /\ given[e].options[i] \in Options
                 /\ given[e].options[i].name = "s" => given[e].options[i].value \in PacketSizes
<1>1. given[e] \in Commands[e] /\ read[e] \in Nat /\ read[e] <= Len(given[e].options)
    BY DEF ArgTypes
<1>2. /\ given[e].options \in Seq(Options)
      /\ \A i \in DOMAIN given[e].options :
            given[e].options[i].name = "s" => given[e].options[i].value \in PacketSizes
    BY <1>1, ProgramAssumption
<1> QED BY <1>1, <1>2

\* There is a next higher speed for every rate.
LEMMA BaudRateTyped ==
    ASSUME NEW rate \in Nat
    PROVE  BaudRate(rate) \in Speeds
<1>1. CASE rate > 115200
    BY <1>1 DEF BaudRate, Speeds
<1>2. CASE rate <= 115200
    <2> DEFINE above == {s \in Speeds : s >= rate}
    <2>1. above \subseteq Nat /\ above # {}
        BY <1>2 DEF Speeds
    <2>2. PICK s \in above : \A q \in above : s <= q
        <3> HIDE DEF above
        <3> QED BY <2>1, LeastNumber
    <2>3. \E r \in Speeds : r >= rate /\ \A q \in Speeds : q >= rate => r <= q
        BY <2>2
    <2>4. BaudRate(rate) = CHOOSE r \in Speeds :
                              r >= rate /\ \A q \in Speeds : q >= rate => r <= q
        BY <1>2 DEF BaudRate
    <2> HIDE DEF above
    <2> QED BY <2>3, <2>4
<1> QED BY <1>1, <1>2

\* What an option leaves in ll_config is numbers.
LEMMA StoredTyped ==
    ASSUME NEW c \in Settings, NEW o \in Options, NEW d \in Stored(c, o)
    PROVE  d \in Settings
<1>1. c.t \in Nat /\ o.value \in Nat /\ DOMAIN c = {"b", "r", "t"}
    BY DEF Settings, Options
<1>2. CASE o.name \in {"b", "r", "t"} /\ o.scanned = "yes"
    BY <1>1, <1>2 DEF Stored, Settings
<1>3. CASE ~(o.name \in {"b", "r", "t"} /\ o.scanned = "yes")
    BY <1>1, <1>3 DEF Stored, Settings
<1> QED BY <1>2, <1>3

-----------------------------------------------------------------------------
(* The command lines *)

LEMMA ArgsInit == ProgramInit => ArgsInv
<1> SUFFICES ASSUME ProgramInit PROVE ArgsInv
    OBVIOUS
<1>1. Defaults \in Settings
    BY DEF Defaults, Settings
<1>2. ArgTypes
    <2>1. \A e \in Ends : given[e].options \in Seq(Options)
        BY ProgramAssumption DEF ProgramInit
    <2>2. \A e \in Ends : 0 <= Len(given[e].options)
        BY <2>1
    <2> QED BY <1>1, <2>2 DEF ProgramInit, ArgTypes
<1>3. SizeInv
    <2>1. \A e \in Ends : SizesRead(e) = {} /\ PacketSize(e) = AppMaxSize
        <3>1. ASSUME NEW e \in Ends PROVE SizesRead(e) = {}
            <4>1. read[e] = 0 /\ given[e].options \in Seq(Options)
                BY ProgramAssumption DEF ProgramInit
            <4> QED BY <4>1 DEF SizesRead, Named
        <3> QED BY <3>1 DEF ProgramInit, PacketSize, Ends
    <2>2. AppMaxSize <= AppMaxSize
        BY ProgramAssumption, AppAssumption
    <2> QED BY <2>1, <2>2 DEF SizeInv
<1>4. RunInv
    BY DEF ProgramInit, RunInv
<1> QED BY <1>2, <1>3, <1>4 DEF ArgsInv

\* What an option leaves as the size of packets.
Sized(o, old) == IF o.name = "s" /\ o.scanned = "yes" THEN o.value ELSE old

\* An iteration of the loop of app_parse_args, at the end e and the other one.
LEMMA ParseEffect ==
    ASSUME ArgTypes, NEW e \in Ends, ParseOption(e)
    PROVE  LET n == read[e] + 1
               o == given[e].options[n]
           IN /\ n \in 1..Len(given[e].options) /\ o \in Options
              /\ (o.name = "s" => o.value \in PacketSizes)
              /\ phase[e] = "parse" /\ phase' = phase /\ given' = given
              /\ trouble' = trouble /\ missed' = missed
              /\ read' = [read EXCEPT ![e] = n]
              /\ res' = [res EXCEPT ![e] = Verdict(@, o)]
              /\ PacketSize(e)' = Sized(o, PacketSize(e))
              /\ \A d \in Ends \ {e} : PacketSize(d)' = PacketSize(d)
              /\ \E c \in Settings : conf' = [conf EXCEPT ![e] = c]
<1> DEFINE n == read[e] + 1
           o == given[e].options[n]
<1>1. /\ phase[e] = "parse" /\ phase' = phase /\ given' = given
      /\ trouble' = trouble /\ missed' = missed
      /\ read[e] < Len(given[e].options)
      /\ read' = [read EXCEPT ![e] = n]
      /\ res' = [res EXCEPT ![e] = Verdict(@, o)]
      /\ SetPacketSize(e, Sized(o, PacketSize(e)))
      /\ \E c \in Stored(conf[e], o) : conf' = [conf EXCEPT ![e] = c]
    <2>1. read' = [read EXCEPT ![e] = @ + 1]
        BY DEF ParseOption
    <2>2. read' = [read EXCEPT ![e] = n]
        BY <2>1
    <2> QED BY <2>2 DEF ParseOption, Sized
<1>2. n \in 1..Len(given[e].options)
    BY <1>1, OptionTyped
<1>3. o \in Options /\ (o.name = "s" => o.value \in PacketSizes)
    BY <1>2, OptionTyped
<1>4. \E c \in Settings : conf' = [conf EXCEPT ![e] = c]
    <2>1. conf[e] \in Settings
        BY DEF ArgTypes
    <2> HIDE DEF o
    <2> QED BY <1>1, <1>3, <2>1, StoredTyped
<1>5. /\ PacketSize(e)' = Sized(o, PacketSize(e))
      /\ \A d \in Ends \ {e} : PacketSize(d)' = PacketSize(d)
    <2> HIDE DEF o
    <2> QED BY <1>1 DEF SetPacketSize, PacketSize, Ends
<1> QED BY <1>1, <1>2, <1>3, <1>4, <1>5

LEMMA ParseTypes ==
    ASSUME ArgTypes, NEW e \in Ends, ParseOption(e)
    PROVE  ArgTypes'
<1>1. PICK c \in Settings : conf' = [conf EXCEPT ![e] = c]
    BY ParseEffect
<1>2. /\ read[e] + 1 \in 1..Len(given[e].options)
      /\ read' = [read EXCEPT ![e] = read[e] + 1]
      /\ phase' = phase /\ given' = given /\ trouble' = trouble /\ missed' = missed
    BY ParseEffect
<1>3. read' \in [Ends -> Nat] /\ \A d \in Ends : read'[d] <= Len(given'[d].options)
    <2>1. read'[e] = read[e] + 1 /\ \A d \in Ends \ {e} : read'[d] = read[d]
        BY <1>2 DEF ArgTypes
    <2>2. read[e] + 1 \in Nat /\ read[e] + 1 <= Len(given[e].options)
        BY <1>2, OptionTyped
    <2> QED BY <1>2, <2>1, <2>2 DEF ArgTypes
<1>4. res' \in [Ends -> {"good", "bad"}]
    <2>1. PICK o : res' = [res EXCEPT ![e] = Verdict(@, o)]
        BY ParseEffect
    <2>2. Verdict(res[e], o) \in {"good", "bad"}
        BY DEF ArgTypes, Verdict
    <2> QED BY <2>1, <2>2 DEF ArgTypes
<1>5. conf' \in [Ends -> Settings]
    BY <1>1 DEF ArgTypes
<1> QED BY <1>2, <1>3, <1>4, <1>5 DEF ArgTypes

\* The last -s is now the one that has just been read, or the one before.
LEMMA ParseSize ==
    ASSUME ArgTypes, SizeInv, NEW e \in Ends, ParseOption(e)
    PROVE  SizeInv'
<1> DEFINE n == read[e] + 1
           o == given[e].options[n]
<1>1. /\ n \in 1..Len(given[e].options) /\ o \in Options /\ given' = given
      /\ (o.name = "s" => o.value \in PacketSizes)
      /\ read' = [read EXCEPT ![e] = n]
      /\ res' = [res EXCEPT ![e] = Verdict(@, o)]
      /\ PacketSize(e)' = Sized(o, PacketSize(e))
      /\ \A d \in Ends \ {e} : PacketSize(d)' = PacketSize(d)
    BY ParseEffect
<1>2. /\ read'[e] = n /\ res'[e] = Verdict(res[e], o) /\ read[e] \in Nat /\ n \in Nat
      /\ \A d \in Ends \ {e} : read'[d] = read[d] /\ res'[d] = res[d]
    BY <1>1 DEF ArgTypes
<1>3. \A d \in Ends : Named(d, "s")' = Named(d, "s")
    BY <1>1 DEF Named
<1>4. ASSUME NEW d \in Ends \ {e}, res'[d] = "good"
      PROVE  /\ PacketSize(d)' <= AppMaxSize
             /\ SizesRead(d)' = {} => PacketSize(d)' = AppMaxSize
             /\ SizesRead(d)' # {} =>
                   \E i \in SizesRead(d)' :
                      /\ \A j \in SizesRead(d)' : j <= i
                      /\ PacketSize(d)' = given'[d].options[i].value
    <2>1. SizesRead(d)' = SizesRead(d)
        BY <1>2, <1>3, <1>4 DEF SizesRead
    <2> QED BY <1>1, <1>2, <1>4, <2>1 DEF SizeInv
<1>5. ASSUME res'[e] = "good"
      PROVE  /\ PacketSize(e)' <= AppMaxSize
             /\ SizesRead(e)' = {} => PacketSize(e)' = AppMaxSize
             /\ SizesRead(e)' # {} =>
                   \E i \in SizesRead(e)' :
                      /\ \A j \in SizesRead(e)' : j <= i
                      /\ PacketSize(e)' = given'[e].options[i].value
    <2>1. res[e] = "good" /\ ~Rejects(o)
        BY <1>2, <1>5 DEF Verdict
    <2>2. SizesRead(e)' = {i \in Named(e, "s") : i <= n}
        BY <1>2, <1>3 DEF SizesRead
    <2>3. \A i \in Named(e, "s") : i \in Nat
        BY OptionTyped DEF Named
    <2>4. CASE o.name = "s"
        <3>1. o.scanned = "yes" /\ ~(o.value > AppMaxSize) /\ o.value \in Nat
              /\ AppMaxSize \in Nat
            <4>1. o.scanned \in {"yes", "no"} /\ o.value \in Nat
                BY <1>1 DEF Options
            <4> QED BY <2>1, <2>4, <4>1, ProgramAssumption, AppAssumption DEF Rejects
        <3>2. PacketSize(e)' = o.value
            BY <1>1, <2>4, <3>1 DEF Sized
        <3>3. n \in SizesRead(e)'
            <4>1. n \in Named(e, "s")
                BY <1>1, <2>4, OptionTyped DEF Named
            <4> QED BY <1>2, <2>2, <4>1
        <3>4. \A j \in SizesRead(e)' : j <= n
            BY <2>2
        <3> HIDE DEF n
        <3> QED BY <1>1, <3>1, <3>2, <3>3, <3>4
    <2>5. CASE o.name # "s"
        <3>1. n \notin Named(e, "s")
            BY <2>5 DEF Named
        <3>2. SizesRead(e)' = SizesRead(e)
            <4>1. \A i \in Named(e, "s") : i <= n <=> i <= read[e]
                <5>1. \A i \in Nat : i # n => (i <= n <=> i <= read[e])
                    BY <1>2
                <5> QED BY <2>3, <3>1, <5>1
            <4> QED BY <2>2, <4>1 DEF SizesRead
        <3>3. PacketSize(e)' = PacketSize(e)
            BY <1>1, <2>5 DEF Sized
        <3> QED BY <1>1, <2>1, <3>2, <3>3 DEF SizeInv
    <2> QED BY <2>4, <2>5
<1> QED BY <1>4, <1>5 DEF SizeInv

\* The end that is parsing does not run, and the other one is left alone.
LEMMA ParseRun ==
    ASSUME ArgTypes, RunInv, NEW e \in Ends, ParseOption(e)
    PROVE  RunInv'
<1>1. PICK c, o :
         /\ phase[e] = "parse" /\ phase' = phase /\ given' = given
         /\ read' = [read EXCEPT ![e] = read[e] + 1]
         /\ res' = [res EXCEPT ![e] = Verdict(@, o)]
         /\ conf' = [conf EXCEPT ![e] = c]
    BY ParseEffect
<1>2. ASSUME NEW d \in Ends, phase'[d] = "run"
      PROVE  d # e /\ read'[d] = read[d] /\ res'[d] = res[d] /\ conf'[d] = conf[d]
    BY <1>1, <1>2 DEF ArgTypes
<1>3. ASSUME NEW d \in Ends, phase'[d] = "run"
      PROVE  /\ read'[d] = Len(given'[d].options) /\ Accepted(d)'
             /\ conf'[d].b \in Speeds
    <2>1. phase[d] = "run"
        BY <1>1, <1>3
    <2>2. read[d] = Len(given[d].options) /\ Accepted(d) /\ conf[d].b \in Speeds
        BY <2>1 DEF RunInv
    <2>3. read'[d] = read[d] /\ res'[d] = res[d] /\ conf'[d] = conf[d]
        BY <1>2, <1>3
    <2> QED BY <1>1, <2>2, <2>3 DEF Accepted
<1> QED BY <1>3 DEF RunInv

LEMMA SameArgs ==
    ASSUME ArgsInv, UNCHANGED <<argVars, tsize, rsize>>
    PROVE  ArgsInv'
<1>1. /\ given' = given /\ read' = read /\ res' = res /\ phase' = phase
      /\ conf' = conf /\ trouble' = trouble /\ missed' = missed
      /\ tsize' = tsize /\ rsize' = rsize
    BY DEF argVars
<1>2. ArgTypes'
    BY <1>1 DEF ArgsInv, ArgTypes
<1>3. SizeInv'
    BY <1>1 DEF ArgsInv, SizeInv, SizesRead, Named, PacketSize
<1>4. RunInv'
    BY <1>1 DEF ArgsInv, RunInv, Accepted
<1> QED BY <1>2, <1>3, <1>4 DEF ArgsInv

LEMMA UsageKeepsArgs ==
    ASSUME ArgsInv, NEW e \in Ends, Usage(e)
    PROVE  ArgsInv'
<1>1. /\ given' = given /\ read' = read /\ res' = res /\ conf' = conf
      /\ trouble' = trouble /\ missed' = missed /\ tsize' = tsize /\ rsize' = rsize
      /\ phase' = [phase EXCEPT ![e] = "usage"]
    BY DEF Usage, txVars, rxVars
<1>2. ArgTypes'
    BY <1>1 DEF ArgsInv, ArgTypes
<1>3. SizeInv'
    BY <1>1 DEF ArgsInv, SizeInv, SizesRead, Named, PacketSize
<1>4. \A d \in Ends : phase'[d] = "run" => phase[d] = "run"
    BY <1>1 DEF ArgsInv, ArgTypes
<1>5. RunInv'
    BY <1>1, <1>4 DEF ArgsInv, RunInv, Accepted
<1> QED BY <1>2, <1>3, <1>5 DEF ArgsInv

LEMMA RunKeepsArgs ==
    ASSUME ArgsInv, NEW e \in Ends, Run(e)
    PROVE  ArgsInv'
<1>1. /\ given' = given /\ read' = read /\ res' = res /\ tsize' = tsize
      /\ rsize' = rsize /\ trouble' = trouble /\ missed' = missed
      /\ Parsed(e) /\ Accepted(e)
      /\ phase' = [phase EXCEPT ![e] = "run"]
      /\ conf' = [conf EXCEPT ![e] = [conf[e] EXCEPT !.b = BaudRate(conf[e].b)]]
    BY DEF Run, vars
<1>2. conf[e] \in Settings /\ conf[e].b \in Nat
    BY DEF ArgsInv, ArgTypes, Settings
<1>3. BaudRate(conf[e].b) \in Speeds /\ BaudRate(conf[e].b) \in Nat
    BY <1>2, BaudRateTyped DEF Speeds
<1>4. /\ [conf[e] EXCEPT !.b = BaudRate(conf[e].b)] \in Settings
      /\ [conf[e] EXCEPT !.b = BaudRate(conf[e].b)].b = BaudRate(conf[e].b)
    BY <1>2, <1>3 DEF Settings
<1>5. ArgTypes'
    BY <1>1, <1>4 DEF ArgsInv, ArgTypes
<1>6. SizeInv'
    BY <1>1 DEF ArgsInv, SizeInv, SizesRead, Named, PacketSize
<1>7. RunInv'
    <2>1. conf'[e].b \in Speeds
        BY <1>1, <1>3, <1>4 DEF ArgsInv, ArgTypes
    <2>2. \A d \in Ends \ {e} : phase'[d] = phase[d] /\ conf'[d] = conf[d]
        BY <1>1 DEF ArgsInv, ArgTypes
    <2>3. \A d \in Ends : Accepted(d)' = Accepted(d)
        BY <1>1 DEF Accepted
    <2> QED BY <1>1, <2>1, <2>2, <2>3 DEF ArgsInv, RunInv, Parsed
<1> QED BY <1>5, <1>6, <1>7 DEF ArgsInv

LEMMA MissedKeepsArgs ==
    ASSUME ArgsInv, NEW e \in Ends, AlarmMissed(e)
    PROVE  ArgsInv'
<1>1. /\ given' = given /\ read' = read /\ res' = res /\ phase' = phase /\ conf' = conf
      /\ trouble' = trouble /\ missed' = missed \cup {e} /\ tsize' = tsize /\ rsize' = rsize
    BY DEF AlarmMissed, vars
<1>2. ArgTypes'
    BY <1>1 DEF ArgsInv, ArgTypes
<1>3. SizeInv'
    BY <1>1 DEF ArgsInv, SizeInv, SizesRead, Named, PacketSize
<1>4. RunInv'
    BY <1>1 DEF ArgsInv, RunInv, Accepted
<1> QED BY <1>2, <1>3, <1>4 DEF ArgsInv

\* A step of the transfer leaves the sizes of packets alone.
LEMMA SizesKept ==
    ASSUME Next
    PROVE  UNCHANGED <<tsize, rsize>>
BY DEF Next, TxNext, RxNext, FileChange, TxSendStart, TxSendData, TxSendEnd,
       TxWritten, TxClosed, TxFails, RxStart, RxData, RxEnd, RxClose, RxClosed,
       RxQuit, RxFails, RxRead, txVars, rxVars

\* TxRun, RxRun and OtherProgram are steps of the transfer.
LEMMA RunsTransfer ==
    ASSUME TxRun \/ RxRun \/ OtherProgram
    PROVE  Next /\ UNCHANGED argVars
BY DEF TxRun, RxRun, OtherProgram, Next, TxNext, RxNext

\* Every step of the two programs keeps the invariant of the command lines.
LEMMA ArgsStep ==
    ASSUME ArgsInv, [ProgramNext]_programVars
    PROVE  ArgsInv'
<1>1. CASE UNCHANGED programVars
    BY <1>1, SameArgs DEF programVars, vars, argVars
<1>2. CASE \E e \in Ends : ParseOption(e)
    BY <1>2, ParseTypes, ParseSize, ParseRun DEF ArgsInv
<1>3. CASE \E e \in Ends : Usage(e) \/ Run(e)
    BY <1>3, UsageKeepsArgs, RunKeepsArgs
<1>4. CASE TxRun \/ RxRun \/ OtherProgram
    BY <1>4, RunsTransfer, SizesKept, SameArgs
<1>5. CASE \E e \in Ends : AlarmMissed(e)
    BY <1>5, MissedKeepsArgs
<1> QED BY <1>1, <1>2, <1>3, <1>4, <1>5 DEF ProgramNext, TxProgram, RxProgram, Ends

-----------------------------------------------------------------------------
(* The transfer *)

\* Reading an option changes at most the sizes of packets.
Resize == UNCHANGED transfer /\ tsize' \in PacketSizes /\ rsize' \in PacketSizes

LEMMA ParseResizes ==
    ASSUME ArgTypes, TypeOK, NEW e \in Ends, ParseOption(e)
    PROVE  Resize
<1>1. UNCHANGED transfer
    BY DEF ParseOption
<1>2. PICK o \in Options :
         /\ o.name = "s" => o.value \in PacketSizes
         /\ PacketSize(e)' = Sized(o, PacketSize(e))
         /\ \A d \in Ends \ {e} : PacketSize(d)' = PacketSize(d)
    BY ParseEffect
<1>3. \A d \in Ends : PacketSize(d) \in PacketSizes
    BY DEF TypeOK, PacketSize, Ends
<1>4. \A d \in Ends : PacketSize(d)' \in PacketSizes
    BY <1>2, <1>3 DEF Sized
<1> QED BY <1>1, <1>4 DEF Resize, PacketSize, Ends

\* A program that only prints its usage is one that fails, to the other end.
LEMMA UsageFails ==
    ASSUME NEW e \in Ends, Usage(e)
    PROVE  TxFails \/ RxFails
BY ProgramAssumption DEF Usage, TxFails, RxFails, Ends

\* Whatever the two programs do, the transfer takes a step, or its packets get
\* another size.
LEMMA ProgramStep ==
    ASSUME ArgTypes, TypeOK, [ProgramNext]_programVars
    PROVE  [Next]_vars \/ Resize
<1>1. CASE UNCHANGED programVars
    BY <1>1 DEF programVars
<1>2. CASE \E e \in Ends : ParseOption(e)
    BY <1>2, ParseResizes
<1>3. CASE \E e \in Ends : Usage(e)
    BY <1>3, UsageFails DEF Next, TxNext, RxNext
<1>4. CASE \E e \in Ends : Run(e)
    BY <1>4 DEF Run
<1>5. CASE TxRun \/ RxRun \/ OtherProgram
    BY <1>5, RunsTransfer
<1>6. CASE \E e \in Ends : AlarmMissed(e)
    BY <1>6 DEF AlarmMissed
<1> QED BY <1>1, <1>2, <1>3, <1>4, <1>5, <1>6 DEF ProgramNext, TxProgram, RxProgram, Ends

\* The invariant of the transfer does not depend on the sizes of packets.
LEMMA ResizeKeeps ==
    ASSUME AppInv, Resize
    PROVE  AppInv'
<1>1. TypeOK'
    BY DEF AppInv, TypeOK, Resize, transfer
<1>2. LinkStepInv' /\ StartInv' /\ DataInv' /\ EndInv' /\ OutputIsPrefix'
    BY DEF AppInv, Resize, transfer, LinkStepInv, StartInv, DataInv, EndInv,
           OutputIsPrefix, Delivered, InFlight
<1> QED BY <1>1, <1>2 DEF AppInv

ProgramInv == AppInv /\ ArgsInv

\* The inductive invariant of the two programs holds.
THEOREM ProgramInvHolds == ProgramSpec => []ProgramInv
<1>1. ProgramInit => ProgramInv
    BY AppInit, ArgsInit DEF ProgramInit, ProgramInv
<1>2. ProgramInv /\ [ProgramNext]_programVars => ProgramInv'
    <2> SUFFICES ASSUME ProgramInv, [ProgramNext]_programVars PROVE ProgramInv'
        OBVIOUS
    <2>1. [Next]_vars \/ Resize
        BY ProgramStep DEF ProgramInv, ArgsInv, AppInv
    <2> QED BY <2>1, AppStep, ResizeKeeps, ArgsStep DEF ProgramInv
<1> QED BY <1>1, <1>2, PTL DEF ProgramSpec

\* The invariant of the options holds: an accepted program runs with the size
\* of its last -s.
THEOREM ArgsHold == ProgramSpec => []ArgsInv
<1>1. ProgramInv => ArgsInv
    BY DEF ProgramInv
<1> QED BY ProgramInvHolds, <1>1, PTL

\* Types hold, and no data packet is larger than llwrite takes.
THEOREM ProgramTypesHold == ProgramSpec => []ProgramTypeOK
<1>1. ProgramInv => ProgramTypeOK
    <2> SUFFICES ASSUME ProgramInv PROVE ProgramTypeOK
        OBVIOUS
    <2>1. ASSUME NEW e \in Ends
          PROVE  /\ given[e] \in Commands[e] /\ read[e] \in 0..Len(given[e].options)
                 /\ res[e] \in {"good", "bad"} /\ phase[e] \in {"parse", "usage", "run"}
                 /\ conf[e].r \in Nat /\ conf[e].t \in Nat
                 /\ conf[e].b \in (IF phase[e] = "run" THEN Speeds ELSE Nat)
        <3>1. ArgTypes /\ RunInv
            BY DEF ProgramInv, ArgsInv
        <3>2. read[e] \in 0..Len(given[e].options)
            BY <3>1, OptionTyped
        <3>3. conf[e].r \in Nat /\ conf[e].t \in Nat /\ conf[e].b \in Nat
            BY <3>1 DEF ArgTypes, Settings
        <3> QED BY <3>1, <3>2, <3>3 DEF ArgTypes, RunInv
    <2>2. trouble \in {"may", "none"} /\ missed \subseteq Ends
        BY DEF ProgramInv, ArgsInv, ArgTypes
    <2>3. ASSUME phase["tx"] = "run" PROVE Chunk <= AppMaxSize
        <3>1. "tx" \in Ends /\ Accepted("tx")
            BY <2>3 DEF ProgramInv, ArgsInv, RunInv, Ends
        <3>2. tsize <= AppMaxSize
            BY <3>1 DEF ProgramInv, ArgsInv, SizeInv, Accepted, PacketSize
        <3>3. tsize \in Nat /\ Left \in Nat /\ AppMaxSize \in Nat
            BY AppAssumption, ProgramAssumption DEF ProgramInv, AppInv, TypeOK, Left
        <3> QED BY <3>2, <3>3 DEF Chunk
    <2> QED BY <2>1, <2>2, <2>3 DEF ProgramTypeOK
<1> QED BY ProgramInvHolds, <1>1, PTL

\* The output file is the beginning of the input file, whatever the programs
\* are asked to do.
THEOREM ProgramPrefixHolds == ProgramSpec => []OutputIsPrefix
<1>1. ProgramInv => OutputIsPrefix
    BY DEF ProgramInv, AppInv
<1> QED BY ProgramInvHolds, <1>1, PTL

\* A receiver that succeeds has every byte the transmitter has read.
THEOREM ProgramCompleteHolds == ProgramSpec => []AcceptedIsComplete
<1>1. ProgramInv => AcceptedIsComplete
    BY DEF ProgramInv, AppInv, EndInv, AcceptedIsComplete
<1> QED BY ProgramInvHolds, <1>1, PTL

\* A transmitter that succeeds has a receiver that accepted the file.
THEOREM ProgramSuccessHolds == ProgramSpec => []SuccessIsShared
<1>1. ProgramInv => SuccessIsShared
    BY DEF ProgramInv, AppInv, LinkStepInv, SuccessIsShared
<1> QED BY ProgramInvHolds, <1>1, PTL

-----------------------------------------------------------------------------
(* What was asked for *)

\* The size a command line asks for is one that packets may have.
LEMMA AskedTyped ==
    ASSUME ArgTypes, NEW e \in Ends
    PROVE  AskedSize(e) \in PacketSizes
<1> DEFINE n == Len(given[e].options)
<1>1. Named(e, "s") \subseteq 0..n /\ n \in Nat
    <2>1. \A i \in 1..n : i \in 0..n
        BY OptionTyped
    <2> QED BY <2>1, OptionTyped DEF Named
<1>2. CASE Named(e, "s") = {}
    BY <1>2, ProgramAssumption DEF AskedSize, Asked
<1>3. CASE Named(e, "s") # {}
    <2>1. \E i \in Named(e, "s") : \A j \in Named(e, "s") : j <= i
        <3> HIDE DEF n
        <3> QED BY <1>1, <1>3, GreatestNumber
    <2>2. PICK i \in Named(e, "s") : AskedSize(e) = given[e].options[i].value
        BY <1>3, <2>1 DEF AskedSize, Asked
    <2>3. i \in 1..n /\ given[e].options[i].name = "s"
        BY OptionTyped DEF Named
    <2> QED BY <2>2, <2>3, OptionTyped
<1> QED BY <1>2, <1>3

\* A program that runs has packets of that size.
LEMMA RunsAsAsked ==
    ASSUME ArgsInv, NEW e \in Ends, phase[e] = "run"
    PROVE  PacketSize(e) = AskedSize(e)
<1>1. ArgTypes /\ res[e] = "good" /\ read[e] = Len(given[e].options)
    BY DEF ArgsInv, RunInv, Accepted
<1>2. \A i \in Named(e, "s") : i \in Nat
    BY <1>1, OptionTyped DEF Named
<1>3. SizesRead(e) = Named(e, "s")
    <2>1. \A i \in Named(e, "s") : i <= read[e]
        BY <1>1, OptionTyped DEF Named
    <2> QED BY <2>1 DEF SizesRead
<1>4. CASE Named(e, "s") = {}
    BY <1>1, <1>3, <1>4 DEF ArgsInv, SizeInv, AskedSize, Asked
<1>5. CASE Named(e, "s") # {}
    <2>1. PICK i \in Named(e, "s") :
             /\ \A j \in Named(e, "s") : j <= i
             /\ PacketSize(e) = given[e].options[i].value
        BY <1>1, <1>3, <1>5 DEF ArgsInv, SizeInv
    <2> DEFINE last == CHOOSE k \in Named(e, "s") : \A j \in Named(e, "s") : j <= k
    <2>2. last \in Named(e, "s") /\ \A j \in Named(e, "s") : j <= last
        BY <2>1
    <2>3. AskedSize(e) = given[e].options[last].value
        BY <1>5 DEF AskedSize, Asked
    <2> HIDE DEF last
    <2>4. last = i
        BY <1>2, <2>1, <2>2
    <2> QED BY <2>1, <2>3, <2>4
<1> QED BY <1>4, <1>5

\* What was asked for does not change.
LEMMA GivenForGood ==
    ASSUME [ProgramNext]_programVars
    PROVE  given' = given
BY RunsTransfer
DEF ProgramNext, TxProgram, RxProgram, ParseOption, Usage, Run, AlarmMissed, argVars, programVars

LEMMA AskedForGood ==
    ASSUME given' = given, NEW e \in Ends
    PROVE  AskedSize(e)' = AskedSize(e)
BY DEF AskedSize, Asked, Named

\* The transmitter's steps, and those of other programs, with the size asked for.
LEMMA TxAsAsked ==
    ASSUME TypeOK, TxNext \/ FileChange, AskedSize("tx") = tsize \/ ~(TxSendData \/ TxSendEnd),
           AskedSize("tx")' = AskedSize("tx"), AskedSize("rx")' = AskedSize("rx")
    PROVE  AskedTransfer!Next
<1>1. CASE TxSendStart
    BY <1>1 DEF TxSendStart, TxFree, TxWrite, ControlPacket, link, rxVars,
       AskedTransfer!TxSendStart, AskedTransfer!TxFree, AskedTransfer!TxWrite,
       AskedTransfer!ControlPacket, AskedTransfer!link, AskedTransfer!rxVars,
       AskedTransfer!Next, AskedTransfer!TxNext
<1>2. CASE TxSendData \/ TxSendEnd
    <2>1. AskedTransfer!Chunk = Chunk
        BY <1>2 DEF Chunk, Left, AskedTransfer!Chunk, AskedTransfer!Left
    <2> QED BY <1>2, <2>1
        DEF TxSendData, TxSendEnd, TxFree, TxWrite, DataPacket, ControlPacket,
        NextNum, link, rxVars, AskedTransfer!TxSendData, AskedTransfer!TxSendEnd,
        AskedTransfer!TxFree, AskedTransfer!TxWrite, AskedTransfer!DataPacket,
        AskedTransfer!ControlPacket, AskedTransfer!NextNum, AskedTransfer!link,
        AskedTransfer!rxVars, AskedTransfer!Next, AskedTransfer!TxNext
<1>3. CASE TxWritten \/ TxClosed \/ TxFails
    <2>1. UNCHANGED <<AskedTransfer!txVars, AskedTransfer!rxVars>>
        BY <1>3 DEF TxWritten, TxClosed, TxFails, txVars, rxVars,
           AskedTransfer!txVars, AskedTransfer!rxVars
    <2>2. TxWritten => AskedTransfer!TxWritten
        BY <2>1 DEF TxWritten, Link!Acknowledge, AskedTransfer!TxWritten,
           AskedTransfer!Link!Acknowledge
    <2>3. TxClosed => AskedTransfer!TxClosed
        BY <2>1 DEF TxClosed, TxFree, Link!WriterDone, AskedTransfer!TxClosed,
           AskedTransfer!TxFree, AskedTransfer!Link!WriterDone
    <2>4. TxFails => AskedTransfer!TxFails
        BY <2>1 DEF TxFails, Link!WriterFails, AskedTransfer!TxFails,
           AskedTransfer!Link!WriterFails
    <2> QED BY <1>3, <2>2, <2>3, <2>4 DEF AskedTransfer!Next, AskedTransfer!TxNext
<1>4. CASE FileChange
    BY <1>4 DEF FileChange, link, rxVars, AskedTransfer!FileChange,
       AskedTransfer!link, AskedTransfer!rxVars, AskedTransfer!Next
<1> QED BY <1>1, <1>2, <1>3, <1>4 DEF TxNext

\* The receiver's, likewise.
LEMMA RxAsAsked ==
    ASSUME RxNext, AskedSize("rx") = rsize \/ ~RxData,
           AskedSize("tx")' = AskedSize("tx"), AskedSize("rx")' = AskedSize("rx")
    PROVE  AskedTransfer!Next
<1>1. RxRead => AskedTransfer!RxRead
    BY DEF RxRead, Link!Deliver, txVars, AskedTransfer!RxRead,
           AskedTransfer!Link!Deliver, AskedTransfer!txVars
<1>2. Incoming = AskedTransfer!Incoming
    BY DEF Incoming, AskedTransfer!Incoming
<1>3. \A n, b : RxLoop(n, b) = AskedTransfer!RxLoop(n, b)
    BY DEF RxLoop, AskedTransfer!RxLoop
<1>4. CASE RxStart \/ RxEnd
    BY <1>1, <1>2, <1>3, <1>4 DEF RxStart, RxEnd, AskedTransfer!RxStart,
       AskedTransfer!RxEnd, AskedTransfer!Next, AskedTransfer!RxNext
<1>5. CASE RxData
    <2>1. RxAccepts(Incoming) <=> AskedTransfer!RxAccepts(Incoming)
        BY <1>5 DEF RxAccepts, AskedTransfer!RxAccepts
    <2>2. Bytes(Incoming) = AskedTransfer!Bytes(Incoming)
        BY DEF Bytes, AskedTransfer!Bytes
    <2> QED BY <1>1, <1>2, <1>3, <1>5, <2>1, <2>2 DEF RxData, AskedTransfer!RxData,
            AskedTransfer!Next, AskedTransfer!RxNext
<1>6. CASE RxClose \/ RxClosed \/ RxQuit \/ RxFails
    BY <1>6 DEF RxClose, RxClosed, RxQuit, RxFails, txVars, rxVars,
       Link!ReaderCloses, Link!ReaderDone, Link!ReaderFails,
       AskedTransfer!RxClose, AskedTransfer!RxClosed, AskedTransfer!RxQuit,
       AskedTransfer!RxFails, AskedTransfer!txVars, AskedTransfer!rxVars,
       AskedTransfer!Link!ReaderCloses, AskedTransfer!Link!ReaderDone,
       AskedTransfer!Link!ReaderFails, AskedTransfer!Next, AskedTransfer!RxNext
<1> QED BY <1>4, <1>5, <1>6 DEF RxNext

\* Every step of the two programs is one of the transfer that was asked for, or
\* changes nothing of it.
LEMMA AskedStep ==
    ASSUME ProgramInv, [ProgramNext]_programVars
    PROVE  [AskedTransfer!Next]_(AskedTransfer!vars)
<1>1. /\ "tx" \in Ends /\ "rx" \in Ends /\ ArgsInv /\ TypeOK
      /\ AskedSize("tx")' = AskedSize("tx") /\ AskedSize("rx")' = AskedSize("rx")
    BY GivenForGood, AskedForGood DEF ProgramInv, AppInv, Ends
<1>2. CASE UNCHANGED transfer
    BY <1>1, <1>2 DEF transfer, AskedTransfer!vars
<1>3. CASE \E e \in Ends : Usage(e)
    <2>1. TxFails \/ RxFails
        BY <1>3, UsageFails
    <2>2. TxFails => ~(TxSendData \/ TxSendEnd)
        BY DEF TxFails, TxSendData, TxSendEnd, Link!WriterFails, TxWrite, link, TxFree
    <2>3. RxFails => ~RxData
        BY DEF RxFails, RxData, RxRead, Link!ReaderFails, Link!Deliver
    <2> QED BY <1>1, <2>1, <2>2, <2>3, TxAsAsked, RxAsAsked DEF TxNext, RxNext
<1>4. CASE TxRun
    <2>1. tsize = AskedSize("tx")
        BY <1>1, <1>4, RunsAsAsked DEF TxRun, PacketSize
    <2> QED BY <1>1, <1>4, <2>1, TxAsAsked DEF TxRun, TxNext
<1>5. CASE RxRun
    <2>1. rsize = AskedSize("rx")
        BY <1>1, <1>5, RunsAsAsked DEF RxRun, PacketSize
    <2> QED BY <1>1, <1>5, <2>1, RxAsAsked DEF RxRun, RxNext
<1>6. CASE OtherProgram
    <2>1. ~(TxSendData \/ TxSendEnd)
        BY <1>1, <1>6 DEF OtherProgram, FileChange, TxSendData, TxSendEnd, TypeOK
    <2> QED BY <1>1, <1>6, <2>1, TxAsAsked DEF OtherProgram
<1>7. UNCHANGED programVars => UNCHANGED transfer
    BY DEF programVars, vars, transfer
<1>8. \A e \in Ends : ParseOption(e) \/ Run(e) \/ AlarmMissed(e) => UNCHANGED transfer
    BY DEF ParseOption, Run, AlarmMissed, vars, transfer
<1> QED BY <1>1, <1>2, <1>3, <1>4, <1>5, <1>6, <1>7, <1>8
        DEF ProgramNext, TxProgram, RxProgram

\* The programs do what AppTransfer does with the packet sizes that the two
\* command lines ask for, and nothing at all of it before they have accepted
\* all of their options.
THEOREM ProgramImplementsTransfer == ProgramSpec => TransferAsAsked
<1>1. ProgramInit => AskedTransfer!Init
    <2> SUFFICES ASSUME ProgramInit PROVE AskedTransfer!Init
        OBVIOUS
    <2>1. AskedSize("tx") \in PacketSizes /\ AskedSize("rx") \in PacketSizes
        BY ArgsInit, AskedTyped DEF ArgsInv, Ends
    <2> QED BY <2>1 DEF ProgramInit, Init, Link!Init, AskedTransfer!Init,
            AskedTransfer!Link!Init
<1>2. ProgramInv /\ [ProgramNext]_programVars
         => [AskedTransfer!Next]_(AskedTransfer!vars)
    BY AskedStep
<1> QED BY <1>1, <1>2, ProgramInvHolds, PTL
        DEF ProgramSpec, TransferAsAsked, AskedTransfer!Spec

=============================================================================
