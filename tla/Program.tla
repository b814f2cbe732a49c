------------------------------ MODULE Program ------------------------------
(***************************************************************************)
(* The two programs, from their command lines to their exit: main() of     *)
(* src/transmitter.c and src/receiver.c, the options of src/app_args.c,    *)
(* and between them the transfer of AppTransfer, which they run only with  *)
(* options that have been accepted and that let the two ends talk.         *)
(*                                                                         *)
(* An option that does not steer the transfer (-d, -h, -T, -v) is "other", *)
(* and so is one that is unknown or lacks its value, which getopt_long     *)
(* reports as sscanf would: not "scanned".                                 *)
(***************************************************************************)
EXTENDS AppTransferInv

CONSTANTS
    Commands,   \* for each end, the command lines it may be given
    LLMaxSize   \* LL_MAX_SIZE: 4096

Ends == {"tx", "rx"}

Options == [name : {"b", "r", "s", "t", "other"}, value : Nat,
            scanned : {"yes", "no"}]

AppMaxSize == LLMaxSize - 4

\* Calls may fail: when they do is said by MayFail, below.
ASSUME ProgramAssumption ==
    /\ LinkFails
    /\ LLMaxSize \in Nat /\ AppMaxSize \in PacketSizes
    /\ \A e \in Ends : \A c \in Commands[e] :
          /\ c.options \in Seq(Options) /\ c.operands \in Nat
          /\ \A i \in DOMAIN c.options :
                c.options[i].name = "s" => c.options[i].value \in PacketSizes

VARIABLES
    given,      \* the two command lines
    read,       \* how many of the options getopt_long has returned
    res,        \* app_parse_args: "good", or "bad" once an option is
    phase,      \* main: "parse", "usage" or "run"
    conf,       \* ll_config: the values of -b, -r and -t, at each end
    trouble,    \* "may" come from the line, the disk or other programs, or "none":
                \* then no timer expires either, while the other end is there
    missed      \* the ends with a call that nobody answers and whose alarm is
                \* spent: without trouble it waits for ever

argVars     == <<given, read, res, phase, conf, trouble, missed>>
transfer    == <<acked, received, writer, reader,
                 packets, tapp, fsize, announced, offset, tnum,
                 rapp, expected, rnum, out>>
programVars == <<vars, given, read, res, phase, conf, trouble, missed>>

\* COM and FILE; COM.
Operands == [tx |-> 2, rx |-> 1]

Defaults == [b |-> 38400, r |-> 3, t |-> 3000000]

ProgramInit ==
    /\ Init /\ tsize = AppMaxSize /\ rsize = AppMaxSize
    /\ given \in [Ends -> UNION {Commands[e] : e \in Ends}]
    /\ \A e \in Ends : given[e] \in Commands[e]
    /\ read = [e \in Ends |-> 0] /\ res = [e \in Ends |-> "good"]
    /\ phase = [e \in Ends |-> "parse"] /\ conf = [e \in Ends |-> Defaults]
    /\ trouble \in {"may", "none"} /\ missed = {}

-----------------------------------------------------------------------------
(* Options *)

Speeds == {0, 50, 75, 110, 134, 150, 200, 300, 600, 1200, 1800, 2400, 4800,
           9600, 19200, 38400, 57600, 115200, 230400}

\* A rate that is not one of the table is used as it is.
MutBaudRate(rate) == rate

\* ll_get_baud_rate: the next speed a serial port has.
BaudRate(rate) ==
    IF rate > 115200 THEN 230400
    ELSE CHOOSE s \in Speeds : s >= rate /\ \A q \in Speeds : q >= rate => s <= q

Rejects(o) == o.scanned = "no" \/ (o.name = "s" /\ o.value > AppMaxSize)

\* What an option may leave in ll_config.  A timeout that is not a number is
\* computed from a variable that has not been assigned.
Stored(c, o) ==
    IF o.name \notin DOMAIN c THEN {c}
    ELSE IF o.scanned = "yes" THEN {[c EXCEPT ![o.name] = o.value]}
    ELSE IF o.name = "t" THEN {[c EXCEPT !.t = v] : v \in {c.t, 0}}
    ELSE {c}

\* The result is that of the last option.
MutVerdict(old, o) == IF Rejects(o) THEN "bad" ELSE "good"

Verdict(old, o) == IF Rejects(o) THEN "bad" ELSE old

\* app_config.packet_size of an end becomes n.
PacketSize(e) == IF e = "tx" THEN tsize ELSE rsize
SetPacketSize(e, n) ==
    IF e = "tx" THEN tsize' = n /\ UNCHANGED rsize ELSE rsize' = n /\ UNCHANGED tsize

\* An iteration of the loop of app_parse_args.
ParseOption(e) ==
    /\ phase[e] = "parse" /\ read[e] < Len(given[e].options)
    /\ LET o == given[e].options[read[e] + 1] IN
       /\ SetPacketSize(e, IF o.name = "s" /\ o.scanned = "yes"
                           THEN o.value ELSE PacketSize(e))
       /\ res' = [res EXCEPT ![e] = Verdict(@, o)]
       /\ \E c \in Stored(conf[e], o) : conf' = [conf EXCEPT ![e] = c]
    /\ read' = [read EXCEPT ![e] = @ + 1]
    /\ UNCHANGED <<transfer, given, phase, trouble, missed>>

Parsed(e) == phase[e] = "parse" /\ read[e] = Len(given[e].options)

Accepted(e) == res[e] = "good" /\ given[e].operands = Operands[e]

\* The usage is printed, and the program ends with status 1.
Usage(e) ==
    /\ Parsed(e) /\ ~Accepted(e)
    /\ phase' = [phase EXCEPT ![e] = "usage"]
    /\ IF e = "tx" THEN Link!WriterFails ELSE Link!ReaderFails
    /\ UNCHANGED <<txVars, rxVars, given, read, res, conf, trouble, missed>>

\* application() is called, and llopen sets the port's speed.
Run(e) ==
    /\ Parsed(e) /\ Accepted(e)
    /\ phase' = [phase EXCEPT ![e] = "run"]
    /\ conf' = [conf EXCEPT ![e].b = BaudRate(@)]
    /\ UNCHANGED <<vars, given, read, res, trouble, missed>>

-----------------------------------------------------------------------------
(* The transfer *)

\* What it takes for llopen to succeed: a call with no attempts fails at once,
\* and the speed 0 hangs up the line.
Connected == /\ \A e \in Ends : phase[e] = "run" /\ conf[e].r > 0
             /\ conf["tx"].b = conf["rx"].b /\ conf["tx"].b > 0

\* The other end will not answer, as it is gone or never talked to this one.
Alone == \/ "parse" \notin {phase["tx"], phase["rx"]} /\ ~Connected
         \/ "fail" \in {writer, reader}

\* The end e is in a call of the link layer that nothing on the line answers.  It
\* has a timer, in all calls but the receiver's llclose; 0 disarms it.
Waits(e) ==
    IF e = "tx" THEN /\ writer = "busy" /\ reader \notin {"closing", "lost"}
                     /\ Len(received) = acked
                     /\ ~(tapp = "start" /\ Connected) /\ ~(tapp = "data" /\ TxFree)
                ELSE /\ reader = "busy" /\ rapp \notin {"close", "quit"}
                     /\ Len(packets) = Len(received)

Timed(e) == conf[e].r > 0 /\ conf[e].t > 0 /\ e \notin missed

\* The alarm of a call that nobody will answer arrives before read() is called:
\* alarmHandler() runs, and nothing interrupts the read() that follows.
AlarmMissed(e) ==
    /\ phase[e] = "run" /\ Alone /\ Waits(e) /\ Timed(e)
    /\ missed' = missed \cup {e}
    /\ UNCHANGED <<vars, given, read, res, phase, conf, trouble>>

\* When a call of the link layer may fail: it needs trouble, no attempts, or a
\* timer whose alarm interrupts read().
MayFail(e) == \/ trouble = "may" \/ conf[e].r = 0
              \/ Alone /\ Timed(e)

TxRun ==
    /\ phase["tx"] = "run" /\ UNCHANGED argVars
    /\ \/ Connected /\ TxSendStart
       \/ TxSendData \/ TxSendEnd \/ TxWritten \/ TxClosed
       \/ MayFail("tx") /\ TxFails

RxRun ==
    /\ phase["rx"] = "run" /\ UNCHANGED argVars
    /\ \/ RxStart /\ (trouble = "none" /\ rapp' = "quit" => Incoming.ctrl # "START")
       \/ RxData \/ RxEnd \/ RxClose \/ RxQuit
       \/ RxClosed /\ (trouble = "none" => reader' = "ok")
       \/ MayFail("rx") /\ RxFails

TxProgram == ParseOption("tx") \/ Usage("tx") \/ Run("tx") \/ TxRun
RxProgram == ParseOption("rx") \/ Usage("rx") \/ Run("rx") \/ RxRun

OtherProgram == trouble = "may" /\ FileChange /\ UNCHANGED argVars

ProgramNext == TxProgram \/ RxProgram \/ OtherProgram \/ \E e \in Ends : AlarmMissed(e)

\* Both programs keep running, and the link layer's calls return, but for those
\* whose alarm is missed: which may happen, or not.
ProgramSpec == /\ ProgramInit /\ [][ProgramNext]_programVars
               /\ WF_programVars(TxProgram) /\ WF_programVars(RxProgram)

-----------------------------------------------------------------------------
(* What was asked for *)

\* The options of a command line that name one setting.
Named(e, name) == {i \in DOMAIN given[e].options : given[e].options[i].name = name}

\* The last of them holds, or the default.
Asked(e, name, default) ==
    IF Named(e, name) = {} THEN default
    ELSE given[e].options[CHOOSE i \in Named(e, name) :
                             \A j \in Named(e, name) : j <= i].value

AskedSize(e) == Asked(e, "s", AppMaxSize)

Valid(e) ==
    /\ given[e].operands = Operands[e]
    /\ \A i \in DOMAIN given[e].options :
          LET o == given[e].options[i] IN
          o.scanned = "yes" /\ (o.name = "s" => o.value <= AppMaxSize)

-----------------------------------------------------------------------------
(* Properties *)

\* Every variable has its type, and app_send_data_packet's own test of the
\* size of a packet (src/app.c:76), which AppTransfer leaves out, never fails.
ProgramTypeOK ==
    /\ \A e \in Ends :
          /\ given[e] \in Commands[e] /\ read[e] \in 0..Len(given[e].options)
          /\ res[e] \in {"good", "bad"} /\ phase[e] \in {"parse", "usage", "run"}
          /\ conf[e].r \in Nat /\ conf[e].t \in Nat
          /\ conf[e].b \in (IF phase[e] = "run" THEN Speeds ELSE Nat)
    /\ trouble \in {"may", "none"} /\ missed \subseteq Ends
    /\ phase["tx"] = "run" => Chunk <= AppMaxSize

\* The programs do what AppTransfer does with the packet sizes asked for: the
\* last option of a kind holds, and a program with an option that cannot be
\* used, wherever it is, does nothing at all.
AskedTransfer == INSTANCE AppTransfer WITH tsize <- AskedSize("tx"),
                                           rsize <- AskedSize("rx")
TransferAsAsked == AskedTransfer!Spec

\* Two commands agree: both are accepted, the speeds asked for are those of
\* one speed of the port, and calls have attempts.
Agree ==
    /\ \A e \in Ends : Valid(e) /\ Asked(e, "r", Defaults.r) > 0
    /\ LET speed(e) == BaudRate(Asked(e, "b", Defaults.b)) IN
       speed("tx") = speed("rx") /\ speed("tx") > 0

\* The file fits the packets of the two programs, the numbers of a round, and
\* the 32 bits of its size.
Fits ==
    /\ AskedSize("tx") > 0 /\ AskedSize("tx") <= AskedSize("rx")
    /\ fsize < SizeModulus
    /\ fsize <= AskedSize("tx") * SeqModulus

Copied == writer = "ok" /\ reader = "ok" /\ Len(out) = fsize

\* When the commands agree and the file fits, it is copied and both programs
\* succeed, as long as nothing fails, nobody changes it, and no timer expires
\* while the two ends are connected, however short the -t.
FileIsCopied == trouble = "none" /\ Agree /\ Fits => <>Copied

Exited(e) == IF e = "tx" THEN writer # "busy" ELSE reader \notin {"busy", "closing"}

\* Whatever the two programs are asked, also when only one of them accepts its
\* options or they disagree, each of them ends that has a timer; unless the alarm
\* of a call that nobody answers is missed, for which only that end is excused.
BothExit ==
    trouble = "none" =>
        \A e \in Ends : (Valid(e) => Asked(e, "t", Defaults.t) > 0)
            => <>(Exited(e) \/ e \in missed)

=============================================================================
