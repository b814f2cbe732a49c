# Verifying the rcom link layer and file transfer

This directory holds TLA+ modules, TLC configurations and TLAPS proofs about the program of this
repository: a file transfer over a serial line, whose link layer is a stop-and-wait protocol with one
sequence bit, timeouts and retransmissions. Paths below are relative to the repository's root.

## 1. The system: inventory

| Component | Source | State | Operations | Interacts by |
|---|---|---|---|---|
| Link layer calls | `src/ll.c`, `src/ll_internal.c` | `ll_status`, `sequence_number`, `timeout`, `errno`, the interval timer, the attempt counter of the call in progress | `llopen`, `llwrite`, `llread`, `llclose`, `alarmHandler` | called by the application; bytes on the serial line; SIGALRM |
| Reception automata | `src/ll_{s,u,i}_statemachine.c` | automaton state, address and control bytes received, stuffed data | `ll_{s,u,i}_state_update`, one call per byte | called by `ll_expect_{S,U,I}frame` |
| Framing | `src/ll_utils.c`, `include/ll_flags.h` | none | `ll_bcc`, `ll_stuffing`, `ll_destuffing` | called by `ll_send_*`, `ll_expect_Iframe` |
| Application | `src/app.c` | file offset, sequence number of the data packet, file size and name announced | `app_send_file`, `app_receive_file` and the packets they send and receive | calls the link layer, reads and writes the file |
| Command line | `src/app_args.c` | `ll_config`, `app_config` | parsing of `-b -r -t -s ...` | sets what the link layer reads |
| Statistics | `src/stats.c`, `include/stats.h` | counters, error probabilities | counters, `GEN_FRAME_ERROR`, `ADD_DELAY` | macros in the link layer |
| Mains | `src/transmitter.c`, `src/receiver.c` | none | parse arguments, call `application()`, exit with a status | |
| Measurement drivers | `stats/stats_transmitter.c`, `stats/stats_receiver.c` | line of the file of settings | start the programs for each line, wait for their status, read the statistics | processes, pipes |
| Tests | `tests/makefile` | none | start the programs in one order or the other and compare files | |

What is hard here: two processes and a line that interleave freely; loss, damage and late frames;
timeouts that come too early (a duplicate is sent) or are lost (a call hangs); the three closing
messages, the last of which nobody acknowledges; processes that die, and others that are started over
what they left on the line, with the same sequence numbers; `errno` and `sequence_number` as global state that
is read after the call that should have set it; and everything that is different about the *last*
packet, whose duplicates arrive in `llclose` and not in `llread`.

What makes each component correct:

* link layer: packets are delivered in order, once and undamaged; `llwrite` succeeds only for a
  delivered packet; the two ends agree on when the connection is open and closed; every call returns;
  the answer to a duplicate, to a damaged frame and to a retransmitted SET or DISC is the documented one;
* automata and framing: a frame that is sent is the frame that is recognised, whatever precedes it; a
  damaged frame is not accepted; buffers suffice;
* application: the file written is the file read, or the receiver reports an error;
* command line and mains: what the user asks for is what the programs do, a bad option means that nothing
  is done, and both programs end;
* statistics: time, frames, errors and timeouts add up as the measurements assume;
* measurement drivers: the two of them stay at the same line of their files.

The full list of hazards, with the line where each bites, is in `PROJECT.json`.

## 2. Modules

The modules form layers, each resting on what the one below is shown to do:

    Program            main() and the options, which run         and implement, as asked,
    AppTransfer        app_send_file, app_receive_file           over
    PacketTransfer     the promise of llwrite and llread         implemented by
    LinkLayer          the four calls of both ends, with frames as the records of
    LinkFrames         what the automata make of whole frames, shown to be so by
    Reception          frames byte by byte, built and recognised by
    Framing            bytes, checksums, stuffing, the automata

and two modules put `LinkLayer` in a wider setting:

    Sessions           processes that end, die and are started again on one line
    LinkLayerTimed     clocks, and the transmitter's statistics

| Module | Models | State and actions |
|---|---|---|
| `Framing` | `src/ll_utils.c`, the frame builders, the three automata | none: operators |
| `LinkFrames` | the frames, what noise makes of them, and what each automaton makes of that | none: operators |
| `Reception` | the loops of `ll_expect_{S,U,I}frame` on a noisy line, byte by byte | below |
| `LinkLayer` | the four calls of both ends, frame by frame | below |
| `PacketTransfer` | nothing of the code: the promise of the link layer to its users | `acked`, `received`, `writer`, `reader` |
| `AppTransfer` | `src/app.c` at both ends | below |
| `Program` | `src/app_args.c`, `src/transmitter.c`, `src/receiver.c`, `ll_get_baud_rate` | below |
| `Sessions` | the loops of `stats/*.c`, and users | below |
| `LinkLayerTimed` | the timers, `ADD_FRAME...`, `tic`, `toc` | below |
| `LinkLayerInv`, `LinkLayerTimedInv`, `SessionsInv`, `ReceptionInv`, `AppTransferInv`, `ProgramInv` | the inductive invariants | |
| `LinkLayerClaims`, `AppClaims` | what the report and the headers say and the code does not do | |
| `Framing_proofs`, `Reception_proofs`, `ReceptionNoise_proofs`, `LinkLayer_proofs`, `LinkLayerTimed_proofs`, `Sessions_proofs`, `AppTransfer_proofs`, `Program_proofs` | the theorems, in section 4 | |
| `MC...` | instances for TLC | |

Definitions named `Mut...` stand beside the one they are a wrong version of. No specification uses
them: each is put in that definition's place to see that the properties notice.

### LinkLayer

The transmitter (`tpc`, `tseq`, `tatt`, `ttimer`, `written`) and the receiver (`rpc`, `rseq`, `ratt`,
`rtimer`, `rerrno`, `rauto`, `delivered`) are program counters over the calls: `open`, `write`,
`close` at one end, `open`, `read`, `close` (wait for DISC) and `ua` (wait for UA) at the other, with
`ready` between calls and `ok`/`fail` at the end; `lost` is a receiver whose `llclose` failed after it
had answered the transmitter's DISC. A call that fails ends its process, as `application()` does. An action is what a process does between two waits in `read()`:

* `TxOpen`, `TxCallWrite`, `TxCallClose`: a call begins: number flipped, timer armed, first frame sent;
* `TxOpened`, `TxAcked`, `TxDisc`: the answer arrives and the call returns;
* `TxRefuse`, `TxTimeout`: another answer, or the alarm, costs an attempt: the frame is sent again, or
  the call fails after the last attempt (`TxAttempt`);
* `TxSkip`: a frame the automaton does not recognise; `TxAlarmMissed`: see below;
* `RxOpen`, `RxCallRead`, `RxCallClose`, `RxOpened`, `RxDeliver`, `RxDisc`, `RxClosed`: likewise at the receiver;
* `RxDamaged`: a wrong BCC2; `RxResendRR`: a duplicate is answered with `ll_send_RR_resend`;
  `RxSet` and `RxStopped`: a retransmitted SET and the automaton that cannot leave `LL_I_STOP_UA`;
  `RxDiscAgain`: a retransmitted DISC; `RxTimeout`, `RxSkip`, `RxAlarmMissed`;
* `TxResendRR`: a REJ whose header noise has turned into that of an I-frame, which the S automaton
  makes the transmitter answer with an RR;
* `TxQuit`, `RxQuit`: the application fails between two calls, and its process ends;
* `LoseTr`, `LoseRt`, `DamageTr`, `DamageRt`: the line (and `GEN_FRAME_ERROR`).

`SOutcome`, `UOutcome` and `IOutcome` (in `LinkFrames`) are what the three automata make of a whole
frame, and `Damaged` is what noise may make of it.

What is abstracted, and why it is sound for the properties stated:

* Frames are sent and received whole, and noise loses a frame or makes one of `Damaged(f)` of it. That
  is what the run of `Reception` shows of the bytes (below), with four exceptions, which `LinkLayer`
  leaves out: noise that makes a FLAG in the middle of a frame, a cut payload whose last byte happens to
  be the exclusive or of the others, a payload with the header of an I-frame in it when the frame's own
  header is broken, and noise in several bits that the checksums do not see. In the first three `llread`
  accepts a part of a payload sent at worst, as is proved (`NoiseOnlyCuts`). A
  `write()` that the alarm cuts short is such a fault followed by `TxTimeout`.
* The alarm may come at any moment while the timer is armed, before or after the answer is on the line:
  timeouts are early, late or right, with no clock. `MissedAlarms` says whether it may also come while
  the process is not in `read()`, in which case it has no effect at all.
* Failures of `open()` and `tcsetattr()` and a line that duplicates or reorders are not modelled. `write()`
  has no failure of its own either, but most of what one causes is there: for SET, DISC, an I-frame and the
  UA of `llclose` it is a lost frame, followed by `TxTimeout` where the call takes another attempt. A
  failed UA of `llopen`, RR or REJ makes the receiver's call return -1, which ends it as `RxKilled` of
  `Sessions` does.

### Framing and Reception

A byte is the set of its bits, so that the exclusive or is a symmetric difference and nothing is
computed bit by bit; `BCC` is the closed form of the loop of `ll_bcc`, the bits that an odd number of the
bytes have. `Framing` builds frames (`Supervisory`, `Information`, `Stuffed`) and takes
them apart (`SGoto`, `UGoto`, `IGoto` are the transitions of the three automata, `Destuffed` and `Valid`
what `ll_expect_Iframe` does with the data).

In `Reception` one end sends frames of its own, intact (`Send`), with one bit flipped anywhere
(`SendNoisy`) or cut anywhere (`SendCut`); the other end reads them byte by byte in one of the three
automata (`Read`, and `ReadStopped` for the byte after `LL_I_STOP_UA`). Its sequence number stays the
same: `got` collects what each call would have told its caller. Payloads are not empty, as every packet
of the application has a control byte. `whole` and `heard` are ghosts: the frames sent since the
last one that noise has hit, and what the caller has seen since. `CanMeet` leaves out frames that
`LinkLayer` shows an automaton does not meet (a DISC in `llread`, for example).

`NoiseIsOneFault` says that `got` is what `LinkFrames` says of the frames sent, but for at most as many
lost or `Damaged` frames as there were faults; in particular a broken frame that runs into the next one
costs it only if it passes for a whole frame itself. It is about one fault, as two flipped bits may cancel out in a
checksum, and two broken frames make up a third one. It excepts a FLAG that noise makes in the middle of a
frame, and payloads that are not `Innocent`: a beginning of the payload may end in its own checksum, and, as the I
automaton starts at an address byte with no FLAG before it, bytes of the payload that look like the header of an I-frame
are one when the real header has been broken. A file may hold either.

`NoiseOnlyCuts` is about one fault with no exception: what `llread` accepts is the payload of a frame sent, or a
part of it. The part is a beginning, or what is behind a header in the payload, and then only if the bytes up to
there cancel out, so that the BCC2 is still right (`PartOf`). No bit of it is wrong, and nothing of two frames is mixed.

`WholeIsSeen` is about any number of faults: noise costs the frames it hits and the next one at most, and of
the frames after that the caller sees what `LinkFrames` says, as of all frames before the first fault. The
next one is lost where its first FLAG ends what is left of the broken one: the S and U automata want a FLAG of
its own in front of each address. Unlike `NoiseIsOneFault` it asks nothing of the
payloads.

### AppTransfer

The link layer's calls are the steps of `PacketTransfer`, which this module instantiates on its own
variables. The transmitter reads the file and hands packets over (`TxSendStart`, `TxSendData`,
`TxSendEnd`, each when the one before was acknowledged, `TxWritten`), then closes (`TxClosed`). The
receiver takes START, data packets until it has as many bytes as announced, and END (`RxStart`,
`RxData`, `RxEnd`), then closes (`RxClose`, `RxClosed`); what it does not expect makes it quit without
`llclose` (`RxQuit`), which is `RxQuit` of `LinkLayer` and `ReaderFails` of `PacketTransfer`. `TxFails`
and `RxFails` are calls that fail, and `FileChange` is another process writing to the file while it is
sent. A byte of the file is its position, so that a byte lost, repeated or out of place shows; sizes
wrap at `SizeModulus` (2^32) and packet numbers at `SeqModulus` (255), at the transmitter only. File
names, the encoding of sizes as octets, and `fwrite()` errors, which the code ignores, are left out.

### Program

At each end a command line (`given`) is read option by option (`read`, `ParseOption`). As in the code, each
option goes into the configuration at once (`tsize`, `rsize`, and `conf` for `-b`, `-r`, `-t`) and only the
verdict (`res`) tells at the end whether anything is done: `Usage`, or `Run` and then the steps of
`AppTransfer`. `Connected` is what `llopen` needs: both programs running, at the same speed of the table of
`ll_get_baud_rate` but not 0, with at least one attempt. `trouble` chooses in the initial state between a
world where calls fail and the file changes, and one where a call fails only if it has no attempts, or if
nobody is there to answer it and an alarm interrupts its `read()` (`MayFail`). The alarm of such a call may also
come between `setitimer()` and `read()`, all the more likely the shorter the `-t`: then it is spent (`AlarmMissed`), and
the call waits for ever. In that world no timer expires while the two ends are connected, which is an
idealisation for a `-t` of microseconds.

An option is a name, a value and whether `sscanf` could read it. An option that does not steer the transfer
is `other`, and one that is unknown or lacks its value is an `other` that cannot be read: `getopt_long`
reports it. Values are natural numbers, as `sscanf` has converted them. `TransferAsAsked` says that `Program`
implements `AppTransfer` when its packet sizes are mapped to those asked for, by a definition of
what was asked for that does not go through the options one by one.

### Sessions

A process of either end is a session, numbered by `tsess` and `rsess`; a file goes from one session of the
transmitter to one of the receiver. Between sessions the line keeps what is on it, and everything else starts
afresh (`TxFresh`, `RxFresh`). Sessions are started by the two drivers of `stats/`, for the next line of
their files if the status was 0 (`TxDriver`, `RxDriver`), or by users, after any end (`TxStartedAgain`,
`RxStartedAgain`); `TxKilled` and `RxKilled` end a process at any point. `origin`, `sources` and
`received` are ghosts that say which session a frame, and the packets of a file, came from.

`OneSource` and `SuccessIsReceived` have a condition: no user has started a transmitter while a receiver
still had frames of the one before to read (`quiet`). Without it both are false, and not only in the model:
a receiver that is started again while the transmitter is still in `llopen` takes a retransmitted SET for
its session's, and its UA stays on the way; if the transmitter dies and another is started, that UA opens
the second one's connection without its SET having been read, and the file gets packets of both. No text of the repository promises more, so this is not
listed as a finding.
Also false, with a receiver started again, is `AckedIsDelivered`: the new `llopen` answers I-frames with
RR while it waits for SET (`ll_expect_Sframe`). What remains true is that the closing handshake fails.

### LinkLayerTimed

The clock ticks only when both ends wait, nothing is on the line and no timer has expired (`Quiet`): the
line and the machines are fast compared with the timeout, and an alarm means that no answer is coming. Both
ends have the same timeout, as the drivers give them, and start at most `Skew` apart. `Faulty` says what the
line does. The statistics are those of the transmitter, which alone are read: a step adds to `frames` as
many as it puts on the line, `Errors` and `Timeouts` are the places where `ADD_FRAME_ERROR` and
`ADD_FRAME_TIMEOUT` are, and `elapsed` is the time between `TIC()` and `TOC()`.

`SurvivesFaults` is where the two retransmission loops meet. One would expect a transfer to survive as many
faults as a call has attempts but one. The run shows what holds: a *lost* frame costs one attempt, a *damaged*
one up to two of the receiver's, because after a timeout `llread` no longer refuses damaged frames
(`src/ll.c:244`): the frame ends one attempt, and the transmitter's silence until its own timeout the next.
The receiver then gives up first. Faults on the three answers that are sent once (`Vital`) are excepted:
there the findings below apply.

## 3. Runs

| Run | Instance | Shows |
|---|---|---|
| `link_safety` | 4 packets, 3 attempts, 2 faults, missed alarms | types, `DeliveredInOrder`, `AckedIsDelivered`, `NoFalseAck`, `PhasesAgree`, the inductive invariant `LinkInv`; only REJ makes `llwrite` retransmit early (`OnlyRejected`); `LinkLayer` implements `PacketTransfer` |
| `sessions` | 2 packets, 2 attempts, 1 fault, 2 sessions of each end, 2 kills, drivers or users | a file has packets of one session (`OneSource`), success means received (`SuccessIsReceived`), the drivers stay in step (`InStep`); types, and the inductive invariant `SessionsInv`; if no alarm is missed, every transmitter call returns, with fairness of the transmitter only (`TxReturns`), and the receiver reaches `llclose` or fails, with fairness of the receiver only (`RxReturns`), in every session |
| `reception` | 3 frames, 2 payloads with FLAG, ESC, control codes and the header of an I-frame in them, 1 fault | types, `NoiseIsOneFault`, `NoiseOnlyCuts`, `WholeIsSeen`: see above; the inductive invariants `ReceptionInv` and `NoiseInv` |
| `programs` | 14 and 6 command lines, files of 0 to 9 bytes, packet sizes 0 to 3 and one too large, numbers modulo 3, sizes modulo 9, with trouble and without | the receiver writes a beginning of what was read (`OutputIsPrefix`), accepts only all of it (`AcceptedIsComplete`), and the transmitter never succeeds alone (`SuccessIsShared`); types, and the inductive invariants `AppInv` and `ArgsInv`; the transfer is the one asked for (`TransferAsAsked`); without trouble a file that fits is copied (`FileIsCopied`) and each program with a timer ends whatever the two were asked, unless the alarm of a call that nobody answers is missed, which excuses that program only (`BothExit`) |
| `timed` | 2 packets, 6 attempts, 3 faults of any kind, starts up to 1.5 timeouts apart | few faults do not end a transfer (`SurvivesFaults`); types, `TimeIsTimeouts`, `FramesAddUp`, `CountsAreFaults`, and the inductive invariant `TimedInv` |
| `claim_number_modulo` | | refutes: packet numbers are taken modulo 255 |
| `claim_rr_number` | | refutes: an RR answers N_s = s with N_r = 1 - s |
| `claim_set_answered` | | refutes: a retransmitted SET is answered with UA |
| `claim_disc_again` | | refutes: a retransmitted DISC is handled |
| `claim_damaged_rejected` | | refutes: a damaged I-frame is answered with REJ |
| `claim_timeouts` | 1 packet, 1 damaged payload | refutes: there are no timeouts when only I-frames are damaged |
| `claim_unanswered` | | refutes: an unanswered call ends, when alarms may be missed |

Bounds. With one sequence bit, whatever could go wrong involves three consecutive packets: four let every
pair of packets with the same bit be in flight together were that possible. Three attempts (the
program's default) put three copies of a frame on the line; two faults lose a frame and its answer.
In `reception` three frames let a broken frame stand
between two good ones, and the fault may be any bit or any cut of any of them; one fault is also what
`NoiseIsOneFault` and `NoiseOnlyCuts` are about, while `WholeIsSeen` is proved for any number of them. In `programs`
numbers wrap at 3 and sizes at 9, so that the files go past both bounds; the command lines have every setting at its
edges, options given twice, and bad options before good ones. In `sessions` two kills let each end die once,
or one end in each of its sessions, which leaves frames of an old session under every call of a new one; the
same properties hold with 3 sessions (1.5 million states). In `timed` six attempts leave room for three
faults and a late start on both sides of what `SurvivesFaults` allows.
No state constraint is used: the attempts bound the channels, `MaxFaults` the faults, `MaxFrames` the
frames, the file size the packets, `Lines` the sessions, `MaxKills` the kills, `Skew` the wait for the other end. Deadlock is not checked, as the system ends (`ok`, `fail`), and as the
receiver's `llclose` has no timer.

Fairness. `TxRuns` and `RxRuns` say that a process that can run does (the kernel schedules it, and
delivers an armed alarm). `TxReturns` and `RxReturns` each assume that of their own end and nothing of
the line or the other end: they hold for a peer that crashed, was never started, or was started again. They
also assume that every alarm finds its process in `read()` (`MissedAlarms = FALSE` in `Sessions.cfg`), which the code does
not ensure: `claim_unanswered` shows what happens otherwise.
`ProgramSpec` assumes that both programs run, and that the link layer's calls return when somebody answers,
or when a timer is armed and its alarm is not missed: those of the transmitter do, by `TxReturns`, as does `llread`, and in
a world without trouble nothing keeps the receiver's `llclose` from returning. `AlarmMissed` is left out of the fairness: it
may happen to each end, or not. `TimedSpec` assumes that the processes run and time
passes, and not that the line does anything.

## 4. Proofs

Every safety property of the runs that pass is a theorem for all values of the constants, except
`NoiseIsOneFault`. The assumptions are the named `...Assumption` of each module, which
bound nothing: numbers are natural, tables have entries of their type. Two of them say a little more.
`ProgramAssumption` has `LinkFails`, as `Program` decides itself whether a call may fail; `SessionsAssumption`
has N > 0, as the application always sends START and END.

| Module | Theorems |
|---|---|
| `Framing_proofs` | `DestuffingUndoesStuffing`, `OneBitIsSeen` |
| `Reception_proofs` | `ReceptionInv`, `TypeOK`, `WholeIsSeen` |
| `ReceptionNoise_proofs` | `NoiseInv`, `NoiseOnlyCuts`, `QuietIsExact` |
| `LinkLayer_proofs` | `LinkInv`, `TypeOK`, `DeliveredInOrder`, `AckedIsDelivered`, `NoFalseAck`, `PhasesAgree`, `OnlyRejected`, `ImplementsTransfer` |
| `LinkLayerTimed_proofs` | `TimedInv`, `TimedTypeOK`, `TimeIsTimeouts`, `FramesAddUp`, `CountsAreFaults` |
| `Sessions_proofs` | `SessionsInv`, `SessionsTypeOK`, `OneSource`, `SuccessIsReceived`, `InStep` |
| `AppTransfer_proofs` | `AppInv`, `TypeOK`, `OutputIsPrefix`, `AcceptedIsComplete`, `SuccessIsShared` |
| `Program_proofs` | `ArgsInv`, `ProgramTypeOK`, `OutputIsPrefix`, `AcceptedIsComplete`, `SuccessIsShared`, `TransferAsAsked` |

None of the properties is inductive by itself; the inductive invariant of each module is checked by its run
and has a module of its own, and the proof shows it of the initial states and of each action.

**Bytes.** `DestuffingUndoesStuffing` says that `ll_destuffing` undoes `ll_stuffing`, for data of any
length and whatever lies behind them in memory. What is to be shown by induction, here and for `FlattenSeq` and
`BCC`, is stated as membership in a set, and follows from the least number that is not in it (`LeastNumber`,
`UpTo`, `ByAppending`); that the recursive functions have their defining equations is shown in the same way.
`ReceptionInv` says what an automaton is after k bytes of a frame (`InFrame`), for each of them and each frame
it can meet: the rest of the frame leads it to what `LinkFrames` says. An automaton that noise has left in any
state at all can only do what `AutomatonInv` says, and comes to rest with the last FLAG of the next whole frame,
which has none between its first and its last byte (`NoFlagIsStuffed`): that is the step from one fault to any number.

**One fault.** `NoiseOnlyCuts` speaks of what has been accepted; `NoiseInv`, its inductive invariant, of what
still may be. Data are `Accounted` for when `llread`, given a FLAG behind them, refuses them or accepts a payload sent or
a part of it. Once a frame has been hit, either its header is still to come whole (`HeaderComes`), with accounted
data behind it; or, wherever the automaton is, all data that it may come to are accounted for (`DataComes`): those it is
reading, and those behind each header in the bytes to come. The three bytes of a header may start anywhere in the data,
and also in BCC1, of which two bytes then are data (`OverlapAccounted`). `DataComes` is kept by any byte whatsoever
(`ComesOn`), so that what is left is to show it once, of a frame that has just been hit: in its header
(`HeaderHit`), in its data or last FLAG (`DataHit`), or cut (`DataCut`); and of the whole frame that follows (`WholeComes`).
These rest on what the checksum sees, in lemmas about the operators of `Framing` for data of any length.
`OneBitIsSeen`: of stuffed data with one bit flipped, what passes the BCC2 is the payload all the same, which
happens when the BCC2 itself was hit and became an ESC, and the byte behind the data in memory is right by chance.
`CutIsBeginning`: of cut data, what passes is a beginning of the payload, although the cut may fall between an ESC
and the byte after it. `LastFlagIsSeen`: data to which the broken last FLAG was added never pass.
`InnerHeader` and `BehindHeader`: a header in the stuffed data is one in the payload, since none of its bytes is an ESC or
is made by stuffing, and what passes behind it is the end of the payload, the bytes before which cancel out.
`BehindTwo`: behind a header that starts in BCC1 nothing passes. `NoiseInv` says nothing of a second fault, which may
correct the checksum of the first.

**The protocol.** `LinkInv` adds what is on the line: every intact I-frame
carries the last packet delivered or the one being written (`DataInv`), older copies ahead of newer;
every RR acknowledges the last packet delivered or the one before (`AckInv`), again older ahead of newer;
and the bits of both ends follow their counts (`SeqInv`). So the bit distinguishes the only two packets it
has to. `AckInv` is stated only until the last packet is delivered: after that the receiver is in
`llclose`, where `ll_send_RR_resend` sends the wrong number, harmlessly for safety since no packet is left
to acknowledge. `AnswerInv` says of that time which answers can still be on the line, whence
`OnlyRejected`. `OpenInv` and `CloseInv` say which supervisory frames may be on the line.
The proof first tabulates what a step does to each end (`TxMoves`, `RxMoves`) and to each channel
(`LineToReceiver`, `LineToTransmitter`), one case per action; each part of the invariant follows from
those tables. `TransferImplemented` says that every behaviour of `LinkLayer`, seen through `written`,
`delivered` and the two program counters, is one of `PacketTransfer`.

**The statistics.** `TimedInv` extends `LinkInv` to what the transmitter has counted at any moment. All of its
time is in timers that have expired and the one that runs (`ClockInv`); once a part of a wait has passed nothing
but the timer can end it (`QuietInv`); and each timeout and error has cost one frame (`CountInv`). `CountsAreFaults`
needs to know where each of them came from (`LossInv`): each error from a damaged frame, which is marked from the
moment it is damaged to the moment it, or the REJ it caused, is counted (`ErrorInv`); each timeout from a frame
that was lost or flushed, as otherwise the frame waited for or its answer is still on its way (`TimeoutInv`). A transfer
that nobody will answer any more counts timeouts without end: it is `Doomed` to fail, and the property is about those that succeed.

**Sessions.** Frames do not name their session. With users (`UsersInv`), whatever is on its way to a receiver
past `llopen` is of the transmitter's present session, or else that session gets no UA. With drivers
(`DriversInv`) the two ends are at the same line as if there had been none before, which is where `LinkInv` holds again,
or one of them is a line ahead in one of the ways the closing handshake leaves open: the transmitter, while the receiver waits
for its UA; the receiver, when the transmitter is about to follow; or behind one that has failed.
`DiscInv` is why success means received: a receiver answers DISC only when it has everything. The attempt to
prove it showed a step that the model lacked, the DISC of an old session that meets a new `llopen`,
which is now `TxDiscAgain`.

**The application.** `AppInv` says that the two ends are at most one packet apart (`LinkStepInv`), that nothing but START
precedes START (`StartInv`), that what the receiver has written and the packet it has not read yet make
up what the transmitter has read (`DataInv`), and that nothing follows END (`EndInv`). `ArgsInv` says that, while no
option has been bad, packets have the size of the last `-s` that has been read, and that `application()` is reached
only with all options read and accepted. `TransferAsAsked` follows: each step of `Program` is one of
`AppTransfer` with the sizes asked for, or changes none of its variables. The sizes asked for are defined from
the whole command line and are shown to be those that reading it option by option arrives at.

Links between the layers that are arguments on paper, not theorems: `AppTransfer` allows the link
layer every step of `PacketTransfer`, which `LinkLayer` is proved to implement; and `WholeIsSeen` is, frame by
frame, what `LinkLayer` assumes of the automata.

Only model-checked: the liveness properties (`SurvivesFaults`, `TxReturns`, `RxReturns`, `FileIsCopied`, `BothExit`),
as the prover has no rules for fairness; and `NoiseIsOneFault`. Without a fault it is a theorem (`QuietIsExact`,
for payloads of any kind). For one fault, what it adds to `WholeIsSeen` and `NoiseOnlyCuts` is that the broken frame and the
next one, together, are seen as one of them lost or damaged: that is not proved. It would take an invariant that
says, for each automaton, in which states each kind of broken frame can leave it, and the proof has not been written.

## 5. Where the documents and the code differ

Besides the findings of section 3, which runs show:

* `-t` is in microseconds (`src/app_args.c:57`), the README and the report (`README.md:59`,
  `doc/report/report.tex:268`) say seconds; a timeout of 0 disarms the timer (`BothExit` excepts it);
* a frame is sent `retransmissions` times in all, and not as often again after the first time
  (`report.tex:269`); with 0 every call fails at once;
* the long form of `-T` is `--dtau` (`src/app_args.c:24`), and not `--tau` (`README.md:60`);
* the error rate is N_e/(N - N_t) in the report (`report.tex:540`) and N_e/N in
  `stats/stats_transmitter.c:184`. By `FramesAddUp` the first is N_e per frame that was answered.

## 6. Not modelled yet, and the plan

1. Proofs: that one fault costs a single frame (`NoiseIsOneFault`), from `ReceptionInv`, `NoiseInv` and the states
   that each kind of broken frame leaves an automaton in; and the composition of `LinkLayer` and
   `AppTransfer` as a theorem.
2. Failures of `write()` and `tcsetattr()` in the link layer that are no lost frame: an attempt that fails
   without a wait (`ll.c:182`), and the RR for a duplicate, whose failure makes `llread` send REJ.

Not planned: the file of settings and the arithmetic of the measurement drivers, the counters of bytes, file
names, the layout of buffers and their capacity, and the device named by COM.
