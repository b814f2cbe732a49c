---------------------------- MODULE AppTransfer ----------------------------
(***************************************************************************)
(* The application (src/app.c) at both ends: a file is announced in a      *)
(* START packet, sent in numbered data packets, and confirmed in an END    *)
(* packet.  Below it is not the link layer but what that promises: every   *)
(* call of llwrite, llread and llclose is a step of PacketTransfer, which  *)
(* LinkLayer implements.                                                   *)
(*                                                                         *)
(* The file is bytes 1..fsize, a byte being its position.  File names are  *)
(* left out: START and END carry the same one.  Operators named Mut... are *)
(* for the mutation runs only, as in LinkLayer.                            *)
(***************************************************************************)
EXTENDS Naturals, Sequences

CONSTANTS
    FileSizes,      \* sizes the file may have
    PacketSizes,    \* values of the option -s, at either end
    SeqModulus,     \* of the sequence numbers sent: 255
    SizeModulus,    \* of the sizes announced and counted, uint32_t: 2^32
    LinkFails,      \* may a call of the link layer or of stdio fail?
    FileChanges     \* may the file grow or shrink while it is read?

ASSUME AppAssumption ==
    /\ FileSizes \subseteq Nat
    /\ PacketSizes \subseteq Nat
    /\ SeqModulus \in Nat \ {0}
    /\ SizeModulus \in Nat \ {0}
    /\ LinkFails \in BOOLEAN
    /\ FileChanges \in BOOLEAN

VARIABLES
    acked, received, writer, reader,    \* the link layer: see PacketTransfer
    packets,    \* the packets handed to llwrite
    tapp,       \* transmitter: the part of app_send_file it is in
    tsize,      \* transmitter: app_config.packet_size
    fsize,      \* the file's size, at this moment
    announced,  \* transmitter: file_size
    offset,     \* transmitter: bytes read from the file
    tnum,       \* transmitter: seq_number
    rapp,       \* receiver: the part of app_receive_file it is in
    rsize,      \* receiver: app_config.packet_size
    expected,   \* receiver: file_size
    rnum,       \* receiver: seq_number
    out         \* receiver: the bytes written to its file

link   == <<acked, received, writer, reader>>
txVars == <<packets, tapp, tsize, fsize, announced, offset, tnum>>
rxVars == <<rapp, rsize, expected, rnum, out>>
vars   == <<acked, received, writer, reader,
            packets, tapp, tsize, fsize, announced, offset, tnum,
            rapp, rsize, expected, rnum, out>>

Link == INSTANCE PacketTransfer

(* A control packet has the size announced, a data packet its number and the *)
(* len bytes of the file that follow offset from.                            *)
Packets == [ctrl : {"START", "DATA", "END"}, size : Nat, num : Nat, from : Nat, len : Nat]

ControlPacket(ctrl, size) ==
    [ctrl |-> ctrl, size |-> size, num |-> 0, from |-> 0, len |-> 0]
DataPacket(num, from, len) ==
    [ctrl |-> "DATA", size |-> 0, num |-> num, from |-> from, len |-> len]

\* The whole buffer is written, also when the last chunk does not fill it.
MutBytes(p) == [i \in 1..rsize |-> p.from + i]

Bytes(p) == [i \in 1..p.len |-> p.from + i]

Init ==
    /\ Link!Init
    /\ packets = <<>> /\ tapp = "start" /\ announced = 0 /\ offset = 0 /\ tnum = 0
    /\ rapp = "start" /\ expected = 0 /\ rnum = 0 /\ out = <<>>
    /\ fsize \in FileSizes /\ tsize \in PacketSizes /\ rsize \in PacketSizes

-----------------------------------------------------------------------------
(* Transmitter *)

\* The next llwrite does not wait for the one before to be acknowledged.
MutTxFree == writer = "busy"

\* No llwrite is in progress, and the one before succeeded.
TxFree == writer = "busy" /\ acked = Len(packets)

TxWrite(p) == packets' = Append(packets, p) /\ UNCHANGED link

\* The file is opened, and START announces what fits 32 bits of its size.
TxSendStart ==
    /\ tapp = "start" /\ TxFree
    /\ tapp' = "data"
    /\ announced' = fsize % SizeModulus
    /\ TxWrite(ControlPacket("START", fsize % SizeModulus))
    /\ UNCHANGED <<tsize, fsize, offset, tnum, rxVars>>

\* Numbers go on for ever.
MutNextNum(n) == n + 1

NextNum(n) == (n + 1) % SeqModulus

\* What fread returns: as many bytes as a packet takes, or as are left.
Left  == IF fsize > offset THEN fsize - offset ELSE 0
Chunk == IF Left < tsize THEN Left ELSE tsize

TxSendData ==
    /\ tapp = "data" /\ TxFree /\ Chunk > 0
    /\ TxWrite(DataPacket(tnum, offset, Chunk))
    /\ offset' = offset + Chunk
    /\ tnum' = NextNum(tnum)
    /\ UNCHANGED <<tapp, tsize, fsize, announced, rxVars>>

\* END repeats what START announced, and not what has been sent.
TxSendEnd ==
    /\ tapp = "data" /\ TxFree /\ Chunk = 0
    /\ tapp' = "end"
    /\ TxWrite(ControlPacket("END", announced))
    /\ UNCHANGED <<tsize, fsize, announced, offset, tnum, rxVars>>

\* llwrite returns.
TxWritten ==
    /\ Len(packets) = acked + 1
    /\ Link!Acknowledge
    /\ UNCHANGED <<txVars, rxVars>>

\* llclose is called, and returns.
TxClosed ==
    /\ tapp = "end" /\ TxFree
    /\ Link!WriterDone
    /\ UNCHANGED <<txVars, rxVars>>

\* A call fails: the program ends with an error.
TxFails ==
    /\ LinkFails
    /\ Link!WriterFails
    /\ UNCHANGED <<txVars, rxVars>>

\* Somebody else writes to the file, or truncates it.
FileChange ==
    /\ FileChanges
    /\ fsize' \in FileSizes \ {fsize}
    /\ UNCHANGED <<link, packets, tapp, tsize, announced, offset, tnum, rxVars>>

-----------------------------------------------------------------------------
(* Receiver *)

Incoming == packets[acked + 1]

\* llread returns the packet that is being written.
RxRead ==
    /\ Len(packets) = acked + 1
    /\ Link!Deliver
    /\ UNCHANGED <<txVars, rsize>>

\* The loop goes on when it has everything.
MutRxLoop(size, bytes) ==
    IF size >= Len(bytes) % SizeModulus THEN "data" ELSE "end"

\* The loop of app_receive_file: while(file_size > data_bytes_read).
RxLoop(size, bytes) == IF size > Len(bytes) % SizeModulus THEN "data" ELSE "end"

\* START is read, and the output file is created.
RxStart ==
    /\ rapp = "start" /\ RxRead
    /\ IF Incoming.ctrl = "START"
       THEN \/ rapp' = RxLoop(Incoming.size, out) /\ expected' = Incoming.size
            \/ LinkFails /\ rapp' = "quit" /\ UNCHANGED expected
       ELSE rapp' = "quit" /\ UNCHANGED expected
    /\ UNCHANGED <<rnum, out>>

\* app_rcv_data_packet.  A packet larger than the receiver's packets has
\* overrun its buffer, so that the program may end here or with the error
\* that follows.
RxAccepts(p) == p.ctrl = "DATA" /\ p.num = rnum /\ p.len <= rsize

\* A data packet is read, and its bytes are written to the file.
RxData ==
    /\ rapp = "data" /\ RxRead
    /\ IF RxAccepts(Incoming)
       THEN /\ out' = out \o Bytes(Incoming)
            /\ rnum' = rnum + 1
            /\ rapp' = RxLoop(expected, out')
       ELSE rapp' = "quit" /\ UNCHANGED <<rnum, out>>
    /\ UNCHANGED expected

\* Whatever comes after the last byte is taken for END.
MutRxEnd ==
    /\ rapp = "end" /\ RxRead
    /\ rapp' = "close"
    /\ UNCHANGED <<expected, rnum, out>>

\* END is read.  It must repeat what START said.
RxEnd ==
    /\ rapp = "end" /\ RxRead
    /\ rapp' = IF Incoming.ctrl = "END" /\ Incoming.size = expected
               THEN "close" ELSE "quit"
    /\ UNCHANGED <<expected, rnum, out>>

\* llclose is called: it answers the transmitter's DISC.
RxClose ==
    /\ rapp = "close"
    /\ Link!ReaderCloses
    /\ UNCHANGED <<txVars, rxVars>>

\* llclose returns.
RxClosed ==
    /\ Link!ReaderDone /\ (LinkFails \/ reader' = "ok")
    /\ UNCHANGED <<txVars, rxVars>>

\* The program closes the connection also after an error.
MutRxQuit ==
    /\ rapp = "quit"
    /\ Link!ReaderCloses
    /\ UNCHANGED <<txVars, rxVars>>

\* app_receive_file returned an error: the program ends, with no llclose.
RxQuit ==
    /\ rapp = "quit"
    /\ Link!ReaderFails
    /\ UNCHANGED <<txVars, rxVars>>

\* A call fails: the program ends with an error.
RxFails ==
    /\ LinkFails
    /\ Link!ReaderFails
    /\ UNCHANGED <<txVars, rxVars>>

-----------------------------------------------------------------------------
TxNext == TxSendStart \/ TxSendData \/ TxSendEnd \/ TxWritten \/ TxClosed \/ TxFails
RxNext == RxStart \/ RxData \/ RxEnd \/ RxClose \/ RxClosed \/ RxQuit \/ RxFails
Next   == TxNext \/ RxNext \/ FileChange

Spec == Init /\ [][Next]_vars

-----------------------------------------------------------------------------
(* Properties *)

\* Every variable has its type.
TypeOK ==
    /\ acked \in Nat /\ received \in Seq(Nat)
    /\ writer \in {"busy", "ok", "fail"}
    /\ reader \in {"busy", "closing", "ok", "lost", "fail"}
    /\ packets \in Seq(Packets)
    /\ tapp \in {"start", "data", "end"}
    /\ tsize \in PacketSizes /\ fsize \in FileSizes /\ announced \in Nat
    /\ offset \in Nat /\ tnum \in 0..(SeqModulus - 1)
    /\ rapp \in {"start", "data", "end", "close", "quit"}
    /\ rsize \in PacketSizes /\ expected \in Nat /\ rnum \in Nat
    /\ out \in Seq(Nat)

\* What the receiver has written is the beginning of what the transmitter has
\* read, byte by byte: no number is taken for another one, also when numbers
\* wrap around, packet sizes differ, or the file changes.
OutputIsPrefix ==
    /\ Len(out) <= offset
    /\ \A i \in 1..Len(out) : out[i] = i

\* The receiver's application closes the connection, and so succeeds, only with
\* every byte the transmitter has read: an END, or a 32-bit size, that comes
\* too early is not taken for the end of the file.
AcceptedIsComplete == rapp = "close" => tapp = "end" /\ Len(out) = offset

\* When the transmitter's program succeeds, the receiver has accepted the file:
\* no error of app_receive_file goes unnoticed at the other end, although the
\* packets it stumbles on have been acknowledged.
SuccessIsShared == writer = "ok" => rapp = "close"

=============================================================================
