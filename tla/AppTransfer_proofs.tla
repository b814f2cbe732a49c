------------------------ MODULE AppTransfer_proofs ------------------------
(***************************************************************************)
(* The safety of AppTransfer, for files, packets and moduli of any size.   *)
(***************************************************************************)
EXTENDS AppTransferInv, SequenceTheorems, TLAPS

-----------------------------------------------------------------------------
(* Types *)

LEMMA PacketsTyped ==
    /\ \A n \in Nat : /\ ControlPacket("START", n) \in Packets
                      /\ ControlPacket("END", n) \in Packets
    /\ \A n, f, l \in Nat : DataPacket(n, f, l) \in Packets
BY DEF ControlPacket, DataPacket, Packets

LEMMA BytesTyped ==
    ASSUME NEW p \in Packets
    PROVE  /\ Bytes(p) \in Seq(Nat) /\ Len(Bytes(p)) = p.len
           /\ \A i \in 1..p.len : Bytes(p)[i] = p.from + i
BY DEF Bytes, Packets

\* A chunk is what fits and what is left.
LEMMA ChunkTyped ==
    ASSUME TypeOK
    PROVE  Chunk \in Nat
BY AppAssumption DEF TypeOK, Chunk, Left

LEMMA NumbersTyped ==
    /\ \A n \in Nat : n % SizeModulus \in Nat
    /\ \A n \in Nat : NextNum(n) \in 0..(SeqModulus - 1)
BY AppAssumption DEF NextNum

\* The steps of the link layer keep its types.
LEMMA LinkTyped ==
    ASSUME TypeOK,
           Link!Deliver \/ Link!Acknowledge \/ Link!ReaderCloses \/ Link!WriterDone
             \/ Link!ReaderDone \/ Link!WriterFails \/ Link!ReaderFails
    PROVE  /\ acked' \in Nat /\ received' \in Seq(Nat)
           /\ writer' \in {"busy", "ok", "fail"}
           /\ reader' \in {"busy", "closing", "ok", "lost", "fail"}
<1>1. /\ acked \in Nat /\ received \in Seq(Nat)
      /\ writer \in {"busy", "ok", "fail"}
      /\ reader \in {"busy", "closing", "ok", "lost", "fail"}
    BY DEF TypeOK
<1>2. CASE Link!Deliver
    BY <1>1, <1>2 DEF Link!Deliver
<1>3. CASE Link!Acknowledge
    BY <1>1, <1>3 DEF Link!Acknowledge
<1>4. CASE Link!ReaderCloses \/ Link!WriterDone \/ Link!ReaderDone
           \/ Link!WriterFails \/ Link!ReaderFails
    BY <1>1, <1>4 DEF Link!ReaderCloses, Link!WriterDone, Link!ReaderDone,
                      Link!WriterFails, Link!ReaderFails
<1> QED BY <1>2, <1>3, <1>4

LEMMA TypeInit == Init => TypeOK
BY AppAssumption DEF Init, Link!Init, TypeOK

LEMMA TxTypes ==
    ASSUME TypeOK, TxNext \/ FileChange
    PROVE  TypeOK'
<1>1. UNCHANGED rxVars /\ UNCHANGED tsize
    BY DEF TxNext, FileChange, TxSendStart, TxSendData, TxSendEnd, TxWritten,
           TxClosed, TxFails, txVars
<1>2. /\ rapp' = rapp /\ rsize' = rsize /\ expected' = expected
      /\ rnum' = rnum /\ out' = out /\ tsize' = tsize
    BY <1>1 DEF rxVars
<1>3. /\ packets \in Seq(Packets) /\ fsize \in FileSizes /\ fsize \in Nat
      /\ announced \in Nat /\ offset \in Nat /\ tnum \in 0..(SeqModulus - 1)
      /\ tnum \in Nat /\ tapp \in {"start", "data", "end"}
    BY AppAssumption DEF TypeOK
<1>4. CASE TxSendStart \/ TxSendData \/ TxSendEnd
    <2>1. /\ acked' = acked /\ received' = received
          /\ writer' = writer /\ reader' = reader
        BY <1>4 DEF TxSendStart, TxSendData, TxSendEnd, TxWrite, link
    <2>2. packets' \in Seq(Packets)
        <3>1. /\ ControlPacket("START", fsize % SizeModulus) \in Packets
              /\ ControlPacket("END", announced) \in Packets
              /\ DataPacket(tnum, offset, Chunk) \in Packets
            <4>1. fsize % SizeModulus \in Nat /\ Chunk \in Nat
                BY <1>3, ChunkTyped, NumbersTyped
            <4> QED BY <1>3, <4>1, PacketsTyped
        <3>2. \E p \in Packets : packets' = Append(packets, p)
            BY <1>4, <3>1 DEF TxSendStart, TxSendData, TxSendEnd, TxWrite
        <3> QED BY <1>3, <3>2
    <2>3. /\ fsize' \in FileSizes /\ announced' \in Nat
          /\ tapp' \in {"start", "data", "end"}
        BY <1>3, <1>4, NumbersTyped DEF TxSendStart, TxSendData, TxSendEnd
    <2>4. offset' \in Nat /\ tnum' \in 0..(SeqModulus - 1)
        <3>1. offset + Chunk \in Nat /\ NextNum(tnum) \in 0..(SeqModulus - 1)
            <4>1. offset \in Nat /\ tnum \in Nat /\ Chunk \in Nat
                BY <1>3, ChunkTyped
            <4> QED BY <4>1, NumbersTyped
        <3> QED BY <1>3, <1>4, <3>1 DEF TxSendStart, TxSendData, TxSendEnd
    <2> QED BY <1>2, <2>1, <2>2, <2>3, <2>4 DEF TypeOK
<1>5. CASE TxWritten \/ TxClosed \/ TxFails
    <2>1. UNCHANGED txVars
        BY <1>5 DEF TxWritten, TxClosed, TxFails
    <2> QED BY <1>2, <1>5, <2>1, LinkTyped
        DEF TxWritten, TxClosed, TxFails, txVars, TypeOK
<1>6. CASE FileChange
    BY <1>2, <1>6 DEF FileChange, link, TypeOK
<1> QED BY <1>4, <1>5, <1>6 DEF TxNext

LEMMA RxTypes ==
    ASSUME TypeOK, RxNext
    PROVE  TypeOK'
<1>1. UNCHANGED txVars /\ UNCHANGED rsize
    BY DEF RxNext, RxStart, RxData, RxEnd, RxClose, RxClosed, RxQuit, RxFails,
           RxRead, rxVars
<1>2. /\ packets' = packets /\ tapp' = tapp /\ tsize' = tsize /\ fsize' = fsize
      /\ announced' = announced /\ offset' = offset /\ tnum' = tnum /\ rsize' = rsize
    BY <1>1 DEF txVars
<1>3. /\ acked' \in Nat /\ received' \in Seq(Nat)
      /\ writer' \in {"busy", "ok", "fail"}
      /\ reader' \in {"busy", "closing", "ok", "lost", "fail"}
    BY LinkTyped DEF RxNext, RxStart, RxData, RxEnd, RxClose, RxClosed, RxQuit,
                     RxFails, RxRead
<1>4. /\ rapp \in {"start", "data", "end", "close", "quit"}
      /\ expected \in Nat /\ rnum \in Nat /\ out \in Seq(Nat)
      /\ packets \in Seq(Packets) /\ acked \in Nat
    BY DEF TypeOK
<1>5. \A n, s : RxLoop(n, s) \in {"data", "end"}
    BY DEF RxLoop
<1>6. RxRead => Incoming \in Packets
    BY <1>4, ElementOfSeq DEF RxRead, Incoming
<1>7. /\ rapp' \in {"start", "data", "end", "close", "quit"}
      /\ expected' \in Nat /\ rnum' \in Nat /\ out' \in Seq(Nat)
    <2>1. CASE RxStart
        BY <1>4, <1>5, <1>6, <2>1 DEF RxStart, Packets
    <2>2. CASE RxData
        <3>1. Incoming \in Packets
            BY <1>6, <2>2 DEF RxData
        <3>2. out \o Bytes(Incoming) \in Seq(Nat)
            BY <1>4, <3>1, BytesTyped, ConcatProperties
        <3>3. CASE RxAccepts(Incoming)
            <4>1. out' = out \o Bytes(Incoming) /\ rnum' = rnum + 1
                BY <2>2, <3>3 DEF RxData
            <4>2. rapp' \in {"data", "end"} /\ expected' = expected
                BY <1>5, <2>2, <3>3 DEF RxData
            <4> QED BY <1>4, <3>2, <4>1, <4>2
        <3>4. CASE ~RxAccepts(Incoming)
            BY <1>4, <2>2, <3>4 DEF RxData
        <3> QED BY <3>3, <3>4
    <2>3. CASE RxEnd
        BY <1>4, <2>3 DEF RxEnd
    <2>4. CASE RxClose \/ RxClosed \/ RxQuit \/ RxFails
        BY <1>4, <2>4 DEF RxClose, RxClosed, RxQuit, RxFails, rxVars
    <2> QED BY <2>1, <2>2, <2>3, <2>4 DEF RxNext
<1> QED BY <1>2, <1>3, <1>7 DEF TypeOK

LEMMA TypeNext ==
    ASSUME TypeOK, [Next]_vars
    PROVE  TypeOK'
<1>1. CASE UNCHANGED vars
    BY <1>1 DEF vars, TypeOK
<1> QED BY <1>1, TxTypes, RxTypes DEF Next

\* Every variable keeps its type.
THEOREM AppTypesHold == Spec => []TypeOK
<1> QED BY TypeInit, TypeNext, PTL DEF Spec

-----------------------------------------------------------------------------
(* The inductive invariant *)

LEMMA AppInit == Init => AppInv
<1>1. Init => LinkStepInv /\ StartInv /\ DataInv /\ EndInv /\ OutputIsPrefix
    BY DEF Init, Link!Init, LinkStepInv, StartInv, DataInv, EndInv,
           OutputIsPrefix, Delivered
<1> QED BY TypeInit, <1>1 DEF AppInv

\* What AppInv says beyond types, in every state and the next.
AppCore == LinkStepInv /\ StartInv /\ DataInv /\ EndInv /\ OutputIsPrefix

\* A packet is handed to llwrite when the one before has been delivered.
LEMMA WriteStep ==
    ASSUME AppInv, TxFree, NEW p \in Packets, TxWrite(p)
    PROVE  /\ Delivered' = Delivered /\ acked' = acked
           /\ acked = Delivered /\ Delivered = Len(packets)
           /\ Len(packets') = acked + 1 /\ InFlight' = p /\ packets' # <<>>
           /\ packets # <<>> => Len(packets) > 0
           /\ reader' = reader /\ writer' = writer /\ acked \in Nat
<1>1. /\ packets \in Seq(Packets) /\ received \in Seq(Nat) /\ acked \in Nat
      /\ packets' = Append(packets, p) /\ received' = received
      /\ acked' = acked /\ reader' = reader /\ writer' = writer
      /\ acked = Len(packets)
    BY DEF AppInv, TypeOK, TxFree, TxWrite, link
<1>2. acked = Delivered /\ Delivered' = Delivered
    BY <1>1 DEF AppInv, LinkStepInv, Delivered
<1>3. Len(packets') = Len(packets) + 1 /\ packets'[Len(packets')] = p
    BY <1>1
<1> QED BY <1>1, <1>2, <1>3 DEF InFlight

\* llread takes the packet that is on its way.
LEMMA ReadStep ==
    ASSUME AppInv, RxRead
    PROVE  /\ Incoming = InFlight /\ Incoming \in Packets
           /\ Delivered' = Delivered + 1 /\ Delivered = acked /\ acked' = acked
           /\ Len(packets) = acked + 1 /\ packets' = packets
           /\ reader = "busy" /\ reader' = reader /\ writer' = writer
           /\ tapp' = tapp /\ offset' = offset /\ acked \in Nat
<1>1. /\ packets \in Seq(Packets) /\ received \in Seq(Nat) /\ acked \in Nat
      /\ received' = Append(received, acked + 1) /\ Len(received) = acked
      /\ acked' = acked /\ writer' = writer /\ reader = "busy" /\ reader' = reader
      /\ Len(packets) = acked + 1
    BY DEF AppInv, TypeOK, RxRead, Link!Deliver
<1>2. packets' = packets /\ tapp' = tapp /\ offset' = offset
    BY DEF RxRead, txVars
<1>3. Incoming \in Packets
    BY <1>1, ElementOfSeq DEF Incoming
<1>4. Len(received') = Len(received) + 1
    BY <1>1
<1> QED BY <1>1, <1>2, <1>3, <1>4 DEF Incoming, InFlight, Delivered

LEMMA SendStart ==
    ASSUME AppInv, TxSendStart
    PROVE  AppCore'
<1> DEFINE p == ControlPacket("START", fsize % SizeModulus)
<1>1. p \in Packets /\ p.ctrl = "START"
    <2>1. fsize % SizeModulus \in Nat
        BY NumbersTyped, AppAssumption DEF AppInv, TypeOK
    <2> QED BY <2>1, PacketsTyped DEF ControlPacket
<1>2. /\ TxFree /\ TxWrite(p) /\ tapp = "start" /\ tapp' = "data"
      /\ offset' = offset /\ rapp' = rapp /\ out' = out
    BY DEF TxSendStart, rxVars
<1> HIDE DEF p
<1>3. /\ Delivered' = Delivered /\ acked' = acked /\ acked = Delivered
      /\ Delivered = Len(packets) /\ Len(packets') = acked + 1
      /\ InFlight' = p /\ packets' # <<>> /\ reader' = reader /\ writer' = writer
      /\ acked \in Nat
    BY <1>1, <1>2, WriteStep
<1>4. packets = <<>> /\ Len(packets) = 0 /\ offset = 0
    BY <1>2 DEF AppInv, LinkStepInv, StartInv
<1>5. rapp \notin {"data", "end", "close"}
    BY <1>2, <1>3, <1>4 DEF AppInv, DataInv, EndInv
<1>6. LinkStepInv' /\ EndInv'
    BY <1>2, <1>3, <1>5 DEF AppInv, LinkStepInv, EndInv
<1>7. StartInv' /\ DataInv'
    BY <1>1, <1>2, <1>3, <1>4, <1>5 DEF AppInv, StartInv, DataInv
<1>8. OutputIsPrefix'
    BY <1>2 DEF AppInv, OutputIsPrefix
<1> QED BY <1>6, <1>7, <1>8 DEF AppCore

LEMMA SendData ==
    ASSUME AppInv, TxSendData
    PROVE  AppCore'
<1> DEFINE p == DataPacket(tnum, offset, Chunk)
<1>1. /\ p \in Packets /\ p.ctrl = "DATA" /\ p.from = offset /\ p.len = Chunk
      /\ Chunk \in Nat /\ offset \in Nat /\ Len(out) \in Nat
    <2>1. tnum \in Nat /\ offset \in Nat /\ Len(out) \in Nat
        BY AppAssumption DEF AppInv, TypeOK
    <2>2. Chunk \in Nat
        BY ChunkTyped DEF AppInv
    <2> QED BY <2>1, <2>2, PacketsTyped DEF DataPacket
<1>2. /\ TxFree /\ TxWrite(p) /\ tapp = "data" /\ tapp' = "data"
      /\ offset' = offset + Chunk /\ rapp' = rapp /\ out' = out
    BY DEF TxSendData, rxVars
<1> HIDE DEF p
<1>3. /\ Delivered' = Delivered /\ acked' = acked /\ acked = Delivered
      /\ Delivered = Len(packets) /\ Len(packets') = acked + 1
      /\ InFlight' = p /\ packets' # <<>> /\ reader' = reader /\ writer' = writer
      /\ (packets # <<>> => Len(packets) > 0) /\ acked \in Nat
    BY <1>1, <1>2, WriteStep
<1>4. Delivered > 0 /\ rapp \notin {"start", "close"}
    BY <1>2, <1>3 DEF AppInv, LinkStepInv, StartInv, EndInv
<1>5. LinkStepInv' /\ EndInv' /\ StartInv'
    BY <1>2, <1>3, <1>4 DEF AppInv, LinkStepInv, EndInv, StartInv
<1>6. DataInv'
    BY <1>1, <1>2, <1>3, <1>4 DEF AppInv, DataInv
<1>7. OutputIsPrefix'
    BY <1>1, <1>2 DEF AppInv, OutputIsPrefix
<1> QED BY <1>5, <1>6, <1>7 DEF AppCore

LEMMA SendEnd ==
    ASSUME AppInv, TxSendEnd
    PROVE  AppCore'
<1> DEFINE p == ControlPacket("END", announced)
<1>1. p \in Packets /\ p.ctrl = "END"
    BY PacketsTyped DEF AppInv, TypeOK, ControlPacket
<1>2. /\ TxFree /\ TxWrite(p) /\ tapp = "data" /\ tapp' = "end"
      /\ offset' = offset /\ rapp' = rapp /\ out' = out
    BY DEF TxSendEnd, rxVars
<1> HIDE DEF p
<1>3. /\ Delivered' = Delivered /\ acked' = acked /\ acked = Delivered
      /\ Delivered = Len(packets) /\ Len(packets') = acked + 1
      /\ InFlight' = p /\ packets' # <<>> /\ reader' = reader /\ writer' = writer
      /\ (packets # <<>> => Len(packets) > 0) /\ acked \in Nat
    BY <1>1, <1>2, WriteStep
<1>4. Delivered > 0 /\ rapp \notin {"start", "close"}
    BY <1>2, <1>3 DEF AppInv, LinkStepInv, StartInv, EndInv
<1>5. LinkStepInv' /\ EndInv' /\ StartInv'
    BY <1>2, <1>3, <1>4 DEF AppInv, LinkStepInv, EndInv, StartInv
<1>6. DataInv'
    BY <1>1, <1>2, <1>3, <1>4 DEF AppInv, DataInv
<1>7. OutputIsPrefix'
    BY <1>2 DEF AppInv, OutputIsPrefix
<1> QED BY <1>5, <1>6, <1>7 DEF AppCore

\* A call of llwrite or llclose that returns changes no packet and no byte.
LEMMA CallReturns ==
    ASSUME AppInv,
           TxWritten \/ TxClosed \/ TxFails \/ RxClose \/ RxClosed \/ RxQuit
             \/ RxFails \/ FileChange
    PROVE  AppCore'
<1>1. /\ packets' = packets /\ tapp' = tapp /\ offset' = offset
      /\ rapp' = rapp /\ out' = out
    BY DEF TxWritten, TxClosed, TxFails, RxClose, RxClosed, RxQuit, RxFails,
           FileChange, txVars, rxVars
<1>2. /\ received' = received /\ Delivered' = Delivered /\ InFlight' = InFlight
    BY <1>1 DEF TxWritten, TxClosed, TxFails, RxClose, RxClosed, RxQuit, RxFails,
        FileChange, link, Delivered, InFlight, Link!Acknowledge, Link!WriterDone,
        Link!WriterFails, Link!ReaderCloses, Link!ReaderDone, Link!ReaderFails
<1>3. StartInv' /\ DataInv' /\ EndInv' /\ OutputIsPrefix'
    BY <1>1, <1>2 DEF AppInv, StartInv, DataInv, EndInv, OutputIsPrefix
<1>4. acked \in Nat /\ Len(packets) \in Nat /\ Delivered \in Nat
    BY DEF AppInv, TypeOK, Delivered
<1>5. LinkStepInv'
    <2>1. CASE TxWritten
        BY <1>1, <1>2, <1>4, <2>1
        DEF TxWritten, Link!Acknowledge, AppInv, LinkStepInv, Delivered
    <2>2. CASE TxClosed \/ TxFails
        BY <1>1, <1>2, <2>2
        DEF TxClosed, TxFails, Link!WriterDone, Link!WriterFails, AppInv, LinkStepInv
    <2>3. CASE RxClose \/ RxClosed
        BY <1>1, <1>2, <2>3
        DEF RxClose, RxClosed, Link!ReaderCloses, Link!ReaderDone, AppInv, LinkStepInv
    <2>4. CASE RxQuit \/ RxFails
        BY <1>1, <1>2, <2>4
        DEF RxQuit, RxFails, Link!ReaderFails, AppInv, LinkStepInv
    <2>5. CASE FileChange
        BY <1>1, <1>2, <2>5 DEF FileChange, link, AppInv, LinkStepInv
    <2> QED BY <2>1, <2>2, <2>3, <2>4, <2>5
<1> QED BY <1>3, <1>5 DEF AppCore

\* llread returned a packet.
LEMMA ReadLink ==
    ASSUME AppInv, RxRead
    PROVE  LinkStepInv'
<1>1. \/ reader = "busy" /\ writer # "ok"
      \/ FALSE
    BY ReadStep DEF AppInv, LinkStepInv
<1>2. /\ Delivered' = Delivered + 1 /\ Delivered = acked /\ acked' = acked
      /\ Len(packets) = acked + 1 /\ packets' = packets /\ acked \in Nat
      /\ reader' = "busy" /\ writer' # "ok" /\ tapp' = tapp
    BY <1>1, ReadStep
<1> QED BY <1>2 DEF AppInv, LinkStepInv

LEMMA ReadStart ==
    ASSUME AppInv, RxStart
    PROVE  AppCore'
<1>1. RxRead /\ rapp = "start" /\ out' = out
    BY DEF RxStart
<1>2. /\ Delivered = 0 /\ out = <<>> /\ offset = 0 /\ packets # <<>>
      /\ InFlight.ctrl = "START" /\ tapp = "data"
    BY <1>1, ReadStep DEF AppInv, StartInv, TypeOK
<1>3. /\ Delivered' = 1 /\ Len(packets') = 1 /\ tapp' = "data" /\ offset' = 0
      /\ out' = <<>> /\ Len(out') = 0
    BY <1>1, <1>2, ReadStep
<1>4. rapp' \in {"data", "end", "quit"}
    BY DEF RxStart, RxLoop
<1>5. StartInv' /\ DataInv' /\ EndInv' /\ OutputIsPrefix'
    BY <1>3, <1>4 DEF StartInv, DataInv, EndInv, OutputIsPrefix
<1> QED BY <1>1, <1>5, ReadLink DEF AppCore

LEMMA ReadData ==
    ASSUME AppInv, RxData
    PROVE  AppCore'
<1>1. RxRead /\ rapp = "data"
    BY DEF RxData
<1>2. /\ Incoming = InFlight /\ Incoming \in Packets /\ Delivered' = Delivered + 1
      /\ Delivered \in Nat /\ Delivered < Len(packets)
      /\ Len(packets') = Delivered + 1 /\ tapp' = tapp /\ offset' = offset
    BY <1>1, ReadStep
<1>3. out \in Seq(Nat) /\ Len(out) \in Nat /\ offset \in Nat
    BY DEF AppInv, TypeOK
<1>4. CASE RxAccepts(Incoming)
    <2>1. /\ Incoming.ctrl = "DATA" /\ tapp = "data"
          /\ Incoming.from = Len(out) /\ Len(out) + Incoming.len = offset
          /\ Incoming.len \in Nat
        BY <1>1, <1>2, <1>4 DEF AppInv, DataInv, RxAccepts, Packets
    <2>2. out' = out \o Bytes(Incoming) /\ rapp' \in {"data", "end"}
        BY <1>4 DEF RxData, RxLoop
    <2>3. /\ Bytes(Incoming) \in Seq(Nat) /\ Len(Bytes(Incoming)) = Incoming.len
          /\ \A i \in 1..Incoming.len : Bytes(Incoming)[i] = Len(out) + i
        BY <1>2, <2>1, BytesTyped
    <2>4. /\ Len(out') = offset
          /\ \A i \in 1..offset :
                out'[i] = IF i <= Len(out) THEN out[i] ELSE Bytes(Incoming)[i - Len(out)]
        <3> DEFINE b == Bytes(Incoming)
        <3>1. b \in Seq(Nat) /\ Len(out) + Len(b) = offset /\ out' = out \o b
            BY <2>1, <2>2, <2>3
        <3> HIDE DEF b
        <3>2. /\ Len(out \o b) = Len(out) + Len(b)
              /\ \A i \in 1..(Len(out) + Len(b)) :
                    (out \o b)[i] = IF i <= Len(out) THEN out[i] ELSE b[i - Len(out)]
            BY <1>3, <3>1, ConcatProperties
        <3>3. /\ Len(out') = offset
              /\ \A i \in 1..offset :
                    out'[i] = IF i <= Len(out) THEN out[i] ELSE b[i - Len(out)]
            BY <3>1, <3>2
        <3> QED BY <3>3 DEF b
    <2>5. ASSUME NEW i \in 1..offset PROVE out'[i] = i
        <3>1. CASE i <= Len(out)
            BY <1>3, <2>4, <3>1 DEF AppInv, OutputIsPrefix
        <3>2. CASE i > Len(out)
            <4>1. i - Len(out) \in 1..Incoming.len /\ ~(i <= Len(out))
                BY <1>3, <2>1, <3>2
            <4>2. out'[i] = Bytes(Incoming)[i - Len(out)]
                BY <2>4, <4>1
            <4>3. Bytes(Incoming)[i - Len(out)] = Len(out) + (i - Len(out))
                BY <2>3, <4>1
            <4> QED BY <1>3, <4>2, <4>3
        <3> QED BY <1>3, <3>1, <3>2
    <2>6. StartInv' /\ DataInv' /\ EndInv'
        BY <1>2, <2>1, <2>2, <2>4 DEF StartInv, DataInv, EndInv
    <2>7. OutputIsPrefix'
        BY <1>2, <1>3, <2>4, <2>5 DEF OutputIsPrefix
    <2> QED BY <1>1, <2>6, <2>7, ReadLink DEF AppCore
<1>5. CASE ~RxAccepts(Incoming)
    <2>1. rapp' = "quit" /\ out' = out
        BY <1>5 DEF RxData
    <2>2. StartInv' /\ DataInv' /\ EndInv' /\ OutputIsPrefix'
        <3>1. tapp # "start"
            BY <1>2, <1>3 DEF AppInv, LinkStepInv
        <3> QED BY <1>2, <2>1, <3>1
            DEF AppInv, StartInv, DataInv, EndInv, OutputIsPrefix
    <2> QED BY <1>1, <2>2, ReadLink DEF AppCore
<1> QED BY <1>4, <1>5

LEMMA ReadEnd ==
    ASSUME AppInv, RxEnd
    PROVE  AppCore'
<1>1. RxRead /\ rapp = "end" /\ out' = out /\ rapp' \in {"close", "quit"}
      /\ (rapp' = "close" => Incoming.ctrl = "END")
    BY DEF RxEnd
<1>2. /\ Incoming = InFlight /\ Delivered' = Delivered + 1
      /\ Delivered \in Nat /\ Delivered < Len(packets)
      /\ Len(packets') = Delivered + 1 /\ tapp' = tapp /\ offset' = offset
    BY <1>1, ReadStep
<1>3. rapp' = "close" => tapp = "end" /\ Len(out) = offset
    BY <1>1, <1>2 DEF AppInv, DataInv
<1>4. StartInv' /\ DataInv' /\ EndInv' /\ OutputIsPrefix'
    BY <1>1, <1>2, <1>3 DEF AppInv, StartInv, DataInv, EndInv, OutputIsPrefix
<1> QED BY <1>1, <1>4, ReadLink DEF AppCore

LEMMA AppStep ==
    ASSUME AppInv, [Next]_vars
    PROVE  AppInv'
<1>1. TypeOK'
    BY TypeNext DEF AppInv
<1>2. AppCore'
    <2>1. CASE UNCHANGED vars
        BY <2>1 DEF vars, AppInv, AppCore, LinkStepInv, StartInv, DataInv, EndInv,
                    OutputIsPrefix, Delivered, InFlight
    <2> QED BY <2>1, SendStart, SendData, SendEnd, CallReturns, ReadStart,
               ReadData, ReadEnd DEF Next, TxNext, RxNext
<1> QED BY <1>1, <1>2 DEF AppInv, AppCore

\* The inductive invariant holds.
THEOREM AppInvHolds == Spec => []AppInv
<1> QED BY AppInit, AppStep, PTL DEF Spec

\* The output file is the beginning of the input file, whatever the packet
\* sizes, however the numbers wrap around, and although the file changes.
THEOREM PrefixHolds == Spec => []OutputIsPrefix
<1>1. AppInv => OutputIsPrefix
    BY DEF AppInv
<1> QED BY AppInvHolds, <1>1, PTL

\* A receiver that succeeds has every byte the transmitter has read.
THEOREM CompleteHolds == Spec => []AcceptedIsComplete
<1>1. AppInv => AcceptedIsComplete
    BY DEF AppInv, EndInv, AcceptedIsComplete
<1> QED BY AppInvHolds, <1>1, PTL

\* A transmitter that succeeds has a receiver that accepted the file.
THEOREM SuccessHolds == Spec => []SuccessIsShared
<1>1. AppInv => SuccessIsShared
    BY DEF AppInv, LinkStepInv, SuccessIsShared
<1> QED BY AppInvHolds, <1>1, PTL

=============================================================================
