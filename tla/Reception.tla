----------------------------- MODULE Reception -----------------------------
(***************************************************************************)
(* Whole frames, through a noisy line, byte by byte into one of the three  *)
(* reception automata: what LinkLayer takes for granted.  One end sends    *)
(* frames, the other calls ll_expect_Sframe, ll_expect_Uframe or           *)
(* ll_expect_Iframe again and again.                                       *)
(***************************************************************************)
EXTENDS Framing, LinkFrames, FiniteSets

CONSTANTS
    Payloads,   \* the payload of each packet: [1..N -> Seq(Byte)]
    MaxFrames,  \* bound on the frames sent
    MaxFaults,  \* bound on the frames damaged or cut short
    StaleBytes  \* what ll_destuffing may find after the end of the data

ASSUME ReceptionAssumption ==
    /\ N \in Nat /\ MaxFrames \in Nat /\ MaxFaults \in Nat
    /\ Payloads \in [1..N -> Seq(Byte) \ {<<>>}]   \* a packet has a control byte
    /\ StaleBytes \subseteq Byte

VARIABLES
    auto,   \* the automaton in use: "S", "U" or "I"
    seq,    \* the receiving end's sequence_number
    sent,   \* the frames sent
    faults, \* the frames damaged or cut short so far
    forged, \* has noise made a FLAG out of another byte?
    wire,   \* the bytes on the line
    m,      \* the automaton
    got,    \* what it made of them, in the terms of LinkFrames
    whole,  \* the frames sent after the last one that was damaged or cut short
    heard   \* what the automaton has made of the bytes since the first of them

vars == <<auto, seq, sent, faults, forged, wire, m, got, whole, heard>>

-----------------------------------------------------------------------------
(* Sending *)

\* A command carries the sender's address, a response the other's.
Address(f) == IF f.a = "SEND" THEN A_SEND ELSE A_RECV

Control(f) == CASE f.c = "SET"  -> C_SET
                [] f.c = "DISC" -> C_DISC
                [] f.c = "UA"   -> C_UA
                [] f.c = "RR"   -> RR(f.n)
                [] f.c = "REJ"  -> REJ(f.n)

Bytes(f) == IF f.c = "I" THEN Information(f.n, Payloads[f.d])
                         ELSE Supervisory(Address(f), Control(f))

\* What each end sends.
FromTransmitter == {TxSET, TxDISC, TxUA} \cup {TxRR(n) : n \in {0, 1}}
                       \cup {TxI(n, d) : n \in {0, 1}, d \in 1..N}
FromReceiver    == {RxUA, RxDISC} \cup {RxRR(n) : n \in {0, 1}} \cup {RxREJ(n) : n \in {0, 1}}
Sendable        == FromTransmitter \cup FromReceiver

OneEnd(f) == \/ {f} \cup ToSet(sent) \subseteq FromTransmitter
             \/ {f} \cup ToSet(sent) \subseteq FromReceiver

\* What an automaton may meet.  Only llread uses the I automaton; the SETs on the
\* line are ahead of all I-frames, so that it meets them when it waits for packet
\* 1, with sequence_number = 1; and DISC and UA come when it has every packet.
\* The U automaton waits for an UA that precedes, or follows, all packets.
CanMeet(f) ==
    CASE auto = "I" -> /\ f \in FromTransmitter
                       /\ f.c \in {"SET", "I", "RR"}
                       /\ f.c = "SET" => seq = 1
      [] auto = "U" -> f.c \in {"UA", "DISC", "RR"}
      [] auto = "S" -> TRUE

CanSend(f) == wire = <<>> /\ Len(sent) < MaxFrames /\ OneEnd(f) /\ CanMeet(f)

Init ==
    /\ auto \in {"S", "U", "I"} /\ seq \in {0, 1}
    /\ sent = <<>> /\ faults = 0 /\ forged = "no" /\ wire = <<>>
    /\ m = Start /\ got = <<>> /\ whole = <<>> /\ heard = <<>>

Send ==
    \E f \in Sendable :
        /\ CanSend(f)
        /\ sent' = Append(sent, f)
        /\ whole' = Append(whole, f)
        /\ wire' = Bytes(f)
        /\ UNCHANGED <<auto, seq, faults, forged, m, got, heard>>

\* gen_frame_error, or the line: one bit of the frame is flipped.
SendNoisy ==
    /\ faults < MaxFaults
    /\ \E f \in Sendable :
        /\ CanSend(f)
        /\ sent' = Append(sent, f)
        /\ \E i \in 1..Len(Bytes(f)), bit \in 0..7 :
              /\ wire' = [Bytes(f) EXCEPT ![i] = Flipped(@, bit)]
              /\ forged' = IF wire'[i] = FLAG THEN "yes" ELSE forged
        /\ faults' = faults + 1
        /\ whole' = <<>> /\ heard' = <<>>
        /\ UNCHANGED <<auto, seq, m, got>>

\* An alarm interrupts write(), or the sender ends: the frame is cut short.
SendCut ==
    /\ faults < MaxFaults
    /\ \E f \in Sendable :
        /\ CanSend(f)
        /\ sent' = Append(sent, f)
        /\ \E i \in 1..Len(Bytes(f)) - 1 : wire' = SubSeq(Bytes(f), 1, i)
        /\ faults' = faults + 1
        /\ whole' = <<>> /\ heard' = <<>>
        /\ UNCHANGED <<auto, seq, forged, m, got>>

-----------------------------------------------------------------------------
(* Receiving *)

\* The control codes, of the frames that a caller of the automaton gets.
Code(c) == CASE c = C_SET             -> "SET"
             [] c = C_DISC            -> "DISC"
             [] c = C_UA              -> "UA"
             [] c \in {RR(0), RR(1)}   -> "RR"
             [] c \in {REJ(0), REJ(1)} -> "REJ"

Outcome(o, a, c, data) == [o |-> o, a |-> a, c |-> c, data |-> data]

Outcomes == [o : {"stop", "resend", "disc", "set", "data", "bad"},
             a : {"", "SEND", "RECV"}, c : {"", "SET", "DISC", "UA", "RR", "REJ"},
             data : Seq(Byte)]

\* What the caller sees when the automaton stops.
Result(stop, stale) ==
    LET data == Destuffed(stop.data, stale)
    IN CASE stop.state = "STOP_RR"   -> Outcome("resend", "", "", <<>>)
         [] stop.state = "STOP_DISC" -> Outcome("disc", "", "", <<>>)
         [] stop.state = "STOP_UA"   -> Outcome("set", "", "", <<>>)
         [] stop.state = "STOP" /\ auto # "I" ->
               Outcome("stop", IF stop.a = A_SEND THEN "SEND" ELSE "RECV", Code(stop.c), <<>>)
         [] stop.state = "STOP" /\ auto = "I" ->
               IF Valid(data) THEN Outcome("data", "", "", Payload(data))
                              ELSE Outcome("bad", "", "", <<>>)

Update(b) == CASE auto = "S" -> SUpdate(seq, m, b)
               [] auto = "U" -> UUpdate(m, b)
               [] auto = "I" -> IUpdate(seq, m, b)

\* The caller sees o.
Tell(o) ==
    /\ got' = Append(got, o)
    /\ heard' = IF whole = <<>> THEN heard ELSE Append(heard, o)

\* read() returns a byte.  When the automaton stops, the caller sees it and
\* starts it anew; but not after STOP_UA, where the loop of ll_expect_Iframe stays.
Read ==
    /\ wire # <<>> /\ m.state # "STOP_UA"
    /\ wire' = Tail(wire)
    /\ LET next == Update(Head(wire))
       IN /\ m' = IF next.state \in Stops THEN Start ELSE next
          /\ IF next.state \in Stops \cup {"STOP_UA"}
             THEN \E stale \in StaleBytes : Tell(Result(next, stale))
             ELSE UNCHANGED <<got, heard>>
    /\ UNCHANGED <<auto, seq, sent, faults, forged, whole>>

\* The byte after: the automaton cannot leave STOP_UA, the call fails, and the
\* next one starts anew.
ReadStopped ==
    /\ wire # <<>> /\ m.state = "STOP_UA"
    /\ wire' = Tail(wire)
    /\ m' = Start
    /\ UNCHANGED <<auto, seq, sent, faults, forged, got, whole, heard>>

Next == Send \/ SendNoisy \/ SendCut \/ Read \/ ReadStopped

Spec == Init /\ [][Next]_vars

-----------------------------------------------------------------------------
(* Properties *)

\* Every variable has its type: the automata of ll_s_statemachine.c, _u_ and _i_
\* are never asked to leave a state in which their loop should have ended, and no
\* noise makes the caller see a control code that there is not.
TypeOK ==
    /\ auto \in {"S", "U", "I"} /\ seq \in {0, 1}
    /\ sent \in Seq(Frames) /\ faults \in 0..MaxFaults /\ forged \in {"no", "yes"}
    /\ wire \in Seq(Byte)
    /\ m.state \in {"START", "FLAG_RCV", "A_RCV", "C_RCV", "BCC_OK", "DATA", "C_I_RCV",
                    "C_DISC_RCV", "C_UNXP_RCV", "C_SET_RCV", "STOP_UA"}
    /\ m = [state |-> m.state, a |-> m.a, c |-> m.c, data |-> m.data]
    /\ m.a \in Byte /\ m.c \in Byte /\ m.data \in Seq(Byte)
    /\ got \in Seq(Outcomes) /\ heard \in Seq(Outcomes) /\ whole \in Seq(Sendable)

\* What LinkFrames says the caller sees of a frame.
Verdict(f) == CASE auto = "S" -> SOutcome(seq, f)
                [] auto = "U" -> UOutcome(f)
                [] auto = "I" -> IOutcome(seq, f)

Seen(f) ==
    LET o == Verdict(f)
    IN CASE o = "skip" -> <<>>
         [] o = "stop" -> <<Outcome(o, f.a, f.c, <<>>)>>
         [] o = "data" -> <<Outcome(o, "", "", Payloads[f.d])>>
         [] OTHER      -> <<Outcome(o, "", "", <<>>)>>

SeenOf(fs) == FlattenSeq([i \in DOMAIN fs |-> Seen(fs[i])])

\* What may become of a frame on the line of LinkLayer.
MayBecome(f) == {<<f>>, <<>>} \cup {<<g>> : g \in Damaged(f)}

\* What may become of the frames sent when at most faults of them are hit.
Histories ==
    {h \in FoldLeft(LAMBDA hs, f : {Append(h, g) : h \in hs, g \in MayBecome(f)},
                   {<<>>}, sent) :
        Cardinality({i \in DOMAIN sent : h[i] # <<sent[i]>>}) <= faults}

\* What the I automaton takes for the header of I-frame n, wherever it comes.
IHeader(n) == <<A_SEND, C_I(n), Xor(A_SEND, C_I(n))>>

\* The checksums and the automaton cannot take a part of the payload p for another
\* one.  No byte of p, nor a stale one that is read in its place, is the exclusive
\* or of those before it; and there is no header in p, nor between it and what
\* comes before and after it.  The code does not ensure this.
Innocent(p) ==
    /\ \A k \in 2..Len(p) :
          BCC(SubSeq(p, 1, k - 1)) \notin {p[k]} \cup
              IF p[k] \in {FLAG, ESC} THEN {Flipped(stale, 5) : stale \in StaleBytes} ELSE {}
    /\ \A k \in 1..Len(p), n \in {0, 1} :
          SubSeq(<<A_SEND>> \o p \o <<BCC(p)>>, k, k + 2) # IHeader(n)

\* The frame-level view is right: frames sent one after the other are seen one
\* after the other, as SOutcome, UOutcome and IOutcome say; and a bit flipped
\* anywhere, in a FLAG too, or a frame cut short, where two frames run into one
\* another, is a fault of LinkLayer to one frame: its loss, or its damage.  Only
\* a FLAG that noise makes in the middle of a frame is excepted, and payloads that
\* are not innocent: see NoiseOnlyCuts.  Two faults may do more: two flipped bits
\* cancel out in a checksum, and two broken frames may make up a third one.
NoiseIsOneFault ==
    wire = <<>> /\ faults <= 1 /\ forged = "no" /\
    (\A f \in ToSet(sent) : f.c = "I" => Innocent(Payloads[f.d]))
        => \E h \in Histories : got = SeenOf(FlattenSeq(h))

\* A part of the payload p: its beginning; or what is behind the header h in it, when
\* the bytes up to there cancel out.
PartOf(h, data, p) ==
    \/ IsStrictPrefix(data, p)
    \/ \E k \in 3..Len(p) :
          /\ SubSeq(p, k - 2, k) = h
          /\ BCC(SubSeq(p, 1, k)) = {}
          /\ data = SubSeq(p, k + 1, Len(p))

\* The data are the payload of one of the frames, or, after noise, a part of it.
Traced(frames, h, noise, data) ==
    \E f \in frames :
        /\ f.c = "I"
        /\ data = Payloads[f.d] \/ (noise /\ PartOf(h, data, Payloads[f.d]))

\* Whatever the payloads, and wherever the fault: what llread accepts is the
\* payload of a frame sent, or a part of it.  No bit of it is wrong, and nothing of
\* two frames is mixed.
NoiseOnlyCuts ==
    faults <= 1 =>
        \A i \in DOMAIN got : got[i].o = "data" =>
            Traced(ToSet(sent), IHeader(NextSeq(seq)), faults = 1, got[i].data)

\* What has been heard is what LinkFrames says of the frames fs, all of them
\* whole; or else the first of them, or something broken in front of it, has made
\* the caller see other things, two at most.
HeardAre(fs) ==
    \/ heard = SeenOf(fs)
    \/ /\ faults > 0 /\ fs # <<>>
       /\ \E k \in 0..Len(heard) :
             k <= 2 /\ SubSeq(heard, k + 1, Len(heard)) = SeenOf(Tail(fs))

\* Noise costs the frames it hits and the next one at most, however often and
\* wherever it hits: the automata are in step with the line again after one whole
\* frame, and before any noise they never lose it.
WholeIsSeen == wire = <<>> => HeardAre(whole)

=============================================================================
