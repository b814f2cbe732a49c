--------------------------- MODULE AppTransferInv ---------------------------
(***************************************************************************)
(* The inductive invariant behind the safety of AppTransfer: how far apart *)
(* the two applications may be, and what the packet between them says.     *)
(***************************************************************************)
EXTENDS AppTransfer

Delivered == Len(received)
InFlight  == packets[Len(packets)]

\* llwrite and llread are at most one packet apart.
LinkStepInv ==
    /\ acked <= Delivered /\ Delivered <= Len(packets) /\ Len(packets) <= acked + 1
    /\ tapp = "start" <=> packets = <<>>
    /\ reader \in {"closing", "ok", "lost"} => rapp = "close"
    /\ writer = "ok" => reader \in {"closing", "ok", "lost"}

\* Before START has been read, nothing else has been sent.
StartInv ==
    /\ tapp = "start" => offset = 0
    /\ rapp = "start" =>
          /\ Delivered = 0 /\ out = <<>> /\ offset = 0
          /\ packets # <<>> => InFlight.ctrl = "START" /\ tapp = "data"

\* The receiver has what the transmitter has read, but for the packet that has
\* not been delivered yet.
DataInv ==
    rapp \in {"data", "end"} =>
        /\ Delivered > 0
        /\ Delivered = Len(packets) => tapp = "data" /\ Len(out) = offset
        /\ Delivered < Len(packets) =>
              \/ /\ InFlight.ctrl = "DATA" /\ tapp = "data"
                 /\ InFlight.from = Len(out)
                 /\ InFlight.from + InFlight.len = offset
              \/ InFlight.ctrl = "END" /\ tapp = "end" /\ Len(out) = offset

\* Nothing follows END.
EndInv == rapp = "close" => /\ tapp = "end" /\ Len(out) = offset
                            /\ Delivered = Len(packets)

\* The inductive invariant of the specification.
AppInv ==
    /\ TypeOK /\ LinkStepInv /\ StartInv /\ DataInv /\ EndInv /\ OutputIsPrefix

=============================================================================
