----------------------------- MODULE SessionsInv -----------------------------
(***************************************************************************)
(* The inductive invariant behind Sessions: how the flush of llopen and    *)
(* the wait for SET and UA keep sessions apart that no frame names, and    *)
(* why neither driver can run ahead of the other.                          *)
(***************************************************************************)
EXTENDS Sessions, LinkLayerInv

Has(channel, c) == \E i \in 1..Len(channel) : channel[i].c = c

\* What holds of the receiver's session whoever it has its packets from.
FileInv ==
    /\ rpc \in {"idle", "open"} => delivered = <<>> /\ sources = {}
    /\ rpc = "read" => Count < N
    /\ rpc \in {"close", "ua"} => Count = N
    /\ Count # 0 => sources # {}
    /\ Count = N => \A s \in sources : sources = {s} => s \in received

\* Every frame on its way to the receiver is of the transmitter's session.
Own == \A i \in 1..Len(origin) : origin[i] = tsess

\* The transmitter's session waits for a UA that is not on its way, and has sent
\* nothing that a receiver past llopen answers.
Unanswered ==
    /\ tpc \in {"idle", "open", "fail"}
    /\ tpc = "open" => ~Has(rt, "UA") /\ ~Has(rt, "DISC")
    /\ \A i \in 1..Len(tr) : tr[i].c = "SET"

\* With users: a receiver past llopen has its packets from the session of the
\* transmitter that goes on, or else that session is not answered.
UsersInv ==
    /\ sources = {} \/ \E s \in 1..tsess : sources = {s}
    /\ rpc \in {"open", "ready", "read", "close", "ua"} => Own
    /\ rpc \in {"ready", "read", "close", "ua"} => sources \subseteq {tsess} \/ Unanswered

-----------------------------------------------------------------------------
(* With drivers the two ends are at the same line, or one of them is at the  *)
(* next, in one of five ways.                                                *)

\* The UA that ends llclose is the last frame of its session.
EndInv ==
    tpc = "ok" => /\ \A i \in 1..Len(tr) : tr[i].c = "UA" => i = Len(tr)
                  /\ rpc = "ok" => tr = <<>>

\* Both processes are new.
Fresh ==
    /\ tpc = "idle" /\ written = 0 /\ tr = <<>>
    /\ rpc \in {"idle", "open"} /\ (rpc = "open" => rseq = 0)

\* Both ends are at the same line, as if there had been none before.
Aligned == tsess = rsess /\ Own /\ (Fresh \/ (LinkInv /\ EndInv))

\* All that follows the first k frames to the receiver is the SET of the
\* transmitter's session.
OnlySET(k) ==
    \A i \in k + 1..Len(tr) : tpc = "open" /\ tr[i] = TxSET /\ origin[i] = tsess

\* The transmitter has started the next line, the receiver waits for its UA.
TxAhead ==
    /\ tsess = rsess + 1 /\ written = 0
    /\ tpc \in {"idle", "open"} /\ (tpc = "open" => tseq = 1 /\ rt = <<>>)
    /\ rpc \in {"ua", "ok"} /\ (rpc = "ok" => OnlySET(0))
    /\ \A k \in 1..Len(tr) : tr[k].c = "UA" => OnlySET(k)

\* The receiver has started the next line, the transmitter is about to.
RxAhead ==
    /\ rsess = tsess + 1 /\ tpc = "ok" /\ tr = <<>>
    /\ rpc \in {"idle", "open"} /\ (rpc = "open" => rseq = 0)

\* The transmitter has failed: the receiver finishes its line at most.
TxDead ==
    /\ tpc = "fail"
    /\ \/ tsess = rsess /\ (rpc \in {"open", "ready", "read"} => Own)
       \/ /\ rsess = tsess + 1 /\ rpc \in {"idle", "open", "fail"}
          /\ rpc = "open" => tr = <<>>
       \/ tsess = rsess + 1 /\ rpc \in {"ua", "ok", "lost", "fail"}

\* The receiver has failed: the transmitter finishes its line at most.
RxDead ==
    /\ rpc \in {"lost", "fail"}
    /\ \/ tsess = rsess \/ rsess = tsess + 1
       \/ /\ tsess = rsess + 1 /\ tpc \in {"idle", "open", "fail"}
          /\ tpc = "open" => ~Has(rt, "UA")

DriversInv ==
    /\ sources \subseteq {rsess}
    /\ Aligned \/ TxAhead \/ RxAhead \/ TxDead \/ RxDead

-----------------------------------------------------------------------------
\* The DISC of a receiver is on its way to the transmitter whose packets it
\* has, or to one that has not even opened the connection.
DiscInv ==
    tpc \in {"open", "ready", "write", "close"} /\ Has(rt, "DISC") =>
        tsess \in received \/ (driven = "drivers" /\ tsess = rsess + 1)

\* The inductive invariant of the specification.
SessionsInv ==
    /\ SessionsTypeOK /\ TypeInv /\ FileInv
    /\ driven = "users" /\ quiet = "kept" => UsersInv
    /\ driven = "drivers" => DriversInv /\ quiet = "kept"
    /\ quiet = "kept" => DiscInv /\ (tpc = "ok" => tsess \in received)

=============================================================================
