------------------------------ MODULE Sessions ------------------------------
(***************************************************************************)
(* Several transfers over one serial line, with processes that die at any  *)
(* point and are started again.  A process runs LinkLayer's calls once: it *)
(* is a session of its end, and a file goes from a session of the          *)
(* transmitter to one of the receiver.  No frame says which session it is  *)
(* of; that the sessions are told apart rests on the SET that llopen       *)
(* waits for and on the input it flushes.                                  *)
(*                                                                         *)
(* The sessions are started by the measurement drivers in stats/, one for  *)
(* each line of the file of settings as long as they exit with status 0,   *)
(* or by users who start the programs again whatever happened.             *)
(***************************************************************************)
EXTENDS LinkLayer, FiniteSets

CONSTANTS
    Lines,      \* sessions of each end; lines of the drivers' file
    MaxKills    \* bound on the processes that are killed

(* A file is two packets at least, the control packets START and END.        *)
ASSUME SessionsAssumption == N > 0 /\ Lines \in Nat \ {0} /\ MaxKills \in Nat

VARIABLES
    driven,     \* who starts the programs: "drivers" or "users"
    tdriver,    \* transmitter's driver: "waits" for its child, "done", "error"
    rdriver,    \* receiver's driver, likewise
    tsess,      \* transmitter: number of the session
    rsess,      \* receiver: likewise
    kills,      \* processes killed so far
    quiet,      \* "broken" once a user has started a transmitter although
                \* a receiver had frames of the one before still to read
    origin,     \* for each frame of tr, the session that sent it
    sources,    \* the sessions whose packets the receiver's session has got
    received    \* the sessions all of whose packets one receiver has got

driverVars  == <<driven, tdriver, rdriver, tsess, rsess, kills, quiet>>
ghostVars   == <<origin, sources, received>>
sessionVars == <<vars, driven, tdriver, rdriver, tsess, rsess, kills,
                 quiet, origin, sources, received>>

-----------------------------------------------------------------------------
SessionsInit ==
    /\ Init
    /\ driven \in {"drivers", "users"} /\ tdriver = "waits" /\ rdriver = "waits"
    /\ tsess = 1 /\ rsess = 1 /\ kills = 0 /\ quiet = "kept"
    /\ origin = <<>> /\ sources = {} /\ received = {}

\* Frames are put on the line at its end, and taken off at its head.
Tracked ==
    origin' = IF Len(tr') < Len(tr)
              THEN SubSeq(origin, Len(tr) - Len(tr') + 1, Len(tr))
              ELSE origin \o [i \in 1..Len(tr') - Len(tr) |-> tsess]

\* A packet the receiver accepts is of the session that sent its frame.
Attributed ==
    IF Len(delivered') > Len(delivered)
    THEN /\ sources' = sources \union {Head(origin)}
         /\ received' = IF Len(delivered') = N /\ Cardinality(sources') = 1
                        THEN received \union sources' ELSE received
    ELSE UNCHANGED <<sources, received>>

\* A DISC that comes while llopen waits for UA, which only the session before
\* can have caused: it is answered with DISC, ll_send_DISC returns the number of
\* bytes it wrote, and what ll_expect_Uframe takes for an error costs an attempt.
TxDiscAgain ==
    /\ TxReceives /\ TxOutcome(Head(rt)) = "disc"
    /\ \/ /\ tatt + 1 < Retransmissions
          /\ tatt' = tatt + 1 /\ ttimer' = "armed" /\ UNCHANGED tpc
          /\ tr' = tr \o <<TxDISC, TxFrame>>
       \/ /\ tatt + 1 = Retransmissions
          /\ tpc' = "fail" /\ tatt' = 0 /\ ttimer' = "off"
          /\ tr' = Append(tr, TxDISC)
    /\ UNCHANGED <<tseq, written, rxVars, faults>>

\* A step of the calls, or of the line.
LinkStep == (Next \/ TxDiscAgain) /\ Tracked /\ Attributed /\ UNCHANGED driverVars

-----------------------------------------------------------------------------
(* Processes *)

TxEnded == tpc \in {"ok", "fail"}
RxEnded == rpc \in {"ok", "lost", "fail"}

\* A new process of the transmitter, with its variables as they are loaded.
TxFresh ==
    /\ tsess < Lines /\ tsess' = tsess + 1
    /\ tpc' = "idle" /\ tseq' = 0 /\ tatt' = 0 /\ ttimer' = "off" /\ written' = 0
    /\ UNCHANGED <<rxVars, tr, rt, faults>>

\* A new process of the receiver, which creates a new file.
RxFresh ==
    /\ rsess < Lines /\ rsess' = rsess + 1
    /\ rpc' = "idle" /\ rseq' = 0 /\ ratt' = 0 /\ rtimer' = "off"
    /\ rerrno' = "none" /\ rauto' = "run" /\ delivered' = <<>>
    /\ sources' = {}
    /\ UNCHANGED <<txVars, tr, rt, faults>>

\* llclose may fail after the last frame (tcsetattr, close), so that a process
\* whose transfer succeeded still exits with status 1.
Statuses(pc) == IF pc = "ok" THEN {0, 1} ELSE {1}

\* The driver does not look at the status.
MutTxDriver ==
    /\ driven = "drivers" /\ tdriver = "waits" /\ TxEnded
    /\ IF tsess < Lines
       THEN TxFresh /\ UNCHANGED tdriver
       ELSE tdriver' = "done" /\ UNCHANGED <<vars, tsess>>
    /\ UNCHANGED <<driven, rdriver, rsess, kills, quiet, ghostVars>>

\* The drivers wait for their child: a status other than 0, or a signal, ends
\* the driver; otherwise it goes on with the next line of the file.
TxDriver ==
    /\ driven = "drivers" /\ tdriver = "waits" /\ TxEnded
    /\ \E status \in Statuses(tpc) :
          \/ /\ status = 0 /\ TxFresh
             /\ UNCHANGED tdriver
          \/ /\ status = 0 /\ tsess = Lines
             /\ tdriver' = "done" /\ UNCHANGED <<vars, tsess>>
          \/ /\ status # 0
             /\ tdriver' = "error" /\ UNCHANGED <<vars, tsess>>
    /\ UNCHANGED <<driven, rdriver, rsess, kills, quiet, ghostVars>>

RxDriver ==
    /\ driven = "drivers" /\ rdriver = "waits" /\ RxEnded
    /\ \E status \in Statuses(rpc) :
          \/ /\ status = 0 /\ RxFresh
             /\ UNCHANGED rdriver
          \/ /\ status = 0 /\ rsess = Lines
             /\ rdriver' = "done" /\ UNCHANGED <<vars, rsess, sources>>
          \/ /\ status # 0
             /\ rdriver' = "error" /\ UNCHANGED <<vars, rsess, sources>>
    /\ UNCHANGED <<driven, tdriver, tsess, kills, quiet, origin, received>>

TxStartedAgain ==
    /\ driven = "users" /\ TxEnded /\ TxFresh
    /\ quiet' = IF tr = <<>> \/ RxEnded \/ rpc = "idle" THEN quiet ELSE "broken"
    /\ UNCHANGED <<driven, tdriver, rdriver, rsess, kills, ghostVars>>

RxStartedAgain ==
    /\ driven = "users" /\ RxEnded /\ RxFresh
    /\ UNCHANGED <<driven, tdriver, rdriver, tsess, kills, quiet, origin, received>>

\* A process is killed, or its machine stops.  What it has written is sent.
Kill == kills < MaxKills /\ kills' = kills + 1

TxKilled ==
    /\ Kill /\ ~TxEnded
    /\ tpc' = "fail" /\ tatt' = 0 /\ ttimer' = "off"
    /\ UNCHANGED <<tseq, written, rxVars, tr, rt, faults,
                   driven, tdriver, rdriver, tsess, rsess, quiet, ghostVars>>

RxKilled ==
    /\ Kill /\ ~RxEnded
    /\ rpc' = "fail" /\ ratt' = 0 /\ rtimer' = "off"
    /\ UNCHANGED <<rseq, rerrno, rauto, delivered, txVars, tr, rt, faults,
                   driven, tdriver, rdriver, tsess, rsess, quiet, ghostVars>>

SessionsNext == \/ LinkStep
                \/ TxDriver \/ TxStartedAgain \/ TxKilled
                \/ RxDriver \/ RxStartedAgain \/ RxKilled

SessionsSpec == SessionsInit /\ [][SessionsNext]_sessionVars

-----------------------------------------------------------------------------
(* Properties *)

\* Every variable has its type.
SessionsTypeOK ==
    /\ TypeOK
    /\ driven \in {"drivers", "users"}
    /\ {tdriver, rdriver} \subseteq {"waits", "done", "error"}
    /\ tsess \in 1..Lines /\ rsess \in 1..Lines /\ kills \in 0..MaxKills
    /\ quiet \in {"kept", "broken"}
    /\ origin \in Seq(1..tsess) /\ Len(origin) = Len(tr)
    /\ sources \subseteq 1..tsess /\ received \subseteq 1..tsess

\* The packets of one received file are of one session of the transmitter,
\* although frames do not name their session, sequence numbers start again
\* with each, and either process may die and come back while the other goes
\* on: a receiver past llopen does not answer the SET of another session, and
\* takes no packet of a transmitter whose SET is not answered.
OneSource == quiet = "kept" => Cardinality(sources) <= 1

\* A transmitter that succeeds has had all its packets received by one session
\* of the receiver, also when that is not the one that opened the connection
\* with it: acknowledgements may be another session's, but a receiver that has
\* not got all packets answers no DISC.
SuccessIsReceived == quiet = "kept" /\ tpc = "ok" => tsess \in received

\* As long as both drivers go on they are at the same line of their files, or
\* one of them at the next, and line k is received from line k: neither can
\* run ahead, and one of them failing stops the other.
InStep ==
    driven = "drivers" =>
        /\ tsess <= rsess + 1 /\ rsess <= tsess + 1
        /\ sources \subseteq {rsess}

=============================================================================
