----------------------------- MODULE ProgramInv -----------------------------
(***************************************************************************)
(* The inductive invariant that leads from the command lines of Program to *)
(* the packet sizes of AppTransfer.                                        *)
(***************************************************************************)
EXTENDS Program

\* The options -s that getopt_long has returned.
SizesRead(e) == {i \in Named(e, "s") : i <= read[e]}

Settings == [b : Nat, r : Nat, t : Nat]

\* What the two programs keep of their command lines.
ArgTypes ==
    /\ given \in [Ends -> UNION {Commands[e] : e \in Ends}]
    /\ \A e \in Ends : given[e] \in Commands[e]
    /\ read \in [Ends -> Nat] /\ \A e \in Ends : read[e] <= Len(given[e].options)
    /\ res \in [Ends -> {"good", "bad"}]
    /\ phase \in [Ends -> {"parse", "usage", "run"}]
    /\ conf \in [Ends -> Settings]
    /\ trouble \in {"may", "none"} /\ missed \subseteq Ends

\* As long as no option was bad, packets have the size of the last -s read.
SizeInv ==
    \A e \in Ends : res[e] = "good" =>
        /\ PacketSize(e) <= AppMaxSize
        /\ SizesRead(e) = {} => PacketSize(e) = AppMaxSize
        /\ SizesRead(e) # {} =>
              \E i \in SizesRead(e) :
                 /\ \A j \in SizesRead(e) : j <= i
                 /\ PacketSize(e) = given[e].options[i].value

\* application() is called when all options have been read and accepted.
RunInv ==
    \A e \in Ends : phase[e] = "run" =>
        /\ read[e] = Len(given[e].options) /\ Accepted(e)
        /\ conf[e].b \in Speeds

\* The inductive invariant of the command lines.
ArgsInv == ArgTypes /\ SizeInv /\ RunInv

=============================================================================
