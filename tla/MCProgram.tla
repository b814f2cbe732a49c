----------------------------- MODULE MCProgram -----------------------------
(* Program on small instances, for TLC.                                    *)
EXTENDS ProgramInv

Opt(name, value) == [name |-> name, value |-> value, scanned |-> "yes"]
Bad(name)        == [name |-> name, value |-> 0, scanned |-> "no"]

Command(operands, options) == [operands |-> operands, options |-> options]

\* Sizes up to the largest, and one more; no attempts; no timer; other speeds;
\* options given twice; an option that is not a number, before a good one.
MCCommands ==
    [tx |-> {Command(2, os) : os \in
                {<<>>, <<Opt("s", 1)>>, <<Opt("s", 4), Opt("s", 2)>>,
                 <<Opt("s", 2), Opt("s", 1)>>, <<Opt("s", 0)>>,
                 <<Bad("s"), Opt("r", 1)>>, <<Bad("other")>>,
                 <<Opt("b", 38399)>>, <<Opt("b", 115201)>>, <<Opt("b", 0)>>,
                 <<Opt("r", 0)>>, <<Bad("t")>>, <<Opt("t", 0)>>}}
            \union {Command(1, <<>>)},
     rx |-> {Command(1, os) : os \in
                {<<>>, <<Opt("s", 2)>>, <<Opt("s", 1), Opt("t", 1)>>,
                 <<Opt("b", 230400)>>, <<Bad("r")>>, <<Opt("r", 0)>>}}]
=============================================================================
