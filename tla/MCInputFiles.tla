---------------------------- MODULE MCInputFiles ----------------------------
(***************************************************************************)
(* Two messages of one conversation and one of another; the second was     *)
(* admitted under a smaller temp_bytes than the others.                    *)
(***************************************************************************)
EXTENDS InputFiles

CONSTANTS m1, m2, m3

TwoThreads == [m \in Messages |-> IF m = m3 THEN "c2" ELSE "c1"]
SomeKinds == [m \in Messages |->
                IF m = m1 THEN <<"file", "image">> ELSE IF m = m2 THEN <<"file">> ELSE <<"text">>]
SomeInput == [m \in Messages |-> IF m = m3 THEN 1 ELSE 2]
SomeTemp == [m \in Messages |-> IF m = m2 THEN 2 ELSE 3]
=============================================================================
