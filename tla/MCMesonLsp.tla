----------------------------- MODULE MCMesonLsp -----------------------------
(* Instances of MesonLsp: a root with one subdir (Flat), and a chain of three *)
(* directories (Deep).  A clean text includes the next directory, a faulty    *)
(* one includes nothing.                                                      *)
EXTENDS MesonLsp

CONSTANTS top, sub, leaf

Single == {top}
Flat == {top, sub}
Deep == {top, sub, leaf}

MCContent == {"clean", "faulty"}
MCFaulty  == {"faulty"}

SingleIncludes == [f \in Single |-> [c \in MCContent |-> {}]]
FlatIncludes == [f \in Flat |-> [c \in MCContent |->
                    IF f = top /\ c = "clean" THEN {sub} ELSE {}]]
DeepIncludes == [f \in Deep |-> [c \in MCContent |->
                    IF c = "faulty" THEN {} ELSE IF f = top THEN {sub}
                    ELSE IF f = sub THEN {leaf} ELSE {}]]
=============================================================================
