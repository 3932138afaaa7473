------------------------------ MODULE Replies ------------------------------
(***************************************************************************)
(* What an editor may expect of a language server it goes on typing at:    *)
(* every reply is to a call it made, replies come in the order of the      *)
(* calls and at most once, and a reply that points into a file points into *)
(* a text the user has seen there since the call.  Module MesonLsp         *)
(* implements this (MesonLsp!RepliesSpec).                                 *)
(***************************************************************************)
EXTENDS Integers, Sequences

CONSTANTS
    Place,      \* the <<file, text>> pairs a reply may point into
    Nowhere     \* what a null reply points into

VARIABLES
    since,      \* since[i]: the places the user has seen since call i
    sent,       \* the replies on their way: to which call, and the place
    received    \* the replies the editor has

vars == <<since, sent, received>>

Init == since = <<>> /\ sent = {} /\ received = <<>>

Call ==
    /\ \E S \in SUBSET Place : since' = Append(since, S)
    /\ UNCHANGED <<sent, received>>

Change ==
    /\ \E p \in Place : since' = [i \in DOMAIN since |-> since[i] \union {p}]
    /\ UNCHANGED <<sent, received>>

Reply(i) ==
    /\ \A r \in sent : r.call < i
    /\ \A k \in DOMAIN received : received[k].call < i
    /\ \E p \in since[i] \union {Nowhere} :
          sent' = sent \union {[call |-> i, place |-> p]}
    /\ UNCHANGED <<since, received>>

Receive ==
    \E r \in sent :
        /\ \A s \in sent : r.call <= s.call
        /\ sent' = sent \ {r}
        /\ received' = Append(received, r)
        /\ UNCHANGED since

Next == Call \/ Change \/ Receive \/ \E i \in DOMAIN since : Reply(i)

Spec == Init /\ [][Next]_vars
=============================================================================
