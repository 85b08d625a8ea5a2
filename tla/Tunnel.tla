------------------------------- MODULE Tunnel --------------------------------
(***************************************************************************)
(* What a proxied connection promises, whatever protocol opens it: a pair  *)
(* of one-place channels between the local client and the remote host.  A  *)
(* chunk is taken from one side only when the one before it was given to   *)
(* the other, chunks are given in the order and with the content they were *)
(* taken, nothing is taken before the tunnel is open or after it is        *)
(* closed, and a closed tunnel is never opened again.                      *)
(***************************************************************************)
EXTENDS Naturals, Sequences

CONSTANT Ids

VARIABLES phase,           \* [Ids -> {"new", "opening", "open", "closed"}]
          upTaken, upGiven,      \* chunks from the client, chunks to the remote host
          downTaken, downGiven   \* chunks from the remote host, chunks to the client

vars == <<phase, upTaken, upGiven, downTaken, downGiven>>

Init ==
    /\ phase = [i \in Ids |-> "new"]
    /\ upTaken = [i \in Ids |-> 0] /\ upGiven = [i \in Ids |-> <<>>]
    /\ downTaken = [i \in Ids |-> 0] /\ downGiven = [i \in Ids |-> <<>>]

(* A tunnel moves from phase a to phase b and its channels are untouched *)
Move(i, a, b) ==
    /\ phase[i] = a
    /\ phase' = [phase EXCEPT ![i] = b]
    /\ UNCHANGED <<upTaken, upGiven, downTaken, downGiven>>

Accept(i) == Move(i, "new", "opening")
Open(i)   == Move(i, "opening", "open")
Close(i)  == Move(i, "opening", "closed") \/ Move(i, "open", "closed")

TakeUp(i) ==
    /\ phase[i] = "open"
    /\ upTaken[i] = Len(upGiven[i])
    /\ upTaken' = [upTaken EXCEPT ![i] = @ + 1]
    /\ UNCHANGED <<phase, upGiven, downTaken, downGiven>>

TakeDown(i) ==
    /\ phase[i] = "open"
    /\ downTaken[i] = Len(downGiven[i])
    /\ downTaken' = [downTaken EXCEPT ![i] = @ + 1]
    /\ UNCHANGED <<phase, upTaken, upGiven, downGiven>>

(* The chunk that is on its way may still arrive after the tunnel closed *)
GiveUp(i) ==
    /\ Len(upGiven[i]) < upTaken[i]
    /\ upGiven' = [upGiven EXCEPT ![i] = Append(@, upTaken[i])]
    /\ UNCHANGED <<phase, upTaken, downTaken, downGiven>>

GiveDown(i) ==
    /\ Len(downGiven[i]) < downTaken[i]
    /\ downGiven' = [downGiven EXCEPT ![i] = Append(@, downTaken[i])]
    /\ UNCHANGED <<phase, upTaken, upGiven, downTaken>>

Next == \E i \in Ids : \/ Accept(i) \/ Open(i) \/ Close(i)
                       \/ TakeUp(i) \/ GiveUp(i)
                       \/ TakeDown(i) \/ GiveDown(i)

Spec == Init /\ [][Next]_vars

-----------------------------------------------------------------------------
(* given holds the first of n chunks, in order, and lacks one at most *)
Prefix(n, given) == n \in {Len(given), Len(given) + 1} /\ \A k \in 1..Len(given) : given[k] = k

(* At every moment each side has all that the other sent, but one chunk.    *)
Arrived == \A i \in Ids : Prefix(upTaken[i], upGiven[i]) /\ Prefix(downTaken[i], downGiven[i])
=============================================================================
