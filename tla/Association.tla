---------------------------- MODULE Association -----------------------------
(***************************************************************************)
(* What a UDP association promises, whatever its queues, buffers and       *)
(* sockets do: nothing is relayed before the request was answered, nothing *)
(* more is taken after it ended, a packet that was taken is sent to a host *)
(* at most once, in any order, and the answers of the hosts go back to the *)
(* client at most once and in the order in which they were taken.          *)
(***************************************************************************)
EXTENDS Naturals, Sequences

VARIABLES phase,   \* "asking", "open" once the request is answered, or "closed"
          taken,   \* packets taken from the client
          sent,    \* those that were sent to a host, in order of sending
          heard,   \* answers taken from hosts
          back     \* those that were sent to the client, in order

avars == <<phase, taken, sent, heard, back>>

Init ==
    /\ phase = "asking"
    /\ taken = 0 /\ sent = <<>>
    /\ heard = 0 /\ back = <<>>

Open ==
    /\ phase = "asking" /\ phase' = "open"
    /\ UNCHANGED <<taken, sent, heard, back>>

Take ==
    /\ phase = "open"
    /\ taken' = taken + 1
    /\ UNCHANGED <<phase, sent, heard, back>>

Hear ==
    /\ phase = "open"
    /\ heard' = heard + 1
    /\ UNCHANGED <<phase, taken, sent, back>>

(* What was taken may still be on its way when the association ends *)
Send ==
    /\ \E n \in 1..taken :
           /\ \A i \in DOMAIN sent : sent[i] # n
           /\ sent' = Append(sent, n)
    /\ UNCHANGED <<phase, taken, heard, back>>

Return ==
    /\ Len(back) < heard
    /\ back' = Append(back, Len(back) + 1)
    /\ UNCHANGED <<phase, taken, sent, heard>>

Close ==
    /\ phase # "closed" /\ phase' = "closed"
    /\ UNCHANGED <<taken, sent, heard, back>>

Next == Open \/ Take \/ Hear \/ Send \/ Return \/ Close

Spec == Init /\ [][Next]_avars
=============================================================================
