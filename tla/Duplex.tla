-------------------------------- MODULE Duplex --------------------------------
(***************************************************************************)
(* What a relay between a client and a backend promises: two streams, each *)
(* of which delivers the bytes it was given in order, none twice and none  *)
(* left out.  When the session ends, what has not been delivered may be    *)
(* cut off, but only from the end of the stream.                           *)
(***************************************************************************)
EXTENDS Naturals, Sequences

CONSTANT Limit      \* Limit[d]: bound on the bytes sent on stream d

VARIABLES
    sent,           \* sent[d]: the number of bytes sent; byte k is k
    pipe,           \* pipe[d]: the bytes on their way
    got,            \* got[d]: the bytes delivered
    open            \* the session has not ended

vars == <<sent, pipe, got, open>>

Dir == {"up", "down"}

Init ==
    /\ sent = [d \in Dir |-> 0]
    /\ pipe = [d \in Dir |-> <<>>]
    /\ got = [d \in Dir |-> <<>>]
    /\ open = TRUE

Send(d) ==
    /\ open /\ sent[d] < Limit[d]
    /\ sent' = [sent EXCEPT ![d] = @ + 1]
    /\ pipe' = [pipe EXCEPT ![d] = Append(@, sent[d] + 1)]
    /\ UNCHANGED <<got, open>>

Deliver(d) ==
    /\ pipe[d] # <<>>
    /\ pipe' = [pipe EXCEPT ![d] = Tail(@)]
    /\ got' = [got EXCEPT ![d] = Append(@, Head(pipe[d]))]
    /\ UNCHANGED <<sent, open>>

End ==
    /\ open
    /\ open' = FALSE
    /\ \E up \in 0..Len(pipe["up"]), down \in 0..Len(pipe["down"]) :
           pipe' = [d \in Dir |-> SubSeq(pipe[d], 1, IF d = "up" THEN up ELSE down)]
    /\ UNCHANGED <<sent, got>>

Next == (\E d \in Dir : Send(d) \/ Deliver(d)) \/ End

Spec == Init /\ [][Next]_vars
=============================================================================
