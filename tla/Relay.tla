--------------------------------- MODULE Relay ---------------------------------
(***************************************************************************)
(* The bytes of one session of the Rust TCP proxy in user space: the first *)
(* packet that run_client reads and sends to the backend, and then either  *)
(* forward_serialised, which is what runs while the adapter's cache keeps  *)
(* an Arc of the connection, or tokio's copy_bidirectional.                *)
(*                                                                         *)
(* Socket buffers are bounded, so a write waits for its reader.  Stream d  *)
(* is "up" from the client to the backend or "down" from the backend to    *)
(* the client; recv[d] is what its sender has put into the proxy's socket, *)
(* buf[d] what the proxy has read and not written, send[d] what it has     *)
(* written and the receiver has not read.                                  *)
(***************************************************************************)
EXTENDS Naturals, Sequences

CONSTANTS
    Limit,          \* Limit[d]: bound on the bytes sent on stream d
    Cap             \* the bytes a socket buffer holds

ASSUME RelayAssumption ==
    /\ Limit \in [{"up", "down"} -> Nat]
    /\ Cap \in Nat \ {0}

VARIABLES
    phase,          \* "first", "initial", "serial" or "copy", "closed"
    at,             \* at[d]: what the proxy does on stream d
    recv, buf, send,
    sent,           \* sent[d]: bytes sent; byte k is the number k
    got,            \* got[d]: bytes received at the far end
    fin,            \* fin[d]: the sender of d has ended its stream
    finished,       \* finished[d]: the proxy has ended d to its receiver
    gone            \* gone[d]: the receiver of d has closed its socket

streamVars == <<sent, got, fin, gone>>
relayVars == <<phase, at, recv, buf, send, streamVars, finished>>

Dir == {"up", "down"}
Other(d) == IF d = "up" THEN "down" ELSE "up"

RelayInit ==
    /\ phase = "first"
    /\ at = [d \in Dir |-> "read"]
    /\ recv = [d \in Dir |-> <<>>]
    /\ buf = [d \in Dir |-> <<>>]
    /\ send = [d \in Dir |-> <<>>]
    /\ sent = [d \in Dir |-> 0]
    /\ got = [d \in Dir |-> <<>>]
    /\ fin = [d \in Dir |-> FALSE]
    /\ finished = [d \in Dir |-> FALSE]
    /\ gone = [d \in Dir |-> FALSE]

-----------------------------------------------------------------------------
(* The two applications.  The backend exists from its dial on.             *)

Running == phase # "closed"

PeerSends(d) ==
    /\ Running /\ ~fin[d]
    /\ d = "down" => phase # "first"
    /\ sent[d] < Limit[d] /\ Len(recv[d]) < Cap
    /\ sent' = [sent EXCEPT ![d] = @ + 1]
    /\ recv' = [recv EXCEPT ![d] = Append(@, sent[d] + 1)]
    /\ UNCHANGED <<phase, at, buf, send, got, fin, gone, finished>>

PeerReceives(d) ==
    /\ send[d] # <<>> /\ ~gone[d]
    /\ send' = [send EXCEPT ![d] = Tail(@)]
    /\ got' = [got EXCEPT ![d] = Append(@, Head(send[d]))]
    /\ UNCHANGED <<phase, at, recv, buf, sent, fin, gone, finished>>

(* shutdown of the sending side, or close, which ends both.                *)
PeerEnds(d) ==
    /\ Running /\ ~fin[d]
    /\ d = "down" => phase # "first"
    /\ fin' = [fin EXCEPT ![d] = TRUE]
    /\ gone' \in {gone, [gone EXCEPT ![Other(d)] = TRUE]}
    /\ UNCHANGED <<phase, at, recv, buf, send, sent, got, finished>>

-----------------------------------------------------------------------------
(* Both sockets are dropped.  What was written may still be received.      *)
Close ==
    /\ phase' = "closed"
    /\ finished' = [d \in Dir |-> TRUE]
    /\ UNCHANGED <<at, recv, buf, send, streamVars>>

(* The first packet is sent: the loop that follows is the serialised one   *)
(* while the Arc of the backend is shared, and the copy when it is not.    *)
Relaying == {"serial", "copy"}

(* A read returns some of what has arrived.                                *)
Take(d) ==
    \E k \in 1..Len(recv[d]) :
        /\ buf' = [buf EXCEPT ![d] = SubSeq(recv[d], 1, k)]
        /\ recv' = [recv EXCEPT ![d] = SubSeq(@, k + 1, Len(@))]

AtEof(d) == recv[d] = <<>> /\ fin[d]

(* One byte of a write_all.                                                *)
Put(d) ==
    /\ buf[d] # <<>> /\ Len(send[d]) < Cap
    /\ send' = [send EXCEPT ![d] = Append(@, Head(buf[d]))]
    /\ buf' = [buf EXCEPT ![d] = Tail(@)]

(* run_client: the first packet.                                           *)
ReadInitial ==
    /\ phase = "first"
    /\ Take("up")
    /\ phase' = "initial"
    /\ UNCHANGED <<at, send, streamVars, finished>>

ReadInitialFails == phase = "first" /\ AtEof("up") /\ Close

SendInitial ==
    /\ phase = "initial"
    /\ Put("up")
    /\ phase' \in IF Len(buf["up"]) = 1 THEN Relaying ELSE {phase}
    /\ UNCHANGED <<at, recv, streamVars, finished>>

SendInitialFails == phase = "initial" /\ gone["up"] /\ Close

-----------------------------------------------------------------------------
(* Mistakes of the kind this code invites, for checking that the           *)
(* properties notice them; no action uses these.                           *)

(* The loop reads again before the write is done.                          *)
SerialReadEarly(d) ==
    /\ phase = "serial"
    /\ Take(d)
    /\ at' = [at EXCEPT ![d] = "write"]
    /\ UNCHANGED <<phase, send, streamVars, finished>>

(* The loop ends once a peer has ended its stream, whatever it has not     *)
(* read of it.                                                             *)
SerialEndsOnFin ==
    /\ phase = "serial" /\ \A d \in Dir : at[d] = "read"
    /\ \E d \in Dir : fin[d]
    /\ Close

-----------------------------------------------------------------------------
(* forward_serialised: one loop; while it writes it reads neither socket,  *)
(* and the end of either stream ends the session.                          *)

Selecting == \A d \in Dir : at[d] = "read"

SerialRead(d) ==
    /\ phase = "serial" /\ Selecting
    /\ Take(d)
    /\ at' = [at EXCEPT ![d] = "write"]
    /\ UNCHANGED <<phase, send, streamVars, finished>>

SerialWrite(d) ==
    /\ phase = "serial" /\ at[d] = "write"
    /\ Put(d)
    /\ at' = IF Len(buf[d]) = 1 THEN [at EXCEPT ![d] = "read"] ELSE at
    /\ UNCHANGED <<phase, recv, streamVars, finished>>

SerialEnds ==
    /\ phase = "serial"
    /\ \/ Selecting /\ \E d \in Dir : AtEof(d)
       \/ \E d \in Dir : at[d] = "write" /\ gone[d]
    /\ Close

-----------------------------------------------------------------------------
(* copy_bidirectional: both streams at once; the end of one is passed on,  *)
(* the end of both or an error ends the session.                           *)

CopyRead(d) ==
    /\ phase = "copy" /\ at[d] = "read"
    /\ Take(d)
    /\ at' = [at EXCEPT ![d] = "write"]
    /\ UNCHANGED <<phase, send, streamVars, finished>>

CopyWrite(d) ==
    /\ phase = "copy" /\ at[d] = "write"
    /\ Put(d)
    /\ at' = IF Len(buf[d]) = 1 THEN [at EXCEPT ![d] = "read"] ELSE at
    /\ UNCHANGED <<phase, recv, streamVars, finished>>

CopyEof(d) ==
    /\ phase = "copy" /\ at[d] = "read" /\ AtEof(d)
    /\ at' = [at EXCEPT ![d] = "done"]
    /\ finished' = [finished EXCEPT ![d] = TRUE]
    /\ UNCHANGED <<phase, recv, buf, send, streamVars>>

CopyEnds ==
    /\ phase = "copy"
    /\ \/ \A d \in Dir : at[d] = "done"
       \/ \E d \in Dir : at[d] = "write" /\ gone[d]
    /\ Close

-----------------------------------------------------------------------------
Peer(d) == PeerSends(d) \/ PeerReceives(d) \/ PeerEnds(d)

Serial == SerialEnds \/ \E d \in Dir : SerialRead(d) \/ SerialWrite(d)

Copy(d) == CopyRead(d) \/ CopyWrite(d) \/ CopyEof(d)

Initial == ReadInitial \/ ReadInitialFails \/ SendInitial \/ SendInitialFails

Ended == phase = "closed" /\ UNCHANGED relayVars

RelayNext == (\E d \in Dir : Peer(d) \/ Copy(d)) \/ Initial \/ Serial \/ CopyEnds \/ Ended

RelaySpec == RelayInit /\ [][RelayNext]_relayVars

(* The session's task keeps running.  The client receives what it is sent; *)
(* the backend first sends all it has to say and then receives, as a       *)
(* server that answers before it reads on may do.                          *)
RelayFairSpec ==
    /\ RelaySpec
    /\ WF_relayVars(Initial) /\ WF_relayVars(Serial) /\ WF_relayVars(CopyEnds)
    /\ \A d \in Dir : WF_relayVars(Copy(d))
    /\ WF_relayVars(PeerReceives("down")) /\ WF_relayVars(PeerSends("down"))
    /\ WF_relayVars(PeerReceives("up") /\ (sent["down"] = Limit["down"] \/ fin["down"]))

-----------------------------------------------------------------------------
(* Properties.                                                             *)

(* The relay keeps the promise of Duplex: what is in the two sockets and   *)
(* in the proxy's hands is the pipe, and a session that ends early cuts it *)
(* off behind what was already written (server.rs 286-369).                *)
Pipe(d) == send[d] \o (IF Running THEN buf[d] \o recv[d] ELSE <<>>)

Stream == INSTANCE Duplex WITH pipe <- [d \in Dir |-> Pipe(d)], open <- Running

ImplementsDuplex == Stream!Spec

(* A peer keeps reading: what it has been sent is read, again and again,   *)
(* until it closes its socket.                                             *)
KeepsReading(d) == []<>(send[d] = <<>> \/ gone[d])

(* With two peers that keep reading, the one loop of forward_serialised    *)
(* gets every byte across, however the reads and writes of the two streams *)
(* alternate.  Byte k of a stream arrives unless the other stream ends or  *)
(* its sender receives no more; the sender's own end of the stream does    *)
(* not overtake it (server.rs 342-368).                                    *)
SerialDelivers ==
    (KeepsReading("up") /\ KeepsReading("down")) =>
        \A d \in Dir : \A k \in 1..Limit[d] :
            (phase = "serial" /\ sent[d] >= k)
                ~> (Len(got[d]) >= k \/ fin[Other(d)] \/ gone[Other(d)])

(* What the comment on the fallback says of it, that it is correct         *)
(* (server.rs 330-332): as long as neither peer ends its stream, every     *)
(* byte that one of them sends reaches the other.                          *)
KeepsMoving ==
    \A d \in Dir : \A k \in 1..Limit[d] :
        (phase = "serial" /\ sent[d] >= k)
            ~> (Len(got[d]) >= k \/ fin["up"] \/ fin["down"])
=============================================================================
