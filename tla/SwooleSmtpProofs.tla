-------------------------- MODULE SwooleSmtpProofs --------------------------
(***************************************************************************)
(* The safety properties of SwooleSmtp for sessions of any length.         *)
(***************************************************************************)
EXTENDS SwooleSmtp, TLAPS

(* The life of the session, however its lines arrive.                      *)
SessionShape ==
    /\ pc \in {"idle", "dial", "greet", "send", "reply", "final"}
    /\ sock \in {"none", "open", "closed"}
    /\ pc \in {"reply", "final"} => sock # "none"
    /\ entry # told /\ entry \in BOOLEAN /\ told \in BOOLEAN
    /\ told => gone \/ shut
    /\ sock = "closed" => told
    /\ pc = "idle" /\ told => sock # "open"

Codes  == {"220", "554", "354", "other"}
Pieces == [of : Nat, code : Codes, part : {"whole", "head", "tail"}]

(* One reply, in one piece or in two.                                      *)
Whole(s, k) ==
    \E code \in Codes :
        \/ s = <<Part(k, code, "whole")>>
        \/ s = <<Part(k, code, "head"), Part(k, code, "tail")>>

Typed ==
    /\ n \in Nat /\ state \in {"command", "data"} /\ mode \in {"greeting", "command", "data"}
    /\ inbox \in Seq([packet : Nat, kind : Lines, as : {"command", "data"}])
    /\ out \in Seq(Pieces)
    /\ \E l \in Lines : pkt = <<l>>

(* What the backend has yet to read is one command, or text of a message   *)
(* with nothing after its end.                                             *)
Queued ==
    \/ inbox = <<>>
    \/ mode = "command" /\ Len(inbox) = 1 /\ inbox[1].as = "command"
    \/ /\ mode = "data"
       /\ \A i \in DOMAIN inbox : inbox[i].as = "data" /\ (inbox[i].kind = "." => i = Len(inbox))

(* Nothing is due: the modes agree, and only text is still on its way.     *)
Quiet ==
    /\ out = <<>>
    /\ alive => /\ state = mode
                /\ state = "command" => inbox = <<>>
                /\ \A i \in DOMAIN inbox : inbox[i].kind # "."

GreetingShape ==
    /\ state = "command" /\ inbox = <<>> /\ mode \in {"greeting", "command"}
    /\ out # <<>> => mode = "command" /\ Whole(out, 0)

(* The one reply that is waited for.                                       *)
Replied ==
    /\ state = "command"
    /\ out # <<>> => Whole(out, n) /\ (alive => inbox = <<>>)

CommandShape ==
    /\ Replied
    /\ alive =>
          IF out = <<>>
          THEN mode = "command" /\ \A i \in DOMAIN inbox : inbox[i].packet = n /\ inbox[i].kind = pkt[1]
          ELSE IF out[1].code = "354" THEN mode = "data" /\ pkt = <<"DATA">> ELSE mode = "command"

FinalShape ==
    /\ Replied
    /\ alive =>
          IF out = <<>>
          THEN mode = "data" /\ \A i \in DOMAIN inbox : inbox[i].kind = "." => inbox[i].packet = n
          ELSE mode = "command"

(* While plain holds: what each wait of the handler may find, and that      *)
(* between two packets the modes agree.                                    *)
PlainInv ==
    /\ Typed
    /\ alive => Queued
    /\ pc = "idle" /\ ~shut /\ sock = "none" => ~alive
    /\ sock = "open" /\ ((pc = "idle" /\ ~shut) \/ pc = "send") => Quiet
    /\ pc = "dial" => state = "command"
    /\ pc = "greet" => GreetingShape
    /\ pc = "reply" => CommandShape
    /\ pc = "final" => FinalShape
    /\ \A r \in relayed : r[1] = r[2]

IInv == SessionShape /\ (plain => PlainInv)

-----------------------------------------------------------------------------
LEMMA InitInv == Init => IInv
<1>. SUFFICES ASSUME Init  PROVE IInv
  BY Zenon
<1>1. SessionShape
  BY Zenon DEF Init, SessionShape
<1>2. Typed
  <2>1. "text" \in Lines /\ pkt = <<"text">>
    BY Zenon DEF Init, Lines
  <2>2. \E l \in Lines : pkt = <<l>>
    BY <2>1, Zenon
  <2>. QED  BY <2>2 DEF Init, Typed
<1>. QED  BY <1>1, <1>2, Zenon DEF Init, IInv, PlainInv, Queued

LEMMA SessionInv == ASSUME SessionShape, Next  PROVE SessionShape'
<1>. USE DEF SessionShape
<1>1. CASE Peers
  BY <1>1 DEF Peers, ClientCloses, BackendGreets, BackendHandles,
     BackendCloses, clientVars
<1>2. CASE OnReceive
  BY <1>2, Zenon DEF OnReceive, clientVars
<1>3. CASE Dial \/ Greeted
  BY <1>3 DEF Dial, Greeted, clientVars
<1>4. CASE DialFails \/ GreetFails \/ SendFails
  BY <1>4 DEF DialFails, GreetFails, SendFails, Fail, Return
<1>5. CASE SendCommand \/ SendData
  BY <1>5 DEF SendCommand, SendData, Return, clientVars
<1>6. CASE ReadReply \/ ReadFinal \/ ReadFails
  BY <1>6 DEF ReadReply, ReadFinal, ReadFails, Return, clientVars
<1>7. CASE OnClose
  BY <1>7, Zenon DEF OnClose
<1>8. CASE Finished
  BY <1>8, Zenon DEF Finished, vars, clientVars
<1>. QED  BY <1>1, <1>2, <1>3, <1>4, <1>5, <1>6, <1>7, <1>8, Zenon DEF Next, Handler

(* A line that arrives alone becomes one item of the inbox.                *)
LEMMA Forwards ==
  ASSUME Typed, Forwarded
  PROVE  /\ inbox' \in Seq([packet : Nat, kind : Lines, as : {"command", "data"}])
         /\ Len(inbox') = Len(inbox) + 1 /\ Len(inbox) \in Nat
         /\ \A i \in 1..Len(inbox) : inbox'[i] = inbox[i]
         /\ inbox'[Len(inbox) + 1] = [packet |-> n, kind |-> pkt[1], as |-> state]
<1>. DEFINE Item == [packet : Nat, kind : Lines, as : {"command", "data"}]
            sent == [packet |-> n, kind |-> pkt[1], as |-> state]
<1>1. PICK l \in Lines : pkt = <<l>>
  BY Zenon DEF Typed
<1>2. sent \in Item /\ inbox \in Seq(Item)
  BY <1>1, Zenon DEF Typed
<1>3. [i \in DOMAIN pkt |-> [packet |-> n, kind |-> pkt[i], as |-> state]] = <<sent>>
  BY <1>1
<1>. HIDE DEF Item, sent
<1>4. inbox' = inbox \o <<sent>>
  BY <1>3, Zenon DEF Forwarded
<1>5. inbox' \in Seq(Item) /\ Len(inbox') = Len(inbox) + 1 /\ Len(inbox) \in Nat
      /\ (\A i \in 1..Len(inbox) : inbox'[i] = inbox[i]) /\ inbox'[Len(inbox) + 1] = sent
  BY <1>2, <1>4
<1>. QED  BY <1>5, Zenon DEF Item, sent

LEMMA Appended ==
  ASSUME out \in Seq(Pieces), NEW k \in Nat, NEW code \in Codes, Reply(k, code)
  PROVE  out' \in Seq(Pieces)
<1>1. /\ Part(k, code, "whole") \in Pieces /\ Part(k, code, "head") \in Pieces
      /\ Part(k, code, "tail") \in Pieces
  BY DEF Part, Pieces
<1>2. \/ \E t \in Seq(Pieces) : out' = out \o t
      \/ \E x \in Pieces : out' = Append(out, x)
  <2>1. <<Part(k, code, "head"), Part(k, code, "tail")>> \in Seq(Pieces) /\ <<>> \in Seq(Pieces)
    BY <1>1
  <2>. QED  BY <1>1, <2>1, Zenon DEF Reply
<1>. HIDE DEF Pieces
<1>3. ASSUME NEW t \in Seq(Pieces), out' = out \o t  PROVE out' \in Seq(Pieces)
  BY <1>3
<1>4. ASSUME NEW x \in Pieces, out' = Append(out, x)  PROVE out' \in Seq(Pieces)
  BY <1>4
<1>. QED  BY <1>2, <1>3, <1>4, Zenon

(* A reply that was not there comes whole, if in two pieces.               *)
LEMMA Replies ==
  ASSUME out = <<>>, NEW k \in Nat, NEW code \in Codes, Reply(k, code)
  PROVE  /\ Whole(out', k) /\ out' # <<>> /\ out'[1].code = code
         /\ out' \in Seq(Pieces)
<1>1. /\ Part(k, code, "whole") \in Pieces /\ Part(k, code, "head") \in Pieces
      /\ Part(k, code, "tail") \in Pieces
      /\ Part(k, code, "whole").code = code /\ Part(k, code, "head").code = code
  BY DEF Part, Pieces
<1>2. \/ out' = <<Part(k, code, "whole")>>
      \/ out' = <<Part(k, code, "head"), Part(k, code, "tail")>>
  BY DEF Reply
<1>3. Whole(out', k)
  BY <1>2, Zenon DEF Whole
<1>4. CASE out' = <<Part(k, code, "whole")>>
  BY <1>1, <1>3, <1>4
<1>5. CASE out' = <<Part(k, code, "head"), Part(k, code, "tail")>>
  BY <1>1, <1>3, <1>5
<1>. QED  BY <1>2, <1>4, <1>5, Zenon

(* A read that ends with the reply has taken all of it, and its code.      *)
LEMMA Reads ==
  ASSUME NEW k, Whole(out, k), NEW chunk \in Arrived, Consume(chunk), plain'
  PROVE  /\ out' = <<>> /\ Begins(chunk) = {out[1].code}
         /\ \A i \in DOMAIN chunk : chunk[i].of = k
<1>1. PICK c \in Codes : \/ out = <<Part(k, c, "whole")>>
                         \/ out = <<Part(k, c, "head"), Part(k, c, "tail")>>
  BY Zenon DEF Whole
<1>2. PICK m \in 1..Len(out) : chunk = SubSeq(out, 1, m)
  BY Zenon DEF Arrived
<1>3. chunk[Len(chunk)].part # "head"
  BY Zenon DEF Consume
<1>4. CASE out = <<Part(k, c, "whole")>>
  <2>1. PICK x : x = Part(k, c, "whole")
    OBVIOUS
  <2>4. out = <<x>> /\ m = 1
    BY <1>2, <1>4, <2>1
  <2>2. out' = <<>> /\ Len(chunk) = 1 /\ DOMAIN chunk = {1} /\ chunk[1] = x /\ out[1] = x
    BY <1>2, <2>4 DEF Consume
  <2>3. chunk[1].of = k /\ chunk[1].part = "whole"
    BY <2>1, <2>2 DEF Part
  <2>. QED  BY <2>1, <2>2, <2>3, Zenon DEF Begins
<1>5. CASE out = <<Part(k, c, "head"), Part(k, c, "tail")>>
  <2>1. m = 2
    <3>1. out[1].part = "head" /\ Len(out) = 2
      BY <1>5 DEF Part
    <3>2. m = 1 => Len(chunk) = 1 /\ chunk[1] = out[1]
      BY <1>2, <1>5
    <3>. QED  BY <1>2, <1>3, <3>1, <3>2
  <2>5. PICK x, y : x = Part(k, c, "head") /\ y = Part(k, c, "tail")
    OBVIOUS
  <2>6. out = <<x, y>>
    BY <1>5, <2>5
  <2>2. Len(chunk) = 2 /\ chunk[1] = x /\ chunk[2] = y /\ out[1] = x
    BY <1>2, <2>1, <2>6
  <2>3. out' = <<>> /\ DOMAIN chunk = {1, 2} /\ Len(chunk) > 1
    BY <1>2, <2>1, <2>2, <2>6 DEF Consume
  <2>4. chunk[1].of = k /\ chunk[2].of = k /\ chunk[1].part = "head"
    BY <2>2, <2>5 DEF Part
  <2>. QED  BY <2>2, <2>3, <2>4, Zenon DEF Begins
<1>. QED  BY <1>1, <1>4, <1>5, Zenon

-----------------------------------------------------------------------------
LEMMA ReceivePlain == ASSUME IInv, OnReceive, plain'  PROVE PlainInv'
<1>1. plain /\ SessionShape /\ PlainInv
  BY Zenon DEF OnReceive, IInv
<1>2. PICK p \in Packets : pkt' = p /\ Len(p) = 1
  BY Zenon DEF OnReceive
<1>3. Typed'
  <2>1. \E l \in Lines : p = <<l>>
    BY <1>2 DEF Packets, Pairs
  <2>. QED  BY <1>1, <1>2, <2>1 DEF OnReceive, backendVars, PlainInv, Typed
<1>4. ~shut /\ ~gone /\ ~told /\ pc = "idle" /\ sock \in {"none", "open"}
  BY <1>1, Zenon DEF OnReceive, SessionShape
<1>5. pc' \in {"idle", "send", "dial"} /\ (pc' = "dial" => state # "data")
      /\ UNCHANGED <<state, sock, shut, relayed, mode, alive, inbox, out>>
  BY Zenon DEF OnReceive, clientVars, backendVars
<1>6. (alive => Queued)' /\ (sock = "open" => Quiet)'
  BY <1>1, <1>4, <1>5, Zenon DEF PlainInv, Queued, Quiet
<1>7. (pc = "dial" => state = "command")'
  BY <1>1, <1>5, Zenon DEF PlainInv, Typed
<1>. QED  BY <1>1, <1>3, <1>4, <1>5, <1>6, <1>7, Zenon DEF PlainInv

LEMMA DialPlain == ASSUME IInv, Dial, plain'  PROVE PlainInv'
<1>1. PlainInv /\ pc = "dial" /\ pc' = "greet"
      /\ inbox' = <<>> /\ out' = <<>> /\ mode' = "greeting"
      /\ UNCHANGED <<n, pkt, state, relayed>>
  BY Zenon DEF Dial, IInv
<1>2. Typed'
  BY <1>1 DEF PlainInv, Typed
<1>. QED  BY <1>1, <1>2, Zenon DEF PlainInv, Queued, GreetingShape

LEMMA GreetedPlain == ASSUME IInv, Greeted, plain'  PROVE PlainInv'
<1>0. PICK chunk \in Arrived : Consume(chunk)
  BY Zenon DEF Greeted
<1>4. PlainInv /\ GreetingShape /\ out # <<>>
  <2>1. out # <<>>
    BY <1>0 DEF Arrived
  <2>. QED  BY <1>0, <2>1, Zenon DEF Greeted, IInv, Consume, PlainInv
<1>1. pc = "greet" /\ pc' = "send" /\ out' = <<>>
      /\ UNCHANGED <<n, pkt, state, relayed, mode, alive, inbox>>
  BY <1>0, <1>4, Reads, Zenon DEF Greeted, GreetingShape
<1>2. Typed'
  BY <1>1, <1>4 DEF PlainInv, Typed
<1>3. Quiet' /\ Queued'
  BY <1>1, <1>4 DEF PlainInv, GreetingShape, Quiet, Queued
<1>. QED  BY <1>1, <1>2, <1>3, <1>4, Zenon DEF PlainInv

(* A session that fails is shut; what its backend still reads is not new.  *)
LEMMA FailPlain ==
  ASSUME IInv, DialFails \/ GreetFails \/ SendFails, plain'
  PROVE  PlainInv'
<1>1. PlainInv /\ pc' = "idle" /\ shut'
      /\ UNCHANGED <<n, pkt, state, relayed, mode, alive, inbox, out>>
  BY Zenon DEF DialFails, GreetFails, SendFails, Fail, Return,
     backendVars, IInv
<1>2. Typed' /\ (alive => Queued)'
  BY <1>1, Zenon DEF PlainInv, Typed, Queued
<1>. QED  BY <1>1, <1>2, Zenon DEF PlainInv

LEMMA SendCommandPlain == ASSUME IInv, SendCommand, plain'  PROVE PlainInv'
<1>1. PlainInv /\ Typed /\ Quiet /\ state = "command" /\ pc' = "reply" /\ Forwarded
      /\ UNCHANGED <<n, pkt, state, relayed, mode, alive, out>>
  BY Zenon DEF SendCommand, IInv, PlainInv
<1>2. Typed'
  BY <1>1, Forwards, Zenon DEF Typed
<1>3. ASSUME alive  PROVE mode = "command" /\ Len(inbox') = 1
                          /\ inbox'[1] = [packet |-> n, kind |-> pkt[1], as |-> "command"]
  <2>1. inbox = <<>> /\ mode = "command"
    BY <1>1, <1>3, Zenon DEF Quiet
  <2>. QED  BY <1>1, <2>1, Forwards
<1>4. (alive => Queued)'
  BY <1>1, <1>3 DEF Queued
<1>5. CommandShape'
  <2>1. alive => \A i \in DOMAIN inbox' : inbox'[i].packet = n /\ inbox'[i].kind = pkt[1]
    BY <1>2, <1>3 DEF Typed
  <2>. QED  BY <1>1, <1>3, <2>1, Zenon DEF CommandShape, Replied, Quiet
<1>. QED  BY <1>1, <1>2, <1>4, <1>5, Zenon DEF PlainInv

LEMMA SendDataPlain == ASSUME IInv, SendData, plain'  PROVE PlainInv'
<1>1. PlainInv /\ Typed /\ Quiet /\ state = "data" /\ Forwarded
      /\ sock = "open" /\ sock' \in {"open", "closed"}
      /\ state' \in {"command", "data"}
      /\ UNCHANGED <<n, pkt, relayed, mode, alive, out, shut>>
  BY Zenon DEF SendData, Return, clientVars, IInv, PlainInv
<1>2. Typed'
  BY <1>1, Forwards, Zenon DEF Typed
<1>3. DOMAIN inbox = 1..Len(inbox) /\ DOMAIN inbox' = 1..(Len(inbox) + 1) /\ Len(inbox) \in Nat
      /\ Len(inbox') = Len(inbox) + 1
  BY <1>1, <1>2, Forwards DEF Typed
<1>4. ASSUME alive  PROVE mode = "data" /\ \A i \in DOMAIN inbox' :
                            /\ inbox'[i].as = "data"
                            /\ inbox'[i].kind = "." => i = Len(inbox') /\ inbox'[i].packet = n
                            /\ inbox'[i].kind = "." => pkt[1] = "."
  <2>1. mode = "data" /\ \A i \in DOMAIN inbox : inbox[i].as = "data" /\ inbox[i].kind # "."
    BY <1>1, <1>4 DEF Quiet, PlainInv, Queued
  <2>. QED  BY <1>1, <1>3, <2>1, Forwards
<1>5. (alive => Queued)'
  BY <1>1, <1>4, Zenon DEF Queued
<1>6. CASE IsTerminator(pkt)
  <2>1. pc' = "final" /\ state' = "command"
    BY <1>6, Zenon DEF SendData
  <2>2. FinalShape'
    BY <1>1, <1>4, <2>1, Zenon DEF FinalShape, Replied, Quiet
  <2>. QED  BY <1>1, <1>2, <1>5, <2>1, <2>2, Zenon DEF PlainInv
<1>7. CASE ~IsTerminator(pkt)
  <2>1. pc' = "idle" /\ state' = "data"
    BY <1>1, <1>7, Zenon DEF SendData, Return
  <2>2. pkt[1] # "."
    <3>1. PICK l \in Lines : pkt = <<l>>
      BY <1>1, Zenon DEF Typed
    <3>2. l # "."
      BY <1>7, <3>1, Zenon DEF IsTerminator
    <3>. QED  BY <3>1, <3>2, Zenon
  <2>3. Quiet'
    BY <1>1, <1>4, <2>1, <2>2, Zenon DEF Quiet
  <2>. QED  BY <1>1, <1>2, <1>5, <2>1, <2>3, Zenon DEF PlainInv
<1>. QED  BY <1>6, <1>7, Zenon

LEMMA ReadPlain == ASSUME IInv, ReadReply \/ ReadFinal, plain'  PROVE PlainInv'
<1>2. PICK chunk \in Arrived : Consume(chunk) /\ RelayReply(chunk)
        /\ (pc = "reply" => \E code \in Begins(chunk) :
               state' = IF IsDataCommand(pkt) /\ code = "354" THEN "data" ELSE state)
        /\ (pc # "reply" => state' = state)
  BY Zenon DEF ReadReply, ReadFinal
<1>1. PlainInv /\ Typed /\ Replied /\ pc' = "idle" /\ sock = "open" /\ sock' \in {"open", "closed"}
      /\ UNCHANGED <<n, pkt, mode, alive, inbox>>
  BY <1>2, Zenon
  DEF ReadReply, ReadFinal, Return, IInv, Consume, PlainInv, CommandShape, FinalShape
<1>3. Whole(out, n) /\ (alive => inbox = <<>>)
  <2>1. out # <<>>
    BY <1>1, <1>2 DEF Arrived
  <2>. QED  BY <1>1, <2>1, Zenon DEF Replied
<1>4. /\ out' = <<>> /\ Begins(chunk) = {out[1].code}
      /\ \A i \in DOMAIN chunk : chunk[i].of = n
  BY <1>2, <1>3, Reads, Zenon
<1>5. \A r \in relayed' : r[1] = r[2]
  <2>1. \A r \in relayed' : r \in relayed \/ r = <<n, n>>
    BY <1>2, <1>3, <1>4, Zenon DEF RelayReply
  <2>. QED  BY <1>1, <2>1 DEF PlainInv
<1>6. Typed'
  BY <1>1, <1>2, <1>4 DEF Typed
<1>7. alive => state' = mode
  <2>0. out # <<>>
    BY <1>2 DEF Arrived
  <2>1. CASE pc = "reply"
    <3>1. CommandShape /\ out # <<>>
      BY <1>1, <2>0, <2>1 DEF PlainInv
    <3>. QED  BY <1>1, <1>2, <1>4, <2>1, <3>1, Zenon DEF CommandShape, Replied, IsDataCommand
  <2>2. CASE pc = "final"
    <3>1. FinalShape /\ out # <<>>
      BY <1>1, <2>0, <2>2 DEF PlainInv
    <3>. QED  BY <1>1, <1>2, <2>2, <3>1, Zenon DEF FinalShape, Replied
  <2>. QED  BY <2>1, <2>2, Zenon DEF ReadReply, ReadFinal
<1>8. Quiet' /\ (alive => Queued)'
  BY <1>1, <1>3, <1>4, <1>7 DEF Quiet, Queued
<1>. QED  BY <1>1, <1>5, <1>6, <1>8, Zenon DEF PlainInv

(* A reply is given up without breaking the order only with its backend.   *)
LEMMA ReadFailsPlain == ASSUME IInv, ReadFails, plain'  PROVE PlainInv'
<1>1. PlainInv /\ SessionShape /\ pc \in {"reply", "final"} /\ pc' = "idle"
      /\ (sock = "closed" \/ (out = <<>> /\ ~alive))
      /\ UNCHANGED <<n, pkt, state, relayed, mode, alive, inbox, out>>
  BY Zenon DEF ReadFails, Return, backendVars, IInv
<1>2. Typed' /\ (alive => Queued)'
  BY <1>1, Zenon DEF PlainInv, Typed, Queued
<1>3. sock \in {"open", "closed"} /\ sock' \in {"open", "closed"} /\ (sock' = "open" => sock = "open")
  BY <1>1, Zenon DEF SessionShape, ReadFails, Return
<1>4. (sock = "open" => Quiet)'
  BY <1>1, <1>3, Zenon DEF Quiet
<1>. QED  BY <1>1, <1>2, <1>3, <1>4, Zenon DEF PlainInv

LEMMA OnClosePlain == ASSUME IInv, OnClose, plain'  PROVE PlainInv'
<1>1. PlainInv /\ SessionShape /\ UNCHANGED <<pc, n, pkt, state, shut, relayed, mode, alive, inbox, out>>
      /\ sock' # "open" /\ (sock' = "none" => sock = "none")
  BY Zenon DEF OnClose, backendVars, IInv
<1>2. Typed' /\ (alive => Queued)'
  BY <1>1, Zenon DEF PlainInv, Typed, Queued
<1>3. (GreetingShape' <=> GreetingShape) /\ (CommandShape' <=> CommandShape) /\ (FinalShape' <=> FinalShape)
  BY <1>1, Zenon DEF GreetingShape, CommandShape, FinalShape, Replied
<1>. QED  BY <1>1, <1>2, <1>3, Zenon DEF PlainInv

LEMMA UnchangedPlain ==
  ASSUME IInv, plain',
         UNCHANGED <<pc, n, pkt, state, sock, shut, relayed, plain, mode, inbox, out>>,
         alive' => alive
  PROVE  PlainInv'
<1>1. PlainInv
  BY Zenon DEF IInv
<1>2. Typed' /\ (alive => Queued)' /\ (Quiet => Quiet')
  BY <1>1, Zenon DEF PlainInv, Typed, Queued, Quiet
<1>3. (GreetingShape => GreetingShape') /\ (Replied => Replied')
  BY Zenon DEF GreetingShape, Replied
<1>4. (CommandShape => CommandShape') /\ (FinalShape => FinalShape')
  BY <1>3, Zenon DEF CommandShape, FinalShape
<1>. QED  BY <1>1, <1>2, <1>3, <1>4, Zenon DEF PlainInv

LEMMA GreetsPlain == ASSUME IInv, BackendGreets, plain'  PROVE PlainInv'
<1>1. PlainInv /\ Typed /\ alive /\ mode = "greeting" /\ mode' = "command"
      /\ UNCHANGED <<pc, n, pkt, state, sock, shut, relayed, alive, inbox>>
  BY Zenon DEF BackendGreets, clientVars, IInv, PlainInv
<1>2. PICK code \in {"220", "554"} : Reply(0, code)
  BY Zenon DEF BackendGreets
<1>6. code \in Codes /\ 0 \in Nat
  BY DEF Codes
<1>7. out' \in Seq(Pieces)
  BY <1>1, <1>2, <1>6, Appended, Zenon DEF Typed
<1>3. Typed'
  BY <1>1, <1>7, Zenon DEF Typed
<1>4. inbox = <<>>
  BY <1>1, Zenon DEF PlainInv, Queued
<1>5. ~Quiet /\ ~(pc = "reply") /\ ~(pc = "final")
  BY <1>1, Zenon DEF PlainInv, Quiet, Typed, CommandShape, FinalShape
<1>8. ASSUME pc = "greet"  PROVE Whole(out', 0)
  <2>1. out = <<>>
    BY <1>1, <1>8, Zenon DEF PlainInv, GreetingShape
  <2>. QED  BY <1>2, <1>6, <2>1, Replies, Zenon
<1>. QED  BY <1>1, <1>3, <1>4, <1>5, <1>8, Zenon DEF PlainInv, Queued, GreetingShape

LEMMA HandlesPlain == ASSUME IInv, BackendHandles, plain'  PROVE PlainInv'
<1>. DEFINE k == Head(inbox).packet
            l == Head(inbox).kind
<1>1. PlainInv /\ Typed /\ alive /\ alive' /\ inbox # <<>> /\ inbox' = Tail(inbox)
      /\ UNCHANGED <<pc, n, pkt, state, sock, shut, relayed>>
  BY Zenon DEF BackendHandles, clientVars, IInv, PlainInv
<1>2. /\ Len(inbox) \in Nat \ {0} /\ DOMAIN inbox = 1..Len(inbox) /\ Head(inbox) = inbox[1]
      /\ Len(inbox') = Len(inbox) - 1 /\ DOMAIN inbox' = 1..(Len(inbox) - 1)
      /\ \A i \in DOMAIN inbox' : inbox'[i] = inbox[i + 1] /\ i + 1 \in DOMAIN inbox
      /\ inbox' \in Seq([packet : Nat, kind : Lines, as : {"command", "data"}])
      /\ k \in Nat /\ k = inbox[1].packet /\ l = inbox[1].kind
      /\ (Len(inbox) = 1 => inbox' = <<>>)
  <2>. DEFINE Item == [packet : Nat, kind : Lines, as : {"command", "data"}]
  <2>1. inbox \in Seq(Item)
    BY <1>1, Zenon DEF Typed
  <2>2. \A m \in Item : m.packet \in Nat
    BY Zenon
  <2>. HIDE DEF Item
  <2>3. inbox' \in Seq(Item) /\ Len(inbox) \in Nat \ {0} /\ DOMAIN inbox = 1..Len(inbox)
        /\ Head(inbox) = inbox[1] /\ inbox[1] \in Item /\ Len(inbox') = Len(inbox) - 1
    BY <1>1, <2>1
  <2>4. DOMAIN inbox' = 1..(Len(inbox) - 1)
    BY <2>3
  <2>5. \A i \in DOMAIN inbox' : inbox'[i] = inbox[i + 1] /\ i + 1 \in DOMAIN inbox
    BY <1>1, <2>1, <2>3, <2>4
  <2>6. Len(inbox) = 1 => inbox' = <<>>
    BY <2>3
  <2>. QED  BY <2>2, <2>3, <2>4, <2>5, <2>6, Zenon DEF Item, k, l
<1>3. pc # "greet" /\ ~(state = "command" /\ Quiet)
  BY <1>1, Zenon DEF PlainInv, GreetingShape, Quiet
<1>. HIDE DEF k, l
<1>4. CASE mode = "command"
  <2>1. PICK code \in {"354", "other"} :
          /\ Reply(k, code)
          /\ code = "354" => l = "DATA"
          /\ mode' = IF code = "354" THEN "data" ELSE "command"
    BY <1>4, Zenon DEF BackendHandles, k, l
  <2>2. inbox' = <<>> /\ Typed' /\ Queued'
    <3>1. code \in Codes
      BY DEF Codes
    <3>2. out' \in Seq(Pieces)
      BY <1>1, <1>2, <2>1, <3>1, Appended, Zenon DEF Typed
    <3>. QED  BY <1>1, <1>2, <1>4, <2>1, <3>2 DEF PlainInv, Queued, Typed
  <2>3. ~Quiet /\ pc # "final"
    BY <1>1, <1>3, <1>4, Zenon DEF PlainInv, Quiet, FinalShape, Replied
  <2>4. ASSUME pc = "reply"  PROVE CommandShape'
    <3>1. CommandShape /\ out = <<>> /\ k = n /\ l = pkt[1] /\ state = "command"
      BY <1>1, <1>2, <2>4 DEF PlainInv, CommandShape, Replied, k, l
    <3>2. Whole(out', n) /\ out'[1].code = code /\ out' # <<>>
      <4>1. code \in Codes
        BY DEF Codes
      <4>. QED  BY <1>2, <2>1, <3>1, <4>1, Replies, Zenon
    <3>3. code = "354" => pkt = <<"DATA">>
      <4>1. PICK m \in Lines : pkt = <<m>>
        BY <1>1, Zenon DEF Typed
      <4>2. pkt[1] = m
        BY <4>1, Zenon
      <4>. QED  BY <2>1, <3>1, <4>1, <4>2, Zenon
    <3>. QED  BY <1>1, <2>1, <2>2, <3>1, <3>2, <3>3, Zenon DEF CommandShape, Replied
  <2>. QED  BY <1>1, <1>3, <2>2, <2>3, <2>4, Zenon DEF PlainInv
<1>5. CASE mode = "data" /\ l = "."
  <2>1. Reply(k, "other") /\ mode' = "command" /\ "other" \in Codes
    BY <1>5, Zenon DEF BackendHandles, k, l, Codes
  <2>2. inbox' = <<>> /\ Typed' /\ Queued'
    <3>1. Len(inbox) = 1
      <4>1. 1 \in DOMAIN inbox /\ inbox[1].kind = "."
        BY <1>2, <1>5
      <4>2. \A i \in DOMAIN inbox : inbox[i].kind = "." => i = Len(inbox)
        BY <1>1, <1>5, Zenon DEF PlainInv, Queued
      <4>. QED  BY <4>1, <4>2, Zenon
    <3>2. out' \in Seq(Pieces)
      BY <1>1, <1>2, <2>1, Appended, Zenon DEF Typed
    <3>. QED  BY <1>1, <1>2, <2>1, <3>1, <3>2, Zenon DEF Queued, Typed
  <2>3. ~Quiet /\ pc # "reply"
    BY <1>1, <1>2, <1>5 DEF PlainInv, Quiet, CommandShape, Replied, l
  <2>4. ASSUME pc = "final"  PROVE FinalShape'
    <3>1. FinalShape /\ out = <<>> /\ k = n /\ state = "command"
      BY <1>1, <1>2, <1>5, <2>4 DEF PlainInv, FinalShape, Replied, k, l
    <3>2. Whole(out', n) /\ out' # <<>>
      BY <1>2, <2>1, <3>1, Replies, Zenon
    <3>. QED  BY <1>1, <2>1, <2>2, <3>1, <3>2, Zenon DEF FinalShape, Replied
  <2>. QED  BY <1>1, <1>3, <2>2, <2>3, <2>4, Zenon DEF PlainInv
<1>6. CASE mode = "data" /\ l # "."
  <2>1. UNCHANGED <<out, mode>>
    BY <1>6, Zenon DEF BackendHandles, k, l
  <2>2. Typed' /\ Queued'
    <3>1. \A i \in DOMAIN inbox : inbox[i].as = "data" /\ (inbox[i].kind = "." => i = Len(inbox))
      BY <1>1, <1>6, Zenon DEF PlainInv, Queued
    <3>2. \A i \in DOMAIN inbox' : inbox'[i].as = "data" /\ (inbox'[i].kind = "." => i = Len(inbox'))
      BY <1>2, <3>1
    <3>. QED  BY <1>1, <1>2, <1>6, <2>1, <3>2, Zenon DEF Queued, Typed
  <2>3. Quiet => Quiet'
    BY <1>1, <1>2, <1>6, <2>1, Zenon DEF Quiet
  <2>4. pc # "reply"
    BY <1>1, <1>2, <1>6, Zenon DEF PlainInv, CommandShape, Replied
  <2>5. ASSUME pc = "final"  PROVE FinalShape'
    <3>1. FinalShape /\ out = <<>>
      BY <1>1, <2>5, Zenon DEF PlainInv, FinalShape, Replied
    <3>. QED  BY <1>1, <1>2, <1>6, <2>1, <3>1, Zenon DEF FinalShape, Replied
  <2>. QED  BY <1>1, <1>3, <2>2, <2>3, <2>4, <2>5, Zenon DEF PlainInv
<1>7. mode # "greeting"
  BY <1>1, Zenon DEF PlainInv, Queued
<1>. QED  BY <1>1, <1>4, <1>5, <1>6, <1>7, Zenon DEF Typed

LEMMA NextInv == ASSUME IInv, [Next]_vars  PROVE IInv'
<1>1. CASE UNCHANGED vars
  BY <1>1, UnchangedPlain, Zenon DEF vars, clientVars, backendVars, IInv, SessionShape
<1>2. CASE Next
  <2>1. SessionShape'
    BY <1>2, SessionInv, Zenon DEF IInv
  <2>2. ASSUME plain'  PROVE PlainInv'
    <3>1. CASE OnReceive
      BY <2>2, <3>1, ReceivePlain, Zenon
    <3>2. CASE Dial \/ Greeted \/ DialFails \/ GreetFails \/ SendFails
      BY <2>2, <3>2, DialPlain, GreetedPlain, FailPlain, Zenon
    <3>3. CASE SendCommand \/ SendData
      BY <2>2, <3>3, SendCommandPlain, SendDataPlain, Zenon
    <3>4. CASE ReadReply \/ ReadFinal \/ ReadFails
      BY <2>2, <3>4, ReadPlain, ReadFailsPlain, Zenon
    <3>5. CASE OnClose
      BY <2>2, <3>5, OnClosePlain, Zenon
    <3>6. CASE ClientCloses \/ BackendCloses \/ Finished
      <4>1. UNCHANGED <<pc, n, pkt, state, sock, shut, relayed, plain, mode, inbox, out>> /\ (alive' => alive)
        BY <3>6 DEF ClientCloses, BackendCloses, Finished,
           vars, clientVars, backendVars
      <4>. QED  BY <2>2, <4>1, UnchangedPlain, Zenon
    <3>7. CASE BackendGreets \/ BackendHandles
      BY <2>2, <3>7, GreetsPlain, HandlesPlain, Zenon
    <3>. QED
      BY <1>2, <3>1, <3>2, <3>3, <3>4, <3>5, <3>6, <3>7, Zenon DEF Next, Peers, Handler
  <2>. QED  BY <2>1, <2>2, Zenon DEF IInv
<1>. QED  BY <1>1, <1>2, Zenon

(* The invariant holds in every state.                                     *)
THEOREM Invariance == Spec => []IInv
BY InitInv, NextInv, PTL DEF Spec

(* While lines arrive one at a time and each read of a reply takes it to   *)
(* its end, in whichever pieces replies are delivered otherwise, the PHP   *)
(* server and its backend take every line for the same thing, however the  *)
(* backend answers, closes or is replaced (Swoole.php 141-145, 226-231).   *)
THEOREM ModesAgree == Spec => []ModeAgreement
<1>1. IInv => ModeAgreement
  <2>1. ASSUME plain, alive, IInv  PROVE \A i \in DOMAIN inbox : inbox[i].as = mode
    BY <2>1 DEF IInv, PlainInv, Queued, Typed
  <2>2. ASSUME plain, alive, IInv, pc = "idle", sock = "open", ~shut  PROVE state = mode
    BY <2>2, Zenon DEF IInv, PlainInv, Quiet
  <2>. QED  BY <2>1, <2>2, Zenon DEF ModeAgreement
<1>. QED  BY <1>1, Invariance, PTL

(* Under the same conditions every reply the client gets is the one to the *)
(* packet it was read for (Swoole.php 195-200).                            *)
THEOREM RepliesAreOwn == Spec => []OwnReply
<1>1. IInv => OwnReply
  BY Zenon DEF IInv, PlainInv, OwnReply
<1>. QED  BY <1>1, Invariance, PTL

(* However lines arrive, a session whose client is closed has no backend   *)
(* connection left once its handler has ended (Swoole.php 278-287).        *)
THEOREM NothingIsLeft == Spec => []NothingLeft
<1>1. IInv => NothingLeft
  BY Zenon DEF IInv, SessionShape, NothingLeft
<1>. QED  BY <1>1, Invariance, PTL
=============================================================================
