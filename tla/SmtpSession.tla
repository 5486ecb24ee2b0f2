----------------------------- MODULE SmtpSession -----------------------------
(***************************************************************************)
(* One client session of the Rust SMTP proxy (server/smtp/server.rs) with  *)
(* the backend it talks to.  The proxy tracks whether the session is in    *)
(* command or data mode from what the client sends and the backend says,   *)
(* and reads the backend only when it expects a reply, once per reply.     *)
(*                                                                         *)
(* A client may send any line at any time, so a line is chosen when it is  *)
(* read.  The backend is external: an SMTP server that answers commands in *)
(* order, may refuse DATA, may be slow and may close at any time.  A reply *)
(* may reach the proxy in two pieces when Split holds.                     *)
(***************************************************************************)
EXTENDS Naturals, Sequences

CONSTANTS
    MaxLines,   \* bound on the lines of a session
    Split       \* a reply of the backend may arrive in two reads

ASSUME SmtpAssumption == MaxLines \in Nat /\ Split \in BOOLEAN

VARIABLES
    pc,         \* the point handle_client has reached
    state,      \* Connection.state
    backend,    \* Connection.backend is set
    n,          \* the number of the line being handled
    line,       \* what kind of line it is
    gone,       \* the client has closed its end
    relayed,    \* <<k, reply, part>>: sent to the client while handling line k
    torn,       \* some read has ended in the middle of a reply
    mode,       \* the backend's own mode
    alive,      \* the backend has its end open
    inbox,      \* lines on their way to the backend
    out         \* replies on their way to the proxy

proxyVars   == <<state, backend, n, line, relayed, torn>>
backendVars == <<mode, alive, inbox, out>>
vars == <<pc, proxyVars, backendVars, gone>>

(* Lines, as command_token, parse_helo_domain, is_data_only_line and the   *)
(* terminator test tell them apart.  All of them may occur in a message.   *)
Hello == "EHLO domain"
Verbs == {"MAIL", "DATA", "DATA arg", "QUIT"}
Lines == {Hello, "EHLO", "text", ".", " .", "too long"} \cup Verbs

IsTerminator == line \in {".", " ."}

PC == {"line", "dial", "greet", "write", "reply", "final", "closed"}

Init ==
    /\ pc = "line"
    /\ state = "Command" /\ backend = FALSE
    /\ n = 0 /\ line = "text"
    /\ gone = FALSE
    /\ relayed = {} /\ torn = FALSE
    /\ mode = "greeting" /\ alive = FALSE
    /\ inbox = <<>> /\ out = <<>>

-----------------------------------------------------------------------------
(* The peers.                                                              *)

ClientClose ==
    /\ ~gone
    /\ gone' = TRUE
    /\ UNCHANGED <<pc, proxyVars, backendVars>>

Piece(k, code, part) == [of |-> k, code |-> code, part |-> part]

Reply(k, code) ==
    \/ out' = Append(out, Piece(k, code, "whole"))
    \/ Split /\ out' = out \o <<Piece(k, code, "head"), Piece(k, code, "tail")>>

BackendGreets ==
    /\ alive /\ mode = "greeting"
    /\ \E code \in {"220", "554"} : Reply(0, code)
    /\ mode' = "Command"
    /\ UNCHANGED <<pc, proxyVars, alive, inbox, gone>>

(* In command mode every line is answered; in data mode only the dot is.   *)
BackendHandles ==
    /\ alive /\ inbox # <<>>
    /\ LET k == Head(inbox).line
           l == Head(inbox).kind
       IN  \/ /\ mode = "Command" /\ l = "DATA"
              /\ Reply(k, "354") /\ mode' = "Data"
           \/ /\ mode = "Command"
              /\ Reply(k, "other") /\ mode' = mode
           \/ /\ mode = "Data" /\ l = "."
              /\ Reply(k, "other") /\ mode' = "Command"
           \/ /\ mode = "Data" /\ l # "."
              /\ UNCHANGED <<out, mode>>
    /\ inbox' = Tail(inbox)
    /\ UNCHANGED <<pc, proxyVars, alive, gone>>

BackendCloses ==
    /\ alive
    /\ alive' = FALSE
    /\ UNCHANGED <<pc, proxyVars, mode, inbox, out, gone>>

-----------------------------------------------------------------------------
(* Mistakes of the kind this code invites, for checking that the           *)
(* properties notice them; no action uses these.                           *)

(* After DATA any reply but 354 is left waiting in the buffer.             *)
ReadReplyOnly354 ==
    /\ pc = "reply" /\ out # <<>>
    /\ line = "DATA" => out[1].code = "354"
    /\ out' = <<>>
    /\ relayed' = relayed \cup {<<n, out[i].of, out[i].part>> : i \in DOMAIN out}
    /\ state' = IF line = "DATA" THEN "Data" ELSE state
    /\ pc' = IF line = "QUIT" THEN "closed" ELSE "line"
    /\ UNCHANGED <<backend, n, line, torn, mode, alive, inbox, gone>>

(* The reply that was relayed stays in the buffer.                         *)
ReadReplyKeeps ==
    /\ pc = "reply"
    /\ out # <<>>
    /\ relayed' = relayed \cup {<<n, out[1].of, out[1].part>>}
    /\ state' = IF line = "DATA" /\ out[1].code = "354" THEN "Data" ELSE state
    /\ pc' = IF line = "QUIT" THEN "closed" ELSE "line"
    /\ UNCHANGED <<backend, n, line, torn, backendVars, gone>>

(* DATA switches the mode whatever the backend answers.                    *)
ReadReplyAlwaysData ==
    /\ pc = "reply"
    /\ out # <<>>
    /\ out' = <<>>
    /\ relayed' = relayed \cup {<<n, out[i].of, out[i].part>> : i \in DOMAIN out}
    /\ state' = IF line = "DATA" THEN "Data" ELSE state
    /\ pc' = IF line = "QUIT" THEN "closed" ELSE "line"
    /\ UNCHANGED <<backend, n, line, torn, mode, alive, inbox, gone>>

(* The reply to the terminator is awaited without a timeout.               *)
TimeoutNotFinal ==
    /\ pc \in {"greet", "reply"}
    /\ alive /\ out = <<>>
    /\ pc' = "closed"
    /\ UNCHANGED <<proxyVars, backendVars, gone>>

-----------------------------------------------------------------------------
(* handle_client: any error of a handler is answered with 421 and ends the *)
(* session.                                                                *)

Fail421 ==
    /\ pc' = "closed"
    /\ UNCHANGED <<proxyVars, backendVars, gone>>

ReadLine ==
    /\ pc = "line" /\ n < MaxLines /\ ~gone
    /\ n' = n + 1
    /\ \E l \in Lines :
        /\ line' = l
        /\ pc' = IF l = "too long" THEN "closed"
                 ELSE IF state = "Data" \/ l \in Verbs THEN "write"
                 ELSE IF l = Hello THEN "dial"
                 ELSE "line"            \* 500 or 501, from the proxy itself
    /\ UNCHANGED <<state, backend, relayed, torn, backendVars, gone>>

ReadEof ==
    /\ pc = "line" /\ gone
    /\ pc' = "closed"
    /\ UNCHANGED <<proxyVars, backendVars, gone>>

(* handle_helo: route and connect_to_backend, which reads the greeting.    *)
Dial ==
    /\ pc = "dial"
    /\ pc' = "greet"
    /\ mode' = "greeting" /\ alive' = TRUE /\ inbox' = <<>> /\ out' = <<>>
    /\ UNCHANGED <<proxyVars, gone>>

DialFails ==
    /\ pc = "dial"
    /\ Fail421

(* A read takes whatever has arrived, one piece or more.                   *)
Arrived == {SubSeq(out, 1, k) : k \in 1..Len(out)}

Consume(chunk) ==
    /\ out' = SubSeq(out, Len(chunk) + 1, Len(out))
    /\ torn' = (torn \/ chunk[Len(chunk)].part = "head")

StartsWith(chunk, code) == chunk[1].code = code /\ chunk[1].part # "tail"

ReadGreeting ==
    /\ pc = "greet"
    /\ \E chunk \in Arrived :
        \/ /\ StartsWith(chunk, "220")
           /\ Consume(chunk)
           /\ backend' = TRUE
           /\ pc' = "write"
           /\ UNCHANGED <<state, n, line, relayed, mode, alive, inbox, gone>>
        \/ /\ ~StartsWith(chunk, "220")
           /\ Fail421

(* The write of forward_command and of forward_data.  A write to a closed  *)
(* socket may still succeed.                                               *)
Write ==
    /\ pc = "write" /\ backend
    /\ inbox' = Append(inbox, [line |-> n, kind |-> line, as |-> state])
    /\ pc' = IF state = "Command" THEN "reply"
             ELSE IF IsTerminator THEN "final" ELSE "line"
    /\ UNCHANGED <<proxyVars, mode, alive, out, gone>>

(* No backend, an error, or a timeout of a backend that does not read.     *)
WriteFails ==
    /\ pc = "write"
    /\ Fail421

Relay(chunk) ==
    relayed' = relayed \cup {<<n, chunk[i].of, chunk[i].part>> : i \in DOMAIN chunk}

(* forward_command: the reply, and data mode if it accepts DATA.           *)
ReadReply ==
    /\ pc = "reply"
    /\ \E chunk \in Arrived :
        /\ Consume(chunk)
        /\ Relay(chunk)
        /\ state' = IF line = "DATA" /\ StartsWith(chunk, "354") THEN "Data" ELSE state
    /\ pc' = IF line = "QUIT" THEN "closed" ELSE "line"
    /\ UNCHANGED <<backend, n, line, mode, alive, inbox, gone>>

(* forward_data: the reply to the terminator.                              *)
ReadFinal ==
    /\ pc = "final"
    /\ \E chunk \in Arrived : Consume(chunk) /\ Relay(chunk)
    /\ state' = "Command"
    /\ pc' = "line"
    /\ UNCHANGED <<backend, n, line, mode, alive, inbox, gone>>

(* The backend has closed: an error everywhere but after the terminator.   *)
ReadNothing ==
    /\ pc \in {"greet", "reply"}
    /\ ~alive /\ out = <<>>
    /\ Fail421

ReadFinalNothing ==
    /\ pc = "final"
    /\ ~alive /\ out = <<>>
    /\ state' = "Command"
    /\ pc' = "line"
    /\ UNCHANGED <<backend, n, line, relayed, torn, backendVars, gone>>

(* Timeouts, which are the backend's failure only if it owes something.    *)
Timeout ==
    /\ pc \in {"greet", "reply", "final"}
    /\ alive /\ out = <<>>
    /\ Fail421

(* A write to a client that is gone ends the session too.                  *)
ClientWriteFails ==
    /\ pc \in {"reply", "final"}
    /\ gone /\ out # <<>>
    /\ pc' = "closed"
    /\ UNCHANGED <<proxyVars, backendVars, gone>>

-----------------------------------------------------------------------------
Backend == BackendGreets \/ BackendHandles \/ BackendCloses

Session ==
    \/ ReadEof \/ Dial \/ DialFails \/ ReadGreeting \/ Write \/ WriteFails
    \/ ReadReply \/ ReadFinal \/ ReadNothing \/ ReadFinalNothing \/ Timeout
    \/ ClientWriteFails

Finished == pc = "closed" /\ gone /\ UNCHANGED vars

Next == ClientClose \/ Backend \/ ReadLine \/ Session \/ Finished

Spec == Init /\ [][Next]_vars

(* The task keeps running; every wait on the backend has a timeout.  When  *)
(* the client or the backend act is not assumed.                           *)
FairSpec == Spec /\ WF_vars(Session)

-----------------------------------------------------------------------------
(* Properties.                                                             *)

(* As long as every reply has been read whole, proxy and backend agree on  *)
(* what a line is: one the proxy took for message text is never executed   *)
(* by the backend as a command, nor a command swallowed as text            *)
(* (connection.rs 8-10, server.rs 322-324, 363).                           *)
ModeAgreement ==
    ~torn /\ alive =>
        /\ \A i \in DOMAIN inbox : inbox[i].as = mode
        /\ backend /\ pc = "line" => state = mode

(* As long as every reply has been read whole, what the client gets for a  *)
(* line is the reply to that line.                                         *)
OwnReply == ~torn => \A r \in relayed : r[1] = r[2]

(* A reply that the backend has sent reaches the client or the session     *)
(* ends; it waits for the client's next line only if it was torn           *)
(* (server.rs 276).                                                        *)
ReplyRelayed == (out # <<>>) ~> (out = <<>> \/ torn \/ pc = "closed")

(* A session whose client has gone away comes to its end, whatever the     *)
(* backend does.                                                           *)
SessionEnds == gone ~> pc = "closed"
=============================================================================
