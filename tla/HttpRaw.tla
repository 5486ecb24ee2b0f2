------------------------------- MODULE HttpRaw -------------------------------
(***************************************************************************)
(* One request of the Rust HTTP proxy with raw_backend set: handle and     *)
(* forward_raw_request (server/http/handler.rs), which writes the request  *)
(* on a connection of its own and cuts the reply out of the bytes that     *)
(* come back.  TCP hands them over in pieces of any size.                  *)
(*                                                                         *)
(* A byte is "r", "n" (of CR LF) or "b" (any other); a reply is a header   *)
(* and the bytes behind it, in one of the framings the parser tells apart. *)
(* The Content-Length is a number of its own: a backend may send fewer     *)
(* bytes than it declares, or more.  A length that is no usize counts as   *)
(* none.                                                                   *)
(***************************************************************************)
EXTENDS Naturals, Sequences, FiniteSetsExt

CONSTANTS
    Body,           \* what a backend may send behind the header
    Length,         \* the lengths it may declare
    Capacity,       \* the largest buffer that can be had
    ReadSize        \* the bytes one read returns at most (8192 in the code)

ASSUME RawAssumption ==
    /\ Body \subseteq Seq({"b", "r", "n"})
    /\ Length \subseteq Nat /\ Capacity \in Nat
    /\ ReadSize \in Nat \ {0}

VARIABLES
    config,         \* which of the short cuts of handle are configured
    request,        \* its method, and whether its Host header is usable
    reply,          \* the framing, the length and the body of the answer
    phase,          \* where the handler is
    unsent,         \* what the backend has still to send
    arrived,        \* what the proxy's socket holds
    closed,         \* the backend has closed the connection
    buffer,         \* bytes read while the header was looked for
    body,           \* bytes of the body, once the header was found
    response        \* what the client is given

given == <<config, request, reply>>
vars == <<given, phase, unsent, arrived, closed, buffer, body, response>>

Nothing == [from |-> "nobody", body |-> <<>>]
Header  == <<"b", "r", "n", "r", "n">>
Replies ==
    [framing : {"length"}, length : Length, body : Body]
    \cup [framing : {"chunked", "none", "garbled"}, length : {0}, body : Body]

Init ==
    /\ config = Nothing /\ request = Nothing /\ reply = Nothing
    /\ phase = "idle" /\ closed = FALSE /\ response = Nothing
    /\ unsent = <<>> /\ arrived = <<>> /\ buffer = <<>> /\ body = <<>>

(* A reply to HEAD has the header of the reply to GET and no body.         *)
Reply(req, rep) == Header \o (IF req.method = "HEAD" THEN <<>> ELSE rep.body)

(* A request comes in, under some configuration.                           *)
Receive ==
    /\ phase = "idle" /\ phase' = "handle"
    /\ config' \in [handler : BOOLEAN, direct : BOOLEAN, fixed : BOOLEAN]
    /\ request' \in [method : {"GET", "HEAD", "POST"}, host : BOOLEAN]
    /\ reply' \in Replies
    /\ unsent' = Reply(request', reply')
    /\ UNCHANGED <<arrived, closed, buffer, body, response>>

(* The task of the request is over, answered or not.                       *)
Dropped ==
    /\ config' = Nothing /\ request' = Nothing /\ reply' = Nothing
    /\ phase' = "idle" /\ closed' = FALSE /\ response' = Nothing
    /\ unsent' = <<>> /\ arrived' = <<>> /\ buffer' = <<>> /\ body' = <<>>

-----------------------------------------------------------------------------
(* The backend.  It answers once it has the request.                       *)

Reading == phase \in {"head", "body"}

BackendSends ==
    /\ Reading /\ ~closed /\ unsent # <<>>
    /\ arrived' = Append(arrived, Head(unsent))
    /\ unsent' = Tail(unsent)
    /\ UNCHANGED <<given, phase, closed, buffer, body, response>>

BackendCloses ==
    /\ phase \in {"write", "head", "body"} /\ ~closed
    /\ closed' = TRUE
    /\ UNCHANGED <<given, phase, unsent, arrived, buffer, body, response>>

-----------------------------------------------------------------------------
(* handle.                                                                 *)

Answer(from, text) ==
    /\ phase' = "done"
    /\ response' = [from |-> from, body |-> text]

Forward == phase' = (IF request.method = "POST" THEN "pooled" ELSE "connect")

Untouched == UNCHANGED <<given, unsent, arrived, closed, buffer, body>>

Handle ==
    /\ phase = "handle"
    /\ \/ config.handler /\ \E from \in {"handler", "500"} : Answer(from, <<>>)
       \/ ~config.handler /\ config.direct /\ Answer("direct", <<>>)
       \/ /\ ~config.handler /\ ~config.direct
          /\ \/ config.fixed /\ Forward /\ UNCHANGED response
             \/ ~config.fixed /\ request.host /\ phase' = "route" /\ UNCHANGED response
             \/ ~config.fixed /\ ~request.host /\ Answer("400", <<>>)
    /\ Untouched

Route ==
    /\ phase = "route"
    /\ \/ Forward /\ UNCHANGED response
       \/ Answer("resolver", <<>>)
    /\ Untouched

(* The other forwarder, which HttpPool is about.                           *)
Pooled ==
    /\ phase = "pooled"
    /\ \E from \in {"pool", "503"} : Answer(from, <<>>)
    /\ Untouched

(* Every error of the forwarder becomes a 503.                             *)
Fail == Answer("503", <<>>) /\ Untouched

-----------------------------------------------------------------------------
(* Mistakes of the kind this code invites, for checking that the           *)
(* properties notice them; no action uses these.                           *)

(* The first line break is taken for the end of the header.                *)
HeaderEndByLine(bytes) ==
    LET Found == {i \in 1..(Len(bytes) - 1) : SubSeq(bytes, i, i + 1) = <<"r", "n">>}
    IN  IF Found = {} THEN 0 ELSE Min(Found) + 1

(* Only the connect has a timeout.                                         *)
TimesOutOnce == phase = "connect" /\ Fail

-----------------------------------------------------------------------------
(* forward_raw_request.                                                    *)

Connect ==
    /\ phase = "connect"
    /\ phase' = "write"
    /\ UNCHANGED response /\ Untouched

(* Only the timeout of the write is an error; a write that fails is not.   *)
Write ==
    /\ phase = "write"
    /\ phase' = "head"
    /\ UNCHANGED response /\ Untouched

TimesOut == phase \in {"connect", "write", "head", "body"} /\ Fail

(* connect or set_nodelay fails, or a read does.                           *)
IoFails == (phase = "connect" \/ Reading) /\ Fail

(* read returns 0: before the header is complete, or within the body.      *)
ReadsEnd == Reading /\ arrived = <<>> /\ closed /\ Fail

(* find_subslice: the end of the first blank line, or 0.                   *)
HeaderEnd(bytes) ==
    LET Found == {i \in 1..(Len(bytes) - 3) : SubSeq(bytes, i, i + 3) = <<"r", "n", "r", "n">>}
    IN  IF Found = {} THEN 0 ELSE Min(Found) + 3

(* The header with a Content-Length.  A buffer of that size is allocated   *)
(* first, and what came with the header begins the body.  It is not cut    *)
(* off at the length if it is longer.                                      *)
Framed(rest) ==
    \/ /\ reply.length > Capacity
       /\ phase' = "panicked" /\ UNCHANGED <<body, response>>
    \/ /\ reply.length <= Capacity /\ Len(rest) < reply.length
       /\ phase' = "body" /\ body' = rest /\ UNCHANGED response
    \/ /\ reply.length <= Capacity /\ Len(rest) >= reply.length
       /\ Answer("backend", rest) /\ body' = rest

(* The header is parsed as soon as it is complete.  Without a length, or   *)
(* chunked, the body is what has been read by then.                        *)
Parse(bytes) ==
    LET rest == SubSeq(bytes, HeaderEnd(bytes) + 1, Len(bytes))
    IN  CASE reply.framing = "garbled"            -> Answer("503", <<>>) /\ UNCHANGED body
          [] reply.framing \in {"chunked", "none"} -> Answer("backend", rest) /\ UNCHANGED body
          [] OTHER                                 -> Framed(rest)

ReadHead ==
    /\ phase = "head"
    /\ \E got \in {SubSeq(arrived, 1, j) : j \in 1..Min({ReadSize, Len(arrived)})} :
           /\ arrived' = SubSeq(arrived, Len(got) + 1, Len(arrived))
           /\ buffer' = buffer \o got
           /\ IF HeaderEnd(buffer \o got) = 0
              THEN UNCHANGED <<phase, body, response>>
              ELSE Parse(buffer \o got)
    /\ UNCHANGED <<given, unsent, closed>>

ReadBody ==
    /\ phase = "body"
    /\ \E j \in 1..Min({ReadSize, reply.length - Len(body), Len(arrived)}) :
           /\ arrived' = SubSeq(arrived, j + 1, Len(arrived))
           /\ body' = body \o SubSeq(arrived, 1, j)
           /\ IF Len(body) + j < reply.length
              THEN UNCHANGED <<phase, response>>
              ELSE Answer("backend", body \o SubSeq(arrived, 1, j))
    /\ UNCHANGED <<given, unsent, closed, buffer>>

-----------------------------------------------------------------------------
Done == phase \in {"done", "panicked"} /\ UNCHANGED vars

Task ==
    \/ Handle \/ Route \/ Pooled \/ Connect \/ Write
    \/ ReadHead \/ ReadBody \/ ReadsEnd \/ TimesOut

Next == Receive \/ BackendSends \/ BackendCloses \/ Task \/ IoFails \/ Done

Spec == Init /\ [][Next]_vars

-----------------------------------------------------------------------------
(* Properties.                                                             *)

(* However TCP cuts the reply into pieces and wherever it breaks off, the  *)
(* client gets bytes from behind the header only, in order and from the    *)
(* first on, and never fewer than the Content-Length declares: a short     *)
(* reply is an error.  So it gets the whole body when the backend sends no *)
(* more than it declares.  Bytes beyond the length are passed on only when *)
(* the reads that found the end of the header had taken them with it       *)
(* (handler.rs 284-303, 341-366).                                          *)
WholeBody ==
    LET n == Len(response.body)
    IN  response.from = "backend" =>
            /\ n <= Len(reply.body) /\ response.body = SubSeq(reply.body, 1, n)
            /\ reply.framing = "length" =>
                  /\ n >= reply.length
                  /\ n > reply.length => Len(buffer) = Len(Header) + n

(* What the documentation of handle promises: it never panics (handler.rs  *)
(* 53-54).                                                                 *)
NeverPanics == phase # "panicked"
=============================================================================
