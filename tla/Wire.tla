-------------------------------- MODULE Wire --------------------------------
(***************************************************************************)
(* The pure functions of the server's edges at work, against what they are *)
(* meant to compute:                                                       *)
(*   - a message is encoded, may be cut short, and is decoded (Codec);     *)
(*   - a TLS connection's ClientHello comes in pieces and is peeked at     *)
(*     (ClientHello, with peekClientHello of tlspass.go);                  *)
(*   - a visitor's request comes through trusted proxies, each of which    *)
(*     adds the address it saw, and is let in or not (Protection).         *)
(* A behaviour is one such job.                                            *)
(***************************************************************************)
EXTENDS ClientHello, Protection

CONSTANTS
    Message,    \* messages to send: [kind, m]
    Hello,      \* ClientHellos, as HelloBytes describes them
    Visitor,    \* visits: [addr, lines, sent, user, pass, cfg]
    MaxPeek,    \* bytes after which peekClientHello gives up (8192)
    MaxChunk    \* bytes it reads at once (1024)

VARIABLES
    job,        \* "message", "hello" or "visit"
    task,       \* the element of Message, Hello or Visitor
    stage,
    seen,       \* the bytes on the wire or read so far; a visit's request
    got         \* the outcome

wireVars == <<job, task, stage, seen, got>>

-----------------------------------------------------------------------------
(***************************************************************************)
(* Messages.                                                               *)
(***************************************************************************)
Encode(t) ==
    CASE t.kind = "request"     -> EncodeHTTPRequest(t.m)
      [] t.kind = "response"    -> EncodeHTTPResponse(t.m)
      [] t.kind = "register"    -> EncodeRegister(t.m)
      [] t.kind = "registerOK"  -> EncodeRegisterOK(t.m)
      [] t.kind = "registerTCP" -> EncodeRegisterTCP(t.m)
      [] t.kind = "auth"        -> EncodeAuth(t.m)
      [] t.kind = "authOK"      -> EncodeAuthOK(t.m)
      [] t.kind = "frame"       -> EncodeFrame(t.m)

Decode(kind, b) ==
    CASE kind = "request"     -> DecodeHTTPRequest(b)
      [] kind = "response"    -> DecodeHTTPResponse(b)
      [] kind = "register"    -> DecodeRegister(b)
      [] kind = "registerOK"  -> DecodeRegisterOK(b)
      [] kind = "registerTCP" -> DecodeRegisterTCP(b)
      [] kind = "auth"        -> DecodeAuth(b)
      [] kind = "authOK"      -> DecodeAuthOK(b)
      [] kind = "frame"       -> DecodeFrame(b)

Sends ==
    /\ job = "message" /\ stage = "new"
    /\ stage' = IF Encode(task).ok THEN "sent" ELSE "refused"
    /\ seen' = Encode(task).bytes
    /\ UNCHANGED <<job, task, got>>

\* What a peer that is not this program may do to a message.
Cuts ==
    /\ job = "message" /\ stage = "sent"
    /\ \E n \in 0..(Len(seen) - 1) : seen' = SubSeq(seen, 1, n)
    /\ stage' = "cut"
    /\ UNCHANGED <<job, task, got>>

Receives ==
    /\ job = "message" /\ stage \in {"sent", "cut"}
    /\ got' = Decode(task.kind, seen)
    /\ stage' = IF stage = "cut" THEN "part" ELSE "whole"
    /\ UNCHANGED <<job, task, seen>>

-----------------------------------------------------------------------------
(***************************************************************************)
(* A TLS connection.  What RFC 8446 and RFC 6066 say a hello is:           *)
(***************************************************************************)
Filler(n) == [i \in 1..n |-> 1]
Sized(b, w) == Put(Len(b), w) \o b
Extension(type, b) == Put(type, 2) \o Sized(b, 2)

NameExtension(h) ==
    Extension(ServerName,
        Sized((IF h.alien THEN <<HostName + 1>> \o Sized(Filler(1), 2) ELSE <<>>)
              \o <<HostName>> \o Sized(h.name, 2), 2))

HelloBytes(h) ==
    LET extensions == FlattenSeq([i \in 1..h.before |-> Extension(i, Filler(i))])
                      \o (IF h.named THEN NameExtension(h) ELSE <<>>)
                      \o Extension(5, Filler(h.after))
        hello == Filler(FixedLen) \o Sized(Filler(h.session), 1) \o Sized(Filler(h.ciphers), 2)
                 \o Sized(Filler(1), 1) \o Sized(extensions, 2)
    IN  <<Handshake>> \o Filler(2) \o Sized(<<HelloType>> \o Sized(hello, 3), 2)

\* All that the visitor sends at once: the hello, and what may follow it.
Sent(h) == HelloBytes(h) \o Filler(h.trailing)

\* One turn of peekClientHello's loop.
PeekReads ==
    /\ job = "hello" /\ stage = "new" /\ Len(seen) < MaxPeek
    /\ \E n \in 1..MaxChunk :
          /\ Len(seen) + n <= Len(Sent(task))
          /\ seen' = SubSeq(Sent(task), 1, Len(seen) + n)
    /\ got' = ExtractSNI(seen')
    /\ stage' = IF ExtractSNI(seen').ok THEN "named" ELSE "new"
    /\ UNCHANGED <<job, task>>

PeekGivesUp ==
    /\ job = "hello" /\ stage = "new" /\ Len(seen) >= MaxPeek
    /\ stage' = "full"
    /\ UNCHANGED <<job, task, seen, got>>

\* A read error or the deadline.
PeekFails ==
    /\ job = "hello" /\ stage = "new"
    /\ stage' = "failed"
    /\ UNCHANGED <<job, task, seen, got>>

-----------------------------------------------------------------------------
(***************************************************************************)
(* A visit.                                                                *)
(***************************************************************************)
Arriving(v) == [remote |-> v.addr, lines |-> v.lines, sent |-> v.sent,
                user |-> v.user, pass |-> v.pass, passed |-> 0]

Joined(lines, addr) ==
    IF lines = <<>> THEN <<<<addr>>>> ELSE Append(Front(lines), Append(Last(lines), addr))

\* A trusted proxy adds the address it saw, to the last line or as a new one.
ProxyForwards ==
    /\ job = "visit" /\ stage = "new" /\ seen.passed < task.cfg.hops
    /\ \E lines \in {Append(seen.lines, <<seen.remote>>), Joined(seen.lines, seen.remote)} :
          seen' = [seen EXCEPT !.lines = lines, !.remote = "proxy", !.passed = @ + 1]
    /\ UNCHANGED <<job, task, stage, got>>

Decides ==
    /\ job = "visit" /\ stage = "new" /\ seen.passed = task.cfg.hops
    /\ got' = Allow(task.cfg, seen)
    /\ stage' = "decided"
    /\ UNCHANGED <<job, task, seen>>

-----------------------------------------------------------------------------
Init ==
    /\ stage = "new" /\ got = NotRead
    /\ \/ job = "message" /\ task \in Message /\ seen = <<>>
       \/ job = "hello" /\ task \in Hello /\ seen = <<>>
       \/ job = "visit" /\ task \in Visitor /\ seen = Arriving(task)

Next ==
    \/ Sends \/ Cuts \/ Receives
    \/ PeekReads \/ PeekGivesUp \/ PeekFails
    \/ ProxyForwards \/ Decides

Spec == Init /\ [][Next]_wireVars

-----------------------------------------------------------------------------
\* What fits into the fields, which the encoders check ...
Fits(t) ==
    LET m == t.m
        HeadersFit == \A i \in 1..Len(m.headers) :
            /\ Len(m.headers[i].key) < Base ^ 2
            /\ \A j \in 1..Len(m.headers[i].values) : Len(m.headers[i].values[j]) < Base ^ 2
    IN  CASE t.kind = "request" ->
                Len(m.method) < Base ^ 2 /\ Len(m.path) < Base ^ 2 /\ HeadersFit
          [] t.kind = "response" -> HeadersFit
          [] t.kind = "register" -> Len(m.subdomain) <= MaxSubdomainLen
          [] t.kind = "registerOK" -> Len(m.url) < Base
          [] t.kind = "auth" -> Len(m.token) < Base ^ 2 /\ Len(m.version) <= MaxVersionLen
          [] t.kind = "authOK" -> Len(m.version) <= MaxVersionLen
          [] OTHER -> TRUE

\* ... and the limits that only the decoders check.
Accepted(t) ==
    CASE t.kind \in {"request", "response"} ->
            /\ Len(t.m.headers) <= MaxHeaders
            /\ \A i \in 1..Len(t.m.headers) : Len(t.m.headers[i].values) <= MaxValuesPerHeader
            /\ Len(t.m.body) <= MaxBodySize
      [] t.kind = "frame" -> Len(t.m.payload) <= MaxFrameSize
      [] OTHER -> TRUE

\* A message without what may be missing: the version, a register's subdomain.
Optional(t) ==
    CASE t.kind = "register" -> [t.m EXCEPT !.subdomain = <<>>]
      [] t.kind \in {"auth", "authOK"} -> [t.m EXCEPT !.version = <<>>]

\* What one side encodes the other decodes to the same message; an encoder
\* refuses just what does not fit and a decoder just what is over its limits;
\* and a part of a message is never taken for another message, except for one
\* that ends before an optional field (all Encode and Decode functions of
\* protocol.go, lengths at the limit of their fields included).
CodecExact ==
    job = "message" =>
        /\ stage \in {"sent", "cut", "whole", "part"} => Fits(task)
        /\ stage = "refused" => ~Fits(task)
        /\ stage = "whole" => IF Accepted(task) THEN got.ok /\ got.val = task.m ELSE ~got.ok
        /\ stage = "part" /\ got.ok =>
              task.kind \in {"register", "auth", "authOK"} /\ got.val = Optional(task)

\* Into whatever pieces TCP cuts a hello (of one TLS record), and whatever comes
\* behind it, the name is found as soon as the hello is there and not before, it
\* is the hello's own, and a hello of at most MaxPeek bytes that has a name is
\* never given up
\* (peekClientHello over extractSNI, which starts afresh after every read).
HelloNamed ==
    job = "hello" =>
        LET whole == Len(HelloBytes(task)) <= Len(seen)
        IN  /\ stage = "named" => task.named /\ whole /\ got.val = task.name
            /\ stage \in {"new", "full"} => ~(task.named /\ whole)
            /\ stage = "full" => ~task.named \/ Len(HelloBytes(task)) > MaxPeek

\* Behind the configured number of proxies a visit is judged by the address
\* that the outermost of them saw and by its credentials, whatever
\* X-Forwarded-For the visitor has sent (Allow over clientIP).
AddressSeen ==
    job = "visit" /\ stage = "decided" =>
        LET cfg == task.cfg
            known == cfg.allow = {} \/ \E net \in cfg.allow : task.addr \in net
            trusted == task.sent /\ <<task.user, task.pass>> = <<cfg.user, cfg.pass>>
        IN  got = (known /\ (cfg.user = "" \/ trusted))

\* What the server concludes about a visitor, from a hello or from a request's
\* headers, does not depend on how the bytes arrived or on what else was sent.
PublicVisitorsIdentified == HelloNamed /\ AddressSeen
=============================================================================
