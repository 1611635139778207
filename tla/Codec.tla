-------------------------------- MODULE Codec --------------------------------
(***************************************************************************)
(* The wire format of internal/protocol/protocol.go: what each Encode      *)
(* function writes, byte by byte, and what each Decode function makes of   *)
(* any sequence of bytes.                                                  *)
(*                                                                         *)
(* A byte is 0..Base-1 (256 in the code), so that a length that does not   *)
(* fit its field shows with short strings.  A writer returns [ok, bytes],  *)
(* a reader [ok, val, rest].  Headers are a sequence of [key, values], in  *)
(* the order in which Go's map iteration happens to give them.             *)
(***************************************************************************)
EXTENDS Integers, SequencesExt

CONSTANTS
    Base,                \* values of a byte
    MaxHeaders, MaxValuesPerHeader, MaxBodySize, MaxFrameSize,
    MaxSubdomainLen, MaxVersionLen

ASSUME CodecAssumption ==
    /\ Base \in Nat /\ Base > 1
    /\ MaxSubdomainLen < Base /\ MaxVersionLen < Base ^ 2
    /\ MaxBodySize < Base ^ 4 - 1 /\ MaxFrameSize < Base ^ 4

\* binary.BigEndian: a field of w bytes, with what does not fit cut off.
Put(n, w) == [i \in 1..w |-> (n \div Base ^ (w - i)) % Base]
Number(b) == FoldLeft(LAMBDA n, x : n * Base + x, 0, b)

Drop(b, n) == SubSeq(b, n + 1, Len(b))

MaxStringLen == Base ^ 2 - 1
MaxURLLen == Base - 1
StreamedBodyLen == Base ^ 4 - 1

Wrote(b) == [ok |-> TRUE, bytes |-> b]
NotWritten == [ok |-> FALSE, bytes |-> <<>>]
Read(v, rest) == [ok |-> TRUE, val |-> v, rest |-> rest]
NotRead == [ok |-> FALSE, val |-> <<>>, rest |-> <<>>]

\* One writer after the other; the first that fails ends it.
Then(a, b) == IF a.ok /\ b.ok THEN Wrote(a.bytes \o b.bytes) ELSE NotWritten
AllWritten(ws) == FoldLeft(Then, Wrote(<<>>), ws)

-----------------------------------------------------------------------------
(***************************************************************************)
(* Fields.                                                                 *)
(***************************************************************************)
ReadNumber(b, w) ==
    IF Len(b) < w THEN NotRead ELSE Read(Number(SubSeq(b, 1, w)), Drop(b, w))

\* Mutant of WriteString: the length is not checked.
WriteStringAny(s) == Wrote(Put(Len(s), 2) \o s)

WriteString(s) ==
    IF Len(s) > MaxStringLen THEN NotWritten ELSE Wrote(Put(Len(s), 2) \o s)

ReadString(b) ==
    LET n == ReadNumber(b, 2)
    IN  IF ~n.ok \/ n.val > Len(n.rest) THEN NotRead
        ELSE Read(SubSeq(n.rest, 1, n.val), Drop(n.rest, n.val))

\* The next item of a list, read from where the last one stopped.
ReadAlso(list, item) ==
    IF list.ok /\ item.ok THEN Read(Append(list.val, item.val), item.rest) ELSE NotRead

ReadStrings(b, n) ==
    FoldLeft(LAMBDA list, i : ReadAlso(list, ReadString(list.rest)),
             Read(<<>>, b), [i \in 1..n |-> i])

WriteHeader(h) ==
    AllWritten(<<WriteString(h.key), Wrote(Put(Len(h.values), 4))>>
               \o [i \in 1..Len(h.values) |-> WriteString(h.values[i])])

WriteHeaders(headers) ==
    AllWritten(<<Wrote(Put(Len(headers), 4))>> \o [i \in 1..Len(headers) |-> WriteHeader(headers[i])])

ReadHeader(b) ==
    LET key == ReadString(b)
        count == ReadNumber(key.rest, 4)
        values == ReadStrings(count.rest, count.val)
    IN  IF ~key.ok \/ ~count.ok THEN NotRead
        ELSE IF count.val > MaxValuesPerHeader \/ ~values.ok THEN NotRead
        ELSE Read([key |-> key.val, values |-> values.val], values.rest)

\* headers[k] = values: a key that comes again replaces the earlier one.
ReadAlsoHeader(list, item) ==
    IF list.ok /\ item.ok
    THEN Read(Append(SelectSeq(list.val, LAMBDA h : h.key # item.val.key), item.val), item.rest)
    ELSE NotRead

ReadHeaders(b) ==
    LET count == ReadNumber(b, 4)
    IN  IF ~count.ok THEN NotRead
        ELSE IF count.val > MaxHeaders \/ count.val * 2 > Len(count.rest) THEN NotRead
        ELSE FoldLeft(LAMBDA list, i : ReadAlsoHeader(list, ReadHeader(list.rest)),
                      Read(<<>>, count.rest), [i \in 1..count.val |-> i])

WriteBody(body, streamed) ==
    Wrote(IF streamed THEN Put(StreamedBodyLen, 4) ELSE Put(Len(body), 4) \o body)

Body(body, streamed) == [body |-> body, streamed |-> streamed]

ReadBody(b) ==
    LET n == ReadNumber(b, 4)
    IN  IF ~n.ok THEN NotRead
        ELSE IF n.val = StreamedBodyLen THEN Read(Body(<<>>, TRUE), n.rest)
        ELSE IF n.val > MaxBodySize \/ n.val > Len(n.rest) THEN NotRead
        ELSE Read(Body(SubSeq(n.rest, 1, n.val), FALSE), Drop(n.rest, n.val))

-----------------------------------------------------------------------------
(***************************************************************************)
(* Messages.  A decoder looks at nothing behind what it needs.             *)
(***************************************************************************)
EncodeHTTPRequest(m) ==
    AllWritten(<<WriteString(m.method), WriteString(m.path), WriteHeaders(m.headers),
                 WriteBody(m.body, m.streamed)>>)

DecodeHTTPRequest(b) ==
    LET method == ReadString(b)
        path == ReadString(method.rest)
        headers == ReadHeaders(path.rest)
        body == ReadBody(headers.rest)
    IN  IF method.ok /\ path.ok /\ headers.ok /\ body.ok
        THEN Read([method |-> method.val, path |-> path.val, headers |-> headers.val,
                   body |-> body.val.body, streamed |-> body.val.streamed], body.rest)
        ELSE NotRead

EncodeHTTPResponse(m) ==
    AllWritten(<<Wrote(Put(m.status, 2)), WriteHeaders(m.headers), WriteBody(m.body, m.streamed)>>)

DecodeHTTPResponse(b) ==
    LET status == ReadNumber(b, 2)
        headers == ReadHeaders(status.rest)
        body == ReadBody(headers.rest)
    IN  IF status.ok /\ headers.ok /\ body.ok
        THEN Read([status |-> status.val, headers |-> headers.val,
                   body |-> body.val.body, streamed |-> body.val.streamed], body.rest)
        ELSE NotRead

EncodeRegister(m) ==
    IF Len(m.subdomain) > MaxSubdomainLen THEN NotWritten
    ELSE Wrote(Put(m.port, 2) \o
               IF m.subdomain = <<>> THEN <<>> ELSE Put(Len(m.subdomain), 1) \o m.subdomain)

DecodeRegister(b) ==
    LET port == ReadNumber(b, 2)
        n == ReadNumber(port.rest, 1)
    IN  IF ~port.ok THEN NotRead
        ELSE IF ~n.ok THEN Read([port |-> port.val, subdomain |-> <<>>], <<>>)
        ELSE IF n.val > MaxSubdomainLen \/ n.val > Len(n.rest) THEN NotRead
        ELSE Read([port |-> port.val, subdomain |-> SubSeq(n.rest, 1, n.val)], Drop(n.rest, n.val))

EncodeRegisterOK(m) ==
    IF Len(m.url) > MaxURLLen THEN NotWritten
    ELSE Wrote(Put(Len(m.url), 1) \o m.url \o Put(m.id, 8))

DecodeRegisterOK(b) ==
    LET n == ReadNumber(b, 1)
    IN  IF ~n.ok THEN NotRead
        ELSE IF Len(n.rest) < n.val + 8 THEN NotRead
        ELSE Read([url |-> SubSeq(n.rest, 1, n.val), id |-> ReadNumber(Drop(n.rest, n.val), 8).val],
                  Drop(n.rest, n.val + 8))

EncodeRegisterTCP(m) == Wrote(Put(m.local, 2) \o Put(m.remote, 2))

DecodeRegisterTCP(b) ==
    LET local == ReadNumber(b, 2)
        remote == ReadNumber(local.rest, 2)
    IN  IF local.ok /\ remote.ok
        THEN Read([local |-> local.val, remote |-> remote.val], remote.rest) ELSE NotRead

EncodeAuth(m) ==
    IF Len(m.version) > MaxVersionLen THEN NotWritten
    ELSE Then(WriteString(m.token), WriteString(m.version))

\* Older clients send only the token.
DecodeAuth(b) ==
    LET token == ReadString(b)
        version == ReadString(token.rest)
    IN  IF ~token.ok THEN NotRead
        ELSE IF Len(token.rest) < 2 THEN Read([token |-> token.val, version |-> <<>>], <<>>)
        ELSE IF version.ok THEN Read([token |-> token.val, version |-> version.val], version.rest)
        ELSE NotRead

EncodeAuthOK(m) ==
    IF Len(m.version) > MaxVersionLen THEN NotWritten ELSE WriteString(m.version)

DecodeAuthOK(b) ==
    LET version == ReadString(b)
    IN  IF b = <<>> THEN Read([version |-> <<>>], <<>>)
        ELSE IF version.ok THEN Read([version |-> version.val], version.rest)
        ELSE NotRead

EncodeFrame(m) ==
    Wrote(<<m.type>> \o Put(m.tunnel, 8) \o Put(m.request, 8) \o Put(Len(m.payload), 4) \o m.payload)

HeaderSize == 21

DecodeFrame(b) ==
    LET n == Number(SubSeq(b, 18, 21))
    IN  IF Len(b) < HeaderSize THEN NotRead
        ELSE IF n > MaxFrameSize \/ Len(b) < HeaderSize + n THEN NotRead
        ELSE Read([type |-> b[1], tunnel |-> Number(SubSeq(b, 2, 9)),
                   request |-> Number(SubSeq(b, 10, 17)), payload |-> SubSeq(b, 22, 21 + n)],
                  Drop(b, HeaderSize + n))
=============================================================================
