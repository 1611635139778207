----------------------------- MODULE ClientHello -----------------------------
(***************************************************************************)
(* The SNI parser: extractSNI and parseServerName of internal/server/sni.go.*)
(* Bytes and numbers are those of Codec.                                   *)
(***************************************************************************)
EXTENDS Codec

CONSTANTS
    Handshake,    \* record type 0x16
    HelloType,    \* handshake type 0x01
    FixedLen      \* client_version and random (34)

ServerName == 0   \* extension 0x0000
HostName == 0     \* name type 0x00

\* What follows a block that starts with its own length in w bytes, and the
\* block itself; `ok' says that both are there.
Block(b, w) ==
    LET n == ReadNumber(b, w)
    IN  IF ~n.ok \/ n.val > Len(n.rest) THEN NotRead
        ELSE Read(SubSeq(n.rest, 1, n.val), Drop(n.rest, n.val))

\* The entries are read up to the end of the extension, whatever length their
\* list has.
RECURSIVE FirstHostName(_)
FirstHostName(b) ==
    LET name == Block(Tail(b), 2)
    IN  IF Len(b) < 3 THEN NotRead
        ELSE IF ~name.ok THEN NotRead
        ELSE IF Head(b) = HostName THEN Read(name.val, <<>>)
        ELSE FirstHostName(name.rest)

ParseServerName(ext) ==
    IF Block(ext, 2).ok THEN FirstHostName(Drop(ext, 2)) ELSE NotRead

RECURSIVE FirstServerName(_)
FirstServerName(b) ==
    LET ext == Block(Drop(b, 2), 2)
    IN  IF Len(b) < 4 THEN NotRead
        ELSE IF ~ext.ok THEN NotRead
        ELSE IF ReadNumber(b, 2).val = ServerName THEN ParseServerName(ext.val)
        ELSE FirstServerName(ext.rest)

\* The fragment of the first record, once it is there as a whole.
Record(data) ==
    IF Len(data) < 5 THEN NotRead
    ELSE IF Head(data) # Handshake THEN NotRead
    ELSE Block(Drop(data, 3), 2)

ExtractSNI(data) ==
    LET rec == Record(data)
        hello == Drop(rec.val, 4)
        session == Block(Drop(hello, FixedLen), 1)
        ciphers == Block(session.rest, 2)
        compression == Block(ciphers.rest, 1)
        extensions == Block(compression.rest, 2)
    IN  IF ~rec.ok \/ Len(rec.val) < 4 THEN NotRead
        ELSE IF Head(rec.val) # HelloType \/ Len(hello) < FixedLen THEN NotRead
        ELSE IF session.ok /\ ciphers.ok /\ compression.ok /\ extensions.ok
        THEN FirstServerName(extensions.val)
        ELSE NotRead
=============================================================================
