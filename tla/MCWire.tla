------------------------------- MODULE MCWire -------------------------------
(***************************************************************************)
(* Wire for TLC: bytes of three bits; texts empty, short, with bytes that  *)
(* look like lengths, and just at and above what a length field can say.   *)
(***************************************************************************)
EXTENDS Wire

Short == {<<>>, <<0>>, <<7, 1>>, Filler(7), Filler(8)}
Long == {Filler(63), Filler(64)}
Text == Short \cup Long

OneHeader == {<<[key |-> k, values |-> v]>> : k \in {<<2>>, Filler(64)},
                                               v \in {<<>>, <<<<0>>>>, <<Filler(64)>>, <<<<1>>, <<>>>>, <<<<>>, <<>>, <<>>>>}}
TwoHeaders == <<[key |-> <<1>>, values |-> <<<<3>>>>], [key |-> <<>>, values |-> <<>>]>>
Headers == {<<>>, TwoHeaders, TwoHeaders \o <<[key |-> <<2>>, values |-> <<>>]>>} \cup OneHeader

\* A streamed body is not in the message.
Bodies == {[body |-> b, streamed |-> FALSE] : b \in {<<>>, <<0>>, Filler(3), Filler(4)}}
          \cup {[body |-> <<>>, streamed |-> TRUE]}

Of(kind, ms) == {[kind |-> kind, m |-> m] : m \in ms}

MCMessage ==
    Of("request", {[method |-> t, path |-> p, headers |-> h, body |-> b.body, streamed |-> b.streamed] :
                      t \in {<<>>, <<4>>}, p \in {<<5, 5>>, Filler(64)}, h \in Headers, b \in Bodies})
    \cup Of("response", {[status |-> n, headers |-> h, body |-> b.body, streamed |-> b.streamed] :
                      n \in {0, 63}, h \in Headers, b \in Bodies})
    \cup Of("register", [port : {0, 63}, subdomain : Short])
    \cup Of("registerOK", [url : Short, id : {0, 9, 8 ^ 8 - 1}])
    \cup Of("registerTCP", [local : {1, 63}, remote : {0, 8}])
    \cup Of("auth", [token : Text, version : Short])
    \cup Of("authOK", [version : Short])
    \cup Of("frame", [type : {7}, tunnel : {0, 8 ^ 8 - 1}, request : {1}, payload : Short])

MCHello == [named : BOOLEAN, name : {<<>>, <<6>>, Filler(4)}, alien : BOOLEAN, before : 0..1,
            after : {0, 3}, session : {0, 2}, ciphers : {1}, trailing : {0, 5}]

Config == [allow : {{}, {{"home"}}, {{"home", "office"}, {"lab"}}}, user : {"", "ann"}, pass : {"x"},
           hops : 0..2]
MCVisitor ==
    [addr : {"home", "lab", "away"},
     lines : {<<>>, <<<<"home">>>>, <<<<"home", "">>, <<"">>>>, <<<<"lab", "junk">>, <<"home">>>>},
     sent : BOOLEAN, user : {"ann", "bob"}, pass : {"x"}, cfg : Config]
=============================================================================
