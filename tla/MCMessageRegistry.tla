------------------------- MODULE MCMessageRegistry -------------------------
(* A server and a client that share two message types, each with a further *)
(* type the other does not have, and two of the server's under one id.     *)
EXTENDS MessageRegistry

CONSTANTS server, client, Chat, Move, Ping, Twin, Other

Types == {Chat, Move, Ping, Twin, Other}

TypesDeclared == (server :> {Chat, Move, Ping, Twin}) @@ (client :> {Chat, Move, Other})

FieldKinds == (Chat :> <<"int", "string">>) @@ (Move :> <<"string", "float">>)
              @@ (Ping :> <<>>) @@ (Twin :> <<"int">>) @@ (Other :> <<"string">>)

Hashes == (Chat :> 256) @@ (Move :> 1) @@ (Ping :> 2) @@ (Twin :> 2) @@ (Other :> 65537)

Words == {<<0, 0, 0, 0>>, <<1, 2, 0, 0>>}
Strings == {<<>>, <<3>>, <<0, 7>>}
=============================================================================
