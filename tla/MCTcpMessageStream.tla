------------------------- MODULE MCTcpMessageStream -------------------------
(* TcpMessageStream with two messages of different sizes.                  *)
EXTENDS TcpMessageStream

TwoPayloads == {<<1>>, <<2, 2>>}
====
