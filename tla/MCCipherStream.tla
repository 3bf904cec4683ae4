---- MODULE MCCipherStream ----
(* CipherStream on short streams: every strategy, spans that end inside the *)
(* header, at its edge, inside a write chunk and after the stream.          *)
EXTENDS CipherStream

MCStrategies == {Always, Never} \cup {FirstN(k) : k \in 1..6}
====
