---- MODULE MCFireTcpCipher ----
(* FireTcpCipher with a four-byte initial span: requests that end before,  *)
(* one byte before, at and after it.                                       *)
EXTENDS FireTcpCipher
====
