---------------------------- MODULE MCShareFiles ----------------------------
(* Values of the constants for the run of ShareFiles. *)
EXTENDS ShareFiles

Bits(d, n, p) ==
  [f \in {"default", "newtab", "pdf"} |->
     CASE f = "default" -> d [] f = "newtab" -> n [] OTHER -> p]
Ping(prefix, build, bits, share) ==
  [prefix |-> prefix, build |-> build, bits |-> bits, share |-> share]

\* Build 1 is too old, builds 2 and 3 are valid.
MCPings ==
  {Ping("v1", 1, Bits(1, 1, 1), "valid"),
   Ping("v1", 2, Bits(1, 0, 1), "valid"),
   Ping("v1", 2, Bits(0, 1, 1), "forged"),
   Ping("v1", 3, Bits(1, 1, 0), "null"),
   Ping("v1", 3, Bits(0, 0, 1), "undecodable"),
   Ping("v2", 2, Bits(0, 1, 0), "valid")}
=============================================================================
