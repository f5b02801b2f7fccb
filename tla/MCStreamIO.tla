----------------------------- MODULE MCStreamIO -----------------------------
(* StreamIO for TLC.                                                       *)
EXTENDS StreamIO, TLC

\* The client of echo_client_buf.cc and a server that reads either way.
BothWays == ("client" :> {"write", "until"}) @@ ("server" :> {"read", "until", "write"})
\* One end writes, the other reads a fixed length.
OneWay   == ("client" :> {"write"}) @@ ("server" :> {"until"})
\* Two operations of each end, and two messages.
Bounds == ("any" :> 4) @@ ("echo" :> 6)
ThreeBytes == ("any" :> 3) @@ ("echo" :> 0)
=============================================================================
