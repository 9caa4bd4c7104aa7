------------------------------ MODULE MCWsServer ------------------------------
(* Two clients, which are two devices of one subject.  The first can       *)
(* have a second connection while the server still serves the first one.   *)
EXTENDS WsServer

CONSTANTS k1, k2

MCConns == {<<k1, 1>>, <<k1, 2>>, <<k2, 1>>}

MCSlotMaps == {[k \in Clients |-> IF k = k1 THEN <<"u", "web">> ELSE <<"u", "app">>]}
=============================================================================
