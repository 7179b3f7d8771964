------------------------------- MODULE MCServer -------------------------------
(* An instance of Server: a client on the host and one on the network, the
   production configuration and what may differ from it. *)
EXTENDS Server

MCNetwork == [c \in Clients |-> IF c = "local" THEN "loopback" ELSE "lan"]

Production ==
  [version |-> "current", level |-> "info", transport |-> "http",
   addr |-> "routable", override |-> "none", allowRemote |-> TRUE, allowedNets |-> {},
   projectDir |-> TRUE, corpusDir |-> TRUE, rulesPath |-> TRUE,
   ckgPath |-> TRUE, ckvPath |-> TRUE, provider |-> "ollama",
   footprintDir |-> TRUE, glossaryPath |-> TRUE]

MCConfigs ==
  {Production,
   [Production EXCEPT !.allowRemote = FALSE],                      \* rejected
   [Production EXCEPT !.addr = "loopback", !.override = "routable", !.allowRemote = FALSE],
   [Production EXCEPT !.allowedNets = {"vpn"}],
   [Production EXCEPT !.allowedNets = {"malformed"}],              \* rejected
   [Production EXCEPT !.corpusDir = FALSE],                        \* rejected
   [Production EXCEPT !.addr = "none", !.override = "loopback"],   \* rejected
   [Production EXCEPT !.version = "other"], [Production EXCEPT !.level = "loud"],
   [Production EXCEPT !.transport = "grpc"],
   [Production EXCEPT !.transport = "stdio", !.addr = "none", !.footprintDir = FALSE],
   [Production EXCEPT !.ckvPath = FALSE, !.glossaryPath = FALSE],
   [Production EXCEPT !.ckgPath = FALSE, !.rulesPath = FALSE],
   [Production EXCEPT !.ckgPath = FALSE, !.ckvPath = FALSE, !.footprintDir = FALSE],
   [Production EXCEPT !.provider = "other"]}
=============================================================================
