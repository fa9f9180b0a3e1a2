----------------------------- MODULE MCWebServer -----------------------------
(* Instances of WebServer small enough for TLC. *)
EXTENDS WebServer

CONSTANTS w1, w2, c1, c2

TwoWorkers == {w1, w2}
TwoClients == {c1, c2}
SoundServers == {"simple", "lf"}
PoolServer == {"tp"}

=============================================================================
