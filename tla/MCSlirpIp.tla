----------------------------- MODULE MCSlirpIp -----------------------------
(* Three datagrams: a large query and a small one of one port, and a ping with
   the key of the large one.  See README for the bounds. *)
EXTENDS SlirpIp

CONSTANTS large, small, ping

D(proto, port, dst, low, key, size, answer) ==
    [proto |-> proto, port |-> port, dst |-> dst, low |-> low, key |-> key,
     size |-> size, answer |-> answer]

MCInfo == [d \in {large, small, ping} |->
    CASE d = large -> D("udp", "p", "dns", TRUE, "k", 3, 2)
      [] d = small -> D("udp", "p", "dns", TRUE, "l", 1, 2)
      [] d = ping -> D("icmp", "", "out", FALSE, "k", 2, 1)]

\* The guest uses a port for one address only: see AnswersFromAsked.
ASSUME DedicatedPorts ==
    \A d, e \in Datagram : Info[d].proto = "udp" /\ Info[e].proto = "udp"
                           /\ Info[d].port = Info[e].port => Info[d].dst = Info[e].dst
=============================================================================
