----------------------------- MODULE MCCollector -----------------------------
(* Small instances of the collector for TLC. *)
EXTENDS CollectorHistory, TLC

CONSTANTS pod, hostPod, excludedPod

\* One connection of a pod to a public address.
OneConn == {<<"10.0.0.1", 1, "1.1.1.1", 443, "tcp">>}

\* Two connections of a pod to two public addresses: one group when grouped.
SecondConn == {<<"10.0.0.1", 2, "8.8.8.8", 443, "tcp">>}

TwoConns == OneConn \cup SecondConn

MCPodIP == (pod :> "10.0.0.1") @@ (hostPod :> "10.0.0.2") @@ (excludedPod :> "10.0.0.3")
=============================================================================
