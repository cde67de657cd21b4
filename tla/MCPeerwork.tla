----------------------------- MODULE MCPeerwork -----------------------------
(***************************************************************************)
(* Instances of Peerwork for TLC.  Peers are the numbers 1, 2, ..., which  *)
(* order their ids.  The joined network is what peers that found each      *)
(* other reach once their pings are delivered; runs about jobs start there *)
(* and runs about discovery start with every peer off.                     *)
(***************************************************************************)
EXTENDS PeerworkProperties

Everyone == Peers

IdOrder == [p \in Peers |-> p]

OneThread == [p \in Peers |-> 1]
TwoThreads == [p \in Peers |-> 2]
\* One peer can ask for two jobs at once, the other for one.
FewerFirst == [p \in Peers |-> IF p = 1 THEN 1 ELSE 2]

ContactFirst == [p \in Peers |-> IF p = 1 THEN {} ELSE {1}]
ContactPrevious == [p \in Peers |-> IF p = 1 THEN {} ELSE {p - 1}]

Nothing == [e \in Events |-> 0]
OnePost == [Nothing EXCEPT !["post"] = 1]
ThreePosts == [Nothing EXCEPT !["post"] = 3]
PostAndUpdate == [Nothing EXCEPT !["post"] = 1, !["update"] = 1]
PostAndTimeout == [Nothing EXCEPT !["post"] = 1, !["check"] = 2, !["expire"] = 1]
PostAndFaults == [post |-> 1, check |-> 1, expire |-> 1, crash |-> 1, lose |-> 1, update |-> 1]

JoinedInit ==
    /\ Idle
    /\ status = [p \in Peers |-> "up"]
    /\ known = [p \in Peers |-> Peers \ {p}]
    /\ home = [c \in Clients |-> 1]

JoinedSpec == JoinedInit /\ [][Next]_vars

=============================================================================
