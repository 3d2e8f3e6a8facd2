----------------------------- MODULE MCReadReplica -----------------------------
(* Instances of ReadReplica for TLC: up to two segments of DB_REPLICA_URLS. *)
EXTENDS ReadReplica

MCUrls == {<<>>} \cup {<<s>> : s \in Segment} \cup {<<s, t>> : s, t \in Segment}
MCAges == {Unset, NotANumber, -1, 0, 60}
=============================================================================
