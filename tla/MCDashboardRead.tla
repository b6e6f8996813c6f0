--------------------------- MODULE MCDashboardRead ---------------------------
(* Two runs, one of them measured: three classical samples and a hybrid    *)
(* one, with halves that fail, that are missing and that take no time at   *)
(* all; two rows are recent.                                               *)
EXTENDS DashboardRead

CONSTANTS r1, r2, s1, s2, s3, s4

MCRuns == {r1, r2}
MCSamples == {s1, s2, s3, s4}
MCModes == {"classical", "hybrid", "hybrid_p256"}
MCStoredModes == {"classical", "hybrid"}
MCConns == {0, 3, 7, 20}

Server(s, mode, us) ==
  [kind |-> "server", sample |-> s, run |-> r1, mode |-> mode, group |-> Absent,
   half |-> us, inRange |-> TRUE]

Client(s, mode, us, ok) ==
  [kind |-> "client", sample |-> s, run |-> r1, mode |-> mode, group |-> Absent,
   half |-> [conn |-> us, ok |-> ok], inRange |-> TRUE]

MCPosts == {
  [kind |-> "run", run |-> r1, inRange |-> TRUE],
  [kind |-> "complete", run |-> r2],
  Client(s1, "classical", 0, TRUE), Client(s1, "classical", 0, FALSE),
  Server(s2, "classical", 3), Client(s2, "classical", 7, TRUE),
  Server(s3, "classical", 20), Client(s3, "classical", 3, TRUE),
  Client(s3, "classical", 7, FALSE),
  Server(s4, "hybrid", 3), Client(s4, "hybrid", 20, TRUE)}
=============================================================================
