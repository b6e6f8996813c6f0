---------------------------- MODULE MCRepository ----------------------------
(* Repository with the requests of one run whose sample s1 is measured     *)
(* twice (the identifier is given again), a second sample of which only    *)
(* the client reports, and one measurement of a mode the table refuses,    *)
(* for a run nobody announced.                                             *)
EXTENDS Repository, TLC

CONSTANTS r1, r2, s1, s2, s3, x25519, first, second, t1, t2, v1

MCRuns == {r1, r2}
MCSamples == {s1, s2, s3}
MCThreads == {t1, t2}
MCViewers == {v1}
NoViewers == {}
ThreadSymmetry == Permutations(MCThreads)
MCGroups == {x25519}
MCConns == {first, second}
MCModes == {"classical", "hybrid_p256"}
MCStoredModes == {"classical"}

ServerReport(s, r, m, c) ==
  [kind |-> "server", sample |-> s, run |-> r, mode |-> m,
   group |-> x25519, half |-> c, inRange |-> TRUE]

ClientReport(s, r, m, g, c, ok, fits) ==
  [kind |-> "client", sample |-> s, run |-> r, mode |-> m,
   group |-> g, half |-> [conn |-> c, ok |-> ok], inRange |-> fits]

Announce == [kind |-> "run", run |-> r1, inRange |-> TRUE]
Complete == [kind |-> "complete", run |-> r1]
Server1 == ServerReport(s1, r1, "classical", first)
Client1 == ClientReport(s1, r1, "classical", x25519, first, TRUE, TRUE)
Client1Again == ClientReport(s1, r1, "classical", x25519, second, FALSE, TRUE)
Client2 == ClientReport(s2, r1, "classical", Absent, first, FALSE, TRUE)
TooSlow == ClientReport(s2, r1, "classical", x25519, first, FALSE, FALSE)
Refused == ServerReport(s3, r2, "hybrid_p256", first)

MCPosts == {Announce, Complete, Server1, Client1, Client1Again, Client2, Refused}
LivePosts == {Server1, Client1Again, Client2, TooSlow, Refused}
=============================================================================
