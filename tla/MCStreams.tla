----------------------------- MODULE MCStreams -----------------------------
(* Three streams, one call at a time, and clients that page one by one.    *)
EXTENDS Streams

CONSTANTS r1, r2, c1

MCIds == 1 .. 3
MCRunning == {1, 3}
OneReader == {r1}
TwoReaders == {r1, r2}
OneCall == {c1}
MCHides == {<<r1, 1>>}
=============================================================================
