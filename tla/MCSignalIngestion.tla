-------------------------- MODULE MCSignalIngestion --------------------------
(***************************************************************************)
(* SignalIngestion with the background loop's scan, another scan, a visit  *)
(* and a propagation.                                                      *)
(***************************************************************************)
EXTENDS SignalIngestion

CONSTANTS s1, s2, u1, p1
=============================================================================
