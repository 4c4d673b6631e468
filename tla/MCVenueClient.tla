---------------------------- MODULE MCVenueClient ----------------------------
(* Instances of VenueClient for TLC: threads are model values.             *)
EXTENDS VenueClient

CONSTANTS t1, r1, r2
=============================================================================
