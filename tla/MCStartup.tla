----------------------------- MODULE MCStartup -----------------------------
(***************************************************************************)
(* Instance of the process for TLC: a key, a button and the eighth button, *)
(* which input.cpp ignores, two sizes of the window and two places of the  *)
(* mouse.                                                                  *)
(***************************************************************************)
EXTENDS Startup

MCKeys == {"enter"}
MCKnownKeys == {"enter"}
MCButtons == {"left", "eighth"}
MCKnownButtons == {"left"}
MCSizes == {"opened", "wide"}
MCPlaces == {"corner", "middle"}
=============================================================================
