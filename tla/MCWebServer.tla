---------------------------- MODULE MCWebServer ----------------------------
(***************************************************************************)
(* A small instance of WebServer: more clients than descriptors.           *)
(***************************************************************************)
EXTENDS WebServer

CONSTANTS c1, c2, c3
=============================================================================
