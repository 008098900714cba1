---------------------------- MODULE MCWebServer ----------------------------
(* Instances of WebServer for TLC: the flags that are never initialised, and  *)
(* a view of them in which they start out clear.                              *)
EXTENDS WebServer

GarbageFlags == BOOLEAN
ClearFlags == {FALSE}
=============================================================================
