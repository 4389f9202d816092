--------------------------- MODULE MCBrowserSession ---------------------------
(* A small instance of BrowserSession for TLC. *)
EXTENDS BrowserSession, TLC

CONSTANTS c1, c2, c3, t1, t2

TabsOfCalls == (c1 :> t1) @@ (c2 :> t1) @@ (c3 :> t2)
KindsOfCalls == (c1 :> {"api","refresh"}) @@ (c2 :> {"api", "logout"}) @@ (c3 :> {"callback"})
=============================================================================
