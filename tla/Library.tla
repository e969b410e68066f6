------------------------------ MODULE Library -------------------------------
(***************************************************************************)
(* A program that matches a pattern, parses texts or runs a server.  The   *)
(* three share no state; the server reads its requests one after another,  *)
(* so that a handler that matches or parses ends before the next is read.  *)
(***************************************************************************)
EXTENDS Matching, Server

libvars == << vars, netvars >>

NoServer == serving = "none" /\ NetFresh

LibInit == (Init /\ NoServer) \/ (NoMatch /\ NoParse /\ NetInit)

LibNext == (Next /\ UNCHANGED netvars) \/ (NetNext /\ UNCHANGED vars)

LibSpec == LibInit /\ [][LibNext]_libvars /\ MatchFairness /\ NetFairness
=============================================================================
