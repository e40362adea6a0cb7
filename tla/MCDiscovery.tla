---------------------------- MODULE MCDiscovery -----------------------------
(* An instance of Discovery for TLC.  One host is enough: a statement      *)
(* touches one row of devices, and entries that cover no host stand for    *)
(* those that cover others.                                                *)
EXTENDS Discovery

CONSTANTS m1, m2

\* The network of the host (an address is a network of one host), a network
\* with host bits, and a MAC.
MCEntries == {
    [type |-> "cidr", covers |-> Hosts, parses |-> TRUE],
    [type |-> "cidr", covers |-> {}, parses |-> FALSE],
    [type |-> "mac", covers |-> {m1}, parses |-> FALSE]}
=============================================================================
