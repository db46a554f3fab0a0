---------------------------- MODULE MCDnsManager ----------------------------
(* Instances of DnsManager for TLC: the names are model values.            *)
EXTENDS DnsManager, TLC
=============================================================================
