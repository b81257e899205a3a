------------------------------- MODULE MCPing -------------------------------
(* Instance of Ping for TLC: the target, another host, and traffic that    *)
(* looks like what ping waits for in all but one field.                    *)
EXTENDS Ping

MCHostIp == [hostT |-> "target", hostO |-> "other"]
MCNoise ==
  {Arp("arp request", "hostO", "other", "all", "local"),
   Arp("arp reply", "hostO", "other", "localmac", "local"),
   Frame("echo reply", "hostT", "target", "localmac", "local", "other", 0),
   Frame("echo reply", "hostO", "other", "localmac", "local", OwnId, 0)}
=============================================================================
