-------------------------------- MODULE Ping --------------------------------
(***************************************************************************)
(* ping (applications/ping/src/ping.cpp): resolve the target's hardware    *)
(* address by ARP, send one ICMP echo request, wait for the reply, and     *)
(* answer ARP requests for the own address meanwhile.                      *)
(*                                                                         *)
(* The network (external) keeps every frame ever sent and delivers any of  *)
(* them any number of times or never, so frames are lost, duplicated,      *)
(* delayed beyond a timeout and reordered.  Time is not modelled: between  *)
(* two attempts any number of frames may arrive.  Every ping uses the same *)
(* identifier and sequence number, so one ping can meet the frames of an   *)
(* earlier one.                                                            *)
(***************************************************************************)
EXTENDS Integers, Sequences

CONSTANTS
  Local, Target,   \* g_localIp, g_targetIp
  LocalMac,
  HostIp,          \* function: hardware addresses of the other hosts to IPs
  Noise,           \* frames that others send, whatever ping does
  ArpAttempts,     \* reads of resolveTargetMac (400 in the code)
  RetryEvery,      \* reads between two ARP requests (100 in the code)
  EchoAttempts,    \* reads of awaitIcmpReply (500 in the code)
  MaxRx,           \* bound: frames waiting in the channel
  MaxRuns          \* bound: pings, one after the other

ASSUME PingAssumption ==
  /\ {ArpAttempts, EchoAttempts, MaxRx, MaxRuns} \subseteq Nat
  /\ RetryEvery \in Nat \ {0}
  /\ Local # Target /\ LocalMac \notin DOMAIN HostIp

\* Others use their own addresses, and no other program of this host uses
\* ping's identifier.
ASSUME NoiseAssumption ==
  \A f \in Noise :
    /\ f.src \in DOMAIN HostIp /\ f.source = HostIp[f.src]
    /\ f.source = Target /\ f.dest = Local => f.id # "0x1337/1"
    /\ f.kind # "echo"

VARIABLES
  net,       \* every frame ever sent
  rx,        \* the channel's receive pipe
  phase,     \* what the current ping is doing, or its result
  attempt,   \* the loop counter
  mac,       \* the target's hardware address, as resolved
  run        \* the number of the current ping

vars == <<net, rx, phase, attempt, mac, run>>

NoMac == "none"
Final == {"reply", "timed out", "not resolved", "not sent"}

\* Frames.  cause is history: the ping whose echo request led to the frame,
\* 0 if none did.
Frame(kind, src, source, dst, dest, id, cause) ==
  [kind |-> kind, src |-> src, source |-> source, dst |-> dst, dest |-> dest,
   id |-> id, cause |-> cause]
OwnId == "0x1337/1"
Arp(kind, src, source, dst, dest) ==
  Frame(kind, src, source, dst, dest, "none", 0)
ArpRequest == Arp("arp request", LocalMac, Local, "all", Target)
ArpReply(f) == Arp("arp reply", LocalMac, Local, f.src, f.source)
Echo == Frame("echo", LocalMac, Local, mac, Target, OwnId, run)

Init ==
  /\ net = Noise /\ rx = <<>> /\ mac = NoMac
  /\ phase = "start" /\ attempt = 0 /\ run = 1

(***************************************************************************)
(* The network and the other hosts                                         *)
(***************************************************************************)

Deliver ==
  /\ Len(rx) < MaxRx /\ phase \notin Final \cup {"start"}
  /\ \E f \in net : f.src # LocalMac /\ rx' = Append(rx, f)
  /\ UNCHANGED <<net, phase, attempt, mac, run>>

\* A host answers a request for its address, and an echo sent to it.
HostAnswers(m) ==
  /\ \E f \in net :
       \/ /\ f.kind = "arp request" /\ f.dest = HostIp[m]
          /\ net' = net \cup {Arp("arp reply", m, HostIp[m], f.src, f.source)}
       \/ /\ f.kind = "echo" /\ f.dst = m /\ f.dest = HostIp[m]
          /\ net' = net \cup {Frame("echo reply", m, HostIp[m], f.src,
                                    f.source, f.id, f.cause)}
  /\ UNCHANGED <<rx, phase, attempt, mac, run>>

(***************************************************************************)
(* ping                                                                    *)
(***************************************************************************)

\* sendFrame: the write may fail, and only sendIcmpEcho's caller looks.
Send(f) == net' \in {net, net \cup {f}}

\* handleArpRequest: whether ping answers this frame.
IsRequestForUs(f) == f.kind = "arp request" /\ f.dest = Local

\* Mutant: a reply of any host is taken.
IsArpReplyOfAny(f) == f.kind = "arp reply" /\ f.dest = Local

\* tryParseArpReply
IsArpReply(f) ==
  f.kind = "arp reply" /\ f.source = Target /\ f.dest = Local

\* Mutant: the identifier is not compared.
IsEchoReplyOfAny(f) ==
  f.kind = "echo reply" /\ f.source = Target /\ f.dest = Local

\* tryHandleIcmpReply
IsEchoReply(f) ==
  /\ f.kind = "echo reply" /\ f.source = Target /\ f.dest = Local
  /\ f.id = OwnId

\* resolveTargetMac's first request; the channel is a new one.
Start ==
  /\ phase = "start"
  /\ Send(ArpRequest)
  /\ phase' = "resolve" /\ attempt' = 0
  /\ UNCHANGED <<rx, mac, run>>

\* Mutant: a frame that was answered does not count as an attempt.
AnswerRequestUncounted ==
  /\ \/ phase = "resolve" /\ attempt < ArpAttempts
     \/ phase = "await" /\ attempt < EchoAttempts
  /\ rx # <<>> /\ IsRequestForUs(Head(rx))
  /\ Send(ArpReply(Head(rx)))
  /\ rx' = Tail(rx)
  /\ UNCHANGED <<phase, attempt, mac, run>>

\* In both loops: a request for our address is answered, and counts.
AnswerRequest ==
  /\ \/ phase = "resolve" /\ attempt < ArpAttempts
     \/ phase = "await" /\ attempt < EchoAttempts
  /\ rx # <<>> /\ IsRequestForUs(Head(rx))
  /\ Send(ArpReply(Head(rx)))
  /\ rx' = Tail(rx) /\ attempt' = attempt + 1
  /\ UNCHANGED <<phase, mac, run>>

Resolve ==
  /\ phase = "resolve" /\ attempt < ArpAttempts
  /\ rx # <<>> /\ IsArpReply(Head(rx))
  /\ mac' = Head(rx).src
  /\ rx' = Tail(rx) /\ phase' = "echo"
  /\ UNCHANGED <<net, attempt, run>>

\* Nothing to read, or nothing of use: ask again once in a while.
ResolveAgain ==
  /\ phase = "resolve" /\ attempt < ArpAttempts
  /\ \/ rx = <<>> /\ UNCHANGED rx
     \/ /\ rx # <<>> /\ ~IsRequestForUs(Head(rx)) /\ ~IsArpReply(Head(rx))
        /\ rx' = Tail(rx)
  /\ IF attempt % RetryEvery = 0 THEN Send(ArpRequest) ELSE UNCHANGED net
  /\ attempt' = attempt + 1
  /\ UNCHANGED <<phase, mac, run>>

ResolveFails ==
  /\ phase = "resolve" /\ attempt >= ArpAttempts
  /\ phase' = "not resolved"
  /\ UNCHANGED <<net, rx, attempt, mac, run>>

SendIcmpEcho ==
  /\ phase = "echo"
  /\ \/ net' = net \cup {Echo} /\ phase' = "await" /\ attempt' = 0
     \/ UNCHANGED <<net, attempt>> /\ phase' = "not sent"
  /\ UNCHANGED <<rx, mac, run>>

ReplyArrives ==
  /\ phase = "await" /\ attempt < EchoAttempts
  /\ rx # <<>> /\ IsEchoReply(Head(rx))
  /\ rx' = Tail(rx) /\ phase' = "reply"
  /\ UNCHANGED <<net, attempt, mac, run>>

AwaitAgain ==
  /\ phase = "await" /\ attempt < EchoAttempts
  /\ \/ rx = <<>> /\ UNCHANGED rx
     \/ /\ rx # <<>> /\ ~IsRequestForUs(Head(rx)) /\ ~IsEchoReply(Head(rx))
        /\ rx' = Tail(rx)
  /\ attempt' = attempt + 1
  /\ UNCHANGED <<net, phase, mac, run>>

TimeOut ==
  /\ phase = "await" /\ attempt >= EchoAttempts
  /\ phase' = "timed out"
  /\ UNCHANGED <<net, rx, attempt, mac, run>>

\* The user pings again: a new process with a new channel.
PingAgain ==
  /\ phase \in Final /\ run < MaxRuns
  /\ run' = run + 1 /\ phase' = "start"
  /\ rx' = <<>> /\ mac' = NoMac /\ attempt' = 0
  /\ UNCHANGED net

PingStep ==
  \/ Start \/ AnswerRequest \/ Resolve \/ ResolveAgain \/ ResolveFails
  \/ SendIcmpEcho \/ ReplyArrives \/ AwaitAgain \/ TimeOut

Next ==
  \/ Deliver \/ PingAgain \/ PingStep
  \/ \E m \in DOMAIN HostIp : HostAnswers(m)

\* A ping process keeps running; nothing is assumed of the network.
Spec == Init /\ [][Next]_vars /\ WF_vars(PingStep)

(***************************************************************************)
(* Properties                                                              *)
(***************************************************************************)

\* The address that the echo request is sent to is that of a host with the
\* target's IP, whatever ARP traffic of others arrives (tryParseArpReply).
ResolvedMac ==
  mac # NoMac => mac \in DOMAIN HostIp /\ HostIp[mac] = Target

\* A frame that ping reports as the reply is the target's answer to an echo
\* request of a ping of this host, this one or an earlier one, and never the
\* traffic of others or an answer to another program (tryHandleIcmpReply).
ReplyGenuine ==
  [][phase' = "reply" /\ phase # "reply" =>
       LET f == Head(rx)
       IN f.src \in DOMAIN HostIp /\ HostIp[f.src] = Target
            /\ f.cause \in 1..run]_vars

\* No traffic keeps a ping running for ever, not even a flood of ARP
\* requests that it answers: every read counts (main returns).
PingEnds == (phase = "start") ~> (phase \in Final)
=============================================================================
