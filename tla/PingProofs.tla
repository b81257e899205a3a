----------------------------- MODULE PingProofs -----------------------------
(***************************************************************************)
(* What Ping guarantees for every set of hosts, every traffic of others    *)
(* and every number of attempts.  Frames are taken out of the pipe in      *)
(* later steps than they were sent in, so neither property is inductive:   *)
(* the invariant says of every frame ever sent where it comes from.        *)
(***************************************************************************)
EXTENDS Ping, TLAPS

\* Where a frame comes from: a host of the network uses its own IP, an echo
\* request is that of a ping so far, and so is what an echo reply to this
\* host answers.
Genuine(f, r) ==
  /\ f.src # LocalMac => f.src \in DOMAIN HostIp /\ f.source = HostIp[f.src]
  /\ f.kind = "echo" => f.cause \in 1..r
  /\ IsEchoReply(f) => f.cause \in 1..r

Foreign(f) == f.src # LocalMac

PingInv ==
  /\ run \in Nat \ {0}
  /\ \A f \in net : Genuine(f, run)
  /\ rx \in Seq(net)
  /\ \A i \in 1..Len(rx) : Foreign(rx[i])
  /\ ResolvedMac

\* A sequence over a set is one over every larger set: frames in the pipe
\* stay frames that were sent when more are sent.
LEMMA SeqMonotone ==
  ASSUME NEW S, NEW T, S \subseteq T, NEW s \in Seq(S)
  PROVE  s \in Seq(T)
OBVIOUS

\* A frame is as genuine after more pings as it was.
LEMMA GenuineMonotone ==
  ASSUME NEW f, NEW r \in Nat, Genuine(f, r)
  PROVE  Genuine(f, r + 1)
BY DEF Genuine

\* The frame read next is one that was sent, and not by ping.
LEMMA HeadSent ==
  ASSUME PingInv, rx # <<>>
  PROVE  /\ Head(rx) \in net /\ Foreign(Head(rx))
         /\ Genuine(Head(rx), run)
         /\ Tail(rx) \in Seq(net)
         /\ \A i \in 1..Len(Tail(rx)) : Foreign(Tail(rx)[i])
BY DEF PingInv

\* What is read, or left unread, keeps the pipe sound.
LEMMA PipeKept ==
  ASSUME PingInv, rx' = rx \/ (rx # <<>> /\ rx' = Tail(rx)), net \subseteq net'
  PROVE  rx' \in Seq(net') /\ \A i \in 1..Len(rx') : Foreign(rx'[i])
<1>1. rx' \in Seq(net) /\ \A i \in 1..Len(rx') : Foreign(rx'[i])
  <2>1. CASE rx' = rx
    BY <2>1 DEF PingInv
  <2>2. CASE rx # <<>> /\ rx' = Tail(rx)
    BY <2>2, HeadSent
  <2> QED BY <2>1, <2>2
<1> QED BY <1>1, SeqMonotone

\* ping's own frames are genuine, whatever address it answers.
LEMMA OwnFramesGenuine ==
  ASSUME PingInv, NEW f
  PROVE  /\ Genuine(ArpRequest, run) /\ Genuine(ArpReply(f), run)
         /\ Genuine(Echo, run)
<1>1. run \in 1..run
  BY DEF PingInv
<1> QED BY <1>1 DEF Genuine, ArpRequest, ArpReply, Echo, Arp, Frame, IsEchoReply

\* A step that sends at most a genuine frame, reads at most one and leaves
\* the resolved address alone keeps the invariant.
LEMMA SendKept ==
  ASSUME PingInv, NEW f, Genuine(f, run),
         net' = net \/ net' = net \cup {f},
         rx' = rx \/ (rx # <<>> /\ rx' = Tail(rx)),
         mac' = mac, run' = run
  PROVE  PingInv'
<1>1. rx' \in Seq(net') /\ \A i \in 1..Len(rx') : Foreign(rx'[i])
  BY PipeKept
<1>2. \A g \in net' : Genuine(g, run)
  BY DEF PingInv
<1> QED BY <1>1, <1>2 DEF PingInv, ResolvedMac, Genuine, Foreign, IsEchoReply

LEMMA InitInv == Init => PingInv
<1> SUFFICES ASSUME Init PROVE PingInv
  OBVIOUS
<1>1. \A f \in net : Genuine(f, run)
  BY NoiseAssumption DEF Init, Genuine, IsEchoReply, OwnId
<1> QED BY <1>1 DEF Init, PingInv, ResolvedMac

LEMMA DeliverInv == PingInv /\ Deliver => PingInv'
<1> SUFFICES ASSUME PingInv, Deliver PROVE PingInv'
  OBVIOUS
<1>1. PICK f \in net : Foreign(f) /\ rx' = Append(rx, f)
  BY DEF Deliver, Foreign
<1>2. rx' \in Seq(net) /\ \A i \in 1..Len(rx') : Foreign(rx'[i])
  BY <1>1 DEF PingInv
<1> QED BY <1>2 DEF Deliver, PingInv, ResolvedMac, Genuine, Foreign, IsEchoReply

LEMMA HostAnswersInv ==
  ASSUME PingInv, NEW m \in DOMAIN HostIp, HostAnswers(m)
  PROVE  PingInv'
<1>1. PICK f \in net :
        \/ net' = net \cup {Arp("arp reply", m, HostIp[m], f.src, f.source)}
        \/ /\ f.kind = "echo"
           /\ net' = net \cup {Frame("echo reply", m, HostIp[m], f.src,
                                     f.source, f.id, f.cause)}
  BY DEF HostAnswers
<1>2. f.kind = "echo" => f.cause \in 1..run
  BY DEF PingInv, Genuine
<1>3. Genuine(Arp("arp reply", m, HostIp[m], f.src, f.source), run)
  BY DEF Genuine, Arp, Frame, IsEchoReply
<1>4. f.kind = "echo" =>
        Genuine(Frame("echo reply", m, HostIp[m], f.src, f.source, f.id,
                      f.cause), run)
  BY <1>2 DEF Genuine, Frame, IsEchoReply
<1>5. rx' = rx /\ mac' = mac /\ run' = run
  BY DEF HostAnswers
<1> QED BY <1>1, <1>3, <1>4, <1>5, SendKept

\* Every step of ping itself.
LEMMA PingStepInv == PingInv /\ PingStep => PingInv'
<1> SUFFICES ASSUME PingInv, PingStep PROVE PingInv'
  OBVIOUS
<1>1. CASE Start
  BY <1>1, OwnFramesGenuine, SendKept DEF Start, Send
<1>2. CASE AnswerRequest
  BY <1>2, OwnFramesGenuine, SendKept DEF AnswerRequest, Send
<1>3. CASE Resolve
  <2>1. Foreign(Head(rx)) /\ Genuine(Head(rx), run)
    BY <1>3, HeadSent DEF Resolve
  <2>2. ResolvedMac'
    BY <1>3, <2>1 DEF Resolve, IsArpReply, ResolvedMac, Genuine, Foreign
  <2>3. rx' \in Seq(net') /\ \A i \in 1..Len(rx') : Foreign(rx'[i])
    BY <1>3, PipeKept DEF Resolve
  <2> QED BY <1>3, <2>2, <2>3
          DEF Resolve, PingInv, Genuine, Foreign, IsEchoReply
<1>4. CASE ResolveAgain
  BY <1>4, OwnFramesGenuine, SendKept DEF ResolveAgain, Send
<1>5. CASE ResolveFails
  BY <1>5, OwnFramesGenuine, SendKept DEF ResolveFails
<1>6. CASE SendIcmpEcho
  BY <1>6, OwnFramesGenuine, SendKept DEF SendIcmpEcho
<1>7. CASE ReplyArrives
  BY <1>7, OwnFramesGenuine, SendKept DEF ReplyArrives
<1>8. CASE AwaitAgain
  BY <1>8, OwnFramesGenuine, SendKept DEF AwaitAgain
<1>9. CASE TimeOut
  BY <1>9, OwnFramesGenuine, SendKept DEF TimeOut
<1> QED BY <1>1, <1>2, <1>3, <1>4, <1>5, <1>6, <1>7, <1>8, <1>9 DEF PingStep

LEMMA PingAgainInv == PingInv /\ PingAgain => PingInv'
<1> SUFFICES ASSUME PingInv, PingAgain PROVE PingInv'
  OBVIOUS
<1>1. run \in Nat /\ run' = run + 1 /\ run' \in Nat \ {0}
  BY DEF PingInv, PingAgain
<1>2. \A f \in net : Genuine(f, run + 1)
  BY <1>1, GenuineMonotone DEF PingInv
<1>3. rx' \in Seq(net') /\ \A i \in 1..Len(rx') : Foreign(rx'[i])
  BY DEF PingAgain
<1>4. \A f \in net' : Genuine(f, run')
  BY <1>1, <1>2 DEF PingAgain
<1>5. ResolvedMac'
  BY DEF PingAgain, ResolvedMac
<1> QED BY <1>1, <1>3, <1>4, <1>5
        DEF PingInv, Genuine, Foreign, IsEchoReply

LEMMA NextPingInv == PingInv /\ [Next]_vars => PingInv'
<1> SUFFICES ASSUME PingInv, [Next]_vars PROVE PingInv'
  OBVIOUS
<1>1. CASE Deliver
  BY <1>1, DeliverInv
<1>2. CASE PingAgain
  BY <1>2, PingAgainInv
<1>3. CASE PingStep
  BY <1>3, PingStepInv
<1>4. ASSUME NEW m \in DOMAIN HostIp, HostAnswers(m) PROVE PingInv'
  BY <1>4, HostAnswersInv
<1>5. CASE UNCHANGED vars
  BY <1>5 DEF vars, PingInv, ResolvedMac, Genuine, Foreign, IsEchoReply
<1> QED BY <1>1, <1>2, <1>3, <1>4, <1>5 DEF Next

\* Only reading an echo reply that answers one of this host's pings makes
\* ping report a reply.
LEMMA ReplyStep ==
  ASSUME PingInv, [Next]_vars, phase' = "reply", phase # "reply"
  PROVE  /\ Head(rx).src \in DOMAIN HostIp /\ HostIp[Head(rx).src] = Target
         /\ Head(rx).cause \in 1..run
<1>1. ReplyArrives
  BY DEF Next, vars, Deliver, PingAgain, PingStep, Start, AnswerRequest,
         Resolve, ResolveAgain, ResolveFails, SendIcmpEcho, AwaitAgain,
         TimeOut, HostAnswers
<1>2. rx # <<>> /\ IsEchoReply(Head(rx))
  BY <1>1 DEF ReplyArrives
<1>3. Foreign(Head(rx)) /\ Genuine(Head(rx), run)
  BY <1>2, HeadSent
<1> QED BY <1>2, <1>3 DEF Foreign, Genuine, IsEchoReply

\* The echo request goes to a host that has the target's IP, for all hosts
\* and all traffic (tryParseArpReply, resolveTargetMac).
THEOREM ResolvedMacHolds == Spec => []ResolvedMac
<1>1. PingInv => ResolvedMac
  BY DEF PingInv
<1> QED BY <1>1, InitInv, NextPingInv, PTL DEF Spec

\* What ping reports as the reply is the target's answer to an echo request
\* of this host, for all hosts and all traffic (tryHandleIcmpReply).
THEOREM ReplyGenuineHolds == Spec => ReplyGenuine
<1>1. PingInv /\ [Next]_vars =>
        [phase' = "reply" /\ phase # "reply" =>
           LET f == Head(rx)
           IN f.src \in DOMAIN HostIp /\ HostIp[f.src] = Target
                /\ f.cause \in 1..run]_vars
  BY ReplyStep
<1> QED BY <1>1, InitInv, NextPingInv, PTL DEF Spec, ReplyGenuine
=============================================================================
