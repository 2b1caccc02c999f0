--------------------------- MODULE NetLoopProofs ---------------------------
(***************************************************************************)
(* Theorems about NetLoop for every value of its constants: the type       *)
(* invariant, the inductive invariant IInv behind AliveMeansReply,         *)
(* EchoToNextHop and TimerWaitsForArp, those properties themselves, the    *)
(* budgets of ARP requests and retries, what a call leaves behind, and     *)
(* that NetLoop without retries implements PingService.                    *)
(***************************************************************************)
EXTENDS NetLoop, TLAPS

-----------------------------------------------------------------------------
(* The device ring.                                                        *)

\* Whatever happens while eth_init scans the ring, it stays in the ring, and the
\* states of the devices stay what they may be.
LEMMA EthInitType ==
  ASSUME NEW k \in 0 .. Scan, NEW cur \in Devs, NEW failed \in Devs \cup {NoDev},
         NEW wrap \in BOOLEAN,
         NEW state \in [Devs -> {"INIT", "PASSIVE", "ACTIVE"}]
  PROVE  LET init == EthInit(k, cur, failed, wrap, state)
         IN  /\ init.cur \in Devs
             /\ init.wrap \in BOOLEAN
             /\ init.state \in [Devs -> {"INIT", "PASSIVE", "ACTIVE"}]
             /\ init.code \in {0, ETIMEDOUT}
<1>1. ScanAt(cur, k) \in Devs
  BY NumberAssumption DEF ScanAt, Scan, Devs
<1>2. (wrap \/ (Rotate /\ \E j \in 1 .. k : ScanAt(cur, j) = failed)) \in BOOLEAN
  OBVIOUS
<1>3. [state EXCEPT ![ScanAt(cur, k)] = "ACTIVE"]
        \in [Devs -> {"INIT", "PASSIVE", "ACTIVE"}]
  BY <1>1
<1> QED
  BY <1>1, <1>2, <1>3 DEF EthInit

\* The same of eth_try_another.
LEMMA TryAnotherType ==
  ASSUME NEW first \in BOOLEAN, NEW cur \in Devs,
         NEW failed \in Devs \cup {NoDev}, NEW wrap \in BOOLEAN
  PROVE  LET next == TryAnother(first, cur, failed, wrap)
         IN  /\ next.cur \in Devs
             /\ next.failed \in Devs \cup {NoDev}
             /\ next.wrap \in BOOLEAN
<1>1. NextDev(cur) \in Devs
  BY NumberAssumption DEF NextDev, Devs
<1> QED
  BY <1>1 DEF TryAnother

LEMMA HaltedType ==
  ASSUME dev_state \in [Devs -> {"INIT", "PASSIVE", "ACTIVE"}]
  PROVE  Halted \in [Devs -> {"INIT", "PASSIVE", "ACTIVE"}]
BY DEF Halted

LEMMA NextHopType ==
  ASSUME NEW ip \in Ips
  PROVE  NextHop(ip) \in Ips
BY AddressAssumption DEF NextHop, Ips

\* Ages stay below one past their limit.
LEMMA OlderType ==
  ASSUME NEW limit \in Nat, NEW age \in 0 .. limit + 1
  PROVE  Older(age, limit) \in 0 .. limit + 1 /\ Older(age, limit) <= age + 1
BY DEF Older

-----------------------------------------------------------------------------
(* Type correctness.                                                       *)

\* Every step keeps every variable in its range.
LEMMA TypeStep == TypeOK /\ [Next]_vars => TypeOK'
<1> SUFFICES ASSUME TypeOK, [Next]_vars PROVE TypeOK'
  OBVIOUS
<1> USE DEF TypeOK, CallType, DeviceType, ProtocolType,
          callVars, devVars, timerVars, arpVars, packetVars, historyVars
<1>0. NoFrame \in Frames /\ NoMac \in Macs \cup {NoMac} /\ NoIp \in Ips
  BY DEF NoFrame, Frame, Frames, Kinds, Ips
<1>h. Halted \in [Devs -> {"INIT", "PASSIVE", "ACTIVE"}]
  BY HaltedType
<1>b. ArpTimeout \in Nat /\ PingTimeout \in Nat /\ MaxLag \in Nat
  BY NumberAssumption
<1>1. ASSUME NEW ip \in Ips, DoPing(ip) PROVE TypeOK'
  <2>c0. net_try_count' \in Nat \ {0} /\ lag' \in 0 .. MaxLag /\ arp_sent' \in Nat
    BY <1>1, <1>b DEF DoPing
  <2>c4. ret' \in {EINVAL, ENODEV, ETIMEDOUT, 0}
    BY <1>1, <1>0, <1>b DEF DoPing
  <2>c1. CallType'
    BY <2>c0, <2>c4, <1>1, <1>0, <1>b DEF DoPing
  <2>c2. DeviceType'
    BY <1>1, <1>0, <1>b DEF DoPing
  <2>c3. ProtocolType'
    BY <1>1, <1>0, <1>b DEF DoPing
  <2> QED
    BY <2>c1, <2>c2, <2>c3
<1>2. CASE OpenDevice
  <2>1. PICK k \in 0 .. Scan :
          LET init == EthInit(k, eth_current, first_failed, net_restart_wrap, Halted)
          IN  /\ eth_current' = init.cur
              /\ net_restart_wrap' = init.wrap
              /\ dev_state' = init.state
              /\ ret' = init.code
              /\ pc' = IF init.code = 0 THEN "start" ELSE "idle"
    BY <1>2 DEF OpenDevice
  <2>2. /\ eth_current' \in Devs /\ net_restart_wrap' \in BOOLEAN
        /\ dev_state' \in [Devs -> {"INIT", "PASSIVE", "ACTIVE"}]
        /\ ret' \in {0, ETIMEDOUT} /\ pc' \in {"start", "idle"}
    BY <2>1, <1>h, EthInitType
  <2> QED
    BY <2>2, <1>2, <1>0, <1>b DEF OpenDevice
<1>3. CASE Refuse
  BY <1>3, <1>0, <1>h, <1>b DEF Refuse, EthHalt, States
<1>4. CASE PingStart
  <2>1. NextHop(net_ping_ip) \in Ips
    BY NextHopType
  <2>2. Frame("ArpRequest", NextHop(net_ping_ip), NoMac) \in Frames
    BY <2>1, <1>0 DEF Frame, Frames, Kinds
  <2>3. Frame("EchoRequest", net_ping_ip, NoMac) \in Frames
    BY <1>0 DEF Frame, Frames, Kinds
  <2>4. wire' \in Frames /\ arp_wait_reply_ip' \in Ips /\ tx_packet' \in Frames
    BY <1>4, <2>1, <2>2, <2>3, <1>0 DEF PingStart, ArpRequest, NetSendPacket
  <2> QED
    <3>c0. net_try_count' \in Nat \ {0} /\ lag' \in 0 .. MaxLag /\ arp_sent' \in Nat
      BY <2>4, <1>4, <1>b DEF PingStart
    <3>c4. ret' \in {EINVAL, ENODEV, ETIMEDOUT, 0}
      BY <2>4, <1>4, <1>0, <1>b DEF PingStart, States, Body
    <3>c1. CallType'
      BY <3>c0, <3>c4, <2>4, <1>4, <1>0, <1>b DEF PingStart, States, Body
    <3>c2. DeviceType'
      BY <2>4, <1>4, <1>0, <1>b DEF PingStart, States, Body
    <3>c3. ProtocolType'
      BY <2>4, <1>4, <1>0, <1>b DEF PingStart, States, Body
    <3> QED
      BY <3>c1, <3>c2, <3>c3
<1>5. CASE ArpQuiet
  BY <1>5, <1>0, <1>b DEF ArpQuiet, ArpStage, Body
<1>6. CASE ArpWaits
  BY <1>6, <1>0, <1>b DEF ArpWaits, ArpStage, RestartTimer, Body
<1>7. CASE ArpRetry
  <2>1. NextHop(arp_wait_packet_ip) \in Ips
    BY NextHopType
  <2>2. Frame("ArpRequest", NextHop(arp_wait_packet_ip), NoMac) \in Frames
    BY <2>1, <1>0 DEF Frame, Frames, Kinds
  <2>3. wire' \in Frames /\ arp_wait_reply_ip' \in Ips
    BY <1>7, <2>1, <2>2, <1>0 DEF ArpRetry, ArpRequest, NetSendPacket
  <2> QED
    BY <2>3, <1>7, <1>b DEF ArpRetry, ArpStage, ArpRequest, RestartTimer, Body
<1>8. CASE ArpGiveUp
  BY <1>8, <1>0, <1>b DEF ArpGiveUp, ArpStage, RestartTimer, Body, States
<1>9. CASE RxNothing
  BY <1>9, <1>0, <1>b DEF RxNothing, RxStage, Body
<1>10. ASSUME NEW f \in Arriving, RxArpReply(f) PROVE TypeOK'
  <2>1. f.mac \in Macs
    BY <1>10 DEF RxArpReply, Arriving, Frame
  <2>2. [tx_packet EXCEPT !.mac = f.mac] \in Frames /\ tx_packet.ip \in Ips
    BY <2>1 DEF Frames
  <2>3. tx_packet' \in Frames /\ wire' \in Frames /\ reached' \subseteq Ips
    BY <1>10, <2>2 DEF RxArpReply
  <2> QED
    BY <2>3, <1>10, <1>0, <1>b DEF RxArpReply, RxStage, ArpDone, Body
<1>11. ASSUME NEW f \in Arriving, RxRequest(f) PROVE TypeOK'
  <2>1. f.mac \in Macs /\ f.ip \in Ips
    BY <1>11 DEF RxRequest, Arriving, Frame, Ips
  <2>2. wire' \in Frames
    BY <1>11, <2>1, <1>0 DEF RxRequest, NetSendPacket, Frame, Frames, Kinds
  <2> QED
    BY <2>2, <1>11, <1>b DEF RxRequest, RxStage, Body
<1>12. ASSUME NEW f \in Arriving, RxEchoReply(f) PROVE TypeOK'
  BY <1>12, <1>0, <1>b DEF RxEchoReply, RxStage, Body, States
<1>13. CASE TimerQuiet
  BY <1>13, <1>0, <1>b DEF TimerQuiet, TimerStage, Body
<1>14. CASE TimerFires
  BY <1>14, <1>0, <1>b, <1>h DEF TimerFires, TimerStage, EthHalt, TimeoutState, Body, States
<1>15. CASE Continue
  BY <1>15, <1>0, <1>b DEF Continue, Dispatch, Body
<1>16. CASE Succeed
  BY <1>16, <1>0, <1>b, <1>h DEF Succeed, Dispatch, NetCleanupLoop, EthHalt
<1>17. CASE GiveUp
  BY <1>17, <1>0, <1>b, <1>h DEF GiveUp, Dispatch, NetCleanupLoop, EthHalt, GiveUpRet
<1>18. CASE Retry
  <2> DEFINE next == TryAnother(~ net_restarted, eth_current, first_failed,
                                net_restart_wrap)
             init(k) == EthInit(k, next.cur, next.failed, next.wrap, Halted)
  <2>1. PICK k \in 0 .. Scan :
          /\ first_failed' = next.failed
          /\ eth_current' = init(k).cur
          /\ dev_state' = init(k).state
          /\ ret' = init(k).code
          /\ \/ /\ pc' = "idle" /\ NetCleanupLoop /\ time_age' = 0
                /\ UNCHANGED <<net_state, net_restarted>>
             \/ /\ net_state' = "RESTART" /\ net_restarted' = TRUE
                /\ pc' = "start" /\ UNCHANGED timerVars
    BY <1>18 DEF Retry
  <2>2. /\ next.cur \in Devs /\ next.failed \in Devs \cup {NoDev}
        /\ next.wrap \in BOOLEAN
    BY TryAnotherType
  <2>3. /\ init(k).cur \in Devs /\ init(k).code \in {0, ETIMEDOUT}
        /\ init(k).state \in [Devs -> {"INIT", "PASSIVE", "ACTIVE"}]
    BY <2>2, <1>h, EthInitType
  <2> HIDE DEF next, init
  <2> QED
    <3>c0. net_try_count' \in Nat \ {0} /\ lag' \in 0 .. MaxLag /\ arp_sent' \in Nat
      BY <1>18, <1>b DEF Retry, Dispatch
    <3>c4. ret' \in {EINVAL, ENODEV, ETIMEDOUT, 0}
      BY <2>1, <2>2, <2>3, <1>18, <1>0, <1>b DEF Retry, Dispatch, NetCleanupLoop, States, Body
    <3>c1. CallType'
      BY <3>c0, <3>c4, <2>1, <2>2, <2>3, <1>18, <1>0, <1>b DEF Retry, Dispatch, NetCleanupLoop, States, Body
    <3>c2. DeviceType'
      BY <2>1, <2>2, <2>3, <1>18, <1>0, <1>b DEF Retry, Dispatch, NetCleanupLoop, States, Body
    <3>c3. ProtocolType'
      BY <2>1, <2>2, <2>3, <1>18, <1>0, <1>b DEF Retry, Dispatch, NetCleanupLoop, States, Body
    <3> QED
      BY <3>c1, <3>c2, <3>c3
<1>19. CASE Tick
  <2>c0. lag' \in 0 .. MaxLag
    BY <1>19, <1>b DEF Tick
  <2>c1. CallType'
    BY <2>c0, <1>19 DEF Tick, Body
  <2>c2. DeviceType'
    BY <1>19 DEF Tick, Body
  <2>c4. /\ time_age' \in 0 .. PingTimeout + 1
         /\ arp_age' \in 0 .. ArpTimeout + 1
    <3>1. Older(time_age, PingTimeout) \in 0 .. PingTimeout + 1
      BY <1>b, OlderType
    <3>2. Older(arp_age, ArpTimeout) \in 0 .. ArpTimeout + 1
      BY <1>b, OlderType
    <3> QED
      BY <3>1, <3>2, <1>19 DEF Tick
  <2>c3. ProtocolType'
    BY <2>c4, <1>19, <1>0, <1>b DEF Tick, Body
  <2> QED
    BY <2>c1, <2>c2, <2>c3
<1>20. CASE UNCHANGED vars
  BY <1>20 DEF vars
<1> QED
  BY <1>1, <1>2, <1>3, <1>4, <1>5, <1>6, <1>7, <1>8, <1>9, <1>10, <1>11, <1>12,
     <1>13, <1>14, <1>15, <1>16, <1>17, <1>18, <1>19, <1>20
     DEF Next, Cpu, Receive

LEMMA TypeInit == Init => TypeOK
<1> SUFFICES ASSUME Init PROVE TypeOK
  OBVIOUS
<1>1. NoFrame \in Frames /\ NoIp \in Ips
  BY DEF NoFrame, Frame, Frames, Kinds, Ips
<1>2. 0 \in Devs /\ [d \in Devs |-> "INIT"] \in [Devs -> {"INIT", "PASSIVE", "ACTIVE"}]
  BY NumberAssumption DEF Devs
<1>3. 0 \in 0 .. PingTimeout + 1 /\ 0 \in 0 .. ArpTimeout + 1 /\ 0 \in 0 .. MaxLag
  BY NumberAssumption
<1>4. 0 \in Nat /\ 1 \in Nat \ {0} /\ {} \subseteq Ips
  OBVIOUS
<1>5. CallType
  BY <1>1, <1>3, <1>4 DEF Init, CallType, States
<1>6. DeviceType
  BY <1>2 DEF Init, DeviceType
<1>7. ProtocolType
  BY <1>1, <1>3, <1>4 DEF Init, ProtocolType
<1> QED
  BY <1>5, <1>6, <1>7 DEF TypeOK

\* In every state every variable is in its range: the device index in the ring,
\* the ages within their limits, every frame on the wire a frame of ours.
THEOREM TypeCorrect == Spec => []TypeOK
<1> QED
  BY TypeInit, TypeStep, PTL DEF Spec

-----------------------------------------------------------------------------
(* The inductive invariant.                                                *)

LEMMA InvInit == Init => IInv
<1> SUFFICES ASSUME Init PROVE IInv
  OBVIOUS
<1> QED
  BY TypeInit
     DEF Init, IInv, SuccessIsAnswered, AnsweredIsReached, WaitingPacket,
         SentOrPending, TimerBound, ArpPending, AliveMeansReply, EchoToNextHop,
         Body, NoFrame, Frame, EINVAL

\* The parts of IInv other than TypeOK, named once for the steps below.
Core ==
  /\ SuccessIsAnswered /\ AnsweredIsReached
  /\ WaitingPacket /\ SentOrPending /\ TimerBound
  /\ AliveMeansReply /\ EchoToNextHop

\* Every step preserves IInv.
LEMMA InvStep == IInv /\ [Next]_vars => IInv'
<1> SUFFICES ASSUME TypeOK, Core, [Next]_vars PROVE Core'
  BY TypeStep DEF IInv, Core
<1> USE DEF Core, SuccessIsAnswered, AnsweredIsReached, WaitingPacket,
            SentOrPending, TimerBound, AliveMeansReply, EchoToNextHop,
            ArpPending, Body, NextHop,
            callVars, devVars, timerVars, arpVars, packetVars, historyVars
<1>t. /\ MaxLag \in Nat /\ PingTimeout \in Nat /\ lag \in 0 .. MaxLag
      /\ time_age \in 0 .. PingTimeout + 1 /\ net_try_count \in Nat \ {0}
  BY NumberAssumption DEF TypeOK, CallType, ProtocolType
<1>1. ASSUME NEW ip \in Ips, DoPing(ip) PROVE Core'
  BY <1>1, <1>t DEF DoPing, NoFrame, Frame
<1>2. CASE OpenDevice
  <2>1. pc' \in {"start", "idle"} /\ (pc' = "idle" => ~ (ret' >= 0))
    BY <1>2 DEF OpenDevice, EthInit, ETIMEDOUT
  <2> QED
    BY <2>1, <1>2, <1>t DEF OpenDevice, NoFrame, Frame
<1>3. CASE Refuse
  <2>1. ~ (ret' >= 0)
    BY <1>3 DEF Refuse, ENODEV
  <2> QED
    BY <2>1, <1>3 DEF Refuse, EthHalt, NoFrame, Frame
<1>4. CASE PingStart
  BY <1>4, <1>t DEF PingStart, ArpRequest, NetSendPacket, PrereqFails, Frame, NoFrame
<1>5. CASE ArpQuiet
  BY <1>5, <1>t DEF ArpQuiet, ArpStage, NoFrame, Frame
<1>6. CASE ArpWaits
  BY <1>6, <1>t DEF ArpWaits, ArpStage, RestartTimer, NoFrame, Frame
<1>7. CASE ArpRetry
  BY <1>7, <1>t DEF ArpRetry, ArpStage, RestartTimer, ArpRequest, NetSendPacket, NoFrame, Frame
<1>8. CASE ArpGiveUp
  BY <1>8, <1>t DEF ArpGiveUp, ArpStage, RestartTimer, NoFrame, Frame
<1>9. CASE RxNothing
  BY <1>9, <1>t DEF RxNothing, RxStage, NoFrame, Frame
<1>10. ASSUME NEW f \in Arriving, RxArpReply(f) PROVE Core'
  <2>1. f.type = "ArpReply" /\ f.mac \in MacsOf[f.ip]
    BY <1>10 DEF RxArpReply, Received, Truthful
  <2>2. f.ip = NextHop(net_ping_ip) /\ ArpPending
    BY <1>10 DEF RxArpReply, RxStage, Awaited
  <2>3. /\ tx_packet' = [tx_packet EXCEPT !.mac = f.mac] /\ wire' = tx_packet'
        /\ tx_packet.type = "EchoRequest" /\ tx_packet.ip = net_ping_ip
    BY <1>10, <2>2 DEF RxArpReply, RxStage
  <2>4. wire'.ip = net_ping_ip /\ wire'.mac = f.mac
    BY <2>3 DEF TypeOK, ProtocolType, Frames
  <2> QED
    BY <2>1, <2>2, <2>4, <1>10, <1>t DEF RxArpReply, RxStage, ArpDone
<1>11. ASSUME NEW f \in Arriving, RxRequest(f) PROVE Core'
  <2>1. wire'.type # "EchoRequest"
    BY <1>11 DEF RxRequest, NetSendPacket, NoFrame, Frame
  <2> QED
    BY <2>1, <1>11, <1>t DEF RxRequest, RxStage
<1>12. ASSUME NEW f \in Arriving, RxEchoReply(f) PROVE Core'
  <2>1. f.type = "EchoReply" /\ f.ip = net_ping_ip
    BY <1>12 DEF RxEchoReply, FromPinged
  <2>2. f.ip \in reached
    BY <2>1 DEF Arriving, Frame
  <2>3. answered' /\ net_ping_ip' \in reached'
    BY <2>1, <2>2, <1>12 DEF RxEchoReply, RxStage
  <2> QED
    BY <2>3, <1>12, <1>t DEF RxEchoReply, RxStage, NoFrame, Frame
<1>13. CASE TimerQuiet
  BY <1>13, <1>t DEF TimerQuiet, TimerStage, NoFrame, Frame
<1>14. CASE TimerFires
  BY <1>14, <1>t DEF TimerFires, TimerStage, TimeoutState, NoFrame, Frame
<1>15. CASE Continue
  BY <1>15, <1>t DEF Continue, Dispatch, NoFrame, Frame
<1>16. CASE Succeed
  BY <1>16, <1>t DEF Succeed, Dispatch, NetCleanupLoop, NoFrame, Frame
<1>17. CASE GiveUp
  BY <1>17, <1>t DEF GiveUp, GiveUpRet, ETIMEDOUT, Dispatch, NetCleanupLoop, NoFrame, Frame
<1>18. CASE Retry
  BY <1>18, <1>t DEF Retry, Dispatch, NetCleanupLoop, NoFrame, Frame
<1>19. CASE Tick
  <2>1. lag' = lag + 1 /\ time_age' <= time_age + 1 /\ time_age' \in Int
    <3>1. /\ Older(time_age, PingTimeout) \in Int
          /\ Older(time_age, PingTimeout) <= time_age + 1
      BY <1>t DEF Older
    <3> QED
      BY <3>1, <1>19, <1>t DEF Tick
  <2>2. TimerBound'
    BY <2>1, <1>19, <1>t DEF Tick
  <2> QED
    BY <2>2, <1>19, <1>t DEF Tick, NoFrame, Frame
<1>20. CASE UNCHANGED vars
  BY <1>20 DEF vars
<1> QED
  BY <1>1, <1>2, <1>3, <1>4, <1>5, <1>6, <1>7, <1>8, <1>9, <1>10, <1>11, <1>12, <1>13, <1>14, <1>15, <1>16, <1>17, <1>18, <1>19, <1>20
     DEF Next, Cpu, Receive

\* The inductive invariant holds in every state.
THEOREM Invariant == Spec => []IInv
<1> QED
  BY InvInit, InvStep, PTL DEF Spec

\* main.c prints "is alive" after a single attempt only for a host that an echo
\* request was sent to and whose reply the call accepted.
THEOREM AliveCorrect == Spec => []AliveMeansReply
<1>1. IInv => AliveMeansReply
  BY DEF IInv
<1> QED
  BY <1>1, Invariant, PTL

\* An echo request leaves only for the pinged address and its next hop.
THEOREM EchoCorrect == Spec => []EchoToNextHop
<1>1. IInv => EchoToNextHop
  BY DEF IInv
<1> QED
  BY <1>1, Invariant, PTL

\* The ping timeout never overtakes a pending ARP request, and comes only after
\* the echo request has gone out.
THEOREM TimerCorrect == Spec => TimerWaitsForArp
<1> DEFINE Waits ==
      time_handler = "ping" /\ time_handler' = "none" /\ net_state' = "FAIL"
        /\ pc = "timer"
      => ~ ArpPending /\ echo_sent
<1>1. IInv /\ [Next]_vars => [Waits]_vars
  <2> SUFFICES ASSUME IInv, [Next]_vars, pc = "timer",
                      time_handler = "ping", time_handler' = "none"
               PROVE  ~ ArpPending /\ echo_sent
    OBVIOUS
  <2>1. TimerFires
    BY DEF Next, Cpu, Receive, vars, timerVars, DoPing, OpenDevice, Refuse,
           PingStart, ArpQuiet, ArpWaits, ArpRetry, ArpGiveUp, ArpStage,
           RxNothing, RxArpReply, RxRequest, RxEchoReply, RxStage, TimerQuiet,
           Continue, Succeed, GiveUp, Retry, Dispatch, Tick
  <2>2. time_age > PingTimeout /\ time_age \in Int /\ lag <= MaxLag /\ lag \in Int
    BY <2>1, NumberAssumption
       DEF TimerFires, TimerExpired, IInv, TypeOK, CallType, ProtocolType
  <2>3. ~ ArpPending
    BY <2>2, NumberAssumption, LagAssumption DEF IInv, TimerBound
  <2> QED
    BY <2>3 DEF IInv, SentOrPending, Body
<1>2. Spec => [][Waits]_vars
  BY <1>1, Invariant, PTL DEF Spec
<1> QED
  BY <1>2 DEF TimerWaitsForArp

\* One attempt sends one echo request, however often the ARP reply is repeated.
THEOREM OneEchoCorrect == Spec => OneEchoPerAttempt
<1> DEFINE OneEcho == wire'.type = "EchoRequest" /\ wire' # wire => ~ echo_sent
<1>1. IInv /\ [Next]_vars => [OneEcho]_vars
  <2> SUFFICES ASSUME IInv, [Next]_vars, wire'.type = "EchoRequest", wire' # wire
               PROVE  ~ echo_sent
    OBVIOUS
  <2>1. PICK f \in Arriving : RxArpReply(f)
    BY DEF Next, Cpu, Receive, vars, DoPing, OpenDevice, Refuse, PingStart,
           ArpQuiet, ArpWaits, ArpRetry, ArpGiveUp, ArpRequest, RxNothing,
           RxRequest, RxEchoReply, TimerQuiet, TimerFires, TimerStage, Continue,
           Succeed, GiveUp, Retry, Dispatch, Tick, NetSendPacket, NoFrame, Frame
  <2> QED
    BY <2>1 DEF RxArpReply, RxStage, Awaited, IInv, WaitingPacket, Body
<1>2. Spec => [][OneEcho]_vars
  BY <1>1, Invariant, PTL DEF Spec
<1> QED
  BY <1>2 DEF OneEchoPerAttempt

-----------------------------------------------------------------------------
(* The tries: of ARP within an attempt, and of attempts within a call.      *)

\* The code counts tries in arp_wait_try, which it resets when it gives up; but a pass
\* that gives up is the last of its attempt.
Tries ==
  /\ RetryBudget /\ ArpBudget
  /\ pc = "arp" => net_state = "CONTINUE"
  /\ pc \in Body /\ net_state = "CONTINUE" => arp_sent = arp_wait_try

LEMMA TriesStep == TypeOK /\ Tries /\ [Next]_vars => Tries'
<1> SUFFICES ASSUME TypeOK, Tries, [Next]_vars PROVE Tries'
  OBVIOUS
<1> USE DEF Tries, RetryBudget, ArpBudget, Body,
            callVars, devVars, timerVars, arpVars, packetVars, historyVars
<1>t. /\ RetryCount \in Nat /\ ArpTimeoutCount \in Nat
      /\ net_try_count \in Nat \ {0} /\ arp_sent \in Nat /\ arp_wait_try \in Nat
  BY NumberAssumption DEF TypeOK, CallType, ProtocolType
<1>1. ASSUME NEW ip \in Ips, DoPing(ip) PROVE Tries'
  BY <1>1, <1>t DEF DoPing
<1>2. CASE OpenDevice
  <2>1. pc' \in {"start", "idle"}
    BY <1>2 DEF OpenDevice
  <2> QED
    BY <2>1, <1>2, <1>t DEF OpenDevice
<1>3. CASE Refuse
  BY <1>3, <1>t DEF Refuse
<1>4. CASE PingStart
  BY <1>4, <1>t DEF PingStart
<1>5. CASE ArpQuiet \/ ArpWaits
  BY <1>5, <1>t DEF ArpQuiet, ArpWaits, ArpStage
<1>6. CASE ArpRetry
  <2>1. arp_wait_try + 1 < ArpTimeoutCount
    BY <1>6, <1>t DEF ArpRetry, LastTry
  <2> QED
    BY <2>1, <1>6, <1>t DEF ArpRetry, ArpStage
<1>7. CASE ArpGiveUp
  BY <1>7, <1>t DEF ArpGiveUp, ArpStage
<1>8. CASE RxNothing \/ Receive
  BY <1>8, <1>t DEF Receive, RxNothing, RxArpReply, RxRequest, RxEchoReply, RxStage
<1>9. CASE TimerQuiet \/ TimerFires
  BY <1>9, <1>t DEF TimerQuiet, TimerFires, TimerStage, TimeoutState
<1>10. CASE Continue \/ Succeed \/ GiveUp
  BY <1>10, <1>t DEF Continue, Succeed, GiveUp, Dispatch
<1>11. CASE Retry
  <2>1. RetryForever \/ net_try_count <= RetryCount
    BY <1>11, <1>t DEF Retry, NoMoreTries
  <2>2. pc' \in {"idle", "start"}
    BY <1>11 DEF Retry
  <2> QED
    BY <2>1, <2>2, <1>11, <1>t DEF Retry, Dispatch
<1>12. CASE Tick \/ UNCHANGED vars
  BY <1>12, <1>t DEF Tick, vars
<1> QED
  BY <1>1, <1>2, <1>3, <1>4, <1>5, <1>6, <1>7, <1>8, <1>9, <1>10, <1>11, <1>12
     DEF Next, Cpu

LEMMA TriesInvariant == Spec => []Tries
<1>1. Init => Tries
  BY NumberAssumption DEF Init, Tries, RetryBudget, ArpBudget, Body
<1> QED
  BY <1>1, TriesStep, TypeCorrect, PTL DEF Spec

\* One attempt broadcasts no more ARP requests than ARP_TIMEOUT_COUNT, late answers and
\* repeated attempts notwithstanding.
THEOREM ArpBudgetKept == Spec => []ArpBudget
<1>1. Tries => ArpBudget
  BY DEF Tries
<1> QED
  BY <1>1, TriesInvariant, PTL

\* net_start_again makes no more attempts than netretry allows.
THEOREM RetryBudgetKept == Spec => []RetryBudget
<1>1. Tries => RetryBudget
  BY DEF Tries
<1> QED
  BY <1>1, TriesInvariant, PTL

-----------------------------------------------------------------------------
(* What a call leaves behind.                                              *)

\* At most the current device is up.  A timeout handler survives into a further attempt
\* only when the first got past net_check_prereq, so that the further one will, too.
Tidy ==
  /\ \A d \in Devs : dev_state[d] = "ACTIVE" => d = eth_current
  /\ pc \in {"idle", "open"} => time_handler = "none"
  /\ pc = "start" /\ PrereqFails => time_handler = "none"
  /\ pc \in Body => ~ PrereqFails
  /\ ReturnsQuiet

\* eth_init brings up the device it ends on, or none.
LEMMA EthInitTidy ==
  ASSUME NEW k \in 0 .. Scan, NEW cur \in Devs, NEW failed, NEW wrap,
         NEW state \in [Devs -> {"INIT", "PASSIVE", "ACTIVE"}],
         \A d \in Devs : state[d] # "ACTIVE"
  PROVE  LET init == EthInit(k, cur, failed, wrap, state)
         IN  \A d \in Devs : init.state[d] = "ACTIVE" => d = init.cur /\ init.code = 0
BY DEF EthInit

LEMMA HaltedTidy ==
  ASSUME TypeOK, \A d \in Devs : dev_state[d] = "ACTIVE" => d = eth_current
  PROVE  \A d \in Devs : Halted[d] # "ACTIVE"
BY DEF TypeOK, DeviceType, Halted

LEMMA TidyStep == TypeOK /\ Tidy /\ [Next]_vars => Tidy'
<1> SUFFICES ASSUME TypeOK, Tidy, [Next]_vars PROVE Tidy'
  OBVIOUS
<1> USE DEF Tidy, ReturnsQuiet, Body, PrereqFails,
            callVars, devVars, timerVars, arpVars, packetVars, historyVars
<1>t. /\ net_try_count \in Nat \ {0}
      /\ eth_current \in Devs /\ first_failed \in Devs \cup {NoDev}
      /\ net_restart_wrap \in BOOLEAN /\ net_restarted \in BOOLEAN
      /\ dev_state \in [Devs -> {"INIT", "PASSIVE", "ACTIVE"}]
  BY DEF TypeOK, CallType, DeviceType
<1>h. /\ \A d \in Devs : Halted[d] # "ACTIVE"
      /\ Halted \in [Devs -> {"INIT", "PASSIVE", "ACTIVE"}]
  BY HaltedTidy, HaltedType, <1>t
<1>1. ASSUME NEW ip \in Ips, DoPing(ip) PROVE Tidy'
  BY <1>1 DEF DoPing
<1>2. CASE OpenDevice
  <2> DEFINE init(k) == EthInit(k, eth_current, first_failed, net_restart_wrap, Halted)
  <2>1. PICK k \in 0 .. Scan :
          /\ eth_current' = init(k).cur /\ dev_state' = init(k).state
          /\ pc' = IF init(k).code = 0 THEN "start" ELSE "idle"
    BY <1>2 DEF OpenDevice
  <2>2. \A d \in Devs : init(k).state[d] = "ACTIVE" => d = init(k).cur /\ init(k).code = 0
    BY <1>t, <1>h, EthInitTidy
  <2> HIDE DEF init
  <2>3. time_handler' = time_handler /\ time_handler = "none"
    BY <1>2 DEF OpenDevice
  <2> QED
    BY <2>1, <2>2, <2>3
<1>3. CASE Refuse
  BY <1>3, <1>h DEF Refuse, EthHalt
<1>4. CASE PingStart
  BY <1>4 DEF PingStart
<1>5. CASE ArpQuiet \/ ArpWaits \/ ArpRetry \/ ArpGiveUp
  BY <1>5 DEF ArpQuiet, ArpWaits, ArpRetry, ArpGiveUp, ArpStage
<1>6. CASE RxNothing \/ Receive
  BY <1>6 DEF Receive, RxNothing, RxArpReply, RxRequest, RxEchoReply, RxStage
<1>7. CASE TimerQuiet
  BY <1>7 DEF TimerQuiet, TimerStage
<1>8. CASE TimerFires
  BY <1>8, <1>h DEF TimerFires, TimerStage, EthHalt
<1>9. CASE Continue
  BY <1>9 DEF Continue, Dispatch
<1>10. CASE Succeed \/ GiveUp
  BY <1>10, <1>h DEF Succeed, GiveUp, Dispatch, NetCleanupLoop, EthHalt
<1>11. CASE Retry
  <2> DEFINE next == TryAnother(~ net_restarted, eth_current, first_failed,
                                net_restart_wrap)
             init(k) == EthInit(k, next.cur, next.failed, next.wrap, Halted)
  <2>1. PICK k \in 0 .. Scan :
          /\ eth_current' = init(k).cur /\ dev_state' = init(k).state
          /\ \/ pc' = "idle" /\ time_handler' = "none"
             \/ pc' = "start"
    BY <1>11 DEF Retry, NetCleanupLoop
  <2>2. next.cur \in Devs
    BY <1>t, TryAnotherType
  <2>3. \A d \in Devs : init(k).state[d] = "ACTIVE" => d = init(k).cur
    BY <1>h, <2>2, EthInitTidy
  <2> HIDE DEF next, init
  <2>4. net_try_count' # 1 /\ ~ PrereqFails /\ net_ping_ip' = net_ping_ip
    BY <1>11, <1>t DEF Retry, Dispatch
  <2> QED
    BY <2>1, <2>3, <2>4
<1>12. CASE Tick
  BY <1>12 DEF Tick
<1>13. CASE UNCHANGED vars
  BY <1>13 DEF vars
<1> QED
  BY <1>1, <1>2, <1>3, <1>4, <1>5, <1>6, <1>7, <1>8, <1>9, <1>10, <1>11, <1>12, <1>13
     DEF Next, Cpu

\* Whatever way net_loop returns, no timeout handler is left for the next call, and
\* after a single attempt no device is.
THEOREM ReturnsQuietly == Spec => []ReturnsQuiet
<1>1. Init => Tidy
  BY DEF Init, Tidy, ReturnsQuiet, Body, PrereqFails
<1>2. Tidy => ReturnsQuiet
  BY DEF Tidy
<1> QED
  BY <1>1, <1>2, TidyStep, TypeCorrect, PTL DEF Spec

-----------------------------------------------------------------------------
(* NetLoop without retries implements PingService.                         *)

NoRetry == ~ RetryForever /\ RetryCount = 0

LEMMA OneTry == ASSUME NoRetry PROVE Spec => [](net_try_count = 1)
<1>1. Init => net_try_count = 1
  BY DEF Init
<1>2. net_try_count = 1 /\ [Next]_vars => (net_try_count = 1)'
  BY NoRetry
     DEF NoRetry, Next, Cpu, Receive, vars, callVars, DoPing, OpenDevice, Refuse,
         PingStart, ArpQuiet, ArpWaits, ArpRetry, ArpGiveUp, ArpStage, RxNothing,
         RxArpReply, RxRequest, RxEchoReply, RxStage, TimerQuiet, TimerFires,
         TimerStage, Continue, Succeed, GiveUp, Retry, NoMoreTries, Tick
<1> QED
  BY <1>1, <1>2, PTL DEF Spec

LEMMA ServiceStep ==
  ASSUME IInv, net_try_count = 1, NoRetry, [Next]_vars
  PROVE  [Service!Next]_(Service!svars)
<1> USE DEF asked, report, Service!svars, callVars, EINVAL, ENODEV, ETIMEDOUT
<1>t. answered \in BOOLEAN
  BY DEF IInv, TypeOK, CallType
<1>1. ASSUME NEW ip \in Ips, DoPing(ip) PROVE Service!Ask(ip)
  BY <1>1 DEF DoPing, Service!Ask
<1>2. CASE OpenDevice
  <2>1. \/ pc' = "start"
        \/ pc' = "idle" /\ ret' = ETIMEDOUT
    BY <1>2 DEF OpenDevice, EthInit
  <2> QED
    BY <2>1, <1>2 DEF OpenDevice, historyVars, Service!Next, Service!Report
<1>3. CASE Refuse \/ GiveUp
  BY <1>3 DEF Refuse, GiveUp, GiveUpRet, Dispatch, historyVars, Service!Next,
              Service!Report
<1>4. CASE Succeed
  <2>1. answered
    BY <1>4 DEF Succeed, Dispatch, IInv, SuccessIsAnswered, Body
  <2> QED
    BY <2>1, <1>4 DEF Succeed, Dispatch, historyVars, Service!Next, Service!Report
<1>5. ASSUME NEW f \in Arriving, RxEchoReply(f) PROVE Service!Answer
  BY <1>5 DEF RxEchoReply, RxStage, FromPinged, Service!Answer
<1>6. CASE PingStart \/ ArpQuiet \/ ArpWaits \/ ArpRetry \/ ArpGiveUp
  BY <1>6 DEF PingStart, ArpQuiet, ArpWaits, ArpRetry, ArpGiveUp, ArpStage
<1>7. CASE RxNothing \/ \E f \in Arriving : RxArpReply(f) \/ RxRequest(f)
  BY <1>7 DEF RxNothing, RxArpReply, RxRequest, RxStage
<1>8. CASE TimerQuiet \/ TimerFires \/ Continue
  BY <1>8 DEF TimerQuiet, TimerFires, TimerStage, Continue, Dispatch, historyVars
<1>9. CASE Tick \/ UNCHANGED vars
  BY <1>9 DEF Tick, vars, Body, historyVars
<1>10. ~ Retry
  BY DEF NoRetry, Retry, NoMoreTries
<1> QED
  BY <1>1, <1>2, <1>3, <1>4, <1>5, <1>6, <1>7, <1>8, <1>9, <1>10
     DEF Next, Cpu, Receive, Service!Next

\* As main.c configures it, net_loop(PING) gives one report per ping, and "alive"
\* only with an answer of the host in question, over every network.
THEOREM Refinement == ASSUME NoRetry PROVE Spec => Implements
<1>1. Init => Service!Init
  BY DEF Init, Service!Init, asked, report, EINVAL
<1>2. IInv /\ net_try_count = 1 /\ [Next]_vars => [Service!Next]_(Service!svars)
  BY ServiceStep, NoRetry
<1> QED
  BY <1>1, <1>2, Invariant, OneTry, PTL DEF Spec, Implements, Service!Spec
=============================================================================
