------------------------------ MODULE NetLoop ------------------------------
(***************************************************************************)
(* net_loop(PING) of net/net.c with the protocol code it drives: ARP       *)
(* (net/arp.c), ping (net/ping.c), the timeout handler, net_start_again    *)
(* and the calls into the device ring (net/eth_legacy.c, eth_common.c).    *)
(*                                                                         *)
(* The processor runs one thread that polls.  pc says where it is: "idle"  *)
(* between calls, "open" in the prologue of net_loop, "start" at its label *)
(* restart, and "arp", "rx", "timer", "dispatch" at the four stages of the *)
(* body of for (;;).  Time (Tick) passes between any two stages; frames    *)
(* arrive, late, repeated, out of order or not at all, at "rx".            *)
(*                                                                         *)
(* A timestamp is modelled by its age, counted up to one past the longest  *)
(* timeout that reads it and only while something can read it.             *)
(***************************************************************************)
EXTENDS Integers

CONSTANTS
  Hosts,            \* the peers, by IP address
  OnLink,           \* those on the subnet of net_ip under net_netmask
  Gateway,          \* net_gateway, or NoIp when it is not set
  NoIp,             \* the IP address 0
  NetIp,            \* net_ip: this machine's address, or NoIp
  Macs,             \* Ethernet addresses of the peers
  NoMac,            \* net_null_ethaddr
  MacsOf,           \* host -> the Ethernet addresses it truthfully answers with
  NDev,             \* number of registered Ethernet devices
  Rotate,           \* FALSE when the variable ethrotate is "no"
  RetryForever,     \* netretry is "yes"
  RetryCount,       \* netretry as a number ("once" is 1; "no" and unset are 0)
  ArpTimeout,       \* ARP_TIMEOUT, in ticks
  ArpTimeoutCount,  \* ARP_TIMEOUT_COUNT
  PingTimeout,      \* the 10000 ms of ping_start, in ticks
  MaxLag            \* ticks that may pass during one stage of the loop

ASSUME AddressAssumption ==
  /\ OnLink \subseteq Hosts
  /\ NoIp \notin Hosts /\ NetIp \notin Hosts
  /\ Gateway \in OnLink \cup {NoIp}
  /\ NoMac \notin Macs
  /\ MacsOf \in [Hosts -> SUBSET Macs]

ASSUME NumberAssumption ==
  /\ NDev \in Nat \ {0}
  /\ Rotate \in BOOLEAN /\ RetryForever \in BOOLEAN
  /\ RetryCount \in Nat
  /\ ArpTimeout \in Nat /\ ArpTimeoutCount \in Nat /\ PingTimeout \in Nat
  /\ MaxLag \in Nat

\* The longest stage is a geth_xmit that waits out its 5000 ms; two stages
\* (eth_rx, and the way from there to the timeout test) fit in a ping timeout.
ASSUME LagAssumption == 2 * MaxLag <= PingTimeout

VARIABLES
  pc,
  ret,                  \* what the latest call returned (ret of net_loop)
  net_ping_ip,
  net_state,
  net_try_count,
  net_restarted,
  net_restart_wrap,
  eth_current,          \* index in the device ring
  first_failed,         \* the static of eth_try_another
  dev_state,            \* device -> its eth_device.state
  time_handler,
  time_age,             \* time since time_start
  arp_wait_packet_ip,   \* net_arp_wait_packet_ip
  arp_wait_reply_ip,    \* net_arp_wait_reply_ip
  arp_wait_try,
  arp_age,              \* time since arp_wait_timer_start
  tx_packet,            \* net_tx_packet: the waiting echo request
  tx_size,              \* arp_wait_tx_packet_size
  wire,                 \* the frame the latest step handed to eth_send
  lag,                  \* ticks since the latest stage of the loop
  reached,              \* environment: hosts an echo request may have got to
  answered,             \* history: the pinged host has answered this call
  arp_sent,             \* history: ARP requests of this attempt
  echo_sent             \* history: this attempt's echo request has gone out

callVars == <<ret, net_ping_ip, net_try_count, net_restarted>>
devVars == <<net_restart_wrap, eth_current, first_failed, dev_state>>
timerVars == <<time_handler, time_age>>
arpVars == <<arp_wait_packet_ip, arp_wait_reply_ip, arp_wait_try, arp_age>>
packetVars == <<tx_packet, tx_size>>
historyVars == <<answered, arp_sent, echo_sent>>
vars == <<pc, callVars, net_state, devVars, timerVars, arpVars, packetVars,
          wire, lag, reached, historyVars>>

Devs == 0 .. NDev - 1
NoDev == -1
Ips == Hosts \cup {NoIp}
States == {"CONTINUE", "RESTART", "SUCCESS", "FAIL"}
Body == {"arp", "rx", "timer", "dispatch"}
EINVAL == -22
ENODEV == -19
ETIMEDOUT == -110
EchoSize == 42          \* ETHER_HDR_SIZE + IP_ICMP_HDR_SIZE

Frame(type, ip, mac) == [type |-> type, ip |-> ip, mac |-> mac]
Kinds == {"ArpRequest", "ArpReply", "EchoRequest", "EchoReply", "None"}
Frames == [type : Kinds, ip : Ips, mac : Macs \cup {NoMac}]
NoFrame == Frame("None", NoIp, NoMac)

-----------------------------------------------------------------------------
(* Sending.  What the driver sends leaves only through an active device.   *)

Active == dev_state[eth_current] = "ACTIVE"

NetSendPacket(frame) == wire' = IF Active THEN frame ELSE NoFrame

\* arp_request: whom to ask for the address of the waiting packet.
NextHop(ip) ==
  IF ip \notin OnLink /\ Gateway # NoIp THEN Gateway ELSE ip

ArpRequest(ip) ==
  /\ arp_wait_reply_ip' = NextHop(ip)
  /\ NetSendPacket(Frame("ArpRequest", NextHop(ip), NoMac))

-----------------------------------------------------------------------------
(* The device ring, as far as net_loop uses it.                            *)

NextDev(d) == (d + 1) % NDev

\* eth_try_another, as the device, first_failed and net_restart_wrap it leaves.
TryAnother(firstRestart, cur, failed, wrap) ==
  LET failed2 == IF firstRestart THEN cur ELSE failed
      cur2    == NextDev(cur)
  IN  IF Rotate
        THEN [cur |-> cur2, failed |-> failed2, wrap |-> wrap \/ failed2 = cur2]
        ELSE [cur |-> cur, failed |-> failed, wrap |-> wrap]

\* eth_init: k devices refuse to start, in ring order, before one does.  When
\* all refuse (or the ring may not rotate) the scan is back where it began.
Scan == IF Rotate THEN NDev ELSE 1

ScanAtUnlinked(cur, j) == cur + j    \* mutant: the list is not a ring

ScanAt(cur, j) == IF Rotate THEN (cur + j) % NDev ELSE cur

EthInit(k, cur, failed, wrap, state) ==
  [cur   |-> ScanAt(cur, k),
   wrap  |-> wrap \/ (Rotate /\ \E j \in 1 .. k : ScanAt(cur, j) = failed),
   state |-> IF k < Scan THEN [state EXCEPT ![ScanAt(cur, k)] = "ACTIVE"]
                         ELSE state,
   code  |-> IF k < Scan THEN 0 ELSE ETIMEDOUT]

Halted == [dev_state EXCEPT ![eth_current] = "PASSIVE"]

EthHalt ==
  /\ dev_state' = Halted
  /\ UNCHANGED <<net_restart_wrap, eth_current, first_failed>>

-----------------------------------------------------------------------------
(* do_ping and the prologue of net_loop.                                   *)

Init ==
  /\ pc = "idle" /\ ret = EINVAL
  /\ net_ping_ip = NoIp /\ net_state = "CONTINUE"
  /\ net_try_count = 1 /\ net_restarted = FALSE /\ net_restart_wrap = FALSE
  /\ eth_current = 0 /\ first_failed = NoDev
  /\ dev_state = [d \in Devs |-> "INIT"]
  /\ time_handler = "none" /\ time_age = 0
  /\ arp_wait_packet_ip = NoIp /\ arp_wait_reply_ip = NoIp
  /\ arp_wait_try = 0 /\ arp_age = 0
  /\ tx_packet = NoFrame /\ tx_size = 0
  /\ wire = NoFrame /\ lag = 0 /\ reached = {}
  /\ answered = FALSE /\ arp_sent = 0 /\ echo_sent = FALSE

DoPing(ip) ==
  /\ pc = "idle"
  /\ pc' = "open"
  /\ net_ping_ip' = ip
  /\ ret' = EINVAL
  /\ net_restarted' = FALSE
  /\ net_try_count' = 1
  /\ wire' = NoFrame /\ lag' = 0
  /\ answered' = FALSE
  /\ UNCHANGED <<net_state, devVars, timerVars, arpVars, packetVars, reached,
                 arp_sent, echo_sent>>

\* net_init, eth_halt, eth_set_current (which selects eth_current again: the
\* variable ethact holds its name), eth_init.  On an error the caller halts the
\* device, which is halted already, and returns.
OpenDevice ==
  /\ pc = "open"
  /\ \E k \in 0 .. Scan :
       LET init == EthInit(k, eth_current, first_failed, net_restart_wrap, Halted)
       IN  /\ eth_current' = init.cur
           /\ net_restart_wrap' = init.wrap
           /\ dev_state' = init.state
           /\ ret' = init.code
           /\ pc' = IF init.code = 0 THEN "start" ELSE "idle"
  /\ wire' = NoFrame /\ lag' = 0
  /\ UNCHANGED <<first_failed, net_ping_ip, net_try_count, net_restarted,
                 net_state, timerVars, arpVars, packetVars, reached, historyVars>>

PrereqFails == net_ping_ip = NoIp \/ NetIp = NoIp

Refuse ==
  /\ pc = "start" /\ PrereqFails
  /\ net_state' = "CONTINUE"
  /\ EthHalt
  /\ ret' = ENODEV
  /\ pc' = "idle"
  /\ wire' = NoFrame /\ lag' = 0
  /\ UNCHANGED <<net_ping_ip, net_try_count, net_restarted, timerVars, arpVars,
                 packetVars, reached, historyVars>>

\* ping_start with ping_send: set the timer, build the echo request with no
\* Ethernet destination, and ask for the destination first.
PingStart ==
  /\ pc = "start" /\ ~ PrereqFails
  /\ net_state' = "CONTINUE"
  /\ time_handler' = "ping" /\ time_age' = 0
  /\ arp_wait_packet_ip' = net_ping_ip
  /\ tx_packet' = Frame("EchoRequest", net_ping_ip, NoMac)
  /\ tx_size' = EchoSize
  /\ arp_wait_try' = 1 /\ arp_age' = 0
  /\ ArpRequest(net_ping_ip)
  /\ pc' = "arp" /\ lag' = 0
  /\ arp_sent' = 1 /\ echo_sent' = FALSE
  /\ UNCHANGED <<callVars, devVars, reached, answered>>

-----------------------------------------------------------------------------
(* Stage "arp": arp_timeout_check, and the reset of time_start it causes.  *)

ArpPending == arp_wait_packet_ip # NoIp

ArpExpired == arp_age > ArpTimeout

TimerRuns == UNCHANGED time_age    \* mutant: time_start is left alone

RestartTimer == time_age' = 0

ArpStage ==
  /\ pc = "arp" /\ pc' = "rx" /\ lag' = 0
  /\ UNCHANGED <<callVars, devVars, time_handler, arp_wait_packet_ip,
                 packetVars, reached, answered, echo_sent>>

ArpQuiet ==
  /\ ArpStage /\ ~ ArpPending
  /\ wire' = NoFrame
  /\ UNCHANGED <<net_state, time_age, arp_wait_reply_ip, arp_wait_try,
                 arp_age, arp_sent>>

ArpWaits ==
  /\ ArpStage /\ ArpPending /\ ~ ArpExpired
  /\ RestartTimer
  /\ wire' = NoFrame
  /\ UNCHANGED <<net_state, arp_wait_reply_ip, arp_wait_try, arp_age,
                 arp_sent>>

LastTryLate == arp_wait_try > ArpTimeoutCount    \* mutant: compared, then counted

LastTry == arp_wait_try + 1 >= ArpTimeoutCount

ArpRetry ==
  /\ ArpStage /\ ArpPending /\ ArpExpired /\ ~ LastTry
  /\ arp_wait_try' = arp_wait_try + 1
  /\ arp_age' = 0
  /\ ArpRequest(arp_wait_packet_ip)
  /\ arp_sent' = arp_sent + 1
  /\ RestartTimer
  /\ UNCHANGED net_state

\* The request stays pending: only a reply or ctrl-c clears it.
ArpGiveUp ==
  /\ ArpStage /\ ArpPending /\ ArpExpired /\ LastTry
  /\ arp_wait_try' = 0
  /\ net_state' = "FAIL"
  /\ RestartTimer
  /\ wire' = NoFrame
  /\ UNCHANGED <<arp_wait_reply_ip, arp_age, arp_sent>>

-----------------------------------------------------------------------------
(* Stage "rx": eth_rx gives at most one frame to                           *)
(* net_process_received_packet, which dispatches it.                       *)

\* The frames that can be waiting in the device: peers answer truthfully for
\* their own address, may ask at any time, and answer an echo request only
\* after one has reached them, however long ago and as often as they like.
Arriving ==
  {Frame(t, h, m) : t \in {"ArpReply", "ArpRequest", "EchoRequest"},
                    h \in Hosts, m \in Macs}
  \cup {Frame("EchoReply", h, NoMac) : h \in reached}

Truthful(f) ==
  CASE f.type = "EchoReply"   -> TRUE
    [] f.type = "EchoRequest" -> f.mac \in MacsOf[NextHop(f.ip)]
    [] OTHER                  -> f.mac \in MacsOf[f.ip]

RxStage ==
  /\ pc = "rx" /\ pc' = "timer" /\ lag' = 0
  /\ UNCHANGED <<callVars, devVars, timerVars, arp_wait_reply_ip, arp_wait_try,
                 arp_age, arp_sent>>

Received(f) == Active /\ f \in Arriving /\ Truthful(f)

\* No frame, or one that no handler acts on (not for us, UDP, an ARP reply
\* nobody waits for, an echo reply from another host).
RxNothing ==
  /\ RxStage
  /\ wire' = NoFrame
  /\ UNCHANGED <<net_state, arp_wait_packet_ip, packetVars, reached, answered,
                 echo_sent>>

AwaitedAny(f) == ArpPending    \* mutant: any ARP reply will do

Awaited(f) == ArpPending /\ f.ip = arp_wait_reply_ip

ArpKept == UNCHANGED arp_wait_packet_ip    \* mutant: no end of the request

ArpDone == arp_wait_packet_ip' = NoIp

\* arp_receive, ARPOP_REPLY: the waiting packet gets its destination and goes.
RxArpReply(f) ==
  /\ RxStage /\ Received(f) /\ f.type = "ArpReply" /\ Awaited(f)
  /\ tx_packet' = [tx_packet EXCEPT !.mac = f.mac]
  /\ wire' = [tx_packet EXCEPT !.mac = f.mac]
  /\ tx_size' = 0
  /\ ArpDone
  /\ reached' = reached \cup {tx_packet.ip}
  /\ echo_sent' = TRUE
  /\ UNCHANGED <<net_state, answered>>

\* arp_receive, ARPOP_REQUEST, and ping_receive, ICMP_ECHO_REQUEST: the frame
\* is turned around and sent back.
RxRequest(f) ==
  /\ RxStage /\ Received(f) /\ f.type \in {"ArpRequest", "EchoRequest"}
  /\ NetSendPacket(IF f.type = "ArpRequest" THEN Frame("ArpReply", f.ip, f.mac)
                                            ELSE Frame("EchoReply", f.ip, f.mac))
  /\ UNCHANGED <<net_state, arp_wait_packet_ip, packetVars, reached, answered,
                 echo_sent>>

FromAnyone(f) == TRUE    \* mutant: the source address is not compared

FromPinged(f) == f.ip = net_ping_ip

\* ping_receive, ICMP_ECHO_REPLY: only the source address is compared.
RxEchoReply(f) ==
  /\ RxStage /\ Received(f) /\ f.type = "EchoReply" /\ FromPinged(f)
  /\ net_state' = "SUCCESS"
  /\ answered' = (answered \/ f.ip = net_ping_ip)
  /\ wire' = NoFrame
  /\ UNCHANGED <<arp_wait_packet_ip, packetVars, reached, echo_sent>>

-----------------------------------------------------------------------------
(* Stage "timer": the timeout handler.                                     *)

TimerExpired == time_handler # "none" /\ time_age > PingTimeout

TimerStage ==
  /\ pc = "timer" /\ pc' = "dispatch" /\ lag' = 0
  /\ wire' = NoFrame
  /\ UNCHANGED <<callVars, time_age, arpVars, packetVars, reached, historyVars>>

TimerQuiet ==
  /\ TimerStage /\ ~ TimerExpired
  /\ UNCHANGED <<time_handler, net_state, devVars>>

TimeoutForgotten == "CONTINUE"    \* mutant: net_set_state is missing

TimeoutState == "FAIL"

\* ping_timeout_handler; the only other handler, start_again_timeout_handler,
\* is cleared by the net_cleanup_loop that follows its installation (Retry).
TimerFires ==
  /\ TimerStage /\ TimerExpired
  /\ time_handler' = "none"
  /\ EthHalt
  /\ net_state' = TimeoutState

-----------------------------------------------------------------------------
(* Stage "dispatch": net_start_again, and the switch on net_state.         *)

Dispatch ==
  /\ pc = "dispatch" /\ lag' = 0 /\ wire' = NoFrame
  /\ UNCHANGED <<net_ping_ip, arpVars, packetVars, reached, historyVars>>

Continue ==
  /\ Dispatch /\ net_state = "CONTINUE"
  /\ pc' = "arp"
  /\ UNCHANGED <<ret, net_try_count, net_restarted, net_state, devVars, timerVars>>

HandlersKept == UNCHANGED time_handler    \* mutant: no net_cleanup_loop

NetCleanupLoop == time_handler' = "none"

\* net_boot_file_size is 0 for a ping, and so is ret.
Succeed ==
  /\ Dispatch /\ net_state = "SUCCESS"
  /\ NetCleanupLoop
  /\ EthHalt
  /\ ret' = 0
  /\ pc' = "idle"
  /\ UNCHANGED <<net_try_count, net_restarted, net_state, time_age>>

NoMoreTriesLate == ~ RetryForever /\ net_try_count > RetryCount + 1    \* mutant

NoMoreTries == ~ RetryForever /\ net_try_count > RetryCount

GiveUpRet == ETIMEDOUT

GiveUp ==
  /\ Dispatch /\ net_state = "FAIL" /\ NoMoreTries
  /\ EthHalt
  /\ ret' = GiveUpRet
  /\ NetCleanupLoop
  /\ pc' = "idle"
  /\ UNCHANGED <<net_try_count, net_restarted, net_state, time_age>>

\* net_start_again tries the next device.  When the ring has wrapped round it
\* installs a restart handler for later but leaves net_state at FAIL, so that
\* the switch clears the handler and returns what eth_init returned.
Retry ==
  /\ Dispatch /\ net_state = "FAIL" /\ ~ NoMoreTries
  /\ net_try_count' = net_try_count + 1
  /\ net_restart_wrap' = FALSE
  /\ \E k \in 0 .. Scan :
       LET next == TryAnother(~ net_restarted, eth_current, first_failed,
                              net_restart_wrap)
           init == EthInit(k, next.cur, next.failed, next.wrap, Halted)
       IN  /\ first_failed' = next.failed
           /\ eth_current' = init.cur
           /\ dev_state' = init.state
           /\ ret' = init.code
           /\ \/ /\ init.wrap
                 /\ pc' = "idle"
                 /\ NetCleanupLoop /\ time_age' = 0
                 /\ UNCHANGED <<net_state, net_restarted>>
              \/ /\ ~ init.wrap
                 /\ net_state' = "RESTART" /\ net_restarted' = TRUE
                 /\ pc' = "start"
                 /\ UNCHANGED timerVars

-----------------------------------------------------------------------------
(* Time, and the specification.                                            *)

Older(age, limit) == IF age > limit THEN age ELSE age + 1

\* The length of one stage is bounded; how long the machine stays in the
\* prologue or idle matters to no timestamp.
Tick ==
  /\ pc \in Body /\ lag < MaxLag
  /\ lag' = lag + 1
  /\ time_age' = IF time_handler = "none" THEN time_age
                                         ELSE Older(time_age, PingTimeout)
  /\ arp_age' = IF ArpPending THEN Older(arp_age, ArpTimeout) ELSE arp_age
  /\ wire' = NoFrame
  /\ UNCHANGED <<pc, callVars, net_state, devVars, time_handler,
                 arp_wait_packet_ip, arp_wait_reply_ip, arp_wait_try,
                 packetVars, reached, historyVars>>

Receive == \E f \in Arriving : RxArpReply(f) \/ RxRequest(f) \/ RxEchoReply(f)

Cpu ==
  \/ OpenDevice \/ Refuse \/ PingStart
  \/ ArpQuiet \/ ArpWaits \/ ArpRetry \/ ArpGiveUp
  \/ RxNothing \/ Receive
  \/ TimerQuiet \/ TimerFires
  \/ Continue \/ Succeed \/ GiveUp \/ Retry

Next == (\E ip \in Ips : DoPing(ip)) \/ Cpu \/ Tick

Spec == Init /\ [][Next]_vars

\* The processor polls without end and the clock advances; nothing is assumed
\* of the caller, of the network or of any peer.
FairSpec == Spec /\ WF_vars(Cpu) /\ WF_vars(Tick)

-----------------------------------------------------------------------------
(* Properties.                                                             *)

CallType ==
  /\ pc \in {"idle", "open", "start"} \cup Body
  /\ ret \in {EINVAL, ENODEV, ETIMEDOUT, 0}
  /\ net_ping_ip \in Ips
  /\ net_state \in States
  /\ net_try_count \in Nat \ {0}
  /\ net_restarted \in BOOLEAN
  /\ lag \in 0 .. MaxLag
  /\ reached \subseteq Ips
  /\ answered \in BOOLEAN /\ arp_sent \in Nat /\ echo_sent \in BOOLEAN

DeviceType ==
  /\ net_restart_wrap \in BOOLEAN
  /\ eth_current \in Devs /\ first_failed \in Devs \cup {NoDev}
  /\ dev_state \in [Devs -> {"INIT", "PASSIVE", "ACTIVE"}]

ProtocolType ==
  /\ time_handler \in {"none", "ping"} /\ time_age \in 0 .. PingTimeout + 1
  /\ arp_wait_packet_ip \in Ips /\ arp_wait_reply_ip \in Ips
  /\ arp_wait_try \in Nat /\ arp_age \in 0 .. ArpTimeout + 1
  /\ tx_packet \in Frames /\ tx_size \in {0, EchoSize}
  /\ wire \in Frames

\* Every variable keeps to its range; the device index stays in the ring and
\* the ages of the two timers within what their tests tell apart.
TypeOK == CallType /\ DeviceType /\ ProtocolType

\* A call that went through one attempt and returns success (main.c prints
\* "is alive") has, during that call, accepted an echo reply of the address it
\* pinged, and an echo request had been put on the wire for that address.
AliveMeansReply ==
  pc = "idle" /\ ret >= 0 /\ net_try_count = 1
    => answered /\ net_ping_ip \in reached

\* When net_loop returns, no timeout handler is left for the next call to trip
\* over, and after a single attempt every device is down: whichever of the
\* error, refusal, success and failure paths was taken.
ReturnsQuiet ==
  pc = "idle" =>
    /\ time_handler = "none"
    /\ net_try_count = 1 => \A d \in Devs : dev_state[d] # "ACTIVE"

\* An attempt broadcasts no more than ARP_TIMEOUT_COUNT requests (one when the
\* count is 0), answers that come late, a request left pending by an earlier
\* attempt and retried attempts notwithstanding.
ArpBudget == arp_sent <= 1 \/ arp_sent <= ArpTimeoutCount

\* "# of timeouts before giving up" (net/arp.c:26): an attempt that gives up on
\* ARP has seen ARP_TIMEOUT_COUNT requests time out (each request is sent when the
\* one before has).  It has seen one fewer: ping_send starts arp_wait_try at 1, and
\* arp_timeout_check adds one before it compares with >=.
TimeoutsBeforeGivingUp ==
  [][pc = "arp" /\ net_state' = "FAIL" => arp_sent >= ArpTimeoutCount]_vars

\* An echo request that leaves this machine is for the address being pinged and
\* carries an Ethernet address of the next hop to it: the host itself on the
\* subnet, the gateway otherwise.  A packet built for an earlier call, or an
\* answer to a question asked for it, never mixes with the current one.
EchoToNextHop ==
  wire.type = "EchoRequest" =>
    wire.ip = net_ping_ip /\ wire.mac \in MacsOf[NextHop(net_ping_ip)]

\* A repeated or late ARP reply does not send the waiting packet again: one
\* attempt sends one echo request.
OneEchoPerAttempt ==
  [][wire'.type = "EchoRequest" /\ wire' # wire => ~ echo_sent]_vars

\* The ping timeout runs from the answer to the ARP request, not from the start
\* of the ping: it never expires while an ARP request is pending, and so never
\* before the echo request has gone out.
TimerWaitsForArp ==
  [][time_handler = "ping" /\ time_handler' = "none" /\ net_state' = "FAIL"
       /\ pc = "timer"
     => ~ ArpPending /\ echo_sent]_vars

\* net_start_again never makes more attempts than netretry allows.
RetryBudget == RetryForever \/ net_try_count <= RetryCount + 1

\* A finite netretry makes every call return, whatever the peers do: lost
\* replies are covered by the ARP tries and then by the ping timeout, and
\* traffic that keeps arriving does not postpone either of them.
CallReturns == pc # "idle" ~> pc = "idle"

\* The inductive invariant behind the safety properties above.  Inside the loop,
\* success comes with an answer of a host that was reached; a pending ARP request
\* belongs to the waiting packet, and that packet to the current ping; and the
\* ping timer has run for at most the two stages since its latest restart.
SuccessIsAnswered == pc \in Body /\ net_state = "SUCCESS" => answered
AnsweredIsReached == answered => net_ping_ip \in reached
WaitingPacket ==
  pc \in Body /\ ArpPending =>
    /\ arp_wait_packet_ip = net_ping_ip
    /\ arp_wait_reply_ip = NextHop(net_ping_ip)
    /\ tx_packet.type = "EchoRequest" /\ tx_packet.ip = net_ping_ip
    /\ ~ echo_sent
SentOrPending == pc \in Body => ArpPending \/ echo_sent
TimerBound ==
  ArpPending =>
    /\ pc = "rx" => time_age <= lag
    /\ pc = "timer" => time_age <= MaxLag + lag

IInv ==
  /\ TypeOK
  /\ SuccessIsAnswered /\ AnsweredIsReached
  /\ WaitingPacket /\ SentOrPending /\ TimerBound
  /\ AliveMeansReply /\ EchoToNextHop

\* do_ping as its caller sees it.
asked == net_ping_ip
report ==
  CASE pc # "idle"                  -> "pending"
    [] pc = "idle" /\ ret = EINVAL -> "none"
    [] pc = "idle" /\ ret = 0      -> "alive"
    [] OTHER                        -> "dead"

Service == INSTANCE PingService WITH
  Target <- Ips, Unasked <- NoIp, heard <- answered

\* Without retries, net_loop(PING) implements PingService: one report per ping,
\* "alive" only with an answer of the host in question.
Implements == Service!Spec
=============================================================================
