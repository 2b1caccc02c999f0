-------------------------------- MODULE Geth --------------------------------
(***************************************************************************)
(* The device driver net/emac/sunxi_geth.c: geth_init, geth_halt, geth_xmit *)
(* and geth_recv, as built (RESET_DMA_EN, NOT_SUPPORT_NOCACHED_ALLOC), with *)
(* the two DMA engines they drive and the data cache between them.          *)
(*                                                                         *)
(* Each direction has one descriptor.  Its bit own says who may use it; the *)
(* processor takes it away from the engine by seeing own = 0 and gives it   *)
(* back by writing own = 1 and enabling the engine.  Both live in cacheable *)
(* memory the engines do not snoop (module DCache).                         *)
(*                                                                         *)
(* pc is where the driver is; the DMA engines, the network, the cache and   *)
(* the clock act between any two of its steps.                              *)
(***************************************************************************)
EXTENDS Integers, Sequences, DCache

CONSTANTS
  Volatile,     \* lines the cache may replace or fetch on its own
  SlowDma,      \* TRUE: a frame may take the engine more than 5000 ms
  FifoSize,     \* frames the receive FIFO holds
  MaxFrames,    \* bound: frames that arrive
  MaxOpens      \* bound: calls of geth_init

ASSUME GethAssumption ==
  /\ SlowDma \in BOOLEAN
  /\ FifoSize \in Nat /\ MaxFrames \in Nat /\ MaxOpens \in Nat

VARIABLES
  pc,
  ram,          \* the lines below, as memory and the processor have them
  int_sta,      \* GETH_INT_STA: "tx" (bit 0), "rx" (bit 8), "ua" (bit 9)
  tx_en,        \* bit 30 of GETH_TX_CTL1: the transmit DMA runs
  rx_en,        \* bit 30 of GETH_RX_CTL1: the receive DMA runs
  mac_en,       \* bit 31 of GETH_TX_CTL0 and GETH_RX_CTL0
  tx_frame,     \* the frame the transmit DMA has fetched and is sending
  rx_frame,     \* the frame the receive DMA is storing
  fifo,         \* received frames the receive DMA has not taken yet
  xmit_stat,    \* local of geth_xmit
  reg_val,      \* local of geth_xmit: the value read from GETH_INT_STA
  packet,       \* argument of geth_xmit
  back,         \* where geth_xmit returns to
  late,         \* 5000 ms have passed since geth_xmit began to wait
  arrived,      \* number of frames that arrived
  opens,        \* number of calls of geth_init
  opened_at,    \* history: arrived, at the latest geth_init
  handed,       \* history: number of the latest frame given to the stack
  queued        \* history: the latest packet has not been sent

regVars == <<int_sta, tx_en, rx_en, mac_en>>
dmaVars == <<tx_frame, rx_frame, fifo>>
xmitVars == <<xmit_stat, reg_val, packet, back, late>>
envVars == <<arrived, opens, opened_at>>
historyVars == <<handed, queued>>
vars == <<pc, ram, regVars, dmaVars, xmitVars, envVars, historyVars>>

Descriptors == {"dma_desc_tx", "dma_desc_rx"}
Buffers == {"rx_packet", "rx_handle_buf", "tx_packet"}
Lines == Descriptors \cup Buffers

ASSUME VolatileAssumption == Volatile \subseteq Lines

\* A frame is known by its kind and number: "rx" a received frame without
\* error, "bad" one the hardware flags, "req" a request built in tx_packet (the
\* buffers of net.c and arp.c), "reply" an answer built over a received frame,
\* "junk" whatever else a buffer holds.
Kinds == {"none", "junk", "rx", "bad", "req", "reply"}
NoFrame == <<"none", 0>>
Junk == <<"junk", 0>>
Frames == Kinds \X (0 .. MaxFrames + MaxOpens)

\* The status bits of a receive descriptor rx_status looks at.
Flags == {"last_desc", "frm_type", "chsum_err", "ipch_err", "err_sum",
          "len_err", "mii_err"}
Descriptor(own, flags, buf) == [own |-> own, flags |-> flags, buf |-> buf]
ZeroDesc == Descriptor(FALSE, {}, "none")
Descs == [own : BOOLEAN, flags : SUBSET Flags, buf : Buffers \cup {"none"}]

RxBits == {"rx", "ua"}      \* of int_sta: 0x2300
TxBits == {"tx"}            \* of int_sta: 0x3F

Init ==
  /\ pc = "closed"
  /\ ram = Coherent([l \in Lines |-> IF l \in Descriptors THEN ZeroDesc ELSE Junk])
  /\ int_sta = {} /\ tx_en = FALSE /\ rx_en = FALSE /\ mac_en = FALSE
  /\ tx_frame = NoFrame /\ rx_frame = NoFrame /\ fifo = << >>
  /\ xmit_stat = "stopped" /\ reg_val = {} /\ packet = "tx_packet"
  /\ back = "idle" /\ late = FALSE
  /\ arrived = 0 /\ opens = 0 /\ opened_at = 0 /\ handed = 0 /\ queued = FALSE

-----------------------------------------------------------------------------
(* geth_init and geth_halt.                                                *)

\* The software reset of GETH_BASIC_CTL1 clears the registers and the engines.
Reset ==
  /\ int_sta' = {} /\ tx_en' = FALSE /\ rx_en' = FALSE
  /\ tx_frame' = NoFrame /\ rx_frame' = NoFrame /\ fifo' = << >>

ClearDescriptor(r, l) == Clean(Store(r, l, ZeroDesc), l)

Open ==
  /\ pc = "closed" /\ opens < MaxOpens
  /\ Reset
  /\ mac_en' = TRUE
  /\ ram' = ClearDescriptor(ClearDescriptor(ram, "dma_desc_tx"), "dma_desc_rx")
  /\ pc' = "idle"
  /\ opens' = opens + 1 /\ opened_at' = arrived
  /\ queued' = FALSE
  /\ UNCHANGED <<xmitVars, arrived, handed>>

\* The engines are left enabled: only the MAC behind them is stopped.
Halt ==
  /\ pc = "idle"
  /\ mac_en' = FALSE
  /\ pc' = "closed"
  /\ UNCHANGED <<ram, int_sta, tx_en, rx_en, dmaVars, xmitVars, envVars, historyVars>>

-----------------------------------------------------------------------------
(* geth_xmit.                                                              *)

TxDesc == ram.mem["dma_desc_tx"]

TxDmaSta ==
  CASE ~tx_en                             -> "stopped"
    [] tx_en /\ (TxDesc.own \/ tx_frame # NoFrame) -> "running"
    [] OTHER                              -> "suspended"

\* The caller has written frame into buf; geth_xmit samples the DMA's status.
Xmit(buf, frame, return) ==
  /\ ram' = Store(ram, buf, frame)
  /\ packet' = buf /\ back' = return
  /\ xmit_stat' = TxDmaSta
  /\ late' = FALSE
  /\ pc' = "wait"
  /\ UNCHANGED <<reg_val, regVars, dmaVars, envVars, historyVars>>

Request == <<"req", opens>>

\* A request of the stack: from net_loop, or when an ARP reply releases it.
Send ==
  \/ pc = "idle" /\ Xmit("tx_packet", Request, "idle")
  \/ pc = "process" /\ Xmit("tx_packet", Request, "fill")

\* An answer built in the buffer of the frame it answers (arp_receive,
\* ping_receive).
Reply ==
  pc = "process" /\ Xmit("rx_handle_buf", <<"reply", handed>>, "fill")

\* The wait for the previous packet: own is read through the cache, and
\* xmit_stat is not read again.
\* The previous packet is not waited for.
NothingPending(own) == FALSE

PreviousPending(own) ==
  own \/ xmit_stat \notin {"stopped", "suspended"}

\* dma_tx_enable(dev, false) and the read of GETH_INT_STA.
StopTx ==
  /\ tx_en' = FALSE
  /\ reg_val' = int_sta
  /\ pc' = "ack"

XmitWait ==
  /\ pc = "wait"
  /\ ram' = Load(ram, "dma_desc_tx")
  /\ ~PreviousPending(ram.cpu["dma_desc_tx"].own)
  /\ StopTx
  /\ UNCHANGED <<int_sta, rx_en, mac_en, dmaVars, xmit_stat, packet, back, late,
                 envVars, historyVars>>

XmitTimeout ==
  /\ pc = "wait" /\ late
  /\ ram' = Load(ram, "dma_desc_tx")
  /\ PreviousPending(ram.cpu["dma_desc_tx"].own)
  /\ StopTx
  /\ UNCHANGED <<int_sta, rx_en, mac_en, dmaVars, xmit_stat, packet, back, late,
                 envVars, historyVars>>

\* The write-back of GETH_INT_STA, a register whose bits a 1 clears: the bits
\* read as set are cleared along with the transmit bits.
Acknowledged == TxBits \cup reg_val

XmitAck ==
  /\ pc = "ack"
  /\ int_sta' = int_sta \ Acknowledged
  /\ pc' = "configure"
  /\ UNCHANGED <<ram, tx_en, rx_en, mac_en, dmaVars, xmitVars, envVars, historyVars>>

\* Mutants: one of the two flush_cache calls of geth_xmit is missing.
DescriptorNotFlushed(r) == r
PacketNotFlushed(r) == r

FlushTxDescriptor(r) == Clean(r, "dma_desc_tx")
FlushPacket(r) == Clean(r, packet)

XmitConfigure ==
  /\ pc = "configure"
  /\ ram' = FlushPacket(FlushTxDescriptor(
              Store(ram, "dma_desc_tx", Descriptor(TRUE, {}, packet))))
  /\ pc' = "start"
  /\ UNCHANGED <<regVars, dmaVars, xmitVars, envVars, historyVars>>

\* The FIFO is flushed, which ends a frame being sent, and the DMA restarted.
XmitStart ==
  /\ pc = "start"
  /\ tx_frame' = NoFrame
  /\ tx_en' = TRUE
  /\ pc' = back
  /\ queued' = TRUE
  /\ UNCHANGED <<ram, int_sta, rx_en, mac_en, rx_frame, fifo, xmitVars, envVars,
                 handed>>

-----------------------------------------------------------------------------
(* geth_recv.                                                              *)

\* Mutant: geth_recv does not look at own.
OwnIgnored(r) == FALSE

RxOwn(r) == r.cpu["dma_desc_rx"].own

InvalidateRxDescriptor(r) == Invalidate(r, "dma_desc_rx")
\* The buffer is copied out of the cache.
RxPacketCached(r) == r

InvalidateRxPacket(r) == Invalidate(r, "rx_packet")

RecvCheck ==
  /\ pc = "idle"
  /\ LET r == InvalidateRxDescriptor(ram)
     IN  /\ ram' = Load(r, "dma_desc_rx")
         /\ pc' = IF RxOwn(r) THEN "idle" ELSE "copy"
  /\ UNCHANGED <<regVars, dmaVars, xmitVars, envVars, historyVars>>

RecvCopy ==
  /\ pc = "copy"
  /\ LET r == InvalidateRxPacket(ram)
     IN  ram' = Store(Load(r, "rx_packet"), "rx_handle_buf", r.cpu["rx_packet"])
  /\ pc' = "check"
  /\ UNCHANGED <<regVars, dmaVars, xmitVars, envVars, historyVars>>

\* Mutant: nothing received, so geth_recv returns instead of going to fill.
RecvReturns ==
  /\ pc = "check" /\ int_sta \cap RxBits = {}
  /\ pc' = "idle"
  /\ UNCHANGED <<ram, regVars, dmaVars, xmitVars, envVars, historyVars>>

RecvNone ==
  /\ pc = "check" /\ int_sta \cap RxBits = {}
  /\ pc' = "fill"
  /\ UNCHANGED <<ram, regVars, dmaVars, xmitVars, envVars, historyVars>>

RecvSome ==
  /\ pc = "check" /\ int_sta \cap RxBits # {}
  /\ rx_en' = FALSE
  /\ pc' = "status"
  /\ UNCHANGED <<ram, int_sta, tx_en, mac_en, dmaVars, xmitVars, envVars, historyVars>>

\* rx_status: TRUE for good_frame.
RxStatus(flags) ==
  /\ "last_desc" \in flags
  /\ ~("frm_type" \in flags /\ {"chsum_err", "ipch_err"} \cap flags # {})
  /\ {"err_sum", "len_err", "mii_err"} \cap flags = {}

\* The copy goes up the stack, which may answer before it returns.
RecvGood ==
  /\ pc = "status" /\ RxStatus(ram.cpu["dma_desc_rx"].flags)
  /\ int_sta' = int_sta \ RxBits
  /\ ram' = Clean(Load(ram, "dma_desc_rx"), "rx_packet")
  /\ handed' = ram.cpu["rx_handle_buf"][2]
  /\ pc' = "process"
  /\ UNCHANGED <<tx_en, rx_en, mac_en, dmaVars, xmitVars, envVars, queued>>

RecvDiscard ==
  /\ pc = "status" /\ ~RxStatus(ram.cpu["dma_desc_rx"].flags)
  /\ int_sta' = int_sta \ RxBits
  /\ ram' = Clean(Store(Load(ram, "dma_desc_rx"), "rx_packet", Junk), "rx_packet")
  /\ pc' = "fill"
  /\ UNCHANGED <<tx_en, rx_en, mac_en, dmaVars, xmitVars, envVars, historyVars>>

Processed ==
  /\ pc = "process"
  /\ pc' = "fill"
  /\ UNCHANGED <<ram, regVars, dmaVars, xmitVars, envVars, historyVars>>

\* The DMA is to receive into the buffer the stack works on.
RecvFillHandled ==
  /\ pc = "fill"
  /\ ram' = Clean(Store(ram, "dma_desc_rx", Descriptor(TRUE, {}, "rx_handle_buf")),
                  "dma_desc_rx")
  /\ pc' = "enable"
  /\ UNCHANGED <<regVars, dmaVars, xmitVars, envVars, historyVars>>

RecvFill ==
  /\ pc = "fill"
  /\ ram' = Clean(Store(ram, "dma_desc_rx", Descriptor(TRUE, {}, "rx_packet")),
                  "dma_desc_rx")
  /\ pc' = "enable"
  /\ UNCHANGED <<regVars, dmaVars, xmitVars, envVars, historyVars>>

RecvEnable ==
  /\ pc = "enable"
  /\ rx_en' = TRUE
  /\ pc' = "idle"
  /\ UNCHANGED <<ram, int_sta, tx_en, mac_en, dmaVars, xmitVars, envVars, historyVars>>

-----------------------------------------------------------------------------
(* The DMA engines, the network, the cache and the clock.                  *)

RxDesc == ram.mem["dma_desc_rx"]

DmaRxStore ==
  /\ rx_en /\ rx_frame = NoFrame /\ RxDesc.own /\ fifo # << >>
  /\ rx_frame' = Head(fifo) /\ fifo' = Tail(fifo)
  /\ ram' = DeviceWrite(ram, RxDesc.buf, Head(fifo))
  /\ UNCHANGED <<pc, regVars, tx_frame, xmitVars, envVars, historyVars>>

RxFlags(frame) ==
  IF frame[1] = "rx" THEN {{"last_desc", "frm_type"}, {"last_desc", "chsum_err"}}
  ELSE {{"frm_type"}, {"last_desc", "frm_type", "chsum_err"}, {"last_desc", "err_sum"},
        {"last_desc", "len_err"}, {"last_desc", "mii_err"}}

DmaRxDone ==
  /\ rx_frame # NoFrame
  /\ \E flags \in RxFlags(rx_frame) :
       ram' = DeviceWrite(ram, "dma_desc_rx", Descriptor(FALSE, flags, RxDesc.buf))
  /\ rx_frame' = NoFrame
  /\ int_sta' = int_sta \cup {"rx"}
  /\ UNCHANGED <<pc, tx_en, rx_en, mac_en, tx_frame, fifo, xmitVars, envVars, historyVars>>

\* The next descriptor is not the engine's.
DmaRxUnavailable ==
  /\ rx_en /\ rx_frame = NoFrame /\ ~RxDesc.own
  /\ int_sta' = int_sta \cup {"ua"}
  /\ UNCHANGED <<pc, ram, tx_en, rx_en, mac_en, dmaVars, xmitVars, envVars, historyVars>>

DmaTxFetch ==
  /\ tx_en /\ tx_frame = NoFrame /\ TxDesc.own
  /\ tx_frame' = ram.mem[TxDesc.buf]
  /\ UNCHANGED <<pc, ram, regVars, rx_frame, fifo, xmitVars, envVars, historyVars>>

DmaTxDone ==
  /\ mac_en /\ tx_frame # NoFrame
  /\ tx_frame' = NoFrame
  /\ queued' = FALSE
  /\ ram' = DeviceWrite(ram, "dma_desc_tx", [TxDesc EXCEPT !.own = FALSE])
  /\ int_sta' = int_sta \cup {"tx"}
  /\ UNCHANGED <<pc, tx_en, rx_en, mac_en, rx_frame, fifo, xmitVars, envVars, handed>>

Arrive ==
  /\ mac_en /\ arrived < MaxFrames
  /\ arrived' = arrived + 1
  /\ \E kind \in {"rx", "bad"} :
       fifo' = IF Len(fifo) < FifoSize THEN Append(fifo, <<kind, arrived'>>) ELSE fifo
  /\ UNCHANGED <<pc, ram, regVars, tx_frame, rx_frame, xmitVars, opens, opened_at,
                 historyVars>>

CacheActs ==
  /\ \E l \in Volatile :
       ram' = IF l \in ram.cached THEN Evict(ram, l) ELSE Load(ram, l)
  /\ UNCHANGED <<pc, regVars, dmaVars, xmitVars, envVars, historyVars>>

\* Something the transmit DMA has been given and has not finished.
Sending == tx_en /\ (TxDesc.own \/ tx_frame # NoFrame)

Clock ==
  /\ pc = "wait" /\ ~late
  /\ Sending => SlowDma
  /\ late' = TRUE
  /\ UNCHANGED <<pc, ram, regVars, dmaVars, xmit_stat, reg_val, packet, back,
                 envVars, historyVars>>

-----------------------------------------------------------------------------
XmitStep == XmitWait \/ XmitTimeout \/ XmitAck \/ XmitConfigure \/ XmitStart
RecvStep ==
  \/ RecvCopy \/ RecvNone \/ RecvSome \/ RecvGood \/ RecvDiscard
  \/ Reply \/ Processed \/ RecvFill \/ RecvEnable

DmaRx == DmaRxStore \/ DmaRxDone
DmaTx == DmaTxFetch \/ DmaTxDone

Next ==
  \/ Open \/ Halt \/ Send \/ RecvCheck \/ XmitStep \/ RecvStep
  \/ DmaRx \/ DmaRxUnavailable \/ DmaTx
  \/ Arrive \/ CacheActs \/ Clock

Spec == Init /\ [][Next]_vars

\* The driver's code runs to its end, the engines do what they were given, the
\* clock runs; net_loop calls geth_recv in every pass, whatever it sends.
Fairness ==
  /\ WF_vars(XmitStep \/ RecvStep) /\ SF_vars(RecvCheck)
  /\ WF_vars(DmaRx) /\ WF_vars(DmaTx) /\ WF_vars(Clock)

FairSpec == Spec /\ Fairness

-----------------------------------------------------------------------------
(* Properties.                                                             *)

\* The buffers a descriptor may name; one the DMA owns names one.
DescsOver(bufs) ==
  {d \in Descs : d.buf \in bufs \cup {"none"} /\ (d.own => d.buf # "none")}

Values(l) ==
  CASE l = "dma_desc_rx" -> DescsOver({"rx_packet"})
    [] l = "dma_desc_tx" -> DescsOver({"tx_packet", "rx_handle_buf"})
    [] OTHER             -> Frames

\* The type of the state: the DMA receives into rx_packet only, and the cache
\* relates to memory as DCache says.
TypeOK ==
  /\ pc \in {"closed", "idle", "wait", "ack", "configure", "start", "copy",
             "check", "status", "process", "fill", "enable"}
  /\ \A l \in Lines : ram.mem[l] \in Values(l) /\ ram.cpu[l] \in Values(l)
  /\ ram.dirty \subseteq ram.cached /\ ram.cached \subseteq Lines
  /\ \A l \in Lines \ ram.dirty : l \in ram.cached \/ ram.cpu[l] = ram.mem[l]
  /\ int_sta \subseteq RxBits \cup TxBits /\ reg_val \subseteq RxBits \cup TxBits
  /\ tx_en \in BOOLEAN /\ rx_en \in BOOLEAN /\ mac_en \in BOOLEAN
  /\ tx_frame \in Frames /\ rx_frame \in Frames /\ fifo \in Seq(Frames)
  /\ xmit_stat \in {"stopped", "running", "suspended"}
  /\ packet \in {"tx_packet", "rx_handle_buf"} /\ back \in {"idle", "fill"}
  /\ late \in BOOLEAN
  /\ arrived \in 0 .. MaxFrames /\ opens \in 0 .. MaxOpens
  /\ opened_at \in 0 .. arrived
  /\ handed \in 0 .. MaxFrames + MaxOpens /\ queued \in BOOLEAN

Handling == {"copy", "check", "status", "process", "fill"}

\* From the moment geth_recv sees own = 0 to the moment it writes own = 1, an
\* answer sent in between included, the receive DMA owns nothing and writes
\* nothing, and no store of the processor waits in the cache to land in the
\* descriptor or the buffer later.
OneOwner ==
  /\ pc \in Handling => ~RxDesc.own /\ rx_frame = NoFrame
  /\ pc = "idle" => {"dma_desc_rx", "rx_packet"} \cap ram.dirty = {}

\* What geth_recv gives the stack is a frame without error that arrived since
\* geth_init, and a later one than any given before: no frame is given twice or
\* out of order, and neither the empty descriptor of geth_init nor a stale line
\* of the cache passes for one.
NewFramesOnly ==
  [][pc = "status" /\ pc' = "process" =>
       /\ ram.cpu["rx_handle_buf"][1] = "rx"
       /\ handed' > handed /\ handed' > opened_at]_vars

\* What the DMA fetches from the transmit buffer of the stack is the packet
\* given to geth_xmit in this session, not what memory held before.
SendsWhatWasGiven ==
  [][tx_frame' # tx_frame /\ tx_frame' # NoFrame /\ TxDesc.buf = "tx_packet" =>
       tx_frame' = Request]_vars

\* geth_xmit writes the descriptor only after the DMA has given it back and
\* has nothing under way (of an engine that needs less than 5000 ms).
OnePacketAtATime == pc = "configure" => ~TxDesc.own /\ tx_frame = NoFrame

\* A packet given to geth_xmit is sent, unless the device is halted first.
PacketSent == queued ~> (~queued \/ ~mac_en)

\* The receive DMA is always given its descriptor back: frames do not stay in
\* the FIFO of a device that is polled.
FramesTaken == (fifo # << >>) ~> (fifo = << >> \/ ~mac_en)

\* "clear the tx interrupt" (net/emac/sunxi_geth.c:361): a transmission does
\* not make geth_recv overlook a frame the DMA has completed.  It does: the bits
\* written back to GETH_INT_STA include the receive bits read as set.
ReceivedFrameSeen ==
  [][RecvNone => ~(RxStatus(RxDesc.flags))]_vars

\* "Wait the Prev packet compled and timeout flush it"
\* (net/emac/sunxi_geth.c:352): the wait runs into its 5000 ms only while the
\* previous packet is not completed.  It does so after every packet that has
\* been: the processor keeps reading its own cached own = 1, and xmit_stat is
\* read once, before the wait.
WaitsForDmaOnly == [][XmitTimeout => Sending]_vars
=============================================================================
