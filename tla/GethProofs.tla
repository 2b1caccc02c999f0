----------------------------- MODULE GethProofs -----------------------------
(***************************************************************************)
(* Theorems about the driver of Geth for every cache behaviour, speed of the *)
(* engines, size of the FIFO and number of frames and sessions.             *)
(***************************************************************************)
EXTENDS Geth, TLAPS

-----------------------------------------------------------------------------
(* The cache.                                                              *)

Any == Descs \cup Frames

\* Lines hold what they may hold, dirty ones are cached, uncached ones are as in memory.
Ram(r) ==
  /\ r \in [mem : [Lines -> Any], cpu : [Lines -> Any],
            cached : SUBSET Lines, dirty : SUBSET Lines]
  /\ \A l \in Lines : r.mem[l] \in Values(l) /\ r.cpu[l] \in Values(l)
  /\ r.dirty \subseteq r.cached
  /\ \A l \in Lines \ r.cached : r.cpu[l] = r.mem[l]

LEMMA ValuesOf ==
  /\ Values("dma_desc_rx") = DescsOver({"rx_packet"})
  /\ Values("dma_desc_tx") = DescsOver({"tx_packet", "rx_handle_buf"})
  /\ \A b \in Buffers : Values(b) = Frames
  /\ \A l \in Lines : Values(l) \subseteq Any
BY DEF Values, Buffers, Descriptors, Lines, DescsOver, Any

LEMMA LoadRam ==
  ASSUME NEW r, Ram(r), NEW l \in Lines
  PROVE  /\ Ram(Load(r, l))
         /\ Load(r, l).mem = r.mem /\ Load(r, l).cpu = r.cpu /\ Load(r, l).dirty = r.dirty
BY DEF Ram, Load

LEMMA StoreRam ==
  ASSUME NEW r, Ram(r), NEW l \in Lines, NEW v \in Values(l)
  PROVE  /\ Ram(Store(r, l, v))
         /\ Store(r, l, v).mem = r.mem
         /\ Store(r, l, v).cpu[l] = v
         /\ \A k \in Lines \ {l} : Store(r, l, v).cpu[k] = r.cpu[k]
         /\ Store(r, l, v).dirty = r.dirty \cup {l}
<1>1. v \in Any
  BY ValuesOf
<1> QED
  BY <1>1 DEF Ram, Store

LEMMA CleanRam ==
  ASSUME NEW r, Ram(r), NEW l \in Lines
  PROVE  /\ Ram(Clean(r, l))
         /\ Clean(r, l).cpu = r.cpu
         /\ Clean(r, l).mem[l] = IF l \in r.dirty THEN r.cpu[l] ELSE r.mem[l]
         /\ \A k \in Lines \ {l} : Clean(r, l).mem[k] = r.mem[k]
         /\ Clean(r, l).dirty = r.dirty \ {l}
BY DEF Ram, Clean, WrittenBack

LEMMA InvalidateRam ==
  ASSUME NEW r, Ram(r), NEW l \in Lines
  PROVE  /\ Ram(Invalidate(r, l))
         /\ Invalidate(r, l).mem = r.mem
         /\ Invalidate(r, l).cpu[l] = r.mem[l]
         /\ \A k \in Lines \ {l} : Invalidate(r, l).cpu[k] = r.cpu[k]
         /\ Invalidate(r, l).dirty = r.dirty \ {l}
BY DEF Ram, Invalidate

LEMMA DeviceWriteRam ==
  ASSUME NEW r, Ram(r), NEW l \in Lines, NEW v \in Values(l)
  PROVE  /\ Ram(DeviceWrite(r, l, v))
         /\ DeviceWrite(r, l, v).mem[l] = v
         /\ DeviceWrite(r, l, v).cpu[l] \in {r.cpu[l], v}
         /\ \A k \in Lines \ {l} : /\ DeviceWrite(r, l, v).mem[k] = r.mem[k]
                                   /\ DeviceWrite(r, l, v).cpu[k] = r.cpu[k]
         /\ DeviceWrite(r, l, v).dirty = r.dirty
<1>1. v \in Any
  BY ValuesOf
<1> QED
  BY <1>1 DEF Ram, DeviceWrite

\* A store that is flushed at once.
LEMMA WriteRam ==
  ASSUME NEW r, Ram(r), NEW l \in Lines, NEW v \in Values(l)
  PROVE  /\ Ram(Clean(Store(r, l, v), l))
         /\ Clean(Store(r, l, v), l).mem[l] = v /\ Clean(Store(r, l, v), l).cpu[l] = v
         /\ \A k \in Lines \ {l} : /\ Clean(Store(r, l, v), l).mem[k] = r.mem[k]
                                   /\ Clean(Store(r, l, v), l).cpu[k] = r.cpu[k]
         /\ Clean(Store(r, l, v), l).dirty = r.dirty \ {l}
<1> DEFINE s == Store(r, l, v)
<1>1. /\ Ram(s) /\ s.mem = r.mem /\ s.cpu[l] = v
      /\ \A k \in Lines \ {l} : s.cpu[k] = r.cpu[k]
      /\ s.dirty = r.dirty \cup {l}
  BY StoreRam
<1> HIDE DEF s
<1>2. /\ Ram(Clean(s, l)) /\ Clean(s, l).cpu = s.cpu
      /\ Clean(s, l).mem[l] = IF l \in s.dirty THEN s.cpu[l] ELSE s.mem[l]
      /\ \A k \in Lines \ {l} : Clean(s, l).mem[k] = s.mem[k]
      /\ Clean(s, l).dirty = s.dirty \ {l}
  BY <1>1, CleanRam
<1>3. /\ Ram(Clean(s, l)) /\ Clean(s, l).mem[l] = v /\ Clean(s, l).cpu[l] = v
      /\ \A k \in Lines \ {l} : Clean(s, l).mem[k] = r.mem[k] /\ Clean(s, l).cpu[k] = r.cpu[k]
      /\ Clean(s, l).dirty = r.dirty \ {l}
  BY <1>1, <1>2
<1> QED
  BY <1>3 DEF s

-----------------------------------------------------------------------------
(* What the actions do to the lines.  Only the two buffers the stack writes *)
(* are ever dirty between two steps, and no device writes those.            *)

Own == {"rx_handle_buf", "tx_packet"}

RamOK ==
  /\ Ram(ram) /\ ram.dirty \subseteq Own
  /\ \A b \in Own \ ram.dirty : ram.cpu[b] = ram.mem[b]

SameOn(S) == \A k \in S : ram'.mem[k] = ram.mem[k] /\ ram'.cpu[k] = ram.cpu[k]

LEMMA LineSets ==
  /\ "dma_desc_tx" \in Lines /\ "dma_desc_rx" \in Lines /\ "rx_packet" \in Lines
  /\ Own \subseteq Lines /\ Buffers = Own \cup {"rx_packet"}
  /\ Lines = Own \cup {"rx_packet", "dma_desc_tx", "dma_desc_rx"}
BY DEF Lines, Descriptors, Buffers, Own

LEMMA DescriptorValues ==
  /\ ZeroDesc \in Values("dma_desc_rx") /\ ZeroDesc \in Values("dma_desc_tx")
  /\ Descriptor(TRUE, {}, "rx_packet") \in Values("dma_desc_rx")
  /\ \A b \in Own : Descriptor(TRUE, {}, b) \in Values("dma_desc_tx")
BY ValuesOf DEF DescsOver, Descs, ZeroDesc, Descriptor, Buffers, Own

LEMMA OpenRam ==
  ASSUME RamOK, Open
  PROVE  /\ RamOK'
         /\ ram'.mem["dma_desc_tx"] = ZeroDesc /\ ram'.cpu["dma_desc_tx"] = ZeroDesc
         /\ ram'.mem["dma_desc_rx"] = ZeroDesc /\ ram'.cpu["dma_desc_rx"] = ZeroDesc
         /\ SameOn(Buffers) /\ ram'.dirty = ram.dirty
<1> DEFINE s == ClearDescriptor(ram, "dma_desc_tx")
<1>1. /\ Ram(s) /\ s.mem["dma_desc_tx"] = ZeroDesc /\ s.cpu["dma_desc_tx"] = ZeroDesc
      /\ \A k \in Lines \ {"dma_desc_tx"} : s.mem[k] = ram.mem[k] /\ s.cpu[k] = ram.cpu[k]
      /\ s.dirty = ram.dirty \ {"dma_desc_tx"}
  BY WriteRam, LineSets, DescriptorValues DEF RamOK, ClearDescriptor
<1>2. ram' = ClearDescriptor(s, "dma_desc_rx")
  BY DEF Open
<1> HIDE DEF s
<1>3. /\ Ram(ram') /\ ram'.mem["dma_desc_rx"] = ZeroDesc /\ ram'.cpu["dma_desc_rx"] = ZeroDesc
      /\ \A k \in Lines \ {"dma_desc_rx"} : ram'.mem[k] = s.mem[k] /\ ram'.cpu[k] = s.cpu[k]
      /\ ram'.dirty = s.dirty \ {"dma_desc_rx"}
  BY <1>1, <1>2, WriteRam, LineSets, DescriptorValues DEF ClearDescriptor
<1>4. ram'.dirty = ram.dirty
  BY <1>1, <1>3 DEF RamOK, Own
<1>5. SameOn(Buffers)
  BY <1>1, <1>3, LineSets DEF SameOn, Own
<1> QED
  BY <1>1, <1>3, <1>4, <1>5, LineSets DEF RamOK, SameOn

LEMMA XmitRam ==
  ASSUME RamOK, NEW b \in Own, NEW f \in Frames, ram' = Store(ram, b, f)
  PROVE  /\ RamOK' /\ ram'.mem = ram.mem /\ ram'.cpu[b] = f /\ SameOn(Lines \ {b})
         /\ ram'.dirty = ram.dirty \cup {b}
<1>1. b \in Lines /\ f \in Values(b)
  BY LineSets, ValuesOf
<1>2. /\ Ram(ram') /\ ram'.mem = ram.mem /\ ram'.cpu[b] = f
      /\ \A k \in Lines \ {b} : ram'.cpu[k] = ram.cpu[k]
      /\ ram'.dirty = ram.dirty \cup {b}
  BY <1>1, StoreRam DEF RamOK
<1> QED
  BY <1>2, LineSets DEF RamOK, SameOn

LEMMA LoadedRam ==
  ASSUME RamOK, NEW l \in Lines, ram' = Load(ram, l)
  PROVE  RamOK' /\ ram'.mem = ram.mem /\ ram'.cpu = ram.cpu /\ ram'.dirty = ram.dirty
<1>1. /\ Ram(ram') /\ ram'.mem = ram.mem /\ ram'.cpu = ram.cpu /\ ram'.dirty = ram.dirty
  BY LoadRam DEF RamOK
<1> QED
  BY <1>1 DEF RamOK

LEMMA ConfigureRam ==
  ASSUME RamOK, packet \in Own, XmitConfigure
  PROVE  /\ RamOK' /\ ram'.mem["dma_desc_tx"] = Descriptor(TRUE, {}, packet)
         /\ ram'.cpu["dma_desc_tx"] = Descriptor(TRUE, {}, packet)
         /\ ram'.mem[packet] = ram.cpu[packet] /\ ram'.cpu[packet] = ram.cpu[packet]
         /\ SameOn(Lines \ {packet, "dma_desc_tx"})
         /\ ram'.dirty = ram.dirty \ {packet}
<1> DEFINE d == Descriptor(TRUE, {}, packet)
           s == Clean(Store(ram, "dma_desc_tx", d), "dma_desc_tx")
<1>1. ram' = Clean(s, packet)
  BY DEF XmitConfigure, FlushPacket, FlushTxDescriptor
<1>0. d \in Values("dma_desc_tx")
  BY DescriptorValues
<1> HIDE DEF d
<1>2. /\ Ram(s) /\ s.mem["dma_desc_tx"] = d /\ s.cpu["dma_desc_tx"] = d
      /\ \A k \in Lines \ {"dma_desc_tx"} : s.mem[k] = ram.mem[k] /\ s.cpu[k] = ram.cpu[k]
      /\ s.dirty = ram.dirty \ {"dma_desc_tx"}
  BY <1>0, WriteRam, LineSets DEF RamOK
<1> HIDE DEF s
<1>3. /\ Ram(ram') /\ ram'.cpu = s.cpu
      /\ ram'.mem[packet] = IF packet \in s.dirty THEN s.cpu[packet] ELSE s.mem[packet]
      /\ \A k \in Lines \ {packet} : ram'.mem[k] = s.mem[k]
      /\ ram'.dirty = s.dirty \ {packet}
  BY <1>1, <1>2, CleanRam, LineSets
<1>4. packet # "dma_desc_tx" /\ packet \in Lines
  BY LineSets DEF Own
<1>5. s.dirty = ram.dirty /\ ram'.dirty = ram.dirty \ {packet}
  BY <1>2, <1>3 DEF RamOK, Own
<1>6. ram'.mem[packet] = ram.cpu[packet] /\ ram'.cpu[packet] = ram.cpu[packet]
  BY <1>2, <1>3, <1>4, <1>5 DEF RamOK
<1>7. /\ ram'.mem["dma_desc_tx"] = d /\ ram'.cpu["dma_desc_tx"] = d
      /\ SameOn(Lines \ {packet, "dma_desc_tx"})
  BY <1>2, <1>3, <1>4, LineSets DEF SameOn
<1>8. RamOK'
  BY <1>3, <1>5, <1>6, <1>7, LineSets DEF RamOK, SameOn, Own
<1> QED
  BY <1>5, <1>6, <1>7, <1>8 DEF d

LEMMA CheckRam ==
  ASSUME RamOK, RecvCheck
  PROVE  /\ RamOK' /\ ram'.mem = ram.mem /\ ram'.dirty = ram.dirty
         /\ ram'.cpu["dma_desc_rx"] = ram.mem["dma_desc_rx"]
         /\ SameOn(Lines \ {"dma_desc_rx"})
         /\ pc' = IF ram.mem["dma_desc_rx"].own THEN "idle" ELSE "copy"
<1> DEFINE s == Invalidate(ram, "dma_desc_rx")
<1>1. ram' = Load(s, "dma_desc_rx") /\ pc' = IF s.cpu["dma_desc_rx"].own THEN "idle" ELSE "copy"
  BY DEF RecvCheck, InvalidateRxDescriptor, RxOwn
<1>2. /\ Ram(s) /\ s.mem = ram.mem /\ s.cpu["dma_desc_rx"] = ram.mem["dma_desc_rx"]
      /\ \A k \in Lines \ {"dma_desc_rx"} : s.cpu[k] = ram.cpu[k]
      /\ s.dirty = ram.dirty \ {"dma_desc_rx"}
  BY InvalidateRam, LineSets DEF RamOK
<1> HIDE DEF s
<1>3. Ram(ram') /\ ram'.mem = s.mem /\ ram'.cpu = s.cpu /\ ram'.dirty = s.dirty
  BY <1>1, <1>2, LoadRam, LineSets
<1>4. ram'.dirty = ram.dirty
  BY <1>2, <1>3 DEF RamOK, Own
<1> QED
  BY <1>1, <1>2, <1>3, <1>4, LineSets DEF RamOK, SameOn, Own

LEMMA CopyRam ==
  ASSUME RamOK, RecvCopy
  PROVE  /\ RamOK' /\ ram'.mem = ram.mem /\ ram'.dirty = ram.dirty \cup {"rx_handle_buf"}
         /\ ram'.cpu["rx_handle_buf"] = ram.mem["rx_packet"]
         /\ SameOn(Lines \ {"rx_packet", "rx_handle_buf"})
<1> DEFINE s == Invalidate(ram, "rx_packet")
           t == Load(s, "rx_packet")
<1>1. ram' = Store(t, "rx_handle_buf", s.cpu["rx_packet"])
  BY DEF RecvCopy, InvalidateRxPacket
<1>2. /\ Ram(s) /\ s.mem = ram.mem /\ s.cpu["rx_packet"] = ram.mem["rx_packet"]
      /\ \A k \in Lines \ {"rx_packet"} : s.cpu[k] = ram.cpu[k]
      /\ s.dirty = ram.dirty \ {"rx_packet"}
  BY InvalidateRam, LineSets DEF RamOK
<1> HIDE DEF s
<1>3. Ram(t) /\ t.mem = s.mem /\ t.cpu = s.cpu /\ t.dirty = s.dirty
  BY <1>2, LoadRam, LineSets
<1> HIDE DEF t
<1>4. s.cpu["rx_packet"] \in Values("rx_handle_buf") /\ "rx_handle_buf" \in Lines
  BY <1>2, ValuesOf, LineSets DEF Ram, Own
<1>5. /\ Ram(ram') /\ ram'.mem = t.mem /\ ram'.cpu["rx_handle_buf"] = s.cpu["rx_packet"]
      /\ \A k \in Lines \ {"rx_handle_buf"} : ram'.cpu[k] = t.cpu[k]
      /\ ram'.dirty = t.dirty \cup {"rx_handle_buf"}
  BY <1>1, <1>3, <1>4, StoreRam
<1>6. ram'.dirty = ram.dirty \cup {"rx_handle_buf"}
  BY <1>2, <1>3, <1>5 DEF RamOK, Own
<1> QED
  BY <1>2, <1>3, <1>5, <1>6, LineSets DEF RamOK, SameOn, Own

LEMMA GoodRam ==
  ASSUME RamOK, RecvGood
  PROVE  /\ RamOK' /\ ram'.dirty = ram.dirty /\ ram'.cpu = ram.cpu
         /\ SameOn(Lines)
<1> DEFINE s == Load(ram, "dma_desc_rx")
<1>1. ram' = Clean(s, "rx_packet")
  BY DEF RecvGood
<1>2. Ram(s) /\ s.mem = ram.mem /\ s.cpu = ram.cpu /\ s.dirty = ram.dirty
  BY LoadRam, LineSets DEF RamOK
<1> HIDE DEF s
<1>3. /\ Ram(ram') /\ ram'.cpu = s.cpu
      /\ ram'.mem["rx_packet"] = IF "rx_packet" \in s.dirty THEN s.cpu["rx_packet"]
                                                            ELSE s.mem["rx_packet"]
      /\ \A k \in Lines \ {"rx_packet"} : ram'.mem[k] = s.mem[k]
      /\ ram'.dirty = s.dirty \ {"rx_packet"}
  BY <1>1, <1>2, CleanRam, LineSets
<1>4. "rx_packet" \notin ram.dirty
  BY DEF RamOK, Own
<1> QED
  BY <1>2, <1>3, <1>4, LineSets DEF RamOK, SameOn

LEMMA DiscardRam ==
  ASSUME RamOK, RecvDiscard
  PROVE  RamOK' /\ ram'.dirty = ram.dirty /\ SameOn(Lines \ {"rx_packet"})
<1> DEFINE s == Load(ram, "dma_desc_rx")
<1>1. ram' = Clean(Store(s, "rx_packet", Junk), "rx_packet")
  BY DEF RecvDiscard
<1>2. Ram(s) /\ s.mem = ram.mem /\ s.cpu = ram.cpu /\ s.dirty = ram.dirty
  BY LoadRam, LineSets DEF RamOK
<1> HIDE DEF s
<1>3. Junk \in Values("rx_packet")
  BY ValuesOf, GethAssumption DEF Junk, Frames, Kinds, Buffers
<1>4. /\ Ram(ram')
      /\ \A k \in Lines \ {"rx_packet"} : ram'.mem[k] = s.mem[k] /\ ram'.cpu[k] = s.cpu[k]
      /\ ram'.dirty = s.dirty \ {"rx_packet"}
  BY <1>1, <1>2, <1>3, WriteRam, LineSets
<1>5. "rx_packet" \notin ram.dirty
  BY DEF RamOK, Own
<1> QED
  BY <1>2, <1>4, <1>5, LineSets DEF RamOK, SameOn, Own

LEMMA FillRam ==
  ASSUME RamOK, RecvFill
  PROVE  /\ RamOK' /\ ram'.dirty = ram.dirty
         /\ ram'.mem["dma_desc_rx"] = Descriptor(TRUE, {}, "rx_packet")
         /\ SameOn(Lines \ {"dma_desc_rx"})
<1> DEFINE d == Descriptor(TRUE, {}, "rx_packet")
<1>1. ram' = Clean(Store(ram, "dma_desc_rx", d), "dma_desc_rx") /\ d \in Values("dma_desc_rx")
  BY DescriptorValues DEF RecvFill
<1> HIDE DEF d
<1>2. /\ Ram(ram') /\ ram'.mem["dma_desc_rx"] = d
      /\ \A k \in Lines \ {"dma_desc_rx"} : ram'.mem[k] = ram.mem[k] /\ ram'.cpu[k] = ram.cpu[k]
      /\ ram'.dirty = ram.dirty \ {"dma_desc_rx"}
  BY <1>1, WriteRam, LineSets DEF RamOK
<1>3. ram'.dirty = ram.dirty
  BY <1>2 DEF RamOK, Own
<1> QED
  BY <1>2, <1>3, LineSets DEF RamOK, SameOn, Own, d

\* A device writes a descriptor or rx_packet.
LEMMA DeviceRam ==
  ASSUME RamOK, NEW l \in Lines \ Own, NEW v \in Values(l), ram' = DeviceWrite(ram, l, v)
  PROVE  /\ RamOK' /\ ram'.dirty = ram.dirty /\ ram'.mem[l] = v
         /\ ram'.cpu[l] \in {ram.cpu[l], v} /\ SameOn(Lines \ {l})
<1>1. /\ Ram(ram') /\ ram'.mem[l] = v /\ ram'.cpu[l] \in {ram.cpu[l], v}
      /\ \A k \in Lines \ {l} : ram'.mem[k] = ram.mem[k] /\ ram'.cpu[k] = ram.cpu[k]
      /\ ram'.dirty = ram.dirty
  BY DeviceWriteRam DEF RamOK
<1> QED
  BY <1>1, LineSets DEF RamOK, SameOn

\* Nothing the cache does on its own is seen but by who reads a stale line.
LEMMA CacheRam ==
  ASSUME RamOK, CacheActs
  PROVE  /\ RamOK' /\ ram'.dirty \subseteq ram.dirty
         /\ \A l \in Lines \ Own : /\ ram'.mem[l] = ram.mem[l]
                                   /\ ram'.cpu[l] \in {ram.cpu[l], ram.mem[l]}
         /\ \A l \in Own : /\ ram'.cpu[l] = ram.cpu[l]
                           /\ IF l \in ram.dirty \ ram'.dirty THEN ram'.mem[l] = ram.cpu[l]
                                                              ELSE ram'.mem[l] = ram.mem[l]
<1>1. PICK l \in Volatile : ram' = IF l \in ram.cached THEN Evict(ram, l) ELSE Load(ram, l)
  BY DEF CacheActs
<1>0. l \in Lines
  BY VolatileAssumption
<1>2. CASE ram' = Load(ram, l)
  <2>1. RamOK' /\ ram'.mem = ram.mem /\ ram'.cpu = ram.cpu /\ ram'.dirty = ram.dirty
    BY <1>0, <1>2, LoadedRam
  <2> QED
    BY <2>1
<1>3. CASE ram' = Evict(ram, l)
  <2> DEFINE s == Clean(ram, l)
  <2>1. ram' = Invalidate(s, l)
    BY <1>3 DEF Evict
  <2>2. /\ Ram(s) /\ s.cpu = ram.cpu
        /\ s.mem[l] = IF l \in ram.dirty THEN ram.cpu[l] ELSE ram.mem[l]
        /\ \A k \in Lines \ {l} : s.mem[k] = ram.mem[k]
        /\ s.dirty = ram.dirty \ {l}
    BY <1>0, CleanRam DEF RamOK
  <2> HIDE DEF s
  <2>3. /\ Ram(ram') /\ ram'.mem = s.mem /\ ram'.cpu[l] = s.mem[l]
        /\ \A k \in Lines \ {l} : ram'.cpu[k] = s.cpu[k]
        /\ ram'.dirty = s.dirty \ {l}
    BY <1>0, <2>1, <2>2, InvalidateRam
  <2>4. ram'.dirty = ram.dirty \ {l} /\ (l \notin Own => l \notin ram.dirty)
    BY <2>2, <2>3 DEF RamOK
  <2>5. \A k \in Lines \ Own : ram'.mem[k] = ram.mem[k] /\ ram'.cpu[k] \in {ram.cpu[k], ram.mem[k]}
    BY <2>2, <2>3, <2>4
  <2>6. \A k \in Own : /\ ram'.cpu[k] = ram.cpu[k]
                       /\ IF k \in ram.dirty \ ram'.dirty THEN ram'.mem[k] = ram.cpu[k]
                                                          ELSE ram'.mem[k] = ram.mem[k]
    BY <2>2, <2>3, <2>4, LineSets DEF RamOK
  <2> QED
    BY <2>2, <2>3, <2>4, <2>5, <2>6 DEF RamOK
<1> QED
  BY <1>1, <1>2, <1>3

-----------------------------------------------------------------------------
(* Type correctness.                                                       *)

Scalars ==
  /\ pc \in {"closed", "idle", "wait", "ack", "configure", "start", "copy",
             "check", "status", "process", "fill", "enable"}
  /\ int_sta \subseteq RxBits \cup TxBits /\ reg_val \subseteq RxBits \cup TxBits
  /\ tx_en \in BOOLEAN /\ rx_en \in BOOLEAN /\ mac_en \in BOOLEAN
  /\ tx_frame \in Frames /\ rx_frame \in Frames /\ fifo \in Seq(Frames)
  /\ xmit_stat \in {"stopped", "running", "suspended"}
  /\ packet \in Own /\ back \in {"idle", "fill"}
  /\ late \in BOOLEAN
  /\ arrived \in 0 .. MaxFrames /\ opens \in 0 .. MaxOpens
  /\ opened_at \in 0 .. arrived
  /\ handed \in 0 .. MaxFrames + MaxOpens /\ queued \in BOOLEAN

Typed == RamOK /\ Scalars

LEMMA TypedIsType == Typed => TypeOK
<1> SUFFICES ASSUME Typed PROVE TypeOK
  OBVIOUS
<1>1. \A l \in Lines \ ram.dirty : l \in ram.cached \/ ram.cpu[l] = ram.mem[l]
  BY DEF Typed, RamOK, Ram
<1>2. /\ \A l \in Lines : ram.mem[l] \in Values(l) /\ ram.cpu[l] \in Values(l)
      /\ ram.dirty \subseteq ram.cached /\ ram.cached \subseteq Lines
  BY DEF Typed, RamOK, Ram
<1> QED
  BY <1>1, <1>2 DEF Typed, Scalars, TypeOK, Own

LEMMA FrameValues ==
  /\ NoFrame \in Frames /\ Junk \in Frames
  /\ \A n \in 0 .. MaxFrames + MaxOpens, k \in Kinds : <<k, n>> \in Frames
  /\ \A f \in Frames : f[2] \in 0 .. MaxFrames + MaxOpens
  /\ \A n \in 0 .. MaxFrames : n \in 0 .. MaxFrames + MaxOpens
  /\ \A n \in 0 .. MaxOpens : n \in 0 .. MaxFrames + MaxOpens
BY GethAssumption DEF NoFrame, Junk, Frames, Kinds

\* What the two descriptors and the buffers hold.
LEMMA LineTypes ==
  ASSUME RamOK
  PROVE  /\ RxDesc \in DescsOver({"rx_packet"})
         /\ TxDesc \in DescsOver({"tx_packet", "rx_handle_buf"})
         /\ RxDesc.own => RxDesc.buf = "rx_packet"
         /\ TxDesc.own => TxDesc.buf \in Own
         /\ \A b \in Buffers : ram.mem[b] \in Frames /\ ram.cpu[b] \in Frames
<1>1. /\ RxDesc \in Values("dma_desc_rx") /\ TxDesc \in Values("dma_desc_tx")
      /\ \A b \in Buffers : ram.mem[b] \in Values(b) /\ ram.cpu[b] \in Values(b)
  BY LineSets DEF RamOK, Ram, RxDesc, TxDesc
<1> QED
  BY <1>1, ValuesOf DEF DescsOver, Own

LEMMA TypedInit == Init => Typed
<1> SUFFICES ASSUME Init PROVE Typed
  OBVIOUS
<1> DEFINE m == [l \in Lines |-> IF l \in Descriptors THEN ZeroDesc ELSE Junk]
<1>1. m \in [Lines -> Any] /\ \A l \in Lines : m[l] \in Values(l)
  <2>1. \A l \in Lines : m[l] \in Values(l)
    BY DescriptorValues, FrameValues, ValuesOf DEF Lines, Descriptors
  <2> QED
    BY <2>1, ValuesOf
<1>2. ram = [mem |-> m, cpu |-> m, cached |-> {}, dirty |-> {}]
  BY DEF Init, Coherent
<1> HIDE DEF m
<1>3. RamOK
  BY <1>1, <1>2 DEF RamOK, Ram
<1>4. /\ << >> \in Seq(Frames) /\ 0 \in 0 .. MaxFrames + MaxOpens /\ 0 \in 0 .. MaxFrames
      /\ 0 \in 0 .. MaxOpens /\ 0 \in 0 .. 0
  BY GethAssumption
<1>5. /\ arrived \in 0 .. MaxFrames /\ opens \in 0 .. MaxOpens
      /\ opened_at \in 0 .. arrived /\ handed \in 0 .. MaxFrames + MaxOpens
      /\ fifo \in Seq(Frames) /\ tx_frame \in Frames /\ rx_frame \in Frames
  BY <1>4, FrameValues DEF Init
<1>6. /\ int_sta \subseteq RxBits \cup TxBits /\ reg_val \subseteq RxBits \cup TxBits
      /\ packet \in Own /\ xmit_stat \in {"stopped", "running", "suspended"}
      /\ tx_en \in BOOLEAN /\ rx_en \in BOOLEAN /\ mac_en \in BOOLEAN
      /\ late \in BOOLEAN /\ queued \in BOOLEAN /\ back \in {"idle", "fill"} /\ pc = "closed"
  BY DEF Init, Own
<1> QED
  BY <1>3, <1>5, <1>6 DEF Typed, Scalars

LEMMA TypedStep == Typed /\ [Next]_vars => Typed'
<1> SUFFICES ASSUME Typed, [Next]_vars PROVE Typed'
  OBVIOUS
<1> USE DEF Typed
<1>0. /\ MaxFrames \in Nat /\ MaxOpens \in Nat /\ arrived \in Nat /\ opens \in Nat
      /\ handed \in 0 .. MaxFrames + MaxOpens
  BY GethAssumption DEF Scalars
<1>r. Request \in Frames
  BY <1>0, FrameValues DEF Request, Scalars, Kinds
<1> USE DEF regVars, dmaVars, xmitVars, envVars, historyVars
<1>1. CASE Open
  <2>1. opens' \in 0 .. MaxOpens /\ opened_at' \in 0 .. arrived' /\ << >> \in Seq(Frames)
    BY <1>0, <1>1 DEF Open, Scalars
  <2> QED
    BY <1>1, <2>1, OpenRam, FrameValues DEF Open, Reset, Scalars
<1>2. CASE Halt
  BY <1>2 DEF Halt, Scalars, RamOK
<1>3. ASSUME NEW b \in Own, NEW f \in Frames, NEW r \in {"idle", "fill"}, Xmit(b, f, r)
      PROVE  Typed'
  <2>1. RamOK'
    BY <1>3, XmitRam DEF Xmit
  <2>2. TxDmaSta \in {"stopped", "running", "suspended"}
    BY DEF TxDmaSta, Scalars
  <2> QED
    BY <1>3, <2>1, <2>2 DEF Xmit, Scalars
<1>4. CASE Send \/ Reply
  <2>1. <<"reply", handed>> \in Frames
    BY <1>0, FrameValues DEF Kinds
  <2> QED
    BY <1>3, <1>4, <1>r, <2>1 DEF Send, Reply, Own
<1>5. CASE XmitWait \/ XmitTimeout
  <2>1. RamOK'
    BY <1>5, LoadedRam, LineSets DEF XmitWait, XmitTimeout
  <2> QED
    BY <1>5, <2>1 DEF XmitWait, XmitTimeout, StopTx, Scalars
<1>6. CASE XmitAck
  BY <1>6 DEF XmitAck, Scalars, RamOK
<1>7. CASE XmitConfigure
  BY <1>7, ConfigureRam DEF XmitConfigure, Scalars
<1>8. CASE XmitStart
  BY <1>8, FrameValues DEF XmitStart, Scalars, RamOK
<1>9. CASE RecvCheck
  BY <1>9, CheckRam DEF RecvCheck, Scalars
<1>10. CASE RecvCopy
  BY <1>10, CopyRam DEF RecvCopy, Scalars
<1>11. CASE RecvNone \/ RecvSome
  BY <1>11 DEF RecvNone, RecvSome, Scalars, RamOK
<1>12. CASE RecvGood
  <2>1. handed' \in 0 .. MaxFrames + MaxOpens
    BY <1>12, LineTypes, FrameValues, LineSets DEF RecvGood, Own
  <2> QED
    BY <1>12, <2>1, GoodRam DEF RecvGood, Scalars
<1>13. CASE RecvDiscard
  BY <1>13, DiscardRam DEF RecvDiscard, Scalars
<1>14. CASE Processed \/ RecvEnable
  BY <1>14 DEF Processed, RecvEnable, Scalars, RamOK
<1>15. CASE RecvFill
  BY <1>15, FillRam DEF RecvFill, Scalars
<1>16. CASE DmaRxStore
  <2>1. Head(fifo) \in Frames /\ Tail(fifo) \in Seq(Frames)
    BY <1>16 DEF DmaRxStore, Scalars
  <2>2. RxDesc.buf = "rx_packet"
    BY <1>16, LineTypes DEF DmaRxStore
  <2>3. RamOK'
    <3>1. Head(fifo) \in Values("rx_packet") /\ "rx_packet" \in Lines \ Own
      BY <2>1, ValuesOf, LineSets DEF Own
    <3>2. ram' = DeviceWrite(ram, "rx_packet", Head(fifo))
      BY <1>16, <2>2 DEF DmaRxStore
    <3> QED
      BY <3>1, <3>2, DeviceRam
  <2> QED
    BY <1>16, <2>1, <2>3 DEF DmaRxStore, Scalars
<1>17. CASE DmaRxDone
  <2>1. PICK flags \in RxFlags(rx_frame) :
          ram' = DeviceWrite(ram, "dma_desc_rx", Descriptor(FALSE, flags, RxDesc.buf))
    BY <1>17 DEF DmaRxDone
  <2>2. flags \in SUBSET Flags
    BY DEF RxFlags, Flags
  <2>3. Descriptor(FALSE, flags, RxDesc.buf) \in Values("dma_desc_rx")
    BY <2>2, LineTypes, ValuesOf DEF Descriptor, DescsOver, Descs
  <2>4. RamOK'
    BY <2>1, <2>3, DeviceRam, LineSets DEF Own
  <2> QED
    BY <1>17, <2>4, FrameValues DEF DmaRxDone, Scalars, RxBits
<1>18. CASE DmaRxUnavailable
  BY <1>18 DEF DmaRxUnavailable, Scalars, RamOK, RxBits
<1>19. CASE DmaTxFetch
  <2>1. ram.mem[TxDesc.buf] \in Frames
    BY <1>19, LineTypes, LineSets DEF DmaTxFetch
  <2> QED
    BY <1>19, <2>1 DEF DmaTxFetch, Scalars, RamOK
<1>20. CASE DmaTxDone
  <2>1. [TxDesc EXCEPT !.own = FALSE] \in Values("dma_desc_tx")
    <3>1. /\ TxDesc \in [own : BOOLEAN, flags : SUBSET Flags, buf : Buffers \cup {"none"}]
          /\ TxDesc.buf \in {"tx_packet", "rx_handle_buf"} \cup {"none"}
      BY LineTypes DEF DescsOver, Descs
    <3>2. /\ [TxDesc EXCEPT !.own = FALSE]
               \in [own : BOOLEAN, flags : SUBSET Flags, buf : Buffers \cup {"none"}]
          /\ [TxDesc EXCEPT !.own = FALSE].buf = TxDesc.buf
          /\ [TxDesc EXCEPT !.own = FALSE].own = FALSE
      BY <3>1
    <3> QED
      BY <3>1, <3>2, ValuesOf DEF DescsOver, Descs
  <2>2. RamOK'
    BY <1>20, <2>1, DeviceRam, LineSets DEF DmaTxDone, Own
  <2> QED
    BY <1>20, <2>2, FrameValues DEF DmaTxDone, Scalars, TxBits
<1>21. CASE Arrive
  <2>1. arrived' \in 0 .. MaxFrames /\ arrived' = arrived + 1 /\ opened_at' \in 0 .. arrived'
    BY <1>0, <1>21 DEF Arrive, Scalars
  <2>2. \A kind \in {"rx", "bad"} : <<kind, arrived'>> \in Frames
    BY <2>1, FrameValues DEF Kinds
  <2>3. fifo' \in Seq(Frames)
    <3>1. PICK kind \in {"rx", "bad"} :
            fifo' = IF Len(fifo) < FifoSize THEN Append(fifo, <<kind, arrived'>>) ELSE fifo
      BY <1>21 DEF Arrive
    <3>2. Append(fifo, <<kind, arrived'>>) \in Seq(Frames) /\ fifo \in Seq(Frames)
      BY <2>2 DEF Scalars
    <3> QED
      BY <3>1, <3>2
  <2> QED
    BY <1>21, <2>1, <2>3 DEF Arrive, Scalars, RamOK
<1>22. CASE CacheActs
  BY <1>22, CacheRam DEF CacheActs, Scalars
<1>23. CASE Clock
  BY <1>23 DEF Clock, Scalars, RamOK
<1>24. CASE UNCHANGED vars
  BY <1>24 DEF vars, Scalars, RamOK
<1> QED
  BY <1>1, <1>2, <1>4, <1>5, <1>6, <1>7, <1>8, <1>9, <1>10, <1>11, <1>12, <1>13, <1>14,
     <1>15, <1>16, <1>17, <1>18, <1>19, <1>20, <1>21, <1>22, <1>23, <1>24
     DEF Next, XmitStep, RecvStep, DmaRx, DmaTx

\* Every variable keeps to its range, the receive DMA is given rx_packet only, and the
\* cache relates to memory as DCache says.
THEOREM TypeCorrect == Spec => []TypeOK
<1> QED
  BY TypedInit, TypedStep, TypedIsType, PTL DEF Spec

-----------------------------------------------------------------------------
(* The inductive invariant.                                                *)

InXmit == pc \in {"wait", "ack", "configure", "start"}

\* geth_recv has the frame, up to and including an answer it sends.
Handled == pc \in Handling \/ (InXmit /\ back = "fill")

\* Who may use the receive descriptor, and that the processor reads it as it is.
RxOwner ==
  /\ rx_frame # NoFrame => RxDesc.own
  /\ Handled => /\ ~RxDesc.own /\ rx_frame = NoFrame
                /\ ram.cpu["dma_desc_rx"] = RxDesc

\* A packet of the stack is in the cache or in memory until the engine is told of it,
\* and in memory from then on.
TxGiven ==
  /\ "tx_packet" \in ram.dirty => /\ pc \in {"wait", "ack", "configure"}
                                  /\ packet = "tx_packet"
                                  /\ ram.cpu["tx_packet"] = Request
  /\ pc \in {"wait", "ack", "configure"} /\ packet = "tx_packet" =>
       "tx_packet" \in ram.dirty \/ ram.mem["tx_packet"] = Request
  /\ TxDesc.own /\ TxDesc.buf = "tx_packet" => ram.mem["tx_packet"] = Request

\* Number n is of this session, and every frame still in the FIFO came later.
Current(n) == opened_at < n /\ n <= arrived /\ \A i \in 1 .. Len(fifo) : n < fifo[i][2]

HandedOver == pc \in {"process", "fill"} \/ (InXmit /\ back = "fill")

\* Frames are in order on their way from the FIFO through rx_packet to the stack; a
\* descriptor that says good frame means a frame without error in rx_packet.
FrameOrder ==
  /\ handed <= arrived
  /\ \A i \in 1 .. Len(fifo) : /\ fifo[i][1] \in {"rx", "bad"} /\ handed < fifo[i][2]
                               /\ opened_at < fifo[i][2] /\ fifo[i][2] <= arrived
  /\ \A i \in 1 .. Len(fifo), j \in 1 .. Len(fifo) : i < j => fifo[i][2] < fifo[j][2]
  /\ rx_frame # NoFrame => /\ rx_frame[1] \in {"rx", "bad"} /\ ram.mem["rx_packet"] = rx_frame
                           /\ Current(rx_frame[2]) /\ handed < rx_frame[2]
  /\ RxStatus(RxDesc.flags) =>
       /\ ~RxDesc.own /\ rx_frame = NoFrame
       /\ ram.mem["rx_packet"][1] = "rx" /\ Current(ram.mem["rx_packet"][2])
       /\ HandedOver \/ handed < ram.mem["rx_packet"][2]
  /\ pc \in {"check", "status"} => ram.cpu["rx_handle_buf"] = ram.mem["rx_packet"]

\* The receive descriptor passes between the engine and geth_recv.
LEMMA RxOwnerStep == Typed /\ RxOwner /\ [Next]_vars => RxOwner'
<1> SUFFICES ASSUME Typed, RxOwner, [Next]_vars PROVE RxOwner'
  OBVIOUS
<1> USE DEF RxOwner, Handled, InXmit, Handling, RxDesc,
            regVars, dmaVars, xmitVars, envVars, historyVars
<1>0. RamOK /\ "dma_desc_rx" \in Lines /\ "dma_desc_rx" \notin Own
  BY LineSets DEF Typed, Own
<1>1. CASE Open
  BY <1>0, <1>1, OpenRam DEF Open, Reset
<1>2. CASE Halt
  BY <1>2 DEF Halt
<1>3. ASSUME NEW b \in Own, NEW f \in Frames, NEW r \in {"idle", "fill"}, Xmit(b, f, r),
             \/ pc = "idle" /\ r = "idle"
             \/ pc = "process" /\ r = "fill"
      PROVE  RxOwner'
  <2>1. ram'.mem = ram.mem /\ ram'.cpu["dma_desc_rx"] = ram.cpu["dma_desc_rx"]
    BY <1>0, <1>3, XmitRam DEF Xmit, SameOn
  <2> QED
    BY <1>3, <2>1 DEF Xmit
<1>4. CASE Send \/ Reply
  <2>1. <<"reply", handed>> \in Frames /\ Request \in Frames
    BY FrameValues DEF Request, Kinds, Typed, Scalars
  <2> QED
    BY <1>3, <1>4, <2>1 DEF Send, Reply, Own
<1>5. CASE XmitWait \/ XmitTimeout
  <2>1. ram'.mem = ram.mem /\ ram'.cpu = ram.cpu
    BY <1>0, <1>5, LoadedRam, LineSets DEF XmitWait, XmitTimeout
  <2> QED
    BY <1>5, <2>1 DEF XmitWait, XmitTimeout, StopTx
<1>6. CASE XmitAck
  BY <1>6 DEF XmitAck
<1>7. CASE XmitConfigure
  <2>1. /\ ram'.mem["dma_desc_rx"] = ram.mem["dma_desc_rx"]
        /\ ram'.cpu["dma_desc_rx"] = ram.cpu["dma_desc_rx"]
    BY <1>0, <1>7, ConfigureRam DEF SameOn, Typed, Scalars
  <2> QED
    BY <1>7, <2>1 DEF XmitConfigure
<1>8. CASE XmitStart
  BY <1>8 DEF XmitStart, Typed, Scalars
<1>9. CASE RecvCheck
  <2>1. /\ ram'.mem = ram.mem /\ ram'.cpu["dma_desc_rx"] = ram.mem["dma_desc_rx"]
        /\ pc' = IF ram.mem["dma_desc_rx"].own THEN "idle" ELSE "copy"
    BY <1>0, <1>9, CheckRam
  <2> QED
    BY <1>9, <2>1 DEF RecvCheck
<1>10. CASE RecvCopy
  BY <1>0, <1>10, CopyRam DEF RecvCopy, SameOn, Own
<1>11. CASE RecvNone \/ RecvSome
  BY <1>11 DEF RecvNone, RecvSome
<1>12. CASE RecvGood
  BY <1>0, <1>12, GoodRam DEF RecvGood, SameOn
<1>13. CASE RecvDiscard
  BY <1>0, <1>13, DiscardRam DEF RecvDiscard, SameOn
<1>14. CASE Processed \/ RecvEnable
  BY <1>14 DEF Processed, RecvEnable
<1>15. CASE RecvFill
  BY <1>0, <1>15, FillRam DEF RecvFill, Descriptor
<1>16. CASE DmaRxStore
  <2>1. Head(fifo) \in Frames
    BY <1>16 DEF DmaRxStore, Typed, Scalars
  <2>2. RxDesc.buf = "rx_packet"
    BY <1>0, <1>16, LineTypes DEF DmaRxStore
  <2>3. ram'.mem["dma_desc_rx"] = ram.mem["dma_desc_rx"]
    <3>1. Head(fifo) \in Values("rx_packet") /\ "rx_packet" \in Lines \ Own
      BY <2>1, ValuesOf, LineSets DEF Own
    <3>2. ram' = DeviceWrite(ram, "rx_packet", Head(fifo))
      BY <1>16, <2>2 DEF DmaRxStore
    <3>3. SameOn(Lines \ {"rx_packet"})
      BY <1>0, <3>1, <3>2, DeviceRam
    <3> QED
      BY <1>0, <3>3 DEF SameOn
  <2> QED
    BY <1>16, <2>3 DEF DmaRxStore
<1>17. CASE DmaRxDone
  BY <1>17 DEF DmaRxDone
<1>18. CASE DmaRxUnavailable \/ DmaTxFetch \/ Arrive \/ Clock
  BY <1>18 DEF DmaRxUnavailable, DmaTxFetch, Arrive, Clock
<1>19. CASE DmaTxDone
  <2>1. /\ ram'.mem["dma_desc_rx"] = ram.mem["dma_desc_rx"]
        /\ ram'.cpu["dma_desc_rx"] = ram.cpu["dma_desc_rx"]
    BY <1>19 DEF DmaTxDone, DeviceWrite, Typed, RamOK, Ram
  <2> QED
    BY <1>19, <2>1 DEF DmaTxDone
<1>20. CASE CacheActs
  <2>1. /\ ram'.mem["dma_desc_rx"] = ram.mem["dma_desc_rx"]
        /\ ram'.cpu["dma_desc_rx"] \in {ram.cpu["dma_desc_rx"], ram.mem["dma_desc_rx"]}
    BY <1>0, <1>20, CacheRam
  <2> QED
    BY <1>20, <2>1 DEF CacheActs
<1>21. CASE UNCHANGED vars
  BY <1>21 DEF vars
<1> QED
  BY <1>1, <1>2, <1>4, <1>5, <1>6, <1>7, <1>8, <1>9, <1>10, <1>11, <1>12, <1>13, <1>14,
     <1>15, <1>16, <1>17, <1>18, <1>19, <1>20, <1>21
     DEF Next, XmitStep, RecvStep, DmaRx, DmaTx

LEMMA RxOwnerInvariant == Spec => [](Typed /\ RxOwner)
<1>1. Init => RxOwner
  BY DEF Init, RxOwner, Handled, Handling, InXmit
<1> QED
  BY <1>1, TypedInit, TypedStep, RxOwnerStep, PTL DEF Spec

\* While geth_recv has the descriptor, an answer sent in between included, the engine
\* neither owns nor writes anything, and nothing of the processor's waits in the cache.
THEOREM OneOwnerCorrect == Spec => []OneOwner
<1>1. Typed /\ RxOwner => OneOwner
  BY DEF Typed, RxOwner, OneOwner, Handled, RamOK, Own
<1> QED
  BY <1>1, RxOwnerInvariant, PTL

-----------------------------------------------------------------------------
(* Sending.                                                                *)

\* What the engine does to receive concerns no line of the transmit side.
TxLines == {"tx_packet", "dma_desc_tx"}

LEMMA ReceivedRam ==
  ASSUME Typed, DmaRxStore
  PROVE  /\ SameOn(Lines \ {"rx_packet"}) /\ ram'.dirty = ram.dirty
         /\ ram'.mem["rx_packet"] = Head(fifo)
<1>1. Head(fifo) \in Frames /\ RxDesc.buf = "rx_packet" /\ RamOK
  BY LineTypes DEF DmaRxStore, Typed, Scalars
<1>2. Head(fifo) \in Values("rx_packet") /\ "rx_packet" \in Lines \ Own
  BY <1>1, ValuesOf, LineSets DEF Own
<1>3. ram' = DeviceWrite(ram, "rx_packet", Head(fifo))
  BY <1>1 DEF DmaRxStore
<1> QED
  BY <1>1, <1>2, <1>3, DeviceRam

LEMMA ReceivedDescriptor ==
  ASSUME Typed, NEW flags \in RxFlags(rx_frame),
         ram' = DeviceWrite(ram, "dma_desc_rx", Descriptor(FALSE, flags, RxDesc.buf))
  PROVE  /\ SameOn(Lines \ {"dma_desc_rx"}) /\ ram'.dirty = ram.dirty
         /\ ram'.mem["dma_desc_rx"] = Descriptor(FALSE, flags, RxDesc.buf)
<1>1. flags \in SUBSET Flags
  BY DEF RxFlags, Flags
<1>2. Descriptor(FALSE, flags, RxDesc.buf) \in Values("dma_desc_rx")
  BY <1>1, LineTypes, ValuesOf DEF Descriptor, DescsOver, Descs, Typed
<1>3. RamOK /\ "dma_desc_rx" \in Lines \ Own
  BY LineSets DEF Typed, Own
<1> QED
  BY <1>2, <1>3, DeviceRam

LEMMA SentDescriptor ==
  ASSUME Typed, DmaTxDone
  PROVE  /\ SameOn(Lines \ {"dma_desc_tx"}) /\ ram'.dirty = ram.dirty
         /\ ~ ram'.mem["dma_desc_tx"].own
         /\ ram'.cpu["dma_desc_tx"] \in {ram.cpu["dma_desc_tx"], ram'.mem["dma_desc_tx"]}
<1> DEFINE d == [TxDesc EXCEPT !.own = FALSE]
<1>1. /\ TxDesc \in [own : BOOLEAN, flags : SUBSET Flags, buf : Buffers \cup {"none"}]
      /\ TxDesc.buf \in {"tx_packet", "rx_handle_buf"} \cup {"none"}
  BY LineTypes DEF DescsOver, Descs, Typed
<1>2. /\ d \in [own : BOOLEAN, flags : SUBSET Flags, buf : Buffers \cup {"none"}]
      /\ d.buf = TxDesc.buf /\ d.own = FALSE
  BY <1>1
<1>3. ram' = DeviceWrite(ram, "dma_desc_tx", d)
  BY DEF DmaTxDone
<1> HIDE DEF d
<1>4. d \in Values("dma_desc_tx")
  BY <1>1, <1>2, ValuesOf DEF DescsOver, Descs
<1>5. RamOK /\ "dma_desc_tx" \in Lines \ Own
  BY LineSets DEF Typed, Own
<1>6. /\ ram'.dirty = ram.dirty /\ ram'.mem["dma_desc_tx"] = d
      /\ ram'.cpu["dma_desc_tx"] \in {ram.cpu["dma_desc_tx"], d}
      /\ SameOn(Lines \ {"dma_desc_tx"})
  BY <1>3, <1>4, <1>5, DeviceRam
<1> QED
  BY <1>2, <1>6

LEMMA TxGivenStep == Typed /\ TxGiven /\ [Next]_vars => TxGiven'
<1> SUFFICES ASSUME Typed, TxGiven, [Next]_vars PROVE TxGiven'
  OBVIOUS
<1> USE DEF TxGiven, TxDesc, Request, regVars, dmaVars, xmitVars, envVars, historyVars
<1>0. /\ RamOK /\ TxLines \subseteq Lines /\ "tx_packet" \in Own
      /\ "dma_desc_tx" \in Lines \ Own
  BY LineSets DEF Typed, Own, TxLines
<1>s. ASSUME SameOn(TxLines)
      PROVE  \A k \in TxLines : ram'.mem[k] = ram.mem[k] /\ ram'.cpu[k] = ram.cpu[k]
  BY <1>s DEF SameOn
<1> USE DEF TxLines
<1>1. CASE Open
  <2>1. ram'.dirty = ram.dirty /\ ~ ram'.mem["dma_desc_tx"].own
    BY <1>0, <1>1, OpenRam DEF ZeroDesc, Descriptor
  <2> QED
    BY <1>1, <2>1 DEF Open
<1>2. CASE Halt
  BY <1>2 DEF Halt
<1>3. CASE Send
  <2>1. ram' = Store(ram, "tx_packet", Request) /\ packet' = "tx_packet" /\ pc' = "wait"
        /\ opens' = opens
    BY <1>3 DEF Send, Xmit
  <2>2. Request \in Frames
    BY FrameValues DEF Kinds, Typed, Scalars
  <2>3. /\ ram'.mem = ram.mem /\ ram'.cpu["tx_packet"] = Request
        /\ ram'.dirty = ram.dirty \cup {"tx_packet"}
    BY <1>0, <2>1, <2>2, XmitRam
  <2> QED
    BY <2>1, <2>3
<1>4. CASE Reply
  <2>1. ram' = Store(ram, "rx_handle_buf", <<"reply", handed>>) /\ packet' = "rx_handle_buf"
        /\ pc = "process" /\ opens' = opens
    BY <1>4 DEF Reply, Xmit
  <2>2. <<"reply", handed>> \in Frames /\ "rx_handle_buf" \in Own
    BY FrameValues DEF Kinds, Typed, Scalars, Own
  <2>3. ram'.mem = ram.mem /\ ram'.dirty = ram.dirty \cup {"rx_handle_buf"}
    BY <1>0, <2>1, <2>2, XmitRam
  <2> QED
    BY <2>1, <2>3
<1>5. CASE XmitWait \/ XmitTimeout
  <2>1. ram'.mem = ram.mem /\ ram'.cpu = ram.cpu /\ ram'.dirty = ram.dirty
    BY <1>0, <1>5, LoadedRam DEF XmitWait, XmitTimeout
  <2> QED
    BY <1>5, <2>1 DEF XmitWait, XmitTimeout, StopTx
<1>6. CASE XmitAck
  BY <1>6 DEF XmitAck
<1>7. CASE XmitConfigure
  <2>1. packet \in Own /\ pc = "configure" /\ pc' = "start" /\ opens' = opens
    BY <1>7 DEF XmitConfigure, Typed, Scalars
  <2>2. /\ ram'.mem["dma_desc_tx"] = Descriptor(TRUE, {}, packet)
        /\ ram'.mem[packet] = ram.cpu[packet] /\ ram'.dirty = ram.dirty \ {packet}
        /\ SameOn(Lines \ {packet, "dma_desc_tx"})
    BY <1>0, <1>7, <2>1, ConfigureRam
  <2>3. packet = "tx_packet" => ram.cpu["tx_packet"] = Request
    BY <1>0, <2>1 DEF RamOK
  <2>4. "tx_packet" \notin ram'.dirty
    BY <2>1, <2>2
  <2>5. ram'.mem["dma_desc_tx"].buf = packet
    BY <2>2 DEF Descriptor
  <2>6. TxDesc'.own /\ TxDesc'.buf = "tx_packet" => ram'.mem["tx_packet"] = Request'
    BY <2>1, <2>2, <2>3, <2>5
  <2> QED
    BY <2>1, <2>4, <2>6
<1>8. CASE XmitStart
  BY <1>8 DEF XmitStart, Typed, Scalars
<1>9. CASE RecvCheck
  <2>1. ram'.mem = ram.mem /\ ram'.dirty = ram.dirty /\ pc' \in {"idle", "copy"}
    BY <1>0, <1>9, CheckRam
  <2> QED
    BY <1>9, <2>1 DEF RecvCheck
<1>10. CASE RecvCopy
  BY <1>0, <1>10, CopyRam DEF RecvCopy
<1>11. CASE RecvNone \/ RecvSome
  BY <1>11 DEF RecvNone, RecvSome
<1>12. CASE RecvGood
  BY <1>0, <1>12, GoodRam DEF RecvGood, SameOn
<1>13. CASE RecvDiscard
  BY <1>0, <1>13, DiscardRam DEF RecvDiscard, SameOn
<1>14. CASE Processed \/ RecvEnable
  BY <1>14 DEF Processed, RecvEnable
<1>15. CASE RecvFill
  BY <1>0, <1>15, FillRam DEF RecvFill, SameOn
<1>16. CASE DmaRxStore
  BY <1>0, <1>16, ReceivedRam DEF DmaRxStore, SameOn
<1>17. CASE DmaRxDone
  <2>1. ram'.dirty = ram.dirty /\ SameOn(TxLines)
    BY <1>0, <1>17, ReceivedDescriptor DEF DmaRxDone, SameOn
  <2> QED
    BY <1>17, <2>1, <1>s DEF DmaRxDone
<1>18. CASE DmaRxUnavailable \/ DmaTxFetch \/ Arrive \/ Clock
  BY <1>18 DEF DmaRxUnavailable, DmaTxFetch, Arrive, Clock
<1>19. CASE DmaTxDone
  BY <1>0, <1>19, SentDescriptor DEF DmaTxDone, SameOn
<1>20. CASE CacheActs
  <2>1. /\ ram'.dirty \subseteq ram.dirty
        /\ ram'.mem["dma_desc_tx"] = ram.mem["dma_desc_tx"]
        /\ ram'.cpu["tx_packet"] = ram.cpu["tx_packet"]
        /\ IF "tx_packet" \in ram.dirty \ ram'.dirty
           THEN ram'.mem["tx_packet"] = ram.cpu["tx_packet"]
           ELSE ram'.mem["tx_packet"] = ram.mem["tx_packet"]
    BY <1>0, <1>20, CacheRam
  <2> QED
    BY <1>20, <2>1 DEF CacheActs
<1>21. CASE UNCHANGED vars
  BY <1>21 DEF vars
<1> QED
  BY <1>1, <1>2, <1>3, <1>4, <1>5, <1>6, <1>7, <1>8, <1>9, <1>10, <1>11, <1>12, <1>13, <1>14,
     <1>15, <1>16, <1>17, <1>18, <1>19, <1>20, <1>21
     DEF Next, XmitStep, RecvStep, DmaRx, DmaTx

LEMMA TxGivenInvariant == Spec => [](Typed /\ TxGiven)
<1>1. Init => TxGiven
  BY DEF Init, TxGiven, Coherent, TxDesc, ZeroDesc, Descriptor, Lines, Descriptors
<1> QED
  BY <1>1, TypedInit, TypedStep, TxGivenStep, PTL DEF Spec

\* From the transmit buffer of the stack the engine fetches the packet given to
\* geth_xmit in this session.
THEOREM SendsCorrect == Spec => SendsWhatWasGiven
<1> DEFINE Sends == tx_frame' # tx_frame /\ tx_frame' # NoFrame /\ TxDesc.buf = "tx_packet" =>
                      tx_frame' = Request
<1>1. Typed /\ TxGiven /\ [Next]_vars => [Sends]_vars
  <2> SUFFICES ASSUME Typed, TxGiven, [Next]_vars,
                      tx_frame' # tx_frame, tx_frame' # NoFrame, TxDesc.buf = "tx_packet"
               PROVE  tx_frame' = Request
    OBVIOUS
  <2>1. DmaTxFetch
    BY DEF Next, XmitStep, RecvStep, DmaRx, DmaTx, Open, Reset, Halt, Send, Reply, Xmit,
           XmitWait, XmitTimeout, XmitAck, XmitConfigure, XmitStart, RecvCheck, RecvCopy,
           RecvNone, RecvSome, RecvGood, RecvDiscard, Processed, RecvFill, RecvEnable,
           DmaRxStore, DmaRxDone, DmaRxUnavailable, DmaTxDone, Arrive, CacheActs, Clock,
           vars, regVars, dmaVars, xmitVars, envVars, historyVars
  <2> QED
    BY <2>1 DEF DmaTxFetch, TxGiven
<1>2. Spec => [][Sends]_vars
  BY <1>1, TxGivenInvariant, PTL DEF Spec
<1> QED
  BY <1>2 DEF SendsWhatWasGiven

\* An engine that is not slow has given the descriptor back when the wait for it ends:
\* either the processor has seen that, or the 5000 ms are over.
TxIdle ==
  /\ tx_frame # NoFrame => TxDesc.own
  /\ TxDesc.own => ram.cpu["dma_desc_tx"].own
  /\ ~tx_en /\ pc \notin {"ack", "configure", "start"} => ~TxDesc.own
  /\ pc = "wait" /\ late => ~TxDesc.own
  /\ pc \in {"ack", "configure"} => ~TxDesc.own

LEMMA TxIdleStep == ASSUME ~SlowDma PROVE Typed /\ TxIdle /\ [Next]_vars => TxIdle'
<1> SUFFICES ASSUME Typed, TxIdle, [Next]_vars PROVE TxIdle'
  OBVIOUS
<1> USE DEF TxIdle, TxDesc, regVars, dmaVars, xmitVars, envVars, historyVars
<1>0. RamOK /\ "dma_desc_tx" \in Lines \ Own /\ packet \in Own /\ back \in {"idle", "fill"}
  BY LineSets DEF Typed, Own, Scalars
<1>1. CASE Open
  <2>1. ~ ram'.mem["dma_desc_tx"].own
    BY <1>0, <1>1, OpenRam DEF ZeroDesc, Descriptor
  <2> QED
    BY <1>1, <2>1 DEF Open, Reset
<1>2. CASE Halt
  BY <1>2 DEF Halt
<1>3. CASE Send \/ Reply
  <2>1. PICK b \in Own, f \in Frames : ram' = Store(ram, b, f)
    <3>1. <<"reply", handed>> \in Frames /\ Request \in Frames
      BY FrameValues DEF Request, Kinds, Typed, Scalars
    <3> QED
      BY <1>3, <3>1 DEF Send, Reply, Xmit, Own
  <2>2. ram'.mem = ram.mem /\ SameOn(Lines \ {b})
    BY <1>0, <2>1, XmitRam
  <2>3. ram'.mem = ram.mem /\ ram'.cpu["dma_desc_tx"] = ram.cpu["dma_desc_tx"]
    BY <1>0, <2>2 DEF SameOn
  <2> QED
    BY <1>3, <2>3 DEF Send, Reply, Xmit
<1>4. CASE XmitWait \/ XmitTimeout
  <2>1. ram'.mem = ram.mem /\ ram'.cpu = ram.cpu
    BY <1>0, <1>4, LoadedRam DEF XmitWait, XmitTimeout
  <2> QED
    BY <1>4, <2>1 DEF XmitWait, XmitTimeout, StopTx, PreviousPending
<1>5. CASE XmitAck
  BY <1>5 DEF XmitAck
<1>6. CASE XmitConfigure
  <2>1. ram'.cpu["dma_desc_tx"].own /\ ram'.mem["dma_desc_tx"].own
    BY <1>0, <1>6, ConfigureRam DEF Descriptor
  <2> QED
    BY <1>6, <2>1 DEF XmitConfigure
<1>7. CASE XmitStart
  BY <1>0, <1>7 DEF XmitStart
<1>8. CASE RecvCheck
  <2>1. ram'.mem = ram.mem /\ SameOn(Lines \ {"dma_desc_rx"}) /\ pc' \in {"idle", "copy"}
    BY <1>0, <1>8, CheckRam
  <2>2. ram'.cpu["dma_desc_tx"] = ram.cpu["dma_desc_tx"]
    BY <1>0, <2>1 DEF SameOn
  <2> QED
    BY <1>8, <2>1, <2>2 DEF RecvCheck
<1>9. CASE RecvCopy
  <2>1. ram'.mem = ram.mem /\ SameOn(Lines \ {"rx_packet", "rx_handle_buf"})
    BY <1>0, <1>9, CopyRam
  <2> QED
    BY <1>0, <1>9, <2>1 DEF RecvCopy, SameOn
<1>10. CASE RecvNone \/ RecvSome
  BY <1>10 DEF RecvNone, RecvSome
<1>11. CASE RecvGood
  BY <1>0, <1>11, GoodRam DEF RecvGood, SameOn
<1>12. CASE RecvDiscard
  BY <1>0, <1>12, DiscardRam DEF RecvDiscard, SameOn
<1>13. CASE Processed \/ RecvEnable
  BY <1>13 DEF Processed, RecvEnable
<1>14. CASE RecvFill
  BY <1>0, <1>14, FillRam DEF RecvFill, SameOn
<1>15. CASE DmaRxStore
  BY <1>0, <1>15, ReceivedRam DEF DmaRxStore, SameOn
<1>16. CASE DmaRxDone
  <2>1. SameOn(Lines \ {"dma_desc_rx"})
    BY <1>16, ReceivedDescriptor DEF DmaRxDone
  <2>2. /\ ram'.mem["dma_desc_tx"] = ram.mem["dma_desc_tx"]
        /\ ram'.cpu["dma_desc_tx"] = ram.cpu["dma_desc_tx"]
    BY <1>0, <2>1 DEF SameOn
  <2> QED
    BY <1>16, <2>2 DEF DmaRxDone
<1>17. CASE DmaRxUnavailable \/ DmaTxFetch \/ Arrive
  BY <1>17 DEF DmaRxUnavailable, DmaTxFetch, Arrive
<1>18. CASE DmaTxDone
  BY <1>18, SentDescriptor DEF DmaTxDone
<1>19. CASE CacheActs
  <2>1. /\ ram'.mem["dma_desc_tx"] = ram.mem["dma_desc_tx"]
        /\ ram'.cpu["dma_desc_tx"] \in {ram.cpu["dma_desc_tx"], ram.mem["dma_desc_tx"]}
    BY <1>0, <1>19, CacheRam
  <2> QED
    BY <1>19, <2>1 DEF CacheActs
<1>20. CASE Clock
  BY <1>20 DEF Clock, Sending
<1>21. CASE UNCHANGED vars
  BY <1>21 DEF vars
<1> QED
  BY <1>1, <1>2, <1>3, <1>4, <1>5, <1>6, <1>7, <1>8, <1>9, <1>10, <1>11, <1>12, <1>13, <1>14,
     <1>15, <1>16, <1>17, <1>18, <1>19, <1>20, <1>21
     DEF Next, XmitStep, RecvStep, DmaRx, DmaTx

\* With an engine that takes less than 5000 ms for a frame, geth_xmit writes the
\* descriptor only when the engine has given it back and has nothing under way.
THEOREM OnePacketCorrect == ASSUME ~SlowDma PROVE Spec => []OnePacketAtATime
<1>1. Init => TxIdle
  BY DEF Init, TxIdle, Coherent, TxDesc, ZeroDesc, Descriptor, Lines, Descriptors
<1>2. TxIdle => OnePacketAtATime
  BY DEF TxIdle, OnePacketAtATime
<1>3. Typed /\ TxIdle /\ [Next]_vars => TxIdle'
  BY TxIdleStep
<1> QED
  BY <1>1, <1>2, <1>3, TypedInit, TypedStep, PTL DEF Spec

-----------------------------------------------------------------------------
(* Receiving.                                                              *)

\* A frame with an error is never flagged as good, and neither is a descriptor that was
\* just given away.
LEMMA GoodFlags ==
  /\ ~ RxStatus({})
  /\ \A f \in Frames : \A flags \in RxFlags(f) : RxStatus(flags) => f[1] = "rx"
BY DEF RxStatus, RxFlags

\* Steps that touch neither the FIFO nor what has been received.
Untouched ==
  /\ UNCHANGED <<rx_frame, fifo, arrived, opened_at, handed>>
  /\ RxDesc' = RxDesc /\ ram'.mem["rx_packet"] = ram.mem["rx_packet"]

LEMMA UntouchedOrder ==
  ASSUME FrameOrder, Untouched, HandedOver => HandedOver',
         pc' \in {"check", "status"} => ram'.cpu["rx_handle_buf"] = ram'.mem["rx_packet"]
  PROVE  FrameOrder'
BY DEF FrameOrder, Untouched, Current

LEMMA FrameOrderStep == Typed /\ RxOwner /\ FrameOrder /\ [Next]_vars => FrameOrder'
<1> SUFFICES ASSUME Typed, RxOwner, FrameOrder, [Next]_vars PROVE FrameOrder'
  OBVIOUS
<1> USE DEF HandedOver, InXmit, RxDesc, regVars, dmaVars, xmitVars, envVars, historyVars
<1>0. /\ RamOK /\ "dma_desc_rx" \in Lines \ Own /\ "rx_packet" \in Lines \ Own
      /\ "rx_handle_buf" \in Own /\ Own \subseteq Lines
      /\ packet \in Own /\ back \in {"idle", "fill"}
  BY LineSets DEF Typed, Own, Scalars
<1>n. /\ fifo \in Seq(Frames) /\ rx_frame \in Frames /\ Len(fifo) \in Nat
      /\ arrived \in Nat /\ handed \in Nat /\ opened_at \in Nat
      /\ \A f \in Frames : f[2] \in Nat
      /\ \A i \in 1 .. Len(fifo) : fifo[i] \in Frames /\ fifo[i][2] \in Nat
      /\ ram.mem["rx_packet"][2] \in Nat /\ ram.mem["rx_packet"] \in Frames
  BY GethAssumption, LineTypes, LineSets DEF Typed, Scalars, Frames
<1>1. CASE Open
  <2>1. RxDesc' = ZeroDesc /\ rx_frame' = NoFrame /\ fifo' = << >> /\ handed' = handed
        /\ arrived' = arrived /\ pc' = "idle"
    BY <1>0, <1>1, OpenRam DEF Open, Reset
  <2>2. ~ RxStatus(RxDesc'.flags)
    BY <2>1, GoodFlags DEF ZeroDesc, Descriptor
  <2>3. Len(fifo') = 0
    BY <2>1
  <2> QED
    BY <2>1, <2>2, <2>3 DEF FrameOrder
<1>2. CASE Halt
  BY <1>2, UntouchedOrder DEF Halt, Untouched
<1>3. CASE Send \/ Reply
  <2>1. PICK b \in Own, f \in Frames : ram' = Store(ram, b, f)
    <3>1. <<"reply", handed>> \in Frames /\ Request \in Frames
      BY FrameValues DEF Request, Kinds, Typed, Scalars
    <3> QED
      BY <1>3, <3>1 DEF Send, Reply, Xmit, Own
  <2>2. ram'.mem = ram.mem
    BY <1>0, <2>1, XmitRam
  <2> QED
    BY <1>3, <2>2, UntouchedOrder DEF Send, Reply, Xmit, Untouched
<1>4. CASE XmitWait \/ XmitTimeout
  <2>1. ram'.mem = ram.mem
    BY <1>0, <1>4, LoadedRam, LineSets DEF XmitWait, XmitTimeout
  <2> QED
    BY <1>4, <2>1, UntouchedOrder DEF XmitWait, XmitTimeout, StopTx, Untouched
<1>5. CASE XmitAck
  BY <1>5, UntouchedOrder DEF XmitAck, Untouched
<1>6. CASE XmitConfigure
  <2>1. SameOn(Lines \ {packet, "dma_desc_tx"})
    BY <1>0, <1>6, ConfigureRam
  <2>2. RxDesc' = RxDesc /\ ram'.mem["rx_packet"] = ram.mem["rx_packet"]
    BY <1>0, <2>1 DEF SameOn
  <2> QED
    BY <1>6, <2>2, UntouchedOrder DEF XmitConfigure, Untouched
<1>7. CASE XmitStart
  BY <1>0, <1>7, UntouchedOrder DEF XmitStart, Untouched
<1>8. CASE RecvCheck
  <2>1. ram'.mem = ram.mem /\ pc' \in {"idle", "copy"}
    BY <1>0, <1>8, CheckRam
  <2> QED
    BY <1>8, <2>1, UntouchedOrder DEF RecvCheck, Untouched
<1>9. CASE RecvCopy
  <2>1. ram'.mem = ram.mem /\ ram'.cpu["rx_handle_buf"] = ram.mem["rx_packet"]
    BY <1>0, <1>9, CopyRam
  <2> QED
    BY <1>9, <2>1, UntouchedOrder DEF RecvCopy, Untouched
<1>10. CASE RecvNone \/ RecvSome
  BY <1>10, UntouchedOrder DEF RecvNone, RecvSome, Untouched, FrameOrder
<1>11. CASE RecvGood
  <2>1. RxStatus(RxDesc.flags)
    BY <1>11 DEF RecvGood, RxOwner, Handled, Handling
  <2>2. handed' = ram.mem["rx_packet"][2] /\ pc = "status" /\ pc' = "process"
    BY <1>11 DEF RecvGood, FrameOrder
  <2>3. RxDesc' = RxDesc /\ ram'.mem["rx_packet"] = ram.mem["rx_packet"]
    BY <1>0, <1>11, GoodRam DEF SameOn
  <2>4. UNCHANGED <<rx_frame, fifo, arrived, opened_at>> /\ rx_frame = NoFrame
    BY <1>11, <2>1 DEF RecvGood, FrameOrder
  <2> QED
    BY <1>n, <2>1, <2>2, <2>3, <2>4 DEF FrameOrder, Current
<1>12. CASE RecvDiscard
  <2>1. ~ RxStatus(RxDesc.flags) /\ rx_frame = NoFrame
    BY <1>12 DEF RecvDiscard, RxOwner, Handled, Handling
  <2>2. RxDesc' = RxDesc
    BY <1>0, <1>12, DiscardRam DEF SameOn
  <2>3. UNCHANGED <<rx_frame, fifo, arrived, opened_at, handed>> /\ pc' = "fill"
    BY <1>12 DEF RecvDiscard
  <2> QED
    BY <2>1, <2>2, <2>3 DEF FrameOrder
<1>13. CASE Processed \/ RecvEnable
  BY <1>13, UntouchedOrder DEF Processed, RecvEnable, Untouched
<1>14. CASE RecvFill
  <2>1. RxDesc'.flags = {} /\ ram'.mem["rx_packet"] = ram.mem["rx_packet"]
    BY <1>0, <1>14, FillRam DEF SameOn, Descriptor
  <2>2. ~ RxStatus(RxDesc'.flags)
    BY <2>1, GoodFlags
  <2>3. UNCHANGED <<rx_frame, fifo, arrived, opened_at, handed>> /\ pc' = "enable"
    BY <1>14 DEF RecvFill
  <2> QED
    BY <2>1, <2>2, <2>3 DEF FrameOrder, Current
<1>15. CASE DmaRxStore
  <2>1. /\ RxDesc' = RxDesc /\ RxDesc.own /\ ram'.mem["rx_packet"] = Head(fifo)
        /\ rx_frame' = Head(fifo) /\ fifo' = Tail(fifo) /\ fifo # << >>
        /\ UNCHANGED <<pc, back, arrived, opened_at, handed>>
    BY <1>0, <1>15, ReceivedRam DEF DmaRxStore, SameOn
  <2>2. ~ RxStatus(RxDesc'.flags) /\ pc \notin {"check", "status"}
    BY <2>1 DEF FrameOrder, RxOwner, Handled, Handling
  <2>3. /\ Len(fifo') = Len(fifo) - 1 /\ Len(fifo) \in Nat \ {0}
        /\ \A i \in 1 .. Len(fifo') : fifo'[i] = fifo[i + 1]
        /\ rx_frame' = fifo[1]
    BY <1>n, <2>1
  <2>4. \A i \in 1 .. Len(fifo') : i + 1 \in 1 .. Len(fifo) /\ 1 < i + 1 /\ 1 \in 1 .. Len(fifo)
    BY <2>3
  <2>5. 1 \in 1 .. Len(fifo)
    BY <2>3
  <2>6. \A i \in 1 .. Len(fifo'), j \in 1 .. Len(fifo') : i < j => i + 1 < j + 1
    BY <2>3
  <2>7. \A i \in 1 .. Len(fifo'), j \in 1 .. Len(fifo') : i < j => fifo'[i][2] < fifo'[j][2]
    BY <2>3, <2>4, <2>6 DEF FrameOrder
  <2>8. \A i \in 1 .. Len(fifo') : /\ fifo'[i][1] \in {"rx", "bad"} /\ handed < fifo'[i][2]
                                   /\ opened_at < fifo'[i][2] /\ fifo'[i][2] <= arrived
                                   /\ rx_frame'[2] < fifo'[i][2]
    BY <2>3, <2>4 DEF FrameOrder
  <2>9. /\ rx_frame'[1] \in {"rx", "bad"} /\ handed < rx_frame'[2]
        /\ opened_at < rx_frame'[2] /\ rx_frame'[2] <= arrived
    BY <2>3, <2>5 DEF FrameOrder
  <2>10. Current(rx_frame[2])'
    BY <2>1, <2>8, <2>9 DEF Current
  <2> QED
    BY <2>1, <2>2, <2>7, <2>8, <2>9, <2>10 DEF FrameOrder
<1>16. CASE DmaRxDone
  <2>1. PICK flags \in RxFlags(rx_frame) :
          ram' = DeviceWrite(ram, "dma_desc_rx", Descriptor(FALSE, flags, RxDesc.buf))
    BY <1>16 DEF DmaRxDone
  <2>2. RxDesc'.flags = flags /\ ~ RxDesc'.own /\ ram'.mem["rx_packet"] = ram.mem["rx_packet"]
    <3>1. /\ SameOn(Lines \ {"dma_desc_rx"})
          /\ ram'.mem["dma_desc_rx"] = Descriptor(FALSE, flags, RxDesc.buf)
      BY <2>1, ReceivedDescriptor
    <3>2. "rx_packet" # "dma_desc_rx"
      OBVIOUS
    <3> QED
      BY <1>0, <3>1, <3>2 DEF SameOn, Descriptor
  <2>3. RxStatus(flags) => rx_frame[1] = "rx"
    BY <1>n, GoodFlags
  <2>4. /\ rx_frame' = NoFrame /\ rx_frame # NoFrame
        /\ UNCHANGED <<pc, back, fifo, arrived, opened_at, handed>>
    BY <1>16 DEF DmaRxDone
  <2>5. pc \notin {"check", "status"}
    BY <2>4 DEF RxOwner, Handled, Handling
  <2>6. ram.mem["rx_packet"] = rx_frame /\ Current(rx_frame[2]) /\ handed < rx_frame[2]
    BY <2>4 DEF FrameOrder
  <2> QED
    BY <2>2, <2>3, <2>4, <2>5, <2>6 DEF FrameOrder, Current
<1>17. CASE DmaRxUnavailable \/ DmaTxFetch \/ Clock
  BY <1>17, UntouchedOrder DEF DmaRxUnavailable, DmaTxFetch, Clock, Untouched, FrameOrder
<1>18. CASE DmaTxDone
  <2>1. SameOn(Lines \ {"dma_desc_tx"})
    BY <1>18, SentDescriptor
  <2>2. /\ RxDesc' = RxDesc /\ ram'.mem["rx_packet"] = ram.mem["rx_packet"]
        /\ ram'.cpu["rx_handle_buf"] = ram.cpu["rx_handle_buf"]
    BY <1>0, <2>1 DEF SameOn, Own
  <2> QED
    BY <1>18, <2>2, UntouchedOrder DEF DmaTxDone, Untouched, FrameOrder
<1>19. CASE Arrive
  <2>1. PICK kind \in {"rx", "bad"} :
          fifo' = IF Len(fifo) < FifoSize THEN Append(fifo, <<kind, arrived'>>) ELSE fifo
    BY <1>19 DEF Arrive
  <2>2. /\ arrived' = arrived + 1
        /\ UNCHANGED <<pc, back, ram, rx_frame, opened_at, handed>>
    BY <1>19 DEF Arrive
  <2>3. CASE fifo' = fifo
    BY <1>n, <2>2, <2>3 DEF FrameOrder, Current
  <2>4. CASE fifo' = Append(fifo, <<kind, arrived + 1>>)
    <3>1. /\ Len(fifo') = Len(fifo) + 1
          /\ \A i \in 1 .. Len(fifo) : fifo'[i] = fifo[i]
          /\ fifo'[Len(fifo) + 1] = <<kind, arrived + 1>>
      BY <1>n, <2>4
    <3>2. \A i \in 1 .. Len(fifo') : i \in 1 .. Len(fifo) \/ i = Len(fifo) + 1
      BY <1>n, <3>1
    <3>3. \A i \in 1 .. Len(fifo') : /\ fifo'[i][1] \in {"rx", "bad"} /\ handed < fifo'[i][2]
                                     /\ opened_at < fifo'[i][2] /\ fifo'[i][2] <= arrived + 1
      BY <1>n, <3>1, <3>2 DEF FrameOrder, Typed, Scalars
    <3>4. \A i \in 1 .. Len(fifo'), j \in 1 .. Len(fifo') : i < j => fifo'[i][2] < fifo'[j][2]
      <4>1. ASSUME NEW i \in 1 .. Len(fifo'), NEW j \in 1 .. Len(fifo'), i < j
            PROVE  fifo'[i][2] < fifo'[j][2]
        <5>1. i \in 1 .. Len(fifo)
          BY <1>n, <3>1, <4>1
        <5>2. fifo'[i] = fifo[i] /\ fifo[i][2] \in Nat /\ fifo[i][2] <= arrived
          BY <1>n, <3>1, <5>1 DEF FrameOrder
        <5>3. CASE j \in 1 .. Len(fifo)
          BY <3>1, <4>1, <5>1, <5>2, <5>3 DEF FrameOrder
        <5>4. CASE j = Len(fifo) + 1
          BY <1>n, <3>1, <5>2, <5>4
        <5> QED
          BY <3>2, <5>3, <5>4
      <4> QED
        BY <4>1
    <3>5. ASSUME NEW n \in Nat, Current(n) PROVE Current(n)'
      BY <1>n, <2>2, <3>1, <3>2, <3>5 DEF Current
    <3>6. handed <= arrived + 1
      BY <1>n DEF FrameOrder
    <3> QED
      BY <1>n, <2>2, <3>3, <3>4, <3>5, <3>6 DEF FrameOrder
  <2> QED
    BY <2>1, <2>2, <2>3, <2>4
<1>20. CASE CacheActs
  <2>1. /\ RxDesc' = RxDesc /\ ram'.mem["rx_packet"] = ram.mem["rx_packet"]
        /\ ram'.cpu["rx_handle_buf"] = ram.cpu["rx_handle_buf"]
    BY <1>0, <1>20, CacheRam
  <2> QED
    BY <1>20, <2>1, UntouchedOrder DEF CacheActs, Untouched, FrameOrder
<1>21. CASE UNCHANGED vars
  BY <1>21, UntouchedOrder DEF vars, Untouched, FrameOrder
<1> QED
  BY <1>1, <1>2, <1>3, <1>4, <1>5, <1>6, <1>7, <1>8, <1>9, <1>10, <1>11, <1>12, <1>13, <1>14,
     <1>15, <1>16, <1>17, <1>18, <1>19, <1>20, <1>21
     DEF Next, XmitStep, RecvStep, DmaRx, DmaTx

LEMMA FrameOrderInit == Init => FrameOrder
<1> SUFFICES ASSUME Init PROVE FrameOrder
  OBVIOUS
<1>1. RxDesc.flags = {}
  BY DEF Init, Coherent, RxDesc, ZeroDesc, Descriptor, Lines, Descriptors
<1>2. ~ RxStatus(RxDesc.flags)
  BY <1>1, GoodFlags
<1> QED
  BY <1>2 DEF Init, FrameOrder

LEMMA FrameOrderInvariant == Spec => [](Typed /\ RxOwner /\ FrameOrder)
<1>1. Init => RxOwner
  BY DEF Init, RxOwner, Handled, Handling, InXmit
<1> QED
  BY <1>1, TypedInit, TypedStep, RxOwnerStep, FrameOrderInit, FrameOrderStep, PTL DEF Spec

\* geth_recv gives the stack frames without error, of this session, each later than all
\* before it, whatever the cache keeps and however the engine and the network interleave.
THEOREM NewFramesCorrect == Spec => NewFramesOnly
<1> DEFINE New == pc = "status" /\ pc' = "process" =>
                    /\ ram.cpu["rx_handle_buf"][1] = "rx"
                    /\ handed' > handed /\ handed' > opened_at
<1>1. Typed /\ RxOwner /\ FrameOrder /\ [Next]_vars => [New]_vars
  <2> SUFFICES ASSUME Typed, RxOwner, FrameOrder, [Next]_vars, pc = "status", pc' = "process"
               PROVE  /\ ram.cpu["rx_handle_buf"][1] = "rx"
                      /\ handed' > handed /\ handed' > opened_at
    OBVIOUS
  <2>1. RecvGood
    BY DEF Next, XmitStep, RecvStep, DmaRx, DmaTx, Open, Halt, Send, Reply, Xmit,
           XmitWait, XmitTimeout, XmitAck, XmitConfigure, XmitStart, RecvCheck, RecvCopy,
           RecvNone, RecvSome, RecvDiscard, Processed, RecvFill, RecvEnable,
           DmaRxStore, DmaRxDone, DmaRxUnavailable, DmaTxFetch, DmaTxDone, Arrive,
           CacheActs, Clock, vars
  <2>2. RxStatus(RxDesc.flags)
    BY <2>1 DEF RecvGood, RxOwner, Handled, Handling
  <2>3. handed' = ram.mem["rx_packet"][2] /\ ram.cpu["rx_handle_buf"] = ram.mem["rx_packet"]
    BY <2>1 DEF RecvGood, FrameOrder
  <2>4. ram.mem["rx_packet"][2] \in Nat /\ handed \in Nat /\ opened_at \in Nat
    BY GethAssumption, LineTypes, LineSets DEF Typed, Scalars, Frames
  <2> QED
    BY <2>2, <2>3, <2>4 DEF FrameOrder, Current, HandedOver, InXmit
<1>2. Spec => [][New]_vars
  BY <1>1, FrameOrderInvariant, PTL DEF Spec
<1> QED
  BY <1>2 DEF NewFramesOnly
=============================================================================
