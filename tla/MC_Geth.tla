------------------------------ MODULE MC_Geth ------------------------------
(***************************************************************************)
(* Instances of Geth.                                                      *)
(***************************************************************************)
EXTENDS Geth

MCAllLines == Lines
MCRxLines == {"dma_desc_rx", "rx_packet"}
MCTxLines == {"dma_desc_tx", "tx_packet"}
MCNoLines == {}
=============================================================================
