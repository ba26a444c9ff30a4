------------------------------- MODULE MCSdCardSpi ------------------------------
(* Instances of SdCardSpi for TLC: a card of four blocks of two bytes, so that a    *)
(* sector's address in bytes may be another's in blocks, or that of none.           *)
EXTENDS SdCardSpi
=============================================================================
