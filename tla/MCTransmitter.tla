--------------------------- MODULE MCTransmitter ---------------------------
(* Transmitter for TLC: one frequency on either side of 10 MHz, a sweep of *)
(* three frequencies (1, 15.5 and 30 MHz), one failing transfer.           *)
EXTENDS Transmitter

MCFreqs == {7038, 14095}
=============================================================================
