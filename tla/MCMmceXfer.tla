----------------------------- MODULE MCMmceXfer -----------------------------
(* MmceXfer at the sizes around its boundaries: none, one byte, an element, *)
(* a full queue, two full queues, each one less and one more.               *)
EXTENDS MmceXfer

MCSizes == {0, 1, 255, 256, 257, 511, 513, 3839, 3840, 3841, 4095, 4096, 4097, 4351,
            4352, 4353, 8191, 8192, 8193, 12287, 12289}

=============================================================================
