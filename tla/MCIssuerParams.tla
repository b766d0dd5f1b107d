--------------------------- MODULE MCIssuerParams ---------------------------
(* Numbers on both sides of every bound, with a 12-bit u64 (prime 4033). *)
EXTENDS IssuerParams

TypedNumbers ==
    {-1, 0, 6, 12, 13, 255, 256, 1000, 2047, 2048, 4032, 4033, 4045, 4095, 4096}
=============================================================================
