---------------------------- MODULE MCBenchmark -----------------------------
(***************************************************************************)
(* Model-checking instance of Benchmark: an AES-GCM-128 instance (with    *)
(* set_aad and get_tag) and an AES-ICM instance (without), nonce and      *)
(* result widths scaled down so that TLC's integers hold them.            *)
(***************************************************************************)
EXTENDS Benchmark

CONSTANTS SRTP_AES_GCM_128, SRTP_AES_GCM_256, SRTP_AES_ICM_128, K1, P1

MCTypes ==
  { CipherType(SRTP_AES_GCM_128, TRUE, TRUE, TRUE, TRUE),
    CipherType(SRTP_AES_ICM_128, TRUE, FALSE, FALSE, FALSE) }
(* clock() - timer when one of the two clock() calls returned (clock_t)-1. *)
MCElapsedClockError == {-1, 1}
MCGcmAlgorithms == {SRTP_AES_GCM_128, SRTP_AES_GCM_256}
=============================================================================
