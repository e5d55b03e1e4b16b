------------------------------ MODULE TestRand ------------------------------
(***************************************************************************)
(* The test-only random source of crypto/cipher/cipher.c.                  *)
(*                                                                         *)
(* srtp_cipher_rand_for_tests fills each octet with the low eight bits of *)
(* one rand() result.  srtp_cipher_rand_u32_for_tests lets it fill the    *)
(* four octets of a uint32_t in place, so the value depends on the byte   *)
(* order of the build.  Its only use takes the value modulo the room for  *)
(* a random plaintext, so the operator returns the value modulo `m`,      *)
(* computed most significant octet first with the remainder taken at      *)
(* every step, which keeps the intermediate values inside TLC's integers. *)
(***************************************************************************)
LOCAL INSTANCE Integers
LOCAL INSTANCE SequencesExt

(* *dest++ = rand() & 0xff, for each of the len octets; `vals` are the    *)
(* successive results of rand(), which are never negative.                 *)
srtp_cipher_rand_for_tests(vals) == [n \in DOMAIN vals |-> vals[n] % 256]

(* The uint32_t whose memory the four octets fill, modulo m.               *)
srtp_cipher_rand_u32_for_tests(vals, order, m) ==
  LET octets   == srtp_cipher_rand_for_tests(vals)
      msbFirst == IF order = "little" THEN Reverse(octets) ELSE octets
  IN FoldLeft(LAMBDA acc, o : (acc * 256 + o) % m, 0, msbFirst)
=============================================================================
