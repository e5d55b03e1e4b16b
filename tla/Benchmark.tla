------------------------------ MODULE Benchmark -----------------------------
(***************************************************************************)
(* srtp_cipher_bits_per_second(c, octets_in_buffer, num_trials) of        *)
(* crypto/cipher/cipher.c: allocate a buffer of octets_in_buffer +        *)
(* SRTP_MAX_TAG_LEN octets, then per trial set the IV to a nonce holding  *)
(* the trial number in its last 32-bit word, set a 4-octet AAD if the    *)
(* type has set_aad, encrypt the buffer in place and fetch the tag if the *)
(* type has get_tag; any failure frees the buffer and returns 0.  At the  *)
(* end the elapsed clock() ticks turn into a rate, 0 when no time passed. *)
(*                                                                         *)
(* `bpc` is the position in the function, `i` the loop index, `nonce` the *)
(* value of nonce.v32[3], `len` and `tagLen` the in/out lengths.  `used`, *)
(* `errors` and `frees` are history variables.                            *)
(***************************************************************************)
EXTENDS Integers, FiniteSets, Cipher

CONSTANTS
  Types,            \* cipher types the instance may have
  BenchKey,         \* the key the caller initialised the instance with
  BenchData,        \* the contents of the uninitialised buffer
  OctetsChoices,    \* values of octets_in_buffer
  TrialsChoices,    \* values of num_trials
  ElapsedChoices,   \* values of clock() - timer
  SRTP_MAX_TAG_LEN, \* 16
  NonceBits,        \* width of nonce.v32[3] (32 in the code)
  U64Bits,          \* width of the uint64_t result (64 in the code)
  CLOCKS_PER_SEC

ASSUME SRTP_MAX_TAG_LEN = 16 /\ NonceBits \in Nat \ {0} /\ U64Bits \in Nat \ {0}

VARIABLES
  c, octets, trials, bpc, bufSize, i, nonce, len, tagLen, elapsed, result,
  used, reused, errors, frees

vars == <<c, octets, trials, bpc, bufSize, i, nonce, len, tagLen, elapsed,
          result, used, reused, errors, frees>>

Buf == [body |-> BenchData, blen |-> len, tag |-> NoTag]

Init ==
  /\ \E ct \in Types :
       c = [NewInstance(ct, 1, 16, IF ct.aead THEN 16 ELSE 0) EXCEPT !.key = BenchKey]
  /\ octets \in OctetsChoices /\ trials \in TrialsChoices
  /\ bpc = "alloc" /\ bufSize = 0 /\ i = 0 /\ nonce = 0
  /\ len = octets /\ tagLen = SRTP_MAX_TAG_LEN
  /\ elapsed = 0 /\ result = -1
  /\ used = {} /\ reused = FALSE /\ errors = {} /\ frees = 0

(* `srtp_crypto_free(enc_buf); return 0;` after a failed call.            *)
Fail(status) ==
  /\ frees' = frees + 1 /\ result' = 0 /\ bpc' = "done"
  /\ errors' = errors \cup {status}
  /\ UNCHANGED <<c, octets, trials, bufSize, i, nonce, len, tagLen, elapsed,
                 used, reused>>

(* enc_buf = srtp_crypto_alloc(octets_in_buffer + tag_len); the timer     *)
(* starts with a zero nonce.                                               *)
BenchAlloc ==
  /\ bpc = "alloc"
  /\ \/ /\ Flaky /\ result' = 0 /\ bpc' = "done"
        /\ UNCHANGED <<bufSize, frees>>
     \/ /\ bufSize' = octets + tagLen /\ bpc' = "set_iv"
        /\ UNCHANGED <<result, frees>>
  /\ UNCHANGED <<c, octets, trials, i, nonce, len, tagLen, elapsed, used, reused,
                 errors>>

(* Mutant: the loop test is i <= num_trials.                             *)
LoopContinuesOffByOne == i <= trials

(* The loop test i < num_trials.                                           *)
LoopContinues == i < trials

(* The loop test fails: stop the timer.                                    *)
BenchLoopExit ==
  /\ bpc = "set_iv" /\ ~LoopContinues /\ bpc' = "finish"
  /\ UNCHANGED <<c, octets, trials, bufSize, i, nonce, len, tagLen, elapsed,
                 result, used, reused, errors, frees>>

(* Mutant: the IV is set before the first trial only.                    *)
BenchSetIvOnce ==
  /\ bpc = "set_iv" /\ LoopContinues
  /\ \/ /\ i > 0 /\ bpc' = "set_aad"
        /\ UNCHANGED <<c, octets, trials, bufSize, i, nonce, len, tagLen, elapsed,
                       result, used, reused, errors, frees>>
     \/ /\ i = 0
        /\ \E o \in srtp_cipher_set_iv(c, nonce, "encrypt", Buf, len) :
             \/ o.status # "ok" /\ Fail(o.status)
             \/ /\ o.status = "ok" /\ c' = o.c /\ bpc' = "set_aad"
                /\ used' = used \cup {nonce} /\ reused' = reused
                /\ UNCHANGED <<octets, trials, bufSize, i, nonce, len, tagLen,
                               elapsed, result, errors, frees>>

BenchSetIv ==
  /\ bpc = "set_iv" /\ LoopContinues
  /\ \E o \in srtp_cipher_set_iv(c, nonce, "encrypt", Buf, len) :
       \/ o.status # "ok" /\ Fail(o.status)
       \/ /\ o.status = "ok" /\ c' = o.c /\ bpc' = "set_aad"
          /\ used' = used \cup {nonce} /\ reused' = (reused \/ nonce \in used)
          /\ UNCHANGED <<octets, trials, bufSize, i, nonce, len, tagLen, elapsed,
                         result, errors, frees>>

(* Mutant: the status of set_aad is ignored.                              *)
BenchSetAadUnchecked ==
  /\ bpc = "set_aad"
  /\ \/ /\ ~c.type.setAad /\ bpc' = "encrypt"
        /\ UNCHANGED <<c, octets, trials, bufSize, i, nonce, len, tagLen, elapsed,
                       result, used, reused, errors, frees>>
     \/ /\ c.type.setAad
        /\ \E o \in srtp_cipher_set_aad(c, NoAad, Buf, len) :
             /\ c' = o.c /\ bpc' = "encrypt"
             /\ errors' = IF o.status = "ok" THEN errors ELSE errors \cup {o.status}
             /\ UNCHANGED <<octets, trials, bufSize, i, nonce, len, tagLen,
                            elapsed, result, used, reused, frees>>

(* if (c->type->set_aad) srtp_cipher_set_aad(c, aad, 4)                    *)
BenchSetAad ==
  /\ bpc = "set_aad"
  /\ \/ /\ ~c.type.setAad /\ bpc' = "encrypt"
        /\ UNCHANGED <<c, octets, trials, bufSize, i, nonce, len, tagLen, elapsed,
                       result, used, reused, errors, frees>>
     \/ /\ c.type.setAad
        /\ \E o \in srtp_cipher_set_aad(c, NoAad, Buf, len) :
             \/ o.status # "ok" /\ Fail(o.status)
             \/ /\ o.status = "ok" /\ c' = o.c /\ bpc' = "encrypt"
                /\ UNCHANGED <<octets, trials, bufSize, i, nonce, len, tagLen,
                               elapsed, result, used, reused, errors, frees>>

(* Mutant: a failed encryption returns without freeing the buffer.       *)
BenchEncryptLeak ==
  /\ bpc = "encrypt"
  /\ \E o \in srtp_cipher_encrypt(c, Buf, len, len) :
       \/ /\ o.status # "ok" /\ result' = 0 /\ bpc' = "done"
          /\ errors' = errors \cup {o.status}
          /\ UNCHANGED <<c, octets, trials, bufSize, i, nonce, len, tagLen, elapsed,
                         used, reused, frees>>
       \/ /\ o.status = "ok" /\ c' = o.c /\ len' = o.len
          /\ bpc' = "get_tag"
          /\ UNCHANGED <<octets, trials, bufSize, i, nonce, tagLen, elapsed,
                         result, used, reused, errors, frees>>

(* srtp_cipher_encrypt(c, enc_buf, len, enc_buf, &len)                     *)
BenchEncrypt ==
  /\ bpc = "encrypt"
  /\ \E o \in srtp_cipher_encrypt(c, Buf, len, len) :
       \/ o.status # "ok" /\ Fail(o.status)
       \/ /\ o.status = "ok" /\ c' = o.c /\ len' = o.len
          /\ bpc' = "get_tag"
          /\ UNCHANGED <<octets, trials, bufSize, i, nonce, tagLen, elapsed,
                         result, used, reused, errors, frees>>

(* Mutant: the nonce takes the index before it is incremented.           *)
NextTrialStale == i' = i + 1 /\ nonce' = i % (2 ^ NonceBits)

(* The next loop index, and nonce.v32[3] = (uint32_t)i.                    *)
NextTrial == i' = i + 1 /\ nonce' = (i + 1) % (2 ^ NonceBits)

(* if (c->type->get_tag) srtp_cipher_get_tag(c, enc_buf + len, &tag_len),  *)
(* then the loop increment.                                                *)
BenchGetTag ==
  /\ bpc = "get_tag"
  /\ \/ /\ ~c.type.getTag /\ bpc' = "set_iv" /\ NextTrial
        /\ UNCHANGED <<c, octets, trials, bufSize, len, tagLen, elapsed, result,
                       used, reused, errors, frees>>
     \/ /\ c.type.getTag
        /\ \E o \in srtp_cipher_get_tag(c, Buf, tagLen) :
             \/ o.status # "ok" /\ Fail(o.status)
             \/ /\ o.status = "ok" /\ tagLen' = o.len
                /\ bpc' = "set_iv" /\ NextTrial
                /\ UNCHANGED <<c, octets, trials, bufSize, len, elapsed, result,
                               used, reused, errors, frees>>

(* timer = clock() - timer; free; 0 if no tick passed, else the uint64_t   *)
(* rate, whose divisor is the clock_t converted to uint64_t.               *)
Rate(e) ==
  ((CLOCKS_PER_SEC * trials * 8 * octets) % (2 ^ U64Bits)) \div (e % (2 ^ U64Bits))

BenchFinish ==
  /\ bpc = "finish"
  /\ \E e \in ElapsedChoices :
       /\ elapsed' = e
       /\ result' = IF e = 0 THEN 0 ELSE Rate(e)
  /\ frees' = frees + 1 /\ bpc' = "done"
  /\ UNCHANGED <<c, octets, trials, bufSize, i, nonce, len, tagLen, used, reused,
                 errors>>

Next ==
  \/ BenchAlloc \/ BenchLoopExit \/ BenchSetIv \/ BenchSetAad
  \/ BenchEncrypt \/ BenchGetTag \/ BenchFinish

(* The loop has no blocking step: a called benchmark runs to its end.     *)
Spec == Init /\ [][Next]_vars /\ WF_vars(Next)

-----------------------------------------------------------------------------
(* Properties.                                                             *)

TypeOK ==
  /\ bpc \in {"alloc", "set_iv", "set_aad", "encrypt", "get_tag", "finish", "done"}
  /\ i \in 0..trials /\ nonce \in 0..(2 ^ NonceBits - 1)
  /\ frees \in {0, 1} /\ result \in Int /\ errors \subseteq
        {"fail", "bad_param", "no_such_op", "auth_fail"}

(* Every trial sets a nonce no earlier trial of the run used, so the      *)
(* benchmark never encrypts twice under one (key, nonce).                  *)
NonceFresh == ~reused

(* enc_buf is freed exactly once on every path that allocated it.         *)
BufferFreed == bpc = "done" /\ bufSize > 0 => frees = 1

(* A non-zero rate is returned only when every driven call succeeded and  *)
(* the clock moved.                                                         *)
SentinelSound == bpc = "done" /\ result # 0 => errors = {} /\ elapsed # 0

(* The instance the caller allocated and keyed, seen through the          *)
(* lifecycle the dispatch layer promises: live throughout, not the         *)
(* benchmark's to free.                                                    *)
LC == INSTANCE CipherLifecycle
        WITH live <- TRUE, owned <- FALSE, key <- c.key, iv <- c.iv,
             dir <- c.dir, aad <- c.aad, sealed <- c.seals

(* Every trial drives the instance in the order the contract allows: a    *)
(* fresh IV for encryption before the AAD and the encryption, so no AEAD  *)
(* encryption of a trial reuses the message state of the one before.      *)
LifecycleSpec == LC!Spec

(* A benchmark whose calls all succeed, with num_trials and               *)
(* octets_in_buffer non-zero and a non-zero elapsed time, returns a        *)
(* strictly positive rate.                                                 *)
RateReported ==
  bpc = "done" /\ errors = {} /\ bufSize > 0 /\ elapsed # 0
    /\ trials > 0 /\ octets > 0 => result > 0
=============================================================================
