------------------------------ MODULE SelfTest ------------------------------
(***************************************************************************)
(* srtp_cipher_type_test(ct, test_data) of crypto/cipher/cipher.c: the     *)
(* known-answer loop over the list of test cases, then NUM_RAND_TESTS     *)
(* random encrypt/decrypt round trips on one instance, every call made    *)
(* through the dispatch layer of module Cipher.                           *)
(*                                                                         *)
(* The function is sequential; `pc` is its position.  Each action is one  *)
(* call of the function (or one copy/compare block) together with the    *)
(* `if (status) { srtp_cipher_dealloc(c); return status; }` that follows  *)
(* it.  `c` is the current instance, `buf` the stack array `buffer`,      *)
(* `buf2` the copy `buffer2` of the random plaintext, `len` and `tagLen`  *)
(* the in/out lengths.  `allocs`, `deallocs`, `faults`, `extent` and     *)
(* `dump` are history variables read by the properties.                   *)
(***************************************************************************)
EXTENDS Integers, Sequences, Cipher, TestRand

CONSTANTS
  Suites,               \* [type, data]: arguments of srtp_cipher_type_test
  SelfTestTypes,        \* types with their own test_data, for the self-test
  UninitSizes,          \* values the uninitialised size_t tag_len may hold
  RandValues,           \* results rand() may return
  ByteOrder,            \* "little" or "big": the octet order of a uint32_t
  RandPlain,            \* random plaintexts
  RandKeys,             \* random keys
  RandIvs,              \* random IVs
  NumRandTests,         \* NUM_RAND_TESTS (128 in the code)
  SELF_TEST_BUF_OCTETS, \* 128
  MAX_KEY_LEN,          \* 64
  Debug                 \* srtp_mod_cipher.on

ASSUME NumRandTests \in Nat \ {0}
ASSUME RandValues \subseteq 0..32767 /\ ByteOrder \in {"little", "big"}
ASSUME SELF_TEST_BUF_OCTETS = 128 /\ MAX_KEY_LEN = 64 /\ Debug \in BOOLEAN

VARIABLES
  ct, testData, pc, k, j, c, buf, buf2, len, tagLen, rkey, riv, result,
  allocs, deallocs, faults, extent, dump

vars == <<ct, testData, pc, k, j, c, buf, buf2, len, tagLen, rkey, riv, result,
          allocs, deallocs, faults, extent, dump>>

V == testData[k]   \* test_case inside the known-answer loop
R == testData[1]   \* test_case = test_data for the random tests

(* srtp_cipher_type_self_test(ct): srtp_cipher_type_test on the type's   *)
(* own list of test data.                                                  *)
srtp_cipher_type_self_test(t) == [type |-> t, data |-> t.test_data]

(* The test is entered directly or through the self-test entry point.     *)
Init ==
  /\ \E s \in Suites \cup {srtp_cipher_type_self_test(t) : t \in SelfTestTypes} :
       ct = s.type /\ testData = s.data
  /\ pc = "start" /\ k = 0 /\ j = 0
  /\ c = [id |-> 0]
  /\ buf = [body |-> Garbage, blen |-> 0, tag |-> NoTag]
  /\ buf2 = buf
  /\ len = 0 /\ tagLen \in UninitSizes   \* size_t tag_len; left uninitialised
  /\ rkey = NoKey /\ riv = NoIv
  /\ result = "none"
  /\ allocs = 0 /\ deallocs = <<>> /\ faults = 0
  /\ extent = 0
  /\ dump = [buffer |-> 0, expected |-> 0, expectedSize |-> 0]

(* `srtp_cipher_dealloc(c); return st;` on an error path.                 *)
Abort(st) ==
  /\ deallocs' = [deallocs EXCEPT ![c.id] = @ + 1]
  /\ result' = st /\ pc' = "done"
  /\ UNCHANGED <<ct, testData, k, j, c, buf, buf2, len, tagLen, rkey, riv,
                 allocs, faults, extent, dump>>

(* A call that changes only the instance: init, set_iv, set_aad.          *)
CallStep(outcomes, next) ==
  \E o \in outcomes :
    \/ o.status # "ok" /\ Abort(o.status)
    \/ /\ o.status = "ok" /\ c' = o.c /\ pc' = next
       /\ UNCHANGED <<ct, testData, k, j, buf, buf2, len, tagLen, rkey, riv, result,
                      allocs, deallocs, faults, extent, dump>>

(* status = srtp_cipher_type_alloc(ct, &c, ...); if (status) return status; *)
AllocStep(v, next) ==
  \E o \in srtp_cipher_type_alloc(ct, allocs + 1, v.keyLen, v.tagLen, buf, len) :
    \/ /\ o.status # "ok" /\ result' = o.status /\ pc' = "done"
       /\ UNCHANGED <<ct, testData, k, j, c, buf, buf2, len, tagLen, rkey, riv,
                      allocs, deallocs, faults, extent, dump>>
    \/ /\ o.status = "ok" /\ c' = o.c /\ pc' = next
       /\ allocs' = allocs + 1 /\ deallocs' = Append(deallocs, 0)
       /\ UNCHANGED <<ct, testData, k, j, buf, buf2, len, tagLen, rkey, riv, result,
                      faults, extent, dump>>

(* A call that transforms buf in place: encrypt, decrypt.                 *)
CryptStep(outcomes, next) ==
  \E o \in outcomes :
    \/ o.status # "ok" /\ Abort(o.status)
    \/ /\ o.status = "ok" /\ pc' = next
       /\ c' = o.c /\ buf' = o.buf /\ len' = o.len
       /\ faults' = faults + (IF o.fault THEN 1 ELSE 0)
       /\ UNCHANGED <<ct, testData, k, j, buf2, tagLen, rkey, riv, result,
                      allocs, deallocs, extent, dump>>

(* srtp_cipher_get_tag(c, buffer + len, &tag_len); len += tag_len;        *)
TagStep(next) ==
  \E o \in srtp_cipher_get_tag(c, buf, tagLen) :
    \/ o.status # "ok" /\ Abort(o.status)
    \/ /\ o.status = "ok" /\ pc' = next
       /\ buf' = o.buf /\ tagLen' = o.len /\ len' = len + o.len
       /\ extent' = len + o.len
       /\ faults' = faults + (IF o.fault THEN 1 ELSE 0)
       /\ UNCHANGED <<ct, testData, k, j, c, buf2, rkey, riv, result,
                      allocs, deallocs, dump>>

(* The instance the test drives, seen through the lifecycle the dispatch *)
(* layer promises: it is live from srtp_cipher_type_alloc until its       *)
(* srtp_cipher_dealloc, and the test owns it.                              *)
LC == INSTANCE CipherLifecycle
        WITH live   <- c.id # 0 /\ deallocs[c.id] = 0,
             owned  <- c.id # 0,
             key    <- IF c.id = 0 THEN NoKey ELSE c.key,
             iv     <- IF c.id = 0 THEN NoIv ELSE c.iv,
             dir    <- IF c.id = 0 THEN "none" ELSE c.dir,
             aad    <- IF c.id = 0 THEN NoAad ELSE c.aad,
             sealed <- IF c.id = 0 THEN 0 ELSE c.seals

(* srtp_cipher_type_test drives each instance in the order the contract   *)
(* allows on every path, error paths included: keyed before its IV is set, *)
(* AAD and encryption only after an IV set for encryption, no call after  *)
(* srtp_cipher_dealloc, one AEAD encryption per IV, and every instance it *)
(* allocates eventually deallocated.                                       *)
LifecycleSpec == LC!Spec

(* The debug dump after a failed comparison: 2 * plaintext_length octets  *)
(* of buffer and of the expected value, when debugging is on.             *)
DumpOnFailure(expected, expectedSize) ==
  dump' = IF Debug
          THEN [buffer |-> 2 * V.ptLen, expected |-> 2 * V.ptLen,
                expectedSize |-> expectedSize]
          ELSE dump

-----------------------------------------------------------------------------
(* Known-answer tests.                                                     *)

SelfTestStart ==
  /\ pc = "start"
  /\ \/ testData = <<>> /\ result' = "cant_check" /\ pc' = "done" /\ k' = k
     \/ testData # <<>> /\ pc' = "alloc" /\ k' = 1 /\ result' = result
  /\ UNCHANGED <<ct, testData, j, c, buf, buf2, len, tagLen, rkey, riv,
                 allocs, deallocs, faults, extent, dump>>

KatAlloc == pc = "alloc" /\ AllocStep(V, "init_enc")

KatInitEnc == pc = "init_enc" /\ CallStep(srtp_cipher_init(c, V.key, buf, len), "copy_pt")

(* Mutant: the capacity error returns without srtp_cipher_dealloc.        *)
KatCopyPlaintextNoDealloc ==
  /\ pc = "copy_pt"
  /\ \/ /\ V.ctLen > SELF_TEST_BUF_OCTETS /\ result' = "bad_param" /\ pc' = "done"
        /\ UNCHANGED <<ct, testData, k, j, c, buf, buf2, len, tagLen, rkey, riv,
                       allocs, deallocs, faults, extent, dump>>
     \/ /\ V.ctLen <= SELF_TEST_BUF_OCTETS
        /\ buf' = [body |-> V.pt, blen |-> V.ptLen, tag |-> NoTag]
        /\ extent' = V.ptLen /\ pc' = "iv_enc"
        /\ UNCHANGED <<ct, testData, k, j, c, buf2, len, tagLen, rkey, riv, result,
                       allocs, deallocs, faults, dump>>

KatCopyPlaintext ==
  /\ pc = "copy_pt"
  /\ \/ V.ctLen > SELF_TEST_BUF_OCTETS /\ Abort("bad_param")
     \/ /\ V.ctLen <= SELF_TEST_BUF_OCTETS
        /\ buf' = [body |-> V.pt, blen |-> V.ptLen, tag |-> NoTag]
        /\ extent' = V.ptLen /\ pc' = "iv_enc"
        /\ UNCHANGED <<ct, testData, k, j, c, buf2, len, tagLen, rkey, riv, result,
                       allocs, deallocs, faults, dump>>

(* Mutant: the encryption half sets the IV for decryption (the line      *)
(* copied from the decryption half).                                       *)
KatSetIvEncWrongDir ==
  /\ pc = "iv_enc"
  /\ CallStep(srtp_cipher_set_iv(c, V.iv, "decrypt", buf, len),
              IF IsGcm(c) THEN "aad_enc" ELSE "encrypt")

KatSetIvEnc ==
  /\ pc = "iv_enc"
  /\ CallStep(srtp_cipher_set_iv(c, V.iv, "encrypt", buf, len),
              IF IsGcm(c) THEN "aad_enc" ELSE "encrypt")

(* Mutant: the encryption after srtp_cipher_set_aad is skipped.           *)
KatSetAadEncSkipsEncrypt ==
  pc = "aad_enc" /\ CallStep(srtp_cipher_set_aad(c, V.aad, buf, len), "tag")

KatSetAadEnc == pc = "aad_enc" /\ CallStep(srtp_cipher_set_aad(c, V.aad, buf, len), "encrypt")

KatEncrypt ==
  /\ pc = "encrypt"
  /\ CryptStep(srtp_cipher_encrypt(c, buf, V.ptLen, SELF_TEST_BUF_OCTETS),
               IF IsGcm(c) THEN "tag" ELSE "cmp_enc")

KatGetTag == pc = "tag" /\ TagStep("cmp_enc")

(* Mutant: a byte mismatch deallocates but does not return.              *)
KatCompareEncNoReturn ==
  /\ pc = "cmp_enc"
  /\ \/ len # V.ctLen /\ Abort("algo_fail")
     \/ /\ len = V.ctLen /\ (buf.body # V.ct \/ buf.tag # V.tag)
        /\ deallocs' = [deallocs EXCEPT ![c.id] = @ + 1] /\ pc' = "init_dec"
        /\ UNCHANGED <<ct, testData, k, j, c, buf, buf2, len, tagLen, rkey, riv, result,
                       allocs, faults, extent, dump>>
     \/ /\ len = V.ctLen /\ buf.body = V.ct /\ buf.tag = V.tag
        /\ pc' = "init_dec"
        /\ UNCHANGED <<ct, testData, k, j, c, buf, buf2, len, tagLen, rkey, riv, result,
                       allocs, deallocs, faults, extent, dump>>

(* Mutant: only the ciphertext length is compared, not its octets.        *)
KatCompareEncLengthOnly ==
  /\ pc = "cmp_enc"
  /\ \/ len # V.ctLen /\ Abort("algo_fail")
     \/ /\ len = V.ctLen /\ pc' = "init_dec"
        /\ UNCHANGED <<ct, testData, k, j, c, buf, buf2, len, tagLen, rkey, riv, result,
                       allocs, deallocs, faults, extent, dump>>

KatCompareEnc ==
  /\ pc = "cmp_enc"
  /\ \/ len # V.ctLen /\ Abort("algo_fail")
     \/ /\ len = V.ctLen /\ (buf.body # V.ct \/ buf.tag # V.tag)
        /\ deallocs' = [deallocs EXCEPT ![c.id] = @ + 1]
        /\ result' = "algo_fail" /\ pc' = "done"
        /\ DumpOnFailure(V.ct, V.ctLen)
        /\ UNCHANGED <<ct, testData, k, j, c, buf, buf2, len, tagLen, rkey, riv,
                       allocs, faults, extent>>
     \/ /\ len = V.ctLen /\ buf.body = V.ct /\ buf.tag = V.tag
        /\ pc' = "init_dec"
        /\ UNCHANGED <<ct, testData, k, j, c, buf, buf2, len, tagLen, rkey, riv, result,
                       allocs, deallocs, faults, extent, dump>>

KatInitDec == pc = "init_dec" /\ CallStep(srtp_cipher_init(c, V.key, buf, len), "copy_ct")

KatCopyCiphertext ==
  /\ pc = "copy_ct"
  /\ IF V.ctLen > SELF_TEST_BUF_OCTETS
     THEN Abort("bad_param")   \* unreachable: line 261 checked the same value
     ELSE /\ buf' = [body |-> V.ct, blen |-> V.ctLen - V.tagLen, tag |-> V.tag]
          /\ extent' = V.ctLen /\ pc' = "iv_dec"
          /\ UNCHANGED <<ct, testData, k, j, c, buf2, len, tagLen, rkey, riv, result,
                         allocs, deallocs, faults, dump>>

KatSetIvDec ==
  /\ pc = "iv_dec"
  /\ CallStep(srtp_cipher_set_iv(c, V.iv, "decrypt", buf, len),
              IF IsGcm(c) THEN "aad_dec" ELSE "decrypt")

KatSetAadDec == pc = "aad_dec" /\ CallStep(srtp_cipher_set_aad(c, V.aad, buf, len), "decrypt")

KatDecrypt ==
  /\ pc = "decrypt"
  /\ CryptStep(srtp_cipher_decrypt(c, buf, V.ctLen, SELF_TEST_BUF_OCTETS), "cmp_dec")

KatCompareDec ==
  /\ pc = "cmp_dec"
  /\ \/ len # V.ptLen /\ Abort("algo_fail")
     \/ /\ len = V.ptLen /\ buf.body # V.pt
        /\ deallocs' = [deallocs EXCEPT ![c.id] = @ + 1]
        /\ result' = "algo_fail" /\ pc' = "done"
        /\ DumpOnFailure(V.pt, V.ptLen)
        /\ UNCHANGED <<ct, testData, k, j, c, buf, buf2, len, tagLen, rkey, riv,
                       allocs, faults, extent>>
     \/ /\ len = V.ptLen /\ buf.body = V.pt /\ pc' = "dealloc"
        /\ UNCHANGED <<ct, testData, k, j, c, buf, buf2, len, tagLen, rkey, riv, result,
                       allocs, deallocs, faults, extent, dump>>

(* Deallocate, then test_case = test_case->next_test_case.                 *)
KatDealloc ==
  /\ pc = "dealloc"
  /\ \E o \in srtp_cipher_dealloc(c, buf, len) :
       /\ deallocs' = [deallocs EXCEPT ![c.id] = @ + 1]
       /\ \/ o.status # "ok" /\ result' = o.status /\ pc' = "done" /\ k' = k
          \/ /\ o.status = "ok" /\ result' = result /\ k' = k + 1
             /\ pc' = IF k = Len(testData) THEN "r_alloc" ELSE "alloc"
  /\ UNCHANGED <<ct, testData, j, c, buf, buf2, len, tagLen, rkey, riv,
                 allocs, faults, extent, dump>>
-----------------------------------------------------------------------------
(* Random invertibility tests, on one instance allocated with the         *)
(* parameters of the first test case.                                     *)

RandAlloc == pc = "r_alloc" /\ j = 0 /\ AllocStep(R, "r_fill")

(* Random length and plaintext, the copy into buffer2, then the key-length *)
(* check and the random key and IV.                                        *)
(* Mutant: the random length is drawn over the whole buffer, leaving no   *)
(* room for the tag.                                                       *)
RandFillFullRange ==
  /\ pc = "r_fill"
  /\ \E rv \in [1..4 -> RandValues], p \in RandPlain :
       LET plaintext_len == srtp_cipher_rand_u32_for_tests(rv, ByteOrder, SELF_TEST_BUF_OCTETS)
           b == [body |-> p, blen |-> plaintext_len, tag |-> NoTag]
       IN /\ buf' = b /\ buf2' = b /\ extent' = plaintext_len
          /\ R.keyLen <= MAX_KEY_LEN
          /\ rkey' \in RandKeys /\ riv' \in RandIvs
          /\ pc' = "r_init_enc"
          /\ UNCHANGED <<deallocs, result>>
  /\ UNCHANGED <<ct, testData, k, j, c, len, tagLen, allocs, faults, dump>>

RandFill ==
  /\ pc = "r_fill"
  /\ \E rv \in [1..4 -> RandValues], p \in RandPlain :
       LET plaintext_len == srtp_cipher_rand_u32_for_tests(rv, ByteOrder, SELF_TEST_BUF_OCTETS - 64)
           b == [body |-> p, blen |-> plaintext_len, tag |-> NoTag]
       IN /\ buf' = b /\ buf2' = b /\ extent' = plaintext_len
          /\ \/ /\ R.keyLen > MAX_KEY_LEN
                /\ deallocs' = [deallocs EXCEPT ![c.id] = @ + 1]
                /\ result' = "cant_check" /\ pc' = "done"
                /\ UNCHANGED <<rkey, riv>>
             \/ /\ R.keyLen <= MAX_KEY_LEN
                /\ rkey' \in RandKeys /\ riv' \in RandIvs
                /\ pc' = "r_init_enc"
                /\ UNCHANGED <<deallocs, result>>
  /\ UNCHANGED <<ct, testData, k, j, c, len, tagLen, allocs, faults, dump>>

RandInitEnc == pc = "r_init_enc" /\ CallStep(srtp_cipher_init(c, rkey, buf, len), "r_iv_enc")

(* Mutant: the encryption uses the trial's random IV while the decryption *)
(* keeps test_case->idx.                                                    *)
RandSetIvEncRandomIv ==
  /\ pc = "r_iv_enc"
  /\ CallStep(srtp_cipher_set_iv(c, riv, "encrypt", buf, len),
              IF IsGcm(c) THEN "r_aad_enc" ELSE "r_encrypt")

RandSetIvEnc ==
  /\ pc = "r_iv_enc"
  /\ CallStep(srtp_cipher_set_iv(c, R.iv, "encrypt", buf, len),
              IF IsGcm(c) THEN "r_aad_enc" ELSE "r_encrypt")

RandSetAadEnc == pc = "r_aad_enc" /\ CallStep(srtp_cipher_set_aad(c, R.aad, buf, len), "r_encrypt")

RandEncrypt ==
  /\ pc = "r_encrypt"
  /\ CryptStep(srtp_cipher_encrypt(c, buf, buf2.blen, SELF_TEST_BUF_OCTETS),
               IF IsGcm(c) THEN "r_tag" ELSE "r_init_dec")

RandGetTag == pc = "r_tag" /\ TagStep("r_init_dec")

RandInitDec == pc = "r_init_dec" /\ CallStep(srtp_cipher_init(c, rkey, buf, len), "r_iv_dec")

RandSetIvDec ==
  /\ pc = "r_iv_dec"
  /\ CallStep(srtp_cipher_set_iv(c, R.iv, "decrypt", buf, len),
              IF IsGcm(c) THEN "r_aad_dec" ELSE "r_decrypt")

RandSetAadDec == pc = "r_aad_dec" /\ CallStep(srtp_cipher_set_aad(c, R.aad, buf, len), "r_decrypt")

RandDecrypt ==
  /\ pc = "r_decrypt"
  /\ CryptStep(srtp_cipher_decrypt(c, buf, len, SELF_TEST_BUF_OCTETS), "r_cmp")

(* Mutant: the trial counter is not advanced.                             *)
RandCompareNoAdvance ==
  /\ pc = "r_cmp"
  /\ \/ (len # buf2.blen \/ buf.body # buf2.body) /\ Abort("algo_fail")
     \/ /\ len = buf2.blen /\ buf.body = buf2.body
        /\ pc' = IF j + 1 = NumRandTests THEN "r_dealloc" ELSE "r_fill"
        /\ UNCHANGED <<ct, testData, k, j, c, buf, buf2, len, tagLen, rkey, riv, result,
                       allocs, deallocs, faults, extent, dump>>

(* Mutant: the loop test is j <= NUM_RAND_TESTS, one trial too many.     *)
RandCompareOffByOne ==
  /\ pc = "r_cmp"
  /\ \/ (len # buf2.blen \/ buf.body # buf2.body) /\ Abort("algo_fail")
     \/ /\ len = buf2.blen /\ buf.body = buf2.body
        /\ j' = j + 1
        /\ pc' = IF j + 1 > NumRandTests THEN "r_dealloc" ELSE "r_fill"
        /\ UNCHANGED <<ct, testData, k, c, buf, buf2, len, tagLen, rkey, riv, result,
                       allocs, deallocs, faults, extent, dump>>

RandCompare ==
  /\ pc = "r_cmp"
  /\ \/ (len # buf2.blen \/ buf.body # buf2.body) /\ Abort("algo_fail")
     \/ /\ len = buf2.blen /\ buf.body = buf2.body
        /\ j' = j + 1
        /\ pc' = IF j + 1 = NumRandTests THEN "r_dealloc" ELSE "r_fill"
        /\ UNCHANGED <<ct, testData, k, c, buf, buf2, len, tagLen, rkey, riv, result,
                       allocs, deallocs, faults, extent, dump>>

RandDealloc ==
  /\ pc = "r_dealloc"
  /\ \E o \in srtp_cipher_dealloc(c, buf, len) :
       /\ deallocs' = [deallocs EXCEPT ![c.id] = @ + 1]
       /\ result' = o.status /\ pc' = "done"
  /\ UNCHANGED <<ct, testData, k, j, c, buf, buf2, len, tagLen, rkey, riv,
                 allocs, faults, extent, dump>>

-----------------------------------------------------------------------------
Next ==
  \/ SelfTestStart
  \/ KatAlloc \/ KatInitEnc \/ KatCopyPlaintext \/ KatSetIvEnc \/ KatSetAadEnc
  \/ KatEncrypt \/ KatGetTag \/ KatCompareEnc
  \/ KatInitDec \/ KatCopyCiphertext \/ KatSetIvDec \/ KatSetAadDec
  \/ KatDecrypt \/ KatCompareDec \/ KatDealloc
  \/ RandAlloc \/ RandFill \/ RandInitEnc \/ RandSetIvEnc \/ RandSetAadEnc
  \/ RandEncrypt \/ RandGetTag \/ RandInitDec \/ RandSetIvDec \/ RandSetAadDec
  \/ RandDecrypt \/ RandCompare \/ RandDealloc

(* The function is a plain sequential loop: once called, it keeps running. *)
Spec == Init /\ [][Next]_vars /\ WF_vars(Next)

-----------------------------------------------------------------------------
(* Properties.                                                             *)

Statuses == {"none", "ok", "bad_param", "no_such_op", "cant_check", "algo_fail",
             "auth_fail", "fail"}

TypeOK ==
  /\ pc \in {"start", "alloc", "init_enc", "copy_pt", "iv_enc", "aad_enc",
             "encrypt", "tag", "cmp_enc", "init_dec", "copy_ct", "iv_dec",
             "aad_dec", "decrypt", "cmp_dec", "dealloc", "r_alloc", "r_fill",
             "r_init_enc", "r_iv_enc", "r_aad_enc", "r_encrypt", "r_tag",
             "r_init_dec", "r_iv_dec", "r_aad_dec", "r_decrypt", "r_cmp",
             "r_dealloc", "done"}
  /\ result \in Statuses
  /\ k \in 0..Len(testData) + 1 /\ j \in 0..NumRandTests
  /\ allocs \in Nat /\ deallocs \in Seq(Nat) /\ Len(deallocs) = allocs
  /\ faults \in Nat /\ len \in Int /\ tagLen \in Nat

(* Every srtp_cipher_* call of the test is made on the live instance: one *)
(* that was allocated and has not been passed to srtp_cipher_dealloc, and *)
(* no instance is passed to srtp_cipher_dealloc twice, whichever of the   *)
(* error paths of srtp_cipher_type_test was taken.                        *)
InstanceDiscipline ==
  /\ \A i \in 1..allocs : deallocs[i] <= 1
  /\ pc \notin {"start", "alloc", "r_alloc", "done"} =>
        c.id \in 1..allocs /\ deallocs[c.id] = 0

(* When srtp_cipher_type_test returns, every instance it allocated has    *)
(* been deallocated: no path through the known-answer loop or the random  *)
(* tests leaks one.                                                        *)
NoLeak == pc = "done" => \A i \in 1..allocs : deallocs[i] = 1

(* As long as the cipher has given no wrong output, no copy into buffer  *)
(* and no tag appended at buffer + len writes past its                     *)
(* SELF_TEST_BUF_OCTETS octets: the capacity check of the known-answer    *)
(* loop and the headroom of the random length keep the test's own writes  *)
(* in bounds.                                                              *)
BufferBound == faults = 0 => extent <= SELF_TEST_BUF_OCTETS

(* No tag is appended past the end of buffer, whatever length the cipher  *)
(* reports: the engine refuses rather than overflows, as the spec         *)
(* requires of a fixed-capacity scratch buffer.                            *)
TagInBuffer == extent <= SELF_TEST_BUF_OCTETS

(* The self-test passes only if the cipher never produced a wrong         *)
(* ciphertext, tag, plaintext or length: every output it gives is         *)
(* compared against the test case or the original plaintext.               *)
Soundness == pc = "done" /\ result = "ok" => faults = 0

(* A cipher that never misbehaves is never reported as algo_fail: the     *)
(* random round trip decrypts under the same key and IV it encrypted      *)
(* under, and the known-answer comparisons match a correct cipher.         *)
NoFalseAlarm == result = "algo_fail" => faults > 0

(* srtp_cipher_get_tag is called only right after the encryption of the  *)
(* current message: on an instance set for encryption that has sealed     *)
(* exactly one message since its last srtp_cipher_set_iv, so the tag       *)
(* appended to the buffer is the one of the message being checked.        *)
TagFollowsEncryption == pc \in {"tag", "r_tag"} => c.dir = "encrypt" /\ c.seals = 1

(* Test data the test's stack buffers can hold.                            *)
DataFits ==
  /\ Len(testData) > 0
  /\ \A n \in 1..Len(testData) :
       testData[n].ctLen <= SELF_TEST_BUF_OCTETS /\ testData[n].keyLen <= MAX_KEY_LEN

(* A cipher whose calls never fail and never give wrong output passes the *)
(* self-test on test data that fits its buffers, whatever the             *)
(* uninitialised tag_len it passes to srtp_cipher_get_tag happens to hold. *)
CorrectCipherPasses == pc = "done" /\ ~Faulty /\ ~Flaky /\ DataFits => result = "ok"

(* srtp_cipher_type_test always returns.                                   *)
Termination == <>(pc = "done")

(* The debug dump after a failed comparison reads no more octets of the   *)
(* expected value than the test case holds.                               *)
DumpInBounds == dump.expected <= dump.expectedSize
=============================================================================
