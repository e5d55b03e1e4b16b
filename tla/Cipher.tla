------------------------------- MODULE Cipher -------------------------------
(***************************************************************************)
(* The dispatch layer of crypto/cipher/cipher.c (srtp_cipher_type_alloc,  *)
(* srtp_cipher_dealloc, srtp_cipher_init, srtp_cipher_set_iv,             *)
(* srtp_cipher_encrypt, srtp_cipher_decrypt, srtp_cipher_get_tag,         *)
(* srtp_cipher_set_aad) and an abstract concrete cipher behind its        *)
(* function table.                                                         *)
(*                                                                         *)
(* The module has no variables: every srtp_cipher_* function is an        *)
(* operator returning the SET of outcomes a call may have.  An outcome is *)
(* a record [status, c, buf, len, fault]: the returned status, the        *)
(* instance after the call, the scratch buffer after the call, the value  *)
(* written through the length out-parameter, and whether the concrete     *)
(* cipher produced wrong output (a history flag used by the properties).  *)
(*                                                                         *)
(* Data is symbolic.  A plaintext is a model value of Plain; the          *)
(* keystream XOR under (key, iv) of a plaintext p is the tuple            *)
(* <<key, iv, p>>, and XOR of that tuple under the same (key, iv) gives p *)
(* back, so encryption and decryption are the same transformation as in  *)
(* a counter-mode cipher.  An AEAD tag is the tuple <<key, iv, aad, p>>.  *)
(* A buffer is [body, blen, tag]: the transformed octets, their number,   *)
(* and the tag appended after them (NoTag when none).                     *)
(***************************************************************************)
EXTENDS Integers

CONSTANTS
  GcmAlgorithms, \* the ids SRTP_AES_GCM_128 and SRTP_AES_GCM_256
  Plain,         \* plaintext values
  Garbage,       \* octets a misbehaving cipher outputs
  Zeros,         \* a buffer of zero octets
  NoKey, NoIv, NoAad, NoTag,
  Faulty,        \* TRUE: the concrete cipher may produce wrong output
  Flaky,         \* TRUE: any call into the function table may fail
  GetTagReadsLen \* TRUE: get_tag reads *tag_len as the room left in buffer

ASSUME Faulty \in BOOLEAN /\ Flaky \in BOOLEAN /\ GetTagReadsLen \in BOOLEAN

(* A cipher type (srtp_cipher_type_t): its algorithm id, which optional   *)
(* function pointers are non-NULL, and whether its output carries a tag.  *)
CipherType(algorithm, alloc, setAad, getTag, aead) ==
  [algorithm |-> algorithm, alloc |-> alloc, setAad |-> setAad,
   getTag |-> getTag, aead |-> aead]

(* Symbolic keystream XOR: encrypting and decrypting are one operation.   *)
Xor(key, iv, x) ==
  CASE x \in Plain                          -> <<key, iv, x>>
    [] x # Garbage /\ x[1] = key /\ x[2] = iv -> x[3]
    [] OTHER                                -> Garbage

Tag(key, iv, aad, p) == <<key, iv, aad, p>>

(* The instance that the type's alloc function creates (srtp_cipher_t):   *)
(* type and state pointers set, key and tag length fixed.                 *)
NewInstance(ct, id, keyLen, tagLen) ==
  [id |-> id, hasType |-> TRUE, hasState |-> TRUE, type |-> ct,
   algorithm |-> ct.algorithm, keyLen |-> keyLen, tagLen |-> tagLen,
   key |-> NoKey, iv |-> NoIv, dir |-> "none", aad |-> NoAad, tag |-> NoTag,
   seals |-> 0]

Outcome(status, c, buf, len, fault) ==
  [status |-> status, c |-> c, buf |-> buf, len |-> len, fault |-> fault]

(* What a call forwarded to the function table may return: the correct   *)
(* outcome, or, when the implementation can fail, an error with nothing   *)
(* changed.                                                                *)
Forward(ok, c, buf, len) ==
  {ok} \cup (IF Flaky THEN {Outcome("fail", c, buf, len, FALSE)} ELSE {})

(* Wrong output a faulty implementation may give instead of `ok`: a      *)
(* length one too long, a *dst_len left at the capacity `cap` the caller  *)
(* passed in, or wrong octets when there are any.                         *)
Misbehave(ok, cap) ==
  IF Faulty
  THEN {[ok EXCEPT !.len = @ + 1, !.fault = TRUE],
        [ok EXCEPT !.len = cap, !.fault = TRUE]}
         \cup (IF ok.buf.blen > 0
                THEN {[ok EXCEPT !.buf.body = Garbage, !.fault = TRUE]}
                ELSE {})
  ELSE {}

(* The checks that open every forwarding function.                        *)
Valid(c) == c.id # 0 /\ c.hasType /\ c.hasState

BadParam(c, buf, len) == {Outcome("bad_param", c, buf, len, FALSE)}

srtp_cipher_type_alloc(ct, id, keyLen, tagLen, buf, len) ==
  IF ~ct.alloc THEN BadParam([id |-> 0], buf, len)
  ELSE Forward(Outcome("ok", NewInstance(ct, id, keyLen, tagLen), buf, len, FALSE),
               [id |-> 0], buf, len)

srtp_cipher_dealloc(c, buf, len) ==
  IF c.id = 0 \/ ~c.hasType THEN BadParam(c, buf, len)
  ELSE Forward(Outcome("ok", c, buf, len, FALSE), c, buf, len)

(* Keying resets the keystream and authentication state: the IV and the  *)
(* tag of an earlier message are gone.                                     *)
srtp_cipher_init(c, key, buf, len) ==
  IF ~Valid(c) THEN BadParam(c, buf, len)
  ELSE Forward(Outcome("ok", [c EXCEPT !.key = key, !.iv = NoIv, !.tag = NoTag,
                                       !.seals = 0], buf, len, FALSE),
               c, buf, len)

(* Setting the IV also starts a new message: no AAD, no tag yet.          *)
srtp_cipher_set_iv(c, iv, dir, buf, len) ==
  IF ~Valid(c) THEN BadParam(c, buf, len)
  ELSE Forward(Outcome("ok", [c EXCEPT !.iv = iv, !.dir = dir, !.aad = NoAad,
                                       !.tag = NoTag, !.seals = 0], buf, len, FALSE),
               c, buf, len)

srtp_cipher_set_aad(c, aad, buf, len) ==
  CASE ~Valid(c)        -> BadParam(c, buf, len)
    [] ~c.type.setAad   -> {Outcome("no_such_op", c, buf, len, FALSE)}
    [] OTHER            -> Forward(Outcome("ok", [c EXCEPT !.aad = aad], buf, len, FALSE),
                                   c, buf, len)

(* Encrypt srcLen octets of buf in place; an AEAD cipher keeps the tag    *)
(* of the message for get_tag and counts the encryptions of the message   *)
(* (`seals`).  *dst_len becomes srcLen.                                    *)
srtp_cipher_encrypt(c, buf, srcLen, len) ==
  IF ~Valid(c) THEN BadParam(c, buf, len)
  ELSE LET ok == Outcome("ok",
                   IF c.type.aead
                   THEN [c EXCEPT !.tag = Tag(c.key, c.iv, c.aad, buf.body),
                                  !.seals = @ + 1]
                   ELSE c,
                   [body |-> Xor(c.key, c.iv, buf.body), blen |-> srcLen, tag |-> NoTag],
                   srcLen, FALSE)
       IN Forward(ok, c, buf, len) \cup Misbehave(ok, len)

(* Decrypt srcLen octets of buf in place.  An AEAD cipher takes the last  *)
(* tagLen of them as the tag, checks it, and outputs the rest.            *)
srtp_cipher_decrypt(c, buf, srcLen, len) ==
  IF ~Valid(c) THEN BadParam(c, buf, len)
  ELSE IF ~c.type.aead
  THEN LET ok == Outcome("ok", c,
                   [body |-> Xor(c.key, c.iv, buf.body), blen |-> srcLen, tag |-> NoTag],
                   srcLen, FALSE)
       IN Forward(ok, c, buf, len) \cup Misbehave(ok, len)
  ELSE LET p     == Xor(c.key, c.iv, buf.body)
           valid == /\ srcLen = buf.blen + c.tagLen
                    /\ buf.tag = Tag(c.key, c.iv, c.aad, p)
           ok    == Outcome("ok", c, [body |-> p, blen |-> srcLen - c.tagLen, tag |-> NoTag],
                            srcLen - c.tagLen, FALSE)
       IN IF valid THEN Forward(ok, c, buf, len) \cup Misbehave(ok, len)
          ELSE {Outcome("auth_fail", c, buf, len, FALSE)}

(* Write the tag of the last encryption after buf's body; the length     *)
(* parameter receives the tag length.  The contract leaves open whether   *)
(* the concrete cipher also reads it first, as the room after the body    *)
(* (the benchmark passes SRTP_MAX_TAG_LEN there); a cipher that does      *)
(* refuses a smaller room with bad_param.                                  *)
srtp_cipher_get_tag(c, buf, len) ==
  CASE ~Valid(c)        -> BadParam(c, buf, len)
    [] ~c.type.getTag   -> {Outcome("no_such_op", c, buf, len, FALSE)}
    [] GetTagReadsLen /\ len < c.tagLen -> {Outcome("bad_param", c, buf, len, FALSE)}
    [] OTHER            ->
         LET ok == Outcome("ok", c, [buf EXCEPT !.tag = c.tag], c.tagLen, FALSE)
         IN Forward(ok, c, buf, len)
              \cup (IF Faulty THEN {[ok EXCEPT !.buf.tag = Garbage, !.fault = TRUE]}
                              ELSE {})

(* Zero *num_octets_to_output octets of buffer and encrypt them in place  *)
(* through the function table, giving keystream.  Nothing is checked: a   *)
(* NULL instance, type or state is dereferenced, which the build turns    *)
(* into a crash ("crash").                                                 *)
srtp_cipher_output(c, buf, len) ==
  IF ~Valid(c) THEN {Outcome("crash", c, buf, len, FALSE)}
  ELSE srtp_cipher_encrypt(c, [body |-> Zeros, blen |-> len, tag |-> NoTag], len, len)

(* c->key_len, read without a NULL check.                                   *)
srtp_cipher_get_key_length(c) ==
  IF c.id = 0 THEN {Outcome("crash", c, NoTag, 0, FALSE)}
  ELSE {Outcome("ok", c, NoTag, c.keyLen, FALSE)}

IsGcm(c) == c.algorithm \in GcmAlgorithms
=============================================================================
