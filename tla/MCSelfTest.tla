----------------------------- MODULE MCSelfTest -----------------------------
(***************************************************************************)
(* Model-checking instance of SelfTest: an AES-GCM-128 type and an        *)
(* AES-ICM type, each with test_data lists covering the cases of the      *)
(* known-answer loop, and two random round trips.                         *)
(***************************************************************************)
EXTENDS SelfTest, TLC

CONSTANTS
  SRTP_AES_GCM_128, SRTP_AES_GCM_256, SRTP_AES_ICM_128, \* algorithm ids
  OTHER_AEAD_ID,        \* the id of an AEAD type that is not AES-GCM
  K1, IV1, A1, P1, P2, RP, RK, RIV                     \* data model values

GcmType == CipherType(SRTP_AES_GCM_128, TRUE, TRUE, TRUE, TRUE)
IcmType == CipherType(SRTP_AES_ICM_128, TRUE, FALSE, FALSE, FALSE)

(* A well-formed test case: expected ciphertext and tag computed from the *)
(* key, IV, AAD and plaintext, ciphertext_length = plaintext + tag.       *)
GcmCase(p, ptLen) ==
  [key |-> K1, keyLen |-> 16, iv |-> IV1, aad |-> A1, pt |-> p, ptLen |-> ptLen,
   ct |-> <<K1, IV1, p>>, tag |-> Tag(K1, IV1, A1, p), ctLen |-> ptLen + 16,
   tagLen |-> 16]
IcmCase(p, ptLen, keyLen) ==
  [key |-> K1, keyLen |-> keyLen, iv |-> IV1, aad |-> NoAad, pt |-> p,
   ptLen |-> ptLen, ct |-> <<K1, IV1, p>>, tag |-> NoTag, ctLen |-> ptLen,
   tagLen |-> 0]

MCGcmAlgorithms == {SRTP_AES_GCM_128, SRTP_AES_GCM_256}
MCPlain == {P1, P2, RP}
MCRandValues == {63, 64, 32767}

(* The AES-GCM type carries its own test_data and is tested through      *)
(* srtp_cipher_type_self_test; the others are passed their lists.         *)
MCSelfTestTypes == {GcmType @@ [test_data |-> <<GcmCase(P1, 0), GcmCase(P2, 60)>>]}

MCSuites ==
  { [type |-> IcmType, data |-> <<IcmCase(P1, 32, 30)>>],
    [type |-> IcmType, data |-> <<IcmCase(P1, 32, 30), IcmCase(P2, 200, 30)>>],
    [type |-> IcmType, data |-> <<IcmCase(P1, 32, 80)>>],
    [type |-> IcmType, data |-> <<>>] }

(* A conforming AEAD type (set_aad, get_tag, tagged output) registered    *)
(* under an id other than the two AES-GCM ids, with a correct test case.  *)
OtherAeadType == CipherType(OTHER_AEAD_ID, TRUE, TRUE, TRUE, TRUE)
MCSuitesOtherAead == { [type |-> OtherAeadType, data |-> <<GcmCase(P2, 60)>>] }
=============================================================================
