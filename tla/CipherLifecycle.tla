--------------------------- MODULE CipherLifecycle ---------------------------
(***************************************************************************)
(* The lifecycle a cipher instance promises its client, as the contract   *)
(* of the dispatch layer states it: an instance is created by one         *)
(* allocation, keyed by initialisation (which may be repeated and resets  *)
(* the keystream and authentication state), given an IV and a direction,  *)
(* optionally given associated data, used to encrypt, and destroyed by    *)
(* exactly one deallocation by its owner.  An AEAD encryption seals the   *)
(* message: a second encryption needs a fresh IV.                          *)
(*                                                                         *)
(* Only what a client's calls change is visible here: `live` (allocated   *)
(* and not yet deallocated), `owned` (allocated by this client, who must  *)
(* free it), the key, the IV and direction, the AAD, and `sealed`, the    *)
(* number of AEAD encryptions made under the current IV.                  *)
(* Decryption and tag retrieval change none of these.                      *)
(***************************************************************************)
CONSTANTS NoKey, NoIv, NoAad

VARIABLES live, owned, key, iv, dir, aad, sealed

lcVars == <<live, owned, key, iv, dir, aad, sealed>>

(* A client either starts with no instance, or is handed one that its    *)
(* caller allocated and keyed (the benchmark's precondition).             *)
Init ==
  /\ iv = NoIv /\ dir = "none" /\ aad = NoAad /\ sealed = 0
  /\ \/ ~live /\ ~owned /\ key = NoKey
     \/ live /\ ~owned /\ key # NoKey

Allocate ==
  /\ ~live
  /\ live' /\ owned'
  /\ key' = NoKey /\ iv' = NoIv /\ dir' = "none" /\ aad' = NoAad /\ sealed' = 0

(* (Re)initialisation with a key; the previous IV and tag are gone.        *)
Initialize ==
  /\ live
  /\ key' # NoKey /\ iv' = NoIv /\ sealed' = 0
  /\ UNCHANGED <<live, owned, dir, aad>>

(* An IV and a direction start a new message, on a keyed instance.        *)
SetIv ==
  /\ live /\ key # NoKey
  /\ iv' # NoIv /\ dir' \in {"encrypt", "decrypt"} /\ aad' = NoAad /\ sealed' = 0
  /\ UNCHANGED <<live, owned, key>>

(* Associated data belongs to the current message, before its encryption. *)
SetAad ==
  /\ live /\ iv # NoIv /\ sealed = 0
  /\ UNCHANGED <<live, owned, key, iv, dir, sealed>>

(* An AEAD encryption, under an IV set for encryption, seals the message. *)
Encrypt ==
  /\ live /\ iv # NoIv /\ dir = "encrypt" /\ sealed = 0
  /\ sealed' = 1
  /\ UNCHANGED <<live, owned, key, iv, dir, aad>>

Free ==
  /\ live /\ owned
  /\ ~live'
  /\ UNCHANGED <<owned, key, iv, dir, aad, sealed>>

Next == Allocate \/ Initialize \/ SetIv \/ SetAad \/ Encrypt \/ Free

(* The owner of a live instance eventually frees it.                       *)
Released == (live /\ owned) ~> ~live

Spec == Init /\ [][Next]_lcVars /\ Released
==============================================================================
