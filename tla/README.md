# TLA+ models of libsrtp's cipher dispatch, self-test and benchmark

This directory holds TLA+ models of `src/libsrtp/crypto/cipher/cipher.c`, with the
TLC configurations that check them. Every action and operator is translated from
that file. `PROJECT.json` gives the source lines of each definition under `map`.

## 1. Inventory of the system

`cipher.c` is the generic layer above libsrtp's concrete ciphers (AES-ICM,
AES-GCM, NULL). The concrete ciphers are not in this repository's `src/`. The
file has five parts.

| Part | Lines | State | Operations |
|---|---|---|---|
| Dispatch layer | 64-173 | an `srtp_cipher_t`: type pointer, state pointer, key length, algorithm id; plus what the concrete cipher keeps (key, IV, direction, AAD, tag) | `srtp_cipher_type_alloc`, `_dealloc`, `_init`, `_set_iv`, `_output`, `_encrypt`, `_decrypt`, `_get_tag`, `_set_aad`, `_get_key_length` |
| Test-only random source | 179-202 | none (it calls `rand()`) | `srtp_cipher_rand_for_tests`, `srtp_cipher_rand_u32_for_tests` |
| Self-test engine | 212-615 | the test-case pointer, the instance, a 128-octet `buffer`, a second `buffer2`, `key[MAX_KEY_LEN]`, `iv`, `len`, `tag_len`, the random-trial counter | `srtp_cipher_type_test`: a known-answer loop over the type's test cases, then `NUM_RAND_TESTS` random round trips |
| Self-test entry point | 621-624 | none | `srtp_cipher_type_self_test(ct)` = `srtp_cipher_type_test(ct, ct->test_data)` |
| Benchmark | 636-697 | `enc_buf` of `octets_in_buffer + SRTP_MAX_TAG_LEN`, the nonce, `len`, `tag_len`, the clock | `srtp_cipher_bits_per_second` |

How the parts interact:
- The self-test and the benchmark are the only clients of the dispatch layer in this file.
- Every dispatch function checks its arguments (NULL instance, type or state) and returns `srtp_err_status_bad_param`, or `no_such_op` for the optional `set_aad` and `get_tag`. Otherwise it forwards the call through the type's function table.
- The concrete cipher behind the table may fail, or, if it is broken, give wrong output. Catching a broken cipher is the purpose of the self-test.

What makes this code hard to test:
- **Error paths.** About twenty calls in `srtp_cipher_type_test` can fail. Each failure must free the instance exactly once and return.
- **Buffer bounds.** The code writes into fixed stack buffers at lengths it takes from test cases, from `rand()`, and from the cipher's own out-parameters.
- **Tags.** The AEAD tag is appended after the body.
- **IVs in the random trials.** A random trial must use the same IV for encryption and decryption.
- **Benchmark loop.** The loop reuses `len` as an in/out parameter, builds the nonce in a comma expression, and divides `uint64_t` arithmetic by a signed `clock_t`.

## 2. Plan of modules

| Module | Models | Kind |
|---|---|---|
| `Cipher` | the dispatch layer and an abstract concrete cipher | operators only: each `srtp_cipher_*` returns the set of outcomes a call may have |
| `SelfTest` | `srtp_cipher_type_test` | state machine with one action per call site, each with its error return |
| `MCSelfTest` | model values and test suites for `SelfTest` | MC module |
| `Benchmark` | `srtp_cipher_bits_per_second` | state machine |
| `MCBenchmark` | model values and types for `Benchmark` | MC module |
| `CipherLifecycle` | the lifecycle the contract promises for one instance (spec.md §3, §6) | abstract specification; `SelfTest` and `Benchmark` instantiate it with a refinement mapping |
| `TestRand` | the test-only random source, lines 179-202 | operators only |

`SelfTest` and `Benchmark` both EXTEND `Cipher`, so one model of the dispatch
layer serves both clients.

Planned for later sittings:
- Making `get_tag` visible to the lifecycle itself. Today `SelfTest` checks "a tag only right after an encryption" as its own invariant, `TagFollowsEncryption`, and the abstract state sees neither tag retrieval nor decryption.

## 3. The modules and their correspondence with the code

### Cipher

- **Instance.** An instance is a record. It holds the `srtp_cipher_t` fields (`type`, `state` present, `algorithm`, `key_len`) and the concrete cipher's state (key, IV, direction, AAD, tag). `id = 0` stands for a NULL pointer.
- **Data.** Data is symbolic.
  - A plaintext is a model value.
  - Keystream XOR under (key, iv) maps `p` to `<<key, iv, p>>`. Applied again under the same key and IV, it gives `p` back.
  - Any other input gives `Garbage`. Under the wrong IV, the round trip therefore does not give the plaintext back.
  - An AEAD tag is `<<key, iv, aad, p>>`.
- **Outcomes.** Each dispatch operator first applies the code's argument checks (`Valid`, `BadParam`, and the `no_such_op` branches). It then returns one of these:
  - the correct outcome;
  - when `Flaky` is TRUE, a failure with nothing changed;
  - when `Faulty` is TRUE, a length one too long, a `*dst_len` left at the capacity the caller passed in, wrong octets or a wrong tag. Each is marked `fault` so that the properties can tell.
- **Tag length argument.** The contract writes `get_tag(instance, buffer, &mut tag_len)` and does not say whether the cipher reads `*tag_len` before writing it. With the constant `GetTagReadsLen` TRUE, the cipher reads it as the room left for the tag and refuses a smaller room with `bad_param`. The benchmark passes `SRTP_MAX_TAG_LEN` there, as if it were this room. The self-test passes a `tag_len` that it never initialised (line 221), so `SelfTest` starts with `tagLen` chosen from `UninitSizes`: the undefined read may return any of these values.
- **Decryption.** Decryption by an AEAD type checks that the source length is body plus tag length and that the tag matches. Otherwise it returns `auth_fail`.
- **Source.** The concrete cipher behaviour (`CipherType`, `Xor`, `Tag`, `NewInstance`, `Forward`, `Misbehave`) is not in `src/`. It is modelled from the spec and marked `spec_modelled` in the map.

`srtp_cipher_output` and `srtp_cipher_get_key_length` are not called anywhere in `cipher.c`, and no run drives them. `srtp_cipher_output` zeroes the buffer (`Zeros`) and encrypts it. `srtp_cipher_get_key_length` reads `c->key_len`. Neither function checks its instance: on a NULL or incomplete instance they return the outcome `"crash"`, which stands for the NULL dereference the build turns into a fault. Initialisation resets the IV and tag, as the contract says re-keying resets the keystream and authentication state. An AEAD encryption counts the messages sealed under the current IV (`seals`).

### SelfTest

`pc` names the next call site. The variables hold:
- the code's locals: `testData`, the index `k`, the random-trial counter `j`, `c`, `buffer`, `buffer2`, `len`, `tag_len`, the random key and IV, and `result`;
- history variables for the properties:
  - `allocs` and `deallocs`: how often each instance was allocated and freed;
  - `faults`: how often the cipher misbehaved;
  - `extent`: the end of the latest write into `buffer`;
  - `dump`: the octets the debug dump reads, and the size of the array it reads.

Each action is one call together with its `if (status) { dealloc; return status; }`. The helpers `CallStep`, `CryptStep` and `TagStep` hold that shared pattern. The actions, in code order, are:
- `Kat*`: the known-answer loop, lines 225-451;
- `Rand*`: the random trials, lines 453-615.

`RandFill` draws four `rand()` results from `RandValues` and passes them through `srtp_cipher_rand_u32_for_tests` of `TestRand` in the build's `ByteOrder`, modulo `SELF_TEST_BUF_OCTETS - 64`. It then checks the key length against `MAX_KEY_LEN`. The random plaintext, key and IV stay symbolic model values.

`Init` starts at either entry point. One is a direct `srtp_cipher_type_test(ct, test_data)` with a pair from `Suites`. The other is `srtp_cipher_type_self_test(t)` for a type in `SelfTestTypes`, which runs the test on the type's own `test_data` (lines 621-624).

### TestRand

These are operators only:
- `srtp_cipher_rand_for_tests(vals)` maps the successive `rand()` results to their low octets, as `rand() & 0xff` does.
- `srtp_cipher_rand_u32_for_tests(vals, order, m)` reads four such octets as the `uint32_t` they fill in memory.

The code fills the octets through `(uint8_t *)&r`, so the value depends on the byte order. Its only caller reduces the value modulo 64, so the operator returns the value modulo `m`. It folds over the octets most significant first, taking the remainder at each step, and so never leaves TLC's 32-bit integers.

Modulo 64, any octet order yields a length in range. No property therefore depends on the byte order; the operator keeps it because the code's value does.

### CipherLifecycle (abstract)

The abstract state of one instance is:
- `live`;
- `owned` (the client allocated it and must free it);
- the key, the IV, the direction and the AAD;
- `sealed`: the number of AEAD encryptions under the current IV.

The actions are `Allocate`, `Initialize`, `SetIv`, `SetAad`, `Encrypt` and `Free`. `Released` (a live owned instance is eventually freed) is part of the specification. Decryption and `get_tag` are stuttering steps.

`SelfTest` maps it as follows:
- `live` means the current `c` is allocated and its `deallocs` count is 0;
- `owned` means `c` is not NULL;
- the other fields are the fields of `c`.

`Benchmark` maps it to the caller's instance, which is live throughout and not owned. The check is `LifecycleSpec == LC!Spec` as a PROPERTY.

### Benchmark

The variables are:
- the instance and the buffer;
- `octets`, `trials`, `i`, `nonce` (the truncated word), `len` and `tag_len`;
- the elapsed clock and `result`;
- history variables: the nonces `used`, a `reused` flag, the `errors` seen, and the number of `frees`.

The actions are:
- `BenchAlloc`: the allocation, which may fail, so that `result` is 0;
- `BenchLoopExit`, when `LoopContinues` (the test `i < num_trials`) fails;
- `BenchSetIv`, `BenchSetAad`, `BenchEncrypt` and `BenchGetTag`: each with its failure path, which frees `enc_buf` and returns 0;
- `BenchFinish`: computes `Rate`.

`NextTrial` increments `i` and stores `i mod 2^NonceBits` as the nonce word. `Rate` computes the `uint64_t` product modulo `2^U64Bits`, converts the signed elapsed time to unsigned, and divides.

TLC integers are 32-bit, so both widths are scaled down: `NonceBits = 2` and `U64Bits = 20`. The truncation and the conversion behave the same way at any width.

## 4. Runs

| Run | Config | Checks | Result |
|---|---|---|---|
| `selftest` | `MCSelfTest.cfg` | `TypeOK`, `InstanceDiscipline`, `NoLeak`, `BufferBound`, `Soundness`, `NoFalseAlarm`, `TagFollowsEncryption`, `Termination`, `LifecycleSpec` | pass (1136 distinct states) |
| `selftest_debug_dump` | `MCSelfTestDebugDump.cfg` | `DumpInBounds` | violation: the debug dump over-reads (finding) |
| `selftest_tag_overflow` | `MCSelfTestTagOverflow.cfg` | `TagInBuffer` | violation: a cipher that leaves `*dst_len` at the capacity makes the test write its tag past `buffer` (finding) |
| `bench` | `MCBenchmark.cfg` | `TypeOK`, `NonceFresh`, `BufferFreed`, `SentinelSound`, `LifecycleSpec` | pass (214 distinct states) |
| `bench_clock_error` | `MCBenchmarkClockError.cfg` | `RateReported` | violation: a negative clock difference reports 0 |
| `selftest_other_aead` | `MCSelfTestOtherAead.cfg` | `NoFalseAlarm` | violation: a correct AEAD type with a non-GCM id fails its self-test |
| `selftest_tag_len` | `MCSelfTestTagLen.cfg` | `CorrectCipherPasses` | violation: a correct GCM cipher that reads `*tag_len` fails its self-test when the uninitialised value is below its tag length |

What the `selftest` properties say:
- `InstanceDiscipline`: no instance is freed twice, and no call is made on a freed one.
- `NoLeak`: on return, every instance has been freed.
- `TypeOK`: among other things, the trial counter stays within `0..NUM_RAND_TESTS`. An off-by-one `j <= NUM_RAND_TESTS` breaks it.
- `BufferBound`: while the cipher has given no wrong output, no write goes past the 128 octets of `buffer`. The capacity check at line 261 and the 64-octet headroom of the random length at line 472 keep the test's own writes in bounds. A cipher that does misbehave can make the test overflow; that is the run `selftest_tag_overflow`.
- `Soundness`: the self-test returns `ok` only if the cipher never misbehaved.
- `NoFalseAlarm`: `algo_fail` is reported only if the cipher did misbehave.
- `TagFollowsEncryption`: `get_tag` is called only on an instance set for encryption that has encrypted exactly one message since its IV was set. The tag appended is therefore the one of the message under test.
- `Termination`: the self-test returns.
- `LifecycleSpec`: on every path, error paths included, the self-test drives each instance in the order the contract allows. It keys before setting the IV, and sets an IV for encryption before AAD and encryption. It makes no call after dealloc, and it eventually frees each instance it allocated.

What the `bench` properties say:
- `TypeOK`: among other things, the loop index stays within `0..num_trials`. An off-by-one `i <= num_trials` breaks it.
- `NonceFresh`: no nonce repeats under one key. This relies on the order of the comma expression at line 655, where `i++` comes before the store of `nonce.v32[3]`.
- `BufferFreed`: `enc_buf` is freed exactly once on every path.
- `SentinelSound`: a non-zero rate means that every call succeeded.
- `LifecycleSpec`: every trial gives the instance a fresh IV for encryption before its AAD and its encryption, so no two AEAD encryptions share one message state.

Every property of a passing run has a mutant in `PROJECT.json`: a plausible bug in the mapped code that TLC catches with that property.

### Bounds and why they are enough

`MCSelfTest` checks five suites. Together they reach every branch of `srtp_cipher_type_test`:
- a GCM suite with two vectors, one with an empty plaintext and one of 60 octets, so that AAD and tag are exercised;
- a good ICM suite, so that the random trials are reached;
- an ICM suite whose second vector (200 octets) fails the capacity check;
- an ICM suite whose key (80 octets) fails the `MAX_KEY_LEN` check;
- an empty suite.

The remaining bounds:
- `RandValues = {63, 64, 32767}`: their low octets are 63, 64 and 255. Modulo 64 the random length is 63 or 0, both ends of the range at line 472. Modulo 128, the whole buffer, the octet 255 gives 127, the length that leaves no room for the tag.
- `ByteOrder` is "big" in `selftest` and "little" in the violation runs.
- The self-test entry point is taken with the GCM suite, through `SelfTestTypes`.
- `NumRandTests = 2`: the loop is exercised and its counter is checked against the second trial.
- `Flaky` and `Faulty` are both TRUE, so that every error return and every comparison failure happens. `selftest_tag_overflow` keeps `Faulty` and turns `Flaky` off, so that the encryption succeeds with a wrong length.
- `UninitSizes = {0, 16}`: the uninitialised `tag_len` is either below or equal to the GCM tag length. `GetTagReadsLen` is FALSE in `selftest`, which is the spec's out-parameter reading. It is TRUE in `bench`, which shows that the benchmark's `SRTP_MAX_TAG_LEN` is room enough, and in `selftest_tag_len`.

`MCBenchmark` bounds:
- `octets` is 0 or 16, and `trials` is 0, 1 or 4. With 4 trials the 2-bit nonce word is used to its limit without wrapping.
- `elapsed` is 0, 1 or 3.
- GCM and ICM types cover both the gated and the ungated calls.

The nonce word wraps after `2^32` trials. The spec itself defines the nonce as the trial index in its low 32 bits, so the wrap is not checked as a divergence.

### Fairness

Both functions are sequential code with no blocking calls, so every enabled step is eventually taken. The specifications therefore use `WF_vars(Next)`.

Both functions return, so their final state has no successor. This is why the configs say `CHECK_DEADLOCK FALSE`. In `selftest`, `Termination` checks that this state is reached: a random-trial loop that stops advancing `j` breaks it.
`CipherLifecycle` states its liveness as the leads-to `Released` rather than as weak fairness on `Free`. With this refinement mapping TLC cannot evaluate ENABLED of the abstract `Free`, because its primed state is an expression over `c` and `deallocs`.

## 5. Findings

- **Debug dump over-read (code bug, lines 340-346 and 427-433).** After a failed comparison, `debug_print` hex-dumps `2 * plaintext_length_octets` octets of `test_case->ciphertext` or `->plaintext`. These arrays hold only `plaintext_length` octets (plus the tag), so the dump reads past their end.
- **Tag written past the buffer (code bug, lines 300-318 and 526-543).** The self-test sets `len = sizeof(buffer)`, calls `srtp_cipher_encrypt` with `&len`, and appends the tag at `buffer + len` before it compares `len` with the test case. A broken cipher that leaves `*dst_len` at 128 makes the test write octets 128-143 of a 128-octet stack array. The self-test exists to catch broken ciphers, and the spec says the engines must refuse rather than overflow a fixed-capacity scratch buffer.
- **AEAD decided by algorithm id (line 280).** The self-test sets AAD and appends the tag only for the two AES-GCM ids. A correct AEAD type under another id is reported as `algo_fail`. Every AEAD type libsrtp ships uses a GCM id, so this affects only registered custom types.
- **Uninitialised tag length (lines 221 and 313; spec gap).** The self-test passes the address of the uninitialised `tag_len` to `srtp_cipher_get_tag`, while the benchmark first sets its own to `SRTP_MAX_TAG_LEN` (line 644). The spec does not say whether a cipher may read the value. If it does, a correct cipher fails its own self-test with `bad_param`, depending on what the stack held. The run uses the GCM suite of the self-test entry point, with a cipher that neither fails nor misbehaves.
- **Zero rate after success (line 696).** A negative `clock()` difference becomes a huge unsigned divisor, and the benchmark returns 0 after a successful run.

The capacity check at line 365 repeats the check at line 261 on the same value. Its error return can never be taken; `KatCopyCiphertext` keeps it as the THEN branch of an IF, with a comment saying so.

## 6. Not modelled

- **The octets of the random plaintext, key and IV (lines 475, 490, 493)**: they are symbolic model values. Only the random length is computed from `rand()` results.
- **Debug formatting and logging**: only the extent of the dump is kept.
- **The concrete ciphers**: they are outside `src/`. The model replaces them with the abstract contract in `Cipher`.
- **Cryptographic strength**: outside the reach of a model checker.
- **Misbehaviour in the benchmark**: `bench` runs with `Faulty` FALSE. The benchmark measures a cipher its caller has already initialised, and it checks no output. With a correct cipher, `len` never changes across trials, so the body and tag always fit in `enc_buf`.
- **The random IV of the random trials (lines 493-503)**: it is drawn and then never used, since both directions use `test_case->idx`. The model keeps this as it is (`RandSetIvEnc`), and no property restates it.
- **What is left of `cipher.c`**: the map leaves out only the licence header, the includes and the declaration of the debug module `srtp_mod_cipher` (lines 1-63), and the defines of lines 204-206, which are the constants `SELF_TEST_BUF_OCTETS`, `NUM_RAND_TESTS` and `MAX_KEY_LEN`. Blank lines and the comments between functions are also unmapped. Every function of the file is modelled. `srtp_cipher_output` and `srtp_cipher_get_key_length` are modelled as operators that no run drives, so the dispatch layer is partly modelled. The component that remains partly modelled, the concrete ciphers, lies outside `src/`.
