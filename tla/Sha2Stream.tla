----------------------------- MODULE Sha2Stream -----------------------------
(***************************************************************************)
(* What the SHA-2 compression function gets to see.                        *)
(*                                                                         *)
(* Every hash of the scheme goes through an incremental state: some blocks *)
(* are absorbed ahead (the HMAC key block, the secret key, the public seed *)
(* shared by all tweakable hashes), a short input is collected in a buffer *)
(* or a long one is split at a block boundary, and sha256_inc_finalize pads *)
(* what is left.  The AVX2 code pads for itself, with a length that starts *)
(* at the seed's.  The compression function is uninterpreted: a state is   *)
(* the bytes it has absorbed with the byte count kept beside it, a byte is *)
(* the name of its source and a position, and a digest stands for the      *)
(* stream that was absorbed for it.                                        *)
(***************************************************************************)
EXTENDS Integers, Sequences

CONSTANTS
    MessageLengths,                   \* bytes of the messages that are signed
    EntropyLengths,                   \* bytes of keygen entropy
    Counters,                         \* WOTS+C counters
    ThashBlocks,                      \* how many nodes thash is given
    SIZE_BITS                         \* width of size_t

SPX_N == 16
SPX_PK_BYTES == 32
SPX_SK_BYTES == 64
SPX_ADDR_BYTES == 22                  \* SPX_SHA256_ADDR_BYTES
KEYGEN_DOMAIN_BYTES == 56             \* sizeof(KEYGEN_DERIVE_DOMAIN) - 1
SPX_DGST_BYTES == 20                  \* FORS digest, tree and leaf index
Lanes == 0 .. 7

ASSUME LengthAssumption ==
    /\ MessageLengths \subseteq Nat
    /\ EntropyLengths \subseteq Nat
    /\ Counters \subseteq Nat
    /\ \A c \in Counters : c < 65536
    /\ ThashBlocks \subseteq Nat \ {0}
    /\ \A n \in EntropyLengths : n >= 128
    /\ SIZE_BITS \in Nat
    /\ SIZE_BITS <= 64

----------------------------------------------------------------------------
(* Bytes.                                                                  *)

Byte(src, lane, i) == [src |-> src, lane |-> lane, i |-> i]
LaneBytes(src, lane, n) == [i \in 1 .. n |-> Byte(src, lane, i)]
Bytes(src, n) == LaneBytes(src, 0, n)
Num(v) == Byte("num", 0, v)
Zeros(n) == [i \in 1 .. n |-> Num(0)]

\* x >> k
Shr(x, k) ==
    LET halved[j \in Nat] == IF j = 0 THEN x ELSE halved[j - 1] \div 2
    IN  halved[k]

\* u32_to_bytes, ull_to_bytes: n bytes, most significant first.
BigEndian(x, n) == [i \in 1 .. n |-> Num(Shr(x, 8 * (n - i)) % 256)]
LittleEndian(x, n) == [i \in 1 .. n |-> Num(Shr(x, 8 * (i - 1)) % 256)]

\* memcpy(b + at, x, Len(x)); a copy past the end makes the buffer longer.
Store(b, at, x) ==
    [i \in 1 .. (IF Len(b) >= at + Len(x) THEN Len(b) ELSE at + Len(x)) |->
        IF i \in at + 1 .. at + Len(x) THEN x[i - at]
        ELSE IF i <= Len(b) THEN b[i] ELSE Num(0)]

\* n bytes of x from offset at.
Slice(x, at, n) == SubSeq(x, at + 1, at + n)

----------------------------------------------------------------------------
(* The incremental interface of sha2.c, for SHA-256 and SHA-512.           *)

Hashes == {"sha256", "sha512"}
BlockBytes(h) == IF h = "sha256" THEN 64 ELSE 128
OutBytes(h) == IF h = "sha256" THEN 32 ELSE 64

IncInit == [absorbed |-> <<>>, bytes |-> 0]

\* sha256_inc_blocks, sha512_inc_blocks
IncBlocks(h, s, in, n) ==
    [absorbed |-> s.absorbed \o Slice(in, 0, BlockBytes(h) * n),
     bytes    |-> s.bytes + BlockBytes(h) * n]

\* Faulty variant: one byte too many is let into the block.
OneBlock_Late(h, inlen) == inlen <= (IF h = "sha256" THEN 56 ELSE 112)

\* Does the tail leave room for the length in its own block?
OneBlock(h, inlen) == inlen < (IF h = "sha256" THEN 56 ELSE 112)

\* Where the length starts in the last block, and how many bytes it has.
LengthAt(h) == IF h = "sha256" THEN 56 ELSE 119
LengthField(h, bytes) ==
    LET n == BlockBytes(h) - LengthAt(h)
    IN  [i \in 1 .. n |-> Num(IF i = n THEN (bytes * 8) % 256
                              ELSE Shr(bytes, 8 * (n - i) - 3) % 256)]

\* padded[]: the tail, 0x80, zeros, and the length over the end of it.
Padded(h, tail, bytes) ==
    LET end == IF OneBlock(h, Len(tail)) THEN LengthAt(h)
               ELSE BlockBytes(h) + LengthAt(h)
        b   == tail \o <<Num(128)>>
    IN  Store(b \o Zeros(end - Len(b)), end, LengthField(h, bytes))

\* sha256_inc_finalize, sha512_inc_finalize: the whole blocks, then the
\* padded tail.  What is absorbed in the end is the digest.
IncFinalize(h, s, in) ==
    LET inlen == Len(in) % BlockBytes(h)
        whole == Len(in) - inlen
    IN  s.absorbed \o Slice(in, 0, whole)
          \o Padded(h, Slice(in, whole, inlen), s.bytes + Len(in))

\* sha256, sha512
Hash(h, in) == IncFinalize(h, IncInit, in)

----------------------------------------------------------------------------
(* sha256x8_seeded, for one lane: the length is kept in bits and starts    *)
(* at seedlen.                                                             *)

SeedBits == 512

\* sha256_final8x: the data not yet hashed, padded to one block or two.
Final8x(absorbed, data, msglen) ==
    LET datalen == Len(data)
        block   == data \o <<Num(128)>> \o Zeros(63 - datalen)
        last    == IF datalen < 56 THEN block ELSE Zeros(64)
    IN  absorbed \o (IF datalen < 56 THEN <<>> ELSE block)
          \o Store(last, 56, BigEndian(msglen + 8 * datalen, 8))

Lane(seeded, in) ==
    LET datalen == Len(in) % 64
        whole   == Len(in) - datalen
    IN  Final8x(seeded.absorbed \o Slice(in, 0, whole), Slice(in, whole, datalen),
                SeedBits + 8 * whole)

----------------------------------------------------------------------------
VARIABLES
    pc,                               \* which hash is next
    len,                              \* the length argument of the call
    state,                            \* the incremental state
    buf,                              \* buf, inbuf or input of the function
    digests                           \* the streams of the finished hashes

vars == <<pc, len, state, buf, digests>>

Message == Bytes("m", len)

\* Finish: a digest under its name; its bytes are the ones callers copy.
Digest(name, stream) ==
    digests' = [n \in DOMAIN digests \cup {name} |->
                  IF n = name THEN [j \in {0} |-> stream] ELSE digests[n]]
DigestBytes(name, h) == Bytes(name, OutBytes(h))

\* Calls of the functions below, and their return.
Call ==
    /\ pc = "idle"
    /\ \/ /\ len' \in MessageLengths
          /\ pc' \in {"hmac_key", "h_msg", "derandomize"}
       \/ len' \in EntropyLengths /\ pc' = "keygen"
       \/ len' \in ThashBlocks /\ pc' = "seed_state"
       \/ len' \in Counters /\ pc' = "wotsc"
    /\ UNCHANGED <<state, buf, digests>>

Return ==
    /\ pc = "ret"
    /\ pc' = "idle"
    /\ len' = 0
    /\ state' = IncInit
    /\ buf' = <<>>
    /\ digests' = << >>

\* Faulty variant: what is already in the buffer is not counted.
FitsOneBlock_MessageOnly(prefix, mlen) == mlen < 64

\* "cannot fill up an entire block"
FitsOneBlock(prefix, mlen) == prefix + mlen < 64

----------------------------------------------------------------------------
(* gen_message_random: HMAC-SHA-256 keyed with SK_PRF over optrand and m.  *)

Pad(byte) == [i \in 1 .. 64 |-> Byte(byte, 0, IF i <= SPX_N THEN i ELSE 0)]

\* The key block.
HmacKey ==
    /\ pc = "hmac_key"
    /\ LET b == Store(Zeros(96), 0, Pad("ipad")) IN
         /\ state' = IncBlocks("sha256", IncInit, b, 1)
         /\ buf' = Store(b, 0, Bytes("optrand", SPX_N))
    /\ pc' = "hmac_message"
    /\ UNCHANGED <<len, digests>>

\* optrand and the message fit in front of the padding.
HmacShort ==
    /\ pc = "hmac_message"
    /\ FitsOneBlock(SPX_N, len)
    /\ LET b == Store(buf, SPX_N, Message) IN
         /\ Digest("inner", IncFinalize("sha256", state, Slice(b, 0, SPX_N + len)))
         /\ buf' = Store(b, 64, DigestBytes("inner", "sha256"))
    /\ pc' = "hmac_outer"
    /\ UNCHANGED <<len, state>>

\* Fill the block; the rest is hashed where it is.
HmacLong ==
    /\ pc = "hmac_message"
    /\ ~FitsOneBlock(SPX_N, len)
    /\ LET b == Store(buf, SPX_N, Slice(Message, 0, 64 - SPX_N))
           s == IncBlocks("sha256", state, b, 1)
           n == 64 - SPX_N
       IN  /\ Digest("inner", IncFinalize("sha256", s, Slice(Message, n, len - n)))
           /\ buf' = Store(b, 64, DigestBytes("inner", "sha256"))
           /\ state' = s
    /\ pc' = "hmac_outer"
    /\ UNCHANGED len

\* The outer hash reads the 96 bytes of buf and writes over their start.
HmacOuter ==
    /\ pc = "hmac_outer"
    /\ LET b == Store(buf, 0, Pad("opad")) IN
         /\ Digest("outer", Hash("sha256", Slice(b, 0, 96)))
         /\ buf' = Store(b, 0, DigestBytes("outer", "sha256"))
    /\ pc' = "ret"
    /\ UNCHANGED <<len, state>>

----------------------------------------------------------------------------
(* hash_message: SHA-256 of R, pk and m, stretched by MGF1.                *)

HPrefix == Bytes("R", SPX_N) \o Bytes("pk", SPX_PK_BYTES)

HMsgShort ==
    /\ pc = "h_msg"
    /\ FitsOneBlock(Len(HPrefix), len)
    /\ buf' = Store(Store(Zeros(64), 0, HPrefix), Len(HPrefix), Message)
    /\ Digest("seed", IncFinalize("sha256", IncInit, Slice(buf', 0, Len(HPrefix) + len)))
    /\ pc' = "mgf1"
    /\ UNCHANGED <<len, state>>

HMsgLong ==
    /\ pc = "h_msg"
    /\ ~FitsOneBlock(Len(HPrefix), len)
    /\ LET n == 64 - Len(HPrefix) IN
         /\ buf' = Store(Store(Zeros(64), 0, HPrefix), Len(HPrefix), Slice(Message, 0, n))
         /\ state' = IncBlocks("sha256", IncInit, buf', 1)
         /\ Digest("seed", IncFinalize("sha256", state', Slice(Message, n, len - n)))
    /\ pc' = "mgf1"
    /\ UNCHANGED len

\* mgf1_X_cached: the whole blocks of R, PK.seed and the digest once, then
\* the tail with the counter.  SPX_DGST_BYTES fit into the first output.
Mgf1 ==
    /\ pc = "mgf1"
    /\ LET in       == Bytes("R", SPX_N) \o Bytes("pk", SPX_N) \o DigestBytes("seed", "sha256")
           inblocks == Len(in) \div 64
           inrem    == Len(in) % 64
           seeded   == IncBlocks("sha256", IncInit, in, inblocks)
           i        == SPX_DGST_BYTES \div OutBytes("sha256")
           tail     == Slice(in, 64 * inblocks, inrem) \o BigEndian(i, 4)
       IN  Digest("mgf1", IncFinalize("sha256", seeded, tail))
    /\ pc' = "ret"
    /\ UNCHANGED <<len, state, buf>>

----------------------------------------------------------------------------
(* slh_dsa_derandomize, derive_keygen_seed_v1, wotsc_hash_counter          *)

\* The secret key is one block; two digests make the 64-byte seed.
Derandomize ==
    /\ pc = "derandomize"
    /\ state' = IncBlocks("sha256", IncInit, Bytes("sk", SPX_SK_BYTES), SPX_SK_BYTES \div 64)
    /\ Digest("digest0", IncFinalize("sha256", state', Message))
    /\ pc' = "derandomize1"
    /\ UNCHANGED <<len, buf>>

Derandomize1 ==
    /\ pc = "derandomize1"
    /\ Digest("digest1", Hash("sha256", DigestBytes("digest0", "sha256") \o <<Num(1)>>))
    /\ pc' = "ret"
    /\ UNCHANGED <<len, state, buf>>

\* Domain, a zero byte, the length in eight bytes, then the entropy.
MetadataSize == KEYGEN_DOMAIN_BYTES + 1 + 8

\* random_data_size > SIZE_MAX - metadata_size
TooLong == Shr(MetadataSize + len, SIZE_BITS) # 0

DeriveKeygenSeedFails ==
    /\ pc = "keygen"
    /\ TooLong
    /\ pc' = "ret"
    /\ UNCHANGED <<len, state, buf, digests>>

DeriveKeygenSeed ==
    /\ pc = "keygen"
    /\ ~TooLong
    /\ LET meta == MetadataSize
           b1 == Store(Zeros(meta + len), 0, Bytes("domain", KEYGEN_DOMAIN_BYTES))
           b2 == Store(b1, KEYGEN_DOMAIN_BYTES, Zeros(1))
           b3 == Store(b2, KEYGEN_DOMAIN_BYTES + 1, LittleEndian(len, 8))
       IN  buf' = Store(b3, meta, Bytes("entropy", len))
    /\ Digest("keygen", Hash("sha512", buf'))
    /\ pc' = "ret"
    /\ UNCHANGED <<len, state>>

WotscHashCounter ==
    /\ pc = "wotsc"
    /\ buf' = Store(Bytes("root", SPX_N), SPX_N,
                    <<Num(Shr(len, 8) % 256), Num(len % 256)>>)
    /\ Digest("wotsc", Hash("sha256", buf'))
    /\ pc' = "ret"
    /\ UNCHANGED <<len, state>>

----------------------------------------------------------------------------
(* seed_state, then thash or prf_addr, or eight of them at once.           *)

SeedState ==
    /\ pc = "seed_state"
    /\ buf' = Bytes("pub_seed", SPX_N) \o Zeros(128 - SPX_N)
    /\ state' = IncBlocks("sha256", IncInit, buf', 1)
    /\ pc' \in {"thash", "thashx8", "prf", "prfx8"}
    /\ UNCHANGED <<len, digests>>

Thash ==
    /\ pc = "thash"
    /\ buf' = Store(Bytes("addr", SPX_ADDR_BYTES), SPX_ADDR_BYTES,
                    Bytes("in", len * SPX_N))
    /\ Digest("thash", IncFinalize("sha256", state, buf'))
    /\ pc' = "ret"
    /\ UNCHANGED <<len, state>>

\* bufx8: the eight inputs one after the other.
ThashX8 ==
    /\ pc = "thashx8"
    /\ LET n == SPX_ADDR_BYTES + len * SPX_N IN
         /\ buf' = [i \in 1 .. 8 * n |->
                      LET j == (i - 1) \div n
                          k == i - j * n
                      IN  IF k <= SPX_ADDR_BYTES THEN Byte("addr", j, k)
                          ELSE Byte("in", j, k - SPX_ADDR_BYTES)]
         /\ digests' = [d \in {"thash"} |->
                          [j \in Lanes |-> Lane(state, Slice(buf', j * n, n))]]
    /\ pc' = "ret"
    /\ UNCHANGED <<len, state>>

\* prf_addr: the address and SK_SEED, in a buffer that is wiped.
PrfAddr ==
    /\ pc = "prf"
    /\ LET in == Bytes("addr", SPX_ADDR_BYTES) \o Bytes("sk_seed", SPX_N)
       IN  /\ Digest("prf", IncFinalize("sha256", state, in))
           /\ buf' = Zeros(Len(in))
    /\ pc' = "ret"
    /\ UNCHANGED <<len, state>>

\* prf_addrx8: eight addresses, each followed by the same SK_SEED.
PrfAddrX8 ==
    /\ pc = "prfx8"
    /\ LET n == SPX_ADDR_BYTES + SPX_N
           bufx8 == [i \in 1 .. 8 * n |->
                       LET j == (i - 1) \div n
                           k == i - j * n
                       IN  IF k <= SPX_ADDR_BYTES THEN Byte("addr", j, k)
                           ELSE Byte("sk_seed", 0, k - SPX_ADDR_BYTES)]
       IN  /\ digests' = [d \in {"prf"} |->
                            [j \in Lanes |-> Lane(state, Slice(bufx8, j * n, n))]]
           /\ buf' = Zeros(8 * n)
    /\ pc' = "ret"
    /\ UNCHANGED <<len, state>>

----------------------------------------------------------------------------
Init ==
    /\ pc = "idle"
    /\ len = 0
    /\ state = IncInit
    /\ buf = <<>>
    /\ digests = << >>

Next ==
    \/ Call \/ HmacKey \/ HmacShort \/ HmacLong \/ HmacOuter
    \/ HMsgShort \/ HMsgLong \/ Mgf1 \/ Derandomize \/ Derandomize1
    \/ DeriveKeygenSeed \/ DeriveKeygenSeedFails \/ WotscHashCounter \/ SeedState \/ Thash \/ ThashX8
    \/ PrfAddr \/ PrfAddrX8 \/ Return

Spec == Init /\ [][Next]_vars

----------------------------------------------------------------------------
(* The reference: FIPS 180-4 padding of the message as a whole.            *)

LengthBytes(h) == IF h = "sha256" THEN 8 ELSE 16

Fips(h, x) ==
    LET k == CHOOSE k \in 0 .. BlockBytes(h) - 1 :
               (Len(x) + 1 + k + LengthBytes(h)) % BlockBytes(h) = 0
    IN  x \o <<Num(128)>> \o Zeros(k) \o BigEndian(8 * Len(x), LengthBytes(h))

\* If digest name is there, it is the SHA-256 digest of x.
Digested(name, x) == name \in DOMAIN digests => digests[name][0] = Fips("sha256", x)

\* What lane j of thash and of prf_addr should hash.
MeantLane(name, j) ==
    Fips("sha256", Bytes("pub_seed", SPX_N) \o Zeros(64 - SPX_N)
                     \o LaneBytes("addr", j, SPX_ADDR_BYTES)
                     \o (IF name = "thash" THEN LaneBytes("in", j, len * SPX_N)
                         ELSE Bytes("sk_seed", SPX_N)))

\* What the buffers of the functions hold in C.
Capacity == [hmac |-> 96, h_msg |-> 64]

\* The incremental state is at a block boundary with the right count, and no
\* copy leaves the buffer of gen_message_random or hash_message, however long
\* the message is.
TypeOK ==
    /\ len \in Nat
    /\ state.bytes = Len(state.absorbed)
    /\ state.bytes % 64 = 0
    /\ pc \in {"hmac_message", "hmac_outer"} => Len(buf) = Capacity["hmac"]
    /\ pc = "mgf1" => Len(buf) = Capacity["h_msg"]

\* Every digest is the SHA-2 digest of the message it is meant to be of, nothing
\* skipped, repeated or padded short at any length, whichever branch splits the
\* input: those of gen_message_random, hash_message, slh_dsa_derandomize,
\* derive_keygen_seed_v1 and wotsc_hash_counter, and those of thash and prf_addr
\* from the cached public-seed state, in the scalar code and in each of the
\* eight lanes of the AVX2 code, which so compute the same secrets and nodes.
DigestsWhatIsMeant ==
    /\ Digested("inner", Pad("ipad") \o Bytes("optrand", SPX_N) \o Message)
    /\ Digested("outer", Pad("opad") \o DigestBytes("inner", "sha256"))
    /\ Digested("seed", HPrefix \o Message)
    /\ Digested("mgf1", Bytes("R", SPX_N) \o Bytes("pk", SPX_N)
                          \o DigestBytes("seed", "sha256") \o BigEndian(0, 4))
    /\ Digested("digest0", Bytes("sk", SPX_SK_BYTES) \o Message)
    /\ Digested("digest1", DigestBytes("digest0", "sha256") \o <<Num(1)>>)
    /\ Digested("wotsc", Bytes("root", SPX_N) \o BigEndian(len, 2))
    /\ "keygen" \in DOMAIN digests =>
         digests["keygen"][0] =
           Fips("sha512", Bytes("domain", KEYGEN_DOMAIN_BYTES) \o Zeros(1)
                            \o LittleEndian(len, 8) \o Bytes("entropy", len))
    /\ \A name \in DOMAIN digests \cap {"thash", "prf"} :
         \A j \in DOMAIN digests[name] : digests[name][j] = MeantLane(name, j)
=============================================================================
