------------------------------ MODULE SessionKeys ------------------------------
(***************************************************************************)
(* The session key and what it encrypts (src/crypto.rs).  A cipher is      *)
(* ideal: what was encrypted is read back with its key and only with it.   *)
(* The layouts around it are the code's, in smaller sizes.  A text is a    *)
(* sequence of code points, a byte a number.                               *)
(***************************************************************************)
EXTENDS PsrpMessages

BlockBytes == 4   \* sixteen in the code
RsaBytes   == 4   \* 256: SESSION_KEY_BLOCK_LEN, and the modulus
KeyBytes   == 2   \* thirty-two: a session key

-----------------------------------------------------------------------------
(* encrypt_secure_string.                                                  *)

\* encode_utf16
Utf16Units(s) ==
  FlattenSeq([i \in DOMAIN s |->
    IF s[i] < \h10000 THEN <<s[i]>>
    ELSE <<\hD800 + ((s[i] - \h10000) \div 1024), \hDC00 + ((s[i] - \h10000) % 1024)>>])

\* u16::to_le_bytes
LeBytes(units) == FlattenSeq([i \in DOMAIN units |-> <<units[i] % 256, units[i] \div 256>>])

\* Variant: what fills its blocks is not padded.
Pkcs7UnlessWhole(bytes) ==
  LET pad == (BlockBytes - (Len(bytes) % BlockBytes)) % BlockBytes IN bytes \o [i \in 1..pad |-> pad]

\* PKCS#7: as many bytes as a block lacks, each of them that number; never none.
Pkcs7(bytes) ==
  LET pad == BlockBytes - (Len(bytes) % BlockBytes) IN bytes \o [i \in 1..pad |-> pad]

\* CBC under the zero IV: a block depends on its key and all plain bytes up to it.
Cbc(key, bytes) ==
  [b \in 1..(Len(bytes) \div BlockBytes) |-> [key |-> key, plain |-> SubSeq(bytes, 1, b * BlockBytes)]]

EncryptSecureString(key, s) == Cbc(key, Pkcs7(LeBytes(Utf16Units(s))))

-----------------------------------------------------------------------------
(* decrypt_secure_string, of some blocks and `odd` bytes more.             *)

\* A block under another key, or after another block, is bytes nobody knows.
Unknown == [i \in 1..BlockBytes |-> -1]
UnchainBlock(key, blocks, b) ==
  LET plain  == blocks[b].plain
      before == SubSeq(plain, 1, Len(plain) - BlockBytes)
  IN  IF blocks[b].key = key /\ (IF b = 1 THEN before = <<>>
                                 ELSE blocks[b - 1] = [key |-> key, plain |-> before])
      THEN SubSeq(plain, Len(before) + 1, Len(plain)) ELSE Unknown
Unchain(key, blocks) == FlattenSeq([b \in DOMAIN blocks |-> UnchainBlock(key, blocks, b)])

\* The bytes before a valid padding: a set of at most one sequence.
Unpad(bytes) ==
  LET pad == bytes[Len(bytes)]
  IN  IF pad \in 1..BlockBytes /\ \A i \in 1..pad : bytes[Len(bytes) - i + 1] = pad
      THEN {SubSeq(bytes, 1, Len(bytes) - pad)} ELSE {}

\* String::from_utf16: surrogates only in pairs.
FromUtf16(units) ==
  LET high(i) == i \in DOMAIN units /\ units[i] \in \hD800..\hDBFF
      low(i)  == i \in DOMAIN units /\ units[i] \in \hDC00..\hDFFF
  IN  IF \E i \in DOMAIN units : (high(i) /\ ~low(i + 1)) \/ (low(i) /\ ~high(i - 1)) THEN {}
      ELSE {FlattenSeq([i \in DOMAIN units |->
              CASE high(i) -> <<\h10000 + 1024 * (units[i] - \hD800) + units[i + 1] - \hDC00>>
                [] low(i)  -> <<>>
                [] OTHER   -> <<units[i]>>])}

DecryptSecureString(key, blocks, odd) ==
  IF blocks = <<>> \/ odd # 0 THEN {}
  ELSE UNION {FromUtf16([i \in 1..(Len(bytes) \div 2) |-> bytes[2 * i - 1] + 256 * bytes[2 * i]])
                : bytes \in {b \in Unpad(Unchain(key, blocks)) : Len(b) % 2 = 0}}

-----------------------------------------------------------------------------
(* The exchange: a public key is a modulus and an exponent, both as bytes, *)
(* little-endian, without zeros at the end (to_bytes_le).                  *)

\* resize and truncate
Fit(bytes, size) == [i \in 1..size |-> IF i \in DOMAIN bytes THEN bytes[i] ELSE 0]

BlobHeader == <<6, 2, 0, 0>> \o Le(\hA400)
Rsa1       == <<82, 83, 65, 49>>

\* public_blob
PublicBlob(public) ==
  BlobHeader \o Rsa1 \o Le(8 * RsaBytes) \o Fit(public.exponent, 4) \o Fit(public.modulus, RsaBytes)

\* server_wrap_raw, with the key it finds in the blob.
SessionKeyBlobHeader == <<1, 2, 0, 0, 16, 102, 0, 0, 0, 164, 0, 0>>
ServerWrap(blob, key) ==
  [header |-> SessionKeyBlobHeader,
   block  |-> Reverse([i \in 1..RsaBytes |-> [to |-> SubSeq(blob, 17, Len(blob)), key |-> key, at |-> i]])]

\* decrypt_blinded, of bytes in big-endian order
RsaDecrypt(private, bytes) ==
  {c.key : c \in {d \in ToSet(bytes) :
                    /\ d.to = SubSeq(PublicBlob(private), 17, 20 + RsaBytes)
                    /\ bytes = [i \in 1..RsaBytes |-> [d EXCEPT !.at = i]]}}

\* decrypt_session_key
DecryptSessionKey(private, wrapped) ==
  IF wrapped.header # SessionKeyBlobHeader \/ Len(wrapped.block) # RsaBytes THEN {}
  ELSE {key \in RsaDecrypt(private, Reverse(wrapped.block)) : Len(key) = KeyBytes}
=============================================================================
